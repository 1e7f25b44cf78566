-------------------------- MODULE IngressDelivery --------------------------
(***************************************************************************)
(* The way of a harness report from the hook process that sends it to the  *)
(* observer's database: two bounded deliveries around an auto-start, the   *)
(* spool file when both fail (packages/provider-hooks), the ingress queue  *)
(* and its worker, the drain of the spool, and the ingestion both end in   *)
(* (apps/observer/src/hooks), with the observer crashing and restarting.   *)
(***************************************************************************)
EXTENDS HarnessIngressQueue

CONSTANTS Reconciler,  \* the caller of drain() that a reconcile is
          MaxFaults,   \* bound: writes that fail in a run
          MaxCrashes   \* bound: crashes of the observer in a run

ASSUME IngressDeliveryAssumption ==
  MaxFaults \in Nat /\ MaxCrashes \in Nat /\ Reconciler \in Caller

VARIABLES observer,   \* up or down
          sender,     \* where the hook process of a report stands
          socket,     \* delivery attempts the observer has not handled
          file,       \* the report's spool file: none, partial or whole
          claimed,    \* ingress dedupe keys, with their event and observation, in sqlite
          handles,    \* recovery handles in sqlite
          announced,  \* history: harness.eventReported published, per report
          ingest,     \* the ingestion under way in the worker and in the spool drain
          reconciling,  \* what the reconcile that drains waits for: the spool, the queue
          listing,    \* configuredSpoolDrain is set and its readdir under way
          drainList,  \* spool files the drain has read from the directory and not reached
          faults, crashes

spoolDrainVars == <<reconciling, listing, drainList>>
store == <<claimed, handles, announced>>
bounds == <<faults, crashes>>
vars == <<queueVars, observer, sender, socket, file, store, ingest, spoolDrainVars, bounds>>

Attempt == {1, 2}
Actor == {"worker", "spool"}
SenderState == {"idle", "first", "starting", "second", "spooling", "writing",
                "acked", "spooled", "failed"}
Stage == {"none", "claim", "handle", "publish", "accepted",
          "rejected", "rewriting", "caught", "rewritingCaught"}
Nothing == [report |-> NoReport, stage |-> "none"]

TypeOK ==
  /\ QueueTypeOK
  /\ observer \in {"up", "down"}
  /\ sender \in [Report -> SenderState]
  /\ socket \in SUBSET (Report \X Attempt)
  /\ file \in [Report -> {"none", "partial", "whole"}]
  /\ claimed \in SUBSET Report /\ handles \in SUBSET Report
  /\ announced \in [Report -> Nat]
  /\ ingest \in [Actor -> [report : Report \cup {NoReport}, stage : Stage]]
  /\ reconciling \in {"no", "spool", "queue"}
  /\ listing \in BOOLEAN
  /\ drainList \in SUBSET Report
  /\ faults \in 0..MaxFaults /\ crashes \in 0..MaxCrashes

Init ==
  /\ QueueInit
  /\ observer \in {"up", "down"}
  /\ sender = [r \in Report |-> "idle"]
  /\ socket = {}
  /\ file = [r \in Report |-> "none"]
  /\ claimed = {} /\ handles = {}
  /\ announced = [r \in Report |-> 0]
  /\ ingest = [a \in Actor |-> Nothing]
  /\ reconciling = "no"
  /\ listing = (observer = "up")
  /\ drainList = {}
  /\ faults = 0 /\ crashes = 0

Up == observer = "up"
Fault == faults < MaxFaults /\ faults' = faults + 1 /\ UNCHANGED crashes
Become(r, s) == sender' = [sender EXCEPT ![r] = s]
Put(r, f) == file' = [file EXCEPT ![r] = f]
Stand(a, s) == ingest' = [ingest EXCEPT ![a].stage = s]

-----------------------------------------------------------------------------
(* The sender: deliverProviderHookWithSpooling. *)

(* A delivery reaches the socket only while the observer listens. *)
Deliver(r, n, s) ==
  /\ Become(r, s)
  /\ socket' = IF Up THEN socket \cup {<<r, n>>} ELSE socket
  /\ UNCHANGED <<queueVars, observer, file, store, ingest, spoolDrainVars, bounds>>

FirstDelivery(r) == sender[r] = "idle" /\ Deliver(r, 1, "first")
SecondDelivery(r) == sender[r] = "starting" /\ Up /\ Deliver(r, 2, "second")

(* Mutant: the sender tries a third time. *)
UndeliveredRetries(r) ==
  /\ \/ sender[r] = "first" /\ (Become(r, "starting") \/ Become(r, "spooling"))
     \/ sender[r] = "starting" /\ Become(r, "spooling")
     \/ sender[r] = "second" /\ Become(r, "third")
  /\ UNCHANGED <<queueVars, observer, socket, file, store, ingest, spoolDrainVars, bounds>>

(* No receipt of acceptance: refused, timed out, or rejected. *)
Undelivered(r) ==
  /\ \/ sender[r] = "first" /\ (Become(r, "starting") \/ Become(r, "spooling"))
     \/ sender[r] \in {"starting", "second"} /\ Become(r, "spooling")
  /\ UNCHANGED <<queueVars, observer, socket, file, store, ingest, spoolDrainVars, bounds>>

(* writeFile with flag wx: the name appears before its content. *)
OpenSpoolFile(r) ==
  /\ sender[r] = "spooling"
  /\ Become(r, "writing")
  /\ Put(r, "partial")
  /\ UNCHANGED <<queueVars, observer, socket, store, ingest, spoolDrainVars, bounds>>

CloseSpoolFile(r) ==
  /\ sender[r] = "writing"
  /\ Become(r, "spooled")
  /\ Put(r, "whole")
  /\ UNCHANGED <<queueVars, observer, socket, store, ingest, spoolDrainVars, bounds>>

SpoolThrows(r) ==
  /\ sender[r] = "spooling"
  /\ Fault
  /\ Become(r, "failed")
  /\ UNCHANGED <<queueVars, observer, socket, file, store, ingest, spoolDrainVars>>

(* The auto-start, by this sender, another one or a client.  The startup   *)
(* drains the spool without being `reconciling', and waits for nothing.    *)
StartObserver ==
  /\ ~Up
  /\ observer' = "up"
  /\ listing' = TRUE
  /\ UNCHANGED <<queueVars, sender, socket, file, store, ingest, reconciling, drainList, bounds>>

-----------------------------------------------------------------------------
(* The observer's socket: validate and enqueue, then answer.  An answer is *)
(* lost on a sender that has stopped waiting, or comes too late for it.    *)
Waiting(r, n) == sender[r] = (IF n = 1 THEN "first" ELSE "second")

(* Mutant: a rejected report is acknowledged like an accepted one. *)
HandleAcksAll(r, n) ==
  /\ Up
  /\ <<r, n>> \in socket
  /\ socket' = socket \ {<<r, n>>}
  /\ Enqueue(r) \/ EnqueueDeduped(r) \/ EnqueueRejected(r)
  /\ (Waiting(r, n) /\ Become(r, "acked")) \/ UNCHANGED sender
  /\ UNCHANGED <<observer, file, store, ingest, spoolDrainVars, bounds>>

Handle(r, n) ==
  /\ Up
  /\ <<r, n>> \in socket
  /\ socket' = socket \ {<<r, n>>}
  /\ \/ /\ Enqueue(r) \/ EnqueueDeduped(r)
        /\ \/ Waiting(r, n) /\ Become(r, "acked")
           \/ UNCHANGED sender
     \/ EnqueueRejected(r) /\ UNCHANGED sender
  /\ UNCHANGED <<observer, file, store, ingest, spoolDrainVars, bounds>>

-----------------------------------------------------------------------------
(* Ingestion, by the queue's worker and by the spool drain alike. *)

(* A write fails by chance, or because sqlite is closed after the queue has *)
(* stopped and the drain of the spool is still under way.                   *)
StoreThrows == Fault \/ (stopped /\ UNCHANGED bounds)

(* Mutant: a dedupe key that exists already is claimed again. *)
NeverKnown(a) == FALSE
Known(a) == ingest[a].report \in claimed

(* The dedupe key, the event and the observation, in one transaction. *)
Claim(a) ==
  /\ ingest[a].stage = "claim"
  /\ \/ Known(a) /\ Stand(a, "accepted") /\ UNCHANGED <<claimed, bounds>>
     \/ /\ ~Known(a)
        /\ claimed' = claimed \cup {ingest[a].report}
        /\ Stand(a, "handle")
        /\ UNCHANGED bounds
     \/ StoreThrows /\ Stand(a, "rejected") /\ UNCHANGED claimed
  /\ UNCHANGED <<queueVars, observer, sender, socket, file, handles, announced, spoolDrainVars>>

(* The recovery handle, in a transaction of its own. *)
UpsertHandle(a) ==
  /\ ingest[a].stage = "handle"
  /\ \/ handles' = handles \cup {ingest[a].report} /\ Stand(a, "publish") /\ UNCHANGED bounds
     \/ StoreThrows /\ Stand(a, "rejected") /\ UNCHANGED handles
  /\ UNCHANGED <<queueVars, observer, sender, socket, file, claimed, announced, spoolDrainVars>>

(* Publish, project the status and ask for a reconcile: AskReconcile is    *)
(* free to follow at any time.                                             *)
Publish(a) ==
  /\ ingest[a].stage = "publish"
  /\ announced' = [announced EXCEPT ![ingest[a].report] = @ + 1]
  /\ Stand(a, "accepted")
  /\ UNCHANGED <<queueVars, observer, sender, socket, file, claimed, handles, spoolDrainVars,
                 bounds>>

Ingest(a) == Claim(a) \/ UpsertHandle(a) \/ Publish(a)

WorkerTakes ==
  /\ Up
  /\ Take
  /\ ingest' = [ingest EXCEPT !["worker"] = [report |-> current', stage |-> "claim"]]
  /\ UNCHANGED <<observer, sender, socket, file, store, spoolDrainVars, bounds>>

WorkerFinishes ==
  /\ ingest["worker"].stage \in {"accepted", "rejected"}
  /\ Finish
  /\ ingest' = [ingest EXCEPT !["worker"] = Nothing]
  /\ UNCHANGED <<observer, sender, socket, file, store, spoolDrainVars, bounds>>

-----------------------------------------------------------------------------
(* The drains of a reconcile: of the spool, one at a time, then of the     *)
(* queue.                                                                  *)

(* configuredSpoolDrain is set. *)
SpoolDrainRuns == listing \/ drainList # {} \/ ingest["spool"] # Nothing

(* A client, a command or the scheduler asks for a reconcile.  It joins a  *)
(* drain that runs, whose readdir may be over, or begins one.  One asked   *)
(* while another is `reconciling' drains nothing and changes nothing here. *)
AskReconcile ==
  /\ Up
  /\ reconciling = "no"
  /\ reconciling' = "spool"
  /\ listing' = (listing \/ ~SpoolDrainRuns)
  /\ UNCHANGED <<queueVars, observer, sender, socket, file, store, ingest, drainList, bounds>>

ReadSpoolDirectory ==
  /\ listing
  /\ listing' = FALSE
  /\ drainList' = {r \in Report : file[r] # "none"}
  /\ UNCHANGED <<queueVars, observer, sender, socket, file, store, ingest, reconciling, bounds>>

ReconcileDrainsQueue ==
  /\ reconciling = "spool" /\ ~SpoolDrainRuns
  /\ reconciling' = "queue"
  /\ Drain(Reconciler)
  /\ UNCHANGED <<observer, sender, socket, file, store, ingest, listing, drainList, bounds>>

(* reconciling is reset, and core.reconcile follows. *)
ReconcileDrained ==
  /\ reconciling = "queue" /\ Reconciler \notin waiters
  /\ reconciling' = "no"
  /\ UNCHANGED <<queueVars, observer, sender, socket, file, store, ingest, listing, drainList,
                 bounds>>

(* Mutant: a file that does not parse ends the drain. *)
ReadSpoolFileOrStop(r) ==
  /\ r \in drainList /\ ingest["spool"] = Nothing
  /\ IF file[r] = "whole"
       THEN /\ drainList' = drainList \ {r}
            /\ ingest' = [ingest EXCEPT !["spool"] = [report |-> r, stage |-> "claim"]]
       ELSE drainList' = {} /\ UNCHANGED ingest
  /\ UNCHANGED <<queueVars, observer, sender, socket, file, store, reconciling, listing, bounds>>

(* A file that does not parse is left where it is. *)
ReadSpoolFile(r) ==
  /\ r \in drainList /\ ingest["spool"] = Nothing
  /\ drainList' = drainList \ {r}
  /\ ingest' = IF file[r] = "whole"
                 THEN [ingest EXCEPT !["spool"] = [report |-> r, stage |-> "claim"]]
                 ELSE ingest
  /\ UNCHANGED <<queueVars, observer, sender, socket, file, store, reconciling, listing, bounds>>

(* Mutant: the file goes whatever became of its report. *)
UnlinkSpoolFileAlways ==
  /\ ingest["spool"].stage \in {"accepted", "rejected"}
  /\ Put(ingest["spool"].report, "none")
  /\ ingest' = [ingest EXCEPT !["spool"] = Nothing]
  /\ UNCHANGED <<queueVars, observer, sender, socket, store, spoolDrainVars, bounds>>

UnlinkSpoolFile ==
  /\ ingest["spool"].stage = "accepted"
  /\ Put(ingest["spool"].report, "none")
  /\ ingest' = [ingest EXCEPT !["spool"] = Nothing]
  /\ UNCHANGED <<queueVars, observer, sender, socket, store, spoolDrainVars, bounds>>

(* An unlink that fails is caught: the record is rewritten as failed. *)
UnlinkThrows ==
  /\ ingest["spool"].stage = "accepted"
  /\ Fault
  /\ Stand("spool", "caught")
  /\ UNCHANGED <<queueVars, observer, sender, socket, file, store, spoolDrainVars>>

(* updateFailedSpoolRecord writes the file in place: it is truncated first. *)
TruncateSpoolFile ==
  /\ \/ ingest["spool"].stage = "rejected" /\ Stand("spool", "rewriting")
     \/ ingest["spool"].stage = "caught" /\ Stand("spool", "rewritingCaught")
  /\ Put(ingest["spool"].report, "partial")
  /\ UNCHANGED <<queueVars, observer, sender, socket, store, spoolDrainVars, bounds>>

RewriteSpoolFile ==
  /\ ingest["spool"].stage \in {"rewriting", "rewritingCaught"}
  /\ Put(ingest["spool"].report, "whole")
  /\ ingest' = [ingest EXCEPT !["spool"] = Nothing]
  /\ UNCHANGED <<queueVars, observer, sender, socket, store, spoolDrainVars, bounds>>

(* A rewrite that fails, before or after the file is truncated, is caught   *)
(* and tried once more.                                                     *)
RewriteThrows ==
  /\ ingest["spool"].stage \in {"rejected", "rewriting"}
  /\ Fault
  /\ Stand("spool", "caught")
  /\ UNCHANGED <<queueVars, observer, sender, socket, file, store, spoolDrainVars>>

(* A rewrite that fails in the catch ends the drain, with the rest of the  *)
(* directory unread, and the reconcile that waits for it.  It counts as    *)
(* the same fault as the failure that was caught.                          *)
SpoolDrainThrows ==
  /\ ingest["spool"].stage \in {"caught", "rewritingCaught"}
  /\ drainList' = {}
  /\ ingest' = [ingest EXCEPT !["spool"] = Nothing]
  /\ reconciling' = "no"
  /\ UNCHANGED <<queueVars, observer, sender, socket, file, store, listing, bounds>>

SpoolDrainStep == \/ ReadSpoolDirectory \/ \E r \in Report : ReadSpoolFile(r)
                  \/ UnlinkSpoolFile \/ TruncateSpoolFile \/ RewriteSpoolFile
ReconcileStep == ReconcileDrainsQueue \/ ReconcileDrained

-----------------------------------------------------------------------------
(* Stop, crash. *)

StopQueue ==
  /\ Up
  /\ ShutDown \/ StopWorker
  /\ UNCHANGED <<observer, sender, socket, file, store, ingest, spoolDrainVars, bounds>>

(* What is in memory is gone: the queue, its memory of ids, what it had    *)
(* accepted, and the ingestions under way.  A process that stops by itself *)
(* lets a drain under way run to its end.                                  *)
ObserverGone ==
  /\ Up
  /\ \/ stopped /\ ~SpoolDrainRuns /\ UNCHANGED bounds
     \/ crashes < MaxCrashes /\ crashes' = crashes + 1 /\ UNCHANGED faults
  /\ observer' = "down"
  /\ pending' = [k \in Key |-> NoReport] /\ workQueue' = <<>> /\ seen' = <<>>
  /\ active' = 0 /\ current' = NoReport /\ waiters' = {}
  /\ shuttingDown' = FALSE /\ stopped' = FALSE
  /\ enqueued' = 0
  /\ fate' = [r \in Report |-> IF fate[r] = "queued" THEN "unknown" ELSE fate[r]]
  /\ ingest' = [a \in Actor |-> Nothing]
  /\ socket' = {} /\ reconciling' = "no" /\ listing' = FALSE /\ drainList' = {}
  /\ UNCHANGED <<sender, file, store>>

SenderStep(r) == \/ SecondDelivery(r) \/ Undelivered(r) \/ OpenSpoolFile(r) \/ CloseSpoolFile(r)

Next ==
  \/ \E r \in Report : FirstDelivery(r) \/ SenderStep(r) \/ SpoolThrows(r)
  \/ \E r \in Report, n \in Attempt : Handle(r, n)
  \/ \E a \in Actor : Ingest(a)
  \/ WorkerTakes \/ WorkerFinishes
  \/ AskReconcile \/ ReconcileStep
  \/ SpoolDrainStep \/ UnlinkThrows \/ RewriteThrows \/ SpoolDrainThrows
  \/ StartObserver \/ StopQueue \/ ObserverGone

Spec == Init /\ [][Next]_vars

(* The observer's event loop runs the worker and the drain.  Nobody is     *)
(* obliged to start an observer, to send a report or to answer in time.    *)
WorkerStep == WorkerTakes \/ Ingest("worker") \/ WorkerFinishes
SpoolStep == SpoolDrainStep \/ Ingest("spool") \/ ReconcileStep
Fairness == WF_vars(WorkerStep) /\ WF_vars(SpoolStep)

FairSpec == Spec /\ Fairness

-----------------------------------------------------------------------------
(* Properties. *)

(* However often a report is delivered - twice by its sender, from the     *)
(* spool after a delivery that was only slow, again after a crash before   *)
(* the unlink - it is published and projected at most once.                *)
AnnouncedOnce == \A r \in Report : announced[r] <= 1

(* What subscribers are told of a report is in the database already, its   *)
(* recovery handle included (ingestion.ts:213-237).                        *)
AnnouncedIsStored == \A r \in Report : announced[r] > 0 => r \in claimed /\ r \in handles

(* However deliveries, drains, failed writes and crashes fall, a report is *)
(* announced at most once, and only when all of it is stored.              *)
AnnouncedOnceStored == AnnouncedOnce /\ AnnouncedIsStored

(* The file of a spooled report keeps its name until its ingestion has been *)
(* claimed, over failing drains and crashes.  A truncated file counts: that *)
(* the content lasts is SpoolIsDurable, which is refuted.                   *)
SpooledIsKept ==
  \A r \in Report : sender[r] = "spooled" => file[r] # "none" \/ r \in claimed

(* A report a sender was told is accepted is stored, waits in the queue, or *)
(* gave way to a newer one of its key, short of a crash or a failed write.  *)
AckedIsHeld ==
  faults = 0 /\ crashes = 0
    => \A r \in Report : sender[r] = "acked" => r \in claimed \/ fate[r] \in {"queued", "superseded"}

(* An accepted report reaches the database while the observer keeps running. *)
AckedReachesStore ==
  \A r \in Report :
    sender[r] = "acked" ~> r \in claimed \/ fate[r] = "superseded" \/ ~Up

(* What a drain has read from the directory and can be parsed is delivered, *)
(* short of failed writes: no unreadable neighbour, no report the worker    *)
(* ingests meanwhile and no reconcile that joins stands in its way.         *)
ListedIsDelivered ==
  \A r \in Report :
    r \in drainList /\ file[r] = "whole" ~> file[r] = "none" \/ ~Up \/ stopped \/ faults > 0

(* The drains before a reconcile come to an end, over files that are still  *)
(* written, full queues and a shutdown: as long as one is `reconciling', no *)
(* other reads the spool (api.ts:236).                                      *)
DrainsLeadToReconcile == reconciling # "no" ~> reconciling = "no"

(* Claimed by harness_socket_ingress_and_observer_queue_plan.md, refuted:  *)
(* the spool is durable, so a spooled report stays readable until it is    *)
(* claimed, also when the observer crashes.                                *)
SpoolIsDurable ==
  \A r \in Report :
    sender[r] = "spooled" => \/ file[r] = "whole" \/ r \in claimed
                            \/ /\ ingest["spool"].report = r
                               /\ ingest["spool"].stage \in {"rewriting", "rewritingCaught"}
=============================================================================
