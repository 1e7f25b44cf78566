-------------------------- MODULE IngressDeliveryProofs --------------------------
(***************************************************************************)
(* A report is announced once, after it is stored, and is neither lost     *)
(* from the spool nor after its acknowledgement, for every set of reports, *)
(* agents and callers, every size of the queue, and any number of crashes  *)
(* and failed writes.  The queue's own invariant carries over: every step  *)
(* of the delivery is a step of the queue, leaves it alone, or is the end  *)
(* of the observer, after which it is a fresh queue.                       *)
(***************************************************************************)
EXTENDS IngressDelivery, HarnessIngressQueueProofs

(* The ingestion under way in the worker is that of the report it has      *)
(* taken, and the one in the spool drain is of some report.                *)
ActorsHold ==
  /\ ingest["worker"].report = current
  /\ ingest["worker"].stage # "none" <=> current # NoReport
  /\ ingest["spool"].stage # "none" => ingest["spool"].report \in Report

(* Past its claim an ingestion is of a claimed report, which nobody else   *)
(* can claim and nobody has announced.                                     *)
Claiming(a) == ingest[a].stage \in {"handle", "publish"}
StagesFollow ==
  /\ \A a \in Actor :
       /\ ingest[a].stage \in {"handle", "publish", "accepted"} => ingest[a].report \in claimed
       /\ ingest[a].stage = "publish" => ingest[a].report \in handles
       /\ Claiming(a) => announced[ingest[a].report] = 0
  /\ Claiming("worker") /\ Claiming("spool") => ingest["worker"].report # ingest["spool"].report

(* Short of failures the queue remembers and acknowledges only what is in  *)
(* the database, in the queue, or has given way.                           *)
Kept(r) == r \in claimed \/ fate[r] \in {"queued", "superseded"}
SeenIsKept ==
  faults = 0 /\ crashes = 0 =>
    /\ ingest["worker"].stage # "rejected"
    /\ \A r \in SeenIds : Kept(r)

IInv ==
  /\ TypeOK /\ QueueInv /\ ActorsHold
  /\ StagesFollow /\ AnnouncedOnce /\ AnnouncedIsStored
  /\ SpooledIsKept
  /\ SeenIsKept /\ AckedIsHeld

-----------------------------------------------------------------------------
(* The actions by what they do to the queue. *)

QuietQueue ==
  \/ \E r \in Report : FirstDelivery(r) \/ SenderStep(r) \/ SpoolThrows(r)
  \/ \E a \in Actor : Ingest(a)
  \/ AskReconcile \/ ReconcileDrained \/ SpoolDrainStep
  \/ UnlinkThrows \/ RewriteThrows \/ SpoolDrainThrows \/ StartObserver
  \/ UNCHANGED vars

LEMMA QuietQueueStays == QuietQueue => UNCHANGED queueVars
<1> SUFFICES ASSUME QuietQueue PROVE UNCHANGED queueVars
  OBVIOUS
<1>1. ASSUME NEW r \in Report, FirstDelivery(r) \/ SenderStep(r) \/ SpoolThrows(r)
      PROVE  UNCHANGED queueVars
  BY <1>1 DEF FirstDelivery, SenderStep, SpoolThrows, SecondDelivery, Deliver, Undelivered,
              OpenSpoolFile, CloseSpoolFile
<1>2. ASSUME NEW a \in Actor, Ingest(a) PROVE UNCHANGED queueVars
  BY <1>2 DEF Ingest, Claim, UpsertHandle, Publish
<1>3. CASE SpoolDrainStep
  BY <1>3 DEF SpoolDrainStep, ReadSpoolDirectory, ReadSpoolFile, UnlinkSpoolFile, TruncateSpoolFile, RewriteSpoolFile
<1>4. CASE AskReconcile \/ ReconcileDrained \/ UnlinkThrows \/ RewriteThrows \/ SpoolDrainThrows
          \/ StartObserver
  BY <1>4 DEF AskReconcile, ReconcileDrained, UnlinkThrows, RewriteThrows, SpoolDrainThrows, StartObserver
<1>5. CASE UNCHANGED vars
  BY <1>5 DEF vars
<1> QED
  BY <1>1, <1>2, <1>3, <1>4, <1>5 DEF QuietQueue

LEMMA NextCases ==
  [Next]_vars => \/ QuietQueue
                 \/ \E r \in Report, n \in Attempt : Handle(r, n)
                 \/ WorkerTakes \/ WorkerFinishes \/ ReconcileDrainsQueue
                 \/ StopQueue \/ ObserverGone
BY DEF Next, ReconcileStep, QuietQueue

LEMMA QueueSteps ==
  ASSUME QueueInv, [Next]_vars, ~ObserverGone PROVE [QueueNext]_queueVars
<1>1. ASSUME NEW r \in Report, NEW n \in Attempt, Handle(r, n) PROVE QueueNext
  BY <1>1 DEF Handle, QueueNext
<1>2. CASE WorkerTakes
  BY <1>2 DEF WorkerTakes, QueueNext, Work
<1>3. CASE WorkerFinishes
  BY <1>3 DEF WorkerFinishes, QueueNext, Work
<1>4. CASE StopQueue
  BY <1>4 DEF StopQueue, QueueNext
<1>5. CASE ReconcileDrainsQueue
  BY <1>5, IngressDeliveryAssumption DEF ReconcileDrainsQueue, QueueNext
<1> QED
  BY <1>1, <1>2, <1>3, <1>4, <1>5, NextCases, QuietQueueStays

LEMMA GoneQueue == ASSUME QueueInv, ObserverGone PROVE FreshQueue'
BY DEF ObserverGone, FreshQueue, QueueInv, QueueTypeOK, Fate

(* The queue keeps its invariant in whatever surrounds it. *)
LEMMA QueueInvKept == ASSUME QueueInv, [Next]_vars PROVE QueueInv'
<1>1. CASE ObserverGone
  <2>1. FreshQueue'
    BY <1>1, GoneQueue
  <2>2. FreshQueue' => QueueInv'
    BY FreshQueueHolds, PTL
  <2> QED
    BY <2>1, <2>2
<1>2. CASE ~ObserverGone
  BY <1>2, QueueSteps, QueueInvStep
<1> QED
  BY <1>1, <1>2

-----------------------------------------------------------------------------
(* Types. *)

LEMMA BoundsKept ==
  ASSUME TypeOK, [Next]_vars
  PROVE  /\ faults' \in 0..MaxFaults /\ crashes' \in 0..MaxCrashes
         /\ faults' >= faults /\ crashes' >= crashes
<1>1. faults \in Nat /\ crashes \in Nat /\ faults \in 0..MaxFaults /\ crashes \in 0..MaxCrashes
  BY IngressDeliveryAssumption DEF TypeOK
<1>2. CASE UNCHANGED bounds
  BY <1>1, <1>2 DEF bounds
<1>3. CASE Fault
  BY <1>1, <1>3, IngressDeliveryAssumption DEF Fault
<1>4. CASE crashes < MaxCrashes /\ crashes' = crashes + 1 /\ UNCHANGED faults
  BY <1>1, <1>4, IngressDeliveryAssumption
<1>5. ASSUME NEW r \in Report, FirstDelivery(r) \/ SenderStep(r) \/ SpoolThrows(r)
      PROVE  UNCHANGED bounds \/ Fault
  BY <1>5 DEF FirstDelivery, SenderStep, SpoolThrows, SecondDelivery, Deliver, Undelivered,
              OpenSpoolFile, CloseSpoolFile
<1>6. ASSUME NEW a \in Actor, Ingest(a) PROVE UNCHANGED bounds \/ Fault
  BY <1>6 DEF Ingest, Claim, UpsertHandle, Publish, StoreThrows
<1>7. CASE SpoolDrainStep
  BY <1>2, <1>7
     DEF SpoolDrainStep, ReadSpoolDirectory, ReadSpoolFile, UnlinkSpoolFile, TruncateSpoolFile, RewriteSpoolFile
<1>8. CASE AskReconcile \/ ReconcileDrained \/ UnlinkThrows \/ RewriteThrows \/ SpoolDrainThrows
          \/ StartObserver
  BY <1>2, <1>3, <1>8
     DEF AskReconcile, ReconcileDrained, UnlinkThrows, RewriteThrows, SpoolDrainThrows, StartObserver
<1>9. ASSUME NEW r \in Report, NEW n \in Attempt, Handle(r, n) PROVE UNCHANGED bounds
  BY <1>9 DEF Handle
<1>10. CASE WorkerTakes \/ WorkerFinishes \/ ReconcileDrainsQueue \/ StopQueue
  BY <1>2, <1>10 DEF WorkerTakes, WorkerFinishes, ReconcileDrainsQueue, StopQueue
<1>11. CASE ObserverGone
  BY <1>2, <1>4, <1>11 DEF ObserverGone
<1>12. CASE UNCHANGED vars
  BY <1>2, <1>12 DEF vars
<1> QED
  BY <1>2, <1>3, <1>5, <1>6, <1>7, <1>8, <1>9, <1>10, <1>11, <1>12
     DEF Next, ReconcileStep

(* What the queue does not own. *)
OuterTypeOK ==
  /\ observer \in {"up", "down"}
  /\ sender \in [Report -> SenderState]
  /\ socket \in SUBSET (Report \X Attempt)
  /\ file \in [Report -> {"none", "partial", "whole"}]
  /\ claimed \in SUBSET Report /\ handles \in SUBSET Report
  /\ announced \in [Report -> Nat]
  /\ ingest \in [Actor -> [report : Report \cup {NoReport}, stage : Stage]]
  /\ reconciling \in {"no", "spool", "queue"}
  /\ listing \in BOOLEAN
  /\ drainList \in SUBSET Report

LEMMA TypeParts ==
  TypeOK <=> QueueTypeOK /\ OuterTypeOK /\ faults \in 0..MaxFaults /\ crashes \in 0..MaxCrashes
BY DEF TypeOK, OuterTypeOK

LEMMA OuterTypeStep == ASSUME IInv, [Next]_vars PROVE OuterTypeOK'
<1> USE DEF Attempt, Actor, SenderState, Stage, Nothing
<1>1. OuterTypeOK /\ ActorsHold /\ QueueTypeOK
  BY TypeParts DEF IInv
<1>2. ASSUME NEW r \in Report, FirstDelivery(r) \/ SecondDelivery(r) PROVE OuterTypeOK'
  <2>1. PICK n \in Attempt, s \in {"first", "second"} : Deliver(r, n, s)
    BY <1>2 DEF FirstDelivery, SecondDelivery
  <2> QED
    BY <1>1, <2>1 DEF Deliver, Become, OuterTypeOK, store, spoolDrainVars
<1>3. ASSUME NEW r \in Report,
             Undelivered(r) \/ OpenSpoolFile(r) \/ CloseSpoolFile(r) \/ SpoolThrows(r)
      PROVE  OuterTypeOK'
  BY <1>1, <1>3
     DEF Undelivered, OpenSpoolFile, CloseSpoolFile, SpoolThrows, Become, Put, OuterTypeOK,
         store, spoolDrainVars
<1>4. ASSUME NEW a \in Actor, Ingest(a) PROVE OuterTypeOK'
  <2>1. CASE Claim(a)
    <3>1. ingest[a].report \in Report
      BY <1>1, <2>1, HarnessIngressQueueAssumption DEF Claim, ActorsHold, QueueTypeOK
    <3> QED
      BY <1>1, <2>1, <3>1 DEF Claim, Stand, OuterTypeOK, spoolDrainVars
  <2>2. CASE UpsertHandle(a)
    <3>1. ingest[a].report \in Report
      BY <1>1, <2>2, HarnessIngressQueueAssumption DEF UpsertHandle, ActorsHold, QueueTypeOK
    <3> QED
      BY <1>1, <2>2, <3>1 DEF UpsertHandle, Stand, OuterTypeOK, spoolDrainVars
  <2>3. CASE Publish(a)
    <3>1. ingest[a].report \in Report
      BY <1>1, <2>3, HarnessIngressQueueAssumption DEF Publish, ActorsHold, QueueTypeOK
    <3>2. announced' \in [Report -> Nat]
      BY <1>1, <2>3, <3>1 DEF Publish, OuterTypeOK
    <3>3. ingest' \in [Actor -> [report : Report \cup {NoReport}, stage : Stage]]
      BY <1>1, <2>3, <3>1 DEF Publish, Stand, OuterTypeOK
    <3> QED
      BY <1>1, <2>3, <3>2, <3>3 DEF Publish, OuterTypeOK, spoolDrainVars
  <2> QED
    BY <1>4, <2>1, <2>2, <2>3 DEF Ingest
<1>5. CASE SpoolDrainStep
  <2>1. ASSUME NEW r \in Report, ReadSpoolFile(r) PROVE OuterTypeOK'
    BY <1>1, <2>1 DEF ReadSpoolFile, OuterTypeOK, store
  <2>3. CASE ReadSpoolDirectory
    BY <1>1, <2>3 DEF ReadSpoolDirectory, OuterTypeOK, store
  <2>2. CASE UnlinkSpoolFile \/ TruncateSpoolFile \/ RewriteSpoolFile
    BY <1>1, <2>2
       DEF UnlinkSpoolFile, TruncateSpoolFile, RewriteSpoolFile, Put, Stand, OuterTypeOK, store,
           spoolDrainVars
  <2> QED
    BY <1>5, <2>1, <2>2, <2>3 DEF SpoolDrainStep
<1>6. CASE AskReconcile \/ ReconcileDrained \/ UnlinkThrows \/ RewriteThrows \/ SpoolDrainThrows
          \/ StartObserver
  <2>1. CASE AskReconcile \/ ReconcileDrained \/ StartObserver
    BY <1>1, <2>1
       DEF AskReconcile, ReconcileDrained, StartObserver, OuterTypeOK, store, spoolDrainVars
  <2>2. CASE UnlinkThrows \/ RewriteThrows \/ SpoolDrainThrows
    BY <1>1, <2>2
       DEF UnlinkThrows, RewriteThrows, SpoolDrainThrows, Stand, OuterTypeOK, store, spoolDrainVars
  <2> QED
    BY <1>6, <2>1, <2>2
<1>7. ASSUME NEW r \in Report, NEW n \in Attempt, Handle(r, n) PROVE OuterTypeOK'
  BY <1>1, <1>7 DEF Handle, Become, OuterTypeOK, store, spoolDrainVars
<1>8. CASE WorkerTakes \/ WorkerFinishes \/ ReconcileDrainsQueue \/ StopQueue
  <2>1. current' \in Report \cup {NoReport}
    BY QueueInvKept DEF IInv, QueueInv, QueueTypeOK
  <2> QED
    BY <1>1, <1>8, <2>1
       DEF WorkerTakes, WorkerFinishes, ReconcileDrainsQueue, StopQueue, OuterTypeOK, store, spoolDrainVars
<1>9. CASE ObserverGone
  BY <1>1, <1>9 DEF ObserverGone, OuterTypeOK, store
<1>10. CASE UNCHANGED vars
  BY <1>1, <1>10 DEF vars, OuterTypeOK, store, spoolDrainVars
<1> QED
  BY <1>2, <1>3, <1>4, <1>5, <1>6, <1>7, <1>8, <1>9, <1>10
     DEF Next, SenderStep, ReconcileStep

LEMMA TypeStep == ASSUME IInv, [Next]_vars PROVE TypeOK'
<1>1. QueueTypeOK' /\ TypeOK
  BY QueueInvKept DEF IInv, QueueInv
<1> QED
  BY <1>1, OuterTypeStep, BoundsKept DEF TypeOK, OuterTypeOK

-----------------------------------------------------------------------------
(* Who ingests what. *)

LEMMA IngestTyped ==
  ASSUME IInv
  PROVE  /\ ingest \in [Actor -> [report : Report \cup {NoReport}, stage : Stage]]
         /\ "worker" \in Actor /\ "spool" \in Actor /\ NoReport \notin Report
         /\ ActorsHold /\ StagesFollow
         /\ \A a \in Actor : ingest[a].stage # "none" => ingest[a].report \in Report
BY HarnessIngressQueueAssumption DEF IInv, TypeOK, QueueTypeOK, ActorsHold, Actor

LEMMA ActorsStep == ASSUME IInv, [Next]_vars PROVE ActorsHold'
<1>1. /\ ingest \in [Actor -> [report : Report \cup {NoReport}, stage : Stage]]
      /\ "worker" \in Actor /\ "spool" \in Actor /\ NoReport \notin Report /\ ActorsHold
      /\ current \in Report \cup {NoReport} /\ QueueInv
  BY IngestTyped DEF IInv, QueueInv, QueueTypeOK
<1>2. CASE UNCHANGED <<ingest, current>>
  BY <1>1, <1>2 DEF ActorsHold
<1>3. ASSUME NEW r \in Report, FirstDelivery(r) \/ SenderStep(r) \/ SpoolThrows(r)
      PROVE  UNCHANGED <<ingest, current>>
  BY <1>3 DEF FirstDelivery, SenderStep, SpoolThrows, SecondDelivery, Deliver, Undelivered,
              OpenSpoolFile, CloseSpoolFile, queueVars
<1>4. ASSUME NEW a \in Actor, Ingest(a) PROVE ActorsHold'
  <2>1. PICK s \in {"accepted", "handle", "rejected", "publish"} :
          ingest[a].stage # "none" /\ Stand(a, s) /\ UNCHANGED current
    BY <1>4 DEF Ingest, Claim, UpsertHandle, Publish, queueVars
  <2> QED
    BY <1>1, <2>1 DEF Stand, ActorsHold
<1>5. CASE SpoolDrainStep
  <2>1. ASSUME NEW r \in Report, ReadSpoolFile(r) PROVE ActorsHold'
    BY <1>1, <2>1 DEF ReadSpoolFile, ActorsHold, queueVars
  <2>2. CASE UnlinkSpoolFile \/ TruncateSpoolFile \/ RewriteSpoolFile
    BY <1>1, <2>2
       DEF UnlinkSpoolFile, TruncateSpoolFile, RewriteSpoolFile, Stand, ActorsHold, Nothing, queueVars
  <2>3. CASE ReadSpoolDirectory
    BY <1>2, <2>3 DEF ReadSpoolDirectory, queueVars
  <2> QED
    BY <1>5, <2>1, <2>2, <2>3 DEF SpoolDrainStep
<1>6. CASE AskReconcile \/ ReconcileDrained \/ StartObserver
  BY <1>2, <1>6 DEF AskReconcile, ReconcileDrained, StartObserver, queueVars
<1>7. CASE UnlinkThrows \/ RewriteThrows \/ SpoolDrainThrows
  BY <1>1, <1>7 DEF UnlinkThrows, RewriteThrows, SpoolDrainThrows, Stand, ActorsHold, Nothing, queueVars
<1>8. ASSUME NEW r \in Report, NEW n \in Attempt, Handle(r, n) PROVE UNCHANGED <<ingest, current>>
  BY <1>8 DEF Handle, Enqueue, EnqueueDeduped, EnqueueRejected, queueVars
<1>9. CASE WorkerTakes
  <2>1. current' \in Report
    BY <1>1, <1>9, TakenIsReport DEF WorkerTakes
  <2> QED
    BY <1>1, <1>9, <2>1 DEF WorkerTakes, ActorsHold
<1>10. CASE WorkerFinishes
  BY <1>1, <1>10 DEF WorkerFinishes, Finish, ActorsHold, Nothing
<1>11. CASE StopQueue
  <2>1. current' = current
    BY <1>1, <1>11 DEF StopQueue, ShutDown, StopWorker, QueueInv, DrainedIsIdle, Idle, ActiveIsCurrent
  <2> QED
    BY <1>2, <1>11, <2>1 DEF StopQueue
<1>12. CASE ObserverGone
  BY <1>12 DEF ObserverGone, ActorsHold, Actor, Nothing
<1>13. CASE ReconcileDrainsQueue
  BY <1>2, <1>13 DEF ReconcileDrainsQueue, Drain
<1>14. CASE UNCHANGED vars
  BY <1>2, <1>14 DEF vars, queueVars
<1> QED
  BY <1>2, <1>3, <1>4, <1>5, <1>6, <1>7, <1>8, <1>9, <1>10, <1>11, <1>12, <1>13, <1>14
     DEF Next, ReconcileStep

Told == StagesFollow /\ AnnouncedOnce /\ AnnouncedIsStored

(* A step that writes nothing, announces nothing, and brings an ingestion  *)
(* into no stage past its claim.                                           *)
LEMMA ToldKept ==
  ASSUME IInv, UNCHANGED store,
         \A a \in Actor :
           \/ ingest'[a] = ingest[a]
           \/ ingest'[a].stage \notin {"handle", "publish", "accepted"}
  PROVE  Told'
BY IngestTyped DEF IInv, Told, StagesFollow, AnnouncedOnce, AnnouncedIsStored, Claiming, store

LEMMA IngestTold ==
  ASSUME IInv, NEW a \in Actor, Ingest(a) PROVE Told'
<1> DEFINE x == ingest[a].report
<1>1. /\ ingest \in [Actor -> [report : Report \cup {NoReport}, stage : Stage]]
      /\ "worker" \in Actor /\ "spool" \in Actor /\ ActorsHold /\ StagesFollow
      /\ AnnouncedOnce /\ AnnouncedIsStored
      /\ announced \in [Report -> Nat] /\ claimed \in SUBSET Report
  BY IngestTyped DEF IInv, TypeOK
<1>2. x \in Report
  BY <1>1, IngestTyped DEF Ingest, Claim, UpsertHandle, Publish
<1>3. Actor = {"worker", "spool"}
  BY DEF Actor
<1>4. CASE Claim(a)
  <2>1. CASE UNCHANGED claimed /\ Stand(a, "rejected")
    BY <1>1, <1>4, <2>1, ToldKept DEF Claim, Stand, store
  <2>2. CASE Known(a) /\ Stand(a, "accepted") /\ UNCHANGED claimed
    BY <1>1, <1>3, <1>4, <2>2
       DEF Claim, Stand, Known, Told, StagesFollow, AnnouncedOnce, AnnouncedIsStored, Claiming
  <2>3. CASE ~Known(a) /\ claimed' = claimed \cup {x} /\ Stand(a, "handle")
    <3>1. announced[x] = 0
      BY <1>1, <1>2, <2>3 DEF AnnouncedIsStored, Known
    <3>2. \A b \in Actor \ {a} : Claiming(b) => ingest[b].report # x
      BY <1>1, <2>3 DEF StagesFollow, Known, Claiming
    <3>3. /\ ingest'[a] = [ingest[a] EXCEPT !.stage = "handle"]
          /\ \A b \in Actor \ {a} : ingest'[b] = ingest[b]
      BY <1>1, <2>3 DEF Stand
    <3>4. UNCHANGED <<handles, announced>>
      BY <1>4 DEF Claim
    <3>5. StagesFollow'
      BY <1>1, <1>3, <2>3, <3>1, <3>2, <3>3, <3>4 DEF StagesFollow, Claiming
    <3> QED
      BY <1>1, <2>3, <3>4, <3>5 DEF Told, AnnouncedOnce, AnnouncedIsStored
  <2> QED
    BY <1>4, <2>1, <2>2, <2>3 DEF Claim
<1>5. CASE UpsertHandle(a)
  <2>1. CASE UNCHANGED handles /\ Stand(a, "rejected")
    BY <1>1, <1>5, <2>1, ToldKept DEF UpsertHandle, Stand, store
  <2>2. CASE handles' = handles \cup {x} /\ Stand(a, "publish")
    <3>1. /\ ingest'[a] = [ingest[a] EXCEPT !.stage = "publish"]
          /\ \A b \in Actor \ {a} : ingest'[b] = ingest[b]
      BY <1>1, <2>2 DEF Stand
    <3>2. UNCHANGED <<claimed, announced>> /\ ingest[a].stage = "handle"
      BY <1>5 DEF UpsertHandle
    <3>3. StagesFollow'
      BY <1>1, <1>3, <2>2, <3>1, <3>2 DEF StagesFollow, Claiming
    <3> QED
      BY <1>1, <2>2, <3>2, <3>3 DEF Told, AnnouncedOnce, AnnouncedIsStored
  <2> QED
    BY <1>5, <2>1, <2>2 DEF UpsertHandle
<1>6. CASE Publish(a)
  <2>1. /\ ingest'[a] = [ingest[a] EXCEPT !.stage = "accepted"]
        /\ \A b \in Actor \ {a} : ingest'[b] = ingest[b]
    BY <1>1, <1>6 DEF Publish, Stand
  <2>2. /\ UNCHANGED <<claimed, handles>> /\ ingest[a].stage = "publish"
        /\ announced' = [announced EXCEPT ![x] = @ + 1]
    BY <1>6 DEF Publish
  <2>3. announced[x] = 0 /\ x \in claimed /\ x \in handles
    BY <1>1, <2>2 DEF StagesFollow, Claiming
  <2>4. \A b \in Actor \ {a} : Claiming(b) => ingest[b].report # x
    BY <1>1, <1>3, <2>2 DEF StagesFollow, Claiming
  <2>5. announced'[x] = 1 /\ \A r \in Report \ {x} : announced'[r] = announced[r]
    BY <1>1, <1>2, <2>2, <2>3
  <2>6. StagesFollow'
    <3>1. \A b \in Actor \ {a} : Claiming(b) => ingest[b].report \in Report
      BY IngestTyped DEF Claiming
    <3> QED
      BY <1>1, <1>3, <2>1, <2>2, <2>3, <2>4, <2>5, <3>1 DEF StagesFollow, Claiming
  <2> QED
    BY <1>1, <1>2, <2>2, <2>3, <2>5, <2>6 DEF Told, AnnouncedOnce, AnnouncedIsStored
<1> QED
  BY <1>4, <1>5, <1>6 DEF Ingest

LEMMA ToldStep == ASSUME IInv, [Next]_vars PROVE Told'
<1>1. /\ ingest \in [Actor -> [report : Report \cup {NoReport}, stage : Stage]]
      /\ "worker" \in Actor /\ "spool" \in Actor
  BY IngestTyped
<1>2. ASSUME NEW r \in Report, FirstDelivery(r) \/ SenderStep(r) \/ SpoolThrows(r)
      PROVE  UNCHANGED <<ingest, store>>
  BY <1>2 DEF FirstDelivery, SenderStep, SpoolThrows, SecondDelivery, Deliver, Undelivered,
              OpenSpoolFile, CloseSpoolFile
<1>3. CASE SpoolDrainStep
  <2>1. ASSUME NEW r \in Report, ReadSpoolFile(r) PROVE Told'
    BY <1>1, <2>1, ToldKept DEF ReadSpoolFile
  <2>2. CASE UnlinkSpoolFile \/ TruncateSpoolFile \/ RewriteSpoolFile
    BY <1>1, <2>2, ToldKept
       DEF UnlinkSpoolFile, TruncateSpoolFile, RewriteSpoolFile, Stand, Nothing
  <2>3. CASE ReadSpoolDirectory
    BY <2>3, ToldKept DEF ReadSpoolDirectory
  <2> QED
    BY <1>3, <2>1, <2>2, <2>3 DEF SpoolDrainStep
<1>4. CASE AskReconcile \/ ReconcileDrained \/ StartObserver
  BY <1>4, ToldKept DEF AskReconcile, ReconcileDrained, StartObserver
<1>5. CASE UnlinkThrows \/ RewriteThrows \/ SpoolDrainThrows
  BY <1>1, <1>5, ToldKept DEF UnlinkThrows, RewriteThrows, SpoolDrainThrows, Stand, Nothing
<1>6. ASSUME NEW r \in Report, NEW n \in Attempt, Handle(r, n) PROVE UNCHANGED <<ingest, store>>
  BY <1>6 DEF Handle
<1>7. CASE WorkerTakes \/ WorkerFinishes \/ ReconcileDrainsQueue \/ StopQueue
  BY <1>1, <1>7, ToldKept DEF WorkerTakes, WorkerFinishes, ReconcileDrainsQueue, StopQueue, Nothing
<1>8. CASE ObserverGone
  BY <1>8, ToldKept DEF ObserverGone, Nothing
<1>9. CASE UNCHANGED vars
  BY <1>9, ToldKept DEF vars
<1> QED
  BY <1>2, <1>3, <1>4, <1>5, <1>6, <1>7, <1>8, <1>9, IngestTold, ToldKept
     DEF Next, ReconcileStep

-----------------------------------------------------------------------------
(* The spool. *)

(* A step that takes no file away and makes no sender believe in one. *)
LEMMA SpoolKept ==
  ASSUME IInv, claimed \subseteq claimed',
         \A r \in Report : sender'[r] = "spooled" =>
           \/ file'[r] # "none"
           \/ r \in claimed'
           \/ sender[r] = "spooled" /\ file'[r] = file[r]
  PROVE  SpooledIsKept'
BY DEF IInv, SpooledIsKept

LEMMA SpoolKeptStep == ASSUME IInv, [Next]_vars PROVE SpooledIsKept'
<1>1. /\ sender \in [Report -> SenderState] /\ file \in [Report -> {"none", "partial", "whole"}]
  BY DEF IInv, TypeOK
<1>2. ASSUME NEW r \in Report, FirstDelivery(r) \/ SenderStep(r) \/ SpoolThrows(r)
      PROVE  SpooledIsKept'
  <2>1. UNCHANGED claimed
    BY <1>2 DEF FirstDelivery, SenderStep, SpoolThrows, SecondDelivery, Deliver, Undelivered,
                OpenSpoolFile, CloseSpoolFile, store
  <2>2. CASE FirstDelivery(r) \/ SecondDelivery(r) \/ Undelivered(r) \/ SpoolThrows(r)
    BY <1>1, <2>1, <2>2, SpoolKept
       DEF FirstDelivery, SecondDelivery, Deliver, Undelivered, SpoolThrows, Become
  <2>3. CASE OpenSpoolFile(r) \/ CloseSpoolFile(r)
    BY <1>1, <2>1, <2>3, SpoolKept DEF OpenSpoolFile, CloseSpoolFile, Become, Put
  <2> QED
    BY <1>2, <2>2, <2>3 DEF SenderStep
<1>3. CASE UNCHANGED <<sender, file>> /\ claimed \subseteq claimed'
  BY <1>3, SpoolKept
<1>4. ASSUME NEW a \in Actor, Ingest(a) PROVE UNCHANGED <<sender, file>> /\ claimed \subseteq claimed'
  BY <1>4 DEF Ingest, Claim, UpsertHandle, Publish
<1>5. CASE SpoolDrainStep
  <2>1. UNCHANGED <<sender, claimed>>
    BY <1>5 DEF SpoolDrainStep, ReadSpoolDirectory, ReadSpoolFile, UnlinkSpoolFile, TruncateSpoolFile,
                RewriteSpoolFile, store
  <2>2. ASSUME NEW r \in Report, ReadSpoolFile(r) PROVE UNCHANGED file
    BY <2>2 DEF ReadSpoolFile
  <2>5. ReadSpoolDirectory => UNCHANGED file
    BY DEF ReadSpoolDirectory
  <2>3. CASE UnlinkSpoolFile
    <3>1. ingest["spool"].report \in claimed
      BY <2>3, IngestTyped DEF UnlinkSpoolFile, StagesFollow
    <3> QED
      BY <1>1, <2>1, <2>3, <3>1, SpoolKept DEF UnlinkSpoolFile, Put
  <2>4. CASE TruncateSpoolFile \/ RewriteSpoolFile
    BY <1>1, <2>1, <2>4, SpoolKept DEF TruncateSpoolFile, RewriteSpoolFile, Put
  <2> QED
    BY <1>3, <1>5, <2>1, <2>2, <2>3, <2>4, <2>5 DEF SpoolDrainStep
<1>6. CASE AskReconcile \/ ReconcileDrained \/ StartObserver
          \/ UnlinkThrows \/ RewriteThrows \/ SpoolDrainThrows
  BY <1>3, <1>6 DEF AskReconcile, ReconcileDrained, StartObserver, UnlinkThrows, RewriteThrows, SpoolDrainThrows, store
<1>7. ASSUME NEW r \in Report, NEW n \in Attempt, Handle(r, n) PROVE SpooledIsKept'
  BY <1>1, <1>7, SpoolKept DEF Handle, Become, store
<1>8. CASE WorkerTakes \/ WorkerFinishes \/ ReconcileDrainsQueue \/ StopQueue \/ ObserverGone
  BY <1>3, <1>8 DEF WorkerTakes, WorkerFinishes, ReconcileDrainsQueue, StopQueue, ObserverGone, store
<1>9. CASE UNCHANGED vars
  BY <1>3, <1>9 DEF vars, store
<1> QED
  BY <1>2, <1>3, <1>4, <1>5, <1>6, <1>7, <1>8, <1>9 DEF Next, ReconcileStep

-----------------------------------------------------------------------------
(* What is acknowledged. *)

Faultless == faults = 0 /\ crashes = 0

LEMMA FaultlessBefore == ASSUME IInv, [Next]_vars, Faultless' PROVE Faultless
<1>1. faults \in Nat /\ crashes \in Nat /\ faults' >= faults /\ crashes' >= crashes
  BY BoundsKept, IngressDeliveryAssumption DEF IInv, TypeOK
<1> QED
  BY <1>1 DEF Faultless

LEMMA RemembersOne ==
  ASSUME NEW r \in Report, seen \in Seq(Report), Remember(r) PROVE SeenIds' \subseteq SeenIds \cup {r}
<1> DEFINE longer == Append(seen, r)
           extra == IF Len(longer) > MaxRemembered THEN Len(longer) - MaxRemembered ELSE 0
<1>1. /\ longer \in Seq(Report) /\ Len(longer) = Len(seen) + 1 /\ Len(seen) \in Nat
      /\ \A i \in 1..Len(longer) : longer[i] \in SeenIds \cup {r}
      /\ extra \in Nat
  BY HarnessIngressQueueAssumption DEF SeenIds
<1>2. seen' = SubSeq(longer, extra + 1, Len(longer))
  BY DEF Remember
<1>3. ASSUME NEW i \in 1..Len(seen') PROVE seen'[i] \in SeenIds \cup {r}
  <2>1. CASE extra + 1 <= Len(longer)
    <3> HIDE DEF longer, extra
    <3>1. Len(seen') = Len(longer) - extra /\ seen'[i] = longer[extra + i]
      BY <1>1, <1>2, <1>3, <2>1
    <3> QED
      BY <1>1, <3>1, <1>3
  <2>2. CASE ~(extra + 1 <= Len(longer))
    <3> HIDE DEF longer, extra
    <3>1. Len(seen') = 0
      BY <1>1, <1>2, <2>2
    <3> QED
      BY <3>1, <1>3
  <2> QED
    BY <2>1, <2>2
<1> QED
  BY <1>3 DEF SeenIds

Acked == SeenIsKept /\ AckedIsHeld

LEMMA KeptStays ==
  ASSUME IInv, [Next]_vars, Faultless', NEW r \in Report, Kept(r) PROVE Kept(r)'
<1>1. /\ fate \in [Report -> Fate] /\ ActorsHold /\ StagesFollow /\ SeenIsKept /\ QueueInv
      /\ "worker" \in Actor /\ Faultless
  BY FaultlessBefore, IngestTyped DEF IInv, QueueInv, QueueTypeOK
<1>2. CASE claimed \subseteq claimed' /\ UNCHANGED fate
  BY <1>2 DEF Kept
<1>3. ASSUME NEW a \in Actor, Ingest(a) PROVE claimed \subseteq claimed' /\ UNCHANGED fate
  BY <1>3 DEF Ingest, Claim, UpsertHandle, Publish, queueVars
<1>4. ASSUME NEW x \in Report, NEW n \in Attempt, Handle(x, n) PROVE Kept(r)'
  <2>1. CASE Enqueue(x)
    <3>1. UNCHANGED claimed
      BY <1>4 DEF Handle, store
    <3> QED
      BY <2>1, <3>1 DEF Enqueue, Kept
  <2>2. CASE EnqueueDeduped(x) \/ EnqueueRejected(x)
    BY <1>2, <1>4, <2>2 DEF Handle, EnqueueDeduped, EnqueueRejected, queueVars, store
  <2> QED
    BY <1>4, <2>1, <2>2 DEF Handle
<1>5. CASE WorkerFinishes
  <2>1. ingest["worker"].stage # "rejected"
    BY <1>1 DEF SeenIsKept, Faultless
  <2>2. Finish /\ UNCHANGED claimed /\ current \in claimed
    BY <1>1, <1>5, <2>1 DEF WorkerFinishes, StagesFollow, ActorsHold, store
  <2> QED
    BY <1>1, <2>2 DEF Finish, Kept
<1>6. CASE ObserverGone
  <2>1. stopped
    <3>1. crashes' = 0 /\ crashes = 0
      BY <1>1 DEF Faultless
    <3> QED
      BY <1>6, <3>1 DEF ObserverGone
  <2>2. PendingKeys = {} /\ current = NoReport
    BY <1>1, <2>1 DEF QueueInv, DrainedIsIdle, Idle, ActiveIsCurrent
  <2>3. fate[r] # "queued"
    <3>1. CoalesceKey[r] \in Key /\ r # NoReport
      BY HarnessIngressQueueAssumption
    <3> QED
      BY <1>1, <2>2, <3>1 DEF QueueInv, QueuedIsHeld, PendingKeys
  <2> QED
    BY <1>6, <2>3 DEF ObserverGone, Kept, store
<1>7. CASE WorkerTakes \/ ReconcileDrainsQueue \/ StopQueue
  BY <1>2, <1>7 DEF WorkerTakes, Take, ReconcileDrainsQueue, Drain, StopQueue, ShutDown, StopWorker, store
<1>8. ASSUME NEW x \in Report, FirstDelivery(x) \/ SenderStep(x) \/ SpoolThrows(x)
      PROVE  UNCHANGED <<claimed, fate>>
  BY <1>8 DEF FirstDelivery, SenderStep, SpoolThrows, SecondDelivery, Deliver, Undelivered,
              OpenSpoolFile, CloseSpoolFile, store, queueVars
<1>9. CASE SpoolDrainStep
  BY <1>2, <1>9
     DEF SpoolDrainStep, ReadSpoolDirectory, ReadSpoolFile, UnlinkSpoolFile, TruncateSpoolFile, RewriteSpoolFile,
         store, queueVars
<1>10. CASE AskReconcile \/ ReconcileDrained \/ StartObserver
          \/ UnlinkThrows \/ RewriteThrows \/ SpoolDrainThrows
  BY <1>2, <1>10
     DEF AskReconcile, ReconcileDrained, StartObserver, UnlinkThrows, RewriteThrows, SpoolDrainThrows, store, queueVars
<1>11. CASE UNCHANGED vars
  BY <1>2, <1>11 DEF vars, store, queueVars
<1> QED
  BY <1>2, <1>3, <1>4, <1>5, <1>6, <1>7, <1>8, <1>9, <1>10, <1>11 DEF Next, ReconcileStep

(* Whatever a step newly remembers or acknowledges is kept. *)
LEMMA AckedKept ==
  ASSUME IInv, [Next]_vars,
         Faultless' =>
           /\ ingest'["worker"].stage # "rejected"
           /\ \A r \in Report : r \in SeenIds' => r \in SeenIds \/ Kept(r)'
           /\ \A r \in Report : sender'[r] = "acked" => sender[r] = "acked" \/ Kept(r)'
  PROVE  Acked'
<1> SUFFICES ASSUME Faultless' PROVE /\ ingest'["worker"].stage # "rejected"
                                     /\ \A r \in SeenIds' : Kept(r)'
                                     /\ \A r \in Report : sender'[r] = "acked" => Kept(r)'
  BY DEF Acked, SeenIsKept, AckedIsHeld, Faultless, Kept
<1>1. Faultless
  BY FaultlessBefore
<1>2. SeenIds' \subseteq Report
  BY QueueInvKept DEF IInv, QueueInv, QueueTypeOK, SeenIds
<1>3. \A r \in SeenIds : Kept(r)
  BY <1>1 DEF IInv, SeenIsKept, Faultless
<1>4. \A r \in Report : sender[r] = "acked" => Kept(r)
  BY <1>1 DEF IInv, AckedIsHeld, Faultless, Kept
<1> QED
  BY <1>2, <1>3, <1>4, KeptStays

LEMMA HandleAcked ==
  ASSUME IInv, NEW r \in Report, NEW n \in Attempt, Handle(r, n) PROVE Acked'
<1>1. [Next]_vars
  BY DEF Next
<1>2. /\ sender \in [Report -> SenderState] /\ seen \in Seq(Report) /\ fate \in [Report -> Fate]
      /\ SeenIsKept /\ UNCHANGED <<ingest, claimed>>
  BY DEF IInv, TypeOK, QueueTypeOK, Handle, store
<1>3. Faultless' => Faultless /\ ingest'["worker"].stage # "rejected"
  BY <1>1, <1>2, FaultlessBefore DEF SeenIsKept, Faultless
<1>4. sender' = sender \/ Become(r, "acked")
  BY DEF Handle
<1>5. CASE Enqueue(r)
  <2>1. SeenIds' \subseteq SeenIds \cup {r} /\ fate'[r] = "queued"
    BY <1>2, <1>5, RemembersOne DEF Enqueue
  <2> QED
    BY <1>1, <1>2, <1>3, <1>4, <2>1, AckedKept DEF Become, Kept
<1>6. CASE EnqueueDeduped(r)
  <2>1. r \in SeenIds /\ UNCHANGED <<seen, fate>>
    BY <1>6 DEF EnqueueDeduped, queueVars
  <2>2. Faultless' => Kept(r)'
    BY <1>2, <1>3, <2>1 DEF SeenIsKept, Faultless, Kept
  <2>3. SeenIds' = SeenIds
    BY <2>1 DEF SeenIds
  <2> QED
    BY <1>1, <1>2, <1>3, <1>4, <2>2, <2>3, AckedKept DEF Become
<1>7. CASE EnqueueRejected(r) /\ UNCHANGED sender
  <2>1. SeenIds' = SeenIds
    BY <1>7 DEF EnqueueRejected, SeenIds, queueVars
  <2> QED
    BY <1>1, <1>3, <1>7, <2>1, AckedKept
<1> QED
  BY <1>5, <1>6, <1>7 DEF Handle

LEMMA AckedStep == ASSUME IInv, [Next]_vars PROVE Acked'
<1>1. /\ ingest \in [Actor -> [report : Report \cup {NoReport}, stage : Stage]]
      /\ "worker" \in Actor /\ "spool" \in Actor /\ ActorsHold
      /\ sender \in [Report -> SenderState] /\ SeenIsKept /\ QueueInv
  BY IngestTyped DEF IInv, TypeOK
<1>2. Faultless' => Faultless /\ ingest["worker"].stage # "rejected"
  BY <1>1, FaultlessBefore DEF SeenIsKept, Faultless
<1>3. ASSUME NEW a \in Actor, Ingest(a) PROVE Acked'
  <2>1. UNCHANGED <<sender, SeenIds>>
    BY <1>3 DEF Ingest, Claim, UpsertHandle, Publish, queueVars, SeenIds
  <2>2. Faultless' => ingest'["worker"].stage # "rejected"
    <3> SUFFICES ASSUME Faultless' PROVE ingest'["worker"].stage # "rejected"
      OBVIOUS
    <3>1. ~Fault
      <4>1. faults = 0 /\ faults' = 0
        BY <1>2 DEF Faultless
      <4> QED
        BY <4>1 DEF Fault
    <3>2. a = "worker" => ~stopped
      <4>1. stopped => current = NoReport
        BY <1>1 DEF QueueInv, DrainedIsIdle, Idle, ActiveIsCurrent
      <4>2. ingest[a].stage # "none"
        BY <1>3 DEF Ingest, Claim, UpsertHandle, Publish
      <4> QED
        BY <1>1, <4>1, <4>2 DEF ActorsHold
    <3>3. ASSUME a = "worker" PROVE ~Stand(a, "rejected") \/ ~StoreThrows
      BY <3>1, <3>2, <3>3 DEF StoreThrows
    <3>4. CASE a = "spool"
      BY <1>1, <1>2, <1>3, <3>4 DEF Ingest, Claim, UpsertHandle, Publish, Stand
    <3>5. CASE a = "worker"
      BY <1>1, <1>2, <1>3, <3>1, <3>2, <3>5
         DEF Ingest, Claim, UpsertHandle, Publish, Stand, StoreThrows
    <3> QED
      BY <3>4, <3>5 DEF Actor
  <2> QED
    BY <2>1, <2>2, AckedKept
<1>4. ASSUME NEW r \in Report, FirstDelivery(r) \/ SenderStep(r) \/ SpoolThrows(r)
      PROVE  Acked'
  <2>1. UNCHANGED <<ingest, SeenIds>>
    BY <1>4 DEF FirstDelivery, SenderStep, SpoolThrows, SecondDelivery, Deliver, Undelivered,
                OpenSpoolFile, CloseSpoolFile, queueVars, SeenIds
  <2>2. \A x \in Report : sender'[x] = "acked" => sender[x] = "acked"
    BY <1>1, <1>4 DEF FirstDelivery, SenderStep, SpoolThrows, SecondDelivery, Deliver, Undelivered,
                      OpenSpoolFile, CloseSpoolFile, Become
  <2> QED
    BY <1>2, <2>1, <2>2, AckedKept
<1>5. CASE UNCHANGED <<sender, SeenIds>> /\ ingest'["worker"].stage \in {ingest["worker"].stage, "none", "claim"}
  BY <1>2, <1>5, AckedKept
<1>6. CASE SpoolDrainStep
  BY <1>1, <1>5, <1>6
     DEF SpoolDrainStep, ReadSpoolDirectory, ReadSpoolFile, UnlinkSpoolFile, TruncateSpoolFile, RewriteSpoolFile,
         Stand, queueVars, SeenIds
<1>7. CASE AskReconcile \/ ReconcileDrained \/ StartObserver
          \/ UnlinkThrows \/ RewriteThrows \/ SpoolDrainThrows
  BY <1>1, <1>5, <1>7
     DEF AskReconcile, ReconcileDrained, StartObserver, UnlinkThrows, RewriteThrows, SpoolDrainThrows, Stand,
         queueVars, SeenIds
<1>8. CASE WorkerTakes \/ WorkerFinishes \/ ReconcileDrainsQueue \/ StopQueue
  BY <1>1, <1>5, <1>8
     DEF WorkerTakes, Take, WorkerFinishes, Finish, ReconcileDrainsQueue, Drain, StopQueue, ShutDown, StopWorker, SeenIds, Nothing
<1>9. CASE ObserverGone
  <2>1. SeenIds' = {} /\ UNCHANGED sender /\ ingest'["worker"].stage = "none"
    BY <1>1, <1>9 DEF ObserverGone, SeenIds, Nothing
  <2> QED
    BY <2>1, AckedKept
<1>10. CASE UNCHANGED vars
  BY <1>5, <1>10 DEF vars, queueVars, SeenIds
<1> QED
  BY <1>3, <1>4, <1>6, <1>7, <1>8, <1>9, <1>10, HandleAcked
     DEF Next, ReconcileStep

-----------------------------------------------------------------------------
LEMMA IInvInit == Init => IInv
<1> SUFFICES ASSUME Init PROVE IInv
  OBVIOUS
<1>1. QueueInv
  BY QueueInvInit DEF Init
<1>2. TypeOK
  <2>1. OuterTypeOK
    BY DEF Init, OuterTypeOK, SenderState, Stage, Nothing
  <2>2. faults \in 0..MaxFaults /\ crashes \in 0..MaxCrashes
    BY IngressDeliveryAssumption DEF Init
  <2> QED
    BY <1>1, <2>1, <2>2 DEF QueueInv, TypeOK, OuterTypeOK
<1>3. ActorsHold /\ StagesFollow
  BY DEF Init, QueueInit, ActorsHold, StagesFollow, Claiming, Actor, Nothing
<1>4. AnnouncedOnce /\ AnnouncedIsStored /\ SpooledIsKept /\ AckedIsHeld
  BY DEF Init, AnnouncedOnce, AnnouncedIsStored, SpooledIsKept, AckedIsHeld
<1>5. SeenIds = {} /\ ingest["worker"].stage = "none"
  BY DEF Init, QueueInit, SeenIds, Actor, Nothing
<1> QED
  BY <1>1, <1>2, <1>3, <1>4, <1>5 DEF IInv, SeenIsKept

LEMMA IInvStep == IInv /\ [Next]_vars => IInv'
<1> SUFFICES ASSUME IInv, [Next]_vars PROVE IInv'
  OBVIOUS
<1>1. QueueInv'
  BY QueueInvKept DEF IInv
<1> QED
  BY <1>1, TypeStep, ActorsStep, ToldStep, SpoolKeptStep, AckedStep DEF IInv, Told, Acked

LEMMA IInvHolds == Spec => []IInv
BY IInvInit, IInvStep, PTL DEF Spec

(* Every reachable state of senders, spool, queue and database is well typed. *)
THEOREM TypeCorrect == Spec => []TypeOK
<1>1. IInv => TypeOK
  BY DEF IInv
<1> QED
  BY <1>1, IInvHolds, PTL

(* However often a report is delivered, spooled and drained, over any       *)
(* number of crashes and whatever write fails, it is published and          *)
(* projected at most once, and only when it is stored, its recovery handle  *)
(* included (ingestion.ts:213-237, deliveryPolicy.ts:64).                   *)
THEOREM AnnouncesOnceStored == Spec => []AnnouncedOnceStored
<1>1. IInv => AnnouncedOnceStored
  BY DEF IInv, AnnouncedOnceStored
<1> QED
  BY <1>1, IInvHolds, PTL

(* The file of a spooled report keeps its name in the spool until the       *)
(* report is claimed, over failing drains and crashes (spool.ts:124).  A    *)
(* truncated file counts: that the content lasts is the refuted             *)
(* SpoolIsDurable.                                                          *)
THEOREM SpoolKeeps == Spec => []SpooledIsKept
<1>1. IInv => SpooledIsKept
  BY DEF IInv
<1> QED
  BY <1>1, IInvHolds, PTL

(* Short of a crash or a failed write, what a sender was told is accepted   *)
(* is in the database, in the queue, or has given way to a newer report,    *)
(* also over an orderly stop and the next start (api.ts:226).               *)
THEOREM AcksHold == Spec => []AckedIsHeld
<1>1. IInv => AckedIsHeld
  BY DEF IInv
<1> QED
  BY <1>1, IInvHolds, PTL
================================================================================
