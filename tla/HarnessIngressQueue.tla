------------------------ MODULE HarnessIngressQueue ------------------------
(***************************************************************************)
(* The observer's in-memory queue of harness reports                       *)
(* (apps/observer/src/hooks/harnessIngressQueue.ts): a bounded map of      *)
(* pending reports in which a newer report of the same coalesce key takes  *)
(* the place of the older one, a queue of ready keys that feeds one        *)
(* worker, a memory of the ids already seen, and callers that wait for the *)
(* queue to be idle.  Ref.modify makes every change of the state one step. *)
(***************************************************************************)
EXTENDS Naturals, Sequences, FiniteSets

CONSTANTS Report,         \* reports, each with its own reportId
          Key,            \* coalesce keys
          CoalesceKey,    \* coalesceKey(report)
          MaxPending,     \* maxPendingReports
          MaxRemembered,  \* maxRememberedReportIds
          Caller,         \* callers of drain(): reconciles
          NoReport,
          MaxEnqueues     \* bound: reports that enter the queue in a run

ASSUME HarnessIngressQueueAssumption ==
  /\ CoalesceKey \in [Report -> Key]
  /\ NoReport \notin Report
  /\ MaxPending \in Nat \ {0} /\ MaxRemembered \in Nat \ {0} /\ MaxEnqueues \in Nat

VARIABLES pending,       \* the report waiting under each key
          workQueue,     \* ready keys, oldest first
          seen,          \* seenReportIdOrder; seenReportIds is the set of its elements
          active,        \* reports the worker has taken and not finished
          current,       \* the report the worker is processing
          shuttingDown,
          stopped,       \* workQueue shut down and worker interrupted
          waiters,       \* callers suspended in drain(), Stopper for shutdown()
          enqueued,      \* metrics.enqueued
          fate           \* history: what became of each report

queueVars == <<pending, workQueue, seen, active, current, shuttingDown, stopped,
               waiters, enqueued, fate>>

Stopper == "shutdown"
Fate == {"unknown", "queued", "superseded", "finished"}

PendingKeys == {k \in Key : pending[k] # NoReport}
SeenIds == {seen[i] : i \in 1..Len(seen)}
Depth == Cardinality(PendingKeys) + active
Idle == PendingKeys = {} /\ active = 0

QueueTypeOK ==
  /\ pending \in [Key -> Report \cup {NoReport}]
  /\ workQueue \in Seq(Key)
  /\ seen \in Seq(Report)
  /\ active \in Nat
  /\ current \in Report \cup {NoReport}
  /\ shuttingDown \in BOOLEAN /\ stopped \in BOOLEAN
  /\ waiters \in SUBSET (Caller \cup {Stopper})
  /\ enqueued \in Nat
  /\ fate \in [Report -> Fate]

QueueInit ==
  /\ pending = [k \in Key |-> NoReport]
  /\ workQueue = <<>>
  /\ seen = <<>>
  /\ active = 0
  /\ current = NoReport
  /\ shuttingDown = FALSE /\ stopped = FALSE
  /\ waiters = {}
  /\ enqueued = 0
  /\ fate = [r \in Report |-> "unknown"]

-----------------------------------------------------------------------------
(* Enqueuing. *)

Full(k) == pending[k] = NoReport /\ Depth >= MaxPending

(* Shutting down or full: a rejected receipt, and only the counters of     *)
(* health() change.                                                        *)
EnqueueRejected(r) ==
  /\ \/ shuttingDown
     \/ r \notin SeenIds /\ Full(CoalesceKey[r])
  /\ UNCHANGED queueVars

(* An id seen before: an accepted receipt, and nothing changes. *)
EnqueueDeduped(r) ==
  /\ ~shuttingDown
  /\ r \in SeenIds
  /\ UNCHANGED queueVars

(* rememberReportId: the oldest ids are forgotten first. *)
Remember(r) ==
  LET longer == Append(seen, r)
      extra == IF Len(longer) > MaxRemembered THEN Len(longer) - MaxRemembered ELSE 0
  IN  seen' = SubSeq(longer, extra + 1, Len(longer))

Hold(r) == pending' = [pending EXCEPT ![CoalesceKey[r]] = r]

(* Mutants: every report offers its key; none does while the worker is busy. *)
OfferAgain(k) == workQueue' = Append(workQueue, k)
OfferToIdle(k) == workQueue' = IF pending[k] = NoReport /\ active = 0
                                 THEN Append(workQueue, k) ELSE workQueue
Offer(k) == workQueue' = IF pending[k] = NoReport THEN Append(workQueue, k) ELSE workQueue

Enqueue(r) ==
  LET k == CoalesceKey[r]
      older == pending[k]
  IN  /\ ~shuttingDown
      /\ r \notin SeenIds
      /\ ~Full(k)
      /\ enqueued < MaxEnqueues
      /\ enqueued' = enqueued + 1
      /\ Hold(r)
      /\ Offer(k)
      /\ Remember(r)
      /\ fate' = [x \in Report |-> CASE x = r -> "queued"
                                     [] x # r /\ x = older -> "superseded"
                                     [] OTHER -> fate[x]]
      /\ UNCHANGED <<active, current, shuttingDown, stopped, waiters>>

-----------------------------------------------------------------------------
(* The worker. *)

(* Mutants: finishing a report wakes nobody; it wakes one waiter only.     *)
ReleaseNobody == UNCHANGED waiters
ReleaseOne == IF Idle' /\ waiters # {}
                THEN \E w \in waiters : waiters' = waiters \ {w}
                ELSE UNCHANGED waiters

(* Mutant: the worker stops as soon as the queue shuts down. *)
WorkerRunsUntilShutdown == ~stopped /\ ~shuttingDown
WorkerRuns == ~stopped

(* Waiters are resolved by the change that leaves the queue idle. *)
Release == waiters' = IF Idle' THEN {} ELSE waiters

Take ==
  /\ WorkerRuns
  /\ current = NoReport
  /\ workQueue # <<>>
  /\ LET k == Head(workQueue) IN
       /\ workQueue' = Tail(workQueue)
       /\ current' = pending[k]
       /\ pending' = [pending EXCEPT ![k] = NoReport]
       /\ active' = IF pending[k] = NoReport THEN active ELSE active + 1
  /\ Release
  /\ UNCHANGED <<seen, shuttingDown, stopped, enqueued, fate>>

(* processReport settles: an accepted or a rejected receipt, or an error;  *)
(* only the counters and the log tell them apart.                          *)
Finish ==
  /\ WorkerRuns
  /\ current # NoReport
  /\ fate' = [fate EXCEPT ![current] = IF @ = "queued" THEN "finished" ELSE @]
  /\ active' = IF active > 0 THEN active - 1 ELSE 0
  /\ current' = NoReport
  /\ UNCHANGED pending
  /\ Release
  /\ UNCHANGED <<workQueue, seen, shuttingDown, stopped, enqueued>>

-----------------------------------------------------------------------------
(* drain() and shutdown(). *)

Wait(w) == waiters' = IF Idle THEN waiters ELSE waiters \cup {w}

Drain(w) ==
  /\ w \notin waiters
  /\ Wait(w)
  /\ UNCHANGED <<pending, workQueue, seen, active, current, shuttingDown, stopped, enqueued, fate>>

ShutDown ==
  /\ ~shuttingDown
  /\ shuttingDown' = TRUE
  /\ Wait(Stopper)
  /\ UNCHANGED <<pending, workQueue, seen, active, current, stopped, enqueued, fate>>

(* The drain of shutdown is over: Queue.shutdown and Fiber.interrupt. *)
StopWorker ==
  /\ shuttingDown /\ ~stopped
  /\ Stopper \notin waiters
  /\ stopped' = TRUE
  /\ workQueue' = <<>>
  /\ current' = NoReport
  /\ UNCHANGED <<pending, seen, active, shuttingDown, waiters, enqueued, fate>>

Work == Take \/ Finish

QueueNext ==
  \/ \E r \in Report : EnqueueRejected(r) \/ EnqueueDeduped(r) \/ Enqueue(r)
  \/ Work
  \/ \E w \in Caller : Drain(w)
  \/ ShutDown \/ StopWorker

QueueSpec == QueueInit /\ [][QueueNext]_queueVars

(* The worker fiber runs, and processReport settles: it writes to sqlite   *)
(* synchronously and appends to a log.                                     *)
QueueFairness == WF_queueVars(Work) /\ WF_queueVars(StopWorker)
FairQueueSpec == QueueSpec /\ QueueFairness

-----------------------------------------------------------------------------
(* Properties. *)

(* Overflow never lets the queue hold more than maxPendingReports, counting *)
(* the report the worker has taken out (harnessIngressQueue.ts:302).        *)
DepthBounded == Depth <= MaxPending

(* Every pending report has exactly one ready key on its way to the worker, *)
(* and no ready key is stale: coalescing neither loses nor doubles a wakeup *)
(* (harnessIngressQueue.ts:108 and 330).                                    *)
ReadyKeysMatchPending ==
  /\ {workQueue[i] : i \in 1..Len(workQueue)} = PendingKeys
  /\ Len(workQueue) = Cardinality(PendingKeys)

(* An accepted report stays in the queue until it is processed or replaced. *)
QueuedIsHeld ==
  \A r \in Report : fate[r] = "queued" => r = current \/ pending[CoalesceKey[r]] = r

(* The queue's structures stay in step with each other and with what was    *)
(* acknowledged, however takes, coalescing and overflow interleave.         *)
QueueIsConsistent == DepthBounded /\ ReadyKeysMatchPending /\ QueuedIsHeld

(* A drain() ends: no change that leaves the queue idle misses its waiter,  *)
(* whatever coalesces or overflows meanwhile and also over a shutdown, or   *)
(* the reconcile behind it would hang (harnessIngressQueue.ts:185 and 219). *)
DrainEnds == \A w \in Caller : w \in waiters ~> w \notin waiters

(* Every accepted report is processed, fails, or gives way to a newer one,  *)
(* also when a shutdown starts while it waits.                              *)
QueuedIsWorkedOff == \A r \in Report : fate[r] = "queued" ~> fate[r] # "queued"

(* A shutdown ends: nothing enters any more, so the drain it waits for      *)
(* comes to an end.                                                         *)
ShutdownEnds == shuttingDown ~> stopped
=============================================================================
