------------------------- MODULE ReconcileScheduler -------------------------
(***************************************************************************)
(* The debounced, single-flight scheduler of reconciles                    *)
(* (apps/observer/src/runtime/reconcileScheduler.ts).  Requests pile up as *)
(* reasons; one timer at a time takes all of them into one reconcile, and  *)
(* a reconcile that ends with new reasons waiting sets the timer again.    *)
(***************************************************************************)
EXTENDS Naturals

CONSTANT MaxRequests   \* bound: requests made in a run

VARIABLES queuedReasons,   \* how many reasons wait
          timerScheduled,
          running,         \* a flush is inside options.reconcile
          requests         \* requests made so far

schedulerVars == <<queuedReasons, timerScheduled, running, requests>>

ASSUME ReconcileSchedulerAssumption == MaxRequests \in Nat

SchedulerTypeOK ==
  /\ queuedReasons \in 0..requests
  /\ timerScheduled \in BOOLEAN
  /\ running \in BOOLEAN
  /\ requests \in 0..MaxRequests

SchedulerInit ==
  /\ queuedReasons = 0
  /\ timerScheduled = FALSE
  /\ running = FALSE
  /\ requests = 0

(* Mutant: nothing is requested. *)
RequestNothing == UNCHANGED schedulerVars

(* Mutant: a request that meets a running flush relies on that flush. *)
RequestJoinsFlush ==
  /\ requests < MaxRequests
  /\ requests' = requests + 1
  /\ queuedReasons' = IF running THEN queuedReasons ELSE queuedReasons + 1
  /\ timerScheduled' = (timerScheduled \/ ~running)
  /\ UNCHANGED running

RequestReconcile ==
  /\ requests < MaxRequests
  /\ requests' = requests + 1
  /\ queuedReasons' = queuedReasons + 1
  /\ timerScheduled' = (timerScheduled \/ ~running)
  /\ UNCHANGED running

(* The timer fires and a flush takes every reason there is.  flush() also  *)
(* returns early when running or without a reason: TimerOrFlush and          *)
(* TimerHasWork below say that the timer never fires into either.            *)
FlushStarts ==
  /\ timerScheduled
  /\ ~running /\ queuedReasons > 0
  /\ timerScheduled' = FALSE
  /\ queuedReasons' = 0
  /\ running' = TRUE
  /\ UNCHANGED requests

(* Mutant: a flush that ends does not look at the reasons. *)
FlushEndsBlind ==
  /\ running
  /\ running' = FALSE
  /\ UNCHANGED <<queuedReasons, timerScheduled, requests>>

(* The finally block, after a reconcile that succeeded or threw. *)
FlushEnds ==
  /\ running
  /\ running' = FALSE
  /\ timerScheduled' = (timerScheduled \/ queuedReasons > 0)
  /\ UNCHANGED <<queuedReasons, requests>>

SchedulerNext == RequestReconcile \/ FlushStarts \/ FlushEnds

SchedulerSpec == SchedulerInit /\ [][SchedulerNext]_schedulerVars

-----------------------------------------------------------------------------
(* A request is never forgotten: whatever waits, a timer or a running flush *)
(* will look at it (reconcileScheduler.ts:43-46 and 90-92).                 *)
NoForgottenRequest == queuedReasons > 0 => timerScheduled \/ running

(* The timer never fires into a running flush, so a firing never drops the  *)
(* reasons that came in meanwhile (reconcileScheduler.ts:64-66).            *)
TimerOrFlush == ~(timerScheduled /\ running)

(* The timer never fires without a reason to reconcile for                  *)
(* (reconcileScheduler.ts:67-70).                                           *)
TimerHasWork == timerScheduled => queuedReasons > 0
=============================================================================
