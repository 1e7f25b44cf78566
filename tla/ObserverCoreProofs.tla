-------------------------- MODULE ObserverCoreProofs --------------------------
(***************************************************************************)
(* The reconcile scheduler keeps its promises inside the observer, for     *)
(* every set of rows, reports and callers and every bound: first for the   *)
(* scheduler alone, then because every step of the observer is a step of   *)
(* its scheduler or leaves it alone.  Then the order of the reconciles and *)
(* what becomes of a report they have overtaken, and with the scheduler's  *)
(* promise that the snapshot of an observer at rest is current.            *)
(***************************************************************************)
EXTENDS ObserverCore, TLAPS

SchedulerInv == /\ SchedulerTypeOK
                /\ NoForgottenRequest /\ TimerOrFlush /\ TimerHasWork

(* The counters, apart from the flags: what is requested waits or has been *)
(* taken, within the bound.                                                *)
CountsOK == queuedReasons \in 0..requests /\ requests \in 0..MaxRequests
FlagsOK == /\ timerScheduled \in BOOLEAN /\ running \in BOOLEAN
           /\ NoForgottenRequest /\ TimerOrFlush /\ TimerHasWork

LEMMA SchedulerParts == SchedulerInv <=> CountsOK /\ FlagsOK
BY DEF SchedulerInv, SchedulerTypeOK, CountsOK, FlagsOK

LEMMA CountsStep == CountsOK /\ [SchedulerNext]_schedulerVars => CountsOK'
BY ReconcileSchedulerAssumption, SMT
DEF CountsOK, SchedulerNext, RequestReconcile, FlushStarts, FlushEnds, schedulerVars

LEMMA SchedulerInvInit == SchedulerInit => SchedulerInv
<1> SUFFICES ASSUME SchedulerInit PROVE SchedulerInv
  OBVIOUS
<1>1. CountsOK /\ ~(queuedReasons > 0)
  BY ReconcileSchedulerAssumption DEF SchedulerInit, CountsOK
<1>2. FlagsOK
  BY <1>1, Zenon DEF SchedulerInit, FlagsOK, NoForgottenRequest, TimerOrFlush, TimerHasWork
<1> QED
  BY <1>1, <1>2, SchedulerParts

LEMMA SchedulerInvStep == SchedulerInv /\ [SchedulerNext]_schedulerVars => SchedulerInv'
<1> SUFFICES ASSUME SchedulerInv, [SchedulerNext]_schedulerVars PROVE FlagsOK'
  BY CountsStep DEF SchedulerInv, SchedulerTypeOK, CountsOK, FlagsOK
<1>1. CountsOK /\ FlagsOK
  BY SchedulerParts
<1>2. CASE RequestReconcile
  <2>1. queuedReasons' > 0
    BY <1>1, <1>2, ReconcileSchedulerAssumption, SMT DEF CountsOK, RequestReconcile
  <2>2. running' = running /\ timerScheduled' = (timerScheduled \/ ~running)
    BY <1>2 DEF RequestReconcile
  <2> QED
    BY <1>1, <2>1, <2>2, Zenon
       DEF FlagsOK, NoForgottenRequest, TimerOrFlush, TimerHasWork
<1>3. CASE FlushStarts
  <2>1. timerScheduled' = FALSE /\ running' = TRUE
    BY <1>3 DEF FlushStarts
  <2> QED
    BY <2>1, Zenon DEF FlagsOK, NoForgottenRequest, TimerOrFlush, TimerHasWork
<1>4. CASE FlushEnds
  <2>1. /\ running = TRUE /\ running' = FALSE /\ queuedReasons' = queuedReasons
        /\ timerScheduled' = (timerScheduled \/ queuedReasons > 0)
    BY <1>1, <1>4, Zenon DEF FlushEnds, FlagsOK
  <2> QED
    BY <1>1, <2>1, Zenon DEF FlagsOK, NoForgottenRequest, TimerOrFlush, TimerHasWork
<1>5. CASE UNCHANGED schedulerVars
  BY <1>1, <1>5 DEF schedulerVars, FlagsOK, NoForgottenRequest, TimerOrFlush, TimerHasWork
<1> QED
  BY <1>2, <1>3, <1>4, <1>5 DEF SchedulerNext

(* The scheduler alone: a request is never forgotten, the timer and a flush *)
(* exclude each other, and the timer never fires without a reason.         *)
THEOREM SchedulerCorrect == SchedulerSpec => []SchedulerInv
BY SchedulerInvInit, SchedulerInvStep, PTL DEF SchedulerSpec

(* The observer implements its scheduler: reports request, the flush is the *)
(* scheduler's call of runReconcile, and its return ends the flush.        *)
THEOREM SchedulerImplemented == Spec => SchedulerSpec
<1>1. Init => SchedulerInit
  BY DEF Init
<1>2. [Next]_vars => [SchedulerNext]_schedulerVars
  <2> SUFFICES ASSUME [Next]_vars PROVE [SchedulerNext]_schedulerVars
    OBVIOUS
  <2>1. CASE \E w \in Row : AgentExits(w)
    BY <2>1 DEF AgentExits
  <2>2. ASSUME NEW r \in Report, IngestReport(r) \/ ProjectReport(r) \/ PublishProjection(r) \/ RequestFor(r)
        PROVE  [SchedulerNext]_schedulerVars
    BY <2>2 DEF IngestReport, ProjectReport, PublishProjection, RequestFor, SchedulerNext
  <2>3. CASE \E c \in Manual : CallManual(c)
    BY <2>3 DEF CallManual, StartDrain
  <2>4. CASE Flush
    BY <2>4 DEF Flush, SchedulerNext
  <2>5. ASSUME NEW c \in Caller, CallStep(c) \/ DrainThrows(c) \/ ReconcileThrows(c)
        PROVE  [SchedulerNext]_schedulerVars
    <3>1. CASE Return(c)
      BY <3>1 DEF Return, SchedulerNext
    <3>2. CASE ~Return(c)
      BY <2>5, <3>2 DEF CallStep, JoinChain, DrainThrows, ReadProviders, OverlayReports, ReplaceSnapshot,
                        PublishReconcile, ReconcileThrows
    <3> QED
      BY <3>1, <3>2
  <2>6. CASE UNCHANGED vars
    BY <2>6 DEF vars
  <2> QED
    BY <2>1, <2>2, <2>3, <2>4, <2>5, <2>6 DEF Next
<1> QED
  BY <1>1, <1>2, PTL DEF Spec, SchedulerSpec

(* In the observer: whatever waits, a timer or a running flush looks at it. *)
THEOREM RequestsAreKept == Spec => []NoForgottenRequest
<1>1. SchedulerInv => NoForgottenRequest
  BY DEF SchedulerInv
<1> QED
  BY <1>1, SchedulerCorrect, SchedulerImplemented, PTL

(* In the observer: the timer never fires into a running flush, and never  *)
(* without a reason, so the early returns of flush() are never taken.      *)
THEOREM TimerFiresWell == Spec => []TimerOrFlush /\ []TimerHasWork
<1>1. SchedulerInv => TimerOrFlush /\ TimerHasWork
  BY DEF SchedulerInv
<1> QED
  BY <1>1, SchedulerCorrect, SchedulerImplemented, PTL

-----------------------------------------------------------------------------
(* The overlay. *)

(* Of a set of reports, and of one more, there is always a newest. *)
LEMMA NewestAdded ==
  ASSUME NEW reports \in SUBSET Report, HasNewest(reports), NEW r \in Report
  PROVE  HasNewest(reports \cup {r})
<1> SUFFICES ASSUME NEW some \in SUBSET (reports \cup {r}), some # {}
             PROVE  \E n \in some : Newest(n, some)
  BY DEF HasNewest
<1>1. \A s \in some : StatusOf[s].at \in Nat
  BY ObserverCoreAssumption
<1>2. CASE some \ {r} = {}
  BY <1>1, <1>2 DEF Newest
<1>3. CASE some \ {r} # {}
  <2>1. PICK m \in some \ {r} : Newest(m, some \ {r})
    BY <1>3 DEF HasNewest
  <2>2. CASE r \in some /\ StatusOf[m].at <= StatusOf[r].at
    BY <1>1, <2>1, <2>2 DEF Newest
  <2>3. CASE r \notin some \/ ~(StatusOf[m].at <= StatusOf[r].at)
    BY <1>1, <2>1, <2>3 DEF Newest
  <2> QED
    BY <2>2, <2>3
<1> QED
  BY <1>2, <1>3

(* What may replace the state the provider observed of a row's run. *)
Usable(w, observed, reports) ==
  {r \in reports : /\ StatusOf[r].row = w
                   /\ StatusOf[r].state # "unknown"
                   /\ ~Preserve(observed, StatusOf[r])}

(* The overlay leaves the observation alone when no report may replace it, *)
(* and otherwise shows the newest report that may.                         *)
LEMMA OverlayIsNewest ==
  ASSUME NEW w, NEW observed, NEW reports \in SUBSET Report, HasNewest(reports)
  PROVE  LET usable == Usable(w, observed, reports) IN
           \/ usable = {} /\ Overlay(w, observed, reports) = observed
           \/ \E r \in usable : /\ Newest(r, usable)
                               /\ Overlay(w, observed, reports) = ReportStatus(r)
<1> DEFINE usable == Usable(w, observed, reports)
<1>1. usable \in SUBSET reports
  BY DEF Usable
<1>2. CASE usable = {}
  BY <1>2 DEF Overlay, Usable
<1>3. CASE usable # {}
  <2> DEFINE n == CHOOSE r \in usable : \A s \in usable : StatusOf[s].at <= StatusOf[r].at
  <2>1. \E r \in usable : \A s \in usable : StatusOf[s].at <= StatusOf[r].at
    BY <1>1, <1>3 DEF HasNewest, Newest
  <2>2. n \in usable /\ Newest(n, usable)
    BY <2>1 DEF Newest
  <2>3. Overlay(w, observed, reports) = ReportStatus(n)
    BY <1>3 DEF Overlay, Usable
  <2> QED
    BY <2>2, <2>3
<1> QED
  BY <1>2, <1>3

LEMMA AgentFromType ==
  ASSUME NEW w, NEW observed \in Agent, NEW reports \in SUBSET Report, HasNewest(reports)
  PROVE  AgentFrom(w, observed, reports) \in Agent
<1> DEFINE usable == Usable(w, observed, reports)
<1>1. usable \subseteq Report
  BY DEF Usable
<1>2. \/ Overlay(w, observed, reports) = observed
      \/ \E r \in usable : Overlay(w, observed, reports) = ReportStatus(r)
  BY OverlayIsNewest
<1>3. \A r \in usable : ReportStatus(r) \in Agent
  BY <1>1 DEF Agent, Statuses
<1> QED
  BY <1>2, <1>3 DEF AgentFrom

-----------------------------------------------------------------------------
(* The types. *)

CoreTypeOK ==
  /\ snapshot \in [Row -> Agent]
  /\ live \in [Row -> {Start, Exited}]
  /\ stored \in SUBSET Report
  /\ stage \in [Report -> ReportStage]
  /\ call \in [Caller -> CallStage]
  /\ before \in [Caller -> [Row -> Agent]]
  /\ result \in [Caller -> [agents : [Row -> Agent], live : [Row -> Agent], basis : SUBSET Report]]
  /\ chain \in Seq(Caller)
  /\ told \in [Row -> Agent]
  /\ liveRead \in [Row -> Agent]
  /\ basis \in SUBSET Report
  /\ faults \in 0..MaxFaults

LEMMA TypeParts == TypeOK <=> SchedulerTypeOK /\ CoreTypeOK
BY DEF TypeOK, CoreTypeOK

LEMMA StatusesAreAgents == /\ \A r \in Report : ReportStatus(r) \in Agent
                           /\ {Start, Exited} \subseteq Agent /\ NoAgent \in Agent
BY DEF Agent, Statuses

LEMMA CoreInit == Init => CoreTypeOK /\ CoreInv
<1> SUFFICES ASSUME Init PROVE CoreTypeOK /\ CoreInv
  OBVIOUS
<1>1. [w \in Row |-> Start] \in [Row -> Agent]
  BY StatusesAreAgents
<1>2. CoreTypeOK
  BY <1>1, ObserverCoreAssumption
  DEF Init, CoreTypeOK, ReportStage, CallStage
<1>3. OneReads /\ ReadsInOrder
  BY DEF Init, OneReads, ReadsInOrder
<1>4. HasNewest(stored)
  BY DEF Init, HasNewest
<1>5. NothingLost
  BY DEF Init, NothingLost, SnapshotMadeGood, AgentFrom, Overlay
<1> QED
  BY <1>2, <1>3, <1>4, <1>5 DEF CoreInv

-----------------------------------------------------------------------------
(* What the steps of a call do to its own snapshot, field by field. *)

LEMMA ReadResult ==
  ASSUME CoreTypeOK, NEW c \in Caller, ReadProviders(c)
  PROVE  /\ result' \in [Caller -> [agents : [Row -> Agent], live : [Row -> Agent],
                                    basis : SUBSET Report]]
         /\ \A d \in Caller \ {c} : result'[d] = result[d]
         /\ faults' \in 0..MaxFaults /\ faults' >= faults
<1>1. PICK read \in [Row -> Agent] : result' = [result EXCEPT ![c].live = read]
  <2>1. live \in [Row -> Agent]
    BY StatusesAreAgents DEF CoreTypeOK
  <2>2. \A w \in Row : [live EXCEPT ![w] = NoAgent] \in [Row -> Agent]
    BY <2>1, StatusesAreAgents
  <2> QED
    BY <2>1, <2>2 DEF ReadProviders
<1>2. result[c] \in [agents : [Row -> Agent], live : [Row -> Agent], basis : SUBSET Report]
  BY DEF CoreTypeOK
<1>3. [result[c] EXCEPT !.live = read]
         \in [agents : [Row -> Agent], live : [Row -> Agent], basis : SUBSET Report]
  BY <1>1, <1>2
<1>4. faults' \in 0..MaxFaults /\ faults' >= faults
  BY ObserverCoreAssumption DEF ReadProviders, Fault, CoreTypeOK
<1> QED
  BY <1>1, <1>3, <1>4 DEF CoreTypeOK

LEMMA OverlayResult ==
  ASSUME CoreTypeOK, HasNewest(stored), NEW c \in Caller, OverlayReports(c)
  PROVE  /\ result' \in [Caller -> [agents : [Row -> Agent], live : [Row -> Agent],
                                    basis : SUBSET Report]]
         /\ \A d \in Caller \ {c} : result'[d] = result[d]
         /\ result'[c].basis = stored
         /\ \A w \in Row : result'[c].agents[w] = AgentFrom(w, result'[c].live[w], stored)
<1> DEFINE made == [w \in Row |-> AgentFrom(w, result[c].live[w], stored)]
<1>1. result[c] \in [agents : [Row -> Agent], live : [Row -> Agent], basis : SUBSET Report]
  BY DEF CoreTypeOK
<1>2. made \in [Row -> Agent]
  BY <1>1, AgentFromType DEF CoreTypeOK
<1>3. result' = [result EXCEPT ![c].agents = made, ![c].basis = stored]
  BY DEF OverlayReports
<1> HIDE DEF made
<1>4. \A d \in Caller \ {c} : result'[d] = result[d]
  BY <1>3 DEF CoreTypeOK
<1>5. result'[c] = [[result[c] EXCEPT !.agents = made] EXCEPT !.basis = stored]
  BY <1>3 DEF CoreTypeOK
<1> QED
  BY <1>1, <1>2, <1>3, <1>4, <1>5 DEF made, CoreTypeOK

LEMMA CoreTypeStep == CoreTypeOK /\ CoreInv /\ [Next]_vars => CoreTypeOK'
<1> SUFFICES ASSUME CoreTypeOK, CoreInv, [Next]_vars PROVE CoreTypeOK'
  OBVIOUS
<1> USE DEF SetStage, SetCall
<1>1. ASSUME NEW w \in Row, AgentExits(w) PROVE CoreTypeOK'
  BY <1>1 DEF AgentExits, CoreTypeOK
<1>2. ASSUME NEW r \in Report, IngestReport(r) \/ RequestFor(r) PROVE CoreTypeOK'
  BY <1>2 DEF IngestReport, RequestFor, CoreTypeOK, ReportStage
<1>3. ASSUME NEW r \in Report, ProjectReport(r) PROVE CoreTypeOK'
  <2>1. ReportStatus(r) \in Agent
    BY StatusesAreAgents
  <2>2. /\ snapshot \in [Row -> Agent] /\ told' \in [Row -> Agent]
        /\ snapshot' \in {snapshot, [snapshot EXCEPT ![StatusOf[r].row] = ReportStatus(r)]}
    BY <1>3 DEF ProjectReport, CoreTypeOK
  <2>3. snapshot' \in [Row -> Agent]
    BY <2>1, <2>2
  <2>4. faults' \in 0..MaxFaults
    BY <1>3, ObserverCoreAssumption DEF ProjectReport, Fault, CoreTypeOK
  <2>5. stage' \in [Report -> ReportStage]
    BY <1>3 DEF ProjectReport, CoreTypeOK, ReportStage
  <2> QED
    BY <1>3, <2>2, <2>4, <2>5, <2>3 DEF ProjectReport, CoreTypeOK
<1>4. ASSUME NEW c \in Caller, StartDrain(c) PROVE CoreTypeOK'
  BY <1>4 DEF StartDrain, CoreTypeOK, CallStage
<1>5. ASSUME NEW c \in Caller, JoinChain(c) PROVE CoreTypeOK'
  <2>1. chain' \in Seq(Caller)
    BY <1>5 DEF JoinChain, CoreTypeOK
  <2> QED
    BY <1>5, <2>1 DEF JoinChain, CoreTypeOK, CallStage
<1>6. ASSUME NEW c \in Caller, DrainThrows(c) PROVE CoreTypeOK'
  BY <1>6, ObserverCoreAssumption DEF DrainThrows, Fault, CoreTypeOK, CallStage
<1>7. ASSUME NEW c \in Caller, ReadProviders(c) PROVE CoreTypeOK'
  <2>1. call' \in [Caller -> CallStage]
    BY <1>7 DEF ReadProviders, CoreTypeOK, CallStage
  <2> QED
    BY <1>7, <2>1, ReadResult DEF ReadProviders, CoreTypeOK
<1>8. ASSUME NEW c \in Caller, OverlayReports(c) PROVE CoreTypeOK'
  <2>1. call' \in [Caller -> CallStage]
    BY <1>8 DEF OverlayReports, CoreTypeOK, CallStage
  <2> QED
    BY <1>8, <2>1, OverlayResult DEF OverlayReports, CoreTypeOK, CoreInv
<1>9. \A c \in Caller : call[c] \in {"overlaying", "persisting"} => Tail(chain) \in Seq(Caller)
  BY DEF CoreInv, OneReads, Turn, CoreTypeOK
<1>10. ASSUME NEW c \in Caller, ReplaceSnapshot(c) PROVE CoreTypeOK'
  <2>1. /\ result[c].agents \in [Row -> Agent] /\ result[c].live \in [Row -> Agent]
        /\ result[c].basis \in SUBSET Report
    BY DEF CoreTypeOK
  <2> QED
    BY <1>9, <1>10, <2>1 DEF ReplaceSnapshot, CoreTypeOK, CallStage
<1>11. ASSUME NEW c \in Caller, ReconcileThrows(c) PROVE CoreTypeOK'
  BY <1>9, <1>11, ObserverCoreAssumption DEF ReconcileThrows, Fault, CoreTypeOK, CallStage
<1>12. ASSUME NEW c \in Caller, PublishReconcile(c) PROVE CoreTypeOK'
  <2>1. result[c].agents \in [Row -> Agent]
    BY DEF CoreTypeOK
  <2>2. told' \in [Row -> Agent]
    BY <1>12, <2>1 DEF PublishReconcile, CoreTypeOK
  <2> QED
    BY <1>12, <2>2 DEF PublishReconcile, CoreTypeOK, CallStage
<1>13. ASSUME NEW c \in Caller, Return(c) PROVE CoreTypeOK'
  BY <1>13 DEF Return, CoreTypeOK, CallStage
<1>14. CASE UNCHANGED vars
  BY <1>14 DEF vars, coreVars, CoreTypeOK
<1>15. ASSUME NEW r \in Report, PublishProjection(r) PROVE CoreTypeOK'
  <2>1. told' \in [Row -> Agent] /\ stage' \in [Report -> ReportStage]
    BY <1>15, StatusesAreAgents DEF PublishProjection, CoreTypeOK, ReportStage
  <2> QED
    BY <1>15, <2>1 DEF PublishProjection, CoreTypeOK
<1> QED
  BY <1>1, <1>2, <1>3, <1>4, <1>5, <1>6, <1>7, <1>8, <1>10, <1>11, <1>12, <1>13, <1>14,
     <1>15
     DEF Next, CallStep, CallManual, Flush, Caller

-----------------------------------------------------------------------------
(* The chain of reconciles. *)

LEMMA OneReadsStep == CoreTypeOK /\ OneReads /\ [Next]_vars => OneReads'
<1> SUFFICES ASSUME CoreTypeOK, OneReads, [Next]_vars PROVE OneReads'
  OBVIOUS
<1> USE DEF SetCall, OneReads, Turn
<1>1. CASE UNCHANGED <<call, chain>>
  BY <1>1
<1>2. ASSUME NEW c \in Caller, NEW s \in CallStage \ {"overlaying", "persisting"},
             SetCall(c, s), UNCHANGED chain
      PROVE  OneReads'
  BY <1>2 DEF CoreTypeOK
<1>3. ASSUME NEW c \in Caller, StartDrain(c) PROVE OneReads'
  BY <1>2, <1>3 DEF StartDrain, CallStage
<1>4. ASSUME NEW c \in Caller, DrainThrows(c) \/ PublishReconcile(c) \/ Return(c)
      PROVE  OneReads'
  BY <1>2, <1>4 DEF DrainThrows, PublishReconcile, Return, CallStage
<1>5. ASSUME NEW c \in Caller, JoinChain(c) PROVE OneReads'
  <2>1. chain' = Append(chain, c) /\ call' = [call EXCEPT ![c] = "waiting"]
    BY <1>5 DEF JoinChain
  <2>2. chain # <<>> => chain' # <<>> /\ Head(chain') = Head(chain)
    BY <2>1 DEF CoreTypeOK
  <2> QED
    BY <2>1, <2>2 DEF CoreTypeOK
<1>6. ASSUME NEW c \in Caller, ReadProviders(c) \/ OverlayReports(c) PROVE OneReads'
  BY <1>6 DEF ReadProviders, OverlayReports, CoreTypeOK
<1>7. ASSUME NEW c \in Caller, ReplaceSnapshot(c) \/ ReconcileThrows(c) PROVE OneReads'
  <2>1. call[c] \in {"overlaying", "persisting"}
    BY <1>7 DEF ReplaceSnapshot, ReconcileThrows
  <2>2. \A d \in Caller \ {c} : call'[d] \notin {"overlaying", "persisting"}
    BY <1>7, <2>1 DEF ReplaceSnapshot, ReconcileThrows, CoreTypeOK
  <2>3. call'[c] \in {"publishing", "returned"}
    BY <1>7 DEF ReplaceSnapshot, ReconcileThrows, CoreTypeOK
  <2> QED
    BY <2>2, <2>3
<1> QED
  BY <1>1, <1>3, <1>4, <1>5, <1>6, <1>7
     DEF Next, CallStep, CallManual, Flush, Caller, vars, coreVars,
         AgentExits, IngestReport, ProjectReport, PublishProjection, RequestFor

(* Reports are stored one at a time. *)
LEMMA NewestStep ==
  CoreTypeOK /\ HasNewest(stored) /\ [Next]_vars => HasNewest(stored)'
<1> SUFFICES ASSUME CoreTypeOK, HasNewest(stored), [Next]_vars PROVE HasNewest(stored')
  BY DEF HasNewest, Newest
<1>1. ASSUME NEW r \in Report, IngestReport(r) PROVE HasNewest(stored')
  BY <1>1, NewestAdded DEF IngestReport, CoreTypeOK
<1>2. CASE stored' = stored
  BY <1>2
<1> QED
  BY <1>1, <1>2 DEF Next, CallStep, CallManual, Flush, StartDrain, vars, coreVars, AgentExits,
     ProjectReport, PublishProjection, RequestFor, JoinChain, ReadProviders, OverlayReports,
     ReplaceSnapshot,
     PublishReconcile, Return, DrainThrows, ReconcileThrows

(* A step that writes no snapshot keeps what is built, as long as it moves *)
(* nobody to its write and takes no stored report away.                    *)
LEMMA InOrderKept ==
  ASSUME CoreTypeOK, ReadsInOrder, basis' = basis, stored \subseteq stored',
         \A c \in Caller : call'[c] = "persisting" =>
                             call[c] = "persisting" /\ result'[c] = result[c]
  PROVE  ReadsInOrder'
BY DEF ReadsInOrder, BuiltInOrder

LEMMA InOrderStep == CoreTypeOK /\ CoreInv /\ [Next]_vars => ReadsInOrder'
<1> SUFFICES ASSUME CoreTypeOK, OneReads, HasNewest(stored), ReadsInOrder, [Next]_vars
             PROVE  ReadsInOrder'
  BY DEF CoreInv
<1> USE DEF SetCall
<1>1. CASE UNCHANGED <<call, result, basis>> /\ stored \subseteq stored'
  BY <1>1, InOrderKept
<1>2. ASSUME NEW c \in Caller, NEW s \in CallStage \ {"persisting"},
             SetCall(c, s), UNCHANGED <<result, stored, basis>>
      PROVE  ReadsInOrder'
  BY <1>2, InOrderKept DEF CoreTypeOK
<1>3. ASSUME NEW c \in Caller, StartDrain(c) \/ JoinChain(c) PROVE ReadsInOrder'
  BY <1>2, <1>3 DEF StartDrain, JoinChain, CallStage
<1>4. ASSUME NEW c \in Caller,
             DrainThrows(c) \/ ReconcileThrows(c) \/ PublishReconcile(c) \/ Return(c)
      PROVE  ReadsInOrder'
  BY <1>2, <1>4 DEF DrainThrows, ReconcileThrows, PublishReconcile, Return, CallStage
<1>5. ASSUME NEW c \in Caller, ReadProviders(c) PROVE ReadsInOrder'
  <2>1. /\ call' = [call EXCEPT ![c] = "overlaying"]
        /\ \A d \in Caller \ {c} : result'[d] = result[d]
        /\ UNCHANGED <<basis, stored>>
    BY <1>5, ReadResult DEF ReadProviders
  <2> QED
    BY <2>1, InOrderKept DEF CoreTypeOK
<1>6. ASSUME NEW c \in Caller, OverlayReports(c) PROVE ReadsInOrder'
  <2>1. /\ call' = [call EXCEPT ![c] = "persisting"] /\ UNCHANGED <<basis, stored>>
        /\ \A d \in Caller \ {c} : result'[d] = result[d]
    BY <1>6, OverlayResult DEF OverlayReports
  <2>2. BuiltInOrder(c)'
    BY <1>6, <2>1, OverlayResult DEF BuiltInOrder, ReadsInOrder
  <2>3. \A d \in Caller \ {c} : call'[d] = "persisting" => BuiltInOrder(d)'
    BY <2>1 DEF ReadsInOrder, BuiltInOrder, CoreTypeOK
  <2> QED
    BY <2>1, <2>2, <2>3 DEF ReadsInOrder
<1>7. ASSUME NEW c \in Caller, ReplaceSnapshot(c) PROVE ReadsInOrder'
  <2>1. /\ call[c] = "persisting" /\ call' = [call EXCEPT ![c] = "publishing"]
        /\ basis' = result[c].basis /\ UNCHANGED <<stored, result>>
    BY <1>7 DEF ReplaceSnapshot
  <2>2. \A d \in Caller : call'[d] # "persisting"
    BY <2>1 DEF OneReads, Turn, CoreTypeOK
  <2> QED
    BY <2>1, <2>2 DEF ReadsInOrder, BuiltInOrder
<1> QED
  BY <1>1, <1>3, <1>4, <1>5, <1>6, <1>7
     DEF Next, CallStep, CallManual, Flush, Caller, vars, coreVars,
         AgentExits, IngestReport, ProjectReport, PublishProjection, RequestFor

-----------------------------------------------------------------------------
(* No report and no projection is lost. *)

(* A step that neither stores, projects nor replaces, and keeps what the   *)
(* scheduler owes.                                                         *)
LEMMA LossKept ==
  ASSUME NothingLost, UNCHANGED <<snapshot, liveRead, basis, stored, stage>>,
         faults' = 0 => faults = 0,
         ReadDue => ReadDue',
         WriteDue => WriteDue' /\ result'[Scheduler].basis = result[Scheduler].basis
  PROVE  NothingLost'
BY DEF NothingLost, SnapshotMadeGood, ReportReaches

LEMMA FaultIsCounted == ASSUME CoreTypeOK, Fault PROVE faults' # 0
BY DEF CoreTypeOK, Fault

LEMMA LossStep == TypeOK /\ CoreInv /\ [Next]_vars => NothingLost'
<1> SUFFICES ASSUME CoreTypeOK, SchedulerTypeOK, CoreInv, [Next]_vars PROVE NothingLost'
  BY TypeParts
<1>0. NothingLost
  BY DEF CoreInv
<1> USE DEF SetStage, SetCall, ReadDue, WriteDue
<1>1. CASE UNCHANGED <<snapshot, liveRead, basis, stored, stage, faults, call, result, schedulerVars>>
  BY <1>0, <1>1, LossKept DEF schedulerVars
<1>2. ASSUME NEW r \in Report, IngestReport(r) PROVE NothingLost'
  <2>1. /\ stored' = stored \cup {r} /\ stage[r] = "new" /\ stage'[r] = "stored"
        /\ \A s \in Report \ {r} : stage'[s] = stage[s]
        /\ UNCHANGED <<schedulerVars, snapshot, call, result, liveRead, basis, faults>>
    BY <1>2 DEF IngestReport, CoreTypeOK
  <2>2. SnapshotMadeGood => SnapshotMadeGood'
    BY <2>1 DEF SnapshotMadeGood, schedulerVars
  <2>3. \A s \in stored : ReportReaches(s) => ReportReaches(s)'
    BY <2>1 DEF ReportReaches, schedulerVars, CoreTypeOK
  <2>4. ReportReaches(r)'
    BY <2>1 DEF ReportReaches
  <2> QED
    BY <1>0, <2>1, <2>2, <2>3, <2>4 DEF NothingLost
<1>3. ASSUME NEW r \in Report, ProjectReport(r) PROVE NothingLost'
  <2>1. /\ stage[r] = "stored" /\ stage'[r] \in {"patched", "projected"}
        /\ \A s \in Report \ {r} : stage'[s] = stage[s]
        /\ UNCHANGED <<schedulerVars, stored, call, result, liveRead, basis>>
    BY <1>3 DEF ProjectReport, CoreTypeOK
  <2>2. SnapshotMadeGood'
    BY <2>1 DEF SnapshotMadeGood
  <2>3. \A s \in stored : ReportReaches(s) => ReportReaches(s)'
    BY <2>1 DEF ReportReaches, schedulerVars, CoreTypeOK
  <2>4. faults' = 0 => faults = 0
    BY <1>3, FaultIsCounted DEF ProjectReport
  <2> QED
    BY <1>0, <2>1, <2>2, <2>3, <2>4 DEF NothingLost
<1>4. ASSUME NEW r \in Report, RequestFor(r) PROVE NothingLost'
  <2>1. queuedReasons' > 0
    BY <1>4 DEF RequestFor, RequestReconcile, SchedulerTypeOK
  <2> QED
    BY <2>1 DEF NothingLost, SnapshotMadeGood, ReportReaches
<1>5. ASSUME NEW c \in Manual, CallManual(c) PROVE NothingLost'
  <2>1. c # Scheduler
    BY ObserverCoreAssumption
  <2> QED
    BY <1>0, <1>5, <2>1, LossKept DEF CallManual, StartDrain, schedulerVars, CoreTypeOK, Caller
<1>6. CASE Flush
  <2>1. call'[Scheduler] = "draining"
    BY <1>6 DEF Flush, StartDrain, CoreTypeOK, Caller
  <2> QED
    BY <2>1 DEF NothingLost, SnapshotMadeGood, ReportReaches
<1>7. ASSUME NEW c \in Caller, JoinChain(c) PROVE NothingLost'
  BY <1>0, <1>7, LossKept DEF JoinChain, schedulerVars, CoreTypeOK
<1>8. ASSUME NEW c \in Caller, DrainThrows(c) \/ ReconcileThrows(c) PROVE NothingLost'
  BY <1>8, FaultIsCounted DEF DrainThrows, ReconcileThrows, NothingLost
<1>9. ASSUME NEW c \in Caller, ReadProviders(c) PROVE NothingLost'
  <2>1. /\ call[c] = "waiting" /\ call' = [call EXCEPT ![c] = "overlaying"]
        /\ \A d \in Caller \ {c} : result'[d] = result[d]
        /\ UNCHANGED <<schedulerVars, snapshot, stored, stage, liveRead, basis>>
    BY <1>9, ReadResult DEF ReadProviders
  <2>2. faults' = 0 => faults = 0
    BY <1>9, ReadResult DEF CoreTypeOK
  <2> QED
    BY <1>0, <2>1, <2>2, LossKept DEF schedulerVars, CoreTypeOK, Caller
<1>10. ASSUME NEW c \in Caller, OverlayReports(c) PROVE NothingLost'
  <2>1. /\ call[c] = "overlaying" /\ call' = [call EXCEPT ![c] = "persisting"]
        /\ result'[c].basis = stored
        /\ \A d \in Caller \ {c} : result'[d] = result[d]
        /\ UNCHANGED <<schedulerVars, snapshot, stored, stage, liveRead, basis, faults>>
    BY <1>10, OverlayResult DEF OverlayReports, CoreInv
  <2>2. CASE c = Scheduler
    <3>1. call'[Scheduler] = "persisting" /\ result'[Scheduler].basis = stored'
      BY <2>1, <2>2 DEF CoreTypeOK
    <3> QED
      BY <3>1 DEF NothingLost, SnapshotMadeGood, ReportReaches
  <2>3. CASE c # Scheduler
    BY <1>0, <2>1, <2>3, LossKept DEF schedulerVars, CoreTypeOK, Caller
  <2> QED
    BY <2>2, <2>3
<1>11. ASSUME NEW c \in Caller, ReplaceSnapshot(c) PROVE NothingLost'
  <2>1. /\ call[c] = "persisting" /\ call' = [call EXCEPT ![c] = "publishing"]
        /\ snapshot' = result[c].agents /\ liveRead' = result[c].live
        /\ basis' = result[c].basis
        /\ UNCHANGED <<schedulerVars, stored, stage, faults, result>>
    BY <1>11 DEF ReplaceSnapshot
  <2>2. BuiltInOrder(c)
    BY <2>1 DEF CoreInv, ReadsInOrder
  <2>3. SnapshotMadeGood'
    BY <2>1, <2>2 DEF SnapshotMadeGood, BuiltInOrder
  <2>4. ASSUME NEW r \in stored, ReportReaches(r) PROVE ReportReaches(r)'
    <3>1. CASE r \in basis
      BY <2>1, <2>2, <3>1 DEF ReportReaches, BuiltInOrder
    <3>2. CASE stage[r] \in {"stored", "patched", "projected"}
      BY <2>1, <3>2 DEF ReportReaches
    <3>3. CASE ReadDue
      BY <2>1, <3>3 DEF ReportReaches, schedulerVars, CoreTypeOK, Caller
    <3>4. CASE WriteDue /\ r \in result[Scheduler].basis
      <4>1. c = Scheduler
        BY <2>1, <3>4 DEF CoreInv, OneReads, Turn, Caller
      <4> QED
        BY <2>1, <3>4, <4>1 DEF ReportReaches
    <3> QED
      BY <2>4, <3>1, <3>2, <3>3, <3>4 DEF ReportReaches
  <2> QED
    BY <1>0, <2>1, <2>3, <2>4 DEF NothingLost
<1>12. ASSUME NEW c \in Caller, PublishReconcile(c) PROVE NothingLost'
  BY <1>0, <1>12, LossKept DEF PublishReconcile, schedulerVars, CoreTypeOK, Caller
<1>13. ASSUME NEW c \in Caller, Return(c) PROVE NothingLost'
  <2>1. /\ call[c] = "returned" /\ call' = [call EXCEPT ![c] = "idle"]
        /\ queuedReasons' = queuedReasons
        /\ UNCHANGED <<snapshot, stored, stage, result, liveRead, basis, faults>>
    BY <1>13 DEF Return, FlushEnds, schedulerVars
  <2> QED
    BY <1>0, <2>1, LossKept DEF CoreTypeOK, Caller
<1>14. ASSUME NEW r \in Report, PublishProjection(r) PROVE NothingLost'
  <2>1. /\ stage'[r] = "projected"
        /\ \A s \in Report \ {r} : stage'[s] = stage[s]
        /\ UNCHANGED <<schedulerVars, snapshot, stored, call, result, liveRead, basis, faults>>
    BY <1>14 DEF PublishProjection, CoreTypeOK
  <2>2. SnapshotMadeGood'
    BY <2>1 DEF SnapshotMadeGood
  <2>3. \A s \in stored : ReportReaches(s) => ReportReaches(s)'
    BY <2>1 DEF ReportReaches, schedulerVars, CoreTypeOK
  <2> QED
    BY <1>0, <2>1, <2>2, <2>3 DEF NothingLost
<1> QED
  BY <1>1, <1>2, <1>3, <1>4, <1>5, <1>6, <1>7, <1>8, <1>9, <1>10, <1>11, <1>12, <1>13,
     <1>14
     DEF Next, CallStep, vars, coreVars, AgentExits

-----------------------------------------------------------------------------
(* Every variable of the observer keeps its type, for every set of rows,   *)
(* reports and callers; with it, only the oldest call of the chain reads,  *)
(* and what it builds knows every report behind the snapshot.              *)
THEOREM CoreCorrect == Spec => [](TypeOK /\ CoreInv)
<1>1. SchedulerInv => SchedulerTypeOK
  BY DEF SchedulerInv
<1>2. Spec => []SchedulerTypeOK
  BY <1>1, SchedulerCorrect, SchedulerImplemented, PTL
<1>3. SchedulerTypeOK /\ CoreTypeOK /\ CoreInv /\ [Next]_vars => CoreTypeOK' /\ CoreInv'
  <2> SUFFICES ASSUME SchedulerTypeOK, CoreTypeOK, CoreInv, [Next]_vars
               PROVE  CoreTypeOK' /\ CoreInv'
    OBVIOUS
  <2>1. OneReads /\ HasNewest(stored)
    BY DEF CoreInv
  <2>2. OneReads' /\ HasNewest(stored)' /\ ReadsInOrder' /\ NothingLost' /\ CoreTypeOK'
    BY <2>1, TypeParts, CoreTypeStep, OneReadsStep, NewestStep, InOrderStep, LossStep
  <2> QED
    BY <2>2 DEF CoreInv
<1>4. Spec => [](CoreTypeOK /\ CoreInv)
  BY <1>2, <1>3, CoreInit, PTL DEF Spec
<1> QED
  BY <1>2, <1>4, TypeParts, PTL

(* At rest the snapshot shows, for every row, the newest stored status     *)
(* that holds: every stored report is behind the last reconcile, and every *)
(* projection over it has asked for the reconcile that came after it.      *)
THEOREM SnapshotSettles == Spec => []QuietSnapshotIsCurrent
<1>1. TypeOK /\ CoreInv => QuietSnapshotIsCurrent
  <2> SUFFICES ASSUME TypeOK, CoreInv, Quiet, faults = 0, NEW w \in Row
               PROVE  snapshot[w] = AgentFrom(w, liveRead[w], stored)
    BY DEF QuietSnapshotIsCurrent
  <2>1. SnapshotMadeGood /\ \A r \in stored : ReportReaches(r)
    BY DEF CoreInv, NothingLost
  <2>2. ~ReadDue /\ ~WriteDue
    BY DEF Quiet, ReadDue, WriteDue, Caller
  <2>3. \A r \in Report : stage[r] \notin {"stored", "patched", "projected"}
    BY DEF Quiet
  <2>4. stored \subseteq basis
    BY <2>1, <2>2, <2>3 DEF ReportReaches, TypeOK
  <2>5. basis = stored
    BY <2>4 DEF CoreInv, ReadsInOrder
  <2> QED
    BY <2>1, <2>2, <2>3, <2>5 DEF SnapshotMadeGood
<1> QED
  BY <1>1, CoreCorrect, PTL

(* Reconciles take effect in the order they read the stored reports.       *)
THEOREM BasisGrows == Spec => BasisNeverShrinks
<1>1. TypeOK /\ CoreInv /\ [Next]_vars => [basis \subseteq basis']_vars
  <2> SUFFICES ASSUME CoreInv, Next PROVE basis \subseteq basis'
    OBVIOUS
  <2>1. ASSUME NEW c \in Caller, ReplaceSnapshot(c) PROVE basis \subseteq basis'
    BY <2>1 DEF ReplaceSnapshot, CoreInv, ReadsInOrder, BuiltInOrder
  <2> QED
    BY <2>1 DEF Next, CallStep, CallManual, Flush, StartDrain, AgentExits, IngestReport,
       ProjectReport, PublishProjection, RequestFor, JoinChain, ReadProviders, OverlayReports,
       PublishReconcile, Return, DrainThrows, ReconcileThrows
<1> QED
  BY <1>1, CoreCorrect, PTL DEF Spec, BasisNeverShrinks
=============================================================================
