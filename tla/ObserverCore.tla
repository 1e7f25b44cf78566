---------------------------- MODULE ObserverCore ----------------------------
(***************************************************************************)
(* How the observer keeps its snapshot of the agents current               *)
(* (apps/observer/src/reconcile and runtime/api.ts).  Two writers share    *)
(* it: reconciles, which read the providers and the stored harness reports *)
(* over many awaits and then replace it as a whole, one after the other,   *)
(* and projections, which patch the status of one report into it at once.  *)
(* Both publish what changed, and every report asks for a reconcile.       *)
(***************************************************************************)
EXTENDS ReconcileScheduler, FiniteSets, Sequences

CONSTANTS Row,            \* worktree rows, each with the run of one agent
          Report,         \* harness reports that carry a status
          StatusOf,       \* [row, state, high, at] of each report
          Start, Exited,  \* what the harness provider itself observes of a run
          Manual,         \* callers of reconcile besides the scheduler
          NoAgent,        \* a row without an agent
          MaxFaults       \* bound: reads or runs that fail

Scheduler == "scheduler"
Caller == Manual \cup {Scheduler}
ReportStatus(r) == [state |-> StatusOf[r].state, high |-> StatusOf[r].high, at |-> StatusOf[r].at]
Statuses == {ReportStatus(r) : r \in Report} \cup {Start, Exited}
Agent == Statuses \cup {NoAgent}

(* Reports of one row are told apart by the time of their status; the      *)
(* tie-breakers (observedAt, id) are left out.                             *)
ASSUME ObserverCoreAssumption ==
  /\ Scheduler \notin Manual
  /\ \A r \in Report : StatusOf[r].at \in Nat
  /\ \A r, s \in Report : r # s => StatusOf[r].at # StatusOf[s].at
  /\ NoAgent \notin Statuses
  /\ MaxFaults \in Nat

VARIABLES snapshot,   \* the agent of each row
          live,       \* what the provider would observe of each run
          stored,     \* reports whose observation is in sqlite
          stage,      \* where a report stands in its ingestion
          call,       \* where a call of runReconcile stands
          before,     \* its previousSnapshot
          result,     \* the snapshot it builds
          chain,      \* reconcileChain: calls that wait or run, oldest first
          told,       \* history: the last state announced of each row's agent
          liveRead,   \* history: provider states behind the current snapshot
          basis,      \* history: reports behind the last reconciled snapshot
          faults

coreVars == <<snapshot, live, stored, stage, call, before, result, chain,
              told, liveRead, basis, faults>>
vars == <<schedulerVars, coreVars>>

CallStage == {"idle", "draining", "waiting", "overlaying", "persisting", "publishing", "returned"}
ReportStage == {"new", "stored", "patched", "projected", "published"}

TypeOK ==
  /\ SchedulerTypeOK
  /\ snapshot \in [Row -> Agent]
  /\ live \in [Row -> {Start, Exited}]
  /\ stored \in SUBSET Report
  /\ stage \in [Report -> ReportStage]
  /\ call \in [Caller -> CallStage]
  /\ before \in [Caller -> [Row -> Agent]]
  /\ result \in [Caller -> [agents : [Row -> Agent], live : [Row -> Agent], basis : SUBSET Report]]
  /\ chain \in Seq(Caller)
  /\ told \in [Row -> Agent]
  /\ liveRead \in [Row -> Agent]
  /\ basis \in SUBSET Report
  /\ faults \in 0..MaxFaults

-----------------------------------------------------------------------------
(* A high-confidence exit is not undone by an older status. *)
Preserve(agent, status) ==
  agent.state = "exited" /\ agent.high /\ status.at < agent.at

(* Mutant: the overlay puts the whole report in the agent's place. *)
OverlayReport(row, observed, reports) ==
  LET usable == {r \in reports : StatusOf[r].row = row}
  IN  IF usable = {} THEN observed ELSE StatusOf[CHOOSE r \in usable : TRUE]

(* applyHarnessEventStatusOverlays: the newest stored status that may replace *)
(* what the provider observed of the run.                                    *)
Overlay(row, observed, reports) ==
  LET usable == {r \in reports : /\ StatusOf[r].row = row
                                 /\ StatusOf[r].state # "unknown"
                                 /\ ~Preserve(observed, StatusOf[r])}
      newest == CHOOSE r \in usable : \A s \in usable : StatusOf[s].at <= StatusOf[r].at
  IN  IF usable = {} THEN observed ELSE ReportStatus(newest)

AgentFrom(row, observed, reports) ==
  IF observed = NoAgent THEN NoAgent ELSE Overlay(row, observed, reports)

StateChanged(old, new) ==
  old # NoAgent /\ (new = NoAgent \/ old.state # new.state)

-----------------------------------------------------------------------------
(* The startup reconcile is over: every run is observed, nothing is stored. *)
Init ==
  /\ SchedulerInit
  /\ snapshot = [w \in Row |-> Start]
  /\ live = [w \in Row |-> Start]
  /\ stored = {}
  /\ stage = [r \in Report |-> "new"]
  /\ call = [c \in Caller |-> "idle"]
  /\ before = [c \in Caller |-> snapshot]
  /\ result = [c \in Caller |-> [agents |-> snapshot, live |-> snapshot, basis |-> {}]]
  /\ chain = <<>>
  /\ told = snapshot
  /\ liveRead = live
  /\ basis = {}
  /\ faults = 0

Fault == faults < MaxFaults /\ faults' = faults + 1
SetStage(r, s) == stage' = [stage EXCEPT ![r] = s]
SetCall(c, s) == call' = [call EXCEPT ![c] = s]

(* The agent's process ends; nothing tells the observer. *)
AgentExits(w) ==
  /\ live[w] = Start
  /\ live' = [live EXCEPT ![w] = Exited]
  /\ UNCHANGED <<schedulerVars, snapshot, stored, stage, call, before, result, chain,
                 told, liveRead, basis, faults>>

-----------------------------------------------------------------------------
(* processHarnessIngressReportInner, in the queue's worker and the spool    *)
(* drain: reports arrive in any order of their times.                       *)

IngestReport(r) ==
  /\ stage[r] = "new"
  /\ stored' = stored \cup {r}
  /\ SetStage(r, "stored")
  /\ UNCHANGED <<schedulerVars, snapshot, live, call, before, result, chain,
                 told, liveRead, basis, faults>>

Projects(r) ==
  /\ StatusOf[r].state # "unknown"
  /\ snapshot[StatusOf[r].row] # NoAgent
  /\ ~Preserve(snapshot[StatusOf[r].row], StatusOf[r])
  /\ snapshot[StatusOf[r].row] # ReportStatus(r)

(* A projection that throws changes nothing, and the reconcile is asked for *)
(* all the same.                                                           *)
ProjectReport(r) ==
  LET w == StatusOf[r].row IN
  /\ stage[r] = "stored"
  /\ \/ /\ Projects(r)
        /\ snapshot' = [snapshot EXCEPT ![w] = ReportStatus(r)]
        /\ SetStage(r, IF StateChanged(snapshot[w], ReportStatus(r))
                        THEN "patched" ELSE "projected")
        /\ UNCHANGED faults
     \/ ~Projects(r) /\ SetStage(r, "projected") /\ UNCHANGED <<snapshot, faults>>
     \/ Fault /\ SetStage(r, "projected") /\ UNCHANGED snapshot
  /\ UNCHANGED <<schedulerVars, live, stored, call, before, result, chain,
                 told, liveRead, basis>>

(* The change is announced a few continuations after the snapshot shows it. *)
PublishProjection(r) ==
  /\ stage[r] = "patched"
  /\ SetStage(r, "projected")
  /\ told' = [told EXCEPT ![StatusOf[r].row] = ReportStatus(r)]
  /\ UNCHANGED <<schedulerVars, snapshot, live, stored, call, before, result, chain,
                 liveRead, basis, faults>>

(* The worker has its result, or the spool drain: ask for a reconcile. *)
RequestFor(r) ==
  /\ stage[r] = "projected"
  /\ SetStage(r, "published")
  /\ RequestReconcile
  /\ UNCHANGED <<snapshot, live, stored, call, before, result, chain,
                 told, liveRead, basis, faults>>

-----------------------------------------------------------------------------
(* runReconcile and ObserverCore.reconcile. *)

StartDrain(c) ==
  /\ call[c] = "idle"
  /\ SetCall(c, "draining")
  /\ UNCHANGED <<snapshot, live, stored, stage, before, result, chain,
                 told, liveRead, basis, faults>>

CallManual(c) == StartDrain(c) /\ UNCHANGED schedulerVars
Flush == StartDrain(Scheduler) /\ FlushStarts

(* The spool and the ingress queue are drained, or another call is at it:  *)
(* remember the snapshot and join the chain.                               *)
JoinChain(c) ==
  /\ call[c] = "draining"
  /\ before' = [before EXCEPT ![c] = snapshot]
  /\ chain' = Append(chain, c)
  /\ SetCall(c, "waiting")
  /\ UNCHANGED <<schedulerVars, snapshot, live, stored, stage, result,
                 told, liveRead, basis, faults>>

DrainThrows(c) ==
  /\ call[c] = "draining"
  /\ Fault
  /\ SetCall(c, "returned")
  /\ UNCHANGED <<schedulerVars, snapshot, live, stored, stage, before, result, chain,
                 told, liveRead, basis>>

(* Mutant: reconciles do not wait for one another. *)
AnyTurn(c) == chain # <<>> /\ call[c] # "idle"

Turn(c) == chain # <<>> /\ Head(chain) = c

(* Providers are read; a run that cannot be classified is left out. *)
ReadProviders(c) ==
  /\ call[c] = "waiting"
  /\ Turn(c)
  /\ \/ result' = [result EXCEPT ![c].live = live] /\ UNCHANGED faults
     \/ \E w \in Row :
          /\ Fault
          /\ result' = [result EXCEPT ![c].live = [live EXCEPT ![w] = NoAgent]]
  /\ SetCall(c, "overlaying")
  /\ UNCHANGED <<schedulerVars, snapshot, live, stored, stage, before, chain,
                 told, liveRead, basis>>

(* harnessRunsWithPersistedEventStatus, then the snapshot is built. *)
OverlayReports(c) ==
  /\ call[c] = "overlaying"
  /\ result' = [result EXCEPT
       ![c].agents = [w \in Row |-> AgentFrom(w, result[c].live[w], stored)],
       ![c].basis = stored]
  /\ SetCall(c, "persisting")
  /\ UNCHANGED <<schedulerVars, snapshot, live, stored, stage, before, chain,
                 told, liveRead, basis, faults>>

(* An earlier reconcile has announced its snapshot a few continuations     *)
(* after it was replaced, long before the next one has read its providers. *)
ReplaceSnapshot(c) ==
  /\ call[c] = "persisting"
  /\ \A d \in Caller : call[d] # "publishing"
  /\ snapshot' = result[c].agents
  /\ liveRead' = result[c].live
  /\ basis' = result[c].basis
  /\ chain' = Tail(chain)
  /\ SetCall(c, "publishing")
  /\ UNCHANGED <<schedulerVars, live, stored, stage, before, result, told, faults>>

(* A read or a write that is not caught ends the run without a snapshot. *)
ReconcileThrows(c) ==
  /\ call[c] \in {"overlaying", "persisting"}
  /\ Fault
  /\ chain' = Tail(chain)
  /\ SetCall(c, "returned")
  /\ UNCHANGED <<schedulerVars, snapshot, live, stored, stage, before, result,
                 told, liveRead, basis>>

(* agentStateChangedEventsFromReconcile compares with what was remembered. *)
PublishReconcile(c) ==
  /\ call[c] = "publishing"
  /\ told' = [w \in Row |-> IF StateChanged(before[c][w], result[c].agents[w])
                              THEN result[c].agents[w] ELSE told[w]]
  /\ SetCall(c, "returned")
  /\ UNCHANGED <<schedulerVars, snapshot, live, stored, stage, before, result, chain,
                 liveRead, basis, faults>>

Return(c) ==
  /\ call[c] = "returned"
  /\ SetCall(c, "idle")
  /\ IF c = Scheduler THEN FlushEnds ELSE UNCHANGED schedulerVars
  /\ UNCHANGED <<snapshot, live, stored, stage, before, result, chain,
                 told, liveRead, basis, faults>>

CallStep(c) == \/ JoinChain(c) \/ ReadProviders(c) \/ OverlayReports(c)
               \/ ReplaceSnapshot(c) \/ PublishReconcile(c) \/ Return(c)

Next ==
  \/ \E w \in Row : AgentExits(w)
  \/ \E r \in Report : IngestReport(r) \/ ProjectReport(r) \/ PublishProjection(r) \/ RequestFor(r)
  \/ \E c \in Manual : CallManual(c)
  \/ Flush
  \/ \E c \in Caller : CallStep(c) \/ DrainThrows(c) \/ ReconcileThrows(c)

Spec == Init /\ [][Next]_vars

(* Timers fire and continuations run; provider reads have timeouts.  No     *)
(* report has to come and nobody has to call reconcile by hand.             *)
Fairness ==
  /\ \A r \in Report : WF_vars(ProjectReport(r) \/ PublishProjection(r) \/ RequestFor(r))
  /\ \A c \in Caller : WF_vars(CallStep(c))
  /\ WF_vars(Flush)

FairSpec == Spec /\ Fairness

-----------------------------------------------------------------------------
(* Properties. *)

Quiet ==
  /\ queuedReasons = 0 /\ ~timerScheduled /\ ~running
  /\ \A c \in Caller : call[c] = "idle"
  /\ \A r \in Report : stage[r] \in {"new", "published"}

(* At rest the snapshot shows, for every row, the newest stored status that *)
(* holds against what the providers said last: a reconcile that overwrote a *)
(* projection, or a report that came out of order, has been made good.      *)
QuietSnapshotIsCurrent ==
  Quiet /\ faults = 0 => \A w \in Row : snapshot[w] = AgentFrom(w, liveRead[w], stored)

(* Reconciles take effect in the order they read the stored reports: none   *)
(* replaces the snapshot by one that knows fewer reports than an earlier    *)
(* reconcile did (core.ts:126-129).                                         *)
BasisNeverShrinks == [][basis \subseteq basis']_vars

(* Once reports cease the snapshot becomes current and stays so, without    *)
(* anybody asking for a reconcile, if no reconcile failed.                  *)
ComesToRest ==
  <>[](faults = 0 => \A w \in Row : snapshot[w] = AgentFrom(w, liveRead[w], stored))

(* Claimed by observer_hook_reconcile_profiling.md, refuted: a row whose    *)
(* agent state changes is announced, so that at rest subscribers know the   *)
(* state the snapshot shows.                                                *)
QuietSubscribersKnow ==
  Quiet /\ faults = 0 => \A w \in Row : told[w].state = snapshot[w].state

-----------------------------------------------------------------------------
(* The inductive strengthenings behind the theorems of ObserverCoreProofs. *)

(* Only the oldest call of the chain is reading or writing. *)
OneReads == \A c \in Caller : call[c] \in {"overlaying", "persisting"} => Turn(c)

(* Whatever reports are looked at, one of them is the newest. *)
Newest(r, reports) == r \in reports /\ \A s \in reports : StatusOf[s].at <= StatusOf[r].at
HasNewest(reports) ==
  \A some \in SUBSET reports : some # {} => \E r \in some : Newest(r, some)

(* What is about to replace the snapshot was built from at least the       *)
(* reports behind the snapshot it replaces, by one overlay.                *)
BuiltInOrder(c) ==
  /\ basis \subseteq result[c].basis
  /\ result[c].basis \subseteq stored
  /\ \A w \in Row : result[c].agents[w] = AgentFrom(w, result[c].live[w], result[c].basis)

ReadsInOrder ==
  /\ basis \subseteq stored
  /\ \A c \in Caller : call[c] = "persisting" => BuiltInOrder(c)

(* A reconcile of the scheduler that has yet to read the reports is due. *)
ReadDue == queuedReasons > 0 \/ call[Scheduler] \in {"draining", "waiting", "overlaying"}
WriteDue == call[Scheduler] = "persisting"

(* A stored report is behind the snapshot, or still asks for a reconcile,  *)
(* or one is due that reads it or has read it.                             *)
ReportReaches(r) ==
  \/ r \in basis \/ stage[r] \in {"stored", "patched", "projected"} \/ ReadDue
  \/ WriteDue /\ r \in result[Scheduler].basis

(* The snapshot is what its reconcile built, or what was projected over it *)
(* still asks for a reconcile, or one is due.                              *)
SnapshotMadeGood ==
  \/ \A w \in Row : snapshot[w] = AgentFrom(w, liveRead[w], basis)
  \/ \E r \in Report : stage[r] \in {"patched", "projected"}
  \/ ReadDue \/ WriteDue

NothingLost == faults = 0 => SnapshotMadeGood /\ \A r \in stored : ReportReaches(r)

CoreInv == OneReads /\ HasNewest(stored) /\ ReadsInOrder /\ NothingLost
=============================================================================
