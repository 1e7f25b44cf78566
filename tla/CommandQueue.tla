---------------------------- MODULE CommandQueue ----------------------------
(***************************************************************************)
(* The observer's command queue (apps/observer/src/commands/queue.ts).     *)
(* A dispatch writes the command's row and its event, waits for the log,   *)
(* and only then joins the promise chain of its scope.  Commands of one    *)
(* scope execute one after the other, those of different scopes run side   *)
(* by side, and shutdown aborts and drains what has joined a chain.        *)
(*                                                                         *)
(* A step is what the code does between two awaits.  The write a step ends *)
(* with is synchronous (node:sqlite), so it belongs to the step; the next  *)
(* step is the continuation after the await.                               *)
(***************************************************************************)
EXTENDS Naturals

CONSTANTS Command,          \* the commandIds dispatched during the run
          Request,          \* the WosmCommand each of them carries
          Handlers,         \* the command types that have a registered handler
          NoId,             \* an absent (undefined) id in a payload
          NoCommand,        \* no predecessor: Promise.resolve()
          MaxFaults,        \* bound: failed writes or log appends in a run
          MaxCrashes        \* bound: crashes of the observer process in a run

SessionTypes == {"session.close", "session.remove", "session.sendPrompt", "session.rename"}
WorktreeTypes == {"worktree.remove", "session.startAgent", "session.resumeAgent"}
ProjectTypes == {"worktree.create", "session.create"}
GlobalTypes == {"observer.reconcile", "project.add", "project.remove", "hooks.install"}
TerminalTypes == {"terminal.focus", "terminal.close"}
CommandType == SessionTypes \cup WorktreeTypes \cup ProjectTypes
                 \cup GlobalTypes \cup TerminalTypes

ASSUME CommandQueueAssumption ==
  /\ NoCommand \notin Command
  /\ \A c \in Command : Request[c].type \in CommandType
  /\ MaxFaults \in Nat
  /\ MaxCrashes \in Nat

VARIABLES mode,         \* up, draining, closing, closed (sqlite closed) or down
          phase,        \* where the dispatch or the execution of a command stands
          row,          \* commands.status in sqlite; survives a crash
          recorded,     \* events of the command in the events table; survives a crash
          published,    \* events of the command given to the event bus
          scopeChains,  \* the tail of each scope's chain
          previous,     \* the command a command was chained behind
          ahead,        \* history: who was in its chain when a command joined it
          aborted,      \* commands whose AbortController fired
          live,         \* commands whose handler promise has not settled
          faults, crashes

vars == <<mode, phase, row, recorded, published, scopeChains, previous, ahead,
          aborted, live, faults, crashes>>
durable == <<row, recorded>>
links == <<scopeChains, previous, ahead>>
budget == <<faults, crashes>>

-----------------------------------------------------------------------------
(* terminalCommandScope: session before worktree before global. *)
TerminalCommandScope(r) ==
  CASE r.sessionId # NoId -> <<"session", r.sessionId>>
    [] r.sessionId = NoId /\ r.worktreeId # NoId -> <<"worktree", r.worktreeId>>
    [] OTHER -> <<"global", NoId>>

CommandScope(r) ==
  CASE r.type \in TerminalTypes -> TerminalCommandScope(r)
    [] r.type \in SessionTypes -> <<"session", r.sessionId>>
    [] r.type \in WorktreeTypes -> <<"worktree", r.worktreeId>>
    [] r.type \in ProjectTypes -> <<"project", r.projectId>>
    [] OTHER -> <<"global", NoId>>

ScopeOf(c) == CommandScope(Request[c])
Scope == {ScopeOf(c) : c \in Command}

-----------------------------------------------------------------------------
Dispatching == {"accepting", "logging"}
Executing == {"started", "startRecorded", "running", "ok", "error", "marked", "finishRecorded"}
Chained == {"queued"} \cup Executing
Done == {"settled", "abandoned"}
Phase == {"idle", "rejected", "dispatchFailed", "lost"} \cup Dispatching \cup Chained \cup Done

Status == {"none", "accepted", "started", "succeeded", "failed"}
Final == {"succeeded", "failed"}
EventType == Status \ {"none"}

TypeOK ==
  /\ mode \in {"up", "draining", "closing", "closed", "down"}
  /\ phase \in [Command -> Phase]
  /\ row \in [Command -> Status]
  /\ recorded \in [Command -> SUBSET EventType]
  /\ published \in [Command -> SUBSET EventType]
  /\ scopeChains \in [Scope -> Command \cup {NoCommand}]
  /\ previous \in [Command -> Command \cup {NoCommand}]
  /\ ahead \in [Command -> SUBSET Command]
  /\ aborted \in SUBSET Command
  /\ live \in SUBSET Command
  /\ faults \in 0..MaxFaults
  /\ crashes \in 0..MaxCrashes

Init ==
  /\ mode = "up"
  /\ phase = [c \in Command |-> "idle"]
  /\ row = [c \in Command |-> "none"]
  /\ recorded = [c \in Command |-> {}]
  /\ published = [c \in Command |-> {}]
  /\ scopeChains = [s \in Scope |-> NoCommand]
  /\ previous = [c \in Command |-> NoCommand]
  /\ ahead = [c \in Command |-> {}]
  /\ aborted = {}
  /\ live = {}
  /\ faults = 0
  /\ crashes = 0

-----------------------------------------------------------------------------
Alive == mode # "down"
StoreOpen == mode \in {"up", "draining", "closing"}
Pending == {c \in Command : phase[c] \in Chained}

Goto(c, p) == phase' = [phase EXCEPT ![c] = p]
Write(c, s) == row' = [row EXCEPT ![c] = s]
Record(c, e) == recorded' = [recorded EXCEPT ![c] = @ \cup {e}]
Publish(c, e) == published' = [published EXCEPT ![c] = @ \cup {e}]

(* A write throws because the store is closed, or fails by chance within the bound. *)
WriteThrows == IF StoreOpen
                 THEN faults < MaxFaults /\ faults' = faults + 1
                 ELSE UNCHANGED faults
LogThrows == faults < MaxFaults /\ faults' = faults + 1

-----------------------------------------------------------------------------
(* Dispatch. *)

(* The queue is shutting down: a rejected receipt, and nothing is written. *)
Reject(c) ==
  /\ mode \in {"draining", "closing", "closed"}
  /\ phase[c] = "idle"
  /\ Goto(c, "rejected")
  /\ UNCHANGED <<mode, durable, published, links, aborted, live, budget>>

Dispatch(c) ==
  /\ mode = "up"
  /\ phase[c] = "idle"
  /\ Write(c, "accepted")
  /\ Goto(c, "accepting")
  /\ UNCHANGED <<mode, recorded, published, links, aborted, live, budget>>

RecordAccepted(c) ==
  /\ StoreOpen
  /\ phase[c] = "accepting"
  /\ Record(c, "accepted")
  /\ Goto(c, "logging")
  /\ UNCHANGED <<mode, row, published, links, aborted, live, budget>>

ChainOf(s) == {d \in Pending : ScopeOf(d) = s}

(* Publish, chain behind the scope's tail and become the tail.  Nothing    *)
(* here looks at the shutdown again.                                       *)
Enqueue(c) ==
  /\ Alive
  /\ phase[c] = "logging"
  /\ Publish(c, "accepted")
  /\ previous' = [previous EXCEPT ![c] = scopeChains[ScopeOf(c)]]
  /\ scopeChains' = [scopeChains EXCEPT ![ScopeOf(c)] = c]
  /\ ahead' = [ahead EXCEPT ![c] = ChainOf(ScopeOf(c))]
  /\ Goto(c, "queued")
  /\ UNCHANGED <<mode, durable, aborted, live, budget>>

DispatchThrows(c) ==
  /\ Alive
  /\ \/ phase[c] = "idle" /\ mode = "up" /\ WriteThrows
     \/ phase[c] = "accepting" /\ WriteThrows
     \/ phase[c] = "logging" /\ LogThrows
  /\ Goto(c, "dispatchFailed")
  /\ UNCHANGED <<mode, durable, published, links, aborted, live, crashes>>

-----------------------------------------------------------------------------
(* Execution. *)

(* The promise of the command ahead in the chain has settled. *)
Ready(c) == previous[c] # NoCommand => phase[previous[c]] \in Done

Begin(c) ==
  /\ StoreOpen
  /\ phase[c] = "queued"
  /\ Ready(c)
  /\ Write(c, "started")
  /\ Goto(c, "started")
  /\ UNCHANGED <<mode, recorded, published, links, aborted, live, budget>>

RecordStarted(c) ==
  /\ StoreOpen
  /\ phase[c] = "started"
  /\ Record(c, "started")
  /\ Goto(c, "startRecorded")
  /\ UNCHANGED <<mode, row, published, links, aborted, live, budget>>

(* Enter the timed boundary: an aborted command or one without a handler   *)
(* fails at once, any other starts its handler.                            *)
EnterBoundary(c) ==
  /\ Alive
  /\ phase[c] = "startRecorded"
  /\ Publish(c, "started")
  /\ IF c \in aborted \/ Request[c].type \notin Handlers
       THEN Goto(c, "error") /\ UNCHANGED live
       ELSE Goto(c, "running") /\ live' = live \cup {c}
  /\ UNCHANGED <<mode, durable, links, aborted, budget>>

(* Mutant: the signal is not checked after the handler returned. *)
ReturnUnchecked(c) == "ok"
ReturnedTo(c) == IF c \in aborted THEN "error" ELSE "ok"

(* Mutant: the result of a handler that returns late is still written. *)
HandlerReturnsLate(c) ==
  /\ Alive
  /\ c \in live
  /\ live' = live \ {c}
  /\ IF phase[c] = "running"
       THEN Goto(c, ReturnedTo(c)) /\ UNCHANGED row
       ELSE StoreOpen /\ Write(c, "succeeded") /\ UNCHANGED phase
  /\ UNCHANGED <<mode, recorded, published, links, aborted, budget>>

(* The handler's promise settles.  If the boundary still waits for it, the *)
(* signal is checked once more; after a timeout nobody listens.            *)
HandlerReturns(c) ==
  /\ Alive
  /\ c \in live
  /\ live' = live \ {c}
  /\ \/ /\ phase[c] = "running"
        /\ Goto(c, ReturnedTo(c))
     \/ phase[c] # "running" /\ UNCHANGED phase
  /\ UNCHANGED <<mode, durable, published, links, aborted, budget>>

HandlerThrows(c) ==
  /\ Alive
  /\ c \in live
  /\ live' = live \ {c}
  /\ IF phase[c] = "running" THEN Goto(c, "error") ELSE UNCHANGED phase
  /\ UNCHANGED <<mode, durable, published, links, aborted, budget>>

(* Mutant: the boundary has no timeout. *)
NoTimeout(c) == FALSE

(* timeoutFail interrupts the wrapper and does not wait for the handler. *)
Timeout(c) ==
  /\ Alive
  /\ phase[c] = "running"
  /\ Goto(c, "error")
  /\ UNCHANGED <<mode, durable, published, links, aborted, live, budget>>

MarkSucceeded(c) ==
  /\ StoreOpen
  /\ phase[c] = "ok"
  /\ Write(c, "succeeded")
  /\ Goto(c, "marked")
  /\ UNCHANGED <<mode, recorded, published, links, aborted, live, budget>>

(* Mutant: a command that was aborted gets a status of its own. *)
MarkFailedOrCancelled(c) ==
  /\ StoreOpen
  /\ phase[c] = "error"
  /\ Write(c, IF c \in aborted THEN "cancelled" ELSE "failed")
  /\ Goto(c, "marked")
  /\ UNCHANGED <<mode, recorded, published, links, aborted, live, budget>>

MarkFailed(c) ==
  /\ StoreOpen
  /\ phase[c] = "error"
  /\ Write(c, "failed")
  /\ Goto(c, "marked")
  /\ UNCHANGED <<mode, recorded, published, links, aborted, live, budget>>

RecordFinished(c) ==
  /\ StoreOpen
  /\ phase[c] = "marked"
  /\ Record(c, row[c])
  /\ Goto(c, "finishRecorded")
  /\ UNCHANGED <<mode, row, published, links, aborted, live, budget>>

(* Mutant: the chain is dropped although another command is its tail. *)
DropChain(c) ==
  /\ scopeChains' = [scopeChains EXCEPT ![ScopeOf(c)] = NoCommand]
  /\ UNCHANGED <<previous, ahead>>

(* settled.finally: leave the maps, and drop the chain if still its tail. *)
LeaveChain(c) ==
  /\ scopeChains' = [scopeChains EXCEPT ![ScopeOf(c)] = IF @ = c THEN NoCommand ELSE @]
  /\ UNCHANGED <<previous, ahead>>

Settle(c) ==
  /\ Alive
  /\ phase[c] = "finishRecorded"
  /\ Publish(c, row[c])
  /\ Goto(c, "settled")
  /\ LeaveChain(c)
  /\ UNCHANGED <<mode, durable, aborted, live, budget>>

(* execution.catch: the rejection is swallowed and the chain goes on. *)
ExecutionThrows(c) ==
  /\ Alive
  /\ \/ phase[c] = "queued" /\ Ready(c) /\ WriteThrows
     \/ phase[c] \in {"started", "ok", "error", "marked"} /\ WriteThrows
     \/ phase[c] \in {"startRecorded", "finishRecorded"} /\ LogThrows
  /\ Goto(c, "abandoned")
  /\ LeaveChain(c)
  /\ UNCHANGED <<mode, durable, published, aborted, live, crashes>>

-----------------------------------------------------------------------------
(* Shutdown, crash and restart. *)

Shutdown ==
  /\ mode = "up"
  /\ mode' = "draining"
  /\ aborted' = aborted \cup Pending
  /\ UNCHANGED <<phase, durable, published, links, live, budget>>

(* Mutants: the drain looks only at the commands at work; it waits for the *)
(* handlers themselves.                                                    *)
NobodyExecutes == \A c \in Command : phase[c] \notin Executing
NoHandlerLives == Pending = {} /\ live = {}
Drained == Pending = {}

DrainDone ==
  /\ mode = "draining"
  /\ Drained
  /\ mode' = "closing"
  /\ UNCHANGED <<phase, durable, published, links, aborted, live, budget>>

(* After the event hooks and the server: main closes sqlite. *)
CloseStore ==
  /\ mode = "closing"
  /\ mode' = "closed"
  /\ UNCHANGED <<phase, durable, published, links, aborted, live, budget>>

ProcessEnds ==
  /\ Alive
  /\ \/ mode = "closed" /\ UNCHANGED crashes
     \/ crashes < MaxCrashes /\ crashes' = crashes + 1
  /\ mode' = "down"
  /\ phase' = [c \in Command |-> IF phase[c] \in Dispatching \cup Chained
                                    THEN "lost" ELSE phase[c]]
  /\ scopeChains' = [s \in Scope |-> NoCommand]
  /\ live' = {}
  /\ aborted' = {}
  /\ UNCHANGED <<durable, published, previous, ahead, faults>>

(* The next observer opens the same database and starts with empty maps. *)
Restart ==
  /\ mode = "down"
  /\ mode' = "up"
  /\ UNCHANGED <<phase, durable, published, links, aborted, live, budget>>

DispatchStep(c) == Reject(c) \/ Dispatch(c) \/ RecordAccepted(c) \/ Enqueue(c)
ExecutionStep(c) == \/ Begin(c) \/ RecordStarted(c) \/ EnterBoundary(c) \/ Timeout(c)
                    \/ MarkSucceeded(c) \/ MarkFailed(c) \/ RecordFinished(c) \/ Settle(c)

Next ==
  \/ \E c \in Command : \/ DispatchStep(c) \/ DispatchThrows(c)
                         \/ ExecutionStep(c) \/ ExecutionThrows(c)
                         \/ HandlerReturns(c) \/ HandlerThrows(c)
  \/ Shutdown \/ DrainDone \/ CloseStore \/ ProcessEnds \/ Restart

Spec == Init /\ [][Next]_vars

(* The event loop runs every continuation and fires every timer; it does   *)
(* not make a handler finish, a client dispatch or anybody stop it.        *)
Fairness ==
  /\ \A c \in Command : /\ WF_vars(RecordAccepted(c) \/ Enqueue(c))
                         /\ WF_vars(ExecutionStep(c))
  /\ WF_vars(DrainDone) /\ WF_vars(CloseStore)

FairSpec == Spec /\ Fairness

-----------------------------------------------------------------------------
(* Properties. *)

(* Two commands of one scope are never between their start and their final *)
(* write at the same time, whatever fails, times out or is aborted on the  *)
(* way (queue.ts:62 and the chain built at 117-148).                       *)
ScopeSerial ==
  \A c, d \in Command :
    c # d /\ ScopeOf(c) = ScopeOf(d) => ~(phase[c] \in Executing /\ phase[d] \in Executing)

(* A command recorded as succeeded has no handler still at work: only a    *)
(* command that timed out or was abandoned leaves one behind.              *)
SuccessMeansHandlerSettled ==
  \A c \in Command : row[c] = "succeeded" => c \notin live

(* What the events table and the subscribers are told never runs ahead of  *)
(* the durable row, also when a write between them fails.                  *)
EventsFollowRows ==
  \A c \in Command :
    /\ published[c] \subseteq recorded[c]
    /\ recorded[c] \cap Final \subseteq {row[c]}
    /\ "started" \in recorded[c] => row[c] \in {"started"} \cup Final

(* When the drain of a shutdown is over, every command that had joined a   *)
(* chain before the shutdown has its final row and its final event, unless *)
(* a write failed (queue.ts:166-172 and the drain at 160-164).             *)
FlushedAtClose ==
  mode \in {"closing", "closed"} /\ faults = 0
    => \A c \in aborted : row[c] \in Final /\ row[c] \in published[c]

(* A shutdown is honoured by what it aborted: no handler starts for such a *)
(* command, and a handler that was still running cannot make it succeed.   *)
AbortHonoured ==
  [][\A c \in aborted : /\ c \in live' => c \in live
                        /\ phase'[c] = "ok" => phase[c] = "ok"]_vars

(* A final row is never rewritten, over timeouts, late handlers, crashes   *)
(* and restarts, although markCommandStarted and its siblings update       *)
(* without looking at the status (persistence/commands.ts:47-89).          *)
FinalRowStays ==
  [][\A c \in Command : row[c] \in Final => row'[c] = row[c]]_vars

(* The queue implements the lifecycle of CommandLifecycle. *)
Lifecycle == INSTANCE CommandLifecycle WITH status <- row, announced <- published
ImplementsLifecycle == Lifecycle!Spec

(* A command that joined a chain leaves it, even behind handlers that never *)
(* return, because each boundary times out (queue.ts:220-254).              *)
ChainedCommandLeaves ==
  \A c \in Command : phase[c] = "queued" ~> phase[c] \notin Chained \/ ~StoreOpen

(* A shutdown reaches the point where sqlite closes, or the process is gone. *)
ShutdownCloses == mode = "draining" ~> ~StoreOpen

-----------------------------------------------------------------------------
(* The inductive strengthenings behind the theorems of CommandQueueProofs. *)

(* What the phase of a command says about its row, its events and its handler. *)
RowOfPhase(c) ==
  /\ phase[c] \in {"idle", "rejected"} => row[c] = "none"
  /\ phase[c] \in Dispatching \cup {"queued"} => row[c] = "accepted"
  /\ phase[c] \in {"started", "startRecorded", "running", "ok", "error"} => row[c] = "started"
  /\ phase[c] \in {"marked", "finishRecorded"} => row[c] \in Final

EventsOfPhase(c) ==
  /\ phase[c] \in {"logging", "queued"} => "accepted" \in recorded[c]
  /\ phase[c] = "startRecorded" => "started" \in recorded[c]
  /\ phase[c] = "finishRecorded" => row[c] \in recorded[c]
  /\ "started" \in recorded[c] => row[c] \in {"started"} \cup Final
  /\ recorded[c] \cap Final \subseteq {row[c]}
  /\ published[c] \subseteq recorded[c]

HandlerOfPhase(c) == phase[c] = "ok" \/ row[c] = "succeeded" => c \notin live

PhaseInv == \A c \in Command : RowOfPhase(c) /\ EventsOfPhase(c) /\ HandlerOfPhase(c)

(* The chain of a scope: its map entry is a command that still waits or    *)
(* works, everybody else in the chain was there before it, and whoever has *)
(* somebody ahead that is still there also has its predecessor there.      *)
TailIsChained ==
  \A s \in Scope : scopeChains[s] # NoCommand => scopeChains[s] \in ChainOf(s)

TailIsLast ==
  \A c \in Pending : LET last == scopeChains[ScopeOf(c)] IN
    last # NoCommand /\ (c = last \/ c \in ahead[last])

ChainIsOrdered ==
  \A c, d \in Pending : c # d /\ ScopeOf(c) = ScopeOf(d) => c \in ahead[d] \/ d \in ahead[c]

PredecessorIsChained ==
  \A c, d \in Pending : c \in ahead[d] =>
    /\ previous[d] \in Pending
    /\ c = previous[d] \/ c \in ahead[previous[d]]

ExecutingIsReady == \A c \in Command : phase[c] \in Executing => Ready(c)

AheadHasJoined ==
  \A c, d \in Command : c \in ahead[d] => phase[c] \in Chained \cup Done \cup {"lost"}

ChainInv == /\ TailIsChained /\ TailIsLast /\ ChainIsOrdered
            /\ PredecessorIsChained /\ ExecutingIsReady /\ AheadHasJoined

(* Signals fire in a shutdown only, and whoever was signalled drains: until *)
(* the drain is over it may still be in its chain, then it is flushed.     *)
Flushed(c) == phase[c] = "settled" /\ row[c] \in Final /\ row[c] \in published[c]

FlushInv ==
  /\ mode \in {"up", "down"} => aborted = {}
  /\ faults = 0 => \A c \in aborted :
                     Flushed(c) \/ (mode = "draining" /\ phase[c] \in Chained)
=============================================================================
