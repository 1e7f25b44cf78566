--------------------------- MODULE SessionCommands ---------------------------
(***************************************************************************)
(* The handlers of the session, worktree and terminal commands, on one     *)
(* worktree.  A handler is a sequence of calls of providers that share no  *)
(* transaction with each other: it reads the snapshot once, decides, and   *)
(* then acts on a world that other handlers, agents and the handlers of    *)
(* timed-out commands go on changing.  Whatever a handler has done when a  *)
(* later call fails is taken back by another call, which may fail too.     *)
(*                                                                         *)
(* The world is the worktree (of worktrunk) and the windows bound to it    *)
(* (of tmux).  A window carries the session it was bound to last and the   *)
(* agent launched in it last; agents and worktrees carry whoever made them.*)
(***************************************************************************)
EXTENDS Naturals, FiniteSets

CONSTANTS Command, KindsOf,    \* the commands, and the kinds each may be
          CanStop,             \* the harness provider implements stop()
          User,                \* made what existed before the commands
          NoWorktree, NoWindow, NoAgent, NoPane, NoScan,
          MaxFaults,           \* bound: failures, timeouts and cancelled commands
          MaxExits,            \* bound: agents that end, or leave the worktree, by themselves
          MaxPanes             \* bound: windows ever opened

Launches == {"create", "start", "resume"}
OfSession == {"closeHarness", "closeTerminal", "closeAll", "removeSession", "removeAll"}
Cleanups == OfSession \cup {"terminalClose", "removeWorktree"}

VARIABLES world,   \* the worktree, its windows, and how many there were
          view,    \* the row of the worktree in the observer's snapshot
          scan,    \* the reconcile under way
          cmd,     \* the handlers
          seeds,   \* session rows written before their launch
          late,    \* calls that timed out and may still take effect
          faults, stopSupported

vars == <<world, view, scan, cmd, seeds, late, faults, stopSupported>>

Maker == Command \cup {User}
Worktree == [by : Maker, dirty : BOOLEAN]
(* An agent that is gone without the observer being told has its window    *)
(* shown with an agent in state unknown.                                   *)
Agent == [by : Maker, is : {"running", "exited", "gone"}]
Window == [pane : 1..MaxPanes, session : Maker, agent : Agent \cup {NoAgent}]
(* The working directory of a pane may leave the worktree; from then on a   *)
(* listing may find it inside or not.                                      *)
World == [worktree : Worktree \cup {NoWorktree}, windows : SUBSET Window,
          strayed : SUBSET (1..MaxPanes), panes : 0..MaxPanes, exits : 0..MaxExits]

(* A row: the worktree, the terminal and the run chosen for it, and whether *)
(* a read of a provider failed, so that something may be missing.  They are *)
(* chosen apart, so that the run may be that of another window.             *)
View == [worktree : Worktree \cup {NoWorktree}, terminal : {"none", "open", "stale"},
         run : Window \cup {NoWindow}, blind : BOOLEAN]
NoView == [worktree |-> NoWorktree, terminal |-> "none", run |-> NoWindow, blind |-> FALSE]

Steps == {"waiting", "createWorktree", "seed", "open", "launch", "focus",
          "closeOpened", "unseed", "uncreate", "stop", "resolve", "close", "remove",
          "reconcile", "announce", "done", "failed"}
Handler == [kind : Launches \cup Cleanups, force : BOOLEAN, session : Maker,
            at : Steps, aborted : BOOLEAN, saw : View, pane : 1..MaxPanes \cup {NoPane},
            created : BOOLEAN, spoilt : BOOLEAN]

ASSUME SessionCommandsAssumption ==
  /\ KindsOf \in [Command -> SUBSET (Launches \cup Cleanups)]
  /\ User \notin Command /\ CanStop \subseteq BOOLEAN
  /\ MaxFaults \in Nat /\ MaxExits \in Nat /\ MaxPanes \in Nat \ {0}
  /\ NoPane \notin Nat /\ NoScan \notin Maker
  /\ NoWorktree \notin Worktree /\ NoWindow \notin Window /\ NoAgent \notin Agent

Mutations == {"createWorktree", "open", "launch", "stop", "close", "remove"}
Call == [do : Mutations, by : Command, pane : 1..MaxPanes \cup {NoPane},
         session : Maker, force : BOOLEAN]
(* A reconcile has read the worktree, and then has listed windows and runs. *)
Scan == [for : Maker \cup {NoScan}, listed : BOOLEAN, got : View]
NotScanning == [for |-> NoScan, listed |-> FALSE, got |-> NoView]

TypeOK ==
  /\ world \in World /\ view \in View /\ scan \in Scan
  /\ cmd \in [Command -> Handler]
  /\ seeds \subseteq Maker /\ late \subseteq Call
  /\ faults \in 0..MaxFaults /\ stopSupported \in CanStop

Fault == faults < MaxFaults /\ faults' = faults + 1
Runs(agent) == agent # NoAgent /\ agent.is = "running"
(* isRunningAgentState of what the snapshot shows. *)
Active(agent) == agent # NoAgent /\ agent.is # "exited"
(* The pane of an agent that ended stays, dead: its window is stale. *)
Stale(window) == window.agent # NoAgent /\ ~Runs(window.agent)
At(c, step) == cmd[c].at = step

Waiting(kind, force, session) ==
  [kind |-> kind, force |-> force, session |-> session, at |-> "waiting", aborted |-> FALSE,
   saw |-> NoView, pane |-> NoPane, created |-> FALSE, spoilt |-> FALSE]

(* A launch makes a session of its own, unless it resumes that of its       *)
(* recovery handle; a cleanup is for the session shown when it starts.      *)
OwnSession(c, kind) == IF kind = "resume" THEN User ELSE c

(* The observer starts beside nothing, a worktree, or a worktree with an    *)
(* agent at work.  To launches it is all one whether stop() is there.       *)
UsersWorktree == [by |-> User, dirty |-> FALSE]
UsersWindow == [pane |-> 1, session |-> User, agent |-> [by |-> User, is |-> "running"]]

Init ==
  /\ \E worktree \in {NoWorktree, UsersWorktree}, windows \in {{}, {UsersWindow}} :
       /\ windows # {} => worktree # NoWorktree
       /\ world = [worktree |-> worktree, windows |-> windows, strayed |-> {},
                   panes |-> Cardinality(windows), exits |-> 0]
       /\ view = IF windows = {} THEN [NoView EXCEPT !.worktree = worktree]
                 ELSE [worktree |-> worktree, terminal |-> "open", run |-> UsersWindow, blind |-> FALSE]
  /\ scan = NotScanning
  /\ \E kinds \in [Command -> Launches \cup Cleanups], forced \in SUBSET Command :
       /\ \A c \in Command : /\ kinds[c] \in KindsOf[c]
                             /\ c \in forced => kinds[c] \in Cleanups
       /\ cmd = [c \in Command |-> Waiting(kinds[c], c \in forced, OwnSession(c, kinds[c]))]
  /\ seeds = {} /\ late = {} /\ faults = 0
  /\ stopSupported \in CanStop
  /\ ~stopSupported => \E c \in Command : cmd[c].kind \in Cleanups
-----------------------------------------------------------------------------
(* What the providers do. *)

WindowOf(w, pane) == {x \in w.windows : x.pane = pane}

Update(w, old, new) == [w EXCEPT !.windows = (@ \ {old}) \cup {new}]
Outcome(w, pane) == [world |-> w, pane |-> pane]

(* openWorkspace binds a window of the worktree to the session, whoever    *)
(* works in it.  It looks for one among the panes tmux lists for the       *)
(* workbench session, which are those of the current window, and takes a   *)
(* listing that failed for an empty one; then it opens another window.     *)
Rebound(call, w) ==
  {Outcome(Update(w, x, [x EXCEPT !.session = call.session]), x.pane) : x \in w.windows}

Opened(call, w) ==
  IF w.panes = MaxPanes THEN {}
  ELSE {Outcome([w EXCEPT !.panes = @ + 1,
                          !.windows = @ \cup {[pane |-> w.panes + 1, session |-> call.session,
                                               agent |-> NoAgent]}],
                w.panes + 1)}

(* The outcomes of a call that is carried out.  launchProcess respawns the *)
(* pane, and with it goes whatever ran there; closeTarget kills the window.*)
Outcomes(call, w) ==
  CASE call.do = "createWorktree" ->
         {Outcome([w EXCEPT !.worktree = [by |-> call.by, dirty |-> FALSE]], NoPane)}
    [] call.do = "open" -> Rebound(call, w) \cup Opened(call, w)
    [] call.do = "launch" ->
         {Outcome(Update(w, x, [x EXCEPT !.agent = [by |-> call.by, is |-> "running"]]), x.pane) :
            x \in WindowOf(w, call.pane)}
    [] call.do = "stop" ->
         {Outcome(Update(w, x, [x EXCEPT !.agent.is = "exited"]), call.pane) :
            x \in {y \in WindowOf(w, call.pane) : Runs(y.agent)}}
    [] call.do = "close" ->
         {Outcome([w EXCEPT !.windows = @ \ WindowOf(w, call.pane)], call.pane)}
    [] call.do = "remove" -> {Outcome([w EXCEPT !.worktree = NoWorktree], call.pane)}

(* A rejected call leaves no outcome: the branch or the window is taken or *)
(* gone, there is no such run, or git refuses to remove a dirty worktree.  *)
Possible(call, w) ==
  CASE call.do = "createWorktree" -> w.worktree = NoWorktree
    [] call.do = "remove" -> w.worktree # NoWorktree /\ (call.force \/ ~w.worktree.dirty)
    [] call.do = "close" -> WindowOf(w, call.pane) # {}
    [] OTHER -> Outcomes(call, w) # {}

-----------------------------------------------------------------------------
(* Handlers.  A handler that goes on with `step' or fails there. *)

Become(c, handler) == cmd' = [cmd EXCEPT ![c] = handler]
GoTo(c, step) == Become(c, [cmd[c] EXCEPT !.at = step])

(* A handler is spoilt when its rollback cannot be held to account for what *)
(* it leaves: the outcome of a call is uncertain, or the rollback failed.   *)

CallOf(c, do, force) ==
  [do |-> do, by |-> c, pane |-> cmd[c].pane, session |-> cmd[c].session, force |-> force]

(* runProviderMutation: nothing is called once the command is aborted, a   *)
(* result that comes after the abort is dropped, and a call that times out *)
(* is not stopped by it.  Only the removal of a created worktree does not  *)
(* listen to the abort.  A rollback that cannot do its call leaves it at that. *)
Listens(c) == ~At(c, "uncreate")
RollsBack(c) == cmd[c].at \in {"closeOpened", "uncreate"}

Mutate(c, call, ok, failed) ==
  LET done(outcome) == [cmd[c] EXCEPT !.at = ok, !.pane = outcome.pane,
                                      !.created = @ \/ call.do = "createWorktree"]
      fail == [cmd[c] EXCEPT !.at = failed, !.spoilt = @ \/ (RollsBack(c) /\ Possible(call, world))]
      uncertain == [fail EXCEPT !.spoilt = TRUE]
  IN  IF Listens(c) /\ cmd[c].aborted
      THEN /\ Become(c, fail)
           /\ UNCHANGED <<world, late, faults>>
      ELSE \/ \E outcome \in Outcomes(call, world) :
                /\ Possible(call, world)
                /\ world' = outcome.world
                /\ \/ Become(c, done(outcome)) /\ UNCHANGED faults
                   \/ Fault /\ Become(c, uncertain)
                   \/ Fault /\ Listens(c) /\ Become(c, [uncertain EXCEPT !.aborted = TRUE])
                /\ UNCHANGED late
           \/ /\ ~Possible(call, world)
              /\ Become(c, fail)
              /\ UNCHANGED <<world, late, faults>>
           \/ /\ Fault
              /\ \/ Become(c, fail) /\ UNCHANGED late
                 \/ Become(c, uncertain) /\ late' = late \cup {call}
              /\ UNCHANGED <<world>>

Bystanders == <<view, scan, seeds, stopSupported>>

-----------------------------------------------------------------------------
(* The start of a handler: commands of one scope run one after another, but *)
(* a command that was aborted has left its scope while its handler goes on. *)

Ended(c) == cmd[c].at \in {"done", "failed"}
UnderWay(c) == ~At(c, "waiting") /\ ~Ended(c) /\ ~cmd[c].aborted

ScopeOf(kind, session) ==
  CASE kind = "create" -> "project"
    [] kind \in {"start", "resume", "removeWorktree"} -> "worktree"
    [] OTHER -> session

ScopeIsFree(c, session) ==
  \A d \in Command \ {c} :
    UnderWay(d) => ScopeOf(cmd[d].kind, cmd[d].session) # ScopeOf(cmd[c].kind, session)

ShownAgent == IF view.run = NoWindow THEN NoAgent ELSE view.run.agent

(* assertNoCurrentAgent and assertResumeAllowed: an agent that exited       *)
(* keeps a start out, not a resume; one in state unknown does not keep a    *)
(* resume out when no terminal is open.  A worktree the snapshot does not   *)
(* show is looked up at its provider.                                       *)
LaunchAllowed(kind) ==
  CASE kind = "create" -> TRUE
    [] kind = "start" -> ShownAgent = NoAgent /\ (view.worktree # NoWorktree \/ world.worktree # NoWorktree)
    [] kind = "resume" -> /\ Active(ShownAgent) => ShownAgent.is = "gone" /\ view.terminal # "open"
                          /\ view.worktree # NoWorktree \/ world.worktree # NoWorktree

(* assertSessionCloseAllowed, assertTerminalCloseAllowed and                *)
(* assertWorktreeRemovalAllowed.  A session is a terminal and a run.        *)
ForceNeeded(kind) ==
  \/ Active(ShownAgent)
  \/ kind \in {"removeAll", "removeWorktree"} /\ view.worktree.dirty

CleanupAllowed(c) ==
  /\ IF cmd[c].kind = "removeWorktree" THEN view.worktree # NoWorktree
     ELSE view.terminal # "none" /\ view.run # NoWindow
  /\ cmd[c].force \/ ~ForceNeeded(cmd[c].kind)

Closes(kind) == kind \in Cleanups \ {"closeHarness"}
Removes(kind) == kind \in {"removeAll", "removeWorktree"}

AfterClose(c) == IF Removes(cmd[c].kind) THEN "remove" ELSE "reconcile"
AfterStop(c, saw) ==
  IF Closes(cmd[c].kind) /\ saw.terminal # "none" THEN "resolve" ELSE AfterClose(c)

FirstStep(c) ==
  CASE cmd[c].kind = "create" -> "createWorktree"
    [] cmd[c].kind \in {"start", "resume"} -> "seed"
    [] cmd[c].kind \in {"closeTerminal", "terminalClose"} -> "resolve"
    [] OTHER -> IF Active(ShownAgent) THEN "stop" ELSE AfterStop(c, view)

(* A create decides nothing from the snapshot. *)
Seen(c) == IF cmd[c].kind = "create" THEN NoView ELSE view
SeenPane(c) == IF cmd[c].kind \in Cleanups /\ view.run # NoWindow THEN view.run.pane ELSE NoPane

(* Mutant: the command is held to be about the target of the row, not its  *)
(* session.                                                                *)
SessionIsTarget(c) ==
  IF cmd[c].kind \in Cleanups /\ view.run # NoWindow THEN view.run.pane ELSE cmd[c].session

SessionNow(c) ==
  IF cmd[c].kind \in Cleanups /\ view.run # NoWindow THEN view.run.session ELSE cmd[c].session

Begin(c) ==
  /\ At(c, "waiting") /\ ScopeIsFree(c, SessionNow(c))
  /\ LET allowed == IF cmd[c].kind \in Launches THEN LaunchAllowed(cmd[c].kind)
                                                ELSE CleanupAllowed(c)
     IN  Become(c, [cmd[c] EXCEPT !.at = IF allowed THEN FirstStep(c) ELSE "failed",
                                  !.session = SessionNow(c),
                                  !.saw = Seen(c), !.pane = SeenPane(c)])
  /\ UNCHANGED <<world, view, scan, seeds, late, faults, stopSupported>>

(* The command times out or is cancelled: its handler learns of it only     *)
(* where it looks at the signal.                                            *)
Abort(c) ==
  /\ UnderWay(c)
  /\ Fault
  /\ Become(c, [cmd[c] EXCEPT !.aborted = TRUE])
  /\ UNCHANGED <<world, view, scan, seeds, late, stopSupported>>

-----------------------------------------------------------------------------
(* session.create, session.startAgent and session.resumeAgent, with the    *)
(* intent ensureAgentWorkspace in the middle of them. *)

(* The rollback of a launch from its seed on, and from its worktree on.    *)
(* A resume may have met a session that existed, and keeps its row.        *)
UndoWorktree(c) == IF cmd[c].created THEN "uncreate" ELSE "failed"
UndoSeed(c) == IF cmd[c].kind = "resume" THEN "failed" ELSE "unseed"

CreateWorktree(c) ==
  /\ At(c, "createWorktree")
  /\ Mutate(c, CallOf(c, "createWorktree", FALSE), "seed", "failed")
  /\ UNCHANGED Bystanders

SeedSessionTitle(c) ==
  /\ At(c, "seed")
  /\ \/ /\ ~cmd[c].aborted
        /\ seeds' = seeds \cup {cmd[c].session}
        /\ GoTo(c, "open") /\ UNCHANGED faults
     \/ /\ \/ cmd[c].aborted /\ UNCHANGED faults
           \/ Fault
        /\ GoTo(c, UndoWorktree(c)) /\ UNCHANGED seeds
  /\ UNCHANGED <<world, view, scan, late, stopSupported>>

OpenWorkspace(c) ==
  /\ At(c, "open")
  /\ Mutate(c, CallOf(c, "open", FALSE), "launch", UndoSeed(c))
  /\ UNCHANGED Bystanders

(* Mutant: a failed launch leaves the window it opened. *)
LaunchProcessOpenStays(c) ==
  /\ At(c, "launch")
  /\ Mutate(c, CallOf(c, "launch", FALSE), "focus", UndoSeed(c))
  /\ UNCHANGED Bystanders

(* buildLaunch, which changes nothing, and launchProcess. *)
LaunchProcess(c) ==
  /\ At(c, "launch")
  /\ Mutate(c, CallOf(c, "launch", FALSE), "focus", "closeOpened")
  /\ UNCHANGED Bystanders

(* Mutant: the new session is announced without a reconcile. *)
FocusTargetThenAnnounce(c) ==
  /\ At(c, "focus")
  /\ Become(c, IF cmd[c].aborted THEN [cmd[c] EXCEPT !.at = UndoSeed(c), !.spoilt = TRUE]
                                 ELSE [cmd[c] EXCEPT !.at = "announce"])
  /\ UNCHANGED <<world, view, scan, seeds, late, faults, stopSupported>>

(* The window is focused at best effort.  A command that was aborted while *)
(* its agent was launched fails, but the window is not opened for it any   *)
(* more: nothing closes it.                                                *)
FocusTarget(c) ==
  /\ At(c, "focus")
  /\ Become(c, IF cmd[c].aborted THEN [cmd[c] EXCEPT !.at = UndoSeed(c), !.spoilt = TRUE]
                                 ELSE [cmd[c] EXCEPT !.at = "reconcile"])
  /\ UNCHANGED <<world, view, scan, seeds, late, faults, stopSupported>>

(* closeOpenedTargetBestEffort gets the signal of the command: once it is  *)
(* aborted the window stays, with the agent if it was launched.            *)
CloseOpened(c) ==
  /\ At(c, "closeOpened")
  /\ Mutate(c, CallOf(c, "close", FALSE), UndoSeed(c), UndoSeed(c))
  /\ UNCHANGED Bystanders

DeleteSeed(c) ==
  /\ At(c, "unseed")
  /\ \/ /\ seeds' = seeds \ {cmd[c].session}
        /\ GoTo(c, UndoWorktree(c)) /\ UNCHANGED faults
     \/ /\ Fault /\ UNCHANGED seeds
        /\ Become(c, [cmd[c] EXCEPT !.at = UndoWorktree(c), !.spoilt = TRUE])
  /\ UNCHANGED <<world, view, scan, late, stopSupported>>

UncreateWorktree(c) ==
  /\ At(c, "uncreate")
  /\ Mutate(c, CallOf(c, "remove", TRUE), "failed", "failed")
  /\ UNCHANGED Bystanders

-----------------------------------------------------------------------------
(* session.close, session.remove, terminal.close and worktree.remove. *)

(* stopHarnessRun: without stop() a forced command that has a terminal to   *)
(* close lets that end the agent.                                          *)
StopHarness(c) ==
  /\ At(c, "stop") /\ stopSupported
  /\ Mutate(c, CallOf(c, "stop", cmd[c].force), AfterStop(c, cmd[c].saw), "failed")
  /\ UNCHANGED Bystanders

CannotStop(c) ==
  /\ At(c, "stop") /\ ~stopSupported
  /\ GoTo(c, IF cmd[c].force /\ Closes(cmd[c].kind) /\ cmd[c].saw.terminal # "none"
             THEN "resolve" ELSE "failed")
  /\ UNCHANGED <<world, view, scan, seeds, late, faults, stopSupported>>

(* resolveTargetForIntent lists the windows again and takes one bound to    *)
(* the session the command is about, else any window of the worktree.  It   *)
(* takes none that is stale, so that a session whose agent ended, or the    *)
(* worktree of one, is not cleaned up by any command.                       *)
Live == {w \in world.windows : ~Stale(w)}
OfSeenSession(c) ==
  {w \in Live : cmd[c].saw.run # NoWindow /\ w.session = cmd[c].saw.run.session}
Candidates(c) == IF OfSeenSession(c) = {} THEN Live ELSE OfSeenSession(c)

(* Mutant: a window that cannot be resolved counts as closed. *)
ResolveTargetOrSkip(c) ==
  /\ At(c, "resolve")
  /\ \/ /\ ~cmd[c].aborted /\ UNCHANGED faults
        /\ \E w \in Candidates(c) : Become(c, [cmd[c] EXCEPT !.at = "close", !.pane = w.pane])
     \/ /\ cmd[c].aborted \/ Candidates(c) = {}
        /\ GoTo(c, "failed") /\ UNCHANGED faults
     \/ Fault /\ GoTo(c, AfterClose(c))
  /\ UNCHANGED <<world, view, scan, seeds, late, stopSupported>>

ResolveTarget(c) ==
  /\ At(c, "resolve")
  /\ \/ /\ ~cmd[c].aborted /\ UNCHANGED faults
        /\ \E w \in Candidates(c) : Become(c, [cmd[c] EXCEPT !.at = "close", !.pane = w.pane])
     \/ /\ cmd[c].aborted \/ Candidates(c) = {}
        /\ GoTo(c, "failed") /\ UNCHANGED faults
     \/ Fault /\ GoTo(c, "failed")
  /\ UNCHANGED <<world, view, scan, seeds, late, stopSupported>>

CloseTerminal(c) ==
  /\ At(c, "close")
  /\ Mutate(c, CallOf(c, "close", FALSE), AfterClose(c), "failed")
  /\ UNCHANGED Bystanders

RemoveWorktree(c) ==
  /\ At(c, "remove")
  /\ Mutate(c, CallOf(c, "remove", cmd[c].force), "reconcile", "failed")
  /\ UNCHANGED Bystanders
-----------------------------------------------------------------------------
(* Every handler that succeeded ends with a reconcile of its own, in the   *)
(* core's chain, and announces what the new snapshot shows.                *)

(* A listing that fails does not fail the reconcile: it goes on as if      *)
(* there were no worktrees, no windows or no runs.  Without a worktree      *)
(* nothing is chosen of what is listed.                                    *)
ScanBegins(by) ==
  /\ scan.for = NoScan
  /\ \/ /\ scan' = [for |-> by, listed |-> world.worktree = NoWorktree,
                      got |-> [NoView EXCEPT !.worktree = world.worktree]]
        /\ UNCHANGED faults
     \/ Fault /\ scan' = [for |-> by, listed |-> TRUE, got |-> [NoView EXCEPT !.blind = TRUE]]
  /\ UNCHANGED <<world, view, cmd, seeds, late, stopSupported>>

(* chooseTerminal leaves out the windows outside the worktree, and so does  *)
(* the discovery of the runs.                                               *)
Terminals(windows) ==
  IF windows = {} THEN {"none"} ELSE {IF Stale(w) THEN "stale" ELSE "open" : w \in windows}
RunsOf(windows) ==
  LET hosts == {w \in windows : w.agent # NoAgent} IN IF hosts = {} THEN {NoWindow} ELSE hosts
ScanLists ==
  /\ scan.for # NoScan /\ ~scan.listed
  /\ \E away \in SUBSET {w \in world.windows : w.pane \in world.strayed} :
       LET inside == world.windows \ away IN
       \/ /\ \E t \in Terminals(inside), r \in RunsOf(inside) :
               scan' = [scan EXCEPT !.listed = TRUE, !.got.terminal = t, !.got.run = r]
          /\ UNCHANGED faults
       \/ /\ Fault
          /\ \E t \in {"none"} \cup Terminals(inside) :
               scan' = [scan EXCEPT !.listed = TRUE, !.got.terminal = t, !.got.blind = TRUE]
  /\ UNCHANGED <<world, view, cmd, seeds, late, stopSupported>>

ReconcileBegins(c) == At(c, "reconcile") /\ ScanBegins(c)
(* Reconciles of the observer's own that find what is shown are left out.  *)
ObserverReconciles ==
  /\ \/ view.worktree # world.worktree \/ view.blind
     \/ view.terminal \notin Terminals(world.windows) \/ view.run \notin RunsOf(world.windows)
  /\ ScanBegins(User)

Reconciled(step, isSpoilt) ==
  cmd' = [c \in Command |-> IF c = scan.for
                            THEN [cmd[c] EXCEPT !.at = step, !.spoilt = @ \/ isSpoilt]
                            ELSE cmd[c]]

ScanLands ==
  /\ scan.for # NoScan /\ scan.listed
  /\ scan' = NotScanning
  /\ \/ view' = scan.got /\ Reconciled("announce", FALSE) /\ UNCHANGED faults
     \/ Fault /\ UNCHANGED view /\ Reconciled("failed", TRUE)
  /\ UNCHANGED <<world, seeds, late, stopSupported>>

(* publishSessionCreated and publishRemovedSessionIfAbsent: the event is   *)
(* recorded, then published.                                               *)
Announce(c) ==
  /\ At(c, "announce")
  /\ \/ GoTo(c, "done") /\ UNCHANGED faults
     \/ Fault /\ Become(c, [cmd[c] EXCEPT !.at = "failed", !.spoilt = TRUE])
  /\ UNCHANGED <<world, view, scan, seeds, late, stopSupported>>
-----------------------------------------------------------------------------
(* What happens beside the handlers. *)

(* A call that timed out takes effect after all. *)
LateEffect(call) ==
  /\ call \in late
  /\ Possible(call, world)
  /\ \E outcome \in Outcomes(call, world) : world' = outcome.world
  /\ late' = late \ {call}
  /\ UNCHANGED <<view, scan, cmd, seeds, faults, stopSupported>>

AgentWorks ==
  /\ world.worktree # NoWorktree /\ \E w \in world.windows : Runs(w.agent)
  /\ world' = [world EXCEPT !.worktree.dirty = TRUE]
  /\ UNCHANGED <<view, scan, cmd, seeds, late, faults, stopSupported>>

(* Whoever works in a pane takes it to another directory. *)
WindowStrays ==
  /\ world.exits < MaxExits
  /\ \E w \in world.windows :
       /\ ~Stale(w) /\ w.pane \notin world.strayed
       /\ world' = [world EXCEPT !.strayed = @ \cup {w.pane}, !.exits = @ + 1]
  /\ UNCHANGED <<view, scan, cmd, seeds, late, faults, stopSupported>>

AgentExits ==
  /\ world.exits < MaxExits
  /\ \E w \in world.windows, is \in {"exited", "gone"} :
       /\ Runs(w.agent)
       /\ world' = [Update(world, w, [w EXCEPT !.agent.is = is]) EXCEPT !.exits = @ + 1]
  /\ UNCHANGED <<view, scan, cmd, seeds, late, faults, stopSupported>>

HandlerStep(c) ==
  \/ Begin(c) \/ Abort(c)
  \/ CreateWorktree(c) \/ SeedSessionTitle(c) \/ OpenWorkspace(c)
  \/ LaunchProcess(c) \/ FocusTarget(c) \/ CloseOpened(c) \/ DeleteSeed(c) \/ UncreateWorktree(c)
  \/ StopHarness(c) \/ CannotStop(c) \/ ResolveTarget(c) \/ CloseTerminal(c) \/ RemoveWorktree(c)
  \/ ReconcileBegins(c) \/ Announce(c)

Next ==
  \/ \E c \in Command : HandlerStep(c)
  \/ ObserverReconciles \/ ScanLists \/ ScanLands
  \/ \E call \in late : LateEffect(call)
  \/ AgentWorks \/ AgentExits \/ WindowStrays

Spec == Init /\ [][Next]_vars
-----------------------------------------------------------------------------
(* A launch that fails takes back what it did, in whatever step it failed  *)
(* and whoever else acted on the worktree: the worktree it made, the window *)
(* it opened or took over, and the session row it seeded are gone, unless   *)
(* it was aborted with a call in the air or a window open, or a call of its *)
(* own ended without its outcome being known.                               *)
FailedLaunchLeavesNothing ==
  \A c \in Command :
    cmd[c].kind \in Launches /\ At(c, "failed") /\ ~cmd[c].spoilt =>
      /\ cmd[c].created /\ world.worktree # NoWorktree => world.worktree.by # c
      /\ WindowOf(world, cmd[c].pane) = {}
      /\ cmd[c].kind # "resume" => cmd[c].session \notin seeds

AgentsRunning(w) == {x.agent : x \in {y \in w.windows : Runs(y.agent)}}

(* A cleanup goes on to the worktree, or succeeds, only once the agent it   *)
(* saw is no longer at work, although it closes what it finds by name and   *)
(* not what it saw; or it closed another window in place of that one.       *)
CleanupKeepsItsWord ==
  \A c \in Command :
    /\ Closes(cmd[c].kind) /\ cmd[c].at \in {"remove", "reconcile", "announce", "done"}
    /\ cmd[c].saw.terminal # "none" /\ cmd[c].saw.run # NoWindow /\ cmd[c].pane = cmd[c].saw.run.pane
    => cmd[c].saw.run.agent \notin AgentsRunning(world)

(* Once a command is done the snapshot tells, unless a read failed: as long *)
(* as the window of a launch is there and has not strayed, a worktree shown *)
(* has a terminal shown with it, and so has one that was there before the   *)
(* launch ended, shown or not; a worktree that was removed is not shown     *)
(* again.  This holds whatever other commands and reconciles do meanwhile.  *)
IsInside(w, pane) == WindowOf(w, pane) # {} /\ pane \notin w.strayed
DoneIsShown ==
  \A c \in Command :
    At(c, "done") /\ ~view.blind =>
      /\ cmd[c].kind \in Launches /\ IsInside(world, cmd[c].pane)
         => \/ view.terminal # "none"
            \/ /\ view.worktree = NoWorktree
               /\ world.worktree = NoWorktree \/ world.worktree.by \notin {User, c}
      /\ Removes(cmd[c].kind)
         => view.worktree = NoWorktree \/ view.worktree.by # cmd[c].saw.worktree.by

-----------------------------------------------------------------------------
(* The inductive strengthenings behind the theorems of                     *)
(* SessionCommandsProofs.                                                  *)

LaunchSteps == {"waiting", "createWorktree", "seed", "open", "launch", "focus", "closeOpened",
                "unseed", "uncreate", "reconcile", "announce", "done", "failed"}
CleanupSteps == {"waiting", "stop", "resolve", "close", "remove",
                 "reconcile", "announce", "done", "failed"}
Shown == {"announce", "done"}
Succeeding == {"reconcile"} \cup Shown
GoingBack == {"closeOpened", "unseed", "uncreate", "failed"}

(* What a handler keeps from its start, and where it can stand. *)
HandlerInv(c) ==
  /\ cmd[c].kind \in Launches =>
       /\ cmd[c].at \in LaunchSteps
       /\ ~cmd[c].force /\ cmd[c].session = OwnSession(c, cmd[c].kind)
       /\ At(c, "createWorktree") \/ cmd[c].created => cmd[c].kind = "create"
       /\ cmd[c].at \in {"waiting", "createWorktree"} => ~cmd[c].created
       /\ cmd[c].at \in {"waiting", "createWorktree", "seed", "open"} => cmd[c].pane = NoPane
       /\ At(c, "launch") => cmd[c].pane # NoPane
       /\ At(c, "unseed") => cmd[c].kind # "resume"
       /\ At(c, "uncreate") => cmd[c].created
  /\ cmd[c].kind \in Cleanups => cmd[c].at \in CleanupSteps /\ ~cmd[c].created
  /\ At(c, "waiting") => cmd[c].saw = NoView
  /\ cmd[c].spoilt => cmd[c].at \in GoingBack
  /\ Removes(cmd[c].kind) /\ cmd[c].at \notin {"waiting", "failed"}
       => cmd[c].saw.worktree # NoWorktree

(* A call that may still take effect is its maker's only uncertainty, and  *)
(* a launch in the air is of the window its maker holds.                   *)
LateInv ==
  /\ \A call \in late :
       /\ cmd[call.by].spoilt
       /\ call.do = "launch" =>
            cmd[call.by].kind \in Launches /\ call.pane # NoPane /\ call.pane = cmd[call.by].pane
  /\ \A x, y \in late : x.do = "createWorktree" /\ y.do = "createWorktree" /\ x.by = y.by => x = y

(* Windows are numbered as they are opened, so that none comes back. *)
Numbered(window) == window # NoWindow => window.pane <= world.panes
PanesInv ==
  /\ \A x \in world.windows : Numbered(x)
  /\ Numbered(view.run) /\ Numbered(scan.got.run)
  /\ \A c \in Command : cmd[c].pane # NoPane => cmd[c].pane <= world.panes

(* An agent is where its maker launched it, so at most in one window. *)
AtHome(window) ==
  window # NoWindow /\ window.agent # NoAgent =>
    LET by == window.agent.by IN
    IF by = User THEN window.pane = 1
    ELSE cmd[by].kind \in Launches /\ window.pane = cmd[by].pane
HomesInv ==
  /\ \A x \in world.windows : AtHome(x)
  /\ AtHome(view.run) /\ AtHome(scan.got.run)
  /\ \A c \in Command : AtHome(cmd[c].saw.run)

(* A command makes at most one worktree: one that is there, or shown, or   *)
(* was seen, is made once and for all.                                     *)
MadeForGood(by) ==
  by # User => /\ cmd[by].at \notin {"waiting", "createWorktree"}
               /\ \A call \in late : call.do = "createWorktree" => call.by # by
MadeOnce ==
  LET made(worktree) == worktree # NoWorktree => MadeForGood(worktree.by) IN
  /\ made(world.worktree) /\ made(view.worktree) /\ made(scan.got.worktree)
  /\ \A c \in Command : made(cmd[c].saw.worktree)

(* A launch on its way back has nothing left of what it has undone. *)
RollbackInv(c) ==
  cmd[c].kind \in Launches /\ ~cmd[c].spoilt =>
    /\ cmd[c].at \in {"unseed", "uncreate", "failed"} => WindowOf(world, cmd[c].pane) = {}
    /\ cmd[c].kind # "resume"
         /\ cmd[c].at \in {"waiting", "createWorktree", "seed", "uncreate", "failed"}
         => cmd[c].session \notin seeds
    /\ At(c, "failed") /\ cmd[c].created /\ world.worktree # NoWorktree
         => world.worktree.by # c

(* A cleanup that has passed its close has no window in its pane. *)
CloseInv(c) ==
  Closes(cmd[c].kind) /\ cmd[c].at \in {"remove"} \cup Succeeding /\ cmd[c].saw.terminal # "none"
    => WindowOf(world, cmd[c].pane) = {}

(* A row read since the handler of c acted tells what it did: the worktree  *)
(* as soon as it is read, the terminal once the windows are listed.        *)
TellsWorktree(c, row) ==
  ~row.blind =>
    /\ cmd[c].kind \in Launches /\ row.worktree = NoWorktree
       => world.worktree = NoWorktree \/ world.worktree.by \notin {User, c}
    /\ Removes(cmd[c].kind)
       => row.worktree = NoWorktree \/ row.worktree.by # cmd[c].saw.worktree.by
TellsTerminal(c, row) ==
  ~row.blind /\ cmd[c].kind \in Launches /\ IsInside(world, cmd[c].pane)
    => row.terminal # "none" \/ row.worktree = NoWorktree
Tells(c, row) == TellsWorktree(c, row) /\ TellsTerminal(c, row)
ShownInv(c) ==
  /\ cmd[c].at \in Shown => Tells(c, view)
  /\ (cmd[c].at \in Shown /\ scan.for # NoScan) \/ scan.for = c =>
       TellsWorktree(c, scan.got) /\ (scan.listed => TellsTerminal(c, scan.got))
  /\ scan.for = c => At(c, "reconcile")
  /\ Removes(cmd[c].kind) /\ cmd[c].at \in Succeeding /\ world.worktree # NoWorktree
       => world.worktree.by # cmd[c].saw.worktree.by

(* A run is shown in a worktree only, and windows are listed for one. *)
RowInv(row) == row.run # NoWindow => row.worktree # NoWorktree
ScanInv == scan.for # NoScan /\ ~scan.listed => scan.got.worktree # NoWorktree

CommandsInv ==
  /\ LateInv /\ PanesInv /\ HomesInv /\ MadeOnce
  /\ RowInv(view) /\ RowInv(scan.got) /\ ScanInv
  /\ \A c \in Command : HandlerInv(c) /\ RollbackInv(c) /\ CloseInv(c) /\ ShownInv(c)
=============================================================================
