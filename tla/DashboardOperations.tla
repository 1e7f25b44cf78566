------------------------ MODULE DashboardOperations ------------------------
(***************************************************************************)
(* The local operations of a dashboard (packages/dashboard-core): what it  *)
(* shows of a command before the observer's snapshot shows the effect, and *)
(* how receipts, completions, events and snapshots end that again.         *)
(*                                                                         *)
(* One worktree, with the row and session the observer has of it (`truth') *)
(* and the client's copy (`view'), in which the reducer patches rows and   *)
(* sessions apart.  A row is `bare' without an agent, `live' with one, and *)
(* `lost' with one that has exited and can be resumed.  The observer's     *)
(* commands, its reconciles and reports and the other clients are          *)
(* environment here, by the order in which they change the row and publish *)
(* events about it.                                                        *)
(***************************************************************************)
EXTENDS Naturals, Sequences, FiniteSets

CONSTANTS Op,          \* operations the user may begin
          Title,       \* session titles
          Branch,      \* the title of a session nobody renamed
          NoOp,
          MaxWire,     \* bound: published events the client has not read yet
          MaxSteps,    \* bound: operations begun and changes by others together
          MaxFaults    \* bound: requests that time out or lose their connection

ASSUME DashboardAssumption ==
  /\ Branch \in Title /\ NoOp \notin Op
  /\ MaxWire \in Nat /\ MaxSteps \in Nat /\ MaxFaults \in Nat

VARIABLES truth,      \* the observer's row and session
          owed,       \* patches that are published after the reconcile they follow
          due,        \* a report has asked for a reconcile that has not come yet
          view,       \* the client's copy of the rows and sessions
          wire,       \* events published to the client and not read yet
          wanted,     \* an event asked for a snapshot that has not come yet
          rows,       \* localRows
          op,         \* the operations: their command and how far they are
          handled,    \* handledCommandFailureIds
          screen,
          astray,     \* history: operations whose failed event found no row of
                      \* theirs, or whose wait for the completion was lost
          overtaken,  \* history: since the last announced reconcile a patch was
                      \* published that no longer fits the row
          changes, faults

observer == <<truth, owed, due, overtaken>>
vars == <<observer, view, wire, wanted, rows, op, handled, screen, astray, changes, faults>>

State == {"none", "bare", "lost", "live"}
Row == [state : State, session : Nat, title : Title]
HasSession(r) == r.state \in {"lost", "live"}
Launched(r) == [state |-> "live", session |-> r.session + 1, title |-> Branch]

(* The rows and sessions of a snapshot.                                    *)
Session == [id : Nat, title : Title]
Copy == [row : State, sessions : SUBSET Session]
Shown(r) ==
  [row |-> r.state,
   sessions |-> IF HasSession(r) THEN {[id |-> r.session, title |-> r.title]} ELSE {}]

Failed(o) == [type |-> "command.failed", command |-> o]
Reconciled == [type |-> "observer.reconciled"]
AgentChanged(state) == [type |-> "worktree.agentStateChanged", state |-> state]
WorktreeRemoved == [type |-> "worktree.removed"]
Created(r) == [type |-> "session.created", session |-> r.session, title |-> r.title]
Renamed(r) == [type |-> "session.updated", session |-> r.session, title |-> r.title]
SessionRemoved(r) == [type |-> "session.removed", session |-> r.session]

Patch == [type : {"worktree.agentStateChanged"}, state : State] \cup {WorktreeRemoved}
         \cup [type : {"session.created", "session.updated"}, session : Nat, title : Title]
         \cup [type : {"session.removed"}, session : Nat]
Event == [type : {"command.failed"}, command : Op] \cup {Reconciled} \cup Patch

(* What the reducer makes of a copy.  It also knows worktree.added and     *)
(* worktree.updated, which nothing in the observer publishes.              *)
Patched(v, e) ==
  CASE e.type = "worktree.agentStateChanged" /\ v.row # "none" -> [v EXCEPT !.row = e.state]
    [] e.type = "worktree.removed" -> [row |-> "none", sessions |-> {}]
    [] e.type = "session.created" ->
         [v EXCEPT !.sessions = {s \in @ : s.id # e.session}
                                \cup {[id |-> e.session, title |-> e.title]}]
    [] e.type = "session.updated" ->
         [v EXCEPT !.sessions =
            {IF s.id = e.session THEN [s EXCEPT !.title = e.title] ELSE s : s \in @}]
    [] e.type = "session.removed" -> [v EXCEPT !.sessions = {s \in @ : s.id # e.session}]
    [] OTHER -> v

(* A create row has an id of its own, the others are named by the worktree *)
(* or the session, so a later operation replaces the row of an earlier one. *)
Command == Op \cup {NoOp}
LocalRows == [create : SUBSET Op, failed : SUBSET Op,
              remove : SUBSET [command : Command],
              start : SUBSET [kind : {"start", "resume"}, command : Command],
              rename : SUBSET [session : Nat, title : Title, command : Command]]
NoRows == [create |-> {}, failed |-> {}, remove |-> {}, start |-> {}, rename |-> {}]

Kind == {"create", "start", "resume", "remove", "rename"}
Operation == [kind : Kind \cup {"none"}, session : Nat, title : Title,
              local : {"none", "dispatching", "waiting", "loading", "ended"},
              remote : {"none", "accepted", "rejected", "reconciled", "succeeded", "failed"},
              told : 0..2]
NotBegun == [kind |-> "none", session |-> 0, title |-> Branch,
             local |-> "none", remote |-> "none", told |-> 0]

Dashboard == [name |-> "dashboard", session |-> 0, title |-> Branch]
Screen == [name : {"dashboard", "remove", "rename"}, session : Nat, title : Title]

ObserverOK ==
  /\ truth \in Row /\ owed \in [Command -> Seq(Patch)]
  /\ due \in BOOLEAN /\ overtaken \in BOOLEAN

(* Type invariant.  There is at most one pending removal and one pending   *)
(* start of a worktree and one pending title of a session, over any        *)
(* operations that replace each other's rows.                              *)
TypeOK ==
  /\ ObserverOK
  /\ view \in Copy
  /\ wire \in Seq(Event) /\ wanted \in BOOLEAN
  /\ rows \in LocalRows
  /\ \A p, q \in rows.remove : p = q
  /\ \A p, q \in rows.start : p = q
  /\ \A p, q \in rows.rename : p.session = q.session => p = q
  /\ op \in [Op -> Operation]
  /\ handled \subseteq Op /\ astray \subseteq Op
  /\ screen \in Screen
  /\ changes \in Nat /\ faults \in 0..MaxFaults

Init ==
  /\ truth \in [state : State, session : {0}, title : {Branch}]
  /\ owed = [c \in Command |-> <<>>] /\ due = FALSE /\ overtaken = FALSE
  /\ view = Shown(truth)
  /\ wire = <<>> /\ wanted = FALSE
  /\ rows = NoRows /\ op = [o \in Op |-> NotBegun]
  /\ handled = {} /\ screen = Dashboard /\ astray = {}
  /\ changes = 0 /\ faults = 0

Fault == faults < MaxFaults /\ faults' = faults + 1
Room == Len(wire) < MaxWire
NotBusy == changes + Cardinality({o \in Op : op[o].local # "none"}) < MaxSteps

-----------------------------------------------------------------------------
(* The local rows. *)

(* A started row has an agent or a session, and a title is still due while *)
(* its session is shown with another one.                                  *)
Idle(v) == v.row = "bare" /\ v.sessions = {}
Started(v) == v.row # "none" /\ ~Idle(v)
TitleIsDue(p, v) == \E s \in v.sessions : s.id = p.session /\ s.title # p.title

(* Every snapshot and every event prunes what the snapshot shows by itself. *)
Prune(r, v) ==
  [create |-> IF v.row = "none" THEN r.create ELSE {},
   failed |-> r.failed,
   remove |-> IF v.row = "none" THEN {} ELSE r.remove,
   start |-> IF Idle(v) THEN r.start ELSE {},
   rename |-> {p \in r.rename : TitleIsDue(p, v)}]

Bound(o, p) == [p EXCEPT !.command = o]
Bind(o, r) ==
  [create |-> r.create,
   failed |-> r.failed,
   remove |-> {IF op[o].kind = "remove" THEN Bound(o, p) ELSE p : p \in r.remove},
   start |-> {IF p.kind = op[o].kind THEN Bound(o, p) ELSE p : p \in r.start},
   rename |-> {IF op[o].kind = "rename" /\ p.session = op[o].session
               THEN Bound(o, p) ELSE p : p \in r.rename}]

(* Removes the row the operation goes by, whoever added it. *)
Clear(o, r) ==
  [create |-> r.create \ {o},
   failed |-> r.failed,
   remove |-> IF op[o].kind = "remove" THEN {} ELSE r.remove,
   start |-> {p \in r.start : p.kind # op[o].kind},
   rename |-> {p \in r.rename : op[o].kind = "rename" => p.session # op[o].session}]

(* Mutant: only a failed create is taken out of the pending rows. *)
MarkFailedCreate(o, r) ==
  IF o \in r.create
  THEN [r EXCEPT !.create = @ \ {o}, !.failed = @ \cup {o}] ELSE r

(* A failed create stays visible for a while, the others just go. *)
MarkFailed(o, r) ==
  [Clear(o, r) EXCEPT !.failed = IF o \in r.create THEN @ \cup {o} ELSE @]

FailedExpires(o) ==
  /\ o \in rows.failed
  /\ rows' = [rows EXCEPT !.failed = @ \ {o}]
  /\ UNCHANGED <<observer, view, wire, wanted, op, handled, screen, astray, changes, faults>>

-----------------------------------------------------------------------------
(* Keys. *)

(* A row can be chosen while nothing local is pending on it. *)
Choosable == view.row # "none" /\ rows.remove = {} /\ rows.start = {}

DisplayTitle(s) ==
  IF \E p \in rows.rename : p.session = s.id
  THEN (CHOOSE p \in rows.rename : p.session = s.id).title
  ELSE s.title

Begin(o, kind, session, title) ==
  /\ op[o].local = "none" /\ NotBusy
  /\ op' = [op EXCEPT ![o] = [kind |-> kind, session |-> session, title |-> title,
                              local |-> "dispatching", remote |-> "none", told |-> 0]]
  /\ screen' = Dashboard
  /\ UNCHANGED <<observer, view, wire, wanted, handled, astray, changes, faults>>

SubmitCreate(o) ==
  /\ screen = Dashboard
  /\ Begin(o, "create", 0, Branch)
  /\ rows' = [rows EXCEPT !.create = @ \cup {o}]

(* A row without an agent is started, or resumed if the observer offers a  *)
(* recovery, which it also does for an agent that has exited.  A live row  *)
(* is only focused, which leaves no local state.                           *)
PressRow(o) ==
  /\ screen = Dashboard /\ Choosable
  /\ \E kind \in {"start", "resume"} :
       /\ view.row = "bare" \/ (view.row = "lost" /\ kind = "resume")
       /\ Begin(o, kind, 0, Branch)
       /\ rows' = [rows EXCEPT !.start = {[kind |-> kind, command |-> NoOp]}]

Show(s) ==
  /\ screen = Dashboard /\ Choosable
  /\ screen' = s
  /\ UNCHANGED <<observer, view, wire, wanted, rows, op, handled, astray, changes, faults>>

ChooseRemove == Show([Dashboard EXCEPT !.name = "remove"])

ChooseRename ==
  \E s \in view.sessions :
    Show([name |-> "rename", session |-> s.id, title |-> DisplayTitle(s)])

ConfirmRemove(o) ==
  /\ screen.name = "remove"
  /\ view.row # "none"
  /\ Begin(o, "remove", 0, Branch)
  /\ rows' = [rows EXCEPT !.remove = {[command |-> NoOp]}]

(* Mutant: the title pending before is kept next to the new one. *)
SubmitRenameBeside(o) ==
  /\ screen.name = "rename"
  /\ \E title \in Title \ {screen.title} :
       /\ Begin(o, "rename", screen.session, title)
       /\ rows' = [rows EXCEPT !.rename =
                     @ \cup {[session |-> screen.session, title |-> title, command |-> NoOp]}]

(* The session may be gone by now: the row is added nevertheless. *)
SubmitRename(o) ==
  /\ screen.name = "rename"
  /\ \E title \in Title \ {screen.title} :
       /\ Begin(o, "rename", screen.session, title)
       /\ rows' = [rows EXCEPT !.rename =
                     {p \in @ : p.session # screen.session}
                     \cup {[session |-> screen.session, title |-> title, command |-> NoOp]}]

(* Escape, an unchanged title, or the confirmation of a row that is gone. *)
LeaveScreen ==
  /\ screen # Dashboard
  /\ screen' = Dashboard
  /\ UNCHANGED <<observer, view, wire, wanted, rows, op, handled, astray, changes, faults>>

-----------------------------------------------------------------------------
(* The operations: dispatch, wait for the completion, catch up. *)

Local(o, phase, told) ==
  op' = [op EXCEPT ![o].local = phase, ![o].told = @ + told]

ClientStep == UNCHANGED <<observer, wire, wanted, screen, astray, changes>>

ReceiptAccepts(o) ==
  /\ op[o].local = "dispatching"
  /\ op[o].remote \notin {"none", "rejected"}
  /\ rows' = Bind(o, rows)
  /\ Local(o, "waiting", 0)
  /\ ClientStep /\ UNCHANGED <<view, handled, faults>>

ReceiptRejects(o) ==
  /\ op[o].local = "dispatching" /\ op[o].remote = "rejected"
  /\ rows' = MarkFailed(o, rows)
  /\ Local(o, "ended", 1)
  /\ ClientStep /\ UNCHANGED <<view, handled, faults>>

(* The request or its answer is lost, or nobody knows the focus origin:    *)
(* whether the observer has the command is open.                           *)
DispatchThrows(o) ==
  /\ op[o].local = "dispatching" /\ Fault
  /\ rows' = MarkFailed(o, rows)
  /\ Local(o, "ended", 1)
  /\ ClientStep /\ UNCHANGED <<view, handled>>

CompletionFails(o) ==
  /\ op[o].local = "waiting" /\ op[o].remote = "failed"
  /\ rows' = MarkFailed(o, rows)
  /\ Local(o, "ended", IF o \in handled THEN 0 ELSE 1)
  /\ handled' = handled \cup {o}
  /\ ClientStep /\ UNCHANGED <<view, faults>>

(* The wait times out or loses its connection while the command goes on. *)
WaitThrows(o) ==
  /\ op[o].local = "waiting" /\ Fault
  /\ rows' = MarkFailed(o, rows)
  /\ Local(o, "ended", 1)
  /\ handled' = IF op[o].kind \in {"create", "remove"} THEN handled ELSE handled \cup {o}
  /\ astray' = astray \cup {o}
  /\ UNCHANGED <<observer, view, wire, wanted, screen, changes>>

(* A create row goes with the completion; a remove row and a title wait    *)
(* for the snapshot that shows them; a start looks for its agent.          *)
Succeeded(o) == op[o].local = "waiting" /\ op[o].remote = "succeeded"

CompletionSucceeds(o) ==
  /\ Succeeded(o)
  /\ op[o].kind \notin {"start", "resume"}
  /\ rows' = IF op[o].kind = "create"
             THEN [rows EXCEPT !.create = @ \ {o}, !.failed = @ \ {o}] ELSE rows
  /\ Local(o, "ended", 0)
  /\ ClientStep /\ UNCHANGED <<view, handled, faults>>

AgentStarts(o) ==
  /\ Succeeded(o)
  /\ op[o].kind \in {"start", "resume"}
  /\ IF Started(view)
     THEN rows' = Clear(o, rows) /\ Local(o, "ended", 0)
     ELSE UNCHANGED rows /\ Local(o, "loading", 0)
  /\ ClientStep /\ UNCHANGED <<view, handled, faults>>

CatchesUp(o) ==
  /\ op[o].local = "loading"
  /\ view' = Shown(truth)
  /\ rows' = IF Started(view') THEN Clear(o, Prune(rows, view')) ELSE Prune(rows, view')
  /\ Local(o, "ended", 0)
  /\ ClientStep /\ UNCHANGED <<handled, faults>>

(* A failed load ends the operation with a toast about the load: the row   *)
(* stays for the next event or snapshot to prune.                          *)
LoadFails(o) ==
  /\ op[o].local = "loading" /\ Fault
  /\ Local(o, "ended", 0)
  /\ ClientStep /\ UNCHANGED <<view, rows, handled>>

-----------------------------------------------------------------------------
(* Events and snapshots. *)

NextIs(type) == wire # <<>> /\ Head(wire).type = type /\ wire' = Tail(wire)
Reduced(v) == view' = v /\ rows' = Prune(rows, v)

ReadAnnouncement ==
  /\ NextIs("observer.reconciled")
  /\ wanted' = TRUE
  /\ Reduced(view)
  /\ UNCHANGED <<observer, op, handled, screen, astray, changes, faults>>

ReadPatch ==
  /\ wire # <<>> /\ Head(wire) \in Patch /\ wire' = Tail(wire)
  /\ Reduced(Patched(view, Head(wire)))
  /\ UNCHANGED <<observer, wanted, op, handled, screen, astray, changes, faults>>

(* The row of a command, found by the id its receipt has bound. *)
LocalRow(o) ==
  \/ o \in rows.create /\ op[o].local # "dispatching"
  \/ \E p \in rows.remove \cup rows.start \cup rows.rename : p.command = o

(* That row is marked as failed, by the name it goes by. *)
Drop(o, r) ==
  [create |-> r.create \ {o},
   failed |-> IF o \in r.create THEN r.failed \cup {o} ELSE r.failed,
   remove |-> {p \in r.remove : p.command # o},
   start |-> {p \in r.start : p.command # o},
   rename |-> {p \in r.rename : p.command # o}]

(* Mutant: every failed event counts as handled, told at a row or not. *)
ReadFailedHandled ==
  /\ NextIs("command.failed")
  /\ LET o == Head(wire).command IN
       /\ view' = view
       /\ rows' = IF LocalRow(o) THEN Drop(o, Prune(rows, view)) ELSE Prune(rows, view)
       /\ handled' = handled \cup {o}
       /\ astray' = IF LocalRow(o) THEN astray ELSE astray \cup {o}
       /\ op' = [op EXCEPT ![o].told = IF LocalRow(o) THEN @ + 1 ELSE @]
  /\ UNCHANGED <<observer, wanted, screen, changes, faults>>

ReadFailed ==
  /\ NextIs("command.failed")
  /\ LET o == Head(wire).command IN
       /\ view' = view
       /\ IF LocalRow(o)
          THEN /\ rows' = Drop(o, Prune(rows, view))
               /\ handled' = handled \cup {o}
               /\ UNCHANGED astray
          ELSE /\ rows' = Prune(rows, view)
               /\ astray' = astray \cup {o}
               /\ UNCHANGED handled
       /\ op' = [op EXCEPT ![o].told = IF LocalRow(o) \/ o \notin handled THEN @ + 1 ELSE @]
  /\ UNCHANGED <<observer, wanted, screen, changes, faults>>

(* Asked for by an event, by the user or by a new subscription.            *)
SnapshotLoaded ==
  /\ wanted' = FALSE
  /\ Reduced(Shown(truth))
  /\ UNCHANGED <<observer, wire, op, handled, screen, astray, changes, faults>>

-----------------------------------------------------------------------------
(* The observer: it takes a command, also one nobody waits for any more.   *)
(* The command changes the row with a reconcile it announces, and records  *)
(* and publishes patches of its own after that.  It may fail before or     *)
(* between, and patches of other commands may come in between.             *)

Remote(o, from, to) ==
  /\ op[o].remote = from
  /\ op' = [op EXCEPT ![o].remote = to]
  /\ UNCHANGED <<view, wanted, rows, handled, screen, astray, changes, faults>>

Receive(o) ==
  /\ op[o].local # "none"
  /\ \E answer \in {"accepted", "rejected"} : Remote(o, "none", answer)
  /\ UNCHANGED <<observer, wire>>

(* What a command tells of the row it leaves as r.                         *)
Patches(r) ==
  LET ended == IF HasSession(truth) THEN <<SessionRemoved(truth)>> ELSE <<>> IN
  CASE r.state = "none" -> Append(ended, WorktreeRemoved)
    [] r.state = "bare" -> ended
    [] r.state = truth.state /\ r.session = truth.session -> <<Renamed(r)>>
    [] OTHER -> <<Created(r)>>

Announced(r) == Room /\ wire' = Append(wire, Reconciled) /\ overtaken' = FALSE /\ truth' = r
Commanded(c, r) ==
  /\ Announced(r)
  /\ owed' = [owed EXCEPT ![c] = @ \o Patches(r)]
  /\ UNCHANGED due

Effect(o) ==
  LET kind == op[o].kind IN
  CASE kind = "create" /\ truth.state = "none" -> {Launched(truth)}
    [] kind = "start" /\ truth.state \in {"bare", "lost"} -> {Launched(truth)}
    [] kind = "resume" /\ truth.state \in {"bare", "lost"} -> {[truth EXCEPT !.state = "live"]}
    [] kind = "remove" /\ truth.state # "none" -> {[truth EXCEPT !.state = "none"]}
    [] kind = "rename" /\ HasSession(truth) /\ truth.session = op[o].session ->
         {[truth EXCEPT !.title = op[o].title]}
    [] OTHER -> {}

(* Commands of one scope run one after the other: those of the worktree,   *)
(* of the session, of the project.                                         *)
SameScope(o, p) ==
  \/ {op[o].kind, op[p].kind} \subseteq {"start", "resume", "remove"}
  \/ {op[o].kind, op[p].kind} \subseteq {"rename"} /\ op[o].session = op[p].session
  \/ {op[o].kind, op[p].kind} \subseteq {"create"}

CommandTakesEffect(o) ==
  /\ Remote(o, "accepted", "reconciled")
  /\ \A p \in Op : op[p].remote = "reconciled" => ~SameScope(o, p)
  /\ \E r \in Effect(o) : Commanded(o, r)

CommandSucceeds(o) ==
  /\ Remote(o, "reconciled", "succeeded")
  /\ owed[o] = <<>>
  /\ UNCHANGED <<observer, wire>>

(* A handler that runs into the timeout goes on, one that throws does not. *)
CommandFails(o) ==
  /\ Remote(o, "accepted", "failed") \/ Remote(o, "reconciled", "failed")
  /\ Room /\ wire' = Append(wire, Failed(o))
  /\ owed' \in {owed, [owed EXCEPT ![o] = <<>>]}
  /\ UNCHANGED <<truth, due, overtaken>>

Publish(c) ==
  /\ Room /\ owed[c] # <<>>
  /\ owed' = [owed EXCEPT ![c] = Tail(@)]
  /\ wire' = Append(wire, Head(owed[c]))
  /\ overtaken' = (overtaken \/ Patched(Shown(truth), Head(owed[c])) # Shown(truth))
  /\ UNCHANGED <<truth, due, view, wanted, rows, op, handled, screen, astray, changes, faults>>

Outside ==
  /\ NotBusy /\ changes' = changes + 1
  /\ UNCHANGED <<view, wanted, rows, op, handled, screen, astray, faults>>

(* A command of somebody else, or the late effect of one that timed out.   *)
OthersCommand ==
  /\ Outside
  /\ \/ truth.state # "live" /\ Commanded(NoOp, Launched(truth))
     \/ HasSession(truth) /\ Commanded(NoOp, [truth EXCEPT !.state = "bare"])
     \/ truth.state # "none" /\ Commanded(NoOp, [truth EXCEPT !.state = "none"])
     \/ HasSession(truth)
        /\ \E t \in Title \ {truth.title} : Commanded(NoOp, [truth EXCEPT !.title = t])

(* A reconcile finds the row changed by the user's shell, or the agent.    *)
ReconcileFinds ==
  /\ Outside
  /\ \/ /\ truth.state # "live" /\ truth' = Launched(truth)
     \/ \E state \in State \ {truth.state, "live"} :
          /\ state = "lost" => truth.state = "live"
          /\ truth' = [truth EXCEPT !.state = state]
  /\ Room
  /\ wire' = Append(IF HasSession(truth) /\ truth'.state # "none"
                    THEN Append(wire, AgentChanged(truth'.state)) ELSE wire, Reconciled)
  /\ overtaken' = FALSE
  /\ UNCHANGED <<owed, due>>

(* The report of an agent's exit changes the row at once.  The patch is    *)
(* published a little later, and a reconcile follows.                      *)
ReportProjects ==
  /\ Outside
  /\ truth.state = "live"
  /\ truth' = [truth EXCEPT !.state = "lost"]
  /\ owed' = [owed EXCEPT ![NoOp] = Append(@, AgentChanged("lost"))]
  /\ due' = TRUE
  /\ UNCHANGED <<wire, overtaken>>

ScheduledReconcile ==
  /\ due /\ owed[NoOp] = <<>>
  /\ due' = FALSE
  /\ Announced(truth)
  /\ UNCHANGED <<owed, view, wanted, rows, op, handled, screen, astray, changes, faults>>

-----------------------------------------------------------------------------
Next ==
  \/ \E o \in Op :
       \/ SubmitCreate(o) \/ PressRow(o) \/ ConfirmRemove(o) \/ SubmitRename(o)
       \/ ReceiptAccepts(o) \/ ReceiptRejects(o) \/ DispatchThrows(o)
       \/ CompletionFails(o) \/ WaitThrows(o) \/ CompletionSucceeds(o)
       \/ AgentStarts(o) \/ CatchesUp(o) \/ LoadFails(o) \/ FailedExpires(o)
       \/ Receive(o) \/ CommandTakesEffect(o) \/ CommandFails(o) \/ CommandSucceeds(o)
  \/ ChooseRemove \/ ChooseRename \/ LeaveScreen
  \/ ReadAnnouncement \/ ReadPatch \/ ReadFailed \/ SnapshotLoaded
  \/ OthersCommand \/ ReconcileFinds \/ ReportProjects \/ ScheduledReconcile
  \/ \E c \in Command : Publish(c)

Spec == Init /\ [][Next]_vars

-----------------------------------------------------------------------------
(* Properties. *)

AtRest ==
  /\ wire = <<>> /\ ~wanted /\ ~due /\ \A c \in Command : owed[c] = <<>>
  /\ \A o \in Op : /\ op[o].local \in {"none", "ended"}
                   /\ op[o].remote \notin {"accepted", "reconciled"}

Undone(p) == p.command # NoOp /\ op[p.command].remote = "succeeded"

(* Once everything has settled, the copy is the observer's row, unless a   *)
(* patch was published after the row had changed once more and no          *)
(* reconcile has been announced since (commands/cleanup/events.ts and      *)
(* session/shared.ts publish after the reconcile, and record the event     *)
(* first).  Stale or not, no create is shown as pending, and a removal, a  *)
(* start or a title still pending is that of a command that succeeded and  *)
(* whose effect the copy does not show: nothing ever prunes those          *)
(* (localRows.ts, pruneLocalRowsForSnapshot), whichever of receipt,        *)
(* completion, failed event and snapshot came first.                       *)
RestIsClean ==
  AtRest =>
    /\ overtaken \/ view = Shown(truth)
    /\ rows.create = {}
    /\ \A p \in rows.remove : Undone(p) /\ view.row # "none"
    /\ \A p \in rows.start : Undone(p) /\ Idle(view)
    /\ \A p \in rows.rename : Undone(p) /\ TitleIsDue(p, view)

(* The user learns of every command that failed, by its event or by its    *)
(* completion, whichever comes first, and of the same failure twice only   *)
(* if its event found no row to tell it at or the wait for its completion  *)
(* was given up (localOperationRunner.ts, prepareCommandFailedEvent).      *)
FailureIsTold ==
  \A o \in Op :
    /\ op[o].remote \in {"failed", "rejected"} /\ op[o].local = "ended" => op[o].told > 0
    /\ op[o].told > 1 => o \in astray

-----------------------------------------------------------------------------
(* The inductive strengthenings behind the theorems of                     *)
(* DashboardOperationsProofs.                                              *)

Pending(o) == \E i \in 1..Len(wire) : wire[i] = Failed(o)
EventRead(o) == op[o].remote = "failed" /\ ~Pending(o)
Over(o) == op[o].local \in {"loading", "ended"}

(* A failed event is published once, and only of a command that failed.    *)
FailedFollows ==
  \A o \in Op :
    /\ Pending(o) => op[o].remote = "failed"
    /\ \A i, j \in 1..Len(wire) : wire[i] = Failed(o) /\ wire[j] = Failed(o) => i = j

(* The rows that carry the id of a command are of the command's kind, and  *)
(* gone by any end of the operation that told the user of a failure.       *)
NamedBy(o) ==
  /\ \A p \in rows.remove : p.command = o => op[o].kind = "remove"
  /\ \A p \in rows.start : p.command = o => p.kind = op[o].kind
  /\ \A p \in rows.rename : p.command = o => op[o].kind = "rename" /\ p.session = op[o].session
Unbound(o) == \A p \in rows.remove \cup rows.start \cup rows.rename : p.command # o
RowsOf(o) ==
  /\ NamedBy(o)
  /\ op[o].local \in {"none", "dispatching"} => Unbound(o)
  /\ op[o].told > 0 /\ Over(o) /\ ~EventRead(o) /\ o \notin astray
       => Unbound(o) /\ o \notin rows.create
RowsFollow == \A o \in Op : RowsOf(o)

(* Only the end of the operation and the reading of its event tell.        *)
TellingOf(o) ==
  /\ op[o].local = "none" => op[o].remote = "none"
  /\ op[o].local = "loading" => op[o].remote = "succeeded"
  /\ op[o].local = "ended" /\ op[o].told = 0 => op[o].remote = "succeeded"
  /\ op[o].told <= (IF Over(o) THEN 1 ELSE 0) + (IF EventRead(o) THEN 1 ELSE 0)
  /\ EventRead(o) => o \in astray \/ (o \in handled /\ op[o].local # "dispatching")
  /\ o \in handled => op[o].told > 0
  /\ op[o].told > 1 => o \in astray
TellingFollows == \A o \in Op : TellingOf(o)

IInv == TypeOK /\ FailedFollows /\ RowsFollow /\ TellingFollows

(* What a dashboard at rest shows.  Whatever changes the observer's row is *)
(* announced after it, so without an announcement to come the copy is the  *)
(* row, and a patch read by then changes nothing, unless it was overtaken. *)
OnTheWire == \E i \in 1..Len(wire) : wire[i] = Reconciled
LastWord(i) == \A j \in i + 1..Len(wire) : wire[j] # Reconciled
CopyFollows ==
  ~due /\ ~overtaken =>
    /\ ~wanted /\ ~OnTheWire => view = Shown(truth)
    /\ \A i \in 1..Len(wire) : LastWord(i) => Patched(Shown(truth), wire[i]) = Shown(truth)

(* A create row goes with its operation.                                   *)
CreatesAreOpen ==
  \A o \in rows.create : op[o].kind = "create" /\ op[o].local \in {"dispatching", "waiting"}

(* A row without an id yet has an operation on its way that will bind it   *)
(* or take it away.                                                        *)
OnItsWay(kind) == \E o \in Op : op[o].local = "dispatching" /\ op[o].kind = kind
UnboundIsOnItsWay ==
  /\ \A p \in rows.remove : p.command = NoOp => OnItsWay("remove")
  /\ \A p \in rows.start : p.command = NoOp => OnItsWay(p.kind)
  /\ \A p \in rows.rename : p.command = NoOp =>
       \E o \in Op : /\ op[o].local = "dispatching" /\ op[o].kind = "rename"
                     /\ op[o].session = p.session

(* Only a command that succeeded leaves rows with its id behind.           *)
EndsTakeRows ==
  \A o \in Op : op[o].local = "ended" /\ op[o].remote # "succeeded" => Unbound(o)

(* A row that is still there has been seen to be due by the last event or  *)
(* snapshot, or has been added since: a start by an operation that looks   *)
(* for its agent yet, a title by one whose success is to be announced yet. *)
Renaming(s) ==
  \E o \in Op : /\ op[o].kind = "rename" /\ op[o].session = s
                /\ op[o].local \in {"dispatching", "waiting"}
                /\ op[o].remote \notin {"reconciled", "succeeded"}
RowsAreDue ==
  /\ rows.remove # {} \/ rows.start # {} => view.row # "none"
  /\ \A p \in rows.start :
       p.command # NoOp /\ op[p.command].local \in {"loading", "ended"} => Idle(view)
  /\ \A p \in rows.rename : TitleIsDue(p, view) \/ OnTheWire \/ Renaming(p.session)

RestInv == CopyFollows /\ CreatesAreOpen /\ UnboundIsOnItsWay /\ EndsTakeRows /\ RowsAreDue
=============================================================================
