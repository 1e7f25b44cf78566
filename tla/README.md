# A TLA+ model of the wosm observer and its clients

wosm runs coding agents in git worktrees. One long-lived process per user, the
**observer**, knows about all of them: it executes commands, takes in reports
from the agents' hooks, reads worktrees, terminals and agents through providers,
and serves a snapshot to dashboards. This directory models the parts of the
system where concurrency, failure and ordering decide whether it is right: the
observer's queues and its snapshot, the path on which a report reaches it, the
way an observer process comes to serve, the handlers that launch and remove
agents, the client that keeps a copy of the snapshot, and what a dashboard shows
of a command before that copy does.

All paths are relative to the repository's root; `src/` holds the repository.

## 1. The system

| Part | State it keeps | Operations | Talks to |
| --- | --- | --- | --- |
| Command queue `apps/observer/src/commands/queue.ts` | `scopeChains`, `pending`, abort controllers in memory; `commands` and `events` in sqlite | `dispatch`, execution in a timed boundary, `shutdown`, `drain` | persistence, event bus, command handlers, `main.ts` |
| Harness ingress queue `hooks/harnessIngressQueue.ts` | pending reports by coalesce key, ready keys, remembered report ids, counters, drain waiters | `enqueue`, the worker, `drain`, `shutdown`, `health` | socket API, ingestion, reconcile |
| Report delivery `packages/provider-hooks`, `hooks/spool.ts`, `hooks/ingestion.ts` | spool files, ingress dedupe keys, observations and recovery handles in sqlite | deliver, spool, drain, ingest | ingress queue, event bus |
| Provider hook auto-start `packages/provider-hooks` | a lock directory | take, break and release the lock, start an observer, wait for it | the socket path, the observer process |
| Observer lifecycle `runtime/main.ts`, `server.ts`, `packages/protocol/src/transport.ts` | the socket file, open sqlite | take over the path, listen, first reconcile, stop | everything in the observer |
| Observer core `reconcile/*`, `runtime/api.ts` | the current snapshot, `reconcileChain` | `reconcile`, `projectHarnessEventReport`, announcements | providers, persistence, event bus |
| Reconcile scheduler `runtime/reconcileScheduler.ts` | waiting reasons, the timer, `running` | `request`, `flush` | observer core |
| Session, worktree and terminal commands `commands/session`, `cleanup`, `worktree`, `providers/terminalIntentRunner.ts` | none of their own; session rows seeded before a launch | create, start, resume, close, remove, with rollback | worktrunk, tmux, the harness, the core |
| Client runtime `packages/client` | the copy of the snapshot, the subscription cycle, refresh flights | `start`, apply events, resync, `refresh`, `reconcile`, `stop` | protocol, dashboards |
| Event bus and event hooks | subscribers with their queues | `publish`, `subscribe`; hook subprocesses | all publishers |
| Dashboard core `packages/dashboard-core` | local rows and operations, screens | keys, local operations | client runtime |
| Metadata refresh `metadata/*` | pending snapshot, the running refresh | `refresh`, `shutdown` | git, GitHub, core |
| CLI `apps/cli` | process-local | `wosm observer start`, `stop`, `restart`; setup | the socket path, client |
| Protocol, contracts, config, runtime, observability | requests in flight | framing, schemas, boundaries, logs | |
| Integrations (Claude, Codex, Cursor, OpenCode, Pi, scripted; tmux; Worktrunk; GitHub) | none that is shared | provider calls | external programs |
| TUI, experimental station | process-local | rendering | dashboard core |

What makes each of the modelled parts hard, and what makes it correct:

- **Command queue.** Four concurrent things meet: dispatches that wait for their
  writes, executions in per-scope promise chains, timeouts that give up on a
  handler without stopping it, and a shutdown that aborts and drains. Correct
  means: commands of a scope do not overlap between start and final write; rows
  only move forward and events never run ahead of them, whatever write fails; an
  abort is honoured; the chains and the shutdown always come to an end.
- **Harness ingress queue.** A bounded map with coalescing plus a queue of ready
  keys plus waiters. Correct means: the two structures agree, the bound holds,
  nothing accepted is lost, and every `drain()` and the shutdown end.
- **Delivery.** The same report may arrive by socket twice and by spool, and the
  observer may crash anywhere. Correct means: it is announced at most once and
  after it is stored, it does not leave the spool before it is claimed, what was
  acknowledged reaches the database, a drain delivers the files it listed, and the
  reconcile that waits for it goes on.
- **Observer process.** Any number of hooks and `wosm` commands start, stop and
  restart observers over one socket path, with checks that read the path and act
  on it later. Correct means: one observer serves behind the path, racing starts
  leave one that takes reports, and a hook on an undisturbed machine does not
  fail to deliver.
- **Observer core and scheduler.** Two kinds of writers share one snapshot, one
  of them over many awaits. Correct means: what a reconcile overwrites is made
  good by a later one, so the snapshot is current whenever the observer is at
  rest, and no request for that later reconcile is lost.
- **Session and worktree commands.** A handler decides once, from a snapshot, and
  then makes several provider calls without a transaction, while other scopes,
  agents, and calls that timed out go on. Correct means: a failed launch takes
  back what it made, a cleanup ends what it saw, and the snapshot shows what a
  command did.
- **Client runtime.** A stream that may end at any moment, loads that overlap
  events, and a caller that stops the client at any step. Correct means: a client
  at rest shows the observer's state, no refresh is left unanswered, a gap is
  resynced, and nothing shows after `stop()`.
- **Dashboard's local operations.** A row shown as pending belongs to a command
  whose receipt, completion and failed event overtake each other, the patches of
  the event stream and the snapshots, and later operations replace the rows of
  earlier ones. Correct
  means: nothing stays pending that nothing will clear, and the user learns of
  every failure, once.

`PROJECT.json` lists every component with its status and every hazard at its
line, with the properties that cover it or the reason none does.

## 2. The modules

| Module | Models | Composes |
| --- | --- | --- |
| `CommandLifecycle` | the abstract promise about one command: its record and its announcements | |
| `CommandQueue` | the command queue, with crash and restart | instantiates `CommandLifecycle` |
| `HarnessIngressQueue` | the in-memory report queue | |
| `IngressDelivery` | senders, socket, spool, ingestion, crashes | extends `HarnessIngressQueue`: its actions are conjuncts of the delivery's |
| `ReconcileScheduler` | debounce and single flight | |
| `ObserverCore` | reconciles, projections, announcements | extends `ReconcileScheduler`; shown to implement it |
| `ObserverProcess` | the socket path, the auto-start lock, hooks, `wosm` and observer processes | |
| `SessionCommands` | the handlers of session, worktree and terminal commands over one worktree | |
| `ClientRuntime` | the client, its subscription and its loads, beside an observer | |
| `DashboardOperations` | the local operations of a dashboard, beside the observer's commands | |
| `*Proofs` | theorems about the module they are named after | extend it |
| `*MC` | small instances for TLC | extend it |

A step of a model is what the code does between two awaits. `node:sqlite` is
synchronous, so a durable write belongs to the step that ends with it. Constants
named `Max...` that are not settings of the code bound a run (`MaxFaults`,
`MaxCrashes`, `MaxRequests`, `MaxEnqueues`, `MaxChanges`, `MaxCalls`, `MaxExits`,
`MaxPanes`). Definitions under a comment that begins with *Mutant* describe
plausible bugs; nothing uses them except the entries under `mutants` in
`PROJECT.json`, which name the property each of them breaks.

### CommandQueue

`phase[c]` is where the code of one command stands; `row` and `recorded` are
sqlite and survive `ProcessEnds`, all else is memory. Dispatch: `Dispatch`
(row), `RecordAccepted` (event), `Enqueue` (after the log's append: publish and
join the chain). Execution: `Begin` when the predecessor's promise has settled,
`RecordStarted`, `EnterBoundary`, then `HandlerReturns`, `HandlerThrows` or
`Timeout`, `MarkSucceeded` or `MarkFailed`, `RecordFinished`, `Settle`.
`DispatchThrows` and `ExecutionThrows` are the rejections: the first reaches the
caller, the second is swallowed by the `catch` at queue.ts:138. `live` holds the
handlers whose promises have not settled: a timeout leaves its handler there,
next to its successor's. `ahead` is a history variable: who was
in the chain when a command joined it. The proofs need it.

`CommandScope` is the code's scope function, type by type. Shutdown is spread
over `Shutdown` (abort), `DrainDone`, `CloseStore` (main.ts closes sqlite after
the server) and `ProcessEnds`. A dispatch that passed the shutdown check before
`Shutdown` may join a chain after the drain, as in the code; it then meets an
open or a closed store.

### HarnessIngressQueue

`Ref.modify` makes each change of the queue's state atomic, so each is one
action. `enqueue` has four outcomes: `EnqueueRejected` (shutting down or full),
`EnqueueDeduped`, and `Enqueue` with and without an older report under its key.
`Take` is the worker's take of a ready key and of its report; `Finish` merges
recording the outcome, a log append and the decrement of `active`, between which
nothing else reads what they change. `Release` resolves waiters in the change
that leaves the queue idle; `Wait` is the registration of one, in a queue that is
not. `fate` is a history variable, `enqueued` a bound.

### IngressDelivery

`sender[r]` walks through `deliverProviderHookWithSpooling`. A delivery attempt
put on the socket may be handled long after its sender gave up (`Waiting`), so
late acknowledgements, second deliveries and a spool record of the same report
coexist. `file[r]` is "partial" between the creation and the end of a write.
Ingestion is one procedure with two callers, the queue's worker and the spool
drain: `Claim` (one transaction: dedupe key, event, observation),
`UpsertHandle` (another), `Publish`. A reconcile that is asked for while no other
is `reconciling` (`AskReconcile`) begins a drain of the spool, or joins one under
way, whose `readdir` (`listing`, `ReadSpoolDirectory`) may be over by then; it then
waits for an idle queue (`ReconcileDrainsQueue`) and goes on (`ReconcileDrained`).
The drain reads the directory once and then its files in any order; the code's
order is that of the file names, which the senders choose by time. A record that
cannot be ingested is rewritten, a rewrite that fails is caught and tried once
more, and if that fails too the drain ends (`SpoolDrainThrows`). The reconcile of
a startup drains without waiting and is `listing` in the initial state; its wait
for the queue holds nobody up and is left out. `ObserverGone` is a crash anywhere or the end of an
orderly stop; `stopped` makes writes of a drain still under way fail. How an
observer gets started between the two attempts is `ObserverProcess`.

### ReconcileScheduler and ObserverCore

A row's agent is a state, its confidence and its time: what the overlay, the
projection and the announcements compare. `stored` is the set of reports in
sqlite. A report goes through `IngestReport`, `ProjectReport` (patch the
snapshot), `PublishProjection` (announce the change, a few continuations later)
and `RequestFor`. A call of `runReconcile` drains
(`StartDrain`), joins the chain with the snapshot it will be compared with
(`JoinChain`), reads the providers, overlays the stored statuses, replaces the
snapshot and announces differences. Reading a run may fail, which leaves the run
out; an uncaught failure ends the reconcile without a snapshot. The agent's exit
is seen only by the provider. Two simplifications: reports of one row differ in
their times (the code's tie-breakers are not modelled), and a reconcile
announces its snapshot before the next one replaces it (`ReplaceSnapshot`), a
handful of continuations against several provider reads.

### ObserverProcess

`socket` is the process whose file lies at the socket path, alive or dead: a file
without a listener is a leftover. `at[p]` is an observer process on its way up
(`CheckPath`, `UnlinkPath`, `Bind`: `listenUnixSocket`), serving, and on its way
down (`Close`, `Sweep`). The socket accepts from `Bind` on, before the first
reconcile has ended (`Started`), so a stop may come too early and leave a
*zombie*, and a reconcile that throws leaves a *headless* listener. `starter[h]`
is a hook between its two deliveries: `MakeLock`, `StatLock`, `BreakLock` and
`Release` are the calls of `acquireAutoStartLock` on the lock directory, each of
which acts on whatever lies there by then. `CheckStatus`, `AskHealth`,
`CheckAgain`, `UnlinkStale`, `Spawn`, `Healthy` and `GiveUp` are the start itself,
which hooks and `wosm` share up to the order of the checks (`checkingFile`,
`askingFile`: a `wosm` that saw a file). `CliStop` and `StopSeen` are stop and
restart.

A starter spawns at most one observer, which carries its name. `incidents` is a
history of what has gone wrong: a *leftover* socket file, a *doubt* (a check of a
live observer that ran into its timeout), an *unlocked* start or cleanup, other
*trouble*. Bind and listen are one step; what a delivery does with its timeouts
is in `IngressDelivery`; auto-start is on.

### SessionCommands

The world is one worktree and the windows bound to it, each with the session it
was bound to and the agent launched in it. A pane may leave the directory of the
worktree (`WindowStrays`); from then on a listing may find it inside or outside.
`view` is the row in the observer's snapshot: its worktree, its terminal and its
run, which are chosen apart (graph.ts:91, 384, 406), so that the run may be that of
another window than the terminal. `cmd[c]` is a handler: its kind, its step, the view it decided from,
the pane it holds, whether it was aborted. `Begin` is the guards of
`session/shared.ts` and `cleanup/guards.ts`; then a launch goes through
`CreateWorktree`, `SeedSessionTitle`, `OpenWorkspace`, `LaunchProcess` and
`FocusTarget`, or back through `CloseOpened`, `DeleteSeed` and
`UncreateWorktree`; a cleanup goes through `StopHarness`, `ResolveTarget`,
`CloseTerminal` and `RemoveWorktree`. Both end with a reconcile of their own and
an announcement. A reconcile reads the worktree (`ReconcileBegins`), later the
windows and from them the runs (`ScanLists`), and later still replaces the row
(`ScanLands`); each listing may fail, which makes the row *blind*. `Mutate` is
`runProviderMutation`: nothing is called after an abort, and a call fails, or
succeeds, or times out and then may still take effect (`LateEffect`).
`Outcomes` is what the provider does to the world: `openWorkspace` rebinds a
window or opens another, `launchProcess` replaces whatever ran in the pane.
Commands of different scopes run side by side; a command that was aborted has
left its scope while its handler works on. A pane whose process has ended is
*stale*: `ResolveTarget` skips it, as `resolveTargetForIntent` does.

`spoilt` marks handlers whose rollback cannot be held to account: a call of
theirs ended without its outcome being known, or the rollback itself failed.

### ClientRuntime

A snapshot is two numbers: `agent` is what events patch in place, `rest` what
they only announce. `loop` is the subscription loop, `iter` the client's end of
the subscription, `wire` what the observer sent and the client has not read,
`subscribed` the registration on the event bus, `eof` the closed socket.
`BeginCycle` opens an iterator and asks for the resync; `ReadAck`, `ReadPatch`,
`ReadAnnouncement`, `DropEvent`, `ReadEnd` are `consumeCurrentSubscription` with
the reducer; `CycleOver` is the end of `runCycle` and the turn of the loop.
`flight` is the one snapshot request of `runRefreshChain` with the requests it
answers, `pending` those that wait for the next one (`NextFlight`), `mutated`
whether an event changed the copy meanwhile. The epochs of the code are compared
for equality only, so a load carries whether its cycle is still current
(`spans`). `FlightFailsAs` and `ReadReject` are the failures: nobody listens, a
timeout, another build at the path, which halts the client for good.
`StopCalled` is `performStop`. On the observer's side: changes published to
whoever is registered at that moment, the end of the process and its return as
the same or another build. `missed` is a history variable, see section 4.

### DashboardOperations

One worktree, whose row and session the observer has as `truth`. The client's
`view` holds the row and the sessions apart, since `Patched`, the reducer of the
event stream, changes them apart. An operation is what a key press begins
(`SubmitCreate`, `PressRow`, `ConfirmRemove`, `SubmitRename`): it adds its row
to `rows` (the code's `localRows`) and dispatches a command. `op[o].local` is
how far its promise is: `ReceiptAccepts` binds the command's id to the row,
`CompletionFails` and `CompletionSucceeds` end it, and a start looks for its
agent (`AgentStarts`) and may load a snapshot first (`CatchesUp`).
`DispatchThrows`, `WaitThrows` and `LoadFails` are the lost requests; a failed
load leaves copy and rows alone. Rows are named by worktree or session, so
`Bind` and `Clear` act on the row of that name, whoever added it; only a create
row has a name of its own. Every event and snapshot goes through `Reduced`,
which replaces the copy and prunes the rows (`Prune`). `ReadFailed` is the
reading of a failed event with `prepareCommandFailedEvent`: it finds the row by
the id and removes it, or counts on the completion.

`op[o].remote` is the observer's side: it takes a command even when its sender
has given up, and ends it. What changes the row is environment:
`CommandTakesEffect` and `OthersCommand` change it with a reconcile that is
announced, and leave the patches of the handler (`Patches`: `session.created`,
`session.updated`, `session.removed`, `worktree.removed`) in `owed`, to be
published (`Publish`) after the event has been recorded and possibly after the
row has changed once more, which `overtaken` notes. `ReconcileFinds` is a change
the observer discovers, `ReportProjects` one an agent reports. The client reads
them with `ReadAnnouncement`, which asks for a snapshot, and `ReadPatch`. `told`
counts the failure toasts of an operation; `astray` is a history of those whose
failed event found no row, or whose wait for the completion was given up. An
event that is lost with its connection is answered by a full snapshot in
`ClientRuntime`, and here by `SnapshotLoaded`; a failed event that is lost that
way is not modelled, its completion still tells.

## 3. The runs

| Run | What it shows | Bounds |
| --- | --- | --- |
| `CommandQueueSafety` | commands of a scope stay serial, an orderly end leaves no command half done, an abort is honoured, and the queue implements `CommandLifecycle` | three commands of one session (one without a handler), one failed write, one crash |
| `CommandQueueLiveness` | chains and shutdowns always end | two commands of a worktree, one global; no faults |
| `HarnessIngressQueue` | bound, agreement, nothing lost; every drain and the shutdown end | five reports, three keys, two pending, three ids remembered, two drain callers, six calls |
| `IngressDeliverySafety` | at most once, after storing, spool kept | two reports of two agents, queue of one, memory of one id, a fault and a crash |
| `IngressDeliveryShared` | acknowledged reports, listed files and the drains of a reconcile, with liveness | two reports of one agent, no faults |
| `IngressDeliveryTorn` | refuted: the spool is durable | as `IngressDeliverySafety`, memory of two ids |
| `ObserverCore` | the snapshot at rest, the scheduler, order of reconciles | one row, two reports, a manual and the scheduled caller, two requests, one fault |
| `ObserverCoreTold` | refuted: subscribers know what the snapshot shows | as `ObserverCore`, no faults |
| `ObserverProcess` | one observer serves, auto-start delivers, racing starts leave a server | two hooks, one `wosm`, one fault; an empty machine or a leftover socket file, lock directory or both |
| `SessionCommands` | rollbacks are complete, cleanups keep their word, the snapshot tells | a create or resume beside a start, a session removal or a worktree removal; one fault, one agent that exits or pane that strays, two windows |
| `ClientRuntime` | the copy is current at rest, frozen after `stop()`, and every refresh, resync and stop comes to its end | one client, two changes, one fault, one call, the same or another build after a restart |
| `DashboardOperations` | pending rows are cleared at rest, every failure is told, and twice only for a reason | one worktree, two operations or one and a change by others, two titles, three events unread, two lost requests |

Why these bounds. A chain shows its behaviour with three commands: one at work,
one behind it that becomes the predecessor of a third, and the tail that is or is
not the one that leaves. A queue of two with five reports is full both with the
worker idle and with the worker busy, coalesces while full, and forgets an id. In
the delivery runs a queue of one and a memory of one make rejection, coalescing
and a forgotten id happen with two reports; a single fault and a single crash
reach every failure step in combination. Two reports on one row suffice for
order, since the overlay takes a maximum; two callers suffice for the chain to
have a waiting and a running reconcile. Two hooks race for the lock and, with the
leftover lock, over breaking it; a `wosm` beside them is the start without a lock
and the stop. Handlers of one worktree meet pairwise, each in a scope of its own;
two windows are one more than they should ever need. Three handlers are beyond a
run of minutes, and `DoneIsShown` is an example of what only they show; the
theorems of section 5 are for any number. A client needs two changes
for one to be loaded and the other to be patched over it, one fault for one gap
in the subscription, and one caller to wait behind a flight of the runtime's own.
Two operations are enough for one to replace the row of the other, one and a
change by others for an effect that is gone before the client saw it, three events
for a patch between two announcements, and two lost requests for both operations to
be given up.
The cleanups `closeHarness`, `closeTerminal`, `closeAll`, `removeSession` and
`terminalClose` are modelled, but run only as the beginning of `removeAll`.

Fairness is what the event loop gives: continuations run, timers fire, the worker
fiber and the drain proceed. A handler that never returns, a client that never
dispatches, a sender that is killed, an observer that is never restarted and a
reconcile nobody asks for are all allowed. A provider read is assumed to end
because every read has a timeout (`reconcile/run.ts`). In `ClientRuntime` an
observer that runs answers, sockets deliver and the client's loop takes its
steps; nothing says that the observer runs, changes, or that anyone calls.
`ObserverProcess`, `SessionCommands` and `DashboardOperations` state no fairness
and no liveness: every process in the first two may die, and what a start, a
handler or an operation must reach is stated of its end. Symmetry is used only in runs without liveness, of reports with keys of their
own, hooks, and operations. Deadlock is not checked in the runs: a stopped observer or client, and
one at rest with all inputs used up, have nothing left to do.

## 4. Where code and documents disagree

Shown by a run that refutes the statement:

1. *The spool is not durable over a crash in a rewrite.* spool.ts:232 truncates
   and rewrites a failed record in place (`IngressDeliveryTorn`).
2. *A change back is not announced.* api.ts:253 remembers the previous snapshot
   before waiting for the chain (`ObserverCoreTold`).

Part of a model, where a property names the exception:

3. *What a client may miss* (`missed` in `ClientRuntime`, the exception in
   `QuietClientIsCurrent`). The comment at observerRuntime.ts:293 says that with
   subscribe-first a change cannot be lost. Four ways remain: a change published
   after the snapshot was read and before the observer has registered the
   subscriber; an event that comes before the first snapshot although its load was
   answered without it (observerRuntime.ts:233 drops it); a response of
   `reconcile()` that arrives late and puts an older state back; and a load that
   was to follow an event, or a response known to be stale, and failed
   (observerRuntime.ts:134: a stale response is never the final word).
4. *`stop()` waits for a silent subscription* (`Parked`). It waits for the
   iterator to return, which waits for the read under way; the comments at
   observerRuntime.ts:373 and client.ts:374 have it return by itself. The same
   wait keeps a failed resync from being tried again.
5. *A stop that comes before the first reconcile has ended* leaves an observer
   that listens with its database closed and that a signal no longer stops: the
   server is not known yet at main.ts:130. A first reconcile that throws leaves a
   listener without a main function. Both are states of `ObserverProcess`.
6. *A hook's report may be neither delivered nor spooled.* Two removers of one
   leftover socket race, the second unlink throws outside of the boundary that
   turns failures into results (`lost`); diagnostics.md:90 says that a spool
   record is written when startup fails. `AutoStartDelivers` shows that this needs
   more than a leftover file alone.
7. *The lock directory is not owned.* isAutoStartLockStale counts a directory
   that is gone as stale, so the removal that follows may take another hook's
   fresh one (deliveryPolicy.ts:206, 274), and the release at the end removes
   whoever's is there. A closing observer unlinks whatever lies at the path. Hence
   the exceptions in `OneServes`.
8. *A rollback that was aborted.* closeOpenedTarget gets the signal of its
   command: aborted during or after the launch, a create leaves the window and the
   agent, and still force-removes the worktree under them (`spoilt`).
9. *What has no force may still lose an agent.* guards.ts:33 says a worktree with
   an active agent cannot be removed without force. The guard reads one snapshot:
   a start in another scope, or a terminal listing that failed, lets the removal
   through; a create's rollback may close the window in which a concurrent
   start has launched its agent. `CleanupKeepsItsWord` is about the agent that was
   seen, and exempts a cleanup that closed another window in its place.
10. *A patch may be older than the copy it patches* (`overtaken` in
   `DashboardOperations`, the exception in `RestIsClean`). cleanup/events.ts:21 and
   session/shared.ts:406 publish after a reconcile and after the event has been
   recorded. If the row changes in between and the client has read that already, the
   patch brings back a session that is gone or takes away one that is there, until
   the next announced reconcile.

Met while modelling, with no property of their own. queue.ts:340 wants
commands of one session, worktree or project to serialize; after a timeout the
next command starts while the handler of the first may still work, and what does
serialize is the interval from start to final write (`ScopeSerial`). In the
commands: a session whose pane is dead cannot be closed or removed, with force or without, because
`resolveTargetForIntent` finds no target; `openWorkspace` lists the current
window's panes only and takes a failed listing for an empty one, so it opens a
second window; a failed handler does not reconcile, and an exit nobody reported
keeps the agent in state unknown, which needs force; a failed worktree listing
lets `session.removed` be announced for a session that exists. In the client: a
halted client may leave the state "halted" again when a load succeeds; a refresh
that fails to connect shows "displayOnly" over a healthy subscription; a patched
row loses its `recovery` until the next full snapshot (snapshotReducer.ts).
`harness_socket_ingress_and_observer_queue_plan.md:37` says spooled reports enter
the same queue, while api.ts:340 ingests them directly (so two ingestions run
side by side, as modelled). A reconcile asked for while another one drains skips
the spool (api.ts:236), and one that meets a drain under way joins it without
reading the directory again (api.ts:317), so a file completed after that reading
waits for some later reconcile; `wosm_rebuild_tdd_final_v1.md:1165` has it drained
on the next one. `effect_boundary_hardening_sequence.md:151` says
sqlite closes after the records of commands are flushed, which holds for the
commands a shutdown aborted (`FlushedAtClose`) but not for a dispatch still
between its writes. `session.remove` and `worktree.remove` of one worktree have
different scopes and run side by side. In the dashboard: a removal, a start or a
title whose command succeeded stays pending if its effect is undone before the
client saw it, since rows are pruned only by a snapshot that shows the effect
(`RestIsClean` names that exception); until then a pending title hides what
others call the session, and a pending start keeps its row from being chosen. A
resume of a worktree whose agent has exited is no longer shown as pending after
the next event of any kind, because the row still has its agent
(localRows.ts:301).

## 5. What is proved

Proofs are for every set of commands, reports, rows, callers, handlers, hooks, `wosm`
processes and operations and every value of the bounds, from the assumptions named in the
modules (`CommandQueueAssumption`, `ReconcileSchedulerAssumption`,
`ObserverCoreAssumption`, `HarnessIngressQueueAssumption`,
`IngressDeliveryAssumption`, `ObserverProcessAssumption`,
`SessionCommandsAssumption`, `ClientRuntimeAssumption`, `NoSnapshotAssumption`,
`DashboardAssumption`). Bounds are assumed to be numbers, sets to be what their names
say, and the values that stand for nothing (`NoOp`, `NoWindow`, `NoScan`, ...) to lie
outside the sets they are added to; the core also assumes that a report's time is a
number. Every invariant and every action property the passing runs check is the
property of a theorem below, and so is the refinement of `CommandLifecycle`; the
inductive strengthenings stand at the end of the modules, and TLC checked each of
them as an invariant of the module's run before it was proved.

- **Phases of a command** (`CommandQueueProofs`). `PhaseInv` says what the phase
  of a command implies for its row, its events and its handler.
  `TypeOK /\ PhaseInv` is inductive (`TypeInit`, `TypeStep`, `PhaseInit`,
  `PhaseStep`); `TypeOK` is not enough for anything else because a row alone does
  not say what may be written next. From it: `TypeCorrect`, `EventsFollow`,
  `SuccessSettles`, `FinalRowsStay`, `LifecycleImplemented`. The refinement maps
  `row` to `status` and `published` to `announced`; each step is a step of
  `CommandLifecycle` or a stutter.
- **Chains of a scope.** `ScopeSerial` does not follow from phases: it needs
  `ChainInv`, the shape of a chain. The map entry of a scope is a command still
  in the chain (`TailIsChained`) and behind everybody in it (`TailIsLast`),
  commands of a scope are ordered by who was there first (`ChainIsOrdered`),
  whoever has somebody ahead still there has its predecessor there
  (`PredecessorIsChained`), and whoever executes has a settled predecessor
  (`ExecutingIsReady`). Two executing commands of a scope would be ordered, so
  the later one's predecessor would still be in the chain. `ChainStep` goes
  through four kinds of steps: joining, leaving, losing all, and steps that do
  not touch the chain (`ChainKept`). Result: `ScopeSerially`.
- **Shutdown of the queue.** That a drain flushes what was aborted is about the
  moment it ends; `FlushInv` carries it from the abort: whoever was signalled is
  in its chain while the queue drains, or has its final row written and announced.
  The phases say that a failure without a failed write leaves through such a row.
  Results: `ShutdownFlushes`, `AbortIsHonoured`.
- **Scheduler** (`ObserverCoreProofs`). `SchedulerInv` is inductive for the
  scheduler alone (`SchedulerCorrect`), and `SchedulerImplemented` shows that the
  core's steps are the scheduler's or leave it alone. Hence `RequestsAreKept` and
  `TimerFiresWell` hold of the whole core.
- **The snapshot at rest.** A report the snapshot does not show must still be on
  its way into one. `CoreInv` says how: it is behind the snapshot, or has yet to
  ask for a reconcile, or the scheduler owes a reconcile that will read the
  reports, or its reconcile has read this one and will write (`ReportReaches`); and a
  snapshot that is not what its reconcile built, because reports were projected
  over it, is owed one in the same way (`SnapshotMadeGood`). Both need the order of the chain
  (`OneReads`, `ReadsInOrder`): only the oldest call reads, on at least the
  reports behind the snapshot it replaces, which is also `BasisNeverShrinks`. The
  overlay takes the newest report of a row, so that the sets it is taken of have
  one is part of the invariant (`HasNewest`). At rest the scheduler owes nothing,
  and `SchedulerInv` rules out that it forgot. Results: `CoreCorrect`,
  `SnapshotSettles`, `BasisGrows`.
- **Ingress queue** (`HarnessIngressQueueProofs`). Depth counts pending reports
  and the worker's, so its bound needs the pending set to be finite, and counting
  it after a take or an offer needs the list of ready keys to be the pending keys
  without doubles (`ReadyKeysMatchPending`, `ReadyOnce`). `QueuedIsHeld` needs
  that the worker's report is one the queue accepted (`ActiveIsCurrent`).
  `QueueInv` is their conjunction with the types; there is one lemma per
  operation (`EnqueueStep`, `TakeStep`, `FinishStep`, `StopStep`, `WaitStep`).
  Result: `QueueStaysConsistent`, whose property is the bound, the agreement and
  what is held together. That whoever waits has a worker that will go on is a
  second invariant on top of it: a waiter registers only in a queue that is not idle,
  and every change that leaves it idle takes all waiters along
  (`WaitersHaveWaker`).
- **Delivery** (`IngressDeliveryProofs`). Every step of the delivery takes a step
  of the queue, leaves it alone, or ends in the fresh queue of the next observer,
  so `QueueInv` carries over. `AnnouncedOnceStored` is not inductive: between a claim
  and the announcement two ingestions, the worker's and the spool drain's, must
  not be about the same report, and a report at that stage has not been announced
  (`StagesFollow`, with `ActorsHold` for whose report an ingestion is). That a
  drain unlinks only a claimed report, hence `SpooledIsKept` (the name of the file,
  whatever its content), follows from the same invariant. `AckedIsHeld` needs `SeenIsKept`: the queue acknowledges a
  report it remembers without looking further, so what it remembers must be kept.
  Results: `TypeCorrect`, `AnnouncesOnceStored`, `SpoolKeeps`, `AcksHold`.
- **Client** (`ClientRuntimeProofs`). `Inv` is `TypeOK`, that an open iterator
  belongs to a cycle (`IteratorInCycle`), and that whoever waits for a load has
  one in the air (`PendingIsFlown`). The parts need each other: a load that
  claims to span the current cycle must have lost the claim by the end of the
  cycle, and ends of cycles are reached only through an iterator. The handlers
  share `CycleOver`, `RefreshWith` and `NextFlight`; each has a lemma, and the
  steps cite it. Results: `TypeCorrect`, `RequestsAreFlown`, and
  `StoppedIsFrozen`, which needs `IteratorInCycle`: once the cycle is over no
  iterator is being opened, so no event can reach a listener.
- **The client at rest.** As long as nothing was missed, what the copy lacks is
  on its way (`CurrentInv`): an agent state is the copy's, or the last agent event
  of the wire brings it, or a load that has read it or will; the rest is the
  copy's, or announced on the wire, or asked for by a request that waits or flies. A load that
  read before an event and answers after it would put an older state back; the
  invariant follows `mutated` and the request the code adds in that case. The
  wire is unbounded, so its lemmas are about what an append and a read keep of its
  last agent event (`WireGrows`, `WireShrinks`). Result: `RestIsCurrent`.
- **Observer process** (`ObserverProcessProofs`). `OneServes` is about the moment
  of a bind, the hazard about checks made long before it. `IInv` carries the
  knowledge in between: who is about to remove a file has met a leftover or a
  mistaken check (`RemovalIsNoted`, `LeftoverIsNoted`), a starter that is not yet
  past its spawn has no observer (`SpawnsLast`), a hook goes for the lock at most
  twice (`AttemptsCounted`), and as long as the lock was not broken, whoever is
  on its way up is alone, under the lock of its hook, and nobody listens
  (`LockHolds`). Results: `TypeCorrect`, `LockKeepsStartsApart`,
  `OneObserverServes`.
- **Starts that succeed.** Both remaining properties assume that nothing else goes
  wrong, so their invariant says what cannot happen then: nobody stops, dies or
  loses a lock (`NothingStops`). An empty path has somebody on the way to bind it
  or nobody who started (`PathIsRefilled`): whoever unlinks a file spawns or binds
  next, so racing starts never leave the path empty. On an undisturbed machine the hook that
  spawns is the only one, and whoever spawned waits under its lock until an
  observer answers (`OneHookSpawns`). Results: `HooksDeliver`, `RacesLeaveOne`.
- **Session commands** (`SessionCommandsProofs`). The properties speak of the end
  of a handler; `CommandsInv` says what each of its steps may rely on. The
  identities come first: windows are numbered as they are opened and never come
  back (`PanesInv`), an agent runs where its maker launched it and nowhere else
  (`HomesInv`), a command makes a worktree once (`MadeOnce`), and a call that may
  still take effect belongs to a handler that is accounted for as `spoilt`
  (`LateInv`). Without them a window or a worktree could be undone and turn up
  again under the same name. On top of that: what is left of a launch on its way
  back (`RollbackInv`), of a window a cleanup has closed (`CloseInv`), and that
  every row read since a handler acted tells of it, the one shown and the one a
  reconcile is about to show (`ShownInv`). `DoneIsShown` was first stated with
  the worktree alone, and the search for its invariant refuted that: a create whose
  worktree is removed by a second command and created again by a third is shown
  without its window. It now distinguishes who made the worktree that is there.
  The lemmas go from the world (what one call may do to it) over steps to the
  parts of the invariant. Results: `CommandsCorrect`, `FailedLaunch`,
  `CleanupsKeep`, `DoneShown`.
- **Dashboard operations** (`DashboardOperationsProofs`). Whether a failure has
  been told is spread over four things: the end of the operation, the event on
  the wire, the row that carries the command's id and the set of handled ids.
  `IInv` relates them: a failed event is published once, of a command that failed
  (`FailedFollows`); a row with an operation's id is of its kind and name, there
  is none before the receipt and none after an end that told, unless the event is
  already read (`RowsFollow`); and an operation is told at most once by its end
  and once by its event (`TellingFollows`). Steps of the client, of the keys, of
  the observer and of everything else have one lemma each (`LocalStep`,
  `BeginStep`, `RemoteStep`, `StillStep`) from which the actions' lemmas follow.
  Results: `TypeCorrect`, `FailuresAreTold`.
- **The dashboard at rest.** `RestInv` stands on `IInv`. Without an announcement on
  the wire and a snapshot wanted, the copy is the row, and every patch behind the
  last announcement leaves the row as it is, unless one was overtaken
  (`CopyFollows`): what a command publishes after its reconcile says what the
  reconcile has shown, and a row that changes is announced after the change. A row
  without an id has an operation on its way that will bind or clear it, whoever
  added it (`UnboundIsOnItsWay`); only a command that succeeded leaves rows behind
  (`EndsTakeRows`); and a row left behind was looked at by the last event or
  snapshot and found to be due, or its command's success is still to be announced
  (`RowsAreDue`). Result: `RestsClean`.

Proved without a run of their own: `EventsFollowRows`,
`SuccessMeansHandlerSettled`, `FinalRowStays`, `TimerOrFlush`, `TimerHasWork`,
`PendingIsFlown`, `LockHolds`. Each is a part of, or follows from, an invariant
above.

Only model-checked: liveness (`ChainedCommandLeaves`, `ShutdownCloses`,
`DrainEnds`, `QueuedIsWorkedOff`, `ShutdownEnds`, `AckedReachesStore`,
`ListedIsDelivered`, `DrainsLeadToReconcile`, `ComesToRest`, `RefreshSettles`,
`ResyncsOrParks`, `WokenStopReturns`), which is beyond the proof system: it has no
rule for fairness and `ENABLED`. The two refuted claims of section 4 are TLC's counterexamples.

## 6. What is left

1. Raw provider hooks in `IngressDelivery`: ingestion.ts:104 records and dedupes a
   hook before the provider ingests it, so after a crash in between the resend is
   deduped and the provider never sees it. Next to `ObserverCore` the metadata
   refresh (metadata/refresh.ts:96), which works on the snapshot that was pending
   when it started while newer ones arrive, and the event hooks.
2. Proofs: the safety half of the other liveness properties, where there is one (who
   is acknowledged has a way into the store), as invariants;
   that `IngressDelivery` implements `HarnessIngressQueue` across restarts is used in its
   proofs step by step and not stated as a theorem of its own.

Not planned: the integrations beyond what the commands need of them (adapters to
external programs, seen as answers that may fail), diagnostics, configuration and
schemas, the CLI's other commands, key handling, layout and rendering, and the
experimental station: they hold no state that concurrent actors share. They are
most of the repository's lines.

## 7. Running

    tlc -workers 2 -config CommandQueueSafety.cfg CommandQueueMC
    tlapm CommandQueueProofs.tla

The other runs pair a `.cfg` with the module `PROJECT.json` names. The longest
(`IngressDeliveryShared`, `IngressDeliverySafety`, `CommandQueueSafety`,
`SessionCommands`, `DashboardOperations`) take one to three minutes with two
workers.
