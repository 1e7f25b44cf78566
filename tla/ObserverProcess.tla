-------------------------- MODULE ObserverProcess --------------------------
(***************************************************************************)
(* One observer behind one socket path. Hook processes that could not      *)
(* deliver start an observer under a lock directory                        *)
(* (packages/provider-hooks: deliveryPolicy.ts, observerStartup.ts), the   *)
(* wosm command starts, stops and restarts it without that lock            *)
(* (apps/cli: observerProcess.ts), and every observer takes the path over  *)
(* with a check, an unlink and a bind, and gives it back when it closes    *)
(* (packages/protocol: transport.ts, apps/observer: main.ts, server.ts).   *)
(* A process and a socket file are what the kernel keeps of them: the file *)
(* at the path leads to the process that made it, also after its death.    *)
(***************************************************************************)
EXTENDS Naturals, FiniteSets

CONSTANTS Hook,       \* hook processes, each with one event to deliver
          Cli,        \* wosm processes
          Former,     \* an observer or a hook of the past that died without cleaning up
          None,       \* no process, no starter
          MaxFaults   \* bound: deaths, failed steps and checks that time out

Starter == Hook \cup Cli

(* A starter spawns at most one observer, which goes by its name here. *)
Process == Starter

ASSUME ObserverProcessAssumption ==
  /\ MaxFaults \in Nat
  /\ Hook \cap Cli = {} /\ Former # None
  /\ {Former, None} \cap Starter = {}

VARIABLES socket,     \* the process whose socket file lies at the path
          at,         \* observer processes: what each is doing
          stop,       \* observer processes: whether stopObserver was asked for, or is past server?.close()
          lock,       \* the hook that made the lock directory
          lockOld,    \* the directory is older than staleMs
          starter,    \* hook and wosm processes: what each is doing
          broken,     \* locks a hook has removed as stale
          incidents,  \* history: what has gone wrong so far
          faults

observerVars == <<at, stop>>
lockVars == <<lock, lockOld, broken>>
vars == <<socket, observerVars, lockVars, starter, incidents, faults>>

ObserverState == {"none", "checking", "unlinking", "binding", "starting", "serving",
                  "headless", "zombie", "sweeping", "unsweeping", "ended"}
HookEnd == {"delivered", "spooled", "lost", "killed"}
CliEnd == {"done", "failed"}
(* A hook inside its try block, which releases the lock directory. *)
UnderLock == {"checking", "asking", "removing", "unlinking", "spawning", "waiting",
              "releasing", "releasingFailed", "releasingLost"}
HookState == {"idle", "locking", "stat", "breaking", "contending", "retrying"}
             \cup UnderLock \cup HookEnd
CliState == {"idle", "checking", "checkingFile", "asking", "askingFile", "removing",
             "unlinking", "spawning", "waiting", "stopping"} \cup CliEnd
(* A socket file without a listener, a check that took a live observer for   *)
(* dead, a start or a cleanup that the lock does not hold back or no longer  *)
(* does, and any other trouble.                                              *)
Incident == {"leftover", "doubt", "unlocked", "trouble"}

TypeOK ==
  /\ socket \in Process \cup {Former, None}
  /\ at \in [Process -> ObserverState]
  /\ stop \in [Process -> {"no", "asked", "down"}]
  /\ lock \in Hook \cup {Former, None} /\ lockOld \in BOOLEAN
  /\ starter \in [Starter -> HookState \cup CliState]
  /\ \A h \in Hook : starter[h] \in HookState
  /\ \A c \in Cli : starter[c] \in CliState
  /\ broken \in [Hook -> 0..2]
  /\ incidents \in SUBSET Incident
  /\ faults \in 0..MaxFaults

(* A machine with nothing running; its last observer may have died and left *)
(* its socket file, and a hook the lock directory.                          *)
Init ==
  /\ \/ socket = None /\ incidents = {}
     \/ socket = Former /\ incidents = {"leftover"}
  /\ at = [p \in Process |-> "none"]
  /\ stop = [p \in Process |-> "no"]
  /\ lock \in {None, Former} /\ lockOld = FALSE
  /\ starter = [s \in Starter |-> "idle"]
  /\ broken = [h \in Hook |-> 0]
  /\ faults = 0

(* The socket accepts connections, and the process answers health. *)
Listening(p) == p \in Process /\ at[p] \in {"starting", "serving", "headless", "zombie"}
Answers == Listening(socket)
Leftover == socket # None /\ ~Listening(socket)
(* An observer takes reports until stop() shuts its ingress queue down. *)
Accepts == Answers /\ stop[socket] = "no"

Happened(what) == incidents' = incidents \cup what
Fault(what) == faults < MaxFaults /\ faults' = faults + 1 /\ Happened(what \cup {"trouble"})
Smoothly == UNCHANGED <<incidents, faults>>
Become(p, s) == at' = [at EXCEPT ![p] = s]
Goto(s, x) == starter' = [starter EXCEPT ![s] = x]

-----------------------------------------------------------------------------
(* An observer: listenUnixSocket, startObserverServer, main, stopObserver. *)

(* Mutant: listenUnixSocket removes whatever file it finds. *)
CheckPathTakesAll(p) ==
  /\ at[p] = "checking"
  /\ Become(p, IF socket # None THEN "unlinking" ELSE "binding")
  /\ UNCHANGED <<socket, stop, lockVars, starter>> /\ Smoothly

(* isSocketStale before the bind: lstat, then a connection. *)
CheckPath(p) ==
  /\ at[p] = "checking"
  /\ Become(p, IF Leftover THEN "unlinking" ELSE "binding")
  /\ UNCHANGED <<socket, stop, lockVars, starter>> /\ Smoothly

(* The connection to a live socket takes longer than its 100 ms. *)
CheckPathTimesOut(p) ==
  /\ at[p] = "checking" /\ Answers
  /\ Become(p, "unlinking")
  /\ Fault({"doubt"})
  /\ UNCHANGED <<socket, stop, lockVars, starter>>

(* The file is removed whoever has made it by now; without one unlink throws. *)
UnlinkPath(p) ==
  /\ at[p] = "unlinking"
  /\ Become(p, IF socket = None THEN "ended" ELSE "binding")
  /\ socket' = None
  /\ UNCHANGED <<stop, lockVars, starter>> /\ Smoothly

(* EADDRINUSE when the path is taken, else the socket accepts at once. *)
Bind(p) ==
  /\ at[p] = "binding"
  /\ IF socket = None THEN socket' = p /\ Become(p, "starting")
                      ELSE UNCHANGED socket /\ Become(p, "ended")
  /\ UNCHANGED <<stop, lockVars, starter>> /\ Smoothly

(* The startup reconcile ends and main installs its signal handlers. When a *)
(* stop has gone past server?.close() meanwhile, sqlite closes and the      *)
(* socket stays open.                                                       *)
Started(p) ==
  /\ at[p] = "starting"
  /\ Become(p, IF stop[p] = "down" THEN "zombie" ELSE "serving")
  /\ UNCHANGED <<socket, stop, lockVars, starter>> /\ Smoothly

(* The startup reconcile throws out of startObserverServer: main rejects *)
(* and nobody holds the server that listens.                             *)
StartupReconcileThrows(p) ==
  /\ at[p] = "starting"
  /\ Become(p, "headless")
  /\ Fault({})
  /\ UNCHANGED <<socket, stop, lockVars, starter>>

(* stopObserver reaches server?.close(). Closing the handle unlinks the    *)
(* path, whoever owns the file there; without a server nothing is closed.  *)
Close(p) ==
  /\ stop[p] = "asked" /\ at[p] \in {"starting", "serving", "headless"}
  /\ stop' = [stop EXCEPT ![p] = "down"]
  /\ IF at[p] = "serving"
     THEN socket' = None /\ Become(p, "sweeping") /\ Happened({"unlocked"})
     ELSE UNCHANGED <<socket, at, incidents>>
  /\ UNCHANGED <<lockVars, starter, faults>>

(* closeServer's removeStaleSocket, then sqlite closes and main returns. *)
Sweep(p) ==
  /\ \/ at[p] = "sweeping" /\ Become(p, IF Leftover THEN "unsweeping" ELSE "ended")
        /\ UNCHANGED socket
     \/ at[p] = "unsweeping" /\ Become(p, "ended") /\ socket' = None
  /\ UNCHANGED <<stop, lockVars, starter>> /\ Smoothly

(* The process dies; its socket file stays. *)
Live(p) == at[p] \notin {"none", "ended"}
Crash(p) ==
  /\ Live(p)
  /\ Become(p, "ended")
  /\ Fault(IF socket = p THEN {"leftover"} ELSE {})
  /\ UNCHANGED <<socket, stop, lockVars, starter>>

(* child.kill(): before main has installed its handlers the signal kills; *)
(* afterwards it asks for a stop, once.                                   *)
Killed(p) ==
  IF at[p] \in {"serving", "zombie", "sweeping", "unsweeping"}
  THEN /\ stop' = IF stop[p] = "no" THEN [stop EXCEPT ![p] = "asked"] ELSE stop
       /\ UNCHANGED at
  ELSE Become(p, "ended") /\ UNCHANGED stop

-----------------------------------------------------------------------------
(* A hook: deliverProviderHookWithSpooling around acquireAutoStartLock. *)

FirstDelivery(h) ==
  /\ starter[h] = "idle"
  /\ Goto(h, IF Accepts THEN "delivered" ELSE "locking")
  /\ UNCHANGED <<socket, observerVars, lockVars>> /\ Smoothly

(* Mutant: mkdir with recursive, which an existing directory satisfies. *)
MakeLockRecursive(h) ==
  /\ starter[h] = "locking"
  /\ lock' = h /\ lockOld' = FALSE
  /\ Goto(h, "checking")
  /\ UNCHANGED <<socket, observerVars, broken>> /\ Smoothly

(* mkdir makes the directory or finds it there. *)
MakeLock(h) ==
  /\ starter[h] = "locking"
  /\ IF lock = None THEN lock' = h /\ lockOld' = FALSE /\ Goto(h, "checking")
                    ELSE UNCHANGED <<lock, lockOld>> /\ Goto(h, "stat")
  /\ UNCHANGED <<socket, observerVars, broken>> /\ Smoothly

(* mkdir fails otherwise, of the directory or of its parent. *)
MakeLockFails(h) ==
  /\ starter[h] = "locking"
  /\ Goto(h, "spooled")
  /\ Fault({})
  /\ UNCHANGED <<socket, observerVars, lockVars>>

(* isAutoStartLockStale: a directory that is gone counts as stale. *)
StatLock(h) ==
  /\ starter[h] = "stat"
  /\ Goto(h, IF lock = None \/ lockOld THEN "breaking" ELSE "contending")
  /\ UNCHANGED <<socket, observerVars, lockVars>> /\ Smoothly

(* A lock that some hook of today has made. *)
TakenFrom(owner) == IF owner \in Hook THEN {"unlocked", "trouble"} ELSE {}

(* Mutant: the loop counts an attempt twice. *)
BreakLockCountsTwice(h) ==
  /\ starter[h] = "breaking"
  /\ lock' = None /\ lockOld' = FALSE
  /\ broken' = [broken EXCEPT ![h] = @ + 2]
  /\ Goto(h, IF broken[h] = 0 THEN "locking" ELSE "contending")
  /\ Happened(TakenFrom(lock))
  /\ UNCHANGED <<socket, observerVars, faults>>

(* rm of the directory that lies there by now; after the second one the *)
(* hook counts as contended.                                            *)
BreakLock(h) ==
  /\ starter[h] = "breaking"
  /\ lock' = None /\ lockOld' = FALSE
  /\ broken' = [broken EXCEPT ![h] = @ + 1]
  /\ Goto(h, IF broken[h] = 0 THEN "locking" ELSE "contending")
  /\ Happened(TakenFrom(lock))
  /\ UNCHANGED <<socket, observerVars, faults>>

(* The finally block: rm, whoever has made the directory. *)
Release(h) ==
  /\ lock' = None /\ lockOld' = FALSE
  /\ \/ starter[h] = "releasing" /\ Goto(h, "retrying")
     \/ starter[h] = "releasingFailed" /\ Goto(h, "spooled")
     \/ starter[h] = "releasingLost" /\ Goto(h, "lost")
  /\ UNCHANGED <<socket, observerVars, broken>> /\ Smoothly

(* waitForContendedAutoStart. *)
ContendedHealth(h) ==
  /\ starter[h] = "contending" /\ Answers
  /\ Goto(h, "retrying")
  /\ UNCHANGED <<socket, observerVars, lockVars>> /\ Smoothly

SecondDelivery(h) ==
  /\ starter[h] = "retrying"
  /\ Goto(h, IF Accepts THEN "delivered" ELSE "spooled")
  /\ UNCHANGED <<socket, observerVars, lockVars>> /\ Smoothly

(* A hook is killed by the agent that ran it, wosm by its user. *)
StarterDies(s) ==
  /\ starter[s] \notin HookEnd \cup CliEnd \cup {"idle"}
  /\ Goto(s, IF s \in Hook THEN "killed" ELSE "failed")
  /\ Fault({})
  /\ UNCHANGED <<socket, observerVars, lockVars>>

(* Time: the directory becomes older than staleMs. *)
LockAges ==
  /\ lock # None /\ ~lockOld
  /\ lockOld' = TRUE
  /\ UNCHANGED <<socket, observerVars, lock, broken, starter>> /\ Smoothly

-----------------------------------------------------------------------------
(* Hook and wosm alike: startProviderHookObserver, startObserver. *)

Success(s) == IF s \in Hook THEN "releasing" ELSE "done"
Failure(s) == IF s \in Hook THEN "releasingFailed" ELSE "failed"

(* Mutant: a stale socket counts as an unhealthy observer. *)
StaleIsUnhealthy(s) ==
  /\ \/ starter[s] = "checking" /\ Goto(s, IF Leftover THEN Failure(s) ELSE "asking")
     \/ starter[s] = "checkingFile" /\ Goto(s, IF Leftover THEN "failed" ELSE "askingFile")
  /\ UNCHANGED <<socket, observerVars, lockVars>> /\ Smoothly

(* isSocketStale. wosm has looked before whether there is a file. *)
CheckStatus(s) ==
  /\ \/ starter[s] = "checking" /\ Goto(s, IF Leftover THEN "removing" ELSE "asking")
     \/ starter[s] = "checkingFile" /\ Goto(s, IF Leftover THEN "removing" ELSE "askingFile")
  /\ UNCHANGED <<socket, observerVars, lockVars>> /\ Smoothly

CheckStatusTimesOut(s) ==
  /\ starter[s] \in {"checking", "checkingFile"} /\ Answers
  /\ Goto(s, "removing")
  /\ Fault({"doubt"})
  /\ UNCHANGED <<socket, observerVars, lockVars>>

(* The health call. When it fails, wosm leaves alone a socket it saw. *)
AskHealth(s) ==
  /\ \/ starter[s] \in {"asking", "askingFile"} /\ Answers /\ Goto(s, Success(s))
     \/ starter[s] = "asking" /\ ~Answers /\ Goto(s, "spawning")
     \/ starter[s] = "askingFile" /\ ~Answers /\ Goto(s, "failed")
  /\ UNCHANGED <<socket, observerVars, lockVars>> /\ Smoothly

AskHealthTimesOut(s) ==
  /\ Answers
  /\ \/ starter[s] = "asking" /\ Goto(s, "spawning")
     \/ starter[s] = "askingFile" /\ Goto(s, "failed")
  /\ Fault({"doubt"})
  /\ UNCHANGED <<socket, observerVars, lockVars>>

(* removeStaleSocket looks once more, and a start goes on either way. *)
CheckAgain(s) ==
  /\ starter[s] = "removing"
  /\ Goto(s, IF Leftover THEN "unlinking" ELSE "spawning")
  /\ UNCHANGED <<socket, observerVars, lockVars>> /\ Smoothly

CheckAgainTimesOut(s) ==
  /\ starter[s] = "removing" /\ Answers
  /\ Goto(s, "unlinking")
  /\ Fault({"doubt"})
  /\ UNCHANGED <<socket, observerVars, lockVars>>

(* Without a file unlink throws, outside of the boundary that turns failures *)
(* into results: a hook then ends with a rejected receipt.                   *)
UnlinkStale(s) ==
  /\ starter[s] = "unlinking"
  /\ Goto(s, IF socket # None THEN "spawning"
             ELSE IF s \in Hook THEN "releasingLost" ELSE "failed")
  /\ socket' = None
  /\ UNCHANGED <<observerVars, lockVars>> /\ Smoothly

Spawn(s) ==
  /\ starter[s] = "spawning"
  /\ Become(s, "checking")
  /\ Goto(s, "waiting")
  /\ UNCHANGED <<socket, stop, lockVars>> /\ Smoothly

SpawnFails(s) ==
  /\ starter[s] = "spawning"
  /\ Goto(s, Failure(s))
  /\ Fault({})
  /\ UNCHANGED <<socket, observerVars, lockVars>>

(* Whoever answers at the path counts. *)
Healthy(s) ==
  /\ starter[s] = "waiting" /\ Answers
  /\ Goto(s, Success(s))
  /\ UNCHANGED <<socket, observerVars, lockVars>> /\ Smoothly

(* The startup timeout; a contended hook has no child to kill. *)
GiveUp(s) ==
  /\ \/ starter[s] = "waiting" /\ Goto(s, Failure(s)) /\ Killed(s)
     \/ starter[s] = "contending" /\ Goto(s, "spooled") /\ UNCHANGED observerVars
  /\ Happened({"trouble"} \cup (IF Answers /\ at'[socket] = "ended" THEN {"leftover"} ELSE {}))
  /\ UNCHANGED <<socket, lockVars, faults>>

-----------------------------------------------------------------------------
(* wosm: startObserver, stopObserver, restartObserver. *)

(* startObserver begins with socketPathExists. *)
LookForFile(c) == Goto(c, IF socket = None THEN "checking" ELSE "checkingFile")

CliStart(c) ==
  /\ starter[c] = "idle"
  /\ LookForFile(c)
  /\ Happened({"unlocked"})
  /\ UNCHANGED <<socket, observerVars, lockVars, faults>>

(* client.stop(): the observer's api answers before it begins to stop. *)
CliStop(c) ==
  /\ starter[c] = "idle" /\ Answers
  /\ stop' = IF stop[socket] = "no" THEN [stop EXCEPT ![socket] = "asked"] ELSE stop
  /\ Goto(c, "stopping")
  /\ Happened({"trouble"})
  /\ UNCHANGED <<socket, at, lockVars, faults>>

(* Nobody answers any more: a stop is done, a restart goes on to start. *)
StopSeen(c) ==
  /\ starter[c] = "stopping" /\ ~Answers
  /\ \/ Goto(c, "done") /\ UNCHANGED incidents
     \/ LookForFile(c) /\ Happened({"unlocked"})
  /\ UNCHANGED <<socket, observerVars, lockVars, faults>>

StopTimesOut(c) ==
  /\ starter[c] = "stopping"
  /\ Goto(c, "failed")
  /\ UNCHANGED <<socket, observerVars, lockVars>> /\ Smoothly
-----------------------------------------------------------------------------
ObserverStep(p) ==
  \/ CheckPath(p) \/ UnlinkPath(p) \/ Bind(p) \/ Started(p) \/ Close(p) \/ Sweep(p)
LockStep(h) ==
  \/ FirstDelivery(h) \/ MakeLock(h) \/ StatLock(h) \/ BreakLock(h) \/ Release(h)
  \/ ContendedHealth(h) \/ SecondDelivery(h)
StartStep(s) ==
  \/ CheckStatus(s) \/ AskHealth(s) \/ CheckAgain(s) \/ UnlinkStale(s) \/ Spawn(s) \/ Healthy(s) \/ GiveUp(s)
CliStep(c) == CliStart(c) \/ CliStop(c) \/ StopSeen(c) \/ StopTimesOut(c)
Misfortune ==
  \/ \E p \in Process : CheckPathTimesOut(p) \/ StartupReconcileThrows(p) \/ Crash(p)
  \/ \E h \in Hook : MakeLockFails(h)
  \/ \E s \in Starter : \/ CheckStatusTimesOut(s) \/ AskHealthTimesOut(s)
                         \/ CheckAgainTimesOut(s) \/ SpawnFails(s) \/ StarterDies(s)
  \/ LockAges

Next ==
  \/ \E p \in Process : ObserverStep(p)
  \/ \E h \in Hook : LockStep(h)
  \/ \E s \in Starter : StartStep(s)
  \/ \E c \in Cli : CliStep(c)
  \/ Misfortune

Spec == Init /\ [][Next]_vars
-----------------------------------------------------------------------------
(* Properties. *)

(* Two observers never listen at the same time, and the one that does is   *)
(* reached through the path. What can break it is a check that took a live *)
(* observer for dead, or a leftover socket file while the lock does not    *)
(* keep those that remove it apart: wosm starts without it, an observer    *)
(* that closes cleans up without it, and a hook may have taken it away.    *)
OneServes ==
  \A p \in Process : Listening(p) /\ socket # p =>
    \/ "doubt" \in incidents
    \/ {"leftover", "unlocked"} \subseteq incidents

(* Auto-start on an undisturbed machine, after an observer that died or     *)
(* beside a wosm that starts one: however many hooks fail to deliver at     *)
(* once, at most one of them spawns an observer, and none of their events   *)
(* is spooled or lost (deliveryPolicy.ts:58-75 and 150-232).                *)
AutoStartDelivers ==
  incidents \subseteq {"leftover"} \/ incidents \subseteq {"unlocked"} =>
    /\ \A g, h \in Hook : at[g] # "none" /\ at[h] # "none" => g = h
    /\ \A h \in Hook : starter[h] \notin {"spooled", "lost"}

(* Every start has come to its end, and no observer is on its way up or down. *)
Quiet ==
  /\ \A s \in Starter : starter[s] \in {"idle"} \cup HookEnd \cup CliEnd
  /\ \A p \in Process : at[p] \in {"none", "serving", "zombie", "headless", "ended"}

(* Starts that race for the path, with or without the lock and around a    *)
(* leftover socket file, leave one that takes reports: they may unlink     *)
(* each other's files and fail each other, but never all of each other.    *)
SomebodyServes ==
  Quiet /\ (\E s \in Starter : starter[s] # "idle") /\ "trouble" \notin incidents => Accepts
-----------------------------------------------------------------------------
(* The inductive strengthening behind the theorems of ObserverProcessProofs. *)

AttemptsCounted ==
  \A h \in Hook : starter[h] \in {"idle", "locking", "stat", "breaking"} => broken[h] <= 1

SpawnsLast ==
  \A s \in Starter :
    starter[s] \in {"idle", "locking", "stat", "breaking", "contending", "stopping",
                   "checking", "checkingFile", "asking", "askingFile",
                   "removing", "unlinking", "spawning"} => at[s] = "none"

LeftoverIsNoted == Leftover => "leftover" \in incidents

(* Only who met a socket file without a listener, or doubted one, removes it. *)
RemovalIsNoted ==
  (\E s \in Starter : starter[s] \in {"removing", "unlinking"})
    \/ (\E p \in Process : at[p] \in {"unlinking", "unsweeping"})
  => incidents \cap {"leftover", "doubt"} # {}

Arriving(p) == at[p] \in {"checking", "unlinking", "binding"}
Silent == \A p \in Process : ~Listening(p)

(* While the lock holds: only hooks start observers, one at a time, under   *)
(* the lock, when nobody listens; the observer of a hook that was killed is *)
(* still covered by the lock it left.                                       *)
LockedStart ==
  /\ \A c \in Cli : starter[c] \in {"idle", "stopping"} \cup CliEnd /\ at[c] = "none"
  /\ \A h \in Hook : starter[h] \in UnderLock => lock = h
  /\ \A h \in Hook : starter[h] \in {"removing", "unlinking", "spawning"} => Silent
  /\ \A p \in Process : Arriving(p) =>
       Silent /\ lock = p /\ starter[p] \in {"waiting", "killed"}
  /\ \A p \in Process : at[p] \notin {"sweeping", "unsweeping"}

LockHolds == incidents \cap {"unlocked", "doubt"} = {} => LockedStart

(* Somebody will bind the path, or find that somebody else did. *)
OnTheWay == \/ \E p \in Process : at[p] \in {"checking", "binding"}
            \/ \E s \in Starter : starter[s] = "spawning"

(* What a starter does before it has met a socket file or an observer. *)
Beginning == {"idle", "locking", "stat", "breaking", "contending", "checking"}

(* While nothing dies, fails or times out and nobody stops an observer: no  *)
(* lock is taken from a hook, and no observer leaves or removes a file.     *)
NothingStops ==
  /\ "doubt" \notin incidents
  /\ \A p \in Process : stop[p] = "no" /\ at[p] \in {"none", "checking", "binding", "starting", "serving", "ended"}
  /\ \A s \in Starter : starter[s] \notin {"stopping", "killed"}
  /\ \A h \in Hook : starter[h] \in UnderLock => lock = h
  /\ socket \in Process => Listening(socket)

(* A leftover file stops everybody before the first observer, and whoever   *)
(* unlinks a file is on the way to bind its own.                            *)
PathIsRefilled ==
  /\ socket = Former =>
       /\ \A p \in Process : at[p] = "none"
       /\ \A s \in Starter : starter[s] \in Beginning \cup {"checkingFile", "removing", "unlinking"}
  /\ socket = None =>
       OnTheWay \/ \A s \in Starter : at[s] = "none" /\ starter[s] \in Beginning \cup {"asking"}

Untroubled == "trouble" \notin incidents => NothingStops /\ PathIsRefilled

(* On an undisturbed machine a hook that spawns is the first, and who has   *)
(* spawned waits under the lock until an observer answers.                  *)
OneHookSpawns ==
  /\ \A h \in Hook : starter[h] = "spawning" => \A g \in Hook : at[g] = "none"
  /\ \A h \in Hook : at[h] # "none" => Answers \/ starter[h] = "waiting"
  /\ \A h \in Hook : starter[h] \in {"releasing", "retrying"} => Answers
  /\ \A h \in Hook : starter[h] \notin {"releasingFailed", "releasingLost", "spooled", "lost"}
  /\ \A g, h \in Hook : at[g] # "none" /\ at[h] # "none" => g = h

Undisturbed == incidents \subseteq {"leftover"} \/ incidents \subseteq {"unlocked"} => OneHookSpawns
=============================================================================
