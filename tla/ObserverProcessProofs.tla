----------------------- MODULE ObserverProcessProofs -----------------------
(***************************************************************************)
(* For every number of hooks, wosm processes and faults: the types of      *)
(* ObserverProcess, the auto-start lock, and that one observer serves. The *)
(* invariant says who is about to remove a socket file and why, and what   *)
(* the lock keeps apart while it is not broken; each lemma carries one of  *)
(* its parts over a step.  A second invariant follows an untroubled start: *)
(* a hook delivers, and racing starts leave an observer that serves.       *)
(***************************************************************************)
EXTENDS ObserverProcess, TLAPS

IInv == /\ TypeOK /\ AttemptsCounted /\ SpawnsLast
        /\ LeftoverIsNoted /\ RemovalIsNoted /\ LockHolds /\ OneServes

(* Every step keeps the types. *)
LEMMA TypeStep == ASSUME IInv, [Next]_vars PROVE TypeOK'
<1> USE ObserverProcessAssumption DEF Process, Starter, Goto, Become,
        Smoothly, Happened, Fault, IInv, observerVars, lockVars, TypeOK,
        ObserverState, HookState, CliState, UnderLock, HookEnd, CliEnd,
        Incident, Success, Failure
<1>1. ASSUME NEW p \in Process, CheckPath(p) PROVE TypeOK'
  BY <1>1 DEF CheckPath
<1>2. ASSUME NEW p \in Process, UnlinkPath(p) PROVE TypeOK'
  BY <1>2 DEF UnlinkPath
<1>3. ASSUME NEW p \in Process, Bind(p) PROVE TypeOK'
  BY <1>3 DEF Bind
<1>4. ASSUME NEW p \in Process, Started(p) PROVE TypeOK'
  BY <1>4 DEF Started
<1>5. ASSUME NEW p \in Process, Close(p) PROVE TypeOK'
  BY <1>5 DEF Close
<1>6. ASSUME NEW p \in Process, Sweep(p) PROVE TypeOK'
  BY <1>6 DEF Sweep
<1>7. ASSUME NEW h \in Hook, FirstDelivery(h) PROVE TypeOK'
  BY <1>7 DEF FirstDelivery
<1>8. ASSUME NEW h \in Hook, MakeLock(h) PROVE TypeOK'
  <2>1. lock' \in Hook \cup {Former, None} /\ lockOld' \in BOOLEAN
    BY <1>8 DEF MakeLock
  <2>2. \E x \in {"checking", "stat"} : starter' = [starter EXCEPT ![h] = x]
    BY <1>8 DEF MakeLock
  <2>3. starter' \in [Starter -> HookState \cup CliState]
    BY <2>2
  <2>4. (\A g \in Hook : starter'[g] \in HookState) /\ (\A c \in Cli : starter'[c] \in CliState)
    BY <2>2
  <2>5. QED
    BY <1>8, <2>1, <2>3, <2>4 DEF MakeLock
<1>9. ASSUME NEW h \in Hook, StatLock(h) PROVE TypeOK'
  BY <1>9 DEF StatLock
<1>10. ASSUME NEW h \in Hook, BreakLock(h) PROVE TypeOK'
  <2>1. broken' \in [Hook -> 0..2]
    BY <1>10 DEF BreakLock, AttemptsCounted
  <2>2. incidents' \in SUBSET Incident
    BY <1>10 DEF BreakLock, TakenFrom
  <2>3. QED
    BY <1>10, <2>1, <2>2 DEF BreakLock
<1>11. ASSUME NEW h \in Hook, Release(h) PROVE TypeOK'
  <2>1. \E x \in {"retrying", "spooled", "lost"} : starter' = [starter EXCEPT ![h] = x]
    BY <1>11 DEF Release
  <2>2. starter' \in [Starter -> HookState \cup CliState]
    BY <2>1
  <2>3. (\A g \in Hook : starter'[g] \in HookState) /\ (\A c \in Cli : starter'[c] \in CliState)
    BY <2>1
  <2>4. QED
    BY <1>11, <2>2, <2>3 DEF Release
<1>12. ASSUME NEW h \in Hook, ContendedHealth(h) PROVE TypeOK'
  BY <1>12 DEF ContendedHealth
<1>13. ASSUME NEW h \in Hook, SecondDelivery(h) PROVE TypeOK'
  BY <1>13 DEF SecondDelivery
<1>14. ASSUME NEW s \in Starter, CheckStatus(s) PROVE TypeOK'
  BY <1>14 DEF CheckStatus
<1>15. ASSUME NEW s \in Starter, AskHealth(s) PROVE TypeOK'
  BY <1>15 DEF AskHealth, Success
<1>16. ASSUME NEW s \in Starter, CheckAgain(s) PROVE TypeOK'
  BY <1>16 DEF CheckAgain
<1>17. ASSUME NEW s \in Starter, UnlinkStale(s) PROVE TypeOK'
  BY <1>17 DEF UnlinkStale
<1>18. ASSUME NEW s \in Starter, Spawn(s) PROVE TypeOK'
  BY <1>18 DEF Spawn
<1>19. ASSUME NEW s \in Starter, Healthy(s) PROVE TypeOK'
  BY <1>19 DEF Healthy, Success
<1>20. ASSUME NEW s \in Starter, GiveUp(s) PROVE TypeOK'
  BY <1>20 DEF GiveUp, Killed, Live, Failure
<1>21. ASSUME NEW c \in Cli, CliStart(c) PROVE TypeOK'
  BY <1>21 DEF CliStart, LookForFile
<1>22. ASSUME NEW c \in Cli, CliStop(c) PROVE TypeOK'
  <2>1. stop' \in [Process -> {"no", "asked", "down"}]
    BY <1>22 DEF CliStop
  <2>2. starter' = [starter EXCEPT ![c] = "stopping"]
    BY <1>22 DEF CliStop
  <2>3. starter' \in [Starter -> HookState \cup CliState]
    BY <2>2
  <2>4. (\A g \in Hook : starter'[g] \in HookState) /\ (\A d \in Cli : starter'[d] \in CliState)
    BY <2>2
  <2>5. incidents' \in SUBSET Incident
    BY <1>22 DEF CliStop
  <2>6. QED
    BY <1>22, <2>1, <2>3, <2>4, <2>5 DEF CliStop
<1>23. ASSUME NEW c \in Cli, StopSeen(c) PROVE TypeOK'
  BY <1>23 DEF StopSeen, LookForFile
<1>24. ASSUME NEW c \in Cli, StopTimesOut(c) PROVE TypeOK'
  BY <1>24 DEF StopTimesOut
<1>25. ASSUME NEW p \in Process, CheckPathTimesOut(p) PROVE TypeOK'
  BY <1>25 DEF CheckPathTimesOut
<1>26. ASSUME NEW p \in Process, StartupReconcileThrows(p) PROVE TypeOK'
  BY <1>26 DEF StartupReconcileThrows
<1>27. ASSUME NEW p \in Process, Crash(p) PROVE TypeOK'
  BY <1>27 DEF Crash, Live
<1>28. ASSUME NEW h \in Hook, MakeLockFails(h) PROVE TypeOK'
  BY <1>28 DEF MakeLockFails
<1>29. ASSUME NEW s \in Starter, CheckStatusTimesOut(s) PROVE TypeOK'
  BY <1>29 DEF CheckStatusTimesOut
<1>30. ASSUME NEW s \in Starter, AskHealthTimesOut(s) PROVE TypeOK'
  BY <1>30 DEF AskHealthTimesOut
<1>31. ASSUME NEW s \in Starter, CheckAgainTimesOut(s) PROVE TypeOK'
  BY <1>31 DEF CheckAgainTimesOut
<1>32. ASSUME NEW s \in Starter, SpawnFails(s) PROVE TypeOK'
  BY <1>32 DEF SpawnFails, Failure
<1>33. ASSUME NEW s \in Starter, StarterDies(s) PROVE TypeOK'
  BY <1>33 DEF StarterDies
<1>34. CASE LockAges
  BY <1>34 DEF LockAges
<1>35. CASE UNCHANGED vars
  BY <1>35 DEF vars, observerVars, lockVars
<1>36. QED
  BY <1>1, <1>2, <1>3, <1>4, <1>5, <1>6, <1>7, <1>8, <1>9, <1>10, <1>11,
     <1>12, <1>13, <1>14, <1>15, <1>16, <1>17, <1>18, <1>19, <1>20, <1>21,
     <1>22, <1>23, <1>24, <1>25, <1>26, <1>27, <1>28, <1>29, <1>30, <1>31,
     <1>32, <1>33, <1>34, <1>35
     DEF Next, ObserverStep, LockStep, StartStep, CliStep, Misfortune

(* acquireAutoStartLock makes two attempts (deliveryPolicy.ts:199). *)
LEMMA AttemptsStep == ASSUME IInv, [Next]_vars PROVE AttemptsCounted'
<1> USE ObserverProcessAssumption DEF Process, Starter, Goto, Become,
        Smoothly, Happened, Fault, IInv, observerVars, lockVars, TypeOK,
        AttemptsCounted, Success, Failure, LookForFile
<1>1. ASSUME NEW p \in Process, CheckPath(p) PROVE AttemptsCounted'
  BY <1>1 DEF CheckPath
<1>2. ASSUME NEW p \in Process, UnlinkPath(p) PROVE AttemptsCounted'
  BY <1>2 DEF UnlinkPath
<1>3. ASSUME NEW p \in Process, Bind(p) PROVE AttemptsCounted'
  BY <1>3 DEF Bind
<1>4. ASSUME NEW p \in Process, Started(p) PROVE AttemptsCounted'
  BY <1>4 DEF Started
<1>5. ASSUME NEW p \in Process, Close(p) PROVE AttemptsCounted'
  BY <1>5 DEF Close
<1>6. ASSUME NEW p \in Process, Sweep(p) PROVE AttemptsCounted'
  BY <1>6 DEF Sweep
<1>7. ASSUME NEW h \in Hook, FirstDelivery(h) PROVE AttemptsCounted'
  BY <1>7 DEF FirstDelivery
<1>8. ASSUME NEW h \in Hook, MakeLock(h) PROVE AttemptsCounted'
  BY <1>8 DEF MakeLock
<1>9. ASSUME NEW h \in Hook, StatLock(h) PROVE AttemptsCounted'
  BY <1>9 DEF StatLock
<1>10. ASSUME NEW h \in Hook, BreakLock(h) PROVE AttemptsCounted'
  BY <1>10 DEF BreakLock, TakenFrom
<1>11. ASSUME NEW h \in Hook, Release(h) PROVE AttemptsCounted'
  BY <1>11 DEF Release
<1>12. ASSUME NEW h \in Hook, ContendedHealth(h) PROVE AttemptsCounted'
  BY <1>12 DEF ContendedHealth
<1>13. ASSUME NEW h \in Hook, SecondDelivery(h) PROVE AttemptsCounted'
  BY <1>13 DEF SecondDelivery
<1>14. ASSUME NEW s \in Starter, CheckStatus(s) PROVE AttemptsCounted'
  BY <1>14 DEF CheckStatus
<1>15. ASSUME NEW s \in Starter, AskHealth(s) PROVE AttemptsCounted'
  BY <1>15 DEF AskHealth, Success
<1>16. ASSUME NEW s \in Starter, CheckAgain(s) PROVE AttemptsCounted'
  BY <1>16 DEF CheckAgain
<1>17. ASSUME NEW s \in Starter, UnlinkStale(s) PROVE AttemptsCounted'
  BY <1>17 DEF UnlinkStale
<1>18. ASSUME NEW s \in Starter, Spawn(s) PROVE AttemptsCounted'
  BY <1>18 DEF Spawn
<1>19. ASSUME NEW s \in Starter, Healthy(s) PROVE AttemptsCounted'
  BY <1>19 DEF Healthy, Success
<1>20. ASSUME NEW s \in Starter, GiveUp(s) PROVE AttemptsCounted'
  BY <1>20 DEF GiveUp, Killed, Live, Failure
<1>21. ASSUME NEW c \in Cli, CliStart(c) PROVE AttemptsCounted'
  BY <1>21 DEF CliStart, LookForFile
<1>22. ASSUME NEW c \in Cli, CliStop(c) PROVE AttemptsCounted'
  BY <1>22 DEF CliStop
<1>23. ASSUME NEW c \in Cli, StopSeen(c) PROVE AttemptsCounted'
  BY <1>23 DEF StopSeen, LookForFile
<1>24. ASSUME NEW c \in Cli, StopTimesOut(c) PROVE AttemptsCounted'
  BY <1>24 DEF StopTimesOut
<1>25. ASSUME NEW p \in Process, CheckPathTimesOut(p) PROVE AttemptsCounted'
  BY <1>25 DEF CheckPathTimesOut
<1>26. ASSUME NEW p \in Process, StartupReconcileThrows(p) PROVE AttemptsCounted'
  BY <1>26 DEF StartupReconcileThrows
<1>27. ASSUME NEW p \in Process, Crash(p) PROVE AttemptsCounted'
  BY <1>27 DEF Crash, Live
<1>28. ASSUME NEW h \in Hook, MakeLockFails(h) PROVE AttemptsCounted'
  BY <1>28 DEF MakeLockFails
<1>29. ASSUME NEW s \in Starter, CheckStatusTimesOut(s) PROVE AttemptsCounted'
  BY <1>29 DEF CheckStatusTimesOut
<1>30. ASSUME NEW s \in Starter, AskHealthTimesOut(s) PROVE AttemptsCounted'
  BY <1>30 DEF AskHealthTimesOut
<1>31. ASSUME NEW s \in Starter, CheckAgainTimesOut(s) PROVE AttemptsCounted'
  BY <1>31 DEF CheckAgainTimesOut
<1>32. ASSUME NEW s \in Starter, SpawnFails(s) PROVE AttemptsCounted'
  BY <1>32 DEF SpawnFails, Failure
<1>33. ASSUME NEW s \in Starter, StarterDies(s) PROVE AttemptsCounted'
  BY <1>33 DEF StarterDies
<1>34. CASE LockAges
  BY <1>34 DEF LockAges
<1>35. CASE UNCHANGED vars
  BY <1>35 DEF vars, observerVars, lockVars
<1>36. QED
  BY <1>1, <1>2, <1>3, <1>4, <1>5, <1>6, <1>7, <1>8, <1>9, <1>10, <1>11,
     <1>12, <1>13, <1>14, <1>15, <1>16, <1>17, <1>18, <1>19, <1>20, <1>21,
     <1>22, <1>23, <1>24, <1>25, <1>26, <1>27, <1>28, <1>29, <1>30, <1>31,
     <1>32, <1>33, <1>34, <1>35
     DEF Next, ObserverStep, LockStep, StartStep, CliStep, Misfortune

(* A starter spawns once, after everything it looks at. *)
LEMMA SpawnsStep == ASSUME IInv, [Next]_vars PROVE SpawnsLast'
<1> USE ObserverProcessAssumption DEF Process, Starter, Goto, Become,
        Smoothly, Happened, Fault, IInv, observerVars, lockVars, TypeOK,
        SpawnsLast, Success, Failure, LookForFile, CliEnd, HookEnd
<1>1. ASSUME NEW p \in Process, CheckPath(p) PROVE SpawnsLast'
  BY <1>1 DEF CheckPath
<1>2. ASSUME NEW p \in Process, UnlinkPath(p) PROVE SpawnsLast'
  BY <1>2 DEF UnlinkPath
<1>3. ASSUME NEW p \in Process, Bind(p) PROVE SpawnsLast'
  BY <1>3 DEF Bind
<1>4. ASSUME NEW p \in Process, Started(p) PROVE SpawnsLast'
  BY <1>4 DEF Started
<1>5. ASSUME NEW p \in Process, Close(p) PROVE SpawnsLast'
  BY <1>5 DEF Close
<1>6. ASSUME NEW p \in Process, Sweep(p) PROVE SpawnsLast'
  BY <1>6 DEF Sweep
<1>7. ASSUME NEW h \in Hook, FirstDelivery(h) PROVE SpawnsLast'
  BY <1>7 DEF FirstDelivery
<1>8. ASSUME NEW h \in Hook, MakeLock(h) PROVE SpawnsLast'
  BY <1>8 DEF MakeLock
<1>9. ASSUME NEW h \in Hook, StatLock(h) PROVE SpawnsLast'
  BY <1>9 DEF StatLock
<1>10. ASSUME NEW h \in Hook, BreakLock(h) PROVE SpawnsLast'
  BY <1>10 DEF BreakLock, TakenFrom
<1>11. ASSUME NEW h \in Hook, Release(h) PROVE SpawnsLast'
  BY <1>11 DEF Release
<1>12. ASSUME NEW h \in Hook, ContendedHealth(h) PROVE SpawnsLast'
  BY <1>12 DEF ContendedHealth
<1>13. ASSUME NEW h \in Hook, SecondDelivery(h) PROVE SpawnsLast'
  BY <1>13 DEF SecondDelivery
<1>14. ASSUME NEW s \in Starter, CheckStatus(s) PROVE SpawnsLast'
  BY <1>14 DEF CheckStatus
<1>15. ASSUME NEW s \in Starter, AskHealth(s) PROVE SpawnsLast'
  BY <1>15 DEF AskHealth, Success
<1>16. ASSUME NEW s \in Starter, CheckAgain(s) PROVE SpawnsLast'
  BY <1>16 DEF CheckAgain
<1>17. ASSUME NEW s \in Starter, UnlinkStale(s) PROVE SpawnsLast'
  BY <1>17 DEF UnlinkStale
<1>18. ASSUME NEW s \in Starter, Spawn(s) PROVE SpawnsLast'
  BY <1>18 DEF Spawn
<1>19. ASSUME NEW s \in Starter, Healthy(s) PROVE SpawnsLast'
  BY <1>19 DEF Healthy, Success
<1>20. ASSUME NEW s \in Starter, GiveUp(s) PROVE SpawnsLast'
  BY <1>20 DEF GiveUp, Killed, Live, Failure
<1>21. ASSUME NEW c \in Cli, CliStart(c) PROVE SpawnsLast'
  BY <1>21 DEF CliStart, LookForFile
<1>22. ASSUME NEW c \in Cli, CliStop(c) PROVE SpawnsLast'
  BY <1>22 DEF CliStop
<1>23. ASSUME NEW c \in Cli, StopSeen(c) PROVE SpawnsLast'
  BY <1>23 DEF StopSeen, LookForFile
<1>24. ASSUME NEW c \in Cli, StopTimesOut(c) PROVE SpawnsLast'
  BY <1>24 DEF StopTimesOut
<1>25. ASSUME NEW p \in Process, CheckPathTimesOut(p) PROVE SpawnsLast'
  BY <1>25 DEF CheckPathTimesOut
<1>26. ASSUME NEW p \in Process, StartupReconcileThrows(p) PROVE SpawnsLast'
  BY <1>26 DEF StartupReconcileThrows
<1>27. ASSUME NEW p \in Process, Crash(p) PROVE SpawnsLast'
  BY <1>27 DEF Crash, Live
<1>28. ASSUME NEW h \in Hook, MakeLockFails(h) PROVE SpawnsLast'
  BY <1>28 DEF MakeLockFails
<1>29. ASSUME NEW s \in Starter, CheckStatusTimesOut(s) PROVE SpawnsLast'
  BY <1>29 DEF CheckStatusTimesOut
<1>30. ASSUME NEW s \in Starter, AskHealthTimesOut(s) PROVE SpawnsLast'
  BY <1>30 DEF AskHealthTimesOut
<1>31. ASSUME NEW s \in Starter, CheckAgainTimesOut(s) PROVE SpawnsLast'
  BY <1>31 DEF CheckAgainTimesOut
<1>32. ASSUME NEW s \in Starter, SpawnFails(s) PROVE SpawnsLast'
  BY <1>32 DEF SpawnFails, Failure
<1>33. ASSUME NEW s \in Starter, StarterDies(s) PROVE SpawnsLast'
  BY <1>33 DEF StarterDies
<1>34. CASE LockAges
  BY <1>34 DEF LockAges
<1>35. CASE UNCHANGED vars
  BY <1>35 DEF vars, observerVars, lockVars
<1>36. QED
  BY <1>1, <1>2, <1>3, <1>4, <1>5, <1>6, <1>7, <1>8, <1>9, <1>10, <1>11,
     <1>12, <1>13, <1>14, <1>15, <1>16, <1>17, <1>18, <1>19, <1>20, <1>21,
     <1>22, <1>23, <1>24, <1>25, <1>26, <1>27, <1>28, <1>29, <1>30, <1>31,
     <1>32, <1>33, <1>34, <1>35
     DEF Next, ObserverStep, LockStep, StartStep, CliStep, Misfortune

(* A socket file loses its listener only to a death that is noted. *)
LEMMA LeftoverStep == ASSUME IInv, [Next]_vars PROVE LeftoverIsNoted'
<1> USE ObserverProcessAssumption DEF Process, Starter, Goto, Become,
        Smoothly, Happened, Fault, IInv, observerVars, lockVars,
        LeftoverIsNoted, Leftover, Answers, Listening, TypeOK, Live,
        OneServes, RemovalIsNoted, SpawnsLast
<1>1. ASSUME NEW p \in Process, CheckPath(p) PROVE LeftoverIsNoted'
  BY <1>1 DEF CheckPath
<1>2. ASSUME NEW p \in Process, UnlinkPath(p) PROVE LeftoverIsNoted'
  BY <1>2 DEF UnlinkPath
<1>3. ASSUME NEW p \in Process, Bind(p) PROVE LeftoverIsNoted'
  BY <1>3 DEF Bind
<1>4. ASSUME NEW p \in Process, Started(p) PROVE LeftoverIsNoted'
  BY <1>4 DEF Started
<1>5. ASSUME NEW p \in Process, Close(p) PROVE LeftoverIsNoted'
  BY <1>5 DEF Close
<1>6. ASSUME NEW p \in Process, Sweep(p) PROVE LeftoverIsNoted'
  BY <1>6 DEF Sweep
<1>7. ASSUME NEW h \in Hook, FirstDelivery(h) PROVE LeftoverIsNoted'
  BY <1>7 DEF FirstDelivery
<1>8. ASSUME NEW h \in Hook, MakeLock(h) PROVE LeftoverIsNoted'
  BY <1>8 DEF MakeLock
<1>9. ASSUME NEW h \in Hook, StatLock(h) PROVE LeftoverIsNoted'
  BY <1>9 DEF StatLock
<1>10. ASSUME NEW h \in Hook, BreakLock(h) PROVE LeftoverIsNoted'
  BY <1>10 DEF BreakLock, TakenFrom
<1>11. ASSUME NEW h \in Hook, Release(h) PROVE LeftoverIsNoted'
  BY <1>11 DEF Release
<1>12. ASSUME NEW h \in Hook, ContendedHealth(h) PROVE LeftoverIsNoted'
  BY <1>12 DEF ContendedHealth
<1>13. ASSUME NEW h \in Hook, SecondDelivery(h) PROVE LeftoverIsNoted'
  BY <1>13 DEF SecondDelivery
<1>14. ASSUME NEW s \in Starter, CheckStatus(s) PROVE LeftoverIsNoted'
  BY <1>14 DEF CheckStatus
<1>15. ASSUME NEW s \in Starter, AskHealth(s) PROVE LeftoverIsNoted'
  BY <1>15 DEF AskHealth, Success
<1>16. ASSUME NEW s \in Starter, CheckAgain(s) PROVE LeftoverIsNoted'
  BY <1>16 DEF CheckAgain
<1>17. ASSUME NEW s \in Starter, UnlinkStale(s) PROVE LeftoverIsNoted'
  BY <1>17 DEF UnlinkStale
<1>18. ASSUME NEW s \in Starter, Spawn(s) PROVE LeftoverIsNoted'
  BY <1>18 DEF Spawn
<1>19. ASSUME NEW s \in Starter, Healthy(s) PROVE LeftoverIsNoted'
  BY <1>19 DEF Healthy, Success
<1>20. ASSUME NEW s \in Starter, GiveUp(s) PROVE LeftoverIsNoted'
  <2>1. CASE UNCHANGED at
    BY <1>20, <2>1 DEF GiveUp
  <2>2. CASE Become(s, "ended") /\ UNCHANGED stop
    <3>1. CASE socket = s /\ Listening(s)
      BY <1>20, <2>2, <3>1 DEF GiveUp
    <3>2. CASE ~(socket = s /\ Listening(s))
      <4>1. Leftover' => Leftover
        BY <1>20, <2>2, <3>2 DEF GiveUp
      <4>2. QED
        BY <1>20, <4>1 DEF GiveUp
    <3>3. QED
      BY <3>1, <3>2
  <2>3. QED
    BY <1>20, <2>1, <2>2 DEF GiveUp, Killed
<1>21. ASSUME NEW c \in Cli, CliStart(c) PROVE LeftoverIsNoted'
  BY <1>21 DEF CliStart, LookForFile
<1>22. ASSUME NEW c \in Cli, CliStop(c) PROVE LeftoverIsNoted'
  BY <1>22 DEF CliStop
<1>23. ASSUME NEW c \in Cli, StopSeen(c) PROVE LeftoverIsNoted'
  BY <1>23 DEF StopSeen, LookForFile
<1>24. ASSUME NEW c \in Cli, StopTimesOut(c) PROVE LeftoverIsNoted'
  BY <1>24 DEF StopTimesOut
<1>25. ASSUME NEW p \in Process, CheckPathTimesOut(p) PROVE LeftoverIsNoted'
  BY <1>25 DEF CheckPathTimesOut
<1>26. ASSUME NEW p \in Process, StartupReconcileThrows(p) PROVE LeftoverIsNoted'
  BY <1>26 DEF StartupReconcileThrows
<1>27. ASSUME NEW p \in Process, Crash(p) PROVE LeftoverIsNoted'
  BY <1>27 DEF Crash, Live
<1>28. ASSUME NEW h \in Hook, MakeLockFails(h) PROVE LeftoverIsNoted'
  BY <1>28 DEF MakeLockFails
<1>29. ASSUME NEW s \in Starter, CheckStatusTimesOut(s) PROVE LeftoverIsNoted'
  BY <1>29 DEF CheckStatusTimesOut
<1>30. ASSUME NEW s \in Starter, AskHealthTimesOut(s) PROVE LeftoverIsNoted'
  BY <1>30 DEF AskHealthTimesOut
<1>31. ASSUME NEW s \in Starter, CheckAgainTimesOut(s) PROVE LeftoverIsNoted'
  BY <1>31 DEF CheckAgainTimesOut
<1>32. ASSUME NEW s \in Starter, SpawnFails(s) PROVE LeftoverIsNoted'
  BY <1>32 DEF SpawnFails, Failure
<1>33. ASSUME NEW s \in Starter, StarterDies(s) PROVE LeftoverIsNoted'
  BY <1>33 DEF StarterDies
<1>34. CASE LockAges
  BY <1>34 DEF LockAges
<1>35. CASE UNCHANGED vars
  BY <1>35 DEF vars, observerVars, lockVars
<1>36. QED
  BY <1>1, <1>2, <1>3, <1>4, <1>5, <1>6, <1>7, <1>8, <1>9, <1>10, <1>11,
     <1>12, <1>13, <1>14, <1>15, <1>16, <1>17, <1>18, <1>19, <1>20, <1>21,
     <1>22, <1>23, <1>24, <1>25, <1>26, <1>27, <1>28, <1>29, <1>30, <1>31,
     <1>32, <1>33, <1>34, <1>35
     DEF Next, ObserverStep, LockStep, StartStep, CliStep, Misfortune

(* Nobody goes to remove a file without a reason that is noted. *)
LEMMA RemovalStep == ASSUME IInv, [Next]_vars PROVE RemovalIsNoted'
<1> USE ObserverProcessAssumption DEF Process, Starter, Goto, Become,
        Smoothly, Happened, Fault, IInv, observerVars, lockVars,
        RemovalIsNoted, LeftoverIsNoted, Leftover, Answers, Listening,
        Success, Failure, TypeOK, LookForFile
<1>1. ASSUME NEW p \in Process, CheckPath(p) PROVE RemovalIsNoted'
  BY <1>1 DEF CheckPath
<1>2. ASSUME NEW p \in Process, UnlinkPath(p) PROVE RemovalIsNoted'
  BY <1>2 DEF UnlinkPath
<1>3. ASSUME NEW p \in Process, Bind(p) PROVE RemovalIsNoted'
  BY <1>3 DEF Bind
<1>4. ASSUME NEW p \in Process, Started(p) PROVE RemovalIsNoted'
  BY <1>4 DEF Started
<1>5. ASSUME NEW p \in Process, Close(p) PROVE RemovalIsNoted'
  BY <1>5 DEF Close
<1>6. ASSUME NEW p \in Process, Sweep(p) PROVE RemovalIsNoted'
  BY <1>6 DEF Sweep
<1>7. ASSUME NEW h \in Hook, FirstDelivery(h) PROVE RemovalIsNoted'
  BY <1>7 DEF FirstDelivery
<1>8. ASSUME NEW h \in Hook, MakeLock(h) PROVE RemovalIsNoted'
  BY <1>8 DEF MakeLock
<1>9. ASSUME NEW h \in Hook, StatLock(h) PROVE RemovalIsNoted'
  BY <1>9 DEF StatLock
<1>10. ASSUME NEW h \in Hook, BreakLock(h) PROVE RemovalIsNoted'
  BY <1>10 DEF BreakLock, TakenFrom
<1>11. ASSUME NEW h \in Hook, Release(h) PROVE RemovalIsNoted'
  BY <1>11 DEF Release
<1>12. ASSUME NEW h \in Hook, ContendedHealth(h) PROVE RemovalIsNoted'
  BY <1>12 DEF ContendedHealth
<1>13. ASSUME NEW h \in Hook, SecondDelivery(h) PROVE RemovalIsNoted'
  BY <1>13 DEF SecondDelivery
<1>14. ASSUME NEW s \in Starter, CheckStatus(s) PROVE RemovalIsNoted'
  BY <1>14 DEF CheckStatus
<1>15. ASSUME NEW s \in Starter, AskHealth(s) PROVE RemovalIsNoted'
  BY <1>15 DEF AskHealth, Success
<1>16. ASSUME NEW s \in Starter, CheckAgain(s) PROVE RemovalIsNoted'
  BY <1>16 DEF CheckAgain
<1>17. ASSUME NEW s \in Starter, UnlinkStale(s) PROVE RemovalIsNoted'
  BY <1>17 DEF UnlinkStale
<1>18. ASSUME NEW s \in Starter, Spawn(s) PROVE RemovalIsNoted'
  BY <1>18 DEF Spawn
<1>19. ASSUME NEW s \in Starter, Healthy(s) PROVE RemovalIsNoted'
  BY <1>19 DEF Healthy, Success
<1>20. ASSUME NEW s \in Starter, GiveUp(s) PROVE RemovalIsNoted'
  BY <1>20 DEF GiveUp, Killed, Live, Failure
<1>21. ASSUME NEW c \in Cli, CliStart(c) PROVE RemovalIsNoted'
  BY <1>21 DEF CliStart, LookForFile
<1>22. ASSUME NEW c \in Cli, CliStop(c) PROVE RemovalIsNoted'
  BY <1>22 DEF CliStop
<1>23. ASSUME NEW c \in Cli, StopSeen(c) PROVE RemovalIsNoted'
  BY <1>23 DEF StopSeen, LookForFile
<1>24. ASSUME NEW c \in Cli, StopTimesOut(c) PROVE RemovalIsNoted'
  BY <1>24 DEF StopTimesOut
<1>25. ASSUME NEW p \in Process, CheckPathTimesOut(p) PROVE RemovalIsNoted'
  BY <1>25 DEF CheckPathTimesOut
<1>26. ASSUME NEW p \in Process, StartupReconcileThrows(p) PROVE RemovalIsNoted'
  BY <1>26 DEF StartupReconcileThrows
<1>27. ASSUME NEW p \in Process, Crash(p) PROVE RemovalIsNoted'
  BY <1>27 DEF Crash, Live
<1>28. ASSUME NEW h \in Hook, MakeLockFails(h) PROVE RemovalIsNoted'
  BY <1>28 DEF MakeLockFails
<1>29. ASSUME NEW s \in Starter, CheckStatusTimesOut(s) PROVE RemovalIsNoted'
  BY <1>29 DEF CheckStatusTimesOut
<1>30. ASSUME NEW s \in Starter, AskHealthTimesOut(s) PROVE RemovalIsNoted'
  BY <1>30 DEF AskHealthTimesOut
<1>31. ASSUME NEW s \in Starter, CheckAgainTimesOut(s) PROVE RemovalIsNoted'
  BY <1>31 DEF CheckAgainTimesOut
<1>32. ASSUME NEW s \in Starter, SpawnFails(s) PROVE RemovalIsNoted'
  BY <1>32 DEF SpawnFails, Failure
<1>33. ASSUME NEW s \in Starter, StarterDies(s) PROVE RemovalIsNoted'
  BY <1>33 DEF StarterDies
<1>34. CASE LockAges
  BY <1>34 DEF LockAges
<1>35. CASE UNCHANGED vars
  BY <1>35 DEF vars, observerVars, lockVars
<1>36. QED
  BY <1>1, <1>2, <1>3, <1>4, <1>5, <1>6, <1>7, <1>8, <1>9, <1>10, <1>11,
     <1>12, <1>13, <1>14, <1>15, <1>16, <1>17, <1>18, <1>19, <1>20, <1>21,
     <1>22, <1>23, <1>24, <1>25, <1>26, <1>27, <1>28, <1>29, <1>30, <1>31,
     <1>32, <1>33, <1>34, <1>35
     DEF Next, ObserverStep, LockStep, StartStep, CliStep, Misfortune

(* While no lock is taken from a hook, starts stay apart. *)
LEMMA LockHoldsStep == ASSUME IInv, [Next]_vars PROVE LockHolds'
<1> USE ObserverProcessAssumption DEF Process, Starter, Goto, Become,
        Smoothly, Happened, Fault, IInv, observerVars, lockVars, LockHolds,
        LockedStart, UnderLock, Arriving, Silent, CliEnd, HookEnd, OneServes,
        SpawnsLast, LeftoverIsNoted, RemovalIsNoted, Leftover, Answers,
        Listening, Success, Failure, TypeOK, LookForFile
<1>1. ASSUME NEW p \in Process, CheckPath(p) PROVE LockHolds'
  BY <1>1 DEF CheckPath
<1>2. ASSUME NEW p \in Process, UnlinkPath(p) PROVE LockHolds'
  BY <1>2 DEF UnlinkPath
<1>3. ASSUME NEW p \in Process, Bind(p) PROVE LockHolds'
  BY <1>3 DEF Bind
<1>4. ASSUME NEW p \in Process, Started(p) PROVE LockHolds'
  BY <1>4 DEF Started
<1>5. ASSUME NEW p \in Process, Close(p) PROVE LockHolds'
  BY <1>5 DEF Close
<1>6. ASSUME NEW p \in Process, Sweep(p) PROVE LockHolds'
  BY <1>6 DEF Sweep
<1>7. ASSUME NEW h \in Hook, FirstDelivery(h) PROVE LockHolds'
  BY <1>7 DEF FirstDelivery
<1>8. ASSUME NEW h \in Hook, MakeLock(h) PROVE LockHolds'
  BY <1>8 DEF MakeLock
<1>9. ASSUME NEW h \in Hook, StatLock(h) PROVE LockHolds'
  BY <1>9 DEF StatLock
<1>10. ASSUME NEW h \in Hook, BreakLock(h) PROVE LockHolds'
  BY <1>10 DEF BreakLock, TakenFrom
<1>11. ASSUME NEW h \in Hook, Release(h) PROVE LockHolds'
  BY <1>11 DEF Release
<1>12. ASSUME NEW h \in Hook, ContendedHealth(h) PROVE LockHolds'
  BY <1>12 DEF ContendedHealth
<1>13. ASSUME NEW h \in Hook, SecondDelivery(h) PROVE LockHolds'
  BY <1>13 DEF SecondDelivery
<1>14. ASSUME NEW s \in Starter, CheckStatus(s) PROVE LockHolds'
  <2>1. incidents' = incidents /\ at' = at /\ lock' = lock
    BY <1>14 DEF CheckStatus
  <2>2. CASE incidents \cap {"unlocked", "doubt"} = {}
    <3>1. Leftover => Silent
      BY <2>2
    <3>2. starter[s] = "checking" /\ s \in Hook
      BY <1>14, <2>2 DEF CheckStatus, HookState, UnderLock, HookEnd
    <3>3. starter' = [starter EXCEPT ![s] = IF Leftover THEN "removing" ELSE "asking"]
      BY <1>14, <3>2 DEF CheckStatus
    <3>4. QED
      BY <2>1, <2>2, <3>1, <3>2, <3>3
  <2>3. QED
    BY <2>1, <2>2
<1>15. ASSUME NEW s \in Starter, AskHealth(s) PROVE LockHolds'
  <2>1. incidents' = incidents /\ at' = at /\ lock' = lock
    BY <1>15 DEF AskHealth
  <2>2. CASE incidents \cap {"unlocked", "doubt"} = {}
    <3>1. ~Answers => Silent
      BY <2>2
    <3>2. starter[s] = "asking" /\ s \in Hook
      BY <1>15, <2>2 DEF AskHealth, HookState, UnderLock, HookEnd
    <3>3. starter' = [starter EXCEPT ![s] = IF Answers THEN "releasing" ELSE "spawning"]
      BY <1>15, <3>2 DEF AskHealth
    <3>4. QED
      BY <2>1, <2>2, <3>1, <3>2, <3>3
  <2>3. QED
    BY <2>1, <2>2
<1>16. ASSUME NEW s \in Starter, CheckAgain(s) PROVE LockHolds'
  BY <1>16 DEF CheckAgain
<1>17. ASSUME NEW s \in Starter, UnlinkStale(s) PROVE LockHolds'
  BY <1>17 DEF UnlinkStale
<1>18. ASSUME NEW s \in Starter, Spawn(s) PROVE LockHolds'
  BY <1>18 DEF Spawn
<1>19. ASSUME NEW s \in Starter, Healthy(s) PROVE LockHolds'
  BY <1>19 DEF Healthy, Success
<1>20. ASSUME NEW s \in Starter, GiveUp(s) PROVE LockHolds'
  BY <1>20 DEF GiveUp, Killed, Live, Failure
<1>21. ASSUME NEW c \in Cli, CliStart(c) PROVE LockHolds'
  BY <1>21 DEF CliStart, LookForFile
<1>22. ASSUME NEW c \in Cli, CliStop(c) PROVE LockHolds'
  BY <1>22 DEF CliStop
<1>23. ASSUME NEW c \in Cli, StopSeen(c) PROVE LockHolds'
  BY <1>23 DEF StopSeen, LookForFile
<1>24. ASSUME NEW c \in Cli, StopTimesOut(c) PROVE LockHolds'
  BY <1>24 DEF StopTimesOut
<1>25. ASSUME NEW p \in Process, CheckPathTimesOut(p) PROVE LockHolds'
  BY <1>25 DEF CheckPathTimesOut
<1>26. ASSUME NEW p \in Process, StartupReconcileThrows(p) PROVE LockHolds'
  BY <1>26 DEF StartupReconcileThrows
<1>27. ASSUME NEW p \in Process, Crash(p) PROVE LockHolds'
  BY <1>27 DEF Crash, Live
<1>28. ASSUME NEW h \in Hook, MakeLockFails(h) PROVE LockHolds'
  BY <1>28 DEF MakeLockFails
<1>29. ASSUME NEW s \in Starter, CheckStatusTimesOut(s) PROVE LockHolds'
  BY <1>29 DEF CheckStatusTimesOut
<1>30. ASSUME NEW s \in Starter, AskHealthTimesOut(s) PROVE LockHolds'
  BY <1>30 DEF AskHealthTimesOut
<1>31. ASSUME NEW s \in Starter, CheckAgainTimesOut(s) PROVE LockHolds'
  BY <1>31 DEF CheckAgainTimesOut
<1>32. ASSUME NEW s \in Starter, SpawnFails(s) PROVE LockHolds'
  BY <1>32 DEF SpawnFails, Failure
<1>33. ASSUME NEW s \in Starter, StarterDies(s) PROVE LockHolds'
  BY <1>33 DEF StarterDies
<1>34. CASE LockAges
  BY <1>34 DEF LockAges
<1>35. CASE UNCHANGED vars
  BY <1>35 DEF vars, observerVars, lockVars
<1>36. QED
  BY <1>1, <1>2, <1>3, <1>4, <1>5, <1>6, <1>7, <1>8, <1>9, <1>10, <1>11,
     <1>12, <1>13, <1>14, <1>15, <1>16, <1>17, <1>18, <1>19, <1>20, <1>21,
     <1>22, <1>23, <1>24, <1>25, <1>26, <1>27, <1>28, <1>29, <1>30, <1>31,
     <1>32, <1>33, <1>34, <1>35
     DEF Next, ObserverStep, LockStep, StartStep, CliStep, Misfortune

(* The observer that listens stays the one the path leads to. *)
LEMMA ServesStep == ASSUME IInv, [Next]_vars PROVE OneServes'
<1> USE ObserverProcessAssumption DEF Process, Starter, Goto, Become,
        Smoothly, Happened, Fault, IInv, observerVars, lockVars, LockHolds,
        LockedStart, UnderLock, Arriving, Silent, OneServes, LeftoverIsNoted,
        RemovalIsNoted, Leftover, Answers, Listening, Success, Failure,
        TypeOK, LookForFile
<1>1. ASSUME NEW p \in Process, CheckPath(p) PROVE OneServes'
  BY <1>1 DEF CheckPath
<1>2. ASSUME NEW p \in Process, UnlinkPath(p) PROVE OneServes'
  BY <1>2 DEF UnlinkPath
<1>3. ASSUME NEW p \in Process, Bind(p) PROVE OneServes'
  BY <1>3 DEF Bind
<1>4. ASSUME NEW p \in Process, Started(p) PROVE OneServes'
  BY <1>4 DEF Started
<1>5. ASSUME NEW p \in Process, Close(p) PROVE OneServes'
  BY <1>5 DEF Close
<1>6. ASSUME NEW p \in Process, Sweep(p) PROVE OneServes'
  BY <1>6 DEF Sweep
<1>7. ASSUME NEW h \in Hook, FirstDelivery(h) PROVE OneServes'
  BY <1>7 DEF FirstDelivery
<1>8. ASSUME NEW h \in Hook, MakeLock(h) PROVE OneServes'
  BY <1>8 DEF MakeLock
<1>9. ASSUME NEW h \in Hook, StatLock(h) PROVE OneServes'
  BY <1>9 DEF StatLock
<1>10. ASSUME NEW h \in Hook, BreakLock(h) PROVE OneServes'
  BY <1>10 DEF BreakLock, TakenFrom
<1>11. ASSUME NEW h \in Hook, Release(h) PROVE OneServes'
  BY <1>11 DEF Release
<1>12. ASSUME NEW h \in Hook, ContendedHealth(h) PROVE OneServes'
  BY <1>12 DEF ContendedHealth
<1>13. ASSUME NEW h \in Hook, SecondDelivery(h) PROVE OneServes'
  BY <1>13 DEF SecondDelivery
<1>14. ASSUME NEW s \in Starter, CheckStatus(s) PROVE OneServes'
  BY <1>14 DEF CheckStatus
<1>15. ASSUME NEW s \in Starter, AskHealth(s) PROVE OneServes'
  BY <1>15 DEF AskHealth, Success
<1>16. ASSUME NEW s \in Starter, CheckAgain(s) PROVE OneServes'
  BY <1>16 DEF CheckAgain
<1>17. ASSUME NEW s \in Starter, UnlinkStale(s) PROVE OneServes'
  <2>1. incidents' = incidents /\ at' = at
    BY <1>17 DEF UnlinkStale
  <2>2. CASE "doubt" \in incidents \/ {"leftover", "unlocked"} \subseteq incidents
    BY <2>1, <2>2
  <2>3. CASE ~("doubt" \in incidents \/ {"leftover", "unlocked"} \subseteq incidents)
    <3>1. "leftover" \in incidents /\ "doubt" \notin incidents
      BY <1>17, <2>3 DEF UnlinkStale
    <3>2. LockedStart
      BY <2>3, <3>1
    <3>3. s \in Hook
      BY <1>17, <3>2 DEF UnlinkStale, CliEnd
    <3>4. Silent
      BY <1>17, <3>2, <3>3 DEF UnlinkStale
    <3>5. QED
      BY <2>1, <3>4
  <2>4. QED
    BY <2>2, <2>3
<1>18. ASSUME NEW s \in Starter, Spawn(s) PROVE OneServes'
  BY <1>18 DEF Spawn
<1>19. ASSUME NEW s \in Starter, Healthy(s) PROVE OneServes'
  BY <1>19 DEF Healthy, Success
<1>20. ASSUME NEW s \in Starter, GiveUp(s) PROVE OneServes'
  BY <1>20 DEF GiveUp, Killed, Live, Failure
<1>21. ASSUME NEW c \in Cli, CliStart(c) PROVE OneServes'
  BY <1>21 DEF CliStart, LookForFile
<1>22. ASSUME NEW c \in Cli, CliStop(c) PROVE OneServes'
  BY <1>22 DEF CliStop
<1>23. ASSUME NEW c \in Cli, StopSeen(c) PROVE OneServes'
  BY <1>23 DEF StopSeen, LookForFile
<1>24. ASSUME NEW c \in Cli, StopTimesOut(c) PROVE OneServes'
  BY <1>24 DEF StopTimesOut
<1>25. ASSUME NEW p \in Process, CheckPathTimesOut(p) PROVE OneServes'
  BY <1>25 DEF CheckPathTimesOut
<1>26. ASSUME NEW p \in Process, StartupReconcileThrows(p) PROVE OneServes'
  BY <1>26 DEF StartupReconcileThrows
<1>27. ASSUME NEW p \in Process, Crash(p) PROVE OneServes'
  BY <1>27 DEF Crash, Live
<1>28. ASSUME NEW h \in Hook, MakeLockFails(h) PROVE OneServes'
  BY <1>28 DEF MakeLockFails
<1>29. ASSUME NEW s \in Starter, CheckStatusTimesOut(s) PROVE OneServes'
  BY <1>29 DEF CheckStatusTimesOut
<1>30. ASSUME NEW s \in Starter, AskHealthTimesOut(s) PROVE OneServes'
  BY <1>30 DEF AskHealthTimesOut
<1>31. ASSUME NEW s \in Starter, CheckAgainTimesOut(s) PROVE OneServes'
  BY <1>31 DEF CheckAgainTimesOut
<1>32. ASSUME NEW s \in Starter, SpawnFails(s) PROVE OneServes'
  BY <1>32 DEF SpawnFails, Failure
<1>33. ASSUME NEW s \in Starter, StarterDies(s) PROVE OneServes'
  BY <1>33 DEF StarterDies
<1>34. CASE LockAges
  BY <1>34 DEF LockAges
<1>35. CASE UNCHANGED vars
  BY <1>35 DEF vars, observerVars, lockVars
<1>36. QED
  BY <1>1, <1>2, <1>3, <1>4, <1>5, <1>6, <1>7, <1>8, <1>9, <1>10, <1>11,
     <1>12, <1>13, <1>14, <1>15, <1>16, <1>17, <1>18, <1>19, <1>20, <1>21,
     <1>22, <1>23, <1>24, <1>25, <1>26, <1>27, <1>28, <1>29, <1>30, <1>31,
     <1>32, <1>33, <1>34, <1>35
     DEF Next, ObserverStep, LockStep, StartStep, CliStep, Misfortune

(* At the start nobody listens and nobody is on the way. *)
LEMMA InitHolds == Init => IInv
<1> SUFFICES ASSUME Init PROVE IInv
  OBVIOUS
<1> USE ObserverProcessAssumption DEF Init, Process, Starter
<1>1. TypeOK
  <2>1. "idle" \in HookState \cap CliState /\ "none" \in ObserverState
    BY DEF HookState, CliState, ObserverState
  <2>2. incidents \in SUBSET Incident
    BY DEF Incident
  <2>3. /\ starter \in [Starter -> HookState \cup CliState]
        /\ \A h \in Hook : starter[h] \in HookState
        /\ \A c \in Cli : starter[c] \in CliState
    BY <2>1
  <2>4. at \in [Process -> ObserverState] /\ stop \in [Process -> {"no", "asked", "down"}]
    BY <2>1
  <2>5. broken \in [Hook -> 0..2] /\ faults \in 0..MaxFaults
    OBVIOUS
  <2>6. socket \in Process \cup {Former, None} /\ lock \in Hook \cup {Former, None} /\ lockOld \in BOOLEAN
    OBVIOUS
  <2>7. QED
    BY <2>2, <2>3, <2>4, <2>5, <2>6 DEF TypeOK
<1>2. AttemptsCounted /\ SpawnsLast
  BY DEF AttemptsCounted, SpawnsLast
<1>3. LeftoverIsNoted /\ RemovalIsNoted
  BY DEF LeftoverIsNoted, Leftover, Listening, RemovalIsNoted
<1>4. LockHolds /\ OneServes
  BY DEF LockHolds, LockedStart, UnderLock, Arriving, CliEnd, OneServes, Listening
<1>5. QED
  BY <1>1, <1>2, <1>3, <1>4 DEF IInv

(* The invariant is inductive. *)
LEMMA IInvHolds == Spec => []IInv
<1>1. IInv /\ [Next]_vars => IInv'
  <2> SUFFICES ASSUME IInv, [Next]_vars PROVE IInv'
    OBVIOUS
  <2>1. TypeOK' /\ AttemptsCounted' /\ SpawnsLast'
    BY TypeStep, AttemptsStep, SpawnsStep
  <2>2. LeftoverIsNoted' /\ RemovalIsNoted'
    BY LeftoverStep, RemovalStep
  <2>3. LockHolds' /\ OneServes'
    BY LockHoldsStep, ServesStep
  <2>4. QED
    BY <2>1, <2>2, <2>3 DEF IInv
<1>2. QED
  BY InitHolds, <1>1, PTL DEF Spec

(* The types of ObserverProcess, among them the two attempts at the lock, *)
(* hold throughout.                                                       *)
THEOREM TypeCorrect == Spec => []TypeOK
<1>1. IInv => TypeOK
  BY DEF IInv
<1>2. QED
  BY IInvHolds, <1>1, PTL

(* While no hook has lost its lock and no live observer was taken for dead,  *)
(* at most one observer is on its way up, under the lock of the hook that    *)
(* spawned it, and only when nobody listens (deliveryPolicy.ts:150-232).     *)
THEOREM LockKeepsStartsApart == Spec => []LockHolds
<1>1. IInv => LockHolds
  BY DEF IInv
<1>2. QED
  BY IInvHolds, <1>1, PTL

(* However many hooks and wosm processes start and stop observers, and       *)
(* whichever of them die, one observer listens, behind the path - unless a   *)
(* check was mistaken, or a leftover file met removals that the lock did not *)
(* keep apart (transport.ts:33-105, 264-288).                                *)
THEOREM OneObserverServes == Spec => []OneServes
<1>1. IInv => OneServes
  BY DEF IInv
<1>2. QED
  BY IInvHolds, <1>1, PTL

-----------------------------------------------------------------------------
(* While no trouble came: the path is refilled, and hooks deliver.         *)

(* The facts about constants and names that the proofs below use.          *)
LEMMA Names ==
  /\ Process = Hook \cup Cli /\ Starter = Hook \cup Cli
  /\ Former \notin Process /\ None \notin Process /\ Former # None
  /\ Hook \cap Cli = {}
  BY ObserverProcessAssumption DEF Process, Starter

(* The steps that leave no trouble behind. *)
LEMMA UntroubledStep ==
  ASSUME IInv, NothingStops, [Next]_vars, "trouble" \notin incidents'
  PROVE  \/ \E p \in Process : CheckPath(p) \/ Bind(p) \/ Started(p)
         \/ \E h \in Hook : \/ FirstDelivery(h) \/ MakeLock(h) \/ StatLock(h) \/ BreakLock(h)
                            \/ Release(h) \/ ContendedHealth(h) \/ SecondDelivery(h)
         \/ \E s \in Starter : \/ CheckStatus(s) \/ AskHealth(s) \/ CheckAgain(s)
                               \/ UnlinkStale(s) \/ Spawn(s) \/ Healthy(s)
         \/ \E c \in Cli : CliStart(c)
         \/ LockAges \/ UNCHANGED vars
<1>1. ASSUME NEW p \in Process PROVE ~UnlinkPath(p) /\ ~Close(p) /\ ~Sweep(p)
  <2>1. stop[p] = "no" /\ at[p] \notin {"unlinking", "sweeping", "unsweeping"}
    BY DEF NothingStops
  <2> QED
    BY <2>1 DEF UnlinkPath, Close, Sweep
<1>2. ASSUME NEW what, Fault(what) PROVE FALSE
  BY <1>2 DEF Fault, Happened
<1>3. ASSUME NEW p \in Process
      PROVE  ~CheckPathTimesOut(p) /\ ~StartupReconcileThrows(p) /\ ~Crash(p)
  BY <1>2 DEF CheckPathTimesOut, StartupReconcileThrows, Crash
<1>4. ASSUME NEW s \in Starter
      PROVE  /\ ~CheckStatusTimesOut(s) /\ ~AskHealthTimesOut(s) /\ ~CheckAgainTimesOut(s)
             /\ ~SpawnFails(s) /\ ~StarterDies(s)
  BY <1>2 DEF CheckStatusTimesOut, AskHealthTimesOut, CheckAgainTimesOut, SpawnFails, StarterDies
<1>5. ASSUME NEW h \in Hook PROVE ~MakeLockFails(h)
  BY <1>2 DEF MakeLockFails
<1>6. ASSUME NEW s \in Starter PROVE ~GiveUp(s)
  BY DEF GiveUp, Happened
<1>7. ASSUME NEW c \in Cli PROVE ~CliStop(c) /\ ~StopSeen(c) /\ ~StopTimesOut(c)
  <2>1. starter[c] # "stopping"
    BY Names DEF NothingStops
  <2> QED
    BY <2>1 DEF CliStop, StopSeen, StopTimesOut, Happened
<1> QED
  BY <1>1, <1>3, <1>4, <1>5, <1>6, <1>7
     DEF Next, ObserverStep, LockStep, StartStep, CliStep, Misfortune

(* No lock is taken from a hook without trouble. *)
LEMMA LockIsKept ==
  ASSUME NEW h \in Hook, BreakLock(h), "trouble" \notin incidents'
  PROVE  lock \notin Hook
  BY DEF BreakLock, TakenFrom, Happened

(* Untroubled steps stop no observer and take no lock away. *)
LEMMA NothingStopsStep ==
  ASSUME IInv, NothingStops, PathIsRefilled, [Next]_vars, "trouble" \notin incidents'
  PROVE  NothingStops'
<1> USE Names DEF IInv, TypeOK, Goto, Become, Smoothly, Happened, observerVars, lockVars,
        NothingStops, UnderLock, Listening
<1>1. ASSUME NEW p \in Process, CheckPath(p) PROVE NothingStops'
  <2>1. ~Leftover
    BY <1>1 DEF CheckPath, PathIsRefilled, Leftover
  <2> QED
    BY <1>1, <2>1 DEF CheckPath
<1>2. ASSUME NEW p \in Process, Bind(p) PROVE NothingStops'
  BY <1>2 DEF Bind
<1>3. ASSUME NEW p \in Process, Started(p) PROVE NothingStops'
  BY <1>3 DEF Started
<1>4. ASSUME NEW h \in Hook, FirstDelivery(h) PROVE NothingStops'
  BY <1>4 DEF FirstDelivery
<1>5. ASSUME NEW h \in Hook, MakeLock(h) PROVE NothingStops'
  BY <1>5 DEF MakeLock
<1>6. ASSUME NEW h \in Hook, StatLock(h) PROVE NothingStops'
  BY <1>6 DEF StatLock
<1>7. ASSUME NEW h \in Hook, BreakLock(h) PROVE NothingStops'
  BY <1>7, LockIsKept DEF BreakLock, TakenFrom
<1>8. ASSUME NEW h \in Hook, Release(h) PROVE NothingStops'
  BY <1>8 DEF Release
<1>9. ASSUME NEW h \in Hook, ContendedHealth(h) PROVE NothingStops'
  BY <1>9 DEF ContendedHealth
<1>10. ASSUME NEW h \in Hook, SecondDelivery(h) PROVE NothingStops'
  BY <1>10 DEF SecondDelivery
<1>11. ASSUME NEW s \in Starter, CheckStatus(s) PROVE NothingStops'
  <2>1. PICK to \in {"removing", "asking", "askingFile"} : starter' = [starter EXCEPT ![s] = to]
    BY <1>11 DEF CheckStatus
  <2>2. s \in Hook => starter[s] \in UnderLock
    BY <1>11 DEF CheckStatus, HookState, HookEnd
  <2>3. UNCHANGED <<incidents, at, stop, lock, socket>>
    BY <1>11 DEF CheckStatus
  <2> QED
    BY <2>1, <2>2, <2>3
<1>12. ASSUME NEW s \in Starter, AskHealth(s) PROVE NothingStops'
  <2>1. PICK to \in {"releasing", "done", "spawning", "failed"} : starter' = [starter EXCEPT ![s] = to]
    BY <1>12 DEF AskHealth, Success
  <2>2. s \in Hook => starter[s] \in UnderLock
    BY <1>12 DEF AskHealth, HookState, HookEnd
  <2>3. UNCHANGED <<incidents, at, stop, lock, socket>>
    BY <1>12 DEF AskHealth
  <2> QED
    BY <2>1, <2>2, <2>3
<1>13. ASSUME NEW s \in Starter, CheckAgain(s) PROVE NothingStops'
  BY <1>13 DEF CheckAgain
<1>14. ASSUME NEW s \in Starter, UnlinkStale(s) PROVE NothingStops'
  BY <1>14 DEF UnlinkStale, Failure
<1>15. ASSUME NEW s \in Starter, Spawn(s) PROVE NothingStops'
  <2>1. at[s] = "none"
    BY <1>15 DEF Spawn, SpawnsLast
  <2> QED
    BY <1>15, <2>1 DEF Spawn
<1>16. ASSUME NEW s \in Starter, Healthy(s) PROVE NothingStops'
  BY <1>16 DEF Healthy, Success
<1>17. ASSUME NEW c \in Cli, CliStart(c) PROVE NothingStops'
  BY <1>17 DEF CliStart, LookForFile
<1>18. CASE LockAges
  BY <1>18 DEF LockAges
<1>19. CASE UNCHANGED vars
  BY <1>19 DEF vars, observerVars, lockVars
<1> QED
  BY <1>1, <1>2, <1>3, <1>4, <1>5, <1>6, <1>7, <1>8, <1>9, <1>10, <1>11, <1>12, <1>13,
     <1>14, <1>15, <1>16, <1>17, <1>18, <1>19, UntroubledStep

(* While the file of a former observer lies there, nobody comes past it. *)
LeftoverStops ==
  socket = Former =>
    /\ \A p \in Process : at[p] = "none"
    /\ \A s \in Starter : starter[s] \in Beginning \cup {"checkingFile", "removing", "unlinking"}

(* Whoever removed the file is on the way to bind its own. *)
Refilled ==
  socket = None =>
    OnTheWay \/ \A s \in Starter : at[s] = "none" /\ starter[s] \in Beginning \cup {"asking"}

LEMMA RefillParts ==
  /\ PathIsRefilled <=> LeftoverStops /\ Refilled
  /\ PathIsRefilled' <=> LeftoverStops' /\ Refilled'
  BY DEF PathIsRefilled, LeftoverStops, Refilled

LEMMA LeftoverStopsStep ==
  ASSUME IInv, NothingStops, LeftoverStops, [Next]_vars, "trouble" \notin incidents'
  PROVE  LeftoverStops'
<1> USE Names DEF IInv, TypeOK, Goto, Become, Smoothly, observerVars, lockVars,
        NothingStops, LeftoverStops, Beginning, Leftover, Answers, Accepts, Listening
<1>1. ASSUME NEW p \in Process, CheckPath(p) PROVE LeftoverStops'
  BY <1>1 DEF CheckPath
<1>2. ASSUME NEW p \in Process, Bind(p) PROVE LeftoverStops'
  BY <1>2 DEF Bind
<1>3. ASSUME NEW p \in Process, Started(p) PROVE LeftoverStops'
  BY <1>3 DEF Started
<1>4. ASSUME NEW h \in Hook, FirstDelivery(h) PROVE LeftoverStops'
  BY <1>4 DEF FirstDelivery
<1>5. ASSUME NEW h \in Hook, MakeLock(h) PROVE LeftoverStops'
  BY <1>5 DEF MakeLock
<1>6. ASSUME NEW h \in Hook, StatLock(h) PROVE LeftoverStops'
  BY <1>6 DEF StatLock
<1>7. ASSUME NEW h \in Hook, BreakLock(h) PROVE LeftoverStops'
  BY <1>7, LockIsKept DEF BreakLock, TakenFrom
<1>8. ASSUME NEW h \in Hook, Release(h) PROVE LeftoverStops'
  BY <1>8 DEF Release
<1>9. ASSUME NEW h \in Hook, ContendedHealth(h) PROVE LeftoverStops'
  BY <1>9 DEF ContendedHealth
<1>10. ASSUME NEW h \in Hook, SecondDelivery(h) PROVE LeftoverStops'
  BY <1>10 DEF SecondDelivery
<1>11. ASSUME NEW s \in Starter, CheckStatus(s) PROVE LeftoverStops'
  BY <1>11 DEF CheckStatus
<1>12. ASSUME NEW s \in Starter, AskHealth(s) PROVE LeftoverStops'
  BY <1>12 DEF AskHealth, Success
<1>13. ASSUME NEW s \in Starter, CheckAgain(s) PROVE LeftoverStops'
  BY <1>13 DEF CheckAgain
<1>14. ASSUME NEW s \in Starter, UnlinkStale(s) PROVE LeftoverStops'
  BY <1>14 DEF UnlinkStale, Failure
<1>15. ASSUME NEW s \in Starter, Spawn(s) PROVE LeftoverStops'
  BY <1>15 DEF Spawn
<1>16. ASSUME NEW s \in Starter, Healthy(s) PROVE LeftoverStops'
  BY <1>16 DEF Healthy, Success
<1>17. ASSUME NEW c \in Cli, CliStart(c) PROVE LeftoverStops'
  BY <1>17 DEF CliStart, LookForFile
<1>18. CASE LockAges
  BY <1>18 DEF LockAges
<1>19. CASE UNCHANGED vars
  BY <1>19 DEF vars, observerVars, lockVars
<1> QED
  BY <1>1, <1>2, <1>3, <1>4, <1>5, <1>6, <1>7, <1>8, <1>9, <1>10, <1>11, <1>12, <1>13,
     <1>14, <1>15, <1>16, <1>17, <1>18, <1>19, UntroubledStep

LEMMA RefilledStep ==
  ASSUME IInv, NothingStops, PathIsRefilled, [Next]_vars, "trouble" \notin incidents'
  PROVE  Refilled'
<1> USE Names DEF IInv, TypeOK, Goto, Become, Smoothly, observerVars, lockVars,
        NothingStops, Refilled, OnTheWay, PathIsRefilled, Beginning, Leftover, Answers, Accepts, Listening
<1>1. ASSUME NEW p \in Process, CheckPath(p) PROVE Refilled'
  BY <1>1 DEF CheckPath
<1>2. ASSUME NEW p \in Process, Bind(p) PROVE Refilled'
  BY <1>2 DEF Bind
<1>3. ASSUME NEW p \in Process, Started(p) PROVE Refilled'
  BY <1>3 DEF Started
<1>4. ASSUME NEW h \in Hook, FirstDelivery(h) PROVE Refilled'
  BY <1>4 DEF FirstDelivery
<1>5. ASSUME NEW h \in Hook, MakeLock(h) PROVE Refilled'
  BY <1>5 DEF MakeLock
<1>6. ASSUME NEW h \in Hook, StatLock(h) PROVE Refilled'
  BY <1>6 DEF StatLock
<1>7. ASSUME NEW h \in Hook, BreakLock(h) PROVE Refilled'
  BY <1>7, LockIsKept DEF BreakLock, TakenFrom
<1>8. ASSUME NEW h \in Hook, Release(h) PROVE Refilled'
  BY <1>8 DEF Release
<1>9. ASSUME NEW h \in Hook, ContendedHealth(h) PROVE Refilled'
  BY <1>9 DEF ContendedHealth
<1>10. ASSUME NEW h \in Hook, SecondDelivery(h) PROVE Refilled'
  BY <1>10 DEF SecondDelivery
<1>11. ASSUME NEW s \in Starter, CheckStatus(s) PROVE Refilled'
  BY <1>11 DEF CheckStatus
<1>12. ASSUME NEW s \in Starter, AskHealth(s) PROVE Refilled'
  BY <1>12 DEF AskHealth, Success
<1>13. ASSUME NEW s \in Starter, CheckAgain(s) PROVE Refilled'
  BY <1>13 DEF CheckAgain
<1>14. ASSUME NEW s \in Starter, UnlinkStale(s) PROVE Refilled'
  BY <1>14 DEF UnlinkStale, Failure
<1>15. ASSUME NEW s \in Starter, Spawn(s) PROVE Refilled'
  BY <1>15 DEF Spawn
<1>16. ASSUME NEW s \in Starter, Healthy(s) PROVE Refilled'
  BY <1>16 DEF Healthy, Success
<1>17. ASSUME NEW c \in Cli, CliStart(c) PROVE Refilled'
  BY <1>17 DEF CliStart, LookForFile
<1>18. CASE LockAges
  BY <1>18 DEF LockAges
<1>19. CASE UNCHANGED vars
  BY <1>19 DEF vars, observerVars, lockVars
<1> QED
  BY <1>1, <1>2, <1>3, <1>4, <1>5, <1>6, <1>7, <1>8, <1>9, <1>10, <1>11, <1>12, <1>13,
     <1>14, <1>15, <1>16, <1>17, <1>18, <1>19, UntroubledStep

(* On an undisturbed machine nobody removes the file of an observer.       *)
LEMMA HooksPart ==
  ASSUME IInv, NothingStops, PathIsRefilled,
         incidents \subseteq {"leftover"} \/ incidents \subseteq {"unlocked"},
         NEW s \in Starter, starter[s] \in {"removing", "unlinking"}
  PROVE  /\ Silent /\ s \in Hook
         /\ starter[s] = "unlinking" => socket # None
<1>1. TypeOK /\ SpawnsLast /\ RemovalIsNoted /\ LockHolds
  BY DEF IInv
<1>2. incidents \subseteq {"leftover"}
  BY <1>1 DEF RemovalIsNoted
<1>3. LockedStart
  BY <1>1, <1>2 DEF LockHolds
<1>4. s \in Hook
  BY <1>3, Names DEF LockedStart, CliEnd
<1>5. Silent /\ lock = s
  BY <1>3, <1>4 DEF LockedStart, UnderLock
<1>6. ASSUME starter[s] = "unlinking", socket = None PROVE FALSE
  <2>1. OnTheWay
    BY <1>6, Names DEF PathIsRefilled, Beginning
  <2>2. ASSUME NEW p \in Process, at[p] \in {"checking", "binding"} PROVE FALSE
    <3>1. lock = p
      BY <1>3, <2>2 DEF LockedStart, Arriving
    <3>2. at[s] = "none"
      BY <1>1, <1>6 DEF SpawnsLast
    <3> QED
      BY <1>5, <2>2, <3>1, <3>2
  <2>3. ASSUME NEW q \in Starter, starter[q] = "spawning" PROVE FALSE
    <3>1. q \in Hook
      BY <1>3, <2>3, Names DEF LockedStart, CliEnd
    <3>2. lock = q
      BY <1>3, <2>3, <3>1 DEF LockedStart, UnderLock
    <3> QED
      BY <1>5, <1>6, <2>3, <3>2
  <2> QED
    BY <2>1, <2>2, <2>3 DEF OnTheWay
<1> QED
  BY <1>4, <1>5, <1>6

LEMMA OneHookStep ==
  ASSUME IInv, NothingStops, PathIsRefilled, OneHookSpawns, [Next]_vars,
         "trouble" \notin incidents',
         incidents \subseteq {"leftover"} \/ incidents \subseteq {"unlocked"}
  PROVE  OneHookSpawns'
<1> USE Names DEF IInv, TypeOK, Goto, Become, Smoothly, observerVars, lockVars,
        NothingStops, OneHookSpawns, UnderLock, Leftover, Answers, Accepts, Listening
<1>1. ASSUME NEW p \in Process, CheckPath(p) PROVE OneHookSpawns'
  BY <1>1 DEF CheckPath
<1>2. ASSUME NEW p \in Process, Bind(p) PROVE OneHookSpawns'
  BY <1>2 DEF Bind
<1>3. ASSUME NEW p \in Process, Started(p) PROVE OneHookSpawns'
  BY <1>3 DEF Started
<1>4. ASSUME NEW h \in Hook, FirstDelivery(h) PROVE OneHookSpawns'
  BY <1>4 DEF FirstDelivery
<1>5. ASSUME NEW h \in Hook, MakeLock(h) PROVE OneHookSpawns'
  BY <1>5 DEF MakeLock
<1>6. ASSUME NEW h \in Hook, StatLock(h) PROVE OneHookSpawns'
  BY <1>6 DEF StatLock
<1>7. ASSUME NEW h \in Hook, BreakLock(h) PROVE OneHookSpawns'
  BY <1>7, LockIsKept DEF BreakLock, TakenFrom
<1>8. ASSUME NEW h \in Hook, Release(h) PROVE OneHookSpawns'
  BY <1>8 DEF Release
<1>9. ASSUME NEW h \in Hook, ContendedHealth(h) PROVE OneHookSpawns'
  BY <1>9 DEF ContendedHealth
<1>10. ASSUME NEW h \in Hook, SecondDelivery(h) PROVE OneHookSpawns'
  BY <1>10 DEF SecondDelivery
<1>11. ASSUME NEW s \in Starter, CheckStatus(s) PROVE OneHookSpawns'
  BY <1>11 DEF CheckStatus
<1>12. ASSUME NEW s \in Starter, AskHealth(s) PROVE OneHookSpawns'
  BY <1>12 DEF AskHealth, Success
<1>13. ASSUME NEW s \in Starter, CheckAgain(s) PROVE OneHookSpawns'
  <2>1. /\ Silent /\ s \in Hook /\ lock = s
        /\ UNCHANGED <<at, stop, lock>>
    BY <1>13, HooksPart DEF CheckAgain
  <2>2. ~Answers
    BY <2>1 DEF Silent
  <2>3. ASSUME NEW g \in Hook PROVE at[g] = "none"
    <3>1. at[g] # "none" => lock = g /\ starter[g] = "waiting"
      BY <2>2
    <3> QED
      BY <1>13, <2>1, <3>1 DEF CheckAgain
  <2>4. PICK to \in {"unlinking", "spawning"} : starter' = [starter EXCEPT ![s] = to]
    BY <1>13 DEF CheckAgain
  <2> QED
    BY <1>13, <2>1, <2>3, <2>4 DEF CheckAgain
<1>14. ASSUME NEW s \in Starter, UnlinkStale(s) PROVE OneHookSpawns'
  <2>1. /\ Silent /\ s \in Hook /\ lock = s
        /\ UNCHANGED <<at, stop, lock>>
    BY <1>14, HooksPart DEF UnlinkStale
  <2>2. ~Answers
    BY <2>1 DEF Silent
  <2>3. ASSUME NEW g \in Hook PROVE at[g] = "none"
    <3>1. at[g] # "none" => lock = g /\ starter[g] = "waiting"
      BY <2>2
    <3> QED
      BY <1>14, <2>1, <3>1 DEF UnlinkStale
  <2>4. starter' = [starter EXCEPT ![s] = "spawning"]
    BY <1>14, <2>1, HooksPart DEF UnlinkStale
  <2> QED
    BY <1>14, <2>1, <2>2, <2>3, <2>4 DEF UnlinkStale
<1>15. ASSUME NEW s \in Starter, Spawn(s) PROVE OneHookSpawns'
  <2>1. /\ starter[s] = "spawning" /\ at' = [at EXCEPT ![s] = "checking"]
        /\ starter' = [starter EXCEPT ![s] = "waiting"] /\ UNCHANGED <<socket, lock, stop>>
    BY <1>15 DEF Spawn
  <2>2. Answers => Answers'
    <3>1. at[s] = "none"
      BY <2>1 DEF SpawnsLast
    <3> QED
      BY <2>1, <3>1
  <2>3. CASE s \in Hook
    <3>1. \A g \in Hook : at[g] = "none"
      BY <2>1, <2>3
    <3>2. \A g \in Hook : g # s => starter'[g] # "spawning" /\ at'[g] = "none"
      BY <2>1, <2>3, <3>1
    <3> HIDE DEF Answers
    <3> QED
      BY <2>1, <2>2, <2>3, <3>1, <3>2
  <2>4. CASE s \notin Hook
    <3>1. \A g \in Hook : starter'[g] = starter[g] /\ at'[g] = at[g]
      BY <2>1, <2>4
    <3> HIDE DEF Answers
    <3> QED
      BY <2>2, <3>1
  <2> QED
    BY <2>3, <2>4
<1>16. ASSUME NEW s \in Starter, Healthy(s) PROVE OneHookSpawns'
  BY <1>16 DEF Healthy, Success
<1>17. ASSUME NEW c \in Cli, CliStart(c) PROVE OneHookSpawns'
  BY <1>17 DEF CliStart, LookForFile
<1>18. CASE LockAges
  BY <1>18 DEF LockAges
<1>19. CASE UNCHANGED vars
  BY <1>19 DEF vars, observerVars, lockVars
<1> QED
  BY <1>1, <1>2, <1>3, <1>4, <1>5, <1>6, <1>7, <1>8, <1>9, <1>10, <1>11, <1>12, <1>13,
     <1>14, <1>15, <1>16, <1>17, <1>18, <1>19, UntroubledStep

(* What went wrong stays in the history. *)
LEMMA IncidentsGrow == ASSUME [Next]_vars PROVE incidents \subseteq incidents'
<1> USE DEF Smoothly, Happened, Fault
<1>1. ASSUME NEW p \in Process, ObserverStep(p) PROVE incidents \subseteq incidents'
  BY <1>1 DEF ObserverStep, CheckPath, UnlinkPath, Bind, Started, Close, Sweep
<1>2. ASSUME NEW h \in Hook, LockStep(h) PROVE incidents \subseteq incidents'
  BY <1>2 DEF LockStep, FirstDelivery, MakeLock, StatLock, BreakLock, Release, ContendedHealth,
              SecondDelivery
<1>3. ASSUME NEW s \in Starter, StartStep(s) PROVE incidents \subseteq incidents'
  BY <1>3 DEF StartStep, CheckStatus, AskHealth, CheckAgain, UnlinkStale, Spawn, Healthy, GiveUp
<1>4. ASSUME NEW c \in Cli, CliStep(c) PROVE incidents \subseteq incidents'
  BY <1>4 DEF CliStep, CliStart, CliStop, StopSeen, StopTimesOut
<1>5. CASE Misfortune
  BY <1>5 DEF Misfortune, CheckPathTimesOut, StartupReconcileThrows, Crash, MakeLockFails,
              CheckStatusTimesOut, AskHealthTimesOut, CheckAgainTimesOut, SpawnFails, StarterDies, LockAges
<1>6. CASE UNCHANGED vars
  BY <1>6 DEF vars
<1> QED
  BY <1>1, <1>2, <1>3, <1>4, <1>5, <1>6 DEF Next

LEMMA UntroubledInit == Init => Untroubled /\ Undisturbed
<1> SUFFICES ASSUME Init PROVE Untroubled /\ Undisturbed
  OBVIOUS
<1>1. /\ socket \in {None, Former} /\ "doubt" \notin incidents
      /\ \A p \in Process : at[p] = "none" /\ stop[p] = "no"
      /\ \A s \in Starter : starter[s] = "idle"
  BY DEF Init
<1>2. NothingStops
  BY <1>1, Names DEF NothingStops, UnderLock
<1>3. PathIsRefilled
  BY <1>1, Names DEF PathIsRefilled, Beginning
<1>4. OneHookSpawns
  BY <1>1, Names DEF OneHookSpawns
<1> QED
  BY <1>2, <1>3, <1>4 DEF Untroubled, Undisturbed

LEMMA UntroubledNext ==
  ASSUME IInv, Untroubled, Undisturbed, [Next]_vars
  PROVE  Untroubled' /\ Undisturbed'
<1>1. incidents \subseteq incidents'
  BY IncidentsGrow
<1>2. ASSUME "trouble" \notin incidents'
      PROVE  NothingStops /\ PathIsRefilled /\ NothingStops' /\ PathIsRefilled'
  <2>1. NothingStops /\ PathIsRefilled
    BY <1>1, <1>2 DEF Untroubled
  <2>2. NothingStops'
    BY <1>2, <2>1, NothingStopsStep
  <2>3. LeftoverStops' /\ Refilled'
    BY <1>2, <2>1, RefillParts, LeftoverStopsStep, RefilledStep
  <2> QED
    BY <2>1, <2>2, <2>3, RefillParts
<1>3. ASSUME incidents' \subseteq {"leftover"} \/ incidents' \subseteq {"unlocked"}
      PROVE  OneHookSpawns'
  <2>1. incidents \subseteq {"leftover"} \/ incidents \subseteq {"unlocked"}
    BY <1>1, <1>3
  <2>2. "trouble" \notin incidents'
    BY <1>3
  <2> QED
    BY <1>2, <2>1, <2>2, OneHookStep DEF Undisturbed
<1> QED
  BY <1>2, <1>3 DEF Untroubled, Undisturbed

LEMMA UntroubledHolds == Spec => [](Untroubled /\ Undisturbed)
<1>1. IInv /\ Untroubled /\ Undisturbed /\ [Next]_vars => (Untroubled /\ Undisturbed)'
  BY UntroubledNext
<1> QED
  BY IInvHolds, UntroubledInit, <1>1, PTL DEF Spec

(* However many hooks fail to deliver at once, after an observer that died   *)
(* or beside wosm processes that start one: at most one of them spawns, and  *)
(* none of their events is spooled or lost (deliveryPolicy.ts:58-75 and      *)
(* 150-232).                                                                 *)
THEOREM HooksDeliver == Spec => []AutoStartDelivers
<1>1. Undisturbed => AutoStartDelivers
  BY DEF Undisturbed, OneHookSpawns, AutoStartDelivers
<1> QED
  BY UntroubledHolds, <1>1, PTL

(* However many of them race for the path, with the lock or without it: once *)
(* every start has come to its end, an observer takes reports behind the     *)
(* path (observerStartup.ts, observerProcess.ts, transport.ts:33-105).       *)
THEOREM RacesLeaveOne == Spec => []SomebodyServes
<1>1. IInv /\ Untroubled => SomebodyServes
  <2> SUFFICES ASSUME IInv, Untroubled, Quiet, "trouble" \notin incidents,
                      NEW s \in Starter, starter[s] # "idle"
               PROVE  Accepts
    BY DEF SomebodyServes
  <2>1. NothingStops /\ PathIsRefilled
    BY DEF Untroubled
  <2>2. starter[s] \in HookEnd \cup CliEnd
    BY DEF Quiet
  <2>3. socket # Former
    BY <2>1, <2>2 DEF PathIsRefilled, Beginning, HookEnd, CliEnd
  <2>4. ~OnTheWay
    BY DEF Quiet, OnTheWay, HookEnd, CliEnd
  <2>5. socket # None
    BY <2>1, <2>2, <2>4 DEF PathIsRefilled, Beginning, HookEnd, CliEnd
  <2>6. socket \in Process
    BY <2>3, <2>5 DEF IInv, TypeOK
  <2> QED
    BY <2>1, <2>6 DEF NothingStops, Accepts, Answers
<1> QED
  BY IInvHolds, UntroubledHolds, <1>1, PTL
=============================================================================
