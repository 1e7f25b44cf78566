----------------------- MODULE HarnessIngressQueueProofs -----------------------
(***************************************************************************)
(* The ingress queue holds what it accepted, within its bound, for every   *)
(* set of reports, keys and callers and every size of the queue and of its *)
(* memory.                                                                 *)
(***************************************************************************)
EXTENDS HarnessIngressQueue, FiniteSetTheorems, TLAPS

Elements(s) == {s[i] : i \in 1..Len(s)}
Once(s) == \A i, j \in 1..Len(s) : s[i] = s[j] => i = j

(* What the properties do not say and the next step needs: no ready key is  *)
(* queued twice, the worker holds exactly what is counted as active, and a  *)
(* shutdown that has stopped waiting finds nothing left, then and later.    *)
ReadyOnce == Once(workQueue)
ActiveIsCurrent == active = (IF current = NoReport THEN 0 ELSE 1)
DrainedIsIdle ==
  /\ shuttingDown /\ Stopper \notin waiters => Idle
  /\ stopped => shuttingDown /\ Idle

QueueInv ==
  /\ QueueTypeOK
  /\ IsFiniteSet(PendingKeys)
  /\ ReadyKeysMatchPending /\ ReadyOnce /\ ActiveIsCurrent /\ DrainedIsIdle
  /\ DepthBounded
  /\ QueuedIsHeld

-----------------------------------------------------------------------------
(* Sequences without repetitions: what appending and taking do to the set  *)
(* of their elements.                                                      *)

LEMMA AppendElements ==
  ASSUME NEW S, NEW s \in Seq(S), NEW e \in S, e \notin Elements(s), Once(s)
  PROVE  /\ Elements(Append(s, e)) = Elements(s) \cup {e}
         /\ Once(Append(s, e))
<1>1. /\ Len(Append(s, e)) = Len(s) + 1 /\ Len(s) \in Nat
      /\ \A i \in 1..Len(s) : Append(s, e)[i] = s[i]
      /\ Append(s, e)[Len(s) + 1] = e
  OBVIOUS
<1>2. Elements(Append(s, e)) = Elements(s) \cup {e}
  BY <1>1 DEF Elements
<1>3. Once(Append(s, e))
  <2> SUFFICES ASSUME NEW i \in 1..Len(s) + 1, NEW j \in 1..Len(s) + 1,
                      Append(s, e)[i] = Append(s, e)[j]
               PROVE  i = j
    BY <1>1 DEF Once
  <2>1. CASE i \in 1..Len(s) /\ j \in 1..Len(s)
    BY <1>1, <2>1 DEF Once
  <2>2. \A x \in 1..Len(s) : s[x] # e
    BY DEF Elements
  <2> QED
    BY <1>1, <2>1, <2>2
<1> QED
  BY <1>2, <1>3

LEMMA TailElements ==
  ASSUME NEW S, NEW s \in Seq(S), s # <<>>, Once(s)
  PROVE  /\ Elements(Tail(s)) = Elements(s) \ {Head(s)}
         /\ Head(s) \in Elements(s)
         /\ Once(Tail(s))
         /\ Len(Tail(s)) = Len(s) - 1
<1>1. /\ Len(Tail(s)) = Len(s) - 1 /\ Len(s) \in Nat \ {0} /\ Head(s) = s[1]
      /\ \A i \in 1..Len(s) - 1 : Tail(s)[i] = s[i + 1]
  OBVIOUS
<1>2. Elements(Tail(s)) = Elements(s) \ {Head(s)}
  <2>1. ASSUME NEW x \in Elements(Tail(s)) PROVE x \in Elements(s) \ {Head(s)}
    <3>1. PICK i \in 1..Len(s) - 1 : x = s[i + 1]
      BY <1>1 DEF Elements
    <3>2. i + 1 \in 1..Len(s) /\ i + 1 # 1 /\ 1 \in 1..Len(s)
      BY <1>1
    <3> QED
      BY <1>1, <3>1, <3>2 DEF Elements, Once
  <2>2. ASSUME NEW x \in Elements(s) \ {Head(s)} PROVE x \in Elements(Tail(s))
    <3>1. PICK i \in 1..Len(s) : x = s[i] /\ i # 1
      BY <1>1 DEF Elements
    <3>2. i - 1 \in 1..Len(s) - 1 /\ i = (i - 1) + 1
      BY <1>1, <3>1
    <3>3. x = Tail(s)[i - 1]
      BY <1>1, <3>1, <3>2
    <3> QED
      BY <1>1, <3>2, <3>3 DEF Elements
  <2> QED
    BY <2>1, <2>2
<1>3. Once(Tail(s))
  <2> SUFFICES ASSUME NEW i \in 1..Len(s) - 1, NEW j \in 1..Len(s) - 1, s[i + 1] = s[j + 1]
               PROVE  i = j
    BY <1>1 DEF Once
  <2>1. i + 1 \in 1..Len(s) /\ j + 1 \in 1..Len(s)
    BY <1>1
  <2>2. i + 1 = j + 1
    BY <2>1 DEF Once
  <2> QED
    BY <1>1, <2>2
<1>4. Head(s) \in Elements(s)
  <2>1. 1 \in 1..Len(s)
    BY <1>1
  <2> QED
    BY <1>1, <2>1 DEF Elements
<1> QED
  BY <1>1, <1>2, <1>3, <1>4

LEMMA RememberType ==
  ASSUME NEW r \in Report, seen \in Seq(Report), Remember(r) PROVE seen' \in Seq(Report)
<1> DEFINE longer == Append(seen, r)
           extra == IF Len(longer) > MaxRemembered THEN Len(longer) - MaxRemembered ELSE 0
<1>1. longer \in Seq(Report) /\ Len(longer) \in Nat /\ extra \in Nat
  BY HarnessIngressQueueAssumption
<1>2. SubSeq(longer, extra + 1, Len(longer)) \in Seq(Report)
  <2> HIDE DEF longer, extra
  <2> QED
    BY <1>1
<1> QED
  BY <1>2 DEF Remember

-----------------------------------------------------------------------------
(* The steps.  A step that leaves the structures and what became of the    *)
(* reports alone keeps all of the invariant but types and waiters.         *)

Structures == <<pending, workQueue, active, current, fate>>

LEMMA QueueKept ==
  ASSUME QueueInv, UNCHANGED Structures, QueueTypeOK', DrainedIsIdle'
  PROVE  QueueInv'
<1>1. PendingKeys' = PendingKeys
  BY DEF Structures, PendingKeys
<1>2. Depth' = Depth
  BY <1>1 DEF Structures, Depth
<1>3. QueuedIsHeld'
  BY DEF QueueInv, QueuedIsHeld, Structures
<1> QED
  BY <1>1, <1>2, <1>3
     DEF QueueInv, Structures, ReadyKeysMatchPending, ReadyOnce, ActiveIsCurrent, DepthBounded

LEMMA EnqueueStep ==
  ASSUME QueueInv, NEW r \in Report, Enqueue(r) PROVE QueueInv'
<1> DEFINE k == CoalesceKey[r]
<1>1. k \in Key /\ r # NoReport
  BY HarnessIngressQueueAssumption
<1>2. /\ pending' = [pending EXCEPT ![k] = r]
      /\ workQueue' = IF pending[k] = NoReport THEN Append(workQueue, k) ELSE workQueue
      /\ ~shuttingDown /\ ~(pending[k] = NoReport /\ Depth >= MaxPending)
      /\ UNCHANGED <<active, current, shuttingDown, stopped, waiters>>
  BY DEF Enqueue, Hold, Offer, Full
<1>3. /\ pending \in [Key -> Report \cup {NoReport}] /\ workQueue \in Seq(Key)
      /\ active \in Nat /\ IsFiniteSet(PendingKeys) /\ Cardinality(PendingKeys) \in Nat
      /\ Elements(workQueue) = PendingKeys /\ Len(workQueue) = Cardinality(PendingKeys)
      /\ Once(workQueue) /\ Depth <= MaxPending /\ MaxPending \in Nat
  BY FS_CardinalityType, HarnessIngressQueueAssumption
     DEF QueueInv, QueueTypeOK, ReadyKeysMatchPending, ReadyOnce, DepthBounded, Elements
<1>4. PendingKeys' = PendingKeys \cup {k}
  BY <1>1, <1>2, <1>3 DEF PendingKeys
<1>5. k \in PendingKeys <=> pending[k] # NoReport
  BY <1>1 DEF PendingKeys
<1>6. QueueTypeOK'
  <2>1. workQueue' \in Seq(Key)
    BY <1>1, <1>2, <1>3
  <2>2. seen' \in Seq(Report)
    BY RememberType DEF Enqueue, QueueInv, QueueTypeOK
  <2>3. enqueued' \in Nat
    BY DEF Enqueue, QueueInv, QueueTypeOK
  <2>4. fate' \in [Report -> Fate]
    BY DEF Enqueue, QueueInv, QueueTypeOK, Fate
  <2> QED
    BY <1>1, <1>2, <1>3, <2>1, <2>2, <2>3, <2>4 DEF QueueInv, QueueTypeOK
<1>7. /\ IsFiniteSet(PendingKeys')
      /\ Cardinality(PendingKeys') =
           IF k \in PendingKeys THEN Cardinality(PendingKeys) ELSE Cardinality(PendingKeys) + 1
  BY <1>3, <1>4, FS_AddElement
<1>8. ReadyKeysMatchPending' /\ ReadyOnce'
  <2>1. CASE k \in PendingKeys
    BY <1>2, <1>3, <1>4, <1>5, <1>7, <2>1 DEF ReadyKeysMatchPending, ReadyOnce, Elements
  <2>2. CASE k \notin PendingKeys
    <3>1. workQueue' = Append(workQueue, k)
      BY <1>2, <1>5, <2>2
    <3>2. Elements(workQueue') = PendingKeys' /\ Once(workQueue')
      BY <1>1, <1>3, <1>4, <2>2, <3>1, AppendElements
    <3>3. Len(workQueue') = Len(workQueue) + 1
      BY <1>3, <3>1
    <3> QED
      BY <1>3, <1>7, <2>2, <3>2, <3>3 DEF ReadyKeysMatchPending, ReadyOnce, Elements
  <2> QED
    BY <2>1, <2>2
<1>9. ActiveIsCurrent' /\ DrainedIsIdle'
  BY <1>2 DEF QueueInv, ActiveIsCurrent, DrainedIsIdle
<1>10. DepthBounded'
  BY <1>2, <1>3, <1>5, <1>7 DEF DepthBounded, Depth
<1>11. QueuedIsHeld'
  <2> SUFFICES ASSUME NEW x \in Report, fate'[x] = "queued"
               PROVE  x = current \/ pending'[CoalesceKey[x]] = x
    BY <1>2 DEF QueuedIsHeld
  <2>1. CASE x = r
    BY <1>1, <1>2, <1>3, <2>1
  <2>2. CASE x # r
    <3>1. x # pending[k] /\ fate[x] = "queued"
      BY <2>2 DEF Enqueue
    <3>2. x = current \/ pending[CoalesceKey[x]] = x
      BY <3>1 DEF QueueInv, QueuedIsHeld
    <3>3. CoalesceKey[x] \in Key
      BY HarnessIngressQueueAssumption
    <3> QED
      BY <1>1, <1>2, <1>3, <3>1, <3>2, <3>3
  <2> QED
    BY <2>1, <2>2
<1> QED
  BY <1>6, <1>7, <1>8, <1>9, <1>10, <1>11 DEF QueueInv

LEMMA TakenIsReport ==
  ASSUME QueueInv, Take PROVE current' \in Report
<1>1. /\ workQueue \in Seq(Key) /\ workQueue # <<>> /\ Once(workQueue)
      /\ Elements(workQueue) = PendingKeys /\ pending \in [Key -> Report \cup {NoReport}]
  BY DEF QueueInv, QueueTypeOK, ReadyKeysMatchPending, ReadyOnce, Elements, Take
<1>2. Head(workQueue) \in PendingKeys
  BY <1>1, TailElements
<1> QED
  BY <1>1, <1>2 DEF PendingKeys, Take

LEMMA TakeStep ==
  ASSUME QueueInv, Take PROVE QueueInv'
<1> DEFINE k == Head(workQueue)
<1>1. /\ pending \in [Key -> Report \cup {NoReport}] /\ workQueue \in Seq(Key)
      /\ active \in Nat /\ IsFiniteSet(PendingKeys) /\ Cardinality(PendingKeys) \in Nat
      /\ Elements(workQueue) = PendingKeys /\ Len(workQueue) = Cardinality(PendingKeys)
      /\ Once(workQueue) /\ Depth <= MaxPending /\ MaxPending \in Nat
      /\ workQueue # <<>> /\ current = NoReport /\ active = 0
  BY FS_CardinalityType, HarnessIngressQueueAssumption
     DEF QueueInv, QueueTypeOK, ReadyKeysMatchPending, ReadyOnce, DepthBounded, Elements,
         Take, ActiveIsCurrent
<1>2. /\ k \in PendingKeys /\ Once(workQueue') /\ Len(workQueue') = Len(workQueue) - 1
      /\ Elements(workQueue') = PendingKeys \ {k}
  BY <1>1, TailElements DEF Take
<1>3. k \in Key /\ pending[k] \in Report /\ pending[k] # NoReport
  BY <1>1, <1>2 DEF PendingKeys
<1>4. /\ current' = pending[k] /\ active' = 1 /\ pending' = [pending EXCEPT ![k] = NoReport]
      /\ workQueue' = Tail(workQueue)
      /\ UNCHANGED <<seen, shuttingDown, stopped, enqueued, fate>>
      /\ waiters' = IF Idle' THEN {} ELSE waiters
  BY <1>1, <1>3 DEF Take, Release
<1>5. PendingKeys' = PendingKeys \ {k}
  BY <1>1, <1>3, <1>4 DEF PendingKeys
<1>6. /\ IsFiniteSet(PendingKeys') /\ Cardinality(PendingKeys') = Cardinality(PendingKeys) - 1
  BY <1>1, <1>2, <1>5, FS_RemoveElement
<1>7. QueueTypeOK'
  BY <1>1, <1>3, <1>4 DEF QueueInv, QueueTypeOK
<1>8. ReadyKeysMatchPending' /\ ReadyOnce'
  BY <1>1, <1>2, <1>5, <1>6 DEF ReadyKeysMatchPending, ReadyOnce, Elements
<1>9. ActiveIsCurrent'
  BY <1>3, <1>4 DEF ActiveIsCurrent
<1>10. DrainedIsIdle'
  <2>1. ~Idle' /\ ~Idle
    BY <1>2, <1>4 DEF Idle
  <2> QED
    BY <1>4, <2>1 DEF QueueInv, DrainedIsIdle
<1>11. DepthBounded'
  BY <1>1, <1>4, <1>6 DEF DepthBounded, Depth
<1>12. QueuedIsHeld'
  <2> SUFFICES ASSUME NEW x \in Report, fate[x] = "queued"
               PROVE  x = current' \/ pending'[CoalesceKey[x]] = x
    BY <1>4 DEF QueuedIsHeld
  <2>1. pending[CoalesceKey[x]] = x /\ CoalesceKey[x] \in Key
    BY <1>1, HarnessIngressQueueAssumption DEF QueueInv, QueuedIsHeld
  <2> QED
    BY <1>1, <1>4, <2>1
<1> QED
  BY <1>6, <1>7, <1>8, <1>9, <1>10, <1>11, <1>12 DEF QueueInv

LEMMA FinishStep ==
  ASSUME QueueInv, Finish PROVE QueueInv'
<1>1. /\ QueueTypeOK /\ active = 1 /\ active' = 0 /\ current # NoReport /\ current' = NoReport
      /\ UNCHANGED <<pending, workQueue, seen, shuttingDown, stopped, enqueued>>
      /\ fate' = [fate EXCEPT ![current] = IF @ = "queued" THEN "finished" ELSE @]
      /\ waiters' = IF Idle' THEN {} ELSE waiters
  BY DEF QueueInv, ActiveIsCurrent, Finish, Release
<1>2. PendingKeys' = PendingKeys
  BY <1>1 DEF PendingKeys
<1>3. QueueTypeOK'
  <2>2. fate' \in [Report -> Fate]
    BY <1>1 DEF QueueTypeOK, Fate
  <2>3. waiters' \in SUBSET (Caller \cup {Stopper})
    BY <1>1 DEF QueueTypeOK
  <2> QED
    BY <1>1, <2>2, <2>3 DEF QueueTypeOK
<1>4. DrainedIsIdle'
  <2>1. ~stopped
    BY DEF Finish, WorkerRuns
  <2>2. CASE Idle'
    BY <1>1, <2>1, <2>2 DEF DrainedIsIdle
  <2>3. CASE ~Idle'
    BY <1>1, <2>1, <2>3 DEF QueueInv, DrainedIsIdle, Idle
  <2> QED
    BY <2>2, <2>3
<1>5. Depth' <= MaxPending
  <2>1. Cardinality(PendingKeys) \in Nat /\ MaxPending \in Nat
    BY FS_CardinalityType, HarnessIngressQueueAssumption DEF QueueInv
  <2> QED
    BY <1>1, <1>2, <2>1 DEF QueueInv, DepthBounded, Depth
<1>6. QueuedIsHeld'
  <2> SUFFICES ASSUME NEW x \in Report, fate'[x] = "queued"
               PROVE  pending[CoalesceKey[x]] = x
    BY <1>1 DEF QueuedIsHeld
  <2>1. x # current /\ fate[x] = "queued"
    BY <1>1 DEF QueueTypeOK
  <2> QED
    BY <2>1 DEF QueueInv, QueuedIsHeld
<1>7. ActiveIsCurrent'
  BY <1>1 DEF ActiveIsCurrent
<1> QED
  BY <1>1, <1>2, <1>3, <1>4, <1>5, <1>6, <1>7
     DEF QueueInv, ReadyKeysMatchPending, ReadyOnce, DepthBounded

LEMMA StopStep ==
  ASSUME QueueInv, StopWorker PROVE QueueInv'
<1>1. /\ Idle /\ active = 0 /\ PendingKeys = {} /\ current = NoReport
  BY DEF QueueInv, StopWorker, DrainedIsIdle, Idle, ActiveIsCurrent
<1>2. workQueue = <<>>
  <2>1. workQueue \in Seq(Key) /\ Len(workQueue) = 0
    BY <1>1, FS_EmptySet DEF QueueInv, QueueTypeOK, ReadyKeysMatchPending
  <2> QED
    BY <2>1
<1>3. UNCHANGED Structures
  BY <1>1, <1>2 DEF StopWorker, Structures
<1>4. QueueTypeOK'
  BY DEF StopWorker, QueueInv, QueueTypeOK
<1>5. DrainedIsIdle'
  BY <1>1, <1>3 DEF StopWorker, DrainedIsIdle, Idle, PendingKeys, Structures
<1> QED
  BY <1>3, <1>4, <1>5, QueueKept

(* What only answers, waits or begins a shutdown. *)
LEMMA WaitStep ==
  ASSUME QueueInv,
         \/ \E r \in Report : EnqueueRejected(r) \/ EnqueueDeduped(r)
         \/ \E w \in Caller : Drain(w)
         \/ ShutDown
         \/ UNCHANGED queueVars
  PROVE  QueueInv'
<1>1. UNCHANGED Structures
  BY DEF Structures, EnqueueRejected, EnqueueDeduped, Drain, ShutDown, queueVars
<1>2. Idle' <=> Idle
  BY <1>1 DEF Structures, Idle, PendingKeys
<1>3. QueueTypeOK' /\ DrainedIsIdle'
  <2>2. ASSUME NEW w \in Caller, Drain(w) PROVE QueueTypeOK' /\ DrainedIsIdle'
    BY <1>2, <2>2 DEF Drain, Wait, QueueInv, QueueTypeOK, DrainedIsIdle
  <2>3. CASE ShutDown
    BY <1>2, <2>3 DEF ShutDown, Wait, QueueInv, QueueTypeOK, DrainedIsIdle
  <2>4. CASE UNCHANGED queueVars
    BY <1>2, <2>4 DEF queueVars, QueueInv, QueueTypeOK, DrainedIsIdle
  <2>5. ASSUME NEW r \in Report, EnqueueRejected(r) \/ EnqueueDeduped(r) PROVE UNCHANGED queueVars
    BY <2>5 DEF EnqueueRejected, EnqueueDeduped
  <2> QED
    BY <2>2, <2>3, <2>4, <2>5
<1> QED
  BY <1>1, <1>3, QueueKept

-----------------------------------------------------------------------------
(* A queue as an observer starts with: empty, whatever became of the        *)
(* reports of its predecessor.                                              *)
FreshQueue ==
  /\ pending = [k \in Key |-> NoReport] /\ workQueue = <<>> /\ seen = <<>>
  /\ active = 0 /\ current = NoReport /\ waiters = {}
  /\ shuttingDown = FALSE /\ stopped = FALSE
  /\ enqueued = 0
  /\ fate \in [Report -> Fate] /\ \A r \in Report : fate[r] # "queued"

LEMMA FreshQueueHolds == FreshQueue => QueueInv
<1> SUFFICES ASSUME FreshQueue PROVE QueueInv
  OBVIOUS
<1>1. PendingKeys = {}
  BY DEF FreshQueue, PendingKeys
<1>2. QueueTypeOK
  <2>1. workQueue \in Seq(Key) /\ seen \in Seq(Report)
    BY DEF FreshQueue
  <2>2. enqueued \in Nat /\ fate \in [Report -> Fate]
    BY DEF FreshQueue
  <2>3. pending \in [Key -> Report \cup {NoReport}]
    BY DEF FreshQueue
  <2> QED
    BY <2>1, <2>2, <2>3 DEF FreshQueue, QueueTypeOK
<1>3. Cardinality(PendingKeys) = 0 /\ IsFiniteSet(PendingKeys)
  BY <1>1, FS_EmptySet
<1>4. ReadyKeysMatchPending /\ ReadyOnce
  BY <1>1, <1>3 DEF FreshQueue, ReadyKeysMatchPending, ReadyOnce, Once
<1>5. DepthBounded
  BY <1>3, HarnessIngressQueueAssumption DEF FreshQueue, DepthBounded, Depth
<1> QED
  BY <1>2, <1>3, <1>4, <1>5 DEF FreshQueue, QueueInv, ActiveIsCurrent, DrainedIsIdle, QueuedIsHeld

LEMMA QueueInvInit == QueueInit => QueueInv
BY FreshQueueHolds DEF QueueInit, FreshQueue, Fate

LEMMA QueueInvStep == QueueInv /\ [QueueNext]_queueVars => QueueInv'
<1> SUFFICES ASSUME QueueInv, [QueueNext]_queueVars PROVE QueueInv'
  OBVIOUS
<1>1. ASSUME NEW r \in Report, Enqueue(r) PROVE QueueInv'
  BY <1>1, EnqueueStep
<1>2. CASE Work
  BY <1>2, TakeStep, FinishStep DEF Work
<1>3. CASE StopWorker
  BY <1>3, StopStep
<1> QED
  BY <1>1, <1>2, <1>3, WaitStep DEF QueueNext

LEMMA QueueInvHolds == QueueSpec => []QueueInv
BY QueueInvInit, QueueInvStep, PTL DEF QueueSpec

(* Overflow never lets the queue hold more than its limit, the report the  *)
(* worker has taken out included, whatever coalesces; every pending report *)
(* has one ready key on its way to the worker and no ready key is stale;   *)
(* and an accepted report is pending or with the worker until it is        *)
(* processed or a newer one takes its place, also when a shutdown stops    *)
(* the worker (harnessIngressQueue.ts:108, 116, 302 and 330).              *)
THEOREM QueueStaysConsistent == QueueSpec => []QueueIsConsistent
<1>1. QueueInv => QueueIsConsistent
  BY DEF QueueInv, QueueIsConsistent
<1> QED
  BY <1>1, QueueInvHolds, PTL

-----------------------------------------------------------------------------
(* Nobody waits for a wake-up that nothing brings. *)
WaitersHaveWork == waiters # {} => ~Idle

LEMMA WaitersStep == QueueInv /\ WaitersHaveWork /\ [QueueNext]_queueVars => WaitersHaveWork'
<1> SUFFICES ASSUME QueueInv, WaitersHaveWork, [QueueNext]_queueVars PROVE WaitersHaveWork'
  OBVIOUS
<1>1. ASSUME NEW r \in Report, Enqueue(r) PROVE WaitersHaveWork'
  <2>1. CoalesceKey[r] \in Key /\ r # NoReport /\ pending \in [Key -> Report \cup {NoReport}]
    BY HarnessIngressQueueAssumption DEF QueueInv, QueueTypeOK
  <2>2. CoalesceKey[r] \in PendingKeys'
    BY <1>1, <2>1 DEF Enqueue, Hold, PendingKeys
  <2> QED
    BY <2>2 DEF WaitersHaveWork, Idle
<1>2. CASE Work
  BY <1>2 DEF Work, Take, Finish, Release, WaitersHaveWork
<1>3. CASE \/ \E r \in Report : EnqueueRejected(r) \/ EnqueueDeduped(r)
           \/ \E w \in Caller : Drain(w)
           \/ ShutDown \/ StopWorker \/ UNCHANGED queueVars
  <2>1. UNCHANGED <<pending, active>>
    BY <1>3 DEF EnqueueRejected, EnqueueDeduped, Drain, ShutDown, StopWorker, queueVars
  <2>2. Idle' <=> Idle
    BY <2>1 DEF Idle, PendingKeys
  <2>3. waiters' = waiters \/ ~Idle
    BY <1>3 DEF EnqueueRejected, EnqueueDeduped, Drain, ShutDown, StopWorker, Wait, queueVars
  <2> QED
    BY <2>2, <2>3 DEF WaitersHaveWork
<1> QED
  BY <1>1, <1>2, <1>3 DEF QueueNext

(* Whoever waits in drain() or shutdown() has a worker that runs and either *)
(* holds a report or has a ready key to take: the safety half of DrainEnds  *)
(* and ShutdownEnds.  No coalescing, overflow or shutdown leaves a waiter   *)
(* behind that no later change will wake (harnessIngressQueue.ts:156-231).  *)
THEOREM WaitersHaveWaker ==
  QueueSpec => [](waiters # {} => ~stopped /\ (current # NoReport \/ workQueue # <<>>))
<1>1. QueueInit => WaitersHaveWork
  BY DEF QueueInit, WaitersHaveWork
<1>2. QueueInv /\ WaitersHaveWork
        => (waiters # {} => ~stopped /\ (current # NoReport \/ workQueue # <<>>))
  <2> SUFFICES ASSUME QueueInv, ~Idle
               PROVE  ~stopped /\ (current # NoReport \/ workQueue # <<>>)
    BY DEF WaitersHaveWork
  <2>1. ~stopped
    BY DEF QueueInv, DrainedIsIdle
  <2>2. CASE active # 0
    BY <2>1, <2>2 DEF QueueInv, ActiveIsCurrent
  <2>3. CASE PendingKeys # {}
    <3>1. workQueue # <<>>
      BY <2>3 DEF QueueInv, ReadyKeysMatchPending
    <3> QED
      BY <2>1, <3>1
  <2> QED
    BY <2>2, <2>3 DEF Idle
<1> QED
  BY <1>1, <1>2, QueueInvInit, QueueInvStep, WaitersStep, PTL DEF QueueSpec
================================================================================
