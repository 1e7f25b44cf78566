------------------------- MODULE CommandQueueProofs -------------------------
(***************************************************************************)
(* What CommandQueue promises, for every set of commands, every handler    *)
(* table and every bound on faults and crashes: first the type invariant,  *)
(* then what a phase says about the row and the events of a command, then  *)
(* the shape of the chains, and from these the properties.                 *)
(***************************************************************************)
EXTENDS CommandQueue, TLAPS

(* Every command has a scope of its own among the scopes. *)
LEMMA ScopeOfInScope == ASSUME NEW c \in Command PROVE ScopeOf(c) \in Scope
BY DEF Scope

-----------------------------------------------------------------------------
LEMMA TypeInit == Init => TypeOK
BY CommandQueueAssumption
DEF Init, TypeOK, Phase, Status, EventType, Chained, Executing, Done, Dispatching

(* A write or a log append that fails stays within the bound. *)
LEMMA FaultsBounded ==
  ASSUME TypeOK, WriteThrows \/ LogThrows
  PROVE  faults' \in 0..MaxFaults
BY CommandQueueAssumption DEF TypeOK, WriteThrows, LogThrows

(* RecordFinished records whatever the row says, so the type of the events *)
(* rests on the phase.                                                     *)
LEMMA TypeStep == TypeOK /\ PhaseInv /\ [Next]_vars => TypeOK'
<1> SUFFICES ASSUME TypeOK, PhaseInv, [Next]_vars PROVE TypeOK'
  OBVIOUS
<1> USE CommandQueueAssumption
    DEF TypeOK, Goto, durable, links, budget,
        Phase, Status, EventType, Final, Chained, Executing, Done, Dispatching
<1>1. ASSUME NEW c \in Command, Reject(c) PROVE TypeOK'
  BY <1>1 DEF Reject
<1>2. ASSUME NEW c \in Command, Dispatch(c) PROVE TypeOK'
  BY <1>2 DEF Dispatch, Write
<1>3. ASSUME NEW c \in Command, RecordAccepted(c) PROVE TypeOK'
  BY <1>3 DEF RecordAccepted, Record
<1>4. ASSUME NEW c \in Command, Enqueue(c) PROVE TypeOK'
  <2>1. ScopeOf(c) \in Scope
    BY ScopeOfInScope
  <2>2. ChainOf(ScopeOf(c)) \in SUBSET Command
    BY DEF ChainOf, Pending
  <2> QED
    BY <1>4, <2>1, <2>2 DEF Enqueue, Publish
<1>5. ASSUME NEW c \in Command, DispatchThrows(c) PROVE TypeOK'
  BY <1>5, FaultsBounded DEF DispatchThrows, WriteThrows, LogThrows
<1>6. ASSUME NEW c \in Command, Begin(c) PROVE TypeOK'
  BY <1>6 DEF Begin, Write
<1>7. ASSUME NEW c \in Command, RecordStarted(c) PROVE TypeOK'
  BY <1>7 DEF RecordStarted, Record
<1>8. ASSUME NEW c \in Command, EnterBoundary(c) PROVE TypeOK'
  BY <1>8 DEF EnterBoundary, Publish
<1>9. ASSUME NEW c \in Command, HandlerReturns(c) PROVE TypeOK'
  BY <1>9 DEF HandlerReturns, ReturnedTo
<1>10. ASSUME NEW c \in Command, HandlerThrows(c) PROVE TypeOK'
  BY <1>10 DEF HandlerThrows
<1>11. ASSUME NEW c \in Command, Timeout(c) PROVE TypeOK'
  BY <1>11 DEF Timeout
<1>12. ASSUME NEW c \in Command, MarkSucceeded(c) \/ MarkFailed(c) PROVE TypeOK'
  BY <1>12 DEF MarkSucceeded, MarkFailed, Write
<1>13. ASSUME NEW c \in Command, RecordFinished(c) PROVE TypeOK'
  BY <1>13 DEF RecordFinished, Record, PhaseInv, RowOfPhase
<1>14. ASSUME NEW c \in Command, Settle(c) PROVE TypeOK'
  BY <1>14 DEF Settle, Publish, LeaveChain, PhaseInv, RowOfPhase
<1>15. ASSUME NEW c \in Command, ExecutionThrows(c) PROVE TypeOK'
  BY <1>15, FaultsBounded DEF ExecutionThrows, LeaveChain
<1>16. CASE Shutdown
  BY <1>16 DEF Shutdown, Pending
<1>17. CASE DrainDone \/ CloseStore \/ Restart
  BY <1>17 DEF DrainDone, CloseStore, Restart
<1>18. CASE ProcessEnds
  BY <1>18 DEF ProcessEnds
<1>19. CASE UNCHANGED vars
  BY <1>19 DEF vars
<1> QED
  BY <1>1, <1>2, <1>3, <1>4, <1>5, <1>6, <1>7, <1>8, <1>9, <1>10, <1>11, <1>12, <1>13, <1>14,
     <1>15, <1>16, <1>17, <1>18, <1>19 DEF Next, DispatchStep, ExecutionStep

-----------------------------------------------------------------------------
LEMMA PhaseInit == Init => PhaseInv
BY DEF Init, PhaseInv, RowOfPhase, EventsOfPhase, HandlerOfPhase, Dispatching, Final

LEMMA PhaseStep == TypeOK /\ PhaseInv /\ [Next]_vars => PhaseInv'
<1> SUFFICES ASSUME TypeOK, PhaseInv, [Next]_vars, NEW d \in Command
             PROVE  (RowOfPhase(d) /\ EventsOfPhase(d) /\ HandlerOfPhase(d))'
  BY DEF PhaseInv
<1> DEFINE Goal == (RowOfPhase(d) /\ EventsOfPhase(d) /\ HandlerOfPhase(d))'
<1>0. RowOfPhase(d) /\ EventsOfPhase(d) /\ HandlerOfPhase(d)
  BY DEF PhaseInv
<1> USE <1>0
    DEF TypeOK, Goto, durable, RowOfPhase, EventsOfPhase, HandlerOfPhase,
        Phase, Status, EventType, Final, Chained, Executing, Done, Dispatching
<1>1. ASSUME NEW c \in Command, Reject(c) PROVE Goal
  BY <1>1 DEF Reject
<1>2. ASSUME NEW c \in Command, Dispatch(c) PROVE Goal
  BY <1>2 DEF Dispatch, Write
<1>3. ASSUME NEW c \in Command, RecordAccepted(c) PROVE Goal
  BY <1>3 DEF RecordAccepted, Record
<1>4. ASSUME NEW c \in Command, Enqueue(c) PROVE Goal
  BY <1>4 DEF Enqueue, Publish
<1>5. ASSUME NEW c \in Command, DispatchThrows(c) PROVE Goal
  BY <1>5 DEF DispatchThrows
<1>6. ASSUME NEW c \in Command, Begin(c) PROVE Goal
  BY <1>6 DEF Begin, Write
<1>7. ASSUME NEW c \in Command, RecordStarted(c) PROVE Goal
  BY <1>7 DEF RecordStarted, Record
<1>8. ASSUME NEW c \in Command, EnterBoundary(c) PROVE Goal
  BY <1>8 DEF EnterBoundary, Publish
<1>9. ASSUME NEW c \in Command, HandlerReturns(c) PROVE Goal
  BY <1>9 DEF HandlerReturns, ReturnedTo
<1>10. ASSUME NEW c \in Command, HandlerThrows(c) PROVE Goal
  BY <1>10 DEF HandlerThrows
<1>11. ASSUME NEW c \in Command, Timeout(c) PROVE Goal
  BY <1>11 DEF Timeout
<1>12. ASSUME NEW c \in Command, MarkSucceeded(c) \/ MarkFailed(c) PROVE Goal
  BY <1>12 DEF MarkSucceeded, MarkFailed, Write
<1>13. ASSUME NEW c \in Command, RecordFinished(c) PROVE Goal
  BY <1>13 DEF RecordFinished, Record
<1>14. ASSUME NEW c \in Command, Settle(c) PROVE Goal
  BY <1>14 DEF Settle, Publish
<1>15. ASSUME NEW c \in Command, ExecutionThrows(c) PROVE Goal
  BY <1>15 DEF ExecutionThrows
<1>16. CASE Shutdown \/ DrainDone \/ CloseStore \/ Restart
  BY <1>16 DEF Shutdown, DrainDone, CloseStore, Restart
<1>17. CASE ProcessEnds
  BY <1>17 DEF ProcessEnds
<1>18. CASE UNCHANGED vars
  BY <1>18 DEF vars
<1> QED
  BY <1>1, <1>2, <1>3, <1>4, <1>5, <1>6, <1>7, <1>8, <1>9, <1>10, <1>11, <1>12, <1>13, <1>14,
     <1>15, <1>16, <1>17, <1>18 DEF Next, DispatchStep, ExecutionStep

(* Every variable keeps its type - no status, phase or event outside the   *)
(* ones the code writes - and every phase fits the row, the events and the *)
(* handler of its command, whatever fails or crashes.                      *)
THEOREM TypeCorrect == Spec => [](TypeOK /\ PhaseInv)
BY TypeInit, PhaseInit, TypeStep, PhaseStep, PTL DEF Spec

(* Neither the events table nor the subscribers are ever told more of a    *)
(* command than its durable row says.                                      *)
THEOREM EventsFollow == Spec => []EventsFollowRows
<1>1. PhaseInv => EventsFollowRows
  BY DEF PhaseInv, EventsOfPhase, EventsFollowRows
<1> QED
  BY <1>1, TypeCorrect, PTL

(* A command recorded as succeeded has left no handler at work behind.     *)
THEOREM SuccessSettles == Spec => []SuccessMeansHandlerSettled
<1>1. PhaseInv => SuccessMeansHandlerSettled
  BY DEF PhaseInv, HandlerOfPhase, SuccessMeansHandlerSettled
<1> QED
  BY <1>1, TypeCorrect, PTL

(* A final row is never rewritten: whoever writes a row next stands in a   *)
(* phase in which the row is not final.                                    *)
THEOREM FinalRowsStay == Spec => FinalRowStays
<1>1. TypeOK /\ PhaseInv /\ [Next]_vars => [\A c \in Command : row[c] \in Final => row'[c] = row[c]]_vars
  <2> SUFFICES ASSUME TypeOK, PhaseInv, Next, NEW d \in Command, row[d] \in Final
               PROVE  row'[d] = row[d]
    OBVIOUS
  <2>1. phase[d] \notin {"idle", "queued", "ok", "error"} /\ d \in Command
    BY DEF PhaseInv, RowOfPhase, Final, Dispatching
  <2> QED
    BY <2>1 DEF TypeOK, Next, DispatchStep, ExecutionStep, Write, durable,
       Reject, Dispatch, RecordAccepted, Enqueue, DispatchThrows, Begin, RecordStarted,
       EnterBoundary, HandlerReturns, HandlerThrows, Timeout, MarkSucceeded, MarkFailed,
       RecordFinished, Settle, ExecutionThrows, Shutdown, DrainDone, CloseStore,
       ProcessEnds, Restart
<1> QED
  BY <1>1, TypeCorrect, PTL DEF Spec, FinalRowStays

-----------------------------------------------------------------------------
(* The chains.  Three lemmas, one for each way a step can touch them.      *)

LEMMA ChainInit == Init => ChainInv
BY ScopeOfInScope
DEF Init, ChainInv, TailIsChained, TailIsLast, ChainIsOrdered, PredecessorIsChained,
    ExecutingIsReady, AheadHasJoined, ChainOf, Pending, Chained, Executing, Done

(* A step that moves c neither into a chain nor out of one. *)
LEMMA ChainKept ==
  ASSUME TypeOK, ChainInv, UNCHANGED links, NEW c \in Command, NEW p, Goto(c, p),
         \/ phase[c] \notin Chained \cup Done \cup {"lost"} /\ p \notin Chained
         \/ phase[c] \in Chained /\ p \in Chained /\ (p \in Executing => Ready(c))
  PROVE  ChainInv'
<1>1. Pending' = Pending
  BY DEF Pending, Goto, TypeOK
<1>2. \A d \in Command : phase[d] \in Done => phase'[d] = phase[d]
  BY DEF Goto, TypeOK, Chained, Executing, Done
<1>3. \A d \in Command : Ready(d) => Ready(d)'
  BY <1>2 DEF Ready, links, TypeOK
<1>4. TailIsChained' /\ TailIsLast' /\ ChainIsOrdered' /\ PredecessorIsChained'
  BY <1>1 DEF ChainInv, links, TailIsChained, TailIsLast, ChainIsOrdered,
              PredecessorIsChained, ChainOf
<1>5. ExecutingIsReady'
  BY <1>3 DEF ChainInv, ExecutingIsReady, Goto, TypeOK, Chained, Executing
<1>6. AheadHasJoined'
  BY DEF ChainInv, AheadHasJoined, Goto, TypeOK, links
<1> QED
  BY <1>4, <1>5, <1>6 DEF ChainInv

(* Joining: everybody in the chain of the scope is now ahead of c.         *)
LEMMA ChainJoined ==
  ASSUME TypeOK, ChainInv, NEW c \in Command, Enqueue(c)
  PROVE  ChainInv'
<1> DEFINE s == ScopeOf(c)
<1>1. s \in Scope
  BY ScopeOfInScope
<1>2. /\ phase' = [phase EXCEPT ![c] = "queued"] /\ phase[c] = "logging"
      /\ scopeChains' = [scopeChains EXCEPT ![s] = c]
      /\ previous' = [previous EXCEPT ![c] = scopeChains[s]]
      /\ ahead' = [ahead EXCEPT ![c] = ChainOf(s)]
  BY DEF Enqueue, Goto
<1>3. Pending' = Pending \cup {c} /\ c \notin Pending
  BY <1>2 DEF Pending, TypeOK, Chained, Executing
<1>4. \A d \in Command : c \notin ahead[d]
  BY <1>2 DEF ChainInv, AheadHasJoined, Chained, Executing, Done
<1>5. ChainOf(s) \subseteq Pending /\ Pending \subseteq Command
  BY DEF ChainOf, Pending
<1>6. TailIsChained'
  BY <1>1, <1>2, <1>3 DEF ChainInv, TailIsChained, ChainOf, TypeOK
<1>7. TailIsLast'
  <2> SUFFICES ASSUME NEW d \in Pending \cup {c}
               PROVE  LET last == scopeChains'[ScopeOf(d)] IN
                        last # NoCommand /\ (d = last \/ d \in ahead'[last])
    BY <1>3 DEF TailIsLast
  <2>1. CASE ScopeOf(d) = s
    <3>1. scopeChains'[s] = c /\ ahead'[c] = ChainOf(s)
      BY <1>1, <1>2 DEF TypeOK
    <3>2. d = c \/ d \in ChainOf(s)
      BY <2>1 DEF ChainOf
    <3> QED
      BY <2>1, <3>1, <3>2, CommandQueueAssumption
  <2>2. CASE ScopeOf(d) # s
    <3>1. d \in Pending
      BY <2>2
    <3>2. scopeChains'[ScopeOf(d)] = scopeChains[ScopeOf(d)] /\ ScopeOf(d) \in Scope
      BY <1>2, <1>5, <2>2, <3>1, ScopeOfInScope DEF TypeOK
    <3>3. scopeChains[ScopeOf(d)] # NoCommand
      BY <3>1 DEF ChainInv, TailIsLast
    <3>4. scopeChains[ScopeOf(d)] \in Pending
      BY <3>2, <3>3 DEF ChainInv, TailIsChained, ChainOf
    <3>5. ahead'[scopeChains[ScopeOf(d)]] = ahead[scopeChains[ScopeOf(d)]]
      BY <1>2, <1>3, <1>5, <3>4 DEF TypeOK
    <3> QED
      BY <3>1, <3>2, <3>3, <3>5 DEF ChainInv, TailIsLast
  <2> QED
    BY <2>1, <2>2
<1>8. ChainIsOrdered'
  BY <1>2, <1>3, <1>5 DEF ChainInv, ChainIsOrdered, ChainOf, TypeOK
<1>9. PredecessorIsChained'
  <2> SUFFICES ASSUME NEW d \in Pending \cup {c}, NEW e \in Pending \cup {c}, d \in ahead'[e]
               PROVE  /\ previous'[e] \in Pending \cup {c}
                      /\ d = previous'[e] \/ d \in ahead'[previous'[e]]
    BY <1>3 DEF PredecessorIsChained
  <2>1. CASE e = c
    <3>1. previous'[c] = scopeChains[s] /\ d \in ChainOf(s)
      BY <1>2, <2>1 DEF TypeOK
    <3>2. d \in Pending /\ ScopeOf(d) = s
      BY <3>1 DEF ChainOf
    <3>3. scopeChains[s] # NoCommand /\ (d = scopeChains[s] \/ d \in ahead[scopeChains[s]])
      BY <3>2 DEF ChainInv, TailIsLast
    <3>4. scopeChains[s] \in Pending
      BY <1>1, <3>3 DEF ChainInv, TailIsChained, ChainOf
    <3>5. ahead'[scopeChains[s]] = ahead[scopeChains[s]]
      BY <1>2, <1>3, <1>5, <3>4 DEF TypeOK
    <3> QED
      BY <2>1, <3>1, <3>3, <3>4, <3>5
  <2>2. CASE e # c
    <3>1. e \in Pending /\ previous'[e] = previous[e] /\ ahead'[e] = ahead[e]
      BY <1>2, <1>5, <2>2 DEF TypeOK
    <3>2. d \in Pending
      BY <1>4, <1>5, <3>1
    <3>3. previous[e] \in Pending /\ (d = previous[e] \/ d \in ahead[previous[e]])
      BY <3>1, <3>2 DEF ChainInv, PredecessorIsChained
    <3>4. ahead'[previous[e]] = ahead[previous[e]]
      BY <1>2, <1>3, <1>5, <3>3 DEF TypeOK
    <3> QED
      BY <3>1, <3>3, <3>4
  <2> QED
    BY <2>1, <2>2
<1>10. ExecutingIsReady'
  BY <1>2 DEF ChainInv, ExecutingIsReady, Ready, TypeOK, Chained, Executing, Done
<1>11. AheadHasJoined'
  BY <1>2, <1>4, <1>5 DEF ChainInv, AheadHasJoined, ChainOf, Pending, TypeOK, Chained
<1> QED
  BY <1>6, <1>7, <1>8, <1>9, <1>10, <1>11 DEF ChainInv

(* Leaving: who leaves was ready, so nobody of its chain was ahead of it.  *)
LEMMA ChainLeft ==
  ASSUME TypeOK, ChainInv, NEW c \in Command, NEW p \in Done,
         phase[c] \in Chained, Ready(c), Goto(c, p), LeaveChain(c)
  PROVE  ChainInv'
<1> DEFINE s == ScopeOf(c)
<1>1. s \in Scope
  BY ScopeOfInScope
<1>2. /\ phase' = [phase EXCEPT ![c] = p]
      /\ scopeChains' = [scopeChains EXCEPT ![s] = IF @ = c THEN NoCommand ELSE @]
      /\ previous' = previous /\ ahead' = ahead
  BY DEF Goto, LeaveChain
<1>3. Pending' = Pending \ {c} /\ c \in Pending /\ Pending \subseteq Command
  BY <1>2 DEF Pending, TypeOK, Chained, Executing, Done
<1>4. ASSUME NEW d \in Pending, d \in ahead[c] PROVE FALSE
  <2>1. previous[c] \in Pending
    BY <1>3, <1>4 DEF ChainInv, PredecessorIsChained
  <2>2. previous[c] # NoCommand /\ phase[previous[c]] \in Chained
    BY <2>1, CommandQueueAssumption DEF Pending
  <2> QED
    BY <2>2 DEF Ready, Chained, Executing, Done
<1>5. TailIsChained'
  BY <1>1, <1>2, <1>3 DEF ChainInv, TailIsChained, ChainOf, TypeOK
<1>6. TailIsLast'
  <2> SUFFICES ASSUME NEW d \in Pending, d # c
               PROVE  LET last == scopeChains'[ScopeOf(d)] IN
                        last # NoCommand /\ (d = last \/ d \in ahead[last])
    BY <1>2, <1>3 DEF TailIsLast
  <2>1. scopeChains[ScopeOf(d)] # c
    BY <1>4 DEF ChainInv, TailIsLast
  <2>2. scopeChains'[ScopeOf(d)] = scopeChains[ScopeOf(d)]
    BY <1>2, <1>3, <2>1, ScopeOfInScope DEF TypeOK
  <2> QED
    BY <2>2 DEF ChainInv, TailIsLast
<1>7. ChainIsOrdered'
  BY <1>2, <1>3 DEF ChainInv, ChainIsOrdered
<1>8. PredecessorIsChained'
  BY <1>2, <1>3, <1>4 DEF ChainInv, PredecessorIsChained
<1>9. ExecutingIsReady'
  BY <1>2 DEF ChainInv, ExecutingIsReady, Ready, TypeOK, Chained, Executing, Done
<1>10. AheadHasJoined'
  BY <1>2 DEF ChainInv, AheadHasJoined, TypeOK
<1> QED
  BY <1>5, <1>6, <1>7, <1>8, <1>9, <1>10 DEF ChainInv

(* The process ends: nobody waits or works any more, and every chain is gone. *)
LEMMA ChainCleared ==
  ASSUME TypeOK, ChainInv, ProcessEnds
  PROVE  ChainInv'
<1>1. phase' = [c \in Command |-> IF phase[c] \in Dispatching \cup Chained
                                     THEN "lost" ELSE phase[c]]
  BY DEF ProcessEnds
<1>2. Pending' = {}
  BY <1>1 DEF Pending, Chained, Executing
<1>3. \A c \in Command : phase'[c] \notin Executing
  BY <1>1 DEF Chained, Executing
<1>4. TailIsChained' /\ TailIsLast' /\ ChainIsOrdered' /\ PredecessorIsChained'
  BY <1>2 DEF ProcessEnds, TailIsChained, TailIsLast, ChainIsOrdered, PredecessorIsChained
<1>5. AheadHasJoined'
  BY <1>1 DEF ProcessEnds, ChainInv, AheadHasJoined, Chained, Done
<1> QED
  BY <1>3, <1>4, <1>5 DEF ChainInv, ExecutingIsReady

(* A step that touches neither the phases nor the links. *)
LEMMA ChainUntouched ==
  ASSUME ChainInv, UNCHANGED <<phase, links>>
  PROVE  ChainInv'
BY DEF ChainInv, TailIsChained, TailIsLast, ChainIsOrdered, PredecessorIsChained,
       ExecutingIsReady, AheadHasJoined, ChainOf, Pending, Ready, links

LEMMA ChainStep == TypeOK /\ ChainInv /\ [Next]_vars => ChainInv'
<1> SUFFICES ASSUME TypeOK, ChainInv, [Next]_vars PROVE ChainInv'
  OBVIOUS
<1> USE DEF Chained, Executing, Done
<1>1. ASSUME NEW c \in Command, Reject(c) PROVE ChainInv'
  BY <1>1, ChainKept DEF Reject
<1>2. ASSUME NEW c \in Command, Dispatch(c) PROVE ChainInv'
  BY <1>2, ChainKept DEF Dispatch
<1>3. ASSUME NEW c \in Command, RecordAccepted(c) PROVE ChainInv'
  BY <1>3, ChainKept DEF RecordAccepted
<1>4. ASSUME NEW c \in Command, Enqueue(c) PROVE ChainInv'
  BY <1>4, ChainJoined
<1>5. ASSUME NEW c \in Command, DispatchThrows(c) PROVE ChainInv'
  BY <1>5, ChainKept DEF DispatchThrows
<1>6. ASSUME NEW c \in Command, Begin(c) PROVE ChainInv'
  BY <1>6, ChainKept DEF Begin
<1>7. \A c \in Command : phase[c] \in Executing => Ready(c)
  BY DEF ChainInv, ExecutingIsReady
<1>8. ASSUME NEW c \in Command, NEW p \in Executing, phase[c] \in Executing,
             Goto(c, p), UNCHANGED links
      PROVE  ChainInv'
  BY <1>7, <1>8, ChainKept
<1>9. ASSUME NEW c \in Command,
             \/ RecordStarted(c) \/ EnterBoundary(c) \/ Timeout(c)
             \/ MarkSucceeded(c) \/ MarkFailed(c) \/ RecordFinished(c)
      PROVE  ChainInv'
  BY <1>8, <1>9 DEF RecordStarted, EnterBoundary, Timeout, MarkSucceeded, MarkFailed, RecordFinished
<1>10. ASSUME NEW c \in Command, HandlerReturns(c) \/ HandlerThrows(c) PROVE ChainInv'
  <2>1. CASE UNCHANGED phase
    BY <1>10, <2>1, ChainUntouched DEF HandlerReturns, HandlerThrows
  <2>2. CASE phase[c] = "running" /\ \E p \in {"ok", "error"} : Goto(c, p)
    BY <1>8, <1>10, <2>2 DEF HandlerReturns, HandlerThrows
  <2> QED
    BY <1>10, <2>1, <2>2 DEF HandlerReturns, HandlerThrows, ReturnedTo
<1>11. ASSUME NEW c \in Command, Settle(c) PROVE ChainInv'
  BY <1>7, <1>11, ChainLeft DEF Settle
<1>12. ASSUME NEW c \in Command, ExecutionThrows(c) PROVE ChainInv'
  BY <1>7, <1>12, ChainLeft DEF ExecutionThrows
<1>13. CASE Shutdown \/ DrainDone \/ CloseStore \/ Restart
  BY <1>13, ChainUntouched DEF Shutdown, DrainDone, CloseStore, Restart
<1>14. CASE ProcessEnds
  BY <1>14, ChainCleared
<1>15. CASE UNCHANGED vars
  BY <1>15, ChainUntouched DEF vars, links
<1> QED
  BY <1>1, <1>2, <1>3, <1>4, <1>5, <1>6, <1>9, <1>10, <1>11, <1>12, <1>13, <1>14, <1>15
     DEF Next, DispatchStep, ExecutionStep

(* However many commands share a scope, whatever fails, times out or is    *)
(* aborted: of two that have started one would be ahead of the other, and  *)
(* its predecessor would still be in the chain.                            *)
THEOREM ScopeSerially == Spec => []ScopeSerial
<1>1. ChainInv => ScopeSerial
  <2> SUFFICES ASSUME ChainInv, NEW c \in Command, NEW d \in Command, c # d,
                      ScopeOf(c) = ScopeOf(d), phase[c] \in Executing, phase[d] \in Executing
               PROVE  FALSE
    BY DEF ScopeSerial
  <2>1. c \in Pending /\ d \in Pending /\ Ready(c) /\ Ready(d)
    BY DEF Pending, Chained, ChainInv, ExecutingIsReady
  <2>2. ASSUME NEW x \in Pending, NEW y \in Pending, x \in ahead[y], Ready(y) PROVE FALSE
    <3>1. previous[y] \in Pending
      BY <2>2 DEF ChainInv, PredecessorIsChained
    <3>2. previous[y] # NoCommand /\ phase[previous[y]] \in Chained
      BY <3>1, CommandQueueAssumption DEF Pending
    <3> QED
      BY <2>2, <3>2 DEF Ready, Chained, Executing, Done
  <2>3. c \in ahead[d] \/ d \in ahead[c]
    BY <2>1 DEF ChainInv, ChainIsOrdered
  <2> QED
    BY <2>1, <2>2, <2>3
<1>2. Spec => []ChainInv
  BY TypeCorrect, ChainInit, ChainStep, PTL DEF Spec
<1> QED
  BY <1>1, <1>2, PTL

-----------------------------------------------------------------------------
(* The shutdown. *)

(* A step of an execution, of its own signal or its own handler: it moves  *)
(* no other command, and it does not touch the signals.                    *)
LEMMA FlushKept ==
  ASSUME TypeOK, FlushInv, NEW c \in Command, UNCHANGED <<mode, aborted>>,
         faults' = 0 => faults = 0,
         \A d \in Command \ {c} :
            phase'[d] = phase[d] /\ row'[d] = row[d] /\ published'[d] = published[d],
         c \in aborted /\ faults' = 0
           => Flushed(c)' \/ (mode = "draining" /\ phase'[c] \in Chained)
  PROVE  FlushInv'
<1> SUFFICES ASSUME faults' = 0, NEW d \in aborted
             PROVE  Flushed(d)' \/ (mode = "draining" /\ phase'[d] \in Chained)
  BY DEF FlushInv
<1>1. d \in Command
  BY DEF TypeOK
<1>2. Flushed(d) \/ (mode = "draining" /\ phase[d] \in Chained)
  BY DEF FlushInv
<1> QED
  BY <1>1, <1>2 DEF Flushed

(* A command outside the chains is signalled only when it is flushed. *)
LEMMA SignalledIsChained ==
  ASSUME FlushInv, NEW c \in aborted, faults = 0, phase[c] # "settled"
  PROVE  mode = "draining" /\ phase[c] \in Chained
BY DEF FlushInv, Flushed

LEMMA FlushStep == TypeOK /\ PhaseInv /\ FlushInv /\ [Next]_vars => FlushInv'
<1> SUFFICES ASSUME TypeOK, PhaseInv, FlushInv, [Next]_vars PROVE FlushInv'
  OBVIOUS
<1> USE DEF Chained, Executing, Goto, durable, links, budget
<1>1. ASSUME NEW c \in Command,
             Reject(c) \/ Dispatch(c) \/ RecordAccepted(c) \/ Enqueue(c) \/ DispatchThrows(c)
      PROVE  FlushInv'
  <2>1. phase[c] \notin Chained \cup {"settled"}
    BY <1>1 DEF Reject, Dispatch, RecordAccepted, Enqueue, DispatchThrows
  <2>2. faults = 0 => c \notin aborted
    BY <2>1, SignalledIsChained
  <2>3. UNCHANGED <<mode, aborted>> /\ (faults' = 0 => faults = 0)
    BY <1>1 DEF Reject, Dispatch, RecordAccepted, Enqueue, DispatchThrows,
                WriteThrows, LogThrows, TypeOK
  <2>4. \A d \in Command \ {c} :
           phase'[d] = phase[d] /\ row'[d] = row[d] /\ published'[d] = published[d]
    BY <1>1 DEF Reject, Dispatch, RecordAccepted, Enqueue, DispatchThrows, Write, Publish, TypeOK
  <2> QED
    BY <2>2, <2>3, <2>4, FlushKept
<1>2. ASSUME NEW c \in Command,
             \/ Begin(c) \/ RecordStarted(c) \/ EnterBoundary(c) \/ Timeout(c)
             \/ MarkSucceeded(c) \/ MarkFailed(c) \/ RecordFinished(c)
      PROVE  FlushInv'
  <2>1. phase[c] \in Chained /\ phase'[c] \in Chained /\ UNCHANGED <<mode, aborted, faults>>
    BY <1>2 DEF Begin, RecordStarted, EnterBoundary, Timeout, MarkSucceeded, MarkFailed,
                RecordFinished, TypeOK
  <2>2. \A d \in Command \ {c} :
           phase'[d] = phase[d] /\ row'[d] = row[d] /\ published'[d] = published[d]
    BY <1>2 DEF Begin, RecordStarted, EnterBoundary, Timeout, MarkSucceeded, MarkFailed,
                RecordFinished, Write, Publish, TypeOK
  <2> QED
    BY <2>1, <2>2, SignalledIsChained, FlushKept
<1>3. ASSUME NEW c \in Command, HandlerReturns(c) \/ HandlerThrows(c) PROVE FlushInv'
  <2>1. UNCHANGED <<mode, aborted, faults, row, published>>
    BY <1>3 DEF HandlerReturns, HandlerThrows
  <2>2. \/ phase' = phase
        \/ phase[c] = "running" /\ phase'[c] \in {"ok", "error"}
    BY <1>3 DEF HandlerReturns, HandlerThrows, ReturnedTo, TypeOK
  <2>3. \A d \in Command \ {c} : phase'[d] = phase[d]
    BY <1>3 DEF HandlerReturns, HandlerThrows, TypeOK
  <2>4. CASE phase' = phase
    BY <2>1, <2>4 DEF FlushInv, Flushed
  <2>5. CASE phase[c] = "running" /\ phase'[c] \in {"ok", "error"}
    BY <2>1, <2>3, <2>5, SignalledIsChained, FlushKept
  <2> QED
    BY <2>2, <2>4, <2>5
<1>4. ASSUME NEW c \in Command, Settle(c) PROVE FlushInv'
  <2>1. UNCHANGED <<mode, aborted, faults, row>> /\ phase[c] = "finishRecorded"
    BY <1>4 DEF Settle
  <2>2. row[c] \in Final /\ phase'[c] = "settled" /\ row[c] \in published'[c]
    BY <1>4, <2>1 DEF Settle, Publish, PhaseInv, RowOfPhase, TypeOK
  <2>3. \A d \in Command \ {c} : phase'[d] = phase[d] /\ published'[d] = published[d]
    BY <1>4 DEF Settle, Publish, TypeOK
  <2> QED
    BY <2>1, <2>2, <2>3, FlushKept DEF Flushed
<1>5. ASSUME NEW c \in Command, ExecutionThrows(c) PROVE FlushInv'
  <2>1. UNCHANGED <<mode, aborted, row, published>> /\ phase[c] \in Chained
    BY <1>5 DEF ExecutionThrows
  <2>2. faults' = faults + 1 \/ (~StoreOpen /\ faults' = faults)
    BY <1>5 DEF ExecutionThrows, WriteThrows, LogThrows
  <2>3. faults' = 0 => faults = 0 /\ ~StoreOpen
    BY <2>2 DEF TypeOK
  <2>4. faults' = 0 => c \notin aborted
    BY <2>1, <2>3, SignalledIsChained DEF StoreOpen
  <2>5. \A d \in Command \ {c} : phase'[d] = phase[d]
    BY <1>5 DEF ExecutionThrows, TypeOK
  <2> QED
    BY <2>1, <2>3, <2>4, <2>5, FlushKept
<1>6. CASE Shutdown
  <2>1. aborted' = Pending /\ mode' = "draining" /\ phase' = phase
    BY <1>6 DEF Shutdown, FlushInv
  <2> QED
    BY <2>1 DEF FlushInv, Pending
<1>7. CASE DrainDone
  <2>1. UNCHANGED <<phase, row, published, aborted, faults>> /\ mode' = "closing"
    BY <1>7 DEF DrainDone
  <2>2. \A c \in aborted : phase[c] \notin Chained
    BY <1>7 DEF DrainDone, Drained, Pending, TypeOK
  <2> QED
    BY <2>1, <2>2 DEF FlushInv, Flushed
<1>8. CASE CloseStore
  BY <1>8 DEF CloseStore, FlushInv, Flushed
<1>9. CASE ProcessEnds
  BY <1>9 DEF ProcessEnds, FlushInv
<1>10. CASE Restart
  BY <1>10 DEF Restart, FlushInv
<1>11. CASE UNCHANGED vars
  BY <1>11 DEF vars, FlushInv, Flushed
<1> QED
  BY <1>1, <1>2, <1>3, <1>4, <1>5, <1>6, <1>7, <1>8, <1>9, <1>10, <1>11
     DEF Next, DispatchStep, ExecutionStep

(* Once the drain of a shutdown is over, every command the shutdown        *)
(* signalled has its final row and its final event, however many there     *)
(* are, unless a write failed: who is signalled is in a chain, and leaves  *)
(* it only settled or by a fault.                                          *)
THEOREM ShutdownFlushes == Spec => []FlushedAtClose
<1>1. Init => FlushInv
  BY DEF Init, FlushInv
<1>2. FlushInv => FlushedAtClose
  BY DEF FlushInv, Flushed, FlushedAtClose
<1> QED
  BY <1>1, <1>2, TypeCorrect, FlushStep, PTL DEF Spec

(* No handler starts for a command that was signalled, and none that still *)
(* runs makes it succeed: the signal is looked at before the handler is    *)
(* called and after it has returned.                                       *)
THEOREM AbortIsHonoured == Spec => AbortHonoured
<1>1. TypeOK /\ [Next]_vars
        => [\A c \in aborted : /\ c \in live' => c \in live
                               /\ phase'[c] = "ok" => phase[c] = "ok"]_vars
  <2> SUFFICES ASSUME TypeOK, Next, NEW d \in aborted
               PROVE  /\ d \in live' => d \in live
                      /\ phase'[d] = "ok" => phase[d] = "ok"
    OBVIOUS
  <2> USE DEF TypeOK, Goto
  <2>1. d \in Command
    OBVIOUS
  <2>2. ASSUME NEW c \in Command, EnterBoundary(c)
        PROVE  (d \in live' => d \in live) /\ (phase'[d] = "ok" => phase[d] = "ok")
    BY <2>1, <2>2 DEF EnterBoundary
  <2>3. ASSUME NEW c \in Command, HandlerReturns(c) \/ HandlerThrows(c)
        PROVE  live' \subseteq live /\ (phase'[d] = "ok" => phase[d] = "ok")
    BY <2>1, <2>3 DEF HandlerReturns, HandlerThrows, ReturnedTo
  <2>4. ASSUME NEW c \in Command,
               \/ DispatchStep(c) \/ DispatchThrows(c) \/ ExecutionThrows(c)
               \/ Begin(c) \/ RecordStarted(c) \/ Timeout(c)
               \/ MarkSucceeded(c) \/ MarkFailed(c) \/ RecordFinished(c) \/ Settle(c)
        PROVE  live' = live /\ (phase'[d] = "ok" => phase[d] = "ok")
    BY <2>1, <2>4 DEF DispatchStep, Reject, Dispatch, RecordAccepted, Enqueue, DispatchThrows,
                      ExecutionThrows, Begin, RecordStarted, Timeout, MarkSucceeded,
                      MarkFailed, RecordFinished, Settle
  <2>5. CASE Shutdown \/ DrainDone \/ CloseStore \/ ProcessEnds \/ Restart
    BY <2>1, <2>5 DEF Shutdown, DrainDone, CloseStore, ProcessEnds, Restart
  <2> QED
    BY <2>2, <2>3, <2>4, <2>5 DEF Next, ExecutionStep
<1> QED
  BY <1>1, TypeCorrect, PTL DEF Spec, AbortHonoured

-----------------------------------------------------------------------------
(* The queue implements the lifecycle of a command: every step moves one   *)
(* row forward, announces one event that the row has reached, or leaves    *)
(* both alone; a crash and a restart leave both alone.                     *)
THEOREM LifecycleImplemented == Spec => ImplementsLifecycle
<1> USE DEF Lifecycle!Final, Lifecycle!Status, Lifecycle!EventType, Final, Status, EventType
<1>1. Init => Lifecycle!Init
  BY DEF Init, Lifecycle!Init
<1>2. ASSUME TypeOK, PhaseInv, [Next]_vars
      PROVE  [Lifecycle!Next]_(Lifecycle!vars)
  <2> USE DEF Lifecycle!vars
  <2>1. \A c \in Command : RowOfPhase(c) /\ EventsOfPhase(c)
    BY <1>2 DEF PhaseInv
  <2>2. ASSUME NEW c \in Command, Dispatch(c) PROVE Lifecycle!Next
    <3>1. Lifecycle!Accept(c)
      BY <2>1, <2>2 DEF Dispatch, Write, RowOfPhase, Lifecycle!Accept, Lifecycle!Advance
    <3> QED
      BY <3>1 DEF Lifecycle!Next
  <2>3. ASSUME NEW c \in Command, Begin(c) PROVE Lifecycle!Next
    <3>1. Lifecycle!Start(c)
      BY <2>1, <2>3 DEF Begin, Write, RowOfPhase, Lifecycle!Start, Lifecycle!Advance
    <3> QED
      BY <3>1 DEF Lifecycle!Next
  <2>4. ASSUME NEW c \in Command, MarkSucceeded(c) \/ MarkFailed(c) PROVE Lifecycle!Next
    <3>1. Lifecycle!Finish(c)
      BY <2>1, <2>4 DEF MarkSucceeded, MarkFailed, Write, RowOfPhase,
                        Lifecycle!Finish, Lifecycle!Advance
    <3> QED
      BY <3>1 DEF Lifecycle!Next
  <2>5. ASSUME NEW c \in Command, NEW e \in EventType, Publish(c, e), UNCHANGED row,
               Lifecycle!Reached(c, e)
        PROVE  Lifecycle!Next
    <3>1. Lifecycle!Announce(c)
      BY <2>5 DEF Publish, Lifecycle!Announce
    <3> QED
      BY <3>1 DEF Lifecycle!Next
  <2>6. ASSUME NEW c \in Command, Enqueue(c) PROVE Lifecycle!Next
    <3>1. row[c] = "accepted"
      BY <2>1, <2>6 DEF Enqueue, RowOfPhase, Dispatching
    <3> QED
      BY <2>5, <2>6, <3>1 DEF Enqueue, durable, Lifecycle!Reached
  <2>7. ASSUME NEW c \in Command, EnterBoundary(c) PROVE Lifecycle!Next
    <3>1. row[c] = "started"
      BY <2>1, <2>7 DEF EnterBoundary, RowOfPhase
    <3> QED
      BY <2>5, <2>7, <3>1 DEF EnterBoundary, durable, Lifecycle!Reached
  <2>8. ASSUME NEW c \in Command, Settle(c) PROVE Lifecycle!Next
    <3>1. row[c] \in Final
      BY <2>1, <2>8 DEF Settle, RowOfPhase
    <3> QED
      BY <2>5, <2>8, <3>1 DEF Settle, durable, Lifecycle!Reached
  <2>9. ASSUME NEW c \in Command,
               \/ Reject(c) \/ RecordAccepted(c) \/ DispatchThrows(c)
               \/ RecordStarted(c) \/ Timeout(c) \/ RecordFinished(c) \/ ExecutionThrows(c)
               \/ HandlerReturns(c) \/ HandlerThrows(c)
        PROVE  UNCHANGED <<row, published>>
    BY <2>9 DEF Reject, RecordAccepted, DispatchThrows, RecordStarted, Timeout, RecordFinished,
                ExecutionThrows, HandlerReturns, HandlerThrows, durable
  <2>10. CASE Shutdown \/ DrainDone \/ CloseStore \/ ProcessEnds \/ Restart \/ UNCHANGED vars
    BY <2>10 DEF Shutdown, DrainDone, CloseStore, ProcessEnds, Restart, durable, vars
  <2> QED
    BY <1>2, <2>2, <2>3, <2>4, <2>6, <2>7, <2>8, <2>9, <2>10
       DEF Next, DispatchStep, ExecutionStep
<1> QED
  BY <1>1, <1>2, TypeCorrect, PTL DEF Spec, ImplementsLifecycle, Lifecycle!Spec
=============================================================================
