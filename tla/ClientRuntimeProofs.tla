-------------------------- MODULE ClientRuntimeProofs --------------------------
(***************************************************************************)
(* What holds of a client of the observer for every number of changes,     *)
(* faults and calls: its requests are never stranded, a stopped client     *)
(* does not move, and a client at rest shows what the observer has.        *)
(***************************************************************************)
EXTENDS ClientRuntime, TLAPS

(* An iterator belongs to the cycle that opened it, and one that is still   *)
(* being opened does not survive stop().                                    *)
IteratorInCycle ==
  /\ iter # "none" => InCycle
  /\ iter = "opening" => stop = "no"

Inv == TypeOK /\ IteratorInCycle /\ PendingIsFlown

(* Groups of variables that a step sets together. *)
IterOK == iter \in {"none", "opening", "live"} /\ closing \in BOOLEAN /\ wire \in Seq(Message)
          /\ subscribed \in BOOLEAN /\ eof \in BOOLEAN
LoadsOK == pending \in SUBSET Request /\ flight \in Flight /\ reconcile \in Call
LoopOK == /\ loop \in {"idle", "ready", "cycle", "backoff", "done"}
          /\ stop \in {"no", "returning", "stopped"}
          /\ halted \in BOOLEAN /\ resynced \in BOOLEAN /\ cycleFault \in BOOLEAN
ShownOK == /\ connection \in {"idle", "loading", "connected", "displayOnly", "reconnecting", "halted"}
           /\ snapshot \in Version \cup {NoSnapshot}
ObserverOK == /\ up \in BOOLEAN /\ build \in Builds /\ truth \in Version
              /\ faults \in 0..MaxFaults
HistoryOK == calls \in 0..MaxCalls /\ missed \in BOOLEAN

LEMMA TypeParts == TypeOK <=> ObserverOK /\ IterOK /\ LoopOK /\ ShownOK /\ LoadsOK /\ HistoryOK
  BY DEF TypeOK, ObserverOK, IterOK, LoopOK, ShownOK, LoadsOK, HistoryOK

LEMMA TypePartsNext ==
  TypeOK' <=> ObserverOK' /\ IterOK' /\ LoopOK' /\ ShownOK' /\ LoadsOK' /\ HistoryOK'
  BY DEF TypeOK, ObserverOK, IterOK, LoopOK, ShownOK, LoadsOK, HistoryOK

(* A flight that was just asked for is a flight. *)
LEMMA FlightForType ==
  ASSUME NEW requests \in SUBSET Request, NEW spans \in BOOLEAN
  PROVE  FlightFor(requests, spans) \in Flight
  BY DEF FlightFor, Asked, NoCall, Zero, Version, Flight, Call

LEMMA NoFlightType == NoFlight \in Flight
  BY DEF NoFlight, NoCall, Zero, Version, Flight, Call

LEMMA LackingType == ASSUME NEW call \in Call PROVE Lacking(call) \in Call /\ Lacking(call).spans = call.spans
                                                   /\ Lacking(call).st = call.st
  BY DEF Lacking, Call

LEMMA MutatedType ==
  ASSUME NEW inAir \in Flight
  PROVE  /\ Mutated(inAir) \in Flight
         /\ Mutated(inAir).call = inAir.call /\ Mutated(inAir).for = inAir.for
  BY DEF Mutated, Flight

LEMMA OutlivedType ==
  ASSUME NEW requests \in SUBSET Request
  PROVE  Outlived(requests) \in SUBSET Request /\ "resync" \notin Outlived(requests)
         /\ (Outlived(requests) = {} <=> requests = {})
  BY DEF Outlived, Request

LEMMA DetachedType ==
  ASSUME NEW call \in Call
  PROVE  Detached(call) \in Call /\ ~Detached(call).spans /\ Detached(call).st = call.st
  BY DEF Detached, Call

(* The end of a cycle leaves nothing that belongs to it. *)
LEMMA CycleOverType ==
  ASSUME NEW isHalted, NEW requests \in SUBSET Request, NEW inAir \in Flight,
         reconcile \in Call, LoopOK,
         CycleOver(isHalted, requests, inAir)
  PROVE  /\ IterOK' /\ LoadsOK'
         /\ loop' \in {"backoff", "done"} /\ stop' \in {"no", "returning", "stopped"}
         /\ resynced' \in BOOLEAN
         /\ iter' = "none" /\ ~flight'.call.spans /\ ~reconcile'.spans
         /\ "resync" \notin pending' \cup flight'.for
         /\ pending' = {} <=> requests = {}
         /\ flight'.call.st = inAir.call.st
<1> DEFINE over == [inAir EXCEPT !.call = Detached(@), !.for = Outlived(@)]
<1>1. over \in Flight /\ ~over.call.spans /\ "resync" \notin over.for /\ over.call.st = inAir.call.st
  BY OutlivedType, DetachedType DEF Flight
<1>2. flight' = over BY DEF CycleOver
<1>3. IterOK' /\ iter' = "none"
  <2>1. /\ iter' = "none" /\ closing' = FALSE /\ wire' = <<>> /\ subscribed' = FALSE /\ eof' = FALSE
    BY DEF CycleOver
  <2>2. <<>> \in Seq(Message)
    OBVIOUS
  <2> QED BY <2>1, <2>2, Zenon DEF IterOK
<1>4. /\ pending' = Outlived(requests) /\ reconcile' = Detached(reconcile)
      /\ loop' = LoopAfter(isHalted)
      /\ resynced' = (resynced /\ loop' = "done")
      /\ stop' = IF stop = "returning" THEN "stopped" ELSE stop
  BY DEF CycleOver
<1>5. LoadsOK' /\ ~reconcile'.spans
  BY <1>1, <1>2, <1>4, OutlivedType, DetachedType DEF LoadsOK
<1>6. /\ loop' \in {"backoff", "done"} /\ stop' \in {"no", "returning", "stopped"}
      /\ resynced' \in BOOLEAN
  BY <1>4 DEF LoopAfter, LoopOK
<1> QED
  BY <1>1, <1>2, <1>3, <1>4, <1>5, <1>6, OutlivedType

LEMMA InvInit == Init => Inv
<1> SUFFICES ASSUME Init PROVE Inv
  OBVIOUS
<1>1. /\ Zero \in Version /\ NoCall \in Call /\ NoFlight \in Flight
      /\ NoFlight.for = {} /\ ~NoFlight.call.spans /\ ~NoCall.spans
  BY NoFlightType DEF Zero, Version, NoCall, NoFlight, Call
<1>2. ObserverOK
  BY <1>1, ClientRuntimeAssumption DEF Init, ObserverOK
<1>3. IterOK
  <2>1. <<>> \in Seq(Message)
    OBVIOUS
  <2> QED BY <2>1 DEF Init, IterOK
<1>4. LoopOK /\ ShownOK
  BY <1>1 DEF Init, LoopOK, ShownOK
<1>5. LoadsOK
  BY <1>1 DEF Init, LoadsOK
<1>6. HistoryOK
  <2>1. calls = 0 /\ missed = FALSE
    BY DEF Init
  <2>2. 0 \in 0..MaxCalls
    BY ClientRuntimeAssumption
  <2> QED BY <2>1, <2>2, Zenon DEF HistoryOK
<1>7. IteratorInCycle /\ PendingIsFlown
  BY <1>1 DEF Init, IteratorInCycle, PendingIsFlown, InCycle
<1> QED
  BY <1>2, <1>3, <1>4, <1>5, <1>6, <1>7, TypeParts DEF Inv

(* What PendingIsFlown says of its three variables. *)
Flown(requests, inAir, reconciles, cycles) ==
  /\ requests # {} => inAir.call.st # "none"
  /\ inAir.call.spans \/ reconciles.spans => cycles
  /\ "resync" \in requests \cup inAir.for => cycles

LEMMA FlownNow == PendingIsFlown <=> Flown(pending, flight, reconcile, InCycle)
  BY DEF PendingIsFlown, Flown, InAir

LEMMA FlownNext == PendingIsFlown' <=> Flown(pending', flight', reconcile', InCycle')
  BY DEF PendingIsFlown, Flown, InAir

(* The parts of Inv together. *)
LEMMA InvNext ==
  ASSUME ObserverOK', IterOK', LoopOK', ShownOK', LoadsOK', HistoryOK',
         IteratorInCycle', PendingIsFlown'
  PROVE  Inv'
  BY TypePartsNext DEF Inv

(* What events and answers bring. *)
LEMMA PublishType ==
  ASSUME IterOK, LoadsOK, HistoryOK, resynced \in BOOLEAN, PendingIsFlown,
         NEW event \in Message, Publish(event),
         UNCHANGED <<iter, closing, subscribed, eof, pending, calls, loop>>
  PROVE  IterOK' /\ LoadsOK' /\ HistoryOK' /\ PendingIsFlown'
<1>1. CASE subscribed
  <2>1. wire' \in Seq(Message) /\ UNCHANGED <<flight, reconcile, missed>>
    BY <1>1 DEF Publish, IterOK
  <2> QED
    BY <2>1 DEF IterOK, LoadsOK, HistoryOK, PendingIsFlown, InAir, InCycle
<1>2. CASE ~subscribed
  <2>1. /\ UNCHANGED wire /\ reconcile' = Lacking(reconcile)
        /\ flight' = [flight EXCEPT !.call = Lacking(@)]
        /\ missed' = (missed \/ resynced)
    BY <1>2 DEF Publish
  <2>2. LoadsOK' /\ flight'.for = flight.for /\ flight'.call.spans = flight.call.spans
        /\ flight'.call.st = flight.call.st /\ reconcile'.spans = reconcile.spans
    BY <2>1, LackingType DEF LoadsOK, Flight
  <2>3. PendingIsFlown'
    BY <2>2 DEF PendingIsFlown, InAir, InCycle
  <2> QED
    BY <2>1, <2>2, <2>3 DEF IterOK, HistoryOK
<1> QED
  BY <1>1, <1>2 DEF IterOK

(* A load that is asked for is of the current cycle if it says so. *)
LEMMA RefreshWithType ==
  ASSUME NEW request \in Request, NEW requests \in SUBSET Request, NEW inAir \in Flight,
         NEW spans \in BOOLEAN, NEW cycles \in BOOLEAN,
         inAir.call.spans => cycles, "resync" \in requests \cup inAir.for => cycles,
         spans => cycles, request = "resync" => cycles,
         RefreshWith(request, requests, inAir, spans)
  PROVE  /\ pending' \in SUBSET Request /\ flight' \in Flight
         /\ pending' # {} => flight'.call.st # "none"
         /\ flight'.call.spans => cycles
         /\ "resync" \in pending' \cup flight'.for => cycles
<1>1. CASE inAir.call.st = "none"
  <2>1. pending' = {} /\ flight' = FlightFor({request}, spans)
    BY <1>1 DEF RefreshWith
  <2>2. FlightFor({request}, spans) \in Flight
    BY FlightForType
  <2>3. /\ FlightFor({request}, spans).for = {request}
        /\ FlightFor({request}, spans).call.spans = spans
    BY DEF FlightFor, Asked, NoCall
  <2> QED
    BY <2>1, <2>2, <2>3
<1>2. CASE inAir.call.st # "none"
  <2>1. pending' = requests \cup {request} /\ flight' = inAir
    BY <1>2 DEF RefreshWith
  <2> QED
    BY <1>2, <2>1
<1> QED
  BY <1>1, <1>2

LEMMA NextFlightType ==
  ASSUME Inv, NEW followUp \in BOOLEAN, NextFlight(pending, followUp)
  PROVE  /\ pending' = {} /\ flight' \in Flight
         /\ flight'.call.spans => InCycle
         /\ "resync" \in flight'.for => InCycle
<1> DEFINE next == IF pending = {} /\ followUp THEN {"managed"} ELSE pending
<1>1. next \in SUBSET Request /\ InCycle \in BOOLEAN /\ ("resync" \in next => InCycle)
  BY DEF Inv, TypeOK, Request, PendingIsFlown, InCycle
<1>2. pending' = {} /\ flight' = IF next = {} THEN NoFlight ELSE FlightFor(next, InCycle)
  BY DEF NextFlight
<1>3. /\ FlightFor(next, InCycle) \in Flight
      /\ FlightFor(next, InCycle).for = next /\ FlightFor(next, InCycle).call.spans = InCycle
  BY <1>1, FlightForType DEF FlightFor, Asked, NoCall
<1>4. NoFlight \in Flight /\ NoFlight.for = {} /\ ~NoFlight.call.spans
  BY NoFlightType DEF NoFlight, NoCall
<1> QED
  BY <1>1, <1>2, <1>3, <1>4

(* The observer moves: it touches the client's end only through messages    *)
(* and answers.                                                             *)
LEMMA ChangeStep ==
  ASSUME Inv, NEW new \in Version, NEW event \in Message, Change(new, event)
  PROVE  Inv'
<1>1. ObserverOK /\ IterOK /\ LoopOK /\ ShownOK /\ LoadsOK /\ HistoryOK
  BY TypeParts DEF Inv
<1>2. /\ truth' = new /\ Publish(event)
      /\ UNCHANGED <<up, build, faults, iter, closing, subscribed, eof, runtime, shown,
                     pending, calls>>
  BY DEF Change
<1>3. UNCHANGED <<loop, stop, halted, resynced, cycleFault, connection, snapshot>>
  BY <1>2 DEF runtime, shown
<1>4. ObserverOK' /\ LoopOK' /\ ShownOK' /\ IteratorInCycle'
  BY <1>1, <1>2, <1>3 DEF ObserverOK, LoopOK, ShownOK, Inv, IteratorInCycle, InCycle
<1>5. IterOK' /\ LoadsOK' /\ HistoryOK' /\ PendingIsFlown'
  BY <1>1, <1>2, <1>3, PublishType DEF Inv, LoopOK
<1> QED
  BY <1>4, <1>5, InvNext

LEMMA ObserverStep ==
  ASSUME Inv, \/ AgentChanges \/ RestChanges \/ ObserverEnds \/ ObserverStarts
              \/ ServeSubscribe \/ ServeSnapshot \/ ServeReconcile
  PROVE  Inv'
<1>1. ObserverOK /\ IterOK /\ LoopOK /\ ShownOK /\ LoadsOK /\ HistoryOK
  BY TypeParts DEF Inv
<1>2. IteratorInCycle /\ PendingIsFlown
  BY DEF Inv
<1>3. CASE AgentChanges
  <2>1. /\ [truth EXCEPT !.agent = @ + 1] \in Version
        /\ AgentEvent(truth.agent + 1) \in Message
    BY <1>1 DEF ObserverOK, Version, Message, AgentEvent
  <2> QED
    BY <1>3, <2>1, ChangeStep DEF AgentChanges
<1>4. CASE RestChanges
  <2>1. [truth EXCEPT !.rest = @ + 1] \in Version /\ Rest \in Message
    BY <1>1 DEF ObserverOK, Version, Message
  <2> QED
    BY <1>4, <2>1, ChangeStep DEF RestChanges
<1>5. CASE ObserverEnds
  <2>1. /\ up' = FALSE /\ subscribed' = FALSE
        /\ UNCHANGED <<build, truth, iter, closing, wire, runtime, shown, loads, missed>>
    BY <1>5 DEF ObserverEnds
  <2>2. eof' \in BOOLEAN
    <3>1. {iter # "none"} \subseteq BOOLEAN
      BY Zenon
    <3> QED BY <1>5, <3>1, Zenon DEF ObserverEnds
  <2>3. faults' \in 0..MaxFaults
    BY <1>1, <1>5, ClientRuntimeAssumption DEF ObserverEnds, Fault, ObserverOK
  <2>4. ObserverOK' /\ IterOK'
    BY <1>1, <2>1, <2>2, <2>3, Zenon DEF ObserverOK, IterOK
  <2> QED
    BY <1>1, <1>2, <2>1, <2>4, InvNext
       DEF runtime, shown, loads, LoopOK, ShownOK, LoadsOK, HistoryOK,
           IteratorInCycle, PendingIsFlown, InAir, InCycle
<1>6. CASE ObserverStarts
  BY <1>1, <1>2, <1>6, InvNext
     DEF ObserverStarts, subscription, runtime, shown, loads, ObserverOK, IterOK, LoopOK,
         ShownOK, LoadsOK, HistoryOK, IteratorInCycle, PendingIsFlown, InAir, InCycle
<1>7. CASE ServeSubscribe
  <2>1. <<Ack>> \in Seq(Message) /\ <<Reject>> \in Seq(Message)
    <3>1. Ack \in Message /\ Reject \in Message
      BY DEF Message
    <3> QED BY <3>1
  <2>2. /\ wire' \in Seq(Message) /\ subscribed' \in BOOLEAN /\ eof' \in BOOLEAN
        /\ UNCHANGED <<observer, iter, closing, runtime, shown, loads, missed>>
    BY <1>7, <2>1 DEF ServeSubscribe
  <2> QED
    BY <1>1, <1>2, <2>2, InvNext
       DEF observer, runtime, shown, loads, ObserverOK, IterOK, LoopOK, ShownOK, LoadsOK,
           HistoryOK, IteratorInCycle, PendingIsFlown, InAir, InCycle
<1>8. CASE ServeSnapshot
  <2>1. /\ flight' = [flight EXCEPT !.call = Answered(@)]
        /\ UNCHANGED <<observer, subscription, runtime, shown, pending, reconcile, calls, missed>>
    BY <1>8 DEF ServeSnapshot
  <2>2. /\ flight' \in Flight /\ flight'.for = flight.for
        /\ flight'.call.spans = flight.call.spans /\ flight'.call.st = "answered"
    BY <1>1, <2>1 DEF LoadsOK, ObserverOK, Flight, Call, Answered
  <2>3. LoadsOK' /\ PendingIsFlown'
    BY <1>1, <1>2, <2>1, <2>2 DEF LoadsOK, runtime, PendingIsFlown, InAir, InCycle
  <2> QED
    BY <1>1, <1>2, <2>1, <2>3, InvNext
       DEF observer, subscription, runtime, shown, ObserverOK, IterOK, LoopOK, ShownOK,
           HistoryOK, IteratorInCycle, InCycle
<1>9. CASE ServeReconcile
  <2>1. /\ reconcile' = Answered(reconcile)
        /\ UNCHANGED <<observer, subscription, runtime, shown, pending, flight, calls, missed>>
    BY <1>9 DEF ServeReconcile
  <2>2. reconcile' \in Call /\ reconcile'.spans = reconcile.spans
    BY <1>1, <2>1 DEF LoadsOK, ObserverOK, Call, Answered
  <2>3. LoadsOK' /\ PendingIsFlown'
    BY <1>1, <1>2, <2>1, <2>2 DEF LoadsOK, runtime, PendingIsFlown, InAir, InCycle
  <2> QED
    BY <1>1, <1>2, <2>1, <2>3, InvNext
       DEF observer, subscription, runtime, shown, ObserverOK, IterOK, LoopOK, ShownOK,
           HistoryOK, IteratorInCycle, InCycle
<1> QED
  BY <1>3, <1>4, <1>5, <1>6, <1>7, <1>8, <1>9

(* Whatever ends a cycle keeps the invariant, if what it sets beside keeps  *)
(* its types.                                                               *)
LEMMA CycleOverStep ==
  ASSUME Inv, NEW isHalted, NEW requests \in SUBSET Request, NEW inAir \in Flight,
         CycleOver(isHalted, requests, inAir),
         requests # {} => inAir.call.st # "none",
         ObserverOK', ShownOK', HistoryOK', halted' \in BOOLEAN, cycleFault' \in BOOLEAN
  PROVE  Inv'
<1>1. ObserverOK /\ IterOK /\ LoopOK /\ ShownOK /\ LoadsOK /\ HistoryOK
  BY TypeParts DEF Inv
<1>2. reconcile \in Call
  BY <1>1 DEF LoadsOK
<1>3. /\ IterOK' /\ LoadsOK'
      /\ loop' \in {"backoff", "done"} /\ stop' \in {"no", "returning", "stopped"}
      /\ resynced' \in BOOLEAN
      /\ iter' = "none" /\ ~flight'.call.spans /\ ~reconcile'.spans
      /\ "resync" \notin pending' \cup flight'.for
      /\ pending' = {} <=> requests = {}
      /\ flight'.call.st = inAir.call.st
  BY <1>1, <1>2, CycleOverType
<1>4. LoopOK'
  BY <1>3 DEF LoopOK
<1>5. IteratorInCycle' /\ PendingIsFlown'
  BY <1>3 DEF IteratorInCycle, PendingIsFlown, InAir
<1> QED
  BY <1>3, <1>4, <1>5, InvNext

LEMMA LoopStep ==
  ASSUME Inv, Start \/ BeginCycle \/ LoopHalts
  PROVE  Inv'
<1>1. ObserverOK /\ IterOK /\ LoopOK /\ ShownOK /\ LoadsOK /\ HistoryOK
  BY TypeParts DEF Inv
<1>2. IteratorInCycle /\ PendingIsFlown
  BY DEF Inv
<1>3. CASE Start
  BY <1>1, <1>2, <1>3, InvNext
     DEF Start, observer, subscription, loads, ObserverOK, IterOK, LoopOK, ShownOK, LoadsOK,
         HistoryOK, IteratorInCycle, PendingIsFlown, InAir, InCycle
<1>4. CASE BeginCycle
  <2>1. /\ loop' = "cycle" /\ cycleFault' = FALSE /\ stop = "no"
        /\ iter' = "opening" /\ closing' = FALSE /\ wire' = <<>> /\ subscribed' = FALSE /\ eof' = FALSE
        /\ UNCHANGED <<observer, stop, halted, resynced, shown, reconcile, calls, missed>>
    BY <1>4 DEF BeginCycle
  <2>2. IterOK' /\ LoopOK' /\ IteratorInCycle'
    <3>1. <<>> \in Seq(Message)
      OBVIOUS
    <3> QED BY <1>1, <2>1, <3>1, Zenon DEF IterOK, LoopOK, IteratorInCycle, InCycle
  <2>3. /\ pending' \in SUBSET Request /\ flight' \in Flight
        /\ pending' # {} => flight'.call.st # "none"
    <3>1. CASE resynced
      <4>1. UNCHANGED <<pending, flight>>
        BY <1>4, <3>1 DEF BeginCycle
      <4> QED
        BY <1>1, <1>2, <4>1 DEF LoadsOK, PendingIsFlown, InAir
    <3>2. CASE ~resynced
      <4>1. RefreshWith("resync", pending, flight, TRUE)
        BY <1>4, <3>2 DEF BeginCycle
      <4>2. "resync" \in Request /\ pending \in SUBSET Request /\ flight \in Flight
        BY <1>1 DEF LoadsOK, Request
      <4> QED
        BY <4>1, <4>2, RefreshWithType
    <3> QED
      BY <3>1, <3>2
  <2>4. LoadsOK' /\ PendingIsFlown'
    BY <1>1, <2>1, <2>3 DEF LoadsOK, PendingIsFlown, InAir, InCycle
  <2> QED
    BY <1>1, <2>1, <2>2, <2>4, InvNext DEF observer, shown, ObserverOK, ShownOK, HistoryOK
<1>5. CASE LoopHalts
  BY <1>1, <1>2, <1>5, InvNext
     DEF LoopHalts, observer, subscription, shown, loads, ObserverOK, IterOK, LoopOK, ShownOK,
         LoadsOK, HistoryOK, IteratorInCycle, PendingIsFlown, InAir, InCycle
<1> QED
  BY <1>3, <1>4, <1>5

(* The connection that a failure shows. *)
LEMMA FailureShown ==
  ASSUME ShownOK, snapshot' = snapshot, ConnectionFailed \/ Halt \/ UNCHANGED connection
  PROVE  ShownOK'
  BY DEF ShownOK, ConnectionFailed, Halt

(* What is read from the subscription. *)
LEMMA ReadEndsCycle ==
  ASSUME Inv, \/ ReadReject \/ OpenFails \/ ReadAfterStop \/ DropLastEvent \/ ReadEnd
  PROVE  Inv'
<1>1. ObserverOK /\ IterOK /\ LoopOK /\ ShownOK /\ LoadsOK /\ HistoryOK
  BY TypeParts DEF Inv
<1>2. pending \in SUBSET Request /\ flight \in Flight /\ (pending # {} => flight.call.st # "none")
  BY <1>1 DEF LoadsOK, Inv, PendingIsFlown, InAir
<1>3. CASE ReadReject
  <2>1. /\ Halt /\ CycleOver(TRUE, pending, flight)
        /\ UNCHANGED <<observer, cycleFault, snapshot, calls, missed>>
    BY <1>3 DEF ReadReject
  <2>2. ShownOK' /\ halted' \in BOOLEAN
    BY <1>1, <2>1, FailureShown DEF Halt
  <2>3. ObserverOK' /\ HistoryOK' /\ cycleFault' \in BOOLEAN
    BY <1>1, <2>1 DEF observer, ObserverOK, HistoryOK, LoopOK
  <2> QED
    BY <1>2, <2>1, <2>2, <2>3, CycleOverStep
<1>4. CASE OpenFails
  <2>1. /\ CycleOver(halted, pending, flight)
        /\ UNCHANGED <<up, build, truth, halted, cycleFault, snapshot, calls, missed>>
        /\ ConnectionFailed \/ UNCHANGED connection
        /\ UNCHANGED faults \/ Fault
    BY <1>4 DEF OpenFails
  <2>2. ShownOK'
    BY <1>1, <2>1, FailureShown
  <2>3. faults' \in 0..MaxFaults
    BY <1>1, <2>1, ClientRuntimeAssumption DEF Fault, ObserverOK
  <2>4. ObserverOK' /\ HistoryOK' /\ halted' \in BOOLEAN /\ cycleFault' \in BOOLEAN
    BY <1>1, <2>1, <2>3 DEF ObserverOK, HistoryOK, LoopOK
  <2> QED
    BY <1>2, <2>1, <2>2, <2>4, CycleOverStep
<1>5. CASE ReadAfterStop \/ DropLastEvent \/ ReadEnd
  <2>1. /\ CycleOver(halted, pending, flight)
        /\ UNCHANGED <<observer, halted, cycleFault, shown, calls, missed>>
    BY <1>5 DEF ReadAfterStop, DropLastEvent, ReadEnd
  <2>2. /\ ObserverOK' /\ ShownOK' /\ HistoryOK' /\ halted' \in BOOLEAN /\ cycleFault' \in BOOLEAN
    BY <1>1, <2>1 DEF observer, shown, ObserverOK, ShownOK, HistoryOK, LoopOK
  <2> QED
    BY <1>2, <2>1, <2>2, CycleOverStep
<1> QED
  BY <1>3, <1>4, <1>5

(* After an event the cycle goes on, unless its iterator was returned. *)
LEMMA AfterEventStep ==
  ASSUME Inv, iter = "live", wire # <<>>,
         NEW requests \in SUBSET Request, NEW inAir \in Flight,
         AfterEvent(requests, inAir),
         requests # {} => inAir.call.st # "none",
         ShownOK', UNCHANGED <<observer, halted, cycleFault, calls, missed>>
  PROVE  Inv'
<1>1. ObserverOK /\ IterOK /\ LoopOK /\ ShownOK /\ LoadsOK /\ HistoryOK /\ InCycle
  BY TypeParts DEF Inv, IteratorInCycle
<1>2. ObserverOK' /\ HistoryOK' /\ halted' \in BOOLEAN /\ cycleFault' \in BOOLEAN
  BY <1>1 DEF observer, ObserverOK, HistoryOK, LoopOK
<1>3. CASE closing
  BY <1>2, <1>3, CycleOverStep DEF AfterEvent
<1>4. CASE ~closing
  <2>1. /\ wire' = Tail(wire) /\ pending' = requests /\ flight' = inAir
        /\ UNCHANGED <<iter, closing, subscribed, eof, loop, resynced, stop, reconcile>>
    BY <1>4 DEF AfterEvent
  <2>2. wire' \in Seq(Message)
    BY <1>1, <2>1 DEF IterOK
  <2>3. IterOK' /\ LoopOK' /\ LoadsOK'
    BY <1>1, <1>2, <2>1, <2>2 DEF IterOK, LoopOK, LoadsOK
  <2>4. IteratorInCycle' /\ PendingIsFlown'
    BY <1>1, <2>1 DEF Inv, IteratorInCycle, PendingIsFlown, InAir, InCycle
  <2> QED
    BY <1>2, <2>3, <2>4, InvNext
<1> QED
  BY <1>3, <1>4

LEMMA ReadGoesOn ==
  ASSUME Inv, \/ ReadAck \/ ReadPatch \/ ReadAnnouncement \/ DropEvent
  PROVE  Inv'
<1>1. ObserverOK /\ IterOK /\ LoopOK /\ ShownOK /\ LoadsOK /\ HistoryOK
  BY TypeParts DEF Inv
<1>2. IteratorInCycle /\ PendingIsFlown
  BY DEF Inv
<1>3. pending \in SUBSET Request /\ flight \in Flight /\ (pending # {} => flight.call.st # "none")
  BY <1>1, <1>2 DEF LoadsOK, PendingIsFlown, InAir
<1>4. CASE ReadAck
  <2>1. wire # <<>> /\ iter = "opening" /\ UNCHANGED <<observer, halted, cycleFault, shown, calls, missed>>
    BY <1>4 DEF ReadAck
  <2>2. /\ ObserverOK' /\ ShownOK' /\ HistoryOK' /\ halted' \in BOOLEAN /\ cycleFault' \in BOOLEAN
    BY <1>1, <2>1 DEF observer, shown, ObserverOK, ShownOK, HistoryOK, LoopOK
  <2>3. CASE closing
    <3>1. CycleOver(halted, pending, flight)
      BY <1>4, <2>3 DEF ReadAck
    <3> QED
      BY <1>3, <2>2, <3>1, CycleOverStep
  <2>4. CASE ~closing
    <3>1. /\ iter' = "live" /\ wire' = Tail(wire)
          /\ UNCHANGED <<closing, subscribed, eof, loop, stop, resynced, pending, flight, reconcile>>
      BY <1>4, <2>4 DEF ReadAck
    <3>2. wire' \in Seq(Message)
      BY <1>1, <2>1, <3>1 DEF IterOK
    <3>3. IterOK' /\ LoopOK' /\ LoadsOK'
      BY <1>1, <2>2, <3>1, <3>2 DEF IterOK, LoopOK, LoadsOK
    <3>4. IteratorInCycle' /\ PendingIsFlown'
      BY <1>2, <2>1, <3>1 DEF IteratorInCycle, PendingIsFlown, InAir, InCycle
    <3> QED
      BY <2>2, <3>3, <3>4, InvNext
  <2> QED
    BY <2>3, <2>4
<1>5. CASE ReadPatch
  <2>1. /\ iter = "live" /\ wire # <<>> /\ snapshot # NoSnapshot /\ Head(wire).kind = "agent"
        /\ snapshot' = [snapshot EXCEPT !.agent = Head(wire).agent]
        /\ AfterEvent(pending, Mutated(flight))
        /\ UNCHANGED <<observer, halted, cycleFault, connection, calls, missed>>
    BY <1>5 DEF ReadPatch
  <2>2. Head(wire) \in Message
    BY <1>1, <2>1 DEF IterOK
  <2>3. Head(wire).agent \in Nat
    BY <2>1, <2>2 DEF Message, Ack, Reject, Rest
  <2>4. ShownOK'
    BY <1>1, <2>1, <2>3 DEF ShownOK, Version
  <2> QED
    BY <1>3, <2>1, <2>4, MutatedType, AfterEventStep
<1>6. CASE ReadAnnouncement
  <2>1. /\ iter = "live" /\ wire # <<>>
        /\ UNCHANGED <<observer, halted, cycleFault, shown, calls, missed>>
    BY <1>6 DEF ReadAnnouncement
  <2>2. ShownOK'
    BY <1>1, <2>1 DEF shown, ShownOK
  <2>3. CASE InAir
    <3>1. AfterEvent(pending \cup {"managed"}, Mutated(flight))
      BY <1>6, <2>3 DEF ReadAnnouncement
    <3>2. pending \cup {"managed"} \in SUBSET Request
      BY <1>3 DEF Request
    <3>3. Mutated(flight) \in Flight /\ Mutated(flight).call.st # "none"
      BY <1>3, <2>3, MutatedType DEF InAir
    <3> QED
      BY <2>1, <2>2, <3>1, <3>2, <3>3, AfterEventStep
  <2>4. CASE ~InAir
    <3>1. AfterEvent({}, FlightFor({"managed"}, TRUE))
      BY <1>6, <2>4 DEF ReadAnnouncement
    <3>2. FlightFor({"managed"}, TRUE) \in Flight
      BY FlightForType DEF Request
    <3> QED
      BY <2>1, <2>2, <3>1, <3>2, AfterEventStep
  <2> QED
    BY <2>3, <2>4
<1>7. CASE DropEvent
  <2>1. /\ wire # <<>> /\ wire' = Tail(wire)
        /\ flight' = [flight EXCEPT !.call = Lacking(@)]
        /\ reconcile' = Lacking(reconcile)
        /\ UNCHANGED <<observer, iter, closing, subscribed, eof, runtime, shown, pending, calls, missed>>
    BY <1>7 DEF DropEvent
  <2>2. wire' \in Seq(Message)
    BY <1>1, <2>1 DEF IterOK
  <2>3. /\ LoadsOK' /\ flight'.for = flight.for /\ flight'.call.spans = flight.call.spans
        /\ flight'.call.st = flight.call.st /\ reconcile'.spans = reconcile.spans
    BY <1>1, <2>1, LackingType DEF LoadsOK, Flight
  <2>4. PendingIsFlown' /\ IteratorInCycle'
    BY <1>2, <2>1, <2>3 DEF runtime, PendingIsFlown, InAir, InCycle, IteratorInCycle
  <2>5. ObserverOK' /\ IterOK' /\ LoopOK' /\ ShownOK' /\ HistoryOK'
    BY <1>1, <2>1, <2>2 DEF observer, runtime, shown, ObserverOK, IterOK, LoopOK, ShownOK, HistoryOK
  <2> QED
    BY <2>3, <2>4, <2>5, InvNext
<1> QED
  BY <1>4, <1>5, <1>6, <1>7

(* The snapshot that a load brings. *)
LEMMA ApplyLoadedType ==
  ASSUME ShownOK, LoopOK, NEW call \in Call, ApplyLoaded(call)
  PROVE  ShownOK' /\ resynced' \in BOOLEAN
<1>1. /\ snapshot' = call.got /\ resynced' = (resynced \/ (~halted /\ call.spans))
      /\ connection' = IF ~halted /\ call.spans THEN "connected" ELSE connection
  BY DEF ApplyLoaded
<1>2. call.got \in Version /\ call.spans \in BOOLEAN
  BY DEF Call
<1>3. ShownOK'
  BY <1>1, <1>2 DEF ShownOK
<1>4. resynced' \in BOOLEAN
  BY <1>1, <1>2, Zenon DEF LoopOK
<1> QED
  BY <1>3, <1>4

LEMMA FlightStep ==
  ASSUME Inv, FlightLands \/ FlightFailsAtConnect \/ FlightIsLost \/ FlightMeetsOtherBuild
  PROVE  Inv'
<1>1. ObserverOK /\ IterOK /\ LoopOK /\ ShownOK /\ LoadsOK /\ HistoryOK
  BY TypeParts DEF Inv
<1>2. IteratorInCycle /\ PendingIsFlown
  BY DEF Inv
<1>3. flight \in Flight /\ flight.call \in Call /\ flight.mutated \in BOOLEAN /\ reconcile \in Call
  BY <1>1 DEF LoadsOK, Flight
<1>4. ASSUME NEW followUp \in BOOLEAN, NextFlight(pending, followUp),
             UNCHANGED <<iter, loop, stop, reconcile>>
      PROVE  LoadsOK' /\ PendingIsFlown' /\ IteratorInCycle'
  <2>1. /\ pending' = {} /\ flight' \in Flight
        /\ flight'.call.spans => InCycle
        /\ "resync" \in flight'.for => InCycle
    BY <1>4, NextFlightType
  <2> QED
    BY <1>2, <1>3, <1>4, <2>1 DEF LoadsOK, PendingIsFlown, InAir, InCycle, IteratorInCycle
<1>5. CASE FlightLands
  <2>1. /\ NextFlight(pending, stop = "no" /\ ~halted /\ flight.mutated)
        /\ UNCHANGED <<observer, subscription, loop, stop, halted, cycleFault, reconcile, calls>>
    BY <1>5 DEF FlightLands
  <2>2. (stop = "no" /\ ~halted /\ flight.mutated) \in BOOLEAN
    OBVIOUS
  <2>3. LoadsOK' /\ PendingIsFlown' /\ IteratorInCycle'
    BY <1>4, <2>1, <2>2 DEF subscription
  <2>4. ShownOK' /\ resynced' \in BOOLEAN /\ missed' \in BOOLEAN
    <3>1. CASE stop = "no"
      <4>1. ApplyLoaded(flight.call) /\ missed' = MissedAfter(flight.call, flight.mutated)
        BY <1>5, <3>1 DEF FlightLands
      <4>2. missed' \in BOOLEAN
        BY <1>1, <1>3, <4>1, Zenon DEF MissedAfter, Call, HistoryOK
      <4> QED
        BY <1>1, <1>3, <4>1, <4>2, ApplyLoadedType
    <3>2. CASE stop # "no"
      <4>1. UNCHANGED <<shown, resynced, missed>>
        BY <1>5, <3>2 DEF FlightLands
      <4> QED
        BY <1>1, <4>1 DEF shown, ShownOK, LoopOK, HistoryOK
    <3> QED
      BY <3>1, <3>2
  <2>5. ObserverOK' /\ IterOK' /\ LoopOK' /\ HistoryOK'
    BY <1>1, <2>1, <2>4 DEF observer, subscription, ObserverOK, IterOK, LoopOK, HistoryOK
  <2> QED
    BY <2>3, <2>4, <2>5, InvNext
<1>6. ASSUME NEW kind \in {"connect", "lost", "permanent"}, FlightFailsAs(kind)
      PROVE  Inv'
  <2>1. /\ cycleFault' = (cycleFault \/ ResyncFailed(halted'))
        /\ closing' = (closing \/ (iter # "none" /\ (ResyncFailed(halted') \/ (halted' /\ ~halted))))
        /\ missed' = TRUE
        /\ NextFlight(pending, FALSE)
        /\ UNCHANGED <<up, build, truth, iter, wire, subscribed, eof, loop, stop, resynced,
                       snapshot, reconcile, calls>>
    BY <1>6 DEF FlightFailsAs
  <2>2. faults' = faults \/ Fault
    BY <1>6 DEF FlightFailsAs, FlightFails
  <2>3. faults' \in 0..MaxFaults
    BY <1>1, <2>2, ClientRuntimeAssumption DEF Fault, ObserverOK
  <2>4. \/ UNCHANGED <<halted, connection>>
        \/ Halt
        \/ ConnectionFailed /\ UNCHANGED halted
    BY <1>6 DEF FlightFailsAs
  <2>5. ShownOK' /\ halted' \in BOOLEAN
    BY <1>1, <2>1, <2>4, FailureShown DEF Halt, LoopOK
  <2>6. cycleFault' \in BOOLEAN /\ closing' \in BOOLEAN
    BY <1>1, <2>1, <2>5, Zenon DEF LoopOK, IterOK, ResyncFailed
  <2>7. LoadsOK' /\ PendingIsFlown' /\ IteratorInCycle'
    BY <1>4, <2>1
  <2>8. ObserverOK' /\ IterOK' /\ LoopOK' /\ HistoryOK'
    BY <1>1, <2>1, <2>3, <2>5, <2>6 DEF ObserverOK, IterOK, LoopOK, HistoryOK
  <2> QED
    BY <2>5, <2>7, <2>8, InvNext
<1> QED
  BY <1>5, <1>6 DEF FlightFailsAtConnect, FlightIsLost, FlightMeetsOtherBuild

LEMMA CallerStep ==
  ASSUME Inv, CallerRefresh \/ CallerReconcile \/ ReconcileLands \/ ReconcileFails
  PROVE  Inv'
<1>1. ObserverOK /\ IterOK /\ LoopOK /\ ShownOK /\ LoadsOK /\ HistoryOK
  BY TypeParts DEF Inv
<1>2. IteratorInCycle /\ PendingIsFlown
  BY DEF Inv
<1>3. OneMoreCall => calls' \in 0..MaxCalls
  BY <1>1, ClientRuntimeAssumption DEF OneMoreCall, HistoryOK
<1>4. CASE CallerRefresh
  <2>1. /\ OneMoreCall /\ RefreshWith("caller", pending, flight, InCycle)
        /\ UNCHANGED <<observer, subscription, runtime, shown, reconcile, missed>>
    BY <1>4 DEF CallerRefresh
  <2>2. "caller" \in Request /\ pending \in SUBSET Request /\ flight \in Flight /\ InCycle \in BOOLEAN
    BY <1>1 DEF LoadsOK, Request, InCycle
  <2>3. /\ flight.call.spans => InCycle
        /\ "resync" \in pending \cup flight.for => InCycle
    BY <1>2 DEF PendingIsFlown
  <2>4. /\ pending' \in SUBSET Request /\ flight' \in Flight
        /\ pending' # {} => flight'.call.st # "none"
        /\ flight'.call.spans => InCycle
        /\ "resync" \in pending' \cup flight'.for => InCycle
    BY <2>1, <2>2, <2>3, RefreshWithType
  <2>5. LoadsOK' /\ PendingIsFlown' /\ IteratorInCycle'
    BY <1>1, <1>2, <2>1, <2>4
       DEF subscription, runtime, LoadsOK, PendingIsFlown, InAir, InCycle, IteratorInCycle
  <2>6. ObserverOK' /\ IterOK' /\ LoopOK' /\ ShownOK' /\ HistoryOK'
    BY <1>1, <1>3, <2>1
       DEF observer, subscription, runtime, shown, ObserverOK, IterOK, LoopOK, ShownOK, HistoryOK
  <2> QED
    BY <2>5, <2>6, InvNext
<1>5. CASE CallerReconcile
  <2>1. /\ OneMoreCall /\ reconcile' = Asked(InCycle)
        /\ UNCHANGED <<observer, subscription, runtime, shown, pending, flight, missed>>
    BY <1>5 DEF CallerReconcile
  <2>2. reconcile' \in Call /\ reconcile'.spans = InCycle
    BY <2>1 DEF Asked, NoCall, Zero, Version, Call, InCycle
  <2>3. LoadsOK' /\ PendingIsFlown' /\ IteratorInCycle'
    BY <1>1, <1>2, <2>1, <2>2
       DEF subscription, runtime, LoadsOK, PendingIsFlown, InAir, InCycle, IteratorInCycle
  <2>4. ObserverOK' /\ IterOK' /\ LoopOK' /\ ShownOK' /\ HistoryOK'
    BY <1>1, <1>3, <2>1
       DEF observer, subscription, runtime, shown, ObserverOK, IterOK, LoopOK, ShownOK, HistoryOK
  <2> QED
    BY <2>3, <2>4, InvNext
<1>6. CASE ReconcileLands
  <2>1. /\ reconcile' = NoCall /\ NoCall \in Call /\ ~NoCall.spans
        /\ UNCHANGED <<observer, subscription, loop, stop, halted, cycleFault, pending, calls>>
    BY <1>6 DEF ReconcileLands, NoCall, Zero, Version, Call
  <2>2. ShownOK' /\ resynced' \in BOOLEAN /\ missed' \in BOOLEAN /\ flight' \in {flight, Mutated(flight)}
    <3>1. CASE stop = "no"
      <4>1. /\ ApplyLoaded(reconcile) /\ flight' = Mutated(flight)
            /\ missed' = (missed \/ reconcile.lacks \/ Older(reconcile.got))
        BY <1>6, <3>1 DEF ReconcileLands
      <4>2. reconcile \in Call /\ reconcile.lacks \in BOOLEAN
        BY <1>1 DEF LoadsOK, Call
      <4>3. missed' \in BOOLEAN
        BY <1>1, <4>1, <4>2, Zenon DEF HistoryOK, Older
      <4> QED
        BY <1>1, <4>1, <4>2, <4>3, ApplyLoadedType
    <3>2. CASE stop # "no"
      <4>1. UNCHANGED <<shown, resynced, flight, missed>>
        BY <1>6, <3>2 DEF ReconcileLands
      <4> QED
        BY <1>1, <4>1 DEF shown, ShownOK, LoopOK, HistoryOK
    <3> QED
      BY <3>1, <3>2
  <2>3. flight' \in Flight /\ flight'.call = flight.call /\ flight'.for = flight.for
    BY <1>1, <2>2, MutatedType DEF LoadsOK
  <2>4. LoadsOK' /\ PendingIsFlown' /\ IteratorInCycle'
    BY <1>1, <1>2, <2>1, <2>3
       DEF subscription, LoadsOK, PendingIsFlown, InAir, InCycle, IteratorInCycle
  <2>5. ObserverOK' /\ IterOK' /\ LoopOK' /\ HistoryOK'
    BY <1>1, <2>1, <2>2 DEF observer, subscription, ObserverOK, IterOK, LoopOK, HistoryOK
  <2> QED
    BY <2>2, <2>4, <2>5, InvNext
<1>7. CASE ReconcileFails
  <2>1. /\ reconcile' = NoCall /\ NoCall \in Call /\ ~NoCall.spans
        /\ UNCHANGED <<up, build, truth, subscription, runtime, shown, pending, flight, calls, missed>>
        /\ UNCHANGED faults \/ Fault
    BY <1>7 DEF ReconcileFails, NoCall, Zero, Version, Call
  <2>2. faults' \in 0..MaxFaults
    BY <1>1, <2>1, ClientRuntimeAssumption DEF Fault, ObserverOK
  <2>3. LoadsOK' /\ PendingIsFlown' /\ IteratorInCycle'
    BY <1>1, <1>2, <2>1
       DEF subscription, runtime, LoadsOK, PendingIsFlown, InAir, InCycle, IteratorInCycle
  <2>4. ObserverOK' /\ IterOK' /\ LoopOK' /\ ShownOK' /\ HistoryOK'
    BY <1>1, <2>1, <2>2
       DEF subscription, runtime, shown, ObserverOK, IterOK, LoopOK, ShownOK, HistoryOK
  <2> QED
    BY <2>3, <2>4, InvNext
<1> QED
  BY <1>4, <1>5, <1>6, <1>7

LEMMA StopStep == ASSUME Inv, StopCalled PROVE Inv'
<1>1. ObserverOK /\ IterOK /\ LoopOK /\ ShownOK /\ LoadsOK /\ HistoryOK
  BY TypeParts DEF Inv
<1>2. IteratorInCycle /\ PendingIsFlown
  BY DEF Inv
<1>3. UNCHANGED <<observer, halted, cycleFault, shown, calls, missed>>
  BY DEF StopCalled
<1>4. ObserverOK' /\ ShownOK' /\ HistoryOK'
  BY <1>1, <1>3 DEF observer, shown, ObserverOK, ShownOK, HistoryOK
<1>5. CASE iter = "live" /\ ~closing
  <2>1. /\ stop' = "returning" /\ closing' = TRUE
        /\ UNCHANGED <<iter, wire, subscribed, eof, loop, resynced, pending, flight, reconcile>>
    BY <1>5 DEF StopCalled
  <2>2. IterOK' /\ LoopOK' /\ LoadsOK'
    BY <1>1, <1>3, <2>1 DEF IterOK, LoopOK, LoadsOK
  <2>3. IteratorInCycle' /\ PendingIsFlown'
    BY <1>2, <1>5, <2>1 DEF IteratorInCycle, PendingIsFlown, InAir, InCycle
  <2> QED
    BY <1>4, <2>2, <2>3, InvNext
<1>6. CASE ~(iter = "live" /\ ~closing)
  <2>1. /\ stop' = "stopped" /\ loop' = "done" /\ resynced' = resynced
        /\ iter' = "none" /\ closing' = FALSE /\ wire' = <<>> /\ subscribed' = FALSE /\ eof' = FALSE
        /\ pending' = Outlived(pending)
        /\ flight' = [flight EXCEPT !.call = Detached(@), !.for = Outlived(@)]
        /\ reconcile' = Detached(reconcile)
    BY <1>6 DEF StopCalled
  <2>2. IterOK' /\ LoopOK'
    <3>1. <<>> \in Seq(Message)
      OBVIOUS
    <3> QED BY <1>1, <1>3, <2>1, <3>1, Zenon DEF IterOK, LoopOK
  <2>3. /\ LoadsOK' /\ ~flight'.call.spans /\ ~reconcile'.spans
        /\ flight'.call.st = flight.call.st /\ "resync" \notin pending' \cup flight'.for
        /\ pending' = {} <=> pending = {}
    BY <1>1, <2>1, OutlivedType, DetachedType DEF LoadsOK, Flight
  <2>4. iter' = "none" /\ iter' # "opening"
    BY <2>1
  <2>5. IteratorInCycle'
    BY <2>4 DEF IteratorInCycle
  <2>6. PendingIsFlown'
    BY <1>2, <2>3 DEF PendingIsFlown, InAir
  <2> QED
    BY <1>4, <2>2, <2>3, <2>5, <2>6, InvNext
<1> QED
  BY <1>5, <1>6

LEMMA InvStep == Inv /\ [Next]_vars => Inv'
<1> SUFFICES ASSUME Inv, [Next]_vars PROVE Inv'
  OBVIOUS
<1>1. CASE UNCHANGED vars
  <2>1. UNCHANGED <<observer, subscription, runtime, shown, loads, missed>>
    BY <1>1 DEF vars
  <2>2. /\ ObserverOK' /\ IterOK' /\ LoopOK' /\ ShownOK' /\ LoadsOK' /\ HistoryOK'
    BY <2>1, TypeParts
       DEF Inv, observer, subscription, runtime, shown, loads, ObserverOK, IterOK, LoopOK, ShownOK,
           LoadsOK, HistoryOK
  <2>3. IteratorInCycle' /\ PendingIsFlown'
    BY <2>1 DEF Inv, subscription, runtime, loads, IteratorInCycle, PendingIsFlown, InAir, InCycle
  <2> QED
    BY <2>2, <2>3, InvNext
<1> QED
  BY <1>1, ObserverStep, LoopStep, ReadEndsCycle, ReadGoesOn, FlightStep, CallerStep, StopStep
     DEF Next

(* Every reachable state of the client is well typed. *)
THEOREM TypeCorrect == Spec => []TypeOK
<1>1. Inv => TypeOK
  BY DEF Inv
<1> QED
  BY <1>1, InvInit, InvStep, PTL DEF Spec

(* However many loads, gaps, ends of the observer and calls there are, no   *)
(* request waits without a load in the air (requestRefresh and              *)
(* runRefreshChain), and nothing that belongs to a cycle outlives it.       *)
THEOREM RequestsAreFlown == Spec => []PendingIsFlown
<1>1. Inv => PendingIsFlown
  BY DEF Inv
<1> QED
  BY <1>1, InvInit, InvStep, PTL DEF Spec

(* After stop() the listeners see nothing new: a response in the air, an    *)
(* event behind the end and a failure of the subscription find the runtime  *)
(* stopped, and an iterator that was still being opened is gone.            *)
LEMMA FrozenStep == Inv /\ [Next]_vars /\ stop # "no" => UNCHANGED shown
<1> SUFFICES ASSUME Inv, [Next]_vars, stop # "no" PROVE UNCHANGED shown
  OBVIOUS
<1>1. iter # "opening" /\ ~Active
  BY DEF Inv, IteratorInCycle, Active
<1>2. CASE UNCHANGED vars
  BY <1>2 DEF vars
<1>3. CASE \/ AgentChanges \/ RestChanges \/ ObserverEnds \/ ObserverStarts
           \/ ServeSubscribe \/ ServeSnapshot \/ ServeReconcile
  BY <1>3 DEF AgentChanges, RestChanges, Change, ObserverEnds, ObserverStarts, ServeSubscribe,
              ServeSnapshot, ServeReconcile
<1>4. CASE Start \/ BeginCycle \/ LoopHalts
  BY <1>4 DEF Start, BeginCycle, LoopHalts
<1>5. CASE ReadAck \/ ReadReject \/ OpenFails
  BY <1>1, <1>5 DEF ReadAck, ReadReject, OpenFails
<1>6. CASE ReadAfterStop \/ ReadPatch \/ ReadAnnouncement \/ DropEvent \/ DropLastEvent \/ ReadEnd
  BY <1>1, <1>6 DEF ReadAfterStop, ReadPatch, ReadAnnouncement, DropEvent, DropLastEvent, ReadEnd
<1>7. CASE FlightLands
  BY <1>7 DEF FlightLands
<1>8. ASSUME NEW kind, FlightFailsAs(kind) PROVE UNCHANGED shown
  <2>1. UNCHANGED <<halted, connection>> /\ UNCHANGED snapshot
    BY <1>8 DEF FlightFailsAs
  <2> QED
    BY <2>1 DEF shown
<1>9. CASE CallerRefresh \/ CallerReconcile \/ ReconcileLands \/ ReconcileFails
  BY <1>9 DEF CallerRefresh, CallerReconcile, ReconcileLands, ReconcileFails
<1>10. CASE StopCalled
  BY <1>10 DEF StopCalled
<1> QED
  BY <1>2, <1>3, <1>4, <1>5, <1>6, <1>7, <1>8, <1>9, <1>10
     DEF Next, FlightFailsAtConnect, FlightIsLost, FlightMeetsOtherBuild

THEOREM StoppedIsFrozen == Spec => FrozenAfterStop
<1>1. Inv /\ [Next]_vars => [stop # "no" => UNCHANGED shown]_vars
  BY FrozenStep
<1> QED
  BY <1>1, InvInit, InvStep, PTL DEF Spec, FrozenAfterStop

-----------------------------------------------------------------------------
(* A client at rest is current: CurrentInv is inductive with Inv.          *)

(* What is still to come stays to come.                                    *)
WireKept == (AgentOnWire => AgentOnWire') /\ (RestOnWire => RestOnWire')

(* A wire that carries nothing the copy depends on. *)
LEMMA BareWire ==
  ASSUME NEW message \in {Ack, Reject}, wire = <<>>, wire' = <<>> \/ wire' = <<message>>
  PROVE  WireKept /\ LastAgentIsTruth'
<1>1. message.kind # "agent" /\ message.kind # "rest"
  BY DEF Ack, Reject
<1>2. ~AgentOnWire /\ ~RestOnWire
  BY DEF AgentOnWire, RestOnWire
<1>3. \A i \in DOMAIN wire' : wire'[i].kind # "agent"
  BY <1>1
<1> QED
  BY <1>2, <1>3 DEF WireKept, LastAgentIsTruth

(* A published event is the last of the wire. *)
LEMMA WireGrows ==
  ASSUME wire \in Seq(Message), NEW event \in Message, wire' = Append(wire, event)
  PROVE  /\ WireKept
         /\ event.kind = "agent" => AgentOnWire'
         /\ event.kind = "rest" => RestOnWire'
         /\ event.kind = "agent" /\ event.agent = truth'.agent => LastAgentIsTruth'
         /\ event.kind # "agent" /\ truth'.agent = truth.agent /\ eof' = eof /\ LastAgentIsTruth
              => LastAgentIsTruth'
<1>1. /\ DOMAIN wire = 1..Len(wire) /\ DOMAIN wire' = 1..(Len(wire) + 1) /\ Len(wire) \in Nat
      /\ wire'[Len(wire) + 1] = event
      /\ \A i \in DOMAIN wire : wire'[i] = wire[i]
  OBVIOUS
<1>2. WireKept
  BY <1>1 DEF WireKept, AgentOnWire, RestOnWire
<1>3. Len(wire) + 1 \in DOMAIN wire'
  BY <1>1
<1>4. (event.kind = "agent" => AgentOnWire') /\ (event.kind = "rest" => RestOnWire')
  BY <1>1, <1>3 DEF AgentOnWire, RestOnWire
<1>5. ASSUME event.kind = "agent", event.agent = truth'.agent PROVE LastAgentIsTruth'
  <2> SUFFICES ASSUME NEW i \in DOMAIN wire', wire'[i].kind = "agent",
                      \A j \in DOMAIN wire' : j > i => wire'[j].kind # "agent"
               PROVE  wire'[i].agent = truth'.agent
    BY DEF LastAgentIsTruth
  <2>1. ~(Len(wire) + 1 > i)
    BY <1>1, <1>3, <1>5
  <2>2. i = Len(wire) + 1
    BY <1>1, <2>1
  <2> QED
    BY <1>1, <1>5, <2>2
<1>6. ASSUME event.kind # "agent", truth'.agent = truth.agent, eof' = eof, LastAgentIsTruth
      PROVE  LastAgentIsTruth'
  <2> SUFFICES ASSUME ~eof, NEW i \in DOMAIN wire', wire'[i].kind = "agent",
                      \A j \in DOMAIN wire' : j > i => wire'[j].kind # "agent"
               PROVE  wire'[i].agent = truth'.agent
    BY <1>6 DEF LastAgentIsTruth
  <2>1. i # Len(wire) + 1
    BY <1>1, <1>6
  <2>2. i \in DOMAIN wire /\ wire'[i] = wire[i]
    BY <1>1, <2>1
  <2>3. \A j \in DOMAIN wire : j > i => wire[j].kind # "agent"
    BY <1>1
  <2>4. wire[i].agent = truth.agent
    BY <1>6, <2>2, <2>3 DEF LastAgentIsTruth
  <2> QED
    BY <1>6, <2>2, <2>4
<1> QED
  BY <1>2, <1>4, <1>5, <1>6

(* The head of the wire is read. *)
LEMMA WireShrinks ==
  ASSUME wire \in Seq(Message), wire # <<>>, wire' = Tail(wire)
  PROVE  /\ Head(wire).kind # "agent" => (AgentOnWire => AgentOnWire')
         /\ Head(wire).kind # "rest" => (RestOnWire => RestOnWire')
         /\ LastAgentIsTruth /\ eof' = eof /\ truth' = truth => LastAgentIsTruth'
         /\ LastAgentIsTruth /\ ~eof /\ Head(wire).kind = "agent" /\ ~AgentOnWire'
              => Head(wire).agent = truth.agent
<1>1. /\ DOMAIN wire = 1..Len(wire) /\ DOMAIN wire' = 1..(Len(wire) - 1)
      /\ Len(wire) \in Nat /\ Len(wire) > 0 /\ Head(wire) = wire[1]
      /\ \A i \in DOMAIN wire' : wire'[i] = wire[i + 1]
  OBVIOUS
<1>2. ASSUME NEW i \in DOMAIN wire, i # 1 PROVE i - 1 \in DOMAIN wire' /\ wire'[i - 1] = wire[i]
  <2>1. i \in Nat /\ i >= 1 /\ i <= Len(wire) /\ (i - 1) + 1 = i
    BY <1>1
  <2>2. i - 1 \in 1..(Len(wire) - 1)
    BY <1>1, <1>2, <2>1
  <2>3. i - 1 \in DOMAIN wire'
    BY <1>1, <2>2, Zenon
  <2>4. wire'[i - 1] = wire[(i - 1) + 1]
    BY <1>1, <2>3, Zenon
  <2> QED
    BY <2>1, <2>3, <2>4, Zenon
<1>3. Head(wire).kind # "agent" => (AgentOnWire => AgentOnWire')
  <2> SUFFICES ASSUME wire[1].kind # "agent", NEW i \in DOMAIN wire, wire[i].kind = "agent"
               PROVE  AgentOnWire'
    BY <1>1 DEF AgentOnWire
  <2> QED
    BY <1>2 DEF AgentOnWire
<1>4. Head(wire).kind # "rest" => (RestOnWire => RestOnWire')
  <2> SUFFICES ASSUME wire[1].kind # "rest", NEW i \in DOMAIN wire, wire[i].kind = "rest"
               PROVE  RestOnWire'
    BY <1>1 DEF RestOnWire
  <2> QED
    BY <1>2 DEF RestOnWire
<1>5. ASSUME LastAgentIsTruth, eof' = eof, truth' = truth PROVE LastAgentIsTruth'
  <2> SUFFICES ASSUME ~eof, NEW i \in DOMAIN wire', wire'[i].kind = "agent",
                      \A j \in DOMAIN wire' : j > i => wire'[j].kind # "agent"
               PROVE  wire'[i].agent = truth.agent
    BY <1>5 DEF LastAgentIsTruth
  <2>1. i + 1 \in DOMAIN wire /\ wire[i + 1] = wire'[i]
    BY <1>1
  <2>2. ASSUME NEW j \in DOMAIN wire, j > i + 1 PROVE wire[j].kind # "agent"
    <3>1. i \in Nat /\ j \in Nat /\ i >= 1
      BY <1>1
    <3>2. j # 1 /\ j - 1 > i
      BY <2>2, <3>1
    <3>3. j - 1 \in DOMAIN wire' /\ wire'[j - 1] = wire[j]
      BY <1>2, <3>2
    <3> QED
      BY <3>2, <3>3, Zenon
  <2> QED
    BY <1>5, <2>1, <2>2 DEF LastAgentIsTruth
<1>6. ASSUME LastAgentIsTruth, ~eof, Head(wire).kind = "agent", ~AgentOnWire'
      PROVE  Head(wire).agent = truth.agent
  <2>1. 1 \in DOMAIN wire /\ wire[1].kind = "agent"
    BY <1>1, <1>6
  <2>2. ASSUME NEW j \in DOMAIN wire, j > 1 PROVE wire[j].kind # "agent"
    <3>1. j # 1
      BY <1>1, <2>2
    <3>2. j - 1 \in DOMAIN wire' /\ wire'[j - 1] = wire[j]
      BY <1>2, <3>1
    <3> QED
      BY <1>6, <3>2 DEF AgentOnWire
  <2>3. wire[1].agent = truth.agent
    BY <1>6, <2>1, <2>2 DEF LastAgentIsTruth
  <2> QED
    BY <1>1, <2>3
<1> QED
  BY <1>3, <1>4, <1>5, <1>6

(* What a load keeps when it is found lacking, overtaken or detached.      *)
LEMMA LackingLoad ==
  ASSUME NEW call \in Call
  PROVE  /\ Lacking(call).st = call.st /\ Lacking(call).spans = call.spans
         /\ Lacking(call).got = call.got
         /\ call.st = "answered" => Lacking(call).lacks
  BY DEF Lacking, Call

LEMMA MutatedLoad ==
  ASSUME NEW inAir \in Flight
  PROVE  inAir.call.st # "none" => Mutated(inAir).mutated
  BY DEF Mutated, Flight

LEMMA FreshFlight ==
  ASSUME NEW requests \in SUBSET Request, NEW spans \in BOOLEAN
  PROVE  /\ FlightFor(requests, spans) \in Flight
         /\ FlightFor(requests, spans).call.st = "asked"
         /\ FlightFor(requests, spans).call.spans = spans
<1>1. Asked(spans).st = "asked" /\ Asked(spans).spans = spans
  BY DEF Asked, NoCall
<1> QED
  BY <1>1, FlightForType DEF FlightFor

LEMMA FreshFlightEmpty == NoFlight.call.st = "none" /\ NoCall.st = "none" /\ ~NoCall.spans
                          /\ NoCall.got = Zero /\ ~NoFlight.call.spans
  BY DEF NoFlight, NoCall

(* The types of the parts the steps are about.                             *)
LEMMA CurrentTypes ==
  ASSUME Inv
  PROVE  /\ wire \in Seq(Message) /\ truth \in Version
         /\ truth.agent \in Nat /\ truth.rest \in Nat
         /\ flight \in Flight /\ flight.call \in Call /\ flight.mutated \in BOOLEAN
         /\ flight.call.got \in Version /\ flight.call.spans \in BOOLEAN
         /\ reconcile \in Call /\ reconcile.got \in Version /\ reconcile.spans \in BOOLEAN
         /\ reconcile.got.agent \in Nat /\ reconcile.got.rest \in Nat
         /\ snapshot \in Version \cup {NoSnapshot}
         /\ pending \in SUBSET Request
         /\ subscribed \in BOOLEAN /\ eof \in BOOLEAN /\ resynced \in BOOLEAN
         /\ halted \in BOOLEAN /\ missed \in BOOLEAN
<1>1. TypeOK BY DEF Inv
<1>2. /\ flight.call \in Call /\ flight.mutated \in BOOLEAN
  BY <1>1 DEF TypeOK, Flight
<1>3. flight.call.got \in Version /\ flight.call.spans \in BOOLEAN
  BY <1>2 DEF Call
<1>4. reconcile.got \in Version /\ reconcile.spans \in BOOLEAN
  BY <1>1 DEF TypeOK, Call
<1>5. /\ truth.agent \in Nat /\ truth.rest \in Nat
      /\ reconcile.got.agent \in Nat /\ reconcile.got.rest \in Nat
  BY <1>1, <1>4 DEF TypeOK, Version
<1> QED BY <1>1, <1>2, <1>3, <1>4, <1>5 DEF TypeOK

LEMMA CurrentInit == Init => CurrentInv
<1> SUFFICES ASSUME Init PROVE CurrentInv
  OBVIOUS
<1>1. /\ iter = "none" /\ wire = <<>> /\ subscribed = FALSE /\ eof = FALSE
      /\ truth = Zero /\ loop = "idle" /\ halted = FALSE
      /\ snapshot \in {NoSnapshot, Zero} /\ resynced = (snapshot # NoSnapshot)
      /\ flight = NoFlight /\ reconcile = NoCall
  BY DEF Init
<1>2. Zero.agent = 0 /\ Zero.rest = 0
  BY DEF Zero
<1>3. LastAgentIsTruth /\ SubscriptionInv
  BY <1>1 DEF LastAgentIsTruth, SubscriptionInv
<1>4. ShownInv /\ ResyncInv
  <2>1. resynced => snapshot # NoSnapshot
    BY <1>1, Zenon
  <2>2. reconcile.got.agent <= truth.agent /\ reconcile.got.rest <= truth.rest
    BY <1>1, <1>2, FreshFlightEmpty
  <2>3. ~InCycle
    BY <1>1 DEF InCycle
  <2> QED
    BY <2>1, <2>2, <2>3 DEF ShownInv, ResyncInv
<1>5. FlightIsFine /\ CopyIsFine
  BY <1>1, FreshFlightEmpty DEF FlightIsFine, CopyIsFine, Fine
<1> QED
  BY <1>3, <1>4, <1>5 DEF CurrentInv

(* A change is published, or what is answered and shown lacks it.          *)
LEMMA ChangeCurrent ==
  ASSUME Inv, CurrentInv, NEW new \in Version, NEW event \in Message, Change(new, event),
         new.agent >= truth.agent, new.rest >= truth.rest,
         \/ event.kind = "agent" /\ event.agent = new.agent /\ new.rest = truth.rest
         \/ event.kind = "rest" /\ new.agent = truth.agent
  PROVE  CurrentInv'
<1>1. /\ truth' = new /\ Publish(event)
      /\ UNCHANGED <<iter, subscribed, eof, loop, stop, halted, resynced, connection, snapshot,
                     pending>>
  BY DEF Change, runtime, shown
<1>2. LastAgentIsTruth /\ SubscriptionInv /\ ShownInv /\ ResyncInv /\ FlightIsFine /\ CopyIsFine
  BY DEF CurrentInv
<1>3. /\ new.agent \in Nat /\ new.rest \in Nat
  BY DEF Version
<1>4. CASE subscribed
  <2>1. /\ wire' = Append(wire, event) /\ UNCHANGED <<flight, reconcile, missed>>
    BY <1>1, <1>4 DEF Publish
  <2>2. /\ WireKept
        /\ event.kind = "agent" => AgentOnWire' /\ LastAgentIsTruth'
        /\ event.kind = "rest" => RestOnWire' /\ LastAgentIsTruth'
    BY <1>1, <1>2, <2>1, CurrentTypes, WireGrows
  <2>3. LastAgentIsTruth'
    BY <2>2
  <2>4. SubscriptionInv'
    BY <1>1, <1>2, <1>4 DEF SubscriptionInv
  <2>5. ShownInv'
    BY <1>1, <1>2, <1>3, <2>1, CurrentTypes DEF ShownInv, InCycle
  <2>6. ResyncInv'
    BY <1>1, <1>2, <2>1 DEF ResyncInv, Going, InCycle, InAir
  <2>7. ASSUME NEW version, Fine(version)
        PROVE  (AgentOnWire' \/ version.agent = truth'.agent) /\ (RestOnWire' \/ version.rest = truth'.rest)
    BY <1>1, <2>2, <2>7 DEF Fine, WireKept
  <2>8. FlightIsFine'
    <3>1. Fine(flight.call.got) => (AgentOnWire' \/ flight.call.got.agent = truth'.agent)
                                    /\ (RestOnWire' \/ flight.call.got.rest = truth'.rest)
      BY <2>7
    <3> QED
      BY <1>1, <1>2, <2>1, <3>1 DEF FlightIsFine, Fine, Going
  <2>9. CopyIsFine'
    <3>1. Fine(snapshot) => (AgentOnWire' \/ snapshot.agent = truth'.agent)
                             /\ (RestOnWire' \/ snapshot.rest = truth'.rest)
      BY <2>7
    <3> QED
      BY <1>1, <1>2, <2>1, <3>1 DEF CopyIsFine, Fine, Going, InAir
  <2> QED
    BY <2>3, <2>4, <2>5, <2>6, <2>8, <2>9 DEF CurrentInv
<1>5. CASE ~subscribed
  <2>1. /\ UNCHANGED wire /\ reconcile' = Lacking(reconcile)
        /\ flight' = [flight EXCEPT !.call = Lacking(@)]
        /\ missed' = (missed \/ resynced)
    BY <1>1, <1>5 DEF Publish
  <2>2. flight'.call = Lacking(flight.call)
    BY <2>1, CurrentTypes DEF Flight
  <2>3. /\ flight'.call.st = flight.call.st /\ flight'.call.spans = flight.call.spans
        /\ flight.call.st = "answered" => flight'.call.lacks
        /\ reconcile'.got = reconcile.got
    BY <2>1, <2>2, CurrentTypes, LackingLoad
  <2>4. LastAgentIsTruth' /\ SubscriptionInv'
    BY <1>1, <1>2, <1>5, <2>1 DEF LastAgentIsTruth, SubscriptionInv
  <2>5. ShownInv'
    BY <1>1, <1>2, <1>3, <2>3, CurrentTypes DEF ShownInv, InCycle
  <2>6. ResyncInv'
    BY <1>1, <1>2, <2>1, <2>3 DEF ResyncInv, Going, InCycle, InAir
  <2>7. FlightIsFine' /\ CopyIsFine'
    BY <1>1, <2>1, <2>3 DEF FlightIsFine, CopyIsFine
  <2> QED
    BY <2>4, <2>5, <2>6, <2>7 DEF CurrentInv
<1> QED
  BY <1>4, <1>5

(* The observer's steps.                                                   *)
LEMMA ObserverCurrent ==
  ASSUME Inv, CurrentInv,
         \/ AgentChanges \/ RestChanges \/ ObserverEnds \/ ObserverStarts
         \/ ServeSubscribe \/ ServeSnapshot \/ ServeReconcile
  PROVE  CurrentInv'
<1>1. LastAgentIsTruth /\ SubscriptionInv /\ ShownInv /\ ResyncInv /\ FlightIsFine /\ CopyIsFine
  BY DEF CurrentInv
<1>2. CASE AgentChanges
  <2> DEFINE new == [truth EXCEPT !.agent = @ + 1]
  <2>1. /\ new \in Version /\ new.agent = truth.agent + 1 /\ new.rest = truth.rest
    BY CurrentTypes DEF Version
  <2>2. /\ AgentEvent(truth.agent + 1) \in Message
        /\ AgentEvent(truth.agent + 1).kind = "agent"
        /\ AgentEvent(truth.agent + 1).agent = truth.agent + 1
    BY CurrentTypes DEF Message, AgentEvent
  <2>3. Change(new, AgentEvent(truth.agent + 1))
    BY <1>2 DEF AgentChanges
  <2>4. new.agent >= truth.agent /\ new.rest >= truth.rest
    BY <2>1, CurrentTypes
  <2> HIDE DEF new
  <2> QED
    BY <2>1, <2>2, <2>3, <2>4, ChangeCurrent
<1>3. CASE RestChanges
  <2> DEFINE new == [truth EXCEPT !.rest = @ + 1]
  <2>1. /\ new \in Version /\ new.rest = truth.rest + 1 /\ new.agent = truth.agent
    BY CurrentTypes DEF Version
  <2>2. Rest \in Message /\ Rest.kind = "rest"
    BY DEF Message, Rest
  <2>3. Change(new, Rest)
    BY <1>3 DEF RestChanges
  <2>4. new.agent >= truth.agent /\ new.rest >= truth.rest
    BY <2>1, CurrentTypes
  <2> HIDE DEF new
  <2> QED
    BY <2>1, <2>2, <2>3, <2>4, ChangeCurrent
<1>4. CASE ObserverEnds
  <2>1. /\ subscribed' = FALSE
        /\ eof' \in IF iter = "opening" /\ ~subscribed /\ ~eof THEN BOOLEAN ELSE {iter # "none"}
        /\ UNCHANGED <<truth, iter, wire, loop, stop, halted, resynced, connection, snapshot,
                       pending, flight, reconcile, missed>>
    BY <1>4 DEF ObserverEnds, runtime, shown, loads
  <2>2. ~eof' => ~eof /\ wire = <<>>
    BY <1>1, <2>1, CurrentTypes DEF SubscriptionInv
  <2>3. iter = "none" => ~eof'
    BY <1>1, <2>1 DEF SubscriptionInv
  <2>4. SubscriptionInv'
    BY <1>1, <2>1, <2>2, <2>3 DEF SubscriptionInv
  <2>5. LastAgentIsTruth'
    BY <2>1, <2>2 DEF LastAgentIsTruth
  <2>6. ShownInv' /\ ResyncInv'
    BY <1>1, <2>1 DEF ShownInv, ResyncInv, InCycle, Going, InAir
  <2>7. FlightIsFine' /\ CopyIsFine'
    BY <1>1, <2>1, <2>2 DEF FlightIsFine, CopyIsFine, Fine, AgentOnWire, RestOnWire, Going, InAir
  <2> QED
    BY <2>4, <2>5, <2>6, <2>7 DEF CurrentInv
<1>5. CASE ObserverStarts
  <2>1. UNCHANGED <<truth, iter, closing, wire, subscribed, eof, loop, stop, halted, resynced,
                    connection, snapshot, pending, flight, reconcile, missed>>
    BY <1>5 DEF ObserverStarts, subscription, runtime, shown, loads
  <2> QED
    BY <1>1, <2>1
       DEF CurrentInv, LastAgentIsTruth, SubscriptionInv, ShownInv, ResyncInv, FlightIsFine,
           CopyIsFine, Fine, AgentOnWire, RestOnWire, Going, InAir, InCycle
<1>6. CASE ServeSubscribe
  <2>1. /\ iter = "opening" /\ ~subscribed /\ ~eof
        /\ \/ wire' = <<Ack>> /\ subscribed' = TRUE /\ eof' = FALSE
           \/ wire' = <<Reject>> /\ subscribed' = FALSE /\ eof' = TRUE
        /\ UNCHANGED <<truth, iter, closing, loop, stop, halted, resynced,
                       connection, snapshot, pending, flight, reconcile, missed>>
    BY <1>6 DEF ServeSubscribe, observer, runtime, shown, loads
  <2>2. wire = <<>>
    BY <1>1, <2>1 DEF SubscriptionInv
  <2>3. \E message \in {Ack, Reject} : wire' = <<message>>
    BY <2>1
  <2>4. LastAgentIsTruth' /\ WireKept
    BY <2>2, <2>3, BareWire
  <2>5. SubscriptionInv'
    BY <2>1 DEF SubscriptionInv
  <2>6. ShownInv' /\ ResyncInv'
    BY <1>1, <2>1 DEF ShownInv, ResyncInv, InCycle, Going, InAir
  <2>7. FlightIsFine' /\ CopyIsFine'
    BY <1>1, <2>1, <2>4 DEF FlightIsFine, CopyIsFine, Fine, WireKept, Going, InAir
  <2> QED
    BY <2>4, <2>5, <2>6, <2>7 DEF CurrentInv
<1>7. CASE ServeSnapshot
  <2>1. /\ flight.call.st = "asked" /\ flight' = [flight EXCEPT !.call = Answered(@)]
        /\ UNCHANGED <<truth, iter, closing, wire, subscribed, eof, loop, stop, halted, resynced,
                       connection, snapshot, pending, reconcile, missed>>
    BY <1>7 DEF ServeSnapshot, observer, subscription, runtime, shown
  <2>2. flight'.call = Answered(flight.call)
    BY <2>1, CurrentTypes DEF Flight
  <2>3. flight'.call.st = "answered" /\ flight'.call.spans = flight.call.spans /\ flight'.call.got = truth
    BY <2>2, CurrentTypes DEF Answered, Call
  <2>4. LastAgentIsTruth' /\ SubscriptionInv' /\ ShownInv'
    BY <1>1, <2>1 DEF LastAgentIsTruth, SubscriptionInv, ShownInv, InCycle
  <2>5. ResyncInv'
    BY <1>1, <2>1, <2>3 DEF ResyncInv, Going, InCycle, InAir
  <2>6. FlightIsFine' /\ CopyIsFine'
    BY <2>1, <2>3 DEF FlightIsFine, CopyIsFine, Fine, InAir
  <2> QED
    BY <2>4, <2>5, <2>6 DEF CurrentInv
<1>8. CASE ServeReconcile
  <2>1. /\ reconcile' = Answered(reconcile)
        /\ UNCHANGED <<truth, iter, closing, wire, subscribed, eof, loop, stop, halted, resynced,
                       connection, snapshot, pending, flight, missed>>
    BY <1>8 DEF ServeReconcile, observer, subscription, runtime, shown
  <2>2. reconcile'.got = truth
    BY <2>1, CurrentTypes DEF Answered, Call
  <2>3. ShownInv'
    BY <1>1, <2>1, <2>2, CurrentTypes DEF ShownInv, InCycle
  <2> QED
    BY <1>1, <2>1, <2>3
       DEF CurrentInv, LastAgentIsTruth, SubscriptionInv, ResyncInv, FlightIsFine,
           CopyIsFine, Fine, AgentOnWire, RestOnWire, Going, InAir, InCycle
<1> QED
  BY <1>2, <1>3, <1>4, <1>5, <1>6, <1>7, <1>8

(* The end of a cycle: whoever goes on owes a resync, and nothing that is  *)
(* here counts as good until it came.                                      *)
LEMMA CycleOverCurrent ==
  ASSUME Inv, CurrentInv, NEW isHalted \in BOOLEAN, NEW requests \in SUBSET Request, NEW inAir \in Flight,
         CycleOver(isHalted, requests, inAir), iter # "none",
         isHalted => halted', truth' = truth, snapshot \in Version => snapshot' \in Version
  PROVE  CurrentInv'
<1>1. LastAgentIsTruth /\ SubscriptionInv /\ ShownInv /\ ResyncInv /\ FlightIsFine /\ CopyIsFine
  BY DEF CurrentInv
<1>2. /\ wire' = <<>> /\ ~subscribed' /\ ~eof'
      /\ loop' = LoopAfter(isHalted) /\ resynced' = (resynced /\ loop' = "done")
      /\ stop' = (IF stop = "returning" THEN "stopped" ELSE stop)
      /\ flight' = [inAir EXCEPT !.call = Detached(@), !.for = Outlived(@)]
      /\ reconcile' = Detached(reconcile)
  BY DEF CycleOver
<1>3. InCycle
  BY DEF Inv, IteratorInCycle
<1>4. loop' # "cycle"
  BY <1>2 DEF LoopAfter
<1>5. Going' => ~resynced'
  <2> SUFFICES ASSUME Going' PROVE ~resynced'
    OBVIOUS
  <2>1. stop = "no" /\ ~isHalted
    BY <1>2 DEF Going
  <2>2. loop' = "backoff"
    BY <1>2, <1>3, <2>1 DEF LoopAfter, Active, InCycle
  <2> QED
    BY <1>2, <2>2
<1>6. ~flight'.call.spans
  <2>1. flight'.call = Detached(inAir.call) /\ inAir.call \in Call
    BY <1>2 DEF Flight
  <2> QED
    BY <2>1, DetachedType
<1>7. reconcile'.got = reconcile.got
  BY <1>2, CurrentTypes DEF Detached, Call
<1>8. LastAgentIsTruth' /\ SubscriptionInv'
  BY <1>2 DEF LastAgentIsTruth, SubscriptionInv
<1>9. ShownInv'
  <2>1. resynced' => snapshot' # NoSnapshot
    BY <1>1, <1>2, CurrentTypes, NoSnapshotAssumption DEF ShownInv
  <2> QED
    BY <1>1, <1>4, <1>7, <2>1 DEF ShownInv, InCycle
<1>10. ResyncInv'
  BY <1>4 DEF ResyncInv, InCycle
<1>11. FlightIsFine' /\ CopyIsFine'
  BY <1>5, <1>6 DEF FlightIsFine, CopyIsFine
<1> QED
  BY <1>8, <1>9, <1>10, <1>11 DEF CurrentInv

LEMMA LoopCurrent ==
  ASSUME Inv, CurrentInv, Start \/ BeginCycle \/ LoopHalts
  PROVE  CurrentInv'
<1>1. LastAgentIsTruth /\ SubscriptionInv /\ ShownInv /\ ResyncInv /\ FlightIsFine /\ CopyIsFine
  BY DEF CurrentInv
<1>2. CASE Start \/ LoopHalts
  <2>1. /\ loop' # "cycle"
        /\ UNCHANGED <<truth, iter, closing, wire, subscribed, eof, stop, halted, resynced,
                       snapshot, pending, flight, reconcile, missed>>
    BY <1>2 DEF Start, LoopHalts, observer, subscription, shown, loads
  <2> QED
    BY <1>1, <2>1
       DEF CurrentInv, LastAgentIsTruth, SubscriptionInv, ShownInv, ResyncInv, FlightIsFine,
           CopyIsFine, Fine, AgentOnWire, RestOnWire, Going, InAir, InCycle
<1>3. CASE BeginCycle
  <2>1. /\ loop # "cycle" /\ loop' = "cycle" /\ ~halted
        /\ iter' = "opening" /\ wire' = <<>> /\ ~subscribed' /\ ~eof'
        /\ IF resynced THEN UNCHANGED <<pending, flight>> ELSE RefreshWith("resync", pending, flight, TRUE)
        /\ UNCHANGED <<truth, stop, halted, resynced, snapshot, reconcile, missed>>
    BY <1>3 DEF BeginCycle, observer, shown
  <2>2. iter = "none"
    BY <2>1 DEF Inv, IteratorInCycle, InCycle
  <2>3. wire = <<>> /\ ~eof
    BY <1>1, <2>2 DEF SubscriptionInv
  <2>4. LastAgentIsTruth' /\ SubscriptionInv' /\ WireKept
    BY <2>1, <2>3 DEF LastAgentIsTruth, SubscriptionInv, WireKept, AgentOnWire, RestOnWire
  <2>5. ShownInv'
    BY <1>1, <2>1 DEF ShownInv
  <2>6. CASE resynced
    <3>1. UNCHANGED <<pending, flight>>
      BY <2>1, <2>6
    <3>2. ResyncInv' /\ FlightIsFine' /\ CopyIsFine'
      BY <1>1, <2>1, <2>3, <2>4, <2>6, <3>1
         DEF ResyncInv, FlightIsFine, CopyIsFine, Fine, WireKept, Going, InAir
    <3> QED
      BY <2>4, <2>5, <3>2 DEF CurrentInv
  <2>7. CASE ~resynced
    <3>1. RefreshWith("resync", pending, flight, TRUE)
      BY <2>1, <2>7
    <3>2. \/ ~InAir /\ pending' = {} /\ flight' = FlightFor({"resync"}, TRUE)
          \/ InAir /\ pending' = pending \cup {"resync"} /\ flight' = flight
      BY <3>1 DEF RefreshWith, InAir
    <3>3. \/ flight'.call.st = "asked" /\ flight'.call.spans
          \/ InAir /\ "resync" \in pending' /\ flight' = flight
      <4>1. {"resync"} \in SUBSET Request /\ TRUE \in BOOLEAN
        BY DEF Request
      <4>2. FlightFor({"resync"}, TRUE).call.st = "asked" /\ FlightFor({"resync"}, TRUE).call.spans
        BY <4>1, FreshFlight
      <4> QED
        BY <3>2, <4>2
    <3>4. ResyncInv'
      BY <3>3 DEF ResyncInv, InAir
    <3>5. FlightIsFine' /\ CopyIsFine'
      BY <1>1, <2>1, <2>3, <2>4, <2>7, <3>3
         DEF FlightIsFine, CopyIsFine, Fine, WireKept, Going, InAir
    <3> QED
      BY <2>4, <2>5, <3>4, <3>5 DEF CurrentInv
  <2> QED
    BY <2>6, <2>7
<1> QED
  BY <1>2, <1>3

(* What ends a cycle.                                                      *)
LEMMA EndsCurrent ==
  ASSUME Inv, CurrentInv, ReadReject \/ OpenFails \/ ReadAfterStop \/ DropLastEvent \/ ReadEnd
  PROVE  CurrentInv'
<1>1. /\ iter # "none" /\ UNCHANGED <<truth, snapshot>>
      /\ \/ Halt /\ CycleOver(TRUE, pending, flight)
         \/ UNCHANGED halted /\ CycleOver(halted, pending, flight)
  BY DEF ReadReject, OpenFails, ReadAfterStop, DropLastEvent, ReadEnd, observer, shown
<1>2. pending \in SUBSET Request /\ flight \in Flight /\ halted \in BOOLEAN
  BY CurrentTypes
<1>3. CASE Halt /\ CycleOver(TRUE, pending, flight)
  BY <1>1, <1>2, <1>3, CycleOverCurrent DEF Halt
<1>4. CASE UNCHANGED halted /\ CycleOver(halted, pending, flight)
  BY <1>1, <1>2, <1>4, CycleOverCurrent
<1> QED
  BY <1>1, <1>3, <1>4

(* What goes on after a message was read.                                  *)
LEMMA AckCurrent == ASSUME Inv, CurrentInv, ReadAck PROVE CurrentInv'
<1>1. LastAgentIsTruth /\ SubscriptionInv /\ ShownInv /\ ResyncInv /\ FlightIsFine /\ CopyIsFine
  BY DEF CurrentInv
<1>2. /\ iter = "opening" /\ wire # <<>> /\ Head(wire) = Ack
      /\ UNCHANGED <<truth, halted, connection, snapshot, missed>>
  BY DEF ReadAck, observer, shown
<1>3. CASE closing
  <2>1. CycleOver(halted, pending, flight)
    BY <1>3 DEF ReadAck
  <2>2. pending \in SUBSET Request /\ flight \in Flight /\ halted \in BOOLEAN
    BY CurrentTypes
  <2> QED
    BY <1>2, <2>1, <2>2, CycleOverCurrent
<1>4. CASE ~closing
  <2>1. /\ iter' = "live" /\ wire' = Tail(wire)
        /\ UNCHANGED <<closing, subscribed, eof, loop, stop, resynced, pending, flight, reconcile>>
    BY <1>4 DEF ReadAck
  <2>2. Head(wire).kind # "agent" /\ Head(wire).kind # "rest"
    BY <1>2 DEF Ack
  <2>3. WireKept /\ LastAgentIsTruth'
    BY <1>1, <1>2, <2>1, <2>2, CurrentTypes, WireShrinks DEF WireKept
  <2>4. SubscriptionInv'
    BY <1>1, <1>2, <2>1 DEF SubscriptionInv
  <2>5. ShownInv' /\ ResyncInv'
    BY <1>1, <1>2, <2>1 DEF ShownInv, ResyncInv, InCycle, Going, InAir
  <2>6. FlightIsFine' /\ CopyIsFine'
    BY <1>1, <1>2, <2>1, <2>3 DEF FlightIsFine, CopyIsFine, Fine, WireKept, Going, InAir
  <2> QED
    BY <2>3, <2>4, <2>5, <2>6 DEF CurrentInv
<1> QED
  BY <1>3, <1>4

(* An event after which the iterator ends.                                 *)
LEMMA LastEventCurrent ==
  ASSUME Inv, CurrentInv, iter = "live", closing,
         NEW requests \in SUBSET Request, NEW inAir \in Flight, AfterEvent(requests, inAir),
         UNCHANGED <<truth, halted>>, snapshot \in Version => snapshot' \in Version
  PROVE  CurrentInv'
<1>1. CycleOver(halted, requests, inAir) /\ halted \in BOOLEAN
  BY CurrentTypes DEF AfterEvent
<1> QED
  BY <1>1, CycleOverCurrent

LEMMA PatchCurrent == ASSUME Inv, CurrentInv, ReadPatch PROVE CurrentInv'
<1>1. LastAgentIsTruth /\ SubscriptionInv /\ ShownInv /\ ResyncInv /\ FlightIsFine /\ CopyIsFine
  BY DEF CurrentInv
<1>2. /\ iter = "live" /\ wire # <<>> /\ snapshot # NoSnapshot /\ Head(wire).kind = "agent"
      /\ snapshot' = [snapshot EXCEPT !.agent = Head(wire).agent]
      /\ AfterEvent(pending, Mutated(flight))
      /\ UNCHANGED <<truth, halted, connection, missed>>
  BY DEF ReadPatch, observer
<1>3. snapshot \in Version /\ Head(wire) \in Message
  BY <1>2, CurrentTypes
<1>4. Head(wire).agent \in Nat
  BY <1>2, <1>3 DEF Message, Ack, Reject, Rest
<1>5. /\ snapshot' \in Version /\ snapshot'.agent = Head(wire).agent
      /\ snapshot'.rest = snapshot.rest
  BY <1>2, <1>3, <1>4 DEF Version
<1>6. Mutated(flight) \in Flight /\ Mutated(flight).call = flight.call
  BY CurrentTypes, MutatedType
<1>7. CASE closing
  BY <1>2, <1>5, <1>6, <1>7, CurrentTypes, LastEventCurrent
<1>8. CASE ~closing
  <2>1. /\ wire' = Tail(wire) /\ pending' = pending /\ flight' = Mutated(flight)
        /\ UNCHANGED <<iter, closing, subscribed, eof, loop, resynced, stop, reconcile>>
    BY <1>2, <1>8 DEF AfterEvent
  <2>2. Head(wire).kind # "rest"
    BY <1>2
  <2>3. /\ RestOnWire => RestOnWire'
        /\ LastAgentIsTruth'
        /\ ~eof /\ ~AgentOnWire' => Head(wire).agent = truth.agent
    BY <1>1, <1>2, <2>1, <2>2, CurrentTypes, WireShrinks
  <2>4. SubscriptionInv'
    BY <1>1, <1>2, <2>1 DEF SubscriptionInv
  <2>5. ShownInv'
    BY <1>1, <1>2, <1>5, <2>1, NoSnapshotAssumption DEF ShownInv, InCycle
  <2>6. ResyncInv'
    BY <1>1, <1>2, <1>6, <2>1 DEF ResyncInv, InCycle, Going, InAir
  <2>7. FlightIsFine'
    BY <1>6, <2>1, CurrentTypes, MutatedLoad DEF FlightIsFine
  <2>8. CopyIsFine'
    <3> SUFFICES ASSUME stop = "no", ~halted, ~eof, resynced, ~missed, ~InAir
                 PROVE  (AgentOnWire' \/ snapshot'.agent = truth'.agent)
                        /\ (RestOnWire' \/ snapshot'.rest = truth'.rest)
      BY <1>2, <1>6, <2>1 DEF CopyIsFine, Fine, Going, InAir
    <3>1. Fine(snapshot)
      BY <1>1 DEF CopyIsFine, Going
    <3> QED
      BY <1>2, <1>5, <2>3, <3>1 DEF Fine
  <2> QED
    BY <2>3, <2>4, <2>5, <2>6, <2>7, <2>8 DEF CurrentInv
<1> QED
  BY <1>7, <1>8

LEMMA AnnouncementCurrent == ASSUME Inv, CurrentInv, ReadAnnouncement PROVE CurrentInv'
<1>1. LastAgentIsTruth /\ SubscriptionInv /\ ShownInv /\ ResyncInv /\ FlightIsFine /\ CopyIsFine
  BY DEF CurrentInv
<1>2. /\ iter = "live" /\ wire # <<>>
      /\ UNCHANGED <<truth, halted, connection, snapshot, missed>>
  BY DEF ReadAnnouncement, observer, shown
<1>3. PICK requests \in SUBSET Request, inAir \in Flight :
        /\ AfterEvent(requests, inAir)
        /\ \/ requests = pending \cup {"managed"} /\ inAir = Mutated(flight) /\ InAir
           \/ inAir = FlightFor({"managed"}, TRUE) /\ ~InAir
  <2>1. CASE InAir
    <3>1. AfterEvent(pending \cup {"managed"}, Mutated(flight))
      BY <2>1 DEF ReadAnnouncement
    <3>2. pending \cup {"managed"} \in SUBSET Request /\ Mutated(flight) \in Flight
      BY CurrentTypes, MutatedType DEF Request
    <3> QED
      BY <2>1, <3>1, <3>2
  <2>2. CASE ~InAir
    <3>1. AfterEvent({}, FlightFor({"managed"}, TRUE))
      BY <2>2 DEF ReadAnnouncement
    <3>2. {} \in SUBSET Request /\ FlightFor({"managed"}, TRUE) \in Flight
      BY FlightForType DEF Request
    <3> QED
      BY <2>2, <3>1, <3>2
  <2> QED
    BY <2>1, <2>2
<1>4. CASE closing
  BY <1>2, <1>3, <1>4, LastEventCurrent
<1>5. CASE ~closing
  <2>1. /\ wire' = Tail(wire) /\ pending' = requests /\ flight' = inAir
        /\ UNCHANGED <<iter, closing, subscribed, eof, loop, resynced, stop, reconcile>>
    BY <1>3, <1>5 DEF AfterEvent
  <2>2. \/ /\ pending \subseteq pending' /\ InAir /\ flight'.mutated
           /\ flight'.call = flight.call
        \/ flight'.call.st = "asked" /\ flight'.call.spans
    <3>1. CASE inAir = Mutated(flight) /\ InAir /\ requests = pending \cup {"managed"}
      BY <2>1, <3>1, CurrentTypes, MutatedType, MutatedLoad DEF InAir
    <3>2. CASE inAir = FlightFor({"managed"}, TRUE)
      BY <2>1, <3>2, FreshFlight DEF Request
    <3> QED
      BY <1>3, <3>1, <3>2
  <2>3. LastAgentIsTruth'
    BY <1>1, <1>2, <2>1, CurrentTypes, WireShrinks
  <2>4. SubscriptionInv'
    BY <1>1, <1>2, <2>1 DEF SubscriptionInv
  <2>5. ShownInv'
    BY <1>1, <1>2, <2>1 DEF ShownInv, InCycle
  <2>6. InAir'
    BY <2>2 DEF InAir
  <2>7. ResyncInv'
    BY <1>1, <1>2, <2>1, <2>2, <2>6 DEF ResyncInv, InCycle, Going, InAir
  <2>8. FlightIsFine' /\ CopyIsFine'
    BY <2>2, <2>6 DEF FlightIsFine, CopyIsFine
  <2> QED
    BY <2>3, <2>4, <2>5, <2>7, <2>8 DEF CurrentInv
<1> QED
  BY <1>4, <1>5

LEMMA DropCurrent == ASSUME Inv, CurrentInv, DropEvent PROVE CurrentInv'
<1>1. LastAgentIsTruth /\ SubscriptionInv /\ ShownInv /\ ResyncInv /\ FlightIsFine /\ CopyIsFine
  BY DEF CurrentInv
<1>2. /\ iter = "live" /\ wire # <<>> /\ wire' = Tail(wire) /\ snapshot = NoSnapshot
      /\ flight' = [flight EXCEPT !.call = Lacking(@)]
      /\ reconcile' = Lacking(reconcile)
      /\ UNCHANGED <<truth, iter, closing, subscribed, eof, loop, stop, halted, resynced,
                     connection, snapshot, pending, missed>>
  BY DEF DropEvent, observer, runtime, shown
<1>3. ~resynced
  BY <1>1, <1>2 DEF ShownInv
<1>4. flight'.call = Lacking(flight.call)
  BY <1>2, CurrentTypes DEF Flight
<1>5. /\ flight'.call.st = flight.call.st /\ flight'.call.spans = flight.call.spans
      /\ flight.call.st = "answered" => flight'.call.lacks
      /\ reconcile'.got = reconcile.got
  BY <1>2, <1>4, CurrentTypes, LackingLoad
<1>6. LastAgentIsTruth' /\ SubscriptionInv'
  BY <1>1, <1>2, CurrentTypes, WireShrinks DEF SubscriptionInv
<1>7. ShownInv' /\ ResyncInv'
  BY <1>1, <1>2, <1>5 DEF ShownInv, ResyncInv, InCycle, Going, InAir
<1>8. FlightIsFine' /\ CopyIsFine'
  BY <1>2, <1>3, <1>5 DEF FlightIsFine, CopyIsFine
<1> QED
  BY <1>6, <1>7, <1>8 DEF CurrentInv

(* The load after a load.                                                  *)
LEMMA NextLoad ==
  ASSUME Inv, NEW followUp \in BOOLEAN, NextFlight(pending, followUp)
  PROVE  \/ pending = {} /\ ~followUp /\ flight'.call.st = "none"
         \/ flight'.call.st = "asked" /\ flight'.call.spans = InCycle
<1> DEFINE next == IF pending = {} /\ followUp THEN {"managed"} ELSE pending
<1>1. next \in SUBSET Request /\ InCycle \in BOOLEAN
  BY CurrentTypes DEF Request, InCycle
<1>2. flight' = IF next = {} THEN NoFlight ELSE FlightFor(next, InCycle)
  BY DEF NextFlight
<1>3. next = {} => pending = {} /\ ~followUp
  OBVIOUS
<1>4. FlightFor(next, InCycle).call.st = "asked" /\ FlightFor(next, InCycle).call.spans = InCycle
  BY <1>1, FreshFlight
<1> HIDE DEF next
<1> QED
  BY <1>2, <1>3, <1>4, FreshFlightEmpty

LEMMA LandCurrent == ASSUME Inv, CurrentInv, FlightLands PROVE CurrentInv'
<1>1. LastAgentIsTruth /\ SubscriptionInv /\ ShownInv /\ ResyncInv /\ FlightIsFine /\ CopyIsFine
  BY DEF CurrentInv
<1>2. /\ flight.call.st = "answered"
      /\ NextFlight(pending, stop = "no" /\ ~halted /\ flight.mutated)
      /\ UNCHANGED <<truth, iter, closing, wire, subscribed, eof, loop, stop, halted, reconcile>>
  BY DEF FlightLands, observer, subscription
<1>3. \/ pending = {} /\ ~(stop = "no" /\ ~halted /\ flight.mutated) /\ flight'.call.st = "none"
      \/ flight'.call.st = "asked" /\ flight'.call.spans = InCycle
  <2>1. (stop = "no" /\ ~halted /\ flight.mutated) \in BOOLEAN
    OBVIOUS
  <2> QED
    BY <1>2, <2>1, NextLoad
<1>4. LastAgentIsTruth' /\ SubscriptionInv'
  BY <1>1, <1>2 DEF LastAgentIsTruth, SubscriptionInv
<1>5. FlightIsFine'
  BY <1>3 DEF FlightIsFine
<1>6. CASE stop # "no"
  <2>1. UNCHANGED <<connection, snapshot, resynced, missed>>
    BY <1>6 DEF FlightLands, shown
  <2>2. ShownInv'
    BY <1>1, <1>2, <2>1 DEF ShownInv, InCycle
  <2>3. ResyncInv' /\ CopyIsFine'
    BY <1>2, <1>6 DEF ResyncInv, CopyIsFine, Going
  <2> QED
    BY <1>4, <1>5, <2>2, <2>3 DEF CurrentInv
<1>7. CASE stop = "no"
  <2>1. /\ snapshot' = flight.call.got
        /\ resynced' = (resynced \/ (~halted /\ flight.call.spans))
        /\ connection' = (IF ~halted /\ flight.call.spans THEN "connected" ELSE connection)
        /\ missed' = (flight.call.lacks \/ (flight.mutated /\ missed))
    BY <1>7 DEF FlightLands, ApplyLoaded, MissedAfter
  <2>2. ShownInv'
    BY <1>1, <1>2, <2>1, CurrentTypes, NoSnapshotAssumption DEF ShownInv, InCycle
  <2>3. ResyncInv'
    <3> SUFFICES ASSUME ~halted, InCycle, ~resynced, ~flight.call.spans
                 PROVE  flight'.call.st = "asked" /\ flight'.call.spans
      BY <1>2, <2>1 DEF ResyncInv, Going, InCycle, InAir
    <3>1. "resync" \in pending
      BY <1>1, <1>2, <1>7 DEF ResyncInv, Going, InAir
    <3> QED
      BY <1>3, <3>1
  <2>4. CopyIsFine'
    <3> SUFFICES ASSUME ~halted, ~eof, resynced', ~missed', flight'.call.st = "none"
                 PROVE  (AgentOnWire' \/ snapshot'.agent = truth'.agent)
                        /\ (RestOnWire' \/ snapshot'.rest = truth'.rest)
      BY <1>2 DEF CopyIsFine, Fine, Going, InAir
    <3>1. ~flight.mutated /\ ~flight.call.lacks
      BY <1>3, <1>7, <2>1
    <3>2. Fine(flight.call.got)
      BY <1>1, <1>2, <1>7, <2>1, <3>1 DEF FlightIsFine, Going
    <3> QED
      BY <1>2, <2>1, <3>2 DEF Fine, AgentOnWire, RestOnWire
  <2> QED
    BY <1>4, <1>5, <2>2, <2>3, <2>4 DEF CurrentInv
<1> QED
  BY <1>6, <1>7

LEMMA FailCurrent ==
  ASSUME Inv, CurrentInv, NEW kind, FlightFailsAs(kind)
  PROVE  CurrentInv'
<1>1. LastAgentIsTruth /\ SubscriptionInv /\ ShownInv /\ ResyncInv /\ FlightIsFine /\ CopyIsFine
  BY DEF CurrentInv
<1>2. /\ missed' = TRUE /\ NextFlight(pending, FALSE)
      /\ UNCHANGED <<truth, iter, wire, subscribed, eof, loop, stop, resynced, snapshot, reconcile>>
      /\ \/ UNCHANGED <<halted, connection>>
         \/ Halt
         \/ ConnectionFailed /\ UNCHANGED halted
  BY DEF FlightFailsAs
<1>3. \/ pending = {} /\ flight'.call.st = "none"
      \/ flight'.call.st = "asked" /\ flight'.call.spans = InCycle
  BY <1>2, NextLoad
<1>4. LastAgentIsTruth' /\ SubscriptionInv'
  BY <1>1, <1>2 DEF LastAgentIsTruth, SubscriptionInv
<1>5. ShownInv'
  BY <1>1, <1>2 DEF ShownInv, InCycle, Halt, ConnectionFailed
<1>6. ResyncInv'
  BY <1>2, <1>3 DEF ResyncInv, InCycle, InAir
<1>7. FlightIsFine' /\ CopyIsFine'
  BY <1>2, <1>3 DEF FlightIsFine, CopyIsFine
<1> QED
  BY <1>4, <1>5, <1>6, <1>7 DEF CurrentInv

LEMMA CallerCurrent ==
  ASSUME Inv, CurrentInv, CallerRefresh \/ CallerReconcile \/ ReconcileFails
  PROVE  CurrentInv'
<1>1. LastAgentIsTruth /\ SubscriptionInv /\ ShownInv /\ ResyncInv /\ FlightIsFine /\ CopyIsFine
  BY DEF CurrentInv
<1>2. CASE CallerRefresh
  <2>1. /\ RefreshWith("caller", pending, flight, InCycle)
        /\ UNCHANGED <<truth, iter, closing, wire, subscribed, eof, loop, stop, halted, resynced,
                       connection, snapshot, reconcile, missed>>
    BY <1>2 DEF CallerRefresh, observer, subscription, runtime, shown
  <2>2. \/ flight'.call.st = "asked" /\ flight'.call.spans = InCycle
        \/ InAir /\ flight' = flight /\ pending \subseteq pending'
    <3>1. {"caller"} \in SUBSET Request /\ InCycle \in BOOLEAN
      BY DEF Request, InCycle
    <3>2. /\ FlightFor({"caller"}, InCycle).call.st = "asked"
          /\ FlightFor({"caller"}, InCycle).call.spans = InCycle
      BY <3>1, FreshFlight
    <3> QED
      BY <2>1, <3>2 DEF RefreshWith, InAir
  <2>3. InAir'
    BY <2>2 DEF InAir
  <2>4. LastAgentIsTruth' /\ SubscriptionInv' /\ ShownInv'
    BY <1>1, <2>1 DEF LastAgentIsTruth, SubscriptionInv, ShownInv, InCycle
  <2>5. ResyncInv'
    BY <1>1, <2>1, <2>2, <2>3 DEF ResyncInv, Going, InCycle
  <2>6. FlightIsFine' /\ CopyIsFine'
    BY <1>1, <2>1, <2>2, <2>3 DEF FlightIsFine, CopyIsFine, Fine, AgentOnWire, RestOnWire, Going
  <2> QED
    BY <2>4, <2>5, <2>6 DEF CurrentInv
<1>3. CASE CallerReconcile \/ ReconcileFails
  <2>1. /\ reconcile' = Asked(InCycle) \/ reconcile' = NoCall
        /\ UNCHANGED <<truth, iter, closing, wire, subscribed, eof, loop, stop, halted, resynced,
                       connection, snapshot, pending, flight, missed>>
    BY <1>3 DEF CallerReconcile, ReconcileFails, observer, subscription, runtime, shown
  <2>2. reconcile'.got.agent = 0 /\ reconcile'.got.rest = 0
    <3>1. Asked(InCycle).got = Zero /\ NoCall.got = Zero
      BY DEF Asked, NoCall
    <3>2. Zero.agent = 0 /\ Zero.rest = 0
      BY DEF Zero
    <3> QED
      BY <2>1, <3>1, <3>2
  <2>3. ShownInv'
    BY <1>1, <2>1, <2>2, CurrentTypes DEF ShownInv, InCycle
  <2> QED
    BY <1>1, <2>1, <2>3
       DEF CurrentInv, LastAgentIsTruth, SubscriptionInv, ResyncInv, FlightIsFine,
           CopyIsFine, Fine, AgentOnWire, RestOnWire, Going, InAir, InCycle
<1> QED
  BY <1>2, <1>3

(* A reconcile that answered is at most as new as the observer: where the  *)
(* copy was good and nothing older came, what came is good.                *)
LEMMA ReconcileCurrent == ASSUME Inv, CurrentInv, ReconcileLands PROVE CurrentInv'
<1>1. LastAgentIsTruth /\ SubscriptionInv /\ ShownInv /\ ResyncInv /\ FlightIsFine /\ CopyIsFine
  BY DEF CurrentInv
<1>2. /\ reconcile' = NoCall
      /\ UNCHANGED <<truth, iter, closing, wire, subscribed, eof, loop, stop, halted, pending>>
  BY DEF ReconcileLands, observer, subscription
<1>3. LastAgentIsTruth' /\ SubscriptionInv'
  BY <1>1, <1>2 DEF LastAgentIsTruth, SubscriptionInv
<1>4. reconcile'.got.agent = 0 /\ reconcile'.got.rest = 0
  BY <1>2 DEF NoCall, Zero
<1>5. CASE stop # "no"
  <2>1. UNCHANGED <<connection, snapshot, resynced, flight, missed>>
    BY <1>5 DEF ReconcileLands, shown
  <2>2. ShownInv'
    BY <1>1, <1>2, <1>4, <2>1, CurrentTypes DEF ShownInv, InCycle
  <2>3. ResyncInv' /\ FlightIsFine' /\ CopyIsFine'
    BY <1>2, <1>5 DEF ResyncInv, FlightIsFine, CopyIsFine, Going
  <2> QED
    BY <1>3, <2>2, <2>3 DEF CurrentInv
<1>6. CASE stop = "no"
  <2>1. /\ snapshot' = reconcile.got
        /\ resynced' = (resynced \/ (~halted /\ reconcile.spans))
        /\ connection' = (IF ~halted /\ reconcile.spans THEN "connected" ELSE connection)
        /\ flight' = Mutated(flight)
        /\ missed' = (missed \/ reconcile.lacks \/ Older(reconcile.got))
    BY <1>6 DEF ReconcileLands, ApplyLoaded
  <2>2. flight'.call = flight.call /\ (flight.call.st # "none" => flight'.mutated)
    BY <2>1, CurrentTypes, MutatedType, MutatedLoad
  <2>3. ShownInv'
    BY <1>1, <1>2, <1>4, <2>1, CurrentTypes, NoSnapshotAssumption DEF ShownInv, InCycle
  <2>4. ResyncInv'
    BY <1>1, <1>2, <2>1, <2>2 DEF ResyncInv, Going, InCycle, InAir
  <2>5. FlightIsFine'
    BY <2>2 DEF FlightIsFine
  <2>6. CopyIsFine'
    <3> SUFFICES ASSUME ~halted, ~eof, resynced', ~missed', ~InAir
                 PROVE  (AgentOnWire' \/ snapshot'.agent = truth'.agent)
                        /\ (RestOnWire' \/ snapshot'.rest = truth'.rest)
      BY <1>2, <2>2 DEF CopyIsFine, Fine, Going, InAir
    <3>1. ~missed /\ ~Older(reconcile.got)
      BY <2>1
    <3>2. resynced
      <4> SUFFICES ASSUME ~resynced PROVE FALSE
        OBVIOUS
      <4>1. InCycle
        BY <2>1 DEF Inv, PendingIsFlown
      <4> QED
        BY <1>1, <1>6, <3>1, <4>1 DEF ResyncInv, Going
    <3>3. snapshot \in Version /\ Fine(snapshot)
      BY <1>1, <1>6, <3>1, <3>2, CurrentTypes DEF ShownInv, CopyIsFine, Going
    <3>4. /\ snapshot.agent \in Nat /\ snapshot.rest \in Nat
          /\ snapshot.agent <= reconcile.got.agent /\ snapshot.rest <= reconcile.got.rest
      BY <3>1, <3>3, CurrentTypes, NoSnapshotAssumption DEF Older, Version
    <3>5. /\ snapshot.agent = truth.agent => reconcile.got.agent = truth.agent
          /\ snapshot.rest = truth.rest => reconcile.got.rest = truth.rest
      BY <1>1, <3>4, CurrentTypes DEF ShownInv
    <3> QED
      BY <1>2, <2>1, <3>3, <3>5 DEF Fine, AgentOnWire, RestOnWire
  <2> QED
    BY <1>3, <2>3, <2>4, <2>5, <2>6 DEF CurrentInv
<1> QED
  BY <1>5, <1>6

LEMMA StopCurrent == ASSUME Inv, CurrentInv, StopCalled PROVE CurrentInv'
<1>1. LastAgentIsTruth /\ SubscriptionInv /\ ShownInv
  BY DEF CurrentInv
<1>2. stop' # "no" /\ UNCHANGED <<truth, halted, connection, snapshot, resynced>>
  BY DEF StopCalled, observer, shown
<1>3. ResyncInv' /\ FlightIsFine' /\ CopyIsFine'
  BY <1>2 DEF ResyncInv, FlightIsFine, CopyIsFine, Going
<1>4. \/ UNCHANGED <<iter, wire, subscribed, eof, loop, reconcile>>
      \/ /\ loop' = "done" /\ wire' = <<>> /\ ~subscribed' /\ ~eof'
         /\ reconcile' = Detached(reconcile)
  BY DEF StopCalled
<1>5. LastAgentIsTruth' /\ SubscriptionInv'
  BY <1>1, <1>2, <1>4 DEF LastAgentIsTruth, SubscriptionInv
<1>6. reconcile'.got = reconcile.got
  BY <1>4, CurrentTypes DEF Detached, Call
<1>7. ShownInv'
  BY <1>1, <1>2, <1>4, <1>6 DEF ShownInv, InCycle
<1> QED
  BY <1>3, <1>5, <1>7 DEF CurrentInv

LEMMA CurrentStep == Inv /\ CurrentInv /\ [Next]_vars => CurrentInv'
<1> SUFFICES ASSUME Inv, CurrentInv, [Next]_vars PROVE CurrentInv'
  OBVIOUS
<1>1. CASE UNCHANGED vars
  <2>1. UNCHANGED <<truth, iter, closing, wire, subscribed, eof, loop, stop, halted, resynced,
                    connection, snapshot, pending, flight, reconcile, missed>>
    BY <1>1 DEF vars, observer, subscription, runtime, shown, loads
  <2> QED
    BY <2>1
       DEF CurrentInv, LastAgentIsTruth, SubscriptionInv, ShownInv, ResyncInv, FlightIsFine,
           CopyIsFine, Fine, AgentOnWire, RestOnWire, Going, InAir, InCycle
<1>2. CASE FlightFailsAtConnect \/ FlightIsLost \/ FlightMeetsOtherBuild
  BY <1>2, FailCurrent DEF FlightFailsAtConnect, FlightIsLost, FlightMeetsOtherBuild
<1> QED
  BY <1>1, <1>2, ObserverCurrent, LoopCurrent, EndsCurrent, AckCurrent, PatchCurrent,
     AnnouncementCurrent, DropCurrent, LandCurrent, CallerCurrent, ReconcileCurrent, StopCurrent
     DEF Next

(* A client at rest is not on its way out and its subscription is open, so *)
(* the copy is good with an empty wire: it is the observer's state.        *)
LEMMA CurrentAtRest == Inv /\ CurrentInv => QuietClientIsCurrent
<1> SUFFICES ASSUME Inv, CurrentInv, Quiet, ~missed PROVE snapshot = truth
  BY DEF QuietClientIsCurrent
<1>1. /\ connection = "connected" /\ resynced /\ stop = "no"
      /\ iter = "live" /\ subscribed /\ wire = <<>> /\ ~InAir
  BY DEF Quiet
<1>2. ShownInv /\ SubscriptionInv /\ CopyIsFine
  BY DEF CurrentInv
<1>3. InCycle
  BY <1>1 DEF Inv, IteratorInCycle
<1>4. ~halted /\ ~eof
  BY <1>1, <1>2, <1>3 DEF ShownInv, SubscriptionInv
<1>5. Fine(snapshot)
  BY <1>1, <1>2, <1>4 DEF CopyIsFine, Going
<1>6. ~AgentOnWire /\ ~RestOnWire
  BY <1>1 DEF AgentOnWire, RestOnWire
<1>7. snapshot.agent = truth.agent /\ snapshot.rest = truth.rest
  BY <1>5, <1>6 DEF Fine
<1>8. snapshot \in Version /\ truth \in Version
  BY <1>1, <1>2, CurrentTypes DEF ShownInv
<1> QED
  BY <1>7, <1>8 DEF Version

(* However many changes, gaps, restarts of the observer, loads and          *)
(* reconciles cross each other, a client at rest that claims to be          *)
(* connected (applyLoadedOutcome, applyEvent, runRefreshChain, runResync)   *)
(* shows the observer's state, or missed a change in one of the four ways   *)
(* that are named.                                                          *)
THEOREM RestIsCurrent == Spec => []QuietClientIsCurrent
<1>1. Init => Inv /\ CurrentInv
  BY InvInit, CurrentInit
<1>2. Inv /\ CurrentInv /\ [Next]_vars => (Inv /\ CurrentInv)'
  BY InvStep, CurrentStep
<1>3. Inv /\ CurrentInv => QuietClientIsCurrent
  BY CurrentAtRest
<1> QED
  BY <1>1, <1>2, <1>3, PTL DEF Spec
================================================================================
