---------------------------- MODULE ClientRuntime ----------------------------
(***************************************************************************)
(* A client of the observer (packages/client) keeps a copy of its snapshot *)
(* alive over a subscription that may end at any moment, against the       *)
(* socket protocol of packages/protocol and the observer's event bus.      *)
(*                                                                         *)
(* A snapshot is abstracted to two parts: `agent' is what events patch in  *)
(* place (worktree.agentStateChanged and the like), `rest' is what events  *)
(* only announce, so that the client must load it (observer.reconciled,    *)
(* project.updated and the provider hook events).  The epochs of the code  *)
(* are compared for equality only: a load remembers whether the cycle it   *)
(* began in is still the current one (`spans').                            *)
(***************************************************************************)
EXTENDS Naturals, Sequences, FiniteSets

CONSTANTS NoSnapshot,
          Builds,       \* builds that may own the socket after a restart
          MaxChanges,   \* bound: changes of the observer's state
          MaxFaults,    \* bound: ends of the observer, and requests that time out
          MaxCalls      \* bound: calls of refresh() and reconcile()

ASSUME ClientRuntimeAssumption ==
  /\ Builds \subseteq {"same", "other"} /\ "same" \in Builds
  /\ MaxChanges \in Nat /\ MaxFaults \in Nat /\ MaxCalls \in Nat

Version == [agent : Nat, rest : Nat]
ASSUME NoSnapshotAssumption == NoSnapshot \notin Version

VARIABLES up, build, truth, faults,  \* the observer
          iter,        \* the client's end of the subscription
          closing,     \* its iterator was returned
          wire,        \* messages sent to it and not read yet
          subscribed,  \* the event bus holds its subscriber
          eof,         \* its socket is closed by the observer
          loop,        \* the subscription loop
          stop,        \* where stop() is
          halted, resynced, cycleFault,
          connection, snapshot,  \* the state its listeners see
          pending,     \* pendingRefreshRequests, by kind
          flight,      \* the one snapshot request in the air
          reconcile,   \* a reconcile() the client waits for
          calls,
          missed       \* history: the copy may lack a change for good

observer == <<up, build, truth, faults>>
subscription == <<iter, closing, wire, subscribed, eof>>
runtime == <<loop, stop, halted, resynced, cycleFault>>
shown == <<connection, snapshot>>
loads == <<pending, flight, reconcile, calls>>
vars == <<observer, subscription, runtime, shown, loads, missed>>

Ack == [kind |-> "ack"]
Reject == [kind |-> "reject"]
Rest == [kind |-> "rest"]
AgentEvent(n) == [kind |-> "agent", agent |-> n]
Message == {Ack, Reject, Rest} \cup [kind : {"agent"}, agent : Nat]

(* Who waits for a load: the runtime itself, runResync of the current      *)
(* cycle, or a caller of refresh().                                        *)
Request == {"managed", "resync", "caller"}

(* A load `lacks' what no event will bring: a change published while no    *)
(* subscriber was registered, or an event that came before the first       *)
(* snapshot and was not reduced.                                           *)
Zero == [agent |-> 0, rest |-> 0]
Call == [st : {"none", "asked", "answered"}, spans : BOOLEAN, got : Version, lacks : BOOLEAN]
NoCall == [st |-> "none", spans |-> FALSE, got |-> Zero, lacks |-> FALSE]
Asked(spans) == [NoCall EXCEPT !.st = "asked", !.spans = spans]
Flight == [call : Call, for : SUBSET Request, mutated : BOOLEAN]
FlightFor(requests, spans) == [call |-> Asked(spans), for |-> requests, mutated |-> FALSE]
NoFlight == [call |-> NoCall, for |-> {}, mutated |-> FALSE]

TypeOK ==
  /\ up \in BOOLEAN /\ build \in Builds /\ truth \in Version
  /\ faults \in 0..MaxFaults /\ calls \in 0..MaxCalls
  /\ iter \in {"none", "opening", "live"}
  /\ closing \in BOOLEAN /\ wire \in Seq(Message)
  /\ subscribed \in BOOLEAN /\ eof \in BOOLEAN
  /\ loop \in {"idle", "ready", "cycle", "backoff", "done"}
  /\ stop \in {"no", "returning", "stopped"}
  /\ halted \in BOOLEAN /\ resynced \in BOOLEAN /\ cycleFault \in BOOLEAN
  /\ connection \in {"idle", "loading", "connected", "displayOnly", "reconnecting", "halted"}
  /\ snapshot \in Version \cup {NoSnapshot}
  /\ pending \in SUBSET Request
  /\ flight \in Flight /\ reconcile \in Call
  /\ missed \in BOOLEAN

InCycle == loop = "cycle"
Active == loop # "idle" /\ stop = "no"
InAir == flight.call.st # "none"
Fault == faults < MaxFaults /\ faults' = faults + 1

(* A client starts with nothing, or with a snapshot it was handed and trusts. *)
Init ==
  /\ up = TRUE /\ build = "same" /\ truth = Zero /\ faults = 0
  /\ iter = "none" /\ closing = FALSE /\ wire = <<>> /\ subscribed = FALSE /\ eof = FALSE
  /\ loop = "idle" /\ stop = "no" /\ halted = FALSE /\ cycleFault = FALSE
  /\ connection = "idle"
  /\ snapshot \in {NoSnapshot, Zero}
  /\ resynced = (snapshot # NoSnapshot)
  /\ pending = {} /\ flight = NoFlight /\ reconcile = NoCall /\ calls = 0
  /\ missed = FALSE

-----------------------------------------------------------------------------
(* The observer.  A change is published to the subscribers the event bus   *)
(* holds at that moment, and to nobody else.                               *)

Lacking(call) == IF call.st = "answered" THEN [call EXCEPT !.lacks = TRUE] ELSE call

Publish(event) ==
  IF subscribed
  THEN /\ wire' = Append(wire, event)
       /\ UNCHANGED <<flight, reconcile, missed>>
  ELSE /\ flight' = [flight EXCEPT !.call = Lacking(@)]
       /\ reconcile' = Lacking(reconcile)
       /\ missed' = (missed \/ resynced)
       /\ UNCHANGED wire

Change(new, event) ==
  /\ up
  /\ truth.agent + truth.rest < MaxChanges
  /\ truth' = new
  /\ Publish(event)
  /\ UNCHANGED <<up, build, faults, iter, closing, subscribed, eof, runtime, shown,
                 pending, calls>>

AgentChanges == Change([truth EXCEPT !.agent = @ + 1], AgentEvent(truth.agent + 1))
RestChanges == Change([truth EXCEPT !.rest = @ + 1], Rest)

(* The process ends: its sockets close behind what they already carry, and *)
(* a request it did not answer is lost.                                    *)
ObserverEnds ==
  /\ up /\ Fault
  /\ up' = FALSE
  /\ subscribed' = FALSE
  /\ eof' \in IF iter = "opening" /\ ~subscribed /\ ~eof THEN BOOLEAN ELSE {iter # "none"}
  /\ UNCHANGED <<build, truth, iter, closing, wire, runtime, shown, loads, missed>>

ObserverStarts ==
  /\ ~up /\ up' = TRUE
  /\ build' \in Builds
  /\ UNCHANGED <<truth, faults, subscription, runtime, shown, loads, missed>>

(* routeSubscriptionRequest: the acknowledgement is written and the        *)
(* subscriber registered in one turn of the event loop.  The answer of     *)
(* another build fails the client's schema check.                          *)
ServeSubscribe ==
  /\ up /\ iter = "opening" /\ ~subscribed /\ ~eof
  /\ IF build = "same"
     THEN wire' = <<Ack>> /\ subscribed' = TRUE /\ eof' = FALSE
     ELSE wire' = <<Reject>> /\ subscribed' = FALSE /\ eof' = TRUE
  /\ UNCHANGED <<observer, iter, closing, runtime, shown, loads, missed>>

Answered(call) == [call EXCEPT !.st = "answered", !.got = truth]

ServeSnapshot ==
  /\ up /\ build = "same" /\ flight.call.st = "asked"
  /\ flight' = [flight EXCEPT !.call = Answered(@)]
  /\ UNCHANGED <<observer, subscription, runtime, shown, pending, reconcile, calls, missed>>

ServeReconcile ==
  /\ up /\ build = "same" /\ reconcile.st = "asked"
  /\ reconcile' = Answered(reconcile)
  /\ UNCHANGED <<observer, subscription, runtime, shown, pending, flight, calls, missed>>
-----------------------------------------------------------------------------
(* Parts of the runtime's handlers. *)

(* requestRefresh: the request waits for the load in the air, or starts one. *)
RefreshWith(request, requests, inAir, spans) ==
  IF inAir.call.st = "none"
  THEN pending' = {} /\ flight' = FlightFor({request}, spans)
  ELSE pending' = requests \cup {request} /\ flight' = inAir

(* Mutant: the chain ends with the load, whoever came meanwhile. *)
NextFlightNever(requests, followUp) == pending' = requests /\ flight' = NoFlight

(* The next turn of runRefreshChain, after a load that answered its requests. *)
NextFlight(requests, followUp) ==
  LET next == IF requests = {} /\ followUp THEN {"managed"} ELSE requests
  IN  /\ pending' = {}
      /\ flight' = IF next = {} THEN NoFlight ELSE FlightFor(next, InCycle)

(* failureConnectionState *)
ConnectionFailed == connection' = IF snapshot = NoSnapshot THEN "reconnecting" ELSE "displayOnly"

(* A request of runResync of a cycle that is over waits like any other, and *)
(* no call in the air spans another cycle.                                  *)
Detached(call) == [call EXCEPT !.spans = FALSE]
Outlived(requests) == IF "resync" \in requests THEN (requests \ {"resync"}) \cup {"managed"} ELSE requests

(* The end of runCycle and the turn of the loop after it: no cycle is      *)
(* active, the iterator is released, and the gap owes a resync.            *)
LoopAfter(isHalted) == IF Active /\ ~isHalted THEN "backoff" ELSE "done"

CycleOver(isHalted, requests, inAir) ==
  /\ iter' = "none" /\ closing' = FALSE /\ wire' = <<>> /\ subscribed' = FALSE /\ eof' = FALSE
  /\ loop' = LoopAfter(isHalted)
  /\ resynced' = (resynced /\ loop' = "done")
  /\ stop' = IF stop = "returning" THEN "stopped" ELSE stop
  /\ pending' = Outlived(requests)
  /\ flight' = [inAir EXCEPT !.call = Detached(@), !.for = Outlived(@)]
  /\ reconcile' = Detached(reconcile)

(* haltRuntime *)
Halt == /\ halted' = TRUE
        /\ connection' = IF halted THEN connection ELSE "halted"

(* Mutant: the receipt is applied in place of its snapshot. *)
ApplyReceipt(call) == snapshot' = call /\ UNCHANGED <<resynced, connection>>

(* applyLoadedOutcome *)
ApplyLoaded(call) ==
  LET throughout == ~halted /\ call.spans
  IN  /\ snapshot' = call.got
      /\ resynced' = (resynced \/ throughout)
      /\ connection' = IF throughout THEN "connected" ELSE connection

-----------------------------------------------------------------------------
(* The subscription loop. *)

Start ==
  /\ loop = "idle" /\ stop = "no"
  /\ loop' = "ready"
  /\ connection' = IF snapshot = NoSnapshot THEN "loading" ELSE "connected"
  /\ UNCHANGED <<observer, subscription, stop, halted, resynced, cycleFault, snapshot,
                 loads, missed>>

(* runCycle: the iterator is opened, and its subscription is under way     *)
(* when the resync asks for a snapshot.                                    *)
BeginCycle ==
  /\ loop \in {"ready", "backoff"} /\ stop = "no" /\ ~halted
  /\ loop' = "cycle" /\ cycleFault' = FALSE
  /\ iter' = "opening" /\ closing' = FALSE /\ wire' = <<>> /\ subscribed' = FALSE /\ eof' = FALSE
  /\ IF resynced THEN UNCHANGED <<pending, flight>>
                 ELSE RefreshWith("resync", pending, flight, TRUE)
  /\ UNCHANGED <<observer, stop, halted, resynced, shown, reconcile, calls, missed>>

LoopHalts ==
  /\ loop \in {"ready", "backoff"} /\ halted
  /\ loop' = "done"
  /\ UNCHANGED <<observer, subscription, stop, halted, resynced, cycleFault, shown, loads, missed>>

(* The acknowledgement arrives: the subscription is live, unless its       *)
(* iterator was returned meanwhile.                                        *)
ReadAck ==
  /\ iter = "opening" /\ wire # <<>> /\ Head(wire) = Ack
  /\ IF closing
     THEN CycleOver(halted, pending, flight)
     ELSE /\ iter' = "live" /\ wire' = Tail(wire)
          /\ UNCHANGED <<closing, subscribed, eof, loop, stop, resynced, pending, flight, reconcile>>
  /\ UNCHANGED <<observer, halted, cycleFault, shown, calls, missed>>

(* A permanent failure of the subscription halts the runtime. *)
ReadReject ==
  /\ iter = "opening" /\ wire # <<>> /\ Head(wire) = Reject
  /\ Halt
  /\ CycleOver(TRUE, pending, flight)
  /\ UNCHANGED <<observer, cycleFault, snapshot, calls, missed>>

(* The subscription cannot be opened.  A failed connect shows, whatever    *)
(* the state was before; a timeout or a closed socket does not.            *)
OpenFails ==
  /\ iter = "opening" /\ wire = <<>>
  /\ \/ ~up /\ ~eof /\ ConnectionFailed /\ UNCHANGED faults
     \/ eof /\ UNCHANGED <<connection, faults>>
     \/ Fault /\ (ConnectionFailed \/ UNCHANGED connection)
  /\ CycleOver(halted, pending, flight)
  /\ UNCHANGED <<up, build, truth, halted, cycleFault, snapshot, calls, missed>>

(* Mutant: the loop skips what comes after stop() and reads on. *)
ReadAfterStopOn ==
  /\ iter = "live" /\ wire # <<>> /\ ~Active
  /\ wire' = Tail(wire)
  /\ UNCHANGED <<observer, iter, closing, subscribed, eof, runtime, shown, loads, missed>>

(* consumeCurrentSubscription stops without handling the event once stop() *)
(* was called; a returned iterator still delivers the event it was waiting *)
(* for, and ends at the next call.                                         *)
ReadAfterStop ==
  /\ iter = "live" /\ wire # <<>> /\ ~Active
  /\ CycleOver(halted, pending, flight)
  /\ UNCHANGED <<observer, halted, cycleFault, shown, calls, missed>>

AfterEvent(requests, inAir) ==
  IF closing
  THEN CycleOver(halted, requests, inAir)
  ELSE /\ wire' = Tail(wire) /\ pending' = requests /\ flight' = inAir
       /\ UNCHANGED <<iter, closing, subscribed, eof, loop, resynced, stop, reconcile>>

(* Mutant: an event that is applied does not count as a mutation. *)
MutatedNever(inAir) == inAir
Mutated(inAir) == IF inAir.call.st = "none" THEN inAir ELSE [inAir EXCEPT !.mutated = TRUE]

(* applyEvent with applyWosmEvent: a patch changes the copy, an            *)
(* announcement asks for a load.                                           *)
ReadPatch ==
  /\ iter = "live" /\ wire # <<>> /\ Active /\ snapshot # NoSnapshot
  /\ Head(wire).kind = "agent"
  /\ snapshot' = [snapshot EXCEPT !.agent = Head(wire).agent]
  /\ AfterEvent(pending, Mutated(flight))
  /\ UNCHANGED <<observer, halted, cycleFault, connection, calls, missed>>

ReadAnnouncement ==
  /\ iter = "live" /\ wire # <<>> /\ Active /\ snapshot # NoSnapshot
  /\ Head(wire) = Rest
  /\ IF InAir THEN AfterEvent(pending \cup {"managed"}, Mutated(flight))
              ELSE AfterEvent({}, FlightFor({"managed"}, TRUE))
  /\ UNCHANGED <<observer, halted, cycleFault, shown, calls, missed>>

(* Before the first snapshot an event is dropped: a load that was answered *)
(* before lacks it.                                                        *)
DropEvent ==
  /\ iter = "live" /\ wire # <<>> /\ Active /\ snapshot = NoSnapshot
  /\ ~closing
  /\ wire' = Tail(wire)
  /\ flight' = [flight EXCEPT !.call = Lacking(@)]
  /\ reconcile' = Lacking(reconcile)
  /\ UNCHANGED <<observer, iter, closing, subscribed, eof, runtime, shown, pending, calls, missed>>

DropLastEvent ==
  /\ iter = "live" /\ wire # <<>> /\ Active /\ snapshot = NoSnapshot
  /\ closing
  /\ CycleOver(halted, pending, flight)
  /\ UNCHANGED <<observer, halted, cycleFault, shown, calls, missed>>

ReadEnd ==
  /\ iter = "live" /\ wire = <<>> /\ eof
  /\ CycleOver(halted, pending, flight)
  /\ UNCHANGED <<observer, halted, cycleFault, shown, calls, missed>>
-----------------------------------------------------------------------------
(* Loads. *)

(* What the copy misses once a load is applied.  A load that no event and  *)
(* no reconcile overtook replaces whatever was missing.                    *)
MissedAfter(call, mutated) == call.lacks \/ (mutated /\ missed)

(* Mutant: a response that comes after stop() is applied. *)
FlightLandsAnyway ==
  /\ flight.call.st = "answered"
  /\ ApplyLoaded(flight.call) /\ missed' = MissedAfter(flight.call, flight.mutated)
  /\ NextFlight(pending, FALSE)
  /\ UNCHANGED <<observer, subscription, loop, stop, halted, cycleFault, reconcile, calls>>

FlightLands ==
  /\ flight.call.st = "answered"
  /\ IF stop = "no"
     THEN ApplyLoaded(flight.call) /\ missed' = MissedAfter(flight.call, flight.mutated)
     ELSE UNCHANGED <<shown, resynced, missed>>
  /\ NextFlight(pending, stop = "no" /\ ~halted /\ flight.mutated)
  /\ UNCHANGED <<observer, subscription, loop, stop, halted, cycleFault, reconcile, calls>>

(* How a request for a snapshot fails: nobody listens, it times out or the *)
(* socket closes, or the peer is of another build.                         *)
FlightFails(kind) ==
  /\ flight.call.st # "none"
  /\ CASE kind = "connect"   -> \/ ~up /\ UNCHANGED faults
                                \/ Fault
       [] kind = "lost"      -> \/ ~up /\ UNCHANGED faults
                                \/ Fault
       [] kind = "permanent" -> up /\ build = "other" /\ UNCHANGED faults
  /\ kind = "permanent" => flight.call.st = "asked"

Managed == flight.for \cap {"managed", "resync"} # {}

(* Mutant: a cycle whose resync failed goes on. *)
ResyncNeverFails(isHalted) == FALSE

(* runResync: a live cycle that cannot resync returns its iterator. *)
ResyncFailed(isHalted) == "resync" \in flight.for /\ Active /\ ~isHalted

(* applyFlightOutcome for a failure, then what runResync does with it. *)
FlightFailsAs(kind) ==
  /\ FlightFails(kind)
  /\ CASE stop = "no" /\ kind = "permanent" -> Halt
       [] stop = "no" /\ kind = "connect" /\ Managed -> ConnectionFailed /\ UNCHANGED halted
       [] OTHER -> UNCHANGED <<halted, connection>>
  /\ cycleFault' = (cycleFault \/ ResyncFailed(halted'))
  /\ closing' = (closing \/ (iter # "none" /\ (ResyncFailed(halted') \/ (halted' /\ ~halted))))
  /\ missed' = TRUE
  /\ NextFlight(pending, FALSE)
  /\ UNCHANGED <<up, build, truth, iter, wire, subscribed, eof, loop, stop, resynced,
                 snapshot, reconcile, calls>>

FlightFailsAtConnect == FlightFailsAs("connect")
FlightIsLost == FlightFailsAs("lost")
FlightMeetsOtherBuild == FlightFailsAs("permanent")

OneMoreCall == calls < MaxCalls /\ calls' = calls + 1

(* refresh() of the runtime's interface. *)
CallerRefresh ==
  /\ "caller" \notin pending \cup flight.for
  /\ OneMoreCall
  /\ RefreshWith("caller", pending, flight, InCycle)
  /\ UNCHANGED <<observer, subscription, runtime, shown, reconcile, missed>>

(* reconcile(): a call of its own beside the chain. *)
CallerReconcile ==
  /\ reconcile.st = "none"
  /\ OneMoreCall
  /\ reconcile' = Asked(InCycle)
  /\ UNCHANGED <<observer, subscription, runtime, shown, pending, flight, missed>>

Older(v) == snapshot # NoSnapshot /\ (v.agent < snapshot.agent \/ v.rest < snapshot.rest)

ReconcileLands ==
  /\ reconcile.st = "answered"
  /\ reconcile' = NoCall
  /\ IF stop = "no"
     THEN /\ ApplyLoaded(reconcile)
          /\ flight' = Mutated(flight)
          /\ missed' = (missed \/ reconcile.lacks \/ Older(reconcile.got))
     ELSE UNCHANGED <<shown, resynced, flight, missed>>
  /\ UNCHANGED <<observer, subscription, loop, stop, halted, cycleFault, pending, calls>>

ReconcileFails ==
  /\ reconcile.st # "none"
  /\ \/ (~up \/ build = "other") /\ UNCHANGED faults
     \/ Fault
  /\ reconcile' = NoCall
  /\ UNCHANGED <<up, build, truth, subscription, runtime, shown, pending, flight, calls, missed>>

-----------------------------------------------------------------------------
(* performStop.  The return of a live iterator waits behind the read that  *)
(* is under way (closeSubscription returns the generator of messages()     *)
(* before it closes the socket); otherwise the loop is interrupted at once. *)
StopCalled ==
  /\ stop = "no" /\ loop # "idle"
  /\ IF iter = "live" /\ ~closing
     THEN /\ stop' = "returning" /\ closing' = TRUE
          /\ UNCHANGED <<iter, wire, subscribed, eof, loop, resynced, pending, flight, reconcile>>
     ELSE /\ stop' = "stopped" /\ loop' = "done"
          /\ iter' = "none" /\ closing' = FALSE /\ wire' = <<>> /\ subscribed' = FALSE /\ eof' = FALSE
          /\ resynced' = resynced
          /\ pending' = Outlived(pending)
          /\ flight' = [flight EXCEPT !.call = Detached(@), !.for = Outlived(@)]
          /\ reconcile' = Detached(reconcile)
  /\ UNCHANGED <<observer, halted, cycleFault, shown, calls, missed>>

Next ==
  \/ AgentChanges \/ RestChanges \/ ObserverEnds \/ ObserverStarts
  \/ ServeSubscribe \/ ServeSnapshot \/ ServeReconcile
  \/ Start \/ BeginCycle \/ LoopHalts
  \/ ReadAck \/ ReadReject \/ OpenFails \/ ReadAfterStop
  \/ ReadPatch \/ ReadAnnouncement \/ DropEvent \/ DropLastEvent \/ ReadEnd
  \/ FlightLands \/ FlightFailsAtConnect \/ FlightIsLost \/ FlightMeetsOtherBuild
  \/ CallerRefresh \/ CallerReconcile \/ ReconcileLands \/ ReconcileFails
  \/ StopCalled

Spec == Init /\ [][Next]_vars

(* A running observer answers, sockets deliver, and the client's event     *)
(* loop takes every step it can; a request without an answer ends in its   *)
(* timeout (observerService.ts:24), which is why one always comes to an    *)
(* end.  Nothing says that the observer runs, that its state changes, or   *)
(* that anybody calls the runtime.                                         *)
Fairness ==
  /\ WF_vars(ServeSubscribe) /\ WF_vars(ServeSnapshot) /\ WF_vars(ServeReconcile)
  /\ WF_vars(BeginCycle) /\ WF_vars(LoopHalts)
  /\ WF_vars(ReadAck) /\ WF_vars(ReadReject) /\ WF_vars(OpenFails)
  /\ WF_vars(ReadAfterStop) /\ WF_vars(ReadPatch) /\ WF_vars(ReadAnnouncement)
  /\ WF_vars(DropEvent) /\ WF_vars(DropLastEvent) /\ WF_vars(ReadEnd)
  /\ WF_vars(FlightLands) /\ WF_vars(FlightFailsAtConnect) /\ WF_vars(FlightMeetsOtherBuild)
  /\ WF_vars(ReconcileLands) /\ WF_vars(ReconcileFails)

FairSpec == Spec /\ Fairness

-----------------------------------------------------------------------------
(* At rest: connected over a live subscription, and nothing is under way. *)
Quiet ==
  /\ connection = "connected" /\ resynced /\ stop = "no"
  /\ iter = "live" /\ subscribed /\ wire = <<>>
  /\ ~InAir /\ reconcile.st = "none"

(* A client at rest that claims to be connected shows the observer's state, *)
(* whatever order responses, events, gaps and reconciles came in.  The only *)
(* ways to miss a change are the four named ones: it was published between  *)
(* a load and the registration of the subscriber, its event came before the *)
(* first snapshot, a reconcile that answered late put an older state back,  *)
(* or the load that was to follow an event or a stale response failed.      *)
QuietClientIsCurrent == Quiet => (snapshot = truth \/ missed)

(* Requests that wait are waiting for a load in the air: the chain never    *)
(* stops with a caller left behind, and a load that claims to span the      *)
(* current cycle, or a resync of it, exists in a cycle only.                *)
PendingIsFlown ==
  /\ pending # {} => InAir
  /\ flight.call.spans \/ reconcile.spans => InCycle
  /\ "resync" \in pending \cup flight.for => InCycle

(* What is still to come to the client when nothing was lost: an agent     *)
(* event in the wire, the last of which brings the agent as it is, or an   *)
(* announcement.  What is here or on its way is all there is to know.      *)
AgentOnWire == \E i \in DOMAIN wire : wire[i].kind = "agent"
RestOnWire == \E i \in DOMAIN wire : wire[i].kind = "rest"
Fine(version) ==
  /\ AgentOnWire \/ version.agent = truth.agent
  /\ RestOnWire \/ version.rest = truth.rest

LastAgentIsTruth ==
  ~eof => \A i \in DOMAIN wire :
            wire[i].kind = "agent" /\ (\A j \in DOMAIN wire : j > i => wire[j].kind # "agent")
            => wire[i].agent = truth.agent

(* The client's end of the subscription, and the observer's. *)
SubscriptionInv ==
  /\ iter = "none" => wire = <<>> /\ ~subscribed /\ ~eof
  /\ subscribed => ~eof
  /\ ~subscribed /\ ~eof => wire = <<>>

(* The client is not on its way out: what is owed will be paid. *)
Going == stop = "no" /\ ~halted
ShownInv ==
  /\ halted /\ InCycle => connection # "connected"
  /\ resynced => snapshot # NoSnapshot
  /\ reconcile.got.agent <= truth.agent /\ reconcile.got.rest <= truth.rest
ResyncInv ==
  Going /\ InCycle /\ ~resynced =>
    /\ InAir /\ ~flight.call.spans => "resync" \in pending
    /\ ~InAir => missed

(* A load that was answered, and nothing overtook, is good. *)
FlightIsFine ==
  Going /\ ~eof /\ (resynced \/ flight.call.spans)
  /\ flight.call.st = "answered" /\ ~flight.call.lacks /\ ~flight.mutated
  => Fine(flight.call.got)
(* So is the copy, or a load that will make it good is in the air. *)
CopyIsFine ==
  Going /\ ~eof /\ resynced /\ ~missed => InAir \/ Fine(snapshot)

CurrentInv ==
  /\ LastAgentIsTruth /\ SubscriptionInv /\ ShownInv /\ ResyncInv
  /\ FlightIsFine /\ CopyIsFine

(* Once stop() was called, no late response, event or failure changes what  *)
(* listeners see.                                                           *)
FrozenAfterStop == [][stop # "no" => UNCHANGED shown]_vars

(* Whoever called refresh() gets an answer: whether its load starts at once *)
(* or waits behind another, which fails, hangs until it times out, finds    *)
(* no observer or one of another build, and whether or not stop() is called *)
(* meanwhile.                                                               *)
Unanswered == "caller" \in pending \cup flight.for
RefreshSettles == Unanswered ~> ~Unanswered

(* A returned iterator waits for a message that nobody has sent.            *)
Parked == iter = "live" /\ closing /\ wire = <<>> /\ ~eof

(* A client that owes a resync gets it, as long as the observer is there    *)
(* and of the same build, unless it is stopped or parked.                   *)
ResyncsOrParks == (Active /\ ~resynced) ~> (resynced \/ halted \/ ~Active \/ ~up \/ Parked)

(* stop() returns once the subscription delivers anything or ends. The      *)
(* comment at observerRuntime.ts:373 has it return by itself; but a silent  *)
(* subscription leaves it waiting (Parked).                                 *)
WokenStopReturns ==
  (stop = "returning" /\ (wire # <<>> \/ eof)) ~> (stop = "stopped")
=============================================================================
