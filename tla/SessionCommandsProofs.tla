------------------------ MODULE SessionCommandsProofs ------------------------
(***************************************************************************)
(* What the handlers promise over one worktree, for any number of them,    *)
(* of failures, timeouts, late effects and agents that end by themselves.  *)
(* First what a single call may do to the world, then what any step may do *)
(* to the world, to a handler and to a row, then the invariants of         *)
(* CommandsInv, and from these the properties.                             *)
(***************************************************************************)
EXTENDS SessionCommands, FiniteSetTheorems, TLAPS

-----------------------------------------------------------------------------
(* The world. *)

(* No window comes back, and the numbers of the windows only go up; nor    *)
(* does one that has strayed count as inside again.                        *)
NoPaneReturns(w, w2) ==
  /\ w2.panes >= w.panes /\ w.strayed \subseteq w2.strayed
  /\ \A y \in w2.windows : y.pane <= w2.panes
  /\ \A pane \in 1..w.panes : WindowOf(w, pane) = {} => WindowOf(w2, pane) = {}

(* The agent of this window was there before, whatever has become of it. *)
AgentStays(w, y) ==
  \E x \in w.windows : /\ x.agent # NoAgent /\ x.pane = y.pane
                       /\ x.agent.by = y.agent.by

WorktreeStays(w, w2) ==
  \/ w2.worktree = NoWorktree
  \/ w.worktree # NoWorktree /\ w2.worktree # NoWorktree /\ w2.worktree.by = w.worktree.by

(* One window is replaced by another of the same number. *)
LEMMA UpdateType ==
  ASSUME NEW w \in World, NEW x \in w.windows, NEW y \in Window
  PROVE  /\ Update(w, x, y) \in World
         /\ Update(w, x, y).windows = (w.windows \ {x}) \cup {y}
         /\ Update(w, x, y).panes = w.panes /\ Update(w, x, y).exits = w.exits
         /\ Update(w, x, y).worktree = w.worktree /\ Update(w, x, y).strayed = w.strayed
BY DEF Update, World

LEMMA UpdateKeepsPanes ==
  ASSUME NEW w \in World, NEW x \in w.windows, NEW y \in Window, y.pane = x.pane,
         \A z \in w.windows : z.pane <= w.panes
  PROVE  NoPaneReturns(w, Update(w, x, y))
<1>1. /\ Update(w, x, y).windows = (w.windows \ {x}) \cup {y}
      /\ Update(w, x, y).panes = w.panes /\ w.panes \in Nat
      /\ Update(w, x, y).strayed = w.strayed
  BY UpdateType, SessionCommandsAssumption DEF World
<1> QED
  BY <1>1 DEF NoPaneReturns, WindowOf

(* An agent that is stopped, or ends, is still the one that was launched. *)
LEMMA EndedAgent ==
  ASSUME NEW x \in Window, x.agent # NoAgent, NEW is \in {"running", "exited", "gone"}
  PROVE  LET y == [x EXCEPT !.agent.is = is] IN
           /\ y \in Window /\ y.pane = x.pane /\ y.agent # NoAgent
           /\ y.agent.by = x.agent.by /\ y.agent.is = is
<1> DEFINE a == [x.agent EXCEPT !.is = is]
           y == [x EXCEPT !.agent = a]
<1>1. x.agent \in Agent
  BY DEF Window
<1>2. a \in Agent /\ a.by = x.agent.by /\ a.is = is
  BY <1>1 DEF Agent
<1>3. a # NoAgent
  BY <1>2, SessionCommandsAssumption
<1> HIDE DEF a
<1>4. y \in Window /\ y.pane = x.pane /\ y.agent = a
  BY <1>2 DEF Window
<1>5. [x EXCEPT !.agent.is = is] = y
  BY DEF a
<1> QED
  BY <1>2, <1>3, <1>4, <1>5

(* What a call that is carried out leaves: its effect on the worktree, on  *)
(* the windows and on the agents, one clause for each of the calls.        *)
Effect(call, w, o) ==
  /\ o.world \in World /\ NoPaneReturns(w, o.world)
  /\ \A y \in o.world.windows : y.agent # NoAgent =>
       \/ AgentStays(w, y)
       \/ call.do = "launch" /\ y.pane = call.pane /\ y.agent.by = call.by
  /\ \/ o.world.worktree = w.worktree
     \/ call.do = "remove" /\ o.world.worktree = NoWorktree
     \/ call.do = "createWorktree" /\ o.world.worktree = [by |-> call.by, dirty |-> FALSE]
  /\ call.do = "remove" => o.world.worktree = NoWorktree
  /\ call.do = "close" => WindowOf(o.world, call.pane) = {}
  /\ CASE call.do = "createWorktree" -> o.pane = NoPane
       [] call.do = "open" -> o.pane \in 1..o.world.panes
       [] OTHER -> o.pane = call.pane

LEMMA OutcomeFields == \A w, pane : Outcome(w, pane).world = w /\ Outcome(w, pane).pane = pane
BY DEF Outcome

LEMMA UpdateEffect ==
  ASSUME NEW w \in World, NEW x \in w.windows, NEW y \in Window, y.pane = x.pane,
         \A z \in w.windows : z.pane <= w.panes,
         \/ y.agent = x.agent
         \/ y.agent # NoAgent /\ x.agent # NoAgent /\ y.agent.by = x.agent.by,
         NEW call, call.do \in {"open", "stop"}, NEW o,
         o.world = Update(w, x, y), o.pane = IF call.do = "open" THEN x.pane ELSE call.pane
  PROVE  Effect(call, w, o)
<1>1. /\ o.world \in World /\ o.world.windows = (w.windows \ {x}) \cup {y}
      /\ o.world.panes = w.panes /\ o.world.worktree = w.worktree
  BY UpdateType
<1>2. NoPaneReturns(w, o.world)
  BY UpdateKeepsPanes
<1>3. ASSUME NEW z \in o.world.windows, z.agent # NoAgent PROVE AgentStays(w, z)
  BY <1>1, <1>3 DEF AgentStays
<1>4. x.pane \in 1..w.panes
  BY DEF World, Window
<1> QED
  BY <1>1, <1>2, <1>3, <1>4 DEF Effect

LEMMA EffectOfCall ==
  ASSUME NEW w \in World, NEW call \in Call, \A z \in w.windows : z.pane <= w.panes,
         NEW o \in Outcomes(call, w)
  PROVE  Effect(call, w, o)
<1> USE OutcomeFields
<1>0. w.windows \subseteq Window /\ w.panes \in 0..MaxPanes /\ MaxPanes \in Nat
  BY SessionCommandsAssumption DEF World
<1>1. CASE call.do = "createWorktree"
  <2> DEFINE made == [by |-> call.by, dirty |-> FALSE]
  <2>1. o = Outcome([w EXCEPT !.worktree = made], NoPane)
    BY <1>1 DEF Outcomes
  <2>2. made \in Worktree
    BY DEF Call, Worktree, Maker
  <2>3. o.world = [w EXCEPT !.worktree = made] /\ o.pane = NoPane
    BY <2>1
  <2> HIDE DEF made
  <2>4. /\ o.world \in World /\ o.world.worktree = made
        /\ o.world.windows = w.windows /\ o.world.panes = w.panes
        /\ o.world.strayed = w.strayed
    BY <2>2, <2>3 DEF World
  <2>5. NoPaneReturns(w, o.world) /\ \A y \in w.windows : y.agent # NoAgent => AgentStays(w, y)
    BY <1>0, <2>4 DEF NoPaneReturns, WindowOf, AgentStays
  <2> QED
    BY <1>1, <2>3, <2>4, <2>5 DEF Effect, made
<1>2. CASE call.do = "open"
  <2>1. CASE o \in Rebound(call, w)
    <3>1. PICK x \in w.windows :
             o = Outcome(Update(w, x, [x EXCEPT !.session = call.session]), x.pane)
      BY <2>1 DEF Rebound
    <3> DEFINE y == [x EXCEPT !.session = call.session]
    <3>2. y \in Window /\ y.pane = x.pane /\ y.agent = x.agent
      BY <1>0 DEF Window, Call
    <3>3. o.world = Update(w, x, y) /\ o.pane = x.pane
      BY <3>1
    <3> HIDE DEF y
    <3> QED
      BY <1>2, <3>2, <3>3, UpdateEffect
  <2>2. CASE o \in Opened(call, w)
    <3> DEFINE new == [pane |-> w.panes + 1, session |-> call.session, agent |-> NoAgent]
    <3>1. /\ o = Outcome([w EXCEPT !.panes = @ + 1, !.windows = @ \cup {new}], w.panes + 1)
          /\ w.panes # MaxPanes
      BY <2>2 DEF Opened
    <3>2. new \in Window /\ new.pane = w.panes + 1 /\ new.agent = NoAgent
      BY <1>0, <3>1 DEF Window, Call
    <3>a. /\ o.world = [w EXCEPT !.panes = @ + 1, !.windows = @ \cup {new}]
          /\ o.pane = w.panes + 1
      BY <3>1
    <3> HIDE DEF new
    <3>b. w.panes + 1 \in 0..MaxPanes /\ w.windows \cup {new} \in SUBSET Window
      BY <1>0, <3>1, <3>2
    <3>3. /\ o.world \in World /\ o.world.worktree = w.worktree
          /\ o.world.windows = w.windows \cup {new} /\ o.world.panes = w.panes + 1
          /\ o.world.strayed = w.strayed
      BY <3>a, <3>b DEF World
    <3>4. NoPaneReturns(w, o.world)
      <4>0. \A y \in w.windows : y.pane \in Nat /\ y.pane <= w.panes
        BY <1>0 DEF Window
      <4>1. \A y \in o.world.windows : y.pane <= o.world.panes
        BY <1>0, <3>2, <3>3, <4>0
      <4>2. \A pane \in 1..w.panes : new.pane # pane
        BY <1>0, <3>2
      <4> QED
        BY <1>0, <3>3, <4>1, <4>2 DEF NoPaneReturns, WindowOf
    <3>5. \A y \in o.world.windows : y.agent # NoAgent => AgentStays(w, y)
      BY <3>2, <3>3 DEF AgentStays
    <3> QED
      BY <1>0, <1>2, <3>a, <3>3, <3>4, <3>5 DEF Effect
  <2> QED
    BY <1>2, <2>1, <2>2 DEF Outcomes
<1>3. CASE call.do = "launch"
  <2> DEFINE a == [by |-> call.by, is |-> "running"]
  <2>1. PICK x \in WindowOf(w, call.pane) : o = Outcome(Update(w, x, [x EXCEPT !.agent = a]), x.pane)
    BY <1>3 DEF Outcomes
  <2> DEFINE y == [x EXCEPT !.agent = a]
  <2>2. x \in w.windows /\ x.pane = call.pane
    BY <2>1 DEF WindowOf
  <2>3. a \in Agent
    BY DEF Agent, Call, Maker
  <2>4. y \in Window /\ y.pane = x.pane /\ y.agent = a
    BY <1>0, <2>2, <2>3 DEF Window
  <2>a. a.by = call.by
    OBVIOUS
  <2>b. o.world = Update(w, x, y) /\ o.pane = call.pane
    BY <2>1, <2>2
  <2> HIDE DEF a, y
  <2>5. /\ o.world \in World /\ o.world.windows = (w.windows \ {x}) \cup {y}
        /\ o.world.worktree = w.worktree
    BY <2>b, <2>2, <2>4, UpdateType
  <2>6. NoPaneReturns(w, o.world)
    BY <2>b, <2>2, <2>4, UpdateKeepsPanes
  <2>7. \A z \in o.world.windows : z.agent # NoAgent =>
           AgentStays(w, z) \/ (z.pane = call.pane /\ z.agent.by = call.by)
    BY <2>2, <2>4, <2>5, <2>a DEF AgentStays
  <2> QED
    BY <1>3, <2>b, <2>5, <2>6, <2>7 DEF Effect
<1>4. CASE call.do = "stop"
  <2>1. PICK x \in WindowOf(w, call.pane) :
           Runs(x.agent) /\ o = Outcome(Update(w, x, [x EXCEPT !.agent.is = "exited"]), call.pane)
    BY <1>4 DEF Outcomes
  <2> DEFINE y == [x EXCEPT !.agent.is = "exited"]
  <2>2. x \in w.windows /\ x.agent # NoAgent
    BY <2>1 DEF WindowOf, Runs
  <2>3. y \in Window /\ y.pane = x.pane /\ y.agent # NoAgent /\ y.agent.by = x.agent.by
    BY <1>0, <2>2, EndedAgent
  <2>4. o.world = Update(w, x, y) /\ o.pane = call.pane
    BY <2>1
  <2> HIDE DEF y
  <2> QED
    BY <1>4, <2>2, <2>3, <2>4, UpdateEffect
<1>5. CASE call.do = "close"
  <2>1. o = Outcome([w EXCEPT !.windows = @ \ WindowOf(w, call.pane)], call.pane)
    BY <1>5 DEF Outcomes
  <2>a. /\ o.world = [w EXCEPT !.windows = @ \ WindowOf(w, call.pane)]
        /\ o.pane = call.pane
    BY <2>1
  <2>2. /\ o.world \in World /\ o.world.worktree = w.worktree
        /\ o.world.windows = w.windows \ WindowOf(w, call.pane) /\ o.world.panes = w.panes
        /\ o.world.strayed = w.strayed
    BY <2>a DEF World
  <2>3. NoPaneReturns(w, o.world) /\ WindowOf(o.world, call.pane) = {}
    BY <1>0, <2>2 DEF NoPaneReturns, WindowOf
  <2>4. \A y \in o.world.windows : y.agent # NoAgent => AgentStays(w, y)
    BY <2>2 DEF AgentStays
  <2> QED
    BY <1>5, <2>a, <2>2, <2>3, <2>4 DEF Effect
<1>6. CASE call.do = "remove"
  <2>1. o = Outcome([w EXCEPT !.worktree = NoWorktree], call.pane)
    BY <1>6 DEF Outcomes
  <2>a. o.world = [w EXCEPT !.worktree = NoWorktree] /\ o.pane = call.pane
    BY <2>1
  <2>2. /\ o.world \in World /\ o.world.worktree = NoWorktree
        /\ o.world.windows = w.windows /\ o.world.panes = w.panes
        /\ o.world.strayed = w.strayed
    BY <2>a DEF World
  <2>3. NoPaneReturns(w, o.world) /\ \A y \in w.windows : y.agent # NoAgent => AgentStays(w, y)
    BY <1>0, <2>2 DEF NoPaneReturns, WindowOf, AgentStays
  <2> QED
    BY <1>6, <2>a, <2>2, <2>3 DEF Effect
<1> QED
  BY <1>1, <1>2, <1>3, <1>4, <1>5, <1>6 DEF Call, Mutations

-----------------------------------------------------------------------------
(* A handler that carries out a call. *)

(* Only the handler of c moves, and what it was asked to do stays. *)
Moves(c) ==
  /\ cmd' \in [Command -> Handler]
  /\ \A d \in Command \ {c} : cmd'[d] = cmd[d]
  /\ cmd'[c].kind = cmd[c].kind /\ cmd'[c].force = cmd[c].force
  /\ cmd'[c].session = cmd[c].session /\ cmd'[c].saw = cmd[c].saw

LEMMA Becomes ==
  ASSUME cmd \in [Command -> Handler], NEW c \in Command, NEW h \in Handler, Become(c, h),
         h.kind = cmd[c].kind, h.force = cmd[c].force,
         h.session = cmd[c].session, h.saw = cmd[c].saw
  PROVE  Moves(c) /\ cmd'[c] = h
BY DEF Become, Moves

(* The call is carried out, and the handler learns of it. *)
WentOn(c, call, ok) ==
  /\ \E o : Effect(call, world, o) /\ world' = o.world /\ cmd'[c].pane = o.pane
  /\ cmd'[c].at = ok
  /\ cmd'[c].spoilt = cmd[c].spoilt
  /\ cmd'[c].created <=> cmd[c].created \/ call.do = "createWorktree"
  /\ late' = late

(* It is not carried out, or the handler does not learn of it, or it may   *)
(* still be carried out; in the last two cases the handler is spoilt, and  *)
(* also when it could not roll back what was there to be rolled back.      *)
WentBack(c, call, failed) ==
  /\ cmd'[c].at = failed /\ cmd'[c].pane = cmd[c].pane
  /\ cmd'[c].created = cmd[c].created /\ (cmd[c].spoilt => cmd'[c].spoilt)
  /\ \/ /\ world' = world /\ late' = late
        /\ cmd'[c].spoilt <=> cmd[c].spoilt \/ (RollsBack(c) /\ Possible(call, world))
     \/ cmd'[c].spoilt /\ late' = late /\ \E o : Effect(call, world, o) /\ world' = o.world
     \/ cmd'[c].spoilt /\ world' = world /\ late' = late \cup {call}

LEMMA FaultBounded == ASSUME faults \in 0..MaxFaults, Fault PROVE faults' \in 0..MaxFaults
BY SessionCommandsAssumption DEF Fault

LEMMA MutateMoves ==
  ASSUME TypeOK, PanesInv, NEW c \in Command, NEW call \in Call, NEW ok \in Steps,
         NEW failed \in Steps, Mutate(c, call, ok, failed)
  PROVE  /\ Moves(c) /\ faults' \in 0..MaxFaults
         /\ WentOn(c, call, ok) \/ WentBack(c, call, failed)
<1> DEFINE done(o) == [cmd[c] EXCEPT !.at = ok, !.pane = o.pane,
                                     !.created = @ \/ call.do = "createWorktree"]
           fail == [cmd[c] EXCEPT !.at = failed,
                                  !.spoilt = @ \/ (RollsBack(c) /\ Possible(call, world))]
           uncertain == [fail EXCEPT !.spoilt = TRUE]
           lost == [uncertain EXCEPT !.aborted = TRUE]
<1>0. cmd \in [Command -> Handler] /\ cmd[c] \in Handler /\ faults \in 0..MaxFaults
  BY DEF TypeOK
<1>a. world \in World /\ \A z \in world.windows : z.pane <= world.panes
  BY SessionCommandsAssumption DEF TypeOK, PanesInv, Numbered, World
<1>b. \A o \in Outcomes(call, world) : Effect(call, world, o)
  BY <1>a, EffectOfCall
<1>1. /\ fail \in Handler /\ fail.at = failed /\ fail.pane = cmd[c].pane
      /\ fail.kind = cmd[c].kind /\ fail.force = cmd[c].force
      /\ fail.session = cmd[c].session /\ fail.saw = cmd[c].saw
      /\ fail.created = cmd[c].created
      /\ fail.spoilt <=> cmd[c].spoilt \/ (RollsBack(c) /\ Possible(call, world))
  BY <1>0 DEF Handler
<1>2. /\ uncertain \in Handler /\ uncertain.at = failed /\ uncertain.pane = cmd[c].pane
      /\ uncertain.kind = cmd[c].kind /\ uncertain.force = cmd[c].force
      /\ uncertain.session = cmd[c].session /\ uncertain.saw = cmd[c].saw
      /\ uncertain.created = cmd[c].created /\ uncertain.spoilt = TRUE
  <2> HIDE DEF fail
  <2> QED
    BY <1>1 DEF Handler
<1>3. /\ lost \in Handler /\ lost.at = failed /\ lost.pane = cmd[c].pane
      /\ lost.kind = cmd[c].kind /\ lost.force = cmd[c].force
      /\ lost.session = cmd[c].session /\ lost.saw = cmd[c].saw
      /\ lost.created = cmd[c].created /\ lost.spoilt = TRUE
  <2> HIDE DEF uncertain
  <2> QED
    BY <1>2 DEF Handler
<1>4. \A o \in Outcomes(call, world) :
         LET h == done(o) IN
         /\ h \in Handler /\ h.at = ok /\ h.pane = o.pane
         /\ h.kind = cmd[c].kind /\ h.force = cmd[c].force
         /\ h.session = cmd[c].session /\ h.saw = cmd[c].saw
         /\ h.created <=> cmd[c].created \/ call.do = "createWorktree"
         /\ h.spoilt = cmd[c].spoilt
  <2> SUFFICES ASSUME NEW o \in Outcomes(call, world)
               PROVE  LET h == done(o) IN
         /\ h \in Handler /\ h.at = ok /\ h.pane = o.pane
         /\ h.kind = cmd[c].kind /\ h.force = cmd[c].force
         /\ h.session = cmd[c].session /\ h.saw = cmd[c].saw
         /\ h.created <=> cmd[c].created \/ call.do = "createWorktree"
         /\ h.spoilt = cmd[c].spoilt
    OBVIOUS
  <2>1. o.pane \in 1..MaxPanes \cup {NoPane}
    <3>1. Effect(call, world, o)
      BY <1>b
    <3>2. o.world.panes \in 0..MaxPanes /\ call.pane \in 1..MaxPanes \cup {NoPane}
      BY <3>1 DEF Effect, World, Call
    <3> QED
      BY <3>1, <3>2, SessionCommandsAssumption DEF Effect
  <2> QED
    BY <1>0, <2>1 DEF Handler
<1>5. \/ Become(c, fail) /\ world' = world /\ late' = late /\ faults' = faults
      \/ /\ Possible(call, world) /\ late' = late
         /\ \E o \in Outcomes(call, world) :
              /\ world' = o.world
              /\ \/ Become(c, done(o)) /\ faults' = faults
                 \/ Fault /\ Become(c, uncertain)
                 \/ Fault /\ Become(c, lost)
      \/ /\ Fault /\ world' = world
         /\ \/ Become(c, fail) /\ late' = late
            \/ Become(c, uncertain) /\ late' = late \cup {call}
  BY Zenon DEF Mutate
<1> HIDE DEF done, fail, uncertain, lost
<1>6. faults' \in 0..MaxFaults
  BY <1>0, <1>5, FaultBounded
<1>7. ASSUME Become(c, fail) PROVE Moves(c) /\ cmd'[c] = fail
  BY <1>0, <1>1, <1>7, Becomes
<1>8. ASSUME Become(c, uncertain) PROVE Moves(c) /\ cmd'[c] = uncertain
  BY <1>0, <1>2, <1>8, Becomes
<1>9. ASSUME Become(c, lost) PROVE Moves(c) /\ cmd'[c] = lost
  BY <1>0, <1>3, <1>9, Becomes
<1>10. CASE Become(c, fail) /\ world' = world /\ late' = late
  BY <1>1, <1>6, <1>7, <1>10 DEF WentBack
<1>11. ASSUME NEW o \in Outcomes(call, world), world' = o.world, late' = late,
              Become(c, done(o)) \/ Become(c, uncertain) \/ Become(c, lost)
       PROVE  Moves(c) /\ (WentOn(c, call, ok) \/ WentBack(c, call, failed))
  <2>1. CASE Become(c, done(o))
    <3>1. Moves(c) /\ cmd'[c] = done(o)
      BY <1>0, <1>4, <2>1, Becomes
    <3> QED
      BY <1>b, <1>4, <1>11, <3>1 DEF WentOn
  <2>2. CASE Become(c, uncertain)
    BY <1>b, <1>2, <1>8, <1>11, <2>2 DEF WentBack
  <2>3. CASE Become(c, lost)
    BY <1>b, <1>3, <1>9, <1>11, <2>3 DEF WentBack
  <2> QED
    BY <1>11, <2>1, <2>2, <2>3
<1>12. CASE Become(c, uncertain) /\ world' = world /\ late' = late \cup {call}
  BY <1>2, <1>6, <1>8, <1>12 DEF WentBack
<1> QED
  BY <1>5, <1>6, <1>10, <1>11, <1>12

-----------------------------------------------------------------------------
(* The steps of the system, in seven kinds. *)

(* The handler of c makes the call of the step it stands at. *)
Doing(c, call, ok, failed) ==
  /\ call.by = c /\ call.pane = cmd[c].pane
  /\ \/ At(c, "createWorktree") /\ call.do = "createWorktree" /\ ok = "seed" /\ failed = "failed"
     \/ At(c, "open") /\ call.do = "open" /\ ok = "launch" /\ failed = UndoSeed(c)
     \/ At(c, "launch") /\ call.do = "launch" /\ ok = "focus" /\ failed = "closeOpened"
     \/ At(c, "closeOpened") /\ call.do = "close" /\ ok = UndoSeed(c) /\ failed = UndoSeed(c)
     \/ At(c, "uncreate") /\ call.do = "remove" /\ call.force /\ ok = "failed" /\ failed = "failed"
     \/ At(c, "stop") /\ call.do = "stop" /\ ok = AfterStop(c, cmd[c].saw) /\ failed = "failed"
     \/ At(c, "close") /\ call.do = "close" /\ ok = AfterClose(c) /\ failed = "failed"
     \/ At(c, "remove") /\ call.do = "remove" /\ ok = "reconcile" /\ failed = "failed"

Carries(c) ==
  /\ Moves(c) /\ UNCHANGED Bystanders /\ faults' \in 0..MaxFaults
  /\ \E call \in Call, ok, failed \in Steps :
       Doing(c, call, ok, failed) /\ (WentOn(c, call, ok) \/ WentBack(c, call, failed))

(* It goes on without a call: what changes is its step, its target, its    *)
(* seed and its account.                                                   *)
Goes(c, to) ==
  cmd'[c].at = to /\ cmd'[c].pane = cmd[c].pane /\ cmd'[c].spoilt = cmd[c].spoilt
SpoiltTo(c, to) == cmd'[c].at = to /\ cmd'[c].pane = cmd[c].pane /\ cmd'[c].spoilt

Locally(c) ==
  /\ Moves(c) /\ cmd'[c].created = cmd[c].created
  /\ UNCHANGED <<world, view, scan, late, stopSupported>> /\ faults' \in 0..MaxFaults
  /\ \/ ~At(c, "waiting") /\ ~Ended(c) /\ Goes(c, cmd[c].at) /\ seeds' = seeds
     \/ At(c, "seed") /\ Goes(c, "open") /\ seeds' = seeds \cup {cmd[c].session}
     \/ At(c, "seed") /\ Goes(c, UndoWorktree(c)) /\ seeds' = seeds
     \/ At(c, "focus") /\ Goes(c, "reconcile") /\ seeds' = seeds
     \/ At(c, "focus") /\ SpoiltTo(c, UndoSeed(c)) /\ seeds' = seeds
     \/ At(c, "unseed") /\ Goes(c, UndoWorktree(c)) /\ seeds' = seeds \ {cmd[c].session}
     \/ At(c, "unseed") /\ SpoiltTo(c, UndoWorktree(c)) /\ seeds' = seeds
     \/ At(c, "stop") /\ cmd[c].force /\ Goes(c, AfterStop(c, cmd[c].saw)) /\ seeds' = seeds
     \/ At(c, "stop") /\ Goes(c, "failed") /\ seeds' = seeds
     \/ /\ At(c, "resolve") /\ cmd'[c].at = "close" /\ cmd'[c].spoilt = cmd[c].spoilt
        /\ \E w \in world.windows : cmd'[c].pane = w.pane
        /\ seeds' = seeds
     \/ At(c, "resolve") /\ Goes(c, "failed") /\ seeds' = seeds
     \/ At(c, "announce") /\ Goes(c, "done") /\ seeds' = seeds
     \/ At(c, "announce") /\ SpoiltTo(c, "failed") /\ seeds' = seeds

(* It starts, with what the snapshot shows. *)
Begins(c) ==
  /\ At(c, "waiting") /\ cmd' \in [Command -> Handler]
  /\ \A d \in Command \ {c} : cmd'[d] = cmd[d]
  /\ cmd'[c].kind = cmd[c].kind /\ cmd'[c].force = cmd[c].force
  /\ cmd'[c].created = cmd[c].created /\ cmd'[c].spoilt = cmd[c].spoilt
  /\ cmd'[c].session = SessionNow(c) /\ cmd'[c].saw = Seen(c) /\ cmd'[c].pane = SeenPane(c)
  /\ \/ cmd'[c].at = "failed"
     \/ /\ cmd'[c].at = FirstStep(c)
        /\ IF cmd[c].kind \in Launches THEN LaunchAllowed(cmd[c].kind) ELSE CleanupAllowed(c)
  /\ UNCHANGED <<world, view, scan, seeds, late, faults, stopSupported>>

(* A reconcile reads the worktree, or fails to. *)
Reads(by) ==
  /\ scan.for = NoScan /\ (by = User \/ (by \in Command /\ At(by, "reconcile")))
  /\ scan' \in Scan /\ scan'.for = by /\ scan'.got.run = NoWindow
  /\ \/ scan'.got.blind /\ scan'.got.worktree = NoWorktree
     \/ scan'.got.worktree = world.worktree
  /\ scan'.listed <=> scan'.got.worktree = NoWorktree
  /\ UNCHANGED <<world, view, cmd, seeds, late, stopSupported>> /\ faults' \in 0..MaxFaults

(* It lists the windows and the runs, or fails to. *)
Lists ==
  /\ scan.for # NoScan /\ ~scan.listed
  /\ scan' \in Scan /\ scan'.for = scan.for /\ scan'.listed
  /\ scan'.got.worktree = scan.got.worktree
  /\ scan'.got.run \in {NoWindow, scan.got.run} \cup world.windows
  /\ \/ scan'.got.blind
     \/ /\ scan'.got.blind = scan.got.blind
        /\ (\E w \in world.windows : w.pane \notin world.strayed) => scan'.got.terminal # "none"
  /\ UNCHANGED <<world, view, cmd, seeds, late, stopSupported>> /\ faults' \in 0..MaxFaults

(* A reconcile ends. *)
Lands ==
  /\ scan.for # NoScan /\ scan.listed /\ scan' = NotScanning
  /\ cmd' \in [Command -> Handler]
  /\ \A d \in Command : d # scan.for => cmd'[d] = cmd[d]
  /\ \A d \in Command : /\ cmd'[d].kind = cmd[d].kind /\ cmd'[d].force = cmd[d].force
                        /\ cmd'[d].session = cmd[d].session /\ cmd'[d].saw = cmd[d].saw
                        /\ cmd'[d].created = cmd[d].created /\ cmd'[d].pane = cmd[d].pane
  /\ \/ /\ view' = scan.got
        /\ scan.for \in Command => cmd'[scan.for].at = "announce"
                                   /\ cmd'[scan.for].spoilt = cmd[scan.for].spoilt
     \/ /\ view' = view
        /\ scan.for \in Command => cmd'[scan.for].at = "failed" /\ cmd'[scan.for].spoilt
  /\ UNCHANGED <<world, seeds, late, stopSupported>> /\ faults' \in 0..MaxFaults

(* Something happens to the world beside the handlers. *)
Beside ==
  /\ UNCHANGED <<view, scan, cmd, seeds, faults, stopSupported>>
  /\ world' \in World /\ NoPaneReturns(world, world')
  /\ \/ /\ late' = late /\ WorktreeStays(world, world')
        /\ \A y \in world'.windows : y.agent # NoAgent => AgentStays(world, y)
     \/ \E call \in late : \E o : /\ late' = late \ {call}
                                  /\ Effect(call, world, o) /\ world' = o.world

LEMMA CarriesStep ==
  ASSUME TypeOK, PanesInv, NEW c \in Command,
         \/ CreateWorktree(c) \/ OpenWorkspace(c) \/ LaunchProcess(c) \/ CloseOpened(c)
         \/ UncreateWorktree(c) \/ StopHarness(c) \/ CloseTerminal(c) \/ RemoveWorktree(c)
  PROVE  Carries(c)
<1>1. cmd[c] \in Handler
  BY DEF TypeOK
<1>2. \A do \in Mutations, force \in BOOLEAN :
         LET call == CallOf(c, do, force) IN
         /\ call \in Call /\ call.by = c /\ call.pane = cmd[c].pane
         /\ call.do = do /\ call.force = force
  BY <1>1 DEF CallOf, Call, Handler
<1>3. /\ UndoSeed(c) \in Steps /\ AfterStop(c, cmd[c].saw) \in Steps /\ AfterClose(c) \in Steps
      /\ {"seed", "failed", "launch", "focus", "closeOpened", "reconcile"} \subseteq Steps
  BY DEF UndoSeed, AfterStop, AfterClose, Steps
<1>4. \E do \in Mutations, force \in BOOLEAN, ok, failed \in Steps :
         /\ Doing(c, CallOf(c, do, force), ok, failed)
         /\ Mutate(c, CallOf(c, do, force), ok, failed)
         /\ UNCHANGED Bystanders
  <2>0. {"createWorktree", "open", "launch", "stop", "close", "remove"} \subseteq Mutations
         /\ cmd[c].force \in BOOLEAN
    BY <1>1 DEF Mutations, Handler
  <2>1. CASE CreateWorktree(c)
    BY <1>2, <1>3, <2>0, <2>1, Zenon DEF CreateWorktree, Doing
  <2>2. CASE OpenWorkspace(c)
    BY <1>2, <1>3, <2>0, <2>2, Zenon DEF OpenWorkspace, Doing
  <2>3. CASE LaunchProcess(c)
    BY <1>2, <1>3, <2>0, <2>3, Zenon DEF LaunchProcess, Doing
  <2>4. CASE CloseOpened(c)
    BY <1>2, <1>3, <2>0, <2>4, Zenon DEF CloseOpened, Doing
  <2>5. CASE UncreateWorktree(c)
    BY <1>2, <1>3, <2>0, <2>5, Zenon DEF UncreateWorktree, Doing
  <2>6. CASE StopHarness(c)
    BY <1>2, <1>3, <2>0, <2>6, Zenon DEF StopHarness, Doing
  <2>7. CASE CloseTerminal(c)
    BY <1>2, <1>3, <2>0, <2>7, Zenon DEF CloseTerminal, Doing
  <2>8. CASE RemoveWorktree(c)
    BY <1>2, <1>3, <2>0, <2>8, Zenon DEF RemoveWorktree, Doing
  <2> QED
    BY <2>1, <2>2, <2>3, <2>4, <2>5, <2>6, <2>7, <2>8
<1>5. PICK do \in Mutations, force \in BOOLEAN, ok \in Steps, failed \in Steps :
         /\ Doing(c, CallOf(c, do, force), ok, failed)
         /\ Mutate(c, CallOf(c, do, force), ok, failed)
         /\ UNCHANGED Bystanders
  BY <1>4
<1>6. CallOf(c, do, force) \in Call
  BY <1>2
<1>7. /\ Moves(c) /\ faults' \in 0..MaxFaults
      /\ WentOn(c, CallOf(c, do, force), ok) \/ WentBack(c, CallOf(c, do, force), failed)
  BY <1>5, <1>6, MutateMoves
<1> QED
  BY <1>5, <1>6, <1>7, Zenon DEF Carries

LEMMA GoesBy ==
  ASSUME TypeOK, NEW c \in Command, NEW step \in Steps, GoTo(c, step)
  PROVE  Moves(c) /\ Goes(c, step) /\ cmd'[c].created = cmd[c].created
<1> DEFINE h == [cmd[c] EXCEPT !.at = step]
<1>1. cmd \in [Command -> Handler] /\ cmd[c] \in Handler
  BY DEF TypeOK
<1>2. /\ h \in Handler /\ h.at = step /\ h.pane = cmd[c].pane /\ h.spoilt = cmd[c].spoilt
      /\ h.kind = cmd[c].kind /\ h.force = cmd[c].force /\ h.session = cmd[c].session
      /\ h.saw = cmd[c].saw /\ h.created = cmd[c].created
  BY <1>1 DEF Handler
<1>3. Become(c, h)
  BY DEF GoTo
<1> HIDE DEF h
<1>4. Moves(c) /\ cmd'[c] = h
  BY <1>1, <1>2, <1>3, Becomes
<1> QED
  BY <1>2, <1>4 DEF Goes

LEMMA SpoiltBy ==
  ASSUME TypeOK, NEW c \in Command, NEW step \in Steps,
         Become(c, [cmd[c] EXCEPT !.at = step, !.spoilt = TRUE])
  PROVE  Moves(c) /\ SpoiltTo(c, step) /\ cmd'[c].created = cmd[c].created
<1> DEFINE h == [cmd[c] EXCEPT !.at = step, !.spoilt = TRUE]
<1>1. cmd \in [Command -> Handler] /\ cmd[c] \in Handler
  BY DEF TypeOK
<1>2. /\ h \in Handler /\ h.at = step /\ h.pane = cmd[c].pane /\ h.spoilt
      /\ h.kind = cmd[c].kind /\ h.force = cmd[c].force /\ h.session = cmd[c].session
      /\ h.saw = cmd[c].saw /\ h.created = cmd[c].created
  BY <1>1 DEF Handler
<1>3. Become(c, h)
  OBVIOUS
<1> HIDE DEF h
<1>4. Moves(c) /\ cmd'[c] = h
  BY <1>1, <1>2, <1>3, Becomes
<1> QED
  BY <1>2, <1>4 DEF SpoiltTo

LEMMA LocalStep ==
  ASSUME TypeOK, NEW c \in Command,
         \/ Abort(c) \/ SeedSessionTitle(c) \/ FocusTarget(c) \/ DeleteSeed(c)
         \/ CannotStop(c) \/ ResolveTarget(c) \/ Announce(c)
  PROVE  Locally(c)
<1>1. cmd \in [Command -> Handler] /\ cmd[c] \in Handler /\ faults \in 0..MaxFaults
  BY DEF TypeOK
<1>2. /\ UndoSeed(c) \in Steps /\ UndoWorktree(c) \in Steps /\ AfterStop(c, cmd[c].saw) \in Steps
      /\ {"open", "reconcile", "failed", "close", "done"} \subseteq Steps
  BY DEF UndoSeed, UndoWorktree, AfterStop, AfterClose, Steps
<1>3. UNCHANGED faults \/ Fault => faults' \in 0..MaxFaults
  BY <1>1, FaultBounded
<1>4. CASE Abort(c)
  <2> DEFINE h == [cmd[c] EXCEPT !.aborted = TRUE]
  <2>1. /\ h \in Handler /\ h.at = cmd[c].at /\ h.pane = cmd[c].pane /\ h.spoilt = cmd[c].spoilt
        /\ h.kind = cmd[c].kind /\ h.force = cmd[c].force /\ h.session = cmd[c].session
        /\ h.saw = cmd[c].saw /\ h.created = cmd[c].created
    BY <1>1 DEF Handler
  <2>2. Become(c, h) /\ ~At(c, "waiting") /\ ~Ended(c) /\ Fault
    BY <1>4 DEF Abort, UnderWay
  <2> HIDE DEF h
  <2>3. Moves(c) /\ cmd'[c] = h
    BY <1>1, <2>1, <2>2, Becomes
  <2>4. Goes(c, cmd[c].at) /\ cmd'[c].created = cmd[c].created
    BY <2>1, <2>3 DEF Goes
  <2> QED
    BY <1>3, <1>4, <2>2, <2>3, <2>4, Zenon DEF Abort, Locally
<1>5. CASE SeedSessionTitle(c)
  <2>1. /\ UNCHANGED faults \/ Fault
        /\ \/ seeds' = seeds \cup {cmd[c].session} /\ GoTo(c, "open")
           \/ seeds' = seeds /\ GoTo(c, UndoWorktree(c))
    BY <1>5, Zenon DEF SeedSessionTitle
  <2> QED
    BY <1>2, <1>3, <1>5, <2>1, GoesBy, Zenon DEF SeedSessionTitle, Locally
<1>6. CASE FocusTarget(c)
  <2>1. CASE cmd[c].aborted
    <3>1. Become(c, [cmd[c] EXCEPT !.at = UndoSeed(c), !.spoilt = TRUE])
      BY <1>6, <2>1 DEF FocusTarget
    <3>2. Moves(c) /\ SpoiltTo(c, UndoSeed(c)) /\ cmd'[c].created = cmd[c].created
      BY <1>2, <3>1, SpoiltBy
    <3> QED
      BY <1>3, <1>6, <3>2, Zenon DEF FocusTarget, Locally
  <2>2. CASE ~cmd[c].aborted
    <3>1. GoTo(c, "reconcile")
      BY <1>6, <2>2 DEF FocusTarget, GoTo
    <3>2. Moves(c) /\ Goes(c, "reconcile") /\ cmd'[c].created = cmd[c].created
      BY <1>2, <3>1, GoesBy
    <3> QED
      BY <1>3, <1>6, <3>2, Zenon DEF FocusTarget, Locally
  <2> QED
    BY <2>1, <2>2
<1>7. CASE DeleteSeed(c)
  <2>1. CASE seeds' = seeds \ {cmd[c].session} /\ GoTo(c, UndoWorktree(c)) /\ UNCHANGED faults
    <3>1. Moves(c) /\ Goes(c, UndoWorktree(c)) /\ cmd'[c].created = cmd[c].created
      BY <1>2, <2>1, GoesBy
    <3> QED
      BY <1>3, <1>7, <2>1, <3>1, Zenon DEF DeleteSeed, Locally
  <2>2. CASE /\ Fault /\ UNCHANGED seeds
             /\ Become(c, [cmd[c] EXCEPT !.at = UndoWorktree(c), !.spoilt = TRUE])
    <3>1. Moves(c) /\ SpoiltTo(c, UndoWorktree(c)) /\ cmd'[c].created = cmd[c].created
      BY <1>2, <2>2, SpoiltBy
    <3> QED
      BY <1>3, <1>7, <2>2, <3>1, Zenon DEF DeleteSeed, Locally
  <2> QED
    BY <1>7, <2>1, <2>2, Zenon DEF DeleteSeed
<1>8. CASE CannotStop(c)
  <2>1. \/ cmd[c].force /\ GoTo(c, AfterStop(c, cmd[c].saw))
        \/ GoTo(c, "failed")
    BY <1>8 DEF CannotStop, AfterStop
  <2> QED
    BY <1>2, <1>3, <1>8, <2>1, GoesBy, Zenon DEF CannotStop, Locally
<1>9. CASE ResolveTarget(c)
  <2>1. CASE UNCHANGED faults /\ \E w \in Candidates(c) :
               Become(c, [cmd[c] EXCEPT !.at = "close", !.pane = w.pane])
    <3>1. PICK w \in Candidates(c) : Become(c, [cmd[c] EXCEPT !.at = "close", !.pane = w.pane])
      BY <2>1
    <3> DEFINE h == [cmd[c] EXCEPT !.at = "close", !.pane = w.pane]
    <3>2. w \in world.windows
      BY DEF Candidates, OfSeenSession, Live
    <3>3. w.pane \in 1..MaxPanes
      BY <3>2 DEF TypeOK, World, Window
    <3>4. /\ h \in Handler /\ h.at = "close" /\ h.pane = w.pane /\ h.spoilt = cmd[c].spoilt
          /\ h.kind = cmd[c].kind /\ h.force = cmd[c].force /\ h.session = cmd[c].session
          /\ h.saw = cmd[c].saw /\ h.created = cmd[c].created
      BY <1>1, <1>2, <3>3 DEF Handler
    <3>5. Become(c, h)
      BY <3>1
    <3> HIDE DEF h
    <3>6. Moves(c) /\ cmd'[c] = h
      BY <1>1, <3>4, <3>5, Becomes
    <3> QED
      BY <1>3, <1>9, <2>1, <3>2, <3>4, <3>6, Zenon DEF ResolveTarget, Locally
  <2>2. CASE (UNCHANGED faults \/ Fault) /\ GoTo(c, "failed")
    BY <1>2, <1>3, <1>9, <2>2, GoesBy, Zenon DEF ResolveTarget, Locally
  <2> QED
    BY <1>9, <2>1, <2>2, Zenon DEF ResolveTarget
<1>10. CASE Announce(c)
  <2>1. CASE GoTo(c, "done") /\ UNCHANGED faults
    BY <1>2, <1>3, <1>10, <2>1, GoesBy, Zenon DEF Announce, Locally
  <2>2. CASE Fault /\ Become(c, [cmd[c] EXCEPT !.at = "failed", !.spoilt = TRUE])
    <3>1. Moves(c) /\ SpoiltTo(c, "failed") /\ cmd'[c].created = cmd[c].created
      BY <1>2, <2>2, SpoiltBy
    <3> QED
      BY <1>3, <1>10, <2>2, <3>1, Zenon DEF Announce, Locally
  <2> QED
    BY <1>10, <2>1, <2>2, Zenon DEF Announce
<1> QED
  BY <1>4, <1>5, <1>6, <1>7, <1>8, <1>9, <1>10

LEMMA BeginStep == ASSUME TypeOK, NEW c \in Command, Begin(c) PROVE Begins(c)
<1> DEFINE allowed == IF cmd[c].kind \in Launches THEN LaunchAllowed(cmd[c].kind)
                                                  ELSE CleanupAllowed(c)
           at2 == IF allowed THEN FirstStep(c) ELSE "failed"
           h == [cmd[c] EXCEPT !.at = at2, !.session = SessionNow(c),
                               !.saw = Seen(c), !.pane = SeenPane(c)]
<1>1. cmd \in [Command -> Handler] /\ cmd[c] \in Handler /\ view \in View
  BY DEF TypeOK
<1>2. FirstStep(c) \in Steps /\ "failed" \in Steps
  BY <1>1 DEF FirstStep, AfterStop, AfterClose, Steps, Handler, Launches, Cleanups, OfSession
<1>3. NoView \in View
  BY DEF NoView, View
<1>4. /\ SessionNow(c) \in Maker /\ Seen(c) \in View
      /\ SeenPane(c) \in 1..MaxPanes \cup {NoPane}
  BY <1>1, <1>3 DEF SessionNow, Seen, SeenPane, View, Window, Handler
<1>5. at2 \in Steps
  BY <1>2
<1>6. Become(c, h) /\ At(c, "waiting")
      /\ UNCHANGED <<world, view, scan, seeds, late, faults, stopSupported>>
  BY Zenon DEF Begin
<1> HIDE DEF at2
<1>7. /\ h \in Handler /\ h.at = at2 /\ h.kind = cmd[c].kind /\ h.force = cmd[c].force
      /\ h.created = cmd[c].created /\ h.spoilt = cmd[c].spoilt
      /\ h.session = SessionNow(c) /\ h.saw = Seen(c) /\ h.pane = SeenPane(c)
  BY <1>1, <1>4, <1>5 DEF Handler
<1> HIDE DEF h
<1>8. /\ cmd' \in [Command -> Handler] /\ cmd'[c] = h
      /\ \A d \in Command \ {c} : cmd'[d] = cmd[d]
  BY <1>1, <1>6, <1>7 DEF Become
<1>9. \/ at2 = "failed"
      \/ at2 = FirstStep(c) /\ allowed
  BY Zenon DEF at2
<1> QED
  BY <1>6, <1>7, <1>8, <1>9, Zenon DEF Begins

LEMMA NoViewFields ==
  /\ NoView \in View /\ NoView.run = NoWindow /\ NoView.worktree = NoWorktree
  /\ NoView.terminal = "none" /\ ~NoView.blind
  /\ NotScanning \in Scan /\ NotScanning.for = NoScan /\ NotScanning.got = NoView
BY DEF NoView, View, NotScanning, Scan

LEMMA ReadsStep ==
  ASSUME TypeOK, NEW by \in Maker, ScanBegins(by), by = User \/ (by \in Command /\ At(by, "reconcile"))
  PROVE  Reads(by)
<1>1. world.worktree \in Worktree \cup {NoWorktree} /\ faults \in 0..MaxFaults
  BY DEF TypeOK, World
<1>2. UNCHANGED faults \/ Fault => faults' \in 0..MaxFaults
  BY <1>1, FaultBounded
<1>3. /\ scan.for = NoScan
      /\ UNCHANGED <<world, view, cmd, seeds, late, stopSupported>>
  BY DEF ScanBegins
<1>4. CASE /\ scan' = [for |-> by, listed |-> world.worktree = NoWorktree,
                      got |-> [NoView EXCEPT !.worktree = world.worktree]]
           /\ UNCHANGED faults
  <2> DEFINE got == [NoView EXCEPT !.worktree = world.worktree]
             none == world.worktree = NoWorktree
  <2>1. got \in View /\ got.worktree = world.worktree /\ got.run = NoWindow
    BY <1>1, NoViewFields DEF View
  <2>2. scan' = [for |-> by, listed |-> none, got |-> got] /\ none \in BOOLEAN
    BY <1>4
  <2>3. none <=> world.worktree = NoWorktree
    OBVIOUS
  <2> HIDE DEF got, none
  <2>4. scan' \in Scan /\ scan'.for = by /\ scan'.got = got /\ scan'.listed = none
    BY <2>1, <2>2 DEF Scan
  <2> QED
    BY <1>2, <1>3, <1>4, <2>1, <2>3, <2>4 DEF Reads
<1>5. CASE Fault /\ scan' = [for |-> by, listed |-> TRUE, got |-> [NoView EXCEPT !.blind = TRUE]]
  <2> DEFINE got == [NoView EXCEPT !.blind = TRUE]
  <2>1. got \in View /\ got.worktree = NoWorktree /\ got.run = NoWindow /\ got.blind
    BY NoViewFields DEF View
  <2>2. scan' = [for |-> by, listed |-> TRUE, got |-> got]
    BY <1>5
  <2> HIDE DEF got
  <2>3. scan' \in Scan /\ scan'.for = by /\ scan'.got = got /\ scan'.listed
    BY <2>1, <2>2 DEF Scan
  <2> QED
    BY <1>2, <1>3, <1>5, <2>1, <2>3 DEF Reads
<1> QED
  BY <1>4, <1>5, Zenon DEF ScanBegins

LEMMA ListsStep == ASSUME TypeOK, ScanLists PROVE Lists
<1>1. /\ scan \in Scan /\ scan.got \in View /\ world.windows \subseteq Window
      /\ faults \in 0..MaxFaults
  BY DEF TypeOK, Scan, World
<1>2. UNCHANGED faults \/ Fault => faults' \in 0..MaxFaults
  BY <1>1, FaultBounded
<1>3. /\ scan.for # NoScan /\ ~scan.listed
      /\ UNCHANGED <<world, view, cmd, seeds, late, stopSupported>>
  BY DEF ScanLists
<1>4. PICK away \in SUBSET {w \in world.windows : w.pane \in world.strayed} :
         LET inside == world.windows \ away IN
         \/ /\ \E t \in Terminals(inside), r \in RunsOf(inside) :
                 scan' = [scan EXCEPT !.listed = TRUE, !.got.terminal = t, !.got.run = r]
            /\ UNCHANGED faults
         \/ /\ Fault
            /\ \E t \in {"none"} \cup Terminals(inside) :
                 scan' = [scan EXCEPT !.listed = TRUE, !.got.terminal = t, !.got.blind = TRUE]
  BY Zenon DEF ScanLists
<1> DEFINE inside == world.windows \ away
<1>5. /\ Terminals(inside) \subseteq {"none", "open", "stale"}
      /\ inside # {} => "none" \notin Terminals(inside)
      /\ RunsOf(inside) \subseteq inside \cup {NoWindow}
  BY DEF Terminals, RunsOf
<1>6. (\E w \in world.windows : w.pane \notin world.strayed) => inside # {}
  OBVIOUS
<1>7. CASE /\ UNCHANGED faults
           /\ \E t \in Terminals(inside), r \in RunsOf(inside) :
                scan' = [scan EXCEPT !.listed = TRUE, !.got.terminal = t, !.got.run = r]
  <2>1. PICK t \in Terminals(inside), r \in RunsOf(inside) :
           scan' = [scan EXCEPT !.listed = TRUE, !.got.terminal = t, !.got.run = r]
    BY <1>7
  <2> DEFINE got == [scan.got EXCEPT !.terminal = t, !.run = r]
  <2>2. /\ got \in View /\ got.worktree = scan.got.worktree /\ got.run = r
        /\ got.terminal = t /\ got.blind = scan.got.blind
    BY <1>1, <1>5 DEF View
  <2>3. scan' = [scan EXCEPT !.listed = TRUE, !.got = got]
    BY <1>1, <2>1 DEF Scan
  <2> HIDE DEF got
  <2>4. scan' \in Scan /\ scan'.for = scan.for /\ scan'.got = got /\ scan'.listed
    BY <1>1, <2>2, <2>3 DEF Scan
  <2> QED
    BY <1>2, <1>3, <1>5, <1>6, <1>7, <2>2, <2>4 DEF Lists
<1>8. CASE /\ Fault
           /\ \E t \in {"none"} \cup Terminals(inside) :
                scan' = [scan EXCEPT !.listed = TRUE, !.got.terminal = t, !.got.blind = TRUE]
  <2>1. PICK t \in {"none"} \cup Terminals(inside) :
           scan' = [scan EXCEPT !.listed = TRUE, !.got.terminal = t, !.got.blind = TRUE]
    BY <1>8
  <2> DEFINE got == [scan.got EXCEPT !.terminal = t, !.blind = TRUE]
  <2>2. /\ got \in View /\ got.worktree = scan.got.worktree /\ got.run = scan.got.run
        /\ got.blind
    BY <1>1, <1>5 DEF View
  <2>3. scan' = [scan EXCEPT !.listed = TRUE, !.got = got]
    BY <1>1, <2>1 DEF Scan
  <2> HIDE DEF got
  <2>4. scan' \in Scan /\ scan'.for = scan.for /\ scan'.got = got /\ scan'.listed
    BY <1>1, <2>2, <2>3 DEF Scan
  <2> QED
    BY <1>2, <1>3, <1>8, <2>2, <2>4 DEF Lists
<1> QED
  BY <1>4, <1>7, <1>8

LEMMA LandsStep == ASSUME TypeOK, ScanLands PROVE Lands
<1>1. cmd \in [Command -> Handler] /\ faults \in 0..MaxFaults
  BY DEF TypeOK
<1>2. UNCHANGED faults \/ Fault => faults' \in 0..MaxFaults
  BY <1>1, FaultBounded
<1>3. ASSUME NEW step \in {"announce", "failed"}, NEW isSpoilt \in BOOLEAN, Reconciled(step, isSpoilt)
      PROVE  /\ cmd' \in [Command -> Handler]
             /\ \A d \in Command : d # scan.for => cmd'[d] = cmd[d]
             /\ \A d \in Command :
                  /\ cmd'[d].kind = cmd[d].kind /\ cmd'[d].force = cmd[d].force
                  /\ cmd'[d].session = cmd[d].session /\ cmd'[d].saw = cmd[d].saw
                  /\ cmd'[d].created = cmd[d].created /\ cmd'[d].pane = cmd[d].pane
             /\ scan.for \in Command =>
                  /\ cmd'[scan.for].at = step
                  /\ cmd'[scan.for].spoilt <=> cmd[scan.for].spoilt \/ isSpoilt
  <2> DEFINE h(d) == [cmd[d] EXCEPT !.at = step, !.spoilt = @ \/ isSpoilt]
  <2>1. \A d \in Command :
           /\ h(d) \in Handler /\ h(d).at = step /\ h(d).kind = cmd[d].kind
           /\ h(d).force = cmd[d].force /\ h(d).session = cmd[d].session /\ h(d).saw = cmd[d].saw
           /\ h(d).created = cmd[d].created /\ h(d).pane = cmd[d].pane
           /\ h(d).spoilt <=> cmd[d].spoilt \/ isSpoilt
    <3> SUFFICES ASSUME NEW d \in Command
                 PROVE  /\ h(d) \in Handler /\ h(d).at = step /\ h(d).kind = cmd[d].kind
                        /\ h(d).force = cmd[d].force /\ h(d).session = cmd[d].session
                        /\ h(d).saw = cmd[d].saw /\ h(d).created = cmd[d].created
                        /\ h(d).pane = cmd[d].pane
                        /\ h(d).spoilt <=> cmd[d].spoilt \/ isSpoilt
      OBVIOUS
    <3>1. cmd[d] \in Handler /\ step \in Steps
      BY <1>1 DEF Steps
    <3> QED
      BY <3>1 DEF Handler
  <2>2. cmd' = [d \in Command |-> IF d = scan.for THEN h(d) ELSE cmd[d]]
    BY <1>3, Zenon DEF Reconciled
  <2> HIDE DEF h
  <2> QED
    BY <1>1, <2>1, <2>2
<1>4. /\ scan.for # NoScan /\ scan.listed /\ scan' = NotScanning
      /\ UNCHANGED <<world, seeds, late, stopSupported>>
  BY DEF ScanLands
<1>5. CASE view' = scan.got /\ Reconciled("announce", FALSE) /\ UNCHANGED faults
  <2>1. /\ cmd' \in [Command -> Handler]
        /\ \A d \in Command : d # scan.for => cmd'[d] = cmd[d]
        /\ \A d \in Command :
             /\ cmd'[d].kind = cmd[d].kind /\ cmd'[d].force = cmd[d].force
             /\ cmd'[d].session = cmd[d].session /\ cmd'[d].saw = cmd[d].saw
             /\ cmd'[d].created = cmd[d].created /\ cmd'[d].pane = cmd[d].pane
        /\ scan.for \in Command =>
             /\ cmd'[scan.for].at = "announce"
             /\ cmd'[scan.for].spoilt <=> cmd[scan.for].spoilt \/ FALSE
    BY <1>3, <1>5
  <2>2. scan.for \in Command => cmd'[scan.for].spoilt = cmd[scan.for].spoilt
    BY <1>1, <2>1 DEF Handler
  <2> QED
    BY <1>2, <1>4, <1>5, <2>1, <2>2, Zenon DEF Lands
<1>6. CASE Fault /\ UNCHANGED view /\ Reconciled("failed", TRUE)
  <2>1. /\ cmd' \in [Command -> Handler]
        /\ \A d \in Command : d # scan.for => cmd'[d] = cmd[d]
        /\ \A d \in Command :
             /\ cmd'[d].kind = cmd[d].kind /\ cmd'[d].force = cmd[d].force
             /\ cmd'[d].session = cmd[d].session /\ cmd'[d].saw = cmd[d].saw
             /\ cmd'[d].created = cmd[d].created /\ cmd'[d].pane = cmd[d].pane
        /\ scan.for \in Command => cmd'[scan.for].at = "failed" /\ cmd'[scan.for].spoilt
    BY <1>3, <1>6
  <2> QED
    BY <1>2, <1>4, <1>6, <2>1, Zenon DEF Lands
<1> QED
  BY <1>5, <1>6, Zenon DEF ScanLands

LEMMA BesideStep ==
  ASSUME TypeOK, PanesInv, AgentWorks \/ AgentExits \/ WindowStrays \/ (\E call \in late : LateEffect(call))
  PROVE  Beside
<1>1. /\ world \in World /\ world.windows \subseteq Window /\ world.panes \in Nat
      /\ \A z \in world.windows : z.pane <= world.panes
  BY SessionCommandsAssumption DEF TypeOK, PanesInv, Numbered, World
<1>2. CASE AgentWorks
  <2> DEFINE worked == [world.worktree EXCEPT !.dirty = TRUE]
  <2>1. worked \in Worktree /\ worked.by = world.worktree.by
    BY <1>1, <1>2 DEF AgentWorks, World, Worktree
  <2>2. world' = [world EXCEPT !.worktree = worked]
    BY <1>2 DEF AgentWorks
  <2> HIDE DEF worked
  <2>3. /\ world' \in World /\ world'.worktree = worked
        /\ world'.windows = world.windows /\ world'.panes = world.panes
        /\ world'.strayed = world.strayed
    BY <1>1, <2>1, <2>2 DEF World
  <2>4. worked # NoWorktree /\ world.worktree # NoWorktree
    BY <1>2, <2>1, SessionCommandsAssumption DEF AgentWorks
  <2>5. WorktreeStays(world, world')
    BY <2>1, <2>3, <2>4 DEF WorktreeStays
  <2>6. NoPaneReturns(world, world') /\ \A y \in world.windows : y.agent # NoAgent => AgentStays(world, y)
    BY <1>1, <2>3 DEF NoPaneReturns, WindowOf, AgentStays
  <2> QED
    BY <1>2, <2>3, <2>5, <2>6, Zenon DEF AgentWorks, Beside
<1>3. CASE AgentExits
  <2>1. PICK x \in world.windows, is \in {"exited", "gone"} :
           /\ Runs(x.agent) /\ world.exits < MaxExits
           /\ world' = [Update(world, x, [x EXCEPT !.agent.is = is]) EXCEPT !.exits = @ + 1]
    BY <1>3 DEF AgentExits
  <2> DEFINE y == [x EXCEPT !.agent.is = is]
             w == Update(world, x, y)
  <2>2. x.agent # NoAgent
    BY <2>1 DEF Runs
  <2>a. x \in Window /\ is \in {"running", "exited", "gone"}
    BY <1>1
  <2>3. y \in Window /\ y.pane = x.pane /\ y.agent # NoAgent /\ y.agent.by = x.agent.by
    BY <2>2, <2>a, EndedAgent
  <2>4. world' = [w EXCEPT !.exits = @ + 1]
    BY <2>1
  <2> HIDE DEF y
  <2>5. /\ w \in World /\ w.windows = (world.windows \ {x}) \cup {y} /\ w.panes = world.panes
        /\ w.exits = world.exits /\ w.worktree = world.worktree /\ NoPaneReturns(world, w)
    BY <1>1, <2>3, UpdateType, UpdateKeepsPanes
  <2> HIDE DEF w
  <2>6. w.exits + 1 \in 0..MaxExits
    BY <1>1, <2>1, <2>5, SessionCommandsAssumption DEF World
  <2>7. /\ world' \in World /\ world'.worktree = w.worktree
        /\ world'.windows = w.windows /\ world'.panes = w.panes
        /\ world'.strayed = w.strayed
    BY <2>4, <2>5, <2>6 DEF World
  <2>8. NoPaneReturns(world, world')
    BY <2>5, <2>7 DEF NoPaneReturns, WindowOf
  <2>9. \A z \in world'.windows : z.agent # NoAgent => AgentStays(world, z)
    BY <2>2, <2>3, <2>5, <2>7 DEF AgentStays
  <2>10. WorktreeStays(world, world')
    BY <2>5, <2>7 DEF WorktreeStays
  <2> QED
    BY <1>3, <2>7, <2>8, <2>9, <2>10, Zenon DEF AgentExits, Beside
<1>4. ASSUME NEW call \in late, LateEffect(call) PROVE Beside
  <2>1. PICK o \in Outcomes(call, world) : world' = o.world
    BY <1>4 DEF LateEffect
  <2>2. Effect(call, world, o)
    BY <1>1, <2>1, EffectOfCall DEF TypeOK
  <2>3. world' \in World /\ NoPaneReturns(world, world')
    BY <2>1, <2>2 DEF Effect
  <2> QED
    BY <1>4, <2>1, <2>2, <2>3, Zenon DEF LateEffect, Beside
<1>5. CASE WindowStrays
  <2>1. PICK x \in world.windows :
           /\ world.exits < MaxExits
           /\ world' = [world EXCEPT !.strayed = @ \cup {x.pane}, !.exits = @ + 1]
    BY <1>5 DEF WindowStrays
  <2>2. x.pane \in 1..MaxPanes /\ world.exits + 1 \in 0..MaxExits
    BY <1>1, <2>1, SessionCommandsAssumption DEF World, Window
  <2>3. /\ world' \in World /\ world'.worktree = world.worktree
        /\ world'.windows = world.windows /\ world'.panes = world.panes
        /\ world.strayed \subseteq world'.strayed
    BY <1>1, <2>1, <2>2 DEF World
  <2>4. NoPaneReturns(world, world') /\ \A y \in world.windows : y.agent # NoAgent => AgentStays(world, y)
    BY <1>1, <2>3 DEF NoPaneReturns, WindowOf, AgentStays
  <2>5. WorktreeStays(world, world')
    BY <2>3 DEF WorktreeStays
  <2> QED
    BY <1>5, <2>3, <2>4, <2>5, Zenon DEF WindowStrays, Beside
<1> QED
  BY <1>2, <1>3, <1>4, <1>5

(* Every step is of one of the seven kinds. *)
LEMMA EveryStep ==
  ASSUME TypeOK, PanesInv, [Next]_vars
  PROVE  \/ \E c \in Command : Begins(c) \/ Carries(c) \/ Locally(c)
         \/ \E by \in Maker : Reads(by)
         \/ Lists \/ Lands \/ Beside \/ UNCHANGED vars
<1>1. ASSUME NEW c \in Command, HandlerStep(c)
      PROVE  Begins(c) \/ Carries(c) \/ Locally(c) \/ Reads(c)
  <2>1. Begin(c) => Begins(c)
    BY BeginStep
  <2>2. CreateWorktree(c) \/ OpenWorkspace(c) \/ LaunchProcess(c) \/ CloseOpened(c)
        \/ UncreateWorktree(c) \/ StopHarness(c) \/ CloseTerminal(c) \/ RemoveWorktree(c)
        => Carries(c)
    BY CarriesStep
  <2>3. Abort(c) \/ SeedSessionTitle(c) \/ FocusTarget(c) \/ DeleteSeed(c)
        \/ CannotStop(c) \/ ResolveTarget(c) \/ Announce(c) => Locally(c)
    BY LocalStep
  <2>4. ReconcileBegins(c) => Reads(c)
    BY ReadsStep DEF ReconcileBegins, Maker
  <2> QED
    BY <1>1, <2>1, <2>2, <2>3, <2>4, Zenon DEF HandlerStep
<1>2. ObserverReconciles => Reads(User)
  BY ReadsStep DEF ObserverReconciles, Maker
<1>3. \A c \in Command \cup {User} : c \in Maker
  BY DEF Maker
<1> QED
  BY <1>1, <1>2, <1>3, ListsStep, LandsStep, BesideStep, Zenon DEF Next

LEMMA TypeStep == ASSUME TypeOK, PanesInv, [Next]_vars PROVE TypeOK'
<1>0. /\ world \in World /\ view \in View /\ scan \in Scan /\ cmd \in [Command -> Handler]
      /\ seeds \subseteq Maker /\ late \subseteq Call
      /\ faults \in 0..MaxFaults /\ stopSupported \in CanStop
  BY DEF TypeOK
<1>1. ASSUME NEW c \in Command, Begins(c) PROVE TypeOK'
  BY <1>0, <1>1 DEF Begins, TypeOK
<1>2. ASSUME NEW c \in Command, Carries(c) PROVE TypeOK'
  <2>1. PICK call \in Call, ok \in Steps, failed \in Steps :
           WentOn(c, call, ok) \/ WentBack(c, call, failed)
    BY <1>2 DEF Carries
  <2>2. world' \in World /\ late' \subseteq Call
    BY <1>0, <2>1 DEF WentOn, WentBack, Effect
  <2> QED
    BY <1>0, <1>2, <2>2 DEF Carries, Moves, Bystanders, TypeOK
<1>3. ASSUME NEW c \in Command, Locally(c) PROVE TypeOK'
  <2>1. cmd[c].session \in Maker
    BY <1>0 DEF Handler
  <2>2. seeds' \subseteq Maker
    BY <1>0, <1>3, <2>1 DEF Locally
  <2> QED
    BY <1>0, <1>3, <2>2 DEF Locally, Moves, TypeOK
<1>4. ASSUME NEW by \in Maker, Reads(by) PROVE TypeOK'
  BY <1>0, <1>4 DEF Reads, TypeOK
<1>5. CASE Lands
  <2>1. scan.got \in View
    BY <1>0 DEF Scan
  <2>2. scan' \in Scan
    BY <1>5, NoViewFields DEF Lands
  <2> QED
    BY <1>0, <1>5, <2>1, <2>2 DEF Lands, TypeOK
<1>6. CASE Beside
  BY <1>0, <1>6 DEF Beside, TypeOK
<1>7. CASE UNCHANGED vars
  BY <1>0, <1>7 DEF vars, TypeOK
<1>8. CASE Lists
  BY <1>0, <1>8 DEF Lists, TypeOK
<1> QED
  BY <1>1, <1>2, <1>3, <1>4, <1>5, <1>6, <1>7, <1>8, EveryStep

-----------------------------------------------------------------------------
(* What any step may do to the world: windows do not come back, an agent   *)
(* that was not there is in the window of the launch that made it, and a   *)
(* worktree that was not there is of the command that makes it now.        *)

Launched(y) ==
  /\ y.agent.by \in Command /\ cmd[y.agent.by].kind \in Launches
  /\ y.pane # NoPane /\ y.pane = cmd[y.agent.by].pane

Creates(m) ==
  \/ At(m, "createWorktree") /\ cmd'[m].at \notin {"waiting", "createWorktree"} /\ late' = late
  \/ \E call \in late : call.by = m /\ call.do = "createWorktree" /\ late' = late \ {call}

WorldStep ==
  /\ world' \in World /\ NoPaneReturns(world, world')
  /\ \A y \in world'.windows : y.agent # NoAgent => AgentStays(world, y) \/ Launched(y)
  /\ \/ WorktreeStays(world, world')
     \/ world'.worktree # NoWorktree /\ world'.worktree.by \in Command /\ Creates(world'.worktree.by)

LEMMA WorldKept == ASSUME TypeOK, PanesInv, world' = world PROVE WorldStep
<1>1. /\ world \in World /\ world.panes \in Nat
      /\ \A z \in world.windows : z.pane <= world.panes
  BY SessionCommandsAssumption DEF TypeOK, PanesInv, Numbered, World
<1>2. NoPaneReturns(world, world')
  BY <1>1 DEF NoPaneReturns, WindowOf
<1>3. \A y \in world'.windows : y.agent # NoAgent => AgentStays(world, y)
  BY DEF AgentStays
<1> QED
  BY <1>1, <1>2, <1>3 DEF WorldStep, WorktreeStays

(* A call that is carried out, now or late. *)
LEMMA WorldByEffect ==
  ASSUME TypeOK, NEW call \in Call, NEW o, Effect(call, world, o), world' = o.world,
         call.do = "launch" => /\ cmd[call.by].kind \in Launches
                               /\ call.pane # NoPane /\ call.pane = cmd[call.by].pane,
         call.do = "createWorktree" => Creates(call.by)
  PROVE  WorldStep
<1>1. call.by \in Command
  BY DEF Call
<1>2. world' \in World /\ NoPaneReturns(world, world')
  BY DEF Effect
<1>3. \A y \in world'.windows : y.agent # NoAgent => AgentStays(world, y) \/ Launched(y)
  BY <1>1 DEF Effect, Launched
<1>4. \/ WorktreeStays(world, world')
      \/ world'.worktree # NoWorktree /\ world'.worktree.by \in Command /\ Creates(world'.worktree.by)
  <2>1. CASE world'.worktree = world.worktree \/ world'.worktree = NoWorktree
    BY <2>1 DEF WorktreeStays
  <2>2. CASE call.do = "createWorktree" /\ world'.worktree = [by |-> call.by, dirty |-> FALSE]
    <3> DEFINE made == [by |-> call.by, dirty |-> FALSE]
    <3>1. made \in Worktree /\ made.by = call.by
      BY <1>1 DEF Worktree, Maker
    <3>2. world'.worktree = made
      BY <2>2
    <3> HIDE DEF made
    <3>3. made # NoWorktree
      BY <3>1, SessionCommandsAssumption
    <3> QED
      BY <1>1, <2>2, <3>1, <3>2, <3>3 DEF Creates
  <2> QED
    BY <2>1, <2>2 DEF Effect
<1> QED
  BY <1>2, <1>3, <1>4 DEF WorldStep

LEMMA WorldSteps ==
  ASSUME TypeOK, PanesInv, LateInv, \A c \in Command : HandlerInv(c), [Next]_vars
  PROVE  WorldStep
<1>0. late \subseteq Call /\ cmd \in [Command -> Handler]
  BY DEF TypeOK
<1>1. ASSUME NEW c \in Command, Carries(c) PROVE WorldStep
  <2>1. PICK call \in Call, ok \in Steps, failed \in Steps :
           Doing(c, call, ok, failed) /\ (WentOn(c, call, ok) \/ WentBack(c, call, failed))
    BY <1>1 DEF Carries
  <2>2. \/ world' = world
        \/ late' = late /\ \E o : Effect(call, world, o) /\ world' = o.world
    BY <2>1 DEF WentOn, WentBack
  <2>3. call.do = "launch" => /\ cmd[call.by].kind \in Launches
                              /\ call.pane # NoPane /\ call.pane = cmd[call.by].pane
    <3>1. At(c, "launch") => cmd[c].kind \in Launches /\ cmd[c].pane # NoPane
      BY <1>0 DEF HandlerInv, At, Handler, CleanupSteps
    <3> QED
      BY <2>1, <3>1 DEF Doing
  <2>4. call.do = "createWorktree" /\ late' = late => Creates(call.by)
    <3>1. call.do = "createWorktree" =>
            /\ call.by = c /\ At(c, "createWorktree")
            /\ cmd'[c].at \in {"seed", "failed"}
      BY <2>1 DEF Doing, WentOn, WentBack
    <3> QED
      BY <3>1 DEF Creates
  <2> QED
    BY <2>2, <2>3, <2>4, WorldKept, WorldByEffect
<1>2. CASE Beside
  <2>1. CASE /\ late' = late /\ WorktreeStays(world, world')
             /\ \A y \in world'.windows : y.agent # NoAgent => AgentStays(world, y)
    BY <1>2, <2>1 DEF Beside, WorldStep
  <2>2. ASSUME NEW call \in late, NEW o, late' = late \ {call},
               Effect(call, world, o), world' = o.world
        PROVE  WorldStep
    <3>1. call.do = "launch" => /\ cmd[call.by].kind \in Launches
                                /\ call.pane # NoPane /\ call.pane = cmd[call.by].pane
      BY DEF LateInv
    <3>2. call.do = "createWorktree" => Creates(call.by)
      BY <2>2 DEF Creates
    <3> QED
      BY <1>0, <2>2, <3>1, <3>2, WorldByEffect
  <2> QED
    BY <1>2, <2>1, <2>2 DEF Beside
<1>3. ASSUME world' = world PROVE WorldStep
  BY <1>3, WorldKept
<1>4. /\ \A c \in Command : Begins(c) \/ Locally(c) => world' = world
      /\ \A by \in Maker : Reads(by) => world' = world
      /\ Lists \/ Lands => world' = world
      /\ UNCHANGED vars => world' = world
  BY DEF Begins, Locally, Reads, Lists, Lands, vars
<1> QED
  BY <1>1, <1>2, <1>3, <1>4, EveryStep

-----------------------------------------------------------------------------
(* What any step may do to a handler: it never starts again, a launch      *)
(* stays with its window, it sees the row it starts with, and what is      *)
(* spoilt stays spoilt.                                                    *)

Early == {"waiting", "createWorktree"}
Keeps(d) ==
  /\ cmd'[d].kind = cmd[d].kind /\ cmd'[d].force = cmd[d].force
  /\ cmd[d].at \notin Early => cmd'[d].at \notin Early
  /\ cmd[d].kind \in Launches /\ cmd[d].pane # NoPane => cmd'[d].pane = cmd[d].pane
  /\ cmd'[d].pane # NoPane => cmd'[d].pane <= world'.panes
  /\ cmd'[d].saw = cmd[d].saw \/ (At(d, "waiting") /\ cmd'[d].saw \in {view, NoView})
  /\ cmd[d].spoilt => cmd'[d].spoilt

LEMMA PaneBounds ==
  ASSUME TypeOK, PanesInv, WorldStep, NEW d \in Command
  PROVE  /\ cmd[d].pane # NoPane => cmd[d].pane <= world'.panes
         /\ view.run # NoWindow => view.run.pane <= world'.panes
         /\ \A w \in world.windows : w.pane <= world'.panes
<1>1. /\ world.panes \in Nat /\ world'.panes \in Nat /\ world'.panes >= world.panes
      /\ world.windows \subseteq Window
  BY SessionCommandsAssumption DEF TypeOK, WorldStep, NoPaneReturns, World
<1>2. \A w \in Window : w.pane \in Nat /\ w # NoWindow
  BY SessionCommandsAssumption DEF Window
<1>3. cmd[d].pane \in Nat \cup {NoPane} /\ view.run \in Window \cup {NoWindow}
  BY DEF TypeOK, Handler, View
<1>4. /\ cmd[d].pane # NoPane => cmd[d].pane <= world.panes
      /\ view.run # NoWindow => view.run.pane <= world.panes
      /\ \A w \in world.windows : w.pane <= world.panes
  BY <1>1, <1>2 DEF PanesInv, Numbered
<1> QED
  BY <1>1, <1>2, <1>3, <1>4

LEMMA SameHandlerKeeps ==
  ASSUME TypeOK, PanesInv, WorldStep, NEW d \in Command, cmd'[d] = cmd[d]
  PROVE  Keeps(d)
BY PaneBounds DEF Keeps

LEMMA HandlersKeep ==
  ASSUME TypeOK, PanesInv, \A c \in Command : HandlerInv(c), WorldStep, [Next]_vars,
         NEW d \in Command
  PROVE  Keeps(d)
<1>0. cmd[d] \in Handler /\ HandlerInv(d)
  BY DEF TypeOK
<1>1. \/ cmd[d].kind \in Launches /\ cmd[d].kind \notin Cleanups
      \/ cmd[d].kind \in Cleanups /\ cmd[d].kind \notin Launches
  BY <1>0 DEF Handler, Launches, Cleanups, OfSession
<1>2. CASE cmd'[d] = cmd[d]
  BY <1>2, SameHandlerKeeps
<1>3. CASE Begins(d)
  <2>1. cmd[d].pane = NoPane \/ cmd[d].kind \notin Launches
    BY <1>0, <1>3 DEF Begins, HandlerInv, At
  <2>2. cmd'[d].pane # NoPane => view.run # NoWindow /\ cmd'[d].pane = view.run.pane
    BY <1>3 DEF Begins, SeenPane
  <2>3. cmd'[d].saw \in {view, NoView}
    BY <1>3 DEF Begins, Seen
  <2>4. cmd'[d].pane # NoPane => cmd'[d].pane <= world'.panes
    BY <2>2, PaneBounds
  <2> QED
    BY <1>3, <2>1, <2>3, <2>4 DEF Begins, Keeps, Early, At
<1>4. CASE Carries(d)
  <2>1. PICK call \in Call, ok \in Steps, failed \in Steps :
           Doing(d, call, ok, failed) /\ (WentOn(d, call, ok) \/ WentBack(d, call, failed))
    BY <1>4 DEF Carries
  <2>2. /\ cmd'[d].pane = cmd[d].pane \/ At(d, "createWorktree") \/ At(d, "open")
        /\ cmd'[d].pane = cmd[d].pane \/ cmd'[d].pane = NoPane \/ cmd'[d].pane <= world'.panes
    <3>1. CASE WentBack(d, call, failed)
      BY <3>1 DEF WentBack
    <3>2. CASE WentOn(d, call, ok)
      <4>1. PICK o : Effect(call, world, o) /\ world' = o.world /\ cmd'[d].pane = o.pane
        BY <3>2 DEF WentOn
      <4>2. /\ o.pane = NoPane \/ o.pane = call.pane \/ o.pane <= world'.panes
            /\ o.pane = call.pane \/ call.do \in {"createWorktree", "open"}
        <5>1. world'.panes \in Nat
          BY SessionCommandsAssumption DEF WorldStep, World
        <5> QED
          BY <4>1, <5>1 DEF Effect
      <4> QED
        BY <2>1, <4>1, <4>2 DEF Doing
    <3> QED
      BY <2>1, <3>1, <3>2
  <2>3. At(d, "createWorktree") \/ At(d, "open") => cmd[d].kind \in Launches /\ cmd[d].pane = NoPane
    BY <1>0, <1>1 DEF HandlerInv, At, CleanupSteps
  <2>4. cmd'[d].at \notin Early
    BY <2>1 DEF Doing, WentOn, WentBack, Early, UndoSeed, AfterStop, AfterClose
  <2>5. cmd[d].spoilt => cmd'[d].spoilt
    BY <2>1 DEF WentOn, WentBack
  <2>6. Moves(d)
    BY <1>4 DEF Carries
  <2> QED
    BY <2>2, <2>3, <2>4, <2>5, <2>6, PaneBounds DEF Keeps, Moves
<1>5. CASE Locally(d)
  <2>1. Moves(d)
    BY <1>5 DEF Locally
  <2>2. cmd[d].spoilt => cmd'[d].spoilt
    BY <1>5 DEF Locally, Goes, SpoiltTo
  <2>3. cmd[d].at \notin Early => cmd'[d].at \notin Early
    BY <1>5 DEF Locally, Goes, SpoiltTo, Early, UndoSeed, UndoWorktree, AfterStop, AfterClose, At
  <2>4. \/ cmd'[d].pane = cmd[d].pane
        \/ At(d, "resolve") /\ \E w \in world.windows : cmd'[d].pane = w.pane
    BY <1>5 DEF Locally, Goes, SpoiltTo
  <2>5. At(d, "resolve") => cmd[d].kind \notin Launches
    BY <1>0 DEF HandlerInv, At, LaunchSteps
  <2> QED
    BY <2>1, <2>2, <2>3, <2>4, <2>5, PaneBounds DEF Keeps, Moves
<1>6. CASE Lands
  <2>1. \/ cmd'[d] = cmd[d]
        \/ cmd'[d].at = "announce" /\ cmd'[d].spoilt = cmd[d].spoilt
        \/ cmd'[d].at = "failed" /\ cmd'[d].spoilt
    BY <1>6 DEF Lands
  <2>2. /\ cmd'[d].kind = cmd[d].kind /\ cmd'[d].force = cmd[d].force
        /\ cmd'[d].saw = cmd[d].saw /\ cmd'[d].pane = cmd[d].pane
    BY <1>6 DEF Lands
  <2> QED
    BY <2>1, <2>2, PaneBounds DEF Keeps, Early
<1>7. ASSUME NEW c \in Command \ {d}, Begins(c) \/ Carries(c) \/ Locally(c) PROVE cmd'[d] = cmd[d]
  BY <1>7 DEF Begins, Carries, Locally, Moves
<1>8. (\E by \in Maker : Reads(by)) \/ Lists \/ Beside \/ UNCHANGED vars => cmd'[d] = cmd[d]
  BY DEF Reads, Lists, Beside, vars
<1> QED
  BY <1>2, <1>3, <1>4, <1>5, <1>6, <1>7, <1>8, EveryStep

(* Calls in the air come from the handler that makes them, which is spoilt. *)
LEMMA LateSteps ==
  ASSUME TypeOK, PanesInv, \A c \in Command : HandlerInv(c), WorldStep, [Next]_vars
  PROVE  \/ late' \subseteq late
         \/ \E c \in Command, call \in Call, ok, failed \in Steps :
              /\ Doing(c, call, ok, failed) /\ cmd'[c].spoilt
              /\ late' = late \cup {call} /\ cmd'[c].at = failed
<1>1. ASSUME NEW c \in Command, Carries(c)
      PROVE  \/ late' \subseteq late
             \/ \E call \in Call, ok, failed \in Steps :
                  /\ Doing(c, call, ok, failed) /\ cmd'[c].spoilt
                  /\ late' = late \cup {call} /\ cmd'[c].at = failed
  <2>1. PICK call \in Call, ok \in Steps, failed \in Steps :
           Doing(c, call, ok, failed) /\ (WentOn(c, call, ok) \/ WentBack(c, call, failed))
    BY <1>1 DEF Carries
  <2>2. late' \subseteq late \/ (cmd'[c].spoilt /\ late' = late \cup {call} /\ cmd'[c].at = failed)
    BY <2>1 DEF WentOn, WentBack
  <2> QED
    BY <2>1, <2>2
<1>2. (\E c \in Command : Begins(c) \/ Locally(c)) \/ (\E by \in Maker : Reads(by))
      \/ Lists \/ Lands \/ Beside \/ UNCHANGED vars => late' \subseteq late
  BY DEF Begins, Locally, Reads, Lists, Lands, Beside, vars
<1> QED
  BY <1>1, <1>2, EveryStep

LEMMA LateStep ==
  ASSUME TypeOK, PanesInv, LateInv, \A c \in Command : HandlerInv(c), WorldStep, [Next]_vars
  PROVE  LateInv'
<1>0. late \subseteq Call /\ \A call \in Call : call.by \in Command
  BY DEF TypeOK, Call
<1>1. \A d \in Command : Keeps(d)
  BY HandlersKeep
<1>2. \A call \in late :
         /\ cmd'[call.by].spoilt
         /\ call.do = "launch" => /\ cmd'[call.by].kind \in Launches
                                  /\ call.pane # NoPane /\ call.pane = cmd'[call.by].pane
  BY <1>0, <1>1 DEF LateInv, Keeps
<1>3. CASE late' \subseteq late
  BY <1>2, <1>3 DEF LateInv
<1>4. ASSUME NEW c \in Command, NEW call \in Call, NEW ok \in Steps, NEW failed \in Steps,
             Doing(c, call, ok, failed), cmd'[c].spoilt, late' = late \cup {call}
      PROVE  LateInv'
  <2>1. call.by = c /\ call.pane = cmd[c].pane
    BY <1>4 DEF Doing
  <2>2. call.do = "launch" => At(c, "launch")
    BY <1>4 DEF Doing
  <2>3. At(c, "launch") => cmd[c].kind \in Launches /\ cmd[c].pane # NoPane
    BY DEF TypeOK, HandlerInv, At, Handler, CleanupSteps
  <2>4. call.do = "launch" => /\ cmd'[call.by].kind \in Launches
                              /\ call.pane # NoPane /\ call.pane = cmd'[call.by].pane
    BY <1>1, <2>1, <2>2, <2>3 DEF Keeps
  <2>5. call.do = "createWorktree" => ~cmd[c].spoilt
    BY <1>4 DEF Doing, HandlerInv, At, GoingBack
  <2>6. \A x \in late : call.do = "createWorktree" => x.by # c
    BY <2>5 DEF LateInv
  <2> QED
    BY <1>2, <1>4, <2>1, <2>4, <2>6 DEF LateInv
<1> QED
  BY <1>3, <1>4, LateSteps

-----------------------------------------------------------------------------
(* What any step may do to the rows: the one shown is the one that was     *)
(* read, and one is read from the world as it is.                          *)
RowSteps ==
  /\ view' = view \/ view' = scan.got
  /\ \/ scan'.got = scan.got \/ scan'.got = NoView
     \/ /\ scan'.got.worktree \in {world.worktree, NoWorktree} /\ scan'.got.run = NoWindow
     \/ /\ scan'.got.worktree = scan.got.worktree /\ scan.got.worktree # NoWorktree
        /\ scan'.got.run \in {NoWindow, scan.got.run} \cup world.windows

LEMMA RowsStep == ASSUME TypeOK, PanesInv, ScanInv, [Next]_vars PROVE RowSteps
<1>1. ASSUME NEW c \in Command, Begins(c) \/ Carries(c) \/ Locally(c) PROVE RowSteps
  BY <1>1 DEF Begins, Carries, Locally, Bystanders, RowSteps
<1>2. ASSUME NEW by \in Maker, Reads(by) PROVE RowSteps
  BY <1>2 DEF Reads, RowSteps
<1>3. Lists => RowSteps
  BY DEF Lists, ScanInv, RowSteps
<1>4. Lands \/ Beside \/ UNCHANGED vars => RowSteps
  BY NoViewFields DEF Lands, Beside, vars, RowSteps
<1> QED
  BY <1>1, <1>2, <1>3, <1>4, EveryStep

LEMMA ScanInvStep == ASSUME TypeOK, PanesInv, ScanInv, [Next]_vars PROVE ScanInv'
<1>1. ASSUME NEW c \in Command, Begins(c) \/ Carries(c) \/ Locally(c) PROVE ScanInv'
  BY <1>1 DEF Begins, Carries, Locally, Bystanders, ScanInv
<1>2. ASSUME NEW by \in Maker, Reads(by) PROVE ScanInv'
  BY <1>2 DEF Reads, ScanInv
<1>3. Lists => ScanInv'
  BY DEF Lists, ScanInv
<1>4. Lands \/ Beside \/ UNCHANGED vars => ScanInv'
  BY NoViewFields DEF Lands, Beside, vars, ScanInv
<1> QED
  BY <1>1, <1>2, <1>3, <1>4, EveryStep

LEMMA RowInvStep ==
  ASSUME RowSteps, RowInv(view), RowInv(scan.got)
  PROVE  RowInv(view)' /\ RowInv(scan.got)'
BY NoViewFields DEF RowSteps, RowInv

LEMMA PanesStep ==
  ASSUME TypeOK, PanesInv, WorldStep, \A d \in Command : Keeps(d), RowSteps
  PROVE  PanesInv'
<1>1. /\ world.panes \in Nat /\ world'.panes \in Nat /\ world'.panes >= world.panes
      /\ \A y \in world'.windows : y.pane <= world'.panes
  BY SessionCommandsAssumption DEF TypeOK, WorldStep, NoPaneReturns, World
<1>2. ASSUME NEW w \in Window \cup {NoWindow}, w # NoWindow => w.pane <= world.panes
      PROVE  w # NoWindow => w.pane <= world'.panes
  <2>1. w # NoWindow => w.pane \in Nat
    BY SessionCommandsAssumption DEF Window
  <2> QED
    BY <1>1, <1>2, <2>1
<1>3. /\ view.run \in Window \cup {NoWindow} /\ scan.got.run \in Window \cup {NoWindow}
      /\ world.windows \subseteq Window
  BY DEF TypeOK, View, Scan, World
<1>4. /\ view.run # NoWindow => view.run.pane <= world'.panes
      /\ scan.got.run # NoWindow => scan.got.run.pane <= world'.panes
      /\ \A w \in world.windows : w # NoWindow => w.pane <= world'.panes
  BY <1>2, <1>3 DEF PanesInv, Numbered
<1>5. view'.run # NoWindow => view'.run.pane <= world'.panes
  BY <1>4 DEF RowSteps
<1>6. scan'.got.run # NoWindow => scan'.got.run.pane <= world'.panes
  BY <1>4, NoViewFields DEF RowSteps
<1>7. \A c \in Command : cmd'[c].pane # NoPane => cmd'[c].pane <= world'.panes
  BY DEF Keeps
<1> QED
  BY <1>1, <1>5, <1>6, <1>7 DEF PanesInv, Numbered

(* An agent keeps its home, for its launch keeps its window. *)
HomeNow(window) ==
  window # NoWindow /\ window.agent # NoAgent =>
    LET by == window.agent.by IN
    IF by = User THEN window.pane = 1
    ELSE cmd'[by].kind \in Launches /\ window.pane = cmd'[by].pane

LEMMA HomesStep ==
  ASSUME TypeOK, HomesInv, WorldStep, \A d \in Command : Keeps(d), RowSteps
  PROVE  HomesInv'
<1>1. \A w \in Window : /\ w.pane # NoPane /\ w # NoWindow
                        /\ w.agent # NoAgent => w.agent.by \in Command \cup {User}
  BY SessionCommandsAssumption DEF Window, Agent, Maker
<1>2. ASSUME NEW w \in Window \cup {NoWindow}, AtHome(w) PROVE HomeNow(w)
  <2>1. SUFFICES ASSUME w # NoWindow, w.agent # NoAgent, w.agent.by # User
                 PROVE  cmd'[w.agent.by].kind \in Launches /\ w.pane = cmd'[w.agent.by].pane
    BY <1>2 DEF AtHome, HomeNow
  <2>2. w.agent.by \in Command /\ w.pane # NoPane
    BY <1>1, <2>1
  <2>3. cmd[w.agent.by].kind \in Launches /\ w.pane = cmd[w.agent.by].pane
    BY <1>2, <2>1 DEF AtHome
  <2> QED
    BY <2>2, <2>3 DEF Keeps
<1>3. /\ view.run \in Window \cup {NoWindow} /\ scan.got.run \in Window \cup {NoWindow}
      /\ world.windows \subseteq Window /\ world'.windows \subseteq Window
      /\ \A c \in Command : cmd[c].saw.run \in Window \cup {NoWindow}
  BY DEF TypeOK, View, Scan, World, Handler, WorldStep
<1>4. /\ HomeNow(view.run) /\ HomeNow(scan.got.run) /\ HomeNow(NoView.run)
      /\ \A x \in world.windows : HomeNow(x)
      /\ \A c \in Command : HomeNow(cmd[c].saw.run)
  <2>1. AtHome(NoView.run)
    BY NoViewFields DEF AtHome
  <2> QED
    BY <1>2, <1>3, <2>1, NoViewFields DEF HomesInv
<1>5. ASSUME NEW y \in world'.windows PROVE HomeNow(y)
  <2>1. CASE y.agent = NoAgent
    BY <2>1 DEF HomeNow
  <2>2. CASE y.agent # NoAgent /\ AgentStays(world, y)
    <3>1. PICK x \in world.windows : x.agent # NoAgent /\ x.pane = y.pane /\ x.agent.by = y.agent.by
      BY <2>2 DEF AgentStays
    <3>2. HomeNow(x) /\ x # NoWindow
      BY <1>1, <1>3, <1>4
    <3> QED
      BY <3>1, <3>2 DEF HomeNow
  <2>3. CASE Launched(y)
    <3>1. y.agent.by \in Command /\ y.agent.by # User
      BY <2>3, SessionCommandsAssumption DEF Launched
    <3> QED
      BY <2>3, <3>1 DEF Launched, Keeps, HomeNow
  <2> QED
    BY <2>1, <2>2, <2>3 DEF WorldStep
<1>6. HomeNow(view'.run)
  BY <1>4 DEF RowSteps
<1>7. HomeNow(scan'.got.run)
  <2>1. CASE scan'.got = scan.got \/ scan'.got = NoView
    BY <1>4, <2>1
  <2>2. CASE scan'.got.run = NoWindow
    BY <2>2 DEF HomeNow
  <2>3. CASE scan'.got.run \in {scan.got.run} \cup world.windows
    BY <1>4, <2>3
  <2> QED
    BY <2>1, <2>2, <2>3 DEF RowSteps
<1>8. \A c \in Command : HomeNow(cmd'[c].saw.run)
  BY <1>4 DEF Keeps
<1> QED
  BY <1>5, <1>6, <1>7, <1>8 DEF HomesInv, AtHome, HomeNow

(* What a command has made it will not make again. *)
GoodNow(by) ==
  by # User => /\ cmd'[by].at \notin Early
               /\ \A call \in late' : call.do = "createWorktree" => call.by # by

LEMMA GoodKept ==
  ASSUME TypeOK, PanesInv, \A c \in Command : HandlerInv(c), WorldStep, [Next]_vars,
         NEW by \in Maker, MadeForGood(by)
  PROVE  GoodNow(by)
<1>1. SUFFICES ASSUME by # User PROVE GoodNow(by)
  BY DEF GoodNow
<1>2. /\ by \in Command /\ cmd[by].at \notin Early
      /\ \A call \in late : call.do = "createWorktree" => call.by # by
  BY <1>1 DEF MadeForGood, Maker, Early
<1>3. cmd'[by].at \notin Early
  BY <1>2, HandlersKeep DEF Keeps
<1>4. \A call \in late' : call.do = "createWorktree" => call.by # by
  <2>1. CASE late' \subseteq late
    BY <1>2, <2>1
  <2>2. ASSUME NEW c \in Command, NEW call \in Call, NEW ok, NEW failed,
               Doing(c, call, ok, failed), late' = late \cup {call}
        PROVE  \A x \in late' : x.do = "createWorktree" => x.by # by
    <3>1. call.do = "createWorktree" => call.by # by
      BY <1>2, <2>2 DEF Doing, At, Early
    <3> QED
      BY <1>2, <2>2, <3>1
  <2> QED
    BY <2>1, <2>2, LateSteps
<1> QED
  BY <1>3, <1>4 DEF GoodNow

LEMMA GoodMade ==
  ASSUME TypeOK, PanesInv, LateInv, \A c \in Command : HandlerInv(c), WorldStep, [Next]_vars,
         NEW m \in Command, Creates(m)
  PROVE  GoodNow(m)
<1>1. \A call \in late : call.by \in Command
  BY DEF TypeOK, Call
<1>2. CASE /\ At(m, "createWorktree") /\ cmd'[m].at \notin {"waiting", "createWorktree"}
           /\ late' = late
  <2>1. ~cmd[m].spoilt
    BY <1>2 DEF HandlerInv, At, GoingBack
  <2> QED
    BY <1>1, <1>2, <2>1 DEF GoodNow, Early, LateInv
<1>3. ASSUME NEW call \in late, call.by = m, call.do = "createWorktree", late' = late \ {call}
      PROVE  GoodNow(m)
  <2>1. cmd[m].spoilt
    BY <1>3 DEF LateInv
  <2>2. cmd[m].at \notin Early
    BY <2>1 DEF HandlerInv, GoingBack, Early
  <2>3. cmd'[m].at \notin Early
    BY <2>2, HandlersKeep DEF Keeps
  <2>4. \A x \in late' : x.do = "createWorktree" => x.by # m
    BY <1>3 DEF LateInv
  <2> QED
    BY <2>3, <2>4 DEF GoodNow
<1> QED
  BY <1>2, <1>3 DEF Creates

LEMMA MadeOnceStep ==
  ASSUME TypeOK, PanesInv, LateInv, MadeOnce, \A c \in Command : HandlerInv(c),
         WorldStep, \A d \in Command : Keeps(d), RowSteps, [Next]_vars
  PROVE  MadeOnce'
<1> DEFINE good(worktree) == worktree # NoWorktree => GoodNow(worktree.by)
<1>1. ASSUME NEW worktree \in Worktree \cup {NoWorktree},
             worktree # NoWorktree => MadeForGood(worktree.by)
      PROVE  good(worktree)
  <2>1. worktree # NoWorktree => worktree.by \in Maker
    BY DEF Worktree
  <2> QED
    BY <1>1, <2>1, GoodKept
<1>2. /\ world.worktree \in Worktree \cup {NoWorktree} /\ view.worktree \in Worktree \cup {NoWorktree}
      /\ scan.got.worktree \in Worktree \cup {NoWorktree}
      /\ \A c \in Command : cmd[c].saw.worktree \in Worktree \cup {NoWorktree}
  BY DEF TypeOK, World, View, Scan, Handler
<1>3. /\ good(world.worktree) /\ good(view.worktree) /\ good(scan.got.worktree)
      /\ \A c \in Command : good(cmd[c].saw.worktree)
  BY <1>1, <1>2 DEF MadeOnce
<1>4. good(NoWorktree)
  OBVIOUS
<1>5. good(world'.worktree)
  <2>1. CASE WorktreeStays(world, world')
    BY <1>3, <2>1 DEF WorktreeStays
  <2>2. CASE world'.worktree.by \in Command /\ Creates(world'.worktree.by)
    BY <2>2, GoodMade
  <2> QED
    BY <2>1, <2>2 DEF WorldStep
<1>6. good(view'.worktree)
  BY <1>3 DEF RowSteps
<1>7. good(scan'.got.worktree)
  <2>1. scan'.got.worktree \in {scan.got.worktree, NoWorktree, world.worktree}
    BY NoViewFields DEF RowSteps
  <2> QED
    BY <1>3, <1>4, <2>1
<1>8. \A c \in Command : good(cmd'[c].saw.worktree)
  <2>1. \A c \in Command : cmd'[c].saw.worktree \in {cmd[c].saw.worktree, view.worktree, NoWorktree}
    BY NoViewFields DEF Keeps
  <2> QED
    BY <1>3, <1>4, <2>1
<1>9. /\ \A c \in Command : cmd'[c].saw.worktree # NoWorktree => GoodNow(cmd'[c].saw.worktree.by)
      /\ world'.worktree # NoWorktree => GoodNow(world'.worktree.by)
      /\ view'.worktree # NoWorktree => GoodNow(view'.worktree.by)
      /\ scan'.got.worktree # NoWorktree => GoodNow(scan'.got.worktree.by)
  BY <1>5, <1>6, <1>7, <1>8
<1> HIDE DEF good
<1> QED
  BY <1>9 DEF MadeOnce, MadeForGood, GoodNow, Early

-----------------------------------------------------------------------------
(* What a handler keeps from its start. *)

LEMMA KindIsOne ==
  ASSUME NEW h \in Handler
  PROVE  \/ h.kind \in Launches /\ h.kind \notin Cleanups /\ ~Closes(h.kind) /\ ~Removes(h.kind)
         \/ h.kind \in Cleanups /\ h.kind \notin Launches
BY DEF Handler, Launches, Cleanups, OfSession, Closes, Removes

LEMMA HandlerInvBegins ==
  ASSUME TypeOK, RowInv(view), NEW d \in Command, HandlerInv(d), Begins(d)
  PROVE  HandlerInv(d)'
<1>0. cmd[d] \in Handler /\ cmd'[d].kind = cmd[d].kind /\ cmd'[d].force = cmd[d].force
      /\ cmd'[d].created = cmd[d].created /\ cmd'[d].saw = Seen(d)
  BY DEF TypeOK, Begins
<1>1. ~cmd'[d].spoilt
  BY DEF Begins, HandlerInv, At, GoingBack
<1>2. cmd'[d].at \in {"failed", FirstStep(d)}
  BY DEF Begins
<1>3. ASSUME cmd[d].kind \in Launches
      PROVE  /\ cmd'[d].at \in {"createWorktree", "seed", "failed"}
             /\ cmd'[d].at = "createWorktree" => cmd[d].kind = "create"
             /\ ~cmd[d].created /\ cmd'[d].pane = NoPane
             /\ ~cmd[d].force /\ cmd'[d].session = OwnSession(d, cmd[d].kind)
  <2>1. cmd'[d].at \in {"createWorktree", "seed", "failed"}
        /\ (cmd'[d].at = "createWorktree" => cmd[d].kind = "create")
    BY <1>2, <1>3 DEF FirstStep, Launches
  <2>2. cmd'[d].pane = NoPane /\ cmd'[d].session = cmd[d].session
    BY <1>0, <1>3, KindIsOne DEF Begins, SeenPane, SessionNow
  <2> QED
    BY <1>3, <2>1, <2>2 DEF HandlerInv, Begins, At
<1>4. ASSUME cmd[d].kind \in Cleanups
      PROVE  /\ cmd'[d].at \in {"stop", "resolve", "remove", "reconcile", "failed"}
             /\ ~cmd[d].created
  BY <1>0, <1>2, <1>4, KindIsOne DEF FirstStep, AfterStop, AfterClose, HandlerInv, Launches
<1>6. cmd'[d].at # "failed" /\ Removes(cmd[d].kind) => Seen(d).worktree # NoWorktree
  <2>1. Removes(cmd[d].kind) => cmd[d].kind \in Cleanups /\ cmd[d].kind # "create"
    BY DEF Removes, Cleanups, OfSession
  <2>2. cmd'[d].at # "failed" /\ Removes(cmd[d].kind) => CleanupAllowed(d)
    BY <1>0, <2>1, KindIsOne DEF Begins
  <2>3. CleanupAllowed(d) /\ Removes(cmd[d].kind) => view.worktree # NoWorktree
    BY DEF CleanupAllowed, Removes, ShownAgent, RowInv
  <2> QED
    BY <2>1, <2>2, <2>3 DEF Seen
<1>7. /\ cmd[d].kind \in Launches =>
           /\ cmd'[d].at \in LaunchSteps
           /\ ~cmd'[d].force /\ cmd'[d].session = OwnSession(d, cmd'[d].kind)
           /\ cmd'[d].at = "createWorktree" \/ cmd'[d].created => cmd'[d].kind = "create"
           /\ cmd'[d].at \in {"waiting", "createWorktree"} => ~cmd'[d].created
           /\ cmd'[d].at \in {"waiting", "createWorktree", "seed", "open"} => cmd'[d].pane = NoPane
           /\ cmd'[d].at \notin {"launch", "unseed", "uncreate"}
      /\ cmd[d].kind \in Cleanups => cmd'[d].at \in CleanupSteps /\ ~cmd'[d].created
      /\ cmd'[d].at # "waiting"
  BY <1>0, <1>3, <1>4, KindIsOne DEF LaunchSteps, CleanupSteps
<1> QED
  BY <1>0, <1>1, <1>6, <1>7 DEF HandlerInv, At

LEMMA HandlerInvCarries ==
  ASSUME TypeOK, PanesInv, NEW d \in Command, HandlerInv(d), Carries(d)
  PROVE  HandlerInv(d)'
<1>0. cmd[d] \in Handler /\ Moves(d)
  BY DEF TypeOK, Carries
<1>1. PICK call \in Call, ok \in Steps, failed \in Steps :
         Doing(d, call, ok, failed) /\ (WentOn(d, call, ok) \/ WentBack(d, call, failed))
  BY DEF Carries
<1>2. \/ /\ cmd'[d].at = ok /\ cmd'[d].spoilt = cmd[d].spoilt
         /\ cmd'[d].created <=> cmd[d].created \/ call.do = "createWorktree"
         /\ cmd'[d].pane = cmd[d].pane \/ At(d, "createWorktree") \/ At(d, "open")
         /\ At(d, "createWorktree") => cmd'[d].pane = NoPane
         /\ At(d, "open") => cmd'[d].pane # NoPane
      \/ /\ cmd'[d].at = failed /\ cmd'[d].created = cmd[d].created
         /\ cmd'[d].pane = cmd[d].pane
  <2>1. CASE WentBack(d, call, failed)
    BY <2>1 DEF WentBack
  <2>2. CASE WentOn(d, call, ok)
    <3>1. PICK o : Effect(call, world, o) /\ world' = o.world /\ cmd'[d].pane = o.pane
      BY <2>2 DEF WentOn
    <3>2. o.world.panes \in Nat
      BY <3>1, SessionCommandsAssumption DEF Effect, World
    <3>3. /\ call.do = "createWorktree" => o.pane = NoPane
          /\ call.do = "open" => o.pane # NoPane
          /\ call.do \notin {"createWorktree", "open"} => o.pane = call.pane
      BY <3>1, <3>2, SessionCommandsAssumption DEF Effect
    <3> QED
      BY <1>1, <2>2, <3>1, <3>3 DEF WentOn, Doing, At
  <2> QED
    BY <1>1, <2>1, <2>2
<1>3. cmd'[d].at \in {ok, failed}
  BY <1>2
<1>4. ASSUME cmd[d].kind \in Launches
      PROVE  /\ cmd'[d].at \in LaunchSteps \ {"waiting", "createWorktree"}
             /\ cmd'[d].created => cmd[d].kind = "create"
             /\ cmd'[d].at \in {"seed", "open"} => cmd'[d].pane = NoPane
             /\ cmd'[d].at = "launch" => cmd'[d].pane # NoPane
             /\ cmd'[d].at = "unseed" => cmd[d].kind # "resume"
             /\ cmd'[d].at # "uncreate"
  BY <1>1, <1>2, <1>4 DEF HandlerInv, At, Doing, LaunchSteps, UndoSeed
<1>5. ASSUME cmd[d].kind \in Cleanups
      PROVE  cmd'[d].at \in CleanupSteps \ {"waiting"} /\ ~cmd'[d].created
  BY <1>1, <1>2, <1>5 DEF HandlerInv, At, Doing, CleanupSteps, AfterStop, AfterClose
<1>6. cmd'[d].spoilt => cmd'[d].at \in GoingBack
  BY <1>1, <1>2 DEF HandlerInv, At, Doing, GoingBack, UndoSeed
<1>7. cmd[d].at \notin {"waiting", "failed"}
  BY <1>1 DEF Doing, At
<1>8. Removes(cmd'[d].kind) => cmd'[d].saw.worktree # NoWorktree
  BY <1>0, <1>7 DEF HandlerInv, At, Moves
<1>9. /\ cmd'[d].kind = cmd[d].kind /\ cmd'[d].force = cmd[d].force
      /\ cmd'[d].session = cmd[d].session
  BY <1>0 DEF Moves
<1>10. cmd[d].kind \in Launches => ~cmd'[d].force /\ cmd'[d].session = OwnSession(d, cmd'[d].kind)
  BY <1>9 DEF HandlerInv
<1> QED
  BY <1>0, <1>4, <1>5, <1>6, <1>8, <1>9, <1>10, KindIsOne DEF HandlerInv, At, LaunchSteps, CleanupSteps

LEMMA HandlerInvLocally ==
  ASSUME TypeOK, NEW d \in Command, HandlerInv(d), Locally(d)
  PROVE  HandlerInv(d)'
<1>0. cmd[d] \in Handler /\ Moves(d) /\ cmd'[d].created = cmd[d].created
  BY DEF TypeOK, Locally
<1>1. /\ cmd'[d].kind = cmd[d].kind /\ cmd'[d].force = cmd[d].force
      /\ cmd'[d].session = cmd[d].session /\ cmd'[d].saw = cmd[d].saw
  BY <1>0 DEF Moves
<1>2. cmd[d].at \notin {"waiting", "failed"}
  BY DEF Locally, At, Ended
<1>3. ASSUME cmd[d].kind \in Launches
      PROVE  /\ cmd'[d].at \in LaunchSteps \ {"waiting"}
             /\ cmd'[d].at = "createWorktree" => cmd[d].kind = "create" /\ ~cmd[d].created
             /\ cmd'[d].at \in {"createWorktree", "seed", "open"} => cmd'[d].pane = NoPane
             /\ cmd'[d].at = "launch" => cmd'[d].pane # NoPane
             /\ cmd'[d].at = "unseed" => cmd[d].kind # "resume"
             /\ cmd'[d].at = "uncreate" => cmd[d].created
  BY <1>3 DEF HandlerInv, Locally, Goes, SpoiltTo, At, LaunchSteps, UndoSeed, UndoWorktree, Ended
<1>4. ASSUME cmd[d].kind \in Cleanups
      PROVE  cmd'[d].at \in CleanupSteps \ {"waiting"}
  BY <1>4 DEF HandlerInv, Locally, Goes, SpoiltTo, At, CleanupSteps, AfterStop, AfterClose, Ended
<1>5. cmd'[d].spoilt => cmd'[d].at \in GoingBack
  BY DEF HandlerInv, Locally, Goes, SpoiltTo, At, GoingBack, UndoSeed, UndoWorktree
<1>6. Removes(cmd'[d].kind) => cmd'[d].saw.worktree # NoWorktree
  BY <1>1, <1>2 DEF HandlerInv, At
<1>7. /\ cmd[d].kind \in Launches => /\ ~cmd'[d].force
                                     /\ cmd'[d].session = OwnSession(d, cmd'[d].kind)
                                     /\ cmd'[d].created => cmd'[d].kind = "create"
      /\ cmd[d].kind \in Cleanups => ~cmd'[d].created
  BY <1>0, <1>1 DEF HandlerInv
<1> QED
  BY <1>0, <1>1, <1>3, <1>4, <1>5, <1>6, <1>7, KindIsOne DEF HandlerInv, At, LaunchSteps, CleanupSteps

LEMMA HandlerInvLands ==
  ASSUME TypeOK, NEW d \in Command, HandlerInv(d), ShownInv(d), Lands
  PROVE  HandlerInv(d)'
<1>1. CASE cmd'[d] = cmd[d]
  BY <1>1 DEF HandlerInv, At
<1>2. CASE d = scan.for
  <2>1. At(d, "reconcile")
    BY <1>2 DEF ShownInv
  <2>2. /\ cmd'[d].kind = cmd[d].kind /\ cmd'[d].force = cmd[d].force
        /\ cmd'[d].session = cmd[d].session /\ cmd'[d].saw = cmd[d].saw
        /\ cmd'[d].created = cmd[d].created /\ cmd'[d].pane = cmd[d].pane
    BY DEF Lands
  <2>3. \/ cmd'[d].at = "announce" /\ cmd'[d].spoilt = cmd[d].spoilt
        \/ cmd'[d].at = "failed" /\ cmd'[d].spoilt
    BY <1>2 DEF Lands
  <2> QED
    BY <2>1, <2>2, <2>3 DEF HandlerInv, At, LaunchSteps, CleanupSteps, GoingBack
<1> QED
  BY <1>1, <1>2 DEF Lands

LEMMA HandlerInvStep ==
  ASSUME TypeOK, PanesInv, RowInv(view), [Next]_vars,
         NEW d \in Command, HandlerInv(d), ShownInv(d)
  PROVE  HandlerInv(d)'
<1>1. CASE cmd'[d] = cmd[d]
  BY <1>1 DEF HandlerInv, At
<1>2. ASSUME NEW c \in Command \ {d}, Begins(c) \/ Carries(c) \/ Locally(c) PROVE cmd'[d] = cmd[d]
  BY <1>2 DEF Begins, Carries, Locally, Moves
<1>3. (\E by \in Maker : Reads(by)) \/ Lists \/ Beside \/ UNCHANGED vars => cmd'[d] = cmd[d]
  BY DEF Reads, Lists, Beside, vars
<1> QED
  BY <1>1, <1>2, <1>3, EveryStep, HandlerInvBegins, HandlerInvCarries, HandlerInvLocally, HandlerInvLands

-----------------------------------------------------------------------------
(* What a launch takes back. *)

LEMMA NoWindowThere == ASSUME NEW w \in World PROVE WindowOf(w, NoPane) = {}
BY SessionCommandsAssumption DEF WindowOf, World, Window

LEMMA GonePane ==
  ASSUME TypeOK, PanesInv, WorldStep, NEW d \in Command, WindowOf(world, cmd[d].pane) = {}
  PROVE  WindowOf(world', cmd[d].pane) = {}
<1>1. cmd[d].pane = NoPane => WindowOf(world', cmd[d].pane) = {}
  BY NoWindowThere DEF WorldStep
<1>2. cmd[d].pane # NoPane => cmd[d].pane \in 1..world.panes
  BY SessionCommandsAssumption DEF TypeOK, Handler, World, PanesInv
<1> QED
  BY <1>1, <1>2 DEF WorldStep, NoPaneReturns

(* A window that is there now was there before. *)
LEMMA PaneWasThere ==
  ASSUME TypeOK, PanesInv, WorldStep, NEW d \in Command, cmd'[d].pane = cmd[d].pane,
         WindowOf(world', cmd'[d].pane) # {}
  PROVE  WindowOf(world, cmd[d].pane) # {}
BY GonePane

(* A worktree of d that is there now was there before, unless d makes it. *)
LEMMA NotMadeNow ==
  ASSUME TypeOK, LateInv, WorldStep, NEW d \in Command, ~At(d, "createWorktree"), ~cmd[d].spoilt,
         world'.worktree # NoWorktree, world'.worktree.by = d
  PROVE  world.worktree # NoWorktree /\ world.worktree.by = d
<1>1. ~Creates(d)
  BY DEF Creates, LateInv
<1>2. Creates(world'.worktree.by) => Creates(d)
  BY DEF Creates
<1> QED
  BY <1>1, <1>2 DEF WorldStep, WorktreeStays

LEMMA SeedsKept ==
  ASSUME TypeOK, PanesInv, \A c \in Command : HandlerInv(c), [Next]_vars, NEW d \in Command,
         d \notin seeds
  PROVE  d \notin seeds' \/ (At(d, "seed") /\ cmd'[d].at = "open")
<1>1. ASSUME NEW c \in Command, Locally(c), d \in seeds'
      PROVE  At(d, "seed") /\ cmd'[d].at = "open"
  <2>1. At(c, "seed") /\ cmd'[c].at = "open" /\ d = cmd[c].session
    BY <1>1 DEF Locally, Goes
  <2>2. cmd[c].kind \in Launches
    BY <2>1 DEF TypeOK, Handler, HandlerInv, At, CleanupSteps
  <2>3. d = c
    BY <2>1, <2>2, SessionCommandsAssumption DEF HandlerInv, OwnSession
  <2> QED
    BY <2>1, <2>3
<1>2. (\E c \in Command : Begins(c) \/ Carries(c)) \/ (\E by \in Maker : Reads(by))
      \/ Lists \/ Lands \/ Beside \/ UNCHANGED vars => seeds' = seeds
  BY DEF Begins, Carries, Bystanders, Reads, Lists, Lands, Beside, vars
<1> QED
  BY <1>1, <1>2, EveryStep

(* A handler that stands still, while the world goes on. *)
LEMMA RollbackStays ==
  ASSUME TypeOK, PanesInv, LateInv, \A c \in Command : HandlerInv(c), WorldStep, [Next]_vars,
         NEW d \in Command, RollbackInv(d),
         cmd'[d].kind = cmd[d].kind, cmd'[d].session = cmd[d].session,
         cmd'[d].at = cmd[d].at, cmd'[d].pane = cmd[d].pane,
         cmd'[d].created = cmd[d].created, cmd[d].spoilt => cmd'[d].spoilt
  PROVE  RollbackInv(d)'
<1>1. SUFFICES ASSUME cmd[d].kind \in Launches, ~cmd'[d].spoilt
               PROVE  /\ cmd'[d].at \in {"unseed", "uncreate", "failed"}
                           => WindowOf(world', cmd'[d].pane) = {}
                      /\ cmd'[d].kind # "resume"
                           /\ cmd'[d].at \in {"waiting", "createWorktree", "seed", "uncreate", "failed"}
                           => cmd'[d].session \notin seeds'
                      /\ cmd'[d].at = "failed" /\ cmd'[d].created /\ world'.worktree # NoWorktree
                           => world'.worktree.by # d
  BY DEF RollbackInv, At
<1>2. cmd[d].at \in {"unseed", "uncreate", "failed"} => WindowOf(world', cmd'[d].pane) = {}
  BY <1>1, GonePane DEF RollbackInv
<1>3. cmd[d].kind # "resume" => cmd[d].session = d
  BY <1>1 DEF HandlerInv, OwnSession
<1>4. cmd[d].kind # "resume" /\ cmd[d].at \in {"waiting", "createWorktree", "seed", "uncreate", "failed"}
        => cmd'[d].session \notin seeds'
  BY <1>1, <1>3, SeedsKept DEF RollbackInv, At
<1>5. cmd[d].at = "failed" /\ cmd[d].created /\ world'.worktree # NoWorktree => world'.worktree.by # d
  BY <1>1, NotMadeNow DEF RollbackInv, At
<1> QED
  BY <1>2, <1>4, <1>5

LEMMA RollbackBegins ==
  ASSUME TypeOK, PanesInv, WorldStep, NEW d \in Command, HandlerInv(d), RollbackInv(d), Begins(d)
  PROVE  RollbackInv(d)'
<1>0. /\ cmd[d] \in Handler /\ cmd'[d].kind = cmd[d].kind /\ cmd'[d].created = cmd[d].created
      /\ cmd'[d].spoilt = cmd[d].spoilt /\ seeds' = seeds /\ At(d, "waiting")
  BY DEF TypeOK, Begins
<1>1. SUFFICES ASSUME cmd[d].kind \in Launches, ~cmd[d].spoilt PROVE RollbackInv(d)'
  BY <1>0 DEF RollbackInv
<1>2. cmd'[d].pane = NoPane /\ cmd'[d].session = cmd[d].session /\ ~cmd'[d].created
  BY <1>0, <1>1, KindIsOne DEF Begins, SeenPane, SessionNow, HandlerInv, At
<1>3. WindowOf(world', cmd'[d].pane) = {}
  BY <1>2, NoWindowThere DEF WorldStep
<1>4. cmd[d].kind # "resume" => cmd'[d].session \notin seeds'
  BY <1>0, <1>1, <1>2 DEF RollbackInv, At
<1> QED
  BY <1>0, <1>2, <1>3, <1>4 DEF RollbackInv, At

LEMMA RollbackCarries ==
  ASSUME TypeOK, PanesInv, LateInv, WorldStep, NEW d \in Command,
         HandlerInv(d), RollbackInv(d), Carries(d)
  PROVE  RollbackInv(d)'
<1>0. cmd[d] \in Handler /\ Moves(d) /\ seeds' = seeds
  BY DEF TypeOK, Carries, Bystanders
<1>1. SUFFICES ASSUME cmd[d].kind \in Launches, ~cmd'[d].spoilt PROVE RollbackInv(d)'
  BY <1>0 DEF RollbackInv, Moves
<1>2. PICK call \in Call, ok \in Steps, failed \in Steps :
         Doing(d, call, ok, failed) /\ (WentOn(d, call, ok) \/ WentBack(d, call, failed))
  BY DEF Carries
<1>3. /\ ~cmd[d].spoilt /\ cmd'[d].at \in {ok, failed}
      /\ cmd'[d].kind = cmd[d].kind /\ cmd'[d].session = cmd[d].session
  BY <1>0, <1>1, <1>2 DEF WentOn, WentBack, Moves
<1>4. cmd[d].at \in {"createWorktree", "open", "launch", "closeOpened", "uncreate"}
  BY <1>1, <1>2 DEF Doing, HandlerInv, LaunchSteps, At
<1>5. cmd'[d].at \in {"unseed", "uncreate", "failed"} => WindowOf(world', cmd'[d].pane) = {}
  <2>1. CASE At(d, "createWorktree") \/ At(d, "open")
    <3>1. cmd'[d].at \in {"unseed", "uncreate", "failed"} => cmd'[d].pane = NoPane
      BY <1>1, <1>2, <2>1 DEF Doing, WentOn, WentBack, HandlerInv, At
    <3> QED
      BY <3>1, NoWindowThere DEF WorldStep
  <2>2. CASE At(d, "launch")
    BY <1>2, <2>2 DEF Doing, WentOn, WentBack, At
  <2>3. CASE At(d, "closeOpened")
    <3>1. call.do = "close" /\ call.pane = cmd[d].pane
      BY <1>2, <2>3 DEF Doing, At
    <3>2. CASE WentOn(d, call, ok)
      BY <3>1, <3>2 DEF WentOn, Effect
    <3>3. CASE WentBack(d, call, failed)
      <4>1. world' = world /\ ~Possible(call, world) /\ cmd'[d].pane = cmd[d].pane
        BY <1>1, <2>3, <3>3 DEF WentBack, RollsBack, At
      <4> QED
        BY <3>1, <4>1 DEF Possible
    <3> QED
      BY <1>2, <3>2, <3>3
  <2>4. CASE At(d, "uncreate")
    <3>1. WindowOf(world, cmd[d].pane) = {}
      BY <1>1, <1>3, <2>4 DEF RollbackInv, At
    <3>2. cmd'[d].pane = cmd[d].pane
      <4>1. call.do = "remove" /\ call.pane = cmd[d].pane
        BY <1>2, <2>4 DEF Doing, At
      <4> QED
        BY <1>2, <4>1 DEF WentOn, WentBack, Effect
    <3> QED
      BY <3>1, <3>2, GonePane
  <2> QED
    BY <1>4, <2>1, <2>2, <2>3, <2>4 DEF At
<1>6. cmd[d].kind # "resume"
        /\ cmd'[d].at \in {"waiting", "createWorktree", "seed", "uncreate", "failed"}
        => cmd'[d].session \notin seeds'
  <2>1. cmd[d].kind # "resume"
          /\ cmd'[d].at \in {"waiting", "createWorktree", "seed", "uncreate", "failed"}
          => cmd[d].at \in {"createWorktree", "uncreate"}
    BY <1>2, <1>3, <1>4 DEF Doing, At, UndoSeed
  <2> QED
    BY <1>0, <1>1, <1>3, <2>1 DEF RollbackInv
<1>7. cmd'[d].at = "failed" /\ cmd'[d].created /\ world'.worktree # NoWorktree
        => world'.worktree.by # d
  <2>1. SUFFICES ASSUME cmd'[d].at = "failed", cmd'[d].created PROVE world'.worktree = NoWorktree
    OBVIOUS
  <2>2. cmd[d].at \in {"createWorktree", "uncreate"} \/ cmd[d].kind = "resume"
    BY <1>2, <1>3, <1>4, <2>1 DEF Doing, At, UndoSeed
  <2>3. ~At(d, "createWorktree")
    BY <1>1, <1>2, <2>1 DEF Doing, At, WentOn, WentBack, HandlerInv
  <2>4. cmd[d].created
    BY <1>2, <2>1, <2>3 DEF Doing, WentOn, WentBack, At
  <2>5. At(d, "uncreate")
    BY <1>1, <2>2, <2>3, <2>4 DEF HandlerInv, At
  <2>6. call.do = "remove" /\ call.force
    BY <1>2, <2>5 DEF Doing, At
  <2>7. CASE WentOn(d, call, ok)
    BY <2>6, <2>7 DEF WentOn, Effect
  <2>8. CASE WentBack(d, call, failed)
    <3>1. world' = world /\ ~Possible(call, world)
      BY <1>1, <2>5, <2>8 DEF WentBack, RollsBack, At
    <3> QED
      BY <2>6, <3>1 DEF Possible
  <2> QED
    BY <1>2, <2>7, <2>8
<1> QED
  BY <1>3, <1>5, <1>6, <1>7 DEF RollbackInv, At

LEMMA RollbackLocally ==
  ASSUME TypeOK, PanesInv, LateInv, \A c \in Command : HandlerInv(c), WorldStep, [Next]_vars,
         NEW d \in Command, RollbackInv(d), Locally(d)
  PROVE  RollbackInv(d)'
<1>0. /\ cmd[d] \in Handler /\ Moves(d) /\ world' = world /\ cmd'[d].created = cmd[d].created
      /\ HandlerInv(d)
  BY DEF TypeOK, Locally
<1>1. SUFFICES ASSUME cmd[d].kind \in Launches, ~cmd'[d].spoilt PROVE RollbackInv(d)'
  BY <1>0 DEF RollbackInv, Moves
<1>2. /\ cmd'[d].kind = cmd[d].kind /\ cmd'[d].session = cmd[d].session
      /\ cmd[d].at \in LaunchSteps
  BY <1>0, <1>1 DEF Moves, HandlerInv
<1>3. cmd[d].kind # "resume" => cmd[d].session = d
  BY <1>0, <1>1 DEF HandlerInv, OwnSession
<1>4. ~cmd[d].spoilt /\ cmd'[d].pane = cmd[d].pane
  BY <1>1, <1>2 DEF Locally, Goes, SpoiltTo, At, LaunchSteps
<1>5. CASE cmd'[d].at = cmd[d].at
  BY <1>0, <1>1, <1>2, <1>4, <1>5, RollbackStays
<1>6. CASE At(d, "seed") /\ cmd'[d].at = "open"
  BY <1>6 DEF RollbackInv, At
<1>7. CASE At(d, "seed") /\ Goes(d, UndoWorktree(d)) /\ seeds' = seeds
  <2>1. cmd'[d].pane = NoPane
    BY <1>0, <1>1, <1>4, <1>7 DEF HandlerInv, At
  <2>2. WindowOf(world', cmd'[d].pane) = {}
    BY <2>1, NoWindowThere DEF WorldStep
  <2>3. cmd[d].kind # "resume" => cmd'[d].session \notin seeds'
    BY <1>1, <1>2, <1>4, <1>7 DEF RollbackInv, At
  <2>4. cmd'[d].at = "failed" => ~cmd'[d].created
    BY <1>0, <1>7 DEF Goes, UndoWorktree
  <2> QED
    BY <1>2, <2>2, <2>3, <2>4 DEF RollbackInv, At
<1>8. CASE At(d, "focus") /\ Goes(d, "reconcile")
  BY <1>8 DEF RollbackInv, At, Goes
<1>9. CASE At(d, "unseed") /\ Goes(d, UndoWorktree(d)) /\ seeds' = seeds \ {cmd[d].session}
  <2>1. WindowOf(world', cmd'[d].pane) = {}
    BY <1>0, <1>1, <1>4, <1>9 DEF RollbackInv, At
  <2>2. cmd'[d].session \notin seeds'
    BY <1>2, <1>9
  <2>3. cmd'[d].at = "failed" => ~cmd'[d].created
    BY <1>0, <1>9 DEF Goes, UndoWorktree
  <2> QED
    BY <2>1, <2>2, <2>3 DEF RollbackInv, At
<1>10. CASE At(d, "announce") /\ Goes(d, "done")
  BY <1>10 DEF RollbackInv, At, Goes
<1> QED
  BY <1>1, <1>2, <1>5, <1>6, <1>7, <1>8, <1>9, <1>10
     DEF Locally, Goes, SpoiltTo, At, LaunchSteps

LEMMA RollbackStep ==
  ASSUME TypeOK, PanesInv, LateInv, \A c \in Command : HandlerInv(c), WorldStep, [Next]_vars,
         NEW d \in Command, RollbackInv(d), ShownInv(d)
  PROVE  RollbackInv(d)'
<1>1. CASE cmd'[d] = cmd[d]
  BY <1>1, RollbackStays
<1>2. CASE Lands /\ d = scan.for
  <2>1. \/ cmd'[d].at = "announce"
        \/ cmd'[d].spoilt
    BY <1>2 DEF Lands
  <2> QED
    BY <2>1 DEF RollbackInv, At
<1>3. Lands => d = scan.for \/ cmd'[d] = cmd[d]
  BY DEF Lands
<1>4. ASSUME NEW c \in Command \ {d}, Begins(c) \/ Carries(c) \/ Locally(c) PROVE cmd'[d] = cmd[d]
  BY <1>4 DEF Begins, Carries, Locally, Moves
<1>5. (\E by \in Maker : Reads(by)) \/ Lists \/ Beside \/ UNCHANGED vars => cmd'[d] = cmd[d]
  BY DEF Reads, Lists, Beside, vars
<1> QED
  BY <1>1, <1>2, <1>3, <1>4, <1>5, EveryStep, RollbackBegins, RollbackCarries, RollbackLocally

-----------------------------------------------------------------------------
(* What a cleanup has closed. *)

LEMMA CloseStays ==
  ASSUME TypeOK, PanesInv, WorldStep, NEW d \in Command, CloseInv(d),
         cmd'[d].kind = cmd[d].kind, cmd'[d].saw = cmd[d].saw, cmd'[d].pane = cmd[d].pane,
         cmd'[d].at \in {"remove"} \cup Succeeding => cmd[d].at \in {"remove"} \cup Succeeding
  PROVE  CloseInv(d)'
BY GonePane DEF CloseInv

LEMMA CloseStep ==
  ASSUME TypeOK, PanesInv, \A c \in Command : HandlerInv(c), WorldStep, [Next]_vars,
         NEW d \in Command, CloseInv(d), ShownInv(d)
  PROVE  CloseInv(d)'
<1>0. cmd[d] \in Handler /\ HandlerInv(d)
  BY DEF TypeOK
<1>1. CASE cmd'[d] = cmd[d]
  BY <1>1, CloseStays
<1>2. CASE Begins(d)
  <2>1. SUFFICES ASSUME Closes(cmd[d].kind), cmd'[d].saw.terminal # "none"
                 PROVE  cmd'[d].at \notin {"remove"} \cup Succeeding
    BY <1>2 DEF CloseInv, Begins
  <2>2. cmd[d].kind \in Cleanups /\ cmd[d].kind \notin Launches /\ cmd[d].kind # "create"
    BY <1>0, <2>1, KindIsOne DEF Closes, Launches
  <2>3. view.terminal # "none"
    BY <1>2, <2>1, <2>2 DEF Begins, Seen
  <2>4. cmd'[d].at \in {"resolve", "stop", "failed"}
    BY <1>2, <2>1, <2>2, <2>3 DEF Begins, FirstStep, AfterStop, Launches
  <2> QED
    BY <2>4 DEF Succeeding, Shown
<1>3. CASE Carries(d)
  <2>1. PICK call \in Call, ok \in Steps, failed \in Steps :
           Doing(d, call, ok, failed) /\ (WentOn(d, call, ok) \/ WentBack(d, call, failed))
    BY <1>3 DEF Carries
  <2>2. SUFFICES ASSUME Closes(cmd[d].kind), cmd[d].saw.terminal # "none",
                        cmd'[d].at \in {"remove"} \cup Succeeding
                 PROVE  WindowOf(world', cmd'[d].pane) = {}
    BY <1>3 DEF CloseInv, Carries, Moves
  <2>3. cmd[d].at \in {"stop", "close", "remove"}
    BY <1>0, <2>1, <2>2, KindIsOne DEF HandlerInv, Closes, Doing, CleanupSteps, At
  <2>4. WentOn(d, call, ok)
    BY <2>1, <2>2, <2>3 DEF Doing, WentBack, Succeeding, Shown, At
  <2>5. ~At(d, "stop")
    BY <2>1, <2>2, <2>4 DEF Doing, WentOn, AfterStop, Succeeding, Shown, At
  <2>6. CASE At(d, "close")
    BY <2>1, <2>4, <2>6 DEF Doing, WentOn, Effect, At
  <2>7. CASE At(d, "remove")
    <3>1. cmd'[d].pane = cmd[d].pane
      BY <2>1, <2>4, <2>7 DEF Doing, WentOn, Effect, At
    <3>2. WindowOf(world, cmd[d].pane) = {}
      BY <2>2, <2>7 DEF CloseInv, At
    <3> QED
      BY <3>1, <3>2, GonePane
  <2> QED
    BY <2>3, <2>5, <2>6, <2>7 DEF At
<1>4. CASE Locally(d)
  <2>1. SUFFICES ASSUME Closes(cmd[d].kind), cmd[d].saw.terminal # "none",
                        cmd'[d].at \in {"remove"} \cup Succeeding
                 PROVE  WindowOf(world', cmd'[d].pane) = {}
    BY <1>4 DEF CloseInv, Locally, Moves
  <2>2. cmd[d].at \in CleanupSteps
    BY <1>0, <2>1 DEF HandlerInv, Closes
  <2>3. cmd'[d].pane = cmd[d].pane /\ cmd[d].at \in {"remove"} \cup Succeeding
    BY <1>4, <2>1, <2>2 DEF Locally, Goes, SpoiltTo, AfterStop, Succeeding, Shown, At, CleanupSteps
  <2> QED
    BY <2>1, <2>3, GonePane DEF CloseInv
<1>5. CASE Lands
  <2>1. d = scan.for => At(d, "reconcile")
    BY DEF ShownInv
  <2> QED
    BY <1>1, <1>5, <2>1, CloseStays DEF Lands, At, Succeeding
<1>6. ASSUME NEW c \in Command \ {d}, Begins(c) \/ Carries(c) \/ Locally(c) PROVE cmd'[d] = cmd[d]
  BY <1>6 DEF Begins, Carries, Locally, Moves
<1>7. (\E by \in Maker : Reads(by)) \/ Lists \/ Beside \/ UNCHANGED vars => cmd'[d] = cmd[d]
  BY DEF Reads, Lists, Beside, vars
<1> QED
  BY <1>1, <1>2, <1>3, <1>4, <1>5, <1>6, <1>7, EveryStep

-----------------------------------------------------------------------------
(* What a row tells of a command that has done its part. *)

(* Tells, of the handler and the world after the step. *)
TellsWorktreeNow(c, row) ==
  ~row.blind =>
    /\ cmd'[c].kind \in Launches /\ row.worktree = NoWorktree
       => world'.worktree = NoWorktree \/ world'.worktree.by \notin {User, c}
    /\ Removes(cmd'[c].kind)
       => row.worktree = NoWorktree \/ row.worktree.by # cmd'[c].saw.worktree.by
TellsTerminalNow(c, row) ==
  ~row.blind /\ cmd'[c].kind \in Launches /\ IsInside(world', cmd'[c].pane)
    => row.terminal # "none" \/ row.worktree = NoWorktree
TellsNow(c, row) == TellsWorktreeNow(c, row) /\ TellsTerminalNow(c, row)

(* The worktree that is there after a step is not the one d is known not   *)
(* to have there, for nobody but d would make it.                          *)
LEMMA WorktreeOfOthers ==
  ASSUME TypeOK, LateInv, WorldStep, NEW d \in Command, ~At(d, "createWorktree"), ~cmd[d].spoilt,
         world.worktree = NoWorktree \/ world.worktree.by \notin {User, d}
  PROVE  world'.worktree = NoWorktree \/ world'.worktree.by \notin {User, d}
<1>1. SUFFICES ASSUME world'.worktree # NoWorktree PROVE world'.worktree.by \notin {User, d}
  OBVIOUS
<1>2. world'.worktree.by # d
  BY <1>1, NotMadeNow
<1>3. world'.worktree.by # User
  BY <1>1, SessionCommandsAssumption DEF WorldStep, WorktreeStays
<1> QED
  BY <1>2, <1>3

LEMMA TellsKept ==
  ASSUME TypeOK, PanesInv, LateInv, WorldStep, NEW d \in Command, HandlerInv(d),
         cmd[d].at \in Succeeding, NEW row,
         cmd'[d].kind = cmd[d].kind, cmd'[d].saw = cmd[d].saw, cmd'[d].pane = cmd[d].pane
  PROVE  /\ TellsWorktree(d, row) => TellsWorktreeNow(d, row)
         /\ TellsTerminal(d, row) => TellsTerminalNow(d, row)
<1>1. ~At(d, "createWorktree") /\ ~cmd[d].spoilt
  BY DEF Succeeding, Shown, HandlerInv, GoingBack, At
<1>2. IsInside(world', cmd'[d].pane) => IsInside(world, cmd[d].pane)
  BY PaneWasThere DEF IsInside, WorldStep, NoPaneReturns
<1>3. (world.worktree = NoWorktree \/ world.worktree.by \notin {User, d})
        => (world'.worktree = NoWorktree \/ world'.worktree.by \notin {User, d})
  BY <1>1, WorktreeOfOthers
<1> QED
  BY <1>2, <1>3 DEF TellsWorktree, TellsTerminal, TellsWorktreeNow, TellsTerminalNow

(* A worktree just read tells what was done, and so do windows just listed. *)
LEMMA FreshTells ==
  ASSUME TypeOK, NEW d \in Command, cmd[d].at \in Succeeding, ShownInv(d), NEW by \in Maker, Reads(by)
  PROVE  TellsWorktreeNow(d, scan'.got) /\ (scan'.listed => TellsTerminalNow(d, scan'.got))
<1>0. world' = world /\ cmd' = cmd
  BY DEF Reads
<1>1. scan'.listed => scan'.got.worktree = NoWorktree
  BY DEF Reads
<1>2. ~scan'.got.blind => scan'.got.worktree = world.worktree
  BY DEF Reads
<1> QED
  BY <1>0, <1>1, <1>2 DEF TellsWorktreeNow, TellsTerminalNow, ShownInv

LEMMA ListedTells ==
  ASSUME TypeOK, NEW d \in Command, Lists
  PROVE  /\ TellsWorktree(d, scan.got) => TellsWorktreeNow(d, scan'.got)
         /\ TellsTerminalNow(d, scan'.got)
<1>0. /\ world' = world /\ cmd' = cmd /\ scan'.got.worktree = scan.got.worktree
      /\ ~scan'.got.blind => ~scan.got.blind
  BY DEF Lists
<1>1. \A pane : IsInside(world, pane) => \E w \in world.windows : w.pane \notin world.strayed
  BY DEF IsInside, WindowOf
<1>2. ~scan'.got.blind /\ IsInside(world', cmd'[d].pane) => scan'.got.terminal # "none"
  BY <1>0, <1>1 DEF Lists
<1> QED
  BY <1>0, <1>2 DEF TellsWorktree, TellsWorktreeNow, TellsTerminalNow

(* The worktree that d has removed stays away. *)
RemovedInv(d) ==
  Removes(cmd[d].kind) /\ cmd[d].at \in Succeeding /\ world.worktree # NoWorktree
    => world.worktree.by # cmd[d].saw.worktree.by

LEMMA RemovedKept ==
  ASSUME TypeOK, LateInv, MadeOnce, WorldStep, NEW d \in Command, HandlerInv(d),
         \A c \in Command : HandlerInv(c),
         Removes(cmd[d].kind), cmd[d].at \in Succeeding,
         world.worktree # NoWorktree => world.worktree.by # cmd[d].saw.worktree.by,
         world'.worktree # NoWorktree
  PROVE  world'.worktree.by # cmd[d].saw.worktree.by
<1>1. CASE WorktreeStays(world, world')
  BY <1>1 DEF WorktreeStays
<1>2. CASE world'.worktree.by \in Command /\ Creates(world'.worktree.by)
  <2> DEFINE m == world'.worktree.by
             by == cmd[d].saw.worktree.by
  <2>1. cmd[d].saw.worktree # NoWorktree
    BY DEF HandlerInv, Succeeding, Shown
  <2>2. MadeForGood(by)
    BY <2>1 DEF MadeOnce
  <2>3. SUFFICES ASSUME m = by PROVE FALSE
    OBVIOUS
  <2>4. by # User /\ m # User
    BY <1>2, <2>3, SessionCommandsAssumption
  <2>5. /\ cmd[by].at \notin {"waiting", "createWorktree"}
        /\ \A call \in late : call.do = "createWorktree" => call.by # by
    BY <2>2, <2>4 DEF MadeForGood
  <2>6. Creates(m) => At(m, "createWorktree") \/ \E call \in late : call.by = m /\ call.do = "createWorktree"
    BY DEF Creates
  <2> QED
    BY <1>2, <2>3, <2>5, <2>6 DEF At
<1> QED
  BY <1>1, <1>2 DEF WorldStep

(* A handler that comes to its reconcile has removed what it was to remove. *)
LEMMA RemovedStep ==
  ASSUME TypeOK, PanesInv, LateInv, MadeOnce, \A c \in Command : HandlerInv(c), WorldStep,
         [Next]_vars, NEW d \in Command, ShownInv(d)
  PROVE  RemovedInv(d)'
<1>0. cmd[d] \in Handler /\ HandlerInv(d)
  BY DEF TypeOK
<1>1. ASSUME cmd'[d].kind = cmd[d].kind, cmd'[d].saw = cmd[d].saw,
             cmd'[d].at \in Succeeding => cmd[d].at \in Succeeding
      PROVE  RemovedInv(d)'
  BY <1>0, <1>1, RemovedKept DEF RemovedInv, ShownInv
<1>2. CASE Begins(d)
  <2>1. SUFFICES ASSUME Removes(cmd[d].kind) PROVE cmd'[d].at \notin Succeeding
    BY <1>2 DEF RemovedInv, Begins
  <2> QED
    BY <1>2, <2>1 DEF Begins, FirstStep, AfterStop, AfterClose, Removes, Succeeding, Shown
<1>3. CASE Carries(d)
  <2>1. PICK call \in Call, ok \in Steps, failed \in Steps :
           Doing(d, call, ok, failed) /\ (WentOn(d, call, ok) \/ WentBack(d, call, failed))
    BY <1>3 DEF Carries
  <2>2. SUFFICES ASSUME Removes(cmd[d].kind), cmd'[d].at \in Succeeding
                 PROVE  world'.worktree = NoWorktree
    BY <1>3 DEF RemovedInv, Carries, Moves
  <2>3. cmd[d].kind \in Cleanups
    BY <2>2 DEF Removes, Cleanups, OfSession
  <2>4. At(d, "remove") /\ WentOn(d, call, ok)
    BY <1>0, <2>1, <2>2, <2>3 DEF HandlerInv, CleanupSteps, Doing, WentOn, WentBack, AfterStop,
                                  AfterClose, Succeeding, Shown, At
  <2>5. call.do = "remove"
    BY <2>1, <2>4 DEF Doing, At
  <2> QED
    BY <2>4, <2>5 DEF WentOn, Effect
<1>4. CASE Locally(d)
  <2>1. cmd'[d].kind = cmd[d].kind /\ cmd'[d].saw = cmd[d].saw
    BY <1>4 DEF Locally, Moves
  <2>2. CASE Removes(cmd[d].kind)
    <3>1. cmd[d].at \in CleanupSteps
      BY <1>0, <2>2 DEF HandlerInv, Removes, Cleanups, OfSession
    <3>2. cmd'[d].at \in Succeeding => cmd[d].at \in Succeeding
      BY <1>4, <2>2, <3>1 DEF Locally, Goes, SpoiltTo, At, AfterStop, AfterClose,
                              CleanupSteps, Succeeding, Shown
    <3> QED
      BY <1>1, <2>1, <3>2
  <2> QED
    BY <2>1, <2>2 DEF RemovedInv
<1>5. CASE Lands
  <2>1. d = scan.for => At(d, "reconcile")
    BY DEF ShownInv
  <2>2. cmd[d].at \in Succeeding \/ cmd'[d] = cmd[d]
    BY <1>5, <2>1 DEF Lands, At, Succeeding
  <2> QED
    BY <1>1, <1>5, <2>2 DEF Lands
<1>6. ASSUME NEW c \in Command \ {d}, Begins(c) \/ Carries(c) \/ Locally(c) PROVE cmd'[d] = cmd[d]
  BY <1>6 DEF Begins, Carries, Locally, Moves
<1>7. (\E by \in Maker : Reads(by)) \/ Lists \/ Beside \/ UNCHANGED vars => cmd'[d] = cmd[d]
  BY DEF Reads, Lists, Beside, vars
<1> QED
  BY <1>1, <1>2, <1>3, <1>4, <1>5, <1>6, <1>7, EveryStep

LEMMA ShownStep ==
  ASSUME TypeOK, PanesInv, LateInv, MadeOnce, \A c \in Command : HandlerInv(c), WorldStep,
         [Next]_vars, NEW d \in Command, ShownInv(d)
  PROVE  ShownInv(d)'
<1>0. cmd[d] \in Handler /\ HandlerInv(d) /\ RemovedInv(d)' /\ NoScan # d /\ User # d
  BY RemovedStep, SessionCommandsAssumption DEF TypeOK, Maker
<1> DEFINE Tellsing(row, listed) == TellsWorktreeNow(d, row) /\ (listed => TellsTerminalNow(d, row))
           New == /\ cmd'[d].at \in Shown => TellsNow(d, view')
                  /\ cmd'[d].at \in Shown /\ scan'.for # NoScan => Tellsing(scan'.got, scan'.listed)
                  /\ scan'.for = d => cmd'[d].at = "reconcile" /\ Tellsing(scan'.got, scan'.listed)
<1>1. SUFFICES New
  BY <1>0 DEF ShownInv, RemovedInv, Tells, TellsWorktree, TellsTerminal,
              TellsNow, TellsWorktreeNow, TellsTerminalNow, At
<1>2. ASSUME cmd'[d].kind = cmd[d].kind, cmd'[d].saw = cmd[d].saw, cmd'[d].pane = cmd[d].pane,
             NEW row, cmd[d].at \in Succeeding
      PROVE  /\ TellsWorktree(d, row) => TellsWorktreeNow(d, row)
             /\ TellsTerminal(d, row) => TellsTerminalNow(d, row)
  BY <1>0, <1>2, TellsKept
(* Neither a row nor what d stands at changes in a way that matters. *)
<1>3. ASSUME view' = view, scan' = scan,
             cmd'[d].kind = cmd[d].kind, cmd'[d].saw = cmd[d].saw, cmd'[d].pane = cmd[d].pane,
             cmd'[d].at \in Shown => cmd[d].at \in Shown,
             cmd[d].at = "reconcile" => cmd'[d].at = "reconcile"
      PROVE  New
  <2>1. cmd'[d].at \in Shown => cmd[d].at \in Succeeding /\ cmd[d].at \in Shown
    BY <1>3 DEF Succeeding
  <2>2. scan.for = d => cmd[d].at \in Succeeding /\ cmd[d].at = "reconcile"
    BY DEF ShownInv, Succeeding, At
  <2>3. cmd'[d].at \in Shown => TellsNow(d, view')
    BY <1>2, <1>3, <2>1 DEF ShownInv, Tells, TellsNow
  <2>4. cmd'[d].at \in Shown /\ scan'.for # NoScan => Tellsing(scan'.got, scan'.listed)
    BY <1>2, <1>3, <2>1 DEF ShownInv
  <2>5. scan'.for = d => cmd'[d].at = "reconcile" /\ Tellsing(scan'.got, scan'.listed)
    BY <1>2, <1>3, <2>2 DEF ShownInv
  <2> QED
    BY <2>3, <2>4, <2>5
(* d does something that is neither to succeed nor to be under reconcile. *)
<1>4. ASSUME view' = view, scan' = scan, ~At(d, "reconcile"), cmd'[d].at \notin Shown PROVE New
  <2>1. scan'.for # d
    BY <1>4 DEF ShownInv
  <2> QED
    BY <1>4, <2>1
<1>5. CASE Begins(d)
  <2>1. cmd'[d].at \notin Shown /\ At(d, "waiting")
    BY <1>0, <1>5, KindIsOne
       DEF Begins, FirstStep, AfterStop, AfterClose, Shown, Launches
  <2> QED
    BY <1>4, <1>5, <2>1 DEF Begins, At
<1>6. CASE Carries(d)
  <2>1. PICK call \in Call, ok \in Steps, failed \in Steps :
           Doing(d, call, ok, failed) /\ (WentOn(d, call, ok) \/ WentBack(d, call, failed))
    BY <1>6 DEF Carries
  <2>2. cmd'[d].at \notin Shown /\ ~At(d, "reconcile")
    BY <2>1 DEF Doing, WentOn, WentBack, AfterStop, AfterClose, UndoSeed, Shown, At
  <2> QED
    BY <1>4, <1>6, <2>2 DEF Carries, Bystanders
<1>7. CASE Locally(d)
  <2>1. view' = view /\ scan' = scan /\ Moves(d)
    BY <1>7 DEF Locally
  <2>2. \/ cmd'[d].at \notin Shown /\ ~At(d, "reconcile")
        \/ /\ cmd'[d].pane = cmd[d].pane
           /\ cmd'[d].at \in Shown => cmd[d].at \in Shown
           /\ cmd[d].at = "reconcile" => cmd'[d].at = "reconcile"
    BY <1>7 DEF Locally, Goes, SpoiltTo, AfterStop, AfterClose, UndoSeed, UndoWorktree, Shown, At
  <2> QED
    BY <1>3, <1>4, <2>1, <2>2 DEF Moves
<1>8. ASSUME NEW c \in Command \ {d}, Begins(c) \/ Carries(c) \/ Locally(c) PROVE New
  <2>1. cmd'[d] = cmd[d] /\ view' = view /\ scan' = scan
    BY <1>8 DEF Begins, Carries, Bystanders, Locally, Moves
  <2> QED
    BY <1>3, <2>1
<1>9. ASSUME NEW by \in Maker, Reads(by) PROVE New
  <2>1. /\ cmd'[d] = cmd[d] /\ view' = view /\ scan'.for = by
        /\ by = d => cmd[d].at = "reconcile"
    BY <1>0, <1>9 DEF Reads, At
  <2>2. cmd[d].at \in Succeeding => Tellsing(scan'.got, scan'.listed)
    BY <1>9, FreshTells
  <2>3. cmd[d].at \in Shown => TellsNow(d, view')
    BY <1>2, <2>1 DEF ShownInv, Succeeding, Tells, TellsNow
  <2> QED
    BY <2>1, <2>2, <2>3 DEF Succeeding
<1>12. CASE Lists
  <2>1. cmd'[d] = cmd[d] /\ view' = view /\ scan'.for = scan.for /\ scan.for # NoScan
    BY <1>12 DEF Lists
  <2>2. cmd[d].at \in Shown \/ scan.for = d => Tellsing(scan'.got, scan'.listed)
    BY <1>12, <2>1, ListedTells DEF ShownInv
  <2>3. cmd[d].at \in Shown => TellsNow(d, view')
    BY <1>2, <2>1 DEF ShownInv, Succeeding, Tells, TellsNow
  <2>4. scan.for = d => cmd[d].at = "reconcile"
    BY DEF ShownInv, At
  <2> QED
    BY <2>1, <2>2, <2>3, <2>4
<1>10. CASE Lands
  <2>1. /\ cmd'[d].kind = cmd[d].kind /\ cmd'[d].saw = cmd[d].saw /\ cmd'[d].pane = cmd[d].pane
        /\ scan'.for = NoScan /\ scan.for # NoScan
    BY <1>10, NoViewFields DEF Lands
  <2>2. SUFFICES ASSUME cmd'[d].at \in Shown PROVE TellsNow(d, view')
    BY <1>0, <2>1
  <2>3. CASE d = scan.for
    <3>1. At(d, "reconcile") /\ TellsWorktree(d, scan.got) /\ TellsTerminal(d, scan.got)
      BY <1>10, <2>3 DEF ShownInv, Lands
    <3>2. view' = scan.got
      BY <1>10, <2>2, <2>3 DEF Lands, Shown
    <3> QED
      BY <1>2, <2>1, <3>1, <3>2 DEF Succeeding, At, TellsNow
  <2>4. CASE d # scan.for
    <3>1. cmd'[d] = cmd[d] /\ (view' = scan.got \/ view' = view)
      BY <1>10, <2>4 DEF Lands
    <3>2. Tells(d, view) /\ Tells(d, scan.got)
      BY <1>10, <2>1, <2>2, <3>1 DEF ShownInv, Lands, Tells
    <3> QED
      BY <1>2, <2>1, <2>2, <3>1, <3>2 DEF Succeeding, Tells, TellsNow
  <2> QED
    BY <2>3, <2>4
<1>11. CASE Beside \/ UNCHANGED vars
  <2>1. cmd'[d] = cmd[d] /\ view' = view /\ scan' = scan
    BY <1>11 DEF Beside, vars
  <2> QED
    BY <1>3, <2>1
<1> HIDE DEF New
<1> QED
  BY <1>5, <1>6, <1>7, <1>8, <1>9, <1>10, <1>11, <1>12, EveryStep

-----------------------------------------------------------------------------
(* The invariant. *)

LEMMA InitMakesInv == Init => TypeOK /\ CommandsInv
<1> SUFFICES ASSUME Init PROVE TypeOK /\ CommandsInv
  OBVIOUS
<1>1. /\ UsersWorktree \in Worktree /\ UsersWorktree.by = User
      /\ UsersWindow \in Window /\ UsersWindow.pane = 1 /\ UsersWindow.agent.by = User
      /\ NoView \in View
  <2>1. 1 \in 1..MaxPanes
    BY SessionCommandsAssumption
  <2> QED
    BY <2>1 DEF UsersWorktree, UsersWindow, Worktree, Window, Agent, Maker, NoView, View
<1>a. PICK worktree \in {NoWorktree, UsersWorktree}, windows \in {{}, {UsersWindow}} :
         /\ windows # {} => worktree # NoWorktree
         /\ world = [worktree |-> worktree, windows |-> windows, strayed |-> {},
                     panes |-> Cardinality(windows), exits |-> 0]
         /\ view = IF windows = {} THEN [NoView EXCEPT !.worktree = worktree]
                   ELSE [worktree |-> worktree, terminal |-> "open", run |-> UsersWindow, blind |-> FALSE]
  BY DEF Init
<1>b. /\ Cardinality(windows) \in 0..MaxPanes
      /\ windows # {} => Cardinality(windows) = 1
  <2>1. Cardinality({}) = 0 /\ Cardinality({UsersWindow}) = 1
    BY FS_EmptySet, FS_Singleton
  <2> QED
    BY <2>1, SessionCommandsAssumption
<1>2. /\ world \in World
      /\ world.worktree \in {NoWorktree, UsersWorktree} /\ world.windows \subseteq {UsersWindow}
      /\ world.windows # {} => world.worktree # NoWorktree /\ world.panes = 1
  <2> DEFINE size == Cardinality(windows)
  <2>1. 0 \in 0..MaxExits
    BY SessionCommandsAssumption
  <2>2. world = [worktree |-> worktree, windows |-> windows, strayed |-> {}, panes |-> size, exits |-> 0]
    BY <1>a
  <2>3. size \in 0..MaxPanes /\ (windows # {} => size = 1)
    BY <1>b
  <2> HIDE DEF size
  <2> QED
    BY <1>1, <1>a, <2>1, <2>2, <2>3 DEF World
<1>3. /\ view \in View /\ view.worktree \in {NoWorktree, UsersWorktree}
      /\ view.run \in {NoWindow, UsersWindow}
      /\ view.run # NoWindow => view.worktree # NoWorktree /\ world.panes = 1
  <2>1. CASE windows = {}
    BY <1>1, <1>a, <2>1, NoViewFields DEF View
  <2>2. CASE windows # {}
    BY <1>1, <1>2, <1>a, <2>2 DEF View
  <2> QED
    BY <2>1, <2>2
<1>4. scan \in Scan /\ scan.for = NoScan /\ scan.got = NoView
  BY NoViewFields DEF Init
<1>5. PICK kinds \in [Command -> Launches \cup Cleanups], forced \in SUBSET Command :
         /\ \A c \in Command : c \in forced => kinds[c] \in Cleanups
         /\ cmd = [c \in Command |-> Waiting(kinds[c], c \in forced, OwnSession(c, kinds[c]))]
  BY DEF Init
<1>6. ASSUME NEW c \in Command
      PROVE  /\ cmd[c] \in Handler /\ cmd[c].at = "waiting" /\ cmd[c].saw = NoView
             /\ cmd[c].pane = NoPane /\ ~cmd[c].created /\ ~cmd[c].spoilt
             /\ cmd[c].kind \in Launches =>
                  ~cmd[c].force /\ cmd[c].session = OwnSession(c, cmd[c].kind)
  <2> DEFINE forcedly == c \in forced
  <2>1. cmd[c] = Waiting(kinds[c], forcedly, OwnSession(c, kinds[c]))
    BY <1>5
  <2>2. /\ kinds[c] \in Launches \cup Cleanups /\ forcedly \in BOOLEAN
        /\ OwnSession(c, kinds[c]) \in Maker
        /\ forcedly => kinds[c] \notin Launches
    BY <1>5 DEF OwnSession, Maker, Launches, Cleanups, OfSession
  <2> HIDE DEF forcedly
  <2>3. "waiting" \in Steps
    BY DEF Steps
  <2> QED
    BY <1>1, <2>1, <2>2, <2>3 DEF Waiting, Handler
<1>7. /\ seeds = {} /\ late = {} /\ faults = 0 /\ stopSupported \in CanStop
      /\ 0 \in 0..MaxFaults
  BY SessionCommandsAssumption DEF Init
<1>8. cmd \in [Command -> Handler]
  BY <1>5, <1>6
<1>9. TypeOK
  BY <1>2, <1>3, <1>4, <1>7, <1>8 DEF TypeOK
<1>10. LateInv
  BY <1>7 DEF LateInv
<1>11. PanesInv
  BY <1>1, <1>2, <1>3, <1>4, <1>6, NoViewFields DEF PanesInv, Numbered
<1>12. HomesInv
  BY <1>1, <1>2, <1>3, <1>4, <1>6, NoViewFields DEF HomesInv, AtHome
<1>13. MadeOnce
  BY <1>1, <1>2, <1>3, <1>4, <1>6, NoViewFields DEF MadeOnce, MadeForGood
<1>14. RowInv(view) /\ RowInv(scan.got) /\ ScanInv
  BY <1>3, <1>4, NoViewFields DEF RowInv, ScanInv
<1>15. ASSUME NEW c \in Command
       PROVE  HandlerInv(c) /\ RollbackInv(c) /\ CloseInv(c) /\ ShownInv(c)
  <2>1. HandlerInv(c)
    BY <1>6, NoViewFields DEF HandlerInv, At, LaunchSteps, CleanupSteps
  <2>2. RollbackInv(c)
    BY <1>6, <1>7 DEF RollbackInv, At
  <2>3. CloseInv(c) /\ ShownInv(c)
    BY <1>4, <1>6, SessionCommandsAssumption DEF CloseInv, ShownInv, Succeeding, Shown, Maker
  <2> QED
    BY <2>1, <2>2, <2>3
<1> QED
  BY <1>9, <1>10, <1>11, <1>12, <1>13, <1>14, <1>15 DEF CommandsInv

LEMMA CommandsInvStep == ASSUME TypeOK, CommandsInv, [Next]_vars PROVE TypeOK' /\ CommandsInv'
<1>1. /\ LateInv /\ PanesInv /\ HomesInv /\ MadeOnce /\ RowInv(view) /\ RowInv(scan.got)
      /\ ScanInv /\ \A c \in Command : HandlerInv(c)
      /\ \A c \in Command : RollbackInv(c) /\ CloseInv(c) /\ ShownInv(c)
  BY DEF CommandsInv
<1>2. WorldStep /\ RowSteps
  BY <1>1, WorldSteps, RowsStep
<1>3. \A d \in Command : Keeps(d)
  BY <1>1, <1>2, HandlersKeep
<1>4. TypeOK' /\ LateInv'
  BY <1>1, <1>2, TypeStep, LateStep
<1>5. PanesInv' /\ HomesInv' /\ MadeOnce' /\ RowInv(view)' /\ RowInv(scan.got)' /\ ScanInv'
  BY <1>1, <1>2, <1>3, PanesStep, HomesStep, MadeOnceStep, RowInvStep, ScanInvStep
<1>6. ASSUME NEW d \in Command
      PROVE  HandlerInv(d)' /\ RollbackInv(d)' /\ CloseInv(d)' /\ ShownInv(d)'
  BY <1>1, <1>2, HandlerInvStep, RollbackStep, CloseStep, ShownStep
<1> QED
  BY <1>4, <1>5, <1>6 DEF CommandsInv

(* The types, and everything the properties below rest on: where a handler *)
(* can stand and what it may have done, who owns each agent, window and     *)
(* worktree, and what the rows tell.                                       *)
THEOREM CommandsCorrect == Spec => [](TypeOK /\ CommandsInv)
<1>1. Init => TypeOK /\ CommandsInv
  BY InitMakesInv
<1>2. (TypeOK /\ CommandsInv) /\ [Next]_vars => (TypeOK /\ CommandsInv)'
  BY CommandsInvStep
<1> QED
  BY <1>1, <1>2, PTL DEF Spec

-----------------------------------------------------------------------------
(* The promises. *)

(* A launch that failed, and knows how its calls ended, has left neither a  *)
(* worktree, nor a window, nor a session row, whatever other commands,     *)
(* late calls and agents did meanwhile.                                    *)
THEOREM FailedLaunch == Spec => []FailedLaunchLeavesNothing
<1>1. TypeOK /\ CommandsInv => FailedLaunchLeavesNothing
  BY DEF CommandsInv, RollbackInv, FailedLaunchLeavesNothing, At
<1> QED
  BY <1>1, CommandsCorrect, PTL

(* The agent that a cleanup saw is not at work once it has gone on to the   *)
(* worktree or succeeded: an agent is only ever in the window its launch    *)
(* holds, and the cleanup has seen that window closed.                     *)
THEOREM CleanupsKeep == Spec => []CleanupKeepsItsWord
<1>1. ASSUME TypeOK, CommandsInv PROVE CleanupKeepsItsWord
  <2>1. SUFFICES ASSUME NEW c \in Command, Closes(cmd[c].kind),
                        cmd[c].at \in {"remove", "reconcile", "announce", "done"},
                        cmd[c].saw.terminal # "none", cmd[c].saw.run # NoWindow, cmd[c].pane = cmd[c].saw.run.pane,
                        cmd[c].saw.run.agent \in AgentsRunning(world)
                 PROVE  FALSE
    BY DEF CleanupKeepsItsWord
  <2>2. PICK x \in world.windows : Runs(x.agent) /\ x.agent = cmd[c].saw.run.agent
    BY <2>1 DEF AgentsRunning
  <2>3. HomesInv /\ CloseInv(c)
    BY <1>1 DEF CommandsInv
  <2>4. AtHome(x) /\ AtHome(cmd[c].saw.run) /\ x # NoWindow /\ x.agent # NoAgent
    BY <1>1, <2>2, <2>3, SessionCommandsAssumption DEF HomesInv, TypeOK, World, Runs
  <2>5. x.pane = cmd[c].pane
    BY <2>1, <2>2, <2>4 DEF AtHome
  <2>6. WindowOf(world, cmd[c].pane) = {}
    BY <2>1, <2>3 DEF CloseInv, Succeeding, Shown
  <2> QED
    BY <2>5, <2>6 DEF WindowOf
<1> QED
  BY <1>1, CommandsCorrect, PTL

(* A terminal is shown beside a launch that is done, as long as its window  *)
(* is there and has not strayed, and a worktree whose removal is done is    *)
(* not shown again, unless a read failed and over all reconciles of others. *)
THEOREM DoneShown == Spec => []DoneIsShown
<1>1. TypeOK /\ CommandsInv => DoneIsShown
  BY DEF CommandsInv, ShownInv, Tells, TellsWorktree, TellsTerminal, Shown, DoneIsShown, At
<1> QED
  BY <1>1, CommandsCorrect, PTL
=============================================================================
