--------------------- MODULE DashboardOperationsProofs ---------------------
(***************************************************************************)
(* Theorems about DashboardOperations, for any operations, titles and      *)
(* numbers of changes and faults: first the types and what the user is     *)
(* told, from IInv, then, on top of it, what a dashboard at rest shows,    *)
(* from RestInv.                                                           *)
(***************************************************************************)
EXTENDS DashboardOperations, TLAPS

-----------------------------------------------------------------------------
(* The local rows: only keys add any, everything else takes rows away.     *)

(* Nothing pending in r that is not in s. *)
Within(r, s) ==
  /\ r.create \subseteq s.create /\ r.remove \subseteq s.remove
  /\ r.start \subseteq s.start /\ r.rename \subseteq s.rename

(* No row of r carries the id of o. *)
NamesNot(o, r) == \A p \in r.remove \cup r.start \cup r.rename : p.command # o

LEMMA ShownTyped ==
  ASSUME NEW r \in Row
  PROVE  Shown(r) \in Copy
BY DEF Shown, Copy, Session, Row, State

LEMMA ObserverKept ==
  ASSUME TypeOK, UNCHANGED observer
  PROVE  ObserverOK'
BY DEF TypeOK, ObserverOK, observer

LEMMA PruneWithin ==
  ASSUME NEW r \in LocalRows, NEW v \in Copy
  PROVE  Prune(r, v) \in LocalRows /\ Within(Prune(r, v), r)
BY DEF Prune, Within, LocalRows

LEMMA ClearWithin ==
  ASSUME NEW r \in LocalRows, NEW o \in Op
  PROVE  Clear(o, r) \in LocalRows /\ Within(Clear(o, r), r) /\ o \notin Clear(o, r).create
BY DEF Clear, Within, LocalRows

LEMMA MarkFailedWithin ==
  ASSUME NEW r \in LocalRows, NEW o \in Op
  PROVE  /\ MarkFailed(o, r) \in LocalRows /\ Within(MarkFailed(o, r), r)
         /\ o \notin MarkFailed(o, r).create
<1>1. /\ MarkFailed(o, r).create = Clear(o, r).create
      /\ MarkFailed(o, r).remove = Clear(o, r).remove
      /\ MarkFailed(o, r).start = Clear(o, r).start
      /\ MarkFailed(o, r).rename = Clear(o, r).rename
      /\ MarkFailed(o, r) \in LocalRows
  BY ClearWithin DEF MarkFailed, LocalRows
<1> QED
  BY <1>1, ClearWithin DEF Within

LEMMA DropWithin ==
  ASSUME NEW r \in LocalRows, NEW o \in Op
  PROVE  /\ Drop(o, r) \in LocalRows /\ Within(Drop(o, r), r)
         /\ NamesNot(o, Drop(o, r)) /\ o \notin Drop(o, r).create
BY DEF Drop, Within, LocalRows, NamesNot

LEMMA MarkFailedNames ==
  ASSUME TypeOK, NEW o \in Op, NamedBy(o)
  PROVE  NamesNot(o, MarkFailed(o, rows))
BY DEF TypeOK, MarkFailed, Clear, NamedBy, NamesNot, LocalRows

LEMMA BindTyped ==
  ASSUME TypeOK, NEW o \in Op
  PROVE  /\ Bind(o, rows) \in LocalRows
         /\ Bind(o, rows).create = rows.create
BY DEF TypeOK, Bind, Bound, LocalRows, Command

-----------------------------------------------------------------------------
(* The wire. *)

LEMMA FailedEvent ==
  ASSUME NEW e \in Event, e.type = "command.failed"
  PROVE  e.command \in Op /\ e = Failed(e.command)
BY DEF Event, Failed, Reconciled, Patch, WorktreeRemoved

(* The failed event of o is on the wire w, at most once. *)
In(w, o) == \E i \in 1..Len(w) : w[i] = Failed(o)
Once(w, o) == \A i, j \in 1..Len(w) : w[i] = Failed(o) /\ w[j] = Failed(o) => i = j

LEMMA PendingIsIn ==
  ASSUME NEW o \in Op
  PROVE  (Pending(o) <=> In(wire, o)) /\ (Pending(o)' <=> In(wire', o))
BY DEF Pending, In

LEMMA TailOther ==
  ASSUME NEW w \in Seq(Event), w # <<>>, NEW o \in Op, Head(w) # Failed(o)
  PROVE  /\ Tail(w) \in Seq(Event)
         /\ In(Tail(w), o) <=> In(w, o)
         /\ Once(w, o) => Once(Tail(w), o)
<1>1. /\ Tail(w) \in Seq(Event) /\ Len(Tail(w)) = Len(w) - 1 /\ Len(w) \in Nat \ {0}
      /\ \A i \in 1..Len(Tail(w)) : Tail(w)[i] = w[i + 1]
      /\ Head(w) = w[1]
  OBVIOUS
<1>2. In(Tail(w), o) => In(w, o)
  BY <1>1 DEF In
<1>3. ASSUME In(w, o) PROVE In(Tail(w), o)
  <2>1. PICK i \in 1..Len(w) : w[i] = Failed(o)
    BY <1>3 DEF In
  <2>2. i - 1 \in 1..Len(Tail(w)) /\ Tail(w)[i - 1] = Failed(o)
    BY <1>1, <2>1
  <2> QED
    BY <2>2 DEF In
<1>4. Once(w, o) => Once(Tail(w), o)
  BY <1>1 DEF Once
<1> QED
  BY <1>1, <1>2, <1>3, <1>4

LEMMA TailFailed ==
  ASSUME NEW w \in Seq(Event), w # <<>>, NEW o \in Op, Head(w) = Failed(o), Once(w, o)
  PROVE  /\ Tail(w) \in Seq(Event) /\ In(w, o)
         /\ ~In(Tail(w), o) /\ Once(Tail(w), o)
<1>1. /\ Tail(w) \in Seq(Event) /\ Len(Tail(w)) = Len(w) - 1 /\ Len(w) \in Nat \ {0}
      /\ \A i \in 1..Len(Tail(w)) : Tail(w)[i] = w[i + 1]
      /\ w[1] = Failed(o)
  OBVIOUS
<1>2. ~In(Tail(w), o)
  BY <1>1 DEF In, Once
<1> QED
  BY <1>1, <1>2 DEF In, Once

LEMMA AppendOther ==
  ASSUME NEW w \in Seq(Event), NEW e \in Event, NEW o \in Op, e # Failed(o)
  PROVE  /\ Append(w, e) \in Seq(Event)
         /\ In(Append(w, e), o) <=> In(w, o)
         /\ Once(w, o) => Once(Append(w, e), o)
<1>1. /\ Append(w, e) \in Seq(Event) /\ Len(Append(w, e)) = Len(w) + 1 /\ Len(w) \in Nat
      /\ \A i \in 1..Len(w) : Append(w, e)[i] = w[i]
      /\ Append(w, e)[Len(w) + 1] = e
  OBVIOUS
<1>2. \A i \in 1..Len(w) + 1 : i \in 1..Len(w) \/ i = Len(w) + 1
  BY <1>1
<1> QED
  BY <1>1, <1>2 DEF In, Once

LEMMA AppendFailed ==
  ASSUME NEW w \in Seq(Event), NEW o \in Op, ~In(w, o)
  PROVE  /\ Append(w, Failed(o)) \in Seq(Event)
         /\ In(Append(w, Failed(o)), o) /\ Once(Append(w, Failed(o)), o)
<1> DEFINE e == Failed(o)
<1>1. e \in Event
  BY DEF Event, Failed
<1>2. /\ Append(w, e) \in Seq(Event) /\ Len(Append(w, e)) = Len(w) + 1 /\ Len(w) \in Nat
      /\ \A i \in 1..Len(w) : Append(w, e)[i] = w[i]
      /\ Append(w, e)[Len(w) + 1] = e
  BY <1>1
<1>3. \A i \in 1..Len(w) + 1 : i \in 1..Len(w) \/ i = Len(w) + 1
  BY <1>2
<1> HIDE DEF e
<1>4. In(Append(w, e), o)
  BY <1>2 DEF In, e
<1>5. Once(Append(w, e), o)
  BY <1>2, <1>3 DEF In, Once, e
<1> QED
  BY <1>2, <1>4, <1>5 DEF e

(* What is published otherwise leaves the failed events alone. *)
LEMMA PublishedOther ==
  ASSUME TypeOK, NEW e \in Patch \cup {Reconciled}, wire' = Append(wire, e)
  PROVE  /\ wire' \in Seq(Event)
         /\ \A o \in Op : (Pending(o)' <=> Pending(o)) /\ (Once(wire, o) => Once(wire', o))
<1>1. e \in Event /\ wire \in Seq(Event)
  BY DEF TypeOK, Event
<1>2. \A o \in Op : e # Failed(o)
  BY DEF Patch, WorktreeRemoved, Reconciled, Failed
<1> QED
  BY <1>1, <1>2, AppendOther, PendingIsIn

LEMMA FailedParts ==
  /\ FailedFollows <=> \A o \in Op : (Pending(o) => op[o].remote = "failed") /\ Once(wire, o)
  /\ FailedFollows' <=> \A o \in Op : (Pending(o)' => op'[o].remote = "failed") /\ Once(wire', o)
BY DEF FailedFollows, Once

-----------------------------------------------------------------------------
(* What a step keeps of an operation it does not touch. *)

LEMMA TellingKept ==
  ASSUME NEW o \in Op, TellingOf(o), op'[o] = op[o], Pending(o)' <=> Pending(o),
         astray \subseteq astray', o \in handled' <=> o \in handled
  PROVE  TellingOf(o)' /\ (EventRead(o)' <=> EventRead(o)) /\ (Over(o)' <=> Over(o))
BY DEF TellingOf, EventRead, Over

LEMMA RowsKept ==
  ASSUME NEW o \in Op, RowsOf(o), op'[o] = op[o], Pending(o)' <=> Pending(o),
         astray \subseteq astray', Within(rows', rows)
  PROVE  RowsOf(o)'
BY DEF RowsOf, NamedBy, Unbound, EventRead, Over, Within

-----------------------------------------------------------------------------
(* The steps of an operation on the client's side: they take rows away and *)
(* may tell the user.                                                      *)

LEMMA LocalShape ==
  ASSUME TypeOK, NEW o \in Op, NEW phase \in {"waiting", "loading", "ended"}, NEW told \in 0..1,
         Local(o, phase, told), op[o].told + told \in 0..2
  PROVE  /\ op'[o].kind = op[o].kind /\ op'[o].session = op[o].session
         /\ op'[o].remote = op[o].remote /\ op'[o].local = phase
         /\ op'[o].told = op[o].told + told
         /\ \A q \in Op \ {o} : op'[q] = op[q]
         /\ op' \in [Op -> Operation]
<1>1. /\ op'[o] = [op[o] EXCEPT !.local = phase, !.told = @ + told]
      /\ \A q \in Op \ {o} : op'[q] = op[q]
      /\ op[o] \in Operation /\ op \in [Op -> Operation]
  BY DEF Local, TypeOK
<1> QED
  BY <1>1 DEF Local, Operation

LEMMA LocalStep ==
  ASSUME IInv, NEW o \in Op, NEW phase, NEW told \in 0..1, Local(o, phase, told),
         phase \in {"waiting", "loading", "ended"},
         UNCHANGED <<observer, wire, wanted, screen, changes>>,
         view' \in Copy, faults' \in 0..MaxFaults,
         rows' \in LocalRows, Within(rows', rows),
         astray \subseteq astray', astray' \subseteq astray \cup {o},
         handled \subseteq handled', handled' \subseteq handled \cup {o},
         op[o].told + told > 0 /\ ~EventRead(o) /\ o \notin astray'
           => NamesNot(o, rows') /\ o \notin rows'.create,
         op[o].local # "none",
         phase = "loading" \/ op[o].told + told = 0 => op[o].remote = "succeeded",
         op[o].told + told <= 1 + (IF EventRead(o) THEN 1 ELSE 0),
         EventRead(o) => o \in astray' \/ o \in handled',
         o \in handled' => op[o].told + told > 0,
         op[o].told + told > 1 => o \in astray',
         phase # "waiting"
  PROVE  IInv'
<1>2. op[o].told \in 0..2 /\ op[o].told + told \in 0..2
  BY DEF IInv, TypeOK, Operation
<1>3. /\ op'[o].kind = op[o].kind /\ op'[o].session = op[o].session
      /\ op'[o].remote = op[o].remote /\ op'[o].local = phase
      /\ op'[o].told = op[o].told + told
      /\ \A q \in Op \ {o} : op'[q] = op[q]
      /\ op' \in [Op -> Operation]
  BY <1>2, LocalShape DEF IInv
<1>4. \A q \in Op : Pending(q)' <=> Pending(q)
  BY DEF Pending
<1>5. EventRead(o)' <=> EventRead(o)
  BY <1>3, <1>4 DEF EventRead
<1>6. ASSUME NEW q \in Op, q # o PROVE RowsOf(q)' /\ TellingOf(q)'
  BY <1>3, <1>4, <1>6, TellingKept, RowsKept DEF IInv, RowsFollow, TellingFollows
<1>7. FailedFollows'
  <2>1. ASSUME NEW q \in Op, Pending(q)' PROVE op'[q].remote = "failed"
    BY <1>3, <1>4, <2>1 DEF IInv, FailedFollows
  <2>2. \A q \in Op : Once(wire', q)
    BY FailedParts DEF IInv
  <2> QED
    BY <2>1, <2>2, FailedParts
<1>8. TypeOK'
  BY <1>3, ObserverKept DEF IInv, TypeOK, Within
<1>9. RowsOf(o)'
  BY <1>3, <1>5 DEF IInv, RowsFollow, RowsOf, NamedBy, Unbound, Within, NamesNot
<1>10. TellingOf(o)'
  BY <1>3, <1>5 DEF TellingOf, Over
<1> QED
  BY <1>6, <1>7, <1>8, <1>9, <1>10 DEF IInv, RowsFollow, TellingFollows

LEMMA OfOperation ==
  ASSUME IInv, NEW o \in Op
  PROVE  /\ TypeOK /\ RowsOf(o) /\ NamedBy(o) /\ TellingOf(o)
         /\ op[o] \in Operation /\ op[o].told \in 0..2 /\ rows \in LocalRows
         /\ handled \subseteq Op /\ astray \subseteq Op /\ faults \in 0..MaxFaults /\ view \in Copy
         /\ ObserverOK
         /\ ~Over(o) => op[o].told <= (IF EventRead(o) THEN 1 ELSE 0)
         /\ Within(rows, rows)
BY DEF IInv, RowsFollow, RowsOf, TellingFollows, TellingOf, TypeOK, Operation, Within

LEMMA FaultBounded == TypeOK /\ Fault => faults' \in 0..MaxFaults
BY DashboardAssumption DEF TypeOK, Fault

LEMMA ReceiptRejectsStep ==
  ASSUME IInv, NEW o \in Op, ReceiptRejects(o)
  PROVE  IInv'
<1>1. ~EventRead(o) /\ op[o].told = 0 /\ o \notin handled
  BY OfOperation DEF ReceiptRejects, EventRead, Over, TellingOf
<1>2. /\ rows' \in LocalRows /\ Within(rows', rows) /\ NamesNot(o, rows') /\ o \notin rows'.create
  BY OfOperation, MarkFailedWithin, MarkFailedNames DEF ReceiptRejects
<1> QED
  BY <1>1, <1>2, OfOperation, LocalStep DEF ReceiptRejects, ClientStep

LEMMA DispatchThrowsStep ==
  ASSUME IInv, NEW o \in Op, DispatchThrows(o)
  PROVE  IInv'
<1>1. op[o].told <= (IF EventRead(o) THEN 1 ELSE 0) /\ (EventRead(o) => o \in astray)
  BY OfOperation DEF DispatchThrows, Over, TellingOf
<1>2. /\ rows' \in LocalRows /\ Within(rows', rows) /\ NamesNot(o, rows') /\ o \notin rows'.create
  BY OfOperation, MarkFailedWithin, MarkFailedNames DEF DispatchThrows
<1> QED
  BY <1>1, <1>2, OfOperation, FaultBounded, LocalStep DEF DispatchThrows, ClientStep

LEMMA CompletionFailsStep ==
  ASSUME IInv, NEW o \in Op, CompletionFails(o)
  PROVE  IInv'
<1>1. /\ op[o].told <= (IF EventRead(o) THEN 1 ELSE 0)
      /\ EventRead(o) => o \in astray \/ o \in handled
      /\ o \in handled => op[o].told > 0
  BY OfOperation DEF CompletionFails, Over, TellingOf
<1>2. /\ rows' \in LocalRows /\ Within(rows', rows) /\ NamesNot(o, rows') /\ o \notin rows'.create
  BY OfOperation, MarkFailedWithin, MarkFailedNames DEF CompletionFails
<1> QED
  BY <1>1, <1>2, OfOperation, LocalStep DEF CompletionFails, ClientStep

LEMMA WaitThrowsStep ==
  ASSUME IInv, NEW o \in Op, WaitThrows(o)
  PROVE  IInv'
<1>1. op[o].told <= (IF EventRead(o) THEN 1 ELSE 0)
  BY OfOperation DEF WaitThrows, Over
<1>2. /\ rows' \in LocalRows /\ Within(rows', rows)
  BY OfOperation, MarkFailedWithin DEF WaitThrows
<1> QED
  BY <1>1, <1>2, OfOperation, FaultBounded, LocalStep DEF WaitThrows

LEMMA SucceededUntold ==
  ASSUME IInv, NEW o \in Op, op[o].remote = "succeeded", op[o].local = "waiting"
  PROVE  op[o].told = 0 /\ o \notin handled /\ ~EventRead(o)
BY OfOperation DEF TellingOf, EventRead, Over

LEMMA CompletionSucceedsStep ==
  ASSUME IInv, NEW o \in Op, CompletionSucceeds(o)
  PROVE  IInv'
<1>1. op[o].told = 0 /\ o \notin handled /\ ~EventRead(o)
  BY SucceededUntold DEF CompletionSucceeds, Succeeded
<1>2. /\ rows' \in LocalRows /\ Within(rows', rows)
  BY OfOperation DEF CompletionSucceeds, LocalRows, Within
<1> QED
  BY <1>1, <1>2, OfOperation, LocalStep DEF CompletionSucceeds, Succeeded, ClientStep

LEMMA AgentStartsStep ==
  ASSUME IInv, NEW o \in Op, AgentStarts(o)
  PROVE  IInv'
<1>1. op[o].told = 0 /\ o \notin handled /\ ~EventRead(o)
  BY SucceededUntold DEF AgentStarts, Succeeded
<1>2. /\ rows' \in LocalRows /\ Within(rows', rows)
  BY OfOperation, ClearWithin DEF AgentStarts
<1> QED
  BY <1>1, <1>2, OfOperation, LocalStep DEF AgentStarts, Succeeded, ClientStep

LEMMA LoadingUntold ==
  ASSUME IInv, NEW o \in Op, op[o].local = "loading"
  PROVE  /\ op[o].remote = "succeeded" /\ ~EventRead(o) /\ op[o].told <= 1
         /\ o \in handled => op[o].told > 0
BY OfOperation DEF TellingOf, EventRead, Over

LEMMA CatchesUpStep ==
  ASSUME IInv, NEW o \in Op, CatchesUp(o)
  PROVE  IInv'
<1>1. /\ op[o].remote = "succeeded" /\ ~EventRead(o) /\ op[o].told <= 1
      /\ o \in handled => op[o].told > 0
  BY LoadingUntold DEF CatchesUp
<1>2. view' \in Copy
  BY OfOperation, ShownTyped DEF CatchesUp, ObserverOK
<1>3. /\ Prune(rows, view') \in LocalRows /\ Within(Prune(rows, view'), rows)
      /\ Clear(o, Prune(rows, view')) \in LocalRows
      /\ Within(Clear(o, Prune(rows, view')), Prune(rows, view'))
  BY <1>2, OfOperation, PruneWithin, ClearWithin
<1>4. /\ rows' \in LocalRows /\ Within(rows', rows)
  BY <1>3 DEF CatchesUp, Within
<1>5. op[o].told > 0 /\ o \notin astray => NamesNot(o, rows') /\ o \notin rows'.create
  BY <1>1, <1>4, OfOperation DEF RowsOf, Over, CatchesUp, Unbound, NamesNot, Within
<1> QED
  BY <1>1, <1>2, <1>4, <1>5, OfOperation, LocalStep DEF CatchesUp, ClientStep

LEMMA LoadFailsStep ==
  ASSUME IInv, NEW o \in Op, LoadFails(o)
  PROVE  IInv'
<1>1. /\ op[o].remote = "succeeded" /\ ~EventRead(o) /\ op[o].told <= 1
      /\ o \in handled => op[o].told > 0
  BY LoadingUntold DEF LoadFails
<1>2. op[o].told > 0 /\ o \notin astray => NamesNot(o, rows) /\ o \notin rows.create
  BY <1>1, OfOperation DEF RowsOf, Over, LoadFails, Unbound, NamesNot
<1> QED
  BY <1>1, <1>2, OfOperation, FaultBounded, LocalStep DEF LoadFails, ClientStep

(* The receipt gives its id to a row of the name the operation goes by,    *)
(* whoever added it.                                                       *)
LEMMA ReceiptAcceptsStep ==
  ASSUME IInv, NEW o \in Op, ReceiptAccepts(o)
  PROVE  IInv'
<1>1. /\ op'[o].kind = op[o].kind /\ op'[o].session = op[o].session
      /\ op'[o].remote = op[o].remote /\ op'[o].local = "waiting"
      /\ op'[o].told = op[o].told
      /\ \A q \in Op \ {o} : op'[q] = op[q]
      /\ op' \in [Op -> Operation]
  BY LocalShape, OfOperation DEF ReceiptAccepts
<1>2. \A q \in Op : (Pending(q)' <=> Pending(q)) /\ (EventRead(q)' <=> EventRead(q))
  BY <1>1 DEF ReceiptAccepts, ClientStep, Pending, EventRead
<1>3. /\ rows' = Bind(o, rows) /\ rows' \in LocalRows /\ rows'.create = rows.create
      /\ UNCHANGED <<observer, view, wire, wanted, handled, screen, astray, changes, faults>>
  BY BindTyped DEF ReceiptAccepts, ClientStep, IInv
<1>4. /\ \A p \in rows'.remove : p \in rows.remove \/ (p.command = o /\ op[o].kind = "remove")
      /\ \A p \in rows'.start : p \in rows.start \/ (p.command = o /\ p.kind = op[o].kind)
      /\ \A p \in rows'.rename : \/ p \in rows.rename
                                 \/ p.command = o /\ op[o].kind = "rename" /\ p.session = op[o].session
  BY <1>3, OfOperation DEF Bind, Bound, LocalRows
<1>5. TypeOK'
  <2>1. \A p, q \in rows'.remove : p = q
    BY <1>3, OfOperation DEF Bind, Bound, TypeOK
  <2>2. \A p, q \in rows'.start : p = q
    BY <1>3, OfOperation DEF Bind, Bound, TypeOK
  <2>3. \A p, q \in rows'.rename : p.session = q.session => p = q
    <3>1. SUFFICES ASSUME NEW p \in rows'.rename, NEW q \in rows'.rename, p.session = q.session
                   PROVE  p = q
      OBVIOUS
    <3> DEFINE Now(r) == IF op[o].kind = "rename" /\ r.session = op[o].session
                         THEN Bound(o, r) ELSE r
    <3>2. rows'.rename = {Now(r) : r \in rows.rename}
      BY <1>3 DEF Bind
    <3>3. \A r \in rows.rename : Now(r).session = r.session
      BY OfOperation DEF Bound, LocalRows
    <3>4. PICK a \in rows.rename, b \in rows.rename : p = Now(a) /\ q = Now(b)
      BY <3>2
    <3>5. a = b
      BY <3>1, <3>3, <3>4, OfOperation DEF TypeOK
    <3> QED
      BY <3>4, <3>5
  <2> QED
    BY <1>1, <1>3, <2>1, <2>2, <2>3, OfOperation, ObserverKept DEF TypeOK
<1>6. FailedFollows'
  <2>1. ASSUME NEW q \in Op, Pending(q)' PROVE op'[q].remote = "failed"
    BY <1>1, <1>2, <2>1 DEF IInv, FailedFollows
  <2>2. \A q \in Op : Once(wire', q)
    BY <1>3, FailedParts DEF IInv
  <2> QED
    BY <2>1, <2>2, FailedParts
<1>7. ASSUME NEW q \in Op PROVE RowsOf(q)'
  <2>1. NamedBy(q)'
    BY <1>1, <1>3, <1>4, OfOperation DEF NamedBy
  <2>2. ASSUME q # o, Unbound(q) PROVE Unbound(q)'
    BY <1>4, <2>2 DEF Unbound
  <2> QED
    BY <1>1, <1>2, <1>3, <2>1, <2>2, OfOperation DEF RowsOf, Over
<1>8. ASSUME NEW q \in Op, q # o PROVE TellingOf(q)'
  BY <1>1, <1>2, <1>3, <1>8, TellingKept, OfOperation
<1>9. TellingOf(o)'
  <2>1. op[o].local = "dispatching"
    BY DEF ReceiptAccepts
  <2> QED
    BY <1>1, <1>2, <1>3, <2>1, OfOperation DEF TellingOf, Over
<1> QED
  BY <1>5, <1>6, <1>7, <1>8, <1>9 DEF IInv, RowsFollow, TellingFollows

-----------------------------------------------------------------------------
(* Keys add rows that no command has been bound to yet. *)

LEMMA BeginStep ==
  ASSUME IInv, NEW o \in Op, NEW kind \in Kind, NEW session \in Nat, NEW title \in Title,
         Begin(o, kind, session, title), rows' \in LocalRows,
         rows'.create \subseteq rows.create \cup {o},
         \A p \in rows'.remove \cup rows'.start \cup rows'.rename :
           p \in rows.remove \cup rows.start \cup rows.rename \/ p.command = NoOp,
         \A p \in rows'.remove : p \in rows.remove \/ p.command = NoOp,
         \A p \in rows'.start : p \in rows.start \/ p.command = NoOp,
         \A p \in rows'.rename : p \in rows.rename \/ p.command = NoOp,
         \A p, q \in rows'.remove : p = q,
         \A p, q \in rows'.start : p = q,
         \A p, q \in rows'.rename : p.session = q.session => p = q
  PROVE  IInv'
<1>1. /\ op[o].local = "none" /\ op[o].remote = "none" /\ op[o].told = 0 /\ o \notin handled
      /\ ~EventRead(o) /\ Unbound(o) /\ ~Pending(o)
  BY OfOperation, FailedParts DEF Begin, TellingOf, RowsOf, EventRead, Over, IInv
<1>2. /\ op'[o].kind = kind /\ op'[o].session = session
      /\ op'[o].remote = "none" /\ op'[o].local = "dispatching" /\ op'[o].told = 0
      /\ \A q \in Op \ {o} : op'[q] = op[q]
      /\ op' \in [Op -> Operation]
  BY OfOperation DEF Begin, TypeOK, Operation
<1>3. UNCHANGED <<observer, view, wire, wanted, handled, astray, changes, faults>> /\ screen' = Dashboard
  BY DEF Begin
<1>4. \A q \in Op : Pending(q)' <=> Pending(q)
  BY <1>3 DEF Pending
<1>5. TypeOK'
  BY <1>2, <1>3, OfOperation, ObserverKept, DashboardAssumption DEF TypeOK, Dashboard, Screen
<1>6. FailedFollows'
  <2>1. ASSUME NEW q \in Op, Pending(q)' PROVE op'[q].remote = "failed"
    BY <1>1, <1>2, <1>4, <2>1 DEF IInv, FailedFollows
  <2>2. \A q \in Op : Once(wire', q)
    BY <1>3, FailedParts DEF IInv
  <2> QED
    BY <2>1, <2>2, FailedParts
<1>7. ASSUME NEW q \in Op, q # o PROVE RowsOf(q)' /\ TellingOf(q)'
  <2>1. TellingOf(q)' /\ (EventRead(q)' <=> EventRead(q)) /\ (Over(q)' <=> Over(q))
    BY <1>2, <1>3, <1>4, <1>7, TellingKept, OfOperation
  <2>2. NamedBy(q)'
    BY <1>2, <1>7, OfOperation, DashboardAssumption DEF NamedBy
  <2>3. Unbound(q) => Unbound(q)'
    BY DashboardAssumption DEF Unbound
  <2>4. q \notin rows.create => q \notin rows'.create
    BY <1>7
  <2> QED
    BY <1>2, <1>3, <1>7, <2>1, <2>2, <2>3, <2>4, OfOperation DEF RowsOf
<1>8. RowsOf(o)'
  <2>1. Unbound(o)'
    BY <1>1, DashboardAssumption DEF Unbound
  <2> QED
    BY <1>2, <2>1 DEF RowsOf, NamedBy, Unbound, Over
<1>9. TellingOf(o)'
  BY <1>1, <1>2, <1>3, <1>4 DEF TellingOf, Over, EventRead
<1> QED
  BY <1>5, <1>6, <1>7, <1>8, <1>9 DEF IInv, RowsFollow, TellingFollows

LEMMA SubmitCreateStep ==
  ASSUME IInv, NEW o \in Op, SubmitCreate(o)
  PROVE  IInv'
<1>1. /\ rows'.create = rows.create \cup {o} /\ rows'.remove = rows.remove
      /\ rows'.start = rows.start /\ rows'.rename = rows.rename /\ rows' \in LocalRows
  BY OfOperation DEF SubmitCreate, LocalRows
<1>2. Begin(o, "create", 0, Branch) /\ "create" \in Kind /\ 0 \in Nat /\ Branch \in Title
  BY DashboardAssumption DEF SubmitCreate, Kind
<1>3. /\ \A p, q \in rows.remove : p = q
      /\ \A p, q \in rows.start : p = q
      /\ \A p, q \in rows.rename : p.session = q.session => p = q
  BY DEF IInv, TypeOK
<1> QED
  BY <1>1, <1>2, <1>3, BeginStep

LEMMA PressRowStep ==
  ASSUME IInv, NEW o \in Op, PressRow(o)
  PROVE  IInv'
<1>1. PICK kind \in {"start", "resume"} :
        /\ Begin(o, kind, 0, Branch)
        /\ rows' = [rows EXCEPT !.start = {[kind |-> kind, command |-> NoOp]}]
  BY DEF PressRow
<1>2. /\ rows'.create = rows.create /\ rows'.remove = rows.remove
      /\ rows'.start = {[kind |-> kind, command |-> NoOp]} /\ rows'.rename = rows.rename
      /\ rows' \in LocalRows
  BY <1>1, OfOperation DEF LocalRows, Command
<1>3. Begin(o, kind, 0, Branch) /\ kind \in Kind /\ 0 \in Nat /\ Branch \in Title
  BY <1>1, DashboardAssumption DEF Kind
<1>4. /\ \A p \in rows'.start : p.command = NoOp
      /\ \A p, q \in rows'.start : p = q
  BY <1>2
<1> QED
  BY <1>2, <1>3, <1>4, OfOperation, BeginStep DEF TypeOK

LEMMA ConfirmRemoveStep ==
  ASSUME IInv, NEW o \in Op, ConfirmRemove(o)
  PROVE  IInv'
<1>1. /\ rows'.create = rows.create /\ rows'.remove = {[command |-> NoOp]}
      /\ rows'.start = rows.start /\ rows'.rename = rows.rename /\ rows' \in LocalRows
  BY OfOperation DEF ConfirmRemove, LocalRows, Command
<1>2. Begin(o, "remove", 0, Branch) /\ "remove" \in Kind /\ 0 \in Nat /\ Branch \in Title
  BY DashboardAssumption DEF ConfirmRemove, Kind
<1> QED
  BY <1>1, <1>2, OfOperation, BeginStep DEF TypeOK

LEMMA SubmitRenameStep ==
  ASSUME IInv, NEW o \in Op, SubmitRename(o)
  PROVE  IInv'
<1>1. PICK title \in Title :
        /\ Begin(o, "rename", screen.session, title)
        /\ rows' = [rows EXCEPT !.rename =
                      {p \in @ : p.session # screen.session}
                      \cup {[session |-> screen.session, title |-> title, command |-> NoOp]}]
  BY DEF SubmitRename
<1> DEFINE new == [session |-> screen.session, title |-> title, command |-> NoOp]
           kept == {p \in rows.rename : p.session # screen.session}
<1>2. screen.session \in Nat /\ "rename" \in Kind
  BY OfOperation DEF TypeOK, Screen, Kind
<1>3. new \in [session : Nat, title : Title, command : Command] /\ kept \subseteq rows.rename
  BY <1>2 DEF Command
<1>4. /\ rows'.create = rows.create /\ rows'.remove = rows.remove
      /\ rows'.start = rows.start /\ rows'.rename = kept \cup {new}
      /\ rows' \in LocalRows
  BY <1>1, <1>3, OfOperation DEF LocalRows
<1>5. \A p, q \in rows'.rename : p.session = q.session => p = q
  BY <1>4, OfOperation DEF TypeOK
<1> QED
  BY <1>1, <1>2, <1>4, <1>5, OfOperation, BeginStep DEF TypeOK

-----------------------------------------------------------------------------
(* Steps that leave the operations alone. *)

LEMMA StillStep ==
  ASSUME IInv, UNCHANGED <<op, handled, astray>>,
         rows' \in LocalRows, Within(rows', rows),
         ObserverOK', view' \in Copy, wanted' \in BOOLEAN, screen' \in Screen,
         changes' \in Nat, faults' \in 0..MaxFaults, wire' \in Seq(Event),
         \A q \in Op : (Pending(q)' <=> Pending(q)) /\ (Once(wire, q) => Once(wire', q))
  PROVE  IInv'
<1>1. TypeOK'
  BY DEF IInv, TypeOK, Within
<1>2. FailedFollows'
  BY FailedParts DEF IInv
<1>3. ASSUME NEW q \in Op PROVE RowsOf(q)' /\ TellingOf(q)'
  BY TellingKept, RowsKept, OfOperation
<1> QED
  BY <1>1, <1>2, <1>3 DEF IInv, RowsFollow, TellingFollows

LEMMA SameWire ==
  ASSUME wire' = wire
  PROVE  \A q \in Op : (Pending(q)' <=> Pending(q)) /\ (Once(wire, q) => Once(wire', q))
BY DEF Pending

LEMMA FailedExpiresStep ==
  ASSUME IInv, NEW o \in Op, FailedExpires(o)
  PROVE  IInv'
<1>1. rows' \in LocalRows /\ Within(rows', rows)
  BY OfOperation DEF FailedExpires, LocalRows, Within
<1> QED
  BY <1>1, SameWire, ObserverKept, OfOperation, StillStep DEF FailedExpires, TypeOK

LEMMA ScreenStep ==
  ASSUME IInv, ChooseRemove \/ ChooseRename \/ LeaveScreen
  PROVE  IInv'
<1>1. \A t \in view.sessions : t.id \in Nat /\ DisplayTitle(t) \in Title
  <2>1. SUFFICES ASSUME NEW t \in view.sessions PROVE t.id \in Nat /\ DisplayTitle(t) \in Title
    OBVIOUS
  <2>2. t.id \in Nat /\ t.title \in Title
    BY DEF IInv, TypeOK, Copy, Session
  <2>3. CASE \E p \in rows.rename : p.session = t.id
    BY <2>2, <2>3, OfOperation DEF DisplayTitle, IInv, TypeOK, LocalRows
  <2>4. CASE ~\E p \in rows.rename : p.session = t.id
    BY <2>2, <2>4 DEF DisplayTitle
  <2> QED
    BY <2>2, <2>3, <2>4
<1>2. screen' \in Screen
  BY <1>1, DashboardAssumption
     DEF ChooseRemove, ChooseRename, LeaveScreen, Show, Dashboard, Screen, IInv, TypeOK
<1>3. UNCHANGED <<observer, view, wire, wanted, rows, op, handled, astray, changes, faults>>
  BY DEF ChooseRemove, ChooseRename, LeaveScreen, Show
<1> QED
  BY <1>2, <1>3, SameWire, ObserverKept, StillStep DEF IInv, TypeOK, Within

LEMMA SnapshotLoadedStep ==
  ASSUME IInv, SnapshotLoaded
  PROVE  IInv'
<1>1. view' \in Copy
  BY ShownTyped DEF SnapshotLoaded, Reduced, IInv, TypeOK, ObserverOK
<1>2. rows' \in LocalRows /\ Within(rows', rows)
  BY <1>1, PruneWithin DEF SnapshotLoaded, Reduced, IInv, TypeOK
<1> QED
  BY <1>1, <1>2, SameWire, ObserverKept, StillStep DEF SnapshotLoaded, Reduced, IInv, TypeOK

LEMMA PatchedTyped ==
  ASSUME NEW v \in Copy, NEW e \in Event
  PROVE  Patched(v, e) \in Copy
<1>1. v.row \in State /\ v.sessions \subseteq Session /\ v = [row |-> v.row, sessions |-> v.sessions]
  BY DEF Copy
<1>2. CASE e \in [type : {"worktree.agentStateChanged"}, state : State]
  BY <1>1, <1>2 DEF Patched, Copy
<1>3. CASE e = WorktreeRemoved
  BY <1>3 DEF Patched, WorktreeRemoved, Copy, State
<1>4. CASE e \in [type : {"session.created", "session.updated"}, session : Nat, title : Title]
  <2>1. [id |-> e.session, title |-> e.title] \in Session /\ e.title \in Title
    BY <1>4 DEF Session
  <2>2. {t \in v.sessions : t.id # e.session} \cup {[id |-> e.session, title |-> e.title]}
          \subseteq Session
    BY <1>1, <2>1
  <2>3. {IF t.id = e.session THEN [t EXCEPT !.title = e.title] ELSE t : t \in v.sessions}
          \subseteq Session
    BY <1>1, <2>1 DEF Session
  <2>4. CASE e.type = "session.created"
    BY <1>1, <2>2, <2>4 DEF Patched, Copy
  <2>5. CASE e.type = "session.updated"
    BY <1>1, <2>3, <2>5 DEF Patched, Copy
  <2> QED
    BY <1>4, <2>4, <2>5
<1>5. CASE e \in [type : {"session.removed"}, session : Nat]
  BY <1>1, <1>5 DEF Patched, Copy
<1>6. CASE e \in [type : {"command.failed"}, command : Op] \cup {Reconciled}
  BY <1>6 DEF Patched, Reconciled
<1> QED
  BY <1>2, <1>3, <1>4, <1>5, <1>6 DEF Event, Patch

LEMMA ReadOther ==
  ASSUME IInv, NEW type, NextIs(type), type # "command.failed"
  PROVE  /\ wire' \in Seq(Event)
         /\ \A q \in Op : (Pending(q)' <=> Pending(q)) /\ (Once(wire, q) => Once(wire', q))
<1>1. \A q \in Op : Head(wire) # Failed(q)
  BY DEF NextIs, Failed
<1>2. wire \in Seq(Event) /\ wire # <<>> /\ wire' = Tail(wire)
  BY DEF NextIs, IInv, TypeOK
<1>3. wire' \in Seq(Event)
  BY <1>2
<1> QED
  BY <1>1, <1>2, <1>3, TailOther, PendingIsIn

LEMMA ReadAnnouncementStep ==
  ASSUME IInv, ReadAnnouncement
  PROVE  IInv'
<1>1. rows' \in LocalRows /\ Within(rows', rows)
  BY PruneWithin DEF ReadAnnouncement, Reduced, IInv, TypeOK
<1>2. NextIs("observer.reconciled")
  BY DEF ReadAnnouncement
<1> QED
  BY <1>1, <1>2, ReadOther, ObserverKept, StillStep DEF ReadAnnouncement, Reduced, IInv, TypeOK

LEMMA ReadPatchStep ==
  ASSUME IInv, ReadPatch
  PROVE  IInv'
<1>1. /\ wire \in Seq(Event) /\ wire # <<>> /\ wire' = Tail(wire) /\ wire' \in Seq(Event)
      /\ Head(wire) \in Patch /\ Head(wire) \in Event /\ view \in Copy
  BY DEF ReadPatch, IInv, TypeOK, Event
<1>2. \A q \in Op : Head(wire) # Failed(q)
  BY <1>1 DEF Patch, WorktreeRemoved, Failed
<1>3. \A q \in Op : (Pending(q)' <=> Pending(q)) /\ (Once(wire, q) => Once(wire', q))
  BY <1>1, <1>2, TailOther, PendingIsIn
<1>4. view' \in Copy
  BY <1>1, PatchedTyped DEF ReadPatch, Reduced
<1>5. rows' \in LocalRows /\ Within(rows', rows)
  BY <1>4, PruneWithin DEF ReadPatch, Reduced, IInv, TypeOK
<1> QED
  BY <1>1, <1>3, <1>4, <1>5, ObserverKept, StillStep DEF ReadPatch, IInv, TypeOK

LEMMA PatchesTyped ==
  ASSUME TypeOK, NEW r \in Row
  PROVE  Patches(r) \in Seq(Patch)
<1>1. /\ SessionRemoved(truth) \in Patch /\ WorktreeRemoved \in Patch
      /\ Renamed(r) \in Patch /\ Created(r) \in Patch
  BY DEF TypeOK, ObserverOK, Row, Patch, SessionRemoved, Renamed, Created
<1> DEFINE ended == IF HasSession(truth) THEN <<SessionRemoved(truth)>> ELSE <<>>
<1>2. ended \in Seq(Patch)
  BY <1>1
<1> HIDE DEF ended
<1>3. /\ Append(ended, WorktreeRemoved) \in Seq(Patch)
      /\ <<Renamed(r)>> \in Seq(Patch) /\ <<Created(r)>> \in Seq(Patch)
  BY <1>1, <1>2
<1> QED
  BY <1>2, <1>3 DEF Patches, ended

LEMMA CommandedTyped ==
  ASSUME TypeOK, NEW c \in Command, NEW r \in Row, Commanded(c, r)
  PROVE  ObserverOK' /\ wire' = Append(wire, Reconciled) /\ truth' = r
<1>1. owed[c] \in Seq(Patch) /\ Patches(r) \in Seq(Patch)
  BY PatchesTyped DEF TypeOK, ObserverOK
<1>2. owed[c] \o Patches(r) \in Seq(Patch)
  BY <1>1
<1>3. owed' \in [Command -> Seq(Patch)]
  BY <1>2 DEF Commanded, TypeOK, ObserverOK
<1> QED
  BY <1>3 DEF Commanded, Announced, TypeOK, ObserverOK

LEMMA LaunchedTyped ==
  ASSUME TypeOK
  PROVE  /\ truth \in Row /\ Launched(truth) \in Row
         /\ \A state \in State : [truth EXCEPT !.state = state] \in Row
         /\ \A t \in Title : [truth EXCEPT !.title = t] \in Row
<1>1. truth \in Row
  BY DEF TypeOK, ObserverOK
<1>2. Launched(truth) \in Row
  BY <1>1, DashboardAssumption DEF Row, Launched, State
<1> QED
  BY <1>1, <1>2 DEF Row

LEMMA OutsideStep ==
  ASSUME IInv, Outside, ObserverOK', wire' \in Seq(Event),
         \A o \in Op : (Pending(o)' <=> Pending(o)) /\ (Once(wire, o) => Once(wire', o))
  PROVE  IInv'
<1>1. changes' \in Nat
  BY DEF Outside, IInv, TypeOK
<1> QED
  BY <1>1, StillStep DEF Outside, IInv, TypeOK, Within

LEMMA OthersCommandStep ==
  ASSUME IInv, OthersCommand
  PROVE  IInv'
<1>1. TypeOK /\ NoOp \in Command
  BY DEF IInv, Command
<1>2. \E r \in Row : Commanded(NoOp, r)
  <2>1. "bare" \in State /\ "none" \in State
    BY DEF State
  <2> QED
    BY <1>1, <2>1, LaunchedTyped DEF OthersCommand
<1>3. ObserverOK' /\ wire' = Append(wire, Reconciled)
  BY <1>1, <1>2, CommandedTyped
<1> QED
  BY <1>1, <1>3, PublishedOther, OutsideStep DEF OthersCommand

LEMMA ReconcileFindsStep ==
  ASSUME IInv, ReconcileFinds
  PROVE  IInv'
<1> DEFINE told == Append(wire, AgentChanged(truth'.state))
<1>1. truth' \in Row
  BY LaunchedTyped DEF ReconcileFinds, IInv
<1>2. ObserverOK'
  BY <1>1 DEF ReconcileFinds, IInv, TypeOK, ObserverOK
<1>3. /\ AgentChanged(truth'.state) \in Event /\ Reconciled \in Event /\ wire \in Seq(Event)
      /\ \A o \in Op : AgentChanged(truth'.state) # Failed(o) /\ Reconciled # Failed(o)
  BY <1>1 DEF AgentChanged, Reconciled, Failed, Event, Patch, Row, IInv, TypeOK
<1>4. /\ told \in Seq(Event)
      /\ \A o \in Op : (In(told, o) <=> In(wire, o)) /\ (Once(wire, o) => Once(told, o))
  BY <1>3, AppendOther
<1>5. wire' = Append(told, Reconciled) \/ wire' = Append(wire, Reconciled)
  BY DEF ReconcileFinds
<1> HIDE DEF told
<1>6. /\ Append(told, Reconciled) \in Seq(Event) /\ Append(wire, Reconciled) \in Seq(Event)
      /\ \A o \in Op : /\ In(Append(told, Reconciled), o) <=> In(told, o)
                       /\ Once(told, o) => Once(Append(told, Reconciled), o)
                       /\ In(Append(wire, Reconciled), o) <=> In(wire, o)
                       /\ Once(wire, o) => Once(Append(wire, Reconciled), o)
  BY <1>3, <1>4, AppendOther
<1>7. /\ wire' \in Seq(Event)
      /\ \A o \in Op : (Pending(o)' <=> Pending(o)) /\ (Once(wire, o) => Once(wire', o))
  BY <1>4, <1>5, <1>6, PendingIsIn
<1> QED
  BY <1>2, <1>7, OutsideStep DEF ReconcileFinds

LEMMA ReportProjectsStep ==
  ASSUME IInv, ReportProjects
  PROVE  IInv'
<1>1. truth' \in Row
  BY LaunchedTyped DEF ReportProjects, IInv, State
<1>2. owed' \in [Command -> Seq(Patch)]
  <2>1. /\ owed[NoOp] \in Seq(Patch) /\ AgentChanged("lost") \in Patch
        /\ owed \in [Command -> Seq(Patch)]
    BY DEF IInv, TypeOK, ObserverOK, Command, AgentChanged, Patch, State
  <2>2. Append(owed[NoOp], AgentChanged("lost")) \in Seq(Patch)
    BY <2>1
  <2> QED
    BY <2>1, <2>2 DEF ReportProjects
<1>3. ObserverOK'
  BY <1>1, <1>2 DEF ReportProjects, IInv, TypeOK, ObserverOK
<1> QED
  BY <1>3, SameWire, OutsideStep DEF ReportProjects, IInv, TypeOK

LEMMA ScheduledReconcileStep ==
  ASSUME IInv, ScheduledReconcile
  PROVE  IInv'
<1>1. ObserverOK' /\ wire' = Append(wire, Reconciled)
  BY DEF ScheduledReconcile, Announced, IInv, TypeOK, ObserverOK
<1> QED
  BY <1>1, PublishedOther, StillStep DEF ScheduledReconcile, IInv, TypeOK, Within

LEMMA PublishTyped ==
  ASSUME TypeOK, NEW c \in Command, Publish(c)
  PROVE  ObserverOK' /\ Head(owed[c]) \in Patch /\ wire' = Append(wire, Head(owed[c]))
<1>1. owed \in [Command -> Seq(Patch)] /\ owed[c] \in Seq(Patch) /\ owed[c] # <<>>
  BY DEF Publish, TypeOK, ObserverOK
<1>2. Tail(owed[c]) \in Seq(Patch) /\ Head(owed[c]) \in Patch
  BY <1>1
<1>3. owed' \in [Command -> Seq(Patch)]
  BY <1>1, <1>2 DEF Publish
<1> QED
  BY <1>2, <1>3 DEF Publish, TypeOK, ObserverOK

LEMMA PublishStep ==
  ASSUME IInv, NEW c \in Command, Publish(c)
  PROVE  IInv'
<1>1. ObserverOK' /\ Head(owed[c]) \in Patch /\ wire' = Append(wire, Head(owed[c]))
  BY PublishTyped DEF IInv
<1> QED
  BY <1>1, PublishedOther, StillStep DEF Publish, IInv, TypeOK, Within

-----------------------------------------------------------------------------
(* The observer's steps: an answer, an effect, then one end, of a command  *)
(* whose failed event is not published yet.                                *)

LEMMA RemoteStep ==
  ASSUME IInv, NEW o \in Op, NEW from \in {"none", "accepted", "reconciled"},
         NEW to \in {"accepted", "rejected", "reconciled", "succeeded", "failed"},
         Remote(o, from, to),
         ObserverOK', wire' \in Seq(Event),
         op[o].local # "none",
         \A q \in Op \ {o} : Pending(q)' <=> Pending(q),
         Pending(o)' <=> to = "failed",
         \A q \in Op : Once(wire', q)
  PROVE  IInv'
<1>1. /\ op'[o].kind = op[o].kind /\ op'[o].session = op[o].session
      /\ op'[o].remote = to /\ op'[o].local = op[o].local /\ op'[o].told = op[o].told
      /\ \A q \in Op \ {o} : op'[q] = op[q]
      /\ op' \in [Op -> Operation]
  BY OfOperation DEF Remote, TypeOK, Operation
<1>2. UNCHANGED <<view, wanted, rows, handled, screen, astray, changes, faults>>
  BY DEF Remote
<1>3. ~EventRead(o) /\ ~EventRead(o)' /\ op[o].remote \in {"none", "accepted", "reconciled"}
  BY <1>1 DEF Remote, EventRead
<1>4. TypeOK'
  BY <1>1, <1>2 DEF IInv, TypeOK
<1>5. FailedFollows'
  BY <1>1, FailedParts DEF IInv
<1>6. ASSUME NEW q \in Op, q # o PROVE RowsOf(q)' /\ TellingOf(q)'
  BY <1>1, <1>2, <1>6, TellingKept, RowsKept, OfOperation
<1>7. RowsOf(o)'
  BY <1>1, <1>2, <1>3, OfOperation DEF RowsOf, NamedBy, Unbound, Over
<1>8. TellingOf(o)'
  BY <1>1, <1>2, <1>3, OfOperation DEF TellingOf, Over
<1> QED
  BY <1>4, <1>5, <1>6, <1>7, <1>8 DEF IInv, RowsFollow, TellingFollows

LEMMA ReceiveStep ==
  ASSUME IInv, NEW o \in Op, Receive(o)
  PROVE  IInv'
<1>1. PICK answer \in {"accepted", "rejected"} : Remote(o, "none", answer)
  BY DEF Receive
<1>2. op[o].remote = "none" /\ op[o].local # "none" /\ UNCHANGED <<observer, wire>>
  BY <1>1 DEF Receive, Remote
<1>3. ~Pending(o) /\ \A q \in Op : Once(wire', q) /\ (Pending(q)' <=> Pending(q))
  BY <1>2, SameWire, FailedParts DEF IInv
<1> QED
  BY <1>1, <1>2, <1>3, ObserverKept, RemoteStep DEF IInv, TypeOK

LEMMA CommandFailsStep ==
  ASSUME IInv, NEW o \in Op, CommandFails(o)
  PROVE  IInv'
<1>1. PICK from \in {"accepted", "reconciled"} : Remote(o, from, "failed")
  BY DEF CommandFails
<1>2. /\ op[o].remote = from
      /\ wire' = Append(wire, Failed(o)) /\ wire \in Seq(Event)
  BY <1>1 DEF CommandFails, Remote, IInv, TypeOK
<1>3. ~Pending(o) /\ \A q \in Op : Once(wire, q)
  BY <1>2, FailedParts DEF IInv
<1>4. wire' \in Seq(Event) /\ Pending(o)' /\ Once(wire', o)
  BY <1>2, <1>3, AppendFailed, PendingIsIn
<1>5. ASSUME NEW q \in Op \ {o} PROVE (Pending(q)' <=> Pending(q)) /\ Once(wire', q)
  <2>1. Failed(o) # Failed(q) /\ Failed(o) \in Event
    BY DEF Failed, Event
  <2> QED
    BY <1>2, <1>3, <2>1, AppendOther, PendingIsIn
<1>6. ObserverOK'
  <2>1. owed \in [Command -> Seq(Patch)] /\ <<>> \in Seq(Patch)
    BY DEF IInv, TypeOK, ObserverOK
  <2>2. owed' \in [Command -> Seq(Patch)]
    BY <2>1 DEF CommandFails
  <2> QED
    BY <2>2 DEF CommandFails, IInv, TypeOK, ObserverOK
<1>7. op[o].local # "none"
  BY <1>2, OfOperation DEF TellingOf
<1> QED
  BY <1>1, <1>4, <1>5, <1>6, <1>7, RemoteStep

LEMMA EffectTyped ==
  ASSUME IInv, NEW o \in Op, NEW r \in Effect(o)
  PROVE  r \in Row
<1>1. truth \in Row /\ op[o].title \in Title /\ Branch \in Title
  BY OfOperation, DashboardAssumption DEF Operation, ObserverOK
<1> QED
  BY <1>1 DEF Effect, Launched, Row, State

LEMMA CommandTakesEffectStep ==
  ASSUME IInv, NEW o \in Op, CommandTakesEffect(o)
  PROVE  IInv'
<1>1. TypeOK /\ o \in Command /\ Remote(o, "accepted", "reconciled") /\ op[o].remote = "accepted"
  BY DEF CommandTakesEffect, Remote, IInv, Command
<1>2. PICK r \in Effect(o) : Commanded(o, r)
  BY DEF CommandTakesEffect
<1>3. ObserverOK' /\ wire' = Append(wire, Reconciled)
  BY <1>1, <1>2, EffectTyped, CommandedTyped
<1>4. ~Pending(o) /\ \A q \in Op : Once(wire, q)
  BY <1>1, FailedParts DEF IInv
<1>5. /\ wire' \in Seq(Event)
      /\ \A q \in Op : (Pending(q)' <=> Pending(q)) /\ Once(wire', q)
  BY <1>1, <1>3, <1>4, PublishedOther
<1>6. op[o].local # "none"
  BY <1>1, OfOperation DEF TellingOf
<1> QED
  BY <1>1, <1>3, <1>4, <1>5, <1>6, RemoteStep

LEMMA CommandSucceedsStep ==
  ASSUME IInv, NEW o \in Op, CommandSucceeds(o)
  PROVE  IInv'
<1>1. /\ Remote(o, "reconciled", "succeeded") /\ op[o].remote = "reconciled"
      /\ UNCHANGED <<observer, wire>>
  BY DEF CommandSucceeds, Remote
<1>2. ~Pending(o) /\ \A q \in Op : Once(wire', q) /\ (Pending(q)' <=> Pending(q))
  BY <1>1, SameWire, FailedParts DEF IInv
<1>3. op[o].local # "none"
  BY <1>1, OfOperation DEF TellingOf
<1> QED
  BY <1>1, <1>2, <1>3, ObserverKept, RemoteStep DEF IInv, TypeOK

-----------------------------------------------------------------------------
(* A failed event is read once.  It finds a row of its command or leaves   *)
(* the command astray, so the end of the operation tells at most once more *)
(* and only then.                                                          *)

LEMMA ReadFailedOf ==
  ASSUME IInv, ReadFailed, NEW o \in Op, Head(wire) = Failed(o)
  PROVE  IInv'
<1>1. /\ wire \in Seq(Event) /\ wire # <<>> /\ wire' = Tail(wire)
      /\ o \in Op /\ Head(wire) = Failed(o) /\ Head(wire).command = o
  BY DEF ReadFailed, NextIs, IInv, TypeOK, Failed
<1>2. /\ view' = view
      /\ rows' = IF LocalRow(o) THEN Drop(o, Prune(rows, view)) ELSE Prune(rows, view)
      /\ handled' = IF LocalRow(o) THEN handled \cup {o} ELSE handled
      /\ astray' = IF LocalRow(o) THEN astray ELSE astray \cup {o}
      /\ op' = [op EXCEPT ![o].told = IF LocalRow(o) \/ o \notin handled THEN @ + 1 ELSE @]
      /\ UNCHANGED <<observer, wanted, screen, changes, faults>>
  BY <1>1 DEF ReadFailed
<1>3. Pending(o) /\ ~Pending(o)' /\ wire' \in Seq(Event) /\ Once(wire', o)
  BY <1>1, TailFailed, PendingIsIn, FailedParts DEF IInv
<1>4. ASSUME NEW q \in Op, q # o PROVE (Pending(q)' <=> Pending(q)) /\ Once(wire', q)
  <2>1. Head(wire) # Failed(q)
    BY <1>1, <1>4 DEF Failed
  <2> QED
    BY <1>1, <2>1, TailOther, PendingIsIn, FailedParts DEF IInv
<1>5. op[o].remote = "failed" /\ ~EventRead(o)
  BY <1>1, <1>3, FailedParts DEF EventRead, IInv
<1>6. /\ op[o].local \in {"dispatching", "waiting", "ended"}
      /\ op[o].told = (IF Over(o) THEN 1 ELSE 0)
      /\ op[o].told > 1 => o \in astray
      /\ o \in handled => op[o].told > 0
  BY <1>1, <1>5, OfOperation DEF TellingOf, Over, Operation
<1>7. Over(o) /\ o \notin astray => ~LocalRow(o)
  BY <1>1, <1>5, <1>6, OfOperation DEF RowsOf, LocalRow, Unbound
<1>8. op[o].local = "dispatching" => ~LocalRow(o)
  BY <1>1, OfOperation DEF RowsOf, LocalRow, Unbound
<1>9. /\ op'[o].kind = op[o].kind /\ op'[o].session = op[o].session
      /\ op'[o].remote = "failed" /\ op'[o].local = op[o].local
      /\ op'[o].told = IF LocalRow(o) \/ o \notin handled THEN op[o].told + 1 ELSE op[o].told
      /\ \A q \in Op \ {o} : op'[q] = op[q]
      /\ op' \in [Op -> Operation]
  <2> DEFINE told == IF LocalRow(o) \/ o \notin handled THEN op[o].told + 1 ELSE op[o].told
  <2>1. /\ op' = [op EXCEPT ![o].told = told]
        /\ op \in [Op -> Operation] /\ op[o] \in Operation
    BY <1>1, <1>2, OfOperation DEF TypeOK
  <2>2. told \in 0..2
    BY <1>6
  <2> HIDE DEF told
  <2>3. /\ op'[o] = [op[o] EXCEPT !.told = told]
        /\ \A q \in Op \ {o} : op'[q] = op[q]
    BY <2>1
  <2>4. /\ op'[o].kind = op[o].kind /\ op'[o].session = op[o].session
        /\ op'[o].remote = op[o].remote /\ op'[o].local = op[o].local
        /\ op'[o].told = told /\ op'[o] \in Operation
    BY <2>1, <2>2, <2>3 DEF Operation
  <2>5. op' \in [Op -> Operation]
    BY <2>1, <2>3, <2>4
  <2> QED
    BY <1>5, <2>3, <2>4, <2>5 DEF told
<1>10. /\ rows' \in LocalRows /\ Within(rows', rows)
       /\ LocalRow(o) => NamesNot(o, rows') /\ o \notin rows'.create
  <2>1. /\ Prune(rows, view) \in LocalRows /\ Within(Prune(rows, view), rows)
        /\ Drop(o, Prune(rows, view)) \in LocalRows
        /\ Within(Drop(o, Prune(rows, view)), Prune(rows, view))
        /\ NamesNot(o, Drop(o, Prune(rows, view))) /\ o \notin Drop(o, Prune(rows, view)).create
    BY <1>1, OfOperation, PruneWithin, DropWithin
  <2> QED
    BY <1>2, <2>1 DEF Within
<1>11. TypeOK'
  BY <1>1, <1>2, <1>3, <1>9, <1>10, ObserverKept DEF IInv, TypeOK, Within
<1>12. FailedFollows'
  BY <1>3, <1>4, <1>9, FailedParts DEF IInv
<1>13. ASSUME NEW q \in Op, q # o PROVE RowsOf(q)' /\ TellingOf(q)'
  <2>1. op'[q] = op[q] /\ astray \subseteq astray' /\ (q \in handled' <=> q \in handled)
    BY <1>2, <1>9, <1>13
  <2> QED
    BY <1>4, <1>10, <1>13, <2>1, TellingKept, RowsKept, OfOperation
<1>14. RowsOf(o)'
  <2>1. NamedBy(o)'
    BY <1>9, <1>10, OfOperation DEF NamedBy, Within
  <2>2. Unbound(o) => Unbound(o)'
    BY <1>10 DEF Unbound, Within
  <2>3. EventRead(o)'
    BY <1>3, <1>9 DEF EventRead
  <2> QED
    BY <1>1, <1>9, <2>1, <2>2, <2>3, OfOperation DEF RowsOf
<1>15. TellingOf(o)'
  <2>1. EventRead(o)' /\ (Over(o)' <=> Over(o))
    BY <1>3, <1>9 DEF EventRead, Over
  <2>2. /\ op'[o].told <= (IF Over(o) THEN 1 ELSE 0) + 1
        /\ op'[o].told > 0
    BY <1>6, <1>9
  <2>3. o \in astray' \/ (o \in handled' /\ op[o].local # "dispatching")
    BY <1>2, <1>8
  <2>4. op'[o].told > 1 => o \in astray'
    BY <1>2, <1>6, <1>7, <1>9
  <2> QED
    BY <1>6, <1>9, <2>1, <2>2, <2>3, <2>4 DEF TellingOf
<1> QED
  BY <1>11, <1>12, <1>13, <1>14, <1>15 DEF IInv, RowsFollow, TellingFollows

LEMMA ReadFailedStep ==
  ASSUME IInv, ReadFailed
  PROVE  IInv'
<1>1. /\ wire \in Seq(Event) /\ wire # <<>>
      /\ Head(wire) \in Event /\ Head(wire).type = "command.failed"
  BY DEF ReadFailed, NextIs, IInv, TypeOK
<1>2. PICK o \in Op : Head(wire) = Failed(o)
  BY <1>1, FailedEvent
<1> QED
  BY <1>2, ReadFailedOf

-----------------------------------------------------------------------------
(* The theorems. *)

LEMMA IInvInit == Init => IInv
<1>1. SUFFICES ASSUME Init PROVE IInv
  OBVIOUS
<1>2. /\ ObserverOK /\ view \in Copy /\ wire = <<>> /\ wanted = FALSE
      /\ rows = NoRows /\ op = [o \in Op |-> NotBegun]
      /\ handled = {} /\ screen = Dashboard /\ astray = {} /\ changes = 0 /\ faults = 0
  <2>1. truth \in Row /\ view = Shown(truth)
    BY <1>1, DashboardAssumption DEF Init, Row
  <2>2. <<>> \in Seq(Patch)
    OBVIOUS
  <2> QED
    BY <1>1, <2>1, <2>2, ShownTyped DEF Init, ObserverOK
<1>3. NotBegun \in Operation /\ NoRows \in LocalRows /\ Dashboard \in Screen
  BY DashboardAssumption DEF NotBegun, Operation, NoRows, LocalRows, Dashboard, Screen
<1>4. TypeOK
  <2>1. op \in [Op -> Operation]
    BY <1>2, <1>3
  <2>2. wire \in Seq(Event)
    BY <1>2
  <2>3. 0 \in Nat /\ 0 \in 0..MaxFaults
    BY DashboardAssumption
  <2> QED
    BY <1>2, <1>3, <2>1, <2>2, <2>3 DEF TypeOK, NoRows
<1>5. \A o \in Op : ~Pending(o) /\ Once(wire, o)
  <2>1. Len(wire) = 0
    BY <1>2
  <2> QED
    BY <2>1 DEF Pending, Once
<1>6. FailedFollows
  BY <1>5, FailedParts
<1>7. ASSUME NEW o \in Op PROVE RowsOf(o) /\ TellingOf(o)
  <2>1. op[o] = NotBegun
    BY <1>2
  <2> QED
    BY <1>2, <2>1 DEF NotBegun, NoRows, RowsOf, NamedBy, Unbound, TellingOf, Over, EventRead
<1> QED
  BY <1>4, <1>6, <1>7 DEF IInv, RowsFollow, TellingFollows

LEMMA IInvStep == IInv /\ [Next]_vars => IInv'
<1>1. SUFFICES ASSUME IInv, [Next]_vars PROVE IInv'
  OBVIOUS
<1>2. CASE UNCHANGED vars
  <2>1. UNCHANGED observer
    BY <1>2 DEF vars
  <2> QED
    BY <1>1, <1>2, <2>1, SameWire, ObserverKept, StillStep DEF vars, IInv, TypeOK, Within
<1>3. ASSUME NEW o \in Op,
             \/ SubmitCreate(o) \/ PressRow(o) \/ ConfirmRemove(o) \/ SubmitRename(o)
             \/ ReceiptAccepts(o) \/ ReceiptRejects(o) \/ DispatchThrows(o)
             \/ CompletionFails(o) \/ WaitThrows(o) \/ CompletionSucceeds(o)
             \/ AgentStarts(o) \/ CatchesUp(o) \/ LoadFails(o) \/ FailedExpires(o)
             \/ Receive(o) \/ CommandTakesEffect(o) \/ CommandFails(o) \/ CommandSucceeds(o)
      PROVE  IInv'
  BY <1>1, <1>3, SubmitCreateStep, PressRowStep, ConfirmRemoveStep, SubmitRenameStep,
     ReceiptAcceptsStep, ReceiptRejectsStep, DispatchThrowsStep, CompletionFailsStep,
     WaitThrowsStep, CompletionSucceedsStep, AgentStartsStep, CatchesUpStep, LoadFailsStep,
     FailedExpiresStep, ReceiveStep, CommandTakesEffectStep, CommandFailsStep,
     CommandSucceedsStep
<1>4. CASE ChooseRemove \/ ChooseRename \/ LeaveScreen
  BY <1>1, <1>4, ScreenStep
<1>5. CASE \/ ReadAnnouncement \/ ReadPatch \/ ReadFailed \/ SnapshotLoaded
           \/ OthersCommand \/ ReconcileFinds \/ ReportProjects \/ ScheduledReconcile
  BY <1>1, <1>5, ReadAnnouncementStep, ReadPatchStep, ReadFailedStep, SnapshotLoadedStep,
     OthersCommandStep, ReconcileFindsStep, ReportProjectsStep, ScheduledReconcileStep
<1>6. ASSUME NEW c \in Command, Publish(c) PROVE IInv'
  BY <1>1, <1>6, PublishStep
<1> QED
  BY <1>1, <1>2, <1>3, <1>4, <1>5, <1>6 DEF Next

LEMMA IInvHolds == Spec => []IInv
BY IInvInit, IInvStep, PTL DEF Spec

(* The type invariant, and with it that a worktree never has two pending   *)
(* removals or starts and a session never two pending titles, over any     *)
(* operations that replace, bind and clear each other's rows               *)
(* (localRows.ts, the add, bind and clear functions).                      *)
THEOREM TypeCorrect == Spec => []TypeOK
<1>1. IInv => TypeOK
  BY DEF IInv
<1> QED
  BY <1>1, IInvHolds, PTL

(* Every command that failed is told to the user by its event or its       *)
(* completion, whichever comes first, and twice only if the event found no *)
(* row or the wait was given up (localOperationRunner.ts).                 *)
THEOREM FailuresAreTold == Spec => []FailureIsTold
<1>1. ASSUME IInv, NEW o \in Op
      PROVE  /\ op[o].remote \in {"failed", "rejected"} /\ op[o].local = "ended" => op[o].told > 0
             /\ op[o].told > 1 => o \in astray
  BY <1>1, OfOperation DEF TellingOf
<1>2. IInv => FailureIsTold
  BY <1>1 DEF FailureIsTold
<1> QED
  BY <1>2, IInvHolds, PTL

-----------------------------------------------------------------------------
(* A dashboard at rest.  First the wire: announcements, and the patches    *)
(* after the last of them.                                                 *)

Announces(w) == \E i \in 1..Len(w) : w[i] = Reconciled
Last(w, i) == \A j \in i + 1..Len(w) : w[j] # Reconciled
Fits(e, t) == Patched(Shown(t), e) = Shown(t)
AllFit(w, t) == \A i \in 1..Len(w) : Last(w, i) => Fits(w[i], t)

LEMMA CopyParts ==
  /\ OnTheWire <=> Announces(wire)
  /\ OnTheWire' <=> Announces(wire')
  /\ CopyFollows <=>
       (~due /\ ~overtaken =>
          (~wanted /\ ~Announces(wire) => view = Shown(truth)) /\ AllFit(wire, truth))
  /\ CopyFollows' <=>
       (~due' /\ ~overtaken' =>
          (~wanted' /\ ~Announces(wire') => view' = Shown(truth')) /\ AllFit(wire', truth'))
BY DEF CopyFollows, OnTheWire, Announces, LastWord, Last, AllFit, Fits

LEMMA TailFits ==
  ASSUME NEW w \in Seq(Event), w # <<>>, NEW t, AllFit(w, t)
  PROVE  /\ AllFit(Tail(w), t)
         /\ Head(w) # Reconciled => (Announces(Tail(w)) <=> Announces(w))
         /\ ~Announces(w) => Fits(Head(w), t)
<1>1. /\ Len(Tail(w)) = Len(w) - 1 /\ Len(w) \in Nat \ {0} /\ Head(w) = w[1]
      /\ \A i \in 1..Len(Tail(w)) : Tail(w)[i] = w[i + 1]
  OBVIOUS
<1>2. AllFit(Tail(w), t)
  <2>1. SUFFICES ASSUME NEW i \in 1..Len(Tail(w)), Last(Tail(w), i)
                 PROVE  Fits(Tail(w)[i], t)
    BY DEF AllFit
  <2>2. Last(w, i + 1)
    <3>1. SUFFICES ASSUME NEW j \in (i + 1) + 1..Len(w) PROVE w[j] # Reconciled
      BY DEF Last
    <3>2. j - 1 \in i + 1..Len(Tail(w)) /\ j - 1 \in 1..Len(Tail(w)) /\ (j - 1) + 1 = j
      BY <1>1
    <3>3. Tail(w)[j - 1] # Reconciled
      BY <2>1, <3>2 DEF Last
    <3>4. Tail(w)[j - 1] = w[(j - 1) + 1]
      BY <1>1, <3>2
    <3> QED
      BY <3>2, <3>3, <3>4
  <2>3. i + 1 \in 1..Len(w) /\ Tail(w)[i] = w[i + 1]
    BY <1>1
  <2> QED
    BY <2>2, <2>3 DEF AllFit
<1>3. Announces(Tail(w)) => Announces(w)
  <2>1. \A i \in 1..Len(Tail(w)) : i + 1 \in 1..Len(w)
    BY <1>1
  <2> QED
    BY <1>1, <2>1 DEF Announces
<1>4. ASSUME Announces(w), Head(w) # Reconciled PROVE Announces(Tail(w))
  <2>1. PICK i \in 1..Len(w) : w[i] = Reconciled
    BY <1>4 DEF Announces
  <2>2. i - 1 \in 1..Len(Tail(w)) /\ (i - 1) + 1 = i
    BY <1>1, <1>4, <2>1
  <2>3. Tail(w)[i - 1] = w[(i - 1) + 1]
    BY <1>1, <2>2
  <2> QED
    BY <2>1, <2>2, <2>3 DEF Announces
<1>5. ASSUME ~Announces(w) PROVE Fits(Head(w), t)
  <2>1. 1 \in 1..Len(w) /\ \A j \in 1 + 1..Len(w) : j \in 1..Len(w)
    BY <1>1
  <2>2. Last(w, 1)
    BY <1>5, <2>1 DEF Last, Announces
  <2> QED
    BY <1>1, <2>1, <2>2 DEF AllFit
<1> QED
  BY <1>2, <1>3, <1>4, <1>5

LEMMA AppendFits ==
  ASSUME NEW w \in Seq(Event), NEW e \in Event, NEW t, e # Reconciled, Fits(e, t), AllFit(w, t)
  PROVE  /\ AllFit(Append(w, e), t)
         /\ Announces(Append(w, e)) <=> Announces(w)
<1> DEFINE a == Append(w, e)
<1>1. /\ Len(a) = Len(w) + 1 /\ Len(w) \in Nat
      /\ \A i \in 1..Len(w) : a[i] = w[i]
      /\ a[Len(w) + 1] = e
  OBVIOUS
<1>2. /\ \A i \in 1..Len(a) : i \in 1..Len(w) \/ i = Len(w) + 1
      /\ \A i \in 1..Len(w) : i \in 1..Len(a)
  BY <1>1
<1> HIDE DEF a
<1>3. ASSUME NEW i \in 1..Len(w), Last(a, i) PROVE Last(w, i)
  <2>1. SUFFICES ASSUME NEW j \in i + 1..Len(w) PROVE w[j] # Reconciled
    BY DEF Last
  <2>2. j \in i + 1..Len(a) /\ j \in 1..Len(w)
    BY <1>1
  <2> QED
    BY <1>1, <1>3, <2>2 DEF Last
<1>4. AllFit(a, t)
  <2>1. SUFFICES ASSUME NEW i \in 1..Len(a), Last(a, i) PROVE Fits(a[i], t)
    BY DEF AllFit
  <2>2. CASE i \in 1..Len(w)
    BY <1>1, <1>3, <2>1, <2>2 DEF AllFit
  <2>3. CASE i = Len(w) + 1
    BY <1>1, <2>3
  <2> QED
    BY <1>2, <2>2, <2>3
<1>5. Announces(a) <=> Announces(w)
  BY <1>1, <1>2 DEF Announces
<1> QED
  BY <1>4, <1>5 DEF a

LEMMA AnnouncedFits ==
  ASSUME NEW w \in Seq(Event), NEW t
  PROVE  Announces(Append(w, Reconciled)) /\ AllFit(Append(w, Reconciled), t)
<1> DEFINE a == Append(w, Reconciled)
           n == Len(w) + 1
<1>1. Reconciled \in Event /\ Reconciled.type = "observer.reconciled"
  BY DEF Event, Reconciled
<1>2. Len(a) = n /\ n \in Nat \ {0} /\ a[n] = Reconciled
  BY <1>1
<1> HIDE DEF a, n
<1>3. Announces(a)
  BY <1>2 DEF Announces
<1>4. ASSUME NEW i \in 1..Len(a), Last(a, i) PROVE Fits(a[i], t)
  <2>1. i = n
    <3>1. SUFFICES ASSUME i # n PROVE FALSE
      OBVIOUS
    <3>2. n \in i + 1..Len(a)
      BY <1>2, <3>1
    <3> QED
      BY <1>2, <1>4, <3>2 DEF Last
  <2> QED
    BY <1>1, <1>2, <2>1 DEF Fits, Patched
<1> QED
  BY <1>3, <1>4 DEF AllFit, a

(* Nothing else than an announcement can be taken for one, and a failed    *)
(* event changes no rows or sessions.                                      *)
LEMMA OtherEvents ==
  /\ \A e \in Patch : e \in Event /\ e # Reconciled
  /\ \A o \in Op : Failed(o) \in Event /\ Failed(o) # Reconciled /\ \A t : Fits(Failed(o), t)
<1>1. ASSUME NEW e \in Patch PROVE e \in Event /\ e # Reconciled
  BY DEF Event, Patch, WorktreeRemoved, Reconciled
<1>2. ASSUME NEW o \in Op PROVE Failed(o) \in Event /\ Failed(o) # Reconciled
  BY DEF Event, Failed, Reconciled
<1>3. ASSUME NEW o \in Op, NEW t PROVE Fits(Failed(o), t)
  BY DEF Failed, Fits, Patched
<1> QED
  BY <1>1, <1>2, <1>3

(* Whatever changes the observer's row with a reconcile is announced. *)
LEMMA RowIsAnnounced ==
  ASSUME IInv,
         \/ \E o \in Op : CommandTakesEffect(o)
         \/ OthersCommand \/ ReconcileFinds \/ ScheduledReconcile
  PROVE  \E w \in Seq(Event) : wire' = Append(w, Reconciled)
<1>1. wire \in Seq(Event)
  BY DEF IInv, TypeOK
<1>2. CASE ReconcileFinds
  <2>1. truth' \in Row
    BY <1>2, LaunchedTyped DEF ReconcileFinds, IInv
  <2>2. AgentChanged(truth'.state) \in Event
    BY <2>1 DEF AgentChanged, Event, Patch, Row
  <2>3. Append(wire, AgentChanged(truth'.state)) \in Seq(Event)
    BY <1>1, <2>2
  <2> QED
    BY <1>1, <1>2, <2>3 DEF ReconcileFinds
<1>3. CASE (\E o \in Op : CommandTakesEffect(o)) \/ OthersCommand \/ ScheduledReconcile
  BY <1>1, <1>3 DEF CommandTakesEffect, OthersCommand, ScheduledReconcile, Commanded, Announced
<1> QED
  BY <1>2, <1>3

LEMMA CopyStep ==
  ASSUME IInv, CopyFollows, [Next]_vars
  PROVE  CopyFollows'
<1>1. /\ wire \in Seq(Event) /\ TypeOK
      /\ ~due /\ ~overtaken =>
           (~wanted /\ ~Announces(wire) => view = Shown(truth)) /\ AllFit(wire, truth)
  BY CopyParts DEF IInv, TypeOK
<1>2. ASSUME UNCHANGED <<truth, due, overtaken, wire, wanted>>, view' = view \/ view' = Shown(truth)
      PROVE  CopyFollows'
  BY <1>1, <1>2, CopyParts
<1>3. ASSUME \/ \E o \in Op : CommandTakesEffect(o)
             \/ OthersCommand \/ ReconcileFinds \/ ScheduledReconcile
      PROVE  CopyFollows'
  <2>1. PICK w \in Seq(Event) : wire' = Append(w, Reconciled)
    BY <1>3, RowIsAnnounced
  <2> QED
    BY <2>1, AnnouncedFits, CopyParts
<1>4. ASSUME NEW e \in Event, e # Reconciled, wire' = Append(wire, e),
             UNCHANGED <<truth, due, view, wanted>>,
             ~overtaken' => ~overtaken /\ Fits(e, truth)
      PROVE  CopyFollows'
  BY <1>1, <1>4, AppendFits, CopyParts
<1>5. CASE UNCHANGED vars
  BY <1>2, <1>5 DEF vars, observer
<1>6. ASSUME NEW o \in Op,
             \/ SubmitCreate(o) \/ PressRow(o) \/ ConfirmRemove(o) \/ SubmitRename(o)
             \/ ReceiptAccepts(o) \/ ReceiptRejects(o) \/ DispatchThrows(o)
             \/ CompletionFails(o) \/ WaitThrows(o) \/ CompletionSucceeds(o)
             \/ AgentStarts(o) \/ LoadFails(o) \/ FailedExpires(o)
      PROVE  CopyFollows'
  <2>1. UNCHANGED <<observer, wire, wanted, view>>
    BY <1>6 DEF SubmitCreate, PressRow, ConfirmRemove, SubmitRename, Begin, ReceiptAccepts,
       ReceiptRejects, DispatchThrows, CompletionFails, WaitThrows, CompletionSucceeds,
       AgentStarts, LoadFails, FailedExpires, ClientStep
  <2> QED
    BY <1>2, <2>1 DEF observer
<1>7. ASSUME NEW o \in Op, CatchesUp(o) PROVE CopyFollows'
  BY <1>2, <1>7 DEF CatchesUp, ClientStep, observer
<1>8. ASSUME NEW o \in Op, Receive(o) \/ CommandSucceeds(o) PROVE CopyFollows'
  BY <1>2, <1>8 DEF Receive, CommandSucceeds, Remote, observer
<1>9. ASSUME NEW o \in Op, CommandFails(o) PROVE CopyFollows'
  <2>1. /\ wire' = Append(wire, Failed(o)) /\ UNCHANGED <<truth, due, view, wanted>>
        /\ overtaken' = overtaken
    BY <1>9 DEF CommandFails, Remote
  <2> QED
    BY <1>4, <2>1, OtherEvents
<1>10. ASSUME NEW c \in Command, Publish(c) PROVE CopyFollows'
  <2>1. Head(owed[c]) \in Patch /\ wire' = Append(wire, Head(owed[c]))
    BY <1>1, <1>10, PublishTyped
  <2>2. /\ UNCHANGED <<truth, due, view, wanted>>
        /\ ~overtaken' => ~overtaken /\ Fits(Head(owed[c]), truth)
    BY <1>10 DEF Publish, Fits
  <2> QED
    BY <1>4, <2>1, <2>2, OtherEvents
<1>11. CASE ReportProjects
  BY <1>11, CopyParts DEF ReportProjects
<1>12. CASE ChooseRemove \/ ChooseRename \/ LeaveScreen
  BY <1>2, <1>12 DEF ChooseRemove, ChooseRename, LeaveScreen, Show, observer
<1>13. CASE SnapshotLoaded
  BY <1>1, <1>13, CopyParts DEF SnapshotLoaded, Reduced, observer
<1>14. CASE ReadAnnouncement
  <2>1. wire # <<>> /\ wire' = Tail(wire) /\ wanted' = TRUE /\ UNCHANGED <<truth, due, overtaken>>
    BY <1>14 DEF ReadAnnouncement, NextIs, observer
  <2> QED
    BY <1>1, <2>1, TailFits, CopyParts
<1>15. CASE ReadFailed
  <2>1. /\ wire # <<>> /\ wire' = Tail(wire) /\ UNCHANGED <<truth, due, overtaken, view, wanted>>
        /\ Head(wire) # Reconciled
    BY <1>15 DEF ReadFailed, NextIs, Reconciled, observer
  <2> QED
    BY <1>1, <2>1, TailFits, CopyParts
<1>16. CASE ReadPatch
  <2>1. /\ wire # <<>> /\ wire' = Tail(wire) /\ UNCHANGED <<truth, due, overtaken, wanted>>
        /\ Head(wire) # Reconciled /\ view' = Patched(view, Head(wire))
    BY <1>16, OtherEvents DEF ReadPatch, Reduced, observer
  <2>2. ASSUME ~due, ~overtaken
        PROVE  /\ AllFit(wire', truth) /\ (Announces(wire') <=> Announces(wire))
               /\ ~Announces(wire) => Fits(Head(wire), truth)
    BY <1>1, <2>1, <2>2, TailFits
  <2>3. ASSUME ~due, ~overtaken, ~wanted, ~Announces(wire) PROVE view' = Shown(truth)
    BY <1>1, <2>1, <2>2, <2>3 DEF Fits
  <2> QED
    BY <2>1, <2>2, <2>3, CopyParts
<1> QED
  BY <1>3, <1>5, <1>6, <1>7, <1>8, <1>9, <1>10, <1>11, <1>12, <1>13, <1>14, <1>15, <1>16 DEF Next

-----------------------------------------------------------------------------
(* Then the rows.  An operation keeps its kind and session; what counts is *)
(* how far it is, and which rows are taken with it.                        *)

RowsInv == CreatesAreOpen /\ UnboundIsOnItsWay /\ EndsTakeRows /\ RowsAreDue

(* Nothing is shown as due that a step has not looked at or left alone.    *)
Watched ==
  \/ view' = view /\ (OnTheWire => OnTheWire') /\ Within(rows', rows)
  \/ Within(rows', rows) /\ Within(rows', Prune(rows, view'))

LEMMA PruneDue ==
  ASSUME Within(rows', Prune(rows, view'))
  PROVE  /\ rows'.remove # {} \/ rows'.start # {} => view'.row # "none"
         /\ rows'.start # {} => Idle(view')
         /\ \A p \in rows'.rename : TitleIsDue(p, view')
BY DEF Prune, Within, Idle

LEMMA OutsideRows ==
  ASSUME IInv, RowsInv, Watched,
         \A q \in Op : /\ op'[q].kind = op[q].kind /\ op'[q].session = op[q].session
                       /\ op'[q].local = op[q].local,
         \A q \in Op : \/ op'[q].remote = op[q].remote
                       \/ op[q].remote = "reconciled"
                       \/ /\ op[q].remote \in {"none", "accepted"}
                          /\ op'[q].remote \in {"reconciled", "succeeded"} => OnTheWire'
  PROVE  RowsInv'
<1>1. Within(rows', rows) /\ rows \in LocalRows
  BY OfOperation DEF Watched, IInv, TypeOK
<1>2. CreatesAreOpen'
  BY <1>1 DEF RowsInv, CreatesAreOpen, LocalRows, Within
<1>3. UnboundIsOnItsWay'
  BY <1>1 DEF RowsInv, UnboundIsOnItsWay, OnItsWay, Within
<1>4. EndsTakeRows'
  BY <1>1 DEF RowsInv, EndsTakeRows, Unbound, Within
<1>5. RowsAreDue'
  <2>1. CASE Within(rows', Prune(rows, view'))
    BY <2>1, PruneDue DEF RowsAreDue
  <2>2. CASE view' = view /\ (OnTheWire => OnTheWire')
    <3>1. rows'.remove # {} \/ rows'.start # {} => view'.row # "none"
      BY <1>1, <2>2 DEF RowsInv, RowsAreDue, Within
    <3>2. ASSUME NEW p \in rows'.start, p.command # NoOp, op'[p.command].local \in {"loading", "ended"}
          PROVE  Idle(view')
      <4>1. p \in rows.start /\ p.command \in Op
        BY <1>1, <3>2 DEF Within, LocalRows, Command
      <4> QED
        BY <2>2, <3>2, <4>1 DEF RowsInv, RowsAreDue
    <3>3. ASSUME NEW p \in rows'.rename
          PROVE  TitleIsDue(p, view') \/ OnTheWire' \/ Renaming(p.session)'
      <4>1. TitleIsDue(p, view) \/ OnTheWire \/ Renaming(p.session)
        BY <1>1 DEF RowsInv, RowsAreDue, Within
      <4>2. TitleIsDue(p, view) => TitleIsDue(p, view')
        BY <2>2
      <4>3. Renaming(p.session) => OnTheWire' \/ Renaming(p.session)'
        BY DEF Renaming
      <4> QED
        BY <2>2, <4>1, <4>2, <4>3
    <3> QED
      BY <3>1, <3>2, <3>3 DEF RowsAreDue
  <2> QED
    BY <2>1, <2>2 DEF Watched
<1> QED
  BY <1>2, <1>3, <1>4, <1>5 DEF RowsInv

(* An operation that fails takes every row of its name with it. *)
LEMMA FailRows ==
  ASSUME IInv, RowsInv, NEW o \in Op, op[o].local \in {"dispatching", "waiting"},
         rows' = MarkFailed(o, rows), UNCHANGED <<view, wire>>,
         op'[o].local = "ended", \A q \in Op \ {o} : op'[q] = op[q]
  PROVE  RowsInv'
<1>1. /\ Within(rows', rows) /\ o \notin rows'.create /\ NamesNot(o, rows')
      /\ rows \in LocalRows /\ NoOp \notin Op
  BY OfOperation, MarkFailedWithin, MarkFailedNames, DashboardAssumption
<1>2. /\ \A p \in rows'.remove : op[o].kind # "remove"
      /\ \A p \in rows'.start : p.kind # op[o].kind
      /\ \A p \in rows'.rename : op[o].kind = "rename" => p.session # op[o].session
  BY <1>1 DEF MarkFailed, Clear, LocalRows
<1>3. CreatesAreOpen'
  BY <1>1 DEF RowsInv, CreatesAreOpen, LocalRows, Within
<1>4. UnboundIsOnItsWay'
  BY <1>1, <1>2 DEF RowsInv, UnboundIsOnItsWay, OnItsWay, Within
<1>5. EndsTakeRows'
  <2>1. Unbound(o)'
    BY <1>1 DEF NamesNot, Unbound
  <2>2. \A q \in Op : Unbound(q) => Unbound(q)'
    BY <1>1 DEF Unbound, Within
  <2> QED
    BY <2>1, <2>2 DEF RowsInv, EndsTakeRows
<1>6. RowsAreDue'
  <2>1. rows'.remove # {} \/ rows'.start # {} => view'.row # "none"
    BY <1>1 DEF RowsInv, RowsAreDue, Within
  <2>2. ASSUME NEW p \in rows'.start, p.command # NoOp, op'[p.command].local \in {"loading", "ended"}
        PROVE  Idle(view')
    <3>1. p \in rows.start /\ p.command \in Op \ {o}
      BY <1>1, <2>2 DEF Within, LocalRows, Command, NamesNot
    <3> QED
      BY <2>2, <3>1 DEF RowsInv, RowsAreDue
  <2>3. ASSUME NEW p \in rows'.rename
        PROVE  TitleIsDue(p, view') \/ OnTheWire' \/ Renaming(p.session)'
    <3>1. TitleIsDue(p, view) \/ OnTheWire \/ Renaming(p.session)
      BY <1>1 DEF RowsInv, RowsAreDue, Within
    <3>2. Renaming(p.session) => Renaming(p.session)'
      BY <1>2 DEF Renaming
    <3> QED
      BY <3>1, <3>2 DEF OnTheWire
  <2> QED
    BY <2>1, <2>2, <2>3 DEF RowsAreDue
<1> QED
  BY <1>3, <1>4, <1>5, <1>6 DEF RowsInv

(* An operation that succeeded leaves a removal or a title to the next     *)
(* snapshot, but neither a create nor, unless the row is bare, a start.    *)
LEMMA DoneRows ==
  ASSUME IInv, RowsInv, NEW o \in Op, Watched,
         op[o].remote = "succeeded", op[o].local \in {"waiting", "loading"},
         op'[o].remote = "succeeded", op'[o].local \in {"loading", "ended"},
         \A q \in Op \ {o} : op'[q] = op[q],
         o \notin rows'.create,
         \A p \in rows'.start : p.command = o => Idle(view')
  PROVE  RowsInv'
<1>1. Within(rows', rows) /\ rows \in LocalRows
  BY OfOperation DEF Watched
<1>2. CreatesAreOpen'
  BY <1>1 DEF RowsInv, CreatesAreOpen, LocalRows, Within
<1>3. UnboundIsOnItsWay'
  BY <1>1 DEF RowsInv, UnboundIsOnItsWay, OnItsWay, Within
<1>4. EndsTakeRows'
  BY <1>1 DEF RowsInv, EndsTakeRows, Unbound, Within
<1>5. RowsAreDue'
  <2>1. CASE Within(rows', Prune(rows, view'))
    BY <2>1, PruneDue DEF RowsAreDue
  <2>2. CASE view' = view /\ (OnTheWire => OnTheWire')
    <3>1. rows'.remove # {} \/ rows'.start # {} => view'.row # "none"
      BY <1>1, <2>2 DEF RowsInv, RowsAreDue, Within
    <3>2. ASSUME NEW p \in rows'.start, p.command # NoOp, op'[p.command].local \in {"loading", "ended"}
          PROVE  Idle(view')
      <4>1. p \in rows.start /\ p.command \in Op
        BY <1>1, <3>2 DEF Within, LocalRows, Command
      <4>2. CASE p.command = o
        BY <3>2, <4>2
      <4>3. CASE p.command # o
        BY <2>2, <3>2, <4>1, <4>3 DEF RowsInv, RowsAreDue
      <4> QED
        BY <4>2, <4>3
    <3>3. ASSUME NEW p \in rows'.rename
          PROVE  TitleIsDue(p, view') \/ OnTheWire' \/ Renaming(p.session)'
      <4>1. TitleIsDue(p, view) \/ OnTheWire \/ Renaming(p.session)
        BY <1>1 DEF RowsInv, RowsAreDue, Within
      <4>2. TitleIsDue(p, view) => TitleIsDue(p, view')
        BY <2>2
      <4>3. Renaming(p.session) => Renaming(p.session)'
        BY DEF Renaming
      <4> QED
        BY <2>2, <4>1, <4>2, <4>3
    <3> QED
      BY <3>1, <3>2, <3>3 DEF RowsAreDue
  <2> QED
    BY <2>1, <2>2 DEF Watched
<1> QED
  BY <1>2, <1>3, <1>4, <1>5 DEF RowsInv

(* A receipt binds every row of the name that has no id yet. *)
LEMMA BindRows ==
  ASSUME IInv, RowsInv, NEW o \in Op, ReceiptAccepts(o)
  PROVE  RowsInv'
<1>1. /\ op'[o].kind = op[o].kind /\ op'[o].session = op[o].session
      /\ op'[o].remote = op[o].remote /\ op'[o].local = "waiting"
      /\ \A q \in Op \ {o} : op'[q] = op[q]
  BY LocalShape, OfOperation DEF ReceiptAccepts
<1>2. /\ rows' = Bind(o, rows) /\ rows' \in LocalRows /\ rows'.create = rows.create
      /\ UNCHANGED <<view, wire>>
      /\ rows \in LocalRows /\ NoOp \notin Op
  BY BindTyped, DashboardAssumption DEF ReceiptAccepts, ClientStep, IInv, TypeOK
<1>3. /\ \A p \in rows'.remove : \/ p \in rows.remove /\ op[o].kind # "remove"
                                 \/ p.command = o /\ rows.remove # {}
      /\ \A p \in rows'.start : \/ p \in rows.start /\ p.kind # op[o].kind
                                \/ p.command = o /\ rows.start # {}
  BY <1>2 DEF Bind, Bound, LocalRows
<1>4. ASSUME NEW p \in rows'.rename
      PROVE  /\ \/ p \in rows.rename /\ ~(op[o].kind = "rename" /\ p.session = op[o].session)
                \/ p.command = o
             /\ \E r \in rows.rename : p.session = r.session /\ p.title = r.title
  BY <1>2, <1>4 DEF Bind, Bound, LocalRows
<1>5. CreatesAreOpen'
  BY <1>1, <1>2 DEF RowsInv, CreatesAreOpen, LocalRows
<1>6. UnboundIsOnItsWay'
  <2>1. \A p \in rows'.remove : p.command = NoOp => OnItsWay("remove")'
    BY <1>1, <1>2, <1>3 DEF RowsInv, UnboundIsOnItsWay, OnItsWay
  <2>2. \A p \in rows'.start : p.command = NoOp => OnItsWay(p.kind)'
    BY <1>1, <1>2, <1>3 DEF RowsInv, UnboundIsOnItsWay, OnItsWay
  <2>3. ASSUME NEW p \in rows'.rename, p.command = NoOp
        PROVE  \E q \in Op : /\ op'[q].local = "dispatching" /\ op'[q].kind = "rename"
                             /\ op'[q].session = p.session
    <3>1. p \in rows.rename /\ ~(op[o].kind = "rename" /\ p.session = op[o].session)
      BY <1>2, <1>4, <2>3
    <3>2. PICK q \in Op : /\ op[q].local = "dispatching" /\ op[q].kind = "rename"
                          /\ op[q].session = p.session
      BY <2>3, <3>1 DEF RowsInv, UnboundIsOnItsWay
    <3> QED
      BY <1>1, <3>1, <3>2
  <2> QED
    BY <2>1, <2>2, <2>3 DEF UnboundIsOnItsWay
<1>7. EndsTakeRows'
  <2>1. ASSUME NEW q \in Op, q # o, Unbound(q) PROVE Unbound(q)'
    BY <1>3, <1>4, <2>1 DEF Unbound
  <2> QED
    BY <1>1, <2>1 DEF RowsInv, EndsTakeRows
<1>8. RowsAreDue'
  <2>1. rows'.remove # {} \/ rows'.start # {} => view'.row # "none"
    <3>1. (rows'.remove # {} => rows.remove # {}) /\ (rows'.start # {} => rows.start # {})
      BY <1>3
    <3> QED
      BY <1>2, <3>1 DEF RowsInv, RowsAreDue
  <2>2. ASSUME NEW p \in rows'.start, p.command # NoOp, op'[p.command].local \in {"loading", "ended"}
        PROVE  Idle(view')
    <3>1. p \in rows.start /\ p.command \in Op \ {o}
      BY <1>1, <1>2, <1>3, <2>2 DEF LocalRows, Command
    <3> QED
      BY <1>1, <1>2, <2>2, <3>1 DEF RowsInv, RowsAreDue
  <2>3. ASSUME NEW p \in rows'.rename
        PROVE  TitleIsDue(p, view') \/ OnTheWire' \/ Renaming(p.session)'
    <3>1. PICK r \in rows.rename : p.session = r.session /\ p.title = r.title
      BY <1>4
    <3>2. TitleIsDue(r, view) \/ OnTheWire \/ Renaming(r.session)
      BY <3>1 DEF RowsInv, RowsAreDue
    <3>3. Renaming(r.session) => Renaming(p.session)'
      BY <1>1, <3>1 DEF Renaming
    <3>4. TitleIsDue(r, view) => TitleIsDue(p, view')
      BY <1>2, <3>1 DEF TitleIsDue
    <3> QED
      BY <1>2, <3>2, <3>3, <3>4 DEF OnTheWire
  <2> QED
    BY <2>1, <2>2, <2>3 DEF RowsAreDue
<1> QED
  BY <1>5, <1>6, <1>7, <1>8 DEF RowsInv

LEMMA BeginRows ==
  ASSUME IInv, RowsInv, NEW o \in Op, NEW kind \in Kind, NEW session \in Nat, NEW title \in Title,
         Begin(o, kind, session, title), rows' \in LocalRows,
         rows'.create \subseteq rows.create \cup (IF kind = "create" THEN {o} ELSE {}),
         \A p \in rows'.remove : \/ p \in rows.remove
                                 \/ p.command = NoOp /\ kind = "remove" /\ view.row # "none",
         \A p \in rows'.start : \/ p \in rows.start
                                \/ p.command = NoOp /\ kind = p.kind /\ view.row # "none",
         \A p \in rows'.rename :
           \/ p \in rows.rename
           \/ p.command = NoOp /\ kind = "rename" /\ session = p.session
  PROVE  RowsInv'
<1>1. /\ op[o].local = "none" /\ op[o].remote = "none" /\ NoOp \notin Op /\ rows \in LocalRows
  BY OfOperation, DashboardAssumption DEF Begin, TellingOf
<1>2. /\ op'[o].kind = kind /\ op'[o].session = session
      /\ op'[o].remote = "none" /\ op'[o].local = "dispatching"
      /\ \A q \in Op \ {o} : op'[q] = op[q]
      /\ UNCHANGED <<view, wire>>
  BY OfOperation DEF Begin, TypeOK, Operation
<1>3. CreatesAreOpen'
  BY <1>1, <1>2 DEF RowsInv, CreatesAreOpen, LocalRows
<1>4. UnboundIsOnItsWay'
  <2>1. \A p \in rows'.remove : p.command = NoOp => OnItsWay("remove")'
    BY <1>1, <1>2 DEF RowsInv, UnboundIsOnItsWay, OnItsWay
  <2>2. \A p \in rows'.start : p.command = NoOp => OnItsWay(p.kind)'
    BY <1>1, <1>2 DEF RowsInv, UnboundIsOnItsWay, OnItsWay
  <2>3. ASSUME NEW p \in rows'.rename, p.command = NoOp
        PROVE  \E q \in Op : /\ op'[q].local = "dispatching" /\ op'[q].kind = "rename"
                             /\ op'[q].session = p.session
    BY <1>1, <1>2, <2>3 DEF RowsInv, UnboundIsOnItsWay
  <2> QED
    BY <2>1, <2>2, <2>3 DEF UnboundIsOnItsWay
<1>5. EndsTakeRows'
  <2>1. ASSUME NEW q \in Op, Unbound(q) PROVE Unbound(q)'
    BY <1>1, <2>1 DEF Unbound
  <2> QED
    BY <1>1, <1>2, <2>1 DEF RowsInv, EndsTakeRows
<1>6. RowsAreDue'
  <2>1. rows'.remove # {} \/ rows'.start # {} => view'.row # "none"
    BY <1>2 DEF RowsInv, RowsAreDue
  <2>2. ASSUME NEW p \in rows'.start, p.command # NoOp, op'[p.command].local \in {"loading", "ended"}
        PROVE  Idle(view')
    <3>1. p \in rows.start /\ p.command \in Op \ {o}
      BY <1>1, <1>2, <2>2 DEF LocalRows, Command
    <3> QED
      BY <1>2, <2>2, <3>1 DEF RowsInv, RowsAreDue
  <2>3. ASSUME NEW p \in rows'.rename
        PROVE  TitleIsDue(p, view') \/ OnTheWire' \/ Renaming(p.session)'
    <3>1. CASE p \in rows.rename
      <4>1. TitleIsDue(p, view) \/ OnTheWire \/ Renaming(p.session)
        BY <3>1 DEF RowsInv, RowsAreDue
      <4>2. Renaming(p.session) => Renaming(p.session)'
        BY <1>1, <1>2 DEF Renaming
      <4> QED
        BY <1>2, <4>1, <4>2 DEF OnTheWire
    <3>2. CASE p.command = NoOp /\ kind = "rename" /\ session = p.session
      BY <1>2, <3>2 DEF Renaming
    <3> QED
      BY <3>1, <3>2
  <2> QED
    BY <2>1, <2>2, <2>3 DEF RowsAreDue
<1> QED
  BY <1>3, <1>4, <1>5, <1>6 DEF RowsInv

LEMMA KeysRows ==
  ASSUME IInv, RowsInv, NEW o \in Op,
         SubmitCreate(o) \/ PressRow(o) \/ ConfirmRemove(o) \/ SubmitRename(o)
  PROVE  RowsInv'
<1>1. /\ rows \in LocalRows /\ 0 \in Nat /\ Branch \in Title /\ Kind \subseteq Kind
      /\ screen.session \in Nat
  BY OfOperation, DashboardAssumption DEF TypeOK, Screen
<1>2. CASE SubmitCreate(o)
  <2>1. /\ rows'.create = rows.create \cup {o} /\ rows'.remove = rows.remove
        /\ rows'.start = rows.start /\ rows'.rename = rows.rename /\ rows' \in LocalRows
        /\ Begin(o, "create", 0, Branch) /\ "create" \in Kind
    BY <1>1, <1>2 DEF SubmitCreate, LocalRows, Kind
  <2> QED
    BY <1>1, <2>1, BeginRows
<1>3. CASE PressRow(o)
  <2>1. PICK kind \in {"start", "resume"} :
          /\ Begin(o, kind, 0, Branch)
          /\ rows' = [rows EXCEPT !.start = {[kind |-> kind, command |-> NoOp]}]
    BY <1>3 DEF PressRow
  <2>2. /\ rows'.create = rows.create /\ rows'.remove = rows.remove
        /\ rows'.start = {[kind |-> kind, command |-> NoOp]} /\ rows'.rename = rows.rename
        /\ rows' \in LocalRows /\ kind \in Kind
    BY <1>1, <2>1 DEF LocalRows, Command, Kind
  <2>3. \A p \in rows'.start : p.command = NoOp /\ kind = p.kind /\ view.row # "none"
    BY <1>3, <2>2 DEF PressRow, Choosable
  <2> QED
    BY <1>1, <2>1, <2>2, <2>3, BeginRows
<1>4. CASE ConfirmRemove(o)
  <2>1. /\ rows'.create = rows.create /\ rows'.remove = {[command |-> NoOp]}
        /\ rows'.start = rows.start /\ rows'.rename = rows.rename /\ rows' \in LocalRows
        /\ Begin(o, "remove", 0, Branch) /\ "remove" \in Kind /\ view.row # "none"
    BY <1>1, <1>4 DEF ConfirmRemove, LocalRows, Command, Kind
  <2>2. \A p \in rows'.remove : p.command = NoOp
    BY <2>1
  <2> QED
    BY <1>1, <2>1, <2>2, BeginRows
<1>5. CASE SubmitRename(o)
  <2>1. PICK title \in Title :
          /\ Begin(o, "rename", screen.session, title)
          /\ rows' = [rows EXCEPT !.rename =
                        {p \in @ : p.session # screen.session}
                        \cup {[session |-> screen.session, title |-> title, command |-> NoOp]}]
    BY <1>5 DEF SubmitRename
  <2> DEFINE new == [session |-> screen.session, title |-> title, command |-> NoOp]
             kept == {p \in rows.rename : p.session # screen.session}
  <2>2. new \in [session : Nat, title : Title, command : Command] /\ kept \subseteq rows.rename
    BY <1>1 DEF Command
  <2>3. /\ rows'.create = rows.create /\ rows'.remove = rows.remove
        /\ rows'.start = rows.start /\ rows'.rename = kept \cup {new}
        /\ rows' \in LocalRows /\ "rename" \in Kind
    BY <1>1, <2>1, <2>2 DEF LocalRows, Kind
  <2>4. \A p \in rows'.rename :
          p \in rows.rename \/ (p.command = NoOp /\ screen.session = p.session)
    BY <2>2, <2>3
  <2> QED
    BY <1>1, <2>1, <2>3, <2>4, BeginRows
<1> QED
  BY <1>2, <1>3, <1>4, <1>5

LEMMA FailsRows ==
  ASSUME IInv, RowsInv, NEW o \in Op,
         ReceiptRejects(o) \/ DispatchThrows(o) \/ CompletionFails(o) \/ WaitThrows(o)
  PROVE  RowsInv'
<1>1. op[o].told + 0 \in 0..2 /\ op \in [Op -> Operation]
  BY OfOperation DEF TypeOK
<1>2. \E told \in 0..1 : Local(o, "ended", told)
  BY DEF ReceiptRejects, DispatchThrows, CompletionFails, WaitThrows
<1>3. op'[o].local = "ended" /\ \A q \in Op \ {o} : op'[q] = op[q]
  BY <1>1, <1>2 DEF Local, Operation
<1>4. /\ op[o].local \in {"dispatching", "waiting"} /\ rows' = MarkFailed(o, rows)
      /\ UNCHANGED <<view, wire>>
  BY DEF ReceiptRejects, DispatchThrows, CompletionFails, WaitThrows, ClientStep
<1> QED
  BY <1>3, <1>4, FailRows

LEMMA SucceedsRows ==
  ASSUME IInv, RowsInv, NEW o \in Op,
         CompletionSucceeds(o) \/ AgentStarts(o) \/ CatchesUp(o) \/ LoadFails(o)
  PROVE  RowsInv'
<1>1. /\ op \in [Op -> Operation] /\ op[o] \in Operation /\ rows \in LocalRows /\ NamedBy(o)
      /\ view \in Copy /\ Shown(truth) \in Copy
  BY OfOperation, ShownTyped DEF TypeOK, ObserverOK
<1>2. op[o].remote = "succeeded" /\ op[o].local \in {"waiting", "loading"}
  BY LoadingUntold DEF CompletionSucceeds, AgentStarts, Succeeded, CatchesUp, LoadFails
<1>3. \E phase \in {"loading", "ended"} : Local(o, phase, 0)
  BY DEF CompletionSucceeds, AgentStarts, CatchesUp, LoadFails
<1>4. /\ op'[o].remote = "succeeded" /\ op'[o].local \in {"loading", "ended"}
      /\ \A q \in Op \ {o} : op'[q] = op[q]
  BY <1>1, <1>2, <1>3 DEF Local, Operation
<1>5. wire' = wire /\ (OnTheWire => OnTheWire')
  BY DEF CompletionSucceeds, AgentStarts, CatchesUp, LoadFails, ClientStep, OnTheWire
<1>6. CASE CompletionSucceeds(o)
  <2>1. /\ Within(rows', rows) /\ view' = view /\ o \notin rows'.create
    BY <1>1, <1>6 DEF CompletionSucceeds, RowsInv, CreatesAreOpen, LocalRows, Within
  <2>2. \A p \in rows'.start : p.command # o
    BY <1>1, <1>6, <2>1 DEF CompletionSucceeds, NamedBy, Within, LocalRows
  <2> QED
    BY <1>2, <1>4, <1>5, <2>1, <2>2, DoneRows DEF Watched
<1>7. CASE AgentStarts(o)
  <2>1. /\ Within(rows', rows) /\ view' = view
    BY <1>1, <1>7, ClearWithin, OfOperation DEF AgentStarts, ClientStep
  <2>2. o \notin rows'.create
    BY <1>7, <2>1 DEF AgentStarts, RowsInv, CreatesAreOpen, Within
  <2>3. \A p \in rows'.start : p.command = o => Idle(view')
    <3>1. CASE Started(view)
      BY <1>1, <1>7, <3>1 DEF AgentStarts, Clear, NamedBy
    <3>2. CASE ~Started(view)
      <4>1. rows'.start # {} => view.row # "none"
        BY <2>1 DEF RowsInv, RowsAreDue, Within
      <4> QED
        BY <2>1, <3>2, <4>1 DEF Started
    <3> QED
      BY <3>1, <3>2
  <2> QED
    BY <1>2, <1>4, <1>5, <2>1, <2>2, <2>3, DoneRows DEF Watched
<1>8. CASE CatchesUp(o)
  <2>1. view' \in Copy
    BY <1>1, <1>8 DEF CatchesUp
  <2>2. /\ Prune(rows, view') \in LocalRows /\ Within(Prune(rows, view'), rows)
        /\ Within(Clear(o, Prune(rows, view')), Prune(rows, view'))
        /\ Within(Prune(rows, view'), Prune(rows, view'))
    BY <1>1, <2>1, PruneWithin, ClearWithin DEF Within
  <2>3. rows' \in {Clear(o, Prune(rows, view')), Prune(rows, view')}
    BY <1>8 DEF CatchesUp
  <2>4. Within(rows', rows) /\ Within(rows', Prune(rows, view'))
    BY <2>2, <2>3 DEF Within
  <2>5. o \notin rows'.create
    BY <1>8, <2>4 DEF CatchesUp, RowsInv, CreatesAreOpen, Within
  <2>6. \A p \in rows'.start : Idle(view')
    BY <2>4, PruneDue
  <2> QED
    BY <1>2, <1>4, <2>4, <2>5, <2>6, DoneRows DEF Watched
<1>9. CASE LoadFails(o)
  <2>1. view' = view /\ rows' = rows /\ op[o].local = "loading" /\ NoOp \notin Op
    BY <1>9, DashboardAssumption DEF LoadFails
  <2>2. Within(rows', rows) /\ o \notin rows'.create
    BY <2>1 DEF Within, RowsInv, CreatesAreOpen
  <2>3. \A p \in rows'.start : p.command = o => Idle(view')
    BY <2>1 DEF RowsInv, RowsAreDue
  <2> QED
    BY <1>2, <1>4, <1>5, <2>1, <2>2, <2>3, DoneRows DEF Watched
<1> QED
  BY <1>6, <1>7, <1>8, <1>9

LEMMA OthersRows ==
  ASSUME IInv, RowsInv, [Next]_vars,
         \A o \in Op :
           ~(\/ SubmitCreate(o) \/ PressRow(o) \/ ConfirmRemove(o) \/ SubmitRename(o)
             \/ ReceiptAccepts(o) \/ ReceiptRejects(o) \/ DispatchThrows(o)
             \/ CompletionFails(o) \/ WaitThrows(o) \/ CompletionSucceeds(o)
             \/ AgentStarts(o) \/ CatchesUp(o) \/ LoadFails(o))
  PROVE  RowsInv'
<1>1. /\ rows \in LocalRows /\ view \in Copy /\ Shown(truth) \in Copy /\ Within(rows, rows)
      /\ op \in [Op -> Operation] /\ TypeOK
  BY ShownTyped DEF IInv, TypeOK, ObserverOK, Within
<1>2. ASSUME UNCHANGED <<view, wire, op>>, Within(rows', rows) PROVE RowsInv'
  BY <1>2, OutsideRows DEF Watched, OnTheWire
<1>3. ASSUME op' = op, Within(rows', rows), Within(rows', Prune(rows, view')) PROVE RowsInv'
  BY <1>3, OutsideRows DEF Watched
<1>4. ASSUME NEW v \in Copy PROVE /\ Prune(rows, v) \in LocalRows /\ Within(Prune(rows, v), rows)
                                 /\ Within(Prune(rows, v), Prune(rows, v))
  BY <1>1, PruneWithin DEF Within
<1>5. CASE UNCHANGED vars
  BY <1>1, <1>2, <1>5 DEF vars
<1>6. ASSUME NEW o \in Op, FailedExpires(o) PROVE RowsInv'
  BY <1>1, <1>2, <1>6 DEF FailedExpires, LocalRows, Within
<1>7. CASE ChooseRemove \/ ChooseRename \/ LeaveScreen
  BY <1>1, <1>2, <1>7 DEF ChooseRemove, ChooseRename, LeaveScreen, Show
<1>8. CASE SnapshotLoaded
  BY <1>1, <1>3, <1>4, <1>8 DEF SnapshotLoaded, Reduced
<1>9. CASE ReadAnnouncement
  BY <1>1, <1>3, <1>4, <1>9 DEF ReadAnnouncement, Reduced
<1>10. CASE ReadPatch
  <2>1. /\ Head(wire) \in Patch /\ view' = Patched(view, Head(wire))
        /\ rows' = Prune(rows, Patched(view, Head(wire))) /\ op' = op
    BY <1>10 DEF ReadPatch, Reduced
  <2>2. Patched(view, Head(wire)) \in Copy
    BY <1>1, <2>1, PatchedTyped, OtherEvents
  <2> QED
    BY <1>3, <1>4, <2>1, <2>2
<1>11. CASE ReadFailed
  <2>1. PICK o \in Op : Head(wire) = Failed(o)
    BY <1>1, <1>11, FailedEvent DEF ReadFailed, NextIs, TypeOK
  <2>2. /\ view' = view
        /\ rows' \in {Drop(o, Prune(rows, view)), Prune(rows, view)}
        /\ \E told : op' = [op EXCEPT ![o].told = told]
    <3> DEFINE told == IF LocalRow(o) \/ o \notin handled THEN op[o].told + 1 ELSE op[o].told
    <3>1. Head(wire).command = o
      BY <2>1 DEF Failed
    <3>2. view' = view /\ rows' \in {Drop(o, Prune(rows, view)), Prune(rows, view)}
      BY <1>11, <3>1 DEF ReadFailed
    <3>3. op' = [op EXCEPT ![o].told = told]
      BY <1>1, <1>11, <3>1 DEF ReadFailed
    <3> QED
      BY <3>2, <3>3
  <2>3. Within(Drop(o, Prune(rows, view)), Prune(rows, view))
    BY <1>1, <1>4, DropWithin
  <2>4. Within(rows', rows) /\ Within(rows', Prune(rows, view'))
    BY <1>1, <1>4, <2>2, <2>3 DEF Within
  <2>5. \A q \in Op : /\ op'[q].kind = op[q].kind /\ op'[q].session = op[q].session
                      /\ op'[q].local = op[q].local /\ op'[q].remote = op[q].remote
    BY <1>1, <2>2 DEF Operation
  <2> QED
    BY <2>4, <2>5, OutsideRows DEF Watched
<1>12. ASSUME NEW w \in Seq(Event), wire' = Append(w, Reconciled) PROVE OnTheWire'
  BY <1>12, AnnouncedFits, CopyParts
<1>13. ASSUME NEW e \in Event, wire' = Append(wire, e) PROVE OnTheWire => OnTheWire'
  <2>1. Len(wire') = Len(wire) + 1 /\ Len(wire) \in Nat /\ \A i \in 1..Len(wire) : wire'[i] = wire[i]
    BY <1>1, <1>13 DEF TypeOK
  <2> QED
    BY <2>1 DEF OnTheWire
<1>14. CASE OthersCommand \/ ReconcileFinds \/ ScheduledReconcile
  <2>1. UNCHANGED <<view, rows, op>>
    BY <1>14 DEF OthersCommand, ReconcileFinds, ScheduledReconcile, Outside
  <2> QED
    BY <1>1, <1>12, <1>14, <2>1, RowIsAnnounced, OutsideRows DEF Watched
<1>15. CASE ReportProjects
  BY <1>1, <1>2, <1>15 DEF ReportProjects, Outside
<1>16. ASSUME NEW c \in Command, Publish(c) PROVE RowsInv'
  <2>1. Head(owed[c]) \in Event /\ wire' = Append(wire, Head(owed[c]))
    BY <1>1, <1>16, PublishTyped, OtherEvents
  <2>2. UNCHANGED <<view, rows, op>>
    BY <1>16 DEF Publish
  <2> QED
    BY <1>1, <1>13, <2>1, <2>2, OutsideRows DEF Watched
<1>17. ASSUME NEW o \in Op, NEW from \in {"none", "accepted", "reconciled"},
              NEW to \in {"accepted", "rejected", "reconciled", "succeeded", "failed"},
              Remote(o, from, to), OnTheWire => OnTheWire',
              to \in {"reconciled", "succeeded"} => from = "reconciled" \/ OnTheWire'
       PROVE  RowsInv'
  <2>1. /\ UNCHANGED <<view, rows>> /\ op[o].remote = from
        /\ op'[o].kind = op[o].kind /\ op'[o].session = op[o].session
        /\ op'[o].local = op[o].local /\ op'[o].remote = to
        /\ \A q \in Op \ {o} : op'[q] = op[q]
    BY <1>1, <1>17 DEF Remote, Operation
  <2> QED
    BY <1>1, <1>17, <2>1, OutsideRows DEF Watched
<1>18. ASSUME NEW o \in Op, Receive(o) PROVE RowsInv'
  <2>1. PICK answer \in {"accepted", "rejected"} : Remote(o, "none", answer)
    BY <1>18 DEF Receive
  <2>2. OnTheWire => OnTheWire'
    BY <1>18 DEF Receive, OnTheWire
  <2> QED
    BY <1>17, <2>1, <2>2
<1>19. ASSUME NEW o \in Op, CommandFails(o) PROVE RowsInv'
  <2>1. OnTheWire => OnTheWire'
    BY <1>13, <1>19, OtherEvents DEF CommandFails
  <2>2. PICK from \in {"accepted", "reconciled"} : Remote(o, from, "failed")
    BY <1>19 DEF CommandFails
  <2> QED
    BY <1>17, <2>1, <2>2
<1>20. ASSUME NEW o \in Op, CommandTakesEffect(o) PROVE RowsInv'
  <2>1. Remote(o, "accepted", "reconciled")
    BY <1>20 DEF CommandTakesEffect
  <2>2. OnTheWire'
    BY <1>12, <1>20, RowIsAnnounced
  <2> QED
    BY <1>17, <2>1, <2>2
<1>21. ASSUME NEW o \in Op, CommandSucceeds(o) PROVE RowsInv'
  <2>1. Remote(o, "reconciled", "succeeded") /\ (OnTheWire => OnTheWire')
    BY <1>21 DEF CommandSucceeds, OnTheWire
  <2> QED
    BY <1>17, <2>1
<1> QED
  BY <1>5, <1>6, <1>7, <1>8, <1>9, <1>10, <1>11, <1>14, <1>15, <1>16, <1>18, <1>19, <1>20, <1>21
     DEF Next

LEMMA RestStep ==
  ASSUME IInv, RestInv, [Next]_vars
  PROVE  RestInv'
<1>1. CopyFollows'
  BY CopyStep DEF RestInv
<1>2. RowsInv
  BY DEF RestInv, RowsInv
<1>3. RowsInv'
  BY <1>2, KeysRows, BindRows, FailsRows, SucceedsRows, OthersRows
<1> QED
  BY <1>1, <1>3 DEF RestInv, RowsInv

LEMMA RestInit == Init => RestInv
<1>1. SUFFICES ASSUME Init PROVE RestInv
  OBVIOUS
<1>2. /\ view = Shown(truth) /\ wire = <<>> /\ rows = NoRows /\ op = [o \in Op |-> NotBegun]
      /\ Len(wire) = 0
  BY <1>1 DEF Init
<1>3. CopyFollows
  BY <1>2 DEF CopyFollows
<1>4. \A o \in Op : op[o].local = "none"
  BY <1>2 DEF NotBegun
<1>5. /\ rows.create = {} /\ rows.remove = {} /\ rows.start = {} /\ rows.rename = {}
  BY <1>2 DEF NoRows
<1> QED
  BY <1>3, <1>4, <1>5
     DEF RestInv, CreatesAreOpen, UnboundIsOnItsWay, EndsTakeRows, RowsAreDue

LEMMA CleanAtRest ==
  ASSUME IInv, RestInv
  PROVE  RestIsClean
<1>1. SUFFICES ASSUME AtRest
               PROVE  /\ overtaken \/ view = Shown(truth)
                      /\ rows.create = {}
                      /\ \A p \in rows.remove : Undone(p) /\ view.row # "none"
                      /\ \A p \in rows.start : Undone(p) /\ Idle(view)
                      /\ \A p \in rows.rename : Undone(p) /\ TitleIsDue(p, view)
  BY DEF RestIsClean
<1>2. /\ \A o \in Op : op[o].local \in {"none", "ended"}
      /\ ~OnTheWire /\ (overtaken \/ view = Shown(truth)) /\ rows \in LocalRows
  BY <1>1 DEF AtRest, RestInv, CopyFollows, OnTheWire, IInv, TypeOK
<1>3. rows.create = {}
  BY <1>2 DEF RestInv, CreatesAreOpen, LocalRows
<1>4. \A p \in rows.remove \cup rows.start \cup rows.rename : p.command # NoOp
  BY <1>2 DEF RestInv, UnboundIsOnItsWay, OnItsWay
<1>5. ASSUME NEW p \in rows.remove \cup rows.start \cup rows.rename
      PROVE  p.command \in Op /\ op[p.command].local = "ended" /\ Undone(p)
  <2>1. p.command \in Op
    BY <1>2, <1>4 DEF LocalRows, Command
  <2>2. op[p.command].local = "ended"
    BY <1>2, <2>1, OfOperation DEF RowsOf, Unbound
  <2>3. op[p.command].remote = "succeeded"
    BY <2>1, <2>2 DEF RestInv, EndsTakeRows, Unbound
  <2> QED
    BY <1>4, <2>1, <2>2, <2>3 DEF Undone
<1>6. rows.remove # {} => view.row # "none"
  BY DEF RestInv, RowsAreDue
<1>7. \A p \in rows.start : Idle(view)
  BY <1>2, <1>4, <1>5 DEF RestInv, RowsAreDue
<1>8. \A p \in rows.rename : TitleIsDue(p, view)
  BY <1>2 DEF RestInv, RowsAreDue, Renaming
<1> QED
  BY <1>2, <1>3, <1>5, <1>6, <1>7, <1>8

(* Once everything has settled the dashboard shows the observer's row,     *)
(* unless a patch came after the row had changed once more, and pending    *)
(* only what succeeded and the copy does not show: over any operations     *)
(* whose rows replace, bind and clear each other's, lost receipts, given   *)
(* up waits, failed loads and patches that arrive after the snapshot that  *)
(* has them (localRows.ts, localOperationRunner.ts, snapshotReducer.ts).   *)
THEOREM RestsClean == Spec => []RestIsClean
<1>1. IInv /\ RestInv /\ [Next]_vars => RestInv'
  BY RestStep
<1>2. IInv /\ RestInv => RestIsClean
  BY CleanAtRest
<1> QED
  BY <1>1, <1>2, RestInit, IInvHolds, PTL DEF Spec
=============================================================================
