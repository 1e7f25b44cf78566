---------------------------- MODULE ObserverCoreMC ----------------------------
(* One row and two reports that may arrive in either order, both older than  *)
(* the exit the provider observes.                                           *)
EXTENDS ObserverCore

CONSTANTS w1, r1, r2

Says(row, state, high, at) == [row |-> row, state |-> state, high |-> high, at |-> at]

MCStart == [state |-> "idle", high |-> FALSE, at |-> 0]
MCExited == [state |-> "exited", high |-> TRUE, at |-> 4]

OneRow == [r \in {r1, r2} |-> IF r = r1 THEN Says(w1, "working", TRUE, 2)
                                        ELSE Says(w1, "idle", TRUE, 3)]
=============================================================================
