-------------------------- MODULE CommandLifecycle --------------------------
(***************************************************************************)
(* What the observer promises about one command, whoever executes it: its  *)
(* durable record moves forward through accepted, started and exactly one  *)
(* of succeeded and failed, and an event is announced to subscribers only  *)
(* once the record says at least as much.  The record survives a crash, so *)
(* a crash is a stuttering step here.                                      *)
(***************************************************************************)
CONSTANT Command

VARIABLES status,     \* the status column of the command's row, "none" before it exists
          announced   \* the command.* events subscribers have been sent

vars == <<status, announced>>

Status == {"none", "accepted", "started", "succeeded", "failed"}
Final == {"succeeded", "failed"}
EventType == Status \ {"none"}

Init == /\ status = [c \in Command |-> "none"]
        /\ announced = [c \in Command |-> {}]

Advance(c, from, to) == /\ status[c] = from
                        /\ status' = [status EXCEPT ![c] = to]
                        /\ UNCHANGED announced

Accept(c) == Advance(c, "none", "accepted")
Start(c) == Advance(c, "accepted", "started")
Finish(c) == \E s \in Final : Advance(c, "started", s)

(* The row already stands at e or beyond it. *)
Reached(c, e) == CASE e = "accepted" -> status[c] # "none"
                   [] e = "started" -> status[c] \in {"started"} \cup Final
                   [] OTHER -> status[c] = e

Announce(c) == \E e \in EventType :
                 /\ Reached(c, e)
                 /\ announced' = [announced EXCEPT ![c] = @ \cup {e}]
                 /\ UNCHANGED status

Next == \E c \in Command : Accept(c) \/ Start(c) \/ Finish(c) \/ Announce(c)

Spec == Init /\ [][Next]_vars
=============================================================================
