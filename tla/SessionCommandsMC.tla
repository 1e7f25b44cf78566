-------------------------- MODULE SessionCommandsMC --------------------------
(* A launch (c1) beside another launch or a cleanup (c2) on one worktree.   *)
(* What closes a session without removing its worktree is the beginning of  *)
(* removeAll.                                                               *)
EXTENDS SessionCommands, TLC

CONSTANTS c1, c2
MCCommand == {c1, c2}
MCKindsOf == (c1 :> {"create", "resume"}) @@ (c2 :> {"start", "removeAll", "removeWorktree"})
=============================================================================
