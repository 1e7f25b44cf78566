--------------------------- MODULE CommandQueueMC ---------------------------
(* Small instances of CommandQueue: three commands that share the chain of *)
(* one session, the last of a type without a handler, or two commands on   *)
(* one worktree next to a global one.                                      *)
EXTENDS CommandQueue

CONSTANTS c1, c2, c3, s1, w1

Payload(type, session, worktree) ==
  [type |-> type, sessionId |-> session, worktreeId |-> worktree, projectId |-> NoId]

Three == {c1, c2, c3}
OneSession ==
  [c \in Three |-> CASE c = c1 -> Payload("terminal.focus", s1, w1)
                     [] c = c2 -> Payload("session.remove", s1, NoId)
                     [] OTHER -> Payload("session.sendPrompt", s1, NoId)]

TwoScopes ==
  [c \in Three |-> CASE c = c1 -> Payload("terminal.close", NoId, w1)
                     [] c = c2 -> Payload("worktree.remove", NoId, w1)
                     [] OTHER -> Payload("hooks.install", NoId, NoId)]

(* router.ts registers no handler for the other three. *)
RegisteredHandlers == CommandType \ {"hooks.install", "worktree.create", "session.sendPrompt"}
=============================================================================
