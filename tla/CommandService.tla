--------------------------- MODULE CommandService ---------------------------
(***************************************************************************)
(* What flowctl, flowmgr and flowpath promise together: a command is       *)
(* executed at most once, and the answer a flowctl prints is the result of *)
(* its own command, computed after it was asked for.                       *)
(***************************************************************************)
CONSTANT Clients

VARIABLE status   \* client -> where its command is

Init == status = [c \in Clients |-> "new"]

Move(c, from, to) == status[c] = from /\ status' = [status EXCEPT ![c] = to]

Ask(c)     == Move(c, "new", "asked")
Execute(c) == Move(c, "asked", "executed")
Answer(c)  == Move(c, "executed", "answered")

(* A client that leaves takes the chance of an answer with it, and a command   *)
(* it had asked for may still be executed.                                     *)
Leave(c) == Move(c, "new", "left") \/ Move(c, "asked", "left") \/ Move(c, "executed", "lost")
ExecuteLate(c) == Move(c, "left", "lost")

Next == \E c \in Clients :
  Ask(c) \/ Execute(c) \/ Answer(c) \/ Leave(c) \/ ExecuteLate(c)

Spec == Init /\ [][Next]_status
=============================================================================
