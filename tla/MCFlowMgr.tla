----------------------------- MODULE MCFlowMgr -----------------------------
(* Small instances of FlowMgr: a command of each kind flowmgr tells apart, and *)
(* the environments its runs use.                                              *)
EXTENDS FlowMgr

OneOfEach == {Cmd("dp", "add"), Cmd("dp", "mod"), Cmd("dp", "list")}
Lasting   == {Cmd("dp", "add"), Cmd("dp", "list")}

Peaceful == {"idle_restart", "large_command"}
Steady   == FaultKinds \ {"no_switch", "switch_exit"}
Killed   == {"kill_client"}

(* Processes of a kind are alike. *)
Alike == Permutations(Clients) \cup Permutations(Switches)
=============================================================================
