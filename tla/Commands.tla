------------------------------ MODULE Commands ------------------------------
(***************************************************************************)
(* The commands that travel from flowctl to flowmgr and on to flowpath: a  *)
(* JSON object is the record of its "target" and "command" members, the    *)
(* only ones that decide where it goes.  FlowctlCommands is what flowctl   *)
(* can send; Outcome is what flowmgr's dispatch tables do with it.         *)
(***************************************************************************)

Cmd(target, command) == [target |-> target, command |-> command]

(* flowctl: the command each subcommand builds.  set_dataplane and set_port  *)
(* build "mod" for the two-word form (up, down) and "set" for a property.    *)
ping_command    == {Cmd("none", "ping")}
add_dataplane   == {Cmd("dp", "add")}
del_dataplane   == {Cmd("dp", "del")}
set_dataplane   == {Cmd("dp", "mod"), Cmd("dp", "set")}
show_dataplane  == {Cmd("dp", "show")}
stat_dataplane  == {Cmd("dp", "stat")}
list_dataplanes == {Cmd("dp", "list")}
add_port        == {Cmd("port", "add")}
del_port        == {Cmd("port", "del")}
set_port        == {Cmd("port", "mod"), Cmd("port", "set")}
show_port       == {Cmd("port", "show")}
stat_port       == {Cmd("port", "stat")}
list_ports      == {Cmd("port", "list")}

dataplane_command == add_dataplane \cup del_dataplane \cup set_dataplane
                     \cup show_dataplane \cup stat_dataplane \cup list_dataplanes
port_command      == add_port \cup del_port \cup set_port
                     \cup show_port \cup stat_port \cup list_ports

FlowctlCommands == ping_command \cup dataplane_command \cup port_command

(* flowmgr: what the two dispatch tables do with a command: send a request to *)
(* the switch, nothing at all, or (for a name they do not hold) report an     *)
(* error to flowctl.                                                          *)
dataplane_request(command) ==
  CASE command \in {"add", "del"} -> "forward"
    [] command \in {"set", "show", "stat", "list"} -> "ignore"
    [] OTHER -> "error"

port_request(command) == IF command \in {"add", "del", "list"} THEN "forward" ELSE "error"

Outcome(cmd) ==
  CASE cmd.target = "dp"   -> dataplane_request(cmd.command)
    [] cmd.target = "port" -> port_request(cmd.command)
    [] OTHER               -> "error"

Forwarded == {cmd \in FlowctlCommands : Outcome(cmd) = "forward"}
Ignored   == {cmd \in FlowctlCommands : Outcome(cmd) = "ignore"}
Rejected  == {cmd \in FlowctlCommands : Outcome(cmd) = "error"}
=============================================================================
