------------------------------ MODULE FlowMgr ------------------------------
(***************************************************************************)
(* flowmgr, its flowctl clients and the flowpath processes it manages.     *)
(*                                                                         *)
(* flowmgr (src/flowmgr) is one thread: it polls its descriptors, calls    *)
(* the handler of every readable one, and then unregisters the handlers    *)
(* that asked for it.  Each handler call and each removal is one action;   *)
(* clients, switches and signals act between any two of them.              *)
(*                                                                         *)
(* The kernel keeps flowmgr's descriptor table (fds, the lowest free       *)
(* number is handed out), a queue of pending connections for each server   *)
(* socket, and two byte streams for each connection.  A process has one    *)
(* connection, so a connection is named by its peer.                       *)
(***************************************************************************)
EXTENDS Integers, Sequences, SequencesExt, FiniteSets, TLC, Commands

CONSTANTS
  Clients,    \* flowctl processes, each runs one command
  Switches,   \* flowpath processes
  MaxFd,      \* bound: descriptors are 0 .. MaxFd
  Cmds,       \* the commands flowctl may run
  Faults,     \* what the environment may do, see FaultKinds
  Null

FaultKinds == {
  "kill_client",    \* a flowctl is killed before its answer
  "no_switch",      \* a flowctl starts while flowmgr has no running flowpath
  "switch_exit",    \* a flowpath exits at any time
  "idle_restart",   \* a flowpath exits while flowmgr has no flowctl
  "large_command",  \* a command that fills flowmgr's buffer
  "accept_fails",   \* accept() returns an error
  "signal" }        \* flowmgr is told to stop

ASSUME FlowMgrAssumption ==
  /\ Faults \subseteq FaultKinds
  /\ Cmds \subseteq FlowctlCommands
  /\ MaxFd >= 1 + Cardinality(Clients) + Cardinality(Switches)

Peers   == Clients \cup Switches
Sockets == {"control_socket", "switch_socket"}
Fds     == 0 .. MaxFd

HandlerKinds == {"Control_server", "Switch_server", "Control_channel", "Switch_channel"}

(* Peers, names and null are told apart. *)
ASSUME ProcessAssumption ==
  /\ MaxFd \in Nat
  /\ IsFiniteSet(Clients) /\ IsFiniteSet(Switches) /\ Clients \cap Switches = {}
  /\ Peers \cap {"control_socket", "switch_socket", "no switch", "rejected", "switch down"} = {}
  /\ Null \notin {"control_socket", "switch_socket", "no switch", "rejected", "switch down"}
  /\ Null \notin Peers \cup [kind : HandlerKinds, fd : Fds]

VARIABLES
  fds,        \* flowmgr's descriptors: a server socket, a peer or Null
  backlog,    \* server socket -> peers waiting to be accepted
  mgrEnd,     \* peer -> flowmgr's end of its connection
  up, down,   \* peer -> data on the way to and from flowmgr
  phase,      \* where flowmgr's main loop is
  ps,         \* the poll set: [fd, ready] in order
  i,          \* the next entry of ps to process
  ios,        \* the handler map: descriptor -> handler [kind, fd]
  rm,         \* the handlers to remove after this round
  ctrl_, switch_,   \* the channels, handlers or Null
  cmd,        \* client -> its command
  proc,       \* peer -> "new", "connected", "waiting" or "gone"
  got,        \* client -> what its recv returned
  inbuf,      \* switch -> the request last read into its stack buffer
  served      \* client -> how often flowpath executed its command

kernel == <<fds, backlog, mgrEnd, up, down>>
loop   == <<phase, ps, i, ios, rm, ctrl_, switch_>>
procs  == <<cmd, proc, got, inbuf, served>>
vars   == <<kernel, loop, procs>>

-----------------------------------------------------------------------------
(* The kernel *)

Socket(p) == IF p \in Clients THEN "control_socket" ELSE "switch_socket"

Listening(s) == s \in Range(fds)

LowestFree == CHOOSE d \in Fds : fds[d] = Null /\ \A e \in Fds : e < d => fds[e] # Null

Readable(fd) ==
  \/ fds[fd] \in Sockets /\ backlog[fds[fd]] # <<>>
  \/ fds[fd] \in Peers /\ (up[fds[fd]] # <<>> \/ proc[fds[fd]] = "gone")

(* send() on a connection whose peer is gone raises SIGPIPE, which ends    *)
(* flowmgr; on a descriptor that is not open it fails and the result is    *)
(* not looked at.                                                          *)
Sigpipe(fd) == fds[fd] \in Peers /\ proc[fds[fd]] = "gone"

(* Bugs: a send repeated, a send forgotten. *)
Delivered_Twice(fd, msg) ==
  IF fds[fd] \in Peers THEN [down EXCEPT ![fds[fd]] = @ \o <<msg, msg>>] ELSE down
Delivered_Lost(fd, msg) == down

Delivered(fd, msg) ==
  IF fds[fd] \in Peers THEN [down EXCEPT ![fds[fd]] = Append(@, msg)] ELSE down

(* The descriptors and ends left when the descriptors D are closed.        *)
(* Bug: close() forgotten.                                                 *)
FdsWithout_Leak(D) == fds

FdsWithout(D) == [fd \in Fds |-> IF fd \in D THEN Null ELSE fds[fd]]

EndsWithout(D) ==
  [p \in Peers |->
    IF \E fd \in D : fds[fd] = p \/ (fds[fd] = Socket(p) /\ p \in ToSet(backlog[Socket(p)]))
    THEN "closed" ELSE mgrEnd[p]]

-----------------------------------------------------------------------------
(* Starting and ending flowmgr *)

Handler(kind, fd) == [kind |-> kind, fd |-> fd]

ControlServer == Handler("Control_server", 0)
SwitchServer  == Handler("Switch_server", 1)

Init ==
  /\ fds = [fd \in Fds |-> CASE fd = 0 -> "control_socket" [] fd = 1 -> "switch_socket"
                             [] OTHER -> Null]
  /\ backlog = [s \in Sockets |-> <<>>]
  /\ mgrEnd = [p \in Peers |-> "none"]
  /\ up = [p \in Peers |-> <<>>]
  /\ down = [p \in Peers |-> <<>>]
  /\ phase = "poll"
  /\ ps = <<[fd |-> 0, ready |-> FALSE], [fd |-> 1, ready |-> FALSE]>>
  /\ i = 1
  /\ ios = [fd \in {0, 1} |-> IF fd = 0 THEN ControlServer ELSE SwitchServer]
  /\ rm = {}
  /\ ctrl_ = Null
  /\ switch_ = Null
  /\ cmd \in [Clients -> Cmds]
  /\ proc = [p \in Peers |-> "new"]
  /\ got = [c \in Clients |-> <<>>]
  /\ inbuf = [s \in Switches |-> Null]
  /\ served = [c \in Clients |-> 0]

(* flowmgr's process ends: the kernel closes what it held.                 *)
Exit(how) ==
  /\ phase' = how
  /\ fds' = FdsWithout(Fds)
  /\ mgrEnd' = EndsWithout(Fds)
  /\ backlog' = [s \in Sockets |-> <<>>]
  /\ ps' = <<>> /\ i' = 1 /\ ios' = <<>> /\ rm' = {} /\ ctrl_' = Null /\ switch_' = Null
  /\ UNCHANGED <<up, down, procs>>

Crash == Exit("crashed")

(* A signal ends the loop; deleting a server that the loop has already     *)
(* deleted is a double delete.                                             *)
signal_handler ==
  /\ "signal" \in Faults
  /\ phase = "poll"
  /\ IF {ControlServer, SwitchServer} \subseteq Range(ios) THEN Exit("stopped") ELSE Crash

-----------------------------------------------------------------------------
(* The main loop *)

(* ios.insert keeps the handler that is already there.                     *)
Inserted(h) == [fd \in DOMAIN ios \cup {h.fd} |-> IF fd \in DOMAIN ios THEN ios[fd] ELSE h]

(* Bugs: the handler is not polled, or not in the map. *)
register_handler_NotPolled(h) == ios' = Inserted(h) /\ ps' = ps
register_handler_NotMapped(h) == ios' = ios /\ ps' = Append(ps, [fd |-> h.fd, ready |-> FALSE])

register_handler(h) ==
  /\ ios' = Inserted(h)
  /\ ps' = Append(ps, [fd |-> h.fd, ready |-> FALSE])

poll ==
  /\ phase = "poll"
  /\ \E k \in DOMAIN ps : Readable(ps[k].fd) \/ ps[k].fd \notin DOMAIN ios
  /\ ps' = [k \in DOMAIN ps |-> [ps[k] EXCEPT !.ready = Readable(ps[k].fd)]]
  /\ phase' = "scan"
  /\ i' = 1
  /\ UNCHANGED <<kernel, ios, rm, ctrl_, switch_, procs>>

(* The handler of every entry is looked up, that of a readable one is called.  *)
Ready == {k \in i .. Len(ps) : ps[k].ready \/ ps[k].fd \notin DOMAIN ios}
Next_i == CHOOSE k \in Ready : \A m \in Ready : k <= m

(* on_input returns false: the handler is to be removed; or true: it stays. *)
(* Bugs: the result ignored, the result inverted.                           *)
Close_Ignored(h) == UNCHANGED rm
Keep_Inverted(h) == rm' = rm \cup {h}

Close(h) == rm' = rm \cup {h}
Keep(h)  == UNCHANGED rm

(* A flowctl is already accepted.  Bug: no such check. *)
Accepted_Unchecked == FALSE
Accepted == ctrl_ # Null

(* The data recv() takes from the connection, none at its end or on a      *)
(* descriptor that is not open.  On an open connection it waits for data.  *)
Data(fd) == IF fds[fd] \in Peers THEN up[fds[fd]] ELSE <<>>
AtEnd(fd) == Data(fd) = <<>> /\ (fds[fd] \in Peers => proc[fds[fd]] = "gone")

(* The calls that end flowmgr: a message to a flowctl that is gone, a      *)
(* request with no switch channel, a reply with no flowctl channel (both   *)
(* null), and either sent to a peer that is gone.                          *)
Fatal(h) ==
  LET data == Data(h.fd)
      outcome == Outcome(cmd[data[1]])
      p == Head(backlog["control_socket"])
  IN
  CASE h.kind = "Control_server" -> ctrl_ = Null /\ switch_ = Null /\ proc[p] = "gone"
    [] h.kind = "Switch_server"  -> FALSE
    [] h.kind = "Control_channel" ->
         /\ data # <<>> /\ fds[h.fd] \in Clients
         /\ \/ outcome = "forward" /\ (switch_ # Null => Sigpipe(switch_.fd))
            \/ outcome = "error" /\ Sigpipe(h.fd)
    [] h.kind = "Switch_channel" -> data # <<>> /\ (ctrl_ # Null => Sigpipe(ctrl_.fd))

(* accept() returns an error: the server is to be removed, and whoever     *)
(* waits stays in its queue.                                               *)
accept_failed(h) ==
  /\ "accept_fails" \in Faults
  /\ Close(h)
  /\ UNCHANGED <<kernel, ps, ios, ctrl_, switch_, phase>>

(* A second flowctl keeps the descriptor that was made for it, but gets no *)
(* handler, and the server is to be removed.                               *)
Control_server_on_input(h) ==
  LET p  == Head(backlog["control_socket"])
      sd == LowestFree
      ch == Handler("Control_channel", sd)
  IN
  \/ accept_failed(h)
  \/ /\ ~Fatal(h)
     /\ fds' = [fds EXCEPT ![sd] = p]
     /\ mgrEnd' = [mgrEnd EXCEPT ![p] = "open"]
     /\ backlog' = [backlog EXCEPT !["control_socket"] = Tail(@)]
     /\ \/ /\ Accepted
           /\ Close(h)
           /\ UNCHANGED <<ps, ios, ctrl_, down>>
        \/ /\ ~Accepted
           /\ ctrl_' = ch
           /\ register_handler(ch)
           /\ down' = IF switch_ = Null THEN [down EXCEPT ![p] = Append(@, "no switch")] ELSE down
           /\ Keep(h)
     /\ UNCHANGED <<up, switch_, phase>>

Switch_server_on_input(h) ==
  LET p  == Head(backlog["switch_socket"])
      sd == LowestFree
      ch == Handler("Switch_channel", sd)
  IN
  \/ accept_failed(h)
  \/ /\ fds' = [fds EXCEPT ![sd] = p]
     /\ mgrEnd' = [mgrEnd EXCEPT ![p] = "open"]
     /\ backlog' = [backlog EXCEPT !["switch_socket"] = Tail(@)]
     /\ \/ switch_ # Null /\ Close(h) /\ UNCHANGED <<ps, ios, switch_>>
        \/ switch_ = Null /\ switch_' = ch /\ register_handler(ch) /\ Keep(h)
     /\ UNCHANGED <<up, down, ctrl_, phase>>

(* A message that fills the buffer is not looked at, and the channel is to *)
(* be removed.  The reply of a switch, on a descriptor that was closed and *)
(* handed out again, is one: it is as long as the buffer.                  *)
TooLarge(fd) == fds[fd] \in Switches \/ "large_command" \in Faults

Control_channel_on_input(h) ==
  LET data == Data(h.fd)
      outcome == Outcome(cmd[data[1]])
  IN
  /\ \/ AtEnd(h.fd) /\ Close(h) /\ UNCHANGED <<up, down>>
     \/ /\ data # <<>>
        /\ up' = [up EXCEPT ![fds[h.fd]] = Tail(@)]
        /\ \/ TooLarge(h.fd) /\ Close(h) /\ UNCHANGED down
           \/ /\ fds[h.fd] \in Clients /\ ~Fatal(h)
              /\ \/ outcome = "forward" /\ down' = Delivered(switch_.fd, data[1])
                 \/ outcome = "error" /\ down' = Delivered(h.fd, "rejected")
                 \/ outcome = "ignore" /\ UNCHANGED down
              /\ Keep(h)
  /\ UNCHANGED <<fds, backlog, mgrEnd, ps, ios, ctrl_, switch_, phase>>

Switch_channel_on_input(h) ==
  LET data == Data(h.fd) IN
  /\ \/ AtEnd(h.fd) /\ Close(h) /\ UNCHANGED <<up, down>>
     \/ /\ data # <<>> /\ ~Fatal(h)
        /\ up' = [up EXCEPT ![fds[h.fd]] = Tail(@)]
        /\ down' = Delivered(ctrl_.fd, data[1])
        /\ Keep(h)
  /\ UNCHANGED <<fds, backlog, mgrEnd, ps, ios, ctrl_, switch_, phase>>

process_events ==
  /\ phase = "scan"
  /\ Ready # {}
  /\ LET fd == ps[Next_i].fd
         h  == ios[fd]
     IN IF fd \notin DOMAIN ios THEN Crash
        ELSE \/ Fatal(h) /\ Crash
             \/ /\ \/ h.kind = "Control_server"  /\ Control_server_on_input(h)
                   \/ h.kind = "Switch_server"   /\ Switch_server_on_input(h)
                   \/ h.kind = "Control_channel" /\ Control_channel_on_input(h)
                   \/ h.kind = "Switch_channel"  /\ Switch_channel_on_input(h)
                /\ i' = Next_i + 1
                /\ UNCHANGED procs

(* unregister_handler, then the handler's destructor.  A Switch_channel    *)
(* also tells a connected flowctl and closes its descriptor.               *)
unregister_handler(h) ==
  LET k == SelectInSeq(ps, LAMBDA f : f.fd = h.fd)
      hangup == h.kind = "Switch_channel" /\ ctrl_ # Null
      closed == {h.fd} \cup (IF hangup THEN {ctrl_.fd} ELSE {})
  IN
  /\ phase = "scan"
  /\ Ready = {}
  /\ h \in rm
  /\ IF k = 0 \/ (hangup /\ Sigpipe(ctrl_.fd)) THEN Crash
     ELSE /\ ios' = [fd \in DOMAIN ios \ {h.fd} |-> ios[fd]]
          /\ ps' = RemoveAt(ps, k)
          /\ rm' = rm \ {h}
          /\ fds' = FdsWithout(closed)
          /\ mgrEnd' = EndsWithout(closed)
          /\ backlog' = [s \in Sockets |-> IF fds[h.fd] = s THEN <<>> ELSE backlog[s]]
          /\ down' = IF hangup THEN Delivered(ctrl_.fd, "switch down") ELSE down
          /\ ctrl_' = IF h.kind = "Control_channel" THEN Null ELSE ctrl_
          /\ switch_' = IF h.kind = "Switch_channel" THEN Null ELSE switch_
          /\ UNCHANGED <<up, phase, i, procs>>

reset ==
  /\ phase = "scan"
  /\ Ready = {}
  /\ rm = {}
  /\ phase' = "poll"
  /\ ps' = [k \in DOMAIN ps |-> [ps[k] EXCEPT !.ready = FALSE]]
  /\ i' = 1
  /\ UNCHANGED <<kernel, ios, rm, ctrl_, switch_, procs>>

Mgr == poll \/ process_events \/ (\E h \in rm : unregister_handler(h)) \/ reset

-----------------------------------------------------------------------------
(* flowctl: send_command connects, sends, reads once and closes *)

connect(p) ==
  /\ proc[p] = "new"
  /\ IF Listening(Socket(p))
     THEN /\ backlog' = [backlog EXCEPT ![Socket(p)] = Append(@, p)]
          /\ mgrEnd' = [mgrEnd EXCEPT ![p] = "queued"]
          /\ proc' = [proc EXCEPT ![p] = IF p \in Clients THEN "connected" ELSE "waiting"]
     ELSE /\ proc' = [proc EXCEPT ![p] = "gone"]
          /\ UNCHANGED <<backlog, mgrEnd>>
  /\ UNCHANGED <<fds, up, down, loop, cmd, got, inbuf, served>>

(* flowmgr has a flowpath, and that runs.                                  *)
SwitchRuns == switch_ # Null /\ fds[switch_.fd] \in Switches /\ proc[fds[switch_.fd]] = "waiting"

flowctl_connect(c) ==
  /\ "no_switch" \in Faults \/ SwitchRuns
  /\ connect(c)

flowctl_send(c) ==
  /\ proc[c] = "connected"
  /\ IF mgrEnd[c] = "closed"
     THEN proc' = [proc EXCEPT ![c] = "gone"] /\ UNCHANGED up     \* SIGPIPE
     ELSE proc' = [proc EXCEPT ![c] = "waiting"] /\ up' = [up EXCEPT ![c] = <<c>>]
  /\ UNCHANGED <<fds, backlog, mgrEnd, down, loop, cmd, got, inbuf, served>>

flowctl_recv(c) ==
  /\ proc[c] = "waiting"
  /\ down[c] # <<>> \/ mgrEnd[c] = "closed"
  /\ got' = [got EXCEPT ![c] = down[c]]
  /\ down' = [down EXCEPT ![c] = <<>>]
  /\ proc' = [proc EXCEPT ![c] = "gone"]
  /\ UNCHANGED <<fds, backlog, mgrEnd, up, loop, cmd, inbuf, served>>

kill(c) ==
  /\ "kill_client" \in Faults
  /\ proc[c] \in {"connected", "waiting"}
  /\ proc' = [proc EXCEPT ![c] = "gone"]
  /\ UNCHANGED <<kernel, loop, cmd, got, inbuf, served>>

-----------------------------------------------------------------------------
(* flowpath: connects, answers each request, and leaves when told to or    *)
(* when the connection is closed                                           *)

flowpath_open(s) == connect(s)

(* The reply answers the request just read.  Bug: the one before it. *)
Reply_Stale(s) == IF inbuf[s] = Null THEN Head(down[s]) ELSE inbuf[s]
Reply(s) == Head(down[s])

Served(msg) == [served EXCEPT ![msg] = @ + 1]

fp_mgr_incoming(s) ==
  /\ proc[s] = "waiting"
  /\ down[s] # <<>>
  /\ down' = [down EXCEPT ![s] = Tail(@)]
  /\ inbuf' = [inbuf EXCEPT ![s] = Head(down[s])]
  /\ served' = Served(Head(down[s]))
  /\ IF mgrEnd[s] = "closed"
     THEN proc' = [proc EXCEPT ![s] = "gone"] /\ UNCHANGED up     \* SIGPIPE
     ELSE up' = [up EXCEPT ![s] = Append(@, Reply(s))] /\ UNCHANGED proc
  /\ UNCHANGED <<fds, backlog, mgrEnd, loop, cmd, got>>

(* At the end of the connection recv() returns 0, which is not an error: what  *)
(* the stack buffer holds is handled as a request (the previous one or no      *)
(* request at all), and the reply raises SIGPIPE.                              *)
fp_mgr_incoming_closed(s) ==
  /\ proc[s] = "waiting"
  /\ mgrEnd[s] = "closed" /\ down[s] = <<>>
  /\ proc' = [proc EXCEPT ![s] = "gone"]
  /\ \/ inbuf[s] # Null /\ served' = Served(inbuf[s])
     \/ UNCHANGED served
  /\ UNCHANGED <<kernel, loop, cmd, got, inbuf>>

(* flowmgr has no flowctl, connected or waiting to be accepted.            *)
Idle == ctrl_ = Null /\ backlog["control_socket"] = <<>>

flowpath_exit(s) ==
  /\ proc[s] = "waiting"
  /\ "switch_exit" \in Faults \/ ("idle_restart" \in Faults /\ Idle)
  /\ proc' = [proc EXCEPT ![s] = "gone"]
  /\ UNCHANGED <<kernel, loop, cmd, got, inbuf, served>>

-----------------------------------------------------------------------------

Next ==
  \/ Mgr
  \/ signal_handler
  \/ \E c \in Clients : flowctl_connect(c) \/ flowctl_send(c) \/ flowctl_recv(c) \/ kill(c)
  \/ \E s \in Switches : flowpath_open(s) \/ fp_mgr_incoming(s) \/ fp_mgr_incoming_closed(s)
                         \/ flowpath_exit(s)

Spec == Init /\ [][Next]_vars

(* A running process runs: flowmgr's loop never waits on one peer, flowctl *)
(* sends what it came to send and reads what arrives, flowpath answers.    *)
(* Nobody has to start a command, die or stop flowmgr.                     *)
Fairness ==
  /\ WF_vars(Mgr)
  /\ \A c \in Clients : WF_vars(flowctl_send(c)) /\ WF_vars(flowctl_recv(c))
  /\ \A s \in Switches : WF_vars(fp_mgr_incoming(s) \/ fp_mgr_incoming_closed(s))

FairSpec == Spec /\ Fairness

-----------------------------------------------------------------------------
(* Properties *)

TypeOK ==
  /\ fds \in [Fds -> Sockets \cup Peers \cup {Null}]
  /\ mgrEnd \in [Peers -> {"none", "queued", "open", "closed"}]
  /\ phase \in {"poll", "scan", "stopped", "crashed"}
  /\ DOMAIN ios \subseteq Fds
  /\ rm \subseteq Range(ios)
  /\ {ctrl_, switch_} \subseteq Range(ios) \cup {Null}
  /\ proc \in [Peers -> {"new", "connected", "waiting", "gone"}]
  /\ inbuf \in [Switches -> Clients \cup {Null}]
  /\ served \in [Clients -> Nat]

AtPoll == phase = "poll"

(* Between two rounds the poll set, the handler map and the channel pointers   *)
(* describe the same descriptors, each open and held by its own handler: no    *)
(* event is dispatched to a handler of another connection (main.cpp:93-120).   *)
TablesAgree ==
  AtPoll =>
    /\ IsInjective([k \in DOMAIN ps |-> ps[k].fd])
    /\ {ps[k].fd : k \in DOMAIN ps} = DOMAIN ios
    /\ \A fd \in DOMAIN ios : ios[fd].fd = fd /\ fds[fd] # Null
    /\ \A fd \in DOMAIN ios :
         /\ ios[fd].kind = "Control_channel" <=> ios[fd] = ctrl_
         /\ ios[fd].kind = "Control_channel" <=> fds[fd] \in Clients
         /\ ios[fd].kind = "Switch_channel" <=> ios[fd] = switch_
         /\ ios[fd].kind = "Switch_channel" <=> fds[fd] \in Switches

(* A connection that was accepted and got no handler.                          *)
Refused(p) == \E fd \in Fds : fds[fd] = p /\ fd \notin DOMAIN ios

(* A connection that comes while its channel is taken is accepted, leaked, and *)
(* costs flowmgr the server.  So while flowmgr listens nothing is leaked on    *)
(* that socket, and never more than one connection (control.cpp:61-74,         *)
(* switch.cpp:54-65).                                                          *)
OneLeakPerServer ==
  AtPoll => \A s \in Sockets :
    Cardinality({p \in Peers : Socket(p) = s /\ Refused(p)}) <= IF Listening(s) THEN 0 ELSE 1

(* Nothing but such a connection (or a failure of accept) makes flowmgr give   *)
(* up a server while it runs.                                                  *)
StillListening ==
  AtPoll => \A s \in Sockets : Listening(s) \/ \E p \in Peers : Socket(p) = s /\ Refused(p)

(* flowmgr does not crash: no handler call follows a null channel, misses a    *)
(* handler or sends to a process that is gone, and what it deletes when it     *)
(* stops is still there (main.cpp:107-110, 157-186).                           *)
NotCrashed == phase # "crashed"

(* The requests and replies between flowmgr and a switch, the oldest first:    *)
(* whoever asked for one that is not the last has left, so that the reply to a *)
(* flowctl which still waits is the answer to the most recent request          *)
(* (switch.cpp:86-87).                                                         *)
Wire(s) == up[s] \o down[s]

OnlyLatestAwaited ==
  \A s \in Switches : proc[s] # "gone" =>
    \A j, k \in DOMAIN Wire(s) : j < k /\ {Wire(s)[j], Wire(s)[k]} \subseteq Clients =>
      Wire(s)[j] # Wire(s)[k] /\ proc[Wire(s)[j]] = "gone"

(* A reply of the switch reaches one flowctl at most, and another one than the *)
(* one that asked only if that has left (switch.cpp:103-104).                  *)
ReplyGoesOnce ==
  \A c, d \in Clients : c \in ToSet(got[d]) /\ c # d =>
    proc[c] = "gone" /\ \A e \in Clients : c \in ToSet(got[e]) => e = d

(* A flowctl that gets a reply of the switch gets the reply to its own command *)
(* (control.cpp:136-153).  It holds while no flowctl leaves in mid-command.    *)
OwnReply == \A c \in Clients : ToSet(got[c]) \cap Clients \subseteq {c}

(* A command is executed once, and again only by the flowpath that executed it *)
(* last when its connection ends (manage.c:250-263).                           *)
ExecutedAgainAtEnd ==
  \A c \in Clients : served[c] <= 1 +
    Cardinality({s \in Switches : proc[s] = "gone" /\ mgrEnd[s] = "closed" /\ inbuf[s] = c})

(* What flowctl, flowmgr and flowpath promise together.                        *)
Progress(c) ==
  LET replies == ToSet(got[c]) \cap Clients
      left    == proc[c] = "gone"
  IN
  CASE replies = {c} /\ served[c] = 1 -> "answered"
    [] replies \notin {{}, {c}} \/ served[c] > 1 -> "wrong"
    [] replies = {} /\ served[c] = 1 -> IF left THEN "lost" ELSE "executed"
    [] replies = {} /\ served[c] = 0 -> CASE left -> "left"
                                            [] proc[c] = "waiting" -> "asked"
                                            [] OTHER -> "new"

Service == INSTANCE CommandService WITH status <- [c \in Clients |-> Progress(c)]

ImplementsService == Service!Spec

(* A flowctl that connects ends, with an answer or with the end of its         *)
(* connection, unless flowmgr ignores its command or has refused it: those two *)
(* wait in recv for ever, nobody else does (flowctl/util.cpp:91-130).          *)
FlowctlEnds == \A c \in Clients :
  proc[c] = "connected" ~> proc[c] = "gone" \/ Outcome(cmd[c]) = "ignore" \/ Refused(c)

(* The channel of a flowctl whose command is not ignored is given back, also   *)
(* when the flowpath is slow or the command was too large (control.cpp:100-127).*)
OnChannel(c) == ctrl_ # Null /\ fds[ctrl_.fd] = c

ControlChannelFreed ==
  \A c \in Clients : OnChannel(c) /\ Outcome(cmd[c]) # "ignore" ~> ~OnChannel(c)
=============================================================================
