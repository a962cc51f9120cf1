----------------------------- MODULE Management -----------------------------
(***************************************************************************)
(* The daemon flowpath: src/flowpath/manage.c, which carries out one       *)
(* request of flowmgr after the other on the data planes of module         *)
(* Dataplane and replies with the result.                                  *)
(*                                                                         *)
(* fp_mgr_incoming reads every request into the same place on the stack,   *)
(* and a data plane keeps a pointer to the name found there.  The port id  *)
(* of a delete request is the address of a string, which is no port's id.  *)
(***************************************************************************)
EXTENDS Dataplane

VARIABLE
  req    \* the receive buffer: the last request, or Null

mgmt == <<vars, req>>

Request(kind, name, type) == [kind |-> kind, name |-> name, type |-> type]

Requests ==
  {Request("FP_DATPLANE_ADD", n, t) : n \in Names, t \in Types}
  \cup {Request("FP_PORT_ADD", n, t) : n \in Names, t \in {"udp", "netmap"}}
  \cup {Request(k, n, Null) : k \in {"FP_DATPLANE_DEL", "FP_PORT_DEL", "FP_PORT_LIST",
                                     "FP_DECODER_SET"}, n \in Names}

-----------------------------------------------------------------------------

fp_on_dataplane_add(r) ==
  IF find_dataplane(r.name) # Null THEN Return("FP_DATAPLANE_EXISTS")
  ELSE fp_dataplane_create(r.name, Inbuf, r.type)

(* The handlers of the other requests look the data plane up first. *)
NotFound(s) == s = Null /\ Return("FP_BAD_DATAPLANE")

fp_on_dataplane_del(r) ==
  LET s == find_dataplane(r.name) IN
  NotFound(s) \/ (s # Null /\ fp_dataplane_delete(dps, s, "FP_OK"))

(* A UDP device may fail to open; then -1 is returned.  With a device,       *)
(* fp_port_create looks for a free id in ports_, which is null.              *)
fp_port_create == Crash
fp_on_port_add(r) ==
  LET s == find_dataplane(r.name) IN
  NotFound(s) \/ (s # Null /\ ((r.type = "udp" /\ Return("-1")) \/ fp_port_create))

fp_on_port_del(r) ==
  LET s == find_dataplane(r.name) IN
  NotFound(s) \/ (s # Null /\ fp_dataplane_remove_port(s, Null))

(* There is no error for a data plane that is not found. *)
fp_on_port_list(r) ==
  LET s == find_dataplane(r.name) IN
  IF s = Null THEN Return("FP_OK") ELSE fp_dataplane_list_ports(s)

fp_on_request(r) ==
  CASE r.kind = "FP_DATPLANE_ADD" -> fp_on_dataplane_add(r)
    [] r.kind = "FP_DATPLANE_DEL" -> fp_on_dataplane_del(r)
    [] r.kind = "FP_PORT_ADD"     -> fp_on_port_add(r)
    [] r.kind = "FP_PORT_DEL"     -> fp_on_port_del(r)
    [] r.kind = "FP_PORT_LIST"    -> fp_on_port_list(r)
    [] OTHER                      -> Return("FP_FAILURE")

fp_mgr_incoming(r) ==
  /\ ~crashed
  /\ req' = r
  /\ fp_on_request(r)

MgmtInit == Init /\ req = Null
MgmtNext == \E r \in Requests : fp_mgr_incoming(r)
MgmtSpec == MgmtInit /\ [][MgmtNext]_mgmt

-----------------------------------------------------------------------------
(* A request that fails leaves the data planes as they were: what was taken    *)
(* before the step that failed is given back, a slot in particular, which a    *)
(* data plane has before its pipeline fails to load (dataplane.c:82-93,        *)
(* 108-132, manage.c:67-195).                                                  *)
FailureLeavesNoTrace == [][err' # "FP_OK" => dps' = dps]_mgmt

(* The table has room for FP_DATAPLANE_MAX data planes, but the daemon never    *)
(* has more than one: as the name of each points into the receive buffer, each *)
(* goes by the name of the request at hand, and another one is refused as      *)
(* existing already (dataplane.c:44-55, 82, manage.c:68-83).                   *)
OneDataPlane == \A s, t \in Live : s = t
=============================================================================
