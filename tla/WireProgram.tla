---------------------------- MODULE WireProgram ----------------------------
(***************************************************************************)
(* A program that links flowpath, creates data planes by names of its own  *)
(* and wires ports it built, as tests/test-wire.c and tests/test-nadk.c    *)
(* do: any sequence of the calls of dataplane.h.  It uses a data plane it  *)
(* created, attaches a port to one wire at a time, and inserts packets     *)
(* from the ports that are attached.                                       *)
(***************************************************************************)
EXTENDS Dataplane

CONSTANT MaxSize   \* bound: entries in the port tables of any two data planes

Create(n, t) == fp_dataplane_create(n, n, t)
Delete(s)    == fp_dataplane_delete(dps, s, "FP_OK")
AddPort(s, p) ==
  /\ \A o \in Live : dps[s].size + (IF o = s THEN 0 ELSE dps[o].size) < MaxSize
  /\ \A o \in Live : p \notin Attached(dps[o])
  /\ fp_dataplane_add_port(s, p)
RemovePort(s, p) == fp_dataplane_remove_port(s, p)
ListPorts(s) == fp_dataplane_list_ports(s)
Start(s)     == fp_dataplane_start(s)
Stop(s)      == fp_dataplane_stop(s)
Insert(s, p) == p \in Attached(dps[s]) /\ wire_insert(dps[s], p)

Next ==
  /\ ~crashed
  /\ \/ \E n \in Names, t \in Types : Create(n, t)
     \/ \E s \in Live : Delete(s)
     \/ \E s \in Live, p \in Ports : AddPort(s, p)
     \/ \E s \in Live, p \in Ports : RemovePort(s, p)
     \/ \E s \in Live : ListPorts(s)
     \/ \E s \in Live : Start(s)
     \/ \E s \in Live : Stop(s)
     \/ \E s \in Live, p \in Ports : Insert(s, p)

Spec == Init /\ [][Next]_vars

-----------------------------------------------------------------------------

(* The output port of a complete wire is in the port table of its data plane,  *)
(* where egress looks it up: add_port fills both, and no sequence of adding    *)
(* and removing parts them (dataplane.c:143-174, wire.c:64-73).                *)
EndsInTable == \A s \in Live : Attached(dps[s]) \subseteq dps[s].table

(* The data planes as their users see them: names, wires and the forwarding    *)
(* from end to end (dataplane.h:64-74, wire.c:27-33, 107-137).                 *)
NameOf(s) == dps[s].name
EndsOf(n) == UNION {Attached(dps[s]) : s \in {t \in Live : NameOf(t) = n}}

Service == INSTANCE WireService WITH
  Max <- FP_DATAPLANE_MAX,
  planes <- {NameOf(s) : s \in Live},
  ends <- [n \in Names |-> EndsOf(n)]

ImplementsService == Service!Spec
=============================================================================
