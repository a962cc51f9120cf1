----------------------------- MODULE Dataplane -----------------------------
(***************************************************************************)
(* The data planes of flowpath and the wire pipeline: src/flowpath/        *)
(* dataplane.c, pipeline.c and pipelines/wire/wire.c, one operator per     *)
(* function.  Their callers are the modules WireProgram (a program that    *)
(* links the library) and Management (manage.c, the daemon).               *)
(*                                                                         *)
(* A data plane is a record: name, up (its state bit), table and size (the *)
(* ids in its port table and its number of entries), and ends (the two     *)
(* ports of the wire, ends[1] and ends[2]).  dp->name points to a string   *)
(* of the caller: a name, or Inbuf for a pointer into the receive buffer   *)
(* of manage.c, where it reads as the name in the request at hand.         *)
(*                                                                         *)
(* The port table is a set: while ids are below 53 and ports few, the      *)
(* chained hash table of hash.c finds what was inserted.                   *)
(***************************************************************************)
EXTENDS Integers, Sequences

CONSTANTS
  Names,       \* the names data planes are given
  Types,       \* pipeline modules: "wire", "missing", or without a constructor
  Ports,       \* ids of the ports
  FP_DATAPLANE_MAX,
  Null

ASSUME DataplaneAssumption ==
  FP_DATAPLANE_MAX \in Nat \ {0} /\ Ports \subseteq 0 .. 52

Inbuf == "inbuf"
Garbage == {Null}    \* what a pointer that was never set finds: no port table
FP_PORT_DROP == -9   \* 0xfffffff7, which is no port id
Slots == 0 .. FP_DATAPLANE_MAX - 1

VARIABLES
  dps,       \* the table of data planes: slot -> data plane or Null
  err,       \* what the last call reported
  last,      \* the last packet a port was asked to send, [from, to]
  crashed    \* a null or garbage pointer was followed

vars == <<dps, err, last, crashed>>

Init ==
  /\ dps = [s \in Slots |-> Null]
  /\ err = "FP_OK"
  /\ last = Null
  /\ crashed = FALSE

Return(e) == err' = e /\ UNCHANGED <<dps, last, crashed>>
Crash     == crashed' = TRUE /\ UNCHANGED <<dps, err, last>>

Set(s, dp, e) == dps' = [dps EXCEPT ![s] = dp] /\ err' = e /\ UNCHANGED <<last, crashed>>

First(S) == CHOOSE s \in S : \A t \in S : s <= t

-----------------------------------------------------------------------------
(* wire.c: a null port matches an empty end *)

Attached(dp) == {dp.ends[1], dp.ends[2]} \ {Null}
Complete(dp) == Null \notin {dp.ends[1], dp.ends[2]}

(* The first end that holds p. *)
EndOf(dp, p) == IF dp.ends[1] = p THEN 1 ELSE 2

(* Bug: the second end is taken for any further port. *)
wire_add_port_NoLimit(dp, p) == [dp EXCEPT !.ends[EndOf(dp, Null)] = p]

(* Bug: a third port is stored behind the two ends. *)
wire_add_port_PastEnd(dp, p) ==
  IF Complete(dp) THEN [dp EXCEPT !.ends = Append(@, p)]
  ELSE [dp EXCEPT !.ends[EndOf(dp, Null)] = p]

wire_add_port(dp, p) ==
  IF Complete(dp) THEN dp ELSE [dp EXCEPT !.ends[EndOf(dp, Null)] = p]

wire_del_port(dp, p) == [dp EXCEPT !.ends[EndOf(dp, p)] = Null]

wire_route(dp, p) ==
  CASE ~Complete(dp) -> FP_PORT_DROP
    [] Complete(dp) /\ dp.ends[1] = p -> dp.ends[2]
    [] OTHER -> dp.ends[1]

wire_start(dp) == IF Complete(dp) THEN "FP_OK" ELSE "FP_ERROR"

fp_dataplane_get_port(dp, id) == IF id \in dp.table THEN id ELSE Null

(* ingress, route and egress.  There is no port for FP_PORT_DROP. *)
wire_insert(dp, p) ==
  LET port == fp_dataplane_get_port(dp, wire_route(dp, p)) IN
  IF port = Null THEN Crash
  ELSE last' = [from |-> p, to |-> port] /\ UNCHANGED <<dps, err, crashed>>

-----------------------------------------------------------------------------
(* dataplane.c *)

(* Bugs: only the first slot is looked at, the first slot is skipped. *)
Matches_FirstSlot(name) == {s \in {0} : dps[s] # Null /\ dps[s].name \in {name, Inbuf}}
Matches_NotFirst(name) == {s \in Slots \ {0} : dps[s] # Null /\ dps[s].name \in {name, Inbuf}}
Matches(name) == {s \in Slots : dps[s] # Null /\ dps[s].name \in {name, Inbuf}}

find_dataplane(name) == IF Matches(name) = {} THEN Null ELSE First(Matches(name))

Empty == {s \in Slots : dps[s] = Null}

(* What fp_pipeline_load reports: the module cannot be opened, or it has no    *)
(* constructor, or the constructor fails; the pipeline is null unless FP_OK.   *)
fp_pipeline_load(type) ==
  CASE type = "wire"    -> "FP_OK"
    [] type = "missing" -> "FP_BAD_PIPELINE"
    [] OTHER            -> "FP_BAD_PIPELINE_MODULE"

(* A data plane with a slot and a name.  malloc leaves the state bit and the   *)
(* pointers to the tables as it finds them; a pointer is null or Garbage.      *)
AsFound(ptr) ==
  {[name |-> ptr, up |-> up, table |-> table, size |-> 0, ends |-> <<Null, Null>>] :
     up \in BOOLEAN, table \in {Null, Garbage}}

(* With its pipeline and its tables. *)
Loaded(dp) == [dp EXCEPT !.table = {}]

(* The tables are released, then the slot; free does nothing with null. *)
fp_dataplane_delete(planes, s, e) ==
  IF planes[s].table = Garbage THEN Crash
  ELSE /\ dps' = [planes EXCEPT ![s] = Null]
       /\ err' = e
       /\ UNCHANGED <<last, crashed>>

(* Bug: the data plane keeps its slot when its pipeline does not load. *)
fp_dataplane_create_Kept(name, ptr, type) ==
  IF find_dataplane(name) # Null THEN Return("FP_DATAPLANE_EXISTS")
  ELSE IF Empty = {} THEN Return("FP_DATAPLANE_LIMIT_EXCEEED")
  ELSE \E dp \in AsFound(ptr) : Set(First(Empty), Loaded(dp), fp_pipeline_load(type))

(* The slot is taken before the pipeline is loaded, and a data plane without   *)
(* one is deleted as it stands (dataplane.c:82-93).                            *)
fp_dataplane_create(name, ptr, type) ==
  IF find_dataplane(name) # Null THEN Return("FP_DATAPLANE_EXISTS")
  ELSE IF Empty = {} THEN Return("FP_DATAPLANE_LIMIT_EXCEEED")
  ELSE \E dp \in AsFound(ptr) :
         IF fp_pipeline_load(type) = "FP_OK"
         THEN Set(First(Empty), Loaded(dp), "FP_OK")
         ELSE fp_dataplane_delete([dps EXCEPT ![First(Empty)] = dp], First(Empty),
                                  fp_pipeline_load(type))

(* Bug: the port table forgotten. *)
Inserted_Forgotten(dp, p) == dp
Inserted(dp, p) == [dp EXCEPT !.table = @ \cup {p}, !.size = @ + 1]

(* The table takes the port before the pipeline is asked. *)
fp_dataplane_add_port(s, p) ==
  Set(s, wire_add_port(Inserted(dps[s], p), p),
      IF Complete(dps[s]) THEN "FP_ERROR" ELSE "FP_OK")

(* err == FP_OK compares the pointer with null: the table keeps the port. *)
fp_dataplane_remove_port(s, p) ==
  IF p \in {dps[s].ends[1], dps[s].ends[2]}
  THEN Set(s, wire_del_port(dps[s], p), "FP_OK")
  ELSE Return("FP_ERROR")

(* The value of the first entry of each of the first size buckets. *)
fp_dataplane_list_ports(s) ==
  IF \E b \in 0 .. dps[s].size - 1 : b \notin dps[s].table THEN Crash ELSE Return("FP_OK")

fp_dataplane_start(s) ==
  IF dps[s].up THEN Return("FP_OK")
  ELSE Set(s, [dps[s] EXCEPT !.up = wire_start(dps[s]) = "FP_OK"], wire_start(dps[s]))

(* It starts the pipeline again. *)
fp_dataplane_stop(s) == IF dps[s].up THEN Return(wire_start(dps[s])) ELSE Return("FP_OK")

-----------------------------------------------------------------------------
(* Shared by the modules of the two callers *)

Dataplanes == [name : Names \cup {Inbuf}, up : BOOLEAN, table : SUBSET Ports, size : Nat,
               ends : [1 .. 2 -> Ports \cup {Null}]]

(* The null pointer is no port, no slot and no data plane. *)
ASSUME NullAssumption == Null \notin Ports /\ Null \notin Slots /\ Null \notin Dataplanes

TypeOK ==
  /\ dps \in [Slots -> Dataplanes \cup {Null}]
  /\ last \in [from : Ports, to : Ports] \cup {Null}
  /\ crashed \in BOOLEAN

Live == {s \in Slots : dps[s] # Null}
=============================================================================
