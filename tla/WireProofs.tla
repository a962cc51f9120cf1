----------------------------- MODULE WireProofs -----------------------------
(***************************************************************************)
(* Proofs about a program that uses the data planes of flowpath, for every *)
(* set of names, pipelines and ports and every size of the table: the data *)
(* planes are well formed, the ends of a wire are ports of its table, and  *)
(* the program gets the service of WireService.                            *)
(***************************************************************************)
EXTENDS WireProgram, FiniteSetTheorems, TLAPS

(* A set of slots that is not empty has a first one (the loops over dps_).     *)
LEMMA FirstSlot ==
  ASSUME NEW S, S \subseteq Slots, S # {}
  PROVE  First(S) \in S
<1> DEFINE Less == {ss \in Nat \X Nat : ss[1] < ss[2]}
<1>1. S \subseteq Nat
  BY DataplaneAssumption DEF Slots
<1>2. OpToRel(<, Nat) = Less
  BY Zenon DEF OpToRel
<1>3. IsWellFoundedOn(Less, Nat)
  BY <1>2, NatLessThanWellFounded, Zenon
<1> HIDE DEF Less
<1>4. PICK x \in S : \A y \in S : <<y, x>> \notin Less
  BY <1>1, <1>3, WFMin, Zenon
<1>5. \A y \in S : x <= y
  <2> SUFFICES ASSUME NEW y \in S, ~(x <= y)
               PROVE  FALSE
    OBVIOUS
  <2>1. x \in Nat /\ y \in Nat /\ y < x
    BY <1>1, SMT
  <2>2. <<y, x>> \in Less
    BY <2>1, SMT DEF Less
  <2> QED  BY <1>4, <2>2
<1> QED  BY <1>5 DEF First

(* A port set on one end of a wire leaves the other.                           *)
LEMMA SetEnd ==
  ASSUME NEW dp \in Dataplanes, NEW e \in 1 .. 2, NEW q \in Ports \cup {Null}
  PROVE  LET new == [dp EXCEPT !.ends[e] = q]
         IN  /\ new \in Dataplanes
             /\ new.table = dp.table
             /\ Attached(new) \subseteq Attached(dp) \cup ({q} \ {Null})
<1> DEFINE new == [dp EXCEPT !.ends[e] = q]
<1>1. new.ends = [dp.ends EXCEPT ![e] = q] /\ new.table = dp.table
  BY DEF Dataplanes
<1>2. new \in Dataplanes
  BY DEF Dataplanes
<1>3. \A i \in 1 .. 2 : new.ends[i] = IF i = e THEN q ELSE dp.ends[i]
  BY <1>1 DEF Dataplanes
<1> QED  BY <1>1, <1>2, <1>3 DEF Attached

(* Adding a port to the wire, and taking one off it, adds no other port to the *)
(* ends (wire.c:107-137).                                                      *)
LEMMA WireEnds ==
  ASSUME NEW dp \in Dataplanes, NEW p \in Ports
  PROVE  /\ wire_add_port(dp, p) \in Dataplanes
         /\ wire_add_port(dp, p).table = dp.table
         /\ Attached(wire_add_port(dp, p)) \subseteq Attached(dp) \cup {p}
         /\ wire_del_port(dp, p) \in Dataplanes
         /\ wire_del_port(dp, p).table = dp.table
         /\ Attached(wire_del_port(dp, p)) \subseteq Attached(dp)
<1>1. EndOf(dp, p) \in 1 .. 2 /\ EndOf(dp, Null) \in 1 .. 2
  BY DEF EndOf
<1>2. CASE Complete(dp)
  BY <1>1, <1>2, SetEnd DEF wire_add_port, wire_del_port
<1>3. CASE ~Complete(dp)
  BY <1>1, <1>3, SetEnd DEF wire_add_port, wire_del_port
<1> QED  BY <1>2, <1>3

(* The strengthening: the table of data planes is well formed, and every port  *)
(* on an end of a wire is in the port table.                                   *)
IInv == TypeOK /\ EndsInTable

(* A call that changes one data plane keeps the invariant when what it leaves  *)
(* in the slot is well formed and has its ends in its table.                   *)
LEMMA SetKeepsInv ==
  ASSUME IInv, NEW s \in Slots, NEW dp, NEW e, Set(s, dp, e),
         dp = Null \/ (dp \in Dataplanes /\ Attached(dp) \subseteq dp.table)
  PROVE  IInv'
<1>1. TypeOK'
  BY DEF IInv, TypeOK, Set
<1>2. EndsInTable'
  <2> SUFFICES ASSUME NEW t \in Live'
               PROVE  Attached(dps'[t]) \subseteq dps'[t].table
    BY DEF EndsInTable, Attached, Live
  <2>1. t \in Slots /\ dps'[t] # Null
    BY DEF Live
  <2>2. CASE t = s
    BY <2>1, <2>2 DEF Set, IInv, TypeOK
  <2>3. CASE t # s
    BY <2>1, <2>3 DEF Set, IInv, TypeOK, EndsInTable, Live
  <2> QED  BY <2>2, <2>3
<1> QED  BY <1>1, <1>2 DEF IInv

(* Nor does a call that changes no data plane.                                 *)
LEMMA SameKeepsInv ==
  ASSUME IInv, UNCHANGED dps, crashed' \in BOOLEAN,
         last' \in [from : Ports, to : Ports] \cup {Null}
  PROVE  IInv'
BY DEF IInv, TypeOK, EndsInTable, Live, Attached

(* A live data plane is well formed and has its ends in its table.             *)
LEMMA LiveWellFormed ==
  ASSUME IInv, NEW s \in Live
  PROVE  s \in Slots /\ dps[s] \in Dataplanes /\ Attached(dps[s]) \subseteq dps[s].table
BY DEF IInv, TypeOK, EndsInTable, Live

LEMMA ReturnKeepsInv ==
  ASSUME IInv, NEW e, Return(e) \/ Crash
  PROVE  IInv'
BY SameKeepsInv DEF Return, Crash, IInv, TypeOK

(* A data plane whose pipeline did not load is deleted in the slot it took, or  *)
(* the program crashes; a live one has tables, and is deleted.                 *)
LEMMA HalfBuiltReleased ==
  ASSUME IInv, NEW dp, NEW s \in Empty, NEW e,
         fp_dataplane_delete([dps EXCEPT ![s] = dp], s, e)
  PROVE  Return(e) \/ Crash
<1>1. s \in Slots /\ dps[s] = Null /\ dps \in [Slots -> Dataplanes \cup {Null}]
  BY DEF Empty, IInv, TypeOK
<1>2. [[dps EXCEPT ![s] = dp] EXCEPT ![s] = Null] = dps
  BY <1>1
<1> QED
  BY <1>2 DEF fp_dataplane_delete, Return, Crash

LEMMA LiveReleased ==
  ASSUME NEW s, NEW e, fp_dataplane_delete(dps, s, e)
  PROVE  Set(s, Null, e) \/ Crash
BY DEF fp_dataplane_delete, Set, Crash

(* What creating a data plane comes to.                                        *)
LEMMA CreateCases ==
  ASSUME IInv, NEW n, NEW t, Create(n, t)
  PROVE  \/ \E e : Return(e)
         \/ Crash
         \/ /\ find_dataplane(n) = Null /\ Empty # {}
            /\ \E dp \in AsFound(n) : Set(First(Empty), Loaded(dp), "FP_OK")
<1>1. CASE find_dataplane(n) # Null \/ Empty = {}
  BY <1>1 DEF Create, fp_dataplane_create
<1>2. CASE find_dataplane(n) = Null /\ Empty # {}
  <2>1. PICK dp \in AsFound(n) :
          IF fp_pipeline_load(t) = "FP_OK"
          THEN Set(First(Empty), Loaded(dp), "FP_OK")
          ELSE fp_dataplane_delete([dps EXCEPT ![First(Empty)] = dp], First(Empty),
                                   fp_pipeline_load(t))
    BY <1>2 DEF Create, fp_dataplane_create
  <2>2. First(Empty) \in Empty
    BY <1>2, FirstSlot DEF Empty
  <2>3. CASE fp_pipeline_load(t) = "FP_OK"
    BY <1>2, <2>1, <2>3
  <2>4. CASE fp_pipeline_load(t) # "FP_OK"
    <3>1. Return(fp_pipeline_load(t)) \/ Crash
      BY <2>1, <2>2, <2>4, HalfBuiltReleased
    <3> QED  BY <3>1
  <2> QED  BY <2>3, <2>4
<1> QED  BY <1>1, <1>2

(* A new data plane is well formed and has no ports.                           *)
LEMMA NewWellFormed ==
  ASSUME NEW n \in Names, NEW dp \in AsFound(n)
  PROVE  /\ Loaded(dp) \in Dataplanes
         /\ Loaded(dp).name = n /\ Loaded(dp).ends = <<Null, Null>>
<1>1. PICK up \in BOOLEAN, table \in {Null, Garbage} :
        dp = [name |-> n, up |-> up, table |-> table, size |-> 0, ends |-> <<Null, Null>>]
  BY DEF AsFound
<1>2. Loaded(dp) = [name |-> n, up |-> up, table |-> {}, size |-> 0, ends |-> <<Null, Null>>]
  BY <1>1 DEF Loaded
<1> QED
  BY <1>2 DEF Dataplanes

(* One lemma per call of the program.                                          *)
LEMMA CreateKeepsInv ==
  ASSUME IInv, NEW n \in Names, NEW t \in Types, Create(n, t)
  PROVE  IInv'
<1>1. CASE \E e : Return(e)
  BY <1>1, ReturnKeepsInv
<1>2. CASE Crash
  BY <1>2, ReturnKeepsInv
<1>3. CASE Empty # {} /\ \E dp \in AsFound(n) : Set(First(Empty), Loaded(dp), "FP_OK")
  <2>1. PICK dp \in AsFound(n) : Set(First(Empty), Loaded(dp), "FP_OK")
    BY <1>3
  <2>2. First(Empty) \in Slots
    BY <1>3, FirstSlot DEF Empty
  <2>3. Loaded(dp) \in Dataplanes /\ Attached(Loaded(dp)) = {}
    BY NewWellFormed DEF Attached
  <2> QED  BY <2>1, <2>2, <2>3, SetKeepsInv
<1> QED  BY <1>1, <1>2, <1>3, CreateCases

LEMMA DeleteKeepsInv ==
  ASSUME IInv, NEW s \in Live, Delete(s)
  PROVE  IInv'
<1>1. Set(s, Null, "FP_OK") \/ Crash
  BY LiveReleased DEF Delete
<1> QED  BY <1>1, SetKeepsInv, ReturnKeepsInv, LiveWellFormed

(* The entry of a port in the table leaves the ends alone (dataplane.c:143-157). *)
LEMMA InsertedWellFormed ==
  ASSUME NEW dp \in Dataplanes, NEW p \in Ports
  PROVE  /\ Inserted(dp, p) \in Dataplanes
         /\ Inserted(dp, p).table = dp.table \cup {p}
         /\ Inserted(dp, p).ends = dp.ends
<1>1. dp.table \cup {p} \in SUBSET Ports /\ dp.size + 1 \in Nat
  BY DEF Dataplanes
<1>2. Inserted(dp, p) = [dp EXCEPT !.table = dp.table \cup {p}, !.size = dp.size + 1]
  BY DEF Inserted
<1> QED  BY <1>1, <1>2 DEF Dataplanes

LEMMA AddPortKeepsInv ==
  ASSUME IInv, NEW s \in Live, NEW p \in Ports, AddPort(s, p)
  PROVE  IInv'
<1> DEFINE dp == Inserted(dps[s], p)
<1>1. s \in Slots /\ dps[s] \in Dataplanes /\ Attached(dps[s]) \subseteq dps[s].table
  BY LiveWellFormed
<1>2. dp \in Dataplanes /\ dp.table = dps[s].table \cup {p} /\ dp.ends = dps[s].ends
  BY <1>1, InsertedWellFormed
<1>3. Attached(dp) = Attached(dps[s])
  <2> HIDE DEF dp
  <2> QED  BY <1>2 DEF Attached
<1>4. /\ wire_add_port(dp, p) \in Dataplanes
      /\ Attached(wire_add_port(dp, p)) \subseteq wire_add_port(dp, p).table
  <2> HIDE DEF dp
  <2> QED  BY <1>1, <1>2, <1>3, WireEnds
<1>5. \E e : Set(s, wire_add_port(dp, p), e)
  BY DEF AddPort, fp_dataplane_add_port
<1> QED  BY <1>1, <1>4, <1>5, SetKeepsInv

LEMMA RemovePortKeepsInv ==
  ASSUME IInv, NEW s \in Live, NEW p \in Ports, RemovePort(s, p)
  PROVE  IInv'
<1>1. s \in Slots /\ dps[s] \in Dataplanes /\ Attached(dps[s]) \subseteq dps[s].table
  BY LiveWellFormed
<1>2. /\ wire_del_port(dps[s], p) \in Dataplanes
      /\ Attached(wire_del_port(dps[s], p)) \subseteq wire_del_port(dps[s], p).table
  BY <1>1, WireEnds
<1>3. Set(s, wire_del_port(dps[s], p), "FP_OK") \/ Return("FP_ERROR")
  BY DEF RemovePort, fp_dataplane_remove_port
<1> QED  BY <1>1, <1>2, <1>3, SetKeepsInv, ReturnKeepsInv

LEMMA StartKeepsInv ==
  ASSUME IInv, NEW s \in Live, Start(s)
  PROVE  IInv'
<1> DEFINE new == [dps[s] EXCEPT !.up = wire_start(dps[s]) = "FP_OK"]
<1>1. s \in Slots /\ dps[s] \in Dataplanes /\ Attached(dps[s]) \subseteq dps[s].table
  BY LiveWellFormed
<1>2. new \in Dataplanes /\ new.table = dps[s].table /\ new.ends = dps[s].ends
  BY <1>1 DEF Dataplanes
<1>3. Attached(new) \subseteq new.table
  BY <1>1, <1>2 DEF Attached
<1>4. Return("FP_OK") \/ Set(s, new, wire_start(dps[s]))
  BY DEF Start, fp_dataplane_start
<1> QED  BY <1>1, <1>2, <1>3, <1>4, SetKeepsInv, ReturnKeepsInv

(* A packet goes from a port of the table to a port of the table.              *)
LEMMA InsertKeepsInv ==
  ASSUME IInv, NEW s \in Live, NEW p \in Ports, Insert(s, p)
  PROVE  IInv'
<1> DEFINE port == fp_dataplane_get_port(dps[s], wire_route(dps[s], p))
<1>1. CASE port = Null
  BY <1>1, ReturnKeepsInv DEF Insert, wire_insert
<1>2. CASE port # Null
  <2>1. port \in Ports
    BY <1>2, LiveWellFormed DEF fp_dataplane_get_port, Dataplanes
  <2>2. last' = [from |-> p, to |-> port] /\ UNCHANGED <<dps, crashed>>
    BY <1>2 DEF Insert, wire_insert
  <2> HIDE DEF port
  <2> QED  BY <2>1, <2>2, SameKeepsInv DEF IInv, TypeOK
<1> QED  BY <1>1, <1>2

LEMMA InvInitially == Init => IInv
BY DEF Init, IInv, TypeOK, EndsInTable, Live

(* Every step keeps the invariant.                                             *)
LEMMA InvPreserved == IInv /\ [Next]_vars => IInv'
<1> SUFFICES ASSUME IInv, [Next]_vars
             PROVE  IInv'
  OBVIOUS
<1>1. CASE UNCHANGED vars
  BY <1>1, SameKeepsInv DEF vars, IInv, TypeOK
<1>2. ASSUME NEW n \in Names, NEW t \in Types, Create(n, t) PROVE IInv'
  BY <1>2, CreateKeepsInv
<1>3. ASSUME NEW s \in Live, Delete(s) PROVE IInv'
  BY <1>3, DeleteKeepsInv
<1>4. ASSUME NEW s \in Live, NEW p \in Ports, AddPort(s, p) PROVE IInv'
  BY <1>4, AddPortKeepsInv
<1>5. ASSUME NEW s \in Live, NEW p \in Ports, RemovePort(s, p) PROVE IInv'
  BY <1>5, RemovePortKeepsInv
<1>6. ASSUME NEW s \in Live, ListPorts(s) PROVE IInv'
  BY <1>6, ReturnKeepsInv DEF ListPorts, fp_dataplane_list_ports
<1>7. ASSUME NEW s \in Live, Start(s) PROVE IInv'
  BY <1>7, StartKeepsInv
<1>8. ASSUME NEW s \in Live, Stop(s) PROVE IInv'
  BY <1>8, ReturnKeepsInv DEF Stop, fp_dataplane_stop
<1>9. ASSUME NEW s \in Live, NEW p \in Ports, Insert(s, p) PROVE IInv'
  BY <1>9, InsertKeepsInv
<1> QED  BY <1>1, <1>2, <1>3, <1>4, <1>5, <1>6, <1>7, <1>8, <1>9 DEF Next

(* Whatever calls a program makes, the table of data planes is well formed     *)
(* (dataplane.c:17-226).                                                       *)
THEOREM WireTypeCorrect == Spec => []TypeOK
<1>1. IInv => TypeOK
  BY DEF IInv
<1> QED  BY <1>1, InvInitially, InvPreserved, PTL DEF Spec

(* Whatever calls a program makes, the ends of every wire are in the port      *)
(* table of its data plane, where egress looks the output port up              *)
(* (dataplane.c:143-174, wire.c:64-73).                                        *)
THEOREM WireEndsInTable == Spec => []EndsInTable
<1>1. IInv => EndsInTable
  BY DEF IInv
<1> QED  BY <1>1, InvInitially, InvPreserved, PTL DEF Spec

-----------------------------------------------------------------------------
(* The service: names are unique, so that a name stands for one data plane,    *)
(* and the two ends of a wire are different ports, so that one has another to  *)
(* go to.                                                                      *)

Unique   == \A s, t \in Live : NameOf(s) = NameOf(t) => s = t
Named    == \A s \in Live : NameOf(s) \in Names

(* No port is on both ends. *)
Proper(dp) == dp.ends[1] = dp.ends[2] => dp.ends[1] = Null
Distinct == \A s \in Live : Proper(dps[s])

SInv == IInv /\ Unique /\ Named /\ Distinct

planes == {NameOf(s) : s \in Live}
ends   == [n \in Names |-> EndsOf(n)]

(* The service counts as the program does.                                     *)
LEMMA SameCount == \A S : Service!Cardinality(S) = Cardinality(S)
BY DEF Service!Cardinality, Cardinality, Service!IsFiniteSet, IsFiniteSet

-----------------------------------------------------------------------------
(* The ends of a wire *)

(* The ports of the data plane of a name.                                      *)
LEMMA EndsOfOne ==
  ASSUME Unique, NEW n, NEW s \in Live, NameOf(s) = n
  PROVE  EndsOf(n) = Attached(dps[s])
BY DEF Unique, EndsOf

LEMMA EndsOfNone ==
  ASSUME NEW n, n \notin planes
  PROVE  EndsOf(n) = {}
BY DEF EndsOf, planes

(* A port joins a wire that is not complete.                                   *)
LEMMA Joins ==
  ASSUME NEW dp \in Dataplanes, Proper(dp), NEW p \in Ports, p \notin Attached(dp),
         ~Complete(dp)
  PROVE  LET new == wire_add_port(dp, p)
         IN  /\ new \in Dataplanes /\ new.name = dp.name /\ Proper(new)
             /\ Attached(new) = Attached(dp) \cup {p}
             /\ IsFiniteSet(Attached(dp)) /\ Cardinality(Attached(dp)) < 2
<1> DEFINE e == EndOf(dp, Null)
           new == [dp EXCEPT !.ends[e] = p]
<1>1. e \in 1 .. 2 /\ dp.ends[e] = Null
  BY DEF EndOf, Complete
<1>2. wire_add_port(dp, p) = new
  BY DEF wire_add_port
<1>3. new \in Dataplanes
  BY <1>1, SetEnd
<1>4. new.name = dp.name /\ \A i \in 1 .. 2 : new.ends[i] = IF i = e THEN p ELSE dp.ends[i]
  BY <1>1 DEF Dataplanes
<1>5. p # Null
  BY NullAssumption
<1> HIDE DEF e, new
<1>6. Attached(new) = Attached(dp) \cup {p}
  BY <1>1, <1>4, <1>5 DEF Attached
<1>7. Proper(new)
  BY <1>1, <1>4, <1>5 DEF Proper, Attached
<1>8. Attached(dp) = {} \/ \E x : Attached(dp) = {x}
  BY <1>1 DEF Attached
<1>9. IsFiniteSet(Attached(dp)) /\ Cardinality(Attached(dp)) < 2
  <2>1. CASE Attached(dp) = {}
    BY <2>1, FS_EmptySet
  <2>2. CASE \E x : Attached(dp) = {x}
    <3>1. PICK x : Attached(dp) = {x}
      BY <2>2
    <3>2. IsFiniteSet({x}) /\ Cardinality({x}) = 1
      BY FS_Singleton
    <3> QED
      BY <3>1, <3>2
  <2> QED
    BY <1>8, <2>1, <2>2
<1> QED
  BY <1>2, <1>3, <1>4, <1>6, <1>7, <1>9

(* A port leaves a wire.                                                       *)
LEMMA Leaves ==
  ASSUME NEW dp \in Dataplanes, Proper(dp), NEW p \in Ports, p \in Attached(dp)
  PROVE  LET new == wire_del_port(dp, p)
         IN  /\ new \in Dataplanes /\ new.name = dp.name /\ Proper(new)
             /\ Attached(new) = Attached(dp) \ {p}
<1> DEFINE e == EndOf(dp, p)
           new == [dp EXCEPT !.ends[e] = Null]
<1>1. e \in 1 .. 2 /\ dp.ends[e] = p /\ p # Null
  BY NullAssumption DEF EndOf, Attached
<1>2. new \in Dataplanes
  BY <1>1, SetEnd
<1>3. new.name = dp.name /\ \A i \in 1 .. 2 : new.ends[i] = IF i = e THEN Null ELSE dp.ends[i]
  BY <1>1 DEF Dataplanes
<1>4. wire_del_port(dp, p) = new
  BY DEF wire_del_port
<1> HIDE DEF e, new
<1>5. Attached(new) = Attached(dp) \ {p}
  BY <1>1, <1>3 DEF Attached, Proper
<1>6. Proper(new)
  BY <1>1, <1>3 DEF Proper
<1> QED
  BY <1>2, <1>3, <1>4, <1>5, <1>6

(* A packet goes from one end of a wire to the other.                          *)
LEMMA Crosses ==
  ASSUME NEW dp \in Dataplanes, Proper(dp), NEW p \in Ports, p \in Attached(dp),
         fp_dataplane_get_port(dp, wire_route(dp, p)) # Null
  PROVE  LET q == fp_dataplane_get_port(dp, wire_route(dp, p))
         IN  q \in Ports /\ Attached(dp) = {p, q} /\ p # q
<1>1. dp.table \subseteq 0 .. 52 /\ dp.table \subseteq Ports
  BY DataplaneAssumption DEF Dataplanes
<1>2. FP_PORT_DROP \notin dp.table
  BY <1>1 DEF FP_PORT_DROP
<1>3. Complete(dp) /\ fp_dataplane_get_port(dp, wire_route(dp, p)) = wire_route(dp, p)
      /\ wire_route(dp, p) \in Ports
  BY <1>1, <1>2 DEF fp_dataplane_get_port, wire_route
<1>4. dp.ends[1] # Null /\ dp.ends[2] # Null /\ dp.ends[1] # dp.ends[2]
  BY <1>3 DEF Complete, Proper
<1>5. wire_route(dp, p) = IF dp.ends[1] = p THEN dp.ends[2] ELSE dp.ends[1]
  BY <1>3 DEF wire_route
<1> QED
  BY <1>3, <1>4, <1>5 DEF Attached

-----------------------------------------------------------------------------
(* What a call that writes one slot does to the names and ends *)

(* A data plane takes the place of one of the same name.                       *)
LEMMA Replaced ==
  ASSUME SInv, NEW s \in Live, NEW dp \in Dataplanes, NEW e, Set(s, dp, e),
         dp.name = NameOf(s), Proper(dp)
  PROVE  /\ Unique' /\ Named' /\ Distinct' /\ planes' = planes
         /\ ends' = [ends EXCEPT ![NameOf(s)] = Attached(dp)]
<1>1. s \in Slots /\ dp # Null /\ dps \in [Slots -> Dataplanes \cup {Null}]
  BY NullAssumption DEF SInv, IInv, TypeOK, Live
<1>2. \A t \in Slots : dps'[t] = IF t = s THEN dp ELSE dps[t]
  BY <1>1 DEF Set
<1>3. Live' = Live /\ \A t \in Live : NameOf(t)' = NameOf(t)
  BY <1>1, <1>2 DEF Live, NameOf
<1>4. Unique' /\ Named' /\ planes' = planes
  BY <1>3 DEF SInv, Unique, Named, planes
<1>5. Distinct'
  BY <1>2, <1>3 DEF SInv, Distinct, Live, Proper
<1>6. ASSUME NEW n \in Names
      PROVE  EndsOf(n)' = IF n = NameOf(s) THEN Attached(dp) ELSE EndsOf(n)
  <2>1. \A t \in Live : Attached(dps[t])' = IF t = s THEN Attached(dp) ELSE Attached(dps[t])
    BY <1>2 DEF Live, Attached
  <2> QED
    BY <1>3, <2>1 DEF SInv, Unique, EndsOf
<1>7. NameOf(s) \in Names
  BY DEF SInv, Named
<1>8. ends' = [ends EXCEPT ![NameOf(s)] = Attached(dp)]
  BY <1>6, <1>7 DEF ends
<1> QED
  BY <1>4, <1>5, <1>8

(* A data plane without ports takes a free slot under a new name.              *)
LEMMA Created ==
  ASSUME SInv, NEW s \in Empty, NEW dp \in Dataplanes, NEW e, Set(s, dp, e),
         dp.name \in Names \ planes, Attached(dp) = {}, Proper(dp)
  PROVE  /\ Unique' /\ Named' /\ Distinct'
         /\ planes' = planes \cup {dp.name} /\ ends' = ends
<1>1. s \in Slots /\ dp # Null /\ dps \in [Slots -> Dataplanes \cup {Null}] /\ s \notin Live
  BY NullAssumption DEF SInv, IInv, TypeOK, Empty, Live
<1>2. \A t \in Slots : dps'[t] = IF t = s THEN dp ELSE dps[t]
  BY <1>1 DEF Set
<1>3. Live' = Live \cup {s} /\ \A t \in Live \cup {s} : NameOf(t)' = IF t = s THEN dp.name ELSE NameOf(t)
  BY <1>1, <1>2 DEF Live, NameOf
<1>4. Unique' /\ Named' /\ planes' = planes \cup {dp.name}
  BY <1>1, <1>3 DEF SInv, Unique, Named, planes
<1>5. Distinct'
  BY <1>1, <1>2, <1>3 DEF SInv, Distinct, Live, Proper
<1>6. ASSUME NEW n \in Names
      PROVE  EndsOf(n)' = EndsOf(n)
  <2>1. \A t \in Live \cup {s} : Attached(dps[t])' = IF t = s THEN {} ELSE Attached(dps[t])
    BY <1>1, <1>2 DEF Live, Attached
  <2> QED
    BY <1>1, <1>3, <2>1 DEF EndsOf
<1>7. ends' = ends
  BY <1>6 DEF ends
<1> QED
  BY <1>4, <1>5, <1>7

(* A slot becomes free.                                                        *)
LEMMA Destroyed ==
  ASSUME SInv, NEW s \in Live, NEW e, Set(s, Null, e)
  PROVE  /\ Unique' /\ Named' /\ Distinct'
         /\ planes' = planes \ {NameOf(s)} /\ ends' = [ends EXCEPT ![NameOf(s)] = {}]
<1>1. s \in Slots /\ dps \in [Slots -> Dataplanes \cup {Null}]
  BY DEF SInv, IInv, TypeOK, Live
<1>2. \A t \in Slots : dps'[t] = IF t = s THEN Null ELSE dps[t]
  BY <1>1 DEF Set
<1>3. Live' = Live \ {s} /\ \A t \in Live \ {s} : NameOf(t)' = NameOf(t)
  BY <1>1, <1>2 DEF Live, NameOf
<1>4. Unique' /\ Named' /\ planes' = planes \ {NameOf(s)}
  BY <1>3 DEF SInv, Unique, Named, planes
<1>5. Distinct'
  BY <1>2, <1>3 DEF SInv, Distinct, Live, Proper
<1>6. ASSUME NEW n \in Names
      PROVE  EndsOf(n)' = IF n = NameOf(s) THEN {} ELSE EndsOf(n)
  <2>1. \A t \in Live \ {s} : Attached(dps[t])' = Attached(dps[t])
    BY <1>2 DEF Live, Attached
  <2> QED
    BY <1>3, <2>1 DEF SInv, Unique, EndsOf
<1>7. NameOf(s) \in Names
  BY DEF SInv, Named
<1>8. ends' = [ends EXCEPT ![NameOf(s)] = {}]
  BY <1>6, <1>7 DEF ends
<1> QED
  BY <1>4, <1>5, <1>8

(* Nothing changes when no data plane does.                                    *)
LEMMA Same ==
  ASSUME SInv, UNCHANGED dps
  PROVE  Unique' /\ Named' /\ Distinct' /\ planes' = planes /\ ends' = ends
<1>1. Live' = Live /\ \A t : NameOf(t)' = NameOf(t)
  BY DEF Live, NameOf
<1>2. \A n : EndsOf(n)' = EndsOf(n)
  BY <1>1 DEF EndsOf, Attached
<1> QED
  BY <1>1, <1>2 DEF SInv, Unique, Named, Distinct, Proper, planes, ends

(* A table with a free slot holds fewer names than it has slots.               *)
LEMMA FewerNames ==
  ASSUME Empty # {}
  PROVE  IsFiniteSet(planes) /\ Cardinality(planes) < FP_DATAPLANE_MAX
<1> DEFINE f == [s \in Live |-> NameOf(s)]
<1>1. IsFiniteSet(Slots) /\ Cardinality(Slots) = FP_DATAPLANE_MAX
  BY DataplaneAssumption, FS_Interval DEF Slots
<1>2. Live \in SUBSET Slots /\ Live # Slots
  BY DEF Live, Empty
<1>3. IsFiniteSet(Live) /\ Cardinality(Live) <= Cardinality(Slots)
      /\ Cardinality(Live) # Cardinality(Slots)
  BY <1>1, <1>2, FS_Subset
<1>4. f \in Surjection(Live, planes)
  BY DEF planes, Surjection
<1>5. IsFiniteSet(planes) /\ Cardinality(planes) <= Cardinality(Live)
  BY <1>3, <1>4, FS_Surjection
<1>6. Cardinality(planes) \in Nat /\ Cardinality(Live) \in Nat
  BY <1>3, <1>5, FS_CardinalityType
<1> QED
  BY <1>1, <1>3, <1>5, <1>6, DataplaneAssumption

-----------------------------------------------------------------------------
(* The steps of the service, in terms of planes and ends *)

LEMMA Served ==
  /\ Service!vars = <<planes, ends, last>>
  /\ \A n \in Names : Service!Create(n) \/ Service!Destroy(n) => Service!Next
  /\ \A n \in Names, p \in Ports :
       Service!Attach(n, p) \/ Service!Detach(n, p) => Service!Next
  /\ \A n \in Names, p, q \in Ports : Service!Forward(n, p, q) => Service!Next
<1>1. Service!vars = <<planes, ends, last>>
  BY DEF Service!vars, planes, ends
<1> QED
  BY <1>1 DEF Service!Next

(* A call that leaves the data planes and the last packet alone.               *)
LEMMA Stutters ==
  ASSUME SInv, UNCHANGED <<dps, last>>
  PROVE  Unique' /\ Named' /\ Distinct' /\ UNCHANGED Service!vars
<1>1. Unique' /\ Named' /\ Distinct' /\ planes' = planes /\ ends' = ends
  BY Same
<1> QED
  BY <1>1 DEF Service!vars, planes, ends

(* A call that replaces a data plane and leaves its ports as they are.         *)
LEMMA ReplacedStutters ==
  ASSUME SInv, NEW s \in Live, NEW dp \in Dataplanes, NEW e, Set(s, dp, e),
         dp.name = NameOf(s), dp.ends = dps[s].ends
  PROVE  Unique' /\ Named' /\ Distinct' /\ UNCHANGED Service!vars
<1>1. Proper(dp) /\ Attached(dp) = Attached(dps[s])
  BY DEF SInv, Distinct, Proper, Attached
<1>2. /\ Unique' /\ Named' /\ Distinct' /\ planes' = planes
      /\ ends' = [ends EXCEPT ![NameOf(s)] = Attached(dp)]
  BY <1>1, Replaced
<1>3. NameOf(s) \in Names /\ EndsOf(NameOf(s)) = Attached(dps[s])
  BY EndsOfOne DEF SInv, Named
<1>4. ends' = ends
  BY <1>1, <1>2, <1>3 DEF ends
<1>5. last' = last
  BY DEF Set
<1> QED
  BY <1>2, <1>4, <1>5 DEF Service!vars, planes, ends

-----------------------------------------------------------------------------
(* One lemma per call of the program *)

SStep == Unique' /\ Named' /\ Distinct' /\ [Service!Next]_(Service!vars)

LEMMA ReturnServed ==
  ASSUME SInv, NEW e, Return(e) \/ Crash
  PROVE  SStep
BY Stutters DEF Return, Crash, SStep

LEMMA CreateServed ==
  ASSUME SInv, NEW n \in Names, NEW t \in Types, Create(n, t)
  PROVE  SStep
<1>1. CASE (\E e : Return(e)) \/ Crash
  BY <1>1, ReturnServed
<1>2. CASE /\ find_dataplane(n) = Null /\ Empty # {}
           /\ \E new \in AsFound(n) : Set(First(Empty), Loaded(new), "FP_OK")
  <2>1. PICK new \in AsFound(n) : Set(First(Empty), Loaded(new), "FP_OK")
    BY <1>2
  <2> DEFINE dp == Loaded(new)
             s == First(Empty)
  <2>2. s \in Empty
    BY <1>2, FirstSlot DEF Empty
  <2>3. dp \in Dataplanes /\ dp.name = n /\ Attached(dp) = {} /\ Proper(dp)
    BY NewWellFormed DEF Attached, Proper
  <2>4. n \notin planes
    <3>1. SUFFICES ASSUME n \in planes PROVE FALSE
      OBVIOUS
    <3>2. PICK o \in Slots : dps[o] # Null /\ dps[o].name = n
      BY <3>1 DEF planes, Live, NameOf
    <3>3. Matches(n) # {}
      BY <3>2 DEF Matches
    <3>4. find_dataplane(n) \in Slots /\ dps[find_dataplane(n)] # Null
      BY <3>3, FirstSlot DEF find_dataplane, Matches
    <3> QED
      BY <1>2, <3>4, NullAssumption
  <2> HIDE DEF dp, s
  <2>5. /\ Unique' /\ Named' /\ Distinct'
        /\ planes' = planes \cup {n} /\ ends' = ends
    BY <2>1, <2>2, <2>3, <2>4, Created DEF dp, s
  <2>6. last' = last /\ Cardinality(planes) < FP_DATAPLANE_MAX
    BY <1>2, <2>1, FewerNames DEF Set
  <2>7. Service!Create(n)
    BY <2>4, <2>5, <2>6, SameCount, Zenon DEF Service!Create, planes, ends
  <2> QED
    BY <2>5, <2>7, Served DEF SStep
<1> QED
  BY <1>1, <1>2, CreateCases DEF SInv

LEMMA DeleteServed ==
  ASSUME SInv, NEW s \in Live, Delete(s)
  PROVE  SStep
<1>1. CASE Crash
  BY <1>1, ReturnServed
<1>2. CASE Set(s, Null, "FP_OK")
  <2> DEFINE n == NameOf(s)
  <2>1. /\ Unique' /\ Named' /\ Distinct'
        /\ planes' = planes \ {n} /\ ends' = [ends EXCEPT ![n] = {}]
    BY <1>2, Destroyed
  <2>2. n \in Names /\ n \in planes /\ last' = last
    BY <1>2 DEF SInv, Named, planes, Set
  <2> HIDE DEF n
  <2>3. Service!Destroy(n)
    BY <2>1, <2>2 DEF Service!Destroy, planes, ends
  <2> QED
    BY <2>1, <2>2, <2>3, Served DEF SStep
<1> QED
  BY <1>1, <1>2, LiveReleased DEF Delete

LEMMA AddPortServed ==
  ASSUME SInv, NEW s \in Live, NEW p \in Ports, AddPort(s, p)
  PROVE  SStep
<1> DEFINE dp == Inserted(dps[s], p)
           n == NameOf(s)
<1>1. dps[s] \in Dataplanes /\ Proper(dps[s]) /\ n \in Names
  BY LiveWellFormed DEF SInv, Distinct, Named
<1>2. dp \in Dataplanes /\ dp.ends = dps[s].ends
  BY <1>1, InsertedWellFormed
<1>3. dp.name = n
  BY <1>1 DEF Inserted, Dataplanes, NameOf
<1>4. Complete(dp) = Complete(dps[s])
  <2> HIDE DEF dp
  <2> QED  BY <1>2 DEF Complete
<1>5. Attached(dp) = Attached(dps[s]) /\ Proper(dp)
  <2> HIDE DEF dp
  <2> QED  BY <1>1, <1>2 DEF Attached, Proper
<1>6. \E e : Set(s, wire_add_port(dp, p), e)
  BY DEF AddPort, fp_dataplane_add_port
<1>7. \A o \in Live : p \notin Attached(dps[o])
  BY DEF AddPort
<1> HIDE DEF dp, n
<1>8. CASE Complete(dp)
  <2>1. wire_add_port(dp, p) = dp
    BY <1>8 DEF wire_add_port
  <2>2. dp.name = NameOf(s)
    BY <1>3 DEF n
  <2> QED
    BY <1>2, <1>6, <2>1, <2>2, ReplacedStutters DEF SStep
<1>9. CASE ~Complete(dp)
  <2> DEFINE new == wire_add_port(dp, p)
  <2>1. p \notin Attached(dp)
    BY <1>5, <1>7
  <2>2. /\ new \in Dataplanes /\ new.name = n /\ Proper(new)
        /\ Attached(new) = Attached(dp) \cup {p}
        /\ Cardinality(Attached(dp)) < 2
    BY <1>2, <1>3, <1>5, <1>9, <2>1, Joins
  <2> HIDE DEF new
  <2>3. PICK e : Set(s, new, e)
    BY <1>6 DEF new
  <2>4. /\ Unique' /\ Named' /\ Distinct' /\ planes' = planes
        /\ ends' = [ends EXCEPT ![n] = Attached(dp) \cup {p}]
    BY <2>2, <2>3, Replaced DEF n
  <2>5. n \in planes /\ ends[n] = Attached(dp) /\ last' = last
    BY <1>1, <1>5, <2>3, EndsOfOne DEF planes, ends, n, Set, SInv
  <2>6. \A m \in Names : p \notin ends[m]
    BY <1>7 DEF ends, EndsOf
  <2>7. Service!Attach(n, p)
    BY <2>2, <2>4, <2>5, <2>6, SameCount, Zenon DEF Service!Attach, planes, ends
  <2> QED
    BY <1>1, <2>4, <2>7, Served DEF SStep
<1> QED
  BY <1>8, <1>9

LEMMA RemovePortServed ==
  ASSUME SInv, NEW s \in Live, NEW p \in Ports, RemovePort(s, p)
  PROVE  SStep
<1> DEFINE n == NameOf(s)
           new == wire_del_port(dps[s], p)
<1>1. dps[s] \in Dataplanes /\ Proper(dps[s]) /\ n \in Names
  BY LiveWellFormed DEF SInv, Distinct, Named
<1>2. CASE p \notin Attached(dps[s])
  <2>1. p \notin {dps[s].ends[1], dps[s].ends[2]}
    BY <1>2, NullAssumption DEF Attached
  <2> QED
    BY <2>1, ReturnServed DEF RemovePort, fp_dataplane_remove_port
<1>3. CASE p \in Attached(dps[s])
  <2>1. /\ new \in Dataplanes /\ new.name = n /\ Proper(new)
        /\ Attached(new) = Attached(dps[s]) \ {p}
    BY <1>1, <1>3, Leaves DEF NameOf
  <2>2. Set(s, new, "FP_OK")
    BY <1>3 DEF RemovePort, fp_dataplane_remove_port, Attached
  <2> HIDE DEF new, n
  <2>3. /\ Unique' /\ Named' /\ Distinct' /\ planes' = planes
        /\ ends' = [ends EXCEPT ![n] = Attached(dps[s]) \ {p}]
    BY <2>1, <2>2, Replaced DEF n
  <2>4. ends[n] = Attached(dps[s]) /\ last' = last
    BY <1>1, <2>2, EndsOfOne DEF ends, n, Set, SInv
  <2>5. Service!Detach(n, p)
    BY <1>3, <2>3, <2>4 DEF Service!Detach, planes, ends
  <2> QED
    BY <1>1, <2>3, <2>5, Served DEF SStep
<1> QED
  BY <1>2, <1>3

LEMMA StartServed ==
  ASSUME SInv, NEW s \in Live, Start(s)
  PROVE  SStep
<1> DEFINE new == [dps[s] EXCEPT !.up = wire_start(dps[s]) = "FP_OK"]
<1>1. dps[s] \in Dataplanes
  BY LiveWellFormed DEF SInv
<1>2. new \in Dataplanes /\ new.name = NameOf(s) /\ new.ends = dps[s].ends
  BY <1>1 DEF Dataplanes, NameOf
<1>3. Return("FP_OK") \/ Set(s, new, wire_start(dps[s]))
  BY DEF Start, fp_dataplane_start
<1> HIDE DEF new
<1> QED
  BY <1>2, <1>3, ReturnServed, ReplacedStutters DEF SStep

LEMMA InsertServed ==
  ASSUME SInv, NEW s \in Live, NEW p \in Ports, Insert(s, p)
  PROVE  SStep
<1> DEFINE q == fp_dataplane_get_port(dps[s], wire_route(dps[s], p))
           n == NameOf(s)
<1>1. CASE q = Null
  BY <1>1, ReturnServed DEF Insert, wire_insert
<1>2. CASE q # Null
  <2>1. dps[s] \in Dataplanes /\ Proper(dps[s]) /\ n \in Names /\ p \in Attached(dps[s])
    BY LiveWellFormed DEF SInv, Distinct, Named, Insert
  <2>2. q \in Ports /\ Attached(dps[s]) = {p, q} /\ p # q
    BY <1>2, <2>1, Crosses
  <2>3. last' = [from |-> p, to |-> q] /\ UNCHANGED dps
    BY <1>2 DEF Insert, wire_insert
  <2> HIDE DEF q, n
  <2>4. Unique' /\ Named' /\ Distinct' /\ planes' = planes /\ ends' = ends
    BY <2>3, Same
  <2>5. ends[n] = {p, q}
    BY <2>1, <2>2, EndsOfOne DEF ends, n, SInv
  <2>6. Service!Forward(n, p, q)
    BY <2>2, <2>3, <2>4, <2>5 DEF Service!Forward, planes, ends
  <2> QED
    BY <2>1, <2>2, <2>4, <2>6, Served DEF SStep
<1> QED
  BY <1>1, <1>2

LEMMA SInvInitially == Init => SInv /\ Service!Init
<1> SUFFICES ASSUME Init PROVE SInv /\ Service!Init
  OBVIOUS
<1>1. Live = {}
  BY DEF Init, Live
<1>2. SInv
  BY <1>1, InvInitially DEF SInv, Unique, Named, Distinct
<1>3. planes = {} /\ ends = [n \in Names |-> {}] /\ last = Null
  BY <1>1 DEF planes, ends, EndsOf, Init
<1> QED
  BY <1>2, <1>3 DEF Service!Init, planes, ends

(* Every step keeps the invariant and is a step of the service, or none.       *)
LEMMA NextServed == SInv /\ [Next]_vars => SInv' /\ [Service!Next]_(Service!vars)
<1> SUFFICES ASSUME SInv, [Next]_vars
             PROVE  IInv' /\ SStep
  BY DEF SInv, SStep
<1>1. IInv'
  BY InvPreserved DEF SInv
<1>2. CASE UNCHANGED vars
  <2>1. UNCHANGED <<dps, last>>
    BY <1>2 DEF vars
  <2>2. Unique' /\ Named' /\ Distinct' /\ UNCHANGED Service!vars
    BY <2>1, Stutters
  <2> QED
    BY <1>1, <2>2 DEF SStep
<1>3. ASSUME NEW n \in Names, NEW t \in Types, Create(n, t) PROVE SStep
  BY <1>3, CreateServed
<1>4. ASSUME NEW s \in Live, Delete(s) PROVE SStep
  BY <1>4, DeleteServed
<1>5. ASSUME NEW s \in Live, NEW p \in Ports, AddPort(s, p) PROVE SStep
  BY <1>5, AddPortServed
<1>6. ASSUME NEW s \in Live, NEW p \in Ports, RemovePort(s, p) PROVE SStep
  BY <1>6, RemovePortServed
<1>7. ASSUME NEW s \in Live, ListPorts(s) PROVE SStep
  BY <1>7, ReturnServed DEF ListPorts, fp_dataplane_list_ports
<1>8. ASSUME NEW s \in Live, Start(s) PROVE SStep
  BY <1>8, StartServed
<1>9. ASSUME NEW s \in Live, Stop(s) PROVE SStep
  BY <1>9, ReturnServed DEF Stop, fp_dataplane_stop
<1>10. ASSUME NEW s \in Live, NEW p \in Ports, Insert(s, p) PROVE SStep
  BY <1>10, InsertServed
<1>11. SStep
  BY <1>2, <1>3, <1>4, <1>5, <1>6, <1>7, <1>8, <1>9, <1>10 DEF Next
<1> QED
  BY <1>1, <1>11

(* A program gets from the data planes what WireService promises: whatever     *)
(* slots, pointers and tables do, data planes are known by their names, a wire *)
(* takes two ports and no port twice, and packets cross it                     *)
(* (dataplane.c:43-174, wire.c:27-137).                                        *)
THEOREM WireImplementsService == Spec => ImplementsService
BY SInvInitially, NextServed, PTL DEF Spec, ImplementsService, Service!Spec
=============================================================================
