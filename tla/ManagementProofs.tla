--------------------------- MODULE ManagementProofs ---------------------------
(***************************************************************************)
(* Proofs about the daemon flowpath, for every set of names and pipelines  *)
(* and every size of the table of data planes: a request that fails leaves *)
(* no trace, and there is one data plane at most.  For the first, creating *)
(* a data plane, which takes a slot first, gives back that slot and        *)
(* nothing else, which needs the shape of the table as an invariant; for   *)
(* the second, each data plane goes by the name in the receive buffer.     *)
(***************************************************************************)
EXTENDS Management, FiniteSetTheorems, TLAPS

(* The table of data planes has its slots.                                     *)
Slotted == dps = [s \in Slots |-> dps[s]]

(* What a call may do: report success, or leave the data planes alone.         *)
Clean == (err' = "FP_OK" \/ dps' = dps) /\ Slotted'

(* The ends of the calls: a result, a crash, a slot written.                   *)
LEMMA CleanEnds ==
  ASSUME Slotted
  PROVE  /\ \A e : Return(e) => Clean
         /\ Crash => Clean
         /\ \A s, dp : Set(s, dp, "FP_OK") => Clean
<1>1. \A s, dp : Set(s, dp, "FP_OK") => Clean
  <2> TAKE s, dp
  <2> HAVE Set(s, dp, "FP_OK")
  <2>1. dps' = [dps EXCEPT ![s] = dp] /\ err' = "FP_OK"
    BY DEF Set
  <2> QED
    BY <2>1 DEF Clean, Slotted
<1> QED
  BY <1>1 DEF Return, Crash, Clean, Slotted

(* The slot that was taken is the slot that is given back.                     *)
LEMMA TakenAndGivenBack ==
  ASSUME Slotted, NEW dp, NEW s \in Empty, NEW e,
         fp_dataplane_delete([dps EXCEPT ![s] = dp], s, e)
  PROVE  Clean
<1>1. CASE Crash
  BY <1>1, CleanEnds
<1>2. CASE dps' = [[dps EXCEPT ![s] = dp] EXCEPT ![s] = Null]
  <2>1. s \in Slots /\ dps[s] = Null
    BY DEF Empty
  <2>2. [[dps EXCEPT ![s] = dp] EXCEPT ![s] = Null] = dps
    BY <2>1 DEF Slotted
  <2> QED
    BY <1>2, <2>2 DEF Clean, Slotted
<1> QED
  BY <1>1, <1>2 DEF fp_dataplane_delete

(* A set of slots that is not empty has a first one.                           *)
LEMMA FirstSlot ==
  ASSUME NEW S, S \subseteq Slots, S # {}
  PROVE  First(S) \in S
<1> DEFINE Less == {ss \in Nat \X Nat : ss[1] < ss[2]}
<1>1. S \subseteq Nat
  BY DataplaneAssumption DEF Slots
<1>2. OpToRel(<, Nat) = Less
  BY Zenon DEF OpToRel
<1>3. IsWellFoundedOn(Less, Nat)
  BY <1>2, NatLessThanWellFounded, Zenon
<1> HIDE DEF Less
<1>4. PICK x \in S : \A y \in S : <<y, x>> \notin Less
  BY <1>1, <1>3, WFMin, Zenon
<1>5. \A y \in S : x <= y
  <2> SUFFICES ASSUME NEW y \in S, ~(x <= y)
               PROVE  FALSE
    OBVIOUS
  <2>1. x \in Nat /\ y \in Nat /\ y < x
    BY <1>1, SMT
  <2>2. <<y, x>> \in Less
    BY <2>1, SMT DEF Less
  <2> QED  BY <1>4, <2>2
<1> QED  BY <1>5 DEF First

(* Creating a data plane: a slot stays taken only once its pipeline is loaded. *)
LEMMA CleanCreate ==
  ASSUME Slotted, NEW name, NEW ptr, NEW type, fp_dataplane_create(name, ptr, type)
  PROVE  Clean
<1>1. CASE find_dataplane(name) # Null \/ Empty = {}
  BY <1>1, CleanEnds DEF fp_dataplane_create
<1>2. CASE find_dataplane(name) = Null /\ Empty # {}
  <2>1. PICK dp \in AsFound(ptr) :
          IF fp_pipeline_load(type) = "FP_OK"
          THEN Set(First(Empty), Loaded(dp), "FP_OK")
          ELSE fp_dataplane_delete([dps EXCEPT ![First(Empty)] = dp], First(Empty),
                                   fp_pipeline_load(type))
    BY <1>2 DEF fp_dataplane_create
  <2>2. First(Empty) \in Empty
    BY <1>2, FirstSlot DEF Empty
  <2>3. CASE fp_pipeline_load(type) = "FP_OK"
    BY <2>1, <2>3, CleanEnds
  <2>4. CASE fp_pipeline_load(type) # "FP_OK"
    BY <2>1, <2>2, <2>4, TakenAndGivenBack
  <2> QED
    BY <2>3, <2>4
<1> QED
  BY <1>1, <1>2

(* The other calls that a request makes.                                       *)
LEMMA CleanCalls ==
  ASSUME Slotted, NEW s
  PROVE  /\ fp_dataplane_delete(dps, s, "FP_OK") => Clean
         /\ fp_dataplane_remove_port(s, Null) => Clean
         /\ fp_dataplane_list_ports(s) => Clean
         /\ NotFound(s) => Clean
<1>1. fp_dataplane_delete(dps, s, "FP_OK") => Set(s, Null, "FP_OK") \/ Crash
  BY DEF fp_dataplane_delete, Set, Crash
<1> QED
  BY <1>1, CleanEnds DEF fp_dataplane_remove_port, fp_dataplane_list_ports, NotFound

(* The handlers.                                                               *)
LEMMA CleanRequest ==
  ASSUME Slotted, NEW r, fp_on_request(r)
  PROVE  Clean
<1>1. fp_on_dataplane_add(r) => Clean
  BY CleanEnds, CleanCreate DEF fp_on_dataplane_add
<1>2. fp_on_dataplane_del(r) => Clean
  BY CleanCalls DEF fp_on_dataplane_del
<1>3. fp_on_port_add(r) => Clean
  BY CleanEnds, CleanCalls DEF fp_on_port_add, fp_port_create
<1>4. fp_on_port_del(r) => Clean
  BY CleanCalls DEF fp_on_port_del
<1>5. fp_on_port_list(r) => Clean
  BY CleanEnds, CleanCalls DEF fp_on_port_list
<1> QED
  BY <1>1, <1>2, <1>3, <1>4, <1>5, CleanEnds DEF fp_on_request

(* A request that is answered with an error has changed no data plane: the slot *)
(* a data plane took before its pipeline failed to load is empty again and the  *)
(* others are untouched (dataplane.c:76-132, manage.c:67-195).                  *)
THEOREM MgmtFailureLeavesNoTrace == MgmtSpec => FailureLeavesNoTrace
<1>1. MgmtInit => Slotted
  BY DEF MgmtInit, Init, Slotted
<1>2. Slotted /\ [MgmtNext]_mgmt => Slotted' /\ [err' # "FP_OK" => dps' = dps]_mgmt
  <2>1. ASSUME Slotted, NEW r \in Requests, fp_mgr_incoming(r)
        PROVE  Slotted' /\ (err' # "FP_OK" => dps' = dps)
    BY <2>1, CleanRequest DEF fp_mgr_incoming, Clean
  <2>2. ASSUME Slotted, UNCHANGED mgmt
        PROVE  Slotted'
    BY <2>2 DEF mgmt, vars, Slotted
  <2> QED
    BY <2>1, <2>2 DEF MgmtNext
<1> QED
  BY <1>1, <1>2, PTL DEF MgmtSpec, FailureLeavesNoTrace

-----------------------------------------------------------------------------
(* One data plane *)

(* A data plane of the daemon, which goes by the name in the receive buffer.   *)
Nameless == {dp \in Dataplanes : dp.name = Inbuf}

(* The table holds one of them at most.                                        *)
Single == dps \in [Slots -> Nameless \cup {Null}] /\ OneDataPlane

LEMMA NullIsNone == Null \notin Nameless /\ Null \notin Slots
  BY NullAssumption DEF Nameless

(* A request that finds a data plane finds the one there is; where it finds    *)
(* none there is none.                                                         *)
LEMMA FindsIt ==
  ASSUME Single, NEW name
  PROVE  /\ find_dataplane(name) = Null => Live = {}
         /\ find_dataplane(name) # Null => find_dataplane(name) \in Live
<1>1. Matches(name) = Live
  BY NullIsNone DEF Matches, Live, Single, Nameless
<1>2. Live \subseteq Slots
  BY DEF Live
<1>3. Live # {} => First(Live) \in Live
  BY <1>2, FirstSlot
<1> QED
  BY <1>1, <1>2, <1>3, NullIsNone DEF find_dataplane

(* The ends of the calls: a result, a crash, the data plane changed or taken   *)
(* away.                                                                       *)
LEMMA SingleEnds ==
  ASSUME Single
  PROVE  /\ \A e : Return(e) => Single'
         /\ Crash => Single'
         /\ \A s \in Live : \A e : fp_dataplane_delete(dps, s, e) => Single'
         /\ \A s \in Live, dp \in Nameless : \A e : Set(s, dp, e) => Single'
<1>1. (\A e : Return(e) => Single') /\ (Crash => Single')
  BY DEF Return, Crash, Single, OneDataPlane, Live
<1>2. \A s \in Live, dp \in Nameless \cup {Null} : dps' = [dps EXCEPT ![s] = dp] => Single'
  <2> TAKE s \in Live, dp \in Nameless \cup {Null}
  <2> HAVE dps' = [dps EXCEPT ![s] = dp]
  <2>1. s \in Slots
    BY DEF Live
  <2>2. dps' \in [Slots -> Nameless \cup {Null}] /\ \A t \in Slots : t # s => dps'[t] = dps[t]
    BY <2>1 DEF Single
  <2>3. Live' \subseteq Live
    BY <2>2 DEF Live
  <2> QED
    BY <2>2, <2>3 DEF Single, OneDataPlane
<1>3. \A s \in Live : \A e : fp_dataplane_delete(dps, s, e) => Single'
  BY <1>1, <1>2 DEF fp_dataplane_delete
<1>4. \A s \in Live, dp \in Nameless : \A e : Set(s, dp, e) => Single'
  BY <1>2 DEF Set
<1> QED
  BY <1>1, <1>3, <1>4

(* What fp_dataplane_create puts into a slot is a data plane without a name of *)
(* its own.                                                                    *)
LEMMA LoadedIsNameless ==
  ASSUME NEW dp \in AsFound(Inbuf)
  PROVE  Loaded(dp) \in Nameless
<1>1. PICK up \in BOOLEAN, table \in {Null, Garbage} :
        dp = [name |-> Inbuf, up |-> up, table |-> table, size |-> 0, ends |-> <<Null, Null>>]
  BY DEF AsFound
<1>2. Loaded(dp) = [name |-> Inbuf, up |-> up, table |-> {}, size |-> 0, ends |-> <<Null, Null>>]
  BY <1>1 DEF Loaded
<1> QED
  BY <1>2 DEF Nameless, Dataplanes

(* A data plane is created only where there is none.                           *)
LEMMA SingleCreate ==
  ASSUME Single, NEW name, NEW type, fp_dataplane_create(name, Inbuf, type)
  PROVE  Single'
<1>1. CASE find_dataplane(name) # Null \/ Empty = {}
  BY <1>1, SingleEnds DEF fp_dataplane_create
<1>2. CASE find_dataplane(name) = Null /\ Empty # {}
  <2>1. PICK dp \in AsFound(Inbuf) :
          IF fp_pipeline_load(type) = "FP_OK"
          THEN Set(First(Empty), Loaded(dp), "FP_OK")
          ELSE fp_dataplane_delete([dps EXCEPT ![First(Empty)] = dp], First(Empty),
                                   fp_pipeline_load(type))
    BY <1>2 DEF fp_dataplane_create
  <2>2. First(Empty) \in Slots
    BY <1>2, FirstSlot DEF Empty
  <2>3. Live = {}
    BY <1>2, FindsIt
  <2>4. ASSUME NEW e, NEW new \in Nameless \cup {Null},
               dps' = [dps EXCEPT ![First(Empty)] = new]
        PROVE  Single'
    <3>1. /\ dps' \in [Slots -> Nameless \cup {Null}]
          /\ \A t \in Slots : t # First(Empty) => dps'[t] = dps[t]
      BY <2>2, <2>4 DEF Single
    <3>2. Live' \subseteq {First(Empty)}
      BY <2>3, <3>1 DEF Live
    <3> QED
      BY <3>1, <3>2 DEF Single, OneDataPlane
  <2>5. CASE fp_pipeline_load(type) = "FP_OK"
    BY <2>1, <2>4, <2>5, LoadedIsNameless DEF Set
  <2>6. CASE fp_pipeline_load(type) # "FP_OK"
    <3>1. CASE Crash
      BY <3>1, SingleEnds
    <3>2. CASE dps' = [[dps EXCEPT ![First(Empty)] = dp] EXCEPT ![First(Empty)] = Null]
      <4>1. dps' = [dps EXCEPT ![First(Empty)] = Null]
        BY <2>2, <3>2 DEF Single
      <4> QED
        BY <2>4, <4>1
    <3> QED
      BY <2>1, <2>6, <3>1, <3>2 DEF fp_dataplane_delete
  <2> QED
    BY <2>5, <2>6
<1> QED
  BY <1>1, <1>2

(* Taking a port away leaves the name.                                         *)
LEMMA SingleRemovePort ==
  ASSUME Single, NEW s \in Live, fp_dataplane_remove_port(s, Null)
  PROVE  Single'
<1>1. dps[s] \in Nameless
  BY DEF Live, Single
<1>2. wire_del_port(dps[s], Null) \in Nameless
  <2>1. EndOf(dps[s], Null) \in 1 .. 2
    BY DEF EndOf
  <2>2. dps[s] = [name |-> Inbuf, up |-> dps[s].up, table |-> dps[s].table, size |-> dps[s].size,
                  ends |-> dps[s].ends]
    BY <1>1 DEF Nameless, Dataplanes
  <2>3. wire_del_port(dps[s], Null) =
          [name |-> Inbuf, up |-> dps[s].up, table |-> dps[s].table, size |-> dps[s].size,
           ends |-> [dps[s].ends EXCEPT ![EndOf(dps[s], Null)] = Null]]
    BY <2>2 DEF wire_del_port
  <2>4. [dps[s].ends EXCEPT ![EndOf(dps[s], Null)] = Null] \in [1 .. 2 -> Ports \cup {Null}]
    BY <1>1, <2>1 DEF Nameless, Dataplanes
  <2> QED
    BY <1>1, <2>3, <2>4 DEF Nameless, Dataplanes
<1> QED
  BY <1>2, SingleEnds DEF fp_dataplane_remove_port

(* However many data planes are asked for, and by whatever names, the daemon   *)
(* has one at most: each goes by the name in the request at hand               *)
(* (dataplane.c:44-55, 82, manage.c:68-83).                                    *)
THEOREM MgmtOneDataPlane == MgmtSpec => []OneDataPlane
<1>1. MgmtInit => Single
  BY DEF MgmtInit, Init, Single, OneDataPlane, Live
<1>2. Single /\ [MgmtNext]_mgmt => Single'
  <2> SUFFICES ASSUME Single, [MgmtNext]_mgmt
               PROVE  Single'
    OBVIOUS
  <2>1. CASE UNCHANGED mgmt
    BY <2>1 DEF mgmt, vars, Single, OneDataPlane, Live
  <2>2. ASSUME NEW r \in Requests, fp_on_request(r)
        PROVE  Single'
    <3>1. fp_on_dataplane_add(r) => Single'
      BY SingleEnds, SingleCreate DEF fp_on_dataplane_add
    <3>2. fp_on_dataplane_del(r) => Single'
      BY SingleEnds, FindsIt DEF fp_on_dataplane_del, NotFound
    <3>3. fp_on_port_add(r) => Single'
      BY SingleEnds DEF fp_on_port_add, fp_port_create, NotFound
    <3>4. fp_on_port_del(r) => Single'
      BY SingleEnds, FindsIt, SingleRemovePort DEF fp_on_port_del, NotFound
    <3>5. fp_on_port_list(r) => Single'
      BY SingleEnds DEF fp_on_port_list, fp_dataplane_list_ports
    <3> QED
      BY <2>2, <3>1, <3>2, <3>3, <3>4, <3>5, SingleEnds DEF fp_on_request
  <2> QED
    BY <2>1, <2>2 DEF MgmtNext, fp_mgr_incoming
<1>3. Single => OneDataPlane
  BY DEF Single
<1> QED
  BY <1>1, <1>2, <1>3, PTL DEF MgmtSpec
=============================================================================
