----------------------------- MODULE WireService -----------------------------
(***************************************************************************)
(* What flowpath promises about its data planes: they are known by their   *)
(* names, a wire joins at most two ports, no port is part of two wires,    *)
(* and a packet that arrives at one end of a complete wire leaves at the   *)
(* other end.                                                              *)
(***************************************************************************)
EXTENDS FiniteSets, Integers

CONSTANTS Names, Ports, Max, Null

VARIABLES
  planes,   \* the names of the data planes
  ends,     \* name -> the ports attached to its wire
  last      \* the last packet forwarded, [from, to]

vars == <<planes, ends, last>>

Init == planes = {} /\ ends = [n \in Names |-> {}] /\ last = Null

Create(n) ==
  /\ n \notin planes
  /\ Cardinality(planes) < Max
  /\ planes' = planes \cup {n}
  /\ UNCHANGED <<ends, last>>

Destroy(n) ==
  /\ n \in planes
  /\ planes' = planes \ {n}
  /\ ends' = [ends EXCEPT ![n] = {}]
  /\ UNCHANGED last

Attach(n, p) ==
  /\ n \in planes
  /\ Cardinality(ends[n]) < 2
  /\ \A m \in Names : p \notin ends[m]
  /\ ends' = [ends EXCEPT ![n] = @ \cup {p}]
  /\ UNCHANGED <<planes, last>>

Detach(n, p) ==
  /\ p \in ends[n]
  /\ ends' = [ends EXCEPT ![n] = @ \ {p}]
  /\ UNCHANGED <<planes, last>>

Forward(n, p, q) ==
  /\ ends[n] = {p, q} /\ p # q
  /\ last' = [from |-> p, to |-> q]
  /\ UNCHANGED <<planes, ends>>

Next == \E n \in Names :
  \/ Create(n) \/ Destroy(n)
  \/ \E p \in Ports : Attach(n, p) \/ Detach(n, p)
  \/ \E p, q \in Ports : Forward(n, p, q)

Spec == Init /\ [][Next]_vars
=============================================================================
