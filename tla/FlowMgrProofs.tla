--------------------------- MODULE FlowMgrProofs ---------------------------
(***************************************************************************)
(* Proofs about flowmgr, its clients and its switches, for every number of *)
(* them and every set of commands.                                         *)
(*                                                                         *)
(* What is true depends on what the environment does (Faults), so the      *)
(* invariant grows as the environment shrinks:                             *)
(*   - Base, whatever it does: types, descriptors, the ends of the         *)
(*     connections, the handler map and the poll set;                      *)
(*   - SteadyFaults (a flowctl finds a flowpath, and a flowpath leaves     *)
(*     when no flowctl is there; clients may be killed): Steady, the       *)
(*     tables agree; Leaks and Listens, what is refused and what that      *)
(*     costs; Tokens, Lines and Runs, where each request is, who still     *)
(*     waits for it and how often it was executed;                         *)
(*   - CalmFaults (and nobody is killed): Calm, the client whose request   *)
(*     is with the switch is the one on flowmgr's channel;                 *)
(*   - ServiceFaults (and no signal): Running and Once, flowmgr does not   *)
(*     end and a command is executed once; from these each step is a step  *)
(*     of CommandService.                                                  *)
(***************************************************************************)
EXTENDS FlowMgr, FiniteSetTheorems, SequenceTheorems, WellFoundedInduction, TLAPS

(* What travels on a connection: the command of a client or a notice of flowmgr. *)
Messages == Clients \cup {"no switch", "rejected", "switch down"}

-----------------------------------------------------------------------------
(* Sequences *)

(* Appending adds one element.                                                 *)
LEMMA ToSetAppend ==
  ASSUME NEW S, NEW s \in Seq(S), NEW x \in S
  PROVE  Append(s, x) \in Seq(S) /\ ToSet(Append(s, x)) = ToSet(s) \cup {x}
<1>1. /\ Append(s, x) \in Seq(S) /\ Len(Append(s, x)) = Len(s) + 1
      /\ \A k \in 1 .. Len(s) : Append(s, x)[k] = s[k]
      /\ Append(s, x)[Len(s) + 1] = x
  BY AppendProperties
<1>2. DOMAIN s = 1 .. Len(s) /\ DOMAIN Append(s, x) = 1 .. Len(s) + 1 /\ Len(s) \in Nat
  BY <1>1, LenProperties
<1>3. \A k \in 1 .. Len(s) + 1 : k \in 1 .. Len(s) \/ k = Len(s) + 1
  BY <1>2
<1> QED
  BY <1>1, <1>2, <1>3 DEF ToSet

(* Appending what does not occur leaves every element once.                    *)
LEMMA InjectiveAppend ==
  ASSUME NEW S, NEW s \in Seq(S), NEW x \in S, IsInjective(s), x \notin ToSet(s)
  PROVE  IsInjective(Append(s, x))
<1>1. /\ Append(s, x) \in Seq(S) /\ Len(Append(s, x)) = Len(s) + 1
      /\ \A k \in 1 .. Len(s) : Append(s, x)[k] = s[k]
      /\ Append(s, x)[Len(s) + 1] = x
  BY AppendProperties
<1>2. DOMAIN s = 1 .. Len(s) /\ DOMAIN Append(s, x) = 1 .. Len(s) + 1 /\ Len(s) \in Nat
  BY <1>1, LenProperties
<1>3. \A k \in 1 .. Len(s) + 1 : k \in 1 .. Len(s) \/ k = Len(s) + 1
  BY <1>2
<1> QED
  BY <1>1, <1>2, <1>3 DEF ToSet, IsInjective

(* What is behind the head of a sequence without repetitions.                  *)
LEMMA InjectiveTail ==
  ASSUME NEW S, NEW s \in Seq(S), s # <<>>, IsInjective(s)
  PROVE  /\ Head(s) \in S /\ Head(s) \in ToSet(s)
         /\ Tail(s) \in Seq(S) /\ IsInjective(Tail(s))
         /\ ToSet(Tail(s)) = ToSet(s) \ {Head(s)}
<1>1. /\ Head(s) \in S /\ Tail(s) \in Seq(S) /\ Len(Tail(s)) = Len(s) - 1
      /\ \A k \in 1 .. Len(Tail(s)) : Tail(s)[k] = s[k + 1]
  BY HeadTailProperties
<1>2. Len(s) \in Nat \ {0} /\ DOMAIN s = 1 .. Len(s) /\ DOMAIN Tail(s) = 1 .. Len(s) - 1
  BY <1>1, LenProperties, EmptySeq
<1>3. Head(s) = s[1]
  OBVIOUS
<1>4. \A k \in 1 .. Len(s) - 1 : k + 1 \in 1 .. Len(s) /\ k + 1 # 1 /\ Tail(s)[k] = s[k + 1]
  BY <1>1, <1>2
<1>5. IsInjective(Tail(s))
  <2> SUFFICES ASSUME NEW a \in DOMAIN Tail(s), NEW b \in DOMAIN Tail(s), Tail(s)[a] = Tail(s)[b]
               PROVE  a = b
    BY DEF IsInjective
  <2>1. a + 1 \in DOMAIN s /\ b + 1 \in DOMAIN s /\ s[a + 1] = s[b + 1]
    BY <1>2, <1>4
  <2>2. a + 1 = b + 1 /\ a \in Int /\ b \in Int
    BY <1>2, <2>1 DEF IsInjective
  <2> QED
    BY <2>2
<1>6. ToSet(Tail(s)) \subseteq ToSet(s) \ {Head(s)}
  <2> SUFFICES ASSUME NEW a \in DOMAIN Tail(s)
               PROVE  Tail(s)[a] \in ToSet(s) \ {s[1]}
    BY <1>3 DEF ToSet
  <2>1. a + 1 \in DOMAIN s /\ 1 \in DOMAIN s /\ Tail(s)[a] = s[a + 1] /\ a + 1 # 1
    BY <1>2, <1>4
  <2> QED
    BY <2>1 DEF ToSet, IsInjective
<1>7. ToSet(s) \ {Head(s)} \subseteq ToSet(Tail(s))
  <2> SUFFICES ASSUME NEW a \in DOMAIN s, a # 1
               PROVE  s[a] \in ToSet(Tail(s))
    BY <1>3 DEF ToSet
  <2>1. a - 1 \in 1 .. Len(s) - 1 /\ (a - 1) + 1 = a
    BY <1>2
  <2>2. Tail(s)[a - 1] = s[a]
    BY <1>4, <2>1
  <2> QED
    BY <1>2, <2>1, <2>2 DEF ToSet
<1>8. Head(s) \in ToSet(s)
  BY <1>2, <1>3 DEF ToSet
<1> QED
  BY <1>1, <1>5, <1>6, <1>7, <1>8

(* The empty sequence has no elements.                                         *)
LEMMA ToSetEmpty == ToSet(<<>>) = {} /\ IsInjective(<<>>)
BY DEF ToSet, IsInjective

(* Taking the k-th element out.                                                *)
LEMMA RemoveAtProperties ==
  ASSUME NEW S, NEW s \in Seq(S), NEW k \in 1 .. Len(s)
  PROVE  /\ RemoveAt(s, k) \in Seq(S) /\ Len(RemoveAt(s, k)) = Len(s) - 1
         /\ \A j \in 1 .. Len(s) - 1 : RemoveAt(s, k)[j] = IF j < k THEN s[j] ELSE s[j + 1]
<1>1. Len(s) \in Nat /\ s \in [1 .. Len(s) -> S]
  BY LenProperties
<1>0. Len(s) \in Nat /\ k \in Nat /\ 1 <= k /\ k <= Len(s)
  BY <1>1
<1> DEFINE a == SubSeq(s, 1, k - 1)
           b == SubSeq(s, k + 1, Len(s))
<1>2. a \in Seq(S) /\ Len(a) = k - 1 /\ \A j \in 1 .. k - 1 : a[j] = s[j]
  <2>1. \A j \in 1 .. k - 1 : s[j] \in S
    BY <1>1
  <2>2. /\ a \in Seq(S) /\ Len(a) = IF 1 <= k - 1 THEN (k - 1) - 1 + 1 ELSE 0
        /\ \A j \in 1 .. (k - 1) - 1 + 1 : a[j] = s[1 + j - 1]
    BY <2>1, SubSeqProperties
  <2> QED
    BY <1>1, <2>2
<1>3. b \in Seq(S) /\ Len(b) = Len(s) - k /\ \A j \in 1 .. Len(s) - k : b[j] = s[k + j]
  <2>1. \A j \in k + 1 .. Len(s) : s[j] \in S
    BY <1>1
  <2>2. /\ b \in Seq(S) /\ Len(b) = IF k + 1 <= Len(s) THEN Len(s) - (k + 1) + 1 ELSE 0
        /\ \A j \in 1 .. Len(s) - (k + 1) + 1 : b[j] = s[k + 1 + j - 1]
    BY <1>1, <2>1, SubSeqProperties
  <2> HIDE DEF b
  <2>3. ASSUME NEW j \in 1 .. Len(s) - k
        PROVE  b[j] = s[k + j]
    <3>1. j \in 1 .. Len(s) - (k + 1) + 1 /\ k + 1 + j - 1 = k + j
      BY <1>1
    <3> QED
      BY <2>2, <3>1
  <2>4. b \in Seq(S) /\ Len(b) = Len(s) - k
    <3>1. CASE k + 1 <= Len(s)
      BY <1>1, <2>2, <3>1
    <3>2. CASE ~(k + 1 <= Len(s))
      BY <1>0, <2>2, <3>2
    <3> QED
      BY <3>1, <3>2
  <2> QED
    BY <2>3, <2>4, Zenon
<1> HIDE DEF a, b
<1>4. RemoveAt(s, k) = a \o b
  BY DEF RemoveAt, a, b
<1>5. /\ a \o b \in Seq(S) /\ Len(a \o b) = Len(a) + Len(b)
      /\ \A j \in 1 .. Len(a) + Len(b) : (a \o b)[j] = IF j <= Len(a) THEN a[j] ELSE b[j - Len(a)]
  BY <1>2, <1>3, ConcatProperties
<1>6. ASSUME NEW j \in 1 .. Len(s) - 1
      PROVE  (a \o b)[j] = IF j < k THEN s[j] ELSE s[j + 1]
  <2>1. CASE j < k
    BY <1>1, <1>2, <1>3, <1>5, <2>1
  <2>2. CASE ~(j < k)
    <3>1. j - (k - 1) \in 1 .. Len(s) - k /\ k + (j - (k - 1)) = j + 1 /\ ~(j <= Len(a))
      BY <1>1, <1>2, <2>2
    <3>2. (a \o b)[j] = b[j - (k - 1)]
      BY <1>1, <1>2, <1>3, <1>5, <3>1
    <3>3. b[j - (k - 1)] = s[k + (j - (k - 1))]
      BY <1>3, <3>1
    <3> QED
      BY <2>2, <3>1, <3>2, <3>3
  <2> QED
    BY <2>1, <2>2
<1> QED
  BY <1>1, <1>2, <1>3, <1>4, <1>5, <1>6

-----------------------------------------------------------------------------
(* The first of some numbers *)

(* A set of numbers that is not empty has a least one.                         *)
LEMMA FirstOfSome ==
  ASSUME NEW S, S \subseteq Nat, S # {}
  PROVE  \E x \in S : \A y \in S : x <= y
<1> DEFINE Less == {ss \in Nat \X Nat : ss[1] < ss[2]}
<1>1. OpToRel(<, Nat) = Less
  BY Zenon DEF OpToRel
<1>2. IsWellFoundedOn(Less, Nat)
  BY <1>1, NatLessThanWellFounded, Zenon
<1> HIDE DEF Less
<1>3. PICK x \in S : \A y \in S : <<y, x>> \notin Less
  BY <1>2, WFMin, Zenon
<1>4. ASSUME NEW y \in S, ~(x <= y)
      PROVE  FALSE
  <2>1. y \in Nat /\ x \in Nat /\ y < x
    BY <1>4, SMT
  <2>2. <<y, x>> \in Less
    BY <2>1, SMT DEF Less
  <2> QED
    BY <1>3, <2>2
<1> QED
  BY <1>4

(* Min chooses it.                                                             *)
LEMMA MinOfSome ==
  ASSUME NEW S, S \subseteq Nat, S # {}
  PROVE  Min(S) \in S
BY FirstOfSome DEF Min

-----------------------------------------------------------------------------
(* What holds whatever the environment does *)

Entries == [fd : Fds, ready : BOOLEAN]

KernelOK ==
  /\ fds \in [Fds -> Sockets \cup Peers \cup {Null}]
  /\ backlog \in [Sockets -> Seq(Peers)]
  /\ mgrEnd \in [Peers -> {"none", "queued", "open", "closed"}]
  /\ up \in [Peers -> Seq(Messages)] /\ down \in [Peers -> Seq(Messages)]

ProcsOK ==
  /\ cmd \in [Clients -> Cmds]
  /\ proc \in [Peers -> {"new", "connected", "waiting", "gone"}]
  /\ got \in [Clients -> Seq(Messages)]
  /\ inbuf \in [Switches -> Messages \cup {Null}]
  /\ served \in [Clients -> Nat]

LoopOK ==
  /\ phase \in {"poll", "scan", "stopped", "crashed"}
  /\ ps \in Seq(Entries)
  /\ i \in Nat \ {0}
  /\ DOMAIN ios \subseteq Fds
  /\ \A fd \in DOMAIN ios : ios[fd] \in [kind : HandlerKinds, fd : {fd}]
  /\ rm \subseteq Range(ios)
  /\ ctrl_ \in [kind : {"Control_channel"}, fd : Fds] \cup {Null}
  /\ switch_ \in [kind : {"Switch_channel"}, fd : Fds] \cup {Null}

(* Where the end of each connection is. *)
EndsOK ==
  /\ \A d, e \in Fds : fds[d] # Null /\ fds[d] = fds[e] => d = e
  /\ \A p \in Peers : mgrEnd[p] = "open" <=> \E fd \in Fds : fds[fd] = p
  /\ \A p \in Peers : mgrEnd[p] = "queued" <=> p \in ToSet(backlog[Socket(p)])
  /\ \A s \in Sockets : \A p \in ToSet(backlog[s]) : Socket(p) = s
  /\ \A s \in Sockets : IsInjective(backlog[s])
  /\ \A s \in Sockets : backlog[s] # <<>> => \E fd \in Fds : fds[fd] = s
  /\ \A p \in Peers : proc[p] = "new" => mgrEnd[p] = "none"
  /\ \A p \in Peers : mgrEnd[p] = "none" => proc[p] \in {"new", "gone"}
  /\ \A p \in Peers : mgrEnd[p] \in {"none", "queued"} => down[p] = <<>>

(* The handler map, the poll set and the channel pointers.                     *)
HandlersOK ==
  /\ DOMAIN ios \subseteq {ps[k].fd : k \in DOMAIN ps}
  /\ \A fd \in DOMAIN ios : ios[fd].kind = "Control_channel" <=> ios[fd] = ctrl_
  /\ ctrl_ # Null => ctrl_.fd \in DOMAIN ios /\ ios[ctrl_.fd] = ctrl_
  /\ \A fd \in DOMAIN ios :
       ios[fd].kind = "Switch_channel" => ios[fd] = switch_ /\ fds[fd] \in Switches
  /\ \A fd \in Fds :
       /\ fds[fd] = "control_socket" <=> fd \in DOMAIN ios /\ ios[fd].kind = "Control_server"
       /\ fds[fd] = "switch_socket" <=> fd \in DOMAIN ios /\ ios[fd].kind = "Switch_server"

(* A server is called when somebody waits to be accepted.                      *)
ServersOK ==
  /\ \A j, k \in DOMAIN ps : fds[ps[j].fd] \in Sockets /\ ps[j].fd = ps[k].fd => j = k
  /\ phase = "scan" =>
       \A k \in Ready : ps[k].ready /\ fds[ps[k].fd] \in Sockets => backlog[fds[ps[k].fd]] # <<>>

Base == KernelOK /\ ProcsOK /\ LoopOK /\ EndsOK /\ HandlersOK /\ ServersOK

-----------------------------------------------------------------------------
(* The kernel has a descriptor for every connection *)

(* While a peer is not connected the others, the two server sockets and nobody *)
(* else use descriptors, so that one is left: MaxFd is large enough. The proof *)
(* counts the descriptors in use by what they are open for.                    *)
LEMMA EnoughDescriptors ==
  ASSUME KernelOK, EndsOK, NEW p \in Peers, mgrEnd[p] # "open"
  PROVE  \E fd \in Fds : fds[fd] = Null
<1> SUFFICES ASSUME \A fd \in Fds : fds[fd] # Null
             PROVE  FALSE
  OBVIOUS
<1> DEFINE Held == (Peers \ {p}) \cup {"control_socket"} \cup {"switch_socket"}
<1>0. Cardinality(Clients) \in Nat /\ Cardinality(Switches) \in Nat
  BY ProcessAssumption, FS_CardinalityType
<1>1. IsFiniteSet(Peers) /\ Cardinality(Peers) = Cardinality(Clients) + Cardinality(Switches)
  <2>1. Cardinality(Clients \cap Switches) = 0
    BY ProcessAssumption, FS_EmptySet
  <2>2. /\ IsFiniteSet(Clients \cup Switches)
        /\ Cardinality(Clients \cup Switches)
             = Cardinality(Clients) + Cardinality(Switches) - Cardinality(Clients \cap Switches)
    BY ProcessAssumption, FS_Union
  <2> QED
    BY <1>0, <2>1, <2>2 DEF Peers
<1>2. Cardinality(Peers) \in Nat
  BY <1>1, FS_CardinalityType
<1>3. IsFiniteSet(Peers \ {p}) /\ Cardinality(Peers \ {p}) = Cardinality(Peers) - 1
  BY <1>1, FS_RemoveElement
<1>4. /\ IsFiniteSet((Peers \ {p}) \cup {"control_socket"})
      /\ Cardinality((Peers \ {p}) \cup {"control_socket"}) = Cardinality(Peers)
  <2>1. "control_socket" \notin Peers \ {p}
    BY ProcessAssumption
  <2> QED
    BY <1>2, <1>3, <2>1, FS_AddElement
<1>5. IsFiniteSet(Held) /\ Cardinality(Held) = Cardinality(Peers) + 1
  <2>1. "switch_socket" \notin (Peers \ {p}) \cup {"control_socket"}
    BY ProcessAssumption
  <2> QED
    BY <1>4, <2>1, FS_AddElement
<1>6. IsFiniteSet(Fds) /\ Cardinality(Fds) = MaxFd + 1
  <2>0. MaxFd \in Nat
    BY ProcessAssumption
  <2>1. 0 \in Int /\ MaxFd \in Int /\ ~(0 > MaxFd)
    BY <2>0
  <2>2. IsFiniteSet(0 .. MaxFd) /\ Cardinality(0 .. MaxFd) = MaxFd - 0 + 1
    BY <2>1, FS_Interval
  <2> QED
    BY <2>1, <2>2 DEF Fds
<1>7. Cardinality(Held) < Cardinality(Fds)
  <2>1. MaxFd >= 1 + Cardinality(Clients) + Cardinality(Switches) /\ MaxFd \in Nat
    BY FlowMgrAssumption, ProcessAssumption
  <2> QED
    BY <1>0, <1>1, <1>5, <1>6, <2>1
<1>8. fds \in [Fds -> Held]
  <2> SUFFICES ASSUME NEW fd \in Fds
               PROVE  fds[fd] \in Held
    BY DEF KernelOK
  <2>1. fds[fd] # p
    BY DEF EndsOK
  <2> QED
    BY <2>1 DEF KernelOK, Sockets
<1> HIDE DEF Held
<1>9. \E d, e \in Fds : d # e /\ fds[d] = fds[e]
  BY <1>5, <1>6, <1>7, <1>8, FS_PigeonHole
<1> QED
  BY <1>9 DEF EndsOK

(* accept() finds a descriptor.                                                *)
LEMMA FreeDescriptor ==
  ASSUME KernelOK, EndsOK, NEW p \in Peers, mgrEnd[p] # "open"
  PROVE  LowestFree \in Fds /\ fds[LowestFree] = Null
<1> DEFINE S == {fd \in Fds : fds[fd] = Null}
<1>1. S \subseteq Nat /\ S # {}
  BY EnoughDescriptors DEF Fds
<1>2. \E x \in S : \A y \in S : x <= y
  <2> HIDE DEF S
  <2> QED
    BY <1>1, FirstOfSome
<1>3. PICK x \in Fds : fds[x] = Null /\ \A y \in Fds : fds[y] = Null => x <= y
  BY <1>2
<1>4. \A e \in Fds : e < x => fds[e] # Null
  BY <1>3 DEF Fds
<1> QED
  BY <1>3, <1>4 DEF LowestFree

-----------------------------------------------------------------------------
(* The ends of connections under what the kernel does *)

(* A peer connects to one of the two server sockets.                           *)
LEMMA PeerSocket == \A p \in Peers : Socket(p) \in Sockets
BY DEF Socket, Sockets

(* accept()                                                                    *)
LEMMA AcceptEnds ==
  ASSUME KernelOK, EndsOK, NEW s \in Sockets, backlog[s] # <<>>,
         NEW p, p = Head(backlog[s]), NEW sd, sd = LowestFree,
         fds' = [fds EXCEPT ![sd] = p],
         mgrEnd' = [mgrEnd EXCEPT ![p] = "open"],
         backlog' = [backlog EXCEPT ![s] = Tail(@)],
         UNCHANGED proc,
         \A q \in Peers : down'[q] = down[q] \/ mgrEnd'[q] = "open"
  PROVE  /\ EndsOK'
         /\ fds' \in [Fds -> Sockets \cup Peers \cup {Null}]
         /\ backlog' \in [Sockets -> Seq(Peers)]
         /\ mgrEnd' \in [Peers -> {"none", "queued", "open", "closed"}]
         /\ p \in Peers /\ Socket(p) = s /\ mgrEnd[p] = "queued"
         /\ sd \in Fds /\ fds[sd] = Null
<1>1. backlog[s] \in Seq(Peers) /\ IsInjective(backlog[s])
  BY DEF KernelOK, EndsOK
<1>2. /\ p \in Peers /\ p \in ToSet(backlog[s])
      /\ Tail(backlog[s]) \in Seq(Peers) /\ IsInjective(Tail(backlog[s]))
      /\ ToSet(Tail(backlog[s])) = ToSet(backlog[s]) \ {p}
  BY <1>1, InjectiveTail
<1>3. Socket(p) = s /\ mgrEnd[p] = "queued"
  BY <1>2 DEF EndsOK
<1>4. sd \in Fds /\ fds[sd] = Null
  BY <1>2, <1>3, FreeDescriptor
<1>5. /\ fds' \in [Fds -> Sockets \cup Peers \cup {Null}]
      /\ mgrEnd' \in [Peers -> {"none", "queued", "open", "closed"}]
  BY <1>2, <1>4 DEF KernelOK
<1>6. backlog' \in [Sockets -> Seq(Peers)]
  BY <1>2 DEF KernelOK
<1>7. /\ fds'[sd] = p /\ \A fd \in Fds \ {sd} : fds'[fd] = fds[fd]
      /\ mgrEnd'[p] = "open" /\ \A q \in Peers \ {p} : mgrEnd'[q] = mgrEnd[q]
      /\ backlog'[s] = Tail(backlog[s]) /\ \A z \in Sockets \ {s} : backlog'[z] = backlog[z]
  BY <1>2, <1>4 DEF KernelOK
<1>8. \A fd \in Fds : fds[fd] # p
  BY <1>2, <1>3 DEF EndsOK
<1>9. \A d, e \in Fds : fds'[d] # Null /\ fds'[d] = fds'[e] => d = e
  BY <1>7, <1>8 DEF EndsOK
<1>10. \A q \in Peers : mgrEnd'[q] = "open" <=> \E fd \in Fds : fds'[fd] = q
  <2> SUFFICES ASSUME NEW q \in Peers, q # p
               PROVE  mgrEnd[q] = "open" <=> \E fd \in Fds : fds'[fd] = q
    BY <1>4, <1>7
  <2>1. q # Null
    BY ProcessAssumption
  <2>2. \A fd \in Fds : fds'[fd] = q <=> fds[fd] = q
    BY <1>4, <1>7, <2>1
  <2> QED
    BY <2>2 DEF EndsOK
<1>11. \A z \in Sockets : ToSet(backlog'[z]) = ToSet(backlog[z]) \ {p}
  BY <1>2, <1>3, <1>7 DEF EndsOK
<1>12. \A q \in Peers : mgrEnd'[q] = "queued" <=> q \in ToSet(backlog'[Socket(q)])
  BY <1>7, <1>11, PeerSocket DEF EndsOK
<1>13. \A z \in Sockets : /\ \A q \in ToSet(backlog'[z]) : Socket(q) = z
                          /\ IsInjective(backlog'[z])
  BY <1>2, <1>7, <1>11 DEF EndsOK
<1>14. \A z \in Sockets : backlog'[z] # <<>> => \E fd \in Fds : fds'[fd] = z
  <2> SUFFICES ASSUME NEW z \in Sockets, backlog'[z] # <<>>
               PROVE  \E fd \in Fds : fds'[fd] = z
    OBVIOUS
  <2>1. backlog[z] # <<>>
    BY <1>7
  <2>2. PICK fd \in Fds : fds[fd] = z
    BY <2>1 DEF EndsOK
  <2> QED
    BY <1>4, <1>7, <2>2, ProcessAssumption DEF Sockets
<1>15. \A q \in Peers : /\ proc'[q] = "new" => mgrEnd'[q] = "none"
                        /\ mgrEnd'[q] = "none" => proc'[q] \in {"new", "gone"}
                        /\ mgrEnd'[q] \in {"none", "queued"} => down'[q] = <<>>
  BY <1>3, <1>7 DEF EndsOK
<1> QED
  BY <1>2, <1>3, <1>4, <1>5, <1>6, <1>9, <1>10, <1>12, <1>13, <1>14, <1>15 DEF EndsOK

(* close()                                                                     *)
LEMMA CloseEnds ==
  ASSUME KernelOK, EndsOK, NEW D, D \subseteq Fds,
         fds' = FdsWithout(D), mgrEnd' = EndsWithout(D),
         backlog' = [s \in Sockets |-> IF \E fd \in D : fds[fd] = s THEN <<>> ELSE backlog[s]],
         UNCHANGED proc,
         \A q \in Peers : down'[q] = down[q] \/ mgrEnd[q] \notin {"none", "queued"}
  PROVE  /\ EndsOK'
         /\ fds' \in [Fds -> Sockets \cup Peers \cup {Null}]
         /\ backlog' \in [Sockets -> Seq(Peers)]
         /\ mgrEnd' \in [Peers -> {"none", "queued", "open", "closed"}]
         /\ \A q \in Peers : mgrEnd'[q] \in {mgrEnd[q], "closed"}
         /\ \A fd \in Fds : fds'[fd] = IF fd \in D THEN Null ELSE fds[fd]
<1> DEFINE Closed(q) == \E fd \in D : fds[fd] = q \/ (fds[fd] = Socket(q) /\ q \in ToSet(backlog[Socket(q)]))
<1>1. \A fd \in Fds : fds'[fd] = IF fd \in D THEN Null ELSE fds[fd]
  BY DEF FdsWithout
<1>2. \A q \in Peers : mgrEnd'[q] = IF Closed(q) THEN "closed" ELSE mgrEnd[q]
  BY DEF EndsWithout
<1>3. \A s \in Sockets : backlog'[s] = IF \E fd \in D : fds[fd] = s THEN <<>> ELSE backlog[s]
  OBVIOUS
<1>4. \A q \in Peers : Closed(q) => mgrEnd[q] \in {"open", "queued"}
  BY DEF EndsOK
<1> HIDE DEF Closed
<1>5. /\ fds' \in [Fds -> Sockets \cup Peers \cup {Null}]
      /\ mgrEnd' \in [Peers -> {"none", "queued", "open", "closed"}]
  BY DEF KernelOK, FdsWithout, EndsWithout
<1>6. backlog' \in [Sockets -> Seq(Peers)]
  BY EmptySeq DEF KernelOK
<1>7. \A d, e \in Fds : fds'[d] # Null /\ fds'[d] = fds'[e] => d = e
  BY <1>1 DEF EndsOK
<1>8. \A q \in Peers : mgrEnd'[q] = "open" <=> \E fd \in Fds : fds'[fd] = q
  <2> SUFFICES ASSUME NEW q \in Peers
               PROVE  mgrEnd'[q] = "open" <=> \E fd \in Fds : fds'[fd] = q
    OBVIOUS
  <2>0. q # Null
    BY ProcessAssumption
  <2>1. CASE mgrEnd[q] = "open"
    <3>1. PICK fd \in Fds : fds[fd] = q
      BY <2>1 DEF EndsOK
    <3>2. q \notin ToSet(backlog[Socket(q)])
      BY <2>1 DEF EndsOK
    <3>3. Closed(q) <=> fd \in D
      BY <2>0, <3>1, <3>2 DEF Closed, EndsOK
    <3> QED
      BY <1>1, <1>2, <2>0, <2>1, <3>1, <3>3 DEF EndsOK
  <2>2. CASE mgrEnd[q] # "open"
    <3>1. \A fd \in Fds : fds[fd] # q
      BY <2>2 DEF EndsOK
    <3> QED
      BY <1>1, <1>2, <2>0, <2>2, <3>1
  <2> QED
    BY <2>1, <2>2
<1>9. \A q \in Peers : mgrEnd'[q] = "queued" <=> q \in ToSet(backlog'[Socket(q)])
  <2> SUFFICES ASSUME NEW q \in Peers
               PROVE  mgrEnd'[q] = "queued" <=> q \in ToSet(backlog'[Socket(q)])
    OBVIOUS
  <2>1. Socket(q) \in Sockets
    BY PeerSocket
  <2>2. mgrEnd[q] = "queued" <=> q \in ToSet(backlog[Socket(q)])
    BY DEF EndsOK
  <2>3. CASE mgrEnd[q] = "queued"
    <3>1. \A fd \in Fds : fds[fd] # q
      BY <2>3 DEF EndsOK
    <3>2. Closed(q) <=> \E fd \in D : fds[fd] = Socket(q)
      BY <2>2, <2>3, <3>1 DEF Closed
    <3> QED
      BY <1>2, <1>3, <2>1, <2>2, <2>3, <3>2, ToSetEmpty
  <2>4. CASE mgrEnd[q] # "queued"
    BY <1>2, <1>3, <2>1, <2>2, <2>4, ToSetEmpty
  <2> QED
    BY <2>3, <2>4
<1>10. \A z \in Sockets : /\ \A q \in ToSet(backlog'[z]) : Socket(q) = z
                          /\ IsInjective(backlog'[z])
  BY <1>3, ToSetEmpty DEF EndsOK
<1>11. \A z \in Sockets : backlog'[z] # <<>> => \E fd \in Fds : fds'[fd] = z
  BY <1>1, <1>3 DEF EndsOK
<1>12. \A q \in Peers : /\ proc'[q] = "new" => mgrEnd'[q] = "none"
                        /\ mgrEnd'[q] = "none" => proc'[q] \in {"new", "gone"}
                        /\ mgrEnd'[q] \in {"none", "queued"} => down'[q] = <<>>
  BY <1>2, <1>4 DEF EndsOK
<1> QED
  BY <1>1, <1>2, <1>5, <1>6, <1>7, <1>8, <1>9, <1>10, <1>11, <1>12 DEF EndsOK

(* connect()                                                                   *)
LEMMA ConnectEnds ==
  ASSUME KernelOK, ProcsOK, EndsOK, NEW p \in Peers, connect(p)
  PROVE  /\ EndsOK'
         /\ backlog' \in [Sockets -> Seq(Peers)]
         /\ mgrEnd' \in [Peers -> {"none", "queued", "open", "closed"}]
         /\ proc' \in [Peers -> {"new", "connected", "waiting", "gone"}]
         /\ proc[p] = "new" /\ mgrEnd[p] = "none" /\ UNCHANGED fds
         /\ \A q \in Peers \ {p} : proc'[q] = proc[q] /\ mgrEnd'[q] = mgrEnd[q]
         /\ \A s \in Sockets : backlog[s] # <<>> => backlog'[s] # <<>>
<1> DEFINE s == Socket(p)
<1>1. proc[p] = "new" /\ mgrEnd[p] = "none" /\ UNCHANGED <<fds, down>> /\ s \in Sockets
  BY PeerSocket DEF connect, EndsOK
<1>2. CASE Listening(s)
  <2>1. /\ backlog' = [backlog EXCEPT ![s] = Append(backlog[s], p)]
        /\ mgrEnd' = [mgrEnd EXCEPT ![p] = "queued"]
        /\ \E x \in {"connected", "waiting"} : proc' = [proc EXCEPT ![p] = x]
    BY <1>2 DEF connect
  <2>2. backlog[s] \in Seq(Peers) /\ p \notin ToSet(backlog[s]) /\ IsInjective(backlog[s])
    BY <1>1 DEF KernelOK, EndsOK
  <2>3. /\ Append(backlog[s], p) \in Seq(Peers) /\ IsInjective(Append(backlog[s], p))
        /\ ToSet(Append(backlog[s], p)) = ToSet(backlog[s]) \cup {p}
        /\ Append(backlog[s], p) # <<>>
    BY <2>2, ToSetAppend, InjectiveAppend, AppendProperties
  <2>4. PICK fd0 \in Fds : fds[fd0] = s
    BY <1>2, LenProperties DEF Listening, Range, KernelOK
  <2>5. /\ backlog'[s] = Append(backlog[s], p)
        /\ \A z \in Sockets \ {s} : backlog'[z] = backlog[z]
        /\ mgrEnd'[p] = "queued" /\ \A q \in Peers \ {p} : mgrEnd'[q] = mgrEnd[q]
        /\ proc'[p] \in {"connected", "waiting"} /\ \A q \in Peers \ {p} : proc'[q] = proc[q]
    BY <1>1, <2>1 DEF KernelOK, ProcsOK
  <2>6. /\ backlog' \in [Sockets -> Seq(Peers)]
        /\ mgrEnd' \in [Peers -> {"none", "queued", "open", "closed"}]
        /\ proc' \in [Peers -> {"new", "connected", "waiting", "gone"}]
    BY <1>1, <2>1, <2>3 DEF KernelOK, ProcsOK
  <2> HIDE DEF s
  <2>7. \A q \in Peers : mgrEnd'[q] = "open" <=> \E fd \in Fds : fds'[fd] = q
    BY <1>1, <2>5 DEF EndsOK
  <2>8. \A q \in Peers : mgrEnd'[q] = "queued" <=> q \in ToSet(backlog'[Socket(q)])
    <3> SUFFICES ASSUME NEW q \in Peers
                 PROVE  mgrEnd'[q] = "queued" <=> q \in ToSet(backlog'[Socket(q)])
      OBVIOUS
    <3>1. Socket(q) \in Sockets /\ (mgrEnd[q] = "queued" <=> q \in ToSet(backlog[Socket(q)]))
      BY PeerSocket DEF EndsOK
    <3>2. CASE q = p
      BY <2>3, <2>5, <3>2 DEF s
    <3>3. CASE q # p /\ Socket(q) = s
      BY <2>3, <2>5, <3>1, <3>3
    <3>4. CASE q # p /\ Socket(q) # s
      BY <2>5, <3>1, <3>4
    <3> QED
      BY <3>2, <3>3, <3>4
  <2>9. \A z \in Sockets : /\ \A q \in ToSet(backlog'[z]) : Socket(q) = z
                           /\ IsInjective(backlog'[z])
                           /\ backlog'[z] # <<>> => \E fd \in Fds : fds'[fd] = z
    <3> SUFFICES ASSUME NEW z \in Sockets
                 PROVE  /\ \A q \in ToSet(backlog'[z]) : Socket(q) = z
                        /\ IsInjective(backlog'[z])
                        /\ backlog'[z] # <<>> => \E fd \in Fds : fds'[fd] = z
      OBVIOUS
    <3>1. CASE z = s
      <4>1. \A q \in ToSet(backlog[s]) : Socket(q) = s
        BY <1>1, <3>1 DEF EndsOK
      <4>2. Socket(p) = s
        BY DEF s
      <4> QED
        BY <1>1, <2>3, <2>4, <2>5, <3>1, <4>1, <4>2
    <3>2. CASE z # s
      BY <1>1, <2>5, <3>2 DEF EndsOK
    <3> QED
      BY <3>1, <3>2
  <2>10. \A q \in Peers : /\ proc'[q] = "new" => mgrEnd'[q] = "none"
                          /\ mgrEnd'[q] = "none" => proc'[q] \in {"new", "gone"}
                          /\ mgrEnd'[q] \in {"none", "queued"} => down'[q] = <<>>
    BY <1>1, <2>5 DEF EndsOK
  <2>11. \A d, e \in Fds : fds'[d] # Null /\ fds'[d] = fds'[e] => d = e
    BY <1>1 DEF EndsOK
  <2>12. EndsOK'
    BY <2>7, <2>8, <2>9, <2>10, <2>11 DEF EndsOK
  <2> QED
    BY <1>1, <2>3, <2>5, <2>6, <2>12
<1>3. CASE ~Listening(s)
  <2>1. UNCHANGED <<backlog, mgrEnd>> /\ proc' = [proc EXCEPT ![p] = "gone"]
    BY <1>3 DEF connect
  <2> QED
    BY <1>1, <2>1 DEF EndsOK, KernelOK, ProcsOK
<1> QED
  BY <1>2, <1>3

(* A process that goes on, or dies.                                            *)
LEMMA SameEnds ==
  ASSUME EndsOK, UNCHANGED <<fds, backlog, mgrEnd>>,
         \A q \in Peers : \/ proc'[q] = proc[q]
                          \/ proc[q] \in {"connected", "waiting"} /\ proc'[q] \in {"waiting", "gone"},
         \A q \in Peers : down'[q] \in {down[q], <<>>} \/ mgrEnd[q] \notin {"none", "queued"}
  PROVE  EndsOK'
<1>1. ASSUME NEW q \in Peers
      PROVE  /\ proc'[q] = "new" => mgrEnd'[q] = "none"
             /\ mgrEnd'[q] = "none" => proc'[q] \in {"new", "gone"}
             /\ mgrEnd'[q] \in {"none", "queued"} => down'[q] = <<>>
  <2>1. /\ proc[q] = "new" => mgrEnd[q] = "none"
        /\ mgrEnd[q] = "none" => proc[q] \in {"new", "gone"}
        /\ mgrEnd[q] \in {"none", "queued"} => down[q] = <<>>
    BY DEF EndsOK
  <2> QED
    BY <2>1
<1> QED
  BY <1>1 DEF EndsOK

-----------------------------------------------------------------------------
(* Base holds in every state *)

(* Null is told from a handler.                                                *)
LEMMA NullIsNoHandler == \A kind \in HandlerKinds, fd \in Fds : Null # [kind |-> kind, fd |-> fd]
<1> SUFFICES ASSUME NEW kind \in HandlerKinds, NEW fd \in Fds
             PROVE  Null # [kind |-> kind, fd |-> fd]
  OBVIOUS
<1>1. [kind |-> kind, fd |-> fd] \in [kind : HandlerKinds, fd : Fds]
  OBVIOUS
<1> QED
  BY <1>1, ProcessAssumption

(* Base holds when flowmgr has started.                                        *)
LEMMA BaseInit == Init => Base
<1> SUFFICES ASSUME Init
             PROVE  Base
  OBVIOUS
<1>0. MaxFd \in Nat /\ 1 <= MaxFd
  <2>1. /\ MaxFd \in Nat /\ MaxFd >= 1 + Cardinality(Clients) + Cardinality(Switches)
        /\ Cardinality(Clients) \in Nat /\ Cardinality(Switches) \in Nat
    BY FlowMgrAssumption, ProcessAssumption, FS_CardinalityType
  <2> QED
    BY <2>1
<1>1. 0 \in Fds /\ 1 \in Fds
  BY <1>0 DEF Fds
<1>2. /\ fds \in [Fds -> {"control_socket", "switch_socket", Null}]
      /\ fds[0] = "control_socket" /\ fds[1] = "switch_socket"
      /\ \A fd \in Fds \ {0, 1} : fds[fd] = Null
  BY <1>1 DEF Init, Fds
<1>3. /\ backlog = [s \in Sockets |-> <<>>] /\ mgrEnd = [p \in Peers |-> "none"]
      /\ up = [p \in Peers |-> <<>>] /\ down = [p \in Peers |-> <<>>]
      /\ proc = [p \in Peers |-> "new"]
      /\ phase = "poll" /\ i = 1 /\ rm = {} /\ ctrl_ = Null /\ switch_ = Null
  BY DEF Init
<1>4. /\ DOMAIN ios = {0, 1} /\ ios[0] = ControlServer /\ ios[1] = SwitchServer
  BY DEF Init
<1>5. /\ ps \in Seq(Entries) /\ DOMAIN ps = 1 .. 2 /\ Len(ps) = 2
      /\ ps[1] = [fd |-> 0, ready |-> FALSE] /\ ps[2] = [fd |-> 1, ready |-> FALSE]
  <2>1. [fd |-> 0, ready |-> FALSE] \in Entries /\ [fd |-> 1, ready |-> FALSE] \in Entries
    BY <1>1 DEF Entries
  <2> QED
    BY <2>1 DEF Init
<1>6. KernelOK
  BY <1>2, <1>3, EmptySeq DEF KernelOK, Sockets
<1>7. ProcsOK
  BY <1>3, EmptySeq DEF ProcsOK, Init
<1>8. LoopOK
  BY <1>1, <1>3, <1>4, <1>5 DEF LoopOK, ControlServer, SwitchServer, Handler, HandlerKinds
<1>9. EndsOK
  <2>1. \A p \in Peers : p \notin {"control_socket", "switch_socket", Null}
    BY ProcessAssumption
  <2>2. \A d, e \in Fds : fds[d] # Null /\ fds[d] = fds[e] => d = e
    BY <1>2, ProcessAssumption
  <2>3. \A p \in Peers : \A fd \in Fds : fds[fd] # p
    BY <1>2, <2>1
  <2>4. \A s \in Sockets : ToSet(backlog[s]) = {} /\ IsInjective(backlog[s]) /\ backlog[s] = <<>>
    BY <1>3, ToSetEmpty
  <2> QED
    BY <1>3, <2>2, <2>3, <2>4, PeerSocket DEF EndsOK
<1>10. HandlersOK
  <2>1. ios[0] # Null /\ ios[1] # Null
    BY <1>1, <1>4, NullIsNoHandler DEF ControlServer, SwitchServer, Handler, HandlerKinds
  <2>2. \A fd \in Fds : fd \in {0, 1} \/ fds[fd] \notin {"control_socket", "switch_socket"}
    BY <1>2, ProcessAssumption
  <2> QED
    BY <1>2, <1>3, <1>4, <1>5, <2>1, <2>2 DEF HandlersOK, ControlServer, SwitchServer, Handler
<1>11. ServersOK
  BY <1>3, <1>5 DEF ServersOK
<1> QED
  BY <1>6, <1>7, <1>8, <1>9, <1>10, <1>11 DEF Base

(* The poll set after its ready marks are written.                             *)
LEMMA Marked ==
  ASSUME ps \in Seq(Entries), NEW R \in [DOMAIN ps -> BOOLEAN],
         ps' = [k \in DOMAIN ps |-> [ps[k] EXCEPT !.ready = R[k]]]
  PROVE  /\ ps' \in Seq(Entries) /\ DOMAIN ps' = DOMAIN ps /\ Len(ps') = Len(ps)
         /\ \A k \in DOMAIN ps : ps'[k].fd = ps[k].fd /\ ps'[k].ready = R[k]
<1>1. Len(ps) \in Nat /\ DOMAIN ps = 1 .. Len(ps) /\ ps \in [1 .. Len(ps) -> Entries]
  BY LenProperties
<1>2. ASSUME NEW k \in DOMAIN ps
      PROVE  ps'[k] \in Entries /\ ps'[k].fd = ps[k].fd /\ ps'[k].ready = R[k]
  BY <1>1 DEF Entries
<1>3. ps' \in [1 .. Len(ps) -> Entries]
  BY <1>1, <1>2
<1>4. ps' \in Seq(Entries) /\ Len(ps') = Len(ps)
  BY <1>1, <1>3, SeqDef, LenProperties
<1> QED
  BY <1>1, <1>2, <1>4

(* The loop while clients, switches and the kernel go on.                      *)
LEMMA SameLoop ==
  ASSUME LoopOK, HandlersOK, ServersOK, UNCHANGED <<fds, loop>>,
         \A s \in Sockets : backlog[s] # <<>> => backlog'[s] # <<>>
  PROVE  LoopOK' /\ HandlersOK' /\ ServersOK'
<1>1. LoopOK'
  BY DEF LoopOK, loop
<1>2. HandlersOK'
  BY DEF HandlersOK, loop
<1>3. ServersOK'
  BY DEF ServersOK, loop, Ready
<1> QED
  BY <1>1, <1>2, <1>3

(* flowmgr's process ends.                                                     *)
LEMMA ExitBase ==
  ASSUME Base, NEW how \in {"stopped", "crashed"}, Exit(how)
  PROVE  Base'
<1>1. backlog' = [s \in Sockets |-> IF \E fd \in Fds : fds[fd] = s THEN <<>> ELSE backlog[s]]
  BY DEF Base, Exit, EndsOK, KernelOK
<1>2. /\ EndsOK'
      /\ fds' \in [Fds -> Sockets \cup Peers \cup {Null}]
      /\ backlog' \in [Sockets -> Seq(Peers)]
      /\ mgrEnd' \in [Peers -> {"none", "queued", "open", "closed"}]
      /\ \A fd \in Fds : fds'[fd] = Null
  BY <1>1, CloseEnds DEF Base, Exit, procs
<1>3. KernelOK'
  BY <1>2 DEF Base, KernelOK, Exit
<1>4. ProcsOK'
  BY DEF Base, ProcsOK, Exit, procs
<1>5. DOMAIN <<>> = {} /\ <<>> \in Seq(Entries) /\ Len(<<>>) = 0
  BY EmptySeq
<1>6. LoopOK'
  BY <1>5 DEF Exit, LoopOK
<1>7. HandlersOK'
  <2>1. \A fd \in Fds : fds'[fd] \notin {"control_socket", "switch_socket"}
    BY <1>2, ProcessAssumption
  <2> QED
    BY <1>5, <2>1 DEF Exit, HandlersOK
<1>8. ServersOK'
  BY <1>5 DEF Exit, ServersOK
<1> QED
  BY <1>2, <1>3, <1>4, <1>6, <1>7, <1>8 DEF Base

(* Base holds after a poll: a server that is ready has somebody to accept.     *)
LEMMA BasePoll == Base /\ poll => Base'
<1> SUFFICES ASSUME Base, poll
             PROVE  Base'
  OBVIOUS
<1>1. /\ ps \in Seq(Entries) /\ UNCHANGED <<kernel, ios, rm, ctrl_, switch_, procs>>
      /\ phase' = "scan" /\ i' = 1
  BY DEF poll, Base, LoopOK
<1>2. \A k \in DOMAIN ps : Readable(ps[k].fd) \in BOOLEAN
  BY DEF Readable
<1>3. /\ ps' \in Seq(Entries) /\ DOMAIN ps' = DOMAIN ps /\ Len(ps') = Len(ps)
      /\ \A k \in DOMAIN ps : ps'[k].fd = ps[k].fd /\ ps'[k].ready = Readable(ps[k].fd)
  <2> DEFINE R == [k \in DOMAIN ps |-> Readable(ps[k].fd)]
  <2>1. /\ R \in [DOMAIN ps -> BOOLEAN] /\ \A k \in DOMAIN ps : R[k] = Readable(ps[k].fd)
        /\ ps' = [k \in DOMAIN ps |-> [ps[k] EXCEPT !.ready = R[k]]]
    BY <1>2 DEF poll
  <2> HIDE DEF R
  <2>2. /\ ps' \in Seq(Entries) /\ DOMAIN ps' = DOMAIN ps /\ Len(ps') = Len(ps)
        /\ \A k \in DOMAIN ps : ps'[k].fd = ps[k].fd /\ ps'[k].ready = R[k]
    BY <1>1, <2>1, Marked
  <2> QED
    BY <2>1, <2>2
<1>4. KernelOK' /\ ProcsOK' /\ EndsOK'
  BY <1>1 DEF Base, KernelOK, ProcsOK, EndsOK, kernel, procs
<1>5. LoopOK'
  BY <1>1, <1>3 DEF Base, LoopOK
<1>6. HandlersOK'
  BY <1>1, <1>3 DEF Base, HandlersOK, kernel
<1>7. ServersOK'
  <2>1. DOMAIN ps' = 1 .. Len(ps')
    BY <1>3, LenProperties
  <2>2. ASSUME NEW k \in Ready', ps'[k].ready, fds'[ps'[k].fd] \in Sockets
        PROVE  backlog'[fds'[ps'[k].fd]] # <<>>
    <3>1. k \in DOMAIN ps
      BY <1>1, <1>3, <2>1 DEF Ready
    <3>2. Readable(ps[k].fd) /\ fds[ps[k].fd] \in Sockets
      BY <1>1, <1>3, <2>2, <3>1 DEF kernel
    <3> QED
      BY <1>1, <1>3, <3>1, <3>2, ProcessAssumption DEF Readable, kernel, Sockets
  <2> QED
    BY <1>1, <1>3, <2>2 DEF Base, ServersOK, kernel
<1> QED
  BY <1>4, <1>5, <1>6, <1>7 DEF Base

(* Base holds at the end of a round.                                           *)
LEMMA BaseReset == Base /\ reset => Base'
<1> SUFFICES ASSUME Base, reset
             PROVE  Base'
  OBVIOUS
<1>1. /\ ps \in Seq(Entries) /\ UNCHANGED <<kernel, ios, rm, ctrl_, switch_, procs>>
      /\ phase' = "poll" /\ i' = 1
  BY DEF reset, Base, LoopOK
<1>2. /\ ps' \in Seq(Entries) /\ DOMAIN ps' = DOMAIN ps /\ Len(ps') = Len(ps)
      /\ \A k \in DOMAIN ps : ps'[k].fd = ps[k].fd
  <2> DEFINE R == [k \in DOMAIN ps |-> FALSE]
  <2>1. ps' = [k \in DOMAIN ps |-> [ps[k] EXCEPT !.ready = R[k]]] /\ R \in [DOMAIN ps -> BOOLEAN]
    BY DEF reset
  <2> HIDE DEF R
  <2> QED
    BY <1>1, <2>1, Marked
<1>3. KernelOK' /\ ProcsOK' /\ EndsOK'
  BY <1>1 DEF Base, KernelOK, ProcsOK, EndsOK, kernel, procs
<1>4. LoopOK'
  BY <1>1, <1>2 DEF Base, LoopOK
<1>5. HandlersOK'
  BY <1>1, <1>2 DEF Base, HandlersOK, kernel
<1>6. ServersOK'
  BY <1>1, <1>2 DEF Base, ServersOK, kernel
<1> QED
  BY <1>3, <1>4, <1>5, <1>6 DEF Base

-----------------------------------------------------------------------------
(* Clients and switches *)

(* Base holds after a process connects, or fails to.                           *)
LEMMA BaseConnect == \A p \in Peers : Base /\ connect(p) => Base'
<1> SUFFICES ASSUME NEW p \in Peers, Base, connect(p)
             PROVE  Base'
  OBVIOUS
<1>1. /\ EndsOK'
      /\ backlog' \in [Sockets -> Seq(Peers)]
      /\ mgrEnd' \in [Peers -> {"none", "queued", "open", "closed"}]
      /\ proc' \in [Peers -> {"new", "connected", "waiting", "gone"}]
      /\ \A s \in Sockets : backlog[s] # <<>> => backlog'[s] # <<>>
  BY ConnectEnds DEF Base
<1>2. UNCHANGED <<fds, up, down, loop, cmd, got, inbuf, served>>
  BY DEF connect
<1>3. KernelOK' /\ ProcsOK'
  BY <1>1, <1>2 DEF Base, KernelOK, ProcsOK
<1>4. LoopOK' /\ HandlersOK' /\ ServersOK'
  BY <1>1, <1>2, SameLoop DEF Base
<1> QED
  BY <1>1, <1>3, <1>4 DEF Base

(* A process sends, receives or ends, and flowmgr's side stays as it is.       *)
LEMMA BaseProcess ==
  ASSUME Base, UNCHANGED <<fds, backlog, mgrEnd, loop, cmd>>,
         up' \in [Peers -> Seq(Messages)], down' \in [Peers -> Seq(Messages)],
         \A q \in Peers : down'[q] \in {down[q], <<>>} \/ mgrEnd[q] \notin {"none", "queued"},
         NEW p \in Peers, proc[p] \in {"connected", "waiting"},
         NEW status \in {"waiting", "gone"}, proc' \in {proc, [proc EXCEPT ![p] = status]},
         got' \in [Clients -> Seq(Messages)], inbuf' \in [Switches -> Messages \cup {Null}],
         served' \in [Clients -> Nat]
  PROVE  Base'
<1>1. proc' \in [Peers -> {"new", "connected", "waiting", "gone"}]
  BY DEF Base, ProcsOK
<1>2. \A q \in Peers : \/ proc'[q] = proc[q]
                       \/ proc[q] \in {"connected", "waiting"} /\ proc'[q] \in {"waiting", "gone"}
  BY DEF Base, ProcsOK
<1>3. KernelOK' /\ ProcsOK'
  BY <1>1 DEF Base, KernelOK, ProcsOK
<1>4. EndsOK'
  BY <1>2, SameEnds DEF Base
<1>5. LoopOK' /\ HandlersOK' /\ ServersOK'
  BY SameLoop DEF Base
<1> QED
  BY <1>3, <1>4, <1>5 DEF Base

(* Base holds after each step of a flowctl.                                    *)
LEMMA BaseClient ==
  \A c \in Clients :
    Base /\ (flowctl_connect(c) \/ flowctl_send(c) \/ flowctl_recv(c) \/ kill(c)) => Base'
<1> SUFFICES ASSUME NEW c \in Clients, Base,
                    flowctl_connect(c) \/ flowctl_send(c) \/ flowctl_recv(c) \/ kill(c)
             PROVE  Base'
  OBVIOUS
<1>0. c \in Peers /\ c \in Messages
  BY DEF Peers, Messages
<1>1. CASE flowctl_connect(c)
  BY <1>0, <1>1, BaseConnect DEF flowctl_connect
<1>2. CASE flowctl_send(c)
  <2>1. <<c>> \in Seq(Messages)
    BY <1>0
  <2>2. up' \in [Peers -> Seq(Messages)]
    BY <1>0, <1>2, <2>1 DEF flowctl_send, Base, KernelOK
  <2>3. \E status \in {"waiting", "gone"} : proc' = [proc EXCEPT ![c] = status]
    BY <1>2 DEF flowctl_send
  <2> QED
    BY <1>0, <1>2, <2>2, <2>3, BaseProcess DEF flowctl_send, Base, KernelOK, ProcsOK
<1>3. CASE flowctl_recv(c)
  <2>1. down' = [down EXCEPT ![c] = <<>>] /\ got' = [got EXCEPT ![c] = down[c]]
    BY <1>3 DEF flowctl_recv
  <2>2. /\ down' \in [Peers -> Seq(Messages)] /\ got' \in [Clients -> Seq(Messages)]
        /\ \A q \in Peers : down'[q] \in {down[q], <<>>}
    BY <1>0, <2>1, EmptySeq DEF Base, KernelOK, ProcsOK
  <2> QED
    BY <1>0, <1>3, <2>2, BaseProcess DEF flowctl_recv, Base, KernelOK, ProcsOK
<1>4. CASE kill(c)
  BY <1>0, <1>4, BaseProcess DEF kill, kernel, Base, KernelOK, ProcsOK
<1> QED
  BY <1>1, <1>2, <1>3, <1>4

(* Counting an execution changes the count of one client, or of none.          *)
LEMMA ServedCounts ==
  ASSUME served \in [Clients -> Nat], NEW m
  PROVE  /\ Served(m) \in [Clients -> Nat]
         /\ \A c \in Clients : Served(m)[c] = IF c = m THEN served[c] + 1 ELSE served[c]
<1>1. CASE m \in Clients
  <2>1. served[m] + 1 \in Nat
    BY <1>1
  <2> DEFINE n == served[m] + 1
  <2>2. Served(m) = [served EXCEPT ![m] = n]
    BY DEF Served
  <2> HIDE DEF n
  <2>3. Served(m) \in [Clients -> Nat] /\ \A c \in Clients : Served(m)[c] = IF c = m THEN n ELSE served[c]
    BY <1>1, <2>1, <2>2 DEF n
  <2> QED
    BY <2>3 DEF n
<1>2. CASE m \notin Clients
  <2> DEFINE n == served[m] + 1
  <2>2. Served(m) = [served EXCEPT ![m] = n]
    BY DEF Served
  <2> HIDE DEF n
  <2>3. Served(m) = served
    BY <1>2, <2>2
  <2> QED
    BY <1>2, <2>3
<1> QED
  BY <1>1, <1>2

(* Base holds after each step of a flowpath.                                   *)
LEMMA BaseSwitch ==
  \A s \in Switches :
    Base /\ (flowpath_open(s) \/ fp_mgr_incoming(s) \/ fp_mgr_incoming_closed(s) \/ flowpath_exit(s))
      => Base'
<1> SUFFICES ASSUME NEW s \in Switches, Base,
                    \/ flowpath_open(s) \/ fp_mgr_incoming(s)
                    \/ fp_mgr_incoming_closed(s) \/ flowpath_exit(s)
             PROVE  Base'
  OBVIOUS
<1>0. s \in Peers
  BY DEF Peers
<1>1. CASE flowpath_open(s)
  BY <1>0, <1>1, BaseConnect DEF flowpath_open
<1>2. CASE fp_mgr_incoming(s)
  <2>1. down[s] \in Seq(Messages) /\ down[s] # <<>> /\ up[s] \in Seq(Messages)
    BY <1>0, <1>2 DEF fp_mgr_incoming, Base, KernelOK
  <2>2. Head(down[s]) \in Messages /\ Tail(down[s]) \in Seq(Messages)
    BY <2>1, HeadTailProperties
  <2>3. Append(up[s], Head(down[s])) \in Seq(Messages)
    BY <2>1, <2>2, AppendProperties
  <2>4. up' \in [Peers -> Seq(Messages)]
    BY <1>0, <1>2, <2>3 DEF fp_mgr_incoming, Reply, Base, KernelOK
  <2>5. /\ down' \in [Peers -> Seq(Messages)]
        /\ \A q \in Peers : down'[q] = down[q] \/ q = s
    BY <1>0, <1>2, <2>2 DEF fp_mgr_incoming, Base, KernelOK
  <2>6. mgrEnd[s] \notin {"none", "queued"}
    BY <1>0, <1>2 DEF fp_mgr_incoming, Base, EndsOK
  <2>7. inbuf' \in [Switches -> Messages \cup {Null}] /\ served' \in [Clients -> Nat]
    BY <1>2, <2>2, ServedCounts DEF fp_mgr_incoming, Base, ProcsOK
  <2>8. proc' \in {proc, [proc EXCEPT ![s] = "gone"]} /\ proc[s] \in {"connected", "waiting"}
    BY <1>2 DEF fp_mgr_incoming
  <2> QED
    BY <1>0, <1>2, <2>4, <2>5, <2>6, <2>7, <2>8, BaseProcess DEF fp_mgr_incoming, Base, ProcsOK
<1>3. CASE fp_mgr_incoming_closed(s)
  <2>1. served' \in [Clients -> Nat]
    BY <1>3, ServedCounts DEF fp_mgr_incoming_closed, Base, ProcsOK
  <2> QED
    BY <1>0, <1>3, <2>1, BaseProcess DEF fp_mgr_incoming_closed, kernel, Base, KernelOK, ProcsOK
<1>4. CASE flowpath_exit(s)
  BY <1>0, <1>4, BaseProcess DEF flowpath_exit, kernel, Base, KernelOK, ProcsOK
<1> QED
  BY <1>1, <1>2, <1>3, <1>4

-----------------------------------------------------------------------------
(* flowmgr's handlers *)

(* The next event is the first of those left.                                  *)
LEMMA NextEvent ==
  ASSUME LoopOK, Ready # {}
  PROVE  Next_i \in Ready /\ (\A m \in Ready : Next_i <= m) /\ Next_i \in DOMAIN ps /\ Next_i \in Nat \ {0}
<1>1. Len(ps) \in Nat /\ DOMAIN ps = 1 .. Len(ps) /\ i \in Nat \ {0}
  BY LenProperties DEF LoopOK
<1>2. Ready \subseteq Nat /\ Ready \subseteq DOMAIN ps
  BY <1>1 DEF Ready
<1>3. \E x \in Ready : \A y \in Ready : x <= y
  BY <1>2, FirstOfSome, Zenon
<1>4. Next_i \in Ready /\ (\A m \in Ready : Next_i <= m)
  BY <1>3, Zenon DEF Next_i
<1> QED
  BY <1>1, <1>2, <1>4

(* What is ready after an event comes after it.                                *)
LEMMA LaterEvent ==
  ASSUME NEW n \in Nat, i' = n + 1, ps' \in Seq(Entries), NEW k \in Ready'
  PROVE  k \in DOMAIN ps' /\ k \in Nat /\ k > n
<1>1. DOMAIN ps' = 1 .. Len(ps') /\ Len(ps') \in Nat
  BY LenProperties
<1>2. k \in i' .. Len(ps')
  BY DEF Ready
<1> QED
  BY <1>1, <1>2

(* The entries of the poll set have their types.                               *)
LEMMA EntryAt ==
  ASSUME ps \in Seq(Entries), NEW k \in DOMAIN ps
  PROVE  ps[k].fd \in Fds /\ ps[k].ready \in BOOLEAN /\ k \in Nat
<1>1. ps \in [1 .. Len(ps) -> Entries] /\ Len(ps) \in Nat
  BY LenProperties
<1>2. ps[k] \in Entries /\ k \in Nat
  BY <1>1
<1> QED
  BY <1>2 DEF Entries

(* What the handler map says of a descriptor.                                  *)
LEMMA HandlerAt ==
  ASSUME LoopOK, NEW fd \in DOMAIN ios
  PROVE  /\ fd \in Fds /\ ios[fd].kind \in HandlerKinds /\ ios[fd].fd = fd
         /\ ios[fd] = [kind |-> ios[fd].kind, fd |-> fd] /\ ios[fd] # Null
<1>1. fd \in Fds /\ ios[fd] \in [kind : HandlerKinds, fd : {fd}]
  BY DEF LoopOK
<1>2. ios[fd].kind \in HandlerKinds /\ ios[fd].fd = fd /\ ios[fd] = [kind |-> ios[fd].kind, fd |-> fd]
  BY <1>1
<1> QED
  BY <1>1, <1>2, NullIsNoHandler

(* An entry for a new connection is appended to the poll set, or none is.      *)
LEMMA Extended ==
  ASSUME ps \in Seq(Entries), NEW sd \in Fds,
         ps' \in {ps, Append(ps, [fd |-> sd, ready |-> FALSE])}
  PROVE  /\ ps' \in Seq(Entries)
         /\ \A k \in DOMAIN ps : k \in DOMAIN ps' /\ ps'[k] = ps[k]
         /\ \A k \in DOMAIN ps' : k \in DOMAIN ps \/ (ps'[k].fd = sd /\ ps'[k].ready = FALSE)
         /\ ps' # ps => \E k \in DOMAIN ps' : ps'[k].fd = sd
<1>1. Len(ps) \in Nat /\ DOMAIN ps = 1 .. Len(ps)
  BY LenProperties
<1>2. CASE ps' = ps
  BY <1>2
<1>3. CASE ps' = Append(ps, [fd |-> sd, ready |-> FALSE])
  <2> DEFINE e == [fd |-> sd, ready |-> FALSE]
  <2>1. e \in Entries /\ e.fd = sd /\ e.ready = FALSE
    BY DEF Entries
  <2> HIDE DEF e
  <2>2. /\ ps' \in Seq(Entries) /\ Len(ps') = Len(ps) + 1
        /\ \A k \in 1 .. Len(ps) : ps'[k] = ps[k]
        /\ ps'[Len(ps) + 1] = e
    BY <1>3, <2>1, AppendProperties DEF e
  <2>3. DOMAIN ps' = 1 .. Len(ps) + 1
    BY <1>1, <2>2, LenProperties
  <2>4. \A k \in 1 .. Len(ps) + 1 : k \in 1 .. Len(ps) \/ k = Len(ps) + 1
    BY <1>1
  <2> QED
    BY <1>1, <2>1, <2>2, <2>3, <2>4
<1> QED
  BY <1>2, <1>3

(* After accept() on the socket s, whatever was done with the connection.      *)
LEMMA AcceptServers ==
  ASSUME Base, phase = "scan", Ready # {}, UNCHANGED phase,
         NEW s \in Sockets, fds[ps[Next_i].fd] = s,
         NEW p \in Peers, NEW sd \in Fds, fds[sd] = Null,
         fds' = [fds EXCEPT ![sd] = p],
         backlog' = [backlog EXCEPT ![s] = Tail(@)],
         i' = Next_i + 1,
         ps' \in {ps, Append(ps, [fd |-> sd, ready |-> FALSE])},
         DOMAIN ios \subseteq DOMAIN ios'
  PROVE  ServersOK'
<1>1. /\ Next_i \in Ready /\ (\A m \in Ready : Next_i <= m) /\ Next_i \in DOMAIN ps /\ Next_i \in Nat \ {0}
  BY NextEvent DEF Base
<1>2. /\ ps \in Seq(Entries) /\ i \in Nat \ {0} /\ Len(ps) \in Nat /\ DOMAIN ps = 1 .. Len(ps)
      /\ i <= Next_i
  BY <1>1, LenProperties DEF Base, LoopOK, Ready
<1>3. /\ ps' \in Seq(Entries)
      /\ \A k \in DOMAIN ps : k \in DOMAIN ps' /\ ps'[k] = ps[k]
      /\ \A k \in DOMAIN ps' : k \in DOMAIN ps \/ (ps'[k].fd = sd /\ ps'[k].ready = FALSE)
  BY <1>2, Extended
<1>4. fds'[sd] = p /\ p \notin Sockets /\ \A fd \in Fds \ {sd} : fds'[fd] = fds[fd]
  BY ProcessAssumption DEF Base, KernelOK, Sockets
<1>5. \A k \in DOMAIN ps : ps[k].fd \in Fds
  BY <1>2, EntryAt
<1>6. \A k \in DOMAIN ps' : fds'[ps'[k].fd] \in Sockets =>
         k \in DOMAIN ps /\ ps'[k] = ps[k] /\ fds[ps[k].fd] = fds'[ps'[k].fd]
  BY <1>3, <1>4, <1>5
<1>7. \A j, k \in DOMAIN ps' : fds'[ps'[j].fd] \in Sockets /\ ps'[j].fd = ps'[k].fd => j = k
  <2> SUFFICES ASSUME NEW j \in DOMAIN ps', NEW k \in DOMAIN ps',
                      fds'[ps'[j].fd] \in Sockets, ps'[j].fd = ps'[k].fd
               PROVE  j = k
    OBVIOUS
  <2>1. /\ j \in DOMAIN ps /\ ps'[j] = ps[j] /\ fds[ps[j].fd] \in Sockets
        /\ k \in DOMAIN ps /\ ps'[k] = ps[k]
    BY <1>6
  <2> QED
    BY <2>1 DEF Base, ServersOK
<1>8. ASSUME NEW k \in Ready', ps'[k].ready, fds'[ps'[k].fd] \in Sockets
      PROVE  backlog'[fds'[ps'[k].fd]] # <<>>
  <2>2. k \in DOMAIN ps' /\ k \in Nat /\ k > Next_i
    BY <1>1, <1>3, LaterEvent
  <2>3. k \in DOMAIN ps /\ ps'[k] = ps[k] /\ fds[ps[k].fd] = fds'[ps'[k].fd]
    BY <1>6, <1>8, <2>2
  <2>4. k \in Ready
    BY <1>1, <1>2, <1>8, <2>2, <2>3 DEF Ready
  <2>5. backlog[fds[ps[k].fd]] # <<>>
    BY <1>8, <2>3, <2>4 DEF Base, ServersOK
  <2>6. fds[ps[k].fd] # s
    <3>1. ASSUME fds[ps[k].fd] = s
          PROVE  FALSE
      <4>1. s # Null
        BY ProcessAssumption DEF Sockets
      <4>2. ps[k].fd = ps[Next_i].fd
        BY <1>1, <1>5, <2>3, <3>1, <4>1 DEF Base, EndsOK
      <4>3. k = Next_i
        BY <1>1, <2>3, <3>1, <4>2 DEF Base, ServersOK
      <4> QED
        BY <1>1, <2>2, <4>3
    <3> QED
      BY <3>1
  <2> QED
    BY <1>8, <2>3, <2>5, <2>6 DEF Base, KernelOK
<1> QED
  BY <1>7, <1>8 DEF ServersOK

(* h is the handler of the next event, which is then done with.                *)
Dispatch(h) ==
  /\ phase = "scan" /\ Ready # {}
  /\ ps[Next_i].fd \in DOMAIN ios /\ h = ios[ps[Next_i].fd]
  /\ i' = Next_i + 1 /\ UNCHANGED procs

(* What is known of the handler of the next event.                             *)
LEMMA Dispatched ==
  ASSUME Base, NEW h, Dispatch(h)
  PROVE  /\ h.fd \in DOMAIN ios /\ h.fd \in Fds /\ h = ios[h.fd] /\ h = [kind |-> h.kind, fd |-> h.fd]
         /\ h.kind \in HandlerKinds /\ h.fd = ps[Next_i].fd /\ h \in Range(ios)
         /\ Next_i \in Ready /\ (\A m \in Ready : Next_i <= m) /\ Next_i \in DOMAIN ps
         /\ Next_i \in Nat \ {0} /\ ps[Next_i].ready
         /\ i' = Next_i + 1 /\ UNCHANGED procs /\ phase = "scan"
<1>1. /\ Next_i \in Ready /\ (\A m \in Ready : Next_i <= m) /\ Next_i \in DOMAIN ps
      /\ Next_i \in Nat \ {0} /\ i' = Next_i + 1 /\ UNCHANGED procs /\ phase = "scan"
  BY NextEvent DEF Base, Dispatch
<1>2. ps[Next_i].fd \in DOMAIN ios /\ h = ios[ps[Next_i].fd]
  BY DEF Dispatch
<1>3. ps[Next_i].ready
  BY <1>1, <1>2 DEF Ready
<1>4. /\ ps[Next_i].fd \in Fds /\ h.fd = ps[Next_i].fd /\ h = [kind |-> h.kind, fd |-> h.fd]
      /\ h.kind \in HandlerKinds
  BY <1>2, HandlerAt DEF Base
<1> QED
  BY <1>1, <1>2, <1>3, <1>4 DEF Range

(* accept() on the socket s gives the connection of p the descriptor sd.       *)
Accepts(s, p, sd) ==
  /\ p = Head(backlog[s]) /\ sd = LowestFree
  /\ fds' = [fds EXCEPT ![sd] = p]
  /\ mgrEnd' = [mgrEnd EXCEPT ![p] = "open"]
  /\ backlog' = [backlog EXCEPT ![s] = Tail(@)]
  /\ down' = down \/ \E msg \in Messages : down' = [down EXCEPT ![p] = Append(@, msg)]
  /\ ps' \in {ps, Append(ps, [fd |-> sd, ready |-> FALSE])}
  /\ DOMAIN ios \subseteq DOMAIN ios'
  /\ UNCHANGED <<up, phase>>

(* A connection that is accepted is the oldest of the backlog; it is new to    *)
(* flowmgr and gets a free descriptor.                                         *)
LEMMA AcceptBase ==
  ASSUME Base, NEW h, Dispatch(h), NEW s \in Sockets, fds[h.fd] = s,
         NEW p, NEW sd, Accepts(s, p, sd)
  PROVE  /\ KernelOK' /\ ProcsOK' /\ EndsOK' /\ ServersOK'
         /\ p \in Peers /\ Socket(p) = s /\ mgrEnd[p] = "queued" /\ sd \in Fds /\ fds[sd] = Null
         /\ fds'[sd] = p /\ \A fd \in Fds \ {sd} : fds'[fd] = fds[fd]
<1>0. /\ p = Head(backlog[s]) /\ sd = LowestFree
      /\ fds' = [fds EXCEPT ![sd] = p]
      /\ mgrEnd' = [mgrEnd EXCEPT ![p] = "open"]
      /\ backlog' = [backlog EXCEPT ![s] = Tail(@)]
      /\ down' = down \/ \E msg \in Messages : down' = [down EXCEPT ![p] = Append(@, msg)]
      /\ ps' \in {ps, Append(ps, [fd |-> sd, ready |-> FALSE])}
      /\ DOMAIN ios \subseteq DOMAIN ios'
      /\ UNCHANGED <<up, phase>>
  BY DEF Accepts
<1>1. /\ h.fd \in DOMAIN ios /\ h.fd = ps[Next_i].fd
      /\ Next_i \in Ready /\ Next_i \in DOMAIN ps /\ ps[Next_i].ready
      /\ i' = Next_i + 1 /\ UNCHANGED procs /\ phase = "scan"
  BY Dispatched
<1>2. backlog[s] # <<>>
  BY <1>1 DEF Base, ServersOK
<1>3. p \in Peers
  BY <1>0, <1>2, HeadTailProperties DEF Base, KernelOK
<1>4. /\ down' \in [Peers -> Seq(Messages)]
      /\ \A q \in Peers : down'[q] = down[q] \/ q = p
  <2>1. CASE down' = down
    BY <2>1 DEF Base, KernelOK
  <2>2. ASSUME NEW msg \in Messages, down' = [down EXCEPT ![p] = Append(@, msg)]
        PROVE  <1>4!:
    <3>1. down[p] \in Seq(Messages) /\ Append(down[p], msg) \in Seq(Messages)
      BY <1>3, AppendProperties DEF Base, KernelOK
    <3> QED
      BY <1>3, <2>2, <3>1 DEF Base, KernelOK
  <2> QED
    BY <1>0, <2>1, <2>2
<1>5. \A q \in Peers : down'[q] = down[q] \/ mgrEnd'[q] = "open"
  BY <1>0, <1>3, <1>4 DEF Base, KernelOK
<1>6. UNCHANGED <<proc, cmd, got, inbuf, served>>
  BY <1>1 DEF procs
<1>7. /\ EndsOK'
      /\ fds' \in [Fds -> Sockets \cup Peers \cup {Null}]
      /\ backlog' \in [Sockets -> Seq(Peers)]
      /\ mgrEnd' \in [Peers -> {"none", "queued", "open", "closed"}]
      /\ Socket(p) = s /\ mgrEnd[p] = "queued" /\ sd \in Fds /\ fds[sd] = Null
  BY <1>0, <1>2, <1>5, <1>6, AcceptEnds DEF Base
<1>8. fds'[sd] = p /\ \A fd \in Fds \ {sd} : fds'[fd] = fds[fd]
  BY <1>0, <1>7 DEF Base, KernelOK
<1>9. KernelOK' /\ ProcsOK'
  BY <1>0, <1>4, <1>6, <1>7 DEF Base, KernelOK, ProcsOK
<1>10. Ready # {}
  BY DEF Dispatch
<1>11. ServersOK'
  BY <1>0, <1>1, <1>3, <1>7, <1>10, AcceptServers
<1> QED
  BY <1>3, <1>7, <1>8, <1>9, <1>11

(* The handler maps after accept() when the map and the channels are as before. *)
LEMMA AcceptRefused ==
  ASSUME Base, NEW h \in Range(ios), NEW p \in Peers, NEW sd \in Fds, fds[sd] = Null,
         fds'[sd] = p, \A fd \in Fds \ {sd} : fds'[fd] = fds[fd],
         rm' = rm \cup {h}, UNCHANGED <<ps, ios, ctrl_, switch_, phase>>, i' \in Nat \ {0}
  PROVE  LoopOK' /\ HandlersOK'
<1>1. LoopOK'
  BY DEF Base, LoopOK
<1>2. \A fd \in Fds, s \in Sockets : fds'[fd] = s <=> fds[fd] = s
  BY ProcessAssumption DEF Sockets
<1>3. \A fd \in Fds : fds[fd] \in Switches => fds'[fd] \in Switches
  BY ProcessAssumption DEF Peers
<1>4. HandlersOK'
  <2>1. DOMAIN ios \subseteq Fds
    BY DEF Base, LoopOK
  <2> QED
    BY <1>2, <1>3, <2>1 DEF Base, HandlersOK, Sockets
<1> QED
  BY <1>1, <1>4

(* A channel handler reads, may send, and stays or asks to be removed.         *)
LEMMA ChannelBase ==
  ASSUME Base, NEW h, Dispatch(h),
         up' \in [Peers -> Seq(Messages)], down' \in [Peers -> Seq(Messages)],
         \A q \in Peers : down'[q] = down[q] \/ mgrEnd[q] = "open",
         rm' \in {rm, rm \cup {h}},
         UNCHANGED <<fds, backlog, mgrEnd, ps, ios, ctrl_, switch_, phase>>
  PROVE  Base'
<1>1. /\ Next_i \in Ready /\ Next_i \in Nat \ {0} /\ i' = Next_i + 1 /\ UNCHANGED procs
      /\ h \in Range(ios) /\ phase = "scan"
  BY Dispatched
<1>2. KernelOK' /\ ProcsOK'
  BY <1>1 DEF Base, KernelOK, ProcsOK, procs
<1>3. EndsOK'
  <2>1. \A q \in Peers : down'[q] \in {down[q], <<>>} \/ mgrEnd[q] \notin {"none", "queued"}
    OBVIOUS
  <2>2. \A q \in Peers : proc'[q] = proc[q]
    BY <1>1 DEF procs
  <2> QED
    BY <2>1, <2>2, SameEnds DEF Base
<1>4. LoopOK'
  BY <1>1 DEF Base, LoopOK
<1>5. HandlersOK'
  BY DEF Base, HandlersOK
<1>6. Ready' \subseteq Ready
  <2> SUFFICES ASSUME NEW k \in Ready'
               PROVE  k \in Ready
    OBVIOUS
  <2>1. ps \in Seq(Entries) /\ i \in Nat /\ i <= Next_i
    BY <1>1 DEF Base, LoopOK, Ready
  <2>2. k \in DOMAIN ps /\ k \in Nat /\ k > Next_i
    BY <1>1, <2>1, LaterEvent
  <2>3. ps[k].ready \/ ps[k].fd \notin DOMAIN ios
    BY DEF Ready
  <2>4. DOMAIN ps = 1 .. Len(ps) /\ Len(ps) \in Nat
    BY <2>1, LenProperties
  <2> QED
    BY <1>1, <2>1, <2>2, <2>3, <2>4 DEF Ready
<1>7. ServersOK'
  BY <1>1, <1>6 DEF Base, ServersOK
<1> QED
  BY <1>2, <1>3, <1>4, <1>5, <1>7 DEF Base

(* When accept() fails only the server is marked.                              *)
LEMMA BaseAcceptFailed ==
  ASSUME Base, NEW h, Dispatch(h), accept_failed(h)
  PROVE  Base'
<1>1. /\ UNCHANGED <<fds, backlog, mgrEnd, up, down, ps, ios, ctrl_, switch_, phase>>
      /\ rm' = rm \cup {h}
  BY DEF accept_failed, Close, kernel
<1>2. up' \in [Peers -> Seq(Messages)] /\ down' \in [Peers -> Seq(Messages)]
  BY <1>1 DEF Base, KernelOK
<1> QED
  BY <1>1, <1>2, ChannelBase

(* The maps after a new channel is registered, at a descriptor of no handler   *)
(* or, for a switch, of a handler that stays.                                  *)
LEMMA Registered ==
  ASSUME Base, NEW ch, NEW sd \in Fds, fds[sd] = Null, ch.fd = sd,
         fds'[sd] \in Peers, \A fd \in Fds \ {sd} : fds'[fd] = fds[fd],
         register_handler(ch), UNCHANGED <<rm, phase>>, i' \in Nat \ {0},
         \/ /\ ctrl_ = Null /\ ctrl_' = ch /\ UNCHANGED switch_
            /\ ch = Handler("Control_channel", sd)
         \/ /\ switch_ = Null /\ switch_' = ch /\ UNCHANGED ctrl_
            /\ ch = Handler("Switch_channel", sd) /\ fds'[sd] \in Switches
  PROVE  /\ LoopOK' /\ HandlersOK'
         /\ ctrl_ = Null => sd \notin DOMAIN ios
<1>1. /\ DOMAIN ios' = DOMAIN ios \cup {sd}
      /\ \A fd \in DOMAIN ios : ios'[fd] = ios[fd]
      /\ sd \notin DOMAIN ios => ios'[sd] = ch
  BY DEF register_handler, Inserted
<1>2. ch \in [kind : HandlerKinds, fd : {sd}] /\ ch # Null /\ ch.kind \in {"Control_channel", "Switch_channel"}
  BY NullIsNoHandler DEF Handler, HandlerKinds
<1>3. /\ ps' \in Seq(Entries)
      /\ {ps[k].fd : k \in DOMAIN ps} \cup {sd} \subseteq {ps'[k].fd : k \in DOMAIN ps'}
  <2>1. ps' = Append(ps, [fd |-> sd, ready |-> FALSE]) /\ ps \in Seq(Entries)
    BY DEF register_handler, Base, LoopOK
  <2>2. ps' # ps
    <3>1. [fd |-> sd, ready |-> FALSE] \in Entries
      BY DEF Entries
    <3>2. Len(ps') = Len(ps) + 1 /\ Len(ps) \in Nat
      BY <2>1, <3>1, AppendProperties, LenProperties
    <3> QED
      BY <3>2
  <2>3. /\ ps' \in Seq(Entries)
        /\ \A k \in DOMAIN ps : k \in DOMAIN ps' /\ ps'[k] = ps[k]
        /\ \E k \in DOMAIN ps' : ps'[k].fd = sd
    BY <2>1, <2>2, Extended
  <2> QED
    BY <2>3
<1>4. \A fd \in DOMAIN ios : /\ fd \in Fds /\ ios[fd].kind \in HandlerKinds
                             /\ ios[fd].fd = fd /\ ios[fd] # Null
  BY HandlerAt DEF Base
<1>5. ASSUME sd \in DOMAIN ios
      PROVE  ios[sd] = ctrl_ /\ ios[sd].kind = "Control_channel"
  <2>1. fds[sd] \notin Sockets /\ fds[sd] \notin Switches
    BY ProcessAssumption DEF Sockets, Peers
  <2>2. ios[sd].kind = "Control_channel"
    BY <1>4, <1>5, <2>1 DEF Base, HandlersOK, HandlerKinds, Sockets
  <2> QED
    BY <1>5, <2>2 DEF Base, HandlersOK
<1>6. ctrl_ = Null => sd \notin DOMAIN ios
  BY <1>4, <1>5
<1>7. LoopOK'
  <2>1. \A fd \in DOMAIN ios' : ios'[fd] \in [kind : HandlerKinds, fd : {fd}]
    BY <1>1, <1>2 DEF Base, LoopOK
  <2>2. rm' \subseteq Range(ios')
    BY <1>1 DEF Base, LoopOK, Range
  <2> QED
    BY <1>1, <1>3, <2>1, <2>2 DEF Base, LoopOK, Handler
<1>8. \A fd \in Fds, s \in Sockets : fds'[fd] = s <=> fds[fd] = s
  BY ProcessAssumption DEF Sockets
<1>9. \A fd \in Fds : fds[fd] \in Switches => fds'[fd] = fds[fd]
  BY ProcessAssumption DEF Peers
<1>10. DOMAIN ios' \subseteq {ps'[k].fd : k \in DOMAIN ps'}
  BY <1>1, <1>3 DEF Base, HandlersOK
<1>11. \A fd \in Fds : fds'[fd] = "control_socket" <=> fd \in DOMAIN ios' /\ ios'[fd].kind = "Control_server"
  BY <1>1, <1>2, <1>8 DEF Base, HandlersOK, Sockets
<1>12. \A fd \in Fds : fds'[fd] = "switch_socket" <=> fd \in DOMAIN ios' /\ ios'[fd].kind = "Switch_server"
  BY <1>1, <1>2, <1>8 DEF Base, HandlersOK, Sockets
<1>13. CASE ctrl_ = Null /\ ctrl_' = ch /\ UNCHANGED switch_ /\ ch = Handler("Control_channel", sd)
  <2>1. ch.kind = "Control_channel" /\ sd \notin DOMAIN ios /\ ios'[sd] = ch
    BY <1>1, <1>6, <1>13 DEF Handler
  <2>2. \A fd \in DOMAIN ios' : ios'[fd].kind = "Control_channel" <=> ios'[fd] = ctrl_'
    BY <1>1, <1>4, <1>13, <2>1 DEF Base, HandlersOK
  <2>3. \A fd \in DOMAIN ios' :
          ios'[fd].kind = "Switch_channel" => ios'[fd] = switch_' /\ fds'[fd] \in Switches
    BY <1>1, <1>4, <1>9, <1>13, <2>1 DEF Base, HandlersOK
  <2>4. ctrl_'.fd \in DOMAIN ios' /\ ios'[ctrl_'.fd] = ctrl_'
    BY <1>1, <1>13, <2>1
  <2> QED
    BY <1>6, <1>7, <1>10, <1>11, <1>12, <2>2, <2>3, <2>4 DEF HandlersOK
<1>14. CASE /\ switch_ = Null /\ switch_' = ch /\ UNCHANGED ctrl_ /\ ch = Handler("Switch_channel", sd)
            /\ fds'[sd] \in Switches
  <2>1. ch.kind = "Switch_channel"
    BY <1>14 DEF Handler
  <2>2. \A fd \in DOMAIN ios' : ios'[fd].kind = "Control_channel" <=> ios'[fd] = ctrl_'
    <3>1. ch # ctrl_
      <4>1. ctrl_ # Null => ctrl_.kind = "Control_channel"
        BY DEF Base, LoopOK
      <4> QED
        BY <1>2, <2>1, <4>1
    <3> QED
      BY <1>1, <1>4, <1>14, <2>1, <3>1 DEF Base, HandlersOK
  <2>3. \A fd \in DOMAIN ios' :
          ios'[fd].kind = "Switch_channel" => ios'[fd] = switch_' /\ fds'[fd] \in Switches
    <3>1. \A fd \in DOMAIN ios : ios[fd].kind # "Switch_channel"
      BY <1>4, <1>14 DEF Base, HandlersOK
    <3> QED
      BY <1>1, <1>14, <3>1
  <2>4. ctrl_' # Null => ctrl_'.fd \in DOMAIN ios' /\ ios'[ctrl_'.fd] = ctrl_'
    BY <1>1, <1>14 DEF Base, HandlersOK
  <2> QED
    BY <1>6, <1>7, <1>10, <1>11, <1>12, <2>2, <2>3, <2>4 DEF HandlersOK
<1> QED
  BY <1>13, <1>14

(* Base holds after a flowctl is accepted or turned away.                      *)
LEMMA BaseControlServer ==
  ASSUME Base, NEW h, Dispatch(h), h.kind = "Control_server", Control_server_on_input(h),
         ~accept_failed(h)
  PROVE  Base'
<1> SUFFICES ASSUME NEW s, s = "control_socket", NEW p, p = Head(backlog[s]), NEW sd, sd = LowestFree
             PROVE  Base'
  OBVIOUS
<1> DEFINE ch == Handler("Control_channel", sd)
<1>1. /\ h.fd \in DOMAIN ios /\ h \in Range(ios) /\ fds[h.fd] = s /\ s \in Sockets
      /\ Next_i \in Nat \ {0} /\ i' = Next_i + 1
  BY Dispatched DEF Base, HandlersOK, Sockets
<1>2. /\ UNCHANGED <<up, switch_, phase>>
      /\ fds' = [fds EXCEPT ![sd] = p]
      /\ mgrEnd' = [mgrEnd EXCEPT ![p] = "open"]
      /\ backlog' = [backlog EXCEPT ![s] = Tail(@)]
      /\ \/ rm' = rm \cup {h} /\ UNCHANGED <<ps, ios, ctrl_, down>>
         \/ /\ ctrl_ = Null /\ ctrl_' = ch /\ register_handler(ch) /\ rm' = rm
            /\ down' = IF switch_ = Null
                       THEN [down EXCEPT ![p] = Append(@, "no switch")] ELSE down
  BY DEF Control_server_on_input, Accepted, Close, Keep
<1>3. DOMAIN ios \subseteq DOMAIN ios' /\ ps' \in {ps, Append(ps, [fd |-> sd, ready |-> FALSE])}
  BY <1>2 DEF register_handler, Inserted, Handler
<1>4. down' = down \/ \E msg \in Messages : down' = [down EXCEPT ![p] = Append(@, msg)]
  BY <1>2 DEF Messages
<1>5. /\ KernelOK' /\ ProcsOK' /\ EndsOK' /\ ServersOK'
      /\ p \in Peers /\ sd \in Fds /\ fds[sd] = Null
      /\ fds'[sd] = p
      /\ \A fd \in Fds \ {sd} : fds'[fd] = fds[fd]
  <2>1. UNCHANGED <<up, phase>> /\ fds[h.fd] = s /\ s \in Sockets
    BY <1>1, <1>2
  <2>2. Accepts(s, p, sd)
    BY <1>2, <1>3, <1>4 DEF Accepts
  <2> QED
    BY <2>1, <2>2, AcceptBase
<1>6. i' \in Nat \ {0}
  BY <1>1
<1>7. CASE rm' = rm \cup {h} /\ UNCHANGED <<ps, ios, ctrl_, down>>
  <2>1. LoopOK' /\ HandlersOK'
    BY <1>1, <1>2, <1>5, <1>6, <1>7, AcceptRefused
  <2> QED
    BY <1>5, <2>1 DEF Base
<1>8. CASE ctrl_ = Null /\ ctrl_' = ch /\ register_handler(ch) /\ rm' = rm
  <2>1. ch.fd = sd
    BY DEF Handler
  <2> HIDE DEF ch
  <2>2. LoopOK' /\ HandlersOK'
    BY <1>2, <1>5, <1>6, <1>8, <2>1, Registered DEF ch
  <2> QED
    BY <1>5, <2>2 DEF Base
<1> QED
  BY <1>2, <1>7, <1>8

(* Base holds after a switch is accepted or turned away.                       *)
LEMMA BaseSwitchServer ==
  ASSUME Base, NEW h, Dispatch(h), h.kind = "Switch_server", Switch_server_on_input(h),
         ~accept_failed(h)
  PROVE  Base'
<1> SUFFICES ASSUME NEW s, s = "switch_socket", NEW p, p = Head(backlog[s]), NEW sd, sd = LowestFree
             PROVE  Base'
  OBVIOUS
<1> DEFINE ch == Handler("Switch_channel", sd)
<1>1. /\ h.fd \in DOMAIN ios /\ h \in Range(ios) /\ fds[h.fd] = s /\ s \in Sockets
      /\ Next_i \in Nat \ {0} /\ i' = Next_i + 1
  BY Dispatched DEF Base, HandlersOK, Sockets
<1>2. /\ UNCHANGED <<up, down, ctrl_, phase>>
      /\ fds' = [fds EXCEPT ![sd] = p]
      /\ mgrEnd' = [mgrEnd EXCEPT ![p] = "open"]
      /\ backlog' = [backlog EXCEPT ![s] = Tail(@)]
      /\ \/ rm' = rm \cup {h} /\ UNCHANGED <<ps, ios, switch_>>
         \/ switch_ = Null /\ switch_' = ch /\ register_handler(ch) /\ rm' = rm
  BY DEF Switch_server_on_input, Close, Keep
<1>3. DOMAIN ios \subseteq DOMAIN ios' /\ ps' \in {ps, Append(ps, [fd |-> sd, ready |-> FALSE])}
  BY <1>2 DEF register_handler, Inserted, Handler
<1>5. /\ KernelOK' /\ ProcsOK' /\ EndsOK' /\ ServersOK'
      /\ p \in Peers /\ sd \in Fds /\ fds[sd] = Null
      /\ fds'[sd] = p /\ Socket(p) = s
      /\ \A fd \in Fds \ {sd} : fds'[fd] = fds[fd]
  <2>1. UNCHANGED <<up, phase>> /\ fds[h.fd] = s /\ s \in Sockets
    BY <1>1, <1>2
  <2>2. Accepts(s, p, sd)
    BY <1>2, <1>3 DEF Accepts
  <2> QED
    BY <2>1, <2>2, AcceptBase
<1>6. i' \in Nat \ {0} /\ fds'[sd] \in Switches
  <2>1. Socket(p) # "control_socket"
    BY <1>5
  <2>2. p \notin Clients
    BY <2>1 DEF Socket
  <2> QED
    BY <1>1, <1>5, <2>2 DEF Peers
<1>7. CASE rm' = rm \cup {h} /\ UNCHANGED <<ps, ios, switch_>>
  <2>1. LoopOK' /\ HandlersOK'
    BY <1>1, <1>2, <1>5, <1>6, <1>7, AcceptRefused
  <2> QED
    BY <1>5, <2>1 DEF Base
<1>8. CASE switch_ = Null /\ switch_' = ch /\ register_handler(ch) /\ rm' = rm
  <2>1. ch.fd = sd
    BY DEF Handler
  <2> HIDE DEF ch
  <2>2. LoopOK' /\ HandlersOK'
    BY <1>2, <1>5, <1>6, <1>8, <2>1, Registered DEF ch
  <2> QED
    BY <1>5, <2>2 DEF Base
<1> QED
  BY <1>2, <1>7, <1>8

(* send() adds a message to an open connection, or nothing.                    *)
LEMMA DeliveredTo ==
  ASSUME KernelOK, EndsOK, NEW fd, NEW msg \in Messages
  PROVE  /\ Delivered(fd, msg) \in [Peers -> Seq(Messages)]
         /\ \A q \in Peers : Delivered(fd, msg)[q] = IF fds[fd] = q THEN Append(down[q], msg) ELSE down[q]
         /\ fd \in Fds => \A q \in Peers : fds[fd] = q => mgrEnd[q] = "open"
<1>1. CASE fds[fd] \in Peers
  <2> DEFINE q == fds[fd]
  <2>1. down[q] \in Seq(Messages) /\ Append(down[q], msg) \in Seq(Messages)
    BY <1>1, AppendProperties DEF KernelOK
  <2>2. Delivered(fd, msg) = [down EXCEPT ![q] = Append(down[q], msg)]
    BY <1>1 DEF Delivered
  <2> HIDE DEF q
  <2>3. /\ Delivered(fd, msg) \in [Peers -> Seq(Messages)]
        /\ \A r \in Peers : Delivered(fd, msg)[r] = IF q = r THEN Append(down[r], msg) ELSE down[r]
    BY <1>1, <2>1, <2>2 DEF KernelOK, q
  <2> QED
    BY <2>3 DEF q, EndsOK
<1>2. CASE fds[fd] \notin Peers
  BY <1>2 DEF Delivered, KernelOK
<1> QED
  BY <1>1, <1>2

(* What recv() returns.                                                        *)
LEMMA DataAt ==
  ASSUME KernelOK, NEW fd
  PROVE  /\ Data(fd) \in Seq(Messages)
         /\ Data(fd) # <<>> => /\ fds[fd] \in Peers /\ up[fds[fd]] = Data(fd)
                               /\ Data(fd)[1] \in Messages /\ Tail(Data(fd)) \in Seq(Messages)
<1>1. Data(fd) \in Seq(Messages)
  BY EmptySeq DEF Data, KernelOK
<1>2. ASSUME Data(fd) # <<>>
      PROVE  Data(fd)[1] \in Messages /\ Tail(Data(fd)) \in Seq(Messages)
  <2>1. Len(Data(fd)) \in Nat \ {0} /\ DOMAIN Data(fd) = 1 .. Len(Data(fd))
    BY <1>1, <1>2, EmptySeq, LenProperties
  <2>2. 1 \in DOMAIN Data(fd)
    BY <2>1
  <2> QED
    BY <1>1, <1>2, <2>2, HeadTailProperties, ElementOfSeq, <2>1
<1> QED
  BY <1>1, <1>2 DEF Data

(* The handler of each kind. *)
Handled(h) ==
  \/ h.kind = "Control_server" /\ Control_server_on_input(h)
  \/ h.kind = "Switch_server" /\ Switch_server_on_input(h)
  \/ h.kind = "Control_channel" /\ Control_channel_on_input(h)
  \/ h.kind = "Switch_channel" /\ Switch_channel_on_input(h)

(* An event crashes flowmgr or is handled by the handler of its kind.          *)
LEMMA EventCases ==
  ASSUME process_events
  PROVE  \/ Crash /\ ps[Next_i].fd \notin DOMAIN ios
         \/ Crash /\ ps[Next_i].fd \in DOMAIN ios /\ Fatal(ios[ps[Next_i].fd])
         \/ Dispatch(ios[ps[Next_i].fd]) /\ Handled(ios[ps[Next_i].fd])
<1> DEFINE fd == ps[Next_i].fd
           h  == ios[fd]
<1>1. /\ phase = "scan" /\ Ready # {}
      /\ IF fd \notin DOMAIN ios THEN Crash
         ELSE \/ Fatal(h) /\ Crash
              \/ Handled(h) /\ i' = Next_i + 1 /\ UNCHANGED procs
  BY DEF process_events, Handled
<1>2. CASE fd \notin DOMAIN ios
  BY <1>1, <1>2
<1>3. CASE fd \in DOMAIN ios
  BY <1>1, <1>3 DEF Dispatch
<1> QED
  BY <1>2, <1>3

(* Base holds after a command is read, forwarded, rejected or ignored.         *)
LEMMA BaseControlChannel ==
  ASSUME Base, NEW h, Dispatch(h), h.kind = "Control_channel", Control_channel_on_input(h)
  PROVE  Base'
<1>0. h.fd \in Fds
  BY Dispatched
<1>1. /\ UNCHANGED <<fds, backlog, mgrEnd, ps, ios, ctrl_, switch_, phase>>
      /\ rm' \in {rm, rm \cup {h}}
  BY DEF Control_channel_on_input, Close, Keep
<1>2. CASE UNCHANGED <<up, down>>
  <2>1. up' \in [Peers -> Seq(Messages)] /\ down' \in [Peers -> Seq(Messages)]
    BY <1>2 DEF Base, KernelOK
  <2> QED
    BY <1>1, <1>2, <2>1, ChannelBase
<1>3. ASSUME ~UNCHANGED <<up, down>>
      PROVE  Base'
  <2> DEFINE data == Data(h.fd)
             q == fds[h.fd]
  <2>1. /\ data # <<>> /\ up' = [up EXCEPT ![q] = Tail(@)]
        /\ \/ /\ fds[h.fd] \in Clients /\ ~Fatal(h)
              /\ Outcome(cmd[data[1]]) = "forward" /\ down' = Delivered(switch_.fd, data[1])
           \/ down' = Delivered(h.fd, "rejected")
           \/ down' = down
    BY <1>3 DEF Control_channel_on_input
  <2>2. /\ data[1] \in Messages /\ "rejected" \in Messages
        /\ Tail(data) \in Seq(Messages) /\ up[q] = data /\ q \in Peers
    BY <2>1, DataAt DEF Base, Messages
  <2>3. up' \in [Peers -> Seq(Messages)]
    <3> HIDE DEF data, q
    <3> QED
      BY <2>1, <2>2 DEF Base, KernelOK
  <2>4. ~Fatal(h) /\ fds[h.fd] \in Clients /\ Outcome(cmd[data[1]]) = "forward" => switch_.fd \in Fds
    <3>1. ~Fatal(h) /\ fds[h.fd] \in Clients /\ Outcome(cmd[data[1]]) = "forward" => switch_ # Null
      BY <2>1 DEF Fatal
    <3> QED
      BY <3>1 DEF Base, LoopOK
  <2> HIDE DEF data, q
  <2>5. ASSUME NEW fd \in Fds, NEW msg \in Messages, down' = Delivered(fd, msg)
        PROVE  down' \in [Peers -> Seq(Messages)] /\ \A r \in Peers : down'[r] = down[r] \/ mgrEnd[r] = "open"
    BY <2>5, DeliveredTo DEF Base
  <2>6. down' \in [Peers -> Seq(Messages)] /\ \A r \in Peers : down'[r] = down[r] \/ mgrEnd[r] = "open"
    <3>1. CASE down' = down
      BY <3>1 DEF Base, KernelOK
    <3> QED
      BY <1>0, <2>1, <2>2, <2>4, <2>5, <3>1
  <2> QED
    BY <1>1, <2>3, <2>6, ChannelBase
<1> QED
  BY <1>2, <1>3

(* Base holds after a reply is read and passed on.                             *)
LEMMA BaseSwitchChannel ==
  ASSUME Base, NEW h, Dispatch(h), h.kind = "Switch_channel", Switch_channel_on_input(h)
  PROVE  Base'
<1>0. h.fd \in Fds
  BY Dispatched
<1>1. /\ UNCHANGED <<fds, backlog, mgrEnd, ps, ios, ctrl_, switch_, phase>>
      /\ rm' \in {rm, rm \cup {h}}
  BY DEF Switch_channel_on_input, Close, Keep
<1>2. CASE UNCHANGED <<up, down>>
  <2>1. up' \in [Peers -> Seq(Messages)] /\ down' \in [Peers -> Seq(Messages)]
    BY <1>2 DEF Base, KernelOK
  <2> QED
    BY <1>1, <1>2, <2>1, ChannelBase
<1>3. ASSUME ~UNCHANGED <<up, down>>
      PROVE  Base'
  <2> DEFINE data == Data(h.fd)
             q == fds[h.fd]
  <2>1. /\ data # <<>> /\ up' = [up EXCEPT ![q] = Tail(@)] /\ ~Fatal(h)
        /\ down' = Delivered(ctrl_.fd, data[1])
    BY <1>3 DEF Switch_channel_on_input
  <2>2. data[1] \in Messages /\ Tail(data) \in Seq(Messages) /\ up[q] = data /\ q \in Peers
    BY <2>1, DataAt DEF Base
  <2>3. ctrl_.fd \in Fds
    <3>1. ctrl_ # Null
      BY <2>1 DEF Fatal
    <3> QED
      BY <3>1 DEF Base, LoopOK
  <2> HIDE DEF data, q
  <2>4. up' \in [Peers -> Seq(Messages)]
    BY <2>1, <2>2 DEF Base, KernelOK
  <2>5. down' \in [Peers -> Seq(Messages)] /\ \A r \in Peers : down'[r] = down[r] \/ mgrEnd[r] = "open"
    BY <2>1, <2>2, <2>3, DeliveredTo DEF Base
  <2> QED
    BY <1>1, <2>4, <2>5, ChannelBase
<1> QED
  BY <1>2, <1>3

(* Base holds after every event.                                               *)
LEMMA BaseEvents == Base /\ process_events => Base'
<1> SUFFICES ASSUME Base, process_events
             PROVE  Base'
  OBVIOUS
<1> DEFINE h == ios[ps[Next_i].fd]
<1>1. CASE Crash
  BY <1>1, ExitBase DEF Crash
<1>2. CASE Dispatch(h) /\ Handled(h)
  <2> HIDE DEF h
  <2>1. CASE accept_failed(h)
    BY <1>2, <2>1, BaseAcceptFailed
  <2>2. CASE ~accept_failed(h)
    BY <1>2, <2>2, BaseControlServer, BaseSwitchServer, BaseControlChannel, BaseSwitchChannel DEF Handled
  <2> QED
    BY <2>1, <2>2
<1> QED
  BY <1>1, <1>2, EventCases

-----------------------------------------------------------------------------
(* The removals after a round *)

(* A Switch_channel that is removed closes the descriptor of a flowctl too.    *)
HungUp(h) == h.kind = "Switch_channel" /\ ctrl_ # Null
ClosedBy(h) == {h.fd} \cup (IF HungUp(h) THEN {ctrl_.fd} ELSE {})

(* What the removal of h changes, unless it crashes.                           *)
Removes(h, k) ==
  /\ k \in 1 .. Len(ps) /\ ps[k].fd = h.fd /\ ps' = RemoveAt(ps, k)
  /\ ios' = [fd \in DOMAIN ios \ {h.fd} |-> ios[fd]]
  /\ rm' = rm \ {h}
  /\ fds' = FdsWithout(ClosedBy(h))
  /\ mgrEnd' = EndsWithout(ClosedBy(h))
  /\ backlog' = [s \in Sockets |-> IF fds[h.fd] = s THEN <<>> ELSE backlog[s]]
  /\ down' = IF HungUp(h) THEN Delivered(ctrl_.fd, "switch down") ELSE down
  /\ ctrl_' = IF h.kind = "Control_channel" THEN Null ELSE ctrl_
  /\ switch_' = IF h.kind = "Switch_channel" THEN Null ELSE switch_
  /\ UNCHANGED <<up, phase, i, procs>>
  /\ ~(HungUp(h) /\ Sigpipe(ctrl_.fd))
  /\ phase = "scan" /\ Ready = {} /\ h \in rm

(* The search of the poll set finds the entry of a handler if there is one.    *)
LEMMA EntryFound ==
  ASSUME LoopOK, NEW h, NEW k, k = SelectInSeq(ps, LAMBDA f : f.fd = h.fd)
  PROVE  /\ k # 0 => k \in 1 .. Len(ps) /\ ps[k].fd = h.fd
         /\ k = 0 => \A j \in DOMAIN ps : ps[j].fd # h.fd
<1> DEFINE I == {j \in 1 .. Len(ps) : ps[j].fd = h.fd}
<1>1. k = IF I # {} THEN Min(I) ELSE 0
  BY DEF SelectInSeq
<1>2. I \subseteq Nat /\ \A j \in I : j # 0
  BY LenProperties DEF LoopOK
<1>3. DOMAIN ps = 1 .. Len(ps)
  BY DEF LoopOK
<1>4. I # {} => Min(I) \in I
  <2> HIDE DEF I
  <2> QED
    BY <1>2, MinOfSome
<1> QED
  BY <1>1, <1>2, <1>3, <1>4

(* A removal whose entry is found, and which sends to nobody who is gone,      *)
(* succeeds.                                                                   *)
LEMMA Removal ==
  ASSUME LoopOK, NEW h, unregister_handler(h), \E j \in DOMAIN ps : ps[j].fd = h.fd,
         ~(HungUp(h) /\ Sigpipe(ctrl_.fd))
  PROVE  \E k : Removes(h, k)
<1> DEFINE k == SelectInSeq(ps, LAMBDA f : f.fd = h.fd)
<1>1. k # 0 /\ k \in 1 .. Len(ps) /\ ps[k].fd = h.fd
  BY EntryFound
<1>2. /\ ios' = [fd \in DOMAIN ios \ {h.fd} |-> ios[fd]]
      /\ ps' = RemoveAt(ps, k)
      /\ rm' = rm \ {h}
      /\ fds' = FdsWithout(ClosedBy(h))
      /\ mgrEnd' = EndsWithout(ClosedBy(h))
      /\ backlog' = [s \in Sockets |-> IF fds[h.fd] = s THEN <<>> ELSE backlog[s]]
      /\ down' = IF HungUp(h) THEN Delivered(ctrl_.fd, "switch down") ELSE down
      /\ ctrl_' = IF h.kind = "Control_channel" THEN Null ELSE ctrl_
      /\ switch_' = IF h.kind = "Switch_channel" THEN Null ELSE switch_
      /\ UNCHANGED <<up, phase, i, procs>>
      /\ phase = "scan" /\ Ready = {} /\ h \in rm
  BY <1>1, Zenon DEF unregister_handler, HungUp, ClosedBy
<1> HIDE DEF k
<1>3. Removes(h, k)
  BY <1>1, <1>2 DEF Removes
<1> QED
  BY <1>3

(* A removal crashes flowmgr or succeeds.                                      *)
LEMMA RemovalCases ==
  ASSUME LoopOK, NEW h, unregister_handler(h)
  PROVE  Crash \/ \E k : Removes(h, k)
<1> DEFINE k == SelectInSeq(ps, LAMBDA f : f.fd = h.fd)
<1>1. CASE k = 0 \/ (HungUp(h) /\ Sigpipe(ctrl_.fd))
  BY <1>1 DEF unregister_handler, HungUp
<1>2. CASE ~(k = 0 \/ (HungUp(h) /\ Sigpipe(ctrl_.fd)))
  <2>1. \E j \in DOMAIN ps : ps[j].fd = h.fd
    <3>1. k \in 1 .. Len(ps) /\ ps[k].fd = h.fd
      BY <1>2, EntryFound
    <3>2. DOMAIN ps = 1 .. Len(ps)
      BY DEF LoopOK
    <3> HIDE DEF k
    <3> QED
      BY <3>1, <3>2
  <2> QED
    BY <1>2, <2>1, Removal
<1> QED
  BY <1>1, <1>2

(* The poll set without the entry of h.                                        *)
LEMMA EntryRemoved ==
  ASSUME LoopOK, ServersOK, NEW h, NEW k, Removes(h, k)
  PROVE  /\ ps' \in Seq(Entries)
         /\ \A j \in DOMAIN ps : ps[j].fd # h.fd => \E m \in DOMAIN ps' : ps'[m] = ps[j]
         /\ \E old \in [DOMAIN ps' -> DOMAIN ps \ {k}] :
              /\ \A m \in DOMAIN ps' : ps'[m] = ps[old[m]] /\ m <= old[m]
              /\ \A m, n \in DOMAIN ps' : old[m] = old[n] => m = n
<1>1. /\ ps \in Seq(Entries) /\ Len(ps) \in Nat /\ DOMAIN ps = 1 .. Len(ps)
      /\ k \in 1 .. Len(ps) /\ ps[k].fd = h.fd /\ ps' = RemoveAt(ps, k)
  BY LenProperties DEF LoopOK, Removes
<1>2. /\ ps' \in Seq(Entries) /\ Len(ps') = Len(ps) - 1
      /\ \A j \in 1 .. Len(ps) - 1 : ps'[j] = IF j < k THEN ps[j] ELSE ps[j + 1]
  BY <1>1, RemoveAtProperties
<1>3. DOMAIN ps' = 1 .. Len(ps) - 1
  BY <1>2, LenProperties
<1>4. ASSUME NEW j \in DOMAIN ps, ps[j].fd # h.fd
      PROVE  \E m \in DOMAIN ps' : ps'[m] = ps[j]
  <2>1. j # k /\ j \in Nat /\ k \in Nat
    BY <1>1, <1>4
  <2>2. CASE j < k
    <3>1. j \in 1 .. Len(ps) - 1
      BY <1>1, <2>1, <2>2
    <3> QED
      BY <1>2, <1>3, <2>2, <3>1
  <2>3. CASE j > k
    <3>1. j - 1 \in 1 .. Len(ps) - 1 /\ ~(j - 1 < k) /\ (j - 1) + 1 = j
      BY <1>1, <2>1, <2>3
    <3>2. ps'[j - 1] = ps[(j - 1) + 1]
      BY <1>2, <3>1
    <3> QED
      BY <1>3, <3>1, <3>2
  <2> QED
    BY <2>1, <2>2, <2>3
<1>5. \E old \in [DOMAIN ps' -> DOMAIN ps \ {k}] :
        /\ \A m \in DOMAIN ps' : ps'[m] = ps[old[m]] /\ m <= old[m]
        /\ \A m, n \in DOMAIN ps' : old[m] = old[n] => m = n
  <2> DEFINE old == [m \in 1 .. Len(ps) - 1 |-> IF m < k THEN m ELSE m + 1]
  <2>1. \A m \in 1 .. Len(ps) - 1 : /\ m < k => old[m] = m
                                    /\ ~(m < k) => old[m] = m + 1
    OBVIOUS
  <2>2. old = [m \in DOMAIN old |-> old[m]] /\ DOMAIN old = 1 .. Len(ps) - 1
    OBVIOUS
  <2> HIDE DEF old
  <2>3. \A m \in 1 .. Len(ps) - 1 : old[m] \in (1 .. Len(ps)) \ {k} /\ m <= old[m]
    BY <1>1, <2>1
  <2>4. \A m, n \in 1 .. Len(ps) - 1 : old[m] = old[n] => m = n
    BY <1>1, <2>1
  <2>5. \A m \in 1 .. Len(ps) - 1 : ps'[m] = ps[old[m]]
    BY <1>2, <2>1
  <2>6. old \in [DOMAIN ps' -> DOMAIN ps \ {k}]
    BY <1>1, <1>3, <2>2, <2>3
  <2> QED
    BY <1>3, <2>3, <2>4, <2>5, <2>6
<1> QED
  BY <1>2, <1>4, <1>5

(* What a handler to be removed is, and what its removal closes.               *)
LEMMA RemovedHandler ==
  ASSUME Base, NEW h, NEW k, Removes(h, k)
  PROVE  /\ h.fd \in DOMAIN ios /\ h.fd \in Fds /\ h = ios[h.fd] /\ h.kind \in HandlerKinds
         /\ ClosedBy(h) \subseteq Fds
         /\ HungUp(h) => /\ ctrl_.fd \in DOMAIN ios /\ ios[ctrl_.fd] = ctrl_ /\ ctrl_.fd \in Fds
                         /\ ctrl_.kind = "Control_channel" /\ ctrl_.fd # h.fd
         /\ \A fd \in ClosedBy(h) : fds[fd] \in Sockets => fd = h.fd
<1>1. PICK fd \in DOMAIN ios : h = ios[fd]
  BY DEF Removes, Base, LoopOK, Range
<1>2. h.fd \in DOMAIN ios /\ h.fd \in Fds /\ h = ios[h.fd] /\ h.kind \in HandlerKinds
  BY <1>1, HandlerAt DEF Base
<1>3. ASSUME HungUp(h)
      PROVE  /\ ctrl_.fd \in DOMAIN ios /\ ios[ctrl_.fd] = ctrl_ /\ ctrl_.fd \in Fds
             /\ ctrl_.kind = "Control_channel" /\ ctrl_.fd # h.fd
             /\ fds[ctrl_.fd] \notin Sockets
  <2>1. /\ ctrl_.fd \in DOMAIN ios /\ ios[ctrl_.fd] = ctrl_
        /\ ctrl_.fd \in Fds /\ ctrl_.kind = "Control_channel" /\ h.kind = "Switch_channel"
    BY <1>3 DEF HungUp, Base, HandlersOK, LoopOK
  <2> QED
    BY <1>2, <2>1 DEF Base, HandlersOK, Sockets
<1> QED
  BY <1>2, <1>3 DEF ClosedBy

(* Base holds after a removal: the descriptors it closes, with the connections *)
(* waiting at a server socket, leave all tables together.                      *)
LEMMA BaseRemoves ==
  ASSUME Base, NEW h, NEW k, Removes(h, k)
  PROVE  Base'
<1>0. /\ ios' = [fd \in DOMAIN ios \ {h.fd} |-> ios[fd]]
      /\ rm' = rm \ {h} /\ h \in rm
      /\ fds' = FdsWithout(ClosedBy(h)) /\ mgrEnd' = EndsWithout(ClosedBy(h))
      /\ backlog' = [s \in Sockets |-> IF fds[h.fd] = s THEN <<>> ELSE backlog[s]]
      /\ down' = IF HungUp(h) THEN Delivered(ctrl_.fd, "switch down") ELSE down
      /\ ctrl_' = IF h.kind = "Control_channel" THEN Null ELSE ctrl_
      /\ switch_' = IF h.kind = "Switch_channel" THEN Null ELSE switch_
      /\ UNCHANGED <<up, phase, i, procs>> /\ phase = "scan" /\ Ready = {}
  BY DEF Removes
<1>1. /\ h.fd \in DOMAIN ios /\ h.fd \in Fds /\ h = ios[h.fd] /\ h.kind \in HandlerKinds
      /\ ClosedBy(h) \subseteq Fds /\ h.fd \in ClosedBy(h)
      /\ HungUp(h) => /\ ctrl_.fd \in DOMAIN ios /\ ios[ctrl_.fd] = ctrl_ /\ ctrl_.fd \in Fds
                      /\ ctrl_.kind = "Control_channel" /\ ctrl_.fd # h.fd
      /\ \A fd \in ClosedBy(h) : fds[fd] \in Sockets => fd = h.fd
  BY RemovedHandler DEF ClosedBy
<1>2. backlog' = [s \in Sockets |-> IF \E fd \in ClosedBy(h) : fds[fd] = s THEN <<>> ELSE backlog[s]]
  <2>1. \A s \in Sockets : (\E fd \in ClosedBy(h) : fds[fd] = s) <=> fds[h.fd] = s
    BY <1>1
  <2> QED
    BY <1>0, <2>1
<1>3. /\ down' \in [Peers -> Seq(Messages)]
      /\ \A q \in Peers : down'[q] = down[q] \/ mgrEnd[q] = "open"
  <2>1. CASE HungUp(h)
    <3>1. "switch down" \in Messages /\ down' = Delivered(ctrl_.fd, "switch down") /\ ctrl_.fd \in Fds
      BY <1>0, <1>1, <2>1 DEF Messages
    <3>2. PICK fd \in Fds, msg \in Messages : down' = Delivered(fd, msg)
      BY <3>1
    <3>3. /\ Delivered(fd, msg) \in [Peers -> Seq(Messages)]
          /\ \A q \in Peers : Delivered(fd, msg)[q] = down[q] \/ mgrEnd[q] = "open"
      BY DeliveredTo DEF Base
    <3> QED
      BY <3>2, <3>3
  <2>2. CASE ~HungUp(h)
    BY <1>0, <2>2 DEF Base, KernelOK
  <2> QED
    BY <2>1, <2>2
<1>4. /\ EndsOK'
      /\ fds' \in [Fds -> Sockets \cup Peers \cup {Null}]
      /\ backlog' \in [Sockets -> Seq(Peers)]
      /\ mgrEnd' \in [Peers -> {"none", "queued", "open", "closed"}]
      /\ \A fd \in Fds : fds'[fd] = IF fd \in ClosedBy(h) THEN Null ELSE fds[fd]
  <2>1. UNCHANGED proc /\ \A q \in Peers : down'[q] = down[q] \/ mgrEnd[q] \notin {"none", "queued"}
    BY <1>0, <1>3 DEF procs
  <2> QED
    BY <1>0, <1>1, <1>2, <2>1, CloseEnds DEF Base
<1>5. KernelOK' /\ ProcsOK'
  BY <1>0, <1>3, <1>4 DEF Base, KernelOK, ProcsOK, procs
<1>6. /\ ps' \in Seq(Entries)
      /\ \A j \in DOMAIN ps : ps[j].fd # h.fd => \E m \in DOMAIN ps' : ps'[m] = ps[j]
  BY EntryRemoved DEF Base
<1>7. /\ DOMAIN ios' = DOMAIN ios \ {h.fd}
      /\ \A fd \in DOMAIN ios' : ios'[fd] = ios[fd] /\ fd \in Fds /\ fd # h.fd
                                 /\ ios[fd].fd = fd /\ ios[fd] # Null /\ ios[fd] # h
  <2>1. DOMAIN ios' = DOMAIN ios \ {h.fd} /\ \A fd \in DOMAIN ios' : ios'[fd] = ios[fd] /\ fd # h.fd
    BY <1>0
  <2>2. \A fd \in DOMAIN ios : fd \in Fds /\ ios[fd].fd = fd /\ ios[fd] # Null
    BY HandlerAt DEF Base
  <2> QED
    BY <2>1, <2>2
<1>8. LoopOK'
  <2>1. rm' \subseteq Range(ios')
    <3> SUFFICES ASSUME NEW g \in rm, g # h
                 PROVE  g \in Range(ios')
      BY <1>0
    <3>1. PICK fd \in DOMAIN ios : g = ios[fd]
      BY DEF Base, LoopOK, Range
    <3>2. fd # h.fd
      BY <1>1, <3>1
    <3> QED
      BY <1>7, <3>1, <3>2 DEF Range
  <2>2. ctrl_' \in {ctrl_, Null} /\ switch_' \in {switch_, Null}
    BY <1>0
  <2> QED
    BY <1>0, <1>6, <1>7, <2>1, <2>2 DEF Base, LoopOK
<1>9. HandlersOK'
  <2>1. DOMAIN ios' \subseteq {ps'[m].fd : m \in DOMAIN ps'}
    BY <1>6, <1>7 DEF Base, HandlersOK
  <2>2. \A fd \in DOMAIN ios' : ios'[fd].kind = "Control_channel" <=> ios'[fd] = ctrl_'
    <3> SUFFICES ASSUME NEW fd \in DOMAIN ios'
                 PROVE  ios[fd].kind = "Control_channel" <=> ios[fd] = ctrl_'
      BY <1>7
    <3>1. ios[fd].kind = "Control_channel" <=> ios[fd] = ctrl_
      BY <1>7 DEF Base, HandlersOK
    <3>2. h.kind = "Control_channel" => h = ctrl_
      BY <1>1 DEF Base, HandlersOK
    <3> QED
      BY <1>0, <1>7, <3>1, <3>2
  <2>3. ctrl_' # Null => ctrl_'.fd \in DOMAIN ios' /\ ios'[ctrl_'.fd] = ctrl_'
    <3> SUFFICES ASSUME ctrl_' # Null
                 PROVE  ctrl_'.fd \in DOMAIN ios' /\ ios'[ctrl_'.fd] = ctrl_'
      OBVIOUS
    <3>1. ctrl_' = ctrl_ /\ h.kind # "Control_channel"
      BY <1>0
    <3>2. ctrl_.fd \in DOMAIN ios /\ ios[ctrl_.fd] = ctrl_ /\ ctrl_.kind = "Control_channel"
      BY <3>1 DEF Base, HandlersOK, LoopOK
    <3> QED
      BY <1>1, <1>7, <3>1, <3>2
  <2>4. \A fd \in DOMAIN ios' :
          ios'[fd].kind = "Switch_channel" => ios'[fd] = switch_' /\ fds'[fd] \in Switches
    <3> SUFFICES ASSUME NEW fd \in DOMAIN ios', ios[fd].kind = "Switch_channel"
                 PROVE  ios[fd] = switch_' /\ fds'[fd] \in Switches
      BY <1>7
    <3>1. ios[fd] = switch_ /\ fds[fd] \in Switches
      BY <1>7 DEF Base, HandlersOK
    <3>2. h.kind # "Switch_channel"
      BY <1>1, <1>7, <3>1 DEF Base, HandlersOK
    <3>3. fd \notin ClosedBy(h)
      BY <1>7, <3>2 DEF ClosedBy, HungUp
    <3> QED
      BY <1>0, <1>4, <1>7, <3>1, <3>2, <3>3
  <2>5. ASSUME NEW fd \in Fds, NEW s \in Sockets
        PROVE  fds'[fd] = s <=> fds[fd] = s /\ fd # h.fd
    <3>1. s # Null
      BY ProcessAssumption DEF Sockets
    <3> QED
      BY <1>1, <1>4, <3>1
  <2>6. ASSUME NEW fd \in Fds
        PROVE  /\ fds'[fd] = "control_socket" <=> fd \in DOMAIN ios' /\ ios'[fd].kind = "Control_server"
               /\ fds'[fd] = "switch_socket" <=> fd \in DOMAIN ios' /\ ios'[fd].kind = "Switch_server"
    <3>1. /\ fds'[fd] = "control_socket" <=> fds[fd] = "control_socket" /\ fd # h.fd
          /\ fds'[fd] = "switch_socket" <=> fds[fd] = "switch_socket" /\ fd # h.fd
      BY <2>5 DEF Sockets
    <3>2. /\ fds[fd] = "control_socket" <=> fd \in DOMAIN ios /\ ios[fd].kind = "Control_server"
          /\ fds[fd] = "switch_socket" <=> fd \in DOMAIN ios /\ ios[fd].kind = "Switch_server"
      BY DEF Base, HandlersOK
    <3> QED
      BY <1>7, <3>1, <3>2
  <2> QED
    BY <2>1, <2>2, <2>3, <2>4, <2>6 DEF HandlersOK
<1>10. ServersOK'
  <2>1. PICK old \in [DOMAIN ps' -> DOMAIN ps \ {k}] :
              /\ \A m \in DOMAIN ps' : ps'[m] = ps[old[m]] /\ m <= old[m]
              /\ \A m, n \in DOMAIN ps' : old[m] = old[n] => m = n
    BY EntryRemoved DEF Base
  <2>2. ps \in Seq(Entries) /\ DOMAIN ps = 1 .. Len(ps) /\ Len(ps) \in Nat /\ i \in Nat
    BY LenProperties DEF Base, LoopOK
  <2>3. \A fd \in Fds : fds'[fd] \in Sockets => fds[fd] \in Sockets
    BY <1>4, ProcessAssumption DEF Sockets
  <2>4. \A m \in DOMAIN ps' : old[m] \in DOMAIN ps /\ ps[old[m]].fd \in Fds
    BY <2>1, <2>2, EntryAt
  <2>5. ASSUME NEW m \in DOMAIN ps', NEW n \in DOMAIN ps',
               fds'[ps'[m].fd] \in Sockets, ps'[m].fd = ps'[n].fd
        PROVE  m = n
    <3>1. fds[ps[old[m]].fd] \in Sockets /\ ps[old[m]].fd = ps[old[n]].fd
      BY <2>1, <2>3, <2>4, <2>5
    <3>2. old[m] = old[n]
      BY <2>4, <3>1 DEF Base, ServersOK
    <3> QED
      BY <2>1, <3>2
  <2>6. ASSUME NEW m \in Ready'
        PROVE  ps'[m].ready = FALSE
    <3>1. DOMAIN ps' = 1 .. Len(ps') /\ Len(ps') \in Nat
      BY <1>6, LenProperties
    <3>2. m \in i' .. Len(ps') /\ i' = i
      BY <1>0 DEF Ready
    <3>3. m \in DOMAIN ps' /\ i <= m /\ m \in Nat
      <4>1. i \in Nat /\ Len(ps') \in Nat
        BY <2>2, <3>1
      <4>2. i \in Nat \ {0}
        BY DEF Base, LoopOK
      <4>3. m \in i .. Len(ps')
        BY <3>2
      <4>4. m \in 1 .. Len(ps') /\ i <= m /\ m \in Nat
        BY ONLY <4>1, <4>2, <4>3
      <4> QED
        BY <3>1, <4>4
    <3>4. ps'[m] = ps[old[m]] /\ m <= old[m] /\ old[m] \in 1 .. Len(ps)
      BY <2>1, <2>2, <2>4, <3>3
    <3>5. old[m] \in i .. Len(ps)
      BY <2>2, <3>3, <3>4
    <3>6. ~ps[old[m]].ready
      BY <1>0, <3>5 DEF Ready
    <3>7. ps[old[m]].ready \in BOOLEAN
      BY <2>2, <3>4, EntryAt
    <3> QED
      BY <3>4, <3>6, <3>7
  <2> QED
    BY <2>5, <2>6 DEF ServersOK
<1> QED
  BY <1>4, <1>5, <1>8, <1>9, <1>10 DEF Base

(* Base holds after a removal, whether it succeeds or not.                     *)
LEMMA BaseUnregister == \A h : Base /\ unregister_handler(h) => Base'
<1> SUFFICES ASSUME NEW h, Base, unregister_handler(h)
             PROVE  Base'
  OBVIOUS
<1>1. CASE Crash
  BY <1>1, ExitBase DEF Crash
<1>2. CASE \E k : Removes(h, k)
  BY <1>2, BaseRemoves
<1> QED
  BY <1>1, <1>2, RemovalCases DEF Base

-----------------------------------------------------------------------------
(* Base is an invariant. *)

(* Base holds after every step.                                                *)
LEMMA BaseNext == Base /\ [Next]_vars => Base'
<1> SUFFICES ASSUME Base, [Next]_vars
             PROVE  Base'
  OBVIOUS
<1>1. CASE poll
  BY <1>1, BasePoll
<1>2. CASE process_events
  BY <1>2, BaseEvents
<1>3. CASE \E h \in rm : unregister_handler(h)
  BY <1>3, BaseUnregister
<1>4. CASE reset
  BY <1>4, BaseReset
<1>5. CASE signal_handler
  BY <1>5, ExitBase DEF signal_handler, Crash
<1>6. CASE \E c \in Clients : flowctl_connect(c) \/ flowctl_send(c) \/ flowctl_recv(c) \/ kill(c)
  BY <1>6, BaseClient
<1>7. CASE \E s \in Switches : \/ flowpath_open(s) \/ fp_mgr_incoming(s)
                               \/ fp_mgr_incoming_closed(s) \/ flowpath_exit(s)
  BY <1>7, BaseSwitch
<1>8. CASE UNCHANGED vars
  BY <1>8 DEF vars, kernel, loop, procs, Base, KernelOK, ProcsOK, LoopOK, EndsOK, HandlersOK, ServersOK, Ready
<1> QED
  BY <1>1, <1>2, <1>3, <1>4, <1>5, <1>6, <1>7, <1>8 DEF Next, Mgr

(* Whatever the environment does, flowmgr's tables have their types, a         *)
(* connection has one end and one descriptor, a handler in the map is polled,  *)
(* and each handler but that of a flowctl channel sits on a descriptor of its  *)
(* own kind (main.cpp:92-120).                                                 *)
THEOREM BaseInvariant == Spec => []Base
<1>1. Init => Base
  BY BaseInit
<1>2. Base /\ [Next]_vars => Base'
  BY BaseNext
<1> QED
  BY <1>1, <1>2, PTL DEF Spec

-----------------------------------------------------------------------------

(* What the steps of flowmgr change, descriptor by descriptor and peer by peer *)

(* When flowmgr ends, every connection is closed and nobody's data changes.    *)
LEMMA ExitStep ==
  ASSUME Base, NEW how, Exit(how)
  PROVE  /\ \A q \in Peers : mgrEnd'[q] \in {mgrEnd[q], "closed"}
         /\ \A q \in Peers : mgrEnd'[q] \notin {"open", "queued"}
         /\ \A fd \in Fds : fds'[fd] = Null
         /\ UNCHANGED <<up, down, procs>>
         /\ ctrl_' = Null /\ switch_' = Null /\ phase' = how
<1>1. backlog' = [s \in Sockets |-> IF \E fd \in Fds : fds[fd] = s THEN <<>> ELSE backlog[s]]
  BY DEF Base, Exit, EndsOK, KernelOK
<1>2. /\ EndsOK' /\ \A q \in Peers : mgrEnd'[q] \in {mgrEnd[q], "closed"}
      /\ \A fd \in Fds : fds'[fd] = Null
  BY <1>1, CloseEnds DEF Base, Exit, procs
<1>3. ASSUME NEW q \in Peers
      PROVE  mgrEnd'[q] \notin {"open", "queued"}
  <2>1. q # Null
    BY ProcessAssumption
  <2>2. mgrEnd'[q] # "open"
    BY <1>2, <2>1 DEF EndsOK
  <2>3. backlog'[Socket(q)] = <<>>
    BY PeerSocket DEF Exit
  <2>4. mgrEnd'[q] # "queued"
    BY <1>2, <2>3, ToSetEmpty DEF EndsOK
  <2> QED
    BY <2>2, <2>4
<1> QED
  BY <1>2, <1>3 DEF Exit

(* The connection p is accepted at sd.                                         *)
Opens(p, sd) ==
  /\ p \in Peers /\ sd \in Fds /\ mgrEnd[p] = "queued" /\ fds[sd] = Null
  /\ fds'[sd] = p /\ \A fd \in Fds \ {sd} : fds'[fd] = fds[fd]
  /\ mgrEnd'[p] = "open" /\ \A q \in Peers \ {p} : mgrEnd'[q] = mgrEnd[q]
  /\ UNCHANGED <<up, procs, phase>>

(* A channel for it is registered.                                             *)
Registers(ch, sd) ==
  /\ ch.fd = sd /\ DOMAIN ios' = DOMAIN ios \cup {sd}
  /\ \A fd \in DOMAIN ios : ios'[fd] = ios[fd]
  /\ sd \notin DOMAIN ios => ios'[sd] = ch
  /\ ps' = Append(ps, [fd |-> sd, ready |-> FALSE])

(* What the flowctl server changes: it accepts, and keeps the connection       *)
(* without a channel when there is one already.                                *)
LEMMA ControlServerStep ==
  ASSUME Base, NEW h, Dispatch(h), h.kind = "Control_server", Control_server_on_input(h),
         ~accept_failed(h)
  PROVE  \E p \in Clients, sd \in Fds :
           /\ Opens(p, sd) /\ UNCHANGED switch_
           /\ \/ ctrl_ # Null /\ rm' = rm \cup {h} /\ UNCHANGED <<ps, ios, ctrl_, down>>
              \/ LET ch == Handler("Control_channel", sd)
                 IN  /\ ctrl_ = Null /\ ctrl_' = ch /\ sd \notin DOMAIN ios /\ Registers(ch, sd)
                     /\ UNCHANGED rm
                     /\ down' = IF switch_ = Null
                                THEN [down EXCEPT ![p] = Append(@, "no switch")] ELSE down
<1> SUFFICES ASSUME NEW s, s = "control_socket", NEW p, p = Head(backlog[s]), NEW sd, sd = LowestFree
             PROVE  /\ p \in Clients /\ sd \in Fds
                    /\ Opens(p, sd) /\ UNCHANGED switch_
                    /\ \/ ctrl_ # Null /\ rm' = rm \cup {h} /\ UNCHANGED <<ps, ios, ctrl_, down>>
                       \/ LET ch == Handler("Control_channel", sd)
                          IN  /\ ctrl_ = Null /\ ctrl_' = ch /\ sd \notin DOMAIN ios /\ Registers(ch, sd)
                              /\ UNCHANGED rm
                              /\ down' = IF switch_ = Null
                                         THEN [down EXCEPT ![p] = Append(@, "no switch")] ELSE down
  OBVIOUS
<1> DEFINE ch == Handler("Control_channel", sd)
<1>1. /\ h.fd \in DOMAIN ios /\ fds[h.fd] = s /\ s \in Sockets /\ UNCHANGED procs
      /\ Next_i \in Nat \ {0} /\ i' = Next_i + 1
  BY Dispatched DEF Base, HandlersOK, Sockets
<1>2. /\ UNCHANGED <<up, switch_, phase>>
      /\ fds' = [fds EXCEPT ![sd] = p]
      /\ mgrEnd' = [mgrEnd EXCEPT ![p] = "open"]
      /\ backlog' = [backlog EXCEPT ![s] = Tail(@)]
      /\ \/ ctrl_ # Null /\ rm' = rm \cup {h} /\ UNCHANGED <<ps, ios, ctrl_, down>>
         \/ /\ ctrl_ = Null /\ ctrl_' = ch /\ register_handler(ch) /\ rm' = rm
            /\ down' = IF switch_ = Null
                       THEN [down EXCEPT ![p] = Append(@, "no switch")] ELSE down
  BY DEF Control_server_on_input, Accepted, Close, Keep
<1>3. Accepts(s, p, sd)
  <2>1. DOMAIN ios \subseteq DOMAIN ios' /\ ps' \in {ps, Append(ps, [fd |-> sd, ready |-> FALSE])}
    BY <1>2 DEF register_handler, Inserted, Handler
  <2>2. down' = down \/ \E msg \in Messages : down' = [down EXCEPT ![p] = Append(@, msg)]
    BY <1>2 DEF Messages
  <2> QED
    BY <1>2, <2>1, <2>2 DEF Accepts
<1>4. /\ p \in Peers /\ Socket(p) = s /\ mgrEnd[p] = "queued" /\ sd \in Fds /\ fds[sd] = Null
      /\ fds'[sd] = p /\ \A fd \in Fds \ {sd} : fds'[fd] = fds[fd]
  BY <1>1, <1>3, AcceptBase
<1>5. p \in Clients
  BY <1>4 DEF Socket
<1>6. Opens(p, sd)
  BY <1>1, <1>2, <1>4 DEF Opens, Base, KernelOK
<1>7. CASE ctrl_ # Null /\ rm' = rm \cup {h} /\ UNCHANGED <<ps, ios, ctrl_, down>>
  BY <1>2, <1>4, <1>5, <1>6, <1>7
<1>8. CASE /\ ctrl_ = Null /\ ctrl_' = ch /\ register_handler(ch) /\ rm' = rm
           /\ down' = IF switch_ = Null
                      THEN [down EXCEPT ![p] = Append(@, "no switch")] ELSE down
  <2>1. ch.fd = sd
    BY DEF Handler
  <2> HIDE DEF ch
  <2>2. sd \notin DOMAIN ios
    <3>1. i' \in Nat \ {0}
      BY <1>1
    <3> QED
      BY <1>2, <1>4, <1>8, <2>1, <3>1, Registered DEF ch
  <2>3. Registers(ch, sd)
    BY <1>8, <2>1 DEF Registers, register_handler, Inserted
  <2> QED
    BY <1>2, <1>4, <1>5, <1>6, <1>8, <2>2, <2>3 DEF ch
<1> QED
  BY <1>2, <1>7, <1>8

(* What the switch server changes.                                             *)
LEMMA SwitchServerStep ==
  ASSUME Base, NEW h, Dispatch(h), h.kind = "Switch_server", Switch_server_on_input(h),
         ~accept_failed(h)
  PROVE  \E p \in Switches, sd \in Fds :
           /\ Opens(p, sd) /\ UNCHANGED <<ctrl_, down>>
           /\ \/ switch_ # Null /\ rm' = rm \cup {h} /\ UNCHANGED <<ps, ios, switch_>>
              \/ LET ch == Handler("Switch_channel", sd)
                 IN  switch_ = Null /\ switch_' = ch /\ Registers(ch, sd) /\ UNCHANGED rm
<1> SUFFICES ASSUME NEW s, s = "switch_socket", NEW p, p = Head(backlog[s]), NEW sd, sd = LowestFree
             PROVE  /\ p \in Switches /\ sd \in Fds
                    /\ Opens(p, sd) /\ UNCHANGED <<ctrl_, down>>
                    /\ \/ switch_ # Null /\ rm' = rm \cup {h} /\ UNCHANGED <<ps, ios, switch_>>
                       \/ LET ch == Handler("Switch_channel", sd)
                          IN  switch_ = Null /\ switch_' = ch /\ Registers(ch, sd) /\ UNCHANGED rm
  OBVIOUS
<1> DEFINE ch == Handler("Switch_channel", sd)
<1>1. /\ h.fd \in DOMAIN ios /\ fds[h.fd] = s /\ s \in Sockets /\ UNCHANGED procs
  BY Dispatched DEF Base, HandlersOK, Sockets
<1>2. /\ UNCHANGED <<up, down, ctrl_, phase>>
      /\ fds' = [fds EXCEPT ![sd] = p]
      /\ mgrEnd' = [mgrEnd EXCEPT ![p] = "open"]
      /\ backlog' = [backlog EXCEPT ![s] = Tail(@)]
      /\ \/ switch_ # Null /\ rm' = rm \cup {h} /\ UNCHANGED <<ps, ios, switch_>>
         \/ switch_ = Null /\ switch_' = ch /\ register_handler(ch) /\ rm' = rm
  BY DEF Switch_server_on_input, Close, Keep
<1>3. Accepts(s, p, sd)
  <2>1. DOMAIN ios \subseteq DOMAIN ios' /\ ps' \in {ps, Append(ps, [fd |-> sd, ready |-> FALSE])}
    BY <1>2 DEF register_handler, Inserted, Handler
  <2> QED
    BY <1>2, <2>1 DEF Accepts
<1>4. /\ p \in Peers /\ Socket(p) = s /\ mgrEnd[p] = "queued" /\ sd \in Fds /\ fds[sd] = Null
      /\ fds'[sd] = p /\ \A fd \in Fds \ {sd} : fds'[fd] = fds[fd]
  BY <1>1, <1>3, AcceptBase
<1>5. p \in Switches
  BY <1>4 DEF Socket, Peers
<1>6. Opens(p, sd)
  BY <1>1, <1>2, <1>4 DEF Opens, Base, KernelOK
<1>7. CASE switch_ # Null /\ rm' = rm \cup {h} /\ UNCHANGED <<ps, ios, switch_>>
  BY <1>2, <1>4, <1>5, <1>6, <1>7
<1>8. CASE switch_ = Null /\ switch_' = ch /\ register_handler(ch) /\ rm' = rm
  <2>1. ch.fd = sd
    BY DEF Handler
  <2> HIDE DEF ch
  <2>2. Registers(ch, sd)
    BY <1>8, <2>1 DEF Registers, register_handler, Inserted
  <2> QED
    BY <1>2, <1>4, <1>5, <1>6, <1>8, <2>2 DEF ch
<1> QED
  BY <1>2, <1>7, <1>8

(* What a removal changes in the kernel.                                       *)
LEMMA RemovesStep ==
  ASSUME Base, NEW h, NEW k, Removes(h, k)
  PROVE  /\ \A q \in Peers : mgrEnd'[q] \in {mgrEnd[q], "closed"}
         /\ \A fd \in Fds : fds'[fd] = IF fd \in ClosedBy(h) THEN Null ELSE fds[fd]
         /\ \A q \in Peers : mgrEnd'[q] = "open" <=> mgrEnd[q] = "open" /\ \A fd \in ClosedBy(h) : fds[fd] # q
         /\ UNCHANGED <<up, phase, procs>>
<1>1. /\ fds' = FdsWithout(ClosedBy(h)) /\ mgrEnd' = EndsWithout(ClosedBy(h))
      /\ backlog' = [s \in Sockets |-> IF fds[h.fd] = s THEN <<>> ELSE backlog[s]]
      /\ down' = IF HungUp(h) THEN Delivered(ctrl_.fd, "switch down") ELSE down
      /\ UNCHANGED <<up, phase, procs>>
  BY DEF Removes
<1>2. \A fd \in Fds : fds'[fd] = IF fd \in ClosedBy(h) THEN Null ELSE fds[fd]
  BY <1>1 DEF FdsWithout
<1>3. EndsOK' /\ ClosedBy(h) \subseteq Fds
  BY BaseRemoves, RemovedHandler DEF Base
<1>4. ASSUME NEW q \in Peers
      PROVE  mgrEnd'[q] = "open" <=> mgrEnd[q] = "open" /\ \A fd \in ClosedBy(h) : fds[fd] # q
  <2>1. q # Null
    BY ProcessAssumption
  <2>2. mgrEnd'[q] = "open" <=> \E fd \in Fds : fds'[fd] = q
    BY <1>3 DEF EndsOK
  <2>3. mgrEnd[q] = "open" <=> \E fd \in Fds : fds[fd] = q
    BY DEF Base, EndsOK
  <2>4. \A d, e \in Fds : fds[d] = q /\ fds[e] = q => d = e
    BY <2>1 DEF Base, EndsOK
  <2> QED
    BY <1>2, <1>3, <2>1, <2>2, <2>3, <2>4
<1>5. \A q \in Peers : mgrEnd'[q] \in {mgrEnd[q], "closed"}
  BY <1>1 DEF EndsWithout
<1> QED
  BY <1>1, <1>2, <1>4, <1>5

-----------------------------------------------------------------------------
(* Where a flowctl connects only to a flowmgr that has a running flowpath, and *)
(* a flowpath leaves only when no flowctl is there                             *)

SteadyFaults == Faults \cap {"no_switch", "switch_exit"} = {}

(* The poll set, the handler map and the channel pointers agree, in the middle *)
(* of a round as well.                                                         *)
TablesOK ==
  /\ \A j, k \in DOMAIN ps : ps[j].fd = ps[k].fd => j = k
  /\ \A k \in DOMAIN ps : ps[k].fd \in DOMAIN ios
  /\ ctrl_ # Null => fds[ctrl_.fd] \in Clients
  /\ switch_ # Null => switch_.fd \in DOMAIN ios /\ ios[switch_.fd] = switch_

QueuedClient == \E c \in Clients : mgrEnd[c] = "queued"

(* A flowctl, accepted or waiting, finds a switch channel, and a flowpath that *)
(* leaves finds no flowctl.  A switch channel is removed for one that left.    *)
NeededOK ==
  /\ switch_ # Null /\ proc[fds[switch_.fd]] = "gone" => ctrl_ = Null /\ ~QueuedClient
  /\ ctrl_ # Null \/ QueuedClient => switch_ # Null
  /\ \A h \in rm : h.kind = "Switch_channel" => proc[fds[h.fd]] = "gone"

Steady == TablesOK /\ NeededOK

(* Every handler in the map has an open descriptor.                            *)
LEMMA OpenHandlers ==
  ASSUME Base, TablesOK
  PROVE  \A fd \in DOMAIN ios :
           /\ fd \in Fds /\ fds[fd] # Null /\ ios[fd].fd = fd
           /\ ios[fd].kind = "Control_channel" => ios[fd] = ctrl_ /\ fds[fd] \in Clients
           /\ ios[fd].kind = "Switch_channel" => ios[fd] = switch_ /\ fds[fd] \in Switches
           /\ ios[fd].kind \in {"Control_server", "Switch_server"} => fds[fd] \in Sockets
<1> SUFFICES ASSUME NEW fd \in DOMAIN ios
             PROVE  /\ fd \in Fds /\ fds[fd] # Null /\ ios[fd].fd = fd
                    /\ ios[fd].kind = "Control_channel" => ios[fd] = ctrl_ /\ fds[fd] \in Clients
                    /\ ios[fd].kind = "Switch_channel" => ios[fd] = switch_ /\ fds[fd] \in Switches
                    /\ ios[fd].kind \in {"Control_server", "Switch_server"} => fds[fd] \in Sockets
  OBVIOUS
<1>1. fd \in Fds /\ ios[fd].fd = fd /\ ios[fd].kind \in HandlerKinds /\ ios[fd] # Null
  BY HandlerAt DEF Base
<1>2. ios[fd].kind = "Control_channel" => ios[fd] = ctrl_ /\ fds[fd] \in Clients
  BY <1>1 DEF Base, HandlersOK, TablesOK
<1>3. ios[fd].kind = "Switch_channel" => ios[fd] = switch_ /\ fds[fd] \in Switches
  BY DEF Base, HandlersOK
<1>4. ios[fd].kind \in {"Control_server", "Switch_server"} => fds[fd] \in Sockets
  BY <1>1 DEF Base, HandlersOK, Sockets
<1>5. Null \notin Sockets /\ Null \notin Peers
  BY ProcessAssumption DEF Sockets
<1>6. fds[fd] # Null
  BY <1>1, <1>2, <1>3, <1>4, <1>5 DEF HandlerKinds, Peers
<1> QED
  BY <1>1, <1>2, <1>3, <1>4, <1>6

(* The tables agree after a step that leaves them alone.                       *)
LEMMA SameTables ==
  ASSUME TablesOK, DOMAIN ps' = DOMAIN ps, \A k \in DOMAIN ps : ps'[k].fd = ps[k].fd,
         UNCHANGED <<ios, ctrl_, switch_>>, ctrl_ # Null => fds'[ctrl_.fd] = fds[ctrl_.fd]
  PROVE  TablesOK'
BY DEF TablesOK

(* The tables agree after a channel is registered.                             *)
LEMMA RegisteredTables ==
  ASSUME Base, TablesOK, NEW p \in Peers, NEW sd \in Fds, Opens(p, sd), NEW ch, Registers(ch, sd),
         \/ ctrl_' = ch /\ p \in Clients /\ UNCHANGED switch_
         \/ switch_' = ch /\ UNCHANGED ctrl_
  PROVE  TablesOK'
<1>1. sd \notin DOMAIN ios
  BY OpenHandlers DEF Opens
<1>2. /\ ch.fd = sd /\ DOMAIN ios' = DOMAIN ios \cup {sd} /\ ios'[sd] = ch
      /\ \A fd \in DOMAIN ios : ios'[fd] = ios[fd]
      /\ ps' = Append(ps, [fd |-> sd, ready |-> FALSE])
  BY <1>1 DEF Registers
<1>3. fds'[sd] = p /\ \A fd \in DOMAIN ios : fds'[fd] = fds[fd]
  BY <1>1, OpenHandlers DEF Opens
<1>4. ps \in Seq(Entries) /\ [fd |-> sd, ready |-> FALSE] \in Entries
  BY DEF Base, LoopOK, Entries
<1>5. /\ Len(ps) \in Nat /\ DOMAIN ps = 1 .. Len(ps) /\ DOMAIN ps' = 1 .. Len(ps) + 1
      /\ \A k \in DOMAIN ps : ps'[k] = ps[k]
      /\ ps'[Len(ps) + 1] = [fd |-> sd, ready |-> FALSE]
  BY <1>2, <1>4
<1>6. \A k \in DOMAIN ps : ps[k].fd \in DOMAIN ios /\ ps[k].fd # sd
  BY <1>1 DEF TablesOK
<1>7. \A k \in DOMAIN ps' : \/ k \in DOMAIN ps /\ ps'[k] = ps[k] /\ ps'[k].fd # sd
                            \/ k = Len(ps) + 1 /\ ps'[k].fd = sd
  BY <1>5, <1>6
<1>8. \A j, k \in DOMAIN ps' : ps'[j].fd = ps'[k].fd => j = k
  BY <1>7 DEF TablesOK
<1>9. \A k \in DOMAIN ps' : ps'[k].fd \in DOMAIN ios'
  BY <1>2, <1>6, <1>7
<1>10. ctrl_' # Null => fds'[ctrl_'.fd] \in Clients
  <2>1. ctrl_ # Null => ctrl_.fd \in DOMAIN ios /\ fds[ctrl_.fd] \in Clients
    BY DEF Base, HandlersOK, TablesOK
  <2>2. CASE ctrl_' = ch /\ p \in Clients
    BY <2>2, <1>2, <1>3
  <2>3. CASE ctrl_' = ctrl_
    BY <2>1, <2>3, <1>3
  <2> QED
    BY <2>2, <2>3
<1>11. switch_' # Null => switch_'.fd \in DOMAIN ios' /\ ios'[switch_'.fd] = switch_'
  <2>1. CASE switch_' = ch
    BY <2>1, <1>2
  <2>2. CASE switch_' = switch_
    BY <2>2, <1>2 DEF TablesOK
  <2> QED
    BY <2>1, <2>2
<1> QED
  BY <1>8, <1>9, <1>10, <1>11 DEF TablesOK

(* The tables agree after a removal that closes one descriptor.                *)
LEMMA RemovesTables ==
  ASSUME Base, TablesOK, NEW h, NEW k, Removes(h, k), ~HungUp(h)
  PROVE  TablesOK'
<1>1. /\ h.fd \in DOMAIN ios /\ h = ios[h.fd] /\ ClosedBy(h) = {h.fd}
      /\ DOMAIN ios' = DOMAIN ios \ {h.fd} /\ \A fd \in DOMAIN ios' : ios'[fd] = ios[fd]
      /\ k \in DOMAIN ps /\ ps[k].fd = h.fd
  <2>1. h.fd \in DOMAIN ios /\ h = ios[h.fd]
    BY RemovedHandler
  <2>2. ClosedBy(h) = {h.fd}
    BY DEF ClosedBy
  <2>3. ps \in Seq(Entries)
    BY DEF Base, LoopOK
  <2>4. DOMAIN ios' = DOMAIN ios \ {h.fd} /\ \A fd \in DOMAIN ios' : ios'[fd] = ios[fd]
    BY DEF Removes
  <2>5. k \in 1 .. Len(ps) /\ ps[k].fd = h.fd
    BY DEF Removes
  <2> QED
    BY <2>1, <2>2, <2>3, <2>4, <2>5
<1>2. PICK old \in [DOMAIN ps' -> DOMAIN ps \ {k}] :
        /\ \A m \in DOMAIN ps' : ps'[m] = ps[old[m]] /\ m <= old[m]
        /\ \A m, n \in DOMAIN ps' : old[m] = old[n] => m = n
  BY EntryRemoved DEF Base
<1>3. \A m \in DOMAIN ps' : old[m] \in DOMAIN ps /\ old[m] # k /\ ps'[m] = ps[old[m]]
  BY <1>2
<1>4. \A m, n \in DOMAIN ps' : ps'[m].fd = ps'[n].fd => m = n
  BY <1>2, <1>3 DEF TablesOK
<1>5. \A m \in DOMAIN ps' : ps'[m].fd \in DOMAIN ios'
  BY <1>1, <1>3 DEF TablesOK
<1>6. \A fd \in DOMAIN ios' : fds'[fd] = fds[fd]
  BY <1>1, RemovesStep, OpenHandlers
<1>7. ctrl_' # Null => fds'[ctrl_'.fd] \in Clients
  <2> SUFFICES ASSUME ctrl_' # Null PROVE fds'[ctrl_'.fd] \in Clients
    OBVIOUS
  <2>1. h.kind # "Control_channel" /\ ctrl_' = ctrl_
    BY DEF Removes
  <2>2. ctrl_.fd \in DOMAIN ios /\ ios[ctrl_.fd] = ctrl_ /\ ctrl_.kind = "Control_channel" /\ fds[ctrl_.fd] \in Clients
    BY <2>1 DEF Base, HandlersOK, LoopOK, TablesOK
  <2>3. ctrl_.fd # h.fd
    BY <2>1, <2>2, <1>1
  <2> QED
    BY <2>1, <2>2, <2>3, <1>1, <1>6
<1>8. switch_' # Null => switch_'.fd \in DOMAIN ios' /\ ios'[switch_'.fd] = switch_'
  <2> SUFFICES ASSUME switch_' # Null PROVE switch_.fd \in DOMAIN ios' /\ ios'[switch_.fd] = switch_
    BY DEF Removes
  <2>1. h.kind # "Switch_channel" /\ switch_' = switch_
    BY DEF Removes
  <2>2. switch_.fd \in DOMAIN ios /\ ios[switch_.fd] = switch_ /\ switch_.kind = "Switch_channel"
    BY <2>1 DEF TablesOK, Base, LoopOK
  <2>3. switch_.fd # h.fd
    BY <2>1, <2>2, <1>1
  <2> QED
    BY <2>2, <2>3, <1>1
<1> QED
  BY <1>4, <1>5, <1>7, <1>8 DEF TablesOK

(* The handlers to remove are in the map.                                      *)
LEMMA DoomedHandlers ==
  ASSUME Base, TablesOK
  PROVE  \A h \in rm : h.fd \in DOMAIN ios /\ ios[h.fd] = h /\ h.fd \in Fds /\ fds[h.fd] # Null
<1> SUFFICES ASSUME NEW h \in rm
             PROVE  h.fd \in DOMAIN ios /\ ios[h.fd] = h /\ h.fd \in Fds /\ fds[h.fd] # Null
  OBVIOUS
<1>1. PICK fd \in DOMAIN ios : h = ios[fd]
  BY DEF Base, LoopOK, Range
<1>2. h.fd = fd
  BY <1>1, HandlerAt DEF Base
<1> QED
  BY <1>1, <1>2, OpenHandlers

(* The switch channel sits on the open connection of a switch.                 *)
LEMMA SwitchAt ==
  ASSUME Base, TablesOK, switch_ # Null
  PROVE  /\ switch_.fd \in DOMAIN ios /\ switch_.fd \in Fds /\ ios[switch_.fd] = switch_
         /\ switch_.kind = "Switch_channel" /\ fds[switch_.fd] \in Switches /\ fds[switch_.fd] \in Peers
         /\ mgrEnd[fds[switch_.fd]] = "open"
<1>1. switch_.fd \in DOMAIN ios /\ ios[switch_.fd] = switch_ /\ switch_.kind = "Switch_channel"
  BY DEF TablesOK, Base, LoopOK
<1>2. switch_.fd \in Fds /\ fds[switch_.fd] \in Switches /\ fds[switch_.fd] \in Peers
  BY <1>1, OpenHandlers DEF Peers
<1> QED
  BY <1>1, <1>2 DEF Base, EndsOK

(* The flowctl channel sits on the open connection of a client.                *)
LEMMA ControlAt ==
  ASSUME Base, TablesOK, ctrl_ # Null
  PROVE  /\ ctrl_.fd \in DOMAIN ios /\ ctrl_.fd \in Fds /\ ios[ctrl_.fd] = ctrl_
         /\ ctrl_.kind = "Control_channel" /\ fds[ctrl_.fd] \in Clients /\ fds[ctrl_.fd] \in Peers
         /\ mgrEnd[fds[ctrl_.fd]] = "open"
<1>1. ctrl_.fd \in DOMAIN ios /\ ios[ctrl_.fd] = ctrl_ /\ ctrl_.kind = "Control_channel"
  BY DEF Base, HandlersOK, LoopOK
<1>2. ctrl_.fd \in Fds /\ fds[ctrl_.fd] \in Clients /\ fds[ctrl_.fd] \in Peers
  BY <1>1, OpenHandlers DEF Peers
<1> QED
  BY <1>1, <1>2 DEF Base, EndsOK

(* A removal closes only the descriptor of the handler.                        *)
LEMMA NoHangUp ==
  ASSUME Base, Steady, NEW h, NEW k, Removes(h, k)
  PROVE  ~HungUp(h) /\ ClosedBy(h) = {h.fd}
<1>1. h \in rm /\ h.fd \in DOMAIN ios /\ h = ios[h.fd]
  BY RemovedHandler DEF Removes
<1>2. ASSUME h.kind = "Switch_channel"
      PROVE  ctrl_ = Null
  <2>1. h = switch_ /\ proc[fds[h.fd]] = "gone"
    BY <1>1, <1>2 DEF Steady, NeededOK, Base, HandlersOK
  <2>2. switch_ # Null
    BY <1>1, <2>1, HandlerAt DEF Base
  <2> QED
    BY <2>1, <2>2 DEF Steady, NeededOK
<1> QED
  BY <1>2 DEF HungUp, ClosedBy

(* Who is needed stays while the map and the channels are as they were.        *)
LEMMA NeededKept ==
  ASSUME Base, Steady, UNCHANGED <<ios, ctrl_, switch_>>,
         \A fd \in Fds : fds[fd] # Null => fds'[fd] = fds[fd],
         \A s \in Switches : proc[s] = "gone" => proc'[s] = "gone",
         \A s \in Switches : \/ proc'[s] = proc[s] \/ proc'[s] # "gone" \/ mgrEnd[s] # "open"
                             \/ ctrl_ = Null /\ ~QueuedClient',
         QueuedClient' => QueuedClient \/ (switch_ # Null /\ proc'[fds[switch_.fd]] # "gone"),
         \A h \in rm' : h \in rm \/ (h.kind = "Switch_channel" =>
                                       h \in Range(ios) /\ proc[fds[h.fd]] = "gone")
  PROVE  NeededOK'
<1>1. switch_ # Null => /\ switch_.fd \in Fds /\ fds[switch_.fd] \in Switches
                        /\ fds'[switch_.fd] = fds[switch_.fd] /\ mgrEnd[fds[switch_.fd]] = "open"
  <2>1. Null \notin Switches
    BY ProcessAssumption DEF Peers
  <2> QED
    BY <2>1, SwitchAt DEF Steady
<1>2. switch_ # Null /\ proc'[fds[switch_.fd]] = "gone" => ctrl_ = Null /\ ~QueuedClient'
  <2> SUFFICES ASSUME switch_ # Null, proc'[fds[switch_.fd]] = "gone"
               PROVE  ctrl_ = Null /\ ~QueuedClient'
    OBVIOUS
  <2>1. CASE proc[fds[switch_.fd]] = "gone"
    BY <2>1 DEF Steady, NeededOK
  <2>2. CASE proc[fds[switch_.fd]] # "gone"
    BY <1>1, <2>2
  <2> QED
    BY <2>1, <2>2
<1>3. ctrl_ # Null \/ QueuedClient' => switch_ # Null
  BY DEF Steady, NeededOK
<1>4. ASSUME NEW h \in rm', h.kind = "Switch_channel"
      PROVE  proc'[fds'[h.fd]] = "gone"
  <2>1. h \in Range(ios) /\ proc[fds[h.fd]] = "gone"
    BY <1>4 DEF Base, LoopOK, Steady, NeededOK
  <2>2. PICK fd \in DOMAIN ios : h = ios[fd]
    BY <2>1 DEF Range
  <2>3. h.fd = fd
    BY <2>2, HandlerAt DEF Base
  <2>4. fds[fd] \in Switches /\ fd \in Fds /\ fds[fd] # Null
    BY <1>4, <2>2, OpenHandlers DEF Steady
  <2> QED
    BY <2>1, <2>3, <2>4
<1> QED
  BY <1>1, <1>2, <1>3, <1>4 DEF NeededOK

(* Steady holds at first.                                                      *)
LEMMA SteadyInit == Init => Steady
<1> SUFFICES ASSUME Init
             PROVE  Steady
  OBVIOUS
<1>1. rm = {} /\ ctrl_ = Null /\ switch_ = Null
  BY DEF Init
<1>2. /\ \A j, k \in DOMAIN ps : ps[j].fd = ps[k].fd => j = k
      /\ \A k \in DOMAIN ps : ps[k].fd \in DOMAIN ios
  <2>1. ps = <<[fd |-> 0, ready |-> FALSE], [fd |-> 1, ready |-> FALSE]>> /\ DOMAIN ios = {0, 1}
    BY DEF Init
  <2>2. DOMAIN ps = {1, 2} /\ ps[1].fd = 0 /\ ps[2].fd = 1
    BY <2>1
  <2> QED
    BY <2>1, <2>2
<1>3. \A c \in Clients : mgrEnd[c] = "none"
  BY DEF Init, Peers
<1> QED
  BY <1>1, <1>2, <1>3 DEF Steady, TablesOK, NeededOK, QueuedClient

(* It holds when flowmgr ends.                                                 *)
LEMMA SteadyExit ==
  ASSUME Base, NEW how, Exit(how)
  PROVE  Steady'
<1>1. /\ ctrl_' = Null /\ switch_' = Null /\ rm' = {} /\ ps' = <<>>
      /\ \A c \in Clients : mgrEnd'[c] # "queued"
  BY ExitStep DEF Exit, Peers
<1>2. DOMAIN ps' = {}
  BY <1>1
<1> QED
  BY <1>1, <1>2 DEF Steady, TablesOK, NeededOK, QueuedClient

(* It holds after a poll and when a round is over.                             *)
LEMMA SteadyRound == Base /\ Steady /\ (poll \/ reset) => Steady'
<1> SUFFICES ASSUME Base, Steady, poll \/ reset
             PROVE  Steady'
  OBVIOUS
<1>1. UNCHANGED <<fds, mgrEnd, ios, rm, ctrl_, switch_, proc>> /\ ps \in Seq(Entries)
  BY DEF poll, reset, kernel, procs, Base, LoopOK
<1>2. DOMAIN ps' = DOMAIN ps /\ \A k \in DOMAIN ps : ps'[k].fd = ps[k].fd
  <2>1. PICK R : R \in [DOMAIN ps -> BOOLEAN] /\ ps' = [k \in DOMAIN ps |-> [ps[k] EXCEPT !.ready = R[k]]]
    <3>1. CASE poll
      <4> DEFINE R == [k \in DOMAIN ps |-> Readable(ps[k].fd)]
      <4>1. R \in [DOMAIN ps -> BOOLEAN]
        BY DEF Readable
      <4>2. ps' = [k \in DOMAIN ps |-> [ps[k] EXCEPT !.ready = R[k]]]
        BY <3>1 DEF poll
      <4> QED
        BY <4>1, <4>2
    <3>2. CASE reset
      <4> DEFINE R == [k \in DOMAIN ps |-> FALSE]
      <4>1. R \in [DOMAIN ps -> BOOLEAN]
        OBVIOUS
      <4>2. ps' = [k \in DOMAIN ps |-> [ps[k] EXCEPT !.ready = R[k]]]
        BY <3>2 DEF reset
      <4> QED
        BY <4>1, <4>2
    <3> QED
      BY <3>1, <3>2
  <2> QED
    BY <1>1, <2>1, Marked
<1>3. TablesOK'
  BY <1>1, <1>2, SameTables DEF Steady
<1>4. QueuedClient' => QueuedClient
  BY <1>1 DEF QueuedClient
<1> QED
  BY <1>1, <1>3, <1>4, NeededKept DEF Steady

(* It holds after a connection is accepted, with or without a channel for it.  *)
LEMMA SteadyOpens ==
  ASSUME Base, Steady, NEW p \in Peers, NEW sd \in Fds, Opens(p, sd),
         NEW g \in Range(ios), g.kind # "Switch_channel",
         \/ rm' = rm \cup {g} /\ UNCHANGED <<ps, ios, ctrl_, switch_>>
         \/ \E ch : /\ Registers(ch, sd) /\ rm' = rm
                    /\ \/ p \in Clients /\ ctrl_ = Null /\ ctrl_' = ch /\ UNCHANGED switch_
                       \/ p \in Switches /\ switch_ = Null /\ switch_' = ch /\ UNCHANGED ctrl_
  PROVE  Steady'
<1>1. /\ mgrEnd[p] = "queued" /\ fds[sd] = Null
      /\ fds'[sd] = p /\ \A fd \in Fds \ {sd} : fds'[fd] = fds[fd]
      /\ mgrEnd'[p] = "open" /\ \A q \in Peers \ {p} : mgrEnd'[q] = mgrEnd[q]
      /\ UNCHANGED proc
  BY DEF Opens, procs
<1>2. /\ \A fd \in Fds : fds[fd] # Null => fds'[fd] = fds[fd]
      /\ \A c \in Clients : mgrEnd'[c] = "queued" => mgrEnd[c] = "queued"
  BY <1>1 DEF Peers
<1>3. QueuedClient' => QueuedClient
  BY <1>2 DEF QueuedClient
<1>4. Null \notin Clients
  BY ProcessAssumption DEF Peers
<1>5. CASE rm' = rm \cup {g} /\ UNCHANGED <<ps, ios, ctrl_, switch_>>
  <2>1. ctrl_ # Null => ctrl_.fd \in Fds /\ fds[ctrl_.fd] \in Clients
    BY ControlAt DEF Steady
  <2>2. ctrl_ # Null => fds'[ctrl_.fd] = fds[ctrl_.fd]
    BY <1>2, <1>4, <2>1
  <2>3. TablesOK'
    BY <1>5, <2>2, SameTables DEF Steady
  <2>4. NeededOK'
    BY <1>1, <1>2, <1>3, <1>5, NeededKept
  <2> QED
    BY <2>3, <2>4 DEF Steady
<1>6. ASSUME NEW ch, Registers(ch, sd), rm' = rm,
             p \in Clients, ctrl_ = Null, ctrl_' = ch, UNCHANGED switch_
      PROVE  Steady'
  <2>1. TablesOK'
    BY <1>6, RegisteredTables DEF Steady
  <2>2. QueuedClient
    BY <1>1, <1>6 DEF QueuedClient
  <2>3. switch_ # Null /\ proc[fds[switch_.fd]] # "gone"
    BY <2>2 DEF Steady, NeededOK
  <2>4. switch_.fd \in Fds /\ fds[switch_.fd] # Null
    BY <2>3, SwitchAt, ProcessAssumption DEF Steady
  <2>5. switch_' # Null /\ proc'[fds'[switch_'.fd]] # "gone"
    BY <1>1, <1>2, <1>6, <2>3, <2>4
  <2>6. ASSUME NEW h \in rm', h.kind = "Switch_channel"
        PROVE  proc'[fds'[h.fd]] = "gone"
    <3>1. proc[fds[h.fd]] = "gone" /\ h.fd \in Fds /\ fds[h.fd] # Null
      BY <1>6, <2>6, DoomedHandlers DEF Steady, NeededOK
    <3> QED
      BY <1>1, <1>2, <3>1
  <2> QED
    BY <2>1, <2>5, <2>6 DEF Steady, NeededOK
<1>7. ASSUME NEW ch, Registers(ch, sd), rm' = rm,
             p \in Switches, switch_ = Null, switch_' = ch, UNCHANGED ctrl_
      PROVE  Steady'
  <2>1. TablesOK'
    BY <1>7, RegisteredTables DEF Steady
  <2>2. ctrl_ = Null /\ ~QueuedClient
    BY <1>7 DEF Steady, NeededOK
  <2>3. ASSUME NEW h \in rm', h.kind = "Switch_channel"
        PROVE  proc'[fds'[h.fd]] = "gone"
    <3>1. proc[fds[h.fd]] = "gone" /\ h.fd \in Fds /\ fds[h.fd] # Null
      BY <1>7, <2>3, DoomedHandlers DEF Steady, NeededOK
    <3> QED
      BY <1>1, <1>2, <3>1
  <2> QED
    BY <1>3, <1>7, <2>1, <2>2, <2>3 DEF Steady, NeededOK
<1> QED
  BY <1>5, <1>6, <1>7

(* It holds when accept() fails.                                               *)
LEMMA SteadyAcceptFailed ==
  ASSUME Base, Steady, NEW h, Dispatch(h), h.kind # "Switch_channel", accept_failed(h)
  PROVE  Steady'
<1>1. UNCHANGED <<fds, mgrEnd, ps, ios, ctrl_, switch_>> /\ rm' = rm \cup {h} /\ UNCHANGED proc
  BY Dispatched DEF accept_failed, Close, kernel, procs
<1>2. TablesOK'
  BY <1>1, SameTables DEF Steady
<1>3. QueuedClient' => QueuedClient
  BY <1>1 DEF QueuedClient
<1> QED
  BY <1>1, <1>2, <1>3, NeededKept DEF Steady

(* It holds after a server is called.                                          *)
LEMMA SteadyControlServer ==
  ASSUME Base, Steady, NEW h, Dispatch(h), h.kind = "Control_server", Control_server_on_input(h),
         ~accept_failed(h)
  PROVE  Steady'
<1>1. PICK p \in Clients, sd \in Fds :
        /\ Opens(p, sd) /\ UNCHANGED switch_
        /\ \/ ctrl_ # Null /\ rm' = rm \cup {h} /\ UNCHANGED <<ps, ios, ctrl_, down>>
           \/ LET ch == Handler("Control_channel", sd)
              IN  /\ ctrl_ = Null /\ ctrl_' = ch /\ sd \notin DOMAIN ios /\ Registers(ch, sd)
                  /\ UNCHANGED rm
                  /\ down' = IF switch_ = Null
                             THEN [down EXCEPT ![p] = Append(@, "no switch")] ELSE down
  BY ControlServerStep
<1>2. p \in Peers /\ h \in Range(ios)
  BY Dispatched DEF Peers
<1> QED
  BY <1>1, <1>2, SteadyOpens

LEMMA SteadySwitchServer ==
  ASSUME Base, Steady, NEW h, Dispatch(h), h.kind = "Switch_server", Switch_server_on_input(h),
         ~accept_failed(h)
  PROVE  Steady'
<1>1. PICK p \in Switches, sd \in Fds :
        /\ Opens(p, sd) /\ UNCHANGED <<ctrl_, down>>
        /\ \/ switch_ # Null /\ rm' = rm \cup {h} /\ UNCHANGED <<ps, ios, switch_>>
           \/ LET ch == Handler("Switch_channel", sd)
              IN  switch_ = Null /\ switch_' = ch /\ Registers(ch, sd) /\ UNCHANGED rm
  BY SwitchServerStep
<1>2. p \in Peers /\ h \in Range(ios)
  BY Dispatched DEF Peers
<1> QED
  BY <1>1, <1>2, SteadyOpens

(* What the flowctl channel does: it notices that its flowctl is gone, or      *)
(* reads a command, which is too large, forwarded, rejected or ignored.        *)
LEMMA ControlChannelStep ==
  ASSUME Base, Steady, NEW h, Dispatch(h), h.kind = "Control_channel", Control_channel_on_input(h)
  PROVE  \E c \in Clients :
           /\ h = ctrl_ /\ fds[h.fd] = c /\ h.fd \in Fds /\ h.fd \in DOMAIN ios /\ mgrEnd[c] = "open"
           /\ UNCHANGED <<fds, backlog, mgrEnd, ps, ios, ctrl_, switch_, phase, procs>>
           /\ \/ proc[c] = "gone" /\ up[c] = <<>> /\ rm' = rm \cup {h} /\ UNCHANGED <<up, down>>
              \/ /\ up[c] # <<>> /\ up' = [up EXCEPT ![c] = Tail(@)]
                 /\ \/ rm' = rm \cup {h} /\ UNCHANGED down
                    \/ /\ UNCHANGED rm /\ ~Fatal(h)
                       /\ \/ /\ Outcome(cmd[up[c][1]]) = "forward"
                             /\ down' = Delivered(switch_.fd, up[c][1])
                          \/ Outcome(cmd[up[c][1]]) = "error" /\ down' = Delivered(h.fd, "rejected")
                          \/ Outcome(cmd[up[c][1]]) = "ignore" /\ UNCHANGED down
<1>1. /\ h.fd \in Fds /\ h.fd \in DOMAIN ios /\ h = ios[h.fd] /\ UNCHANGED procs
  BY Dispatched
<1>2. h = ctrl_ /\ fds[h.fd] \in Clients /\ fds[h.fd] \in Peers /\ mgrEnd[fds[h.fd]] = "open"
  <2>1. h = ctrl_ /\ h # Null
    BY <1>1, HandlerAt DEF Base, HandlersOK
  <2> QED
    BY <2>1, ControlAt DEF Steady
<1> DEFINE c == fds[h.fd]
<1>3. Data(h.fd) = up[c] /\ (AtEnd(h.fd) <=> up[c] = <<>> /\ proc[c] = "gone")
  BY <1>2 DEF Data, AtEnd
<1>4. UNCHANGED <<fds, backlog, mgrEnd, ps, ios, ctrl_, switch_, phase>>
  BY DEF Control_channel_on_input
<1>5. \/ proc[c] = "gone" /\ up[c] = <<>> /\ rm' = rm \cup {h} /\ UNCHANGED <<up, down>>
      \/ /\ up[c] # <<>> /\ up' = [up EXCEPT ![c] = Tail(@)]
         /\ \/ rm' = rm \cup {h} /\ UNCHANGED down
            \/ /\ UNCHANGED rm /\ ~Fatal(h)
               /\ \/ Outcome(cmd[up[c][1]]) = "forward" /\ down' = Delivered(switch_.fd, up[c][1])
                  \/ Outcome(cmd[up[c][1]]) = "error" /\ down' = Delivered(h.fd, "rejected")
                  \/ Outcome(cmd[up[c][1]]) = "ignore" /\ UNCHANGED down
  BY <1>3 DEF Control_channel_on_input, Close, Keep
<1> HIDE DEF c
<1> QED
  BY <1>1, <1>2, <1>4, <1>5 DEF c

(* What the switch channel does: it notices that its flowpath is gone, or      *)
(* passes a reply on.                                                          *)
LEMMA SwitchChannelStep ==
  ASSUME Base, Steady, NEW h, Dispatch(h), h.kind = "Switch_channel", Switch_channel_on_input(h)
  PROVE  \E s \in Switches :
           /\ h = switch_ /\ fds[h.fd] = s /\ h.fd \in Fds /\ h.fd \in DOMAIN ios /\ mgrEnd[s] = "open"
           /\ UNCHANGED <<fds, backlog, mgrEnd, ps, ios, ctrl_, switch_, phase, procs>>
           /\ \/ proc[s] = "gone" /\ rm' = rm \cup {h} /\ UNCHANGED <<up, down>>
              \/ /\ up[s] # <<>> /\ up' = [up EXCEPT ![s] = Tail(@)]
                 /\ UNCHANGED rm /\ ctrl_ # Null /\ ~Sigpipe(ctrl_.fd)
                 /\ down' = Delivered(ctrl_.fd, up[s][1])
<1>1. /\ h.fd \in Fds /\ h.fd \in DOMAIN ios /\ h = ios[h.fd] /\ UNCHANGED procs
  BY Dispatched
<1>2. h = switch_ /\ fds[h.fd] \in Switches /\ fds[h.fd] \in Peers /\ mgrEnd[fds[h.fd]] = "open"
  <2>1. h = switch_ /\ h # Null
    BY <1>1, HandlerAt DEF Base, HandlersOK
  <2> QED
    BY <2>1, SwitchAt DEF Steady
<1> DEFINE s == fds[h.fd]
<1>3. Data(h.fd) = up[s] /\ (AtEnd(h.fd) <=> up[s] = <<>> /\ proc[s] = "gone")
  BY <1>2 DEF Data, AtEnd
<1>4. UNCHANGED <<fds, backlog, mgrEnd, ps, ios, ctrl_, switch_, phase>>
  BY DEF Switch_channel_on_input
<1>5. ~Fatal(h) /\ up[s] # <<>> => ctrl_ # Null /\ ~Sigpipe(ctrl_.fd)
  BY <1>3 DEF Fatal
<1>6. \/ proc[s] = "gone" /\ rm' = rm \cup {h} /\ UNCHANGED <<up, down>>
      \/ /\ up[s] # <<>> /\ up' = [up EXCEPT ![s] = Tail(@)]
         /\ UNCHANGED rm /\ ctrl_ # Null /\ ~Sigpipe(ctrl_.fd)
         /\ down' = Delivered(ctrl_.fd, up[s][1])
  BY <1>3, <1>5 DEF Switch_channel_on_input, Close, Keep
<1> HIDE DEF s
<1> QED
  BY <1>1, <1>2, <1>4, <1>6 DEF s

(* Steady holds after a channel is called.                                     *)
LEMMA SteadyChannel ==
  ASSUME Base, Steady, NEW h, Dispatch(h),
         \/ h.kind = "Control_channel" /\ Control_channel_on_input(h)
         \/ h.kind = "Switch_channel" /\ Switch_channel_on_input(h)
  PROVE  Steady'
<1>1. /\ UNCHANGED <<fds, mgrEnd, ps, ios, ctrl_, switch_, procs>>
      /\ \/ rm' = rm
         \/ rm' = rm \cup {h} /\ (h.kind = "Switch_channel" => proc[fds[h.fd]] = "gone")
  BY ControlChannelStep, SwitchChannelStep
<1>2. h \in Range(ios)
  BY Dispatched
<1>3. TablesOK'
  BY <1>1, SameTables DEF Steady
<1>4. UNCHANGED proc /\ (QueuedClient' => QueuedClient)
  BY <1>1 DEF QueuedClient, procs
<1> QED
  BY <1>1, <1>2, <1>3, <1>4, NeededKept DEF Steady

(* Steady holds after every event.                                             *)
LEMMA SteadyEvents == Base /\ Steady /\ process_events => Steady'
<1> SUFFICES ASSUME Base, Steady, process_events
             PROVE  Steady'
  OBVIOUS
<1> DEFINE h == ios[ps[Next_i].fd]
<1>1. CASE Crash
  BY <1>1, SteadyExit DEF Crash
<1>2. CASE Dispatch(h) /\ Handled(h)
  <2> HIDE DEF h
  <2>1. CASE h.kind = "Control_server" /\ Control_server_on_input(h)
    BY <1>2, <2>1, SteadyAcceptFailed, SteadyControlServer
  <2>2. CASE h.kind = "Switch_server" /\ Switch_server_on_input(h)
    BY <1>2, <2>2, SteadyAcceptFailed, SteadySwitchServer
  <2>3. CASE \/ h.kind = "Control_channel" /\ Control_channel_on_input(h)
             \/ h.kind = "Switch_channel" /\ Switch_channel_on_input(h)
    BY <1>2, <2>3, SteadyChannel
  <2> QED
    BY <1>2, <2>1, <2>2, <2>3 DEF Handled
<1> QED
  BY <1>1, <1>2, EventCases

(* Steady holds after a removal.                                               *)
LEMMA SteadyRemoves ==
  ASSUME Base, Steady, NEW h, NEW k, Removes(h, k)
  PROVE  Steady'
<1>1. ~HungUp(h) /\ ClosedBy(h) = {h.fd}
  BY NoHangUp
<1>2. TablesOK'
  BY <1>1, RemovesTables DEF Steady
<1>3. /\ \A q \in Peers : mgrEnd'[q] \in {mgrEnd[q], "closed"}
      /\ \A fd \in Fds : fds'[fd] = IF fd = h.fd THEN Null ELSE fds[fd]
      /\ UNCHANGED proc
  BY <1>1, RemovesStep DEF procs
<1>4. QueuedClient' => QueuedClient
  BY <1>3 DEF QueuedClient, Peers
<1>5. /\ h \in rm /\ rm' = rm \ {h} /\ h.fd \in DOMAIN ios /\ h = ios[h.fd]
      /\ ctrl_' = IF h.kind = "Control_channel" THEN Null ELSE ctrl_
      /\ switch_' = IF h.kind = "Switch_channel" THEN Null ELSE switch_
  BY RemovedHandler DEF Removes
<1>6. ASSUME NEW g \in rm', g.kind = "Switch_channel"
      PROVE  proc'[fds'[g.fd]] = "gone"
  <2>1. g \in rm /\ g # h /\ ios[g.fd] = g /\ g.fd \in Fds /\ proc[fds[g.fd]] = "gone"
    BY <1>5, <1>6, DoomedHandlers DEF Steady, NeededOK
  <2>2. g.fd # h.fd
    BY <1>5, <2>1
  <2> QED
    BY <1>3, <2>1, <2>2
<1>7. CASE h.kind = "Switch_channel"
  <2>1. h = switch_ /\ proc[fds[h.fd]] = "gone" /\ switch_ # Null
    BY <1>5, <1>7, HandlerAt DEF Base, HandlersOK, Steady, NeededOK
  <2>2. ctrl_ = Null /\ ~QueuedClient
    BY <2>1 DEF Steady, NeededOK
  <2>3. ctrl_' = Null /\ switch_' = Null
    BY <1>5, <1>7, <2>2
  <2> QED
    BY <1>2, <1>4, <1>6, <2>2, <2>3 DEF Steady, NeededOK
<1>8. CASE h.kind # "Switch_channel"
  <2>1. switch_' = switch_ /\ (ctrl_' # Null => ctrl_ # Null)
    BY <1>5, <1>8
  <2>2. switch_ # Null => switch_.fd \in Fds /\ switch_.fd # h.fd
    BY <1>5, <1>8, SwitchAt DEF Steady
  <2>3. switch_ # Null => fds'[switch_.fd] = fds[switch_.fd]
    BY <1>3, <2>2
  <2>4. /\ switch_' # Null /\ proc'[fds'[switch_'.fd]] = "gone" => ctrl_' = Null /\ ~QueuedClient'
        /\ ctrl_' # Null \/ QueuedClient' => switch_' # Null
    BY <1>3, <1>4, <2>1, <2>3 DEF Steady, NeededOK
  <2> QED
    BY <1>2, <1>6, <2>4 DEF Steady, NeededOK
<1> QED
  BY <1>7, <1>8

LEMMA SteadyUnregister == \A h : Base /\ Steady /\ unregister_handler(h) => Steady'
<1> SUFFICES ASSUME NEW h, Base, Steady, unregister_handler(h)
             PROVE  Steady'
  OBVIOUS
<1>1. CASE Crash
  BY <1>1, SteadyExit DEF Crash
<1>2. CASE \E k : Removes(h, k)
  BY <1>2, SteadyRemoves
<1> QED
  BY <1>1, <1>2, RemovalCases DEF Base

(* Steady holds while flowmgr waits and others act.                            *)
LEMMA SteadyProcess ==
  ASSUME Base, Steady, UNCHANGED <<fds, loop>>,
         \A s \in Switches : \/ proc'[s] = proc[s] \/ (proc[s] # "gone" /\ proc'[s] # "gone")
                             \/ proc'[s] = "gone" /\ (mgrEnd[s] # "open" \/ (ctrl_ = Null /\ ~QueuedClient')),
         QueuedClient' => QueuedClient \/ (switch_ # Null /\ proc'[fds[switch_.fd]] # "gone")
  PROVE  Steady'
<1>1. UNCHANGED <<ps, ios, rm, ctrl_, switch_>>
  BY DEF loop
<1>2. TablesOK'
  BY <1>1, SameTables DEF Steady
<1>3. NeededOK'
  BY <1>1, NeededKept
<1> QED
  BY <1>2, <1>3 DEF Steady

(* Steady holds after a process connects.                                      *)
LEMMA SteadyConnect ==
  ASSUME Base, Steady, NEW p \in Peers, connect(p), p \in Clients => SwitchRuns
  PROVE  Steady'
<1>1. /\ UNCHANGED <<fds, loop>> /\ proc[p] = "new" /\ mgrEnd[p] = "none"
      /\ \A q \in Peers : q # p => proc'[q] = proc[q] /\ mgrEnd'[q] = mgrEnd[q]
      /\ mgrEnd'[p] # mgrEnd[p] => proc'[p] # "gone"
  BY DEF connect, Base, KernelOK, ProcsOK, EndsOK
<1>2. \A s \in Switches : \/ proc'[s] = proc[s] \/ (proc[s] # "gone" /\ proc'[s] # "gone")
                          \/ proc'[s] = "gone" /\ (mgrEnd[s] # "open" \/ (ctrl_ = Null /\ ~QueuedClient'))
  BY <1>1 DEF Peers
<1>3. ASSUME QueuedClient', ~QueuedClient
      PROVE  switch_ # Null /\ proc'[fds[switch_.fd]] # "gone"
  <2>1. p \in Clients
    BY <1>1, <1>3 DEF QueuedClient, Peers
  <2>2. switch_ # Null /\ fds[switch_.fd] \in Switches /\ proc[fds[switch_.fd]] = "waiting"
    BY <2>1 DEF SwitchRuns
  <2>3. fds[switch_.fd] # p /\ fds[switch_.fd] \in Peers
    BY <2>1, <2>2, ProcessAssumption DEF Peers
  <2> QED
    BY <1>1, <2>2, <2>3
<1> QED
  BY <1>1, <1>2, <1>3, SteadyProcess

(* Steady holds after what flowctl does.                                       *)
LEMMA SteadyClient ==
  ASSUME Base, Steady, SteadyFaults, NEW c \in Clients,
         flowctl_connect(c) \/ flowctl_send(c) \/ flowctl_recv(c) \/ kill(c)
  PROVE  Steady'
<1>0. c \in Peers
  BY DEF Peers
<1>1. CASE flowctl_connect(c)
  BY <1>0, <1>1, SteadyConnect DEF flowctl_connect, SteadyFaults
<1>2. CASE flowctl_send(c) \/ flowctl_recv(c) \/ kill(c)
  <2>1. UNCHANGED <<fds, mgrEnd, loop>> /\ \E to : proc' = [proc EXCEPT ![c] = to]
    BY <1>2 DEF flowctl_send, flowctl_recv, kill, kernel
  <2>2. \A s \in Switches : proc'[s] = proc[s]
    BY <2>1, ProcessAssumption DEF Base, ProcsOK, Peers
  <2>3. QueuedClient' => QueuedClient
    BY <2>1 DEF QueuedClient
  <2> QED
    BY <2>1, <2>2, <2>3, SteadyProcess
<1> QED
  BY <1>1, <1>2

(* Steady holds after what flowpath does: it leaves only when its connection   *)
(* is closed or no flowctl is there.                                           *)
LEMMA SteadySwitch ==
  ASSUME Base, Steady, SteadyFaults, NEW s \in Switches,
         flowpath_open(s) \/ fp_mgr_incoming(s) \/ fp_mgr_incoming_closed(s) \/ flowpath_exit(s)
  PROVE  Steady'
<1>0. s \in Peers /\ s \notin Clients
  BY ProcessAssumption DEF Peers
<1>1. CASE flowpath_open(s)
  BY <1>0, <1>1, SteadyConnect DEF flowpath_open
<1>2. CASE fp_mgr_incoming(s) \/ fp_mgr_incoming_closed(s)
  <2>1. /\ UNCHANGED <<fds, mgrEnd, loop>>
        /\ proc' = proc \/ (mgrEnd[s] = "closed" /\ proc' = [proc EXCEPT ![s] = "gone"])
    BY <1>2 DEF fp_mgr_incoming, fp_mgr_incoming_closed, kernel
  <2>2. \A t \in Switches : proc'[t] = proc[t] \/ (proc'[t] = "gone" /\ mgrEnd[t] # "open")
    BY <2>1 DEF Base, ProcsOK, Peers
  <2>3. QueuedClient' => QueuedClient
    BY <2>1 DEF QueuedClient
  <2> QED
    BY <2>1, <2>2, <2>3, SteadyProcess
<1>3. CASE flowpath_exit(s)
  <2>1. /\ UNCHANGED <<fds, mgrEnd, backlog, loop>> /\ Idle
        /\ proc' = [proc EXCEPT ![s] = "gone"]
    BY <1>3 DEF flowpath_exit, kernel, SteadyFaults
  <2>2. ~QueuedClient
    <3>1. \A c \in Clients : mgrEnd[c] # "queued"
      BY <2>1, ToSetEmpty DEF Idle, Base, EndsOK, Socket, Peers
    <3> QED
      BY <3>1 DEF QueuedClient
  <2>3. ~QueuedClient' /\ ctrl_ = Null
    BY <2>1, <2>2 DEF QueuedClient, Idle
  <2>4. \A t \in Switches : proc'[t] = proc[t] \/ proc'[t] = "gone"
    BY <2>1 DEF Base, ProcsOK
  <2> QED
    BY <2>1, <2>3, <2>4, SteadyProcess
<1> QED
  BY <1>1, <1>2, <1>3

(* Steady holds after every step.                                              *)
LEMMA SteadyNext == Base /\ Steady /\ SteadyFaults /\ [Next]_vars => Steady'
<1> SUFFICES ASSUME Base, Steady, SteadyFaults, [Next]_vars
             PROVE  Steady'
  OBVIOUS
<1>1. CASE poll \/ reset
  BY <1>1, SteadyRound
<1>2. CASE process_events
  BY <1>2, SteadyEvents
<1>3. CASE \E h \in rm : unregister_handler(h)
  BY <1>3, SteadyUnregister
<1>4. CASE signal_handler
  BY <1>4, SteadyExit DEF signal_handler, Crash
<1>5. CASE \E c \in Clients : flowctl_connect(c) \/ flowctl_send(c) \/ flowctl_recv(c) \/ kill(c)
  BY <1>5, SteadyClient
<1>6. CASE \E s \in Switches : \/ flowpath_open(s) \/ fp_mgr_incoming(s)
                               \/ fp_mgr_incoming_closed(s) \/ flowpath_exit(s)
  BY <1>6, SteadySwitch
<1>7. CASE UNCHANGED vars
  <2>1. UNCHANGED <<fds, loop>> /\ UNCHANGED <<proc, mgrEnd>>
    BY <1>7 DEF vars, kernel, procs
  <2>2. QueuedClient' => QueuedClient
    BY <2>1 DEF QueuedClient
  <2> QED
    BY <2>1, <2>2, SteadyProcess
<1> QED
  BY <1>1, <1>2, <1>3, <1>4, <1>5, <1>6, <1>7 DEF Next, Mgr

(* Base and Steady are invariants of the environments that have them.          *)
LEMMA SteadyInvariant ==
  ASSUME SteadyFaults
  PROVE  Spec => [](Base /\ Steady)
<1>1. Init => Base /\ Steady
  BY BaseInit, SteadyInit
<1>2. Base /\ Steady /\ [Next]_vars => (Base /\ Steady)'
  BY BaseNext, SteadyNext
<1> QED
  BY <1>1, <1>2, PTL DEF Spec

(* Between two rounds the tables of flowmgr agree.                             *)
LEMMA SteadyTables == Base /\ Steady => TablesAgree
<1> SUFFICES ASSUME Base, Steady
             PROVE  TablesAgree
  OBVIOUS
<1>1. ps \in Seq(Entries)
  BY DEF Base, LoopOK
<1>2. IsInjective([k \in DOMAIN ps |-> ps[k].fd])
  BY DEF Steady, TablesOK, IsInjective
<1>3. {ps[k].fd : k \in DOMAIN ps} = DOMAIN ios
  BY DEF Steady, TablesOK, Base, HandlersOK
<1>4. Clients \cap Switches = {} /\ Sockets \cap Peers = {}
  BY ProcessAssumption DEF Sockets
<1>5. ASSUME NEW fd \in DOMAIN ios
      PROVE  /\ ios[fd].fd = fd /\ fds[fd] # Null
             /\ ios[fd].kind = "Control_channel" <=> ios[fd] = ctrl_
             /\ ios[fd].kind = "Control_channel" <=> fds[fd] \in Clients
             /\ ios[fd].kind = "Switch_channel" <=> ios[fd] = switch_
             /\ ios[fd].kind = "Switch_channel" <=> fds[fd] \in Switches
  <2>1. ios[fd].kind \in HandlerKinds /\ ios[fd] # Null
    BY HandlerAt DEF Base
  <2>2. /\ fd \in Fds /\ fds[fd] # Null /\ ios[fd].fd = fd
        /\ ios[fd].kind = "Control_channel" => ios[fd] = ctrl_ /\ fds[fd] \in Clients
        /\ ios[fd].kind = "Switch_channel" => ios[fd] = switch_ /\ fds[fd] \in Switches
        /\ ios[fd].kind \in {"Control_server", "Switch_server"} => fds[fd] \in Sockets
    BY OpenHandlers DEF Steady
  <2>3. /\ ios[fd] = ctrl_ => ios[fd].kind = "Control_channel"
        /\ ios[fd] = switch_ => ios[fd].kind = "Switch_channel"
    BY <2>1, ControlAt, SwitchAt DEF Steady
  <2> QED
    BY <1>4, <2>1, <2>2, <2>3 DEF HandlerKinds, Peers
<1> QED
  BY <1>2, <1>3, <1>5 DEF TablesAgree

(* Between two rounds of the loop the poll set, the handler map and the        *)
(* channel pointers describe the same descriptors, each open and held by its   *)
(* own handler (main.cpp:93-120): with clients that are killed or refused,     *)
(* commands too large, accept() failing and signals, as long as a flowctl      *)
(* connects to a flowmgr that has a running flowpath and a flowpath leaves     *)
(* when no flowctl is there.                                                   *)
THEOREM FlowMgrTablesAgree ==
  ASSUME SteadyFaults
  PROVE  Spec => []TablesAgree
BY SteadyInvariant, SteadyTables, PTL

-----------------------------------------------------------------------------
(* Connections that are refused *)

(* A server that refused a connection is to be removed, and it is not called   *)
(* again before it is.                                                         *)
LeaksOK ==
  /\ \A p, q \in Peers : Refused(p) /\ Refused(q) /\ Socket(p) = Socket(q) => p = q
  /\ \A p \in Peers, fd \in DOMAIN ios : Refused(p) /\ fds[fd] = Socket(p) => ios[fd] \in rm
  /\ \A h \in rm, k \in Ready : ps[k].fd # h.fd
  /\ phase = "poll" => rm = {}

(* Unless accept() fails flowmgr has both servers while it runs, or refused a  *)
(* connection.                                                                 *)
Serves(s) == Listening(s) \/ \E p \in Peers : Socket(p) = s /\ Refused(p)

ListensOK ==
  phase \in {"poll", "scan"} =>
    /\ \A s \in Sockets : Serves(s)
    /\ \A h \in rm, s \in Sockets : fds[h.fd] = s => \E p \in Peers : Socket(p) = s /\ Refused(p)

(* In a steady environment a descriptor without a handler in the poll set is   *)
(* not there, so what is ready is marked ready.                                *)
LEMMA ReadyMarked ==
  ASSUME Base, TablesOK, NEW k \in Ready
  PROVE  k \in DOMAIN ps /\ ps[k].ready /\ k \in i .. Len(ps)
<1>1. k \in i .. Len(ps) /\ (ps[k].ready \/ ps[k].fd \notin DOMAIN ios)
  BY DEF Ready
<1>2. ps \in Seq(Entries) /\ i \in Nat \ {0}
  BY DEF Base, LoopOK
<1>3. Len(ps) \in Nat /\ DOMAIN ps = 1 .. Len(ps)
  BY <1>2, LenProperties
<1>4. k \in DOMAIN ps
  BY <1>1, <1>2, <1>3
<1> QED
  BY <1>1, <1>4 DEF TablesOK

(* Nothing is refused, and no server goes, while the descriptors stay.         *)
LEMMA LeaksKept ==
  ASSUME LeaksOK, UNCHANGED <<fds, ios>>, rm \subseteq rm',
         \A h \in rm', k \in Ready' : ps'[k].fd # h.fd,
         phase' = "poll" => rm' = {}
  PROVE  LeaksOK'
<1>1. \A p : Refused(p)' <=> Refused(p)
  BY DEF Refused
<1>2. \A p \in Peers, fd \in DOMAIN ios' : Refused(p) /\ fds'[fd] = Socket(p) => ios'[fd] \in rm'
  BY DEF LeaksOK
<1> QED
  BY <1>1, <1>2 DEF LeaksOK

(* The handler of the next event has not asked to be removed.                  *)
LEMMA NotDoomed ==
  ASSUME Base, LeaksOK, NEW h, Dispatch(h)
  PROVE  h \notin rm
BY Dispatched DEF LeaksOK

(* After an event whoever asked to be removed is not called again.             *)
LEMMA DoomedOnce ==
  ASSUME Base, TablesOK, Base', LeaksOK, NEW h, Dispatch(h), NEW sd \in Fds,
         ps' \in {ps, Append(ps, [fd |-> sd, ready |-> FALSE])},
         DOMAIN ios \subseteq DOMAIN ios', ps' # ps => sd \in DOMAIN ios',
         rm' \subseteq rm \cup {h}
  PROVE  \A g \in rm', k \in Ready' : ps'[k].fd # g.fd
<1> SUFFICES ASSUME NEW g \in rm', NEW k \in Ready'
             PROVE  ps'[k].fd # g.fd
  OBVIOUS
<1>0. /\ h.fd \in DOMAIN ios /\ h.fd = ps[Next_i].fd /\ Next_i \in Ready /\ Next_i \in DOMAIN ps
      /\ Next_i \in Nat \ {0} /\ i' = Next_i + 1
  BY Dispatched
<1>1. ps \in Seq(Entries) /\ ps' \in Seq(Entries) /\ i \in Nat
  BY DEF Base, LoopOK
<1>2. k \in DOMAIN ps' /\ k \in Nat /\ k > Next_i /\ (ps'[k].ready \/ ps'[k].fd \notin DOMAIN ios')
  BY <1>0, <1>1, LaterEvent DEF Ready
<1>3. k \in DOMAIN ps /\ ps'[k] = ps[k]
  <2>1. /\ \A j \in DOMAIN ps : j \in DOMAIN ps' /\ ps'[j] = ps[j]
        /\ \A j \in DOMAIN ps' : j \in DOMAIN ps \/ (ps'[j].fd = sd /\ ps'[j].ready = FALSE)
    BY <1>1, Extended
  <2>2. CASE ps' = ps
    BY <1>2, <2>2
  <2>3. CASE ps' # ps
    BY <1>2, <2>1, <2>3
  <2> QED
    BY <2>2, <2>3
<1>4. ps[k].fd \in DOMAIN ios
  BY <1>3 DEF TablesOK
<1>5. ps[k].ready
  BY <1>2, <1>3, <1>4
<1>6. k \in Ready
  <2>1. DOMAIN ps = 1 .. Len(ps) /\ Len(ps) \in Nat
    BY <1>1, LenProperties
  <2>2. i <= Next_i
    BY <1>0, <1>1 DEF Ready
  <2> QED
    BY <1>0, <1>1, <1>2, <1>3, <1>5, <2>1, <2>2 DEF Ready
<1>7. CASE g \in rm
  BY <1>3, <1>6, <1>7 DEF LeaksOK
<1>8. CASE g = h
  <2>1. k # Next_i
    BY <1>0, <1>2
  <2> QED
    BY <1>0, <1>3, <1>8, <2>1 DEF TablesOK
<1> QED
  BY <1>7, <1>8

(* Both hold at first.                                                         *)
LEMMA LeaksInit == Init => LeaksOK /\ ListensOK
<1> SUFFICES ASSUME Init
             PROVE  LeaksOK /\ ListensOK
  OBVIOUS
<1>1. rm = {} /\ 0 \in Fds /\ 1 \in Fds
  <2>1. DOMAIN ios = {0, 1}
    BY DEF Init
  <2> QED
    BY <2>1, BaseInit DEF Init, Base, LoopOK
<1>2. /\ DOMAIN fds = Fds /\ fds[0] = "control_socket" /\ fds[1] = "switch_socket"
      /\ \A fd \in Fds : fds[fd] \in Sockets \cup {Null}
  BY <1>1 DEF Init, Sockets
<1>3. \A p \in Peers : ~Refused(p)
  BY <1>2, ProcessAssumption DEF Refused, Sockets
<1>4. \A s \in Sockets : Listening(s)
  BY <1>1, <1>2 DEF Listening, Range, Sockets
<1> QED
  BY <1>1, <1>3, <1>4 DEF LeaksOK, ListensOK, Serves

(* They hold when flowmgr ends.                                                *)
LEMMA LeaksExit ==
  ASSUME Base, NEW how \in {"stopped", "crashed"}, Exit(how)
  PROVE  LeaksOK' /\ ListensOK'
<1>1. /\ \A fd \in Fds : fds'[fd] = Null
      /\ rm' = {} /\ phase' = how /\ ios' = <<>>
  BY ExitStep DEF Exit
<1>2. \A p \in Peers : ~Refused(p)'
  BY <1>1, ProcessAssumption DEF Refused
<1> QED
  BY <1>1, <1>2 DEF LeaksOK, ListensOK

(* A server that is given up refused a connection.                             *)
LEMMA ListensKept ==
  ASSUME ListensOK, UNCHANGED <<fds, ios>>,
         phase' \in {"poll", "scan"} => phase \in {"poll", "scan"},
         \A h \in rm' : h \in rm \/ fds[h.fd] \notin Sockets
  PROVE  ListensOK'
<1>1. \A p : Refused(p)' <=> Refused(p)
  BY DEF Refused
<1>2. \A s \in Sockets : Serves(s) => Serves(s)'
  BY <1>1 DEF Serves, Listening, Range
<1> QED
  BY <1>1, <1>2 DEF ListensOK

(* They hold after a poll, when a round is over, and while others act.         *)
LEMMA LeaksRound == LeaksOK /\ (poll \/ reset \/ UNCHANGED <<fds, loop>>) => LeaksOK'
<1> SUFFICES ASSUME LeaksOK, poll \/ reset \/ UNCHANGED <<fds, loop>>
             PROVE  LeaksOK'
  OBVIOUS
<1>1. CASE poll
  BY <1>1, LeaksKept DEF poll, kernel, LeaksOK
<1>2. CASE reset
  BY <1>2, LeaksKept DEF reset, kernel
<1>3. CASE UNCHANGED <<fds, loop>>
  <2>1. UNCHANGED <<fds, ps, i, ios, rm, phase>>
    BY <1>3 DEF loop
  <2>2. Ready' = Ready
    BY <2>1 DEF Ready
  <2> QED
    BY <2>1, <2>2, LeaksKept DEF LeaksOK
<1> QED
  BY <1>1, <1>2, <1>3

LEMMA ListensRound == ListensOK /\ (poll \/ reset \/ UNCHANGED <<fds, loop>>) => ListensOK'
<1> SUFFICES ASSUME ListensOK, poll \/ reset \/ UNCHANGED <<fds, loop>>
             PROVE  ListensOK'
  OBVIOUS
<1>1. UNCHANGED <<fds, ios, rm>> /\ (phase' \in {"poll", "scan"} => phase \in {"poll", "scan"})
  BY DEF poll, reset, kernel, loop
<1> QED
  BY <1>1, ListensKept

(* They hold when a server fails to accept or a channel is called.             *)
LEMMA LeaksMarked ==
  ASSUME Base, Steady, Base', LeaksOK, NEW h, Dispatch(h),
         UNCHANGED <<fds, ps, ios, phase>>, rm' \in {rm, rm \cup {h}}
  PROVE  LeaksOK'
<1>1. h.fd \in Fds /\ phase = "scan"
  BY Dispatched
<1>2. \A g \in rm', k \in Ready' : ps'[k].fd # g.fd
  BY <1>1, DoomedOnce DEF Steady
<1> QED
  BY <1>1, <1>2, LeaksKept

(* They hold when a connection is accepted without a channel for it: the       *)
(* server goes.                                                                *)
LEMMA LeaksRefuses ==
  ASSUME Base, Steady, Base', LeaksOK, NEW h, Dispatch(h), NEW p \in Peers, NEW sd \in Fds,
         Opens(p, sd), fds[h.fd] = Socket(p), rm' = rm \cup {h}, UNCHANGED <<ps, ios>>
  PROVE  LeaksOK' /\ (ListensOK => ListensOK')
<1>1. /\ fds[sd] = Null /\ fds'[sd] = p /\ \A fd \in Fds \ {sd} : fds'[fd] = fds[fd]
      /\ UNCHANGED phase
  BY DEF Opens
<1>2. h.fd \in Fds /\ h.fd \in DOMAIN ios /\ h = ios[h.fd] /\ phase = "scan"
  BY Dispatched
<1>3. sd \notin DOMAIN ios /\ DOMAIN ios \subseteq Fds
  BY <1>1, OpenHandlers DEF Steady
<1>4. \A q \in Peers : q # Null
  BY ProcessAssumption
<1>5. \A q \in Peers : Refused(q)' <=> Refused(q) \/ q = p
  BY <1>1, <1>3, <1>4 DEF Refused
<1>6. \A q \in Peers : Socket(q) = Socket(p) => ~Refused(q)
  BY <1>2, NotDoomed DEF LeaksOK
<1>7. \A fd \in DOMAIN ios : fds'[fd] = fds[fd]
  BY <1>1, <1>3
<1>8. \A fd \in DOMAIN ios : fds[fd] = Socket(p) => fd = h.fd
  <2>1. Socket(p) # Null
    BY PeerSocket, ProcessAssumption DEF Sockets
  <2> QED
    BY <1>2, <1>3, <2>1 DEF Base, EndsOK
<1>9. \A g \in rm', k \in Ready' : ps'[k].fd # g.fd
  BY DoomedOnce DEF Steady
<1>10. LeaksOK'
  BY <1>1, <1>2, <1>5, <1>6, <1>7, <1>8, <1>9 DEF LeaksOK
<1>11. ASSUME ListensOK
       PROVE  ListensOK'
  <2>1. \A s \in Sockets : Serves(s) => Serves(s)'
    <3> SUFFICES ASSUME NEW s \in Sockets, Listening(s)
                 PROVE  Listening(s)'
      BY <1>5 DEF Serves
    <3>1. DOMAIN fds = Fds /\ DOMAIN fds' = Fds
      BY DEF Base, KernelOK
    <3>2. PICK fd \in Fds : fds[fd] = s
      BY <3>1 DEF Listening, Range
    <3>3. fd # sd
      BY <1>1, <3>2, ProcessAssumption DEF Sockets
    <3> QED
      BY <1>1, <3>1, <3>2, <3>3 DEF Listening, Range
  <2>2. ASSUME NEW g \in rm', NEW s \in Sockets, fds'[g.fd] = s
        PROVE  \E q \in Peers : Socket(q) = s /\ Refused(q)'
    <3>1. g \in Range(ios)
      BY <2>2 DEF Base, LoopOK
    <3>2. g.fd \in DOMAIN ios
      BY <3>1, HandlerAt DEF Base, Range
    <3>3. fds[g.fd] = s
      BY <1>7, <2>2, <3>2
    <3> QED
      BY <1>2, <1>5, <1>11, <2>2, <3>3 DEF ListensOK
  <2> QED
    BY <1>1, <1>2, <1>11, <2>1, <2>2 DEF ListensOK
<1> QED
  BY <1>10, <1>11

(* They hold when a connection is accepted and gets its channel.               *)
LEMMA LeaksRegisters ==
  ASSUME Base, Steady, Base', LeaksOK, NEW h, Dispatch(h), NEW p \in Peers, NEW sd \in Fds,
         Opens(p, sd), NEW ch, Registers(ch, sd), rm' = rm
  PROVE  LeaksOK' /\ (ListensOK => ListensOK')
<1>1. /\ fds[sd] = Null /\ fds'[sd] = p /\ \A fd \in Fds \ {sd} : fds'[fd] = fds[fd]
      /\ UNCHANGED phase
      /\ DOMAIN ios' = DOMAIN ios \cup {sd} /\ \A fd \in DOMAIN ios : ios'[fd] = ios[fd]
      /\ ps' = Append(ps, [fd |-> sd, ready |-> FALSE])
  BY DEF Opens, Registers
<1>2. phase = "scan"
  BY Dispatched
<1>3. sd \notin DOMAIN ios /\ DOMAIN ios \subseteq Fds
  BY <1>1, OpenHandlers DEF Steady
<1>4. Null \notin Peers /\ Null \notin Sockets /\ p \notin Sockets
  BY ProcessAssumption DEF Sockets
<1>5. \A q \in Peers : Refused(q)' <=> Refused(q)
  BY <1>1, <1>3, <1>4 DEF Refused
<1>6. \A fd \in DOMAIN ios : fds'[fd] = fds[fd]
  BY <1>1, <1>3
<1>7. \A g \in rm', k \in Ready' : ps'[k].fd # g.fd
  BY <1>1, DoomedOnce DEF Steady
<1>8. ASSUME NEW q \in Peers, NEW fd \in DOMAIN ios', Refused(q)', fds'[fd] = Socket(q)
      PROVE  ios'[fd] \in rm'
  <2>1. fd # sd
    BY <1>1, <1>4, <1>8, PeerSocket
  <2> QED
    BY <1>1, <1>5, <1>6, <1>8, <2>1 DEF LeaksOK
<1>9. LeaksOK'
  BY <1>1, <1>2, <1>5, <1>7, <1>8 DEF LeaksOK
<1>10. ASSUME ListensOK
       PROVE  ListensOK'
  <2>1. \A s \in Sockets : Serves(s) => Serves(s)'
    <3> SUFFICES ASSUME NEW s \in Sockets, Listening(s)
                 PROVE  Listening(s)'
      BY <1>5 DEF Serves
    <3>1. DOMAIN fds = Fds /\ DOMAIN fds' = Fds
      BY DEF Base, KernelOK
    <3>2. PICK fd \in Fds : fds[fd] = s
      BY <3>1 DEF Listening, Range
    <3>3. fd # sd
      BY <1>1, <1>4, <3>2
    <3> QED
      BY <1>1, <3>1, <3>2, <3>3 DEF Listening, Range
  <2>2. ASSUME NEW g \in rm', NEW s \in Sockets, fds'[g.fd] = s
        PROVE  \E q \in Peers : Socket(q) = s /\ Refused(q)'
    <3>1. g \in Range(ios)
      BY <2>2 DEF Base, LoopOK
    <3>2. g.fd \in DOMAIN ios
      BY <3>1, HandlerAt DEF Base, Range
    <3>3. fds[g.fd] = s
      BY <1>6, <2>2, <3>2
    <3> QED
      BY <1>2, <1>5, <1>10, <2>2, <3>3 DEF ListensOK
  <2> QED
    BY <1>1, <1>2, <1>10, <2>1, <2>2 DEF ListensOK
<1> QED
  BY <1>9, <1>10

(* They hold after a removal: what a refused connection holds stays.           *)
LEMMA LeaksRemoves ==
  ASSUME Base, Steady, Base', LeaksOK, NEW h, NEW k, Removes(h, k)
  PROVE  LeaksOK' /\ (ListensOK => ListensOK')
<1>1. ClosedBy(h) = {h.fd} /\ h.fd \in DOMAIN ios /\ h = ios[h.fd] /\ h.fd \in Fds
  BY NoHangUp, RemovedHandler
<1>2. /\ \A fd \in Fds : fds'[fd] = IF fd = h.fd THEN Null ELSE fds[fd]
      /\ UNCHANGED phase
  BY <1>1, RemovesStep
<1>3. /\ DOMAIN ios' = DOMAIN ios \ {h.fd} /\ \A fd \in DOMAIN ios' : ios'[fd] = ios[fd]
      /\ rm' = rm \ {h} /\ h \in rm /\ phase = "scan" /\ Ready = {} /\ i' = i
  BY DEF Removes
<1>4. Null \notin Peers /\ Null \notin Sockets /\ DOMAIN ios \subseteq Fds
  BY ProcessAssumption DEF Sockets, Base, LoopOK
<1>5. \A q \in Peers : Refused(q)' <=> Refused(q)
  <2> SUFFICES ASSUME NEW q \in Peers
               PROVE  Refused(q)' <=> Refused(q)
    OBVIOUS
  <2>1. ASSUME NEW fd \in Fds, fds'[fd] = q, fd \notin DOMAIN ios'
        PROVE  fds[fd] = q /\ fd \notin DOMAIN ios
    BY <1>2, <1>3, <1>4, <2>1
  <2>2. ASSUME NEW fd \in Fds, fds[fd] = q, fd \notin DOMAIN ios
        PROVE  fds'[fd] = q /\ fd \notin DOMAIN ios'
    BY <1>1, <1>2, <1>3, <2>2
  <2> QED
    BY <2>1, <2>2 DEF Refused
<1>6. Ready' = {}
  <2> SUFFICES ASSUME NEW m \in Ready'
               PROVE  FALSE
    OBVIOUS
  <2>0. PICK old \in [DOMAIN ps' -> DOMAIN ps \ {k}] :
            /\ \A n \in DOMAIN ps' : ps'[n] = ps[old[n]] /\ n <= old[n]
            /\ \A n, o \in DOMAIN ps' : old[n] = old[o] => n = o
    BY EntryRemoved DEF Base
  <2>1. ps \in Seq(Entries) /\ DOMAIN ps = 1 .. Len(ps) /\ Len(ps) \in Nat /\ i \in Nat \ {0}
    BY LenProperties DEF Base, LoopOK
  <2>2. DOMAIN ps' = 1 .. Len(ps') /\ Len(ps') \in Nat
    BY LenProperties DEF Base, LoopOK
  <2>3. m \in i .. Len(ps') /\ (ps'[m].ready \/ ps'[m].fd \notin DOMAIN ios')
    BY <1>3 DEF Ready
  <2>4. m \in DOMAIN ps' /\ i <= m /\ m \in Nat
    BY <2>1, <2>2, <2>3
  <2>5. ps'[m] = ps[old[m]] /\ m <= old[m] /\ old[m] \in DOMAIN ps /\ old[m] # k
    BY <2>0, <2>4
  <2>6. old[m] \in i .. Len(ps)
    BY <2>1, <2>4, <2>5
  <2>7. ~ps[old[m]].ready /\ ps[old[m]].fd \in DOMAIN ios
    BY <1>3, <2>6 DEF Ready
  <2>8. ps[old[m]].fd = h.fd
    BY <1>3, <2>3, <2>5, <2>7
  <2>9. ps[k].fd = h.fd /\ k \in DOMAIN ps
    BY <2>1 DEF Removes
  <2> QED
    BY <2>5, <2>8, <2>9 DEF Steady, TablesOK
<1>7. ASSUME NEW q \in Peers, NEW fd \in DOMAIN ios', Refused(q)', fds'[fd] = Socket(q)
      PROVE  ios'[fd] \in rm'
  <2>1. fd \in DOMAIN ios /\ fd # h.fd /\ fd \in Fds /\ ios'[fd] = ios[fd] /\ fds[fd] = Socket(q)
    BY <1>2, <1>3, <1>4, <1>7
  <2>2. ios[fd] \in rm
    BY <1>5, <1>7, <2>1 DEF LeaksOK
  <2>3. ios[fd] # h
    BY <2>1, HandlerAt DEF Base
  <2> QED
    BY <1>3, <2>1, <2>2, <2>3
<1>8. LeaksOK'
  BY <1>2, <1>3, <1>5, <1>6, <1>7 DEF LeaksOK
<1>9. ASSUME ListensOK
      PROVE  ListensOK'
  <2>1. ASSUME NEW s \in Sockets
        PROVE  Serves(s)'
    <3>1. Serves(s)
      BY <1>3, <1>9 DEF ListensOK
    <3>2. CASE Listening(s) /\ fds[h.fd] # s
      <4>1. DOMAIN fds = Fds /\ DOMAIN fds' = Fds
        BY DEF Base, KernelOK
      <4>2. PICK fd \in Fds : fds[fd] = s
        BY <3>2, <4>1 DEF Listening, Range
      <4>3. fds'[fd] = s
        BY <1>2, <3>2, <4>2
      <4> QED
        BY <4>1, <4>3 DEF Serves, Listening, Range
    <3>3. CASE fds[h.fd] = s
      BY <1>3, <1>5, <1>9, <3>3 DEF ListensOK, Serves
    <3> QED
      BY <1>5, <3>1, <3>2, <3>3 DEF Serves
  <2>2. ASSUME NEW g \in rm', NEW s \in Sockets, fds'[g.fd] = s
        PROVE  \E q \in Peers : Socket(q) = s /\ Refused(q)'
    <3>1. g \in rm /\ g.fd \in Fds
      BY <1>3, <2>2, DoomedHandlers DEF Steady
    <3>2. fds[g.fd] = s
      BY <1>2, <1>4, <2>2, <3>1
    <3> QED
      BY <1>3, <1>5, <1>9, <3>1, <3>2 DEF ListensOK
  <2> QED
    BY <2>1, <2>2 DEF ListensOK
<1> QED
  BY <1>8, <1>9

(* They hold after every event.                                                *)
LEMMA LeaksEvents ==
  ASSUME Base, Steady, Base', LeaksOK, process_events
  PROVE  LeaksOK' /\ ("accept_fails" \notin Faults /\ ListensOK => ListensOK')
<1> DEFINE h == ios[ps[Next_i].fd]
<1>1. CASE Crash
  BY <1>1, LeaksExit DEF Crash
<1>2. CASE Dispatch(h) /\ Handled(h)
  <2> HIDE DEF h
  <2>0. h.fd \in DOMAIN ios /\ h = ios[h.fd] /\ h.fd \in Fds
    BY <1>2, Dispatched
  <2>1. CASE accept_failed(h)
    <3>1. UNCHANGED <<fds, ps, ios, phase>> /\ rm' = rm \cup {h} /\ "accept_fails" \in Faults
      BY <2>1 DEF accept_failed, Close, kernel
    <3> QED
      BY <1>2, <3>1, LeaksMarked
  <2>2. CASE h.kind = "Control_server" /\ Control_server_on_input(h) /\ ~accept_failed(h)
    <3>1. PICK p \in Clients, sd \in Fds :
            /\ Opens(p, sd) /\ UNCHANGED switch_
            /\ \/ ctrl_ # Null /\ rm' = rm \cup {h} /\ UNCHANGED <<ps, ios, ctrl_, down>>
               \/ LET ch == Handler("Control_channel", sd)
                  IN  /\ ctrl_ = Null /\ ctrl_' = ch /\ sd \notin DOMAIN ios /\ Registers(ch, sd)
                      /\ UNCHANGED rm
                      /\ down' = IF switch_ = Null
                                 THEN [down EXCEPT ![p] = Append(@, "no switch")] ELSE down
      BY <1>2, <2>2, ControlServerStep
    <3>2. p \in Peers /\ fds[h.fd] = Socket(p)
      BY <2>0, <2>2 DEF Base, HandlersOK, Peers, Socket
    <3> QED
      BY <1>2, <3>1, <3>2, LeaksRefuses, LeaksRegisters
  <2>3. CASE h.kind = "Switch_server" /\ Switch_server_on_input(h) /\ ~accept_failed(h)
    <3>1. PICK p \in Switches, sd \in Fds :
            /\ Opens(p, sd) /\ UNCHANGED <<ctrl_, down>>
            /\ \/ switch_ # Null /\ rm' = rm \cup {h} /\ UNCHANGED <<ps, ios, switch_>>
               \/ LET ch == Handler("Switch_channel", sd)
                  IN  switch_ = Null /\ switch_' = ch /\ Registers(ch, sd) /\ UNCHANGED rm
      BY <1>2, <2>3, SwitchServerStep
    <3>2. p \in Peers /\ fds[h.fd] = Socket(p)
      <4>1. fds[h.fd] = "switch_socket"
        BY <2>0, <2>3 DEF Base, HandlersOK
      <4>2. p \in Peers /\ p \notin Clients
        BY ProcessAssumption DEF Peers
      <4> QED
        BY <4>1, <4>2 DEF Socket
    <3> QED
      BY <1>2, <3>1, <3>2, LeaksRefuses, LeaksRegisters
  <2>4. CASE \/ h.kind = "Control_channel" /\ Control_channel_on_input(h)
             \/ h.kind = "Switch_channel" /\ Switch_channel_on_input(h)
    <3>1. UNCHANGED <<fds, ps, ios, phase>> /\ rm' \in {rm, rm \cup {h}}
      BY <1>2, <2>4, ControlChannelStep, SwitchChannelStep
    <3>2. fds[h.fd] \notin Sockets
      <4>1. fds[h.fd] \in Clients \cup Switches
        BY <1>2, <2>4, ControlChannelStep, SwitchChannelStep
      <4> QED
        BY <4>1, ProcessAssumption DEF Sockets, Peers
    <3> QED
      BY <1>2, <3>1, <3>2, LeaksMarked, ListensKept
  <2> QED
    BY <1>2, <2>1, <2>2, <2>3, <2>4 DEF Handled
<1> QED
  BY <1>1, <1>2, EventCases

(* They hold after every step.                                                 *)
LEMMA LeaksNext ==
  ASSUME Base, Steady, LeaksOK, [Next]_vars
  PROVE  LeaksOK' /\ ("accept_fails" \notin Faults /\ ListensOK => ListensOK')
<1>0. Base'
  BY BaseNext
<1>1. CASE poll \/ reset \/ UNCHANGED <<fds, loop>>
  BY <1>1, LeaksRound, ListensRound
<1>2. CASE process_events
  BY <1>0, <1>2, LeaksEvents
<1>3. ASSUME NEW h \in rm, unregister_handler(h)
      PROVE  LeaksOK' /\ ("accept_fails" \notin Faults /\ ListensOK => ListensOK')
  <2>1. CASE Crash
    BY <2>1, LeaksExit DEF Crash
  <2>2. CASE \E k : Removes(h, k)
    BY <1>0, <2>2, LeaksRemoves
  <2> QED
    BY <1>3, <2>1, <2>2, RemovalCases DEF Base
<1>4. CASE signal_handler
  BY <1>4, LeaksExit DEF signal_handler, Crash
<1>5. ASSUME \/ \E c \in Clients : flowctl_connect(c) \/ flowctl_send(c) \/ flowctl_recv(c) \/ kill(c)
             \/ \E s \in Switches : \/ flowpath_open(s) \/ fp_mgr_incoming(s)
                                    \/ fp_mgr_incoming_closed(s) \/ flowpath_exit(s)
             \/ UNCHANGED vars
      PROVE  UNCHANGED <<fds, loop>>
  BY <1>5 DEF flowctl_connect, connect, flowctl_send, flowctl_recv, kill, flowpath_open, fp_mgr_incoming,
              fp_mgr_incoming_closed, flowpath_exit, vars, kernel
<1> QED
  BY <1>1, <1>2, <1>3, <1>4, <1>5 DEF Next, Mgr

LEMMA LeaksInvariant ==
  ASSUME SteadyFaults
  PROVE  Spec => [](Base /\ Steady /\ LeaksOK /\ ("accept_fails" \notin Faults => ListensOK))
<1>1. Init => Base /\ Steady /\ LeaksOK /\ ("accept_fails" \notin Faults => ListensOK)
  BY BaseInit, SteadyInit, LeaksInit
<1>2. /\ Base /\ Steady /\ LeaksOK /\ ("accept_fails" \notin Faults => ListensOK)
      /\ [Next]_vars
      => (Base /\ Steady /\ LeaksOK /\ ("accept_fails" \notin Faults => ListensOK))'
  BY BaseNext, SteadyNext, LeaksNext
<1> QED
  BY <1>1, <1>2, PTL DEF Spec

(* A connection that comes while its channel is taken is accepted, leaked and  *)
(* costs flowmgr the server (control.cpp:61-74, switch.cpp:54-65): so the      *)
(* leak is at most one connection per socket, and none on a socket flowmgr     *)
(* listens on.                                                                 *)
THEOREM FlowMgrOneLeakPerServer ==
  ASSUME SteadyFaults
  PROVE  Spec => []OneLeakPerServer
<1>1. Base /\ Steady /\ LeaksOK => OneLeakPerServer
  <2> SUFFICES ASSUME Base, Steady, LeaksOK, phase = "poll", NEW s \in Sockets
               PROVE  Cardinality({p \in Peers : Socket(p) = s /\ Refused(p)})
                        <= IF Listening(s) THEN 0 ELSE 1
    BY DEF OneLeakPerServer, AtPoll
  <2> DEFINE R == {p \in Peers : Socket(p) = s /\ Refused(p)}
  <2>1. CASE R = {}
    BY <2>1, FS_EmptySet
  <2>2. CASE R # {}
    <3>1. PICK p \in R : TRUE
      BY <2>2
    <3>2. R = {p}
      BY <3>1 DEF LeaksOK
    <3>3. ~Listening(s)
      <4> SUFFICES ASSUME Listening(s)
                   PROVE  FALSE
        OBVIOUS
      <4>1. PICK fd \in Fds : fds[fd] = s
        BY DEF Listening, Range, Base, KernelOK
      <4>2. fd \in DOMAIN ios
        BY <4>1 DEF Base, HandlersOK, Sockets
      <4> QED
        BY <3>1, <4>1, <4>2 DEF LeaksOK
    <3>4. Cardinality(R) = 1
      BY <3>2, FS_Singleton
    <3> QED
      BY <3>3, <3>4
  <2> QED
    BY <2>1, <2>2
<1> QED
  BY <1>1, LeaksInvariant, PTL

(* Unless accept() fails, nothing but a refused connection makes flowmgr give  *)
(* up a server while it runs.                                                  *)
THEOREM FlowMgrStillListening ==
  ASSUME SteadyFaults, "accept_fails" \notin Faults
  PROVE  Spec => []StillListening
<1>1. ListensOK => StillListening
  BY DEF ListensOK, Serves, StillListening, AtPoll
<1>2. Spec => []ListensOK
  BY LeaksInvariant, PTL
<1> QED
  BY <1>1, <1>2, PTL

-----------------------------------------------------------------------------
(* Two sequences behind each other *)

(* Their elements are those of both.                                           *)
LEMMA ToSetConcat ==
  ASSUME NEW S, NEW u \in Seq(S), NEW d \in Seq(S)
  PROVE  u \o d \in Seq(S) /\ ToSet(u \o d) = ToSet(u) \cup ToSet(d)
<1>1. /\ u \o d \in Seq(S) /\ Len(u \o d) = Len(u) + Len(d)
      /\ \A j \in 1 .. Len(u) + Len(d) : (u \o d)[j] = IF j <= Len(u) THEN u[j] ELSE d[j - Len(u)]
  BY ConcatProperties
<1>2. /\ DOMAIN u = 1 .. Len(u) /\ DOMAIN d = 1 .. Len(d) /\ Len(u) \in Nat /\ Len(d) \in Nat
      /\ DOMAIN (u \o d) = 1 .. Len(u) + Len(d)
  BY <1>1, LenProperties
<1> DEFINE w == u \o d
<1> HIDE DEF w
<1>3. \A j \in 1 .. Len(u) + Len(d) : \/ j \in 1 .. Len(u) /\ w[j] = u[j]
                                      \/ j - Len(u) \in 1 .. Len(d) /\ w[j] = d[j - Len(u)]
  BY <1>1, <1>2 DEF w
<1>4. \A j \in 1 .. Len(u) : j \in 1 .. Len(u) + Len(d) /\ w[j] = u[j]
  BY <1>1, <1>2 DEF w
<1>5. ASSUME NEW j \in 1 .. Len(d)
      PROVE  j + Len(u) \in 1 .. Len(u) + Len(d) /\ w[j + Len(u)] = d[j]
  <2>1. j + Len(u) \in 1 .. Len(u) + Len(d) /\ ~(j + Len(u) <= Len(u)) /\ (j + Len(u)) - Len(u) = j
    BY <1>2
  <2>2. w[j + Len(u)] = d[(j + Len(u)) - Len(u)]
    BY <1>1, <2>1 DEF w
  <2> QED
    BY <2>1, <2>2
<1>6. ToSet(w) \subseteq ToSet(u) \cup ToSet(d)
  BY <1>2, <1>3 DEF ToSet, w
<1>7. ToSet(u) \subseteq ToSet(w)
  BY <1>2, <1>4 DEF ToSet, w
<1>8. ToSet(d) \subseteq ToSet(w)
  BY <1>2, <1>5 DEF ToSet, w
<1> QED
  BY <1>1, <1>6, <1>7, <1>8 DEF w

(* The elements behind the first, and the first, are elements.                 *)
LEMMA TailElements ==
  ASSUME NEW S, NEW w \in Seq(S), w # <<>>
  PROVE  ToSet(Tail(w)) \subseteq ToSet(w) /\ Head(w) \in ToSet(w)
<1>1. /\ Tail(w) \in Seq(S) /\ Len(Tail(w)) = Len(w) - 1
      /\ \A k \in 1 .. Len(Tail(w)) : Tail(w)[k] = w[k + 1]
  BY HeadTailProperties
<1>2. Len(w) \in Nat \ {0} /\ DOMAIN w = 1 .. Len(w) /\ DOMAIN Tail(w) = 1 .. Len(w) - 1
  BY <1>1, LenProperties, EmptySeq
<1> DEFINE v == Tail(w)
<1> HIDE DEF v
<1>3. \A k \in DOMAIN v : k + 1 \in DOMAIN w /\ v[k] = w[k + 1]
  BY <1>1, <1>2 DEF v
<1>4. Head(w) = w[1] /\ 1 \in DOMAIN w
  BY <1>2
<1> QED
  BY <1>3, <1>4 DEF ToSet, v

(* The last one appended to the second, the first taken from the first.        *)
LEMMA ConcatEnds ==
  ASSUME NEW S, NEW u \in Seq(S), NEW d \in Seq(S)
  PROVE  /\ \A x \in S : u \o Append(d, x) = Append(u \o d, x)
         /\ u # <<>> => u \o d # <<>> /\ Tail(u) \o d = Tail(u \o d) /\ Head(u \o d) = u[1]
OBVIOUS

(* What moves from the second to the first.                                    *)
LEMMA ConcatMove ==
  ASSUME NEW S, NEW u \in Seq(S), NEW d \in Seq(S), d # <<>>
  PROVE  Append(u, Head(d)) \o Tail(d) = u \o d
OBVIOUS

-----------------------------------------------------------------------------
(* Where the request of each client is *)

(* The request of c, or the reply to it, is with x: on the way to or from the  *)
(* switch x, or on the way to the client x or read by it.                      *)
At(c, x) ==
  \/ c \in ToSet(down[x])
  \/ x \in Switches /\ c \in ToSet(up[x])
  \/ x \in Clients /\ c \in ToSet(got[x])

(* It is in one place.                                                         *)
TokensOK ==
  /\ \A c \in Clients : up[c] \in {<<>>, <<c>>} /\ (proc[c] \in {"new", "connected"} => up[c] = <<>>)
  /\ \A s \in Switches : /\ up[s] \in Seq(Clients) /\ down[s] \in Seq(Clients)
                         /\ mgrEnd[s] \in {"none", "queued"} => up[s] = <<>>
  /\ \A c \in Clients, x, y \in Peers : At(c, x) /\ At(c, y) => x = y
  /\ \A c \in Clients, x \in Peers : At(c, x) => up[c] = <<>> /\ proc[c] \in {"waiting", "gone"}

(* A line of requests: all but the last come from clients that left.           *)
Orderly(w) == \A j, k \in DOMAIN w : j < k => w[j] # w[k] /\ proc[w[j]] = "gone"

(* Nobody waits for an answer to the request of c, or flowmgr dropped it.      *)
Settled(c) ==
  \/ proc[c] = "gone"
  \/ proc[c] = "waiting" /\ up[c] = <<>> /\ \A s \in Switches : ~At(c, s)

(* The client whose request waits last in a line is the one flowmgr has a      *)
(* channel to, unless it left.                                                 *)
LinesOK ==
  /\ \A s \in Switches : proc[s] # "gone" => Orderly(Wire(s))
  /\ \A s \in Switches, c \in Clients :
       At(c, s) /\ mgrEnd[s] = "open" /\ proc[c] # "gone" => OnChannel(c)
  /\ \A c, d \in Clients : At(c, d) /\ c # d => proc[c] = "gone"
  /\ \A h \in rm : h.kind = "Control_channel" => Settled(fds[h.fd])

(* What a switch has been asked and has answered, together.                    *)
LEMMA WireAt ==
  ASSUME TokensOK, NEW s \in Switches
  PROVE  Wire(s) \in Seq(Clients) /\ \A c : c \in ToSet(Wire(s)) <=> At(c, s)
<1>1. s \notin Clients /\ up[s] \in Seq(Clients) /\ down[s] \in Seq(Clients)
  BY ProcessAssumption DEF TokensOK
<1>2. Wire(s) \in Seq(Clients) /\ ToSet(Wire(s)) = ToSet(up[s]) \cup ToSet(down[s])
  BY <1>1, ToSetConcat DEF Wire
<1> QED
  BY <1>1, <1>2 DEF At

(* The first of a line does not occur again.                                   *)
LEMMA OrderlyTail ==
  ASSUME NEW w \in Seq(Clients), w # <<>>, Orderly(w)
  PROVE  Orderly(Tail(w)) /\ Head(w) \in Clients /\ Head(w) \in ToSet(w) /\ Head(w) \notin ToSet(Tail(w))
<1>1. /\ Head(w) \in Clients /\ Tail(w) \in Seq(Clients) /\ Len(Tail(w)) = Len(w) - 1
      /\ \A k \in 1 .. Len(Tail(w)) : Tail(w)[k] = w[k + 1]
  BY HeadTailProperties
<1>2. Len(w) \in Nat \ {0} /\ DOMAIN w = 1 .. Len(w) /\ DOMAIN Tail(w) = 1 .. Len(w) - 1
  BY <1>1, LenProperties, EmptySeq
<1>3. Head(w) = w[1] /\ 1 \in DOMAIN w
  BY <1>2
<1>4. \A k \in DOMAIN Tail(w) : k + 1 \in DOMAIN w /\ 1 < k + 1 /\ Tail(w)[k] = w[k + 1] /\ k \in Nat
  BY <1>1, <1>2
<1>5. ASSUME NEW j \in DOMAIN Tail(w), NEW k \in DOMAIN Tail(w), j < k
      PROVE  Tail(w)[j] # Tail(w)[k] /\ proc[Tail(w)[j]] = "gone"
  <2>1. j + 1 < k + 1
    BY <1>4, <1>5
  <2> QED
    BY <1>4, <2>1 DEF Orderly
<1>6. Head(w) \notin ToSet(Tail(w))
  BY <1>3, <1>4 DEF Orderly, ToSet
<1> QED
  BY <1>1, <1>3, <1>5, <1>6 DEF Orderly, ToSet

(* A line stays one when a request is appended and all before it are given up. *)
LEMMA OrderlyAppend ==
  ASSUME NEW w \in Seq(Clients), NEW c \in Clients, Orderly(w), c \notin ToSet(w),
         \A d \in ToSet(w) : proc[d] = "gone"
  PROVE  Orderly(Append(w, c))
<1>1. /\ Append(w, c) \in Seq(Clients) /\ Len(Append(w, c)) = Len(w) + 1
      /\ \A k \in 1 .. Len(w) : Append(w, c)[k] = w[k]
      /\ Append(w, c)[Len(w) + 1] = c
  BY AppendProperties
<1>2. DOMAIN w = 1 .. Len(w) /\ DOMAIN Append(w, c) = 1 .. Len(w) + 1 /\ Len(w) \in Nat
  BY <1>1, LenProperties
<1> DEFINE v == Append(w, c)
<1> HIDE DEF v
<1>3. ASSUME NEW j \in DOMAIN v, NEW k \in DOMAIN v, j < k
      PROVE  v[j] # v[k] /\ proc[v[j]] = "gone"
  <2>1. j \in DOMAIN w /\ v[j] = w[j] /\ (k \in DOMAIN w \/ k = Len(w) + 1)
    BY <1>1, <1>2, <1>3 DEF v
  <2>2. CASE k \in DOMAIN w
    BY <1>1, <1>2, <1>3, <2>1, <2>2 DEF Orderly, v
  <2>3. CASE k = Len(w) + 1
    BY <1>1, <2>1, <2>3 DEF ToSet, v
  <2> QED
    BY <2>1, <2>2, <2>3
<1> QED
  BY <1>3 DEF Orderly, v

(* A line stays one while clients leave.                                       *)
LEMMA OrderlyKept ==
  ASSUME NEW w \in Seq(Clients), Orderly(w),
         \A c \in Clients : proc[c] = "gone" => proc'[c] = "gone"
  PROVE  \A j, k \in DOMAIN w : j < k => w[j] # w[k] /\ proc'[w[j]] = "gone"
<1>1. \A j \in DOMAIN w : w[j] \in Clients
  OBVIOUS
<1> QED
  BY <1>1 DEF Orderly

(* The channel that is to be removed belongs to a client.                      *)
LEMMA DoomedClient ==
  ASSUME Base, Steady, NEW h \in rm, h.kind = "Control_channel"
  PROVE  fds[h.fd] \in Clients /\ h.fd \in DOMAIN ios /\ ios[h.fd] = h
BY DoomedHandlers, OpenHandlers DEF Steady

(* What clients and switches do to their own: nobody comes back.               *)
Advanced ==
  /\ \A c \in Clients : \/ proc'[c] = proc[c] \/ proc'[c] = "gone"
                        \/ proc[c] = "new" /\ proc'[c] = "connected"
  /\ \A s \in Switches : proc[s] = "gone" => proc'[s] = "gone"

(* Flowmgr's ends of the switches: a new one is queued before it is open.      *)
EndsAdvanced ==
  \A s \in Switches : /\ mgrEnd'[s] \in {"none", "queued"} => mgrEnd[s] \in {"none", "queued"}
                      /\ mgrEnd'[s] = "open" => mgrEnd[s] \in {"open", "queued"}

(* The channels and who asked to be removed.                                   *)
ChannelsKept ==
  /\ \A c \in Clients, s \in Switches :
       OnChannel(c) /\ mgrEnd'[s] = "open" => OnChannel(c)' \/ Settled(c)
  /\ \A h \in rm' : h.kind = "Control_channel" =>
       /\ fds'[h.fd] = fds[h.fd]
       /\ h \in rm \/ (fds[h.fd] \in Clients /\ (Settled(fds[h.fd]) \/ Settled(fds[h.fd])'))

(* Requests stay where they are, or are dropped, while nothing is sent.        *)
LEMMA DataKept ==
  ASSUME Base, Steady, TokensOK, LinesOK, Advanced, EndsAdvanced, ChannelsKept,
         \A s \in Switches : up'[s] = up[s] /\ down'[s] = down[s],
         \A c \in Clients : up'[c] \in {up[c], <<>>},
         \A c, d \in Clients : At(c, d)' => At(c, d)
  PROVE  TokensOK' /\ LinesOK'
<1>1. \A s \in Switches : s \notin Clients /\ Wire(s)' = Wire(s)
  BY ProcessAssumption DEF Wire
<1>2. \A s \in Switches, c \in Clients : At(c, s)' <=> At(c, s)
  BY <1>1 DEF At
<1>3. \A c \in Clients, x \in Peers : At(c, x)' => At(c, x)
  BY <1>2 DEF Peers
<1>4. TokensOK'
  <2>1. \A c \in Clients : up'[c] \in {<<>>, <<c>>} /\ (proc'[c] \in {"new", "connected"} => up'[c] = <<>>)
    BY DEF TokensOK, Advanced
  <2>2. \A s \in Switches : /\ up'[s] \in Seq(Clients) /\ down'[s] \in Seq(Clients)
                            /\ mgrEnd'[s] \in {"none", "queued"} => up'[s] = <<>>
    BY DEF TokensOK, EndsAdvanced
  <2>3. \A c \in Clients, x, y \in Peers : At(c, x)' /\ At(c, y)' => x = y
    BY <1>3 DEF TokensOK
  <2>4. \A c \in Clients, x \in Peers : At(c, x)' => up'[c] = <<>> /\ proc'[c] \in {"waiting", "gone"}
    BY <1>3 DEF TokensOK, Advanced
  <2> QED
    BY <2>1, <2>2, <2>3, <2>4 DEF TokensOK
<1>5. \A c \in Clients : Settled(c) => Settled(c)'
  <2> SUFFICES ASSUME NEW c \in Clients, Settled(c)
               PROVE  Settled(c)'
    OBVIOUS
  <2>1. \A s \in Switches : At(c, s)' => At(c, s)
    BY <1>2
  <2> QED
    BY <2>1 DEF Settled, Advanced
<1>6. ASSUME NEW s \in Switches, proc'[s] # "gone"
      PROVE  Orderly(Wire(s))'
  <2>1. Orderly(Wire(s)) /\ Wire(s) \in Seq(Clients)
    BY <1>6, WireAt DEF Advanced, LinesOK
  <2>2. \A c \in Clients : proc[c] = "gone" => proc'[c] = "gone"
    BY DEF Advanced
  <2>3. \A j, k \in DOMAIN Wire(s) : j < k => Wire(s)[j] # Wire(s)[k] /\ proc'[Wire(s)[j]] = "gone"
    BY <2>1, <2>2, OrderlyKept
  <2> QED
    BY <1>1, <2>3 DEF Orderly
<1>7. ASSUME NEW s \in Switches, NEW c \in Clients, At(c, s)', mgrEnd'[s] = "open", proc'[c] # "gone"
      PROVE  OnChannel(c)'
  <2>1. At(c, s) /\ proc[c] # "gone"
    BY <1>2, <1>7 DEF Advanced
  <2>2. mgrEnd[s] = "open"
    <3>1. up[s] # <<>> \/ down[s] # <<>>
      BY <1>1, <2>1, ToSetEmpty DEF At
    <3> QED
      BY <1>7, <3>1 DEF EndsAdvanced, TokensOK, Base, EndsOK, Peers
  <2>3. ~Settled(c)
    BY <2>1 DEF Settled
  <2>4. OnChannel(c)
    BY <2>1, <2>2 DEF LinesOK
  <2> QED
    BY <1>7, <2>3, <2>4 DEF ChannelsKept
<1>8. \A c, d \in Clients : At(c, d)' /\ c # d => proc'[c] = "gone"
  BY DEF LinesOK, Advanced
<1>9. ASSUME NEW h \in rm', h.kind = "Control_channel"
      PROVE  Settled(fds[h.fd])' /\ fds'[h.fd] = fds[h.fd]
  <2>1. CASE h \in rm
    BY <1>5, <1>9, <2>1, DoomedClient DEF LinesOK, ChannelsKept
  <2>2. CASE h \notin rm
    BY <1>5, <1>9, <2>2 DEF ChannelsKept
  <2> QED
    BY <2>1, <2>2
<1>10. \A h \in rm' : h.kind = "Control_channel" => Settled(fds[h.fd])'
  BY <1>9
<1>11. LinesOK'
  BY <1>6, <1>7, <1>8, <1>10 DEF LinesOK
<1> QED
  BY <1>4, <1>11

(* No request is under way at first.                                           *)
LEMMA LinesInit == Init => TokensOK /\ LinesOK
<1> SUFFICES ASSUME Init
             PROVE  TokensOK /\ LinesOK
  OBVIOUS
<1>1. /\ \A p \in Peers : up[p] = <<>> /\ down[p] = <<>>
      /\ \A c \in Clients : got[c] = <<>>
      /\ rm = {}
  BY DEF Init
<1>2. \A s \in Switches : s \in Peers /\ up[s] = <<>> /\ down[s] = <<>> /\ <<>> \in Seq(Clients)
  BY <1>1 DEF Peers
<1>3. \A c \in Clients : c \in Peers /\ up[c] = <<>>
  BY <1>1 DEF Peers
<1>4. \A c \in Clients, x \in Peers : ~At(c, x)
  BY <1>1, ToSetEmpty DEF At
<1>5. TokensOK
  <2>1. \A s \in Switches : /\ up[s] \in Seq(Clients) /\ down[s] \in Seq(Clients)
                            /\ mgrEnd[s] \in {"none", "queued"} => up[s] = <<>>
    BY <1>2
  <2> QED
    BY <1>3, <1>4, <2>1 DEF TokensOK
<1>6. \A s \in Switches : Orderly(Wire(s))
  <2> SUFFICES ASSUME NEW s \in Switches
               PROVE  Orderly(Wire(s))
    OBVIOUS
  <2>1. /\ up[s] = <<>> /\ down[s] = <<>> /\ <<>> \in Seq(Clients) /\ Len(<<>>) = 0
    BY <1>2, EmptySeq
  <2>2. <<>> \o <<>> \in Seq(Clients) /\ Len(<<>> \o <<>>) = 0
    BY <2>1, ConcatProperties
  <2>3. Wire(s) \in Seq(Clients) /\ Len(Wire(s)) = 0
    BY <2>1, <2>2 DEF Wire
  <2>4. DOMAIN Wire(s) = {}
    BY <2>3, LenProperties
  <2> QED
    BY <2>4 DEF Orderly
<1>7. \A s \in Switches : s \in Peers
  BY DEF Peers
<1> QED
  BY <1>1, <1>3, <1>4, <1>5, <1>6, <1>7 DEF LinesOK

(* Nothing is sent or read, and no connection opens or closes.                 *)
LEMMA LinesSame ==
  ASSUME Base, Steady, TokensOK, LinesOK, UNCHANGED <<fds, mgrEnd, up, down, ctrl_, procs>>,
         \A h \in rm' : h.kind = "Control_channel" => h \in rm
  PROVE  TokensOK' /\ LinesOK'
<1>1. UNCHANGED <<proc, got>>
  BY DEF procs
<1>2. Advanced /\ EndsAdvanced
  BY <1>1 DEF Advanced, EndsAdvanced
<1>3. ChannelsKept
  BY DEF ChannelsKept, OnChannel
<1>4. \A c, d \in Clients : At(c, d)' => At(c, d)
  BY <1>1 DEF At
<1> QED
  BY <1>2, <1>3, <1>4, DataKept

(* Flowmgr ends.                                                               *)
LEMMA LinesExit ==
  ASSUME Base, Steady, TokensOK, LinesOK, NEW how, Exit(how)
  PROVE  TokensOK' /\ LinesOK'
<1>1. /\ \A s \in Switches : mgrEnd'[s] \in {mgrEnd[s], "closed"} /\ mgrEnd'[s] \notin {"open", "queued"}
      /\ UNCHANGED <<up, down, proc, got>>
  BY ExitStep DEF procs, Peers
<1>2. rm' = {}
  BY DEF Exit
<1>3. Advanced /\ EndsAdvanced
  BY <1>1 DEF Advanced, EndsAdvanced
<1>4. ChannelsKept
  BY <1>1, <1>2 DEF ChannelsKept
<1>5. \A c, d \in Clients : At(c, d)' => At(c, d)
  BY <1>1 DEF At
<1> QED
  BY <1>1, <1>3, <1>4, <1>5, DataKept

(* A connection is accepted.                                                   *)
LEMMA LinesOpens ==
  ASSUME Base, Steady, TokensOK, LinesOK, NEW p, NEW sd, Opens(p, sd), UNCHANGED down,
         ctrl_ # Null => ctrl_' = ctrl_,
         \A h \in rm' : h.kind = "Control_channel" => h \in rm
  PROVE  TokensOK' /\ LinesOK'
<1>1. /\ fds[sd] = Null /\ \A fd \in Fds : fds[fd] # Null => fds'[fd] = fds[fd]
      /\ mgrEnd[p] = "queued" /\ mgrEnd'[p] = "open" /\ \A q \in Peers \ {p} : mgrEnd'[q] = mgrEnd[q]
      /\ UNCHANGED <<up, proc, got>>
  BY DEF Opens, procs
<1>2. Advanced /\ EndsAdvanced
  BY <1>1 DEF Advanced, EndsAdvanced, Peers
<1>3. ChannelsKept
  <2>1. ASSUME NEW c \in Clients, OnChannel(c)
        PROVE  OnChannel(c)'
    <3>1. ctrl_ # Null /\ ctrl_.fd \in Fds /\ fds[ctrl_.fd] = c /\ ctrl_' = ctrl_
      BY <2>1, ControlAt DEF OnChannel, Steady
    <3>2. c # Null
      BY ProcessAssumption DEF Peers
    <3> QED
      BY <1>1, <3>1, <3>2 DEF OnChannel
  <2>2. \A h \in rm : h.fd \in Fds /\ fds[h.fd] # Null
    BY DoomedHandlers DEF Steady
  <2> QED
    BY <1>1, <2>1, <2>2 DEF ChannelsKept
<1>4. \A c, d \in Clients : At(c, d)' => At(c, d)
  BY <1>1 DEF At
<1>5. UNCHANGED <<up, down>>
  BY <1>1
<1> QED
  BY <1>2, <1>3, <1>4, <1>5, DataKept

(* A connection is accepted or refused by a server.                            *)
LEMMA LinesServer ==
  ASSUME Base, Steady, TokensOK, LinesOK, NEW h, Dispatch(h),
         \/ h.kind = "Control_server" /\ Control_server_on_input(h)
         \/ h.kind = "Switch_server" /\ Switch_server_on_input(h)
  PROVE  TokensOK' /\ LinesOK'
<1>1. CASE accept_failed(h)
  <2>1. UNCHANGED <<fds, mgrEnd, up, down, ctrl_, procs>> /\ rm' = rm \cup {h}
    BY <1>1, Dispatched DEF accept_failed, Close, kernel
  <2> QED
    BY <2>1, LinesSame
<1>2. CASE h.kind = "Control_server" /\ Control_server_on_input(h) /\ ~accept_failed(h)
  <2>1. PICK p \in Clients, sd \in Fds :
           /\ Opens(p, sd) /\ UNCHANGED switch_
           /\ \/ ctrl_ # Null /\ rm' = rm \cup {h} /\ UNCHANGED <<ps, ios, ctrl_, down>>
              \/ LET ch == Handler("Control_channel", sd)
                 IN  /\ ctrl_ = Null /\ ctrl_' = ch /\ sd \notin DOMAIN ios /\ Registers(ch, sd)
                     /\ UNCHANGED rm
                     /\ down' = IF switch_ = Null
                                THEN [down EXCEPT ![p] = Append(@, "no switch")] ELSE down
    BY <1>2, ControlServerStep
  <2>2. switch_ # Null
    BY <2>1 DEF Opens, Steady, NeededOK, QueuedClient
  <2>3. /\ UNCHANGED down /\ (ctrl_ # Null => ctrl_' = ctrl_)
        /\ \A g \in rm' : g.kind = "Control_channel" => g \in rm
    BY <1>2, <2>1, <2>2
  <2> QED
    BY <2>1, <2>3, LinesOpens
<1>3. CASE h.kind = "Switch_server" /\ Switch_server_on_input(h) /\ ~accept_failed(h)
  <2>1. PICK p \in Switches, sd \in Fds :
           /\ Opens(p, sd) /\ UNCHANGED <<ctrl_, down>>
           /\ \/ switch_ # Null /\ rm' = rm \cup {h} /\ UNCHANGED <<ps, ios, switch_>>
              \/ LET ch == Handler("Switch_channel", sd)
                 IN  switch_ = Null /\ switch_' = ch /\ Registers(ch, sd) /\ UNCHANGED rm
    BY <1>3, SwitchServerStep
  <2>2. \A g \in rm' : g.kind = "Control_channel" => g \in rm
    BY <1>3, <2>1
  <2> QED
    BY <2>1, <2>2, LinesOpens
<1> QED
  BY <1>1, <1>2, <1>3

(* A handler is removed.                                                       *)
LEMMA LinesRemoves ==
  ASSUME Base, Steady, TokensOK, LinesOK, NEW h, NEW k, Removes(h, k)
  PROVE  TokensOK' /\ LinesOK'
<1>1. ~HungUp(h) /\ ClosedBy(h) = {h.fd}
  BY NoHangUp
<1>2. /\ \A q \in Peers : mgrEnd'[q] \in {mgrEnd[q], "closed"}
      /\ \A fd \in Fds : fds'[fd] = IF fd = h.fd THEN Null ELSE fds[fd]
      /\ UNCHANGED <<up, proc, got>>
  BY <1>1, RemovesStep DEF procs
<1>3. /\ h \in rm /\ rm' = rm \ {h} /\ UNCHANGED down
      /\ ctrl_' = IF h.kind = "Control_channel" THEN Null ELSE ctrl_
  BY <1>1 DEF Removes
<1>4. \A g \in rm : g.fd \in DOMAIN ios /\ ios[g.fd] = g /\ g.fd \in Fds
  BY DoomedHandlers DEF Steady
<1>5. Advanced
  BY <1>2 DEF Advanced
<1>6. EndsAdvanced
  BY <1>2 DEF EndsAdvanced, Peers
<1>7. ASSUME NEW c \in Clients, OnChannel(c), ~Settled(c)
      PROVE  OnChannel(c)'
  <2>1. /\ ctrl_ # Null /\ ctrl_.fd \in Fds /\ fds[ctrl_.fd] = c /\ ctrl_.kind = "Control_channel"
        /\ ios[ctrl_.fd] = ctrl_
    BY <1>7, ControlAt DEF OnChannel, Steady
  <2>2. h # ctrl_
    BY <1>3, <1>7, <2>1 DEF LinesOK
  <2>3. ctrl_.fd # h.fd /\ h.kind # "Control_channel"
    <3>1. h.kind = "Control_channel" => ios[h.fd] = ctrl_
      BY <1>3, <1>4 DEF Base, HandlersOK
    <3> QED
      BY <1>3, <1>4, <2>1, <2>2, <3>1
  <2>4. ctrl_' = ctrl_ /\ fds'[ctrl_.fd] = fds[ctrl_.fd]
    BY <1>2, <1>3, <2>1, <2>3
  <2> QED
    BY <2>1, <2>4 DEF OnChannel
<1>8. \A g \in rm' : g \in rm /\ fds'[g.fd] = fds[g.fd]
  BY <1>2, <1>3, <1>4
<1>9. ChannelsKept
  BY <1>7, <1>8 DEF ChannelsKept
<1>10. \A c, d \in Clients : At(c, d)' => At(c, d)
  BY <1>2, <1>3 DEF At
<1>11. UNCHANGED <<up, down>>
  BY <1>2, <1>3
<1> QED
  BY <1>5, <1>6, <1>9, <1>10, <1>11, DataKept

(* A process does something of its own.                                        *)
LEMMA LinesProcess ==
  ASSUME Base, Steady, TokensOK, LinesOK, UNCHANGED <<fds, loop, up>>, Advanced, EndsAdvanced,
         \A s \in Switches : down'[s] = down[s],
         \A c, d \in Clients : At(c, d)' => At(c, d)
  PROVE  TokensOK' /\ LinesOK'
<1>1. UNCHANGED <<ctrl_, rm>>
  BY DEF loop
<1>2. ChannelsKept
  BY <1>1 DEF ChannelsKept, OnChannel
<1> QED
  BY <1>2, DataKept

(* flowctl sends its command.                                                  *)
LEMMA LinesSend ==
  ASSUME Base, Steady, TokensOK, LinesOK, NEW c \in Clients, flowctl_send(c), mgrEnd[c] # "closed"
  PROVE  TokensOK' /\ LinesOK'
<1>1. /\ proc[c] = "connected" /\ proc' = [proc EXCEPT ![c] = "waiting"] /\ up' = [up EXCEPT ![c] = <<c>>]
      /\ UNCHANGED <<fds, mgrEnd, down, loop, got>>
  BY DEF flowctl_send
<1>2. /\ c \in Peers /\ \A q \in Peers : q # c => proc'[q] = proc[q] /\ up'[q] = up[q]
      /\ proc'[c] = "waiting" /\ up'[c] = <<c>>
  BY <1>1 DEF Base, KernelOK, ProcsOK, Peers
<1>3. \A x \in Peers : ~At(c, x)
  BY <1>1 DEF TokensOK
<1>4. \A s \in Switches : s # c /\ s \in Peers
  BY ProcessAssumption DEF Peers
<1>5. \A d \in Clients : d \in Peers
  BY DEF Peers
<1>6. \A d \in Clients, x \in Peers : At(d, x)' <=> At(d, x)
  BY <1>1, <1>2, <1>4 DEF At
<1>7. TokensOK'
  <2>1. \A d \in Clients : up'[d] \in {<<>>, <<d>>} /\ (proc'[d] \in {"new", "connected"} => up'[d] = <<>>)
    BY <1>2, <1>5 DEF TokensOK
  <2>2. \A s \in Switches : /\ up'[s] \in Seq(Clients) /\ down'[s] \in Seq(Clients)
                            /\ mgrEnd'[s] \in {"none", "queued"} => up'[s] = <<>>
    BY <1>1, <1>2, <1>4 DEF TokensOK
  <2>3. \A d \in Clients, x, y \in Peers : At(d, x)' /\ At(d, y)' => x = y
    BY <1>6 DEF TokensOK
  <2>4. \A d \in Clients, x \in Peers : At(d, x)' => up'[d] = <<>> /\ proc'[d] \in {"waiting", "gone"}
    BY <1>2, <1>3, <1>5, <1>6 DEF TokensOK
  <2> QED
    BY <2>1, <2>2, <2>3, <2>4 DEF TokensOK
<1>8. UNCHANGED <<ctrl_, rm>>
  BY <1>1 DEF loop
<1>9. ASSUME NEW s \in Switches, proc'[s] # "gone"
      PROVE  Orderly(Wire(s))'
  <2>1. Wire(s)' = Wire(s) /\ Wire(s) \in Seq(Clients) /\ Orderly(Wire(s))
    BY <1>1, <1>2, <1>4, <1>9, WireAt DEF Wire, LinesOK
  <2>2. \A d \in Clients : proc[d] = "gone" => proc'[d] = "gone"
    BY <1>1, <1>2, <1>5
  <2>3. \A j, k \in DOMAIN Wire(s) : j < k => Wire(s)[j] # Wire(s)[k] /\ proc'[Wire(s)[j]] = "gone"
    BY <2>1, <2>2, OrderlyKept
  <2> QED
    BY <2>1, <2>3 DEF Orderly
<1>10. \A s \in Switches, d \in Clients :
         At(d, s)' /\ mgrEnd'[s] = "open" /\ proc'[d] # "gone" => OnChannel(d)'
  BY <1>1, <1>2, <1>3, <1>4, <1>5, <1>6, <1>8 DEF LinesOK, OnChannel
<1>11. \A d, e \in Clients : At(d, e)' /\ d # e => proc'[d] = "gone"
  BY <1>2, <1>3, <1>5, <1>6 DEF LinesOK
<1>12. ASSUME NEW h \in rm', h.kind = "Control_channel"
       PROVE  Settled(fds[h.fd])'
  <2>1. fds'[h.fd] = fds[h.fd] /\ fds[h.fd] \in Clients /\ Settled(fds[h.fd])
    BY <1>1, <1>8, <1>12, DoomedClient DEF LinesOK
  <2>2. fds[h.fd] # c
    BY <1>1, <2>1 DEF Settled
  <2> QED
    BY <1>2, <1>4, <1>5, <1>6, <2>1, <2>2 DEF Settled
<1> QED
  BY <1>7, <1>9, <1>10, <1>11, <1>12 DEF LinesOK

(* flowmgr forwards a command to the switch.                                   *)
LEMMA LinesForward ==
  ASSUME Base, Steady, TokensOK, LinesOK, NEW c \in Clients, NEW s \in Switches,
         OnChannel(c), up[c] # <<>>, up' = [up EXCEPT ![c] = Tail(@)],
         mgrEnd[s] = "open", down' = [down EXCEPT ![s] = Append(@, c)],
         UNCHANGED <<fds, mgrEnd, ctrl_, rm, procs>>
  PROVE  TokensOK' /\ LinesOK'
<1>1. c \in Peers /\ s \in Peers /\ s # c /\ UNCHANGED <<proc, got>>
  BY ProcessAssumption DEF Peers, procs
<1>2. up[c] = <<c>> /\ proc[c] \in {"waiting", "gone"} /\ \A x \in Peers : ~At(c, x)
  BY <1>1 DEF TokensOK, Base, ProcsOK
<1>3. up'[c] = <<>> /\ \A q \in Peers : q # c => up'[q] = up[q]
  BY <1>1, <1>2 DEF Base, KernelOK
<1>4. down'[s] = Append(down[s], c) /\ \A q \in Peers : q # s => down'[q] = down[q]
  BY <1>1 DEF Base, KernelOK
<1>5. down[s] \in Seq(Clients) /\ up[s] \in Seq(Clients)
  BY DEF TokensOK
<1>6. down'[s] \in Seq(Clients) /\ ToSet(down'[s]) = ToSet(down[s]) \cup {c}
  BY <1>4, <1>5, ToSetAppend
<1>7. \A t \in Switches : t # c /\ t \in Peers
  BY ProcessAssumption DEF Peers
<1>8. \A d \in Clients : d \in Peers /\ d # s
  BY ProcessAssumption DEF Peers
<1>9. \A d \in Clients, x \in Peers : At(d, x)' <=> At(d, x) \/ (d = c /\ x = s)
  BY <1>1, <1>3, <1>4, <1>6, <1>7 DEF At
<1>10. TokensOK'
  <2>1. \A d \in Clients : up'[d] \in {<<>>, <<d>>} /\ (proc'[d] \in {"new", "connected"} => up'[d] = <<>>)
    BY <1>1, <1>3, <1>8 DEF TokensOK
  <2>2. \A t \in Switches : /\ up'[t] \in Seq(Clients) /\ down'[t] \in Seq(Clients)
                            /\ mgrEnd'[t] \in {"none", "queued"} => up'[t] = <<>>
    BY <1>3, <1>4, <1>6, <1>7 DEF TokensOK
  <2>3. \A d \in Clients, x, y \in Peers : At(d, x)' /\ At(d, y)' => x = y
    BY <1>2, <1>9 DEF TokensOK
  <2>4. \A d \in Clients, x \in Peers : At(d, x)' => up'[d] = <<>> /\ proc'[d] \in {"waiting", "gone"}
    BY <1>1, <1>2, <1>3, <1>8, <1>9 DEF TokensOK
  <2> QED
    BY <2>1, <2>2, <2>3, <2>4 DEF TokensOK
<1>11. ASSUME NEW t \in Switches, proc'[t] # "gone"
       PROVE  Orderly(Wire(t))'
  <2>1. Wire(t) \in Seq(Clients) /\ Orderly(Wire(t)) /\ \A d : d \in ToSet(Wire(t)) <=> At(d, t)
    BY <1>1, <1>11, WireAt DEF LinesOK
  <2>2. CASE t # s
    <3>1. Wire(t)' = Wire(t)
      BY <1>1, <1>3, <1>4, <1>7, <2>2 DEF Wire
    <3> QED
      BY <1>1, <2>1, <3>1 DEF Orderly
  <2>3. CASE t = s
    <3>0. up[s] \o Append(down[s], c) = Append(up[s] \o down[s], c)
      <4> DEFINE u == up[s]
                 d == down[s]
      <4>1. u \in Seq(Clients) /\ d \in Seq(Clients)
        BY <1>5
      <4> HIDE DEF u, d
      <4>2. u \o Append(d, c) = Append(u \o d, c)
        BY <4>1
      <4> QED
        BY <4>2 DEF u, d
    <3>1. Wire(t)' = Append(Wire(s), c)
      BY <1>1, <1>3, <1>4, <2>3, <3>0 DEF Wire
    <3>2. \A d \in ToSet(Wire(s)) : proc[d] = "gone"
      <4> SUFFICES ASSUME NEW d \in ToSet(Wire(s)), proc[d] # "gone"
                   PROVE  FALSE
        OBVIOUS
      <4>1. d \in Clients /\ At(d, s)
        BY <2>1, <2>3 DEF ToSet
      <4>2. OnChannel(d)
        BY <4>1 DEF LinesOK
      <4>3. d = c
        BY <4>2 DEF OnChannel
      <4> QED
        BY <1>1, <1>2, <4>1, <4>3
    <3>3. c \notin ToSet(Wire(s))
      BY <1>1, <1>2, <2>1, <2>3
    <3>4. Orderly(Append(Wire(s), c))
      BY <2>1, <2>3, <3>2, <3>3, OrderlyAppend
    <3> QED
      BY <1>1, <3>1, <3>4 DEF Orderly
  <2> QED
    BY <2>2, <2>3
<1>12. \A t \in Switches, d \in Clients :
         At(d, t)' /\ mgrEnd'[t] = "open" /\ proc'[d] # "gone" => OnChannel(d)'
  BY <1>1, <1>7, <1>9 DEF LinesOK, OnChannel
<1>13. \A d, e \in Clients : At(d, e)' /\ d # e => proc'[d] = "gone"
  BY <1>1, <1>8, <1>9 DEF LinesOK
<1>14. ASSUME NEW h \in rm', h.kind = "Control_channel"
       PROVE  Settled(fds[h.fd])'
  <2>1. fds'[h.fd] = fds[h.fd] /\ fds[h.fd] \in Clients /\ Settled(fds[h.fd])
    BY <1>14, DoomedClient DEF LinesOK
  <2>2. CASE fds[h.fd] = c
    BY <1>1, <1>2, <2>1, <2>2 DEF Settled
  <2>3. CASE fds[h.fd] # c
    BY <1>1, <1>3, <1>7, <1>8, <1>9, <2>1, <2>3 DEF Settled
  <2> QED
    BY <2>2, <2>3
<1> QED
  BY <1>10, <1>11, <1>12, <1>13, <1>14 DEF LinesOK

(* flowmgr passes the reply of the switch s on to the client it has a channel  *)
(* to.                                                                         *)
LEMMA LinesReply ==
  ASSUME Base, Steady, TokensOK, LinesOK, NEW s \in Switches, NEW d \in Clients, OnChannel(d),
         up[s] # <<>>, up' = [up EXCEPT ![s] = Tail(@)], mgrEnd[s] = "open", proc[s] # "gone",
         down' = [down EXCEPT ![d] = Append(@, up[s][1])],
         UNCHANGED <<fds, mgrEnd, ctrl_, rm, procs>>
  PROVE  TokensOK' /\ LinesOK'
<1> DEFINE x == up[s][1]
<1>1. /\ d \in Peers /\ s \in Peers /\ s # d /\ UNCHANGED <<proc, got>> /\ s \notin Clients
      /\ d \notin Switches
  BY ProcessAssumption DEF Peers, procs
<1>2. up[s] \in Seq(Clients) /\ down[s] \in Seq(Clients) /\ Tail(up[s]) \in Seq(Clients)
  BY DEF TokensOK
<1>3. /\ Wire(s) # <<>> /\ Head(Wire(s)) = x /\ Tail(up[s]) \o down[s] = Tail(Wire(s))
  BY <1>2, ConcatEnds DEF Wire
<1>4. Wire(s) \in Seq(Clients) /\ Orderly(Wire(s)) /\ \A c : c \in ToSet(Wire(s)) <=> At(c, s)
  BY WireAt DEF LinesOK
<1>5. Orderly(Tail(Wire(s))) /\ x \in Clients /\ At(x, s) /\ x \notin ToSet(Tail(Wire(s)))
  BY <1>3, <1>4, OrderlyTail
<1> HIDE DEF x
<1>6. up'[s] = Tail(up[s]) /\ \A q \in Peers : q # s => up'[q] = up[q]
  BY <1>1 DEF Base, KernelOK
<1>7. down'[d] = Append(down[d], x) /\ \A q \in Peers : q # d => down'[q] = down[q]
  BY <1>1 DEF Base, KernelOK, x
<1>8. down[d] \in Seq(Messages) /\ x \in Messages
  BY <1>1, <1>5 DEF Base, KernelOK, Messages
<1>9. ToSet(down'[d]) = ToSet(down[d]) \cup {x}
  BY <1>7, <1>8, ToSetAppend
<1>10. Wire(s)' = Tail(Wire(s))
  BY <1>1, <1>3, <1>6, <1>7 DEF Wire
<1>11. /\ ToSet(Wire(s)) = ToSet(up[s]) \cup ToSet(down[s])
       /\ ToSet(Tail(Wire(s))) = ToSet(Tail(up[s])) \cup ToSet(down[s])
  <2>1. ToSet(up[s] \o down[s]) = ToSet(up[s]) \cup ToSet(down[s])
    BY <1>2, ToSetConcat
  <2> DEFINE v == Tail(up[s])
  <2>2. v \in Seq(Clients)
    BY <1>2
  <2> HIDE DEF v
  <2>3. ToSet(v \o down[s]) = ToSet(v) \cup ToSet(down[s])
    BY <1>2, <2>2, ToSetConcat
  <2> QED
    BY <1>3, <2>1, <2>3 DEF Wire, v
<1>12. ToSet(Tail(Wire(s))) \subseteq ToSet(Wire(s))
  BY <1>3, <1>4, TailElements
<1>13. \A c : At(c, s)' <=> c \in ToSet(Tail(Wire(s)))
  BY <1>1, <1>6, <1>7, <1>11 DEF At
<1>14. \A c \in Clients : At(c, d)' <=> At(c, d) \/ c = x
  BY <1>1, <1>9 DEF At
<1>15. \A c \in Clients, y \in Peers : y \notin {s, d} => (At(c, y)' <=> At(c, y))
  BY <1>1, <1>6, <1>7 DEF At
<1>16. \A c \in Clients : At(c, s)' => At(c, s) /\ c # x
  BY <1>4, <1>5, <1>12, <1>13
<1>17. \A y \in Peers : At(x, y) => y = s
  BY <1>1, <1>5 DEF TokensOK
<1>18. \A c \in Clients, y \in Peers : At(c, y)' => IF c = x THEN y = d ELSE At(c, y)
  BY <1>14, <1>15, <1>16, <1>17
<1>19. TokensOK'
  <2>1. \A c \in Clients : up'[c] = up[c]
    BY <1>1, <1>6 DEF Peers
  <2>2. \A c \in Clients : up'[c] \in {<<>>, <<c>>} /\ (proc'[c] \in {"new", "connected"} => up'[c] = <<>>)
    BY <1>1, <2>1 DEF TokensOK
  <2>3. \A t \in Switches : /\ up'[t] \in Seq(Clients) /\ down'[t] \in Seq(Clients)
                            /\ mgrEnd'[t] \in {"none", "queued"} => up'[t] = <<>>
    BY <1>1, <1>2, <1>6, <1>7 DEF TokensOK, Peers
  <2>4. \A c \in Clients, y, z \in Peers : At(c, y)' /\ At(c, z)' => y = z
    BY <1>18 DEF TokensOK
  <2>5. \A c \in Clients, y \in Peers : At(c, y)' => up'[c] = <<>> /\ proc'[c] \in {"waiting", "gone"}
    BY <1>1, <1>5, <1>18, <2>1 DEF TokensOK
  <2> QED
    BY <2>2, <2>3, <2>4, <2>5 DEF TokensOK
<1>20. ASSUME NEW t \in Switches, proc'[t] # "gone"
       PROVE  Orderly(Wire(t))'
  <2>1. CASE t = s
    <3>1. Wire(t)' = Tail(Wire(s))
      BY <1>10, <2>1 DEF Wire
    <3> QED
      BY <1>1, <1>5, <3>1 DEF Orderly
  <2>2. CASE t # s
    <3>1. Wire(t)' = Wire(t)
      BY <1>1, <1>6, <1>7, <2>2 DEF Wire, Peers
    <3> QED
      BY <1>1, <1>20, <3>1 DEF Orderly, LinesOK
  <2> QED
    BY <2>1, <2>2
<1>21. \A t \in Switches, c \in Clients : At(c, t)' => At(c, t)
  BY <1>1, <1>18 DEF Peers
<1>22. \A t \in Switches, c \in Clients :
         At(c, t)' /\ mgrEnd'[t] = "open" /\ proc'[c] # "gone" => OnChannel(c)'
  BY <1>1, <1>21 DEF LinesOK, OnChannel
<1>23. ASSUME NEW c \in Clients, NEW e \in Clients, At(c, e)', c # e
       PROVE  proc'[c] = "gone"
  <2>1. CASE c = x
    <3>1. e = d
      BY <1>18, <1>23, <2>1 DEF Peers
    <3>2. proc[x] # "gone" => OnChannel(x)
      BY <1>5 DEF LinesOK
    <3>3. OnChannel(x) => x = d
      BY DEF OnChannel
    <3> QED
      BY <1>1, <1>23, <2>1, <3>1, <3>2, <3>3
  <2>2. CASE c # x
    BY <1>1, <1>18, <1>23, <2>2 DEF LinesOK, Peers
  <2> QED
    BY <2>1, <2>2
<1>24. ASSUME NEW h \in rm', h.kind = "Control_channel"
       PROVE  Settled(fds[h.fd])'
  <2>1. fds'[h.fd] = fds[h.fd] /\ fds[h.fd] \in Clients /\ Settled(fds[h.fd])
    BY <1>24, DoomedClient DEF LinesOK
  <2>2. up'[fds[h.fd]] = up[fds[h.fd]]
    BY <1>1, <1>6, <2>1 DEF Peers
  <2> QED
    BY <1>1, <1>21, <2>1, <2>2 DEF Settled
<1> QED
  BY <1>19, <1>20, <1>22, <1>23, <1>24 DEF LinesOK

(* A switch reads a request and answers it.                                    *)
LEMMA LinesIncoming ==
  ASSUME Base, Steady, TokensOK, LinesOK, NEW s \in Switches, fp_mgr_incoming(s)
  PROVE  TokensOK' /\ LinesOK'
<1>1. /\ down[s] # <<>> /\ down' = [down EXCEPT ![s] = Tail(@)] /\ UNCHANGED <<fds, mgrEnd, loop, got>>
      /\ \/ proc' = [proc EXCEPT ![s] = "gone"] /\ UNCHANGED up
         \/ up' = [up EXCEPT ![s] = Append(@, Head(down[s]))] /\ UNCHANGED proc
  BY DEF fp_mgr_incoming, Reply
<1>2. s \in Peers /\ s \notin Clients
  BY ProcessAssumption DEF Peers
<1>3. up[s] \in Seq(Clients) /\ down[s] \in Seq(Clients)
  BY DEF TokensOK
<1> DEFINE x == Head(down[s])
<1>4. /\ x \in Clients /\ Tail(down[s]) \in Seq(Clients) /\ Append(up[s], x) \in Seq(Clients)
      /\ ToSet(Append(up[s], x)) = ToSet(up[s]) \cup {x}
  BY <1>1, <1>3, HeadTailProperties, ToSetAppend
<1>5. Append(up[s], x) \o Tail(down[s]) = up[s] \o down[s]
  BY <1>1, <1>3, ConcatMove
<1>6. down'[s] = Tail(down[s]) /\ \A q \in Peers : q # s => down'[q] = down[q] /\ up'[q] = up[q]
  BY <1>1, <1>2 DEF Base, KernelOK
<1>7. \/ proc'[s] = "gone" /\ up'[s] = up[s]
      \/ proc'[s] = proc[s] /\ up'[s] = Append(up[s], x)
  BY <1>1, <1>2 DEF Base, KernelOK, ProcsOK
<1>8. \A q \in Peers : q # s => proc'[q] = proc[q]
  BY <1>1, <1>2 DEF Base, ProcsOK
<1>9. ToSet(Tail(down[s])) \subseteq ToSet(down[s]) /\ x \in ToSet(down[s])
  BY <1>1, <1>3, TailElements
<1> HIDE DEF x
<1>10. \A c \in Clients : c \in Peers /\ c # s
  BY <1>2 DEF Peers
<1>11. \A c, y : y \in Peers /\ At(c, y)' => At(c, y)
  <2> SUFFICES ASSUME NEW c, NEW y \in Peers, At(c, y)'
               PROVE  At(c, y)
    OBVIOUS
  <2>1. CASE y = s
    BY <1>2, <1>4, <1>6, <1>7, <1>9, <2>1 DEF At
  <2>2. CASE y # s
    BY <1>1, <1>6, <2>2 DEF At
  <2> QED
    BY <2>1, <2>2
<1>12. TokensOK'
  <2>1. \A c \in Clients : up'[c] \in {<<>>, <<c>>} /\ (proc'[c] \in {"new", "connected"} => up'[c] = <<>>)
    BY <1>6, <1>8, <1>10 DEF TokensOK
  <2>2. ASSUME NEW t \in Switches
        PROVE  /\ up'[t] \in Seq(Clients) /\ down'[t] \in Seq(Clients)
               /\ mgrEnd'[t] \in {"none", "queued"} => up'[t] = <<>>
    <3>1. CASE t = s
      <4>1. mgrEnd[s] \notin {"none", "queued"}
        BY <1>1, <1>2 DEF Base, EndsOK
      <4> QED
        BY <1>1, <1>3, <1>4, <1>6, <1>7, <3>1, <4>1
    <3>2. CASE t # s
      BY <1>1, <1>6, <3>2 DEF TokensOK, Peers
    <3> QED
      BY <3>1, <3>2
  <2>3. \A c \in Clients, y, z \in Peers : At(c, y)' /\ At(c, z)' => y = z
    BY <1>11 DEF TokensOK
  <2>4. \A c \in Clients, y \in Peers : At(c, y)' => up'[c] = <<>> /\ proc'[c] \in {"waiting", "gone"}
    BY <1>6, <1>8, <1>10, <1>11 DEF TokensOK
  <2> QED
    BY <2>1, <2>2, <2>3, <2>4 DEF TokensOK
<1>13. UNCHANGED <<ctrl_, rm>>
  BY <1>1 DEF loop
<1>14. ASSUME NEW t \in Switches, proc'[t] # "gone"
       PROVE  Orderly(Wire(t))'
  <2>1. t \in Peers /\ proc[t] # "gone"
    BY <1>7, <1>8, <1>14 DEF Peers
  <2>2. Wire(t)' = Wire(t)
    <3>1. CASE t = s
      <4>1. up'[t] \o down'[t] = up[s] \o down[s]
        BY <1>5, <1>6, <1>7, <1>14, <3>1 DEF x
      <4> QED
        BY <3>1, <4>1 DEF Wire
    <3>2. CASE t # s
      BY <1>6, <2>1, <3>2 DEF Wire
    <3> QED
      BY <3>1, <3>2
  <2>3. Orderly(Wire(t)) /\ Wire(t) \in Seq(Clients)
    BY <2>1, WireAt DEF LinesOK
  <2>4. \A c \in Clients : proc[c] = "gone" => proc'[c] = "gone"
    BY <1>8, <1>10
  <2>5. \A j, k \in DOMAIN Wire(t) : j < k => Wire(t)[j] # Wire(t)[k] /\ proc'[Wire(t)[j]] = "gone"
    BY <2>3, <2>4, OrderlyKept
  <2> QED
    BY <2>2, <2>5 DEF Orderly
<1>15. \A t \in Switches, c \in Clients :
         At(c, t)' /\ mgrEnd'[t] = "open" /\ proc'[c] # "gone" => OnChannel(c)'
  BY <1>1, <1>8, <1>10, <1>11, <1>13 DEF LinesOK, OnChannel, Peers
<1>16. \A c, e \in Clients : At(c, e)' /\ c # e => proc'[c] = "gone"
  BY <1>8, <1>10, <1>11 DEF LinesOK
<1>17. ASSUME NEW h \in rm', h.kind = "Control_channel"
       PROVE  Settled(fds[h.fd])'
  <2>1. PICK d \in Clients : fds[h.fd] = d /\ fds'[h.fd] = d /\ Settled(d)
    BY <1>1, <1>13, <1>17, DoomedClient DEF LinesOK
  <2>2. up'[d] = up[d] /\ proc'[d] = proc[d]
    BY <1>6, <1>8, <1>10
  <2>3. \A t \in Switches : At(d, t)' => At(d, t)
    BY <1>11 DEF Peers
  <2>4. Settled(d)'
    BY <2>1, <2>2, <2>3 DEF Settled
  <2> QED
    BY <2>1, <2>4 DEF Settled
<1> QED
  BY <1>12, <1>14, <1>15, <1>16, <1>17 DEF LinesOK

(* A command is read by flowmgr.                                               *)
LEMMA LinesControlChannel ==
  ASSUME Base, Steady, TokensOK, LinesOK, NEW h, Dispatch(h), h.kind = "Control_channel",
         Control_channel_on_input(h)
  PROVE  TokensOK' /\ LinesOK'
<1>1. PICK c \in Clients :
           /\ h = ctrl_ /\ fds[h.fd] = c /\ h.fd \in Fds /\ h.fd \in DOMAIN ios /\ mgrEnd[c] = "open"
           /\ UNCHANGED <<fds, backlog, mgrEnd, ps, ios, ctrl_, switch_, phase, procs>>
           /\ \/ proc[c] = "gone" /\ up[c] = <<>> /\ rm' = rm \cup {h} /\ UNCHANGED <<up, down>>
              \/ /\ up[c] # <<>> /\ up' = [up EXCEPT ![c] = Tail(@)]
                 /\ \/ rm' = rm \cup {h} /\ UNCHANGED down
                    \/ /\ UNCHANGED rm /\ ~Fatal(h)
                       /\ \/ /\ Outcome(cmd[up[c][1]]) = "forward"
                             /\ down' = Delivered(switch_.fd, up[c][1])
                          \/ Outcome(cmd[up[c][1]]) = "error" /\ down' = Delivered(h.fd, "rejected")
                          \/ Outcome(cmd[up[c][1]]) = "ignore" /\ UNCHANGED down
  BY ControlChannelStep
<1>2. c \in Peers /\ UNCHANGED <<proc, got>> /\ OnChannel(c)
  <2>1. h # Null
    BY <1>1, Dispatched, HandlerAt DEF Base
  <2> QED
    BY <1>1, <2>1 DEF Peers, procs, OnChannel
<1>3. ASSUME up'[c] = <<>>, \A q \in Peers : q # c => up'[q] = up[q],
             \A s \in Switches : down'[s] = down[s], \A d \in Clients : c \in Clients /\ ToSet(down'[d]) \cap Clients = ToSet(down[d]) \cap Clients,
             rm' = rm \/ (rm' = rm \cup {h} /\ Settled(c)')
      PROVE  TokensOK' /\ LinesOK'
  <2>1. Advanced /\ EndsAdvanced
    BY <1>1, <1>2 DEF Advanced, EndsAdvanced
  <2>2. ChannelsKept
    BY <1>1, <1>3 DEF ChannelsKept, OnChannel
  <2>3. \A s \in Switches : up'[s] = up[s] /\ down'[s] = down[s]
    BY <1>3, ProcessAssumption DEF Peers
  <2>4. \A d \in Clients : up'[d] \in {up[d], <<>>}
    BY <1>3 DEF Peers
  <2>5. \A d, e \in Clients : At(d, e)' => At(d, e)
    BY <1>2, <1>3, ProcessAssumption DEF At
  <2> QED
    BY <2>1, <2>2, <2>3, <2>4, <2>5, DataKept
<1>4. CASE up[c] = <<>>
  BY <1>1, <1>2, <1>3, <1>4 DEF Settled
<1>5. CASE up[c] # <<>>
  <2>1. /\ up[c] = <<c>> /\ up' = [up EXCEPT ![c] = Tail(@)] /\ proc[c] \in {"waiting", "gone"}
        /\ \A x \in Peers : ~At(c, x)
    BY <1>1, <1>2, <1>5 DEF TokensOK, Base, ProcsOK
  <2>2. up'[c] = <<>> /\ \A q \in Peers : q # c => up'[q] = up[q]
    BY <1>2, <2>1 DEF Base, KernelOK
  <2>3. CASE rm' = rm \cup {h} /\ UNCHANGED down
    <3>1. \A s \in Switches : ~At(c, s)'
      BY <2>1, <2>2, <2>3, ProcessAssumption DEF At, Peers
    <3>2. Settled(c)'
      BY <1>2, <2>1, <2>2, <3>1 DEF Settled
    <3> QED
      BY <1>3, <2>2, <2>3, <3>2
  <2>4. CASE UNCHANGED <<rm, down>>
    BY <1>3, <2>2, <2>4
  <2>5. CASE UNCHANGED rm /\ down' = Delivered(h.fd, "rejected")
    <3>1. \A q \in Peers : down'[q] = IF fds[h.fd] = q THEN Append(down[q], "rejected") ELSE down[q]
      <4>1. \A fd, msg : msg \in Messages => \A q \in Peers :
              Delivered(fd, msg)[q] = IF fds[fd] = q THEN Append(down[q], msg) ELSE down[q]
        BY DeliveredTo DEF Base
      <4>2. "rejected" \in Messages
        BY DEF Messages
      <4> QED
        BY <2>5, <4>1, <4>2
    <3>2. \A s \in Switches : down'[s] = down[s]
      BY <1>1, <3>1, ProcessAssumption DEF Peers
    <3>3. "rejected" \notin Clients /\ "rejected" \in Messages
      BY ProcessAssumption DEF Peers, Messages
    <3>4. ASSUME NEW d \in Clients
          PROVE  ToSet(down'[d]) \cap Clients = ToSet(down[d]) \cap Clients
      <4>1. d \in Peers /\ down[d] \in Seq(Messages)
        BY DEF Peers, Base, KernelOK
      <4>2. ToSet(Append(down[d], "rejected")) = ToSet(down[d]) \cup {"rejected"}
        BY <3>3, <4>1, ToSetAppend
      <4> QED
        BY <3>1, <3>3, <4>1, <4>2
    <3> QED
      BY <1>3, <2>2, <2>5, <3>2, <3>4
  <2>6. CASE UNCHANGED rm /\ ~Fatal(h) /\ down' = Delivered(switch_.fd, up[c][1])
    <3>1. switch_ # Null
      BY <1>2 DEF OnChannel, Steady, NeededOK
    <3> DEFINE s == fds[switch_.fd]
    <3>2. s \in Switches /\ s \in Peers /\ mgrEnd[s] = "open"
      BY <3>1, SwitchAt DEF Steady
    <3>3. up[c][1] = c
      BY <2>1
    <3>4. down' = [down EXCEPT ![s] = Append(@, c)]
      BY <2>6, <3>2, <3>3 DEF Delivered
    <3> HIDE DEF s
    <3> QED
      BY <1>1, <1>2, <1>5, <2>1, <2>6, <3>2, <3>4, LinesForward
  <2> QED
    BY <1>1, <1>5, <2>3, <2>4, <2>5, <2>6
<1> QED
  BY <1>4, <1>5

(* A reply is read by flowmgr, or the end of the flowpath's connection.        *)
LEMMA LinesSwitchChannel ==
  ASSUME Base, Steady, TokensOK, LinesOK, NEW h, Dispatch(h), h.kind = "Switch_channel",
         Switch_channel_on_input(h)
  PROVE  TokensOK' /\ LinesOK'
<1>1. PICK s \in Switches :
           /\ h = switch_ /\ fds[h.fd] = s /\ h.fd \in Fds /\ h.fd \in DOMAIN ios /\ mgrEnd[s] = "open"
           /\ UNCHANGED <<fds, backlog, mgrEnd, ps, ios, ctrl_, switch_, phase, procs>>
           /\ \/ proc[s] = "gone" /\ rm' = rm \cup {h} /\ UNCHANGED <<up, down>>
              \/ /\ up[s] # <<>> /\ up' = [up EXCEPT ![s] = Tail(@)]
                 /\ UNCHANGED rm /\ ctrl_ # Null /\ ~Sigpipe(ctrl_.fd)
                 /\ down' = Delivered(ctrl_.fd, up[s][1])
  BY SwitchChannelStep
<1>2. CASE rm' = rm \cup {h} /\ UNCHANGED <<up, down>>
  BY <1>1, <1>2, LinesSame
<1>3. CASE /\ up[s] # <<>> /\ up' = [up EXCEPT ![s] = Tail(@)]
           /\ UNCHANGED rm /\ ctrl_ # Null /\ ~Sigpipe(ctrl_.fd)
           /\ down' = Delivered(ctrl_.fd, up[s][1])
  <2> DEFINE d == fds[ctrl_.fd]
  <2>1. d \in Clients /\ d \in Peers /\ OnChannel(d)
    BY <1>3, ControlAt DEF Steady, OnChannel
  <2>2. down' = [down EXCEPT ![d] = Append(@, up[s][1])]
    BY <1>3, <2>1 DEF Delivered
  <2>3. proc[s] # "gone"
    <3>1. h # Null
      BY Dispatched, HandlerAt DEF Base
    <3> QED
      BY <1>1, <1>3, <3>1 DEF Steady, NeededOK
  <2> HIDE DEF d
  <2> QED
    BY <1>1, <1>3, <2>1, <2>2, <2>3, LinesReply
<1> QED
  BY <1>1, <1>2, <1>3

(* The lines hold after every step.                                            *)
LEMMA LinesProcesses ==
  ASSUME Base, Steady, TokensOK, LinesOK,
         \/ \E c \in Clients : flowctl_connect(c) \/ flowctl_send(c) \/ flowctl_recv(c) \/ kill(c)
         \/ \E s \in Switches : \/ flowpath_open(s) \/ fp_mgr_incoming(s)
                                \/ fp_mgr_incoming_closed(s) \/ flowpath_exit(s)
  PROVE  TokensOK' /\ LinesOK'
<1>0. \A q \in Peers : proc[q] \in {"new", "connected", "waiting", "gone"}
  BY DEF Base, ProcsOK
<1>1. ASSUME NEW p \in Peers, connect(p)
      PROVE  TokensOK' /\ LinesOK'
  <2>1. /\ UNCHANGED <<fds, loop, up, down, got>> /\ proc[p] = "new" /\ mgrEnd[p] = "none"
        /\ \A q \in Peers : q # p => proc'[q] = proc[q] /\ mgrEnd'[q] = mgrEnd[q]
        /\ mgrEnd'[p] \in {"none", "queued"}
        /\ p \in Clients => proc'[p] \in {"connected", "gone"}
    BY <1>1 DEF connect, Base, KernelOK, ProcsOK, EndsOK
  <2>2. Advanced /\ EndsAdvanced
    BY <2>1 DEF Advanced, EndsAdvanced, Peers
  <2>3. \A c, d \in Clients : At(c, d)' => At(c, d)
    BY <2>1 DEF At
  <2> QED
    BY <2>1, <2>2, <2>3, LinesProcess
<1>2. ASSUME NEW c \in Clients, flowctl_send(c)
      PROVE  TokensOK' /\ LinesOK'
  <2>1. CASE mgrEnd[c] = "closed"
    <3>1. /\ UNCHANGED <<fds, mgrEnd, loop, up, down, got>> /\ proc' = [proc EXCEPT ![c] = "gone"]
      BY <1>2, <2>1 DEF flowctl_send
    <3>2. Advanced /\ EndsAdvanced
      BY <3>1 DEF Advanced, EndsAdvanced, Base, ProcsOK, Peers
    <3>3. \A d, e \in Clients : At(d, e)' => At(d, e)
      BY <3>1 DEF At
    <3> QED
      BY <3>1, <3>2, <3>3, LinesProcess
  <2>2. CASE mgrEnd[c] # "closed"
    BY <1>2, <2>2, LinesSend
  <2> QED
    BY <2>1, <2>2
<1>3. ASSUME NEW c \in Clients, flowctl_recv(c)
      PROVE  TokensOK' /\ LinesOK'
  <2>1. /\ UNCHANGED <<fds, mgrEnd, loop, up>> /\ proc' = [proc EXCEPT ![c] = "gone"]
        /\ got' = [got EXCEPT ![c] = down[c]] /\ down' = [down EXCEPT ![c] = <<>>]
    BY <1>3 DEF flowctl_recv
  <2>2. Advanced /\ EndsAdvanced
    BY <2>1 DEF Advanced, EndsAdvanced, Base, ProcsOK, Peers
  <2>3. \A s \in Switches : down'[s] = down[s]
    BY <2>1, ProcessAssumption DEF Base, KernelOK, Peers
  <2>4. ASSUME NEW d \in Clients, NEW e \in Clients, At(d, e)'
        PROVE  At(d, e)
    <3>1. CASE e = c
      <4>1. got'[e] = down[e] /\ down'[e] = <<>>
        BY <2>1, <3>1 DEF Base, KernelOK, ProcsOK, Peers
      <4> QED
        BY <2>4, <4>1, ToSetEmpty, ProcessAssumption DEF At
    <3>2. CASE e # c
      <4>1. got'[e] = got[e] /\ down'[e] = down[e]
        BY <2>1, <3>2 DEF Base, KernelOK, ProcsOK, Peers
      <4> QED
        BY <2>4, <4>1, ProcessAssumption DEF At
    <3> QED
      BY <3>1, <3>2
  <2> QED
    BY <2>1, <2>2, <2>3, <2>4, LinesProcess
<1>4. ASSUME NEW p \in Peers, UNCHANGED <<fds, mgrEnd, loop, up, down, got>>,
             proc' = [proc EXCEPT ![p] = "gone"]
      PROVE  TokensOK' /\ LinesOK'
  <2>1. Advanced /\ EndsAdvanced
    BY <1>4 DEF Advanced, EndsAdvanced, Base, ProcsOK, Peers
  <2>2. \A d, e \in Clients : At(d, e)' => At(d, e)
    BY <1>4 DEF At
  <2> QED
    BY <1>4, <2>1, <2>2, LinesProcess
<1>5. ASSUME NEW c \in Clients, kill(c)
      PROVE  TokensOK' /\ LinesOK'
  BY <1>4, <1>5 DEF kill, kernel, Peers
<1>6. ASSUME NEW s \in Switches, fp_mgr_incoming_closed(s) \/ flowpath_exit(s)
      PROVE  TokensOK' /\ LinesOK'
  BY <1>4, <1>6 DEF fp_mgr_incoming_closed, flowpath_exit, kernel, Peers
<1>7. ASSUME NEW p \in Peers, flowctl_connect(p) \/ flowpath_open(p)
      PROVE  TokensOK' /\ LinesOK'
  BY <1>1, <1>7 DEF flowctl_connect, flowpath_open
<1> QED
  BY <1>2, <1>3, <1>5, <1>6, <1>7, LinesIncoming DEF Peers

LEMMA LinesNext ==
  ASSUME Base, Steady, TokensOK, LinesOK, [Next]_vars
  PROVE  TokensOK' /\ LinesOK'
<1>1. CASE poll \/ reset \/ UNCHANGED vars
  <2>1. UNCHANGED <<fds, mgrEnd, up, down, ctrl_, procs, rm>>
    BY <1>1 DEF poll, reset, vars, kernel, loop
  <2> QED
    BY <2>1, LinesSame
<1>2. CASE Crash
  BY <1>2, LinesExit DEF Crash
<1>3. CASE process_events
  <2> DEFINE h == ios[ps[Next_i].fd]
  <2>1. CASE Dispatch(h) /\ Handled(h)
    <3> HIDE DEF h
    <3> QED
      BY <2>1, LinesServer, LinesControlChannel, LinesSwitchChannel DEF Handled
  <2> QED
    BY <1>2, <1>3, <2>1, EventCases
<1>4. ASSUME NEW h \in rm, unregister_handler(h)
      PROVE  TokensOK' /\ LinesOK'
  BY <1>2, <1>4, RemovalCases, LinesRemoves DEF Base
<1>5. CASE signal_handler
  BY <1>5, LinesExit DEF signal_handler, Crash
<1> QED
  BY <1>1, <1>3, <1>4, <1>5, LinesProcesses DEF Next, Mgr

LEMMA LinesInvariant ==
  ASSUME SteadyFaults
  PROVE  Spec => [](Base /\ Steady /\ TokensOK /\ LinesOK)
<1>1. Init => Base /\ Steady /\ TokensOK /\ LinesOK
  BY BaseInit, SteadyInit, LinesInit
<1>2. Base /\ Steady /\ TokensOK /\ LinesOK /\ [Next]_vars => (Base /\ Steady /\ TokensOK /\ LinesOK)'
  BY BaseNext, SteadyNext, LinesNext
<1> QED
  BY <1>1, <1>2, PTL DEF Spec

(* Of the requests and replies between flowmgr and a switch, whoever asked for *)
(* one that is not the last has left, so that the reply to a flowctl which     *)
(* still waits answers the most recent request (switch.cpp:86-87).             *)
THEOREM FlowMgrOnlyLatestAwaited ==
  ASSUME SteadyFaults
  PROVE  Spec => []OnlyLatestAwaited
<1>1. Base /\ Steady /\ TokensOK /\ LinesOK => OnlyLatestAwaited
  BY DEF LinesOK, Orderly, OnlyLatestAwaited
<1> QED
  BY <1>1, LinesInvariant, PTL

(* A reply of the switch reaches one flowctl at most, and another one than the *)
(* one that asked only if that has left (switch.cpp:103-104): also when        *)
(* clients are killed and followed by others.                                  *)
THEOREM FlowMgrReplyGoesOnce ==
  ASSUME SteadyFaults
  PROVE  Spec => []ReplyGoesOnce
<1>1. Base /\ Steady /\ TokensOK /\ LinesOK => ReplyGoesOnce
  <2> SUFFICES ASSUME Base, Steady, TokensOK, LinesOK
               PROVE  ReplyGoesOnce
    OBVIOUS
  <2>1. \A c, d \in Clients : c \in ToSet(got[d]) => At(c, d)
    BY DEF At
  <2>2. \A c, d, e \in Clients : At(c, d) /\ At(c, e) => e = d
    BY DEF TokensOK, Peers
  <2>3. \A c, d \in Clients : At(c, d) /\ c # d => proc[c] = "gone"
    BY DEF LinesOK
  <2> QED
    BY <2>1, <2>2, <2>3 DEF ReplyGoesOnce
<1> QED
  BY <1>1, LinesInvariant, PTL

-----------------------------------------------------------------------------
(* How often a command is executed *)

(* The command of c is still to be executed, if ever.                          *)
Fresh(c) ==
  \/ up[c] # <<>>
  \/ proc[c] \in {"new", "connected"}
  \/ \E s \in Switches : c \in ToSet(down[s])

(* A flowpath has executed the request it read, and executes it again when its *)
(* connection ends.                                                            *)
RunsOK ==
  /\ inbuf \in [Switches -> Clients \cup {Null}]
  /\ \A c \in Clients : Fresh(c) => served[c] = 0 /\ \A s \in Switches : inbuf[s] # c
  /\ \A s, t \in Switches : inbuf[s] # Null /\ inbuf[s] = inbuf[t] => s = t
  /\ \A c \in Clients : \/ served[c] \in {0, 1}
                        \/ served[c] = 2 /\ \E s \in Switches :
                             proc[s] = "gone" /\ mgrEnd[s] = "closed" /\ inbuf[s] = c

LEMMA RunsInit == Init => RunsOK
<1> SUFFICES ASSUME Init
             PROVE  RunsOK
  OBVIOUS
<1>1. (\A c \in Clients : served[c] = 0) /\ inbuf = [s \in Switches |-> Null] /\ Null \notin Clients
  BY ProcessAssumption DEF Init, Peers
<1> QED
  BY <1>1 DEF RunsOK

(* Nothing is executed, and what was done with stays so.                       *)
LEMMA RunsKept ==
  ASSUME RunsOK, UNCHANGED <<inbuf, served>>, \A c \in Clients : Fresh(c)' => Fresh(c),
         \A s \in Switches : proc[s] = "gone" => proc'[s] = "gone",
         \A s \in Switches : mgrEnd[s] = "closed" => mgrEnd'[s] = "closed"
  PROVE  RunsOK'
<1>1. \A c \in Clients : \/ served'[c] \in {0, 1}
                         \/ served'[c] = 2 /\ \E s \in Switches :
                              proc'[s] = "gone" /\ mgrEnd'[s] = "closed" /\ inbuf'[s] = c
  BY DEF RunsOK
<1>2. \A c \in Clients : Fresh(c)' => served'[c] = 0 /\ \A s \in Switches : inbuf'[s] # c
  BY DEF RunsOK
<1> QED
  BY <1>1, <1>2 DEF RunsOK

(* A step that sends no request.                                               *)
LEMMA RunsSame ==
  ASSUME RunsOK, UNCHANGED <<inbuf, served>>,
         \A c \in Clients : up'[c] # <<>> => up[c] # <<>> \/ proc[c] = "connected",
         \A c \in Clients : proc'[c] \in {"new", "connected"} => proc[c] \in {"new", "connected"},
         \A s \in Switches : down'[s] = down[s],
         \A s \in Switches : proc[s] = "gone" => proc'[s] = "gone",
         \A s \in Switches : mgrEnd[s] = "closed" => mgrEnd'[s] = "closed"
  PROVE  RunsOK'
<1>1. \A c \in Clients : Fresh(c)' => Fresh(c)
  BY DEF Fresh
<1> QED
  BY <1>1, RunsKept

(* The end of a line is a line.                                                *)
LEMMA OrderlyEnd ==
  ASSUME NEW u \in Seq(Clients), NEW d \in Seq(Clients), Orderly(u \o d)
  PROVE  Orderly(d)
<1>1. /\ u \o d \in Seq(Clients) /\ Len(u \o d) = Len(u) + Len(d)
      /\ \A j \in 1 .. Len(u) + Len(d) : (u \o d)[j] = IF j <= Len(u) THEN u[j] ELSE d[j - Len(u)]
  BY ConcatProperties
<1>2. /\ DOMAIN d = 1 .. Len(d) /\ Len(u) \in Nat /\ Len(d) \in Nat
      /\ DOMAIN (u \o d) = 1 .. Len(u) + Len(d)
  BY <1>1, LenProperties
<1> DEFINE w == u \o d
<1> HIDE DEF w
<1>3. ASSUME NEW j \in DOMAIN d
      PROVE  j + Len(u) \in DOMAIN w /\ w[j + Len(u)] = d[j] /\ j \in Nat
  <2>1. j + Len(u) \in 1 .. Len(u) + Len(d) /\ ~(j + Len(u) <= Len(u)) /\ (j + Len(u)) - Len(u) = j /\ j \in Nat
    BY <1>2
  <2>2. w[j + Len(u)] = d[(j + Len(u)) - Len(u)]
    BY <1>1, <2>1 DEF w
  <2> QED
    BY <1>2, <2>1, <2>2 DEF w
<1>4. ASSUME NEW j \in DOMAIN d, NEW k \in DOMAIN d, j < k
      PROVE  d[j] # d[k] /\ proc[d[j]] = "gone"
  <2>1. j + Len(u) < k + Len(u)
    BY <1>2, <1>3, <1>4
  <2>2. w[j + Len(u)] # w[k + Len(u)] /\ proc[w[j + Len(u)]] = "gone"
    BY <1>3, <2>1 DEF Orderly, w
  <2> QED
    BY <1>3, <2>2
<1> QED
  BY <1>4 DEF Orderly

(* A flowpath executes the request it reads, which nobody else has or had.     *)
LEMMA RequestRead ==
  ASSUME Base, TokensOK, LinesOK, NEW s \in Switches, fp_mgr_incoming(s)
  PROVE  LET x == Head(down[s])
         IN  /\ x \in Clients /\ x \in ToSet(down[s]) /\ inbuf' = [inbuf EXCEPT ![s] = x]
             /\ served'[x] = served[x] + 1 /\ \A c \in Clients : c # x => served'[c] = served[c]
             /\ up'[x] = <<>> /\ proc'[x] \in {"waiting", "gone"}
             /\ \A t \in Switches : x \notin ToSet(down'[t]) /\ ToSet(down'[t]) \subseteq ToSet(down[t])
             /\ \A c \in Clients : up'[c] = up[c] /\ proc'[c] = proc[c]
             /\ \A t \in Switches : t # s => proc'[t] = proc[t]
             /\ UNCHANGED mgrEnd
<1> DEFINE x == Head(down[s])
<1>1. /\ down[s] # <<>> /\ down' = [down EXCEPT ![s] = Tail(@)] /\ proc[s] = "waiting"
      /\ inbuf' = [inbuf EXCEPT ![s] = x] /\ served' = Served(x) /\ UNCHANGED mgrEnd
      /\ \/ proc' = [proc EXCEPT ![s] = "gone"] /\ UNCHANGED up
         \/ up' = [up EXCEPT ![s] = Append(@, x)] /\ UNCHANGED proc
  BY DEF fp_mgr_incoming, Reply
<1>2. s \in Peers /\ s \notin Clients
  BY ProcessAssumption DEF Peers
<1>3. up[s] \in Seq(Clients) /\ down[s] \in Seq(Clients)
  BY DEF TokensOK
<1>4. Orderly(up[s] \o down[s])
  BY <1>1 DEF LinesOK, Wire
<1>5. Orderly(down[s])
  BY <1>3, <1>4, OrderlyEnd
<1>6. x \in Clients /\ x \in ToSet(down[s]) /\ x \notin ToSet(Tail(down[s]))
  BY <1>1, <1>3, <1>5, OrderlyTail
<1>7. ToSet(Tail(down[s])) \subseteq ToSet(down[s])
  BY <1>1, <1>3, TailElements
<1> HIDE DEF x
<1>8. down'[s] = Tail(down[s]) /\ \A t \in Switches : t # s => down'[t] = down[t]
  BY <1>1, <1>2 DEF Base, KernelOK, Peers
<1>9. At(x, s)
  BY <1>6 DEF At
<1>10. \A t \in Switches : t # s => x \notin ToSet(down[t])
  BY <1>2, <1>6, <1>9 DEF TokensOK, At, Peers
<1>11. up[x] = <<>> /\ proc[x] \in {"waiting", "gone"}
  BY <1>2, <1>6, <1>9 DEF TokensOK
<1>12. /\ \A c \in Clients : up'[c] = up[c] /\ proc'[c] = proc[c]
       /\ \A t \in Switches : t # s => proc'[t] = proc[t]
  BY <1>1, <1>2 DEF Base, KernelOK, ProcsOK, Peers
<1>13. served'[x] = served[x] + 1 /\ \A c \in Clients : c # x => served'[c] = served[c]
  BY <1>1, <1>6, ServedCounts DEF Base, ProcsOK
<1> QED
  BY <1>1, <1>6, <1>7, <1>8, <1>10, <1>11, <1>12, <1>13 DEF x

LEMMA RunsIncoming ==
  ASSUME Base, TokensOK, LinesOK, RunsOK, NEW s \in Switches, fp_mgr_incoming(s)
  PROVE  RunsOK'
<1> DEFINE x == Head(down[s])
<1>1. /\ x \in Clients /\ x \in ToSet(down[s]) /\ inbuf' = [inbuf EXCEPT ![s] = x]
      /\ served'[x] = served[x] + 1 /\ \A c \in Clients : c # x => served'[c] = served[c]
      /\ up'[x] = <<>> /\ proc'[x] \in {"waiting", "gone"}
      /\ \A t \in Switches : x \notin ToSet(down'[t]) /\ ToSet(down'[t]) \subseteq ToSet(down[t])
      /\ \A c \in Clients : up'[c] = up[c] /\ proc'[c] = proc[c]
      /\ \A t \in Switches : t # s => proc'[t] = proc[t]
      /\ UNCHANGED mgrEnd
  BY RequestRead
<1> HIDE DEF x
<1>2. proc[s] = "waiting" /\ Null \notin Clients
  BY ProcessAssumption DEF fp_mgr_incoming, Peers
<1>3. served[x] = 0 /\ \A t \in Switches : inbuf[t] # x
  BY <1>1 DEF RunsOK, Fresh
<1>4. inbuf' \in [Switches -> Clients \cup {Null}] /\ inbuf'[s] = x /\ \A t \in Switches : t # s => inbuf'[t] = inbuf[t]
  BY <1>1 DEF RunsOK
<1>5. ASSUME NEW c \in Clients, Fresh(c)'
      PROVE  served'[c] = 0 /\ \A t \in Switches : inbuf'[t] # c
  <2>1. c # x /\ Fresh(c)
    BY <1>1, <1>5 DEF Fresh
  <2> QED
    BY <1>1, <1>4, <2>1 DEF RunsOK
<1>6. ASSUME NEW c \in Clients
      PROVE  \/ served'[c] \in {0, 1}
             \/ served'[c] = 2 /\ \E t \in Switches : proc'[t] = "gone" /\ mgrEnd'[t] = "closed" /\ inbuf'[t] = c
  <2>1. CASE c = x
    BY <1>1, <1>3, <2>1
  <2>2. CASE c # x
    BY <1>1, <1>2, <1>4, <2>2 DEF RunsOK
  <2> QED
    BY <2>1, <2>2
<1>7. \A t, r \in Switches : inbuf'[t] # Null /\ inbuf'[t] = inbuf'[r] => t = r
  BY <1>3, <1>4 DEF RunsOK
<1> QED
  BY <1>4, <1>5, <1>6, <1>7 DEF RunsOK

(* When its connection ends a flowpath executes the last request again.        *)
LEMMA RunsIncomingClosed ==
  ASSUME Base, RunsOK, NEW s \in Switches, fp_mgr_incoming_closed(s)
  PROVE  RunsOK'
<1>1. /\ proc[s] = "waiting" /\ mgrEnd[s] = "closed" /\ proc' = [proc EXCEPT ![s] = "gone"]
      /\ UNCHANGED <<mgrEnd, up, down, inbuf>>
      /\ (inbuf[s] # Null /\ served' = Served(inbuf[s])) \/ UNCHANGED served
  BY DEF fp_mgr_incoming_closed, kernel
<1>2. s \in Peers /\ s \notin Clients
  BY ProcessAssumption DEF Peers
<1>3. /\ proc'[s] = "gone" /\ (\A c \in Clients : proc'[c] = proc[c])
      /\ \A t \in Switches : proc[t] = "gone" => proc'[t] = "gone"
  BY <1>1, <1>2 DEF Base, ProcsOK, Peers
<1>4. CASE UNCHANGED served
  BY <1>1, <1>3, <1>4, RunsSame
<1>5. CASE inbuf[s] # Null /\ served' = Served(inbuf[s])
  <2>1. PICK x \in Clients : inbuf[s] = x
    BY <1>5 DEF RunsOK
  <2>2. served'[x] = served[x] + 1 /\ \A c \in Clients : c # x => served'[c] = served[c]
    BY <1>5, <2>1, ServedCounts DEF Base, ProcsOK
  <2>3. served[x] \in {0, 1}
    <3>1. x # Null
      BY ProcessAssumption DEF Peers
    <3>2. \A t \in Switches : inbuf[t] = x => t = s
      BY <2>1, <3>1 DEF RunsOK
    <3>3. ~\E t \in Switches : proc[t] = "gone" /\ mgrEnd[t] = "closed" /\ inbuf[t] = x
      BY <1>1, <3>2
    <3> QED
      BY <3>3 DEF RunsOK
  <2>4. served'[x] \in {0, 1} \/ (served'[x] = 2 /\ proc'[s] = "gone" /\ mgrEnd'[s] = "closed" /\ inbuf'[s] = x)
    BY <1>1, <1>3, <2>1, <2>2, <2>3
  <2>5. ASSUME NEW c \in Clients
        PROVE  \/ served'[c] \in {0, 1}
               \/ served'[c] = 2 /\ \E t \in Switches : proc'[t] = "gone" /\ mgrEnd'[t] = "closed" /\ inbuf'[t] = c
    <3>1. CASE c = x
      BY <2>4, <3>1
    <3>2. CASE c # x
      BY <1>1, <1>3, <2>2, <3>2 DEF RunsOK
    <3> QED
      BY <3>1, <3>2
  <2>6. ASSUME NEW c \in Clients, Fresh(c)'
        PROVE  served'[c] = 0 /\ \A t \in Switches : inbuf'[t] # c
    <3>1. Fresh(c)
      BY <1>1, <1>3, <2>6 DEF Fresh
    <3> QED
      BY <1>1, <2>1, <2>2, <3>1 DEF RunsOK
  <2> QED
    BY <1>1, <2>5, <2>6 DEF RunsOK
<1> QED
  BY <1>1, <1>4, <1>5

LEMMA RunsProcesses ==
  ASSUME Base, TokensOK, LinesOK, RunsOK,
         \/ \E c \in Clients : flowctl_connect(c) \/ flowctl_send(c) \/ flowctl_recv(c) \/ kill(c)
         \/ \E s \in Switches : \/ flowpath_open(s) \/ fp_mgr_incoming(s)
                                \/ fp_mgr_incoming_closed(s) \/ flowpath_exit(s)
  PROVE  RunsOK'
<1>0. (\A c \in Clients : c \in Peers) /\ (\A s \in Switches : s \in Peers /\ s \notin Clients)
  BY ProcessAssumption DEF Peers
<1>1. ASSUME NEW p \in Peers, connect(p)
      PROVE  RunsOK'
  <2>1. /\ UNCHANGED <<up, down, inbuf, served>> /\ proc[p] = "new" /\ mgrEnd[p] = "none"
        /\ \A q \in Peers : q # p => proc'[q] = proc[q] /\ mgrEnd'[q] = mgrEnd[q]
    BY <1>1 DEF connect, Base, KernelOK, ProcsOK, EndsOK
  <2> QED
    BY <1>0, <2>1, RunsSame
<1>2. ASSUME NEW c \in Clients, flowctl_send(c) \/ flowctl_recv(c) \/ kill(c)
      PROVE  RunsOK'
  <2>1. /\ UNCHANGED <<mgrEnd, inbuf, served>>
        /\ \A q \in Peers : q # c => proc'[q] = proc[q] /\ up'[q] = up[q] /\ down'[q] = down[q]
        /\ up'[c] = up[c] \/ proc[c] = "connected"
        /\ proc'[c] \in {"waiting", "gone"}
    BY <1>0, <1>2 DEF flowctl_send, flowctl_recv, kill, kernel, Base, KernelOK, ProcsOK
  <2> QED
    BY <1>0, <2>1, RunsSame
<1>3. ASSUME NEW s \in Switches, flowpath_exit(s)
      PROVE  RunsOK'
  <2>1. /\ UNCHANGED <<mgrEnd, up, down, inbuf, served>>
        /\ \A q \in Peers : q # s => proc'[q] = proc[q]
        /\ proc'[s] = "gone"
    BY <1>0, <1>3 DEF flowpath_exit, kernel, Base, ProcsOK
  <2> QED
    BY <1>0, <2>1, RunsSame
<1>4. ASSUME NEW p \in Peers, flowctl_connect(p) \/ flowpath_open(p)
      PROVE  RunsOK'
  BY <1>1, <1>4 DEF flowctl_connect, flowpath_open
<1> QED
  BY <1>0, <1>2, <1>3, <1>4, RunsIncoming, RunsIncomingClosed

(* The handlers of flowmgr execute nothing; what they forward is fresh.        *)
LEMMA RunsHandlers ==
  ASSUME Base, Steady, TokensOK, LinesOK, RunsOK, NEW h, Dispatch(h), Handled(h)
  PROVE  RunsOK'
<1>0. UNCHANGED <<proc, inbuf, served>>
  BY Dispatched DEF procs
<1>1. \A s \in Switches : s \in Peers /\ s \notin Clients
  BY ProcessAssumption DEF Peers
<1>2. CASE accept_failed(h)
  <2>1. UNCHANGED <<mgrEnd, up, down>>
    BY <1>2 DEF accept_failed, kernel
  <2> QED
    BY <1>0, <2>1, RunsSame
<1>3. ASSUME NEW p, NEW sd, Opens(p, sd), \A s \in Switches : down'[s] = down[s]
      PROVE  RunsOK'
  <2>1. UNCHANGED up /\ \A s \in Switches : mgrEnd[s] = "closed" => mgrEnd'[s] = "closed"
    BY <1>1, <1>3 DEF Opens
  <2> QED
    BY <1>0, <1>3, <2>1, RunsSame
<1>4. CASE h.kind = "Control_server" /\ Control_server_on_input(h) /\ ~accept_failed(h)
  <2>1. PICK p \in Clients, sd \in Fds :
           /\ Opens(p, sd)
           /\ down' = down \/ down' = [down EXCEPT ![p] = Append(@, "no switch")]
    BY <1>4, ControlServerStep
  <2>2. \A s \in Switches : down'[s] = down[s]
    BY <1>1, <2>1 DEF Base, KernelOK
  <2> QED
    BY <1>3, <2>1, <2>2
<1>5. CASE h.kind = "Switch_server" /\ Switch_server_on_input(h) /\ ~accept_failed(h)
  <2>1. PICK p \in Switches, sd \in Fds : Opens(p, sd) /\ UNCHANGED down
    BY <1>5, SwitchServerStep
  <2> QED
    BY <1>3, <2>1
<1>6. CASE h.kind = "Control_channel" /\ Control_channel_on_input(h)
  <2>1. PICK c \in Clients :
           /\ fds[h.fd] = c /\ UNCHANGED mgrEnd
           /\ \/ UNCHANGED <<up, down>>
              \/ /\ up[c] # <<>> /\ up' = [up EXCEPT ![c] = Tail(@)]
                 /\ \/ UNCHANGED down
                    \/ down' = Delivered(switch_.fd, up[c][1])
                    \/ down' = Delivered(h.fd, "rejected")
    BY <1>6, ControlChannelStep
  <2>2. CASE UNCHANGED <<up, down>>
    BY <1>0, <2>1, <2>2, RunsSame
  <2>3. CASE up[c] # <<>> /\ up' = [up EXCEPT ![c] = Tail(@)]
    <3>1. up[c] = <<c>> /\ up[c][1] = c /\ c \in Peers /\ c \in Messages
      <4>1. up[c] = <<c>>
        BY <2>3 DEF TokensOK
      <4>2. c \in Peers /\ c \in Messages
        BY DEF Peers, Messages
      <4> QED
        BY <4>1, <4>2
    <3>2. \A d \in Clients : up'[d] # <<>> => up[d] # <<>>
      BY <2>3, <3>1 DEF Base, KernelOK, Peers
    <3>3. \A fd, msg : msg \in Messages => \A q \in Peers :
              Delivered(fd, msg)[q] = IF fds[fd] = q THEN Append(down[q], msg) ELSE down[q]
      BY DeliveredTo DEF Base
    <3>4. CASE UNCHANGED down
      BY <1>0, <2>1, <3>2, <3>4, RunsSame
    <3>5. CASE down' = Delivered(h.fd, "rejected")
      <4>1. "rejected" \in Messages
        BY DEF Messages
      <4>2. \A s \in Switches : down'[s] = down[s]
        BY <1>1, <2>1, <3>3, <3>5, <4>1
      <4> QED
        BY <1>0, <2>1, <3>2, <4>2, RunsSame
    <3>6. CASE down' = Delivered(switch_.fd, up[c][1])
      <4>0. down' = Delivered(switch_.fd, c)
        BY <3>1, <3>6
      <4>1. \A s \in Switches : down'[s] = down[s] \/ down'[s] = Append(down[s], c)
        <5>1. \A q \in Peers : Delivered(switch_.fd, c)[q] = IF fds[switch_.fd] = q THEN Append(down[q], c) ELSE down[q]
          BY <3>1, <3>3
        <5> QED
          BY <1>1, <4>0, <5>1
      <4>2. ASSUME NEW s \in Switches
            PROVE  ToSet(down'[s]) \subseteq ToSet(down[s]) \cup {c}
        <5>1. down[s] \in Seq(Clients)
          BY DEF TokensOK
        <5>2. ToSet(Append(down[s], c)) = ToSet(down[s]) \cup {c}
          BY <5>1, ToSetAppend
        <5> QED
          BY <4>1, <5>2
      <4>3. \A d \in Clients : Fresh(d)' => Fresh(d)
        BY <1>0, <2>3, <3>2, <4>2 DEF Fresh
      <4> QED
        BY <1>0, <2>1, <4>3, RunsKept
    <3> QED
      BY <2>1, <2>3, <3>1, <3>4, <3>5, <3>6
  <2> QED
    BY <2>1, <2>2, <2>3
<1>7. CASE h.kind = "Switch_channel" /\ Switch_channel_on_input(h)
  <2>1. PICK s \in Switches :
           /\ UNCHANGED mgrEnd
           /\ \/ UNCHANGED <<up, down>>
              \/ /\ up[s] # <<>> /\ up' = [up EXCEPT ![s] = Tail(@)]
                 /\ ctrl_ # Null /\ down' = Delivered(ctrl_.fd, up[s][1])
    BY <1>7, SwitchChannelStep
  <2>2. CASE UNCHANGED <<up, down>>
    BY <1>0, <2>1, <2>2, RunsSame
  <2>3. CASE /\ up[s] # <<>> /\ up' = [up EXCEPT ![s] = Tail(@)]
             /\ ctrl_ # Null /\ down' = Delivered(ctrl_.fd, up[s][1])
    <3>1. \A c \in Clients : up'[c] = up[c]
      BY <1>1, <2>3 DEF Base, KernelOK, Peers
    <3>2. PICK d \in Clients : fds[ctrl_.fd] = d
      BY <2>3, ControlAt DEF Steady
    <3>3. down' = [down EXCEPT ![d] = Append(@, up[s][1])]
      BY <2>3, <3>2 DEF Delivered, Peers
    <3>4. \A t \in Switches : down'[t] = down[t]
      BY <1>1, <3>3 DEF Base, KernelOK
    <3> QED
      BY <1>0, <2>1, <3>1, <3>4, RunsSame
  <2> QED
    BY <2>1, <2>2, <2>3
<1> QED
  BY <1>2, <1>4, <1>5, <1>6, <1>7 DEF Handled

LEMMA RunsExit ==
  ASSUME Base, RunsOK, NEW how, Exit(how)
  PROVE  RunsOK'
<1>1. UNCHANGED <<up, down, procs>> /\ \A q \in Peers : mgrEnd'[q] \in {mgrEnd[q], "closed"}
  BY ExitStep
<1> QED
  BY <1>1, RunsSame DEF procs, Peers

LEMMA RunsNext ==
  ASSUME Base, Steady, TokensOK, LinesOK, RunsOK, [Next]_vars
  PROVE  RunsOK'
<1>1. CASE poll \/ reset \/ UNCHANGED vars
  <2>1. UNCHANGED <<mgrEnd, up, down, proc, inbuf, served>>
    BY <1>1 DEF poll, reset, vars, kernel, procs
  <2> QED
    BY <2>1, RunsSame
<1>2. CASE Crash
  BY <1>2, RunsExit DEF Crash
<1>3. CASE process_events
  BY <1>2, <1>3, EventCases, RunsHandlers
<1>4. ASSUME NEW h \in rm, unregister_handler(h)
      PROVE  RunsOK'
  <2>1. ASSUME NEW k, Removes(h, k)
        PROVE  RunsOK'
    <3>1. UNCHANGED <<up, down, procs>> /\ \A q \in Peers : mgrEnd'[q] \in {mgrEnd[q], "closed"}
      BY <2>1, NoHangUp, RemovesStep DEF Removes
    <3> QED
      BY <3>1, RunsSame DEF procs, Peers
  <2> QED
    BY <1>2, <1>4, <2>1, RemovalCases DEF Base
<1>5. CASE signal_handler
  BY <1>2, <1>5, RunsExit DEF signal_handler
<1> QED
  BY <1>1, <1>3, <1>4, <1>5, RunsProcesses DEF Next, Mgr

LEMMA RunsInvariant ==
  ASSUME SteadyFaults
  PROVE  Spec => [](Base /\ Steady /\ TokensOK /\ LinesOK /\ RunsOK)
<1>1. Init => Base /\ Steady /\ TokensOK /\ LinesOK /\ RunsOK
  BY BaseInit, SteadyInit, LinesInit, RunsInit
<1>2. /\ Base /\ Steady /\ TokensOK /\ LinesOK /\ RunsOK /\ [Next]_vars
      => (Base /\ Steady /\ TokensOK /\ LinesOK /\ RunsOK)'
  BY BaseNext, SteadyNext, LinesNext, RunsNext
<1> QED
  BY <1>1, <1>2, PTL DEF Spec

(* The types of all state; the channels are handlers in the map, and a         *)
(* flowpath keeps the request of a client.                                     *)
THEOREM FlowMgrTypeCorrect ==
  ASSUME SteadyFaults
  PROVE  Spec => []TypeOK
<1>1. Base /\ Steady /\ TokensOK /\ LinesOK /\ RunsOK => TypeOK
  <2> SUFFICES ASSUME Base, Steady, RunsOK
               PROVE  TypeOK
    OBVIOUS
  <2>1. {ctrl_, switch_} \subseteq Range(ios) \cup {Null}
    BY DEF Base, HandlersOK, Steady, TablesOK, Range
  <2> QED
    BY <2>1 DEF TypeOK, Base, KernelOK, ProcsOK, LoopOK, RunsOK
<1> QED
  BY <1>1, RunsInvariant, PTL

(* A command is executed once, and again only by the flowpath that executed it *)
(* last, when its connection ends (manage.c:250-263).                          *)
THEOREM FlowMgrExecutedAgainAtEnd ==
  ASSUME SteadyFaults
  PROVE  Spec => []ExecutedAgainAtEnd
<1>1. Base /\ Steady /\ TokensOK /\ LinesOK /\ RunsOK => ExecutedAgainAtEnd
  <2> SUFFICES ASSUME RunsOK, NEW c \in Clients
               PROVE  served[c] <= 1 + Cardinality({s \in Switches :
                                             proc[s] = "gone" /\ mgrEnd[s] = "closed" /\ inbuf[s] = c})
    BY DEF ExecutedAgainAtEnd
  <2> DEFINE E == {s \in Switches : proc[s] = "gone" /\ mgrEnd[s] = "closed" /\ inbuf[s] = c}
  <2>1. IsFiniteSet(E)
    BY ProcessAssumption, FS_Subset
  <2>2. Cardinality(E) \in Nat /\ (E # {} => Cardinality(E) # 0)
    BY <2>1, FS_CardinalityType, FS_EmptySet
  <2>3. served[c] \in {0, 1} \/ (served[c] = 2 /\ E # {})
    BY DEF RunsOK
  <2> HIDE DEF E
  <2>4. served[c] <= 1 + Cardinality(E)
    BY <2>2, <2>3
  <2> QED
    BY <2>4 DEF E
<1> QED
  BY <1>1, RunsInvariant, PTL

-----------------------------------------------------------------------------
(* Where, besides, nobody is killed: no flowctl leaves in mid-command          *)

CalmFaults == Faults \subseteq {"idle_restart", "large_command", "accept_fails", "signal"}

(* The client whose request is with a switch has flowmgr's channel and waits.  *)
RequestsOK ==
  \A s \in Switches, c \in Clients :
    At(c, s) /\ mgrEnd[s] = "open" => OnChannel(c) /\ proc[c] = "waiting" /\ down[c] = <<>>

(* A client leaves with its answer or when its connection is closed, and gets  *)
(* no other answer than its own.                                               *)
ClientOK(c) ==
  /\ proc[c] = "gone" /\ mgrEnd[c] # "closed" => up[c] = <<>>
  /\ down[c] # <<>> => up[c] = <<>> /\ proc[c] \in {"waiting", "gone"}
  /\ got[c] # <<>> => proc[c] = "gone"
  /\ \A d \in Clients : At(d, c) => d = c

CalmOK == RequestsOK /\ \A c \in Clients : ClientOK(c)

LEMMA CalmInit == Init => CalmOK
<1> SUFFICES ASSUME Init
             PROVE  CalmOK
  OBVIOUS
<1>1. /\ \A c \in Clients : c \in Peers /\ up[c] = <<>> /\ down[c] = <<>> /\ got[c] = <<>> /\ proc[c] = "new"
      /\ \A s \in Switches : mgrEnd[s] # "open" /\ s \notin Clients
  BY ProcessAssumption DEF Init, Peers
<1>2. \A c, d \in Clients : ~At(d, c)
  BY <1>1, ToSetEmpty, ProcessAssumption DEF At
<1> QED
  BY <1>1, <1>2 DEF CalmOK, RequestsOK, ClientOK

(* Nothing changes for the client c, unless its connection is closed.          *)
Same(c) ==
  /\ up'[c] = up[c] /\ down'[c] = down[c] /\ proc'[c] = proc[c] /\ got'[c] = got[c]
  /\ mgrEnd[c] = "closed" => mgrEnd'[c] = "closed"

(* No request is sent to a switch, no reply by one.                            *)
LEMMA CalmKept ==
  ASSUME Base, TokensOK, CalmOK,
         \A c \in Clients, s \in Switches : At(c, s)' => At(c, s),
         \A s \in Switches : mgrEnd'[s] = "open" => mgrEnd[s] \in {"open", "queued"},
         \A c \in Clients, s \in Switches : OnChannel(c) /\ mgrEnd'[s] = "open" => OnChannel(c)' \/ Settled(c),
         \A c \in Clients : Same(c) \/ ((\A s \in Switches : At(c, s) => mgrEnd[s] # "open") /\ ClientOK(c)')
  PROVE  CalmOK'
<1>1. ASSUME NEW s \in Switches, NEW c \in Clients, At(c, s)', mgrEnd'[s] = "open"
      PROVE  OnChannel(c)' /\ proc'[c] = "waiting" /\ down'[c] = <<>>
  <2>1. At(c, s) /\ s \in Peers /\ s \notin Clients
    BY <1>1, ProcessAssumption DEF Peers
  <2>2. up[s] # <<>> \/ down[s] # <<>>
    BY <2>1, ToSetEmpty DEF At
  <2>3. mgrEnd[s] # "queued"
    BY <2>1, <2>2 DEF TokensOK, Base, EndsOK
  <2>4. mgrEnd[s] = "open"
    BY <1>1, <2>3
  <2>5. OnChannel(c) /\ proc[c] = "waiting" /\ down[c] = <<>>
    BY <2>1, <2>4 DEF CalmOK, RequestsOK
  <2>6. Same(c)
    BY <2>1, <2>4
  <2>7. ~Settled(c)
    BY <2>1, <2>5 DEF Settled
  <2> QED
    BY <1>1, <2>5, <2>6, <2>7 DEF Same
<1>2. ASSUME NEW c \in Clients
      PROVE  ClientOK(c)'
  <2>1. CASE Same(c)
    <3>1. \A d : At(d, c)' => At(d, c)
      BY <2>1, ProcessAssumption DEF Same, At
    <3> QED
      BY <2>1, <3>1 DEF Same, ClientOK, CalmOK
  <2> QED
    BY <2>1
<1> QED
  BY <1>1, <1>2 DEF CalmOK, RequestsOK

(* flowmgr looks at its descriptors.                                           *)
LEMMA CalmSame ==
  ASSUME Base, TokensOK, CalmOK, UNCHANGED <<fds, mgrEnd, up, down, ctrl_, procs>>
  PROVE  CalmOK'
<1>1. UNCHANGED <<proc, got>>
  BY DEF procs
<1>2. \A c \in Clients : Same(c)
  BY <1>1 DEF Same
<1>3. \A c \in Clients, s \in Switches : At(c, s)' => At(c, s)
  BY <1>1 DEF At
<1>4. \A c \in Clients : OnChannel(c) => OnChannel(c)'
  BY DEF OnChannel
<1> QED
  BY <1>2, <1>3, <1>4, CalmKept

LEMMA CalmExit ==
  ASSUME Base, TokensOK, CalmOK, NEW how, Exit(how)
  PROVE  CalmOK'
<1>1. /\ \A q \in Peers : mgrEnd'[q] \in {mgrEnd[q], "closed"} /\ mgrEnd'[q] # "open"
      /\ UNCHANGED <<up, down, proc, got>>
  BY ExitStep DEF procs
<1>2. \A c \in Clients : Same(c)
  BY <1>1 DEF Same, Peers
<1>3. \A c \in Clients, s \in Switches : At(c, s)' => At(c, s)
  BY <1>1 DEF At
<1>4. \A s \in Switches : mgrEnd'[s] # "open"
  BY <1>1 DEF Peers
<1> QED
  BY <1>2, <1>3, <1>4, CalmKept

LEMMA CalmOpens ==
  ASSUME Base, Steady, TokensOK, CalmOK, NEW p, NEW sd, Opens(p, sd), UNCHANGED down,
         ctrl_ # Null => ctrl_' = ctrl_
  PROVE  CalmOK'
<1>1. /\ fds[sd] = Null /\ \A fd \in Fds : fds[fd] # Null => fds'[fd] = fds[fd]
      /\ mgrEnd[p] = "queued" /\ \A q \in Peers \ {p} : mgrEnd'[q] = mgrEnd[q]
      /\ UNCHANGED <<up, proc, got>>
  BY DEF Opens, procs
<1>2. \A c \in Clients : Same(c)
  BY <1>1 DEF Same, Peers
<1>3. \A c \in Clients, s \in Switches : At(c, s)' => At(c, s)
  BY <1>1 DEF At
<1>4. ASSUME NEW c \in Clients, OnChannel(c)
      PROVE  OnChannel(c)'
  <2>1. ctrl_ # Null /\ ctrl_.fd \in Fds /\ fds[ctrl_.fd] = c /\ ctrl_' = ctrl_
    BY <1>4, ControlAt DEF OnChannel, Steady
  <2>2. c # Null
    BY ProcessAssumption DEF Peers
  <2> QED
    BY <1>1, <2>1, <2>2 DEF OnChannel
<1>5. \A s \in Switches : mgrEnd'[s] = "open" => mgrEnd[s] \in {"open", "queued"}
  BY <1>1 DEF Peers
<1> QED
  BY <1>2, <1>3, <1>4, <1>5, CalmKept

LEMMA CalmRemoves ==
  ASSUME Base, Steady, TokensOK, LinesOK, CalmOK, NEW h, NEW k, Removes(h, k)
  PROVE  CalmOK'
<1>1. ~HungUp(h) /\ ClosedBy(h) = {h.fd}
  BY NoHangUp
<1>2. /\ \A q \in Peers : mgrEnd'[q] \in {mgrEnd[q], "closed"}
      /\ \A fd \in Fds : fds'[fd] = IF fd = h.fd THEN Null ELSE fds[fd]
      /\ UNCHANGED <<up, proc, got>>
  BY <1>1, RemovesStep DEF procs
<1>3. /\ h \in rm /\ UNCHANGED down
      /\ ctrl_' = IF h.kind = "Control_channel" THEN Null ELSE ctrl_
  BY <1>1 DEF Removes
<1>4. h.fd \in DOMAIN ios /\ ios[h.fd] = h
  BY <1>3, DoomedHandlers DEF Steady
<1>5. \A c \in Clients : Same(c)
  BY <1>2, <1>3 DEF Same, Peers
<1>6. \A c \in Clients, s \in Switches : At(c, s)' => At(c, s)
  BY <1>2, <1>3 DEF At
<1>7. ASSUME NEW c \in Clients, OnChannel(c), ~Settled(c)
      PROVE  OnChannel(c)'
  <2>1. /\ ctrl_ # Null /\ ctrl_.fd \in Fds /\ fds[ctrl_.fd] = c /\ ctrl_.kind = "Control_channel"
        /\ ios[ctrl_.fd] = ctrl_
    BY <1>7, ControlAt DEF OnChannel, Steady
  <2>2. h # ctrl_
    BY <1>3, <1>7, <2>1 DEF LinesOK
  <2>3. ctrl_.fd # h.fd /\ h.kind # "Control_channel"
    <3>1. h.kind = "Control_channel" => ios[h.fd] = ctrl_
      BY <1>4 DEF Base, HandlersOK
    <3> QED
      BY <1>4, <2>1, <2>2, <3>1
  <2>4. ctrl_' = ctrl_ /\ fds'[ctrl_.fd] = fds[ctrl_.fd]
    BY <1>2, <1>3, <2>1, <2>3
  <2> QED
    BY <2>1, <2>4 DEF OnChannel
<1>8. \A s \in Switches : mgrEnd'[s] = "open" => mgrEnd[s] = "open"
  BY <1>2 DEF Peers
<1> QED
  BY <1>5, <1>6, <1>7, <1>8, CalmKept

(* flowmgr forwards a command.                                                 *)
LEMMA CalmForward ==
  ASSUME Base, Steady, TokensOK, LinesOK, CalmOK, NEW c \in Clients, NEW s \in Switches,
         OnChannel(c), mgrEnd[c] = "open", up[c] # <<>>, up' = [up EXCEPT ![c] = Tail(@)],
         mgrEnd[s] = "open", down' = [down EXCEPT ![s] = Append(@, c)],
         UNCHANGED <<fds, mgrEnd, ctrl_, rm, procs>>
  PROVE  CalmOK'
<1>1. c \in Peers /\ s \in Peers /\ s # c /\ UNCHANGED <<proc, got>>
  BY ProcessAssumption DEF Peers, procs
<1>2. up[c] = <<c>> /\ proc[c] \in {"waiting", "gone"}
  BY <1>1 DEF TokensOK, Base, ProcsOK
<1>3. proc[c] = "waiting" /\ down[c] = <<>>
  BY <1>2 DEF CalmOK, ClientOK
<1>4. up'[c] = <<>> /\ \A q \in Peers : q # c => up'[q] = up[q]
  BY <1>1, <1>2 DEF Base, KernelOK
<1>5. down'[s] = Append(down[s], c) /\ \A q \in Peers : q # s => down'[q] = down[q]
  BY <1>1 DEF Base, KernelOK
<1>6. down[s] \in Seq(Clients)
  BY DEF TokensOK
<1>7. ToSet(down'[s]) = ToSet(down[s]) \cup {c}
  BY <1>5, <1>6, ToSetAppend
<1>8. \A t \in Switches : t # c /\ t \in Peers
  BY ProcessAssumption DEF Peers
<1>9. \A d \in Clients : d \in Peers /\ d # s
  BY ProcessAssumption DEF Peers
<1>10. \A d \in Clients, x \in Peers : At(d, x)' <=> At(d, x) \/ (d = c /\ x = s)
  BY <1>1, <1>4, <1>5, <1>7, <1>8 DEF At
<1>11. RequestsOK'
  BY <1>1, <1>3, <1>5, <1>8, <1>9, <1>10 DEF CalmOK, RequestsOK, OnChannel
<1>12. ASSUME NEW d \in Clients
       PROVE  ClientOK(d)'
  <2>1. /\ proc'[d] = proc[d] /\ got'[d] = got[d] /\ down'[d] = down[d] /\ up'[d] \in {up[d], <<>>}
        /\ mgrEnd'[d] = mgrEnd[d]
    BY <1>1, <1>4, <1>5, <1>9
  <2>2. \A e \in Clients : At(e, d)' => At(e, d)
    BY <1>9, <1>10
  <2>3. ClientOK(d)
    BY DEF CalmOK
  <2> QED
    BY <2>1, <2>2, <2>3 DEF ClientOK
<1> QED
  BY <1>11, <1>12 DEF CalmOK

(* flowmgr passes on a reply: that of the client it has a channel to.          *)
LEMMA CalmReply ==
  ASSUME Base, Steady, TokensOK, LinesOK, CalmOK, NEW s \in Switches, NEW d \in Clients, OnChannel(d),
         up[s] # <<>>, up' = [up EXCEPT ![s] = Tail(@)], mgrEnd[s] = "open", proc[s] # "gone",
         down' = [down EXCEPT ![d] = Append(@, up[s][1])],
         UNCHANGED <<fds, mgrEnd, ctrl_, rm, procs>>
  PROVE  CalmOK'
<1> DEFINE x == up[s][1]
<1>1. /\ d \in Peers /\ s \in Peers /\ s # d /\ UNCHANGED <<proc, got>> /\ s \notin Clients
      /\ d \notin Switches
  BY ProcessAssumption DEF Peers, procs
<1>2. up[s] \in Seq(Clients) /\ down[s] \in Seq(Clients)
  BY DEF TokensOK
<1>3. Wire(s) # <<>> /\ Head(Wire(s)) = x /\ Tail(up[s]) \o down[s] = Tail(Wire(s))
  BY <1>2, ConcatEnds DEF Wire
<1>4. Wire(s) \in Seq(Clients) /\ Orderly(Wire(s)) /\ \A c : c \in ToSet(Wire(s)) <=> At(c, s)
  BY WireAt DEF LinesOK
<1>5. x \in Clients /\ At(x, s) /\ x \notin ToSet(Tail(Wire(s)))
  BY <1>3, <1>4, OrderlyTail
<1> HIDE DEF x
<1>6. x = d
  BY <1>5 DEF CalmOK, RequestsOK, OnChannel
<1>7. up'[s] = Tail(up[s]) /\ \A q \in Peers : q # s => up'[q] = up[q]
  BY <1>1 DEF Base, KernelOK
<1>8. down'[d] = Append(down[d], d) /\ \A q \in Peers : q # d => down'[q] = down[q]
  BY <1>1, <1>6 DEF Base, KernelOK, x
<1>9. down[d] \in Seq(Messages) /\ d \in Messages
  BY <1>1 DEF Base, KernelOK, Messages
<1>10. ToSet(down'[d]) = ToSet(down[d]) \cup {d}
  BY <1>8, <1>9, ToSetAppend
<1>11. \A t \in Switches : t \in Peers /\ t # d
  BY ProcessAssumption DEF Peers
<1>12. \A c \in Clients, t \in Switches : At(c, t)' => At(c, t)
  <2>1. ToSet(Tail(up[s])) \subseteq ToSet(up[s])
    BY <1>2, TailElements
  <2> QED
    BY <1>1, <1>7, <1>8, <1>11, <2>1 DEF At
<1>13. ~At(d, s)'
  <2>1. ToSet(Tail(up[s]) \o down[s]) = ToSet(Tail(up[s])) \cup ToSet(down[s])
    <3> DEFINE v == Tail(up[s])
    <3>1. v \in Seq(Clients)
      BY <1>2
    <3> HIDE DEF v
    <3>2. ToSet(v \o down[s]) = ToSet(v) \cup ToSet(down[s])
      BY <1>2, <3>1, ToSetConcat
    <3> QED
      BY <3>2 DEF v
  <2> QED
    BY <1>1, <1>3, <1>5, <1>6, <1>7, <1>8, <2>1 DEF At
<1>14. RequestsOK'
  <2> SUFFICES ASSUME NEW t \in Switches, NEW c \in Clients, At(c, t)', mgrEnd'[t] = "open"
               PROVE  FALSE
    BY DEF RequestsOK
  <2>1. At(c, t)
    BY <1>12
  <2>2. c = d
    BY <2>1 DEF CalmOK, RequestsOK, OnChannel
  <2>3. t = s
    BY <1>1, <1>5, <1>6, <1>11, <2>1, <2>2 DEF TokensOK
  <2> QED
    BY <1>13, <2>2, <2>3
<1>15. ASSUME NEW c \in Clients
       PROVE  ClientOK(c)'
  <2>1. proc'[c] = proc[c] /\ got'[c] = got[c] /\ up'[c] = up[c] /\ mgrEnd'[c] = mgrEnd[c] /\ c \notin Switches
    BY <1>1, <1>7, ProcessAssumption DEF Peers
  <2>2. ClientOK(c)
    BY DEF CalmOK
  <2>3. CASE c # d
    <3>1. down'[c] = down[c]
      BY <1>8, <2>3 DEF Peers
    <3>2. \A e : At(e, c)' <=> At(e, c)
      BY <2>1, <3>1 DEF At
    <3> QED
      BY <2>1, <2>2, <3>1, <3>2 DEF ClientOK
  <2>4. CASE c = d
    <3>1. up[d] = <<>> /\ proc[d] \in {"waiting", "gone"}
      BY <1>1, <1>5, <1>6 DEF TokensOK
    <3>2. \A e \in Clients : At(e, c)' => At(e, c) \/ e = d
      BY <1>10, <2>1, <2>4 DEF At
    <3> QED
      BY <2>1, <2>2, <2>4, <3>1, <3>2 DEF ClientOK
  <2> QED
    BY <2>3, <2>4
<1> QED
  BY <1>14, <1>15 DEF CalmOK

(* A handler is called.                                                        *)
LEMMA CalmHandlers ==
  ASSUME Base, Steady, TokensOK, LinesOK, CalmOK, NEW h, Dispatch(h), Handled(h)
  PROVE  CalmOK'
<1>0. UNCHANGED procs /\ UNCHANGED <<proc, got>>
  BY Dispatched DEF procs
<1>1. \A s \in Switches : s \in Peers /\ s \notin Clients
  BY ProcessAssumption DEF Peers
<1>2. CASE accept_failed(h)
  <2>1. UNCHANGED <<fds, mgrEnd, up, down, ctrl_>>
    BY <1>2 DEF accept_failed, kernel
  <2> QED
    BY <1>0, <2>1, CalmSame
<1>3. CASE h.kind = "Control_server" /\ Control_server_on_input(h) /\ ~accept_failed(h)
  <2>1. PICK p \in Clients, sd \in Fds :
           /\ Opens(p, sd)
           /\ \/ UNCHANGED <<ctrl_, down>>
              \/ /\ ctrl_ = Null
                 /\ down' = IF switch_ = Null
                            THEN [down EXCEPT ![p] = Append(@, "no switch")] ELSE down
    BY <1>3, ControlServerStep
  <2>2. switch_ # Null
    BY <2>1 DEF Opens, Steady, NeededOK, QueuedClient
  <2> QED
    BY <2>1, <2>2, CalmOpens
<1>4. CASE h.kind = "Switch_server" /\ Switch_server_on_input(h) /\ ~accept_failed(h)
  <2>1. PICK p \in Switches, sd \in Fds : Opens(p, sd) /\ UNCHANGED <<ctrl_, down>>
    BY <1>4, SwitchServerStep
  <2> QED
    BY <2>1, CalmOpens
<1>5. CASE h.kind = "Control_channel" /\ Control_channel_on_input(h)
  <2>1. PICK c \in Clients :
           /\ h = ctrl_ /\ fds[h.fd] = c /\ mgrEnd[c] = "open"
           /\ UNCHANGED <<fds, mgrEnd, ctrl_>>
           /\ \/ UNCHANGED <<up, down>>
              \/ /\ up[c] # <<>> /\ up' = [up EXCEPT ![c] = Tail(@)]
                 /\ \/ UNCHANGED down
                    \/ UNCHANGED rm /\ down' = Delivered(switch_.fd, up[c][1])
                    \/ down' = Delivered(h.fd, "rejected")
    BY <1>5, ControlChannelStep
  <2>2. CASE UNCHANGED <<up, down>>
    BY <1>0, <2>1, <2>2, CalmSame
  <2>3. CASE up[c] # <<>> /\ up' = [up EXCEPT ![c] = Tail(@)]
    <3>1. /\ c \in Peers /\ up[c] = <<c>> /\ (\A x \in Peers : ~At(c, x))
          /\ proc[c] \in {"waiting", "gone"}
      <4>1. up[c] = <<c>> /\ c \in Peers
        BY <2>3 DEF TokensOK, Peers
      <4> QED
        BY <2>3, <4>1 DEF TokensOK, Base, ProcsOK
    <3>2. up'[c] = <<>> /\ \A q \in Peers : q # c => up'[q] = up[q]
      BY <2>3, <3>1 DEF Base, KernelOK
    <3>3. OnChannel(c) /\ ctrl_ # Null
      <4>1. h # Null
        BY Dispatched, HandlerAt DEF Base
      <4> QED
        BY <2>1, <4>1 DEF OnChannel
    <3>4. ASSUME \A q \in Peers : q # c => down'[q] = down[q],
                 ToSet(down'[c]) \cap Clients \subseteq ToSet(down[c])
          PROVE  CalmOK'
      <4>1. \A d \in Clients : d # c => Same(d)
        BY <1>0, <2>1, <3>2, <3>4 DEF Same, Peers
      <4>2. \A d \in Clients, s \in Switches : At(d, s)' => At(d, s)
        BY <1>0, <1>1, <3>2, <3>4 DEF At
      <4>3. ClientOK(c)'
        <5>1. \A d \in Clients : At(d, c)' => At(d, c)
          BY <1>0, <3>4, ProcessAssumption DEF At
        <5> QED
          BY <1>0, <3>1, <3>2, <5>1 DEF ClientOK, CalmOK
      <4>4. \A s \in Switches : ~At(c, s)
        BY <1>1, <3>1
      <4>5. \A d \in Clients : OnChannel(d) => OnChannel(d)'
        BY <2>1 DEF OnChannel
      <4> QED
        BY <2>1, <4>1, <4>2, <4>3, <4>4, <4>5, CalmKept
    <3>5. CASE UNCHANGED down
      BY <3>4, <3>5
    <3>6. CASE down' = Delivered(h.fd, "rejected")
      <4>1. "rejected" \in Messages /\ "rejected" \notin Clients
        BY ProcessAssumption DEF Messages, Peers
      <4>2. \A q \in Peers : down'[q] = IF fds[h.fd] = q THEN Append(down[q], "rejected") ELSE down[q]
        <5>1. \A q \in Peers : Delivered(h.fd, "rejected")[q] = IF fds[h.fd] = q THEN Append(down[q], "rejected") ELSE down[q]
          BY <4>1, DeliveredTo DEF Base
        <5> QED
          BY <3>6, <5>1
      <4>3. down[c] \in Seq(Messages)
        BY <3>1 DEF Base, KernelOK
      <4>4. ToSet(Append(down[c], "rejected")) = ToSet(down[c]) \cup {"rejected"}
        BY <4>1, <4>3, ToSetAppend
      <4> QED
        BY <2>1, <3>1, <3>4, <4>1, <4>2, <4>4
    <3>7. CASE UNCHANGED rm /\ down' = Delivered(switch_.fd, up[c][1])
      <4>1. switch_ # Null
        BY <3>3 DEF Steady, NeededOK
      <4> DEFINE s == fds[switch_.fd]
      <4>2. s \in Switches /\ s \in Peers /\ mgrEnd[s] = "open"
        BY <4>1, SwitchAt DEF Steady
      <4>3. up[c][1] = c
        BY <3>1
      <4>4. down' = [down EXCEPT ![s] = Append(@, c)]
        BY <3>7, <4>2, <4>3 DEF Delivered
      <4> HIDE DEF s
      <4> QED
        BY <1>0, <2>1, <2>3, <3>3, <3>7, <4>2, <4>4, CalmForward
    <3> QED
      BY <2>1, <2>3, <3>1, <3>5, <3>6, <3>7
  <2> QED
    BY <2>1, <2>2, <2>3
<1>6. CASE h.kind = "Switch_channel" /\ Switch_channel_on_input(h)
  <2>1. PICK s \in Switches :
           /\ h = switch_ /\ fds[h.fd] = s /\ mgrEnd[s] = "open"
           /\ UNCHANGED <<fds, mgrEnd, ctrl_>>
           /\ \/ UNCHANGED <<up, down>>
              \/ /\ up[s] # <<>> /\ up' = [up EXCEPT ![s] = Tail(@)]
                 /\ UNCHANGED rm /\ ctrl_ # Null
                 /\ down' = Delivered(ctrl_.fd, up[s][1])
    BY <1>6, SwitchChannelStep
  <2>2. CASE UNCHANGED <<up, down>>
    BY <1>0, <2>1, <2>2, CalmSame
  <2>3. CASE /\ up[s] # <<>> /\ up' = [up EXCEPT ![s] = Tail(@)]
             /\ UNCHANGED rm /\ ctrl_ # Null
             /\ down' = Delivered(ctrl_.fd, up[s][1])
    <3> DEFINE d == fds[ctrl_.fd]
    <3>1. d \in Clients /\ d \in Peers /\ OnChannel(d)
      BY <2>3, ControlAt DEF Steady, OnChannel
    <3>2. down' = [down EXCEPT ![d] = Append(@, up[s][1])]
      BY <2>3, <3>1 DEF Delivered
    <3>3. proc[s] # "gone"
      <4>1. h # Null
        BY Dispatched, HandlerAt DEF Base
      <4> QED
        BY <2>1, <2>3, <4>1 DEF Steady, NeededOK
    <3> HIDE DEF d
    <3> QED
      BY <1>0, <2>1, <2>3, <3>1, <3>2, <3>3, CalmReply
  <2> QED
    BY <2>1, <2>2, <2>3
<1> QED
  BY <1>2, <1>3, <1>4, <1>5, <1>6 DEF Handled

(* A step of a process: it concerns only that process.                         *)
LEMMA CalmProcess ==
  ASSUME Base, TokensOK, CalmOK, UNCHANGED <<fds, loop>>,
         \A c \in Clients, s \in Switches : At(c, s)' => At(c, s),
         \A s \in Switches : mgrEnd'[s] = "open" => mgrEnd[s] \in {"open", "queued"},
         \A c \in Clients : Same(c) \/ ((\A s \in Switches : At(c, s) => mgrEnd[s] # "open") /\ ClientOK(c)')
  PROVE  CalmOK'
<1>1. \A c \in Clients : OnChannel(c) => OnChannel(c)'
  BY DEF OnChannel, loop
<1> QED
  BY <1>1, CalmKept

LEMMA CalmClient ==
  ASSUME Base, Steady, TokensOK, CalmOK, "kill_client" \notin Faults, NEW c \in Clients,
         flowctl_connect(c) \/ flowctl_send(c) \/ flowctl_recv(c) \/ kill(c)
  PROVE  CalmOK'
<1>0. /\ c \in Peers /\ ClientOK(c) /\ \A s \in Switches : s \in Peers /\ s # c /\ s \notin Clients
      /\ \A d \in Clients : d \in Peers /\ d \notin Switches
  BY ProcessAssumption DEF Peers, CalmOK
<1>1. CASE flowctl_connect(c)
  <2>1. /\ UNCHANGED <<fds, loop, up, down, got>> /\ proc[c] = "new" /\ proc'[c] \in {"connected", "gone"}
        /\ \A q \in Peers : q # c => proc'[q] = proc[q] /\ mgrEnd'[q] = mgrEnd[q]
    BY <1>0, <1>1 DEF flowctl_connect, connect, Base, KernelOK, ProcsOK
  <2>2. \A d \in Clients : d # c => Same(d)
    BY <1>0, <2>1 DEF Same
  <2>3. \A d \in Clients, x \in Peers : At(d, x)' => At(d, x)
    BY <2>1 DEF At
  <2>4. up[c] = <<>> /\ down[c] = <<>> /\ got[c] = <<>> /\ \A s \in Switches : ~At(c, s)
    <3>1. up[c] = <<>> /\ \A s \in Switches : ~At(c, s)
      BY <1>0, <2>1 DEF TokensOK
    <3> QED
      BY <1>0, <2>1, <3>1 DEF ClientOK
  <2>5. ClientOK(c)'
    BY <1>0, <2>1, <2>3, <2>4 DEF ClientOK
  <2>6. \A s \in Switches : mgrEnd'[s] = mgrEnd[s]
    BY <1>0, <2>1
  <2> QED
    BY <1>0, <2>1, <2>2, <2>3, <2>4, <2>5, <2>6, CalmProcess
<1>2. CASE flowctl_send(c)
  <2>1. /\ UNCHANGED <<fds, mgrEnd, loop, down, got>> /\ proc[c] = "connected"
        /\ \A q \in Peers : q # c => proc'[q] = proc[q] /\ up'[q] = up[q]
        /\ \/ mgrEnd[c] = "closed" /\ proc'[c] = "gone" /\ up'[c] = up[c]
           \/ proc'[c] = "waiting"
    BY <1>0, <1>2 DEF flowctl_send, Base, KernelOK, ProcsOK
  <2>2. \A d \in Clients : d # c => Same(d)
    BY <1>0, <2>1 DEF Same
  <2>3. \A d \in Clients, x \in Peers : At(d, x)' => At(d, x)
    BY <1>0, <2>1 DEF At
  <2>4. down[c] = <<>> /\ got[c] = <<>> /\ \A s \in Switches : ~At(c, s)
    <3>1. \A s \in Switches : ~At(c, s)
      BY <1>0, <2>1 DEF TokensOK
    <3> QED
      BY <1>0, <2>1, <3>1 DEF ClientOK
  <2>5. ClientOK(c)'
    BY <1>0, <2>1, <2>3, <2>4 DEF ClientOK
  <2> QED
    BY <1>0, <2>1, <2>2, <2>3, <2>4, <2>5, CalmProcess
<1>3. CASE flowctl_recv(c)
  <2>1. /\ UNCHANGED <<fds, mgrEnd, loop, up>> /\ proc[c] = "waiting"
        /\ down[c] # <<>> \/ mgrEnd[c] = "closed"
        /\ \A q \in Peers : q # c => proc'[q] = proc[q] /\ down'[q] = down[q]
        /\ \A d \in Clients : d # c => got'[d] = got[d]
        /\ proc'[c] = "gone" /\ down'[c] = <<>> /\ got'[c] = down[c]
    BY <1>0, <1>3 DEF flowctl_recv, Base, KernelOK, ProcsOK
  <2>2. \A d \in Clients : d # c => Same(d)
    BY <1>0, <2>1 DEF Same
  <2>3. \A d \in Clients, s \in Switches : At(d, s)' => At(d, s)
    BY <1>0, <2>1 DEF At
  <2>4. \A d \in Clients : At(d, c)' => At(d, c)
    BY <1>0, <2>1, ToSetEmpty DEF At
  <2>5. \A s \in Switches : At(c, s) => mgrEnd[s] # "open"
    <3> SUFFICES ASSUME NEW s \in Switches, At(c, s), mgrEnd[s] = "open"
                 PROVE  FALSE
      OBVIOUS
    <3>1. OnChannel(c) /\ down[c] = <<>>
      BY DEF CalmOK, RequestsOK
    <3>2. mgrEnd[c] = "open"
      BY <3>1, ControlAt DEF OnChannel, Steady
    <3> QED
      BY <2>1, <3>1, <3>2
  <2>6. ClientOK(c)'
    BY <1>0, <2>1, <2>4 DEF ClientOK
  <2> QED
    BY <1>0, <2>1, <2>2, <2>3, <2>5, <2>6, CalmProcess
<1> QED
  BY <1>1, <1>2, <1>3 DEF kill

LEMMA CalmSwitch ==
  ASSUME Base, Steady, TokensOK, CalmOK, NEW s \in Switches,
         flowpath_open(s) \/ fp_mgr_incoming(s) \/ fp_mgr_incoming_closed(s) \/ flowpath_exit(s)
  PROVE  CalmOK'
<1>0. /\ s \in Peers /\ s \notin Clients /\ \A t \in Switches : t \in Peers /\ t \notin Clients
      /\ \A d \in Clients : d \in Peers /\ d \notin Switches /\ d # s
  BY ProcessAssumption DEF Peers
<1>1. CASE flowpath_open(s)
  <2>1. /\ UNCHANGED <<fds, loop, up, down, got>> /\ mgrEnd'[s] # "open"
        /\ \A q \in Peers : q # s => proc'[q] = proc[q] /\ mgrEnd'[q] = mgrEnd[q]
    BY <1>0, <1>1 DEF flowpath_open, connect, Base, KernelOK, ProcsOK, EndsOK
  <2>2. \A d \in Clients : Same(d)
    BY <1>0, <2>1 DEF Same
  <2>3. \A d \in Clients, t \in Switches : At(d, t)' => At(d, t)
    BY <2>1 DEF At
  <2> QED
    BY <1>0, <2>1, <2>2, <2>3, CalmProcess
<1>2. CASE fp_mgr_incoming_closed(s) \/ flowpath_exit(s)
  <2>1. /\ UNCHANGED <<fds, loop, mgrEnd, up, down, got>>
        /\ \A q \in Peers : q # s => proc'[q] = proc[q]
    BY <1>0, <1>2 DEF fp_mgr_incoming_closed, flowpath_exit, kernel, Base, ProcsOK
  <2>2. \A d \in Clients : Same(d)
    BY <1>0, <2>1 DEF Same
  <2>3. \A d \in Clients, t \in Switches : At(d, t)' => At(d, t)
    BY <2>1 DEF At
  <2> QED
    BY <1>0, <2>1, <2>2, <2>3, CalmProcess
<1>3. CASE fp_mgr_incoming(s)
  <2> DEFINE x == Head(down[s])
  <2>1. /\ UNCHANGED <<fds, loop, mgrEnd, got>> /\ down[s] # <<>>
        /\ \A q \in Peers : q # s => proc'[q] = proc[q] /\ down'[q] = down[q] /\ up'[q] = up[q]
        /\ down'[s] = Tail(down[s]) /\ up'[s] \in {up[s], Append(up[s], x)}
    BY <1>0, <1>3 DEF fp_mgr_incoming, Reply, Base, KernelOK, ProcsOK
  <2>2. up[s] \in Seq(Clients) /\ down[s] \in Seq(Clients)
    BY DEF TokensOK
  <2>3. ToSet(Tail(down[s])) \subseteq ToSet(down[s]) /\ x \in ToSet(down[s]) /\ x \in Clients
    BY <2>1, <2>2, TailElements
  <2>4. ToSet(Append(up[s], x)) = ToSet(up[s]) \cup {x}
    BY <2>2, <2>3, ToSetAppend
  <2> HIDE DEF x
  <2>5. \A d \in Clients : Same(d)
    BY <1>0, <2>1 DEF Same
  <2>6. ASSUME NEW d \in Clients, NEW t \in Switches, At(d, t)'
        PROVE  At(d, t)
    <3>1. CASE t = s
      BY <1>0, <2>1, <2>3, <2>4, <2>6, <3>1 DEF At
    <3>2. CASE t # s
      BY <1>0, <2>1, <2>6, <3>2 DEF At
    <3> QED
      BY <3>1, <3>2
  <2> QED
    BY <2>1, <2>5, <2>6, CalmProcess
<1> QED
  BY <1>1, <1>2, <1>3

LEMMA CalmNext ==
  ASSUME Base, Steady, TokensOK, LinesOK, CalmOK, "kill_client" \notin Faults, [Next]_vars
  PROVE  CalmOK'
<1>1. CASE poll \/ reset \/ UNCHANGED vars
  <2>1. UNCHANGED <<fds, mgrEnd, up, down, ctrl_, procs>>
    BY <1>1 DEF poll, reset, vars, kernel, loop
  <2> QED
    BY <2>1, CalmSame
<1>2. CASE Crash
  BY <1>2, CalmExit DEF Crash
<1>3. CASE process_events
  BY <1>2, <1>3, EventCases, CalmHandlers
<1>4. ASSUME NEW h \in rm, unregister_handler(h)
      PROVE  CalmOK'
  BY <1>2, <1>4, RemovalCases, CalmRemoves DEF Base
<1>5. CASE signal_handler
  BY <1>5, CalmExit DEF signal_handler, Crash
<1> QED
  BY <1>1, <1>3, <1>4, <1>5, CalmClient, CalmSwitch DEF Next, Mgr

LEMMA CalmInvariant ==
  ASSUME CalmFaults
  PROVE  Spec => [](Base /\ Steady /\ TokensOK /\ LinesOK /\ RunsOK /\ CalmOK)
<1>0. SteadyFaults /\ "kill_client" \notin Faults
  BY DEF CalmFaults, SteadyFaults
<1>1. Init => CalmOK
  BY CalmInit
<1>2. Base /\ Steady /\ TokensOK /\ LinesOK /\ RunsOK /\ CalmOK /\ [Next]_vars => CalmOK'
  BY <1>0, CalmNext
<1>3. Spec => [](Base /\ Steady /\ TokensOK /\ LinesOK /\ RunsOK)
  BY <1>0, RunsInvariant
<1> QED
  BY <1>1, <1>2, <1>3, PTL DEF Spec

(* A flowctl that gets a reply of the switch gets the reply to its own command *)
(* (control.cpp:136-153): with clients that come while another is served, are  *)
(* refused or send too much, as long as no flowctl is killed in mid-command.   *)
THEOREM FlowMgrOwnReply ==
  ASSUME CalmFaults
  PROVE  Spec => []OwnReply
<1>1. CalmOK => OwnReply
  <2> SUFFICES ASSUME CalmOK, NEW c \in Clients, NEW d \in ToSet(got[c]) \cap Clients
               PROVE  d = c
    BY DEF OwnReply
  <2>1. At(d, c)
    BY DEF At
  <2> QED
    BY <2>1 DEF CalmOK, ClientOK
<1> QED
  BY <1>1, CalmInvariant, PTL

-----------------------------------------------------------------------------
(* Without signals flowmgr runs for ever *)

ServiceFaults == Faults \subseteq {"idle_restart", "large_command", "accept_fails"}

(* No event finds a channel missing or its peer gone.                          *)
LEMMA NotFatal ==
  ASSUME Base, Steady, TokensOK, LinesOK, CalmOK, phase = "scan", Ready # {}
  PROVE  ps[Next_i].fd \in DOMAIN ios /\ ~Fatal(ios[ps[Next_i].fd])
<1>1. Next_i \in DOMAIN ps /\ Next_i \in Ready
  BY NextEvent DEF Base
<1>2. ps[Next_i].fd \in DOMAIN ios
  BY <1>1 DEF Steady, TablesOK
<1> DEFINE fd == ps[Next_i].fd
           h == ios[fd]
<1>3. /\ fd \in Fds /\ h.fd = fd /\ h.kind \in HandlerKinds /\ h # Null
  BY <1>2, HandlerAt DEF Base
<1>4. ps[Next_i].ready
  BY <1>1, <1>2 DEF Ready
<1>5. /\ h.kind = "Control_channel" => h = ctrl_ /\ fds[fd] \in Clients
      /\ h.kind = "Switch_channel" => h = switch_ /\ fds[fd] \in Switches
  BY <1>2, OpenHandlers DEF Steady
<1>6. h.kind = "Control_server" => fds[fd] = "control_socket" /\ fds[fd] \in Sockets
  BY <1>2, <1>3 DEF Base, HandlersOK, Sockets
<1>7. fds[ps[Next_i].fd] \in Sockets => backlog[fds[ps[Next_i].fd]] # <<>>
  BY <1>1, <1>4 DEF Base, ServersOK
<1> HIDE DEF fd, h
<1>8. CASE h.kind = "Control_server"
  <2>1. backlog["control_socket"] # <<>> /\ backlog["control_socket"] \in Seq(Peers)
    BY <1>6, <1>7, <1>8 DEF fd, Base, KernelOK
  <2> DEFINE p == Head(backlog["control_socket"])
  <2>2. p \in ToSet(backlog["control_socket"])
    BY <2>1, TailElements
  <2>3. p \in Peers /\ Socket(p) = "control_socket" /\ mgrEnd[p] = "queued"
    <3>1. p \in Peers
      BY <2>1, HeadTailProperties
    <3> QED
      BY <1>6, <1>8, <2>2, <3>1 DEF Base, EndsOK
  <2>4. p \in Clients
    BY <2>3 DEF Socket
  <2>5. switch_ # Null
    BY <2>3, <2>4 DEF QueuedClient, Steady, NeededOK
  <2> QED
    BY <1>2, <1>8, <2>5 DEF Fatal, fd, h
<1>9. CASE h.kind = "Switch_server"
  BY <1>2, <1>9 DEF Fatal, fd, h
<1>10. CASE h.kind = "Control_channel"
  <2> DEFINE c == fds[h.fd]
  <2>1. h = ctrl_ /\ c \in Clients /\ c \in Peers /\ ctrl_ # Null /\ mgrEnd[c] = "open"
    BY <1>3, <1>5, <1>10, ControlAt DEF Steady
  <2>2. Data(h.fd) = up[c]
    BY <2>1 DEF Data
  <2>3. up[c] # <<>> => proc[c] # "gone"
    BY <2>1 DEF CalmOK, ClientOK
  <2>4. switch_ # Null /\ proc[fds[switch_.fd]] # "gone"
    BY <2>1 DEF Steady, NeededOK
  <2>5. ~Sigpipe(switch_.fd) /\ (Data(h.fd) # <<>> => ~Sigpipe(h.fd))
    BY <2>2, <2>3, <2>4 DEF Sigpipe
  <2>6. ~Fatal(h)
    BY <1>10, <2>4, <2>5 DEF Fatal
  <2> QED
    BY <1>2, <2>6 DEF fd, h
<1>11. CASE h.kind = "Switch_channel"
  <2> DEFINE s == fds[h.fd]
  <2>1. h = switch_ /\ s \in Switches /\ s \in Peers /\ mgrEnd[s] = "open"
    BY <1>3, <1>5, <1>11, SwitchAt DEF Steady
  <2>2. Data(h.fd) = up[s]
    BY <2>1 DEF Data
  <2>3. ASSUME up[s] # <<>>
        PROVE  ctrl_ # Null /\ ~Sigpipe(ctrl_.fd)
    <3>1. up[s] \in Seq(Clients)
      BY <2>1 DEF TokensOK
    <3>2. Head(up[s]) \in ToSet(up[s]) /\ Head(up[s]) \in Clients
      BY <2>3, <3>1, TailElements, HeadTailProperties
    <3>3. PICK x \in Clients : x \in ToSet(up[s])
      BY <3>2
    <3>4. At(x, s)
      BY <2>1, <3>3 DEF At
    <3>5. OnChannel(x) /\ proc[x] = "waiting"
      BY <2>1, <3>4 DEF CalmOK, RequestsOK
    <3> QED
      BY <3>5 DEF OnChannel, Sigpipe
  <2>4. ~Fatal(h)
    BY <1>11, <2>2, <2>3 DEF Fatal
  <2> QED
    BY <1>2, <2>4 DEF fd, h
<1> QED
  BY <1>3, <1>8, <1>9, <1>10, <1>11 DEF HandlerKinds


(* No removal misses its entry or tells a flowctl that is gone.                *)
LEMMA Unregisters ==
  ASSUME Base, Steady, NEW h, unregister_handler(h)
  PROVE  \E k : Removes(h, k)
<1>1. h \in rm
  BY DEF unregister_handler
<1>2. h.fd \in DOMAIN ios /\ ios[h.fd] = h
  BY <1>1, DoomedHandlers DEF Steady
<1>3. \E j \in DOMAIN ps : ps[j].fd = h.fd
  BY <1>2 DEF Base, HandlersOK
<1>4. ~HungUp(h)
  <2> SUFFICES ASSUME h.kind = "Switch_channel"
               PROVE  ctrl_ = Null
    BY DEF HungUp
  <2>1. h = switch_ /\ proc[fds[h.fd]] = "gone"
    BY <1>1, <1>2 DEF Steady, NeededOK, Base, HandlersOK
  <2>2. h # Null
    BY <1>2, HandlerAt DEF Base
  <2> QED
    BY <2>1, <2>2 DEF Steady, NeededOK
<1> QED
  BY <1>3, <1>4, Removal DEF Base

(* An event that is not fatal is handled.                                      *)
LEMMA EventHandled ==
  ASSUME Base, Steady, TokensOK, LinesOK, CalmOK, process_events
  PROVE  Dispatch(ios[ps[Next_i].fd]) /\ Handled(ios[ps[Next_i].fd])
<1>1. phase = "scan" /\ Ready # {}
  BY DEF process_events
<1> QED
  BY <1>1, NotFatal, EventCases

RunningOK == phase \in {"poll", "scan"}

LEMMA RunningHandlers ==
  ASSUME Base, Steady, NEW h, Dispatch(h), Handled(h)
  PROVE  UNCHANGED phase
<1>1. CASE accept_failed(h)
  BY <1>1 DEF accept_failed
<1>2. CASE ~accept_failed(h)
  BY <1>2 DEF Handled, Control_server_on_input, Switch_server_on_input, Control_channel_on_input,
              Switch_channel_on_input
<1> QED
  BY <1>1, <1>2

LEMMA RunningNext ==
  ASSUME Base, Steady, TokensOK, LinesOK, CalmOK, RunningOK, "signal" \notin Faults, [Next]_vars
  PROVE  RunningOK'
<1>1. CASE poll \/ reset
  BY <1>1 DEF poll, reset, RunningOK
<1>2. CASE process_events
  <2>1. UNCHANGED phase
    BY <1>2, EventHandled, RunningHandlers
  <2> QED
    BY <2>1 DEF RunningOK
<1>3. ASSUME NEW h \in rm, unregister_handler(h)
      PROVE  RunningOK'
  <2>1. UNCHANGED phase
    BY <1>3, Unregisters DEF Removes
  <2> QED
    BY <2>1 DEF RunningOK
<1>4. CASE signal_handler
  BY <1>4 DEF signal_handler
<1>5. ASSUME UNCHANGED loop
      PROVE  RunningOK'
  BY <1>5 DEF RunningOK, loop
<1>6. ASSUME NEW c \in Clients, flowctl_connect(c) \/ flowctl_send(c) \/ flowctl_recv(c) \/ kill(c)
      PROVE  RunningOK'
  BY <1>5, <1>6 DEF flowctl_connect, connect, flowctl_send, flowctl_recv, kill
<1>7. ASSUME NEW s \in Switches,
             flowpath_open(s) \/ fp_mgr_incoming(s) \/ fp_mgr_incoming_closed(s) \/ flowpath_exit(s)
      PROVE  RunningOK'
  BY <1>5, <1>7 DEF flowpath_open, connect, fp_mgr_incoming, fp_mgr_incoming_closed, flowpath_exit
<1>8. CASE UNCHANGED vars
  BY <1>5, <1>8 DEF vars
<1> QED
  BY <1>1, <1>2, <1>3, <1>4, <1>6, <1>7, <1>8 DEF Next, Mgr

LEMMA RunningInvariant ==
  ASSUME ServiceFaults
  PROVE  Spec => [](Base /\ Steady /\ TokensOK /\ LinesOK /\ RunsOK /\ CalmOK /\ RunningOK)
<1>0. CalmFaults /\ "signal" \notin Faults
  BY DEF CalmFaults, ServiceFaults
<1>1. Init => RunningOK
  BY DEF Init, RunningOK
<1>2. Base /\ Steady /\ TokensOK /\ LinesOK /\ RunsOK /\ CalmOK /\ RunningOK /\ [Next]_vars => RunningOK'
  BY <1>0, RunningNext
<1>3. Spec => [](Base /\ Steady /\ TokensOK /\ LinesOK /\ RunsOK /\ CalmOK)
  BY <1>0, CalmInvariant
<1> QED
  BY <1>1, <1>2, <1>3, PTL DEF Spec

(* flowmgr does not crash while nobody is killed or kills it and flowpaths     *)
(* restart only when no flowctl is there: no handler call follows a null       *)
(* channel, misses a handler or sends to a process that is gone, also with     *)
(* connections that are refused and servers that are removed                   *)
(* (main.cpp:93-120, control.cpp, switch.cpp).                                 *)
THEOREM FlowMgrNotCrashed ==
  ASSUME ServiceFaults
  PROVE  Spec => []NotCrashed
<1>1. RunningOK => NotCrashed
  BY DEF RunningOK, NotCrashed
<1> QED
  BY <1>1, RunningInvariant, PTL

-----------------------------------------------------------------------------

(* A command is executed once                                                  *)

(* The request of c has been answered by a switch.                             *)
Executed(c) ==
  \/ \E s \in Switches : c \in ToSet(up[s])
  \/ \E d \in Clients : At(c, d)

(* A flowpath whose connection is closed while it runs was never asked.        *)
OnceOK ==
  /\ \A s \in Switches : mgrEnd[s] \in {"none", "queued"} => inbuf[s] = Null
  /\ \A s \in Switches :
       mgrEnd[s] = "closed" /\ proc[s] = "waiting" => inbuf[s] = Null /\ down[s] = <<>>
  /\ \A c \in Clients : served[c] \in {0, 1} /\ (Executed(c) => served[c] = 1)

LEMMA OnceInit == Init => OnceOK
<1> SUFFICES ASSUME Init
             PROVE  OnceOK
  OBVIOUS
<1>1. /\ \A c \in Clients : served[c] = 0 /\ down[c] = <<>> /\ got[c] = <<>> /\ c \notin Switches
      /\ \A s \in Switches : mgrEnd[s] = "none" /\ inbuf[s] = Null /\ up[s] = <<>>
  BY ProcessAssumption DEF Init, Peers
<1>2. \A c \in Clients : ~Executed(c)
  BY <1>1, ToSetEmpty DEF At, Executed
<1> QED
  BY <1>1, <1>2 DEF OnceOK

(* Nothing is executed.                                                        *)
LEMMA OnceKept ==
  ASSUME OnceOK, UNCHANGED <<inbuf, served>>,
         \A s \in Switches : mgrEnd'[s] \in {"none", "queued"} => mgrEnd[s] \in {"none", "queued"},
         \A s \in Switches : mgrEnd'[s] = "closed" /\ proc'[s] = "waiting" =>
           \/ mgrEnd[s] = "closed" /\ proc[s] = "waiting" /\ down'[s] = down[s]
           \/ inbuf[s] = Null /\ down'[s] = <<>>,
         \A c \in Clients : Executed(c)' => Executed(c)
  PROVE  OnceOK'
<1>1. \A s \in Switches : mgrEnd'[s] \in {"none", "queued"} => inbuf'[s] = Null
  BY DEF OnceOK
<1>2. \A s \in Switches :
        mgrEnd'[s] = "closed" /\ proc'[s] = "waiting" => inbuf'[s] = Null /\ down'[s] = <<>>
  BY DEF OnceOK
<1>3. \A c \in Clients : served'[c] \in {0, 1} /\ (Executed(c)' => served'[c] = 1)
  BY DEF OnceOK
<1> QED
  BY <1>1, <1>2, <1>3 DEF OnceOK

LEMMA OnceSame ==
  ASSUME OnceOK, UNCHANGED <<mgrEnd, up, down, procs>>
  PROVE  OnceOK'
<1>1. UNCHANGED <<proc, got, inbuf, served>>
  BY DEF procs
<1>2. \A c \in Clients : Executed(c)' => Executed(c)
  BY <1>1 DEF Executed, At
<1> QED
  BY <1>1, <1>2, OnceKept

LEMMA OnceOpens ==
  ASSUME OnceOK, NEW p, NEW sd, Opens(p, sd), UNCHANGED down
  PROVE  OnceOK'
<1>1. /\ mgrEnd'[p] = "open" /\ \A q \in Peers \ {p} : mgrEnd'[q] = mgrEnd[q]
      /\ UNCHANGED <<up, proc, got, inbuf, served>>
  BY DEF Opens, procs
<1>2. \A c \in Clients : Executed(c)' => Executed(c)
  BY <1>1 DEF Executed, At
<1>3. \A s \in Switches : mgrEnd'[s] = "open" \/ mgrEnd'[s] = mgrEnd[s]
  BY <1>1 DEF Peers
<1> QED
  BY <1>1, <1>2, <1>3, OnceKept

(* The handler of a flowpath is removed when that is gone; one that waits to   *)
(* be accepted was not asked anything.                                         *)
LEMMA OnceRemoves ==
  ASSUME Base, Steady, OnceOK, NEW h, NEW k, Removes(h, k)
  PROVE  OnceOK'
<1>1. ~HungUp(h) /\ ClosedBy(h) = {h.fd}
  BY NoHangUp
<1>2. /\ mgrEnd' = EndsWithout({h.fd}) /\ h \in rm
      /\ UNCHANGED <<up, down, proc, got, inbuf, served>>
  BY <1>1 DEF Removes, procs
<1>3. h.fd \in DOMAIN ios /\ ios[h.fd] = h
  BY <1>2, DoomedHandlers DEF Steady
<1>4. ASSUME NEW s \in Switches, mgrEnd'[s] # mgrEnd[s], proc[s] = "waiting"
      PROVE  mgrEnd[s] = "queued"
  <2>1. s \in Peers /\ s \notin Clients /\ s \notin Sockets
    BY ProcessAssumption DEF Peers, Sockets
  <2>2. mgrEnd'[s] = IF \E fd \in {h.fd} : fds[fd] = s \/ (fds[fd] = Socket(s) /\ s \in ToSet(backlog[Socket(s)]))
                     THEN "closed" ELSE mgrEnd[s]
    BY <1>2, <2>1 DEF EndsWithout
  <2>3. fds[h.fd] = s \/ s \in ToSet(backlog[Socket(s)])
    BY <1>4, <2>2
  <2>4. fds[h.fd] # s
    <3> SUFFICES ASSUME fds[h.fd] = s
                 PROVE  FALSE
      OBVIOUS
    <3>1. h.kind \in HandlerKinds
      BY <1>3, HandlerAt DEF Base
    <3>2. h.kind = "Switch_channel"
      BY <1>3, <2>1, <3>1, OpenHandlers DEF Steady, HandlerKinds
    <3> QED
      BY <1>2, <1>4, <3>2 DEF Steady, NeededOK
  <2> QED
    BY <2>1, <2>3, <2>4 DEF Base, EndsOK
<1>5. \A s \in Switches : mgrEnd'[s] \in {mgrEnd[s], "closed"}
  BY <1>2 DEF EndsWithout, Peers
<1>6. \A s \in Switches : mgrEnd[s] = "queued" => inbuf[s] = Null /\ down[s] = <<>>
  BY DEF OnceOK, Base, EndsOK, Peers
<1>7. \A c \in Clients : Executed(c)' => Executed(c)
  BY <1>2 DEF Executed, At
<1> QED
  BY <1>2, <1>4, <1>5, <1>6, <1>7, OnceKept

(* The handlers of flowmgr execute nothing.                                    *)
LEMMA OnceHandlers ==
  ASSUME Base, Steady, TokensOK, OnceOK, NEW h, Dispatch(h), Handled(h)
  PROVE  OnceOK'
<1>0. UNCHANGED procs /\ UNCHANGED <<proc, got, inbuf, served>>
  BY Dispatched DEF procs
<1>1. (\A s \in Switches : s \in Peers /\ s \notin Clients) /\ (\A c \in Clients : c \in Peers /\ c \notin Switches)
  BY ProcessAssumption DEF Peers
<1>2. CASE accept_failed(h)
  BY <1>0, <1>2, OnceSame DEF accept_failed, kernel
<1>3. CASE h.kind = "Control_server" /\ Control_server_on_input(h) /\ ~accept_failed(h)
  <2>1. PICK p \in Clients, sd \in Fds :
           /\ Opens(p, sd)
           /\ \/ UNCHANGED down
              \/ down' = IF switch_ = Null THEN [down EXCEPT ![p] = Append(@, "no switch")] ELSE down
    BY <1>3, ControlServerStep
  <2>2. switch_ # Null
    BY <2>1 DEF Opens, Steady, NeededOK, QueuedClient
  <2> QED
    BY <2>1, <2>2, OnceOpens
<1>4. CASE h.kind = "Switch_server" /\ Switch_server_on_input(h) /\ ~accept_failed(h)
  <2>1. PICK p \in Switches, sd \in Fds : Opens(p, sd) /\ UNCHANGED down
    BY <1>4, SwitchServerStep
  <2> QED
    BY <2>1, OnceOpens
<1>5. CASE h.kind = "Control_channel" /\ Control_channel_on_input(h)
  <2>1. PICK c \in Clients :
           /\ h = ctrl_ /\ fds[h.fd] = c /\ UNCHANGED mgrEnd
           /\ \/ UNCHANGED <<up, down>>
              \/ /\ up[c] # <<>> /\ up' = [up EXCEPT ![c] = Tail(@)]
                 /\ \/ UNCHANGED down
                    \/ down' = Delivered(switch_.fd, up[c][1])
                    \/ down' = Delivered(h.fd, "rejected")
    BY <1>5, ControlChannelStep
  <2>2. CASE UNCHANGED <<up, down>>
    BY <1>0, <2>1, <2>2, OnceSame
  <2>3. CASE up[c] # <<>> /\ up' = [up EXCEPT ![c] = Tail(@)]
    <3>1. \A s \in Switches : up'[s] = up[s]
      BY <1>1, <2>3 DEF Base, KernelOK
    <3>2. ASSUME \A s \in Switches : mgrEnd[s] # "open" => down'[s] = down[s],
                 \A d \in Clients : ToSet(down'[d]) \cap Clients \subseteq ToSet(down[d])
          PROVE  OnceOK'
      <4>1. \A d \in Clients : Executed(d)' => Executed(d)
        BY <1>0, <1>1, <3>1, <3>2 DEF Executed, At
      <4> QED
        BY <1>0, <2>1, <3>2, <4>1, OnceKept
    <3>3. CASE UNCHANGED down
      BY <3>2, <3>3
    <3>4. CASE down' = Delivered(h.fd, "rejected")
      <4>1. "rejected" \in Messages /\ "rejected" \notin Clients
        BY ProcessAssumption DEF Messages, Peers
      <4>2. \A q \in Peers : down'[q] = IF fds[h.fd] = q THEN Append(down[q], "rejected") ELSE down[q]
        <5>1. \A q \in Peers : Delivered(h.fd, "rejected")[q] = IF fds[h.fd] = q THEN Append(down[q], "rejected") ELSE down[q]
          BY <4>1, DeliveredTo DEF Base
        <5> QED
          BY <3>4, <5>1
      <4>3. ASSUME NEW d \in Clients
            PROVE  ToSet(down'[d]) \cap Clients \subseteq ToSet(down[d])
        <5>1. down[d] \in Seq(Messages)
          BY <1>1 DEF Base, KernelOK
        <5>2. ToSet(Append(down[d], "rejected")) = ToSet(down[d]) \cup {"rejected"}
          BY <4>1, <5>1, ToSetAppend
        <5> QED
          BY <1>1, <4>1, <4>2, <5>2
      <4>4. \A s \in Switches : down'[s] = down[s]
        BY <1>1, <2>1, <4>2
      <4> QED
        BY <3>2, <4>3, <4>4
    <3>5. CASE down' = Delivered(switch_.fd, up[c][1])
      <4>1. switch_ # Null
        <5>1. h # Null
          BY Dispatched, HandlerAt DEF Base
        <5> QED
          BY <2>1, <5>1 DEF Steady, NeededOK
      <4> DEFINE s == fds[switch_.fd]
      <4>2. s \in Switches /\ s \in Peers /\ mgrEnd[s] = "open"
        BY <4>1, SwitchAt DEF Steady
      <4>3. down' = [down EXCEPT ![s] = Append(@, up[c][1])]
        BY <3>5, <4>2 DEF Delivered
      <4> HIDE DEF s
      <4>4. \A q \in Peers : q # s => down'[q] = down[q]
        BY <4>3 DEF Base, KernelOK
      <4> QED
        BY <1>1, <3>2, <4>2, <4>4
    <3> QED
      BY <2>1, <2>3, <3>1, <3>3, <3>4, <3>5
  <2> QED
    BY <2>1, <2>2, <2>3
<1>6. CASE h.kind = "Switch_channel" /\ Switch_channel_on_input(h)
  <2>1. PICK s \in Switches :
           /\ UNCHANGED mgrEnd
           /\ \/ UNCHANGED <<up, down>>
              \/ /\ up[s] # <<>> /\ up' = [up EXCEPT ![s] = Tail(@)]
                 /\ ctrl_ # Null /\ down' = Delivered(ctrl_.fd, up[s][1])
    BY <1>6, SwitchChannelStep
  <2>2. CASE UNCHANGED <<up, down>>
    BY <1>0, <2>1, <2>2, OnceSame
  <2>3. CASE /\ up[s] # <<>> /\ up' = [up EXCEPT ![s] = Tail(@)]
             /\ ctrl_ # Null /\ down' = Delivered(ctrl_.fd, up[s][1])
    <3> DEFINE d == fds[ctrl_.fd]
               x == up[s][1]
    <3>1. d \in Clients /\ d \in Peers /\ d \notin Switches
      BY <1>1, <2>3, ControlAt DEF Steady
    <3>2. down' = [down EXCEPT ![d] = Append(@, x)]
      BY <2>3, <3>1 DEF Delivered
    <3>3. up[s] \in Seq(Clients) /\ x \in ToSet(up[s]) /\ x \in Clients
      <4>1. up[s] \in Seq(Clients)
        BY DEF TokensOK
      <4>2. Head(up[s]) \in ToSet(up[s]) /\ Head(up[s]) \in Clients /\ Head(up[s]) = x
        BY <2>3, <4>1, TailElements, HeadTailProperties
      <4> QED
        BY <4>1, <4>2
    <3>4. ToSet(Tail(up[s])) \subseteq ToSet(up[s])
      BY <2>3, <3>3, TailElements
    <3>5. up'[s] = Tail(up[s]) /\ \A t \in Switches : t # s => up'[t] = up[t]
      BY <1>1, <2>3 DEF Base, KernelOK
    <3>6. down[d] \in Seq(Messages) /\ x \in Messages
      BY <3>1, <3>3 DEF Base, KernelOK, Messages
    <3>7. ToSet(Append(down[d], x)) = ToSet(down[d]) \cup {x}
      BY <3>6, ToSetAppend
    <3> HIDE DEF d, x
    <3>8. down'[d] = Append(down[d], x) /\ \A q \in Peers : q # d => down'[q] = down[q]
      BY <3>1, <3>2 DEF Base, KernelOK
    <3>9. ASSUME NEW c \in Clients, Executed(c)'
          PROVE  Executed(c)
      <4>1. CASE \E t \in Switches : c \in ToSet(up'[t])
        BY <3>4, <3>5, <4>1 DEF Executed
      <4>2. CASE \E e \in Clients : At(c, e)'
        <5>1. PICK e \in Clients : At(c, e)'
          BY <4>2
        <5>2. At(c, e) \/ c = x
          BY <1>0, <1>1, <3>7, <3>8, <5>1 DEF At
        <5> QED
          BY <3>3, <5>2 DEF Executed
      <4> QED
        BY <3>9, <4>1, <4>2 DEF Executed
    <3>10. \A t \in Switches : down'[t] = down[t]
      BY <1>1, <3>1, <3>8
    <3> QED
      BY <1>0, <2>1, <3>9, <3>10, OnceKept
  <2> QED
    BY <2>1, <2>2, <2>3
<1> QED
  BY <1>2, <1>3, <1>4, <1>5, <1>6 DEF Handled

LEMMA OnceClient ==
  ASSUME Base, OnceOK, NEW c \in Clients,
         flowctl_connect(c) \/ flowctl_send(c) \/ flowctl_recv(c) \/ kill(c)
  PROVE  OnceOK'
<1>0. /\ c \in Peers /\ \A s \in Switches : s \in Peers /\ s # c
      /\ \A d \in Clients : d \in Peers /\ d \notin Switches
  BY ProcessAssumption DEF Peers
<1>1. /\ \A s \in Switches : up'[s] = up[s] /\ down'[s] = down[s] /\ mgrEnd'[s] = mgrEnd[s] /\ proc'[s] = proc[s]
      /\ UNCHANGED <<inbuf, served>>
  BY <1>0 DEF flowctl_connect, connect, flowctl_send, flowctl_recv, kill, kernel, Base, KernelOK, ProcsOK
<1>2. \A x \in Clients, d \in Clients : At(x, d)' => At(x, d)
  <2>1. CASE flowctl_recv(c)
    <3>1. /\ \A d \in Clients : d # c => down'[d] = down[d] /\ got'[d] = got[d]
          /\ down'[c] = <<>> /\ got'[c] = down[c]
      BY <1>0, <2>1 DEF flowctl_recv, Base, KernelOK, ProcsOK
    <3> QED
      BY <1>0, <3>1, ToSetEmpty DEF At
  <2>2. CASE ~flowctl_recv(c)
    <3>1. UNCHANGED <<down, got>>
      BY <2>2 DEF flowctl_connect, connect, flowctl_send, kill, kernel
    <3> QED
      BY <1>0, <3>1 DEF At
  <2> QED
    BY <2>1, <2>2
<1>3. \A x \in Clients : Executed(x)' => Executed(x)
  BY <1>1, <1>2 DEF Executed
<1> QED
  BY <1>1, <1>3, OnceKept

(* A flowpath reads a request only while flowmgr holds its connection.         *)
LEMMA OpenRead ==
  ASSUME Base, OnceOK, NEW s \in Switches, down[s] # <<>>, proc[s] = "waiting"
  PROVE  mgrEnd[s] = "open"
<1>0. s \in Peers
  BY DEF Peers
<1>1. mgrEnd[s] \notin {"none", "queued"}
  BY <1>0 DEF Base, EndsOK
<1>2. mgrEnd[s] # "closed"
  BY DEF OnceOK
<1> QED
  BY <1>0, <1>1, <1>2 DEF Base, KernelOK

(* A flowpath executes what nobody executed before.                            *)
LEMMA OnceIncoming ==
  ASSUME Base, TokensOK, LinesOK, RunsOK, OnceOK, NEW s \in Switches, fp_mgr_incoming(s)
  PROVE  OnceOK'
<1> DEFINE x == Head(down[s])
<1>0. s \in Peers /\ \A t \in Switches : t \in Peers /\ t \notin Clients
  BY ProcessAssumption DEF Peers
<1>1. /\ x \in Clients /\ x \in ToSet(down[s]) /\ inbuf' = [inbuf EXCEPT ![s] = x]
      /\ served'[x] = served[x] + 1 /\ \A c \in Clients : c # x => served'[c] = served[c]
      /\ \A t \in Switches : t # s => proc'[t] = proc[t]
      /\ UNCHANGED mgrEnd
  BY RequestRead
<1>2. /\ down[s] # <<>> /\ proc[s] = "waiting" /\ UNCHANGED got
      /\ \A q \in Peers : q # s => down'[q] = down[q] /\ up'[q] = up[q]
      /\ up'[s] \in {up[s], Append(up[s], x)}
  BY <1>0 DEF fp_mgr_incoming, Reply, Base, KernelOK
<1>3. up[s] \in Seq(Clients)
  BY DEF TokensOK
<1>4. ToSet(Append(up[s], x)) = ToSet(up[s]) \cup {x}
  BY <1>1, <1>3, ToSetAppend
<1> HIDE DEF x
<1>5. mgrEnd[s] = "open"
  BY <1>2, OpenRead
<1>6. served[x] = 0
  BY <1>1 DEF RunsOK, Fresh
<1>7. \A t \in Switches : t # s => inbuf'[t] = inbuf[t] /\ down'[t] = down[t]
  BY <1>0, <1>1, <1>2 DEF RunsOK
<1>8. ASSUME NEW c \in Clients, Executed(c)', c # x
      PROVE  Executed(c)
  <2>1. ASSUME NEW t \in Switches, c \in ToSet(up'[t])
        PROVE  c \in ToSet(up[t])
    <3>1. CASE t = s
      <4>1. ToSet(up'[s]) \in {ToSet(up[s]), ToSet(Append(up[s], x))}
        BY <1>2
      <4> QED
        BY <1>4, <1>8, <2>1, <3>1, <4>1
    <3>2. CASE t # s
      BY <1>0, <1>2, <2>1, <3>2
    <3> QED
      BY <3>1, <3>2
  <2>2. \A d \in Clients : At(c, d)' => At(c, d)
    BY <1>0, <1>2 DEF At, Peers
  <2> QED
    BY <1>8, <2>1, <2>2 DEF Executed
<1>9. \A c \in Clients : served'[c] \in {0, 1} /\ (Executed(c)' => served'[c] = 1)
  <2> SUFFICES ASSUME NEW c \in Clients
               PROVE  served'[c] \in {0, 1} /\ (Executed(c)' => served'[c] = 1)
    OBVIOUS
  <2>1. CASE c = x
    BY <1>1, <1>6, <2>1
  <2>2. CASE c # x
    BY <1>1, <1>8, <2>2 DEF OnceOK
  <2> QED
    BY <2>1, <2>2
<1> QED
  BY <1>1, <1>5, <1>7, <1>9 DEF OnceOK

LEMMA OnceSwitch ==
  ASSUME Base, TokensOK, LinesOK, RunsOK, OnceOK, NEW s \in Switches,
         flowpath_open(s) \/ fp_mgr_incoming(s) \/ fp_mgr_incoming_closed(s) \/ flowpath_exit(s)
  PROVE  OnceOK'
<1>0. s \in Peers /\ \A t \in Switches : t \in Peers /\ t \notin Clients
  BY ProcessAssumption DEF Peers
<1>1. CASE flowpath_open(s)
  <2>1. /\ UNCHANGED <<up, down, got, inbuf, served>> /\ mgrEnd[s] = "none"
        /\ mgrEnd'[s] \in {"none", "queued"}
        /\ \A q \in Peers : q # s => proc'[q] = proc[q] /\ mgrEnd'[q] = mgrEnd[q]
    BY <1>0, <1>1 DEF flowpath_open, connect, Base, KernelOK, ProcsOK, EndsOK
  <2>2. \A c \in Clients : Executed(c)' => Executed(c)
    BY <2>1 DEF Executed, At
  <2> QED
    BY <1>0, <2>1, <2>2, OnceKept
<1>2. CASE fp_mgr_incoming_closed(s) \/ flowpath_exit(s)
  <2>1. /\ UNCHANGED <<mgrEnd, up, down, got, inbuf>> /\ proc[s] = "waiting"
        /\ proc'[s] = "gone" /\ \A q \in Peers : q # s => proc'[q] = proc[q]
        /\ UNCHANGED served \/ (mgrEnd[s] = "closed" /\ inbuf[s] # Null)
    BY <1>0, <1>2 DEF fp_mgr_incoming_closed, flowpath_exit, kernel, Base, ProcsOK
  <2>2. UNCHANGED served
    BY <2>1 DEF OnceOK
  <2>3. \A c \in Clients : Executed(c)' => Executed(c)
    BY <2>1 DEF Executed, At
  <2> QED
    BY <1>0, <2>1, <2>2, <2>3, OnceKept
<1> QED
  BY <1>1, <1>2, OnceIncoming

LEMMA OnceNext ==
  ASSUME Base, Steady, TokensOK, LinesOK, RunsOK, CalmOK, OnceOK, "signal" \notin Faults, [Next]_vars
  PROVE  OnceOK'
<1>1. CASE poll \/ reset \/ UNCHANGED vars
  BY <1>1, OnceSame DEF poll, reset, vars, kernel
<1>2. CASE process_events
  BY <1>2, EventHandled, OnceHandlers
<1>3. ASSUME NEW h \in rm, unregister_handler(h)
      PROVE  OnceOK'
  BY <1>3, Unregisters, OnceRemoves
<1>4. CASE signal_handler
  BY <1>4 DEF signal_handler
<1> QED
  BY <1>1, <1>2, <1>3, <1>4, OnceClient, OnceSwitch DEF Next, Mgr

LEMMA OnceInvariant ==
  ASSUME ServiceFaults
  PROVE  Spec => [](Base /\ Steady /\ TokensOK /\ LinesOK /\ RunsOK /\ CalmOK /\ RunningOK /\ OnceOK)
<1>0. "signal" \notin Faults
  BY DEF ServiceFaults
<1>1. Init => OnceOK
  BY OnceInit
<1>2. Base /\ Steady /\ TokensOK /\ LinesOK /\ RunsOK /\ CalmOK /\ RunningOK /\ OnceOK /\ [Next]_vars => OnceOK'
  BY <1>0, OnceNext
<1>3. Spec => [](Base /\ Steady /\ TokensOK /\ LinesOK /\ RunsOK /\ CalmOK /\ RunningOK)
  BY RunningInvariant
<1> QED
  BY <1>1, <1>2, <1>3, PTL DEF Spec

-----------------------------------------------------------------------------

(* Together the processes are the command service                              *)

(* Among the messages a client got, the replies are to its own command.        *)
Own(msgs, c) == ToSet(msgs) \cap Clients \subseteq {c}

(* Where a command is, as CommandService has it, when a client gets at most    *)
(* its own reply and is served at most once.                                   *)
Stage(replies, times, p, c) ==
  IF c \in ToSet(replies) THEN "answered"
  ELSE IF times = 1 THEN IF p = "gone" THEN "lost" ELSE "executed"
  ELSE IF p = "gone" THEN "left" ELSE IF p = "waiting" THEN "asked" ELSE "new"

(* What Progress says of a client that got replies and was served times.       *)
ProgressOf(replies, times, p, c) ==
  LET mine == ToSet(replies) \cap Clients
      left == p = "gone"
  IN
  CASE mine = {c} /\ times = 1 -> "answered"
    [] mine \notin {{}, {c}} \/ times > 1 -> "wrong"
    [] mine = {} /\ times = 1 -> IF left THEN "lost" ELSE "executed"
    [] mine = {} /\ times = 0 -> CASE left -> "left"
                                   [] p = "waiting" -> "asked"
                                   [] OTHER -> "new"

(* The stages of CommandService are those Progress names.                      *)
LEMMA ProgressStage ==
  \A c \in Clients : \A replies, times, p :
    /\ Own(replies, c) /\ times \in {0, 1} /\ (c \in ToSet(replies) => times = 1)
    => ProgressOf(replies, times, p, c) = Stage(replies, times, p, c)
<1> SUFFICES ASSUME NEW c \in Clients, NEW replies, NEW times, NEW p,
                    Own(replies, c), times \in {0, 1}, c \in ToSet(replies) => times = 1
             PROVE  ProgressOf(replies, times, p, c) = Stage(replies, times, p, c)
  OBVIOUS
<1> DEFINE mine == ToSet(replies) \cap Clients
<1>1. CASE c \in ToSet(replies)
  <2>1. mine = {c} /\ times = 1
    BY <1>1 DEF Own
  <2> QED BY <1>1, <2>1 DEF ProgressOf, Stage
<1>2. CASE c \notin ToSet(replies)
  <2>1. mine = {} /\ mine # {c}
    BY <1>2 DEF Own
  <2> HIDE DEF mine
  <2>2. CASE times = 1
    BY <1>2, <2>1, <2>2 DEF ProgressOf, Stage, mine
  <2>3. CASE times = 0
    BY <1>2, <2>1, <2>3 DEF ProgressOf, Stage, mine
  <2> QED BY <2>2, <2>3
<1> QED BY <1>1, <1>2

(* The stage of a client.                                                      *)
StageOf(c) == Stage(got[c], served[c], proc[c], c)

(* A client gets no other reply than its own, and that was executed.           *)
LEMMA StageHolds ==
  ASSUME CalmOK, OnceOK, NEW c \in Clients
  PROVE  Own(got[c], c) /\ served[c] \in {0, 1} /\ (c \in ToSet(got[c]) => served[c] = 1)
<1>1. ASSUME NEW d \in ToSet(got[c]) \cap Clients
      PROVE  d = c
  BY DEF At, CalmOK, ClientOK
<1>2. served[c] \in {0, 1} /\ (At(c, c) => served[c] = 1)
  BY DEF OnceOK, Executed
<1> QED
  BY <1>1, <1>2 DEF Own, At

(* Before and after a step the stage is what Progress says.                    *)
LEMMA StagesOfProgress == CalmOK /\ OnceOK => \A c \in Clients : Progress(c) = StageOf(c)
<1> SUFFICES ASSUME CalmOK, OnceOK, NEW c \in Clients
             PROVE  Progress(c) = StageOf(c)
  OBVIOUS
<1>1. Progress(c) = ProgressOf(got[c], served[c], proc[c], c)
  BY DEF Progress, ProgressOf
<1> QED
  BY <1>1, StageHolds, ProgressStage DEF StageOf

(* A step of one client's command is a step of the service, one of no client   *)
(* none.                                                                       *)
LEMMA StageSteps ==
  ASSUME \A c \in Clients : Progress(c) = StageOf(c) /\ Progress(c)' = StageOf(c)'
  PROVE  LET status == [c \in Clients |-> Progress(c)]
         IN  /\ (\A c \in Clients : StageOf(c)' = StageOf(c)) => UNCHANGED status
             /\ \A c \in Clients :
                  /\ <<StageOf(c), StageOf(c)'>> \in
                       {<<"new", "asked">>, <<"asked", "executed">>, <<"executed", "answered">>,
                        <<"new", "left">>, <<"asked", "left">>, <<"executed", "lost">>}
                  /\ \A d \in Clients \ {c} : StageOf(d)' = StageOf(d)
                  => Service!Next
<1> DEFINE status == [c \in Clients |-> Progress(c)]
<1>1. (\A c \in Clients : StageOf(c)' = StageOf(c)) => UNCHANGED status
  OBVIOUS
<1>2. ASSUME NEW c \in Clients, NEW from, NEW to, StageOf(c) = from, StageOf(c)' = to,
             \A d \in Clients \ {c} : StageOf(d)' = StageOf(d)
      PROVE  Service!Move(c, from, to)
  <2>1. status[c] = from
    BY <1>2
  <2>2. status' = [status EXCEPT ![c] = to]
    BY <1>2
  <2> QED BY <2>1, <2>2 DEF Service!Move
<1>3. ASSUME NEW c \in Clients,
             <<StageOf(c), StageOf(c)'>> \in
                       {<<"new", "asked">>, <<"asked", "executed">>, <<"executed", "answered">>,
                        <<"new", "left">>, <<"asked", "left">>, <<"executed", "lost">>},
             \A d \in Clients \ {c} : StageOf(d)' = StageOf(d)
      PROVE  Service!Next
  <2>1. \/ Service!Move(c, "new", "asked") \/ Service!Move(c, "asked", "executed")
        \/ Service!Move(c, "executed", "answered") \/ Service!Move(c, "new", "left")
        \/ Service!Move(c, "asked", "left") \/ Service!Move(c, "executed", "lost")
    <3> HIDE DEF status
    <3>1. \/ StageOf(c) = "new" /\ StageOf(c)' = "asked"
          \/ StageOf(c) = "asked" /\ StageOf(c)' = "executed"
          \/ StageOf(c) = "executed" /\ StageOf(c)' = "answered"
          \/ StageOf(c) = "new" /\ StageOf(c)' = "left"
          \/ StageOf(c) = "asked" /\ StageOf(c)' = "left"
          \/ StageOf(c) = "executed" /\ StageOf(c)' = "lost"
      BY <1>3
    <3> QED BY <1>2, <1>3, <3>1
  <2>2. Service!Ask(c) \/ Service!Execute(c) \/ Service!Answer(c) \/ Service!Leave(c)
    BY <2>1 DEF Service!Ask, Service!Execute, Service!Answer, Service!Leave
  <2> QED BY <2>2 DEF Service!Next
<1> QED BY <1>1, <1>3

(* flowmgr's own steps and those of a switch that executes nothing leave every *)
(* command where it is; every other step moves one command on.                 *)
LEMMA StageClient ==
  ASSUME Base, TokensOK, RunsOK, CalmOK, OnceOK, "kill_client" \notin Faults, NEW c \in Clients,
         flowctl_connect(c) \/ flowctl_send(c) \/ flowctl_recv(c) \/ kill(c)
  PROVE  /\ \A d \in Clients \ {c} : StageOf(d)' = StageOf(d)
         /\ \/ StageOf(c)' = StageOf(c)
            \/ <<StageOf(c), StageOf(c)'>> \in
                 {<<"new", "asked">>, <<"asked", "executed">>, <<"executed", "answered">>,
                  <<"new", "left">>, <<"asked", "left">>, <<"executed", "lost">>}
<1>0. c \in Peers /\ \A d \in Clients : d \in Peers
  BY DEF Peers
<1>1. /\ UNCHANGED served
      /\ \A d \in Clients \ {c} : proc'[d] = proc[d] /\ got'[d] = got[d]
  <2>1. CASE flowctl_connect(c)
    BY <1>0, <2>1 DEF flowctl_connect, connect, Base, ProcsOK
  <2>2. CASE flowctl_send(c)
    BY <1>0, <2>2 DEF flowctl_send, Base, ProcsOK
  <2>3. CASE flowctl_recv(c)
    BY <1>0, <2>3 DEF flowctl_recv, Base, ProcsOK
  <2>4. ~kill(c)
    BY DEF kill
  <2> QED BY <2>1, <2>2, <2>3, <2>4
<1>2. \A d \in Clients \ {c} : StageOf(d)' = StageOf(d)
  BY <1>1 DEF StageOf
<1>3. /\ StageOf(c) = Stage(got[c], served[c], proc[c], c)
      /\ StageOf(c)' = Stage(got'[c], served[c], proc'[c], c)
  BY <1>1 DEF StageOf, Stage
<1>4. /\ got[c] # <<>> => proc[c] = "gone"
      /\ proc[c] \in {"new", "connected"} => served[c] = 0
      /\ served[c] \in {0, 1}
      /\ c \in ToSet(down[c]) => served[c] = 1
  BY DEF CalmOK, ClientOK, RunsOK, Fresh, OnceOK, Executed, At
<1>5. CASE flowctl_connect(c) \/ flowctl_send(c)
  <2>1. /\ proc[c] \in {"new", "connected"} /\ UNCHANGED got
        /\ proc'[c] \in {"new", "connected", "waiting", "gone"}
    BY <1>0, <1>5 DEF flowctl_connect, connect, flowctl_send, Base, ProcsOK
  <2>2. got[c] = <<>> /\ got'[c] = <<>> /\ served[c] = 0
    BY <1>4, <2>1
  <2>3. StageOf(c) = "new"
    BY <1>3, <2>1, <2>2, ToSetEmpty DEF Stage
  <2>4. StageOf(c)' \in {"new", "asked", "left"}
    BY <1>3, <2>1, <2>2, ToSetEmpty DEF Stage
  <2> QED BY <1>2, <2>3, <2>4
<1>6. CASE flowctl_recv(c)
  <2>1. proc[c] = "waiting" /\ got'[c] = down[c] /\ proc'[c] = "gone"
    BY <1>0, <1>6 DEF flowctl_recv, Base, ProcsOK
  <2>2. got[c] = <<>>
    BY <1>4, <2>1
  <2>3. CASE served[c] = 1
    <3>1. StageOf(c) = "executed"
      BY <1>3, <2>1, <2>2, <2>3, ToSetEmpty DEF Stage
    <3>2. StageOf(c)' \in {"answered", "lost"}
      BY <1>3, <2>1, <2>3 DEF Stage
    <3> QED BY <1>2, <3>1, <3>2
  <2>4. CASE served[c] = 0
    <3>1. StageOf(c) = "asked"
      BY <1>3, <2>1, <2>2, <2>4, ToSetEmpty DEF Stage
    <3>2. c \notin ToSet(down[c])
      BY <1>4, <2>4
    <3>3. StageOf(c)' = "left"
      BY <1>3, <2>1, <2>4, <3>2 DEF Stage
    <3> QED BY <1>2, <3>1, <3>3
  <2> QED BY <1>4, <2>3, <2>4
<1>7. ~kill(c)
  BY DEF kill
<1> QED BY <1>5, <1>6, <1>7

(* A switch moves the command it executes.                                     *)
LEMMA StageExecuted ==
  ASSUME Base, TokensOK, LinesOK, RunsOK, CalmOK, OnceOK, NEW s \in Switches, fp_mgr_incoming(s)
  PROVE  \E c \in Clients :
           /\ StageOf(c) = "asked" /\ StageOf(c)' = "executed"
           /\ \A d \in Clients \ {c} : StageOf(d)' = StageOf(d)
<1>1. PICK x \in Clients :
           /\ x \in ToSet(down[s])
           /\ served'[x] = served[x] + 1 /\ \A c \in Clients : c # x => served'[c] = served[c]
           /\ \A c \in Clients : proc'[c] = proc[c]
  BY RequestRead
<1>2. down[s] # <<>> /\ proc[s] = "waiting" /\ UNCHANGED got
  BY DEF fp_mgr_incoming
<1>3. mgrEnd[s] = "open"
  BY <1>2, OpenRead
<1>4. proc[x] = "waiting" /\ served[x] = 0
  BY <1>1, <1>3 DEF CalmOK, RequestsOK, At, RunsOK, Fresh
<1>5. got[x] = <<>>
  BY <1>1, <1>4 DEF CalmOK, ClientOK
<1>6. StageOf(x) = Stage(<<>>, 0, "waiting", x) /\ StageOf(x)' = Stage(<<>>, 1, "waiting", x)
  BY <1>1, <1>2, <1>4, <1>5 DEF StageOf, Stage
<1>7. StageOf(x) = "asked" /\ StageOf(x)' = "executed"
  BY <1>6, ToSetEmpty DEF Stage
<1>8. \A d \in Clients \ {x} : StageOf(d)' = StageOf(d)
  BY <1>1, <1>2 DEF StageOf, Stage
<1> QED
  BY <1>1, <1>7, <1>8

(* Every step is a step of the service or leaves it as it is.                  *)
LEMMA ServiceNext ==
  ASSUME ServiceFaults, Base, Steady, TokensOK, LinesOK, RunsOK, CalmOK, OnceOK, CalmOK', OnceOK',
         [Next]_vars
  PROVE  [Service!Next]_([c \in Clients |-> Progress(c)])
<1>0. \A c \in Clients : Progress(c) = StageOf(c) /\ Progress(c)' = StageOf(c)'
  <2>1. \A c \in Clients : Progress(c) = StageOf(c)
    BY StagesOfProgress
  <2>2. (\A c \in Clients : Progress(c) = StageOf(c))'
    BY StagesOfProgress, PTL
  <2> QED
    BY <2>1, <2>2
<1>1. ASSUME \A c \in Clients : StageOf(c)' = StageOf(c)
      PROVE  [Service!Next]_([c \in Clients |-> Progress(c)])
  BY <1>0, <1>1, StageSteps
<1>2. ASSUME UNCHANGED <<got, served>>, \A c \in Clients : proc'[c] = proc[c]
      PROVE  [Service!Next]_([c \in Clients |-> Progress(c)])
  <2>1. \A c \in Clients : StageOf(c)' = StageOf(c)
    BY <1>2 DEF StageOf, Stage
  <2> QED
    BY <1>1, <2>1
<1>3. ASSUME UNCHANGED procs
      PROVE  [Service!Next]_([c \in Clients |-> Progress(c)])
  BY <1>2, <1>3 DEF procs
<1>4. CASE poll \/ reset \/ UNCHANGED vars
  BY <1>3, <1>4 DEF poll, reset, vars
<1>5. CASE process_events
  <2>1. UNCHANGED procs
    BY <1>5, EventHandled, Dispatched
  <2> QED
    BY <1>3, <2>1
<1>6. ASSUME NEW h, unregister_handler(h)
      PROVE  [Service!Next]_([c \in Clients |-> Progress(c)])
  <2>1. UNCHANGED procs
    BY <1>6, Unregisters DEF Removes
  <2> QED
    BY <1>3, <2>1
<1>7. ~signal_handler
  BY DEF signal_handler, ServiceFaults
<1>8. ASSUME NEW c \in Clients, flowctl_connect(c) \/ flowctl_send(c) \/ flowctl_recv(c) \/ kill(c)
      PROVE  [Service!Next]_([d \in Clients |-> Progress(d)])
  <2>1. "kill_client" \notin Faults
    BY DEF ServiceFaults
  <2>2. CASE StageOf(c)' = StageOf(c)
    BY <1>1, <1>8, <2>1, <2>2, StageClient
  <2>3. CASE StageOf(c)' # StageOf(c)
    BY <1>0, <1>8, <2>1, <2>3, StageClient, StageSteps
  <2> QED
    BY <2>2, <2>3
<1>9. ASSUME NEW s \in Switches, \/ flowpath_open(s) \/ fp_mgr_incoming(s)
                                 \/ fp_mgr_incoming_closed(s) \/ flowpath_exit(s)
      PROVE  [Service!Next]_([c \in Clients |-> Progress(c)])
  <2>1. CASE fp_mgr_incoming(s)
    BY <1>0, <2>1, StageExecuted, StageSteps
  <2>2. CASE flowpath_open(s) \/ fp_mgr_incoming_closed(s) \/ flowpath_exit(s)
    <3>0. s \in Peers /\ \A c \in Clients : c \in Peers /\ c # s
      BY ProcessAssumption DEF Peers
    <3>1. UNCHANGED got /\ \A c \in Clients : proc'[c] = proc[c]
      BY <2>2, <3>0 DEF flowpath_open, connect, fp_mgr_incoming_closed, flowpath_exit, Base, ProcsOK
    <3>2. UNCHANGED served
      BY <2>2 DEF flowpath_open, connect, fp_mgr_incoming_closed, flowpath_exit, OnceOK
    <3> QED
      BY <1>2, <3>1, <3>2
  <2> QED
    BY <1>9, <2>1, <2>2
<1> QED
  BY <1>4, <1>5, <1>6, <1>7, <1>8, <1>9 DEF Next, Mgr

(* Each command is asked for, executed at most once and answered at most with  *)
(* its own result: flowctl, flowmgr and flowpath implement CommandService,     *)
(* with flowctls that overlap and are refused, switches that restart between   *)
(* commands and servers that are given up, for any number of them.             *)
THEOREM FlowMgrImplementsService ==
  ASSUME ServiceFaults
  PROVE  Spec => ImplementsService
<1> DEFINE Inv == Base /\ Steady /\ TokensOK /\ LinesOK /\ RunsOK /\ CalmOK /\ RunningOK /\ OnceOK
<1>1. Init => Service!Init
  <2> SUFFICES ASSUME Init
               PROVE  Service!Init
    OBVIOUS
  <2>1. \A c \in Clients : got[c] = <<>> /\ served[c] = 0 /\ proc[c] = "new"
    BY DEF Init, Peers
  <2>2. \A c \in Clients : Progress(c) = StageOf(c)
    BY CalmInit, OnceInit, StagesOfProgress
  <2>3. \A c \in Clients : Progress(c) = "new"
    BY <2>1, <2>2, ToSetEmpty DEF StageOf, Stage
  <2> QED
    BY <2>3 DEF Service!Init
<1>2. Inv /\ [Next]_vars /\ Inv' => [Service!Next]_([c \in Clients |-> Progress(c)])
  BY ServiceNext
<1>3. Spec => []Inv
  BY OnceInvariant
<1> QED
  BY <1>1, <1>2, <1>3, PTL DEF Spec, ImplementsService, Service!Spec
=============================================================================
