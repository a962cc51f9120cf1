------------------------------ MODULE NadkPort ------------------------------
(***************************************************************************)
(* The packet path between two devices of flowpath: src/flowpath/          *)
(* port_nadk.c with its receive and transmit rings (module Ring), and      *)
(* port_udp.c as the other kind of device.  One thread alternates between  *)
(* the devices, as the loops of tests/test-nadk.c do: it receives a packet *)
(* from one and sends it, on the same device ("reflect") or on the other   *)
(* ("xreflect"); the loopback tests pass whole batches on, without rings.  *)
(*                                                                         *)
(* A frame is [dev, n], the n-th that arrived on dev from outside.  A      *)
(* packet is a frame and the owner of its buffer: "nadk", a buffer of the  *)
(* driver, or "alloc", memory of malloc that fp_udp_recv filled.  A UDP    *)
(* device sends to the address it is bound to, so what it sends comes back *)
(* to its own socket.                                                      *)
(***************************************************************************)
EXTENDS Integers, Sequences, FiniteSets, SequencesExt

CONSTANTS
  Devices,     \* the two devices
  Udp,         \* those of them that are UDP sockets
  Budget,      \* NADK_FP_RX_BUDGET
  MaxFrames,   \* bound: frames that arrive on a device
  Tests,       \* the loops of the test that may run
  Driver,      \* what the driver may do: "refuse" a batch, have "no_mbuf" left
  Null

ASSUME NadkAssumption ==
  /\ \E d, e \in Devices : d # e /\ Devices = {d, e}
  /\ Udp \subseteq Devices
  /\ Budget \in Nat \ {0} /\ MaxFrames \in Nat
  /\ Tests \subseteq {"reflect", "xreflect", "loopback", "xloopback"}
  /\ Udp # {} => Tests = {"xreflect"}    \* a UDP device sends to itself
  /\ Driver \subseteq {"refuse", "no_mbuf"}
  /\ \A frame \in [dev : Devices, n : 1 .. MaxFrames], b \in {"nadk", "alloc"} :
       Null # [frame |-> frame, buf_dev |-> b]

Frames  == [dev : Devices, n : 1 .. MaxFrames]
Packets == [frame : Frames, buf_dev : {"nadk", "alloc"}]

INSTANCE Ring WITH Num <- 2 * Budget, Items <- Packets, Junk <- Null

Other(d) == CHOOSE e \in Devices : e # d
Nadk == Devices \ Udp

VARIABLES
  test,      \* the loop that runs
  arrived,   \* device -> how many frames arrived
  queue,     \* device -> frames the driver or the socket holds
  rx, tx,    \* NADK device -> its rings
  turn,      \* the device the loop serves
  hand,      \* the packet received and not yet sent, or Null
  out,       \* device -> frames put on the wire, in order
  dropped,   \* frames the driver did not take and a loopback freed
  freed      \* packets whose data segment was deallocated

vars == <<test, arrived, queue, rx, tx, turn, hand, out, dropped, freed>>

(* The device that sends what d received. *)
Target(d) == IF test \in {"reflect", "loopback"} THEN d ELSE Other(d)

Init ==
  /\ arrived = [d \in Devices |-> 0]
  /\ queue = [d \in Devices |-> <<>>]
  /\ rx = [d \in Nadk |-> fp_ring_new]
  /\ tx = [d \in Nadk |-> fp_ring_new]
  /\ test \in Tests
  /\ turn \in Devices
  /\ hand = Null
  /\ dropped = {}
  /\ out = [d \in Devices |-> <<>>]
  /\ freed = {}

(* A frame arrives from outside. *)
Arrive(d) ==
  /\ arrived[d] < MaxFrames
  /\ arrived' = [arrived EXCEPT ![d] = @ + 1]
  /\ queue' = [queue EXCEPT ![d] = Append(@, [dev |-> d, n |-> arrived[d] + 1])]
  /\ UNCHANGED <<test, rx, tx, turn, hand, out, dropped, freed>>

(* Bug: the owner of the buffer is not recorded. *)
fp_packet_create_NoOwner(frame, buf_dev) == [frame |-> frame, buf_dev |-> Null]

fp_packet_create(frame, buf_dev) == [frame |-> frame, buf_dev |-> buf_dev]

-----------------------------------------------------------------------------
(* Receiving *)

(* The loops that go through flowpath's own packets and rings. *)
Ringed == test \in {"reflect", "xreflect"}

(* The ring is low: time for a batch. *)
Low(r) == fp_ring_count(r) < Budget

(* fp_nadk_recv_batch: k frames become packets; the ring takes what fits, and *)
(* what does not is forgotten.                                                *)
fp_nadk_recv_batch(d, k) ==
  LET rx_batch == [i \in 1 .. k |-> fp_packet_create(queue[d][i], "nadk")]
  IN  fp_ring_push_n(rx[d], rx_batch, k).r

(* The driver hands over something when it has something, and no more than   *)
(* the budget.                                                               *)
nadk_receive(d) ==
  LET most == Min2(Budget, Len(queue[d])) IN IF most = 0 THEN {0} ELSE 1 .. most

fp_nadk_recv(d) ==
  /\ Ringed /\ turn = d /\ hand = Null /\ d \in Nadk
  /\ \E k \in IF Low(rx[d]) THEN nadk_receive(d) ELSE {0} :
       LET popped == fp_ring_pop(fp_nadk_recv_batch(d, k)) IN
          /\ queue' = [queue EXCEPT ![d] = SubSeq(@, k + 1, Len(@))]
          /\ rx' = [rx EXCEPT ![d] = popped.r]
          /\ \/ popped.n = 1 /\ hand' = popped.out[1] /\ UNCHANGED turn
             \/ popped.n = 0 /\ turn' = Other(d) /\ UNCHANGED hand
  /\ UNCHANGED <<test, arrived, tx, out, dropped, freed>>

(* recvfrom() waits for a datagram; its bytes are copied into new memory.    *)
(* When it fails, or the datagram is empty, there is no packet.              *)
fp_udp_recv(d) ==
  LET pkt == fp_packet_create(Head(queue[d]), "alloc") IN
  /\ Ringed /\ turn = d /\ hand = Null /\ d \in Udp
  /\ \/ /\ queue[d] # <<>>
        /\ queue' = [queue EXCEPT ![d] = Tail(@)]
        /\ hand' = pkt
        /\ freed' = freed \ {pkt}
        /\ UNCHANGED turn
     \/ turn' = Other(d) /\ UNCHANGED <<queue, hand, freed>>
  /\ UNCHANGED <<test, arrived, rx, tx, out, dropped>>

-----------------------------------------------------------------------------
(* Sending *)

Alloc(pkt) == pkt.buf_dev = "alloc"

(* How many packets of a batch get a buffer of the driver: the loop stops at  *)
(* one that must be copied and cannot be.                                     *)
Prepared(batch, num) ==
  {num} \cup {k \in 0 .. num - 1 : "no_mbuf" \in Driver /\ Alloc(batch[k + 1])}

(* How many of num packets the driver takes. *)
nadk_send(num) == (IF "refuse" \in Driver THEN 0 ELSE Min2(1, num)) .. num

(* Bugs: one packet sent stays queued; the whole batch is removed. *)
Removed_OneLess(sent) == IF sent = 0 THEN 0 ELSE sent - 1
Removed_WholeBatch(sent) == Budget
Removed(sent) == sent

fp_nadk_send_batch(d, ring) ==
  LET top == fp_ring_top_n(ring, Budget) IN
  \E num \in Prepared(top.out, top.n) : \E sent \in nadk_send(num) :
    LET copied == {top.out[i] : i \in {j \in 1 .. num : Alloc(top.out[j])}} IN
    /\ freed' = freed \cup copied
    /\ out' = [out EXCEPT ![d] = @ \o [i \in 1 .. sent |-> top.out[i].frame]]
    /\ tx' = [tx EXCEPT ![d] = fp_ring_remove_n(ring, Removed(sent)).r]

(* Full batches go out at once.  Bug: a batch waits until it is overfull. *)
Due_Late(r) == fp_ring_count(r) > Budget
Due(r) == fp_ring_count(r) >= Budget

(* A full ring does not take the packet, and nobody looks at the result. *)
fp_nadk_send(d) ==
  LET pushed == fp_ring_push(tx[d], hand) IN
  /\ Target(turn) = d /\ hand # Null /\ d \in Nadk
  /\ \/ Due(pushed.r) /\ fp_nadk_send_batch(d, pushed.r)
     \/ /\ ~Due(pushed.r)
        /\ tx' = [tx EXCEPT ![d] = pushed.r]
        /\ UNCHANGED <<out, freed>>
  /\ hand' = Null
  /\ turn' = Other(turn)
  /\ UNCHANGED <<test, arrived, queue, rx, dropped>>

(* What was sent is freed, whoever owns it; what sendto() refused is         *)
(* forgotten.                                                                *)
fp_udp_send(d) ==
  /\ Target(turn) = d /\ hand # Null /\ d \in Udp
  /\ \/ /\ out' = [out EXCEPT ![d] = Append(@, hand.frame)]
        /\ queue' = [queue EXCEPT ![d] = Append(@, hand.frame)]
        /\ freed' = freed \cup {hand}
     \/ UNCHANGED <<out, queue, freed>>
  /\ hand' = Null
  /\ turn' = Other(turn)
  /\ UNCHANGED <<test, arrived, rx, tx, dropped>>

-----------------------------------------------------------------------------
(* Loopback: fp_nadk_loopback and fp_nadk_xloopback *)

(* Bug: what the driver did not take is not freed. *)
Unsent_Leaked(batch, sent) == {}

(* The frames of a batch behind those sent. *)
Unsent(batch, sent) == {batch[i] : i \in sent + 1 .. Len(batch)}

(* A batch goes from one driver to the other without becoming packets; what  *)
(* the driver does not take is freed.                                        *)
fp_nadk_xloopback(src, dst) ==
  /\ turn = src /\ Target(src) = dst /\ src \in Nadk
  /\ \E received \in nadk_receive(src) : \E sent \in nadk_send(received) :
       LET pkt_buf == SubSeq(queue[src], 1, received) IN
       /\ queue' = [queue EXCEPT ![src] = SubSeq(@, received + 1, Len(@))]
       /\ out' = [out EXCEPT ![dst] = @ \o SubSeq(pkt_buf, 1, sent)]
       /\ dropped' = dropped \cup Unsent(pkt_buf, sent)
  /\ turn' = Other(turn)
  /\ UNCHANGED <<test, arrived, rx, tx, hand, freed>>

-----------------------------------------------------------------------------

Step == \E d \in Devices :
  \/ fp_nadk_recv(d) \/ fp_nadk_send(d) \/ fp_udp_recv(d) \/ fp_udp_send(d)
  \/ ~Ringed /\ fp_nadk_xloopback(d, Target(d))

Next == Step \/ \E d \in Devices : Arrive(d)

Spec == Init /\ [][Next]_vars

(* The loop never waits for anything but a datagram; frames need not arrive. *)
FairSpec == Spec /\ WF_vars(Step)

-----------------------------------------------------------------------------

TypeOK ==
  /\ test \in Tests
  /\ arrived \in [Devices -> 0 .. MaxFrames]
  /\ queue \in [Devices -> Seq(Frames)]
  /\ rx \in [Nadk -> Rings] /\ tx \in [Nadk -> Rings]
  /\ turn \in Devices
  /\ hand \in Packets \cup {Null}
  /\ out \in [Devices -> Seq(Frames)]
  /\ dropped \subseteq Frames
  /\ freed \subseteq Packets

FramesOf(packets) == [i \in DOMAIN packets |-> packets[i].frame]

InHand(d) == IF turn = d /\ hand # Null THEN <<hand.frame>> ELSE <<>>

(* The frames of d that are not sent yet, the next to leave first. *)
Queued(d) ==
  FramesOf(Contents(tx[Target(d)])) \o (InHand(d) \o (FramesOf(Contents(rx[d])) \o queue[d]))

Arrivals(d) == [i \in 1 .. arrived[d] |-> [dev |-> d, n |-> i]]

(* No device but NADK, and a driver that takes at least one packet of a batch. *)
Willing == Udp = {} /\ Driver = {}

(* Between two NADK devices whose driver is willing every frame is sent once, *)
(* in the order of arrival, and is found in exactly one place until then:     *)
(* nothing is lost when a batch refills a ring that is not empty, nor when    *)
(* the driver takes only a part of a batch (port_nadk.c:450-627).             *)
ForwardedInOrder ==
  Willing /\ Ringed => \A d \in Devices : out[Target(d)] \o Queued(d) = Arrivals(d)

(* The frames of one device are in the order they arrived in. *)
InOrder(frames) == \A i, j \in DOMAIN frames : i < j => frames[i].n < frames[j].n

(* A loopback sends in the order of arrival and frees what it does not send:  *)
(* no buffer of the driver is lost and none is both sent and freed            *)
(* (port_nadk.c:645-702).                                                     *)
SentOrFreed ==
  ~Ringed =>
    \A d \in Devices :
      LET line == out[Target(d)] \o queue[d]
      IN  InOrder(line) /\ ToSet(line) = ToSet(Arrivals(d)) \ dropped

(* How many frames of a device may stay behind when no more arrive. *)
Waiting == IF Ringed THEN Budget - 1 ELSE 0

(* Every frame that arrives leaves again, but for those of a last batch that *)
(* is not full (port_nadk.c:622-625); a loopback keeps none.                 *)
AllButLastBatchSent ==
  \A d \in Devices : \A n \in 1 .. MaxFrames :
    arrived[d] = n ~>
      Len(out[Target(d)]) + Cardinality({f \in dropped : f.dev = d}) >= n - Waiting

(* A packet waiting in a transmit ring still has its data                    *)
(* (port_nadk.c:525-565).                                                    *)
QueuedDataLive == \A d \in Nadk : ToSet(Contents(tx[d])) \cap freed = {}

(* A device puts a frame on the wire once, whatever part of a batch the      *)
(* driver takes and wherever the loop over the batch stops                   *)
(* (port_nadk.c:555-564).                                                    *)
SentOnce == \A d \in Devices : IsInjective(out[d])
=============================================================================
