------------------------------ MODULE VirtioNet ------------------------------
(***************************************************************************)
(* The virtio network driver: the receive ring with its posted buffers and *)
(* the transmit ring with its one buffer (src/src/virtio_net.rs).          *)
(*                                                                         *)
(* A queue is shared memory: the driver publishes descriptors in the       *)
(* available ring, the device returns them in the used ring, and each side *)
(* keeps an index that wraps.  The device is outside the code: it works at *)
(* its own pace, and reads a buffer when it gets to it.                    *)
(***************************************************************************)
EXTENDS Integers, Sequences, FiniteSets

CONSTANTS
    VnQueue,     \* the device's queue size
    RX_BUFFERS,
    VnIndex,     \* indexes wrap here, at 2^16 in the code; a multiple of VnQueue
    VnFrames,    \* frames, and what may be in a buffer
    VnSends,     \* bound: frames that are sent
    VnReceives   \* bound: frames that arrive

VARIABLE vn

RxCount == IF RX_BUFFERS < VnQueue THEN RX_BUFFERS ELSE VnQueue
RxId == 0 .. RxCount - 1
Short == "short"  \* a frame of no more than the header's length

Slot(i) == i % VnQueue
NextIndex(i) == (i + 1) % VnIndex
NewQueue == [avail |-> [i \in 0 .. VnQueue - 1 |-> 0], avail_idx |-> 0,
             used |-> [i \in 0 .. VnQueue - 1 |-> <<0, Short>>], used_idx |-> 0,
             last_used_idx |-> 0,
             seen |-> 0]  \* the device's own index of the available ring

Push_avail(q, id) == [q EXCEPT !.avail[Slot(q.avail_idx)] = id, !.avail_idx = NextIndex(@)]

HasUsed(q) == q.used_idx # q.last_used_idx
PopUsed(q) == [q EXCEPT !.last_used_idx = NextIndex(@)]
UsedEntry(q) == q.used[Slot(q.last_used_idx)]

\* External: the device takes the next descriptor and returns it with a frame.
DeviceReturns(q, frame) ==
    [q EXCEPT !.seen = NextIndex(@),
              !.used[Slot(q.used_idx)] = <<q.avail[Slot(q.seen)], frame>>,
              !.used_idx = NextIndex(@)]

----------------------------------------------------------------------------
\* init(): both queues, and all receive buffers posted in order.
PostedAtInit ==
    [NewQueue EXCEPT !.avail = [i \in DOMAIN @ |-> IF i \in RxId THEN i ELSE 0], !.avail_idx = RxCount % VnIndex]

VnInit ==
    vn = [rx |-> PostedAtInit, tx |-> NewQueue, buffer |-> "none", sending |-> "none", late |-> FALSE,
          wire |-> <<>>, came |-> <<>>, got |-> <<>>, sends |-> VnSends]

\* A frame is copied into the buffer and its descriptor published.
VnTransmit ==
    /\ vn.sending = "none" /\ vn.sends > 0
    /\ \E f \in VnFrames :
          vn' = [vn EXCEPT !.sends = @ - 1, !.buffer = f, !.sending = f, !.tx = Push_avail(@, 0)]

\* A round of the wait loop takes a used descriptor, whichever it is.
VnSent ==
    /\ vn.sending # "none" /\ HasUsed(vn.tx)
    /\ vn' = [vn EXCEPT !.tx = PopUsed(@), !.sending = "none"]

\* The spins are used up: the descriptor stays with the device.
VnTimeout ==
    /\ vn.sending # "none" /\ ~HasUsed(vn.tx)
    /\ vn' = [vn EXCEPT !.sending = "none", !.late = TRUE]

\* poll(): one round of its loop takes a used buffer, copies the frame unless
\* it is too short, and posts the buffer again.
VnPoll ==
    /\ HasUsed(vn.rx)
    /\ LET e == UsedEntry(vn.rx)
       IN vn' = [vn EXCEPT !.rx = Push_avail(PopUsed(@), e[1]),
                           !.got = IF e[2] = Short THEN @ ELSE Append(@, e[2])]

\* External: the device sends what is in the buffer, and fills buffers.
VnDevice ==
    \/ /\ vn.tx.seen # vn.tx.avail_idx
       /\ vn' = [vn EXCEPT !.wire = Append(@, vn.buffer), !.tx = DeviceReturns(@, vn.buffer)]
    \/ /\ vn.rx.seen # vn.rx.avail_idx /\ Len(vn.came) < VnReceives
       /\ \E f \in VnFrames \cup {Short} :
             vn' = [vn EXCEPT !.came = Append(@, f), !.rx = DeviceReturns(@, f)]

VnNext == VnTransmit \/ VnSent \/ VnTimeout \/ VnPoll \/ VnDevice

----------------------------------------------------------------------------
\* The entries between two indexes of a ring.
Between(ring, from, to) == [i \in 0 .. ((to - from) % VnIndex) - 1 |-> ring[Slot(from + i)]]

\* Every receive buffer is in one place: posted for the device, or returned
\* and not yet taken.  None is lost and none is posted twice.
RxBuffersKept ==
    LET posted == Between(vn.rx.avail, vn.rx.seen, vn.rx.avail_idx)
        back == Between(vn.rx.used, vn.rx.last_used_idx, vn.rx.used_idx)
    IN \A id \in RxId :
         Cardinality({i \in DOMAIN posted : posted[i] = id}) + Cardinality({i \in DOMAIN back : back[i][1] = id}) = 1

\* The frames that came are handed to the network stack in order, each once,
\* without those that are too short.
FramesInOrder ==
    \E n \in 0 .. Len(vn.came) : vn.got = SelectSeq(SubSeq(vn.came, 1, n), LAMBDA f : f # Short)

\* As long as no transmission has timed out, transmit() returns when its frame
\* is on the wire.  (After a timeout the used descriptor of the frame before
\* ends the wait for the next.)
SentIsOnWire ==
    vn.sending # "none" /\ vn'.sending = "none" /\ ~vn'.late
          => vn.wire # <<>> /\ vn.wire[Len(vn.wire)] = vn.sending
=============================================================================
