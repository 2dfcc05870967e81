-------------------------------- MODULE Pipe --------------------------------
(***************************************************************************)
(* The ring buffer of a pipe (struct Pipe of src/src/vfs.rs) and the       *)
(* channel that it implements.  A read and a write run under the lock of   *)
(* the VFS: their loops over single bytes are one action.                  *)
(***************************************************************************)
EXTENDS Naturals, Sequences

CONSTANTS
    Byte,       \* the bytes that are sent
    PIPE_SIZE,  \* size of the ring
    Chunk,      \* bound: length of one write or read
    ZeroByte        \* what a new buffer is filled with

ASSUME PipeAssumption == PIPE_SIZE \in Nat \ {0} /\ Chunk \in Nat /\ ZeroByte \in Byte

VARIABLES
    buf, head, tail, len,  \* the fields of Pipe
    out                    \* what the last read copied to its caller

vars == <<buf, head, tail, len, out>>

Slot == 0 .. PIPE_SIZE - 1

TypeOK ==
    /\ buf \in [Slot -> Byte]
    /\ head \in Slot /\ tail \in Slot
    /\ len \in 0 .. PIPE_SIZE
    /\ out \in Seq(Byte)

new ==
    /\ buf = [i \in Slot |-> ZeroByte]
    /\ head = 0 /\ tail = 0 /\ len = 0 /\ out = <<>>

Lesser(m, n) == IF m < n THEN m ELSE n

\* The n-th byte that fits goes n places behind head.
write(input) ==
    LET n == Lesser(Len(input), PIPE_SIZE - len)
    IN  /\ buf' = [i \in Slot |->
                     IF \E k \in 1 .. n : i = (head + k - 1) % PIPE_SIZE
                     THEN input[CHOOSE k \in 1 .. n : i = (head + k - 1) % PIPE_SIZE]
                     ELSE buf[i]]
        /\ head' = (head + n) % PIPE_SIZE
        /\ len' = len + n
        /\ UNCHANGED <<tail, out>>

\* Mutant: the read position does not wrap with the ring.
ReadFromStart(want) ==
    LET n == Lesser(want, len)
    IN  /\ out' = [k \in 1 .. n |-> buf[(tail + k - 1) % PIPE_SIZE]]
        /\ tail' = IF tail + n >= PIPE_SIZE THEN 0 ELSE tail + n
        /\ len' = len - n
        /\ UNCHANGED <<buf, head>>

read(want) ==
    LET n == Lesser(want, len)
    IN  /\ out' = [k \in 1 .. n |-> buf[(tail + k - 1) % PIPE_SIZE]]
        /\ tail' = (tail + n) % PIPE_SIZE
        /\ len' = len - n
        /\ UNCHANGED <<buf, head>>

Next ==
    \/ \E k \in 0 .. Chunk : \E input \in [1 .. k -> Byte] : write(input)
    \/ \E want \in 0 .. Chunk : read(want)

Spec == new /\ [][Next]_vars
-----------------------------------------------------------------------------
\* The bytes in the ring, oldest first.
Contents == [k \in 1 .. len |-> buf[(tail + k - 1) % PIPE_SIZE]]

Channel == INSTANCE Fifo WITH queue <- Contents, Capacity <- PIPE_SIZE

\* The ring buffer is a first-in first-out channel: whatever the positions of
\* head and tail, write() and read() lose, repeat and reorder no byte, and
\* take and return as many as the channel would.
ImplementsFifo == Channel!Spec
=============================================================================
