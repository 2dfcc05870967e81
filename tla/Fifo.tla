-------------------------------- MODULE Fifo --------------------------------
(***************************************************************************)
(* What a pipe promises: a bounded first-in first-out channel of bytes.    *)
(***************************************************************************)
EXTENDS Naturals, Sequences

CONSTANTS
    Byte,      \* the bytes that are sent
    Capacity,  \* how many the channel holds
    Chunk      \* bound: length of one write or read

VARIABLES
    queue,  \* the bytes that were written and not read
    out     \* the bytes that the last read returned

Init == queue = <<>> /\ out = <<>>

\* As many of the first bytes of input as there is room for.
Send(input) ==
    LET room == Capacity - Len(queue)
        n == IF Len(input) > room THEN room ELSE Len(input)
    IN  queue' = queue \o SubSeq(input, 1, n) /\ UNCHANGED out

\* As many of the oldest bytes as there are.
Receive(want) ==
    LET n == IF want > Len(queue) THEN Len(queue) ELSE want
    IN  out' = SubSeq(queue, 1, n) /\ queue' = SubSeq(queue, n + 1, Len(queue))

Next ==
    \/ \E k \in 0 .. Chunk : \E input \in [1 .. k -> Byte] : Send(input)
    \/ \E want \in 0 .. Chunk : Receive(want)

Spec == Init /\ [][Next]_<<queue, out>>
=============================================================================
