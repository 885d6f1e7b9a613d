------------------------------ MODULE PipeFifo ------------------------------
(* What a pipe promises: a bounded first-in first-out queue of bytes.         *)
EXTENDS Naturals, Sequences

CONSTANTS Bytes, Size

VARIABLES queue,   \* the bytes written and not yet read
          last     \* the byte delivered last

Init == queue = <<>> /\ last \in Bytes

Send ==
  /\ Len(queue) < Size
  /\ \E b \in Bytes : queue' = Append(queue, b)
  /\ UNCHANGED last

Recv ==
  /\ queue # <<>>
  /\ last' = Head(queue)
  /\ queue' = Tail(queue)

Next == Send \/ Recv

Spec == Init /\ [][Next]_<<queue, last>>
=============================================================================
