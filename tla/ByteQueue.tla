------------------------------ MODULE ByteQueue ------------------------------
(***************************************************************************)
(* What the instruction buffer promises: the bytes the serial port puts    *)
(* come out in the order in which they went in, and a byte put into a full *)
(* buffer takes the place of the oldest one.                               *)
(***************************************************************************)
EXTENDS Integers, Sequences

CONSTANTS
  Byte,      \* the bytes that may arrive
  Capacity   \* how many of them the buffer holds

VARIABLES
  queue,     \* the bytes put and not yet taken, oldest first
  out        \* the byte taken last

Init == queue = <<>> /\ out \in Byte

Put(b) ==
  /\ queue' = IF Len(queue) = Capacity THEN Append(Tail(queue), b)
                                       ELSE Append(queue, b)
  /\ UNCHANGED out

Get ==
  /\ queue # <<>>
  /\ out' = Head(queue)
  /\ queue' = Tail(queue)

Next == Get \/ \E b \in Byte : Put(b)

Spec == Init /\ [][Next]_<<queue, out>>
=============================================================================
