--------------------------- MODULE InstructionScan ---------------------------
(***************************************************************************)
(* Cutting the bytes of the serial port into instructions: instruction_scan*)
(* and the first and last lines of instruction_handle, as user_task calls  *)
(* them once in a loop of ten milliseconds, one byte at a time.  The ring  *)
(* buffer in front is the first-in first-out queue that InstructionBuffer  *)
(* shows it to be.  A host in step sends frames and never pauses inside    *)
(* one; it may also break a frame off or send noise, and is in step again  *)
(* when it has been silent for the time-out.                               *)
(***************************************************************************)
EXTENDS Integers, Sequences

CONSTANTS
  Frames,     \* instructions the host may send
  Noise,      \* bytes that may arrive beside them
  BufferLen,  \* INSTRUCTION_BUFFER_LEN
  Timeout     \* the 20 of instruction_buffer_is_timeout

Byte == 0 .. 255

FormatHead == 197  \* INSTRUCTION_FORMAT_HEAD, 0xC5

\* Mutant: an unknown type is taken for a length.
DestLenOfUnknown(type) ==
  CASE type \in {1, 7, 8, 255} -> 4
    [] type \in {2, 10}        -> 5
    [] type \in {3, 4}         -> 6
    [] type \in {5, 6}         -> 10
    [] type = 9                -> 11
    [] OTHER                   -> type

\* dest_recv_instruction_len by instruction type.
DestLen(type) ==
  CASE type \in {1, 7, 8, 255} -> 4
    [] type \in {2, 10}        -> 5
    [] type \in {3, 4}         -> 6
    [] type \in {5, 6}         -> 10
    [] type = 9                -> 11
    [] OTHER                   -> 0

ASSUME FramesAssumption ==
  \A f \in Frames : f \in Seq(Byte) /\ Len(f) > 2 /\ f[1] = FormatHead
                    /\ Len(f) = DestLen(f[2])
ASSUME NoiseAssumption   == Noise \subseteq Byte
ASSUME LenAssumption     == BufferLen \in Nat \ {0}
ASSUME TimeoutAssumption == Timeout \in Nat \ {0}

RecvBuffLen == 20  \* the size of recv_instruction_buff

VARIABLES
  queue,    \* the bytes in the ring buffer
  status,   \* cur_recv_instruction_status
  recv,     \* recv_instruction_buff up to cur_recv_instruction_index
  dest,     \* dest_recv_instruction_len
  timeout,  \* instruction_buffer_timeout
  left,     \* what the host still has to send of the current frame
  quiet,    \* loops with nothing to scan since the host last fell out of step
  pending   \* history: frames begun in step and not handled yet

scanner == <<status, recv, dest, timeout>>
host    == <<left, quiet, pending>>
vars    == <<queue, scanner, host>>

Init ==
  /\ queue = <<>>
  /\ status = "NONE" /\ recv = <<>> /\ dest = 0 /\ timeout = 0
  /\ left = <<>> /\ quiet = Timeout + 1 /\ pending = <<>>

-----------------------------------------------------------------------------
(* The host *)

InStep == quiet = Timeout + 1

BeginFrame(f) ==
  /\ InStep /\ left = <<>> /\ Len(queue) < BufferLen
  /\ queue' = Append(queue, Head(f))
  /\ left' = Tail(f)
  /\ pending' = Append(pending, f)
  /\ UNCHANGED <<scanner, quiet>>

SendByte ==
  /\ left # <<>> /\ Len(queue) < BufferLen
  /\ queue' = Append(queue, Head(left))
  /\ left' = Tail(left)
  /\ UNCHANGED <<scanner, quiet, pending>>

\* The host breaks off, or noise is heard; from then on nothing is promised.
BreakOff ==
  /\ left # <<>>
  /\ left' = <<>> /\ quiet' = 0 /\ pending' = <<>>
  /\ UNCHANGED <<queue, scanner>>

SendNoise(b) ==
  /\ Len(queue) < BufferLen
  /\ queue' = Append(queue, b)
  /\ left' = <<>> /\ quiet' = 0 /\ pending' = <<>>
  /\ UNCHANGED scanner

-----------------------------------------------------------------------------
(* The scanner *)

\* What happens to the scanner with byte b when it stands at status s.
Receive(s, b) ==
  CASE s = "NONE" /\ b = FormatHead ->
         /\ recv' = <<b>> /\ status' = "FORMAT_HEAD" /\ UNCHANGED dest
    [] s = "NONE" /\ b # FormatHead ->
         /\ status' = s /\ UNCHANGED <<recv, dest>>
    [] s = "FORMAT_HEAD" ->
         /\ recv' = Append(recv, b) /\ dest' = DestLen(b) /\ status' = "TYPE"
    [] s = "TYPE" ->
         /\ recv' = Append(recv, b) /\ UNCHANGED dest
         /\ status' = IF Len(recv') >= dest THEN "END" ELSE "TYPE"

\* Mutant: the loops are not counted.
NotWaited == timeout

\* instruction_scan counts a loop of waiting inside a frame.
Waited == timeout + 1
Late   == status # "NONE" /\ Waited > Timeout

\* instruction_scan with nothing in the buffer.  The time-out is tested before
\* the buffer is: a host in step leaves at most Timeout - 1 loops without a byte.
ScanNothing ==
  /\ status # "END"
  /\ queue = <<>>
  /\ left # <<>> => timeout + 1 < Timeout
  /\ IF Late THEN status' = "NONE" /\ timeout' = 0
             ELSE /\ timeout' = IF status = "NONE" THEN timeout ELSE Waited
                  /\ UNCHANGED status
  /\ quiet' = IF InStep THEN quiet ELSE quiet + 1
  /\ UNCHANGED <<queue, recv, dest, left, pending>>

\* instruction_scan takes a byte; a late one finds the scanner reset.
ScanByte ==
  /\ status # "END"
  /\ queue # <<>>
  /\ queue' = Tail(queue)
  /\ timeout' = 0
  /\ Receive(IF Late THEN "NONE" ELSE status, Head(queue))
  /\ UNCHANGED host

\* instruction_handle, in the same loop, is done with the instruction.
Handle ==
  /\ status = "END"
  /\ status' = "NONE"
  /\ recv' = <<>>
  /\ pending' = IF InStep THEN Tail(pending) ELSE pending
  /\ UNCHANGED <<queue, dest, timeout, left, quiet>>

HostStep == (\E f \in Frames : BeginFrame(f)) \/ SendByte
            \/ BreakOff \/ \E b \in Noise : SendNoise(b)
UserTask == ScanNothing \/ ScanByte \/ Handle

Next == HostStep \/ UserTask

Spec == Init /\ [][Next]_vars

(* user_task loops for ever; a host inside a frame goes on or breaks off. *)
FairSpec == Spec /\ WF_vars(UserTask) /\ WF_vars(SendByte \/ BreakOff)

-----------------------------------------------------------------------------
(* Properties *)

\* The type invariant; the receive buffer is never written behind its end.
TypeOK ==
  /\ queue \in Seq(Byte) /\ Len(queue) <= BufferLen
  /\ status \in {"NONE", "FORMAT_HEAD", "TYPE", "END"}
  /\ recv \in Seq(Byte) /\ Len(recv) <= RecvBuffLen
  /\ dest \in 0 .. RecvBuffLen
  /\ timeout \in 0 .. Timeout
  /\ left \in Seq(Byte) /\ quiet \in 0 .. Timeout + 1
  /\ pending \in Seq(Frames)

\* Every frame a host in step sends is handled whole and in order, whatever
\* bytes its payload holds; after a broken frame or noise, silence for the
\* time-out is enough to be in step again.
InOrder ==
  (status = "END" /\ InStep) =>
    pending # <<>> /\ recv = Head(pending) /\ dest = Len(recv)

\* Whatever arrives, the scanner does not stay inside one instruction: it comes
\* back to waiting for a frame, or has just begun one anew.
NeverWedged == []<>(status = "NONE" \/ recv = <<FormatHead>>)
=============================================================================
