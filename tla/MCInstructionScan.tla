------------------------- MODULE MCInstructionScan -------------------------
(* Instances of InstructionScan for TLC. *)
EXTENDS InstructionScan

\* Device on, whose address byte looks like a frame head, and a relay's switch
\* whose payload looks like the beginning of a device instruction.
TwoFrames == {<<FormatHead, 1, FormatHead, 1>>,
              <<FormatHead, 2, FormatHead, 1, 0>>}

\* A frame head, which is also an unknown instruction, and one of ten bytes.
TwoBytes == {FormatHead, 5}
=============================================================================
