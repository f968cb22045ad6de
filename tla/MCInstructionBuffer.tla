------------------------ MODULE MCInstructionBuffer ------------------------
(* Instances of InstructionBuffer for TLC. *)
EXTENDS InstructionBuffer
=============================================================================
