------------------------------ MODULE MCCascade ------------------------------
(* Instance of Cascade for TLC. *)
EXTENDS Cascade

R(t, a) == [type |-> t, addr |-> a, good |-> TRUE]

MCRequests ==
  {R("init", 1), R("init", 2), R("reset", 2), R("reset", 4), R("power_on", 1)}
=============================================================================
