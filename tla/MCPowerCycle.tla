---------------------------- MODULE MCPowerCycle ----------------------------
(* Instances of PowerCycle for TLC. *)
EXTENDS PowerCycle, TLC

\* usr_timer_add may return any free id: the ids are interchangeable.
TimerSymmetry == Permutations(TimerIds)
=============================================================================
