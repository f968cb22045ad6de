---------------------------- MODULE MCSequencer ----------------------------
(* Instances of Sequencer for TLC. *)
EXTENDS Sequencer, TLC

\* Every delay is one second, but for one of relay 1: an open_time of three, or
\* a close_time of three, or of five, which cur_relay_close_time does not hold.
OneSlow ==
  {OneSecond, [OneSecond EXCEPT !.open[1] = 3]}
    \cup {[OneSecond EXCEPT !.close[1] = d] : d \in {3, 5}}

\* usr_timer_add may return any free id: the ids are interchangeable.
TimerSymmetry == Permutations(TimerIds)
=============================================================================
