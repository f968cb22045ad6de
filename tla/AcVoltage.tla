------------------------------ MODULE AcVoltage ------------------------------
(***************************************************************************)
(* The mains voltage on the display: ac_detection.c.  The timer interrupt  *)
(* samples a pin every 2 ms into a window of the last 4 s, and computes    *)
(* the voltage every 1.5 s: the lowest sample stands for it, the last ten  *)
(* values are averaged, and the display changes only by two volts or more. *)
(*                                                                         *)
(* A sample of the model is a whole wave of the mains, of which the code   *)
(* uses only the lowest and the highest value.                             *)
(***************************************************************************)
EXTENDS Integers, FiniteSetsExt

CONSTANTS
  Window,     \* SAMPLE_COUNT, in waves: 200
  Every,      \* waves from one update to the next: 75
  Size,       \* AC_VOLTAGE_SIZE: 10
  Mains,      \* what the mains can be: each a set of waves, within one volt
  MaxChanges  \* bound of the number of times the mains changes

Adc  == 0 .. 1023
Wave == [low : Adc, high : Adc]

\* The waves lie around the level of the pin without mains, so that no voltage
\* comes out negative.
ASSUME InputAssumption ==
  /\ Window \in Nat /\ Every \in 1 .. Window-1 /\ Size \in Nat \ {0} /\ MaxChanges \in Nat
  /\ \A m \in Mains : m \subseteq Wave /\ m # {} /\ \A w \in m : w.low <= 588

VARIABLES
  mains,
  samples, sample_index,
  due,              \* waves since the last update
  buff, index,      \* ac_voltage_buff, ac_voltage_buff_index
  first,            \* flag_is_first_update
  shown,            \* last_display_voltage
  steady,           \* history: waves since the mains changed, up to Settled
  changes

sampling == <<samples, sample_index>>
display  == <<buff, index, first, shown>>
vars == <<mains, sampling, due, display, steady, changes>>

\* Every sample is of the mains as it is, and every averaged value of such.
Settled == Window + Size * Every

-----------------------------------------------------------------------------
(* The voltage *)

\* (adc * 3000 / 10 / 1024 - 172.5) / -0.65, rounded down.
Volts(adc) == (1766400 - 3000 * adc) \div 6656

\* No swing of 500 mV, no mains.
Swings(low, high) == high - low >= 170

\* What is added to a voltage that is not zero: AC_VOLTAGE_DIFF_VALUE.
Corrected(v) == IF v = 0 THEN 0 ELSE v + 2

\* Mutant: any change is shown.
DisplayedAtOnce(old, new) == new

\* The display changes by two volts or more, to none and from none.
Displayed(old, new) ==
  IF new - old \in {-1, 1} /\ old # 0 /\ new # 0 THEN old ELSE new

\* Mutant: the last place of the buffer is never written.
NextPlaceShort(i) == IF i + 1 >= Size - 1 THEN 0 ELSE i + 1

NextPlace(i) == IF i + 1 >= Size THEN 0 ELSE i + 1

-----------------------------------------------------------------------------

\* Waves of one mains are of one kind.  Either none swings, the lowest value of
\* one against the highest of another included; or all do, and their voltages
\* are positive and within one volt.
ASSUME MainsAssumption ==
  \A m \in Mains :
    \/ \A v, w \in m : ~Swings(v.low, w.high)
    \/ \A v, w \in m : /\ Swings(w.low, w.high) /\ Volts(w.low) > 0
                       /\ Volts(v.low) - Volts(w.low) <= 1

Init ==
  /\ mains \in Mains
  /\ samples = [i \in 0 .. Window-1 |-> [low |-> 0, high |-> 0]] /\ sample_index = 0
  /\ due = 0
  /\ buff = [i \in 0 .. Size-1 |-> 0] /\ index = 0
  /\ first = TRUE /\ shown = 0
  /\ steady = 0 /\ changes = 0

\* ac_detection_update, once for every sample of a wave.
Sample ==
  /\ due < Every
  /\ due' = due + 1
  /\ \E w \in mains : samples' = [samples EXCEPT ![sample_index] = w]
  /\ sample_index' = (sample_index + 1) % Window
  /\ steady' = Min({steady + 1, Settled})
  /\ UNCHANGED <<mains, display, changes>>

\* ac_voltage_update; at its first call the average starts from the value of
\* the converter, not from the voltage.
Update ==
  /\ due = Every
  /\ due' = 0
  /\ LET low  == Min({samples[i].low : i \in DOMAIN samples})
         high == Max({samples[i].high : i \in DOMAIN samples})
         adc  == IF Swings(low, high) THEN low ELSE 0
         volt == IF Swings(low, high) THEN Volts(low) ELSE 0
         old  == IF first THEN [i \in DOMAIN buff |-> adc] ELSE buff
     IN  buff' = [old EXCEPT ![index] = volt]
  /\ index' = NextPlace(index)
  /\ first' = FALSE
  /\ shown' = Displayed(shown, Corrected(SumFunction(buff') \div Size))
  /\ UNCHANGED <<mains, sampling, steady, changes>>

\* The mains fails, comes back or changes.
Change ==
  /\ changes < MaxChanges
  /\ changes' = changes + 1
  /\ mains' \in Mains \ {mains}
  /\ steady' = 0
  /\ UNCHANGED <<sampling, due, display>>

Next == Sample \/ Update \/ Change

Spec == Init /\ [][Next]_vars

-----------------------------------------------------------------------------
(* Properties *)

\* The voltages that stand for the mains.
VoltagesOf(m) ==
  {IF Swings(w.low, w.high) THEN Corrected(Volts(w.low)) ELSE 0 : w \in m}

Settles == steady = Settled /\ due < Every

\* When the mains has stayed as it is for the window and for as many updates as
\* are averaged, the display shows it, to within a volt: whatever the mains was
\* before, what the window and the average started from, and what the display
\* held back.  Of no mains it shows zero.
SteadyIsShown ==
  Settles => /\ \E v \in VoltagesOf(mains) : shown - v \in -1 .. 1
             /\ shown = 0 <=> 0 \in VoltagesOf(mains)

\* A display that is right does not flicker while the mains is steady, though
\* waves, lowest values and averages vary by a volt.
StillDisplay ==
  [][steady = Settled /\ shown \in VoltagesOf(mains) /\ mains' = mains
     => shown' = shown]_vars
=============================================================================
