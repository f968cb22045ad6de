------------------------------- MODULE Schedule -------------------------------
(***************************************************************************)
(* The weekly plans of user_schedule.c: one plan of the device and one of  *)
(* each relay, with a switch-on and a switch-off time for every weekday.   *)
(* user_task compares them with the clock every 200 ms, first the device's *)
(* and then the relays'.  Instructions set and cancel the plan of one      *)
(* weekday; the setting page of a relay stores one plan for all weekdays.  *)
(*                                                                         *)
(* A power sequence is reduced to its start and its end: Sequencer has the *)
(* steps between, in which no schedule switches a relay.                   *)
(***************************************************************************)
EXTENDS Integers

CONSTANTS
  N,          \* relay_number: the relays are 0 .. N-1
  Days,       \* weekdays in a week; 0 is Sunday
  Minutes,    \* hours and minutes of a day
  Seconds,    \* seconds of a minute
  PlanTimes,  \* the times of day an instruction may name
  MaxQuiet,   \* bound of the history variable quiet
  MaxCalls    \* bound of the number of calls from outside

ASSUME SizeAssumption  == {N, Days, Minutes, Seconds} \subseteq Nat \ {0}
ASSUME TimesAssumption == PlanTimes \subseteq 0 .. (Minutes * Seconds) - 1
ASSUME BoundAssumption == MaxQuiet \in Nat /\ MaxCalls \in Nat

Relay   == 0 .. N-1
Weekday == 0 .. Days-1
Sunday  == 0

\* Times of day count the seconds from midnight.
DayLength  == Minutes * Seconds
Time       == 0 .. DayLength-1
HourMinute == 0 .. Minutes-1

VARIABLES
  weekly,     \* weekly_schedule.schedule[weekday]
  table,      \* weekly_schedule_relay[relay].schedule[weekday]
  day, time,  \* the real-time clock
  on_ff,      \* sequencers.on_ff = DEVICE_ON
  sequence,   \* the sequence that runs; is_in_delay unless "none"
  aged,       \* the sequence began in an earlier second
  last, cur,  \* relay[i].last_status_on_off, relay[i].cur_status_on_off
  pc,         \* user_task is before the "device" or before the "relays"
  scanned,    \* history: what user_task has compared in this second
  quiet,      \* history: whole undisturbed seconds; -1: not even this one
  calls       \* number of calls from outside so far

plans  == <<weekly, table>>
clock  == <<day, time>>
device == <<on_ff, sequence, aged>>
relays == <<last, cur>>
vars   == <<plans, clock, device, relays, pc, scanned, quiet, calls>>

-----------------------------------------------------------------------------
(* Plans *)

Plan   == [enable : BOOLEAN, on : Time, off : Time]
NoPlan == [enable |-> FALSE, on |-> 0, off |-> 0]

\* Times that are all zero do not enable a relay's plan.
Dated(on, off) == [enable |-> on # 0 \/ off # 0, on |-> on, off |-> off]

\* Mutant: times that are all zero enable the plan as well.
StoredEnabled(p, on, off) ==
  [enable |-> TRUE,
   on  |-> (Seconds * on)  + (p.on  % Seconds),
   off |-> (Seconds * off) + (p.off % Seconds)]

\* weekly_schedule_relay_set: hours and minutes change, seconds stay.
Stored(p, on, off) ==
  [enable |-> on # 0 \/ off # 0,
   on  |-> (Seconds * on) + (p.on % Seconds),
   off |-> (Seconds * off) + (p.off % Seconds)]

OnTime(p)  == p.on = time
\* Mutant: a switch-off time before the switch-on time is passed over.
OffTimeAfterOn(p) == p.off = time /\ p.on <= p.off

OffTime(p) == p.off = time

InDelay == sequence # "none"

Init ==
  /\ weekly = [d \in Weekday |-> NoPlan]
  /\ table = [r \in Relay |-> [d \in Weekday |-> NoPlan]]
  /\ day \in Weekday /\ time \in Time
  /\ on_ff \in BOOLEAN /\ sequence = "none" /\ aged = FALSE
  /\ last = [r \in Relay |-> TRUE]
  /\ cur = IF on_ff THEN last ELSE [r \in Relay |-> FALSE]
  /\ pc = "device"
  /\ scanned = {} /\ quiet = -1 /\ calls = 0

-----------------------------------------------------------------------------
(* Sequences *)

\* sequencer_power_on and sequencer_power_off.
Start(kind) ==
  IF InDelay
    THEN UNCHANGED <<device, relays>>
    ELSE /\ sequence' = kind
         /\ aged' = FALSE
         /\ cur' = IF kind = "on" THEN [r \in Relay |-> FALSE] ELSE cur
         /\ UNCHANGED <<on_ff, last>>

\* Mutant: the end of a sequence leaves on_ff as it was.
SequenceEndsKeepsOnFf ==
  /\ InDelay /\ aged
  /\ sequence' = "none"
  /\ aged' = FALSE
  /\ cur' = IF sequence = "on" THEN last ELSE [r \in Relay |-> FALSE]
  /\ quiet' = -1
  /\ UNCHANGED <<plans, clock, on_ff, last, pc, scanned, calls>>

\* The last tick of a sequence; its first one comes after a full second.
SequenceEnds ==
  /\ InDelay /\ aged
  /\ on_ff' = (sequence = "on")
  /\ sequence' = "none"
  /\ aged' = FALSE
  /\ cur' = IF sequence = "on" THEN last ELSE [r \in Relay |-> FALSE]
  /\ quiet' = -1
  /\ UNCHANGED <<plans, clock, last, pc, scanned, calls>>

-----------------------------------------------------------------------------
(* user_task compares *)

\* weekly_schedule_info_handle
ScanDevice ==
  /\ pc = "device"
  /\ pc' = "relays"
  /\ scanned' = scanned \cup {"device"}
  /\ LET today == weekly[day] IN
       \/ /\ today.enable
          /\ \/ ~on_ff /\ OnTime(today) /\ Start("on")
             \/ on_ff /\ OffTime(today) /\ Start("off")
          /\ quiet' = -1
       \/ /\ ~today.enable \/ ~ IF on_ff THEN OffTime(today) ELSE OnTime(today)
          /\ UNCHANGED <<device, relays, quiet>>
  /\ UNCHANGED <<plans, clock, calls>>

\* Mutant: the time that comes first in the code wins.
SwitchedOnWins(r) ==
  LET p == table[r][day]
  IN  (cur[r] /\ ~OffTime(p)) \/ OnTime(p)

\* A match closes the relay, then a match opens it.
Switched(r) ==
  LET p == table[r][day]
  IN  (cur[r] \/ OnTime(p)) /\ ~OffTime(p)

\* The loop ends before the last relay, and asks Sunday's plan.
Visited == {r \in 0 .. N-2 : table[r][Sunday].enable}

\* weekly_schedule_relay_info_handle
ScanRelays ==
  /\ pc = "relays"
  /\ pc' = "device"
  /\ scanned' = scanned \cup {"relays"}
  /\ IF on_ff /\ ~InDelay
       THEN cur' = [r \in Relay |-> IF r \in Visited THEN Switched(r)
                                                     ELSE cur[r]]
       ELSE cur' = cur
  /\ last' = [r \in Relay |-> IF cur'[r] = cur[r] THEN last[r] ELSE cur'[r]]
  /\ UNCHANGED <<plans, clock, device, quiet, calls>>

\* The clock goes on.  In every second user_task compares at least once.
Second ==
  /\ scanned = {"device", "relays"}
  /\ scanned' = {}
  /\ time' = (time + 1) % DayLength
  /\ day' = IF time' = 0 THEN (day + 1) % Days ELSE day
  /\ aged' = InDelay
  /\ quiet' = IF quiet < MaxQuiet THEN quiet + 1 ELSE quiet
  /\ UNCHANGED <<plans, on_ff, sequence, relays, pc, calls>>

-----------------------------------------------------------------------------
(* Calls from outside: instructions, which user_task handles itself, and keys
   and setting pages, which come at any time *)

Call == calls < MaxCalls /\ calls' = calls + 1 /\ quiet' = -1

\* handle_set_weekly_schedule, handle_cancel_weekly_schedule
SetWeekly ==
  /\ Call /\ ~InDelay
  /\ pc = "device"
  /\ \E d \in Weekday :
       \/ \E on, off \in PlanTimes :
            weekly' = [weekly EXCEPT
                         ![d] = [enable |-> TRUE, on |-> on, off |-> off]]
       \/ weekly' = [weekly EXCEPT ![d].enable = FALSE]
  /\ UNCHANGED <<table, clock, device, relays, pc, scanned>>

\* handle_set_relay_weekly_schedule, handle_cancel_relay_weekly_schedule
SetRelay ==
  /\ Call /\ ~InDelay
  /\ pc = "device"
  /\ \E r \in Relay, d \in Weekday :
       \/ \E on, off \in PlanTimes :
            table' = [table EXCEPT ![r][d] = Dated(on, off)]
       \/ table' = [table EXCEPT ![r][d] = NoPlan]
  /\ UNCHANGED <<weekly, clock, device, relays, pc, scanned>>

\* A setting page is left: the same hours and minutes for every weekday.
StorePage ==
  /\ Call
  /\ \E r \in Relay : \E on, off \in HourMinute :
       table' = [table EXCEPT
                   ![r] = [d \in Weekday |-> Stored(@[d], on, off)]]
  /\ UNCHANGED <<weekly, clock, device, relays, pc, scanned>>

\* user_sys_time_set, by instruction or from the page of the system time.
SetTime ==
  /\ Call
  /\ day' \in Weekday /\ time' \in Time
  /\ scanned' = {}
  /\ UNCHANGED <<plans, device, relays, pc>>

\* A key or an instruction powers the device on or off.
Power ==
  /\ Call
  /\ Start(IF on_ff THEN "off" ELSE "on")
  /\ UNCHANGED <<plans, clock, pc, scanned>>

\* A key or an instruction switches a relay.
Toggle ==
  /\ Call /\ on_ff /\ ~InDelay
  /\ \E r \in Relay : /\ cur'  = [cur  EXCEPT ![r] = ~@]
                      /\ last' = [last EXCEPT ![r] = ~cur[r]]
  /\ UNCHANGED <<plans, clock, device, pc, scanned>>

\* handle_reset_to_factory_setting; the clock goes to midnight of a Saturday.
Reset ==
  /\ Call /\ ~InDelay
  /\ pc = "device"
  /\ on_ff' = FALSE
  /\ IF on_ff
       THEN sequence' = "off" /\ aged' = FALSE /\ UNCHANGED relays
       ELSE /\ UNCHANGED <<sequence, aged>>
            /\ last' = [r \in Relay |-> TRUE]
            /\ cur'  = [r \in Relay |-> FALSE]
  /\ weekly' = [d \in Weekday |-> NoPlan]
  /\ table' = [r \in Relay |-> [d \in Weekday |-> NoPlan]]
  /\ day' = Days-1 /\ time' = 0
  /\ scanned' = {}
  /\ UNCHANGED pc

-----------------------------------------------------------------------------
Scan    == ScanDevice \/ ScanRelays
Outside == SetWeekly \/ SetRelay \/ StorePage \/ SetTime \/ Power \/ Toggle
           \/ Reset

Next == Scan \/ Second \/ SequenceEnds \/ Outside

Spec == Init /\ [][Next]_vars

(* user_task is scheduled again and again, the clock runs, and a sequence    *)
(* ends (PowerOnEnds and PowerOffEnds of Sequencer).                         *)
FairSpec == /\ Spec
            /\ WF_vars(Scan) /\ WF_vars(Second) /\ WF_vars(SequenceEnds)

-----------------------------------------------------------------------------
(* Properties *)

\* The type invariant.  A relay's enabled plan names a time besides midnight.
TypeOK ==
  /\ weekly \in [Weekday -> Plan]
  /\ table \in [Relay -> [Weekday -> Plan]]
  /\ \A r \in Relay, d \in Weekday :
       table[r][d].enable => table[r][d].on # 0 \/ table[r][d].off # 0
  /\ day \in Weekday /\ time \in Time
  /\ on_ff \in BOOLEAN /\ aged \in BOOLEAN
  /\ sequence \in {"none", "on", "off"}
  /\ last \in [Relay -> BOOLEAN] /\ cur \in [Relay -> BOOLEAN]
  /\ pc \in {"device", "relays"}
  /\ scanned \subseteq {"device", "relays"}
  /\ quiet \in -1 .. MaxQuiet
  /\ calls \in 0 .. MaxCalls

\* No second that today's plan names passes, undisturbed from its beginning,
\* with the device at rest in the state the plan ends: whatever it was, it is
\* in the planned state or a sequence has started.
PowerFollowsPlan ==
  (quiet >= 0 /\ "device" \in scanned /\ ~InDelay /\ weekly[day].enable) =>
    /\ weekly[day].on  = time => on_ff
    /\ weekly[day].off = time => ~on_ff

\* The seconds that are undisturbed and compared, counted back from now.
Past == (IF "relays" \in scanned THEN 0 ELSE 1) .. quiet

\* What relay r's plan says of the time j seconds ago.
Ago(j)       == (((DayLength * day) + time) - j) % (Days * DayLength)
PlanAgo(r, j) == table[r][Ago(j) \div DayLength]
Names(r, j)  == Ago(j) % DayLength \in {PlanAgo(r, j).on, PlanAgo(r, j).off}
Opens(r, j)  == Ago(j) % DayLength = PlanAgo(r, j).off

\* Relay r is in the state of the latest time that its plan names in the past,
\* from whichever day; where both times agree, it is open.
FollowsPlan(r) ==
  \A j \in Past :
    (Names(r, j) /\ \A k \in Past : k < j => ~Names(r, k)) =>
      (cur[r] <=> ~Opens(r, j))

\* A relay with a plan for every weekday, as a setting page stores it, is in
\* the state of the latest time its plan names; except for the last relay,
\* which no plan switches (SwitchedByPlan).
RelayFollowsPlan ==
  (on_ff /\ ~InDelay) =>
    \A r \in 0 .. N-2 :
      (\A d \in Weekday : table[r][d].enable) => FollowsPlan(r)

\* What the comments say of the loop over the relays, and the code does not
\* do: it goes over all of them, a relay that has a plan for today is switched
\* at the times the plan names, and one that has none is passed over.
SwitchedByPlan ==
  [][ScanRelays /\ on_ff /\ ~InDelay =>
       \A r \in Relay :
         cur'[r] = IF table[r][day].enable THEN Switched(r) ELSE cur[r]]_vars

\* A device whose plan of some day stays enabled is switched on and off again
\* and again, however long its sequences take.
PlanRepeats ==
  (\E d \in Weekday : <>[](weekly[d].enable)) =>
    []<>(on_ff /\ ~InDelay) /\ []<>(~on_ff /\ ~InDelay)
=============================================================================
