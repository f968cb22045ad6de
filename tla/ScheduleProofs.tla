---------------------------- MODULE ScheduleProofs ----------------------------
(***************************************************************************)
(* Theorems about Schedule, for any number of relays, weekdays and times   *)
(* of day, any plans and any number of calls.                              *)
(***************************************************************************)
EXTENDS Schedule, TLAPS

\* The constants are numbers, and a day has at least one time.
LEMMA Sizes ==
  /\ N \in Nat \ {0} /\ Days \in Nat \ {0}
  /\ Minutes \in Nat \ {0} /\ Seconds \in Nat \ {0}
  /\ DayLength \in Nat \ {0}
  /\ MaxQuiet \in Nat /\ MaxCalls \in Nat
  /\ PlanTimes \subseteq Time
<1>1. /\ N \in Nat \ {0} /\ Days \in Nat \ {0}
      /\ Minutes \in Nat \ {0} /\ Seconds \in Nat \ {0}
  BY SizeAssumption
<1>2. Minutes * Seconds \in Nat \ {0}
  BY <1>1
<1> QED
  BY <1>1, <1>2, BoundAssumption, TimesAssumption DEF DayLength, Time

\* An hour and minute with a second is a time of day, midnight only at zero.
LEMMA StoredTime ==
  ASSUME NEW m \in HourMinute, NEW s \in Time
  PROVE  /\ (Seconds * m) + (s % Seconds) \in Time
         /\ m # 0 => (Seconds * m) + (s % Seconds) # 0
<1>1. Seconds \in Nat \ {0} /\ Minutes \in Nat \ {0} /\ m \in Nat /\ s \in Nat
  BY Sizes DEF HourMinute, Time
<1>2. s % Seconds \in 0 .. Seconds-1
  BY <1>1
<1>3. m + 1 <= Minutes
  BY <1>1 DEF HourMinute
<1>4. Seconds * (m + 1) <= Seconds * Minutes
  BY <1>1, <1>3
<1>5. Seconds * (m + 1) = (Seconds * m) + Seconds /\ Seconds * m \in Nat
  BY <1>1
<1>6. Seconds * Minutes = Minutes * Seconds
  BY <1>1
<1>7. m # 0 => Seconds * m # 0
  BY <1>1
<1> QED
  BY <1>1, <1>2, <1>4, <1>5, <1>6, <1>7 DEF Time, DayLength

\* A plan of a relay: enabled, it names a time besides midnight.
RelayPlan == {p \in Plan : p.enable => p.on # 0 \/ p.off # 0}

\* The type invariant, with the plans of relays as a set of their own.
Typed ==
  /\ weekly \in [Weekday -> Plan]
  /\ table \in [Relay -> [Weekday -> RelayPlan]]
  /\ day \in Weekday /\ time \in Time
  /\ on_ff \in BOOLEAN /\ aged \in BOOLEAN
  /\ sequence \in {"none", "on", "off"}
  /\ last \in [Relay -> BOOLEAN] /\ cur \in [Relay -> BOOLEAN]
  /\ pc \in {"device", "relays"}
  /\ scanned \subseteq {"device", "relays"}
  /\ quiet \in -1 .. MaxQuiet
  /\ calls \in 0 .. MaxCalls

\* It implies the type invariant.
LEMMA TypedSuffices == Typed => TypeOK
  BY DEF Typed, TypeOK, RelayPlan

\* Every plan an instruction or a page stores is a relay's plan.
LEMMA PlanTypes ==
  /\ NoPlan \in RelayPlan
  /\ \A on, off \in PlanTimes : Dated(on, off) \in RelayPlan
  /\ \A p \in RelayPlan, on, off \in HourMinute : Stored(p, on, off) \in RelayPlan
<1>1. NoPlan \in RelayPlan
  BY Sizes DEF NoPlan, RelayPlan, Plan, Time
<1>2. ASSUME NEW on \in PlanTimes, NEW off \in PlanTimes
      PROVE  Dated(on, off) \in RelayPlan
  BY Sizes DEF Dated, RelayPlan, Plan
<1>3. ASSUME NEW p \in RelayPlan, NEW on \in HourMinute, NEW off \in HourMinute
      PROVE  Stored(p, on, off) \in RelayPlan
  <2>1. p.on \in Time /\ p.off \in Time
    BY DEF RelayPlan, Plan
  <2> QED
    BY <2>1, StoredTime DEF Stored, RelayPlan, Plan
<1> QED
  BY <1>1, <1>2, <1>3

-----------------------------------------------------------------------------
(* Types *)

\* The first state is well typed.
LEMMA InitType == Init => Typed
<1> SUFFICES ASSUME Init PROVE Typed
  OBVIOUS
<1>1. NoPlan \in RelayPlan /\ NoPlan \in Plan
  BY PlanTypes DEF RelayPlan
<1>2. /\ weekly \in [Weekday -> Plan]
      /\ table \in [Relay -> [Weekday -> RelayPlan]]
  BY <1>1 DEF Init
<1>3. last \in [Relay -> BOOLEAN] /\ cur \in [Relay -> BOOLEAN]
  <2>1. CASE on_ff
    BY <2>1 DEF Init
  <2>2. CASE ~on_ff
    BY <2>2 DEF Init
  <2> QED
    BY <2>1, <2>2
<1>4. quiet \in -1 .. MaxQuiet /\ calls \in 0 .. MaxCalls
  BY Sizes DEF Init
<1> QED
  BY <1>2, <1>3, <1>4 DEF Init, Typed

\* A plan stored by an instruction or a page keeps the tables' types.
LEMMA TableTypes ==
  ASSUME Typed, SetWeekly \/ SetRelay \/ StorePage \/ Reset
  PROVE  /\ weekly' \in [Weekday -> Plan]
         /\ table' \in [Relay -> [Weekday -> RelayPlan]]
<1>0. NoPlan \in RelayPlan /\ RelayPlan \subseteq Plan
  BY PlanTypes DEF RelayPlan
<1>1. /\ weekly \in [Weekday -> Plan]
      /\ table \in [Relay -> [Weekday -> RelayPlan]]
  BY DEF Typed
<1>2. CASE SetWeekly
  <2>1. \A on, off \in PlanTimes :
          [enable |-> TRUE, on |-> on, off |-> off] \in Plan
    BY Sizes DEF Plan
  <2>2. \A d \in Weekday : [weekly[d] EXCEPT !.enable = FALSE] \in Plan
    BY <1>1 DEF Plan
  <2> QED
    BY <1>1, <1>2, <2>1, <2>2 DEF SetWeekly
<1>3. CASE SetRelay
  BY <1>0, <1>1, <1>3, PlanTypes DEF SetRelay
<1>4. CASE StorePage
  <2>1. PICK r \in Relay, on \in HourMinute, off \in HourMinute :
          table' = [table EXCEPT
                      ![r] = [d \in Weekday |-> Stored(@[d], on, off)]]
    BY <1>4 DEF StorePage
  <2>2. [d \in Weekday |-> Stored(table[r][d], on, off)]
          \in [Weekday -> RelayPlan]
    BY <1>1, PlanTypes
  <2> QED
    BY <1>1, <1>4, <2>1, <2>2 DEF StorePage
<1>5. CASE Reset
  BY <1>0, <1>5 DEF Reset
<1> QED
  BY <1>2, <1>3, <1>4, <1>5

\* Starting and ending a sequence keep the types of what they touch.
LEMMA SequenceTypes ==
  ASSUME Typed, Start("on") \/ Start("off") \/ SequenceEnds
  PROVE  /\ on_ff' \in BOOLEAN /\ aged' \in BOOLEAN
         /\ sequence' \in {"none", "on", "off"}
         /\ last' \in [Relay -> BOOLEAN] /\ cur' \in [Relay -> BOOLEAN]
<1>1. [r \in Relay |-> FALSE] \in [Relay -> BOOLEAN]
  OBVIOUS
<1>2. CASE Start("on")
  <2>1. CASE InDelay
    BY <1>2, <2>1 DEF Typed, Start, device, relays
  <2>2. CASE ~InDelay
    BY <1>1, <1>2, <2>2 DEF Typed, Start
  <2> QED
    BY <2>1, <2>2
<1>3. CASE Start("off")
  <2>1. CASE InDelay
    BY <1>3, <2>1 DEF Typed, Start, device, relays
  <2>2. CASE ~InDelay
    BY <1>3, <2>2 DEF Typed, Start
  <2> QED
    BY <2>1, <2>2
<1>4. CASE SequenceEnds
  <2>1. CASE sequence = "on"
    BY <1>4, <2>1 DEF Typed, SequenceEnds
  <2>2. CASE sequence # "on"
    BY <1>1, <1>4, <2>2 DEF Typed, SequenceEnds
  <2> QED
    BY <2>1, <2>2
<1> QED
  BY <1>2, <1>3, <1>4

\* Every step keeps the types.
LEMMA NextType == Typed /\ [Next]_vars => Typed'
<1> SUFFICES ASSUME Typed, [Next]_vars PROVE Typed'
  OBVIOUS
<1> USE DEF Typed
<1>1. CASE ScanDevice
  <2>1. Start("on") \/ Start("off") \/ UNCHANGED <<device, relays>>
    BY <1>1 DEF ScanDevice
  <2>2. /\ on_ff' \in BOOLEAN /\ aged' \in BOOLEAN
        /\ sequence' \in {"none", "on", "off"}
        /\ last' \in [Relay -> BOOLEAN] /\ cur' \in [Relay -> BOOLEAN]
    BY <2>1, SequenceTypes DEF device, relays
  <2>3. quiet' = -1 \/ quiet' = quiet
    BY <1>1 DEF ScanDevice
  <2>4. quiet' \in -1 .. MaxQuiet
    BY <2>3, Sizes
  <2> QED
    BY <1>1, <2>2, <2>4 DEF ScanDevice, plans, clock
<1>2. CASE ScanRelays
  <2>1. /\ cur' \in [Relay -> BOOLEAN]
        /\ last' \in [Relay -> BOOLEAN]
    BY <1>2 DEF ScanRelays, Switched
  <2> QED
    BY <1>2, <2>1 DEF ScanRelays, plans, clock, device
<1>3. CASE Second
  <2>1. time' \in Time /\ day' \in Weekday
    BY <1>3, Sizes DEF Second, Time, Weekday
  <2>2. aged' \in BOOLEAN /\ quiet' \in -1 .. MaxQuiet
    BY <1>3, Sizes DEF Second, InDelay
  <2> QED
    BY <1>3, <2>1, <2>2 DEF Second, plans, relays
<1>4. CASE SequenceEnds
  <2>1. quiet' \in -1 .. MaxQuiet
    BY <1>4, Sizes DEF SequenceEnds
  <2> QED
    BY <1>4, <2>1, SequenceTypes DEF SequenceEnds, plans, clock
<1>5. CASE Outside
  <2>1. ASSUME Call PROVE calls' \in 0 .. MaxCalls /\ quiet' \in -1 .. MaxQuiet
    BY <2>1, Sizes DEF Call
  <2>2. CASE SetWeekly
    BY <2>1, <2>2, TableTypes DEF SetWeekly, clock, device, relays
  <2>3. CASE SetRelay
    BY <2>1, <2>3, TableTypes DEF SetRelay, clock, device, relays
  <2>4. CASE StorePage
    BY <2>1, <2>4, TableTypes DEF StorePage, clock, device, relays
  <2>5. CASE SetTime
    BY <2>1, <2>5 DEF SetTime, plans, device, relays
  <2>6. CASE Power
    BY <2>1, <2>6, SequenceTypes DEF Power, plans, clock
  <2>7. CASE Toggle
    BY <2>1, <2>7 DEF Toggle, plans, clock, device
  <2>8. CASE Reset
    <3>1. day' \in Weekday /\ time' \in Time
      BY <2>8, Sizes DEF Reset, Weekday, Time
    <3> QED
      BY <2>1, <2>8, <3>1, TableTypes DEF Reset, relays
  <2> QED
    BY <1>5, <2>2, <2>3, <2>4, <2>5, <2>6, <2>7, <2>8 DEF Outside
<1>6. CASE UNCHANGED vars
  BY <1>6 DEF vars, plans, clock, device, relays
<1> QED
  BY <1>1, <1>2, <1>3, <1>4, <1>5, <1>6 DEF Next, Scan

\* The tables, the clock and the device are well typed in every state.
THEOREM ScheduleTypes == Spec => []TypeOK
  BY InitType, NextType, TypedSuffices, PTL DEF Spec

-----------------------------------------------------------------------------
(* The device's plan *)

\* What is not a scan ends the quiet or the second.
LEMMA Disturbs == SequenceEnds \/ Outside => quiet' = -1
  BY DEF SequenceEnds, Outside, SetWeekly, SetRelay, StorePage, SetTime, Power,
         Toggle, Reset, Call

\* A step keeps PowerFollowsPlan.
LEMMA NextPower == PowerFollowsPlan /\ [Next]_vars => PowerFollowsPlan'
<1> SUFFICES ASSUME PowerFollowsPlan, [Next]_vars PROVE PowerFollowsPlan'
  OBVIOUS
<1>1. CASE ScanDevice
  BY <1>1 DEF PowerFollowsPlan, ScanDevice, OnTime, OffTime, InDelay, plans,
     clock, device
<1>2. CASE ScanRelays
  BY <1>2 DEF PowerFollowsPlan, ScanRelays, InDelay, plans, clock, device
<1>3. CASE Second
  BY <1>3 DEF PowerFollowsPlan, Second
<1>4. CASE SequenceEnds \/ Outside
  BY <1>4, Disturbs DEF PowerFollowsPlan
<1>5. CASE UNCHANGED vars
  BY <1>5 DEF PowerFollowsPlan, InDelay, vars, plans, clock, device
<1> QED
  BY <1>1, <1>2, <1>3, <1>4, <1>5 DEF Next, Scan

\* In no undisturbed second does the device rest in the state that today's plan
\* ends in that second, whatever the plans and however long the sequences.
THEOREM DevicePlanKept == Spec => []PowerFollowsPlan
<1>1. Init => PowerFollowsPlan
  BY DEF Init, PowerFollowsPlan
<1> QED
  BY <1>1, NextPower, PTL DEF Spec

-----------------------------------------------------------------------------
(* The plans of the relays *)

\* A remainder is the one number below the divisor that a multiple leaves.
LEMMA Remainder ==
  ASSUME NEW w \in Nat \ {0}, NEW q \in Int, NEW m \in 0 .. w-1
  PROVE  ((w * q) + m) % w = m /\ ((w * q) + m) \div w = q
  OBVIOUS

\* A whole divisor more leaves the same remainder.
LEMMA RemainderPeriod ==
  ASSUME NEW w \in Nat \ {0}, NEW a \in Int
  PROVE  (a + w) % w = a % w
<1>1. PICK q \in Int, m \in 0 .. w-1 : a = (w * q) + m
  <2>1. a \div w \in Int /\ a % w \in 0 .. w-1
    OBVIOUS
  <2>2. a = (w * (a \div w)) + (a % w)
    OBVIOUS
  <2> QED
    BY <2>1, <2>2
<1>2. a + w = (w * (q + 1)) + m /\ q + 1 \in Int
  BY <1>1
<1>3. a % w = m
  BY <1>1, Remainder
<1>4. ((w * (q + 1)) + m) % w = m
  BY <1>2, Remainder
<1> QED
  BY <1>2, <1>3, <1>4

\* This second is today at this time of day.
LEMMA AgoNow ==
  ASSUME Typed
  PROVE  Ago(0) % DayLength = time /\ Ago(0) \div DayLength = day
<1>1. /\ DayLength \in Nat \ {0} /\ Days \in Nat \ {0}
      /\ day \in 0 .. Days-1 /\ time \in 0 .. DayLength-1
  BY Sizes DEF Typed, Weekday, Time
<1>2. (DayLength * day) + time \in 0 .. (Days * DayLength) - 1
  <2>1. DayLength * (day + 1) <= DayLength * Days
    BY <1>1
  <2>2. DayLength * (day + 1) = (DayLength * day) + DayLength
    BY <1>1
  <2>3. DayLength * Days = Days * DayLength /\ DayLength * day \in Nat
    BY <1>1
  <2> QED
    BY <1>1, <2>1, <2>2, <2>3
<1>3. Days * DayLength \in Nat \ {0}
  BY <1>1
<1>4. Ago(0) = (DayLength * day) + time
  <2>1. (((Days * DayLength) * 0) + ((DayLength * day) + time))
          % (Days * DayLength) = (DayLength * day) + time
    BY <1>2, <1>3, Remainder
  <2>2. ((Days * DayLength) * 0) + ((DayLength * day) + time)
          = ((DayLength * day) + time) - 0
    BY <1>1, <1>2, <1>3
  <2> QED
    BY <2>1, <2>2 DEF Ago
<1>5. day \in Int
  BY <1>1
<1>6. /\ ((DayLength * day) + time) % DayLength = time
      /\ ((DayLength * day) + time) \div DayLength = day
  BY <1>1, <1>5, Remainder
<1> QED
  BY <1>4, <1>6

\* What was j seconds ago is j + 1 seconds ago after the clock's next step.
LEMMA AgoStep ==
  ASSUME Typed, Second, NEW j \in Nat
  PROVE  Ago(j + 1)' = Ago(j)
<1>1. /\ DayLength \in Nat \ {0} /\ Days \in Nat \ {0}
      /\ day \in 0 .. Days-1 /\ time \in 0 .. DayLength-1
  BY Sizes DEF Typed, Weekday, Time
<1> DEFINE W == Days * DayLength
<1>2. W \in Nat \ {0}
  BY <1>1
<1>3. /\ time' = (time + 1) % DayLength
      /\ day' = IF time' = 0 THEN (day + 1) % Days ELSE day
  BY DEF Second
<1>4. CASE time + 1 < DayLength
  <2>1. time' = time + 1 /\ day' = day
    BY <1>1, <1>3, <1>4
  <2>2. ((DayLength * day') + time') - (j + 1) = ((DayLength * day) + time) - j
    BY <1>1, <2>1
  <2> QED
    BY <2>2 DEF Ago
<1>5. CASE time + 1 = DayLength /\ day + 1 < Days
  <2>1. time' = 0 /\ day' = day + 1
    BY <1>1, <1>3, <1>5
  <2>2. DayLength * (day + 1) = (DayLength * day) + DayLength
    BY <1>1
  <2>3. ((DayLength * day') + time') - (j + 1) = ((DayLength * day) + time) - j
    BY <1>1, <1>5, <2>1, <2>2
  <2> QED
    BY <2>3 DEF Ago
<1>6. CASE time + 1 = DayLength /\ day + 1 = Days
  <2>1. time' = 0 /\ day' = 0
    BY <1>1, <1>3, <1>6
  <2>2. DayLength * (day + 1) = (DayLength * day) + DayLength
    BY <1>1
  <2>3. DayLength * Days = W
    BY <1>1
  <2>4. ((DayLength * day) + time) - j
          = (((DayLength * day') + time') - (j + 1)) + W
    BY <1>1, <1>2, <1>6, <2>1, <2>2, <2>3
  <2>5. ((DayLength * day') + time') - (j + 1) \in Int
    BY <1>1, <2>1
  <2> QED
    BY <1>2, <2>4, <2>5, RemainderPeriod DEF Ago
<1> QED
  BY <1>1, <1>4, <1>5, <1>6

\* The invariant: every relay that the loop visits follows its plan, a day
\* whose plan is not enabled naming midnight.
VisitedFollow == (on_ff /\ ~InDelay) => \A r \in Visited : FollowsPlan(r)

\* user_task compares: the newest second joins the past.
LEMMA ScanKeepsPlan ==
  ASSUME Typed, VisitedFollow, ScanRelays
  PROVE  VisitedFollow'
<1> SUFFICES ASSUME on_ff, ~InDelay, NEW r \in Visited, NEW j \in Past',
                    Names(r, j), \A k \in Past' : k < j => ~Names(r, k)
             PROVE  cur'[r] <=> ~Opens(r, j)
  BY DEF VisitedFollow, FollowsPlan, ScanRelays, Visited, Names, Opens, PlanAgo, Ago,
     InDelay, plans, clock, device
<1>1. Past' = 0 .. quiet /\ quiet \in Int
  BY DEF Past, ScanRelays, Typed
<1>2. r \in Relay /\ cur'[r] = Switched(r)
  BY Sizes DEF ScanRelays, Visited, Relay
<1>3. Names(r, 0) <=> OnTime(table[r][day]) \/ OffTime(table[r][day])
  BY AgoNow DEF Names, PlanAgo, OnTime, OffTime
<1>4. Opens(r, 0) <=> OffTime(table[r][day])
  BY AgoNow DEF Opens, PlanAgo, OffTime
<1>5. CASE j = 0
  BY <1>2, <1>3, <1>4, <1>5 DEF Switched
<1>6. CASE j # 0
  <2>1. 0 \in Past' /\ 0 < j /\ j \in 1 .. quiet
    BY <1>1, <1>6
  <2>2. cur'[r] <=> cur[r]
    BY <1>2, <1>3, <2>1 DEF Switched
  <2>3. j \in Past /\ Past \subseteq Past'
    <3>1. Past = 0 .. quiet \/ Past = 1 .. quiet
      BY DEF Past
    <3> QED
      BY <1>1, <2>1, <3>1
  <2> QED
    BY <2>2, <2>3 DEF VisitedFollow, FollowsPlan
<1> QED
  BY <1>5, <1>6

\* The clock goes on: every second moves one further into the past.
LEMMA SecondKeepsPlan ==
  ASSUME Typed, VisitedFollow, Second
  PROVE  VisitedFollow'
<1> SUFFICES ASSUME on_ff, ~InDelay, NEW r \in Visited, NEW j \in Past',
                    Names(r, j)', \A k \in Past' : k < j => ~Names(r, k)'
             PROVE  cur[r] <=> ~Opens(r, j)'
  BY DEF VisitedFollow, FollowsPlan, Second, Visited, InDelay, plans, relays
<1>1. Past = 0 .. quiet /\ Past' = 1 .. quiet'
  BY DEF Past, Second
<1>2. quiet \in Int /\ quiet' \in Int /\ quiet' <= quiet + 1
  BY Sizes DEF Second, Typed
<1>3. j - 1 \in Nat /\ j - 1 \in Past
  BY <1>1, <1>2
<1>4. \A k \in Nat : Ago(k + 1)' = Ago(k)
  BY AgoStep
<1>5. \A k \in Nat : /\ Names(r, k + 1)' <=> Names(r, k)
                     /\ Opens(r, k + 1)' <=> Opens(r, k)
  BY <1>4 DEF Names, Opens, PlanAgo, Second, plans
<1>6. (j - 1) + 1 = j
  BY <1>1, <1>2
<1>7. Names(r, j - 1) /\ (Opens(r, j)' <=> Opens(r, j - 1))
  BY <1>3, <1>5, <1>6
<1>8. ASSUME NEW k \in Past, k < j - 1 PROVE ~Names(r, k)
  <2>1. k \in Nat /\ k + 1 \in Past' /\ k + 1 < j
    BY <1>1, <1>2, <1>3, <1>8
  <2> QED
    BY <1>5, <2>1
<1> QED
  BY <1>3, <1>7, <1>8 DEF VisitedFollow, FollowsPlan

\* A step keeps VisitedFollow.
LEMMA NextRelays ==
  Typed /\ VisitedFollow /\ [Next]_vars => VisitedFollow'
<1> SUFFICES ASSUME Typed, VisitedFollow, [Next]_vars
             PROVE  VisitedFollow'
  OBVIOUS
<1>1. ASSUME quiet' = -1 PROVE VisitedFollow'
  <2>1. Past' = {}
    BY <1>1 DEF Past
  <2> QED
    BY <2>1 DEF VisitedFollow, FollowsPlan
<1>2. CASE ScanDevice /\ UNCHANGED <<device, relays, quiet>>
  <2>1. Past' = Past
    BY <1>2 DEF Past, ScanDevice
  <2> QED
    BY <1>2, <2>1 DEF VisitedFollow, FollowsPlan, ScanDevice, Visited, Names, Opens,
       PlanAgo, Ago, InDelay, plans, clock, device, relays
<1>3. CASE UNCHANGED vars
  BY <1>3 DEF VisitedFollow, FollowsPlan, Visited, Past, Names, Opens, PlanAgo, Ago,
     InDelay, vars, plans, clock, device, relays
<1>4. ScanDevice => quiet' = -1 \/ UNCHANGED <<device, relays, quiet>>
  BY DEF ScanDevice
<1> QED
  BY <1>1, <1>2, <1>3, <1>4, ScanKeepsPlan, SecondKeepsPlan, Disturbs
  DEF Next, Scan

\* However many weekdays and times of day there are, a relay with a plan for
\* every weekday is in the state of the latest time its plan names; Sunday's
\* plan, which the loop asks for, is one of them.
THEOREM RelayPlanKept == Spec => []RelayFollowsPlan
<1>1. Init => VisitedFollow
  BY DEF Init, VisitedFollow, FollowsPlan, Past
<1>2. VisitedFollow => RelayFollowsPlan
  <2>1. Sunday \in Weekday
    BY Sizes DEF Sunday, Weekday
  <2> QED
    BY <2>1 DEF VisitedFollow, RelayFollowsPlan, Visited
<1> QED
  BY <1>1, <1>2, InitType, NextType, NextRelays, PTL DEF Spec
=============================================================================
