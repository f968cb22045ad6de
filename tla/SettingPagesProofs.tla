-------------------------- MODULE SettingPagesProofs --------------------------
(***************************************************************************)
(* Proofs about SysTime, for every time the fields can hold, and about     *)
(* SettingPages for any relays, any set of times and plans, any time-out   *)
(* and any number of keys and instructions.                                *)
(***************************************************************************)
EXTENDS SettingPages, TLAPS

-----------------------------------------------------------------------------
(* The calculations of user_sys_time.c *)

\* The fields hold integers.
LEMMA FieldsAreInts == Nat \subseteq Int /\ U8 \subseteq Int
BY DEF U8

\* Every month has 28 to 31 days.
LEMMA MonthLengths ==
  ASSUME NEW y \in Int, NEW m \in 1 .. 12
  PROVE  LastDay(y, m) \in 28 .. 31
BY DEF LastDay, MonthDays

\* user_setting_time_check_up makes any contents of the fields valid.
THEOREM CheckUpValid ==
  ASSUME NEW t \in Clock
  PROVE  CheckUp(t) \in Clock /\ IsValid(CheckUp(t))
<1> DEFINE y == Between(t.year, 2000, 2099)
           m == Between(t.month, 1, 12)
           d == Between(t.day, 1, LastDay(y, m))
           h == Between(t.hour, 0, 23)
           n == Between(t.min, 0, 59)
<1>1. CASE IsValid(t)
  BY <1>1 DEF CheckUp
<1>2. CASE ~IsValid(t)
  <2>1. t.year \in Int /\ t.month \in Int /\ t.day \in Int /\ t.hour \in Int /\ t.min \in Int
    BY FieldsAreInts DEF Clock
  <2>2. y \in 2000 .. 2099 /\ m \in 1 .. 12
    BY <2>1 DEF Between
  <2>3. LastDay(y, m) \in 28 .. 31
    BY <2>2, MonthLengths
  <2>4. d \in 1 .. LastDay(y, m)
    <3>1. \A last \in 28 .. 31 : Between(t.day, 1, last) \in 1 .. last
      BY <2>1 DEF Between
    <3> HIDE DEF y, m
    <3> QED BY <2>3, <3>1
  <2>5. h \in 0 .. 23 /\ n \in 0 .. 59
    BY <2>1 DEF Between
  <2>6. CheckUp(t) = [year |-> y, month |-> m, day |-> d, hour |-> h, min |-> n]
    BY <1>2 DEF CheckUp
  <2> HIDE DEF y, m, d, h, n
  <2>7. CheckUp(t) \in Clock
    <3>1. y \in Nat
      BY <2>2
    <3>2. m \in U8 /\ d \in U8 /\ h \in U8 /\ n \in U8
      BY <2>2, <2>3, <2>4, <2>5 DEF U8
    <3> QED BY <3>1, <3>2, <2>6 DEF Clock
  <2>8. IsValid(CheckUp(t))
    BY <2>2, <2>4, <2>5, <2>6 DEF IsValid
  <2> QED BY <2>7, <2>8
<1> QED BY <1>1, <1>2

\* The month table and the leap rule are the Gregorian calendar's.
THEOREM MonthsAreCalendar ==
  \A y \in 2000 .. 2099, m \in 1 .. 12 : LastDay(y, m) = CalendarDays(y, m)
<1> SUFFICES ASSUME NEW y \in 2000 .. 2099, NEW m \in 1 .. 12
             PROVE  LastDay(y, m) = CalendarDays(y, m)
  OBVIOUS
<1>1. CASE m # 2
  BY <1>1 DEF LastDay, CalendarDays, MonthDays
<1>2. CASE m = 2
  <2>1. DaysBefore(y + 1) - DaysBefore(y) = IF IsLeapYear(y) THEN 366 ELSE 365
    BY SMTT(60) DEF DaysBefore, IsLeapYear
  <2> QED BY <1>2, <2>1 DEF LastDay, CalendarDays
<1> QED BY <1>1, <1>2

\* A valid time is one that a calendar has, and the other way round.
LEMMA ValidIsDate ==
  ASSUME NEW t
  PROVE  IsValid(t) <=> IsDate(t)
BY MonthsAreCalendar DEF IsValid, IsDate

\* Raising or lowering one field does not overflow it.
LEMMA EditFits ==
  ASSUME NEW t \in Clock, NEW u \in Unit
  PROVE  /\ [t EXCEPT ![u] = IF @ < Most[u] THEN @ + 1 ELSE @] \in Clock
         /\ [t EXCEPT ![u] = IF @ > Least[u] THEN @ - 1 ELSE Least[u]] \in Clock
<1>1. CASE u = "year"
  BY <1>1 DEF Clock, Most, Least
<1>2. CASE u = "month"
  BY <1>2 DEF Clock, U8, Most, Least
<1>3. CASE u = "day"
  BY <1>3 DEF Clock, U8, Most, Least
<1>4. CASE u = "hour"
  BY <1>4 DEF Clock, U8, Most, Least
<1>5. CASE u = "min"
  BY <1>5 DEF Clock, U8, Most, Least
<1> QED BY <1>1, <1>2, <1>3, <1>4, <1>5 DEF Unit

\* Whatever the fields hold, an edit leaves a date of the calendar in them:
\* user_setting_time_param_add and user_setting_time_param_sub.
THEOREM EditedIsDate ==
  ASSUME NEW t \in Clock, NEW u \in Unit
  PROVE  /\ Add(t, u) \in Clock /\ IsDate(Add(t, u))
         /\ Sub(t, u) \in Clock /\ IsDate(Sub(t, u))
<1> DEFINE up   == [t EXCEPT ![u] = IF @ < Most[u] THEN @ + 1 ELSE @]
           down == [t EXCEPT ![u] = IF @ > Least[u] THEN @ - 1 ELSE Least[u]]
<1>1. up \in Clock /\ down \in Clock
  BY EditFits
<1>2. Add(t, u) = CheckUp(up) /\ Sub(t, u) = CheckUp(down)
  BY DEF Add, Sub
<1> HIDE DEF up, down
<1> QED BY <1>1, <1>2, CheckUpValid, ValidIsDate

\* The fields are within the calendar, the day within the longest month.
WithinLimits(t) ==
  /\ t.year \in 2000 .. 2099 /\ t.month \in 1 .. 12 /\ t.day \in 1 .. 31
  /\ t.hour \in 0 .. 23 /\ t.min \in 0 .. 59

\* Such a time is only cut to the last day of its month.
LEMMA CutsTheDay ==
  ASSUME NEW t \in Clock, WithinLimits(t)
  PROVE  CheckUp(t) = [t EXCEPT !.day = IF @ > LastDay(t.year, t.month)
                                          THEN LastDay(t.year, t.month) ELSE @]
<1> DEFINE last == LastDay(t.year, t.month)
<1>1. last \in 28 .. 31
  BY MonthLengths DEF WithinLimits
<1>2. IsValid(t) <=> t.day <= last
  <2> HIDE DEF last
  <2>1. IsValid(t) <=> t.day \in 1 .. last
    BY DEF IsValid, WithinLimits, last
  <2> QED BY <1>1, <2>1 DEF WithinLimits
<1>3. /\ Between(t.year, 2000, 2099) = t.year /\ Between(t.month, 1, 12) = t.month
      /\ Between(t.hour, 0, 23) = t.hour /\ Between(t.min, 0, 59) = t.min
  BY DEF WithinLimits, Between
<1>4. Between(t.day, 1, last) = IF t.day > last THEN last ELSE t.day
  <2> HIDE DEF last
  <2> QED BY <1>1 DEF WithinLimits, Between
<1>5. CASE t.day <= last
  <2>1. CheckUp(t) = t
    BY <1>2, <1>5 DEF CheckUp
  <2>2. ~(t.day > last)
    <3> HIDE DEF last
    <3> QED BY <1>1, <1>5 DEF WithinLimits
  <2> QED BY <2>1, <2>2 DEF Clock
<1>6. CASE ~(t.day <= last)
  <2>1. CheckUp(t) = [year |-> t.year, month |-> t.month, day |-> Between(t.day, 1, last),
                      hour |-> t.hour, min |-> t.min]
    BY <1>2, <1>3, <1>6 DEF CheckUp
  <2> QED BY <1>4, <2>1 DEF Clock
<1> QED BY <1>5, <1>6

\* An edit of a valid time changes no other field, except that the day is cut
\* to the last one of the month.
THEOREM EditKeepsTheRest ==
  ASSUME NEW t \in Clock, IsValid(t), NEW u \in Unit, NEW v \in Unit \ {u},
         NEW e \in {Add(t, u), Sub(t, u)}
  PROVE  e[v] = t[v] \/ (v = "day" /\ e.day = LastDay(e.year, e.month) /\ e.day < t.day)
<1>1. WithinLimits(t)
  BY MonthLengths DEF IsValid, WithinLimits
<1> DEFINE up   == [t EXCEPT ![u] = IF @ < Most[u] THEN @ + 1 ELSE @]
           down == [t EXCEPT ![u] = IF @ > Least[u] THEN @ - 1 ELSE Least[u]]
<1>2. up \in Clock /\ down \in Clock
  BY EditFits
<1>3. WithinLimits(up) /\ WithinLimits(down)
  BY <1>1 DEF WithinLimits, Clock, Unit, Most, Least
<1>4. up[v] = t[v] /\ down[v] = t[v]
  BY DEF Clock, Unit
<1>5. PICK r \in {up, down} : e = CheckUp(r)
  BY DEF Add, Sub
<1>6. r \in Clock /\ WithinLimits(r) /\ r[v] = t[v]
  BY <1>2, <1>3, <1>4
<1> HIDE DEF up, down
<1>7. e = [r EXCEPT !.day = IF @ > LastDay(r.year, r.month) THEN LastDay(r.year, r.month) ELSE @]
  BY <1>5, <1>6, CutsTheDay
<1>8. CASE v # "day"
  BY <1>6, <1>7, <1>8 DEF Unit, Clock
<1>9. CASE v = "day"
  <2>1. e.year = r.year /\ e.month = r.month
    BY <1>6, <1>7 DEF Clock
  <2>2. e.day = IF r.day > LastDay(r.year, r.month) THEN LastDay(r.year, r.month) ELSE r.day
    BY <1>6, <1>7 DEF Clock
  <2>3. LastDay(r.year, r.month) \in Int /\ r.day \in Int
    BY <1>6, MonthLengths DEF WithinLimits
  <2> QED BY <1>6, <1>9, <2>1, <2>2, <2>3
<1> QED BY <1>8, <1>9

-----------------------------------------------------------------------------
(* The setting pages *)

USE SizeAssumption, InputAssumption

\* The clock and the edited time hold dates at all times, and the history of
\* the time-out agrees with its count.
IInv ==
  /\ TypeOK
  /\ ShownIsEdited
  /\ rtc \in Clock /\ IsDate(rtc)
  /\ setting \in Clock /\ IsDate(setting)
  /\ timeout < Timeout
  /\ OnRelayPage => page.timeout < Timeout /\ idle = page.timeout

-----------------------------------------------------------------------------
(* Plans and pages *)

LEMMA Constants ==
  /\ Midnight \in HourMinute
  /\ NoPlan \in Plan /\ NoPlan.on = Midnight /\ NoPlan.off = Midnight
  /\ 0 \in Ticks /\ 0 < Timeout
<1>1. Midnight \in HourMinute
  BY DEF Midnight, HourMinute
<1>2. NoPlan \in Plan
  BY <1>1 DEF NoPlan, Plan
<1> QED BY <1>1, <1>2 DEF NoPlan, Ticks

\* A nonempty set of weekdays has a first one.
LEMMA FirstDay ==
  ASSUME NEW S \in SUBSET Weekday, S # {}
  PROVE  \E d \in S : \A e \in S : d <= e
<1> SUFFICES ASSUME \A d \in S : \E e \in S : ~(d <= e)
             PROVE  FALSE
  OBVIOUS
<1>0. S \subseteq 0 .. 6
  BY DEF Weekday
<1>1. 0 \notin S
  BY <1>0
<1>2. 1 \notin S
  BY <1>0, <1>1
<1>3. 2 \notin S
  BY <1>0, <1>1, <1>2
<1>4. 3 \notin S
  BY <1>0, <1>1, <1>2, <1>3
<1>5. 4 \notin S
  BY <1>0, <1>1, <1>2, <1>3, <1>4
<1>6. 5 \notin S
  BY <1>0, <1>1, <1>2, <1>3, <1>4, <1>5
<1>7. PICK d \in S : TRUE
  OBVIOUS
<1>8. \A e \in S : e = 6
  BY <1>0, <1>1, <1>2, <1>3, <1>4, <1>5, <1>6
<1> QED BY <1>7, <1>8

\* What a page opens with is a plan.
LEMMA ShownIsPlan ==
  ASSUME NEW tbl \in [Relays -> [Weekday -> Plan]], NEW r \in Relays
  PROVE  Shown(tbl, r) \in Plan
<1>1. CASE Enabled(tbl, r) = {}
  BY <1>1, Constants DEF Shown
<1>2. CASE Enabled(tbl, r) # {}
  <2> DEFINE d == CHOOSE d \in Enabled(tbl, r) : \A e \in Enabled(tbl, r) : d <= e
  <2>1. Enabled(tbl, r) \in SUBSET Weekday
    BY DEF Enabled
  <2>2. d \in Weekday
    BY <1>2, <2>1, FirstDay
  <2>3. Shown(tbl, r) = tbl[r][d]
    BY <1>2 DEF Shown
  <2>4. tbl[r] \in [Weekday -> Plan]
    OBVIOUS
  <2> HIDE DEF d
  <2> QED BY <2>2, <2>3, <2>4
<1> QED BY <1>1, <1>2

\* A page that opens is a page, on the switch-on time.
LEMMA OpenedIsPage ==
  ASSUME NEW tbl \in [Relays -> [Weekday -> Plan]], NEW r \in Relays
  PROVE  /\ Opened(tbl, r) \in Page
         /\ Opened(tbl, r).relay = r /\ Opened(tbl, r).unit = "hour"
         /\ Opened(tbl, r).active = TRUE /\ Opened(tbl, r).timeout = 0
<1>1. Shown(tbl, r).on \in HourMinute /\ Shown(tbl, r).off \in HourMinute
  BY ShownIsPlan DEF Plan
<1>2. r \in 0 .. 7 /\ 0 \in Ticks
  BY Constants
<1> QED BY <1>1, <1>2 DEF Opened, Page, Unit

\* A plan that is stored fits the table.
LEMMA StoredFits ==
  ASSUME table \in [Relays -> [Weekday -> Plan]], NEW r \in Relays,
         NEW p, p.on \in HourMinute, p.off \in HourMinute
  PROVE  Stored(r, p) \in [Relays -> [Weekday -> Plan]]
<1>1. \A d \in Weekday : [on |-> p.on, off |-> p.off, secs |-> table[r][d].secs,
        enable |-> p.on # Midnight \/ p.off # Midnight] \in Plan
  BY DEF Plan
<1> QED BY <1>1 DEF Stored

\* A key changes the time that is being edited, and no more of the page than
\* that and the count.
LEMMA EditedIsPage ==
  ASSUME NEW p \in Page, p.unit \in {"hour", "min"}, NEW q \in {Raised(p), Lowered(p)}
  PROVE  /\ q \in Page /\ q.timeout = 0
         /\ q.relay = p.relay /\ q.unit = p.unit /\ q.active = p.active
<1> DEFINE up(h, u) == [h EXCEPT ![u] = IF @ < PlanMax(u) THEN @ + 1 ELSE @]
           low(h, u) == [h EXCEPT ![u] = IF @ > 0 THEN @ - 1 ELSE 0]
<1>1. \A h \in HourMinute, u \in {"hour", "min"} :
        up(h, u) \in HourMinute /\ low(h, u) \in HourMinute
  BY DEF HourMinute, PlanMax
<1>2. PICK h \in {up(p[Side(p)], p.unit), low(p[Side(p)], p.unit)} :
        q = [p EXCEPT ![Side(p)] = h, !.timeout = 0]
  BY DEF Raised, Lowered, Side, Page, HourMinute
<1>3. p.on \in HourMinute /\ p.off \in HourMinute
  BY DEF Page
<1> HIDE DEF up, low
<1>4. h \in HourMinute
  <2>1. p[Side(p)] \in HourMinute
    BY <1>3 DEF Side
  <2> QED BY <1>1, <1>2, <2>1
<1>5. CASE p.active
  BY <1>2, <1>4, <1>5, Constants DEF Side, Page
<1>6. CASE ~p.active
  BY <1>2, <1>4, <1>6, Constants DEF Side, Page
<1> QED BY <1>5, <1>6

\* The keys that move between the four values of the page, whichever of its two
\* times they come to, leave the display showing the time that is edited.
LEMMA UnitIsPage ==
  ASSUME page \in Page, page.unit \in {"hour", "min"}, NEW s,
         page.active <=> s = "active", s \in {"active", "deactive"},
         (PrevUnit /\ s = status) \/ NextUnit(s)
  PROVE  /\ page' \in Page /\ page'.unit \in {"hour", "min"} /\ page'.timeout = 0
         /\ page'.relay = page.relay
         /\ status' \in {"active", "deactive"}
         /\ page'.active <=> status' = "active"
<1>1. CASE page.active /\ page.unit = "hour"
  BY <1>1, Constants DEF PrevUnit, NextUnit, Page, Unit
<1>2. CASE page.active /\ page.unit = "min"
  BY <1>2, Constants DEF PrevUnit, NextUnit, Page, Unit
<1>3. CASE ~page.active /\ page.unit = "hour"
  BY <1>3, Constants DEF PrevUnit, NextUnit, Page, Unit
<1>4. CASE ~page.active /\ page.unit = "min"
  BY <1>4, Constants DEF PrevUnit, NextUnit, Page, Unit
<1> QED BY <1>1, <1>2, <1>3, <1>4

-----------------------------------------------------------------------------
(* The clock *)

LEMMA MonthsEnd ==
  ASSUME NEW y \in 2000 .. 2099, NEW m \in 1 .. 12
  PROVE  CalendarDays(y, m) \in 28 .. 31
<1>1. y \in Int
  OBVIOUS
<1> QED BY <1>1, MonthsAreCalendar, MonthLengths

\* The clock of the chip runs from date to date.
LEMMA ClockKeepsDates ==
  ASSUME NEW t \in Clock, IsDate(t), t # Most
  PROVE  NextMinute(t) \in Clock /\ IsDate(NextMinute(t))
<1>0. /\ t.year \in 2000 .. 2099 /\ t.month \in 1 .. 12
      /\ t.day \in 1 .. CalendarDays(t.year, t.month)
      /\ t.hour \in 0 .. 23 /\ t.min \in 0 .. 59
  BY DEF IsDate
<1>1. CalendarDays(t.year, t.month) \in 28 .. 31
  BY <1>0, MonthsEnd
<1>2. CASE t.min < 59
  <2>1. NextMinute(t) = [t EXCEPT !.min = @ + 1]
    BY <1>2 DEF NextMinute
  <2>2. t.min + 1 \in U8 /\ t.min + 1 \in 0 .. 59
    BY <1>0, <1>2 DEF U8
  <2>3. NextMinute(t) \in Clock
    BY <2>1, <2>2 DEF Clock
  <2>4. /\ NextMinute(t).year = t.year /\ NextMinute(t).month = t.month
        /\ NextMinute(t).day = t.day
        /\ NextMinute(t).hour \in 0 .. 23 /\ NextMinute(t).min \in 0 .. 59
    BY <1>0, <2>1, <2>2 DEF Clock
  <2> QED BY <1>0, <2>3, <2>4 DEF IsDate
<1>3. CASE ~(t.min < 59) /\ t.hour < 23
  <2>1. NextMinute(t) = [t EXCEPT !.min = 0, !.hour = @ + 1]
    BY <1>3 DEF NextMinute
  <2>2. t.hour + 1 \in U8 /\ t.hour + 1 \in 0 .. 23 /\ 0 \in U8
    BY <1>0, <1>3 DEF U8
  <2>3. NextMinute(t) \in Clock
    BY <2>1, <2>2 DEF Clock
  <2>4. /\ NextMinute(t).year = t.year /\ NextMinute(t).month = t.month
        /\ NextMinute(t).day = t.day
        /\ NextMinute(t).hour \in 0 .. 23 /\ NextMinute(t).min \in 0 .. 59
    BY <1>0, <2>1, <2>2 DEF Clock
  <2> QED BY <1>0, <2>3, <2>4 DEF IsDate
<1>4. CASE ~(t.min < 59) /\ ~(t.hour < 23)
  <2> DEFINE z == [t EXCEPT !.min = 0, !.hour = 0]
  <2>1. NextMinute(t) = NextDay(z)
    BY <1>4 DEF NextMinute
  <2>2. z \in Clock /\ z.hour = 0 /\ z.min = 0
        /\ z.year = t.year /\ z.month = t.month /\ z.day = t.day
    <3>1. 0 \in U8
      BY DEF U8
    <3> QED BY <3>1 DEF Clock
  <2>3. t.min = 59 /\ t.hour = 23
    BY <1>0, <1>4
  <2> HIDE DEF z
  <2>4. CASE t.day < CalendarDays(t.year, t.month)
    <3>1. NextDay(z) = [z EXCEPT !.day = @ + 1]
      BY <2>2, <2>4 DEF NextDay
    <3>2. t.day + 1 \in 1 .. CalendarDays(t.year, t.month) /\ t.day + 1 \in U8
      BY <1>0, <1>1, <2>4 DEF U8
    <3>3. NextDay(z) \in Clock
      BY <2>2, <3>1, <3>2 DEF Clock
    <3>4. /\ NextDay(z).year = t.year /\ NextDay(z).month = t.month
          /\ NextDay(z).day = t.day + 1 /\ NextDay(z).hour = 0 /\ NextDay(z).min = 0
      BY <2>2, <3>1 DEF Clock
    <3> QED BY <1>0, <2>1, <3>2, <3>3, <3>4 DEF IsDate
  <2>5. CASE ~(t.day < CalendarDays(t.year, t.month)) /\ t.month < 12
    <3>1. NextDay(z) = [z EXCEPT !.day = 1, !.month = @ + 1]
      BY <2>2, <2>5 DEF NextDay
    <3>2. t.month + 1 \in 1 .. 12 /\ t.month + 1 \in U8 /\ 1 \in U8
      BY <1>0, <2>5 DEF U8
    <3>3. 1 \in 1 .. CalendarDays(t.year, t.month + 1)
      BY <1>0, <3>2, MonthsEnd
    <3>4. NextDay(z) \in Clock
      BY <2>2, <3>1, <3>2 DEF Clock
    <3>5. /\ NextDay(z).year = t.year /\ NextDay(z).month = t.month + 1
          /\ NextDay(z).day = 1 /\ NextDay(z).hour = 0 /\ NextDay(z).min = 0
      BY <2>2, <3>1 DEF Clock
    <3> QED BY <1>0, <2>1, <3>2, <3>3, <3>4, <3>5 DEF IsDate
  <2>6. CASE ~(t.day < CalendarDays(t.year, t.month)) /\ ~(t.month < 12)
    <3>1. NextDay(z) = [z EXCEPT !.day = 1, !.month = 1, !.year = @ + 1]
      BY <2>2, <2>6 DEF NextDay
    <3>2. t.month = 12 /\ t.day = 31
      BY <1>0, <1>1, <2>6 DEF CalendarDays
    <3>3. t.year # 2099
      BY <2>3, <3>2 DEF Most, Clock
    <3>4. t.year + 1 \in 2000 .. 2099 /\ t.year + 1 \in Nat /\ 1 \in U8 /\ 1 \in 1 .. 12
      BY <1>0, <3>3 DEF U8
    <3>5. 1 \in 1 .. CalendarDays(t.year + 1, 1)
      BY <3>4, MonthsEnd
    <3>6. NextDay(z) \in Clock
      <4>1. z \in Clock /\ z.year + 1 \in Nat /\ 1 \in U8
        BY <2>2, <3>4
      <4> QED BY <3>1, <4>1 DEF Clock
    <3>7. /\ NextDay(z).year = t.year + 1 /\ NextDay(z).month = 1
          /\ NextDay(z).day = 1 /\ NextDay(z).hour = 0 /\ NextDay(z).min = 0
      BY <2>2, <3>1 DEF Clock
    <3> QED BY <1>0, <2>1, <3>4, <3>5, <3>6, <3>7 DEF IsDate
  <2> QED BY <2>4, <2>5, <2>6
<1> QED BY <1>2, <1>3, <1>4

\* The first time that the clock can be set to, and those of instructions.
LEMMA TimesFit ==
  /\ Least \in Clock /\ IsDate(Least)
  /\ \A t \in Times : t \in Clock /\ IsDate(t)
<1>1. Least \in Clock
  BY DEF Least, Clock, U8
<1>2. IsValid(Least)
  BY DEF Least, IsValid, LastDay, MonthDays
<1> QED BY <1>1, <1>2, ValidIsDate

-----------------------------------------------------------------------------
(* Each action *)

\* What a step leaves of the state when it opens the page of a relay.
LEMMA RelayPageOpens ==
  ASSUME NEW tbl \in [Relays -> [Weekday -> Plan]], NEW r \in Relays,
         OpenRelayPage(tbl, r)
  PROVE  /\ page' \in Page /\ page'.timeout = 0
         /\ page'.relay \in Relays /\ page'.unit = "hour" /\ page'.active = TRUE
         /\ status' = "active" /\ fresh' = TRUE /\ idle' = 0
<1>1. page' = Opened(tbl, r) /\ status' = "active" /\ fresh' = TRUE /\ idle' = 0
  BY DEF OpenRelayPage
<1> QED BY <1>1, OpenedIsPage

LEMMA AdOpenInv ==
  ASSUME IInv, NEW r \in Relays, AdOpen(r)
  PROVE  IInv'
<1>1. table \in [Relays -> [Weekday -> Plan]] /\ OpenRelayPage(table, r)
  BY DEF IInv, TypeOK, AdOpen
<1>2. /\ page' \in Page /\ page'.timeout = 0
      /\ page'.relay \in Relays /\ page'.unit = "hour" /\ page'.active = TRUE
      /\ status' = "active" /\ fresh' = TRUE /\ idle' = 0
  BY <1>1, RelayPageOpens
<1>3. TypeOK'
  BY <1>2, Constants DEF IInv, TypeOK, AdOpen, Post, timePage, budget
<1> QED BY <1>2, <1>3, Constants DEF IInv, AdOpen, timePage, budget, ShownIsEdited, OnRelayPage

LEMMA KeyOpensTimeInv ==
  ASSUME IInv, KeyOpensTime
  PROVE  IInv'
<1>1. TypeOK'
  BY Constants DEF IInv, TypeOK, KeyOpensTime, OpenTimePage, Unit, budget
<1> QED BY <1>1 DEF IInv, KeyOpensTime, OpenTimePage, ShownIsEdited, OnRelayPage

LEMMA TimeEditInv ==
  ASSUME IInv, TimeEdit
  PROVE  IInv'
<1>1. TypeOK'
  BY Constants DEF IInv, TypeOK, TimeEdit, history
<1>2. setting' \in Clock /\ IsDate(setting')
  BY EditedIsDate DEF IInv, TypeOK, TimeEdit
<1> QED BY <1>1, <1>2, Constants DEF IInv, TimeEdit, ShownIsEdited, OnRelayPage

LEMMA TimeUnitInv ==
  ASSUME IInv, TimeUnit
  PROVE  IInv'
<1>1. unit' \in Unit
  <2>1. \A i \in 1 .. 5 : Units[i] \in Unit
    BY DEF Units, Unit
  <2>2. Place(unit) \in 1 .. 5
    <3>1. unit \in Unit
      BY DEF IInv, TypeOK
    <3>2. \E i \in 1 .. 5 : Units[i] = unit
      BY <3>1 DEF Units, Unit
    <3> QED BY <3>2 DEF Place
  <2>3. \A i \in Int : Between(i, 1, 5) \in 1 .. 5
    BY DEF Between
  <2>4. PICK i \in {Place(unit) - 1, Place(unit) + 1} : unit' = Units[Between(i, 1, 5)]
    BY DEF TimeUnit
  <2>5. Between(i, 1, 5) \in 1 .. 5
    BY <2>2, <2>3
  <2> QED BY <2>1, <2>4, <2>5
<1>2. TypeOK'
  BY <1>1, Constants DEF IInv, TypeOK, TimeUnit, history, budget
<1> QED BY <1>2, Constants DEF IInv, TimeUnit, ShownIsEdited, OnRelayPage, history

LEMMA TimeCloseInv ==
  ASSUME IInv, TimeClose
  PROVE  IInv'
<1>1. TypeOK'
  BY DEF IInv, TypeOK, TimeClose, LeaveTimePage, Unit, Post, history, budget
<1> QED BY <1>1, TimesFit DEF IInv, TimeClose, LeaveTimePage, ShownIsEdited, OnRelayPage

LEMMA TimeToRelayInv ==
  ASSUME IInv, NEW k \in 0 .. 7, TimeToRelay(k)
  PROVE  IInv'
<1>1. /\ table \in [Relays -> [Weekday -> Plan]] /\ Reached(k) \in Relays
      /\ OpenRelayPage(table, Reached(k))
  BY DEF IInv, TypeOK, TimeToRelay
<1>2. /\ page' \in Page /\ page'.timeout = 0
      /\ page'.relay \in Relays /\ page'.unit = "hour" /\ page'.active = TRUE
      /\ status' = "active" /\ fresh' = TRUE /\ idle' = 0
  BY <1>1, RelayPageOpens
<1>3. TypeOK'
  BY <1>2, Constants DEF IInv, TypeOK, TimeToRelay, LeaveTimePage, Unit, budget
<1> QED BY <1>2, <1>3, Constants, TimesFit
        DEF IInv, TimeToRelay, LeaveTimePage, ShownIsEdited, OnRelayPage

\* Storing the page keeps the types of the table.
LEMMA StorePageFits ==
  ASSUME IInv, OnRelayPage, StorePage
  PROVE  table' \in [Relays -> [Weekday -> Plan]]
<1>1. page.relay \in Relays /\ page.on \in HourMinute /\ page.off \in HourMinute
  BY DEF IInv, TypeOK, ShownIsEdited, Page
<1> QED BY <1>1, StoredFits DEF IInv, TypeOK, StorePage

LEMMA PageEditInv ==
  ASSUME IInv, NEW ad \in BOOLEAN, PageEdit(ad)
  PROVE  IInv'
<1>1. page \in Page /\ page.unit \in {"hour", "min"} /\ page.relay \in Relays
  BY DEF IInv, TypeOK, ShownIsEdited, PageEdit
<1>2. /\ page' \in Page /\ page'.timeout = 0
      /\ page'.relay = page.relay /\ page'.unit = page.unit /\ page'.active = page.active
  BY <1>1, EditedIsPage DEF PageEdit
<1>3. TypeOK'
  <2>1. {in_delay', unsaved', fresh'} \subseteq BOOLEAN
    BY DEF IInv, TypeOK, PageEdit, EditPosts
  <2>2. edits' \in 0 .. MaxEdits /\ calls' \in 0 .. MaxCalls
    BY DEF IInv, TypeOK, PageEdit
  <2>3. status' \in {"none", "sys_time", "active", "deactive"} /\ idle' \in Ticks
    BY Constants DEF IInv, TypeOK, PageEdit
  <2> QED BY <1>2, <2>1, <2>2, <2>3 DEF IInv, TypeOK, PageEdit, timePage
<1> QED BY <1>1, <1>2, <1>3, Constants
        DEF IInv, PageEdit, ShownIsEdited, OnRelayPage, timePage

LEMMA PageUnitInv ==
  ASSUME IInv, NEW ad \in BOOLEAN, PageUnit(ad)
  PROVE  IInv'
<1>1. /\ page \in Page /\ page.unit \in {"hour", "min"} /\ page.relay \in Relays
      /\ page.active <=> status = "active"
      /\ status \in {"active", "deactive"}
  BY DEF IInv, TypeOK, ShownIsEdited, OnRelayPage, PageUnit
<1>2. /\ page' \in Page /\ page'.unit \in {"hour", "min"} /\ page'.timeout = 0
      /\ page'.relay = page.relay
      /\ status' \in {"active", "deactive"}
      /\ page'.active <=> status' = "active"
  BY <1>1, UnitIsPage DEF PageUnit
<1>3. TypeOK'
  BY <1>2, Constants DEF IInv, TypeOK, PageUnit, EditPosts, timePage, budget
<1>4. page'.active \in BOOLEAN
  BY <1>2 DEF Page
<1> QED BY <1>1, <1>2, <1>3, <1>4, Constants
        DEF IInv, PageUnit, ShownIsEdited, OnRelayPage, timePage

LEMMA AdCloseInv ==
  ASSUME IInv, AdClose
  PROVE  IInv'
<1>1. table' \in [Relays -> [Weekday -> Plan]]
  BY StorePageFits DEF AdClose
<1>2. /\ page' \in Page /\ page'.relay \in Relays /\ page'.unit \in {"hour", "min"}
      /\ status' \in {"none", "deactive"}
      /\ status' = "deactive" => page'.timeout = 0 /\ ~page'.active
  <2>1. /\ page \in Page /\ page.unit \in {"hour", "min"} /\ page.relay \in Relays
    BY DEF IInv, TypeOK, ShownIsEdited, AdClose
  <2>2. CASE page.relay = 6
    BY <2>1, <2>2, Constants DEF AdClose, NextUnit, Page, Unit
  <2>3. CASE page.relay # 6
    BY <2>1, <2>3 DEF AdClose
  <2> QED BY <2>2, <2>3
<1>3. unsaved' \in BOOLEAN
  BY DEF AdClose, Post
<1>4. TypeOK'
  BY <1>1, <1>2, <1>3, Constants DEF IInv, TypeOK, AdClose, NotShown, timePage, budget
<1>5. page'.active \in BOOLEAN
  BY <1>2 DEF Page
<1> QED BY <1>2, <1>4, <1>5, Constants
        DEF IInv, AdClose, ShownIsEdited, OnRelayPage, timePage

LEMMA IrCloseInv ==
  ASSUME IInv, IrClose
  PROVE  IInv'
<1>1. table' \in [Relays -> [Weekday -> Plan]]
  BY StorePageFits DEF IrClose
<1>2. TypeOK'
  BY <1>1, Constants DEF IInv, TypeOK, IrClose, NotShown, Post, timePage, budget
<1> QED BY <1>2 DEF IInv, IrClose, ShownIsEdited, OnRelayPage, timePage

LEMMA IrToTimeInv ==
  ASSUME IInv, IrToTime
  PROVE  IInv'
<1>1. table' \in [Relays -> [Weekday -> Plan]]
  BY StorePageFits DEF IrToTime
<1>2. TypeOK'
  BY <1>1, Constants DEF IInv, TypeOK, IrToTime, OpenTimePage, NotShown, Post, Unit, budget
<1> QED BY <1>2 DEF IInv, IrToTime, OpenTimePage, ShownIsEdited, OnRelayPage

LEMMA IrToRelayInv ==
  ASSUME IInv, NEW k \in Relays, IrToRelay(k)
  PROVE  IInv'
<1>1. table' \in [Relays -> [Weekday -> Plan]]
  BY StorePageFits DEF IrToRelay
<1>2. /\ page' \in Page /\ page'.timeout = 0
      /\ page'.relay \in Relays /\ page'.unit = "hour" /\ page'.active = TRUE
      /\ status' = "active" /\ fresh' = TRUE /\ idle' = 0
  BY <1>1, RelayPageOpens DEF IrToRelay
<1>3. TypeOK'
  BY <1>1, <1>2, Constants DEF IInv, TypeOK, IrToRelay, timePage, budget
<1> QED BY <1>2, <1>3, Constants DEF IInv, IrToRelay, ShownIsEdited, OnRelayPage, timePage

LEMMA RelayTickInv ==
  ASSUME IInv, RelayTick
  PROVE  IInv'
<1>1. page \in Page /\ page.timeout < Timeout /\ idle = page.timeout
  BY DEF IInv, TypeOK, RelayTick
<1>2. /\ page' \in Page /\ page'.timeout = page.timeout + 1
      /\ page'.relay = page.relay /\ page'.unit = page.unit /\ page'.active = page.active
  <2>1. page.timeout \in 0 .. Timeout /\ page.timeout + 1 \in Ticks
    BY <1>1 DEF Page, Ticks
  <2> QED BY <1>1, <2>1 DEF RelayTick, Page
<1>3. idle' = page'.timeout /\ idle' \in Ticks /\ page'.timeout \in Int
  BY <1>1, <1>2 DEF RelayTick, Page, Ticks
<1>4. CASE page'.timeout >= Timeout
  <2>1. table' \in [Relays -> [Weekday -> Plan]] /\ status' = "none"
    BY <1>4, StorePageFits DEF RelayTick
  <2>2. TypeOK'
    BY <1>2, <1>3, <1>4, <2>1
       DEF IInv, TypeOK, RelayTick, NotShown, Post, timePage, budget
  <2> QED BY <2>1, <2>2 DEF IInv, RelayTick, ShownIsEdited, OnRelayPage, timePage
<1>5. CASE ~(page'.timeout >= Timeout)
  <2>1. TypeOK'
    BY <1>2, <1>3, <1>5 DEF IInv, TypeOK, RelayTick, timePage, budget
  <2>2. page'.timeout < Timeout
    BY <1>3, <1>5
  <2> QED BY <1>2, <1>3, <1>5, <2>1, <2>2
          DEF IInv, RelayTick, ShownIsEdited, OnRelayPage, timePage
<1> QED BY <1>4, <1>5

LEMMA TimeTickInv ==
  ASSUME IInv, TimeTick
  PROVE  IInv'
<1>1. timeout \in Ticks /\ timeout < Timeout
  BY DEF IInv, TypeOK
<1>2. CASE timeout + 1 >= Timeout
  <2>1. TypeOK'
    BY <1>2, Constants
       DEF IInv, TypeOK, TimeTick, LeaveTimePage, Unit, Post, history, budget
  <2> QED BY <1>2, <2>1, Constants, TimesFit
          DEF IInv, TimeTick, LeaveTimePage, ShownIsEdited, OnRelayPage
<1>3. CASE ~(timeout + 1 >= Timeout)
  <2>1. timeout' \in Ticks /\ timeout' < Timeout
    BY <1>1, <1>3 DEF TimeTick, Ticks
  <2>2. TypeOK'
    BY <1>3, <2>1 DEF IInv, TypeOK, TimeTick, history, budget
  <2> QED BY <1>3, <2>1, <2>2 DEF IInv, TimeTick, ShownIsEdited, OnRelayPage
<1> QED BY <1>2, <1>3

\* Instructions, the clock and the ends of sequences leave the pages alone.
LEMMA OthersInv ==
  ASSUME IInv, SetPlan \/ SetTime \/ Reset \/ Delay \/ PeriodicPost \/ ClockRuns
  PROVE  IInv'
<1>1. /\ UNCHANGED <<status, page, timePage, idle>>
      /\ {in_delay', unsaved', fresh'} \subseteq BOOLEAN
  BY DEF IInv, TypeOK, SetPlan, SetTime, Reset, Delay, PeriodicPost, ClockRuns, Instruct,
         Post, history
<1>2. edits' \in 0 .. MaxEdits /\ calls' \in 0 .. MaxCalls
  BY DEF IInv, TypeOK, SetPlan, SetTime, Reset, Delay, PeriodicPost, ClockRuns, Instruct,
         budget
<1>3. table' \in [Relays -> [Weekday -> Plan]]
  BY Constants DEF IInv, TypeOK, SetPlan, SetTime, Reset, Delay, PeriodicPost, ClockRuns
<1>4. rtc' \in Clock /\ IsDate(rtc')
  BY TimesFit, ClockKeepsDates
     DEF IInv, SetPlan, SetTime, Reset, Delay, PeriodicPost, ClockRuns
<1>5. TypeOK'
  BY <1>1, <1>2, <1>3 DEF IInv, TypeOK, timePage
<1> QED BY <1>1, <1>4, <1>5 DEF IInv, ShownIsEdited, OnRelayPage, timePage

-----------------------------------------------------------------------------
(* Invariants *)

LEMMA InitInv == Init => IInv
<1> SUFFICES ASSUME Init PROVE IInv
  OBVIOUS
<1>1. page \in Page
  <2>1. 0 \in 0 .. 7 /\ "year" \in Unit
    BY DEF Unit
  <2> QED BY <2>1, Constants DEF Init, Page
<1>2. table \in [Relays -> [Weekday -> Plan]]
  BY Constants DEF Init
<1>3. edits \in 0 .. MaxEdits /\ calls \in 0 .. MaxCalls /\ "year" \in Unit
  BY DEF Init, Unit
<1>4. TypeOK
  BY <1>1, <1>2, <1>3, Constants DEF Init, TypeOK
<1> QED BY <1>4, Constants, TimesFit DEF Init, IInv, ShownIsEdited, OnRelayPage

LEMMA NextInv == IInv /\ [Next]_vars => IInv'
<1> SUFFICES ASSUME IInv, [Next]_vars PROVE IInv'
  OBVIOUS
<1>1. ASSUME NEW r \in Relays, AdOpen(r) PROVE IInv'
  BY <1>1, AdOpenInv
<1>2. CASE KeyOpensTime
  BY <1>2, KeyOpensTimeInv
<1>3. CASE TimeEdit \/ TimeUnit \/ TimeClose
  BY <1>3, TimeEditInv, TimeUnitInv, TimeCloseInv
<1>4. ASSUME NEW k \in 0 .. 7, TimeToRelay(k) PROVE IInv'
  BY <1>4, TimeToRelayInv
<1>5. ASSUME NEW ad \in BOOLEAN, PageEdit(ad) \/ PageUnit(ad) PROVE IInv'
  BY <1>5, PageEditInv, PageUnitInv
<1>6. CASE AdClose \/ IrClose \/ IrToTime
  BY <1>6, AdCloseInv, IrCloseInv, IrToTimeInv
<1>7. ASSUME NEW k \in Relays, IrToRelay(k) PROVE IInv'
  BY <1>7, IrToRelayInv
<1>8. CASE Tick
  BY <1>8, RelayTickInv, TimeTickInv DEF Tick
<1>9. CASE SetPlan \/ SetTime \/ Reset \/ Delay \/ PeriodicPost \/ ClockRuns
  BY <1>9, OthersInv
<1>10. CASE UNCHANGED vars
  <2>1. TypeOK'
    BY <1>10 DEF IInv, TypeOK, vars, timePage, history, budget
  <2> QED BY <1>10, <2>1 DEF IInv, ShownIsEdited, OnRelayPage, vars, timePage, history
<1> QED BY <1>1, <1>2, <1>3, <1>4, <1>5, <1>6, <1>7, <1>8, <1>9, <1>10 DEF Next, Key

LEMMA AlwaysIInv == Spec => []IInv
BY InitInv, NextInv, PTL DEF Spec

\* Every page, plan and count has its type, whatever keys come in what order.
THEOREM PageTypes == Spec => []TypeOK
<1>1. IInv => TypeOK
  BY DEF IInv
<1> QED BY <1>1, AlwaysIInv, PTL

\* The time on the display is always the one that keys edit: sequencer_status
\* and flag_is_setting_active_time agree at every step.
THEOREM DisplayFollowsEdit == Spec => []ShownIsEdited
<1>1. IInv => ShownIsEdited
  BY DEF IInv
<1> QED BY <1>1, AlwaysIInv, PTL

\* No key, instruction or minute puts a time into the clock, or on the page of
\* the clock, that the calendar does not have.
THEOREM ClockIsDate == Spec => []TimesAreDates
<1>1. IInv => TimesAreDates
  BY DEF IInv, TimesAreDates
<1> QED BY <1>1, AlwaysIInv, PTL

\* Of all the ways out of a page only the long key of relay 7 is without a post.
THEOREM OthersPost == Spec => []OnlySeventhWaits
<1>1. Init => OnlySeventhWaits
  BY DEF Init, OnlySeventhWaits
<1>2. OnlySeventhWaits /\ [Next]_vars => OnlySeventhWaits'
  <2> SUFFICES ASSUME OnlySeventhWaits, [Next]_vars PROVE OnlySeventhWaits'
    OBVIOUS
  <2> USE DEF OnlySeventhWaits
  <2>1. ASSUME NEW r \in Relays, AdOpen(r) PROVE OnlySeventhWaits'
    BY <2>1 DEF AdOpen, OpenRelayPage
  <2>2. CASE KeyOpensTime
    BY <2>2 DEF KeyOpensTime, OpenTimePage
  <2>3. CASE TimeEdit \/ TimeUnit \/ TimeClose
    BY <2>3 DEF TimeEdit, TimeUnit, TimeClose, Post
  <2>4. ASSUME NEW k \in 0 .. 7, TimeToRelay(k) PROVE OnlySeventhWaits'
    BY <2>4 DEF TimeToRelay, OpenRelayPage
  <2>5. ASSUME NEW ad \in BOOLEAN, PageEdit(ad) \/ PageUnit(ad) PROVE OnlySeventhWaits'
    BY <2>5 DEF PageEdit, PageUnit, PrevUnit, NextUnit, OnRelayPage
  <2>6. CASE AdClose
    BY <2>6 DEF AdClose, Post
  <2>7. CASE IrClose \/ IrToTime
    BY <2>7 DEF IrClose, IrToTime, Post
  <2>8. ASSUME NEW k \in Relays, IrToRelay(k) PROVE OnlySeventhWaits'
    BY <2>8 DEF IrToRelay, OpenRelayPage
  <2>9. CASE Tick
    BY <2>9 DEF Tick, RelayTick, TimeTick, OnRelayPage, Post
  <2>10. CASE SetPlan \/ SetTime \/ Reset \/ Delay \/ PeriodicPost \/ ClockRuns
    BY <2>10 DEF SetPlan, SetTime, Reset, Delay, PeriodicPost, ClockRuns, Instruct, Post
  <2>11. CASE UNCHANGED vars
    BY <2>11 DEF vars
  <2> QED BY <2>1, <2>2, <2>3, <2>4, <2>5, <2>6, <2>7, <2>8, <2>9, <2>10, <2>11
          DEF Next, Key
<1> QED BY <1>1, <1>2, PTL DEF Spec

-----------------------------------------------------------------------------
(* Leaving a page *)

\* A step that leaves a relay page stores it, and only AD keys, the remote
\* control and the time-out leave it.
LEMMA LeavingStep ==
  ASSUME IInv, Next, LeavesRelayPage
  PROVE  StorePage /\ idle' \in {0, Timeout}
<1> USE DEF LeavesRelayPage
<1>1. ASSUME NEW r \in Relays, AdOpen(r) PROVE FALSE
  BY <1>1 DEF AdOpen, OnRelayPage
<1>2. ASSUME KeyOpensTime \/ TimeEdit \/ TimeUnit \/ TimeClose PROVE FALSE
  BY <1>2 DEF KeyOpensTime, TimeEdit, TimeUnit, TimeClose, OnRelayPage
<1>3. ASSUME NEW k \in 0 .. 7, TimeToRelay(k) PROVE FALSE
  BY <1>3 DEF TimeToRelay, OnRelayPage
<1>4. ASSUME NEW ad \in BOOLEAN, PageEdit(ad) PROVE FALSE
  <2>1. page'.relay = page.relay
    BY <1>4, EditedIsPage DEF IInv, TypeOK, ShownIsEdited, PageEdit
  <2> QED BY <1>4, <2>1 DEF PageEdit, OnRelayPage
<1>5. ASSUME NEW ad \in BOOLEAN, PageUnit(ad) PROVE FALSE
  <2>1. page'.relay = page.relay
    BY <1>5 DEF IInv, TypeOK, Page, PageUnit, PrevUnit, NextUnit
  <2> QED BY <1>5, <2>1 DEF PageUnit, PrevUnit, NextUnit, OnRelayPage
<1>6. CASE AdClose \/ IrClose \/ IrToTime
  BY <1>6 DEF AdClose, IrClose, IrToTime
<1>7. CASE \E k \in Relays : IrToRelay(k)
  BY <1>7 DEF IrToRelay, OpenRelayPage
<1>8. CASE RelayTick
  <2>1. /\ page.timeout \in Int /\ page.timeout < Timeout /\ idle = page.timeout
        /\ page'.timeout = page.timeout + 1 /\ page'.relay = page.relay
    BY <1>8 DEF IInv, TypeOK, Page, Ticks, RelayTick
  <2>2. page'.timeout >= Timeout
    BY <1>8, <2>1 DEF RelayTick, OnRelayPage
  <2> QED BY <1>8, <2>1, <2>2 DEF RelayTick
<1>9. ASSUME TimeTick PROVE FALSE
  BY <1>9 DEF TimeTick, OnRelayPage
<1>10. ASSUME SetPlan \/ SetTime \/ Reset \/ Delay \/ PeriodicPost \/ ClockRuns PROVE FALSE
  BY <1>10 DEF SetPlan, SetTime, Reset, Delay, PeriodicPost, ClockRuns, Instruct, OnRelayPage
<1> QED BY <1>1, <1>2, <1>3, <1>4, <1>5, <1>6, <1>7, <1>8, <1>9, <1>10 DEF Next, Key, Tick

LEMMA StoredIs ==
  ASSUME IInv, OnRelayPage, StorePage
  PROVE  /\ page.relay \in Relays
         /\ \A r \in Relays \ {page.relay} : table'[r] = table[r]
         /\ table'[page.relay] = [d \in Weekday |->
              [on |-> page.on, off |-> page.off, secs |-> table[page.relay][d].secs,
               enable |-> page.on # Midnight \/ page.off # Midnight]]
<1>1. page.relay \in Relays /\ table \in [Relays -> [Weekday -> Plan]]
  BY DEF IInv, TypeOK, ShownIsEdited
<1> QED BY <1>1 DEF StorePage, Stored

\* Whatever way leads out of a page, what the page shows has become the plan of
\* every weekday, and the time shown is the clock's.
THEOREM LeavingAlwaysStores == Spec => LeavingStores
<1>1. ASSUME IInv, Next, LeavesRelayPage
      PROVE  \A d \in Weekday :
               LET p == table'[page.relay][d]
               IN  /\ p.on = page.on /\ p.off = page.off
                   /\ p.enable = (page.on # Midnight \/ page.off # Midnight)
  BY <1>1, LeavingStep, StoredIs DEF LeavesRelayPage
<1>2. ASSUME Next, status = "sys_time", status' = "none"
      PROVE  rtc' = setting
  <2>1. CASE TimeClose \/ TimeTick
    BY <1>2, <2>1 DEF TimeClose, TimeTick
  <2>2. ASSUME Key, ~TimeClose PROVE FALSE
    BY <1>2, <2>2 DEF Key, AdOpen, KeyOpensTime, TimeEdit, TimeUnit, TimeToRelay, PageEdit,
         PageUnit, AdClose, IrClose, IrToTime, IrToRelay, OnRelayPage, OpenRelayPage
  <2>3. ASSUME RelayTick PROVE FALSE
    BY <1>2, <2>3 DEF RelayTick, OnRelayPage
  <2>4. ASSUME SetPlan \/ SetTime \/ Reset \/ Delay \/ PeriodicPost \/ ClockRuns PROVE FALSE
    BY <1>2, <2>4 DEF SetPlan, SetTime, Reset, Delay, PeriodicPost, ClockRuns, Instruct
  <2> QED BY <1>2, <2>1, <2>2, <2>3, <2>4 DEF Next, Tick
<1> DEFINE Stores ==
      /\ LeavesRelayPage =>
           \A d \in Weekday :
             LET p == table'[page.relay][d]
             IN  /\ p.on = page.on /\ p.off = page.off
                 /\ p.enable = (page.on # Midnight \/ page.off # Midnight)
      /\ status = "sys_time" /\ status' = "none" => rtc' = setting
<1>3. IInv /\ [Next]_vars => [Stores]_vars
  BY <1>1, <1>2
<1> QED BY <1>3, AlwaysIInv, PTL DEF Spec, LeavingStores

\* No relay page closes before the full time-out has passed since the last key.
THEOREM PagesStayOpen == Spec => StaysOpen
<1> DEFINE Stays == OnRelayPage /\ status' = "none" => idle' \in {0, Timeout}
<1>1. IInv /\ [Next]_vars => [Stays]_vars
  BY LeavingStep DEF LeavesRelayPage
<1> QED BY <1>1, AlwaysIInv, PTL DEF Spec, StaysOpen

-----------------------------------------------------------------------------
(* Only viewing a page *)

\* A plan that is not enabled is empty, and a page that nobody has changed
\* shows the plan that it would be opened with now.
ViewInv ==
  /\ \A r \in Relays, d \in Weekday :
       ~table[r][d].enable => table[r][d].on = Midnight /\ table[r][d].off = Midnight
  /\ fresh /\ OnRelayPage => /\ page.on = Shown(table, page.relay).on
                             /\ page.off = Shown(table, page.relay).off

\* What a page shows depends on the plans of its relay alone.
LEMMA ShownOfRelay ==
  ASSUME NEW s, NEW t, NEW r, s[r] = t[r]
  PROVE  Shown(s, r) = Shown(t, r)
BY DEF Shown, Enabled

LEMMA NoPlanShown ==
  ASSUME NEW r, NEW t, Enabled(t, r) = {}
  PROVE  Shown(t, r).on = Midnight /\ Shown(t, r).off = Midnight
BY DEF Shown, NoPlan

LEMMA OpenedShows ==
  ASSUME NEW t, NEW r, OpenRelayPage(t, r)
  PROVE  /\ page'.relay = r
         /\ page'.on = Shown(t, r).on /\ page'.off = Shown(t, r).off
BY DEF OpenRelayPage, Opened

\* Storing a page leaves no plan that is disabled and not empty.
LEMMA StoringKeepsEmpty ==
  ASSUME IInv, ViewInv, OnRelayPage, StorePage
  PROVE  \A r \in Relays, d \in Weekday :
           ~table'[r][d].enable => table'[r][d].on = Midnight /\ table'[r][d].off = Midnight
<1>1. \A d \in Weekday : ~table'[page.relay][d].enable =>
        table'[page.relay][d].on = Midnight /\ table'[page.relay][d].off = Midnight
  <2> SUFFICES ASSUME NEW d \in Weekday, ~table'[page.relay][d].enable
               PROVE  table'[page.relay][d].on = Midnight /\ table'[page.relay][d].off = Midnight
    OBVIOUS
  <2>1. table'[page.relay][d] =
          [on |-> page.on, off |-> page.off, secs |-> table[page.relay][d].secs,
           enable |-> page.on # Midnight \/ page.off # Midnight]
    BY StoredIs
  <2>2. /\ table'[page.relay][d].enable = (page.on # Midnight \/ page.off # Midnight)
        /\ table'[page.relay][d].on = page.on /\ table'[page.relay][d].off = page.off
    BY <2>1
  <2> QED BY <2>2
<1>2. \A r \in Relays : r # page.relay => table'[r] = table[r]
  BY StoredIs
<1> SUFFICES ASSUME NEW r \in Relays, NEW d \in Weekday, ~table'[r][d].enable
             PROVE  table'[r][d].on = Midnight /\ table'[r][d].off = Midnight
  OBVIOUS
<1>3. CASE r = page.relay
  BY <1>1, <1>3
<1>4. CASE r # page.relay
  <2>1. table'[r][d] = table[r][d]
    BY <1>2, <1>4
  <2>2. ~table[r][d].enable => table[r][d].on = Midnight /\ table[r][d].off = Midnight
    BY DEF ViewInv
  <2> QED BY <2>1, <2>2, Zenon
<1> QED BY <1>3, <1>4

LEMMA ViewNext ==
  ASSUME IInv, ViewInv, [Next]_vars
  PROVE  ViewInv'
<1>1. ASSUME NEW r \in Relays, AdOpen(r) PROVE ViewInv'
  BY <1>1, OpenedShows DEF AdOpen, ViewInv
<1>2. CASE KeyOpensTime \/ TimeEdit \/ TimeUnit \/ TimeClose
  BY <1>2 DEF ViewInv, KeyOpensTime, OpenTimePage, TimeEdit, TimeUnit, TimeClose, OnRelayPage
<1>3. ASSUME NEW k \in 0 .. 7, TimeToRelay(k) PROVE ViewInv'
  BY <1>3, OpenedShows DEF TimeToRelay, ViewInv
<1>4. ASSUME NEW ad \in BOOLEAN, PageEdit(ad) PROVE ViewInv'
  BY <1>4 DEF PageEdit, ViewInv
<1>5. ASSUME NEW ad \in BOOLEAN, PageUnit(ad) PROVE ViewInv'
  <2>1. page'.on = page.on /\ page'.off = page.off /\ page'.relay = page.relay
    BY <1>5 DEF IInv, TypeOK, Page, PageUnit, PrevUnit, NextUnit
  <2>2. OnRelayPage /\ UNCHANGED <<table, fresh>>
    BY <1>5 DEF PageUnit
  <2> QED BY <2>1, <2>2 DEF ViewInv
<1>6. CASE AdClose \/ IrClose \/ IrToTime
  <2>1. OnRelayPage /\ StorePage /\ fresh' = FALSE
    BY <1>6 DEF AdClose, IrClose, IrToTime, NotShown
  <2> QED BY <2>1, StoringKeepsEmpty DEF ViewInv
<1>7. ASSUME NEW k \in Relays, IrToRelay(k) PROVE ViewInv'
  <2>1. OnRelayPage /\ StorePage /\ OpenRelayPage(table', k)
    BY <1>7 DEF IrToRelay
  <2> QED BY <2>1, StoringKeepsEmpty, OpenedShows DEF ViewInv
<1>8. CASE RelayTick
  <2>1. CASE page'.timeout >= Timeout
    <3>1. OnRelayPage /\ StorePage /\ fresh' = FALSE
      BY <1>8, <2>1 DEF RelayTick, NotShown
    <3> QED BY <3>1, StoringKeepsEmpty DEF ViewInv
  <2>2. CASE ~(page'.timeout >= Timeout)
    <3>1. page'.on = page.on /\ page'.off = page.off /\ page'.relay = page.relay
      BY <1>8 DEF IInv, TypeOK, Page, RelayTick
    <3> QED BY <1>8, <2>2, <3>1 DEF RelayTick, ViewInv, OnRelayPage
  <2> QED BY <2>1, <2>2
<1>9. CASE TimeTick
  <2>1. ~OnRelayPage /\ ~OnRelayPage' /\ UNCHANGED table
    BY <1>9 DEF TimeTick, OnRelayPage
  <2> QED BY <2>1 DEF ViewInv
<1>10. CASE SetPlan
  <2>1. PICK r \in Relays, d \in Weekday, p \in Plans \cup {NoPlan} :
          table' = [table EXCEPT ![r][d] = p] /\ fresh' = (fresh /\ page.relay # r)
    BY <1>10 DEF SetPlan
  <2>2. ~p.enable => p.on = Midnight /\ p.off = Midnight
    <3>1. CASE p = NoPlan
      BY <3>1 DEF NoPlan
    <3>2. CASE p \in Plans
      BY <3>2
    <3> QED BY <3>1, <3>2
  <2>3. table \in [Relays -> [Weekday -> Plan]] /\ UNCHANGED <<status, page>>
    BY <1>10 DEF IInv, TypeOK, SetPlan, Instruct
  <2>4. \A s \in Relays, e \in Weekday : table'[s][e] = table[s][e] \/ table'[s][e] = p
    BY <2>1, <2>3
  <2>5. ASSUME fresh', OnRelayPage'
        PROVE  page'.on = Shown(table', page.relay).on
               /\ page'.off = Shown(table', page.relay).off
    <3>1. fresh /\ page.relay # r /\ OnRelayPage
      BY <2>1, <2>3, <2>5 DEF OnRelayPage
    <3>2. page.relay \in Relays
      BY <3>1 DEF IInv, ShownIsEdited
    <3>3. table'[page.relay] = table[page.relay]
      BY <2>1, <2>3, <3>1, <3>2
    <3> QED BY <2>3, <3>1, <3>3, ShownOfRelay DEF ViewInv
  <2> QED BY <2>2, <2>3, <2>4, <2>5 DEF ViewInv
<1>11. CASE Reset
  <2>1. fresh' = FALSE /\ table' = [r \in Relays |-> [d \in Weekday |-> NoPlan]]
    BY <1>11 DEF Reset
  <2> QED BY <2>1, Constants DEF ViewInv
<1>12. CASE SetTime \/ Delay \/ PeriodicPost \/ ClockRuns
  <2>1. UNCHANGED <<table, page, status, fresh>>
    BY <1>12 DEF SetTime, Delay, PeriodicPost, ClockRuns, Instruct, history
  <2> QED BY <2>1 DEF ViewInv, OnRelayPage
<1>13. CASE UNCHANGED vars
  BY <1>13 DEF ViewInv, OnRelayPage, vars, history
<1> QED BY <1>1, <1>2, <1>3, <1>4, <1>5, <1>6, <1>7, <1>8, <1>9, <1>10, <1>11, <1>12, <1>13
        DEF Next, Key, Tick

\* What is stored of a page nobody has changed is what the week already had.
LEMMA ViewedIsStored ==
  ASSUME IInv, ViewInv, OnRelayPage, StorePage, fresh, Uniform(page.relay)
  PROVE  table' = table
<1> DEFINE r == page.relay
<1>0. /\ r \in Relays /\ table \in [Relays -> [Weekday -> Plan]]
      /\ table' \in [Relays -> [Weekday -> Plan]]
  BY StorePageFits DEF IInv, TypeOK, ShownIsEdited
<1>1. page.on = Shown(table, r).on /\ page.off = Shown(table, r).off
  BY DEF ViewInv
<1> HIDE DEF r
<1>2. ASSUME NEW d \in Weekday
      PROVE  /\ page.on = table[r][d].on /\ page.off = table[r][d].off
             /\ table[r][d].enable = (page.on # Midnight \/ page.off # Midnight)
  <2>1. \A e \in Weekday : table[r][e] = table[r][d] /\ table[r][d] \in Plan
    <3>1. \A e \in Weekday : table[r][e] = table[r][0]
      BY DEF Uniform, r
    <3> QED BY <1>0, <3>1
  <2>2. CASE table[r][d].enable
    <3>1. d \in Enabled(table, r) /\ Enabled(table, r) \in SUBSET Weekday
      BY <2>2 DEF Enabled
    <3>2. PICK e \in Weekday : Shown(table, r) = table[r][e]
      BY <3>1, FirstDay DEF Shown
    <3>3. table[r][d].on # Midnight \/ table[r][d].off # Midnight
      BY <2>2 DEF Uniform, r
    <3> QED BY <1>1, <2>1, <2>2, <3>2, <3>3
  <2>3. CASE ~table[r][d].enable
    <3>1. Enabled(table, r) = {}
      BY <2>1, <2>3 DEF Enabled
    <3>2. page.on = Midnight /\ page.off = Midnight
      BY <1>1, <3>1, NoPlanShown
    <3>3. table[r][d].on = Midnight /\ table[r][d].off = Midnight
      BY <1>0, <2>3 DEF ViewInv
    <3>4. table[r][d].enable \in BOOLEAN
      BY <2>1 DEF Plan
    <3> QED BY <2>3, <3>2, <3>3, <3>4
  <2> QED BY <2>2, <2>3
<1>3. ASSUME NEW d \in Weekday PROVE table'[r][d] = table[r][d]
  <2>1. table'[r][d] = [on |-> page.on, off |-> page.off, secs |-> table[r][d].secs,
                        enable |-> page.on # Midnight \/ page.off # Midnight]
    BY StoredIs DEF r
  <2>2. table[r][d] \in Plan
    BY <1>0
  <2> QED BY <1>2, <2>1, <2>2 DEF Plan
<1>4. \A q \in Relays \ {r} : table'[q] = table[q]
  BY StoredIs DEF r
<1>5. table'[r] = table[r]
  BY <1>0, <1>3
<1> QED BY <1>0, <1>4, <1>5

\* Whoever opens a page on one plan for the whole week and leaves it again,
\* by any way out and with instructions to other relays in between, has changed
\* no plan.
THEOREM ViewingChangesNothing == Spec => ViewingIsHarmless
<1> DEFINE Harmless == LeavesRelayPage /\ fresh /\ Uniform(page.relay) => table' = table
<1>1. Init => ViewInv
  BY Constants DEF Init, ViewInv, OnRelayPage
<1>2. IInv /\ ViewInv /\ [Next]_vars => ViewInv'
  BY ViewNext
<1>3. IInv /\ ViewInv /\ [Next]_vars => [Harmless]_vars
  BY LeavingStep, ViewedIsStored DEF LeavesRelayPage
<1> QED BY <1>1, <1>2, <1>3, AlwaysIInv, PTL DEF Spec, ViewingIsHarmless
=============================================================================
