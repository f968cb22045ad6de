------------------------------- MODULE SysTime -------------------------------
(***************************************************************************)
(* Editing the system time on its setting page: user_sys_time.c.  A key    *)
(* moves one unit up or down to its limit, and user_setting_time_check_up  *)
(* brings the whole time back into the calendar.  The page has no seconds. *)
(***************************************************************************)
EXTENDS Integers

U8 == 0 .. 255

\* What the fields of user_sys_time_t can hold; nothing here comes near the
\* limit of the u16 that holds the year.
Clock == [year : Nat, month : U8, day : U8, hour : U8, min : U8]

Unit == {"year", "month", "day", "hour", "min"}

MonthDays == <<31, 28, 31, 30, 31, 30, 31, 31, 30, 31, 30, 31>>

IsLeapYear(y) == (y % 4 = 0 /\ y % 100 # 0) \/ y % 400 = 0

LastDay(y, m) ==
  IF m = 2 THEN IF IsLeapYear(y) THEN 29 ELSE 28 ELSE MonthDays[m]

\* user_time_is_valid.
IsValid(t) ==
  /\ t.year \in 2000 .. 2099
  /\ t.month \in 1 .. 12
  /\ t.day \in 1 .. LastDay(t.year, t.month)
  /\ t.hour \in 0 .. 23
  /\ t.min \in 0 .. 59

Between(x, low, high) == IF x < low THEN low ELSE IF x > high THEN high ELSE x

\* Mutant: the day is left as it is.
CheckUpKeepsDay(t) ==
  IF IsValid(t) THEN t
  ELSE [year |-> Between(t.year, 2000, 2099), month |-> Between(t.month, 1, 12),
        day |-> Between(t.day, 1, 31),
        hour |-> Between(t.hour, 0, 23), min |-> Between(t.min, 0, 59)]

\* user_setting_time_check_up.
CheckUp(t) ==
  IF IsValid(t) THEN t
  ELSE LET y == Between(t.year, 2000, 2099)
           m == Between(t.month, 1, 12)
       IN [year |-> y, month |-> m, day |-> Between(t.day, 1, LastDay(y, m)),
           hour |-> Between(t.hour, 0, 23), min |-> Between(t.min, 0, 59)]

Least == [year |-> 2000, month |-> 1, day |-> 1, hour |-> 0, min |-> 0]
Most  == [year |-> 2099, month |-> 12, day |-> 31, hour |-> 23, min |-> 59]

\* user_setting_time_param_add and user_setting_time_param_sub.
Add(t, u) == CheckUp([t EXCEPT ![u] = IF @ < Most[u] THEN @ + 1 ELSE @])
Sub(t, u) == CheckUp([t EXCEPT ![u] = IF @ > Least[u] THEN @ - 1 ELSE Least[u]])

-----------------------------------------------------------------------------
(* The Gregorian calendar, counted in days: what the table and the leap     *)
(* rule above must agree with.                                              *)

DaysBefore(y) == 365 * y + ((y - 1) \div 4) - ((y - 1) \div 100) + ((y - 1) \div 400)

CalendarDays(y, m) ==
  IF m = 2 THEN DaysBefore(y + 1) - DaysBefore(y) - 337
           ELSE 30 + ((m + (m \div 8)) % 2)

\* The time is one that a calendar has.
IsDate(t) ==
  /\ t.year \in 2000 .. 2099 /\ t.month \in 1 .. 12
  /\ t.day \in 1 .. CalendarDays(t.year, t.month)
  /\ t.hour \in 0 .. 23 /\ t.min \in 0 .. 59
=============================================================================
