----------------------------- MODULE SettingPages -----------------------------
(***************************************************************************)
(* The setting pages: one for the system time and one for the plan of each *)
(* relay.  Keys of three kinds (the IO key, the AD keys under the display, *)
(* the infrared remote control) and a time-out move between the pages, and *)
(* which page is shown is the global sequencer_status.  Keys and the 10 ms *)
(* display handler all run in app_core, so each is one step; instructions  *)
(* change plans and clock from user_task while a page is open.             *)
(*                                                                         *)
(* A key that its handler ignores is a step that changes nothing.  Keys    *)
(* that switch relays or start sequences are in Sequencer.                 *)
(***************************************************************************)
EXTENDS SysTime

CONSTANTS
  Relays,       \* the relays with a page: some of 0 .. 7
  Days,         \* weekdays; 0 is Sunday
  HourMax,      \* the last hour of a plan: 23
  MinMax,       \* the last minute of a plan: 59
  Timeout,      \* ticks until a page closes: 1000
  Times,        \* times at start and in instructions
  Plans,        \* plans in instructions
  MaxEdits,     \* bound of the number of values changed by key
  MaxCalls      \* bound of the number of changes from outside

HourMinute == [hour : 0 .. HourMax, min : 0 .. MinMax]
Midnight   == [hour |-> 0, min |-> 0]

Plan == [on : HourMinute, off : HourMinute,
         secs : BOOLEAN,    \* its seconds are not both zero
         enable : BOOLEAN]

ASSUME SizeAssumption ==
  /\ Relays \subseteq 0 .. 7 /\ Days \in 1 .. 7
  /\ {HourMax, MinMax} \subseteq Nat /\ Timeout \in Nat \ {0}
  /\ {MaxEdits, MaxCalls} \subseteq Nat
ASSUME InputAssumption ==
  /\ Times \subseteq Clock /\ \A t \in Times : IsValid(t)
  /\ Plans \subseteq Plan
  /\ \A p \in Plans : p.enable = (p.on # Midnight \/ p.off # Midnight \/ p.secs)

Weekday == 0 .. Days-1
Ticks   == 0 .. Timeout
Page    == [relay : 0 .. 7, unit : Unit, active : BOOLEAN, timeout : Ticks,
            on : HourMinute, off : HourMinute]

VARIABLES
  status,     \* sequencer_status
  page,       \* lcd_setting_relay_schedule
  setting,    \* cur_setting_sys_time
  unit,       \* lcd_setting_sys_time.cur_setting_time_unit
  timeout,    \* lcd_setting_sys_time.timeout_cnt
  table,      \* weekly_schedule_relay[relay].schedule[weekday]
  rtc,        \* the clock
  in_delay,   \* is_sequencer_in_delay()
  unsaved,    \* history: plans or clock were set since the last post
  fresh,      \* history: a relay page shows what it was opened with, and no
              \* instruction has changed the relay's plans since
  idle,       \* history: ticks of the relay page since a key changed it
  edits, calls

timePage == <<setting, unit, timeout>>
history  == <<fresh, idle>>
budget   == <<edits, calls>>
vars == <<status, page, timePage, table, rtc, in_delay, unsaved, history, budget>>

-----------------------------------------------------------------------------
(* Plans *)

NoPlan == [on |-> Midnight, off |-> Midnight, secs |-> FALSE, enable |-> FALSE]

\* weekly_schedule_relay_set: seconds stay as they were.
Stored(r, p) ==
  [table EXCEPT ![r] = [d \in Weekday |->
     [on |-> p.on, off |-> p.off, secs |-> @[d].secs,
      enable |-> p.on # Midnight \/ p.off # Midnight]]]

Enabled(tbl, r) == {d \in Weekday : tbl[r][d].enable}

\* Mutant: the page opens with empty times.
ShownNothing(tbl, r) == NoPlan

\* The plan of the first weekday that has one.
Shown(tbl, r) ==
  IF Enabled(tbl, r) = {} THEN NoPlan
  ELSE tbl[r][CHOOSE d \in Enabled(tbl, r) : \A e \in Enabled(tbl, r) : d <= e]

\* Mutant: the count of the time-out is not set back.
OpenedKeepsTimeout(tbl, r) ==
  [relay |-> r, unit |-> "hour", active |-> TRUE, timeout |-> page.timeout,
   on |-> Shown(tbl, r).on, off |-> Shown(tbl, r).off]

\* lcd_setting_relay_active_constructor; of the plan the page keeps, nothing
\* but hours and minutes is ever read.
Opened(tbl, r) ==
  [relay |-> r, unit |-> "hour", active |-> TRUE, timeout |-> 0,
   on |-> Shown(tbl, r).on, off |-> Shown(tbl, r).off]

Init ==
  /\ status = "none"
  /\ page = [relay |-> 0, unit |-> "year", active |-> FALSE, timeout |-> 0,
             on |-> Midnight, off |-> Midnight]
  /\ setting = Least /\ unit = "year" /\ timeout = 0
  /\ table = [r \in Relays |-> [d \in Weekday |-> NoPlan]]
  /\ rtc \in Times
  /\ in_delay = FALSE /\ unsaved = FALSE
  /\ fresh = FALSE /\ idle = 0
  /\ edits = 0 /\ calls = 0

OnRelayPage == status \in {"active", "deactive"}

\* A post that will save what is now set.
Post == unsaved' = FALSE

-----------------------------------------------------------------------------
(* Opening a page *)

OpenRelayPage(tbl, r) ==
  /\ page' = Opened(tbl, r)
  /\ status' = "active"
  /\ fresh' = TRUE /\ idle' = 0

\* The seconds are set to zero, and so is nothing else: the time-out goes on
\* from where it was left.
OpenTimePage ==
  /\ setting' = rtc
  /\ unit' = "year"
  /\ status' = "sys_time"
  /\ UNCHANGED timeout

\* KEYr_AD_LONG in normal mode, with the device on or off.
AdOpen(r) ==
  /\ status = "none" /\ ~in_delay
  /\ OpenRelayPage(table, r)
  /\ Post
  /\ UNCHANGED <<timePage, table, rtc, in_delay, budget>>

\* KEY_IR_R1C3_CLICK and KEY_PROW_IO_LONG in normal mode.
KeyOpensTime ==
  /\ status = "none" /\ ~in_delay
  /\ OpenTimePage
  /\ idle' = 0
  /\ UNCHANGED <<page, table, rtc, in_delay, unsaved, fresh, budget>>

-----------------------------------------------------------------------------
(* The page of the system time *)

Units == <<"year", "month", "day", "hour", "min">>
Place(u) == CHOOSE i \in 1 .. 5 : Units[i] = u

\* Time and unit of a page that is left are not read again: OpenTimePage sets
\* both.  The model forgets them; the code keeps them.
LeaveTimePage ==
  /\ setting' = Least
  /\ unit' = "year"

\* AD keys 4 and 5, clicked or held, and KEY_IR_R3C1 and R3C2.
TimeEdit ==
  /\ status = "sys_time" /\ edits < MaxEdits
  /\ setting' \in {Add(setting, unit), Sub(setting, unit)}
  /\ timeout' = 0
  /\ edits' = edits + 1
  /\ UNCHANGED <<status, page, unit, table, rtc, in_delay, unsaved, history, calls>>

\* AD keys 6 and 7, clicked or long, and KEY_IR_R4C1 and R4C2; there is no
\* unit before the year and none after the minute.
TimeUnit ==
  /\ status = "sys_time"
  /\ \E i \in {Place(unit) - 1, Place(unit) + 1} :
       unit' = Units[Between(i, 1, 5)]
  /\ timeout' = 0
  /\ UNCHANGED <<status, page, setting, table, rtc, in_delay, unsaved, history, budget>>

\* KEY_IR_R1C3_CLICK, and KEY_PROW_IO_LONG unless the device is in a delay.
TimeClose ==
  /\ status = "sys_time"
  /\ rtc' = setting
  /\ status' = "none"
  /\ LeaveTimePage
  /\ Post
  /\ UNCHANGED <<page, timeout, table, in_delay, history, budget>>

\* The case of KEY_IR_R6C3 runs on into that of R7C1.
Reached(k) == IF k = 5 THEN 6 ELSE k

\* KEY_IR_R5C1 .. R7C2: a relay page opens, and the time is not stored.
TimeToRelay(k) ==
  /\ status = "sys_time"
  /\ Reached(k) \in Relays
  /\ OpenRelayPage(table, Reached(k))
  /\ LeaveTimePage
  /\ UNCHANGED <<timeout, table, rtc, in_delay, unsaved, budget>>

-----------------------------------------------------------------------------
(* The page of a relay's plan *)

Side(p) == IF p.active THEN "on" ELSE "off"

PlanMax(u) == IF u = "hour" THEN HourMax ELSE MinMax

\* Mutant: the hour and the minute have no upper limit.
RaisedAnyway(p) == [p EXCEPT ![Side(p)][p.unit] = @ + 1, !.timeout = 0]

\* lcd_setting_relay_time_param_add and lcd_setting_relay_time_param_sub
Raised(p)  == [p EXCEPT ![Side(p)][p.unit] = IF @ < PlanMax(p.unit) THEN @ + 1 ELSE @,
                        !.timeout = 0]

Lowered(p) == [p EXCEPT ![Side(p)][p.unit] = IF @ > 0 THEN @ - 1 ELSE 0,
                        !.timeout = 0]

\* lcd_setting_relay_time_unit_switch_to_prev: the page and the status
PrevUnit ==
  /\ page' = [page EXCEPT !.unit = IF @ = "min" \/ page.active THEN "hour" ELSE "min",
                          !.active = @ \/ page.unit = "hour",
                          !.timeout = 0]
  /\ status' = IF page.unit = "hour" /\ ~page.active THEN "active" ELSE status

\* Mutant: the other time is edited, but the page still shows this one.
NextUnitKeepsStatus(s) ==
  /\ page' = [page EXCEPT !.unit = IF @ = "hour" \/ ~page.active THEN "min" ELSE "hour",
                          !.active = @ /\ page.unit = "hour",
                          !.timeout = 0]
  /\ status' = s

\* lcd_setting_relay_time_unit_switch_to_next, where s is the status before
NextUnit(s) ==
  /\ page' = [page EXCEPT !.unit = IF @ = "hour" \/ ~page.active THEN "min" ELSE "hour",
                          !.active = @ /\ page.unit = "hour",
                          !.timeout = 0]
  /\ status' = IF page.unit = "min" /\ page.active THEN "deactive" ELSE s

\* AD keys post after every key they act on; the remote control does not.
EditPosts(ad) == unsaved' = (unsaved /\ ~ad)

\* AD keys 4 and 5 and KEY_IR_R3C1 and R3C2.  A key that is held is ignored on
\* its own relay's page, which it has just opened.
PageEdit(ad) ==
  /\ OnRelayPage /\ edits < MaxEdits
  /\ page' \in {Raised(page), Lowered(page)}
  /\ fresh' = FALSE /\ idle' = 0
  /\ edits' = edits + 1
  /\ EditPosts(ad)
  /\ UNCHANGED <<status, timePage, table, rtc, in_delay, calls>>

\* AD keys 6 and 7, clicked, and KEY_IR_R4C1 and R4C2.
PageUnit(ad) ==
  /\ OnRelayPage
  /\ PrevUnit \/ NextUnit(status)
  /\ idle' = 0
  /\ EditPosts(ad)
  /\ UNCHANGED <<timePage, table, rtc, in_delay, fresh, budget>>

\* The plan on the page becomes that of every weekday.
StorePage == table' = Stored(page.relay, page)

NotShown == fresh' = FALSE

\* KEYr_AD_LONG on the page of relay r.  KEY6_AD_LONG runs on into KEY7_AD_CLICK;
\* KEY7_AD_LONG runs on into the default, which returns before the post.
AdClose ==
  /\ OnRelayPage
  /\ StorePage
  /\ NotShown /\ idle' = 0
  /\ IF page.relay = 6 THEN NextUnit("none") ELSE status' = "none" /\ UNCHANGED page
  /\ IF page.relay = 7 THEN unsaved' = TRUE ELSE Post
  /\ UNCHANGED <<timePage, rtc, in_delay, budget>>

\* Mutant: nothing is posted.
IrCloseUnposted ==
  /\ OnRelayPage
  /\ StorePage
  /\ status' = "none"
  /\ NotShown /\ idle' = 0
  /\ unsaved' = TRUE
  /\ UNCHANGED <<page, timePage, rtc, in_delay, budget>>

\* KEY_IR_R1C3_CLICK
IrClose ==
  /\ OnRelayPage
  /\ StorePage
  /\ status' = "none"
  /\ NotShown /\ idle' = 0
  /\ Post
  /\ UNCHANGED <<page, timePage, rtc, in_delay, budget>>

\* KEY_IR_R2C3_CLICK
IrToTime ==
  /\ OnRelayPage
  /\ StorePage
  /\ Post
  /\ OpenTimePage
  /\ NotShown /\ idle' = 0
  /\ UNCHANGED <<page, rtc, in_delay, budget>>

\* Mutant: the plan on the page is left behind, as the time page does.
IrToRelayUnstored(k) ==
  /\ OnRelayPage
  /\ OpenRelayPage(table, k)
  /\ UNCHANGED <<timePage, table, rtc, in_delay, unsaved, budget>>

\* KEY_IR_R5C1 .. R7C2: stored, not posted.
IrToRelay(k) ==
  /\ OnRelayPage
  /\ StorePage
  /\ OpenRelayPage(table', k)
  /\ unsaved' = TRUE
  /\ UNCHANGED <<timePage, rtc, in_delay, budget>>

-----------------------------------------------------------------------------
(* The display handler, every 10 ms *)

\* Mutant: the page of the switch-off time has no time-out.
RelayTickActive ==
  /\ status = "active"
  /\ page' = [page EXCEPT !.timeout = @ + 1]
  /\ idle' = idle + 1
  /\ IF page'.timeout >= Timeout
       THEN StorePage /\ status' = "none" /\ Post /\ NotShown
       ELSE UNCHANGED <<table, status, unsaved, fresh>>
  /\ UNCHANGED <<timePage, rtc, in_delay, budget>>

RelayTick ==
  /\ OnRelayPage
  /\ page' = [page EXCEPT !.timeout = @ + 1]
  /\ idle' = idle + 1
  /\ IF page'.timeout >= Timeout
       THEN StorePage /\ status' = "none" /\ Post /\ NotShown
       ELSE UNCHANGED <<table, status, unsaved, fresh>>
  /\ UNCHANGED <<timePage, rtc, in_delay, budget>>

TimeTick ==
  /\ status = "sys_time"
  /\ IF timeout + 1 >= Timeout
       THEN timeout' = 0 /\ rtc' = setting /\ status' = "none" /\ LeaveTimePage /\ Post
       ELSE timeout' = timeout + 1 /\ UNCHANGED <<setting, unit, rtc, status, unsaved>>
  /\ UNCHANGED <<page, table, in_delay, history, budget>>

-----------------------------------------------------------------------------
(* user_task and the world *)

\* Instructions for this device; all of them are refused in a delay.
Instruct ==
  /\ ~in_delay /\ calls < MaxCalls
  /\ calls' = calls + 1
  /\ Post
  /\ UNCHANGED <<status, page, timePage, idle, edits>>

\* handle_set_relay_weekly_schedule and handle_cancel_relay_weekly_schedule
SetPlan ==
  /\ Instruct
  /\ \E r \in Relays, d \in Weekday, p \in Plans \cup {NoPlan} :
       /\ table' = [table EXCEPT ![r][d] = p]
       /\ fresh' = (fresh /\ page.relay # r)
  /\ UNCHANGED <<rtc, in_delay>>

\* handle_set_sys_time
SetTime ==
  /\ Instruct
  /\ rtc' \in Times
  /\ UNCHANGED <<table, in_delay, fresh>>

\* handle_reset_to_factory_setting; a device that is on starts a sequence.
Reset ==
  /\ Instruct
  /\ table' = [r \in Relays |-> [d \in Weekday |-> NoPlan]]
  /\ rtc' = Least
  /\ in_delay' \in BOOLEAN
  /\ fresh' = FALSE

\* Sequences start and end: see Sequencer.
Delay ==
  /\ in_delay' = ~in_delay
  /\ UNCHANGED <<status, page, timePage, table, rtc, unsaved, history, budget>>

\* user_sys_time_save_task
PeriodicPost ==
  /\ unsaved /\ Post
  /\ UNCHANGED <<status, page, timePage, table, rtc, in_delay, history, budget>>

NextDay(t) ==
  IF t.day < CalendarDays(t.year, t.month) THEN [t EXCEPT !.day = @ + 1]
  ELSE IF t.month < 12 THEN [t EXCEPT !.day = 1, !.month = @ + 1]
  ELSE [t EXCEPT !.day = 1, !.month = 1, !.year = @ + 1]

NextMinute(t) ==
  IF t.min < 59 THEN [t EXCEPT !.min = @ + 1]
  ELSE IF t.hour < 23 THEN [t EXCEPT !.min = 0, !.hour = @ + 1]
  ELSE NextDay([t EXCEPT !.min = 0, !.hour = 0])

\* The clock of the chip, until the last minute that the pages can show.
ClockRuns ==
  /\ calls < MaxCalls /\ rtc # Most
  /\ calls' = calls + 1
  /\ rtc' = NextMinute(rtc)
  /\ UNCHANGED <<status, page, timePage, table, in_delay, unsaved, history, edits>>

Key ==
  \/ \E r \in Relays : AdOpen(r)
  \/ KeyOpensTime
  \/ TimeEdit \/ TimeUnit \/ TimeClose
  \/ \E k \in 0 .. 7 : TimeToRelay(k)
  \/ \E ad \in BOOLEAN : PageEdit(ad) \/ PageUnit(ad)
  \/ AdClose \/ IrClose \/ IrToTime
  \/ \E k \in Relays : IrToRelay(k)

Tick == RelayTick \/ TimeTick

Next ==
  \/ Key \/ Tick
  \/ SetPlan \/ SetTime \/ Reset
  \/ Delay \/ PeriodicPost \/ ClockRuns

Spec == Init /\ [][Next]_vars

\* The display handler is called every 10 ms; user_task posts every 30 s.
FairSpec == Spec /\ WF_vars(Tick) /\ WF_vars(PeriodicPost)

-----------------------------------------------------------------------------
(* Properties *)

\* Types: every time on a page and in a plan is a time of day.
TypeOK ==
  /\ status \in {"none", "sys_time", "active", "deactive"}
  /\ page \in Page
  /\ unit \in Unit /\ timeout \in Ticks
  /\ table \in [Relays -> [Weekday -> Plan]]
  /\ {in_delay, unsaved, fresh} \subseteq BOOLEAN
  /\ idle \in Ticks
  /\ edits \in 0 .. MaxEdits /\ calls \in 0 .. MaxCalls

\* The display shows, and keys edit, the same of the two times of the plan:
\* sequencer_status chooses what is shown, flag_is_setting_active_time what is
\* edited, and they are changed in different places (one of them a case that
\* falls through).
ShownIsEdited ==
  OnRelayPage => /\ page.relay \in Relays /\ page.unit \in {"hour", "min"}
                 /\ page.active = (status = "active")

\* The clock holds a date of the calendar, and so does the page of the system
\* time whatever is edited in whatever order: user_setting_time_check_up.
TimesAreDates == IsDate(rtc) /\ (status = "sys_time" => IsDate(setting))

\* When no page is open and something was set that no post has followed, the
\* last page was that of relay 7, whose long key returns before the post.
OnlySeventhWaits == unsaved /\ status = "none" => page.relay = 7

LeavesRelayPage ==
  OnRelayPage /\ (status' \in {"none", "sys_time"} \/ page'.relay # page.relay)

\* However a relay page is left (its own key, the remote control, the time-out,
\* the way to another page), every weekday of that relay has the plan it shows;
\* the page of the system time sets the clock when it is left for no other page.
LeavingStores ==
  [][/\ LeavesRelayPage =>
          \A d \in Weekday :
            LET p == table'[page.relay][d]
            IN  /\ p.on = page.on /\ p.off = page.off
                /\ p.enable = (page.on # Midnight \/ page.off # Midnight)
     /\ status = "sys_time" /\ status' = "none" => rtc' = setting]_vars

\* The weekdays have one and the same plan, and not one at midnight told from
\* none by its seconds alone.
Uniform(r) ==
  \A d \in Weekday :
    /\ table[r][d] = table[r][0]
    /\ table[r][d].enable => table[r][d].on # Midnight \/ table[r][d].off # Midnight

\* Who opens the page of a relay with one plan for the whole week, changes no
\* value and leaves it again, by whatever way, has changed no plan.
ViewingIsHarmless ==
  [][LeavesRelayPage /\ fresh /\ Uniform(page.relay) => table' = table]_vars

\* A relay page closes by itself only when no key was used for the full
\* time-out: every way to open it and every key starts the count anew.
StaysOpen == [][OnRelayPage /\ status' = "none" => idle' \in {0, Timeout}]_vars

\* Unless keys go on for ever, no page stays open for ever.
PagesClose == []<><<Key>>_vars \/ []<>(status = "none")
=============================================================================
