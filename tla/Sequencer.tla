------------------------------ MODULE Sequencer ------------------------------
(***************************************************************************)
(* Power sequencing of the eight relay outputs: sequencer.c,               *)
(* sequencer_device_on_off.c, relay_handle.c and power_light.c, together   *)
(* with the handlers of the key, instruction and schedule components that  *)
(* reach them.                                                             *)
(*                                                                         *)
(* Powering the device on closes, one after the other in ascending order,  *)
(* every relay that was closed before; powering it off opens the closed    *)
(* relays in descending order.  Both run in the hardware timer interrupt,  *)
(* once a second.  A call of sequencer_power_on or sequencer_power_off     *)
(* reads is_in_delay and sets it in two steps; two threads (app_core for   *)
(* keys, user_task for instructions and schedules) and the one-shot boot   *)
(* interrupt make such calls.                                              *)
(***************************************************************************)
EXTENDS Integers, FiniteSets

CONSTANTS
  N,           \* relay_number: the relays are 0 .. N-1
  Delays,      \* the delays (seconds) an instruction may set
  Settings,    \* the settings of all relays' delays that are considered
  CounterMod,  \* 2^8: cur_relay_close_time is a u8, close_time a u16
  TimerIds,    \* the ids usr_timer_add may return
  SerialCalls  \* TRUE: calls that start a sequence never overlap

ASSUME NAssumption       == N \in Nat \ {0}
ASSUME DelaysAssumption  == Delays \subseteq Nat \ {0} /\ 1 \in Delays
ASSUME ModAssumption     == CounterMod \in Nat \ {0, 1}
ASSUME TimerAssumption   == 0 \notin TimerIds
ASSUME SerialAssumption  == SerialCalls \in BOOLEAN

Relay == 0 .. N-1

\* open_time and close_time of every relay: any, and those of sequencers_data_init.
AnySetting == [open : [Relay -> Delays], close : [Relay -> Delays]]
OneSecond  == [open |-> [i \in Relay |-> 1], close |-> [i \in Relay |-> 1]]

ASSUME SettingsAssumption == Settings \subseteq AnySetting /\ OneSecond \in Settings

Core    == "app_core"
User    == "user_task"
Threads == {Core, User}

VARIABLES
  on_ff,       \* sequencers.on_ff = DEVICE_ON
  in_delay,    \* sequencers.is_in_delay
  last, cur,   \* relay[i].last_status_on_off, relay[i].cur_status_on_off
  open_time, close_time,  \* relay[i].open_time, relay[i].close_time
  pin,         \* relay_status_buff[i], and the level of the pin it drives
  light,       \* the power light
  flash,       \* the static flag of power_light_toggle
  timer,       \* what each usr_timer id runs: "none", "on", "off" or "led"
  on_id, off_id, led_id,  \* the three *_timer_isr_id variables
  on_task, off_task,      \* the statics of the two sequence callbacks
  boot_pending,           \* lcd_first_pwr_on_isr has not run yet
  pc,          \* how far each thread is inside a handler
  remote,      \* user_task's current call comes from an instruction
  save_req,    \* a MSG_USER_SAVE_INFO is in msg_task's queue
  waited       \* history: ticks since the sequence began or last switched

relays  == <<last, cur, pin>>
delays  == <<open_time, close_time>>
tasks   == <<on_task, off_task, waited>>
timers  == <<timer, on_id, off_id, led_id>>
lights  == <<light, flash>>
calls   == <<pc, remote>>
vars    == <<on_ff, in_delay, relays, delays, lights, timers, tasks,
             boot_pending, calls, save_req>>

-----------------------------------------------------------------------------
(* Helpers *)

NotCounting == [counting |-> FALSE, idx |-> 0, time |-> 0]

Seq == {"on", "off"}

\* Mutant: the light's timer is not deleted.
WithoutLedDel(ids) ==
  [t \in TimerIds |-> IF t \in ids \ {led_id} THEN "none" ELSE timer[t]]

\* usr_timer_del of each id in ids.
Without(ids) == [t \in TimerIds |-> IF t \in ids THEN "none" ELSE timer[t]]

\* Mutant: the scan takes every open relay.
WaitingUnwanted(from, c) == {i \in from .. N-1 : ~c[i]}

\* Relays the power-on scan takes: open now, closed before the power-off.
Waiting(from, c) == {i \in from .. N-1 : ~c[i] /\ last[i]}

\* Mutant: the scan stops before relay 0.
ClosedAboveZero(from, c) == {i \in 1 .. from : c[i]}

\* Relays the power-off scan takes, looking down from relay "from".
Closed(from, c) == {i \in 0 .. from : c[i]}

IsLowest(i, S)  == i \in S /\ \A j \in S : i <= j
\* Mutant: the power-off scan runs upwards.
IsHighestUp(i, S) == i \in S /\ \A j \in S : j >= i

IsHighest(i, S) == i \in S /\ \A j \in S : j <= i

\* "A thread is between the test of is_in_delay and its use."
Critical(c) == pc[c] \in {"on_checked", "off_checked", "reset", "reset_off"}
MayEnter    == SerialCalls => \A d \in Threads : ~Critical(d)

\* A relay handler has tested is_in_delay and not yet switched its relay.
Switching(c) == pc[c] \in {"toggle", "relay", "schedule"}

Goto(c, l) == pc' = [pc EXCEPT ![c] = l]

-----------------------------------------------------------------------------
(* What flash can hold of a device at rest: see RestRecord below. *)

Stored ==
  /\ on_ff \in BOOLEAN
  /\ last \in [Relay -> BOOLEAN]
  /\ cur = IF on_ff THEN last ELSE [i \in Relay |-> FALSE]
  /\ \E s \in Settings : open_time = s.open /\ close_time = s.close

Init ==
  /\ Stored
  /\ in_delay = FALSE
  /\ pin = [i \in Relay |-> FALSE]
  /\ light = FALSE /\ flash = FALSE
  /\ timer = [t \in TimerIds |-> "none"]
  /\ on_id = 0 /\ off_id = 0 /\ led_id = 0
  /\ on_task = NotCounting /\ off_task = NotCounting /\ waited = 0
  /\ boot_pending = TRUE
  /\ pc = [c \in Threads |-> "idle"]
  /\ remote = FALSE
  /\ save_req = FALSE

-----------------------------------------------------------------------------
(* Starting a sequence *)

\* usr_timer_add twice: any two free ids.
StartTimers(kind) ==
  \E t, l \in TimerIds :
    /\ t # l /\ timer[t] = "none" /\ timer[l] = "none"
    /\ timer' = [timer EXCEPT ![t] = kind, ![l] = "led"]
    /\ led_id' = l
    /\ IF kind = "on" THEN on_id' = t  /\ UNCHANGED off_id
                      ELSE off_id' = t /\ UNCHANGED on_id

\* Mutant: the records are not cleared before the sequence.
StartPowerOnKeepsCur ==
  /\ in_delay' = TRUE
  /\ StartTimers("on")
  /\ waited' = 0
  /\ UNCHANGED <<on_ff, relays, delays, lights, on_task, off_task>>

\* sequencer_power_on after its test of is_in_delay.
StartPowerOn ==
  /\ in_delay' = TRUE
  /\ cur' = [i \in Relay |-> FALSE]
  /\ StartTimers("on")
  /\ waited' = 0
  /\ UNCHANGED <<on_ff, last, pin, delays, lights, on_task, off_task>>

\* sequencer_power_off after its test of is_in_delay.
StartPowerOff ==
  /\ in_delay' = TRUE
  /\ StartTimers("off")
  /\ waited' = 0
  /\ UNCHANGED <<on_ff, relays, delays, lights, on_task, off_task>>

\* An instruction answered OK posts a save; a key or a schedule does not here.
Return(c) ==
  /\ Goto(c, "idle")
  /\ remote' = (remote /\ c # User)
  /\ save_req' = (save_req \/ (c = User /\ remote))

\* The IO key (KEW_PROW_IO) and the IR key (R1C1) in normal mode.
KeyPower ==
  /\ pc[Core] = "idle"
  /\ ~in_delay
  /\ Goto(Core, IF on_ff THEN "off" ELSE "on")
  /\ UNCHANGED <<on_ff, in_delay, relays, delays, lights, timers, tasks,
                 boot_pending, remote, save_req>>

\* handle_device_on_off: asked for the state it is in, it only answers OK.
RemotePower(on) ==
  /\ pc[User] = "idle"
  /\ ~in_delay
  /\ IF on = on_ff
       THEN save_req' = TRUE /\ UNCHANGED calls
       ELSE /\ Goto(User, IF on THEN "on" ELSE "off")
            /\ remote' = TRUE
            /\ UNCHANGED save_req
  /\ UNCHANGED <<on_ff, in_delay, relays, delays, lights, timers, tasks,
                 boot_pending>>

\* weekly_schedule_info_handle at a matching time; it tests only on_ff.
SchedulePower ==
  /\ pc[User] = "idle"
  /\ Goto(User, IF on_ff THEN "off" ELSE "on")
  /\ UNCHANGED <<on_ff, in_delay, relays, delays, lights, timers, tasks,
                 boot_pending, remote, save_req>>

\* The test of is_in_delay at the head of sequencer_power_on and _off.
PowerCheck(c) ==
  /\ pc[c] \in {"on", "off"}
  /\ \/ /\ in_delay
        /\ Return(c)
     \/ /\ ~in_delay
        /\ MayEnter
        /\ Goto(c, IF pc[c] = "on" THEN "on_checked" ELSE "off_checked")
        /\ UNCHANGED <<remote, save_req>>
  /\ UNCHANGED <<on_ff, in_delay, relays, delays, lights, timers, tasks,
                 boot_pending>>

\* The rest of the call, after the test let it through.
PowerStart(c) ==
  /\ \/ pc[c] = "on_checked"  /\ StartPowerOn
     \/ pc[c] = "off_checked" /\ StartPowerOff
  /\ Return(c)
  /\ UNCHANGED boot_pending

\* lcd_first_pwr_on_isr, 200 ms after boot, in the timer interrupt.
BootIsr ==
  /\ boot_pending
  /\ MayEnter
  /\ boot_pending' = FALSE
  /\ IF on_ff /\ ~in_delay
       THEN StartPowerOn
       ELSE UNCHANGED <<on_ff, in_delay, relays, delays, lights, timers, tasks>>
  /\ UNCHANGED <<calls, save_req>>

-----------------------------------------------------------------------------
(* Factory reset, in user_task *)

\* handle_reset_to_factory_setting up to its test of is_in_delay.
ResetBegin ==
  /\ pc[User] = "idle"
  /\ ~in_delay
  /\ MayEnter
  /\ Goto(User, "reset")
  /\ UNCHANGED <<on_ff, in_delay, relays, delays, lights, timers, tasks,
                 boot_pending, remote, save_req>>

\* The new settings: a running device keeps its relay records and is powered
\* off afterwards, a stopped one gets those of sequencers_data_init.
ResetApply ==
  /\ pc[User] = "reset"
  /\ on_ff' = FALSE
  /\ in_delay' = FALSE
  /\ open_time' = OneSecond.open /\ close_time' = OneSecond.close
  /\ IF on_ff
       THEN /\ Goto(User, "reset_off")
            /\ UNCHANGED <<last, cur, remote, save_req>>
       ELSE /\ last' = [i \in Relay |-> TRUE]
            /\ cur'  = [i \in Relay |-> FALSE]
            /\ Goto(User, "idle")
            /\ save_req' = TRUE
            /\ UNCHANGED remote
  /\ UNCHANGED <<pin, lights, timers, tasks, boot_pending>>

\* Mutant: the reset forgets to power off.
ResetNoPowerOff ==
  /\ pc[User] = "reset_off"
  /\ Goto(User, "idle") /\ save_req' = TRUE
  /\ UNCHANGED <<on_ff, in_delay, relays, delays, lights, timers, tasks,
                 boot_pending, remote>>

\* The sequencer_power_off call at its end, up to that call's own test.
ResetPowerOff ==
  /\ pc[User] = "reset_off"
  /\ IF in_delay
       THEN Goto(User, "idle") /\ save_req' = TRUE /\ UNCHANGED remote
       ELSE Goto(User, "off_checked") /\ remote' = TRUE /\ UNCHANGED save_req
  /\ UNCHANGED <<on_ff, in_delay, relays, delays, lights, timers, tasks,
                 boot_pending>>

-----------------------------------------------------------------------------
(* Switching single relays while the device is on *)

\* sequencer_relay_status_setting: the pin and both records of the relay.
Switch(val) ==
  /\ pin'  = [i \in Relay |-> IF i \in DOMAIN val THEN val[i] ELSE pin[i]]
  /\ cur'  = [i \in Relay |-> IF i \in DOMAIN val THEN val[i] ELSE cur[i]]
  /\ last' = [i \in Relay |-> IF i \in DOMAIN val THEN val[i] ELSE last[i]]

\* The tests at the head of the AD/IR key, instruction and schedule handlers.
SwitchBegin(c, l) ==
  /\ pc[c] = "idle"
  /\ on_ff /\ ~in_delay
  /\ Goto(c, l)
  /\ UNCHANGED <<on_ff, in_delay, relays, delays, lights, timers, tasks,
                 boot_pending, remote, save_req>>

KeyToggleBegin     == SwitchBegin(Core, "toggle")
RelaySetBegin      == SwitchBegin(User, "relay")
ScheduleRelayBegin == SwitchBegin(User, "schedule")

\* sequencer_relay_status_toggle, then the key handler's post.
KeyToggle ==
  /\ pc[Core] = "toggle"
  /\ \E i \in Relay : Switch([j \in {i} |-> ~pin[i]])
  /\ Goto(Core, "idle")
  /\ save_req' = TRUE
  /\ UNCHANGED <<on_ff, in_delay, delays, lights, timers, tasks,
                 boot_pending, remote>>

\* The end of sequencer_relay_status_setting_dly, 50 ms after the tests.
RelaySet ==
  /\ pc[User] = "relay"
  /\ \E i \in Relay, v \in BOOLEAN : Switch([j \in {i} |-> v])
  /\ Goto(User, "idle")
  /\ save_req' = TRUE
  /\ UNCHANGED <<on_ff, in_delay, delays, lights, timers, tasks,
                 boot_pending, remote>>

\* weekly_schedule_relay_info_handle: it visits all relays but the last
\* (i < 7 of 8), closes open ones, opens closed ones, and posts no save.
ScheduleRelay ==
  /\ pc[User] = "schedule"
  /\ \E S \in SUBSET (0 .. N-2) : \E val \in [S -> BOOLEAN] :
       /\ \A i \in S : cur[i] => ~val[i]
       /\ Switch(val)
  /\ Goto(User, "idle")
  /\ UNCHANGED <<on_ff, in_delay, delays, lights, timers, tasks,
                 boot_pending, remote, save_req>>

\* handle_relay_active_time and handle_relay_deactive_time.
SetDelay ==
  /\ pc[User] = "idle"
  /\ ~in_delay
  /\ \E i \in Relay, d \in Delays :
       \/ open_time'  = [open_time  EXCEPT ![i] = d] /\ UNCHANGED close_time
       \/ close_time' = [close_time EXCEPT ![i] = d] /\ UNCHANGED open_time
  /\ [open |-> open_time', close |-> close_time'] \in Settings
  /\ save_req' = TRUE
  /\ UNCHANGED <<on_ff, in_delay, relays, lights, timers, tasks,
                 boot_pending, calls>>

\* msg_task takes the save message.
MsgTask ==
  /\ save_req
  /\ save_req' = FALSE
  /\ UNCHANGED <<on_ff, in_delay, relays, delays, lights, timers, tasks,
                 boot_pending, calls>>

-----------------------------------------------------------------------------
(* The once-a-second callbacks.  The boot interrupt comes, and a handler     *)
(* that tested is_in_delay ends, well within the first second of a timer     *)
(* added after the boot or after that test.                                  *)

CountDown(x) == IF x > 0 THEN x - 1 ELSE 0

MayTick == ~boot_pending /\ \A c \in Threads : ~Switching(c) /\ ~Critical(c)

\* Mutant: the end of a sequence posts no save.
FinishUnsaved(on) ==
  /\ timer' = Without({IF on THEN on_id ELSE off_id, led_id})
  /\ light' = on
  /\ in_delay' = FALSE
  /\ on_ff' = on
  /\ UNCHANGED save_req

\* Mutant: the end of a sequence leaves on_ff as it was.
FinishKeepsOnFf(on) ==
  /\ timer' = Without({IF on THEN on_id ELSE off_id, led_id})
  /\ light' = on
  /\ in_delay' = FALSE
  /\ UNCHANGED on_ff
  /\ save_req' = TRUE

\* Where both callbacks stop their timers and settle light, flag and on_ff.
Finish(on) ==
  /\ timer' = Without({IF on THEN on_id ELSE off_id, led_id})
  /\ light' = on
  /\ in_delay' = FALSE
  /\ on_ff' = on
  /\ save_req' = TRUE

OnTarget(i) == IF on_task.counting THEN i = on_task.idx
                                   ELSE IsLowest(i, Waiting(0, cur))
\* Mutant: the delay of the relay found is not loaded.
OnLeftStale(i) == CountDown(on_task.time)

OnLeft(i)   == CountDown(IF on_task.counting THEN on_task.time
                                             ELSE CountDown(open_time[i]))

\* sequencer_power_on_task found no relay to close.
OnNothing ==
  /\ ~on_task.counting /\ Waiting(0, cur) = {}
  /\ Finish(TRUE)
  /\ waited' = 0
  /\ UNCHANGED <<relays, on_task>>

\* It counted a second of relay i's delay.
OnCount(i) ==
  /\ OnTarget(i) /\ OnLeft(i) > 0
  /\ on_task' = [counting |-> TRUE, idx |-> i, time |-> OnLeft(i)]
  /\ in_delay' = (in_delay \/ ~on_task.counting)
  /\ waited' = waited + 1
  /\ UNCHANGED <<on_ff, relays, timer, light, save_req>>

\* It closed relay i and went on to the next one up, or finished.
OnSwitch(i) ==
  /\ OnTarget(i) /\ OnLeft(i) = 0
  /\ pin' = [pin EXCEPT ![i] = TRUE]
  /\ cur' = [cur EXCEPT ![i] = TRUE]
  /\ waited' = 0
  /\ \/ /\ Waiting(i, cur') = {}
        /\ Finish(TRUE)
        /\ on_task' = NotCounting
     \/ \E j \in Relay :
        /\ IsLowest(j, Waiting(i, cur'))
        /\ on_task' = [counting |-> TRUE, idx |-> j, time |-> open_time[j]]
        /\ in_delay' = TRUE
        /\ UNCHANGED <<on_ff, timer, light, save_req>>
  /\ UNCHANGED last

\* sequencer_power_on_task
PowerOnTick(t) ==
  /\ timer[t] = "on"
  /\ MayTick
  /\ OnNothing \/ \E i \in Relay : OnCount(i) \/ OnSwitch(i)
  /\ UNCHANGED <<delays, flash, on_id, off_id, led_id, off_task,
                 boot_pending, calls>>

\* cur_relay_close_time is a u8: it keeps close_time modulo CounterMod.
OffTarget(i) == IF off_task.counting THEN i = off_task.idx
                                     ELSE IsHighest(i, Closed(N-1, cur))
\* Mutant: the delay of the relay found is not loaded.
OffLeftStale(i) == CountDown(off_task.time)

OffLeft(i)   == CountDown(IF off_task.counting
                            THEN off_task.time
                            ELSE CountDown(close_time[i]) % CounterMod)

\* sequencer_power_off_task found no relay to open.
OffNothing ==
  /\ ~off_task.counting /\ Closed(N-1, cur) = {}
  /\ Finish(FALSE)
  /\ waited' = 0
  /\ UNCHANGED <<relays, off_task>>

\* It counted a second of relay i's delay.
OffCount(i) ==
  /\ OffTarget(i) /\ OffLeft(i) > 0
  /\ off_task' = [counting |-> TRUE, idx |-> i, time |-> OffLeft(i)]
  /\ in_delay' = (in_delay \/ ~off_task.counting)
  /\ waited' = waited + 1
  /\ UNCHANGED <<on_ff, relays, timer, light, save_req>>

\* It opened relay i and went on to the next one down, or finished.
OffSwitch(i) ==
  /\ OffTarget(i) /\ OffLeft(i) = 0
  /\ pin' = [pin EXCEPT ![i] = FALSE]
  /\ cur' = [cur EXCEPT ![i] = FALSE]
  /\ waited' = 0
  /\ \/ /\ Closed(i, cur') = {}
        /\ Finish(FALSE)
        /\ off_task' = NotCounting
     \/ \E j \in Relay :
        /\ IsHighest(j, Closed(i, cur'))
        /\ off_task' = [counting |-> TRUE, idx |-> j,
                        time |-> close_time[j] % CounterMod]
        /\ in_delay' = TRUE
        /\ UNCHANGED <<on_ff, timer, light, save_req>>
  /\ UNCHANGED last

\* sequencer_power_off_task
PowerOffTick(t) ==
  /\ timer[t] = "off"
  /\ MayTick
  /\ OffNothing \/ \E i \in Relay : OffCount(i) \/ OffSwitch(i)
  /\ UNCHANGED <<delays, flash, on_id, off_id, led_id, on_task,
                 boot_pending, calls>>

\* led_power_flash_task, every 500 ms.
LedTick(t) ==
  /\ timer[t] = "led"
  /\ light' = flash
  /\ flash' = ~flash
  /\ UNCHANGED <<on_ff, in_delay, relays, delays, timers, tasks,
                 boot_pending, calls, save_req>>

-----------------------------------------------------------------------------
(* The specification *)

PowerCalls ==
  \/ KeyPower
  \/ \E on \in BOOLEAN : RemotePower(on)
  \/ SchedulePower
  \/ \E c \in Threads : PowerCheck(c) \/ PowerStart(c)
  \/ BootIsr
  \/ ResetBegin \/ ResetApply \/ ResetPowerOff

RelayCalls ==
  \/ KeyToggleBegin \/ RelaySetBegin \/ ScheduleRelayBegin
  \/ KeyToggle \/ RelaySet \/ ScheduleRelay
  \/ SetDelay

Tick == \E t \in TimerIds : PowerOnTick(t) \/ PowerOffTick(t) \/ LedTick(t)

Operate == PowerCalls \/ RelayCalls \/ Tick

Next == Operate \/ MsgTask

Spec == Init /\ [][Next]_vars

(* The timer interrupt is never held off, a thread that is inside a handler  *)
(* comes back from it, and msg_task is always scheduled again.  Whether a    *)
(* key, an instruction or a scheduled time ever comes is up to the outside.  *)
Fairness ==
  /\ \A t \in TimerIds : WF_vars(PowerOnTick(t)) /\ WF_vars(PowerOffTick(t))
  /\ \A c \in Threads : WF_vars(PowerCheck(c)) /\ WF_vars(PowerStart(c))
  /\ WF_vars(ResetApply) /\ WF_vars(ResetPowerOff)
  /\ WF_vars(KeyToggle) /\ WF_vars(RelaySet) /\ WF_vars(ScheduleRelay)
  /\ WF_vars(BootIsr) /\ WF_vars(MsgTask)

FairSpec == Spec /\ Fairness

-----------------------------------------------------------------------------
(* Properties *)

TaskState(D) == [counting : BOOLEAN, idx : Relay, time : D]

\* The type invariant.
TypeOK ==
  /\ on_ff \in BOOLEAN /\ in_delay \in BOOLEAN
  /\ last \in [Relay -> BOOLEAN]
  /\ cur \in [Relay -> BOOLEAN]
  /\ pin \in [Relay -> BOOLEAN]
  /\ open_time \in [Relay -> Delays]
  /\ close_time \in [Relay -> Delays]
  /\ light \in BOOLEAN /\ flash \in BOOLEAN
  /\ timer \in [TimerIds -> {"none", "on", "off", "led"}]
  /\ on_id \in TimerIds \cup {0}
  /\ off_id \in TimerIds \cup {0}
  /\ led_id \in TimerIds \cup {0}
  /\ on_task \in TaskState(Nat)
  /\ off_task \in TaskState(Nat)
  /\ waited \in Nat
  /\ boot_pending \in BOOLEAN
  /\ pc \in [Threads -> {"idle", "on", "on_checked", "off", "off_checked",
                         "reset", "reset_off", "toggle", "relay", "schedule"}]
  /\ remote \in BOOLEAN /\ save_req \in BOOLEAN

Kind(k) == {t \in TimerIds : timer[t] = k}

\* The flag is_in_delay is set exactly while one sequence callback and the
\* blinking light run, under the ids with which the callback will delete them:
\* no second callback can switch relays and no timer outlives its sequence.
DelayFlagIsTimers ==
  IF in_delay
    THEN /\ Kind("led") = {led_id}
         /\ \/ Kind("on") = {on_id} /\ Kind("off") = {}
            \/ Kind("off") = {off_id} /\ Kind("on") = {}
    ELSE Kind("on") = {} /\ Kind("off") = {} /\ Kind("led") = {}

\* Between sequences, pins, records and light tell the same story: a device
\* that is on feeds exactly the relays it will close at its next power-on, one
\* that is off feeds none.  Before the boot interrupt the pins are still open.
RestRecord ==
  (~in_delay /\ ~boot_pending /\ \A c \in Threads : ~Critical(c)) =>
    /\ cur = IF on_ff THEN last ELSE [i \in Relay |-> FALSE]
    /\ pin = cur
    /\ light = on_ff

\* A step of a sequence callback: no handler moves.
Sequenced == pc' = pc

\* A sequence switches one relay at a time, closes a relay only when all lower
\* ones that are to close are closed, closes none that was open before, and
\* opens a relay only when all higher ones are open.
SequenceOrder ==
  [][Sequenced => \A i \in Relay : pin'[i] # pin[i] =>
       /\ \A j \in Relay \ {i} : pin'[j] = pin[j]
       /\ pin'[i]  => last[i] /\ \A j \in Relay : j < i => (last[j] => pin[j])
       /\ ~pin'[i] => \A j \in Relay : j > i => ~pin[j]]_vars

\* A relay closes no later than its open_time after the one before it, and at
\* most one second earlier (the first relay of a sequence is that one early).
OpenSpacing ==
  [][Sequenced => \A i \in Relay : (pin'[i] /\ ~pin[i]) =>
       waited + 1 \in (open_time[i] - 1) .. open_time[i]]_vars

\* The same of opening, which counts down close_time, as long as the u8 it is
\* counted in holds it.  A longer one is cut: the relay opens earlier than that,
\* however many minutes were asked for.
CloseSpacing ==
  [][Sequenced => \A i \in Relay : (pin[i] /\ ~pin'[i]) =>
       IF close_time[i] < CounterMod
         THEN waited + 1 \in (close_time[i] - 1) .. close_time[i]
         ELSE waited + 1 < CounterMod]_vars

\* What the rest of the system sees of the sequencer.
Phase ==
  IF in_delay THEN IF Kind("on") # {} THEN "rising" ELSE "falling"
  ELSE IF on_ff THEN IF boot_pending THEN "restored" ELSE "on"
  ELSE IF pc[User] \in {"reset_off", "off_checked"} THEN "dropped" ELSE "off"

Power == INSTANCE PowerPhase WITH
  phase  <- Phase,
  wanted <- {i \in Relay : last[i]},
  fed    <- IF in_delay THEN {} ELSE {i \in Relay : pin[i]}

\* The sequencer with its two threads, interrupts and timers implements a
\* device that is off, on or in a sequence that ends.
ImplementsPower == Power!FairSpec

\* A call that finds a sequence running starts no second one.
OneSequence == Cardinality(Kind("on") \cup Kind("off")) <= 1

\* Whoever gets a sequence to end also gets the new state saved: both
\* callbacks post MSG_USER_SAVE_INFO when they clear is_in_delay.
EndIsSaved == [][in_delay /\ ~in_delay' => save_req']_vars

\* Every power-on sequence ends with the device on and the wanted relays fed.
PowerOnEnds ==
  Kind("on") # {} ~> (on_ff /\ ~in_delay /\ pin = last)

\* Every power-off sequence ends with the device off and no relay fed.
PowerOffEnds ==
  Kind("off") # {} ~> (~on_ff /\ ~in_delay /\ \A i \in Relay : ~pin[i])

\* An accepted factory reset brings the device to rest, off, with no relay fed.
ResetEnds ==
  pc[User] = "reset" ~> (~on_ff /\ ~in_delay /\ \A i \in Relay : ~pin[i])
=============================================================================
