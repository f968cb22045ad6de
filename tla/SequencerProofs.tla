--------------------------- MODULE SequencerProofs ---------------------------
(***************************************************************************)
(* Theorems about Sequencer, for any number of relays, any delays and any  *)
(* supply of timer ids, and at the end about PowerCycle, for any number of *)
(* power cuts, each between any two steps of the sequencer and of the save *)
(* that is under way.                                                      *)
(***************************************************************************)
EXTENDS PowerCycle, TLAPS

\* The two threads that call the sequencer are distinct.
LEMMA ThreadsType == User \in Threads /\ Core \in Threads /\ User # Core
  BY DEF User, Core, Threads

\* Counting down stays in the naturals.
LEMMA CountDownType == \A x \in Nat : CountDown(x) \in Nat
  BY DEF CountDown

\* The resting state of a callback's statics.
LEMMA NotCountingType == NotCounting \in TaskState(Nat)
  BY NAssumption DEF NotCounting, TaskState, Relay

\* What is left of a delay after a callback counted a second of it.
LEMMA LeftType ==
  ASSUME TypeOK, NEW i \in Relay
  PROVE  OnLeft(i) \in Nat /\ OffLeft(i) \in Nat
<1>1. open_time[i] \in Nat /\ close_time[i] \in Nat
  BY DelaysAssumption DEF TypeOK
<1>2. on_task.time \in Nat /\ off_task.time \in Nat
  BY DEF TypeOK, TaskState
<1>3. CountDown(close_time[i]) % CounterMod \in Nat
  BY <1>1, CountDownType, ModAssumption
<1> QED
  BY <1>1, <1>2, <1>3, CountDownType DEF OnLeft, OffLeft

\* Every step of a sequence callback keeps the types.
LEMMA OnTickType ==
  ASSUME TypeOK, NEW t \in TimerIds, PowerOnTick(t)
  PROVE  TypeOK'
<1>1. CASE OnNothing
  BY <1>1 DEF TypeOK, PowerOnTick, OnNothing, Finish, Without, relays, delays,
     calls
<1>2. ASSUME NEW i \in Relay, OnCount(i) PROVE TypeOK'
  <2>1. OnLeft(i) \in Nat
    BY LeftType
  <2> QED
    BY <1>2, <2>1 DEF TypeOK, TaskState, PowerOnTick, OnCount, relays, delays,
       calls
<1>3. ASSUME NEW i \in Relay, OnSwitch(i) PROVE TypeOK'
  <2>1. CASE Finish(TRUE) /\ on_task' = NotCounting
    BY <1>3, <2>1, NotCountingType
    DEF TypeOK, PowerOnTick, OnSwitch, Finish, Without, delays, calls
  <2>2. ASSUME NEW j \in Relay,
               on_task' = [counting |-> TRUE, idx |-> j, time |-> open_time[j]],
               in_delay' = TRUE, UNCHANGED <<on_ff, timer, light, save_req>>
        PROVE  TypeOK'
    BY ZenonT(30), <1>3, <2>2, DelaysAssumption
    DEF TypeOK, TaskState, PowerOnTick, OnSwitch, delays, calls
  <2> QED
    BY <1>3, <2>1, <2>2 DEF OnSwitch
<1> QED
  BY <1>1, <1>2, <1>3 DEF PowerOnTick

\* The same of the power-off callback.
LEMMA OffTickType ==
  ASSUME TypeOK, NEW t \in TimerIds, PowerOffTick(t)
  PROVE  TypeOK'
<1>1. CASE OffNothing
  BY <1>1 DEF TypeOK, PowerOffTick, OffNothing, Finish, Without, relays, delays,
     calls
<1>2. ASSUME NEW i \in Relay, OffCount(i) PROVE TypeOK'
  <2>1. OffLeft(i) \in Nat
    BY LeftType
  <2> QED
    BY <1>2, <2>1 DEF TypeOK, TaskState, PowerOffTick, OffCount, relays, delays,
       calls
<1>3. ASSUME NEW i \in Relay, OffSwitch(i) PROVE TypeOK'
  <2>1. CASE Finish(FALSE) /\ off_task' = NotCounting
    BY <1>3, <2>1, NotCountingType
    DEF TypeOK, PowerOffTick, OffSwitch, Finish, Without, delays, calls
  <2>2. ASSUME NEW j \in Relay,
               off_task' = [counting |-> TRUE, idx |-> j,
                            time |-> close_time[j] % CounterMod],
               in_delay' = TRUE, UNCHANGED <<on_ff, timer, light, save_req>>
        PROVE  TypeOK'
    <3>1. close_time[j] % CounterMod \in Nat
      <4>1. close_time[j] \in Nat
        BY DelaysAssumption DEF TypeOK
      <4> QED
        BY <4>1, ModAssumption
    <3>2. off_task' \in TaskState(Nat)
      BY <2>2, <3>1 DEF TaskState
    <3> QED
      BY <1>3, <2>2, <3>2 DEF TypeOK, PowerOffTick, OffSwitch, delays, calls
  <2> QED
    BY <1>3, <2>1, <2>2 DEF OffSwitch
<1> QED
  BY <1>1, <1>2, <1>3 DEF PowerOffTick

\* Starting a sequence keeps the types of what it touches.
LEMMA StartTimersType ==
  ASSUME TypeOK, NEW kind \in Seq, StartTimers(kind)
  PROVE  /\ timer' \in [TimerIds -> {"none", "on", "off", "led"}]
         /\ on_id' \in TimerIds \cup {0}
         /\ off_id' \in TimerIds \cup {0}
         /\ led_id' \in TimerIds \cup {0}
  BY DEF TypeOK, StartTimers, Seq

\* A call of sequencer_power_on or sequencer_power_off keeps the types.
LEMMA StartType ==
  ASSUME TypeOK,
         StartPowerOn \/ StartPowerOff,
         pc' \in [Threads -> {"idle", "on", "on_checked", "off", "off_checked",
                         "reset", "reset_off", "toggle", "relay", "schedule"}],
         boot_pending' \in BOOLEAN, remote' \in BOOLEAN, save_req' \in BOOLEAN
  PROVE  TypeOK'
<1>1. CASE StartPowerOn
  BY <1>1, StartTimersType
  DEF TypeOK, StartPowerOn, Seq, delays, lights
<1>2. CASE StartPowerOff
  BY <1>2, StartTimersType
  DEF TypeOK, StartPowerOff, Seq, relays, delays, lights
<1> QED
  BY <1>1, <1>2

\* A single relay switched by a handler keeps the types.
LEMMA SwitchType ==
  ASSUME TypeOK, NEW S \in SUBSET Relay, NEW val \in [S -> BOOLEAN], Switch(val)
  PROVE  /\ last' \in [Relay -> BOOLEAN]
         /\ cur' \in [Relay -> BOOLEAN]
         /\ pin' \in [Relay -> BOOLEAN]
  BY DEF TypeOK, Switch

\* The program starts in well-typed states.
LEMMA InitType == Init => TypeOK
<1> SUFFICES ASSUME Init PROVE TypeOK
  OBVIOUS
<1>1. cur \in [Relay -> BOOLEAN] /\ last \in [Relay -> BOOLEAN]
  BY DEF Init, Stored
<1>2. pc \in [Threads -> {"idle"}]
  BY DEF Init
<1>3. timer \in [TimerIds -> {"none"}] /\ pin \in [Relay -> BOOLEAN]
  BY DEF Init
<1>4. open_time \in [Relay -> Delays] /\ close_time \in [Relay -> Delays]
  BY SettingsAssumption DEF Init, Stored, AnySetting
<1> QED
  BY <1>1, <1>2, <1>3, <1>4, NotCountingType DEF Init, Stored, TypeOK

\* Every step keeps the types.
LEMMA NextType == TypeOK /\ [Next]_vars => TypeOK'
<1> SUFFICES ASSUME TypeOK, [Next]_vars PROVE TypeOK'
  OBVIOUS
<1>1. CASE UNCHANGED vars
  BY <1>1 DEF TypeOK, vars, relays, delays, lights, timers, tasks, calls
<1>2. CASE PowerCalls
  <2>1. CASE KeyPower
    BY <2>1 DEF TypeOK, KeyPower, Goto, relays, delays, lights, timers, tasks
  <2>2. ASSUME NEW on \in BOOLEAN, RemotePower(on) PROVE TypeOK'
    BY ZenonT(30), <2>2 DEF TypeOK, RemotePower, Goto, relays, delays, lights, timers,
       tasks, calls
  <2>3. CASE SchedulePower
    BY ZenonT(30), <2>3 DEF TypeOK, SchedulePower, Goto, relays, delays, lights, timers,
       tasks
  <2>4. ASSUME NEW c \in Threads, PowerCheck(c) PROVE TypeOK'
    BY ZenonT(30), <2>4 DEF TypeOK, PowerCheck, Goto, Return, relays, delays, lights,
       timers, tasks
  <2>5. ASSUME NEW c \in Threads, PowerStart(c) PROVE TypeOK'
    <3>1. /\ StartPowerOn \/ StartPowerOff
          /\ UNCHANGED boot_pending
      BY <2>5 DEF PowerStart
    <3>2. /\ pc' = [pc EXCEPT ![c] = "idle"]
          /\ remote' \in BOOLEAN /\ save_req' \in BOOLEAN
      BY <2>5 DEF TypeOK, PowerStart, Return, Goto
    <3> QED
      BY <3>1, <3>2, StartType DEF TypeOK
  <2>6. CASE BootIsr
    <3>1. CASE StartPowerOn
      BY <2>6, <3>1, StartType DEF TypeOK, BootIsr, calls
    <3>2. CASE UNCHANGED <<on_ff, in_delay, relays, delays, lights, timers,
                           tasks>>
      BY <2>6, <3>2 DEF TypeOK, BootIsr, relays, delays, lights, timers,
         tasks, calls
    <3> QED
      BY <2>6, <3>1, <3>2 DEF BootIsr
  <2>7. CASE ResetBegin
    BY <2>7 DEF TypeOK, ResetBegin, Goto, relays, delays, lights, timers,
       tasks
  <2>8. CASE ResetApply
    BY <2>8, DelaysAssumption
    DEF TypeOK, ResetApply, OneSecond, Goto, lights, timers, tasks
  <2>9. CASE ResetPowerOff
    BY <2>9 DEF TypeOK, ResetPowerOff, Goto, relays, delays, lights, timers,
       tasks
  <2> QED
    BY <1>2, <2>1, <2>2, <2>3, <2>4, <2>5, <2>6, <2>7, <2>8, <2>9
    DEF PowerCalls
<1>3. CASE RelayCalls
  <2>1. ASSUME NEW c \in Threads, NEW l \in {"toggle", "relay", "schedule"},
               SwitchBegin(c, l)
        PROVE  TypeOK'
    BY <2>1 DEF TypeOK, SwitchBegin, Goto, relays, delays, lights, timers,
       tasks
  <2>2. CASE KeyToggle
    <3> PICK i \in Relay : Switch([j \in {i} |-> ~pin[i]])
      BY <2>2 DEF KeyToggle
    <3>1. [j \in {i} |-> ~pin[i]] \in [{i} -> BOOLEAN]
      OBVIOUS
    <3>2. /\ last' \in [Relay -> BOOLEAN]
          /\ cur' \in [Relay -> BOOLEAN]
          /\ pin' \in [Relay -> BOOLEAN]
      BY <3>1, SwitchType
    <3> QED
      BY <2>2, <3>2 DEF TypeOK, KeyToggle, Goto, delays, lights, timers, tasks
  <2>3. CASE RelaySet
    <3> PICK i \in Relay, v \in BOOLEAN : Switch([j \in {i} |-> v])
      BY <2>3 DEF RelaySet
    <3>1. [j \in {i} |-> v] \in [{i} -> BOOLEAN]
      OBVIOUS
    <3>2. /\ last' \in [Relay -> BOOLEAN]
          /\ cur' \in [Relay -> BOOLEAN]
          /\ pin' \in [Relay -> BOOLEAN]
      BY <3>1, SwitchType
    <3> QED
      BY <2>3, <3>2 DEF TypeOK, RelaySet, Goto, delays, lights, timers, tasks
  <2>4. CASE ScheduleRelay
    <3> PICK S \in SUBSET (0 .. N-2) :
               \E val \in [S -> BOOLEAN] : Switch(val)
      BY <2>4 DEF ScheduleRelay
    <3> PICK val \in [S -> BOOLEAN] : Switch(val)
      OBVIOUS
    <3>1. S \in SUBSET Relay
      BY NAssumption DEF Relay
    <3>2. /\ last' \in [Relay -> BOOLEAN]
          /\ cur' \in [Relay -> BOOLEAN]
          /\ pin' \in [Relay -> BOOLEAN]
      BY <3>1, SwitchType
    <3> QED
      BY ZenonT(30), <2>4, <3>2 DEF TypeOK, ScheduleRelay, Goto, delays, lights, timers, tasks
  <2>5. CASE SetDelay
    BY <2>5 DEF TypeOK, SetDelay, relays, lights, timers, tasks, calls
  <2> QED
    BY <1>3, <2>1, <2>2, <2>3, <2>4, <2>5, ThreadsType
    DEF RelayCalls, KeyToggleBegin, RelaySetBegin, ScheduleRelayBegin
<1>4. ASSUME NEW t \in TimerIds, LedTick(t) PROVE TypeOK'
  BY <1>4 DEF TypeOK, LedTick, relays, delays, timers, tasks, calls
<1>5. CASE MsgTask
  BY <1>5 DEF TypeOK, MsgTask, relays, delays, lights, timers, tasks, calls
<1> QED
  BY <1>1, <1>2, <1>3, <1>4, <1>5, OnTickType, OffTickType
  DEF Next, Operate, Tick

\* The type invariant holds of every state of the sequencer.
THEOREM TypeCorrect == Spec => []TypeOK
  BY InitType, NextType, PTL DEF Spec

-----------------------------------------------------------------------------
(* The flag is_in_delay and the timers.  DelayFlagIsTimers alone is not      *)
(* inductive: a thread that has passed the test of is_in_delay will start    *)
(* timers whatever the flag has become meanwhile.  The strengthening says    *)
(* that, where starting calls do not overlap, such a thread is alone and     *)
(* still finds the flag clear.                                               *)

\* No timer runs.
AtRest == timer = [t \in TimerIds |-> "none"]

\* One callback of kind k runs under id, and the light's under led_id.
Runs(k, id) ==
  /\ id \in TimerIds /\ led_id \in TimerIds /\ id # led_id
  /\ timer = [t \in TimerIds |-> IF t = id THEN k
                                 ELSE IF t = led_id THEN "led" ELSE "none"]

TimersInv == IF in_delay THEN Runs("on", on_id) \/ Runs("off", off_id)
                         ELSE AtRest

SerialInv == \A c \in Threads : Critical(c) =>
               ~in_delay /\ \A d \in Threads : Critical(d) => d = c

FlagInv == TypeOK /\ TimersInv /\ SerialInv

\* The strengthened invariant implies the property.
LEMMA FlagInvSuffices == FlagInv => DelayFlagIsTimers
<1> SUFFICES ASSUME FlagInv PROVE DelayFlagIsTimers
  OBVIOUS
<1>1. CASE in_delay /\ Runs("on", on_id)
  BY <1>1 DEF Runs, DelayFlagIsTimers, Kind
<1>2. CASE in_delay /\ Runs("off", off_id)
  BY <1>2 DEF Runs, DelayFlagIsTimers, Kind
<1>3. CASE ~in_delay
  BY <1>3 DEF FlagInv, TimersInv, AtRest, DelayFlagIsTimers, Kind
<1> QED
  BY <1>1, <1>2, <1>3 DEF FlagInv, TimersInv

\* usr_timer_add twice, from rest: exactly one sequence runs.
LEMMA StartRuns ==
  ASSUME AtRest
  PROVE  /\ StartTimers("on")  => Runs("on", on_id)'
         /\ StartTimers("off") => Runs("off", off_id)'
  BY DEF AtRest, StartTimers, Runs

\* A starting call made at rest sets the flag and adds the timers together.
LEMMA StartKeepsTimers ==
  ASSUME TypeOK, TimersInv, ~in_delay, StartPowerOn \/ StartPowerOff
  PROVE  in_delay' /\ TimersInv'
  BY StartRuns DEF TimersInv, StartPowerOn, StartPowerOff

\* A callback ends its sequence by deleting the only two timers there are.
LEMMA FinishRests ==
  /\ Runs("on", on_id)   /\ Finish(TRUE)  => AtRest' /\ ~in_delay'
  /\ Runs("off", off_id) /\ Finish(FALSE) => AtRest' /\ ~in_delay'
  BY DEF Runs, Finish, Without, AtRest

\* While no timer id, no timer and not the flag changes, TimersInv stays.
LEMMA TimersKept ==
  TimersInv /\ UNCHANGED <<in_delay, timer, on_id, off_id, led_id>> => TimersInv'
  BY DEF TimersInv, Runs, AtRest

\* The power-on callback keeps flag and timers in step, to its end.
LEMMA OnTickFlag ==
  ASSUME FlagInv, NEW t \in TimerIds, PowerOnTick(t)
  PROVE  TimersInv'
<1>1. timer[t] = "on" /\ UNCHANGED <<on_id, off_id, led_id>>
  BY DEF PowerOnTick
<1>2. in_delay /\ Runs("on", on_id)
  BY <1>1 DEF FlagInv, TimersInv, AtRest, Runs
<1>3. \/ Finish(TRUE)
      \/ in_delay' /\ UNCHANGED timer
  BY <1>2 DEF PowerOnTick, OnNothing, OnCount, OnSwitch
<1>4. CASE Finish(TRUE)
  BY <1>2, <1>4, FinishRests DEF TimersInv
<1>5. CASE in_delay' /\ UNCHANGED timer
  BY <1>1, <1>2, <1>5 DEF TimersInv, Runs
<1> QED
  BY <1>3, <1>4, <1>5

\* The same of the power-off callback.
LEMMA OffTickFlag ==
  ASSUME FlagInv, NEW t \in TimerIds, PowerOffTick(t)
  PROVE  TimersInv'
<1>1. timer[t] = "off" /\ UNCHANGED <<on_id, off_id, led_id>>
  BY DEF PowerOffTick
<1>2. in_delay /\ Runs("off", off_id)
  BY <1>1 DEF FlagInv, TimersInv, AtRest, Runs
<1>3. \/ Finish(FALSE)
      \/ in_delay' /\ UNCHANGED timer
  BY <1>2 DEF PowerOffTick, OffNothing, OffCount, OffSwitch
<1>4. CASE Finish(FALSE)
  BY <1>2, <1>4, FinishRests DEF TimersInv
<1>5. CASE in_delay' /\ UNCHANGED timer
  BY <1>1, <1>2, <1>5 DEF TimersInv, Runs
<1> QED
  BY <1>3, <1>4, <1>5

\* A step of thread c to label l: who is critical afterwards.
LEMMA GotoSerial ==
  ASSUME FlagInv, NEW c \in Threads, NEW l, Goto(c, l), UNCHANGED in_delay,
         \/ l \notin {"on_checked", "off_checked", "reset", "reset_off"}
         \/ Critical(c)
         \/ ~in_delay /\ \A d \in Threads : ~Critical(d)
  PROVE  SerialInv'
  BY DEF FlagInv, TypeOK, SerialInv, Critical, Goto

\* A step that moves no thread and not the flag keeps SerialInv.
LEMMA SerialKept ==
  FlagInv /\ UNCHANGED <<pc, in_delay>> => SerialInv'
  BY DEF FlagInv, SerialInv, Critical

\* A callback runs while no thread is critical, and none becomes so.
LEMMA TickSerial ==
  FlagInv /\ MayTick /\ UNCHANGED pc => SerialInv'
  BY DEF FlagInv, SerialInv, Critical, MayTick

\* At the start no timer runs and no thread is in a handler.
LEMMA FlagInvInit == Init => FlagInv
<1> SUFFICES ASSUME Init PROVE TimersInv /\ SerialInv
  BY InitType DEF FlagInv
<1>1. \A c \in Threads : ~Critical(c)
  BY DEF Init, Critical
<1> QED
  BY <1>1 DEF Init, TimersInv, AtRest, SerialInv

\* Every step keeps the strengthened invariant.
LEMMA FlagInvNext ==
  ASSUME SerialCalls, FlagInv, [Next]_vars
  PROVE  FlagInv'
<1> SUFFICES TimersInv' /\ SerialInv'
  BY NextType DEF FlagInv
<1> USE DEF calls, timers
<1>1. CASE UNCHANGED vars
  BY <1>1, TimersKept, SerialKept DEF FlagInv, vars
<1>2. CASE PowerCalls
  <2>1. CASE KeyPower
    BY <2>1, TimersKept, GotoSerial, ThreadsType DEF FlagInv, KeyPower
  <2>2. ASSUME NEW on \in BOOLEAN, RemotePower(on)
        PROVE  TimersInv' /\ SerialInv'
    <3>1. TimersInv'
      BY <2>2, TimersKept DEF FlagInv, RemotePower
    <3>2. CASE on = on_ff
      BY <2>2, <3>1, <3>2, SerialKept DEF RemotePower
    <3>3. CASE on # on_ff
      BY <2>2, <3>1, <3>3, GotoSerial, ThreadsType DEF RemotePower
    <3> QED
      BY <3>2, <3>3
  <2>3. CASE SchedulePower
    BY <2>3, TimersKept, GotoSerial, ThreadsType DEF FlagInv, SchedulePower
  <2>4. ASSUME NEW c \in Threads, PowerCheck(c)
        PROVE  TimersInv' /\ SerialInv'
    <3>1. TimersInv'
      BY <2>4, TimersKept DEF FlagInv, PowerCheck
    <3>2. CASE Return(c)
      BY <2>4, <3>1, <3>2, GotoSerial DEF PowerCheck, Return
    <3>3. CASE ~in_delay /\ MayEnter /\
               Goto(c, IF pc[c] = "on" THEN "on_checked" ELSE "off_checked")
      BY <2>4, <3>1, <3>3, GotoSerial DEF PowerCheck, MayEnter
    <3> QED
      BY <2>4, <3>2, <3>3 DEF PowerCheck
  <2>5. ASSUME NEW c \in Threads, PowerStart(c)
        PROVE  TimersInv' /\ SerialInv'
    <3>1. Critical(c) /\ Goto(c, "idle") /\ (StartPowerOn \/ StartPowerOff)
      BY <2>5 DEF PowerStart, Critical, Return
    <3>2. TimersInv'
      BY <3>1, StartKeepsTimers DEF FlagInv, SerialInv
    <3>3. \A d \in Threads : ~Critical(d)'
      BY <3>1 DEF FlagInv, TypeOK, SerialInv, Critical, Goto
    <3> QED
      BY <3>2, <3>3 DEF SerialInv
  <2>6. CASE BootIsr
    <3>1. \A d \in Threads : ~Critical(d) /\ ~Critical(d)'
      BY <2>6 DEF BootIsr, MayEnter, Critical
    <3>2. CASE ~in_delay /\ StartPowerOn
      BY <3>1, <3>2, StartKeepsTimers DEF FlagInv, SerialInv
    <3>3. CASE UNCHANGED <<in_delay, timer, on_id, off_id, led_id>>
      BY <3>1, <3>3, TimersKept DEF FlagInv, SerialInv
    <3> QED
      BY <2>6, <3>2, <3>3 DEF BootIsr
  <2>7. CASE ResetBegin
    BY <2>7, TimersKept, GotoSerial, ThreadsType
    DEF FlagInv, ResetBegin, MayEnter
  <2>8. CASE ResetApply
    <3>1. Critical(User) /\ ~in_delay /\ UNCHANGED in_delay
      BY <2>8, ThreadsType
      DEF ResetApply, Critical, FlagInv, SerialInv, TypeOK
    <3>2. Goto(User, "reset_off") \/ Goto(User, "idle")
      BY <2>8 DEF ResetApply
    <3> QED
      BY <2>8, <3>1, <3>2, TimersKept, GotoSerial, ThreadsType
      DEF ResetApply, FlagInv
  <2>9. CASE ResetPowerOff
    <3>1. Critical(User)
      BY <2>9 DEF ResetPowerOff, Critical
    <3>2. Goto(User, "off_checked") \/ Goto(User, "idle")
      BY <2>9 DEF ResetPowerOff
    <3> QED
      BY <2>9, <3>1, <3>2, TimersKept, GotoSerial, ThreadsType
      DEF ResetPowerOff, FlagInv
  <2> QED
    BY <1>2, <2>1, <2>2, <2>3, <2>4, <2>5, <2>6, <2>7, <2>8, <2>9
    DEF PowerCalls
<1>3. CASE RelayCalls
  <2>1. UNCHANGED <<in_delay, timer, on_id, off_id, led_id>>
    BY <1>3
    DEF RelayCalls, KeyToggleBegin, RelaySetBegin, ScheduleRelayBegin,
        SwitchBegin, KeyToggle, RelaySet, ScheduleRelay, SetDelay
  <2>2. \/ UNCHANGED pc
        \/ \E c \in Threads, l \in {"toggle", "relay", "schedule", "idle"} :
             Goto(c, l)
    BY <1>3, ThreadsType
    DEF RelayCalls, KeyToggleBegin, RelaySetBegin, ScheduleRelayBegin,
        SwitchBegin, KeyToggle, RelaySet, ScheduleRelay, SetDelay
  <2> QED
    BY <2>1, <2>2, TimersKept, GotoSerial, SerialKept DEF FlagInv
<1>4. ASSUME NEW t \in TimerIds, PowerOnTick(t)
      PROVE  TimersInv' /\ SerialInv'
  BY <1>4, OnTickFlag, TickSerial DEF PowerOnTick
<1>5. ASSUME NEW t \in TimerIds, PowerOffTick(t)
      PROVE  TimersInv' /\ SerialInv'
  BY <1>5, OffTickFlag, TickSerial DEF PowerOffTick
<1>6. ASSUME NEW t \in TimerIds, LedTick(t)
      PROVE  TimersInv' /\ SerialInv'
  BY <1>6, TimersKept, SerialKept DEF LedTick, FlagInv
<1>7. CASE MsgTask
  BY <1>7, TimersKept, SerialKept DEF MsgTask, FlagInv
<1> QED
  BY <1>1, <1>2, <1>3, <1>4, <1>5, <1>6, <1>7 DEF Next, Operate, Tick

\* Where the calls that start a sequence never overlap, is_in_delay is set
\* exactly while one sequence callback and the blinking light run, under the
\* ids the callback will delete.
THEOREM FlagIsTimers ==
  ASSUME SerialCalls
  PROVE  Spec => []DelayFlagIsTimers
  BY FlagInvInit, FlagInvNext, FlagInvSuffices, PTL DEF Spec

-----------------------------------------------------------------------------
(* What a sequence does to the relays and how it leaves them: the order in   *)
(* which relays switch, and that pins, records and light agree between       *)
(* sequences.  Both rest on one inductive invariant, on top of the one that  *)
(* ties is_in_delay to the timers.                                           *)

Rising  == \E t \in TimerIds : timer[t] = "on"
Falling == \E t \in TimerIds : timer[t] = "off"

Nobody == \A c \in Threads : ~Switching(c)

\* A factory reset has turned the device off and not opened its relays yet (or
\* user_task is about to start a power-off for another reason).
Dropped == pc[User] \in {"reset_off", "off_checked"}

\* A relay that is fed, or recorded as closed, is one the device wants fed.
WantedInv == \A i \in Relay : (pin[i] => last[i]) /\ (cur[i] => last[i])

\* A callback that counts belongs to a running sequence, no handler is about
\* to switch a relay under it, and it is at the relay whose turn it is.
OnTurnInv  == on_task.counting =>
                Rising /\ Nobody /\ IsLowest(on_task.idx, Waiting(0, cur))
OffTurnInv == off_task.counting =>
                Falling /\ Nobody /\ IsHighest(off_task.idx, Closed(N-1, cur))

\* The records a sequence steers by err on the side of switching again: a
\* power-on holds no relay closed that is open, and otherwise no relay is
\* taken for open that is closed.
RecordInv ==
  /\ Rising  => \A i \in Relay : cur[i] => pin[i]
  /\ ~Rising => \A i \in Relay : pin[i] => cur[i]

\* The relays a device at rest feeds: those it will close at the next power-on.
Ready == IF on_ff THEN last ELSE [i \in Relay |-> FALSE]

\* Between sequences.  Nothing is said of cur, which a boot may restore from the
\* middle of a sequence.
BetweenInv ==
  ~in_delay /\ ~Dropped =>
    /\ \A c \in Threads : Switching(c) => on_ff
    /\ ~on_ff => \A i \in Relay : ~pin[i]
    /\ ~boot_pending => pin = Ready /\ light = on_ff
DarkInv == ~in_delay /\ boot_pending => ~light

RestInv ==
  WantedInv /\ OnTurnInv /\ OffTurnInv /\ RecordInv /\ BetweenInv /\ DarkInv

\* Which sequence runs is told by is_in_delay and the timers.
LEMMA PhaseFacts ==
  ASSUME FlagInv
  PROVE  /\ ~in_delay => ~Rising /\ ~Falling
         /\ ~(Rising /\ Falling)
  BY DEF FlagInv, TimersInv, Runs, AtRest, Rising, Falling

-----------------------------------------------------------------------------
(* Steps of handlers *)

\* A handler that only moves on: it may come to switch a relay where its tests
\* allow it, and user_task stays in the reset it is in.
LEMMA MoveKeeps ==
  ASSUME FlagInv, RestInv,
         UNCHANGED <<on_ff, in_delay, last, cur, pin, light, timer, on_task,
                     off_task, boot_pending>>,
         \A c \in Threads : Switching(c)' => Switching(c) \/ (on_ff /\ ~in_delay),
         Dropped => Dropped'
  PROVE  RestInv'
<1>1. WantedInv' /\ RecordInv' /\ DarkInv'
  BY DEF RestInv, WantedInv, RecordInv, DarkInv, Rising
<1>2. in_delay => (Nobody => Nobody')
  BY DEF Nobody
<1>3. OnTurnInv'
  BY <1>2, PhaseFacts
  DEF RestInv, OnTurnInv, Rising, Waiting, IsLowest
<1>4. OffTurnInv'
  BY <1>2, PhaseFacts
  DEF RestInv, OffTurnInv, Falling, Closed, IsHighest
<1>5. BetweenInv'
  BY DEF RestInv, BetweenInv, Ready
<1> QED
  BY <1>1, <1>3, <1>4, <1>5 DEF RestInv

\* What Goto does to the labels the invariant looks at.
LEMMA GotoMoves ==
  ASSUME TypeOK, NEW c \in Threads, NEW l, Goto(c, l)
  PROVE  /\ \A d \in Threads \ {c} : pc'[d] = pc[d]
         /\ pc'[c] = l
  BY DEF TypeOK, Goto

\* A call that starts a sequence at rest leaves every part in order.
LEMMA StartKeeps ==
  ASSUME FlagInv, RestInv, ~in_delay, StartPowerOn \/ StartPowerOff
  PROVE  RestInv'
<1>1. AtRest /\ ~Rising /\ ~Falling
  BY PhaseFacts DEF FlagInv, TimersInv
<1>2. ~on_task.counting /\ ~off_task.counting
  BY <1>1 DEF RestInv, OnTurnInv, OffTurnInv
<1>3. in_delay' /\ UNCHANGED <<last, pin, on_task, off_task>>
  BY DEF StartPowerOn, StartPowerOff, relays
<1>4. OnTurnInv' /\ OffTurnInv' /\ BetweenInv' /\ DarkInv'
  BY <1>2, <1>3 DEF OnTurnInv, OffTurnInv, BetweenInv, DarkInv
<1>5. CASE StartPowerOn
  <2>1. Rising'
    BY <1>1, <1>5, StartRuns DEF StartPowerOn, Runs, Rising
  <2>2. \A i \in Relay : ~cur'[i]
    BY <1>5 DEF StartPowerOn
  <2> QED
    BY <1>3, <1>4, <2>1, <2>2 DEF RestInv, WantedInv, RecordInv
<1>6. CASE StartPowerOff
  <2>1. ~Rising'
    BY <1>1, <1>6, StartRuns DEF StartPowerOff, Runs, Rising
  <2>2. UNCHANGED cur
    BY <1>6 DEF StartPowerOff, relays
  <2> QED
    BY <1>1, <1>3, <1>4, <2>1, <2>2 DEF RestInv, WantedInv, RecordInv
<1> QED
  BY <1>5, <1>6

\* The values a handler gives some relays, in pins and in both records.
LEMMA SwitchValues ==
  ASSUME TypeOK, NEW S \in SUBSET Relay, NEW val \in [S -> BOOLEAN], Switch(val)
  PROVE  \A i \in Relay :
           \/ /\ i \in S
              /\ pin'[i] = val[i] /\ cur'[i] = val[i] /\ last'[i] = val[i]
           \/ /\ i \notin S
              /\ pin'[i] = pin[i] /\ cur'[i] = cur[i] /\ last'[i] = last[i]
  BY DEF TypeOK, Switch

\* A handler that switches relays does so in pins and records alike.
LEMMA SwitchKeeps ==
  ASSUME FlagInv, RestInv, NEW S \in SUBSET Relay, NEW val \in [S -> BOOLEAN],
         Switch(val), NEW c \in Threads, Switching(c), Goto(c, "idle"),
         UNCHANGED <<on_ff, in_delay, light, timer, on_task, off_task,
                     boot_pending>>
  PROVE  RestInv'
<1>1. TypeOK
  BY DEF FlagInv
<1>2. \A i \in Relay :
        \/ pin'[i] = cur'[i] /\ cur'[i] = last'[i]
        \/ pin'[i] = pin[i] /\ cur'[i] = cur[i] /\ last'[i] = last[i]
  BY <1>1, SwitchValues
<1>3. WantedInv'
  BY <1>2 DEF RestInv, WantedInv
<1>4. RecordInv'
  BY <1>2 DEF RestInv, RecordInv, Rising
<1>5. ~on_task.counting /\ ~off_task.counting
  BY DEF RestInv, OnTurnInv, OffTurnInv, Nobody
<1>6. OnTurnInv' /\ OffTurnInv'
  BY <1>5 DEF OnTurnInv, OffTurnInv
<1>7. ~Dropped' => ~Dropped
  BY <1>1, GotoMoves, ThreadsType DEF Dropped, Switching
<1>8. BetweenInv'
  <2> SUFFICES ASSUME ~in_delay, ~Dropped'
               PROVE  on_ff /\ (~boot_pending => pin' = last' /\ light = on_ff)
    BY DEF BetweenInv, Ready
  <2>1. on_ff
    BY <1>7 DEF RestInv, BetweenInv
  <2>2. ~boot_pending => pin = last /\ light = on_ff
    BY <1>7, <2>1 DEF RestInv, BetweenInv, Ready
  <2>3. last' \in [Relay -> BOOLEAN] /\ pin' \in [Relay -> BOOLEAN]
    BY <1>1, SwitchType
  <2>4. ~boot_pending => \A i \in Relay : pin'[i] = last'[i]
    BY <1>2, <2>2
  <2>5. ~boot_pending => pin' = last'
    BY <2>3, <2>4
  <2> QED
    BY <2>1, <2>2, <2>5
<1>9. DarkInv'
  BY DEF RestInv, DarkInv
<1> QED
  BY <1>3, <1>4, <1>6, <1>8, <1>9 DEF RestInv

\* Factory reset: a running device is dropped, a stopped one wants every relay.
LEMMA ResetKeeps ==
  ASSUME FlagInv, RestInv, ResetApply
  PROVE  RestInv'
<1>1. pc[User] = "reset" /\ ~in_delay /\ ~in_delay' /\ ~on_ff'
  BY ThreadsType DEF ResetApply, FlagInv, SerialInv, Critical
<1>2. UNCHANGED <<pin, light, timer, on_task, off_task, boot_pending>>
  BY DEF ResetApply, lights, timers, tasks
<1>3. ~Rising /\ ~Falling /\ ~Rising' /\ ~Falling'
  BY <1>1, <1>2, PhaseFacts DEF Rising, Falling
<1>4. OnTurnInv' /\ OffTurnInv' /\ DarkInv'
  BY <1>1, <1>2, <1>3 DEF RestInv, OnTurnInv, OffTurnInv, DarkInv
<1>5. TypeOK
  BY DEF FlagInv
<1>6. CASE on_ff
  <2>1. Dropped' /\ UNCHANGED <<last, cur>>
    BY <1>5, <1>6, GotoMoves, ThreadsType DEF ResetApply, Dropped
  <2> QED
    BY <1>2, <1>3, <1>4, <2>1
    DEF RestInv, WantedInv, RecordInv, BetweenInv
<1>7. CASE ~on_ff
  <2>1. ~Dropped
    BY <1>1 DEF Dropped
  <2>2. /\ \A i \in Relay : ~pin[i]
        /\ \A c \in Threads : ~Switching(c)
        /\ ~boot_pending => pin = [i \in Relay |-> FALSE] /\ light = on_ff
    BY <1>1, <1>7, <2>1 DEF RestInv, BetweenInv, Ready
  <2>3. /\ last' = [i \in Relay |-> TRUE] /\ cur' = [i \in Relay |-> FALSE]
        /\ Goto(User, "idle")
    BY <1>7 DEF ResetApply
  <2>4. \A c \in Threads : ~Switching(c)'
    BY <1>5, <2>2, <2>3, GotoMoves, ThreadsType DEF Switching
  <2>5. WantedInv' /\ RecordInv'
    BY <1>2, <1>3, <2>2, <2>3 DEF RestInv, WantedInv, RecordInv
  <2>6. on_ff = FALSE /\ on_ff' = FALSE
    BY <1>5, <1>7 DEF TypeOK, ResetApply
  <2>7. BetweenInv'
    BY <1>2, <2>2, <2>4, <2>6 DEF BetweenInv, Ready
  <2> QED
    BY <1>4, <2>5, <2>7 DEF RestInv
<1> QED
  BY <1>6, <1>7
-----------------------------------------------------------------------------
(* Steps of the callbacks *)

\* A callback runs in the sequence that added it, after the boot interrupt and
\* while no handler switches.
LEMMA TickFacts ==
  ASSUME FlagInv, NEW t \in TimerIds, MayTick
  PROVE  /\ Nobody /\ ~boot_pending
         /\ timer[t] = "on"  => in_delay /\ Rising /\ ~Falling /\ Runs("on", on_id)
         /\ timer[t] = "off" => in_delay /\ Falling /\ ~Rising /\ Runs("off", off_id)
  BY PhaseFacts
  DEF FlagInv, TimersInv, AtRest, Runs, Rising, Falling, MayTick, Nobody

\* The relay a callback counts or switches is the one whose turn it is.
LEMMA Turn ==
  ASSUME RestInv, NEW i \in Relay
  PROVE  /\ OnTarget(i)  => IsLowest(i, Waiting(0, cur))
         /\ OffTarget(i) => IsHighest(i, Closed(N-1, cur))
  BY DEF RestInv, OnTurnInv, OffTurnInv, OnTarget, OffTarget

\* Looking on from the relay just closed finds all that is still to close.
LEMMA LookUp ==
  ASSUME TypeOK, NEW i \in Relay, IsLowest(i, Waiting(0, cur)),
         cur' = [cur EXCEPT ![i] = TRUE], UNCHANGED last
  PROVE  Waiting(0, cur)' = Waiting(i, cur')
<1>1. \A j \in Relay : cur'[j] = IF j = i THEN TRUE ELSE cur[j]
  BY DEF TypeOK
<1>2. \A j \in Relay : j \in Waiting(0, cur)' <=> j \in Waiting(i, cur')
  BY <1>1, NAssumption DEF IsLowest, Waiting, Relay
<1>3. Waiting(0, cur)' \subseteq Relay /\ Waiting(i, cur') \subseteq Relay
  BY NAssumption DEF Waiting, Relay
<1> QED
  BY <1>2, <1>3

\* The same looking down from the relay just opened.
LEMMA LookDown ==
  ASSUME TypeOK, NEW i \in Relay, IsHighest(i, Closed(N-1, cur)),
         cur' = [cur EXCEPT ![i] = FALSE]
  PROVE  Closed(N-1, cur)' = Closed(i, cur')
<1>1. \A j \in Relay : cur'[j] = IF j = i THEN FALSE ELSE cur[j]
  BY DEF TypeOK
<1>2. \A j \in Relay : j \in Closed(N-1, cur)' <=> j \in Closed(i, cur')
  BY <1>1, NAssumption DEF IsHighest, Closed, Relay
<1>3. Closed(N-1, cur)' \subseteq Relay /\ Closed(i, cur') \subseteq Relay
  BY NAssumption DEF Closed, Relay
<1> QED
  BY <1>2, <1>3

\* A power-on that found nothing more to close leaves a device that is on.
LEMMA OnEnds ==
  ASSUME FlagInv, FlagInv', RestInv, NEW t \in TimerIds, PowerOnTick(t),
         Finish(TRUE), ~on_task'.counting, UNCHANGED last, WantedInv',
         \A i \in Relay : cur'[i] => pin'[i],
         Waiting(0, cur)' = {}
  PROVE  RestInv'
<1>1. timer[t] = "on" /\ MayTick /\ UNCHANGED <<off_task, boot_pending>>
  BY DEF PowerOnTick
<1>2. Nobody /\ ~boot_pending /\ ~Falling
  BY <1>1, TickFacts
<1>3. ~in_delay' /\ on_ff' /\ light' = on_ff'
  BY DEF Finish
<1>4. ~Rising' /\ ~Falling'
  BY <1>3, PhaseFacts DEF FlagInv, TimersInv, AtRest, Rising, Falling
<1>5. OnTurnInv' /\ OffTurnInv' /\ DarkInv'
  BY <1>1, <1>2 DEF RestInv, OnTurnInv, OffTurnInv, DarkInv
<1>6. \A i \in Relay : cur'[i] = last'[i] /\ pin'[i] = cur'[i]
  <2> SUFFICES ASSUME NEW i \in Relay
               PROVE  cur'[i] = last'[i] /\ pin'[i] = cur'[i]
    OBVIOUS
  <2>1. last'[i] => cur'[i]
    BY NAssumption DEF Waiting, Relay
  <2>2. /\ cur'[i] \in BOOLEAN /\ last'[i] \in BOOLEAN
        /\ pin'[i] \in BOOLEAN
    BY DEF FlagInv, TypeOK
  <2> QED
    BY <2>1, <2>2 DEF WantedInv
<1>7. cur' = last' /\ pin' = cur'
  BY <1>6 DEF FlagInv, TypeOK
<1>8. Nobody'
  BY <1>2 DEF PowerOnTick, Nobody, Switching, calls
<1> QED
  BY <1>3, <1>4, <1>5, <1>7, <1>8
  DEF RestInv, RecordInv, BetweenInv, Ready, Nobody

\* A power-off that found nothing more to open leaves a device that is off.
LEMMA OffEnds ==
  ASSUME FlagInv, FlagInv', RestInv, NEW t \in TimerIds, PowerOffTick(t),
         Finish(FALSE), ~off_task'.counting, UNCHANGED last, WantedInv',
         \A i \in Relay : pin'[i] => cur'[i],
         Closed(N-1, cur)' = {}
  PROVE  RestInv'
<1>1. timer[t] = "off" /\ MayTick /\ UNCHANGED <<on_task, boot_pending>>
  BY DEF PowerOffTick
<1>2. Nobody /\ ~boot_pending /\ ~Rising
  BY <1>1, TickFacts
<1>3. ~in_delay' /\ ~on_ff' /\ light' = on_ff'
  BY DEF Finish
<1>4. ~Rising' /\ ~Falling'
  BY <1>3, PhaseFacts DEF FlagInv, TimersInv, AtRest, Rising, Falling
<1>5. OnTurnInv' /\ OffTurnInv' /\ DarkInv'
  BY <1>1, <1>2 DEF RestInv, OnTurnInv, OffTurnInv, DarkInv
<1>6. \A i \in Relay : cur'[i] = FALSE /\ pin'[i] = FALSE
  BY NAssumption DEF Closed, FlagInv, TypeOK, Relay
<1>7. cur' = [i \in Relay |-> FALSE] /\ pin' = cur'
  BY <1>6 DEF FlagInv, TypeOK
<1>8. Nobody'
  BY <1>2 DEF PowerOffTick, Nobody, Switching, calls
<1> QED
  BY <1>3, <1>4, <1>5, <1>6, <1>7, <1>8
  DEF RestInv, RecordInv, BetweenInv, Ready, Nobody

\* A step of the power-on callback that goes on with relay j.
LEMMA OnGoesOn ==
  ASSUME FlagInv, RestInv, NEW t \in TimerIds, PowerOnTick(t), in_delay',
         UNCHANGED <<timer, last>>, WantedInv',
         \A i \in Relay : cur'[i] => pin'[i],
         IsLowest(on_task'.idx, Waiting(0, cur)')
  PROVE  RestInv'
<1>1. timer[t] = "on" /\ MayTick /\ UNCHANGED <<off_task, boot_pending, pc>>
  BY DEF PowerOnTick, calls
<1>2. Nobody /\ Rising /\ ~Falling
  BY <1>1, TickFacts
<1>3. Nobody' /\ Rising' /\ ~Falling'
  BY <1>1, <1>2 DEF Nobody, Switching, Rising, Falling
<1>4. IsLowest(on_task.idx, Waiting(0, cur))'
  BY DEF IsLowest
<1> QED
  BY <1>1, <1>2, <1>3, <1>4
  DEF RestInv, RecordInv, BetweenInv, DarkInv, OnTurnInv, OffTurnInv

\* The same of the power-off callback.
LEMMA OffGoesOn ==
  ASSUME FlagInv, RestInv, NEW t \in TimerIds, PowerOffTick(t), in_delay',
         UNCHANGED <<timer, last>>, WantedInv',
         \A i \in Relay : pin'[i] => cur'[i],
         IsHighest(off_task'.idx, Closed(N-1, cur)')
  PROVE  RestInv'
<1>1. timer[t] = "off" /\ MayTick /\ UNCHANGED <<on_task, boot_pending, pc>>
  BY DEF PowerOffTick, calls
<1>2. Nobody /\ Falling /\ ~Rising
  BY <1>1, TickFacts
<1>3. Nobody' /\ Falling' /\ ~Rising'
  BY <1>1, <1>2 DEF Nobody, Switching, Rising, Falling
<1>4. IsHighest(off_task.idx, Closed(N-1, cur))'
  BY DEF IsHighest
<1> QED
  BY <1>1, <1>2, <1>3, <1>4
  DEF RestInv, RecordInv, BetweenInv, DarkInv, OnTurnInv, OffTurnInv
\* Whatever the power-on callback does, the invariant stays.
LEMMA OnTickKeeps ==
  ASSUME FlagInv, FlagInv', RestInv, NEW t \in TimerIds, PowerOnTick(t)
  PROVE  RestInv'
<1>1. Rising /\ TypeOK
  BY TickFacts DEF PowerOnTick, FlagInv
<1>2. \A i \in Relay : cur[i] => pin[i]
  BY <1>1 DEF RestInv, RecordInv
<1>3. CASE OnNothing
  <2>1. UNCHANGED <<last, cur, pin, on_task>> /\ ~on_task.counting
    BY <1>3 DEF OnNothing, relays
  <2>2. WantedInv' /\ Waiting(0, cur)' = {} /\ Finish(TRUE)
    BY <1>3, <2>1 DEF OnNothing, RestInv, WantedInv, Waiting
  <2> QED
    BY <1>2, <2>1, <2>2, OnEnds
<1>4. ASSUME NEW i \in Relay, OnCount(i) PROVE RestInv'
  <2>1. UNCHANGED <<last, cur, pin, timer>> /\ on_task'.idx = i /\ in_delay'
    BY <1>4, TickFacts DEF OnCount, relays, PowerOnTick
  <2>2. IsLowest(i, Waiting(0, cur))
    BY <1>4, Turn DEF OnCount
  <2>3. IsLowest(on_task'.idx, Waiting(0, cur)') /\ WantedInv'
    BY <2>1, <2>2 DEF Waiting, RestInv, WantedInv
  <2> QED
    BY <1>2, <2>1, <2>3, OnGoesOn
<1>5. ASSUME NEW i \in Relay, OnSwitch(i) PROVE RestInv'
  <2>1. /\ pin' = [pin EXCEPT ![i] = TRUE] /\ cur' = [cur EXCEPT ![i] = TRUE]
        /\ UNCHANGED last
    BY <1>5 DEF OnSwitch
  <2>2. IsLowest(i, Waiting(0, cur))
    BY <1>5, Turn DEF OnSwitch
  <2>3. last[i] /\ Waiting(0, cur)' = Waiting(i, cur')
    BY <1>1, <2>1, <2>2, LookUp DEF IsLowest, Waiting
  <2>4. WantedInv' /\ \A j \in Relay : cur'[j] => pin'[j]
    BY <1>1, <1>2, <2>1, <2>3 DEF TypeOK, RestInv, WantedInv
  <2>5. CASE Waiting(i, cur') = {} /\ Finish(TRUE) /\ on_task' = NotCounting
    BY <2>1, <2>3, <2>4, <2>5, OnEnds DEF NotCounting
  <2>6. ASSUME NEW j \in Relay, IsLowest(j, Waiting(i, cur')),
               on_task' = [counting |-> TRUE, idx |-> j, time |-> open_time[j]],
               in_delay', UNCHANGED timer
        PROVE  RestInv'
    <3>1. IsLowest(on_task'.idx, Waiting(0, cur)')
      BY <2>3, <2>6
    <3> QED
      BY <2>1, <2>4, <2>6, <3>1, OnGoesOn
  <2> QED
    BY <1>5, <2>5, <2>6 DEF OnSwitch
<1> QED
  BY <1>3, <1>4, <1>5 DEF PowerOnTick

\* The same of the power-off callback.
LEMMA OffTickKeeps ==
  ASSUME FlagInv, FlagInv', RestInv, NEW t \in TimerIds, PowerOffTick(t)
  PROVE  RestInv'
<1>1. ~Rising /\ TypeOK
  BY TickFacts DEF PowerOffTick, FlagInv
<1>2. \A i \in Relay : pin[i] => cur[i]
  BY <1>1 DEF RestInv, RecordInv
<1>3. CASE OffNothing
  <2>1. UNCHANGED <<last, cur, pin, off_task>> /\ ~off_task.counting
    BY <1>3 DEF OffNothing, relays
  <2>2. WantedInv' /\ Closed(N-1, cur)' = {} /\ Finish(FALSE)
    BY <1>3, <2>1 DEF OffNothing, RestInv, WantedInv, Closed
  <2> QED
    BY <1>2, <2>1, <2>2, OffEnds
<1>4. ASSUME NEW i \in Relay, OffCount(i) PROVE RestInv'
  <2>1. UNCHANGED <<last, cur, pin, timer>> /\ off_task'.idx = i /\ in_delay'
    BY <1>4, TickFacts DEF OffCount, relays, PowerOffTick
  <2>2. IsHighest(i, Closed(N-1, cur))
    BY <1>4, Turn DEF OffCount
  <2>3. IsHighest(off_task'.idx, Closed(N-1, cur)') /\ WantedInv'
    BY <2>1, <2>2 DEF Closed, RestInv, WantedInv
  <2> QED
    BY <1>2, <2>1, <2>3, OffGoesOn
<1>5. ASSUME NEW i \in Relay, OffSwitch(i) PROVE RestInv'
  <2>1. /\ pin' = [pin EXCEPT ![i] = FALSE] /\ cur' = [cur EXCEPT ![i] = FALSE]
        /\ UNCHANGED last
    BY <1>5 DEF OffSwitch
  <2>2. IsHighest(i, Closed(N-1, cur))
    BY <1>5, Turn DEF OffSwitch
  <2>3. Closed(N-1, cur)' = Closed(i, cur')
    BY <1>1, <2>1, <2>2, LookDown
  <2>4. WantedInv' /\ \A j \in Relay : pin'[j] => cur'[j]
    BY <1>1, <1>2, <2>1 DEF TypeOK, RestInv, WantedInv
  <2>5. CASE Closed(i, cur') = {} /\ Finish(FALSE) /\ off_task' = NotCounting
    BY <2>1, <2>3, <2>4, <2>5, OffEnds DEF NotCounting
  <2>6. ASSUME NEW j \in Relay, IsHighest(j, Closed(i, cur')),
               off_task' = [counting |-> TRUE, idx |-> j,
                            time |-> close_time[j] % CounterMod],
               in_delay', UNCHANGED timer
        PROVE  RestInv'
    <3>1. IsHighest(off_task'.idx, Closed(N-1, cur)')
      BY <2>3, <2>6
    <3> QED
      BY <2>1, <2>4, <2>6, <3>1, OffGoesOn
  <2> QED
    BY <1>5, <2>5, <2>6 DEF OffSwitch
<1> QED
  BY <1>3, <1>4, <1>5 DEF PowerOffTick

\* The light blinks only in a sequence.
LEMMA LedKeeps ==
  ASSUME FlagInv, RestInv, NEW t \in TimerIds, LedTick(t)
  PROVE  RestInv'
<1>1. in_delay /\ UNCHANGED <<in_delay, relays, timers, tasks, pc>>
  BY DEF LedTick, FlagInv, TimersInv, AtRest, calls
<1>2. WantedInv' /\ RecordInv' /\ BetweenInv' /\ DarkInv'
  BY <1>1
  DEF RestInv, WantedInv, RecordInv, BetweenInv, DarkInv, Rising, relays, timers
<1>3. OnTurnInv' /\ OffTurnInv'
  BY <1>1
  DEF RestInv, OnTurnInv, OffTurnInv, Rising, Falling, Nobody, Switching,
      Waiting, Closed, IsLowest, IsHighest, relays, timers, tasks
<1> QED
  BY <1>2, <1>3 DEF RestInv
-----------------------------------------------------------------------------
(* The invariant holds, and what follows from it *)

\* A device at rest with its pins still open satisfies the invariant.
LEMMA RestInvInit == Init => RestInv
<1> SUFFICES ASSUME Init PROVE RestInv
  OBVIOUS
<1>1. ~in_delay /\ ~light /\ boot_pending /\ ~Rising
  BY DEF Init, Rising
<1>2. ~on_task.counting /\ ~off_task.counting
  BY DEF Init, NotCounting
<1>3. \A i \in Relay : ~pin[i] /\ (cur[i] => last[i])
  BY DEF Init, Stored
<1>4. Nobody
  BY DEF Init, Nobody, Switching
<1>5. BetweenInv
  BY <1>1, <1>3, <1>4 DEF BetweenInv, Nobody
<1> QED
  BY <1>1, <1>2, <1>3, <1>5
  DEF RestInv, WantedInv, OnTurnInv, OffTurnInv, RecordInv, DarkInv

\* Calls that start a sequence, up to its start.
LEMMA PowerCallsKeep ==
  ASSUME SerialCalls, FlagInv, RestInv, PowerCalls
  PROVE  RestInv'
<1> USE DEF relays, lights, timers, tasks
<1> TypeOK
  BY DEF FlagInv
<1>1. CASE KeyPower
  BY <1>1, GotoMoves, MoveKeeps, ThreadsType DEF KeyPower, Switching, Dropped
<1>2. ASSUME NEW on \in BOOLEAN, RemotePower(on) PROVE RestInv'
  <2>1. CASE on = on_ff
    BY <1>2, <2>1, MoveKeeps DEF RemotePower, Switching, Dropped, calls
  <2>2. CASE on # on_ff
    BY <1>2, <2>2, GotoMoves, MoveKeeps, ThreadsType
    DEF RemotePower, Switching, Dropped
  <2> QED
    BY <2>1, <2>2
<1>3. CASE SchedulePower
  BY <1>3, GotoMoves, MoveKeeps, ThreadsType
  DEF SchedulePower, Switching, Dropped
<1>4. ASSUME NEW c \in Threads, PowerCheck(c) PROVE RestInv'
  <2>1. PICK l \in {"idle", "on_checked", "off_checked"} : Goto(c, l)
    BY <1>4 DEF PowerCheck, Return
  <2> QED
    BY <1>4, <2>1, GotoMoves, MoveKeeps, ThreadsType
    DEF PowerCheck, Switching, Dropped
<1>5. ASSUME NEW c \in Threads, PowerStart(c) PROVE RestInv'
  <2>1. ~in_delay /\ (StartPowerOn \/ StartPowerOff)
    BY <1>5 DEF PowerStart, FlagInv, SerialInv, Critical
  <2> QED
    BY <2>1, StartKeeps
<1>6. CASE BootIsr
  <2>1. CASE ~in_delay /\ StartPowerOn
    BY <2>1, StartKeeps
  <2>2. CASE ~(on_ff /\ ~in_delay)
    <3>1. /\ ~boot_pending' /\ boot_pending
          /\ UNCHANGED <<on_ff, in_delay, last, cur, pin, light, timer, on_task,
                         off_task, pc>>
      BY <1>6, <2>2 DEF BootIsr, calls
    <3>2. ~Dropped
      BY <1>6, ThreadsType DEF BootIsr, MayEnter, Critical, Dropped
    <3>3. /\ WantedInv' /\ OnTurnInv' /\ OffTurnInv' /\ RecordInv' /\ DarkInv'
      BY <3>1
      DEF RestInv, WantedInv, OnTurnInv, OffTurnInv, RecordInv, DarkInv, Rising,
          Falling, Nobody, Switching, Waiting, Closed, IsLowest, IsHighest
    <3>4. CASE in_delay
      BY <3>1, <3>3, <3>4 DEF RestInv, BetweenInv
    <3>5. CASE ~in_delay
      <4>1. on_ff = FALSE /\ light = FALSE
        BY <2>2, <3>1, <3>5 DEF RestInv, DarkInv, TypeOK
      <4>2. (\A i \in Relay : ~pin[i]) /\ Nobody
        BY <3>2, <3>5, <4>1 DEF RestInv, BetweenInv, Nobody
      <4>3. pin = [i \in Relay |-> FALSE]
        BY <4>2 DEF TypeOK
      <4> QED
        BY <3>1, <3>3, <4>1, <4>2, <4>3
        DEF RestInv, BetweenInv, Ready, Nobody, Switching
    <3> QED
      BY <3>4, <3>5
  <2> QED
    BY <1>6, <2>1, <2>2 DEF BootIsr
<1>7. CASE ResetBegin
  BY <1>7, GotoMoves, MoveKeeps, ThreadsType DEF ResetBegin, Switching, Dropped
<1>8. CASE ResetApply
  BY <1>8, ResetKeeps
<1>9. CASE ResetPowerOff
  <2>1. ~in_delay
    BY <1>9, ThreadsType DEF ResetPowerOff, FlagInv, SerialInv, Critical
  <2> QED
    BY <1>9, <2>1, GotoMoves, MoveKeeps, ThreadsType
    DEF ResetPowerOff, Switching, Dropped
<1> QED
  BY <1>1, <1>2, <1>3, <1>4, <1>5, <1>6, <1>7, <1>8, <1>9 DEF PowerCalls

\* Calls that switch single relays or set a delay.
LEMMA RelayCallsKeep ==
  ASSUME FlagInv, RestInv, RelayCalls
  PROVE  RestInv'
<1> USE DEF lights, timers, tasks
<1> TypeOK
  BY DEF FlagInv
<1>1. ASSUME NEW c \in Threads, NEW l \in {"toggle", "relay", "schedule"},
             SwitchBegin(c, l)
      PROVE  RestInv'
  BY <1>1, GotoMoves, MoveKeeps, ThreadsType
  DEF SwitchBegin, Switching, Dropped, relays
<1>2. CASE KeyToggle
  <2>1. PICK i \in Relay : Switch([j \in {i} |-> ~pin[i]])
    BY <1>2 DEF KeyToggle
  <2>2. [j \in {i} |-> ~pin[i]] \in [{i} -> BOOLEAN]
    OBVIOUS
  <2> QED
    BY ZenonT(30), <1>2, <2>1, <2>2, SwitchKeeps, ThreadsType DEF KeyToggle, Switching
<1>3. CASE RelaySet
  <2>1. PICK i \in Relay, v \in BOOLEAN : Switch([j \in {i} |-> v])
    BY <1>3 DEF RelaySet
  <2>2. [j \in {i} |-> v] \in [{i} -> BOOLEAN]
    OBVIOUS
  <2> QED
    BY <1>3, <2>1, <2>2, SwitchKeeps, ThreadsType DEF RelaySet, Switching
<1>4. CASE ScheduleRelay
  <2>1. PICK S \in SUBSET (0 .. N-2) : \E val \in [S -> BOOLEAN] : Switch(val)
    BY <1>4 DEF ScheduleRelay
  <2>2. S \in SUBSET Relay
    BY NAssumption DEF Relay
  <2> QED
    BY <1>4, <2>1, <2>2, SwitchKeeps, ThreadsType DEF ScheduleRelay, Switching
<1>5. CASE SetDelay
  BY <1>5, MoveKeeps DEF SetDelay, Switching, Dropped, relays, calls
<1> QED
  BY <1>1, <1>2, <1>3, <1>4, <1>5, ThreadsType
  DEF RelayCalls, KeyToggleBegin, RelaySetBegin, ScheduleRelayBegin

\* Every step keeps the invariant.
LEMMA RestInvNext ==
  ASSUME SerialCalls, FlagInv, FlagInv', RestInv, [Next]_vars
  PROVE  RestInv'
<1>1. CASE UNCHANGED vars \/ MsgTask
  BY <1>1, MoveKeeps
  DEF vars, MsgTask, Switching, Dropped, relays, lights, timers, tasks, calls
<1>2. CASE \E t \in TimerIds : PowerOnTick(t) \/ PowerOffTick(t) \/ LedTick(t)
  BY <1>2, OnTickKeeps, OffTickKeeps, LedKeeps
<1> QED
  BY <1>1, <1>2, PowerCallsKeep, RelayCallsKeep DEF Next, Operate, Tick

\* Both invariants hold where the calls that start a sequence do not overlap.
LEMMA Invariant ==
  ASSUME SerialCalls
  PROVE  Spec => [](FlagInv /\ RestInv)
<1>1. FlagInv /\ RestInv /\ [Next]_vars => (FlagInv /\ RestInv)'
  BY FlagInvNext, RestInvNext
<1> QED
  BY FlagInvInit, RestInvInit, <1>1, PTL DEF Spec

\* The record of a device at rest that is off has no relay closed.  A device
\* that lost power within a sequence may boot with another record: this part is
\* no part of RestInv.
OpenInv == ~in_delay /\ ~Dropped /\ ~on_ff => \A i \in Relay : ~cur[i]

\* A power-off ends only when it finds no relay recorded as closed.
LEMMA OffTickOpens ==
  ASSUME FlagInv, RestInv, NEW t \in TimerIds, PowerOffTick(t)
  PROVE  in_delay' \/ \A i \in Relay : ~cur'[i]
<1>1. TypeOK /\ in_delay
  BY TickFacts DEF PowerOffTick, FlagInv
<1>2. CASE OffNothing
  BY <1>2, NAssumption DEF OffNothing, Closed, Relay, relays
<1>3. ASSUME NEW i \in Relay, OffSwitch(i), ~in_delay'
      PROVE  \A j \in Relay : ~cur'[j]
  <2>1. Closed(N-1, cur)' = {}
    BY <1>1, <1>3, Turn, LookDown DEF OffSwitch
  <2> QED
    BY <2>1, NAssumption DEF Closed, Relay
<1> QED
  BY <1>1, <1>2, <1>3 DEF PowerOffTick, OffCount

\* Every step keeps it: whatever else changes a record starts a sequence, or is
\* done to a device that is on.
LEMMA OpenInvNext ==
  ASSUME SerialCalls, FlagInv, RestInv, OpenInv, [Next]_vars
  PROVE  OpenInv'
<1> USE DEF OpenInv, Dropped, relays
<1> TypeOK
  BY DEF FlagInv
<1>1. CASE UNCHANGED vars \/ MsgTask \/ (\E t \in TimerIds : LedTick(t)) \/ SetDelay
  BY <1>1 DEF vars, MsgTask, LedTick, SetDelay, calls
<1>2. ASSUME NEW c \in Threads, PowerStart(c) PROVE OpenInv'
  BY <1>2 DEF PowerStart, StartPowerOn, StartPowerOff
<1>3. CASE BootIsr
  BY <1>3 DEF BootIsr, StartPowerOn, calls
<1>4. CASE ResetApply
  <2>1. on_ff => pc'[User] = "reset_off"
    BY <1>4, GotoMoves, ThreadsType DEF ResetApply
  <2> QED
    BY <1>4, <2>1 DEF ResetApply
<1>5. ASSUME NEW c \in Threads, NEW l, Goto(c, l), UNCHANGED <<on_ff, in_delay, cur>>,
             Dropped /\ c = User => l \in {"reset_off", "off_checked"} \/ in_delay
      PROVE  OpenInv'
  BY <1>5, GotoMoves, ThreadsType
<1>6. CASE KeyPower \/ SchedulePower \/ ResetBegin \/ ResetPowerOff
  BY <1>5, <1>6, ThreadsType DEF KeyPower, SchedulePower, ResetBegin, ResetPowerOff
<1>7. ASSUME NEW on \in BOOLEAN, RemotePower(on) PROVE OpenInv'
  BY <1>5, <1>7, ThreadsType DEF RemotePower, calls
<1>8. ASSUME NEW c \in Threads, PowerCheck(c) PROVE OpenInv'
  BY <1>5, <1>8, ThreadsType DEF PowerCheck, Return
<1>9. CASE KeyToggle \/ RelaySet \/ ScheduleRelay
  <2>1. PICK c \in Threads : Switching(c) /\ Goto(c, "idle")
    BY <1>9, ThreadsType DEF KeyToggle, RelaySet, ScheduleRelay, Switching
  <2>2. Dropped' <=> Dropped
    BY <2>1, GotoMoves, ThreadsType DEF Switching
  <2>3. UNCHANGED <<on_ff, in_delay>>
    BY <1>9 DEF KeyToggle, RelaySet, ScheduleRelay
  <2> QED
    BY <2>1, <2>2, <2>3 DEF RestInv, BetweenInv
<1>10. CASE KeyToggleBegin \/ RelaySetBegin \/ ScheduleRelayBegin
  BY <1>5, <1>10, ThreadsType
  DEF KeyToggleBegin, RelaySetBegin, ScheduleRelayBegin, SwitchBegin
<1>11. ASSUME NEW t \in TimerIds, PowerOnTick(t) PROVE OpenInv'
  BY <1>11, TickFacts DEF PowerOnTick, OnNothing, OnCount, OnSwitch, Finish
<1>12. ASSUME NEW t \in TimerIds, PowerOffTick(t) PROVE OpenInv'
  BY <1>12, OffTickOpens
<1> QED
  BY <1>1, <1>2, <1>3, <1>4, <1>6, <1>7, <1>8, <1>9, <1>10, <1>11, <1>12
  DEF Next, Operate, PowerCalls, RelayCalls, Tick

\* Where starting calls do not overlap, a device between two sequences feeds
\* exactly the relays its records say, and those it will close again at the
\* next power-on; its light shows whether it is on.
THEOREM RestRecorded ==
  ASSUME SerialCalls
  PROVE  Spec => []RestRecord
<1>1. FlagInv /\ RestInv /\ OpenInv => RestRecord
  <2> SUFFICES ASSUME FlagInv, RestInv, OpenInv, ~in_delay, ~boot_pending,
                      \A c \in Threads : ~Critical(c)
               PROVE  cur = Ready /\ pin = cur /\ light = on_ff
    BY DEF RestRecord, Ready
  <2>1. ~Dropped /\ ~Rising
    BY ThreadsType, PhaseFacts DEF Dropped, Critical
  <2>2. pin = Ready /\ light = on_ff
    BY <2>1 DEF RestInv, BetweenInv
  <2>3. \A i \in Relay : cur[i] = pin[i]
    <3>1. CASE on_ff
      <4>1. \A i \in Relay : (pin[i] => cur[i]) /\ (cur[i] => pin[i])
        BY <2>1, <2>2, <3>1 DEF RestInv, RecordInv, WantedInv, Ready
      <4> QED
        BY <4>1 DEF FlagInv, TypeOK
    <3>2. CASE ~on_ff
      BY <2>1, <2>2, <3>2 DEF OpenInv, Ready, FlagInv, TypeOK
    <3> QED
      BY <3>1, <3>2
  <2>4. cur = pin
    BY <2>3 DEF FlagInv, TypeOK
  <2> QED
    BY <2>2, <2>4
<1>2. Init => OpenInv
  BY DEF Init, Stored, OpenInv
<1>3. FlagInv /\ RestInv /\ OpenInv /\ [Next]_vars => OpenInv'
  BY OpenInvNext
<1> QED
  BY <1>1, <1>2, <1>3, Invariant, PTL DEF Spec

\* No step that leaves all handlers where they are switches a relay, but those
\* of a callback.
LEMMA SequencedPins ==
  ASSUME TypeOK, [Next]_vars, Sequenced, pin' # pin
  PROVE  \E t \in TimerIds : PowerOnTick(t) \/ PowerOffTick(t)
<1>1. \A c \in Threads : Switching(c) => ~Goto(c, "idle")
  <2> SUFFICES ASSUME NEW c \in Threads, Switching(c), Goto(c, "idle")
               PROVE  FALSE
    OBVIOUS
  <2> QED
    BY GotoMoves DEF Sequenced, Switching
<1>2. ~KeyToggle /\ ~RelaySet /\ ~ScheduleRelay
  BY <1>1, ThreadsType DEF KeyToggle, RelaySet, ScheduleRelay, Switching
<1>3. ~(UNCHANGED vars) /\ ~MsgTask /\ ~SetDelay
  BY DEF vars, MsgTask, SetDelay, relays
<1>4. ~PowerCalls
  BY DEF PowerCalls, KeyPower, RemotePower, SchedulePower, PowerCheck,
     PowerStart, BootIsr, ResetBegin, ResetApply, ResetPowerOff, StartPowerOn,
     StartPowerOff, relays
<1>5. ~RelayCalls
  BY <1>2, <1>3
  DEF RelayCalls, KeyToggleBegin, RelaySetBegin, ScheduleRelayBegin,
      SwitchBegin, relays
<1>6. ~\E t \in TimerIds : LedTick(t)
  BY DEF LedTick, relays
<1> QED
  BY <1>3, <1>4, <1>5, <1>6 DEF Next, Operate, Tick

\* Where starting calls do not overlap, a sequence switches one relay at a
\* time: closing from the lowest relay up, only relays that were closed before
\* the last power-off, and opening from the highest down.
THEOREM SequenceInOrder ==
  ASSUME SerialCalls
  PROVE  Spec => SequenceOrder
<1> DEFINE InOrder ==
      Sequenced => \A i \in Relay : pin'[i] # pin[i] =>
        /\ \A j \in Relay \ {i} : pin'[j] = pin[j]
        /\ pin'[i]  => last[i] /\ \A j \in Relay : j < i => (last[j] => pin[j])
        /\ ~pin'[i] => \A j \in Relay : j > i => ~pin[j]
<1>1. FlagInv /\ RestInv /\ [Next]_vars => [InOrder]_vars
  <2> SUFFICES ASSUME FlagInv, RestInv, [Next]_vars, Sequenced,
                      NEW i \in Relay, pin'[i] # pin[i]
               PROVE  /\ \A j \in Relay \ {i} : pin'[j] = pin[j]
                      /\ pin'[i] => /\ last[i]
                                    /\ \A j \in Relay : j < i => (last[j] => pin[j])
                      /\ ~pin'[i] => \A j \in Relay : j > i => ~pin[j]
    OBVIOUS
  <2>1. TypeOK
    BY DEF FlagInv
  <2>2. PICK t \in TimerIds : PowerOnTick(t) \/ PowerOffTick(t)
    BY <2>1, SequencedPins
  <2>3. CASE PowerOnTick(t)
    <3>1. PICK k \in Relay : OnSwitch(k)
      BY <2>3 DEF PowerOnTick, OnNothing, OnCount, relays
    <3>2. \A j \in Relay : pin'[j] = IF j = k THEN TRUE ELSE pin[j]
      BY <2>1, <3>1 DEF OnSwitch, TypeOK
    <3>3. IsLowest(i, Waiting(0, cur)) /\ k = i
      BY <3>1, <3>2, Turn DEF OnSwitch
    <3>4. \A j \in Relay : cur[j] => pin[j]
      BY <2>3, TickFacts DEF PowerOnTick, RestInv, RecordInv
    <3>5. last[i] /\ \A j \in Relay : j < i => (last[j] => cur[j])
      BY <3>3 DEF IsLowest, Waiting, Relay
    <3> QED
      BY <3>2, <3>3, <3>4, <3>5
  <2>4. CASE PowerOffTick(t)
    <3>1. PICK k \in Relay : OffSwitch(k)
      BY <2>4 DEF PowerOffTick, OffNothing, OffCount, relays
    <3>2. \A j \in Relay : pin'[j] = IF j = k THEN FALSE ELSE pin[j]
      BY <2>1, <3>1 DEF OffSwitch, TypeOK
    <3>3. IsHighest(i, Closed(N-1, cur)) /\ k = i
      BY <3>1, <3>2, Turn DEF OffSwitch
    <3>4. \A j \in Relay : pin[j] => cur[j]
      BY <2>4, TickFacts DEF PowerOffTick, RestInv, RecordInv
    <3>5. \A j \in Relay : j > i => ~cur[j]
      BY <3>3, NAssumption DEF IsHighest, Closed, Relay
    <3> QED
      BY <3>2, <3>3, <3>4, <3>5
  <2> QED
    BY <2>2, <2>3, <2>4
<1> QED
  BY <1>1, Invariant, PTL DEF Spec, SequenceOrder

\* Where starting calls do not overlap, is_in_delay is cleared only by the
\* callback at the end of a sequence, and that posts the save.
THEOREM EndSaves ==
  ASSUME SerialCalls
  PROVE  Spec => EndIsSaved
<1>1. FlagInv /\ [Next]_vars => [in_delay /\ ~in_delay' => save_req']_vars
  <2> SUFFICES ASSUME FlagInv, [Next]_vars, in_delay, ~in_delay'
               PROVE  save_req'
    OBVIOUS
  <2>1. ~(UNCHANGED vars) /\ ~MsgTask
    BY DEF vars, MsgTask
  <2>2. ~RelayCalls
    BY DEF RelayCalls, KeyToggleBegin, RelaySetBegin, ScheduleRelayBegin,
       SwitchBegin, KeyToggle, RelaySet, ScheduleRelay, SetDelay
  <2>3. ~ResetApply
    BY ThreadsType DEF ResetApply, FlagInv, SerialInv, Critical
  <2>4. ~PowerCalls
    BY <2>3
    DEF PowerCalls, KeyPower, RemotePower, SchedulePower, PowerCheck,
        PowerStart, BootIsr, ResetBegin, ResetPowerOff, StartPowerOn,
        StartPowerOff
  <2>5. ASSUME NEW t \in TimerIds, PowerOnTick(t) PROVE save_req'
    BY <2>5 DEF PowerOnTick, OnNothing, OnCount, OnSwitch, Finish
  <2>6. ASSUME NEW t \in TimerIds, PowerOffTick(t) PROVE save_req'
    BY <2>6 DEF PowerOffTick, OffNothing, OffCount, OffSwitch, Finish
  <2>7. ~\E t \in TimerIds : LedTick(t)
    BY DEF LedTick
  <2> QED
    BY <2>1, <2>2, <2>4, <2>5, <2>6, <2>7 DEF Next, Operate, Tick
<1> QED
  BY <1>1, Invariant, PTL DEF Spec, EndIsSaved
-----------------------------------------------------------------------------
(* The sequencer implements the safety part of PowerPhase: every step is one *)
(* of its steps, or changes nothing the rest of the system sees.             *)

Wanted == {i \in Relay : last[i]}
Fed    == IF in_delay THEN {} ELSE {i \in Relay : pin[i]}

\* The phase, read off the flags.
PhaseOf ==
  IF in_delay THEN IF Rising THEN "rising" ELSE "falling"
  ELSE IF on_ff THEN IF boot_pending THEN "restored" ELSE "on"
  ELSE IF Dropped THEN "dropped" ELSE "off"

\* It is the phase, before a step and after it.
LEMMA PhaseIs == Phase = PhaseOf /\ Phase' = PhaseOf'
<1>1. Phase = PhaseOf
  BY DEF Phase, PhaseOf, Kind, Rising, Dropped
<1>2. Phase' = PhaseOf'
  BY DEF Phase, PhaseOf, Kind, Rising, Dropped
<1> QED
  BY <1>1, <1>2

\* What a step must do to the phase and the two sets to be a step of PowerPhase.
LEMMA PowerStep ==
  ASSUME \/ UNCHANGED <<Phase, Wanted, Fed>>
         \/ /\ Phase \in {"off", "restored", "on"} /\ Phase' = "rising"
            /\ Fed' = {} /\ UNCHANGED Wanted
         \/ /\ Phase \in {"off", "restored", "on", "dropped"}
            /\ Phase' = "falling" /\ Fed' = {} /\ UNCHANGED Wanted
         \/ /\ Phase = "rising" /\ Phase' = "on"
            /\ Fed' = Wanted /\ UNCHANGED Wanted
         \/ /\ Phase = "falling" /\ Phase' = "off"
            /\ Fed' = {} /\ UNCHANGED Wanted
         \/ Phase = "off" /\ Wanted' = Relay /\ UNCHANGED <<Phase, Fed>>
         \/ /\ Phase \in {"off", "restored", "on"} /\ Phase' = "dropped"
            /\ UNCHANGED <<Wanted, Fed>>
         \/ /\ Phase # "off" /\ UNCHANGED Phase
            /\ \E open, close \in SUBSET Relay :
                 /\ Wanted' = (Wanted \ open) \cup close
                 /\ Fed' = IF Phase \in {"rising", "falling"}
                             THEN Fed ELSE (Fed \ open) \cup close
  PROVE  [Power!Next]_(Power!vars)
  BY DEF Power!Next, Power!vars, Power!Rise, Power!Fall, Power!Begin,
     Power!Risen, Power!Fallen, Power!Switch, Power!Forget, Power!Drop, Wanted,
     Fed

\* A handler that only moves on is not seen, or is seen to drop the device.
LEMMA MoveIsPower ==
  ASSUME UNCHANGED <<on_ff, in_delay, last, pin, timer, boot_pending>>,
         Dropped => Dropped'
  PROVE  [Power!Next]_(Power!vars)
<1>1. UNCHANGED <<Wanted, Fed, Rising>>
  BY DEF Wanted, Fed, Rising
<1>2. UNCHANGED Phase \/ (Phase = "off" /\ Phase' = "dropped")
  BY <1>1, PhaseIs DEF PhaseOf
<1> QED
  BY <1>1, <1>2, PowerStep

\* A call that starts a sequence at rest is Rise or Fall.
LEMMA StartIsPower ==
  ASSUME FlagInv, ~in_delay, StartPowerOn \/ StartPowerOff,
         StartPowerOn => ~Dropped
  PROVE  [Power!Next]_(Power!vars)
<1>1. AtRest /\ in_delay' /\ UNCHANGED last
  BY DEF FlagInv, TimersInv, StartPowerOn, StartPowerOff, relays
<1>2. Fed' = {} /\ UNCHANGED Wanted
  BY <1>1 DEF Fed, Wanted
<1>3. CASE StartPowerOn
  <2>1. Rising'
    BY <1>1, <1>3, StartRuns DEF StartPowerOn, Runs, Rising
  <2>2. Phase \in {"off", "restored", "on"} /\ Phase' = "rising"
    BY <1>1, <1>3, <2>1, PhaseIs DEF PhaseOf
  <2> QED
    BY <1>2, <2>2, PowerStep
<1>4. CASE StartPowerOff
  <2>1. ~Rising'
    BY <1>1, <1>4, StartRuns DEF StartPowerOff, Runs, Rising
  <2>2. Phase \in {"off", "restored", "on", "dropped"} /\ Phase' = "falling"
    BY <1>1, <2>1, PhaseIs DEF PhaseOf
  <2> QED
    BY <1>2, <2>2, PowerStep
<1> QED
  BY <1>3, <1>4

\* A handler that switches relays is Switch.
LEMMA SwitchIsPower ==
  ASSUME FlagInv, RestInv, NEW S \in SUBSET Relay,
         NEW val \in [S -> BOOLEAN], Switch(val), NEW c \in Threads,
         Switching(c), Goto(c, "idle"),
         UNCHANGED <<on_ff, in_delay, timer, boot_pending>>
  PROVE  [Power!Next]_(Power!vars)
<1> DEFINE open  == {i \in S : ~val[i]}
           close == {i \in S : val[i]}
<1>1. TypeOK
  BY DEF FlagInv
<1>2. UNCHANGED <<Dropped, Rising>>
  BY <1>1, GotoMoves, ThreadsType DEF Dropped, Switching, Rising
<1>3. UNCHANGED Phase
  BY <1>2, PhaseIs DEF PhaseOf
<1>4. ~in_delay /\ ~Dropped => on_ff
  BY DEF RestInv, BetweenInv
<1>5. Phase # "off" /\ (Phase \in {"rising", "falling"} <=> in_delay)
  BY <1>4, PhaseIs DEF PhaseOf
<1>6. \A i \in Relay :
        /\ last'[i] <=> (last[i] /\ i \notin open) \/ i \in close
        /\ pin'[i]  <=> (pin[i] /\ i \notin open) \/ i \in close
  BY <1>1, SwitchValues
<1>7. open \in SUBSET Relay /\ close \in SUBSET Relay
  OBVIOUS
<1>8. Wanted' = (Wanted \ open) \cup close
  BY <1>6, <1>7 DEF Wanted
<1>9. Fed' = IF Phase \in {"rising", "falling"}
               THEN Fed ELSE (Fed \ open) \cup close
  <2>1. CASE in_delay
    BY <1>5, <2>1 DEF Fed
  <2>2. CASE ~in_delay
    BY <1>5, <1>6, <1>7, <2>2 DEF Fed
  <2> QED
    BY <2>1, <2>2
<1> HIDE DEF open, close
<1> QED
  BY <1>3, <1>5, <1>7, <1>8, <1>9, PowerStep

\* A factory reset is Drop of a running device and Forget of a stopped one.
LEMMA ResetIsPower ==
  ASSUME FlagInv, ResetApply
  PROVE  [Power!Next]_(Power!vars)
<1>1. pc[User] = "reset" /\ ~in_delay /\ ~in_delay' /\ ~on_ff'
  BY ThreadsType DEF ResetApply, FlagInv, SerialInv, Critical
<1>2. TypeOK /\ ~Dropped /\ UNCHANGED pin
  BY <1>1 DEF FlagInv, Dropped, ResetApply
<1>3. UNCHANGED Fed
  BY <1>1, <1>2 DEF Fed
<1>4. CASE on_ff
  <2>1. Dropped' /\ UNCHANGED last
    BY <1>2, <1>4, GotoMoves, ThreadsType DEF ResetApply, Dropped
  <2>2. Phase \in {"restored", "on"} /\ Phase' = "dropped"
    BY <1>1, <1>4, <2>1, PhaseIs DEF PhaseOf
  <2> QED
    BY <1>3, <2>1, <2>2, PowerStep DEF Wanted
<1>5. CASE ~on_ff
  <2>1. ~Dropped' /\ last' = [i \in Relay |-> TRUE]
    BY <1>2, <1>5, GotoMoves, ThreadsType DEF ResetApply, Dropped
  <2>2. Phase = "off" /\ Phase' = "off"
    BY <1>1, <1>2, <1>5, <2>1, PhaseIs DEF PhaseOf
  <2>3. Wanted' = Relay
    BY <2>1 DEF Wanted
  <2> QED
    BY <1>3, <2>2, <2>3, PowerStep
<1> QED
  BY <1>4, <1>5
\* A callback is Risen or Fallen when it ends its sequence, and else not seen.
LEMMA TickIsPower ==
  ASSUME FlagInv, RestInv', NEW t \in TimerIds,
         PowerOnTick(t) \/ PowerOffTick(t)
  PROVE  [Power!Next]_(Power!vars)
<1>1. MayTick /\ UNCHANGED <<last, boot_pending, pc>>
  BY DEF PowerOnTick, PowerOffTick, OnNothing, OnCount, OnSwitch, OffNothing,
     OffCount, OffSwitch, relays, calls
<1>2. in_delay /\ ~boot_pending' /\ ~Dropped' /\ UNCHANGED Wanted
  BY <1>1, TickFacts, ThreadsType
  DEF PowerOnTick, PowerOffTick, MayTick, Critical, Dropped, Wanted
<1>3. CASE in_delay' /\ UNCHANGED timer
  <2>1. UNCHANGED <<Phase, Fed>>
    BY <1>2, <1>3, PhaseIs DEF PhaseOf, Rising, Fed
  <2> QED
    BY <1>2, <2>1, PowerStep
<1>4. CASE PowerOnTick(t) /\ Finish(TRUE)
  <2>1. Rising /\ ~in_delay' /\ on_ff'
    BY <1>4, TickFacts DEF PowerOnTick, Finish
  <2>2. Phase = "rising" /\ Phase' = "on"
    BY <1>2, <2>1, PhaseIs DEF PhaseOf
  <2>3. pin' = last'
    BY <1>2, <2>1 DEF RestInv, BetweenInv, Ready
  <2>4. Fed' = Wanted
    BY <1>1, <2>1, <2>3 DEF Fed, Wanted
  <2> QED
    BY <1>2, <2>2, <2>4, PowerStep
<1>5. CASE PowerOffTick(t) /\ Finish(FALSE)
  <2>1. ~Rising /\ ~in_delay' /\ ~on_ff'
    BY <1>5, TickFacts DEF PowerOffTick, Finish
  <2>2. Phase = "falling" /\ Phase' = "off"
    BY <1>2, <2>1, PhaseIs DEF PhaseOf
  <2>3. pin' = [i \in Relay |-> FALSE]
    BY <1>2, <2>1 DEF RestInv, BetweenInv, Ready
  <2>4. Fed' = {}
    BY <2>1, <2>3 DEF Fed
  <2> QED
    BY <1>2, <2>2, <2>4, PowerStep
<1>6. CASE PowerOnTick(t)
  <2>1. Finish(TRUE) \/ (in_delay' /\ UNCHANGED timer)
    BY <1>2, <1>6 DEF PowerOnTick, OnNothing, OnCount, OnSwitch
  <2> QED
    BY <1>3, <1>4, <1>6, <2>1
<1>7. CASE PowerOffTick(t)
  <2>1. Finish(FALSE) \/ (in_delay' /\ UNCHANGED timer)
    BY <1>2, <1>7 DEF PowerOffTick, OffNothing, OffCount, OffSwitch
  <2> QED
    BY <1>3, <1>5, <1>7, <2>1
<1> QED
  BY <1>6, <1>7

\* Calls that start a sequence, up to its start.
LEMMA PowerCallsArePower ==
  ASSUME SerialCalls, FlagInv, RestInv, PowerCalls
  PROVE  [Power!Next]_(Power!vars)
<1> USE DEF relays, lights, timers, tasks
<1> TypeOK
  BY DEF FlagInv
<1>1. CASE KeyPower
  BY <1>1, GotoMoves, MoveIsPower, ThreadsType DEF KeyPower, Dropped
<1>2. ASSUME NEW on \in BOOLEAN, RemotePower(on)
      PROVE  [Power!Next]_(Power!vars)
  BY <1>2, GotoMoves, MoveIsPower, ThreadsType DEF RemotePower, Dropped, calls
<1>3. CASE SchedulePower
  BY <1>3, GotoMoves, MoveIsPower, ThreadsType DEF SchedulePower, Dropped
<1>4. ASSUME NEW c \in Threads, PowerCheck(c)
      PROVE  [Power!Next]_(Power!vars)
  <2>1. PICK l \in {"idle", "on_checked", "off_checked"} : Goto(c, l)
    BY <1>4 DEF PowerCheck, Return
  <2> QED
    BY <1>4, <2>1, GotoMoves, MoveIsPower, ThreadsType DEF PowerCheck, Dropped
<1>5. ASSUME NEW c \in Threads, PowerStart(c)
      PROVE  [Power!Next]_(Power!vars)
  <2>1. Critical(c) /\ ~in_delay
    BY <1>5 DEF PowerStart, FlagInv, SerialInv, Critical
  <2>2. pc[c] = "on_checked" => ~Dropped
    BY <2>1, ThreadsType DEF FlagInv, SerialInv, Critical, Dropped
  <2>3. \/ pc[c] = "on_checked"  /\ StartPowerOn
        \/ pc[c] = "off_checked" /\ StartPowerOff
    BY <1>5 DEF PowerStart
  <2>4. CASE StartPowerOn /\ ~Dropped
    BY <2>1, <2>4, StartIsPower
  <2>5. CASE StartPowerOff
    <3>1. ~StartPowerOn
      <4>1. CASE StartPowerOn
        BY <2>1, <2>5, <4>1
        DEF StartPowerOn, StartPowerOff, StartTimers, FlagInv, TimersInv, AtRest
      <4> QED
        BY <4>1
    <3> QED
      BY <2>1, <2>5, <3>1, StartIsPower
  <2> QED
    BY <2>2, <2>3, <2>4, <2>5
<1>6. CASE BootIsr
  <2>1. ~Dropped
    BY <1>6, ThreadsType DEF BootIsr, MayEnter, Critical, Dropped
  <2>2. CASE ~in_delay /\ StartPowerOn
    BY <2>1, <2>2, StartIsPower
  <2>3. CASE ~(on_ff /\ ~in_delay)
    <3>1. UNCHANGED <<on_ff, in_delay, last, pin, timer, pc>>
      BY <1>6, <2>3 DEF BootIsr, calls
    <3>2. UNCHANGED <<Phase, Wanted, Fed>>
      BY <2>3, <3>1, PhaseIs DEF PhaseOf, Rising, Dropped, Wanted, Fed
    <3> QED
      BY <3>2, PowerStep
  <2> QED
    BY <1>6, <2>2, <2>3 DEF BootIsr
<1>7. CASE ResetBegin
  BY <1>7, GotoMoves, MoveIsPower, ThreadsType DEF ResetBegin, Dropped
<1>8. CASE ResetApply
  BY <1>8, ResetIsPower
<1>9. CASE ResetPowerOff
  <2>1. ~in_delay
    BY <1>9, ThreadsType DEF ResetPowerOff, FlagInv, SerialInv, Critical
  <2> QED
    BY <1>9, <2>1, GotoMoves, MoveIsPower, ThreadsType
    DEF ResetPowerOff, Dropped
<1> QED
  BY <1>1, <1>2, <1>3, <1>4, <1>5, <1>6, <1>7, <1>8, <1>9 DEF PowerCalls

\* Calls that switch single relays or set a delay.
LEMMA RelayCallsArePower ==
  ASSUME FlagInv, RestInv, RelayCalls
  PROVE  [Power!Next]_(Power!vars)
<1> USE DEF lights, timers, tasks
<1> TypeOK
  BY DEF FlagInv
<1>1. ASSUME NEW c \in Threads, NEW l \in {"toggle", "relay", "schedule"},
             SwitchBegin(c, l)
      PROVE  [Power!Next]_(Power!vars)
  BY <1>1, GotoMoves, MoveIsPower, ThreadsType DEF SwitchBegin, Dropped, relays
<1>2. CASE KeyToggle
  <2>1. PICK i \in Relay : Switch([j \in {i} |-> ~pin[i]])
    BY <1>2 DEF KeyToggle
  <2>2. [j \in {i} |-> ~pin[i]] \in [{i} -> BOOLEAN]
    OBVIOUS
  <2> QED
    BY ZenonT(30), <1>2, <2>1, <2>2, SwitchIsPower, ThreadsType DEF KeyToggle, Switching
<1>3. CASE RelaySet
  <2>1. PICK i \in Relay, v \in BOOLEAN : Switch([j \in {i} |-> v])
    BY <1>3 DEF RelaySet
  <2>2. [j \in {i} |-> v] \in [{i} -> BOOLEAN]
    OBVIOUS
  <2> QED
    BY <1>3, <2>1, <2>2, SwitchIsPower, ThreadsType DEF RelaySet, Switching
<1>4. CASE ScheduleRelay
  <2>1. PICK S \in SUBSET (0 .. N-2) : \E val \in [S -> BOOLEAN] : Switch(val)
    BY <1>4 DEF ScheduleRelay
  <2>2. S \in SUBSET Relay
    BY NAssumption DEF Relay
  <2> QED
    BY <1>4, <2>1, <2>2, SwitchIsPower, ThreadsType DEF ScheduleRelay, Switching
<1>5. CASE SetDelay
  BY <1>5, MoveIsPower DEF SetDelay, Dropped, relays, calls
<1> QED
  BY <1>1, <1>2, <1>3, <1>4, <1>5, ThreadsType
  DEF RelayCalls, KeyToggleBegin, RelaySetBegin, ScheduleRelayBegin

\* A device at rest with its pins open is off, or to be powered on again.
LEMMA InitIsPower == Init => Power!Init
<1> SUFFICES ASSUME Init PROVE Power!Init
  OBVIOUS
<1>1. ~Dropped /\ ~in_delay /\ boot_pending
  BY DEF Init, Dropped, Threads, User
<1>2. Phase \in {"off", "restored"}
  BY <1>1, PhaseIs DEF PhaseOf
<1>3. Wanted \in SUBSET Relay /\ Fed = {}
  BY <1>1 DEF Wanted, Fed, Init
<1> QED
  BY <1>2, <1>3 DEF Power!Init, Wanted, Fed

\* Where starting calls do not overlap, the sequencer with its two threads,
\* interrupts and timers implements the safety part of PowerPhase, for any
\* number of relays: that a device is off, on or in one sequence, and what it
\* feeds then, is all the other components need to know of it.
THEOREM SequencerIsPower ==
  ASSUME SerialCalls
  PROVE  Spec => Power!Spec
<1>1. FlagInv /\ RestInv /\ RestInv' /\ [Next]_vars => [Power!Next]_(Power!vars)
  <2> SUFFICES ASSUME FlagInv, RestInv, RestInv', [Next]_vars
               PROVE  [Power!Next]_(Power!vars)
    OBVIOUS
  <2>1. CASE UNCHANGED vars \/ MsgTask \/ \E t \in TimerIds : LedTick(t)
    BY <2>1, MoveIsPower
    DEF vars, MsgTask, LedTick, Dropped, relays, lights, timers, tasks, calls
  <2>2. CASE \E t \in TimerIds : PowerOnTick(t) \/ PowerOffTick(t)
    BY <2>2, TickIsPower
  <2> QED
    BY <2>1, <2>2, PowerCallsArePower, RelayCallsArePower DEF Next, Operate, Tick
<1> QED
  BY <1>1, InitIsPower, Invariant, PTL DEF Spec, Power!Spec
-----------------------------------------------------------------------------
(* The spacing of the relays: what has been waited and what is still to wait *)
(* add up to the delay of the relay whose turn it is, or to one second less  *)
(* for the first relay of a sequence.                                        *)

AddsUp(task, delay) ==
  IF task.counting
    THEN task.time > 0 /\ waited + task.time \in (delay[task.idx] - 1) .. delay[task.idx]
    ELSE waited = 0

\* Whether a wait of w seconds is what a close_time of c makes of it: the u8 of
\* the power-off callback holds c, or cuts it.
Keeps(c, w) == IF c < CounterMod THEN w \in (c - 1) .. c ELSE w < CounterMod

\* The same of opening.  Only a delay that was cut may leave nothing to wait.
ClosesUp ==
  IF off_task.counting
    THEN /\ \/ off_task.time > 0
            \/ waited = 0 /\ close_time[off_task.idx] >= CounterMod
         /\ Keeps(close_time[off_task.idx], waited + off_task.time)
    ELSE waited = 0

SpaceInv == /\ Rising => AddsUp(on_task, open_time)
            /\ Falling => ClosesUp

\* A step of a handler leaves both counts alone, or is taken at rest.
LEMMA HandlerSpace ==
  ASSUME SerialCalls, FlagInv, FlagInv', RestInv, SpaceInv,
         PowerCalls \/ RelayCalls
  PROVE  SpaceInv'
<1>1. \/ UNCHANGED <<timer, on_task, off_task, waited, open_time, close_time>>
      \/ ~in_delay /\ ~in_delay'
      \/ ~in_delay /\ waited' = 0 /\ UNCHANGED <<on_task, off_task>>
  <2>1. ASSUME NEW c \in Threads, PowerStart(c)
        PROVE  ~in_delay /\ waited' = 0 /\ UNCHANGED <<on_task, off_task>>
    BY <2>1
    DEF PowerStart, StartPowerOn, StartPowerOff, FlagInv, SerialInv, Critical
  <2>2. CASE BootIsr
    BY <2>2 DEF BootIsr, StartPowerOn, timers, tasks, delays
  <2>3. CASE ResetApply
    BY <2>3, ThreadsType DEF ResetApply, FlagInv, SerialInv, Critical
  <2>4. CASE SetDelay
    BY <2>4 DEF SetDelay
  <2>5. CASE KeyPower \/ SchedulePower \/ ResetBegin \/ ResetPowerOff
    BY <2>5
    DEF KeyPower, SchedulePower, ResetBegin, ResetPowerOff, timers, tasks, delays
  <2>6. ASSUME NEW on \in BOOLEAN, RemotePower(on)
        PROVE  UNCHANGED <<timers, tasks, delays>>
    BY <2>6 DEF RemotePower
  <2>7. ASSUME NEW c \in Threads, PowerCheck(c)
        PROVE  UNCHANGED <<timers, tasks, delays>>
    BY <2>7 DEF PowerCheck
  <2>8. RelayCalls => SetDelay \/ UNCHANGED <<timers, tasks, delays>>
    BY DEF RelayCalls, KeyToggleBegin, RelaySetBegin, ScheduleRelayBegin,
       SwitchBegin, KeyToggle, RelaySet, ScheduleRelay
  <2> QED
    BY <2>1, <2>2, <2>3, <2>4, <2>5, <2>6, <2>7, <2>8
    DEF PowerCalls, timers, tasks, delays
<1>2. CASE UNCHANGED <<timer, on_task, off_task, waited, open_time, close_time>>
  BY <1>2 DEF SpaceInv, AddsUp, ClosesUp, Rising, Falling
<1>3. CASE ~in_delay /\ ~in_delay'
  BY <1>3 DEF FlagInv, TimersInv, AtRest, SpaceInv, Rising, Falling
<1>4. CASE ~in_delay /\ waited' = 0 /\ UNCHANGED <<on_task, off_task>>
  <2>1. ~on_task.counting /\ ~off_task.counting
    BY <1>4, PhaseFacts DEF RestInv, OnTurnInv, OffTurnInv
  <2> QED
    BY <1>4, <2>1 DEF SpaceInv, AddsUp, ClosesUp
<1> QED
  BY <1>1, <1>2, <1>3, <1>4

\* A second counted moves from what is to wait to what was waited; a switched
\* relay hands over to the next one's whole delay.
LEMMA OnTickSpace ==
  ASSUME FlagInv, FlagInv', SpaceInv, NEW t \in TimerIds, PowerOnTick(t)
  PROVE  SpaceInv'
<1>1. Rising /\ ~Falling /\ UNCHANGED <<open_time, close_time>> /\ TypeOK
  BY TickFacts DEF PowerOnTick, delays, FlagInv
<1>2. AddsUp(on_task, open_time)
  BY <1>1 DEF SpaceInv
<1>3. CASE ~in_delay'
  BY <1>3 DEF FlagInv, TimersInv, AtRest, SpaceInv, Rising, Falling
<1>4. CASE in_delay'
  <2>1. UNCHANGED timer
    BY <1>4 DEF PowerOnTick, OnNothing, OnCount, OnSwitch, Finish
  <2>2. ~Falling'
    BY <1>1, <2>1 DEF Falling
  <2>3. ASSUME NEW i \in Relay, OnCount(i) PROVE AddsUp(on_task, open_time)'
    <3>1. /\ on_task' = [counting |-> TRUE, idx |-> i, time |-> OnLeft(i)]
          /\ OnLeft(i) > 0 /\ waited' = waited + 1 /\ OnTarget(i)
      BY <2>3 DEF OnCount
    <3>2. /\ open_time[i] \in Nat \ {0} /\ waited \in Nat /\ on_task.time \in Nat
          /\ OnLeft(i) \in Nat
      BY <1>1, LeftType, DelaysAssumption DEF TypeOK, TaskState
    <3>3. waited' + OnLeft(i) \in (open_time[i] - 1) .. open_time[i]
      <4>1. CASE on_task.counting
        <5>1. on_task.idx = i /\ OnLeft(i) = on_task.time - 1
          BY <3>1, <3>2, <4>1 DEF OnTarget, OnLeft, CountDown
        <5>2. waited + on_task.time \in (open_time[i] - 1) .. open_time[i]
          BY <1>2, <4>1, <5>1 DEF AddsUp
        <5> QED
          BY <3>1, <3>2, <5>1, <5>2
      <4>2. CASE ~on_task.counting
        <5>1. waited = 0 /\ OnLeft(i) = open_time[i] - 2
          BY <1>2, <3>1, <3>2, <4>2 DEF AddsUp, OnLeft, CountDown
        <5> QED
          BY <3>1, <3>2, <5>1
      <4> QED
        BY <4>1, <4>2
    <3> QED
      BY <1>1, <3>1, <3>3 DEF AddsUp
  <2>4. ASSUME NEW i \in Relay, OnSwitch(i) PROVE AddsUp(on_task, open_time)'
    <3>1. PICK j \in Relay :
            on_task' = [counting |-> TRUE, idx |-> j, time |-> open_time[j]]
      BY <1>4, <2>4 DEF OnSwitch, Finish
    <3>2. waited' = 0 /\ open_time[j] \in Nat \ {0}
      BY <1>1, <2>4, DelaysAssumption DEF OnSwitch, TypeOK
    <3> QED
      BY <1>1, <3>1, <3>2 DEF AddsUp
  <2>5. ~OnNothing
    BY <1>4 DEF OnNothing, Finish
  <2> QED
    BY <2>2, <2>3, <2>4, <2>5 DEF PowerOnTick, SpaceInv
<1> QED
  BY <1>3, <1>4

\* What the u8 of the power-off callback makes of a number.
LEMMA Cut ==
  ASSUME NEW x \in Nat
  PROVE  /\ x % CounterMod \in 0 .. CounterMod - 1
         /\ x < CounterMod => x % CounterMod = x
  BY ModAssumption

\* The same of the power-off callback, with what its u8 keeps of the delay.
LEMMA OffTickSpace ==
  ASSUME FlagInv, FlagInv', SpaceInv, NEW t \in TimerIds, PowerOffTick(t)
  PROVE  SpaceInv'
<1>1. Falling /\ ~Rising /\ UNCHANGED <<open_time, close_time>> /\ TypeOK
  BY TickFacts DEF PowerOffTick, delays, FlagInv
<1>2. ClosesUp
  BY <1>1 DEF SpaceInv
<1>3. CASE ~in_delay'
  BY <1>3 DEF FlagInv, TimersInv, AtRest, SpaceInv, Rising, Falling
<1>4. CASE in_delay'
  <2>1. UNCHANGED timer
    BY <1>4 DEF PowerOffTick, OffNothing, OffCount, OffSwitch, Finish
  <2>2. ~Rising'
    BY <1>1, <2>1 DEF Rising
  <2>3. ASSUME NEW i \in Relay, OffCount(i) PROVE ClosesUp'
    <3>1. /\ off_task' = [counting |-> TRUE, idx |-> i, time |-> OffLeft(i)]
          /\ OffLeft(i) > 0 /\ waited' = waited + 1 /\ OffTarget(i)
      BY <2>3 DEF OffCount
    <3>2. /\ close_time[i] \in Nat \ {0} /\ waited \in Nat
          /\ off_task.time \in Nat /\ OffLeft(i) \in Nat
      BY <1>1, LeftType, DelaysAssumption DEF TypeOK, TaskState
    <3>3. Keeps(close_time[i], waited' + OffLeft(i))
      <4>1. CASE off_task.counting
        <5>1. off_task.idx = i /\ OffLeft(i) = off_task.time - 1
          BY <3>1, <3>2, <4>1 DEF OffTarget, OffLeft, CountDown
        <5>2. Keeps(close_time[i], waited + off_task.time)
          BY <1>2, <4>1, <5>1 DEF ClosesUp
        <5>3. waited' + OffLeft(i) = waited + off_task.time
          BY <3>1, <3>2, <5>1
        <5> QED
          BY <5>2, <5>3
      <4>2. CASE ~off_task.counting
        <5>1. CountDown(close_time[i]) = close_time[i] - 1
          BY <3>2 DEF CountDown
        <5> DEFINE x == (close_time[i] - 1) % CounterMod
        <5>2. /\ x \in 0 .. CounterMod - 1
              /\ close_time[i] - 1 < CounterMod => x = close_time[i] - 1
          BY <3>2, Cut
        <5>3. waited = 0 /\ OffLeft(i) = CountDown(x)
          BY <1>2, <4>2, <5>1 DEF ClosesUp, OffLeft
        <5> HIDE DEF x
        <5>4. OffLeft(i) = x - 1
          BY <3>1, <5>2, <5>3, ModAssumption DEF CountDown
        <5>5. waited' + OffLeft(i) = x
          BY <3>1, <3>2, <5>2, <5>3, <5>4, ModAssumption
        <5> QED
          BY <3>2, <5>2, <5>5, ModAssumption DEF Keeps
      <4> QED
        BY <4>1, <4>2
    <3> QED
      BY <1>1, <3>1, <3>3 DEF ClosesUp
  <2>4. ASSUME NEW i \in Relay, OffSwitch(i) PROVE ClosesUp'
    <3>1. PICK j \in Relay :
            off_task' = [counting |-> TRUE, idx |-> j,
                         time |-> close_time[j] % CounterMod]
      BY <1>4, <2>4 DEF OffSwitch, Finish
    <3>2. waited' = 0 /\ close_time[j] \in Nat \ {0}
      BY <1>1, <2>4, DelaysAssumption DEF OffSwitch, TypeOK
    <3>7. off_task'.counting /\ (close_time[j])' = close_time[j]
      BY <1>1, <3>1
    <3>3. /\ close_time[j] % CounterMod \in 0 .. CounterMod - 1
          /\ close_time[j] < CounterMod =>
               close_time[j] % CounterMod = close_time[j]
      BY <3>2, Cut
    <3>4. off_task'.time = close_time[j] % CounterMod /\ off_task'.idx = j
      BY <3>1
    <3>5. Keeps(close_time[j], 0 + (close_time[j] % CounterMod))
      BY <3>2, <3>3, ModAssumption DEF Keeps
    <3>6. close_time[j] % CounterMod > 0 \/ close_time[j] >= CounterMod
      BY <3>2, <3>3, ModAssumption
    <3> QED
      BY <3>2, <3>4, <3>5, <3>6, <3>7 DEF ClosesUp
  <2>5. ~OffNothing
    BY <1>4 DEF OffNothing, Finish
  <2> QED
    BY <2>2, <2>3, <2>4, <2>5 DEF PowerOffTick, SpaceInv
<1> QED
  BY <1>3, <1>4

\* All three invariants hold where starting calls do not overlap.
LEMMA Spaced ==
  ASSUME SerialCalls
  PROVE  Spec => [](FlagInv /\ RestInv /\ SpaceInv)
<1>1. Init => SpaceInv
  BY DEF Init, SpaceInv, Rising, Falling
<1>2. FlagInv /\ FlagInv' /\ RestInv /\ SpaceInv /\ [Next]_vars => SpaceInv'
  <2> SUFFICES ASSUME FlagInv, FlagInv', RestInv, SpaceInv, [Next]_vars
               PROVE  SpaceInv'
    OBVIOUS
  <2>1. CASE UNCHANGED vars \/ MsgTask \/ \E t \in TimerIds : LedTick(t)
    BY <2>1
    DEF vars, MsgTask, LedTick, delays, timers, tasks, SpaceInv, AddsUp,
        ClosesUp, Rising, Falling
  <2>2. ASSUME NEW t \in TimerIds, PowerOnTick(t) PROVE SpaceInv'
    BY <2>2, OnTickSpace
  <2>3. ASSUME NEW t \in TimerIds, PowerOffTick(t) PROVE SpaceInv'
    BY <2>3, OffTickSpace
  <2> QED
    BY <2>1, <2>2, <2>3, HandlerSpace DEF Next, Operate, Tick
<1> QED
  BY <1>1, <1>2, Invariant, PTL DEF Spec

\* Where starting calls do not overlap, a relay that closes in a sequence does so
\* open_time seconds after the one before it, the first one a second earlier.
THEOREM OpenSpaced ==
  ASSUME SerialCalls
  PROVE  Spec => OpenSpacing
<1> DEFINE Spacing == Sequenced => \A i \in Relay : (pin'[i] /\ ~pin[i]) =>
                        waited + 1 \in (open_time[i] - 1) .. open_time[i]
<1>1. FlagInv /\ RestInv /\ SpaceInv /\ [Next]_vars => [Spacing]_vars
  <2> SUFFICES ASSUME FlagInv, SpaceInv, [Next]_vars, Sequenced,
                      NEW i \in Relay, pin'[i], ~pin[i]
               PROVE  waited + 1 \in (open_time[i] - 1) .. open_time[i]
    OBVIOUS
  <2>1. TypeOK
    BY DEF FlagInv
  <2>2. PICK t \in TimerIds : PowerOnTick(t) \/ PowerOffTick(t)
    BY <2>1, SequencedPins
  <2>3. ~PowerOffTick(t)
    BY <2>1 DEF PowerOffTick, OffNothing, OffCount, OffSwitch, relays, TypeOK
  <2>4. OnSwitch(i) /\ AddsUp(on_task, open_time)
    BY <2>1, <2>2, <2>3, TickFacts
    DEF PowerOnTick, OnNothing, OnCount, OnSwitch, relays, TypeOK, SpaceInv
  <2>5. /\ open_time[i] \in Nat \ {0} /\ waited \in Nat /\ on_task.time \in Nat
        /\ OnLeft(i) = 0 /\ OnTarget(i)
    BY <2>1, <2>4, DelaysAssumption DEF TypeOK, TaskState, OnSwitch
  <2>6. CASE on_task.counting
    <3>1. on_task.idx = i /\ on_task.time = 1
      BY <2>4, <2>5, <2>6 DEF OnTarget, OnLeft, CountDown, AddsUp
    <3> QED
      BY <2>4, <2>6, <3>1 DEF AddsUp
  <2>7. CASE ~on_task.counting
    <3>1. waited = 0 /\ open_time[i] \in 1 .. 2
      BY <2>4, <2>5, <2>7 DEF OnLeft, CountDown, AddsUp
    <3> QED
      BY <3>1
  <2> QED
    BY <2>6, <2>7
<1> QED
  BY <1>1, Spaced, PTL DEF Spec, OpenSpacing

\* The same of opening and close_time, as far as a u8 holds it; a delay that it
\* does not hold is cut, and its relay opens before the u8 could have run out.
THEOREM CloseSpaced ==
  ASSUME SerialCalls
  PROVE  Spec => CloseSpacing
<1> DEFINE Spacing == Sequenced => \A i \in Relay : (pin[i] /\ ~pin'[i]) =>
                        IF close_time[i] < CounterMod
                          THEN waited + 1 \in (close_time[i] - 1) .. close_time[i]
                          ELSE waited + 1 < CounterMod
<1>1. FlagInv /\ RestInv /\ SpaceInv /\ [Next]_vars => [Spacing]_vars
  <2> SUFFICES ASSUME FlagInv, SpaceInv, [Next]_vars, Sequenced,
                      NEW i \in Relay, pin[i], ~pin'[i]
               PROVE  Keeps(close_time[i], waited + 1)
    BY DEF Keeps
  <2>1. TypeOK
    BY DEF FlagInv
  <2>2. PICK t \in TimerIds : PowerOnTick(t) \/ PowerOffTick(t)
    BY <2>1, SequencedPins
  <2>3. ~PowerOnTick(t)
    BY <2>1 DEF PowerOnTick, OnNothing, OnCount, OnSwitch, relays, TypeOK
  <2>4. OffSwitch(i) /\ ClosesUp
    BY <2>1, <2>2, <2>3, TickFacts
    DEF PowerOffTick, OffNothing, OffCount, OffSwitch, relays, TypeOK, SpaceInv
  <2>5. /\ close_time[i] \in Nat \ {0} /\ waited \in Nat
        /\ off_task.time \in Nat /\ OffLeft(i) = 0 /\ OffTarget(i)
    BY <2>1, <2>4, DelaysAssumption DEF TypeOK, TaskState, OffSwitch
  <2>6. CASE off_task.counting
    <3>1. off_task.idx = i /\ off_task.time \in {0, 1}
      BY <2>4, <2>5, <2>6 DEF OffTarget, OffLeft, CountDown
    <3>2. /\ off_task.time > 0 \/ (waited = 0 /\ close_time[i] >= CounterMod)
          /\ Keeps(close_time[i], waited + off_task.time)
      BY <2>4, <2>6, <3>1 DEF ClosesUp
    <3>3. CASE off_task.time = 1
      BY <3>2, <3>3
    <3>4. CASE off_task.time = 0
      BY <2>5, <3>2, <3>4, ModAssumption DEF Keeps
    <3> QED
      BY <3>1, <3>3, <3>4
  <2>7. CASE ~off_task.counting
    <3>1. CountDown(close_time[i]) = close_time[i] - 1
      BY <2>5 DEF CountDown
    <3> DEFINE x == (close_time[i] - 1) % CounterMod
    <3>2. /\ x \in 0 .. CounterMod - 1
          /\ close_time[i] - 1 < CounterMod => x = close_time[i] - 1
      BY <2>5, Cut
    <3>3. waited = 0 /\ CountDown(x) = 0
      BY <2>4, <2>5, <2>7, <3>1 DEF ClosesUp, OffLeft
    <3> HIDE DEF x
    <3>4. x \in 0 .. 1
      BY <3>2, <3>3, ModAssumption DEF CountDown
    <3> QED
      BY <2>5, <3>2, <3>3, <3>4, ModAssumption DEF Keeps
  <2> QED
    BY <2>6, <2>7
<1> QED
  BY <1>1, Spaced, PTL DEF Spec, CloseSpacing

-----------------------------------------------------------------------------
(* PowerCycle: types *)

HeadType == [on_ff : BOOLEAN, last : [Relay -> BOOLEAN], cur : [Relay -> BOOLEAN]]
TailType == [open_time : [Relay -> Delays], close_time : [Relay -> Delays],
             in_delay : BOOLEAN]
RecordType == [head : HeadType, tail : TailType]

SavesOK ==
  /\ armed \in BOOLEAN /\ unposted \in BOOLEAN
  /\ area \in RecordType \cup {Blank}
  /\ saver \in {"idle", "copying", "interrupted", "erasing", "writing"}
  /\ IF saver = "idle" THEN snap = Blank ELSE snap \in RecordType

PTypeOK == TypeOK /\ SavesOK

\* A record is not the state of an erased area.
LEMMA NotBlank == Blank \notin RecordType
<1> SUFFICES ASSUME Blank \in RecordType PROVE FALSE
  OBVIOUS
<1>1. DOMAIN Blank = {"blank"} /\ DOMAIN Blank = {"head", "tail"}
  BY DEF Blank, RecordType
<1> QED
  BY <1>1

\* The record in use, and what a boot loads, are records.
LEMMA RecordTypes ==
  ASSUME PTypeOK
  PROVE  Record \in RecordType /\ Restored \in RecordType
<1>1. Record \in RecordType
  BY DEF PTypeOK, TypeOK, Record, Head, Tail, RecordType, HeadType, TailType
<1>2. Defaults \in RecordType
  BY DelaysAssumption DEF Defaults, RecordType, HeadType, TailType
<1> QED
  BY <1>1, <1>2 DEF PTypeOK, SavesOK, Restored

\* A boot makes the record it loads the one in use.
LEMMA Loaded ==
  ASSUME NEW r \in RecordType, Load(r)
  PROVE  Record' = r
<1>1. Head' = r.head
  BY DEF Load, Head, RecordType, HeadType
<1>2. Tail' = r.tail
  BY DEF Load, Tail, RecordType, TailType
<1> QED
  BY <1>1, <1>2 DEF Record, RecordType

\* A boot leaves every variable in its type.
LEMMA BootTypes ==
  ASSUME PTypeOK, PowerCycle
  PROVE  PTypeOK'
<1>1. Restored \in RecordType
  BY RecordTypes
<1>2. /\ on_ff' \in BOOLEAN /\ last' \in [Relay -> BOOLEAN]
      /\ cur' \in [Relay -> BOOLEAN] /\ open_time' \in [Relay -> Delays]
      /\ close_time' \in [Relay -> Delays] /\ in_delay' \in BOOLEAN
  BY <1>1 DEF PowerCycle, Load, RecordType, HeadType, TailType
<1>3. /\ pin' \in [Relay -> BOOLEAN] /\ timer' \in [TimerIds -> {"none"}]
      /\ pc' \in [Threads -> {"idle"}]
  BY DEF PowerCycle
<1>4. TypeOK'
  BY <1>2, <1>3, NotCountingType DEF PowerCycle, TypeOK
<1>5. SavesOK'
  BY DEF PowerCycle, PTypeOK, SavesOK
<1> QED
  BY <1>4, <1>5 DEF PTypeOK

\* Every step keeps the types.
LEMMA PNextType ==
  ASSUME PTypeOK, [PNext]_pvars
  PROVE  PTypeOK'
<1>1. [Next]_vars => TypeOK'
  BY NextType DEF PTypeOK
<1>2. CASE UNCHANGED pvars
  BY <1>1, <1>2 DEF PTypeOK, SavesOK, pvars, saves
<1>3. CASE Device
  <2>1. unposted' \in BOOLEAN
    BY <1>3 DEF Device
  <2> QED
    BY <1>1, <1>3, <2>1 DEF Device, Next, PTypeOK, SavesOK
<1>4. CASE Arm
  BY <1>1, <1>4 DEF Arm, Next, PTypeOK, SavesOK
<1>5. CASE SaveTime
  <2>1. TypeOK'
    BY <1>5
    DEF SaveTime, PTypeOK, TypeOK, relays, delays, lights, timers, tasks, calls
  <2>2. SavesOK'
    BY <1>5 DEF SaveTime, PTypeOK, SavesOK
  <2> QED
    BY <2>1, <2>2 DEF PTypeOK
<1>6. CASE CopyHead
  BY <1>1, <1>6, RecordTypes DEF CopyHead, Record, PTypeOK, SavesOK
<1>7. CASE CopyTail
  <2>1. Tail \in TailType /\ snap \in RecordType
    BY <1>7, RecordTypes DEF CopyTail, PTypeOK, SavesOK, Record, RecordType
  <2>2. [snap EXCEPT !.tail = Tail] \in RecordType
    BY <2>1 DEF RecordType
  <2> QED
    BY <1>1, <1>7, <2>2 DEF CopyTail, PTypeOK, SavesOK
<1>8. CASE Erase
  BY <1>1, <1>8 DEF Erase, PTypeOK, SavesOK
<1>9. CASE Write
  BY <1>1, <1>9 DEF Write, PTypeOK, SavesOK
<1> QED
  BY <1>2, <1>3, <1>4, <1>5, <1>6, <1>7, <1>8, <1>9, BootTypes DEF PNext

\* The device starts well-typed, with nothing in flash.
LEMMA PInitType == PInit => PTypeOK
  BY InitType DEF PInit, PTypeOK, SavesOK

-----------------------------------------------------------------------------
(* What changes reaches flash.  That the record in flash is the one in use   *)
(* is no excuse while a save is under way, which is about to erase it.       *)

\* A save is posted, or a step will come that posts one.
Posted == save_req \/ unposted \/ Running \/ Dropped

Due ==
  \/ Posted \/ armed
  \/ snap = Record
  \/ saver \in {"copying", "interrupted"} /\ snap.head = Head

ReachInv == Due \/ (Restored = Record /\ saver = "idle")

\* A call that starts a sequence leaves it running.
LEMMA StartLeavesRunning ==
  ASSUME TypeOK, StartPowerOn \/ StartPowerOff
  PROVE  Running'
<1>1. PICK k \in {"on", "off"} : StartTimers(k)
  BY DEF StartPowerOn, StartPowerOff
<1>2. PICK t \in TimerIds, l \in TimerIds :
        t # l /\ timer' = [timer EXCEPT ![t] = k, ![l] = "led"]
  BY <1>1 DEF StartTimers
<1>3. timer'[t] = k
  BY <1>2 DEF TypeOK
<1> QED
  BY <1>3 DEF Running, Kind

\* The timers of a running sequence stay as they are.
LEMMA RunningKept == Running /\ UNCHANGED timer => Running'
  BY DEF Running, Kind

\* A callback goes on with its sequence or, at its end, posts the save.
LEMMA TickPosts ==
  ASSUME NEW t \in TimerIds, PowerOnTick(t) \/ PowerOffTick(t)
  PROVE  Posted'
<1>1. Running
  BY DEF PowerOnTick, PowerOffTick, Running, Kind
<1>2. save_req' \/ UNCHANGED timer
  BY DEF PowerOnTick, OnNothing, OnCount, OnSwitch, PowerOffTick, OffNothing,
     OffCount, OffSwitch, Finish
<1> QED
  BY <1>1, <1>2, RunningKept DEF Posted

\* The calls that start a sequence: what they change of the record is posted,
\* or will be by the sequence they start or the reset they are in.
LEMMA PowerCallsPost ==
  ASSUME TypeOK, PowerCalls, save_req' \/ unposted' \/ ~unposted
  PROVE  Posted' \/ (~Posted /\ UNCHANGED Record)
<1> USE DEF Posted
<1> DEFINE Same == UNCHANGED <<on_ff, in_delay, relays, delays, timer>>
<1>1. Same => UNCHANGED Record /\ (Running => Running')
  BY RunningKept DEF Record, Head, Tail, relays, delays
<1>2. ASSUME NEW c \in Threads, NEW l, Goto(c, l), Same, save_req => save_req',
             Dropped /\ c = User => l \in {"reset_off", "off_checked"} \/ save_req'
      PROVE  Posted' \/ (~Posted /\ UNCHANGED Record)
  <2>1. Dropped => Dropped' \/ save_req'
    BY <1>2, GotoMoves, ThreadsType DEF Dropped
  <2> QED
    BY <1>1, <1>2, <2>1
<1>3. CASE KeyPower \/ SchedulePower \/ ResetBegin \/ ResetPowerOff
  BY <1>2, <1>3, ThreadsType
  DEF KeyPower, SchedulePower, ResetBegin, ResetPowerOff, Dropped, timers
<1>4. ASSUME NEW on \in BOOLEAN, RemotePower(on)
      PROVE  Posted' \/ (~Posted /\ UNCHANGED Record)
  BY <1>2, <1>4, ThreadsType DEF RemotePower, Dropped, timers
<1>5. ASSUME NEW c \in Threads, PowerCheck(c)
      PROVE  Posted' \/ (~Posted /\ UNCHANGED Record)
  <2>1. Same
    BY <1>5 DEF PowerCheck, timers
  <2>2. ~(Dropped /\ c = User)
    BY <1>5 DEF PowerCheck, Dropped
  <2>3. PICK l \in {"idle", "on_checked", "off_checked"} :
          Goto(c, l) /\ (save_req => save_req')
    <3>1. \/ Return(c)
          \/ /\ Goto(c, IF pc[c] = "on" THEN "on_checked" ELSE "off_checked")
             /\ UNCHANGED save_req
      BY <1>5 DEF PowerCheck
    <3>2. Return(c) => Goto(c, "idle") /\ (save_req => save_req')
      BY DEF Return
    <3>3. CASE pc[c] = "on"
      BY <3>1, <3>2, <3>3
    <3>4. CASE pc[c] # "on"
      BY <3>1, <3>2, <3>4
    <3> QED
      BY <3>3, <3>4
  <2> HIDE DEF Same
  <2> QED
    BY <1>2, <2>1, <2>2, <2>3
<1>6. ASSUME NEW c \in Threads, PowerStart(c) PROVE Posted'
  BY <1>6, StartLeavesRunning DEF PowerStart
<1>7. CASE BootIsr
  <2>1. CASE StartPowerOn
    BY <2>1, StartLeavesRunning
  <2>2. CASE Same
    BY <1>1, <1>7, <2>2 DEF BootIsr, Dropped, calls
  <2> QED
    BY <1>7, <2>1, <2>2 DEF BootIsr, timers
<1>8. CASE ResetApply
  BY <1>8, GotoMoves, ThreadsType DEF ResetApply, Dropped
<1> QED
  BY <1>3, <1>4, <1>5, <1>6, <1>7, <1>8 DEF PowerCalls

\* The calls that switch a relay or set a delay post what they changed, but for
\* the schedule's, which unposted remembers.
LEMMA RelayCallsPost ==
  ASSUME TypeOK, RelayCalls,
         unposted' = (~save_req' /\ (unposted \/ (pc[User] = "schedule" /\ relays' # relays)))
  PROVE  Posted' \/ (~Posted /\ UNCHANGED Record)
<1> USE DEF Posted
<1>1. CASE KeyToggle \/ RelaySet \/ SetDelay
  BY <1>1 DEF KeyToggle, RelaySet, SetDelay
<1>2. ASSUME NEW c \in Threads, NEW l \in {"idle", "toggle", "relay", "schedule"},
             Goto(c, l), ~(c = User /\ Dropped),
             UNCHANGED <<on_ff, in_delay, relays, delays, timers, save_req>>
      PROVE  Posted' \/ (~Posted /\ UNCHANGED Record)
  <2>1. Dropped => Dropped'
    BY <1>2, GotoMoves, ThreadsType DEF Dropped
  <2>2. UNCHANGED Record /\ (Running => Running')
    BY <1>2, RunningKept DEF Record, Head, Tail, relays, delays, timers
  <2> QED
    BY <1>2, <2>1, <2>2
<1>3. CASE KeyToggleBegin \/ RelaySetBegin \/ ScheduleRelayBegin
  BY <1>2, <1>3, ThreadsType
  DEF KeyToggleBegin, RelaySetBegin, ScheduleRelayBegin, SwitchBegin, Dropped
<1>4. CASE ScheduleRelay
  <2>1. CASE UNCHANGED relays
    BY <1>2, <1>4, <2>1, ThreadsType DEF ScheduleRelay, Dropped
  <2>2. CASE relays' # relays
    BY <1>4, <2>2 DEF ScheduleRelay
  <2> QED
    BY <2>1, <2>2
<1> QED
  BY <1>1, <1>3, <1>4 DEF RelayCalls

\* A step of the sequencer.
LEMMA OperatePosts ==
  ASSUME TypeOK, Operate,
         unposted' = (~save_req' /\ (unposted \/ (pc[User] = "schedule" /\ relays' # relays)))
  PROVE  Posted' \/ (~Posted /\ UNCHANGED Record)
<1>1. CASE PowerCalls
  BY <1>1, PowerCallsPost
<1>2. ASSUME NEW t \in TimerIds, LedTick(t)
      PROVE  Posted' \/ (~Posted /\ UNCHANGED Record)
  BY <1>2, RunningKept
  DEF LedTick, Posted, Dropped, Record, Head, Tail, relays, delays, timers, calls
<1> QED
  BY <1>1, <1>2, RelayCallsPost, TickPosts DEF Operate, Tick

\* What does not touch the sequencer leaves its part of Posted alone.
LEMMA SaverSteps ==
  ASSUME UNCHANGED vars
  PROVE  /\ UNCHANGED Record /\ UNCHANGED Head /\ UNCHANGED Tail
         /\ UNCHANGED <<Running, Dropped, save_req>>
  BY DEF vars, relays, delays, timers, calls, Record, Head, Tail, Running, Kind,
     Dropped

\* Every step keeps the invariant.
LEMMA ReachInvNext ==
  ASSUME PTypeOK, ReachInv, [PNext]_pvars
  PROVE  ReachInv'
<1> USE DEF ReachInv, Due
<1>1. CASE UNCHANGED pvars
  BY <1>1, SaverSteps DEF pvars, saves, Posted, Restored
<1>2. CASE Device
  <2>1. Posted' \/ (~Posted /\ UNCHANGED Record)
    BY <1>2, OperatePosts DEF Device, PTypeOK
  <2>2. CASE UNCHANGED Record
    BY <1>2, <2>1, <2>2 DEF Device, Record, Restored
  <2> QED
    BY <2>1, <2>2
<1>3. CASE Arm
  BY <1>3 DEF Arm
<1>4. CASE SaveTime
  BY <1>4 DEF SaveTime, Posted
<1>5. CASE CopyHead
  BY <1>5, SaverSteps DEF CopyHead, Record
<1>6. CASE CopyTail
  <2>1. snap \in RecordType /\ snap' = [snap EXCEPT !.tail = Tail]
    BY <1>6 DEF CopyTail, PTypeOK, SavesOK
  <2>2. snap.head = Head => snap' = Record
    BY <2>1 DEF Record, RecordType
  <2>3. snap = Record => snap.head = Head
    BY DEF Record
  <2> QED
    BY <1>6, <2>2, <2>3, SaverSteps DEF CopyTail, Posted
<1>7. CASE Erase
  BY <1>7, SaverSteps DEF Erase, Posted
<1>8. CASE Write
  <2>1. snap # Blank
    BY <1>8, NotBlank DEF Write, PTypeOK, SavesOK
  <2> QED
    BY <1>8, <2>1, SaverSteps DEF Write, Posted, Restored
<1>9. CASE PowerCycle
  <2>1. Record' = Restored /\ Restored' = Restored
    BY <1>9, RecordTypes, Loaded DEF PowerCycle, Restored
  <2> QED
    BY <1>9, <2>1 DEF PowerCycle
<1> QED
  BY <1>1, <1>2, <1>3, <1>4, <1>5, <1>6, <1>7, <1>8, <1>9 DEF PNext

\* Whatever the interrupt does while the settings are copied, and whenever the
\* power is cut, a record in flash that differs from the one in use is about to
\* be replaced.  The calls that start a sequence may overlap.
THEOREM ChangeIsSaved == PSpec => []ChangeReachesFlash
<1>1. PInit => ReachInv
  BY DEF PInit, ReachInv, Restored
<1>2. PTypeOK /\ ReachInv /\ [PNext]_pvars => (PTypeOK /\ ReachInv)'
  BY PNextType, ReachInvNext
<1>3. ReachInv => ChangeReachesFlash
  BY DEF ReachInv, Due, Posted, Dropped, ChangeReachesFlash
<1> QED
  BY <1>1, <1>2, <1>3, PInitType, PTL DEF PSpec

-----------------------------------------------------------------------------
(* Pins, records and light over power cuts.  A record copied in the middle   *)
(* of a sequence boots a device that takes itself to be in a sequence no     *)
(* timer will end: the invariant of Sequencer that ties is_in_delay to the   *)
(* timers fails there, and such a device is described by Stuck instead.      *)

Stuck ==
  /\ in_delay /\ AtRest
  /\ \A c \in Threads : ~Critical(c) /\ ~Switching(c)
  /\ ~on_task.counting /\ ~off_task.counting
  /\ \A i \in Relay : ~pin[i]

\* A record to boot from takes only relays for closed that it will close again.
Sound(r) == \A i \in Relay : r.head.cur[i] => r.head.last[i]

SoundInv == (area # Blank => Sound(area)) /\ (snap # Blank => Sound(snap))

PinsInv == PTypeOK /\ (FlagInv \/ Stuck) /\ RestInv /\ SoundInv

\* None of the relays is fed, and no timer drives a sequence.
Quiet ==
  /\ AtRest /\ ~on_task.counting /\ ~off_task.counting /\ Nobody
  /\ \A i \in Relay : ~pin[i]
  /\ in_delay \/ (boot_pending /\ ~light)

\* Such a device satisfies the invariant of a sequence, by standing still.
LEMMA QuietRests ==
  /\ Quiet /\ WantedInv => RestInv
  /\ Quiet' /\ WantedInv' => RestInv'
<1> USE DEF Quiet, RestInv, RecordInv, OnTurnInv, OffTurnInv, BetweenInv, DarkInv,
            Rising, AtRest, Nobody
<1>1. Quiet /\ WantedInv => RestInv
  OBVIOUS
<1>2. Quiet' /\ WantedInv' => RestInv'
  OBVIOUS
<1> QED
  BY <1>1, <1>2

\* Nothing moves a device that takes itself to be in a sequence.
LEMMA StuckMoves ==
  ASSUME TypeOK, Stuck, Operate
  PROVE  /\ UNCHANGED <<in_delay, last, cur, pin, timer, on_task, off_task>>
         /\ \A c \in Threads : pc'[c] = pc[c] \/ pc'[c] \in {"idle", "on", "off"}
<1>1. in_delay /\ \A t \in TimerIds : timer[t] = "none"
  BY DEF Stuck, AtRest
<1>2. \A c \in Threads : pc[c] \notin {"on_checked", "off_checked", "reset",
                                     "reset_off", "toggle", "relay", "schedule"}
  BY DEF Stuck, Critical, Switching
<1>3. ~RelayCalls
  <2>1. ~KeyToggleBegin /\ ~RelaySetBegin /\ ~ScheduleRelayBegin /\ ~SetDelay
    BY <1>1 DEF KeyToggleBegin, RelaySetBegin, ScheduleRelayBegin, SwitchBegin,
       SetDelay
  <2>2. ~KeyToggle /\ ~RelaySet /\ ~ScheduleRelay
    BY <1>2, ThreadsType DEF KeyToggle, RelaySet, ScheduleRelay
  <2> QED
    BY <2>1, <2>2 DEF RelayCalls
<1>8. ~Tick
  BY <1>1 DEF Tick, PowerOnTick, PowerOffTick, LedTick
<1>4. SchedulePower \/ BootIsr \/ \E c \in Threads : PowerCheck(c)
  <2>1. ~KeyPower /\ ~ResetBegin /\ \A on \in BOOLEAN : ~RemotePower(on)
    BY <1>1 DEF KeyPower, ResetBegin, RemotePower
  <2>2. ~ResetApply /\ ~ResetPowerOff /\ \A c \in Threads : ~PowerStart(c)
    BY <1>2, ThreadsType DEF ResetApply, ResetPowerOff, PowerStart
  <2> QED
    BY <1>3, <1>8, <2>1, <2>2 DEF Operate, PowerCalls
<1> USE DEF Stuck, relays, timers, tasks, calls
<1>5. CASE SchedulePower
  <2>1. PICK l \in {"on", "off"} : Goto(User, l)
    BY <1>5 DEF SchedulePower
  <2> QED
    BY <1>5, <2>1, GotoMoves, ThreadsType DEF SchedulePower
<1>6. CASE BootIsr
  BY <1>6 DEF BootIsr
<1>7. ASSUME NEW c \in Threads, PowerCheck(c)
      PROVE  /\ UNCHANGED <<in_delay, last, cur, pin, timer, on_task, off_task>>
             /\ \A d \in Threads : pc'[d] = pc[d] \/ pc'[d] \in {"idle", "on", "off"}
  <2>1. Goto(c, "idle")
    BY <1>7 DEF PowerCheck, Return
  <2> QED
    BY <1>7, <2>1, GotoMoves DEF PowerCheck
<1> QED
  BY <1>4, <1>5, <1>6, <1>7

\* Such a device stays as it is until the next power cut.
LEMMA StuckStays ==
  ASSUME TypeOK, Stuck, WantedInv,
         UNCHANGED <<in_delay, last, cur, pin, timer, on_task, off_task>>,
         \A c \in Threads : pc'[c] = pc[c] \/ pc'[c] \in {"idle", "on", "off"}
  PROVE  Stuck' /\ RestInv'
<1>1. Stuck'
  BY DEF Stuck, AtRest, Critical, Switching
<1>2. WantedInv'
  BY DEF WantedInv
<1>3. Quiet'
  BY <1>1 DEF Stuck, Quiet, Nobody
<1> QED
  BY <1>1, <1>2, <1>3, QuietRests

\* A step of the sequencer, whatever the boot restored.
LEMMA NextKeepsPins ==
  ASSUME SerialCalls, TypeOK, FlagInv \/ Stuck, RestInv, [Next]_vars
  PROVE  (FlagInv \/ Stuck)' /\ RestInv'
<1>1. CASE FlagInv
  BY <1>1, FlagInvNext, RestInvNext
<1>2. CASE Stuck
  <2>1. CASE Operate
    BY <1>2, <2>1, StuckMoves, StuckStays DEF RestInv
  <2>2. CASE UNCHANGED vars \/ MsgTask
    BY <1>2, <2>2, StuckStays
    DEF RestInv, vars, MsgTask, relays, timers, tasks, calls
  <2> QED
    BY <2>1, <2>2 DEF Next
<1> QED
  BY <1>1, <1>2

\* The record of a device is one to boot from.
LEMMA RecordSound == RestInv => Sound(Record)
  BY DEF RestInv, WantedInv, Sound, Record, Head

\* A boot, from whatever record: the pins are open and nothing runs.
LEMMA BootPins ==
  ASSUME PinsInv, PowerCycle
  PROVE  (FlagInv \/ Stuck)' /\ RestInv'
<1>1. Restored \in RecordType /\ TypeOK'
  BY RecordTypes, BootTypes DEF PinsInv, PTypeOK
<1>2. Sound(Restored)
  BY DEF PinsInv, SoundInv, Sound, Restored, Defaults
<1>3. last' = Restored.head.last /\ cur' = Restored.head.cur
  BY DEF PowerCycle, Load
<1>4. (\A i \in Relay : ~pin'[i]) /\ \A c \in Threads : pc'[c] = "idle"
  BY DEF PowerCycle
<1>5. AtRest' /\ ~on_task'.counting /\ ~off_task'.counting /\ boot_pending' /\ ~light'
  BY DEF PowerCycle, AtRest, NotCounting
<1>6. WantedInv'
  BY <1>2, <1>3, <1>4 DEF WantedInv, Sound
<1>7. \A c \in Threads : ~Critical(c)' /\ ~Switching(c)'
  BY <1>4 DEF Critical, Switching
<1>8. RestInv'
  BY <1>4, <1>5, <1>6, <1>7, QuietRests DEF Quiet, Nobody
<1>9. (FlagInv \/ Stuck)'
  BY <1>1, <1>4, <1>5, <1>7 DEF FlagInv, Stuck, TimersInv, SerialInv
<1> QED
  BY <1>8, <1>9

\* Every step keeps the invariant.
LEMMA PinsInvNext ==
  ASSUME SerialCalls, PinsInv, [PNext]_pvars
  PROVE  PinsInv'
<1> USE DEF PinsInv, PTypeOK
<1>1. PTypeOK'
  BY PNextType
<1>2. [Next]_vars => (FlagInv \/ Stuck)' /\ RestInv'
  BY NextKeepsPins
<1>3. UNCHANGED <<snap, area>> => SoundInv'
  BY DEF SoundInv, Sound
<1>4. CASE UNCHANGED pvars
  BY <1>1, <1>2, <1>3, <1>4 DEF pvars, saves
<1>5. CASE Device \/ Arm
  BY <1>1, <1>2, <1>3, <1>5 DEF Device, Arm, Next
<1>6. CASE SaveTime
  <2>1. UNCHANGED <<on_ff, in_delay, relays, delays, lights, timers, tasks,
                    boot_pending, calls>>
    BY <1>6 DEF SaveTime
  <2>2. CASE FlagInv
    <3>1. FlagInv'
      BY <1>1, <2>1, <2>2, TimersKept, SerialKept DEF FlagInv, timers, calls
    <3>2. RestInv'
      BY <2>1, <2>2, MoveKeeps
      DEF Switching, Dropped, relays, lights, timers, tasks, calls
    <3> QED
      BY <1>1, <1>3, <1>6, <3>1, <3>2 DEF SaveTime
  <2>3. CASE Stuck
    BY <1>1, <1>3, <1>6, <2>1, <2>3, StuckStays
    DEF SaveTime, RestInv, relays, timers, tasks, calls
  <2> QED
    BY <2>2, <2>3
<1>7. CASE CopyHead
  <2>1. snap' = Record /\ UNCHANGED <<vars, area>>
    BY <1>7 DEF CopyHead, Record
  <2>2. SoundInv'
    BY <2>1, RecordSound DEF SoundInv, Sound
  <2> QED
    BY <1>1, <1>2, <2>1, <2>2
<1>8. CASE CopyTail
  <2>1. snap \in RecordType /\ snap' = [snap EXCEPT !.tail = Tail]
    BY <1>8 DEF CopyTail, SavesOK
  <2>2. snap # Blank /\ snap'.head = snap.head
    BY <2>1, NotBlank DEF RecordType
  <2>3. SoundInv'
    BY <1>8, <2>2 DEF SoundInv, Sound, CopyTail
  <2> QED
    BY <1>1, <1>2, <1>8, <2>3 DEF CopyTail
<1>9. CASE Erase
  <2>1. SoundInv'
    BY <1>9 DEF Erase, SoundInv, Sound
  <2> QED
    BY <1>1, <1>2, <1>9, <2>1 DEF Erase
<1>10. CASE Write
  <2>1. SoundInv'
    BY <1>10, NotBlank DEF Write, SoundInv, Sound, SavesOK
  <2> QED
    BY <1>1, <1>2, <1>10, <2>1 DEF Write
<1>11. CASE PowerCycle
  <2>1. SoundInv'
    BY <1>11 DEF PowerCycle, SoundInv, Sound
  <2> QED
    BY <1>1, <1>11, <2>1, BootPins
<1> QED
  BY <1>4, <1>5, <1>6, <1>7, <1>8, <1>9, <1>10, <1>11 DEF PNext

\* The device starts with nothing in flash, at rest.
LEMMA PinsInvInit == PInit => PinsInv
  BY PInitType, FlagInvInit, RestInvInit DEF PInit, PinsInv, SoundInv

\* Where the calls that start a sequence do not overlap: whenever the power was
\* cut, and whatever piece of an older record the boot restored, the pins of a
\* device between two sequences feed what it will close at the next power-on, or
\* nothing, and its light agrees with on_ff.
THEOREM PinsOverCuts ==
  ASSUME SerialCalls
  PROVE  PSpec => []RestPins
<1>1. PinsInv => RestPins
  <2> SUFFICES ASSUME PinsInv, ~in_delay, ~boot_pending,
                      \A c \in Threads : ~Critical(c)
               PROVE  pin = Ready /\ light = on_ff
    BY DEF RestPins, Ready
  <2>1. ~Dropped
    BY ThreadsType DEF Dropped, Critical
  <2> QED
    BY <2>1 DEF PinsInv, RestInv, BetweenInv
<1>2. PinsInv /\ [PNext]_pvars => PinsInv'
  BY PinsInvNext
<1> QED
  BY PinsInvInit, <1>1, <1>2, PTL DEF PSpec
===============================================================================
