# Formal models of the relay power sequencer

This directory holds TLA+ models of the firmware under `src/apps/user_app`: an
eight-relay power sequencer for racks of audio equipment, built on a Jieli
AC695x chip. Of the 2131 files of the repository only these about 8100 lines
are the program's own; the rest is the vendor's SDK (Bluetooth, audio, operating
system headers, binary libraries), of which we model the timers, the tasks and
the queues as the application uses them.

Paths below are relative to `src/apps/user_app` unless they start with `src/`.

## 1. The system

### Who runs

| context | what it does | where |
|---|---|---|
| `app_core` | key events; the LCD and its setting pages every 10 ms | `io_key/`, `ad_key/`, `ir_key/`, `lcd/user_lcd_handle.c` |
| `user_task` | a loop every 10 ms: schedules (every 20th), one byte of the instruction scanner, a complete instruction, periodic save (every 3000th), save countdown, save | `user_main_task.c` |
| `msg_task` | waits for a message; arms the save countdown | `user_main_task.c` |
| timer interrupt | power-on and power-off callbacks (1 s), flashing light (500 ms), boot (200 ms, once), mains voltage filters | `sequencer/`, `lcd/`, `ac_detection/` |
| serial port events | put bytes into the ring buffer (downstream host), pass feedback upstream | `user_driver/user_uart1_driver.c`, `user_uart2_driver.c` |

`user_task` and `msg_task` have the same priority, above `app_core`. There are
no locks: everything is shared through global variables, above all
`sequencers` (device state, relay records, delays and the flag `is_in_delay`
that stands for "a sequence runs"), the weekly plans, the clock and the three
save variables.

### Components

* **Sequencer** (`sequencer/`, `user_driver/relay_handle.c`,
  `user_driver/power_light.c`). State: `sequencers`, three timer ids, the
  statics of two callbacks, pins, light. Operations: power on, power off,
  toggle and set a relay, set a delay, reset. Right when: the flag agrees with
  the timers; pins, records and light agree at rest; relays switch one at a
  time, in order, at their delays; every sequence ends. Hard: the flag is
  tested and set in two steps by two threads and an interrupt, and the
  interrupt finishes sequences while threads are inside handlers.
* **Saving** (`flash_handle/`). State: three countdown variables, the flash
  area. Operations: arm, count down, copy, erase, write, restore. Right when:
  no change is forgotten and what is restored makes sense. Hard: two threads
  share the variables; the copy is taken while the interrupt writes its source;
  the power may fail at any point.
* **Instruction buffer and scanner** (`instruction_handle/instruction_handle.c`).
  State: ring buffer, scanner status, time-out. Right when: frames come out
  whole and in order and no input wedges the scanner. Hard: two threads update
  `count`; a broken frame's time-out races its next byte.
* **Instruction handlers** (`instruction_handler_func.c`): each is an action of
  the module whose state it changes.
* **Weekly schedules** (`user_schedule/`). State: one plan of the device and
  one of each relay per weekday. Operations: set, cancel, store from the
  setting page, compare with the clock. Right when: device and relays follow
  the plans. Hard: a plan acts only in the second it names; calls, sequences
  and the end of a day fall between.
* **Chain of devices** (`instruction_feedback.c`, `instruction_transmit.c`, the
  rest of `instruction_handle.c`). State: the addresses, what is on the lines.
  Operations: act, answer upstream, forward downstream, pass on what comes up.
  Right when: INIT numbers the devices along the chain, an instruction to one is
  carried out once, one to all everywhere, and the host hears of it. Hard: what
  is forwarded is decided at two different moments, on an address the
  instruction may have changed; devices refuse, restart and forget.
* **Keys, setting pages, LCD** (`io_key/`, `ad_key/`, `ir_key/`, `lcd/`). State:
  which page is open, the copy of a plan or of the time on it, time-outs.
  Operations: open, edit, move, leave, each by up to three kinds of keys, and the
  display handler's tick. Right when: what is shown is edited and what is left
  is stored. Hard: a dozen copies of the same few calls, case labels that fall
  through, and instructions that change a plan behind its page.
* **Clock** (`user_driver/user_sys_time.c`). Right when a time that is edited
  unit by unit stays a date of the calendar.
* **Mains voltage** (`ac_detection/`). State: a window of samples, an average of
  ten values, the number on the display. Right when the display shows a steady
  mains and stands still. Hard: two windows with a threshold behind them, whose
  first contents are not voltages.
* **Left out for good**: `hlw8032/` (of which only the function that splits a
  number into digits is called), `user_uart_driver.c` (never initialised), the
  bit-banged protocol of the LCD driver, and the vendor SDK.

`PROJECT.json` lists the components with their status, and the hazards of this
code, each at its line, with the properties that cover it.

## 2. The modules

| module | models | composed with |
|---|---|---|
| `Sequencer` | the sequencer and every handler that reaches it | |
| `PowerCycle` | the sequencer's record in flash, over power cuts | extends `Sequencer` |
| `SaveData` | countdown, save and restore, store by store | |
| `ByteQueue` | abstract: what the ring buffer promises | |
| `InstructionBuffer` | the ring buffer, load and store of `count` apart | implements `ByteQueue` while nothing is lost |
| `InstructionScan` | the scanner behind such a queue, and its host | relies on `ByteQueue` |
| `Schedule` | the weekly plans and their comparison with the clock | relies on `Sequencer` |
| `PowerPhase` | abstract: what the sequencer promises about power | |
| `Sequencer` | | implements `PowerPhase` |
| `Cascade` | a chain of devices behind one host | relies on `Sequencer`, `SaveData` |
| `SysTime` | arithmetic of a time that is being edited | |
| `SettingPages` | the setting pages, their keys and time-outs | extends `SysTime`, relies on `Schedule` |
| `AcVoltage` | the mains voltage on the display | |
| `SequencerProofs`, `SaveDataProofs`, `InstructionBufferProofs`, `InstructionScanProofs`, `ScheduleProofs`, `CascadeProofs`, `SettingPagesProofs`, `AcVoltageProofs` | theorems about the module of that name; `SequencerProofs` has those of `PowerCycle` too, which rest on the others, and `SettingPagesProofs` those of `SysTime` | |

The `MC…` modules and the `.cfg` files are instances for TLC. A definition whose
comment begins with "Mutant" is a plausible bug, used to check that the
properties notice it; no specification refers to one.

### Sequencer

`pc[c]` says how far thread `c` is inside a handler. A power call is three
steps: its caller's tests (`KeyPower`, `RemotePower`, `SchedulePower`), the test
of `is_in_delay` (`PowerCheck`), the rest (`PowerStart`). Relay handlers are
two: their tests and the switching, between which an instruction sleeps 50 ms
(`sequencer.c:79`). A factory reset is `ResetBegin`, `ResetApply`,
`ResetPowerOff` and then an ordinary power-off call. `PowerOnTick` and
`PowerOffTick` are the callbacks, split by outcome: nothing to switch, a second
counted, a relay switched. `cur_relay_close_time` is eight bits wide
(`CounterMod`), `close_time` sixteen.

Assumptions.
*Timers*: a tick does not fall before the boot interrupt nor into the window of a
handler that has tested the flag (`MayTick`): the first comes a second after
the timer is added, the boot interrupt after 200 ms, the windows last 50 ms at
most. *Serial calls*: with `SerialCalls = TRUE` windows between test and set do
not overlap. That is what the code relies on and not what it enforces: the run
`sequencer_race` sets it to FALSE. The constant separates the questions "is the
sequencer right when its calls do not race?" and "do they race?".
The addressee of an instruction is left out (every
instruction here is one for this device), as are the totals `open_timeing` and
`close_timeing`, which nothing reads, and the icons. Since a key may be pressed at
any time, the mode of the user interface only restricts which behaviours occur.

### PowerCycle

`Record` is what flash keeps of `sequencers`. `Load` restores all of it,
`is_in_delay` included. The save path is five steps: arm, copy the first half,
copy the second half, erase, write; one step of the interrupt or of a key may
fall between the halves. A boot takes the defaults when it finds the area
erased. A power cut is possible in every state. Header and record are one here,
so the write is one step and does not fail: what lies between header and data,
and a flash that refuses, is the subject of SaveData.

### SaveData

Every load and store of `time_count_down`, `flag_is_enable_count_down` and
`flag_is_enable_to_save` is a step of its own, so all interleavings of
`user_task` and `msg_task` occur. Settings are two parts, copied and written one
after the other: the first holds the header byte, so a power cut between the
parts leaves a header with erased data behind it. Keys, instructions and the
interrupt change settings at any time; keys and instructions post afterwards,
and so does an instruction that was accepted without having anything to change
(`instruction_handler_func.c:35`).
`Sleep` lets `msg_task` empty its queue while `user_task` sleeps its 10 ms: both
have one priority, and without it a scheduler could starve `msg_task` for ever.

Three changes are posted by nobody (`Silent`): a relay switched inside a sequence,
whose end posts, a relay switched by its schedule (`user_schedule.c:169`), and
the plan that the long key of relay 7 stores (`user_ad_key.c:396`). And the flash
may fail in three ways, of which the code takes no notice: the area does not open
(`OpenFails`), `fwrite` takes less than it is given after the area was erased
(`WriteFails`), and a boot that cannot read takes the defaults (`ReadFails`).
`owed` remembers the parts that were changed so, or lost so, until the next
post, which leads to a save, or the next copy, which is one. `SaveIsPending` is
about the others; that those are made up for is `Settles`.
The second part of the settings holds the plans and the time as it was set. The
ticking of the clock is no change of a setting here: what it reads in flash is
only ever as recent as the last save.

### InstructionBuffer and InstructionScan

The ring buffer is mapped to `ByteQueue`: a byte is in when it is counted and
out when the tail has passed it. With `MayPreempt` the threads fall between load
and store of `count`, as the code allows; bytes arrive at any time, also in a
full buffer. The mapping is a refinement until one of the two happens, which the
history variable `intact` records, and the theorem `RingIsQueue` says no more and
no less. `InstructionScan` stands on a queue that is intact: its host is held
back while the buffer is full.

The scanner takes one byte per loop. Its host is in step or not: in step it
sends whole frames without pausing for the time-out inside one (the scanner
tests the time-out before it looks into the buffer, so a pause of exactly the
time-out is already too long); after a broken frame or noise it counts as in
step again when it has been silent until the scanner must have given up. An
unknown instruction type has length zero: it ends at its third byte and the
rest of the frame is noise.

### Schedule

A sequence is its start and its end, at least one second apart; `Sequencer` has
the steps between, in which no schedule switches a relay.
`ScanDevice` and `ScanRelays` are the two comparisons that `user_task` makes every
200 ms; each reads the clock once per call. Keys and pages may come between
them, instructions may not: `user_task` handles those itself. `Second`
requires that both comparisons were made in the second: that is how often
`user_task` runs, unless it sleeps in a handler or writes flash. `quiet`
counts the whole seconds since the last disturbance (a call, a start or an end
of a sequence), which is what the properties speak of: a plan is followed from
the first whole second that nobody interferes with. The setting page stores
hours and minutes for all weekdays and leaves the seconds an instruction set
before; the loop over the relays ends one short (`user_schedule.c:152`) and asks
Sunday's flag for every day (`:154`). The model keeps all three.
`RelayFollowsPlan` speaks of relays with a plan for every weekday, which is how a
page stores one, and leaves out the last; what the comments say of plans of
single days and of all relays is `SwitchedByPlan`, which does not hold (section 5).

### PowerPhase

Seen from outside the sequencer has a phase (off, rising, on, falling, and
restored or dropped at the edges of a boot and a factory reset), the relays that
are wanted and those that are fed. What is fed in the middle of a sequence it leaves
open; at the end of one exactly the wanted relays are fed, or none. `Sequencer`
implements it under the mapping `Power`: `wanted` is the record of the relays,
`fed` the pins. The refinement includes fairness: the abstract sequence ends
because the timers of the detailed one do.

### Cascade

Each device takes one instruction at a time and handles it in the steps another
device or `app_core` can come between: `Act` (the handler, and for INIT the
forwarding inside it), `Finish` (answer and forwarding at the end), and `Relay`,
the handler of the port that leads to the next device. An instruction has a type,
an address and whether its payload is in range. Handlers of one shape are one
type: `"set"` stands for delays, plans and time, which every device that is not
in a sequence accepts. Keys, schedules, power cuts and the save of the address
are one step each here; Sequencer, Schedule, PowerCycle and SaveData have their
insides. Lines lose nothing and keep order (InstructionScan shows what becomes
of broken frames). Things worth knowing that the model shows: a busy device
refuses an INIT and forwards it all the same, so numbering goes on behind it; it
answers such an INIT only if the address happens to be its own; an INIT travels
before it is answered, so its answers may overtake each other, which
`NearestFirst` allows for; a factory reset sent to one device travels
on, because its address has changed by the time forwarding is decided; it is
`CarriedOutOnce` that leaves resets out.

### SysTime and SettingPages

`SysTime` is the arithmetic: a unit goes up or down to its limit, then
`user_setting_time_check_up` (`CheckUp`) brings the time back into the calendar.
`DaysBefore`, `CalendarDays` and `IsDate` are the reference definition, the
calendar counted in days, and stand for no code.

`SettingPages` has one action per way to open, edit or leave a page. Keys that do
the same are one action (`TimeEdit`, `PageUnit`); those whose copies of the same
calls differ are not (`AdClose`, `IrClose`, `IrToTime`, `IrToRelay`). A key that is
ignored is a step that changes nothing. `app_core` handles keys and the display
tick one after the other; instructions come from `user_task` between them.
What a key that falls through does is modelled as it is: `KEY_IR_R6C3` opens the
page of relay 6 (`Reached`), the long key of relay 6 runs on into the next unit
and that of relay 7 past its post (`AdClose`). Plans keep hours, minutes, whether
their seconds are zero, and `enable`. The clock runs by minutes and only as often
as `MaxCalls` allows. `unsaved` says that something was set that no post has followed; a
post that is made is saved (SaveData).

### AcVoltage

A sample of the model is a whole wave of the mains: its lowest and highest
converter value, of which the code uses nothing else. The conversion in double
precision followed by truncation is the integer division `Volts`; the waves of
an instance lie where no voltage comes out negative (`InputAssumption`).
`MainsAssumption` says what a steady mains is: either no wave swings, whichever
lowest and highest value the window combines, or every one does and their
voltages lie a volt apart at most. `Every`
is the period of the update, 1500 ms (`init.c:234`; the comment at
`ac_detection.c:174` speaks of 500).

## 3. What the runs show

| run | instance | shows |
|---|---|---|
| `sequencer` | 3 relays, one of them possibly slow, 2 timer ids | `DelayFlagIsTimers`, `RestRecord`, `SequenceOrder`, `EndIsSaved`, `OpenSpacing`, `CloseSpacing`; `PowerOnEnds`, `PowerOffEnds`, `ResetEnds`; `ImplementsPower` (refinement) |
| `power_cycle` | 2 relays, power cuts anywhere | `ChangeReachesFlash`, `RestPins` |
| `save_data` | 2 values, countdown 2, save every 3 loops, queue of 1, failing flash | `SaveIsPending`, `Settles` |
| `instruction_scan` | 2 frames, buffer of 3, time-out 3 | `InOrder`, `NeverWedged` |
| `schedule` | 2 relays, 2 days of 2 minutes of 2 seconds, 2 calls | `PowerFollowsPlan`, `RelayFollowsPlan`, `PlanRepeats` |
| `cascade` | 3 devices, 2 instructions of 5, 1 upset | `Numbered`, `AddressIsSaved`, `Accounted`, `CarriedOutOnce`, `AnswersAreTrue`, `NothingUnreported`, `NearestFirst`, `AllAnswer` |
| `setting_pages` | see `MCSettingPages`: relays 6 and 7, a short day, time-out of 2 ticks | `ShownIsEdited`, `TimesAreDates`, `OnlySeventhWaits`, `LeavingStores`, `ViewingIsHarmless`, `StaysOpen`, `PagesClose` |
| `ac_voltage` | window of 5 waves, update every 2, average of 3, 3 kinds of mains changing twice | `SteadyIsShown`, `StillDisplay` |

Four further runs, `sequencer_race`, `stuck_delay`, `buffer_overrun` and
`relay_plans`, end in a violation; they are the findings of section 5.

Why the bounds are enough:

* *Relays.* Order and "first, middle, last" need three; the save and the schedule
  compare one relay with the next, so two. In Schedule the second one is the
  last, which the code never visits.
* *Timer ids.* While calls are serial, `DelayFlagIsTimers` says that no timer
  outlives its sequence, so two ids suffice; runs that ask about more have four.
  Ids are interchangeable: symmetry is used in the runs without liveness.
* *Delays.* 1 and 3 differ in what the counter does: over at once, and counted.
  Closing delays are counted modulo four in the run, so that 5 is what 257 is to
  the eight bits of the code: it leaves a second or none. The middle relay alone
  may be slow (`Settings`), in opening or in closing; whether it is changes at any
  moment of rest, and so does whether it is the first of a sequence. The theorems
  of section 4 hold for any settings.
* *Save.* A countdown of two loops has a first and a last decrement; a queue of one
  is full after one post. A period of three loops lies just above the countdown.
  The code's numbers are larger and have the same order.
* *Buffer, scanner.* A buffer shorter than a frame shows that the host is held
  back rather than data lost; a time-out of three lets a pause be shorter than,
  equal to and longer than it.
* *Schedule.* Two days have an end of day and a Sunday; two minutes of two seconds
  tell seconds from minutes. Two calls set up one plan and disturb it once (or
  two plans, or one plan twice). `MaxQuiet` of four seconds covers a whole
  day; the safety properties were also checked with three calls.

* *Cascade.* Three devices have a first, a middle and a last one. Two
  instructions are what it takes to renumber or reset after an INIT; one upset
  (a sequence begun by hand, or a power cut) makes one device refuse or forget.
  Addresses 0 to 3 with 4 for all: an INIT can run into the end of the addresses.
* *Setting pages.* Relays 6 and 7 are the ones whose keys fall through. A time-out
  of two ticks can be interrupted and can expire. The clock starts in the last
  minute of a leap day: one edit makes a date that does not exist, one minute
  ends the month. Two weekdays, two hours and two minutes let plans differ and
  reach both limits.
* *Mains.* As in the code (200, 75 and 10), the window is longer than two periods
  and no multiple of one, and an average reaches further back than a window. Waves
  a volt apart make the average vary by one, the largest change the display must hold back.

**Fairness.** The timer interrupt is never held off; a thread inside a handler comes
back; `user_task` and `msg_task` are scheduled again and again (they sleep or
wait in every loop, and nothing of higher priority spins); the clock runs. In
Schedule a sequence ends, which is what `PowerOnEnds` and `PowerOffEnds` of
Sequencer establish. In
Cascade no chain with work left stands still; in SettingPages the display handler
ticks (every 10 ms) and `user_task` posts (every 30 s). All of it is weak
fairness. Keys, instructions, plans, noise and power cuts carry none. A host inside a frame goes on or breaks off.

## 4. What is proved

TLAPS proves the theorems below, for every value of the constants.

* `TypeCorrect` — `Spec => []TypeOK` of Sequencer. One step per action; lemmas say
  what `OnLeft`, `OffLeft`, starting and finishing a sequence do to the types.
* `FlagIsTimers` — with serial calls, `[]DelayFlagIsTimers`. The invariant is not
  inductive by itself: a thread that has passed the test of `is_in_delay` will
  start a sequence without looking again, so one must know that the flag is
  still clear then, and that nobody else is about to do the same. `FlagInv`
  adds the types and `SerialInv`: a thread between test and set is alone there
  and the flag is clear. Serial calls are an assumption of the theorem,
  and `sequencer_race` shows that it cannot be dropped.
* `RestRecorded`, `SequenceInOrder` — with serial calls, `[]RestRecord` and
  `SequenceOrder`, from one invariant, `RestInv`, on top of `FlagInv`. In a
  sequence the records are not the pins: a power-on starts by clearing them, and
  a factory reset turns the device off before it opens anything. What survives
  is `RecordInv`: in a power-on a relay recorded as closed is closed, and at any
  other time a closed relay is recorded so; each sequence errs on the side
  of switching again. The two turn invariants say that the relay a callback
  counts is still the next one, for which no handler may be about to switch.
  `BetweenInv` is silent on the records of a device at rest: a boot may restore
  them from the middle of a sequence, and `RestInv` is to hold over power cuts
  too. What `RestRecord` says of them is `OpenInv`, for a device that began at
  rest: a power-off ends only when it finds no relay recorded as closed.
* `EndSaves` — with serial calls, `EndIsSaved`. The factory reset also clears the
  flag; `SerialInv` shows that it finds it clear.
* `OpenSpaced`, `CloseSpaced` — the spacings, from `SpaceInv`: seconds waited and
  seconds left add up to the delay, or to one less for the first relay.
  `cur_relay_close_time` is narrower than the delays an instruction may set:
  `ClosesUp` follows a counter that was cut, and for a delay it does not hold
  `CloseSpacing` says what comes of it, fewer ticks than the counter has values
  (section 5). No bound on the delays is assumed.
* `SequencerIsPower` — with serial calls, `Spec => Power!Spec`, the safety part of
  `ImplementsPower`: `PowerStep` lists what a step may do to phase and relays,
  and every action is shown to do one of these or nothing.
* `ChangeIsSaved` — `[]ChangeReachesFlash` of PowerCycle, without any assumption on
  the calls. The property allows a record in flash that equals the one in use;
  but a save that is under way will erase it. `ReachInv` says that then the copy
  it took is current, or that a later save is `Posted`, where a step that is about
  to post one counts: a sequence that runs, or a handler that dropped the flag.
* `PinsOverCuts` — with serial calls, `[]RestPins` of PowerCycle. A record copied in
  the middle of a sequence boots a device that takes itself to be in one no
  timer will end, for which `FlagInv` is false. Such a device is `Stuck`: its
  relays are open, nothing is counting and no handler is past a test, so that it
  stays so; in every other state `FlagInv` holds. `SoundInv` says of every
  record that can be booted from, whole or not, that it takes no relay for closed
  that the next power-on would not close.
* `TypeCorrect`, `NothingForgotten` of SaveData — `[]TypeOK`, which needs that the
  decrement never holds a zero (`RegInv`), and `[]SaveIsPending`, with a flash that
  fails at opening, writing and reading. That flash and settings agree does not
  help once `user_task` is about to erase flash for an older copy; `PendingInv`
  follows copy and flash through a save, and says of each part that its copy is
  current, that a later save is `Posted`, or that the part is owed one.
* `TypeCorrect`, `RingIsQueue` of InstructionBuffer — the types, and
  `QueueWhileIntact`, of a ring of any length, with overruns and with both threads
  in the middle of each other's updates. The invariant places the head as many
  bytes ahead of the tail as there are bytes, the one not yet counted included,
  as long as the ring is intact; `Ahead` replaces the remainders, so that the
  provers need no division. Where it is no longer intact the types still hold:
  `count` exceeds the length by one at most and never falls below zero. What is
  assumed of the constants, `RingAssumption`, stands in the theorems.
* `ScanTypes`, `FramesInOrder` — `[]TypeOK` and `[]InOrder` of InstructionScan. What
  the scanner holds, the queue and what the host has left to send are one
  stream, which in step is the pending frames end to end: `CutUp` says that there
  is a sequence of places to cut it (a recursive concatenation would put it out
  of the provers' reach). A host falls out of step by a pause or noise, and comes
  back after silence; `SilenceInv` shows that the scanner has then given up, since
  its time-out has counted at least the loops the host was silent. A host may
  send any frames that are what `FramesAssumption` says of the protocol: they
  begin with the head and are as long as their type tells.
* `ScheduleTypes` — the types of Schedule, with the fact that an enabled
  relay plan names some time besides midnight. The clock constants are only
  known as positive numbers, so the wrapping of the clock and of stored times
  needs lemmas on `%` and on products (`StoredTime`).
* `DevicePlanKept` — `[]PowerFollowsPlan`. Inductive by itself: every step but a
  comparison or a second sets `quiet` to -1, a second empties `scanned`.
* `RelayPlanKept` — `[]RelayFollowsPlan`. What is inductive is the same of every
  relay the loop visits, `VisitedFollow`; a relay with a plan for every weekday
  is one of them, as Sunday is a weekday. `AgoStep` says that a second moves every
  past moment by one across the end of a day and of a week, `AgoNow` that zero
  seconds ago is now; a comparison then settles the present and leaves the past
  alone.

* `CascadeTypes`, `ChainNumbered` — the types of Cascade, and `[]Numbered`. It needs
  to know where an INIT comes from: `NumberInv` says that every copy of an INIT
  in the buffer of device `d` carries the address the host sent plus `d - 1`, and
  that an address taken, or kept in flash, from it is that number.
* `AddressSaved` — `[]AddressIsSaved`. What flash differs in is about to be answered,
  because `Answers` compares with the address before and after the instruction.
* `OneCarriesOut`, `NobodyPassedOver`, `NearestIsFirst` — `[]CarriedOutOnce`,
  `[]Accounted` and `NearestFirst`, all on `TokenInv`: over power cuts and whatever
  addresses there are, an instruction waits or is acted on at one place at most,
  and no device from there on has had it. `OnceInv` adds that the device that
  carries an instruction to one device out will not forward it, because its
  address is the same before and after; that is why INIT and reset are excepted.
  `ReachInv` says how far an instruction to all, or an INIT, has come while
  nothing was cut off; an INIT ends where `NumberInv` says its address would be
  the broadcast address. `UpInv` orders the answers on their way up, those of one
  buffer and those of different ones, and `BehindInv` says that they are all from
  before the place the instruction is at: a device answers before it forwards.
* `AnswersTrue`, `AllReported` — `[]AnswersAreTrue` and `[]NothingUnreported`. An
  answer is made when the instruction is over, from what `job` kept of it, and
  nothing may overwrite the device's result meanwhile: `TruthInv` follows job and
  answers, and `TokenInv` is what keeps a second copy of the instruction away.
  Whether a device answers is decided on its address, before or after;
  `OkInv` says that what was carried out will be answered whatever it did to the
  address. `NothingUnreported` is then inductive, since only a power cut loses answers.
* `CheckUpValid`, `MonthsAreCalendar`, `EditedIsDate`, `EditKeepsTheRest` — every
  time `CheckUp` returns is valid; the table of months with the leap rule is the
  calendar; an edit of a date is a date, and changes nothing but its unit and
  a day the month has become too short for.
* `PageTypes`, `DisplayFollowsEdit`, `ClockIsDate`, `OthersPost`, `LeavingAlwaysStores`,
  `PagesStayOpen` — from one inductive invariant, `IInv`: types, `ShownIsEdited`,
  dates, and that the count of a page is below the time-out and equals the ticks
  since its last key.
* `ViewingChangesNothing` — needs `ViewInv`: while `fresh`, the page holds what
  `Shown` gives for the relay's plans.
* `SteadyShown`, `DisplayStill` — `[]SteadyIsShown` and `StillDisplay` of AcVoltage,
  from `SettledInv`. `WindowInv` says that the last `steady` samples are of the
  present mains, `ValuesInv` that as many of the last values in the average as
  there were updates since the window was filled with it are its voltages,
  `FirstInv` that the first update cannot be overdue, and `ShownInv` that the number
  shown is what `Displayed` makes of the present average, whatever it showed
  before. An average of voltages a volt apart is one of them, so the
  threshold never holds back more than a volt. The sum is a fold; what it gives
  for a buffer of any size needs induction. The library's induction theorems take an
  operator, which the provers cannot instantiate, but its `WFMin` speaks of
  sets: the least size at which a fact fails does instead.

Only model-checked: liveness under fairness (`PowerOnEnds`, `PowerOffEnds`,
`ResetEnds`, `Settles`, `NeverWedged`, `PlanRepeats`, `AllAnswer`, `PagesClose`,
and the fairness in `ImplementsPower`), which is beyond the prover. Every safety
and action property of the passing runs is a theorem; the types of Sequencer,
Cascade, SaveData and InstructionBuffer, and `QueueWhileIntact`, are theorems
that need no run. The runs that end in a violation need no proof: a
counterexample is one. No module declares a recursive operator.

## 5. What disagrees with the code's own words

Each is a run in which TLC finds a behaviour of the code against a comment:

* `sequencer_race`: a key and an instruction both pass the test of
  `is_in_delay` (`sequencer_device_on_off.c:314`) and start two callbacks.
* `stuck_delay`: a save during a sequence keeps `is_in_delay`; after a power cut
  the device waits for a sequence that does not run (`flash_handle.c:136`).

* `buffer_overrun`: a byte put into a full ring buffer takes the slot of the oldest,
  but the tail stays where it is, so the newest byte is taken first, ahead of the
  others (`instruction_handle.c:72`); the comment at `:64` speaks of overwriting
  the old data. Bytes arrive at 9600 baud without flow control and one is taken
  per loop of 10 ms.
* `relay_plans`: the loop over "the eight relays" ends at the seventh, and the plan
  of the last is never compared (`user_schedule.c:152`); and Sunday's flag decides
  for every day (`:154`), so that a plan without Sunday never takes effect and a
  relay planned for Sunday is opened at midnight of a day without a plan, though
  the comment at `:156` says that a relay without a plan is passed over. The run's
  trace is the first of the two. With `SwitchedByPlan` said of the other relays
  alone, TLC shows the second.

Met while modelling, kept in the models, without a run of their own:

* a close delay above 255 s, which the instruction accepts (the comment at
  `instruction_handle.c:355` says 1 to 999 s), loses its upper bits
  (`sequencer_device_on_off.c:182`): `CloseSpacing` says so, and the delay of 5 in
  the run `sequencer` is one;
* `count++` and `count--` undo each other (`instruction_handle.c:52`): with
  `MayPreempt = TRUE` TLC finds `IsQueue` violated also without an overrun;
* a key or an accepted instruction repeated within three seconds arms the countdown
  anew each time (`flash_handle.c:186`), and nothing is saved as long as that goes
  on: without its last disjunct TLC finds `Settles` violated;
* a failed write leaves the flash erased until the next save, and a failed read at
  a boot is taken for a first power-on, whose defaults the next periodic save
  writes over the settings (`flash_driver.c:226`, `flash_handle.c:76`);
* the long key of relay 6, which is to save and leave the page, runs on into the next
  key and may leave it open (`user_ad_key.c:371`; comment at `:373`);
* the first relay of a sequence is one second early
  (`sequencer_device_on_off.c:93`, `:125`); the spacings allow for it;
* the long key of relay 7 leaves its page without a post (`user_ad_key.c:396`);
* on the page of the system time the remote control's key for relay 5 opens relay
  6's page (`ir_key_app.c:250`, whose comment says relay 5), and the time is not
  stored on that way;
* the time-out of the page of the system time is not set back when the page
  opens (`user_lcd_handle.c:43`), so after being left for a relay page it may
  close early;
* a busy device may refuse an INIT without an answer (`instruction_handle.c:429`).

## 6. Not modelled

* *The vendor's SDK.* More than nine tenths of the lines of the repository:
  Bluetooth, audio, third-party profiles, operating-system headers. None of it is
  this program's logic; most of its core is binary. Timers, tasks, queues, serial
  ports, flash and clock are modelled from how the application uses them.
* *Display data.* Digits, blinking and the bytes of the LCD's memory are layout.
  Read-modify-writes of one byte from three contexts can lose a segment until it
  is drawn again (`lcd1621.c:348`); nothing else depends on it.
* *`hlw8032/`* but for the digits it splits: its decoder is reached only from code
  that is commented out. *`user_uart_driver.c`*: never initialised.
* *Key scanning, infrared decoding, real-time clock*: vendor code; their events and
  times are inputs.
* *File handles of the vendor's flash layer*: the error paths do not close them
  (`flash_driver.c:226`); how many there are cannot be read from the source.

## 7. State

Modelled is every component of the application that keeps state; every safety
and action property the passing runs check is proved, and so are the safety part
of the refinement of `PowerPhase` and that of `ByteQueue` as far as it goes. An
abstract specification of SaveData is left out on purpose: a save copies in two
steps and writes in two, a power cut may fall between any two of them, and what
the flash fails to take is made up for only later; the one promise that survives
all this is `SaveIsPending` with `Settles`, and an abstract module would repeat
the data path and promise no more. No property says that the settings survive a
cut in the middle of a write: they do not. What would extend the project is a
model of the vendor's file layer, once its source is at hand.
