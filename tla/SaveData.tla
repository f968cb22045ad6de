------------------------------- MODULE SaveData -------------------------------
(***************************************************************************)
(* Keeping the settings over a power cut: flash_handle.c, the save and     *)
(* erase part of flash_driver.c, and the two loops of user_main_task.c.    *)
(*                                                                         *)
(* Whoever changes a setting posts MSG_USER_SAVE_INFO to msg_task, which   *)
(* arms a countdown of DELAY_SAVE_FLASH_TIMES; a further post arms it      *)
(* anew.  When it has run out, user_task copies the settings, erases the   *)
(* flash area and writes the copy.  user_task and msg_task share three     *)
(* variables and no lock, so every access to them is a step of its own.    *)
(* The settings are cut into parts that are copied and written one after   *)
(* the other; a flash whose first part (it holds the header byte) is       *)
(* erased makes the next boot take the defaults.                           *)
(* Some changes are posted by nobody, and the flash may refuse to be       *)
(* opened, take less than it was given, or not be readable at a boot; the  *)
(* code drops what the driver returns.                                     *)
(***************************************************************************)
EXTENDS Integers

CONSTANTS
  Values,      \* what a part of the settings may hold
  Default,     \* what the defaults hold in it
  Erased,      \* what erased flash holds
  CountFrom,   \* DELAY_SAVE_FLASH_TIMES / 10
  SavePeriod,  \* loops of user_task between two saves of the time
  QueueMax,    \* messages msg_task's queue takes
  FlashFails   \* TRUE: opening, writing and reading the flash area may fail

ASSUME ValuesAssumption == Default \in Values /\ Erased \notin Values
ASSUME TimesAssumption  == CountFrom \in Nat \ {0} /\ SavePeriod \in Nat \ {0}
ASSUME QueueAssumption  == QueueMax \in Nat \ {0}
ASSUME FailsAssumption  == FlashFails \in BOOLEAN

First == "first"  \* the header and the sequencers
Rest  == "rest"   \* the schedules and the system time as it was set
Parts == {First, Rest}

VARIABLES
  ram,         \* the settings in use
  flash,       \* what the flash area holds
  snap,        \* save_data of save_user_data_area3
  posts,       \* MSG_USER_SAVE_INFO messages in msg_task's queue
  time,        \* time_count_down
  counting,    \* flag_is_enable_count_down
  to_save,     \* flag_is_enable_to_save
  cnt,         \* the static cnt of user_sys_time_save_task
  reg,         \* time_count_down as loaded for its decrement
  user, msg, core, \* how far user_task, msg_task and app_core are
  owed         \* history: the parts changed, or lost by a flash failure, with
               \* neither a post nor a copy since

flags    == <<time, counting, to_save>>
stored   == <<ram, flash, snap>>
settings == <<stored, owed>>
vars     == <<settings, posts, flags, cnt, reg, user, msg, core>>

Up == user # "off"

Blank == [p \in Parts |-> Erased]

Defaults == [p \in Parts |-> Default]

\* What a boot takes that can read the flash: a first part without its header
\* means a first power-on.
Restored == IF flash[First] = Erased THEN Defaults ELSE flash

\* os_taskq_post; a full queue refuses the message and nobody looks.
Post == /\ posts' = IF posts < QueueMax THEN posts + 1 ELSE posts
        /\ owed' = {}

Init ==
  /\ flash = Blank
  /\ ram = Defaults
  /\ snap = Blank
  /\ posts = 0 /\ cnt = 0 /\ reg = 0
  /\ time = 0 /\ counting = FALSE /\ to_save = FALSE
  /\ user = "instruction" /\ msg = "pend" /\ core = "idle"
  /\ owed = {}

-----------------------------------------------------------------------------
(* Changes of settings *)

ChangeOf(p) == \E v \in Values \ {ram[p]} : ram' = [ram EXCEPT ![p] = v]

Change == \E p \in Parts : ChangeOf(p)

\* A key handler of app_core changes a setting or none, then posts.
KeyChange ==
  /\ Up /\ core = "idle"
  /\ Change \/ UNCHANGED ram
  /\ core' = "post"
  /\ UNCHANGED <<flash, snap, owed, posts, flags, cnt, reg, user, msg>>

KeyPost ==
  /\ core = "post"
  /\ Post
  /\ core' = "idle"
  /\ UNCHANGED <<stored, flags, cnt, reg, user, msg>>

\* The end of a sequence in the timer interrupt: both at once.
IsrChange ==
  /\ Up
  /\ Change
  /\ Post
  /\ UNCHANGED <<flash, snap, flags, cnt, reg, user, msg, core>>

\* A change of part p that no post follows.
SilentChange(p) ==
  /\ ChangeOf(p)
  /\ owed' = owed \cup {p}
  /\ UNCHANGED <<flash, snap, posts, flags, cnt, reg, user, msg, core>>

\* A relay switched inside a sequence, in the timer interrupt.
SequenceTick == Up /\ SilentChange(First)

\* A relay switched by its schedule, in user_task ahead of the instructions.
ScheduleSwitch == user = "instruction" /\ SilentChange(First)

\* The long key of relay 7 stores its plan and falls into the default, which
\* returns ahead of the post.
LongKeySeven == Up /\ core = "idle" /\ SilentChange(Rest)

\* instruction_handle.  An accepted instruction posts, one that finds the device
\* as it asks for too; one that is refused, or none, does not.
Instruction ==
  /\ user = "instruction"
  /\ \/ (Change \/ UNCHANGED ram) /\ user' = "instruction_post"
     \/ UNCHANGED ram /\ user' = "period"
  /\ UNCHANGED <<flash, snap, owed, posts, flags, cnt, reg, msg, core>>

InstructionPost ==
  /\ user = "instruction_post"
  /\ Post
  /\ user' = "period"
  /\ UNCHANGED <<stored, flags, cnt, reg, msg, core>>

-----------------------------------------------------------------------------
(* msg_task *)

\* user_msg_handle_task gets the message.
Pend ==
  /\ msg = "pend" /\ posts > 0
  /\ posts' = posts - 1
  /\ msg' = "clear_save"
  /\ UNCHANGED <<settings, flags, cnt, reg, user, core>>

\* save_user_data_enable, its four stores.
Enable ==
  /\ \/ /\ msg = "clear_save" /\ to_save' = FALSE  /\ msg' = "clear_count"
        /\ UNCHANGED <<time, counting>>
     \/ /\ msg = "clear_count" /\ counting' = FALSE /\ msg' = "set_time"
        /\ UNCHANGED <<time, to_save>>
     \/ /\ msg = "set_time" /\ time' = CountFrom /\ msg' = "set_count"
        /\ UNCHANGED <<counting, to_save>>
     \/ /\ msg = "set_count" /\ counting' = TRUE /\ msg' = "pend"
        /\ UNCHANGED <<time, to_save>>
  /\ UNCHANGED <<settings, posts, cnt, reg, user, core>>

-----------------------------------------------------------------------------
(* user_task *)

\* Mutant: no periodic post.
SaveTimeSilent ==
  /\ user = "period"
  /\ cnt' = (cnt + 1) % SavePeriod
  /\ user' = "count"
  /\ UNCHANGED <<settings, posts, flags, reg, msg, core>>

\* user_sys_time_save_task: every SavePeriod loops a post of its own.
SaveTime ==
  /\ user = "period"
  /\ IF cnt + 1 >= SavePeriod THEN cnt' = 0 /\ Post
                              ELSE cnt' = cnt + 1 /\ UNCHANGED <<posts, owed>>
  /\ user' = "count"
  /\ UNCHANGED <<stored, flags, reg, msg, core>>

\* save_user_data_time_count_down, its loads and stores one by one.
CountDown ==
  /\ \/ /\ user = "count"
        /\ user' = IF counting THEN "decrement" ELSE "handle"
        /\ UNCHANGED <<flags, reg>>
     \/ /\ user = "decrement"
        /\ IF time > 0 THEN reg' = time /\ user' = "store"
                       ELSE UNCHANGED reg /\ user' = "expired"
        /\ UNCHANGED flags
     \/ /\ user = "store"
        /\ time' = reg - 1 /\ reg' = 0
        /\ user' = "expired"
        /\ UNCHANGED <<counting, to_save>>
     \/ /\ user = "expired"
        /\ user' = IF time = 0 THEN "stop" ELSE "handle"
        /\ UNCHANGED <<flags, reg>>
     \/ /\ user = "stop"
        /\ counting' = FALSE /\ user' = "release"
        /\ UNCHANGED <<time, to_save, reg>>
     \/ /\ user = "release"
        /\ to_save' = TRUE /\ user' = "handle"
        /\ UNCHANGED <<time, counting, reg>>
  /\ UNCHANGED <<settings, posts, cnt, msg, core>>

\* save_user_data_handle: test the flag, then clear it.
Handle ==
  /\ \/ /\ user = "handle"
        /\ user' = IF to_save THEN "clear" ELSE "sleep"
        /\ UNCHANGED to_save
     \/ /\ user = "clear"
        /\ to_save' = FALSE /\ user' = "copy_first"
  /\ UNCHANGED <<settings, posts, time, counting, cnt, reg, msg, core>>

\* save_user_data_area3 copies the parts.
Copy ==
  /\ \/ /\ user = "copy_first"
        /\ snap' = [Blank EXCEPT ![First] = ram[First]]
        /\ owed' = owed \ {First}
        /\ user' = "copy_rest"
     \/ /\ user = "copy_rest"
        /\ snap' = [snap EXCEPT ![Rest] = ram[Rest]]
        /\ owed' = owed \ {Rest}
        /\ user' = "open"
  /\ UNCHANGED <<ram, flash, posts, flags, cnt, reg, msg, core>>

\* flash_area_write_4K: open and erase, then write the parts in order.
Erase ==
  /\ user = "open"
  /\ flash' = Blank
  /\ user' = "write_first"
  /\ UNCHANGED <<ram, snap, owed, posts, flags, cnt, reg, msg, core>>

\* fopen gives no file: the flash keeps what it holds, the copy is dropped.
OpenFails ==
  /\ FlashFails
  /\ user = "open"
  /\ owed' = Parts
  /\ user' = "saved"
  /\ UNCHANGED <<stored, posts, flags, cnt, reg, msg, core>>

Write ==
  /\ \/ /\ user = "write_first"
        /\ flash' = [flash EXCEPT ![First] = snap[First]]
        /\ user' = "write_rest"
     \/ /\ user = "write_rest"
        /\ flash' = [flash EXCEPT ![Rest] = snap[Rest]]
        /\ user' = "saved"
  /\ UNCHANGED <<ram, snap, owed, posts, flags, cnt, reg, msg, core>>

\* fwrite takes less than it is given: the rest of the area stays erased.
WriteFails ==
  /\ FlashFails
  /\ \/ user = "write_first" /\ owed' = Parts
     \/ user = "write_rest"  /\ owed' = owed \cup {Rest}
  /\ user' = "saved"
  /\ UNCHANGED <<stored, posts, flags, cnt, reg, msg, core>>

\* Mutant: the end of a save also stops the countdown.
SavedStopsCount ==
  /\ user = "saved"
  /\ to_save' = FALSE /\ counting' = FALSE
  /\ snap' = Blank
  /\ user' = "sleep"
  /\ UNCHANGED <<ram, flash, owed, posts, time, cnt, reg, msg, core>>

\* The end of save_user_data_area3.
Saved ==
  /\ user = "saved"
  /\ to_save' = FALSE
  /\ snap' = Blank
  /\ user' = "sleep"
  /\ UNCHANGED <<ram, flash, owed, posts, time, counting, cnt, reg, msg, core>>

\* os_time_dly(1) at the end of the loop: msg_task has the same priority and
\* gets the ten milliseconds to handle what is queued.
Sleep ==
  /\ user = "sleep"
  /\ posts = 0 /\ msg = "pend"
  /\ user' = "instruction"
  /\ UNCHANGED <<settings, posts, flags, cnt, reg, msg, core>>

-----------------------------------------------------------------------------
(* Power *)

\* The power is cut: only the flash keeps what it holds.
PowerCut ==
  /\ Up
  /\ user' = "off" /\ msg' = "pend" /\ core' = "idle"
  /\ ram' = Blank /\ snap' = Blank
  /\ posts' = 0 /\ cnt' = 0 /\ reg' = 0
  /\ time' = 0 /\ counting' = FALSE /\ to_save' = FALSE
  /\ owed' = {}
  /\ UNCHANGED flash

\* save_user_data_init, before the tasks are created.
Boot ==
  /\ user = "off"
  /\ ram' = Restored
  /\ user' = "instruction"
  /\ UNCHANGED <<flash, snap, owed, posts, flags, cnt, reg, msg, core>>

\* A boot that cannot read the flash takes it for a first power-on.
ReadFails ==
  /\ FlashFails
  /\ user = "off"
  /\ ram' = Defaults
  /\ owed' = Parts
  /\ user' = "instruction"
  /\ UNCHANGED <<flash, snap, posts, flags, cnt, reg, msg, core>>

UserTask == \/ Instruction \/ InstructionPost \/ SaveTime \/ CountDown
            \/ Handle \/ Copy \/ Erase \/ OpenFails \/ Write \/ WriteFails
            \/ Saved \/ Sleep
MsgTask  == Pend \/ Enable
Silent   == SequenceTick \/ ScheduleSwitch \/ LongKeySeven

Next == KeyChange \/ KeyPost \/ IsrChange \/ Silent \/ UserTask \/ MsgTask
        \/ PowerCut \/ Boot \/ ReadFails

Spec == Init /\ [][Next]_vars

(* Every task is scheduled again and again; keys, instructions and power     *)
(* cuts come or do not come.                                                 *)
Fairness == WF_vars(UserTask) /\ WF_vars(MsgTask) /\ WF_vars(KeyPost)

FairSpec == Spec /\ Fairness

-----------------------------------------------------------------------------
(* Properties *)

Contents == [Parts -> Values \cup {Erased}]

\* The type invariant.
TypeOK ==
  /\ ram \in Contents /\ flash \in Contents /\ snap \in Contents
  /\ posts \in 0 .. QueueMax
  /\ time \in 0 .. CountFrom /\ reg \in 0 .. CountFrom
  /\ counting \in BOOLEAN /\ to_save \in BOOLEAN
  /\ cnt \in 0 .. SavePeriod - 1
  /\ user \in {"off", "instruction", "instruction_post", "period", "count",
               "decrement", "store", "expired", "stop", "release", "handle",
               "clear", "copy_first", "copy_rest", "open", "write_first",
               "write_rest", "saved", "sleep"}
  /\ msg \in {"pend", "clear_save", "clear_count", "set_time", "set_count"}
  /\ core \in {"idle", "post"} /\ owed \subseteq Parts

\* A save is on its way whose copy of part p is still to be made: a post is
\* due or queued, the countdown is being armed, runs or has just run out, or
\* user_task is about to copy.
Asked(p) ==
  \/ core = "post" \/ user = "instruction_post"
  \/ posts > 0
  \/ msg # "pend"
  \/ counting \/ to_save
  \/ user \in {"release", "clear", "copy_first"}
  \/ user = "copy_rest" /\ p = Rest

\* A save is on its way whose copy of part p is what is in use now.
Carried(p) ==
  /\ snap[p] = ram[p]
  /\ \/ user \in {"copy_rest", "open", "write_first"}
     \/ user = "write_rest" /\ p = Rest

\* No change that is posted is forgotten, however the stores of msg_task and
\* user_task fall between each other: if the power were cut now, the next boot
\* that can read the flash would find each part as it is in use, or a save that
\* brings it is on its way.  Only a change no post follows, and what the flash
\* has failed to take or to give, has to wait for the next post or save.
SaveIsPending ==
  Up => \A p \in Parts \ owed : Restored[p] = ram[p] \/ Asked(p) \/ Carried(p)

\* Once the settings stay as they are, with the power on and the flash working,
\* they get saved, also those no post was made for or a failure lost: the
\* periodic save makes up for both.  Only keys and instructions that keep
\* posting can put it off for ever, as each post arms the countdown anew.
Settles ==
  (/\ <>[]Up
   /\ <>[][UNCHANGED ram /\ ~OpenFails /\ ~WriteFails]_vars)
    => []<>(Restored = ram) \/ []<><<KeyPost \/ InstructionPost>>_vars
=============================================================================
