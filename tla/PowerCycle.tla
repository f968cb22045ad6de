------------------------------ MODULE PowerCycle ------------------------------
(***************************************************************************)
(* The sequencer over power cuts: Sequencer composed with the save path of *)
(* flash_handle.c, whose own races are the subject of SaveData.  Here the  *)
(* countdown is an armed save that user_task carries out when it is not in *)
(* a handler.  The copy of the sequencers structure is made while the      *)
(* timer interrupt may switch relays, and a boot restores every field of   *)
(* it, is_in_delay included.                                               *)
(***************************************************************************)
EXTENDS Sequencer

VARIABLES
  armed,      \* the save countdown runs, or has run out
  snap,       \* the copy being saved
  area,       \* the sequencers record in flash
  saver,      \* how far user_task's save is
  unposted    \* history: a schedule switched a relay and nothing posted since

saves == <<armed, snap, area, saver, unposted>>
pvars == <<vars, saves>>

Blank == [blank |-> TRUE]

\* The fields of sequencers that a copy in two pieces may tear apart.
Head == [on_ff |-> on_ff, last |-> last, cur |-> cur]
Tail == [open_time |-> open_time, close_time |-> close_time,
         in_delay |-> in_delay]
Record == [head |-> Head, tail |-> Tail]

\* sequencers_data_init.
Defaults ==
  [head |-> [on_ff |-> FALSE, last |-> [i \in Relay |-> TRUE],
             cur |-> [i \in Relay |-> FALSE]],
   tail |-> [open_time |-> [i \in Relay |-> 1],
             close_time |-> [i \in Relay |-> 1], in_delay |-> FALSE]]

Restored == IF area = Blank THEN Defaults ELSE area

\* save_user_data_init: the settings of a boot.
Load(r) ==
  /\ on_ff' = r.head.on_ff /\ last' = r.head.last /\ cur' = r.head.cur
  /\ open_time' = r.tail.open_time /\ close_time' = r.tail.close_time
  /\ in_delay' = r.tail.in_delay

PInit ==
  /\ Init
  /\ Record = Defaults
  /\ armed = FALSE /\ snap = Blank /\ area = Blank /\ saver = "idle"
  /\ unposted = FALSE

\* A step of the sequencer.  user_task runs handlers only between its saves,
\* and the copy is short: one step at most interrupts it.
Device ==
  /\ Operate
  /\ saver # "idle" => pc'[User] = pc[User] /\ delays' = delays
  /\ unposted' = (~save_req' /\ (unposted \/ (pc[User] = "schedule" /\ relays' # relays)))
  /\ saver # "interrupted"
  /\ saver' = IF saver = "copying" THEN "interrupted" ELSE saver
  /\ UNCHANGED <<armed, snap, area>>

\* msg_task arms the countdown, or arms it anew.
Arm ==
  /\ MsgTask
  /\ armed' = TRUE
  /\ UNCHANGED <<snap, area, saver, unposted>>

\* user_sys_time_save_task
SaveTime ==
  /\ pc[User] = "idle" /\ saver = "idle"
  /\ save_req' = TRUE
  /\ unposted' = FALSE
  /\ UNCHANGED <<on_ff, in_delay, relays, delays, lights, timers, tasks,
                 boot_pending, calls, armed, snap, area, saver>>

\* save_user_data_area3: its copy in two pieces, the erasure, the write.
CopyHead ==
  /\ armed /\ saver = "idle" /\ pc[User] = "idle"
  /\ armed' = FALSE
  /\ snap' = [head |-> Head, tail |-> Tail]
  /\ saver' = "copying"
  /\ UNCHANGED <<vars, area, unposted>>

CopyTail ==
  /\ saver \in {"copying", "interrupted"}
  /\ snap' = [snap EXCEPT !.tail = Tail]
  /\ saver' = "erasing"
  /\ UNCHANGED <<vars, armed, area, unposted>>

Erase ==
  /\ saver = "erasing"
  /\ area' = Blank
  /\ saver' = "writing"
  /\ UNCHANGED <<vars, armed, snap, unposted>>

\* Mutant: the end of a save also forgets what was posted meanwhile.
WriteDisarms ==
  /\ saver = "writing"
  /\ area' = snap
  /\ snap' = Blank
  /\ saver' = "idle"
  /\ armed' = FALSE
  /\ UNCHANGED <<vars, unposted>>

Write ==
  /\ saver = "writing"
  /\ area' = snap
  /\ snap' = Blank
  /\ saver' = "idle"
  /\ UNCHANGED <<vars, armed, unposted>>

\* The power is cut and comes back: app_init with what the flash holds.
PowerCycle ==
  /\ Load(Restored)
  /\ pin' = [i \in Relay |-> FALSE]
  /\ light' = FALSE /\ flash' = FALSE
  /\ timer' = [t \in TimerIds |-> "none"]
  /\ on_id' = 0 /\ off_id' = 0 /\ led_id' = 0
  /\ on_task' = NotCounting /\ off_task' = NotCounting /\ waited' = 0
  /\ boot_pending' = TRUE
  /\ pc' = [c \in Threads |-> "idle"]
  /\ remote' = FALSE /\ save_req' = FALSE
  /\ armed' = FALSE /\ snap' = Blank /\ saver' = "idle" /\ unposted' = FALSE
  /\ UNCHANGED area

PNext == Device \/ Arm \/ SaveTime \/ CopyHead \/ CopyTail \/ Erase \/ Write
         \/ PowerCycle

PSpec == PInit /\ [][PNext]_pvars

-----------------------------------------------------------------------------
(* Properties *)

\* A sequence that will post when it ends.
Running == Kind("on") \cup Kind("off") # {}

\* Whatever the interrupt does while the settings are copied, a record in flash
\* that differs from the one in use is about to be replaced: by a save that is
\* posted, armed or under way, or by the one the running sequence or handler
\* will post.  Only what a schedule switches waits for the periodic save.
ChangeReachesFlash ==
  \/ Restored = Record
  \/ save_req \/ armed
  \/ snap = Record
  \/ saver \in {"copying", "interrupted"} /\ snap.head = Head
  \/ Running \/ pc[User] \in {"reset_off", "off_checked"}
  \/ unposted

\* Whenever the power was cut, and whatever piece of an older record the boot
\* restored: between sequences the pins feed what the record will close at the
\* next power-on, or nothing, and the light agrees with on_ff.
RestPins ==
  (~in_delay /\ ~boot_pending /\ \A c \in Threads : ~Critical(c)) =>
    /\ pin = IF on_ff THEN last ELSE [i \in Relay |-> FALSE]
    /\ light = on_ff

\* The flag says that a sequence runs.
FlagMeansRunning == in_delay => Running
=============================================================================
