---------------------------- MODULE SaveDataProofs ----------------------------
(***************************************************************************)
(* Theorems about SaveData, for any settings, any lengths of countdown and *)
(* queue, with power cuts at any step, a flash that may fail to open, to   *)
(* take what is written or to be read, and changes no post follows.        *)
(***************************************************************************)
EXTENDS SaveData, TLAPS

-----------------------------------------------------------------------------
(* Types *)

\* Between its load and its store, the decrement holds a count that is not yet
\* zero, whatever msg_task stores meanwhile.
RegInv == user = "store" => reg > 0

\* Every step keeps what the decrement has loaded: only user_task touches it.
LEMMA NextReg == TypeOK /\ RegInv /\ [Next]_vars => RegInv'
<1> SUFFICES ASSUME TypeOK, RegInv, [Next]_vars, user' = "store" PROVE reg' > 0
  BY DEF RegInv
<1>1. CASE UNCHANGED <<user, reg>>
  BY <1>1 DEF RegInv
<1>2. CASE CountDown
  BY <1>2 DEF CountDown, TypeOK
<1>3. CASE ~UNCHANGED <<user, reg>> /\ ~CountDown
  BY <1>3
  DEF Next, vars, KeyChange, KeyPost, IsrChange, Silent, SequenceTick,
      ScheduleSwitch, LongKeySeven, SilentChange, MsgTask, Pend, Enable,
      UserTask, Instruction, InstructionPost, SaveTime, Handle, Copy, Erase,
      OpenFails, Write, WriteFails, Saved, Sleep, PowerCut, Boot, ReadFails
<1> QED
  BY <1>1, <1>2, <1>3

\* Every step keeps the types.
LEMMA NextType == TypeOK /\ RegInv /\ [Next]_vars => TypeOK'
<1> SUFFICES ASSUME TypeOK, RegInv, [Next]_vars PROVE TypeOK'
  OBVIOUS
<1> USE ValuesAssumption, TimesAssumption, QueueAssumption
<1>1. posts \in 0 .. QueueMax /\ Post =>
        posts' \in 0 .. QueueMax /\ owed' \subseteq Parts
  BY DEF Post
<1>2. Change \/ (\E p \in Parts : ChangeOf(p)) => ram' \in Contents
  BY DEF TypeOK, Contents, Change, ChangeOf
<1>3. CASE UNCHANGED vars
  BY <1>3 DEF TypeOK, vars, settings, stored, flags
<1>4. CASE KeyChange \/ KeyPost \/ IsrChange
  <2>1. ram' \in Contents /\ posts' \in 0 .. QueueMax /\ owed' \subseteq Parts
    BY <1>1, <1>2, <1>4 DEF TypeOK, KeyChange, KeyPost, IsrChange, stored
  <2>2. UNCHANGED <<flash, snap, flags, cnt, reg, user, msg>>
    BY <1>4 DEF KeyChange, KeyPost, IsrChange, stored
  <2>3. core' \in {"idle", "post"}
    BY <1>4 DEF TypeOK, KeyChange, KeyPost, IsrChange
  <2> QED
    BY <2>1, <2>2, <2>3 DEF TypeOK, flags
<1>9. CASE Silent
  <2>1. PICK p \in Parts : SilentChange(p)
    BY <1>9 DEF Silent, SequenceTick, ScheduleSwitch, LongKeySeven, First, Rest,
                Parts
  <2>2. ram' \in Contents /\ owed' \subseteq Parts
    BY <1>2, <2>1 DEF TypeOK, SilentChange
  <2> QED
    BY <2>1, <2>2 DEF TypeOK, SilentChange, flags
<1>5. CASE MsgTask
  <2>1. CASE Pend
    <3>1. posts' \in 0 .. QueueMax
      BY <2>1 DEF TypeOK, Pend
    <3> QED
      BY <2>1, <3>1 DEF TypeOK, Pend, settings, stored, flags
  <2>2. CASE Enable
    <3>1. time' \in 0 .. CountFrom
      BY <2>2 DEF TypeOK, Enable
    <3>2. counting' \in BOOLEAN /\ to_save' \in BOOLEAN
      BY <2>2 DEF TypeOK, Enable
    <3>3. msg' \in {"pend", "clear_count", "set_time", "set_count"}
      BY <2>2 DEF Enable
    <3> QED
      BY <2>2, <3>1, <3>2, <3>3 DEF TypeOK, Enable, settings, stored
  <2> QED
    BY <1>5, <2>1, <2>2 DEF MsgTask
<1>6. CASE UserTask
  <2>1. CASE Instruction \/ InstructionPost \/ SaveTime
    <3>1. ram' \in Contents /\ posts' \in 0 .. QueueMax /\ owed' \subseteq Parts
      BY <1>1, <1>2, <2>1
      DEF TypeOK, Instruction, InstructionPost, SaveTime, stored
    <3>2. UNCHANGED <<flash, snap, flags, reg, msg, core>>
      BY <2>1 DEF Instruction, InstructionPost, SaveTime, stored
    <3>3. cnt' \in 0 .. SavePeriod - 1
      BY <2>1 DEF TypeOK, Instruction, InstructionPost, SaveTime
    <3>4. user' \in {"instruction_post", "period", "count"}
      BY <2>1 DEF Instruction, InstructionPost, SaveTime
    <3> QED
      BY <3>1, <3>2, <3>3, <3>4 DEF TypeOK, flags
  <2>2. CASE CountDown
    <3>1. time' \in 0 .. CountFrom /\ reg' \in 0 .. CountFrom
      BY <2>2 DEF TypeOK, RegInv, CountDown, flags
    <3>2. counting' \in BOOLEAN /\ to_save' \in BOOLEAN
      BY <2>2 DEF TypeOK, CountDown, flags
    <3>3. user' \in {"decrement", "handle", "store", "expired", "stop", "release"}
      BY <2>2 DEF CountDown
    <3> QED
      BY <2>2, <3>1, <3>2, <3>3 DEF TypeOK, CountDown, settings, stored
  <2>3. CASE Handle \/ Sleep
    BY <2>3 DEF TypeOK, Handle, Sleep, settings, stored, flags
  <2>4. CASE Copy
    BY <2>4 DEF TypeOK, Contents, Copy, Blank, flags, First, Rest, Parts
  <2>5. CASE Erase \/ OpenFails \/ WriteFails \/ Saved
    BY <2>5
    DEF TypeOK, Contents, Erase, OpenFails, WriteFails, Saved, Blank, stored,
        flags, Rest, Parts
  <2>6. CASE Write
    BY <2>6 DEF TypeOK, Contents, Write, flags, First, Rest, Parts
  <2> QED
    BY <1>6, <2>1, <2>2, <2>3, <2>4, <2>5, <2>6 DEF UserTask
<1>7. CASE PowerCut
  <2>1. Blank \in Contents
    BY DEF Contents, Blank
  <2>2. 0 \in 0 .. QueueMax /\ 0 \in 0 .. CountFrom /\ 0 \in 0 .. SavePeriod - 1
    OBVIOUS
  <2> QED
    BY <1>7, <2>1, <2>2 DEF TypeOK, PowerCut
<1>8. CASE Boot \/ ReadFails
  <2>1. Defaults \in Contents
    BY DEF Contents, Defaults
  <2>2. ram' \in Contents
    BY <1>8, <2>1 DEF TypeOK, Boot, ReadFails, Restored
  <2> QED
    BY <1>8, <2>2 DEF TypeOK, Boot, ReadFails, flags
<1> QED
  BY <1>3, <1>4, <1>5, <1>6, <1>7, <1>8, <1>9 DEF Next

\* The program starts in well-typed states.
LEMMA InitType == Init => TypeOK
<1>1. Defaults \in Contents /\ Blank \in Contents
  BY ValuesAssumption DEF Contents, Blank, Defaults
<1>2. 0 \in 0 .. QueueMax /\ 0 \in 0 .. CountFrom /\ 0 \in 0 .. SavePeriod - 1
  BY TimesAssumption, QueueAssumption
<1> QED
  BY <1>1, <1>2 DEF Init, TypeOK

\* The type invariant holds of every state, power cuts included.
THEOREM TypeCorrect == Spec => []TypeOK
<1>1. Init => TypeOK /\ RegInv
  BY InitType DEF Init, RegInv
<1>2. TypeOK /\ RegInv /\ [Next]_vars => TypeOK' /\ RegInv'
  BY NextType, NextReg
<1> QED
  BY <1>1, <1>2, PTL DEF Spec

-----------------------------------------------------------------------------
(* No change is forgotten.  SaveIsPending is not inductive: that flash and   *)
(* settings agree does not help once user_task is about to erase the flash   *)
(* for a copy made before.  The strengthening follows the copy through a     *)
(* save: at each point of it, what the flash and the copy hold, and that a   *)
(* part whose copy is out of date has a later save on its way, unless it is  *)
(* owed one.                                                                 *)

\* A later save is on its way, wherever user_task is in the present one.
Posted == core = "post" \/ posts > 0 \/ msg # "pend" \/ counting

Saving == {"copy_rest", "open", "write_first", "write_rest"}

\* Part p was copied as it is now, or will be copied again, or is owed a post.
Held(p) == snap[p] = ram[p] \/ Posted \/ p \in owed

CopyInv ==
  /\ user \in Saving => Held(First) /\ snap[First] # Erased
  /\ user \in Saving \ {"copy_rest"} => Held(Rest)

FlashInv ==
  /\ user = "write_first" => flash = Blank
  /\ user = "write_rest"  => flash = [Blank EXCEPT ![First] = snap[First]]

\* to_save is not raised again before the save is over, which clears it.
ToSaveInv == user \in Saving \cup {"copy_first", "saved"} => ~to_save

\* Between saves: flash and settings agree, or a copy is still to be made.
KnownInv ==
  Up /\ user \notin Saving =>
    \A p \in Parts \ owed : Restored[p] = ram[p] \/ Asked(p)

\* The first part of the settings in use is never erased flash.
HeaderInv == Up => ram[First] # Erased

\* Without power nothing runs.
Quiet == user = "off" => posts = 0 /\ msg = "pend" /\ core = "idle"

PendingInv == /\ TypeOK /\ CopyInv /\ FlashInv /\ ToSaveInv /\ KnownInv
              /\ HeaderInv /\ Quiet

\* Parts are two.
LEMMA PartsType == First \in Parts /\ Rest \in Parts /\ First # Rest
                   /\ \A p \in Parts : p = First \/ p = Rest
  BY DEF First, Rest, Parts

\* The strengthened invariant implies the property.
LEMMA PendingInvSuffices == PendingInv => SaveIsPending
<1> SUFFICES ASSUME PendingInv, Up, NEW p \in Parts \ owed
             PROVE  Restored[p] = ram[p] \/ Asked(p) \/ Carried(p)
  BY DEF SaveIsPending
<1>1. CASE user \notin Saving
  BY <1>1 DEF PendingInv, KnownInv
<1>2. CASE user = "copy_rest"
  BY <1>2, PartsType
  DEF PendingInv, CopyInv, Held, Posted, Saving, Asked, Carried
<1>3. CASE user \in {"open", "write_first"}
  BY <1>3, PartsType
  DEF PendingInv, CopyInv, Held, Posted, Saving, Asked, Carried
<1>4. CASE user = "write_rest"
  <2>1. Restored[First] = snap[First]
    BY <1>4, PartsType
    DEF PendingInv, CopyInv, FlashInv, Saving, Restored, Blank
  <2> QED
    BY <1>4, <2>1, PartsType
    DEF PendingInv, CopyInv, Held, Posted, Saving, Asked, Carried
<1> QED
  BY <1>1, <1>2, <1>3, <1>4 DEF Saving

\* The program starts with the settings a boot would find.
LEMMA PendingInvInit == Init => PendingInv
<1> SUFFICES ASSUME Init PROVE PendingInv
  OBVIOUS
<1>1. user = "instruction" /\ TypeOK
  BY InitType DEF Init
<1>2. Restored = ram /\ ram[First] # Erased
  BY ValuesAssumption, PartsType DEF Init, Restored, Blank, Defaults
<1> QED
  BY <1>1, <1>2
  DEF PendingInv, CopyInv, FlashInv, ToSaveInv, KnownInv, HeaderInv, Quiet,
      Saving

-----------------------------------------------------------------------------
(* Steps *)

\* A post is seen, whether the queue takes it or is full.
LEMMA PostIsSeen == TypeOK /\ Post => posts' > 0
  BY QueueAssumption DEF TypeOK, Post

\* A change of settings leaves the header where it was.
LEMMA ChangeHeader ==
  ASSUME PendingInv, Up, Change \/ (\E p \in Parts : ChangeOf(p)) \/ UNCHANGED ram
  PROVE  ram'[First] # Erased
  BY PartsType, ValuesAssumption
  DEF PendingInv, HeaderInv, Change, ChangeOf, TypeOK, Contents

\* A change that a post follows, at once or as the task's next step.
LEMMA ChangeKeeps ==
  ASSUME PendingInv, Up, Change \/ UNCHANGED ram, UNCHANGED <<flash, snap, flags>>,
         TypeOK', Up',
         \/ Posted' /\ UNCHANGED user
         \/ user = "instruction" /\ user' = "instruction_post"
  PROVE  PendingInv'
<1>1. ram'[First] # Erased
  BY ChangeHeader
<1>2. CASE Posted' /\ UNCHANGED user
  <2>1. \A p \in Parts : Held(p)' /\ Asked(p)'
    BY <1>2 DEF Held, Posted, Asked
  <2> QED
    BY <1>1, <1>2, <2>1, PartsType
    DEF PendingInv, CopyInv, FlashInv, ToSaveInv, KnownInv, HeaderInv, Quiet,
        Up, flags
<1>3. CASE user' = "instruction_post"
  <2>1. \A p \in Parts : Asked(p)'
    BY <1>3 DEF Asked
  <2> QED
    BY <1>1, <1>3, <2>1
    DEF PendingInv, CopyInv, FlashInv, ToSaveInv, KnownInv, HeaderInv, Quiet,
        Saving
<1> QED
  BY <1>2, <1>3

\* A change that no post follows: its part is owed one, the others are as before.
LEMMA SilentKeeps ==
  ASSUME PendingInv, Up, TypeOK', NEW p \in Parts, SilentChange(p)
  PROVE  PendingInv'
<1>1. ram'[First] # Erased
  BY ChangeHeader DEF SilentChange
<1>2. p \in owed' /\ owed \subseteq owed'
  BY DEF SilentChange
<1>3. \A q \in Parts \ {p} : ram'[q] = ram[q]
  BY DEF SilentChange, ChangeOf, PendingInv, TypeOK, Contents
<1>4. /\ UNCHANGED <<flash, snap, posts, flags, cnt, reg, user, msg, core>>
      /\ UNCHANGED <<to_save, counting>>
  BY DEF SilentChange, flags
<1>5. Restored' = Restored /\ (Posted' = Posted)
  BY <1>4 DEF Restored, Posted
<1>6. \A q \in Parts : (Held(q) => Held(q)') /\ (Asked(q)' = Asked(q))
  BY <1>2, <1>3, <1>4, <1>5 DEF Held, Asked
<1>7. CopyInv'
  BY <1>4, <1>6, PartsType DEF PendingInv, CopyInv
<1>8. KnownInv'
  BY <1>2, <1>3, <1>4, <1>5, <1>6 DEF PendingInv, KnownInv, Up
<1> QED
  BY <1>1, <1>4, <1>7, <1>8
  DEF PendingInv, FlashInv, ToSaveInv, HeaderInv, Quiet

\* Steps that leave settings, copy and flash alone and user_task outside the
\* saving part of its loop, or where it is: what was asked for stays so.  Parts
\* that no longer are owed have been posted for.
LEMMA AskedKeeps ==
  ASSUME PendingInv, TypeOK', UNCHANGED stored, UNCHANGED owed \/ Posted', Quiet',
         Up => Up', Up' => Up,
         user' \in Saving => UNCHANGED user,
         user' \in Saving \cup {"copy_first", "saved"} => ~to_save',
         user \in Saving => user' = user /\ (Posted => Posted'),
         \A p \in Parts : user \notin Saving /\ Asked(p) => Asked(p)'
  PROVE  PendingInv'
<1>1. CopyInv' /\ FlashInv'
  BY DEF PendingInv, CopyInv, FlashInv, Held, Saving, stored
<1>2. KnownInv'
  BY DEF PendingInv, KnownInv, Restored, Posted, Asked, stored
<1>3. HeaderInv'
  BY DEF PendingInv, HeaderInv, stored
<1> QED
  BY <1>1, <1>2, <1>3 DEF PendingInv, ToSaveInv

\* Steps in front of a save: changes are posted, posts are taken, the countdown
\* is armed and runs out, and nothing that was asked for is lost on the way.
LEMMA TasksKeep ==
  ASSUME PendingInv, TypeOK',
         \/ UNCHANGED vars \/ KeyChange \/ KeyPost \/ IsrChange \/ Silent
         \/ MsgTask \/ Instruction \/ InstructionPost \/ SaveTime \/ CountDown
         \/ Handle \/ Sleep
  PROVE  PendingInv'
<1> TypeOK /\ Quiet /\ ToSaveInv
  BY DEF PendingInv
<1> USE DEF Up, flags
<1>1. CASE UNCHANGED vars
  BY <1>1, AskedKeeps
  DEF vars, settings, Quiet, ToSaveInv, Saving, Posted, Asked
<1>2. CASE KeyChange
  BY <1>2, ChangeKeeps DEF KeyChange, Posted
<1>3. CASE IsrChange
  BY <1>3, ChangeKeeps, PostIsSeen DEF IsrChange, Posted
<1>4. CASE KeyPost
  BY <1>4, AskedKeeps, PostIsSeen
  DEF KeyPost, Quiet, ToSaveInv, Saving, Posted, Asked
<1>5. CASE Pend
  <2>1. posts > 0 /\ user # "off" /\ msg' # "pend" /\ UNCHANGED user
    BY <1>5 DEF Pend, Quiet
  <2>2. Posted' /\ \A p \in Parts : Asked(p)'
    BY <2>1 DEF Posted, Asked
  <2> QED
    BY <1>5, <2>1, <2>2, AskedKeeps DEF Pend, Quiet, ToSaveInv, Saving, settings
<1>6. CASE Enable
  <2>1. user # "off" /\ UNCHANGED user
    BY <1>6 DEF Enable, Quiet
  <2>2. Posted' /\ \A p \in Parts : Asked(p)'
    BY <1>6 DEF Enable, Posted, Asked
  <2>3. to_save' => to_save
    BY <1>6 DEF Enable
  <2> QED
    BY <1>6, <2>1, <2>2, <2>3, AskedKeeps
    DEF Enable, Quiet, ToSaveInv, Saving, settings
<1>7. CASE Instruction
  <2>1. CASE (Change \/ UNCHANGED ram) /\ user' = "instruction_post"
    BY <1>7, <2>1, ChangeKeeps DEF Instruction
  <2>2. CASE UNCHANGED ram /\ user' = "period"
    BY <1>7, <2>2, AskedKeeps
    DEF Instruction, Quiet, Saving, Asked, stored
  <2> QED
    BY <1>7, <2>1, <2>2 DEF Instruction
<1>8. CASE InstructionPost
  BY <1>8, AskedKeeps, PostIsSeen
  DEF InstructionPost, Quiet, Saving, Posted, Asked
<1>9. CASE SaveTime
  <2>1. posts' > 0 \/ UNCHANGED <<posts, owed>>
    BY <1>9, PostIsSeen DEF SaveTime
  <2> QED
    BY <1>9, <2>1, AskedKeeps DEF SaveTime, Quiet, Saving, Posted, Asked
<1>10. CASE CountDown
  BY <1>10, AskedKeeps DEF CountDown, Quiet, Saving, Asked, settings
<1>11. CASE Handle
  BY <1>11, AskedKeeps DEF Handle, Quiet, Saving, Asked, settings
<1>12. CASE Sleep
  BY <1>12, AskedKeeps DEF Sleep, Quiet, Saving, Asked, settings
<1>13. CASE Silent
  BY <1>13, SilentKeeps, PartsType
  DEF Silent, SequenceTick, ScheduleSwitch, LongKeySeven
<1> QED
  BY <1>1, <1>2, <1>3, <1>4, <1>5, <1>6, <1>7, <1>8, <1>9, <1>10, <1>11, <1>12,
     <1>13
  DEF MsgTask

\* Steps of a save, and power cut and boot: what is written is held.
LEMMA SaveKeeps ==
  ASSUME PendingInv, TypeOK',
         \/ Copy \/ Erase \/ OpenFails \/ Write \/ WriteFails \/ Saved
         \/ PowerCut \/ Boot \/ ReadFails
  PROVE  PendingInv'
<1> TypeOK /\ Quiet /\ ToSaveInv
  BY DEF PendingInv
<1> USE PartsType DEF Up
<1>1. CASE Copy
  <2>1. /\ Held(First)' /\ snap'[First] # Erased
        /\ user' = "open" => Held(Rest)'
    BY <1>1
    DEF Copy, PendingInv, CopyInv, HeaderInv, Held, Posted, Saving, TypeOK,
        Contents, Blank, flags
  <2>2. user' \in {"copy_rest", "open"} /\ UNCHANGED <<ram, to_save>>
    BY <1>1 DEF Copy, flags
  <2>3. ~to_save /\ user # "off"
    BY <1>1 DEF Copy, ToSaveInv, Saving
  <2> QED
    BY <2>1, <2>2, <2>3
    DEF PendingInv, CopyInv, FlashInv, ToSaveInv, KnownInv, HeaderInv, Quiet,
        Saving
<1>2. CASE Erase
  BY <1>2
  DEF Erase, PendingInv, CopyInv, FlashInv, ToSaveInv, KnownInv, HeaderInv,
      Quiet, Saving, Held, Posted, flags
<1>3. CASE OpenFails
  BY <1>3
  DEF OpenFails, PendingInv, CopyInv, FlashInv, ToSaveInv, KnownInv, HeaderInv,
      Quiet, Saving, stored, flags
<1>4. CASE Write /\ user = "write_first"
  <2>1. flash' = [Blank EXCEPT ![First] = snap[First]] /\ user' = "write_rest"
    BY <1>4 DEF Write, PendingInv, FlashInv
  <2> QED
    BY <1>4, <2>1
    DEF Write, PendingInv, CopyInv, FlashInv, ToSaveInv, KnownInv, HeaderInv,
        Quiet, Saving, Held, Posted, flags
<1>5. CASE Write /\ user = "write_rest"
  <2>1. /\ user' = "saved"
        /\ UNCHANGED <<ram, snap, owed, posts, to_save, counting, msg, core>>
        /\ flash' = [flash EXCEPT ![Rest] = snap[Rest]]
    BY <1>5 DEF Write, flags
  <2>2. flash'[First] = snap[First] /\ flash'[Rest] = snap[Rest]
    BY <1>5, <2>1 DEF PendingInv, FlashInv, Blank, TypeOK, Contents
  <2>3. Held(First) /\ Held(Rest) /\ snap[First] # Erased
    BY <1>5 DEF PendingInv, CopyInv, Saving
  <2>4. Restored' = flash'
    BY <2>2, <2>3 DEF Restored
  <2>5. \A p \in Parts \ owed : Restored'[p] = ram'[p] \/ Asked(p)'
    BY <2>1, <2>2, <2>3, <2>4 DEF Held, Posted, Asked
  <2> QED
    BY <1>5, <2>1, <2>5
    DEF PendingInv, CopyInv, FlashInv, ToSaveInv, KnownInv, HeaderInv, Quiet,
        Saving
<1>6. CASE Saved
  BY <1>6
  DEF Saved, PendingInv, CopyInv, FlashInv, ToSaveInv, KnownInv, HeaderInv,
      Quiet, Saving, Asked, Restored
<1>7. CASE PowerCut
  BY <1>7
  DEF PowerCut, PendingInv, CopyInv, FlashInv, ToSaveInv, KnownInv, HeaderInv,
      Quiet, Saving
<1>8. CASE Boot
  <2>1. Restored' = ram' /\ ram'[First] # Erased
    BY <1>8, ValuesAssumption, PartsType DEF Boot, Restored, Defaults
  <2> QED
    BY <1>8, <2>1
    DEF Boot, PendingInv, CopyInv, FlashInv, ToSaveInv, KnownInv, HeaderInv,
        Quiet, Saving
<1>9. CASE WriteFails /\ user = "write_first"
  BY <1>9
  DEF WriteFails, PendingInv, CopyInv, FlashInv, ToSaveInv, KnownInv, HeaderInv,
      Quiet, Saving, stored, flags
<1>10. CASE WriteFails /\ user = "write_rest"
  <2>1. /\ user' = "saved" /\ owed' = owed \cup {Rest}
        /\ UNCHANGED <<ram, flash, snap, posts, to_save, counting, msg, core>>
    BY <1>10 DEF WriteFails, stored, flags
  <2>2. flash[First] = snap[First] /\ Held(First) /\ snap[First] # Erased
    BY <1>10 DEF PendingInv, CopyInv, FlashInv, Saving, Blank
  <2>3. \A p \in Parts \ owed' : Restored'[p] = ram'[p] \/ Asked(p)'
    BY <2>1, <2>2 DEF Restored, Held, Posted, Asked
  <2> QED
    BY <1>10, <2>1, <2>3
    DEF PendingInv, CopyInv, FlashInv, ToSaveInv, KnownInv, HeaderInv, Quiet,
        Saving
<1>11. CASE ReadFails
  <2>1. ram'[First] # Erased
    BY <1>11, ValuesAssumption, PartsType DEF ReadFails, Defaults
  <2> QED
    BY <1>11, <2>1
    DEF ReadFails, PendingInv, CopyInv, FlashInv, ToSaveInv, KnownInv, HeaderInv,
        Quiet, Saving, flags
<1> QED
  BY <1>1, <1>2, <1>3, <1>4, <1>5, <1>6, <1>7, <1>8, <1>9, <1>10, <1>11
  DEF Write, WriteFails

\* No change that is posted is forgotten, whatever the interleaving of the tasks'
\* loads and stores, the lengths of countdown and queue, and wherever the power
\* is cut; what no post follows, and what the flash failed to take or to give,
\* waits for the next post or save.
THEOREM NothingForgotten == Spec => []SaveIsPending
<1>1. Init => PendingInv /\ RegInv
  BY PendingInvInit DEF Init, RegInv
<1>2. PendingInv /\ RegInv /\ [Next]_vars => PendingInv' /\ RegInv'
  <2> SUFFICES ASSUME PendingInv, RegInv, [Next]_vars
               PROVE  PendingInv' /\ RegInv'
    OBVIOUS
  <2>1. TypeOK' /\ RegInv'
    BY NextType, NextReg DEF PendingInv
  <2> QED
    BY <2>1, TasksKeep, SaveKeeps DEF Next, UserTask
<1> QED
  BY <1>1, <1>2, PendingInvSuffices, PTL DEF Spec
===============================================================================
