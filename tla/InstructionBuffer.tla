-------------------------- MODULE InstructionBuffer --------------------------
(***************************************************************************)
(* The ring buffer of instruction_handle.c between the handler of the      *)
(* serial port's events and instruction_scan in user_task.  The two run in *)
(* different threads and share count; its increment and its decrement load *)
(* it in one step and store it in another.  Nothing holds back a byte that *)
(* arrives while the buffer is full.                                       *)
(***************************************************************************)
EXTENDS Integers, Sequences

CONSTANTS
  Byte,         \* the bytes that may arrive
  BufferLen,    \* INSTRUCTION_BUFFER_LEN
  MayPreempt    \* TRUE: one thread may run in the middle of the other's update,
                \* as the code allows; FALSE: the overrun alone

\* What is assumed of the constants.
RingAssumption == 0 \in Byte /\ BufferLen \in Nat \ {0} /\ MayPreempt \in BOOLEAN

Index == 0 .. BufferLen - 1

VARIABLES
  buffer, head, tail, count,  \* instruction_buffer_info
  out,                        \* the byte instruction_scan got last
  put_pc, put_reg,            \* the serial port's thread and its load of count
  get_pc, get_reg,            \* the same of user_task
  intact                      \* history: no byte arrived in a full buffer yet,
                              \* and no thread loaded count in the middle of
                              \* the other's update

ring == <<buffer, head, tail, count>>
putter == <<put_pc, put_reg>>
getter == <<get_pc, get_reg>>
vars == <<ring, out, putter, getter, intact>>

Init ==
  /\ buffer = [i \in Index |-> 0]
  /\ head = 0 /\ tail = 0 /\ count = 0
  /\ out = 0
  /\ put_pc = "idle" /\ put_reg = 0
  /\ get_pc = "idle" /\ get_reg = 0
  /\ intact = TRUE

After(i) == (i + 1) % BufferLen

\* instruction_buffer_put: move the index, store the byte, load count.
PutByte(b) ==
  /\ put_pc = "idle"
  /\ MayPreempt \/ get_pc = "idle"
  /\ head' = After(head)
  /\ buffer' = [buffer EXCEPT ![After(head)] = b]
  /\ put_reg' = count
  /\ put_pc' = "count"
  /\ intact' = (intact /\ count < BufferLen /\ get_pc = "idle")
  /\ UNCHANGED <<tail, count, out, getter>>

\* Its count++.
PutCount ==
  /\ put_pc = "count"
  /\ count' = put_reg + 1
  /\ put_reg' = 0
  /\ put_pc' = "cap"
  /\ UNCHANGED <<buffer, head, tail, out, getter, intact>>

\* The cap on count: its test, then its store.
PutCap ==
  /\ \/ /\ put_pc = "cap"
        /\ put_pc' = IF count > BufferLen THEN "store_cap" ELSE "idle"
        /\ UNCHANGED count
     \/ /\ put_pc = "store_cap"
        /\ count' = BufferLen
        /\ put_pc' = "idle"
  /\ UNCHANGED <<buffer, head, tail, out, put_reg, getter, intact>>

\* instruction_scan, when count is not 0: instruction_buffer_get.
GetByte ==
  /\ get_pc = "idle"
  /\ MayPreempt \/ put_pc = "idle"
  /\ count > 0
  /\ tail' = After(tail)
  /\ out' = buffer[After(tail)]
  /\ get_reg' = count
  /\ get_pc' = "count"
  /\ intact' = (intact /\ put_pc # "count")
  /\ UNCHANGED <<buffer, head, count, putter>>

\* Its count--.
GetCount ==
  /\ get_pc = "count"
  /\ count' = get_reg - 1
  /\ get_reg' = 0
  /\ get_pc' = "idle"
  /\ UNCHANGED <<buffer, head, tail, out, putter, intact>>

Next == (\E b \in Byte : PutByte(b)) \/ PutCount \/ PutCap \/ GetByte \/ GetCount

Spec == Init /\ [][Next]_vars

-----------------------------------------------------------------------------
(* Properties *)

\* The type invariant: count never runs below zero, and exceeds the buffer by
\* one at most.
TypeOK ==
  /\ buffer \in [Index -> Byte]
  /\ head \in Index /\ tail \in Index
  /\ count \in 0 .. BufferLen + 1
  /\ out \in Byte
  /\ put_pc \in {"idle", "count", "cap", "store_cap"}
  /\ get_pc \in {"idle", "count"}
  /\ put_reg \in 0 .. BufferLen /\ get_reg \in 0 .. BufferLen + 1
  /\ intact \in BOOLEAN

\* The bytes in the buffer, oldest first: a byte is in once it is counted and
\* out once the tail has passed it.
Size     == IF get_pc = "count" THEN count - 1 ELSE count
Contents == [k \in 1 .. Size |-> buffer[(tail + k) % BufferLen]]

Queue == INSTANCE ByteQueue WITH Capacity <- BufferLen, queue <- Contents

\* The ring is a first-in first-out queue whose oldest byte makes room for a new
\* one when it is full, as the comment of instruction_buffer_put says.
IsQueue == Queue!Spec

\* The ring is that queue up to the first byte that arrives in a full buffer, or
\* the first load of count in the middle of the other thread's update.
QueueWhileIntact == Queue!Init /\ [][intact' => Queue!Next]_<<Contents, out>>
=============================================================================
