------------------------ MODULE InstructionBufferProofs ------------------------
(***************************************************************************)
(* The ring buffer of instruction_handle.c, for any length and any bytes,  *)
(* with threads that run in the middle of each other's update and bytes    *)
(* that arrive in a full buffer: its indices and its count stay within     *)
(* their bounds whatever happens, and it is a first-in first-out queue up  *)
(* to the first of these two.                                              *)
(***************************************************************************)
EXTENDS InstructionBuffer, SequenceTheorems, TLAPS

\* The index k places after i, for k up to the length of the ring.
Ahead(i, k) == IF i + k < BufferLen THEN i + k ELSE i + k - BufferLen

\* The remainders the ring takes, without a division.
LEMMA Wrap ==
  ASSUME RingAssumption, NEW i \in Index, NEW k \in 0 .. BufferLen
  PROVE  (i + k) % BufferLen = Ahead(i, k) /\ Ahead(i, k) \in Index
  BY DEF RingAssumption, Index, Ahead

\* Going one place on, and then k, is going k + 1 places on.
LEMMA AfterIs ==
  ASSUME RingAssumption, NEW i \in Index
  PROVE  /\ After(i) = Ahead(i, 1) /\ After(i) \in Index
         /\ \A k \in 0 .. BufferLen - 1 : Ahead(After(i), k) = Ahead(i, k + 1)
                                          /\ After(Ahead(i, k)) = Ahead(i, k + 1)
<1> BufferLen \in Nat \ {0}
  BY DEF RingAssumption
<1>1. After(i) = Ahead(i, 1) /\ After(i) \in Index
  BY Wrap DEF After
<1>2. ASSUME NEW k \in 0 .. BufferLen - 1
      PROVE  Ahead(After(i), k) = Ahead(i, k + 1)
  BY <1>1 DEF Ahead, Index
<1>3. ASSUME NEW k \in 0 .. BufferLen - 1
      PROVE  After(Ahead(i, k)) = Ahead(i, k + 1)
  <2>1. Ahead(i, k) \in Index
    BY Wrap
  <2>2. After(Ahead(i, k)) = Ahead(Ahead(i, k), 1)
    BY <2>1, Wrap DEF After
  <2> QED
    BY <2>2 DEF Ahead, Index
<1> QED
  BY <1>1, <1>2, <1>3

-----------------------------------------------------------------------------
(* Types *)

\* A thread that has loaded count finds it as its own test of it left it: room
\* below the cap for one more, or something to take off.
LoadType ==
  /\ put_pc \in {"idle", "count"} => count <= BufferLen
  /\ get_pc = "count" => get_reg > 0

\* Every step keeps the types, overruns and overlapping updates included.
LEMMA NextType ==
  ASSUME RingAssumption, TypeOK, LoadType, [Next]_vars
  PROVE  TypeOK' /\ LoadType'
<1> USE DEF RingAssumption
<1>1. CASE UNCHANGED vars
  BY <1>1 DEF vars, ring, putter, getter, TypeOK, LoadType
<1>2. ASSUME NEW b \in Byte, PutByte(b) PROVE TypeOK' /\ LoadType'
  <2>1. After(head) \in Index
    BY AfterIs DEF TypeOK
  <2> QED
    BY <1>2, <2>1 DEF PutByte, getter, TypeOK, LoadType
<1>3. CASE PutCount
  BY <1>3 DEF PutCount, getter, TypeOK, LoadType
<1>4. CASE PutCap
  BY <1>4 DEF PutCap, getter, TypeOK, LoadType
<1>5. CASE GetByte
  <2>1. After(tail) \in Index
    BY AfterIs DEF TypeOK
  <2> QED
    BY <1>5, <2>1 DEF GetByte, putter, TypeOK, LoadType
<1>6. CASE GetCount
  BY <1>6 DEF GetCount, putter, TypeOK, LoadType
<1> QED
  BY <1>1, <1>2, <1>3, <1>4, <1>5, <1>6 DEF Next

\* The program starts in well-typed states.
LEMMA InitType == RingAssumption /\ Init => TypeOK /\ LoadType
  BY DEF RingAssumption, Init, TypeOK, LoadType, Index

\* However the two threads' loads and stores fall between each other, and however
\* many bytes arrive in a full buffer: indices and loads stay within their bounds,
\* and count, a u16, neither runs below zero nor past the cap by more than one.
THEOREM TypeCorrect ==
  ASSUME RingAssumption
  PROVE  Spec => []TypeOK
<1>1. TypeOK /\ LoadType /\ [Next]_vars => TypeOK' /\ LoadType'
  BY NextType
<1> QED
  BY <1>1, InitType, PTL DEF Spec

-----------------------------------------------------------------------------
(* The inductive invariant *)

\* While the ring is intact, one thread at a time holds a load of count, and it
\* is still good.
LoadInv ==
  /\ put_pc = "count" => get_pc = "idle" /\ put_reg = count /\ count < BufferLen
  /\ get_pc = "count" => put_pc # "count" /\ get_reg = count /\ count > 0
  /\ count <= BufferLen /\ put_pc # "store_cap"

\* The head is as many places ahead of the tail as there are bytes, the one
\* stored and not yet counted included.
HeadInv == head = Ahead(tail, IF put_pc = "count" THEN Size + 1 ELSE Size)

RingInv == TypeOK /\ LoadType /\ (intact => LoadInv /\ HeadInv)

\* An empty ring satisfies it.
LEMMA RingInvInit == RingAssumption /\ Init => RingInv
  BY InitType
  DEF RingAssumption, Init, RingInv, LoadInv, HeadInv, Size, Ahead

\* The number of bytes in the ring.
LEMMA SizeType ==
  ASSUME RingAssumption, RingInv, intact
  PROVE  /\ Size \in 0 .. BufferLen
         /\ put_pc = "count" => Size < BufferLen
         /\ get_pc = "count" => Size < BufferLen
<1>1. count \in 0 .. BufferLen
  BY DEF RingAssumption, RingInv, TypeOK, LoadInv
<1>2. get_pc = "count" => put_pc # "count" /\ count > 0
  BY DEF RingInv, LoadInv
<1>3. put_pc = "count" => count < BufferLen
  BY DEF RingInv, LoadInv
<1> QED
  BY <1>1, <1>2, <1>3 DEF RingAssumption, Size

\* Every step that leaves the ring intact keeps loads and head as they should be.
LEMMA IntactKeeps ==
  ASSUME RingAssumption, RingInv, [Next]_vars, intact'
  PROVE  intact /\ LoadInv' /\ HeadInv'
<1> USE DEF RingAssumption
<1>1. CASE UNCHANGED vars
  BY <1>1 DEF vars, ring, putter, getter, RingInv, LoadInv, HeadInv, Size
<1>2. ASSUME NEW b \in Byte, PutByte(b) PROVE intact /\ LoadInv' /\ HeadInv'
  <2>1. /\ intact /\ put_pc = "idle" /\ get_pc = "idle" /\ count < BufferLen
        /\ put_pc' = "count" /\ put_reg' = count
        /\ UNCHANGED <<tail, count, out, get_pc, get_reg>>
    BY <1>2 DEF PutByte, getter, RingInv, TypeOK
  <2>2. /\ head' = After(head) /\ tail \in Index
        /\ head = Ahead(tail, count) /\ count \in 0 .. BufferLen - 1
    BY <1>2, <2>1 DEF PutByte, RingInv, TypeOK, HeadInv, Size
  <2>3. head' = Ahead(tail, count + 1)
    BY <2>2, AfterIs
  <2> QED
    BY <2>1, <2>2, <2>3 DEF LoadInv, HeadInv, Size
<1>3. CASE PutCount
  <2>1. /\ intact /\ put_pc = "count" /\ get_pc = "idle" /\ put_pc' = "cap"
        /\ count' = count + 1 /\ count \in 0 .. BufferLen - 1
        /\ UNCHANGED <<buffer, head, tail, out, get_pc, get_reg>>
    BY <1>3 DEF PutCount, RingInv, TypeOK, LoadInv, getter
  <2> QED
    BY <2>1 DEF RingInv, LoadInv, HeadInv, Size
<1>4. CASE PutCap
  <2>1. /\ intact /\ put_pc = "cap" /\ put_pc' = "idle" /\ ~(count > BufferLen)
        /\ UNCHANGED <<buffer, head, tail, count, out, put_reg, get_pc, get_reg>>
    BY <1>4 DEF PutCap, RingInv, TypeOK, LoadInv, getter
  <2> QED
    BY <2>1 DEF RingInv, LoadInv, HeadInv, Size
<1>5. CASE GetByte
  <2>1. /\ intact /\ put_pc # "count" /\ get_pc = "idle" /\ count > 0
        /\ get_pc' = "count" /\ get_reg' = count /\ tail' = After(tail)
        /\ UNCHANGED <<buffer, head, count, put_pc, put_reg>>
    BY <1>5 DEF GetByte, putter, RingInv, TypeOK
  <2>2. tail \in Index /\ count \in 1 .. BufferLen /\ head = Ahead(tail, count)
    BY <2>1 DEF RingInv, TypeOK, LoadInv, HeadInv, Size
  <2>3. head = Ahead(tail', count - 1)
    BY <2>1, <2>2, AfterIs
  <2> QED
    BY <2>1, <2>2, <2>3 DEF RingInv, LoadInv, HeadInv, Size
<1>6. CASE GetCount
  <2>1. /\ intact /\ get_pc = "count" /\ get_pc' = "idle"
        /\ count' = get_reg - 1
        /\ UNCHANGED <<buffer, head, tail, out, put_pc, put_reg>>
    BY <1>6 DEF GetCount, putter
  <2>2. put_pc # "count" /\ count' = count - 1 /\ count \in 1 .. BufferLen
    BY <2>1 DEF RingInv, TypeOK, LoadInv
  <2> QED
    BY <2>1, <2>2 DEF RingInv, LoadInv, HeadInv, Size
<1> QED
  BY <1>1, <1>2, <1>3, <1>4, <1>5, <1>6 DEF Next

\* Every step keeps the invariant.
LEMMA RingInvNext ==
  ASSUME RingAssumption, RingInv, [Next]_vars
  PROVE  RingInv'
  BY NextType, IntactKeeps DEF RingInv

-----------------------------------------------------------------------------
(* The refinement *)

\* What the ring holds, as a sequence.
LEMMA ContentsSeq ==
  ASSUME RingAssumption, RingInv, intact
  PROVE  /\ Contents \in Seq(Byte) /\ Len(Contents) = Size
         /\ \A k \in 1 .. Size : Contents[k] = buffer[Ahead(tail, k)]
<1> BufferLen \in Nat \ {0}
  BY DEF RingAssumption
<1>1. Size \in Nat /\ 1 .. Size \subseteq 0 .. BufferLen /\ tail \in Index
  BY SizeType DEF RingInv, TypeOK
<1>2. \A k \in 1 .. Size : (tail + k) % BufferLen = Ahead(tail, k)
                           /\ Ahead(tail, k) \in Index
  BY <1>1, Wrap
<1>3. \A k \in 1 .. Size : buffer[(tail + k) % BufferLen] \in Byte
  BY <1>2 DEF RingInv, TypeOK
<1>4. Contents \in Seq(Byte) /\ Len(Contents) = Size
  BY <1>1, <1>3 DEF Contents
<1> QED
  BY <1>2, <1>4 DEF Contents

\* Storing a byte does not touch those the ring holds.
LEMMA PutByteHidden ==
  ASSUME RingAssumption, RingInv, intact', NEW b \in Byte, PutByte(b)
  PROVE  UNCHANGED <<Contents, out>>
<1> BufferLen \in Nat \ {0}
  BY DEF RingAssumption
<1>1. /\ intact /\ put_pc = "idle" /\ get_pc = "idle" /\ count < BufferLen
      /\ buffer' = [buffer EXCEPT ![After(head)] = b]
      /\ UNCHANGED <<tail, count, out, get_pc>>
  BY DEF PutByte, getter
<1>2. tail \in Index /\ count \in 0 .. BufferLen - 1 /\ head = Ahead(tail, count)
  BY <1>1 DEF RingInv, TypeOK, HeadInv, Size
<1>3. After(head) = Ahead(tail, count + 1) /\ After(head) \in Index
  BY <1>2, AfterIs DEF RingInv, TypeOK
<1>4. Size = count /\ UNCHANGED Size
  BY <1>1 DEF Size
<1>5. ASSUME NEW k \in 1 .. count
      PROVE  buffer'[(tail + k) % BufferLen] = buffer[(tail + k) % BufferLen]
  <2>1. (tail + k) % BufferLen = Ahead(tail, k) /\ Ahead(tail, k) \in Index
    BY <1>2, Wrap
  <2>2. Ahead(tail, k) # Ahead(tail, count + 1)
    BY <1>2 DEF Ahead, Index
  <2> QED
    BY <1>1, <1>3, <2>1, <2>2 DEF RingInv, TypeOK
<1>6. UNCHANGED Contents
  BY <1>1, <1>4, <1>5 DEF Contents
<1> QED
  BY <1>1, <1>6 DEF PutByte
\* Counting it puts it at the end of the queue.
LEMMA PutCountPuts ==
  ASSUME RingAssumption, RingInv, intact', PutCount
  PROVE  \E b \in Byte : Queue!Put(b)
<1> BufferLen \in Nat \ {0}
  BY DEF RingAssumption
<1>1. /\ intact /\ get_pc = "idle" /\ put_pc = "count" /\ count' = count + 1
      /\ Size = count /\ Size' = count + 1 /\ count \in 0 .. BufferLen - 1
      /\ UNCHANGED <<buffer, tail, out>>
  <2>1. /\ put_pc = "count" /\ UNCHANGED <<buffer, tail, out, get_pc>>
        /\ count' = put_reg + 1 /\ intact
    BY DEF PutCount, getter
  <2>2. get_pc = "idle" /\ put_reg = count /\ count < BufferLen
    BY <2>1 DEF RingInv, LoadInv
  <2>3. count \in 0 .. BufferLen - 1
    BY <2>2 DEF RingInv, TypeOK
  <2>4. count' = count + 1
    BY <2>1, <2>2, <2>3
  <2> QED
    BY <2>1, <2>2, <2>3, <2>4 DEF Size
<1> DEFINE b == buffer[Ahead(tail, count + 1)]
<1>2. tail \in Index /\ Ahead(tail, count + 1) \in Index /\ b \in Byte
  BY <1>1, Wrap DEF RingInv, TypeOK
<1>3. /\ Contents \in Seq(Byte) /\ Len(Contents) = count
      /\ \A k \in 1 .. count : Contents[k] = buffer[Ahead(tail, k)]
  BY <1>1, ContentsSeq
<1>4. \A k \in 1 .. count + 1 : (tail + k) % BufferLen = Ahead(tail, k)
                              /\ Ahead(tail, k) \in Index
  BY <1>1, <1>2, Wrap
<1>5. Contents' = [k \in 1 .. count + 1 |-> buffer[(tail + k) % BufferLen]]
  BY <1>1 DEF Contents
<1>6. /\ Contents' \in Seq(Byte) /\ Len(Contents') = count + 1
      /\ \A k \in 1 .. count + 1 : Contents'[k] = buffer[Ahead(tail, k)]
  <2>1. \A k \in 1 .. count + 1 : buffer[(tail + k) % BufferLen] \in Byte
    BY <1>4 DEF RingInv, TypeOK
  <2>2. count + 1 \in Nat
    BY <1>1
  <2>3. Contents' \in Seq(Byte) /\ Len(Contents') = count + 1
    BY <1>5, <2>1, <2>2
  <2> QED
    BY <1>4, <1>5, <2>3
<1> HIDE DEF b
<1>7. /\ Append(Contents, b) \in Seq(Byte) /\ Len(Append(Contents, b)) = count + 1
      /\ \A k \in 1 .. count : Append(Contents, b)[k] = Contents[k]
      /\ Append(Contents, b)[count + 1] = b
  BY <1>2, <1>3, AppendProperties
<1>8. \A k \in 1 .. count + 1 : Contents'[k] = Append(Contents, b)[k]
  BY <1>1, <1>3, <1>6, <1>7 DEF b
<1>9. Contents' = Append(Contents, b)
  BY <1>6, <1>7, <1>8, SeqEqual
<1>10. Len(Contents) # BufferLen
  BY <1>1, <1>3
<1> QED
  BY <1>1, <1>2, <1>9, <1>10 DEF Queue!Put

\* Taking a byte takes the oldest one.
LEMMA GetByteGets ==
  ASSUME RingAssumption, RingInv, intact', GetByte
  PROVE  Queue!Get
<1> BufferLen \in Nat \ {0}
  BY DEF RingAssumption
<1>1. /\ intact /\ get_pc = "idle" /\ count > 0 /\ tail' = After(tail)
      /\ Size = count /\ Size' = count - 1 /\ count \in 1 .. BufferLen
      /\ out' = buffer[After(tail)] /\ UNCHANGED buffer
  BY DEF GetByte, RingInv, TypeOK, LoadInv, Size, putter
<1>2. tail \in Index /\ tail' \in Index /\ tail' = Ahead(tail, 1)
  BY <1>1, AfterIs DEF RingInv, TypeOK
<1>3. /\ Contents \in Seq(Byte) /\ Len(Contents) = count
      /\ \A k \in 1 .. count : Contents[k] = buffer[Ahead(tail, k)]
  BY <1>1, ContentsSeq
<1>4. Contents # <<>> /\ out' = Head(Contents)
  <2>1. Contents # <<>>
    BY <1>1, <1>3, EmptySeq
  <2>2. Head(Contents) = Contents[1]
    BY <1>3, <2>1
  <2> QED
    BY <1>1, <1>2, <1>3, <2>1, <2>2
<1>5. /\ Tail(Contents) \in Seq(Byte) /\ Len(Tail(Contents)) = count - 1
      /\ \A k \in 1 .. count - 1 : Tail(Contents)[k] = Contents[k + 1]
  BY <1>3, <1>4, HeadTailProperties
<1>6. Contents' = [k \in 1 .. count - 1 |-> buffer[(tail' + k) % BufferLen]]
  BY <1>1 DEF Contents
<1>7. \A k \in 1 .. count - 1 :
        /\ (tail' + k) % BufferLen = Ahead(tail, k + 1)
        /\ Ahead(tail, k + 1) \in Index
  <2> SUFFICES ASSUME NEW k \in 1 .. count - 1
               PROVE  /\ (tail' + k) % BufferLen = Ahead(tail, k + 1)
                      /\ Ahead(tail, k + 1) \in Index
    OBVIOUS
  <2>1. k \in 0 .. BufferLen - 1 /\ k + 1 \in 0 .. BufferLen /\ k \in 0 .. BufferLen
    BY <1>1
  <2> QED
    BY <1>1, <1>2, <2>1, Wrap, AfterIs
<1>8. /\ Contents' \in Seq(Byte) /\ Len(Contents') = count - 1
      /\ \A k \in 1 .. count - 1 : Contents'[k] = buffer[Ahead(tail, k + 1)]
  <2>1. \A k \in 1 .. count - 1 : buffer[(tail' + k) % BufferLen] \in Byte
    BY <1>7 DEF RingInv, TypeOK
  <2>2. count - 1 \in Nat
    BY <1>1
  <2>3. Contents' \in Seq(Byte) /\ Len(Contents') = count - 1
    BY <1>6, <2>1, <2>2
  <2> QED
    BY <1>6, <1>7, <2>3
<1>9. \A k \in 1 .. count - 1 : Contents'[k] = Tail(Contents)[k]
  BY <1>1, <1>3, <1>5, <1>8
<1>10. Contents' = Tail(Contents)
  BY <1>5, <1>8, <1>9, SeqEqual
<1> QED
  BY <1>4, <1>10 DEF Queue!Get

\* For any length of the ring and any bytes, in whatever order the two threads
\* put and take, and with no assumption on either: up to the first byte that
\* arrives in a full buffer, or the first load of count in the middle of the
\* other's update, the bytes come out as they came in.
THEOREM RingIsQueue ==
  ASSUME RingAssumption
  PROVE  Spec => QueueWhileIntact
<1>1. Init => Queue!Init
  <2> SUFFICES ASSUME Init PROVE Contents = <<>> /\ out \in Byte
    BY DEF Queue!Init
  <2>1. Contents \in Seq(Byte) /\ Len(Contents) = 0
    BY RingInvInit, ContentsSeq DEF Init, Size
  <2> QED
    BY <2>1, EmptySeq DEF RingAssumption, Init
<1>2. RingInv /\ [Next]_vars => [intact' => Queue!Next]_<<Contents, out>>
  <2> SUFFICES ASSUME RingInv, [Next]_vars, intact'
               PROVE  Queue!Next \/ UNCHANGED <<Contents, out>>
    OBVIOUS
  <2>1. CASE UNCHANGED vars
    BY <2>1 DEF vars, ring, putter, getter, Contents, Size
  <2>2. CASE \E b \in Byte : PutByte(b)
    BY <2>2, PutByteHidden
  <2>3. CASE PutCount
    BY <2>3, PutCountPuts DEF Queue!Next
  <2>4. CASE PutCap
    <3>1. put_pc # "store_cap"
      BY <2>4, IntactKeeps DEF RingInv, LoadInv
    <3> QED
      BY <2>4, <3>1 DEF PutCap, getter, Contents, Size
  <2>5. CASE GetByte
    BY <2>5, GetByteGets DEF Queue!Next
  <2>6. CASE GetCount
    <3>1. intact /\ get_pc = "count" /\ get_pc' = "idle" /\ count' = get_reg - 1
          /\ UNCHANGED <<buffer, tail, out>>
      BY <2>6 DEF GetCount
    <3>2. get_reg = count
      BY <3>1 DEF RingInv, LoadInv
    <3> QED
      BY <3>1, <3>2 DEF Contents, Size
  <2> QED
    BY <2>1, <2>2, <2>3, <2>4, <2>5, <2>6 DEF Next
<1>3. RingInv /\ [Next]_vars => RingInv'
  BY RingInvNext
<1> QED
  BY <1>1, <1>2, <1>3, RingInvInit, PTL DEF Spec, QueueWhileIntact
================================================================================
