---------------------------- MODULE CascadeProofs ----------------------------
(***************************************************************************)
(* Proofs about Cascade for chains of any length, any number and mixture   *)
(* of instructions, and any number of sequences and power cuts.            *)
(*                                                                         *)
(* Four arguments.  Numbering: an INIT in the buffer of device d carries   *)
(* the host's address moved on by d - 1.  Saving: an unsaved address comes *)
(* from the instruction at hand, which will be answered.  And where an     *)
(* instruction is: TokenInv says that it is at one place at most and that  *)
(* no device from there on has had it.  On it rest that one device carries *)
(* an instruction out (OnceInv), that an instruction to all passes nobody  *)
(* over (ReachInv) and that answers come from the nearer device first      *)
(* (UpInv, BehindInv).  And answering: each answer, and the instruction at *)
(* hand, says what the device made of it (TruthInv), and a device that has *)
(* carried an instruction out is going to answer it (OkInv).               *)
(***************************************************************************)
EXTENDS Cascade, FiniteSetTheorems, TLAPS

USE MAssumption, BroadcastAssumption, StoredAssumption, RequestsAssumption,
    BoundsAssumption

\* A message in the buffer of device d, if it is an INIT, carries the address
\* the host gave it, moved on by the devices before d.
Origin(l, d, m) ==
  m.type = "init" => m.id \in DOMAIN l /\ m.addr = l[m.id].addr + d - 1

\* Address a of device d, taken from the INIT i, is that of its place.
Place(l, d, i, a) == i # 0 => i \in DOMAIN l /\ a = l[i].addr + d - 1

NumberInv ==
  /\ \A d \in Dev : \A k \in DOMAIN down[d] : Origin(log, d, down[d][k])
  /\ \A d \in Dev : Place(log, d, took[d], addr[d]) /\ Place(log, d, flash_took[d], flash[d])

IInv == TypeOK /\ NumberInv

-----------------------------------------------------------------------------
(* The buffers *)

\* What the next device has after a message is passed on: what it had, and
\* the message.
LEMMA PassDownIs ==
  ASSUME NEW S, NEW q \in [Dev -> Seq(S)], NEW d \in Dev, NEW m \in S
  PROVE  /\ PassDown(d, q, m) \in [Dev -> Seq(S)]
         /\ \A e \in Dev : \A k \in DOMAIN PassDown(d, q, m)[e] :
              \/ k \in DOMAIN q[e] /\ PassDown(d, q, m)[e][k] = q[e][k]
              \/ e = d + 1 /\ PassDown(d, q, m)[e][k] = m
<1>1. CASE d = M
  BY <1>1 DEF PassDown, Dev
<1>2. CASE d # M
  <2>1. d + 1 \in Dev /\ PassDown(d, q, m) = [q EXCEPT ![d + 1] = Append(@, m)]
    BY <1>2 DEF PassDown, Dev
  <2>2. q[d + 1] \in Seq(S) /\ Append(q[d + 1], m) \in Seq(S)
    BY <2>1
  <2>3. PassDown(d, q, m) \in [Dev -> Seq(S)]
    BY <2>1, <2>2
  <2>4. \A k \in DOMAIN Append(q[d + 1], m) :
          \/ k \in DOMAIN q[d + 1] /\ Append(q[d + 1], m)[k] = q[d + 1][k]
          \/ Append(q[d + 1], m)[k] = m
    BY <2>2
  <2> QED BY <2>1, <2>3, <2>4
<1> QED BY <1>1, <1>2

\* The same towards the host.
LEMMA PassUpIs ==
  ASSUME NEW S, NEW q \in [Dev -> Seq(S)], NEW d \in Dev, NEW a \in S
  PROVE  PassUp(d, q, a) \in [Dev -> Seq(S)]
BY DEF PassUp, Dev

\* Taking the first message leaves messages that were there.
LEMMA TailIs ==
  ASSUME NEW S, NEW q \in [Dev -> Seq(S)], NEW d \in Dev, q[d] # << >>
  PROVE  /\ Head(q[d]) \in S /\ 1 \in DOMAIN q[d] /\ Head(q[d]) = q[d][1]
         /\ [q EXCEPT ![d] = Tail(@)] \in [Dev -> Seq(S)]
         /\ \A e \in Dev : \A k \in DOMAIN [q EXCEPT ![d] = Tail(@)][e] :
              \E j \in DOMAIN q[e] : [q EXCEPT ![d] = Tail(@)][e][k] = q[e][j]
<1>1. q[d] \in Seq(S) /\ Tail(q[d]) \in Seq(S) /\ Len(q[d]) > 0
  OBVIOUS
<1>2. \A k \in DOMAIN Tail(q[d]) : k + 1 \in DOMAIN q[d] /\ Tail(q[d])[k] = q[d][k + 1]
  BY <1>1
<1>3. Head(q[d]) \in S /\ 1 \in DOMAIN q[d] /\ Head(q[d]) = q[d][1]
  BY <1>1
<1>4. [q EXCEPT ![d] = Tail(@)] \in [Dev -> Seq(S)]
  BY <1>1
<1>5. ASSUME NEW e \in Dev, NEW k \in DOMAIN [q EXCEPT ![d] = Tail(@)][e]
      PROVE  \E j \in DOMAIN q[e] : [q EXCEPT ![d] = Tail(@)][e][k] = q[e][j]
  BY <1>2, <1>5
<1> QED BY <1>3, <1>4, <1>5

-----------------------------------------------------------------------------
(* Types *)

\* Every message has its type, whatever instruction it was made of.
LEMMA AcceptsTypes ==
  ASSUME TypeOK, NEW d \in Dev, NEW m \in Message, Accepts(d, m)
  PROVE  NewAddr(d, m) \in 0 .. Broadcast - 1
         /\ NewPhase(d, m) \in {"off", "on", "rising", "falling"}
<1>1. NewAddr(d, m) \in 0 .. Broadcast - 1
  BY DEF TypeOK, Accepts, NewAddr, Message, Address
<1>2. NewPhase(d, m) \in {"off", "on", "rising", "falling"}
  BY DEF TypeOK, NewPhase
<1> QED BY <1>1, <1>2

LEMMA ActTypes ==
  ASSUME TypeOK, NEW d \in Dev, Act(d)
  PROVE  TypeOK'
<1> DEFINE m  == Head(down[d])
           ok == Accepts(d, m)
<1>0. down \in [Dev -> Seq(Message)] /\ down[d] # << >>
  BY DEF TypeOK, Act
<1>1. m \in Message /\ m.id \in Id
  <2>1. m \in Message
    BY <1>0, TailIs
  <2> QED BY <2>1 DEF Message
<1>2. down' \in [Dev -> Seq(Message)]
  <2>1. [down EXCEPT ![d] = Tail(@)] \in [Dev -> Seq(Message)]
    BY <1>0, TailIs
  <2>2. m.addr # Broadcast => [m EXCEPT !.addr = @ + 1] \in Message
    BY <1>1 DEF Message, Address
  <2> QED BY <2>1, <2>2, PassDownIs DEF Act, AfterAct
<1>3. addr' \in [Dev -> 0 .. Broadcast - 1] /\ phase' \in [Dev -> {"off", "on", "rising", "falling"}]
  BY <1>1, AcceptsTypes DEF TypeOK, Act
<1>4. took' \in [Dev -> Id \cup {0}]
  BY <1>1 DEF TypeOK, Act
<1>5. result' \in [Dev -> [Id -> {"none", "ok", "refused"}]]
  BY <1>1 DEF TypeOK, Act
<1>6. at' \in [Dev -> {"scan", "acted"}]
  BY DEF TypeOK, Act
<1>7. job' \in [Dev -> Job \cup {NoJob}] /\ \A e \in Dev : at'[e] = "acted" => job'[e] \in Job
  <2>1. [id |-> m.id, msg |-> m, ok |-> ok, last |-> addr[d]] \in Job
    BY <1>1 DEF TypeOK, Job, Accepts
  <2>2. job' = [job EXCEPT ![d] = [id |-> m.id, msg |-> m, ok |-> ok, last |-> addr[d]]]
    BY DEF Act
  <2> DEFINE j == [id |-> m.id, msg |-> m, ok |-> ok, last |-> addr[d]]
  <2>3. /\ at' = [at EXCEPT ![d] = "acted"]
        /\ at \in [Dev -> {"scan", "acted"}] /\ job \in [Dev -> Job \cup {NoJob}]
        /\ \A e \in Dev : at[e] = "acted" => job[e] \in Job
    BY DEF TypeOK, Act
  <2> HIDE DEF m, ok, j
  <2>4. j \in Job /\ job' = [job EXCEPT ![d] = j]
    BY <2>1, <2>2 DEF j
  <2> QED BY <2>3, <2>4
<1> QED
  BY <1>2, <1>3, <1>4, <1>5, <1>6, <1>7 DEF TypeOK, Act, saved, counts

LEMMA FinishTypes ==
  ASSUME TypeOK, NEW d \in Dev, Finish(d)
  PROVE  TypeOK'
<1> DEFINE a == [dev |-> d, id |-> job[d].id, ok |-> job[d].ok]
<1>1. job[d] \in Job
  BY DEF TypeOK, Finish
<1>2. a \in AnswerMsg /\ job[d].msg \in Message
  BY <1>1 DEF Job, AnswerMsg
<1>3. up' \in [Dev -> Seq(AnswerMsg)] /\ heard' \subseteq AnswerMsg
  <2>1. PassUp(d, up, a) \in [Dev -> Seq(AnswerMsg)]
    BY <1>2, PassUpIs DEF TypeOK
  <2> QED BY <1>2, <2>1 DEF TypeOK, Finish, Hear
<1>4. saving' \in [Dev -> BOOLEAN]
  BY <1>1 DEF TypeOK, Finish, Job
<1>5. down' \in [Dev -> Seq(Message)]
  <2>1. PassDown(d, down, job[d].msg) \in [Dev -> Seq(Message)]
    BY <1>2, PassDownIs DEF TypeOK
  <2> QED BY <2>1 DEF TypeOK, Finish
<1>6. at' \in [Dev -> {"scan", "acted"}] /\ job' \in [Dev -> Job \cup {NoJob}]
      /\ \A e \in Dev : at'[e] = "acted" => job'[e] \in Job
  BY DEF TypeOK, Finish
<1> QED
  BY <1>3, <1>4, <1>5, <1>6 DEF TypeOK, Finish, devices, counts

LEMMA RelayTypes ==
  ASSUME TypeOK, NEW d \in Dev, Relay(d)
  PROVE  TypeOK'
<1>1. up \in [Dev -> Seq(AnswerMsg)] /\ up[d] # << >>
  BY DEF TypeOK, Relay
<1>2. Head(up[d]) \in AnswerMsg /\ [up EXCEPT ![d] = Tail(@)] \in [Dev -> Seq(AnswerMsg)]
  BY <1>1, TailIs
<1>3. PassUp(d, [up EXCEPT ![d] = Tail(@)], Head(up[d])) \in [Dev -> Seq(AnswerMsg)]
  BY <1>2, PassUpIs
<1>4. up' \in [Dev -> Seq(AnswerMsg)] /\ heard' \subseteq AnswerMsg
  BY <1>2, <1>3 DEF TypeOK, Relay, Hear
<1> QED
  BY <1>4 DEF TypeOK, Relay, devices, saved, work, counts

LEMMA OwnTypes ==
  ASSUME TypeOK, NEW d \in Dev, Own(d)
  PROVE  TypeOK'
<1>1. CASE SequenceEnds(d)
  BY <1>1 DEF TypeOK, SequenceEnds, work, lines, counts
<1>2. CASE Save(d)
  BY <1>2 DEF TypeOK, Save, devices, work, lines, counts
<1>3. CASE LocalPower(d)
  BY <1>3 DEF TypeOK, LocalPower, saved, work, lines
<1>4. CASE Cut(d)
  <2>1. << >> \in Seq(Message) /\ << >> \in Seq(AnswerMsg)
    OBVIOUS
  <2>2. /\ addr' \in [Dev -> 0 .. Broadcast - 1] /\ took' \in [Dev -> Id \cup {0}]
        /\ phase' \in [Dev -> {"off", "on", "rising", "falling"}]
        /\ saving' \in [Dev -> BOOLEAN]
    BY <1>4 DEF TypeOK, Cut
  <2>3. /\ at' \in [Dev -> {"scan", "acted"}] /\ job' \in [Dev -> Job \cup {NoJob}]
        /\ \A e \in Dev : at'[e] = "acted" => job'[e] \in Job
    BY <1>4 DEF TypeOK, Cut
  <2>4. down' \in [Dev -> Seq(Message)] /\ up' \in [Dev -> Seq(AnswerMsg)]
    BY <1>4, <2>1 DEF TypeOK, Cut
  <2>5. locals' \in 0 .. MaxUpsets /\ cuts' \in 0 .. MaxUpsets
    BY <1>4 DEF TypeOK, Cut
  <2> QED BY <1>4, <2>2, <2>3, <2>4, <2>5 DEF TypeOK, Cut
<1> QED BY <1>1, <1>2, <1>3, <1>4 DEF Own

LEMMA SendTypes ==
  ASSUME TypeOK, NEW r \in Requests, Send(r)
  PROVE  TypeOK'
<1> DEFINE m == [id |-> Len(log) + 1, type |-> r.type, addr |-> r.addr, good |-> r.good]
<1>1. 1 \in Dev
  BY DEF Dev
<1>2. log \in Seq(Requests) /\ Len(log) \in Nat /\ Len(log) < MaxRequests
  BY DEF TypeOK, Send
<1>3. m \in Message
  BY <1>2 DEF Request, Message, Id
<1>4. down' \in [Dev -> Seq(Message)]
  <2>1. down[1] \in Seq(Message) /\ Append(down[1], m) \in Seq(Message)
    BY <1>1, <1>3 DEF TypeOK
  <2> QED BY <2>1 DEF TypeOK, Send
<1>5. log' \in Seq(Requests)
  BY <1>2 DEF Send
<1> QED
  BY <1>4, <1>5 DEF TypeOK, Send, devices, saved, work, counts

LEMMA InitTypes == Init => TypeOK
<1> SUFFICES ASSUME Init PROVE TypeOK
  OBVIOUS
<1>1. << >> \in Seq(Message) /\ << >> \in Seq(AnswerMsg) /\ << >> \in Seq(Requests)
  OBVIOUS
<1>2. addr \in [Dev -> 0 .. Broadcast - 1] /\ flash \in [Dev -> 0 .. Broadcast - 1]
  BY DEF Init
<1> QED BY <1>1, <1>2 DEF Init, TypeOK

LEMMA NextTypes ==
  ASSUME TypeOK, [Next]_vars
  PROVE  TypeOK'
<1>1. CASE UNCHANGED vars
  BY <1>1 DEF TypeOK, vars, devices, saved, work, lines, counts
<1>2. CASE Next
  BY <1>2, ActTypes, FinishTypes, RelayTypes, OwnTypes, SendTypes DEF Next, Running
<1> QED BY <1>1, <1>2

\* Addresses stay in their range below 0xFF, and everything else in its type,
\* however INITs, resets, sequences and power cuts follow each other.
THEOREM CascadeTypes == Spec => []TypeOK
<1> QED BY InitTypes, NextTypes, PTL DEF Spec

-----------------------------------------------------------------------------
(* Numbering *)

LEMMA ActNumbers ==
  ASSUME IInv, NEW d \in Dev, Act(d)
  PROVE  NumberInv'
<1> DEFINE m == Head(down[d])
           n == [m EXCEPT !.addr = @ + 1]
           t == [down EXCEPT ![d] = Tail(@)]
<1>0. down \in [Dev -> Seq(Message)] /\ down[d] # << >> /\ log' = log
  BY DEF IInv, TypeOK, Act
<1>1. m \in Message /\ Origin(log, d, m)
  BY <1>0, TailIs DEF IInv, NumberInv
<1>2. /\ t \in [Dev -> Seq(Message)]
      /\ \A e \in Dev : \A k \in DOMAIN t[e] : Origin(log, e, t[e][k])
  BY <1>0, TailIs DEF IInv, NumberInv
<1>3. down' = t \/ (m.type = "init" /\ n \in Message /\ down' = PassDown(d, t, n))
  BY <1>1 DEF Act, AfterAct, Message, Address
<1>4. m.type = "init" => Origin(log, d + 1, n)
  <2>1. SUFFICES ASSUME m.type = "init" PROVE Origin(log, d + 1, n)
    OBVIOUS
  <2>2. m.id \in DOMAIN log /\ m.addr = log[m.id].addr + d - 1
    BY <1>1, <2>1 DEF Origin
  <2>3. log[m.id].addr \in Int /\ d \in Int
    <3>1. log \in Seq(Requests) /\ d \in Int
      BY DEF IInv, TypeOK, Dev
    <3>2. log[m.id] \in Request
      <4> HIDE DEF m
      <4> QED BY <2>2, <3>1
    <3> QED BY <3>1, <3>2 DEF Request, Address
  <2>4. n.id = m.id /\ n.addr = m.addr + 1
    BY <1>1 DEF Message
  <2> QED BY <2>2, <2>3, <2>4 DEF Origin
<1>5. \A e \in Dev : \A k \in DOMAIN down'[e] : Origin(log, e, down'[e][k])
  <2>1. CASE down' = t
    BY <1>2, <2>1
  <2>2. CASE m.type = "init" /\ n \in Message /\ down' = PassDown(d, t, n)
    <3> HIDE DEF n, t, m
    <3>1. \A e \in Dev : \A k \in DOMAIN down'[e] :
            \/ k \in DOMAIN t[e] /\ down'[e][k] = t[e][k]
            \/ e = d + 1 /\ down'[e][k] = n
      BY <1>2, <2>2, PassDownIs
    <3> QED BY <1>2, <1>4, <2>2, <3>1
  <2> QED BY <1>3, <2>1, <2>2
<1>6. \A e \in Dev : Place(log, e, took'[e], addr'[e])
  <2>1. CASE Accepts(d, m) /\ m.type = "init"
    <3>1. took' = [took EXCEPT ![d] = m.id] /\ addr' = [addr EXCEPT ![d] = m.addr]
      BY <2>1 DEF Act, NewAddr
    <3>2. Place(log, d, m.id, m.addr)
      BY <1>1, <2>1 DEF Origin, Place
    <3> QED BY <3>1, <3>2 DEF IInv, TypeOK, NumberInv
  <2>2. CASE Accepts(d, m) /\ m.type = "reset"
    <3>1. took' = [took EXCEPT ![d] = 0] /\ addr' = [addr EXCEPT ![d] = 1]
      BY <2>2 DEF Act, NewAddr
    <3> QED BY <3>1 DEF IInv, TypeOK, NumberInv, Place
  <2>3. CASE ~(Accepts(d, m) /\ m.type \in {"init", "reset"})
    <3>1. took' = took /\ addr' = addr
      BY <2>3 DEF Act, NewAddr, IInv, TypeOK
    <3> QED BY <3>1 DEF IInv, NumberInv
  <2> QED BY <2>1, <2>2, <2>3
<1>7. flash_took' = flash_took /\ flash' = flash
  BY DEF Act, saved
<1> QED BY <1>0, <1>5, <1>6, <1>7 DEF IInv, NumberInv, Origin, Place

LEMMA FinishNumbers ==
  ASSUME IInv, NEW d \in Dev, Finish(d)
  PROVE  NumberInv'
<1>1. down \in [Dev -> Seq(Message)] /\ job[d].msg \in Message
  BY DEF IInv, TypeOK, Finish, Job
<1>2. \A e \in Dev : \A k \in DOMAIN down'[e] : Origin(log, e, down'[e][k])
  <2>1. CASE Forwards(d)
    <3>1. down' = PassDown(d, down, job[d].msg) /\ job[d].msg.type # "init"
      BY <2>1 DEF Finish, Forwards
    <3> DEFINE m == job[d].msg
               q == PassDown(d, down, m)
    <3>2. m \in Message /\ down' = q /\ m.type # "init"
      BY <1>1, <3>1
    <3> HIDE DEF m
    <3>3. \A e \in Dev : \A k \in DOMAIN q[e] :
            \/ k \in DOMAIN down[e] /\ q[e][k] = down[e][k]
            \/ q[e][k] = m
      BY <1>1, <3>2, PassDownIs
    <3> HIDE DEF q
    <3> QED BY <3>2, <3>3 DEF IInv, NumberInv, Origin
  <2>2. CASE ~Forwards(d)
    BY <2>2 DEF Finish, IInv, NumberInv
  <2> QED BY <2>1, <2>2
<1> QED BY <1>2 DEF IInv, NumberInv, Finish, devices, Origin, Place

LEMMA OwnNumbers ==
  ASSUME IInv, NEW d \in Dev, Own(d)
  PROVE  NumberInv'
<1>1. CASE SequenceEnds(d)
  BY <1>1 DEF IInv, NumberInv, Origin, Place, SequenceEnds, lines
<1>2. CASE Save(d)
  BY <1>2 DEF IInv, TypeOK, NumberInv, Origin, Place, Save, devices, lines
<1>3. CASE LocalPower(d)
  BY <1>3 DEF IInv, NumberInv, Origin, Place, LocalPower, saved, lines
<1>4. CASE Cut(d)
  <2>1. \A e \in Dev : \A k \in DOMAIN down'[e] : Origin(log, e, down'[e][k])
    BY <1>4 DEF IInv, TypeOK, NumberInv, Cut
  <2>2. \A e \in Dev : Place(log, e, took'[e], addr'[e])
    BY <1>4 DEF IInv, TypeOK, NumberInv, Cut
  <2> QED BY <1>4, <2>1, <2>2 DEF IInv, NumberInv, Cut, Origin, Place
<1> QED BY <1>1, <1>2, <1>3, <1>4 DEF Own

LEMMA SendNumbers ==
  ASSUME IInv, NEW r \in Requests, Send(r)
  PROVE  NumberInv'
<1> DEFINE m == [id |-> Len(log) + 1, type |-> r.type, addr |-> r.addr, good |-> r.good]
<1>1. /\ log \in Seq(Requests) /\ log' = Append(log, r) /\ r \in Request
      /\ Len(log) + 1 \in DOMAIN log' /\ log'[Len(log) + 1] = r
      /\ \A i \in DOMAIN log : i \in DOMAIN log' /\ log'[i] = log[i]
  BY DEF IInv, TypeOK, Send
<1>2. m.addr = log'[m.id].addr + 1 - 1 /\ m.id \in DOMAIN log'
  BY <1>1 DEF Request, Address
<1>3. 1 \in Dev /\ down' = [down EXCEPT ![1] = Append(@, m)] /\ down \in [Dev -> Seq(Message)]
  BY DEF Dev, Send, IInv, TypeOK
<1>4. ASSUME NEW e \in Dev, NEW k \in DOMAIN down'[e]
      PROVE  \/ k \in DOMAIN down[e] /\ down'[e][k] = down[e][k]
             \/ e = 1 /\ down'[e][k] = m
  <2>1. down[1] \in Seq(Message)
    BY <1>3
  <2>2. \A j \in DOMAIN Append(down[1], m) :
          \/ j \in DOMAIN down[1] /\ Append(down[1], m)[j] = down[1][j]
          \/ Append(down[1], m)[j] = m
    BY <2>1
  <2> HIDE DEF m
  <2> QED BY <1>3, <1>4, <2>2
<1>5. \A e \in Dev : \A k \in DOMAIN down'[e] : Origin(log', e, down'[e][k])
  <2> HIDE DEF m
  <2> QED BY <1>1, <1>2, <1>4 DEF IInv, NumberInv, Origin
<1>6. UNCHANGED <<took, addr, flash_took, flash>>
  BY DEF Send, devices, saved
<1> QED BY <1>1, <1>5, <1>6 DEF IInv, NumberInv, Place

LEMMA InitNumbers == Init => NumberInv
BY DEF Init, NumberInv, Place

LEMMA NextNumbers ==
  ASSUME IInv, [Next]_vars
  PROVE  NumberInv'
<1>1. CASE UNCHANGED vars
  BY <1>1 DEF IInv, NumberInv, Origin, Place, vars, devices, saved, lines
<1>2. ASSUME NEW d \in Dev, Relay(d) PROVE NumberInv'
  BY <1>2 DEF IInv, NumberInv, Origin, Place, Relay, devices, saved
<1>3. CASE Next
  BY <1>2, <1>3, ActNumbers, FinishNumbers, OwnNumbers, SendNumbers DEF Next, Running
<1> QED BY <1>1, <1>3

\* Two places filled by one INIT are apart by the distance of the devices.
LEMMA PlacesDiffer == IInv => Numbered
<1> SUFFICES ASSUME IInv, NEW c \in Dev, NEW d \in Dev, took[c] # 0, took[c] = took[d]
             PROVE  addr[d] - addr[c] = d - c
  BY DEF Numbered
<1>1. /\ took[c] \in DOMAIN log
      /\ addr[c] = log[took[c]].addr + c - 1 /\ addr[d] = log[took[c]].addr + d - 1
  BY DEF IInv, NumberInv, Place
<1>2. log[took[c]].addr \in Int
  BY <1>1 DEF IInv, TypeOK, Request, Address
<1> QED BY <1>1, <1>2 DEF Dev

\* In a chain of any length, devices numbered by the same INIT have addresses
\* as far apart as they are, whatever refused it, was reset, was renumbered
\* or lost power meanwhile: an INIT is forwarded with the next address even
\* by a device that does not take its own.
THEOREM ChainNumbered == Spec => []Numbered
<1>1. Init => IInv
  BY InitTypes, InitNumbers DEF IInv
<1>2. IInv /\ [Next]_vars => IInv'
  BY NextTypes, NextNumbers DEF IInv
<1> QED BY <1>1, <1>2, PlacesDiffer, PTL DEF Spec

-----------------------------------------------------------------------------
(* Saving *)

\* An unsaved address is asked to be saved, or comes from the instruction at
\* hand, which is good and will be answered.
SaveInv ==
  \A d \in Dev : addr[d] # flash[d] =>
    saving[d] \/ (at[d] = "acted" /\ job[d].ok /\ Answers(d))

LEMMA ActSaves ==
  ASSUME TypeOK, SaveInv, NEW d \in Dev, Act(d)
  PROVE  SaveInv'
<1> DEFINE m  == Head(down[d])
           ok == Accepts(d, m)
<1>1. UNCHANGED <<saving, flash>> /\ at[d] = "scan"
  BY DEF Act, saved
<1>2. ASSUME NEW e \in Dev, e # d
      PROVE  UNCHANGED <<addr[e], at[e], job[e]>>
  BY <1>2 DEF Act, TypeOK
<1>3. addr'[d] # addr[d] => at'[d] = "acted" /\ job'[d].ok /\ Answers(d)'
  <2>1. /\ at'[d] = "acted" /\ job'[d].ok = ok /\ job'[d].msg = m /\ job'[d].last = addr[d]
        /\ addr'[d] = IF ok THEN NewAddr(d, m) ELSE addr[d]
    BY DEF Act, TypeOK
  <2>2. ok /\ m.type = "init" => NewAddr(d, m) = m.addr
    BY DEF NewAddr
  <2>3. ok /\ m.type # "init" => m.addr \in {addr[d], Broadcast}
    BY DEF Accepts
  <2> HIDE DEF m, ok
  <2> QED BY <2>1, <2>2, <2>3 DEF Answers
<1>4. addr[d] # flash[d] => saving[d]
  BY <1>1 DEF SaveInv
<1> QED BY <1>1, <1>2, <1>3, <1>4 DEF SaveInv, Answers

LEMMA NextSaves ==
  ASSUME TypeOK, SaveInv, [Next]_vars
  PROVE  SaveInv'
<1>1. CASE UNCHANGED vars
  BY <1>1 DEF SaveInv, Answers, vars, devices, saved, work
<1>2. ASSUME NEW d \in Dev, Finish(d) PROVE SaveInv'
  <2>1. addr' = addr /\ flash' = flash
    BY <1>2 DEF Finish, devices
  <2>2. \A e \in Dev : e # d => saving'[e] = saving[e] /\ at'[e] = at[e] /\ job'[e] = job[e]
    BY <1>2 DEF TypeOK, Finish
  <2>3. \A e \in Dev : e # d => (Answers(e)' <=> Answers(e))
    BY <2>1, <2>2 DEF Answers
  <2>4. saving[d] => saving'[d]
    BY <1>2 DEF TypeOK, Finish
  <2>5. Answers(d) /\ job[d].ok => saving'[d]
    BY <1>2 DEF TypeOK, Finish
  <2> QED BY <2>1, <2>2, <2>3, <2>4, <2>5 DEF SaveInv
<1>3. ASSUME NEW d \in Dev, Relay(d) PROVE SaveInv'
  BY <1>3 DEF SaveInv, Answers, Relay, devices, saved, work
<1>4. ASSUME NEW d \in Dev, SequenceEnds(d) PROVE SaveInv'
  BY <1>4 DEF TypeOK, SaveInv, Answers, SequenceEnds, work
<1>5. ASSUME NEW d \in Dev, Save(d) PROVE SaveInv'
  BY <1>5 DEF TypeOK, SaveInv, Answers, Save, devices, work
<1>6. ASSUME NEW d \in Dev, LocalPower(d) PROVE SaveInv'
  BY <1>6 DEF SaveInv, Answers, LocalPower, saved, work
<1>7. ASSUME NEW d \in Dev, Cut(d) PROVE SaveInv'
  BY <1>7 DEF TypeOK, SaveInv, Answers, Cut
<1>8. ASSUME NEW r \in Requests, Send(r) PROVE SaveInv'
  BY <1>8 DEF SaveInv, Answers, Send, devices, saved, work
<1>9. CASE Next
  BY <1>2, <1>3, <1>4, <1>5, <1>6, <1>7, <1>8, <1>9, ActSaves DEF Next, Running, Own
<1> QED BY <1>1, <1>9

\* A device whose address differs from the one in flash has the message that
\* saves it in msg_task's queue, or is about to post it: a reset is answered,
\* and so saved, though the address it was sent to no longer matches.
THEOREM AddressSaved == Spec => []AddressIsSaved
<1>1. Init => SaveInv
  BY DEF Init, SaveInv
<1>2. TypeOK /\ SaveInv /\ [Next]_vars => SaveInv'
  BY NextSaves
<1>3. SaveInv => AddressIsSaved
  BY DEF SaveInv, AddressIsSaved
<1> QED BY <1>1, <1>2, <1>3, CascadeTypes, PTL DEF Spec

-----------------------------------------------------------------------------
(* Where an instruction is *)

\* A message is what the host sent under its id; an INIT has changed address.
Same(l, m) ==
  /\ m.id \in DOMAIN l /\ m.type = l[m.id].type /\ m.good = l[m.id].good
  /\ m.type # "init" => m.addr = l[m.id].addr

\* Instruction i waits in buffer s; the buffer has each instruction once.
Waits(s, i) == \E k \in DOMAIN s : s[k].id = i
Distinct(s) == \A j, k \in DOMAIN s : s[j].id = s[k].id => j = k

\* Device d is at instruction i, and will pass it on at the end if at all.
Held(d, i) == at[d] = "acted" /\ job[d].id = i /\ job[d].msg.type # "init"

LogInv ==
  /\ DOMAIN log \subseteq Id
  /\ \A d \in Dev : \A k \in DOMAIN down[d] : Same(log, down[d][k])
  /\ \A d \in Dev : at[d] = "acted" => Same(log, job[d].msg) /\ job[d].id = job[d].msg.id
  /\ \A d \in Dev, i \in Id : result[d][i] # "none" => i \in DOMAIN log

\* An instruction is at one place at most, and no device from there on has
\* had it.
TokenInv ==
  /\ \A d \in Dev : Distinct(down[d])
  /\ \A c, d \in Dev, i \in Id :
       /\ Waits(down[c], i) /\ Waits(down[d], i) => c = d
       /\ Held(c, i) /\ Held(d, i) => c = d
       /\ Waits(down[c], i) => ~Held(d, i)
       /\ Waits(down[c], i) /\ c <= d => result[d][i] = "none"
       /\ Held(c, i) /\ c < d => result[d][i] = "none"

TInv == TypeOK /\ LogInv /\ TokenInv

\* Taking the first message takes its instruction from the buffer.
LEMMA TailWaits ==
  ASSUME NEW S, NEW s \in Seq(S), s # << >>, Distinct(s)
  PROVE  /\ Distinct(Tail(s)) /\ Waits(s, Head(s).id)
         /\ \A i : Waits(Tail(s), i) <=> Waits(s, i) /\ i # Head(s).id
<1>1. /\ Len(s) \in Nat /\ Len(s) > 0 /\ DOMAIN s = 1 .. Len(s)
      /\ DOMAIN Tail(s) = 1 .. Len(s) - 1 /\ Head(s) = s[1]
      /\ \A k \in 1 .. Len(s) - 1 : Tail(s)[k] = s[k + 1]
  OBVIOUS
<1>2. Distinct(Tail(s))
  <2> SUFFICES ASSUME NEW j \in DOMAIN Tail(s), NEW k \in DOMAIN Tail(s), Tail(s)[j].id = Tail(s)[k].id
               PROVE  j = k
    BY DEF Distinct
  <2>1. j + 1 \in DOMAIN s /\ k + 1 \in DOMAIN s /\ s[j + 1].id = s[k + 1].id
    BY <1>1
  <2>2. j + 1 = k + 1
    BY <2>1 DEF Distinct
  <2> QED BY <1>1, <2>2
<1>3. Waits(s, Head(s).id)
  BY <1>1 DEF Waits
<1>4. ASSUME NEW i, Waits(Tail(s), i) PROVE Waits(s, i) /\ i # Head(s).id
  <2>1. PICK k \in DOMAIN Tail(s) : Tail(s)[k].id = i
    BY <1>4 DEF Waits
  <2>2. k + 1 \in DOMAIN s /\ s[k + 1].id = i /\ 1 \in DOMAIN s /\ k + 1 # 1
    BY <1>1, <2>1
  <2> QED BY <1>1, <2>2 DEF Waits, Distinct
<1>5. ASSUME NEW i, Waits(s, i), i # Head(s).id PROVE Waits(Tail(s), i)
  <2>1. PICK k \in DOMAIN s : s[k].id = i
    BY <1>5 DEF Waits
  <2>2. k # 1
    BY <1>1, <1>5, <2>1
  <2>3. k - 1 \in DOMAIN Tail(s) /\ (k - 1) + 1 = k
    BY <1>1, <2>2
  <2>4. Tail(s)[k - 1] = s[k]
    BY <1>1, <2>3
  <2> QED BY <2>1, <2>3, <2>4 DEF Waits
<1> QED BY <1>2, <1>3, <1>4, <1>5

\* A message put at the end adds its instruction.
LEMMA AppendWaits ==
  ASSUME NEW S, NEW s \in Seq(S), NEW m \in S
  PROVE  /\ \A i : Waits(Append(s, m), i) <=> Waits(s, i) \/ i = m.id
         /\ Distinct(s) /\ ~Waits(s, m.id) => Distinct(Append(s, m))
<1>1. /\ Len(s) \in Nat /\ DOMAIN s = 1 .. Len(s)
      /\ DOMAIN Append(s, m) = 1 .. Len(s) + 1 /\ Append(s, m)[Len(s) + 1] = m
      /\ \A k \in 1 .. Len(s) : Append(s, m)[k] = s[k]
  OBVIOUS
<1>2. ASSUME NEW i, Waits(Append(s, m), i) PROVE Waits(s, i) \/ i = m.id
  <2>1. PICK k \in 1 .. Len(s) + 1 : Append(s, m)[k].id = i
    BY <1>1, <1>2 DEF Waits
  <2>2. CASE k = Len(s) + 1
    BY <1>1, <2>1, <2>2
  <2>3. CASE k # Len(s) + 1
    <3>1. k \in 1 .. Len(s)
      BY <1>1, <2>3
    <3> QED BY <1>1, <2>1, <3>1 DEF Waits
  <2> QED BY <2>2, <2>3
<1>3. ASSUME NEW i, Waits(s, i) \/ i = m.id PROVE Waits(Append(s, m), i)
  <2>1. CASE Waits(s, i)
    <3>1. PICK k \in 1 .. Len(s) : s[k].id = i
      BY <1>1, <2>1 DEF Waits
    <3>2. k \in 1 .. Len(s) + 1
      BY <1>1
    <3> QED BY <1>1, <3>1, <3>2 DEF Waits
  <2>2. CASE i = m.id
    <3>1. Len(s) + 1 \in 1 .. Len(s) + 1
      BY <1>1
    <3> QED BY <1>1, <2>2, <3>1 DEF Waits
  <2> QED BY <1>3, <2>1, <2>2
<1>4. ASSUME Distinct(s), ~Waits(s, m.id) PROVE Distinct(Append(s, m))
  <2> SUFFICES ASSUME NEW j \in 1 .. Len(s) + 1, NEW k \in 1 .. Len(s) + 1,
                      Append(s, m)[j].id = Append(s, m)[k].id
               PROVE  j = k
    BY <1>1 DEF Distinct
  <2>1. \A n \in 1 .. Len(s) : Append(s, m)[n].id = s[n].id /\ s[n].id # m.id
    BY <1>1, <1>4 DEF Waits
  <2>2. j \in 1 .. Len(s) \/ j = Len(s) + 1
    BY <1>1
  <2>3. k \in 1 .. Len(s) \/ k = Len(s) + 1
    BY <1>1
  <2> QED BY <1>1, <1>4, <2>1, <2>2, <2>3 DEF Distinct
<1> QED BY <1>2, <1>3, <1>4

\* What waits where after a message is passed on.
LEMMA PassDownWaits ==
  ASSUME NEW S, NEW q \in [Dev -> Seq(S)], NEW d \in Dev, NEW m \in S
  PROVE  /\ \A e \in Dev : \A i :
              Waits(PassDown(d, q, m)[e], i) <=> Waits(q[e], i) \/ (e = d + 1 /\ i = m.id)
         /\ (\A e \in Dev : Distinct(q[e]) /\ (e = d + 1 => ~Waits(q[e], m.id)))
              => \A e \in Dev : Distinct(PassDown(d, q, m)[e])
<1>1. CASE d = M
  <2>1. \A e \in Dev : e # d + 1
    BY <1>1 DEF Dev
  <2> QED BY <1>1, <2>1 DEF PassDown
<1>2. CASE d # M
  <2>1. d + 1 \in Dev /\ PassDown(d, q, m) = [q EXCEPT ![d + 1] = Append(@, m)]
    BY <1>2 DEF PassDown, Dev
  <2>2. PassDown(d, q, m)[d + 1] = Append(q[d + 1], m) /\ q[d + 1] \in Seq(S)
        /\ \A e \in Dev : e # d + 1 => PassDown(d, q, m)[e] = q[e]
    BY <2>1
  <2>3. /\ \A i : Waits(Append(q[d + 1], m), i) <=> Waits(q[d + 1], i) \/ i = m.id
        /\ Distinct(q[d + 1]) /\ ~Waits(q[d + 1], m.id) => Distinct(Append(q[d + 1], m))
    BY <2>2, AppendWaits
  <2> QED BY <2>1, <2>2, <2>3
<1> QED BY <1>1, <1>2

\* An INIT that goes on does so with the next address.
Goes(m)     == m.type = "init" /\ m.good /\ m.addr # Broadcast /\ m.addr + 1 # Broadcast
NextInit(m) == [m EXCEPT !.addr = @ + 1]

\* What acting on message m changes of where instructions are.
LEMMA ActMoves ==
  ASSUME TInv, NEW d \in Dev, Act(d), NEW m, m = Head(down[d])
  PROVE  /\ m \in Message /\ Same(log, m) /\ Waits(down[d], m.id)
         /\ down' \in [Dev -> Seq(Message)]
         /\ \A e \in Dev : \A k \in DOMAIN down'[e] : Same(log, down'[e][k])
         /\ \A e \in Dev : Distinct(down'[e])
         /\ \A e \in Dev, i \in Id : Waits(down'[e], i) <=>
              \/ Waits(down[e], i) /\ ~(e = d /\ i = m.id)
              \/ e = d + 1 /\ i = m.id /\ Goes(m)
<1> DEFINE t == [down EXCEPT ![d] = Tail(@)]
           n == NextInit(m)
<1>1. down \in [Dev -> Seq(Message)] /\ down[d] \in Seq(Message) /\ down[d] # << >>
  BY DEF TInv, TypeOK, Act
<1>2. /\ m \in Message /\ Same(log, m)
      /\ t \in [Dev -> Seq(Message)]
      /\ \A e \in Dev : \A k \in DOMAIN t[e] : Same(log, t[e][k])
  BY <1>1, TailIs DEF TInv, LogInv
<1>3. t[d] = Tail(down[d]) /\ \A e \in Dev : e # d => t[e] = down[e]
  BY <1>1
<1>4. /\ Waits(down[d], m.id) /\ Distinct(Tail(down[d]))
      /\ \A i : Waits(Tail(down[d]), i) <=> Waits(down[d], i) /\ i # m.id
  BY <1>1, TailWaits DEF TInv, TokenInv
<1>5. \A e \in Dev, i \in Id : Waits(t[e], i) <=> Waits(down[e], i) /\ ~(e = d /\ i = m.id)
  <2> HIDE DEF t
  <2> QED BY <1>3, <1>4
<1>6. \A e \in Dev : Distinct(t[e]) /\ ~Waits(t[e], m.id)
  <2>1. \A e \in Dev : Distinct(t[e])
    <3> HIDE DEF t
    <3> QED BY <1>3, <1>4 DEF TInv, TokenInv
  <2>2. m.id \in Id
    BY <1>2 DEF Message
  <2>3. \A e \in Dev : Waits(down[e], m.id) => e = d
    BY <1>4, <2>2 DEF TInv, TokenInv
  <2> HIDE DEF t
  <2> QED BY <1>5, <2>1, <2>2, <2>3
<1>7. CASE Goes(m)
  <2>1. down' = PassDown(d, t, n)
    BY <1>7 DEF Act, AfterAct, Goes, NextInit
  <2>2. n \in Message /\ n.id = m.id /\ n.type = m.type /\ n.good = m.good
    <3>1. m.addr \in 0 .. Broadcast /\ m.addr + 1 \in Address
      BY <1>2, <1>7 DEF Message, Address, Goes
    <3>2. n = [id |-> m.id, type |-> m.type, addr |-> m.addr + 1, good |-> m.good]
      BY <1>2 DEF Message, NextInit
    <3> HIDE DEF n
    <3> QED BY <1>2, <3>1, <3>2 DEF Message
  <2>3. Same(log, n)
    BY <1>2, <1>7, <2>2 DEF Same, Goes
  <2> HIDE DEF t, n
  <2>4. /\ down' \in [Dev -> Seq(Message)]
        /\ \A e \in Dev : \A k \in DOMAIN down'[e] :
             \/ k \in DOMAIN t[e] /\ down'[e][k] = t[e][k]
             \/ down'[e][k] = n
    BY <1>2, <2>1, <2>2, PassDownIs
  <2>5. \A e \in Dev : \A k \in DOMAIN down'[e] : Same(log, down'[e][k])
    BY <1>2, <2>3, <2>4
  <2>6. /\ \A e \in Dev : \A i :
             Waits(down'[e], i) <=> Waits(t[e], i) \/ (e = d + 1 /\ i = m.id)
        /\ (\A e \in Dev : Distinct(t[e]) /\ (e = d + 1 => ~Waits(t[e], m.id)))
             => \A e \in Dev : Distinct(down'[e])
    <3>1. /\ \A e \in Dev : \A i :
               Waits(PassDown(d, t, n)[e], i) <=> Waits(t[e], i) \/ (e = d + 1 /\ i = n.id)
          /\ (\A e \in Dev : Distinct(t[e]) /\ (e = d + 1 => ~Waits(t[e], n.id)))
               => \A e \in Dev : Distinct(PassDown(d, t, n)[e])
      BY <1>2, <2>2, PassDownWaits
    <3> QED BY <2>1, <2>2, <3>1
  <2>7. \A e \in Dev : Distinct(down'[e])
    BY <1>6, <2>6
  <2> QED BY <1>2, <1>4, <1>5, <1>7, <2>4, <2>5, <2>6, <2>7
<1>8. CASE ~Goes(m)
  <2>1. down' = t
    BY <1>8 DEF Act, AfterAct, Goes
  <2> HIDE DEF t
  <2> QED BY <1>2, <1>4, <1>5, <1>6, <1>8, <2>1
<1> QED BY <1>7, <1>8

\* Device d, and no other, is then at m.
LEMMA ActHolds ==
  ASSUME TInv, NEW d \in Dev, Act(d), NEW m, m = Head(down[d])
  PROVE  /\ log' = log /\ cuts' = cuts
         /\ at' = [at EXCEPT ![d] = "acted"]
         /\ job' = [job EXCEPT ![d] = [id |-> m.id, msg |-> m, ok |-> Accepts(d, m), last |-> addr[d]]]
         /\ result' = [result EXCEPT ![d][m.id] = IF Accepts(d, m) THEN "ok" ELSE "refused"]
         /\ \A e \in Dev : \A i : Held(e, i)' <=>
              IF e = d THEN i = m.id /\ m.type # "init" ELSE Held(e, i)
<1>1. /\ log' = log /\ cuts' = cuts
      /\ at' = [at EXCEPT ![d] = "acted"]
      /\ job' = [job EXCEPT ![d] = [id |-> m.id, msg |-> m, ok |-> Accepts(d, m), last |-> addr[d]]]
      /\ result' = [result EXCEPT ![d][m.id] = IF Accepts(d, m) THEN "ok" ELSE "refused"]
  BY DEF Act, counts
<1>2. at \in [Dev -> {"scan", "acted"}] /\ job \in [Dev -> Job \cup {NoJob}]
  BY DEF TInv, TypeOK
<1>3. at'[d] = "acted" /\ job'[d].id = m.id /\ job'[d].msg = m
      /\ \A e \in Dev : e # d => at'[e] = at[e] /\ job'[e] = job[e]
  BY <1>1, <1>2
<1>4. \A e \in Dev : \A i : Held(e, i)' <=> at'[e] = "acted" /\ job'[e].id = i /\ job'[e].msg.type # "init"
  BY DEF Held
<1>5. \A e \in Dev : \A i : Held(e, i)' <=> IF e = d THEN i = m.id /\ m.type # "init" ELSE Held(e, i)
  BY <1>3, <1>4 DEF Held
<1> QED BY <1>1, <1>5

\* What the end of an instruction changes of where instructions are.
LEMMA FinishMoves ==
  ASSUME TInv, NEW d \in Dev, Finish(d)
  PROVE  /\ Same(log, job[d].msg) /\ job[d].id = job[d].msg.id /\ job[d].id \in Id /\ job[d] \in Job
         /\ Forwards(d) => Held(d, job[d].id)
         /\ log' = log /\ result' = result /\ cuts' = cuts /\ addr' = addr
         /\ \A e \in Dev : \A k \in DOMAIN down'[e] : Same(log, down'[e][k])
         /\ \A e \in Dev : Distinct(down'[e])
         /\ \A e \in Dev, i \in Id : Waits(down'[e], i) <=>
              Waits(down[e], i) \/ (e = d + 1 /\ i = job[d].id /\ Forwards(d))
         /\ \A e \in Dev : \A i : Held(e, i)' <=> e # d /\ Held(e, i)
         /\ \A e \in Dev : at'[e] = "acted" => at[e] = "acted" /\ job'[e] = job[e] /\ e # d
<1>1. /\ job[d] \in Job /\ at[d] = "acted"
      /\ Same(log, job[d].msg) /\ job[d].id = job[d].msg.id
  BY DEF TInv, TypeOK, LogInv, Finish
<1>2. job[d].id \in Id /\ job[d].msg \in Message
  BY <1>1 DEF Job
<1>3. Forwards(d) => Held(d, job[d].id)
  BY <1>1 DEF Forwards, Held
<1>4. log' = log /\ result' = result /\ cuts' = cuts /\ addr' = addr
  BY DEF Finish, counts, devices
<1>5. at \in [Dev -> {"scan", "acted"}] /\ job \in [Dev -> Job \cup {NoJob}]
      /\ down \in [Dev -> Seq(Message)]
  BY DEF TInv, TypeOK
<1>6. at'[d] = "scan" /\ \A e \in Dev : e # d => at'[e] = at[e] /\ job'[e] = job[e]
  BY <1>5 DEF Finish
<1>7. \A e \in Dev : \A i : Held(e, i)' <=> at'[e] = "acted" /\ job'[e].id = i /\ job'[e].msg.type # "init"
  BY DEF Held
<1>8. \A e \in Dev : \A i : Held(e, i)' <=> e # d /\ Held(e, i)
  BY <1>6, <1>7 DEF Held
<1>9. \A e \in Dev : at'[e] = "acted" => at[e] = "acted" /\ job'[e] = job[e] /\ e # d
  BY <1>6
<1>10. /\ \A e \in Dev : \A k \in DOMAIN down'[e] : Same(log, down'[e][k])
       /\ \A e \in Dev : Distinct(down'[e])
       /\ \A e \in Dev, i \in Id : Waits(down'[e], i) <=>
            Waits(down[e], i) \/ (e = d + 1 /\ i = job[d].id /\ Forwards(d))
  <2>1. CASE Forwards(d)
    <3>1. down' = PassDown(d, down, job[d].msg)
      BY <2>1 DEF Finish
    <3>2. \A e \in Dev : ~Waits(down[e], job[d].id)
      BY <1>2, <1>3, <2>1 DEF TInv, TokenInv
    <3>3. \A e \in Dev : Distinct(down[e]) /\ (e = d + 1 => ~Waits(down[e], job[d].msg.id))
      BY <1>1, <3>2 DEF TInv, TokenInv
    <3> DEFINE m == job[d].msg
               q == PassDown(d, down, m)
    <3>4. /\ \A e \in Dev : \A i : Waits(q[e], i) <=> Waits(down[e], i) \/ (e = d + 1 /\ i = m.id)
          /\ \A e \in Dev : Distinct(q[e])
      <4>1. m \in Message /\ \A e \in Dev : Distinct(down[e]) /\ (e = d + 1 => ~Waits(down[e], m.id))
        BY <1>2, <3>3
      <4> HIDE DEF m
      <4>2. /\ \A e \in Dev : \A i :
                 Waits(PassDown(d, down, m)[e], i) <=> Waits(down[e], i) \/ (e = d + 1 /\ i = m.id)
            /\ (\A e \in Dev : Distinct(down[e]) /\ (e = d + 1 => ~Waits(down[e], m.id)))
                 => \A e \in Dev : Distinct(PassDown(d, down, m)[e])
        BY <1>5, <4>1, PassDownWaits
      <4> QED BY <4>1, <4>2
    <3>5. \A e \in Dev : \A k \in DOMAIN q[e] :
             \/ k \in DOMAIN down[e] /\ q[e][k] = down[e][k]
             \/ q[e][k] = m
      <4>1. m \in Message
        BY <1>2
      <4> HIDE DEF m
      <4> QED BY <1>5, <4>1, PassDownIs
    <3> HIDE DEF q
    <3>6. \A e \in Dev : \A k \in DOMAIN down'[e] : Same(log, down'[e][k])
      <4>1. Same(log, m) /\ down' = q
        BY <1>1, <3>1 DEF q
      <4> HIDE DEF m
      <4>2. \A e \in Dev : \A k \in DOMAIN q[e] : Same(log, q[e][k])
        BY <3>5, <4>1 DEF TInv, LogInv
      <4> QED BY <4>1, <4>2
    <3> QED BY <1>1, <2>1, <3>1, <3>4, <3>6 DEF q
  <2>2. CASE ~Forwards(d)
    <3>1. down' = down
      BY <2>2 DEF Finish
    <3> QED BY <2>2, <3>1 DEF TInv, LogInv, TokenInv
  <2> QED BY <2>1, <2>2
<1> QED BY <1>1, <1>2, <1>3, <1>4, <1>8, <1>9, <1>10

\* What sending r changes of where instructions are.
LEMMA SendMoves ==
  ASSUME TInv, NEW r \in Requests, Send(r), NEW n, n = Len(log) + 1
  PROVE  /\ n \in Id /\ DOMAIN log' = 1 .. n /\ DOMAIN log' \subseteq Id
         /\ n \notin DOMAIN log /\ log'[n] = r /\ r \in Request
         /\ \A i \in DOMAIN log : i \in DOMAIN log' /\ log'[i] = log[i]
         /\ UNCHANGED <<devices, saved, work, up, heard, counts>>
         /\ \A e \in Dev : \A k \in DOMAIN down'[e] : Same(log', down'[e][k])
         /\ \A e \in Dev : Distinct(down'[e])
         /\ \A e \in Dev, i \in Id : Waits(down'[e], i) <=> Waits(down[e], i) \/ (e = 1 /\ i = n)
<1> DEFINE m == [id |-> n, type |-> r.type, addr |-> r.addr, good |-> r.good]
<1>1. /\ log \in Seq(Requests) /\ Len(log) \in Nat /\ Len(log) < MaxRequests
      /\ log' = Append(log, r) /\ r \in Requests
  BY DEF TInv, TypeOK, Send
<1>2. /\ n \in Id /\ DOMAIN log' = 1 .. n /\ DOMAIN log' \subseteq Id
      /\ n \notin DOMAIN log /\ log'[n] = r /\ r \in Request
      /\ \A i \in DOMAIN log : i \in DOMAIN log' /\ log'[i] = log[i]
  BY <1>1 DEF Id
<1>3. UNCHANGED <<devices, saved, work, up, heard, counts>>
  BY DEF Send
<1>4. m \in Message /\ m.id = n /\ Same(log', m)
  <2>1. m \in Message
    BY <1>2 DEF Request, Message
  <2>2. n \in DOMAIN log'
    BY <1>2, <1>1
  <2> QED BY <1>2, <2>1, <2>2 DEF Same
<1>5. 1 \in Dev /\ down \in [Dev -> Seq(Message)] /\ down' = [down EXCEPT ![1] = Append(@, m)]
  BY DEF Dev, Send, TInv, TypeOK
<1> HIDE DEF m
<1>6. down[1] \in Seq(Message) /\ down'[1] = Append(down[1], m)
      /\ \A e \in Dev : e # 1 => down'[e] = down[e]
  BY <1>5
<1>7. \A e \in Dev : ~Waits(down[e], n)
  BY <1>2 DEF TInv, LogInv, Same, Waits
<1>8. /\ \A i : Waits(down'[1], i) <=> Waits(down[1], i) \/ i = n
      /\ Distinct(down'[1])
  BY <1>4, <1>5, <1>6, <1>7, AppendWaits DEF TInv, TokenInv
<1>9. \A e \in Dev : \A k \in DOMAIN down'[e] :
        \/ k \in DOMAIN down[e] /\ down'[e][k] = down[e][k]
        \/ down'[e][k] = m
  <2>1. \A k \in DOMAIN Append(down[1], m) :
          \/ k \in DOMAIN down[1] /\ Append(down[1], m)[k] = down[1][k]
          \/ Append(down[1], m)[k] = m
    BY <1>6
  <2> QED BY <1>6, <2>1
<1>10. \A e \in Dev : \A k \in DOMAIN down[e] : Same(log', down[e][k])
  BY <1>2 DEF TInv, LogInv, Same
<1>11. \A e \in Dev : \A k \in DOMAIN down'[e] : Same(log', down'[e][k])
  BY <1>4, <1>9, <1>10
<1>12. \A e \in Dev : Distinct(down'[e])
  BY <1>6, <1>8 DEF TInv, TokenInv
<1>13. \A e \in Dev, i \in Id : Waits(down'[e], i) <=> Waits(down[e], i) \/ (e = 1 /\ i = n)
  BY <1>6, <1>8
<1> QED BY <1>2, <1>3, <1>11, <1>12, <1>13

\* A power cut takes what the device had to do.
LEMMA CutMoves ==
  ASSUME TInv, NEW d \in Dev, Cut(d)
  PROVE  /\ log' = log /\ result' = result /\ heard' = heard /\ cuts' = cuts + 1
         /\ \A e \in Dev : \A k \in DOMAIN down'[e] : k \in DOMAIN down[e] /\ down'[e][k] = down[e][k]
         /\ \A e \in Dev : \A i : Waits(down'[e], i) => Waits(down[e], i)
         /\ \A e \in Dev : at'[e] = "acted" =>
              at[e] = "acted" /\ job'[e] = job[e] /\ addr'[e] = addr[e]
         /\ \A e \in Dev : \A i : Held(e, i)' => Held(e, i)
<1>1. /\ log' = log /\ result' = result /\ heard' = heard /\ cuts' = cuts + 1
  BY DEF Cut
<1>2. \A e \in Dev : \A k \in DOMAIN down'[e] : k \in DOMAIN down[e] /\ down'[e][k] = down[e][k]
  BY DEF Cut, TInv, TypeOK
<1>3. \A e \in Dev : at'[e] = "acted" =>
        at[e] = "acted" /\ job'[e] = job[e] /\ addr'[e] = addr[e]
  BY DEF Cut, TInv, TypeOK
<1>4. \A e \in Dev : \A i : Held(e, i)' <=> at'[e] = "acted" /\ job'[e].id = i /\ job'[e].msg.type # "init"
  BY DEF Held
<1>5. \A e \in Dev : \A i : Held(e, i)' => Held(e, i)
  BY <1>3, <1>4 DEF Held
<1>6. \A e \in Dev : \A i : Waits(down'[e], i) => Waits(down[e], i)
  BY <1>2 DEF Waits
<1> QED BY <1>1, <1>2, <1>3, <1>5, <1>6

\* The other steps leave instructions where they are.
LEMMA StillStays ==
  ASSUME NEW d \in Dev, Relay(d) \/ LocalPower(d) \/ SequenceEnds(d) \/ Save(d) \/ UNCHANGED vars
  PROVE  /\ UNCHANGED <<addr, down, at, job, log, result, cuts>>
         /\ \A e \in Dev : \A i : Held(e, i)' <=> Held(e, i)
<1>1. UNCHANGED <<addr, down, at, job, log, result, cuts>>
  BY DEF Relay, LocalPower, SequenceEnds, Save, devices, saved, work, lines, counts, vars
<1> QED BY <1>1 DEF Held

LEMMA ActTokens ==
  ASSUME TInv, NEW d \in Dev, Act(d)
  PROVE  LogInv' /\ TokenInv'
<1> DEFINE m == Head(down[d])
<1>1. /\ m \in Message /\ Same(log, m) /\ Waits(down[d], m.id)
      /\ \A e \in Dev : \A k \in DOMAIN down'[e] : Same(log, down'[e][k])
      /\ \A e \in Dev : Distinct(down'[e])
      /\ \A e \in Dev, i \in Id : Waits(down'[e], i) <=>
           \/ Waits(down[e], i) /\ ~(e = d /\ i = m.id)
           \/ e = d + 1 /\ i = m.id /\ Goes(m)
  BY ActMoves
<1>2. /\ log' = log /\ at' = [at EXCEPT ![d] = "acted"]
      /\ job' = [job EXCEPT ![d] = [id |-> m.id, msg |-> m, ok |-> Accepts(d, m), last |-> addr[d]]]
      /\ result' = [result EXCEPT ![d][m.id] = IF Accepts(d, m) THEN "ok" ELSE "refused"]
      /\ \A e \in Dev : \A i : Held(e, i)' <=>
              IF e = d THEN i = m.id /\ m.type # "init" ELSE Held(e, i)
  BY ActHolds
<1>3. m.id \in Id /\ m.id \in DOMAIN log
  BY <1>1 DEF Message, Same
<1> HIDE DEF m
<1>4. \A e \in Dev, i \in Id : ~(e = d /\ i = m.id) => result'[e][i] = result[e][i]
  BY <1>2, <1>3 DEF TInv, TypeOK
<1>5. LogInv'
  <2>1. \A e \in Dev : at'[e] = "acted" => Same(log, job'[e].msg) /\ job'[e].id = job'[e].msg.id
    BY <1>1, <1>2 DEF TInv, TypeOK, LogInv
  <2>2. \A e \in Dev, i \in Id : result'[e][i] # "none" => i \in DOMAIN log
    BY <1>3, <1>4 DEF TInv, LogInv
  <2> QED BY <1>1, <1>2, <2>1, <2>2 DEF LogInv, TInv
<1>6. ~Held(d, m.id) /\ \A e \in Dev : Waits(down[e], m.id) => e = d
  BY <1>1, <1>3 DEF TInv, TokenInv
<1>7. ASSUME NEW e \in Dev, NEW i \in Id, i = m.id
      PROVE  /\ Waits(down'[e], i) => e = d + 1 /\ m.type = "init"
             /\ Held(e, i)' => e = d /\ m.type # "init"
             /\ d < e => result'[e][i] = "none"
  <2>1. Waits(down'[e], i) => e = d + 1 /\ m.type = "init"
    BY <1>1, <1>6, <1>7 DEF Goes
  <2>2. ~Held(e, i) /\ (d <= e => result[e][i] = "none")
    BY <1>1, <1>7 DEF TInv, TokenInv
  <2>3. Held(e, i)' => e = d /\ m.type # "init"
    BY <1>2, <2>2
  <2>4. d < e => d <= e /\ e # d
    BY DEF Dev
  <2> QED BY <1>4, <2>1, <2>2, <2>3, <2>4
<1>8. \A e \in Dev, i \in Id : i # m.id =>
        /\ Waits(down'[e], i) <=> Waits(down[e], i)
        /\ Held(e, i)' => Held(e, i)
        /\ result'[e][i] = result[e][i]
  BY <1>1, <1>2, <1>4
<1>9. ASSUME NEW c \in Dev, NEW e \in Dev, NEW i \in Id
      PROVE  /\ Waits(down'[c], i) /\ Waits(down'[e], i) => c = e
             /\ Held(c, i)' /\ Held(e, i)' => c = e
             /\ Waits(down'[c], i) => ~Held(e, i)'
             /\ Waits(down'[c], i) /\ c <= e => result'[e][i] = "none"
             /\ Held(c, i)' /\ c < e => result'[e][i] = "none"
  <2>1. CASE i # m.id
    BY <1>8, <2>1 DEF TInv, TokenInv
  <2>2. CASE i = m.id
    <3>1. /\ Waits(down'[c], i) => c = d + 1 /\ m.type = "init"
          /\ Waits(down'[e], i) => e = d + 1
          /\ Held(c, i)' => c = d /\ m.type # "init"
          /\ Held(e, i)' => e = d /\ m.type # "init"
          /\ d < e => result'[e][i] = "none"
      BY <1>7, <2>2
    <3>2. d + 1 <= e => d < e
      BY DEF Dev
    <3> QED BY <2>2, <3>1, <3>2
  <2> QED BY <2>1, <2>2
<1>10. TokenInv'
  BY <1>1, <1>9 DEF TokenInv
<1> QED BY <1>5, <1>10

LEMMA FinishTokens ==
  ASSUME TInv, NEW d \in Dev, Finish(d)
  PROVE  LogInv' /\ TokenInv'
<1>1. /\ Same(log, job[d].msg) /\ job[d].id = job[d].msg.id /\ job[d].id \in Id
      /\ Forwards(d) => Held(d, job[d].id)
      /\ log' = log /\ result' = result
      /\ \A e \in Dev : \A k \in DOMAIN down'[e] : Same(log, down'[e][k])
      /\ \A e \in Dev : Distinct(down'[e])
      /\ \A e \in Dev, i \in Id : Waits(down'[e], i) <=>
           Waits(down[e], i) \/ (e = d + 1 /\ i = job[d].id /\ Forwards(d))
      /\ \A e \in Dev : \A i : Held(e, i)' <=> e # d /\ Held(e, i)
      /\ \A e \in Dev : at'[e] = "acted" => at[e] = "acted" /\ job'[e] = job[e] /\ e # d
  BY FinishMoves
<1>2. LogInv'
  BY <1>1 DEF TInv, LogInv
<1>3. ASSUME NEW c \in Dev, NEW e \in Dev, NEW i \in Id
      PROVE  /\ Waits(down'[c], i) /\ Waits(down'[e], i) => c = e
             /\ Held(c, i)' /\ Held(e, i)' => c = e
             /\ Waits(down'[c], i) => ~Held(e, i)'
             /\ Waits(down'[c], i) /\ c <= e => result'[e][i] = "none"
             /\ Held(c, i)' /\ c < e => result'[e][i] = "none"
  <2>1. CASE i = job[d].id /\ Forwards(d)
    <3>1. Held(d, i)
      BY <1>1, <2>1
    <3>2. \A f \in Dev : ~Waits(down[f], i) /\ (Held(f, i) => f = d) /\ (d < f => result[f][i] = "none")
      BY <3>1 DEF TInv, TokenInv
    <3>3. d + 1 <= e => d < e
      BY DEF Dev
    <3> QED BY <1>1, <3>2, <3>3
  <2>2. CASE ~(i = job[d].id /\ Forwards(d))
    BY <1>1, <2>2 DEF TInv, TokenInv
  <2> QED BY <2>1, <2>2
<1>4. TokenInv'
  BY <1>1, <1>3 DEF TokenInv
<1> QED BY <1>2, <1>4

LEMMA SendTokens ==
  ASSUME TInv, NEW r \in Requests, Send(r)
  PROVE  LogInv' /\ TokenInv'
<1> DEFINE n == Len(log) + 1
<1>1. /\ n \in Id /\ DOMAIN log' = 1 .. n /\ DOMAIN log' \subseteq Id /\ n \notin DOMAIN log
      /\ \A i \in DOMAIN log : i \in DOMAIN log' /\ log'[i] = log[i]
      /\ UNCHANGED <<devices, saved, work, up, heard, counts>>
      /\ \A e \in Dev : \A k \in DOMAIN down'[e] : Same(log', down'[e][k])
      /\ \A e \in Dev : Distinct(down'[e])
      /\ \A e \in Dev, i \in Id : Waits(down'[e], i) <=> Waits(down[e], i) \/ (e = 1 /\ i = n)
  BY SendMoves
<1> HIDE DEF n
<1>2. UNCHANGED <<at, job, result>> /\ \A e \in Dev : \A i : Held(e, i)' <=> Held(e, i)
  BY <1>1 DEF work, Held
<1>3. LogInv'
  BY <1>1, <1>2 DEF TInv, LogInv, Same
<1>4. \A e \in Dev : ~Waits(down[e], n) /\ ~Held(e, n) /\ result[e][n] = "none"
  BY <1>1 DEF TInv, LogInv, Same, Waits, Held
<1>5. ASSUME NEW c \in Dev, NEW e \in Dev, NEW i \in Id
      PROVE  /\ Waits(down'[c], i) /\ Waits(down'[e], i) => c = e
             /\ Held(c, i)' /\ Held(e, i)' => c = e
             /\ Waits(down'[c], i) => ~Held(e, i)'
             /\ Waits(down'[c], i) /\ c <= e => result'[e][i] = "none"
             /\ Held(c, i)' /\ c < e => result'[e][i] = "none"
  <2>1. CASE i = n
    BY <1>1, <1>2, <1>4, <2>1
  <2>2. CASE i # n
    BY <1>1, <1>2, <2>2 DEF TInv, TokenInv
  <2> QED BY <2>1, <2>2
<1>6. TokenInv'
  BY <1>1, <1>5 DEF TokenInv
<1> QED BY <1>3, <1>6

LEMMA CutTokens ==
  ASSUME TInv, NEW d \in Dev, Cut(d)
  PROVE  LogInv' /\ TokenInv'
<1>1. /\ log' = log /\ result' = result
      /\ \A e \in Dev : \A k \in DOMAIN down'[e] : k \in DOMAIN down[e] /\ down'[e][k] = down[e][k]
      /\ \A e \in Dev : \A i : Waits(down'[e], i) => Waits(down[e], i)
      /\ \A e \in Dev : at'[e] = "acted" => at[e] = "acted" /\ job'[e] = job[e]
      /\ \A e \in Dev : \A i : Held(e, i)' => Held(e, i)
  BY CutMoves
<1>2. LogInv'
  BY <1>1 DEF TInv, LogInv
<1>3. \A e \in Dev : Distinct(down'[e])
  BY <1>1 DEF TInv, TokenInv, Distinct
<1>4. \A c, e \in Dev, i \in Id :
        /\ Waits(down'[c], i) /\ Waits(down'[e], i) => c = e
        /\ Held(c, i)' /\ Held(e, i)' => c = e
        /\ Waits(down'[c], i) => ~Held(e, i)'
        /\ Waits(down'[c], i) /\ c <= e => result'[e][i] = "none"
        /\ Held(c, i)' /\ c < e => result'[e][i] = "none"
  BY <1>1 DEF TInv, TokenInv
<1> QED BY <1>2, <1>3, <1>4 DEF TokenInv

LEMMA StillTokens ==
  ASSUME TInv, UNCHANGED <<addr, down, at, job, log, result>>
  PROVE  LogInv' /\ TokenInv'
<1>1. \A e \in Dev : \A i : Held(e, i)' <=> Held(e, i)
  BY DEF Held
<1>2. LogInv'
  BY DEF TInv, LogInv
<1>3. TokenInv'
  BY <1>1 DEF TInv, TokenInv
<1> QED BY <1>2, <1>3

LEMMA InitTokens == Init => LogInv /\ TokenInv
<1> SUFFICES ASSUME Init PROVE LogInv /\ TokenInv
  OBVIOUS
<1>1. \A d \in Dev : down[d] = << >> /\ at[d] = "scan"
  BY DEF Init
<1>2. \A d \in Dev : \A i : ~Waits(down[d], i) /\ ~Held(d, i)
  BY <1>1 DEF Waits, Held
<1>3. \A d \in Dev : Distinct(down[d])
  BY <1>1 DEF Distinct
<1> QED BY <1>1, <1>2, <1>3 DEF Init, LogInv, TokenInv

LEMMA NextTokens ==
  ASSUME TInv, [Next]_vars
  PROVE  TInv'
<1>1. TypeOK'
  BY NextTypes DEF TInv
<1>2. 1 \in Dev
  BY DEF Dev
<1>3. CASE UNCHANGED vars
  BY <1>1, <1>2, <1>3, StillStays, StillTokens DEF TInv
<1>4. ASSUME NEW d \in Dev, Relay(d) \/ LocalPower(d) \/ SequenceEnds(d) \/ Save(d)
      PROVE  TInv'
  <2>1. UNCHANGED <<addr, down, at, job, log, result>>
    BY <1>4, StillStays
  <2> QED BY <1>1, <2>1, StillTokens DEF TInv
<1>5. CASE Next
  BY <1>1, <1>4, <1>5, ActTokens, FinishTokens, CutTokens, SendTokens DEF Next, Running, Own, TInv
<1> QED BY <1>3, <1>5
-----------------------------------------------------------------------------
(* Carried out once *)

ToOne(i) == log[i].type \notin {"init", "reset"} /\ log[i].addr # Broadcast

\* The device that carried an instruction to one device out keeps it: nobody
\* has it before them or will get it.
OnceInv ==
  \A c, d \in Dev, i \in DOMAIN log : ToOne(i) /\ result[c][i] = "ok" =>
    /\ ~Waits(down[d], i)
    /\ Held(d, i) => ~Forwards(d)
    /\ result[d][i] = "ok" => c = d

\* A device that carries such an instruction out has the address it is sent
\* to, before and after.
LEMMA CarrierKeeps ==
  ASSUME NEW d \in Dev, NEW m, Accepts(d, m), m.type \notin {"init", "reset"}, m.addr # Broadcast
  PROVE  NewAddr(d, m) = addr[d] /\ m.addr = addr[d]
BY DEF Accepts, NewAddr

LEMMA ActOnce ==
  ASSUME TInv, OnceInv, NEW d \in Dev, Act(d)
  PROVE  OnceInv'
<1> DEFINE m == Head(down[d])
<1>1. /\ m \in Message /\ Same(log, m) /\ Waits(down[d], m.id)
      /\ \A e \in Dev, i \in Id : Waits(down'[e], i) <=>
           \/ Waits(down[e], i) /\ ~(e = d /\ i = m.id)
           \/ e = d + 1 /\ i = m.id /\ Goes(m)
  BY ActMoves
<1>2. /\ log' = log
      /\ job' = [job EXCEPT ![d] = [id |-> m.id, msg |-> m, ok |-> Accepts(d, m), last |-> addr[d]]]
      /\ result' = [result EXCEPT ![d][m.id] = IF Accepts(d, m) THEN "ok" ELSE "refused"]
      /\ \A e \in Dev : \A i : Held(e, i)' <=>
              IF e = d THEN i = m.id /\ m.type # "init" ELSE Held(e, i)
  BY ActHolds
<1>3. addr' = IF Accepts(d, m) THEN [addr EXCEPT ![d] = NewAddr(d, m)] ELSE addr
  BY DEF Act
<1>4. m.id \in Id /\ DOMAIN log \subseteq Id
  BY <1>1 DEF Message, TInv, LogInv
<1> HIDE DEF m
<1>5. \A e \in Dev, i \in Id : ~(e = d /\ i = m.id) => result'[e][i] = result[e][i]
  BY <1>2, <1>4 DEF TInv, TypeOK
<1>6. \A e \in Dev : e # d => (Forwards(e)' <=> Forwards(e))
  BY <1>2, <1>3 DEF TInv, TypeOK, Forwards
<1> SUFFICES ASSUME NEW c \in Dev, NEW e \in Dev, NEW i \in DOMAIN log, ToOne(i), result'[c][i] = "ok"
             PROVE  /\ ~Waits(down'[e], i)
                    /\ Held(e, i)' => ~Forwards(e)'
                    /\ result'[e][i] = "ok" => c = e
  BY <1>2 DEF OnceInv, ToOne
<1>7. CASE i # m.id
  <2>1. result[c][i] = "ok" /\ (result'[e][i] = "ok" => result[e][i] = "ok")
    BY <1>4, <1>5, <1>7
  <2>2. Waits(down'[e], i) => Waits(down[e], i)
    BY <1>1, <1>4, <1>7
  <2>3. Held(e, i)' => e # d /\ Held(e, i)
    BY <1>2, <1>7
  <2> QED BY <1>6, <2>1, <2>2, <2>3 DEF OnceInv
<1>8. CASE i = m.id
  <2>1. \A f \in Dev : result[f][i] # "ok" /\ (Waits(down[f], i) => f = d) /\ ~Held(f, i)
    BY <1>1, <1>4, <1>8 DEF OnceInv, TInv, TokenInv
  <2>2. c = d /\ Accepts(d, m) /\ (result'[e][i] = "ok" => c = e)
    BY <1>2, <1>4, <1>5, <1>8, <2>1 DEF TInv, TypeOK
  <2>3. m.type \notin {"init", "reset"} /\ m.addr # Broadcast
    BY <1>1, <1>8 DEF ToOne, Same
  <2>4. ~Waits(down'[e], i)
    BY <1>1, <1>4, <1>8, <2>1, <2>3 DEF Goes
  <2>5. Held(e, i)' => e = d
    BY <1>2, <2>1
  <2>6. ~Forwards(d)'
    <3>1. addr'[d] = m.addr /\ job'[d].msg = m
      BY <1>2, <1>3, <2>2, <2>3, CarrierKeeps DEF TInv, TypeOK
    <3> QED BY <2>3, <3>1 DEF Forwards
  <2> QED BY <2>2, <2>4, <2>5, <2>6
<1> QED BY <1>7, <1>8

LEMMA FinishOnce ==
  ASSUME TInv, OnceInv, NEW d \in Dev, Finish(d)
  PROVE  OnceInv'
<1>1. /\ job[d].id \in Id /\ Forwards(d) => Held(d, job[d].id)
      /\ log' = log /\ result' = result /\ addr' = addr
      /\ \A e \in Dev, i \in Id : Waits(down'[e], i) <=>
           Waits(down[e], i) \/ (e = d + 1 /\ i = job[d].id /\ Forwards(d))
      /\ \A e \in Dev : \A i : Held(e, i)' <=> e # d /\ Held(e, i)
      /\ \A e \in Dev : at'[e] = "acted" => at[e] = "acted" /\ job'[e] = job[e] /\ e # d
  BY FinishMoves
<1>2. ASSUME NEW e \in Dev, NEW i, Held(e, i)' PROVE Held(e, i) /\ (Forwards(e)' <=> Forwards(e))
  BY <1>1, <1>2 DEF Held, Forwards
<1> SUFFICES ASSUME NEW c \in Dev, NEW e \in Dev, NEW i \in DOMAIN log, ToOne(i), result[c][i] = "ok"
             PROVE  /\ ~Waits(down'[e], i)
                    /\ Held(e, i)' => ~Forwards(e)'
                    /\ result[e][i] = "ok" => c = e
  BY <1>1 DEF OnceInv, ToOne
<1>3. /\ ~Waits(down[e], i)
      /\ \A f \in Dev : Held(f, i) => ~Forwards(f)
      /\ result[e][i] = "ok" => c = e
  BY DEF OnceInv
<1>4. ~Waits(down'[e], i)
  BY <1>1, <1>3 DEF TInv, LogInv
<1> QED BY <1>2, <1>3, <1>4

LEMMA SendOnce ==
  ASSUME TInv, OnceInv, NEW r \in Requests, Send(r)
  PROVE  OnceInv'
<1> DEFINE n == Len(log) + 1
<1>1. /\ n \in Id /\ DOMAIN log' = 1 .. n /\ DOMAIN log' \subseteq Id /\ n \notin DOMAIN log
      /\ \A i \in DOMAIN log : i \in DOMAIN log' /\ log'[i] = log[i]
      /\ UNCHANGED <<devices, saved, work, up, heard, counts>>
      /\ \A e \in Dev, i \in Id : Waits(down'[e], i) <=> Waits(down[e], i) \/ (e = 1 /\ i = n)
  BY SendMoves
<1>2. DOMAIN log = 1 .. Len(log) /\ Len(log) \in Nat
  BY DEF TInv, TypeOK
<1>3. \A i \in DOMAIN log' : i # n => i \in DOMAIN log
  BY <1>1, <1>2
<1> HIDE DEF n
<1>4. /\ UNCHANGED <<addr, at, job, result>>
      /\ \A e \in Dev : \A i : Held(e, i)' <=> Held(e, i)
      /\ \A e \in Dev : Forwards(e)' <=> Forwards(e)
  BY <1>1 DEF work, devices, Held, Forwards
<1>5. \A e \in Dev : result[e][n] = "none"
  BY <1>1 DEF TInv, LogInv
<1>6. ASSUME NEW c \in Dev, NEW e \in Dev, NEW i \in DOMAIN log', ToOne(i)', result'[c][i] = "ok"
      PROVE  /\ ~Waits(down'[e], i)
             /\ Held(e, i)' => ~Forwards(e)'
             /\ result'[e][i] = "ok" => c = e
  <2>1. i # n /\ i \in DOMAIN log /\ log'[i] = log[i]
    BY <1>1, <1>3, <1>4, <1>5, <1>6
  <2>2. ToOne(i)
    BY <1>6, <2>1 DEF ToOne
  <2> QED BY <1>1, <1>4, <1>6, <2>1, <2>2 DEF OnceInv
<1> QED BY <1>6 DEF OnceInv

LEMMA CutOnce ==
  ASSUME TInv, OnceInv, NEW d \in Dev, Cut(d)
  PROVE  OnceInv'
<1>1. /\ log' = log /\ result' = result
      /\ \A e \in Dev : \A i : Waits(down'[e], i) => Waits(down[e], i)
      /\ \A e \in Dev : at'[e] = "acted" => at[e] = "acted" /\ job'[e] = job[e] /\ addr'[e] = addr[e]
      /\ \A e \in Dev : \A i : Held(e, i)' => Held(e, i)
  BY CutMoves
<1>2. ASSUME NEW e \in Dev, NEW i, Held(e, i)' PROVE Held(e, i) /\ (Forwards(e)' <=> Forwards(e))
  BY <1>1, <1>2 DEF Held, Forwards
<1>3. ASSUME NEW c \in Dev, NEW e \in Dev, NEW i \in DOMAIN log, ToOne(i), result[c][i] = "ok"
      PROVE  /\ ~Waits(down'[e], i)
             /\ Held(e, i)' => ~Forwards(e)'
             /\ result[e][i] = "ok" => c = e
  <2>1. /\ ~Waits(down[e], i)
        /\ Held(e, i) => ~Forwards(e)
        /\ result[e][i] = "ok" => c = e
    BY <1>3 DEF OnceInv
  <2> QED BY <1>1, <1>2, <2>1
<1>4. \A i : ToOne(i)' <=> ToOne(i)
  BY <1>1 DEF ToOne
<1> QED BY <1>1, <1>3, <1>4 DEF OnceInv

LEMMA NextOnce ==
  ASSUME TInv, OnceInv, [Next]_vars
  PROVE  OnceInv'
<1>1. 1 \in Dev
  BY DEF Dev
<1>2. ASSUME UNCHANGED <<addr, down, at, job, log, result>>
      PROVE  OnceInv'
  <2>1. \A e \in Dev : \A i : (Held(e, i)' <=> Held(e, i)) /\ (Forwards(e)' <=> Forwards(e))
    BY <1>2 DEF Held, Forwards
  <2> QED BY <1>2, <2>1 DEF OnceInv, ToOne
<1>3. CASE UNCHANGED vars
  BY <1>1, <1>2, <1>3, StillStays
<1>4. ASSUME NEW d \in Dev, Relay(d) \/ LocalPower(d) \/ SequenceEnds(d) \/ Save(d)
      PROVE  OnceInv'
  BY <1>2, <1>4, StillStays
<1>5. CASE Next
  BY <1>4, <1>5, ActOnce, FinishOnce, CutOnce, SendOnce DEF Next, Running, Own
<1> QED BY <1>3, <1>5

\* An instruction to one device, other than an INIT or a reset, is carried
\* out by one device at most, though several may have its address and though
\* sequences, other instructions and power cuts come between: the device that
\* carries it out does not forward it.
THEOREM OneCarriesOut == Spec => []CarriedOutOnce
<1>1. Init => TInv /\ OnceInv
  <2>1. Init => OnceInv
    BY DEF Init, OnceInv
  <2> QED BY <2>1, InitTypes, InitTokens DEF TInv
<1>2. TInv /\ OnceInv /\ [Next]_vars => (TInv /\ OnceInv)'
  BY NextTokens, NextOnce
<1>3. OnceInv => CarriedOutOnce
  BY DEF OnceInv, CarriedOutOnce, ToOne, Sent
<1> QED BY <1>1, <1>2, <1>3, PTL DEF Spec
-----------------------------------------------------------------------------
(* Nobody passed over *)

ToChain(i) == ToAll(i) \/ log[i].type = "init"

\* Device d has yet to begin instruction i, which it has or is to be given.
Comes(d, i) == Waits(down[d], i) \/ (d > 1 /\ Held(d - 1, i))

\* Instruction i has been at the devices 1 .. k, and is on its way to the
\* next one if it goes so far.
Reach(i, k) ==
  \A d \in Dev : /\ result[d][i] # "none" <=> d <= k
                 /\ Comes(d, i) <=> d = k + 1 /\ k < LastOf(i)

ReachInv ==
  cuts = 0 => \A i \in DOMAIN log : ToChain(i) => \E k \in 0 .. LastOf(i) : Reach(i, k)

\* Everything goes to one device at least, and to no more than there are.
LEMMA LastIs ==
  ASSUME NEW i, log[i] \in Request, ToChain(i)
  PROVE  /\ LastOf(i) \in 1 .. M
         /\ ToAll(i) => LastOf(i) = M
         /\ ~ToAll(i) /\ log[i].good /\ log[i].addr # Broadcast =>
              LastOf(i) = IF log[i].addr + M > Broadcast THEN Broadcast - log[i].addr ELSE M
         /\ ~ToAll(i) /\ ~(log[i].good /\ log[i].addr # Broadcast) => LastOf(i) = 1
<1>1. log[i].addr \in 0 .. Broadcast /\ log[i].good \in BOOLEAN
  BY DEF Request, Address
<1>2. CASE ToAll(i)
  BY <1>2 DEF LastOf, ToAll
<1>3. CASE ~ToAll(i) /\ log[i].good /\ log[i].addr # Broadcast
  BY <1>1, <1>3 DEF LastOf
<1>4. CASE ~ToAll(i) /\ ~(log[i].good /\ log[i].addr # Broadcast)
  BY <1>1, <1>4 DEF LastOf
<1> QED BY <1>2, <1>3, <1>4

\* A device passes an instruction to all, or an INIT, on just in case it is
\* not the last one it goes to.
LEMMA GoesOn ==
  ASSUME NEW m \in Message, Same(log, m), NEW d \in Dev, Origin(log, d, m),
         log[m.id] \in Request, ToChain(m.id), d < M, d <= LastOf(m.id)
  PROVE  m.type # "init" \/ Goes(m) <=> d < LastOf(m.id)
<1> DEFINE l == log[m.id]
<1>1. /\ l.addr \in 0 .. Broadcast /\ l.good \in BOOLEAN
      /\ m.type = l.type /\ m.good = l.good /\ d \in 1 .. M
      /\ m.type = "init" => m.addr = l.addr + d - 1
  BY DEF Request, Address, Same, Origin, Dev
<1>2. CASE m.type # "init"
  BY <1>1, <1>2, LastIs DEF ToChain
<1>3. CASE m.type = "init" /\ l.good /\ l.addr # Broadcast
  <2>1. LastOf(m.id) = IF l.addr + M > Broadcast THEN Broadcast - l.addr ELSE M
    BY <1>1, <1>3, LastIs DEF ToAll
  <2>2. Goes(m) <=> l.addr + d - 1 # Broadcast /\ l.addr + d - 1 + 1 # Broadcast
    BY <1>1, <1>3 DEF Goes
  <2> HIDE DEF l
  <2>3. l.addr + d - 1 # Broadcast /\ l.addr + d - 1 + 1 # Broadcast <=> d < LastOf(m.id)
    BY <1>1, <1>3, <2>1
  <2> QED BY <1>3, <2>2, <2>3
<1>4. CASE m.type = "init" /\ ~(l.good /\ l.addr # Broadcast)
  <2>1. LastOf(m.id) = 1 /\ d = 1
    <3>1. LastOf(m.id) = 1
      BY <1>1, <1>4, LastIs DEF ToAll
    <3> QED BY <1>1, <3>1
  <2>2. m.addr = l.addr
    BY <1>1, <1>4, <2>1
  <2>3. ~Goes(m)
    BY <1>1, <1>4, <2>2 DEF Goes
  <2> QED BY <1>4, <2>1, <2>3
<1> QED BY <1>2, <1>3, <1>4

LEMMA ActReaches ==
  ASSUME TInv, NumberInv, ReachInv, NEW d \in Dev, Act(d)
  PROVE  ReachInv'
<1> DEFINE m == Head(down[d])
<1>1. /\ m \in Message /\ Same(log, m) /\ Waits(down[d], m.id)
      /\ \A e \in Dev, i \in Id : Waits(down'[e], i) <=>
           \/ Waits(down[e], i) /\ ~(e = d /\ i = m.id)
           \/ e = d + 1 /\ i = m.id /\ Goes(m)
  BY ActMoves
<1>2. /\ log' = log /\ cuts' = cuts
      /\ result' = [result EXCEPT ![d][m.id] = IF Accepts(d, m) THEN "ok" ELSE "refused"]
      /\ \A e \in Dev : \A i : Held(e, i)' <=>
              IF e = d THEN i = m.id /\ m.type # "init" ELSE Held(e, i)
  BY ActHolds
<1>3. Origin(log, d, m) /\ \A i \in DOMAIN log : log[i] \in Request /\ i \in Id
  <2>1. down \in [Dev -> Seq(Message)] /\ down[d] # << >> /\ log \in Seq(Requests)
    BY DEF TInv, TypeOK, Act
  <2>2. Origin(log, d, m)
    BY <2>1, TailIs DEF NumberInv
  <2>3. \A i \in DOMAIN log : log[i] \in Request /\ i \in Id
    BY <2>1 DEF TInv, LogInv
  <2> QED BY <2>2, <2>3
<1>4. m.id \in Id /\ ~Held(d, m.id) /\ \A i : ~Held(d, i)
  BY <1>1 DEF Message, Act, Held
<1> HIDE DEF m
<1>5. \A e \in Dev, i \in Id : ~(e = d /\ i = m.id) => result'[e][i] = result[e][i]
  BY <1>2, <1>4 DEF TInv, TypeOK
<1>6. result'[d][m.id] # "none"
  BY <1>2, <1>4 DEF TInv, TypeOK
<1> SUFFICES ASSUME cuts = 0, NEW i \in DOMAIN log, ToChain(i)
             PROVE  \E k \in 0 .. LastOf(i) : Reach(i, k)'
  BY <1>2 DEF ReachInv, ToChain, ToAll, LastOf
<1>7. PICK k \in 0 .. LastOf(i) : Reach(i, k)
  BY DEF ReachInv
<1>8. \A e \in Dev : e - 1 \in Dev \/ ~(e > 1)
  BY DEF Dev
<1>9. LastOf(i)' = LastOf(i) /\ i \in Id /\ LastOf(i) \in 1 .. M
  BY <1>2, <1>3, LastIs DEF LastOf, ToAll
<1>10. CASE i # m.id
  <2>1. \A e \in Dev : /\ result'[e][i] = result[e][i]
                       /\ Waits(down'[e], i) <=> Waits(down[e], i)
                       /\ Held(e, i)' <=> Held(e, i)
    BY <1>1, <1>2, <1>4, <1>5, <1>9, <1>10
  <2>2. \A e \in Dev : Comes(e, i)' <=> Comes(e, i)
    BY <1>8, <2>1 DEF Comes
  <2>3. Reach(i, k)'
    BY <1>7, <1>9, <2>1, <2>2 DEF Reach
  <2> QED BY <2>3
<1>11. CASE i = m.id
  <2>1. d = k + 1 /\ k < LastOf(i)
    BY <1>1, <1>7, <1>11 DEF Reach, Comes
  <2>2. d \in 0 .. LastOf(i)
    BY <1>9, <2>1
  <2>3. \A e \in Dev : (Waits(down[e], i) => e = d) /\ ~Held(e, i)
    BY <1>1, <1>4, <1>11 DEF TInv, TokenInv
  <2>4. \A e \in Dev : result'[e][i] # "none" <=> e <= d
    <3>1. \A e \in Dev : e <= d <=> e <= k \/ e = d
      BY <2>1 DEF Dev
    <3> QED BY <1>5, <1>6, <1>7, <1>9, <1>11, <3>1 DEF Reach
  <2>5. \A e \in Dev : Comes(e, i)' <=> e = d + 1 /\ (m.type # "init" \/ Goes(m))
    <3>1. \A e \in Dev : Waits(down'[e], i) <=> e = d + 1 /\ Goes(m)
      BY <1>1, <1>9, <1>11, <2>3
    <3>2. \A e \in Dev : Held(e, i)' <=> e = d /\ m.type # "init"
      BY <1>2, <1>11, <2>3
    <3>3. \A e \in Dev : e > 1 /\ e - 1 = d <=> e = d + 1
      BY DEF Dev
    <3> QED BY <1>8, <3>1, <3>2, <3>3 DEF Comes
  <2>6. \A e \in Dev : e = d + 1 => (m.type # "init" \/ Goes(m) <=> d < LastOf(i))
    <3>1. \A e \in Dev : e = d + 1 => d < M
      BY DEF Dev
    <3> QED BY <1>1, <1>3, <1>11, <2>2, <3>1, GoesOn
  <2>7. Reach(i, d)'
    BY <1>9, <2>4, <2>5, <2>6 DEF Reach
  <2> QED BY <2>2, <2>7
<1> QED BY <1>10, <1>11

LEMMA FinishReaches ==
  ASSUME TInv, ReachInv, NEW d \in Dev, Finish(d)
  PROVE  ReachInv'
<1>1. /\ Same(log, job[d].msg) /\ job[d].id = job[d].msg.id /\ job[d].id \in Id
      /\ Forwards(d) => Held(d, job[d].id)
      /\ log' = log /\ result' = result /\ cuts' = cuts
      /\ \A e \in Dev, i \in Id : Waits(down'[e], i) <=>
           Waits(down[e], i) \/ (e = d + 1 /\ i = job[d].id /\ Forwards(d))
      /\ \A e \in Dev : \A i : Held(e, i)' <=> e # d /\ Held(e, i)
  BY FinishMoves
<1> SUFFICES ASSUME cuts = 0, NEW i \in DOMAIN log, ToChain(i)
             PROVE  \E k \in 0 .. LastOf(i) : Reach(i, k)'
  BY <1>1 DEF ReachInv, ToChain, ToAll, LastOf
<1>2. PICK k \in 0 .. LastOf(i) : Reach(i, k)
  BY DEF ReachInv
<1>3. LastOf(i)' = LastOf(i) /\ i \in Id
  BY <1>1 DEF LastOf, ToAll, TInv, LogInv
<1>4. Held(d, i) <=> i = job[d].id /\ Forwards(d)
  <2>1. Held(d, i) => job[d].msg.type # "init" /\ i = job[d].id
    BY DEF Held
  <2>2. Held(d, i) => job[d].msg.addr = Broadcast
    BY <1>1, <2>1 DEF Same, ToChain, ToAll
  <2>3. Held(d, i) => Forwards(d)
    BY <2>1, <2>2 DEF Forwards
  <2> QED BY <1>1, <2>1, <2>3
<1>5. \A e \in Dev : Comes(e, i)' <=> Comes(e, i)
  <2>1. \A e \in Dev : (e - 1 \in Dev \/ ~(e > 1)) /\ (e > 1 /\ e - 1 = d <=> e = d + 1)
    BY DEF Dev
  <2>2. \A e \in Dev : Waits(down'[e], i) <=> Waits(down[e], i) \/ (e = d + 1 /\ Held(d, i))
    BY <1>1, <1>3, <1>4
  <2>3. \A e \in Dev : Held(e, i)' <=> e # d /\ Held(e, i)
    BY <1>1
  <2> QED BY <2>1, <2>2, <2>3 DEF Comes
<1>6. Reach(i, k)'
  BY <1>1, <1>2, <1>3, <1>5 DEF Reach
<1> QED BY <1>6

LEMMA SendReaches ==
  ASSUME TInv, ReachInv, NEW r \in Requests, Send(r)
  PROVE  ReachInv'
<1> DEFINE n == Len(log) + 1
<1>1. /\ n \in Id /\ DOMAIN log' = 1 .. n /\ DOMAIN log' \subseteq Id /\ n \notin DOMAIN log
      /\ log'[n] = r /\ r \in Request
      /\ \A i \in DOMAIN log : i \in DOMAIN log' /\ log'[i] = log[i]
      /\ UNCHANGED <<devices, saved, work, up, heard, counts>>
      /\ \A e \in Dev, i \in Id : Waits(down'[e], i) <=> Waits(down[e], i) \/ (e = 1 /\ i = n)
  BY SendMoves
<1>2. DOMAIN log = 1 .. Len(log) /\ Len(log) \in Nat
  BY DEF TInv, TypeOK
<1>3. \A i \in DOMAIN log' : i # n => i \in DOMAIN log
  BY <1>1, <1>2
<1> HIDE DEF n
<1>4. /\ UNCHANGED <<at, job, result, cuts>>
      /\ \A e \in Dev : \A i : Held(e, i)' <=> Held(e, i)
  BY <1>1 DEF work, counts, Held
<1>5. \A e \in Dev : ~Waits(down[e], n) /\ ~Held(e, n) /\ result[e][n] = "none"
  BY <1>1 DEF TInv, LogInv, Same, Waits, Held
<1>6. ASSUME cuts' = 0, NEW i \in DOMAIN log', ToChain(i)'
      PROVE  \E k \in 0 .. LastOf(i)' : Reach(i, k)'
  <2>1. CASE i = n
    <3>1. LastOf(i)' \in 1 .. M
      <4>1. log'[i] \in Request
        BY <1>1, <2>1
      <4>2. log'[i].addr \in 0 .. Broadcast
        BY <4>1 DEF Request, Address
      <4>3. CASE ToAll(i)'
        BY <4>3 DEF LastOf, ToAll
      <4>4. CASE ~ToAll(i)' /\ log'[i].good /\ log'[i].addr # Broadcast
        BY <4>2, <4>4 DEF LastOf
      <4>5. CASE ~ToAll(i)' /\ ~(log'[i].good /\ log'[i].addr # Broadcast)
        BY <4>5 DEF LastOf
      <4> QED BY <4>3, <4>4, <4>5
    <3>2. \A e \in Dev : Comes(e, i)' <=> e = 1
      <4>1. \A e \in Dev : e - 1 \in Dev \/ ~(e > 1)
        BY DEF Dev
      <4> QED BY <1>1, <1>4, <1>5, <2>1, <4>1 DEF Comes
    <3>3. Reach(i, 0)'
      <4>1. \A e \in Dev : (e <= 0 <=> FALSE) /\ (e = 0 + 1 <=> e = 1) /\ 0 < LastOf(i)'
        BY <3>1 DEF Dev
      <4>2. \A e \in Dev : result'[e][i] = "none"
        BY <1>4, <1>5, <2>1
      <4> QED BY <3>2, <4>1, <4>2 DEF Reach
    <3>4. 0 \in 0 .. LastOf(i)'
      BY <3>1
    <3> QED BY <3>3, <3>4
  <2>2. CASE i # n
    <3>1. i \in DOMAIN log /\ log'[i] = log[i] /\ i \in Id
      BY <1>1, <1>3, <1>6, <2>2
    <3>2. LastOf(i)' = LastOf(i) /\ ToChain(i)
      BY <1>6, <3>1 DEF LastOf, ToChain, ToAll
    <3>3. PICK k \in 0 .. LastOf(i) : Reach(i, k)
      BY <1>4, <1>6, <3>1, <3>2 DEF ReachInv
    <3>4. \A e \in Dev : Comes(e, i)' <=> Comes(e, i)
      <4>1. \A e \in Dev : e - 1 \in Dev \/ ~(e > 1)
        BY DEF Dev
      <4>2. \A e \in Dev : Waits(down'[e], i) <=> Waits(down[e], i)
        BY <1>1, <2>2, <3>1
      <4> QED BY <1>4, <4>1, <4>2 DEF Comes
    <3>5. Reach(i, k)'
      BY <1>4, <3>2, <3>3, <3>4 DEF Reach
    <3> QED BY <3>2, <3>3, <3>5
  <2> QED BY <2>1, <2>2
<1> QED BY <1>6 DEF ReachInv

LEMMA NextReaches ==
  ASSUME TInv, NumberInv, ReachInv, [Next]_vars
  PROVE  ReachInv'
<1>1. 1 \in Dev
  BY DEF Dev
<1>2. ASSUME UNCHANGED <<down, at, job, log, result, cuts>>
      PROVE  ReachInv'
  <2>1. \A e \in Dev : \A i : Comes(e, i)' <=> Comes(e, i)
    BY <1>2 DEF Comes, Held
  <2>2. \A i : (LastOf(i)' = LastOf(i)) /\ (ToChain(i)' <=> ToChain(i))
    BY <1>2 DEF LastOf, ToChain, ToAll
  <2>3. \A i, k : Reach(i, k)' <=> Reach(i, k)
    BY <1>2, <2>1, <2>2 DEF Reach
  <2> QED BY <1>2, <2>2, <2>3 DEF ReachInv
<1>3. CASE UNCHANGED vars
  BY <1>1, <1>2, <1>3, StillStays
<1>4. ASSUME NEW d \in Dev, Relay(d) \/ LocalPower(d) \/ SequenceEnds(d) \/ Save(d)
      PROVE  ReachInv'
  BY <1>2, <1>4, StillStays
<1>5. ASSUME NEW d \in Dev, Cut(d) PROVE ReachInv'
  <2>1. cuts' = cuts + 1 /\ cuts \in Nat
    BY <1>5, CutMoves DEF TInv, TypeOK
  <2>2. cuts' # 0
    BY <2>1
  <2> QED BY <2>2 DEF ReachInv
<1>6. CASE Next
  BY <1>4, <1>5, <1>6, ActReaches, FinishReaches, SendReaches DEF Next, Running, Own
<1> QED BY <1>3, <1>6

\* The copies of an instruction to all, or of an INIT, are where it comes to.
LEMMA CopiesCome ==
  ASSUME TInv, NEW i \in DOMAIN log, ToChain(i)
  PROVE  Copies(i) \cap Dev = {d \in Dev : Comes(d, i)}
<1>1. \A e \in Dev : Held(e, i) <=> at[e] = "acted" /\ job[e].id = i /\ Forwards(e)
  <2>1. ASSUME NEW e \in Dev, Held(e, i) PROVE Forwards(e)
    <3>1. job[e].msg.type # "init" /\ Same(log, job[e].msg) /\ job[e].msg.id = i
      BY <2>1 DEF Held, TInv, LogInv
    <3>2. job[e].msg.addr = Broadcast
      BY <3>1 DEF Same, ToChain, ToAll
    <3> QED BY <3>1, <3>2 DEF Forwards
  <2> QED BY <2>1 DEF Held, Forwards
<1>2. ASSUME NEW d \in Dev
      PROVE  d \in Copies(i) <=> Comes(d, i)
  <2>1. d \in Copies(i) <=> Waits(down[d], i) \/ \E e \in Dev : Held(e, i) /\ d = e + 1
    BY <1>1 DEF Copies, Waits
  <2>2. (\E e \in Dev : Held(e, i) /\ d = e + 1) <=> d > 1 /\ Held(d - 1, i)
    <3>1. \A e \in Dev : d = e + 1 => d > 1 /\ d - 1 = e
      BY DEF Dev
    <3>2. d > 1 => d - 1 \in Dev /\ d = (d - 1) + 1
      BY DEF Dev
    <3> QED BY <3>1, <3>2
  <2> QED BY <2>1, <2>2 DEF Comes
<1> QED BY <1>2

LEMMA ReachAccounts == TInv /\ ReachInv => Accounted
<1> SUFFICES ASSUME TInv, ReachInv, cuts = 0, NEW i \in Sent, ToAll(i) \/ log[i].type = "init"
             PROVE  /\ Reached(i) = 1 .. Cardinality(Reached(i))
                    /\ Copies(i) \cap Dev =
                         IF Cardinality(Reached(i)) < LastOf(i)
                           THEN {Cardinality(Reached(i)) + 1} ELSE {}
  BY DEF Accounted
<1>1. i \in DOMAIN log /\ ToChain(i) /\ log[i] \in Request
  BY DEF Sent, ToChain, TInv, TypeOK
<1>2. PICK k \in 0 .. LastOf(i) : Reach(i, k)
  BY <1>1 DEF ReachInv
<1>3. LastOf(i) \in 1 .. M
  BY <1>1, LastIs
<1>4. Reached(i) = 1 .. k
  BY <1>2, <1>3 DEF Reached, Reach, Dev
<1>5. Cardinality(Reached(i)) = k
  BY <1>2, <1>3, <1>4, FS_Interval
<1>6. Copies(i) \cap Dev = IF k < LastOf(i) THEN {k + 1} ELSE {}
  <2>1. Copies(i) \cap Dev = {d \in Dev : d = k + 1 /\ k < LastOf(i)}
    BY <1>1, <1>2, CopiesCome DEF Reach
  <2>2. k < LastOf(i) => k + 1 \in Dev
    BY <1>2, <1>3 DEF Dev
  <2> QED BY <2>1, <2>2
<1> QED BY <1>4, <1>5, <1>6

\* While no device loses power, an instruction to all and an INIT go down a
\* chain of any length device by device: every device before the one copy has
\* had it, none after it, and it gets as far as the chain or the addresses do.
THEOREM NobodyPassedOver == Spec => []Accounted
<1> DEFINE RInv == TInv /\ NumberInv /\ ReachInv
<1>1. Init => RInv
  <2>1. Init => ReachInv
    BY DEF Init, ReachInv
  <2> QED BY <2>1, InitTypes, InitTokens, InitNumbers DEF TInv
<1>2. RInv /\ [Next]_vars => RInv'
  <2>1. ASSUME RInv, [Next]_vars PROVE NumberInv'
    BY <2>1, NextNumbers DEF TInv, IInv
  <2> QED BY <2>1, NextTokens, NextReaches
<1>3. RInv => Accounted
  BY ReachAccounts
<1> QED BY <1>1, <1>2, <1>3, PTL DEF Spec
-----------------------------------------------------------------------------
(* Nearest first *)

\* Answers to one instruction, an INIT excepted, come up the chain with those
\* of the nearer devices ahead, and none from where the instruction still is
\* or from beyond.
UpInv ==
  /\ \A e \in Dev : \A k \in DOMAIN up[e] : e < up[e][k].dev /\ up[e][k].id \in DOMAIN log
  /\ \A a \in heard : a.id \in DOMAIN log
  /\ \A e, f \in Dev : \A j \in DOMAIN up[e], k \in DOMAIN up[f] :
       /\ up[e][j].id = up[f][k].id /\ log[up[f][k].id].type # "init"
       /\ e < f \/ (e = f /\ j < k)
       => up[e][j].dev < up[f][k].dev
  /\ \A b \in heard, e \in Dev : \A k \in DOMAIN up[e] :
       up[e][k].id = b.id /\ log[b.id].type # "init" => b.dev < up[e][k].dev

At(p, i) == log[i].type # "init" /\ (Waits(down[p], i) \/ Held(p, i))

BehindInv ==
  \A p \in Dev, i \in DOMAIN log : At(p, i) =>
    /\ \A b \in heard : b.id = i => b.dev < p
    /\ \A e \in Dev : \A k \in DOMAIN up[e] : up[e][k].id = i => up[e][k].dev < p

AInv == TInv /\ UpInv /\ BehindInv

\* Where answer k of buffer e was before device d relayed one: at the head of
\* its buffer if it is the one, else where it is, but for those behind the head.
Relayed(d, e, k) == e = d - 1 /\ k = Len(up[e]) + 1
RowOf(d, e, k)   == IF Relayed(d, e, k) THEN d ELSE e
PosOf(d, e, k)   == IF Relayed(d, e, k) THEN 1 ELSE IF e = d THEN k + 1 ELSE k

\* The buffers after device d has relayed an answer.
LEMMA RelayIs ==
  ASSUME up \in [Dev -> Seq(AnswerMsg)], NEW d \in Dev, Relay(d), NEW e \in Dev
  PROVE  /\ 1 \in DOMAIN up[d]
         /\ heard' = IF d = 1 THEN heard \cup {up[d][1]} ELSE heard
         /\ e = d => DOMAIN up'[e] = 1 .. Len(up[d]) - 1
                     /\ \A k \in 1 .. Len(up[d]) - 1 : up'[e][k] = up[d][k + 1]
         /\ e = d - 1 => DOMAIN up'[e] = 1 .. Len(up[e]) + 1
                         /\ up'[e][Len(up[e]) + 1] = up[d][1]
                         /\ \A k \in 1 .. Len(up[e]) : up'[e][k] = up[e][k]
         /\ e # d /\ e # d - 1 => up'[e] = up[e]
<1> DEFINE a == up[d][1]
           t == [up EXCEPT ![d] = Tail(@)]
<1>1. /\ up[d] \in Seq(AnswerMsg) /\ up[d] # << >> /\ Len(up[d]) \in Nat /\ Len(up[d]) > 0
      /\ DOMAIN up[d] = 1 .. Len(up[d]) /\ Head(up[d]) = a /\ a \in AnswerMsg
  BY DEF Relay
<1>2. 1 \in DOMAIN up[d]
  BY <1>1
<1>3. up' = PassUp(d, t, a) /\ heard' = IF d = 1 THEN heard \cup {a} ELSE heard
  BY <1>1 DEF Relay, Hear
<1>4. /\ DOMAIN Tail(up[d]) = 1 .. Len(up[d]) - 1
      /\ \A k \in 1 .. Len(up[d]) - 1 : Tail(up[d])[k] = up[d][k + 1]
  BY <1>1
<1>5. t[d] = Tail(up[d]) /\ \A f \in Dev : f # d => t[f] = up[f]
  OBVIOUS
<1>6. up[e] \in Seq(AnswerMsg)
  OBVIOUS
<1>7. /\ e = d => DOMAIN up'[e] = 1 .. Len(up[d]) - 1
                     /\ \A k \in 1 .. Len(up[d]) - 1 : up'[e][k] = up[d][k + 1]
      /\ e = d - 1 => DOMAIN up'[e] = 1 .. Len(up[e]) + 1
                         /\ up'[e][Len(up[e]) + 1] = a
                         /\ \A k \in 1 .. Len(up[e]) : up'[e][k] = up[e][k]
      /\ e # d /\ e # d - 1 => up'[e] = up[e]
  <2>1. CASE d = 1
    <3>1. up' = t /\ e # d - 1
      BY <1>3, <2>1 DEF PassUp, Dev
    <3> HIDE DEF t
    <3> QED BY <1>4, <1>5, <3>1
  <2>2. CASE d # 1
    <3>1. d - 1 \in Dev /\ d - 1 # d
      BY <2>2 DEF Dev
    <3>2. t \in [Dev -> Seq(AnswerMsg)]
      BY <1>1
    <3>3. up' = [t EXCEPT ![d - 1] = Append(@, a)]
      BY <1>3, <2>2 DEF PassUp
    <3> HIDE DEF t
    <3>4. /\ e = d - 1 => up'[e] = Append(up[e], a)
          /\ e # d - 1 => up'[e] = t[e]
      BY <1>5, <3>1, <3>2, <3>3
    <3>5. /\ DOMAIN Append(up[e], a) = 1 .. Len(up[e]) + 1
          /\ Append(up[e], a)[Len(up[e]) + 1] = a
          /\ \A k \in 1 .. Len(up[e]) : Append(up[e], a)[k] = up[e][k]
      BY <1>1, <1>6
    <3> HIDE DEF a
    <3>6. CASE e = d
      BY <1>4, <1>5, <3>1, <3>4, <3>6
    <3>7. CASE e = d - 1
      BY <3>1, <3>4, <3>5, <3>7
    <3>8. CASE e # d /\ e # d - 1
      BY <1>5, <3>4, <3>8
    <3> QED BY <3>6, <3>7, <3>8
  <2> QED BY <2>1, <2>2
<1> QED BY <1>2, <1>3, <1>7

\* Every answer was in one of the buffers, in this one or behind it; what
\* device 1 relays was ahead of all that are left.
LEMMA RelayFrom ==
  ASSUME up \in [Dev -> Seq(AnswerMsg)], NEW d \in Dev, Relay(d),
         NEW e \in Dev, NEW k \in DOMAIN up'[e]
  PROVE  /\ RowOf(d, e, k) \in Dev /\ PosOf(d, e, k) \in DOMAIN up[RowOf(d, e, k)]
         /\ up'[e][k] = up[RowOf(d, e, k)][PosOf(d, e, k)]
         /\ e <= RowOf(d, e, k)
         /\ d = 1 => 1 < RowOf(d, e, k) \/ (1 = RowOf(d, e, k) /\ 1 < PosOf(d, e, k))
         /\ k \in Nat /\ (e = d - 1 => k <= Len(up[e]) + 1)
<1>1. /\ up[d] \in Seq(AnswerMsg) /\ Len(up[d]) \in Nat /\ DOMAIN up[d] = 1 .. Len(up[d])
      /\ up[e] \in Seq(AnswerMsg) /\ Len(up[e]) \in Nat /\ DOMAIN up[e] = 1 .. Len(up[e])
      /\ e \in Nat /\ e > 0 /\ d \in Nat /\ d > 0
  BY DEF Dev
<1>2. /\ 1 \in DOMAIN up[d]
      /\ e = d => DOMAIN up'[e] = 1 .. Len(up[d]) - 1
                  /\ \A n \in 1 .. Len(up[d]) - 1 : up'[e][n] = up[d][n + 1]
      /\ e = d - 1 => DOMAIN up'[e] = 1 .. Len(up[e]) + 1
                      /\ up'[e][Len(up[e]) + 1] = up[d][1]
                      /\ \A n \in 1 .. Len(up[e]) : up'[e][n] = up[e][n]
      /\ e # d /\ e # d - 1 => up'[e] = up[e]
  BY RelayIs
<1>3. CASE e = d
  <2>1. k \in 1 .. Len(up[d]) - 1 /\ ~Relayed(d, e, k) /\ e # d - 1
    BY <1>1, <1>2, <1>3 DEF Relayed
  <2>2. RowOf(d, e, k) = d /\ PosOf(d, e, k) = k + 1
    BY <1>3, <2>1 DEF RowOf, PosOf
  <2>3. k + 1 \in DOMAIN up[d] /\ up'[e][k] = up[d][k + 1]
    BY <1>1, <1>2, <1>3, <2>1
  <2> QED BY <1>1, <1>3, <2>1, <2>2, <2>3
<1>4. CASE e = d - 1 /\ k = Len(up[e]) + 1
  <2>1. RowOf(d, e, k) = d /\ PosOf(d, e, k) = 1 /\ d # 1
    BY <1>1, <1>4 DEF Relayed, RowOf, PosOf
  <2> QED BY <1>1, <1>2, <1>4, <2>1
<1>5. CASE e = d - 1 /\ k # Len(up[e]) + 1
  <2>1. k \in 1 .. Len(up[e]) /\ e # d /\ d # 1
    BY <1>1, <1>2, <1>5
  <2>2. RowOf(d, e, k) = e /\ PosOf(d, e, k) = k
    BY <1>5, <2>1 DEF Relayed, RowOf, PosOf
  <2> QED BY <1>1, <1>2, <1>5, <2>1, <2>2
<1>6. CASE e # d /\ e # d - 1
  <2>1. RowOf(d, e, k) = e /\ PosOf(d, e, k) = k /\ up'[e] = up[e]
    BY <1>2, <1>6 DEF Relayed, RowOf, PosOf
  <2> QED BY <1>1, <1>6, <2>1
<1> QED BY <1>3, <1>4, <1>5, <1>6

\* Of two answers the one ahead was ahead.
LEMMA RelayOrder ==
  ASSUME up \in [Dev -> Seq(AnswerMsg)], NEW d \in Dev, Relay(d),
         NEW e \in Dev, NEW f \in Dev, NEW j \in DOMAIN up'[e], NEW k \in DOMAIN up'[f],
         e < f \/ (e = f /\ j < k)
  PROVE  \/ RowOf(d, e, j) < RowOf(d, f, k)
         \/ RowOf(d, e, j) = RowOf(d, f, k) /\ PosOf(d, e, j) < PosOf(d, f, k)
<1>1. /\ j \in Nat /\ (e = d - 1 => j <= Len(up[e]) + 1)
      /\ k \in Nat /\ (f = d - 1 => k <= Len(up[f]) + 1)
  BY RelayFrom
<1>2. e \in Nat /\ f \in Nat /\ d \in Nat /\ Len(up[e]) \in Nat /\ Len(up[f]) \in Nat
  BY DEF Dev
<1>3. 0 < j /\ 0 < k
  <2>1. /\ PosOf(d, e, j) \in DOMAIN up[RowOf(d, e, j)] /\ RowOf(d, e, j) \in Dev
        /\ PosOf(d, f, k) \in DOMAIN up[RowOf(d, f, k)] /\ RowOf(d, f, k) \in Dev
    BY RelayFrom
  <2>2. \A n \in Dev : up[n] \in Seq(AnswerMsg) /\ DOMAIN up'[n] \subseteq Nat \ {0}
    <3> TAKE n \in Dev
    <3>1. Len(up[n]) \in Nat /\ Len(up[d]) \in Nat /\ DOMAIN up[n] = 1 .. Len(up[n])
      OBVIOUS
    <3>2. \/ DOMAIN up'[n] = 1 .. Len(up[d]) - 1
          \/ DOMAIN up'[n] = 1 .. Len(up[n]) + 1
          \/ up'[n] = up[n]
      BY RelayIs
    <3> QED BY <3>1, <3>2
  <2> QED BY <2>2
<1>4. CASE Relayed(d, e, j)
  <2>1. RowOf(d, e, j) = d /\ PosOf(d, e, j) = 1 /\ ~Relayed(d, f, k) /\ d <= f
    BY <1>1, <1>2, <1>4 DEF Relayed, RowOf, PosOf
  <2>2. RowOf(d, f, k) = f /\ PosOf(d, f, k) = IF f = d THEN k + 1 ELSE k
    BY <2>1 DEF RowOf, PosOf
  <2> QED BY <1>2, <1>3, <1>1, <2>1, <2>2
<1>5. CASE ~Relayed(d, e, j)
  <2>1. RowOf(d, e, j) = e /\ PosOf(d, e, j) = IF e = d THEN j + 1 ELSE j
    BY <1>5 DEF RowOf, PosOf
  <2>2. CASE Relayed(d, f, k)
    BY <1>2, <1>3, <2>1, <2>2 DEF Relayed, RowOf, PosOf
  <2>3. CASE ~Relayed(d, f, k)
    BY <1>1, <1>2, <1>3, <2>1, <2>3 DEF RowOf, PosOf
  <2> QED BY <2>2, <2>3
<1> QED BY <1>4, <1>5

LEMMA RelayUp ==
  ASSUME AInv, NEW d \in Dev, Relay(d)
  PROVE  UpInv'
<1>1. up \in [Dev -> Seq(AnswerMsg)] /\ log' = log
  BY DEF AInv, TInv, TypeOK, Relay
<1>2. ASSUME NEW e \in Dev, NEW k \in DOMAIN up'[e]
      PROVE  /\ RowOf(d, e, k) \in Dev /\ PosOf(d, e, k) \in DOMAIN up[RowOf(d, e, k)]
             /\ up'[e][k] = up[RowOf(d, e, k)][PosOf(d, e, k)]
             /\ e <= RowOf(d, e, k)
             /\ d = 1 => 1 < RowOf(d, e, k) \/ (1 = RowOf(d, e, k) /\ 1 < PosOf(d, e, k))
  BY <1>1, RelayFrom
<1>3. heard' = (IF d = 1 THEN heard \cup {up[d][1]} ELSE heard) /\ 1 \in DOMAIN up[d]
  BY <1>1, RelayIs
<1>4. ASSUME NEW e \in Dev, NEW k \in DOMAIN up'[e]
      PROVE  e < up'[e][k].dev /\ up'[e][k].id \in DOMAIN log
  <2>1. RowOf(d, e, k) < up'[e][k].dev /\ up'[e][k].id \in DOMAIN log /\ up'[e][k].dev \in Dev
    <3>1. up[RowOf(d, e, k)][PosOf(d, e, k)] \in AnswerMsg
      <4> HIDE DEF RowOf, PosOf
      <4>1. up[RowOf(d, e, k)] \in Seq(AnswerMsg)
        BY <1>1, <1>2
      <4> QED BY <1>2, <4>1
    <3> QED BY <1>2, <3>1 DEF AInv, UpInv, AnswerMsg
  <2> QED BY <1>2, <2>1 DEF Dev
<1>5. \A a \in heard' : a.id \in DOMAIN log
  BY <1>3 DEF AInv, UpInv
<1>6. ASSUME NEW e \in Dev, NEW f \in Dev, NEW j \in DOMAIN up'[e], NEW k \in DOMAIN up'[f],
             up'[e][j].id = up'[f][k].id, log[up'[f][k].id].type # "init",
             e < f \/ (e = f /\ j < k)
      PROVE  up'[e][j].dev < up'[f][k].dev
  <2>1. \/ RowOf(d, e, j) < RowOf(d, f, k)
        \/ RowOf(d, e, j) = RowOf(d, f, k) /\ PosOf(d, e, j) < PosOf(d, f, k)
    BY <1>1, <1>6, RelayOrder
  <2> QED BY <1>2, <1>6, <2>1 DEF AInv, UpInv
<1>7. ASSUME NEW b \in heard', NEW e \in Dev, NEW k \in DOMAIN up'[e],
             up'[e][k].id = b.id, log[b.id].type # "init"
      PROVE  b.dev < up'[e][k].dev
  <2>1. CASE b \in heard
    BY <1>2, <1>7, <2>1 DEF AInv, UpInv
  <2>2. CASE b \notin heard
    <3>1. d = 1 /\ b = up[1][1] /\ 1 \in Dev
      BY <1>3, <1>7, <2>2
    <3>2. \A f \in Dev : \A n \in DOMAIN up[f] :
            /\ b.id = up[f][n].id /\ log[up[f][n].id].type # "init"
            /\ 1 < f \/ (1 = f /\ 1 < n)
            => b.dev < up[f][n].dev
      BY <1>3, <3>1 DEF AInv, UpInv
    <3>3. 1 < RowOf(d, e, k) \/ (1 = RowOf(d, e, k) /\ 1 < PosOf(d, e, k))
      BY <1>2, <3>1
    <3> QED BY <1>2, <1>7, <3>2, <3>3
  <2> QED BY <2>1, <2>2
<1> QED BY <1>1, <1>4, <1>5, <1>6, <1>7 DEF UpInv

LEMMA RelayBehind ==
  ASSUME AInv, NEW d \in Dev, Relay(d)
  PROVE  BehindInv'
<1>1. up \in [Dev -> Seq(AnswerMsg)]
  BY DEF AInv, TInv, TypeOK
<1>2. ASSUME NEW e \in Dev, NEW k \in DOMAIN up'[e]
      PROVE  /\ RowOf(d, e, k) \in Dev /\ PosOf(d, e, k) \in DOMAIN up[RowOf(d, e, k)]
             /\ up'[e][k] = up[RowOf(d, e, k)][PosOf(d, e, k)]
  BY <1>1, RelayFrom
<1>3. heard' = (IF d = 1 THEN heard \cup {up[d][1]} ELSE heard) /\ 1 \in DOMAIN up[d]
  BY <1>1, RelayIs
<1>4. log' = log /\ \A p \in Dev : \A i : At(p, i)' <=> At(p, i)
  BY StillStays DEF At
<1> QED BY <1>2, <1>3, <1>4 DEF AInv, BehindInv

\* An answer put in the buffer before device d.
LEMMA PassUpAnswers ==
  ASSUME NEW q \in [Dev -> Seq(AnswerMsg)], NEW d \in Dev, NEW a \in AnswerMsg,
         NEW e \in Dev, NEW k \in DOMAIN PassUp(d, q, a)[e]
  PROVE  \/ k \in DOMAIN q[e] /\ PassUp(d, q, a)[e][k] = q[e][k]
         \/ e = d - 1 /\ k = Len(q[e]) + 1 /\ PassUp(d, q, a)[e][k] = a /\ d # 1
<1>1. q[e] \in Seq(AnswerMsg) /\ Len(q[e]) \in Nat /\ DOMAIN q[e] = 1 .. Len(q[e])
  OBVIOUS
<1>2. CASE d # 1 /\ e = d - 1
  <2>1. PassUp(d, q, a)[e] = Append(q[e], a)
    BY <1>2 DEF PassUp
  <2>2. /\ DOMAIN Append(q[e], a) = 1 .. Len(q[e]) + 1
        /\ Append(q[e], a)[Len(q[e]) + 1] = a
        /\ \A n \in 1 .. Len(q[e]) : Append(q[e], a)[n] = q[e][n]
    BY <1>1
  <2>3. k \in 1 .. Len(q[e]) \/ k = Len(q[e]) + 1
    BY <1>1, <2>1, <2>2
  <2> QED BY <1>1, <1>2, <2>1, <2>2, <2>3
<1>3. CASE ~(d # 1 /\ e = d - 1)
  <2>1. PassUp(d, q, a)[e] = q[e]
    BY <1>3 DEF PassUp
  <2> QED BY <2>1
<1> QED BY <1>2, <1>3

\* What the end of an instruction changes of the answers.
LEMMA FinishAnswers ==
  ASSUME AInv, NEW d \in Dev, Finish(d)
  PROVE  \/ up' = up /\ heard' = heard
         \/ \E a \in AnswerMsg :
              /\ a.dev = d /\ a.id = job[d].id /\ a.id \in DOMAIN log
              /\ log[a.id].type # "init" => Held(d, a.id)
              /\ heard' = IF d = 1 THEN heard \cup {a} ELSE heard
              /\ \A e \in Dev : \A k \in DOMAIN up'[e] :
                   \/ k \in DOMAIN up[e] /\ up'[e][k] = up[e][k]
                   \/ e = d - 1 /\ k = Len(up[e]) + 1 /\ up'[e][k] = a /\ d # 1
<1> DEFINE a == [dev |-> d, id |-> job[d].id, ok |-> job[d].ok]
<1>1. /\ Same(log, job[d].msg) /\ job[d].id = job[d].msg.id /\ job[d] \in Job
  BY FinishMoves DEF AInv
<1>2. a \in AnswerMsg /\ a.dev = d /\ a.id = job[d].id
  BY <1>1 DEF AnswerMsg, Job
<1>3. a.id \in DOMAIN log /\ (log[a.id].type # "init" => Held(d, a.id))
  BY <1>1 DEF Same, Held, Finish
<1>4. CASE Answers(d)
  <2>1. heard' = (IF d = 1 THEN heard \cup {a} ELSE heard) /\ up' = PassUp(d, up, a)
    BY <1>4 DEF Finish, Hear
  <2>2. up \in [Dev -> Seq(AnswerMsg)]
    BY DEF AInv, TInv, TypeOK
  <2> HIDE DEF a
  <2>3. \A e \in Dev : \A k \in DOMAIN PassUp(d, up, a)[e] :
          \/ k \in DOMAIN up[e] /\ PassUp(d, up, a)[e][k] = up[e][k]
          \/ e = d - 1 /\ k = Len(up[e]) + 1 /\ PassUp(d, up, a)[e][k] = a /\ d # 1
    BY <1>2, <2>2, PassUpAnswers
  <2>4. \A e \in Dev : \A k \in DOMAIN up'[e] :
          \/ k \in DOMAIN up[e] /\ up'[e][k] = up[e][k]
          \/ e = d - 1 /\ k = Len(up[e]) + 1 /\ up'[e][k] = a /\ d # 1
    BY <2>1, <2>3
  <2> QED BY <1>2, <1>3, <2>1, <2>4
<1>5. CASE ~Answers(d)
  BY <1>5 DEF Finish
<1> QED BY <1>4, <1>5

\* Device d, at an instruction, is behind every answer to it.
LEMMA HeldIsBehind ==
  ASSUME AInv, NEW d \in Dev, NEW i \in DOMAIN log, log[i].type # "init", Held(d, i)
  PROVE  /\ \A b \in heard : b.id = i => b.dev < d
         /\ \A e \in Dev : \A k \in DOMAIN up[e] : up[e][k].id = i => up[e][k].dev < d
BY DEF AInv, BehindInv, At

LEMMA FinishUp ==
  ASSUME AInv, NEW d \in Dev, Finish(d)
  PROVE  UpInv'
<1>1. log' = log /\ up \in [Dev -> Seq(AnswerMsg)]
  BY FinishMoves DEF AInv, TInv, TypeOK
<1>2. CASE up' = up /\ heard' = heard
  BY <1>1, <1>2 DEF AInv, UpInv
<1>3. ASSUME NEW a \in AnswerMsg, a.dev = d, a.id \in DOMAIN log,
             log[a.id].type # "init" => Held(d, a.id),
             heard' = IF d = 1 THEN heard \cup {a} ELSE heard,
             \A e \in Dev : \A k \in DOMAIN up'[e] :
               \/ k \in DOMAIN up[e] /\ up'[e][k] = up[e][k]
               \/ e = d - 1 /\ k = Len(up[e]) + 1 /\ up'[e][k] = a /\ d # 1
      PROVE  UpInv'
  <2>1. \A e \in Dev : \A k \in DOMAIN up'[e] :
          \/ k \in DOMAIN up[e] /\ up'[e][k] = up[e][k]
          \/ e = d - 1 /\ k = Len(up[e]) + 1 /\ up'[e][k] = a /\ d # 1
    BY <1>3
  <2>2. /\ \A e \in Dev : e \in Nat /\ e > 0
        /\ \A e \in Dev : Len(up[e]) \in Nat /\ DOMAIN up[e] = 1 .. Len(up[e])
        /\ \A e \in Dev : \A k \in DOMAIN up[e] : up[e][k].dev \in Dev
    <3>1. \A e \in Dev : e \in Nat /\ e > 0
      BY DEF Dev
    <3>2. \A e \in Dev : up[e] \in Seq(AnswerMsg) /\ Len(up[e]) \in Nat /\ DOMAIN up[e] = 1 .. Len(up[e])
      BY <1>1
    <3>3. \A e \in Dev : \A k \in DOMAIN up[e] : up[e][k] \in AnswerMsg
      BY <3>2
    <3> QED BY <3>1, <3>2, <3>3 DEF AnswerMsg
  <2>3. \A e \in Dev : \A k \in DOMAIN up'[e] : e < up'[e][k].dev /\ up'[e][k].id \in DOMAIN log
    BY <1>3, <2>1, <2>2 DEF AInv, UpInv
  <2>4. \A b \in heard' : b.id \in DOMAIN log
    BY <1>3 DEF AInv, UpInv
  <2>5. ASSUME NEW e \in Dev, NEW f \in Dev, NEW j \in DOMAIN up'[e], NEW k \in DOMAIN up'[f],
               up'[e][j].id = up'[f][k].id, log[up'[f][k].id].type # "init",
               e < f \/ (e = f /\ j < k)
        PROVE  up'[e][j].dev < up'[f][k].dev
    <3>1. CASE j \in DOMAIN up[e] /\ up'[e][j] = up[e][j] /\ k \in DOMAIN up[f] /\ up'[f][k] = up[f][k]
      BY <2>5, <3>1 DEF AInv, UpInv
    <3>2. CASE k \notin DOMAIN up[f] \/ up'[f][k] # up[f][k]
      <4>1. f = d - 1 /\ k = Len(up[f]) + 1 /\ up'[f][k] = a /\ d # 1
        BY <2>1, <3>2
      <4>2. ~(e = d - 1 /\ j = Len(up[e]) + 1)
        BY <2>2, <2>5, <4>1
      <4>3. j \in DOMAIN up[e] /\ up'[e][j] = up[e][j]
        BY <2>1, <4>2
      <4>4. up[e][j].dev < d
        BY <1>3, <2>5, <4>1, <4>3, HeldIsBehind
      <4> QED BY <1>3, <4>1, <4>3, <4>4
    <3>3. CASE k \in DOMAIN up[f] /\ up'[f][k] = up[f][k] /\ (j \notin DOMAIN up[e] \/ up'[e][j] # up[e][j])
      <4>1. e = d - 1 /\ j = Len(up[e]) + 1 /\ up'[e][j] = a /\ d # 1
        BY <2>1, <3>3
      <4>2. up[f][k].dev < d
        BY <1>3, <2>5, <3>3, <4>1, HeldIsBehind
      <4>3. e < f
        BY <2>2, <2>5, <3>3, <4>1
      <4>4. f < up[f][k].dev
        BY <3>3 DEF AInv, UpInv
      <4>5. up[f][k].dev \in Nat /\ d \in Nat /\ e \in Nat /\ f \in Nat
        BY <2>2, <3>3
      <4>6. e = d - 1
        BY <4>1
      <4> QED BY <4>2, <4>3, <4>4, <4>5, <4>6
    <3> QED BY <3>1, <3>2, <3>3
  <2>6. ASSUME NEW b \in heard', NEW e \in Dev, NEW k \in DOMAIN up'[e],
               up'[e][k].id = b.id, log[b.id].type # "init"
        PROVE  b.dev < up'[e][k].dev
    <3>1. CASE b \in heard
      <4>1. CASE k \in DOMAIN up[e] /\ up'[e][k] = up[e][k]
        BY <2>6, <3>1, <4>1 DEF AInv, UpInv
      <4>2. CASE up'[e][k] = a
        BY <1>3, <2>6, <3>1, <4>2, HeldIsBehind
      <4> QED BY <2>1, <4>1, <4>2
    <3>2. CASE b \notin heard
      <4>1. d = 1 /\ b = a /\ k \in DOMAIN up[e] /\ up'[e][k] = up[e][k]
        BY <1>3, <2>1, <2>6, <3>2
      <4>2. up[e][k].dev < d
        BY <1>3, <2>6, <4>1, HeldIsBehind
      <4>3. up[e][k].dev \in Nat /\ up[e][k].dev > 0 /\ d = 1
        BY <2>2, <4>1
      <4> QED BY <4>2, <4>3
    <3> QED BY <3>1, <3>2
  <2> QED BY <1>1, <2>3, <2>4, <2>5, <2>6 DEF UpInv
<1> QED BY <1>2, <1>3, FinishAnswers

LEMMA FinishBehind ==
  ASSUME AInv, NEW d \in Dev, Finish(d)
  PROVE  BehindInv'
<1>1. /\ log' = log /\ up \in [Dev -> Seq(AnswerMsg)] /\ job[d].id \in Id
      /\ Forwards(d) => Held(d, job[d].id)
      /\ \A e \in Dev, i \in Id : Waits(down'[e], i) <=>
           Waits(down[e], i) \/ (e = d + 1 /\ i = job[d].id /\ Forwards(d))
      /\ \A e \in Dev : \A i : Held(e, i)' <=> e # d /\ Held(e, i)
  BY FinishMoves DEF AInv, TInv, TypeOK
<1> SUFFICES ASSUME NEW p \in Dev, NEW i \in DOMAIN log, At(p, i)'
             PROVE  /\ \A b \in heard' : b.id = i => b.dev < p
                    /\ \A e \in Dev : \A k \in DOMAIN up'[e] : up'[e][k].id = i => up'[e][k].dev < p
  BY <1>1 DEF BehindInv
<1>2. log[i].type # "init" /\ i \in Id
  BY <1>1 DEF At, AInv, TInv, LogInv
<1>3. CASE Held(d, i)
  <2>1. ~Waits(down[p], i) /\ (Held(p, i) => p = d)
    BY <1>2, <1>3 DEF AInv, TInv, TokenInv
  <2>2. p = d + 1
    BY <1>1, <1>2, <2>1 DEF At
  <2>3. /\ \A b \in heard : b.id = i => b.dev < d
        /\ \A e \in Dev : \A k \in DOMAIN up[e] : up[e][k].id = i => up[e][k].dev < d
    BY <1>2, <1>3, HeldIsBehind
  <2>4. /\ \A b \in heard' : b.id = i => b.dev < d \/ b.dev = d
        /\ \A e \in Dev : \A k \in DOMAIN up'[e] : up'[e][k].id = i => up'[e][k].dev < d \/ up'[e][k].dev = d
    <3>1. CASE up' = up /\ heard' = heard
      BY <2>3, <3>1
    <3>2. ASSUME NEW a \in AnswerMsg, a.dev = d,
                 heard' = IF d = 1 THEN heard \cup {a} ELSE heard,
                 \A e \in Dev : \A k \in DOMAIN up'[e] :
                   (k \in DOMAIN up[e] /\ up'[e][k] = up[e][k]) \/ up'[e][k] = a
          PROVE  /\ \A b \in heard' : b.id = i => b.dev < d \/ b.dev = d
                 /\ \A e \in Dev : \A k \in DOMAIN up'[e] : up'[e][k].id = i => up'[e][k].dev < d \/ up'[e][k].dev = d
      BY <2>3, <3>2
    <3> QED BY <3>1, <3>2, FinishAnswers
  <2>5. /\ \A b \in heard' : b.dev \in Dev
        /\ \A e \in Dev : \A k \in DOMAIN up'[e] : up'[e][k].dev \in Dev
    <3>1. TypeOK'
      BY FinishTypes DEF AInv, TInv
    <3>2. \A e \in Dev : up'[e] \in Seq(AnswerMsg)
      BY <3>1 DEF TypeOK
    <3>3. \A e \in Dev : \A k \in DOMAIN up'[e] : up'[e][k] \in AnswerMsg
      BY <3>2
    <3>4. heard' \subseteq AnswerMsg
      BY <3>1 DEF TypeOK
    <3> QED BY <3>3, <3>4 DEF AnswerMsg
  <2>6. \A n \in Dev : n < d \/ n = d => n < p
    BY <2>2 DEF Dev
  <2> QED BY <2>4, <2>5, <2>6
<1>4. CASE ~Held(d, i)
  <2>1. At(p, i)
    BY <1>1, <1>2, <1>4 DEF At
  <2>2. CASE up' = up /\ heard' = heard
    BY <2>1, <2>2 DEF AInv, BehindInv
  <2>3. ASSUME NEW a \in AnswerMsg, a.dev = d,
               log[a.id].type # "init" => Held(d, a.id),
               heard' = IF d = 1 THEN heard \cup {a} ELSE heard,
               \A e \in Dev : \A k \in DOMAIN up'[e] :
                 (k \in DOMAIN up[e] /\ up'[e][k] = up[e][k]) \/ up'[e][k] = a
        PROVE  /\ \A b \in heard' : b.id = i => b.dev < p
               /\ \A e \in Dev : \A k \in DOMAIN up'[e] : up'[e][k].id = i => up'[e][k].dev < p
    <3>1. a.id # i
      BY <1>2, <1>4, <2>3
    <3> QED BY <2>1, <2>3, <3>1 DEF AInv, BehindInv
  <2> QED BY <2>2, <2>3, FinishAnswers
<1> QED BY <1>3, <1>4

\* Acting on an instruction neither answers it nor moves it, an INIT excepted.
LEMMA ActAnswers ==
  ASSUME AInv, NEW d \in Dev, Act(d)
  PROVE  UpInv' /\ BehindInv'
<1> DEFINE m == Head(down[d])
<1>1. /\ m \in Message /\ Same(log, m) /\ Waits(down[d], m.id)
      /\ \A e \in Dev, i \in Id : Waits(down'[e], i) <=>
           \/ Waits(down[e], i) /\ ~(e = d /\ i = m.id)
           \/ e = d + 1 /\ i = m.id /\ Goes(m)
  BY ActMoves DEF AInv
<1>2. /\ log' = log
      /\ \A e \in Dev : \A i : Held(e, i)' <=>
              IF e = d THEN i = m.id /\ m.type # "init" ELSE Held(e, i)
  BY ActHolds DEF AInv
<1>3. up' = up /\ heard' = heard
  BY DEF Act
<1>4. ASSUME NEW p \in Dev, NEW i \in DOMAIN log, At(p, i)'
      PROVE  At(p, i)
  <2>1. log[i].type # "init" /\ i \in Id
    BY <1>2, <1>4 DEF At, AInv, TInv, LogInv
  <2>2. i = m.id => m.type # "init"
    BY <1>1, <2>1 DEF Same
  <2>3. Waits(down'[p], i) => Waits(down[p], i)
    BY <1>1, <2>1, <2>2 DEF Goes
  <2> QED BY <1>1, <1>2, <1>4, <2>1, <2>3 DEF At
<1>5. UpInv'
  BY <1>2, <1>3 DEF AInv, UpInv
<1>6. BehindInv'
  BY <1>2, <1>3, <1>4 DEF AInv, BehindInv
<1> QED BY <1>5, <1>6

LEMMA SendAnswers ==
  ASSUME AInv, NEW r \in Requests, Send(r)
  PROVE  UpInv' /\ BehindInv'
<1> DEFINE n == Len(log) + 1
<1>1. /\ DOMAIN log' = 1 .. n /\ DOMAIN log' \subseteq Id /\ n \notin DOMAIN log
      /\ \A i \in DOMAIN log : i \in DOMAIN log' /\ log'[i] = log[i]
      /\ UNCHANGED <<devices, saved, work, up, heard, counts>>
      /\ \A e \in Dev, i \in Id : Waits(down'[e], i) <=> Waits(down[e], i) \/ (e = 1 /\ i = n)
  BY SendMoves DEF AInv
<1>2. DOMAIN log = 1 .. Len(log) /\ Len(log) \in Nat
  BY DEF AInv, TInv, TypeOK
<1>3. \A i \in DOMAIN log' : i # n => i \in DOMAIN log
  BY <1>1, <1>2
<1> HIDE DEF n
<1>4. up' = up /\ heard' = heard /\ \A e \in Dev : \A i : Held(e, i)' <=> Held(e, i)
  BY <1>1 DEF work, Held
<1>5. UpInv'
  BY <1>1, <1>4 DEF AInv, UpInv
<1>6. ASSUME NEW p \in Dev, NEW i \in DOMAIN log', At(p, i)'
      PROVE  /\ \A b \in heard : b.id = i => b.dev < p
             /\ \A e \in Dev : \A k \in DOMAIN up[e] : up[e][k].id = i => up[e][k].dev < p
  <2>1. CASE i = n
    BY <1>1, <2>1 DEF AInv, UpInv
  <2>2. CASE i # n
    <3>1. i \in DOMAIN log /\ i \in Id /\ log'[i] = log[i]
      BY <1>1, <1>3, <1>6, <2>2
    <3>2. At(p, i)
      BY <1>1, <1>4, <1>6, <2>2, <3>1 DEF At
    <3> QED BY <3>1, <3>2 DEF AInv, BehindInv
  <2> QED BY <2>1, <2>2
<1>7. BehindInv'
  BY <1>4, <1>6 DEF BehindInv
<1> QED BY <1>5, <1>7

LEMMA CutAnswers ==
  ASSUME AInv, NEW d \in Dev, Cut(d)
  PROVE  UpInv' /\ BehindInv'
<1>1. /\ log' = log /\ heard' = heard
      /\ \A e \in Dev : \A i : Waits(down'[e], i) => Waits(down[e], i)
      /\ \A e \in Dev : \A i : Held(e, i)' => Held(e, i)
  BY CutMoves DEF AInv
<1>2. \A e \in Dev : \A k \in DOMAIN up'[e] : k \in DOMAIN up[e] /\ up'[e][k] = up[e][k]
  BY DEF Cut, AInv, TInv, TypeOK
<1>3. UpInv'
  BY <1>1, <1>2 DEF AInv, UpInv
<1>4. \A p \in Dev : \A i : At(p, i)' => At(p, i)
  BY <1>1 DEF At
<1>5. BehindInv'
  BY <1>1, <1>2, <1>4 DEF AInv, BehindInv
<1> QED BY <1>3, <1>5

LEMMA StillAnswers ==
  ASSUME AInv, UNCHANGED <<down, at, job, log, up, heard>>
  PROVE  UpInv' /\ BehindInv'
<1>1. UpInv'
  BY DEF AInv, UpInv
<1>2. \A p \in Dev : \A i : At(p, i)' <=> At(p, i)
  BY DEF At, Held
<1>3. BehindInv'
  BY <1>2 DEF AInv, BehindInv
<1> QED BY <1>1, <1>3

LEMMA NextAnswers ==
  ASSUME AInv, [Next]_vars
  PROVE  AInv'
<1>1. TInv'
  BY NextTokens DEF AInv
<1>2. CASE UNCHANGED vars
  <2>1. UNCHANGED <<down, at, job, log, up, heard>>
    BY <1>2 DEF vars, work, lines
  <2> QED BY <1>1, <2>1, StillAnswers DEF AInv
<1>3. ASSUME NEW d \in Dev, LocalPower(d) \/ SequenceEnds(d) \/ Save(d)
      PROVE  AInv'
  <2>1. UNCHANGED <<down, at, job, log, up, heard>>
    BY <1>3 DEF LocalPower, SequenceEnds, Save, work, lines
  <2> QED BY <1>1, <2>1, StillAnswers DEF AInv
<1>4. ASSUME NEW d \in Dev, Act(d) PROVE AInv'
  BY <1>1, <1>4, ActAnswers DEF AInv
<1>5. ASSUME NEW d \in Dev, Finish(d) PROVE AInv'
  BY <1>1, <1>5, FinishUp, FinishBehind DEF AInv
<1>6. ASSUME NEW d \in Dev, Relay(d) PROVE AInv'
  BY <1>1, <1>6, RelayUp, RelayBehind DEF AInv
<1>7. ASSUME NEW d \in Dev, Cut(d) PROVE AInv'
  BY <1>1, <1>7, CutAnswers DEF AInv
<1>8. ASSUME NEW r \in Requests, Send(r) PROVE AInv'
  BY <1>1, <1>8, SendAnswers DEF AInv
<1>9. CASE Next
  BY <1>3, <1>4, <1>5, <1>6, <1>7, <1>8, <1>9 DEF Next, Running, Own
<1> QED BY <1>2, <1>9

\* What the host newly hears is from a device beyond those it has heard.
LEMMA HearsOutwards ==
  ASSUME AInv, [Next]_vars, NEW a \in heard' \ heard, log[a.id].type # "init",
         NEW b \in heard, b.id = a.id
  PROVE  b.dev < a.dev
<1>1. CASE UNCHANGED vars
  BY <1>1 DEF vars, lines
<1>2. ASSUME NEW d \in Dev, Act(d) \/ LocalPower(d) \/ SequenceEnds(d) \/ Save(d) \/ Cut(d)
      PROVE  heard' = heard
  BY <1>2 DEF Act, LocalPower, SequenceEnds, Save, Cut, lines
<1>3. ASSUME NEW r \in Requests, Send(r) PROVE heard' = heard
  BY <1>3 DEF Send
<1>4. ASSUME NEW d \in Dev, Finish(d) PROVE b.dev < a.dev
  <2>1. a.dev = d /\ a.id \in DOMAIN log /\ Held(d, a.id)
    BY <1>4, FinishAnswers
  <2> QED BY <2>1, HeldIsBehind
<1>5. ASSUME NEW d \in Dev, Relay(d) PROVE b.dev < a.dev
  <2>1. d = 1 /\ a = up[d][1] /\ 1 \in DOMAIN up[d]
    BY <1>5, RelayIs DEF AInv, TInv, TypeOK
  <2> QED BY <2>1 DEF AInv, UpInv
<1>6. CASE Next
  BY <1>2, <1>3, <1>4, <1>5, <1>6 DEF Next, Running, Own
<1> QED BY <1>1, <1>6

\* In a chain of any length the host hears of one instruction, an INIT
\* excepted, from the nearer device first, whatever was cut off on the way: a
\* device answers before it forwards, and relays in the order it receives.
THEOREM NearestIsFirst == Spec => NearestFirst
<1>1. Init => AInv
  <2> SUFFICES ASSUME Init PROVE AInv
    OBVIOUS
  <2>1. TInv
    BY InitTypes, InitTokens DEF TInv
  <2>2. (\A e \in Dev : up[e] = << >>) /\ heard = {} /\ log = << >>
    BY DEF Init
  <2>3. UpInv
    BY <2>2 DEF UpInv
  <2>4. BehindInv
    BY <2>2 DEF BehindInv
  <2> QED BY <2>1, <2>3, <2>4 DEF AInv
<1>2. AInv /\ [Next]_vars => AInv'
  BY NextAnswers
<1>3. AInv /\ [Next]_vars =>
        [\A a \in heard' \ heard : log[a.id].type # "init" =>
           \A b \in heard : b.id = a.id => b.dev < a.dev]_vars
  BY HearsOutwards
<1> QED BY <1>1, <1>2, <1>3, PTL DEF Spec, NearestFirst
-----------------------------------------------------------------------------
(* What the host is told *)

Fate(ok) == IF ok THEN "ok" ELSE "refused"

\* The instruction at hand, and every answer heard or on its way, says what
\* the device made of it.
TruthInv ==
  /\ \A d \in Dev : at[d] = "acted" => result[d][job[d].id] = Fate(job[d].ok)
  /\ \A a \in Reports : result[a.dev][a.id] = Fate(a.ok)

\* What was carried out will be answered, whatever address it left.
OkInv == \A d \in Dev : at[d] = "acted" /\ job[d].ok => Answers(d)

ToldInv == TInv /\ TruthInv /\ OkInv

LEMMA ReportsAre ==
  ASSUME up \in [Dev -> Seq(AnswerMsg)]
  PROVE  \A a : a \in Reports <=>
           a \in heard \/ \E e \in Dev : \E k \in DOMAIN up[e] : a = up[e][k]
BY DEF Reports

LEMMA ReportsAreThen ==
  ASSUME TInv'
  PROVE  \A a : a \in Reports' <=>
           a \in heard' \/ \E e \in Dev : \E k \in DOMAIN up'[e] : a = up'[e][k]
BY DEF Reports

LEMMA ReportsTypes == TypeOK => Reports \subseteq AnswerMsg
<1> SUFFICES ASSUME TypeOK, NEW a \in Reports PROVE a \in AnswerMsg
  OBVIOUS
<1>1. heard \subseteq AnswerMsg /\ \A e \in Dev : up[e] \in Seq(AnswerMsg)
  BY DEF TypeOK
<1>2. \A e \in Dev : \A k \in DOMAIN up[e] : up[e][k] \in AnswerMsg
  BY <1>1
<1> QED BY <1>1, <1>2 DEF Reports

\* Passing an answer up keeps every other, and those that arrive before the
\* first device are the host's.
LEMMA PassUpKeeps ==
  ASSUME NEW q \in [Dev -> Seq(AnswerMsg)], NEW d \in Dev, NEW a \in AnswerMsg
  PROVE  /\ \A e \in Dev : \A k \in DOMAIN q[e] :
              k \in DOMAIN PassUp(d, q, a)[e] /\ PassUp(d, q, a)[e][k] = q[e][k]
         /\ d # 1 => \E e \in Dev : \E k \in DOMAIN PassUp(d, q, a)[e] : a = PassUp(d, q, a)[e][k]
<1>1. CASE d = 1
  BY <1>1 DEF PassUp
<1>2. CASE d # 1
  <2>1. d - 1 \in Dev /\ PassUp(d, q, a) = [q EXCEPT ![d - 1] = Append(@, a)]
    BY <1>2 DEF PassUp, Dev
  <2> DEFINE s == Append(q[d - 1], a)
  <2>2. /\ Len(q[d - 1]) + 1 \in DOMAIN s /\ s[Len(q[d - 1]) + 1] = a
        /\ \A k \in DOMAIN q[d - 1] : k \in DOMAIN s /\ s[k] = q[d - 1][k]
    BY <2>1
  <2>3. PassUp(d, q, a)[d - 1] = s /\ \A e \in Dev : e # d - 1 => PassUp(d, q, a)[e] = q[e]
    BY <2>1
  <2> HIDE DEF s
  <2> QED BY <2>1, <2>2, <2>3
<1> QED BY <1>1, <1>2

\* Relaying an answer loses none and makes none.
LEMMA RelayReports ==
  ASSUME TInv, TInv', NEW d \in Dev, Relay(d)
  PROVE  Reports' = Reports
<1>1. up \in [Dev -> Seq(AnswerMsg)]
  BY DEF TInv, TypeOK
<1>2. ASSUME NEW e \in Dev
      PROVE  /\ 1 \in DOMAIN up[d]
             /\ heard' = IF d = 1 THEN heard \cup {up[d][1]} ELSE heard
             /\ e = d => DOMAIN up'[e] = 1 .. Len(up[d]) - 1
                         /\ \A k \in 1 .. Len(up[d]) - 1 : up'[e][k] = up[d][k + 1]
             /\ e = d - 1 => DOMAIN up'[e] = 1 .. Len(up[e]) + 1
                             /\ up'[e][Len(up[e]) + 1] = up[d][1]
                             /\ \A k \in 1 .. Len(up[e]) : up'[e][k] = up[e][k]
             /\ e # d /\ e # d - 1 => up'[e] = up[e]
  BY <1>1, RelayIs
<1>3. ASSUME NEW a \in Reports' PROVE a \in Reports
  <2>1. CASE a \in heard'
    BY <1>1, <1>2, <2>1, ReportsAre
  <2>2. ASSUME NEW e \in Dev, NEW k \in DOMAIN up'[e], a = up'[e][k] PROVE a \in Reports
    <3>1. /\ RowOf(d, e, k) \in Dev /\ PosOf(d, e, k) \in DOMAIN up[RowOf(d, e, k)]
          /\ up'[e][k] = up[RowOf(d, e, k)][PosOf(d, e, k)]
      BY <1>1, RelayFrom
    <3> QED BY <1>1, <2>2, <3>1, ReportsAre
  <2> QED BY <2>1, <2>2, ReportsAreThen
<1>4. ASSUME NEW a \in Reports PROVE a \in Reports'
  <2>1. CASE a \in heard
    BY <1>2, <2>1, ReportsAreThen
  <2>2. ASSUME NEW e \in Dev, NEW k \in DOMAIN up[e], a = up[e][k] PROVE a \in Reports'
    <3>0. /\ up[e] \in Seq(AnswerMsg) /\ DOMAIN up[e] = 1 .. Len(up[e]) /\ Len(up[e]) \in Nat
          /\ k \in Nat /\ k > 0 /\ k <= Len(up[e])
      BY <1>1, <2>2
    <3>1. CASE e = d /\ k # 1
      <4>1. k - 1 \in 1 .. Len(up[d]) - 1
        BY <3>0, <3>1
      <4>2. k - 1 \in DOMAIN up'[d] /\ up'[d][k - 1] = up[d][k - 1 + 1]
        BY <1>2, <4>1
      <4>3. k - 1 + 1 = k
        BY <3>0
      <4> QED BY <2>2, <3>1, <4>2, <4>3, ReportsAreThen
    <3>2. CASE e = d /\ k = 1 /\ d = 1
      BY <1>2, <2>2, <3>2, ReportsAreThen
    <3>3. CASE e = d /\ k = 1 /\ d # 1
      <4>1. d - 1 \in Dev /\ up[d - 1] \in Seq(AnswerMsg) /\ Len(up[d - 1]) \in Nat
        BY <1>1, <3>3 DEF Dev
      <4>2. Len(up[d - 1]) + 1 \in DOMAIN up'[d - 1] /\ up'[d - 1][Len(up[d - 1]) + 1] = a
        BY <1>2, <2>2, <3>3, <4>1
      <4> QED BY <4>1, <4>2, ReportsAreThen
    <3>4. CASE e # d
      <4>1. k \in DOMAIN up'[e] /\ up'[e][k] = up[e][k]
        BY <1>2, <2>2, <3>0, <3>4
      <4> QED BY <2>2, <4>1, ReportsAreThen
    <3> QED BY <3>1, <3>2, <3>3, <3>4
  <2> QED BY <1>1, <2>1, <2>2, ReportsAre
<1> QED BY <1>3, <1>4

\* The end of an instruction adds its answer, if there is one.
LEMMA FinishReports ==
  ASSUME TInv, TInv', NEW d \in Dev, Finish(d)
  PROVE  Reports' = IF Answers(d)
                      THEN Reports \cup {[dev |-> d, id |-> job[d].id, ok |-> job[d].ok]}
                      ELSE Reports
<1> DEFINE a == [dev |-> d, id |-> job[d].id, ok |-> job[d].ok]
<1>1. up \in [Dev -> Seq(AnswerMsg)] /\ job[d] \in Job
  BY FinishMoves DEF TInv, TypeOK
<1>2. a \in AnswerMsg
  BY <1>1 DEF AnswerMsg, Job
<1>3. CASE ~Answers(d)
  BY <1>3 DEF Finish, Reports
<1>4. CASE Answers(d)
  <2>1. heard' = (IF d = 1 THEN heard \cup {a} ELSE heard) /\ up' = PassUp(d, up, a)
    BY <1>4 DEF Finish, Hear
  <2> HIDE DEF a
  <2>2. \A e \in Dev : \A k \in DOMAIN PassUp(d, up, a)[e] :
          \/ k \in DOMAIN up[e] /\ PassUp(d, up, a)[e][k] = up[e][k]
          \/ PassUp(d, up, a)[e][k] = a
    BY <1>1, <1>2, PassUpAnswers
  <2>3. /\ \A e \in Dev : \A k \in DOMAIN up[e] :
             k \in DOMAIN PassUp(d, up, a)[e] /\ PassUp(d, up, a)[e][k] = up[e][k]
        /\ d # 1 => \E e \in Dev : \E k \in DOMAIN PassUp(d, up, a)[e] : a = PassUp(d, up, a)[e][k]
    BY <1>1, <1>2, PassUpKeeps
  <2>4. /\ \A e \in Dev : \A k \in DOMAIN up'[e] :
             (k \in DOMAIN up[e] /\ up'[e][k] = up[e][k]) \/ up'[e][k] = a
        /\ \A e \in Dev : \A k \in DOMAIN up[e] : k \in DOMAIN up'[e] /\ up'[e][k] = up[e][k]
        /\ d # 1 => \E e \in Dev : \E k \in DOMAIN up'[e] : a = up'[e][k]
    BY <2>1, <2>2, <2>3
  <2>5. a \in Reports'
    BY <2>1, <2>4, ReportsAreThen
  <2>6. ASSUME NEW b \in Reports PROVE b \in Reports'
    BY <1>1, <2>1, <2>4, ReportsAre, ReportsAreThen
  <2>7. ASSUME NEW b \in Reports', b # a PROVE b \in Reports
    <3>1. CASE b \in heard'
      BY <1>1, <2>1, <2>7, <3>1, ReportsAre
    <3>2. ASSUME NEW e \in Dev, NEW k \in DOMAIN up'[e], b = up'[e][k] PROVE b \in Reports
      BY <1>1, <2>4, <2>7, <3>2, ReportsAre
    <3> QED BY <3>1, <3>2, ReportsAreThen
  <2>8. Reports' = Reports \cup {a}
    BY <2>5, <2>6, <2>7
  <2> QED BY <1>4, <2>8 DEF a
<1> QED BY <1>3, <1>4

\* A power cut makes no answer.
LEMMA CutReports ==
  ASSUME TInv, TInv', NEW d \in Dev, Cut(d)
  PROVE  Reports' \subseteq Reports
<1>1. up \in [Dev -> Seq(AnswerMsg)] /\ heard' = heard
  BY DEF TInv, TypeOK, Cut
<1>2. \A e \in Dev : \A k \in DOMAIN up'[e] : k \in DOMAIN up[e] /\ up'[e][k] = up[e][k]
  BY <1>1 DEF Cut
<1> QED BY <1>1, <1>2, ReportsAre, ReportsAreThen

-----------------------------------------------------------------------------
LEMMA ActTells ==
  ASSUME ToldInv, NEW d \in Dev, Act(d)
  PROVE  TruthInv' /\ OkInv' /\ (NothingUnreported => NothingUnreported')
<1> DEFINE m  == Head(down[d])
           ok == Accepts(d, m)
<1>1. m \in Message /\ Same(log, m) /\ Waits(down[d], m.id)
  BY ActMoves DEF ToldInv
<1>2. /\ log' = log /\ cuts' = cuts /\ at' = [at EXCEPT ![d] = "acted"]
      /\ job' = [job EXCEPT ![d] = [id |-> m.id, msg |-> m, ok |-> ok, last |-> addr[d]]]
      /\ result' = [result EXCEPT ![d][m.id] = Fate(ok)]
  BY ActHolds DEF ToldInv, Fate
<1>3. /\ addr' = (IF ok THEN [addr EXCEPT ![d] = NewAddr(d, m)] ELSE addr)
      /\ up' = up /\ heard' = heard /\ at[d] = "scan"
  BY DEF Act
<1>4. /\ m.id \in Id /\ result[d][m.id] = "none"
  <2>1. m.id \in Id /\ d <= d
    BY <1>1 DEF Message, Dev
  <2> QED BY <1>1, <2>1 DEF ToldInv, TInv, TokenInv
<1>5. ok => m.addr \in {NewAddr(d, m), Broadcast, addr[d]}
  BY DEF Accepts, NewAddr
<1>6. ok \in BOOLEAN
  BY DEF Accepts
<1>7. TypeOK
  BY DEF ToldInv, TInv
<1> HIDE DEF m, ok
<1>8. /\ result'[d][m.id] = Fate(ok)
      /\ \A e \in Dev, i \in Id : ~(e = d /\ i = m.id) => result'[e][i] = result[e][i]
  BY <1>2, <1>4, <1>7 DEF TypeOK
<1>9. /\ at'[d] = "acted" /\ job'[d].id = m.id /\ job'[d].msg = m /\ job'[d].ok = ok
      /\ job'[d].last = addr[d]
      /\ \A e \in Dev : e # d => at'[e] = at[e] /\ job'[e] = job[e] /\ addr'[e] = addr[e]
      /\ addr'[d] = IF ok THEN NewAddr(d, m) ELSE addr[d]
  BY <1>2, <1>3, <1>7 DEF TypeOK
<1>10. Reports' = Reports
  BY <1>3 DEF Reports
<1>11. \A e \in Dev : at[e] = "acted" => job[e].id \in Id
  BY <1>7 DEF TypeOK, Job
<1>12. \A a \in Reports : a.dev \in Dev /\ a.id \in Id
  BY <1>7, ReportsTypes DEF AnswerMsg
<1>13. TruthInv'
  <2>1. ASSUME NEW e \in Dev, at'[e] = "acted" PROVE result'[e][job'[e].id] = Fate(job'[e].ok)
    BY <1>8, <1>9, <1>11, <2>1 DEF ToldInv, TruthInv
  <2>2. ASSUME NEW a \in Reports PROVE result'[a.dev][a.id] = Fate(a.ok)
    <3>1. ~(a.dev = d /\ a.id = m.id)
      BY <1>4 DEF ToldInv, TruthInv, Fate
    <3> QED BY <1>8, <1>12, <3>1 DEF ToldInv, TruthInv
  <2> QED BY <1>10, <2>1, <2>2 DEF TruthInv
<1>14. OkInv'
  BY <1>5, <1>9 DEF ToldInv, OkInv, Answers
<1>15. ASSUME NothingUnreported PROVE NothingUnreported'
  <2> SUFFICES ASSUME cuts' = 0, NEW i \in DOMAIN log, NEW e \in Dev,
                      result'[e][i] = "ok" \/ (ToAll(i) /\ result'[e][i] = "refused")
               PROVE  \/ at'[e] = "acted" /\ job'[e].id = i
                      \/ \E a \in Reports : a.dev = e /\ a.id = i
    BY <1>2, <1>10 DEF NothingUnreported, Sent, ToAll
  <2>1. CASE e = d /\ i = m.id
    BY <1>9, <2>1
  <2>2. CASE ~(e = d /\ i = m.id)
    <3>1. i \in Id /\ cuts = 0
      BY <1>2 DEF ToldInv, TInv, LogInv
    <3>2. result[e][i] = "ok" \/ (ToAll(i) /\ result[e][i] = "refused")
      BY <1>8, <2>2, <3>1
    <3>3. \/ at[e] = "acted" /\ job[e].id = i
          \/ \E a \in Reports : a.dev = e /\ a.id = i
      BY <1>15, <3>1, <3>2 DEF NothingUnreported, Sent
    <3> QED BY <1>3, <1>9, <3>3
  <2> QED BY <2>1, <2>2
<1> QED BY <1>13, <1>14, <1>15

LEMMA FinishTells ==
  ASSUME ToldInv, TInv', NEW d \in Dev, Finish(d)
  PROVE  TruthInv' /\ OkInv' /\ (NothingUnreported => NothingUnreported')
<1> DEFINE a == [dev |-> d, id |-> job[d].id, ok |-> job[d].ok]
<1>1. /\ Same(log, job[d].msg) /\ job[d].id = job[d].msg.id
      /\ log' = log /\ result' = result /\ cuts' = cuts /\ addr' = addr /\ at[d] = "acted"
      /\ \A e \in Dev : at'[e] = "acted" => at[e] = "acted" /\ job'[e] = job[e] /\ e # d
  BY FinishMoves DEF ToldInv, Finish
<1>2. \A e \in Dev : e # d => at'[e] = at[e] /\ job'[e] = job[e]
  BY DEF Finish, ToldInv, TInv, TypeOK
<1>3. Reports' = IF Answers(d) THEN Reports \cup {a} ELSE Reports
  BY FinishReports DEF ToldInv
<1>4. a.dev = d /\ a.id = job[d].id /\ result[a.dev][a.id] = Fate(a.ok)
  BY <1>1 DEF ToldInv, TruthInv
<1> HIDE DEF a
<1>5. TruthInv'
  BY <1>1, <1>3, <1>4 DEF ToldInv, TruthInv
<1>6. OkInv'
  BY <1>1 DEF ToldInv, OkInv, Answers
<1>7. ASSUME NothingUnreported PROVE NothingUnreported'
  <2> SUFFICES ASSUME cuts = 0, NEW i \in DOMAIN log, NEW e \in Dev,
                      result[e][i] = "ok" \/ (ToAll(i) /\ result[e][i] = "refused")
               PROVE  \/ at'[e] = "acted" /\ job'[e].id = i
                      \/ \E b \in Reports' : b.dev = e /\ b.id = i
    BY <1>1 DEF NothingUnreported, Sent, ToAll
  <2>1. \/ at[e] = "acted" /\ job[e].id = i
        \/ \E b \in Reports : b.dev = e /\ b.id = i
    BY <1>7 DEF NothingUnreported, Sent
  <2>2. CASE \E b \in Reports : b.dev = e /\ b.id = i
    BY <1>3, <2>2
  <2>3. CASE e # d /\ at[e] = "acted" /\ job[e].id = i
    BY <1>2, <2>3
  <2>4. CASE e = d /\ job[d].id = i
    <3>1. result[d][i] = "ok" => Answers(d)
      BY <1>1, <2>4 DEF ToldInv, TruthInv, OkInv, Fate
    <3>2. ToAll(i) => Answers(d)
      BY <1>1, <2>4 DEF ToAll, Same, Answers
    <3> QED BY <1>3, <1>4, <2>4, <3>1, <3>2
  <2> QED BY <2>1, <2>2, <2>3, <2>4
<1> QED BY <1>5, <1>6, <1>7

LEMMA StillTells ==
  ASSUME ToldInv, UNCHANGED <<addr, at, job, result, log, cuts>>, Reports' = Reports
  PROVE  TruthInv' /\ OkInv' /\ (NothingUnreported => NothingUnreported')
<1>1. TruthInv'
  BY DEF ToldInv, TruthInv
<1>2. OkInv'
  BY DEF ToldInv, OkInv, Answers
<1>3. NothingUnreported => NothingUnreported'
  BY DEF NothingUnreported, Sent, ToAll
<1> QED BY <1>1, <1>2, <1>3

LEMMA SendTells ==
  ASSUME ToldInv, NEW r \in Requests, Send(r)
  PROVE  TruthInv' /\ OkInv' /\ (NothingUnreported => NothingUnreported')
<1> DEFINE n == Len(log) + 1
<1>1. /\ DOMAIN log' = 1 .. n /\ n \in Id /\ n \notin DOMAIN log
      /\ \A i \in DOMAIN log : i \in DOMAIN log' /\ log'[i] = log[i]
      /\ UNCHANGED <<devices, saved, work, up, heard, counts>>
  BY SendMoves DEF ToldInv
<1>2. Reports' = Reports /\ UNCHANGED <<addr, at, job, result, cuts>>
  BY <1>1 DEF Reports, devices, work, counts
<1>3. TruthInv' /\ OkInv'
  BY <1>2 DEF ToldInv, TruthInv, OkInv, Answers
<1>4. ASSUME NothingUnreported PROVE NothingUnreported'
  <2> SUFFICES ASSUME cuts = 0, NEW i \in DOMAIN log', NEW e \in Dev,
                      result[e][i] = "ok" \/ (ToAll(i)' /\ result[e][i] = "refused")
               PROVE  \/ at[e] = "acted" /\ job[e].id = i
                      \/ \E b \in Reports : b.dev = e /\ b.id = i
    BY <1>2 DEF NothingUnreported, Sent
  <2>1. DOMAIN log = 1 .. Len(log) /\ Len(log) \in Nat
    BY DEF ToldInv, TInv, TypeOK
  <2>2. i \in Id
    <3>1. DOMAIN log \subseteq Id
      BY DEF ToldInv, TInv, LogInv
    <3> QED BY <1>1, <2>1, <3>1
  <2>3. i \in DOMAIN log
    BY <2>2 DEF ToldInv, TInv, LogInv
  <2>4. ToAll(i)' <=> ToAll(i)
    BY <1>1, <2>3 DEF ToAll
  <2> QED BY <1>4, <2>3, <2>4 DEF NothingUnreported, Sent
<1> QED BY <1>3, <1>4

LEMMA CutTells ==
  ASSUME ToldInv, TInv', NEW d \in Dev, Cut(d)
  PROVE  TruthInv' /\ OkInv' /\ NothingUnreported'
<1>1. /\ result' = result /\ cuts' = cuts + 1
      /\ \A e \in Dev : at'[e] = "acted" =>
           at[e] = "acted" /\ job'[e] = job[e] /\ addr'[e] = addr[e]
      /\ Reports' \subseteq Reports
  BY CutMoves, CutReports DEF ToldInv
<1>2. TruthInv' /\ OkInv'
  BY <1>1 DEF ToldInv, TruthInv, OkInv, Answers
<1>3. cuts' # 0
  BY <1>1 DEF ToldInv, TInv, TypeOK
<1> QED BY <1>2, <1>3 DEF NothingUnreported

LEMMA NextTells ==
  ASSUME ToldInv, [Next]_vars
  PROVE  ToldInv' /\ (NothingUnreported => NothingUnreported')
<1>1. TInv'
  BY NextTokens DEF ToldInv
<1>2. CASE UNCHANGED vars
  <2>1. UNCHANGED <<addr, at, job, result, log, cuts>> /\ Reports' = Reports
    BY <1>2 DEF vars, devices, work, lines, counts, Reports
  <2> QED BY <1>1, <2>1, StillTells DEF ToldInv
<1>3. ASSUME NEW d \in Dev, LocalPower(d) \/ SequenceEnds(d) \/ Save(d)
      PROVE  ToldInv' /\ (NothingUnreported => NothingUnreported')
  <2>1. UNCHANGED <<addr, at, job, result, log, cuts>> /\ Reports' = Reports
    BY <1>3 DEF LocalPower, SequenceEnds, Save, devices, work, lines, counts, Reports
  <2> QED BY <1>1, <2>1, StillTells DEF ToldInv
<1>4. ASSUME NEW d \in Dev, Relay(d)
      PROVE  ToldInv' /\ (NothingUnreported => NothingUnreported')
  <2>1. UNCHANGED <<addr, at, job, result, log, cuts>>
    BY <1>4 DEF Relay, devices, work, counts
  <2>2. Reports' = Reports
    BY <1>1, <1>4, RelayReports DEF ToldInv
  <2> QED BY <1>1, <2>1, <2>2, StillTells DEF ToldInv
<1>5. ASSUME NEW d \in Dev, Act(d) \/ Finish(d) \/ Cut(d)
      PROVE  ToldInv' /\ (NothingUnreported => NothingUnreported')
  BY <1>1, <1>5, ActTells, FinishTells, CutTells DEF ToldInv
<1>6. ASSUME NEW r \in Requests, Send(r)
      PROVE  ToldInv' /\ (NothingUnreported => NothingUnreported')
  BY <1>1, <1>6, SendTells DEF ToldInv
<1>7. CASE Next
  BY <1>3, <1>4, <1>5, <1>6, <1>7 DEF Next, Running, Own
<1> QED BY <1>2, <1>7

LEMMA InitTells == Init => ToldInv /\ NothingUnreported
<1> SUFFICES ASSUME Init PROVE ToldInv /\ NothingUnreported
  OBVIOUS
<1>1. TInv
  BY InitTypes, InitTokens DEF TInv
<1>2. /\ \A e \in Dev : up[e] = << >> /\ at[e] = "scan"
      /\ heard = {} /\ log = << >> /\ up \in [Dev -> Seq(AnswerMsg)]
  BY <1>1 DEF Init, TInv, TypeOK
<1>3. Reports = {}
  BY <1>2, ReportsAre
<1> QED BY <1>1, <1>2, <1>3 DEF ToldInv, TruthInv, OkInv, NothingUnreported, Sent

\* In a chain of any length, over power cuts, resets and new addresses, every
\* answer the host has heard is what the device made of the instruction, and
\* still is: a device is at one instruction once, so that no answer is
\* overtaken by a second verdict, nor held against the wrong device.
THEOREM AnswersTrue == Spec => []AnswersAreTrue
<1>1. Init => ToldInv
  BY InitTells
<1>2. ToldInv /\ [Next]_vars => ToldInv'
  BY NextTells
<1>3. ToldInv => AnswersAreTrue
  BY DEF ToldInv, TruthInv, Reports, Fate, AnswersAreTrue
<1> QED BY <1>1, <1>2, <1>3, PTL DEF Spec

\* While no device loses power, what any device of any chain carries out, and
\* what it makes of an instruction to all, has an answer: being given, in one
\* of the buffers on the way, or heard.  A device that a reset has given another
\* address answers all the same (instruction_handle looks at both addresses).
THEOREM AllReported == Spec => []NothingUnreported
<1>1. Init => ToldInv /\ NothingUnreported
  BY InitTells
<1>2. ToldInv /\ NothingUnreported /\ [Next]_vars => ToldInv' /\ NothingUnreported'
  BY NextTells
<1> QED BY <1>1, <1>2, PTL DEF Spec
=============================================================================
