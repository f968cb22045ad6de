------------------------------- MODULE Cascade -------------------------------
(***************************************************************************)
(* The chain of devices behind one host: instruction_handle, the feedback  *)
(* to the host and the forwarding to the next device.  Every device's      *)
(* uart2 leads to the one before it (the host, for the first) and its      *)
(* uart1 to the next.  user_task handles one instruction at a time, in     *)
(* three steps another device or app_core can come between: act on it,     *)
(* answer it, pass it on.  What comes up from the next device is passed on *)
(* by app_core as it is.  Lines lose nothing; a device that loses power    *)
(* loses what it had received and the address it had not yet saved.        *)
(***************************************************************************)
EXTENDS Integers, Sequences, FiniteSets

CONSTANTS
  M,            \* the devices are 1 .. M, 1 next to the host
  Broadcast,    \* the address of all devices, 0xFF
  StoredAddrs,  \* addresses the devices may have in flash at first
  Requests,     \* what the host may send: records type, addr, good
  MaxRequests,  \* bound: instructions the host sends
  MaxUpsets     \* bound: sequences begun by keys or schedules, and power cuts

Dev     == 1 .. M
Address == 0 .. Broadcast
Type    == {"power_on", "power_off", "relay", "set", "init", "reset"}

\* good: the payload is in range, or the code word 0x5C is right.
Request == [type : Type, addr : Address, good : BOOLEAN]

ASSUME MAssumption         == M \in Nat \ {0}
ASSUME BroadcastAssumption == Broadcast \in Nat /\ Broadcast > 1
ASSUME StoredAssumption    == StoredAddrs \subseteq 0 .. Broadcast - 1
ASSUME RequestsAssumption  == Requests \subseteq Request
ASSUME BoundsAssumption    == MaxRequests \in Nat /\ MaxUpsets \in Nat

Id == 1 .. MaxRequests

VARIABLES
  addr,    \* sequencers.addr of each device
  phase,   \* "off", "on", or in a sequence: "rising", "falling"
  saving,  \* a MSG_USER_SAVE_INFO is in the device's msg_task queue
  flash,   \* the address in flash
  down,    \* instructions the device has received and not begun
  at,      \* how far user_task is: "scan" or "acted"
  job,     \* the instruction it is at, ret = 0, last_sequencer_addr
  up,      \* answers received from the next device and not passed on
  heard,   \* answers the host has received
  log,     \* history: what the host has sent; the index is the id
  result,  \* history: what each device made of each instruction
  took,    \* history: the INIT a device has its address from, 0 for none
  flash_took, \* history: the same for the address in flash
  locals, cuts  \* how many sequences were begun by hand, how many power cuts

devices == <<addr, phase, took>>
saved   == <<saving, flash, flash_took>>
work    == <<at, job, result>>
lines   == <<down, up, heard, log>>
counts  == <<locals, cuts>>
vars    == <<devices, saved, work, lines, counts>>

-----------------------------------------------------------------------------

Message == [id : Id, type : Type, addr : Address, good : BOOLEAN]
Job     == [id : Id, msg : Message, ok : BOOLEAN, last : 0 .. Broadcast - 1]
NoJob   == [id |-> 0]

Delayed(d) == phase[d] \in {"rising", "falling"}

\* The handlers of instruction_handler_func.c return 0.
Accepts(d, m) ==
  /\ m.good
  /\ IF m.type = "init" THEN m.addr # Broadcast ELSE m.addr \in {addr[d], Broadcast}
  /\ ~Delayed(d)
  /\ m.type = "relay" => phase[d] = "on"

NewAddr(d, m) ==
  CASE m.type = "init"  -> m.addr
    [] m.type = "reset" -> 1
    [] OTHER            -> addr[d]

NewPhase(d, m) ==
  CASE m.type = "power_on" /\ phase[d] = "off"            -> "rising"
    [] m.type \in {"power_off", "reset"} /\ phase[d] = "on" -> "falling"
    [] OTHER                                              -> phase[d]

-----------------------------------------------------------------------------
(* Steps of one device *)

\* The message is put in the next device's buffer; the last one has none.
PassDown(d, q, m) == IF d = M THEN q ELSE [q EXCEPT ![d + 1] = Append(@, m)]

\* Mutant: an INIT is passed on unchanged.
InitUnchanged(d, m) ==
  IF m.good /\ m.addr # Broadcast /\ m.addr + 1 # Broadcast
    THEN PassDown(d, [down EXCEPT ![d] = Tail(@)], m)
    ELSE [down EXCEPT ![d] = Tail(@)]

\* Mutant: everything that goes on goes on before the answer.
AllAtOnce(d, m) ==
  IF m.type # "init" /\ m.addr \in {addr[d]}
    THEN [down EXCEPT ![d] = Tail(@)]
    ELSE PassDown(d, [down EXCEPT ![d] = Tail(@)], m)

\* An INIT with the right code word goes on with the next address, taken
\* or not; every other instruction waits for the end of the handler.
AfterAct(d, m) ==
  IF m.type = "init" /\ m.good /\ m.addr # Broadcast /\ m.addr + 1 # Broadcast
    THEN PassDown(d, [down EXCEPT ![d] = Tail(@)], [m EXCEPT !.addr = @ + 1])
    ELSE [down EXCEPT ![d] = Tail(@)]

Act(d) ==
  /\ at[d] = "scan" /\ down[d] # << >>
  /\ LET m  == Head(down[d])
         ok == Accepts(d, m)
     IN /\ down' = AfterAct(d, m)
        /\ job' = [job EXCEPT ![d] = [id |-> m.id, msg |-> m, ok |-> ok, last |-> addr[d]]]
        /\ result' = [result EXCEPT ![d][m.id] = IF ok THEN "ok" ELSE "refused"]
        /\ addr' = IF ok THEN [addr EXCEPT ![d] = NewAddr(d, m)] ELSE addr
        /\ phase' = IF ok THEN [phase EXCEPT ![d] = NewPhase(d, m)] ELSE phase
        /\ took' = CASE ok /\ m.type = "init"  -> [took EXCEPT ![d] = m.id]
                     [] ok /\ m.type = "reset" -> [took EXCEPT ![d] = 0]
                     [] OTHER                  -> took
  /\ at' = [at EXCEPT ![d] = "acted"]
  /\ UNCHANGED <<saved, up, heard, log, counts>>

\* What device d sends towards the host, its own buffer being q.
PassUp(d, q, a) == IF d = 1 THEN q ELSE [q EXCEPT ![d - 1] = Append(@, a)]
Hear(d, a)      == heard' = IF d = 1 THEN heard \cup {a} ELSE heard

\* Mutant: the answer is decided on the new address alone.
AnswersNewOnly(d) == job[d].msg.addr \in {addr[d], Broadcast}

\* The address matches now, matched before a reset, or is everyone's.
Answers(d) == job[d].msg.addr \in {addr[d], Broadcast, job[d].last}

\* Mutant: whether the address matches is not looked at.
ForwardsAlways(d) == job[d].msg.type # "init"

\* Mutant: an instruction to all is kept.
ForwardsToOne(d) == job[d].msg.type # "init" /\ job[d].msg.addr # addr[d]
                    /\ job[d].msg.addr # Broadcast

\* Decided on the address after the instruction.
Forwards(d) ==
  job[d].msg.type # "init" /\ (job[d].msg.addr # addr[d] \/ job[d].msg.addr = Broadcast)

Finish(d) ==
  /\ at[d] = "acted"
  /\ IF Answers(d)
       THEN LET a == [dev |-> d, id |-> job[d].id, ok |-> job[d].ok]
            IN /\ up' = PassUp(d, up, a) /\ Hear(d, a)
               /\ saving' = [saving EXCEPT ![d] = @ \/ job[d].ok]
       ELSE UNCHANGED <<up, heard, saving>>
  /\ down' = IF Forwards(d) THEN PassDown(d, down, job[d].msg) ELSE down
  /\ at' = [at EXCEPT ![d] = "scan"]
  /\ job' = [job EXCEPT ![d] = NoJob]
  /\ UNCHANGED <<devices, flash, flash_took, result, log, counts>>

\* uart1_event_handler.
Relay(d) ==
  /\ up[d] # << >>
  /\ LET a == Head(up[d])
     IN up' = PassUp(d, [up EXCEPT ![d] = Tail(@)], a) /\ Hear(d, a)
  /\ UNCHANGED <<devices, saved, work, down, log, counts>>

\* A key or a schedule starts a sequence.
LocalPower(d) ==
  /\ locals + cuts < MaxUpsets /\ ~Delayed(d)
  /\ phase' = [phase EXCEPT ![d] = IF @ = "off" THEN "rising" ELSE "falling"]
  /\ locals' = locals + 1
  /\ UNCHANGED <<addr, took, saved, work, lines, cuts>>

SequenceEnds(d) ==
  /\ Delayed(d)
  /\ phase' = [phase EXCEPT ![d] = IF @ = "rising" THEN "on" ELSE "off"]
  /\ saving' = [saving EXCEPT ![d] = TRUE]
  /\ UNCHANGED <<addr, took, flash, flash_took, work, lines, counts>>

\* user_msg_handle_task writes the settings; SaveData has the steps.
Save(d) ==
  /\ saving[d]
  /\ saving' = [saving EXCEPT ![d] = FALSE]
  /\ flash' = [flash EXCEPT ![d] = addr[d]]
  /\ flash_took' = [flash_took EXCEPT ![d] = took[d]]
  /\ UNCHANGED <<devices, work, lines, counts>>

\* The device loses power and boots again; PowerCycle has the steps.
Cut(d) ==
  /\ locals + cuts < MaxUpsets
  /\ cuts' = cuts + 1
  /\ addr' = [addr EXCEPT ![d] = flash[d]]
  /\ took' = [took EXCEPT ![d] = flash_took[d]]
  /\ \E p \in {"off", "rising"} : phase' = [phase EXCEPT ![d] = p]
  /\ saving' = [saving EXCEPT ![d] = FALSE]
  /\ at' = [at EXCEPT ![d] = "scan"]
  /\ job' = [job EXCEPT ![d] = NoJob]
  /\ down' = [down EXCEPT ![d] = << >>]
  /\ up' = [up EXCEPT ![d] = << >>]
  /\ UNCHANGED <<flash, flash_took, result, heard, log, locals>>

-----------------------------------------------------------------------------
(* The host *)

Send(r) ==
  /\ Len(log) < MaxRequests
  /\ log' = Append(log, r)
  /\ down' = [down EXCEPT ![1] = Append(@,
       [id |-> Len(log) + 1, type |-> r.type, addr |-> r.addr, good |-> r.good])]
  /\ UNCHANGED <<devices, saved, work, up, heard, counts>>

Init ==
  /\ addr \in [Dev -> StoredAddrs] /\ flash = addr
  /\ phase = [d \in Dev |-> "off"]
  /\ saving = [d \in Dev |-> FALSE]
  /\ down = [d \in Dev |-> << >>] /\ up = [d \in Dev |-> << >>]
  /\ at = [d \in Dev |-> "scan"] /\ job = [d \in Dev |-> NoJob]
  /\ heard = {} /\ log = << >>
  /\ result = [d \in Dev |-> [i \in Id |-> "none"]]
  /\ took = [d \in Dev |-> 0] /\ flash_took = took
  /\ locals = 0 /\ cuts = 0

\* user_task, app_core and msg_task of one device.
Running(d) == Act(d) \/ Finish(d) \/ Relay(d)
Own(d)     == SequenceEnds(d) \/ Save(d) \/ LocalPower(d) \/ Cut(d)

Next == (\E d \in Dev : Running(d) \/ Own(d)) \/ (\E r \in Requests : Send(r))

Spec == Init /\ [][Next]_vars

\* user_task and app_core run again and again; it is enough that no chain
\* with work left stands still.
FairSpec == Spec /\ WF_vars(\E d \in Dev : Running(d))

-----------------------------------------------------------------------------
(* Properties *)

AnswerMsg == [dev : Dev, id : Id, ok : BOOLEAN]

TypeOK ==
  /\ addr \in [Dev -> 0 .. Broadcast - 1] /\ flash \in [Dev -> 0 .. Broadcast - 1]
  /\ phase \in [Dev -> {"off", "on", "rising", "falling"}]
  /\ saving \in [Dev -> BOOLEAN]
  /\ down \in [Dev -> Seq(Message)] /\ up \in [Dev -> Seq(AnswerMsg)]
  /\ at \in [Dev -> {"scan", "acted"}]
  /\ job \in [Dev -> Job \cup {NoJob}]
  /\ \A d \in Dev : at[d] = "acted" => job[d] \in Job
  /\ heard \subseteq AnswerMsg
  /\ log \in Seq(Requests)
  /\ result \in [Dev -> [Id -> {"none", "ok", "refused"}]]
  /\ took \in [Dev -> Id \cup {0}] /\ flash_took \in [Dev -> Id \cup {0}]
  /\ locals \in 0 .. MaxUpsets /\ cuts \in 0 .. MaxUpsets

\* Devices that have their address from the same INIT differ in it by their
\* distance in the chain, whatever refused, was reset or lost power between
\* them (instruction_handle forwards an INIT it has itself refused).
Numbered ==
  \A c, d \in Dev : took[c] # 0 /\ took[c] = took[d] => addr[d] - addr[c] = d - c

\* An address that flash does not hold is about to be answered or saved.
AddressIsSaved ==
  \A d \in Dev : addr[d] # flash[d] => saving[d] \/ at[d] = "acted"

Sent      == DOMAIN log
ToAll(i)  == log[i].type # "init" /\ log[i].addr = Broadcast
Reached(i) == {d \in Dev : result[d][i] # "none"}

\* Copies of instruction i: the devices that still have to begin one, and
\* the devices that will pass theirs on.
Copies(i) ==
  {d \in Dev : \E k \in DOMAIN down[d] : down[d][k].id = i}
    \cup {d + 1 : d \in {e \in Dev : at[e] = "acted" /\ job[e].id = i /\ Forwards(e)}}

\* The last device an INIT goes to.
LastOf(i) ==
  CASE ToAll(i)                               -> M
    [] log[i].good /\ log[i].addr # Broadcast ->
         IF log[i].addr + M > Broadcast THEN Broadcast - log[i].addr ELSE M
    [] OTHER                                  -> 1

\* While no device loses power, an instruction to all and an INIT are at one
\* place of the chain and every device before it has had them, up to the end
\* of the chain or of the addresses: no device is passed over or asked twice.
Accounted ==
  cuts = 0 => \A i \in Sent : ToAll(i) \/ log[i].type = "init" =>
    LET k == Cardinality(Reached(i))
    IN /\ Reached(i) = 1 .. k
       /\ Copies(i) \cap Dev = IF k < LastOf(i) THEN {k + 1} ELSE {}

\* An instruction to one device, other than an INIT or a reset, is carried
\* out by one device at most, whatever addresses the chain has.
CarriedOutOnce ==
  \A i \in Sent : log[i].type \notin {"init", "reset"} /\ log[i].addr # Broadcast =>
    \A c, d \in Dev : result[c][i] = "ok" /\ result[d][i] = "ok" => c = d

\* The host hears of one instruction, an INIT excepted, from the nearer
\* device first: uart1_event_handler never runs ahead of the answer.
NearestFirst ==
  [][\A a \in heard' \ heard : log[a.id].type # "init" =>
       \A b \in heard : b.id = a.id => b.dev < a.dev]_vars

\* The answers the host has heard, and those on their way to it.
Reports == heard \cup UNION {{up[d][k] : k \in DOMAIN up[d]} : d \in Dev}

\* What the host hears is what became of the instruction, then and since: no
\* device is at one twice, and none answers for what it did with another.
AnswersAreTrue ==
  \A a \in heard : result[a.dev][a.id] = IF a.ok THEN "ok" ELSE "refused"

\* While no device loses power, what a device carries out, and what it makes of
\* an instruction to all, is about to be answered, on its way or heard, though
\* the instruction may have changed the address that decides on the answer.
NothingUnreported ==
  cuts = 0 => \A i \in Sent, d \in Dev :
    result[d][i] = "ok" \/ (ToAll(i) /\ result[d][i] = "refused") =>
      \/ at[d] = "acted" /\ job[d].id = i
      \/ \E a \in Reports : a.dev = d /\ a.id = i

\* The host hears from every device what became of an instruction to all;
\* it sends a bounded number, so that from some point on it has heard it.
AllAnswer ==
  <>[](cuts > 0 \/ \A i \in Sent : ToAll(i) =>
         \A d \in Dev : \E a \in heard : a.id = i /\ a.dev = d)
=============================================================================
