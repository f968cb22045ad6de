------------------------------ MODULE PowerPhase ------------------------------
(***************************************************************************)
(* What the power sequencer promises to the rest of the system: a device   *)
(* is off, on or in a sequence; sequences end; a device that is on feeds   *)
(* the relays that are wanted, one that is off feeds none.  Sequencer      *)
(* implements it; Schedule and Cascade are written in terms of its phases. *)
(***************************************************************************)
EXTENDS FiniteSets

CONSTANT Relay

VARIABLES
  phase,    \* "restored": on before the power failed, and not yet on again;
            \* "dropped": reset to off, and its relays are still fed
  wanted,   \* the relays that are fed when the device is on
  fed       \* the relays that are fed; of no account in a sequence

vars == <<phase, wanted, fed>>

Init ==
  /\ phase \in {"off", "restored"}
  /\ wanted \in SUBSET Relay
  /\ fed = {}

Begin(next) == phase' = next /\ fed' = {} /\ UNCHANGED wanted

Rise == phase \in {"off", "restored", "on"} /\ Begin("rising")
Fall == phase \in {"off", "restored", "on", "dropped"} /\ Begin("falling")

Risen  == phase = "rising"  /\ phase' = "on"  /\ fed' = wanted /\ UNCHANGED wanted
Fallen == phase = "falling" /\ phase' = "off" /\ fed' = {}     /\ UNCHANGED wanted

\* Single relays are switched for now and for later; in a sequence it is the
\* sequence that will bring it about.
Switch ==
  /\ phase # "off"
  /\ \E open, close \in SUBSET Relay :
       /\ wanted' = (wanted \ open) \cup close
       /\ fed' = IF phase \in {"rising", "falling"} THEN fed ELSE (fed \ open) \cup close
  /\ UNCHANGED phase

\* Factory reset: a device that is off wants all its relays again, any other is
\* off from now on and must open its relays.
Forget == phase = "off" /\ wanted' = Relay /\ UNCHANGED <<phase, fed>>
Drop   == phase \in {"off", "restored", "on"} /\ phase' = "dropped" /\ UNCHANGED <<wanted, fed>>

Next == Rise \/ Fall \/ Risen \/ Fallen \/ Switch \/ Forget \/ Drop

Spec == Init /\ [][Next]_vars

\* Sequences end, and a device that was dropped begins to fall.
FairSpec ==
  /\ Spec
  /\ WF_vars(Risen) /\ WF_vars(Fallen)
  /\ WF_vars(phase = "dropped" /\ Fall)
=============================================================================
