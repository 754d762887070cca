---------------------------- MODULE TransportDelay ----------------------------
(***************************************************************************)
(* What a delayed assignment promises to the SystemC design that calls     *)
(* hif_after: each target owns a waveform, the values it will take and     *)
(* when.  Assigning again in the same time step replaces the value still   *)
(* to come, and the value of each instant is delivered at that instant.    *)
(***************************************************************************)
EXTENDS Naturals

CONSTANTS
  Targets,  \* the delayed targets
  Values,
  Delay,    \* the delay of each target's assignment
  MaxTime,  \* bound: no assignment lands later
  None      \* no value to come

VARIABLES
  now,   \* sc_time_stamp
  wave,  \* the values to come, per target and instant
  out    \* the value of each target

vars == <<now, wave, out>>

Init ==
  /\ now = 0
  /\ wave = [t \in Targets |-> [i \in 0 .. MaxTime |-> None]]
  /\ out \in [Targets -> Values]

Assign(t, v) ==
  /\ now + Delay[t] <= MaxTime
  /\ wave' = [wave EXCEPT ![t][now + Delay[t]] = v]
  /\ UNCHANGED <<now, out>>

Deliver(t) ==
  /\ wave[t][now] # None
  /\ out' = [out EXCEPT ![t] = wave[t][now]]
  /\ wave' = [wave EXCEPT ![t][now] = None]
  /\ UNCHANGED now

(* Time never passes a value that is due. *)
Advance ==
  /\ now < MaxTime
  /\ \A t \in Targets : wave[t][now] = None
  /\ now' = now + 1
  /\ UNCHANGED <<wave, out>>

Next ==
  \/ \E t \in Targets, v \in Values : Assign(t, v)
  \/ \E t \in Targets : Deliver(t)
  \/ Advance

Spec == Init /\ [][Next]_vars
=============================================================================
