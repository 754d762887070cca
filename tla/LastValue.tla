-------------------------------- MODULE LastValue --------------------------------
(***************************************************************************)
(* hif_lastValue: S'last_value of a vector, kept in two variables that are *)
(* brought up to date when the attribute is read, not when S changes       *)
(* (hif_systemc_extensions).                                               *)
(***************************************************************************)
EXTENDS LogicVectors

CONSTANTS
  Values,   \* that S may have
  MaxReads  \* bound on the reads of a run

VARIABLES
  s,        \* the signal
  last, prev,
  read,     \* S was read since it changed, and the read returned last
  reads,
  before,   \* of each bit, the value before its latest change: what VHDL says
  changes,  \* of each bit, how often it changed since the latest read, at most 2
  missed    \* of each bit, whether its latest changes fell between two reads

vars == <<s, last, prev, read, reads, before, changes, missed>>

Change ==
  /\ \E v \in Values \ {s} :
       LET moved == {i \in DOMAIN s : v[i] # s[i]} IN
       /\ s' = v
       /\ before' = [i \in DOMAIN s |-> IF i \in moved THEN s[i] ELSE before[i]]
       /\ changes' = [i \in DOMAIN s |-> IF i \in moved THEN Min({changes[i] + 1, 2}) ELSE changes[i]]
  /\ read' = FALSE
  /\ UNCHANGED <<last, prev, reads, missed>>

\* The whole of the value before, for every bit.
FreshWhole == prev
\* (prev & m) | (last & ~m), where m marks the bits that changed
Fresh ==
  LET m == OnBits(Xor, s, prev)
  IN OnBits(Or, OnBits(And, prev, m), OnBits(And, last, [i \in DOMAIN m |-> Not(m[i])]))
HifLastValue ==
  /\ reads < MaxReads /\ reads' = reads + 1
  /\ last' = IF s # prev THEN Fresh ELSE last
  /\ read' = TRUE /\ prev' = s
  /\ missed' = [i \in DOMAIN s |-> IF changes[i] = 0 THEN missed[i] ELSE changes[i] = 2]
  /\ changes' = [i \in DOMAIN s |-> 0]
  /\ UNCHANGED <<s, before>>

Init ==
  /\ s \in Values /\ last = s /\ prev = s /\ before = s
  /\ read = FALSE /\ reads = 0
  /\ changes = [i \in DOMAIN s |-> 0] /\ missed = [i \in DOMAIN s |-> FALSE]
Next == Change \/ HifLastValue
Spec == Init /\ [][Next]_vars

-----------------------------------------------------------------------------
(* A bit of 'last_value that is known is the value the bit had before its  *)
(* latest change, unless the bit changed more than once between two reads: *)
(* the masks of hif_lastValue keep every bit's own history.                *)
LastValueRight ==
  read =>
    \A i \in DOMAIN s : ~missed[i] /\ last[i] \in Known => last[i] = before[i]
===============================================================================
