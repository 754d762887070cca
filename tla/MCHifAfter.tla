----------------------------- MODULE MCHifAfter -----------------------------
(* Two call sites, one with a longer delay, over three time steps. *)
EXTENDS HifAfter, TLC

CONSTANTS s1, s2
MCSites == {s1, s2}
MCDelay == s1 :> 1 @@ s2 :> 2
MCSlots == 1 .. 3
=============================================================================
