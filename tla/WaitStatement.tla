----------------------------- MODULE WaitStatement -----------------------------
(***************************************************************************)
(* What a HIF Wait promises (IEEE 1076 `wait on ... until ... for ...`):   *)
(* the process resumes at the first update that is an event on the         *)
(* sensitivity list and leaves the condition true, or at the deadline.     *)
(* Without a sensitivity list a condition is read as a level, as both      *)
(* front ends hand it over (hif-core#16).                                  *)
(*                                                                         *)
(* Time is what is left of the timeout, so a run may last forever.         *)
(***************************************************************************)
EXTENDS Naturals, WaitClauses

CONSTANTS
  Timeout,  \* the delay of a timeout clause, in time units
  Cycles    \* bound: update cycles within one time unit

VARIABLES
  stmt,    \* the clauses of the wait
  sig,     \* the value of each signal
  cycles,  \* update cycles so far in this time unit
  asleep,  \* the process is suspended in the wait
  left     \* what is left of its timeout

vars == <<stmt, sig, cycles, asleep, left>>

Init ==
  /\ stmt \in Statements
  /\ sig \in [Signals -> BOOLEAN]
  /\ cycles = 0
  /\ asleep = Suspends(stmt, sig)
  /\ left = Timeout

(* Signals take new values. *)
Update ==
  /\ cycles < Cycles
  /\ cycles' = cycles + 1
  /\ sig' \in [Signals -> BOOLEAN]
  /\ asleep' = (asleep /\ ~Resumes(stmt, sig, sig'))
  /\ left' = IF asleep' THEN left ELSE Timeout
  /\ UNCHANGED stmt

(* Time passes while the process is suspended; its deadline resumes it. *)
Tick ==
  /\ asleep
  /\ cycles' = 0
  /\ asleep' = ~(stmt.timed /\ left = 1)
  /\ left' = IF stmt.timed /\ asleep' THEN left - 1 ELSE Timeout
  /\ UNCHANGED <<stmt, sig>>

(* The process comes round to the wait again. *)
Again ==
  /\ ~asleep
  /\ asleep' = Suspends(stmt, sig)
  /\ UNCHANGED <<stmt, sig, cycles, left>>

Next == Update \/ Tick \/ Again
Spec == Init /\ [][Next]_vars
=============================================================================
