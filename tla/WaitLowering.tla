------------------------------ MODULE WaitLowering ------------------------------
(***************************************************************************)
(* The Verilog that visitWait prints for a HIF Wait.  Verilog has one      *)
(* statement for each clause and none for several at once, so              *)
(* printMultiClauseWait prints a named block whose fork runs one branch    *)
(* per reason to resume, and the first branch to finish disables the       *)
(* block.  A wait of one clause is that clause's statement alone: the same *)
(* branch without its siblings, and finishing it is what resumes.          *)
(*                                                                         *)
(* A branch is armed in its event control, wait or delay; once that is     *)
(* passed it is woken, and runs when the simulator gets to it.             *)
(***************************************************************************)
EXTENDS Naturals, FiniteSets, WaitClauses

CONSTANTS
  Timeout,      \* the delay of a timeout clause, in time units
  Cycles        \* bound: update cycles within one time unit

ASSUME BoundsAssumption == Timeout \in Nat \ {0} /\ Cycles \in Nat

VARIABLES
  stmt,      \* the clauses of the wait
  sig,       \* the value of each signal
  cycles,    \* update cycles so far in this time unit
  extra,     \* the wait has repetitions or actions
  racing,    \* signals may change between a wake-up and the branch's next step
  phase,     \* "print", "run" or "refused"
  branches   \* the branches of the block still alive

vars == <<stmt, sig, cycles, extra, racing, phase, branches>>

-----------------------------------------------------------------------------
UngatedEvent(w) ==
  (IF HasSensitivity(w) THEN {"event"} ELSE {})
    \cup (IF HasCondition(w) THEN {"level"} ELSE {})
    \cup (IF w.timed THEN {"deadline"} ELSE {})
NoFork(w) ==
  IF HasSensitivity(w) THEN {IF HasCondition(w) THEN "gate" ELSE "event"}
  ELSE IF HasCondition(w) THEN {"level"} ELSE {"deadline"}
(* The branches printed: the condition gates the event when there is a     *)
(* sensitivity list and is a level wait of its own when there is none.     *)
Printed(w) ==
  (CASE HasSensitivity(w) /\ HasCondition(w)  -> {"gate"}
     [] HasSensitivity(w) /\ ~HasCondition(w) -> {"event"}
     [] ~HasSensitivity(w) /\ HasCondition(w) -> {"level"}
     [] OTHER                                 -> {})
    \cup (IF w.timed THEN {"deadline"} ELSE {})

DropsDelay(w, now) ==
  {[kind |-> k, woken |-> k = "level" /\ Holds(w, now), left |-> 0] : k \in Printed(w)}
(* Entering the block starts every branch; wait(c) falls through at once   *)
(* when c holds.                                                           *)
Entered(w, now) ==
  {[kind |-> k, woken |-> k = "level" /\ Holds(w, now), left |-> Timeout] : k \in Printed(w)}

(* printEventControl qualifies each signal with its own edge. *)
EventControl(w, was, is) == \E s \in Signals : Edge(w.on[s], was[s], is[s])

(* What an update passes: an event control or a level wait. *)
Passes(b, was, is) ==
  CASE b.kind \in {"event", "gate"} -> EventControl(stmt, was, is)
    [] b.kind = "level"             -> Holds(stmt, is)
    [] OTHER                        -> FALSE

Woken == {b \in branches : b.woken}
Resumed == phase = "run" /\ branches = {}

-----------------------------------------------------------------------------
Init ==
  /\ stmt \in Statements
  /\ sig \in [Signals -> BOOLEAN]
  /\ cycles = 0
  /\ extra \in BOOLEAN
  /\ racing \in BOOLEAN
  /\ phase = "print"
  /\ branches = {}

(* visitWait: a repeated wait, or one with actions, is refused. *)
Refuse ==
  /\ phase = "print" /\ extra
  /\ phase' = "refused"
  /\ UNCHANGED <<stmt, sig, cycles, extra, racing, branches>>

(* visitWait prints the statement; the process reaches it. *)
VisitWait ==
  /\ phase = "print" /\ ~extra
  /\ phase' = "run"
  /\ branches' = Entered(stmt, sig)
  /\ UNCHANGED <<stmt, sig, cycles, extra, racing>>

(* The process comes round to the block again. *)
Reenter ==
  /\ Resumed
  /\ branches' = Entered(stmt, sig)
  /\ UNCHANGED <<stmt, sig, cycles, extra, racing, phase>>

(* Signals change; armed branches whose control is passed are woken. *)
Change ==
  /\ phase = "run"
  /\ racing \/ Woken = {}
  /\ cycles < Cycles
  /\ cycles' = cycles + 1
  /\ sig' \in [Signals -> BOOLEAN]
  /\ branches' = {[b EXCEPT !.woken = @ \/ Passes(b, sig, sig')] : b \in branches}
  /\ UNCHANGED <<stmt, extra, racing, phase>>

(* The simulator advances time once nothing is left to run. *)
Elapse ==
  /\ phase = "run"
  /\ Woken = {} /\ branches # {}
  /\ cycles' = 0
  /\ branches' = {IF b.kind = "deadline" THEN [b EXCEPT !.left = @ - 1, !.woken = (b.left = 1)]
                  ELSE b : b \in branches}
  /\ UNCHANGED <<stmt, sig, extra, racing, phase>>

(* The gate tests the condition after its event, a level wait whenever it  *)
(* is woken.                                                               *)
Retries(b) == b.kind \in {"gate", "level"} /\ ~Holds(stmt, sig)

LeavesSiblings(b) ==
  /\ b \in Woken
  /\ branches' = IF Retries(b)
                 THEN (branches \ {b}) \cup {[b EXCEPT !.woken = FALSE]}
                 ELSE branches \ {b}
  /\ UNCHANGED <<stmt, sig, cycles, extra, racing, phase>>
(* A woken branch runs: it goes back to its event control, or disables the *)
(* block, its siblings with it.                                            *)
RunBranch(b) ==
  /\ b \in Woken
  /\ branches' = IF Retries(b)
                 THEN (branches \ {b}) \cup {[b EXCEPT !.woken = FALSE]}
                 ELSE {}
  /\ UNCHANGED <<stmt, sig, cycles, extra, racing, phase>>

Branch == [kind : {"event", "gate", "level", "deadline"}, woken : BOOLEAN, left : 0 .. Timeout]
Next ==
  \/ Refuse \/ VisitWait \/ Reenter \/ Change \/ Elapse
  \/ \E b \in Branch : RunBranch(b)
Spec == Init /\ [][Next]_vars

(* A simulator runs what is runnable and lets time pass when nothing is;   *)
(* the printer prints.                                                     *)
FairSpec ==
  Spec /\ WF_vars(VisitWait) /\ WF_vars(Elapse) /\ \A b \in Branch : WF_vars(RunBranch(b))

-----------------------------------------------------------------------------
(* Every variable keeps its type, and a deadline is spent exactly when its *)
(* branch is woken.                                                        *)
TypeOK ==
  /\ stmt \in Statements
  /\ sig \in [Signals -> BOOLEAN]
  /\ cycles \in 0 .. Cycles
  /\ extra \in BOOLEAN /\ racing \in BOOLEAN
  /\ phase \in {"print", "run", "refused"}
  /\ branches \subseteq Branch
  /\ \A b \in branches : b.kind = "deadline" => (b.woken <=> b.left = 0)

(* While the process is suspended every clause it stated can still resume  *)
(* it, and nothing else can: one event control when it has a sensitivity   *)
(* list, one level wait when it has only a condition, one deadline when it *)
(* has a timeout, and no branch left over from an earlier turn of the      *)
(* block (printMultiClauseWait: fork, re-armed gate, disable).             *)
EveryReasonArmed ==
  phase = "run" /\ branches # {} =>
    /\ HasSensitivity(stmt) => \E b \in branches : b.kind \in {"event", "gate"}
    /\ HasCondition(stmt) => \E b \in branches : b.kind \in {"level", "gate"}
    /\ stmt.timed => \E b \in branches : b.kind = "deadline"
    /\ Cardinality(branches) =
         Cardinality({c \in {"data", "time"} :
           IF c = "time" THEN stmt.timed ELSE HasSensitivity(stmt) \/ HasCondition(stmt)})

(* The printed statement resumes at the instants the HIF Wait does, turn   *)
(* after turn: an event that finds the condition false does not resume, an *)
(* idle list does not keep the deadline from resuming, and an earlier      *)
(* turn's deadline does not resume a later one.  It is claimed of runs     *)
(* that handle each wake-up before signals change again; a racing run maps *)
(* to a wait that nothing happens to.                                      *)
Seen == IF racing THEN [s \in Signals |-> FALSE] ELSE sig
Asleep ==
  IF phase # "run" \/ racing THEN Suspends(stmt, Seen)
  ELSE branches # {} /\ \A b \in Woken : Retries(b)
Left ==
  IF phase = "run" /\ ~racing /\ Asleep /\ stmt.timed
  THEN (CHOOSE b \in branches : b.kind = "deadline").left ELSE Timeout
Promise == INSTANCE WaitStatement WITH
  sig <- Seen, cycles <- (IF racing THEN 0 ELSE cycles), asleep <- Asleep, left <- Left
ImplementsWait == Promise!Spec

(* A wait with a timeout always resumes, whatever the signals do and       *)
(* however the simulator interleaves them with the branches.               *)
TimeoutResumes == phase = "run" /\ stmt.timed ~> Resumed
=============================================================================
