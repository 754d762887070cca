------------------------------ MODULE SystemCWait ------------------------------
(***************************************************************************)
(* The SystemC that hif2sc makes of a HIF Wait (PreRefine_misc.cpp,        *)
(* PrintSystemCVisitor.cpp): wait() with a time and a list of events, for  *)
(* a condition under a `while (!condition)`, in a process that becomes a   *)
(* thread.  SystemC's wait has no condition of its own, so the pass lets   *)
(* every change of a signal of the condition wake the thread, and the loop *)
(* tests it again.                                                         *)
(*                                                                         *)
(* A repeated wait is printed in a counting for loop: each turn comes to   *)
(* the same statement again, as the next turn of the process does.  The    *)
(* scheduler of SystemC is external: what is awake runs before signals     *)
(* take another value.                                                     *)
(***************************************************************************)
EXTENDS Naturals, WaitClauses

CONSTANTS
  Timeout,  \* the delay of a timeout clause, in time units
  Cycles    \* bound: update cycles within one time unit

VARIABLES
  stmt,     \* the clauses of the HIF wait
  process,  \* the process it is in
  made,     \* what the pass makes of the process: "source" before
  wave,     \* the value of each signal
  cycles,   \* update cycles so far in this time unit
  inside,   \* the process is suspended in wait()
  left      \* what is left of its time

vars == <<stmt, process, made, wave, cycles, inside, left>>

-----------------------------------------------------------------------------
(* _manageInitialProcessDeclarations moves the body of an initial process  *)
(* into start_of_simulation(); _manageHdlProcessDeclarations makes any     *)
(* other one that waits a thread that never ends, unless it returns.       *)
ManageInitial(p) == IF p.flavour = "initial" THEN "start_of_simulation" ELSE "source"
ManageHdl(p) == IF p.returns THEN "refused" ELSE "thread"
VisitStateTable(p) == IF p.flavour = "initial" THEN ManageInitial(p) ELSE ManageHdl(p)

(* _manageWaitSensitivity: each list's signals become its events. *)
EventOf(kind) ==
  CASE kind = "level" -> {"value_changed"}
    [] kind = "pos"   -> {"posedge"}
    [] kind = "neg"   -> {"negedge"}
    [] kind = "none"  -> {}
ListEvents(w) ==
  {e \in Signals \X {"value_changed", "posedge", "negedge"} : e[2] \in EventOf(w.on[e[1]])}

(* visitWait: a condition goes into a loop around the wait, and its        *)
(* signals join the level list.                                            *)
OnlyTheList(w) == [loop |-> w.until, timed |-> w.timed, events |-> ListEvents(w)]
Lowered(w) ==
  [loop   |-> w.until,
   timed  |-> w.timed,
   events |-> ListEvents(w)
                \cup {<<s, "value_changed">> : s \in {w.until} \ {None}}]

(* The printer looks at the level list alone when it decides on the comma  *)
(* after the time.                                                         *)
PrintsComma(w) == \E e \in Lowered(w).events : e[2] = "value_changed"
Printable(w) == w.timed /\ Lowered(w).events # {} => PrintsComma(w)

-----------------------------------------------------------------------------
Fires(e, was, is) ==
  CASE e[2] = "value_changed" -> was[e[1]] # is[e[1]]
    [] e[2] = "posedge"       -> ~was[e[1]] /\ is[e[1]]
    [] e[2] = "negedge"       -> was[e[1]] /\ ~is[e[1]]
LoopsAgain(w, now) == Lowered(w).loop # None /\ ~now[w.until]
(* Whether a thread that reaches the statement calls wait() at all. *)
Enters(w, now) == Lowered(w).loop = None \/ LoopsAgain(w, now)

Init ==
  /\ stmt \in Statements
  /\ process \in [flavour : {"hdl", "initial"}, returns : BOOLEAN]
  /\ made = "source"
  /\ wave \in [Signals -> BOOLEAN]
  /\ cycles = 0
  /\ inside = FALSE
  /\ left = Timeout

(* The pass visits the process and the wait in it, and the thread runs as  *)
(* far as the statement.                                                   *)
Visit ==
  /\ made = "source"
  /\ made' = VisitStateTable(process)
  /\ inside' = (made' = "thread" /\ Enters(stmt, wave))
  /\ UNCHANGED <<stmt, process, wave, cycles, left>>

(* Signals take new values; an event of the list wakes the thread, which   *)
(* tests the condition, if there is one, before anything else changes.     *)
Update ==
  /\ made = "thread"
  /\ cycles < Cycles
  /\ cycles' = cycles + 1
  /\ wave' \in [Signals -> BOOLEAN]
  /\ LET woken == inside /\ \E e \in Lowered(stmt).events : Fires(e, wave, wave')
     IN  /\ inside' = (inside /\ (woken => LoopsAgain(stmt, wave')))
         /\ left' = IF woken THEN Timeout ELSE left
  /\ UNCHANGED <<stmt, process, made>>

(* Time passes while the thread is suspended. *)
Tick ==
  /\ inside
  /\ cycles' = 0
  /\ LET due == Lowered(stmt).timed /\ left = 1
     IN  /\ inside' = (due => LoopsAgain(stmt, wave))
         /\ left' = IF Lowered(stmt).timed /\ ~due THEN left - 1 ELSE Timeout
  /\ UNCHANGED <<stmt, process, made, wave>>

(* The thread comes round to the statement, by the for loop around it or   *)
(* by the while (true) around the process.                                 *)
Again ==
  /\ made = "thread" /\ ~inside
  /\ inside' = Enters(stmt, wave)
  /\ UNCHANGED <<stmt, process, made, wave, cycles, left>>

Next == Visit \/ Update \/ Tick \/ Again
Spec == Init /\ [][Next]_vars

-----------------------------------------------------------------------------
(* A condition beside a list or a time is not claimed: the loop does not   *)
(* suspend when the condition already holds, is woken by the condition's   *)
(* signals as well, and goes back to wait() when only the time is up.      *)
Claimed ==
  /\ made \in {"source", "thread"}
  /\ process = [flavour |-> "hdl", returns |-> FALSE]
  /\ Printable(stmt)
  /\ HasCondition(stmt) => ~HasSensitivity(stmt) /\ ~stmt.timed
Seen == IF Claimed THEN wave ELSE [s \in Signals |-> FALSE]
Promise == INSTANCE WaitStatement WITH
  sig    <- Seen,
  cycles <- IF Claimed THEN cycles ELSE 0,
  asleep <- IF Claimed /\ made = "thread" THEN inside ELSE Suspends(stmt, Seen),
  left   <- IF Claimed THEN left ELSE Timeout

(* The thread resumes when the HIF wait does, turn after turn: a change    *)
(* that leaves the condition false puts it back to sleep, one that makes   *)
(* it true wakes it whatever else it listens to, and an event of the list  *)
(* leaves nothing of the time for the next turn.  Claimed of a condition   *)
(* alone and of a list and a time without one.                             *)
ImplementsWait == Promise!Spec
===============================================================================
