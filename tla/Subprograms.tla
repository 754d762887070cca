------------------------------ MODULE Subprograms ------------------------------
(***************************************************************************)
(* Calls of a VHDL subprogram and of the Verilog task or function printed  *)
(* for it (visitFunction, printTask, visitReturn, visitAssign).  Verilog   *)
(* has no return, so an early one disables a block named for the body; its *)
(* locals and arguments are static, so what VHDL initialises at each call  *)
(* has to be assigned; and an out argument is copied back to its actual    *)
(* when the task returns.                                                  *)
(*                                                                         *)
(* A body is a sequence of [op, value, guard]: op "local" and "out" assign *)
(* the local and the out argument, "return" returns (from a function, the  *)
(* value); value is "v", the input, or "local", or "0" or "1"; guard says  *)
(* it is done only when the input is 1.  A caller is a sequence of "zero", *)
(* which assigns 0 to the target, and "call".                              *)
(***************************************************************************)
EXTENDS Naturals, Sequences, SequencesExt

CONSTANT Designs  \* [function, class, stated, body, caller]

Bit == {"0", "1"}
Op == [op : {"local", "out", "return"}, value : {"v", "local", "0", "1"}, guard : BOOLEAN]
(* class is that of the out argument and of its actual, stated whether the *)
(* local has an initial value (1), and a function returns at its end.      *)
WellFormed(d) ==
  /\ d.function \in BOOLEAN /\ d.class \in {"variable", "signal"} /\ d.stated \in BOOLEAN
  /\ d.body \in Seq(Op) /\ d.caller \in Seq({"zero", "call"})
  /\ d.function => d.body # <<>> /\ Last(d.body).op = "return" /\ ~Last(d.body).guard
(* A caller that assigns a signal does not pass it to a procedure as well: *)
(* in Verilog the assignment lands after what the procedure copied back.   *)
OneKindOfDriver(d) ==
  d.class = "signal" /\ ~d.function => \A i \in DOMAIN d.caller : d.caller[i] = "call"

VARIABLES
  design,
  printed,  \* the body printed, a sequence of Verilog statements
  target,   \* the caller's target in the source
  actual,   \* and in the output
  static    \* the static storage of the task or function

callVars == <<design, printed, target, actual, static>>
NotPrinted == <<>>

-----------------------------------------------------------------------------
(* The source: an activation has a fresh local and out argument.  Assigning *)
(* a signal argument assigns the signal, which changes at the end of the   *)
(* process's activation; a variable argument is copied back on return.     *)
Value(x, v, local) == IF x = "v" THEN v ELSE IF x = "local" THEN local ELSE x
SourceOp(v, a, o) ==
  IF a.returned \/ (o.guard /\ v = "0") THEN a
  ELSE LET x == Value(o.value, v, a.local)
       IN  [local    |-> IF o.op = "local" THEN x ELSE a.local,
            out      |-> IF o.op = "out" THEN x ELSE a.out,
            assigned |-> a.assigned \/ o.op = "out",
            result   |-> IF o.op = "return" THEN x ELSE a.result,
            returned |-> o.op = "return"]
Fresh(d) ==
  [local |-> IF d.stated THEN "1" ELSE "X", out |-> "X", assigned |-> FALSE, result |-> "X", returned |-> FALSE]
SourceCall(d, v) ==
  LET after[i \in 0 .. Len(d.body)] == IF i = 0 THEN Fresh(d) ELSE SourceOp(v, after[i - 1], d.body[i])
  IN  after[Len(d.body)]
SourceStatement(d, v, y, s) ==
  LET a == SourceCall(d, v)
  IN  CASE s = "zero"        -> "0"
        [] s = "call" /\ d.function -> a.result
        [] s = "call" /\ ~d.function /\ d.class = "signal" -> IF a.assigned THEN a.out ELSE y
        [] OTHER -> a.out
SourceCaller(d, v, y0) ==
  LET y[i \in 0 .. Len(d.caller)] == IF i = 0 THEN y0 ELSE SourceStatement(d, v, y[i - 1], d.caller[i])
  IN  y[Len(d.caller)]

-----------------------------------------------------------------------------
(* getTrailingReturn: the last statement of the body, when it is one.      *)
Trailing(d, i) == i = Len(d.body) /\ d.body[i].op = "return" /\ ~d.body[i].guard

(* A Verilog statement is what it assigns, if anything, whether it then    *)
(* disables the block of the body, and the guard of both.                  *)
Statement(guard, to, value, disables) == [guard |-> guard, to |-> to, value |-> value, disables |-> disables]
(* visitReturn: the value is assigned to the function's name; the exit     *)
(* disables the body block, unless falling off the end leaves it anyway.   *)
Return(d, i) ==
  Statement(d.body[i].guard, IF d.function THEN "result" ELSE "nothing", d.body[i].value, ~Trailing(d, i))

(* printSubprogramLocalInitializations: a stated value, as first statement. *)
LocalInitialization(d) == IF d.stated THEN <<Statement(FALSE, "local", "1", FALSE)>> ELSE <<>>

(* visitFunction, printTask.                                               *)
Body(d) ==
  LocalInitialization(d) \o
    [i \in 1 .. Len(d.body) |->
      IF d.body[i].op = "return" THEN Return(d, i)
      ELSE Statement(d.body[i].guard, d.body[i].op, d.body[i].value, FALSE)]

NonBlockingOut == {"local", "result"}
(* isBlockingAssignmentTarget: a variable, or an out argument.             *)
Blocking == {"local", "out", "result"}

(* The output: storage keeps what the last activation left in it, and what *)
(* is not blocking is assigned after the activation.                       *)
Do(v, a, s) ==
  LET x == Value(s.value, v, a.local)
      Kept(n) == IF s.to = n /\ n \in Blocking THEN x ELSE a[n]
  IN  [local |-> Kept("local"), out |-> Kept("out"), result |-> Kept("result"),
       later |-> IF s.to \in {"nothing"} \cup Blocking THEN a.later ELSE {x},
       left  |-> s.disables]
Perform(v, a, s) == IF a.left \/ (s.guard /\ v = "0") THEN a ELSE Do(v, a, s)
Call(body, v, st) ==
  LET after[i \in 0 .. Len(body)] ==
        IF i = 0 THEN [local |-> st.local, out |-> st.out, result |-> st.result, later |-> {}, left |-> FALSE]
        ELSE Perform(v, after[i - 1], body[i])
  IN  after[Len(body)]

(* A direct assignment to a signal waits for the end of the activation; a  *)
(* copy back does not.                                                     *)
OutputStatement(d, body, v, a, s) ==
  LET c == Call(body, v, a.st)
      Assigned(x, st) == [y       |-> IF d.class = "signal" THEN a.y ELSE x,
                          pending |-> IF d.class = "signal" THEN {x} ELSE a.pending,
                          st      |-> st]
      st == [local |-> c.local, result |-> c.result,
             out |-> IF c.later = {} THEN c.out ELSE CHOOSE x \in c.later : TRUE]
  IN  IF s = "zero" THEN Assigned("0", a.st)
      ELSE IF d.function THEN Assigned(c.result, st)
      ELSE [y |-> c.out, pending |-> a.pending, st |-> st]
OutputCaller(d, body, v, y0, st0) ==
  LET after[i \in 0 .. Len(d.caller)] ==
        IF i = 0 THEN [y |-> y0, pending |-> {}, st |-> st0]
        ELSE OutputStatement(d, body, v, after[i - 1], d.caller[i])
  IN  after[Len(d.caller)]

-----------------------------------------------------------------------------
Init ==
  /\ design \in Designs
  /\ printed = NotPrinted
  /\ target = "X" /\ actual = "X"
  /\ static = [local |-> "X", out |-> "X", result |-> "X"]

PrintSubprogram ==
  /\ printed = NotPrinted
  /\ printed' = Body(design)
  /\ UNCHANGED <<design, target, actual, static>>

(* The calling process runs once with input v, in both worlds.             *)
Activate(v) ==
  /\ printed # NotPrinted
  /\ target' = SourceCaller(design, v, target)
  /\ LET a == OutputCaller(design, printed, v, actual, static)
     IN  /\ actual' = IF a.pending = {} THEN a.y ELSE CHOOSE x \in a.pending : TRUE
         /\ static' = a.st
  /\ UNCHANGED <<design, printed>>

Next == PrintSubprogram \/ \E v \in Bit : Activate(v)
Spec == Init /\ [][Next]_callVars

-----------------------------------------------------------------------------
(* After each activation the target holds what VHDL gives it, wherever     *)
(* VHDL gives it a value: a return skips what follows it and keeps its     *)
(* value, a local starts from its stated value however many calls came     *)
(* before, and an argument reaches its actual in the same activation.      *)
SameTarget == target # "X" => actual = target
=============================================================================
