------------------------------ MODULE ProcessKind ------------------------------
(***************************************************************************)
(* How hif2verilog chooses between `initial` and `always` for a process    *)
(* (VerilogPrinter::isRetriggerable, visitStateTable).  HIF records        *)
(* whether a process can be woken, not whether it loops, and an empty Wait *)
(* means two things: VHDL's `wait;`, which suspends for good, and the      *)
(* marker verilog2hif puts at the end of a process that goes round.        *)
(*                                                                         *)
(* The process and what is printed for it run side by side on the same     *)
(* events.  A body is a sequence of                                        *)
(*   "w1", "w2"  assignments                                               *)
(*   "wait"      a Wait with a condition, a list or a time                 *)
(*   "halt"      `wait;`                                                   *)
(*   "maybe"     `wait;` under a condition                                 *)
(*   "tail"      the marker                                                *)
(***************************************************************************)
EXTENDS Naturals, Sequences, SequencesExt

CONSTANT Processes  \* the processes translated, each [origin, list, body]

Items == {"w1", "w2", "wait", "halt", "maybe", "tail"}
Has(p, items) == ToSet(p.body) \cap items # {}
(* What the front ends produce.  An `always` has a list, or waits and the  *)
(* marker; an `initial` has neither; a VHDL process without a list waits.  *)
WellFormed(p) ==
  /\ p.origin \in {"vhdl", "always", "initial"} /\ p.list \in BOOLEAN
  /\ p.body \in Seq(Items)
  /\ p.list => p.origin = "always" /\ ~Has(p, Items \ {"w1", "w2"})
  /\ p.origin # "vhdl" => ~Has(p, {"halt", "maybe"})
  /\ Has(p, {"tail"}) <=> p.origin = "always" /\ Has(p, {"wait"})
  /\ Has(p, {"tail"}) => Last(p.body) = "tail" /\ "tail" \notin ToSet(Front(p.body))
  /\ p.origin = "always" => p.list \/ Has(p, {"wait"})
  /\ p.origin = "vhdl" => Has(p, {"wait", "halt"})
ASSUME ProcessesAssumption == \A p \in Processes : WellFormed(p)

(* The processes the translation is right about: `wait;` is under no       *)
(* condition and the last thing a process does, and an `initial` does not  *)
(* wait.                                                                   *)
Supported(p) ==
  /\ ~Has(p, {"maybe"})
  /\ \A i \in DOMAIN p.body : p.body[i] = "halt" => i = Len(p.body)
  /\ p.origin = "initial" => ~Has(p, {"wait"})

VARIABLES
  proc,     \* the process
  printed,  \* what is printed for it: [kind, list, body], or None before
  src, dst  \* the two runs: what they did since the last event

vars == <<proc, printed, src, dst>>

None == [kind |-> "none", list |-> FALSE, body |-> <<>>]

-----------------------------------------------------------------------------
CountsEmptyWaits(p) == p.list \/ Has(p, {"wait", "halt", "maybe"})
CountsTheMarker(p) == p.list \/ (~Has(p, {"halt", "maybe", "tail"}) /\ Has(p, {"wait"}))
(* A list wakes a process.  Otherwise an untagged empty wait anywhere says *)
(* it stops, the marker says nothing, and any other wait says it wakes.    *)
IsRetriggerable(p) == p.list \/ (~Has(p, {"halt", "maybe"}) /\ Has(p, {"wait"}))

(* visitStateTable and visitWait: an empty wait prints nothing.            *)
Without(empty, b) == [i \in DOMAIN b |-> IF b[i] \in empty THEN "nothing" ELSE b[i]]
PrintsEmptyWaits(p) ==
  [kind |-> IF IsRetriggerable(p) THEN "always" ELSE "initial",
   list |-> p.list, body |-> Without({"tail"}, p.body)]
Printed(p) ==
  [kind |-> IF IsRetriggerable(p) THEN "always" ELSE "initial",
   list |-> p.list, body |-> Without({"halt", "maybe", "tail"}, p.body)]

(* A run: where it is, the turns it began and the assignments it made      *)
(* since the last event, whether it ever came round, whether it stopped.   *)
(* It begins in its event control when it has a list.                      *)
Start(list) ==
  [pc |-> IF list THEN 0 ELSE 1, turn |-> 0, out |-> <<>>, again |-> FALSE, stopped |-> FALSE]
Loops(p) == p.origin # "initial"

(* One step of a run through `body`: pc 0 is the event control.            *)
AtEvent(r, body) ==
  ~r.stopped /\ (r.pc = 0 \/ (r.pc \in DOMAIN body /\ body[r.pc] = "wait"))
Done(r, body) == r.stopped \/ AtEvent(r, body)
RoundAgain(r, list, loops) ==
  IF loops THEN [r EXCEPT !.pc = IF list THEN 0 ELSE 1, !.turn = @ + 1, !.again = TRUE]
  ELSE [r EXCEPT !.stopped = TRUE]
Execute(r, body, list, loops, taken) ==
  CASE r.pc > Len(body) -> RoundAgain(r, list, loops)
    [] r.pc \in DOMAIN body /\ body[r.pc] \in {"w1", "w2"} ->
         [r EXCEPT !.pc = @ + 1, !.out = Append(@, body[r.pc])]
    [] r.pc \in DOMAIN body /\ (body[r.pc] = "halt" \/ (body[r.pc] = "maybe" /\ taken)) ->
         [r EXCEPT !.stopped = TRUE]
    [] OTHER -> [r EXCEPT !.pc = @ + 1]
Resume(r, body) ==
  [r EXCEPT !.pc = IF AtEvent(r, body) THEN @ + 1 ELSE @, !.turn = 0, !.out = <<>>]

-----------------------------------------------------------------------------
Init ==
  /\ proc \in Processes
  /\ printed = None
  /\ src = Start(proc.list)
  /\ dst = Start(proc.list)

VisitStateTable ==
  /\ printed = None
  /\ printed' = Printed(proc)
  /\ UNCHANGED <<proc, src, dst>>

Turns == 2  \* bound: turns followed without an event in between

RunSource ==
  /\ printed # None
  /\ ~Done(src, proc.body) /\ src.turn < Turns
  /\ \E taken \in BOOLEAN : src' = Execute(src, proc.body, proc.list, Loops(proc), taken)
  /\ UNCHANGED <<proc, printed, dst>>

RunPrinted ==
  /\ printed # None
  /\ ~Done(dst, printed.body) /\ dst.turn < Turns
  /\ dst' = Execute(dst, printed.body, printed.list, printed.kind = "always", FALSE)
  /\ UNCHANGED <<proc, printed, src>>

(* The event both wait for, or the time. *)
Wake ==
  /\ printed # None
  /\ Done(src, proc.body) /\ Done(dst, printed.body)
  /\ AtEvent(src, proc.body) \/ AtEvent(dst, printed.body)
  /\ src' = Resume(src, proc.body)
  /\ dst' = Resume(dst, printed.body)
  /\ UNCHANGED <<proc, printed>>

Next == VisitStateTable \/ RunSource \/ RunPrinted \/ Wake
Spec == Init /\ [][Next]_vars

-----------------------------------------------------------------------------
Run(body) ==
  [pc : 0 .. Len(body) + 1, turn : 0 .. Turns, out : Seq(Items), again : BOOLEAN, stopped : BOOLEAN]
(* Every variable keeps its type, and no empty wait reaches the output,    *)
(* which has no spelling for it.                                           *)
TypeOK ==
  /\ proc \in Processes
  /\ printed.kind \in {"none", "initial", "always"} /\ printed.list \in BOOLEAN
  /\ ToSet(printed.body) \subseteq {"w1", "w2", "wait", "nothing"}
  /\ src \in Run(proc.body) /\ dst \in Run(proc.body)

(* The printed process never runs through its body twice without waiting   *)
(* for anything (hif-backend#40, #46: a zero-delay loop).                  *)
NeverSpins == dst.turn < Turns

(* Between two events, and after the last one, the printed process makes   *)
(* the assignments its source makes, in the same order, and it stops       *)
(* responding only when its source does.                                   *)
SameOutput ==
  printed # None /\ Done(src, proc.body) /\ Done(dst, printed.body) =>
    /\ dst.out = src.out
    /\ AtEvent(dst, printed.body) <=> AtEvent(src, proc.body)

(* A process printed as `initial` never comes round again in the source.   *)
InitialNeverLoops == printed.kind = "initial" => ~src.again
=============================================================================
