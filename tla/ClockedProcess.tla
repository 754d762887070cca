---------------------------- MODULE ClockedProcess ----------------------------
(***************************************************************************)
(* fixSynchronousProcesses (src/src/hif2verilog/PostRefine_process.cpp):   *)
(* a VHDL clocked process, which is sensitive to the level of its clock    *)
(* and tests the edge inside its body, becomes a Verilog always block with *)
(* the edge in its event control.                                          *)
(*                                                                         *)
(* The pass visits one process (Visit), which it skips, refuses or         *)
(* rebuilds.  A rebuilt process and its source then run side by side on    *)
(* the same stimulus (Step), each under the rules of its own language, and *)
(* the registers they drive are compared.                                  *)
(*                                                                         *)
(* A branch of the body is one statement: its effect on the register q,    *)
(* a function of the old q and of the data input, with what the pass can   *)
(* see of it (is it only assignments, does a right-hand side read anything *)
(* mutable).  A synchronous reset is a data input like any other.          *)
(*                                                                         *)
(* The pass accepts processes whose conditions test more than it carries   *)
(* over (OnlyEdgeOrReset says which do not), so the claim of the registers *)
(* is of the others.                                                       *)
(***************************************************************************)
EXTENDS Naturals, Sequences

CONSTANTS
  Data,        \* values of the register and of the data input
  Enabling,    \* those for which a condition that tests d holds
  Statements,  \* the statements a branch can hold
  Sources,     \* the processes the pass visits
  Glitches     \* which of clk and rst may become unknown again once driven

(* A statement is [form, reads, val]: what the pass sees of it, and what   *)
(* it does.  An assignment that reads nothing mutable has a settled value. *)
ASSUME StatementsAssumption ==
  \A s \in Statements :
    /\ s.form \in {"assign", "other"}
    /\ s.reads \in BOOLEAN
    /\ s.val \in [Data \X Data -> Data]
    /\ s.form = "assign" /\ ~s.reads =>
         \A x, y \in Data \X Data : s.val[x] = s.val[y]
ASSUME GlitchesAssumption == Glitches \subseteq {"clk", "rst"}

Logic == {"0", "1", "x"}
Names == {"clk", "rst", "d"}

VARIABLES
  pc,      \* "visit", then "skipped", "refused" or "run"
  source,  \* the process as the pass finds it
  target,  \* the process as the pass leaves it
  sig,     \* the value of clk, rst and d
  qSource, \* the register of the source under VHDL
  qTarget  \* the register of the target under Verilog

vars == <<pc, source, target, sig, qSource, qTarget>>

-----------------------------------------------------------------------------
(***************************************************************************)
(* Processes.  A body is the statements outside the if (at most one), the  *)
(* alternatives of the if in order and its else (at most one statement).   *)
(* The condition of an alternative is the edge, the edge and or or a test  *)
(* of d, or it tests the reset's or d's level.                             *)
(***************************************************************************)
Optional(S) == {<<>>} \cup {<<s>> : s \in S}
EdgeTests  == {"edge", "edge_and_d", "edge_or_d"}
LevelTests == {"reset", "d"}
Alternatives == [cond : EdgeTests \cup LevelTests, act : Statements]

(* A VHDL process.  Its edge tests stand in the conditions of the if;      *)
(* nested says that there is one elsewhere, in a branch or in a loop.      *)
Processes ==
  [edge : {"rise", "fall"}, helper : BOOLEAN, phase : {"high", "low"},
   nested : BOOLEAN, qualified : BOOLEAN, sens : SUBSET Names,
   outside : Optional(Statements), alts : Seq(Alternatives), other : Optional(Statements)]
EdgeAlternatives(p) == {i \in DOMAIN p.alts : p.alts[i].cond \in EdgeTests}
HasReset(p) == \E i \in DOMAIN p.alts : p.alts[i].cond = "reset"

(* analyzeProcesses, in hif-core, is taken to answer the clock and, when   *)
(* the if tests one, the asynchronous reset; the list holds both.          *)
ASSUME SourcesAssumption ==
  \A p \in Sources :
    /\ p \in Processes
    /\ p.alts # <<>>
    /\ "clk" \in p.sens
    /\ HasReset(p) => "rst" \in p.sens

-----------------------------------------------------------------------------
(***************************************************************************)
(* The pass.                                                               *)
(***************************************************************************)
(* collectEdgeCalls: of a process without one there is nothing to do. *)
TestsEdge(p) == p.nested \/ EdgeAlternatives(p) # {}
(* One edge test, somewhere in the condition of an alternative.            *)
OneEdgeTest(p) == ~p.nested /\ \E i \in DOMAIN p.alts : EdgeAlternatives(p) = {i}

(* altForReset: the first alternative that is not the clocked one.         *)
ResetBranch(p) ==
  LET others == DOMAIN p.alts \ EdgeAlternatives(p)
  IN  {p.alts[i].act : i \in {k \in others : \A j \in others : k <= j}}

UncheckedReset(p) == TRUE
(* The reset branch only assigns, and only values settled beforehand. *)
IdempotentReset(p) ==
  HasReset(p) => \A s \in ResetBranch(p) : s.form = "assign" /\ ~s.reads

(* The if is the whole body, the edge is its last alternative and it has   *)
(* no else.                                                                *)
OnlyClockedIf(p) ==
  /\ p.outside = <<>>
  /\ p.alts[Len(p.alts)].cond \in EdgeTests
  /\ p.other = <<>>

ResetOf(p) == IF HasReset(p) THEN {"rst"} ELSE {}
(* What stays of the level sensitivity once the clock and the asynchronous *)
(* reset have moved to the edge lists.                                     *)
LevelLeft(p) == p.sens \ ({"clk"} \cup ResetOf(p))

ResetReleaseEdge(p) == IF p.phase = "high" THEN "neg" ELSE "pos"
(* The edge lists: the clock by its working edge, the reset by the edge    *)
(* that asserts it.                                                        *)
ResetEdge(p) == IF p.phase = "low" THEN "neg" ELSE "pos"
EdgeList(p, e) ==
  (IF (e = "pos") = (p.edge = "rise") THEN {"clk"} ELSE {})
    \cup (IF e = ResetEdge(p) THEN ResetOf(p) ELSE {})

Accepts(p) ==
  /\ ~p.qualified
  /\ OneEdgeTest(p)
  /\ OnlyClockedIf(p)
  /\ IdempotentReset(p)
  /\ LevelLeft(p) = {}

EdgeTestKept(p) ==
  [pos |-> EdgeList(p, "pos"), neg |-> EdgeList(p, "neg"), phase |-> p.phase,
   outside |-> <<>>, alts |-> p.alts, other |-> <<p.alts[Len(p.alts)].act>>]
(* The clocked branch becomes the else and its condition goes, with all    *)
(* that is in it; an if with no alternative left is spliced into the body. *)
Rebuilt(p) ==
  LET clocked == <<p.alts[Len(p.alts)].act>>
      rest    == SubSeq(p.alts, 1, Len(p.alts) - 1)
  IN  [pos     |-> EdgeList(p, "pos"),
       neg     |-> EdgeList(p, "neg"),
       phase   |-> p.phase,
       outside |-> IF rest = <<>> THEN clocked ELSE <<>>,
       alts    |-> rest,
       other   |-> IF rest = <<>> THEN <<>> ELSE clocked]

-----------------------------------------------------------------------------
(***************************************************************************)
(* How the two languages run a process.                                    *)
(***************************************************************************)
Active(p) == IF p.phase = "low" THEN "0" ELSE "1"

(* rising_edge and falling_edge look at the last value too; the 'event     *)
(* spelling only at the new one.                                           *)
VhdlEdge(p, old, new) ==
  LET from == IF p.edge = "rise" THEN "0" ELSE "1"
      to   == IF p.edge = "rise" THEN "1" ELSE "0"
  IN  old.clk # new.clk /\ new.clk = to /\ (p.helper => old.clk = from)

PosEdge(a, b) == a # b /\ (a = "0" \/ b = "1")
NegEdge(a, b) == a # b /\ (a = "1" \/ b = "0")

(* Which conditions hold, and the statement of the first alternative that  *)
(* does, else the else branch.                                             *)
Conditions(p, new, isEdge) ==
  (IF new.rst = Active(p) THEN {"reset"} ELSE {})
    \cup (IF new.d \in Enabling THEN {"d"} ELSE {})
    \cup (IF isEdge THEN {"edge"} ELSE {})
    \cup (IF isEdge /\ new.d \in Enabling THEN {"edge_and_d"} ELSE {})
    \cup (IF isEdge \/ new.d \in Enabling THEN {"edge_or_d"} ELSE {})
Taken(p, holds) ==
  LET is == {i \in DOMAIN p.alts : p.alts[i].cond \in holds}
  IN  IF is = {} THEN p.other
      ELSE <<p.alts[CHOOSE i \in is : \A j \in is : i <= j].act>>

(* A signal keeps the last value assigned to it; reads see the old one.    *)
Effect(stmts, q, d, keep) == IF stmts = <<>> THEN keep ELSE stmts[1].val[<<q, d>>]
RunBody(p, holds, q, d) ==
  Effect(Taken(p, holds), q, d, Effect(p.outside, q, d, q))

VhdlRun(p, old, new, q) ==
  IF \E s \in p.sens : old[s] # new[s]
  THEN RunBody(p, Conditions(p, new, VhdlEdge(p, old, new)), q, new.d)
  ELSE q

VerilogWakes(t, old, new) ==
  \/ \E s \in t.pos : PosEdge(old[s], new[s])
  \/ \E s \in t.neg : NegEdge(old[s], new[s])
VerilogRun(t, old, new, q) ==
  IF VerilogWakes(t, old, new)
  THEN RunBody(t, Conditions(t, new, FALSE), q, new.d)
  ELSE q

-----------------------------------------------------------------------------
Waveforms == [clk : Logic, rst : Logic, d : Data]

(* At time zero nothing has been driven; a clock tested with rising_edge   *)
(* or falling_edge has its first value already, since the languages differ *)
(* on the transition out of the unknown value (clocked_process_tb.v).      *)
Init ==
  /\ pc = "visit"
  /\ source \in Sources
  /\ target = source
  /\ sig \in {s \in Waveforms : s.rst = "x" /\ (source.helper => s.clk # "x")}
  /\ qSource \in Data
  /\ qTarget = qSource

Skip ==
  /\ pc = "visit"
  /\ ~TestsEdge(source)
  /\ pc' = "skipped"
  /\ UNCHANGED <<source, target, sig, qSource, qTarget>>

Refuse ==
  /\ pc = "visit"
  /\ TestsEdge(source)
  /\ ~Accepts(source)
  /\ pc' = "refused"
  /\ UNCHANGED <<source, target, sig, qSource, qTarget>>

Rebuild ==
  /\ pc = "visit"
  /\ Accepts(source)
  /\ target' = Rebuilt(source)
  /\ pc' = "run"
  /\ UNCHANGED <<source, sig, qSource, qTarget>>

(* Any of the inputs change in one delta cycle; a clock or a reset without *)
(* glitches stays driven once it is.                                       *)
Step ==
  /\ pc = "run"
  /\ sig' \in Waveforms
  /\ \A s \in {"clk", "rst"} \ Glitches : sig'[s] = "x" => sig[s] = "x"
  /\ qSource' = VhdlRun(source, sig, sig', qSource)
  /\ qTarget' = VerilogRun(target, sig, sig', qTarget)
  /\ UNCHANGED <<pc, source, target>>

Next == Skip \/ Refuse \/ Rebuild \/ Step

Spec == Init /\ [][Next]_vars

-----------------------------------------------------------------------------
(* What the printer can print as an always block: no alternative tests an  *)
(* edge, which Verilog cannot spell in a body.                             *)
Blocks ==
  [pos : SUBSET {"clk", "rst"}, neg : SUBSET {"clk", "rst"}, phase : {"high", "low"},
   outside : Optional(Statements), alts : Seq([cond : LevelTests, act : Statements]),
   other : Optional(Statements)]

(* Every variable keeps its type; the pass leaves a process it accepts as  *)
(* a block without edge tests (visitStateTable, "Drop the edge test").     *)
TypeOK ==
  /\ pc \in {"visit", "skipped", "refused", "run"}
  /\ source \in Sources
  /\ sig \in Waveforms
  /\ qSource \in Data
  /\ qTarget \in Data
  /\ target \in IF pc = "run" THEN Blocks ELSE {source}

(* The conditions are the bare edge and the bare reset.  The pass asks     *)
(* only that the edge test be somewhere in its condition, drops the whole  *)
(* of it, and looks at one of the branches before it: it accepts an enable *)
(* beside the edge and a test of data before it, and does not carry them   *)
(* over.                                                                   *)
OnlyEdgeOrReset(p) == \A i \in DOMAIN p.alts : p.alts[i].cond \in {"edge", "reset"}

(* The rebuilt process drives what the source drives, after any number of  *)
(* clock edges, reset pulses and data changes, alone or in the same delta: *)
(* what the refusals of visitStateTable are there to guarantee.            *)
SameRegister == pc = "run" /\ OnlyEdgeOrReset(source) => qTarget = qSource

(* What the comments at lines 181-184 and 194-196 say of every process: a  *)
(* shape the pass cannot carry over is refused, not mistranslated.         *)
NeverMistranslated == pc = "run" => qTarget = qSource

(* Whatever wakes the rebuilt process, the clocked branch, an unconditional *)
(* else once the edge test is gone, runs only when the clock moved to its  *)
(* working edge: what the refusal of other sensitivities is there to       *)
(* guarantee.                                                              *)
ClockedBranchNeedsEdge ==
  [][pc = "run" /\ VerilogWakes(target, sig, sig')
       => \/ VhdlEdge(source, sig, sig')
          \/ HasReset(source) /\ sig'.rst = Active(source)]_vars
=============================================================================
