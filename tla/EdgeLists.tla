------------------------------- MODULE EdgeLists -------------------------------
(***************************************************************************)
(* The way back from Verilog's event control to VHDL's                     *)
(* (src/src/hif2vhdl/VhdlPreRefine_misc.cpp): a process with edges in its  *)
(* sensitivity becomes one that is sensitive to the plain signals and      *)
(* tests the edges in its body.                                            *)
(*                                                                         *)
(* The pass visits one process, which it leaves, refuses or rebuilds; a    *)
(* rebuilt one and its source then see the same inputs change, and each    *)
(* drives a register.  The pass rebuilds some processes whose bodies it    *)
(* cannot carry over (Settles says which it can), so the claim is of the   *)
(* others.                                                                 *)
(***************************************************************************)
EXTENDS Naturals, Sequences

CONSTANTS
  Data,     \* what the register and the data input can hold
  Actions,  \* what a branch can do to the register
  Sources   \* the processes the pass visits

(* An action is [settled, to]: the register it leaves, from the old one    *)
(* and the data input; a settled one leaves the same whatever they are.    *)
ASSUME ActionsAssumption ==
  \A a \in Actions :
    /\ a.settled \in BOOLEAN
    /\ a.to \in [Data \X Data -> Data]
    /\ a.settled => \A x, y \in Data \X Data : a.to[x] = a.to[y]

VARIABLES
  pc,       \* "visit", then "left", "refused" or "run"
  source,   \* the process with edge lists
  target,   \* what the pass makes of it
  sig,      \* the inputs
  qSource,  \* the register under the edge lists
  qTarget   \* the register under the tests

vars == <<pc, source, target, sig, qSource, qTarget>>

-----------------------------------------------------------------------------
Level == {"0", "1", "x"}
Controls == {"clk", "rst"}
Nothing == <<>>
Branch == {Nothing} \cup {<<a>> : a \in Actions}
High == "1"
Low == "0"

(* A body is an if over the reset, or one branch alone: the alternatives   *)
(* in order, each with the literals that open it, and the else.            *)
Literal(n, v, e) == [name |-> n, value |-> v, event |-> e]
Bodies(v) == [alts : {<<[when |-> {Literal("rst", v, FALSE)}, act |-> b]>> : b \in Branch},
              other : Branch]
PlainBodies == [alts : {<<>>}, other : Branch]
ASSUME SourcesAssumption ==
  \A p \in Sources :
    /\ p.pos \subseteq Controls /\ p.neg \subseteq Controls /\ p.pos \cap p.neg = {}
    /\ p.levels \subseteq {"clk", "rst", "d"}
    /\ p.body \in PlainBodies \cup Bodies(Low) \cup Bodies(High)

Edges(p) == p.pos \cup p.neg
(* What the reset test of the body waits for, where it is the level its    *)
(* edge in the list leads to.                                              *)
TestsResetEdge(p) ==
  /\ p.body.alts # <<>>
  /\ p.body.alts[1].when = {Literal("rst", IF "rst" \in p.pos THEN High ELSE Low, FALSE)}
(* analyzeProcesses, in hif-core: which kind of process this is. *)
Kind(p) ==
  IF Edges(p) = {} THEN "combinational"
  ELSE IF p.levels # {} THEN "mixed"
  ELSE IF Edges(p) # Controls THEN "wrapped"
  ELSE IF TestsResetEdge(p) THEN "nested" ELSE "asynchronous"
Clocks(p) ==
  IF Kind(p) = "wrapped" THEN Edges(p) ELSE IF Kind(p) = "nested" THEN {"clk"} ELSE {}

-----------------------------------------------------------------------------
PlainCondition(p, names) ==
  {Literal(n, IF n \in p.pos THEN High ELSE Low, FALSE) : n \in names}
(* _buildSensitivityCondition: a literal for each edge, and for the clock  *)
(* its 'event as well.                                                     *)
BuildCondition(p, names) ==
  {Literal(n, IF n \in p.pos THEN High ELSE Low, n \in Clocks(p)) : n \in names}
(* _fixSynchronousProcess: the whole body under the condition, or the else *)
(* of the reset test, which becomes a second alternative.                  *)
Wrapped(p) ==
  [sens |-> Edges(p), guard |-> {BuildCondition(p, Edges(p))},
   alts |-> p.body.alts, other |-> p.body.other]
Nested(p) ==
  [sens  |-> Edges(p),
   guard |-> {},
   alts  |-> <<p.body.alts[1],
               [when |-> BuildCondition(p, {"clk"}), act |-> p.body.other]>>,
   other |-> Nothing]
Rebuilt(p) == IF Kind(p) = "nested" THEN Nested(p) ELSE Wrapped(p)

-----------------------------------------------------------------------------
(***************************************************************************)
(* How each process runs.                                                  *)
(***************************************************************************)
LiteralHolds(l, old, new) ==
  new[l.name] = l.value /\ (l.event => old[l.name] # new[l.name])
AnyHolds(literals, old, new) == \E l \in literals : LiteralHolds(l, old, new)
Chosen(b, old, new) ==
  LET open == {i \in DOMAIN b.alts : AnyHolds(b.alts[i].when, old, new)}
  IN  IF open = {} THEN b.other
      ELSE b.alts[CHOOSE i \in open : \A j \in open : i <= j].act
Does(branch, q, d) == IF branch = Nothing THEN q ELSE branch[1].to[<<q, d>>]

Rises(a, b) == a # b /\ (a = Low \/ b = High)
Falls(a, b) == a # b /\ (a = High \/ b = Low)
ListWakes(p, old, new) ==
  \/ \E n \in p.pos : Rises(old[n], new[n])
  \/ \E n \in p.neg : Falls(old[n], new[n])
ListRun(p, old, new, q) ==
  IF ListWakes(p, old, new) THEN Does(Chosen(p.body, old, new), q, new.d) ELSE q

TestRun(t, old, new, q) ==
  IF /\ \E n \in t.sens : old[n] # new[n]
     /\ \A g \in t.guard : AnyHolds(g, old, new)
  THEN Does(Chosen(t, old, new), q, new.d)
  ELSE q

-----------------------------------------------------------------------------
Inputs == [clk : Level, rst : Level, d : Data]

(* Nothing has been driven yet. *)
Init ==
  /\ pc = "visit"
  /\ source \in Sources
  /\ target = <<>>
  /\ sig \in {s \in Inputs : s.clk = "x" /\ s.rst = "x"}
  /\ qSource \in Data
  /\ qTarget = qSource

(* visitStateTable: a process without edges stays as it is. *)
Leave ==
  /\ pc = "visit" /\ Edges(source) = {}
  /\ pc' = "left"
  /\ UNCHANGED <<source, target, sig, qSource, qTarget>>

Refuse ==
  /\ pc = "visit" /\ Kind(source) = "mixed"
  /\ pc' = "refused"
  /\ UNCHANGED <<source, target, sig, qSource, qTarget>>

Rebuild ==
  /\ pc = "visit" /\ Kind(source) \in {"wrapped", "nested", "asynchronous"}
  /\ pc' = "run"
  /\ target' = Rebuilt(source)
  /\ UNCHANGED <<source, sig, qSource, qTarget>>

(* Inputs change, any of them in one delta cycle; once driven, a clock or  *)
(* a reset stays 0 or 1.                                                   *)
Change ==
  /\ pc = "run"
  /\ sig' \in Inputs
  /\ \A n \in Controls : sig'[n] = "x" => sig[n] = "x"
  /\ qSource' = ListRun(source, sig, sig', qSource)
  /\ qTarget' = TestRun(target, sig, sig', qTarget)
  /\ UNCHANGED <<pc, source, target>>

Next == Leave \/ Refuse \/ Rebuild \/ Change
Spec == Init /\ [][Next]_vars

-----------------------------------------------------------------------------
(* The processes whose rebuilt form runs more often than they do, or at    *)
(* other edges, without doing anything new: the extra runs of a reset      *)
(* branch, or of a body under a condition without 'event, assign what the  *)
(* register holds.                                                         *)
SettledBranch(b) == b # Nothing => b[1].settled
Settles(p) ==
  /\ Kind(p) = "nested" => SettledBranch(p.body.alts[1].act)
  /\ Kind(p) = "asynchronous" => p.body.alts = <<>> /\ SettledBranch(p.body.other)

(* The types, among them what a rebuilt process is: a block of tests that  *)
(* is woken by every signal its lists named (VHDLPrinter::visitStateTable  *)
(* prints one plain list) and tests 'event of its clocks, each at the edge *)
(* its list gave, and of nothing else.                                     *)
Literals == [name : Controls, value : {High, Low}, event : BOOLEAN]
Alternatives == [when : SUBSET Literals, act : Branch]
Blocks ==
  [sens : SUBSET Controls, guard : SUBSET SUBSET Literals, alts : Seq(Alternatives), other : Branch]
Tested(t) == (UNION t.guard) \cup (UNION {t.alts[i].when : i \in DOMAIN t.alts})
EdgesTested(p, t) ==
  /\ t.sens = Edges(p) \cup p.levels
  /\ {l \in Tested(t) : l.event} = {Literal(n, IF n \in p.pos THEN High ELSE Low, TRUE) : n \in Clocks(p)}
TypeOK ==
  /\ pc \in {"visit", "left", "refused", "run"}
  /\ source \in Sources
  /\ sig \in Inputs
  /\ qSource \in Data
  /\ qTarget \in Data
  /\ IF pc = "run" THEN target \in Blocks /\ EdgesTested(source, target) ELSE target = <<>>

(* The rebuilt process drives what its source drives, whatever changes     *)
(* with whatever else in one delta: a clock edge against a reset, the      *)
(* release of a reset at the edge, the edge the process does not work on.  *)
(* It is what _fixSynchronousProcess, which tests a level for the reset    *)
(* and 'event for the clock alone, has to keep.                            *)
SameRegister == pc = "run" /\ Settles(source) => qTarget = qSource
===============================================================================
