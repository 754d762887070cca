------------------------------- MODULE LoopExits -------------------------------
(***************************************************************************)
(* Leaving a loop and starting its next turn (src/src/hif2sc/              *)
(* PreRefine_misc.cpp and PrintSystemCVisitor.cpp).  In HIF a break or a   *)
(* continue names its loop and a switch is nothing to leave; in C++ a      *)
(* break leaves the nearest loop or switch and any other jump is a goto to *)
(* a label.  The pass drops the names C++ does not need, and turns the     *)
(* switches C++ cannot spell into ifs.                                     *)
(*                                                                         *)
(* A jump is seen with the statements around it, outermost first.  The     *)
(* printed text is their outline, with `rest` for what follows the inner   *)
(* statement in each body.                                                 *)
(***************************************************************************)
EXTENDS Naturals, Sequences, FiniteSetsExt

CONSTANTS
  Paths,  \* the statements around a jump
  Jumps   \* the jumps

VARIABLES
  path,     \* what is around the jump
  jump,     \* the jump
  target,   \* where HIF goes
  stage,    \* "breaks", then "visit", "switches", "done"
  outline   \* the text printed

exitVars == <<path, jump, target, stage, outline>>

-----------------------------------------------------------------------------
NoName == "none"
(* A statement is [kind, name], a switch [kind, name, cases, semantics,    *)
(* logic]: are its values ones C++ takes as cases, is it a casex or casez, *)
(* and is its condition of a logic type.  A switch has no name.            *)
Loops == {"for", "while", "do"}
Statement ==
  [kind : Loops, name : STRING] \cup [kind : {"if"}, name : {NoName}]
  \cup [kind : {"switch"}, name : {NoName}, switchable : BOOLEAN,
        cases : SUBSET {"constant", "enumerator", "macro", "cast", "range", "other_type"},
        semantics : {"literal", "casex", "casez"}, logic : BOOLEAN]
IsLoop(s) == s.kind \in Loops
(* A loop does not have the name of one around it. *)
WellFormed(p) ==
  /\ p \in Seq(Statement)
  /\ \A i, k \in DOMAIN p : p[i].name # NoName /\ p[i].name = p[k].name => i = k
Max0(S) == IF S = {} THEN 0 ELSE Max(S)

(* The nearest action around the jump that is not an if. *)
Nearest(p) == Max0({i \in DOMAIN p : p[i].kind # "if"})
NearestLoop(p) == Max0({i \in DOMAIN p : IsLoop(p[i])})
NameThere(p, i) == IF i = 0 THEN NoName ELSE p[i].name
DropsPastSwitches(p, j) ==
  IF j.name # NoName /\ NameThere(p, NearestLoop(p)) = j.name THEN [j EXCEPT !.name = NoName] ELSE j
DropName(p, j) ==
  IF j.name # NoName /\ NameThere(p, Nearest(p)) = j.name THEN [j EXCEPT !.name = NoName] ELSE j
(* visitContinue and _fixBreaks. *)
VisitContinue(p, j) == IF j.kind = "continue" THEN DropName(p, j) ELSE j
FixBreak(p, j) == IF j.kind = "break" THEN DropName(p, j) ELSE j

(* _isNotGoodForSwitch: only constants of C++'s case types, written as     *)
(* such, or names of enumerators and macros.                               *)
NotGoodForSwitch(v) ==
  \/ v \in {"cast", "range", "other_type"}
  \/ v \notin {"constant", "enumerator", "macro"}
(* _needTranslationOfSwitchToif *)
NeedTranslation(s) == ~s.switchable \/ \E v \in s.cases : NotGoodForSwitch(v)
(* _fixCaseSemantics: casex and casez are plain where nothing is logic. *)
FixedSemantics(s) == IF s.semantics # "literal" /\ ~s.logic THEN "literal" ELSE s.semantics
BecomesIf(s) == NeedTranslation(s) \/ FixedSemantics(s) # "literal"
ToVisit == {i \in DOMAIN path : path[i].kind = "switch" /\ BecomesIf(path[i])}

-----------------------------------------------------------------------------
(***************************************************************************)
(* The printer.                                                            *)
(***************************************************************************)
(* What ends a statement, after its body.  visitFor and visitWhile: the    *)
(* label of continue ends the body, that of break follows the loop; do is  *)
(* closed by its condition.                                                *)
PrintFor(p, i) ==
  IF p[i].name = NoName THEN << <<"close", i>> >>
  ELSE << <<"label", <<"continue", p[i].name>> >>, <<"close", i>>, <<"label", <<"break", p[i].name>> >> >>
PrintWhile(p, i) == PrintFor(p, i)
(* visitSwitch and visitSwitchAlt: a break ends every case. *)
PrintSwitch(i) == << <<"break", NoName>>, <<"default", i>>, <<"break", NoName>>, <<"close", i>> >>
PrintEnd(p, i) ==
  CASE p[i].kind = "for" -> PrintFor(p, i)
    [] p[i].kind \in {"while", "do"} -> PrintWhile(p, i)
    [] p[i].kind = "switch" -> PrintSwitch(i)
    [] p[i].kind = "if" -> << <<"close", i>> >>
(* visitBreak and visitContinue *)
PrintJump(j) == IF j.name = NoName THEN <<j.kind, NoName>> ELSE <<"goto", <<j.kind, j.name>> >>
(* Each statement and what follows it in the body it is in. *)
Outline(p, j) ==
  LET from[i \in 1 .. Len(p) + 1] ==
        (IF i > Len(p) THEN <<PrintJump(j)>> ELSE << <<"open", i>> >> \o from[i + 1] \o PrintEnd(p, i))
          \o << <<"rest", i - 1>> >>
  IN  from[1]

-----------------------------------------------------------------------------
(* What HIF means: out of the loop named, or to its next turn; a jump      *)
(* without a name is about the nearest loop.                               *)
Loop(p, j) == Max0({i \in DOMAIN p : IsLoop(p[i]) /\ (j.name # NoName => p[i].name = j.name)})
Meant(p, j) == IF j.kind = "break" THEN <<"rest", Loop(p, j) - 1>> ELSE <<"close", Loop(p, j)>>

(* A break without a name inside a switch that is printed as one leaves    *)
(* the switch, and one that names its process has no loop to leave: these  *)
(* two are left out.                                                       *)
Expected(p, j) ==
  /\ Loop(p, j) # 0
  /\ j = [kind |-> "break", name |-> NoName] =>
       \A i \in Loop(p, j) .. Len(p) : p[i].kind = "switch" => BecomesIf(p[i])

Init ==
  /\ path \in Paths
  /\ jump \in {j \in Jumps : Expected(path, j)}
  /\ target = Meant(path, jump)
  /\ stage = "breaks"
  /\ outline = <<>>

(* _fixBreaks, before anything is visited. *)
FixBreaks ==
  /\ stage = "breaks"
  /\ jump' = FixBreak(path, jump)
  /\ stage' = "visit"
  /\ UNCHANGED <<path, target, outline>>

(* The guide visitor reaches the jump before the statements around it. *)
VisitJump ==
  /\ stage = "visit"
  /\ jump' = VisitContinue(path, jump)
  /\ stage' = "switches"
  /\ UNCHANGED <<path, target, outline>>

(* visitSwitch, innermost first: a switch becomes an if, and what is in it *)
(* is visited again.                                                       *)
VisitSwitch ==
  /\ stage = "switches" /\ ToVisit # {}
  /\ path' = [path EXCEPT ![Max(ToVisit)] = [kind |-> "if", name |-> NoName]]
  /\ jump' = VisitContinue(path', jump)
  /\ UNCHANGED <<target, stage, outline>>

PrintJumps ==
  /\ stage = "switches" /\ ToVisit = {}
  /\ outline' = Outline(path, jump)
  /\ stage' = "done"
  /\ UNCHANGED <<path, jump, target>>

Next == FixBreaks \/ VisitJump \/ VisitSwitch \/ PrintJumps
Spec == Init /\ [][Next]_exitVars

-----------------------------------------------------------------------------
(* What C++ does: a break goes past the close of the nearest loop or       *)
(* switch, a continue to the close of the nearest loop, a goto to its      *)
(* label; labels are passed.                                               *)
Where(t) == CHOOSE n \in DOMAIN outline : outline[n] = t
IsLabel(t) == t[1] = "label"
Landing ==
  LET t == PrintJump(jump)
      at == CASE t[1] = "break" -> Where(<<"close", Nearest(path)>>) + 1
              [] t[1] = "continue" -> Where(<<"close", NearestLoop(path)>>)
              [] t[1] = "goto" -> Where(<<"label", t[2]>>)
  IN  outline[Min({n \in at .. Len(outline) : ~IsLabel(outline[n])})]

(* Every break and continue lands where its loop's end or next turn is,    *)
(* through ifs, through switches kept and rewritten, and past inner loops. *)
SameExit == stage = "done" => Landing = target
===============================================================================
