------------------------- MODULE ClockedProcessProofs -------------------------
(***************************************************************************)
(* For every set of data, every set of statements and every set of source  *)
(* processes, with any number of alternatives: a rebuilt process is well   *)
(* formed; without glitches it takes its clocked branch on its edge and,   *)
(* if its conditions are edges and resets, drives what its source drives.  *)
(***************************************************************************)
EXTENDS ClockedProcess, SequenceTheorems, WellFoundedInduction, TLAPS

(* The alternatives before the last. *)
Before(p) == 1 .. Len(p.alts) - 1

(* What the refusals leave: the last alternative tests the edge and no     *)
(* other does, and nothing stands beside the if.                           *)
LEMMA AcceptedShape ==
  ASSUME NEW p \in Sources, Accepts(p)
  PROVE  /\ p.alts \in Seq(Alternatives)
         /\ Len(p.alts) \in Nat \ {0}
         /\ DOMAIN p.alts = 1 .. Len(p.alts)
         /\ p.outside = <<>> /\ p.other = <<>>
         /\ p.alts[Len(p.alts)].cond \in EdgeTests
         /\ EdgeAlternatives(p) = {Len(p.alts)}
         /\ \A i \in Before(p) : i \in DOMAIN p.alts /\ p.alts[i].cond \in LevelTests
         /\ p.sens = {"clk"} \cup ResetOf(p)
<1>1. /\ p \in Processes /\ p.alts # <<>> /\ "clk" \in p.sens
      /\ HasReset(p) => "rst" \in p.sens
  BY SourcesAssumption
<1>2. p.alts \in Seq(Alternatives) /\ p.sens \in SUBSET Names
  BY <1>1 DEF Processes
<1>3. /\ p.outside = <<>> /\ p.other = <<>>
      /\ p.alts[Len(p.alts)].cond \in EdgeTests
      /\ LevelLeft(p) = {}
  BY DEF Accepts, OnlyClockedIf
<1>4. Len(p.alts) \in Nat \ {0} /\ DOMAIN p.alts = 1 .. Len(p.alts)
  BY <1>1, <1>2
<1>5. EdgeAlternatives(p) = {Len(p.alts)}
  <2>1. PICK i \in DOMAIN p.alts : EdgeAlternatives(p) = {i}
    BY DEF Accepts, OneEdgeTest
  <2>2. Len(p.alts) \in EdgeAlternatives(p)
    BY <1>3, <1>4 DEF EdgeAlternatives
  <2> QED
    BY <2>1, <2>2
<1>6. ASSUME NEW i \in Before(p)
      PROVE  i \in DOMAIN p.alts /\ p.alts[i].cond \in LevelTests
  <2>1. i \in DOMAIN p.alts /\ i # Len(p.alts)
    BY <1>4 DEF Before
  <2>2. p.alts[i] \in Alternatives /\ p.alts[i].cond \notin EdgeTests
    BY <1>2, <1>4, <1>5, <2>1 DEF EdgeAlternatives
  <2> QED
    BY <2>1, <2>2 DEF Alternatives
<1>7. p.sens = {"clk"} \cup ResetOf(p)
  BY <1>1, <1>3 DEF LevelLeft, ResetOf
<1> QED
  BY <1>2, <1>3, <1>4, <1>5, <1>6, <1>7

(* The block of an accepted process: its alternatives are those before the *)
(* edge, and the clocked branch is the else, or the body when there is no  *)
(* other.                                                                  *)
LEMMA RebuiltShape ==
  ASSUME NEW p \in Sources, Accepts(p)
  PROVE  LET t == Rebuilt(p)
             clocked == <<p.alts[Len(p.alts)].act>>
         IN  /\ t.pos = EdgeList(p, "pos") /\ t.neg = EdgeList(p, "neg") /\ t.phase = p.phase
             /\ t.alts \in Seq([cond : LevelTests, act : Statements])
             /\ DOMAIN t.alts = Before(p)
             /\ \A i \in Before(p) : t.alts[i] = p.alts[i]
             /\ t.outside = IF Before(p) = {} THEN clocked ELSE <<>>
             /\ t.other = IF Before(p) = {} THEN <<>> ELSE clocked
<1> DEFINE n == Len(p.alts) - 1
           rest == SubSeq(p.alts, 1, n)
           Kept == [cond : LevelTests, act : Statements]
<1>1. /\ p.alts \in Seq(Alternatives) /\ n \in Nat /\ Before(p) = 1 .. n
      /\ \A i \in Before(p) : i \in DOMAIN p.alts /\ p.alts[i].cond \in LevelTests
  BY AcceptedShape DEF Before
<1>2. \A i \in 1 .. n : p.alts[i] \in Kept
  <2>1. ASSUME NEW i \in 1 .. n PROVE p.alts[i] \in Kept
    <3>1. i \in DOMAIN p.alts /\ p.alts[i].cond \in LevelTests
      BY <1>1
    <3>2. p.alts[i] \in Alternatives
      BY <1>1, <3>1
    <3> QED
      BY <3>1, <3>2 DEF Alternatives
  <2> QED
    BY <2>1
<1>3. rest \in Seq(Kept) /\ Len(rest) = n /\ \A i \in 1 .. n : rest[i] = p.alts[i]
  <2>1. 1 \in Nat /\ n \in Nat /\ \A i \in 1 .. n : p.alts[i] \in Kept
    BY <1>1, <1>2
  <2> HIDE DEF Kept, n
  <2>2. /\ SubSeq(p.alts, 1, n) \in Seq(Kept)
        /\ Len(SubSeq(p.alts, 1, n)) = IF 1 <= n THEN n - 1 + 1 ELSE 0
        /\ \A i \in 1 .. n - 1 + 1 : SubSeq(p.alts, 1, n)[i] = p.alts[1 + i - 1]
    BY <2>1, SubSeqProperties
  <2> QED
    BY <2>1, <2>2
<1>4. rest = <<>> <=> n = 0
  <2> HIDE DEF rest, n, Kept
  <2>1. rest = <<>> <=> Len(rest) = 0
    BY <1>3, EmptySeq
  <2> QED
    BY <1>3, <2>1
<1>5. DOMAIN rest = 1 .. n
  BY <1>3
<1> HIDE DEF rest
<1>6. /\ Rebuilt(p).pos = EdgeList(p, "pos") /\ Rebuilt(p).neg = EdgeList(p, "neg")
      /\ Rebuilt(p).phase = p.phase /\ Rebuilt(p).alts = rest
      /\ Rebuilt(p).outside = IF rest = <<>> THEN <<p.alts[Len(p.alts)].act>> ELSE <<>>
      /\ Rebuilt(p).other = IF rest = <<>> THEN <<>> ELSE <<p.alts[Len(p.alts)].act>>
  BY DEF Rebuilt, rest
<1>7. n = 0 <=> Before(p) = {}
  <2> HIDE DEF n
  <2>1. n # 0 => 1 \in 1 .. n
    BY <1>1
  <2>2. n = 0 => 1 .. n = {}
    OBVIOUS
  <2> QED
    BY <1>1, <2>1, <2>2
<1> QED
  BY <1>1, <1>3, <1>4, <1>5, <1>6, <1>7

-----------------------------------------------------------------------------
(* Which branch of an if runs.                                             *)
LEMMA TakenFirst ==
  ASSUME NEW p, NEW holds, NEW n \in Nat, DOMAIN p.alts = 1 .. n, n # 0, p.alts[1].cond \in holds
  PROVE  Taken(p, holds) = <<p.alts[1].act>>
<1> DEFINE is == {i \in DOMAIN p.alts : p.alts[i].cond \in holds}
<1>1. 1 \in is /\ \A j \in is : 1 <= j /\ j \in Nat
  OBVIOUS
<1>2. (CHOOSE i \in is : \A j \in is : i <= j) = 1
  <2>1. \E i \in is : \A j \in is : i <= j
    BY <1>1
  <2>2. PICK k \in is : k = (CHOOSE i \in is : \A j \in is : i <= j) /\ \A j \in is : k <= j
    BY <2>1
  <2> QED
    BY <1>1, <2>2
<1> QED
  BY <1>1, <1>2 DEF Taken

LEMMA TakenLast ==
  ASSUME NEW p, NEW holds, NEW n \in Nat, n \in DOMAIN p.alts,
         \A i \in DOMAIN p.alts : p.alts[i].cond \in holds <=> i = n
  PROVE  Taken(p, holds) = <<p.alts[n].act>>
<1> DEFINE is == {i \in DOMAIN p.alts : p.alts[i].cond \in holds}
<1>1. is = {n}
  OBVIOUS
<1>2. (CHOOSE i \in is : \A j \in is : i <= j) = n
  BY <1>1
<1> QED
  BY <1>1, <1>2 DEF Taken

LEMMA TakenNone ==
  ASSUME NEW p, NEW holds, \A i \in DOMAIN p.alts : p.alts[i].cond \notin holds
  PROVE  Taken(p, holds) = p.other
BY DEF Taken

LEMMA LeastIndex ==
  ASSUME NEW S \in SUBSET Nat, S # {}
  PROVE  \E i \in S : \A j \in S : i <= j
<1> DEFINE Lower == OpToRel(<, Nat)
<1>1. \A i, j \in Nat : j < i => <<j, i>> \in Lower
  BY DEF OpToRel
<1>2. IsWellFoundedOn(Lower, Nat)
  BY NatLessThanWellFounded
<1> HIDE DEF Lower
<1>3. PICK i \in S : \A j \in S : ~(<<j, i>> \in Lower)
  BY <1>2, WFMin
<1>4. \A j \in S : i \in Nat /\ j \in Nat /\ ~(j < i)
  BY <1>1, <1>3
<1> QED
  BY <1>4

LEMMA TakenTypes ==
  ASSUME NEW p, NEW holds, NEW n \in Nat, DOMAIN p.alts = 1 .. n,
         \A i \in DOMAIN p.alts : p.alts[i].act \in Statements,
         p.other \in Optional(Statements)
  PROVE  Taken(p, holds) \in Optional(Statements)
<1> DEFINE is == {i \in DOMAIN p.alts : p.alts[i].cond \in holds}
<1>1. CASE is = {}
  BY <1>1 DEF Taken
<1>2. CASE is # {}
  <2>1. \E i \in is : \A j \in is : i <= j
    <3>1. is \in SUBSET Nat
      OBVIOUS
    <3> HIDE DEF is
    <3> QED
      BY <1>2, <3>1, LeastIndex
  <2>2. (CHOOSE i \in is : \A j \in is : i <= j) \in DOMAIN p.alts
    BY <2>1
  <2>3. PICK k \in DOMAIN p.alts : k = (CHOOSE i \in is : \A j \in is : i <= j)
    BY <2>2
  <2>4. Taken(p, holds) = <<p.alts[k].act>>
    BY <1>2, <2>3 DEF Taken
  <2> QED
    BY <2>4 DEF Optional
<1> QED
  BY <1>1, <1>2

-----------------------------------------------------------------------------
(* What wakes the block of an accepted process: the working edge of the    *)
(* clock, and the assertion of its reset.                                  *)
LEMMA Wakes ==
  ASSUME NEW p \in Sources, Accepts(p),
         NEW old \in Waveforms, NEW new \in Waveforms,
         new.clk = "x" => old.clk = "x",
         new.rst = "x" => old.rst = "x",
         p.helper => old.clk # "x"
  PROVE  VerilogWakes(Rebuilt(p), old, new) <=>
           \/ VhdlEdge(p, old, new)
           \/ HasReset(p) /\ old.rst # new.rst /\ new.rst = Active(p)
<1> DEFINE t == Rebuilt(p)
<1>1. /\ p.edge \in {"rise", "fall"} /\ p.helper \in BOOLEAN
      /\ p.phase \in {"high", "low"}
  BY SourcesAssumption DEF Processes
<1>2. /\ old.clk \in {"0", "1", "x"} /\ new.clk \in {"0", "1", "x"}
      /\ old.rst \in {"0", "1", "x"} /\ new.rst \in {"0", "1", "x"}
  BY DEF Waveforms, Logic
<1>3. t.pos = EdgeList(p, "pos") /\ t.neg = EdgeList(p, "neg")
  BY RebuiltShape
<1>4. HasReset(p) \in BOOLEAN
  BY DEF HasReset
<1> HIDE DEF t
<1>5. /\ "clk" \in t.pos <=> p.edge = "rise"
      /\ "clk" \in t.neg <=> p.edge = "fall"
      /\ "rst" \in t.pos <=> HasReset(p) /\ p.phase = "high"
      /\ "rst" \in t.neg <=> HasReset(p) /\ p.phase = "low"
      /\ t.pos \subseteq {"clk", "rst"} /\ t.neg \subseteq {"clk", "rst"}
  BY <1>1, <1>3, <1>4 DEF EdgeList, ResetEdge, ResetOf
<1>6. VerilogWakes(t, old, new) <=>
        \/ p.edge = "rise" /\ PosEdge(old.clk, new.clk)
        \/ p.edge = "fall" /\ NegEdge(old.clk, new.clk)
        \/ HasReset(p) /\ p.phase = "high" /\ PosEdge(old.rst, new.rst)
        \/ HasReset(p) /\ p.phase = "low" /\ NegEdge(old.rst, new.rst)
  BY <1>5 DEF VerilogWakes
<1>7. /\ p.edge = "rise" => (PosEdge(old.clk, new.clk) <=> VhdlEdge(p, old, new))
      /\ p.edge = "fall" => (NegEdge(old.clk, new.clk) <=> VhdlEdge(p, old, new))
  BY <1>1, <1>2 DEF PosEdge, NegEdge, VhdlEdge
<1>8. /\ p.phase = "high" => (PosEdge(old.rst, new.rst) <=> old.rst # new.rst /\ new.rst = "1")
      /\ p.phase = "low" => (NegEdge(old.rst, new.rst) <=> old.rst # new.rst /\ new.rst = "0")
  BY <1>2 DEF PosEdge, NegEdge
<1> QED
  BY <1>1, <1>6, <1>7, <1>8 DEF Active, t

(* While the reset is asserted the register holds what the first reset     *)
(* branch assigns, whatever it is assigned from.                           *)
Held(p, wave, q) ==
  HasReset(p) /\ wave.rst = Active(p) => \A x \in Data \X Data : p.alts[1].act.val[x] = q

(* With edges and resets alone, every alternative before the last is a     *)
(* reset, and the first is the branch that the pass checks.                *)
LEMMA ResetFirst ==
  ASSUME NEW p \in Sources, Accepts(p), OnlyEdgeOrReset(p)
  PROVE  /\ p.alts[Len(p.alts)].cond = "edge"
         /\ \A i \in Before(p) : p.alts[i].cond = "reset"
         /\ HasReset(p) <=> Before(p) # {}
         /\ HasReset(p) => /\ 1 \in Before(p)
                           /\ p.alts[1].act \in Statements
                           /\ \A x, y \in Data \X Data : p.alts[1].act.val[x] = p.alts[1].act.val[y]
<1> DEFINE n == Len(p.alts)
<1>1. /\ p.alts \in Seq(Alternatives) /\ n \in Nat \ {0} /\ DOMAIN p.alts = 1 .. n
      /\ p.alts[n].cond \in EdgeTests /\ EdgeAlternatives(p) = {n}
      /\ Before(p) = 1 .. n - 1
      /\ \A i \in Before(p) : i \in DOMAIN p.alts /\ p.alts[i].cond \in LevelTests
  BY AcceptedShape DEF Before
<1>2. \A i \in DOMAIN p.alts : p.alts[i].cond \in {"edge", "reset"}
  BY DEF OnlyEdgeOrReset
<1>3. p.alts[n].cond = "edge"
  BY <1>1, <1>2 DEF EdgeTests
<1>4. \A i \in Before(p) : p.alts[i].cond = "reset"
  BY <1>1, <1>2 DEF LevelTests
<1>5. HasReset(p) <=> Before(p) # {}
  <2>1. ASSUME HasReset(p) PROVE Before(p) # {}
    <3>1. PICK i \in DOMAIN p.alts : p.alts[i].cond = "reset"
      BY <2>1 DEF HasReset
    <3>2. i # n
      BY <1>3, <3>1
    <3> QED
      BY <1>1, <3>1, <3>2
  <2>2. ASSUME NEW i \in Before(p) PROVE HasReset(p)
    BY <1>1, <1>4 DEF HasReset
  <2> QED
    BY <2>1, <2>2
<1>6. ASSUME HasReset(p)
      PROVE  /\ 1 \in Before(p)
             /\ p.alts[1].act \in Statements
             /\ \A x, y \in Data \X Data : p.alts[1].act.val[x] = p.alts[1].act.val[y]
  <2>1. 1 \in Before(p) /\ 1 \in DOMAIN p.alts
    BY <1>1, <1>5, <1>6
  <2>2. p.alts[1] \in Alternatives
    BY <1>1, <2>1
  <2>3. p.alts[1].act \in Statements
    BY <2>2 DEF Alternatives
  <2>4. p.alts[1].act \in ResetBranch(p)
    <3> DEFINE others == DOMAIN p.alts \ EdgeAlternatives(p)
    <3>1. 1 \in others
      BY <1>1, <2>1
    <3>2. \A j \in others : 1 <= j
      BY <1>1
    <3> QED
      BY <3>1, <3>2 DEF ResetBranch
  <2>5. p.alts[1].act.form = "assign" /\ ~p.alts[1].act.reads
    BY <1>6, <2>4 DEF Accepts, IdempotentReset
  <2> QED
    BY <2>1, <2>3, <2>5, StatementsAssumption
<1> QED
  BY <1>3, <1>4, <1>5, <1>6

(* One step of the source and of its block. *)
LEMMA SameStep ==
  ASSUME NEW p \in Sources, Accepts(p), OnlyEdgeOrReset(p),
         NEW old \in Waveforms, NEW new \in Waveforms, NEW q \in Data,
         new.clk = "x" => old.clk = "x",
         new.rst = "x" => old.rst = "x",
         p.helper => old.clk # "x",
         Held(p, old, q)
  PROVE  /\ VerilogRun(Rebuilt(p), old, new, q) = VhdlRun(p, old, new, q)
         /\ Held(p, new, VhdlRun(p, old, new, q))
<1> DEFINE t == Rebuilt(p)
           n == Len(p.alts)
           asserted == HasReset(p) /\ new.rst = Active(p)
           edge == VhdlEdge(p, old, new)
           settled == p.alts[1].act.val[<<q, new.d>>]
           clocked == p.alts[n].act.val[<<q, new.d>>]
           inSource == Conditions(p, new, edge)
           inTarget == Conditions(t, new, FALSE)
<1>1. /\ n \in Nat \ {0} /\ DOMAIN p.alts = 1 .. n /\ Before(p) = 1 .. n - 1
      /\ p.outside = <<>> /\ p.other = <<>>
      /\ p.sens = {"clk"} \cup ResetOf(p)
  BY AcceptedShape DEF Before
<1>2. /\ p.alts[n].cond = "edge"
      /\ \A i \in Before(p) : p.alts[i].cond = "reset"
      /\ HasReset(p) <=> Before(p) # {}
      /\ HasReset(p) => /\ 1 \in Before(p)
                        /\ \A x, y \in Data \X Data : p.alts[1].act.val[x] = p.alts[1].act.val[y]
  BY ResetFirst
<1>3. /\ t.phase = p.phase /\ DOMAIN t.alts = Before(p)
      /\ \A i \in Before(p) : t.alts[i] = p.alts[i]
      /\ t.outside = IF Before(p) = {} THEN <<p.alts[n].act>> ELSE <<>>
      /\ t.other = IF Before(p) = {} THEN <<>> ELSE <<p.alts[n].act>>
  BY RebuiltShape
<1>4. /\ "reset" \in inSource <=> new.rst = Active(p)
      /\ "edge" \in inSource <=> edge
      /\ "reset" \in inTarget <=> new.rst = Active(p)
  BY <1>3 DEF Conditions, Active
<1>5. new.d \in Data /\ old.d \in Data
  BY DEF Waveforms
<1>6. VerilogWakes(t, old, new) <=> edge \/ (HasReset(p) /\ old.rst # new.rst /\ new.rst = Active(p))
  BY Wakes
<1>7. edge => old.clk # new.clk
  BY DEF VhdlEdge
<1> HIDE DEF t, n, settled, clocked, edge, inSource, inTarget
<1>8. VhdlRun(p, old, new, q)
        = IF \E s \in p.sens : old[s] # new[s]
          THEN IF asserted THEN settled ELSE IF edge THEN clocked ELSE q
          ELSE q
  <2>1. CASE asserted
    <3>1. 1 \in Before(p) /\ p.alts[1].cond \in inSource
      BY <1>2, <1>4, <2>1
    <3>2. Taken(p, inSource) = <<p.alts[1].act>>
      BY <1>1, <3>1, TakenFirst
    <3>3. RunBody(p, inSource, q, new.d) = settled
      BY <1>1, <3>2 DEF RunBody, Effect, settled
    <3> QED
      BY <2>1, <3>3 DEF VhdlRun, inSource, edge
  <2>2. CASE ~asserted /\ edge
    <3>1. ASSUME NEW i \in DOMAIN p.alts PROVE p.alts[i].cond \in inSource <=> i = n
      <4>1. CASE i = n
        BY <1>2, <1>4, <2>2, <4>1
      <4>2. CASE i # n
        <5>1. i \in Before(p)
          BY <1>1, <4>2
        <5>2. p.alts[i].cond = "reset" /\ HasReset(p)
          BY <1>2, <5>1
        <5> QED
          BY <1>4, <2>2, <4>2, <5>2
      <4> QED
        BY <4>1, <4>2
    <3>2. Taken(p, inSource) = <<p.alts[n].act>>
      <4>1. n \in Nat /\ n \in DOMAIN p.alts
        BY <1>1
      <4> QED
        BY <3>1, <4>1, TakenLast
    <3>3. RunBody(p, inSource, q, new.d) = clocked
      BY <1>1, <3>2 DEF RunBody, Effect, clocked
    <3> QED
      BY <2>2, <3>3 DEF VhdlRun, inSource, edge
  <2>3. CASE ~asserted /\ ~edge
    <3>1. ASSUME NEW i \in DOMAIN p.alts PROVE p.alts[i].cond \notin inSource
      <4>1. CASE i = n
        BY <1>2, <1>4, <2>3, <4>1
      <4>2. CASE i # n
        <5>1. i \in Before(p)
          BY <1>1, <4>2
        <5>2. p.alts[i].cond = "reset" /\ HasReset(p)
          BY <1>2, <5>1
        <5> QED
          BY <1>4, <2>3, <5>2
      <4> QED
        BY <4>1, <4>2
    <3>2. Taken(p, inSource) = <<>>
      BY <1>1, <3>1, TakenNone
    <3>3. RunBody(p, inSource, q, new.d) = q
      BY <1>1, <3>2 DEF RunBody, Effect
    <3> QED
      BY <2>3, <3>3 DEF VhdlRun, inSource, edge
  <2> QED
    BY <2>1, <2>2, <2>3
<1>9. VerilogRun(t, old, new, q)
        = IF VerilogWakes(t, old, new) THEN IF asserted THEN settled ELSE clocked ELSE q
  <2>1. CASE asserted
    <3>1. 1 \in Before(p) /\ t.alts[1] = p.alts[1] /\ t.alts[1].cond \in inTarget
      BY <1>2, <1>3, <1>4, <2>1
    <3>2. DOMAIN t.alts = 1 .. n - 1 /\ n - 1 \in Nat /\ n - 1 # 0
      BY <1>1, <1>3, <3>1
    <3>3. Taken(t, inTarget) = <<p.alts[1].act>>
      BY <3>1, <3>2, TakenFirst
    <3>4. RunBody(t, inTarget, q, new.d) = settled
      BY <3>3 DEF RunBody, Effect, settled
    <3> QED
      BY <2>1, <3>4 DEF VerilogRun, inTarget
  <2>2. CASE ~asserted
    <3>1. ASSUME NEW i \in DOMAIN t.alts PROVE t.alts[i].cond \notin inTarget
      BY <1>2, <1>3, <1>4, <2>2
    <3>2. Taken(t, inTarget) = t.other
      BY <3>1, TakenNone
    <3>3. RunBody(t, inTarget, q, new.d) = clocked
      <4>1. CASE Before(p) = {}
        BY <1>3, <3>2, <4>1 DEF RunBody, Effect, clocked
      <4>2. CASE Before(p) # {}
        BY <1>3, <3>2, <4>2 DEF RunBody, Effect, clocked
      <4> QED
        BY <4>1, <4>2
    <3> QED
      BY <2>2, <3>3 DEF VerilogRun, inTarget
  <2> QED
    BY <2>1, <2>2
<1>10. (\E s \in p.sens : old[s] # new[s])
         <=> old.clk # new.clk \/ (HasReset(p) /\ old.rst # new.rst)
  BY <1>1 DEF ResetOf
<1>11. HasReset(p) /\ old.rst = Active(p) => settled = q
  BY <1>5 DEF Held, settled
<1>12. VerilogRun(t, old, new, q) = VhdlRun(p, old, new, q)
  BY <1>6, <1>7, <1>8, <1>9, <1>10, <1>11
<1>13. asserted => VhdlRun(p, old, new, q) = settled
  BY <1>8, <1>10, <1>11
<1>14. Held(p, new, VhdlRun(p, old, new, q))
  <2>1. <<q, new.d>> \in Data \X Data
    BY <1>5
  <2> QED
    BY <1>2, <1>13, <2>1 DEF Held, settled
<1> QED
  BY <1>12, <1>14 DEF t

-----------------------------------------------------------------------------
(* The inductive invariant: what the pass decided, and the register held   *)
(* while the reset is asserted, without which a clock edge of the other    *)
(* direction would tell the two processes apart.                           *)
IInv ==
  /\ pc \in {"visit", "skipped", "refused", "run"}
  /\ source \in Sources
  /\ sig \in Waveforms
  /\ qSource \in Data
  /\ qTarget \in Data
  /\ pc # "run" => target = source
  /\ pc = "run" => Accepts(source) /\ target = Rebuilt(source)

NoGlitchInv ==
  /\ pc = "visit" => sig.rst = "x" /\ qTarget = qSource
  /\ source.helper => sig.clk # "x"
  /\ pc = "run" /\ OnlyEdgeOrReset(source) => qTarget = qSource /\ Held(source, sig, qSource)

LEMMA RunType ==
  ASSUME NEW p, NEW holds, NEW q \in Data, NEW d \in Data,
         p.outside \in Optional(Statements),
         Taken(p, holds) \in Optional(Statements)
  PROVE  RunBody(p, holds, q, d) \in Data
<1>1. \A st \in Optional(Statements), keep \in Data : Effect(st, q, d, keep) \in Data
  BY StatementsAssumption DEF Effect, Optional
<1>2. QED
  BY <1>1 DEF RunBody

(* The branches of an accepted process and of its block are statements. *)
LEMMA BodyTypes ==
  ASSUME NEW p \in Sources, Accepts(p), NEW holds
  PROVE  /\ p.outside \in Optional(Statements)
         /\ Taken(p, holds) \in Optional(Statements)
         /\ Rebuilt(p) \in Blocks
         /\ Taken(Rebuilt(p), holds) \in Optional(Statements)
<1> DEFINE t == Rebuilt(p)
           n == Len(p.alts)
<1>1. /\ p.alts \in Seq(Alternatives) /\ n \in Nat \ {0} /\ DOMAIN p.alts = 1 .. n
      /\ p.outside = <<>> /\ p.other = <<>> /\ Before(p) = 1 .. n - 1
  BY AcceptedShape DEF Before
<1>2. /\ t.pos = EdgeList(p, "pos") /\ t.neg = EdgeList(p, "neg") /\ t.phase = p.phase
      /\ t.alts \in Seq([cond : LevelTests, act : Statements])
      /\ DOMAIN t.alts = Before(p)
      /\ \A i \in Before(p) : t.alts[i] = p.alts[i]
      /\ t.outside = IF Before(p) = {} THEN <<p.alts[n].act>> ELSE <<>>
      /\ t.other = IF Before(p) = {} THEN <<>> ELSE <<p.alts[n].act>>
  BY RebuiltShape
<1>3. t = [pos |-> t.pos, neg |-> t.neg, phase |-> t.phase, outside |-> t.outside,
           alts |-> t.alts, other |-> t.other]
  BY DEF Rebuilt
<1>4. t.pos \in SUBSET {"clk", "rst"} /\ t.neg \in SUBSET {"clk", "rst"}
  BY DEF Rebuilt, EdgeList, ResetOf
<1>5. p.phase \in {"high", "low"}
  BY SourcesAssumption DEF Processes
<1> HIDE DEF t, n
<1>6. <<>> \in Optional(Statements) /\ \A s \in Statements : <<s>> \in Optional(Statements)
  BY DEF Optional
<1>7. ASSUME NEW i \in DOMAIN p.alts PROVE p.alts[i].act \in Statements
  <2>1. p.alts[i] \in Alternatives
    BY <1>1
  <2> QED
    BY <2>1 DEF Alternatives
<1>8. n \in DOMAIN p.alts
  BY <1>1
<1>9. t.outside \in Optional(Statements) /\ t.other \in Optional(Statements)
  BY <1>2, <1>6, <1>7, <1>8
<1>10. t \in Blocks
  BY <1>2, <1>3, <1>4, <1>5, <1>9 DEF Blocks
<1>11. Taken(p, holds) \in Optional(Statements)
  BY <1>1, <1>6, <1>7, TakenTypes
<1>12. Taken(t, holds) \in Optional(Statements)
  <2>1. n - 1 \in Nat /\ DOMAIN t.alts = 1 .. n - 1
    BY <1>1, <1>2
  <2>2. \A i \in DOMAIN t.alts : t.alts[i].act \in Statements
    <3>1. ASSUME NEW i \in Before(p) PROVE t.alts[i].act \in Statements
      <4>1. i \in DOMAIN p.alts /\ t.alts[i] = p.alts[i]
        BY <1>1, <1>2
      <4> QED
        BY <1>7, <4>1
    <3> QED
      BY <1>2, <3>1
  <2> QED
    BY <1>9, <2>1, <2>2, TakenTypes
<1> QED
  BY <1>1, <1>6, <1>10, <1>11, <1>12 DEF t

-----------------------------------------------------------------------------
LEMMA IInvInit == Init => IInv
BY DEF Init, IInv, Waveforms

LEMMA IInvStep == IInv /\ [Next]_vars => IInv'
<1> SUFFICES ASSUME IInv, [Next]_vars
             PROVE  IInv'
  OBVIOUS
<1>1. CASE Skip
  BY <1>1 DEF Skip, IInv
<1>2. CASE Refuse
  BY <1>2 DEF Refuse, IInv
<1>3. CASE Rebuild
  BY <1>3 DEF Rebuild, IInv
<1>4. CASE Step
  <2>1. /\ source \in Sources /\ Accepts(source) /\ target = Rebuilt(source)
        /\ qSource \in Data /\ qTarget \in Data
        /\ sig' \in Waveforms /\ sig'.d \in Data
    BY <1>4 DEF Step, IInv, Waveforms
  <2>2. VhdlRun(source, sig, sig', qSource) \in Data
    <3> DEFINE holds == Conditions(source, sig', VhdlEdge(source, sig, sig'))
    <3> HIDE DEF holds
    <3>1. RunBody(source, holds, qSource, sig'.d) \in Data
      BY <2>1, BodyTypes, RunType
    <3>2. QED
      BY <2>1, <3>1 DEF VhdlRun, holds
  <2>3. VerilogRun(target, sig, sig', qTarget) \in Data
    <3> DEFINE holds == Conditions(target, sig', FALSE)
    <3> HIDE DEF holds
    <3>1. target.outside \in Optional(Statements)
      BY <2>1, BodyTypes DEF Blocks
    <3>2. Taken(target, holds) \in Optional(Statements)
      BY <2>1, BodyTypes
    <3>3. RunBody(target, holds, qTarget, sig'.d) \in Data
      BY <2>1, <3>1, <3>2, RunType
    <3>4. QED
      BY <2>1, <3>3 DEF VerilogRun, holds
  <2>4. QED
    BY <1>4, <2>1, <2>2, <2>3 DEF Step, IInv
<1>5. CASE UNCHANGED vars
  BY <1>5 DEF vars, IInv
<1>6. QED
  BY <1>1, <1>2, <1>3, <1>4, <1>5 DEF Next

(* Every process the pass accepts becomes a block without an edge test,    *)
(* whatever it is made of, and both registers keep holding data.           *)
THEOREM TypeCorrect == Spec => []TypeOK
<1>1. IInv => TypeOK
  BY BodyTypes DEF IInv, TypeOK
<1>2. QED
  BY <1>1, IInvInit, IInvStep, PTL DEF Spec

-----------------------------------------------------------------------------
(* The initial unknown reset is not asserted, so nothing is held yet. *)
LEMMA NoGlitchInit == Init => NoGlitchInv
BY SourcesAssumption DEF Init, NoGlitchInv

LEMMA NoGlitchStep ==
  ASSUME Glitches = {}, IInv, NoGlitchInv, [Next]_vars
  PROVE  NoGlitchInv'
<1>1. CASE Skip
  BY <1>1 DEF Skip, NoGlitchInv
<1>2. CASE Refuse
  BY <1>2 DEF Refuse, NoGlitchInv
<1>3. CASE Rebuild
  <2>1. sig.rst = "x" /\ qTarget = qSource
    BY <1>3 DEF Rebuild, NoGlitchInv
  <2>2. Held(source, sig, qSource)
    BY <2>1 DEF Held, Active
  <2>3. QED
    BY <1>3, <2>1, <2>2 DEF Rebuild, NoGlitchInv
<1>4. CASE Step
  <2>1. /\ source \in Sources /\ Accepts(source) /\ target = Rebuilt(source)
        /\ qSource \in Data
        /\ sig \in Waveforms /\ sig' \in Waveforms
        /\ source.helper => sig.clk # "x"
        /\ sig'.clk = "x" => sig.clk = "x"
        /\ sig'.rst = "x" => sig.rst = "x"
    BY <1>4 DEF Step, IInv, NoGlitchInv
  <2>2. ASSUME OnlyEdgeOrReset(source)
        PROVE  qTarget' = qSource' /\ Held(source, sig', qSource')
    <3>1. qTarget = qSource /\ Held(source, sig, qSource)
      BY <1>4, <2>2 DEF Step, NoGlitchInv
    <3>2. /\ VerilogRun(target, sig, sig', qSource) = VhdlRun(source, sig, sig', qSource)
          /\ Held(source, sig', VhdlRun(source, sig, sig', qSource))
      BY <2>1, <2>2, <3>1, SameStep
    <3> QED
      BY <1>4, <3>1, <3>2 DEF Step
  <2>3. source' = source
    BY <1>4 DEF Step
  <2>4. source'.helper => sig'.clk # "x"
    BY <2>1, <2>3
  <2>5. pc' = "run"
    BY <1>4 DEF Step
  <2>6. /\ OnlyEdgeOrReset(source)' <=> OnlyEdgeOrReset(source)
        /\ Held(source, sig, qSource)' <=> Held(source, sig', qSource')
    BY <2>3 DEF OnlyEdgeOrReset, Held, HasReset, Active
  <2> QED
    BY <2>2, <2>4, <2>5, <2>6 DEF NoGlitchInv
<1>5. CASE UNCHANGED vars
  BY <1>5 DEF vars, NoGlitchInv
<1>6. QED
  BY <1>1, <1>2, <1>3, <1>4, <1>5 DEF Next

(* When a clock or a reset that was driven stays driven, a rebuilt process *)
(* whose conditions are edges and resets drives exactly what the VHDL      *)
(* process drives, for every statement its branches may hold, every data   *)
(* type and any number of resets.                                          *)
THEOREM TranslationCorrect ==
  ASSUME Glitches = {}
  PROVE  Spec => []SameRegister
<1>1. IInv /\ NoGlitchInv => SameRegister
  BY DEF NoGlitchInv, SameRegister
<1>2. Init => IInv /\ NoGlitchInv
  BY IInvInit, NoGlitchInit
<1>3. IInv /\ NoGlitchInv /\ [Next]_vars => (IInv /\ NoGlitchInv)'
  BY IInvStep, NoGlitchStep
<1>4. QED
  BY <1>1, <1>2, <1>3, PTL DEF Spec

(* Nothing but the working edge of the clock runs the clocked branch of a  *)
(* rebuilt process: neither the release of a reset nor a change of data    *)
(* wakes it, and a reset that does is asserted, and so has a branch.       *)
THEOREM ClockedBranchOnEdge ==
  ASSUME Glitches = {}
  PROVE  Spec => ClockedBranchNeedsEdge
<1>1. ASSUME IInv, NoGlitchInv, [Next]_vars
      PROVE  [pc = "run" /\ VerilogWakes(target, sig, sig')
                => \/ VhdlEdge(source, sig, sig')
                   \/ HasReset(source) /\ sig'.rst = Active(source)]_vars
  <2>1. CASE Step
    <3>1. /\ source \in Sources /\ Accepts(source) /\ target = Rebuilt(source)
          /\ sig \in Waveforms /\ sig' \in Waveforms
          /\ source.helper => sig.clk # "x"
          /\ sig'.clk = "x" => sig.clk = "x"
          /\ sig'.rst = "x" => sig.rst = "x"
      BY <1>1, <2>1 DEF Step, IInv, NoGlitchInv
    <3> QED
      BY <3>1, Wakes
  <2>2. CASE pc # "run"
    BY <2>2
  <2>3. CASE UNCHANGED vars
    BY <2>3
  <2>4. pc = "run" => Step \/ UNCHANGED vars
    BY <1>1 DEF Next, Skip, Refuse, Rebuild
  <2> QED
    BY <2>1, <2>2, <2>3, <2>4
<1>2. Init => IInv /\ NoGlitchInv
  BY IInvInit, NoGlitchInit
<1>3. IInv /\ NoGlitchInv /\ [Next]_vars => (IInv /\ NoGlitchInv)'
  BY IInvStep, NoGlitchStep
<1> QED
  BY <1>1, <1>2, <1>3, PTL DEF Spec, ClockedBranchNeedsEdge
=============================================================================
