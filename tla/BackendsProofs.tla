----------------------------- MODULE BackendsProofs -----------------------------
(***************************************************************************)
(* For every set of data, of signals and of subprograms: a rebuilt process *)
(* drives what its source drives, the thread of a wait resumes when the    *)
(* wait does, every call finds its subprogram, in an entity every reader   *)
(* of an object sees what drove it, the target of a call gets what VHDL    *)
(* gives it, and a jump lands where it was meant to.                       *)
(***************************************************************************)
EXTENDS Backends, SequenceTheorems, WellFoundedInduction, TLAPS

(* Once the literals that open a settled branch hold, and for as long as   *)
(* they do, the register is what the branch leaves.                        *)
Keeps(b, q) == b # Nothing => \A x \in Data \X Data : b[1].to[x] = q
Held(p, w, q) ==
  /\ Kind(p) = "nested" /\ AnyHolds(p.body.alts[1].when, w, w) => Keeps(p.body.alts[1].act, q)
  /\ Kind(p) = "asynchronous" /\ AnyHolds(BuildCondition(p, Edges(p)), w, w)
       => Keeps(p.body.other, q)

(* An input that was driven stays driven. *)
Driven(old, new) == \A n \in Controls : new[n] = "x" => old[n] = "x"

-----------------------------------------------------------------------------
LEMMA SourceShape ==
  ASSUME NEW p \in Sources
  PROVE  /\ p.pos \subseteq Controls /\ p.neg \subseteq Controls /\ p.pos \cap p.neg = {}
         /\ p.body.other \in Branch
         /\ \/ p.body.alts = <<>>
            \/ \E v \in {Low, High}, b \in Branch :
                 p.body.alts = <<[when |-> {Literal("rst", v, FALSE)}, act |-> b]>>
BY SourcesAssumption DEF PlainBodies, Bodies

LEMMA DoesType ==
  ASSUME NEW b \in Branch, NEW q \in Data, NEW d \in Data
  PROVE  Does(b, q, d) \in Data
<1>1. CASE b = Nothing
  BY <1>1 DEF Does
<1>2. CASE b # Nothing
  <2>1. PICK a \in Actions : b = <<a>>
    BY <1>2 DEF Branch
  <2>2. a.to \in [Data \X Data -> Data] /\ <<q, d>> \in Data \X Data
    BY ActionsAssumption
  <2>3. QED
    BY <1>2, <2>1, <2>2 DEF Does
<1>3. QED
  BY <1>1, <1>2

(* A settled branch leaves one value, whatever it runs on. *)
LEMMA SettledKeeps ==
  ASSUME NEW b \in Branch, SettledBranch(b), NEW q \in Data, NEW d \in Data, NEW r \in Data
  PROVE  /\ Keeps(b, Does(b, q, d))
         /\ Keeps(b, r) => Does(b, r, d) = r
<1>1. CASE b = Nothing
  BY <1>1 DEF Keeps, Does
<1>2. CASE b # Nothing
  <2>1. PICK a \in Actions : b = <<a>>
    BY <1>2 DEF Branch
  <2>2. \A x, y \in Data \X Data : a.to[x] = a.to[y]
    BY <1>2, <2>1, ActionsAssumption DEF SettledBranch
  <2>3. <<q, d>> \in Data \X Data /\ <<r, d>> \in Data \X Data
    OBVIOUS
  <2>4. QED
    BY <1>2, <2>1, <2>2, <2>3 DEF Keeps, Does
<1>3. QED
  BY <1>1, <1>2

-----------------------------------------------------------------------------
(* Which branch of a body runs, shape by shape. *)
LEMMA ChosenPlain ==
  ASSUME NEW b, b.alts = <<>>, NEW old, NEW new
  PROVE  Chosen(b, old, new) = b.other
BY DEF Chosen

LEMMA ChosenOne ==
  ASSUME NEW b, NEW a, b.alts = <<a>>, NEW old, NEW new
  PROVE  Chosen(b, old, new) = IF AnyHolds(a.when, old, new) THEN a.act ELSE b.other
<1> DEFINE open == {i \in DOMAIN b.alts : AnyHolds(b.alts[i].when, old, new)}
<1>1. DOMAIN b.alts = {1} /\ b.alts[1] = a
  OBVIOUS
<1>2. CASE AnyHolds(a.when, old, new)
  <2>1. open = {1}
    BY <1>1, <1>2
  <2>2. (CHOOSE i \in open : \A j \in open : i <= j) = 1
    BY <2>1
  <2>3. QED
    BY <1>1, <1>2, <2>1, <2>2 DEF Chosen
<1>3. CASE ~AnyHolds(a.when, old, new)
  <2>1. open = {}
    BY <1>1, <1>3
  <2>2. QED
    BY <1>3, <2>1 DEF Chosen
<1>4. QED
  BY <1>2, <1>3

LEMMA ChosenTwo ==
  ASSUME NEW b, NEW a, NEW c, b.alts = <<a, c>>, NEW old, NEW new
  PROVE  Chosen(b, old, new) = IF AnyHolds(a.when, old, new) THEN a.act
                               ELSE IF AnyHolds(c.when, old, new) THEN c.act ELSE b.other
<1> DEFINE open == {i \in DOMAIN b.alts : AnyHolds(b.alts[i].when, old, new)}
<1>1. DOMAIN b.alts = {1, 2} /\ b.alts[1] = a /\ b.alts[2] = c
  OBVIOUS
<1>2. CASE AnyHolds(a.when, old, new)
  <2>1. 1 \in open /\ open \subseteq {1, 2}
    BY <1>1, <1>2
  <2>2. (CHOOSE i \in open : \A j \in open : i <= j) = 1
    BY <2>1
  <2>3. QED
    BY <1>1, <1>2, <2>1, <2>2 DEF Chosen
<1>3. CASE ~AnyHolds(a.when, old, new) /\ AnyHolds(c.when, old, new)
  <2>1. open = {2}
    BY <1>1, <1>3
  <2>2. (CHOOSE i \in open : \A j \in open : i <= j) = 2
    BY <2>1
  <2>3. QED
    BY <1>1, <1>3, <2>1, <2>2 DEF Chosen
<1>4. CASE ~AnyHolds(a.when, old, new) /\ ~AnyHolds(c.when, old, new)
  <2>1. open = {}
    BY <1>1, <1>4
  <2>2. QED
    BY <1>4, <2>1 DEF Chosen
<1>5. QED
  BY <1>2, <1>3, <1>4

(* A body never leaves its branches. *)
LEMMA ChosenType ==
  ASSUME NEW b, NEW old, NEW new, b.other \in Branch,
         \A i \in DOMAIN b.alts : b.alts[i].act \in Branch,
         \/ b.alts = <<>>
         \/ \E a : b.alts = <<a>>
         \/ \E a, c : b.alts = <<a, c>>
  PROVE  Chosen(b, old, new) \in Branch
<1>1. CASE b.alts = <<>>
  BY <1>1, ChosenPlain
<1>2. CASE \E a : b.alts = <<a>>
  <2>1. PICK a : b.alts = <<a>>
    BY <1>2
  <2>2. a.act \in Branch
    BY <2>1
  <2>3. QED
    BY <2>1, <2>2, ChosenOne
<1>3. CASE \E a, c : b.alts = <<a, c>>
  <2>1. PICK a, c : b.alts = <<a, c>>
    BY <1>3
  <2>2. a.act \in Branch /\ c.act \in Branch
    <3>1. 1 \in DOMAIN b.alts /\ 2 \in DOMAIN b.alts /\ b.alts[1] = a /\ b.alts[2] = c
      BY <2>1
    <3>2. QED
      BY <3>1
  <2>3. QED
    BY <2>1, <2>2, ChosenTwo
<1>4. QED
  BY <1>1, <1>2, <1>3

-----------------------------------------------------------------------------
(* The conditions the pass builds, and when a literal's holds. *)
Value(p, n) == IF n \in p.pos THEN High ELSE Low
LEMMA ConditionHolds ==
  ASSUME NEW p, NEW ns, NEW old, NEW new
  PROVE  AnyHolds(BuildCondition(p, ns), old, new)
           <=> \E n \in ns : new[n] = Value(p, n) /\ (n \in Clocks(p) => old[n] # new[n])
<1> DEFINE lit(n) == Literal(n, Value(p, n), n \in Clocks(p))
<1>1. BuildCondition(p, ns) = {lit(n) : n \in ns}
  BY DEF BuildCondition, Value
<1>2. \A n : LiteralHolds(lit(n), old, new)
             <=> new[n] = Value(p, n) /\ (n \in Clocks(p) => old[n] # new[n])
  BY DEF LiteralHolds, Literal
<1> HIDE DEF lit
<1>3. QED
  BY <1>1, <1>2 DEF AnyHolds

LEMMA PlainLiteral ==
  ASSUME NEW n, NEW v, NEW old, NEW new
  PROVE  AnyHolds({Literal(n, v, FALSE)}, old, new) <=> new[n] = v
<1>1. LiteralHolds(Literal(n, v, FALSE), old, new) <=> new[n] = v
  BY DEF LiteralHolds, Literal
<1>2. QED
  BY <1>1 DEF AnyHolds

(* One change of the inputs, for each way the pass rebuilds a process. *)
LEMMA StepWrapped ==
  ASSUME NEW p \in Sources, Kind(p) = "wrapped",
         NEW old \in Inputs, NEW new \in Inputs, NEW q, Driven(old, new)
  PROVE  TestRun(Rebuilt(p), old, new, q) = ListRun(p, old, new, q)
<1> DEFINE t == Rebuilt(p)
<1>1. Edges(p) # {} /\ Edges(p) # Controls /\ Edges(p) \subseteq Controls
  <2>1. Edges(p) # {} /\ Edges(p) # Controls
    BY DEF Kind
  <2>2. QED
    BY <2>1, SourceShape DEF Edges
<1>2. PICK c \in Controls : Edges(p) = {c}
  BY <1>1 DEF Controls
<1>3. old[c] \in Level /\ new[c] \in Level
  BY <1>2 DEF Inputs, Controls
<1> DEFINE v == Value(p, c)
<1>4. /\ t.sens = {c} /\ t.guard = {BuildCondition(p, {c})}
      /\ t.alts = p.body.alts /\ t.other = p.body.other
  BY <1>2 DEF Rebuilt, Wrapped
<1>5. ListWakes(p, old, new) <=> new[c] = v /\ old[c] # new[c]
  <2>1. p.pos \cup p.neg = {c} /\ p.pos \cap p.neg = {}
    BY <1>2, SourceShape DEF Edges
  <2>2. CASE c \in p.pos
    <3>1. p.pos = {c} /\ p.neg = {}
      BY <2>1, <2>2
    <3>2. QED
      BY <1>3, <3>1, <2>2 DEF ListWakes, Rises, Level, Driven, High, Low, Value
  <2>3. CASE c \notin p.pos
    <3>1. p.neg = {c} /\ p.pos = {}
      BY <2>1, <2>3
    <3>2. QED
      BY <1>3, <3>1, <2>3 DEF ListWakes, Falls, Level, Driven, High, Low, Value
  <2>4. QED
    BY <2>2, <2>3
<1>6. AnyHolds(BuildCondition(p, {c}), old, new) <=> new[c] = v /\ old[c] # new[c]
  <2>1. c \in Clocks(p)
    BY <1>2 DEF Clocks
  <2>2. QED
    BY <2>1, ConditionHolds
<1>7. Chosen(t, old, new) = Chosen(p.body, old, new)
  BY <1>4 DEF Chosen
<1> HIDE DEF t, v
<1>8. QED
  BY <1>4, <1>5, <1>6, <1>7 DEF TestRun, ListRun, t

LEMMA StepNested ==
  ASSUME NEW p \in Sources, Kind(p) = "nested", Settles(p),
         NEW old \in Inputs, NEW new \in Inputs, NEW q \in Data, Driven(old, new),
         Held(p, old, q)
  PROVE  /\ TestRun(Rebuilt(p), old, new, q) = ListRun(p, old, new, q)
         /\ Held(p, new, ListRun(p, old, new, q))
<1> DEFINE t == Rebuilt(p)
           reset == p.body.alts[1]
           clocked == [when |-> BuildCondition(p, {"clk"}), act |-> p.body.other]
           v == Value(p, "rst")
           u == Value(p, "clk")
           edge == new.clk = u /\ old.clk # new.clk
           active(w) == w.rst = v
<1>1. Edges(p) = Controls /\ TestsResetEdge(p)
  BY DEF Kind
<1>2. /\ p.body.alts = <<reset>> /\ reset.act \in Branch /\ p.body.other \in Branch
      /\ reset.when = {Literal("rst", v, FALSE)}
  <2>1. p.body.alts # <<>> /\ p.body.other \in Branch
    BY <1>1, SourceShape DEF TestsResetEdge
  <2>2. PICK w \in {Low, High}, b \in Branch :
          p.body.alts = <<[when |-> {Literal("rst", w, FALSE)}, act |-> b]>>
    BY <2>1, SourceShape
  <2> DEFINE alt == [when |-> {Literal("rst", w, FALSE)}, act |-> b]
  <2>3. alt.act \in Branch
    OBVIOUS
  <2> HIDE DEF alt
  <2>4. p.body.alts = <<alt>> /\ reset = alt
    BY <2>2 DEF alt
  <2>5. reset.when = {Literal("rst", v, FALSE)}
    BY <1>1 DEF TestsResetEdge, Value
  <2>6. QED
    BY <2>1, <2>3, <2>4, <2>5
<1>3. /\ t.sens = Controls /\ t.guard = {}
      /\ t.alts = <<reset, clocked>> /\ t.other = Nothing
  BY <1>1 DEF Rebuilt, Nested
<1>4. AnyHolds(clocked.when, old, new) <=> edge
  <2>1. "clk" \in Clocks(p)
    BY DEF Clocks
  <2>2. QED
    BY <2>1, ConditionHolds
<1>5. /\ old.clk \in Level /\ new.clk \in Level /\ old.rst \in Level /\ new.rst \in Level
      /\ new.d \in Data
  BY DEF Inputs
<1>6. /\ AnyHolds(reset.when, old, new) <=> active(new)
      /\ AnyHolds(reset.when, new, new) <=> active(new)
      /\ AnyHolds(reset.when, old, old) <=> active(old)
      /\ AnyHolds(clocked.when, old, new) <=> edge
  <2>1. \A a, b : AnyHolds({Literal("rst", v, FALSE)}, a, b) <=> b.rst = v
    BY PlainLiteral
  <2>2. QED
    BY <1>2, <1>4, <2>1
<1>7. ListWakes(p, old, new) <=> edge \/ (active(new) /\ old.rst # new.rst)
  <2>1. /\ p.pos \subseteq {"clk", "rst"} /\ p.neg \subseteq {"clk", "rst"}
        /\ "clk" \in p.pos <=> "clk" \notin p.neg
        /\ "rst" \in p.pos <=> "rst" \notin p.neg
    BY <1>1, SourceShape DEF Edges, Controls
  <2>2. ListWakes(p, old, new) <=>
          \/ "clk" \in p.pos /\ Rises(old.clk, new.clk)
          \/ "clk" \in p.neg /\ Falls(old.clk, new.clk)
          \/ "rst" \in p.pos /\ Rises(old.rst, new.rst)
          \/ "rst" \in p.neg /\ Falls(old.rst, new.rst)
    BY <2>1 DEF ListWakes
  <2>3. /\ new.clk = "x" => old.clk = "x"
        /\ new.rst = "x" => old.rst = "x"
    BY DEF Driven, Controls
  <2>4. edge <=> \/ "clk" \in p.pos /\ Rises(old.clk, new.clk)
                 \/ "clk" \in p.neg /\ Falls(old.clk, new.clk)
    BY <1>5, <2>1, <2>3 DEF Level, Rises, Falls, High, Low, Value
  <2>5. active(new) /\ old.rst # new.rst
          <=> \/ "rst" \in p.pos /\ Rises(old.rst, new.rst)
              \/ "rst" \in p.neg /\ Falls(old.rst, new.rst)
    BY <1>5, <2>1, <2>3 DEF Level, Rises, Falls, High, Low, Value
  <2>6. QED
    BY <2>2, <2>4, <2>5
<1> HIDE DEF t, clocked, u, v, reset
<1> DEFINE afterReset == Does(reset.act, q, new.d)
           afterClock == Does(p.body.other, q, new.d)
<1>8. ListRun(p, old, new, q)
        = IF ListWakes(p, old, new)
          THEN IF active(new) THEN afterReset ELSE afterClock
          ELSE q
  <2>1. p.body.alts = <<reset>>
    BY <1>2
  <2>2. Chosen(p.body, old, new) = IF AnyHolds(reset.when, old, new) THEN reset.act ELSE p.body.other
    <3> DEFINE body == p.body
    <3> HIDE DEF body
    <3>1. body.alts = <<reset>>
      BY <2>1 DEF body
    <3>2. Chosen(body, old, new) = IF AnyHolds(reset.when, old, new) THEN reset.act ELSE body.other
      BY <3>1, ChosenOne
    <3>3. QED
      BY <3>2 DEF body
  <2>3. QED
    BY <1>6, <2>2 DEF ListRun
<1>9. TestRun(t, old, new, q)
        = IF old.clk # new.clk \/ old.rst # new.rst
          THEN IF active(new) THEN afterReset ELSE IF edge THEN afterClock ELSE q
          ELSE q
  <2>1. Chosen(t, old, new) = IF active(new) THEN reset.act
                              ELSE IF edge THEN p.body.other ELSE Nothing
    <3>1. Chosen(t, old, new) = IF AnyHolds(reset.when, old, new) THEN reset.act
                                ELSE IF AnyHolds(clocked.when, old, new) THEN clocked.act ELSE t.other
      BY <1>3, ChosenTwo
    <3>2. clocked.act = p.body.other
      BY DEF clocked
    <3>3. QED
      BY <1>3, <1>6, <3>1, <3>2
  <2>2. Does(Nothing, q, new.d) = q
    BY DEF Does
  <2>3. (\E n \in t.sens : old[n] # new[n]) <=> old.clk # new.clk \/ old.rst # new.rst
    BY <1>3 DEF Controls
  <2>4. QED
    BY <1>3, <2>1, <2>2, <2>3 DEF TestRun
<1>10. SettledBranch(reset.act)
  BY DEF Settles, reset
<1>11. active(old) => afterReset = q
  <2>1. active(old) => Keeps(reset.act, q)
    BY <1>6 DEF Held, reset
  <2>2. QED
    BY <1>2, <1>5, <1>10, <2>1, SettledKeeps
<1>12. TestRun(t, old, new, q) = ListRun(p, old, new, q)
  BY <1>7, <1>8, <1>9, <1>11
<1>13. active(new) => Keeps(reset.act, ListRun(p, old, new, q))
  <2>1. active(new) => ListRun(p, old, new, q) = afterReset
    BY <1>7, <1>8, <1>11
  <2>2. Keeps(reset.act, afterReset)
    BY <1>2, <1>5, <1>10, SettledKeeps
  <2>3. QED
    BY <2>1, <2>2
<1>14. QED
  BY <1>6, <1>12, <1>13 DEF Held, t, reset

LEMMA StepAsynchronous ==
  ASSUME NEW p \in Sources, Kind(p) = "asynchronous", Settles(p),
         NEW old \in Inputs, NEW new \in Inputs, NEW q \in Data, Driven(old, new),
         Held(p, old, q)
  PROVE  /\ TestRun(Rebuilt(p), old, new, q) = ListRun(p, old, new, q)
         /\ Held(p, new, ListRun(p, old, new, q))
<1> DEFINE t == Rebuilt(p)
           v(n) == Value(p, n)
           lit == BuildCondition(p, Edges(p))
           after == Does(p.body.other, q, new.d)
<1>1. Edges(p) = Controls
  BY DEF Kind
<1>2. p.body.alts = <<>> /\ p.body.other \in Branch /\ SettledBranch(p.body.other)
  BY SourceShape DEF Settles
<1>3. t.sens = Controls /\ t.guard = {lit} /\ t.alts = <<>> /\ t.other = p.body.other
  BY <1>1, <1>2 DEF Rebuilt, Wrapped
<1>4. \A a, b : AnyHolds(lit, a, b) <=> b.clk = v("clk") \/ b.rst = v("rst")
  <2>1. Clocks(p) = {}
    BY DEF Clocks
  <2>2. QED
    BY <1>1, <2>1, ConditionHolds DEF Controls
<1>5. /\ old.clk \in Level /\ new.clk \in Level /\ old.rst \in Level /\ new.rst \in Level
      /\ new.d \in Data
  BY DEF Inputs
<1>6. /\ new.clk = "x" => old.clk = "x"
      /\ new.rst = "x" => old.rst = "x"
  BY DEF Driven, Controls
<1>7. ListWakes(p, old, new)
        <=> \/ new.clk = v("clk") /\ old.clk # new.clk
            \/ new.rst = v("rst") /\ old.rst # new.rst
  <2>1. /\ p.pos \subseteq {"clk", "rst"} /\ p.neg \subseteq {"clk", "rst"}
        /\ "clk" \in p.pos <=> "clk" \notin p.neg
        /\ "rst" \in p.pos <=> "rst" \notin p.neg
    BY <1>1, SourceShape DEF Edges, Controls
  <2>2. ListWakes(p, old, new) <=>
          \/ "clk" \in p.pos /\ Rises(old.clk, new.clk)
          \/ "clk" \in p.neg /\ Falls(old.clk, new.clk)
          \/ "rst" \in p.pos /\ Rises(old.rst, new.rst)
          \/ "rst" \in p.neg /\ Falls(old.rst, new.rst)
    BY <2>1 DEF ListWakes
  <2>3. new.clk = v("clk") /\ old.clk # new.clk
          <=> \/ "clk" \in p.pos /\ Rises(old.clk, new.clk)
              \/ "clk" \in p.neg /\ Falls(old.clk, new.clk)
    BY <1>5, <1>6, <2>1 DEF Level, Rises, Falls, High, Low, Value
  <2>4. new.rst = v("rst") /\ old.rst # new.rst
          <=> \/ "rst" \in p.pos /\ Rises(old.rst, new.rst)
              \/ "rst" \in p.neg /\ Falls(old.rst, new.rst)
    BY <1>5, <1>6, <2>1 DEF Level, Rises, Falls, High, Low, Value
  <2>5. QED
    BY <2>2, <2>3, <2>4
<1> HIDE DEF t, lit, v
<1>8. ListRun(p, old, new, q) = IF ListWakes(p, old, new) THEN after ELSE q
  <2>1. Chosen(p.body, old, new) = p.body.other
    BY <1>2, ChosenPlain
  <2>2. QED
    BY <2>1 DEF ListRun
<1>9. TestRun(t, old, new, q)
        = IF /\ old.clk # new.clk \/ old.rst # new.rst
             /\ AnyHolds(lit, old, new)
          THEN after ELSE q
  <2>1. Chosen(t, old, new) = p.body.other
    BY <1>3, ChosenPlain
  <2>2. (\E n \in t.sens : old[n] # new[n]) <=> old.clk # new.clk \/ old.rst # new.rst
    BY <1>3 DEF Controls
  <2>3. QED
    BY <1>3, <2>1, <2>2 DEF TestRun
<1>10. AnyHolds(lit, old, old) => after = q
  <2>1. AnyHolds(lit, old, old) => Keeps(p.body.other, q)
    BY DEF Held, lit
  <2>2. QED
    BY <1>2, <1>5, <2>1, SettledKeeps
<1>11. TestRun(t, old, new, q) = ListRun(p, old, new, q)
  <2>1. AnyHolds(lit, old, new) => ListWakes(p, old, new) \/ AnyHolds(lit, old, old)
    BY <1>4, <1>7
  <2>2. ListWakes(p, old, new) => /\ AnyHolds(lit, old, new)
                                  /\ old.clk # new.clk \/ old.rst # new.rst
    BY <1>4, <1>7
  <2>3. QED
    BY <1>8, <1>9, <1>10, <2>1, <2>2
<1>12. AnyHolds(lit, new, new) => Keeps(p.body.other, ListRun(p, old, new, q))
  <2>1. AnyHolds(lit, new, new) => ListRun(p, old, new, q) = after
    BY <1>4, <1>7, <1>8, <1>10
  <2>2. Keeps(p.body.other, after)
    BY <1>2, <1>5, SettledKeeps
  <2>3. QED
    BY <2>1, <2>2
<1>13. QED
  BY <1>11, <1>12 DEF Held, t, lit

-----------------------------------------------------------------------------
(* The inductive invariant: what was decided, and the register held while  *)
(* an extra run of the rebuilt process would find its branch open.         *)
EdgeInv ==
  /\ pc \in {"visit", "left", "refused", "run"}
  /\ source \in Sources /\ sig \in Inputs /\ qSource \in Data /\ qTarget \in Data
  /\ target = IF pc = "run" THEN Rebuilt(source) ELSE <<>>
  /\ pc = "run" => Kind(source) \in {"wrapped", "nested", "asynchronous"}
  /\ pc = "visit" => sig.clk = "x" /\ sig.rst = "x" /\ qTarget = qSource
  /\ pc = "run" /\ Settles(source) => qTarget = qSource /\ Held(source, sig, qSource)

(* Both processes leave data in their registers. *)
LEMMA RunsType ==
  ASSUME NEW p \in Sources, NEW old, NEW new \in Inputs, NEW q \in Data,
         Kind(p) \in {"wrapped", "nested", "asynchronous"}
  PROVE  ListRun(p, old, new, q) \in Data /\ TestRun(Rebuilt(p), old, new, q) \in Data
<1>1. new.d \in Data
  BY DEF Inputs
<1>2. /\ p.body.other \in Branch
      /\ \A i \in DOMAIN p.body.alts : p.body.alts[i].act \in Branch
      /\ p.body.alts = <<>> \/ \E a : p.body.alts = <<a>>
  <2>1. CASE p.body.alts = <<>>
    <3>1. DOMAIN p.body.alts = {}
      BY <2>1
    <3>2. QED
      BY <2>1, <3>1, SourceShape
  <2>2. CASE p.body.alts # <<>>
    <3>1. PICK w \in {Low, High}, b \in Branch :
            p.body.alts = <<[when |-> {Literal("rst", w, FALSE)}, act |-> b]>>
      BY <2>2, SourceShape
    <3>2. DEFINE a == [when |-> {Literal("rst", w, FALSE)}, act |-> b]
    <3>3. a.act \in Branch
      OBVIOUS
    <3> HIDE DEF a
    <3>4. p.body.alts = <<a>>
      BY <3>1 DEF a
    <3>5. \A i \in DOMAIN p.body.alts : p.body.alts[i] = a
      BY <3>4
    <3>6. QED
      BY <3>3, <3>4, <3>5, SourceShape
  <2>3. QED
    BY <2>1, <2>2
<1>3. Chosen(p.body, old, new) \in Branch
  BY <1>2, ChosenType
<1>4. Chosen(Rebuilt(p), old, new) \in Branch
  <2>1. CASE Kind(p) = "nested"
    <3>1. p.body.alts # <<>> /\ p.body.alts[1].act \in Branch
      <4>1. p.body.alts # <<>>
        BY <2>1 DEF Kind, TestsResetEdge
      <4>2. QED
        BY <1>2, <4>1
    <3>2. DEFINE c == [when |-> BuildCondition(p, {"clk"}), act |-> p.body.other]
    <3>3. Rebuilt(p).alts = <<p.body.alts[1], c>> /\ Rebuilt(p).other \in Branch
      BY <2>1 DEF Rebuilt, Nested, Branch
    <3>4. c.act \in Branch
      BY <1>2
    <3> HIDE DEF c
    <3>5. \A i \in DOMAIN Rebuilt(p).alts : Rebuilt(p).alts[i].act \in Branch
      BY <3>1, <3>3, <3>4
    <3>6. QED
      BY <3>3, <3>5, ChosenType
  <2>2. CASE Kind(p) # "nested"
    <3>1. Rebuilt(p).alts = p.body.alts /\ Rebuilt(p).other = p.body.other
      BY <2>2 DEF Rebuilt, Wrapped
    <3>2. QED
      BY <1>3, <3>1 DEF Chosen
  <2>3. QED
    BY <2>1, <2>2
<1>5. QED
  BY <1>1, <1>3, <1>4, DoesType DEF ListRun, TestRun

LEMMA EdgeInit == Init => EdgeInv
BY DEF Init, EdgeInv, Inputs

LEMMA EdgeStep == EdgeInv /\ [Next]_vars => EdgeInv'
<1> SUFFICES ASSUME EdgeInv, [Next]_vars PROVE EdgeInv'
  OBVIOUS
<1>1. CASE Leave
  BY <1>1 DEF Leave, EdgeInv
<1>2. CASE Refuse
  BY <1>2 DEF Refuse, EdgeInv
<1>3. CASE Rebuild
  <2>1. source' = source /\ sig' = sig /\ qSource' = qSource /\ qTarget' = qTarget
    BY <1>3 DEF Rebuild
  <2>2. sig.clk = "x" /\ sig.rst = "x" /\ qTarget = qSource
    BY <1>3 DEF Rebuild, EdgeInv
  <2>3. Held(source, sig, qSource)
    <3>1. CASE Kind(source) = "nested"
      <4>1. \E v \in {Low, High} : source.body.alts[1].when = {Literal("rst", v, FALSE)}
        BY <3>1 DEF Kind, TestsResetEdge
      <4>2. ~AnyHolds(source.body.alts[1].when, sig, sig)
        BY <2>2, <4>1 DEF AnyHolds, LiteralHolds, Literal, Low, High
      <4>3. QED
        BY <3>1, <4>2 DEF Held
    <3>2. CASE Kind(source) # "nested"
      <4>1. source \in Sources /\ Edges(source) \subseteq Controls
        BY SourceShape DEF EdgeInv, Edges
      <4>2. ~AnyHolds(BuildCondition(source, Edges(source)), sig, sig)
        BY <2>2, <4>1 DEF AnyHolds, LiteralHolds, BuildCondition, Literal, Low, High, Controls
      <4>3. QED
        BY <3>2, <4>2 DEF Held
    <3>3. QED
      BY <3>1, <3>2
  <2>4. QED
    BY <1>3, <2>1, <2>2, <2>3 DEF Rebuild, EdgeInv
<1>4. CASE Change
  <2>1. /\ source \in Sources /\ target = Rebuilt(source)
        /\ Kind(source) \in {"wrapped", "nested", "asynchronous"}
        /\ sig \in Inputs /\ sig' \in Inputs /\ Driven(sig, sig')
        /\ qSource \in Data /\ qTarget \in Data
        /\ qSource' = ListRun(source, sig, sig', qSource)
        /\ qTarget' = TestRun(target, sig, sig', qTarget)
        /\ pc = "run" /\ pc' = "run" /\ source' = source /\ target' = target
    BY <1>4 DEF Change, EdgeInv, Driven
  <2>2. qSource' \in Data /\ qTarget' \in Data
    BY <2>1, RunsType
  <2>3. ASSUME Settles(source)
        PROVE  qTarget' = qSource' /\ Held(source, sig', qSource')
    <3>1. qTarget = qSource /\ Held(source, sig, qSource)
      BY <2>1, <2>3 DEF EdgeInv
    <3>2. CASE Kind(source) = "wrapped"
      BY <2>1, <3>1, <3>2, StepWrapped DEF Held
    <3>3. CASE Kind(source) = "nested"
      BY <2>1, <2>3, <3>1, <3>3, StepNested
    <3>4. CASE Kind(source) = "asynchronous"
      BY <2>1, <2>3, <3>1, <3>4, StepAsynchronous
    <3>5. QED
      BY <2>1, <3>2, <3>3, <3>4
  <2>4. QED
    BY <2>1, <2>2, <2>3 DEF EdgeInv
<1>5. CASE UNCHANGED vars
  BY <1>5 DEF vars, EdgeInv
<1>6. QED
  BY <1>1, <1>2, <1>3, <1>4, <1>5 DEF Next

(* What the pass builds is woken by all its lists named, and tests the     *)
(* edges of its clocks and no other.                                       *)
LEMMA TestsItsClocks ==
  ASSUME NEW p \in Sources, Kind(p) \in {"wrapped", "nested", "asynchronous"}
  PROVE  Rebuilt(p) \in Blocks /\ EdgesTested(p, Rebuilt(p))
<1> DEFINE v(n) == IF n \in p.pos THEN High ELSE Low
           tests == {Literal(n, v(n), TRUE) : n \in Clocks(p)}
<1>1. /\ Edges(p) \subseteq Controls /\ p.levels = {} /\ p.body.other \in Branch
      /\ Clocks(p) \subseteq Controls
  BY SourceShape DEF Edges, Kind, Clocks, Controls
<1>2. ASSUME NEW driven \in SUBSET Controls
      PROVE  /\ BuildCondition(p, driven) \subseteq Literals
             /\ {l \in BuildCondition(p, driven) : l.event} = {Literal(n, v(n), TRUE) : n \in driven \cap Clocks(p)}
  <2>1. ASSUME NEW n \in driven
        PROVE  /\ Literal(n, v(n), n \in Clocks(p)) \in Literals
               /\ Literal(n, v(n), n \in Clocks(p)).event <=> n \in Clocks(p)
               /\ n \in Clocks(p) => Literal(n, v(n), n \in Clocks(p)) = Literal(n, v(n), TRUE)
    <3>1. v(n) \in {High, Low} /\ (n \in Clocks(p)) \in BOOLEAN /\ n \in Controls
      OBVIOUS
    <3>2. ASSUME NEW e \in BOOLEAN
          PROVE  Literal(n, v(n), e) \in Literals /\ Literal(n, v(n), e).event = e
      BY <3>1 DEF Literal, Literals
    <3>3. (n \in Clocks(p)) => (n \in Clocks(p)) = TRUE
      OBVIOUS
    <3> HIDE DEF v
    <3>4. QED
      BY <3>1, <3>2, <3>3
  <2>2. BuildCondition(p, driven) = {Literal(n, v(n), n \in Clocks(p)) : n \in driven}
    BY DEF BuildCondition
  <2> HIDE DEF v
  <2>3. QED
    BY <2>1, <2>2
<1>3. CASE Kind(p) = "nested"
  <2>1. PICK w \in {Low, High}, b \in Branch :
          p.body.alts = <<[when |-> {Literal("rst", w, FALSE)}, act |-> b]>>
    BY <1>3, SourceShape DEF Kind, TestsResetEdge
  <2> DEFINE a == [when |-> {Literal("rst", w, FALSE)}, act |-> b]
             c == [when |-> BuildCondition(p, {"clk"}), act |-> p.body.other]
  <2>2. a \in Alternatives /\ c \in Alternatives
    <3>1. {Literal("rst", w, FALSE)} \subseteq Literals
      BY DEF Literal, Literals, Controls
    <3>2. BuildCondition(p, {"clk"}) \subseteq Literals
      BY <1>2 DEF Controls
    <3>3. QED
      BY <1>1, <3>1, <3>2 DEF Alternatives
  <2>3. {l \in a.when \cup c.when : l.event} = tests
    <3>1. {l \in a.when : l.event} = {}
      BY DEF Literal
    <3>2. Clocks(p) = {"clk"}
      BY <1>3 DEF Clocks
    <3>3. {l \in c.when : l.event} = tests
      <4>1. {l \in c.when : l.event} = {Literal(n, v(n), TRUE) : n \in {"clk"} \cap Clocks(p)}
        BY <1>2 DEF Controls
      <4>2. {"clk"} \cap Clocks(p) = Clocks(p)
        BY <3>2
      <4>3. QED
        BY <4>1, <4>2
    <3>4. {l \in a.when \cup c.when : l.event} = {l \in a.when : l.event} \cup {l \in c.when : l.event}
      OBVIOUS
    <3>5. QED
      BY <3>1, <3>3, <3>4
  <2> HIDE DEF a
  <2>4. Rebuilt(p) = [sens |-> Edges(p), guard |-> {}, alts |-> <<a, c>>, other |-> Nothing]
    BY <1>3, <2>1 DEF Rebuilt, Nested, a
  <2> HIDE DEF c, tests
  <2>5. Tested(Rebuilt(p)) = a.when \cup c.when
    <3>0. Rebuilt(p).alts = <<a, c>>
      BY <2>4
    <3>1. /\ DOMAIN Rebuilt(p).alts = {1, 2} /\ Rebuilt(p).alts[1] = a /\ Rebuilt(p).alts[2] = c
          /\ Rebuilt(p).guard = {}
      BY <2>4, <3>0
    <3>2. UNION {Rebuilt(p).alts[i].when : i \in {1, 2}} = a.when \cup c.when
      BY <3>1
    <3>3. QED
      BY <3>1, <3>2 DEF Tested
  <2>6. Rebuilt(p) \in Blocks
    <3>1. <<a, c>> \in Seq(Alternatives) /\ Nothing \in Branch
      BY <2>2 DEF Branch
    <3>2. QED
      BY <1>1, <2>4, <3>1 DEF Blocks
  <2>7. Rebuilt(p).sens = Edges(p) \cup p.levels
    BY <1>1, <2>4
  <2>8. QED
    BY <2>3, <2>5, <2>6, <2>7 DEF EdgesTested, tests
<1>4. CASE Kind(p) # "nested"
  <2> DEFINE g == BuildCondition(p, Edges(p))
  <2>1. g \subseteq Literals /\ {l \in g : l.event} = tests
    <3>1. Edges(p) \cap Clocks(p) = Clocks(p)
      BY <1>4 DEF Clocks
    <3>2. g \subseteq Literals /\ {l \in g : l.event} = {Literal(n, v(n), TRUE) : n \in Edges(p) \cap Clocks(p)}
      BY <1>1, <1>2
    <3>3. QED
      BY <3>1, <3>2
  <2> HIDE DEF g
  <2>2. Rebuilt(p) = [sens |-> Edges(p), guard |-> {g}, alts |-> p.body.alts, other |-> p.body.other]
    BY <1>4 DEF Rebuilt, Wrapped, g
  <2>3. /\ p.body.alts \in Seq(Alternatives)
        /\ {l \in UNION {p.body.alts[i].when : i \in DOMAIN p.body.alts} : l.event} = {}
    <3>1. CASE p.body.alts = <<>>
      <4>1. DOMAIN p.body.alts = {}
        BY <3>1
      <4>2. QED
        BY <3>1, <4>1
    <3>2. CASE p.body.alts # <<>>
      <4>1. PICK w \in {Low, High}, b \in Branch :
              p.body.alts = <<[when |-> {Literal("rst", w, FALSE)}, act |-> b]>>
        BY <3>2, SourceShape
      <4> DEFINE a == [when |-> {Literal("rst", w, FALSE)}, act |-> b]
      <4>2. a \in Alternatives /\ {l \in a.when : l.event} = {}
        BY DEF Literal, Literals, Controls, Alternatives
      <4> HIDE DEF a
      <4>3. p.body.alts = <<a>>
        BY <4>1 DEF a
      <4>4. UNION {p.body.alts[i].when : i \in DOMAIN p.body.alts} = a.when
        BY <4>3
      <4>5. QED
        BY <4>2, <4>3, <4>4
    <3>3. QED
      BY <3>1, <3>2
  <2> HIDE DEF tests
  <2>4. Rebuilt(p) \in Blocks
    BY <1>1, <2>1, <2>2, <2>3 DEF Blocks
  <2>5. {l \in Tested(Rebuilt(p)) : l.event} = tests
    <3>1. Tested(Rebuilt(p)) = g \cup UNION {p.body.alts[i].when : i \in DOMAIN p.body.alts}
      BY <2>2 DEF Tested
    <3>2. QED
      BY <2>1, <2>3, <3>1
  <2>6. Rebuilt(p).sens = Edges(p) \cup p.levels
    BY <1>1, <2>2
  <2>7. QED
    BY <2>4, <2>5, <2>6 DEF EdgesTested, tests
<1>5. QED
  BY <1>3, <1>4

(* A process that runs is a block woken by every signal its lists named,   *)
(* and the only edges it tests are its clocks', each the one its list gave *)
(* (_buildSensitivityCondition and _fixSynchronousProcess); both registers *)
(* keep holding data, whatever the actions and the processes are.          *)
THEOREM TypeCorrect == Spec => []TypeOK
<1>1. EdgeInv => TypeOK
  BY TestsItsClocks DEF EdgeInv, TypeOK
<1>2. QED
  BY <1>1, EdgeInit, EdgeStep, PTL DEF Spec

(* Every process the pass rebuilds, if it settles, drives the same         *)
(* register before and after, for every data type and every body of one    *)
(* branch or of a reset test.                                              *)
THEOREM RebuildCorrect == Spec => []SameRegister
<1>1. EdgeInv => SameRegister
  BY DEF EdgeInv, SameRegister
<1>2. QED
  BY <1>1, EdgeInit, EdgeStep, PTL DEF Spec

-----------------------------------------------------------------------------
(* The time a thread has left is not the whole only while it counts it.    *)
(* A thread that waits for a condition alone waits while it is false: what *)
(* could make it true since would have woken it.                           *)
WaitInv ==
  /\ stmt \in Waiting!Statements
  /\ wave \in [Signals -> BOOLEAN]
  /\ inside \in BOOLEAN
  /\ made # "thread" => ~inside
  /\ left = Timeout \/ (inside /\ stmt.timed)
  /\ Waiting!Claimed /\ inside /\ Waiting!HasCondition(stmt) => ~wave[stmt.until]

(* What the refinement shows of the process and of the events it waits for. *)
ShownAsleep == IF Waiting!Claimed /\ made = "thread" THEN inside ELSE Waiting!Suspends(stmt, Waiting!Seen)
ShownCycles == IF Waiting!Claimed THEN cycles ELSE 0
ShownLeft == IF Waiting!Claimed THEN left ELSE Timeout
Woken(was, is) == \E e \in Waiting!Lowered(stmt).events : Waiting!Fires(e, was, is)

-----------------------------------------------------------------------------
LEMMA SameClauses ==
  /\ Waiting!Promise!Statements = Waiting!Statements
  /\ \A w, now : /\ Waiting!Promise!Suspends(w, now) \in BOOLEAN
                 /\ Waiting!Promise!Suspends(w, now) <=> Waiting!Suspends(w, now)
  /\ \A w, was, is : Waiting!Promise!Resumes(w, was, is) <=> Waiting!Resumes(w, was, is)
BY DEF Waiting!Promise!Statements, Waiting!Statements, Waiting!Promise!Clauses,
       Waiting!Clauses, Waiting!Promise!Edges, Waiting!Edges, Waiting!Promise!Suspends,
       Waiting!Suspends, Waiting!Promise!Resumes, Waiting!Resumes, Waiting!Promise!Event,
       Waiting!Event, Waiting!Promise!Edge, Waiting!Edge, Waiting!Promise!Holds,
       Waiting!Holds, Waiting!Promise!HasSensitivity, Waiting!HasSensitivity,
       Waiting!Promise!HasCondition, Waiting!HasCondition

LEMMA UntilSignal ==
  ASSUME NEW w \in Waiting!Statements
  PROVE  /\ w.until \in Signals \cup {None}
         /\ Waiting!HasCondition(w) => w.until \in Signals
         /\ \A s \in Signals : w.on[s] \in Waiting!Edges
BY DEF Waiting!Statements, Waiting!Clauses, Waiting!HasCondition

LEMMA LoweredFields ==
  ASSUME NEW w
  PROVE  /\ Waiting!Lowered(w).loop = w.until
         /\ Waiting!Lowered(w).timed = w.timed
         /\ Waiting!Lowered(w).events = Waiting!ListEvents(w) \cup {<<s, "value_changed">> : s \in {w.until} \ {None}}
BY DEF Waiting!Lowered

LEMMA Entering ==
  ASSUME NEW w \in Waiting!Statements, NEW now
  PROVE  /\ Waiting!LoopsAgain(w, now) <=> Waiting!HasCondition(w) /\ ~Waiting!Holds(w, now)
         /\ Waiting!Enters(w, now) <=> ~Waiting!HasCondition(w) \/ ~Waiting!Holds(w, now)
BY LoweredFields DEF Waiting!LoopsAgain, Waiting!Enters, Waiting!HasCondition, Waiting!Holds

(* The pass leaves a claimed process claimed and no other. *)
LEMMA ClaimedKept ==
  ASSUME Waiting!Next
  PROVE  Waiting!Claimed' <=> Waiting!Claimed
<1>1. UNCHANGED <<stmt, process>>
  BY DEF Waiting!Next, Waiting!Visit, Waiting!Update, Waiting!Tick, Waiting!Again
<1>2. Waiting!Printable(stmt)' <=> Waiting!Printable(stmt)
  BY <1>1 DEF Waiting!Printable, Waiting!PrintsComma, Waiting!Lowered, Waiting!ListEvents,
              Waiting!EventOf
<1>3. process = [flavour |-> "hdl", returns |-> FALSE] =>
        (made \in {"source", "thread"} => made' \in {"source", "thread"})
        /\ (made' \in {"source", "thread"} => made \in {"source", "thread"})
  BY DEF Waiting!Next, Waiting!Visit, Waiting!Update, Waiting!Tick, Waiting!Again,
         Waiting!VisitStateTable, Waiting!ManageHdl
<1> QED
  BY <1>1, <1>2, <1>3 DEF Waiting!Claimed, Waiting!HasCondition, Waiting!HasSensitivity

(* The events of the lists are those of the wait. *)
LEMMA ListFires ==
  ASSUME NEW w \in Waiting!Statements, NEW was \in [Signals -> BOOLEAN], NEW is \in [Signals -> BOOLEAN]
  PROVE  (\E e \in Waiting!ListEvents(w) : Waiting!Fires(e, was, is)) <=> Waiting!Event(w, was, is)
<1>1. ASSUME NEW s \in Signals
      PROVE  (\E k \in Waiting!EventOf(w.on[s]) : Waiting!Fires(<<s, k>>, was, is)) <=> Waiting!Edge(w.on[s], was[s], is[s])
  <2>1. w.on[s] \in {"none", "level", "pos", "neg"}
    BY UntilSignal DEF Waiting!Edges
  <2>2. CASE w.on[s] = "none"
    BY <2>2 DEF Waiting!EventOf, Waiting!Edge
  <2>3. CASE w.on[s] = "level"
    <3>1. Waiting!EventOf(w.on[s]) = {"value_changed"}
      BY <2>3 DEF Waiting!EventOf
    <3> QED
      BY <2>3, <3>1 DEF Waiting!Fires, Waiting!Edge
  <2>4. CASE w.on[s] = "pos"
    <3>1. Waiting!EventOf(w.on[s]) = {"posedge"}
      BY <2>4 DEF Waiting!EventOf
    <3> QED
      BY <2>4, <3>1 DEF Waiting!Fires, Waiting!Edge
  <2>5. CASE w.on[s] = "neg"
    <3>1. Waiting!EventOf(w.on[s]) = {"negedge"}
      BY <2>5 DEF Waiting!EventOf
    <3> QED
      BY <2>5, <3>1 DEF Waiting!Fires, Waiting!Edge
  <2> QED
    BY <2>1, <2>2, <2>3, <2>4, <2>5
<1>2. \A s \in Signals : Waiting!EventOf(w.on[s]) \subseteq {"value_changed", "posedge", "negedge"}
  BY UntilSignal DEF Waiting!EventOf, Waiting!Edges
<1>3. (\E e \in Waiting!ListEvents(w) : Waiting!Fires(e, was, is))
        <=> \E s \in Signals : \E k \in Waiting!EventOf(w.on[s]) : Waiting!Fires(<<s, k>>, was, is)
  <2>1. ASSUME NEW e \in Waiting!ListEvents(w), Waiting!Fires(e, was, is)
        PROVE  \E s \in Signals : \E k \in Waiting!EventOf(w.on[s]) : Waiting!Fires(<<s, k>>, was, is)
    <3>1. e = <<e[1], e[2]>> /\ e[1] \in Signals /\ e[2] \in Waiting!EventOf(w.on[e[1]])
      BY DEF Waiting!ListEvents
    <3> QED
      BY <2>1, <3>1
  <2>2. ASSUME NEW s \in Signals, NEW k \in Waiting!EventOf(w.on[s]), Waiting!Fires(<<s, k>>, was, is)
        PROVE  \E e \in Waiting!ListEvents(w) : Waiting!Fires(e, was, is)
    <3>1. <<s, k>> \in Waiting!ListEvents(w)
      BY <1>2 DEF Waiting!ListEvents
    <3> QED
      BY <2>2, <3>1
  <2> QED
    BY <2>1, <2>2
<1> QED
  BY <1>1, <1>3 DEF Waiting!Event

(* What wakes the thread, for a statement without a condition ... *)
LEMMA WokenByList ==
  ASSUME WaitInv, ~Waiting!HasCondition(stmt), NEW is \in [Signals -> BOOLEAN]
  PROVE  Woken(wave, is) <=> Waiting!Resumes(stmt, wave, is)
<1>1. Waiting!Lowered(stmt).events = Waiting!ListEvents(stmt)
  <2>1. stmt.until = None
    BY DEF Waiting!HasCondition
  <2>2. {<<s, "value_changed">> : s \in {stmt.until} \ {None}} = {}
    BY <2>1
  <2> QED
    BY <2>2, LoweredFields
<1>2. Woken(wave, is) <=> Waiting!Event(stmt, wave, is)
  BY <1>1, ListFires DEF Woken, WaitInv
<1>3. Waiting!Event(stmt, wave, is) => Waiting!HasSensitivity(stmt)
  BY UntilSignal DEF Waiting!Event, Waiting!HasSensitivity, Waiting!Edge, WaitInv
<1> QED
  BY <1>2, <1>3 DEF Waiting!Resumes, Waiting!Holds

(* ... and for one of a condition alone. *)
LEMMA WokenByCondition ==
  ASSUME WaitInv, Waiting!HasCondition(stmt), ~Waiting!HasSensitivity(stmt), NEW is \in [Signals -> BOOLEAN]
  PROVE  Woken(wave, is) <=> wave[stmt.until] # is[stmt.until]
<1>1. Waiting!ListEvents(stmt) = {}
  BY DEF Waiting!ListEvents, Waiting!EventOf, Waiting!HasSensitivity
<1>2. Waiting!Lowered(stmt).events = {<<stmt.until, "value_changed">>}
  BY <1>1, LoweredFields DEF Waiting!HasCondition
<1> QED
  BY <1>2 DEF Woken, Waiting!Fires

-----------------------------------------------------------------------------
LEMMA WaitInit == Waiting!Init => WaitInv
BY DEF Waiting!Init, WaitInv

LEMMA WaitStep == WaitInv /\ [Waiting!Next]_(Waiting!vars) => WaitInv'
<1> SUFFICES ASSUME WaitInv, [Waiting!Next]_(Waiting!vars)
             PROVE  WaitInv'
  OBVIOUS
<1>1. CASE Waiting!Visit
  <2>1. ~inside /\ left = Timeout /\ inside' \in BOOLEAN /\ (made' # "thread" => ~inside')
        /\ UNCHANGED <<stmt, wave, left>> /\ (inside' => Waiting!Enters(stmt, wave))
    BY <1>1 DEF Waiting!Visit, WaitInv, Waiting!Enters, Waiting!LoopsAgain
  <2>2. inside' /\ Waiting!HasCondition(stmt) => ~wave[stmt.until]
    BY <2>1, Entering DEF WaitInv, Waiting!Holds
  <2> QED
    BY <2>1, <2>2 DEF WaitInv, Waiting!HasCondition
<1>2. CASE Waiting!Update
  <2> DEFINE woken == inside /\ Woken(wave, wave')
  <2>1. /\ made = "thread" /\ UNCHANGED <<stmt, process, made>>
        /\ wave' \in [Signals -> BOOLEAN]
        /\ inside' = (inside /\ (woken => Waiting!LoopsAgain(stmt, wave')))
        /\ left' = IF woken THEN Timeout ELSE left
    BY <1>2 DEF Waiting!Update, Woken
  <2>2. inside' \in BOOLEAN /\ (left' = Timeout \/ (inside' /\ stmt.timed))
    BY <2>1 DEF WaitInv
  <2>3. Waiting!Claimed' <=> Waiting!Claimed
    BY <1>2, ClaimedKept DEF Waiting!Next
  <2>4. ASSUME Waiting!Claimed, inside', Waiting!HasCondition(stmt)
        PROVE  ~wave'[stmt.until]
    <3>1. ~Waiting!HasSensitivity(stmt) /\ inside /\ ~wave[stmt.until]
      BY <2>1, <2>4 DEF Waiting!Claimed, WaitInv
    <3>2. CASE Woken(wave, wave')
      BY <2>1, <2>4, <3>1, <3>2, Entering DEF WaitInv, Waiting!Holds
    <3>3. CASE ~Woken(wave, wave')
      BY <2>1, <2>4, <3>1, <3>3, WokenByCondition
    <3> QED
      BY <3>2, <3>3
  <2> HIDE DEF woken
  <2> QED
    BY <2>1, <2>2, <2>3, <2>4 DEF WaitInv, Waiting!HasCondition
<1>3. CASE Waiting!Tick
  <2> DEFINE due == stmt.timed /\ left = 1
  <2>1. /\ inside /\ UNCHANGED <<stmt, process, made, wave>>
        /\ inside' = (due => Waiting!LoopsAgain(stmt, wave))
        /\ left' = IF stmt.timed /\ ~due THEN left - 1 ELSE Timeout
    BY <1>3, LoweredFields DEF Waiting!Tick
  <2>2. inside' \in BOOLEAN /\ (left' = Timeout \/ (inside' /\ stmt.timed))
    BY <2>1
  <2>3. Waiting!Claimed' <=> Waiting!Claimed
    BY <1>3, ClaimedKept DEF Waiting!Next
  <2> HIDE DEF due
  <2> QED
    BY <2>1, <2>2, <2>3 DEF WaitInv, Waiting!HasCondition
<1>4. CASE Waiting!Again
  <2>1. ~inside /\ left = Timeout /\ inside' = Waiting!Enters(stmt, wave) /\ made = "thread"
        /\ UNCHANGED <<stmt, process, made, wave, left>>
    BY <1>4 DEF Waiting!Again, WaitInv
  <2>2. inside' /\ Waiting!HasCondition(stmt) => ~wave[stmt.until]
    BY <2>1, Entering DEF WaitInv, Waiting!Holds
  <2>3. inside' \in BOOLEAN
    BY <2>1 DEF Waiting!Enters, Waiting!LoopsAgain
  <2> QED
    BY <2>1, <2>2, <2>3 DEF WaitInv, Waiting!HasCondition
<1>5. CASE UNCHANGED Waiting!vars
  <2>1. Waiting!Claimed' <=> Waiting!Claimed
    BY <1>5 DEF Waiting!vars, Waiting!Claimed, Waiting!Printable, Waiting!PrintsComma,
                Waiting!Lowered, Waiting!ListEvents, Waiting!EventOf, Waiting!HasCondition,
                Waiting!HasSensitivity
  <2> QED
    BY <1>5, <2>1 DEF Waiting!vars, WaitInv, Waiting!HasCondition
<1> QED
  BY <1>1, <1>2, <1>3, <1>4, <1>5 DEF Waiting!Next

LEMMA WaitAlways == Waiting!Spec => []WaitInv
BY WaitInit, WaitStep, PTL DEF Waiting!Spec

-----------------------------------------------------------------------------
(* What is not claimed maps to a wait that nothing happens to. *)
LEMMA UnclaimedIdle ==
  ASSUME ~Waiting!Claimed, ~Waiting!Claimed', stmt' = stmt
  PROVE  UNCHANGED <<stmt, Waiting!Seen, ShownCycles, ShownAsleep, ShownLeft>>
<1>1. Waiting!Seen' = Waiting!Seen
  BY DEF Waiting!Seen
<1>2. ShownAsleep' = ShownAsleep
  BY <1>1 DEF ShownAsleep, Waiting!Suspends, Waiting!HasSensitivity, Waiting!HasCondition,
              Waiting!Holds
<1> QED
  BY <1>1, <1>2 DEF ShownCycles, ShownLeft

(* For a claimed statement, calling wait() is suspending. *)
LEMMA EntersSuspends ==
  ASSUME WaitInv, Waiting!Claimed
  PROVE  Waiting!Enters(stmt, wave) <=> Waiting!Suspends(stmt, wave)
BY Entering DEF WaitInv, Waiting!Claimed, Waiting!Suspends

LEMMA VisitRefines ==
  ASSUME WaitInv, Waiting!Claimed, Waiting!Claimed', Waiting!Visit
  PROVE  UNCHANGED <<stmt, Waiting!Seen, ShownCycles, ShownAsleep, ShownLeft>>
<1>1. UNCHANGED <<stmt, wave, cycles, left>> /\ made = "source" /\ made' = "thread"
      /\ inside' = Waiting!Enters(stmt, wave)
  BY DEF Waiting!Visit, Waiting!VisitStateTable, Waiting!ManageHdl, Waiting!Claimed,
         Waiting!Enters, Waiting!LoopsAgain
<1>2. Waiting!Seen = wave /\ Waiting!Seen' = wave
  BY <1>1 DEF Waiting!Seen
<1>3. ShownAsleep' <=> ShownAsleep
  BY <1>1, <1>2, EntersSuspends DEF ShownAsleep
<1>4. ShownAsleep \in BOOLEAN /\ ShownAsleep' \in BOOLEAN
  BY <1>1 DEF ShownAsleep, Waiting!Suspends, WaitInv, Waiting!Enters, Waiting!LoopsAgain
<1> QED
  BY <1>1, <1>2, <1>3, <1>4 DEF ShownCycles, ShownLeft

LEMMA UpdateRefines ==
  ASSUME WaitInv, WaitInv', Waiting!Claimed, Waiting!Claimed', Waiting!Update
  PROVE  Waiting!Promise!Update
<1> DEFINE woken == inside /\ Woken(wave, wave')
<1>1. /\ made = "thread" /\ made' = "thread" /\ stmt' = stmt
      /\ cycles < Cycles /\ cycles' = cycles + 1
      /\ wave' \in [Signals -> BOOLEAN]
      /\ inside' = (inside /\ (woken => Waiting!LoopsAgain(stmt, wave')))
      /\ left' = IF woken THEN Timeout ELSE left
  BY DEF Waiting!Update, Woken
<1>2. Waiting!Seen = wave /\ Waiting!Seen' = wave'
  BY DEF Waiting!Seen
<1>3. inside' = (inside /\ ~Waiting!Resumes(stmt, wave, wave'))
  <2>1. CASE ~Waiting!HasCondition(stmt)
    <3>1. ~Waiting!LoopsAgain(stmt, wave')
      BY <2>1, Entering DEF WaitInv
    <3> QED
      BY <1>1, <2>1, <3>1, WokenByList
  <2>2. CASE Waiting!HasCondition(stmt)
    <3>1. ~Waiting!HasSensitivity(stmt) /\ stmt.until \in Signals
      BY <2>2, UntilSignal DEF Waiting!Claimed, WaitInv
    <3>2. Waiting!Resumes(stmt, wave, wave') <=> wave'[stmt.until]
      BY <2>2, <3>1 DEF Waiting!Resumes, Waiting!Holds
    <3>3. Waiting!LoopsAgain(stmt, wave') <=> ~wave'[stmt.until]
      BY <2>2, Entering DEF WaitInv, Waiting!Holds
    <3>4. inside => (Woken(wave, wave') <=> wave'[stmt.until])
      <4>1. Woken(wave, wave') <=> wave[stmt.until] # wave'[stmt.until]
        BY <1>1, <2>2, <3>1, WokenByCondition
      <4>2. inside => wave[stmt.until] = FALSE
        BY <2>2, <3>1 DEF WaitInv
      <4>3. wave'[stmt.until] \in BOOLEAN
        BY <1>1, <3>1
      <4> QED
        BY <4>1, <4>2, <4>3
    <3> QED
      BY <1>1, <3>2, <3>3, <3>4 DEF WaitInv
  <2> QED
    BY <2>1, <2>2
<1>4. left' = IF inside' THEN left ELSE Timeout
  <2>1. CASE left = Timeout
    BY <1>1, <2>1
  <2>2. CASE left # Timeout
    <3>1. inside /\ stmt.timed /\ ~Waiting!HasCondition(stmt)
      BY <2>2 DEF WaitInv, Waiting!Claimed
    <3>2. ~Waiting!LoopsAgain(stmt, wave')
      BY <3>1, Entering DEF WaitInv
    <3> QED
      BY <1>1, <3>1, <3>2
  <2> QED
    BY <2>1, <2>2
<1>5. inside' = (inside /\ ~Waiting!Promise!Resumes(stmt, Waiting!Seen, Waiting!Seen'))
  BY <1>2, <1>3, SameClauses
<1> HIDE DEF woken
<1> QED
  BY <1>1, <1>2, <1>4, <1>5 DEF Waiting!Promise!Update

LEMMA TickRefines ==
  ASSUME WaitInv, WaitInv', Waiting!Claimed, Waiting!Claimed', Waiting!Tick
  PROVE  Waiting!Promise!Tick
<1> DEFINE due == stmt.timed /\ left = 1
<1>1. /\ inside /\ cycles' = 0 /\ UNCHANGED <<stmt, made, wave>>
      /\ inside' = (due => Waiting!LoopsAgain(stmt, wave))
      /\ left' = IF stmt.timed /\ ~due THEN left - 1 ELSE Timeout
  BY LoweredFields DEF Waiting!Tick
<1>2. Waiting!Seen' = Waiting!Seen /\ made = "thread"
  BY <1>1 DEF Waiting!Seen, WaitInv
<1>3. stmt.timed => ~Waiting!LoopsAgain(stmt, wave)
  BY Entering DEF Waiting!Claimed, WaitInv
<1>4. inside' = ~(stmt.timed /\ left = 1)
  BY <1>1, <1>3
<1>5. left' = IF stmt.timed /\ inside' THEN left - 1 ELSE Timeout
  BY <1>1, <1>4
<1> HIDE DEF due
<1> QED
  BY <1>1, <1>2, <1>4, <1>5 DEF Waiting!Promise!Tick

LEMMA AgainRefines ==
  ASSUME WaitInv, Waiting!Claimed, Waiting!Claimed', Waiting!Again
  PROVE  Waiting!Promise!Again
<1>1. /\ made = "thread" /\ ~inside /\ inside' = Waiting!Enters(stmt, wave)
      /\ UNCHANGED <<stmt, made, wave, cycles, left>>
  BY DEF Waiting!Again
<1>2. Waiting!Seen = wave /\ Waiting!Seen' = wave
  BY <1>1 DEF Waiting!Seen
<1>3. inside' <=> Waiting!Promise!Suspends(stmt, Waiting!Seen)
  BY <1>1, <1>2, EntersSuspends, SameClauses
<1>4. inside' \in BOOLEAN
  BY <1>1 DEF Waiting!Enters, Waiting!LoopsAgain
<1>5. inside' = Waiting!Promise!Suspends(stmt, Waiting!Seen)
  BY <1>3, <1>4, SameClauses
<1> QED
  BY <1>1, <1>2, <1>5 DEF Waiting!Promise!Again

(* The SystemC thread resumes when the HIF Wait does, turn after turn, for *)
(* every statement of the claimed shapes and any signals (visitWait of     *)
(* PreRefine_misc.cpp and of PrintSystemCVisitor.cpp).                     *)
THEOREM WaitsResume == Waiting!Spec => ImplementsWait
<1>1. Waiting!Init => Waiting!Promise!Init
  <2> SUFFICES ASSUME Waiting!Init
               PROVE  Waiting!Promise!Init
    OBVIOUS
  <2>1. Waiting!Seen \in [Signals -> BOOLEAN]
    BY DEF Waiting!Init, Waiting!Seen
  <2>2. ~(Waiting!Claimed /\ made = "thread")
    BY DEF Waiting!Init
  <2>3. Waiting!Promise!Suspends(stmt, Waiting!Seen) = Waiting!Suspends(stmt, Waiting!Seen)
    BY SameClauses DEF Waiting!Suspends
  <2> QED
    BY <2>1, <2>2, <2>3, SameClauses DEF Waiting!Init, Waiting!Promise!Init
<1>2. WaitInv /\ WaitInv' /\ [Waiting!Next]_(Waiting!vars) => [Waiting!Promise!Next]_(Waiting!Promise!vars)
  <2> SUFFICES ASSUME WaitInv, WaitInv', [Waiting!Next]_(Waiting!vars)
               PROVE  Waiting!Promise!Next \/ UNCHANGED <<stmt, Waiting!Seen, ShownCycles, ShownAsleep, ShownLeft>>
    BY DEF Waiting!Promise!vars, ShownCycles, ShownAsleep, ShownLeft
  <2>1. CASE Waiting!Next
    <3>1. stmt' = stmt /\ (Waiting!Claimed' <=> Waiting!Claimed)
      BY <2>1, ClaimedKept DEF Waiting!Next, Waiting!Visit, Waiting!Update, Waiting!Tick,
                               Waiting!Again
    <3>2. CASE ~Waiting!Claimed
      BY <3>1, <3>2, UnclaimedIdle
    <3>3. CASE Waiting!Claimed
      <4>1. CASE Waiting!Visit
        BY <3>1, <3>3, <4>1, VisitRefines
      <4>2. CASE Waiting!Update
        BY <3>1, <3>3, <4>2, UpdateRefines DEF Waiting!Promise!Next
      <4>3. CASE Waiting!Tick
        BY <3>1, <3>3, <4>3, TickRefines DEF Waiting!Promise!Next
      <4>4. CASE Waiting!Again
        BY <3>1, <3>3, <4>4, AgainRefines DEF Waiting!Promise!Next
      <4> QED
        BY <2>1, <4>1, <4>2, <4>3, <4>4 DEF Waiting!Next
    <3> QED
      BY <3>2, <3>3
  <2>2. CASE UNCHANGED Waiting!vars
    <3>1. Waiting!Claimed' = Waiting!Claimed
      BY <2>2 DEF Waiting!vars, Waiting!Claimed, Waiting!Printable, Waiting!PrintsComma,
                  Waiting!Lowered, Waiting!ListEvents, Waiting!EventOf,
                  Waiting!HasCondition, Waiting!HasSensitivity
    <3>2. Waiting!Seen' = Waiting!Seen
      BY <2>2, <3>1 DEF Waiting!vars, Waiting!Seen
    <3>3. ShownAsleep' = ShownAsleep
      BY <2>2, <3>1, <3>2 DEF Waiting!vars, ShownAsleep, Waiting!Suspends,
                              Waiting!HasSensitivity, Waiting!HasCondition, Waiting!Holds
    <3> QED
      BY <2>2, <3>1, <3>2, <3>3 DEF Waiting!vars, ShownCycles, ShownLeft
  <2> QED
    BY <2>1, <2>2
<1> QED
  BY <1>1, <1>2, WaitAlways, PTL DEF Waiting!Spec, ImplementsWait, Waiting!ImplementsWait,
                                     Waiting!Promise!Spec

-----------------------------------------------------------------------------
(* The inductive invariant of the renaming: a subprogram keeps its name or *)
(* has one of its own, its calls follow, and what C++ cannot tell apart    *)
(* has two names once the later of the two scopes was visited.             *)
Alike(r, s) == Renaming!CppParams(r) = Renaming!CppParams(s)
NamesInv ==
  /\ names \in [DOMAIN subs -> [base : STRING, fresh : Nat]]
  /\ \A s \in DOMAIN subs : names[s].base = subs[s].name /\ names[s].fresh \in {0, s}
Parted(last) ==
  \A s \in 1 .. last, r \in DOMAIN subs :
    r # s /\ Alike(r, s) /\ subs[r].scope <= subs[s].scope => names[r] # names[s]
RenamingInv ==
  /\ subs \in Overloads /\ keepBit \in BOOLEAN
  /\ next \in 1 .. Len(subs) + 1
  /\ calls = names
  /\ NamesInv /\ Parted(next - 1)

LEMMA SubsType ==
  ASSUME subs \in Overloads
  PROVE  /\ Len(subs) \in Nat /\ DOMAIN subs = 1 .. Len(subs)
         /\ \A s \in DOMAIN subs :
              /\ subs[s].name \in STRING /\ subs[s].scope \in Nat
              /\ subs[s].params \in Seq(Renaming!Types)
<1> DEFINE Sub == [name : STRING, scope : Nat, params : Seq(Renaming!Types)]
<1>1. subs \in Seq(Sub)
  BY OverloadsAssumption
<1>2. \A x \in Sub : x.name \in STRING /\ x.scope \in Nat /\ x.params \in Seq(Renaming!Types)
  OBVIOUS
<1> HIDE DEF Sub
<1>3. Len(subs) \in Nat /\ DOMAIN subs = 1 .. Len(subs) /\ \A s \in DOMAIN subs : subs[s] \in Sub
  BY <1>1
<1> QED
  BY <1>2, <1>3

(* The shapes of a type. *)
LEMMA TypeShape ==
  ASSUME NEW t \in Renaming!Types
  PROVE  /\ t.kind \in {"bit", "bool", "bitvector", "signed", "unsigned", "int", "real", "string"}
         /\ t.kind \notin {"bit", "bitvector"} => t = Renaming!Plain(t.kind)
         /\ t.kind = "bit" => t = [kind |-> "bit", signed |-> FALSE, resolved |-> t.resolved]
         /\ t.resolved \in BOOLEAN
<1>1. CASE \E k \in {"bool", "signed", "unsigned", "int", "real", "string"} : t = Renaming!Plain(k)
  <2>1. PICK k \in {"bool", "signed", "unsigned", "int", "real", "string"} : t = Renaming!Plain(k)
    BY <1>1
  <2>2. t.kind = k /\ t.resolved = (k \in Renaming!Numbers)
    BY <2>1 DEF Renaming!Plain
  <2>3. (k \in Renaming!Numbers) \in BOOLEAN
    BY DEF Renaming!Numbers
  <2> QED
    BY <2>1, <2>2, <2>3
<1>2. CASE t \in [kind : {"bit"}, signed : {FALSE}, resolved : BOOLEAN]
  BY <1>2
<1>3. CASE t \in [kind : {"bitvector"}, signed : BOOLEAN, resolved : BOOLEAN]
  BY <1>3
<1> QED
  BY <1>1, <1>2, <1>3 DEF Renaming!Types

(* Types that become one type of SystemC are the same or conflict. *)
LEMMA OneTypeConflicts ==
  ASSUME keepBit \in BOOLEAN, NEW t \in Renaming!Types, NEW u \in Renaming!Types,
         Renaming!CppType(t) = Renaming!CppType(u)
  PROVE  Renaming!AreConflictingTypes(t, u) # "uncompatible"
<1>1. /\ t.kind \in {"bit", "bool", "bitvector", "signed", "unsigned", "int", "real", "string"}
      /\ t.kind \notin {"bit", "bitvector"} => t = Renaming!Plain(t.kind)
      /\ t.kind = "bit" => t = [kind |-> "bit", signed |-> FALSE, resolved |-> t.resolved]
      /\ t.resolved \in BOOLEAN
  BY TypeShape
<1>2. /\ u.kind \in {"bit", "bool", "bitvector", "signed", "unsigned", "int", "real", "string"}
      /\ u.kind \notin {"bit", "bitvector"} => u = Renaming!Plain(u.kind)
      /\ u.kind = "bit" => u = [kind |-> "bit", signed |-> FALSE, resolved |-> u.resolved]
      /\ u.resolved \in BOOLEAN
  BY TypeShape
<1>3. CASE t.kind = u.kind
  <2>1. t # u => t.kind = "bitvector"
    <3>1. ASSUME t.kind = "bit", t.resolved # u.resolved
          PROVE  FALSE
      <4>1. \A x : x.kind = "bit" /\ x.resolved \in BOOLEAN =>
              Renaming!CppType(x) = IF x.resolved THEN "logic" ELSE IF keepBit THEN "bit" ELSE "bool"
        BY DEF Renaming!CppType, Renaming!Numbers
      <4> QED
        BY <1>1, <1>2, <1>3, <3>1, <4>1
    <3>2. t.kind \notin {"bit", "bitvector"} => t = u
      BY <1>1, <1>2, <1>3
    <3>3. t.kind = "bit" => t = u
      BY <1>1, <1>2, <1>3, <3>1
    <3> QED
      BY <3>2, <3>3
  <2> QED
    BY <1>3, <2>1 DEF Renaming!AreConflictingTypes, Renaming!SameKind, Renaming!Compatible,
                      Renaming!Conflicting, Renaming!Uncompatible
<1>4. CASE t.kind # u.kind
  <2>1. \/ {t.kind, u.kind} \subseteq Renaming!Numbers
        \/ ~keepBit /\ {t.kind, u.kind} = {"bit", "bool"}
    BY <1>1, <1>2, <1>4 DEF Renaming!CppType, Renaming!Numbers
  <2> QED
    BY <1>1, <1>2, <1>4, <2>1
       DEF Renaming!AreConflictingTypes, Renaming!Numbers, Renaming!Clashing,
           Renaming!Conflicting, Renaming!Uncompatible
<1> QED
  BY <1>3, <1>4

LEMMA AlikeConflict ==
  ASSUME keepBit \in BOOLEAN, subs \in Overloads, NEW r \in DOMAIN subs, NEW s \in DOMAIN subs,
         Alike(r, s)
  PROVE  Renaming!AreSigsConflict(r, s)
<1> DEFINE p == subs[r].params
           q == subs[s].params
<1>1. p \in Seq(Renaming!Types) /\ q \in Seq(Renaming!Types)
  BY SubsType
<1>2. /\ Renaming!CppParams(r) = [i \in DOMAIN p |-> Renaming!CppType(p[i])]
      /\ Renaming!CppParams(s) = [i \in DOMAIN q |-> Renaming!CppType(q[i])]
  BY DEF Renaming!CppParams
<1>3. DOMAIN p = DOMAIN q /\ \A i \in DOMAIN p : Renaming!CppType(p[i]) = Renaming!CppType(q[i])
  BY <1>2 DEF Alike
<1>4. Len(p) = Len(q)
  BY <1>1, <1>3
<1>5. \A i \in DOMAIN p : p[i] \in Renaming!Types /\ q[i] \in Renaming!Types
  BY <1>1, <1>3
<1>6. \A i \in DOMAIN p : Renaming!AreConflictingTypes(p[i], q[i]) # "uncompatible"
  BY <1>3, <1>5, OneTypeConflicts
<1> QED
  BY <1>4, <1>6 DEF Renaming!AreSigsConflict, Renaming!Uncompatible

(* Of two that share a name and are alike, a visit of either renames one. *)
LEMMA BothChange ==
  ASSUME RenamingInv, NEW r \in DOMAIN subs, NEW s \in DOMAIN subs,
         r # s, Alike(r, s), names[r] = names[s], subs[r].scope <= subs[s].scope
  PROVE  {r, s} \subseteq Renaming!SigToChange(s)
<1>1. /\ r \in Renaming!Candidates(s) /\ s \in Renaming!Candidates(s)
      /\ r \in Nat /\ s \in Nat /\ subs \in Overloads /\ keepBit \in BOOLEAN
  BY SubsType DEF Renaming!Candidates, RenamingInv
<1>2. Alike(s, r)
  BY DEF Alike
<1>3. Renaming!AreSigsConflict(r, s) /\ Renaming!AreSigsConflict(s, r)
  BY <1>1, <1>2, AlikeConflict
<1>4. ASSUME NEW x \in Renaming!Candidates(s), NEW y \in Renaming!Candidates(s), x < y,
             Renaming!AreSigsConflict(x, y)
      PROVE  {x, y} \subseteq Renaming!SigToChange(s)
  <2> DEFINE P == {p \in Renaming!Candidates(s) \X Renaming!Candidates(s) :
                     p[1] < p[2] /\ Renaming!AreSigsConflict(p[1], p[2])}
             z == <<x, y>>
  <2>1. z \in P
    BY <1>4
  <2>2. {z[1], z[2]} \in {{p[1], p[2]} : p \in P}
    BY <2>1
  <2> QED
    BY <2>1 DEF Renaming!SigToChange
<1>5. r < s \/ s < r
  BY <1>1
<1> QED
  BY <1>1, <1>3, <1>4, <1>5

LEMMA RenamingInit == Renaming!Init => RenamingInv
<1> SUFFICES ASSUME Renaming!Init PROVE RenamingInv
  OBVIOUS
<1>1. /\ Len(subs) \in Nat /\ DOMAIN subs = 1 .. Len(subs)
      /\ \A s \in DOMAIN subs : subs[s].name \in STRING
  BY SubsType DEF Renaming!Init
<1>2. /\ names \in [DOMAIN subs -> [base : STRING, fresh : Nat]]
      /\ \A s \in DOMAIN subs : names[s].base = subs[s].name /\ names[s].fresh = 0
  BY <1>1 DEF Renaming!Init
<1> QED
  BY <1>1, <1>2 DEF Renaming!Init, RenamingInv, NamesInv, Parted

LEMMA RenamingStep == RenamingInv /\ [Renaming!Next]_(Renaming!subVars) => RenamingInv'
<1> SUFFICES ASSUME RenamingInv, [Renaming!Next]_(Renaming!subVars) PROVE RenamingInv'
  OBVIOUS
<1>1. ASSUME UNCHANGED <<subs, keepBit>>
      PROVE  \A r, s : Alike(r, s)' <=> Alike(r, s)
  BY <1>1 DEF Alike, Renaming!CppParams, Renaming!CppType
<1>2. CASE Renaming!VisitSubProgram
  <2>1. /\ next \in DOMAIN subs /\ next' = next + 1 /\ UNCHANGED <<subs, keepBit>>
        /\ Len(subs) \in Nat /\ DOMAIN subs = 1 .. Len(subs)
    BY <1>2, SubsType DEF Renaming!VisitSubProgram, RenamingInv
  <2>2. next' \in 1 .. Len(subs) + 1 /\ next' - 1 = next
    BY <2>1
  (* What a visit does to the names: some become fresh. *)
  <2>3. ASSUME NEW changed, changed \subseteq DOMAIN subs,
               names' = [s \in DOMAIN subs |-> IF s \in changed THEN Renaming!Fresh(s) ELSE names[s]],
               calls' = Renaming!CallsRenamed(changed),
               \A r \in DOMAIN subs :
                 r # next /\ Alike(r, next) /\ names[r] = names[next] /\ subs[r].scope <= subs[next].scope
                   => r \in changed \/ next \in changed
        PROVE  RenamingInv'
    <3>1. calls' = names'
      BY <2>3 DEF RenamingInv, Renaming!CallsRenamed
    <3>2. \A s \in DOMAIN subs :
            /\ Renaming!Fresh(s) = [base |-> names[s].base, fresh |-> s]
            /\ names[s] = [base |-> names[s].base, fresh |-> names[s].fresh]
            /\ names[s].base \in STRING /\ s \in Nat \ {0}
      BY <2>1 DEF Renaming!Fresh, RenamingInv, NamesInv
    <3>3. \A s \in DOMAIN subs : /\ names'[s].base = names[s].base
                                 /\ names'[s].fresh = IF s \in changed THEN s ELSE names[s].fresh
      <4> TAKE s \in DOMAIN subs
      <4>1. names'[s] = IF s \in changed THEN Renaming!Fresh(s) ELSE names[s]
        BY <2>3
      <4>2. CASE s \in changed
        <5>1. names'[s] = [base |-> names[s].base, fresh |-> s]
          BY <3>2, <4>1, <4>2
        <5> QED
          BY <4>2, <5>1
      <4>3. CASE s \notin changed
        BY <4>1, <4>3
      <4> QED
        BY <4>2, <4>3
    <3>4. names' \in [DOMAIN subs -> [base : STRING, fresh : Nat]]
      BY <2>3, <3>2 DEF RenamingInv, NamesInv
    <3>5. NamesInv'
      BY <2>1, <3>3, <3>4 DEF RenamingInv, NamesInv
    <3>6. ASSUME NEW r \in DOMAIN subs, NEW s \in DOMAIN subs, r # s, names'[r] = names'[s]
          PROVE  r \notin changed /\ s \notin changed /\ names[r] = names[s]
      <4>1. names'[r].fresh = names'[s].fresh
        BY <3>6
      <4>2. r \notin changed /\ s \notin changed
        BY <3>2, <3>3, <3>6, <4>1 DEF RenamingInv, NamesInv
      <4> QED
        BY <2>3, <3>6, <4>2
    <3>7. ASSUME NEW s \in 1 .. next, NEW r \in DOMAIN subs,
                 r # s, Alike(r, s), subs[r].scope <= subs[s].scope
          PROVE  names'[r] # names'[s]
      <4> SUFFICES ASSUME names'[r] = names'[s] PROVE FALSE
        OBVIOUS
      <4>1. s \in DOMAIN subs
        BY <2>1
      <4>2. r \notin changed /\ s \notin changed /\ names[r] = names[s]
        BY <3>6, <3>7, <4>1
      <4>3. CASE s = next
        BY <2>3, <3>7, <4>2, <4>3
      <4>4. CASE s # next
        <5>1. s \in 1 .. next - 1
          BY <2>1, <4>4
        <5> QED
          BY <3>7, <4>2, <5>1 DEF RenamingInv, Parted
      <4> QED
        BY <4>3, <4>4
    <3>8. Parted(next - 1)'
      BY <1>1, <2>1, <2>2, <3>7 DEF Parted
    <3> QED
      BY <2>1, <2>2, <3>1, <3>5, <3>8 DEF RenamingInv
  <2>4. CASE Renaming!SigToChange(next) = {}
    <3>1. names' = names /\ calls' = calls
      BY <1>2, <2>4 DEF Renaming!VisitSubProgram
    <3>2. names' = [s \in DOMAIN subs |-> IF s \in {} THEN Renaming!Fresh(s) ELSE names[s]]
      BY <3>1 DEF RenamingInv, NamesInv
    <3>3. calls' = Renaming!CallsRenamed({})
      BY <3>1, <3>2 DEF RenamingInv, Renaming!CallsRenamed
    <3>4. \A r \in DOMAIN subs :
            ~(r # next /\ Alike(r, next) /\ names[r] = names[next] /\ subs[r].scope <= subs[next].scope)
      BY <2>1, <2>4, BothChange
    <3> QED
      BY <2>3, <3>2, <3>3, <3>4
  <2>5. CASE Renaming!SigToChange(next) # {}
    <3>1. PICK kept \in Renaming!SigToChange(next) :
            Renaming!UpdateSignatures(Renaming!SigToChange(next) \ {kept})
      BY <1>2, <2>5 DEF Renaming!VisitSubProgram
    <3> DEFINE changed == Renaming!SigToChange(next) \ {kept}
    <3>2. changed \subseteq DOMAIN subs
      BY DEF Renaming!SigToChange, Renaming!Candidates
    <3>3. /\ names' = [s \in DOMAIN subs |-> IF s \in changed THEN Renaming!Fresh(s) ELSE names[s]]
          /\ calls' = Renaming!CallsRenamed(changed)
      BY <3>1 DEF Renaming!UpdateSignatures
    <3>4. ASSUME NEW r \in DOMAIN subs, r # next, Alike(r, next), names[r] = names[next],
                 subs[r].scope <= subs[next].scope
          PROVE  r \in changed \/ next \in changed
      <4>1. {r, next} \subseteq Renaming!SigToChange(next)
        BY <2>1, <3>4, BothChange
      <4> QED
        BY <3>4, <4>1
    <3> HIDE DEF changed
    <3> QED
      BY <2>3, <3>2, <3>3, <3>4
  <2> QED
    BY <2>4, <2>5
<1>3. CASE UNCHANGED Renaming!subVars
  BY <1>1, <1>3 DEF Renaming!subVars, RenamingInv, NamesInv, Parted
<1> QED
  BY <1>2, <1>3 DEF Renaming!Next

(* Every call finds the subprogram it was a call of and no other, for any  *)
(* number of overloads, parameters and scopes, and whichever keeps its     *)
(* name (PreRefine_conflictingSubPrograms.cpp:108-328).                    *)
THEOREM CallsFind == Renaming!Spec => []SameCallee
<1>1. ASSUME RenamingInv PROVE SameCallee
  <2> SUFFICES ASSUME next > Len(subs), NEW s \in DOMAIN subs
               PROVE  Renaming!Found(s) = {s}
    BY DEF SameCallee, Renaming!SameCallee
  <2>1. /\ subs \in Overloads /\ Len(subs) \in Nat /\ DOMAIN subs = 1 .. Len(subs)
        /\ next - 1 = Len(subs) /\ calls = names
    BY <1>1, SubsType DEF RenamingInv
  <2>2. s \in Renaming!Found(s)
    BY <2>1 DEF Renaming!Found
  <2>3. ASSUME NEW r \in DOMAIN subs, r # s, names[r] = names[s], Alike(r, s)
        PROVE  FALSE
    <3>1. subs[r].scope \in Nat /\ subs[s].scope \in Nat
      BY <2>1, SubsType
    <3>2. subs[r].scope <= subs[s].scope \/ subs[s].scope <= subs[r].scope
      BY <3>1
    <3>3. Alike(s, r)
      BY <2>3 DEF Alike
    <3> QED
      BY <1>1, <2>1, <2>3, <3>2, <3>3 DEF RenamingInv, Parted
  <2> QED
    BY <2>1, <2>2, <2>3 DEF Renaming!Found, Alike
<1> QED
  BY <1>1, RenamingInit, RenamingStep, PTL DEF Renaming!Spec

-----------------------------------------------------------------------------
(* Names and out ports of VHDL. *)

(* The names of the source and the ones VHDL allows, the out ports, and    *)
(* the signals that were made: the k-th, of the port that the k-th copy is *)
(* to.                                                                     *)
SourceName(d) == entity.decls[d].name
NewName(d) == Porting!AnalyzeString(SourceName(d))
Declared == Len(entity.decls)
Referred == Len(entity.refs)
OutPorts == {d \in DOMAIN entity.decls : entity.decls[d].kind = "out"}
Made == Len(decls) - Declared
PortOf(k) == refs[Referred + 2 * k - 1].to

Declarations == [name : Porting!Name, kind : {"in", "out", "inout", "signal"}]
References ==
  [name : Porting!Name, to : Nat, use : {"target", "actual", "read", "in_actual", "copy"}]
PortTypes ==
  /\ decls \in Seq(Declarations) /\ refs \in Seq(References)
  /\ visits \subseteq ({"decl"} \X DOMAIN entity.decls) \cup ({"ref"} \X DOMAIN entity.refs)
  /\ ports \subseteq OutPorts
  /\ Made \in Nat /\ Len(refs) = Referred + 2 * Made
  /\ visits # {} => Made = 0 /\ ports = OutPorts

(* A declaration has its old name until it is visited.                     *)
DeclsKept ==
  \A d \in DOMAIN entity.decls :
    decls[d] = [name |-> IF <<"decl", d>> \in visits THEN SourceName(d) ELSE NewName(d),
                kind |-> entity.decls[d].kind]

(* What a reference of the source is to: its object, under the old name if *)
(* neither was visited; or the signal made for it.                         *)
Called(r, p, given) ==
  \/ given = NewName(p)
  \/ given = SourceName(p) /\ <<"decl", p>> \in visits /\ <<"ref", r>> \in visits
ToObject(r, p) ==
  refs[r].to = p /\ (\A k \in 1 .. Made : PortOf(k) # p) /\ Called(r, p, refs[r].name)
ToSignal(r, p) ==
  \E k \in 1 .. Made :
    PortOf(k) = p /\ refs[r].to = Declared + k /\ refs[r].name = Porting!SignalName(NewName(p))
RefsKept ==
  \A r \in DOMAIN entity.refs :
    /\ refs[r].use = entity.refs[r].use
    /\ ToObject(r, entity.refs[r].to) \/ ToSignal(r, entity.refs[r].to)

(* Each signal has one port, of its own, which is assigned a copy of it.   *)
SignalsMade ==
  /\ \A k \in 1 .. Made :
       /\ PortOf(k) \in OutPorts \ ports
       /\ decls[Declared + k] = [name |-> Porting!SignalName(NewName(PortOf(k))), kind |-> "signal"]
       /\ refs[Referred + 2 * k - 1] = [name |-> NewName(PortOf(k)), to |-> PortOf(k), use |-> "target"]
       /\ refs[Referred + 2 * k] =
            [name |-> Porting!SignalName(NewName(PortOf(k))), to |-> Declared + k, use |-> "copy"]
  /\ \A k, k2 \in 1 .. Made : PortOf(k) = PortOf(k2) => k = k2

(* A port that was visited and has no signal is not read.                  *)
ReadsMoved ==
  \A p \in OutPorts \ ports :
    \/ \E k \in 1 .. Made : PortOf(k) = p
    \/ \A r \in DOMAIN entity.refs :
         entity.refs[r].to = p => entity.refs[r].use \notin {"read", "in_actual"}

PortInv ==
  entity \in Entities /\ PortTypes /\ DeclsKept /\ RefsKept /\ SignalsMade /\ ReadsMoved
-----------------------------------------------------------------------------
(* Every set of numbers that is not empty has a least one. *)
LEMMA Least ==
  ASSUME NEW S \in SUBSET Nat, S # {}
  PROVE  \E i \in S : \A j \in S : i <= j
<1> DEFINE R == OpToRel(<, Nat)
<1>1. \A i, j \in Nat : j < i => <<j, i>> \in R
  BY DEF OpToRel
<1>2. IsWellFoundedOn(R, Nat)
  BY NatLessThanWellFounded
<1> HIDE DEF R
<1>3. PICK i \in S : \A j \in S : ~(<<j, i>> \in R)
  BY <1>2, WFMin
<1>4. ASSUME NEW j \in S PROVE i <= j
  <2>1. i \in Nat /\ j \in Nat /\ ~(<<j, i>> \in R)
    BY <1>3
  <2>2. ~(j < i)
    BY <1>1, <2>1
  <2> QED
    BY <2>1, <2>2
<1> QED
  BY <1>4

(* The partial results of joining the sequences of s. *)
Joins(s, f) ==
  /\ 1 \in DOMAIN s => f[1] = s[1]
  /\ \A i \in DOMAIN s \ {1} : f[i] = f[i - 1] \o s[i]

LEMMA JoinsExist ==
  ASSUME NEW s, NEW n1 \in Nat, DOMAIN s = 1 .. n1
  PROVE  \E f : DOMAIN f = 1 .. n1 /\ Joins(s, f)
<1> DEFINE Upto(m, f) == /\ DOMAIN f = 1 .. m /\ (1 \in 1 .. m => f[1] = s[1])
                         /\ \A i \in (1 .. m) \ {1} : f[i] = f[i - 1] \o s[i]
           Bad == {m \in 0 .. n1 : ~\E f : Upto(m, f)}
<1> HIDE DEF Upto
<1>1. Bad = {}
  <2> SUFFICES ASSUME Bad # {} PROVE FALSE
    OBVIOUS
  <2>1. Bad \in SUBSET Nat
    OBVIOUS
  <2>2. PICK m \in Bad : \A j \in Bad : m <= j
    BY <2>1, Least
  <2>3. CASE m = 0
    <3>1. Upto(0, [i \in 1 .. 0 |-> s[i]])
      BY DEF Upto
    <3> QED
      BY <2>2, <2>3, <3>1
  <2>4. CASE m # 0
    <3>1. m - 1 \in 0 .. n1 /\ m - 1 \notin Bad
      BY <2>2, <2>4
    <3>2. PICK g : Upto(m - 1, g)
      BY <3>1
    <3> DEFINE f == [i \in 1 .. m |-> IF i # m THEN g[i] ELSE IF i = 1 THEN s[1] ELSE g[i - 1] \o s[i]]
    <3>3. DOMAIN f = 1 .. m /\ (1 \in 1 .. m => f[1] = s[1])
      BY <3>2, <2>2 DEF Upto
    <3>4. ASSUME NEW i \in (1 .. m) \ {1} PROVE f[i] = f[i - 1] \o s[i]
      <4>1. i - 1 \in 1 .. m - 1 /\ i - 1 # m /\ i - 1 \in 1 .. m
        BY <2>2
      <4>2. f[i - 1] = g[i - 1]
        BY <4>1
      <4>3. CASE i = m
        BY <4>2, <4>3
      <4>4. CASE i # m
        <5>1. i \in (1 .. m - 1) \ {1}
          BY <4>4, <2>2
        <5>2. g[i] = g[i - 1] \o s[i]
          BY <3>2, <5>1 DEF Upto
        <5> QED
          BY <4>2, <4>4, <5>2
      <4> QED
        BY <4>3, <4>4
    <3> HIDE DEF f
    <3>5. Upto(m, f)
      BY <3>3, <3>4 DEF Upto
    <3> QED
      BY <2>2, <3>5
  <2> QED
    BY <2>3, <2>4
<1>2. n1 \in 0 .. n1 /\ n1 \notin Bad
  <2> HIDE DEF Bad
  <2> QED
    BY <1>1
<1>3. PICK f : Upto(n1, f)
  BY <1>2
<1> QED
  BY <1>3 DEF Joins, Upto

LEMMA FlattenJoins ==
  ASSUME NEW s, NEW n1 \in Nat, n1 # 0, DOMAIN s = 1 .. n1, Len(s) = n1
  PROVE  \E f : DOMAIN f = 1 .. n1 /\ Joins(s, f) /\ Porting!FlattenSeq(s) = f[n1]
<1>1. PICK g : DOMAIN g = 1 .. n1 /\ Joins(s, g)
  BY JoinsExist
<1> DEFINE h == [i \in 1 .. n1 |-> g[i]]
           Rec(f) == f = [i \in 1 .. n1 |-> IF i = 1 THEN s[i] ELSE f[i - 1] \o s[i]]
           c == CHOOSE f : Rec(f)
<1>2. Rec(h)
  <2>1. ASSUME NEW i \in 1 .. n1 PROVE h[i] = IF i = 1 THEN s[i] ELSE h[i - 1] \o s[i]
    <3>1. CASE i = 1
      BY <1>1, <3>1 DEF Joins
    <3>2. CASE i # 1
      <4>1. i - 1 \in 1 .. n1
        BY <3>2
      <4> QED
        BY <1>1, <3>2, <4>1 DEF Joins
    <3> QED
      BY <3>1, <3>2
  <2> QED
    BY <2>1
<1>3. Rec(c)
  <2> HIDE DEF h, Rec
  <2> QED
    BY <1>2
<1>4. Porting!FlattenSeq(s) = c[n1]
  BY DEF Porting!FlattenSeq
<1> HIDE DEF h, c
<1>5. DOMAIN c = 1 .. n1
  BY <1>3
<1>6. \A i \in 1 .. n1 : c[i] = IF i = 1 THEN s[i] ELSE c[i - 1] \o s[i]
  BY <1>3
<1> HIDE DEF Rec
<1>7. Joins(s, c)
  BY <1>6 DEF Joins
<1> QED
  BY <1>4, <1>5, <1>7

NameChars == {Porting!Underscore, "id", "sig"} \cup Segments

(* What a name becomes at its i-th character. *)
Piece(n1, i) == IF Porting!InPair(n1, i) THEN <<n1[i]>> \o Porting!Id ELSE <<n1[i]>>
NoPair(n1) == \A i \in 1 .. Len(n1) : ~Porting!InPair(n1, i)

LEMMA UnderscoreApart == Porting!Underscore # "id" /\ Porting!Underscore # "sig"
BY Zenon DEF Porting!Underscore

LEMMA NameElements ==
  ASSUME NEW n1 \in Porting!Name
  PROVE  /\ n1 \in Seq(NameChars) /\ Len(n1) \in Nat \ {0} /\ DOMAIN n1 = 1 .. Len(n1)
         /\ Head(n1) = n1[1] /\ \A i \in 1 .. Len(n1) : n1[i] \in NameChars
BY EmptySeq DEF Porting!Name, NameChars

LEMMA Concatenated ==
  ASSUME NEW n1 \in Porting!Name, NEW n2 \in Porting!Name
  PROVE  /\ n1 \o n2 \in Porting!Name /\ Len(n1 \o n2) = Len(n1) + Len(n2)
         /\ \A i \in 1 .. Len(n1) : (n1 \o n2)[i] = n1[i]
         /\ \A i \in 1 .. Len(n2) : (n1 \o n2)[Len(n1) + i] = n2[i]
<1>1. n1 \o n2 \in Seq(NameChars) /\ Len(n1 \o n2) = Len(n1) + Len(n2) /\ Len(n1 \o n2) # 0
  BY NameElements, ConcatProperties
<1>2. \A i \in 1 .. Len(n2) : Len(n1) + i \in 1 .. Len(n1) + Len(n2) /\ ~(Len(n1) + i <= Len(n1))
                              /\ Len(n1) + i - Len(n1) = i
  BY NameElements
<1>3. \A i \in 1 .. Len(n1) : i \in 1 .. Len(n1) + Len(n2) /\ i <= Len(n1)
  BY NameElements
<1>4. /\ \A i \in 1 .. Len(n1) : (n1 \o n2)[i] = n1[i]
      /\ \A i \in 1 .. Len(n2) : (n1 \o n2)[Len(n1) + i] = n2[i]
  BY <1>2, <1>3, NameElements, ConcatProperties
<1>5. n1 \o n2 # <<>>
  BY <1>1
<1> QED
  BY <1>1, <1>4, <1>5 DEF Porting!Name, NameChars

(* Pairs of underscores arise nowhere if not where two names meet. *)
LEMMA PairsJoined ==
  ASSUME NEW n1 \in Porting!Name, NEW n2 \in Porting!Name, NoPair(n1), NoPair(n2),
         ~(n1[Len(n1)] = Porting!Underscore /\ n2[1] = Porting!Underscore)
  PROVE  NoPair(n1 \o n2)
<1> DEFINE g == n1 \o n2
           l1 == Len(n1)
           l2 == Len(n2)
<1>1. /\ l1 \in Nat \ {0} /\ l2 \in Nat \ {0} /\ Len(g) = l1 + l2
      /\ \A j \in 1 .. l1 : g[j] = n1[j]
      /\ \A j \in 1 .. l2 : g[l1 + j] = n2[j]
  BY Concatenated, NameElements
<1>2. /\ \A j \in 1 .. l1 : ~(j < l1 /\ n1[j] = Porting!Underscore /\ n1[j + 1] = Porting!Underscore)
      /\ \A j \in 1 .. l2 : ~(j < l2 /\ n2[j] = Porting!Underscore /\ n2[j + 1] = Porting!Underscore)
      /\ ~(n1[l1] = Porting!Underscore /\ n2[1] = Porting!Underscore)
  BY DEF NoPair, Porting!InPair
<1> HIDE DEF g, l1, l2
<1>3. ASSUME NEW i \in 1 .. l1 + l2, i < l1 + l2, g[i] = Porting!Underscore, g[i + 1] = Porting!Underscore PROVE FALSE
  <2>1. i \in Nat /\ 1 <= i
    BY <1>1, <1>3
  <2>2. CASE i < l1
    <3>1. i \in 1 .. l1 /\ i + 1 \in 1 .. l1
      BY <1>1, <2>1, <2>2
    <3> QED
      BY <1>1, <1>2, <1>3, <2>2, <3>1
  <2>3. CASE i = l1
    <3>1. i \in 1 .. l1 /\ 1 \in 1 .. l2
      BY <1>1, <2>3
    <3> QED
      BY <1>1, <1>2, <1>3, <2>3, <3>1
  <2>4. CASE i > l1
    <3> DEFINE j == i - l1
    <3>1. j \in 1 .. l2 /\ j + 1 \in 1 .. l2 /\ i = l1 + j /\ i + 1 = l1 + (j + 1) /\ j < l2
      BY <1>1, <1>3, <2>1, <2>4
    <3> HIDE DEF j
    <3>2. g[l1 + j] = n2[j] /\ g[l1 + (j + 1)] = n2[j + 1]
      BY <1>1, <3>1
    <3> QED
      BY <1>2, <1>3, <3>1, <3>2
  <2> QED
    BY <1>1, <2>1, <2>2, <2>3, <2>4
<1> QED
  BY <1>1, <1>3 DEF NoPair, Porting!InPair, g

LEMMA OneElement ==
  ASSUME NEW x \in NameChars
  PROVE  <<x>> \in Porting!Name /\ Len(<<x>>) = 1 /\ <<x>>[1] = x /\ NoPair(<<x>>)
<1>1. <<x>> \in Porting!Name /\ Len(<<x>>) = 1 /\ <<x>>[1] = x
  BY DEF Porting!Name, NameChars
<1> QED
  BY <1>1 DEF NoPair, Porting!InPair

LEMMA PieceShape ==
  ASSUME NEW n1 \in Porting!Name, NEW i \in 1 .. Len(n1)
  PROVE  /\ Piece(n1, i) \in Porting!Name /\ NoPair(Piece(n1, i)) /\ Piece(n1, i)[1] = n1[i]
         /\ Piece(n1, i)[Len(Piece(n1, i))] = IF Porting!InPair(n1, i) THEN "id" ELSE n1[i]
<1> DEFINE x == n1[i]
           u == <<x>>
           v == <<"id">>
<1>1. x \in NameChars /\ "id" \in NameChars
  BY NameElements DEF NameChars
<1> HIDE DEF x
<1>2. /\ u \in Porting!Name /\ Len(u) = 1 /\ u[1] = x /\ NoPair(u)
      /\ v \in Porting!Name /\ Len(v) = 1 /\ v[1] = "id" /\ NoPair(v)
  BY <1>1, OneElement
<1> HIDE DEF u, v
<1>3. CASE Porting!InPair(n1, i)
  <2>1. Piece(n1, i) = u \o v
    BY <1>3 DEF Piece, Porting!Id, u, v, x
  <2>2. u \o v \in Porting!Name /\ Len(u \o v) = 2 /\ (u \o v)[1] = x /\ (u \o v)[2] = "id"
    <3>1. 1 \in 1 .. Len(u) /\ 1 \in 1 .. Len(v) /\ Len(u) + 1 = 2 /\ Len(u) + Len(v) = 2
      BY <1>2
    <3>2. u \in Porting!Name /\ v \in Porting!Name
      BY <1>2
    <3>3. /\ u \o v \in Porting!Name /\ Len(u \o v) = Len(u) + Len(v)
          /\ (u \o v)[1] = u[1] /\ (u \o v)[Len(u) + 1] = v[1]
      BY ONLY <3>1, <3>2, Concatenated
    <3> QED
      BY <1>2, <3>1, <3>3
  <2>3. NoPair(u \o v)
    BY <1>2, UnderscoreApart, PairsJoined
  <2> QED
    BY <1>3, <2>1, <2>2, <2>3 DEF x
<1>4. CASE ~Porting!InPair(n1, i)
  <2>1. Piece(n1, i) = u
    BY <1>4 DEF Piece, u, x
  <2> QED
    BY <1>2, <1>4, <2>1 DEF x
<1> QED
  BY <1>3, <1>4

(* Equal sequences have equal elements, and the other way round. *)
LEMMA SameElements ==
  ASSUME NEW n1 \in Porting!Name, NEW n2 \in Porting!Name, Len(n1) = Len(n2),
         \A i \in 1 .. Len(n1) : n1[i] = n2[i]
  PROVE  n1 = n2
<1>1. n1 \in Seq(NameChars) /\ n2 \in Seq(NameChars)
  BY DEF Porting!Name, NameChars
<1>2. \A s \in Seq(NameChars) : s = [i \in 1 .. Len(s) |-> s[i]]
  OBVIOUS
<1> QED
  BY <1>1, <1>2

LEMMA DoublesReplaced ==
  ASSUME NEW n1 \in Porting!Name
  PROVE  /\ Porting!ReplaceDoubleUnderscore(n1) \in Porting!Name
         /\ NoPair(Porting!ReplaceDoubleUnderscore(n1))
         /\ Porting!ReplaceDoubleUnderscore(n1)[1] = n1[1]
         /\ NoPair(n1) => Porting!ReplaceDoubleUnderscore(n1) = n1
<1> DEFINE s == [i \in DOMAIN n1 |-> Piece(n1, i)]
           m == Len(n1)
<1>1. m \in Nat \ {0} /\ DOMAIN n1 = 1 .. m
  BY NameElements
<1>2. /\ DOMAIN s = 1 .. m /\ Len(s) = m /\ \A i \in 1 .. m : s[i] = Piece(n1, i)
  <2>1. \A i \in 1 .. m : Piece(n1, i) \in Porting!Name
    BY PieceShape
  <2>2. s \in [1 .. m -> Porting!Name]
    BY <1>1, <2>1
  <2> HIDE DEF m
  <2>3. s \in Seq(Porting!Name) /\ Len(s) = m
    BY <1>1, <2>2
  <2> QED
    BY <1>1, <2>3
<1>3. Porting!ReplaceDoubleUnderscore(n1) = Porting!FlattenSeq(s)
  BY DEF Porting!ReplaceDoubleUnderscore, Piece
<1> HIDE DEF s, m
<1>4. PICK f : DOMAIN f = 1 .. m /\ Joins(s, f) /\ Porting!FlattenSeq(s) = f[m]
  BY <1>1, <1>2, FlattenJoins
<1>5. /\ f[1] = Piece(n1, 1)
      /\ \A i \in 2 .. m : f[i] = f[i - 1] \o Piece(n1, i)
  <2>1. 1 \in 1 .. m /\ \A i \in 2 .. m : i \in (1 .. m) \ {1}
    BY <1>1
  <2> QED
    BY <1>2, <1>4, <2>1 DEF Joins
<1> DEFINE Ends(i) == f[i][Len(f[i])] = IF Porting!InPair(n1, i) THEN "id" ELSE n1[i]
           Same(i) == NoPair(n1) => Len(f[i]) = i /\ \A j \in 1 .. i : f[i][j] = n1[j]
           Good(i) == f[i] \in Porting!Name /\ NoPair(f[i]) /\ f[i][1] = n1[1] /\ Ends(i) /\ Same(i)
<1>6. Good(1)
  <2>1. 1 \in 1 .. m
    BY <1>1
  <2>2. f[1] \in Porting!Name /\ NoPair(f[1]) /\ f[1][1] = n1[1] /\ Ends(1)
    BY <1>5, <2>1, PieceShape DEF m
  <2>3. Same(1)
    <3> SUFFICES ASSUME NoPair(n1) PROVE Len(f[1]) = 1 /\ \A j \in 1 .. 1 : f[1][j] = n1[j]
      OBVIOUS
    <3>1. f[1] = <<n1[1]>>
      BY <1>5, <2>1 DEF NoPair, Piece, m
    <3> QED
      BY <3>1
  <2> QED
    BY <2>2, <2>3
<1>7. ASSUME NEW i \in 2 .. m, Good(i - 1) PROVE Good(i)
  <2>1. i \in 1 .. m /\ i - 1 \in 1 .. m /\ i - 1 < m /\ (i - 1) + 1 = i
    BY <1>1
  <2> DEFINE a == f[i - 1]
             b == Piece(n1, i)
  <2>2. /\ b \in Porting!Name /\ NoPair(b) /\ b[1] = n1[i]
        /\ b[Len(b)] = IF Porting!InPair(n1, i) THEN "id" ELSE n1[i]
    BY <2>1, PieceShape DEF m
  <2>3. a \in Porting!Name /\ NoPair(a) /\ f[i] = a \o b
    BY <1>5, <1>7
  <2>4. ~(a[Len(a)] = Porting!Underscore /\ b[1] = Porting!Underscore)
    <3>1. CASE Porting!InPair(n1, i - 1)
      BY <1>7, <3>1, UnderscoreApart
    <3>2. CASE ~Porting!InPair(n1, i - 1)
      <4>1. ~(n1[i - 1] = Porting!Underscore /\ n1[i] = Porting!Underscore)
        BY <2>1, <3>2 DEF Porting!InPair, m
      <4> QED
        BY <1>7, <2>2, <3>2, <4>1
    <3> QED
      BY <3>1, <3>2
  <2>5. NoPair(f[i])
    BY <2>2, <2>3, <2>4, PairsJoined
  <2>6. /\ a \o b \in Porting!Name /\ Len(a \o b) = Len(a) + Len(b)
        /\ \A j \in 1 .. Len(a) : (a \o b)[j] = a[j]
        /\ \A j \in 1 .. Len(b) : (a \o b)[Len(a) + j] = b[j]
        /\ Len(a) \in Nat \ {0} /\ Len(b) \in Nat \ {0}
    BY <2>2, <2>3, Concatenated, NameElements
  <2>7. f[i][1] = n1[1] /\ Ends(i)
    <3>1. 1 \in 1 .. Len(a) /\ Len(b) \in 1 .. Len(b)
      BY <2>6
    <3> QED
      BY <1>7, <2>2, <2>3, <2>6, <3>1
  <2>8. Same(i)
    <3> SUFFICES ASSUME NoPair(n1) PROVE Len(f[i]) = i /\ \A j \in 1 .. i : f[i][j] = n1[j]
      OBVIOUS
    <3>1. Len(a) = i - 1 /\ \A j \in 1 .. i - 1 : a[j] = n1[j]
      BY <1>7
    <3>2. b = <<n1[i]>>
      BY <2>1 DEF NoPair, Piece, m
    <3>3. Len(b) = 1 /\ 1 \in 1 .. Len(b)
      BY <3>2
    <3> HIDE DEF a, b
    <3>4. Len(f[i]) = i
      BY <2>1, <2>3, <2>6, <3>1, <3>3
    <3>5. ASSUME NEW j \in 1 .. i PROVE f[i][j] = n1[j]
      <4>1. CASE j = i
        <5>1. Len(a) + 1 = i
          BY <2>1, <3>1
        <5> QED
          BY <2>2, <2>3, <2>6, <3>3, <4>1, <5>1
      <4>2. CASE j # i
        <5>1. j \in 1 .. i - 1
          BY <2>1, <4>2
        <5> QED
          BY <2>3, <2>6, <3>1, <5>1
      <4> QED
        BY <4>1, <4>2
    <3> QED
      BY <3>4, <3>5
  <2> QED
    BY <2>3, <2>5, <2>6, <2>7, <2>8
<1> HIDE DEF Good
<1>8. Good(m)
  <2> DEFINE Bad == {i \in 1 .. m : ~Good(i)}
  <2>1. Bad = {}
    <3> SUFFICES ASSUME Bad # {} PROVE FALSE
      OBVIOUS
    <3>1. Bad \in SUBSET Nat
      OBVIOUS
    <3>2. PICK i \in Bad : \A j \in Bad : i <= j
      BY <3>1, Least
    <3>3. CASE i = 1
      BY <1>6, <3>2, <3>3
    <3>4. CASE i # 1
      <4>1. i \in 2 .. m /\ i - 1 \in 1 .. m /\ i - 1 \notin Bad
        BY <1>1, <3>2, <3>4
      <4>2. Good(i - 1)
        BY <4>1
      <4> QED
        BY <1>7, <3>2, <4>1, <4>2
    <3> QED
      BY <3>3, <3>4
  <2>2. m \in 1 .. m
    BY <1>1
  <2>3. m \notin Bad
    <3> HIDE DEF Bad
    <3> QED
      BY <2>1
  <2> QED
    BY <2>2, <2>3
<1>9. NoPair(n1) => f[m] = n1
  <2> SUFFICES ASSUME NoPair(n1) PROVE f[m] = n1
    OBVIOUS
  <2>1. f[m] \in Porting!Name /\ Len(f[m]) = m /\ \A j \in 1 .. m : f[m][j] = n1[j]
    BY <1>8 DEF Good
  <2> QED
    BY <2>1, SameElements DEF m
<1> QED
  BY <1>3, <1>4, <1>8, <1>9 DEF Good

(* Every name is made one VHDL allows, and one it allows is left alone. *)
LEMMA Analyzed ==
  ASSUME NEW n1 \in Porting!Name
  PROVE  /\ Porting!AnalyzeString(n1) \in Porting!Name /\ Porting!Legal(Porting!AnalyzeString(n1))
         /\ Porting!Legal(n1) => Porting!AnalyzeString(n1) = n1
<1> DEFINE h == Porting!ReplaceFirstUnderscore(n1)
           a == Porting!ReplaceDoubleUnderscore(h)
<1>1. h \in Porting!Name /\ h[1] # Porting!Underscore /\ (n1[1] # Porting!Underscore => h = n1)
  <2>1. Head(n1) = n1[1]
    BY NameElements
  <2>2. CASE n1[1] = Porting!Underscore
    <3> DEFINE u == <<"id">>
    <3>1. u \in Porting!Name /\ Len(u) = 1 /\ u[1] = "id"
      BY OneElement DEF NameChars
    <3>2. h = u \o n1
      BY <2>1, <2>2 DEF Porting!ReplaceFirstUnderscore, Porting!Id
    <3> HIDE DEF u, h
    <3>3. u \o n1 \in Porting!Name /\ (u \o n1)[1] = u[1]
      BY <3>1, Concatenated
    <3> QED
      BY <2>2, <3>1, <3>2, <3>3, UnderscoreApart
  <2>3. CASE n1[1] # Porting!Underscore
    BY <2>1, <2>3 DEF Porting!ReplaceFirstUnderscore
  <2> QED
    BY <2>2, <2>3
<1> HIDE DEF h
<1>2. a \in Porting!Name /\ NoPair(a) /\ a[1] = h[1] /\ (NoPair(h) => a = h)
  BY <1>1, DoublesReplaced
<1>3. Porting!AnalyzeString(n1) = a
  BY DEF Porting!AnalyzeString, h
<1> HIDE DEF a
<1>4. Porting!Legal(a)
  BY <1>1, <1>2, NameElements DEF Porting!Legal, NoPair
<1>5. ASSUME Porting!Legal(n1) PROVE a = n1
  BY <1>1, <1>2, <1>5, NameElements DEF Porting!Legal, NoPair
<1> QED
  BY <1>2, <1>3, <1>4, <1>5

LEMMA SignalNames ==
  ASSUME NEW n1 \in Porting!Name, Porting!Legal(n1)
  PROVE  /\ Porting!SignalName(n1) \in Porting!Name /\ Porting!Legal(Porting!SignalName(n1))
         /\ \A n2 \in Porting!Name : Porting!SignalName(n1) = Porting!SignalName(n2) => n1 = n2
<1> DEFINE u == <<"sig", Porting!Underscore>>
<1>1. u \in Porting!Name /\ Len(u) = 2 /\ u[1] = "sig" /\ u[2] = Porting!Underscore
  BY DEF Porting!Name
<1>2. NoPair(u)
  <2>1. ASSUME NEW i \in 1 .. 2 PROVE ~Porting!InPair(u, i)
    <3>1. i = 1 \/ i = 2
      OBVIOUS
    <3> HIDE DEF u
    <3> QED
      BY <1>1, <3>1, UnderscoreApart DEF Porting!InPair
  <2> QED
    BY <1>1, <2>1 DEF NoPair
<1>3. \A n2 \in Porting!Name : Porting!SignalName(n2) = u \o n2
  BY DEF Porting!SignalName
<1> HIDE DEF u
<1>4. n1[1] # Porting!Underscore /\ NoPair(n1)
  BY NameElements DEF Porting!Legal, NoPair
<1>5. u \o n1 \in Porting!Name /\ (u \o n1)[1] = "sig"
  <2>1. 1 \in 1 .. Len(u)
    BY <1>1
  <2> QED
    BY <1>1, <2>1, Concatenated
<1>6. NoPair(u \o n1)
  BY <1>1, <1>2, <1>4, PairsJoined
<1>7. Porting!Legal(u \o n1)
  BY <1>5, <1>6, NameElements, UnderscoreApart DEF Porting!Legal, NoPair
<1>8. ASSUME NEW n2 \in Porting!Name, u \o n1 = u \o n2 PROVE n1 = n2
  <2>1. /\ Len(u \o n1) = 2 + Len(n1) /\ Len(u \o n2) = 2 + Len(n2)
        /\ \A i \in 1 .. Len(n1) : (u \o n1)[2 + i] = n1[i]
        /\ \A i \in 1 .. Len(n2) : (u \o n2)[2 + i] = n2[i]
        /\ Len(n1) \in Nat /\ Len(n2) \in Nat
    <3>1. Len(n1) \in Nat /\ Len(n2) \in Nat
      BY NameElements
    <3>2. Len(u \o n1) = Len(u) + Len(n1) /\ \A i \in 1 .. Len(n1) : (u \o n1)[Len(u) + i] = n1[i]
      BY <1>1, Concatenated
    <3>3. Len(u \o n2) = Len(u) + Len(n2) /\ \A i \in 1 .. Len(n2) : (u \o n2)[Len(u) + i] = n2[i]
      BY <1>1, Concatenated
    <3> QED
      BY <1>1, <3>1, <3>2, <3>3
  <2>2. Len(n1) = Len(n2)
    BY <1>8, <2>1
  <2>3. \A i \in 1 .. Len(n1) : n1[i] = n2[i]
    BY <1>8, <2>1, <2>2
  <2> QED
    BY <2>2, <2>3, SameElements
<1> QED
  BY <1>3, <1>5, <1>7, <1>8

-----------------------------------------------------------------------------
LEMMA EntityShape ==
  ASSUME \A e \in Entities : Porting!WellFormed(e), entity \in Entities
  PROVE  /\ Declared \in Nat /\ DOMAIN entity.decls = 1 .. Declared
         /\ Referred \in Nat /\ DOMAIN entity.refs = 1 .. Referred
         /\ \A d \in 1 .. Declared :
              /\ entity.decls[d] \in Declarations /\ SourceName(d) \in Porting!Name
              /\ entity.decls[d] = [name |-> SourceName(d), kind |-> entity.decls[d].kind]
              /\ entity.decls[d].kind \in {"in", "out", "inout", "signal"}
         /\ \A r \in 1 .. Referred :
              /\ entity.refs[r].to \in 1 .. Declared
              /\ entity.refs[r].use \in {"target", "actual", "read", "in_actual"}
<1>1. /\ entity.decls \in Seq(Declarations)
      /\ entity.refs \in Seq([to : DOMAIN entity.decls, use : {"target", "actual", "read", "in_actual"}])
  BY DEF Porting!WellFormed, Declarations
<1>2. Declared \in Nat /\ DOMAIN entity.decls = 1 .. Declared
      /\ \A d \in 1 .. Declared : entity.decls[d] \in Declarations
  BY <1>1 DEF Declared
<1>3. Referred \in Nat /\ DOMAIN entity.refs = 1 .. Referred
      /\ \A r \in 1 .. Referred :
           entity.refs[r] \in [to : DOMAIN entity.decls, use : {"target", "actual", "read", "in_actual"}]
  <2> DEFINE U == [to : DOMAIN entity.decls, use : {"target", "actual", "read", "in_actual"}]
  <2>1. entity.refs \in Seq(U)
    BY <1>1
  <2> HIDE DEF U
  <2>2. /\ Len(entity.refs) \in Nat /\ DOMAIN entity.refs = 1 .. Len(entity.refs)
        /\ \A r \in 1 .. Len(entity.refs) : entity.refs[r] \in U
    BY <2>1
  <2> QED
    BY <2>2 DEF Referred, U
<1> QED
  BY <1>2, <1>3 DEF Declarations, SourceName

LEMMA NewNames ==
  ASSUME \A e \in Entities : Porting!WellFormed(e), entity \in Entities, NEW d \in 1 .. Declared
  PROVE  /\ NewName(d) \in Porting!Name /\ Porting!Legal(NewName(d))
         /\ Porting!AnalyzeString(NewName(d)) = NewName(d)
         /\ Porting!AnalyzeString(SourceName(d)) = NewName(d)
         /\ Porting!SignalName(NewName(d)) \in Porting!Name
         /\ Porting!Legal(Porting!SignalName(NewName(d)))
         /\ \A d2 \in 1 .. Declared :
              /\ NewName(d) = NewName(d2) => d = d2
              /\ NewName(d) # Porting!SignalName(NewName(d2))
              /\ Porting!SignalName(NewName(d)) = Porting!SignalName(NewName(d2)) => d = d2
<1>1. SourceName(d) \in Porting!Name /\ DOMAIN entity.decls = 1 .. Declared
  BY EntityShape
<1>2. /\ NewName(d) \in Porting!Name /\ Porting!Legal(NewName(d))
      /\ Porting!AnalyzeString(SourceName(d)) = NewName(d)
  BY <1>1, Analyzed DEF NewName
<1>3. /\ Porting!AnalyzeString(NewName(d)) = NewName(d)
      /\ Porting!SignalName(NewName(d)) \in Porting!Name
      /\ Porting!Legal(Porting!SignalName(NewName(d)))
  BY <1>2, Analyzed, SignalNames
<1>4. ASSUME NEW d2 \in 1 .. Declared
      PROVE  /\ NewName(d) = NewName(d2) => d = d2
             /\ NewName(d) # Porting!SignalName(NewName(d2))
             /\ Porting!SignalName(NewName(d)) = Porting!SignalName(NewName(d2)) => d = d2
  <2>1. (NewName(d) = NewName(d2) => d = d2) /\ NewName(d) # Porting!SignalName(NewName(d2))
    BY <1>1 DEF Porting!WellFormed, NewName, SourceName
  <2>2. NewName(d2) \in Porting!Name
    BY EntityShape, Analyzed DEF NewName
  <2>3. Porting!SignalName(NewName(d)) = Porting!SignalName(NewName(d2)) => NewName(d) = NewName(d2)
    BY <1>2, <2>2, SignalNames
  <2> QED
    BY <2>1, <2>3
<1> QED
  BY <1>2, <1>3, <1>4

LEMMA PortsInit ==
  ASSUME \A e \in Entities : Porting!WellFormed(e), Porting!Init
  PROVE  PortInv
<1>1. /\ entity \in Entities /\ decls = entity.decls
      /\ refs = [r \in DOMAIN entity.refs |->
                   [name |-> SourceName(entity.refs[r].to), to |-> entity.refs[r].to, use |-> entity.refs[r].use]]
      /\ visits = ({"decl"} \X DOMAIN decls) \cup ({"ref"} \X DOMAIN refs)
      /\ ports = {d \in DOMAIN decls : decls[d].kind = "out"}
  BY DEF Porting!Init, Porting!Starts, SourceName
<1>2. /\ Declared \in Nat /\ DOMAIN entity.decls = 1 .. Declared
      /\ Referred \in Nat /\ DOMAIN entity.refs = 1 .. Referred
      /\ \A d \in 1 .. Declared :
           /\ entity.decls[d] \in Declarations /\ SourceName(d) \in Porting!Name
           /\ entity.decls[d] = [name |-> SourceName(d), kind |-> entity.decls[d].kind]
      /\ \A r \in 1 .. Referred :
           /\ entity.refs[r].to \in 1 .. Declared
           /\ entity.refs[r].use \in {"target", "actual", "read", "in_actual"}
  BY <1>1, EntityShape
<1>3. Made = 0
  BY <1>1, <1>2 DEF Made, Declared
<1>4. /\ DOMAIN refs = 1 .. Referred
      /\ \A r \in 1 .. Referred :
           /\ refs[r].name = SourceName(entity.refs[r].to) /\ refs[r].to = entity.refs[r].to
           /\ refs[r].use = entity.refs[r].use /\ refs[r] \in References
  <2>1. DOMAIN refs = 1 .. Referred
    BY <1>1, <1>2
  <2>2. ASSUME NEW r \in 1 .. Referred
        PROVE  /\ refs[r].name = SourceName(entity.refs[r].to) /\ refs[r].to = entity.refs[r].to
               /\ refs[r].use = entity.refs[r].use /\ refs[r] \in References
    <3> DEFINE p == entity.refs[r].to
               u == entity.refs[r].use
    <3>1. refs[r] = [name |-> SourceName(p), to |-> p, use |-> u]
      BY <1>1, <1>2
    <3>2. p \in Nat /\ SourceName(p) \in Porting!Name /\ u \in {"target", "actual", "read", "in_actual"}
      <4>1. p \in 1 .. Declared /\ u \in {"target", "actual", "read", "in_actual"}
        BY <1>2
      <4> HIDE DEF p, u
      <4>2. p \in Nat
        BY <1>2, <4>1
      <4>3. SourceName(p) \in Porting!Name
        BY <1>2, <4>1
      <4> QED
        BY <4>1, <4>2, <4>3
    <3> HIDE DEF p, u
    <3>3. refs[r] \in References
      BY <3>1, <3>2 DEF References
    <3> QED
      BY <3>1, <3>3 DEF p, u
  <2> QED
    BY <2>1, <2>2
<1>5. refs \in Seq(References) /\ Len(refs) = Referred
  <2>1. refs \in [1 .. Referred -> References]
    BY <1>1, <1>2, <1>4
  <2> QED
    BY <1>2, <2>1
<1>6. decls \in Seq(Declarations)
  BY <1>1 DEF Porting!WellFormed, Declarations
<1>7. ports = OutPorts
  BY <1>1 DEF OutPorts
<1>8. visits = ({"decl"} \X DOMAIN entity.decls) \cup ({"ref"} \X DOMAIN entity.refs)
  BY <1>1, <1>2, <1>4
<1>9. PortTypes
  BY <1>2, <1>3, <1>5, <1>6, <1>7, <1>8 DEF PortTypes
<1>10. DeclsKept
  <2>1. \A d \in 1 .. Declared : <<"decl", d>> \in visits
    BY <1>2, <1>8
  <2> QED
    BY <1>1, <1>2, <2>1 DEF DeclsKept
<1>11. RefsKept
  <2>1. /\ \A d \in 1 .. Declared : <<"decl", d>> \in visits
        /\ \A r \in 1 .. Referred : <<"ref", r>> \in visits
    BY <1>2, <1>8
  <2>2. \A r \in 1 .. Referred : ToObject(r, entity.refs[r].to)
    <3>1. 1 .. Made = {}
      BY <1>3
    <3> QED
      BY <1>2, <1>4, <2>1, <3>1 DEF ToObject, Called
  <2> QED
    BY <1>2, <1>4, <2>2 DEF RefsKept
<1>12. SignalsMade /\ ReadsMoved
  BY <1>3, <1>7 DEF SignalsMade, ReadsMoved
<1> QED
  BY <1>1, <1>9, <1>10, <1>11, <1>12 DEF PortInv

(* A name is visited: nothing else changes but its reference or references. *)
LEMMA RenamingKeeps ==
  ASSUME \A e \in Entities : Porting!WellFormed(e), PortInv, visits # {},
         UNCHANGED <<entity, ports>>, visits' \subseteq visits,
         decls' \in Seq(Declarations), Len(decls') = Len(decls), DeclsKept',
         refs' \in Seq(References), Len(refs') = Len(refs),
         \A r \in 1 .. Referred :
           /\ refs'[r].to = refs[r].to /\ refs'[r].use = refs[r].use
           /\ Called(r, entity.refs[r].to, refs[r].name)'
  PROVE  PortInv'
<1>1. /\ entity' = entity /\ ports' = ports /\ ports = OutPorts /\ Made = 0 /\ Len(refs) = Referred
      /\ visits' \subseteq ({"decl"} \X DOMAIN entity.decls) \cup ({"ref"} \X DOMAIN entity.refs)
      /\ entity \in Entities
  BY EntityShape DEF PortInv, PortTypes
<1>2. /\ OutPorts' = OutPorts /\ Declared' = Declared /\ Referred' = Referred /\ Made' = 0
      /\ \A d : SourceName(d)' = SourceName(d) /\ NewName(d)' = NewName(d)
  BY <1>1 DEF OutPorts, Declared, Referred, Made, SourceName, NewName
<1>3. Declared \in Nat /\ DOMAIN entity.decls = 1 .. Declared /\ Referred \in Nat /\ DOMAIN entity.refs = 1 .. Referred
  BY <1>1, EntityShape
<1>4. PortTypes'
  BY <1>1, <1>2, <1>3 DEF PortTypes
<1>5. 1 .. Made = {} /\ 1 .. Made' = {}
  BY <1>1, <1>2
<1>6. RefsKept'
  <2>1. ASSUME NEW r \in 1 .. Referred PROVE refs[r].to = entity.refs[r].to /\ refs[r].use = entity.refs[r].use
    BY <1>3, <1>5 DEF PortInv, RefsKept, ToObject, ToSignal
  <2>2. ASSUME NEW r \in 1 .. Referred
        PROVE  ToObject(r, entity.refs[r].to)' /\ refs'[r].use = entity.refs[r].use
    <3>1. /\ refs'[r].to = entity.refs[r].to /\ refs'[r].use = entity.refs[r].use
          /\ Called(r, entity.refs[r].to, refs[r].name)'
      BY <2>1
    <3>2. \A k \in 1 .. Made' : PortOf(k)' # entity'.refs[r].to
      BY <1>5
    <3> QED
      BY <1>1, <3>1, <3>2 DEF ToObject
  <2> QED
    BY <1>1, <1>3, <2>2 DEF RefsKept
<1>7. SignalsMade'
  BY <1>5 DEF SignalsMade
<1>8. ReadsMoved'
  BY <1>1, <1>2 DEF ReadsMoved
<1> QED
  BY <1>1, <1>4, <1>6, <1>7, <1>8 DEF PortInv

LEMMA DeclarationStep ==
  ASSUME \A e \in Entities : Porting!WellFormed(e), PortInv,
         NEW d \in DOMAIN decls, Porting!VisitDeclaration(d)
  PROVE  PortInv'
<1> DEFINE new == Porting!AnalyzeString(decls[d].name)
<1>1. /\ <<"decl", d>> \in visits /\ entity \in Entities /\ entity' = entity /\ ports' = ports
      /\ visits' = visits \ {<<"decl", d>>}
      /\ decls' = [decls EXCEPT ![d].name = new]
      /\ refs' = IF new = decls[d].name THEN refs
                 ELSE [r \in DOMAIN refs |-> IF refs[r].to = d THEN [refs[r] EXCEPT !.name = new] ELSE refs[r]]
  BY DEF Porting!VisitDeclaration, PortInv
<1>2. /\ Declared \in Nat /\ DOMAIN entity.decls = 1 .. Declared
      /\ Referred \in Nat /\ DOMAIN entity.refs = 1 .. Referred
      /\ \A x \in 1 .. Declared : SourceName(x) \in Porting!Name
      /\ \A x \in 1 .. Declared : entity.decls[x].kind \in {"in", "out", "inout", "signal"}
      /\ \A r \in 1 .. Referred : entity.refs[r].to \in 1 .. Declared
  BY <1>1, EntityShape
<1>3. /\ decls \in Seq(Declarations) /\ refs \in Seq(References) /\ Made = 0 /\ Len(refs) = Referred
      /\ Len(decls) = Declared /\ d \in 1 .. Declared
  <2>1. decls \in Seq(Declarations) /\ refs \in Seq(References) /\ Made = 0 /\ Len(refs) = Referred
    BY <1>1, <1>2 DEF PortInv, PortTypes
  <2>2. Len(decls) = Declared
    BY <1>2, <2>1 DEF Made
  <2> QED
    BY <2>1, <2>2
<1>4. \A x \in 1 .. Declared :
        decls[x] = [name |-> IF <<"decl", x>> \in visits THEN SourceName(x) ELSE NewName(x),
                    kind |-> entity.decls[x].kind]
  BY <1>2 DEF PortInv, DeclsKept
<1>5. decls[d].name = SourceName(d) /\ new = NewName(d) /\ NewName(d) \in Porting!Name
  BY <1>1, <1>3, <1>4, NewNames
<1> HIDE DEF new
<1>6. /\ decls' \in Seq(Declarations) /\ Len(decls') = Len(decls)
      /\ \A x \in 1 .. Declared :
           decls'[x] = IF x = d THEN [name |-> NewName(d), kind |-> entity.decls[d].kind] ELSE decls[x]
  <2>1. DOMAIN decls = 1 .. Declared /\ \A x \in 1 .. Declared : decls[x] \in Declarations
    BY <1>3
  <2>2. decls' = [x \in 1 .. Declared |-> IF x = d THEN [decls[d] EXCEPT !.name = new] ELSE decls[x]]
    BY <1>1, <1>3, <2>1
  <2>3. [decls[d] EXCEPT !.name = new] = [name |-> NewName(d), kind |-> entity.decls[d].kind]
    <3> DEFINE rec == decls[d]
               k == entity.decls[d].kind
               old == IF <<"decl", d>> \in visits THEN SourceName(d) ELSE NewName(d)
    <3>1. rec = [name |-> old, kind |-> k]
      BY <1>3, <1>4
    <3> HIDE DEF rec, k, old
    <3>2. [rec EXCEPT !.name = new] = [name |-> new, kind |-> k]
      BY <3>1
    <3> QED
      BY <1>5, <3>2 DEF rec, k
  <2>4. [name |-> NewName(d), kind |-> entity.decls[d].kind] \in Declarations
    BY <1>2, <1>3, <1>5 DEF Declarations
  <2>5. decls' \in [1 .. Declared -> Declarations]
    BY <2>1, <2>2, <2>3, <2>4
  <2>6. decls' \in Seq(Declarations) /\ Len(decls') = Declared
    BY <1>2, <2>5
  <2>7. \A x \in 1 .. Declared :
          decls'[x] = IF x = d THEN [name |-> NewName(d), kind |-> entity.decls[d].kind] ELSE decls[x]
    BY <2>2, <2>3
  <2> QED
    BY <1>3, <2>6, <2>7
<1>7. DeclsKept'
  <2>1. \A x \in 1 .. Declared : <<"decl", x>> \in visits' <=> <<"decl", x>> \in visits /\ x # d
    BY <1>1
  <2>2. \A x : SourceName(x)' = SourceName(x) /\ NewName(x)' = NewName(x)
    BY <1>1 DEF SourceName, NewName
  <2>3. ASSUME NEW x \in 1 .. Declared
        PROVE  decls'[x] = [name |-> IF <<"decl", x>> \in visits' THEN SourceName(x) ELSE NewName(x),
                            kind |-> entity.decls[x].kind]
    <3>1. CASE x = d
      BY <1>6, <2>1, <3>1
    <3>2. CASE x # d
      BY <1>4, <1>6, <2>1, <3>2
    <3> QED
      BY <3>1, <3>2
  <2> QED
    BY <1>1, <1>2, <2>2, <2>3 DEF DeclsKept
<1>8. DOMAIN refs = 1 .. Referred /\ \A r \in 1 .. Referred : refs[r] \in References
  BY <1>3
<1>9. ASSUME NEW r \in 1 .. Referred
      PROVE  refs[r].to = entity.refs[r].to /\ Called(r, entity.refs[r].to, refs[r].name)
  <2>1. 1 .. Made = {}
    BY <1>3
  <2> QED
    BY <1>2, <2>1 DEF PortInv, RefsKept, ToObject, ToSignal
<1>10. /\ refs' \in Seq(References) /\ Len(refs') = Len(refs)
       /\ \A r \in 1 .. Referred :
            /\ refs'[r].to = refs[r].to /\ refs'[r].use = refs[r].use
            /\ refs'[r].name = IF new # decls[d].name /\ refs[r].to = d THEN new ELSE refs[r].name
  <2>1. CASE new = decls[d].name
    BY <1>1, <1>3, <2>1
  <2>2. CASE new # decls[d].name
    <3>1. refs' = [r \in 1 .. Referred |-> IF refs[r].to = d THEN [refs[r] EXCEPT !.name = new] ELSE refs[r]]
      BY <1>1, <1>8, <2>2
    <3>2. ASSUME NEW x \in References
          PROVE  /\ [x EXCEPT !.name = new] \in References /\ [x EXCEPT !.name = new].name = new
                 /\ [x EXCEPT !.name = new].to = x.to /\ [x EXCEPT !.name = new].use = x.use
      BY <1>5 DEF References
    <3>3. ASSUME NEW r \in 1 .. Referred
          PROVE  /\ refs'[r] \in References
                 /\ refs'[r].to = refs[r].to /\ refs'[r].use = refs[r].use
                 /\ refs'[r].name = IF refs[r].to = d THEN new ELSE refs[r].name
      <4>1. refs'[r] = IF refs[r].to = d THEN [refs[r] EXCEPT !.name = new] ELSE refs[r]
        BY <3>1
      <4> QED
        BY <1>8, <3>2, <4>1
    <3>4. refs' \in [1 .. Referred -> References]
      BY <3>1, <3>3
    <3>5. refs' \in Seq(References) /\ Len(refs') = Referred
      BY <1>2, <3>4
    <3> QED
      BY <1>3, <2>2, <3>3, <3>5
  <2> QED
    BY <2>1, <2>2
<1>11. ASSUME NEW r \in 1 .. Referred
       PROVE  /\ refs'[r].to = refs[r].to /\ refs'[r].use = refs[r].use
              /\ Called(r, entity.refs[r].to, refs[r].name)'
  <2> DEFINE p == entity.refs[r].to
             given == refs[r].name
  <2>1. refs[r].to = p /\ Called(r, p, given)
    BY <1>9
  <2>2. refs'[r].name = IF new # decls[d].name /\ refs[r].to = d THEN new ELSE given
    BY <1>10
  <2>3. NewName(p)' = NewName(p) /\ SourceName(p)' = SourceName(p)
    BY <1>1 DEF NewName, SourceName
  <2>4. p' = p
    BY <1>1
  <2>5. Called(r, p, refs[r].name)'
    <3> HIDE DEF p, given
    <3>1. CASE p = d
      BY <1>5, <2>1, <2>2, <2>3, <2>4, <3>1 DEF Called
    <3>2. CASE p # d
      <4>1. /\ <<"decl", p>> \in visits => <<"decl", p>> \in visits'
            /\ <<"ref", r>> \in visits => <<"ref", r>> \in visits'
        BY <1>1, <3>2
      <4> QED
        BY <2>1, <2>2, <2>3, <2>4, <3>2, <4>1 DEF Called
    <3> QED
      BY <3>1, <3>2
  <2> QED
    BY <1>10, <2>5
<1> QED
  BY <1>1, <1>6, <1>7, <1>10, <1>11, RenamingKeeps

LEMMA ReferenceStep ==
  ASSUME \A e \in Entities : Porting!WellFormed(e), PortInv,
         NEW r \in DOMAIN refs, Porting!VisitReference(r)
  PROVE  PortInv'
<1> DEFINE new == Porting!AnalyzeString(refs[r].name)
<1>1. /\ <<"ref", r>> \in visits /\ entity \in Entities /\ entity' = entity /\ ports' = ports
      /\ visits' = visits \ {<<"ref", r>>} /\ decls' = decls
      /\ refs' = [refs EXCEPT ![r].name = new]
  BY DEF Porting!VisitReference, PortInv
<1>2. /\ Declared \in Nat /\ DOMAIN entity.decls = 1 .. Declared
      /\ Referred \in Nat /\ DOMAIN entity.refs = 1 .. Referred
      /\ \A x \in 1 .. Referred : entity.refs[x].to \in 1 .. Declared
  BY <1>1, EntityShape
<1>3. /\ decls \in Seq(Declarations) /\ refs \in Seq(References) /\ Made = 0 /\ Len(refs) = Referred
      /\ r \in 1 .. Referred /\ DOMAIN refs = 1 .. Referred
      /\ \A x \in 1 .. Referred : refs[x] \in References
  <2>1. decls \in Seq(Declarations) /\ refs \in Seq(References) /\ Made = 0
    BY <1>1 DEF PortInv, PortTypes
  <2>2. Len(refs) = Referred
    BY <1>2, <2>1 DEF PortInv, PortTypes
  <2> QED
    BY <2>1, <2>2
<1>4. ASSUME NEW x \in 1 .. Referred
      PROVE  refs[x].to = entity.refs[x].to /\ Called(x, entity.refs[x].to, refs[x].name)
  <2>1. 1 .. Made = {}
    BY <1>3
  <2> QED
    BY <1>2, <2>1 DEF PortInv, RefsKept, ToObject, ToSignal
<1>5. new = NewName(entity.refs[r].to) /\ new \in Porting!Name
  <2> DEFINE p == entity.refs[r].to
  <2>1. p \in 1 .. Declared /\ (refs[r].name = NewName(p) \/ refs[r].name = SourceName(p))
    BY <1>2, <1>3, <1>4 DEF Called
  <2> HIDE DEF p
  <2>2. new = NewName(p) /\ NewName(p) \in Porting!Name
    BY <1>1, <2>1, NewNames
  <2> QED
    BY <2>2 DEF p
<1> HIDE DEF new
<1>6. /\ refs' \in Seq(References) /\ Len(refs') = Len(refs)
      /\ \A x \in 1 .. Referred :
           /\ refs'[x].to = refs[x].to /\ refs'[x].use = refs[x].use
           /\ refs'[x].name = IF x = r THEN new ELSE refs[x].name
  <2>1. refs' = [x \in 1 .. Referred |-> IF x = r THEN [refs[r] EXCEPT !.name = new] ELSE refs[x]]
    BY <1>1, <1>3
  <2>2. /\ [refs[r] EXCEPT !.name = new] \in References /\ [refs[r] EXCEPT !.name = new].name = new
        /\ [refs[r] EXCEPT !.name = new].to = refs[r].to /\ [refs[r] EXCEPT !.name = new].use = refs[r].use
    BY <1>3, <1>5 DEF References
  <2>3. refs' \in [1 .. Referred -> References]
    BY <1>3, <2>1, <2>2
  <2>4. refs' \in Seq(References) /\ Len(refs') = Referred
    BY <1>2, <2>3
  <2> QED
    BY <1>3, <2>1, <2>2, <2>4
<1>7. DeclsKept'
  <2>1. \A x : <<"decl", x>> \in visits' <=> <<"decl", x>> \in visits
    BY <1>1
  <2>2. \A x : SourceName(x)' = SourceName(x) /\ NewName(x)' = NewName(x)
    BY <1>1 DEF SourceName, NewName
  <2> QED
    BY <1>1, <2>1, <2>2 DEF PortInv, DeclsKept
<1>8. ASSUME NEW x \in 1 .. Referred
      PROVE  /\ refs'[x].to = refs[x].to /\ refs'[x].use = refs[x].use
             /\ Called(x, entity.refs[x].to, refs[x].name)'
  <2> DEFINE p == entity.refs[x].to
  <2>1. NewName(p)' = NewName(p) /\ SourceName(p)' = SourceName(p) /\ p' = p
    BY <1>1 DEF NewName, SourceName
  <2>2. Called(x, p, refs[x].name)
    BY <1>4
  <2>3. Called(x, p, refs[x].name)'
    <3>1. CASE x = r
      BY <1>5, <1>6, <2>1, <3>1 DEF Called
    <3>2. CASE x # r
      <4>1. /\ <<"decl", p>> \in visits => <<"decl", p>> \in visits'
            /\ <<"ref", x>> \in visits => <<"ref", x>> \in visits'
        BY <1>1, <3>2
      <4> QED
        BY <1>6, <2>1, <2>2, <3>2, <4>1 DEF Called
    <3> QED
      BY <3>1, <3>2
  <2> QED
    BY <1>6, <2>3
<1> QED
  BY <1>1, <1>3, <1>6, <1>7, <1>8, RenamingKeeps

LEMMA SignalParts ==
  ASSUME PortInv, NEW k \in 1 .. Made
  PROVE  /\ PortOf(k) \in OutPorts /\ PortOf(k) \notin ports
         /\ decls[Declared + k].name = Porting!SignalName(NewName(PortOf(k)))
         /\ decls[Declared + k].kind = "signal"
         /\ refs[Referred + 2 * k - 1].name = NewName(PortOf(k))
         /\ refs[Referred + 2 * k - 1].to = PortOf(k) /\ refs[Referred + 2 * k - 1].use = "target"
         /\ refs[Referred + 2 * k].name = Porting!SignalName(NewName(PortOf(k)))
         /\ refs[Referred + 2 * k].to = Declared + k /\ refs[Referred + 2 * k].use = "copy"
<1>1. /\ PortOf(k) \in OutPorts \ ports
      /\ decls[Declared + k] = [name |-> Porting!SignalName(NewName(PortOf(k))), kind |-> "signal"]
      /\ refs[Referred + 2 * k - 1] = [name |-> NewName(PortOf(k)), to |-> PortOf(k), use |-> "target"]
      /\ refs[Referred + 2 * k] =
           [name |-> Porting!SignalName(NewName(PortOf(k))), to |-> Declared + k, use |-> "copy"]
  BY DEF PortInv, SignalsMade
<1>2. ASSUME NEW x, NEW y, NEW z, NEW u,
             u = [name |-> x, to |-> y, use |-> z] PROVE u.name = x /\ u.to = y /\ u.use = z
  BY <1>2
<1>3. ASSUME NEW x, NEW y, NEW u, u = [name |-> x, kind |-> y] PROVE u.name = x /\ u.kind = y
  BY <1>3
<1> QED
  BY <1>1, <1>2, <1>3

LEMMA InPairs ==
  ASSUME NEW n1 \in Nat, NEW m \in Nat, NEW r \in n1 + 1 .. n1 + 2 * m
  PROVE  \E k \in 1 .. m : r = n1 + 2 * k - 1 \/ r = n1 + 2 * k
<1>1. PICK j \in 1 .. 2 * m : r = n1 + j
  <2>1. r - n1 \in 1 .. 2 * m /\ r = n1 + (r - n1)
    OBVIOUS
  <2> QED
    BY <2>1
<1>2. \E k \in 1 .. m : j = 2 * k - 1 \/ j = 2 * k
  <2> DEFINE k == (j + 1) \div 2
  <2>1. k \in 1 .. m /\ (j = 2 * k - 1 \/ j = 2 * k)
    OBVIOUS
  <2> HIDE DEF k
  <2> QED
    BY <2>1
<1> QED
  BY <1>1, <1>2

(* What is known once all names are visited. *)
LEMMA AllNamed ==
  ASSUME \A e \in Entities : Porting!WellFormed(e), PortInv, visits = {}
  PROVE  /\ entity \in Entities
         /\ Declared \in Nat /\ DOMAIN entity.decls = 1 .. Declared
         /\ Referred \in Nat /\ DOMAIN entity.refs = 1 .. Referred /\ Made \in Nat
         /\ Len(decls) = Declared + Made /\ DOMAIN decls = 1 .. Declared + Made
         /\ Len(refs) = Referred + 2 * Made /\ DOMAIN refs = 1 .. Referred + 2 * Made
         /\ \A d \in 1 .. Declared :
              decls[d] = [name |-> NewName(d), kind |-> entity.decls[d].kind]
         /\ \A r \in 1 .. Referred :
              /\ refs[r].use = entity.refs[r].use /\ entity.refs[r].to \in 1 .. Declared
              /\ \/ /\ refs[r].to = entity.refs[r].to /\ refs[r].name = NewName(entity.refs[r].to)
                    /\ \A k \in 1 .. Made : PortOf(k) # entity.refs[r].to
                 \/ ToSignal(r, entity.refs[r].to)
         /\ OutPorts \subseteq 1 .. Declared
<1>1. entity \in Entities /\ PortTypes /\ DeclsKept /\ RefsKept
  BY DEF PortInv
<1>2. /\ Declared \in Nat /\ DOMAIN entity.decls = 1 .. Declared
      /\ Referred \in Nat /\ DOMAIN entity.refs = 1 .. Referred
      /\ \A r \in 1 .. Referred : entity.refs[r].to \in 1 .. Declared
  BY <1>1, EntityShape
<1>3. /\ decls \in Seq(Declarations) /\ refs \in Seq(References)
      /\ Made \in Nat /\ Len(refs) = Referred + 2 * Made
  BY <1>1 DEF PortTypes
<1>4. /\ Len(decls) = Declared + Made /\ DOMAIN decls = 1 .. Declared + Made
      /\ DOMAIN refs = 1 .. Referred + 2 * Made
  BY <1>2, <1>3 DEF Made
<1>5. \A d \in 1 .. Declared : decls[d] = [name |-> NewName(d), kind |-> entity.decls[d].kind]
  BY <1>1, <1>2 DEF DeclsKept
<1>6. \A r \in 1 .. Referred :
        /\ refs[r].use = entity.refs[r].use
        /\ \/ /\ refs[r].to = entity.refs[r].to /\ refs[r].name = NewName(entity.refs[r].to)
              /\ \A k \in 1 .. Made : PortOf(k) # entity.refs[r].to
           \/ ToSignal(r, entity.refs[r].to)
  BY <1>1, <1>2 DEF RefsKept, ToObject, Called
<1>7. OutPorts \subseteq 1 .. Declared
  BY <1>2 DEF OutPorts
<1> QED
  BY <1>1, <1>2, <1>3, <1>4, <1>5, <1>6, <1>7

(* References to a port that has no signal are those of the source. *)
LEMMA PortReferences ==
  ASSUME \A e \in Entities : Porting!WellFormed(e), PortInv, visits = {}, NEW p \in OutPorts,
         \A k \in 1 .. Made : PortOf(k) # p
  PROVE  /\ Porting!References(p) = {r \in 1 .. Referred : entity.refs[r].to = p}
         /\ \A r \in Porting!References(p) : refs[r].use = entity.refs[r].use
<1>1. /\ Declared \in Nat /\ Referred \in Nat /\ Made \in Nat /\ p \in 1 .. Declared
      /\ DOMAIN refs = 1 .. Referred + 2 * Made
  BY AllNamed
<1>2. ASSUME NEW r \in 1 .. Referred PROVE refs[r].to = p <=> entity.refs[r].to = p
  <2>1. CASE refs[r].to = entity.refs[r].to
    BY <2>1
  <2>2. CASE ToSignal(r, entity.refs[r].to)
    <3>1. PICK k \in 1 .. Made : PortOf(k) = entity.refs[r].to /\ refs[r].to = Declared + k
      BY <2>2 DEF ToSignal
    <3>2. refs[r].to # p
      BY <1>1, <3>1
    <3> QED
      BY <3>1, <3>2
  <2> QED
    BY <2>1, <2>2, AllNamed
<1>3. ASSUME NEW r \in Referred + 1 .. Referred + 2 * Made PROVE refs[r].to # p
  <2>1. \E k \in 1 .. Made : r = Referred + 2 * k - 1 \/ r = Referred + 2 * k
    BY <1>1, InPairs
  <2>2. PICK k \in 1 .. Made : r = Referred + 2 * k - 1 \/ r = Referred + 2 * k
    BY <2>1
  <2>3. refs[Referred + 2 * k - 1].to = PortOf(k) /\ refs[Referred + 2 * k].to = Declared + k
    BY <2>2, SignalParts
  <2>4. Declared + k # p
    BY <1>1
  <2> QED
    BY <2>2, <2>3, <2>4
<1>4. \A r \in 1 .. Referred + 2 * Made : r \in 1 .. Referred \/ r \in Referred + 1 .. Referred + 2 * Made
  BY <1>1
<1>5. \A r \in 1 .. Referred : r \in 1 .. Referred + 2 * Made
  BY <1>1
<1>6. Porting!References(p) = {r \in 1 .. Referred : entity.refs[r].to = p}
  BY <1>1, <1>2, <1>3, <1>4, <1>5 DEF Porting!References
<1> QED
  BY <1>6, AllNamed

LEMMA PortStep ==
  ASSUME \A e \in Entities : Porting!WellFormed(e), PortInv,
         NEW p \in ports, Porting!VisitPort(p)
  PROVE  PortInv'
<1>1. /\ visits = {} /\ visits' = {} /\ entity' = entity /\ ports' = ports \ {p} /\ entity \in Entities
      /\ ports \subseteq OutPorts
  BY DEF Porting!VisitPort, PortInv, PortTypes
<1>2. /\ Declared \in Nat /\ DOMAIN entity.decls = 1 .. Declared
      /\ Referred \in Nat /\ DOMAIN entity.refs = 1 .. Referred /\ Made \in Nat
      /\ Len(decls) = Declared + Made /\ DOMAIN decls = 1 .. Declared + Made
      /\ Len(refs) = Referred + 2 * Made /\ DOMAIN refs = 1 .. Referred + 2 * Made
      /\ \A d \in 1 .. Declared :
           decls[d] = [name |-> NewName(d), kind |-> entity.decls[d].kind]
      /\ \A r \in 1 .. Referred :
           /\ refs[r].use = entity.refs[r].use /\ entity.refs[r].to \in 1 .. Declared
           /\ \/ /\ refs[r].to = entity.refs[r].to /\ refs[r].name = NewName(entity.refs[r].to)
                 /\ \A k \in 1 .. Made : PortOf(k) # entity.refs[r].to
              \/ ToSignal(r, entity.refs[r].to)
      /\ p \in OutPorts /\ p \in 1 .. Declared
  BY <1>1, AllNamed
<1>3. /\ OutPorts' = OutPorts /\ Declared' = Declared /\ Referred' = Referred
      /\ \A d : SourceName(d)' = SourceName(d) /\ NewName(d)' = NewName(d)
  BY <1>1 DEF OutPorts, Declared, Referred, SourceName, NewName
<1>4. /\ \A k \in 1 .. Made : PortOf(k) # p
      /\ Porting!References(p) = {r \in 1 .. Referred : entity.refs[r].to = p}
      /\ \A r \in Porting!References(p) : refs[r].use = entity.refs[r].use
  <2>1. \A k \in 1 .. Made : PortOf(k) # p
    BY SignalParts
  <2> QED
    BY <1>1, <1>2, <2>1, PortReferences
<1>5. CASE ~Porting!NeedFix(Porting!References(p))
  <2>1. decls' = decls /\ refs' = refs
    BY <1>5 DEF Porting!VisitPort
  <2>2. Made' = Made /\ (\A k : PortOf(k)' = PortOf(k))
    BY <1>3, <2>1 DEF Made, PortOf
  <2>3. PortTypes'
    BY <1>1, <1>3, <2>1, <2>2 DEF PortInv, PortTypes
  <2>4. DeclsKept'
    BY <1>1, <1>3, <2>1 DEF PortInv, DeclsKept
  <2>5. RefsKept'
    <3>1. ASSUME NEW r, NEW q PROVE (ToObject(r, q) => ToObject(r, q)') /\ (ToSignal(r, q) => ToSignal(r, q)')
      BY <1>1, <1>3, <2>1, <2>2 DEF ToObject, ToSignal, Called
    <3> QED
      BY <1>1, <2>1, <3>1 DEF PortInv, RefsKept
  <2>6. SignalsMade'
    BY <1>1, <1>3, <2>1, <2>2 DEF PortInv, SignalsMade
  <2>7. \A r \in DOMAIN entity.refs :
          entity.refs[r].to = p => entity.refs[r].use \notin {"read", "in_actual"}
    BY <1>2, <1>4, <1>5 DEF Porting!NeedFix
  <2>8. ReadsMoved'
    BY <1>1, <1>3, <2>2, <2>7 DEF PortInv, ReadsMoved
  <2> QED
    BY <1>1, <2>3, <2>4, <2>5, <2>6, <2>8 DEF PortInv
<1>6. CASE Porting!NeedFix(Porting!References(p))
  <2>0. PICK m : m = Made
    OBVIOUS
  <2> DEFINE label == Porting!SignalName(NewName(p))
             s == Declared + m + 1
             n1 == Len(refs)
             moved == [r \in DOMAIN refs |-> IF r \in Porting!References(p)
                                             THEN [name |-> label, to |-> s, use |-> refs[r].use] ELSE refs[r]]
             copy == [name |-> NewName(p), to |-> p, use |-> "target"]
             given == [name |-> label, to |-> s, use |-> "copy"]
             new == [name |-> label, kind |-> "signal"]
  <2>a. /\ m \in Nat /\ Len(decls) = Declared + m /\ DOMAIN decls = 1 .. Declared + m
        /\ n1 = Referred + 2 * m /\ n1 \in Nat /\ DOMAIN refs = 1 .. n1 /\ s \in Nat
        /\ \A k \in 1 .. m : k \in 1 .. Made
        /\ \A r \in 1 .. Referred : r \in 1 .. n1
    BY <1>2, <2>0
  <2>b. \A k \in 1 .. m : PortOf(k) # p
    BY <1>4, <2>a
  <2>1. decls[p].name = NewName(p)
    <3>1. decls[p] = [name |-> NewName(p), kind |-> entity.decls[p].kind]
      BY <1>2
    <3> QED
      BY <3>1
  <2>2. decls' = Append(decls, new) /\ refs' = moved \o <<copy, given>>
    <3>1. Len(decls) + 1 = s
      BY <1>2, <2>a
    <3> QED
      BY <1>6, <2>1, <3>1 DEF Porting!VisitPort
  <2>3. label \in Porting!Name /\ NewName(p) \in Porting!Name
    BY <1>1, <1>2, NewNames
  <2>4. decls \in Seq(Declarations) /\ refs \in Seq(References)
    BY DEF PortInv, PortTypes
  <2>5. /\ decls' \in Seq(Declarations) /\ Len(decls') = Declared + m + 1
        /\ \A d \in 1 .. Declared + m : decls'[d] = decls[d]
        /\ decls'[Declared + m + 1] = new
    <3> HIDE DEF label
    <3>1. new \in Declarations
      BY <2>3 DEF Declarations
    <3> HIDE DEF new
    <3>2. Append(decls, new) \in Seq(Declarations) /\ Len(Append(decls, new)) = Len(decls) + 1
          /\ \A d \in 1 .. Len(decls) : Append(decls, new)[d] = decls[d]
          /\ Append(decls, new)[Len(decls) + 1] = new
      BY <2>4, <3>1, AppendProperties
    <3> QED
      BY <2>2, <2>a, <3>2
  <2>6. /\ moved \in Seq(References) /\ Len(moved) = n1
        /\ \A r \in 1 .. n1 :
             /\ moved[r].use = refs[r].use
             /\ r \in Porting!References(p) => moved[r].name = label /\ moved[r].to = s
             /\ r \notin Porting!References(p) => moved[r] = refs[r]
    <3>1. s \in Nat /\ n1 \in Nat /\ DOMAIN refs = 1 .. n1 /\ \A r \in 1 .. n1 : refs[r] \in References
      BY <2>4, <2>a
    <3> HIDE DEF label, s, n1
    <3>2. ASSUME NEW x \in References
          PROVE  LET y == [name |-> label, to |-> s, use |-> x.use]
                 IN  y \in References /\ y.name = label /\ y.to = s /\ y.use = x.use
      BY <2>3, <3>1 DEF References
    <3>3. ASSUME NEW r \in 1 .. n1
          PROVE  /\ moved[r] \in References /\ moved[r].use = refs[r].use
                 /\ r \in Porting!References(p) => moved[r].name = label /\ moved[r].to = s
                 /\ r \notin Porting!References(p) => moved[r] = refs[r]
      <4>1. moved[r] = IF r \in Porting!References(p)
                       THEN [name |-> label, to |-> s, use |-> refs[r].use] ELSE refs[r]
        BY <3>1
      <4> HIDE DEF moved
      <4> QED
        BY <3>1, <3>2, <4>1
    <3>4. moved = [r \in 1 .. n1 |-> moved[r]]
      BY <3>1
    <3> HIDE DEF moved
    <3>5. moved \in [1 .. n1 -> References]
      BY <3>3, <3>4
    <3> QED
      BY <3>1, <3>3, <3>5
  <2>7. copy \in References /\ given \in References
    <3>1. p \in Nat /\ s \in Nat
      BY <1>2, <2>a
    <3> HIDE DEF label, s
    <3> QED
      BY <2>3, <3>1 DEF References
  <2>8. /\ refs' \in Seq(References) /\ Len(refs') = n1 + 2
        /\ \A r \in 1 .. n1 : refs'[r] = moved[r]
        /\ refs'[n1 + 1] = copy /\ refs'[n1 + 2] = given
    <3> DEFINE two == <<copy, given>>
    <3> HIDE DEF copy, given, moved
    <3>1. two \in Seq(References) /\ Len(two) = 2 /\ two[1] = copy /\ two[2] = given
      BY <2>7
    <3>2. n1 \in Nat /\ refs' = moved \o two
      BY <2>2, <2>a DEF copy, given, moved
    <3> HIDE DEF two, n1
    <3>3. /\ refs' \in Seq(References) /\ Len(refs') = n1 + 2
          /\ \A i \in 1 .. n1 + 2 : refs'[i] = IF i <= n1 THEN moved[i] ELSE two[i - n1]
      <4>1. moved \in Seq(References) /\ Len(moved) = n1
        BY <2>6 DEF n1
      <4>2. /\ moved \o two \in Seq(References) /\ Len(moved \o two) = Len(moved) + Len(two)
            /\ \A i \in 1 .. Len(moved) + Len(two) :
                 (moved \o two)[i] = IF i <= Len(moved) THEN moved[i] ELSE two[i - Len(moved)]
        BY <3>1, <4>1, ConcatProperties
      <4> QED
        BY <3>1, <3>2, <4>1, <4>2
    <3>4. n1 + 1 \in 1 .. n1 + 2 /\ n1 + 2 \in 1 .. n1 + 2 /\ \A r \in 1 .. n1 : r \in 1 .. n1 + 2 /\ r <= n1
      BY <3>2
    <3>5. ~(n1 + 1 <= n1) /\ ~(n1 + 2 <= n1) /\ (n1 + 1) - n1 = 1 /\ (n1 + 2) - n1 = 2
      BY <3>2
    <3> QED
      BY <3>1, <3>3, <3>4, <3>5
  <2>9. Made' = m + 1
    BY <1>2, <1>3, <2>5, <2>a DEF Made
  <2>10. PortTypes'
    <3>1. Made' \in Nat /\ Len(refs') = Referred + 2 * Made'
      BY <1>2, <2>8, <2>9, <2>a
    <3>2. ports' \subseteq OutPorts /\ visits' = {}
      BY <1>1
    <3> QED
      BY <1>1, <1>3, <2>5, <2>8, <3>1, <3>2 DEF PortTypes
  <2>11. DeclsKept'
    <3>1. \A d \in 1 .. Declared : decls'[d] = decls[d]
      BY <1>2, <2>5, <2>a
    <3> QED
      BY <1>1, <1>2, <1>3, <3>1 DEF DeclsKept
  <2>12. /\ \A k \in 1 .. m :
              /\ refs'[Referred + 2 * k - 1] = refs[Referred + 2 * k - 1]
              /\ refs'[Referred + 2 * k] = refs[Referred + 2 * k]
         /\ refs'[Referred + 2 * (m + 1) - 1] = copy /\ refs'[Referred + 2 * (m + 1)] = given
    <3>1. n1 + 1 = Referred + 2 * (m + 1) - 1 /\ n1 + 2 = Referred + 2 * (m + 1)
      BY <1>2, <2>a
    <3>2. ASSUME NEW r \in 1 .. n1, r > Referred PROVE refs'[r] = refs[r]
      <4>1. r \notin Porting!References(p)
        BY <1>2, <1>4, <3>2
      <4> HIDE DEF moved
      <4> QED
        BY <2>6, <2>8, <4>1
    <3>3. \A k \in 1 .. m : /\ Referred + 2 * k - 1 \in 1 .. n1 /\ Referred + 2 * k - 1 > Referred
                               /\ Referred + 2 * k \in 1 .. n1 /\ Referred + 2 * k > Referred
      <4> HIDE DEF n1, s
      <4>1. Referred \in Nat /\ m \in Nat /\ n1 = Referred + 2 * m
        BY <1>2, <2>a
      <4> QED
        BY ONLY <4>1
    <3> HIDE DEF moved, copy, given
    <3> QED
      BY <2>8, <3>1, <3>2, <3>3
  <2>13. (\A k \in 1 .. m : PortOf(k)' = PortOf(k)) /\ PortOf(m + 1)' = p
    <3> HIDE DEF copy, given
    <3>1. copy.to = p
      BY DEF copy
    <3> QED
      BY <1>3, <2>12, <3>1 DEF PortOf
  <2>14. \A k \in 1 .. Made' : k \in 1 .. m \/ k = m + 1
    BY <2>9, <2>a
  <2>15. \A k \in 1 .. m : k \in 1 .. Made'
    BY <2>9, <2>a
  <2>16. RefsKept'
    <3>1. ASSUME NEW r \in 1 .. Referred
          PROVE  /\ refs'[r].use = entity.refs[r].use
                 /\ ToObject(r, entity.refs[r].to)' \/ ToSignal(r, entity.refs[r].to)'
      <4> DEFINE q == entity.refs[r].to
      <4>1. /\ r \in 1 .. n1 /\ refs'[r] = moved[r] /\ moved[r].use = refs[r].use
            /\ refs[r].use = entity.refs[r].use /\ q \in 1 .. Declared
        <5> HIDE DEF moved, q
        <5>1. refs'[r] = moved[r] /\ moved[r].use = refs[r].use /\ r \in 1 .. n1
          BY <2>6, <2>8, <2>a
        <5> QED
          BY <1>2, <5>1 DEF q
      <4>2. CASE q = p
        <5>1. r \in Porting!References(p)
          BY <1>4, <4>2
        <5>2. refs'[r].name = label /\ refs'[r].to = Declared + (m + 1)
          <6>1. moved[r].name = label /\ moved[r].to = s
            BY <2>6, <4>1, <5>1
          <6>2. s = Declared + (m + 1)
            BY <1>2, <2>a
          <6> HIDE DEF moved, label, s
          <6> QED
            BY <4>1, <6>1, <6>2
        <5>3. m + 1 \in 1 .. Made'
          BY <2>9, <2>a
        <5>4. ToSignal(r, p)'
          BY <1>1, <1>3, <2>13, <5>2, <5>3 DEF ToSignal
        <5> QED
          BY <1>1, <4>1, <4>2, <5>4
      <4>3. CASE q # p
        <5>1. refs'[r] = refs[r]
          BY <1>4, <2>6, <4>1, <4>3
        <5>2. CASE ToSignal(r, q)
          <6>1. PICK k \in 1 .. m :
                  PortOf(k) = q /\ refs[r].to = Declared + k /\ refs[r].name = Porting!SignalName(NewName(q))
            BY <2>0, <5>2 DEF ToSignal
          <6>2. ToSignal(r, q)'
            BY <1>1, <1>3, <2>13, <2>15, <5>1, <6>1 DEF ToSignal
          <6>3. refs'[r].use = entity.refs[r].use
            BY <4>1, <5>1
          <6> QED
            BY <1>1, <6>2, <6>3
        <5>3. CASE /\ refs[r].to = q /\ refs[r].name = NewName(q)
                   /\ \A k \in 1 .. m : PortOf(k) # q
          <6>1. \A k \in 1 .. Made' : PortOf(k)' # q
            BY <2>0, <2>13, <2>14, <4>3, <5>3
          <6>2. ToObject(r, q)'
            BY <1>1, <1>3, <5>1, <5>3, <6>1 DEF ToObject, Called
          <6>3. refs'[r].use = entity.refs[r].use
            BY <4>1, <5>1
          <6> QED
            BY <1>1, <6>2, <6>3
        <5> QED
          BY <1>2, <2>0, <5>2, <5>3
      <4> QED
        BY <4>2, <4>3
    <3> QED
      BY <1>1, <1>2, <3>1 DEF RefsKept
  <2>17. SignalsMade'
    <3>1. ASSUME NEW k \in 1 .. m
          PROVE  /\ PortOf(k)' \in OutPorts' \ ports'
                 /\ decls'[Declared + k] = [name |-> Porting!SignalName(NewName(PortOf(k)')), kind |-> "signal"]
                 /\ refs'[Referred + 2 * k - 1] = [name |-> NewName(PortOf(k)'), to |-> PortOf(k)', use |-> "target"]
                 /\ refs'[Referred + 2 * k] =
                      [name |-> Porting!SignalName(NewName(PortOf(k)')), to |-> Declared + k, use |-> "copy"]
      <4>1. decls'[Declared + k] = decls[Declared + k]
        <5>1. Declared + k \in 1 .. Declared + m
          BY <1>2, <2>a
        <5> QED
          BY <2>5, <5>1
      <4>2. PortOf(k)' = PortOf(k)
        BY <2>13
      <4>3. /\ PortOf(k) \in OutPorts \ ports
            /\ decls[Declared + k] = [name |-> Porting!SignalName(NewName(PortOf(k))), kind |-> "signal"]
            /\ refs[Referred + 2 * k - 1] = [name |-> NewName(PortOf(k)), to |-> PortOf(k), use |-> "target"]
            /\ refs[Referred + 2 * k] =
                 [name |-> Porting!SignalName(NewName(PortOf(k))), to |-> Declared + k, use |-> "copy"]
        BY <2>a DEF PortInv, SignalsMade
      <4>4. PortOf(k)' \in OutPorts' \ ports'
        BY <1>1, <1>3, <4>2, <4>3
      <4> QED
        BY <2>12, <4>1, <4>2, <4>3, <4>4
    <3>2. \A k, k2 \in 1 .. m : PortOf(k) = PortOf(k2) => k = k2
      BY <2>a DEF PortInv, SignalsMade
    <3>3. \A k, k2 \in 1 .. Made' : PortOf(k)' = PortOf(k2)' => k = k2
      BY <2>b, <2>13, <2>14, <3>2
    <3>4. /\ PortOf(m + 1)' \in OutPorts' \ ports'
          /\ decls'[Declared + (m + 1)] = [name |-> Porting!SignalName(NewName(p)), kind |-> "signal"]
          /\ refs'[Referred + 2 * (m + 1) - 1] = [name |-> NewName(p), to |-> p, use |-> "target"]
          /\ refs'[Referred + 2 * (m + 1)] =
               [name |-> Porting!SignalName(NewName(p)), to |-> Declared + (m + 1), use |-> "copy"]
      <4>1. Declared + (m + 1) = Declared + m + 1
        BY <1>2, <2>a
      <4>2. decls'[Declared + (m + 1)] = [name |-> Porting!SignalName(NewName(p)), kind |-> "signal"]
        BY <2>5, <4>1
      <4> QED
        BY <1>1, <1>2, <1>3, <2>12, <2>13, <4>1, <4>2
    <3>5. ASSUME NEW k \in 1 .. Made'
          PROVE  /\ PortOf(k)' \in OutPorts' \ ports'
                 /\ decls'[Declared + k] = [name |-> Porting!SignalName(NewName(PortOf(k)')), kind |-> "signal"]
                 /\ refs'[Referred + 2 * k - 1] = [name |-> NewName(PortOf(k)'), to |-> PortOf(k)', use |-> "target"]
                 /\ refs'[Referred + 2 * k] =
                      [name |-> Porting!SignalName(NewName(PortOf(k)')), to |-> Declared + k, use |-> "copy"]
      <4>1. CASE k \in 1 .. m
        BY <3>1, <4>1
      <4>2. CASE k = m + 1
        BY <2>13, <3>4, <4>2
      <4> QED
        BY <2>14, <4>1, <4>2
    <3>6. ASSUME NEW k \in 1 .. Made' PROVE NewName(PortOf(k))' = NewName(PortOf(k)')
      BY <1>1 DEF NewName, SourceName
    <3> QED
      BY <1>3, <3>3, <3>5, <3>6 DEF SignalsMade
  <2>18. ReadsMoved'
    <3>1. ASSUME NEW q \in OutPorts \ ports'
          PROVE  \/ \E k \in 1 .. Made' : PortOf(k)' = q
                 \/ \A r \in DOMAIN entity.refs :
                      entity.refs[r].to = q => entity.refs[r].use \notin {"read", "in_actual"}
      <4>1. CASE q = p
        <5>1. m + 1 \in 1 .. Made'
          BY <2>9, <2>a
        <5> QED
          BY <2>13, <4>1, <5>1
      <4>2. CASE q # p
        <5>1. q \in OutPorts \ ports
          BY <1>1, <4>2
        <5>2. \A k \in 1 .. Made : k \in 1 .. Made' /\ PortOf(k)' = PortOf(k)
          BY <2>0, <2>13, <2>15
        <5> QED
          BY <5>1, <5>2 DEF PortInv, ReadsMoved
      <4> QED
        BY <4>1, <4>2
    <3> QED
      BY <1>1, <1>3, <3>1 DEF ReadsMoved
  <2> QED
    BY <1>1, <2>10, <2>11, <2>16, <2>17, <2>18 DEF PortInv
<1> QED
  BY <1>5, <1>6

LEMMA NamesApart ==
  ASSUME \A e \in Entities : Porting!WellFormed(e), PortInv, visits = {},
         NEW d \in 1 .. Declared + Made, NEW d2 \in 1 .. Declared + Made, decls[d].name = decls[d2].name
  PROVE  d = d2
<1>1. Declared \in Nat /\ Made \in Nat /\ OutPorts \subseteq 1 .. Declared /\ entity \in Entities
  BY AllNamed
<1>2. ASSUME NEW x \in 1 .. Declared PROVE decls[x].name = NewName(x)
  <2>1. decls[x] = [name |-> NewName(x), kind |-> entity.decls[x].kind]
    BY AllNamed
  <2> QED
    BY <2>1
<1>3. ASSUME NEW k \in 1 .. Made
      PROVE  decls[Declared + k].name = Porting!SignalName(NewName(PortOf(k))) /\ PortOf(k) \in 1 .. Declared
  BY <1>1, SignalParts
<1>4. ASSUME NEW x \in 1 .. Declared + Made, x \notin 1 .. Declared PROVE \E k \in 1 .. Made : x = Declared + k
  <2>1. x - Declared \in 1 .. Made /\ x = Declared + (x - Declared)
    BY <1>1, <1>4
  <2> QED
    BY <2>1
<1>5. CASE d \in 1 .. Declared
  <2>1. CASE d2 \in 1 .. Declared
    BY <1>1, <1>2, <1>5, <2>1, NewNames
  <2>2. CASE d2 \notin 1 .. Declared
    <3>1. PICK k \in 1 .. Made : d2 = Declared + k
      BY <1>4, <2>2
    <3> QED
      BY <1>1, <1>2, <1>3, <1>5, <3>1, NewNames
  <2> QED
    BY <2>1, <2>2
<1>6. CASE d \notin 1 .. Declared
  <2>1. PICK k \in 1 .. Made : d = Declared + k
    BY <1>4, <1>6
  <2>2. CASE d2 \in 1 .. Declared
    BY <1>1, <1>2, <1>3, <2>1, <2>2, NewNames
  <2>3. CASE d2 \notin 1 .. Declared
    <3>1. PICK k2 \in 1 .. Made : d2 = Declared + k2
      BY <1>4, <2>3
    <3>2. PortOf(k) = PortOf(k2)
      BY <1>1, <1>3, <2>1, <3>1, NewNames
    <3>3. k = k2
      BY <3>2 DEF PortInv, SignalsMade
    <3> QED
      BY <2>1, <3>1, <3>3
  <2> QED
    BY <2>2, <2>3
<1> QED
  BY <1>5, <1>6

LEMMA NamesResolve ==
  ASSUME \A e \in Entities : Porting!WellFormed(e), PortInv, visits = {}, NEW r \in 1 .. Referred + 2 * Made
  PROVE  refs[r].to \in 1 .. Declared + Made /\ Porting!Named(r) = {refs[r].to}
<1>1. /\ Declared \in Nat /\ Referred \in Nat /\ Made \in Nat /\ OutPorts \subseteq 1 .. Declared
      /\ DOMAIN decls = 1 .. Declared + Made
  BY AllNamed
<1>2. ASSUME NEW k \in 1 .. Made
      PROVE  /\ Declared + k \in 1 .. Declared + Made
             /\ decls[Declared + k].name = Porting!SignalName(NewName(PortOf(k)))
  BY <1>1, SignalParts
<1>3. ASSUME NEW x \in 1 .. Declared PROVE x \in 1 .. Declared + Made /\ decls[x].name = NewName(x)
  <2>1. decls[x] = [name |-> NewName(x), kind |-> entity.decls[x].kind]
    BY AllNamed
  <2> QED
    BY <1>1, <2>1
<1>4. refs[r].to \in 1 .. Declared + Made /\ decls[refs[r].to].name = refs[r].name
  <2>1. CASE r \in 1 .. Referred
    <3>1. /\ entity.refs[r].to \in 1 .. Declared
          /\ \/ refs[r].to = entity.refs[r].to /\ refs[r].name = NewName(entity.refs[r].to)
             \/ ToSignal(r, entity.refs[r].to)
      BY <2>1, AllNamed
    <3>2. CASE ToSignal(r, entity.refs[r].to)
      BY <1>2, <3>2 DEF ToSignal
    <3> QED
      BY <1>3, <3>1, <3>2
  <2>2. CASE r \notin 1 .. Referred
    <3>1. r \in Referred + 1 .. Referred + 2 * Made
      BY <1>1, <2>2
    <3>2. PICK k \in 1 .. Made : r = Referred + 2 * k - 1 \/ r = Referred + 2 * k
      BY <1>1, <3>1, InPairs
    <3>3. CASE r = Referred + 2 * k - 1
      <4>1. refs[r].to = PortOf(k) /\ refs[r].name = NewName(PortOf(k)) /\ PortOf(k) \in 1 .. Declared
        BY <1>1, <3>3, SignalParts
      <4> QED
        BY <1>3, <4>1
    <3>4. CASE r = Referred + 2 * k
      BY <1>2, <3>4, SignalParts
    <3> QED
      BY <3>2, <3>3, <3>4
  <2> QED
    BY <2>1, <2>2
<1> QED
  BY <1>1, <1>4, NamesApart DEF Porting!Named

(* The references of the source that drive an object now are to the object *)
(* or to its signal, as they were to the object.                           *)
LEMMA DriversKept ==
  ASSUME \A e \in Entities : Porting!WellFormed(e), PortInv, visits = {}
  PROVE  /\ \A q \in 1 .. Declared :
              (\A k \in 1 .. Made : PortOf(k) # q) => Porting!Driven(q) = Porting!Meant(q)
         /\ \A k \in 1 .. Made : /\ Porting!Driven(Declared + k) = Porting!Meant(PortOf(k))
                                 /\ Porting!Driven(PortOf(k)) = {}
<1>1. /\ Declared \in Nat /\ Referred \in Nat /\ Made \in Nat /\ OutPorts \subseteq 1 .. Declared
      /\ DOMAIN refs = 1 .. Referred + 2 * Made /\ DOMAIN entity.refs = 1 .. Referred
  BY AllNamed
<1>2. ASSUME NEW d
      PROVE  Porting!Driven(d) =
               {r \in 1 .. Referred : entity.refs[r].use \in {"target", "actual"} /\ refs[r].to = d}
  <2>1. ASSUME NEW r \in 1 .. Referred
        PROVE  /\ r \in 1 .. Referred + 2 * Made /\ refs[r].use = entity.refs[r].use
               /\ Porting!Named(r) = {refs[r].to}
    BY <1>1, AllNamed, NamesResolve
  <2> QED
    BY <1>1, <2>1 DEF Porting!Driven, Porting!Drives
<1>3. ASSUME NEW q
      PROVE  Porting!Meant(q) =
               {r \in 1 .. Referred : entity.refs[r].use \in {"target", "actual"} /\ entity.refs[r].to = q}
  BY <1>1 DEF Porting!Meant
<1>4. ASSUME NEW r \in 1 .. Referred
      PROVE  /\ entity.refs[r].to \in 1 .. Declared
             /\ \/ refs[r].to = entity.refs[r].to /\ \A k \in 1 .. Made : PortOf(k) # entity.refs[r].to
                \/ \E k \in 1 .. Made : PortOf(k) = entity.refs[r].to /\ refs[r].to = Declared + k
  BY AllNamed DEF ToSignal
<1>5. \A k \in 1 .. Made : PortOf(k) \in 1 .. Declared
  BY <1>1, SignalParts
<1>6. \A q \in 1 .. Declared, k \in 1 .. Made : Declared + k # q
  BY <1>1
<1>7. \A k, k2 \in 1 .. Made : (PortOf(k) = PortOf(k2) => k = k2) /\ (Declared + k = Declared + k2 => k = k2)
  BY <1>1 DEF PortInv, SignalsMade
<1>8. ASSUME NEW q \in 1 .. Declared, \A k \in 1 .. Made : PortOf(k) # q, NEW r \in 1 .. Referred
      PROVE  refs[r].to = q <=> entity.refs[r].to = q
  BY <1>4, <1>6, <1>8
<1>9. ASSUME NEW k \in 1 .. Made, NEW r \in 1 .. Referred
      PROVE  (refs[r].to = Declared + k <=> entity.refs[r].to = PortOf(k)) /\ refs[r].to # PortOf(k)
  <2>1. CASE refs[r].to = entity.refs[r].to /\ \A k2 \in 1 .. Made : PortOf(k2) # entity.refs[r].to
    BY <1>4, <1>6, <2>1
  <2>2. CASE \E k2 \in 1 .. Made : PortOf(k2) = entity.refs[r].to /\ refs[r].to = Declared + k2
    <3>1. PICK k2 \in 1 .. Made : PortOf(k2) = entity.refs[r].to /\ refs[r].to = Declared + k2
      BY <2>2
    <3> QED
      BY <1>5, <1>6, <1>7, <3>1
  <2> QED
    BY <1>4, <2>1, <2>2
<1>10. ASSUME NEW q \in 1 .. Declared, \A k \in 1 .. Made : PortOf(k) # q
       PROVE  Porting!Driven(q) = Porting!Meant(q)
  BY <1>2, <1>3, <1>8, <1>10
<1>11. ASSUME NEW k \in 1 .. Made
       PROVE  Porting!Driven(Declared + k) = Porting!Meant(PortOf(k)) /\ Porting!Driven(PortOf(k)) = {}
  BY <1>2, <1>3, <1>9
<1> QED
  BY <1>10, <1>11

LEMMA CopiesMade ==
  ASSUME \A e \in Entities : Porting!WellFormed(e), PortInv, visits = {}
  PROVE  /\ \A q \in 1 .. Declared :
              (\A k \in 1 .. Made : PortOf(k) # q) => Porting!Copies(q) = {}
         /\ \A k \in 1 .. Made : Porting!Copies(PortOf(k)) = {Referred + 2 * k - 1}
<1>1. /\ Declared \in Nat /\ Referred \in Nat /\ Made \in Nat
      /\ DOMAIN refs = 1 .. Referred + 2 * Made /\ DOMAIN entity.refs = 1 .. Referred
  BY AllNamed
<1>2. ASSUME NEW q, NEW r
      PROVE  r \in Porting!Copies(q) <=>
               \E k \in 1 .. Made : r = Referred + 2 * k - 1 /\ PortOf(k) = q
  <2>1. ASSUME r \in Porting!Copies(q) PROVE \E k \in 1 .. Made : r = Referred + 2 * k - 1 /\ PortOf(k) = q
    <3>1. r \in 1 .. Referred + 2 * Made /\ r \notin 1 .. Referred /\ refs[r].use = "target" /\ Porting!Named(r) = {q}
      BY <1>1, <2>1 DEF Porting!Copies
    <3>2. r \in Referred + 1 .. Referred + 2 * Made
      BY <1>1, <3>1
    <3>3. PICK k \in 1 .. Made : r = Referred + 2 * k - 1 \/ r = Referred + 2 * k
      BY <1>1, <3>2, InPairs
    <3>4. refs[r].to = q
      BY <3>1, NamesResolve
    <3> QED
      BY <3>1, <3>3, <3>4, SignalParts
  <2>2. ASSUME NEW k \in 1 .. Made, r = Referred + 2 * k - 1, PortOf(k) = q PROVE r \in Porting!Copies(q)
    <3>1. r \in 1 .. Referred + 2 * Made /\ r \notin 1 .. Referred
      BY <1>1, <2>2
    <3>2. refs[r].to = q /\ refs[r].use = "target"
      BY <2>2, SignalParts
    <3>3. Porting!Named(r) = {q}
      BY <3>1, <3>2, NamesResolve
    <3> QED
      BY <1>1, <3>1, <3>2, <3>3 DEF Porting!Copies
  <2> QED
    BY <2>1, <2>2
<1>3. \A k, k2 \in 1 .. Made : PortOf(k) = PortOf(k2) => k = k2
  BY DEF PortInv, SignalsMade
<1> QED
  BY <1>2, <1>3

(* However the visits are ordered and whatever drives and reads the        *)
(* objects, the renamed entity is legal VHDL in which every reader and     *)
(* every port has the drivers it had (PreRefine_identifierNames.cpp:75-158, *)
(* PreRefine_readOutPorts.cpp:88-149).                                     *)
THEOREM PortsCorrect ==
  ASSUME \A e \in Entities : Porting!WellFormed(e)
  PROVE  Porting!Spec => []SamePorts
<1>1. PortInv /\ [Porting!Next]_(Porting!portVars) => PortInv'
  <2> SUFFICES ASSUME PortInv, [Porting!Next]_(Porting!portVars) PROVE PortInv'
    OBVIOUS
  <2>1. CASE UNCHANGED Porting!portVars
    <3>1. UNCHANGED <<entity, decls, refs, visits, ports>>
      BY <2>1 DEF Porting!portVars
    <3>2. /\ Declared' = Declared /\ Referred' = Referred /\ OutPorts' = OutPorts /\ Made' = Made
          /\ \A k : PortOf(k)' = PortOf(k)
          /\ \A d : SourceName(d)' = SourceName(d) /\ NewName(d)' = NewName(d)
      BY <3>1 DEF Declared, Referred, OutPorts, Made, PortOf, SourceName, NewName
    <3>3. PICK m : m = Made
      OBVIOUS
    <3>4. PortTypes' /\ DeclsKept'
      BY <3>1, <3>2 DEF PortInv, PortTypes, DeclsKept
    <3>5. \A r, q : (ToObject(r, q)' <=> ToObject(r, q)) /\ (ToSignal(r, q)' <=> ToSignal(r, q))
      BY <3>1, <3>2, <3>3 DEF ToObject, ToSignal, Called
    <3>6. RefsKept'
      BY <3>1, <3>5 DEF PortInv, RefsKept
    <3>7. SignalsMade'
      BY <3>1, <3>2 DEF PortInv, SignalsMade
    <3>8. ReadsMoved'
      BY <3>1, <3>2 DEF PortInv, ReadsMoved
    <3> QED
      BY <3>1, <3>4, <3>6, <3>7, <3>8 DEF PortInv
  <2> QED
    BY <2>1, DeclarationStep, ReferenceStep, PortStep DEF Porting!Next
<1>2. ASSUME PortInv PROVE SamePorts
  <2> SUFFICES ASSUME visits = {}, ports = {}
               PROVE  /\ \A d \in DOMAIN decls : Porting!Legal(decls[d].name)
                      /\ \A r \in DOMAIN refs : Porting!Named(r) = {refs[r].to}
                      /\ \A r \in DOMAIN refs : Porting!Reads(r) => decls[refs[r].to].kind # "out"
                      /\ \A r \in DOMAIN entity.refs :
                           Porting!Reads(r) => Porting!Driven(refs[r].to) = Porting!Meant(entity.refs[r].to)
                      /\ \A d \in DOMAIN entity.decls :
                           /\ Porting!DrivenBy(d) = Porting!Meant(d)
                           /\ Porting!Copies(d) # {} => Porting!Driven(d) = {}
    BY DEF SamePorts, Porting!SamePorts
  <2>1. /\ Declared \in Nat /\ Referred \in Nat /\ Made \in Nat /\ OutPorts \subseteq 1 .. Declared
        /\ DOMAIN decls = 1 .. Declared + Made /\ DOMAIN entity.decls = 1 .. Declared
        /\ DOMAIN refs = 1 .. Referred + 2 * Made /\ DOMAIN entity.refs = 1 .. Referred
        /\ entity \in Entities
    BY <1>2, AllNamed
  <2>2. ASSUME NEW d \in 1 .. Declared
        PROVE  decls[d].name = NewName(d) /\ decls[d].kind = entity.decls[d].kind
    <3>1. decls[d] = [name |-> NewName(d), kind |-> entity.decls[d].kind]
      BY <1>2, AllNamed
    <3> QED
      BY <3>1
  <2>3. ASSUME NEW d \in 1 .. Declared + Made, d \notin 1 .. Declared PROVE \E k \in 1 .. Made : d = Declared + k
    <3>1. d - Declared \in 1 .. Made /\ d = Declared + (d - Declared)
      BY <2>1, <2>3
    <3> QED
      BY <3>1
  <2>4. ASSUME NEW d \in 1 .. Declared + Made PROVE Porting!Legal(decls[d].name)
    <3>1. CASE d \in 1 .. Declared
      BY <2>1, <2>2, <3>1, NewNames
    <3>2. CASE d \notin 1 .. Declared
      <4>1. PICK k \in 1 .. Made : d = Declared + k
        BY <2>3, <3>2
      <4>2. PortOf(k) \in 1 .. Declared /\ decls[d].name = Porting!SignalName(NewName(PortOf(k)))
        BY <1>2, <2>1, <4>1, SignalParts
      <4> QED
        BY <2>1, <4>2, NewNames
    <3> QED
      BY <3>1, <3>2
  <2>5. \A r \in 1 .. Referred + 2 * Made : Porting!Named(r) = {refs[r].to}
    BY <1>2, NamesResolve
  <2>6. ASSUME NEW r \in 1 .. Referred
        PROVE  /\ refs[r].use = entity.refs[r].use /\ entity.refs[r].to \in 1 .. Declared
               /\ entity.refs[r].use \in {"target", "actual", "read", "in_actual"}
               /\ \/ refs[r].to = entity.refs[r].to /\ \A k \in 1 .. Made : PortOf(k) # entity.refs[r].to
                  \/ \E k \in 1 .. Made : PortOf(k) = entity.refs[r].to /\ refs[r].to = Declared + k
    <3>1. entity.refs[r].use \in {"target", "actual", "read", "in_actual"}
      BY <2>1, EntityShape
    <3> QED
      BY <1>2, <3>1, AllNamed DEF ToSignal
  <2>7. ASSUME NEW r \in 1 .. Referred + 2 * Made, Porting!Reads(r) PROVE decls[refs[r].to].kind # "out"
    <3>1. CASE r \in 1 .. Referred
      <4>1. CASE refs[r].to = entity.refs[r].to /\ \A k \in 1 .. Made : PortOf(k) # entity.refs[r].to
        <5> SUFFICES ASSUME decls[refs[r].to].kind = "out" PROVE FALSE
          OBVIOUS
        <5>1. entity.refs[r].to \in OutPorts
          BY <2>1, <2>2, <2>6, <3>1, <4>1 DEF OutPorts
        <5>2. entity.refs[r].use \notin {"read", "in_actual"}
          BY <1>2, <2>1, <3>1, <4>1, <5>1 DEF PortInv, ReadsMoved
        <5> QED
          BY <2>6, <2>7, <3>1, <5>2 DEF Porting!Reads
      <4>2. CASE \E k \in 1 .. Made : PortOf(k) = entity.refs[r].to /\ refs[r].to = Declared + k
        BY <1>2, <4>2, SignalParts
      <4> QED
        BY <2>6, <3>1, <4>1, <4>2
    <3>2. CASE r \notin 1 .. Referred
      <4>1. r \in Referred + 1 .. Referred + 2 * Made
        BY <2>1, <3>2
      <4>2. PICK k \in 1 .. Made : r = Referred + 2 * k - 1 \/ r = Referred + 2 * k
        BY <2>1, <4>1, InPairs
      <4>3. CASE r = Referred + 2 * k - 1
        BY <1>2, <2>7, <4>3, SignalParts DEF Porting!Reads
      <4>4. CASE r = Referred + 2 * k
        BY <1>2, <4>4, SignalParts
      <4> QED
        BY <4>2, <4>3, <4>4
    <3> QED
      BY <3>1, <3>2
  <2>8. ASSUME NEW r \in 1 .. Referred
        PROVE  Porting!Driven(refs[r].to) = Porting!Meant(entity.refs[r].to)
    BY <1>2, <2>6, DriversKept
  <2>9. ASSUME NEW d \in 1 .. Declared
        PROVE  /\ Porting!DrivenBy(d) = Porting!Meant(d)
               /\ Porting!Copies(d) # {} => Porting!Driven(d) = {}
    <3>1. CASE \A k \in 1 .. Made : PortOf(k) # d
      <4>1. Porting!Copies(d) = {} /\ Porting!Driven(d) = Porting!Meant(d)
        BY <1>2, <3>1, CopiesMade, DriversKept
      <4> QED
        BY <4>1 DEF Porting!DrivenBy
    <3>2. CASE \E k \in 1 .. Made : PortOf(k) = d
      <4>1. PICK k \in 1 .. Made : PortOf(k) = d
        BY <3>2
      <4> DEFINE c == Referred + 2 * k - 1
                 t == Declared + k
      <4>2. /\ Porting!Copies(d) = {c} /\ Porting!Driven(d) = {} /\ Porting!Driven(t) = Porting!Meant(d)
        BY <1>2, <4>1, CopiesMade, DriversKept
      <4>3. t \in 1 .. Declared + Made /\ c + 1 \in 1 .. Referred + 2 * Made /\ c + 1 = Referred + 2 * k
        BY <2>1
      <4>4. Porting!Named(c + 1) = {t}
        <5>1. refs[c + 1].to = t
          BY <1>2, <4>3, SignalParts
        <5> QED
          BY <2>5, <4>3, <5>1
      <4> HIDE DEF c, t
      <4>5. {u \in DOMAIN decls : \E r \in Porting!Copies(d) : Porting!Named(r + 1) = {u}} = {t}
        BY <2>1, <4>2, <4>3, <4>4
      <4> QED
        BY <4>2, <4>5 DEF Porting!DrivenBy
    <3> QED
      BY <3>1, <3>2
  <2> QED
    BY <2>1, <2>4, <2>5, <2>7, <2>8, <2>9
<1>3. Porting!Init => PortInv
  BY PortsInit
<1> QED
  BY <1>1, <1>2, <1>3, PTL DEF Porting!Spec

-----------------------------------------------------------------------------
(* Subprograms. *)

(* What a local, an argument or a result can hold, and what an activation, *)
(* the static storage and the caller are.                                  *)
Held3 == {"0", "1", "X"}
Activations == [local : Held3, out : Held3, assigned : BOOLEAN, result : Held3, returned : BOOLEAN]
Storage == [local : Held3, out : Held3, result : Held3]
Running == [local : Held3, out : Held3, result : Held3, later : SUBSET Held3, left : BOOLEAN]
Statements ==
  [guard : BOOLEAN, to : {"local", "out", "result", "nothing"}, value : {"v", "local", "0", "1"}, disables : BOOLEAN]
Callers == [y : Held3, pending : SUBSET Held3, st : Storage]

-----------------------------------------------------------------------------
(* What holds at 0 and is passed on holds as far as it is passed on. *)
LEMMA Upwards ==
  ASSUME NEW n1 \in Nat, NEW S, 0 \in S, \A i \in 0 .. n1 : i # n1 /\ i \in S => i + 1 \in S
  PROVE  \A i \in 0 .. n1 : i \in S
<1> DEFINE Bad == {i \in 0 .. n1 : i \notin S}
<1> SUFFICES ASSUME Bad # {} PROVE FALSE
  OBVIOUS
<1>1. Bad \in SUBSET Nat
  OBVIOUS
<1>2. PICK m \in Bad : \A j \in Bad : m <= j
  BY <1>1, Least
<1>3. m \in Nat /\ m # 0 /\ m \in 0 .. n1 /\ m \notin S
  BY <1>2
<1>4. m - 1 \in 0 .. n1 /\ m - 1 # n1 /\ m - 1 + 1 = m /\ ~(m <= m - 1)
  BY <1>3
<1>5. m - 1 \in S
  BY <1>2, <1>4
<1> QED
  BY <1>3, <1>4, <1>5

Steps(n1, base, step, f) == f[0] = base /\ \A i \in 1 .. n1 : f[i] = step[<<i, f[i - 1]>>]
(* A step that is a function can be taken as often as one likes. *)
LEMMA Folded ==
  ASSUME NEW S, NEW base \in S, NEW n1 \in Nat, NEW step \in [(1 .. n1) \X S -> S]
  PROVE  \E f : f \in [0 .. n1 -> S] /\ Steps(n1, base, step, f)
<1> DEFINE Upto(m, f) == f[0] = base /\ \A i \in 1 .. m : f[i] = step[<<i, f[i - 1]>>]
           Good == {m \in 0 .. n1 : \E f \in [0 .. n1 -> S] : Upto(m, f)}
<1>1. 0 \in Good
  <2> DEFINE g == [i \in 0 .. n1 |-> base]
  <2>1. g \in [0 .. n1 -> S] /\ Upto(0, g) /\ 0 \in 0 .. n1
    OBVIOUS
  <2> HIDE DEF g, Upto
  <2> QED
    BY <2>1
<1>2. ASSUME NEW m \in 0 .. n1, m # n1, m \in Good PROVE m + 1 \in Good
  <2>1. PICK f \in [0 .. n1 -> S] : Upto(m, f)
    BY <1>2
  <2> DEFINE x == step[<<m + 1, f[m]>>]
             g == [i \in 0 .. n1 |-> IF i = m + 1 THEN x ELSE f[i]]
  <2>2. m + 1 \in 1 .. n1 /\ m + 1 # 0 /\ f[m] \in S
    BY <1>2
  <2>3. x \in S
    BY <2>2
  <2>4. g \in [0 .. n1 -> S] /\ g[0] = base
    BY <2>1, <2>2, <2>3
  <2>5. ASSUME NEW i \in 1 .. m + 1 PROVE g[i] = step[<<i, g[i - 1]>>]
    <3>1. i \in 0 .. n1 /\ i - 1 \in 0 .. n1 /\ i - 1 # m + 1
      BY <2>2
    <3>2. g[i - 1] = f[i - 1]
      BY <3>1
    <3>3. CASE i = m + 1
      <4>1. g[i] = x /\ i - 1 = m
        BY <2>2, <3>1, <3>3
      <4> HIDE DEF g
      <4> QED
        BY <3>2, <3>3, <4>1
    <3>4. CASE i # m + 1
      <4>1. i \in 1 .. m /\ g[i] = f[i]
        BY <3>1, <3>4
      <4> HIDE DEF g
      <4> QED
        BY <2>1, <3>2, <4>1
    <3> QED
      BY <3>3, <3>4
  <2> HIDE DEF g, x
  <2>6. Upto(m + 1, g)
    BY <2>4, <2>5
  <2> QED
    BY <2>2, <2>4, <2>6
<1> HIDE DEF Good
<1>3. n1 \in 0 .. n1 /\ \A i \in 0 .. n1 : i \in Good
  BY <1>1, <1>2, Upwards
<1> QED
  BY <1>3 DEF Good, Steps

(* Each statement of the source leaves an activation, and each of the      *)
(* output one of the storage.                                              *)
LEMMA Values ==
  ASSUME NEW x \in {"v", "local", "0", "1"}, NEW v \in Calling!Bit, NEW y \in Held3
  PROVE  Calling!Value(x, v, y) \in Held3
BY DEF Calling!Value, Calling!Bit, Held3

LEMMA SourceOpType ==
  ASSUME NEW v \in Calling!Bit, NEW a \in Activations, NEW o \in Calling!Op
  PROVE  Calling!SourceOp(v, a, o) \in Activations
<1> DEFINE x == Calling!Value(o.value, v, a.local)
<1>1. x \in Held3
  BY Values DEF Calling!Op, Activations
<1> HIDE DEF x
<1> QED
  BY <1>1 DEF Calling!SourceOp, Activations, x

LEMMA PerformType ==
  ASSUME NEW v \in Calling!Bit, NEW a \in Running,
         NEW w \in Statements
  PROVE  Calling!Perform(v, a, w) \in Running
<1> DEFINE x == Calling!Value(w.value, v, a.local)
<1>1. x \in Held3 /\ a.local \in Held3 /\ a.out \in Held3 /\ a.result \in Held3 /\ a.later \in SUBSET Held3
  BY Values DEF Running, Statements
<1>2. w.to \in {"local", "out", "result", "nothing"} /\ w.disables \in BOOLEAN
  BY DEF Statements
<1> HIDE DEF x
<1>3. Calling!Do(v, a, w) \in Running
  BY <1>1, <1>2 DEF Calling!Do, Calling!Blocking, Running, x
<1> QED
  BY <1>3 DEF Calling!Perform

(* The activations of a call, one after each statement of the body. *)
Activates(d, v, f) ==
  /\ DOMAIN f = 0 .. Len(d.body) /\ f[0] = Calling!Fresh(d)
  /\ \A i \in 1 .. Len(d.body) : f[i] = Calling!SourceOp(v, f[i - 1], d.body[i])
LEMMA SourceCallSteps ==
  ASSUME NEW d, Calling!WellFormed(d), NEW v \in Calling!Bit
  PROVE  \E f : Activates(d, v, f) /\ Calling!SourceCall(d, v) = f[Len(d.body)]
<1> DEFINE n1 == Len(d.body)
           step == [x \in (1 .. n1) \X Activations |-> Calling!SourceOp(v, x[2], d.body[x[1]])]
           Rec(f) == f = [i \in 0 .. n1 |-> IF i = 0 THEN Calling!Fresh(d) ELSE Calling!SourceOp(v, f[i - 1], d.body[i])]
           c == CHOOSE f : Rec(f)
<1>1. n1 \in Nat /\ (\A i \in 1 .. n1 : d.body[i] \in Calling!Op) /\ Calling!Fresh(d) \in Activations
  BY DEF Calling!WellFormed, Calling!Fresh, Activations, Held3
<1>2. step \in [(1 .. n1) \X Activations -> Activations]
  <2> HIDE DEF n1
  <2> QED
    BY <1>1, SourceOpType
<1> HIDE DEF n1
<1>3. \A i \in 1 .. n1, a \in Activations : step[<<i, a>>] = Calling!SourceOp(v, a, d.body[i])
  OBVIOUS
<1> HIDE DEF step
<1>4. PICK g : g \in [0 .. n1 -> Activations] /\ Steps(n1, Calling!Fresh(d), step, g)
  BY <1>1, <1>2, Folded
<1>5. ASSUME NEW i \in 1 .. n1 PROVE g[i] = Calling!SourceOp(v, g[i - 1], d.body[i])
  <2>1. i - 1 \in 0 .. n1
    BY <1>1
  <2> QED
    BY <1>3, <1>4, <2>1 DEF Steps
<1>6. Rec(g)
  <2>1. \A i \in 0 .. n1 : i # 0 => i \in 1 .. n1
    BY <1>1
  <2> QED
    BY <1>4, <1>5, <2>1 DEF Steps
<1>7. Rec(c)
  <2> HIDE DEF Rec
  <2> QED
    BY <1>6
<1>8. Calling!SourceCall(d, v) = c[n1]
  BY DEF Calling!SourceCall, n1
<1> HIDE DEF c
<1>9. DOMAIN c = 0 .. n1 /\ \A i \in 0 .. n1 :
        c[i] = IF i = 0 THEN Calling!Fresh(d) ELSE Calling!SourceOp(v, c[i - 1], d.body[i])
  BY <1>7
<1> HIDE DEF Rec
<1>10. 0 \in 0 .. n1 /\ \A i \in 1 .. n1 : i \in 0 .. n1 /\ i # 0
  BY <1>1
<1>11. Activates(d, v, c)
  BY <1>9, <1>10 DEF Activates, n1
<1> QED
  BY <1>8, <1>11 DEF n1

LEMMA SourceCallType ==
  ASSUME NEW d, Calling!WellFormed(d), NEW v \in Calling!Bit, NEW f, Activates(d, v, f)
  PROVE  \A i \in 0 .. Len(d.body) : f[i] \in Activations
<1> DEFINE n1 == Len(d.body)
           S == {i \in 0 .. n1 : f[i] \in Activations}
<1>1. /\ n1 \in Nat /\ (\A i \in 1 .. n1 : d.body[i] \in Calling!Op)
      /\ Calling!Fresh(d) \in Activations /\ f[0] = Calling!Fresh(d)
      /\ \A i \in 1 .. n1 : f[i] = Calling!SourceOp(v, f[i - 1], d.body[i])
  BY DEF Calling!WellFormed, Calling!Fresh, Activations, Held3, Activates
<1> HIDE DEF n1
<1>2. 0 \in S
  BY <1>1
<1>3. ASSUME NEW i \in 0 .. n1, i # n1, i \in S PROVE i + 1 \in S
  <2>1. i + 1 \in 1 .. n1 /\ i + 1 - 1 = i /\ i + 1 \in 0 .. n1
    BY <1>1, <1>3
  <2>2. f[i + 1] = Calling!SourceOp(v, f[i], d.body[i + 1]) /\ f[i] \in Activations
    BY <1>1, <1>3, <2>1
  <2>3. f[i + 1] \in Activations
    BY <1>1, <2>1, <2>2, SourceOpType
  <2> QED
    BY <2>1, <2>3
<1> HIDE DEF S
<1>4. \A i \in 0 .. n1 : i \in S
  BY <1>1, <1>2, <1>3, Upwards
<1> QED
  BY <1>4 DEF S, n1

(* The storage of a call, after each statement that was printed. *)
Entered(st) == [local |-> st.local, out |-> st.out, result |-> st.result, later |-> {}, left |-> FALSE]
Performs(w, v, st, f) ==
  /\ DOMAIN f = 0 .. Len(w) /\ f[0] = Entered(st)
  /\ \A i \in 1 .. Len(w) : f[i] = Calling!Perform(v, f[i - 1], w[i])
LEMMA CallSteps ==
  ASSUME NEW w \in Seq(Statements), NEW v \in Calling!Bit, NEW st \in Storage
  PROVE  \E f : Performs(w, v, st, f) /\ Calling!Call(w, v, st) = f[Len(w)]
<1> DEFINE n1 == Len(w)
           step == [x \in (1 .. n1) \X Running |-> Calling!Perform(v, x[2], w[x[1]])]
           Rec(f) == f = [i \in 0 .. n1 |-> IF i = 0 THEN Entered(st) ELSE Calling!Perform(v, f[i - 1], w[i])]
           c == CHOOSE f : Rec(f)
<1>1. n1 \in Nat /\ (\A i \in 1 .. n1 : w[i] \in Statements) /\ Entered(st) \in Running
  BY DEF Storage, Running, Entered
<1>2. step \in [(1 .. n1) \X Running -> Running]
  <2> HIDE DEF n1
  <2> QED
    BY <1>1, PerformType
<1> HIDE DEF n1
<1>3. \A i \in 1 .. n1, a \in Running : step[<<i, a>>] = Calling!Perform(v, a, w[i])
  OBVIOUS
<1> HIDE DEF step
<1>4. PICK g : g \in [0 .. n1 -> Running] /\ Steps(n1, Entered(st), step, g)
  BY <1>1, <1>2, Folded
<1>5. ASSUME NEW i \in 1 .. n1 PROVE g[i] = Calling!Perform(v, g[i - 1], w[i])
  <2>1. i - 1 \in 0 .. n1
    BY <1>1
  <2> QED
    BY <1>3, <1>4, <2>1 DEF Steps
<1>6. Rec(g)
  <2>1. \A i \in 0 .. n1 : i # 0 => i \in 1 .. n1
    BY <1>1
  <2> QED
    BY <1>4, <1>5, <2>1 DEF Steps
<1>7. Rec(c)
  <2> HIDE DEF Rec
  <2> QED
    BY <1>6
<1>8. Calling!Call(w, v, st) = c[n1]
  BY DEF Calling!Call, Entered, n1
<1> HIDE DEF c
<1>9. DOMAIN c = 0 .. n1 /\ \A i \in 0 .. n1 :
        c[i] = IF i = 0 THEN Entered(st) ELSE Calling!Perform(v, c[i - 1], w[i])
  BY <1>7
<1> HIDE DEF Rec
<1>10. 0 \in 0 .. n1 /\ \A i \in 1 .. n1 : i \in 0 .. n1 /\ i # 0
  BY <1>1
<1>11. Performs(w, v, st, c)
  BY <1>9, <1>10 DEF Performs, n1
<1> QED
  BY <1>8, <1>11 DEF n1

(* What is printed for each statement of the body, and before it. *)
Offset(d) == IF d.stated THEN 1 ELSE 0
Said(d, i) ==
  IF d.body[i].op = "return" THEN Calling!Return(d, i)
  ELSE Calling!Statement(d.body[i].guard, d.body[i].op, d.body[i].value, FALSE)
LEMMA BodyShape ==
  ASSUME NEW d, Calling!WellFormed(d)
  PROVE  /\ Calling!Body(d) \in Seq(Statements) /\ Len(Calling!Body(d)) = Offset(d) + Len(d.body)
         /\ \A i \in 1 .. Len(d.body) :
              Said(d, i) \in Statements /\ Calling!Body(d)[Offset(d) + i] = Said(d, i)
         /\ d.stated => Calling!Body(d)[1] = Calling!Statement(FALSE, "local", "1", FALSE)
<1> DEFINE n1 == Len(d.body)
           w == [i \in 1 .. n1 |-> Said(d, i)]
           z == Calling!LocalInitialization(d)
<1>1. n1 \in Nat /\ (\A i \in 1 .. n1 : d.body[i] \in Calling!Op) /\ d.function \in BOOLEAN /\ d.stated \in BOOLEAN
  BY DEF Calling!WellFormed
<1>2. Calling!Body(d) = z \o w
  BY DEF Calling!Body, Said
<1> HIDE DEF n1
<1>3. \A i \in 1 .. n1 : Said(d, i) \in Statements
  <2> SUFFICES ASSUME NEW i \in 1 .. n1 PROVE Said(d, i) \in Statements
    OBVIOUS
  <2>1. d.body[i] \in Calling!Op
    BY <1>1
  <2>2. Calling!Trailing(d, i) \in BOOLEAN
    BY DEF Calling!Trailing
  <2>3. CASE d.body[i].op = "return"
    BY <1>1, <2>1, <2>2, <2>3 DEF Said, Calling!Return, Calling!Statement, Statements, Calling!Op
  <2>4. CASE d.body[i].op # "return"
    BY <1>1, <2>1, <2>4 DEF Said, Calling!Statement, Statements, Calling!Op
  <2> QED
    BY <2>3, <2>4
<1>4. w \in Seq(Statements) /\ Len(w) = n1 /\ \A i \in 1 .. n1 : w[i] = Said(d, i)
  BY <1>1, <1>3
<1>5. z \in Seq(Statements) /\ Len(z) = Offset(d)
      /\ (d.stated => z[1] = Calling!Statement(FALSE, "local", "1", FALSE))
  <2> DEFINE first == Calling!Statement(FALSE, "local", "1", FALSE)
  <2>1. first \in Statements
    BY DEF Calling!Statement, Statements
  <2> HIDE DEF first
  <2>2. CASE d.stated
    <3>1. z = <<first>>
      BY <2>2 DEF Calling!LocalInitialization, first
    <3>2. <<first>> \in Seq(Statements) /\ Len(<<first>>) = 1 /\ <<first>>[1] = first
      BY <2>1
    <3>3. Offset(d) = 1
      BY <2>2 DEF Offset
    <3> HIDE DEF z
    <3>4. z \in Seq(Statements) /\ Len(z) = Offset(d) /\ z[1] = first
      BY <3>1, <3>2, <3>3
    <3> QED
      BY <3>4 DEF first
  <2>3. CASE ~d.stated
    <3>1. z = <<>>
      BY <2>3 DEF Calling!LocalInitialization
    <3>2. Offset(d) = 0
      BY <2>3 DEF Offset
    <3> HIDE DEF z
    <3>3. z \in Seq(Statements) /\ Len(z) = Offset(d)
      BY <3>1, <3>2, EmptySeq
    <3> QED
      BY <2>3, <3>3
  <2> QED
    BY <2>2, <2>3
<1> HIDE DEF w, z
<1>6. /\ z \o w \in Seq(Statements) /\ Len(z \o w) = Len(z) + Len(w)
      /\ \A i \in 1 .. Len(z) + Len(w) : (z \o w)[i] = IF i <= Len(z) THEN z[i] ELSE w[i - Len(z)]
  BY <1>4, <1>5, ConcatProperties
<1>7. Offset(d) \in {0, 1} /\ (d.stated => Offset(d) = 1)
  BY <1>1 DEF Offset
<1>8. ASSUME NEW i \in 1 .. n1 PROVE (z \o w)[Offset(d) + i] = Said(d, i)
  <2>1. Offset(d) + i \in 1 .. Offset(d) + n1 /\ ~(Offset(d) + i <= Offset(d)) /\ Offset(d) + i - Offset(d) = i
    BY <1>1, <1>7
  <2> QED
    BY <1>4, <1>5, <1>6, <2>1
<1>9. d.stated => (z \o w)[1] = z[1]
  BY <1>1, <1>4, <1>5, <1>6, <1>7
<1> QED
  BY <1>2, <1>3, <1>4, <1>5, <1>6, <1>8, <1>9 DEF n1

(* A value of the source is the output's, if VHDL gives it one. *)
Agrees(x, y) == x = "X" \/ x = y

(* The two calls after i statements. *)
Abreast(d, st, i, a, b) ==
  /\ a \in Activations /\ b \in Running /\ b.later = {}
  /\ Agrees(a.local, b.local) /\ Agrees(a.out, b.out)
  /\ d.function => Agrees(a.result, b.result)
  /\ ~a.assigned => b.out = st.out
  /\ i # Len(d.body) => (a.returned <=> b.left)

LEMMA CallEntered ==
  ASSUME NEW d, Calling!WellFormed(d), NEW v \in Calling!Bit, NEW st \in Storage,
         NEW g, Performs(Calling!Body(d), v, st, g)
  PROVE  Abreast(d, st, 0, Calling!Fresh(d), g[Offset(d)])
<1> DEFINE first == Calling!Statement(FALSE, "local", "1", FALSE)
<1>1. /\ Calling!Fresh(d) \in Activations /\ Entered(st) \in Running /\ g[0] = Entered(st)
      /\ d.stated \in BOOLEAN /\ Len(d.body) \in Nat
      /\ Len(Calling!Body(d)) = Offset(d) + Len(d.body)
      /\ d.stated => Calling!Body(d)[1] = first
      /\ \A i \in 1 .. Len(Calling!Body(d)) : g[i] = Calling!Perform(v, g[i - 1], Calling!Body(d)[i])
  <2>1. d.stated \in BOOLEAN /\ Len(d.body) \in Nat
    BY DEF Calling!WellFormed
  <2>2. Calling!Fresh(d) \in Activations /\ Entered(st) \in Running
    BY <2>1 DEF Calling!Fresh, Activations, Held3, Entered, Storage, Running
  <2>3. /\ Len(Calling!Body(d)) = Offset(d) + Len(d.body)
        /\ d.stated => Calling!Body(d)[1] = first
    BY BodyShape
  <2>4. g[0] = Entered(st) /\
        \A i \in 1 .. Len(Calling!Body(d)) : g[i] = Calling!Perform(v, g[i - 1], Calling!Body(d)[i])
    BY DEF Performs
  <2> HIDE DEF first
  <2> QED
    BY <2>1, <2>2, <2>3, <2>4
<1>2. CASE ~d.stated
  BY <1>1, <1>2 DEF Abreast, Agrees, Offset, Calling!Fresh, Entered
<1>3. CASE d.stated
  <2>1. Offset(d) = 1 /\ 1 \in 1 .. Len(Calling!Body(d))
    BY <1>1, <1>3 DEF Offset
  <2>2. g[1] = Calling!Perform(v, Entered(st), first)
    <3>1. g[1] = Calling!Perform(v, g[1 - 1], Calling!Body(d)[1]) /\ 1 - 1 = 0
      BY <1>1, <2>1
    <3> HIDE DEF first
    <3> QED
      BY <1>1, <1>3, <3>1
  <2>3. first \in Statements /\ ~first.guard
    BY DEF Calling!Statement, Statements
  <2>4. g[1] = Calling!Do(v, Entered(st), first) /\ g[1] \in Running
    BY <1>1, <2>2, <2>3, PerformType DEF Calling!Perform, Entered
  <2>5. g[1].local = "1" /\ g[1].out = st.out /\ g[1].later = {} /\ g[1].left = FALSE
    BY <2>4 DEF Calling!Do, Calling!Blocking, Calling!Value, Calling!Statement, Entered
  <2> HIDE DEF first
  <2> QED
    BY <1>1, <1>3, <2>1, <2>4, <2>5 DEF Abreast, Agrees, Calling!Fresh
<1> QED
  BY <1>1, <1>2, <1>3

LEMMA ValuesAgree ==
  ASSUME NEW x \in {"v", "local", "0", "1"}, NEW v \in Calling!Bit, NEW y \in Held3, NEW z \in Held3, Agrees(y, z)
  PROVE  Agrees(Calling!Value(x, v, y), Calling!Value(x, v, z))
BY DEF Calling!Value, Agrees, Calling!Bit, Held3

(* A statement and what is printed for it, unless the call is over or the  *)
(* guard fails.                                                            *)
LEMMA StatementsAgree ==
  ASSUME NEW d, Calling!WellFormed(d), NEW v \in Calling!Bit, NEW st \in Storage,
         NEW i \in 1 .. Len(d.body), NEW a, NEW b, Abreast(d, st, i - 1, a, b)
  PROVE  Abreast(d, st, i, Calling!SourceOp(v, a, d.body[i]), Calling!Perform(v, b, Said(d, i)))
<1> DEFINE o == d.body[i]
           s == Said(d, i)
           a2 == Calling!SourceOp(v, a, o)
           b2 == Calling!Perform(v, b, s)
           x == Calling!Value(o.value, v, a.local)
           y == Calling!Value(o.value, v, b.local)
<1>1. Len(d.body) \in Nat /\ o \in Calling!Op /\ s \in Statements /\ i - 1 # Len(d.body)
      /\ s.guard = o.guard /\ s.value = o.value /\ d.function \in BOOLEAN
  <2>1. Len(d.body) \in Nat /\ o \in Calling!Op /\ d.function \in BOOLEAN
    BY DEF Calling!WellFormed
  <2>2. s.guard = o.guard /\ s.value = o.value
    BY DEF Said, Calling!Return, Calling!Statement
  <2>3. s \in Statements
    BY BodyShape
  <2> QED
    BY <2>1, <2>2, <2>3
<1>2. /\ a \in Activations /\ b \in Running /\ b.later = {} /\ Agrees(a.local, b.local)
      /\ a.returned <=> b.left
  BY <1>1 DEF Abreast
<1>3. a2 \in Activations /\ b2 \in Running
  BY <1>1, <1>2, SourceOpType, PerformType
<1>4. CASE a.returned \/ (o.guard /\ v = "0")
  <2>1. a2 = a /\ b2 = b
    BY <1>1, <1>2, <1>4 DEF Calling!SourceOp, Calling!Perform
  <2> HIDE DEF a2, b2
  <2> QED
    BY <1>1, <1>2, <2>1 DEF Abreast, a2, b2
<1>5. CASE ~(a.returned \/ (o.guard /\ v = "0"))
  <2>1. Agrees(x, y) /\ x \in Held3 /\ y \in Held3
    <3>1. o.value \in {"v", "local", "0", "1"} /\ a.local \in Held3 /\ b.local \in Held3
      BY <1>1, <1>2 DEF Calling!Op, Activations, Running
    <3> QED
      BY <1>2, <3>1, Values, ValuesAgree
  <2>2. b2 = Calling!Do(v, b, s)
    BY <1>1, <1>2, <1>5 DEF Calling!Perform
  <2>3. /\ a2.local = (IF o.op = "local" THEN x ELSE a.local)
        /\ a2.out = (IF o.op = "out" THEN x ELSE a.out)
        /\ a2.assigned = (a.assigned \/ o.op = "out")
        /\ a2.result = (IF o.op = "return" THEN x ELSE a.result)
        /\ a2.returned = (o.op = "return")
    BY <1>5 DEF Calling!SourceOp
  <2>4. /\ b2.local = (IF s.to = "local" THEN y ELSE b.local)
        /\ b2.out = (IF s.to = "out" THEN y ELSE b.out)
        /\ b2.result = (IF s.to = "result" THEN y ELSE b.result)
        /\ b2.later = b.later /\ b2.left = s.disables
    <3>1. s.to \in {"local", "out", "result", "nothing"}
      BY <1>1 DEF Statements
    <3> QED
      BY <1>1, <2>2, <3>1 DEF Calling!Do, Calling!Blocking
  <2>5. /\ s.to = "local" <=> o.op = "local"
        /\ s.to = "out" <=> o.op = "out"
        /\ d.function => (s.to = "result" <=> o.op = "return")
        /\ i # Len(d.body) => (s.disables <=> o.op = "return")
    <3>1. o.op \in {"local", "out", "return"}
      BY <1>1 DEF Calling!Op
    <3> QED
      BY <3>1 DEF Said, Calling!Return, Calling!Statement, Calling!Trailing
  <2> HIDE DEF a2, b2, x, y, s
  <2>6. Agrees(a.out, b.out) /\ (d.function => Agrees(a.result, b.result)) /\ (~a.assigned => b.out = st.out)
    BY DEF Abreast
  <2>7. Agrees(a2.local, b2.local) /\ Agrees(a2.out, b2.out)
    BY <1>2, <2>1, <2>3, <2>4, <2>5, <2>6
  <2>8. d.function => Agrees(a2.result, b2.result)
    BY <2>1, <2>3, <2>4, <2>5, <2>6
  <2>9. ~a2.assigned => b2.out = st.out
    BY <2>3, <2>4, <2>5, <2>6
  <2>10. i # Len(d.body) => (a2.returned <=> b2.left)
    BY <2>3, <2>4, <2>5
  <2> QED
    BY <1>2, <1>3, <2>4, <2>7, <2>8, <2>9, <2>10 DEF Abreast, a2, b2, s
<1> QED
  BY <1>4, <1>5

(* What a call of the task or function leaves. *)
LEMMA CallsAgree ==
  ASSUME NEW d, Calling!WellFormed(d), NEW v \in Calling!Bit, NEW st \in Storage
  PROVE  Abreast(d, st, Len(d.body), Calling!SourceCall(d, v), Calling!Call(Calling!Body(d), v, st))
<1> DEFINE n1 == Len(d.body)
           w == Calling!Body(d)
           k == Offset(d)
<1>1. w \in Seq(Statements) /\ n1 \in Nat /\ Len(w) = k + n1 /\ k \in {0, 1} /\ \A i \in 1 .. n1 : w[k + i] = Said(d, i)
  <2>1. w \in Seq(Statements) /\ Len(w) = k + n1 /\ \A i \in 1 .. n1 : w[k + i] = Said(d, i)
    BY BodyShape
  <2>2. n1 \in Nat /\ k \in {0, 1}
    BY DEF Calling!WellFormed, Offset
  <2> HIDE DEF n1, w, k
  <2> QED
    BY <2>1, <2>2
<1>2. PICK f : Activates(d, v, f) /\ Calling!SourceCall(d, v) = f[n1]
  BY SourceCallSteps
<1>3. PICK g : Performs(w, v, st, g) /\ Calling!Call(w, v, st) = g[Len(w)]
  BY <1>1, CallSteps
<1> DEFINE S == {i \in 0 .. n1 : Abreast(d, st, i, f[i], g[k + i])}
<1>4. 0 \in S
  <2>1. f[0] = Calling!Fresh(d) /\ k + 0 = k /\ 0 \in 0 .. n1
    BY <1>1, <1>2 DEF Activates
  <2>2. Abreast(d, st, 0, f[0], g[k])
    BY <1>3, <2>1, CallEntered
  <2> QED
    BY <2>1, <2>2
<1>5. ASSUME NEW i \in 0 .. n1, i # n1, i \in S PROVE i + 1 \in S
  <2> HIDE DEF n1, w, k
  <2>1. i + 1 \in 1 .. n1 /\ i + 1 - 1 = i /\ i + 1 \in 0 .. n1 /\ k + (i + 1) \in 1 .. Len(w) /\ k + (i + 1) - 1 = k + i
    BY <1>1, <1>5
  <2>2. f[i + 1] = Calling!SourceOp(v, f[i], d.body[i + 1])
    BY <1>2, <2>1 DEF Activates, n1
  <2>3. g[k + (i + 1)] = Calling!Perform(v, g[k + i], Said(d, i + 1))
    BY <1>1, <1>3, <2>1 DEF Performs
  <2>4. Abreast(d, st, i + 1 - 1, f[i], g[k + i])
    BY <1>5, <2>1
  <2>5. Abreast(d, st, i + 1, f[i + 1], g[k + (i + 1)])
    <3>1. PICK j \in 1 .. Len(d.body) : j = i + 1
      BY <2>1 DEF n1
    <3>2. Abreast(d, st, j - 1, f[i], g[k + i])
      BY <2>4, <3>1
    <3>3. Abreast(d, st, j, Calling!SourceOp(v, f[i], d.body[j]), Calling!Perform(v, g[k + i], Said(d, j)))
      BY <3>2, StatementsAgree
    <3> QED
      BY <2>2, <2>3, <3>1, <3>3
  <2> QED
    BY <2>1, <2>5
<1> HIDE DEF S
<1>6. \A i \in 0 .. n1 : i \in S
  BY <1>1, <1>4, <1>5, Upwards
<1>7. n1 \in 0 .. n1
  BY <1>1
<1>8. n1 \in S
  BY <1>6, <1>7
<1>9. Abreast(d, st, n1, f[n1], g[k + n1])
  BY <1>8 DEF S
<1> QED
  BY <1>1, <1>2, <1>3, <1>9

(* A statement of the caller. *)
LEMMA SourceStatementType ==
  ASSUME NEW d, Calling!WellFormed(d), NEW v \in Calling!Bit, NEW y \in Held3, NEW s \in {"zero", "call"}
  PROVE  Calling!SourceStatement(d, v, y, s) \in Held3
<1> DEFINE a == Calling!SourceCall(d, v)
           st == [local |-> "X", out |-> "X", result |-> "X"]
<1>1. st \in Storage
  BY DEF Storage, Held3
<1>2. a \in Activations
  BY <1>1, CallsAgree DEF Abreast
<1>3. a.out \in Held3 /\ a.result \in Held3 /\ "0" \in Held3
  BY <1>2 DEF Activations, Held3
<1> HIDE DEF a
<1>4. d.function \in BOOLEAN /\ d.class \in {"variable", "signal"}
  BY DEF Calling!WellFormed
<1>5. CASE s = "zero"
  BY <1>3, <1>5 DEF Calling!SourceStatement
<1>6. CASE s = "call" /\ d.function
  BY <1>3, <1>6 DEF Calling!SourceStatement, a
<1>7. CASE s = "call" /\ ~d.function /\ d.class = "signal"
  BY <1>3, <1>7 DEF Calling!SourceStatement, a
<1>8. CASE s = "call" /\ ~d.function /\ d.class # "signal"
  BY <1>3, <1>8 DEF Calling!SourceStatement, a
<1> QED
  BY <1>5, <1>6, <1>7, <1>8

(* The storage a call leaves. *)
Leaves(c) == [local |-> c.local, result |-> c.result, out |-> c.out]
LEMMA OutputStatements ==
  ASSUME NEW d, Calling!WellFormed(d), NEW v \in Calling!Bit, NEW a \in Callers, NEW s \in {"zero", "call"},
         NEW c, c = Calling!Call(Calling!Body(d), v, a.st)
  PROVE  /\ c \in Running /\ Leaves(c) \in Storage
         /\ s = "zero" => Calling!OutputStatement(d, Calling!Body(d), v, a, s) =
              [y       |-> IF d.class = "signal" THEN a.y ELSE "0",
               pending |-> IF d.class = "signal" THEN {"0"} ELSE a.pending,
               st      |-> a.st]
         /\ s = "call" /\ d.function => Calling!OutputStatement(d, Calling!Body(d), v, a, s) =
              [y       |-> IF d.class = "signal" THEN a.y ELSE c.result,
               pending |-> IF d.class = "signal" THEN {c.result} ELSE a.pending,
               st      |-> Leaves(c)]
         /\ s = "call" /\ ~d.function => Calling!OutputStatement(d, Calling!Body(d), v, a, s) =
              [y |-> c.out, pending |-> a.pending, st |-> Leaves(c)]
<1>1. a.st \in Storage
  BY DEF Callers
<1>2. c \in Running /\ c.later = {}
  BY <1>1, CallsAgree DEF Abreast
<1>3. Leaves(c) \in Storage
  BY <1>2 DEF Running, Storage, Leaves
<1>4. s = "zero" => Calling!OutputStatement(d, Calling!Body(d), v, a, s) =
              [y       |-> IF d.class = "signal" THEN a.y ELSE "0",
               pending |-> IF d.class = "signal" THEN {"0"} ELSE a.pending,
               st      |-> a.st]
  BY DEF Calling!OutputStatement
<1>5. s = "call" /\ d.function => Calling!OutputStatement(d, Calling!Body(d), v, a, s) =
              [y       |-> IF d.class = "signal" THEN a.y ELSE c.result,
               pending |-> IF d.class = "signal" THEN {c.result} ELSE a.pending,
               st      |-> Leaves(c)]
  BY <1>2 DEF Calling!OutputStatement, Leaves
<1>6. s = "call" /\ ~d.function => Calling!OutputStatement(d, Calling!Body(d), v, a, s) =
              [y |-> c.out, pending |-> a.pending, st |-> Leaves(c)]
  BY <1>2 DEF Calling!OutputStatement, Leaves
<1> QED
  BY <1>2, <1>3, <1>4, <1>5, <1>6

LEMMA CallerRecord ==
  ASSUME NEW y \in Held3, NEW p \in SUBSET Held3, NEW st \in Storage
  PROVE  [y |-> y, pending |-> p, st |-> st] \in Callers
BY DEF Callers

LEMMA OutputStatementType ==
  ASSUME NEW d, Calling!WellFormed(d), NEW v \in Calling!Bit, NEW a \in Callers, NEW s \in {"zero", "call"}
  PROVE  Calling!OutputStatement(d, Calling!Body(d), v, a, s) \in Callers
<1> DEFINE c == Calling!Call(Calling!Body(d), v, a.st)
           b == Calling!OutputStatement(d, Calling!Body(d), v, a, s)
<1>1. /\ c \in Running /\ Leaves(c) \in Storage
      /\ s = "zero" => b = [y       |-> IF d.class = "signal" THEN a.y ELSE "0",
                            pending |-> IF d.class = "signal" THEN {"0"} ELSE a.pending,
                            st      |-> a.st]
      /\ s = "call" /\ d.function => b = [y       |-> IF d.class = "signal" THEN a.y ELSE c.result,
                                          pending |-> IF d.class = "signal" THEN {c.result} ELSE a.pending,
                                          st      |-> Leaves(c)]
      /\ s = "call" /\ ~d.function => b = [y |-> c.out, pending |-> a.pending, st |-> Leaves(c)]
  BY OutputStatements
<1> HIDE DEF b, c
<1>2. /\ c.result \in Held3 /\ c.out \in Held3 /\ a.y \in Held3 /\ a.pending \in SUBSET Held3 /\ a.st \in Storage
      /\ "0" \in Held3
  BY <1>1 DEF Callers, Running, Held3
<1>3. CASE s = "zero"
  <2> DEFINE y2 == IF d.class = "signal" THEN a.y ELSE "0"
             p2 == IF d.class = "signal" THEN {"0"} ELSE a.pending
  <2>1. y2 \in Held3 /\ p2 \in SUBSET Held3
    BY <1>2
  <2>2. b = [y |-> y2, pending |-> p2, st |-> a.st]
    BY <1>1, <1>3
  <2> HIDE DEF y2, p2
  <2> QED
    BY <1>2, <2>1, <2>2, CallerRecord DEF b
<1>4. CASE s = "call" /\ d.function
  <2> DEFINE y2 == IF d.class = "signal" THEN a.y ELSE c.result
             p2 == IF d.class = "signal" THEN {c.result} ELSE a.pending
  <2>1. y2 \in Held3 /\ p2 \in SUBSET Held3
    BY <1>2
  <2>2. b = [y |-> y2, pending |-> p2, st |-> Leaves(c)]
    BY <1>1, <1>4
  <2> HIDE DEF y2, p2
  <2> QED
    BY <1>1, <2>1, <2>2, CallerRecord DEF b
<1>5. CASE s = "call" /\ ~d.function
  <2>1. b = [y |-> c.out, pending |-> a.pending, st |-> Leaves(c)]
    BY <1>1, <1>5
  <2> QED
    BY <1>1, <1>2, <2>1, CallerRecord DEF b
<1> QED
  BY <1>3, <1>4, <1>5

(* The target after each statement of the caller, in the source ...  *)
Targets(d, v, y0, f) ==
  /\ DOMAIN f = 0 .. Len(d.caller) /\ f[0] = y0
  /\ \A i \in 1 .. Len(d.caller) : f[i] = Calling!SourceStatement(d, v, f[i - 1], d.caller[i])
LEMMA SourceCallerSteps ==
  ASSUME NEW d, Calling!WellFormed(d), NEW v \in Calling!Bit, NEW y0 \in Held3
  PROVE  \E f : Targets(d, v, y0, f) /\ Calling!SourceCaller(d, v, y0) = f[Len(d.caller)]
<1> DEFINE n1 == Len(d.caller)
           step == [x \in (1 .. n1) \X Held3 |-> Calling!SourceStatement(d, v, x[2], d.caller[x[1]])]
           Rec(f) == f = [i \in 0 .. n1 |-> IF i = 0 THEN y0 ELSE Calling!SourceStatement(d, v, f[i - 1], d.caller[i])]
           c == CHOOSE f : Rec(f)
<1>1. n1 \in Nat /\ (\A i \in 1 .. n1 : d.caller[i] \in {"zero", "call"})
  BY DEF Calling!WellFormed
<1>2. step \in [(1 .. n1) \X Held3 -> Held3]
  <2> HIDE DEF n1
  <2> QED
    BY <1>1, SourceStatementType
<1> HIDE DEF n1
<1>3. \A i \in 1 .. n1, a \in Held3 : step[<<i, a>>] = Calling!SourceStatement(d, v, a, d.caller[i])
  OBVIOUS
<1> HIDE DEF step
<1>4. PICK g : g \in [0 .. n1 -> Held3] /\ Steps(n1, y0, step, g)
  BY <1>1, <1>2, Folded
<1>5. ASSUME NEW i \in 1 .. n1 PROVE g[i] = Calling!SourceStatement(d, v, g[i - 1], d.caller[i])
  <2>1. i - 1 \in 0 .. n1
    BY <1>1
  <2> QED
    BY <1>3, <1>4, <2>1 DEF Steps
<1>6. Rec(g)
  <2>1. \A i \in 0 .. n1 : i # 0 => i \in 1 .. n1
    BY <1>1
  <2> QED
    BY <1>4, <1>5, <2>1 DEF Steps
<1>7. Rec(c)
  <2> HIDE DEF Rec
  <2> QED
    BY <1>6
<1>8. Calling!SourceCaller(d, v, y0) = c[n1]
  BY DEF Calling!SourceCaller, n1
<1> HIDE DEF c
<1>9. DOMAIN c = 0 .. n1 /\ \A i \in 0 .. n1 :
        c[i] = IF i = 0 THEN y0 ELSE Calling!SourceStatement(d, v, c[i - 1], d.caller[i])
  BY <1>7
<1> HIDE DEF Rec
<1>10. 0 \in 0 .. n1 /\ \A i \in 1 .. n1 : i \in 0 .. n1 /\ i # 0
  BY <1>1
<1>11. Targets(d, v, y0, c)
  BY <1>9, <1>10 DEF Targets, n1
<1> QED
  BY <1>8, <1>11 DEF n1

(* ... and in the output. *)
Actuals(d, v, y0, st0, f) ==
  /\ DOMAIN f = 0 .. Len(d.caller) /\ f[0] = [y |-> y0, pending |-> {}, st |-> st0]
  /\ \A i \in 1 .. Len(d.caller) : f[i] = Calling!OutputStatement(d, Calling!Body(d), v, f[i - 1], d.caller[i])
LEMMA OutputCallerSteps ==
  ASSUME NEW d, Calling!WellFormed(d), NEW v \in Calling!Bit, NEW y0 \in Held3, NEW st0 \in Storage
  PROVE  \E f : Actuals(d, v, y0, st0, f)
                /\ Calling!OutputCaller(d, Calling!Body(d), v, y0, st0) = f[Len(d.caller)]
<1> DEFINE n1 == Len(d.caller)
           w == Calling!Body(d)
           base == [y |-> y0, pending |-> {}, st |-> st0]
           step == [x \in (1 .. n1) \X Callers |-> Calling!OutputStatement(d, w, v, x[2], d.caller[x[1]])]
           Rec(f) == f = [i \in 0 .. n1 |-> IF i = 0 THEN base ELSE Calling!OutputStatement(d, w, v, f[i - 1], d.caller[i])]
           c == CHOOSE f : Rec(f)
<1>1. n1 \in Nat /\ (\A i \in 1 .. n1 : d.caller[i] \in {"zero", "call"}) /\ base \in Callers
  BY DEF Calling!WellFormed, Callers
<1>2. step \in [(1 .. n1) \X Callers -> Callers]
  <2> HIDE DEF n1
  <2> QED
    BY <1>1, OutputStatementType
<1>3. Calling!OutputCaller(d, w, v, y0, st0) = c[n1]
  BY DEF Calling!OutputCaller
<1> HIDE DEF n1, w, base
<1>4. \A i \in 1 .. n1, a \in Callers : step[<<i, a>>] = Calling!OutputStatement(d, w, v, a, d.caller[i])
  OBVIOUS
<1> HIDE DEF step
<1>5. PICK g : g \in [0 .. n1 -> Callers] /\ Steps(n1, base, step, g)
  BY <1>1, <1>2, Folded
<1>6. ASSUME NEW i \in 1 .. n1 PROVE g[i] = Calling!OutputStatement(d, w, v, g[i - 1], d.caller[i])
  <2>1. i - 1 \in 0 .. n1
    BY <1>1
  <2> QED
    BY <1>4, <1>5, <2>1 DEF Steps
<1>7. Rec(g)
  <2>1. \A i \in 0 .. n1 : i # 0 => i \in 1 .. n1
    BY <1>1
  <2> QED
    BY <1>5, <1>6, <2>1 DEF Steps
<1>8. Rec(c)
  <2> HIDE DEF Rec
  <2> QED
    BY <1>7
<1> HIDE DEF c
<1>9. DOMAIN c = 0 .. n1 /\ \A i \in 0 .. n1 :
        c[i] = IF i = 0 THEN base ELSE Calling!OutputStatement(d, w, v, c[i - 1], d.caller[i])
  BY <1>8
<1> HIDE DEF Rec
<1>10. 0 \in 0 .. n1 /\ \A i \in 1 .. n1 : i \in 0 .. n1 /\ i # 0
  BY <1>1
<1>11. Actuals(d, v, y0, st0, c)
  BY <1>9, <1>10 DEF Actuals, n1, w, base
<1> QED
  BY <1>3, <1>11 DEF n1, w

(* The caller's target in both worlds: a signal it assigns is on its way,  *)
(* and what a procedure copied back is also in the procedure's storage.    *)
Follows(d, y, a) ==
  /\ y \in Held3 /\ a \in Callers
  /\ a.pending = {} => Agrees(y, a.y)
  /\ a.pending # {} => \E x : a.pending = {x} /\ Agrees(y, x)
  /\ d.class = "variable" => a.pending = {}
  /\ d.class = "signal" /\ ~d.function => a.pending = {} /\ a.st.out = a.y
LEMMA CallersFollow ==
  ASSUME NEW d, Calling!WellFormed(d), NEW v \in Calling!Bit, NEW s \in {"zero", "call"},
         d.class = "signal" /\ ~d.function => s = "call",
         NEW y, NEW a, Follows(d, y, a)
  PROVE  Follows(d, Calling!SourceStatement(d, v, y, s), Calling!OutputStatement(d, Calling!Body(d), v, a, s))
<1> DEFINE e == Calling!SourceCall(d, v)
           c == Calling!Call(Calling!Body(d), v, a.st)
           y2 == Calling!SourceStatement(d, v, y, s)
           b == Calling!OutputStatement(d, Calling!Body(d), v, a, s)
<1>1. y \in Held3 /\ a \in Callers /\ a.st \in Storage /\ d.function \in BOOLEAN /\ d.class \in {"variable", "signal"}
  BY DEF Follows, Callers, Calling!WellFormed
<1>2. y2 \in Held3 /\ b \in Callers
  BY <1>1, SourceStatementType, OutputStatementType
<1>3. /\ Agrees(e.out, c.out) /\ (d.function => Agrees(e.result, c.result))
      /\ ~e.assigned => c.out = a.st.out
  BY <1>1, CallsAgree DEF Abreast
<1>4. /\ s = "zero" => b = [y       |-> IF d.class = "signal" THEN a.y ELSE "0",
                            pending |-> IF d.class = "signal" THEN {"0"} ELSE a.pending,
                            st      |-> a.st]
      /\ s = "call" /\ d.function => b = [y       |-> IF d.class = "signal" THEN a.y ELSE c.result,
                                          pending |-> IF d.class = "signal" THEN {c.result} ELSE a.pending,
                                          st      |-> Leaves(c)]
      /\ s = "call" /\ ~d.function => b = [y |-> c.out, pending |-> a.pending, st |-> Leaves(c)]
  BY <1>1, OutputStatements
<1>5. /\ s = "zero" => y2 = "0"
      /\ s = "call" /\ d.function => y2 = e.result
      /\ s = "call" /\ ~d.function /\ d.class = "signal" => y2 = IF e.assigned THEN e.out ELSE y
      /\ s = "call" /\ ~d.function /\ d.class = "variable" => y2 = e.out
  BY DEF Calling!SourceStatement
<1> HIDE DEF e, c, y2, b
<1>6. /\ a.pending = {} => Agrees(y, a.y)
      /\ d.class = "variable" => a.pending = {}
      /\ d.class = "signal" /\ ~d.function => a.pending = {} /\ a.st.out = a.y
  BY DEF Follows
<1>7. Agrees("0", "0")
  BY DEF Agrees
<1>8. CASE s = "zero" /\ d.class = "signal"
  <2>1. b.pending = {"0"} /\ y2 = "0" /\ d.function
    BY <1>4, <1>5, <1>8
  <2> QED
    BY <1>2, <1>7, <1>8, <2>1 DEF Follows, y2, b
<1>9. CASE s = "zero" /\ d.class = "variable"
  <2>1. b.pending = {} /\ b.y = "0" /\ y2 = "0"
    BY <1>4, <1>5, <1>6, <1>9
  <2> QED
    BY <1>2, <1>7, <1>9, <2>1 DEF Follows, y2, b
<1>10. CASE s = "call" /\ d.function /\ d.class = "signal"
  <2>1. b.pending = {c.result} /\ y2 = e.result
    BY <1>4, <1>5, <1>10
  <2> QED
    BY <1>2, <1>3, <1>10, <2>1 DEF Follows, y2, b
<1>11. CASE s = "call" /\ d.function /\ d.class = "variable"
  <2>1. b.pending = {} /\ b.y = c.result /\ y2 = e.result
    BY <1>4, <1>5, <1>6, <1>11
  <2> QED
    BY <1>2, <1>3, <1>11, <2>1 DEF Follows, y2, b
<1>12. CASE s = "call" /\ ~d.function /\ d.class = "signal"
  <2>1. b.pending = {} /\ b.y = c.out /\ b.st = Leaves(c) /\ y2 = IF e.assigned THEN e.out ELSE y
    BY <1>4, <1>5, <1>6, <1>12
  <2>2. b.st.out = b.y
    BY <2>1 DEF Leaves
  <2>3. Agrees(y2, b.y)
    BY <1>3, <1>6, <1>12, <2>1
  <2> QED
    BY <1>2, <1>12, <2>1, <2>2, <2>3 DEF Follows, y2, b
<1>13. CASE s = "call" /\ ~d.function /\ d.class = "variable"
  <2>1. b.pending = {} /\ b.y = c.out /\ y2 = e.out
    BY <1>4, <1>5, <1>6, <1>13
  <2> QED
    BY <1>2, <1>3, <1>13, <2>1 DEF Follows, y2, b
<1> QED
  BY <1>1, <1>8, <1>9, <1>10, <1>11, <1>12, <1>13

(* A turn of the calling process in both worlds. *)
LEMMA TurnsAgree ==
  ASSUME NEW d, Calling!WellFormed(d), Calling!OneKindOfDriver(d), NEW v \in Calling!Bit, NEW y0, NEW a0,
         NEW w, w = Calling!OutputCaller(d, Calling!Body(d), v, a0.y, a0.st),
         Follows(d, y0, a0), a0 = [y |-> a0.y, pending |-> {}, st |-> a0.st]
  PROVE  Follows(d, Calling!SourceCaller(d, v, y0), w)
<1> DEFINE n1 == Len(d.caller)
<1>1. n1 \in Nat /\ (\A i \in 1 .. n1 : d.caller[i] \in {"zero", "call"}) /\ a0.y \in Held3 /\ a0.st \in Storage /\ y0 \in Held3
  BY DEF Calling!WellFormed, Follows, Callers
<1>2. d.class = "signal" /\ ~d.function => \A i \in 1 .. n1 : d.caller[i] = "call"
  <2>1. DOMAIN d.caller = 1 .. n1
    BY DEF Calling!WellFormed
  <2> QED
    BY <2>1 DEF Calling!OneKindOfDriver
<1>3. PICK f : Targets(d, v, y0, f) /\ Calling!SourceCaller(d, v, y0) = f[n1]
  BY <1>1, SourceCallerSteps
<1>4. PICK g : Actuals(d, v, a0.y, a0.st, g) /\ w = g[n1]
  BY <1>1, OutputCallerSteps
<1> DEFINE S == {i \in 0 .. n1 : Follows(d, f[i], g[i])}
<1>5. 0 \in S
  <2>1. f[0] = y0 /\ g[0] = a0
    BY <1>3, <1>4 DEF Targets, Actuals
  <2>2. Follows(d, f[0], g[0]) /\ 0 \in 0 .. n1
    BY <1>1, <2>1
  <2> QED
    BY <2>2
<1>6. ASSUME NEW i \in 0 .. n1, i # n1, i \in S PROVE i + 1 \in S
  <2> HIDE DEF n1
  <2>1. i + 1 \in 1 .. n1 /\ i + 1 - 1 = i /\ i + 1 \in 0 .. n1
    BY <1>1, <1>6
  <2>2. f[i + 1] = Calling!SourceStatement(d, v, f[i], d.caller[i + 1])
    BY <1>3, <2>1 DEF Targets, n1
  <2>3. g[i + 1] = Calling!OutputStatement(d, Calling!Body(d), v, g[i], d.caller[i + 1])
    BY <1>4, <2>1 DEF Actuals, n1
  <2>4. d.caller[i + 1] \in {"zero", "call"} /\ (d.class = "signal" /\ ~d.function => d.caller[i + 1] = "call")
    BY <1>1, <1>2, <2>1
  <2>5. Follows(d, f[i], g[i])
    BY <1>6
  <2>6. Follows(d, f[i + 1], g[i + 1])
    BY <2>2, <2>3, <2>4, <2>5, CallersFollow
  <2> QED
    BY <2>1, <2>6
<1> HIDE DEF S
<1>7. \A i \in 0 .. n1 : i \in S
  BY <1>1, <1>5, <1>6, Upwards
<1>8. n1 \in S
  BY <1>1, <1>7
<1> QED
  BY <1>3, <1>4, <1>8 DEF S

(* Between two turns the storage of a procedure holds the signal it copied *)
(* back last, which is what an activation that does not assign it leaves.  *)
CallInv ==
  /\ design \in Routines /\ Calling!WellFormed(design) /\ Calling!OneKindOfDriver(design)
  /\ printed = Calling!NotPrinted \/ printed = Calling!Body(design)
  /\ Follows(design, wanted, [y |-> actual, pending |-> {}, st |-> static])

LEMMA CallInit ==
  ASSUME \A d \in Routines : Calling!OneKindOfDriver(d)
  PROVE  Calling!Init => CallInv
<1> SUFFICES ASSUME Calling!Init PROVE CallInv
  OBVIOUS
<1>1. design \in Routines /\ printed = Calling!NotPrinted /\ wanted = "X" /\ actual = "X"
      /\ static = [local |-> "X", out |-> "X", result |-> "X"]
  BY DEF Calling!Init
<1>2. Calling!WellFormed(design) /\ Calling!OneKindOfDriver(design)
  BY <1>1, RoutinesAssumption
<1> DEFINE a == [y |-> actual, pending |-> {}, st |-> static]
<1>3. static \in Storage /\ "X" \in Held3
  BY <1>1 DEF Storage, Held3
<1>4. a \in Callers /\ a.pending = {} /\ a.y = "X" /\ a.st.out = a.y
  BY <1>1, <1>3 DEF Callers
<1> HIDE DEF a
<1>5. Follows(design, wanted, a)
  BY <1>1, <1>3, <1>4 DEF Follows, Agrees
<1> QED
  BY <1>1, <1>2, <1>5 DEF CallInv, a

LEMMA CallNext ==
  ASSUME CallInv, [Calling!Next]_(Calling!callVars)
  PROVE  CallInv'
<1>1. CASE UNCHANGED Calling!callVars
  <2>1. design' = design /\ printed' = printed /\ wanted' = wanted /\ actual' = actual /\ static' = static
    BY <1>1 DEF Calling!callVars
  <2> QED
    BY <2>1 DEF CallInv
<1>2. CASE Calling!PrintSubprogram
  <2>1. design' = design /\ printed' = Calling!Body(design) /\ wanted' = wanted /\ actual' = actual /\ static' = static
    BY <1>2 DEF Calling!PrintSubprogram
  <2> QED
    BY <2>1 DEF CallInv
<1>3. ASSUME NEW v \in Calling!Bit, Calling!Activate(v) PROVE CallInv'
  <2> DEFINE a0 == [y |-> actual, pending |-> {}, st |-> static]
             a == Calling!OutputCaller(design, printed, v, actual, static)
  <2>1. /\ design' = design /\ printed' = printed /\ printed # Calling!NotPrinted
        /\ wanted' = Calling!SourceCaller(design, v, wanted)
        /\ actual' = (IF a.pending = {} THEN a.y ELSE CHOOSE x \in a.pending : TRUE) /\ static' = a.st
    BY <1>3 DEF Calling!Activate
  <2>2. Calling!WellFormed(design) /\ Calling!OneKindOfDriver(design) /\ printed = Calling!Body(design)
        /\ Follows(design, wanted, a0) /\ design \in Routines
    BY <2>1 DEF CallInv
  <2>3. a0.y = actual /\ a0.st = static /\ a0 = [y |-> a0.y, pending |-> {}, st |-> a0.st]
    OBVIOUS
  <2>4. a = Calling!OutputCaller(design, Calling!Body(design), v, a0.y, a0.st)
    BY <2>2
  <2> HIDE DEF a, a0
  <2>5. Follows(design, Calling!SourceCaller(design, v, wanted), a)
    BY <2>2, <2>3, <2>4, TurnsAgree
  <2>6. Follows(design, wanted', a)
    BY <2>1, <2>5
  <2> DEFINE b == [y |-> actual', pending |-> {}, st |-> static']
  <2>7. a \in Callers /\ wanted' \in Held3
    BY <2>6 DEF Follows
  <2>8. actual' \in Held3 /\ Agrees(wanted', actual') /\ (a.pending = {} => actual' = a.y)
    <3>1. CASE a.pending = {}
      BY <2>1, <2>6, <2>7, <3>1 DEF Follows, Callers
    <3>2. CASE a.pending # {}
      <4>1. PICK x : a.pending = {x} /\ Agrees(wanted', x)
        BY <2>6, <3>2 DEF Follows
      <4>2. x \in Held3
        BY <2>7, <4>1 DEF Callers
      <4>3. (CHOOSE z \in a.pending : TRUE) = x
        BY <4>1
      <4> QED
        BY <2>1, <3>2, <4>1, <4>2, <4>3
    <3> QED
      BY <3>1, <3>2
  <2>9. static' \in Storage
    BY <2>1, <2>7 DEF Callers
  <2>10. b \in Callers /\ b.pending = {} /\ b.y = actual' /\ b.st = static'
    BY <2>8, <2>9, CallerRecord DEF Held3
  <2> HIDE DEF b
  <2>11. design.class = "signal" /\ ~design.function => b.st.out = b.y
    BY <2>1, <2>6, <2>8, <2>10 DEF Follows
  <2>12. Follows(design, wanted', b)
    BY <2>7, <2>8, <2>10, <2>11 DEF Follows
  <2> QED
    BY <2>1, <2>2, <2>12 DEF CallInv, b
<1> QED
  BY <1>1, <1>2, <1>3 DEF Calling!Next

(* After each turn of the calling process the actual holds what VHDL gives *)
(* the target, whatever the body, the early returns, the initial values    *)
(* and the number of calls, as long as one process does not both assign a  *)
(* signal and pass it to a procedure (VerilogPrinter.cpp:936-1062).        *)
THEOREM TargetsAgree ==
  ASSUME \A d \in Routines : Calling!OneKindOfDriver(d)
  PROVE  Calling!Spec => []SameTarget
<1>1. Calling!Init => CallInv
  BY CallInit
<1>2. CallInv /\ [Calling!Next]_(Calling!callVars) => CallInv'
  BY CallNext
<1>3. CallInv => SameTarget
  <2> SUFFICES ASSUME CallInv PROVE SameTarget
    OBVIOUS
  <2> DEFINE a == [y |-> actual, pending |-> {}, st |-> static]
  <2>1. a.pending = {} /\ a.y = actual
    OBVIOUS
  <2> HIDE DEF a
  <2>2. Follows(design, wanted, a)
    BY DEF CallInv, a
  <2>3. Agrees(wanted, actual)
    BY <2>1, <2>2 DEF Follows
  <2> QED
    BY <2>3 DEF SameTarget, Calling!SameTarget, Agrees
<1> QED
  BY <1>1, <1>2, <1>3, PTL DEF Calling!Spec

-----------------------------------------------------------------------------
(* Exits of loops. *)

LEMMA Greatest ==
  ASSUME NEW n1 \in Nat, NEW S \in SUBSET (1 .. n1), S # {}
  PROVE  Leaving!Max(S) \in S /\ \A k \in S : k <= Leaving!Max(S)
<1> DEFINE Down == {n1 - k : k \in S}
<1>1. Down \in SUBSET Nat /\ Down # {}
  <2>1. \A k \in S : k \in Nat /\ n1 - k \in Nat
    OBVIOUS
  <2>2. \A y \in Down : y \in Nat
    BY <2>1, Zenon
  <2>3. PICK k \in S : TRUE
    BY Zenon
  <2>4. n1 - k \in Down
    BY Zenon
  <2> QED
    BY <2>2, <2>4, Zenon
<1>2. PICK m \in Down : \A k \in Down : m <= k
  BY <1>1, Least
<1>3. PICK x \in S : m = n1 - x
  BY <1>2
<1>4. ASSUME NEW k \in S PROVE x >= k
  <2>1. n1 - k \in Down /\ k \in Nat /\ x \in Nat
    BY <1>4
  <2>2. n1 - x <= n1 - k
    BY <1>2, <1>3, <2>1
  <2> HIDE DEF Down
  <2> QED
    BY <2>1, <2>2
<1> HIDE DEF Down
<1>5. Leaving!Max(S) \in S /\ \A k \in S : Leaving!Max(S) >= k
  BY <1>4 DEF Leaving!Max
<1> QED
  BY <1>5

LEMMA Greatest0 ==
  ASSUME NEW n1 \in Nat, NEW S \in SUBSET (1 .. n1)
  PROVE  /\ S = {} => Leaving!Max0(S) = 0
         /\ S # {} => Leaving!Max0(S) \in S /\ \A k \in S : k <= Leaving!Max0(S)
BY Greatest DEF Leaving!Max0

LEMMA Smallest ==
  ASSUME NEW S \in SUBSET Nat, NEW x \in S, \A k \in S : x <= k
  PROVE  Leaving!Min(S) = x
<1>1. Leaving!Min(S) \in S /\ \A k \in S : Leaving!Min(S) <= k
  BY DEF Leaving!Min
<1>2. Leaving!Min(S) <= x /\ x <= Leaving!Min(S) /\ Leaving!Min(S) \in Nat /\ x \in Nat
  BY <1>1
<1> QED
  BY <1>2

(* What is printed, and which of it comes right before what: a loop that   *)
(* closes is followed by its label of break or by what follows it, its     *)
(* label of continue by its close.                                         *)
NamesOf(p, j) == {p[i].name : i \in DOMAIN p} \cup {j.name}
Tokens(p, j) ==
  ({"open", "close", "rest", "default"} \X Nat) \cup ({"break", "continue"} \X {Leaving!NoName})
  \cup ({"label", "goto"} \X ({"break", "continue"} \X NamesOf(p, j)))
Precedes(p, t, u) ==
  \A k \in DOMAIN p :
    /\ t = <<"close", k>> =>
         \/ u = <<"rest", k - 1>>
         \/ p[k].name # Leaving!NoName /\ u = <<"label", <<"break", p[k].name>> >>
    /\ t = <<"label", <<"break", p[k].name>> >> /\ p[k].name # Leaving!NoName => u = <<"rest", k - 1>>
    /\ t = <<"label", <<"continue", p[k].name>> >> /\ p[k].name # Leaving!NoName => u = <<"close", k>>
InOrder(p, s) == \A m \in 1 .. Len(s) - 1 : Precedes(p, s[m], s[m + 1])
Has(s, t) == \E m \in 1 .. Len(s) : s[m] = t

LEMMA Joined ==
  ASSUME NEW p, NEW S, NEW a \in Seq(S), NEW b \in Seq(S), a # <<>>, b # <<>>, InOrder(p, a), InOrder(p, b),
         Precedes(p, a[Len(a)], b[1])
  PROVE  /\ a \o b \in Seq(S) /\ a \o b # <<>> /\ Len(a \o b) = Len(a) + Len(b) /\ Len(a \o b) # 0
         /\ (a \o b)[1] = a[1] /\ (a \o b)[Len(a \o b)] = b[Len(b)] /\ InOrder(p, a \o b)
         /\ \A t : Has(a, t) \/ Has(b, t) => Has(a \o b, t)
<1> DEFINE c == a \o b
           n1 == Len(a)
           n2 == Len(b)
<1>1. /\ c \in Seq(S) /\ Len(c) = n1 + n2
      /\ \A i \in 1 .. n1 + n2 : c[i] = IF i <= n1 THEN a[i] ELSE b[i - n1]
  BY ConcatProperties
<1>2. n1 \in Nat /\ n2 \in Nat /\ n1 # 0 /\ n2 # 0
  BY EmptySeq
<1>3. (\A m \in 1 .. n1 - 1 : Precedes(p, a[m], a[m + 1])) /\ (\A m \in 1 .. n2 - 1 : Precedes(p, b[m], b[m + 1]))
      /\ Precedes(p, a[n1], b[1])
  BY DEF InOrder
<1>4. /\ \A t : Has(a, t) => \E m \in 1 .. n1 : a[m] = t
      /\ \A t : Has(b, t) => \E m \in 1 .. n2 : b[m] = t
  BY DEF Has
<1> HIDE DEF c, n1, n2
<1>5. \A i \in 1 .. n1 : i \in 1 .. n1 + n2 /\ c[i] = a[i]
  <2> SUFFICES ASSUME NEW i \in 1 .. n1 PROVE i \in 1 .. n1 + n2 /\ c[i] = a[i]
    OBVIOUS
  <2>1. i \in 1 .. n1 + n2 /\ i <= n1
    BY <1>2
  <2> QED
    BY <1>1, <2>1
<1>6. \A i \in 1 .. n2 : n1 + i \in 1 .. n1 + n2 /\ c[n1 + i] = b[i]
  <2> SUFFICES ASSUME NEW i \in 1 .. n2 PROVE n1 + i \in 1 .. n1 + n2 /\ c[n1 + i] = b[i]
    OBVIOUS
  <2>1. n1 + i \in 1 .. n1 + n2 /\ ~(n1 + i <= n1) /\ (n1 + i) - n1 = i
    BY <1>2
  <2>2. c[n1 + i] = b[(n1 + i) - n1]
    BY <1>1, <2>1
  <2> QED
    BY <2>1, <2>2
<1>7. c[1] = a[1] /\ c[n1 + n2] = b[n2]
  <2>1. 1 \in 1 .. n1 /\ n2 \in 1 .. n2
    BY <1>2
  <2> QED
    BY <1>5, <1>6, <2>1
<1>8. ASSUME NEW m \in 1 .. n1 + n2 - 1 PROVE Precedes(p, c[m], c[m + 1])
  <2>1. CASE m < n1
    <3>1. m \in 1 .. n1 /\ m + 1 \in 1 .. n1 /\ m \in 1 .. n1 - 1
      BY <1>2, <2>1
    <3>2. c[m] = a[m] /\ c[m + 1] = a[m + 1]
      BY <1>5, <3>1
    <3> QED
      BY <1>3, <3>1, <3>2
  <2>2. CASE m = n1
    <3>1. m \in 1 .. n1 /\ 1 \in 1 .. n2
      BY <1>2, <2>2
    <3>2. c[m] = a[m] /\ c[n1 + 1] = b[1]
      BY <1>5, <1>6, <3>1
    <3> QED
      BY <1>3, <2>2, <3>2
  <2>3. CASE m > n1
    <3>1. PICK k \in 1 .. n2 - 1 : m = n1 + k
      <4>1. m - n1 \in 1 .. n2 - 1 /\ m = n1 + (m - n1)
        BY <1>2, <2>3
      <4> QED
        BY <4>1
    <3>2. k \in 1 .. n2 /\ k + 1 \in 1 .. n2 /\ m + 1 = n1 + (k + 1)
      BY <1>2, <3>1
    <3>3. c[m] = b[k] /\ c[m + 1] = b[k + 1]
      BY <1>6, <3>1, <3>2
    <3> QED
      BY <1>3, <3>3
  <2> QED
    BY <1>2, <2>1, <2>2, <2>3
<1>9. ASSUME NEW t, Has(a, t) \/ Has(b, t) PROVE \E m \in 1 .. n1 + n2 : c[m] = t
  <2>1. CASE Has(a, t)
    BY <1>4, <1>5, <2>1
  <2>2. CASE Has(b, t)
    BY <1>4, <1>6, <2>2
  <2> QED
    BY <1>9, <2>1, <2>2
<1>10. n1 + n2 # 0
  BY <1>2
<1>11. c # <<>>
  BY <1>1, <1>10, EmptySeq
<1>12. InOrder(p, c)
  <2>1. Len(c) - 1 = n1 + n2 - 1
    BY <1>1, <1>2
  <2>2. \A m \in 1 .. n1 + n2 - 1 : Precedes(p, c[m], c[m + 1])
    BY <1>8
  <2> QED
    BY <2>1, <2>2, Zenon DEF InOrder
<1>13. \A t : Has(a, t) \/ Has(b, t) => Has(c, t)
  BY <1>1, <1>9 DEF Has
<1> QED
  BY <1>1, <1>7, <1>10, <1>11, <1>12, <1>13 DEF c, n1, n2

(* A text of one piece. *)
LEMMA OneToken ==
  ASSUME NEW p, NEW S, NEW t \in S
  PROVE  <<t>> \in Seq(S) /\ <<t>> # <<>> /\ Len(<<t>>) = 1 /\ <<t>>[1] = t /\ InOrder(p, <<t>>) /\ Has(<<t>>, t)
<1>1. <<t>> \in Seq(S) /\ Len(<<t>>) = 1 /\ <<t>>[1] = t
  OBVIOUS
<1> DEFINE s == <<t>>
<1> HIDE DEF s
<1>2. s \in Seq(S) /\ Len(s) = 1 /\ s[1] = t
  BY <1>1 DEF s
<1>3. s # <<>>
  BY <1>2, EmptySeq
<1>4. InOrder(p, s)
  BY <1>2 DEF InOrder
<1>5. Has(s, t)
  BY <1>2 DEF Has
<1> QED
  BY <1>2, <1>3, <1>4, <1>5 DEF s

LEMMA StatementShape ==
  ASSUME NEW p, Leaving!WellFormed(p), NEW i \in DOMAIN p
  PROVE  /\ Len(p) \in Nat /\ DOMAIN p = 1 .. Len(p)
         /\ p[i].kind \in Leaving!Loops \cup {"if", "switch"}
         /\ p[i].name # Leaving!NoName => p[i].kind \in Leaving!Loops
         /\ \A k \in DOMAIN p : p[i].name # Leaving!NoName /\ p[i].name = p[k].name => i = k
<1>1. p \in Seq(Leaving!Statement)
  BY DEF Leaving!WellFormed
<1> DEFINE S == Leaving!Statement
<1> HIDE DEF S
<1>2. p \in Seq(S)
  BY <1>1 DEF S
<1>3. p[i] \in S /\ Len(p) \in Nat /\ DOMAIN p = 1 .. Len(p)
  BY <1>2
<1>4. p[i].kind \in Leaving!Loops \cup {"if", "switch"} /\ (p[i].name # Leaving!NoName => p[i].kind \in Leaving!Loops)
  BY <1>3 DEF S, Leaving!Statement
<1> QED
  BY <1>3, <1>4 DEF Leaving!WellFormed

LEMMA CloseThenRest ==
  ASSUME NEW p, Leaving!WellFormed(p), NEW i \in DOMAIN p
  PROVE  Precedes(p, <<"close", i>>, <<"rest", i - 1>>)
BY DEF Precedes
LEMMA LabelsThen ==
  ASSUME NEW p, Leaving!WellFormed(p), NEW i \in DOMAIN p, p[i].name # Leaving!NoName
  PROVE  /\ Precedes(p, <<"close", i>>, <<"label", <<"break", p[i].name>> >>)
         /\ Precedes(p, <<"label", <<"break", p[i].name>> >>, <<"rest", i - 1>>)
         /\ Precedes(p, <<"label", <<"continue", p[i].name>> >>, <<"close", i>>)
<1>1. \A k \in DOMAIN p : p[i].name = p[k].name => i = k
  BY StatementShape
<1>2. Precedes(p, <<"close", i>>, <<"label", <<"break", p[i].name>> >>)
  BY DEF Precedes
<1>3. Precedes(p, <<"label", <<"break", p[i].name>> >>, <<"rest", i - 1>>)
  BY <1>1 DEF Precedes
<1>4. Precedes(p, <<"label", <<"continue", p[i].name>> >>, <<"close", i>>)
  BY <1>1 DEF Precedes
<1> QED
  BY <1>2, <1>3, <1>4
LEMMA OthersThen ==
  ASSUME NEW p, NEW t, NEW u, t[1] \notin {"close", "label"}
  PROVE  Precedes(p, t, u)
BY DEF Precedes

(* What ends a statement is in order, up to what follows the statement. *)
LEMMA EndInOrder ==
  ASSUME NEW p, Leaving!WellFormed(p), NEW j, NEW i \in DOMAIN p, NEW e, e = Leaving!PrintEnd(p, i)
  PROVE  /\ e \in Seq(Tokens(p, j)) /\ e # <<>> /\ InOrder(p, e)
         /\ Precedes(p, e[Len(e)], <<"rest", i - 1>>) /\ Has(e, <<"close", i>>)
         /\ p[i].name # Leaving!NoName =>
              Has(e, <<"label", <<"break", p[i].name>> >>) /\ Has(e, <<"label", <<"continue", p[i].name>> >>)
<1> DEFINE c == <<"close", i>>
           lb == <<"label", <<"break", p[i].name>> >>
           lc == <<"label", <<"continue", p[i].name>> >>
           x == <<"break", Leaving!NoName>>
           y == <<"default", i>>
           T == Tokens(p, j)
<1>1. i \in Nat /\ p[i].kind \in {"for", "while", "do", "if", "switch"}
      /\ (p[i].name # Leaving!NoName => p[i].kind \in {"for", "while", "do"})
  BY StatementShape DEF Leaving!Loops
<1>2. c \in T /\ lb \in T /\ lc \in T /\ x \in T /\ y \in T
  <2>1. p[i].name \in NamesOf(p, j)
    BY DEF NamesOf
  <2> QED
    BY <1>1, <2>1 DEF Tokens
<1>3. \A u : Precedes(p, x, u) /\ Precedes(p, y, u)
  BY OthersThen
<1>4. Precedes(p, c, <<"rest", i - 1>>)
  BY CloseThenRest
<1>5. CASE p[i].name = Leaving!NoName /\ p[i].kind # "switch"
  <2>1. e = <<c>>
    BY <1>1, <1>5 DEF Leaving!PrintEnd, Leaving!PrintFor, Leaving!PrintWhile
  <2> HIDE DEF c, T
  <2>2. <<c>> \in Seq(T) /\ <<c>> # <<>> /\ Len(<<c>>) = 1 /\ <<c>>[1] = c /\ InOrder(p, <<c>>) /\ Has(<<c>>, c)
    BY <1>2, OneToken
  <2> QED
    BY <1>4, <1>5, <2>1, <2>2 DEF c, T
<1>6. CASE p[i].name # Leaving!NoName
  <2>1. e = <<lc, c, lb>>
    BY <1>1, <1>6 DEF Leaving!PrintEnd, Leaving!PrintFor, Leaving!PrintWhile
  <2>2. Precedes(p, c, lb) /\ Precedes(p, lb, <<"rest", i - 1>>) /\ Precedes(p, lc, c)
    BY <1>6, LabelsThen
  <2> HIDE DEF c, lb, lc, T
  <2>3. e \in Seq(T) /\ Len(e) = 3 /\ e[1] = lc /\ e[2] = c /\ e[3] = lb
    BY <1>2, <2>1
  <2>4. e # <<>>
    BY <2>3, EmptySeq
  <2>5. InOrder(p, e)
    <3>1. \A m \in 1 .. Len(e) - 1 : m = 1 \/ m = 2
      BY <2>3
    <3>2. Precedes(p, e[1], e[1 + 1]) /\ Precedes(p, e[2], e[2 + 1])
      BY <2>2, <2>3
    <3> QED
      BY <3>1, <3>2 DEF InOrder
  <2>6. Has(e, c) /\ Has(e, lb) /\ Has(e, lc)
    <3>1. 1 \in 1 .. Len(e) /\ 2 \in 1 .. Len(e) /\ 3 \in 1 .. Len(e)
      BY <2>3
    <3> QED
      BY <2>3, <3>1 DEF Has
  <2> QED
    BY <2>2, <2>3, <2>4, <2>5, <2>6 DEF c, lb, lc, T
<1>7. CASE p[i].kind = "switch"
  <2>1. e = <<x, y, x, c>> /\ p[i].name = Leaving!NoName
    BY <1>1, <1>7 DEF Leaving!PrintEnd, Leaving!PrintSwitch
  <2> HIDE DEF c, x, y, T
  <2>2. e \in Seq(T) /\ Len(e) = 4 /\ e[1] = x /\ e[2] = y /\ e[3] = x /\ e[4] = c
    BY <1>2, <2>1
  <2>3. e # <<>>
    <3>1. e \in Seq(T) /\ Len(e) = 4
      BY <2>2
    <3> QED
      BY <3>1, EmptySeq
  <2>4. InOrder(p, e)
    <3>1. \A m \in 1 .. Len(e) - 1 : m = 1 \/ m = 2 \/ m = 3
      <4>1. Len(e) = 4
        BY <2>2
      <4> QED
        BY ONLY <4>1
    <3>2. Precedes(p, e[1], e[1 + 1]) /\ Precedes(p, e[2], e[2 + 1]) /\ Precedes(p, e[3], e[3 + 1])
      BY <1>3, <2>2
    <3> QED
      BY <3>1, <3>2 DEF InOrder
  <2>5. Has(e, c)
    <3>1. 4 \in 1 .. Len(e)
      BY <2>2
    <3> QED
      BY <2>2, <3>1 DEF Has
  <2> QED
    BY <1>4, <2>1, <2>2, <2>3, <2>4, <2>5 DEF c, T
<1> QED
  BY <1>1, <1>5, <1>6, <1>7

(* The text of a statement and what follows it, from the text inside it. *)
Around(p, i, s) == << <<"open", i>> >> \o s \o Leaving!PrintEnd(p, i) \o << <<"rest", i - 1>> >>
Innermost(p, j) == <<Leaving!PrintJump(j)>> \o << <<"rest", Len(p)>> >>
Leaps == [kind : {"break", "continue"}, name : STRING \cup {Leaving!NoName}]
LEMMA InnermostInOrder ==
  ASSUME NEW p, Leaving!WellFormed(p), NEW j \in Leaps, NEW w, w = Innermost(p, j)
  PROVE  w \in Seq(Tokens(p, j)) /\ w # <<>> /\ InOrder(p, w) /\ w[Len(w)] = <<"rest", Len(p)>>
<1> DEFINE T == Tokens(p, j)
           x == Leaving!PrintJump(j)
           r == <<"rest", Len(p)>>
<1>1. x \in T /\ r \in T /\ x[1] \notin {"close", "label"}
  <2>1. Len(p) \in Nat /\ j.name \in NamesOf(p, j) /\ j.kind \in {"break", "continue"}
    BY DEF Leaving!WellFormed, NamesOf, Leaps
  <2>2. x \in T
    BY <2>1 DEF Tokens, Leaving!PrintJump
  <2>3. r \in T
    BY <2>1 DEF Tokens
  <2>4. x[1] \notin {"close", "label"}
    BY <2>1 DEF Leaving!PrintJump
  <2> QED
    BY <2>2, <2>3, <2>4
<1>2. Precedes(p, x, r)
  BY <1>1, OthersThen
<1> HIDE DEF T, x, r
<1>3. /\ <<x>> \in Seq(T) /\ <<x>> # <<>> /\ Len(<<x>>) = 1 /\ <<x>>[1] = x /\ InOrder(p, <<x>>)
      /\ <<r>> \in Seq(T) /\ <<r>> # <<>> /\ Len(<<r>>) = 1 /\ <<r>>[1] = r /\ InOrder(p, <<r>>)
  BY <1>1, OneToken
<1> DEFINE a == <<x>>
           b == <<r>>
<1>4. w = a \o b
  BY DEF Innermost, x, r
<1>5. /\ a \in Seq(T) /\ a # <<>> /\ a[Len(a)] = x /\ InOrder(p, a)
      /\ b \in Seq(T) /\ b # <<>> /\ b[1] = r /\ b[Len(b)] = r /\ InOrder(p, b)
  BY <1>3
<1> HIDE DEF a, b
<1>6. a \o b \in Seq(T) /\ a \o b # <<>> /\ InOrder(p, a \o b) /\ (a \o b)[Len(a \o b)] = b[Len(b)]
  BY <1>2, <1>5, Joined
<1> QED
  BY <1>4, <1>5, <1>6 DEF T, r

LEMMA AroundInOrder ==
  ASSUME NEW p, Leaving!WellFormed(p), NEW j, NEW i \in DOMAIN p,
         NEW s \in Seq(Tokens(p, j)), s # <<>>, InOrder(p, s), s[Len(s)] = <<"rest", i>>, NEW w, w = Around(p, i, s)
  PROVE  /\ w \in Seq(Tokens(p, j)) /\ w # <<>> /\ InOrder(p, w) /\ w[Len(w)] = <<"rest", i - 1>>
         /\ (\A t : Has(s, t) => Has(w, t)) /\ Has(w, <<"close", i>>)
         /\ p[i].name # Leaving!NoName =>
              Has(w, <<"label", <<"break", p[i].name>> >>) /\ Has(w, <<"label", <<"continue", p[i].name>> >>)
<1> DEFINE T == Tokens(p, j)
           x == <<"open", i>>
           r == <<"rest", i - 1>>
           a == <<x>>
           b == <<r>>
           e == Leaving!PrintEnd(p, i)
<1>1. i \in Nat /\ i - 1 \in Nat /\ x \in T /\ r \in T
  <2>1. i \in Nat /\ i - 1 \in Nat
    BY StatementShape
  <2> QED
    BY <2>1 DEF Tokens
<1>2. Precedes(p, x, s[1])
  BY OthersThen
<1>3. Precedes(p, s[Len(s)], e[1])
  BY OthersThen
<1>4. /\ e \in Seq(T) /\ e # <<>> /\ InOrder(p, e) /\ Precedes(p, e[Len(e)], r) /\ Has(e, <<"close", i>>)
      /\ p[i].name # Leaving!NoName =>
           Has(e, <<"label", <<"break", p[i].name>> >>) /\ Has(e, <<"label", <<"continue", p[i].name>> >>)
  BY EndInOrder
<1>5. w = ((a \o s) \o e) \o b
  BY DEF Around
<1>6. s \in Seq(T)
  OBVIOUS
<1>7. s[Len(s)] = <<"rest", i>>
  OBVIOUS
<1> HIDE DEF T, x, r, e
<1>8. /\ a \in Seq(T) /\ a # <<>> /\ a[Len(a)] = x /\ a[1] = x /\ InOrder(p, a)
      /\ b \in Seq(T) /\ b # <<>> /\ b[1] = r /\ b[Len(b)] = r /\ InOrder(p, b)
  <2>1. /\ <<x>> \in Seq(T) /\ <<x>> # <<>> /\ Len(<<x>>) = 1 /\ <<x>>[1] = x /\ InOrder(p, <<x>>)
        /\ <<r>> \in Seq(T) /\ <<r>> # <<>> /\ Len(<<r>>) = 1 /\ <<r>>[1] = r /\ InOrder(p, <<r>>)
    BY <1>1, OneToken
  <2> QED
    BY <2>1
<1> HIDE DEF a, b
<1> DEFINE c == a \o s
           d == c \o e
<1>9. /\ c \in Seq(T) /\ c # <<>> /\ InOrder(p, c) /\ c[Len(c)] = s[Len(s)]
      /\ \A t : Has(s, t) => Has(c, t)
  BY <1>2, <1>6, <1>8, Joined
<1> HIDE DEF c
<1>10. Precedes(p, c[Len(c)], e[1])
  BY <1>3, <1>9
<1>11. /\ d \in Seq(T) /\ d # <<>> /\ InOrder(p, d) /\ d[Len(d)] = e[Len(e)]
       /\ \A t : Has(c, t) \/ Has(e, t) => Has(d, t)
  <2>1. /\ c \in Seq(T) /\ c # <<>> /\ InOrder(p, c) /\ e \in Seq(T) /\ e # <<>> /\ InOrder(p, e)
        /\ Precedes(p, c[Len(c)], e[1])
    BY <1>4, <1>9, <1>10
  <2>2. c \o e \in Seq(T) /\ c \o e # <<>> /\ InOrder(p, c \o e) /\ (c \o e)[Len(c \o e)] = e[Len(e)]
    BY ONLY <2>1, Joined
  <2>3. \A t : Has(c, t) \/ Has(e, t) => Has(c \o e, t)
    BY ONLY <2>1, Joined
  <2> QED
    BY <2>2, <2>3
<1> HIDE DEF d
<1>12. Precedes(p, d[Len(d)], b[1])
  BY <1>4, <1>8, <1>11
<1>13. /\ d \o b \in Seq(T) /\ d \o b # <<>> /\ InOrder(p, d \o b) /\ (d \o b)[Len(d \o b)] = b[Len(b)]
       /\ \A t : Has(d, t) \/ Has(b, t) => Has(d \o b, t)
  BY <1>8, <1>11, <1>12, Joined
<1>14. w = d \o b
  BY <1>5 DEF d, c
<1>15. w \in Seq(T) /\ w # <<>> /\ InOrder(p, w) /\ w[Len(w)] = r
  BY <1>8, <1>13, <1>14
<1>16. (\A t : Has(s, t) => Has(w, t)) /\ (\A t : Has(e, t) => Has(w, t))
  BY <1>9, <1>11, <1>13, <1>14
<1> QED
  BY <1>4, <1>15, <1>16 DEF T, r

(* The texts from the jump outwards. *)
Outlines(p, j, f) ==
  /\ f[Len(p) + 1] = Innermost(p, j)
  /\ \A i \in 1 .. Len(p) : f[i] = Around(p, i, f[i + 1])
LEMMA OutlineSteps ==
  ASSUME NEW p, Leaving!WellFormed(p), NEW j \in Leaps
  PROVE  \E f : Outlines(p, j, f) /\ Leaving!Outline(p, j) = f[1]
<1> DEFINE n1 == Len(p)
           T == Tokens(p, j)
           base == Innermost(p, j)
           step == [x \in (1 .. n1) \X Seq(T) |-> Around(p, n1 + 1 - x[1], x[2])]
           Text(f, i) ==
             (IF i > n1 THEN <<Leaving!PrintJump(j)>> ELSE << <<"open", i>> >> \o f[i + 1] \o Leaving!PrintEnd(p, i))
               \o << <<"rest", i - 1>> >>
           Rec(f) == f = [i \in 1 .. n1 + 1 |-> Text(f, i)]
           c == CHOOSE f : Rec(f)
<1>1. n1 \in Nat /\ DOMAIN p = 1 .. n1
  BY DEF Leaving!WellFormed
<1>2. base \in Seq(T)
  BY InnermostInOrder
<1>3. ASSUME NEW i \in 1 .. n1, NEW s \in Seq(T) PROVE Around(p, i, s) \in Seq(T)
  <2> DEFINE x == <<"open", i>>
             r == <<"rest", i - 1>>
             e == Leaving!PrintEnd(p, i)
  <2>1. i \in Nat /\ i - 1 \in Nat /\ i \in DOMAIN p
    BY <1>1
  <2>2. x \in T /\ r \in T
    BY <2>1 DEF Tokens
  <2>3. e \in Seq(T)
    BY <2>1, EndInOrder
  <2>4. Around(p, i, s) = ((<<x>> \o s) \o e) \o <<r>>
    BY DEF Around
  <2> HIDE DEF x, r, e, T
  <2>5. <<x>> \in Seq(T) /\ <<r>> \in Seq(T) /\ s \in Seq(T)
    BY <2>2
  <2> DEFINE a == <<x>>
             b == <<r>>
  <2>6. a \in Seq(T) /\ b \in Seq(T) /\ Around(p, i, s) = ((a \o s) \o e) \o b
    BY <2>4, <2>5
  <2> HIDE DEF a, b
  <2>7. a \o s \in Seq(T)
    BY <2>5, <2>6, ConcatProperties
  <2>8. (a \o s) \o e \in Seq(T)
    BY <2>3, <2>7, ConcatProperties
  <2>9. ((a \o s) \o e) \o b \in Seq(T)
    BY <2>6, <2>8, ConcatProperties
  <2> QED
    BY <2>6, <2>9
<1>4. Leaving!Outline(p, j) = c[1]
  BY DEF Leaving!Outline
<1> HIDE DEF T, base
<1>5. step \in [(1 .. n1) \X Seq(T) -> Seq(T)]
  <2> HIDE DEF n1
  <2>1. \A k \in 1 .. n1 : n1 + 1 - k \in 1 .. n1
    BY <1>1
  <2> QED
    BY <1>3, <2>1
<1> HIDE DEF n1
<1>6. \A k \in 1 .. n1, s \in Seq(T) : step[<<k, s>>] = Around(p, n1 + 1 - k, s)
  OBVIOUS
<1> HIDE DEF step
<1>7. PICK g : g \in [0 .. n1 -> Seq(T)] /\ Steps(n1, base, step, g)
  BY <1>1, <1>2, <1>5, Folded
<1>8. ASSUME NEW i \in 1 .. n1 PROVE g[n1 + 1 - i] = Around(p, i, g[n1 + 1 - (i + 1)])
  <2>1. n1 + 1 - i \in 1 .. n1 /\ (n1 + 1 - i) - 1 = n1 + 1 - (i + 1) /\ n1 + 1 - (n1 + 1 - i) = i
        /\ (n1 + 1 - i) - 1 \in 0 .. n1
    BY <1>1
  <2>2. g[n1 + 1 - i] = step[<<n1 + 1 - i, g[(n1 + 1 - i) - 1]>>] /\ g[(n1 + 1 - i) - 1] \in Seq(T)
    BY <1>7, <2>1 DEF Steps
  <2>3. step[<<n1 + 1 - i, g[(n1 + 1 - i) - 1]>>] = Around(p, n1 + 1 - (n1 + 1 - i), g[(n1 + 1 - i) - 1])
    BY <1>6, <2>1, <2>2
  <2> QED
    BY <2>1, <2>2, <2>3
<1> DEFINE h == [i \in 1 .. n1 + 1 |-> g[n1 + 1 - i]]
<1>9. /\ DOMAIN h = 1 .. n1 + 1 /\ h = [i \in 1 .. n1 + 1 |-> h[i]] /\ h[n1 + 1] = base
      /\ \A i \in 1 .. n1 : h[i] = Around(p, i, h[i + 1])
  <2>1. h[n1 + 1] = g[0]
    <3>1. n1 + 1 \in 1 .. n1 + 1 /\ n1 + 1 - (n1 + 1) = 0
      BY <1>1
    <3> QED
      BY <3>1
  <2>2. ASSUME NEW i \in 1 .. n1 PROVE h[i] = Around(p, i, h[i + 1])
    <3>1. i \in 1 .. n1 + 1 /\ i + 1 \in 1 .. n1 + 1
      BY <1>1
    <3>2. h[i] = g[n1 + 1 - i] /\ h[i + 1] = g[n1 + 1 - (i + 1)]
      BY <3>1
    <3> QED
      BY <1>8, <3>2
  <2>3. DOMAIN h = 1 .. n1 + 1 /\ h = [i \in 1 .. n1 + 1 |-> h[i]]
    OBVIOUS
  <2> HIDE DEF h
  <2>4. g[0] = base
    BY <1>7 DEF Steps
  <2> QED
    BY <2>1, <2>2, <2>3, <2>4
<1> HIDE DEF h
<1>10. ASSUME NEW i \in 1 .. n1, NEW f PROVE Text(f, i) = Around(p, i, f[i + 1])
  <2>1. ~(i > n1)
    BY <1>1
  <2> QED
    BY <2>1 DEF Around
<1>11. ASSUME NEW f PROVE Text(f, n1 + 1) = base
  <2>1. n1 + 1 > n1 /\ n1 + 1 - 1 = n1
    BY <1>1
  <2>2. Text(f, n1 + 1) = <<Leaving!PrintJump(j)>> \o << <<"rest", n1>> >>
    BY <1>1, <2>1
  <2> QED
    BY <2>2 DEF Innermost, base, n1
<1> HIDE DEF Text
<1>12. Rec(h)
  <2>1. ASSUME NEW i \in 1 .. n1 + 1 PROVE h[i] = Text(h, i)
    <3>1. i = n1 + 1 \/ i \in 1 .. n1
      BY <1>1
    <3> QED
      BY <1>9, <1>10, <1>11, <3>1
  <2> QED
    BY <1>9, <2>1
<1>13. Rec(c)
  <2> HIDE DEF Rec
  <2> QED
    BY <1>12
<1> HIDE DEF c
<1>14. \A i \in 1 .. n1 + 1 : c[i] = Text(c, i)
  BY <1>13
<1> HIDE DEF Rec
<1>15. n1 + 1 \in 1 .. n1 + 1 /\ \A i \in 1 .. n1 : i \in 1 .. n1 + 1
  BY <1>1
<1>16. c[n1 + 1] = base /\ \A i \in 1 .. n1 : c[i] = Around(p, i, c[i + 1])
  BY <1>10, <1>11, <1>14, <1>15
<1>17. Outlines(p, j, c)
  BY <1>16 DEF Outlines, n1, base
<1> QED
  BY <1>4, <1>17

(* All there is to find of a statement. *)
HasEnds(p, s, k) ==
  /\ Has(s, <<"close", k>>)
  /\ p[k].name # Leaving!NoName =>
       Has(s, <<"label", <<"break", p[k].name>> >>) /\ Has(s, <<"label", <<"continue", p[k].name>> >>)
LEMMA OutlineInOrder ==
  ASSUME NEW p, Leaving!WellFormed(p), NEW j \in Leaps, NEW w, w = Leaving!Outline(p, j)
  PROVE  /\ w \in Seq(Tokens(p, j)) /\ w # <<>> /\ InOrder(p, w) /\ w[Len(w)] = <<"rest", 0>>
         /\ \A k \in DOMAIN p : HasEnds(p, w, k)
<1> DEFINE n1 == Len(p)
           T == Tokens(p, j)
           Q(i, s) == /\ s \in Seq(T) /\ s # <<>> /\ InOrder(p, s) /\ s[Len(s)] = <<"rest", i - 1>>
                      /\ \A k \in i .. n1 : HasEnds(p, s, k)
<1>1. n1 \in Nat /\ DOMAIN p = 1 .. n1
  BY DEF Leaving!WellFormed
<1>2. PICK f : Outlines(p, j, f) /\ w = f[1]
  BY OutlineSteps
<1> DEFINE S == {m \in 0 .. n1 : Q(n1 + 1 - m, f[n1 + 1 - m])}
<1>3. 0 \in S
  <2>1. f[n1 + 1] = Innermost(p, j)
    BY <1>2 DEF Outlines
  <2>2. f[n1 + 1] \in Seq(T) /\ f[n1 + 1] # <<>> /\ InOrder(p, f[n1 + 1]) /\ f[n1 + 1][Len(f[n1 + 1])] = <<"rest", n1>>
    BY <2>1, InnermostInOrder
  <2> HIDE DEF n1, T
  <2>3. n1 + 1 - 1 = n1 /\ n1 + 1 - 0 = n1 + 1 /\ 0 \in 0 .. n1 /\ \A k \in n1 + 1 .. n1 : FALSE
    BY <1>1
  <2> DEFINE i0 == n1 + 1
             s0 == f[n1 + 1]
             r0 == <<"rest", i0 - 1>>
  <2>4. s0 \in Seq(T) /\ s0 # <<>> /\ InOrder(p, s0) /\ s0[Len(s0)] = r0 /\ \A k \in i0 .. n1 : FALSE
    BY <1>1, <2>2, <2>3
  <2> HIDE DEF i0, s0, r0
  <2>5. \A k \in i0 .. n1 : HasEnds(p, s0, k)
    BY <2>4
  <2>6. Q(i0, s0)
    BY <2>4, <2>5, Zenon DEF r0
  <2> HIDE DEF Q
  <2> QED
    BY <2>3, <2>6 DEF i0, s0
<1>4. ASSUME NEW m \in 0 .. n1, m # n1, m \in S PROVE m + 1 \in S
  <2> DEFINE i == n1 + 1 - (m + 1)
  <2> HIDE DEF T, Q
  <2>1. i \in 1 .. n1 /\ n1 + 1 - m = i + 1 /\ m + 1 \in 0 .. n1 /\ i + 1 - 1 = i
    <3> HIDE DEF n1
    <3> QED
      BY <1>1, <1>4
  <2>2. Q(i + 1, f[i + 1])
    BY <1>4, <2>1
  <2>3. f[i] = Around(p, i, f[i + 1])
    <3> HIDE DEF i
    <3> QED
      BY <1>2, <2>1 DEF Outlines
  <2> HIDE DEF n1, i
  <2>4. /\ f[i + 1] \in Seq(T) /\ f[i + 1] # <<>> /\ InOrder(p, f[i + 1]) /\ f[i + 1][Len(f[i + 1])] = <<"rest", i>>
        /\ \A k \in i + 1 .. n1 : HasEnds(p, f[i + 1], k)
    BY <2>1, <2>2 DEF Q
  <2>5. i \in DOMAIN p
    BY <1>1, <2>1
  <2> DEFINE s0 == f[i + 1]
             w0 == f[i]
  <2>9. /\ s0 \in Seq(T) /\ s0 # <<>> /\ InOrder(p, s0) /\ s0[Len(s0)] = <<"rest", i>>
        /\ w0 = Around(p, i, s0)
    BY <2>3, <2>4
  <2> HIDE DEF s0, w0
  <2>10. /\ w0 \in Seq(T) /\ w0 # <<>> /\ InOrder(p, w0) /\ w0[Len(w0)] = <<"rest", i - 1>>
         /\ (\A t : Has(s0, t) => Has(w0, t)) /\ HasEnds(p, w0, i)
    BY <2>5, <2>9, AroundInOrder DEF T, HasEnds
  <2>6. /\ f[i] \in Seq(T) /\ f[i] # <<>> /\ InOrder(p, f[i]) /\ f[i][Len(f[i])] = <<"rest", i - 1>>
        /\ (\A t : Has(f[i + 1], t) => Has(f[i], t)) /\ HasEnds(p, f[i], i)
    BY <2>10 DEF s0, w0
  <2>7. ASSUME NEW k \in i .. n1 PROVE HasEnds(p, f[i], k)
    <3>1. k = i \/ k \in i + 1 .. n1
      BY <1>1, <2>1
    <3>2. CASE k \in i + 1 .. n1
      BY <2>4, <2>6, <3>2 DEF HasEnds
    <3> QED
      BY <2>6, <3>1, <3>2
  <2>8. Q(i, f[i])
    BY <2>6, <2>7 DEF Q
  <2> QED
    BY <2>1, <2>8 DEF i
<1> HIDE DEF S
<1>5. n1 \in S
  <2> HIDE DEF n1
  <2>1. \A m \in 0 .. n1 : m \in S
    BY <1>1, <1>3, <1>4, Upwards
  <2> QED
    BY <1>1, <2>1
<1>6. Q(1, f[1])
  <2> HIDE DEF Q
  <2>1. n1 + 1 - n1 = 1
    <3> HIDE DEF n1
    <3> QED
      BY <1>1
  <2> QED
    BY <1>5, <2>1 DEF S
<1> QED
  BY <1>1, <1>2, <1>6

(* The first text from a place that is not a label. *)
LandsFrom(w, at) == w[Leaving!Min({n \in at .. Len(w) : ~Leaving!IsLabel(w[n])})]
LEMMA LandsHere ==
  ASSUME NEW w, Len(w) \in Nat, NEW at \in 1 .. Len(w), ~Leaving!IsLabel(w[at])
  PROVE  LandsFrom(w, at) = w[at]
<1> DEFINE S == {n \in at .. Len(w) : ~Leaving!IsLabel(w[n])}
<1>1. S \in SUBSET Nat /\ at \in S /\ \A k \in S : at <= k
  OBVIOUS
<1> HIDE DEF S
<1>2. Leaving!Min(S) = at
  BY <1>1, Smallest
<1> QED
  BY <1>2 DEF LandsFrom, S
LEMMA LandsNext ==
  ASSUME NEW w, Len(w) \in Nat, NEW at \in 1 .. Len(w), at # Len(w), Leaving!IsLabel(w[at]), ~Leaving!IsLabel(w[at + 1])
  PROVE  LandsFrom(w, at) = w[at + 1]
<1> DEFINE S == {n \in at .. Len(w) : ~Leaving!IsLabel(w[n])}
<1>1. at + 1 \in at .. Len(w) /\ at \in Nat /\ \A k \in at .. Len(w) : k # at => at + 1 <= k
  OBVIOUS
<1>2. at \notin S
  OBVIOUS
<1>3. S \in SUBSET Nat /\ at + 1 \in S /\ \A k \in S : at + 1 <= k
  BY <1>1, <1>2
<1> HIDE DEF S
<1>4. Leaving!Min(S) = at + 1
  BY <1>3, Smallest
<1> QED
  BY <1>4 DEF LandsFrom, S

LEMMA JumpsLand ==
  ASSUME NEW p, Leaving!WellFormed(p), NEW j \in Leaps, NEW w, w = Leaving!Outline(p, j), NEW k \in DOMAIN p,
         NEW at \in 1 .. Len(w)
  PROVE  /\ w[at] = <<"close", k>> =>
              LandsFrom(w, at) = <<"close", k>> /\ LandsFrom(w, at + 1) = <<"rest", k - 1>>
         /\ p[k].name # Leaving!NoName /\ w[at] = <<"label", <<"break", p[k].name>> >> =>
              LandsFrom(w, at) = <<"rest", k - 1>>
         /\ p[k].name # Leaving!NoName /\ w[at] = <<"label", <<"continue", p[k].name>> >> =>
              LandsFrom(w, at) = <<"close", k>>
<1> DEFINE c == <<"close", k>>
           r == <<"rest", k - 1>>
           z == <<"rest", 0>>
           lb == <<"label", <<"break", p[k].name>> >>
           lc == <<"label", <<"continue", p[k].name>> >>
<1>1. Len(w) \in Nat /\ InOrder(p, w) /\ w[Len(w)] = z
  BY OutlineInOrder
<1>2. ~Leaving!IsLabel(c) /\ ~Leaving!IsLabel(r) /\ Leaving!IsLabel(lb) /\ Leaving!IsLabel(lc) /\ c # z /\ lb # z /\ lc # z
  BY DEF Leaving!IsLabel
<1>3. ASSUME at # Len(w) PROVE Precedes(p, w[at], w[at + 1]) /\ at + 1 \in 1 .. Len(w)
  <2>1. at \in 1 .. Len(w) - 1 /\ at + 1 \in 1 .. Len(w)
    BY <1>1, <1>3
  <2> QED
    BY <1>1, <2>1 DEF InOrder
<1>4. ASSUME NEW x \in 1 .. Len(w), x # Len(w), w[x] = lb, p[k].name # Leaving!NoName
      PROVE  LandsFrom(w, x) = r
  <2>1. x \in 1 .. Len(w) - 1
    BY <1>1, <1>4
  <2>2. w[x + 1] = r
    BY <1>1, <1>4, <2>1 DEF InOrder, Precedes
  <2> HIDE DEF r, lb
  <2> QED
    BY <1>1, <1>2, <1>4, <2>2, LandsNext
<1>5. CASE w[at] = c
  <2>1. at # Len(w)
    BY <1>1, <1>2, <1>5
  <2>2. w[at + 1] = r \/ (w[at + 1] = lb /\ p[k].name # Leaving!NoName)
    BY <1>3, <1>5, <2>1 DEF Precedes
  <2> HIDE DEF c, r, lb, z
  <2>3. LandsFrom(w, at) = c
    BY <1>1, <1>2, <1>5, LandsHere
  <2>4. at + 1 \in 1 .. Len(w)
    BY <1>3, <2>1
  <2>5. LandsFrom(w, at + 1) = r
    <3>1. CASE w[at + 1] = r
      BY <1>1, <1>2, <2>4, <3>1, LandsHere
    <3>2. CASE w[at + 1] = lb /\ p[k].name # Leaving!NoName
      <4>1. at + 1 # Len(w)
        BY <1>1, <1>2, <3>2
      <4> QED
        BY <1>4, <2>4, <3>2, <4>1
    <3> QED
      BY <2>2, <3>1, <3>2
  <2>6. c # lb /\ c # lc
    BY <1>2
  <2> QED
    BY <1>5, <2>3, <2>5, <2>6 DEF c, r, lb
<1>6. CASE w[at] = lb /\ p[k].name # Leaving!NoName
  <2>1. at # Len(w)
    BY <1>1, <1>2, <1>6
  <2>2. LandsFrom(w, at) = r
    BY <1>4, <1>6, <2>1
  <2>3. lb # c /\ lb # lc
    BY <1>2 DEF lb, lc
  <2> QED
    BY <1>6, <2>2, <2>3 DEF c, r, lb, lc
<1>7. CASE w[at] = lc /\ p[k].name # Leaving!NoName
  <2>1. at # Len(w)
    BY <1>1, <1>2, <1>7
  <2>2. w[at + 1] = c
    BY <1>3, <1>7, <2>1 DEF Precedes
  <2>3. LandsFrom(w, at) = c
    <3> HIDE DEF c, lc
    <3> QED
      BY <1>1, <1>2, <1>7, <2>1, <2>2, LandsNext
  <2>4. lc # c /\ lb # lc
    BY <1>2 DEF lb, lc
  <2> QED
    BY <1>7, <2>3, <2>4 DEF c, r, lb, lc
<1> QED
  BY <1>5, <1>6, <1>7 DEF c, lb, lc

(* The jump is to leave the loop L, or start its next turn: it names L, or *)
(* it has no name and nothing that C++ could take for L is inside it but   *)
(* switches that will be ifs.                                              *)
IsFor(p, j, L) ==
  /\ L \in DOMAIN p /\ Leaving!IsLoop(p[L])
  /\ j.name # Leaving!NoName => p[L].name = j.name
  /\ j.name = Leaving!NoName => \A k \in DOMAIN p : k > L => ~Leaving!IsLoop(p[k])
  /\ j.name = Leaving!NoName /\ j.kind = "break" =>
       \A k \in DOMAIN p : k > L /\ p[k].kind = "switch" => Leaving!BecomesIf(p[k])
Aim(kind, L) == IF kind = "break" THEN <<"rest", L - 1>> ELSE <<"close", L>>

LEMMA NearestShape ==
  ASSUME NEW p, Leaving!WellFormed(p)
  PROVE  /\ Leaving!Nearest(p) # 0 =>
              /\ Leaving!Nearest(p) \in DOMAIN p /\ p[Leaving!Nearest(p)].kind # "if"
              /\ \A k \in DOMAIN p : k > Leaving!Nearest(p) => p[k].kind = "if"
         /\ Leaving!Nearest(p) = 0 => \A k \in DOMAIN p : p[k].kind = "if"
         /\ Leaving!NearestLoop(p) # 0 =>
              /\ Leaving!NearestLoop(p) \in DOMAIN p /\ Leaving!IsLoop(p[Leaving!NearestLoop(p)])
              /\ \A k \in DOMAIN p : k > Leaving!NearestLoop(p) => ~Leaving!IsLoop(p[k])
         /\ Leaving!NearestLoop(p) = 0 => \A k \in DOMAIN p : ~Leaving!IsLoop(p[k])
<1> DEFINE S1 == {i \in DOMAIN p : p[i].kind # "if"}
           S2 == {i \in DOMAIN p : Leaving!IsLoop(p[i])}
           n1 == Len(p)
<1>1. n1 \in Nat /\ DOMAIN p = 1 .. n1
  BY DEF Leaving!WellFormed
<1> HIDE DEF n1
<1>2. S1 \in SUBSET (1 .. n1) /\ S2 \in SUBSET (1 .. n1)
  BY <1>1
<1>3. /\ \A k \in DOMAIN p : k \in S1 <=> p[k].kind # "if"
      /\ \A k \in DOMAIN p : k \in S2 <=> Leaving!IsLoop(p[k])
      /\ \A k \in S1 : k \in DOMAIN p
      /\ \A k \in S2 : k \in DOMAIN p
  OBVIOUS
<1>4. Leaving!Nearest(p) = Leaving!Max0(S1) /\ Leaving!NearestLoop(p) = Leaving!Max0(S2)
  BY DEF Leaving!Nearest, Leaving!NearestLoop
<1> HIDE DEF S1, S2
<1>5. /\ S1 = {} => Leaving!Max0(S1) = 0
      /\ S1 # {} => Leaving!Max0(S1) \in S1 /\ \A k \in S1 : k <= Leaving!Max0(S1)
  BY <1>1, <1>2, Greatest0
<1>6. /\ S2 = {} => Leaving!Max0(S2) = 0
      /\ S2 # {} => Leaving!Max0(S2) \in S2 /\ \A k \in S2 : k <= Leaving!Max0(S2)
  BY <1>1, <1>2, Greatest0
<1>7. \A k, m \in 1 .. n1 : k > m => ~(k <= m)
  BY <1>1
<1>8. (S1 # {} => Leaving!Max0(S1) # 0) /\ (S2 # {} => Leaving!Max0(S2) # 0)
  BY <1>2, <1>5, <1>6
<1>9. /\ Leaving!Nearest(p) # 0 =>
              /\ Leaving!Nearest(p) \in DOMAIN p /\ p[Leaving!Nearest(p)].kind # "if"
              /\ \A k \in DOMAIN p : k > Leaving!Nearest(p) => p[k].kind = "if"
      /\ Leaving!Nearest(p) = 0 => \A k \in DOMAIN p : p[k].kind = "if"
  BY <1>1, <1>2, <1>3, <1>4, <1>5, <1>7, <1>8
<1>10. /\ Leaving!NearestLoop(p) # 0 =>
              /\ Leaving!NearestLoop(p) \in DOMAIN p /\ Leaving!IsLoop(p[Leaving!NearestLoop(p)])
              /\ \A k \in DOMAIN p : k > Leaving!NearestLoop(p) => ~Leaving!IsLoop(p[k])
       /\ Leaving!NearestLoop(p) = 0 => \A k \in DOMAIN p : ~Leaving!IsLoop(p[k])
  BY <1>1, <1>2, <1>3, <1>4, <1>6, <1>7, <1>8
<1> QED
  BY <1>9, <1>10

(* A name goes only where C++ does not need it. *)
LEMMA DropKeeps ==
  ASSUME NEW p, Leaving!WellFormed(p), NEW j \in Leaps, NEW L, IsFor(p, j, L), NEW b, b = Leaving!DropName(p, j)
  PROVE  b \in Leaps /\ b.kind = j.kind /\ IsFor(p, b, L)
<1> DEFINE drops == j.name # Leaving!NoName /\ Leaving!NameThere(p, Leaving!Nearest(p)) = j.name
<1>1. CASE ~drops
  <2>1. b = j
    BY <1>1 DEF Leaving!DropName
  <2> QED
    BY <2>1
<1>2. CASE drops
  <2>1. b = [j EXCEPT !.name = Leaving!NoName]
    BY <1>2 DEF Leaving!DropName
  <2>2. b \in Leaps /\ b.kind = j.kind /\ b.name = Leaving!NoName
    BY <2>1 DEF Leaps
  <2>3. L \in DOMAIN p /\ Leaving!IsLoop(p[L]) /\ p[L].name = j.name
    BY <1>2 DEF IsFor
  <2> DEFINE m == Leaving!Nearest(p)
  <2>4. m # 0 /\ p[m].name = j.name
    BY <1>2 DEF Leaving!NameThere
  <2>5. m \in DOMAIN p /\ \A k \in DOMAIN p : k > m => p[k].kind = "if"
    BY <2>4, NearestShape
  <2>6. m = L
    <3> HIDE DEF m
    <3> QED
      BY <1>2, <2>3, <2>4, <2>5, StatementShape
  <2>7. \A k \in DOMAIN p : k > L => ~Leaving!IsLoop(p[k]) /\ p[k].kind # "switch"
    <3> HIDE DEF m
    <3> QED
      BY <2>5, <2>6 DEF Leaving!IsLoop, Leaving!Loops
  <2> QED
    BY <2>2, <2>3, <2>7 DEF IsFor
<1> QED
  BY <1>1, <1>2

LEMMA VisitKeeps ==
  ASSUME NEW p, Leaving!WellFormed(p), NEW j \in Leaps, NEW L, IsFor(p, j, L), NEW b,
         b = Leaving!VisitContinue(p, j) \/ b = Leaving!FixBreak(p, j)
  PROVE  b \in Leaps /\ b.kind = j.kind /\ IsFor(p, b, L)
<1>1. b = j \/ b = Leaving!DropName(p, j)
  BY DEF Leaving!VisitContinue, Leaving!FixBreak
<1>2. CASE b = j
  BY <1>2
<1>3. CASE b = Leaving!DropName(p, j)
  BY <1>3, DropKeeps
<1> QED
  BY <1>1, <1>2, <1>3

(* A switch that becomes an if. *)
AsIf(p, m) == [p EXCEPT ![m] = [kind |-> "if", name |-> Leaving!NoName]]
LEMMA SwitchKeeps ==
  ASSUME NEW p, Leaving!WellFormed(p), NEW m \in DOMAIN p, p[m].kind = "switch"
  PROVE  Leaving!WellFormed(AsIf(p, m)) /\ \A j, L : IsFor(p, j, L) => IsFor(AsIf(p, m), j, L)
<1> DEFINE q == AsIf(p, m)
           S == Leaving!Statement
           x == [kind |-> "if", name |-> Leaving!NoName]
<1>1. x \in S
  BY DEF Leaving!Statement
<1>2. p \in Seq(S)
  BY DEF Leaving!WellFormed
<1>3. x.kind = "if" /\ x.name = Leaving!NoName
  OBVIOUS
<1>4. \A i, k \in DOMAIN p : p[i].name # Leaving!NoName /\ p[i].name = p[k].name => i = k
  BY DEF Leaving!WellFormed
<1>5. q = [p EXCEPT ![m] = x]
  BY DEF AsIf
<1> HIDE DEF S, x, q
<1>6. q \in Seq(S) /\ DOMAIN q = DOMAIN p /\ q[m] = x /\ \A k \in DOMAIN p : k # m => q[k] = p[k]
  BY <1>1, <1>2, <1>5
<1>7. \A i, k \in DOMAIN q : q[i].name # Leaving!NoName /\ q[i].name = q[k].name => i = k
  BY <1>3, <1>4, <1>6
<1>8. Leaving!WellFormed(q)
  BY <1>6, <1>7 DEF Leaving!WellFormed, S
<1>9. ~Leaving!IsLoop(x) /\ x.kind # "switch" /\ ~Leaving!IsLoop(p[m])
  BY <1>3 DEF Leaving!IsLoop, Leaving!Loops
<1>10. ASSUME NEW j, NEW L, IsFor(p, j, L) PROVE IsFor(q, j, L)
  <2>1. L \in DOMAIN q /\ L # m /\ q[L] = p[L]
    BY <1>6, <1>9, <1>10 DEF IsFor
  <2> QED
    BY <1>6, <1>9, <1>10, <2>1 DEF IsFor
<1> QED
  BY <1>8, <1>10 DEF q

LeaveInv ==
  /\ Leaving!WellFormed(path) /\ jump \in Leaps
  /\ \E L \in DOMAIN path : IsFor(path, jump, L) /\ exit = Aim(jump.kind, L)
  /\ stage = "done" => outline = Leaving!Outline(path, jump) /\ Leaving!ToVisit = {}

LEMMA LeaveInit == Leaving!Init => LeaveInv
<1> SUFFICES ASSUME Leaving!Init PROVE LeaveInv
  OBVIOUS
<1>1. path \in Paths /\ jump \in Jumps /\ Leaving!Expected(path, jump) /\ exit = Leaving!Meant(path, jump) /\ stage = "breaks"
  BY DEF Leaving!Init
<1>2. Leaving!WellFormed(path) /\ jump \in Leaps
  BY <1>1, PathsAssumption DEF Leaps
<1> DEFINE L == Leaving!Loop(path, jump)
           S == {i \in DOMAIN path : Leaving!IsLoop(path[i])
                                     /\ (jump.name # Leaving!NoName => path[i].name = jump.name)}
           n1 == Len(path)
<1>3. n1 \in Nat /\ DOMAIN path = 1 .. n1
  BY <1>2 DEF Leaving!WellFormed
<1> HIDE DEF n1
<1>4. L = Leaving!Max0(S) /\ L # 0
  BY <1>1 DEF Leaving!Loop, Leaving!Expected
<1>5. S \in SUBSET (1 .. n1)
  BY <1>3
<1>6. \A k : k \in S <=> k \in DOMAIN path /\ Leaving!IsLoop(path[k]) /\ (jump.name # Leaving!NoName => path[k].name = jump.name)
  OBVIOUS
<1>7. exit = Aim(jump.kind, L)
  BY <1>1 DEF Leaving!Meant, Aim
<1>8. jump = [kind |-> "break", name |-> Leaving!NoName] =>
         \A i \in L .. Len(path) : path[i].kind = "switch" => Leaving!BecomesIf(path[i])
  BY <1>1 DEF Leaving!Expected
<1> HIDE DEF L, S
<1>9. L \in S /\ \A k \in S : k <= L
  BY <1>3, <1>4, <1>5, Greatest0
<1>10. L \in DOMAIN path /\ Leaving!IsLoop(path[L]) /\ (jump.name # Leaving!NoName => path[L].name = jump.name)
  BY <1>6, <1>9
<1>11. jump.name = Leaving!NoName => \A k \in DOMAIN path : k > L => ~Leaving!IsLoop(path[k])
  <2>1. \A k \in 1 .. n1 : k > L => ~(k <= L)
    BY <1>3, <1>10
  <2> QED
    BY <1>3, <1>6, <1>9, <2>1
<1>12. jump.name = Leaving!NoName /\ jump.kind = "break" =>
         \A k \in DOMAIN path : k > L /\ path[k].kind = "switch" => Leaving!BecomesIf(path[k])
  <2> SUFFICES ASSUME jump.name = Leaving!NoName, jump.kind = "break", NEW k \in DOMAIN path, k > L, path[k].kind = "switch"
               PROVE  Leaving!BecomesIf(path[k])
    OBVIOUS
  <2>1. jump = [kind |-> "break", name |-> Leaving!NoName]
    BY <1>2 DEF Leaps
  <2>2. k \in L .. Len(path)
    BY <1>3, <1>10 DEF n1
  <2> QED
    BY <1>8, <2>1, <2>2
<1>13. IsFor(path, jump, L)
  BY <1>10, <1>11, <1>12 DEF IsFor
<1> QED
  BY <1>1, <1>2, <1>7, <1>10, <1>13 DEF LeaveInv

LEMMA LeaveNext ==
  ASSUME LeaveInv, [Leaving!Next]_(Leaving!exitVars)
  PROVE  LeaveInv'
<1>1. Leaving!WellFormed(path) /\ jump \in Leaps
  BY DEF LeaveInv
<1>2. PICK L \in DOMAIN path : IsFor(path, jump, L) /\ exit = Aim(jump.kind, L)
  BY DEF LeaveInv
<1>3. CASE UNCHANGED Leaving!exitVars
  <2>1. path' = path /\ jump' = jump /\ exit' = exit /\ stage' = stage /\ outline' = outline
    BY <1>3 DEF Leaving!exitVars
  <2>2. Leaving!ToVisit' = Leaving!ToVisit
    BY <2>1 DEF Leaving!ToVisit
  <2>3. stage' = "done" => outline' = Leaving!Outline(path', jump') /\ Leaving!ToVisit' = {}
    BY <2>1, <2>2 DEF LeaveInv
  <2> QED
    BY <1>1, <1>2, <2>1, <2>3 DEF LeaveInv
<1>4. CASE Leaving!FixBreaks \/ Leaving!VisitJump
  <2>1. /\ path' = path /\ exit' = exit /\ stage' # "done"
        /\ jump' = Leaving!VisitContinue(path, jump) \/ jump' = Leaving!FixBreak(path, jump)
    BY <1>4 DEF Leaving!FixBreaks, Leaving!VisitJump
  <2>2. PICK b : b = jump'
    OBVIOUS
  <2>3. b \in Leaps /\ b.kind = jump.kind /\ IsFor(path, b, L)
    BY <1>1, <1>2, <2>1, <2>2, VisitKeeps
  <2> QED
    BY <1>1, <1>2, <2>1, <2>2, <2>3 DEF LeaveInv
<1>5. CASE Leaving!VisitSwitch
  <2> DEFINE m == Leaving!Max(Leaving!ToVisit)
  <2>1. /\ Leaving!ToVisit # {} /\ path' = [path EXCEPT ![m] = [kind |-> "if", name |-> Leaving!NoName]]
        /\ jump' = Leaving!VisitContinue(path', jump) /\ exit' = exit /\ stage' # "done"
    BY <1>5 DEF Leaving!VisitSwitch
  <2>2. m \in Leaving!ToVisit
    <3>1. Len(path) \in Nat /\ DOMAIN path = 1 .. Len(path)
      BY <1>1 DEF Leaving!WellFormed
    <3>2. Leaving!ToVisit \in SUBSET (1 .. Len(path))
      BY <3>1 DEF Leaving!ToVisit
    <3> QED
      BY <2>1, <3>1, <3>2, Greatest
  <2>3. m \in DOMAIN path /\ path[m].kind = "switch"
    BY <2>2 DEF Leaving!ToVisit
  <2> HIDE DEF m
  <2>4. PICK q : q = path'
    OBVIOUS
  <2>5. Leaving!WellFormed(q) /\ IsFor(q, jump, L)
    <3>1. q = AsIf(path, m)
      BY <2>1, <2>4 DEF AsIf
    <3>2. Leaving!WellFormed(path) /\ m \in DOMAIN path /\ path[m].kind = "switch"
      BY <1>1, <2>3
    <3>3. Leaving!WellFormed(q) /\ \A j, k : IsFor(path, j, k) => IsFor(q, j, k)
      BY ONLY <3>1, <3>2, SwitchKeeps
    <3> QED
      BY <1>2, <3>3
  <2>6. PICK b : b = jump'
    OBVIOUS
  <2>7. b \in Leaps /\ b.kind = jump.kind /\ IsFor(q, b, L)
    BY <1>1, <2>1, <2>4, <2>5, <2>6, VisitKeeps
  <2>8. L \in DOMAIN q
    BY <2>7 DEF IsFor
  <2> QED
    BY <1>2, <2>1, <2>4, <2>5, <2>6, <2>7, <2>8 DEF LeaveInv
<1>6. CASE Leaving!PrintJumps
  <2>1. /\ path' = path /\ jump' = jump /\ exit' = exit /\ outline' = Leaving!Outline(path, jump)
        /\ Leaving!ToVisit = {}
    BY <1>6 DEF Leaving!PrintJumps
  <2>2. Leaving!ToVisit' = Leaving!ToVisit
    BY <2>1 DEF Leaving!ToVisit
  <2> QED
    BY <1>1, <1>2, <2>1, <2>2 DEF LeaveInv
<1> QED
  BY <1>3, <1>4, <1>5, <1>6 DEF Leaving!Next

(* Wherever a place is asked for that is there, one is found. *)
LEMMA Found ==
  ASSUME NEW t, Has(outline, t), NEW n1, n1 = Len(outline), DOMAIN outline = 1 .. n1
  PROVE  Leaving!Where(t) \in 1 .. n1 /\ outline[Leaving!Where(t)] = t
BY DEF Leaving!Where, Has

LEMMA LeaveLands ==
  ASSUME LeaveInv, stage = "done"
  PROVE  Leaving!Landing = exit
<1>1. Leaving!WellFormed(path) /\ jump \in Leaps /\ outline = Leaving!Outline(path, jump) /\ Leaving!ToVisit = {}
  BY DEF LeaveInv
<1>2. PICK L \in DOMAIN path : IsFor(path, jump, L) /\ exit = Aim(jump.kind, L)
  BY DEF LeaveInv
<1> DEFINE n1 == Len(outline)
           lb == <<"label", <<"break", path[L].name>> >>
           lc == <<"label", <<"continue", path[L].name>> >>
<1>3. n1 \in Nat /\ DOMAIN outline = 1 .. n1 /\ HasEnds(path, outline, L)
  BY <1>1, OutlineInOrder
<1>4. jump.kind \in {"break", "continue"} /\ Leaving!IsLoop(path[L])
      /\ (jump.name # Leaving!NoName => path[L].name = jump.name)
      /\ (jump.name = Leaving!NoName => \A k \in DOMAIN path : k > L => ~Leaving!IsLoop(path[k]))
  BY <1>1, <1>2 DEF Leaps, IsFor
<1>5. CASE jump.name # Leaving!NoName
  <2> DEFINE t == <<"label", <<jump.kind, jump.name>> >>
             at == Leaving!Where(t)
  <2>1. Leaving!PrintJump(jump) = <<"goto", <<jump.kind, jump.name>> >>
    BY <1>5 DEF Leaving!PrintJump
  <2>2. Leaving!Landing = LandsFrom(outline, at)
    BY <2>1 DEF Leaving!Landing, LandsFrom
  <2>3. (jump.kind = "break" => t = lb) /\ (jump.kind = "continue" => t = lc) /\ path[L].name # Leaving!NoName
    BY <1>4, <1>5
  <2>4. Has(outline, t)
    BY <1>3, <1>4, <2>3 DEF HasEnds
  <2> HIDE DEF n1
  <2>5. at \in 1 .. n1 /\ outline[at] = t
    BY <1>3, <2>4, Found DEF n1
  <2> HIDE DEF t, at
  <2>6. CASE jump.kind = "break"
    <3>1. LandsFrom(outline, at) = <<"rest", L - 1>>
      BY <1>1, <2>3, <2>5, <2>6, JumpsLand DEF n1
    <3> QED
      BY <1>2, <2>2, <2>6, <3>1 DEF Aim
  <2>7. CASE jump.kind = "continue"
    <3>1. LandsFrom(outline, at) = <<"close", L>>
      BY <1>1, <2>3, <2>5, <2>7, JumpsLand DEF n1
    <3> QED
      BY <1>2, <2>2, <2>7, <3>1 DEF Aim
  <2> QED
    BY <1>4, <2>6, <2>7
<1>6. ASSUME jump.name = Leaving!NoName PROVE Leaving!NearestLoop(path) = L
  <2> DEFINE m == Leaving!NearestLoop(path)
  <2>1. m # 0 /\ m \in DOMAIN path /\ Leaving!IsLoop(path[m]) /\ \A k \in DOMAIN path : k > m => ~Leaving!IsLoop(path[k])
    BY <1>1, <1>4, NearestShape
  <2>2. DOMAIN path = 1 .. Len(path) /\ Len(path) \in Nat
    BY <1>1 DEF Leaving!WellFormed
  <2> HIDE DEF m
  <2>3. ~(L > m) /\ ~(m > L)
    BY <1>4, <1>6, <2>1
  <2>4. L \in Nat /\ m \in Nat
    BY <2>1, <2>2
  <2>5. m = L
    BY <2>3, <2>4
  <2> QED
    BY <2>5 DEF m
<1>7. CASE jump.name = Leaving!NoName /\ jump.kind = "continue"
  <2> DEFINE t == <<"close", L>>
             at == Leaving!Where(t)
  <2>1. Leaving!PrintJump(jump) = <<"continue", Leaving!NoName>>
    BY <1>7 DEF Leaving!PrintJump
  <2>2. Leaving!Landing = LandsFrom(outline, at)
    BY <1>6, <1>7, <2>1 DEF Leaving!Landing, LandsFrom
  <2>3. Has(outline, t)
    BY <1>3 DEF HasEnds
  <2> HIDE DEF n1
  <2>4. at \in 1 .. n1 /\ outline[at] = t
    BY <1>3, <2>3, Found DEF n1
  <2> HIDE DEF at
  <2>5. LandsFrom(outline, at) = t
    BY <1>1, <2>4, JumpsLand DEF n1
  <2> QED
    BY <1>2, <1>7, <2>2, <2>5 DEF Aim
<1>8. CASE jump.name = Leaving!NoName /\ jump.kind = "break"
  <2> DEFINE t == <<"close", L>>
             at == Leaving!Where(t)
  <2>1. Leaving!PrintJump(jump) = <<"break", Leaving!NoName>>
    BY <1>8 DEF Leaving!PrintJump
  <2>2. Leaving!Nearest(path) = L
    <3> DEFINE m == Leaving!Nearest(path)
    <3>1. \A k \in DOMAIN path : k > L => path[k].kind = "if"
      <4> SUFFICES ASSUME NEW k \in DOMAIN path, k > L PROVE path[k].kind = "if"
        OBVIOUS
      <4>1. path[k].kind \in Leaving!Loops \cup {"if", "switch"} /\ ~Leaving!IsLoop(path[k])
        BY <1>1, <1>4, <1>8, StatementShape
      <4>2. ~(path[k].kind = "switch" /\ Leaving!BecomesIf(path[k]))
        BY <1>1 DEF Leaving!ToVisit
      <4>3. path[k].kind = "switch" => Leaving!BecomesIf(path[k])
        BY <1>2, <1>8 DEF IsFor
      <4> QED
        BY <4>1, <4>2, <4>3 DEF Leaving!IsLoop
    <3>2. path[L].kind # "if"
      BY <1>4 DEF Leaving!IsLoop, Leaving!Loops
    <3>3. m # 0 /\ m \in DOMAIN path /\ path[m].kind # "if" /\ \A k \in DOMAIN path : k > m => path[k].kind = "if"
      BY <1>1, <3>2, NearestShape
    <3>4. DOMAIN path = 1 .. Len(path) /\ Len(path) \in Nat
      BY <1>1 DEF Leaving!WellFormed
    <3> HIDE DEF m
    <3>5. ~(L > m) /\ ~(m > L)
      BY <3>1, <3>2, <3>3
    <3>6. L \in Nat /\ m \in Nat
      BY <3>3, <3>4
    <3>7. m = L
      BY <3>5, <3>6
    <3> QED
      BY <3>7 DEF m
  <2>3. Leaving!Landing = LandsFrom(outline, at + 1)
    BY <2>1, <2>2 DEF Leaving!Landing, LandsFrom
  <2>4. Has(outline, t)
    BY <1>3 DEF HasEnds
  <2> HIDE DEF n1
  <2>5. at \in 1 .. n1 /\ outline[at] = t
    BY <1>3, <2>4, Found DEF n1
  <2> HIDE DEF at
  <2>6. LandsFrom(outline, at + 1) = <<"rest", L - 1>>
    BY <1>1, <2>5, JumpsLand DEF n1
  <2> QED
    BY <1>2, <1>8, <2>3, <2>6 DEF Aim
<1> QED
  BY <1>4, <1>5, <1>7, <1>8

(* Every break and continue lands where HIF means it to, however many      *)
(* statements are around it and whichever of its switches become ifs       *)
(* (PreRefine_misc.cpp:32-69, 526-553, 616-644).                           *)
THEOREM ExitsCorrect == Leaving!Spec => []SameExit
<1>1. Leaving!Init => LeaveInv
  BY LeaveInit
<1>2. LeaveInv /\ [Leaving!Next]_(Leaving!exitVars) => LeaveInv'
  BY LeaveNext
<1>3. LeaveInv => SameExit
  BY LeaveLands DEF SameExit, Leaving!SameExit
<1> QED
  BY <1>1, <1>2, <1>3, PTL DEF Leaving!Spec
===============================================================================
