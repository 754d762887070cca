---------------------------- MODULE ProcessKindProofs ----------------------------
(***************************************************************************)
(* For every set of processes the translation is right about: what is      *)
(* printed never spins, and makes between any two events the assignments   *)
(* its source makes.                                                       *)
(***************************************************************************)
EXTENDS ProcessKind, WellFoundedInduction, TLAPS

Assigns == {"w1", "w2"}

(* What a run has assigned at each place of a turn that it begins at       *)
(* `from`, having assigned s.                                              *)
IsTrace(f, b, from, s) ==
  /\ f \in [from .. Len(b) + 1 -> Seq(Items)]
  /\ f[from] = s
  /\ \A k \in from .. Len(b) : f[k + 1] = IF b[k] \in Assigns THEN Append(f[k], b[k]) ELSE f[k]

(* A run since the last event, which let it go on at e: in the turn of the *)
(* event, where it assigned f, or in the next one, where it assigned g,    *)
(* and before the first wait of either.                                    *)
NoneOf(b, items, from, to) == \A j \in from .. to : b[j] \notin items
Follows(r, b, list, e, f, g) ==
  \/ /\ r.turn = 0 /\ r.pc >= e
     /\ r.out = f[r.pc]
     /\ NoneOf(b, {"wait"}, e, r.pc - 1)
  \/ /\ r.turn = 1
     /\ NoneOf(b, {"wait"}, e, Len(b))
     /\ IF list THEN r.pc = 0 /\ r.out = f[Len(b) + 1]
        ELSE r.pc >= 1 /\ r.out = g[r.pc] /\ NoneOf(b, {"wait"}, 1, r.pc - 1)

(* Where an event lets both runs go on. *)
Begins(b, e) == e \in 1 .. Len(b) + 1 /\ (e = 1 \/ b[e - 1] = "wait")

(* The source stops at `wait;`, which it never passes, or at the end of an *)
(* `initial`; what is printed for it, at the end.                          *)
SourceRuns(r, p, e) ==
  /\ r.turn = 0 => NoneOf(p.body, {"halt"}, e, r.pc - 1)
  /\ r.turn = 1 => Loops(p) /\ NoneOf(p.body, {"halt"}, e, Len(p.body))
  /\ r.stopped =>
       /\ r.turn = 0
       /\ \/ r.pc \in DOMAIN p.body /\ p.body[r.pc] = "halt"
          \/ r.pc = Len(p.body) + 1 /\ ~Loops(p)
PrintedRuns(r, p) ==
  /\ r.turn = 1 => IsRetriggerable(p)
  /\ r.stopped => r.turn = 0 /\ r.pc = Len(p.body) + 1 /\ ~IsRetriggerable(p)

Waking == proc.list /\ src = Start(TRUE) /\ dst = Start(TRUE)
Beside(e, f, g) ==
  /\ Begins(proc.body, e)
  /\ IsTrace(f, proc.body, e, <<>>)
  /\ IsTrace(g, proc.body, 1, f[Len(proc.body) + 1])
  /\ Follows(src, proc.body, proc.list, e, f, g) /\ SourceRuns(src, proc, e)
  /\ Follows(dst, proc.body, proc.list, e, f, g) /\ PrintedRuns(dst, proc)

(* The inductive invariant: both runs are on the way that began at the     *)
(* last event, each as far as it got.                                      *)
IInv ==
  /\ proc \in Processes
  /\ printed \in {None, Printed(proc)}
  /\ src \in Run(proc.body) /\ dst \in Run(proc.body)
  /\ Waking \/ \E e, f, g : Beside(e, f, g)

-----------------------------------------------------------------------------
(* A set of naturals that is not empty has a least one. *)
LEMMA Smallest ==
  ASSUME NEW S \in SUBSET Nat, S # {}
  PROVE  \E i \in S : \A j \in S : i <= j
<1> DEFINE R == OpToRel(<, Nat)
<1>1. \A i, j \in Nat : j < i => <<j, i>> \in R
  BY DEF OpToRel
<1>2. IsWellFoundedOn(R, Nat)
  BY NatLessThanWellFounded
<1> HIDE DEF R
<1>3. PICK i \in S : \A j \in S : ~(<<j, i>> \in R)
  BY <1>2, WFMin
<1>4. ASSUME NEW j \in S PROVE i <= j
  <2>1. i \in Nat /\ j \in Nat /\ ~(<<j, i>> \in R)
    BY <1>3
  <2>2. ~(j < i)
    BY <1>1, <2>1
  <2> QED
    BY <2>1, <2>2
<1> QED
  BY <1>4

(* Every turn has a trace: there is no first place it cannot be carried on to. *)
LEMMA TraceExists ==
  ASSUME NEW b \in Seq(Items), NEW from \in 1 .. Len(b) + 1, NEW s \in Seq(Items)
  PROVE  \E f : IsTrace(f, b, from, s)
<1> DEFINE Upto(f, k) ==
             /\ f \in [from .. k -> Seq(Items)]
             /\ f[from] = s
             /\ \A i \in from .. k - 1 : f[i + 1] = IF b[i] \in Assigns THEN Append(f[i], b[i]) ELSE f[i]
           Missing == {k \in from .. Len(b) + 1 : ~\E f : Upto(f, k)}
<1>1. Len(b) \in Nat /\ from \in Nat /\ \A i \in 1 .. Len(b) : b[i] \in Items
  OBVIOUS
<1>2. Upto([i \in from .. from |-> s], from)
  BY <1>1
<1>3. ASSUME Missing # {} PROVE FALSE
  <2>1. Missing \in SUBSET Nat
    BY <1>1
  <2> HIDE DEF Missing
  <2>2. PICK k \in Missing : \A j \in Missing : k <= j
    BY <1>3, <2>1, Smallest
  <2>3. k \in from .. Len(b) + 1 /\ k # from
    BY <1>2 DEF Missing
  <2>4. k - 1 \in from .. Len(b) + 1 /\ k - 1 \notin Missing
    <3>1. k - 1 \in Int /\ ~(k <= k - 1) /\ k - 1 \in from .. Len(b) + 1
      BY <1>1, <2>3
    <3> QED
      BY <2>2, <3>1
  <2>5. PICK f : Upto(f, k - 1)
    BY <2>4 DEF Missing
  <2> DEFINE x == IF b[k - 1] \in Assigns THEN Append(f[k - 1], b[k - 1]) ELSE f[k - 1]
             h == [i \in from .. k |-> IF i = k THEN x ELSE f[i]]
  <2>6. f[k - 1] \in Seq(Items) /\ b[k - 1] \in Items
    BY <1>1, <2>3, <2>4, <2>5
  <2>7. x \in Seq(Items)
    BY <2>6
  <2> HIDE DEF x
  <2>8. h \in [from .. k -> Seq(Items)] /\ h[from] = s
    BY <1>1, <2>3, <2>5, <2>7
  <2>9. ASSUME NEW i \in from .. k - 1
        PROVE  h[i + 1] = IF b[i] \in Assigns THEN Append(h[i], b[i]) ELSE h[i]
    <3>1. h[i] = f[i] /\ i \in Int
      BY <1>1, <2>3, <2>9
    <3>2. CASE i = k - 1
      BY <1>1, <2>3, <3>1, <3>2 DEF x
    <3>3. CASE i # k - 1
      <4>1. i \in from .. (k - 1) - 1 /\ i + 1 \in from .. k /\ i + 1 # k
        BY <1>1, <2>3, <3>3
      <4>2. h[i + 1] = f[i + 1]
        BY <4>1
      <4> QED
        BY <2>5, <3>1, <4>1, <4>2
    <3> QED
      BY <3>2, <3>3
  <2>10. Upto(h, k)
    BY <2>8, <2>9
  <2> HIDE DEF h, Upto
  <2> QED
    BY <2>2, <2>10 DEF Missing
<1>4. Len(b) + 1 \notin Missing
  BY <1>3
<1>5. PICK f : Upto(f, Len(b) + 1)
  BY <1>1, <1>4
<1>6. (Len(b) + 1) - 1 = Len(b)
  BY <1>1
<1> QED
  BY <1>5, <1>6 DEF IsTrace

-----------------------------------------------------------------------------
LEMMA HasItem ==
  ASSUME NEW p, NEW items
  PROVE  Has(p, items) <=> \E i \in DOMAIN p.body : p.body[i] \in items
BY DEF Has, ToSet

LEMMA BodyType ==
  ASSUME NEW p \in Processes
  PROVE  /\ p.body \in Seq(Items) /\ Len(p.body) \in Nat /\ DOMAIN p.body = 1 .. Len(p.body)
         /\ \A i \in 1 .. Len(p.body) : p.body[i] \in Items
         /\ p.list \in BOOLEAN
BY ProcessesAssumption DEF WellFormed

(* What the keyword says of a process. *)
LEMMA Kinds ==
  ASSUME NEW p \in Processes, Supported(p)
  PROVE  /\ IsRetriggerable(p) =>
              /\ Loops(p) /\ NoneOf(p.body, {"halt"}, 1, Len(p.body))
              /\ p.list \/ \E i \in 1 .. Len(p.body) : p.body[i] = "wait"
         /\ ~IsRetriggerable(p) =>
              /\ ~p.list
              /\ \/ Loops(p) /\ Len(p.body) >= 1 /\ p.body[Len(p.body)] = "halt"
                 \/ /\ ~Loops(p) /\ NoneOf(p.body, {"halt", "wait"}, 1, Len(p.body))
         /\ p.list => NoneOf(p.body, {"halt", "wait"}, 1, Len(p.body))
         /\ NoneOf(p.body, {"maybe", "nothing"}, 1, Len(p.body))
         /\ \A i \in 1 .. Len(p.body) : p.body[i] = "halt" => i = Len(p.body)
<1> DEFINE b == p.body
           In(i, items) == i \in 1 .. Len(b) /\ b[i] \in items
<1>1. /\ Len(b) \in Nat /\ DOMAIN b = 1 .. Len(b) /\ \A i \in 1 .. Len(b) : b[i] \in Items
      /\ p.list \in BOOLEAN
  BY BodyType
<1>2. \A items : Has(p, items) <=> \E i \in 1 .. Len(b) : b[i] \in items
  BY <1>1, HasItem
<1>3. /\ p.origin \in {"vhdl", "always", "initial"}
      /\ p.list => p.origin = "always" /\ ~Has(p, Items \ {"w1", "w2"})
      /\ p.origin # "vhdl" => ~Has(p, {"halt", "maybe"})
      /\ p.origin = "always" => p.list \/ Has(p, {"wait"})
      /\ p.origin = "vhdl" => Has(p, {"wait", "halt"})
  BY ProcessesAssumption DEF WellFormed
<1>4. ~Has(p, {"maybe"}) /\ (p.origin = "initial" => ~Has(p, {"wait"}))
      /\ \A i \in 1 .. Len(b) : b[i] = "halt" => i = Len(b)
  BY <1>1 DEF Supported
<1>5. IsRetriggerable(p) <=> p.list \/ (~Has(p, {"halt", "maybe"}) /\ Has(p, {"wait"}))
  BY DEF IsRetriggerable
<1> HIDE DEF b
<1>6. NoneOf(b, {"maybe", "nothing"}, 1, Len(b))
  BY <1>1, <1>2, <1>4 DEF NoneOf, Items
<1>7. p.list => NoneOf(b, {"halt", "wait"}, 1, Len(b))
  BY <1>2, <1>3 DEF NoneOf, Items
<1>8. IsRetriggerable(p) => /\ Loops(p) /\ NoneOf(b, {"halt"}, 1, Len(b))
                            /\ p.list \/ \E i \in 1 .. Len(b) : b[i] = "wait"
  <2>1. CASE p.list
    BY <1>3, <1>7, <2>1 DEF Loops, NoneOf
  <2>2. CASE ~p.list /\ IsRetriggerable(p)
    <3>1. ~Has(p, {"halt", "maybe"}) /\ Has(p, {"wait"})
      BY <1>5, <2>2
    <3>2. p.origin # "initial"
      BY <1>4, <3>1
    <3> QED
      BY <1>2, <3>1, <3>2 DEF Loops, NoneOf
  <2> QED
    BY <2>1, <2>2
<1>9. ASSUME ~IsRetriggerable(p)
      PROVE  /\ ~p.list
             /\ \/ Loops(p) /\ Len(b) >= 1 /\ b[Len(b)] = "halt"
                \/ ~Loops(p) /\ NoneOf(b, {"halt", "wait"}, 1, Len(b))
  <2>1. ~p.list /\ (Has(p, {"halt", "maybe"}) \/ ~Has(p, {"wait"}))
    BY <1>5, <1>9
  <2>2. CASE Has(p, {"halt"})
    <3>1. PICK i \in 1 .. Len(b) : b[i] = "halt"
      BY <1>2, <2>2
    <3>2. i = Len(b) /\ Has(p, {"halt", "maybe"})
      BY <1>2, <1>4, <3>1
    <3> QED
      BY <1>1, <1>3, <2>1, <3>1, <3>2 DEF Loops
  <2>3. CASE ~Has(p, {"halt"})
    <3>1. ~Has(p, {"halt", "maybe"}) /\ ~Has(p, {"wait"})
      BY <1>2, <1>4, <2>1, <2>3
    <3>2. p.origin = "initial"
      BY <1>2, <1>3, <2>1, <2>3, <3>1
    <3> QED
      BY <1>2, <2>1, <3>1, <3>2 DEF Loops, NoneOf
  <2> QED
    BY <2>2, <2>3
<1> QED
  BY <1>4, <1>6, <1>7, <1>8, <1>9 DEF b

(* What is printed for a process, item by item. *)
LEMMA PrintedShape ==
  ASSUME NEW p \in Processes, Supported(p)
  PROVE  LET d == Printed(p).body IN
         /\ Len(d) = Len(p.body) /\ DOMAIN d = 1 .. Len(p.body)
         /\ \A i \in 1 .. Len(p.body) :
              d[i] = IF p.body[i] \in {"halt", "maybe", "tail"} THEN "nothing" ELSE p.body[i]
         /\ Printed(p).list = p.list
         /\ Printed(p).kind = IF IsRetriggerable(p) THEN "always" ELSE "initial"
         /\ Printed(p) # None
<1> DEFINE d == Printed(p).body
<1>1. DOMAIN p.body = 1 .. Len(p.body) /\ Len(p.body) \in Nat
  BY BodyType
<1>2. d = [i \in 1 .. Len(p.body) |->
             IF p.body[i] \in {"halt", "maybe", "tail"} THEN "nothing" ELSE p.body[i]]
  BY <1>1 DEF Printed, Without
<1>3. Len(d) = Len(p.body)
  BY <1>1, <1>2
<1>4. /\ Printed(p).list = p.list
      /\ Printed(p).kind = IF IsRetriggerable(p) THEN "always" ELSE "initial"
  BY DEF Printed
<1> QED
  BY <1>2, <1>3, <1>4 DEF None
-----------------------------------------------------------------------------
(* The step past an item that is no wait. *)
LEMMA Onward ==
  ASSUME NEW b \in Seq(Items), NEW list \in BOOLEAN, NEW e, NEW f, NEW g,
         Begins(b, e), IsTrace(f, b, e, <<>>), IsTrace(g, b, 1, f[Len(b) + 1]),
         NEW r \in Run(b), Follows(r, b, list, e, f, g),
         r.pc \in 1 .. Len(b), b[r.pc] # "wait",
         NEW q, q.turn = r.turn, q.pc = r.pc + 1,
         q.out = IF b[r.pc] \in Assigns THEN Append(r.out, b[r.pc]) ELSE r.out
  PROVE  Follows(q, b, list, e, f, g)
<1>1. /\ Len(b) \in Nat /\ e \in 1 .. Len(b) + 1 /\ r.pc \in Nat /\ r.turn \in {0, 1, 2}
  BY DEF Begins, Run, Turns
<1>2. CASE r.turn = 0
  <2>1. r.pc >= e /\ r.out = f[r.pc] /\ NoneOf(b, {"wait"}, e, r.pc - 1)
    BY <1>2 DEF Follows
  <2>2. r.pc \in e .. Len(b)
    BY <1>1, <2>1
  <2>3. q.out = f[r.pc + 1]
    BY <2>1, <2>2 DEF IsTrace
  <2>4. NoneOf(b, {"wait"}, e, (r.pc + 1) - 1)
    BY <1>1, <2>1 DEF NoneOf
  <2> QED
    BY <1>1, <1>2, <2>1, <2>3, <2>4 DEF Follows
<1>3. CASE r.turn = 1
  <2>1. /\ ~list /\ r.out = g[r.pc] /\ NoneOf(b, {"wait"}, 1, r.pc - 1)
        /\ NoneOf(b, {"wait"}, e, Len(b))
    BY <1>1, <1>3 DEF Follows
  <2>2. q.out = g[r.pc + 1]
    BY <2>1 DEF IsTrace
  <2>3. NoneOf(b, {"wait"}, 1, (r.pc + 1) - 1)
    BY <1>1, <2>1 DEF NoneOf
  <2> QED
    BY <1>1, <1>3, <2>1, <2>2, <2>3 DEF Follows
<1> QED
  BY <1>2, <1>3 DEF Follows

(* The end of the first turn, and of a second one. *)
LEMMA Round ==
  ASSUME NEW b \in Seq(Items), NEW list \in BOOLEAN, NEW e, NEW f, NEW g,
         Begins(b, e), IsTrace(f, b, e, <<>>), IsTrace(g, b, 1, f[Len(b) + 1]),
         NEW r \in Run(b), Follows(r, b, list, e, f, g), r.pc > Len(b)
  PROVE  /\ r.pc = Len(b) + 1
         /\ r.turn = 0 => NoneOf(b, {"wait"}, e, Len(b)) /\ r.out = f[Len(b) + 1]
         /\ r.turn # 0 => r.turn = 1 /\ ~list /\ NoneOf(b, {"wait"}, 1, Len(b))
         /\ \A q : r.turn = 0 /\ q.turn = 1 /\ q.pc = (IF list THEN 0 ELSE 1) /\ q.out = r.out
                     => Follows(q, b, list, e, f, g)
<1>1. Len(b) \in Nat /\ r.pc = Len(b) + 1 /\ r.turn \in {0, 1, 2} /\ (Len(b) + 1) - 1 = Len(b)
  BY DEF Run, Turns
<1>2. r.turn = 0 => NoneOf(b, {"wait"}, e, Len(b)) /\ r.out = f[Len(b) + 1]
  BY <1>1 DEF Follows
<1>3. r.turn # 0 => r.turn = 1 /\ ~list /\ NoneOf(b, {"wait"}, 1, Len(b))
  BY <1>1 DEF Follows
<1>4. ASSUME NEW q, r.turn = 0, q.turn = 1, q.pc = (IF list THEN 0 ELSE 1), q.out = r.out
      PROVE  Follows(q, b, list, e, f, g)
  <2>1. q.out = f[Len(b) + 1] /\ g[1] = f[Len(b) + 1] /\ NoneOf(b, {"wait"}, e, Len(b))
    BY <1>2, <1>4 DEF IsTrace
  <2>2. NoneOf(b, {"wait"}, 1, 1 - 1)
    BY DEF NoneOf
  <2> QED
    BY <1>4, <2>1, <2>2 DEF Follows
<1> QED
  BY <1>1, <1>2, <1>3, <1>4

(* Two runs that both came to an event came to the same one. *)
LEMMA SameEvent ==
  ASSUME NEW b \in Seq(Items), NEW list \in BOOLEAN, NEW e, NEW f, NEW g,
         Begins(b, e), list => NoneOf(b, {"wait"}, 1, Len(b)),
         NEW r \in Run(b), Follows(r, b, list, e, f, g),
         r.pc = 0 \/ (r.pc \in 1 .. Len(b) /\ b[r.pc] = "wait"),
         NEW q \in Run(b), Follows(q, b, list, e, f, g),
         q.pc = 0 \/ (q.pc \in 1 .. Len(b) /\ b[q.pc] = "wait")
  PROVE  r.pc = q.pc /\ r.out = q.out
<1>1. Len(b) \in Nat /\ e \in 1 .. Len(b) + 1 /\ r.pc \in Nat /\ q.pc \in Nat
  BY DEF Begins, Run
<1>2. CASE list
  <2>1. r.pc = 0 /\ q.pc = 0
    BY <1>2 DEF NoneOf
  <2>2. r.turn # 0 /\ q.turn # 0
    BY <1>1, <2>1 DEF Follows
  <2> QED
    BY <1>2, <2>1, <2>2 DEF Follows
<1>3. CASE ~list
  <2>1. /\ r.pc \in 1 .. Len(b) /\ b[r.pc] = "wait"
        /\ q.pc \in 1 .. Len(b) /\ b[q.pc] = "wait"
    BY <1>1, <1>3 DEF Follows
  <2>2. CASE r.turn = 0
    <3>1. r.pc \in e .. Len(b) /\ NoneOf(b, {"wait"}, e, r.pc - 1) /\ r.out = f[r.pc]
      BY <1>1, <2>1, <2>2 DEF Follows
    <3>2. q.turn = 0
      BY <2>1, <3>1 DEF Follows, NoneOf
    <3>3. q.pc \in e .. Len(b) /\ NoneOf(b, {"wait"}, e, q.pc - 1) /\ q.out = f[q.pc]
      BY <1>1, <2>1, <3>2 DEF Follows
    <3>4. ~(r.pc < q.pc) /\ ~(q.pc < r.pc)
      BY <1>1, <2>1, <3>1, <3>3 DEF NoneOf
    <3> QED
      BY <1>1, <3>1, <3>3, <3>4
  <2>3. CASE r.turn # 0
    <3>1. /\ NoneOf(b, {"wait"}, e, Len(b)) /\ NoneOf(b, {"wait"}, 1, r.pc - 1)
          /\ r.out = g[r.pc]
      BY <1>3, <2>3 DEF Follows
    <3>2. q.turn # 0
      BY <1>1, <2>1, <3>1 DEF Follows, NoneOf
    <3>3. NoneOf(b, {"wait"}, 1, q.pc - 1) /\ q.out = g[q.pc]
      BY <1>3, <3>2 DEF Follows
    <3>4. ~(r.pc < q.pc) /\ ~(q.pc < r.pc)
      BY <1>1, <2>1, <3>1, <3>3 DEF NoneOf
    <3> QED
      BY <1>1, <3>1, <3>3, <3>4
  <2> QED
    BY <2>2, <2>3
<1> QED
  BY <1>2, <1>3
-----------------------------------------------------------------------------
(* Both runs go on from e. *)
LEMMA GoOn ==
  ASSUME NEW p \in Processes, NEW e, Begins(p.body, e)
  PROVE  \E f, g :
           /\ IsTrace(f, p.body, e, <<>>) /\ IsTrace(g, p.body, 1, f[Len(p.body) + 1])
           /\ \A r : r.turn = 0 /\ r.pc = e /\ r.out = <<>> /\ ~r.stopped =>
                /\ Follows(r, p.body, p.list, e, f, g)
                /\ SourceRuns(r, p, e) /\ PrintedRuns(r, p)
<1>1. p.body \in Seq(Items) /\ Len(p.body) \in Nat /\ <<>> \in Seq(Items) /\ e \in 1 .. Len(p.body) + 1
  BY BodyType DEF Begins
<1>2. PICK f : IsTrace(f, p.body, e, <<>>)
  BY <1>1, TraceExists
<1>3. f[Len(p.body) + 1] \in Seq(Items)
  <2>1. f \in [e .. Len(p.body) + 1 -> Seq(Items)]
    BY <1>2 DEF IsTrace
  <2>2. Len(p.body) + 1 \in e .. Len(p.body) + 1
    BY <1>1
  <2> QED
    BY <2>1, <2>2
<1>4. PICK g : IsTrace(g, p.body, 1, f[Len(p.body) + 1])
  BY <1>1, <1>3, TraceExists
<1>5. ASSUME NEW r, r.turn = 0, r.pc = e, r.out = <<>>, ~r.stopped
      PROVE  Follows(r, p.body, p.list, e, f, g) /\ SourceRuns(r, p, e) /\ PrintedRuns(r, p)
  <2>1. NoneOf(p.body, {"wait"}, e, e - 1) /\ NoneOf(p.body, {"halt"}, e, e - 1)
    BY <1>1 DEF NoneOf
  <2> QED
    BY <1>1, <1>2, <1>5, <2>1 DEF Follows, SourceRuns, PrintedRuns, IsTrace
<1> QED
  BY <1>2, <1>4, <1>5

LEMMA Begun == (\A p \in Processes : Supported(p)) /\ Init => IInv
<1> SUFFICES ASSUME Init PROVE IInv
  OBVIOUS
<1>1. /\ proc \in Processes /\ Len(proc.body) \in Nat /\ proc.list \in BOOLEAN
      /\ src = Start(proc.list) /\ dst = Start(proc.list) /\ printed = None
  BY BodyType DEF Init
<1>2. src \in Run(proc.body) /\ dst \in Run(proc.body)
  BY <1>1 DEF Start, Run, Turns
<1>3. CASE ~proc.list
  <2>1. Begins(proc.body, 1) /\ src = Start(FALSE) /\ dst = Start(FALSE)
    <3>1. proc.list = FALSE
      BY <1>1, <1>3
    <3>2. 1 \in 1 .. Len(proc.body) + 1
      BY <1>1
    <3>3. Begins(proc.body, 1)
      BY <3>2 DEF Begins
    <3>4. Start(proc.list) = Start(FALSE)
      BY ONLY <3>1
    <3> QED
      BY <1>1, <3>3, <3>4
  <2>2. \E f, g : Beside(1, f, g)
    BY <1>1, <2>1, GoOn DEF Beside, Start
  <2> QED
    BY <1>1, <1>2, <2>2 DEF IInv
<1>4. CASE proc.list
  BY <1>1, <1>2, <1>4 DEF IInv, Waking
<1> QED
  BY <1>1, <1>3, <1>4

(* `wait;` is the last item, so a run that left it behind began after it,  *)
(* and only a wait is where one begins.                                    *)
LEMMA HaltAhead ==
  ASSUME NEW p \in Processes, Supported(p), NEW e, Begins(p.body, e),
         NoneOf(p.body, {"halt"}, e, Len(p.body))
  PROVE  NoneOf(p.body, {"halt"}, 1, Len(p.body))
<1>1. Len(p.body) \in Nat /\ \A i \in 1 .. Len(p.body) : p.body[i] = "halt" => i = Len(p.body)
  BY BodyType, Kinds
<1> SUFFICES ASSUME NEW i \in 1 .. Len(p.body), p.body[i] = "halt" PROVE FALSE
  BY DEF NoneOf
<1>2. i = Len(p.body) /\ e \in 1 .. Len(p.body) + 1
  BY <1>1 DEF Begins
<1>3. e = Len(p.body) + 1
  BY <1>1, <1>2 DEF NoneOf
<1> QED
  BY <1>1, <1>2, <1>3 DEF Begins

(* The type of a run that went on an item, or to the next turn. *)
LEMMA RunOn ==
  ASSUME NEW b \in Seq(Items), NEW r \in Run(b), r.pc \in 1 .. Len(b)
  PROVE  /\ [r EXCEPT !.pc = @ + 1] \in Run(b)
         /\ [r EXCEPT !.pc = @ + 1, !.out = Append(@, b[r.pc])] \in Run(b)
<1>1. Len(b) \in Nat /\ r.pc + 1 \in 0 .. Len(b) + 1 /\ r.out \in Seq(Items) /\ b[r.pc] \in Items
  BY DEF Run
<1>2. Append(r.out, b[r.pc]) \in Seq(Items)
  BY <1>1
<1>3. ASSUME NEW next \in 0 .. Len(b) + 1, NEW out \in Seq(Items)
      PROVE  [r EXCEPT !.pc = next] \in Run(b) /\ [r EXCEPT !.pc = next, !.out = out] \in Run(b)
  BY DEF Run
<1> QED
  BY <1>1, <1>2, <1>3

(* A run that came round. *)
NextTurn(r, list) ==
  [r EXCEPT !.pc = IF list THEN 0 ELSE 1, !.turn = @ + 1, !.again = TRUE]

LEMMA RunRound ==
  ASSUME NEW b \in Seq(Items), NEW r \in Run(b), ~r.stopped, r.turn = 0, NEW list \in BOOLEAN
  PROVE  /\ NextTurn(r, list) \in Run(b) /\ ~NextTurn(r, list).stopped /\ NextTurn(r, list).turn = 1
         /\ NextTurn(r, list).out = r.out /\ NextTurn(r, list).pc = IF list THEN 0 ELSE 1
<1> DEFINE next == IF list THEN 0 ELSE 1
           turn == r.turn + 1
           q == NextTurn(r, list)
<1>1. next \in 0 .. Len(b) + 1 /\ turn \in 0 .. Turns /\ turn = 1
  BY DEF Turns
<1>2. q = [r EXCEPT !.pc = next, !.turn = turn, !.again = TRUE]
  BY DEF NextTurn
<1> HIDE DEF next, turn, q
<1>3. q \in Run(b) /\ q.stopped = r.stopped /\ q.turn = turn /\ q.out = r.out /\ q.pc = next
  BY <1>1, <1>2 DEF Run
<1> QED
  BY <1>1, <1>3 DEF next, q

LEMMA SourceStep ==
  ASSUME \A p \in Processes : Supported(p), IInv, RunSource
  PROVE  IInv'
<1> DEFINE b == proc.body
           loops == Loops(proc)
<1>1. /\ proc \in Processes /\ Supported(proc)
      /\ b \in Seq(Items) /\ Len(b) \in Nat /\ DOMAIN b = 1 .. Len(b) /\ proc.list \in BOOLEAN
      /\ \A i \in 1 .. Len(b) : b[i] \in Items
  BY BodyType DEF IInv
<1>2. /\ src \in Run(b) /\ dst \in Run(b) /\ printed \in {None, Printed(proc)}
      /\ UNCHANGED <<proc, printed, dst>> /\ ~Done(src, b)
  BY DEF IInv, RunSource
<1>3. /\ ~src.stopped /\ src.pc # 0 /\ ~(src.pc \in 1 .. Len(b) /\ b[src.pc] = "wait")
      /\ src.pc \in 0 .. Len(b) + 1 /\ src.turn \in {0, 1, 2} /\ src.out \in Seq(Items)
      /\ src.again \in BOOLEAN
  BY <1>1, <1>2 DEF Done, AtEvent, Run, Turns
<1>4. PICK e, f, g : Beside(e, f, g)
  <2>1. ~Waking
    BY <1>3 DEF Waking, Start
  <2> QED
    BY <2>1 DEF IInv
<1>5. /\ Begins(b, e) /\ IsTrace(f, b, e, <<>>) /\ IsTrace(g, b, 1, f[Len(b) + 1])
      /\ Follows(src, b, proc.list, e, f, g) /\ SourceRuns(src, proc, e)
  BY <1>4 DEF Beside
<1>6. ASSUME src' \in Run(b), Follows(src', b, proc.list, e, f, g), SourceRuns(src', proc, e)
      PROVE  IInv'
  <2>1. Beside(e, f, g)'
    BY <1>2, <1>4, <1>6 DEF Beside
  <2> QED
    BY <1>1, <1>2, <1>6, <2>1 DEF IInv
<1>7. PICK taken \in BOOLEAN : src' = Execute(src, b, proc.list, loops, taken)
  BY DEF RunSource
<1>8. CASE src.pc > Len(b)
  <2>1. src' = RoundAgain(src, proc.list, loops)
    BY <1>7, <1>8 DEF Execute
  <2>2. /\ src.pc = Len(b) + 1
        /\ src.turn = 0 => NoneOf(b, {"wait"}, e, Len(b)) /\ src.out = f[Len(b) + 1]
        /\ src.turn # 0 => src.turn = 1 /\ ~proc.list /\ NoneOf(b, {"wait"}, 1, Len(b))
        /\ \A q : src.turn = 0 /\ q.turn = 1 /\ q.pc = (IF proc.list THEN 0 ELSE 1) /\ q.out = src.out
                    => Follows(q, b, proc.list, e, f, g)
    BY <1>1, <1>2, <1>5, <1>8, Round
  <2>3. CASE src.turn = 0 /\ loops
    <3>1. src' = NextTurn(src, proc.list)
      BY <2>1, <2>3 DEF RoundAgain, NextTurn
    <3>2. /\ src'.pc = (IF proc.list THEN 0 ELSE 1) /\ src'.turn = 1 /\ src'.out = src.out
          /\ ~src'.stopped /\ src' \in Run(b)
      BY <1>1, <1>2, <1>3, <2>3, <3>1, RunRound
    <3>3. NoneOf(b, {"halt"}, e, Len(b))
      BY <1>1, <1>5, <2>2, <2>3 DEF SourceRuns
    <3> QED
      BY <1>6, <2>2, <2>3, <3>2, <3>3 DEF SourceRuns
  <2>4. CASE src.turn # 0
    <3>1. /\ loops /\ NoneOf(b, {"halt"}, e, Len(b)) /\ ~proc.list /\ NoneOf(b, {"wait"}, 1, Len(b))
      BY <1>5, <2>2, <2>4 DEF SourceRuns
    <3>2. NoneOf(b, {"halt"}, 1, Len(b))
      BY <1>1, <1>5, <3>1, HaltAhead
    <3>3. IsRetriggerable(proc)
      BY <1>1, <3>1, <3>2, Kinds DEF NoneOf
    <3> QED
      BY <1>1, <3>1, <3>3, Kinds DEF NoneOf
  <2>5. CASE src.turn = 0 /\ ~loops
    <3>1. src' = [src EXCEPT !.stopped = TRUE]
      BY <2>1, <2>5 DEF RoundAgain
    <3>2. /\ src'.pc = src.pc /\ src'.turn = 0 /\ src'.out = src.out /\ src' \in Run(b)
      BY <1>2, <2>5, <3>1 DEF Run
    <3> QED
      BY <1>5, <1>6, <2>2, <2>5, <3>2 DEF SourceRuns, Follows
  <2> QED
    BY <2>3, <2>4, <2>5
<1>9. CASE src.pc \in 1 .. Len(b) /\ b[src.pc] = "halt"
  <2>1. src' = [src EXCEPT !.stopped = TRUE]
    BY <1>1, <1>7, <1>9 DEF Execute
  <2>2. src'.pc = src.pc /\ src'.turn = src.turn /\ src'.out = src.out /\ src' \in Run(b)
    BY <1>2, <2>1 DEF Run
  <2>3. src.turn = 0
    <3>1. CASE src.turn = 1
      <4>1. NoneOf(b, {"halt"}, 1, Len(b))
        BY <1>1, <1>5, <3>1, HaltAhead DEF SourceRuns
      <4> QED
        BY <1>9, <4>1 DEF NoneOf
    <3> QED
      BY <1>5, <3>1 DEF Follows
  <2> QED
    BY <1>1, <1>5, <1>6, <1>9, <2>2, <2>3 DEF SourceRuns, Follows
<1>10. CASE src.pc \in 1 .. Len(b) /\ b[src.pc] # "halt"
  <2>1. b[src.pc] \in {"w1", "w2", "tail"}
    BY <1>1, <1>3, <1>10, Kinds DEF NoneOf, Items
  <2>2. src' = IF b[src.pc] \in Assigns THEN [src EXCEPT !.pc = @ + 1, !.out = Append(@, b[src.pc])]
               ELSE [src EXCEPT !.pc = @ + 1]
    BY <1>1, <1>7, <1>10, <2>1 DEF Execute, Assigns
  <2>3. /\ src'.pc = src.pc + 1 /\ src'.turn = src.turn /\ ~src'.stopped
        /\ src'.out = IF b[src.pc] \in Assigns THEN Append(src.out, b[src.pc]) ELSE src.out
    BY <1>2, <1>3, <2>2 DEF Run
  <2>4. src' \in Run(b)
    BY <1>1, <1>2, <1>10, <2>2, RunOn
  <2>5. Follows(src', b, proc.list, e, f, g)
    BY <1>1, <1>2, <1>5, <1>10, <2>1, <2>3, Onward
  <2>6. src.turn = 0 => NoneOf(b, {"halt"}, e, (src.pc + 1) - 1)
    BY <1>1, <1>3, <1>5, <1>10 DEF SourceRuns, NoneOf
  <2>7. SourceRuns(src', proc, e)
    BY <1>5, <2>3, <2>6 DEF SourceRuns
  <2> QED
    BY <1>6, <2>4, <2>5, <2>7
<1> QED
  BY <1>1, <1>3, <1>8, <1>9, <1>10

LEMMA PrintedStep ==
  ASSUME \A p \in Processes : Supported(p), IInv, RunPrinted
  PROVE  IInv'
<1> DEFINE b == proc.body
           d == Printed(proc).body
<1>1. /\ proc \in Processes /\ Supported(proc)
      /\ b \in Seq(Items) /\ Len(b) \in Nat /\ DOMAIN b = 1 .. Len(b) /\ proc.list \in BOOLEAN
      /\ \A i \in 1 .. Len(b) : b[i] \in Items
  BY BodyType DEF IInv
<1>2. /\ Len(d) = Len(b) /\ DOMAIN d = 1 .. Len(b)
      /\ \A i \in 1 .. Len(b) : d[i] = IF b[i] \in {"halt", "maybe", "tail"} THEN "nothing" ELSE b[i]
      /\ Printed(proc).list = proc.list
      /\ Printed(proc).kind = IF IsRetriggerable(proc) THEN "always" ELSE "initial"
  BY <1>1, PrintedShape
<1>3. /\ src \in Run(b) /\ dst \in Run(b) /\ printed = Printed(proc)
      /\ UNCHANGED <<proc, printed, src>> /\ ~Done(dst, d)
  BY DEF IInv, RunPrinted
<1> HIDE DEF d
<1>4. /\ ~dst.stopped /\ dst.pc # 0 /\ ~(dst.pc \in 1 .. Len(b) /\ b[dst.pc] = "wait")
      /\ dst.pc \in 0 .. Len(b) + 1 /\ dst.turn \in {0, 1, 2} /\ dst.out \in Seq(Items)
  <2>1. dst.pc \in 0 .. Len(b) + 1 /\ dst.turn \in {0, 1, 2} /\ dst.out \in Seq(Items)
    BY <1>3 DEF Run, Turns
  <2>2. ~dst.stopped /\ dst.pc # 0 /\ ~(dst.pc \in DOMAIN d /\ d[dst.pc] = "wait")
    BY <1>3 DEF Done, AtEvent
  <2>3. dst.pc \in 1 .. Len(b) /\ b[dst.pc] = "wait" => dst.pc \in DOMAIN d /\ d[dst.pc] = "wait"
    BY <1>2
  <2> QED
    BY <2>1, <2>2, <2>3
<1>5. PICK e, f, g : Beside(e, f, g)
  <2>1. ~Waking
    BY <1>4 DEF Waking, Start
  <2> QED
    BY <2>1 DEF IInv
<1>6. /\ Begins(b, e) /\ IsTrace(f, b, e, <<>>) /\ IsTrace(g, b, 1, f[Len(b) + 1])
      /\ Follows(dst, b, proc.list, e, f, g) /\ PrintedRuns(dst, proc)
  BY <1>5 DEF Beside
<1>7. ASSUME dst' \in Run(b), Follows(dst', b, proc.list, e, f, g), PrintedRuns(dst', proc)
      PROVE  IInv'
  <2>1. Beside(e, f, g)'
    BY <1>3, <1>5, <1>7 DEF Beside
  <2>2. proc' \in Processes /\ printed' = Printed(proc') /\ src' \in Run(proc'.body)
    BY <1>1, <1>3
  <2>3. dst' \in Run(proc'.body)
    BY <1>3, <1>7
  <2> QED
    BY <2>1, <2>2, <2>3 DEF IInv
<1>8. dst' = Execute(dst, d, proc.list, IsRetriggerable(proc), FALSE)
  <2>1. (printed.kind = "always") = IsRetriggerable(proc)
    BY <1>2, <1>3 DEF IsRetriggerable, Has
  <2> QED
    BY <1>2, <1>3, <2>1 DEF RunPrinted, d
<1>9. CASE dst.pc > Len(b)
  <2>1. dst' = RoundAgain(dst, proc.list, IsRetriggerable(proc))
    BY <1>2, <1>8, <1>9 DEF Execute
  <2>2. /\ dst.pc = Len(b) + 1
        /\ dst.turn = 0 => NoneOf(b, {"wait"}, e, Len(b)) /\ dst.out = f[Len(b) + 1]
        /\ dst.turn # 0 => dst.turn = 1 /\ ~proc.list /\ NoneOf(b, {"wait"}, 1, Len(b))
        /\ \A q : dst.turn = 0 /\ q.turn = 1 /\ q.pc = (IF proc.list THEN 0 ELSE 1) /\ q.out = dst.out
                    => Follows(q, b, proc.list, e, f, g)
    BY <1>1, <1>3, <1>6, <1>9, Round
  <2>3. CASE dst.turn = 0 /\ IsRetriggerable(proc)
    <3>1. dst' = NextTurn(dst, proc.list)
      BY <2>1, <2>3 DEF RoundAgain, NextTurn
    <3>2. /\ dst'.pc = (IF proc.list THEN 0 ELSE 1) /\ dst'.turn = 1 /\ dst'.out = dst.out
          /\ ~dst'.stopped /\ dst' \in Run(b)
      BY <1>1, <1>3, <1>4, <2>3, <3>1, RunRound
    <3> QED
      BY <1>7, <2>2, <2>3, <3>2 DEF PrintedRuns
  <2>4. CASE dst.turn # 0
    <3>1. IsRetriggerable(proc) /\ ~proc.list /\ NoneOf(b, {"wait"}, 1, Len(b))
      BY <1>6, <2>2, <2>4 DEF PrintedRuns
    <3> QED
      BY <1>1, <3>1, Kinds DEF NoneOf
  <2>5. CASE dst.turn = 0 /\ ~IsRetriggerable(proc)
    <3>1. dst' = [dst EXCEPT !.stopped = TRUE]
      BY <2>1, <2>5 DEF RoundAgain
    <3>2. dst'.pc = dst.pc /\ dst'.turn = 0 /\ dst'.out = dst.out /\ dst' \in Run(b)
      BY <1>3, <2>5, <3>1 DEF Run
    <3> QED
      BY <1>6, <1>7, <2>2, <2>5, <3>2 DEF PrintedRuns, Follows
  <2> QED
    BY <2>3, <2>4, <2>5
<1>10. CASE dst.pc \in 1 .. Len(b)
  <2>1. b[dst.pc] \in {"w1", "w2", "halt", "tail"}
    BY <1>1, <1>4, <1>10, Kinds DEF NoneOf, Items
  <2>2. d[dst.pc] = IF b[dst.pc] \in Assigns THEN b[dst.pc] ELSE "nothing"
    BY <1>2, <1>10, <2>1 DEF Assigns
  <2>3. dst' = IF b[dst.pc] \in Assigns THEN [dst EXCEPT !.pc = @ + 1, !.out = Append(@, b[dst.pc])]
               ELSE [dst EXCEPT !.pc = @ + 1]
    <3>1. dst.pc \in DOMAIN d /\ ~(dst.pc > Len(d))
      BY <1>1, <1>2, <1>10
    <3>2. CASE b[dst.pc] \in Assigns
      <4>1. d[dst.pc] = b[dst.pc] /\ d[dst.pc] \in {"w1", "w2"}
        BY <2>2, <3>2 DEF Assigns
      <4>2. dst' = [dst EXCEPT !.pc = @ + 1, !.out = Append(@, d[dst.pc])]
        BY <1>8, <3>1, <4>1 DEF Execute
      <4> QED
        BY <3>2, <4>1, <4>2
    <3>3. CASE b[dst.pc] \notin Assigns
      <4>1. d[dst.pc] = "nothing"
        BY <2>2, <3>3
      <4>2. dst' = [dst EXCEPT !.pc = @ + 1]
        BY <1>8, <3>1, <4>1 DEF Execute
      <4> QED
        BY <3>3, <4>2
    <3> QED
      BY <3>2, <3>3
  <2>4. /\ dst'.pc = dst.pc + 1 /\ dst'.turn = dst.turn /\ ~dst'.stopped
        /\ dst'.out = IF b[dst.pc] \in Assigns THEN Append(dst.out, b[dst.pc]) ELSE dst.out
    BY <1>3, <1>4, <2>3 DEF Run
  <2>5. dst' \in Run(b)
    BY <1>1, <1>3, <1>10, <2>3, RunOn
  <2>6. Follows(dst', b, proc.list, e, f, g)
    BY <1>1, <1>3, <1>6, <1>10, <2>1, <2>4, Onward
  <2> QED
    BY <1>6, <1>7, <2>4, <2>5, <2>6 DEF PrintedRuns
<1> QED
  BY <1>1, <1>4, <1>9, <1>10

-----------------------------------------------------------------------------
(* Between events: what both runs have done when neither can go on. *)
LEMMA Agree ==
  ASSUME \A p \in Processes : Supported(p), IInv, printed # None,
         Done(src, proc.body), Done(dst, printed.body)
  PROVE  /\ dst.out = src.out
         /\ AtEvent(dst, printed.body) <=> AtEvent(src, proc.body)
         /\ AtEvent(src, proc.body) =>
              /\ src.pc = dst.pc
              /\ src.pc = 0 \/ (src.pc \in 1 .. Len(proc.body) /\ proc.body[src.pc] = "wait")
<1> DEFINE b == proc.body
<1>1. /\ proc \in Processes /\ Supported(proc) /\ printed = Printed(proc)
      /\ b \in Seq(Items) /\ Len(b) \in Nat /\ DOMAIN b = 1 .. Len(b) /\ proc.list \in BOOLEAN
      /\ \A i \in 1 .. Len(b) : b[i] \in Items
      /\ src \in Run(b) /\ dst \in Run(b) /\ src.pc \in Nat /\ dst.pc \in Nat
      /\ src.stopped \in BOOLEAN /\ dst.stopped \in BOOLEAN
  BY BodyType DEF IInv, Run
<1>2. /\ DOMAIN printed.body = 1 .. Len(b)
      /\ \A i \in 1 .. Len(b) :
           printed.body[i] = IF b[i] \in {"halt", "maybe", "tail"} THEN "nothing" ELSE b[i]
  BY <1>1, PrintedShape
<1> DEFINE at(r) == r.pc = 0 \/ (r.pc \in 1 .. Len(b) /\ b[r.pc] = "wait")
<1>3. /\ AtEvent(src, b) <=> ~src.stopped /\ at(src)
      /\ AtEvent(dst, printed.body) <=> ~dst.stopped /\ at(dst)
  BY <1>1, <1>2 DEF AtEvent
<1>4. (src.stopped \/ at(src)) /\ (dst.stopped \/ at(dst))
  BY <1>3 DEF Done
<1>5. CASE Waking
  <2>1. src = dst /\ src.pc = 0 /\ ~src.stopped
    BY <1>5 DEF Waking, Start
  <2> QED
    BY <1>3, <2>1
<1>6. CASE ~Waking
  <2>1. PICK e, f, g : Beside(e, f, g)
    BY <1>6 DEF IInv
  <2>2. /\ Begins(b, e) /\ IsTrace(f, b, e, <<>>) /\ e \in 1 .. Len(b) + 1
        /\ Follows(src, b, proc.list, e, f, g) /\ SourceRuns(src, proc, e)
        /\ Follows(dst, b, proc.list, e, f, g) /\ PrintedRuns(dst, proc)
    BY <2>1 DEF Beside, Begins
  <2>3. src.stopped =>
          /\ src.turn = 0 /\ ~proc.list /\ ~IsRetriggerable(proc) /\ NoneOf(b, {"wait"}, e, Len(b))
          /\ src.out = f[Len(b) + 1]
    <3> SUFFICES ASSUME src.stopped
                 PROVE  /\ src.turn = 0 /\ ~proc.list /\ ~IsRetriggerable(proc)
                        /\ NoneOf(b, {"wait"}, e, Len(b)) /\ src.out = f[Len(b) + 1]
      OBVIOUS
    <3>1. src.turn = 0 /\ src.pc >= e /\ src.out = f[src.pc] /\ NoneOf(b, {"wait"}, e, src.pc - 1)
      BY <2>2 DEF SourceRuns, Follows
    <3>2. CASE src.pc \in 1 .. Len(b) /\ b[src.pc] = "halt"
      <4>1. src.pc = Len(b) /\ ~IsRetriggerable(proc) /\ ~proc.list
        BY <1>1, <3>2, Kinds DEF NoneOf
      <4>2. f[Len(b) + 1] = f[Len(b)]
        <5>1. Len(b) \in e .. Len(b) /\ b[Len(b)] = "halt"
          BY <1>1, <2>2, <3>1, <3>2, <4>1
        <5>2. f[Len(b) + 1] = IF b[Len(b)] \in Assigns THEN Append(f[Len(b)], b[Len(b)]) ELSE f[Len(b)]
          BY <2>2, <5>1 DEF IsTrace
        <5> QED
          BY <5>1, <5>2 DEF Assigns
      <4> QED
        BY <1>1, <2>2, <3>1, <3>2, <4>1, <4>2 DEF NoneOf
    <3>3. CASE src.pc = Len(b) + 1 /\ ~Loops(proc)
      BY <1>1, <3>1, <3>3, Kinds
    <3> QED
      BY <1>1, <2>2, <3>2, <3>3 DEF SourceRuns
  <2>4. dst.stopped =>
          /\ dst.turn = 0 /\ ~proc.list /\ ~IsRetriggerable(proc) /\ NoneOf(b, {"wait"}, e, Len(b))
          /\ dst.out = f[Len(b) + 1]
    BY <1>1, <2>2, Kinds DEF PrintedRuns, Follows
  <2>5. ~IsRetriggerable(proc) => src.turn = 0 /\ dst.turn = 0
    <3>1. dst.turn = 1 => IsRetriggerable(proc)
      BY <2>2 DEF PrintedRuns
    <3>2. src.turn = 1 => IsRetriggerable(proc)
      <4> SUFFICES ASSUME src.turn = 1, ~IsRetriggerable(proc) PROVE FALSE
        OBVIOUS
      <4>1. Loops(proc) /\ NoneOf(b, {"halt"}, 1, Len(b))
        BY <1>1, <2>2, HaltAhead DEF SourceRuns
      <4> QED
        BY <1>1, <4>1, Kinds DEF NoneOf
    <3> QED
      BY <2>2, <3>1, <3>2 DEF Follows
  (* A run in the turn of the event, at a wait, is past e. *)
  <2>6. ASSUME NEW r, r \in {src, dst}, r.turn = 0, at(r), NoneOf(b, {"wait"}, e, Len(b))
        PROVE  FALSE
    BY <1>1, <2>2, <2>6 DEF Follows, NoneOf
  <2>7. (src.stopped => ~at(dst)) /\ (dst.stopped => ~at(src))
    BY <2>3, <2>4, <2>5, <2>6
  <2>8. src.stopped <=> dst.stopped
    BY <1>4, <2>7
  <2>9. CASE src.stopped
    BY <1>3, <2>3, <2>4, <2>8, <2>9
  <2>10. CASE ~src.stopped
    <3>1. at(src) /\ at(dst)
      BY <1>4, <2>8, <2>10
    <3>2. proc.list => NoneOf(b, {"wait"}, 1, Len(b))
      BY <1>1, Kinds DEF NoneOf
    <3>3. src.pc = dst.pc /\ src.out = dst.out
      BY <1>1, <2>2, <3>1, <3>2, SameEvent
    <3> QED
      BY <1>3, <2>8, <2>10, <3>1, <3>3
  <2> QED
    BY <2>9, <2>10
<1> QED
  BY <1>5, <1>6

LEMMA WakeStep ==
  ASSUME \A p \in Processes : Supported(p), IInv, Wake
  PROVE  IInv'
<1> DEFINE b == proc.body
           e == src.pc + 1
<1>1. /\ proc \in Processes /\ Supported(proc) /\ printed \in {None, Printed(proc)}
      /\ b \in Seq(Items) /\ Len(b) \in Nat /\ src \in Run(b) /\ dst \in Run(b)
      /\ src.pc \in 0 .. Len(b) + 1
  BY BodyType DEF IInv, Run
<1>2. /\ printed # None /\ Done(src, b) /\ Done(dst, printed.body)
      /\ AtEvent(src, b) \/ AtEvent(dst, printed.body)
      /\ src' = Resume(src, b) /\ dst' = Resume(dst, printed.body)
      /\ UNCHANGED <<proc, printed>>
  BY DEF Wake
<1>3. /\ AtEvent(src, b) /\ AtEvent(dst, printed.body) /\ src.pc = dst.pc
      /\ src.pc = 0 \/ (src.pc \in 1 .. Len(b) /\ b[src.pc] = "wait")
  BY <1>2, Agree
<1>4. ~src.stopped /\ ~dst.stopped
  BY <1>3 DEF AtEvent
<1>5. Begins(b, e)
  BY <1>1, <1>3 DEF Begins
<1>6. /\ src' = [src EXCEPT !.pc = e, !.turn = 0, !.out = <<>>]
      /\ dst' = [dst EXCEPT !.pc = e, !.turn = 0, !.out = <<>>]
  BY <1>2, <1>3 DEF Resume
<1>7. e \in 0 .. Len(b) + 1 /\ 0 \in 0 .. Turns /\ <<>> \in Seq(Items)
  BY <1>1, <1>3 DEF Turns
<1> HIDE DEF e
<1>8. ASSUME NEW r \in Run(b), ~r.stopped
      PROVE  LET q == [r EXCEPT !.pc = e, !.turn = 0, !.out = <<>>]
             IN  q \in Run(b) /\ q.turn = 0 /\ q.pc = e /\ q.out = <<>> /\ ~q.stopped
  BY <1>7, <1>8 DEF Run
<1>9. /\ src' \in Run(b) /\ src'.turn = 0 /\ src'.pc = e /\ src'.out = <<>> /\ ~src'.stopped
      /\ dst' \in Run(b) /\ dst'.turn = 0 /\ dst'.pc = e /\ dst'.out = <<>> /\ ~dst'.stopped
  BY <1>1, <1>4, <1>6, <1>8
<1>10. \E k, f, g : Beside(k, f, g)'
  <2>1. PICK f, g :
           /\ IsTrace(f, b, e, <<>>) /\ IsTrace(g, b, 1, f[Len(b) + 1])
           /\ \A r : r.turn = 0 /\ r.pc = e /\ r.out = <<>> /\ ~r.stopped =>
                /\ Follows(r, b, proc.list, e, f, g)
                /\ SourceRuns(r, proc, e) /\ PrintedRuns(r, proc)
    BY <1>1, <1>5, GoOn
  <2>2. /\ Follows(src', b, proc.list, e, f, g) /\ SourceRuns(src', proc, e)
        /\ Follows(dst', b, proc.list, e, f, g) /\ PrintedRuns(dst', proc)
    BY <1>9, <2>1
  <2>3. Follows(src', proc'.body, proc'.list, e, f, g) /\ SourceRuns(src', proc', e)
    BY <1>2, <2>2
  <2> QED
    BY <1>2, <1>5, <2>1, <2>2, <2>3 DEF Beside
<1> QED
  BY <1>1, <1>2, <1>9, <1>10 DEF IInv

LEMMA StepKeeps ==
  ASSUME \A p \in Processes : Supported(p)
  PROVE  IInv /\ [Next]_vars => IInv'
<1> SUFFICES ASSUME IInv, [Next]_vars PROVE IInv'
  OBVIOUS
<1>1. CASE VisitStateTable
  <2>1. UNCHANGED <<proc, src, dst>> /\ printed' = Printed(proc)
    BY <1>1 DEF VisitStateTable
  <2> QED
    BY <2>1 DEF IInv, Waking, Beside
<1>2. CASE UNCHANGED vars
  BY <1>2 DEF vars, IInv, Waking, Beside
<1> QED
  BY <1>1, <1>2, SourceStep, PrintedStep, WakeStep DEF Next

(* Every variable keeps its type, neither run goes through its body more   *)
(* than once after an event, and no empty wait is printed                  *)
(* (VerilogPrinter.cpp:1457-1564, 1733-1757).                              *)
THEOREM TypeCorrect ==
  ASSUME \A p \in Processes : Supported(p)
  PROVE  Spec => []TypeOK
<1>1. Init => IInv
  BY Begun
<1>2. IInv /\ [Next]_vars => IInv'
  BY StepKeeps
<1>3. ASSUME IInv PROVE TypeOK
  <2>1. proc \in Processes /\ Supported(proc)
    BY <1>3 DEF IInv
  <2>2. CASE printed = None
    BY <1>3, <2>2 DEF IInv, TypeOK, None, ToSet
  <2>3. CASE printed = Printed(proc)
    <3>1. \A i \in 1 .. Len(proc.body) : proc.body[i] \in Items
      BY <2>1, BodyType
    <3>2. ToSet(printed.body) \subseteq {"w1", "w2", "wait", "nothing"}
      BY <2>1, <2>3, <3>1, PrintedShape DEF ToSet, Items
    <3> QED
      BY <1>3, <2>1, <2>3, <3>2, PrintedShape, BodyType DEF IInv, TypeOK
  <2> QED
    BY <1>3, <2>2, <2>3 DEF IInv
<1> QED
  BY <1>1, <1>2, <1>3, PTL DEF Spec

(* The printed process never goes round without waiting, however long its  *)
(* body is (isRetriggerable, VerilogPrinter.cpp:2320-2365).                *)
THEOREM WaitsEveryTurn ==
  ASSUME \A p \in Processes : Supported(p)
  PROVE  Spec => []NeverSpins
<1>1. Init => IInv
  BY Begun
<1>2. IInv /\ [Next]_vars => IInv'
  BY StepKeeps
<1>3. ASSUME IInv PROVE NeverSpins
  BY <1>3 DEF IInv, Waking, Start, Beside, Follows, NeverSpins, Turns
<1> QED
  BY <1>1, <1>2, <1>3, PTL DEF Spec

(* At every event the printed process has made the assignments of its      *)
(* source, in order, and it waits for another one when its source does     *)
(* (visitStateTable and visitWait, VerilogPrinter.cpp:1457-1564).          *)
THEOREM ActsAlike ==
  ASSUME \A p \in Processes : Supported(p)
  PROVE  Spec => []SameOutput
<1>1. Init => IInv
  BY Begun
<1>2. IInv /\ [Next]_vars => IInv'
  BY StepKeeps
<1>3. ASSUME IInv PROVE SameOutput
  BY <1>3, Agree DEF SameOutput
<1> QED
  BY <1>1, <1>2, <1>3, PTL DEF Spec
=============================================================================
