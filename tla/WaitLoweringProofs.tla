-------------------------- MODULE WaitLoweringProofs --------------------------
(***************************************************************************)
(* For every set of signals, every timeout and every statement: the block  *)
(* always has exactly the branches its clauses ask for, and it resumes     *)
(* when the HIF Wait does.                                                 *)
(***************************************************************************)
EXTENDS WaitLowering, FiniteSetTheorems, TLAPS

(* A block that has started and is not over has one branch for each it was *)
(* printed with.                                                           *)
OneEach ==
  /\ phase # "run" => branches = {}
  /\ \A b \in branches : b.kind \in Printed(stmt)
  /\ branches # {} => \A k \in Printed(stmt) : \E b \in branches : b.kind = k
  /\ \A b, c \in branches : b.kind = c.kind => b = c

IInv == TypeOK /\ OneEach

-----------------------------------------------------------------------------
LEMMA KindsPrinted ==
  ASSUME NEW w
  PROVE  Printed(w) \subseteq {"event", "gate", "level", "deadline"}
BY DEF Printed

LEMMA PrintedCases ==
  ASSUME NEW w
  PROVE  Printed(w) =
           (IF HasSensitivity(w) THEN IF HasCondition(w) THEN {"gate"} ELSE {"event"}
            ELSE IF HasCondition(w) THEN {"level"} ELSE {})
             \cup (IF w.timed THEN {"deadline"} ELSE {})
BY DEF Printed

LEMMA PairCount ==
  ASSUME NEW x, NEW y, y \notin {x}
  PROVE  Cardinality({x} \cup {y}) = 2
<1>1. IsFiniteSet({x}) /\ Cardinality({x}) = 1
  BY FS_Singleton
<1> QED
  BY <1>1, FS_AddElement

(* A branch that is woken or put back keeps its kind and its deadline. *)
LEMMA Rewoken ==
  ASSUME NEW b \in Branch, NEW e \in BOOLEAN
  PROVE  /\ [b EXCEPT !.woken = e] \in Branch
         /\ [b EXCEPT !.woken = e].kind = b.kind
         /\ [b EXCEPT !.woken = e].woken = e
         /\ [b EXCEPT !.woken = e].left = b.left
BY DEF Branch

(* A unit of a deadline passes. *)
LEMMA Shortened ==
  ASSUME NEW b \in Branch, b.left \in 1 .. Timeout
  PROVE  /\ [b EXCEPT !.left = b.left - 1, !.woken = (b.left = 1)] \in Branch
         /\ [b EXCEPT !.left = b.left - 1, !.woken = (b.left = 1)].kind = b.kind
         /\ [b EXCEPT !.left = b.left - 1, !.woken = (b.left = 1)].left = b.left - 1
         /\ [b EXCEPT !.left = b.left - 1, !.woken = (b.left = 1)].woken = (b.left = 1)
<1>1. b.left - 1 \in 0 .. Timeout /\ (b.left = 1) \in BOOLEAN
  BY BoundsAssumption
<1> QED
  BY <1>1 DEF Branch

LEMMA PassesBoolean ==
  ASSUME NEW b, NEW was, NEW is
  PROVE  Passes(b, was, is) \in BOOLEAN
BY DEF Passes, EventControl, Holds

(* What entering the block starts. *)
LEMMA EnteredBranches ==
  ASSUME NEW w, NEW now
  PROVE  /\ Entered(w, now) \subseteq Branch
         /\ \A b \in Entered(w, now) :
              /\ b.kind \in Printed(w)
              /\ b.woken = (b.kind = "level" /\ Holds(w, now))
              /\ b.left = Timeout
         /\ \A k \in Printed(w) : \E b \in Entered(w, now) : b.kind = k
         /\ \A b, c \in Entered(w, now) : b.kind = c.kind => b = c
<1> DEFINE Started(k) == [kind |-> k, woken |-> k = "level" /\ Holds(w, now), left |-> Timeout]
<1>1. Entered(w, now) = {Started(k) : k \in Printed(w)}
  BY DEF Entered
<1>2. ASSUME NEW k \in Printed(w)
      PROVE  /\ Started(k) \in Branch
             /\ Started(k).kind = k
             /\ Started(k).woken = (k = "level" /\ Holds(w, now))
             /\ Started(k).left = Timeout
  <2>1. (k = "level" /\ Holds(w, now)) \in BOOLEAN
    OBVIOUS
  <2>2. k \in {"event", "gate", "level", "deadline"}
    BY KindsPrinted
  <2> QED
    BY <2>1, <2>2, BoundsAssumption DEF Branch
<1> HIDE DEF Started
<1> QED
  BY <1>1, <1>2

-----------------------------------------------------------------------------
LEMMA Starts == Init => IInv
BY BoundsAssumption DEF Init, IInv, TypeOK, OneEach

(* The process reaches the block, or comes round to it. *)
LEMMA EnterKeeps ==
  ASSUME IInv, phase' = "run", branches' = Entered(stmt, sig),
         UNCHANGED <<stmt, sig, cycles, extra, racing>>
  PROVE  IInv'
<1>1. TypeOK'
  <2>1. \A b \in branches' : b.kind = "deadline" => (b.woken <=> b.left = 0)
    BY EnteredBranches, BoundsAssumption
  <2> QED
    BY <2>1, EnteredBranches DEF IInv, TypeOK, Branch
<1>2. OneEach'
  <2>1. Printed(stmt)' = Printed(stmt)
    BY DEF Printed, HasSensitivity, HasCondition
  <2> QED
    BY <2>1, EnteredBranches DEF OneEach
<1> QED
  BY <1>1, <1>2 DEF IInv

LEMMA SamePrinted ==
  ASSUME stmt' = stmt
  PROVE  Printed(stmt)' = Printed(stmt)
BY DEF Printed, HasSensitivity, HasCondition

(* Each branch is replaced by one of its kind. *)
LEMMA OneForOne ==
  ASSUME OneEach, stmt' = stmt, phase' = phase, phase = "run",
         NEW f, branches' = {f[b] : b \in branches},
         \A b \in branches : f[b].kind = b.kind
  PROVE  OneEach'
BY SamePrinted DEF OneEach

LEMMA ChangeKeeps == IInv /\ Change => IInv'
<1> SUFFICES ASSUME IInv, Change
             PROVE  IInv'
  OBVIOUS
<1> DEFINE F(b) == [b EXCEPT !.woken = b.woken \/ Passes(b, sig, sig')]
<1>1. branches' = {F(b) : b \in branches}
  BY DEF Change
<1>2. ASSUME NEW b \in branches
      PROVE  /\ F(b) \in Branch /\ F(b).kind = b.kind /\ F(b).left = b.left
             /\ F(b).woken = (b.woken \/ Passes(b, sig, sig'))
  <2>1. b \in Branch /\ (b.woken \/ Passes(b, sig, sig')) \in BOOLEAN
    BY PassesBoolean DEF IInv, TypeOK, Branch
  <2> QED
    BY <2>1, Rewoken
<1>3. \A b \in branches : b.kind = "deadline" => F(b).woken = b.woken
  BY <1>2 DEF Passes, IInv, TypeOK, Branch
<1>4. TypeOK'
  <2>1. branches' \subseteq Branch
    BY <1>1, <1>2
  <2>2. ASSUME NEW b \in branches', b.kind = "deadline"
        PROVE  b.woken <=> b.left = 0
    <3> HIDE DEF F
    <3>1. PICK c \in branches : b = F(c)
      BY <1>1
    <3> QED
      BY <2>2, <3>1, <1>2, <1>3 DEF IInv, TypeOK
  <2>3. cycles' \in 0 .. Cycles
    BY BoundsAssumption DEF IInv, TypeOK, Change
  <2> QED
    BY <2>1, <2>2, <2>3 DEF IInv, TypeOK, Change
<1> HIDE DEF F
<1> DEFINE f == [b \in branches |-> F(b)]
<1>5. branches' = {f[b] : b \in branches} /\ \A b \in branches : f[b].kind = b.kind
  BY <1>1, <1>2
<1> HIDE DEF f
<1>6. phase = "run" /\ OneEach
  BY DEF IInv, Change
<1>7. OneEach'
  BY <1>5, <1>6, OneForOne DEF Change
<1> QED
  BY <1>4, <1>7 DEF IInv

LEMMA ElapseKeeps == IInv /\ Elapse => IInv'
<1> SUFFICES ASSUME IInv, Elapse
             PROVE  IInv'
  OBVIOUS
<1> DEFINE F(b) == IF b.kind = "deadline"
                   THEN [b EXCEPT !.left = b.left - 1, !.woken = (b.left = 1)] ELSE b
<1>1. branches' = {F(b) : b \in branches}
  BY DEF Elapse
<1>2. ASSUME NEW b \in branches
      PROVE  /\ F(b) \in Branch /\ F(b).kind = b.kind
             /\ b.kind = "deadline" => (F(b).woken <=> F(b).left = 0)
  <2>1. b \in Branch /\ ~b.woken /\ (b.kind = "deadline" => (b.woken <=> b.left = 0))
    BY DEF IInv, TypeOK, Elapse, Woken
  <2>2. b.kind = "deadline" => b.left \in 1 .. Timeout
    BY <2>1, BoundsAssumption DEF Branch
  <2>3. CASE b.kind = "deadline"
    <3>1. F(b) = [b EXCEPT !.left = b.left - 1, !.woken = (b.left = 1)]
      BY <2>3
    <3> HIDE DEF F
    <3>2. F(b) \in Branch /\ F(b).kind = b.kind /\ F(b).left = b.left - 1 /\ F(b).woken = (b.left = 1)
      BY <2>1, <2>2, <2>3, <3>1, Shortened
    <3> QED
      <4>1. b.left - 1 = 0 <=> b.left = 1
        BY <2>2, <2>3, BoundsAssumption
      <4> QED
        BY <4>1, <3>2
  <2>4. CASE b.kind # "deadline"
    BY <2>1, <2>4
  <2> QED
    BY <2>3, <2>4
<1> HIDE DEF F
<1>3. TypeOK'
  <2>1. 0 \in 0 .. Cycles
    BY BoundsAssumption
  <2>2. branches' \subseteq Branch /\ \A b \in branches' : b.kind = "deadline" => (b.woken <=> b.left = 0)
    BY <1>1, <1>2
  <2> QED
    BY <2>1, <2>2 DEF IInv, TypeOK, Elapse
<1> DEFINE f == [b \in branches |-> F(b)]
<1>4. branches' = {f[b] : b \in branches} /\ \A b \in branches : f[b].kind = b.kind
  BY <1>1, <1>2
<1> HIDE DEF f
<1>5. phase = "run" /\ OneEach
  BY DEF IInv, Elapse
<1>6. OneEach'
  BY <1>4, <1>5, OneForOne DEF Elapse
<1> QED
  BY <1>3, <1>6 DEF IInv

LEMMA RunKeeps == \A b \in Branch : IInv /\ RunBranch(b) => IInv'
<1> SUFFICES ASSUME IInv, NEW b \in Branch, RunBranch(b)
             PROVE  IInv'
  OBVIOUS
<1>1. b \in branches /\ b.woken /\ phase = "run"
  BY DEF RunBranch, Woken, IInv, OneEach
<1>2. CASE Retries(b)
  <2> DEFINE F(c) == IF c = b THEN [b EXCEPT !.woken = FALSE] ELSE c
  <2>1. branches' = {F(c) : c \in branches}
    BY <1>1, <1>2 DEF RunBranch
  <2>2. \A c \in branches : F(c) \in Branch /\ F(c).kind = c.kind
    BY Rewoken DEF IInv, TypeOK
  <2>3. b.kind # "deadline"
    BY <1>2 DEF Retries
  <2>4. TypeOK'
    BY <2>1, <2>2, <2>3 DEF IInv, TypeOK, RunBranch
  <2> HIDE DEF F
  <2> DEFINE f == [c \in branches |-> F(c)]
  <2>5. branches' = {f[c] : c \in branches} /\ \A c \in branches : f[c].kind = c.kind
    BY <2>1, <2>2
  <2> HIDE DEF f
  <2>6. OneEach'
    BY <1>1, <2>5, OneForOne DEF IInv, RunBranch
  <2> QED
    BY <2>4, <2>6 DEF IInv
<1>3. CASE ~Retries(b)
  <2>1. branches' = {}
    BY <1>3 DEF RunBranch
  <2> QED
    BY <2>1 DEF IInv, TypeOK, OneEach, RunBranch
<1> QED
  BY <1>2, <1>3

LEMMA StepKeeps == IInv /\ [Next]_vars => IInv'
<1> SUFFICES ASSUME IInv, [Next]_vars
             PROVE  IInv'
  OBVIOUS
<1>1. CASE Refuse
  BY <1>1 DEF Refuse, IInv, TypeOK, OneEach
<1>2. CASE VisitWait
  BY <1>2, EnterKeeps DEF VisitWait
<1>3. CASE Reenter
  BY <1>3, EnterKeeps DEF Reenter, Resumed
<1>4. CASE Change
  BY <1>4, ChangeKeeps
<1>5. CASE Elapse
  BY <1>5, ElapseKeeps
<1>6. CASE \E b \in Branch : RunBranch(b)
  BY <1>6, RunKeeps
<1>7. CASE UNCHANGED vars
  BY <1>7, SamePrinted DEF vars, IInv, TypeOK, OneEach
<1> QED
  BY <1>1, <1>2, <1>3, <1>4, <1>5, <1>6, <1>7 DEF Next

LEMMA IInvAlways == Spec => []IInv
BY Starts, StepKeeps, PTL DEF Spec

(* The type invariant: a deadline is spent exactly when its branch is      *)
(* woken (printMultiClauseWait, the delay of the timeout branch).          *)
THEOREM TypeCorrect == Spec => []TypeOK
<1>1. IInv => TypeOK
  BY DEF IInv
<1> QED
  BY <1>1, IInvAlways, PTL

-----------------------------------------------------------------------------
LEMMA ArmedFollows == IInv => EveryReasonArmed
<1> SUFFICES ASSUME IInv, phase = "run", branches # {}
             PROVE  EveryReasonArmed
  BY DEF EveryReasonArmed
<1> DEFINE data == HasSensitivity(stmt) \/ HasCondition(stmt)
           Asked == {c \in {"data", "time"} : IF c = "time" THEN stmt.timed ELSE data}
<1>1. /\ \A b \in branches : b.kind \in Printed(stmt)
      /\ \A k \in Printed(stmt) : \E b \in branches : b.kind = k
      /\ \A b, c \in branches : b.kind = c.kind => b = c
  BY DEF IInv, OneEach
<1>2. Printed(stmt) =
        (IF HasSensitivity(stmt) THEN IF HasCondition(stmt) THEN {"gate"} ELSE {"event"}
         ELSE IF HasCondition(stmt) THEN {"level"} ELSE {})
          \cup (IF stmt.timed THEN {"deadline"} ELSE {})
  BY PrintedCases
<1>3. /\ HasSensitivity(stmt) => \E b \in branches : b.kind \in {"event", "gate"}
      /\ HasCondition(stmt) => \E b \in branches : b.kind \in {"level", "gate"}
      /\ stmt.timed => \E b \in branches : b.kind = "deadline"
  BY <1>1, <1>2
<1>4. Cardinality(branches) = Cardinality(Asked)
  <2>1. CASE data /\ stmt.timed
    <3>1. PICK k \in {"gate", "event", "level"} : Printed(stmt) = {k, "deadline"}
      BY <1>2, <2>1
    <3>2. PICK b \in branches, d \in branches : b.kind = k /\ d.kind = "deadline"
      BY <1>1, <3>1
    <3>3. branches = {d} \cup {b} /\ b \notin {d}
      BY <1>1, <3>1, <3>2
    <3>4. Asked = {"time"} \cup {"data"} /\ "data" \notin {"time"}
      BY <2>1
    <3> QED
      BY <3>3, <3>4, PairCount
  <2>2. CASE data /\ ~stmt.timed
    <3>1. PICK k \in {"gate", "event", "level"} : Printed(stmt) = {k}
      BY <1>2, <2>2
    <3>2. PICK b \in branches : b.kind = k
      BY <1>1, <3>1
    <3>3. branches = {b}
      BY <1>1, <3>1, <3>2
    <3>4. Asked = {"data"}
      BY <2>2
    <3> QED
      BY <3>3, <3>4, FS_Singleton
  <2>3. CASE ~data /\ stmt.timed
    <3>1. Printed(stmt) = {"deadline"}
      BY <1>2, <2>3
    <3>2. PICK b \in branches : b.kind = "deadline"
      BY <1>1, <3>1
    <3>3. branches = {b}
      BY <1>1, <3>1, <3>2
    <3>4. Asked = {"time"}
      BY <2>3
    <3> QED
      BY <3>3, <3>4, FS_Singleton
  <2>4. CASE ~data /\ ~stmt.timed
    <3>1. Printed(stmt) = {}
      BY <1>2, <2>4
    <3> QED
      BY <1>1, <3>1
  <2> QED
    BY <2>1, <2>2, <2>3, <2>4
<1> QED
  BY <1>3, <1>4 DEF EveryReasonArmed

(* While the process is suspended every clause of its wait can resume it,  *)
(* by one branch each, and nothing else can (printMultiClauseWait).        *)
THEOREM ReasonsArmed == Spec => []EveryReasonArmed
BY ArmedFollows, IInvAlways, PTL

-----------------------------------------------------------------------------
LEMMA SameClauses ==
  /\ Promise!Statements = Statements
  /\ \A w, now : /\ Promise!Suspends(w, now) \in BOOLEAN
                 /\ Promise!Suspends(w, now) <=> Suspends(w, now)
  /\ \A w, was, is : Promise!Resumes(w, was, is) <=> Resumes(w, was, is)
BY DEF Promise!Statements, Statements, Promise!Clauses, Clauses, Promise!Edges, Edges,
       Promise!Suspends, Suspends, Promise!Resumes, Resumes, Promise!Event, Event,
       Promise!Edge, Edge, Promise!Holds, Holds, Promise!HasSensitivity, HasSensitivity,
       Promise!HasCondition, HasCondition

(* A racing run maps to a wait that nothing happens to. *)
LEMMA RacingIdle ==
  ASSUME racing, UNCHANGED <<stmt, racing>>
  PROVE  UNCHANGED <<stmt, Seen, (IF racing THEN 0 ELSE cycles), Asleep, Left>>
<1>1. Seen' = Seen
  BY DEF Seen
<1>2. Asleep' = Asleep
  BY <1>1 DEF Asleep, Suspends, HasSensitivity, HasCondition, Holds
<1> QED
  BY <1>1, <1>2 DEF Left

(* Before the block, the process is where the wait has not begun. *)
LEMMA BeforeBlock ==
  ASSUME phase # "run", ~racing
  PROVE  (Asleep <=> Suspends(stmt, sig)) /\ Left = Timeout
BY DEF Asleep, Left, Seen

LEMMA TheDeadline ==
  ASSUME NEW B, \A b, c \in B : b.kind = c.kind => b = c, NEW d \in B, d.kind = "deadline"
  PROVE  (CHOOSE b \in B : b.kind = "deadline") = d
OBVIOUS

LEMMA DeadlineLeft ==
  ASSUME IInv, phase = "run", ~racing, Asleep, stmt.timed,
         NEW d \in branches, d.kind = "deadline"
  PROVE  Left = d.left
BY TheDeadline DEF Left, IInv, OneEach

LEMMA DeadlineLeftNext ==
  ASSUME IInv', phase' = "run", ~racing', Asleep', stmt'.timed,
         NEW d \in branches', d.kind = "deadline"
  PROVE  Left' = d.left
BY TheDeadline DEF Left, IInv, OneEach

(* The process suspends in the block as it does in the wait. *)
LEMMA EnterSuspends ==
  ASSUME IInv, IInv', ~racing, phase' = "run", branches' = Entered(stmt, sig),
         UNCHANGED <<stmt, sig, cycles, racing>>
  PROVE  (Asleep' <=> Suspends(stmt, sig)) /\ Left' = Timeout
<1>1. Printed(stmt) # {}
  BY PrintedCases DEF IInv, TypeOK, Statements, HasSensitivity, HasCondition
<1>2. branches' # {}
  BY <1>1, EnteredBranches
<1>3. \A b \in branches' : Retries(b)' <=> b.kind \in {"gate", "level"} /\ ~Holds(stmt, sig)
  BY DEF Retries, Holds, HasCondition
<1>4. (\A b \in branches' : b.woken => Retries(b)')
        <=> ~("level" \in Printed(stmt) /\ Holds(stmt, sig))
  <2>1. \A b \in branches' : b.woken <=> b.kind = "level" /\ Holds(stmt, sig)
    BY EnteredBranches
  <2>2. (\E b \in branches' : b.kind = "level") <=> "level" \in Printed(stmt)
    BY EnteredBranches
  <2> QED
    BY <1>3, <2>1, <2>2
<1>5. "level" \in Printed(stmt) <=> ~HasSensitivity(stmt) /\ HasCondition(stmt)
  BY PrintedCases
<1>6. Asleep' <=> Suspends(stmt, sig)
  BY <1>2, <1>4, <1>5 DEF Asleep, Woken, Suspends
<1>7. Left' = Timeout
  <2>1. CASE Asleep' /\ stmt.timed
    <3>1. "deadline" \in Printed(stmt)
      BY <2>1, PrintedCases
    <3>2. PICK d \in branches' : d.kind = "deadline" /\ d.left = Timeout
      BY <3>1, EnteredBranches
    <3> QED
      BY <2>1, <3>2, DeadlineLeftNext
  <2>2. CASE ~(Asleep' /\ stmt.timed)
    BY <2>2 DEF Left
  <2> QED
    BY <2>1, <2>2
<1> QED
  BY <1>6, <1>7

-----------------------------------------------------------------------------
LEMMA PassesByKind ==
  ASSUME NEW b, NEW was, NEW is
  PROVE  /\ b.kind \in {"event", "gate"} => (Passes(b, was, is) <=> Event(stmt, was, is))
         /\ b.kind = "level" => (Passes(b, was, is) <=> Holds(stmt, is))
         /\ b.kind = "deadline" => ~Passes(b, was, is)
BY DEF Passes, EventControl, Event

Changed(b, c) ==
  c.kind = b.kind /\ c.left = b.left /\ (c.woken <=> b.woken \/ Passes(b, sig, sig'))

LEMMA ChangedBranches ==
  ASSUME IInv, Change
  PROVE  /\ \A b \in branches : \E c \in branches' : Changed(b, c)
         /\ \A c \in branches' : \E b \in branches : Changed(b, c)
<1> DEFINE F(b) == [b EXCEPT !.woken = b.woken \/ Passes(b, sig, sig')]
<1>1. branches' = {F(b) : b \in branches}
  BY DEF Change
<1>2. ASSUME NEW b \in branches
      PROVE  Changed(b, F(b))
  <2>1. b \in Branch /\ (b.woken \/ Passes(b, sig, sig')) \in BOOLEAN
    BY PassesBoolean DEF IInv, TypeOK, Branch
  <2> QED
    BY <2>1, Rewoken DEF Changed
<1> HIDE DEF F
<1> QED
  BY <1>1, <1>2

(* An update resumes the block exactly when it resumes the wait. *)
LEMMA ChangeResumes ==
  ASSUME IInv, Change, ~racing, branches # {}
  PROVE  Asleep' <=> ~Resumes(stmt, sig, sig')
<1> DEFINE Ends(k) == \/ k \in {"event", "gate"} /\ Event(stmt, sig, sig') /\ ~(k = "gate" /\ ~Holds(stmt, sig'))
                      \/ k = "level" /\ Holds(stmt, sig')
<1>1. \A c \in branches' : Retries(c)' <=> c.kind \in {"gate", "level"} /\ ~Holds(stmt, sig')
  BY DEF Retries, Holds, HasCondition, Change
<1>2. ASSUME NEW b \in branches, NEW c, Changed(b, c)
      PROVE  c.kind = b.kind /\ (c.woken <=> Passes(b, sig, sig'))
  BY <1>2 DEF Changed, Change, Woken
<1>3. \A b \in branches : b.kind \in {"event", "gate", "level", "deadline"}
  BY KindsPrinted DEF IInv, OneEach
<1>4. ASSUME NEW b \in branches, NEW c \in branches', Changed(b, c)
      PROVE  (c.woken /\ ~Retries(c)') <=> Ends(b.kind)
  BY <1>1, <1>2, <1>3, <1>4, PassesByKind
<1> HIDE DEF Ends
<1>5. (\E c \in branches' : c.woken /\ ~Retries(c)') <=> \E b \in branches : Ends(b.kind)
  BY <1>4, ChangedBranches
<1>6. (\E b \in branches : Ends(b.kind)) <=> \E k \in Printed(stmt) : Ends(k)
  BY DEF IInv, OneEach
<1>7. (\E k \in Printed(stmt) : Ends(k)) <=> Resumes(stmt, sig, sig')
  <2>1. Holds(stmt, sig') \/ HasCondition(stmt)
    BY DEF Holds
  <2>2. ~Ends("deadline")
    BY DEF Ends
  <2>3. Ends("gate") <=> Event(stmt, sig, sig') /\ Holds(stmt, sig')
    BY DEF Ends
  <2>4. Ends("event") <=> Event(stmt, sig, sig')
    BY DEF Ends
  <2>5. Ends("level") <=> Holds(stmt, sig')
    BY DEF Ends
  <2>6. (\E k \in Printed(stmt) : Ends(k)) <=>
          IF HasSensitivity(stmt)
          THEN IF HasCondition(stmt) THEN Ends("gate") ELSE Ends("event")
          ELSE HasCondition(stmt) /\ Ends("level")
    BY <2>2, PrintedCases
  <2> QED
    BY <2>1, <2>3, <2>4, <2>5, <2>6 DEF Resumes
<1>8. branches' # {}
  BY ChangedBranches
<1>9. phase' = "run" /\ ~racing'
  BY DEF Change
<1>10. Asleep' <=> ~\E c \in branches' : c.woken /\ ~Retries(c)'
  BY <1>8, <1>9 DEF Asleep, Woken
<1> QED
  BY <1>5, <1>6, <1>7, <1>10

LEMMA ChangeRefines ==
  ASSUME IInv, IInv', Change, ~racing
  PROVE  Promise!Update
<1>1. /\ phase = "run" /\ phase' = "run" /\ ~racing' /\ stmt' = stmt /\ Woken = {}
      /\ cycles < Cycles /\ cycles' = cycles + 1 /\ sig' \in [Signals -> BOOLEAN]
  BY DEF Change
<1>2. Seen = sig /\ Seen' = sig'
  BY <1>1 DEF Seen
<1>3. Asleep' <=> Asleep /\ ~Resumes(stmt, sig, sig')
  <2>1. CASE branches = {}
    <3>1. branches' = {}
      BY <2>1 DEF Change
    <3> QED
      BY <1>1, <2>1, <3>1 DEF Asleep
  <2>2. CASE branches # {}
    <3>1. Asleep
      BY <1>1, <2>2 DEF Asleep
    <3> QED
      BY <2>2, <3>1, ChangeResumes
  <2> QED
    BY <2>1, <2>2
<1>4. Left' = IF Asleep' THEN Left ELSE Timeout
  <2>1. CASE Asleep' /\ stmt.timed
    <3>1. Asleep /\ branches # {} /\ Asleep' /\ stmt'.timed
      BY <1>1, <1>3, <2>1 DEF Asleep
    <3>2. PICK d \in branches : d.kind = "deadline"
      BY <2>1, <3>1, PrintedCases DEF IInv, OneEach
    <3>3. PICK c \in branches' : Changed(d, c)
      BY ChangedBranches
    <3>4. c.kind = "deadline" /\ c.left = d.left
      BY <3>2, <3>3 DEF Changed
    <3>5. Left = d.left
      BY <1>1, <2>1, <3>1, <3>2, DeadlineLeft
    <3>6. Left' = c.left
      BY <1>1, <3>1, <3>4, DeadlineLeftNext
    <3> QED
      BY <2>1, <3>4, <3>5, <3>6
  <2>2. CASE ~stmt.timed
    BY <1>1, <2>2 DEF Left
  <2>3. CASE ~Asleep'
    BY <2>3 DEF Left
  <2> QED
    BY <2>1, <2>2, <2>3
<1>5. Asleep' <=> Asleep /\ ~Promise!Resumes(stmt, Seen, Seen')
  BY <1>2, <1>3, SameClauses
<1> QED
  BY <1>1, <1>2, <1>4, <1>5 DEF Promise!Update

-----------------------------------------------------------------------------
Elapsed(b, c) ==
  /\ c.kind = b.kind
  /\ b.kind = "deadline" => c.left = b.left - 1 /\ (c.woken <=> b.left = 1)
  /\ b.kind # "deadline" => ~c.woken

LEMMA ElapsedBranches ==
  ASSUME IInv, Elapse
  PROVE  /\ \A b \in branches : \E c \in branches' : Elapsed(b, c)
         /\ \A c \in branches' : \E b \in branches : Elapsed(b, c)
<1> DEFINE F(b) == IF b.kind = "deadline"
                   THEN [b EXCEPT !.left = b.left - 1, !.woken = (b.left = 1)] ELSE b
<1>1. branches' = {F(b) : b \in branches}
  BY DEF Elapse
<1>2. ASSUME NEW b \in branches
      PROVE  Elapsed(b, F(b))
  <2>1. b \in Branch /\ ~b.woken /\ (b.kind = "deadline" => (b.woken <=> b.left = 0))
    BY DEF IInv, TypeOK, Elapse, Woken
  <2>2. b.kind = "deadline" => b.left \in 1 .. Timeout
    BY <2>1, BoundsAssumption DEF Branch
  <2>3. CASE b.kind = "deadline"
    <3>1. F(b) = [b EXCEPT !.left = b.left - 1, !.woken = (b.left = 1)]
      BY <2>3
    <3> HIDE DEF F
    <3> QED
      BY <2>1, <2>2, <2>3, <3>1, Shortened DEF Elapsed
  <2>4. CASE b.kind # "deadline"
    BY <2>1, <2>4 DEF Elapsed
  <2> QED
    BY <2>3, <2>4
<1> HIDE DEF F
<1> QED
  BY <1>1, <1>2

LEMMA ElapseRefines ==
  ASSUME IInv, IInv', Elapse, ~racing
  PROVE  Promise!Tick
<1>1. /\ phase = "run" /\ phase' = "run" /\ ~racing' /\ stmt' = stmt /\ sig' = sig
      /\ Woken = {} /\ branches # {} /\ cycles' = 0
  BY DEF Elapse
<1>2. Seen' = Seen /\ Asleep
  BY <1>1 DEF Seen, Asleep
<1>3. branches' # {}
  BY <1>1, ElapsedBranches
<1>4. CASE stmt.timed
  <2>1. PICK d \in branches : d.kind = "deadline"
    BY <1>1, <1>4, PrintedCases DEF IInv, OneEach
  <2>2. Left = d.left
    BY <1>1, <1>2, <1>4, <2>1, DeadlineLeft
  <2>3. PICK e \in branches' : Elapsed(d, e)
    BY ElapsedBranches
  <2>4. e.kind = "deadline" /\ e.left = d.left - 1 /\ (e.woken <=> d.left = 1)
    BY <2>1, <2>3 DEF Elapsed
  <2>5. \A c \in branches' : c.woken => c = e
    BY <1>1, <2>4, ElapsedBranches DEF Elapsed, IInv, OneEach
  <2>6. ~Retries(e)'
    BY <2>4 DEF Retries
  <2>7. Asleep' <=> ~(stmt.timed /\ Left = 1)
    BY <1>1, <1>3, <1>4, <2>2, <2>4, <2>5, <2>6 DEF Asleep, Woken
  <2>8. Left' = IF stmt.timed /\ Asleep' THEN Left - 1 ELSE Timeout
    <3>1. CASE Asleep'
      BY <1>1, <1>4, <2>2, <2>4, <3>1, DeadlineLeftNext
    <3>2. CASE ~Asleep'
      BY <3>2 DEF Left
    <3> QED
      BY <3>1, <3>2
  <2> QED
    BY <1>1, <1>2, <2>7, <2>8 DEF Promise!Tick
<1>5. CASE ~stmt.timed
  <2>1. \A c \in branches' : c.kind # "deadline"
    BY <1>1, <1>5, PrintedCases DEF IInv, OneEach
  <2>2. \A c \in branches' : ~c.woken
    BY <2>1, ElapsedBranches DEF Elapsed
  <2>3. Asleep'
    BY <1>1, <1>3, <2>2 DEF Asleep, Woken
  <2>4. Left' = Timeout
    BY <1>1, <1>5 DEF Left
  <2> QED
    BY <1>1, <1>2, <1>5, <2>3, <2>4 DEF Promise!Tick
<1> QED
  BY <1>4, <1>5

(* A branch that runs resumes nothing that was not resumed already. *)
LEMMA RunRefines ==
  ASSUME IInv, IInv', ~racing, NEW b \in Branch, RunBranch(b)
  PROVE  (Asleep' <=> Asleep) /\ Left' = Left
<1>1. /\ phase = "run" /\ phase' = "run" /\ ~racing' /\ UNCHANGED <<stmt, sig>>
      /\ b \in branches /\ b.woken
  BY DEF RunBranch, Woken, IInv, OneEach
<1>2. CASE Retries(b)
  <2> DEFINE back == [b EXCEPT !.woken = FALSE]
  <2>1. branches' = (branches \ {b}) \cup {back}
    BY <1>2 DEF RunBranch
  <2>2. ~back.woken /\ back.kind # "deadline"
    BY <1>2, Rewoken DEF Retries
  <2> HIDE DEF back
  <2>3. \A c : Retries(c)' <=> Retries(c)
    BY <1>1 DEF Retries, Holds, HasCondition
  <2>4. Asleep' <=> Asleep
    BY <1>1, <1>2, <2>1, <2>2, <2>3 DEF Asleep, Woken
  <2>5. Left' = Left
    <3>1. CASE Asleep /\ stmt.timed
      <4>1. PICK d \in branches : d.kind = "deadline"
        BY <1>1, <3>1, PrintedCases DEF IInv, OneEach
      <4>2. d \in branches'
        BY <1>2, <2>1, <4>1 DEF Retries
      <4> QED
        BY <1>1, <2>4, <3>1, <4>1, <4>2, DeadlineLeft, DeadlineLeftNext
    <3>2. CASE ~(Asleep /\ stmt.timed)
      BY <1>1, <2>4, <3>2 DEF Left
    <3> QED
      BY <3>1, <3>2
  <2> QED
    BY <2>4, <2>5
<1>3. CASE ~Retries(b)
  <2>1. branches' = {}
    BY <1>3 DEF RunBranch
  <2>2. ~Asleep /\ ~Asleep'
    BY <1>1, <1>3, <2>1 DEF Asleep, Woken
  <2> QED
    BY <2>2 DEF Left
<1> QED
  BY <1>2, <1>3

LEMMA NextRefines ==
  ASSUME IInv, IInv', Next
  PROVE  \/ Promise!Next
         \/ UNCHANGED <<stmt, Seen, (IF racing THEN 0 ELSE cycles), Asleep, Left>>
<1>1. UNCHANGED <<stmt, racing>>
  BY DEF Next, Refuse, VisitWait, Reenter, Change, Elapse, RunBranch
<1>2. CASE racing
  BY <1>1, <1>2, RacingIdle
<1>3. CASE ~racing
  <2>1. CASE Refuse
    <3>1. phase # "run" /\ phase' # "run" /\ UNCHANGED <<stmt, sig, cycles, racing>>
      BY <2>1 DEF Refuse
    <3>2. Seen' = Seen
      BY <3>1 DEF Seen
    <3>3. (Asleep' <=> Asleep) /\ Left' = Left
      BY <3>1, <3>2 DEF Asleep, Left, Suspends, HasSensitivity, HasCondition, Holds
    <3> QED
      BY <3>1, <3>2, <3>3
  <2>2. CASE VisitWait
    <3>1. /\ phase # "run" /\ phase' = "run" /\ UNCHANGED <<stmt, sig, cycles, racing>>
          /\ branches' = Entered(stmt, sig)
      BY <2>2 DEF VisitWait
    <3>2. Seen' = Seen
      BY <3>1 DEF Seen
    <3>3. (Asleep' <=> Asleep) /\ Left' = Left
      BY <1>3, <3>1, BeforeBlock, EnterSuspends
    <3> QED
      BY <3>1, <3>2, <3>3
  <2>3. CASE Reenter
    <3>1. /\ phase = "run" /\ phase' = "run" /\ UNCHANGED <<stmt, sig, cycles, racing>>
          /\ branches = {} /\ branches' = Entered(stmt, sig)
      BY <2>3 DEF Reenter, Resumed
    <3>2. Seen = sig /\ Seen' = Seen
      BY <1>3, <3>1 DEF Seen
    <3>3. ~Asleep /\ Left = Timeout
      BY <1>3, <3>1 DEF Asleep, Left
    <3>4. (Asleep' <=> Suspends(stmt, sig)) /\ Left' = Timeout
      BY <1>3, <3>1, EnterSuspends
    <3>5. Asleep' <=> Promise!Suspends(stmt, Seen)
      BY <3>2, <3>4, SameClauses
    <3>6. Asleep' \in BOOLEAN
      BY DEF Asleep, Suspends
    <3>7. Asleep' = Promise!Suspends(stmt, Seen)
      BY <3>5, <3>6, SameClauses
    <3>8. Promise!Again
      BY <1>3, <3>1, <3>2, <3>3, <3>4, <3>7 DEF Promise!Again
    <3> QED
      BY <3>8 DEF Promise!Next
  <2>4. CASE Change
    BY <1>3, <2>4, ChangeRefines DEF Promise!Next
  <2>5. CASE Elapse
    BY <1>3, <2>5, ElapseRefines DEF Promise!Next
  <2>6. ASSUME NEW b \in Branch, RunBranch(b)
        PROVE  UNCHANGED <<stmt, Seen, (IF racing THEN 0 ELSE cycles), Asleep, Left>>
    <3>1. UNCHANGED <<stmt, sig, cycles, racing>>
      BY <2>6 DEF RunBranch
    <3>2. Seen' = Seen
      BY <3>1 DEF Seen
    <3>3. (Asleep' <=> Asleep) /\ Left' = Left
      BY <1>3, <2>6, RunRefines
    <3> QED
      BY <3>1, <3>2, <3>3
  <2> QED
    BY <2>1, <2>2, <2>3, <2>4, <2>5, <2>6 DEF Next
<1> QED
  BY <1>2, <1>3

(* The printed statement suspends and resumes as the HIF Wait does, turn   *)
(* after turn, for every statement and any number of signals, as long as   *)
(* each wake-up is handled before signals change again (visitWait).        *)
THEOREM Refinement == Spec => ImplementsWait
<1>1. Init => Promise!Init
  <2> SUFFICES ASSUME Init
               PROVE  Promise!Init
    OBVIOUS
  <2>1. Seen \in [Signals -> BOOLEAN]
    BY DEF Init, Seen
  <2>2. Asleep <=> Promise!Suspends(stmt, Seen)
    BY SameClauses DEF Init, Asleep
  <2>3. Asleep \in BOOLEAN
    BY DEF Asleep, Suspends
  <2>4. Asleep = Promise!Suspends(stmt, Seen)
    BY <2>2, <2>3, SameClauses
  <2>5. Left = Timeout
    BY DEF Init, Left
  <2> QED
    BY <2>1, <2>4, <2>5, SameClauses DEF Init, Promise!Init
<1>2. IInv /\ IInv' /\ [Next]_vars => [Promise!Next]_(Promise!vars)
  <2> SUFFICES ASSUME IInv, IInv', [Next]_vars
               PROVE  \/ Promise!Next
                      \/ UNCHANGED <<stmt, Seen, (IF racing THEN 0 ELSE cycles), Asleep, Left>>
    BY DEF Promise!vars
  <2>1. CASE Next
    BY <2>1, NextRefines
  <2>2. CASE UNCHANGED vars
    <3>1. Seen' = Seen
      BY <2>2 DEF vars, Seen
    <3>2. (Asleep' <=> Asleep) /\ Left' = Left
      BY <2>2, <3>1 DEF vars, Asleep, Left, Woken, Retries, Suspends,
                        HasSensitivity, HasCondition, Holds
    <3> QED
      BY <2>2, <3>1, <3>2 DEF vars
  <2> QED
    BY <2>1, <2>2
<1> QED
  BY <1>1, <1>2, IInvAlways, PTL DEF Spec, ImplementsWait, Promise!Spec
=============================================================================
