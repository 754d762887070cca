--------------------------- MODULE DelayedAssignment ---------------------------
(***************************************************************************)
(* A net t that follows an input after a delay, and the processes that     *)
(* read it, on their way to Verilog (resolveTimescale, visitAssign,        *)
(* visitProcedureCall, collectDelayedTargets, visitStateTable,             *)
(* visitGlobalAction).                                                     *)
(*                                                                         *)
(* The front end turns `assign #2 t = a` into an assignment with a delay,  *)
(* in each process that reads t or in a cone, a procedure each of them     *)
(* calls.  The printer expands a cone at its call and prints the           *)
(* assignment as `t <= #2 a`, which schedules an update each time it runs. *)
(* What follows it in the process then reads t too early, so a process     *)
(* with a level list gets the delayed targets added to its list.           *)
(*                                                                         *)
(* Both designs see the same inputs at the same times; each has the delay  *)
(* its own language gives it, see Timescale.  Readers are named for what   *)
(* wakes them: "comb" for every input, "level" for both edges of the  *)
(* clock, "edge" for its rising one; each drives an output of its name.    *)
(***************************************************************************)
EXTENDS Timescale, Sequences, SequencesExt, FiniteSets

CONSTANTS
  Designs,  \* [place, delay, waits, unit, precision, shadowed, readers]
  Hold      \* the least time between two changes of what is delayed

Readers == {"comb", "level", "edge"}
Inputs  == {"a", "c", "clk"}
Cones   == {"hif_cone_t", "hif_cone_u", "hif_cone_loop"}
(* place is where the delay is: on the reader's own output, on t in the    *)
(* same process, in a cone, in a cone called by a cone, in one that calls  *)
(* itself, or in a concurrent assignment.  The delay is a set, empty for   *)
(* an assignment without one; waits are the other delays of the module,    *)
(* unit and precision what the front end recorded.  The target of a cone   *)
(* is shadowed by a variable, or not.                                      *)
Places == {"own", "direct", "cone", "nested", "looped", "global"}
ASSUME DesignsAssumption ==
  \A d \in Designs :
    /\ d.place \in Places /\ d.shadowed \in BOOLEAN
    /\ d.delay \subseteq Delay /\ Cardinality(d.delay) <= 1 /\ d.waits \subseteq Delay
    /\ d.unit \in Scale /\ d.precision \in Scale
    /\ \A x \in d.delay \cup d.waits : ~x.abs => NoUnit \notin {d.unit.unit, d.precision.unit}
    /\ d.readers \subseteq Readers /\ d.place = "own" => Cardinality(d.readers) = 1
ASSUME HoldAssumption == Hold \in Nat

VARIABLES
  design,
  phase,    \* "resolve", "print", "run" or "refused"
  scale,    \* the unit and the precision of the printed module
  body,     \* the printed body of each reader
  list,     \* and the level list of its always
  input,    \* the inputs
  age,      \* time since an input of what is delayed changed, up to Hold
  src, dst  \* each design: its values and the updates that are due

vars == <<design, phase, scale, body, list, input, age, src, dst>>

None == "none"
Put(to, of, delayed) == [to |-> to, of |-> of, delayed |-> delayed, call |-> None]
Called(p) == [to |-> None, of |-> {}, delayed |-> FALSE, call |-> p]
Xor(env, of) == Cardinality({s \in of : env[s]}) % 2 = 1

-----------------------------------------------------------------------------
(* The HIF: the body of each procedure and of each reader.                 *)
Delayed == design.delay # {}
Procedure(p) ==
  CASE p = "hif_cone_t"    -> <<Put("t", {"a"}, Delayed)>>
    [] p = "hif_cone_u"    -> <<Called("hif_cone_t"), Put("u", {"t"}, FALSE)>>
    [] p = "hif_cone_loop" -> <<Called("hif_cone_t"), Called("hif_cone_loop")>>
Also(r) == IF r = "comb" THEN {"c"} ELSE {}
HifBody(r) ==
  CASE design.place = "own"    -> <<Put(r, {"a"} \cup Also(r), Delayed)>>
    [] design.place = "direct" -> <<Put("t", {"a"}, Delayed), Put(r, {"t"} \cup Also(r), FALSE)>>
    [] design.place = "cone"   -> <<Called("hif_cone_t"), Put(r, {"t"} \cup Also(r), FALSE)>>
    [] design.place = "nested" -> <<Called("hif_cone_u"), Put(r, {"u"} \cup Also(r), FALSE)>>
    [] design.place = "looped" -> <<Called("hif_cone_loop"), Put(r, {"t"} \cup Also(r), FALSE)>>
    [] design.place = "global" -> <<Put(r, {"t"} \cup Also(r), FALSE)>>
(* A complete list names what a process reads, through its cones too.      *)
HifList(r) ==
  IF r # "comb" THEN {"clk"} ELSE {"c", IF design.place = "global" THEN "t" ELSE "a"}

-----------------------------------------------------------------------------
RECURSIVE Inline(_, _)
(* visitProcedureCall expands a cone in place; a call of one that is being *)
(* expanded is left, which is an error.                                    *)
Inline(stmts, inlining) ==
  FlattenSeq([i \in DOMAIN stmts |->
    LET p == stmts[i].call
    IN  IF p = None \/ p \in inlining THEN <<stmts[i]>>
        ELSE Inline(Procedure(p), inlining \cup {p})])

OwnTargets(stmts, inlining) == {s.to : s \in {x \in ToSet(stmts) : x.delayed}}
RECURSIVE DelayedTargets(_, _)
(* collectDelayedTargets: those of the body and of each procedure called.  *)
DelayedTargets(stmts, inlining) ==
  {s.to : s \in {x \in ToSet(stmts) : x.delayed}}
    \cup UNION {DelayedTargets(Procedure(p), inlining \cup {p}) :
                  p \in {s.call : s \in ToSet(stmts)} \ (inlining \cup {None})}

ExtendsEveryList(r) ==
  (IF r = "edge" THEN {} ELSE HifList(r)) \cup DelayedTargets(HifBody(r), {})
(* visitStateTable: only a list without edges is extended.                 *)
Extended(r) ==
  IF r = "edge" THEN {} ELSE HifList(r) \cup DelayedTargets(HifBody(r), {})

(* A cone is expanded forever, or assigns at once to what is printed with  *)
(* a non-blocking assignment (the assertion of visitAssign).               *)
Unprintable(r) ==
  \/ \E s \in ToSet(Inline(HifBody(r), {})) : s.call # None
  \/ ~design.shadowed /\ ~Delayed /\ \E s \in ToSet(HifBody(r)) : s.call \in Cones

-----------------------------------------------------------------------------
Target == IF design.place = "own" THEN CHOOSE r \in design.readers : TRUE ELSE "t"
Locals == {"t", "u"} \cup Readers
Nothing == [left |-> 0, value |-> FALSE]

(* How long the delays last, in the source and in the output, and the      *)
(* slots of updates that are due.                                          *)
Delays == design.delay \cup design.waits
Source(x)  == Meant(x, design.unit, design.precision)
Simulated(x) == Rounded(Rendered(x, scale.unit), scale.precision)
SourceLag == IF Delayed THEN Source(CHOOSE x \in design.delay : TRUE) ELSE 0
Lag       == IF Delayed THEN Simulated(CHOOSE x \in design.delay : TRUE) ELSE 0
Slots == 1 .. Lag

(* Simulation starts settled, with every input and output low.             *)
Init ==
  /\ design \in Designs
  /\ phase = "resolve"
  /\ scale = [unit |-> Unrecorded, precision |-> Unrecorded]
  /\ body = [r \in Readers |-> <<>>] /\ list = [r \in Readers |-> {}]
  /\ input = [s \in Inputs |-> FALSE]
  /\ age = Hold
  /\ src = [val |-> [s \in Locals |-> FALSE], due |-> Nothing]
  /\ dst = [val |-> [s \in Locals |-> FALSE], due |-> <<>>]

UnitForBoth ==
  LET unit == Unit(Delays, design.unit)
  IN  /\ phase = "resolve"
      /\ scale' = IF Delays = {} THEN scale ELSE [unit |-> unit, precision |-> unit]
      /\ phase' = "print"
      /\ UNCHANGED <<design, body, list, input, age, src, dst>>
(* resolveTimescale: one directive for every delay of the module, and none *)
(* for a module without delays.                                            *)
ResolveTimescale ==
  LET unit == Unit(Delays, design.unit)
  IN  /\ phase = "resolve"
      /\ scale' = IF Delays = {} THEN scale
                  ELSE [unit |-> unit, precision |-> Precision(unit, design.precision)]
      /\ phase' = "print"
      /\ UNCHANGED <<design, body, list, input, age, src, dst>>

Refuse ==
  /\ phase = "print"
  /\ \E r \in design.readers : Unprintable(r)
  /\ phase' = "refused"
  /\ UNCHANGED <<design, scale, body, list, input, age, src, dst>>

VisitStateTable ==
  /\ phase = "print"
  /\ \A r \in design.readers : ~Unprintable(r)
  /\ body' = [r \in Readers |-> IF r \in design.readers THEN Inline(HifBody(r), {}) ELSE <<>>]
  /\ list' = [r \in Readers |-> IF r \in design.readers THEN Extended(r) ELSE {}]
  /\ phase' = "run"
  /\ dst' = [dst EXCEPT !.due = [k \in Slots |-> {}]]
  /\ UNCHANGED <<design, scale, input, age, src>>

-----------------------------------------------------------------------------
(* The source.  A delayed net is inertial: a new value replaces the one    *)
(* that has not arrived.                                                   *)
Changed(now, was) == {s \in DOMAIN now : now[s] # was[s]}
Wakes(r, inputs, changed) ==
  CASE r = "comb"  -> changed # {"clk"}
    [] r = "level" -> "clk" \in changed
    [] r = "edge"  -> "clk" \in changed /\ inputs["clk"]
Reads(r) == {IF design.place = "own" THEN "a" ELSE "t"} \cup Also(r)
Outputs(val, inputs, changed) ==
  [s \in Locals |->
    IF s \in design.readers /\ Wakes(s, inputs, changed) THEN Xor(inputs @@ val, Reads(s)) ELSE val[s]]
SourceChange(s, inputs, changed) ==
  LET new == IF design.place = "own" THEN Outputs(s.val, inputs, changed)
             ELSE [s.val EXCEPT !["t"] = inputs["a"]]
      arms == IF design.place = "own" THEN Wakes(Target, inputs, changed) ELSE "a" \in changed
      now == IF SourceLag = 0 THEN new ELSE s.val
  IN  [val |-> IF design.place = "own" THEN now ELSE Outputs(now, inputs, changed),
       due |-> IF SourceLag > 0 /\ arms THEN [left |-> SourceLag, value |-> new[Target]] ELSE s.due]
SourceTick(s, inputs) ==
  LET landed == IF s.due.left = 1 THEN [s.val EXCEPT ![Target] = s.due.value] ELSE s.val
  IN  [val |-> IF design.place = "own" THEN landed ELSE Outputs(landed, inputs, {}),
       due |-> IF s.due.left <= 1 THEN Nothing ELSE [s.due EXCEPT !.left = @ - 1]]

(* The output.  A delayed assignment adds an update, a printed process     *)
(* runs on an event of its list, or on its edge, and a concurrent          *)
(* assignment is inertial like its source.                                 *)
Perform(d, inputs, s) ==
  LET v == Xor(inputs @@ d.val, s.of)
  IN  IF s.delayed /\ Lag > 0 THEN [d EXCEPT !.due[Lag] = {v}] ELSE [d EXCEPT !.val[s.to] = v]
Runs(r, inputs, changed) ==
  IF r = "edge" THEN Wakes(r, inputs, changed) ELSE list[r] \cap changed # {}
OutputReact(d, inputs, changed) ==
  FoldSet(LAMBDA r, e :
            IF Runs(r, inputs, changed) THEN FoldLeft(LAMBDA f, s : Perform(f, inputs, s), e, body[r]) ELSE e,
          d, design.readers)
OutputNet(d, inputs, changed) ==
  IF design.place # "global" \/ "a" \notin changed THEN d
  ELSE IF Lag = 0 THEN [d EXCEPT !.val["t"] = inputs["a"]]
  ELSE [d EXCEPT !.due = [k \in Slots |-> IF k = Lag THEN {inputs["a"]} ELSE {}]]
OutputChange(d, inputs, changed) ==
  LET net == OutputNet(d, inputs, changed)
  IN  OutputReact(net, inputs, changed \cup Changed(net.val, d.val))
OutputTick(d, inputs) ==
  LET landed == IF Lag > 0 /\ d.due[1] # {} THEN [d.val EXCEPT ![Target] = TRUE \in d.due[1]] ELSE d.val
      later  == [k \in Slots |-> IF k = Lag THEN {} ELSE d.due[k + 1]]
  IN  OutputReact([val |-> landed, due |-> later], inputs, Changed(landed, d.val))

(* The inputs that what is delayed depends on.                             *)
Feeds ==
  IF design.place # "own" THEN {"a"}
  ELSE IF design.readers = {"comb"} THEN {"a", "c"} ELSE {"clk"}

Change(s) ==
  /\ phase = "run"
  /\ s \in Feeds => age = Hold
  /\ input' = [input EXCEPT ![s] = ~@]
  /\ age' = IF s \in Feeds THEN 0 ELSE age
  /\ src' = SourceChange(src, input', {s})
  /\ dst' = OutputChange(dst, input', {s})
  /\ UNCHANGED <<design, phase, scale, body, list>>

Tick ==
  /\ phase = "run"
  /\ age' = IF age < Hold THEN age + 1 ELSE age
  /\ src' = SourceTick(src, input)
  /\ dst' = OutputTick(dst, input)
  /\ UNCHANGED <<design, phase, scale, body, list, input>>

Next == ResolveTimescale \/ Refuse \/ VisitStateTable \/ (\E s \in Inputs : Change(s)) \/ Tick
Spec == Init /\ [][Next]_vars

-----------------------------------------------------------------------------
(* Every variable keeps its type; the directive is one Verilog has, no     *)
(* call of a cone is printed, and a process that waits for an edge has no  *)
(* level in its list.                                                      *)
TypeOK ==
  /\ design \in Designs /\ phase \in {"resolve", "print", "run", "refused"}
  /\ scale.unit \in Scale /\ scale.precision \in Scale
  /\ input \in [Inputs -> BOOLEAN] /\ age \in 0 .. Hold
  /\ src.val \in [Locals -> BOOLEAN] /\ dst.val \in [Locals -> BOOLEAN]
  /\ phase = "run" =>
       /\ Delays # {} => /\ {scale.unit.unit, scale.precision.unit} \subseteq Spelled
                         /\ {scale.unit.value, scale.precision.value} \subseteq {1, 10, 100}
                         /\ Length(scale.precision) <= Length(scale.unit)
       /\ src.due.left \in 0 .. SourceLag
       /\ dst.due \in [Slots -> {{}, {FALSE}, {TRUE}}]
  /\ \A r \in Readers : \A s \in ToSet(body[r]) : s.call = None
  /\ list["edge"] = {}

(* At every instant each printed output has the value it has in the        *)
(* source: a delayed net moves when its delay is over and not before, what *)
(* reads it follows it then, and whatever does not go through the delay is *)
(* not held back (hif-backend#16, #24, #32).                               *)
SameOutput == phase = "run" => \A r \in design.readers : dst.val[r] = src.val[r]

(* Every delay of the module is simulated as long as its source waits,     *)
(* whatever the other delays are: the one directive they share is fine     *)
(* enough for each of them (resolveTimescale, renderDelay, hif-backend#42).*)
DelaysKept == phase = "run" => \A x \in Delays : Simulated(x) = Source(x)
=============================================================================
