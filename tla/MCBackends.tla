------------------------------- MODULE MCBackends -------------------------------
(***************************************************************************)
(* Seven things the back ends make of a design: an edge list as tests,     *)
(* names and out ports, a wait, an expression, the exits of a loop, the    *)
(* names of overloads, and a subprogram.  They share no state, so a        *)
(* behaviour is of one of them, chosen first.                              *)
(*                                                                         *)
(* Registers of one bit, every edge list over a clock and a reset.  Waits  *)
(* over two signals with a time of two units.  Expressions of every        *)
(* operator inside every other; under a few of them one more.  Jumps in    *)
(* three statements.  Three overloads of at most two parameters.  Two      *)
(* declarations with names of up to four underscores, used three times.    *)
(* Procedures of up to three statements and functions of up to two and a   *)
(* return, with callers that give a signal one kind of driver;             *)
(* MCMixedRoutines lifts that.                                             *)
(***************************************************************************)
EXTENDS Backends

VARIABLES part, tree, text, seen

MCData == {"0", "1"}
MCAction(settled, to(_, _)) == [settled |-> settled, to |-> [x \in MCData \X MCData |-> to(x[1], x[2])]]
MCActions ==
  {MCAction(TRUE, LAMBDA q, d : "0"), MCAction(FALSE, LAMBDA q, d : d),
   MCAction(FALSE, LAMBDA q, d : IF q = "0" THEN "1" ELSE "0")}
MCBodies == PlainBodies \cup Bodies(Low) \cup Bodies(High)
MCSources ==
  {p \in [pos : SUBSET Controls, neg : SUBSET Controls, levels : {{}, {"d"}, {"rst"}}, body : MCBodies] :
     p.pos \cap p.neg = {} /\ (p.levels # {} => p.body.alts = <<>>)}

MCNoWait == [on |-> [s \in Signals |-> "none"], until |-> None, timed |-> TRUE]

Printing == INSTANCE CppExpressions WITH Trees <- {}
MCBinaries ==
  {"op_or", "op_and", "op_bor", "op_bxor", "op_band", "op_eq", "op_case_neq", "op_lt", "op_ge", "op_gt",
   "op_sll", "op_plus", "op_minus", "op_mult", "op_concat", "op_string_concat", "member", "call"}
MCFew == {"op_minus", "op_gt", "op_concat", "op_band", "member", "call"}
MCOver(s, k2) ==
  {<<k, x, <<"b">> >> : k \in k2, x \in s} \cup {<<k, <<"a">>, x>> : k \in k2, x \in s}
  \cup {<<k, x>> : k \in Printing!Unaries \cup {"cast", "field"}, x \in s}
  \cup UNION {{<<k, x, <<"b">>, <<"c">> >>, <<k, <<"a">>, x, <<"c">> >>, <<k, <<"a">>, <<"b">>, x>>} :
                k \in {"when", "slice"}, x \in s}
  \cup {<<"when", <<"a">>, x, <<"b">>, <<"c">>, <<"d">> >> : x \in s}
MCOne == MCOver({<<"e">>}, MCBinaries)
MCTargets == {<<"a">>, <<"member", <<"a">>, <<"i">> >>, <<"slice", <<"a">>, <<"i">>, <<"j">> >>, <<"field", <<"a">> >>}
MCTree ==
  \/ tree \in MCOne
  \/ \E x \in MCOne : tree \in MCOver({x}, MCBinaries)
  \/ \E x \in MCOne : \E y \in MCOver({x}, MCFew) : tree \in MCOver({y}, {"op_minus", "op_concat"})
  \/ \E k \in MCFew, x \in MCOver({<<"e">>}, MCFew), y \in MCOver({<<"e">>}, MCFew) : tree = <<k, x, y>>
  \/ \E x \in MCTargets, y \in MCOne : tree = <<"assign", x, y>>

Shapes == INSTANCE LoopExits WITH Paths <- {}, Jumps <- {}, target <- exit
MCSwitch(switchable, cases, semantics, logic) ==
  [kind |-> "switch", name |-> Shapes!NoName, switchable |-> switchable, cases |-> cases,
   semantics |-> semantics, logic |-> logic]
MCStatements(name) ==
  {[kind |-> k, name |-> x] : k \in Shapes!Loops, x \in {Shapes!NoName, name}}
  \cup {[kind |-> "if", name |-> Shapes!NoName],
        MCSwitch(TRUE, {"constant"}, "literal", FALSE), MCSwitch(TRUE, {"enumerator", "cast"}, "literal", FALSE),
        MCSwitch(FALSE, {"constant"}, "literal", TRUE), MCSwitch(TRUE, {"constant", "macro"}, "casex", TRUE),
        MCSwitch(TRUE, {"constant"}, "casez", FALSE)}
MCPaths == {<<x, y, z>> : x \in MCStatements("L1"), y \in MCStatements("L2"), z \in MCStatements("L3")}
MCJumps == [kind : {"break", "continue"}, name : {Shapes!NoName, "L1", "L2", "L3"}]

MCType(k, signed, resolved) == [kind |-> k, signed |-> signed, resolved |-> resolved]
MCNumbers == {MCType("signed", TRUE, TRUE), MCType("unsigned", FALSE, TRUE)}
MCTypes ==
  MCNumbers \cup {MCType("bool", FALSE, FALSE), MCType("int", TRUE, FALSE)}
  \cup {MCType("bit", FALSE, l) : l \in BOOLEAN}
  \cup {MCType("bitvector", x[1], x[2]) : x \in {<<TRUE, TRUE>>, <<FALSE, TRUE>>, <<FALSE, FALSE>>}}
MCParams == {<<t>> : t \in MCTypes} \cup (MCNumbers \X MCTypes)
MCSub(n, scopes, params) == [name : {n}, scope : scopes, params : params]
MCOverloads ==
  {<<x, y, z>> : x \in MCSub("f", {1, 2}, MCParams), y \in MCSub("f", {2}, MCParams),
                 z \in MCSub("f", {1, 2}, {<<t>> : t \in MCTypes}) \cup MCSub("g", {2}, {<<t>> : t \in MCNumbers})}

MCNames == {<<"x">>, <<"_", "x">>, <<"x", "_", "_", "_", "_", "y">>}
MCUse(d, uses) == [to : d, use : uses]
MCEntities ==
  {[decls |-> <<[name |-> n, kind |-> "out"], [name |-> m, kind |-> k]>>, refs |-> <<r1, r2, r3>>] :
     n \in MCNames, m \in {<<"y">>, <<"_", "_", "_", "y">>}, k \in {"out", "signal"},
     r1 \in MCUse({1, 2}, {"target", "actual"}),
     r2 \in MCUse({1, 2}, {"target", "read"}), r3 \in MCUse({1, 2}, {"actual", "read", "in_actual"})}
ASSUME MCEntitiesWellFormed == \A e \in MCEntities : Porting!WellFormed(e)

Shown == INSTANCE Subprograms WITH Designs <- {}, target <- wanted
(* Without those that assign what is there. *)
MCFunctionOps == {o \in Shown!Op : o.op # "out" /\ (o.op = "return" => o.value = "local")}
MCProcedureOps ==
  {o \in Shown!Op : o.op = "return" => o.value = "0"}
  \ {o \in Shown!Op : o.op = "local" /\ o.value = "local"}
MCFunctions ==
  {[function |-> TRUE, class |-> c, stated |-> x, caller |-> <<"call">>,
    body |-> Append(b, [op |-> "return", value |-> y, guard |-> FALSE])] :
     c \in {"variable", "signal"}, x \in BOOLEAN, y \in {"local", "0"}, b \in Shown!BoundedSeq(MCFunctionOps, 2)}
MCProcedures(class, callers, bodies) ==
  {[function |-> FALSE, class |-> class, stated |-> x, caller |-> c, body |-> b] :
     x \in BOOLEAN, c \in callers, b \in bodies}
(* The out argument first gets a value, whatever the input. *)
MCAssigning ==
  {<<[op |-> "out", value |-> x, guard |-> FALSE]>> \o b :
     x \in {"local", "0"}, b \in Shown!BoundedSeq(MCProcedureOps, 2)}
MCRoutines ==
  MCFunctions
    \cup MCProcedures("variable", {<<"call">>, <<"zero", "call">>, <<"call", "call">>}, MCAssigning)
    \cup MCProcedures("signal", {<<"call">>, <<"call", "call">>}, Shown!BoundedSeq(MCProcedureOps, 2) \ {<<>>})
ASSUME MCRoutinesSettled == \A d \in MCRoutines : Calling!OneKindOfDriver(d)
(* A signal both assigned and passed to a procedure. *)
MCMixedRoutines == MCProcedures("signal", {<<"zero", "call">>}, MCAssigning)

registerVars == <<pc, source, target, sig, qSource, qTarget>>
waitVars == <<stmt, process, made, wave, cycles, inside, left>>
treeVars == <<tree, text, seen>>
exitVars == <<path, jump, exit, stage, outline>>
subVars == <<subs, keepBit, names, calls, next>>
portVars == <<entity, decls, refs, visits, ports>>
callVars == <<design, printed, wanted, actual, static>>

MCInit ==
  /\ part \in {"registers", "waits", "expressions", "exits", "overloads", "ports", "calls"}
  /\ IF part = "registers" THEN Init
     ELSE /\ pc = "visit" /\ source = <<>> /\ target = <<>> /\ sig = <<>> /\ qSource = "0" /\ qTarget = "0"
  /\ IF part = "waits" THEN Waiting!Init
     ELSE /\ stmt = MCNoWait /\ process = [flavour |-> "hdl", returns |-> FALSE] /\ made = "source"
          /\ wave = [s \in Signals |-> FALSE] /\ cycles = 0 /\ inside = FALSE /\ left = Timeout
  /\ IF part = "expressions" THEN MCTree ELSE tree = <<>>
  /\ text = Printing!NotRead /\ seen = Printing!NotRead
  /\ IF part = "exits" THEN Leaving!Init
     ELSE path = <<>> /\ jump = <<>> /\ exit = <<>> /\ stage = "breaks" /\ outline = <<>>
  /\ IF part = "overloads" THEN Renaming!Init
     ELSE subs = <<>> /\ keepBit = FALSE /\ names = <<>> /\ calls = <<>> /\ next = 1
  /\ IF part = "ports" THEN Porting!Init
     ELSE entity = <<>> /\ decls = <<>> /\ refs = <<>> /\ visits = {"none"} /\ ports = {}
  /\ IF part = "calls" THEN Calling!Init
     ELSE design = <<>> /\ printed = <<>> /\ wanted = "X" /\ actual = "X" /\ static = <<>>
MCNext ==
  \/ part = "registers" /\ Next
     /\ UNCHANGED <<part, waitVars, treeVars, exitVars, subVars, portVars, callVars>>
  \/ part = "waits" /\ Waiting!Next
     /\ UNCHANGED <<part, registerVars, treeVars, exitVars, subVars, portVars, callVars>>
  \/ part = "expressions" /\ Printing!Next
     /\ UNCHANGED <<part, registerVars, waitVars, exitVars, subVars, portVars, callVars>>
  \/ part = "exits" /\ Leaving!Next
     /\ UNCHANGED <<part, registerVars, waitVars, treeVars, subVars, portVars, callVars>>
  \/ part = "overloads" /\ Renaming!Next
     /\ UNCHANGED <<part, registerVars, waitVars, treeVars, exitVars, portVars, callVars>>
  \/ part = "ports" /\ Porting!Next
     /\ UNCHANGED <<part, registerVars, waitVars, treeVars, exitVars, subVars, callVars>>
  \/ part = "calls" /\ Calling!Next
     /\ UNCHANGED <<part, registerVars, waitVars, treeVars, exitVars, subVars, portVars>>
MCSpec ==
  MCInit /\ [][MCNext]_<<part, registerVars, waitVars, treeVars, exitVars, subVars, portVars, callVars>>

(* C++ reads the expression that was printed (PrintSystemCVisitor.cpp:5052-5253). *)
SameTree == Printing!SameTree
===============================================================================
