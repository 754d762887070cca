---------------------------- MODULE UtilityLibraries ----------------------------
(***************************************************************************)
(* How hif2sc translates an operator of HIF (hif2sc,                       *)
(* PreRefine_utilityLibraries): it is left to SystemC, or it becomes a call *)
(* of hif2scSupport, chosen by the operator and the types of its operands. *)
(* The call is then run, and its result is what the generated program has. *)
(*                                                                         *)
(* A type has a kind, "signed" and "unsigned" (VHDL's, always logic), "bv", *)
(* "bit", "int", "real" or "array" (of bv or signed), and says whether it  *)
(* is signed and whether it is logic.                                      *)
(***************************************************************************)
EXTENDS SystemCExtensions

CONSTANTS
  Expressions,  \* sets of [op, type1, type2, value1, value2], in a sequence
  Hdtlib        \* the values --hdtlib may have

VARIABLES
  expr,    \* the expression, as HIF has it
  hdtlib,  \* useHDTLib()
  call,    \* what replaces it, NoCall before
  value    \* <<what it evaluates to>>, NotYet before

vars == <<expr, hdtlib, call, value>>

NoCall == [lib |-> "none"]
NotYet == <<>>
NoOperand == <<>>

-----------------------------------------------------------------------------
Comparisons == {"lt", "gt", "le", "ge"}
Equalities == {"eq", "neq", "case_eq", "case_neq"}
Vector(t) == t.kind \in {"signed", "unsigned", "bv"}
Arith(t) == t.kind \in {"signed", "unsigned"}
Nested(t) == IF t.kind = "array" THEN t.of ELSE t
type1 == expr.type1
type2 == expr.type2

\* Operands of two sizes are given the larger one; the operation is signed if both are.
OnBoth(op(_), e) == op(e.type1) /\ op(e.type2)
Precise(e) == OnBoth(LAMBDA t : t.signed, e)
Cast(v, t, n) == IF t.signed THEN HifSxt(v, n) ELSE Resize(v, n)
Operands(e) ==
  IF e.op = "mult" \/ ~OnBoth(Vector, e) THEN <<e.value1, e.value2>>
  ELSE LET n == Wider(e.value1, e.value2)
       IN <<Cast(e.value1, e.type1, n), Cast(e.value2, e.type2, n)>>

Call(lib, fn, signed, args, after) ==
  [lib |-> lib, fn |-> fn, signed |-> signed, args |-> args, after |-> after]
Inverted(op) == op \in {"neq", "case_neq"}
Equality(op) == IF Inverted(op) THEN "neq" ELSE IF op \in {"eq", "case_eq"} THEN "eq" ELSE op

\* The call _fixOverloadedOperator makes of e.
OverloadedApplies(e) ==
  LET kinds == {Nested(e.type1).kind, Nested(e.type2).kind} IN
  /\ e.op \in Comparisons \cup Equalities \cup {"plus", "minus", "mult"}
  /\ kinds \subseteq {"signed", "unsigned", "bv", "bit"}
  /\ OnBoth(LAMBDA t : t.kind = "bit" => t.logic, e)
  /\ kinds = {"bv"} => e.op \notin {"case_eq", "case_neq"}
  /\ "bit" \in kinds => e.op \in Comparisons
Overloaded(e) ==
  LET kinds == {Nested(e.type1).kind, Nested(e.type2).kind}
      package == IF e.op \in {"case_eq", "case_neq"} THEN "numeric_std" ELSE "std_logic_arith"
  IN CASE e.op \in Comparisons ->
            Call("extensions", e.op, Precise(e), Operands(e), IF kinds = {"bit"} THEN "bits" ELSE "")
       [] e.op \notin Comparisons /\ "signed" \in kinds ->
            Call(package, Equality(e.op), TRUE, Operands(e), "")
       [] e.op \notin Comparisons /\ "signed" \notin kinds /\ "unsigned" \in kinds ->
            Call(package, Equality(e.op), FALSE, Operands(e), "")
       [] OTHER ->
            Call(IF Precise(e) THEN "std_logic_signed" ELSE "std_logic_unsigned",
                 Equality(e.op), FALSE, Operands(e), "")

-----------------------------------------------------------------------------
(* The fixes of visitExpression.  Those of equalities are tried in the     *)
(* order of the actions: arrays, logic, the functions of VHDL, reals.      *)
Todo(applies) == call = NoCall /\ applies /\ UNCHANGED <<expr, hdtlib, value>>
Replace(c) == call' = c

FixReverseOperator ==
  /\ Todo(expr.op = "reverse" /\ Vector(type1))
  /\ Replace(Call("extensions", "reverse", FALSE, <<expr.value1>>, ""))

FixModOperator ==
  /\ Todo(expr.op = "mod")
  /\ Replace(Call("extensions", "mod", FALSE, <<expr.value1, expr.value2>>, ""))

\* 2 ** n is left to the printer, which writes a shift.
FixPowOperator ==
  /\ Todo(expr.op = "pow" /\ ~expr.type1.literal2)
  /\ Replace(Call("cmath", "pow", FALSE, <<expr.value1, expr.value2>>, ""))

\* An unsigned operand is an error of the translation.
FixAbsOperator ==
  /\ Todo(expr.op = "abs" /\ type1.kind \in {"signed", "bv", "int", "real"})
  /\ Replace(Call(CASE type1.kind = "signed" -> "std_logic_arith"
                    [] type1.kind = "bv" -> "std_logic_signed"
                    [] type1.kind = "int" -> "cstdlib"
                    [] type1.kind = "real" -> "cmath",
                  "abs", TRUE, <<expr.value1>>, ""))

Reductions == {"orrd", "andrd", "xorrd"}
\* A native integer is compared with 0 and with ~0; vectors reduce themselves.
FixReduceOperator ==
  /\ Todo(expr.op \in Reductions)
  /\ Replace(Call(IF type1.kind # "int" THEN "vector"
                  ELSE IF expr.op = "xorrd" THEN "extensions" ELSE "native",
                  expr.op, FALSE, <<expr.value1>>, ""))

\* Arrays whose size is known are compared by their elements, each of which is fixed in turn.
Members(e) ==
  [i \in DOMAIN e.value1 |->
     [op |-> "case_eq", type1 |-> e.type1.of, type2 |-> e.type2.of,
      value1 |-> e.value1[i], value2 |-> e.value2[i]]]
Member(e) ==
  IF OverloadedApplies(e) THEN Overloaded(e)
  ELSE Call("native", "case_eq", FALSE, Operands(e), "")
ArrayEqualsApplies(e) ==
  e.op \in {"case_eq", "case_neq"} /\ OnBoth(LAMBDA t : t.kind = "array", e)
FixArrayEquals ==
  /\ Todo(ArrayEqualsApplies(expr))
  /\ LET after == IF Inverted(expr.op) THEN "not" ELSE ""
     IN Replace(IF type1.spanKnown /\ type2.spanKnown
                THEN Call("and", "and", FALSE,
                          [i \in DOMAIN Members(expr) |-> Member(Members(expr)[i])], after)
                ELSE Call("extensions", "arrayEquals", FALSE, <<expr.value1, expr.value2>>, after))

LogicApplies(e) ==
  /\ e.op \in {"eq", "neq"}
  /\ ~OnBoth(LAMBDA t : ~Nested(t).logic, e)
  /\ OnBoth(LAMBDA t : ~Arith(Nested(t)), e)
FixLogicEquality ==
  /\ Todo(LogicApplies(expr))
  /\ Replace(Call("extensions", "logicEquals",
                  Nested(type1).signed /\ Nested(type2).signed, <<expr.value1, expr.value2>>,
                  IF Inverted(expr.op) THEN "bnot" ELSE ""))

FixOverloadedOperator ==
  /\ Todo(OverloadedApplies(expr) /\ ~LogicApplies(expr) /\ ~ArrayEqualsApplies(expr))
  /\ Replace(Overloaded(expr))

Shifts == {"sla", "sll", "sra", "srl"}
ShiftApplies(e) == e.op \in Shifts /\ e.type2.logic /\ Vector(e.type1)
FixShiftOperator ==
  /\ Todo(ShiftApplies(expr))
  /\ Replace(Call("extensions",
                  CASE expr.op \in {"sla", "sll"} -> "left"
                    [] expr.op = "sra" -> "arith"
                    [] expr.op = "srl" -> "logic",
                  FALSE, <<expr.value1, expr.value2>>, ""))

FixRealEquality ==
  /\ Todo(expr.op \in Equalities /\ OnBoth(LAMBDA t : t.kind = "real", expr))
  /\ Replace(Call("extensions", "equals", FALSE, <<expr.value1, expr.value2>>,
                  IF Inverted(expr.op) THEN "not" ELSE ""))

\* The functions of a VHDL package that signed and unsigned operands share are told apart.
Packages == {"std_logic_arith", "numeric_std", "std_logic_signed", "std_logic_unsigned"}
FixFunctionWithPedix ==
  /\ Todo(expr.op = "function")
  /\ Replace(Call(expr.lib, expr.fn, type1.signed, <<expr.value1, expr.value2>>, ""))

\* The case of a casez or casex, before this pass (PreRefine_misc).
ManageCaseSemantics ==
  /\ Todo(expr.op \in {"casez", "casex"})
  /\ Replace(IF type1.logic
             THEN Call("extensions", "caseXZ", type1.signed,
                       <<expr.value1, expr.value2, expr.op = "casex">>, "")
             ELSE Call("native", "case_eq", FALSE, <<expr.value1, expr.value2>>, ""))

\* SystemC's own operator is kept.
Keep ==
  /\ Todo(/\ expr.op \in {"case_eq", "case_neq"}
          /\ OnBoth(LAMBDA t : t.kind = "bv", expr))
  /\ Replace(Call("native", expr.op, FALSE, Operands(expr), ""))

Translate ==
  \/ FixReverseOperator \/ FixModOperator \/ FixPowOperator \/ FixAbsOperator
  \/ FixReduceOperator \/ FixArrayEquals \/ FixLogicEquality \/ FixOverloadedOperator
  \/ FixShiftOperator \/ FixRealEquality \/ FixFunctionWithPedix \/ ManageCaseSemantics \/ Keep

-----------------------------------------------------------------------------
(* Running the call.  What it returns is cast to the expression's type, a  *)
(* number to the size of operand 1; a Boolean is a bit here.               *)
ArithCall(fn, signed, v, w) ==
  IF fn = "abs" THEN ArithAbs(v)
  ELSE IF fn \in {"eq", "neq"} /\ hdtlib THEN Bit(EqHl(v, w) # (fn = "neq"))
  ELSE IF fn = "shr" /\ hdtlib THEN ShrHl(v, w, signed)
  ELSE IF signed THEN BvSigned(fn, v, w) ELSE BvUnsigned(fn, v, w)

\* Two std_logic_1164 functions and the conversions, which take a vector and a size or a flag
Convert(lib, fn, signed, v, n) ==
  CASE fn = "conv_integer" -> IF lib = "std_logic_arith" THEN ConvInteger(v, signed)
                              ELSE BvConvInteger(v, lib = "std_logic_signed")
    [] fn = "to_integer" -> ToInteger(v, signed)
    [] fn = "conv_std_logic_vector" -> IF hdtlib THEN ConvVectorHl(v, n, signed) ELSE ConvVector(v, n, signed)
    [] fn = "conv_signed" -> ConvSigned(v, n, signed)
    [] fn = "conv_unsigned" -> ConvUnsigned(v, n, signed)
    [] fn = "sxt" -> Sxt(v, n)
    [] fn = "ext" -> Ext(v, n)
    [] fn = "to_bitvector" -> IF hdtlib THEN ToBitvectorHl(v, n) ELSE ToBitvector(v, n)
    [] fn = "to_x01" -> ToX01(v)
    [] fn = "is_x" -> Bit(IsX(v))
    [] fn = "std_match" -> Bit(StdMatch(v, n))
Conversions ==
  {"conv_integer", "to_integer", "conv_std_logic_vector", "conv_signed", "conv_unsigned",
   "sxt", "ext", "to_bitvector", "to_x01", "is_x", "std_match"}

ExtensionCall(fn, signed, a, after) ==
  CASE fn = "reverse" -> IF hdtlib THEN HifReverseHl(a[1]) ELSE HifReverse(a[1])
    [] fn = "mod" -> HifMod(a[1], a[2])
    [] fn = "xorrd" -> HifXorrd(a[1])
    [] fn \in Comparisons ->
         IF after = "bits" THEN BitOrder(fn, a[1], a[2])
         ELSE IF hdtlib THEN OrderHl(fn, a[1], a[2], signed)
         ELSE IF signed THEN SignedOrder(fn, a[1], a[2]) ELSE UnsignedOrder(fn, a[1], a[2])
    [] fn = "logicEquals" ->
         IF type1.kind = "bit" THEN BitEquals(a[1], a[2])
         ELSE IF type1.kind = "array" THEN ArrayLogicEquals(a[1], a[2], signed)
         ELSE IF hdtlib THEN LogicEqualsHl(a[1], a[2], signed) ELSE LogicEquals(a[1], a[2], signed)
    [] fn = "arrayEquals" -> Bit(ArrayEquals(a[1], a[2]))
    [] fn = "caseXZ" ->
         Bit(IF type1.kind = "bit" THEN BitCaseXZ(a[1], a[2], a[3])
             ELSE IF hdtlib THEN CaseXZHl(a[1], a[2], a[3], signed) ELSE CaseXZ(a[1], a[2], a[3], signed))
    [] fn \in {"left", "arith", "logic"} ->
         IF hdtlib THEN OpShiftHl(fn, a[1], a[2])
         ELSE (CASE fn = "left" -> OpShiftLeft(a[1], a[2])
                 [] fn = "arith" -> OpShiftRightArith(a[1], a[2])
                 [] fn = "logic" -> OpShiftRightLogic(a[1], a[2]))
    [] fn = "equals" -> Bit(RealEquals(a[1], a[2]))

\* A native integer has eight bits here.
NativeOnes == 255
NativeCall(fn, a) ==
  CASE fn = "case_eq" -> Bit(a[1] = a[2])
    [] fn = "case_neq" -> Bit(a[1] # a[2])
    [] fn = "orrd" -> Bit(a[1] # 0)
    [] fn = "andrd" -> Bit(a[1] = NativeOnes)
VectorReduce(fn, v) ==
  CASE fn = "orrd" -> OrReduce(v) [] fn = "andrd" -> AndReduce(v) [] fn = "xorrd" -> XorReduce(v)

ValueOf(c) ==
  CASE c.fn \in Conversions -> Convert(c.lib, c.fn, c.signed, c.args[1], c.args[2])
    [] c.lib = "std_logic_1164" -> Resolved(c.args[1])
    [] c.lib = "std_logic_arith" ->
         ArithCall(c.fn, c.signed, c.args[1], IF c.fn = "abs" THEN NoOperand ELSE c.args[2])
    [] c.lib = "std_logic_signed" -> IF c.fn = "abs" THEN BvAbs(c.args[1]) ELSE BvSigned(c.fn, c.args[1], c.args[2])
    [] c.lib = "std_logic_unsigned" -> BvUnsigned(c.fn, c.args[1], c.args[2])
    [] c.lib = "numeric_std" ->
         Bit((IF hdtlib THEN NumericEqHl(c.args[1], c.args[2]) ELSE NumericEq(c.args[1], c.args[2]))
             # (c.fn = "neq"))
    [] c.lib = "extensions" -> ExtensionCall(c.fn, c.signed, c.args, c.after)
    [] c.lib = "native" -> NativeCall(c.fn, c.args)
    [] c.lib = "vector" -> VectorReduce(c.fn, c.args[1])
    [] c.lib \in {"cstdlib", "cmath"} ->
         IF c.fn = "pow" THEN c.args[1] ^ c.args[2]
         ELSE IF c.args[1] < 0 THEN -c.args[1] ELSE c.args[1]

Evaluate ==
  /\ call # NoCall /\ value = NotYet
  /\ LET v == IF call.lib = "and"
              THEN Bit(\A i \in DOMAIN call.args : ValueOf(call.args[i]) = "1") ELSE ValueOf(call)
     IN value' = <<IF call.after \in {"not", "bnot"} THEN Not(v) ELSE v>>
  /\ UNCHANGED <<expr, hdtlib, call>>

Init ==
  /\ \E k \in DOMAIN Expressions : expr \in Expressions[k]
  /\ hdtlib \in Hdtlib /\ call = NoCall /\ value = NotYet
Next == Translate \/ Evaluate
Spec == Init /\ [][Next]_vars
===============================================================================
