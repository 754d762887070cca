-------------------------------- MODULE Operators --------------------------------
(***************************************************************************)
(* What hif2sc and its library make of the values of a design, beside what *)
(* HIF means: the calls that UtilityLibraries translates operators to, the *)
(* moves of elements and 'last_value.  The three share no state.           *)
(*                                                                         *)
(* What an operator, or a function of a VHDL package, means on operands    *)
(* without metavalues is given by the numbers they stand for.              *)
(***************************************************************************)
EXTENDS UtilityLibraries

CONSTANTS
  Moves,             \* of VectorMoves
  Values, MaxReads   \* of LastValue

VARIABLES
  move, form, moved,
  s, last, prev, read, reads, before, changes, missed

Moving == INSTANCE VectorMoves
Lasting == INSTANCE LastValue

ASSUME MovesAssumption == \A m \in Moves : Moving!WellFormed(m)

-----------------------------------------------------------------------------

Num(v, signed) == IF signed THEN Sint(v) ELSE Uint(v)
Compared(op, x, y) ==
  CASE op = "lt" -> x < y [] op = "gt" -> x > y [] op = "le" -> x <= y [] op = "ge" -> x >= y
    [] op \in {"eq", "case_eq", "casez", "casex"} -> x = y [] Inverted(op) -> x # y
Absolute(x) == IF x < 0 THEN -x ELSE x
\* The result has the sign of the divisor.
Modulo(a, n) == IF n > 0 THEN a % n ELSE -((-a) % (-n))
Shifted(v, k, fill) == [i \in DOMAIN v |-> IF i + k \in DOMAIN v THEN v[i + k] ELSE fill]

OfVectors(e) ==
  LET signed == Precise(e)
      v == Operands(e)[1]
      w == Operands(e)[2]
  IN CASE e.op = "plus" -> Bits(Num(v, signed) + Num(w, signed), Size(v))
       [] e.op = "minus" -> Bits(Num(v, signed) - Num(w, signed), Size(v))
       [] e.op = "mult" -> Bits(Num(v, signed) * Num(w, signed), Size(v) + Size(w))
       [] OTHER -> Bit(Compared(e.op, Num(v, signed), Num(w, signed)))
OfShift(e) ==
  LET k == Uint(e.value2) IN
  CASE e.op \in {"sla", "sll"} -> Bits(Uint(e.value1) * 2 ^ k, Size(e.value1))
    [] e.op = "srl" -> Shifted(e.value1, k, "0")
    [] e.op = "sra" -> Shifted(e.value1, k, e.value1[Size(e.value1) - 1])
OfOne(op, t, v) ==
  CASE op = "abs" -> IF Vector(t) THEN Bits(Absolute(Sint(v)), Size(v)) ELSE Absolute(v)
    [] op = "reverse" -> [i \in DOMAIN v |-> v[Size(v) - 1 - i]]
    [] op \in Reductions ->
         LET ones == IF t.kind = "int" THEN {i \in 0 .. 7 : (v \div 2 ^ i) % 2 = 1}
                     ELSE {i \in DOMAIN v : v[i] = "1"}
         IN Bit(CASE op = "orrd" -> ones # {}
                  [] op = "andrd" -> Cardinality(ones) = IF t.kind = "int" THEN 8 ELSE Size(v)
                  [] op = "xorrd" -> Cardinality(ones) % 2 = 1)
OfFunction(e) ==
  LET signed == e.type1.signed
      v == e.value1
      w == e.value2
  IN CASE e.fn = "shl" -> Bits(Uint(v) * 2 ^ Uint(w), Size(v))
       [] e.fn = "shr" -> Shifted(v, Uint(w), IF signed THEN v[Size(v) - 1] ELSE "0")
       [] e.fn \in {"eq", "neq"} -> Bit(Compared(e.fn, Uint(v), Uint(w)))
       [] e.fn \in {"conv_integer", "to_integer"} -> Num(v, signed)
       [] e.fn \in {"conv_std_logic_vector", "conv_signed", "conv_unsigned"} -> Bits(Num(v, signed), w)
       [] e.fn = "sxt" -> Bits(Sint(v), w)
       [] e.fn = "ext" -> Bits(Uint(v), w)
       [] e.fn \in {"to_bitvector", "to_x01"} -> v
       [] e.fn = "is_x" -> "0"
       [] e.fn = "std_match" -> Bit(v = w)
       [] e.fn = "resolved" ->
            LET driven == {v[i] : i \in DOMAIN v} \ {"Z"}
            IN IF driven = {} THEN "Z" ELSE IF Cardinality(driven) = 1 THEN CHOOSE b \in driven : TRUE ELSE "X"

Meaning(e) ==
  CASE e.op \in {"abs", "reverse"} \cup Reductions -> OfOne(e.op, e.type1, e.value1)
    [] e.op \in Shifts -> OfShift(e)
    [] e.op = "function" -> OfFunction(e)
    [] e.op = "mod" -> Modulo(e.value1, e.value2)
    [] e.op = "pow" -> e.value1 ^ e.value2
    [] OTHER ->
         CASE e.type1.kind = "array" ->
                Bit((\A i \in DOMAIN e.value1 : Num(e.value1[i], e.type1.of.signed) = Num(e.value2[i], e.type2.of.signed))
                    # Inverted(e.op))
           [] e.type1.kind = "bit" ->
                Bit(Compared(e.op, IF e.value1 = "1" THEN 1 ELSE 0, IF e.value2 = "1" THEN 1 ELSE 0))
           [] e.type1.kind = "real" -> Bit(Compared(e.op, e.value1, e.value2))
           [] OTHER -> OfVectors(e)

-----------------------------------------------------------------------------
\* The ways to replace the metavalues of a value of type t by 0 and 1
CompletionsOf(v) == {w \in [DOMAIN v -> Known] : \A i \in DOMAIN v : v[i] \in Known => w[i] = v[i]}
Completions(t, v) ==
  CASE Vector(t) -> CompletionsOf(v)
    [] t.kind = "bit" -> IF v \in Known THEN {v} ELSE Known
    [] t.kind = "array" -> {a \in [DOMAIN v -> [DOMAIN v[0] -> Known]] : \A i \in DOMAIN v : a[i] \in CompletionsOf(v[i])}
    [] OTHER -> {v}
Certain(e) ==
  Cardinality(Completions(e.type1, e.value1)) = 1 /\ Cardinality(Completions(e.type2, e.value2)) = 1

\* What the library is known to do otherwise: a function shr by no bits, or by a count whose top
\* bit is set, aborts, as does shl by such a count; sra writes the sign into the low bits.
ValuedOtherwise(e) ==
  \/ e.op = "function" /\ e.fn = "shr" /\ Is01(e.value2) /\ Sint(e.value2) <= 0
  \/ e.op = "function" /\ e.fn = "shl" /\ Is01(e.value2) /\ Sint(e.value2) < 0
  \/ e.op = "sra" /\ e.value1[Size(e.value1) - 1] # "0"

(* On operands that are known, the generated program has the value HIF's   *)
(* operator has, for every pair of types and every way it is translated    *)
(* (PreRefine_utilityLibraries.cpp:449-1118 and the libraries it calls).   *)
SameValue ==
  value # NotYet /\ Certain(expr) /\ ~ValuedOtherwise(expr) => value[1] = Meaning(expr)

\* Operators that tell metavalues apart, or that VHDL lets take them for a value.
TakesMetavalues(e) ==
  \/ e.op \in {"case_eq", "case_neq", "casez", "casex"}
  \/ e.op \in {"eq", "neq"} /\ call.fn \notin {"logicEquals"}
  \/ /\ e.op = "function"
     /\ e.fn \in {"eq", "neq", "conv_integer", "to_integer", "to_bitvector", "to_x01", "is_x", "std_match", "resolved"}
Agree(r, m) ==
  IF expr.op \in {"plus", "minus", "mult", "abs", "reverse", "function"} \cup Shifts
  THEN \A i \in DOMAIN r : r[i] \in Known => r[i] = m[i]
  ELSE r \in Known => r = m

(* A bit of a result that is 0 or 1 has that value whatever the unknown    *)
(* bits of the operands stand for: X is never taken for a number           *)
(* (hif_systemc_extensions.i.hpp, hif_vhdl_ieee_std_logic_arith.i.hpp).     *)
KnownIsCertain ==
  value # NotYet /\ ~TakesMetavalues(expr) /\ ~ValuedOtherwise(expr) /\ ~Certain(expr) =>
    \A v \in Completions(type1, expr.value1), w \in Completions(type2, expr.value2) :
      Agree(value[1], Meaning([expr EXCEPT !.value1 = v, !.value2 = w]))

(* Every element lands where HIF says (PreRefine_utilityLibraries.cpp:1146-2064). *)
SameMove == Moving!SameMove
(* A known bit of 'last_value is right (hif_systemc_extensions.i.hpp:16-38). *)
LastValueRight == Lasting!LastValueRight
===============================================================================
