------------------------------ MODULE LogicVectors ------------------------------
(***************************************************************************)
(* The vectors of SystemC, sc_lv and sc_bv, as far as hif2scSupport uses   *)
(* them: functions from 0 .. n - 1 to bits, bit 0 the lowest.  hdtlib's    *)
(* vectors have the same values.                                           *)
(***************************************************************************)
EXTENDS Integers, FiniteSets, FiniteSetsExt

Known == {"0", "1"}
Logic == Known \cup {"X", "Z"}

Size(v) == Cardinality(DOMAIN v)
Is01(v) == \A i \in DOMAIN v : v[i] \in Known
All(n, b) == [i \in 0 .. n - 1 |-> b]
BitsFrom(v, left, right) == [i \in 0 .. left - right |-> v[right + i]]
\* A vector given to a longer one is padded with zeros, to a shorter one cut.
Resize(v, n) == [i \in 0 .. n - 1 |-> IF i \in DOMAIN v THEN v[i] ELSE "0"]

Uint(v) == MapThenSumSet(LAMBDA i : IF v[i] = "1" THEN 2 ^ i ELSE 0, DOMAIN v)
Sint(v) == Uint(v) - (IF v[Size(v) - 1] = "1" THEN 2 ^ Size(v) ELSE 0)
Bit(b) == IF b THEN "1" ELSE "0"
Bits(k, n) == [i \in 0 .. n - 1 |-> Bit((k \div 2 ^ i) % 2 = 1)]

Not(a) == CASE a = "0" -> "1" [] a = "1" -> "0" [] OTHER -> "X"
And(a, b) == IF "0" \in {a, b} THEN "0" ELSE IF {a, b} = {"1"} THEN "1" ELSE "X"
Or(a, b) == Not(And(Not(a), Not(b)))
Xor(a, b) == IF {a, b} \subseteq Known THEN Bit(a # b) ELSE "X"
OnBits(op(_, _), v, w) == [i \in DOMAIN v |-> op(v[i], w[i])]

\* or_reduce, and_reduce, xor_reduce
OrReduce(v) == FoldSet(LAMBDA i, b : Or(v[i], b), "0", DOMAIN v)
AndReduce(v) == FoldSet(LAMBDA i, b : And(v[i], b), "1", DOMAIN v)
XorReduce(v) == FoldSet(LAMBDA i, b : Xor(v[i], b), "0", DOMAIN v)

\* No vector: what SystemC refuses, an index out of range or a negative shift.
Abort == <<>>
ShiftLeft(v, k) ==
  IF k < 0 THEN Abort ELSE [i \in DOMAIN v |-> IF i >= k THEN v[i - k] ELSE "0"]
ShiftRight(v, k) ==
  IF k < 0 THEN Abort ELSE [i \in DOMAIN v |-> IF i + k \in DOMAIN v THEN v[i + k] ELSE "0"]
===============================================================================
