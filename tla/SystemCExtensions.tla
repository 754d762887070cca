--------------------------- MODULE SystemCExtensions ---------------------------
(***************************************************************************)
(* hif_systemc_extensions: the operators of HIF that SystemC's types do not *)
(* have, or have with another meaning.                                     *)
(***************************************************************************)
EXTENDS StdLogicArith

Wider(v, w) == IF Size(v) > Size(w) THEN Size(v) ELSE Size(w)

\* Unlike std_logic_arith's, hif_sxt keeps metavalues and copies one that is the sign.
HifSxt(v, n) ==
  IF n <= Size(v) THEN BitsFrom(v, n - 1, 0)
  ELSE [i \in 0 .. n - 1 |-> IF i \in DOMAIN v THEN v[i] ELSE v[Size(v) - 1]]
Widened(v, n, sign) == IF sign /\ Size(v) # n THEN HifSxt(v, n) ELSE Resize(v, n)

-----------------------------------------------------------------------------
(* Comparisons. *)
\* Of reals that are whole numbers: within one part in 10 ^ 9, hif_dTolerance.
RealEquals(x, y) ==
  LET abs(r) == IF r < 0 THEN -r ELSE r
      max == IF abs(x) > abs(y) THEN abs(x) ELSE abs(y)
  IN abs(x - y) <= max \div 10 ^ 9

Less(sign, v, w) == IF sign THEN Sint(v) < Sint(w) ELSE Uint(v) < Uint(w)
\* v op w for the relations less, greater, and their negations
SignedOrder(op, v, w) ==
  IF Unknown(v, w) THEN "X"
  ELSE Bit(CASE op = "lt" -> Less(TRUE, v, w) [] op = "gt" -> Less(TRUE, w, v)
             [] op = "le" -> ~Less(TRUE, w, v) [] op = "ge" -> ~Less(TRUE, v, w))
UnsignedOrder(op, v, w) ==
  IF Unknown(v, w) THEN "X"
  ELSE Bit(CASE op = "lt" -> Less(FALSE, v, w) [] op = "gt" -> Less(FALSE, w, v)
             [] op = "le" -> ~Less(FALSE, w, v) [] op = "ge" -> ~Less(FALSE, v, w))
OrderHl(op, v, w, sign) == IF sign THEN SignedOrder(op, v, w) ELSE UnsignedOrder(op, v, w)
BitOrder(op, a, b) ==
  IF ~({a, b} \subseteq Known) THEN "X"
  ELSE UnsignedOrder(op, [i \in {0} |-> a], [i \in {0} |-> b])

\* Mutant: metavalues are compared as they are.
LogicEqualsPlain(v, w, sign) ==
  LET n == Wider(v, w) IN Bit(Widened(v, n, sign) = Widened(w, n, sign))
LogicEquals(v, w, sign) ==
  LET n == Wider(v, w)
      l1 == Widened(v, n, sign)
      l2 == Widened(w, n, sign)
  IN IF Is01(v) /\ Is01(w) THEN Bit(l1 = l2) ELSE Not(OrReduce(OnBits(Xor, l1, l2)))
LogicEqualsHl(v, w, sign) == LogicEquals(v, w, sign)
BitEquals(a, b) == IF {a, b} \subseteq Known THEN Bit(a = b) ELSE "X"
\* Arrays of vectors, element by element.
ArrayLogicEquals(a, b, sign) ==
  FoldSet(LAMBDA i, res : And(res, LogicEquals(a[i], b[i], sign)), "1", DOMAIN a)
ArrayEquals(a, b) == \A i \in DOMAIN a : a[i] = b[i]

BitCaseXZ(a, b, xToo) == a = b \/ "Z" \in {a, b} \/ (xToo /\ "X" \in {a, b})
CaseXZ(v, w, xToo, sign) ==
  LET n == Wider(v, w)
  IN \A i \in 0 .. n - 1 : BitCaseXZ(Widened(v, n, sign)[i], Widened(w, n, sign)[i], xToo)
CaseXZHl(v, w, xToo, sign) == CaseXZ(v, w, xToo, sign)

-----------------------------------------------------------------------------
(* Integers.  C's % cuts towards zero: on operands that are not negative it *)
(* is TLA+'s.                                                              *)
\* Mutant: the n - ... of two signs is not reduced again.
HifModOnce(a, n) ==
  CASE a >= 0 /\ n > 0 -> a % n
    [] a < 0 /\ n < 0 -> -((-a) % (-n))
    [] a < 0 /\ n > 0 -> n - ((-a) % n)
    [] a >= 0 /\ n < 0 -> -((-((a % (-n)) + n)) % (-n))
HifMod(a, n) ==
  CASE a >= 0 /\ n > 0 -> a % n
    [] a < 0 /\ n < 0 -> -((-a) % (-n))
    [] a < 0 /\ n > 0 -> (n - ((-a) % n)) % n
    [] a >= 0 /\ n < 0 -> -((-((a % (-n)) + n)) % (-n))
\* The parity of the bits of v.
HifXorrd(v) ==
  LET parity[k \in 0 .. v] == IF k = 0 THEN FALSE ELSE (k % 2 = 1) # parity[k \div 2]
  IN Bit(parity[v])

-----------------------------------------------------------------------------
(* Shifts by a vector, which counts as unsigned. *)
OpShiftLeft(v, count) == IF ~Is01(count) THEN All(Size(v), "X") ELSE ShiftLeft(v, Uint(count))
\* The sign is put back at the wrong end, into the low bits.
OpShiftRightArith(v, count) ==
  LET sign == v[Size(v) - 1]
      shifted == ShiftRight(v, Uint(count))
  IN IF ~Is01(count) THEN All(Size(v), "X")
     ELSE IF sign = "0" THEN shifted
     ELSE IF Uint(count) > Size(v) THEN Abort
     ELSE [i \in DOMAIN v |-> IF i < Uint(count) THEN sign ELSE shifted[i]]
OpShiftRightLogic(v, count) ==
  IF ~Is01(count) THEN All(Size(v), "X") ELSE ShiftRight(v, Uint(count))
OpShiftHl(op, v, count) ==
  CASE op = "left" -> OpShiftLeft(v, count)
    [] op = "arith" -> OpShiftRightArith(v, count)
    [] op = "logic" -> OpShiftRightLogic(v, count)

HifReverse(v) == [i \in DOMAIN v |-> v[Size(v) - 1 - i]]
HifReverseHl(v) == HifReverse(v)
===============================================================================
