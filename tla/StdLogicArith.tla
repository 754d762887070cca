------------------------------ MODULE StdLogicArith ------------------------------
(***************************************************************************)
(* The VHDL packages std_logic_arith, std_logic_signed, std_logic_unsigned, *)
(* numeric_std and std_logic_1164 as hif2scSupport implements them.  Each  *)
(* function has a version on SystemC's vectors and one on hdtlib's; they   *)
(* have one definition where they do the same.                             *)
(***************************************************************************)
EXTENDS LogicVectors, Sequences, Folds

Unknown(v, w) == ~Is01(v) \/ ~Is01(w)

-----------------------------------------------------------------------------
(* std_logic_arith: extensions and conversions. *)
Sxt(v, n) ==
  IF ~Is01(v) THEN All(n, "X")
  ELSE IF n <= Size(v) THEN BitsFrom(v, n - 1, 0)
  ELSE [i \in 0 .. n - 1 |-> IF i \in DOMAIN v THEN v[i] ELSE v[Size(v) - 1]]
Ext(v, n) ==
  IF ~Is01(v) THEN All(n, "X")
  ELSE IF n <= Size(v) THEN BitsFrom(v, n - 1, 0) ELSE Resize(v, n)

ConvInteger(v, signed) == IF ~Is01(v) THEN 0 ELSE IF signed THEN Sint(v) ELSE Uint(v)
ConvVector(v, n, signed) ==
  IF ~Is01(v) THEN All(n, "X") ELSE IF signed THEN Sxt(v, n) ELSE Resize(v, n)
ConvBit(b, n) == IF b \notin Known THEN All(n, "X") ELSE Resize([i \in {0} |-> b], n)
ConvSigned(v, n, signed) ==
  IF ~Is01(v) THEN All(n, "X") ELSE IF signed THEN Sxt(v, n) ELSE Resize(v, n)
ConvUnsigned(v, n, signed) ==
  IF ~Is01(v) THEN All(n, "X") ELSE IF signed THEN Sxt(v, n) ELSE Resize(v, n)
\* hdtlib's vectors
ConvVectorHl(v, n, signed) ==
  IF ~Is01(v) THEN All(n, "X") ELSE IF signed THEN Sxt(v, n) ELSE Resize(v, n)

-----------------------------------------------------------------------------
(* std_logic_arith: operators.  A vector with a metavalue is converted to  *)
(* one that is all X, and two of those are equal.                          *)
EqSigned(v, w) == ConvSigned(v, Size(v), TRUE) = ConvSigned(w, Size(w), TRUE)
EqUnsigned(v, w) == ConvUnsigned(v, Size(v), FALSE) = ConvUnsigned(w, Size(w), FALSE)
EqHl(v, w) == ConvVectorHl(v, Size(v), FALSE) = ConvVectorHl(w, Size(w), FALSE)

PlusSigned(v, w) ==
  IF Unknown(v, w) THEN All(Size(v), "X") ELSE Bits(Sint(v) + Sint(w), Size(v))
MinusSigned(v, w) ==
  IF Unknown(v, w) THEN All(Size(v), "X") ELSE Bits(Sint(v) - Sint(w), Size(v))
MultSigned(v, w) ==
  LET n == Size(v) + Size(w) IN
  IF Unknown(v, w) THEN All(n, "X") ELSE Bits(Sint(v) * Sint(w), n)
PlusUnsigned(v, w) ==
  IF Unknown(v, w) THEN All(Size(v), "X") ELSE Bits(Uint(v) + Uint(w), Size(v))
MinusUnsigned(v, w) ==
  IF Unknown(v, w) THEN All(Size(v), "X") ELSE Bits(Uint(v) - Uint(w), Size(v))
MultUnsigned(v, w) ==
  LET n == Size(v) + Size(w) IN
  IF Unknown(v, w) THEN All(n, "X") ELSE Bits(Uint(v) * Uint(w), n)
\* The most negative value is its own absolute value: it wraps.
ArithAbs(v) ==
  IF ~Is01(v) THEN All(Size(v), "X")
  ELSE Bits(IF Sint(v) < 0 THEN -Sint(v) ELSE Sint(v), Size(v))

\* The sign's bits and what was shifted, (sign.range(size - 1, i), ret.range(i - 1, 0)):
\* nothing was shifted, i is the size, and the range does not exist.
Joined(sign, shifted, i) ==
  IF shifted = Abort \/ i > Size(sign) - 1 THEN Abort
  ELSE [j \in DOMAIN sign |-> IF j >= i THEN sign[j] ELSE shifted[j]]
Shl(v, count) == IF ~Is01(count) THEN All(Size(v), "X") ELSE ShiftLeft(v, Sint(count))
ShrSigned(v, count) ==
  LET sign == All(Size(v), v[Size(v) - 1])
      i == Size(v) - Sint(count)
  IN IF ~Is01(count) THEN All(Size(v), "X")
     ELSE IF i <= 0 THEN sign
     ELSE Joined(sign, ShiftRight(v, Sint(count)), i)
ShrUnsigned(v, count) ==
  LET sign == All(Size(v), "0")
      i == Size(v) - Uint(count)
  IN IF ~Is01(count) THEN All(Size(v), "X")
     ELSE IF i <= 0 THEN sign
     ELSE Joined(sign, ShiftRight(v, Sint(count)), i)
\* hdtlib's vectors are shifted by way of SystemC's.
ShrHl(v, count, signed) == IF signed THEN ShrSigned(v, count) ELSE ShrUnsigned(v, count)

-----------------------------------------------------------------------------
(* std_logic_signed and std_logic_unsigned take a vector as the one or the *)
(* other.                                                                  *)
BvSigned(op, v, w) ==
  CASE op = "eq" -> Bit(EqSigned(v, w))
    [] op = "neq" -> Bit(~EqSigned(v, w))
    [] op = "plus" -> PlusSigned(v, w)
    [] op = "minus" -> MinusSigned(v, w)
    [] op = "mult" -> MultSigned(v, w)
    [] op = "shl" -> Shl(v, w)
    [] op = "shr" -> ShrSigned(v, w)
BvUnsigned(op, v, w) ==
  CASE op = "eq" -> Bit(EqUnsigned(v, w))
    [] op = "neq" -> Bit(~EqUnsigned(v, w))
    [] op = "plus" -> PlusUnsigned(v, w)
    [] op = "minus" -> MinusUnsigned(v, w)
    [] op = "mult" -> MultUnsigned(v, w)
    [] op = "shl" -> Shl(v, w)
    [] op = "shr" -> ShrUnsigned(v, w)
BvAbs(v) == ArithAbs(v)
BvConvInteger(v, signed) == ConvInteger(v, signed)

-----------------------------------------------------------------------------
(* numeric_std: nothing equals a vector with a metavalue. *)
NumericEq(v, w) == ~Unknown(v, w) /\ v = w
NumericEqHl(v, w) == Is01(v) /\ Is01(w) /\ v = w
NumericAbs(v) == ArithAbs(v)
ToInteger(v, signed) == IF ~Is01(v) THEN 0 ELSE IF signed THEN Sint(v) ELSE Uint(v)
StdMatch(v, w) == Size(v) = Size(w) /\ ~Unknown(v, w) /\ v = w

-----------------------------------------------------------------------------
(* std_logic_1164.  A sequence holds the drivers of a net in some order.   *)
resolution_table(a, b) ==
  CASE b = "Z" -> a
    [] a = "Z" -> b
    [] a = b -> a
    [] OTHER -> "X"
Resolved(s) ==
  IF Len(s) = 1 THEN s[1]
  ELSE FoldFunction(LAMBDA b, result : resolution_table(result, b), "Z", s)
ToBit(b, xmap) == IF b \in Known THEN b ELSE Bit(xmap)
ToBitvector(v, xmap) == [i \in DOMAIN v |-> IF v[i] \in Known THEN v[i] ELSE Bit(xmap)]
\* hdtlib's version does not pass xmap on.
ToBitvectorHl(v, xmap) == ToBitvector(v, FALSE)
BitToX01(b) == IF b # "Z" THEN b ELSE "X"
ToX01(v) == [i \in DOMAIN v |-> IF v[i] \in Known THEN v[i] ELSE "X"]
IsX(v) == ~Is01(v)
===============================================================================
