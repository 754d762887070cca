----------------------------- MODULE OperatorsProofs -----------------------------
(***************************************************************************)
(* For moves of any size, every element lands where HIF says.  For vectors *)
(* of any width and signals of any values, a known bit of 'last_value is   *)
(* right unless its latest changes fell between two reads.                 *)
(***************************************************************************)
EXTENDS Operators, FiniteSetTheorems, TLAPS

-----------------------------------------------------------------------------
(* A slice of the target takes its element i - right from the source. *)
LEMMA ElementsRight ==
  ASSUME NEW m, Moving!WellFormed(m), m.kind = "assign", Moving!Sliced(m)
  PROVE  Moving!Elements(m.old, m.source, m.right) = Moving!Meant(m)
<1> DEFINE n == Moving!Size(m.old)
           k == Moving!Size(m.source)
<1>1. /\ n \in Nat /\ k \in Nat /\ DOMAIN m.old = 0 .. n - 1 /\ DOMAIN m.source = 0 .. k - 1
      /\ m.left \in 0 .. n - 1 /\ m.right \in 0 .. m.left /\ k = m.left - m.right + 1
  BY DEF Moving!WellFormed, Moving!Indexed, Moving!Within, Moving!Sliced
<1> HIDE DEF n, k
<1>2. ASSUME NEW i \in 0 .. n - 1
      PROVE  i - m.right \in 0 .. k - 1 <=> i \in m.right .. m.left
  <2>1. i \in Int /\ m.left \in Int /\ m.right \in Int /\ k - 1 = m.left - m.right
    BY <1>1
  <2> QED
    BY <2>1
<1>3. Moving!Meant(m)
        = [i \in DOMAIN m.old |-> IF i \in m.right .. m.left THEN m.source[i - m.right] ELSE m.old[i]]
  BY DEF Moving!Meant
<1>4. Moving!Elements(m.old, m.source, m.right)
        = [i \in DOMAIN m.old |-> IF i - m.right \in DOMAIN m.source THEN m.source[i - m.right] ELSE m.old[i]]
  BY DEF Moving!Elements
<1> QED
  BY <1>1, <1>2, <1>3, <1>4

(* The whole of a target takes the whole of a source of its size. *)
LEMMA WholeRight ==
  ASSUME NEW m, Moving!WellFormed(m), m.kind = "assign", ~Moving!Sliced(m)
  PROVE  /\ Moving!Elements(m.old, m.source, 0) = Moving!Meant(m)
         /\ Moving!Resize(m.source, Moving!Size(m.old)) = Moving!Meant(m)
<1> DEFINE n == Moving!Size(m.old)
<1>1. /\ n \in Nat /\ DOMAIN m.old = 0 .. n - 1 /\ DOMAIN m.source = 0 .. n - 1
  BY DEF Moving!WellFormed, Moving!Indexed, Moving!Within, Moving!Sliced, Moving!Unbounded
<1>2. Moving!Meant(m) = [i \in 0 .. n - 1 |-> m.source[i]]
  BY <1>1 DEF Moving!Meant
<1>3. Moving!Elements(m.old, m.source, 0) = [i \in 0 .. n - 1 |-> m.source[i]]
  <2>1. Moving!Elements(m.old, m.source, 0)
          = [i \in 0 .. n - 1 |-> IF i - 0 \in 0 .. n - 1 THEN m.source[i - 0] ELSE m.old[i]]
    BY <1>1 DEF Moving!Elements
  <2>2. \A i \in 0 .. n - 1 : i - 0 = i
    BY <1>1
  <2> QED
    BY <2>1, <2>2
<1>4. Moving!Resize(m.source, n) = [i \in 0 .. n - 1 |-> m.source[i]]
  BY <1>1 DEF Moving!Resize
<1> QED
  BY <1>2, <1>3, <1>4

(* The slices of expressions. *)
LEMMA SliceRight ==
  ASSUME NEW m, Moving!WellFormed(m), m.kind = "slice"
  PROVE  /\ Moving!BitsFrom(m.source, m.left, m.right) = Moving!Meant(m)
         /\ Moving!HifVectorSlice(m.source, m.left, m.right) = Moving!Meant(m)
<1> DEFINE n == Moving!Size(m.source)
<1>1. n \in Nat /\ m.left \in 0 .. n - 1 /\ m.right \in 0 .. m.left
  BY DEF Moving!WellFormed, Moving!Indexed, Moving!Within
<1>2. Moving!BitsFrom(m.source, m.left, m.right) = Moving!Meant(m)
  <2>1. \A i \in 0 .. m.left - m.right : m.right + i = i + m.right
    BY <1>1
  <2> QED
    BY <2>1 DEF Moving!BitsFrom, Moving!Meant
<1>3. Moving!HifVectorSlice(m.source, m.left, m.right) = Moving!BitsFrom(m.source, m.left, m.right)
  BY <1>1 DEF Moving!HifVectorSlice
<1> QED
  BY <1>2, <1>3

LEMMA SameCardinality == \A S : Moving!Cardinality(S) = Cardinality(S)
BY DEF Moving!Cardinality, Cardinality

(* An operand of a concatenation has its size, an element the size 1. *)
LEMMA ArrayShape ==
  ASSUME NEW type, NEW v, type = "array" => Moving!Indexed(v)
  PROVE  LET a == Moving!AsArray(type, v)
         IN  Moving!Size(a) \in Nat /\ DOMAIN a = 0 .. Moving!Size(a) - 1
<1>1. CASE type = "array"
  BY <1>1 DEF Moving!AsArray, Moving!Indexed
<1>2. CASE type # "array"
  <2>1. Moving!AsArray(type, v) = [i \in {0} |-> v]
    BY <1>2 DEF Moving!AsArray
  <2>2. DOMAIN Moving!AsArray(type, v) = {0}
    BY <2>1
  <2>3. Moving!Size(Moving!AsArray(type, v)) = 1
    BY <2>2, FS_Singleton, SameCardinality DEF Moving!Size
  <2> QED
    BY <2>2, <2>3
<1> QED
  BY <1>1, <1>2

LEMMA ConcatRight ==
  ASSUME NEW m, Moving!WellFormed(m), m.kind = "concat"
  PROVE  Moving!Concat(Moving!AsArray(m.type1, m.one), Moving!AsArray(m.type2, m.two)) = Moving!Meant(m)
<1> DEFINE v == Moving!AsArray(m.type1, m.one)
           w == Moving!AsArray(m.type2, m.two)
<1>1. /\ Moving!Size(v) \in Nat /\ DOMAIN v = 0 .. Moving!Size(v) - 1
      /\ Moving!Size(w) \in Nat
  BY ArrayShape DEF Moving!WellFormed
<1>2. Moving!Meant(m)
        = [i \in 0 .. Moving!Size(v) + Moving!Size(w) - 1 |->
             IF i \in DOMAIN v THEN v[i] ELSE w[i - Moving!Size(v)]]
  BY DEF Moving!Meant
<1>3. Moving!Concat(v, w)
        = [i \in 0 .. Moving!Size(v) + Moving!Size(w) - 1 |->
             IF i < Moving!Size(v) THEN v[i] ELSE w[i - Moving!Size(v)]]
  BY DEF Moving!Concat
<1> HIDE DEF v, w
<1>4. \A i \in 0 .. Moving!Size(v) + Moving!Size(w) - 1 : i < Moving!Size(v) <=> i \in DOMAIN v
  BY <1>1
<1>5. Moving!Concat(v, w) = Moving!Meant(m)
  BY <1>2, <1>3, <1>4
<1> QED
  BY <1>5 DEF v, w

(* a & 11..00..11 | b << right & 00..11..00, bit by bit. *)
LEMMA Masked ==
  ASSUME NEW a \in Known, NEW b \in Known
  PROVE  LET mixed(m) == Moving!Or(Moving!And(a, m), Moving!And(b, Moving!Not(m)))
         IN  mixed("1") = a /\ mixed("0") = b
BY DEF Moving!Or, Moving!And, Moving!Not, Known

LEMMA MasksRight ==
  ASSUME NEW m, Moving!WellFormed(m), m.kind = "assign", m.to = "int", Moving!Sliced(m),
         m.right # 0, m.left # Moving!Size(m.old) - 1, NEW out
  PROVE  Moving!Masks(m.old, m.source, m.left, m.right, out) = Moving!Meant(m)
<1> DEFINE n == Moving!Size(m.old)
           k == Moving!Size(m.source)
           D == 0 .. n - 1
           ones == Moving!All(n, "1")
           leftShift == Moving!ShiftLeft(ones, m.left + 1)
           rightShift == Moving!ShiftRight(ones, n - m.right)
           mask == Moving!OnBits(Moving!Or, leftShift, rightShift)
           inside == [i \in DOMAIN mask |-> Moving!Not(mask[i])]
           shifted == Moving!ShiftLeft(Moving!Resize(m.source, n), m.right)
           result == Moving!OnBits(Moving!Or, Moving!OnBits(Moving!And, m.old, mask),
                                   Moving!OnBits(Moving!And, shifted, inside))
<1>1. /\ n \in Nat /\ k \in Nat /\ DOMAIN m.old = D /\ DOMAIN m.source = 0 .. k - 1
      /\ m.left \in Int /\ m.right \in Int /\ 0 < m.right /\ m.right <= m.left /\ m.left < n - 1
      /\ k = m.left - m.right + 1
      /\ \A i \in DOMAIN m.old : m.old[i] \in Known
      /\ \A i \in DOMAIN m.source : m.source[i] \in Known
  <2>1. /\ n \in Nat /\ k \in Nat /\ DOMAIN m.old = D /\ DOMAIN m.source = 0 .. k - 1
        /\ m.left \in 0 .. n - 1 /\ m.right \in 0 .. m.left /\ k = m.left - m.right + 1
    BY DEF Moving!WellFormed, Moving!Indexed, Moving!Within, Moving!Sliced
  <2>2. Moving!Is01(m.old) /\ Moving!Is01(m.source)
    BY DEF Moving!WellFormed
  <2>3. m.right # 0 /\ m.left # n - 1
    OBVIOUS
  <2> HIDE DEF n, k
  <2>4. /\ m.left \in Int /\ m.right \in Int /\ 0 < m.right /\ m.right <= m.left /\ m.left < n - 1
    BY <2>1, <2>3
  <2> QED
    BY <2>1, <2>2, <2>4 DEF Moving!Is01, Moving!Known, Known
<1>2. Moving!Masks(m.old, m.source, m.left, m.right, out) = result
  <2>1. m.left + 1 # n /\ m.right # 0
    BY <1>1
  <2> QED
    BY <2>1 DEF Moving!Masks
<1>3. Moving!Meant(m)
        = [i \in D |-> IF i \in m.right .. m.left THEN m.source[i - m.right] ELSE m.old[i]]
  BY <1>1 DEF Moving!Meant
<1> HIDE DEF n, k
<1>4. ones = [i \in D |-> "1"]
  BY DEF Moving!All
<1>5. leftShift = [i \in D |-> IF i >= m.left + 1 THEN "1" ELSE "0"]
  <2>1. ~(m.left + 1 < 0)
    BY <1>1
  <2>2. leftShift = [i \in D |-> IF i >= m.left + 1 THEN ones[i - (m.left + 1)] ELSE "0"]
    BY <1>4, <2>1 DEF Moving!ShiftLeft
  <2>3. ASSUME NEW i \in D, i >= m.left + 1 PROVE i - (m.left + 1) \in D
    <3>1. i \in Int /\ i <= n - 1 /\ 0 <= i - (m.left + 1) /\ i - (m.left + 1) <= n - 1
      BY <1>1, <2>3
    <3> QED
      BY <1>1, <3>1
  <2> QED
    BY <1>4, <2>2, <2>3
<1>6. rightShift = [i \in D |-> IF i < m.right THEN "1" ELSE "0"]
  <2>1. ~(n - m.right < 0)
    BY <1>1
  <2>2. rightShift = [i \in D |-> IF i + (n - m.right) \in D THEN ones[i + (n - m.right)] ELSE "0"]
    BY <1>4, <2>1 DEF Moving!ShiftRight
  <2>3. ASSUME NEW i \in D PROVE i + (n - m.right) \in D <=> i < m.right
    <3>1. n \in Int /\ m.right \in Int /\ m.right <= n
      BY <1>1
    <3> HIDE DEF n
    <3>2. i \in 0 .. n - 1
      OBVIOUS
    <3> QED
      BY ONLY <3>1, <3>2
  <2> QED
    BY <1>4, <2>2, <2>3
<1> HIDE DEF ones, leftShift, rightShift
<1>7. mask = [i \in D |-> IF i \in m.right .. m.left THEN "0" ELSE "1"]
  <2>1. mask = [i \in D |-> Moving!Or(leftShift[i], rightShift[i])]
    BY <1>5 DEF Moving!OnBits
  <2>2. Moving!Or("1", "0") = "1" /\ Moving!Or("0", "1") = "1" /\ Moving!Or("0", "0") = "0"
    BY DEF Moving!Or, Moving!And, Moving!Not
  <2>3. ASSUME NEW i \in D
        PROVE  Moving!Or(leftShift[i], rightShift[i]) = IF i \in m.right .. m.left THEN "0" ELSE "1"
    <3>1. /\ i \in m.right .. m.left => ~(i >= m.left + 1) /\ ~(i < m.right)
          /\ i \notin m.right .. m.left => \/ i >= m.left + 1 /\ ~(i < m.right)
                                           \/ ~(i >= m.left + 1) /\ i < m.right
      BY <1>1
    <3> QED
      BY <1>5, <1>6, <2>2, <3>1
  <2> QED
    BY <2>1, <2>3
<1> HIDE DEF mask
<1>8. inside = [i \in D |-> Moving!Not(mask[i])]
  BY <1>7
<1> HIDE DEF inside
<1>9. shifted = [i \in D |-> IF i \in m.right .. m.left THEN m.source[i - m.right] ELSE "0"]
  <2> DEFINE resized == Moving!Resize(m.source, n)
  <2>1. resized = [i \in D |-> IF i \in 0 .. k - 1 THEN m.source[i] ELSE "0"]
    BY <1>1 DEF Moving!Resize
  <2>2. ~(m.right < 0)
    BY <1>1
  <2>3. shifted = [i \in D |-> IF i >= m.right THEN resized[i - m.right] ELSE "0"]
    BY <2>1, <2>2 DEF Moving!ShiftLeft
  <2> HIDE DEF resized, shifted
  <2>4. ASSUME NEW i \in D
        PROVE  (IF i >= m.right THEN resized[i - m.right] ELSE "0")
                 = IF i \in m.right .. m.left THEN m.source[i - m.right] ELSE "0"
    <3>0. i \in Int /\ 0 <= i /\ i <= n - 1 /\ i - m.right \in Int
      BY <1>1
    <3>1. i >= m.right => /\ i - m.right \in D
                          /\ i - m.right \in 0 .. k - 1 <=> i \in m.right .. m.left
      <4>1. i >= m.right => 0 <= i - m.right /\ i - m.right <= n - 1
        BY <1>1, <3>0
      <4>2. i - m.right <= k - 1 <=> i <= m.left
        BY <1>1, <3>0
      <4> QED
        BY <1>1, <3>0, <4>1, <4>2
    <3>2. ~(i >= m.right) => i \notin m.right .. m.left
      BY <1>1
    <3> QED
      BY <2>1, <3>1, <3>2
  <2> QED
    BY <2>3, <2>4
<1> HIDE DEF shifted
<1>10. result = [i \in D |-> Moving!Or(Moving!And(m.old[i], mask[i]),
                                        Moving!And(shifted[i], Moving!Not(mask[i])))]
  BY <1>1, <1>7, <1>8, <1>9 DEF Moving!OnBits
<1> HIDE DEF result
<1>11. ASSUME NEW i \in D
       PROVE  Moving!Or(Moving!And(m.old[i], mask[i]), Moving!And(shifted[i], Moving!Not(mask[i])))
                = IF i \in m.right .. m.left THEN m.source[i - m.right] ELSE m.old[i]
  <2>1. CASE i \in m.right .. m.left
    <3>1. i - m.right \in 0 .. k - 1
      BY <1>1, <2>1
    <3>2. shifted[i] = m.source[i - m.right] /\ mask[i] = "0" /\ shifted[i] \in Known /\ m.old[i] \in Known
      BY <1>1, <1>7, <1>9, <2>1, <3>1
    <3> QED
      BY <2>1, <3>2, Masked
  <2>2. CASE i \notin m.right .. m.left
    <3>1. shifted[i] = "0" /\ mask[i] = "1" /\ shifted[i] \in Known /\ m.old[i] \in Known
      BY <1>1, <1>7, <1>9, <2>2 DEF Known
    <3> QED
      BY <2>2, <3>1, Masked
  <2> QED
    BY <2>1, <2>2
<1> QED
  BY <1>2, <1>3, <1>10, <1>11

LEMMA Prefixed ==
  ASSUME NEW S, NEW x \in S, NEW t \in Seq(S)
  PROVE  /\ DOMAIN (<<x>> \o t) = 1 .. Len(t) + 1 /\ (<<x>> \o t)[1] = x
         /\ \A k \in 1 .. Len(t) : (<<x>> \o t)[k + 1] = t[k]
<1> DEFINE c == <<x>> \o t
<1>1. Len(c) = Len(t) + 1 /\ c \in Seq(S)
  OBVIOUS
<1>2. c[1] = x
  OBVIOUS
<1>3. ASSUME NEW k \in 1 .. Len(t) PROVE c[k + 1] = t[k]
  <2>1. k + 1 \in 1 .. Len(<<x>>) + Len(t) /\ Len(<<x>>) = 1 /\ k + 1 > 1 /\ (k + 1) - 1 = k
    OBVIOUS
  <2> QED
    BY <2>1
<1> QED
  BY <1>1, <1>2, <1>3

(* The last of the pairs that has an element gives its value; the          *)
(* alternatives are after others, and no two have the same element.        *)
LEMMA AggregateRight ==
  ASSUME NEW m, Moving!WellFormed(m), m.kind = "aggregate", NEW calls,
         calls = (IF m.others = Moving!NoElement THEN <<>>
                  ELSE <<[left |-> m.size - 1, right |-> 0, value |-> m.others]>>) \o m.alts
  PROVE  Moving!Aggregate(m.size, calls) = Moving!Meant(m)
<1> DEFINE alts == m.alts
           off == IF m.others = Moving!NoElement THEN 0 ELSE 1
           has(c, i) == c.right <= i /\ i <= c.left
           lasts(i) == {k \in DOMAIN calls : has(calls[k], i)}
<1>1. /\ m.size \in Nat /\ alts \in Seq({alts[k] : k \in DOMAIN alts})
      /\ \A k \in DOMAIN alts :
           alts[k].left \in 0 .. m.size - 1 /\ alts[k].right \in 0 .. alts[k].left
      /\ \A j, k \in DOMAIN alts :
           j # k => (alts[j].right .. alts[j].left) \cap (alts[k].right .. alts[k].left) = {}
  BY DEF Moving!WellFormed, Moving!Within
<1>2. Len(alts) \in Nat /\ DOMAIN alts = 1 .. Len(alts)
  BY <1>1
<1>3. /\ DOMAIN calls = 1 .. Len(alts) + off
      /\ off = 1 => calls[1] = [left |-> m.size - 1, right |-> 0, value |-> m.others]
      /\ \A k \in 1 .. Len(alts) : calls[k + off] = alts[k]
  <2>1. CASE m.others = Moving!NoElement
    BY <1>1, <1>2, <2>1
  <2>2. CASE m.others # Moving!NoElement
    <3> DEFINE first == [left |-> m.size - 1, right |-> 0, value |-> m.others]
               S == {alts[k] : k \in DOMAIN alts} \cup {first}
    <3>1. alts \in Seq(S) /\ <<first>> \in Seq(S) /\ calls = <<first>> \o alts
      BY <1>1, <2>2
    <3>2. first \in S
      OBVIOUS
    <3> HIDE DEF first, S, alts
    <3>3. /\ DOMAIN calls = 1 .. Len(alts) + 1 /\ calls[1] = first
          /\ \A k \in 1 .. Len(alts) : calls[k + 1] = alts[k]
      <4>1. alts \in Seq(S) /\ first \in S
        BY <3>1, <3>2
      <4>2. /\ DOMAIN (<<first>> \o alts) = 1 .. Len(alts) + 1 /\ (<<first>> \o alts)[1] = first
            /\ \A k \in 1 .. Len(alts) : (<<first>> \o alts)[k + 1] = alts[k]
        BY ONLY <4>1, Prefixed
      <4> QED
        BY <3>1, <4>2
    <3>4. off = 1
      BY <2>2
    <3> QED
      BY <3>3, <3>4 DEF first
  <2> QED
    BY <2>1, <2>2
<1>4. \A k \in DOMAIN alts, i \in Int : has(alts[k], i) <=> i \in alts[k].right .. alts[k].left
  BY <1>1
<1>5. off \in {0, 1} /\ (off = 0 <=> m.others = Moving!NoElement)
  OBVIOUS
<1> HIDE DEF alts, off, has
<1>6. DOMAIN calls = 1 .. Len(alts) + off /\ (\A k \in 1 .. Len(alts) : calls[k + off] = alts[k])
  BY <1>3
<1>7. off = 1 => calls[1].left = m.size - 1 /\ calls[1].right = 0 /\ calls[1].value = m.others
  <2> SUFFICES ASSUME off = 1
               PROVE  calls[1].left = m.size - 1 /\ calls[1].right = 0 /\ calls[1].value = m.others
    OBVIOUS
  <2>1. calls[1] = [left |-> m.size - 1, right |-> 0, value |-> m.others]
    BY <1>3
  <2> QED
    BY ONLY <2>1
<1>8. \A i, j : j \in lasts(i) <=> j \in 1 .. Len(alts) + off /\ has(calls[j], i)
  BY <1>6
<1> HIDE DEF lasts
<1>9. ASSUME NEW i \in 0 .. m.size - 1
      PROVE  (IF lasts(i) = {} THEN Moving!NoElement ELSE calls[Moving!Max(lasts(i))].value)
               = IF \E k \in DOMAIN alts : i \in alts[k].right .. alts[k].left
                 THEN alts[CHOOSE k \in DOMAIN alts : i \in alts[k].right .. alts[k].left].value
                 ELSE m.others
  <2>1. i \in Int /\ 0 <= i /\ i <= m.size - 1
    BY <1>1
  <2>2. CASE \E k \in DOMAIN alts : i \in alts[k].right .. alts[k].left
    <3>1. PICK k \in 1 .. Len(alts) : i \in alts[k].right .. alts[k].left
      BY <1>2, <2>2
    <3>2. \A j \in 1 .. Len(alts) : i \in alts[j].right .. alts[j].left => j = k
      BY <1>1, <1>2, <3>1
    <3>3. (CHOOSE j \in DOMAIN alts : i \in alts[j].right .. alts[j].left) = k
      BY <1>2, <3>1, <3>2
    <3>4. k + off \in lasts(i)
      <4>1. k + off \in 1 .. Len(alts) + off
        BY <1>2, <1>5
      <4>2. has(calls[k + off], i)
        BY <1>2, <1>4, <1>6, <2>1, <3>1
      <4> QED
        BY <1>8, <4>1, <4>2
    <3>5. \A j \in lasts(i) : j \in Int /\ j <= k + off
      <4> SUFFICES ASSUME NEW j \in lasts(i) PROVE j \in Int /\ j <= k + off
        OBVIOUS
      <4>1. j \in 1 .. Len(alts) + off /\ has(calls[j], i)
        BY <1>8
      <4>2. CASE j - off \in 1 .. Len(alts)
        <5>1. calls[j] = alts[j - off]
          <6>1. (j - off) + off = j
            BY <1>2, <1>5, <4>1
          <6>2. calls[(j - off) + off] = alts[j - off]
            BY <1>6, <4>2
          <6> QED
            BY <6>1, <6>2
        <5>2. j - off = k
          BY <1>2, <1>4, <2>1, <3>2, <4>1, <4>2, <5>1
        <5> QED
          BY <1>2, <1>5, <4>1, <5>2
      <4>3. CASE j - off \notin 1 .. Len(alts)
        BY <1>2, <1>5, <4>1, <4>3
      <4> QED
        BY <4>2, <4>3
    <3>6. Moving!Max(lasts(i)) = k + off
      <4>1. \A j \in lasts(i) : k + off >= j
        BY <1>5, <3>5
      <4>2. ASSUME NEW x \in lasts(i), \A y \in lasts(i) : x >= y PROVE x = k + off
        <5>1. x >= k + off /\ x <= k + off /\ x \in Int /\ k + off \in Int
          BY <1>2, <1>5, <3>4, <3>5, <4>2
        <5> QED
          BY <5>1
      <4> QED
        BY <3>4, <4>1, <4>2 DEF Moving!Max
    <3> QED
      <4>1. calls[k + off] = alts[k] /\ lasts(i) # {}
        BY <1>6, <3>4
      <4> QED
        BY <2>2, <3>3, <3>6, <4>1
  <2>3. CASE ~\E k \in DOMAIN alts : i \in alts[k].right .. alts[k].left
    <3>1. \A j \in lasts(i) : off = 1 /\ j = 1
      <4> SUFFICES ASSUME NEW j \in lasts(i) PROVE off = 1 /\ j = 1
        OBVIOUS
      <4>1. j \in 1 .. Len(alts) + off /\ has(calls[j], i)
        BY <1>8
      <4>2. j - off \notin 1 .. Len(alts)
        <5> SUFFICES ASSUME j - off \in 1 .. Len(alts) PROVE FALSE
          OBVIOUS
        <5>1. calls[j] = alts[j - off]
          <6>1. (j - off) + off = j
            BY <1>2, <1>5, <4>1
          <6>2. calls[(j - off) + off] = alts[j - off]
            BY <1>6
          <6> QED
            BY <6>1, <6>2
        <5> QED
          BY <1>2, <1>4, <2>1, <2>3, <4>1, <5>1
      <4> QED
        BY <1>2, <1>5, <4>1, <4>2
    <3>2. CASE off = 0
      <4>1. lasts(i) = {}
        BY <3>1, <3>2
      <4>2. m.others = Moving!NoElement
        BY <1>5, <3>2
      <4> QED
        BY <2>3, <4>1, <4>2
    <3>3. CASE off = 1
      <4>1. 1 \in lasts(i)
        <5>1. 1 \in 1 .. Len(alts) + off
          BY <1>2, <3>3
        <5>2. calls[1].left = m.size - 1 /\ calls[1].right = 0
          BY <1>7, <3>3
        <5> QED
          BY <1>8, <2>1, <5>1, <5>2 DEF has
      <4>2. lasts(i) = {1}
        BY <3>1, <4>1
      <4>3. Moving!Max({1}) = 1
        BY DEF Moving!Max
      <4>4. calls[1].value = m.others
        BY <1>7, <3>3
      <4> QED
        BY <2>3, <4>2, <4>3, <4>4
    <3> QED
      BY <1>5, <3>2, <3>3
  <2> QED
    BY <2>2, <2>3
<1>10. Moving!Aggregate(m.size, calls)
        = [i \in 0 .. m.size - 1 |->
             IF lasts(i) = {} THEN Moving!NoElement ELSE calls[Moving!Max(lasts(i))].value]
  BY DEF Moving!Aggregate, has, lasts
<1>11. Moving!Meant(m)
        = [i \in 0 .. m.size - 1 |->
             IF \E k \in DOMAIN alts : i \in alts[k].right .. alts[k].left
             THEN alts[CHOOSE k \in DOMAIN alts : i \in alts[k].right .. alts[k].left].value
             ELSE m.others]
  BY DEF Moving!Meant, alts
<1> DEFINE ran(i) == IF lasts(i) = {} THEN Moving!NoElement
                     ELSE calls[Moving!Max(lasts(i))].value
           meant(i) == IF \E k \in DOMAIN alts : i \in alts[k].right .. alts[k].left
                       THEN alts[CHOOSE k \in DOMAIN alts : i \in alts[k].right .. alts[k].left].value
                       ELSE m.others
<1>12. \A i \in 0 .. m.size - 1 : ran(i) = meant(i)
  BY <1>9
<1>13. Moving!Aggregate(m.size, calls) = [i \in 0 .. m.size - 1 |-> ran(i)]
  BY <1>10
<1>14. Moving!Meant(m) = [i \in 0 .. m.size - 1 |-> meant(i)]
  BY <1>11
<1> HIDE DEF ran, meant
<1> QED
  BY ONLY <1>12, <1>13, <1>14

LEMMA HifAssignRight ==
  ASSUME NEW m, Moving!WellFormed(m), m.kind = "assign", Moving!Arrays(m)
  PROVE  Moving!HifAssign(m, m.left, m.right) = Moving!Meant(m)
<1>1. Moving!HifAssign(m, m.left, m.right)
        = Moving!Elements(m.old, m.source, Moving!MinBound(m.left, m.right))
  BY DEF Moving!HifAssign, Moving!Arrays
<1>2. CASE Moving!Sliced(m)
  <2>1. m.left \in Nat /\ m.right \in Nat /\ m.right <= m.left
    <3>1. Moving!Size(m.old) \in Nat /\ m.left \in 0 .. Moving!Size(m.old) - 1 /\ m.right \in 0 .. m.left
      BY <1>2 DEF Moving!WellFormed, Moving!Indexed, Moving!Within, Moving!Sliced
    <3> QED
      BY <3>1
  <2>2. Moving!MinBound(m.left, m.right) = m.right
    BY <2>1 DEF Moving!MinBound, Moving!Unbounded
  <2> QED
    BY <1>1, <1>2, <2>2, ElementsRight
<1>3. CASE ~Moving!Sliced(m)
  <2>1. m.left = -1 /\ m.right = -1
    <3>1. m.left = Moving!Unbounded
      BY <1>3 DEF Moving!Sliced
    <3>2. ~Moving!Within(m.left, m.right, Moving!Size(m.old))
      BY <3>1 DEF Moving!Within, Moving!Unbounded
    <3> QED
      BY <3>1, <3>2 DEF Moving!WellFormed, Moving!Unbounded
  <2>2. Moving!MinBound(m.left, m.right) = 0
    BY <2>1 DEF Moving!MinBound, Moving!Unbounded
  <2> QED
    BY <1>1, <1>3, <2>2, WholeRight
<1> QED
  BY <1>2, <1>3

-----------------------------------------------------------------------------
(* The forms there are for a move of each kind. *)
AssignForm(m, f) ==
  LET with(fn) == f = Moving!Form(fn, m.left, m.right) IN
  \/ m.to = "int" /\ Moving!Sliced(m) /\ with("masks")
  \/ m.to # "int" /\ with("hif_assign")
  \/ m.to # "int" /\ with("range")
  \/ m.to # "int" /\ Moving!Sliced(m) /\ (with("replace") \/ with("set_range"))
SliceForm(m, f) ==
  /\ f.left = m.left /\ f.right = m.right
  /\ f.fn \in {"substr", "range", "hif_vector_slice"}
ConcatForm(f) == f.fn \in {"concatArrays", "concatArrayWithValue", "concatValueWithArray"}
AggregateForm(m, f) ==
  /\ f.fn = "aggregate"
  /\ f.calls = (IF m.others = Moving!NoElement THEN <<>>
                ELSE <<[left |-> m.size - 1, right |-> 0, value |-> m.others]>>) \o m.alts
Chosen(m, f) ==
  \/ m.kind = "assign" /\ AssignForm(m, f)
  \/ m.kind = "slice" /\ SliceForm(m, f)
  \/ m.kind = "concat" /\ ConcatForm(f)
  \/ m.kind = "aggregate" /\ AggregateForm(m, f)

(* The inductive invariant. *)
MoveInv ==
  /\ move \in Moves
  /\ form # Moving!NoForm => Chosen(move, form)
  /\ moved # Moving!NotYet => form # Moving!NoForm /\ SameMove

LEMMA Translates ==
  ASSUME MoveInv, Moving!Translate
  PROVE  MoveInv'
<1>1. move \in Moves /\ Moving!WellFormed(move) /\ form = Moving!NoForm /\ moved = Moving!NotYet
      /\ UNCHANGED <<move, hdtlib, moved>>
  <2>1. move \in Moves /\ form = Moving!NoForm /\ UNCHANGED <<move, hdtlib, moved>>
    BY DEF MoveInv, Moving!Translate, Moving!FixAssignToIntSlice, Moving!ManageAssignToSlice,
       Moving!ManageAssignBetweenArrays, Moving!ManageAssignToStringSlice,
       Moving!ManageHdtlibSliceAssign, Moving!KeepAssign, Moving!FixSlice, Moving!FixArraySlice,
       Moving!FixArrayConcat, Moving!ManageAggregateArray, Moving!Todo
  <2> QED
    BY <2>1, MovesAssumption DEF MoveInv
<1>2. /\ move.kind = "assign" /\ move.to = "int" => move.from = "packed" /\ Moving!Sliced(move)
      /\ move.kind = "assign" /\ ~Moving!Sliced(move) => move.to \in {"packed", "array"}
  <2>1. move.kind = "assign" /\ ~Moving!Sliced(move) => move.to \in {"packed", "array"}
    BY <1>1 DEF Moving!WellFormed, Moving!Within, Moving!Sliced, Moving!Unbounded
  <2> QED
    BY <1>1, <2>1 DEF Moving!WellFormed
<1>3. Chosen(move, form')
  <2>1. CASE Moving!FixAssignToIntSlice
    BY <2>1 DEF Moving!FixAssignToIntSlice, Moving!Todo, Chosen, AssignForm
  <2>2. CASE Moving!ManageAssignToSlice
    BY <2>2 DEF Moving!ManageAssignToSlice, Moving!Todo, Moving!ToSliceApplies, Chosen, AssignForm
  <2>3. CASE Moving!ManageAssignBetweenArrays
    BY <1>2, <2>3 DEF Moving!ManageAssignBetweenArrays, Moving!Todo, Moving!ArraysApplies, Moving!Arrays,
       Chosen, AssignForm
  <2>4. CASE Moving!ManageAssignToStringSlice
    BY <2>4 DEF Moving!ManageAssignToStringSlice, Moving!Todo, Chosen, AssignForm
  <2>5. CASE Moving!ManageHdtlibSliceAssign
    BY <2>5 DEF Moving!ManageHdtlibSliceAssign, Moving!Todo, Chosen, AssignForm
  <2>6. CASE Moving!KeepAssign
    BY <1>2, <2>6 DEF Moving!KeepAssign, Moving!Todo, Chosen, AssignForm
  <2>7. CASE Moving!FixSlice
    BY <2>7 DEF Moving!FixSlice, Moving!Todo, Moving!Form, Chosen, SliceForm
  <2>8. CASE Moving!FixArraySlice
    BY <2>8 DEF Moving!FixArraySlice, Moving!Todo, Moving!Form, Chosen, SliceForm
  <2>9. CASE Moving!FixArrayConcat
    BY <2>9 DEF Moving!FixArrayConcat, Moving!Todo, Chosen, ConcatForm
  <2>10. CASE Moving!ManageAggregateArray
    BY <2>10 DEF Moving!ManageAggregateArray, Moving!Todo, Chosen, AggregateForm
  <2> QED
    BY <2>1, <2>2, <2>3, <2>4, <2>5, <2>6, <2>7, <2>8, <2>9, <2>10 DEF Moving!Translate
<1> QED
  BY <1>1, <1>3 DEF MoveInv

(* What a form gives is what the move means, but where the library is      *)
(* known to do otherwise.                                                  *)
LEMMA Runs ==
  ASSUME MoveInv, Moving!Run
  PROVE  MoveInv'
<1>1. /\ move \in Moves /\ Moving!WellFormed(move) /\ form # Moving!NoForm
      /\ UNCHANGED <<move, hdtlib, form>> /\ Chosen(move, form)
  BY MovesAssumption DEF MoveInv, Moving!Run
<1>2. ASSUME ~Moving!MovedOtherwise(move) PROVE moved' = <<Moving!Meant(move)>>
  <2>1. CASE move.kind = "assign"
    <3>1. AssignForm(move, form)
      BY <1>1, <2>1 DEF Chosen
    <3>2. CASE form.fn = "masks"
      <4>1. move.to = "int" /\ Moving!Sliced(move) /\ form.left = move.left /\ form.right = move.right
        BY <3>1, <3>2 DEF AssignForm, Moving!Form
      <4>2. \E out : moved' = <<Moving!Masks(move.old, move.source, move.left, move.right, out)>>
        BY <3>2, <4>1 DEF Moving!Run
      <4>3. move.right # 0 /\ move.left # Moving!Size(move.old) - 1
        BY <1>2, <3>2 DEF Moving!MovedOtherwise
      <4> QED
        BY <1>1, <2>1, <4>1, <4>2, <4>3, MasksRight
    <3>3. CASE form.fn = "hif_assign"
      <4>1. moved' = <<Moving!HifAssign(move, move.left, move.right)>>
        BY <3>1, <3>3 DEF AssignForm, Moving!Form, Moving!Run
      <4>2. Moving!Arrays(move)
        BY <1>2, <3>3 DEF Moving!MovedOtherwise
      <4> QED
        BY <1>1, <2>1, <4>1, <4>2, HifAssignRight
    <3>4. CASE form.fn = "range"
      <4>1. moved' = <<IF Moving!Sliced(move) THEN Moving!Elements(move.old, move.source, move.right)
                       ELSE Moving!Resize(move.source, Moving!Size(move.old))>>
        BY <2>1, <3>1, <3>4 DEF AssignForm, Moving!Form, Moving!Run
      <4> QED
        BY <1>1, <2>1, <4>1, ElementsRight, WholeRight
    <3>5. CASE form.fn = "set_range"
      <4>1. moved' = <<Moving!Elements(move.old, move.source, move.right)>> /\ Moving!Sliced(move)
        BY <3>1, <3>5 DEF AssignForm, Moving!Form, Moving!Run
      <4> QED
        BY <1>1, <2>1, <4>1, ElementsRight
    <3>6. CASE form.fn = "replace"
      <4>1. moved' = <<Moving!Elements(move.old, move.source, move.left)>> /\ Moving!Sliced(move)
        BY <3>1, <3>6 DEF AssignForm, Moving!Form, Moving!Run
      <4>2. move.left = move.right
        BY <1>2, <3>6 DEF Moving!MovedOtherwise
      <4> QED
        BY <1>1, <2>1, <4>1, <4>2, ElementsRight
    <3> QED
      BY <3>1, <3>2, <3>3, <3>4, <3>5, <3>6 DEF AssignForm, Moving!Form
  <2>2. CASE move.kind = "slice"
    <3>1. SliceForm(move, form)
      BY <1>1, <2>2 DEF Chosen
    <3>2. \/ moved' = <<Moving!BitsFrom(move.source, move.left, move.right)>>
          \/ moved' = <<Moving!HifVectorSlice(move.source, move.left, move.right)>>
      BY <2>2, <3>1 DEF SliceForm, Moving!Run
    <3> QED
      BY <1>1, <2>2, <3>2, SliceRight
  <2>3. CASE move.kind = "concat"
    <3>1. ConcatForm(form)
      BY <1>1, <2>3 DEF Chosen
    <3>2. moved' = <<Moving!Concat(Moving!AsArray(move.type1, move.one), Moving!AsArray(move.type2, move.two))>>
      BY <3>1 DEF ConcatForm, Moving!Run
    <3> QED
      BY <1>1, <2>3, <3>2, ConcatRight
  <2>4. CASE move.kind = "aggregate"
    <3>1. AggregateForm(move, form)
      BY <1>1, <2>4 DEF Chosen
    <3>2. moved' = <<Moving!Aggregate(move.size, form.calls)>>
      BY <3>1 DEF AggregateForm, Moving!Run
    <3>3. Moving!Aggregate(move.size, form.calls) = Moving!Meant(move)
      BY <1>1, <2>4, <3>1, AggregateRight DEF AggregateForm
    <3> QED
      BY <3>2, <3>3
  <2> QED
    BY <1>1, <2>1, <2>2, <2>3, <2>4 DEF Chosen
<1>3. SameMove'
  <2>1. Moving!MovedOtherwise(move)' <=> Moving!MovedOtherwise(move)
    BY <1>1 DEF Moving!MovedOtherwise
  <2>2. Moving!Meant(move)' = Moving!Meant(move)
    BY <1>1
  <2> QED
    BY <1>2, <2>1, <2>2 DEF SameMove, Moving!SameMove
<1> QED
  BY <1>1, <1>3 DEF MoveInv

(* Every move of HIF's that is well formed puts each element where HIF     *)
(* says, whatever the sizes of its vectors and whichever form it is given  *)
(* (PreRefine_utilityLibraries.cpp:1146-2064, hif_assign.i.hpp).           *)
THEOREM MovesCorrect == Moving!Spec => []SameMove
<1>1. Moving!Init => MoveInv
  BY DEF Moving!Init, MoveInv
<1>2. MoveInv /\ [Moving!Next]_(Moving!vars) => MoveInv'
  <2> SUFFICES ASSUME MoveInv, [Moving!Next]_(Moving!vars) PROVE MoveInv'
    OBVIOUS
  <2>1. CASE UNCHANGED Moving!vars
    BY <2>1 DEF Moving!vars, MoveInv, SameMove, Moving!SameMove, Moving!MovedOtherwise
  <2> QED
    BY <2>1, Translates, Runs DEF Moving!Next
<1>3. MoveInv => SameMove
  BY DEF MoveInv, SameMove, Moving!SameMove
<1> QED
  BY <1>1, <1>2, <1>3, PTL DEF Moving!Spec

-----------------------------------------------------------------------------
(* What is known of bit i between two reads: how s and before compare with *)
(* prev, the value at the latest read, and that last is right when the bit *)
(* has not changed since.                                                  *)
BitInv(i) ==
  /\ changes[i] = 0 => s[i] = prev[i]
  /\ changes[i] = 1 => before[i] = prev[i] /\ s[i] # prev[i]
  /\ changes[i] = 0 /\ ~missed[i] /\ last[i] \in Known => last[i] = before[i]

LastInv(D) ==
  /\ s \in [D -> Logic] /\ prev \in [D -> Logic]
  /\ last \in [D -> Logic] /\ before \in [D -> Logic]
  /\ changes \in [D -> 0 .. 2] /\ missed \in [D -> BOOLEAN]
  /\ read => \A i \in D : changes[i] = 0
  /\ \A i \in D : BitInv(i)

-----------------------------------------------------------------------------
(* The mask for one bit: a bit that differs from the latest read takes the *)
(* value it had there, one that does not keeps its last value, and one     *)
(* that SystemC cannot compare is known only if both agree.                *)
FreshBit(x, p, l) == Or(And(p, Xor(x, p)), And(l, Not(Xor(x, p))))

LEMMA MaskType ==
  ASSUME NEW x \in Logic, NEW p \in Logic, NEW l \in Logic
  PROVE  FreshBit(x, p, l) \in Logic
BY DEF FreshBit, Or, And, Not, Xor, Bit, Logic, Known

LEMMA MaskChanged ==
  ASSUME NEW x \in Logic, NEW p \in Logic, NEW l \in Logic, x # p, FreshBit(x, p, l) \in Known
  PROVE  FreshBit(x, p, l) = p
<1>1. CASE {x, p} \subseteq Known
  <2>1. Xor(x, p) = "1"
    BY <1>1 DEF Xor, Bit
  <2>2. And(l, Not("1")) = "0" /\ And(p, "1") = p
    BY <1>1 DEF And, Not, Known
  <2>3. Or(p, "0") = p
    BY <1>1 DEF Or, And, Not, Known
  <2> QED
    BY <2>1, <2>2, <2>3 DEF FreshBit
<1>2. CASE ~({x, p} \subseteq Known)
  <2>1. Xor(x, p) = "X" /\ Not("X") = "X"
    BY <1>2 DEF Xor, Not
  <2>2. FreshBit(x, p, l) = Or(And(p, "X"), And(l, "X"))
    BY <2>1 DEF FreshBit
  <2>3. And(p, "X") = IF p = "0" THEN "0" ELSE "X"
    BY DEF And, Logic, Known
  <2>4. And(l, "X") = IF l = "0" THEN "0" ELSE "X"
    BY DEF And, Logic, Known
  <2>5. Or("X", "X") = "X" /\ Or("X", "0") = "X" /\ Or("0", "X") = "X" /\ Or("0", "0") = "0"
    BY DEF Or, And, Not
  <2> QED
    BY <2>2, <2>3, <2>4, <2>5 DEF Known
<1> QED
  BY <1>1, <1>2

LEMMA MaskKept ==
  ASSUME NEW x \in Logic, NEW l \in Logic, FreshBit(x, x, l) \in Known
  PROVE  FreshBit(x, x, l) = l
<1>1. CASE x \in Known
  <2>1. Xor(x, x) = "0"
    BY <1>1 DEF Xor, Bit
  <2>2. And(x, "0") = "0" /\ Not("0") = "1"
    BY DEF And, Not
  <2>3. And(l, "1") = IF l \in Known THEN l ELSE "X"
    BY DEF And, Logic, Known
  <2>4. Or("0", "0") = "0" /\ Or("0", "1") = "1" /\ Or("0", "X") = "X"
    BY DEF Or, And, Not
  <2>5. FreshBit(x, x, l) = Or("0", And(l, "1"))
    BY <2>1, <2>2 DEF FreshBit
  <2> QED
    BY <2>3, <2>4, <2>5 DEF Known
<1>2. CASE x \notin Known
  <2>1. Xor(x, x) = "X" /\ Not("X") = "X" /\ And(x, "X") = "X"
    BY <1>2 DEF Xor, Not, And, Known
  <2>2. And(l, "X") = IF l = "0" THEN "0" ELSE "X"
    BY DEF And, Logic, Known
  <2>3. Or("X", "X") = "X" /\ Or("X", "0") = "X"
    BY DEF Or, And, Not
  <2> QED
    BY <2>1, <2>2, <2>3 DEF FreshBit, Known
<1> QED
  BY <1>1, <1>2

LEMMA FreshIsMask ==
  ASSUME NEW D, s \in [D -> Logic], prev \in [D -> Logic], last \in [D -> Logic]
  PROVE  /\ Lasting!Fresh \in [D -> Logic]
         /\ \A i \in D : Lasting!Fresh[i] = FreshBit(s[i], prev[i], last[i])
<1>1. Lasting!Fresh =
        [i \in D |-> Lasting!Or(Lasting!And(prev[i], Lasting!Xor(s[i], prev[i])),
                                Lasting!And(last[i], Lasting!Not(Lasting!Xor(s[i], prev[i]))))]
  BY DEF Lasting!Fresh, Lasting!OnBits
<1>2. \A a, b : Lasting!Xor(a, b) = Xor(a, b)
  BY DEF Lasting!Xor, Xor, Lasting!Bit, Bit, Lasting!Known, Known
<1>3. \A a : Lasting!Not(a) = Not(a)
  BY DEF Lasting!Not, Not
<1>4. \A a, b : Lasting!And(a, b) = And(a, b)
  BY DEF Lasting!And, And
<1>5. \A a, b : Lasting!Or(a, b) = Or(a, b)
  BY <1>3, <1>4 DEF Lasting!Or, Or
<1>6. Lasting!Fresh = [i \in D |-> FreshBit(s[i], prev[i], last[i])]
  BY <1>1, <1>2, <1>3, <1>4, <1>5 DEF FreshBit
<1> QED
  BY <1>6, MaskType

-----------------------------------------------------------------------------
LEMMA InitInv ==
  ASSUME NEW D, Values \subseteq [D -> Logic], Lasting!Init
  PROVE  LastInv(D)
BY DEF Lasting!Init, LastInv, BitInv

LEMMA ChangeInv ==
  ASSUME NEW D, Values \subseteq [D -> Logic], LastInv(D), Lasting!Change
  PROVE  LastInv(D)'
<1>1. PICK v \in Values \ {s} :
        LET flips == {i \in DOMAIN s : v[i] # s[i]} IN
        /\ s' = v
        /\ before' = [i \in DOMAIN s |-> IF i \in flips THEN s[i] ELSE before[i]]
        /\ changes' = [i \in DOMAIN s |-> IF i \in flips THEN Lasting!Min({changes[i] + 1, 2}) ELSE changes[i]]
  BY DEF Lasting!Change
<1>2. /\ s \in [D -> Logic] /\ s' \in [D -> Logic] /\ before \in [D -> Logic]
      /\ changes \in [D -> 0 .. 2] /\ UNCHANGED <<last, prev, missed>> /\ ~read'
  BY <1>1 DEF LastInv, Lasting!Change
<1>3. \A k \in 0 .. 2 : Lasting!Min({k + 1, 2}) = IF k = 0 THEN 1 ELSE 2
  BY DEF Lasting!Min
<1>4. /\ before' = [i \in D |-> IF s'[i] # s[i] THEN s[i] ELSE before[i]]
      /\ changes' = [i \in D |-> IF s'[i] # s[i] THEN IF changes[i] = 0 THEN 1 ELSE 2 ELSE changes[i]]
  BY <1>1, <1>2, <1>3
<1>5. before' \in [D -> Logic] /\ changes' \in [D -> 0 .. 2]
  BY <1>2, <1>4
<1>6. ASSUME NEW i \in D PROVE BitInv(i)'
  <2>1. /\ BitInv(i)
        /\ before'[i] = IF s'[i] # s[i] THEN s[i] ELSE before[i]
        /\ changes'[i] = IF s'[i] # s[i] THEN IF changes[i] = 0 THEN 1 ELSE 2 ELSE changes[i]
        /\ changes[i] \in 0 .. 2
    BY <1>2, <1>4 DEF LastInv
  <2> QED
    BY <1>2, <2>1 DEF BitInv
<1> QED
  BY <1>2, <1>5, <1>6 DEF LastInv

LEMMA ReadInv ==
  ASSUME NEW D, LastInv(D), Lasting!HifLastValue
  PROVE  LastInv(D)'
<1>1. /\ s \in [D -> Logic] /\ prev \in [D -> Logic] /\ last \in [D -> Logic]
      /\ changes \in [D -> 0 .. 2] /\ missed \in [D -> BOOLEAN]
  BY DEF LastInv
<1>2. /\ last' = IF s # prev THEN Lasting!Fresh ELSE last
      /\ prev' = s /\ UNCHANGED <<s, before>>
      /\ missed' = [i \in D |-> IF changes[i] = 0 THEN missed[i] ELSE changes[i] = 2]
      /\ changes' = [i \in D |-> 0]
  BY <1>1 DEF Lasting!HifLastValue
<1>3. last' \in [D -> Logic]
  BY <1>1, <1>2, FreshIsMask
<1>4. missed' \in [D -> BOOLEAN]
  BY <1>1, <1>2
<1>5. ASSUME NEW i \in D, ~missed'[i], last'[i] \in Known
      PROVE  last'[i] = before[i]
  <2>1. BitInv(i) /\ changes[i] \in 0 .. 2
    BY <1>1 DEF LastInv
  <2>2. changes[i] # 2
    <3>1. missed'[i] = IF changes[i] = 0 THEN missed[i] ELSE changes[i] = 2
      BY <1>2, Zenon
    <3>2. changes[i] = 2 => changes[i] # 0
      OBVIOUS
    <3>3. changes[i] = 2 => missed'[i] = (changes[i] = 2)
      BY <3>1, <3>2, Zenon
    <3> QED
      BY <1>5, <3>3, Zenon
  <2>3. CASE changes[i] = 1
    <3>1. before[i] = prev[i] /\ s[i] # prev[i] /\ s # prev
      BY <2>1, <2>3 DEF BitInv
    <3>2. last'[i] = FreshBit(s[i], prev[i], last[i])
      BY <1>1, <1>2, <3>1, FreshIsMask
    <3> QED
      BY <1>1, <1>5, <3>1, <3>2, MaskChanged
  <2>4. CASE changes[i] = 0
    <3>1. s[i] = prev[i] /\ ~missed[i] /\ (last[i] \in Known => last[i] = before[i])
      BY <1>2, <1>5, <2>1, <2>4 DEF BitInv
    <3>2. CASE s # prev
      <4>1. last'[i] = FreshBit(s[i], s[i], last[i])
        BY <1>1, <1>2, <3>1, <3>2, FreshIsMask
      <4>2. last'[i] = last[i]
        BY <1>1, <1>5, <4>1, MaskKept
      <4> QED
        BY <1>5, <3>1, <4>2
    <3>3. CASE s = prev
      BY <1>2, <1>5, <3>1, <3>3
    <3> QED
      BY <3>2, <3>3
  <2> QED
    BY <2>1, <2>2, <2>3, <2>4
<1>6. \A i \in D : BitInv(i)'
  BY <1>2, <1>5 DEF BitInv
<1> QED
  BY <1>1, <1>2, <1>3, <1>4, <1>6 DEF LastInv

LEMMA StepInv ==
  ASSUME NEW D, Values \subseteq [D -> Logic], LastInv(D), [Lasting!Next]_(Lasting!vars)
  PROVE  LastInv(D)'
<1>1. CASE UNCHANGED Lasting!vars
  BY <1>1 DEF Lasting!vars, LastInv, BitInv
<1> QED
  BY <1>1, ChangeInv, ReadInv DEF Lasting!Next

(* Whatever the width of the signal and however its bits change together   *)
(* or apart: a bit that a read of 'last_value gives as 0 or 1 is the value *)
(* before the bit's latest change, unless that change was not its only one *)
(* since the read before.                                                  *)
THEOREM LastValueCorrect ==
  ASSUME NEW CONSTANT D, Values \subseteq [D -> Logic]
  PROVE  Lasting!Spec => []LastValueRight
<1>1. LastInv(D) => LastValueRight
  BY DEF LastInv, BitInv, LastValueRight, Lasting!LastValueRight, Lasting!Known, Known
<1>2. Lasting!Init => LastInv(D)
  BY InitInv
<1>3. LastInv(D) /\ [Lasting!Next]_(Lasting!vars) => LastInv(D)'
  BY StepInv
<1> QED
  BY <1>1, <1>2, <1>3, PTL DEF Lasting!Spec
===============================================================================
