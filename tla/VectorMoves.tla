------------------------------- MODULE VectorMoves -------------------------------
(***************************************************************************)
(* How hif2sc moves the elements of vectors, arrays and strings (hif2sc,   *)
(* PreRefine_utilityLibraries and PreRefine_misc): slices, aggregates,     *)
(* concatenations and assignments, each of which becomes a call of         *)
(* hif2scSupport or stays an operation of SystemC's vectors.  What is      *)
(* written is then run.                                                    *)
(*                                                                         *)
(* Spans were rebased to X downto 0 by an earlier step.  A vector is       *)
(* "packed" (a bit or logic vector), an "array", an "int" or a "string";   *)
(* its elements are opaque.  Slices of slices are left out.                *)
(***************************************************************************)
EXTENDS LogicVectors, Sequences

CONSTANTS
  Moves,    \* [kind, ...]: see the kinds below
  Hdtlib    \* the values --hdtlib may have

VARIABLES
  move,     \* the move, as HIF has it
  hdtlib,   \* useHDTLib()
  form,     \* what is written for it, NoForm before
  moved     \* <<the target, or the value of an expression>>, NotYet before

vars == <<move, hdtlib, form, moved>>

NoForm == [fn |-> "none"]
NotYet == <<>>
NoElement == "none"
Form(fn, left, right) == [fn |-> fn, left |-> left, right |-> right]
Unbounded == -1

(* What HIF's own checks leave: bounds in range, operands of the size of   *)
(* what they are assigned to, and alternatives that do not overlap.        *)
Indexed(v) == Size(v) \in Nat /\ DOMAIN v = 0 .. Size(v) - 1 /\ v = [i \in DOMAIN v |-> v[i]]
Within(left, right, n) == left \in 0 .. n - 1 /\ right \in 0 .. left
WellFormed(m) ==
  /\ m.kind \in {"assign", "slice", "concat", "aggregate"}
  /\ m.kind = "assign" =>
       /\ Indexed(m.old) /\ Indexed(m.source)
       /\ \/ m.left = Unbounded /\ m.right = Unbounded /\ Size(m.source) = Size(m.old)
             /\ m.to \in {"packed", "array"}
          \/ Within(m.left, m.right, Size(m.old)) /\ Size(m.source) = m.left - m.right + 1
       /\ m.to = "int" => m.from = "packed" /\ Is01(m.old) /\ Is01(m.source)
  /\ m.kind = "slice" => Indexed(m.source) /\ Within(m.left, m.right, Size(m.source))
  /\ m.kind = "concat" =>
       /\ "array" \in {m.type1, m.type2}
       /\ (m.type1 = "array" => Indexed(m.one)) /\ (m.type2 = "array" => Indexed(m.two))
  /\ m.kind = "aggregate" =>
       /\ m.size \in Nat /\ m.alts \in Seq({m.alts[k] : k \in DOMAIN m.alts})
       /\ \A k \in DOMAIN m.alts : Within(m.alts[k].left, m.alts[k].right, m.size)
       /\ \A j, k \in DOMAIN m.alts :
            j # k => (m.alts[j].right .. m.alts[j].left) \cap (m.alts[k].right .. m.alts[k].left) = {}

-----------------------------------------------------------------------------
(* "assign": source, of type from, to a target of type to, which is a      *)
(* signal or not, or to its slice left downto right.                       *)
Todo(kind, applies) ==
  form = NoForm /\ move.kind = kind /\ applies /\ UNCHANGED <<move, hdtlib, moved>>
Sliced(m) == m.left # Unbounded
Arrays(m) == "array" \in {m.from, m.to}

\* PreRefine_misc comes first and takes the slices of integers.
FixAssignToIntSlice ==
  /\ Todo("assign", move.to = "int" /\ Sliced(move))
  /\ form' = Form("masks", move.left, move.right)

\* A slice of a signal or port, whatever its type and that of the source.
ToSliceApplies(m) == ~hdtlib /\ Sliced(m) /\ m.signal /\ m.to # "int"
ManageAssignToSlice ==
  /\ Todo("assign", ToSliceApplies(move))
  /\ form' = Form("hif_assign", move.left, move.right)
\* Two packed vectors, or one and an integer, are left to SystemC.
ArraysApplies(m) == ~ToSliceApplies(m) /\ Arrays(m)
ManageAssignBetweenArrays ==
  /\ Todo("assign", ArraysApplies(move))
  /\ form' = Form("hif_assign", move.left, move.right)
ManageAssignToStringSlice ==
  /\ Todo("assign", ~ToSliceApplies(move) /\ move.to = "string" /\ Sliced(move))
  /\ form' = Form("replace", move.left, move.right)
ManageHdtlibSliceAssign ==
  /\ Todo("assign", hdtlib /\ ~ArraysApplies(move) /\ Sliced(move) /\ move.to = "packed")
  /\ form' = Form("set_range", move.left, move.right)
KeepAssign ==
  /\ Todo("assign", /\ ~ToSliceApplies(move) /\ ~ArraysApplies(move)
                    /\ Sliced(move) => move.to = "packed" /\ ~hdtlib)
  /\ form' = Form("range", move.left, move.right)

\* "slice": left downto right of source, an expression
FixSlice ==
  /\ Todo("slice", move.from # "array")
  /\ form' = IF move.from = "string" THEN Form("substr", move.left, move.right)
             ELSE Form("range", move.left, move.right)
FixArraySlice ==
  /\ Todo("slice", move.from = "array")
  /\ form' = Form("hif_vector_slice", move.left, move.right)
\* "concat": one and two, each an array or one of its elements
FixArrayConcat ==
  /\ Todo("concat", "array" \in {move.type1, move.type2})
  /\ form' = [fn |-> IF {move.type1, move.type2} = {"array"} THEN "concatArrays"
                     ELSE IF move.type1 = "array" THEN "concatArrayWithValue"
                     ELSE "concatValueWithArray"]
\* "aggregate": of size elements, others, and alternatives [left, right, value]
ManageAggregateArray ==
  /\ Todo("aggregate", TRUE)
  /\ form' = [fn |-> "aggregate",
              calls |-> (IF move.others = NoElement THEN <<>>
                         ELSE <<[left |-> move.size - 1, right |-> 0, value |-> move.others]>>)
                        \o move.alts]

-----------------------------------------------------------------------------
(* What the calls do. *)
\* Mutant: from the left bound.
LeftBound(left, right) == IF left = Unbounded THEN 0 ELSE left
MinBound(left, right) ==
  LET l == IF left = Unbounded THEN 0 ELSE left
  IN IF right = Unbounded \/ l < right THEN l ELSE right
\* target[i + min] = source[i], for the elements of the smaller of the two
Elements(target, source, min) ==
  [i \in DOMAIN target |-> IF i - min \in DOMAIN source THEN source[i - min] ELSE target[i]]
\* A vector and a vector are assigned as a whole: T(source).
HifAssign(m, left, right) ==
  IF "array" \in {m.from, m.to} THEN Elements(m.old, m.source, MinBound(left, right))
  ELSE Resize(m.source, Size(m.old))

\* a & 11..00..11 | b << right & 00..11..00, in an integer of n bits.  A shift by n
\* is undefined in C++: shiftedOut is one of the results it may have.
Masks(old, source, left, right, shiftedOut) ==
  LET n == Size(old)
      leftShift == IF left + 1 = n THEN shiftedOut ELSE ShiftLeft(All(n, "1"), left + 1)
      rightShift == IF right = 0 THEN shiftedOut ELSE ShiftRight(All(n, "1"), n - right)
      mask_101 == OnBits(Or, leftShift, rightShift)
      mask_010 == [i \in DOMAIN mask_101 |-> Not(mask_101[i])]
  IN OnBits(Or, OnBits(And, old, mask_101),
                OnBits(And, ShiftLeft(Resize(source, n), right), mask_010))

HifVectorSlice(v, left, right) ==
  IF right >= 0 /\ right <= left /\ left < Size(v) THEN BitsFrom(v, left, right) ELSE Abort
\* pairs are written in order, over the others
Aggregate(n, calls) ==
  [i \in 0 .. n - 1 |->
     LET last == {k \in DOMAIN calls : calls[k].right <= i /\ i <= calls[k].left}
     IN IF last = {} THEN NoElement ELSE calls[Max(last)].value]
Concat(v, w) == [i \in 0 .. Size(v) + Size(w) - 1 |-> IF i < Size(v) THEN v[i] ELSE w[i - Size(v)]]
AsArray(type, v) == IF type = "array" THEN v ELSE [i \in {0} |-> v]

Run ==
  /\ form # NoForm /\ moved = NotYet
  /\ \/ form.fn = "hif_assign" /\ moved' = <<HifAssign(move, form.left, form.right)>>
     \/ /\ form.fn = "masks"
        /\ \E out \in {All(Size(move.old), b) : b \in Known} :
             moved' = <<Masks(move.old, move.source, form.left, form.right, out)>>
     \/ /\ form.fn = "range" /\ move.kind = "assign"
        /\ moved' = <<IF Sliced(move) THEN Elements(move.old, move.source, form.right)
                      ELSE Resize(move.source, Size(move.old))>>
     \/ form.fn = "set_range" /\ moved' = <<Elements(move.old, move.source, form.right)>>
     \* std::string counts from the left and is cut where it ends
     \/ form.fn = "replace" /\ moved' = <<Elements(move.old, move.source, form.left)>>
     \/ /\ form.fn \in {"range", "substr"} /\ move.kind = "slice"
        /\ moved' = <<BitsFrom(move.source, form.left, form.right)>>
     \/ form.fn = "hif_vector_slice" /\ moved' = <<HifVectorSlice(move.source, form.left, form.right)>>
     \/ /\ form.fn \in {"concatArrays", "concatArrayWithValue", "concatValueWithArray"}
        /\ moved' = <<Concat(AsArray(move.type1, move.one), AsArray(move.type2, move.two))>>
     \/ form.fn = "aggregate" /\ moved' = <<Aggregate(move.size, form.calls)>>
  /\ UNCHANGED <<move, hdtlib, form>>

Init == move \in Moves /\ hdtlib \in Hdtlib /\ form = NoForm /\ moved = NotYet
Translate ==
  \/ FixAssignToIntSlice \/ ManageAssignToSlice \/ ManageAssignBetweenArrays
  \/ ManageAssignToStringSlice \/ ManageHdtlibSliceAssign \/ KeepAssign
  \/ FixSlice \/ FixArraySlice \/ FixArrayConcat \/ ManageAggregateArray
Next == Translate \/ Run
Spec == Init /\ [][Next]_vars

-----------------------------------------------------------------------------
(* What a move means, by the indices of HIF. *)
Meant(m) ==
  CASE m.kind = "assign" ->
         [i \in DOMAIN m.old |->
            IF ~Sliced(m) THEN m.source[i]
            ELSE IF i \in m.right .. m.left THEN m.source[i - m.right] ELSE m.old[i]]
    [] m.kind = "slice" -> [i \in 0 .. m.left - m.right |-> m.source[i + m.right]]
    [] m.kind = "concat" ->
         LET v == AsArray(m.type1, m.one)
             w == AsArray(m.type2, m.two)
         IN [i \in 0 .. Size(v) + Size(w) - 1 |-> IF i \in DOMAIN v THEN v[i] ELSE w[i - Size(v)]]
    [] m.kind = "aggregate" ->
         [i \in 0 .. m.size - 1 |->
            IF \E k \in DOMAIN m.alts : i \in m.alts[k].right .. m.alts[k].left
            THEN m.alts[CHOOSE k \in DOMAIN m.alts : i \in m.alts[k].right .. m.alts[k].left].value
            ELSE m.others]
\* What the library is known to do otherwise: a packed signal is overwritten as a whole when
\* a slice of it is assigned a packed vector; the masks of an integer shift by its width for
\* a slice that has its first or last bit; a string is replaced from the left bound on.
MovedOtherwise(m) ==
  \/ form.fn = "hif_assign" /\ ~Arrays(m)
  \/ form.fn = "masks" /\ (m.right = 0 \/ m.left = Size(m.old) - 1)
  \/ form.fn = "replace" /\ m.left # m.right

(* Every element lands where HIF says and the others of the target are     *)
(* kept, whatever the form (PreRefine_utilityLibraries.cpp:1146-2064,      *)
(* hif_assign.i.hpp, hif_vector_slice.i.hpp).                              *)
SameMove == moved # NotYet /\ ~MovedOtherwise(move) => moved[1] = Meant(move)
===============================================================================
