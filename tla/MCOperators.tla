------------------------------- MODULE MCOperators -------------------------------
(***************************************************************************)
(* The three things hif2sc and its library do to the values of a design:   *)
(* the operators, the moves of elements and 'last_value.  They share no    *)
(* state, so a behaviour is of one of them, chosen first.                  *)
(*                                                                         *)
(* Operators: vectors of two bits with metavalues, and of two and three    *)
(* bits without; every operator on every pair of types it is translated    *)
(* for, on SystemC's vectors and on hdtlib's.  Moves: targets of three     *)
(* elements, every slice.  'last_value: two bits, 0, 1 or X.               *)
(***************************************************************************)
EXTENDS Operators

VARIABLE part

MCType(k, signed, logic) == [kind |-> k, signed |-> signed, logic |-> logic]
MCSigned == MCType("signed", TRUE, TRUE)
MCUnsigned == MCType("unsigned", FALSE, TRUE)
MCBoolean == MCType("boolean", FALSE, FALSE)
MCNumbers == {MCSigned, MCUnsigned}
MCVectors == MCNumbers \cup {MCType("bv", b, l) : b \in BOOLEAN, l \in BOOLEAN}
MCBit == MCType("bit", FALSE, TRUE)
MCInt == MCType("int", TRUE, FALSE)
MCBase == [kind |-> "int", signed |-> TRUE, logic |-> FALSE, literal2 |-> FALSE]
MCReal == MCType("real", TRUE, FALSE)
MCArray(of, known) == [kind |-> "array", of |-> of, spanKnown |-> known]
MCWords(n, bits) == [0 .. n - 1 -> bits]
MCLong == MCWords(2, Known) \cup MCWords(3, Known)

MCExprs(ops, pairs, v, w) ==
  {[op |-> o, type1 |-> p[1], type2 |-> p[2], value1 |-> x, value2 |-> y] :
     o \in ops, p \in pairs, x \in v, y \in w}
MCFunctions(libs, fns, pairs, v, w) ==
  {[op |-> "function", lib |-> l, fn |-> f, type1 |-> p[1], type2 |-> p[2], value1 |-> x, value2 |-> y] :
     l \in libs, f \in fns, p \in pairs, x \in v, y \in w}
MCOps == Comparisons \cup {"eq", "neq", "plus", "minus", "mult"}
MCSame(ts) == {<<t, t>> : t \in ts}
MCLogicVectors == {t \in MCVectors : t.logic}
MCNumeric ==
  <<MCExprs(MCOps, MCSame(MCLogicVectors), MCWords(2, Logic), MCWords(2, Logic)),
    MCExprs(MCOps, MCSame(MCVectors), MCLong, MCLong),
    MCExprs(Comparisons \cup {"plus", "minus"}, {<<MCType("bv", TRUE, TRUE), MCType("bv", FALSE, TRUE)>>},
            MCWords(2, Known), MCWords(2, Known)),
    MCExprs({"case_eq", "case_neq", "casez", "casex"}, MCSame(MCVectors), MCWords(2, Known), MCWords(2, Known)),
    MCExprs(Comparisons \cup {"eq", "neq", "casez"}, MCSame({MCBit}), Logic, Logic)>>
MCWordArrays(bits) == [0 .. 1 -> MCWords(2, bits)]
MCLogicBv == MCType("bv", FALSE, TRUE)
MCArrays ==
  <<MCExprs({"case_eq", "case_neq"},
            MCSame({MCArray(t, b) : t \in {MCType("signed", TRUE, TRUE), MCLogicBv}, b \in BOOLEAN}),
            MCWordArrays(Known), MCWordArrays(Known)),
    MCExprs({"eq", "neq"}, MCSame({MCArray(MCLogicBv, TRUE)}), MCWordArrays({"0", "1", "X"}), MCWordArrays(Known))>>
MCOthers ==
  <<MCExprs({"reverse"} \cup Reductions, {<<t, MCInt>> : t \in MCLogicVectors}, MCLong \cup MCWords(2, Logic), {0}),
    MCExprs({"reverse"} \cup Reductions, {<<t, MCInt>> : t \in MCVectors \ MCLogicVectors}, MCLong, {0}),
    MCExprs({"abs"}, {<<MCSigned, MCInt>>, <<MCLogicBv, MCInt>>}, MCLong \cup MCWords(2, Logic), {0}),
    MCExprs(Shifts, {<<t, MCUnsigned>> : t \in MCVectors}, MCLong, MCWords(2, Logic)),
    MCExprs({"mod"}, MCSame({MCInt}), -7 .. 7, (-4 .. 4) \ {0}),
    MCExprs({"abs"}, {<<MCInt, MCInt>>, <<MCReal, MCInt>>}, -2 .. 2, {0}),
    MCExprs(Reductions, MCSame({MCInt}), 0 .. 255, {0}),
    MCExprs({"pow"}, {<<MCBase, MCInt>>}, 2 .. 4, 0 .. 3),
    MCExprs({"eq", "neq"}, MCSame({MCReal}), {-2, 0, 1, 3}, {-2, 0, 1, 3})>>
MCShiftCalls(lib, t) == MCFunctions({lib}, {"shl", "shr"}, {<<t, t>>}, MCWords(3, Known) \cup MCWords(2, Logic), MCWords(2, Logic))
MCCalls ==
  <<MCShiftCalls("std_logic_arith", MCSigned), MCShiftCalls("std_logic_arith", MCUnsigned),
    MCShiftCalls("std_logic_signed", MCSigned), MCShiftCalls("std_logic_unsigned", MCUnsigned),
    MCFunctions({"std_logic_arith", "std_logic_signed"}, {"conv_integer"}, {<<MCSigned, MCInt>>}, MCLong, {0}),
    MCFunctions({"std_logic_arith", "std_logic_unsigned"}, {"conv_integer"}, {<<MCUnsigned, MCInt>>}, MCLong, {0}),
    MCFunctions({"numeric_std"}, {"eq", "neq", "std_match"}, MCSame(MCNumbers), MCWords(2, Known), MCWords(2, Known)),
    MCFunctions({"numeric_std"}, {"to_integer"}, {<<t, MCInt>> : t \in MCNumbers}, MCLong, {0}),
    MCFunctions({"std_logic_arith"}, {"conv_std_logic_vector", "conv_signed", "conv_unsigned", "sxt", "ext"},
                {<<t, MCInt>> : t \in MCNumbers}, MCLong \cup MCWords(2, Logic), 1 .. 4),
    MCFunctions({"std_logic_1164"}, {"to_bitvector"}, {<<MCUnsigned, MCBoolean>>}, MCLong, BOOLEAN),
    MCFunctions({"std_logic_1164"}, {"to_x01", "is_x"}, {<<MCUnsigned, MCInt>>}, MCLong, {0}),
    MCFunctions({"std_logic_1164"}, {"resolved"}, MCSame({MCInt}), UNION {[1 .. k -> Logic] : k \in 1 .. 4}, {0})>>
MCExpressions == MCNumeric \o MCArrays \o MCOthers \o MCCalls

MCElements == [i \in 0 .. 2 |-> <<"a", "b", "c">>[i + 1]]
MCSource(n) == [i \in 0 .. n - 1 |-> <<"p", "q", "r">>[i + 1]]
MCSpans == {<<l, r>> \in (0 .. 2) \X (0 .. 2) : l >= r}
MCAssign(t, f, sig, l, r, src, old) ==
  [kind |-> "assign", to |-> t, from |-> f, signal |-> sig, left |-> l, right |-> r, source |-> src, old |-> old]
MCMoves ==
  UNION {
   {MCAssign(t, f, b, x[1], x[2], MCSource(x[1] - x[2] + 1), MCElements) :
     t \in {"packed", "array"}, f \in {"packed", "array"}, b \in BOOLEAN, x \in MCSpans},
   {MCAssign(t, f, b, -1, -1, MCSource(3), MCElements) :
          t \in {"packed", "array"}, f \in {"packed", "array"}, b \in BOOLEAN},
   {MCAssign("string", "string", FALSE, x[1], x[2], MCSource(x[1] - x[2] + 1), MCElements) : x \in MCSpans},
   UNION {{MCAssign("int", "packed", b, x[1], x[2], v, w) :
                 b \in BOOLEAN, v \in MCWords(x[1] - x[2] + 1, Known), w \in MCWords(4, Known)} :
              x \in {y \in (0 .. 3) \X (0 .. 3) : y[1] >= y[2]}},
   {[kind |-> "slice", from |-> f, left |-> x[1], right |-> x[2], source |-> MCElements] :
          f \in {"packed", "array", "string"}, x \in MCSpans},
   {[kind |-> "concat", type1 |-> "array", type2 |-> "array", one |-> MCSource(k), two |-> MCElements] : k \in 1 .. 3},
   {[kind |-> "concat", type1 |-> "array", type2 |-> "bit", one |-> MCElements, two |-> "p"],
        [kind |-> "concat", type1 |-> "bit", type2 |-> "array", one |-> "p", two |-> MCElements]},
   {[kind |-> "aggregate", size |-> 3, others |-> "a", alts |-> z] :
          z \in {<<>>, <<[left |-> 2, right |-> 1, value |-> "p"]>>,
                 <<[left |-> 0, right |-> 0, value |-> "p"], [left |-> 2, right |-> 2, value |-> "q"]>>}},
   {[kind |-> "aggregate", size |-> 3, others |-> "none",
         alts |-> <<[left |-> 1, right |-> 0, value |-> "p"], [left |-> 2, right |-> 2, value |-> "q"]>>]}}

MCValues == MCWords(2, {"0", "1", "X"})

operatorVars == <<expr, call, value>>
moveVars == <<move, form, moved>>
lastVars == <<s, last, prev, read, reads, before, changes, missed>>

MCInit ==
  /\ part \in {"operators", "moves", "last"}
  /\ hdtlib \in Hdtlib /\ (part = "last" => ~hdtlib)
  /\ call = NoCall /\ value = NotYet /\ form = Moving!NoForm /\ moved = NotYet
  /\ IF part = "operators" THEN \E k \in DOMAIN Expressions : expr \in Expressions[k] ELSE expr = <<>>
  /\ IF part = "moves" THEN move \in Moves ELSE move = <<>>
  /\ IF part = "last" THEN Lasting!Init
     ELSE /\ s = <<>> /\ last = s /\ prev = s /\ read = FALSE /\ reads = 0 /\ before = s
          /\ changes = s /\ missed = s
MCNext ==
  \/ part = "operators" /\ Next /\ UNCHANGED <<part, moveVars, lastVars>>
  \/ part = "moves" /\ Moving!Next /\ UNCHANGED <<part, operatorVars, lastVars>>
  \/ part = "last" /\ Lasting!Next /\ UNCHANGED <<part, hdtlib, operatorVars, moveVars>>
MCSpec == MCInit /\ [][MCNext]_<<part, hdtlib, operatorVars, moveVars, lastVars>>
===============================================================================
