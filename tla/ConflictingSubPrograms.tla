------------------------- MODULE ConflictingSubPrograms -------------------------
(***************************************************************************)
(* Overloads that VHDL and Verilog tell apart and SystemC does not         *)
(* (src/src/hif2sc/PreRefine_conflictingSubPrograms.cpp): vectors, signed  *)
(* and unsigned numbers all become vectors, bits may become bool.  The     *)
(* pass visits the subprograms in the order of their declarations; those   *)
(* that would clash are renamed, all but one, with the calls of each.      *)
(*                                                                         *)
(* The candidates are kept in a set of pointers: which one keeps its name  *)
(* is left open.  Standard libraries are not visited and not modelled.     *)
(***************************************************************************)
EXTENDS Naturals, Sequences

CONSTANT Overloads  \* sequences of subprograms: [name, scope, params]

VARIABLES
  subs,     \* the subprograms, in the order they are visited
  keepBit,  \* the option that keeps bits as bits
  names,    \* the name of each subprogram
  calls,    \* the name in the calls of each, kept by _refMap
  next      \* the subprogram to visit next

subVars == <<subs, keepBit, names, calls, next>>

-----------------------------------------------------------------------------
(* A type is [kind, signed, resolved]; spans are not compared. *)
Compatible == "compatible"
Conflicting == "conflicting"
Uncompatible == "uncompatible"
Clashing == {"bit", "bool", "bitvector", "signed", "unsigned"}
Numbers == {"bitvector", "signed", "unsigned"}
(* Only bits and vectors come with and without a sign or resolution. *)
Plain(k) == [kind |-> k, signed |-> k \in {"signed", "int"}, resolved |-> k \in Numbers]
Types ==
  {Plain(k) : k \in {"bool", "signed", "unsigned", "int", "real", "string"}}
  \cup [kind : {"bit"}, signed : {FALSE}, resolved : BOOLEAN]
  \cup [kind : {"bitvector"}, signed : BOOLEAN, resolved : BOOLEAN]

SameKindUnequal(t, u) == IF t = u THEN Compatible ELSE Uncompatible
SameKind(t, u) ==
  IF t = u THEN Compatible
  ELSE IF t.kind = "bitvector" THEN Conflicting ELSE Uncompatible
(* _areConflictingTypes; its last branch, meant for unsigned, is also      *)
(* where a bit or a bool that is kept arrives.                             *)
AreConflictingTypes(t, u) ==
  CASE t.kind = u.kind -> SameKind(t, u)
    [] t.kind # u.kind /\ ~({t.kind, u.kind} \subseteq Clashing) -> Uncompatible
    [] t.kind # u.kind /\ {t.kind, u.kind} \subseteq Clashing ->
         LET clash ==
               CASE t.kind \in {"bit", "bool"} /\ ~keepBit -> {"bit", "bool"}
                 [] t.kind = "bitvector" -> {"signed", "unsigned"}
                 [] t.kind = "signed" -> {"bitvector", "unsigned"}
                 [] OTHER -> {"bitvector", "signed"}
         IN IF u.kind \in clash THEN Conflicting ELSE Uncompatible

(* _areSigsConflict: equal signatures clash as well. *)
AreSigsConflict(s, r) ==
  /\ Len(subs[s].params) = Len(subs[r].params)
  /\ \A i \in DOMAIN subs[s].params :
       AreConflictingTypes(subs[s].params[i], subs[r].params[i]) # Uncompatible

(* getCandidates: what a call in the place of s can mean. *)
Candidates(s) ==
  {r \in DOMAIN subs : names[r] = names[s] /\ subs[r].scope <= subs[s].scope}
(* _checkCall looks at every pair, each in one order. *)
SigToChange(s) ==
  UNION {{p[1], p[2]} : p \in {q \in Candidates(s) \X Candidates(s) : q[1] < q[2] /\ AreSigsConflict(q[1], q[2])}}

-----------------------------------------------------------------------------
Init ==
  /\ subs \in Overloads
  /\ keepBit \in BOOLEAN
  /\ names = [s \in DOMAIN subs |-> [base |-> subs[s].name, fresh |-> 0]]
  /\ calls = names
  /\ next = 1

(* getFreshName *)
Fresh(s) == [names[s] EXCEPT !.fresh = s]
(* The calls of a renamed subprogram take its new name. *)
CallsRenamed(changed) == [s \in DOMAIN subs |-> IF s \in changed THEN Fresh(s) ELSE calls[s]]
UpdateSignatures(changed) ==
  /\ names' = [s \in DOMAIN subs |-> IF s \in changed THEN Fresh(s) ELSE names[s]]
  /\ calls' = CallsRenamed(changed)

(* visitFunction and visitProcedure. *)
VisitSubProgram ==
  /\ next \in DOMAIN subs
  /\ next' = next + 1
  /\ IF SigToChange(next) = {} THEN UNCHANGED <<names, calls>>
     ELSE \E kept \in SigToChange(next) : UpdateSignatures(SigToChange(next) \ {kept})
  /\ UNCHANGED <<subs, keepBit>>

Next == VisitSubProgram
Spec == Init /\ [][Next]_subVars

-----------------------------------------------------------------------------
(* What hif2sc prints for a type: every vector is a vector. *)
CppType(t) ==
  CASE t.kind \in Numbers -> "vector"
    [] t.kind = "bit" /\ t.resolved -> "logic"
    [] t.kind = "bit" /\ ~t.resolved -> IF keepBit THEN "bit" ELSE "bool"
    [] OTHER -> t.kind
CppParams(s) == [i \in DOMAIN subs[s].params |-> CppType(subs[s].params[i])]
(* The subprograms that C++ finds for the calls of s. *)
Found(s) == {r \in DOMAIN subs : names[r] = calls[s] /\ CppParams(r) = CppParams(s)}

(* When all are visited, C++ finds one subprogram for every call, and it   *)
(* is the one called: whatever clashes with whatever, by one parameter or  *)
(* several, in one scope or two, and whichever of them keeps its name.     *)
SameCallee == next > Len(subs) => \A s \in DOMAIN subs : Found(s) = {s}
===============================================================================
