------------------------------- MODULE VhdlPorts -------------------------------
(***************************************************************************)
(* Names and ports on the way to VHDL (src/src/hif2vhdl/                   *)
(* PreRefine_identifierNames.cpp and PreRefine_readOutPorts.cpp).  First   *)
(* every name is made one VHDL allows; then an out port that its           *)
(* architecture reads gets a signal that is used in its place and copied   *)
(* to it.                                                                  *)
(*                                                                         *)
(* A name is a sequence of "_" and of runs of other characters.  The tree  *)
(* is visited in any order: a reference gets its new name when it is       *)
(* visited and with its declaration, whichever comes first.                *)
(***************************************************************************)
EXTENDS Naturals, Sequences, SequencesExt

CONSTANTS
  Entities,  \* the entities: what they declare and how it is used
  Segments   \* the runs of other characters in their names

VARIABLES
  entity,  \* [decls, refs]; a reference is [to, use]
  decls,   \* the declarations: [name, kind]
  refs,    \* the references: [name, to, use], to being what it was resolved to
  visits,  \* the declarations and references whose names are still to visit
  ports    \* the out ports still to visit

portVars == <<entity, decls, refs, visits, ports>>

-----------------------------------------------------------------------------
Underscore == "_"
Id == <<"id">>
Name == Seq({Underscore, "id", "sig"} \cup Segments) \ {<<>>}
(* _replaceFirstUnderscore and _replaceDoubleUnderscore. *)
ReplaceFirstUnderscore(n) == IF Head(n) = Underscore THEN Id \o n ELSE n
InPair(n, i) == i < Len(n) /\ n[i] = Underscore /\ n[i + 1] = Underscore
ReplaceFirstPair(n) ==
  IF \E i \in DOMAIN n : InPair(n, i)
  THEN LET i == CHOOSE j \in DOMAIN n : InPair(n, j) /\ \A k \in 1 .. j - 1 : ~InPair(n, k)
       IN SubSeq(n, 1, i) \o Id \o SubSeq(n, i + 1, Len(n))
  ELSE n
ReplaceDoubleUnderscore(n) ==
  FlattenSeq([i \in DOMAIN n |-> IF InPair(n, i) THEN <<n[i]>> \o Id ELSE <<n[i]>>])
AnalyzeString(n) == ReplaceDoubleUnderscore(ReplaceFirstUnderscore(n))
(* The signal of a port. *)
SignalName(n) == <<"sig", Underscore>> \o n

(* The entities the pass is for: no two names are made one, which the code *)
(* does not look for, and the name asked for the signal of a port is free. *)
WellFormed(e) ==
  /\ e.decls \in Seq([name : Name, kind : {"in", "out", "inout", "signal"}])
  /\ e.refs \in Seq([to : DOMAIN e.decls, use : {"target", "actual", "read", "in_actual"}])
  /\ \A d1, d2 \in DOMAIN e.decls :
       LET n1 == AnalyzeString(e.decls[d1].name)
           n2 == AnalyzeString(e.decls[d2].name)
       IN  (n1 = n2 => d1 = d2) /\ n1 # SignalName(n2)

-----------------------------------------------------------------------------
(* Every reference starts with the name of its declaration. *)
Starts(e) ==
  /\ decls = e.decls
  /\ refs = [r \in DOMAIN e.refs |-> [name |-> decls[e.refs[r].to].name, to |-> e.refs[r].to, use |-> e.refs[r].use]]
  /\ visits = ({"decl"} \X DOMAIN decls) \cup ({"ref"} \X DOMAIN refs)
  /\ ports = {d \in DOMAIN decls : decls[d].kind = "out"}
Init == entity \in Entities /\ Starts(entity)

(* AfterVisit of a declaration: if the name changes, so do its references. *)
VisitDeclaration(d) ==
  /\ <<"decl", d>> \in visits
  /\ LET name == AnalyzeString(decls[d].name)
     IN  /\ decls' = [decls EXCEPT ![d].name = name]
         /\ refs' = IF name = decls[d].name THEN refs
                    ELSE [r \in DOMAIN refs |-> IF refs[r].to = d THEN [refs[r] EXCEPT !.name = name] ELSE refs[r]]
  /\ visits' = visits \ {<<"decl", d>>}
  /\ UNCHANGED <<entity, ports>>

(* And of a reference. *)
VisitReference(r) ==
  /\ <<"ref", r>> \in visits
  /\ refs' = [refs EXCEPT ![r].name = AnalyzeString(refs[r].name)]
  /\ visits' = visits \ {<<"ref", r>>}
  /\ UNCHANGED <<entity, decls, ports>>

(* _needFix: a reference that is neither a target nor all of an actual.    *)
(* All of an actual for an in port is a read that the pass takes for a     *)
(* driver; it is left out.                                                 *)
NeedFix(list) == \E r \in list : refs[r].use \in {"read", "in_actual"}

(* visitPort and _doFix: all references go to the signal, which the port   *)
(* is assigned.                                                            *)
References(p) == {r \in DOMAIN refs : refs[r].to = p}
VisitPort(p) ==
  /\ visits = {} /\ p \in ports
  /\ ports' = ports \ {p}
  /\ IF ~NeedFix(References(p)) THEN UNCHANGED <<decls, refs>>
     ELSE LET sig == SignalName(decls[p].name)
              s == Len(decls) + 1
          IN  /\ decls' = Append(decls, [name |-> sig, kind |-> "signal"])
              /\ refs' = [r \in DOMAIN refs |->
                            IF r \in References(p) THEN [name |-> sig, to |-> s, use |-> refs[r].use] ELSE refs[r]]
                         \o <<[name |-> decls[p].name, to |-> p, use |-> "target"],
                              [name |-> sig, to |-> s, use |-> "copy"]>>
  /\ UNCHANGED <<entity, visits>>

Next ==
  \/ \E d \in DOMAIN decls : VisitDeclaration(d)
  \/ \E r \in DOMAIN refs : VisitReference(r)
  \/ \E p \in ports : VisitPort(p)
Spec == Init /\ [][Next]_portVars

-----------------------------------------------------------------------------
(* What VHDL makes of the result: a name means the one declaration of that *)
(* name, and an out port cannot be read.  A copy follows the assignment it *)
(* is of, a port's that of its signal.                                     *)
Legal(n) == Head(n) # Underscore /\ \A i \in DOMAIN n : ~InPair(n, i)
Named(r) == {d \in DOMAIN decls : decls[d].name = refs[r].name}
Reads(r) == refs[r].use \in {"read", "in_actual", "copy"}
Drives(r) == refs[r].use \in {"target", "actual"} /\ r \in DOMAIN entity.refs
Driven(d) == {r \in DOMAIN refs : Drives(r) /\ Named(r) = {d}}
Copies(d) == {r \in DOMAIN refs \ DOMAIN entity.refs : refs[r].use = "target" /\ Named(r) = {d}}
(* The references that give d its value, through a copy if there is one. *)
DrivenBy(d) ==
  Driven(d) \cup UNION {Driven(s) : s \in {t \in DOMAIN decls : \E r \in Copies(d) : Named(r + 1) = {t}}}
Meant(d) == {r \in DOMAIN entity.refs : entity.refs[r].to = d /\ entity.refs[r].use \in {"target", "actual"}}

(* At the end every name is one VHDL reads, every reader sees what drove   *)
(* its object in the source, no out port is read, and every port is driven *)
(* by what drove it: for any mix of drivers and readers, and whatever the  *)
(* order in which declarations and references are renamed.                 *)
SamePorts ==
  visits = {} /\ ports = {} =>
    /\ \A d \in DOMAIN decls : Legal(decls[d].name)
    /\ \A r \in DOMAIN refs : Named(r) = {refs[r].to}
    /\ \A r \in DOMAIN refs : Reads(r) => decls[refs[r].to].kind # "out"
    /\ \A r \in DOMAIN entity.refs : Reads(r) => Driven(refs[r].to) = Meant(entity.refs[r].to)
    /\ \A d \in DOMAIN entity.decls :
         DrivenBy(d) = Meant(d) /\ (Copies(d) # {} => Driven(d) = {})
===============================================================================
