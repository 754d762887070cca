------------------------------ MODULE WaitClauses ------------------------------
(***************************************************************************)
(* The clauses of a HIF Wait, `wait on ... until ... for ...` in VHDL, and *)
(* what an update of the signals means to them.                            *)
(***************************************************************************)
CONSTANTS
  Signals,
  None

ASSUME NoneAssumption == None \notin Signals

Edges == {"none", "level", "pos", "neg"}
(* The lists of a Wait as one function, its condition as the signal that   *)
(* has to be true, and whether it has a timeout.                           *)
Clauses == [on : [Signals -> Edges], until : Signals \cup {None}, timed : BOOLEAN]
Statements == {w \in Clauses : (\E s \in Signals : w.on[s] # "none") \/ w.until # None \/ w.timed}

HasSensitivity(w) == \E s \in Signals : w.on[s] # "none"
HasCondition(w)   == w.until # None

(* Going from one valuation to another is an event on the list of w. *)
Edge(kind, was, is) ==
  CASE kind = "level" -> was # is
    [] kind = "pos"   -> ~was /\ is
    [] kind = "neg"   -> was /\ ~is
    [] OTHER          -> FALSE
Event(w, was, is) == \E s \in Signals : Edge(w.on[s], was[s], is[s])
Holds(w, now)     == HasCondition(w) => now[w.until]

(* Whether an update resumes a process that is suspended in w. *)
Resumes(w, was, is) ==
  IF HasSensitivity(w) THEN Event(w, was, is) /\ Holds(w, is)
  ELSE HasCondition(w) /\ Holds(w, is)
(* Whether reaching w suspends at all. *)
Suspends(w, now) == HasSensitivity(w) \/ ~HasCondition(w) \/ ~Holds(w, now)
=============================================================================
