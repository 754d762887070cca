-------------------------- MODULE MCDelayedAssignment --------------------------
(***************************************************************************)
(* Every place of the delay, with no delay and delays of two or three time *)
(* units, and one reader or two that share the net.  A delayed net is read *)
(* by processes with complete lists; the clocked ones read undelayed nets, *)
(* or have the delay on their own register.  And modules with no other     *)
(* delay than those of their waits, under every scale.                     *)
(***************************************************************************)
EXTENDS DelayedAssignment

(* The units are a factor of 100 apart instead of 1000, which keeps every  *)
(* product within the integers of TLC and still tells each unit, each      *)
(* factor and each rounding apart.                                         *)
MCSize == "fs" :> 1 @@ "ps" :> 100 @@ "ns" :> 10000
MCSpelled == {"fs", "ps", "ns"}

Count(n) == [abs |-> FALSE, unit |-> NoUnit, time |-> n]
Whole(n, u) == [abs |-> TRUE, unit |-> u, time |-> n * MCSize[u]]
Scaled(value, unit) == [unit |-> unit, value |-> value]

-----------------------------------------------------------------------------
(* The delay of a net: #2 under 1fs/1fs, #0.3 under 10fs/1fs, `after 2 fs` *)
(* in a module that waits for a nanosecond.                                *)
Plain == [delay |-> {}, waits |-> {}, unit |-> Unrecorded, precision |-> Unrecorded]
TwoUnits == [Plain EXCEPT !.delay = {Count(20)}, !.unit = Scaled(1, "fs"), !.precision = Scaled(1, "fs")]
Fraction == [Plain EXCEPT !.delay = {Count(3)}, !.unit = Scaled(10, "fs"), !.precision = Scaled(1, "fs")]
Absolute == [Plain EXCEPT !.delay = {Whole(2, "fs")}, !.waits = {Whole(1, "ns")}]
Delayings == {TwoUnits, Fraction, Absolute}

Shared == SUBSET Readers \ {{}, Readers}
Design(places, timings, readers) ==
  {t @@ d : t \in timings, d \in [place : places, shadowed : BOOLEAN, readers : readers]}

(* Modules with up to two waits: counts, in tenths, under a recorded       *)
(* `timescale, or absolute times, whole numbers of their units, without.   *)
UpToTwo(xs) == {{x, y} : x, y \in xs}
Scales == [unit : MCSpelled, value : {1, 10, 100}]
Waiting ==
  {[delay |-> {}, waits |-> xs, unit |-> u, precision |-> p] :
     xs \in UpToTwo({Count(n) : n \in {10, 15, 123}}), u \in Scales, p \in Scales}
Waits ==
  {d \in Waiting : Length(d.precision) <= Length(d.unit)}
    \cup {[Plain EXCEPT !.waits = xs] : xs \in UpToTwo({Whole(n, u) : n \in {1, 15}, u \in MCSpelled})}

MCDesigns ==
  Design(Places \ {"own"}, {Plain}, Shared)
    \cup Design(Places \ {"own"}, Delayings, {{"comb"}})
    \cup Design({"global"}, {TwoUnits}, Shared)
    \cup Design({"own"}, {Plain, TwoUnits}, {{"comb"}, {"edge"}})
    \cup {t @@ [place |-> "global", shadowed |-> FALSE, readers |-> {}] : t \in Waits}

(* A level-sensitive process with a delay on its own output. *)
LevelDesigns == Design({"own"}, {TwoUnits}, {{"level"}})
=============================================================================
