------------------------------- MODULE Timescale -------------------------------
(***************************************************************************)
(* The `timescale hif2verilog writes above a module and the counts it      *)
(* writes at its delays (resolveTimescale, renderDelay).  A HIF delay is a *)
(* count of the unit the Verilog source declared, which the front end      *)
(* records, or an absolute time, from VHDL.  A simulator multiplies a      *)
(* count by the unit and rounds the product to the precision.              *)
(*                                                                         *)
(* Times are whole numbers of the simulation's finest time.                *)
(***************************************************************************)
EXTENDS Naturals

CONSTANTS
  Size,      \* the length of each unit of time
  Spelled    \* the units a `timescale can name

Units == DOMAIN Size
ASSUME SizeAssumption == Size \in [Units -> Nat \ {0}] /\ Spelled \subseteq Units

(* A delay is [abs, unit, time]: a length written in some unit, or a count *)
(* in tenths of the recorded unit.  A scale that is not recorded has no    *)
(* unit.                                                                   *)
NoUnit == "none"
Delay == [abs : BOOLEAN, unit : Units \cup {NoUnit}, time : Nat \ {0}]
Scale == [unit : Units \cup {NoUnit}, value : Nat \ {0}]
Unrecorded == [unit |-> NoUnit, value |-> 1]

Length(s) == s.value * Size[s.unit]
Tenths(n, s) == (n * Length(s)) \div 10

-----------------------------------------------------------------------------
(* timescaleFactor: the largest factor Verilog can name. *)
Factor(v) == IF v >= 100 THEN 100 ELSE IF v >= 10 THEN 10 ELSE 1
Named(s)  == [unit |-> s.unit, value |-> Factor(s.value)]
Usable(s) == s.unit # NoUnit /\ s.unit \in Spelled

CoarsestUnit(xs) == CHOOSE u \in {x.unit : x \in xs} : \A x \in xs : Size[u] >= Size[x.unit]
FinestUnit(xs) == CHOOSE u \in {x.unit : x \in xs} : \A x \in xs : Size[u] <= Size[x.unit]

(* resolveTimescale: the recorded unit when Verilog can name it, or the    *)
(* finest unit of the absolute delays.                                     *)
Unit(delays, recorded) ==
  IF Usable(recorded) THEN Named(recorded)
  ELSE [unit  |-> IF \E x \in delays : x.abs THEN FinestUnit({x \in delays : x.abs}) ELSE "ns",
        value |-> 1]
Precision(unit, recorded) == IF Usable(recorded) THEN Named(recorded) ELSE unit

(* renderDelay: a count goes out as it came in, an absolute time as the    *)
(* number of units, with its fraction, that makes it up.                   *)
Rendered(x, unit) == IF x.abs THEN x.time ELSE Tenths(x.time, unit)

-----------------------------------------------------------------------------
(* A simulator rounds to the nearest multiple of the precision. *)
Rounded(t, p) == ((t + Length(p) \div 2) \div Length(p)) * Length(p)

(* The length a delay has in its source: VHDL's is exact, Verilog's is     *)
(* rounded to the source's own precision.                                  *)
Meant(x, unit, precision) ==
  IF x.abs THEN x.time ELSE Rounded(Tenths(x.time, unit), precision)
=============================================================================
