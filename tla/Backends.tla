-------------------------------- MODULE Backends --------------------------------
(***************************************************************************)
(* Six things the back ends make of a design, side by side: for VHDL, an   *)
(* edge list as tests and names and out ports; for SystemC, a wait, the    *)
(* exits of a loop and the names of overloads; for Verilog, a subprogram   *)
(* that is called.  They share no state.  (The printing of expressions is  *)
(* beside them in MCBackends.)                                             *)
(***************************************************************************)
EXTENDS EdgeLists

CONSTANTS
  Signals, None, Timeout, Cycles,  \* of SystemCWait
  Paths, Jumps,                    \* of LoopExits
  Overloads,                       \* of ConflictingSubPrograms
  Entities, Segments,              \* of VhdlPorts
  Routines                         \* of Subprograms

ASSUME SignalsAssumption == None \notin Signals

VARIABLES
  stmt, process, made, wave, cycles, inside, left,
  path, jump, exit, stage, outline,
  subs, keepBit, names, calls, next,
  entity, decls, refs, visits, ports,
  design, printed, wanted, actual, static

Waiting == INSTANCE SystemCWait
Leaving == INSTANCE LoopExits WITH target <- exit
Renaming == INSTANCE ConflictingSubPrograms
Porting == INSTANCE VhdlPorts
Calling == INSTANCE Subprograms WITH Designs <- Routines, target <- wanted

(* Subprograms with parameters of the types the pass sorts. *)
ASSUME OverloadsAssumption ==
  Overloads \subseteq Seq([name : STRING, scope : Nat, params : Seq(Renaming!Types)])
ASSUME PathsAssumption ==
  (\A p \in Paths : Leaving!WellFormed(p)) /\ Jumps \subseteq [kind : {"break", "continue"}, name : STRING]
ASSUME RoutinesAssumption == \A d \in Routines : Calling!WellFormed(d)

(* A thread's waits resume as the HIF ones (PreRefine_misc.cpp:831-914). *)
ImplementsWait == Waiting!ImplementsWait
(* A jump lands where it was meant to (PreRefine_misc.cpp:32-73, 526-553). *)
SameExit == Leaving!SameExit
(* A call finds its own subprogram (PreRefine_conflictingSubPrograms.cpp:108-328). *)
SameCallee == Renaming!SameCallee
(* Readers and ports see what they did (PreRefine_readOutPorts.cpp:88-149). *)
SamePorts == Porting!SamePorts
(* The target of a call has its source's value (VerilogPrinter.cpp:936-1062). *)
SameTarget == Calling!SameTarget
===============================================================================
