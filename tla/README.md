# Verification of hif-backend

hif-backend turns a HIF description (the intermediate form that the front ends
`verilog2hif` and `vhdl2hif` produce) back into a hardware language:
`hif2verilog` writes Verilog, `hif2vhdl` VHDL and `hif2sc` SystemC, and the
library `hif2scSupport` is what generated SystemC runs on.  The HIF library
itself (hif-core: the tree, semantics, `analyzeProcesses`, the name table) is
another repository; where a module depends on it, it is modelled from its use
here and marked external.

What can go wrong in such a program is seldom a crash.  The output parses,
elaborates and exits with 0 and behaves like its source on most stimuli.  The
modules therefore put the translation and its meaning side by side: a pass is
an action on a small design, and then the source and the output run on the same
events.  The correctness of a translation is an invariant over both runs, or a
refinement.  The runtime library is an ordinary concurrent program and is
modelled as one.

## Inventory

| Component | State it keeps | Operations | Interacts with | Correct when |
|---|---|---|---|---|
| `hif2verilog` clocked processes (`PostRefine_process.cpp`) | the sensitivity lists and body of a process | skip, refuse, move clock and reset to edge lists, drop the edge test | `analyzeProcesses`; the printer prints the lists | the always block drives what the process drove, for every stimulus |
| inout lowering (`PostRefine_inoutPort.cpp`) | driver signal per port, retargeted assignments | `visitView` | adds a global action the printer makes an `assign` | the net resolves as in VHDL |
| for-index hoisting (`PostRefine_forIndex.cpp`) | declarations of the enclosing body | `visitFor` | scopes of processes and subprograms | each loop counts its own index |
| `VerilogPrinter` | drivers collected per view, timescale, cones being inlined, current function and exit label | one visitor per object | hif-core declarations; the name table | see the modules below |
| file printing (`PrintVerilogMethods.cpp`) | stream per unit, AMS flag | one file per unit | file system | a file per unit, flags per unit |
| `hif2vhdl` passes (`VhdlPreRefine_misc.cpp`, `PreRefine_identifierNames.cpp`, `PreRefine_readOutPorts.cpp`) | names, ports, sensitivity lists and bodies of processes | edge lists into tests, renaming, signals for ports that are read | each relies on the ones before; `analyzeProcesses` | the printed VHDL means the HIF |
| `VHDLPrinter` | mode flags, libraries in scope, components printed | one visitor per object | file system | declarations before use |
| `hif2sc` passes (`PreRefine_misc.cpp`, `PreRefine_utilityLibraries.cpp`, `PreRefine_conflictingSubPrograms.cpp`, `PostRefine_*`) | the whole tree, the references of every declaration | about 25 numbered steps, resumable with `--step` | each relies on the ones before; the operators become calls of `hif2scSupport` | the C++ means the HIF |
| SystemC printers | precedence, indentation, the file being written | headers, implementations, refinements | file system; a C++ compiler | C++ reads what was meant |
| `hif_after` | registry of pending assignments, functors | register, unregister, copy, run | SystemC scheduler | delayed assignments are transport delays |
| text I/O (`hif_vhdl_std_textio.cpp`, `hif_vhdl_ieee_std_logic_textio.cpp`) | files, lines | open, readline, read, write, writeline, endfile | stdio | the records of `std.textio` |
| Verilog system tasks (`hif_verilog_standard.cpp`) | streams per descriptor | display, scanf, close, eof, random | stdio | output in order, in its file |
| Memory loads (`hif_verilog_standard.i.hpp`) | position in the file, cell, array | 26 overloads of `$readmemb` and `$readmemh` | stdio | each word in its cell |
| vector operators (`hif_systemc_extensions`, `std_logic_arith` and others) | none, but for two variables of `'last_value` | arithmetic, comparisons, conversions | SystemC's types | value and width of the source operator |
| slices and assignments (`hif_assign.i.hpp`, `hif_vector_slice.i.hpp`) | the target | a family of overloads over packed and unpacked vectors | SystemC's types | every element lands where HIF says |

Hard behaviours: order of wake-ups and updates (edges, delta cycles, delays),
static storage where the source has activations, one object with drivers of
several kinds, timeouts against events, copies of one functor that cancel each
other, lines and files at their end, numbers of closed descriptors given out
again, metavalues taken for values, two tables (the printer's and C++'s) that
must agree, and trees that are renamed while they are visited.  Each is listed under `hazards` in
PROJECT.json at the line where it bites.

## Modules

| Module | Models | State and actions, and the code they stand for |
|---|---|---|
| `ClockedProcess` | `fixSynchronousProcesses` | `source`, `target`: the process before and after the pass; `Skip`, `Refuse` and `Rebuild` are the three ways out of `visitStateTable`; `Step` gives clock, reset and data new values in one delta cycle and runs the VHDL process and the Verilog block on them |
| `ClockedProcessProofs` | | theorems about it |
| `TransportDelay` | what a delayed assignment promises | a wave of values to come per target, one per instant |
| `HifAfter` | `hif_after.cpp`, `hif_after.i.hpp` | `afterMap` is `_afterMap`, `objects` the functors alive; `After` is a whole call of `_hif_after` (construct, copy into `sc_spawn`, destroy), `Run` is `operator()`, `Reclaim` and `Advance` the SystemC kernel |
| `HifAfterProofs` | | theorems about it |
| `WaitClauses`, `WaitStatement` | what a HIF Wait promises | `Update` and `Tick` of a process suspended in a wait |
| `WaitLowering` | `visitWait`, `printMultiClauseWait`, `printEventControl` | `branches`: the branches of the printed fork still alive; `Refuse` and `VisitWait` print, `Change`, `RunBranch`, `Elapse` and `Reenter` simulate the block |
| `WaitLoweringProofs` | | theorems about it |
| `ProcessKind` | `isRetriggerable` and the empty waits of `visitWait` | `printed`: keyword, list and body; `VisitStateTable` chooses them, `RunSource`, `RunPrinted` and `Wake` run both processes |
| `ProcessKindProofs` | | theorems about it |
| `PortDrivers` | `PostRefine_inoutPort.cpp`, `collectContinuouslyDrivenDeclarations`, `getDeclaration`, the drivers `visitDesignUnit` prints | `LowerInout` is the pass, `PrintDesignUnit` the collection and the declaration; `Drive` changes one driver of one bit in the source and in the output |
| `PortDriversProofs` | | theorems about it |
| `Subprograms` | `visitFunction`, `printTask`, `visitReturn`, `visitProcedureCall`, the choice of `=` or `<=` | `PrintSubprogram` prints the body, `Activate` runs the caller in both languages; `static` is the storage a Verilog task keeps between calls |
| `Timescale` | `resolveTimescale`, `renderDelay` | operators: the directive of a module and the count printed for a delay |
| `DelayedAssignment` | delays on assignments, cones, `collectDelayedTargets`, the lists of `visitStateTable` | composed with `Timescale`: `ResolveTimescale`, `Refuse` and `VisitStateTable` print, `Change` and `Tick` run both designs |
| `EdgeLists` | `visitStateTable` and `_fixSynchronousProcess` of `VhdlPreRefine_misc.cpp`, the plain list of `VHDLPrinter` | `source`, `target`: the process before and after; `Leave`, `Refuse` and `Rebuild` are the ways out, `Change` gives clock, reset and data new values in one delta and runs both |
| `VhdlPorts` | `PreRefine_identifierNames.cpp`, `PreRefine_readOutPorts.cpp` | `decls` and `refs` are the tree; `VisitDeclaration` and `VisitReference` rename in any order, `VisitPort` then gives a port that is read its signal |
| `SystemCWait` | `visitWait` of `PreRefine_misc.cpp` and of the printer, the processes waits are in | composed with `WaitStatement`, whose promise it keeps; `Visit` is the pass, `Update`, `Tick` and `Again` the thread under SystemC's scheduler |
| `CppExpressions` | `visitExpression`, `_needWrapParen`, `_getOperatorPrecedence` and the visitors of what is inside expressions | `PrintTree` turns a tree into tokens, `Compile` reads them by C++'s grammar |
| `LoopExits` | `_fixBreaks`, `visitContinue`, `visitSwitch`, the printers of loops and jumps | one jump in its statements: `FixBreaks`, `VisitJump`, `VisitSwitch`, `PrintJumps` |
| `ConflictingSubPrograms` | `PreRefine_conflictingSubPrograms.cpp` | `names` and `calls` of each overload; `VisitSubProgram` compares one with those it can be confused with, and renames |
| `Backends` | `EdgeLists`, `SystemCWait`, `LoopExits`, `ConflictingSubPrograms`, `VhdlPorts` and `Subprograms` side by side | the properties of each, under their own names |
| `BackendsProofs` | | theorems about all six |
| `LogicVectors` | SystemC's vectors, as far as they are used | operators |
| `StdLogicArith`, `SystemCExtensions` | the functions of VHDL's packages and of HIF's operators in `hif2scSupport` | operators, one per function |
| `UtilityLibraries` | which function `PreRefine_utilityLibraries.cpp` calls for an operator | `Translate` is one of its fixes, by the operator and the types; `Evaluate` runs the call |
| `VectorMoves` | assignments, slices, concatenations and aggregates of the same pass; `hif_assign.i.hpp`, `hif_vector_slice.i.hpp`, aggregates and concatenations of the library | `Translate` chooses the form, `Run` executes it |
| `LastValue` | `hif_lastValue` | `Change` of the signal, `HifLastValue` reads the attribute and updates its two variables |
| `Operators` | what HIF means by an operator, from the numbers operands stand for; `UtilityLibraries`, `VectorMoves` and `LastValue` side by side | operators, and the properties of the three |
| `OperatorsProofs` | | theorems about `VectorMoves` and `LastValue` |
| `MemoryLoad` | the 26 overloads of `$readmemb` and `$readmemh` | `Open`, `EndOfFile`, `WrongSize`, `Leave` and `Store` are the ways through an iteration of their loop; a table of overloads says how each differs |
| `TextIO` | the files and lines of `std.textio` and `std_logic_textio` | `Readline`, `ReadWhole`, `Read`, `Write`, `WriteFile`, `Writeline`, with the copies of text the code makes |
| `SystemTasks` | streams of `hif_verilog_standard.cpp` over descriptors of the operating system | one action per task on a descriptor, and stdio's buffers, which may be written whenever they please |
| `RuntimeFiles` | `MemoryLoad`, `TextIO` and `SystemTasks` side by side | `part` says which of the three a behaviour is of |
| `RuntimeFilesProofs` | | theorems about the three |

An `MC` module gives the constants of the module it is named after, and its
`.cfg` file selects the properties; `WaitLowering.cfg` needs no such module.
`RuntimeFiles`, `Operators` and `Backends` hold several components that share no
state, each an instance of its module.  TLC checks them together: a behaviour is
of one of them, chosen by `part` in the initial state, so that the others add no
interleavings.  The theorems are about the specification of each.

Definitions that come just before the one they imitate, with a name that says
what they forget (`EdgeTestKept`, `NoFork`, `OwnTargets`), are plausible mistakes
in that definition; PROJECT.json names the property that each one breaks.

Some inputs are ones the program is known to translate wrongly, or that its
library never lets through.  A predicate names the ones that remain, the sets of
the runs satisfy it (an assumption of the MC module or of the module says so and TLC
evaluates it), or the property itself asks for it, and it is the hypothesis of
the theorems: `OnlyEdgeOrReset` of `ClockedProcess`, `Supported` of
`ProcessKind` and of `PortDrivers` (their exceptions are listed below), `WellFormed` of
`VectorMoves` (bounds in range, operands of the size of what they are assigned
to, alternatives that do not overlap: what HIF's own checks leave), `WellFormed` of
`VhdlPorts` (names that stay apart once renamed, and a free name for each new
signal) and of `LoopExits` (a loop does not take the name of one around it, whose
labels C++ could not tell apart), `OneKindOfDriver` of `Subprograms` (listed
below), `KeepsLast` of `TextIO` (a last line that ends, or does not fill the
reader's buffer exactly) and `OneWord` (what is written is a word: not empty,
without blanks, and not among the digits that a write changes).

## Runs

| Run | Question | Bounds, and why they are enough |
|---|---|---|
| `clocked_process` | Does the block drive what the process drove, and is its clocked branch taken on its edge only? | One-bit data; a constant, a load, a toggle and a call as statements, in every place of the body, with every sensitivity list; the edge alone, with a reset, with several alternatives, and in a condition with a test of data. The pass looks at a statement only for its form and for whether it reads, and a toggle shows one execution too many or too few. Runs are unbounded. |
| `clocked_process_enabled` | Is a process that cannot be carried over refused? | A violation, see below. |
| `hif_after` | Do copies and replacements of delayed assignments amount to transport delay, and is every entry of the registry given back? | Two sites with different delays, four instants, three functors alive at once: enough for two calls of one site in one time step, the second with its copy beside the first, and for calls made and landing in different time steps. |
| `wait_lowering` | Does the printed statement resume when the wait does, and can it get stuck? | Every wait over two signals, a timeout of two units, two update cycles per unit: an event with a false condition and one with a true one both fit before the deadline. |
| `process_kind` | Does the printed process keep its turns? | Bodies of up to three items and a marker; two turns without an event make a spin. |
| `process_kind_maybe` | Is a process with an empty wait one that cannot loop? | A violation, see below. |
| `port_drivers` | Does the output elaborate, and does each bit carry what VHDL resolves? | Two bits, up to two processes, one of each other driver: whole, partial and disjoint drivers. |
| `port_drivers_split` | Can any legal object be a reg or a net? | A violation, see below. |
| `delayed_assignment` | Does every reader see its source's value at every instant, under one directive? | Delays of two or three time units, so that an input can change while an update is due; every place of the delay, up to two readers. The units of time are a factor of 100 apart instead of 1000. |
| `runtime_files` | Do loads, lines and streams of the runtime library keep text and words in their places? | Three cells and up to three tokens, windows that start before, in and after the array, both directions. A buffer of three characters, so that a line takes up to two pieces. Three files on two descriptors, so that a number is given out again. |
| `operators` | Does the call hif2sc chooses give the value of the operator, is a known result certain, does each element move to its place, and is a known last value right? | Vectors of two bits with metavalues and of two and three without, on every pair of types that is translated, with and without hdtlib; targets of three elements with every slice. Two operands of different length need three; a carry, a sign and a middle bit fit in three. Three reads of `'last_value`: two with a change in between, and one after. |
| `backends` | Is what the back ends make of edge lists, names and ports (VHDL), waits, expressions, jumps and overloads (SystemC) and of subprograms (Verilog) what the design means? | Every edge list over a clock and a reset, with a constant, a load and a toggle. Every operator in every other, and one more level under those whose neighbours are ambiguous. A jump in three statements of every kind: the one it is for, and one inside and outside it. Three overloads of up to two parameters: two that clash and a third that clashes with one of them. Names of up to four underscores, two objects used three times. Subprograms of up to two statements and a return, called twice in a row: the second call finds what the first left in static storage. |

Fairness is stated where a liveness property needs it.  `WaitLowering` and
`HifAfter` assume weak fairness of what a simulation kernel does on its own:
run what is runnable, reclaim what has returned, let time pass when nothing is
runnable.  Nothing is assumed of signals, which may never change, or of the
callers of `_hif_after`, which may never call.  `TimeoutResumes` is claimed with
changes racing the branches (`racing`); `ImplementsWait` of the runs in which a
wake-up is handled before the next change: a printed gate tests its condition
when it runs, not at the event, and a simulator that puts a change in between
makes the two differ in both languages' own terms.

`CHECK_DEADLOCK FALSE` is set where a design may stop for good: refused,
stopped by the bound on time, or, for a pass or a load, at its end.

`SystemCWait` assumes no fairness: SystemC runs what is awake before a signal
takes another value, which its actions have in one step, and it is a safety
refinement that is checked of it.

## What does not hold, and what the passing runs leave out

Three runs expect a violation, each of a statement in the repository:

- `clocked_process_enabled`: the comment at `PostRefine_process.cpp:194` does not
  claim an edge test inside a wider expression, and the one at line 181 has it
  that a shape that does not match is not silently mistranslated.  The check at
  line 199 asks only that the edge test be a node of the condition, and line
  295 drops all of it: `rising_edge(clk) and en = '1'` loses its enable.  What
  `analyzeProcesses` says of such a process is hif-core's; it is taken to find
  the clock in it.
- `process_kind_maybe`: the comment at `VerilogPrinter.cpp:2346` has it that a
  process with an untagged empty wait cannot loop.  One whose `wait;` is under a
  condition does, until the condition holds; it is printed as an `initial`.
- `port_drivers_split`: `PostRefineMethods.hpp:42` asks for a reg where a
  process drives and for a wire where something else does.  An out port or a
  signal with bits of both kinds is declared a wire that a process assigns.

The other inputs below are left out of the passing runs, which would fail on
them.  Most of the sets that have them are defined in the MC modules; TLC finds
the violation when the named constant is given that value.

- A process whose conditions are not bare edges and resets (`ClockedProcess`,
  `OnlyEdgeOrReset`): an enable beside the edge is dropped with it (`Sources <-
  MCEnabled`); of the alternatives before the edge only the first is looked at
  (line 54), so that one after it, or a test of data, may sample on the
  inactive edge (`Sources <- MCTestsData`).  `NeverMistranslated` fails on both.
- A reset that becomes unknown again: Verilog's `posedge` includes 0 to x, and
  the else it falls to is the clocked branch (`ClockedProcess`, `Glitches <-
  {"rst"}`; the theorem has `Glitches = {}` as its hypothesis).
- An `initial` that waits, printed as an `always` (`ProcessKind`, `Processes <-
  WaitingStartup`), if the front end leaves nothing in it that says it stops.
- A port driven only through an out argument, with a stated value or inout
  (`PortDrivers`, `Decls <- TaskDecls`); a concurrently driven signal with a
  stated value (`StatedDecls`); an inout port with two processes on one bit
  (`ContestedDecls`).
- A signal that a process both assigns and passes to a procedure
  (`Subprograms`, `Routines <- MCMixedRoutines`).
- A pulse shorter than the delay of a net (`DelayedAssignment`, `Hold = 0`); a
  process sensitive to the level of its clock whose own output is delayed
  (`Designs <- LevelDesigns`); a process that waits for an edge and reads a
  delayed net, which the comment at `VerilogPrinter.cpp:1524` takes as the
  lesser error.
- An absolute delay with a fraction of its unit, `after 1.5 ns`: the unit it is
  written in becomes the precision too and the simulator rounds it.
- `wait until c` in VHDL's own reading, in which c already true does not
  resume: the HIF does not tell it from Verilog's level wait.

The runtime library does the following.  Where a property would fail on it, an
operator beside the property names the exception (`Plain` for loads,
`ValuedOtherwise` for operators, `MovedOtherwise` for moves, `missed` for
`'last_value`); the others are in the model, or in the bounds, and no property
speaks of them:

- Text files: the reads of integers and reals report failure unless the line is
  empty, a time is never read, and strings, std_logic vectors, hex and octal
  words are read without being taken off the line; behind blanks a part of a
  word stays.  `hwrite` and `owrite` write only zeros, `writeline` writes no
  newline, a last line whose length is a multiple of 255 and which has no
  newline is lost, and left-justified values are padded on both sides.
- Memory loads: with `min` other than 0 all overloads but one compare the stop
  address unadjusted; downward loads are off by one; a last word without newline
  is dropped; a directive before the window is loaded; two directives in a row or
  one at the end abort, as does any directive in the hdtlib overloads; short hex
  words are sign-extended.
- System tasks: the stream of a descriptor keeps the mode it was first used in;
  `$fscanf` and `$fdisplay` on a file of the wrong mode end the simulation; text
  shown after `$finish` in the same delta still appears.  The definitions are
  called `hif_verilog__system_*` and the header declares
  `hif_verilog_system_*`; `$fopen` is not defined.
- Operators: `shr` by 0 and `shr` and `shl` by a count whose top bit is set abort;
  the arithmetic shift right writes the sign to the low bits; `hif__op_lt` is
  called where the template is `hif_op_lt`; nand, nor and xnor reductions are
  called by an empty suffix; hdtlib's `to_bitvector` ignores `xmap`; a power of
  any even base is a shift of 1.  The model leaves out `--noRealEquals`, the cast
  of a real operand of mod to an integer, the reversal of strings, and that C++
  promotes the `~0` of a native reduction to an int.
- Moves: a packed vector assigned to a slice of a packed signal overwrites all of
  it; masks for a slice of an integer that has its first or last bit shift by the
  full width, which is undefined; string slices are replaced at their left bound.
- `'last_value` misses a value when a signal changes more than once between two
  reads: it is brought up to date when it is read.

Of the back ends, with the operator that excepts them where there is one:

- Edge lists (`Settles`): a reset branch that samples data, or an asynchronous
  body, runs again on other edges once rebuilt, and samples there.
- Waits (`Claimed`, `Printable`): after a time with edges alone a comma is missing
  and C++ does not read it; a condition beside a list or a time does not suspend
  when it holds already, is woken by its own signals as well, and goes back to
  sleep when only the time is up.  A constant false condition becomes a return,
  which the model leaves out, and the conditions it has are of one signal.
- Expressions (`Misprinted`): `a > (b < c)` loses its parentheses, and equal
  signs of unary operators are glued (`- -a`).
- Exits (`Expected`): a break that names its process loses its label and is printed
  outside of any loop, or ends the loop of the thread; one without a label inside
  a switch that stays leaves the switch; a for without declarations and initial
  values is printed with one `;` too few, which the model leaves out.
- Overloads: with `keepBit` a bit clashes with a vector in the first parameter, and
  is renamed without need, which does no harm.
- Ports: all of an out port as the actual of an in port is a read that
  `_needFix` takes for a driver.  A new name is not compared with those there
  are (`_x` and `id_x`), a trailing underscore stays, and the signal of a port
  gives it a delta more.
- Cases (no module): `VhdlPreRefine_misc.cpp:458` looks at the When itself for the
  cases 1 to 3 of its comment, which therefore never happen: each becomes a call
  of `when_function`.

## Proofs

TLAPS checks these for every value of the constants, under the assumptions the
modules name.

`ClockedProcessProofs`:

- `TypeCorrect` (`Spec => []TypeOK`): a process that the pass accepts becomes a
  block that tests no edge, whatever its conditions and however many its
  alternatives.
- `TranslationCorrect` (`Glitches = {} => (Spec => []SameRegister)`): the block
  and the process drive the same register, for every set of data and of
  statements and for every process, with any number of alternatives, whose
  conditions are bare edges and resets (`OnlyEdgeOrReset`).  Equality of
  the registers is not inductive: on the inactive clock edge VHDL runs its reset
  branch again and the block does not.  The invariant adds `Held`: while the
  reset is active, the register has the value that the first reset branch assigns
  (a later one is never taken).  It is `IdempotentReset`, one of the refusals of
  the pass, that makes `Held` inductive: the branch assigns a value that does not
  depend on the data.
- `ClockedBranchOnEdge` (`Glitches = {} => (Spec => ClockedBranchNeedsEdge)`): only
  the working edge of the clock runs the clocked branch of a rebuilt process.
  The release of a reset and a change of data do not wake the block; the lemma
  `Wakes` says what does.

`HifAfterProofs`:

- `TypeCorrect`, `ActiveAlwaysRegistered`, `NeverDangling`: the three follow
  from one invariant, `WellHeap` of the registry and the functors, which each of
  construct, copy and destroy preserves on its own (`AddEffect` and
  `DestroyEffect` say what each does to a heap), plus that no functor is past
  due.
- `Refinement` (`Spec => ImplementsTransport`): each call replaces at most the
  pending assignment of its own key in the wave of `TransportDelay`, each run
  delivers the one that is due, and destroying changes no wave.  The core is
  that at most one active functor is due for a site at an instant
  (two would have one key, and the registry names one).

`WaitLoweringProofs`:

- `TypeCorrect` (`Spec => []TypeOK`) and `ReasonsArmed` (`Spec => []EveryReasonArmed`):
  both follow from `OneEach`, that a block which is not over has exactly one
  branch of each kind it was printed with.  Updates and the passing of time
  replace branches one for one (`OneForOne`), and a branch that ends takes all
  the others with it.
- `Refinement` (`Spec => ImplementsWait`): for every statement, any signals and
  timeout, the block implements `WaitStatement`.  `ChangeResumes` is the core: an
  update makes some branch end exactly when it resumes the wait, kind by kind of
  branch.  As in the run, a racing behaviour maps to a wait that nothing happens
  to.

`ProcessKindProofs` (all under `\A p \in Processes : Supported(p)`, for bodies of
any length):

- `TypeCorrect` (`Spec => []TypeOK`), `WaitsEveryTurn` (`Spec => []NeverSpins`) and
  `ActsAlike` (`Spec => []SameOutput`).  The two processes run on their own between
  events, one ahead of the other, so equality is no invariant, and neither run
  can be compared with a length or a function computed by recursion.  The
  invariant says instead that both are on one way: there is a trace `f` of the
  turn since the last event, and one `g` of the turn after it, and each run has
  assigned what the trace has at its place and passed no wait (`Follows`,
  `Beside`).  Traces exist for every body (`TraceExists`, by the least place that
  none reaches), and at an event both runs have come to the same wait
  (`SameEvent`, `Agree`).  A run that goes into a second turn can do so only
  if the body has no `wait;` ahead (`HaltAhead`), which is what keeps an
  `initial` and an `always` apart.

`PortDriversProofs` (all under `\A d \in Decls : Supported(d)`, for any number of
bits and drivers):

- `TypeCorrect` (`Spec => []TypeOK`) and `OutputElaborates` (`Spec =>
  []Elaborates`): what is printed follows from the declaration alone (`Decided`).
- `CarriesTheSame` (`Spec => []SameNet`): the invariant adds `Stored`, what the
  driver reg or the declared reg holds: the value of the one process that
  drives the bit, or what it begins with.  Then a net resolves the same set of
  values, but for a driver that yields beside others (`YieldsToOthers`), and a
  reg has one driver on each bit (`RegCarries`).

`BackendsProofs`:

- `TypeCorrect` (`Spec => []TypeOK`): a process that runs is a block woken by every
  signal its edge lists named, and the only edges it tests are its clocks', each
  the one its list gave.  What the pass builds is followed kind by kind of
  process (`TestsItsClocks`).
- `RebuildCorrect` (`Spec => []SameRegister`): for every set of data, of actions and of
  sources, a rebuilt process for which `Settles` holds drives what its source
  drives.  As in `ClockedProcess` the equality is not inductive; the invariant
  adds `Held`: as long as the literals that open a settled branch hold, the
  register is what the branch leaves.
- `WaitsResume` (`Waiting!Spec => ImplementsWait`): for every statement of the shapes that
  `Claimed` names, any signals and timeout, the thread implements
  `WaitStatement`.  The loop around a wait tests the condition only when an event
  wakes it, so the invariant has to say that a thread inside a wait for a
  condition alone has it false, and that its time is whole unless it counts one:
  then a change of the condition's signal (`WokenByCondition`) is the first moment
  it holds.
- `CallsFind` (`Renaming!Spec => []SameCallee`): for any overloads.  The invariant
  (`RenamingInv`) says that a subprogram keeps its name or has one of its own,
  that calls follow names, and that overloads C++ cannot tell apart are parted
  once the one of the inner scope was visited (`Parted`): what is
  renamed later does not take a name that was given before.
- `PortsCorrect` (`Porting!Spec => []SamePorts`): for every `WellFormed` entity, any
  mix of targets, actuals and reads, and any order of the visits.  The invariant
  (`PortInv`) says that a declaration has its old or its new name by whether it was
  visited, that a reference is to its object or to the one signal that was made
  for it, and that the k-th signal stands beside the k-th copy.  A reference can
  be renamed twice, so a new name has to be one that renaming leaves alone
  (`Analyzed`): no underscore in front and no two in a row, which is
  shown of the pieces that `AnalyzeString` joins by the first join that would
  break it.

- `ExitsCorrect` (`Leaving!Spec => []SameExit`): for statements nested to any depth,
  with names that differ from those around them.  The printed text is built from
  the jump outwards, so the lemmas say of it what survives that (`OutlineInOrder`):
  which piece comes right before which (`Precedes`: the close of a loop before its
  label of break or what follows the loop, a label before the place it is for) and that each
  close and label is there; then any jump to one lands there (`JumpsLand`).
  The invariant (`LeaveInv`) says that a jump that lost its name has nothing
  inside its loop that C++ could take for it, but switches that are still to become
  ifs (`IsFor`), and when the text is printed none is left.
- `TargetsAgree` (`Calling!Spec => []SameTarget`, for routines that are `WellFormed`
  and of `OneKindOfDriver`): for bodies and callers of any length.  A call of
  the source and one of the output are runs of two bodies side by side
  (`Abreast`), the output one statement ahead if it initialises the local first;
  they agree on every value that VHDL gives (`Agrees`), on whether the call is
  over, but after the last statement, whose return does not disable anything, and
  an out argument that was not assigned is still what the storage held.  So between
  two activations (`CallInv`) the storage of a procedure has to hold the signal
  it copied back last: an activation that does not assign it copies that back
  once more.

`OperatorsProofs`:

- `MovesCorrect` (`Moving!Spec => []SameMove`): for every `WellFormed` move, of any
  size and in every form it is given, each element is where HIF says.  The
  invariant (`MoveInv`) says only which form was chosen and what ran; the content is
  in the lemmas on the operators: masks for a slice of an integer select it bit
  by bit (`MasksRight`), the last pair of an aggregate that covers an element is
  the only one, or others (`AggregateRight`), and the two bounds of a target,
  however given, give one portion (`HifAssignRight`).
- `LastValueCorrect` (for constants that are vectors of the indices): a known bit of
  `'last_value` is the value before the bit's latest change, unless that was not
  its only change since the read before.  The invariant `BitInv` relates, bit by
  bit, the signal, the value kept at the read before, and the last values given;
  `MaskChanged` and `MaskKept` say what the mask of the code does to a bit.

`RuntimeFilesProofs`:

- `ArraySafe` (`Spec => []NeverOverruns`): for every array, call and file no word is
  stored outside the array.  The code compares an int with a size_t, so the
  lemma `PastArrayIsOutside` is what counts: an address below the array is, as a
  size_t, far above its length, as long as addresses are small against
  `SizeLimit` (`SizesAssumption`).
- `LoadCorrect` (`Spec => []LoadsInOrder`): the words of a load that is `Plain`
  end up where `$readmem` has them, for files of any length.  The invariant
  relates the position in the file to the cell (`Placed`): the cell is that of the
  word at the position, counted from the last directive before it; what is
  before the position is settled.
- `LinesTypes`, `FailedReadsKeep` (`Lines!Spec => FailedReadKeepsLine`) and
  `ReadsTakeWords` (`Lines!Spec => TakesItsWord`): for every line and every
  read.  The lemma both rest on, `OnlyReadsUseUp`, says that a step that makes a line
  shorter without reading or writing a line is a read that took the whole first
  word; `ReadingFits` shows it of each of the sixteen reads, most of which take
  nothing.
- `TextsKept` (under `Modes \in Seq({"read", "write", "both"})`): for all files and
  descriptors, each text goes to the file that its descriptor stood for when the
  text was written.  The invariant `StreamOfHeld` says that a stream does not
  outlive the file of its descriptor: a number that is given out again never
  finds the stream of the file that had it before.
- `LinesInOrder` (`Lines!Spec => []RecordsInOrder`, if the last line of each content
  `KeepsLast`): the records are the lines of the file, in order and whole.  The
  reader takes a line in pieces of its buffer; the invariant (`ReadInv`) says that
  what is unread begins a line of the file and that as many newlines are before
  it as lines were read, so the k-th record is what is between the k-th
  newline and the one before.
- `WordsStayApart` (`Lines!Spec => []WritesApart`, if every write to a line is
  `OneWord`): what was written is read back as the same words.  The invariant
  (`WordsInv`) ranks the starts of the words of the line; a write puts one word
  behind the others with a blank between, padded or not.
- `TypeCorrect` (`RuntimeSpec => []RuntimeTypeOK`): the types of the three together;
  a behaviour of `RuntimeSpec` is one of each (`Parts`).

Only model-checked, and why:

- liveness (`EntriesGivenBack`, `TimeoutResumes`), which the prover does not do;
- `DelayedAssignment` and `CppExpressions`, which recur over statements and trees
  with RECURSIVE operators: what they compute for every input needs an induction
  that the provers cannot instantiate;
- `SameValue` and `KnownIsCertain`, which compare sums of powers of two over the
  bits of a vector.

## Not modelled

- Literals, names, types, casts and layout of the printers, and the rules of
  Verilog for the width of an expression, which need its whole expression
  language; hoisted for indices, whose fresh names are hif-core's.
- File names, command lines, makefiles and headers.
- Other passes of `hif2vhdl` and `hif2sc`: rewritings of one node into another,
  without state, whose meaning is in hif-core's language semantics; includes and
  C++ types; the numbered steps, which are a list of calls.
- `analyzeProcesses`, the name table, references and the trees themselves:
  hif-core, external wherever they are used.
- `$random`, formatted text of `$display`, hdtlib's and SystemC's own types beyond
  what `LogicVectors` says of them.
- No crash recovery, locks or messages: the tools are sequential programs that
  write their output once, and the runtime is driven by SystemC's cooperative
  scheduler.

What would come next: the width rules of casts.
