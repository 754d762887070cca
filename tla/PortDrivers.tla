------------------------------ MODULE PortDrivers ------------------------------
(***************************************************************************)
(* One signal or port on its way to Verilog: who drives it in HIF, what    *)
(* lowerProcedurallyDrivenInoutPorts does to it, whether it is declared a  *)
(* reg or a net (collectContinuouslyDrivenDeclarations, getDeclaration),   *)
(* which drivers visitDesignUnit and visitGlobalAction print, and what the *)
(* printed object then carries, next to what VHDL resolves.                *)
(*                                                                         *)
(* A driver is a pair <<writer, bit>>; each writer has a kind:             *)
(*   "process"   assignments in a process                                  *)
(*   "task"      a process that passes it as an out argument               *)
(*   "global"    a concurrent assignment                                   *)
(*   "instance"  an output of a child                                      *)
(*   "outside"   the other side of an inout port                           *)
(***************************************************************************)
EXTENDS Naturals, FiniteSets

CONSTANTS
  Bits,
  Kind,    \* the kind of each writer
  Decls    \* the declarations translated

Writers == DOMAIN Kind
Values  == {"0", "1", "Z", "X"}
Kinds   == {"process", "task", "global", "instance", "outside"}
Decl == [class : {"signal", "out", "inout"}, stated : {"none", "0", "1"},
         drivers : SUBSET (Writers \X Bits)]
ASSUME KindAssumption == \A w \in Writers : Kind[w] \in Kinds
ASSUME DeclsAssumption ==
  /\ Decls \subseteq Decl
  /\ \A d \in Decls : (\E x \in d.drivers : Kind[x[1]] = "outside") => d.class = "inout"

(* The declarations the printer gets right, of those a HIF design may      *)
(* have: no bit has two procedural drivers; a process and a concurrent     *)
(* driver share an inout port only; an inout port is not passed to a task, *)
(* nor an out port that states a value; and a signal that states one has   *)
(* no concurrent driver.                                                   *)
DrivenBy(d, kinds) == {x \in d.drivers : Kind[x[1]] \in kinds}
Supported(d) ==
  LET tasks == DrivenBy(d, {"task"})
      procedural == DrivenBy(d, {"process", "task"})
      continuous == DrivenBy(d, {"global", "instance"})
  IN  /\ \A x, y \in procedural : x[2] = y[2] => x = y
      /\ d.class # "inout" => procedural = {} \/ continuous = {}
      /\ tasks # {} => d.class = "signal" \/ (d.class = "out" /\ d.stated = "none")
      /\ continuous # {} => d.class # "signal" \/ d.stated = "none"

VARIABLES
  decl,     \* the declaration
  phase,    \* "lower", "collect" or "run"
  lowered,  \* it was given a driver reg
  net,      \* it is declared as a net
  assigns,  \* what is printed besides: "value" and "driver" assigns, "initial" block, "init"ializer
  value,    \* what each driver contributes in the source
  wrote,    \* the procedural drivers that have assigned
  store     \* the bits of the reg, the declared one or the driver reg

vars == <<decl, phase, lowered, net, assigns, value, wrote, store>>

By(kinds)   == DrivenBy(decl, kinds)
Procedural  == By({"process", "task"})
Continuous  == By({"global", "instance"})

(* The wire resolution both languages share: Z yields, a conflict is X.    *)
Resolve(vs) ==
  LET driven == vs \ {"Z"}
  IN  IF vs = {} THEN "X" ELSE IF driven = {} THEN "Z"
      ELSE IF Cardinality(driven) = 1 THEN CHOOSE v \in driven : TRUE ELSE "X"
Unassigned == IF decl.stated = "none" THEN "X" ELSE decl.stated

-----------------------------------------------------------------------------
Init ==
  /\ decl \in Decls
  /\ phase = "lower"
  /\ lowered = FALSE /\ net = FALSE /\ assigns = {}
  /\ value \in [decl.drivers -> Values]
  /\ \A x \in decl.drivers :
       IF Kind[x[1]] \in {"process", "task"} THEN value[x] = Unassigned ELSE value[x] # "X"
  /\ wrote = {}
  /\ store = [b \in Bits |-> "X"]

LowersOutputsToo ==
  /\ phase = "lower"
  /\ lowered' = (decl.class # "signal" /\ By({"process"}) # {})
  /\ store' = IF lowered' THEN [b \in Bits |-> "Z"] ELSE store
  /\ phase' = "collect"
  /\ UNCHANGED <<decl, net, assigns, value, wrote>>
DriverStartsUnknown ==
  /\ phase = "lower"
  /\ lowered' = (decl.class = "inout" /\ By({"process"}) # {})
  /\ phase' = "collect"
  /\ UNCHANGED <<decl, net, assigns, value, wrote, store>>
(* PostRefine_inoutPort::visitView.  The assignments it collects are those *)
(* whose target is the port itself; their targets move to a fresh reg,     *)
(* high impedance until written, that drives the whole port.               *)
LowerInout ==
  /\ phase = "lower"
  /\ lowered' = (decl.class = "inout" /\ By({"process"}) # {})
  /\ store' = IF lowered' THEN [b \in Bits |-> "Z"] ELSE store
  /\ phase' = "collect"
  /\ UNCHANGED <<decl, net, assigns, value, wrote>>

(* collectContinuouslyDrivenDeclarations: a global action or an instance   *)
(* makes a net; an output port whose value nothing else drives is written  *)
(* back as a continuous assign, one that is assigned as an initial block.  *)
(* A signal prints its value as an initializer, net or not.                *)
IgnoresProcesses(d) == By({"global"}) = {}
NobodyAssigns(d) == By({"process", "global"}) = {}
Collected ==
  LET stated == decl.stated # "none"
      driven == Continuous # {} \/ lowered
      restated == decl.class = "out" /\ stated /\ ~driven
      only == restated /\ NobodyAssigns(decl)
  IN  [net |-> driven \/ only \/ decl.class = "inout",
       assigns |-> (IF only THEN {"value"} ELSE {})
         \cup (IF restated /\ ~only THEN {"initial"} ELSE {})
         \cup (IF decl.class = "signal" /\ stated THEN {"init"} ELSE {})
         \cup (IF lowered THEN {"driver"} ELSE {})]

(* visitDesignUnit prints the declaration and its drivers. *)
PrintDesignUnit ==
  /\ phase = "collect"
  /\ net' = Collected.net
  /\ assigns' = Collected.assigns
  /\ store' = IF ~Collected.net /\ Collected.assigns \cap {"initial", "init"} # {}
              THEN [b \in Bits |-> decl.stated] ELSE store
  /\ phase' = "run"
  /\ UNCHANGED <<decl, lowered, value, wrote>>

(* A driver takes a new value in the source; a procedural one writes the   *)
(* reg in the output.                                                      *)
Drive(x, v) ==
  /\ phase = "run"
  /\ x \in decl.drivers
  /\ value' = [value EXCEPT ![x] = v]
  /\ IF x \in Procedural
     THEN wrote' = wrote \cup {x} /\ store' = [store EXCEPT ![x[2]] = v]
     ELSE UNCHANGED <<wrote, store>>
  /\ UNCHANGED <<decl, phase, lowered, net, assigns>>

Next ==
  \/ LowerInout \/ PrintDesignUnit
  \/ \E x \in Writers \X Bits, v \in Values \ {"X"} : Drive(x, v)
Spec == Init /\ [][Next]_vars

-----------------------------------------------------------------------------
(* What a bit carries in the source: the resolution of its drivers, or its *)
(* stated value when it has none.                                          *)
Carried(b) ==
  LET on == {x \in decl.drivers : x[2] = b}
  IN  IF on = {} THEN Unassigned ELSE Resolve({value[x] : x \in on})

(* What the printed bit carries, and so what a process that reads it sees: *)
(* the reg, or the resolution of everything printed that drives the net.   *)
PrintedRead(b) ==
  IF ~net THEN store[b]
  ELSE Resolve({value[x] : x \in {y \in Continuous \cup By({"outside"}) : y[2] = b}}
         \cup (IF "driver" \in assigns THEN {store[b]} ELSE {})
         \cup (IF assigns \cap {"value", "init"} # {} THEN {decl.stated} ELSE {}))
(* Every variable keeps its type, and only an inout port gets a driver.    *)
TypeOK ==
  /\ decl \in Decls /\ phase \in {"lower", "collect", "run"}
  /\ lowered \in BOOLEAN /\ net \in BOOLEAN
  /\ assigns \subseteq {"value", "driver", "initial", "init"}
  /\ value \in [decl.drivers -> Values]
  /\ wrote \subseteq Procedural
  /\ store \in [Bits -> Values]
  /\ lowered => decl.class = "inout"

(* The output elaborates: what a process assigns is a reg, and nothing     *)
(* drives a reg continuously (hif-backend#26, #32, #30, #36, #71).         *)
Elaborates ==
  phase = "run" =>
    /\ net => IF lowered THEN By({"task"}) = {} ELSE Procedural = {}
    /\ ~net => Continuous = {} /\ assigns \cap {"value", "driver"} = {}
    /\ net => "initial" \notin assigns

(* The printed object carries what VHDL resolves, on each bit that is      *)
(* driven, once its processes have assigned: no driver is lost or added, a *)
(* release by one driver lets the others through, and a read of an inout   *)
(* port sees the other side.                                               *)
Settled(b) == \A x \in Procedural : x[2] = b => x \in wrote \/ ~net
SameNet ==
  phase = "run" => \A b \in Bits :
    (\E x \in decl.drivers : x[2] = b) /\ Settled(b) => PrintedRead(b) = Carried(b)
=============================================================================
