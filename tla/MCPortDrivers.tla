---------------------------- MODULE MCPortDrivers ----------------------------
(***************************************************************************)
(* A two-bit object with up to two processes, a task, a concurrent         *)
(* assignment, an instance and the outside.                                *)
(***************************************************************************)
EXTENDS PortDrivers, TLC

MCBits == {0, 1}
MCKind == "p" :> "process" @@ "q" :> "process" @@ "t" :> "task" @@ "g" :> "global"
            @@ "i" :> "instance" @@ "e" :> "outside"

On(w, bits) == {w} \X bits
All(stated, drivers) ==
  {[class |-> c, stated |-> s, drivers |-> d] : c \in {"signal", "out", "inout"}, s \in stated, d \in drivers}
Opened(ds) ==
  ds \cup {[d EXCEPT !.drivers = @ \cup On("e", MCBits)] : d \in {x \in ds : x.class = "inout"}}

(* Processes on bits of their own, and concurrent drivers. *)
Processes ==
  All({"none", "1"}, {On("p", a) : a \in SUBSET MCBits} \cup {On("p", a) \cup On("q", MCBits \ a) : a \in SUBSET MCBits})
Nets == All({"none"}, {On("g", a) \cup On("i", b) : a, b \in SUBSET MCBits} \ {{}})
StatedPorts == {d \in All({"1"}, {On("g", a) \cup On("i", b) : a, b \in SUBSET MCBits}) : d.class # "signal"}
SplitPorts == {d \in All({"none"}, {On("p", a) \cup On("g", MCBits \ a) : a \in SUBSET MCBits}) : d.class = "inout"}
Tasks == {d \in All({"none"}, {On("t", a) : a \in SUBSET MCBits}) : d.class # "inout"}
MCDecls == Opened(Processes \cup Nets \cup StatedPorts \cup SplitPorts \cup Tasks)
ASSUME MCDeclsSupported == \A d \in MCDecls : Supported(d)

(* An output or a signal split between a process and a concurrent driver. *)
SplitDecls == {d \in All({"none"}, {On("p", {0}) \cup On("g", {1})}) : d.class # "inout"}
(* An object a process drives only by passing it to a task. *)
TaskDecls == {d \in All({"none", "1"}, {On("t", MCBits)}) : d.class # "signal"}
(* A concurrently driven signal with an initial value. *)
StatedDecls == {d \in All({"1"}, {On("g", MCBits)}) : d.class = "signal"}
(* An inout port that two processes drive. *)
ContestedDecls == {d \in All({"none"}, {On("p", {0}) \cup On("q", {0})}) : d.class = "inout"}
=============================================================================
