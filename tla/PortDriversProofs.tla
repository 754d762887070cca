---------------------------- MODULE PortDriversProofs ----------------------------
(***************************************************************************)
(* For any number of bits and of drivers, and for every declaration that   *)
(* Supported describes: the output elaborates, and the printed object      *)
(* carries what its source resolves.                                       *)
(***************************************************************************)
EXTENDS PortDrivers, FiniteSetTheorems, TLAPS

(* What the passes have decided: the pass gives a driver to the inout      *)
(* ports that processes drive, and the printer declares and prints what    *)
(* it collected.                                                           *)
Decided ==
  /\ lowered = (phase # "lower" /\ decl.class = "inout" /\ By({"process"}) # {})
  /\ phase = "run" => net = Collected.net /\ assigns = Collected.assigns

(* What the reg holds: what the last process to assign a bit gave it.      *)
(* Until one does, a driver reg yields, and a declared reg has the value   *)
(* the source starts with.                                                 *)
Stored ==
  /\ phase # "run" => wrote = {} /\ \A x \in Procedural : value[x] = Unassigned
  /\ phase # "run" /\ ~lowered => store = [b \in Bits |-> "X"]
  /\ phase = "collect" /\ lowered => store = [b \in Bits |-> "Z"]
  /\ phase = "run" =>
       /\ \A x \in Procedural : x \in wrote \/ ~net => store[x[2]] = value[x]
       /\ lowered => \A b \in Bits : (\A x \in Procedural : x[2] # b) => store[b] = "Z"

IInv == TypeOK /\ Supported(decl) /\ Decided /\ Stored

-----------------------------------------------------------------------------
(* The drivers of a declaration, by kind. *)
LEMMA DriverKinds ==
  ASSUME TypeOK
  PROVE  /\ decl.class \in {"signal", "out", "inout"} /\ decl.stated \in {"none", "0", "1"}
         /\ \A x \in decl.drivers : x[1] \in Writers /\ x[2] \in Bits /\ Kind[x[1]] \in Kinds
         /\ By({"outside"}) # {} => decl.class = "inout"
<1>1. decl \in Decl /\ decl.drivers \subseteq Writers \X Bits
  BY DeclsAssumption DEF TypeOK, Decl
<1>2. \A x \in Writers \X Bits : x[1] \in Writers /\ x[2] \in Bits
  OBVIOUS
<1>3. \A x \in decl.drivers : x[1] \in Writers /\ x[2] \in Bits /\ Kind[x[1]] \in Kinds
  BY <1>1, <1>2, KindAssumption
<1>4. By({"outside"}) # {} => decl.class = "inout"
  BY DeclsAssumption DEF TypeOK, By, DrivenBy
<1> QED
  BY <1>1, <1>3, <1>4 DEF Decl

(* What Supported says of the declaration that is translated. *)
LEMMA SupportedKinds ==
  ASSUME Supported(decl)
  PROVE  /\ \A x, y \in Procedural : x[2] = y[2] => x = y
         /\ decl.class # "inout" => Procedural = {} \/ Continuous = {}
         /\ By({"task"}) # {} => decl.class = "signal" \/ (decl.class = "out" /\ decl.stated = "none")
         /\ Continuous # {} => decl.class # "signal" \/ decl.stated = "none"
BY DEF Supported, Procedural, Continuous, By

(* How the printer declares and drives what it collects. *)
LEMMA CollectedOf ==
  ASSUME TypeOK
  PROVE  /\ Collected.net \in BOOLEAN /\ Collected.assigns \subseteq {"value", "driver", "initial", "init"}
         /\ "driver" \in Collected.assigns <=> lowered
         /\ "init" \in Collected.assigns <=> decl.class = "signal" /\ decl.stated # "none"
         /\ "value" \in Collected.assigns \/ "initial" \in Collected.assigns
              <=> decl.class = "out" /\ decl.stated # "none" /\ Continuous = {} /\ ~lowered
         /\ "value" \in Collected.assigns => NobodyAssigns(decl)
         /\ "initial" \in Collected.assigns => ~NobodyAssigns(decl)
         /\ Collected.net <=> \/ Continuous # {} \/ lowered \/ decl.class = "inout"
                              \/ "value" \in Collected.assigns
BY DEF TypeOK, Collected

-----------------------------------------------------------------------------
LEMMA InitInv ==
  ASSUME \A d \in Decls : Supported(d), Init
  PROVE  IInv
<1>1. decl \in Decls /\ phase = "lower" /\ lowered = FALSE /\ net = FALSE /\ assigns = {}
      /\ value \in [decl.drivers -> Values] /\ wrote = {} /\ store = [b \in Bits |-> "X"]
      /\ \A x \in Procedural : value[x] = Unassigned
  BY DEF Init, Procedural, By, DrivenBy
<1>2. TypeOK
  BY <1>1 DEF TypeOK, Values
<1>3. Supported(decl)
  BY <1>1
<1> QED
  BY <1>1, <1>2, <1>3 DEF IInv, Decided, Stored

LEMMA LowerInoutInv ==
  ASSUME IInv, LowerInout
  PROVE  IInv'
<1>1. /\ phase = "lower" /\ phase' = "collect" /\ UNCHANGED <<decl, net, assigns, value, wrote>>
      /\ lowered' = (decl.class = "inout" /\ By({"process"}) # {})
      /\ store' = (IF lowered' THEN [b \in Bits |-> "Z"] ELSE store)
  BY DEF LowerInout
<1>2. By({"process"})' = By({"process"}) /\ Procedural' = Procedural /\ Unassigned' = Unassigned
  BY <1>1 DEF By, Procedural, Unassigned
<1>3. TypeOK'
  BY <1>1, <1>2 DEF IInv, TypeOK, Values
<1>4. Supported(decl)'
  BY <1>1 DEF IInv
<1>5. Decided'
  BY <1>1, <1>2 DEF Decided
<1>6. Stored'
  BY <1>1, <1>2 DEF IInv, Decided, Stored
<1> QED
  BY <1>3, <1>4, <1>5, <1>6 DEF IInv

(* Nothing that is read off a declaration changes while it does not. *)
LEMMA SameDeclaration ==
  ASSUME UNCHANGED <<decl, lowered>>
  PROVE  /\ Procedural' = Procedural /\ By({"process"})' = By({"process"})
         /\ Unassigned' = Unassigned /\ Collected' = Collected
<1>1. \A kinds : DrivenBy(decl', kinds) = DrivenBy(decl, kinds)
  OBVIOUS
<1>2. Procedural' = Procedural /\ By({"process"})' = By({"process"}) /\ Continuous' = Continuous
  BY <1>1 DEF Procedural, Continuous, By, DrivenBy
<1>3. Unassigned' = Unassigned
  BY DEF Unassigned
<1>4. NobodyAssigns(decl)' = NobodyAssigns(decl)
  BY DEF NobodyAssigns, By, DrivenBy
<1>5. Collected' = Collected
  BY <1>2, <1>4 DEF Collected
<1> QED
  BY <1>2, <1>3, <1>5

LEMMA PrintInv ==
  ASSUME IInv, PrintDesignUnit
  PROVE  IInv'
<1>1. /\ phase = "collect" /\ phase' = "run" /\ UNCHANGED <<decl, lowered, value, wrote>>
      /\ net' = Collected.net /\ assigns' = Collected.assigns
      /\ store' = (IF ~Collected.net /\ Collected.assigns \cap {"initial", "init"} # {}
                   THEN [b \in Bits |-> decl.stated] ELSE store)
  BY DEF PrintDesignUnit
<1>2. /\ By({"process"})' = By({"process"}) /\ Procedural' = Procedural
      /\ Unassigned' = Unassigned /\ Collected' = Collected
  BY <1>1, SameDeclaration
<1>3. TypeOK /\ Supported(decl) /\ Decided /\ Stored
  BY DEF IInv
<1>4. TypeOK'
  <2>1. Collected.net \in BOOLEAN /\ Collected.assigns \subseteq {"value", "driver", "initial", "init"}
    BY <1>3, CollectedOf
  <2>2. Collected.assigns \cap {"initial", "init"} # {} => decl.stated \in Values
    BY <1>3, DriverKinds, CollectedOf DEF Values
  <2>3. store' \in [Bits -> Values]
    BY <1>1, <1>3, <2>2 DEF TypeOK
  <2> QED
    BY <1>1, <1>2, <1>3, <2>1, <2>3 DEF TypeOK
<1>5. Decided'
  BY <1>1, <1>2, <1>3 DEF Decided
<1>6. ASSUME NEW x \in Procedural, ~Collected.net PROVE store'[x[2]] = value[x]
  <2>1. value[x] = Unassigned /\ wrote = {} /\ ~lowered /\ Continuous = {} /\ decl.class # "inout"
    BY <1>1, <1>3, <1>6, CollectedOf DEF Stored
  <2>2. x[2] \in Bits
    BY <1>3, DriverKinds DEF Procedural, By, DrivenBy
  <2>3. store = [b \in Bits |-> "X"]
    BY <1>1, <1>3, <2>1 DEF Stored
  <2>4. CASE decl.stated = "none"
    <3>1. Collected.assigns \cap {"initial", "init"} = {}
      BY <1>3, <2>4, CollectedOf
    <3> QED
      BY <1>1, <2>1, <2>2, <2>3, <2>4, <3>1 DEF Unassigned
  <2>5. CASE decl.stated # "none"
    <3>1. Collected.assigns \cap {"initial", "init"} # {}
      BY <1>3, <1>6, <2>1, <2>5, DriverKinds, CollectedOf
    <3> QED
      BY <1>1, <1>6, <2>1, <2>2, <2>5, <3>1 DEF Unassigned
  <2> QED
    BY <2>4, <2>5
<1>7. ASSUME lowered, NEW b \in Bits PROVE store'[b] = "Z"
  BY <1>1, <1>3, <1>7, CollectedOf DEF Stored
<1>8. Stored'
  BY <1>1, <1>2, <1>3, <1>6, <1>7 DEF Stored
<1> QED
  BY <1>1, <1>3, <1>4, <1>5, <1>8 DEF IInv

LEMMA DriveInv ==
  ASSUME IInv, NEW x \in Writers \X Bits, NEW v \in Values \ {"X"}, Drive(x, v)
  PROVE  IInv'
<1>1. /\ phase = "run" /\ x \in decl.drivers /\ value' = [value EXCEPT ![x] = v]
      /\ UNCHANGED <<decl, phase, lowered, net, assigns>>
      /\ x \in Procedural => wrote' = wrote \cup {x} /\ store' = [store EXCEPT ![x[2]] = v]
      /\ x \notin Procedural => UNCHANGED <<wrote, store>>
  BY DEF Drive
<1>2. /\ By({"process"})' = By({"process"}) /\ Procedural' = Procedural
      /\ Unassigned' = Unassigned /\ Collected' = Collected
  BY <1>1, SameDeclaration
<1>3. TypeOK /\ Supported(decl) /\ Decided /\ Stored
  BY DEF IInv
<1>4. x[2] \in Bits /\ v \in Values /\ Procedural \subseteq decl.drivers
  BY DEF Procedural, By, DrivenBy
<1>5. TypeOK'
  BY <1>1, <1>2, <1>3, <1>4 DEF TypeOK
<1>6. Decided'
  BY <1>1, <1>2, <1>3 DEF Decided
<1>7. ASSUME NEW y \in Procedural, y \in wrote' \/ ~net PROVE store'[y[2]] = value'[y]
  <2>1. store \in [Bits -> Values] /\ value \in [decl.drivers -> Values] /\ y \in decl.drivers
    BY <1>3, <1>4, <1>7 DEF TypeOK
  <2>2. CASE x = y
    BY <1>1, <1>4, <1>7, <2>1, <2>2
  <2>3. CASE x # y
    <3>1. x \in Procedural => x[2] # y[2]
      BY <1>3, <1>7, <2>3, SupportedKinds
    <3>2. store'[y[2]] = store[y[2]] /\ value'[y] = value[y]
      <4>1. y[2] \in Bits
        BY <1>3, <2>1, DriverKinds
      <4>2. value'[y] = value[y]
        BY <1>1, <2>1, <2>3
      <4>3. store'[y[2]] = store[y[2]]
        BY <1>1, <1>4, <2>1, <3>1, <4>1
      <4> QED
        BY <4>2, <4>3
    <3>3. y \in wrote \/ ~net
      BY <1>1, <1>7, <2>3
    <3> QED
      BY <1>1, <1>3, <1>7, <3>2, <3>3 DEF Stored
  <2> QED
    BY <2>2, <2>3
<1>8. ASSUME lowered, NEW b \in Bits, \A y \in Procedural : y[2] # b PROVE store'[b] = "Z"
  <2>1. store[b] = "Z" /\ store \in [Bits -> Values]
    BY <1>1, <1>3, <1>8 DEF Stored, TypeOK
  <2> QED
    BY <1>1, <1>4, <1>8, <2>1
<1>9. Stored'
  BY <1>1, <1>2, <1>7, <1>8 DEF Stored
<1> QED
  BY <1>1, <1>3, <1>5, <1>6, <1>9 DEF IInv

LEMMA StepInv == IInv /\ [Next]_vars => IInv'
<1>1. ASSUME IInv, UNCHANGED vars PROVE IInv'
  <2>1. UNCHANGED <<decl, phase, lowered, net, assigns, value, wrote, store>>
    BY <1>1 DEF vars
  <2>2. /\ Procedural' = Procedural /\ By({"process"})' = By({"process"})
        /\ Unassigned' = Unassigned /\ Collected' = Collected
    BY <2>1, SameDeclaration
  <2> QED
    BY <1>1, <2>1, <2>2 DEF IInv, TypeOK, Decided, Stored
<1> QED
  BY <1>1, LowerInoutInv, PrintInv, DriveInv DEF Next

-----------------------------------------------------------------------------
(* A driver that yields changes nothing, beside others. *)
LEMMA YieldsToOthers ==
  ASSUME NEW vs, vs # {}
  PROVE  Resolve(vs \cup {"Z"}) = Resolve(vs)
<1>1. (vs \cup {"Z"}) \ {"Z"} = vs \ {"Z"} /\ vs \cup {"Z"} # {}
  OBVIOUS
<1> DEFINE R(us) == IF us = {} THEN "Z" ELSE IF Cardinality(us) = 1 THEN CHOOSE v \in us : TRUE ELSE "X"
<1>2. \A ws : ws # {} => Resolve(ws) = R(ws \ {"Z"})
  BY DEF Resolve
<1> HIDE DEF R
<1>3. R((vs \cup {"Z"}) \ {"Z"}) = R(vs \ {"Z"})
  BY ONLY <1>1
<1> QED
  BY <1>1, <1>2, <1>3

LEMMA OneDriver ==
  ASSUME NEW v
  PROVE  Resolve({v}) = v
<1>1. CASE v = "Z"
  <2>1. {v} \ {"Z"} = {} /\ {v} # {}
    BY <1>1
  <2> QED
    BY <1>1, <2>1 DEF Resolve
<1>2. CASE v # "Z"
  <2>1. {v} \ {"Z"} = {v} /\ {v} # {}
    BY <1>2
  <2>2. Cardinality({v}) = 1
    BY FS_Singleton
  <2>3. (CHOOSE x \in {v} : TRUE) = v
    OBVIOUS
  <2> QED
    BY <2>1, <2>2, <2>3 DEF Resolve
<1> QED
  BY <1>1, <1>2

(* The drivers on a bit, in the source and as they are printed. *)
On(b)     == {x \in decl.drivers : x[2] = b}
Others(b) == {x \in Continuous \cup By({"outside"}) : x[2] = b}

LEMMA DriversOnBit ==
  ASSUME TypeOK, NEW b \in Bits
  PROVE  /\ On(b) = Others(b) \cup {x \in Procedural : x[2] = b}
         /\ Carried(b) = IF On(b) = {} THEN Unassigned ELSE Resolve({value[x] : x \in On(b)})
<1>1. \A x \in decl.drivers : Kind[x[1]] \in Kinds
  BY DriverKinds
<1>2. On(b) = Others(b) \cup {x \in Procedural : x[2] = b}
  BY <1>1 DEF On, Others, Procedural, Continuous, By, DrivenBy, Kinds
<1> QED
  BY <1>2 DEF Carried, On

(* A net carries what its drivers do, the processes through their reg. *)
LEMMA NetCarries ==
  ASSUME IInv, phase = "run", net, NEW b \in Bits, On(b) # {}, Settled(b)
  PROVE  PrintedRead(b) = Carried(b)
<1>1. TypeOK /\ Supported(decl) /\ Decided /\ Stored /\ net = Collected.net /\ assigns = Collected.assigns
  BY DEF IInv, Decided
<1>2. lowered => decl.class = "inout" /\ By({"process"}) # {} /\ By({"task"}) = {}
  BY <1>1, SupportedKinds DEF Decided
<1>3. ~lowered => Procedural = {}
  <2>1. ASSUME ~lowered, decl.class = "inout" PROVE Procedural = {}
    <3>1. By({"process"}) = {} /\ By({"task"}) = {}
      BY <1>1, <2>1, SupportedKinds DEF Decided
    <3> QED
      BY <3>1 DEF Procedural, By, DrivenBy
  <2>2. ASSUME ~lowered, decl.class # "inout", Continuous = {} PROVE Procedural = {}
    <3>1. "value" \in Collected.assigns
      BY <1>1, <2>2, CollectedOf
    <3>2. decl.class = "out" /\ decl.stated # "none" /\ NobodyAssigns(decl)
      BY <1>1, <3>1, CollectedOf
    <3>3. By({"process"}) = {} /\ By({"task"}) = {}
      BY <1>1, <3>2, SupportedKinds DEF NobodyAssigns, By, DrivenBy
    <3> QED
      BY <3>3 DEF Procedural, By, DrivenBy
  <2> QED
    BY <1>1, <2>1, <2>2, SupportedKinds
<1>4. Others(b) # {} => assigns \cap {"value", "init"} = {}
  <2>1. Continuous # {} => "init" \notin Collected.assigns /\ "value" \notin Collected.assigns
    BY <1>1, SupportedKinds, CollectedOf
  <2>2. By({"outside"}) # {} => "init" \notin Collected.assigns /\ "value" \notin Collected.assigns
    BY <1>1, DriverKinds, CollectedOf
  <2> QED
    BY <1>1, <2>1, <2>2 DEF Others
<1>5. lowered => assigns \cap {"value", "init"} = {}
  BY <1>1, <1>2, CollectedOf
<1> DEFINE others == {value[x] : x \in Others(b)}
<1>6. CASE ~lowered
  <2>1. On(b) = Others(b) /\ Others(b) # {}
    BY <1>1, <1>3, <1>6, DriversOnBit
  <2>2. "driver" \notin assigns /\ assigns \cap {"value", "init"} = {}
    BY <1>1, <1>4, <1>6, <2>1, CollectedOf
  <2>3. PrintedRead(b) = Resolve(others)
    BY <2>2 DEF PrintedRead, Others
  <2> QED
    BY <1>1, <2>1, <2>3, DriversOnBit
<1>7. CASE lowered
  <2>1. "driver" \in assigns
    BY <1>1, <1>7, CollectedOf
  <2>2. PrintedRead(b) = Resolve(others \cup {store[b]})
    BY <1>5, <1>7, <2>1 DEF PrintedRead, Others
  <2>3. CASE \E x \in Procedural : x[2] = b
    <3>1. PICK x \in Procedural : x[2] = b
      BY <2>3
    <3>2. store[b] = value[x]
      BY <1>1, <3>1 DEF Settled, Stored
    <3>3. {y \in Procedural : y[2] = b} = {x}
      BY <1>1, <3>1, SupportedKinds
    <3>4. On(b) = Others(b) \cup {x}
      BY <1>1, <3>3, DriversOnBit
    <3>5. {value[y] : y \in On(b)} = others \cup {store[b]}
      BY <3>2, <3>4
    <3> QED
      BY <1>1, <2>2, <3>5, DriversOnBit
  <2>4. CASE \A x \in Procedural : x[2] # b
    <3>1. store[b] = "Z"
      BY <1>1, <1>7, <2>4 DEF Stored
    <3>2. On(b) = Others(b) /\ others # {}
      <4>1. On(b) = Others(b)
        BY <1>1, <2>4, DriversOnBit
      <4>2. PICK x \in Others(b) : TRUE
        BY <4>1
      <4> QED
        BY <4>1, <4>2
    <3>3. Resolve(others \cup {"Z"}) = Resolve(others)
      BY <3>2, YieldsToOthers
    <3> QED
      BY <1>1, <2>2, <3>1, <3>2, <3>3, DriversOnBit
  <2> QED
    BY <2>3, <2>4
<1> QED
  BY <1>6, <1>7

(* A reg has one driver on each bit. *)
LEMMA RegCarries ==
  ASSUME IInv, phase = "run", ~net, NEW b \in Bits, On(b) # {}
  PROVE  PrintedRead(b) = Carried(b)
<1>1. TypeOK /\ Supported(decl) /\ Decided /\ Stored /\ net = Collected.net
  BY DEF IInv, Decided
<1>2. Continuous = {} /\ By({"outside"}) = {}
  BY <1>1, CollectedOf, DriverKinds
<1>3. On(b) = {x \in Procedural : x[2] = b}
  BY <1>1, <1>2, DriversOnBit DEF Others
<1>4. PICK x \in Procedural : x[2] = b
  BY <1>3
<1>5. On(b) = {x}
  BY <1>1, <1>3, <1>4, SupportedKinds
<1>6. {value[y] : y \in On(b)} = {store[b]}
  BY <1>1, <1>4, <1>5 DEF Stored
<1>7. Carried(b) = store[b]
  BY <1>1, <1>6, DriversOnBit, OneDriver
<1> QED
  BY <1>7 DEF PrintedRead

-----------------------------------------------------------------------------
(* Every declaration the printer gets right keeps its types, and only an   *)
(* inout port is ever given a driver reg.                                  *)
THEOREM TypeCorrect ==
  ASSUME \A d \in Decls : Supported(d)
  PROVE  Spec => []TypeOK
<1>1. Init => IInv
  BY InitInv
<1>2. IInv => TypeOK
  BY DEF IInv
<1> QED
  BY <1>1, <1>2, StepInv, PTL DEF Spec

(* The output elaborates: whatever drives it, an object is declared as     *)
(* what its drivers need (VerilogPrinter.cpp, declarations and drivers).   *)
THEOREM OutputElaborates ==
  ASSUME \A d \in Decls : Supported(d)
  PROVE  Spec => []Elaborates
<1>1. Init => IInv
  BY InitInv
<1>2. ASSUME IInv PROVE Elaborates
  <2> SUFFICES ASSUME phase = "run" PROVE Elaborates
    BY DEF Elaborates
  <2>1. /\ TypeOK /\ Supported(decl) /\ net = Collected.net /\ assigns = Collected.assigns
        /\ lowered = (decl.class = "inout" /\ By({"process"}) # {})
    BY <1>2 DEF IInv, Decided
  <2>2. By({"process"}) = {} /\ By({"task"}) = {} => Procedural = {}
    BY DEF Procedural, By, DrivenBy
  <2>3. "value" \in assigns => By({"process"}) = {}
    BY <2>1, CollectedOf DEF NobodyAssigns, By, DrivenBy
  <2>4. ASSUME net PROVE IF lowered THEN By({"task"}) = {} ELSE Procedural = {}
    BY <2>1, <2>2, <2>3, <2>4, CollectedOf, SupportedKinds
  <2>5. ~net => Continuous = {} /\ assigns \cap {"value", "driver"} = {}
    BY <2>1, CollectedOf
  <2>6. net => "initial" \notin assigns
    BY <2>1, CollectedOf
  <2> QED
    BY <2>4, <2>5, <2>6 DEF Elaborates
<1> QED
  BY <1>1, <1>2, StepInv, PTL DEF Spec

(* Each bit of the printed object carries what the source resolves: no     *)
(* driver is lost or added, and one that yields lets the others through.   *)
THEOREM CarriesTheSame ==
  ASSUME \A d \in Decls : Supported(d)
  PROVE  Spec => []SameNet
<1>1. Init => IInv
  BY InitInv
<1>2. ASSUME IInv PROVE SameNet
  BY <1>2, NetCarries, RegCarries DEF SameNet, On, IInv, TypeOK
<1> QED
  BY <1>1, <1>2, StepInv, PTL DEF Spec
==================================================================================
