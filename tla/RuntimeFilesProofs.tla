--------------------------- MODULE RuntimeFilesProofs ---------------------------
(***************************************************************************)
(* For any array, addresses and file: a load never writes outside the      *)
(* array, and puts every word of a plain file where $readmem has it.       *)
(* For any texts and writes: a read takes off a line the word it accepts   *)
(* and nothing else.  For any descriptors and files: the text shown on a   *)
(* descriptor goes to the file it stands for at the time.                  *)
(***************************************************************************)
EXTENDS RuntimeFiles, SequenceTheorems, FiniteSetTheorems, WellFoundedInduction, TLAPS

-----------------------------------------------------------------------------
(* The memory loads. *)

LEMMA LoadTypes ==
  ASSUME NEW l \in Load
  PROVE  /\ l.start \in Address /\ l.stop \in Address /\ l.min \in Address
         /\ l.direction \in {1, -1} /\ l.overload \in Overload
         /\ l.newline \in BOOLEAN /\ Len(l.file) \in Nat
         /\ \A i \in 1 .. Len(l.file) :
              /\ l.file[i].at \in BOOLEAN
              /\ l.file[i].at => l.file[i].address \in Address
              /\ ~l.file[i].at => l.file[i].value \in Nat
<1>1. l.file \in Seq(Word \cup Directive)
  BY DEF Load
<1>2. \A i \in 1 .. Len(l.file) : l.file[i] \in Word \cup Directive
  BY <1>1
<1>3. Len(l.file) \in Nat
  BY <1>1
<1>4. \A w \in Word : w.at = FALSE /\ w.value \in Nat
  BY DEF Word
<1>5. \A w \in Directive : w.at = TRUE /\ w.address \in Address
  BY DEF Directive
<1> QED
  BY <1>2, <1>3, <1>4, <1>5 DEF Load

(* A negative int is far above the length as a size_t. *)
LEMMA PastArrayIsOutside ==
  ASSUME NEW c \in -(Length + 2 * AddressLimit) .. Length + 2 * AddressLimit
  PROVE  PastArray(c) <=> c \notin Cells
BY SizesAssumption DEF PastArray, SizeT, Cells

LEMMA NormalisedBounds ==
  ASSUME NEW l \in Load, NEW a \in Address
  PROVE  Normalised(l, a) \in -(Length + 2 * AddressLimit) .. Length + 2 * AddressLimit
BY LoadTypes, SizesAssumption DEF Normalised, Address

(* A position has one origin; a word keeps it for the next position and a  *)
(* directive is the origin of the next.                                    *)
LEMMA OriginUnique ==
  ASSUME NEW l \in Load, NEW i \in 1 .. Len(l.file) + 1, NEW d, NEW e, Origin(l, i, d), Origin(l, i, e)
  PROVE  d = e
BY LoadTypes DEF Origin

LEMMA OriginOfNext ==
  ASSUME NEW l \in Load, NEW i \in 1 .. Len(l.file), NEW d, Origin(l, i, d)
  PROVE  /\ ~l.file[i].at => Origin(l, i + 1, d)
         /\ l.file[i].at => Origin(l, i + 1, i)
BY LoadTypes DEF Origin

LEMMA AddressOfNext ==
  ASSUME NEW l \in Load, NEW i \in 1 .. Len(l.file), NEW d, Origin(l, i, d)
  PROVE  /\ AddressOf(l, i, d) \in Int
         /\ AddressOf(l, i + 1, d) = IF Ascending(l) THEN AddressOf(l, i, d) + 1
                                                       ELSE AddressOf(l, i, d) - 1
         /\ l.file[i].at => AddressOf(l, i + 1, i) = l.file[i].address
<1>1. /\ d \in 0 .. i - 1 /\ (d > 0 => l.file[d].at) /\ l.start \in Int
      /\ \A j \in 1 .. Len(l.file) : l.file[j].at => l.file[j].address \in Int
      /\ Len(l.file) \in Nat
  BY LoadTypes DEF Origin, Address
<1> DEFINE base == IF d = 0 THEN l.start ELSE l.file[d].address
<1>2. base \in Int /\ i \in Int /\ d \in Int
  BY <1>1
<1>3. /\ AddressOf(l, i, d) = IF Ascending(l) THEN base + i - d - 1 ELSE base - (i - d - 1)
      /\ AddressOf(l, i + 1, d) = IF Ascending(l) THEN base + (i + 1) - d - 1 ELSE base - ((i + 1) - d - 1)
  BY DEF AddressOf
<1>4. AddressOf(l, i + 1, i) = IF Ascending(l) THEN l.file[i].address + (i + 1) - i - 1
                               ELSE l.file[i].address - ((i + 1) - i - 1)
  BY DEF AddressOf
<1>5. l.file[i].at => AddressOf(l, i + 1, i) = l.file[i].address
  BY <1>1, <1>2, <1>4
<1> HIDE DEF base
<1>6. /\ AddressOf(l, i, d) \in Int
      /\ AddressOf(l, i + 1, d) = IF Ascending(l) THEN AddressOf(l, i, d) + 1
                                                    ELSE AddressOf(l, i, d) - 1
  BY <1>2, <1>3
<1> QED
  BY <1>5, <1>6

(* The loop's own tests for the window are the promised ones: an address   *)
(* never falls behind the first one, and the two ends are tested.          *)
LEMMA LeavesOutside ==
  ASSUME NEW l \in Load, Plain(l), NEW i \in 1 .. Len(l.file), NEW d, Origin(l, i, d),
         NEW c, c = AddressOf(l, i, d) - l.min,
         c \in -(Length + 2 * AddressLimit) .. Length + 2 * AddressLimit
  PROVE  /\ Upwards(l) <=> Ascending(l)
         /\ InWindow(l, AddressOf(l, i, d)) <=> ~(PastWindow(l, c) \/ PastArray(c))
<1>1. /\ l.start \in Int /\ l.stop \in Int /\ l.min \in Int /\ l.direction = 1
      /\ l.min = 0 \/ l.overload.bound = "window"
  BY LoadTypes DEF Plain, Address
<1>2. Upwards(l) <=> Ascending(l)
  BY <1>1 DEF Upwards, Ascending, First, Normalised
<1>3. d \in 0 .. i - 1 /\ (d > 0 => l.file[d].at)
  BY DEF Origin
<1>4. d > 0 => /\ l.file[d].address \in Int
               /\ IF Ascending(l) THEN l.start <= l.file[d].address ELSE l.file[d].address <= l.start
  BY <1>3, LoadTypes DEF Plain, Address
<1>5. IF Ascending(l) THEN l.start <= AddressOf(l, i, d) ELSE AddressOf(l, i, d) <= l.start
  <2>1. CASE Ascending(l)
    BY <1>1, <1>3, <1>4, <2>1 DEF AddressOf
  <2>2. CASE ~Ascending(l)
    BY <1>1, <1>3, <1>4, <2>2 DEF AddressOf, Ascending
  <2> QED
    BY <2>1, <2>2
<1>6. AddressOf(l, i, d) \in Int
  BY AddressOfNext
<1>7. PastWindow(l, c) <=> IF Ascending(l) THEN AddressOf(l, i, d) > l.stop ELSE AddressOf(l, i, d) < l.stop
  BY <1>1, <1>2, <1>6 DEF PastWindow, Bound, Normalised
<1>8. AddressOf(l, i, d) - l.min \in Cells <=> ~PastArray(c)
  BY PastArrayIsOutside
<1>9. InWindow(l, AddressOf(l, i, d)) <=> ~PastWindow(l, c) /\ ~PastArray(c)
  BY <1>1, <1>5, <1>6, <1>7, <1>8 DEF InWindow
<1> QED
  BY <1>2, <1>9

-----------------------------------------------------------------------------
(* A directive moves no word. *)
LEMMA DirectiveStep ==
  ASSUME NEW l \in Load, NEW i \in 1 .. Len(l.file), l.file[i].at, NEW m,
         Inside(l, i - 1), Settled(l, m, i - 1)
  PROVE  Inside(l, i) /\ Settled(l, m, i)
<1>1. Inside(l, i)
  BY LoadTypes DEF Inside
<1>2. \A c : ~Loaded(l, i, c)
  BY DEF Loaded
<1>3. \A k \in 1 .. i : k \in 1 .. i - 1 \/ k = i
  BY LoadTypes
<1>4. Settled(l, m, i)
  BY <1>2, <1>3, LoadTypes DEF Settled
<1> QED
  BY <1>1, <1>4

(* A word in the window goes to its cell, and the others keep theirs. *)
LEMMA WordStep ==
  ASSUME NEW l \in Load, NEW i \in 1 .. Len(l.file), ~l.file[i].at,
         NEW d, Origin(l, i, d), InWindow(l, AddressOf(l, i, d)),
         NEW c, c = AddressOf(l, i, d) - l.min, NEW m, DOMAIN m = Cells,
         Inside(l, i - 1), Settled(l, m, i - 1)
  PROVE  Inside(l, i) /\ Settled(l, [m EXCEPT ![c] = l.file[i].value], i)
<1> DEFINE w == [m EXCEPT ![c] = l.file[i].value]
<1>1. Len(l.file) \in Nat /\ i \in 1 .. Len(l.file) + 1 /\ d \in 0 .. i - 1
  BY LoadTypes DEF Origin
<1>2. \A e \in 0 .. i - 1 : Origin(l, i, e) => e = d
  BY <1>1, OriginUnique
<1>3. Inside(l, i)
  BY <1>1, <1>2 DEF Inside
<1>4. c \in Cells
  BY DEF InWindow
<1>5. \A k \in Cells : Loaded(l, i, k) <=> k = c
  BY <1>1, <1>2, <1>3 DEF Loaded
<1>6. \A k \in Cells : w[k] = IF k = c THEN l.file[i].value ELSE m[k]
  BY <1>4
<1>7. \A j \in 1 .. i : j \in 1 .. i - 1 \/ j = i
  BY <1>1
<1> HIDE DEF w
<1>8. ASSUME NEW k \in Cells
      PROVE  \/ w[k] = Untouched /\ \A j \in 1 .. i : ~Loaded(l, j, k)
             \/ \E j \in 1 .. i :
                  /\ Loaded(l, j, k) /\ w[k] = l.file[j].value
                  /\ \A q \in j + 1 .. i : ~Loaded(l, q, k)
  <2>1. CASE k = c
    BY <1>1, <1>5, <1>6, <2>1
  <2>2. CASE k # c
    <3>1. ~Loaded(l, i, k) /\ w[k] = m[k]
      BY <1>5, <1>6, <2>2
    <3>2. CASE m[k] = Untouched /\ \A j \in 1 .. i - 1 : ~Loaded(l, j, k)
      BY <1>7, <3>1, <3>2
    <3>3. ASSUME NEW j \in 1 .. i - 1, Loaded(l, j, k), m[k] = l.file[j].value,
                 \A q \in j + 1 .. i - 1 : ~Loaded(l, q, k)
          PROVE  /\ j \in 1 .. i /\ Loaded(l, j, k) /\ w[k] = l.file[j].value
                 /\ \A q \in j + 1 .. i : ~Loaded(l, q, k)
      BY <1>1, <3>1, <3>3
    <3> QED
      BY <3>2, <3>3 DEF Settled
  <2> QED
    BY <2>1, <2>2
<1>9. Settled(l, w, i)
  BY <1>8 DEF Settled
<1> QED
  BY <1>3, <1>9 DEF w

(* A word out of the window ends the load: none is loaded from there on. *)
LEMMA LoadEnds ==
  ASSUME NEW l \in Load, NEW i \in 1 .. Len(l.file), ~l.file[i].at,
         NEW d, Origin(l, i, d), ~InWindow(l, AddressOf(l, i, d)),
         NEW m, Settled(l, m, i - 1)
  PROVE  Settled(l, m, Len(l.file))
<1>1. Len(l.file) \in Nat /\ d \in 0 .. i - 1
  BY LoadTypes DEF Origin
<1>2. \A j \in i .. Len(l.file) : ~Inside(l, j)
  BY <1>1 DEF Inside
<1>3. \A j \in i .. Len(l.file), c \in Cells : ~Loaded(l, j, c)
  BY <1>2 DEF Loaded
<1>4. \A j \in 1 .. Len(l.file) : j \in 1 .. i - 1 \/ j \in i .. Len(l.file)
  BY <1>1
<1>5. ASSUME NEW c \in Cells
      PROVE  \/ m[c] = Untouched /\ \A j \in 1 .. Len(l.file) : ~Loaded(l, j, c)
             \/ \E j \in 1 .. Len(l.file) :
                  /\ Loaded(l, j, c) /\ m[c] = l.file[j].value
                  /\ \A q \in j + 1 .. Len(l.file) : ~Loaded(l, q, c)
  <2>1. CASE m[c] = Untouched /\ \A j \in 1 .. i - 1 : ~Loaded(l, j, c)
    BY <1>3, <1>4, <2>1
  <2>2. ASSUME NEW j \in 1 .. i - 1, Loaded(l, j, c), m[c] = l.file[j].value,
               \A q \in j + 1 .. i - 1 : ~Loaded(l, q, c)
        PROVE  /\ j \in 1 .. Len(l.file) /\ Loaded(l, j, c) /\ m[c] = l.file[j].value
               /\ \A q \in j + 1 .. Len(l.file) : ~Loaded(l, q, c)
    BY <1>1, <1>3, <2>2
  <2> QED
    BY <2>1, <2>2 DEF Settled
<1> QED
  BY <1>5 DEF Settled

(* In a plain load a cell gets the value its word says. *)
LEMMA StoredValue ==
  ASSUME NEW l \in Load, Plain(l), NEW i \in 1 .. Len(l.file), ~l.file[i].at
  PROVE  Stored(l.overload, l.file[i]) = l.file[i].value
BY LoadTypes DEF Plain, Stored

-----------------------------------------------------------------------------
(* The next word of a plain load that is under way goes to cell n, and no  *)
(* word read so far was out of the window.                                 *)
Placed ==
  Plain(load) /\ status = "loading" =>
    /\ Inside(load, pos - 1)
    /\ \E d \in 0 .. pos - 1 : Origin(load, pos, d) /\ n = AddressOf(load, pos, d) - load.min

Bounded ==
  /\ load \in Load /\ load \in Loads
  /\ pos \in 1 .. Len(load.file) + 1
  /\ n \in -(Length + 2 * AddressLimit) .. Length + 2 * AddressLimit
  /\ DOMAIN memory = Cells
  /\ status \in {"called", "loading", "done", "aborted"}
  /\ status = "called" => pos = 1 /\ memory = [c \in Cells |-> Untouched]

LoadInv == Bounded /\ Placed /\ LoadsInOrder

LEMMA LoadInit == Init => LoadInv
<1> SUFFICES ASSUME Init PROVE LoadInv
  OBVIOUS
<1>1. load \in Load /\ load \in Loads
  BY LoadsAssumption DEF Init
<1>2. Len(load.file) \in Nat
  BY <1>1, LoadTypes
<1>3. Bounded
  BY <1>1, <1>2, SizesAssumption DEF Init, Bounded
<1> QED
  BY <1>3 DEF Init, LoadInv, Placed, LoadsInOrder

(* Which token an iteration stores, and where. *)
LEMMA TextIsWord ==
  ASSUME NEW l \in Load, NEW p \in 1 .. Len(l.file), SizeOK(l, Text(l, p)), Plain(l),
         NEW c, NEW d, Origin(l, p, d), c = AddressOf(l, p, d) - l.min
  PROVE  /\ l.file[p].at /\ p < Len(l.file) =>
              /\ AfterDirective(l, p) /\ Text(l, p) = l.file[p + 1] /\ ~l.file[p + 1].at
              /\ Origin(l, p + 1, p)
              /\ Target(l, p, c) = AddressOf(l, p + 1, p) - l.min
         /\ l.file[p].at /\ p = Len(l.file) =>
              ~AfterDirective(l, p) /\ Text(l, p) = l.file[p]
         /\ ~l.file[p].at =>
              /\ ~AfterDirective(l, p) /\ Text(l, p) = l.file[p] /\ Target(l, p, c) = c
<1>1. /\ Len(l.file) \in Nat /\ l.file[p].at \in BOOLEAN /\ l.direction = 1
      /\ l.overload.sized \/ l.overload.rereads
  BY LoadTypes DEF Plain, Overload
<1>2. CASE l.file[p].at /\ p < Len(l.file)
  <2>1. AfterDirective(l, p)
    <3>1. CASE l.overload.rereads
      BY <1>2, <3>1 DEF AfterDirective
    <3>2. CASE ~l.overload.rereads
      BY <1>1, <1>2, <3>2 DEF AfterDirective, Text, SizeOK
    <3> QED
      BY <3>1, <3>2
  <2>2. Text(l, p) = l.file[p + 1]
    BY <2>1 DEF Text
  <2>3. ~l.file[p + 1].at
    BY <1>1, <1>2 DEF Plain
  <2>4. Origin(l, p + 1, p) /\ AddressOf(l, p + 1, p) = l.file[p].address
    BY <1>2, OriginOfNext, AddressOfNext
  <2>5. Target(l, p, c) = l.file[p].address - l.min
    BY <1>1, <1>2 DEF Target, Normalised
  <2> QED
    BY <1>2, <2>1, <2>2, <2>3, <2>4, <2>5
<1>3. CASE l.file[p].at /\ p = Len(l.file)
  BY <1>1, <1>3 DEF AfterDirective, Text
<1>4. CASE ~l.file[p].at
  BY <1>1, <1>4 DEF AfterDirective, Text, Target
<1> QED
  BY <1>1, <1>2, <1>3, <1>4

LEMMA TargetBounds ==
  ASSUME NEW l \in Load, NEW p \in 1 .. Len(l.file),
         NEW c \in -(Length + 2 * AddressLimit) .. Length + 2 * AddressLimit
  PROVE  Target(l, p, c) \in -(Length + 2 * AddressLimit) .. Length + 2 * AddressLimit
BY LoadTypes, NormalisedBounds DEF Target

(* What an iteration finds: the word it works on is at i, its cell is the  *)
(* promised one, and the tokens before i are settled.                      *)
LEMMA Iteration ==
  ASSUME LoadInv, Plain(load), status = "loading", Readable(load, pos), SizeOK(load, Text(load, pos)),
         ~(load.file[pos].at /\ pos = Len(load.file))
  PROVE  \E i \in 1 .. Len(load.file) : \E d \in 0 .. i - 1 :
           /\ i = IF AfterDirective(load, pos) THEN pos + 1 ELSE pos
           /\ ~load.file[i].at /\ Text(load, pos) = load.file[i]
           /\ Origin(load, i, d)
           /\ Target(load, pos, n) = AddressOf(load, i, d) - load.min
           /\ Inside(load, i - 1) /\ Settled(load, memory, i - 1)
<1>1. /\ load \in Load /\ Len(load.file) \in Nat /\ pos \in 1 .. Len(load.file)
      /\ load.file[pos].at \in BOOLEAN
  BY LoadTypes DEF LoadInv, Bounded, Readable
<1>2. Inside(load, pos - 1) /\ Settled(load, memory, pos - 1)
  BY DEF LoadInv, Placed, LoadsInOrder
<1>3. PICK d \in 0 .. pos - 1 : Origin(load, pos, d) /\ n = AddressOf(load, pos, d) - load.min
  BY DEF LoadInv, Placed
<1>4. CASE load.file[pos].at
  <2>1. pos < Len(load.file)
    BY <1>1, <1>4
  <2>2. /\ AfterDirective(load, pos) /\ Text(load, pos) = load.file[pos + 1]
        /\ ~load.file[pos + 1].at /\ Origin(load, pos + 1, pos)
        /\ Target(load, pos, n) = AddressOf(load, pos + 1, pos) - load.min
    BY <1>1, <1>3, <1>4, <2>1, TextIsWord
  <2>3. Inside(load, pos) /\ Settled(load, memory, pos)
    BY <1>1, <1>2, <1>4, DirectiveStep
  <2>4. pos + 1 \in 1 .. Len(load.file) /\ pos \in 0 .. pos + 1 - 1 /\ pos + 1 - 1 = pos
    BY <1>1, <2>1
  <2> QED
    BY <2>2, <2>3, <2>4
<1>5. CASE ~load.file[pos].at
  <2>1. ~AfterDirective(load, pos) /\ Text(load, pos) = load.file[pos] /\ Target(load, pos, n) = n
    BY <1>1, <1>3, <1>5, TextIsWord
  <2> QED
    BY <1>1, <1>2, <1>3, <1>5, <2>1
<1> QED
  BY <1>1, <1>4, <1>5

LEMMA OpenInv == LoadInv /\ Open => LoadInv'
<1> SUFFICES ASSUME LoadInv, Open PROVE LoadInv'
  OBVIOUS
<1>1. /\ load \in Load /\ Len(load.file) \in Nat /\ pos = 1 /\ memory = [c \in Cells |-> Untouched]
      /\ load' = load /\ pos' = pos /\ memory' = memory /\ n' = First(load)
      /\ status' \in {"loading", "aborted"}
  BY LoadTypes DEF LoadInv, Bounded, Open
<1>2. First(load) \in -(Length + 2 * AddressLimit) .. Length + 2 * AddressLimit
  BY <1>1, LoadTypes, NormalisedBounds DEF First
<1>3. Bounded'
  BY <1>1, <1>2 DEF LoadInv, Bounded
<1>4. Placed'
  <2> SUFFICES ASSUME Plain(load) PROVE
        Inside(load, 0) /\ Origin(load, 1, 0) /\ First(load) = AddressOf(load, 1, 0) - load.min
    BY <1>1 DEF Placed
  <2>1. Inside(load, 0) /\ Origin(load, 1, 0)
    BY <1>1 DEF Inside, Origin
  <2>2. load.direction = 1 /\ load.start \in Int /\ load.min \in Int
    BY <1>1, LoadTypes DEF Plain, Address
  <2>3. AddressOf(load, 1, 0) = load.start
    <3>1. CASE Ascending(load)
      BY <2>2, <3>1 DEF AddressOf
    <3>2. CASE ~Ascending(load)
      BY <2>2, <3>2 DEF AddressOf
    <3> QED
      BY <3>1, <3>2
  <2> QED
    BY <2>1, <2>2, <2>3 DEF First, Normalised
<1>5. LoadsInOrder'
  BY <1>1 DEF LoadsInOrder, Settled
<1> QED
  BY <1>3, <1>4, <1>5 DEF LoadInv

LEMMA EndOfFileInv == LoadInv /\ EndOfFile => LoadInv'
<1> SUFFICES ASSUME LoadInv, EndOfFile PROVE LoadInv'
  OBVIOUS
<1>1. Bounded' /\ Placed'
  BY DEF LoadInv, Bounded, Placed, EndOfFile
<1>2. Plain(load) => pos - 1 = Len(load.file)
  BY LoadTypes DEF LoadInv, Bounded, EndOfFile, Readable, Plain
<1>3. LoadsInOrder'
  BY <1>2 DEF LoadInv, LoadsInOrder, EndOfFile
<1> QED
  BY <1>1, <1>3 DEF LoadInv

LEMMA LeaveInv == LoadInv /\ Leave => LoadInv'
<1> SUFFICES ASSUME LoadInv, Leave PROVE LoadInv'
  OBVIOUS
<1>1. Bounded' /\ Placed'
  BY DEF LoadInv, Bounded, Placed, Leave
<1>2. /\ load \in Load /\ Len(load.file) \in Nat /\ pos \in 1 .. Len(load.file)
      /\ load.file[pos].at \in BOOLEAN /\ status = "loading"
  BY LoadTypes DEF LoadInv, Bounded, Leave, Readable
<1>3. ASSUME Plain(load) PROVE Settled(load, memory, Len(load.file))
  <2>1. CASE load.file[pos].at /\ pos = Len(load.file)
    <3>1. Inside(load, pos - 1) /\ Settled(load, memory, pos - 1)
      BY <1>2, <1>3 DEF LoadInv, Placed, LoadsInOrder
    <3> QED
      BY <1>2, <2>1, <3>1, DirectiveStep
  <2>2. CASE ~(load.file[pos].at /\ pos = Len(load.file))
    <3>1. PICK i \in 1 .. Len(load.file) : \E d \in 0 .. i - 1 :
            /\ ~load.file[i].at /\ Origin(load, i, d)
            /\ Target(load, pos, n) = AddressOf(load, i, d) - load.min
            /\ Settled(load, memory, i - 1)
      BY <1>2, <1>3, <2>2, Iteration DEF Leave
    <3>2. PICK d \in 0 .. i - 1 :
            /\ ~load.file[i].at /\ Origin(load, i, d)
            /\ Target(load, pos, n) = AddressOf(load, i, d) - load.min
            /\ Settled(load, memory, i - 1)
      BY <3>1
    <3>3. Target(load, pos, n) \in -(Length + 2 * AddressLimit) .. Length + 2 * AddressLimit
      BY <1>2, TargetBounds DEF LoadInv, Bounded
    <3>4. ~InWindow(load, AddressOf(load, i, d))
      BY <1>2, <1>3, <3>2, <3>3, LeavesOutside DEF Leave
    <3> QED
      BY <1>2, <3>2, <3>4, LoadEnds
  <2> QED
    BY <2>1, <2>2
<1>4. LoadsInOrder'
  BY <1>3 DEF LoadsInOrder, Leave
<1> QED
  BY <1>1, <1>4 DEF LoadInv

LEMMA StoreInv == LoadInv /\ Store => LoadInv'
<1> SUFFICES ASSUME LoadInv, Store PROVE LoadInv'
  OBVIOUS
<1> DEFINE c == Target(load, pos, n)
           w == Text(load, pos)
<1>1. /\ load \in Load /\ Len(load.file) \in Nat /\ pos \in 1 .. Len(load.file)
      /\ load.file[pos].at \in BOOLEAN /\ status = "loading" /\ load' = load
      /\ Readable(load, pos) /\ SizeOK(load, w)
  BY LoadTypes DEF LoadInv, Bounded, Store, Readable
<1>2. c \in -(Length + 2 * AddressLimit) .. Length + 2 * AddressLimit
  BY <1>1, TargetBounds DEF LoadInv, Bounded
<1>3. ~PastWindow(load, c) /\ ~PastArray(c) /\ c \in Cells
  BY <1>2, PastArrayIsOutside DEF Store
<1>4. AfterDirective(load, pos) => pos + 1 \in 1 .. Len(load.file)
  BY <1>1 DEF AfterDirective
<1>5. Bounded'
  <2>1. pos' \in 1 .. Len(load.file) + 1
    BY <1>1, <1>4 DEF Store
  <2>2. n' \in -(Length + 2 * AddressLimit) .. Length + 2 * AddressLimit
    BY <1>2, <1>3, SizesAssumption DEF Store, Cells
  <2>3. DOMAIN memory' = Cells /\ status' \in {"loading", "aborted"}
    BY <1>1, <1>3 DEF LoadInv, Bounded, Store
  <2> QED
    BY <1>1, <2>1, <2>2, <2>3 DEF LoadInv, Bounded
<1>6. ASSUME Plain(load), status' \in {"loading", "done"}
      PROVE  /\ Inside(load, pos' - 1) /\ Settled(load, memory', pos' - 1) /\ status' = "loading"
             /\ \E d \in 0 .. pos' - 1 : Origin(load, pos', d) /\ n' = AddressOf(load, pos', d) - load.min
  <2>1. ~w.at /\ memory' = [memory EXCEPT ![c] = Stored(load.overload, w)] /\ status' = "loading"
    BY <1>1, <1>3, <1>6 DEF Store
  <2>2. ~(load.file[pos].at /\ pos = Len(load.file))
    BY <1>1, <2>1 DEF Text, AfterDirective
  <2>3. PICK i \in 1 .. Len(load.file) : \E d \in 0 .. i - 1 :
          /\ i = IF AfterDirective(load, pos) THEN pos + 1 ELSE pos
          /\ ~load.file[i].at /\ w = load.file[i] /\ Origin(load, i, d)
          /\ c = AddressOf(load, i, d) - load.min
          /\ Inside(load, i - 1) /\ Settled(load, memory, i - 1)
    BY <1>1, <1>6, <2>2, Iteration
  <2>4. PICK d \in 0 .. i - 1 :
          /\ i = IF AfterDirective(load, pos) THEN pos + 1 ELSE pos
          /\ ~load.file[i].at /\ w = load.file[i] /\ Origin(load, i, d)
          /\ c = AddressOf(load, i, d) - load.min
          /\ Inside(load, i - 1) /\ Settled(load, memory, i - 1)
    BY <2>3
  <2>5. InWindow(load, AddressOf(load, i, d)) /\ (Upwards(load) <=> Ascending(load))
    BY <1>1, <1>2, <1>3, <1>6, <2>4, LeavesOutside
  <2>6. DOMAIN memory = Cells /\ Stored(load.overload, w) = load.file[i].value
    BY <1>1, <1>6, <2>4, StoredValue DEF LoadInv, Bounded
  <2>7. Inside(load, i) /\ Settled(load, memory', i)
    BY <1>1, <2>1, <2>4, <2>5, <2>6, WordStep
  <2>8. pos' = i + 1 /\ i + 1 - 1 = i /\ d \in 0 .. i
    BY <1>1, <2>4 DEF Store
  <2>9. Origin(load, i + 1, d)
    BY <1>1, <2>4, OriginOfNext
  <2>10. n' = AddressOf(load, i + 1, d) - load.min
    <3>1. n' = IF Upwards(load) THEN c + 1 ELSE c - 1
      BY DEF Store
    <3>2. /\ AddressOf(load, i, d) \in Int /\ load.min \in Int
          /\ AddressOf(load, i + 1, d) = IF Ascending(load) THEN AddressOf(load, i, d) + 1
                                                             ELSE AddressOf(load, i, d) - 1
          /\ c = AddressOf(load, i, d) - load.min
      BY <1>1, <2>4, LoadTypes, AddressOfNext DEF Address
    <3> HIDE DEF c
    <3> QED
      <4>1. CASE Ascending(load)
        BY <2>5, <3>1, <3>2, <4>1
      <4>2. CASE ~Ascending(load)
        BY <2>5, <3>1, <3>2, <4>2
      <4> QED
        BY <4>1, <4>2
  <2> QED
    BY <2>1, <2>7, <2>8, <2>9, <2>10
<1>7. Placed' /\ LoadsInOrder'
  BY <1>1, <1>6 DEF Placed, LoadsInOrder
<1> QED
  BY <1>5, <1>7 DEF LoadInv

LEMMA LoadStep == LoadInv /\ [Next]_vars => LoadInv'
<1>1. LoadInv /\ WrongSize => LoadInv'
  BY DEF LoadInv, Bounded, Placed, LoadsInOrder, WrongSize
<1>2. LoadInv /\ UNCHANGED vars => LoadInv'
  BY DEF LoadInv, Bounded, Placed, LoadsInOrder, vars
<1> QED
  BY <1>1, <1>2, OpenInv, EndOfFileInv, LeaveInv, StoreInv DEF Next

(* Whatever the call and the file, the loop stays within the array: the    *)
(* comparison of hif_verilog_standard.i.hpp:83 guards both of its ends.    *)
THEOREM ArraySafe == Spec => []NeverOverruns
<1>1. LoadInv => NeverOverruns
  BY DEF LoadInv, Bounded, NeverOverruns
<1> QED
  BY <1>1, LoadInit, LoadStep, PTL DEF Spec

(* Every word of a plain file is in the cell $readmem gives it, whatever   *)
(* the window, the order of its ends, the directives and the values        *)
(* (hif_verilog_standard.i.hpp:44-89).                                     *)
THEOREM LoadCorrect == Spec => []LoadsInOrder
<1>1. LoadInv => LoadsInOrder
  BY DEF LoadInv
<1> QED
  BY <1>1, LoadInit, LoadStep, PTL DEF Spec

-----------------------------------------------------------------------------
(* The lines of text files. *)

(* Every set of numbers that is not empty has a least one. *)
LEMMA Least ==
  ASSUME NEW S \in SUBSET Nat, S # {}
  PROVE  \E i \in S : \A j \in S : i <= j
<1> DEFINE R == OpToRel(<, Nat)
<1>1. \A i, j \in Nat : j < i => <<j, i>> \in R
  BY DEF OpToRel
<1>2. IsWellFoundedOn(R, Nat)
  BY NatLessThanWellFounded
<1> HIDE DEF R
<1>3. PICK i \in S : \A j \in S : ~(<<j, i>> \in R)
  BY <1>2, WFMin
<1>4. ASSUME NEW j \in S PROVE i <= j
  <2>1. i \in Nat /\ j \in Nat /\ ~(<<j, i>> \in R)
    BY <1>3
  <2>2. ~(j < i)
    BY <1>1, <2>1
  <2> QED
    BY <2>1, <2>2
<1> QED
  BY <1>4

LEMMA TextElements ==
  ASSUME NEW t \in Lines!Text
  PROVE  /\ t \in Seq(Lines!Char) /\ Len(t) \in Nat
         /\ \A i \in 1 .. Len(t) : t[i] \in Lines!Char
         /\ \A m \in 1 .. Len(t) + 1, k \in 0 .. Len(t) :
              /\ SubSeq(t, m, k) \in Lines!Text
              /\ Len(SubSeq(t, m, k)) = IF m <= k THEN k - m + 1 ELSE 0
<1>1. t \in Seq(Lines!Char) /\ Len(t) \in Nat /\ \A i \in 1 .. Len(t) : t[i] \in Lines!Char
  BY DEF Lines!Text
<1>2. ASSUME NEW m \in 1 .. Len(t) + 1, NEW k \in 0 .. Len(t)
      PROVE  /\ SubSeq(t, m, k) \in Lines!Text
             /\ Len(SubSeq(t, m, k)) = IF m <= k THEN k - m + 1 ELSE 0
  <2>1. \A i \in m .. k : t[i] \in Lines!Char
    BY <1>1
  <2> QED
    BY <1>1, <2>1, SubSeqProperties DEF Lines!Text
<1> QED
  BY <1>1, <1>2

(* Where the first word of a line begins and ends. *)
LEMMA WordSpan ==
  ASSUME NEW l \in Lines!Text
  PROVE  /\ Lines!Start(l) \in 1 .. Len(l) + 1
         /\ \A j \in 1 .. Lines!Start(l) - 1 : Lines!Blank(l, j)
         /\ Lines!End(l) \in Lines!Start(l) .. Len(l) + 1
         /\ Lines!End(l) <= Len(l) => Lines!Blank(l, Lines!End(l))
         /\ \A j \in Lines!Start(l) .. Lines!End(l) - 1 : ~Lines!Blank(l, j)
<1>1. l \in Seq(Lines!Char) /\ Len(l) \in Nat
  BY TextElements
<1>2. \E i \in 1 .. Len(l) + 1 :
        (i <= Len(l) => ~Lines!Blank(l, i)) /\ \A j \in 1 .. i - 1 : Lines!Blank(l, j)
  <2> DEFINE S == {i \in 1 .. Len(l) + 1 : i <= Len(l) => ~Lines!Blank(l, i)}
  <2>1. S \in SUBSET Nat /\ Len(l) + 1 \in S
    BY <1>1
  <2>2. PICK i \in S : \A j \in S : i <= j
    BY <2>1, Least
  <2>3. \A j \in 1 .. i - 1 : Lines!Blank(l, j)
    BY <1>1, <2>2
  <2> QED
    BY <2>2, <2>3
<1>3. /\ Lines!Start(l) \in 1 .. Len(l) + 1
      /\ \A j \in 1 .. Lines!Start(l) - 1 : Lines!Blank(l, j)
  BY <1>2 DEF Lines!Start
<1>4. \E i \in Lines!Start(l) .. Len(l) + 1 :
        (i <= Len(l) => Lines!Blank(l, i)) /\ \A j \in Lines!Start(l) .. i - 1 : ~Lines!Blank(l, j)
  <2> DEFINE S == {i \in Lines!Start(l) .. Len(l) + 1 : i <= Len(l) => Lines!Blank(l, i)}
  <2>1. S \in SUBSET Nat /\ Len(l) + 1 \in S
    BY <1>1, <1>3
  <2>2. PICK i \in S : \A j \in S : i <= j
    BY <2>1, Least
  <2>3. \A j \in Lines!Start(l) .. i - 1 : ~Lines!Blank(l, j)
    BY <1>1, <1>3, <2>2
  <2> QED
    BY <2>2, <2>3
<1>5. /\ Lines!End(l) \in Lines!Start(l) .. Len(l) + 1
      /\ Lines!End(l) <= Len(l) => Lines!Blank(l, Lines!End(l))
      /\ \A j \in Lines!Start(l) .. Lines!End(l) - 1 : ~Lines!Blank(l, j)
  BY <1>4 DEF Lines!End
<1> QED
  BY <1>3, <1>5

LEMMA WordIsText ==
  ASSUME NEW l \in Lines!Text
  PROVE  Lines!FirstWord(l) \in Lines!Text /\ Len(Lines!FirstWord(l)) <= Len(l)
<1>1. Len(l) \in Nat
  BY TextElements
<1>2. Lines!Start(l) \in 1 .. Len(l) + 1 /\ Lines!End(l) \in Lines!Start(l) .. Len(l) + 1
  BY WordSpan
<1>3. Lines!End(l) - 1 \in 0 .. Len(l)
  BY <1>1, <1>2
<1> QED
  BY <1>1, <1>2, <1>3, TextElements DEF Lines!FirstWord

(* A line that starts with a word is the word and what is left without it. *)
LEMMA WordAndRest ==
  ASSUME NEW l \in Lines!Text, Len(l) > 0, ~Lines!Blank(l, 1)
  PROVE  l = Lines!FirstWord(l) \o Lines!Dropped(l, Len(Lines!FirstWord(l)))
<1>1. l \in Seq(Lines!Char) /\ Len(l) \in Nat
  BY TextElements
<1>2. Lines!Start(l) = 1
  BY <1>1, WordSpan
<1> DEFINE k == Lines!End(l) - 1
<1>3. k \in 0 .. Len(l) /\ Lines!FirstWord(l) = SubSeq(l, 1, k)
  BY <1>1, <1>2, WordSpan DEF Lines!FirstWord
<1> HIDE DEF k
<1>4. Len(SubSeq(l, 1, k)) = k
  BY <1>1, <1>3, TextElements
<1>5. SubSeq(l, 1, k) \o SubSeq(l, k + 1, Len(l)) = SubSeq(l, 1, Len(l))
  <2>1. 1 \in 1 .. Len(l) + 1 /\ k \in 1 - 1 .. Len(l) /\ Len(l) \in k .. Len(l)
    BY <1>1, <1>3
  <2> QED
    BY <1>1, <2>1, ConcatAdjacentSubSeq
<1>6. SubSeq(l, 1, Len(l)) = l
  BY <1>1, SubSeqFull
<1> QED
  BY <1>3, <1>4, <1>5, <1>6 DEF Lines!Dropped

-----------------------------------------------------------------------------
(* What a read makes of the word: it takes the whole word or nothing, and  *)
(* something only if it says the word is good.                             *)
Fits(r, w) ==
  /\ r.good \in BOOLEAN
  /\ r.value \in Lines!Text \cup {Lines!Kept}
  /\ r.uses \in {0, Len(w)}
  /\ r.uses # 0 => r.good

LEMMA OfFits ==
  ASSUME NEW w \in Lines!Text, NEW ok \in BOOLEAN, NEW v, ok => v \in Lines!Text,
         NEW k, ok => k \in {0, Len(w)}
  PROVE  Fits(Lines!Of(ok, v, k), w)
BY DEF Lines!Of, Fits

LEMMA NumberIsText ==
  ASSUME NEW w \in Lines!Text
  PROVE  Lines!Number(w) \in Lines!Text
<1>1. w \in Seq(Lines!Char) /\ Len(w) \in Nat
  BY TextElements
<1>2. CASE Lines!Only(w, {"0", "1"})
  BY <1>2 DEF Lines!Number
<1>3. CASE ~Lines!Only(w, {"0", "1"})
  <2> DEFINE S == {i \in 1 .. Len(w) : w[i] \notin {"0", "1"}}
  <2>1. S \in SUBSET Nat /\ S # {}
    BY <1>1, <1>3 DEF Lines!Only
  <2>2. PICK i \in S : \A j \in S : i <= j
    BY <2>1, Least
  <2>3. Lines!Only(SubSeq(w, 1, i - 1), {"0", "1"})
    <3>1. /\ Len(SubSeq(w, 1, i - 1)) = i - 1
          /\ \A j \in 1 .. i - 1 : SubSeq(w, 1, i - 1)[j] = w[j]
      BY <1>1, <2>2, TextElements, SubSeqProperties
    <3>2. \A j \in 1 .. i - 1 : w[j] \in {"0", "1"}
      BY <1>1, <2>2
    <3> QED
      BY <1>1, <2>2, <3>1, <3>2 DEF Lines!Only
  <2> DEFINE c == CHOOSE j \in 1 .. Len(w) :
                    w[j] \notin {"0", "1"} /\ Lines!Only(SubSeq(w, 1, j - 1), {"0", "1"})
  <2>4. c \in 1 .. Len(w)
    BY <2>2, <2>3
  <2>5. Lines!Number(w) = SubSeq(w, 1, c - 1)
    BY <1>3 DEF Lines!Number
  <2> HIDE DEF c
  <2> QED
    <3>1. c - 1 \in 0 .. Len(w) /\ 1 \in 1 .. Len(w) + 1
      BY <1>1, <2>4
    <3>2. SubSeq(w, 1, c - 1) \in Lines!Text
      BY <3>1, TextElements
    <3> QED
      BY <2>5, <3>2
<1> QED
  BY <1>2, <1>3

LEMMA BitsAreText ==
  ASSUME NEW w \in Lines!Text, Lines!Only(w, {"0", "1"})
  PROVE  Lines!QuadBits(w) \in Lines!Text /\ Lines!TriBits(w) \in Lines!Text
<1>1. Len(w) \in Nat /\ \A i \in 1 .. Len(w) : w[i] \in Lines!Char
  BY TextElements
<1>2. 4 * Len(w) \in Nat /\ 3 * Len(w) \in Nat
  BY <1>1
<1>3. \A i \in 1 .. 4 * Len(w) : i % 4 = 0 => i \div 4 \in 1 .. Len(w)
  BY <1>1
<1>4. \A i \in 1 .. 3 * Len(w) : i % 3 = 0 => i \div 3 \in 1 .. Len(w)
  BY <1>1
<1>5. "0" \in Lines!Char
  BY DEF Lines!Char
<1>6. Lines!QuadBits(w) \in Seq(Lines!Char)
  BY <1>1, <1>2, <1>3, <1>5 DEF Lines!QuadBits
<1>7. Lines!TriBits(w) \in Seq(Lines!Char)
  BY <1>1, <1>2, <1>4, <1>5 DEF Lines!TriBits
<1> QED
  BY <1>6, <1>7 DEF Lines!Text

LEMMA DigitIsText == <<"0">> \in Lines!Text /\ <<>> \in Lines!Text
BY DEF Lines!Text, Lines!Char

LEMMA VectorIsText ==
  ASSUME NEW w \in Lines!Text
  PROVE  Lines!ToLogicVector(w) \in Lines!Text
<1>1. Len(w) \in Nat
  BY TextElements
<1>2. \A i \in 1 .. Len(w) : Lines!ToLogic(w[i]) \in Lines!Char
  BY DEF Lines!ToLogic, Lines!Char
<1> QED
  BY <1>1, <1>2 DEF Lines!ToLogicVector, Lines!Text

(* A value that is not read as an integer reads as zero. *)
LEMMA IntegerFits ==
  ASSUME NEW w \in Lines!Text, NEW ok \in BOOLEAN, NEW v, ok => v \in Lines!Text
  PROVE  LET r == Lines!Of(ok, v, 0)
         IN  Fits([r EXCEPT !.value = Lines!ToInteger(r.value)], w)
BY DigitIsText DEF Lines!Of, Lines!ToInteger, Fits

LEMMA ReadingFits ==
  ASSUME NEW w \in Lines!Text, NEW reader \in Readers
  PROVE  Fits(Lines!Reading(reader, w), w)
<1> DEFINE len == Len(w)
<1>1. len \in Nat /\ Lines!Number(w) \in Lines!Text /\ Lines!ToLogicVector(w) \in Lines!Text
  BY TextElements, NumberIsText, VectorIsText
<1>2. <<"0">> \in Lines!Text
  BY DigitIsText
<1>3. Fits(Lines!ReadBit(w), w)
  BY <1>1, <1>2, OfFits DEF Lines!ReadBit
<1>4. Fits(Lines!ReadBitVector(w), w)
  BY <1>1, OfFits DEF Lines!ReadBitVector, Lines!Only
<1>5. Fits(Lines!ReadBool(w), w)
  <2>1. (w \in {<<"T">>, <<"F">>}) \in BOOLEAN
    OBVIOUS
  <2> QED
    BY <1>1, <2>1, OfFits DEF Lines!ReadBool
<1>6. Fits(Lines!ReadChar(w), w)
  BY <1>1, OfFits DEF Lines!ReadChar
<1>7. Fits(Lines!ReadInteger(w), w) /\ Fits(Lines!ReadReal(w), w)
  BY <1>1, <1>2 DEF Lines!ReadInteger, Lines!ReadReal, Fits
<1>8. Fits(Lines!ReadString(w), w) /\ Lines!ReadString(w).good \in BOOLEAN
  BY <1>1, OfFits DEF Lines!ReadString, Lines!Of
<1>9. Fits(Lines!ReadTime(w), w)
  <2>1. (Lines!ReadReal(w).good /\ Lines!ReadString(w).good) \in BOOLEAN
    BY <1>8 DEF Lines!ReadReal
  <2> QED
    BY <1>1, <2>1, OfFits DEF Lines!ReadTime
<1>10. Fits(Lines!ReadLogic(w), w)
  <2>1. Lines!ToLogic(w[1]) \in Lines!Char
    BY DEF Lines!ToLogic, Lines!Char
  <2>2. <<Lines!ToLogic(w[1])>> \in Lines!Text
    BY <2>1 DEF Lines!Text
  <2> QED
    BY <1>1, <2>2, OfFits DEF Lines!ReadLogic, Lines!IsValidLogic
<1>11. (Lines!ReadString(w).good /\ Lines!IsValidLogicVector(w)) \in BOOLEAN
  BY <1>8 DEF Lines!IsValidLogicVector
<1>12. Fits(Lines!ReadLogicVector(w), w) /\ Fits(Lines!ReadSized(w), w)
  BY <1>1, <1>11, OfFits, IntegerFits DEF Lines!ReadLogicVector, Lines!ReadSized
<1>13. (Lines!ReadString(w).good /\ Lines!Only(w, {"0", "1"})) \in BOOLEAN
  BY <1>8 DEF Lines!Only
<1>14. Fits(Lines!ReadHex(w), w) /\ Fits(Lines!ReadHexSized(w), w)
  BY <1>1, <1>13, OfFits, IntegerFits, BitsAreText DEF Lines!ReadHex, Lines!ReadHexSized
<1>15. Fits(Lines!ReadOctal(w), w) /\ Fits(Lines!ReadOctalSized(w), w)
  BY <1>1, <1>13, OfFits, IntegerFits, BitsAreText DEF Lines!ReadOctal, Lines!ReadOctalSized
<1>16. Lines!Reading(reader, w) \in
         {Lines!ReadBit(w), Lines!ReadBitVector(w), Lines!ReadBool(w), Lines!ReadChar(w),
          Lines!ReadInteger(w), Lines!ReadReal(w), Lines!ReadString(w), Lines!ReadTime(w),
          Lines!ReadLogic(w), Lines!ReadLogicVector(w), Lines!ReadSized(w), Lines!ReadHex(w),
          Lines!ReadHexSized(w), Lines!ReadOctal(w), Lines!ReadOctalSized(w)}
  BY ReadersAssumption DEF Lines!Reading, Lines!ReadHexUint64
<1> QED
  BY <1>3, <1>4, <1>5, <1>6, <1>7, <1>8, <1>9, <1>10, <1>12, <1>14, <1>15, <1>16

-----------------------------------------------------------------------------
(* The record at the front, and what is behind it. *)
LEMMA FrontShape ==
  ASSUME NEW t \in Lines!Text
  PROVE  \E size \in 0 .. Len(t) :
           /\ Lines!FrontRecord(t) = SubSeq(t, 1, size) /\ \A j \in 1 .. size : t[j] # "n"
           /\ Lines!Ended(t) => /\ size < Len(t) /\ t[size + 1] = "n"
                                /\ Lines!Behind(t) = SubSeq(t, size + 2, Len(t))
           /\ ~Lines!Ended(t) => size = Len(t) /\ Lines!Behind(t) = <<>>
<1>1. t \in Seq(Lines!Char) /\ Len(t) \in Nat /\ \A i \in 1 .. Len(t) : t[i] \in Lines!Char
  BY TextElements
<1>2. CASE Lines!Ended(t)
  <2> DEFINE S == {i \in 1 .. Len(t) : t[i] = "n"}
             P(i) == t[i] = "n" /\ ~Lines!Ended(SubSeq(t, 1, i - 1))
             c == CHOOSE i \in 1 .. Len(t) : P(i)
  <2>1. S \in SUBSET Nat /\ S # {}
    BY <1>1, <1>2 DEF Lines!Ended
  <2>2. PICK i \in S : \A j \in S : i <= j
    BY <2>1, Least
  <2>3. ASSUME NEW k \in 1 .. Len(t)
        PROVE  Lines!Ended(SubSeq(t, 1, k - 1)) <=> \E j \in 1 .. k - 1 : t[j] = "n"
    <3>1. /\ Len(SubSeq(t, 1, k - 1)) = k - 1
          /\ \A j \in 1 .. k - 1 : SubSeq(t, 1, k - 1)[j] = t[j]
      <4>1. 1 \in Int /\ k - 1 \in Int /\ \A j \in 1 .. k - 1 : t[j] \in Lines!Char
        BY <1>1
      <4> QED
        BY <1>1, <4>1, SubSeqProperties
    <3> QED
      BY <3>1 DEF Lines!Ended
  <2>4. P(i) /\ i \in 1 .. Len(t)
    BY <1>1, <2>2, <2>3
  <2>5. c \in 1 .. Len(t) /\ P(c)
    BY <2>4
  <2>6. Lines!FrontRecord(t) = SubSeq(t, 1, c - 1)
    BY <1>2 DEF Lines!FrontRecord
  <2>7. \A j \in 1 .. c - 1 : t[j] # "n"
    BY <2>3, <2>5
  <2> HIDE DEF c
  <2>8. Len(Lines!FrontRecord(t)) = c - 1
    BY <1>1, <2>5, <2>6, TextElements
  <2>9. Lines!Behind(t) = SubSeq(t, c + 1, Len(t))
    <3>1. Len(Lines!FrontRecord(t)) + 2 = c + 1
      BY <1>1, <2>5, <2>8
    <3> QED
      BY <1>2, <3>1 DEF Lines!Behind
  <2>10. c - 1 \in 0 .. Len(t) /\ c - 1 < Len(t) /\ (c - 1) + 1 = c /\ (c - 1) + 2 = c + 1
    BY <1>1, <2>5
  <2> DEFINE k == c - 1
  <2>11. /\ k \in 0 .. Len(t) /\ Lines!FrontRecord(t) = SubSeq(t, 1, k) /\ \A j \in 1 .. k : t[j] # "n"
         /\ k < Len(t) /\ t[k + 1] = "n" /\ Lines!Behind(t) = SubSeq(t, k + 2, Len(t))
    BY <2>5, <2>6, <2>7, <2>9, <2>10
  <2> HIDE DEF k
  <2> QED
    BY <1>2, <2>11
<1>3. CASE ~Lines!Ended(t)
  <2>1. Lines!FrontRecord(t) = SubSeq(t, 1, Len(t)) /\ Lines!Behind(t) = <<>>
    BY <1>1, <1>3, SubSeqFull DEF Lines!FrontRecord, Lines!Behind
  <2>2. \A j \in 1 .. Len(t) : t[j] # "n"
    BY <1>3 DEF Lines!Ended
  <2>3. Len(t) \in 0 .. Len(t)
    BY <1>1
  <2> QED
    BY <1>3, <2>1, <2>2, <2>3
<1> QED
  BY <1>2, <1>3

LEMMA FrontIsText ==
  ASSUME NEW t \in Lines!Text
  PROVE  /\ Lines!FrontRecord(t) \in Lines!Text /\ Lines!WholeLine(t) \in Lines!Text
         /\ Lines!Behind(t) \in Lines!Text
<1>1. Len(t) \in Nat /\ <<>> \in Lines!Text
  BY TextElements, DigitIsText
<1>2. PICK size \in 0 .. Len(t) :
        /\ Lines!FrontRecord(t) = SubSeq(t, 1, size)
        /\ \/ Lines!Behind(t) = <<>>
           \/ size < Len(t) /\ Lines!Behind(t) = SubSeq(t, size + 2, Len(t))
  BY FrontShape
<1>3. 1 \in 1 .. Len(t) + 1 /\ (size < Len(t) => size + 2 \in 1 .. Len(t) + 1)
  BY <1>1
<1>4. Len(t) \in 0 .. Len(t)
  BY <1>1
<1>5. Lines!FrontRecord(t) \in Lines!Text /\ Lines!Behind(t) \in Lines!Text
  BY <1>1, <1>2, <1>3, <1>4, TextElements
<1> QED
  BY <1>1, <1>5 DEF Lines!WholeLine

LEMMA RepeatIsText ==
  ASSUME NEW c \in Lines!Char
  PROVE  <<c>> \in Lines!Text /\ \A k \in Nat : [i \in 1 .. k |-> c] \in Lines!Text
BY DEF Lines!Text

(* A write makes a line longer, if it changes it. *)
LEMMA AppendedIsText ==
  ASSUME NEW l \in Lines!Text, NEW w \in Writes
  PROVE  Lines!Appended(l, w) \in Lines!Text /\ Len(Lines!Appended(l, w)) >= Len(l)
<1>1. /\ w.writer \in {"value", "bool", "digits", "hex", "octal", "file"}
      /\ w.value \in Lines!Text /\ w.field \in Nat /\ w.digits \in Nat
  BY WritesAssumption
<1>2. Len(w.value) \in Nat
  BY <1>1, TextElements
<1>3. /\ Lines!HwriteText(w.value) \in Lines!Text /\ Lines!OwriteText(w.value) \in Lines!Text
  <2>1. "0" \in Lines!Char
    BY DEF Lines!Char
  <2> QED
    BY <1>2, <2>1 DEF Lines!HwriteText, Lines!OwriteText, Lines!ToHexString, Lines!ToOctalString, Lines!Text
<1>4. Lines!DigitsText(w.value, w.digits) \in Lines!Text
  BY <1>1, <1>2, TextElements DEF Lines!DigitsText
<1>5. Lines!WriteText(w) \in Lines!Text
  BY <1>1, <1>3, <1>4 DEF Lines!WriteText
<1>6. Lines!SizeOf(w) \in Nat
  BY <1>5, TextElements DEF Lines!SizeOf
<1>7. \A size \in Nat : Lines!Pads(w, size) \in Lines!Text
  <2>1. ASSUME NEW size \in Nat
        PROVE  (IF w.left /\ size < w.field THEN w.field - size ELSE 0) \in Nat
    BY <1>1
  <2>2. Lines!Space \in Lines!Char
    BY DEF Lines!Char
  <2>3. ASSUME NEW k \in Nat PROVE [i \in 1 .. k |-> Lines!Space] \in Lines!Text
    BY <2>2, RepeatIsText
  <2> QED
    BY <2>1, <2>3 DEF Lines!Pads
<1> DEFINE sep == IF l = <<>> THEN <<>> ELSE <<Lines!Space>>
           before == Lines!Pads(w, Lines!SizeOf(w))
           after == Lines!Pads(w, IF w.writer = "bool" THEN 1 ELSE Lines!SizeOf(w))
<1>8. sep \in Lines!Text /\ before \in Lines!Text /\ after \in Lines!Text
  <2>1. sep \in Lines!Text
    <3>1. Lines!Space \in Lines!Char
      BY DEF Lines!Char
    <3>2. <<Lines!Space>> \in Lines!Text
      BY <3>1, RepeatIsText
    <3> QED
      BY <3>2, DigitIsText
  <2>2. before \in Lines!Text
    BY <1>6, <1>7
  <2>3. after \in Lines!Text
    BY <1>6, <1>7
  <2> QED
    BY <2>1, <2>2, <2>3
<1>9. Lines!Appended(l, w) = l \o sep \o before \o Lines!WriteText(w) \o after
  BY DEF Lines!Appended
<1> HIDE DEF sep, before, after
<1>10. /\ l \o sep \in Lines!Text /\ Len(l \o sep) >= Len(l)
  BY <1>8, ConcatProperties, TextElements DEF Lines!Text
<1>11. /\ l \o sep \o before \in Lines!Text /\ Len(l \o sep \o before) >= Len(l)
  BY <1>8, <1>10, ConcatProperties, TextElements DEF Lines!Text
<1>12. /\ l \o sep \o before \o Lines!WriteText(w) \in Lines!Text
       /\ Len(l \o sep \o before \o Lines!WriteText(w)) >= Len(l)
  BY <1>5, <1>11, ConcatProperties, TextElements DEF Lines!Text
<1>13. /\ l \o sep \o before \o Lines!WriteText(w) \o after \in Lines!Text
       /\ Len(l \o sep \o before \o Lines!WriteText(w) \o after) >= Len(l)
  BY <1>8, <1>12, ConcatProperties, TextElements DEF Lines!Text
<1> QED
  BY <1>9, <1>13

-----------------------------------------------------------------------------
(* The records of a file.  Before are the newlines in front of a place,    *)
(* which a line may begin at.                                              *)
Before(t, i) == {j \in Lines!Newlines(t) : j < i}
LineBegins(t, i) == i \in 1 .. Len(t) + 1 /\ (i = 1 \/ t[i - 1] = "n")
From(t, p) == SubSeq(t, p, Len(t))

LEMMA SameCardinality == \A S : Lines!Cardinality(S) = Cardinality(S)
BY DEF Lines!Cardinality, Cardinality

(* What is left of a text, and its parts. *)
LEMMA RestOf ==
  ASSUME NEW t \in Lines!Text, NEW p \in 1 .. Len(t) + 1
  PROVE  /\ From(t, p) \in Lines!Text /\ Len(From(t, p)) = Len(t) - p + 1
         /\ \A i \in 1 .. Len(t) - p + 1 : From(t, p)[i] = t[p + i - 1]
         /\ \A m \in 1 .. Len(t) - p + 2, k \in 0 .. Len(t) - p + 1 :
              SubSeq(From(t, p), m, k) = SubSeq(t, p + m - 1, p + k - 1)
<1>1. t \in Seq(Lines!Char) /\ Len(t) \in Nat /\ \A i \in 1 .. Len(t) : t[i] \in Lines!Char
  BY TextElements
<1>2. /\ From(t, p) \in Lines!Text /\ Len(From(t, p)) = Len(t) - p + 1
      /\ \A i \in 1 .. Len(t) - p + 1 : From(t, p)[i] = t[p + i - 1]
  <2>1. p \in Int /\ Len(t) \in Int /\ \A i \in p .. Len(t) : t[i] \in Lines!Char
    BY <1>1
  <2> QED
    BY <1>1, <2>1, SubSeqProperties, TextElements DEF From
<1>3. ASSUME NEW m \in 1 .. Len(t) - p + 2, NEW k \in 0 .. Len(t) - p + 1
      PROVE  SubSeq(From(t, p), m, k) = SubSeq(t, p + m - 1, p + k - 1)
  <2>1. CASE k < m
    <3>1. m \in Int /\ k \in Int /\ p + m - 1 \in Int /\ p + k - 1 \in Int /\ p + k - 1 < p + m - 1
      BY <1>1, <2>1
    <3> QED
      BY <2>1, <3>1, SubSeqEmpty
  <2>2. CASE m <= k
    <3>1. /\ p \in 1 .. Len(t) /\ Len(t) \in 1 .. Len(t)
          /\ m \in 1 .. Len(t) - p + 1 /\ k \in 1 .. Len(t) - p + 1
      BY <1>1, <2>2
    <3> QED
      BY <1>1, <3>1, SubSeqOfSubSeq DEF From
  <2> QED
    BY <1>1, <2>1, <2>2
<1> QED
  BY <1>2, <1>3

(* A line begins at one place. *)
LEMMA NewlinesFinite ==
  ASSUME NEW t \in Lines!Text, NEW i
  PROVE  /\ IsFiniteSet(Lines!Newlines(t)) /\ Lines!Newlines(t) \in SUBSET (1 .. Len(t))
         /\ Before(t, i) \in SUBSET Lines!Newlines(t) /\ IsFiniteSet(Before(t, i))
         /\ Cardinality(Before(t, i)) \in Nat
<1>1. Len(t) \in Int
  BY TextElements
<1>2. IsFiniteSet(1 .. Len(t))
  BY <1>1, FS_Interval
<1>3. Lines!Newlines(t) \in SUBSET (1 .. Len(t)) /\ Before(t, i) \in SUBSET Lines!Newlines(t)
  BY DEF Lines!Newlines, Before
<1> QED
  BY <1>2, <1>3, FS_Subset, FS_CardinalityType

LEMMA BeginsOnce ==
  ASSUME NEW t \in Lines!Text, NEW p, NEW q, LineBegins(t, p), LineBegins(t, q), p < q
  PROVE  Cardinality(Before(t, p)) # Cardinality(Before(t, q))
<1>1. Len(t) \in Nat
  BY TextElements
<1>2. p \in Int /\ q \in Int /\ 1 <= p /\ q - 1 \in 1 .. Len(t) /\ t[q - 1] = "n"
  BY <1>1 DEF LineBegins
<1>3. Before(t, p) \in SUBSET Before(t, q) /\ q - 1 \in Before(t, q) /\ q - 1 \notin Before(t, p)
  BY <1>1, <1>2 DEF Before, Lines!Newlines
<1> QED
  BY <1>3, NewlinesFinite, FS_Subset

(* The k-th line of a text is the record at the front of what is left of   *)
(* it where that line begins.                                              *)
LEMMA LineFound ==
  ASSUME NEW t \in Lines!Text, NEW p, LineBegins(t, p), NEW k \in Nat,
         Cardinality(Before(t, p)) = k
  PROVE  Lines!LineAt(t, k + 1) = Lines!FrontRecord(From(t, p))
<1> DEFINE begins(i) == /\ i = 1 \/ t[i - 1] = "n"
                        /\ Lines!Cardinality({j \in Lines!Newlines(t) : j < i}) = (k + 1) - 1
           from == CHOOSE i \in 1 .. Len(t) + 1 : begins(i)
           ends(f, i) == (\A j \in f .. i : t[j] # "n") /\ (i = Len(t) \/ t[i + 1] = "n")
           to == CHOOSE i \in from - 1 .. Len(t) : ends(from, i)
<1>1. Len(t) \in Nat /\ p \in 1 .. Len(t) + 1
  BY TextElements DEF LineBegins
<1>2. from = p
  <2>1. begins(p)
    BY SameCardinality DEF LineBegins, Before
  <2>2. ASSUME NEW i \in 1 .. Len(t) + 1, begins(i) PROVE i = p
    <3>1. LineBegins(t, i) /\ Cardinality(Before(t, i)) = k
      BY <2>2, SameCardinality DEF LineBegins, Before
    <3>2. ~(i < p) /\ ~(p < i)
      BY <3>1, BeginsOnce
    <3> QED
      BY <1>1, <3>2
  <2> HIDE DEF begins
  <2> QED
    BY <1>1, <2>1, <2>2
<1>3. PICK size \in 0 .. Len(t) - p + 1 :
        /\ Lines!FrontRecord(From(t, p)) = SubSeq(From(t, p), 1, size)
        /\ \A j \in 1 .. size : From(t, p)[j] # "n"
        /\ size = Len(t) - p + 1 \/ From(t, p)[size + 1] = "n"
  <2>1. From(t, p) \in Lines!Text /\ Len(From(t, p)) = Len(t) - p + 1
    BY <1>1, RestOf
  <2>2. PICK size \in 0 .. Len(From(t, p)) :
          /\ Lines!FrontRecord(From(t, p)) = SubSeq(From(t, p), 1, size)
          /\ \A j \in 1 .. size : From(t, p)[j] # "n"
          /\ Lines!Ended(From(t, p)) => size < Len(From(t, p)) /\ From(t, p)[size + 1] = "n"
          /\ ~Lines!Ended(From(t, p)) => size = Len(From(t, p))
    BY <2>1, FrontShape
  <2> QED
    BY <2>1, <2>2
<1> HIDE DEF from
<1>4. to = p + size - 1
  <2>1. p + size - 1 \in p - 1 .. Len(t)
    BY <1>1, <1>3
  <2>2. ASSUME NEW j \in p .. p + size - 1 PROVE t[j] # "n"
    <3>1. j - p + 1 \in 1 .. size /\ p + (j - p + 1) - 1 = j /\ j - p + 1 \in 1 .. Len(t) - p + 1
      BY <1>1, <1>3
    <3> QED
      BY <1>1, <1>3, <3>1, RestOf
  <2>3. p + size - 1 = Len(t) \/ t[p + size - 1 + 1] = "n"
    <3>1. CASE size = Len(t) - p + 1
      BY <1>1, <3>1
    <3>2. CASE size # Len(t) - p + 1 /\ From(t, p)[size + 1] = "n"
      <4>1. size + 1 \in 1 .. Len(t) - p + 1 /\ p + (size + 1) - 1 = p + size - 1 + 1
        BY <1>1, <1>3, <3>2
      <4>2. From(t, p)[size + 1] = t[p + (size + 1) - 1]
        BY <1>1, <4>1, RestOf
      <4> QED
        BY <3>2, <4>1, <4>2
    <3> QED
      BY <1>3, <3>1, <3>2
  <2>4. ends(p, p + size - 1)
    BY <2>2, <2>3
  <2>5. ASSUME NEW i \in p - 1 .. Len(t), ends(p, i) PROVE i = p + size - 1
    <3>1. ~(i < p + size - 1)
      <4>1. SUFFICES ASSUME i < p + size - 1 PROVE FALSE
        OBVIOUS
      <4>2. i # Len(t) /\ i + 1 \in p .. p + size - 1
        BY <1>1, <1>3, <2>1, <4>1
      <4> QED
        BY <2>2, <2>5, <4>2
    <3>2. ~(p + size - 1 < i)
      <4>1. SUFFICES ASSUME p + size - 1 < i PROVE FALSE
        OBVIOUS
      <4>2. p + size - 1 # Len(t) /\ p + size - 1 + 1 \in p .. i
        BY <1>1, <1>3, <2>1, <4>1
      <4> QED
        BY <2>3, <2>5, <4>2
    <3> QED
      BY <1>1, <1>3, <3>1, <3>2
  <2> HIDE DEF ends
  <2>6. (CHOOSE i \in p - 1 .. Len(t) : ends(p, i)) = p + size - 1
    BY <2>1, <2>4, <2>5
  <2> QED
    BY <1>2, <2>6
<1>5. Lines!LineAt(t, k + 1) = SubSeq(t, from, to)
  BY DEF Lines!LineAt, from
<1> HIDE DEF to
<1>6. SubSeq(From(t, p), 1, size) = SubSeq(t, p, p + size - 1)
  <2>1. 1 \in 1 .. Len(t) - p + 2 /\ p + 1 - 1 = p
    BY <1>1
  <2> QED
    BY <1>1, <1>3, <2>1, RestOf
<1> QED
  BY <1>2, <1>3, <1>4, <1>5, <1>6

(* Every read gives the line that begins at what is left of the file, and  *)
(* nothing once it has met the end of the file.                            *)
ReadInv ==
  /\ \E p \in 1 .. Len(content) + 1 :
       /\ unread = From(content, p)
       /\ IF eof THEN p = Len(content) + 1 /\ Lines!LineCount(content) <= Len(records)
          ELSE LineBegins(content, p) /\ Cardinality(Before(content, p)) = Len(records)
  /\ Lines!RecordsInOrder

LEMMA WholeIsFront ==
  ASSUME NEW t \in Lines!Text, Lines!KeepsLast(t), NEW p, LineBegins(t, p)
  PROVE  Lines!WholeLine(From(t, p)) = Lines!FrontRecord(From(t, p))
<1>1. Len(t) \in Nat /\ p \in 1 .. Len(t) + 1
  BY TextElements DEF LineBegins
<1>2. /\ From(t, p) \in Lines!Text /\ Len(From(t, p)) = Len(t) - p + 1
      /\ \A i \in 1 .. Len(t) - p + 1 : From(t, p)[i] = t[p + i - 1]
  BY <1>1, RestOf
<1>3. CASE Lines!Ended(From(t, p)) \/ Len(From(t, p)) % (BufferSize - 1) # 0
  BY <1>3 DEF Lines!WholeLine
<1>4. CASE ~Lines!Ended(From(t, p)) /\ Len(From(t, p)) % (BufferSize - 1) = 0
  <2>1. p = Len(t) + 1
    <3>1. SUFFICES ASSUME p # Len(t) + 1 PROVE FALSE
      OBVIOUS
    <3>2. p \in 1 .. Len(t) /\ (p = 1 \/ t[p - 1] = "n")
      BY <1>1, <3>1 DEF LineBegins
    <3>3. ASSUME NEW j \in p .. Len(t) PROVE t[j] # "n"
      <4>1. j - p + 1 \in 1 .. Len(t) - p + 1 /\ p + (j - p + 1) - 1 = j
        BY <1>1
      <4>2. From(t, p)[j - p + 1] = t[j]
        BY <1>2, <4>1
      <4> QED
        BY <1>2, <1>4, <4>1, <4>2 DEF Lines!Ended
    <3> QED
      BY <1>2, <1>4, <3>2, <3>3 DEF Lines!KeepsLast
  <2>2. From(t, p) = <<>>
    <3>1. Len(From(t, p)) = 0 /\ From(t, p) \in Seq(Lines!Char)
      BY <1>1, <1>2, <2>1 DEF Lines!Text
    <3> QED
      BY <3>1, EmptySeq
  <2> QED
    BY <1>4, <2>2 DEF Lines!WholeLine, Lines!FrontRecord
<1> QED
  BY <1>3, <1>4

(* A read of the next record, by either kind of read. *)
LEMMA ReadStep ==
  ASSUME Lines!TypeOK, ReadInv,
         records' = Append(records, Lines!FrontRecord(unread)),
         unread' = Lines!Behind(unread), content' = content,
         eof' = (eof \/ ~Lines!Ended(unread))
  PROVE  ReadInv'
<1> DEFINE t == content
           k == Len(records)
           r == Lines!FrontRecord(unread)
<1>1. /\ t \in Lines!Text /\ Len(t) \in Nat /\ unread \in Lines!Text /\ eof \in BOOLEAN
      /\ records \in Seq(Lines!Text) /\ k \in Nat /\ r \in Lines!Text
  BY ContentsAssumption, TextElements, FrontIsText DEF Lines!TypeOK
<1>2. PICK p \in 1 .. Len(t) + 1 :
        /\ unread = From(t, p)
        /\ IF eof THEN p = Len(t) + 1 /\ Lines!LineCount(t) <= k
           ELSE LineBegins(t, p) /\ Cardinality(Before(t, p)) = k
  BY DEF ReadInv
<1>3. /\ Len(unread) = Len(t) - p + 1
      /\ \A i \in 1 .. Len(t) - p + 1 : unread[i] = t[p + i - 1]
      /\ \A m \in 1 .. Len(t) - p + 2 :
           SubSeq(unread, m, Len(unread)) = SubSeq(t, p + m - 1, Len(t))
  <2>1. Len(t) - p + 1 \in 0 .. Len(t) - p + 1 /\ p + (Len(t) - p + 1) - 1 = Len(t)
    BY <1>1
  <2> QED
    <3> DEFINE u == From(t, p)
               n1 == Len(t) - p + 1
    <3>1. /\ Len(u) = n1 /\ \A i \in 1 .. n1 : u[i] = t[p + i - 1]
          /\ \A m \in 1 .. Len(t) - p + 2, j \in 0 .. n1 :
               SubSeq(u, m, j) = SubSeq(t, p + m - 1, p + j - 1)
      BY <1>1, <1>2, RestOf
    <3>2. unread = u
      BY <1>2
    <3> HIDE DEF u
    <3>3. \A m \in 1 .. Len(t) - p + 2 : SubSeq(u, m, n1) = SubSeq(t, p + m - 1, p + n1 - 1)
      BY <2>1, <3>1
    <3> QED
      BY ONLY <2>1, <3>1, <3>2, <3>3
<1>4. PICK size \in 0 .. Len(t) - p + 1 :
        /\ \A j \in 1 .. size : unread[j] # "n"
        /\ Lines!Ended(unread) => /\ size < Len(t) - p + 1 /\ unread[size + 1] = "n"
                                  /\ Lines!Behind(unread) = SubSeq(unread, size + 2, Len(unread))
        /\ ~Lines!Ended(unread) => size = Len(t) - p + 1 /\ Lines!Behind(unread) = <<>>
  BY <1>1, <1>3, FrontShape
<1>5. /\ Len(records') = k + 1 /\ records'[k + 1] = r
      /\ \A i \in 1 .. k : records'[i] = records[i]
  BY <1>1, AppendProperties
<1>6. IsFiniteSet(Lines!Newlines(t)) /\ Cardinality(Lines!Newlines(t)) \in Nat
  BY <1>1, NewlinesFinite, FS_CardinalityType
<1>7. /\ Lines!LineCount(t) \in Nat
      /\ Lines!LineCount(t) = Cardinality(Lines!Newlines(t))
                                + (IF t # <<>> /\ t[Len(t)] # "n" THEN 1 ELSE 0)
  BY <1>6, SameCardinality DEF Lines!LineCount, Lines!Last
<1>8. ASSUME k + 1 <= Lines!LineCount(t) => r = Lines!LineAt(t, k + 1),
             k + 1 > Lines!LineCount(t) => r = <<>>,
             eof' => Lines!LineCount(t) <= k + 1
      PROVE  Lines!RecordsInOrder'
  <2>1. ASSUME NEW i \in 1 .. k + 1
        PROVE  records'[i] = IF i <= Lines!LineCount(t) THEN Lines!LineAt(t, i) ELSE <<>>
    <3>1. CASE i = k + 1
      BY <1>1, <1>5, <1>7, <1>8, <3>1
    <3>2. CASE i \in 1 .. k
      BY <1>5, <3>2 DEF ReadInv, Lines!RecordsInOrder
    <3> QED
      BY <1>1, <3>1, <3>2
  <2> HIDE DEF k
  <2> QED
    BY <1>5, <1>8, <2>1 DEF Lines!RecordsInOrder, Lines!Endfile
<1> HIDE DEF k, r
<1>9. CASE eof
  <2>1. unread = <<>>
    BY <1>1, <1>2, <1>3, <1>9 DEF Lines!Text
  <2>2. ~Lines!Ended(unread) /\ r = <<>> /\ Lines!Behind(unread) = <<>>
    BY <2>1 DEF Lines!Ended, Lines!FrontRecord, Lines!Behind, r
  <2>3. Lines!LineCount(t) <= k + 1 /\ ~(k + 1 <= Lines!LineCount(t))
    BY <1>1, <1>2, <1>7, <1>9
  <2>4. eof' /\ unread' = unread /\ Len(records') = k + 1
    BY <1>5, <1>9, <2>1, <2>2
  <2>5. Lines!RecordsInOrder'
    BY <1>8, <2>2, <2>3
  <2> QED
    BY <1>2, <1>9, <2>3, <2>4, <2>5 DEF ReadInv
<1>10. CASE ~eof
  <2>1. LineBegins(t, p) /\ Cardinality(Before(t, p)) = k
    BY <1>2, <1>10
  <2>2. r = Lines!LineAt(t, k + 1)
    BY <1>1, <1>2, <2>1, LineFound DEF r
  <2>3. CASE Lines!Ended(unread)
    <3> DEFINE q == p + size + 1
    <3>1. q \in 1 .. Len(t) + 1 /\ t[q - 1] = "n" /\ q - 1 \in 1 .. Len(t) /\ q - 1 = p + size
      <4>1. size + 1 \in 1 .. Len(t) - p + 1 /\ p + (size + 1) - 1 = q - 1
        BY <1>1, <1>4, <2>3
      <4>2. t[q - 1] = "n"
        BY <1>3, <1>4, <2>3, <4>1
      <4> QED
        BY <1>1, <4>1, <4>2
    <3>2. unread' = From(t, q)
      <4>1. size + 2 \in 1 .. Len(t) - p + 2 /\ p + (size + 2) - 1 = q
        BY <1>1, <1>4, <2>3
      <4> QED
        BY <1>3, <1>4, <2>3, <4>1 DEF From
    <3>3. \A j \in p .. p + size - 1 : t[j] # "n"
      <4>1. ASSUME NEW j \in p .. p + size - 1 PROVE t[j] # "n"
        <5>1. j - p + 1 \in 1 .. size /\ p + (j - p + 1) - 1 = j /\ j - p + 1 \in 1 .. Len(t) - p + 1
          BY <1>1, <1>4
        <5> QED
          BY <1>3, <1>4, <5>1
      <4> QED
        BY <4>1
    <3>4. Before(t, q) = Before(t, p) \cup {q - 1}
      BY <1>1, <3>1, <3>3 DEF Before, Lines!Newlines
    <3>5. q - 1 \notin Before(t, p)
      BY <1>1, <3>1 DEF Before
    <3> HIDE DEF q
    <3>6. Cardinality(Before(t, q)) = k + 1
      BY <1>1, <2>1, <3>4, <3>5, NewlinesFinite, FS_AddElement
    <3>7. k + 1 <= Lines!LineCount(t)
      <4>1. Cardinality(Before(t, q)) <= Cardinality(Lines!Newlines(t))
        BY <1>1, <1>6, NewlinesFinite, FS_Subset
      <4> QED
        BY <1>1, <1>6, <1>7, <3>6, <4>1
    <3>8. ~eof' /\ LineBegins(t, q)
      BY <1>10, <2>3, <3>1 DEF LineBegins
    <3>9. Lines!RecordsInOrder'
      BY <1>1, <1>7, <1>8, <2>2, <3>7, <3>8
    <3> QED
      BY <1>5, <3>1, <3>2, <3>6, <3>8, <3>9 DEF ReadInv
  <2>4. CASE ~Lines!Ended(unread)
    <3>0. eof'
      <4>1. Lines!Ended(unread) \in BOOLEAN
        BY DEF Lines!Ended
      <4> QED
        BY <2>4, <4>1
    <3>1. ASSUME NEW j \in p .. Len(t) PROVE t[j] # "n"
      <4>1. j - p + 1 \in 1 .. Len(t) - p + 1 /\ p + (j - p + 1) - 1 = j
        BY <1>1
      <4>2. unread[j - p + 1] = t[j]
        BY <1>3, <4>1
      <4> QED
        BY <1>3, <2>4, <4>1, <4>2 DEF Lines!Ended
    <3>2. Lines!Newlines(t) = Before(t, p)
      <4>1. \A j \in Lines!Newlines(t) : j < p
        BY <1>1, <3>1 DEF Lines!Newlines
      <4> QED
        BY <4>1 DEF Before
    <3>3. CASE p = Len(t) + 1
      <4>1. unread = <<>>
        BY <1>1, <1>3, <3>3 DEF Lines!Text
      <4>2. r = <<>>
        BY <4>1 DEF Lines!Ended, Lines!FrontRecord, r
      <4>3. ~(t # <<>> /\ t[Len(t)] # "n")
        BY <1>1, <2>1, <3>3 DEF LineBegins, Lines!Text
      <4>4. Lines!LineCount(t) = k
        BY <1>1, <1>7, <2>1, <3>2, <4>3
      <4>5. Lines!RecordsInOrder'
        BY <1>1, <1>8, <4>2, <4>4
      <4>6. eof' /\ unread' = From(t, p) /\ Lines!LineCount(t) <= Len(records')
        BY <1>1, <1>2, <1>4, <1>5, <2>4, <3>0, <4>1, <4>4
      <4> QED
        BY <3>3, <4>5, <4>6 DEF ReadInv
    <3>4. CASE p # Len(t) + 1
      <4>1. t # <<>> /\ t[Len(t)] # "n"
        <5>1. Len(t) \in p .. Len(t) /\ Len(t) # 0
          BY <1>1, <3>4
        <5> QED
          BY <3>1, <5>1
      <4>2. Lines!LineCount(t) = k + 1
        BY <1>1, <1>7, <2>1, <3>2, <4>1
      <4>3. Lines!RecordsInOrder'
        BY <1>1, <1>8, <2>2, <4>2
      <4>4. Len(t) + 1 \in 1 .. Len(t) + 1 /\ unread' = From(t, Len(t) + 1)
        <5>1. Len(t) + 1 \in 1 .. Len(t) + 1
          BY <1>1
        <5>2. From(t, Len(t) + 1) = <<>>
          BY <1>1, SubSeqEmpty DEF From
        <5> QED
          BY <1>1, <1>4, <2>4, <5>1, <5>2
      <4>5. eof' /\ Lines!LineCount(t) <= Len(records')
        BY <1>1, <1>5, <3>0, <4>2
      <4> QED
        BY <4>3, <4>4, <4>5 DEF ReadInv
    <3> QED
      BY <3>3, <3>4
  <2> QED
    BY <2>3, <2>4
<1> QED
  BY <1>1, <1>9, <1>10

-----------------------------------------------------------------------------
(* The words of a line.  A word runs from where it starts to the blank or  *)
(* the end behind it.                                                      *)
RunsTo(t, i, e) ==
  /\ e \in i .. Len(t) /\ \A j \in i .. e : ~Lines!Blank(t, j)
  /\ e = Len(t) \/ Lines!Blank(t, e + 1)
WordFrom(t, i) == Lines!FirstWord(From(t, i))

LEMMA WordIs ==
  ASSUME NEW t \in Lines!Text, NEW i \in 1 .. Len(t), NEW e, RunsTo(t, i, e)
  PROVE  WordFrom(t, i) = SubSeq(t, i, e)
<1> DEFINE u == From(t, i)
<1>1. Len(t) \in Nat /\ i \in 1 .. Len(t) + 1 /\ e \in i .. Len(t)
  BY TextElements DEF RunsTo
<1>2. /\ u \in Lines!Text /\ Len(u) = Len(t) - i + 1
      /\ \A j \in 1 .. Len(t) - i + 1 : u[j] = t[i + j - 1]
      /\ SubSeq(u, 1, e - i + 1) = SubSeq(t, i, e)
  <2>1. 1 \in 1 .. Len(t) - i + 2 /\ e - i + 1 \in 0 .. Len(t) - i + 1
    BY <1>1
  <2>2. i + 1 - 1 = i /\ i + (e - i + 1) - 1 = e
    BY <1>1
  <2>3. SubSeq(u, 1, e - i + 1) = SubSeq(t, i + 1 - 1, i + (e - i + 1) - 1)
    BY <1>1, <2>1, RestOf
  <2> QED
    BY <1>1, <2>2, <2>3, RestOf
<1>3. \A j \in 1 .. Len(t) - i + 1 : Lines!Blank(u, j) <=> Lines!Blank(t, i + j - 1)
  BY <1>2 DEF Lines!Blank
<1> HIDE DEF u
<1>4. \A j \in 1 .. e - i + 1 : ~Lines!Blank(u, j)
  <2>1. ASSUME NEW j \in 1 .. e - i + 1 PROVE ~Lines!Blank(u, j)
    <3>1. j \in 1 .. Len(t) - i + 1 /\ i + j - 1 \in i .. e
      BY <1>1
    <3> QED
      BY <1>3, <3>1 DEF RunsTo
  <2> QED
    BY <2>1
<1>5. e = Len(t) \/ Lines!Blank(u, e - i + 2)
  <2>1. CASE e # Len(t)
    <3>1. e - i + 2 \in 1 .. Len(t) - i + 1 /\ i + (e - i + 2) - 1 = e + 1
      BY <1>1, <2>1
    <3> QED
      BY <1>3, <2>1, <3>1 DEF RunsTo
  <2> QED
    BY <2>1
<1>6. /\ Lines!Start(u) \in 1 .. Len(u) + 1
      /\ \A j \in 1 .. Lines!Start(u) - 1 : Lines!Blank(u, j)
      /\ Lines!End(u) \in Lines!Start(u) .. Len(u) + 1
      /\ Lines!End(u) <= Len(u) => Lines!Blank(u, Lines!End(u))
      /\ \A j \in Lines!Start(u) .. Lines!End(u) - 1 : ~Lines!Blank(u, j)
  BY <1>2, WordSpan
<1>7. Lines!Start(u) = 1
  <2>1. 1 \in 1 .. e - i + 1
    BY <1>1
  <2>2. 1 \notin 1 .. Lines!Start(u) - 1
    BY <1>4, <1>6, <2>1
  <2> QED
    BY <1>1, <1>2, <1>6, <2>2
<1>8. Lines!End(u) = e - i + 2
  <2>1. Lines!End(u) \in Int /\ 1 <= Lines!End(u) /\ Lines!End(u) <= Len(t) - i + 2
    BY <1>1, <1>2, <1>6, <1>7
  <2>2. ~(Lines!End(u) < e - i + 2)
    <3>1. SUFFICES ASSUME Lines!End(u) < e - i + 2 PROVE FALSE
      OBVIOUS
    <3>2. Lines!End(u) \in 1 .. e - i + 1 /\ Lines!End(u) <= Len(u)
      BY <1>1, <1>2, <2>1, <3>1
    <3> QED
      BY <1>4, <1>6, <3>2
  <2>3. ~(e - i + 2 < Lines!End(u))
    <3>1. SUFFICES ASSUME e - i + 2 < Lines!End(u) PROVE FALSE
      OBVIOUS
    <3>2. e # Len(t) /\ e - i + 2 \in 1 .. Lines!End(u) - 1
      BY <1>1, <2>1, <3>1
    <3> QED
      BY <1>5, <1>6, <1>7, <3>2
  <2> QED
    BY <1>1, <2>1, <2>2, <2>3
<1>9. (e - i + 2) - 1 = e - i + 1
  BY <1>1
<1> QED
  BY <1>2, <1>7, <1>8, <1>9 DEF Lines!FirstWord, WordFrom, u

LEMMA WordRuns ==
  ASSUME NEW t \in Lines!Text, NEW i \in Lines!WordStarts(t)
  PROVE  i \in 1 .. Len(t) /\ \E e : RunsTo(t, i, e)
<1>1. Len(t) \in Nat /\ i \in 1 .. Len(t) /\ ~Lines!Blank(t, i)
  BY TextElements DEF Lines!WordStarts
<1> DEFINE S == {e \in i .. Len(t) : e = Len(t) \/ Lines!Blank(t, e + 1)}
<1>2. S \in SUBSET Nat /\ Len(t) \in S
  BY <1>1
<1>3. PICK e \in S : \A j \in S : e <= j
  BY <1>2, Least
<1>4. ASSUME NEW j \in i .. e PROVE ~Lines!Blank(t, j)
  <2>1. CASE j = i
    BY <1>1, <2>1
  <2>2. CASE j # i
    <3>1. j - 1 \in i .. Len(t) /\ ~(e <= j - 1) /\ (j - 1) + 1 = j
      BY <1>1, <1>3, <2>2
    <3> QED
      BY <1>3, <3>1
  <2> QED
    BY <2>1, <2>2
<1>5. RunsTo(t, i, e)
  BY <1>3, <1>4 DEF RunsTo
<1> QED
  BY <1>1, <1>5

(* What the sets of word starts of a line and of a longer one have.        *)
UpTo(S, i) == {j \in S : j <= i}
Ranked(S) == \A k \in 1 .. Cardinality(S) : \E i \in S : Cardinality(UpTo(S, i)) = k

LEMMA NextRank ==
  ASSUME NEW S \in SUBSET Nat, IsFiniteSet(S), NEW a \in Nat, \A i \in S : i < a
  PROVE  /\ Cardinality(S) \in Nat /\ Cardinality(S \cup {a}) = Cardinality(S) + 1
         /\ \A i \in S : UpTo(S \cup {a}, i) = UpTo(S, i)
         /\ UpTo(S \cup {a}, a) = S \cup {a}
         /\ \A i \in S : Cardinality(UpTo(S, i)) \in 0 .. Cardinality(S)
         /\ Ranked(S) => Ranked(S \cup {a})
<1> DEFINE T == S \cup {a}
<1>1. a \notin S
  OBVIOUS
<1>2. Cardinality(S) \in Nat /\ Cardinality(T) = Cardinality(S) + 1
  BY <1>1, FS_AddElement, FS_CardinalityType
<1>3. \A i \in S : UpTo(T, i) = UpTo(S, i)
  BY DEF UpTo
<1>4. UpTo(T, a) = T
  <2>1. \A j \in T : j <= a
    OBVIOUS
  <2> QED
    BY <2>1 DEF UpTo
<1>5. ASSUME NEW i \in S PROVE Cardinality(UpTo(S, i)) \in 0 .. Cardinality(S)
  <2>1. UpTo(S, i) \in SUBSET S
    BY DEF UpTo
  <2> QED
    BY <1>2, <2>1, FS_Subset, FS_CardinalityType
<1>6. ASSUME Ranked(S), NEW k \in 1 .. Cardinality(T)
      PROVE  \E i \in T : Cardinality(UpTo(T, i)) = k
  <2>1. CASE k = Cardinality(S) + 1
    BY <1>2, <1>4, <2>1
  <2>2. CASE k \in 1 .. Cardinality(S)
    <3>1. PICK i \in S : Cardinality(UpTo(S, i)) = k
      BY <1>6, <2>2 DEF Ranked
    <3> QED
      BY <1>3, <3>1
  <2> QED
    BY <1>2, <2>1, <2>2
<1> QED
  BY <1>2, <1>3, <1>4, <1>5, <1>6 DEF Ranked

LEMMA SameRank ==
  ASSUME NEW S \in SUBSET Nat, IsFiniteSet(S), NEW i \in S, NEW j \in S,
         Cardinality(UpTo(S, i)) = Cardinality(UpTo(S, j))
  PROVE  i = j
<1>1. ASSUME NEW x \in S, NEW y \in S, x < y, Cardinality(UpTo(S, x)) = Cardinality(UpTo(S, y))
      PROVE  FALSE
  <2>1. UpTo(S, y) \in SUBSET S /\ UpTo(S, x) \in SUBSET UpTo(S, y)
    <3>1. x \in Nat /\ y \in Nat /\ \A z \in S : z \in Nat
      OBVIOUS
    <3>2. \A z \in S : z <= x => z <= y
      BY <1>1, <3>1
    <3> QED
      BY <3>2 DEF UpTo
  <2>2. y \in UpTo(S, y) /\ y \notin UpTo(S, x)
    BY <1>1 DEF UpTo
  <2>3. IsFiniteSet(UpTo(S, y))
    BY <2>1, FS_Subset
  <2> QED
    BY <1>1, <2>1, <2>2, <2>3, FS_Subset
<1> QED
  BY <1>1

(* A word behind a line: g is l, blanks, the word v at a, and blanks.      *)
PutBehind(g, l, v, a) ==
  /\ a \in Len(l) + 1 .. Len(g) /\ Len(v) > 0 /\ a + Len(v) - 1 <= Len(g)
  /\ l # <<>> => a # Len(l) + 1
  /\ \A i \in 1 .. Len(l) : g[i] = l[i]
  /\ \A i \in Len(l) + 1 .. a - 1 : Lines!Blank(g, i)
  /\ \A i \in a .. a + Len(v) - 1 : g[i] = v[i - a + 1]
  /\ \A i \in a + Len(v) .. Len(g) : Lines!Blank(g, i)
  /\ \A i \in 1 .. Len(v) : ~Lines!Blank(v, i)

LEMMA WordBehind ==
  ASSUME NEW l \in Lines!Text, NEW g \in Lines!Text, NEW v \in Lines!Text, NEW a,
         PutBehind(g, l, v, a)
  PROVE  /\ Lines!WordStarts(g) = Lines!WordStarts(l) \cup {a} /\ a \in Nat
         /\ WordFrom(g, a) = v
         /\ \A i \in Lines!WordStarts(l) : i < a /\ WordFrom(g, i) = WordFrom(l, i)
<1> DEFINE b == a + Len(v) - 1
<1>1. /\ Len(l) \in Nat /\ Len(g) \in Nat /\ Len(v) \in Nat
      /\ l \in Seq(Lines!Char) /\ g \in Seq(Lines!Char) /\ v \in Seq(Lines!Char)
  BY TextElements
<1>2. /\ a \in Nat /\ b \in Nat /\ Len(l) < a /\ a <= b /\ b <= Len(g) /\ Len(l) < Len(g)
      /\ Len(v) = b - a + 1
  BY <1>1 DEF PutBehind
<1>3. \A i \in 1 .. Len(l) : Lines!Blank(g, i) <=> Lines!Blank(l, i)
  BY DEF PutBehind, Lines!Blank
<1>4. \A i \in Len(l) + 1 .. a - 1 : Lines!Blank(g, i)
  BY DEF PutBehind
<1>5. \A i \in a .. b : ~Lines!Blank(g, i) /\ g[i] = v[i - a + 1]
  <2>1. ASSUME NEW i \in a .. b PROVE ~Lines!Blank(g, i) /\ g[i] = v[i - a + 1]
    <3>1. i - a + 1 \in 1 .. Len(v) /\ i \in a .. a + Len(v) - 1
      BY <1>1, <1>2
    <3> QED
      BY <3>1 DEF PutBehind, Lines!Blank
  <2> QED
    BY <2>1
<1>6. \A i \in b + 1 .. Len(g) : Lines!Blank(g, i)
  <2>1. b + 1 = a + Len(v)
    BY <1>1, <1>2
  <2> QED
    BY <2>1 DEF PutBehind
<1> HIDE DEF b
<1>7. Lines!WordStarts(g) = Lines!WordStarts(l) \cup {a}
  <2>1. ASSUME NEW i \in 1 .. Len(l) PROVE i \in Lines!WordStarts(g) <=> i \in Lines!WordStarts(l)
    <3>1. i \in 1 .. Len(g) /\ (i # 1 => i - 1 \in 1 .. Len(l))
      BY <1>1, <1>2
    <3> QED
      BY <1>3, <3>1 DEF Lines!WordStarts
  <2>2. a \in Lines!WordStarts(g)
    <3>1. a \in 1 .. Len(g) /\ a \in a .. b /\ (a # 1 => a - 1 \in Len(l) + 1 .. a - 1)
      <4>1. CASE l = <<>>
        BY <1>1, <1>2, <4>1
      <4>2. CASE l # <<>>
        BY <1>1, <1>2, <4>2 DEF PutBehind
      <4> QED
        BY <4>1, <4>2
    <3> QED
      BY <1>4, <1>5, <3>1 DEF Lines!WordStarts
  <2>3. ASSUME NEW i \in Len(l) + 1 .. Len(g), i # a PROVE i \notin Lines!WordStarts(g)
    <3>1. CASE i < a
      <4>1. i \in Len(l) + 1 .. a - 1
        BY <1>1, <1>2, <3>1
      <4> QED
        BY <1>4, <4>1 DEF Lines!WordStarts
    <3>2. CASE a < i /\ i <= b
      <4>1. i - 1 \in a .. b /\ i # 1
        BY <1>1, <1>2, <3>2
      <4> QED
        BY <1>5, <4>1 DEF Lines!WordStarts
    <3>3. CASE b < i
      <4>1. i \in b + 1 .. Len(g)
        BY <1>1, <1>2, <3>3
      <4> QED
        BY <1>6, <4>1 DEF Lines!WordStarts
    <3> QED
      BY <1>1, <1>2, <2>3, <3>1, <3>2, <3>3
  <2>4. \A i : i \in Lines!WordStarts(l) => i \in 1 .. Len(l)
    BY DEF Lines!WordStarts
  <2>5. \A i : i \in Lines!WordStarts(g) => i \in 1 .. Len(g)
    BY DEF Lines!WordStarts
  <2>6. \A i \in 1 .. Len(g) : i \in 1 .. Len(l) \/ i \in Len(l) + 1 .. Len(g)
    BY <1>1
  <2>7. \A i : i \in Lines!WordStarts(g) <=> i \in Lines!WordStarts(l) \/ i = a
    BY <2>1, <2>2, <2>3, <2>4, <2>5, <2>6
  <2> QED
    BY <2>7
<1>8. WordFrom(g, a) = v
  <2>1. RunsTo(g, a, b)
    <3>1. b \in a .. Len(g) /\ (b # Len(g) => b + 1 \in b + 1 .. Len(g))
      BY <1>1, <1>2
    <3> QED
      BY <1>5, <1>6, <3>1 DEF RunsTo
  <2>2. WordFrom(g, a) = SubSeq(g, a, b)
    <3>1. a \in 1 .. Len(g)
      BY <1>1, <1>2
    <3> QED
      BY <2>1, <3>1, WordIs
  <2>3. /\ SubSeq(g, a, b) \in Seq(Lines!Char) /\ Len(SubSeq(g, a, b)) = b - a + 1
        /\ \A i \in 1 .. b - a + 1 : SubSeq(g, a, b)[i] = g[a + i - 1]
    <3>1. a \in Int /\ b \in Int /\ \A i \in a .. b : g[i] \in Lines!Char
      BY <1>1, <1>2
    <3> QED
      BY <1>2, <3>1, SubSeqProperties
  <2>4. ASSUME NEW i \in 1 .. b - a + 1 PROVE SubSeq(g, a, b)[i] = v[i]
    <3>1. a + i - 1 \in a .. b /\ (a + i - 1) - a + 1 = i
      BY <1>2
    <3> QED
      BY <1>5, <2>3, <3>1
  <2>5. SubSeq(g, a, b) = v
    BY <1>1, <1>2, <2>3, <2>4, SeqEqual
  <2> QED
    BY <2>2, <2>5
<1>9. ASSUME NEW i \in Lines!WordStarts(l) PROVE i < a /\ WordFrom(g, i) = WordFrom(l, i)
  <2>1. i \in 1 .. Len(l) /\ i \in 1 .. Len(g)
    BY <1>1, <1>2, WordRuns
  <2>2. PICK e : RunsTo(l, i, e)
    BY WordRuns
  <2>3. e \in i .. Len(l) /\ \A j \in i .. e : j \in 1 .. Len(l)
    BY <1>1, <2>1, <2>2 DEF RunsTo
  <2>4. e \in i .. Len(g) /\ \A j \in i .. e : ~Lines!Blank(g, j)
    BY <1>1, <1>2, <1>3, <2>1, <2>2, <2>3 DEF RunsTo
  <2>5. Lines!Blank(g, e + 1)
    <3>1. CASE e = Len(l)
      <4>1. l # <<>>
        BY <2>1
      <4>2. e + 1 \in Len(l) + 1 .. a - 1
        BY <1>1, <1>2, <3>1, <4>1 DEF PutBehind
      <4> QED
        BY <1>4, <4>2
    <3>2. CASE e # Len(l)
      <4>1. e + 1 \in 1 .. Len(l)
        BY <1>1, <2>1, <2>3, <3>2
      <4> QED
        BY <1>3, <2>2, <3>2, <4>1 DEF RunsTo
    <3> QED
      BY <3>1, <3>2
  <2>6. RunsTo(g, i, e)
    BY <2>4, <2>5 DEF RunsTo
  <2>7. WordFrom(g, i) = SubSeq(g, i, e) /\ WordFrom(l, i) = SubSeq(l, i, e)
    BY <2>1, <2>2, <2>6, WordIs
  <2>8. SubSeq(g, i, e) = SubSeq(l, i, e)
    <3>1. i \in Int /\ e \in Int /\ i <= e
      BY <1>1, <2>1, <2>3
    <3>2. \A j \in i .. e : l[j] = g[j] /\ l[j] \in Lines!Char
      BY <1>1, <2>3 DEF PutBehind
    <3>3. /\ SubSeq(g, i, e) \in Seq(Lines!Char) /\ Len(SubSeq(g, i, e)) = e - i + 1
          /\ \A j \in 1 .. e - i + 1 : SubSeq(g, i, e)[j] = g[i + j - 1]
      BY <3>1, <3>2, SubSeqProperties
    <3>4. /\ SubSeq(l, i, e) \in Seq(Lines!Char) /\ Len(SubSeq(l, i, e)) = e - i + 1
          /\ \A j \in 1 .. e - i + 1 : SubSeq(l, i, e)[j] = l[i + j - 1]
      BY <3>1, <3>2, SubSeqProperties
    <3>5. \A j \in 1 .. e - i + 1 : i + j - 1 \in i .. e
      BY <3>1
    <3> QED
      BY <3>2, <3>3, <3>4, <3>5, SeqEqual
  <2> QED
    BY <1>2, <2>1, <2>7, <2>8
<1> QED
  BY <1>2, <1>7, <1>8, <1>9

LEMMA Joined ==
  ASSUME NEW x \in Lines!Text, NEW y \in Lines!Text
  PROVE  /\ x \o y \in Lines!Text /\ Len(x) \in Nat /\ Len(y) \in Nat
         /\ Len(x \o y) = Len(x) + Len(y)
         /\ \A i \in 1 .. Len(x) : (x \o y)[i] = x[i]
         /\ \A i \in Len(x) + 1 .. Len(x) + Len(y) : (x \o y)[i] = y[i - Len(x)]
<1>1. x \in Seq(Lines!Char) /\ y \in Seq(Lines!Char) /\ Len(x) \in Nat /\ Len(y) \in Nat
  BY TextElements DEF Lines!Text
<1> QED
  BY <1>1, ConcatProperties DEF Lines!Text

(* A line, blanks, a word and blanks. *)
LEMMA JoinedBehind ==
  ASSUME NEW l \in Lines!Text, NEW s1 \in Lines!Text, NEW v \in Lines!Text, NEW s2 \in Lines!Text,
         \A i \in 1 .. Len(s1) : Lines!Blank(s1, i), \A i \in 1 .. Len(s2) : Lines!Blank(s2, i),
         \A i \in 1 .. Len(v) : ~Lines!Blank(v, i),
         v # <<>>, l # <<>> => s1 # <<>>
  PROVE  PutBehind(l \o s1 \o v \o s2, l, v, Len(l) + Len(s1) + 1)
<1> DEFINE x == l \o s1
           y == l \o s1 \o v
           g == l \o s1 \o v \o s2
           a == Len(l) + Len(s1) + 1
<1>1. /\ Len(l) \in Nat /\ Len(s1) \in Nat /\ Len(v) \in Nat /\ Len(s2) \in Nat
      /\ Len(v) > 0 /\ (l # <<>> => Len(s1) # 0)
  <2>1. Len(l) \in Nat /\ Len(s1) \in Nat /\ Len(v) \in Nat /\ Len(s2) \in Nat
    BY TextElements
  <2>2. Len(v) # 0 /\ (s1 # <<>> => Len(s1) # 0)
    BY EmptySeq DEF Lines!Text
  <2> QED
    BY <2>1, <2>2
<1>2. /\ x \in Lines!Text /\ Len(x) = a - 1
      /\ \A i \in 1 .. Len(l) : x[i] = l[i]
      /\ \A i \in Len(l) + 1 .. a - 1 : x[i] = s1[i - Len(l)]
  BY <1>1, Joined
<1> HIDE DEF x
<1>3. y = x \o v
  BY DEF x
<1> HIDE DEF y
<1>4. /\ y \in Lines!Text /\ Len(y) = a + Len(v) - 1
      /\ \A i \in 1 .. a - 1 : y[i] = x[i]
      /\ \A i \in a .. a + Len(v) - 1 : y[i] = v[i - a + 1]
  <2>1. /\ y \in Lines!Text /\ Len(y) = Len(x) + Len(v)
        /\ \A i \in 1 .. Len(x) : y[i] = x[i]
        /\ \A i \in Len(x) + 1 .. Len(x) + Len(v) : y[i] = v[i - Len(x)]
    <3>1. /\ x \o v \in Lines!Text /\ Len(x \o v) = Len(x) + Len(v)
          /\ \A i \in 1 .. Len(x) : (x \o v)[i] = x[i]
          /\ \A i \in Len(x) + 1 .. Len(x) + Len(v) : (x \o v)[i] = v[i - Len(x)]
      BY <1>2, Joined
    <3> QED
      BY <1>3, <3>1
  <2>2. \A i \in Int : i - Len(x) = i - a + 1
    BY <1>1, <1>2
  <2>3. Len(x) + 1 = a /\ Len(x) + Len(v) = a + Len(v) - 1
    BY <1>1, <1>2
  <2> QED
    BY <1>1, <1>2, <2>1, <2>2, <2>3
<1>5. g = y \o s2
  BY DEF y
<1> HIDE DEF g
<1>6. /\ g \in Lines!Text /\ Len(g) = Len(y) + Len(s2)
      /\ \A i \in 1 .. Len(y) : g[i] = y[i]
      /\ \A i \in Len(y) + 1 .. Len(y) + Len(s2) : g[i] = s2[i - Len(y)]
  <2>1. /\ y \o s2 \in Lines!Text /\ Len(y \o s2) = Len(y) + Len(s2)
        /\ \A i \in 1 .. Len(y) : (y \o s2)[i] = y[i]
        /\ \A i \in Len(y) + 1 .. Len(y) + Len(s2) : (y \o s2)[i] = s2[i - Len(y)]
    BY <1>4, Joined
  <2> QED
    BY <1>5, <2>1
<1> DEFINE b == Len(y)
<1>7. b \in Nat /\ a \in Nat /\ b = a + Len(v) - 1 /\ Len(l) < a /\ a <= b /\ b <= Len(g)
  BY <1>1, <1>4, <1>6
<1>8. \A i \in 1 .. Len(l) : g[i] = l[i]
  <2>1. ASSUME NEW i \in 1 .. Len(l) PROVE g[i] = l[i]
    <3>1. i \in 1 .. a - 1 /\ i \in 1 .. Len(y)
      BY <1>1, <1>7
    <3> QED
      BY <1>2, <1>4, <1>6, <3>1
  <2> QED
    BY <2>1
<1>9. \A i \in Len(l) + 1 .. a - 1 : Lines!Blank(g, i)
  <2>1. ASSUME NEW i \in Len(l) + 1 .. a - 1 PROVE Lines!Blank(g, i)
    <3>1. i \in 1 .. a - 1 /\ i \in 1 .. Len(y) /\ i - Len(l) \in 1 .. Len(s1)
      BY <1>1, <1>7
    <3>2. g[i] = s1[i - Len(l)]
      BY <1>2, <1>4, <1>6, <3>1
    <3> QED
      BY <3>1, <3>2 DEF Lines!Blank
  <2> QED
    BY <2>1
<1>10. \A i \in a .. a + Len(v) - 1 : g[i] = v[i - a + 1]
  <2>1. ASSUME NEW i \in a .. a + Len(v) - 1 PROVE g[i] = v[i - a + 1]
    <3>1. i \in 1 .. Len(y)
      BY <1>1, <1>7
    <3> QED
      BY <1>4, <1>6, <3>1
  <2> QED
    BY <2>1
<1>11. \A i \in a + Len(v) .. Len(g) : Lines!Blank(g, i)
  <2>1. ASSUME NEW i \in a + Len(v) .. Len(g) PROVE Lines!Blank(g, i)
    <3>1. i \in Len(y) + 1 .. Len(y) + Len(s2) /\ i - Len(y) \in 1 .. Len(s2)
      BY <1>1, <1>6, <1>7
    <3>2. g[i] = s2[i - Len(y)]
      BY <1>6, <3>1
    <3> QED
      BY <3>1, <3>2 DEF Lines!Blank
  <2> QED
    BY <2>1
<1>12. /\ a \in Len(l) + 1 .. Len(g) /\ Len(v) > 0 /\ a + Len(v) - 1 <= Len(g)
       /\ l # <<>> => a # Len(l) + 1
  BY <1>1, <1>7
<1> QED
  BY <1>8, <1>9, <1>10, <1>11, <1>12 DEF PutBehind, g

LEMMA AppendedBehind ==
  ASSUME NEW l \in Lines!Text, NEW w \in Writes, Lines!OneWord(w)
  PROVE  \E a : PutBehind(Lines!Appended(l, w), l, w.value, a)
<1> DEFINE size == Lines!SizeOf(w)
           sep == IF l = <<>> THEN <<>> ELSE <<Lines!Space>>
           before == Lines!Pads(w, size)
           after == Lines!Pads(w, IF w.writer = "bool" THEN 1 ELSE size)
           s1 == sep \o before
<1>1. w.value \in Lines!Text /\ w.field \in Nat /\ Lines!WriteText(w) = w.value
  BY WritesAssumption DEF Lines!OneWord
<1>2. size \in Nat
  BY <1>1, TextElements DEF Lines!SizeOf
<1>3. Lines!Space \in Lines!Char
  BY DEF Lines!Char
<1>4. ASSUME NEW n1 \in Nat
      PROVE  /\ Lines!Pads(w, n1) \in Lines!Text
             /\ \A i \in 1 .. Len(Lines!Pads(w, n1)) : Lines!Blank(Lines!Pads(w, n1), i)
  <2> DEFINE k == IF w.left /\ n1 < w.field THEN w.field - n1 ELSE 0
             p == [i \in 1 .. k |-> Lines!Space]
  <2>1. k \in Nat
    BY <1>1
  <2>2. Lines!Pads(w, n1) = p
    BY DEF Lines!Pads
  <2> HIDE DEF k
  <2>3. p \in Seq(Lines!Char) /\ Len(p) = k /\ \A i \in 1 .. k : p[i] = Lines!Space
    BY <1>3, <2>1
  <2> QED
    BY <2>2, <2>3 DEF Lines!Text, Lines!Blank
<1>5. /\ before \in Lines!Text /\ \A i \in 1 .. Len(before) : Lines!Blank(before, i)
      /\ after \in Lines!Text /\ \A i \in 1 .. Len(after) : Lines!Blank(after, i)
  BY <1>2, <1>4
<1>6. /\ sep \in Lines!Text /\ \A i \in 1 .. Len(sep) : Lines!Blank(sep, i)
      /\ Len(sep) = IF l = <<>> THEN 0 ELSE 1
  <2>1. /\ <<Lines!Space>> \in Lines!Text /\ Len(<<Lines!Space>>) = 1
        /\ <<Lines!Space>>[1] = Lines!Space
    BY <1>3, RepeatIsText
  <2>2. <<>> \in Lines!Text /\ Len(<<>>) = 0
    BY DigitIsText
  <2> QED
    BY <2>1, <2>2 DEF Lines!Blank
<1>7. Lines!Appended(l, w) = l \o sep \o before \o w.value \o after
  BY <1>1 DEF Lines!Appended
<1> HIDE DEF sep, before, after
<1>8. s1 \in Lines!Text /\ \A i \in 1 .. Len(s1) : Lines!Blank(s1, i)
  <2>1. /\ s1 \in Lines!Text /\ Len(sep) \in Nat /\ Len(before) \in Nat
        /\ Len(s1) = Len(sep) + Len(before)
        /\ \A i \in 1 .. Len(sep) : s1[i] = sep[i]
        /\ \A i \in Len(sep) + 1 .. Len(sep) + Len(before) : s1[i] = before[i - Len(sep)]
    BY <1>5, <1>6, Joined
  <2>2. ASSUME NEW i \in 1 .. Len(s1) PROVE Lines!Blank(s1, i)
    <3>1. CASE i \in 1 .. Len(sep)
      BY <1>6, <2>1, <3>1 DEF Lines!Blank
    <3>2. CASE i \notin 1 .. Len(sep)
      <4>1. i \in Len(sep) + 1 .. Len(sep) + Len(before) /\ i - Len(sep) \in 1 .. Len(before)
        BY <2>1, <3>2
      <4> QED
        BY <1>5, <2>1, <4>1 DEF Lines!Blank
    <3> QED
      BY <3>1, <3>2
  <2> QED
    BY <2>1, <2>2
<1>9. l # <<>> => s1 # <<>>
  <2>1. Len(s1) = Len(sep) + Len(before) /\ Len(before) \in Nat
    BY <1>5, <1>6, Joined
  <2> QED
    BY <1>6, <2>1
<1>10. l \o sep \o before = l \o s1
  <2>1. l \in Seq(Lines!Char) /\ sep \in Seq(Lines!Char) /\ before \in Seq(Lines!Char)
    BY <1>5, <1>6 DEF Lines!Text
  <2>2. (l \o sep) \o before = l \o (sep \o before)
    BY ONLY <2>1, ConcatAssociative
  <2> QED
    BY <2>2
<1>11. w.value # <<>> /\ \A i \in 1 .. Len(w.value) : ~Lines!Blank(w.value, i)
  BY DEF Lines!OneWord
<1> HIDE DEF s1
<1>12. PutBehind(l \o s1 \o w.value \o after, l, w.value, Len(l) + Len(s1) + 1)
  BY <1>1, <1>5, <1>8, <1>9, <1>11, JoinedBehind
<1> QED
  BY <1>7, <1>10, <1>12

(* The words of the line are what was written to it. *)
WordsInv ==
  written # <<>> => Lines!Words(line) = written /\ Ranked(Lines!WordStarts(line))

LEMMA WordsOf ==
  ASSUME NEW t \in Lines!Text
  PROVE  /\ Lines!WordStarts(t) \in SUBSET Nat /\ IsFiniteSet(Lines!WordStarts(t))
         /\ Cardinality(Lines!WordStarts(t)) \in Nat
         /\ Lines!Words(t) = [k \in 1 .. Cardinality(Lines!WordStarts(t)) |-> Lines!WordAt(t, k)]
         /\ \A k, i : /\ i \in Lines!WordStarts(t)
                      /\ Cardinality(UpTo(Lines!WordStarts(t), i)) = k
                      /\ \A j \in Lines!WordStarts(t) :
                           Cardinality(UpTo(Lines!WordStarts(t), j)) = k => j = i
                      => Lines!WordAt(t, k) = WordFrom(t, i)
<1> DEFINE S == Lines!WordStarts(t)
<1>1. Len(t) \in Nat /\ S \in SUBSET (1 .. Len(t))
  BY TextElements DEF Lines!WordStarts
<1>2. IsFiniteSet(1 .. Len(t))
  BY <1>1, FS_Interval
<1>3. S \in SUBSET Nat /\ IsFiniteSet(S) /\ Cardinality(S) \in Nat
  BY <1>1, <1>2, FS_Subset, FS_CardinalityType
<1>4. Lines!Words(t) = [k \in 1 .. Cardinality(S) |-> Lines!WordAt(t, k)]
  BY SameCardinality DEF Lines!Words
<1> HIDE DEF S
<1>5. ASSUME NEW k, NEW i \in S, Cardinality(UpTo(S, i)) = k,
             \A j \in S : Cardinality(UpTo(S, j)) = k => j = i
      PROVE  Lines!WordAt(t, k) = WordFrom(t, i)
  <2> DEFINE is(j) == Lines!Cardinality({m \in S : m <= j}) = k
  <2>1. \A j : is(j) <=> Cardinality(UpTo(S, j)) = k
    BY SameCardinality DEF UpTo
  <2>2. Lines!WordAt(t, k) = Lines!FirstWord(SubSeq(t, CHOOSE j \in S : is(j), Len(t)))
    BY DEF Lines!WordAt, S
  <2> HIDE DEF is
  <2>3. (CHOOSE j \in S : is(j)) = i
    BY <1>5, <2>1
  <2> QED
    BY <2>2, <2>3 DEF WordFrom, From
<1> QED
  BY <1>3, <1>4, <1>5 DEF S

LEMMA WriteStep ==
  ASSUME Lines!TypeOK, WordsInv, NEW w \in Writes, Lines!OneWord(w), Lines!Write(w)
  PROVE  WordsInv'
<1> DEFINE l == line
           g == Lines!Appended(line, w)
           v == w.value
           S == Lines!WordStarts(l)
           m == Cardinality(S)
<1>1. /\ l \in Lines!Text /\ g \in Lines!Text /\ v \in Lines!Text /\ written \in Seq(Lines!Text)
      /\ line' = g
      /\ written' = IF l = <<>> \/ written # <<>> THEN Append(written, v) ELSE <<>>
  BY WritesAssumption, AppendedIsText DEF Lines!TypeOK, Lines!Write
<1>2. PICK a : PutBehind(g, l, v, a)
  BY <1>1, AppendedBehind
<1> HIDE DEF g
<1>3. /\ Lines!WordStarts(g) = S \cup {a} /\ a \in Nat /\ WordFrom(g, a) = v
      /\ \A i \in S : i < a /\ WordFrom(g, i) = WordFrom(l, i)
  BY <1>1, <1>2, WordBehind
<1>4. S \in SUBSET Nat /\ IsFiniteSet(S) /\ m \in Nat
  BY <1>1, WordsOf
<1>5. SUFFICES ASSUME written' # <<>>
               PROVE  Lines!Words(g) = written' /\ Ranked(Lines!WordStarts(g))
  BY <1>1 DEF WordsInv
<1>6. /\ written' = Append(written, v) /\ Len(written) = m /\ Ranked(S)
      /\ \A k \in 1 .. m : written[k] = Lines!WordAt(l, k)
  <2>1. written' = Append(written, v) /\ (l = <<>> \/ written # <<>>)
    BY <1>1, <1>5
  <2>2. Lines!Words(l) = [k \in 1 .. m |-> Lines!WordAt(l, k)]
    BY <1>1, WordsOf
  <2>3. CASE written # <<>>
    <3>1. Lines!Words(l) = written /\ Ranked(S)
      BY <2>3 DEF WordsInv
    <3>2. DOMAIN written = 1 .. m /\ \A k \in 1 .. m : written[k] = Lines!WordAt(l, k)
      BY <2>2, <3>1
    <3>3. Len(written) = m
      BY <1>1, <1>4, <3>2
    <3> QED
      BY <2>1, <3>1, <3>2, <3>3
  <2>4. CASE written = <<>>
    <3>1. l = <<>>
      BY <2>1, <2>4
    <3>2. S = {}
      BY <3>1 DEF Lines!WordStarts
    <3>3. m = 0
      BY <3>2, FS_EmptySet
    <3> QED
      BY <2>1, <2>4, <3>3 DEF Ranked
  <2> QED
    BY <2>3, <2>4
<1>7. /\ Cardinality(S \cup {a}) = m + 1 /\ UpTo(S \cup {a}, a) = S \cup {a}
      /\ \A i \in S : UpTo(S \cup {a}, i) = UpTo(S, i) /\ Cardinality(UpTo(S, i)) \in 0 .. m
      /\ Ranked(S \cup {a})
  <2>1. /\ S \in SUBSET Nat /\ IsFiniteSet(S) /\ a \in Nat /\ (\A i \in S : i < a) /\ Ranked(S)
    BY <1>3, <1>4, <1>6
  <2> HIDE DEF S
  <2>2. /\ Cardinality(S \cup {a}) = Cardinality(S) + 1 /\ UpTo(S \cup {a}, a) = S \cup {a}
        /\ \A i \in S : UpTo(S \cup {a}, i) = UpTo(S, i)
        /\ \A i \in S : Cardinality(UpTo(S, i)) \in 0 .. Cardinality(S)
        /\ Ranked(S \cup {a})
    BY ONLY <2>1, NextRank
  <2> QED
    BY <2>2
<1> DEFINE T == S \cup {a}
<1> HIDE DEF S, m, l, v, T
<1>8. /\ T = Lines!WordStarts(g) /\ a \in T /\ Cardinality(T) = m + 1
      /\ Cardinality(UpTo(T, a)) = m + 1
      /\ \A i \in S : /\ i \in T /\ Cardinality(UpTo(T, i)) = Cardinality(UpTo(S, i))
                     /\ Cardinality(UpTo(S, i)) \in 0 .. m
      /\ \A i \in T : i \in S \/ i = a
  BY <1>3, <1>7 DEF T
<1>9. ASSUME NEW k, NEW i \in T, Cardinality(UpTo(T, i)) = k,
             \A j \in T : Cardinality(UpTo(T, j)) = k => j = i
      PROVE  Lines!WordAt(g, k) = WordFrom(g, i)
  BY <1>1, <1>8, <1>9, WordsOf
<1>10. ASSUME NEW k \in 1 .. m PROVE Lines!WordAt(g, k) = Lines!WordAt(l, k)
  <2>1. PICK i \in S : Cardinality(UpTo(S, i)) = k
    BY <1>6, <1>10 DEF Ranked, m
  <2>2. ASSUME NEW j \in S, Cardinality(UpTo(S, j)) = k PROVE j = i
    BY <1>4, <2>1, <2>2, SameRank
  <2>3. Lines!WordAt(l, k) = WordFrom(l, i)
    BY <1>1, <2>1, <2>2, WordsOf DEF S
  <2>4. k # m + 1
    BY <1>4
  <2>5. \A j \in T : Cardinality(UpTo(T, j)) = k => j = i
    BY <1>8, <2>2, <2>4
  <2>6. i \in T /\ Cardinality(UpTo(T, i)) = k
    BY <1>8, <2>1
  <2>7. Lines!WordAt(g, k) = WordFrom(g, i)
    BY <1>9, <2>5, <2>6
  <2> QED
    BY <1>3, <2>1, <2>3, <2>7
<1>11. Lines!WordAt(g, m + 1) = v
  <2>1. ASSUME NEW j \in T, Cardinality(UpTo(T, j)) = m + 1 PROVE j = a
    <3>1. \A n1 \in 0 .. m : n1 # m + 1
      BY <1>4
    <3> QED
      BY <1>8, <2>1, <3>1
  <2>2. Lines!WordAt(g, m + 1) = WordFrom(g, a)
    BY <1>8, <1>9, <2>1
  <2> QED
    BY <1>3, <2>2
<1>12. Lines!Words(g) = [k \in 1 .. m + 1 |-> Lines!WordAt(g, k)]
  BY <1>1, <1>8, WordsOf
<1>13. Lines!Words(g) = written'
  <2>1. /\ Append(written, v) \in Seq(Lines!Text) /\ Len(Append(written, v)) = m + 1
        /\ \A k \in 1 .. m : Append(written, v)[k] = written[k]
        /\ Append(written, v)[m + 1] = v
    BY <1>1, <1>4, <1>6, AppendProperties
  <2>2. \A k \in 1 .. m + 1 : k \in 1 .. m \/ k = m + 1
    BY <1>4
  <2>3. \A k \in 1 .. m + 1 : Lines!WordAt(g, k) = Append(written, v)[k]
    BY <1>6, <1>10, <1>11, <2>1, <2>2
  <2>4. Append(written, v) = [k \in 1 .. m + 1 |-> Append(written, v)[k]]
    <3>1. \A s1 \in Seq(Lines!Text) : s1 = [k \in 1 .. Len(s1) |-> s1[k]]
      OBVIOUS
    <3> QED
      BY <2>1, <3>1
  <2> QED
    BY <1>6, <1>12, <2>3, <2>4
<1> QED
  BY <1>3, <1>7, <1>13

-----------------------------------------------------------------------------
LEMMA LinesInit == Lines!Init => Lines!TypeOK
<1>1. <<>> \in Seq(Lines!Text) /\ <<>> \in Lines!Text
  BY DigitIsText
<1> QED
  BY <1>1, ContentsAssumption DEF Lines!Init, Lines!TypeOK

LEMMA LinesStep == Lines!TypeOK /\ [Lines!Next]_(Lines!vars) => Lines!TypeOK'
<1> SUFFICES ASSUME Lines!TypeOK, [Lines!Next]_(Lines!vars) PROVE Lines!TypeOK'
  OBVIOUS
<1>1. /\ content \in Contents /\ unread \in Lines!Text /\ eof \in BOOLEAN /\ good \in BOOLEAN
      /\ line \in Lines!Text /\ value \in Lines!Text /\ out \in Lines!Text
      /\ records \in Seq(Lines!Text) /\ written \in Seq(Lines!Text) /\ <<>> \in Seq(Lines!Text)
  BY DEF Lines!TypeOK
<1>2. /\ Lines!FrontRecord(unread) \in Lines!Text /\ Lines!WholeLine(unread) \in Lines!Text
      /\ Lines!Behind(unread) \in Lines!Text
  BY <1>1, FrontIsText
<1>3. CASE Lines!Readline
  BY <1>1, <1>2, <1>3 DEF Lines!Readline, Lines!TypeOK, Lines!Ended
<1>4. CASE Lines!ReadWhole
  BY <1>1, <1>2, <1>4 DEF Lines!ReadWhole, Lines!TypeOK, Lines!Ended
<1>5. CASE Lines!Writeline
  <2>1. out \o line \in Lines!Text
    BY <1>1 DEF Lines!Text
  <2> QED
    BY <1>1, <1>5, <2>1, DigitIsText DEF Lines!Writeline, Lines!TypeOK
<1>6. ASSUME NEW reader \in Readers, Lines!Read(reader) PROVE Lines!TypeOK'
  <2> DEFINE w == Lines!FirstWord(line)
             r == Lines!Reading(reader, w)
  <2>1. w \in Lines!Text /\ Len(w) <= Len(line)
    BY <1>1, WordIsText
  <2>2. Fits(r, w)
    BY <2>1, ReadingFits
  <2>3. Lines!Dropped(line, r.uses) \in Lines!Text
    <3>1. Len(w) \in Nat /\ Len(line) \in Nat
      BY <1>1, <2>1, TextElements
    <3>2. r.uses + 1 \in 1 .. Len(line) + 1 /\ Len(line) \in 0 .. Len(line)
      BY <2>1, <2>2, <3>1 DEF Fits
    <3> QED
      BY <1>1, <3>2, TextElements DEF Lines!Dropped
  <2> HIDE DEF w, r
  <2>4. /\ good' = r.good /\ value' = (IF r.value = Lines!Kept THEN value ELSE r.value)
        /\ line' = Lines!Dropped(line, r.uses) /\ written' \in {written, <<>>}
        /\ UNCHANGED <<content, unread, eof, records, out>>
    BY <1>6 DEF Lines!Read, w, r
  <2> QED
    BY <1>1, <2>2, <2>3, <2>4 DEF Lines!TypeOK, Fits
<1>7. ASSUME NEW w \in Writes, Lines!Write(w) PROVE Lines!TypeOK'
  <2>1. w.value \in Lines!Text /\ Lines!Appended(line, w) \in Lines!Text
    BY <1>1, WritesAssumption, AppendedIsText
  <2> QED
    BY <1>1, <1>7, <2>1 DEF Lines!Write, Lines!TypeOK
<1>8. ASSUME NEW w \in Writes, Lines!WriteFile(w) PROVE Lines!TypeOK'
  <2>1. w.value \in Lines!Text
    BY WritesAssumption
  <2>2. out \o w.value \in Lines!Text
    BY <1>1, <2>1 DEF Lines!Text
  <2> QED
    BY <1>1, <1>8, <2>2 DEF Lines!WriteFile, Lines!TypeOK
<1>9. CASE UNCHANGED Lines!vars
  BY <1>1, <1>9 DEF Lines!vars, Lines!TypeOK
<1> QED
  BY <1>3, <1>4, <1>5, <1>6, <1>7, <1>8, <1>9 DEF Lines!Next

(* A line loses text without being written or replaced only by a read, of  *)
(* the whole word that it says is good.                                    *)
LEMMA OnlyReadsUseUp ==
  ASSUME Lines!TypeOK, [Lines!Next]_(Lines!vars), Lines!ReadUp
  PROVE  /\ good' /\ Len(line) > 0
         /\ line' = Lines!Dropped(line, Len(Lines!FirstWord(line)))
<1>1. /\ line \in Lines!Text /\ out \in Lines!Text /\ records \in Seq(Lines!Text)
      /\ unread \in Lines!Text
  BY DEF Lines!TypeOK
<1>2. Len(line) \in Nat /\ line \in Seq(Lines!Char) /\ out \in Seq(Lines!Char)
  BY <1>1, TextElements DEF Lines!Text
<1>3. records' = records /\ out' = out /\ Len(line') < Len(line)
  BY DEF Lines!ReadUp
<1>4. \A t \in Lines!Text : Append(records, t) # records
  <2>1. \A t \in Lines!Text : Len(Append(records, t)) = Len(records) + 1
    BY <1>1, AppendProperties
  <2> QED
    BY <1>1, <2>1
<1>5. ~Lines!Readline /\ ~Lines!ReadWhole
  BY <1>1, <1>3, <1>4, FrontIsText DEF Lines!Readline, Lines!ReadWhole
<1>6. ~Lines!Writeline
  BY <1>2, <1>3, ConcatEqualIffEmpty DEF Lines!Writeline
<1>7. \A w \in Writes : ~Lines!Write(w)
  BY <1>1, <1>2, <1>3, AppendedIsText, TextElements DEF Lines!Write
<1>8. \A w \in Writes : ~Lines!WriteFile(w)
  BY <1>2, <1>3 DEF Lines!WriteFile
<1>9. ~UNCHANGED Lines!vars
  BY <1>2, <1>3 DEF Lines!vars
<1>10. PICK reader \in Readers : Lines!Read(reader)
  BY <1>5, <1>6, <1>7, <1>8, <1>9 DEF Lines!Next
<1> DEFINE w == Lines!FirstWord(line)
           r == Lines!Reading(reader, w)
<1>11. w \in Lines!Text /\ Fits(r, w)
  BY <1>1, WordIsText, ReadingFits
<1>12. good' = r.good /\ line' = Lines!Dropped(line, r.uses)
  BY <1>10 DEF Lines!Read
<1>13. r.uses # 0
  <2>1. SUFFICES ASSUME r.uses = 0 PROVE FALSE
    OBVIOUS
  <2>2. Lines!Dropped(line, 0) = line
    BY <1>2, SubSeqFull DEF Lines!Dropped
  <2> QED
    BY <1>2, <1>3, <1>12, <2>1, <2>2
<1>14. Len(line') \in Nat
  BY <1>12, <1>13
<1> QED
  BY <1>2, <1>3, <1>11, <1>12, <1>13, <1>14 DEF Fits
-----------------------------------------------------------------------------
(* Every state of the text files has its types: what is read off a line    *)
(* and written to one stays text.                                          *)
THEOREM LinesTypes == Lines!Spec => []Lines!TypeOK
BY LinesInit, LinesStep, PTL DEF Lines!Spec

(* A read that fails leaves the line as it was, whatever the line and the  *)
(* read (hif_vhdl_std_textio.cpp:175-382).                                 *)
THEOREM FailedReadsKeep == Lines!Spec => FailedReadKeepsLine
<1>1. ASSUME Lines!TypeOK, [Lines!Next]_(Lines!vars)
      PROVE  [Lines!ReadUp => good']_(Lines!vars)
  BY <1>1, OnlyReadsUseUp
<1> QED
  BY <1>1, LinesTypes, PTL DEF Lines!Spec, FailedReadKeepsLine, Lines!FailedReadKeepsLine

(* A read takes off a line that starts with a word just that word          *)
(* (hif_vhdl_std_textio.cpp:175-263).                                      *)
THEOREM ReadsTakeWords == Lines!Spec => TakesItsWord
<1>1. ASSUME Lines!TypeOK, [Lines!Next]_(Lines!vars)
      PROVE  [Lines!ReadUp /\ ~Lines!Blank(line, 1)
                => line = Lines!FirstWord(line) \o line']_(Lines!vars)
  BY <1>1, OnlyReadsUseUp, WordAndRest DEF Lines!TypeOK
<1> QED
  BY <1>1, LinesTypes, PTL DEF Lines!Spec, TakesItsWord, Lines!TakesItsWord

-----------------------------------------------------------------------------
LEMMA RecordsInit == Lines!Init => ReadInv
<1> SUFFICES ASSUME Lines!Init PROVE ReadInv
  OBVIOUS
<1>1. content \in Lines!Text /\ unread = content /\ eof = FALSE /\ records = <<>>
  BY ContentsAssumption DEF Lines!Init
<1>2. content \in Seq(Lines!Char) /\ Len(content) \in Nat
  BY <1>1, TextElements
<1>3. From(content, 1) = content /\ LineBegins(content, 1) /\ 1 \in 1 .. Len(content) + 1
  BY <1>2, SubSeqFull DEF From, LineBegins
<1>4. Before(content, 1) = {}
  BY <1>2 DEF Before, Lines!Newlines
<1>5. Lines!RecordsInOrder
  <2>1. Len(records) = 0 /\ \A k \in 1 .. Len(records) : FALSE
    BY <1>1
  <2> QED
    BY <1>1, <2>1 DEF Lines!RecordsInOrder, Lines!Endfile
<1>6. Len(records) = 0 /\ Cardinality(Before(content, 1)) = 0
  BY <1>1, <1>4, FS_EmptySet
<1> QED
  BY <1>1, <1>3, <1>5, <1>6 DEF ReadInv

LEMMA RecordsStep ==
  ASSUME \A t \in Contents : Lines!KeepsLast(t), Lines!TypeOK, ReadInv, [Lines!Next]_(Lines!vars)
  PROVE  ReadInv'
<1>1. CASE Lines!Readline
  BY <1>1, ReadStep DEF Lines!Readline
<1>2. CASE Lines!ReadWhole
  <2>1. Lines!WholeLine(unread) = Lines!FrontRecord(unread)
    <3>1. content \in Lines!Text /\ Lines!KeepsLast(content)
      BY ContentsAssumption DEF Lines!TypeOK
    <3>2. PICK p \in 1 .. Len(content) + 1 :
            /\ unread = From(content, p)
            /\ IF eof THEN p = Len(content) + 1 ELSE LineBegins(content, p)
      BY DEF ReadInv
    <3>3. CASE eof
      <4>1. Len(content) \in Nat
        BY <3>1, TextElements
      <4>2. unread = <<>>
        BY <3>2, <3>3, <4>1, SubSeqEmpty DEF From
      <4> QED
        BY <4>2 DEF Lines!WholeLine, Lines!FrontRecord, Lines!Ended
    <3>4. CASE ~eof
      BY <3>1, <3>2, <3>4, WholeIsFront
    <3> QED
      BY <3>3, <3>4
  <2> QED
    BY <1>2, <2>1, ReadStep DEF Lines!ReadWhole
<1>3. ASSUME UNCHANGED <<content, unread, eof, records>> PROVE ReadInv'
  <2>1. Lines!RecordsInOrder'
    BY <1>3 DEF ReadInv, Lines!RecordsInOrder, Lines!Endfile
  <2> QED
    BY <1>3, <2>1 DEF ReadInv
<1>4. Lines!Writeline \/ UNCHANGED Lines!vars => UNCHANGED <<content, unread, eof, records>>
  BY DEF Lines!Writeline, Lines!vars
<1>5. \A reader \in Readers : Lines!Read(reader) => UNCHANGED <<content, unread, eof, records>>
  BY DEF Lines!Read
<1>6. \A w \in Writes : Lines!Write(w) \/ Lines!WriteFile(w)
                          => UNCHANGED <<content, unread, eof, records>>
  BY DEF Lines!Write, Lines!WriteFile
<1> QED
  BY <1>1, <1>2, <1>3, <1>4, <1>5, <1>6 DEF Lines!Next

(* Every read gives the next line of its file, whole, whichever way the    *)
(* reads are mixed, and nothing after the last; endfile is not said before *)
(* the last was read.  Of a file whose last line has no newline, that line *)
(* must not fill its pieces (hif_vhdl_std_textio.cpp:127-173).             *)
THEOREM LinesInOrder ==
  ASSUME \A t \in Contents : Lines!KeepsLast(t)
  PROVE  Lines!Spec => []RecordsInOrder
<1>1. ReadInv => RecordsInOrder
  BY DEF ReadInv, RecordsInOrder
<1> QED
  BY <1>1, RecordsInit, RecordsStep, LinesTypes, PTL DEF Lines!Spec

LEMMA WordsStep ==
  ASSUME \A w \in Writes : w.writer # "file" => Lines!OneWord(w),
         Lines!TypeOK, WordsInv, [Lines!Next]_(Lines!vars)
  PROVE  WordsInv'
<1>1. CASE written' = <<>>
  BY <1>1 DEF WordsInv
<1>2. CASE UNCHANGED <<line, written>>
  BY <1>2 DEF WordsInv
<1>3. CASE Lines!Readline \/ Lines!ReadWhole \/ Lines!Writeline \/ UNCHANGED Lines!vars
  BY <1>1, <1>2, <1>3 DEF Lines!Readline, Lines!ReadWhole, Lines!Writeline, Lines!vars
<1>4. ASSUME NEW reader \in Readers, Lines!Read(reader) PROVE WordsInv'
  <2> DEFINE r == Lines!Reading(reader, Lines!FirstWord(line))
  <2>1. line' = Lines!Dropped(line, r.uses) /\ written' = IF r.uses = 0 THEN written ELSE <<>>
    BY <1>4 DEF Lines!Read
  <2> HIDE DEF r
  <2>2. CASE r.uses = 0
    <3>1. Lines!Dropped(line, 0) = line
      BY SubSeqFull DEF Lines!Dropped, Lines!TypeOK, Lines!Text
    <3> QED
      BY <1>2, <2>1, <2>2, <3>1
  <2>3. CASE r.uses # 0
    BY <1>1, <2>1, <2>3
  <2> QED
    BY <2>2, <2>3
<1>5. ASSUME NEW w \in Writes, Lines!Write(w) PROVE WordsInv'
  <2>1. Lines!OneWord(w)
    BY <1>5 DEF Lines!Write
  <2> QED
    BY <1>5, <2>1, WriteStep
<1>6. ASSUME NEW w \in Writes, Lines!WriteFile(w) PROVE WordsInv'
  BY <1>2, <1>6 DEF Lines!WriteFile
<1> QED
  BY <1>3, <1>4, <1>5, <1>6 DEF Lines!Next

(* Whatever words are written to a line, padded or not, one behind the     *)
(* other: they are the words of the line, in their order, until something  *)
(* else touches it (hif_vhdl_std_textio.cpp:398-514).                      *)
THEOREM WordsStayApart ==
  ASSUME \A w \in Writes : w.writer # "file" => Lines!OneWord(w)
  PROVE  Lines!Spec => []WritesApart
<1>1. Lines!Init => WordsInv
  BY DEF Lines!Init, WordsInv
<1>2. WordsInv => WritesApart
  BY DEF WordsInv, WritesApart, Lines!WritesApart
<1> QED
  BY <1>1, <1>2, WordsStep, LinesTypes, PTL DEF Lines!Spec

-----------------------------------------------------------------------------
(* The system tasks. *)

(* A stream does not outlive the file of its descriptor.  Without it the   *)
(* next file of the same number would be shown in the one before.          *)
StreamOfHeld == \A fd \in Fds : _ioMap[fd] \in {0, held[fd]}

TasksInv == Tasks!TypeOK /\ StreamOfHeld /\ TextInItsFile

-----------------------------------------------------------------------------
(* What reaches a file is what its streams held back, in that order. *)
LEMMA FlushKeeps ==
  ASSUME Tasks!TypeOK, TextInItsFile, NEW fs, Tasks!Flushed(fs), UNCHANGED shown
  PROVE  /\ file' \in [Tasks!Files -> Seq(Texts)] /\ pending' \in [Tasks!Files -> Seq(Texts)]
         /\ TextInItsFile'
<1>1. file \in [Tasks!Files -> Seq(Texts)] /\ pending \in [Tasks!Files -> Seq(Texts)] /\ <<>> \in Seq(Texts)
  BY DEF Tasks!TypeOK
<1>2. ASSUME NEW f \in Tasks!Files
      PROVE  /\ file'[f] \in Seq(Texts) /\ pending'[f] \in Seq(Texts)
             /\ file'[f] \o pending'[f] = file[f] \o pending[f]
  <2>1. file[f] \in Seq(Texts) /\ pending[f] \in Seq(Texts)
    BY <1>1
  <2>2. file[f] \o pending[f] \in Seq(Texts)
    BY <2>1, ConcatProperties
  <2>3. (file[f] \o pending[f]) \o <<>> = file[f] \o pending[f]
    BY <2>2, ConcatEmptySeq
  <2>4. QED
    BY <1>1, <2>1, <2>2, <2>3 DEF Tasks!Flushed
<1>3. file' \in [Tasks!Files -> Seq(Texts)] /\ pending' \in [Tasks!Files -> Seq(Texts)]
  BY <1>2 DEF Tasks!Flushed
<1> QED
  BY <1>2, <1>3 DEF TextInItsFile, Tasks!TextInItsFile

(* Appending to the second of two sequences appends to both. *)
LEMMA AppendLast ==
  ASSUME NEW T, NEW x \in Seq(T), NEW y \in Seq(T), NEW e \in T
  PROVE  x \o Append(y, e) = Append(x \o y, e)
<1>1. <<e>> \in Seq(T)
  OBVIOUS
<1>2. Append(y, e) = y \o <<e>>
  BY AppendIsConcat
<1>3. x \o y \in Seq(T)
  BY ConcatProperties
<1>4. Append(x \o y, e) = (x \o y) \o <<e>>
  BY <1>3, AppendIsConcat
<1>5. (x \o y) \o <<e>> = x \o (y \o <<e>>)
  BY <1>1, ConcatAssociative
<1> QED
  BY <1>2, <1>4, <1>5

(* A text that is shown is held back behind those before it. *)
LEMMA ShowKeeps ==
  ASSUME Tasks!TypeOK, TextInItsFile, NEW f \in Tasks!Files, NEW s \in Texts, UNCHANGED file,
         pending' = [pending EXCEPT ![f] = Append(@, s)],
         shown' = [shown EXCEPT ![f] = Append(@, s)]
  PROVE  /\ pending' \in [Tasks!Files -> Seq(Texts)] /\ shown' \in [Tasks!Files -> Seq(Texts)]
         /\ TextInItsFile'
<1>1. /\ file \in [Tasks!Files -> Seq(Texts)] /\ pending \in [Tasks!Files -> Seq(Texts)]
      /\ shown \in [Tasks!Files -> Seq(Texts)]
  BY DEF Tasks!TypeOK
<1>2. pending' \in [Tasks!Files -> Seq(Texts)] /\ shown' \in [Tasks!Files -> Seq(Texts)]
  BY <1>1
<1>3. file[f] \o Append(pending[f], s) = Append(file[f] \o pending[f], s)
  BY <1>1, AppendLast
<1>4. \A g \in Tasks!Files : file'[g] \o pending'[g] = shown'[g]
  BY <1>1, <1>3 DEF TextInItsFile, Tasks!TextInItsFile
<1> QED
  BY <1>2, <1>4 DEF TextInItsFile, Tasks!TextInItsFile

-----------------------------------------------------------------------------
LEMMA TasksInit ==
  ASSUME Tasks!Init
  PROVE  TasksInv
<1>1. Len(Modes) \in Nat /\ <<>> \in Seq(Texts) /\ <<>> \o <<>> = <<>>
  BY ModesAssumption
<1>2. Tasks!TypeOK
  BY <1>1 DEF Tasks!Init, Tasks!TypeOK
<1>3. StreamOfHeld /\ TextInItsFile
  BY <1>1 DEF Tasks!Init, StreamOfHeld, TextInItsFile, Tasks!TextInItsFile
<1> QED
  BY <1>2, <1>3 DEF TasksInv

(* The stream a task gets is that of the file its descriptor stands for. *)
LEMMA StreamFits ==
  ASSUME TasksInv, NEW fd \in Fds, NEW modes, held[fd] # 0
  PROVE  /\ Tasks!Stream(fd, modes) \in {0, held[fd]}
         /\ held[fd] \in Tasks!Files
         /\ [_ioMap EXCEPT ![fd] = Tasks!Stream(fd, modes)] \in [Fds -> 0 .. opened]
<1>1. /\ opened \in 0 .. Len(Modes) /\ Len(Modes) \in Nat /\ DOMAIN Modes = 1 .. Len(Modes)
      /\ held[fd] \in 0 .. opened /\ _ioMap[fd] \in {0, held[fd]} /\ _ioMap \in [Fds -> 0 .. opened]
  BY ModesAssumption DEF TasksInv, Tasks!TypeOK, StreamOfHeld
<1>2. Tasks!Stream(fd, modes) \in {0, held[fd]}
  BY <1>1 DEF Tasks!Stream
<1>3. held[fd] \in Tasks!Files
  BY <1>1 DEF Tasks!Files
<1>4. Tasks!Stream(fd, modes) \in 0 .. opened
  BY <1>1, <1>2
<1> QED
  BY <1>1, <1>2, <1>3, <1>4

LEMMA TasksStep ==
  ASSUME TasksInv, [Tasks!Next]_(Tasks!vars)
  PROVE  TasksInv'
<1>1. /\ opened \in 0 .. Len(Modes) /\ Len(Modes) \in Nat
      /\ held \in [Fds -> 0 .. opened] /\ _ioMap \in [Fds -> 0 .. opened]
      /\ file \in [Tasks!Files -> Seq(Texts)] /\ pending \in [Tasks!Files -> Seq(Texts)]
      /\ shown \in [Tasks!Files -> Seq(Texts)]
      /\ ended \in {"no", "failed", "stopped", "finished", "exited"}
      /\ Tasks!TypeOK /\ StreamOfHeld /\ TextInItsFile
  BY ModesAssumption DEF TasksInv, Tasks!TypeOK
<1>2. ASSUME NEW fd \in Fds, Tasks!Fopen(fd) PROVE TasksInv'
  <2>1. /\ opened' \in 0 .. Len(Modes) /\ held' \in [Fds -> 0 .. opened']
        /\ _ioMap' \in [Fds -> 0 .. opened']
    BY <1>1, <1>2 DEF Tasks!Fopen
  <2>2. _ioMap[fd] = 0
    BY <1>1, <1>2 DEF Tasks!Fopen, StreamOfHeld
  <2>3. StreamOfHeld'
    BY <1>1, <1>2, <2>2 DEF Tasks!Fopen, StreamOfHeld
  <2> QED
    BY <1>1, <1>2, <2>1, <2>3 DEF Tasks!Fopen, TasksInv, Tasks!TypeOK, TextInItsFile, Tasks!TextInItsFile
<1>3. ASSUME NEW fd \in Fds, Tasks!Fscanf(fd) PROVE TasksInv'
  <2>1. /\ held[fd] # 0 /\ _ioMap' = [_ioMap EXCEPT ![fd] = Tasks!Stream(fd, {"both"})]
        /\ UNCHANGED <<opened, held, pending, file, shown>>
        /\ ended' \in {"failed", ended}
    BY <1>3 DEF Tasks!Fscanf
  <2>2. Tasks!Stream(fd, {"both"}) \in {0, held[fd]} /\ _ioMap' \in [Fds -> 0 .. opened]
    BY <2>1, StreamFits
  <2>3. StreamOfHeld'
    BY <1>1, <2>1, <2>2 DEF StreamOfHeld
  <2> QED
    BY <1>1, <2>1, <2>2, <2>3 DEF TasksInv, Tasks!TypeOK, TextInItsFile, Tasks!TextInItsFile
<1>4. ASSUME NEW fd \in Fds, NEW s \in Texts, Tasks!Fdisplay(fd, s) PROVE TasksInv'
  <2> DEFINE stream == Tasks!Stream(fd, {"write", "both"})
  <2>1. /\ held[fd] # 0 /\ _ioMap' = [_ioMap EXCEPT ![fd] = stream]
        /\ UNCHANGED <<opened, held, file>>
        /\ stream = 0 => ended' = "failed" /\ UNCHANGED <<pending, shown>>
        /\ stream # 0 => /\ pending' = [pending EXCEPT ![stream] = Append(@, s)]
                         /\ shown' = [shown EXCEPT ![held[fd]] = Append(@, s)]
                         /\ UNCHANGED ended
    BY <1>4 DEF Tasks!Fdisplay
  <2>2. stream \in {0, held[fd]} /\ held[fd] \in Tasks!Files /\ _ioMap' \in [Fds -> 0 .. opened]
    BY <2>1, StreamFits
  <2> HIDE DEF stream
  <2>3. StreamOfHeld'
    BY <1>1, <2>1, <2>2 DEF StreamOfHeld
  <2>4. CASE stream = 0
    BY <1>1, <2>1, <2>2, <2>3, <2>4 DEF TasksInv, Tasks!TypeOK, TextInItsFile, Tasks!TextInItsFile
  <2>5. CASE stream = held[fd] /\ stream # 0
    <3>1. /\ pending' \in [Tasks!Files -> Seq(Texts)] /\ shown' \in [Tasks!Files -> Seq(Texts)]
          /\ TextInItsFile'
      BY <1>1, <2>1, <2>2, <2>5, ShowKeeps
    <3> QED
      BY <1>1, <2>1, <2>2, <2>3, <2>5, <3>1 DEF TasksInv, Tasks!TypeOK
  <2> QED
    BY <2>2, <2>4, <2>5
<1>5. ASSUME NEW fs, Tasks!Flushed(fs), UNCHANGED <<opened, shown>>,
             held' \in [Fds -> 0 .. opened], _ioMap' \in [Fds -> 0 .. opened], StreamOfHeld',
             ended' \in {"no", "failed", "stopped", "finished", "exited"}
      PROVE  TasksInv'
  <2>1. file' \in [Tasks!Files -> Seq(Texts)] /\ pending' \in [Tasks!Files -> Seq(Texts)] /\ TextInItsFile'
    BY <1>1, <1>5, FlushKeeps
  <2> QED
    BY <1>1, <1>5, <2>1 DEF TasksInv, Tasks!TypeOK
<1>6. ASSUME UNCHANGED <<held, _ioMap>> PROVE StreamOfHeld'
  BY <1>1, <1>6 DEF StreamOfHeld
<1>7. ASSUME NEW fd \in Fds, Tasks!Fflush(fd) PROVE TasksInv'
  BY <1>1, <1>5, <1>6, <1>7 DEF Tasks!Fflush
<1>8. ASSUME NEW fd \in Fds, Tasks!Fclose(fd) PROVE TasksInv'
  <2>1. /\ Tasks!Flushed({_ioMap[fd]}) /\ UNCHANGED <<opened, shown, ended>>
        /\ _ioMap' = [_ioMap EXCEPT ![fd] = 0] /\ held' = [held EXCEPT ![fd] = 0]
    BY <1>8 DEF Tasks!Fclose
  <2>2. held' \in [Fds -> 0 .. opened] /\ _ioMap' \in [Fds -> 0 .. opened]
    BY <1>1, <2>1
  <2>3. StreamOfHeld'
    BY <1>1, <2>1 DEF StreamOfHeld
  <2> QED
    BY <1>1, <1>5, <2>1, <2>2, <2>3
<1>9. ASSUME NEW f \in Tasks!Files, Tasks!BufferFull(f) PROVE TasksInv'
  BY <1>1, <1>5, <1>6, <1>9 DEF Tasks!BufferFull
<1>10. CASE Tasks!Finish
  BY <1>1, <1>5, <1>6, <1>10 DEF Tasks!Finish
<1>11. CASE Tasks!Stop
  BY <1>1, <1>6, <1>11 DEF Tasks!Stop, TasksInv, Tasks!TypeOK, TextInItsFile, Tasks!TextInItsFile
<1>12. CASE Tasks!Exit
  BY <1>1, <1>5, <1>6, <1>12 DEF Tasks!Exit
<1>13. CASE UNCHANGED Tasks!vars
  BY <1>1, <1>6, <1>13 DEF Tasks!vars, TasksInv, Tasks!TypeOK, TextInItsFile, Tasks!TextInItsFile
<1> QED
  BY <1>2, <1>3, <1>4, <1>7, <1>8, <1>9, <1>10, <1>11, <1>12, <1>13 DEF Tasks!Next

(* Whatever is opened, closed and opened again under the same number, a    *)
(* file ends up with the texts shown on its descriptor while it was open,  *)
(* in their order.                                                         *)
THEOREM TextsKept == Tasks!Spec => []TextInItsFile
<1>1. TasksInv => TextInItsFile
  BY DEF TasksInv
<1>2. Tasks!Init => TasksInv
  BY TasksInit
<1>3. TasksInv /\ [Tasks!Next]_(Tasks!vars) => TasksInv'
  BY TasksStep
<1> QED
  BY <1>1, <1>2, <1>3, PTL DEF Tasks!Spec

-----------------------------------------------------------------------------
(* A behaviour of the three together is one of each. *)
LEMMA PartsInit == RuntimeInit => Init /\ Lines!Init /\ Tasks!Init
BY DEF RuntimeInit

LEMMA PartsStep ==
  ASSUME [RuntimeNext]_<<part, vars, linesVars, tasksVars>>
  PROVE  [Next]_vars /\ [Lines!Next]_(Lines!vars) /\ [Tasks!Next]_(Tasks!vars)
BY DEF RuntimeNext, vars, linesVars, tasksVars, Lines!vars, Tasks!vars

LEMMA Parts == RuntimeSpec => Spec /\ Lines!Spec /\ Tasks!Spec
BY PartsInit, PartsStep, PTL DEF RuntimeSpec, Spec, Lines!Spec, Tasks!Spec

(* Loads, lines and streams keep their types, whatever their parameters. *)
THEOREM TypeCorrect == RuntimeSpec => []RuntimeTypeOK
<1>1. Spec => []LoadInv
  BY LoadInit, LoadStep, PTL DEF Spec
<1>2. Tasks!Spec => []TasksInv
  BY TasksInit, TasksStep, PTL DEF Tasks!Spec
<1>3. LoadInv /\ Lines!TypeOK /\ TasksInv => RuntimeTypeOK
  BY DEF LoadInv, Bounded, TypeOK, TasksInv, RuntimeTypeOK
<1> QED
  BY <1>1, <1>2, <1>3, Parts, LinesTypes, PTL
===============================================================================
