------------------------------- MODULE MemoryLoad -------------------------------
(***************************************************************************)
(* $readmemb and $readmemh of the runtime library (hif_verilog_standard):  *)
(* words of a text file go to successive cells of an array, from one       *)
(* address to another, upwards or downwards; `@address` in the file moves  *)
(* to another cell.  There is an overload for each base and kind of cell.  *)
(*                                                                         *)
(* A token of the file is a word [at |-> FALSE, value, digits, negative]   *)
(* or a directive [at |-> TRUE, address].  value is the number it says, in *)
(* as many low digits as a vector or integer cell has, digits how many it  *)
(* has against those, and negative that its first bit is 1.                *)
(***************************************************************************)
EXTENDS Integers, Sequences

CONSTANTS
  Length,     \* L, the cells of the array
  SizeLimit,  \* one more than the greatest size_t
  AddressLimit,  \* no address of a call or a file is further from zero
  Untouched,  \* what a cell has before the call
  Loads       \* [overload, start, stop, min, direction, file, newline, exists]

Cells == 0 .. Length - 1
Address == -AddressLimit .. AddressLimit
Word == [at : {FALSE}, value : Nat, digits : {"exact", "short", "long"}, negative : BOOLEAN]
Directive == [at : {TRUE}, address : Address]
Overload ==
  {o \in [base : {2, 16}, cell : {"vector", "integer", "bool"}, bound : {"window", "raw"},
          sized : BOOLEAN, rereads : BOOLEAN] : o.sized \/ o.rereads}
Load == [overload : Overload, start : Address, stop : Address, min : Address, direction : {1, -1},
         file : Seq(Word \cup Directive), newline : BOOLEAN, exists : BOOLEAN]
(* An int is much narrower than a size_t. *)
ASSUME SizesAssumption ==
  /\ Length \in Nat \ {0} /\ AddressLimit \in Nat
  /\ SizeLimit \in Nat /\ 2 * Length + 2 * AddressLimit < SizeLimit
ASSUME LoadsAssumption == Loads \subseteq Load
ASSUME UntouchedAssumption == Untouched \notin Int

VARIABLES
  load,    \* the call
  pos,     \* the first token not read
  n,       \* the cell of the next word
  memory,
  status   \* "called", "loading", "done"; "aborted" and "overrun" are crashes

vars == <<load, pos, n, memory, status>>

-----------------------------------------------------------------------------
(* The overloads.  Only the first compares the cell with the last one of   *)
(* the window; the others compare it with the address as it was passed.    *)
(* The hdtlib ones do not read the word after a directive.                 *)
Overloaded(base, cell, bound, sized, rereads) ==
  [base |-> base, cell |-> cell, bound |-> bound, sized |-> sized, rereads |-> rereads]
Readmemb_bv     == Overloaded(2, "vector", "window", TRUE, TRUE)
Readmemb_lv     == Overloaded(2, "vector", "raw", TRUE, TRUE)
Readmemb_uint8  == Overloaded(2, "integer", "raw", FALSE, TRUE)
Readmemb_uint16 == Overloaded(2, "integer", "raw", FALSE, TRUE)
Readmemb_uint32 == Overloaded(2, "integer", "raw", FALSE, TRUE)
Readmemb_uint64 == Overloaded(2, "integer", "raw", FALSE, TRUE)
Readmemb_int8   == Overloaded(2, "integer", "raw", FALSE, TRUE)
Readmemb_int16  == Overloaded(2, "integer", "raw", FALSE, TRUE)
Readmemb_int32  == Overloaded(2, "integer", "raw", FALSE, TRUE)
Readmemb_int64  == Overloaded(2, "integer", "raw", FALSE, TRUE)
Readmemb_bool   == Overloaded(2, "bool", "raw", FALSE, TRUE)
Readmemh_bv     == Overloaded(16, "vector", "raw", TRUE, TRUE)
Readmemh_lv     == Overloaded(16, "vector", "raw", TRUE, TRUE)
Readmemh_uint8  == Overloaded(16, "integer", "raw", FALSE, TRUE)
Readmemh_uint16 == Overloaded(16, "integer", "raw", FALSE, TRUE)
Readmemh_uint32 == Overloaded(16, "integer", "raw", FALSE, TRUE)
Readmemh_uint64 == Overloaded(16, "integer", "raw", FALSE, TRUE)
Readmemh_int8   == Overloaded(16, "integer", "raw", FALSE, TRUE)
Readmemh_int16  == Overloaded(16, "integer", "raw", FALSE, TRUE)
Readmemh_int32  == Overloaded(16, "integer", "raw", FALSE, TRUE)
Readmemh_int64  == Overloaded(16, "integer", "raw", FALSE, TRUE)
Readmemh_bool   == Overloaded(16, "bool", "raw", FALSE, TRUE)
Readmemb_hl_bv  == Overloaded(2, "vector", "raw", TRUE, FALSE)
Readmemb_hl_lv  == Overloaded(2, "vector", "raw", TRUE, FALSE)
Readmemh_hl_bv  == Overloaded(16, "vector", "raw", TRUE, FALSE)
Readmemh_hl_lv  == Overloaded(16, "vector", "raw", TRUE, FALSE)
SystemOverloads ==
  {Readmemb_bv, Readmemb_lv, Readmemb_uint8, Readmemb_uint16, Readmemb_uint32, Readmemb_uint64,
   Readmemb_int8, Readmemb_int16, Readmemb_int32, Readmemb_int64, Readmemb_bool,
   Readmemh_bv, Readmemh_lv, Readmemh_uint8, Readmemh_uint16, Readmemh_uint32, Readmemh_uint64,
   Readmemh_int8, Readmemh_int16, Readmemh_int32, Readmemh_int64, Readmemh_bool}
HdtlibOverloads == {Readmemb_hl_bv, Readmemb_hl_lv, Readmemh_hl_bv, Readmemh_hl_lv}

-----------------------------------------------------------------------------
(* Addresses as the loop counts them, and where it leaves the window. *)
Normalised(l, a) == IF l.direction < 0 THEN Length - (a - l.min) ELSE a - l.min
First(l) == Normalised(l, l.start)
Upwards(l) == First(l) <= Normalised(l, l.stop)
Bound(l) == IF l.overload.bound = "window" THEN Normalised(l, l.stop) ELSE l.stop
PastWindow(l, c) == IF Upwards(l) THEN c > Bound(l) ELSE c < Bound(l)
(* `n > L - 1` compares an int with a size_t: a negative int is a large one. *)
SizeT(c) == IF c < 0 THEN c + SizeLimit ELSE c
PastArrayAsInts(c) == c > Length - 1
PastArray(c) == SizeT(c) > Length - 1

(* The text the iteration at p works on: the word at p or, after a         *)
(* directive, the token that follows; at the end of the file the text      *)
(* stays the directive's own.                                              *)
AfterDirective(l, p) == l.file[p].at /\ l.overload.rereads /\ p < Len(l.file)
Text(l, p) == l.file[IF AfterDirective(l, p) THEN p + 1 ELSE p]
TargetKept(l, p, c) == c
Target(l, p, c) == IF l.file[p].at THEN Normalised(l, l.file[p].address) ELSE c
(* A token that ends with the file leaves the stream at its end, and the   *)
(* loop takes that for a failure to read it.                               *)
Readable(l, p) == p < Len(l.file) \/ (p = Len(l.file) /\ l.newline)
SizeOK(l, w) == l.overload.sized => ~w.at /\ w.digits = "exact"

(* What a cell gets: a bool is whether the word says one; SystemC takes a  *)
(* hexadecimal literal for two's complement and extends a short one's sign. *)
Stored(o, w) ==
  IF o.cell = "bool" THEN IF w.value = 1 THEN 1 ELSE 0
  ELSE IF o.base = 16 /\ w.digits = "short" /\ w.negative THEN -1 - w.value
  ELSE w.value

-----------------------------------------------------------------------------
Init ==
  /\ load \in Loads
  /\ pos = 1 /\ n = 0 /\ memory = [c \in Cells |-> Untouched] /\ status = "called"

Open ==
  /\ status = "called"
  /\ n' = First(load)
  /\ status' = IF load.exists THEN "loading" ELSE "aborted"
  /\ UNCHANGED <<load, pos, memory>>

EndOfFile ==
  /\ status = "loading" /\ ~Readable(load, pos)
  /\ status' = "done"
  /\ UNCHANGED <<load, pos, n, memory>>

(* assert(str.size() == W), W / 4 in base 16. *)
WrongSize ==
  /\ status = "loading" /\ Readable(load, pos) /\ ~SizeOK(load, Text(load, pos))
  /\ status' = "aborted"
  /\ UNCHANGED <<load, pos, n, memory>>

Leave ==
  /\ status = "loading" /\ Readable(load, pos) /\ SizeOK(load, Text(load, pos))
  /\ LET c == Target(load, pos, n) IN PastWindow(load, c) \/ PastArray(c)
  /\ status' = "done"
  /\ UNCHANGED <<load, pos, n, memory>>

(* The store; the text of a directive is no literal and SystemC ends the   *)
(* simulation on it, and a cell out of the array is undefined behaviour.   *)
Store ==
  /\ status = "loading" /\ Readable(load, pos) /\ SizeOK(load, Text(load, pos))
  /\ LET c == Target(load, pos, n)
         w == Text(load, pos)
     IN  /\ ~PastWindow(load, c) /\ ~PastArray(c)
         /\ pos' = IF AfterDirective(load, pos) THEN pos + 2 ELSE pos + 1
         /\ n' = IF Upwards(load) THEN c + 1 ELSE c - 1
         /\ IF w.at THEN status' = "aborted" /\ UNCHANGED memory
            ELSE IF c \notin Cells THEN status' = "overrun" /\ UNCHANGED memory
            ELSE /\ memory' = [memory EXCEPT ![c] = Stored(load.overload, w)]
                 /\ UNCHANGED status
  /\ UNCHANGED load

Next == Open \/ EndOfFile \/ WrongSize \/ Leave \/ Store
Spec == Init /\ [][Next]_vars

-----------------------------------------------------------------------------
(* What $readmem promises: the word at i goes to the address of the last   *)
(* directive before it, or the first of the window, plus or minus the      *)
(* words in between; the load ends at an address out of the window.        *)
Ascending(l) == l.start <= l.stop
Origin(l, i, d) ==
  /\ d \in 0 .. i - 1 /\ (d > 0 => l.file[d].at)
  /\ \A j \in d + 1 .. i - 1 : ~l.file[j].at
AddressOf(l, i, d) ==
  LET a == IF d = 0 THEN l.start ELSE l.file[d].address
  IN  IF Ascending(l) THEN a + (i - d - 1) ELSE a - (i - d - 1)
InWindow(l, a) ==
  /\ IF Ascending(l) THEN l.start <= a /\ a <= l.stop ELSE l.stop <= a /\ a <= l.start
  /\ a - l.min \in Cells
(* No word up to the one at i is out of the window. *)
Inside(l, i) ==
  \A j \in 1 .. i : ~l.file[j].at =>
    \A d \in 0 .. j - 1 : Origin(l, j, d) => InWindow(l, AddressOf(l, j, d))
Loaded(l, i, c) ==
  /\ ~l.file[i].at /\ Inside(l, i)
  /\ \E d \in 0 .. i - 1 : Origin(l, i, d) /\ AddressOf(l, i, d) - l.min = c
(* Each cell of m has the last of the first k tokens loaded into it. *)
Settled(l, m, k) ==
  \A c \in Cells :
    \/ m[c] = Untouched /\ \A i \in 1 .. k : ~Loaded(l, i, c)
    \/ \E i \in 1 .. k :
         /\ Loaded(l, i, c) /\ m[c] = l.file[i].value
         /\ \A j \in i + 1 .. k : ~Loaded(l, j, c)

(* The loads the library is right about: addresses that start at zero and  *)
(* grow (the first overload subtracts any least address), directives that  *)
(* stay behind the first cell and are followed by a word, a file that ends *)
(* with a newline, and no word that its cell or SystemC reads otherwise.   *)
Plain(l) ==
  /\ l.direction = 1 /\ l.newline
  /\ l.min = 0 \/ l.overload.bound = "window"
  /\ \A i \in 1 .. Len(l.file) :
       IF l.file[i].at
       THEN /\ i < Len(l.file) => ~l.file[i + 1].at
            /\ IF Ascending(l) THEN l.start <= l.file[i].address ELSE l.file[i].address <= l.start
       ELSE /\ l.overload.cell = "bool" => l.file[i].value \in {0, 1}
            /\ ~(l.file[i].digits = "short" /\ l.file[i].negative)

TypeOK ==
  /\ load \in Loads
  /\ pos \in 1 .. Len(load.file) + 1 /\ n \in Int
  /\ DOMAIN memory = Cells
  /\ status \in {"called", "loading", "done", "aborted", "overrun"}

(* No call writes outside the array, whatever its addresses and its file:  *)
(* hif_verilog_standard.i.hpp:83, where one comparison of an int with a    *)
(* size_t guards both ends.                                                *)
NeverOverruns == status # "overrun"

(* What has been read is where $readmem puts it, each cell has the last    *)
(* word for it and the other cells are untouched; when the load is done,   *)
(* this holds of the whole file (hif_verilog_standard.i.hpp:44-89).        *)
LoadsInOrder ==
  Plain(load) /\ status \in {"loading", "done"} =>
    Settled(load, memory, IF status = "done" THEN Len(load.file) ELSE pos - 1)
=============================================================================
