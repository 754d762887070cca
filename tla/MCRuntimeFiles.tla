----------------------------- MODULE MCRuntimeFiles -----------------------------
(***************************************************************************)
(* Memory loads: three cells, files of up to three tokens; the addresses   *)
(* start before, in and after the array, and the windows run both ways.    *)
(* Text files: a buffer of three characters, so that lines take up to two  *)
(* pieces; a last line that has no newline and fills its pieces, which the *)
(* code loses, is left out.  System tasks: three files on two descriptors. *)
(***************************************************************************)
EXTENDS RuntimeFiles

MCWord(v, d, neg) == [at |-> FALSE, value |-> v, digits |-> d, negative |-> neg]
MCTokens ==
  {MCWord(0, "exact", FALSE), MCWord(1, "exact", TRUE), MCWord(2, "short", TRUE)}
    \cup {[at |-> TRUE, address |-> a] : a \in {0, 1, 2, 4}}
MCFiles == UNION {[1 .. k -> MCTokens] : k \in 0 .. 3}
MCLoads ==
  [overload : SystemOverloads \cup HdtlibOverloads, start : {0, 1}, stop : {0, 2, 4},
   min : {0, 1}, direction : {1}, file : MCFiles, newline : {TRUE}, exists : {TRUE}]
    \cup
  [overload : {Readmemb_bv, Readmemh_int8}, start : {-1, 2}, stop : {-2, 1, 3}, min : {0, 1}, direction : {1, -1},
   file : UNION {[1 .. k -> MCTokens] : k \in 0 .. 2}, newline : BOOLEAN, exists : BOOLEAN]

MCContents ==
  {<<>>, <<" ", " ", "1">>, <<"1", "0", "n">>, <<"1", " ", "X", "n">>, <<"n", "T", "n">>, <<"n", "n", "Z">>}
MCReaders == {"bit", "bit_vector", "bool", "char", "integer", "real", "string", "time", "logic",
              "logic_vector", "sized", "hex", "hex_sized", "hex_uint64", "octal", "octal_sized"}
MCWrite(o, v, left, f) == [writer |-> o, value |-> v, left |-> left, field |-> f, digits |-> 0]
MCWrites ==
  {MCWrite("value", <<"1">>, FALSE, 2), MCWrite("value", <<"0">>, TRUE, 2), MCWrite("bool", <<"T">>, FALSE, 0),
   MCWrite("hex", <<"0">>, FALSE, 0), MCWrite("file", <<"X">>, FALSE, 0),
   [MCWrite("digits", <<"1", "0">>, FALSE, 0) EXCEPT !.digits = 3]}

(* None of the texts loses its last line, and each write is of a word.     *)
ASSUME MCContentsKept == \A t \in MCContents : Lines!KeepsLast(t)
ASSUME MCWritesWords == \A w \in MCWrites : w.writer # "file" => Lines!OneWord(w)

MCModes == <<"write", "both", "read">>
=============================================================================
