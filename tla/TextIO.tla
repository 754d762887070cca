--------------------------------- MODULE TextIO ---------------------------------
(***************************************************************************)
(* The text files of generated SystemC (hif_vhdl_std_textio,               *)
(* hif_vhdl_ieee_std_logic_textio): a file is read a line at a time, values *)
(* are read off the front of the line, and a line that writes have built   *)
(* is written to a file.                                                   *)
(*                                                                         *)
(* Text is a sequence of characters.  T and F stand for the words TRUE and *)
(* FALSE, 0 and 1 for every digit, " " for a blank and "n" for a newline.  *)
(***************************************************************************)
EXTENDS Naturals, FiniteSets, Sequences, SequencesExt

CONSTANTS
  Contents,    \* what the file read may contain, texts
  BufferSize,  \* of hif_vhdl_read of a whole line
  Readers,     \* the reads the program makes
  Writes,      \* and its writes, [writer, value, left, field, digits]; the writers are
               \* "value", "bool", "digits", "hex", "octal" and "file"
  MaxRecords, MaxLine, MaxOut  \* bounds: lines read, length of a line and of a file that are written

Space == " "
Char == {"0", "1", "X", "Z", "U", "L", "H", "T", "F", Space, "n"}
Text == Seq(Char)

VARIABLES
  content,  \* of the file that is read
  unread,   \* what is left of it
  eof,      \* feof: a read has met the end
  line,     \* *l
  records,  \* the lines read so far
  value, good,  \* of the last read
  written,  \* the values written to the line since it was empty, if nothing else touched it
  out       \* the file that is written

vars == <<content, unread, eof, line, records, value, good, written, out>>

-----------------------------------------------------------------------------
(* The first word of a line: blanks trimmed, up to the next blank. *)
Blank(l, i) == l[i] = Space
Start(l) ==
  CHOOSE i \in 1 .. Len(l) + 1 :
    (i <= Len(l) => ~Blank(l, i)) /\ \A j \in 1 .. i - 1 : Blank(l, j)
End(l) ==
  CHOOSE i \in Start(l) .. Len(l) + 1 :
    (i <= Len(l) => Blank(l, i)) /\ \A j \in Start(l) .. i - 1 : ~Blank(l, j)
FirstWord(l) == SubSeq(l, Start(l), End(l) - 1)
(* l->substr(k): counted from the front of the line, blanks included. *)
Dropped(l, k) == SubSeq(l, k + 1, Len(l))

-----------------------------------------------------------------------------
(* Reads of a value: whether the word is accepted, the value (Kept when it *)
(* is not assigned) and how many characters the line loses.                *)
Kept == <<"kept">>
OfAnyway(ok, v, k) == [good |-> ok, value |-> IF ok THEN v ELSE Kept, uses |-> k]
Of(ok, v, k) == IF ok THEN [good |-> TRUE, value |-> v, uses |-> k]
                ELSE [good |-> FALSE, value |-> Kept, uses |-> 0]
Only(w, S) == \A i \in 1 .. Len(w) : w[i] \in S

ReadBitTwo(w) == Of(Len(w) = 1, IF w = <<"1">> THEN w ELSE <<"0">>, 2)
ReadBit(w) == Of(Len(w) = 1, IF w = <<"1">> THEN w ELSE <<"0">>, 1)
ReadBitVector(w) == Of(w # <<>> /\ Only(w, {"0", "1"}), w, Len(w))
ReadBool(w) == Of(w \in {<<"T">>, <<"F">>}, w, Len(w))
ReadChar(w) == Of(Len(w) = 1, w, 1)
(* The test that the whole word was read looks at what the stream was      *)
(* given instead: only an empty word passes it.                            *)
Number(w) ==
  IF Only(w, {"0", "1"}) THEN w
  ELSE SubSeq(w, 1, (CHOOSE i \in 1 .. Len(w) :
                       w[i] \notin {"0", "1"} /\ Only(SubSeq(w, 1, i - 1), {"0", "1"})) - 1)
ReadInteger(w) ==
  [good |-> w = <<>>, uses |-> 0,
   value |-> IF w = <<>> THEN Kept ELSE IF Number(w) = <<>> THEN <<"0">> ELSE Number(w)]
ReadReal(w) ==
  [good |-> w = <<>>, uses |-> 0,
   value |-> IF w = <<>> THEN Kept ELSE IF Number(w) = <<>> THEN <<"0">> ELSE Number(w)]
ReadString(w) == Of(w # <<>>, w, 0)
(* A number, then a unit: the number passes on an empty line only, where   *)
(* the unit fails, and the line is restored.                               *)
ReadTime(w) == Of(ReadReal(w).good /\ ReadString(w).good, w, 0)

ToLogicDash(c) ==
  CASE c \in {"0", "L"} -> "0" [] c \in {"1", "H"} -> "1" [] c = "Z" -> "Z" [] OTHER -> "-"
ToLogic(c) ==
  CASE c \in {"0", "L"} -> "0" [] c \in {"1", "H"} -> "1" [] c = "Z" -> "Z" [] OTHER -> "X"
(* One of its tests is `s != "w"`, so every character is a logic value. *)
IsValidLogic(w) == Len(w) = 1
IsValidLogicVector(w) == w # <<>> /\ \A i \in 1 .. Len(w) : IsValidLogic(<<w[i]>>)
ToLogicVector(w) == [i \in 1 .. Len(w) |-> ToLogic(w[i])]
ReadLogic(w) == Of(IsValidLogic(w), <<ToLogic(w[1])>>, 1)
ReadLogicVector(w) == Of(ReadString(w).good /\ IsValidLogicVector(w), ToLogicVector(w), 0)
(* Integers are read as vectors; one that is not read is all unknown and   *)
(* reads as zero, good or not.                                             *)
ToInteger(v) == IF v # Kept /\ Only(v, {"0", "1"}) THEN v ELSE <<"0">>
ReadSized(w) ==
  LET r == ReadLogicVector(w) IN [r EXCEPT !.value = ToInteger(r.value)]
QuadBits(w) == [i \in 1 .. 4 * Len(w) |-> IF i % 4 = 0 THEN w[i \div 4] ELSE "0"]
TriBits(w) == [i \in 1 .. 3 * Len(w) |-> IF i % 3 = 0 THEN w[i \div 3] ELSE "0"]
ReadHex(w) == Of(ReadString(w).good /\ Only(w, {"0", "1"}), QuadBits(w), 0)
ReadHexSized(w) == LET r == ReadHex(w) IN [r EXCEPT !.value = ToInteger(r.value)]
(* The 64-bit unsigned one calls the binary read. *)
ReadHexUint64(w) == ReadSized(w)
ReadOctal(w) == Of(ReadString(w).good /\ Only(w, {"0", "1"}), TriBits(w), 0)
ReadOctalSized(w) == LET r == ReadOctal(w) IN [r EXCEPT !.value = ToInteger(r.value)]

Reading(reader, w) ==
  CASE reader = "bit" -> ReadBit(w)             [] reader = "bit_vector" -> ReadBitVector(w)
    [] reader = "bool" -> ReadBool(w)           [] reader = "char" -> ReadChar(w)
    [] reader = "integer" -> ReadInteger(w)     [] reader = "real" -> ReadReal(w)
    [] reader = "string" -> ReadString(w)       [] reader = "time" -> ReadTime(w)
    [] reader = "logic" -> ReadLogic(w)         [] reader = "logic_vector" -> ReadLogicVector(w)
    [] reader = "sized" -> ReadSized(w)         [] reader = "hex" -> ReadHex(w)
    [] reader = "hex_sized" -> ReadHexSized(w)  [] reader = "hex_uint64" -> ReadHexUint64(w)
    [] reader = "octal" -> ReadOctal(w)         [] reader = "octal_sized" -> ReadOctalSized(w)

-----------------------------------------------------------------------------
(* The record at the front of the file: up to a newline or to the end. *)
Ended(t) == \E i \in 1 .. Len(t) : t[i] = "n"
FrontRecord(t) ==
  IF Ended(t) THEN SubSeq(t, 1, (CHOOSE i \in 1 .. Len(t) : t[i] = "n" /\ ~Ended(SubSeq(t, 1, i - 1))) - 1)
  ELSE t
Behind(t) == IF Ended(t) THEN SubSeq(t, Len(FrontRecord(t)) + 2, Len(t)) ELSE <<>>

Init ==
  /\ content \in Contents /\ unread = content
  /\ eof = FALSE /\ line = <<>> /\ records = <<>> /\ value = <<>> /\ good = FALSE
  /\ written = <<>> /\ out = <<>>

(* Character by character; the end of the file is met by reading it. *)
Readline ==
  /\ Len(records) < MaxRecords
  /\ line' = FrontRecord(unread) /\ records' = Append(records, FrontRecord(unread))
  /\ unread' = Behind(unread)
  /\ eof' = (eof \/ ~Ended(unread))
  /\ written' = <<>>
  /\ UNCHANGED <<content, value, good, out>>

OnePiece(t) == SubSeq(FrontRecord(t), 1, IF Len(FrontRecord(t)) < BufferSize - 1 THEN Len(FrontRecord(t)) ELSE BufferSize - 1)
(* fgets in pieces of BufferSize - 1.  A last line without a newline is    *)
(* lost when it fills its pieces: the next one fails, and that empties the *)
(* value.                                                                  *)
WholeLine(t) ==
  IF ~Ended(t) /\ Len(t) % (BufferSize - 1) = 0 THEN <<>> ELSE FrontRecord(t)
ReadWhole ==
  /\ Len(records) < MaxRecords
  /\ value' = WholeLine(unread) /\ records' = Append(records, WholeLine(unread))
  /\ unread' = Behind(unread)
  /\ eof' = (eof \/ ~Ended(unread))
  /\ UNCHANGED <<content, line, good, written, out>>

Read(reader) ==
  LET r == Reading(reader, FirstWord(line))
  IN  /\ good' = r.good
      /\ value' = IF r.value = Kept THEN value ELSE r.value
      /\ line' = Dropped(line, r.uses)
      /\ written' = IF r.uses = 0 THEN written ELSE <<>>
      /\ UNCHANGED <<content, unread, eof, records, out>>

(* A blank before every value but the first; a left-justified one is       *)
(* padded on both sides, a right-justified one not at all, and TRUE is one *)
(* character when its end is padded.                                       *)
Pads(w, size) == [i \in 1 .. (IF w.left /\ size < w.field THEN w.field - size ELSE 0) |-> Space]
(* Every position of a vector, not every fourth or third, gives a digit,   *)
(* and the digit is always 0.                                              *)
ToHexString(v) == [i \in 1 .. Len(v) |-> "0"]
ToOctalString(v) == [i \in 1 .. Len(v) |-> "0"]
HwriteText(v) == ToHexString(v)
OwriteText(v) == ToOctalString(v)
(* An integer has no point to count the digits from: find gives npos, one  *)
(* less than zero, and substr takes what there is.                         *)
DigitsText(v, digits) == IF digits \in 1 .. Len(v) THEN SubSeq(v, 1, digits - 1) ELSE v
WriteText(w) ==
  CASE w.writer = "hex" -> HwriteText(w.value)
    [] w.writer = "octal" -> OwriteText(w.value)
    [] w.writer = "digits" -> DigitsText(w.value, w.digits)
    [] OTHER -> w.value
SizeOf(w) == IF w.writer = "bool" THEN IF w.value = <<"T">> THEN 4 ELSE 5 ELSE Len(WriteText(w))
Glued(l, w) == l \o WriteText(w)
Appended(l, w) ==
  l \o (IF l = <<>> THEN <<>> ELSE <<Space>>) \o Pads(w, SizeOf(w)) \o WriteText(w)
    \o Pads(w, IF w.writer = "bool" THEN 1 ELSE SizeOf(w))

Write(w) ==
  /\ w.writer # "file" /\ Len(Appended(line, w)) <= MaxLine
  /\ line' = Appended(line, w)
  /\ written' = IF line = <<>> \/ written # <<>> THEN Append(written, w.value) ELSE <<>>
  /\ UNCHANGED <<content, unread, eof, records, value, good, out>>
WriteFile(w) ==
  /\ w.writer = "file" /\ Len(out) + Len(w.value) <= MaxOut
  /\ out' = out \o w.value
  /\ UNCHANGED <<content, unread, eof, line, records, value, good, written>>
(* No newline is written. *)
Writeline ==
  /\ line # <<>> /\ Len(out) + Len(line) <= MaxOut
  /\ out' = out \o line /\ line' = <<>> /\ written' = <<>>
  /\ UNCHANGED <<content, unread, eof, records, value, good>>

Next ==
  \/ Readline \/ ReadWhole \/ Writeline
  \/ \E reader \in Readers : Read(reader)
  \/ \E w \in Writes : Write(w) \/ WriteFile(w)
Spec == Init /\ [][Next]_vars

-----------------------------------------------------------------------------
TypeOK ==
  /\ content \in Contents /\ unread \in Text /\ eof \in BOOLEAN /\ good \in BOOLEAN
  /\ line \in Text /\ value \in Text /\ out \in Text
  /\ records \in Seq(Text) /\ written \in Seq(Text)

(* The lines of a file: what is between two newlines, and what follows the *)
(* last one when it is not empty.                                          *)
Newlines(t) == {i \in 1 .. Len(t) : t[i] = "n"}
LineCount(t) == Cardinality(Newlines(t)) + (IF t # <<>> /\ Last(t) # "n" THEN 1 ELSE 0)
LineAt(t, k) ==
  LET from == CHOOSE i \in 1 .. Len(t) + 1 :
                 /\ i = 1 \/ t[i - 1] = "n"
                 /\ Cardinality({j \in Newlines(t) : j < i}) = k - 1
      to == CHOOSE i \in from - 1 .. Len(t) :
              (\A j \in from .. i : t[j] # "n") /\ (i = Len(t) \/ t[i + 1] = "n")
  IN  SubSeq(t, from, to)

(* A last line without a newline that does not fill its pieces: WholeLine  *)
(* loses the others.                                                       *)
KeepsLast(t) ==
  \A i \in 1 .. Len(t) :
    (i = 1 \/ t[i - 1] = "n") /\ (\A j \in i .. Len(t) : t[j] # "n")
      => (Len(t) - i + 1) % (BufferSize - 1) # 0

(* The reads return the lines of the file, each whole and once, and        *)
(* nothing after the last; endfile, which is feof, says so only when all   *)
(* have been read (hif_vhdl_std_textio.cpp:97-143, 580).                   *)
Endfile == eof
RecordsInOrder ==
  /\ \A k \in 1 .. Len(records) :
       records[k] = IF k <= LineCount(content) THEN LineAt(content, k) ELSE <<>>
  /\ Endfile => LineCount(content) <= Len(records)

(* Between two lines, a line gets shorter only by a read that succeeds: one *)
(* that fails leaves it as it was, so that the program can try another type *)
(* (hif_vhdl_std_textio.cpp:168-368).                                      *)
ReadUp == records' = records /\ out' = out /\ Len(line') < Len(line)
FailedReadKeepsLine == [][ReadUp => good']_vars

(* What a read takes off a line that starts with a word is just that word  *)
(* (the hazard is substr on a line that was not trimmed).                  *)
TakesItsWord == [][ReadUp /\ ~Blank(line, 1) => line = FirstWord(line) \o line']_vars

(* What was written to a line can be told apart again.                     *)
WordStarts(l) == {i \in 1 .. Len(l) : ~Blank(l, i) /\ (i = 1 \/ Blank(l, i - 1))}
WordAt(l, k) ==
  LET start == CHOOSE i \in WordStarts(l) : Cardinality({j \in WordStarts(l) : j <= i}) = k
  IN  FirstWord(SubSeq(l, start, Len(l)))
Words(l) == [k \in 1 .. Cardinality(WordStarts(l)) |-> WordAt(l, k)]
(* A write of a word, as it is: not of nothing, of a text with blanks or   *)
(* of digits that hwrite, owrite or the point of a real change.            *)
OneWord(w) == w.value # <<>> /\ WriteText(w) = w.value /\ \A i \in 1 .. Len(w.value) : ~Blank(w.value, i)
WritesApart == written # <<>> => Words(line) = written
=============================================================================
