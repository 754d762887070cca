------------------------------ MODULE RuntimeFiles ------------------------------
(***************************************************************************)
(* The three ways the generated SystemC uses files: the memory loads, the  *)
(* VHDL text files and the Verilog system tasks.  They share no state, so  *)
(* a behaviour is of one of them, chosen first, and the others keep still. *)
(***************************************************************************)
EXTENDS MemoryLoad

CONSTANTS
  Contents, BufferSize, Readers, Writes, MaxRecords, MaxLine, MaxOut,  \* of TextIO
  Fds, Texts, Modes, MaxShown                                          \* of SystemTasks

VARIABLES
  part,  \* "memory", "lines" or "tasks"
  content, unread, eof, line, records, value, good, written, out,
  opened, held, _ioMap, pending, file, shown, ended

Lines == INSTANCE TextIO
Tasks == INSTANCE SystemTasks

ASSUME BufferAssumption == BufferSize \in Nat \ {0, 1}
ASSUME ContentsAssumption == Contents \subseteq Lines!Text
ASSUME ReadersAssumption ==
  Readers \subseteq {"bit", "bit_vector", "bool", "char", "integer", "real", "string", "time", "logic",
                     "logic_vector", "sized", "hex", "hex_sized", "hex_uint64", "octal", "octal_sized"}
ASSUME WritesAssumption ==
  \A w \in Writes : /\ w.writer \in {"value", "bool", "digits", "hex", "octal", "file"}
                    /\ w.value \in Lines!Text /\ w.left \in BOOLEAN
                    /\ w.field \in Nat /\ w.digits \in Nat
ASSUME ModesAssumption == Modes \in Seq({"read", "write", "both"})

linesVars == <<content, unread, eof, line, records, value, good, written, out>>
tasksVars == <<opened, held, _ioMap, pending, file, shown, ended>>

-----------------------------------------------------------------------------
IdleLoad == CHOOSE l \in Loads : l.file = <<>>
RuntimeInit ==
  /\ part \in {"memory", "lines", "tasks"}
  /\ Init /\ Lines!Init /\ Tasks!Init
  /\ part # "memory" => load = IdleLoad
  /\ part # "lines" => content = <<>>

RuntimeNext ==
  \/ part = "memory" /\ Next /\ UNCHANGED <<part, linesVars, tasksVars>>
  \/ part = "lines" /\ Lines!Next /\ UNCHANGED <<part, vars, tasksVars>>
  \/ part = "tasks" /\ Tasks!Next /\ UNCHANGED <<part, vars, linesVars>>
RuntimeSpec == RuntimeInit /\ [][RuntimeNext]_<<part, vars, linesVars, tasksVars>>

-----------------------------------------------------------------------------
(* The states of the three parts have their types. *)
RuntimeTypeOK == TypeOK /\ Lines!TypeOK /\ Tasks!TypeOK
(* The reads return the lines of the file in order (hif_vhdl_std_textio.cpp:127-173). *)
RecordsInOrder == Lines!RecordsInOrder
(* The values written to a line stay apart (hif_vhdl_std_textio.cpp:398-514). *)
WritesApart == Lines!WritesApart
(* A read that fails takes nothing off the line (hif_vhdl_std_textio.cpp:175-382). *)
FailedReadKeepsLine == Lines!FailedReadKeepsLine
(* A read takes just its word off the line (hif_vhdl_std_textio.cpp:175-263). *)
TakesItsWord == Lines!TakesItsWord
(* A text goes to the file its descriptor stood for (hif_verilog_standard.cpp:34-49). *)
TextInItsFile == Tasks!TextInItsFile
=============================================================================
