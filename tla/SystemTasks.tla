------------------------------ MODULE SystemTasks ------------------------------
(***************************************************************************)
(* The Verilog system tasks on files in generated SystemC                  *)
(* (hif_verilog_standard.cpp): a stdio stream is made for a descriptor the *)
(* first time a task uses it and kept in _ioMap until $fclose.  The        *)
(* operating system gives the number of a closed descriptor to the next    *)
(* file; a file is known here by the turn in which it was opened.          *)
(***************************************************************************)
EXTENDS Naturals, Sequences

CONSTANTS
  Fds, Texts,
  Modes,             \* of the files, in the order in which they are opened: "read", "write", "both"
  MaxShown           \* bound: texts shown in a file

Files == DOMAIN Modes

VARIABLES
  opened,   \* how many files have been opened
  held,     \* the file a descriptor stands for, 0 if none
  _ioMap,   \* the file a descriptor has a stream on, 0 if it has no stream
  pending,  \* what the streams of a file hold back
  file,     \* what it contains
  shown,    \* the texts shown on its descriptor while it was open
  ended     \* "no", "failed", "stopped", "finished", "exited"

vars == <<opened, held, _ioMap, pending, file, shown, ended>>

Init ==
  /\ opened = 0 /\ held = [fd \in Fds |-> 0] /\ _ioMap = [fd \in Fds |-> 0]
  /\ pending = [f \in Files |-> <<>>] /\ file = [f \in Files |-> <<>>] /\ shown = [f \in Files |-> <<>>]
  /\ ended = "no"

(* sc_stop lets the processes of the delta cycle it is called in go on. *)
Running == ended \in {"no", "stopped", "finished"}

(* The file is opened and numbered by the operating system. *)
Fopen(fd) ==
  /\ Running /\ held[fd] = 0 /\ opened < Len(Modes)
  /\ opened' = opened + 1 /\ held' = [held EXCEPT ![fd] = opened + 1]
  /\ UNCHANGED <<_ioMap, pending, file, shown, ended>>

(* fdopen refuses a mode the descriptor was not opened for. *)
Stream(fd, modes) == IF _ioMap[fd] = 0 /\ Modes[held[fd]] \in modes THEN held[fd] ELSE _ioMap[fd]

(* $fdisplay and $fwrite: the stream is made to append. *)
Fdisplay(fd, s) ==
  LET stream == Stream(fd, {"write", "both"})
  IN  /\ Running /\ held[fd] # 0 /\ Len(shown[held[fd]]) < MaxShown
      /\ _ioMap' = [_ioMap EXCEPT ![fd] = stream]
      /\ IF stream = 0
         THEN ended' = "failed" /\ UNCHANGED <<pending, shown>>
         ELSE /\ pending' = [pending EXCEPT ![stream] = Append(@, s)]
              /\ shown' = [shown EXCEPT ![held[fd]] = Append(@, s)]
              /\ UNCHANGED ended
      /\ UNCHANGED <<opened, held, file>>

(* $fscanf makes a stream to read and write, so that a file that was opened *)
(* for one of them only ends the simulation.  The position it leaves is    *)
(* not modelled.                                                           *)
Fscanf(fd) ==
  LET stream == Stream(fd, {"both"})
  IN  /\ Running /\ held[fd] # 0
      /\ _ioMap' = [_ioMap EXCEPT ![fd] = stream]
      /\ ended' = IF stream = 0 THEN "failed" ELSE ended
      /\ UNCHANGED <<opened, held, pending, file, shown>>

Flushed(fs) ==
  /\ file' = [f \in Files |-> IF f \in fs THEN file[f] \o pending[f] ELSE file[f]]
  /\ pending' = [f \in Files |-> IF f \in fs THEN <<>> ELSE pending[f]]

(* stdio writes when its buffer is full. *)
BufferFull(f) ==
  /\ Running /\ pending[f] # <<>>
  /\ Flushed({f}) /\ UNCHANGED <<opened, held, _ioMap, shown, ended>>
Fflush(fd) ==
  /\ Running /\ Flushed({_ioMap[fd]})
  /\ UNCHANGED <<opened, held, _ioMap, shown, ended>>
(* A descriptor no task has used is not closed. *)
FcloseKeepingStream(fd) ==
  /\ Running /\ _ioMap[fd] # 0
  /\ Flushed({_ioMap[fd]}) /\ held' = [held EXCEPT ![fd] = 0]
  /\ UNCHANGED <<opened, _ioMap, shown, ended>>
Fclose(fd) ==
  /\ Running /\ _ioMap[fd] # 0
  /\ Flushed({_ioMap[fd]})
  /\ _ioMap' = [_ioMap EXCEPT ![fd] = 0] /\ held' = [held EXCEPT ![fd] = 0]
  /\ UNCHANGED <<opened, shown, ended>>

(* fflush of every stream, then sc_stop. *)
Finish == ended = "no" /\ ended' = "finished" /\ Flushed(Files) /\ UNCHANGED <<opened, held, _ioMap, shown>>
Stop == ended = "no" /\ ended' = "stopped" /\ UNCHANGED <<opened, held, _ioMap, pending, file, shown>>
(* The end of the program, with the streams it still has. *)
Exit ==
  /\ ended \in {"stopped", "finished"}
  /\ ended' = "exited" /\ Flushed(Files) /\ UNCHANGED <<opened, held, _ioMap, shown>>

Next ==
  \/ \E fd \in Fds :
       \/ Fopen(fd) \/ Fscanf(fd) \/ Fflush(fd) \/ Fclose(fd)
       \/ \E s \in Texts : Fdisplay(fd, s)
  \/ \E f \in Files : BufferFull(f)
  \/ Finish \/ Stop \/ Exit
Spec == Init /\ [][Next]_vars

-----------------------------------------------------------------------------
TypeOK ==
  /\ opened \in 0 .. Len(Modes) /\ held \in [Fds -> 0 .. opened] /\ _ioMap \in [Fds -> 0 .. opened]
  /\ {pending, file, shown} \subseteq [Files -> Seq(Texts)]
  /\ ended \in {"no", "failed", "stopped", "finished", "exited"}

(* Every text goes to the file that was open on its descriptor when it was *)
(* shown, in order, though descriptors are used again                      *)
(* (hif_verilog_standard.cpp:29-72, 190-199).                              *)
TextInItsFile == \A f \in Files : file[f] \o pending[f] = shown[f]
=============================================================================
