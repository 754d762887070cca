---------------------------- MODULE MCProcessKind ----------------------------
(***************************************************************************)
(* All the bodies of up to three items (four with a marker).  In Sources   *)
(* `wait;` is the last thing a process does and an `initial` does not      *)
(* wait; the other sets lift those restrictions.                           *)
(***************************************************************************)
EXTENDS ProcessKind

Body(items) == BoundedSeq(items, 3)
Clocked  == {[origin |-> "always", list |-> TRUE, body |-> b] : b \in Body({"w1", "w2"})}
Waiting  == {[origin |-> "always", list |-> FALSE, body |-> Append(b, "tail")] :
               b \in {c \in Body({"w1", "w2", "wait"}) : "wait" \in ToSet(c)}}
Startup  == {[origin |-> "initial", list |-> FALSE, body |-> b] : b \in Body({"w1", "w2"})}
Vhdl     == {[origin |-> "vhdl", list |-> FALSE, body |-> b] :
               b \in {c \in Body({"w1", "w2", "wait"}) : "wait" \in ToSet(c)}}
Stopping == {[origin |-> "vhdl", list |-> FALSE, body |-> Append(b, "halt")] :
               b \in Body({"w1", "w2", "wait"})}
Sources  == Clocked \cup Waiting \cup Startup \cup Vhdl \cup Stopping

ASSUME SourcesSupported == \A p \in Sources : Supported(p)

(* `wait;` under a condition. *)
MaybeStopping == {[origin |-> "vhdl", list |-> FALSE, body |-> b] :
                    b \in {c \in Body({"w1", "wait", "maybe"}) : {"wait", "maybe"} \subseteq ToSet(c)}}
(* An `initial` that waits on the way. *)
WaitingStartup == {[origin |-> "initial", list |-> FALSE, body |-> b] :
                     b \in {c \in Body({"w1", "wait"}) : "wait" \in ToSet(c)}}
=============================================================================
