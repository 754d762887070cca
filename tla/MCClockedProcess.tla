--------------------------- MODULE MCClockedProcess ---------------------------
(* ClockedProcess on a one-bit register: a constant, a load, a toggle and  *)
(* a call, in every place a branch can be, with every sensitivity list.    *)
EXTENDS ClockedProcess

MCData == {0, 1}
Inputs == MCData \X MCData
Clear  == [form |-> "assign", reads |-> FALSE, val |-> [x \in Inputs |-> 0]]
Load   == [form |-> "assign", reads |-> TRUE, val |-> [x \in Inputs |-> x[2]]]
Toggle == [form |-> "assign", reads |-> TRUE, val |-> [x \in Inputs |-> 1 - x[1]]]
Call   == [form |-> "other", reads |-> TRUE, val |-> [x \in Inputs |-> x[2]]]
MCStatements == {Clear, Load, Toggle, Call}

On(c, s) == [cond |-> c, act |-> s]
(* The edge, alone or with a reset before it or after it; a second reset   *)
(* or a second edge; a test of data before the edge or beside it.          *)
MCIfs ==
  {<<On("edge", s)>> : s \in MCStatements}
    \cup {<<On("reset", r), On("edge", s)>> : r, s \in MCStatements}
    \cup {<<On("edge", s), On("reset", r)>> : r, s \in MCStatements}
MCWiderIfs ==
  {<<On("reset", Clear), On("reset", Load), On("edge", Toggle)>>, <<On("reset", Clear)>>,
   <<On("edge", Load), On("edge", Load)>>, <<On("reset", Clear), On("d", Load), On("edge", Toggle)>>,
   <<On("d", Clear), On("reset", Load), On("edge", Load)>>, <<On("d", Clear), On("edge", Toggle)>>}
    \cup {<<On(c, Toggle)>> : c \in {"edge_and_d", "edge_or_d"}}
    \cup {<<On("reset", Clear), On(c, Toggle)>> : c \in {"edge_and_d", "edge_or_d"}}

WithClock == {S \in SUBSET Names : "clk" \in S}
MCSources ==
  {p \in [edge : {"rise", "fall"}, helper : BOOLEAN, phase : {"high", "low"},
          nested : {FALSE}, qualified : {FALSE}, sens : WithClock,
          outside : Optional({Load}), alts : MCIfs, other : Optional({Toggle})]
         \cup
         [edge : {"rise"}, helper : BOOLEAN, phase : {"high"},
          nested : BOOLEAN, qualified : BOOLEAN, sens : WithClock,
          outside : {<<>>}, alts : {<<On("edge", Load)>>, <<On("reset", Clear), On("edge", Load)>>} \cup MCWiderIfs,
          other : {<<>>}]
   : HasReset(p) => "rst" \in p.sens}
(* An enable beside the edge. *)
MCEnabled ==
  [edge : {"rise"}, helper : {TRUE}, phase : {"high"}, nested : {FALSE}, qualified : {FALSE},
   sens : {{"clk"}}, outside : {<<>>}, alts : {<<On("edge_and_d", Toggle)>>}, other : {<<>>}]
(* A test of data between the reset and the edge. *)
MCTestsData ==
  [edge : {"rise"}, helper : {TRUE}, phase : {"high"}, nested : {FALSE}, qualified : {FALSE},
   sens : {{"clk", "rst"}}, outside : {<<>>},
   alts : {<<On("reset", Clear), On("d", Load), On("edge", Toggle)>>}, other : {<<>>}]
=============================================================================
