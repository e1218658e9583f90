---------------------------- MODULE MCPeriodTasks ----------------------------
(* One audio group and an organ with two windchests, of which only the first  *)
(* feeds the group at first: a change of the routing adds the cell of the     *)
(* second. Row 0 is the one for detached releases; no sampler is mixed there. *)
EXTENDS PeriodTasks

MCTasks      == {"wc0", "wc1", "wc2", "cell0", "cell1", "cell2", "group", "output"}
MCPriority   == [t \in MCTasks |-> CASE t \in {"wc0", "wc1", "wc2"}       -> 20
                                     [] t \in {"cell0", "cell1", "cell2"} -> 30
                                     [] t = "group"                       -> 50
                                     [] t = "output"                      -> 100]
MCInputs     == [t \in MCTasks |-> CASE t = "group"  -> <<"cell0", "cell1", "cell2">>
                                     [] t = "output" -> <<"group">>
                                     [] OTHER        -> <<>>]
MCAmplitudes == [t \in MCTasks |-> CASE t = "cell0" -> <<"wc0">>
                                     [] t = "cell1" -> <<"wc1">>
                                     [] t = "cell2" -> <<"wc2">>
                                     [] OTHER       -> <<>>]
MCBuildOrder == <<"wc0", "wc1", "wc2", "cell0", "cell1", "group", "output">>
MCRepeatable == {"cell0", "cell1", "cell2"}
MCCells      == {"cell1", "cell2"}
==============================================================================
