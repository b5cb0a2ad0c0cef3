---------------------------- MODULE MC_ChartView ----------------------------
(***************************************************************************)
(* A user who moves the chart and changes runs, one who selects trades as  *)
(* well, and one who selects trades and leaves the chart alone.            *)
(***************************************************************************)
EXTENDS ChartView

Moving == {"pointer", "move", "wheel", "keyboard", "run"}
Selecting == {"select", "overlays", "fail"}
MCScenes == {[allowed |-> Moving, left |-> 6],
             [allowed |-> {"select", "pointer", "move", "overlays"}, left |-> 5],
             [allowed |-> Selecting \cup {"run"}, left |-> 4]}
=============================================================================
