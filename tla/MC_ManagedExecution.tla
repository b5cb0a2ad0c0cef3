------------------------ MODULE MC_ManagedExecution ------------------------
(* A small instance of ManagedExecution for TLC: a ladder of stops that      *)
(* several rules and a moving ATR compete for, a take profile switched off    *)
(* and on again, runtime exits of every kind and a signal of one profile.     *)
EXTENDS ManagedExecution

MCPrices == 1 .. 3
OneProfile == {"aligned"}
OneSignal == {1}
AlignedGroup == <<"aligned">>

\* Missing, and shrinking or growing from bar to bar.
MCAtr == {0, 1, 2}
MCInitial == {1, None}
MCTake == {1}

MCPhaseRules ==
  << [to |-> 1, cond |-> "mfe_atr", threshold |-> 1],
     [to |-> 2, cond |-> "bars_in_trade", threshold |-> 3],
     [to |-> 2, cond |-> "mfe_pct", threshold |-> 100],
     [to |-> 3, cond |-> "adx_di", threshold |-> 0] >>

\* Break-even and a trailing stop at proven, a fixed lock at runner.
StopLadder ==
  << [activate |-> 1, offset |-> 0, perAtr |-> FALSE],
     [activate |-> 1, offset |-> 1, perAtr |-> TRUE],
     [activate |-> 3, offset |-> 1, perAtr |-> FALSE] >>

TakeSwitches ==
  << [activate |-> 1, action |-> "disable_initial_tp"],
     [activate |-> 3, action |-> "keep_initial"] >>

RuntimeExits ==
  << [activate |-> 3, kind |-> "market_close", phaseOnly |-> TRUE],
     [activate |-> 1, kind |-> "take_profit", phaseOnly |-> FALSE],
     [activate |-> 1, kind |-> "protective_exit", phaseOnly |-> FALSE] >>
=============================================================================
