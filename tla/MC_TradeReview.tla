--------------------------- MODULE MC_TradeReview ---------------------------
(* Instances of TradeReview: four variants in two runs.  The first run is a  *)
(* plain backtest (ids count the trades); the second is managed: its two     *)
(* variants share a trade at different positions, and the first of them has  *)
(* more events than the cap.  The runs share the name of one variant.        *)
EXTENDS TradeReview

MCTrade(id, entry, exit, reason, outcome, flags) ==
  [id |-> id, closed |-> reason # "open", entry |-> entry, exit |-> exit, exitReason |-> reason,
   direction |-> IF outcome = "winners" THEN "long" ELSE "short", entryProfile |-> "base",
   entryContextState |-> "calm", exitKind |-> IF reason = "open" THEN "none" ELSE reason,
   exitGroup |-> "exit", outcome |-> outcome, flags |-> flags,
   entryPrice |-> TRUE, exitPrice |-> reason # "open"]

MCEvent(time, trade, type) == [time |-> time, trade |-> trade, type |-> type]
MCComp(time, role) == [time |-> time, role |-> role]

MCPlain ==
  [run |-> 1, name |-> "a", v4 |-> TRUE,
   trades |-> <<MCTrade(1, 1, 3, "stop_loss", "losers", {}),
                MCTrade(2, 2, 4, "signal", "winners", {"gave_back"}),
                MCTrade(3, 4, NoTime, "open", "open", {})>>,
   events |-> <<>>,
   comps |-> <<MCComp(1, "entry_block"), MCComp(3, "setup"), MCComp(4, "exit_signal")>>]

\* only an open trade: nothing is selected
MCOpen ==
  [run |-> 1, name |-> "b", v4 |-> FALSE,
   trades |-> <<MCTrade(1, 2, NoTime, "open", "open", {})>>,
   events |-> <<>>, comps |-> <<>>]

MCManaged ==
  [run |-> 2, name |-> "b", v4 |-> TRUE,
   trades |-> <<MCTrade(11, 1, 3, "take_profit", "winners", {"late_exit"}),
                MCTrade(12, 2, 4, "break_even", "losers", {})>>,
   events |-> <<MCEvent(1, 11, "phase_changed"), MCEvent(2, 11, "active_stop_updated"),
                MCEvent(3, 12, "phase_changed"), MCEvent(3, 11, "exit_executed"),
                MCEvent(4, 12, "exit_executed"), MCEvent(NoTime, 12, "active_stop_updated")>>,
   comps |-> <<>>]

\* trade 12 is the first one here
MCSharing ==
  [run |-> 2, name |-> "c", v4 |-> TRUE,
   trades |-> <<MCTrade(12, 2, 3, "signal", "winners", {}),
                MCTrade(13, 4, NoTime, "open", "open", {})>>,
   events |-> <<MCEvent(2, 12, "phase_changed"), MCEvent(3, 12, "exit_executed")>>,
   comps |-> <<>>]

MCVariants == <<MCPlain, MCOpen, MCManaged, MCSharing>>
MCWindows == {NoCandles, <<1, 3>>, <<3, 4>>}
MCChips == {<<"outcome", "winners">>, <<"exitKind", "stop_loss">>, <<"exitKind", "all">>}
=============================================================================
