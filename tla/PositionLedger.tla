--------------------------- MODULE PositionLedger ---------------------------
(***************************************************************************)
(* What an execution path of the backtest promises to the reports that read *)
(* its trades, whatever decides the exits: one position at a time, opened   *)
(* on one bar and closed on a later one, never replaced on the bar that     *)
(* closed it, and entered in the ledger exactly once, with the side, the    *)
(* bar and the price it was opened at.  A position still open after the     *)
(* last bar is settled there.                                               *)
(***************************************************************************)
EXTENDS Integers, Sequences

CONSTANTS NoPosition, Length, LedgerSides, Amounts

VARIABLES clock, open, ledger, settled

ledgerVars == <<clock, open, ledger, settled>>

Start == clock = 0 /\ open = NoPosition /\ ledger = <<>> /\ settled = FALSE

Wait == /\ clock < Length /\ clock' = clock + 1
        /\ UNCHANGED <<open, ledger, settled>>

Open == /\ clock < Length /\ open = NoPosition
        /\ \E side \in LedgerSides, price \in Amounts :
             open' = [side |-> side, entry |-> clock, price |-> price]
        /\ clock' = clock + 1
        /\ UNCHANGED <<ledger, settled>>

CloseWith(bar) ==
  \E price \in Amounts :
    ledger' = Append(ledger, [side |-> open.side, entry |-> open.entry,
                              entryPrice |-> open.price, exit |-> bar, price |-> price])

Close == /\ clock < Length /\ open # NoPosition /\ open.entry < clock
         /\ CloseWith(clock)
         /\ open' = NoPosition
         /\ clock' = clock + 1
         /\ UNCHANGED settled

Settle == /\ clock = Length /\ ~settled
          /\ settled' = TRUE
          /\ open' = NoPosition
          /\ IF open = NoPosition THEN UNCHANGED ledger ELSE CloseWith(Length - 1)
          /\ UNCHANGED clock

Move == Wait \/ Open \/ Close \/ Settle

LedgerSpec == Start /\ [][Move]_ledgerVars
=============================================================================
