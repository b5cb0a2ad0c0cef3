--------------------------- MODULE MC_DataEngine ---------------------------
(* A small instance of DataEngine for TLC: two processes, both commands, and *)
(* an exchange that leaves candles out.  Rows with an invalid OHLC only      *)
(* change the verdict of a repair and are left to the theorems.              *)
EXTENDS DataEngine

Both == {"backfill", "fix"}
Valid == {"valid"}
=============================================================================
