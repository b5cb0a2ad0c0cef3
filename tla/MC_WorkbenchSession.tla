------------------------ MODULE MC_WorkbenchSession ------------------------
(* Two runs that share a variant name and trade ids, one of them with a       *)
(* second variant and an open trade.                                          *)
EXTENDS WorkbenchSession
T(i, c) == [id |-> i, closed |-> c]
MCReports ==
  << <<[variant |-> "a", trades |-> <<T(1, TRUE), T(2, FALSE)>>], [variant |-> "b", trades |-> <<T(3, TRUE)>>]>>,
     <<[variant |-> "a", trades |-> <<T(1, TRUE), T(2, TRUE)>>]>> >>
=============================================================================
