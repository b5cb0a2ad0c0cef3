------------------------------ MODULE MC_TraceLoad ------------------------------
(* Windows two bars wide, of which neighbours share a bar.  Two of them with and *)
(* without chart events under many disturbances, and three, one more than there  *)
(* are bundles kept, with chart events and windows moved only.                   *)
EXTENDS TraceLoad

Three == {Window(0, 1), Window(1, 2), Window(2, 3)}
Two == {Window(0, 1), Window(1, 2)}

With(chartEvents, visited, disturbances) ==
  [chartEvents |-> chartEvents, visited |-> visited, disturbances |-> disturbances]

MCSettings ==
  {With(TRUE, Two,
        {"hasty", "realign", "pan", "rerun", "reload", "switch", "context", "fail"}),
   With(TRUE, Three, {"realign"}),
   With(FALSE, Two, {"hasty", "realign", "rerun", "fail", "short", "empty"})}
==================================================================================
