--------------------------- MODULE MC_AuxOverlays ---------------------------
(* Three bars under windows two bars wide; one variant with two contexts and   *)
(* no default, and one whose exit policy consumes one of them and whose exits  *)
(* have a line of their own.                                                   *)
EXTENDS AuxOverlays, TLC
MCBars == 1 .. 3
MCWindows == {{1, 2}, {2, 3}}
Two == {"a", "b"}
MCContexts == [v \in Two |-> {"x", "y"}]
MCConsumed == "a" :> None @@ "b" :> "x"
=============================================================================
