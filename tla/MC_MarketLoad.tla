---------------------------- MODULE MC_MarketLoad ----------------------------
(* Two variants of one run, which share candles and an overlay, and a view  *)
(* of a second run over the same candles.                                   *)
EXTENDS MarketLoad

CONSTANTS a1, a2, b1, candles, fast, slow, End

TheViews == {a1, a2, b1}
RunOf == [v \in RunViews |-> IF v = b1 THEN "b" ELSE "a"]
CandlesOf == [v \in RunViews |-> candles]
OverlaysOf == [v \in RunViews |-> IF v = a1 THEN {fast, slow} ELSE {fast}]
StoredOf == [s \in Series |-> IF s = fast THEN Window(0, End)
                            ELSE IF s = candles THEN Window(1, End - 1) ELSE Window(5, End)]
ReportOf == [v \in RunViews |-> Window(0, End)]
==============================================================================
