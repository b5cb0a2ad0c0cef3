------------------------- MODULE MC_ComposerSession -------------------------
(* "good" and "legacy" load, "legacy" becomes "good" when edited; "bad" is    *)
(* rejected by the loader only, "broken" by the composer already.             *)
EXTENDS ComposerSession
D(id, body) == [id |-> id, body |-> body]
F(name, id, body) == [name |-> name, draft |-> D(id, body)]
MCLoads(b) == b \in {"good", "legacy"}
MCBlocked(b) == b = "broken"
MCEditable(b) == IF b = "legacy" THEN "good" ELSE b
MCBlank == D("a", "broken")
MCPlain(id) == id
MCEmpty == [files |-> <<>>, selected |-> NoId]
MCTwo == [files |-> <<F("a", "a", "good"), F("b", "b", "legacy")>>, selected |-> "b"]
\* a hand-written file, one the loader rejects, and no selection
MCHand == [files |-> <<F("x", "b", "good"), F("a", "a", "bad")>>, selected |-> NoId]
At(configs, edits, waits, goes) ==
  [store |-> configs, edits |-> edits, patient |-> waits, leaves |-> goes]
MCUsers ==
  {At(MCTwo, [id : {"a", "b"}, body : {"good", "bad", "broken"}], TRUE, FALSE),
   At(MCHand, {D("a", "good"), D("b", "good"), D("b", "bad")}, FALSE, FALSE),
   At(MCEmpty, {D("a", "good"), D("a", "bad")}, FALSE, TRUE)}
=============================================================================
