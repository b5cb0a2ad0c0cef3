------------------------------- MODULE BarStore -------------------------------
(***************************************************************************)
(* What the planner relies on when it asks a cache of one series what is   *)
(* missing: the cache is a set of bars.  A response adds bars; when room   *)
(* runs out the oldest part of the history goes, never a part in the       *)
(* middle.                                                                 *)
(***************************************************************************)
EXTENDS Integers

CONSTANTS Responses,  \* sets of bars a response may bring
          Cuts        \* bars from which on the store may begin to keep

VARIABLE stored

Init == stored = {}

Add == \E new \in Responses, cut \in Cuts :
         stored' = {b \in stored \cup new : b >= cut}

Clear == stored' = {}

Spec == Init /\ [][Add \/ Clear]_stored
==============================================================================
