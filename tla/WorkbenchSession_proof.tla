----------------------- MODULE WorkbenchSession_proof -----------------------
(***************************************************************************)
(* Proofs about the two parts of WorkbenchContext.tsx.  About                *)
(* WorkbenchSession, for every number of runs, every set of reports and      *)
(* every choice of the calls that may fail; about AuxOverlays, for every     *)
(* set of variants, contexts and windows and every finite set of bars.       *)
(***************************************************************************)
EXTENDS WorkbenchSession, AuxOverlays, WellFoundedInduction, FiniteSetTheorems, TLAPS

(***************************************************************************)
(* Lemmas about the lookups of tradeLookup.ts.                              *)
(***************************************************************************)

\* A nonempty set of naturals has a least element.
LEMMA LeastNatural ==
  ASSUME NEW S \in SUBSET Nat, S # {}
  PROVE  \E n \in S : \A m \in S : n <= m
<1> DEFINE Below == {ss \in Nat \X Nat : ss[1] < ss[2]}
<1>1. IsWellFoundedOn(Below, Nat)
  BY NatLessThanWellFounded DEF OpToRel
<1> HIDE DEF Below
<1>2. PICK n \in S : \A m \in S : ~ (<<m, n>> \in Below)
  BY <1>1, WFMin
<1>3. \A m \in S : ~ (m < n)
  BY <1>2 DEF Below
<1>4. QED BY <1>3

\* A set of indices has a first one.
LEMMA MinIsThere ==
  ASSUME NEW I \in SUBSET Nat, I # {}
  PROVE  Min(I) \in I
  BY LeastNatural DEF Min

\* A bounded set of indices has a last one.
LEMMA MaxIsThere ==
  ASSUME NEW n \in Nat, NEW I \in SUBSET (1..n), I # {}
  PROVE  Max(I) \in I
<1> DEFINE J == {n - i : i \in I}
<1>1. J \in SUBSET Nat /\ J # {}
  <2>1. \A i \in I : n - i \in Nat
    OBVIOUS
  <2>2. QED BY <2>1
<1>2. \A i \in I : n - i \in J
  OBVIOUS
<1>3. \A x \in J : \E i \in I : x = n - i
  OBVIOUS
<1> HIDE DEF J
<1>4. PICK x \in J : \A y \in J : x <= y
  BY <1>1, LeastNatural
<1>5. PICK i \in I : x = n - i
  BY <1>3
<1>6. \A j \in I : i >= j
  BY <1>2, <1>4, <1>5
<1>7. QED BY <1>6 DEF Max

\* A trade is in a variant when one of its trades has the id (isTradeInVariant).
LEMMA InVariantMeans ==
  ASSUME NEW trades \in Seq(Trade), NEW id
  PROVE  InVariant(trades, id) <=> \E i \in 1..Len(trades) : trades[i].id = id
<1> DEFINE I == {i \in 1..Len(trades) : trades[i].id = id}
<1>1. Position(trades, id) = IF I # {} THEN Min(I) ELSE 0
  BY DEF Position, SelectInSeq
<1>2. I \in SUBSET Nat
  OBVIOUS
<1>3. \A i \in I : i >= 1 /\ i <= Len(trades) /\ trades[i].id = id
  OBVIOUS
<1>4. (\E i \in 1..Len(trades) : trades[i].id = id) <=> I # {}
  OBVIOUS
<1> HIDE DEF I
<1>5. I # {} => Min(I) \in I
  BY <1>2, MinIsThere
<1>6. CASE I = {}
  BY <1>1, <1>4, <1>6 DEF InVariant
<1>7. CASE I # {}
  <2>1. Min(I) >= 1 /\ Position(trades, id) = Min(I)
    BY <1>1, <1>3, <1>5, <1>7
  <2>2. Min(I) \in Nat
    BY <1>2, <1>5, <1>7
  <2>3. QED BY <1>4, <1>7, <2>1, <2>2 DEF InVariant
<1>8. QED BY <1>6, <1>7

\* A name is found when one of the report's variants has it (deriveSelectedVariant).
LEMMA NamedMeans ==
  ASSUME NEW run \in 1..MaxRuns, NEW key
  PROVE  /\ Named(run, key) \in 0..Len(Reports[run])
         /\ Named(run, key) # 0 <=> \E i \in 1..Len(Reports[run]) : Reports[run][i].variant = key
<1> DEFINE I == {i \in 1..Len(Reports[run]) : Reports[run][i].variant = key}
<1>1. Named(run, key) = IF I # {} THEN Min(I) ELSE 0
  BY DEF Named, SelectInSeq
<1>2. Len(Reports[run]) \in Nat
  BY SessionAssumption DEF SessionAssumption
<1>3. I \in SUBSET Nat /\ \A i \in I : i \in 1..Len(Reports[run])
  OBVIOUS
<1>4. (\E i \in 1..Len(Reports[run]) : Reports[run][i].variant = key) <=> I # {}
  OBVIOUS
<1> HIDE DEF I
<1>5. I # {} => Min(I) \in I
  BY <1>3, MinIsThere
<1>6. CASE I = {}
  BY <1>1, <1>2, <1>4, <1>6
<1>7. CASE I # {}
  <2>1. Named(run, key) = Min(I) /\ Min(I) \in 1..Len(Reports[run])
    BY <1>1, <1>3, <1>5, <1>7
  <2>2. QED BY <1>2, <1>4, <1>7, <2>1
<1>8. QED BY <1>6, <1>7

\* The default trade of a list is one of its trades, or none (findLastClosedTradeId).
LEMMA LastClosedMeans ==
  ASSUME NEW trades \in Seq(Trade)
  PROVE  /\ LastClosed(trades) \in Nat
         /\ LastClosed(trades) # NoTrade => InVariant(trades, LastClosed(trades))
<1> DEFINE I == {i \in 1..Len(trades) : trades[i].closed}
           last == SelectLastInSeq(trades, LAMBDA t : t.closed)
<1>1. last = IF I # {} THEN Max(I) ELSE 0
  BY DEF SelectLastInSeq
<1>2. Len(trades) \in Nat /\ (I # {} => Max(I) \in I)
  <2>1. I \in SUBSET (1..Len(trades)) /\ Len(trades) \in Nat
    OBVIOUS
  <2> HIDE DEF I
  <2>2. QED BY <2>1, MaxIsThere
<1>3. LastClosed(trades) = IF last = 0 THEN NoTrade ELSE trades[last].id
  BY DEF LastClosed
<1>4. CASE last = 0
  BY <1>3, <1>4 DEF NoTrade
<1>5. CASE last # 0
  <2>1. last \in 1..Len(trades)
    BY <1>1, <1>2, <1>5
  <2>2. trades[last] \in Trade
    BY <2>1
  <2>3. QED BY <1>3, <1>5, <2>1, <2>2, InVariantMeans DEF Trade
<1>6. QED BY <1>4, <1>5

\* The variant a key stands for is one of the report's.
LEMMA VariantOfIsVariant ==
  ASSUME NEW run \in 1..MaxRuns, NEW key
  PROVE  VariantOf(run, key).trades \in Seq(Trade)
<1> DEFINE i == IF Named(run, key) = 0 THEN 1 ELSE Named(run, key)
<1>1. Reports[run] \in Seq(Variant) /\ i \in 1..Len(Reports[run])
  BY NamedMeans, SessionAssumption DEF SessionAssumption
<1>2. Reports[run][i] \in Variant
  BY <1>1
<1>3. QED BY <1>2 DEF VariantOf, Variant

\* The names of variants, and the empty key the page starts with.
Keys == {""} \union STRING

\* The key that is chosen for a report names one of its variants (resolveVariantKeyForReport).
LEMMA KeyForIsNamed ==
  ASSUME NEW run \in 1..MaxRuns, NEW previous \in Keys
  PROVE  KeyFor(run, previous) \in Keys /\ Named(run, KeyFor(run, previous)) # 0
<1>1. CASE Named(run, previous) # 0
  BY <1>1 DEF KeyFor
<1>2. CASE Named(run, previous) = 0
  <2>1. Reports[run] \in Seq(Variant) /\ 1 \in 1..Len(Reports[run])
    BY SessionAssumption DEF SessionAssumption
  <2>2. Reports[run][1] \in Variant /\ Head(Reports[run]) = Reports[run][1]
    BY <2>1
  <2>3. KeyFor(run, previous) = Reports[run][1].variant
    BY <1>2, <2>2 DEF KeyFor
  <2>4. STRING \subseteq Keys
    BY Zenon DEF Keys
  <2>5. QED BY <2>1, <2>2, <2>3, <2>4, NamedMeans DEF Variant
<1>3. QED BY <1>1, <1>2

(***************************************************************************)
(* The inductive invariant.                                                 *)
(***************************************************************************)

\* The states of the page when n runs are stored.
Page(n) == [runs : 0..n, sel : 0..n, rep : 0..n, fresh : BOOLEAN,
            status : {"loading", "ready", "error"}, err : BOOLEAN,
            key : Keys, trade : Nat, bar : 0..n, tok : BOOLEAN]

Typed ==
  /\ server \in 0..MaxRuns /\ ui \in Page(server) /\ shown \in Page(server)
  /\ shown.fresh = FALSE
  /\ pend \subseteq {"load", "boot", "rep", "key"}
  /\ refs \in [key : Keys, prevKey : Keys, prevRun : 0..server]
  /\ loads \subseteq 1..server /\ boots \subseteq 0..server /\ refreshes \subseteq 1..server

\* Once the load effect has run, only the call for the committed selection is
\* left, and a report that is ready is the one it brought.
LoadsAreOfSelection ==
  "load" \notin pend =>
    /\ loads \subseteq {shown.sel} \ {0}
    /\ ui.status = "ready" /\ shown.sel # 0 => ui.rep = shown.sel

\* Once the variant effect has run for the report that is shown, the key names
\* one of its variants.
KeyIsNamed(u, s, waiting) ==
  "rep" \notin waiting /\ u.rep = s.rep /\ ~ u.fresh /\ u.rep # 0 => Named(u.rep, u.key) # 0

TradeIsIn(s) == s.rep # 0 /\ s.trade # NoTrade => InVariant(Trades(s), s.trade)

\* A committed trade that is not of the committed variant is on its way out.
TradeIsReplaced(u, s) == u.trade = s.trade => TradeIsIn(s)

\* The bar lies on the candles of the run the bootstrap effect last ran for, or
\* of the one it is about to run for.
BarIsOfRun(u, s, waiting, last) ==
  /\ "rep" \notin waiting /\ s.rep # 0 => last = s.rep
  /\ u.bar \in {0, last} \/ ("rep" \in waiting /\ u.bar = s.rep)

SessionInv ==
  /\ Typed
  /\ LoadsAreOfSelection
  /\ KeyIsNamed(ui, shown, pend)
  /\ TradeIsReplaced(ui, shown)
  /\ BarIsOfRun(ui, shown, pend, refs.prevRun)

\* With a run stored when the page is opened, a selection is never lost.
SelectionStays ==
  /\ server > 0 /\ 0 \notin boots
  /\ ui.sel = 0 => shown.sel = 0
  /\ shown.sel = 0 => loads = {} /\ ui.status # "ready"

(***************************************************************************)
(* What the effects do to a page.                                           *)
(***************************************************************************)

LEMMA PageGrows ==
  ASSUME NEW m \in Nat, NEW n \in Nat, m <= n
  PROVE  Page(m) \subseteq Page(n)
<1>1. 0..m \subseteq 0..n
  OBVIOUS
<1>2. QED BY <1>1 DEF Page

\* Focusing a variant selects its last closed trade, or none, and a bar of the run.
LEMMA FocusedIs ==
  ASSUME NEW n \in 0..MaxRuns, NEW s \in Page(n), NEW run \in 1..n, NEW key \in Keys
  PROVE  /\ Focused(s, run, key) \in Page(n)
         /\ Focused(s, run, key).trade = LastClosed(VariantOf(run, key).trades)
         /\ Focused(s, run, key).bar \in {0, run}
         /\ \A f \in {"runs", "sel", "rep", "fresh", "status", "err", "key", "tok"} :
              Focused(s, run, key)[f] = s[f]
<1> DEFINE id == LastClosed(VariantOf(run, key).trades)
<1>1. id \in Nat
  <2>1. run \in 1..MaxRuns
    BY SessionAssumption DEF SessionAssumption
  <2>2. QED BY <2>1, VariantOfIsVariant, LastClosedMeans
<1>2. Focused(s, run, key) = [s EXCEPT !.trade = id, !.bar = IF id = NoTrade THEN 0 ELSE run]
  BY DEF Focused
<1> HIDE DEF id
<1>3. 0 \in 0..n /\ run \in 0..n
  OBVIOUS
<1>4. QED BY <1>1, <1>2, <1>3 DEF Page, id

\* The trade a variant is focused on is one of its trades, or none.
LEMMA FocusIsIn ==
  ASSUME NEW run \in 1..MaxRuns, NEW key \in Keys, NEW s,
         s.rep = run, s.key = key, s.trade = LastClosed(VariantOf(run, key).trades)
  PROVE  TradeIsIn(s)
  BY VariantOfIsVariant, LastClosedMeans DEF TradeIsIn, Trades

LEMMA LoadEffectIs ==
  ASSUME NEW n \in Nat, NEW u \in Page(n), NEW s \in Page(n)
  PROVE  /\ LoadEffect(u, s) \in Page(n)
         /\ LoadEffect(u, s).status = IF "load" \in pend /\ s.sel # 0 THEN "loading" ELSE u.status
         /\ \A f \in {"runs", "sel", "rep", "fresh", "key", "trade", "bar", "tok"} :
              LoadEffect(u, s)[f] = u[f]
  BY DEF LoadEffect, Page

LEMMA VariantEffectIs ==
  ASSUME NEW n \in 0..MaxRuns, NEW u \in Page(n), NEW s \in Page(n), refs.key \in Keys
  PROVE  /\ VariantEffect(u, s) \in Page(n)
         /\ KeyRef(s) \in Keys
         /\ "rep" \in pend /\ s.rep # 0 => Named(s.rep, VariantEffect(u, s).key) # 0
         /\ ~ ("rep" \in pend /\ s.rep # 0) => VariantEffect(u, s).key = u.key
         /\ \A f \in {"runs", "sel", "rep", "fresh", "status", "err", "trade", "bar", "tok"} :
              VariantEffect(u, s)[f] = u[f]
<1>1. KeyRef(s) \in Keys
  BY DEF KeyRef, Page
<1>2. CASE ~ ("rep" \in pend /\ s.rep # 0)
  <2>1. VariantEffect(u, s) = u
    BY <1>2 DEF VariantEffect
  <2>2. QED BY <1>1, <1>2, <2>1
<1>3. CASE "rep" \in pend /\ s.rep # 0
  <2> DEFINE key == KeyFor(s.rep, KeyRef(s))
  <2>0. s.rep \in 0..n
    BY DEF Page
  <2>1. s.rep \in 1..MaxRuns
    BY <1>3, <2>0, SessionAssumption DEF SessionAssumption
  <2>2. key \in Keys /\ Named(s.rep, key) # 0
    BY <1>1, <2>1, KeyForIsNamed
  <2>3. VariantEffect(u, s) = [u EXCEPT !.key = key]
    BY <1>3 DEF VariantEffect
  <2> HIDE DEF key
  <2>4. QED BY <1>1, <1>3, <2>2, <2>3 DEF Page
<1>4. QED BY <1>2, <1>3

LEMMA TradeEffectIs ==
  ASSUME NEW n \in 0..MaxRuns, NEW u \in Page(n), NEW s \in Page(n)
  PROVE  /\ TradeEffect(u, s) \in Page(n)
         /\ TradeBootstraps(s) => /\ TradeEffect(u, s).trade = LastClosed(Trades(s))
                                  /\ TradeEffect(u, s).bar \in {0, s.rep}
         /\ ~ TradeBootstraps(s) => TradeEffect(u, s) = u
         /\ \A f \in {"runs", "sel", "rep", "fresh", "status", "err", "key", "tok"} :
              TradeEffect(u, s)[f] = u[f]
<1>1. CASE ~ TradeBootstraps(s)
  BY <1>1 DEF TradeEffect
<1>2. CASE TradeBootstraps(s)
  <2>1. s.rep \in 1..n /\ s.key \in Keys
    BY <1>2 DEF Page, TradeBootstraps
  <2>2. TradeEffect(u, s) = Focused(u, s.rep, s.key)
    BY <1>2 DEF TradeEffect
  <2>f. PICK run \in 1..n, key \in Keys : run = s.rep /\ key = s.key
    BY <2>1
  <2>g. /\ Focused(u, run, key) \in Page(n)
        /\ Focused(u, run, key).trade = LastClosed(VariantOf(run, key).trades)
        /\ Focused(u, run, key).bar \in {0, run}
        /\ \A f \in {"runs", "sel", "rep", "fresh", "status", "err", "key", "tok"} :
             Focused(u, run, key)[f] = u[f]
    BY FocusedIs
  <2>3. /\ Focused(u, s.rep, s.key) \in Page(n)
        /\ Focused(u, s.rep, s.key).trade = LastClosed(VariantOf(s.rep, s.key).trades)
        /\ Focused(u, s.rep, s.key).bar \in {0, s.rep}
        /\ \A f \in {"runs", "sel", "rep", "fresh", "status", "err", "key", "tok"} :
             Focused(u, s.rep, s.key)[f] = u[f]
    BY <2>f, <2>g, Zenon
  <2>4. QED BY <1>2, <2>2, <2>3 DEF Trades
<1>3. QED BY <1>1, <1>2

\* The layout effect leaves a trade of the variant selected, or none.
LEMMA MembershipEffectIs ==
  ASSUME NEW n \in 0..MaxRuns, NEW u \in Page(n)
  PROVE  /\ MembershipEffect(u) \in Page(n)
         /\ TradeIsIn(MembershipEffect(u))
         /\ TradeIsIn(u) => MembershipEffect(u) = u
         /\ ~ TradeIsIn(u) => u.rep # 0 /\ MembershipEffect(u).bar \in {0, u.rep}
         /\ \A f \in {"runs", "sel", "rep", "fresh", "status", "err", "key", "tok"} :
              MembershipEffect(u)[f] = u[f]
<1>1. CASE TradeIsIn(u)
  BY <1>1 DEF MembershipEffect, TradeIsIn
<1>2. CASE ~ TradeIsIn(u)
  <2>1. u.rep \in 1..n /\ u.key \in Keys
    BY <1>2 DEF Page, TradeIsIn
  <2>2. MembershipEffect(u) = Focused(u, u.rep, u.key)
    BY <1>2 DEF MembershipEffect, TradeIsIn
  <2>3. u.rep \in 1..MaxRuns
    BY <2>1, SessionAssumption DEF SessionAssumption
  <2> DEFINE m == MembershipEffect(u)
  <2>f. /\ Focused(u, u.rep, u.key) \in Page(n)
        /\ Focused(u, u.rep, u.key).trade = LastClosed(VariantOf(u.rep, u.key).trades)
        /\ Focused(u, u.rep, u.key).bar \in {0, u.rep}
        /\ \A f \in {"runs", "sel", "rep", "fresh", "status", "err", "key", "tok"} :
             Focused(u, u.rep, u.key)[f] = u[f]
    BY <2>1, FocusedIs
  <2>4. /\ m \in Page(n) /\ m.trade = LastClosed(VariantOf(u.rep, u.key).trades)
        /\ m.bar \in {0, u.rep}
        /\ \A f \in {"runs", "sel", "rep", "fresh", "status", "err", "key", "tok"} : m[f] = u[f]
    BY <2>2, <2>f
  <2> HIDE DEF m
  <2>5. m.rep = u.rep /\ m.key = u.key
    BY <2>4
  <2>6. TradeIsIn(m)
    BY <2>1, <2>3, <2>4, <2>5, FocusIsIn
  <2>7. QED BY <1>2, <2>1, <2>4, <2>6 DEF m
<1>3. QED BY <1>1, <1>2

(***************************************************************************)
(* Every action keeps the invariant.                                        *)
(***************************************************************************)

LEMMA InitEstablishes == Init => SessionInv
<1> SUFFICES ASSUME Init PROVE SessionInv
  OBVIOUS
<1>a. PICK none \in Keys : none = ""
  BY Zenon DEF Keys
<1>b. /\ server = Stored /\ shown = ui /\ pend = {"load", "boot", "rep", "key"}
      /\ loads = {} /\ boots = {} /\ refreshes = {}
  BY Zenon DEF Init
<1>c. ui = [runs |-> 0, sel |-> 0, rep |-> 0, fresh |-> FALSE, status |-> "loading", err |-> FALSE,
            key |-> none, trade |-> NoTrade, bar |-> 0, tok |-> FALSE]
  BY <1>a, Zenon DEF Init
<1>d. refs = [key |-> none, prevKey |-> none, prevRun |-> 0]
  BY <1>a, Zenon DEF Init
<1>1. server \in 0..MaxRuns /\ server \in Nat
  BY <1>b, SessionAssumption DEF SessionAssumption
<1>2. ui \in Page(server) /\ shown = ui
  BY <1>1, <1>b, <1>c DEF Page, NoTrade
<1>3. Typed
  BY <1>1, <1>2, <1>b, <1>c, <1>d DEF Typed
<1>4. ui.rep = 0 /\ ui.trade = NoTrade /\ ui.bar = 0 /\ "load" \in pend /\ "rep" \in pend
  BY <1>b, <1>c
<1>5. QED
  BY <1>2, <1>3, <1>4 DEF SessionInv, LoadsAreOfSelection, KeyIsNamed, TradeIsReplaced,
                          TradeIsIn, BarIsOfRun

LEMMA RenderKeeps ==
  ASSUME SessionInv, Render
  PROVE  SessionInv'
<1> DEFINE new == [ui EXCEPT !.fresh = FALSE]
<1>1. /\ shown' = new /\ ui' = MembershipEffect(new) /\ pend = {} /\ pend' = Changed(shown, ui)
      /\ UNCHANGED <<server, refs, loads, boots, refreshes>>
  BY DEF Render
<1>2. server \in 0..MaxRuns /\ ui \in Page(server) /\ shown \in Page(server)
  BY DEF SessionInv, Typed
<1>3. /\ new \in Page(server) /\ new.fresh = FALSE
      /\ \A f \in {"runs", "sel", "rep", "status", "err", "key", "trade", "bar", "tok"} : new[f] = ui[f]
  BY <1>2 DEF Page
<1> HIDE DEF new
<1>4. /\ ui' \in Page(server) /\ TradeIsIn(ui')
      /\ TradeIsIn(new) => ui' = new
      /\ ~ TradeIsIn(new) => new.rep # 0 /\ ui'.bar \in {0, new.rep}
      /\ \A f \in {"runs", "sel", "rep", "fresh", "status", "err", "key", "tok"} : ui'[f] = new[f]
  BY <1>1, <1>2, <1>3, MembershipEffectIs
<1>5. pend' \subseteq {"load", "boot", "rep", "key"}
  BY <1>1 DEF Changed
<1>6. Typed'
  BY <1>1, <1>3, <1>4, <1>5 DEF SessionInv, Typed
<1>7. LoadsAreOfSelection'
  <2>1. SUFFICES ASSUME "load" \notin pend'
                 PROVE  /\ loads' \subseteq {shown'.sel} \ {0}
                        /\ ui'.status = "ready" /\ shown'.sel # 0 => ui'.rep = shown'.sel
    BY DEF LoadsAreOfSelection
  <2>2. shown.sel = ui.sel
    BY <1>1, <2>1 DEF Changed
  <2>3. QED
    BY <1>1, <1>3, <1>4, <2>2 DEF SessionInv, LoadsAreOfSelection
<1>8. KeyIsNamed(ui, shown, pend)'
  <2>1. SUFFICES ASSUME "rep" \notin pend', ui'.rep # 0
                 PROVE  Named(ui'.rep, ui'.key) # 0
    BY DEF KeyIsNamed
  <2>2. shown.rep = ui.rep /\ ~ ui.fresh
    BY <1>1, <2>1 DEF Changed
  <2>3. ui'.rep = ui.rep /\ ui'.key = ui.key
    BY <1>3, <1>4
  <2>4. QED
    BY <1>1, <2>1, <2>2, <2>3 DEF SessionInv, KeyIsNamed
<1>9. TradeIsReplaced(ui, shown)'
  <2>1. SUFFICES ASSUME ui'.trade = new.trade
                 PROVE  TradeIsIn(new)
    BY <1>1 DEF TradeIsReplaced, TradeIsIn, Trades
  <2>2. ui'.rep = new.rep /\ ui'.key = new.key
    BY <1>4
  <2>3. QED
    BY <1>4, <2>1, <2>2 DEF TradeIsIn, Trades
<1>10. BarIsOfRun(ui, shown, pend, refs.prevRun)'
  <2>0. /\ shown'.rep = ui.rep /\ refs'.prevRun = refs.prevRun
        /\ shown.rep # 0 => refs.prevRun = shown.rep
        /\ ui.bar \in {0, refs.prevRun}
    BY <1>1, <1>3 DEF SessionInv, BarIsOfRun
  <2>1. "rep" \notin pend' => shown.rep = ui.rep
    BY <1>1 DEF Changed
  <2>2. CASE TradeIsIn(new)
    <3>1. ui'.bar = ui.bar
      BY <1>3, <1>4, <2>2
    <3>2. QED BY <2>0, <2>1, <3>1 DEF BarIsOfRun
  <2>3. CASE ~ TradeIsIn(new)
    <3>1. ui.rep # 0 /\ ui'.bar \in {0, ui.rep}
      BY <1>3, <1>4, <2>3
    <3>2. QED BY <2>0, <2>1, <3>1 DEF BarIsOfRun
  <2>4. QED BY <2>2, <2>3
<1>11. QED BY <1>6, <1>7, <1>8, <1>9, <1>10 DEF SessionInv

LEMMA RunEffectsKeeps ==
  ASSUME SessionInv, RunEffects
  PROVE  SessionInv'
<1> DEFINE u1 == LoadEffect(ui, shown)
           u2 == VariantEffect(u1, shown)
<1>1. /\ pend' = {} /\ ui' = TradeEffect(u2, shown)
      /\ loads' = LoadCalls(shown) /\ boots' = BootCalls
      /\ refs' = [key |-> IF "rep" \in pend /\ shown.rep # 0
                          THEN KeyFor(shown.rep, KeyRef(shown)) ELSE KeyRef(shown),
                  prevKey |-> IF TradeBootstraps(shown) THEN shown.key ELSE refs.prevKey,
                  prevRun |-> IF TradeBootstraps(shown) THEN shown.rep ELSE refs.prevRun]
      /\ UNCHANGED <<server, shown, refreshes>>
  BY DEF RunEffects
<1>2. /\ server \in 0..MaxRuns /\ server \in Nat /\ ui \in Page(server) /\ shown \in Page(server)
      /\ refs \in [key : Keys, prevKey : Keys, prevRun : 0..server]
  BY SessionAssumption DEF SessionInv, Typed, SessionAssumption
<1>3. /\ u1 \in Page(server)
      /\ u1.status = IF "load" \in pend /\ shown.sel # 0 THEN "loading" ELSE ui.status
      /\ \A f \in {"runs", "sel", "rep", "fresh", "key", "trade", "bar", "tok"} : u1[f] = ui[f]
  BY <1>2, LoadEffectIs
<1> HIDE DEF u1
<1>4. /\ u2 \in Page(server) /\ KeyRef(shown) \in Keys
      /\ "rep" \in pend /\ shown.rep # 0 => Named(shown.rep, u2.key) # 0
      /\ ~ ("rep" \in pend /\ shown.rep # 0) => u2.key = u1.key
      /\ \A f \in {"runs", "sel", "rep", "fresh", "status", "err", "trade", "bar", "tok"} :
           u2[f] = u1[f]
  BY <1>2, <1>3, VariantEffectIs
<1> HIDE DEF u2
<1>5. /\ ui' \in Page(server)
      /\ TradeBootstraps(shown) => /\ ui'.trade = LastClosed(Trades(shown))
                                   /\ ui'.bar \in {0, shown.rep}
      /\ ~ TradeBootstraps(shown) => ui' = u2
      /\ \A f \in {"runs", "sel", "rep", "fresh", "status", "err", "key", "tok"} : ui'[f] = u2[f]
  BY <1>1, <1>2, <1>4, TradeEffectIs
<1>6. Typed'
  <2>1. refs' \in [key : Keys, prevKey : Keys, prevRun : 0..server]
    <3>1. shown.rep \in 0..server /\ shown.key \in Keys
      BY <1>2 DEF Page
    <3>2. shown.rep # 0 => KeyFor(shown.rep, KeyRef(shown)) \in Keys
      <4>1. shown.rep # 0 => shown.rep \in 1..MaxRuns
        BY <1>2, <3>1, SessionAssumption DEF SessionAssumption
      <4>2. QED BY <1>4, <4>1, KeyForIsNamed
    <3>3. QED BY <1>1, <1>2, <1>4, <3>1, <3>2
  <2>2. shown.sel \in 0..server
    BY <1>2 DEF Page
  <2>3. loads' \subseteq 1..server
    <3>1. loads \subseteq 1..server
      BY DEF SessionInv, Typed
    <3>2. \A r \in loads' : r \in loads \/ (shown.sel # 0 /\ r = shown.sel)
      BY <1>1 DEF LoadCalls, Cancelled
    <3>3. shown.sel # 0 => shown.sel \in 1..server
      BY <1>2, <2>2
    <3>4. QED BY <3>1, <3>2, <3>3
  <2>4. boots' \subseteq 0..server
    BY <1>1, <1>2 DEF BootCalls, Cancelled, SessionInv, Typed
  <2>5. QED BY <1>1, <1>2, <1>5, <2>1, <2>3, <2>4 DEF SessionInv, Typed
<1>7. LoadsAreOfSelection'
  <2>1. ui'.status = u1.status /\ ui'.rep = ui.rep /\ shown' = shown
    BY <1>1, <1>3, <1>4, <1>5
  <2>2. CASE "load" \in pend
    <3>1. loads' \subseteq {shown.sel} \ {0}
      BY <1>1, <2>2 DEF LoadCalls, Cancelled
    <3>2. QED BY <1>3, <2>1, <2>2, <3>1 DEF LoadsAreOfSelection
  <2>3. CASE "load" \notin pend
    <3>1. loads' = loads /\ ui'.status = ui.status
      BY <1>1, <1>3, <2>1, <2>3 DEF LoadCalls
    <3>2. QED BY <2>1, <2>3, <3>1 DEF LoadsAreOfSelection, SessionInv
  <2>4. QED BY <2>2, <2>3
<1>8. KeyIsNamed(ui, shown, pend)'
  <2>1. SUFFICES ASSUME ui'.rep = shown.rep, ~ ui'.fresh, ui'.rep # 0
                 PROVE  Named(ui'.rep, ui'.key) # 0
    BY <1>1 DEF KeyIsNamed
  <2>2. ui'.rep = ui.rep /\ ui'.fresh = ui.fresh /\ ui'.key = u2.key
    BY <1>3, <1>4, <1>5
  <2>3. CASE "rep" \in pend
    BY <1>4, <2>1, <2>2, <2>3
  <2>4. CASE "rep" \notin pend
    <3>1. u2.key = ui.key
      BY <1>3, <1>4, <2>4
    <3>2. QED BY <2>1, <2>2, <2>4, <3>1 DEF SessionInv, KeyIsNamed
  <2>5. QED BY <2>3, <2>4
<1>9. TradeIsReplaced(ui, shown)'
  <2>1. SUFFICES ASSUME ui'.trade = shown.trade
                 PROVE  TradeIsIn(shown)
    BY <1>1 DEF TradeIsReplaced, TradeIsIn, Trades
  <2>2. CASE TradeBootstraps(shown)
    <3>1. shown.rep \in 1..MaxRuns /\ shown.key \in Keys
      <4>1. shown.rep \in 0..server /\ shown.key \in Keys /\ shown.rep # 0
        BY <1>2, <2>2 DEF Page, TradeBootstraps
      <4>2. QED BY <1>2, <4>1, SessionAssumption DEF SessionAssumption
    <3>2. shown.trade = LastClosed(VariantOf(shown.rep, shown.key).trades)
      BY <1>5, <2>1, <2>2 DEF Trades
    <3>3. QED BY <3>1, <3>2, FocusIsIn
  <2>3. CASE ~ TradeBootstraps(shown)
    <3>1. ui.trade = shown.trade
      BY <1>3, <1>4, <1>5, <2>1, <2>3
    <3>2. QED BY <3>1 DEF SessionInv, TradeIsReplaced
  <2>4. QED BY <2>2, <2>3
<1>10. BarIsOfRun(ui, shown, pend, refs.prevRun)'
  <2>1. /\ "rep" \notin pend /\ shown.rep # 0 => refs.prevRun = shown.rep
        /\ ui.bar \in {0, refs.prevRun} \/ ("rep" \in pend /\ ui.bar = shown.rep)
    BY DEF SessionInv, BarIsOfRun
  <2>2. CASE TradeBootstraps(shown)
    <3>1. refs'.prevRun = shown.rep /\ ui'.bar \in {0, shown.rep}
      BY <1>1, <1>5, <2>2
    <3>2. QED BY <1>1, <3>1 DEF BarIsOfRun
  <2>3. CASE ~ TradeBootstraps(shown)
    <3>1. refs'.prevRun = refs.prevRun /\ ui'.bar = ui.bar
      BY <1>1, <1>3, <1>4, <1>5, <2>3
    <3>2. shown.rep # 0 => refs.prevRun = shown.rep
      BY <2>1, <2>3 DEF TradeBootstraps
    <3>3. ui.bar \in {0, refs.prevRun}
      BY <2>1, <3>2
    <3>4. QED BY <1>1, <3>1, <3>2, <3>3 DEF BarIsOfRun
  <2>4. QED BY <2>2, <2>3
<1>11. QED BY <1>6, <1>7, <1>8, <1>9, <1>10 DEF SessionInv

\* What an answer may change: the page apart from the variant, the trade and
\* the bar selected in it; a report it brings is marked fresh.
LEMMA AnswerKeeps ==
  ASSUME SessionInv, UNCHANGED <<shown, pend, refs>>, Typed', LoadsAreOfSelection',
         ui'.key = ui.key, ui'.trade = ui.trade, ui'.bar = ui.bar,
         \/ ui'.rep = ui.rep /\ ui'.fresh = ui.fresh
         \/ ui'.rep = 0
         \/ ui'.fresh = TRUE
  PROVE  SessionInv'
<1>1. KeyIsNamed(ui, shown, pend)'
  BY DEF SessionInv, KeyIsNamed
<1>2. TradeIsReplaced(ui, shown)'
  BY DEF SessionInv, TradeIsReplaced, TradeIsIn, Trades
<1>3. BarIsOfRun(ui, shown, pend, refs.prevRun)'
  BY DEF SessionInv, BarIsOfRun
<1>4. QED BY <1>1, <1>2, <1>3 DEF SessionInv

LEMMA ReportArrivesKeeps ==
  ASSUME SessionInv, NEW r \in 1..MaxRuns, ReportArrives(r)
  PROVE  SessionInv'
<1>1. /\ r \in loads /\ loads' = loads \ {r}
      /\ UNCHANGED <<server, shown, pend, refs, boots, refreshes>>
      /\ \/ ui' = [ui EXCEPT !.rep = r, !.fresh = TRUE, !.status = "ready"]
         \/ ui' = [ui EXCEPT !.rep = 0, !.status = "error", !.err = TRUE]
  BY DEF ReportArrives
<1>2. server \in Nat /\ ui \in Page(server) /\ r \in 0..server
  BY <1>1, SessionAssumption DEF SessionInv, Typed, SessionAssumption
<1>3. /\ ui' \in Page(server) /\ ui'.key = ui.key /\ ui'.trade = ui.trade /\ ui'.bar = ui.bar
      /\ \/ ui'.rep = r /\ ui'.fresh = TRUE
         \/ ui'.rep = 0 /\ ui'.status = "error"
  <2>1. CASE ui' = [ui EXCEPT !.rep = r, !.fresh = TRUE, !.status = "ready"]
    <3>1. ui' \in Page(server)
      BY <1>2, <2>1 DEF Page
    <3>2. ui'.rep = r /\ ui'.fresh = TRUE
          /\ ui'.key = ui.key /\ ui'.trade = ui.trade /\ ui'.bar = ui.bar
      BY <1>2, <2>1 DEF Page
    <3>3. QED BY <3>1, <3>2
  <2>2. CASE ui' = [ui EXCEPT !.rep = 0, !.status = "error", !.err = TRUE]
    <3>0. 0 \in 0..server
      BY <1>2
    <3>1. ui' \in Page(server)
      BY <1>2, <2>2, <3>0 DEF Page
    <3>2. /\ ui'.rep = 0 /\ ui'.status = "error"
          /\ ui'.key = ui.key /\ ui'.trade = ui.trade /\ ui'.bar = ui.bar
      BY <1>2, <2>2 DEF Page
    <3>3. QED BY <3>1, <3>2
  <2>3. QED BY <1>1, <2>1, <2>2
<1>4. Typed'
  BY <1>1, <1>3 DEF SessionInv, Typed
<1>5. LoadsAreOfSelection'
  BY <1>1, <1>3 DEF SessionInv, LoadsAreOfSelection
<1>6. QED BY <1>1, <1>3, <1>4, <1>5, AnswerKeeps

\* What a list that is read gives the page to select.
LEMMA ListedIs ==
  ASSUME SessionInv, NEW n \in 0..server
  PROVE  /\ Listed(n) \in Page(server)
         /\ Listed(n).key = ui.key /\ Listed(n).trade = ui.trade /\ Listed(n).bar = ui.bar
         /\ Listed(n).fresh = ui.fresh
         /\ \/ Listed(n).rep = ui.rep /\ Listed(n).status = ui.status
            \/ Listed(n).rep = 0 /\ Listed(n).status = "error"
         /\ n # 0 => Listed(n).sel # 0 /\ Listed(n).status = ui.status
<1>1. server \in Nat /\ ui \in Page(server)
  BY SessionAssumption DEF SessionInv, Typed, SessionAssumption
<1>2. CASE n = 0
  <2>1. Listed(n) = [ui EXCEPT !.runs = 0, !.rep = 0, !.sel = 0, !.status = "error", !.err = TRUE]
    BY <1>2 DEF Listed
  <2>2. QED BY <1>1, <1>2, <2>1 DEF Page
<1>3. CASE n # 0
  <2> DEFINE r == IF ui.sel \in 1..n THEN ui.sel ELSE n
  <2>1. Listed(n) = [ui EXCEPT !.runs = n, !.sel = r]
    BY <1>3, Zenon DEF Listed, DefaultRun
  <2>2. r \in 1..n /\ r \in 0..server
    BY <1>1, <1>3
  <2> HIDE DEF r
  <2>3. /\ [ui EXCEPT !.runs = n, !.sel = r] \in Page(server)
        /\ \A f \in {"rep", "fresh", "status", "key", "trade", "bar"} :
             [ui EXCEPT !.runs = n, !.sel = r][f] = ui[f]
        /\ [ui EXCEPT !.runs = n, !.sel = r].sel = r
    BY <1>1, <2>2 DEF Page
  <2>4. QED BY <2>1, <2>2, <2>3
<1>4. QED BY <1>2, <1>3

LEMMA BootArrivesKeeps ==
  ASSUME SessionInv, BootArrives
  PROVE  SessionInv'
<1>1. PICK b \in boots :
        /\ boots' = boots \ {b}
        /\ UNCHANGED <<server, shown, pend, refs, loads, refreshes>>
        /\ \/ \E n \in b..server : ui' = Listed(n)
           \/ ui' = [ui EXCEPT !.status = "error", !.err = TRUE]
  BY DEF BootArrives
<1>2. server \in Nat /\ ui \in Page(server) /\ b \in 0..server
  BY <1>1, SessionAssumption DEF SessionInv, Typed, SessionAssumption
<1>3. /\ ui' \in Page(server) /\ ui'.key = ui.key /\ ui'.trade = ui.trade /\ ui'.bar = ui.bar
      /\ ui'.fresh = ui.fresh
      /\ \/ ui'.rep = ui.rep /\ ui'.status = ui.status
         \/ ui'.rep \in {0, ui.rep} /\ ui'.status = "error"
  <2>1. CASE \E n \in b..server : ui' = Listed(n)
    <3>1. PICK n \in b..server : ui' = Listed(n)
      BY <2>1
    <3>2. n \in 0..server
      BY <1>2
    <3>3. QED BY <3>1, <3>2, ListedIs
  <2>2. CASE ui' = [ui EXCEPT !.status = "error", !.err = TRUE]
    BY <1>2, <2>2 DEF Page
  <2>3. QED BY <1>1, <2>1, <2>2
<1>4. Typed'
  BY <1>1, <1>3 DEF SessionInv, Typed
<1>5. LoadsAreOfSelection'
  BY <1>1, <1>3 DEF SessionInv, LoadsAreOfSelection
<1>6. QED BY <1>1, <1>3, <1>4, <1>5, AnswerKeeps

LEMMA RefreshArrivesKeeps ==
  ASSUME SessionInv, RefreshArrives
  PROVE  SessionInv'
<1>1. PICK c \in refreshes :
        /\ refreshes' = refreshes \ {c}
        /\ UNCHANGED <<server, shown, pend, refs, loads, boots>>
        /\ \/ \E n \in c..server : ui' = [ui EXCEPT !.runs = n, !.sel = c]
           \/ UNCHANGED ui
  BY DEF RefreshArrives
<1>2. server \in Nat /\ ui \in Page(server) /\ c \in 1..server
  <2>1. c \in 1..server /\ server \in 0..MaxRuns /\ ui \in Page(server)
    BY <1>1 DEF SessionInv, Typed
  <2>2. QED BY <2>1, SessionAssumption DEF SessionAssumption
<1>3. /\ ui' \in Page(server) /\ ui'.key = ui.key /\ ui'.trade = ui.trade /\ ui'.bar = ui.bar
      /\ ui'.fresh = ui.fresh /\ ui'.rep = ui.rep /\ ui'.status = ui.status
  <2>1. CASE \E n \in c..server : ui' = [ui EXCEPT !.runs = n, !.sel = c]
    <3>1. PICK n \in c..server : ui' = [ui EXCEPT !.runs = n, !.sel = c]
      BY <2>1
    <3>2. n \in 0..server /\ c \in 0..server
      BY <1>2
    <3>3. QED BY <1>2, <3>1, <3>2 DEF Page
  <2>2. CASE UNCHANGED ui
    BY <1>2, <2>2
  <2>3. QED BY <1>1, <2>1, <2>2
<1>4. Typed'
  BY <1>1, <1>3 DEF SessionInv, Typed
<1>5. LoadsAreOfSelection'
  BY <1>1, <1>3 DEF SessionInv, LoadsAreOfSelection
<1>6. QED BY <1>1, <1>3, <1>4, <1>5, AnswerKeeps

LEMMA BacktestStoredKeeps ==
  ASSUME SessionInv, BacktestStored
  PROVE  SessionInv'
<1>1. /\ server < MaxRuns /\ server' = server + 1
      /\ refreshes' \in {refreshes, refreshes \union {server + 1}}
      /\ UNCHANGED <<ui, shown, pend, refs, loads, boots>>
  BY DEF BacktestStored
<1>2. server \in Nat /\ server' \in Nat /\ server <= server' /\ server' \in 0..MaxRuns
  BY <1>1, SessionAssumption DEF SessionInv, Typed, SessionAssumption
<1>3. Page(server) \subseteq Page(server') /\ 0..server \subseteq 0..server'
      /\ 1..server \subseteq 1..server' /\ server + 1 \in 1..server'
  BY <1>1, <1>2, PageGrows
<1>4. ui' \in Page(server') /\ shown' \in Page(server')
  BY <1>1, <1>3 DEF SessionInv, Typed
<1>5. refs' \in [key : Keys, prevKey : Keys, prevRun : 0..server']
  BY <1>1, <1>3 DEF SessionInv, Typed
<1>6. refreshes' \subseteq 1..server' /\ loads' \subseteq 1..server' /\ boots' \subseteq 0..server'
  BY <1>1, <1>3 DEF SessionInv, Typed
<1>7. Typed'
  BY <1>1, <1>2, <1>4, <1>5, <1>6 DEF SessionInv, Typed
<1>8. LoadsAreOfSelection'
  BY <1>1 DEF SessionInv, LoadsAreOfSelection
<1>9. QED BY <1>1, <1>7, <1>8, AnswerKeeps

\* A user event starts from a page at rest, all of whose effects have run.
LEMMA UserKeeps ==
  ASSUME SessionInv, NEW u \in Page(server), UserSets(u),
         refs' \in [key : Keys, prevKey : Keys, prevRun : 0..server],
         refs'.prevRun = refs.prevRun,
         u.rep = shown.rep, u.fresh = shown.fresh, u.status = shown.status,
         u.rep # 0 => u.key = shown.key \/ Named(u.rep, u.key) # 0,
         u.bar = shown.bar \/ u.bar = 0 \/ (shown.rep # 0 /\ u.bar = shown.rep)
  PROVE  SessionInv'
<1>1. /\ ui = shown /\ pend = {} /\ ui' = u
      /\ UNCHANGED <<server, shown, pend, loads, boots, refreshes>>
  BY DEF UserSets, Rest
<1>2. Typed'
  BY <1>1 DEF SessionInv, Typed
<1>3. LoadsAreOfSelection'
  BY <1>1 DEF SessionInv, LoadsAreOfSelection
<1>4. KeyIsNamed(ui, shown, pend)'
  BY <1>1 DEF SessionInv, KeyIsNamed
<1>5. TradeIsReplaced(ui, shown)'
  BY <1>1 DEF SessionInv, TradeIsReplaced, TradeIsIn, Trades
<1>6. BarIsOfRun(ui, shown, pend, refs.prevRun)'
  BY <1>1 DEF SessionInv, BarIsOfRun
<1>7. QED BY <1>2, <1>3, <1>4, <1>5, <1>6 DEF SessionInv

LEMMA SelectRunKeeps ==
  ASSUME SessionInv, NEW r \in 1..MaxRuns, SelectRun(r)
  PROVE  SessionInv'
<1> DEFINE u == [ui EXCEPT !.sel = r]
<1>1. r \in 1..shown.runs /\ UserSets(u) /\ UNCHANGED refs /\ ui = shown
  BY DEF SelectRun, UserSets, Rest
<1>2. server \in Nat /\ ui \in Page(server)
      /\ refs \in [key : Keys, prevKey : Keys, prevRun : 0..server]
  BY SessionAssumption DEF SessionInv, Typed, SessionAssumption
<1>3. ui.runs \in 0..server
  BY <1>2 DEF Page
<1>4. r \in 0..server
  BY <1>1, <1>2, <1>3
<1>5. u \in Page(server) /\ \A f \in {"rep", "fresh", "status", "key", "bar"} : u[f] = ui[f]
  BY <1>2, <1>4 DEF Page
<1> HIDE DEF u
<1>6. QED BY <1>1, <1>2, <1>5, UserKeeps

LEMMA RetryKeeps ==
  ASSUME SessionInv, Retry
  PROVE  SessionInv'
<1> DEFINE u == [ui EXCEPT !.tok = ~ @]
<1>1. UserSets(u) /\ UNCHANGED refs /\ ui = shown
  BY DEF Retry, UserSets, Rest
<1>2. ui \in Page(server) /\ refs \in [key : Keys, prevKey : Keys, prevRun : 0..server]
  BY DEF SessionInv, Typed
<1>3. u \in Page(server) /\ \A f \in {"rep", "fresh", "status", "key", "bar"} : u[f] = ui[f]
  BY <1>2 DEF Page
<1> HIDE DEF u
<1>4. QED BY <1>1, <1>2, <1>3, UserKeeps

LEMMA SelectVariantKeeps ==
  ASSUME SessionInv, ContextBarShown, NEW v \in DOMAIN Reports[shown.rep], SelectVariant(v)
  PROVE  SessionInv'
<1> DEFINE key == Reports[shown.rep][v].variant
           focused == [ui EXCEPT !.key = key]
           u == Focused(focused, shown.rep, key)
<1>1. refs' = [refs EXCEPT !.key = key] /\ UserSets(u) /\ ui = shown
  BY DEF SelectVariant, UserSets, Rest
<1>2. server \in 0..MaxRuns /\ ui \in Page(server)
      /\ refs \in [key : Keys, prevKey : Keys, prevRun : 0..server]
  BY DEF SessionInv, Typed
<1>3. shown.rep \in 1..server /\ shown.rep \in 1..MaxRuns
  <2>1. shown.rep \in 0..server /\ shown.rep # 0
    BY <1>1, <1>2 DEF Page, ContextBarShown
  <2>2. QED BY <1>2, <2>1, SessionAssumption DEF SessionAssumption
<1>4. key \in Keys /\ Named(shown.rep, key) # 0
  <2>1. Reports[shown.rep] \in Seq(Variant)
    BY <1>3, SessionAssumption DEF SessionAssumption
  <2>2. v \in 1..Len(Reports[shown.rep]) /\ Reports[shown.rep][v] \in Variant
    BY <2>1
  <2>3. key \in STRING
    BY <2>2 DEF Variant
  <2>4. STRING \subseteq Keys
    BY Zenon DEF Keys
  <2>5. QED BY <1>3, <2>2, <2>3, <2>4, NamedMeans
<1> HIDE DEF key
<1>5. focused \in Page(server) /\ focused.key = key
      /\ \A f \in {"rep", "fresh", "status"} : focused[f] = ui[f]
  BY <1>2, <1>4 DEF Page
<1> HIDE DEF focused
<1>f. PICK run \in 1..server, k \in Keys : run = shown.rep /\ k = key
  BY <1>3, <1>4
<1>g. /\ Focused(focused, run, k) \in Page(server) /\ Focused(focused, run, k).bar \in {0, run}
      /\ \A f \in {"runs", "sel", "rep", "fresh", "status", "err", "key", "tok"} :
           Focused(focused, run, k)[f] = focused[f]
  <2>1. \A n \in 0..MaxRuns : \A s \in Page(n) : \A x \in 1..n :
          /\ Focused(s, x, k) \in Page(n) /\ Focused(s, x, k).bar \in {0, x}
          /\ \A f \in {"runs", "sel", "rep", "fresh", "status", "err", "key", "tok"} :
               Focused(s, x, k)[f] = s[f]
    BY FocusedIs
  <2>2. QED BY <1>2, <1>5, <1>f, <2>1, Zenon
<1>6. /\ u \in Page(server) /\ u.bar \in {0, shown.rep}
      /\ \A f \in {"runs", "sel", "rep", "fresh", "status", "err", "key", "tok"} : u[f] = focused[f]
  BY <1>f, <1>g, Zenon
<1> HIDE DEF u
<1>7. refs' \in [key : Keys, prevKey : Keys, prevRun : 0..server] /\ refs'.prevRun = refs.prevRun
  BY <1>1, <1>2, <1>4
<1>8. u.rep = shown.rep /\ u.fresh = shown.fresh /\ u.status = shown.status /\ u.key = key
  BY <1>1, <1>5, <1>6
<1>9. u.bar = 0 \/ (shown.rep # 0 /\ u.bar = shown.rep)
  BY <1>3, <1>6
<1>10. QED BY <1>1, <1>4, <1>6, <1>7, <1>8, <1>9, UserKeeps

LEMMA SelectTradeKeeps ==
  ASSUME SessionInv, GateOpen, NEW id \in Nat, SelectTrade(id)
  PROVE  SessionInv'
<1> DEFINE u == [ui EXCEPT !.trade = id,
                           !.bar = IF InVariant(Trades(shown), id) THEN shown.rep ELSE @]
<1>1. UserSets(u) /\ UNCHANGED refs /\ ui = shown
  BY DEF SelectTrade, UserSets, Rest
<1>2. ui \in Page(server) /\ refs \in [key : Keys, prevKey : Keys, prevRun : 0..server]
  BY DEF SessionInv, Typed
<1>3. u \in Page(server) /\ \A f \in {"rep", "fresh", "status", "key"} : u[f] = ui[f]
      /\ u.bar \in {ui.bar, shown.rep}
  BY <1>1, <1>2 DEF Page
<1> HIDE DEF u
<1>4. shown.rep # 0
  BY DEF GateOpen
<1>5. QED BY <1>1, <1>2, <1>3, <1>4, UserKeeps

LEMMA SelectBarKeeps ==
  ASSUME SessionInv, GateOpen, NEW b \in {0, shown.rep}, SelectBar(b)
  PROVE  SessionInv'
<1> DEFINE u == [ui EXCEPT !.bar = b]
<1>1. UserSets(u) /\ UNCHANGED refs /\ ui = shown
  BY DEF SelectBar, UserSets, Rest
<1>2. server \in Nat /\ ui \in Page(server)
      /\ refs \in [key : Keys, prevKey : Keys, prevRun : 0..server]
  BY SessionAssumption DEF SessionInv, Typed, SessionAssumption
<1>3. b \in 0..server
  BY <1>1, <1>2 DEF Page
<1>4. u \in Page(server) /\ \A f \in {"rep", "fresh", "status", "key"} : u[f] = ui[f]
      /\ u.bar = b
  BY <1>2, <1>3 DEF Page
<1> HIDE DEF u
<1>5. shown.rep # 0
  BY DEF GateOpen
<1>6. QED BY <1>1, <1>2, <1>4, <1>5, UserKeeps

LEMMA PickTradeKeeps ==
  ASSUME SessionInv, PickTrade
  PROVE  SessionInv'
<1> DEFINE trades == Trades(shown)
<1>1. GateOpen
  BY DEF PickTrade
<1>2. trades \in Seq(Trade)
  <2>1. shown.rep \in 1..MaxRuns
    <3>1. shown.rep \in 0..server /\ server \in 0..MaxRuns /\ shown.rep # 0
      BY <1>1 DEF SessionInv, Typed, Page, GateOpen
    <3>2. QED BY <3>1, SessionAssumption DEF SessionAssumption
  <2>2. QED BY <2>1, VariantOfIsVariant DEF Trades
<1>3. \A i \in DOMAIN trades : trades[i].id \in Nat
  <2>1. \A i \in DOMAIN trades : trades[i] \in Trade
    BY <1>2
  <2>2. QED BY <2>1 DEF Trade
<1> HIDE DEF trades
<1>4. CASE ClickTrade
  BY <1>1, <1>3, <1>4, SelectTradeKeeps DEF ClickTrade, trades
<1>5. CASE ClearTrade
  <2>1. NoTrade \in Nat
    BY DEF NoTrade
  <2>2. QED BY <1>1, <1>5, <2>1, SelectTradeKeeps DEF ClearTrade
<1>6. CASE StepTrade
  <2>1. PICK step \in {1, -1} :
          Adjacent(trades, shown.trade, step) # NoTrade
            /\ SelectTrade(Adjacent(trades, shown.trade, step))
    BY <1>6 DEF StepTrade, trades
  <2>2. Adjacent(trades, shown.trade, step) \in Nat
    BY <1>3, <2>1 DEF Adjacent
  <2>3. QED BY <1>1, <2>1, <2>2, SelectTradeKeeps
<1>7. CASE TypeNumber
  <2>1. PICK n \in 1..(Len(trades) + 1) : SelectTrade(ByNumber(trades, n))
    BY <1>7 DEF TypeNumber, trades
  <2>2. ByNumber(trades, n) \in Nat
    BY <1>2, <1>3, <2>1 DEF ByNumber
  <2>3. QED BY <1>1, <2>1, <2>2, SelectTradeKeeps
<1>8. CASE SelectBar(0) \/ SelectBar(shown.rep)
  BY <1>1, <1>8, SelectBarKeeps
<1>9. QED BY <1>4, <1>5, <1>6, <1>7, <1>8 DEF PickTrade

LEMMA StepKeeps == SessionInv /\ [Next]_vars => SessionInv'
<1> SUFFICES ASSUME SessionInv, [Next]_vars PROVE SessionInv'
  OBVIOUS
<1>1. CASE UNCHANGED vars
  <2>1. UNCHANGED <<server, ui, shown, pend, refs, loads, boots, refreshes>>
    BY <1>1 DEF vars
  <2>2. QED
    BY <2>1 DEF SessionInv, Typed, LoadsAreOfSelection, KeyIsNamed, TradeIsReplaced, TradeIsIn,
                Trades, BarIsOfRun
<1>2. CASE Next
  BY <1>2, RenderKeeps, RunEffectsKeeps, BootArrivesKeeps, RefreshArrivesKeeps, BacktestStoredKeeps,
     RetryKeeps, ReportArrivesKeeps, SelectRunKeeps, SelectVariantKeeps, PickTradeKeeps DEF Next
<1>3. QED BY <1>1, <1>2

(***************************************************************************)
(* The theorems.                                                            *)
(***************************************************************************)

LEMMA SpecKeepsSessionInv == Spec => []SessionInv
BY InitEstablishes, StepKeeps, PTL DEF Spec

(* The variant, the trade and the bar selected belong to the report that is *)
(* shown, for every list of runs and every order of commits, effects,       *)
(* answers and user events, and the session's state keeps its types.        *)
THEOREM SelectionAlwaysOfReport == Spec => []SelectionIsOfReport
<1>1. SessionInv => TypeOK
  <2> SUFFICES ASSUME SessionInv PROVE TypeOK
    OBVIOUS
  <2>1. ui.runs \in 0..server /\ ui.sel \in 0..server /\ ui.rep \in 0..server
        /\ ui.bar \in 0..server /\ ui.status \in {"loading", "ready", "error"}
        /\ ui.fresh \in BOOLEAN /\ ui.err \in BOOLEAN /\ ui.tok \in BOOLEAN
    BY DEF SessionInv, Typed, Page
  <2>2. QED BY <2>1 DEF SessionInv, Typed, TypeOK
<1>2. SessionInv => SelectionIsOfReport
  <2> SUFFICES ASSUME SessionInv, Rest, ui.rep # 0
               PROVE  /\ Named(ui.rep, ui.key) # 0
                      /\ ui.trade # NoTrade => InVariant(Trades(ui), ui.trade)
                      /\ ui.bar \in {0, ui.rep}
    BY <1>1 DEF SelectionIsOfReport
  <2>1. ui = shown /\ pend = {}
    BY DEF Rest
  <2>2. TradeIsIn(ui)
    BY <2>1 DEF SessionInv, TradeIsReplaced
  <2>3. ui.bar \in {0, ui.rep}
    BY <2>1 DEF SessionInv, BarIsOfRun
  <2>4. Named(ui.rep, ui.key) # 0
    BY <2>1 DEF SessionInv, Typed, KeyIsNamed
  <2>5. QED BY <2>2, <2>3, <2>4 DEF TradeIsIn
<1>3. QED BY <1>2, SpecKeepsSessionInv, PTL

LEMMA StepKeepsSelection == SessionInv /\ SelectionStays /\ [Next]_vars => SelectionStays'
<1> SUFFICES ASSUME SessionInv, SelectionStays, [Next]_vars PROVE SelectionStays'
  OBVIOUS
<1> USE DEF SelectionStays
<1>1. /\ server \in 0..MaxRuns /\ server \in Nat /\ ui \in Page(server) /\ shown \in Page(server)
      /\ refs.key \in Keys /\ boots \subseteq 0..server /\ refreshes \subseteq 1..server
  BY SessionAssumption DEF SessionInv, Typed, SessionAssumption
<1>2. CASE UNCHANGED vars
  BY <1>2 DEF vars
<1>3. CASE Render
  <2> DEFINE new == [ui EXCEPT !.fresh = FALSE]
  <2>1. shown' = new /\ ui' = MembershipEffect(new) /\ UNCHANGED <<server, loads, boots>>
    BY <1>3 DEF Render
  <2>2. new \in Page(server) /\ new.sel = ui.sel /\ new.status = ui.status
    BY <1>1 DEF Page
  <2> HIDE DEF new
  <2>3. ui'.sel = new.sel /\ ui'.status = new.status
    BY <1>1, <2>1, <2>2, MembershipEffectIs
  <2>4. QED BY <2>1, <2>2, <2>3
<1>4. CASE RunEffects
  <2> DEFINE u1 == LoadEffect(ui, shown)
             u2 == VariantEffect(u1, shown)
  <2>1. /\ ui' = TradeEffect(u2, shown) /\ loads' = LoadCalls(shown) /\ boots' = BootCalls
        /\ UNCHANGED <<server, shown>>
    BY <1>4 DEF RunEffects
  <2>2. /\ u1 \in Page(server) /\ u1.sel = ui.sel
        /\ u1.status = IF "load" \in pend /\ shown.sel # 0 THEN "loading" ELSE ui.status
    BY <1>1, LoadEffectIs
  <2> HIDE DEF u1
  <2>3. u2 \in Page(server) /\ u2.sel = u1.sel /\ u2.status = u1.status
    BY <1>1, <2>2, VariantEffectIs
  <2> HIDE DEF u2
  <2>4. ui'.sel = u2.sel /\ ui'.status = u2.status
    BY <1>1, <2>1, <2>3, TradeEffectIs
  <2>5. shown.sel = 0 => loads' = {}
    BY <2>1 DEF LoadCalls, Cancelled
  <2>6. 0 \notin boots'
    BY <1>1, <2>1 DEF BootCalls, Cancelled
  <2>7. QED BY <2>1, <2>2, <2>3, <2>4, <2>5, <2>6
<1>5. ASSUME NEW r \in 1..MaxRuns, ReportArrives(r) PROVE SelectionStays'
  <2>1. /\ r \in loads /\ UNCHANGED <<server, shown, boots>>
        /\ \/ ui' = [ui EXCEPT !.rep = r, !.fresh = TRUE, !.status = "ready"]
           \/ ui' = [ui EXCEPT !.rep = 0, !.status = "error", !.err = TRUE]
    BY <1>5 DEF ReportArrives
  <2>2. ui'.sel = ui.sel
    BY <1>1, <2>1 DEF Page
  <2>3. shown.sel # 0
    BY <2>1
  <2>4. QED BY <2>1, <2>2, <2>3
<1>6. CASE BootArrives
  <2>1. PICK b \in boots :
          /\ boots' = boots \ {b} /\ UNCHANGED <<server, shown, loads>>
          /\ \/ \E n \in b..server : ui' = Listed(n)
             \/ ui' = [ui EXCEPT !.status = "error", !.err = TRUE]
    BY <1>6 DEF BootArrives
  <2>2. b \in 1..server
    BY <1>1, <2>1
  <2>3. CASE \E n \in b..server : ui' = Listed(n)
    <3>1. PICK n \in b..server : ui' = Listed(n)
      BY <2>3
    <3>2. n \in 0..server /\ n # 0
      BY <1>1, <2>2
    <3>3. ui'.sel # 0 /\ ui'.status = ui.status
      BY <3>1, <3>2, ListedIs
    <3>4. QED BY <2>1, <3>3
  <2>4. CASE ui' = [ui EXCEPT !.status = "error", !.err = TRUE]
    <3>1. ui'.sel = ui.sel /\ ui'.status = "error"
      BY <1>1, <2>4 DEF Page
    <3>2. QED BY <2>1, <3>1
  <2>5. QED BY <2>1, <2>3, <2>4
<1>7. CASE RefreshArrives
  <2>1. PICK c \in refreshes :
          /\ UNCHANGED <<server, shown, loads, boots>>
          /\ \/ \E n \in c..server : ui' = [ui EXCEPT !.runs = n, !.sel = c]
             \/ UNCHANGED ui
    BY <1>7 DEF RefreshArrives
  <2>2. c # 0
    <3>1. 0 \notin refreshes
      BY <1>1
    <3>2. QED BY <2>1, <3>1, Zenon
  <2>3. ui'.status = ui.status /\ (ui'.sel = c \/ ui'.sel = ui.sel)
    <3>1. (\E n : ui' = [ui EXCEPT !.runs = n, !.sel = c]) \/ UNCHANGED ui
      BY <2>1
    <3>2. \A n : /\ [ui EXCEPT !.runs = n, !.sel = c].status = ui.status
                 /\ [ui EXCEPT !.runs = n, !.sel = c].sel = c
      BY <1>1 DEF Page
    <3>3. QED BY <3>1, <3>2
  <2>4. QED BY <2>1, <2>2, <2>3
<1>8. CASE BacktestStored
  BY <1>1, <1>8 DEF BacktestStored
<1>9. ASSUME NEW u \in Page(server), UserSets(u), u.sel = shown.sel \/ u.sel # 0, u.status = shown.status
      PROVE  SelectionStays'
  BY <1>9 DEF UserSets, Rest
<1>10. ASSUME NEW r \in 1..MaxRuns, SelectRun(r) PROVE SelectionStays'
  <2> DEFINE u == [ui EXCEPT !.sel = r]
  <2>1. r \in 1..shown.runs /\ UserSets(u) /\ ui = shown
    BY <1>10 DEF SelectRun, UserSets, Rest
  <2>2. shown.runs \in 0..server
    BY <1>1 DEF Page
  <2>3. r \in 0..server /\ r # 0
    BY <1>1, <2>1, <2>2
  <2>4. u \in Page(server) /\ u.sel = r /\ u.status = ui.status
    BY <1>1, <2>3 DEF Page
  <2> HIDE DEF u
  <2>5. QED BY <1>9, <2>1, <2>3, <2>4
<1>11. CASE Retry
  <2> DEFINE u == [ui EXCEPT !.tok = ~ @]
  <2>1. UserSets(u) /\ ui = shown
    BY <1>11 DEF Retry, UserSets, Rest
  <2>2. u \in Page(server) /\ u.sel = ui.sel /\ u.status = ui.status
    BY <1>1 DEF Page
  <2> HIDE DEF u
  <2>3. QED BY <1>9, <2>1, <2>2
<1>12. CASE \/ ContextBarShown /\ \E v \in DOMAIN Reports[shown.rep] : SelectVariant(v)
            \/ PickTrade
  <2>1. shown.rep # 0
    BY <1>12 DEF ContextBarShown, PickTrade, GateOpen
  <2>2. loads' = loads /\ boots' = boots /\ UNCHANGED <<server, shown>> /\ shown = ui
    BY <1>12 DEF SelectVariant, PickTrade, ClickTrade, ClearTrade, StepTrade, TypeNumber,
                 SelectTrade, SelectBar, UserSets, Rest
  <2>3. ui'.sel = ui.sel /\ ui'.status = ui.status
    <3>1. CASE \E v \in DOMAIN Reports[shown.rep] : SelectVariant(v)
      <4>1. PICK v \in DOMAIN Reports[shown.rep] : SelectVariant(v)
        BY <3>1
      <4>2. PICK key, id, bar : ui' = [[ui EXCEPT !.key = key] EXCEPT !.trade = id, !.bar = bar]
        BY <4>1 DEF SelectVariant, UserSets, Focused
      <4>3. QED BY <1>1, <4>2 DEF Page
    <3>2. CASE PickTrade
      <4>1. (\E id : SelectTrade(id)) \/ \E b : SelectBar(b)
        BY <3>2 DEF PickTrade, ClickTrade, ClearTrade, StepTrade, TypeNumber
      <4>2. CASE \E id : SelectTrade(id)
        <5>1. PICK id, bar : ui' = [ui EXCEPT !.trade = id, !.bar = bar]
          BY <4>2 DEF SelectTrade, UserSets
        <5>2. QED BY <1>1, <5>1 DEF Page
      <4>3. CASE \E b : SelectBar(b)
        <5>1. PICK b : ui' = [ui EXCEPT !.bar = b]
          BY <4>3 DEF SelectBar, UserSets
        <5>2. QED BY <1>1, <5>1 DEF Page
      <4>4. QED BY <4>1, <4>2, <4>3
    <3>3. QED BY <1>12, <3>1, <3>2
  <2>4. QED BY <2>2, <2>3
<1>13. QED
  BY <1>2, <1>3, <1>4, <1>5, <1>6, <1>7, <1>8, <1>10, <1>11, <1>12 DEF Next

\* Once React has settled, a report shown as ready is never that of another run
\* than the one selected.
NoOtherReport == Rest /\ ui.status = "ready" /\ ui.sel # 0 => ui.rep = ui.sel

(* Whatever is stored when the page is opened, a ready report is never that *)
(* of a run other than the one selected.                                    *)
THEOREM NeverAnotherReport == Spec => []NoOtherReport
<1>1. SessionInv => NoOtherReport
  BY DEF SessionInv, LoadsAreOfSelection, NoOtherReport, Rest
<1>2. QED BY <1>1, SpecKeepsSessionInv, PTL

(* With a run stored when the page is opened, a ready report is that of the *)
(* run selected.  Without one, the answer of a report call that overtakes   *)
(* the commit of the empty list leaves a report and no selection.           *)
THEOREM ReportAlwaysSelected ==
  ASSUME Stored > 0
  PROVE  Spec => []ReportIsSelected
<1>1. Init => SelectionStays
  <2> SUFFICES ASSUME Init PROVE SelectionStays
    OBVIOUS
  <2>1. server = Stored /\ shown = ui /\ loads = {} /\ boots = {} /\ ui.status = "loading"
    BY Zenon DEF Init
  <2>2. QED BY <2>1 DEF SelectionStays
<1>2. SessionInv /\ SelectionStays => ReportIsSelected
  BY DEF SessionInv, SelectionStays, LoadsAreOfSelection, ReportIsSelected, Rest
<1>3. QED BY <1>1, <1>2, StepKeepsSelection, SpecKeepsSessionInv, PTL DEF Spec

(***************************************************************************)
(* AuxOverlays: the inductive invariant.  Its parts talk about a line, an    *)
(* owner or a page as a value, so that they say the same of the state and    *)
(* of what an effect or a render has made of it halfway.                     *)
(***************************************************************************)

\* The shapes of the values.
LineOk(l) == l = None \/ l \in Lines
LinesOk(p) == LineOk(p.htf) /\ LineOk(p.exit)
DenseOk(d) == d # None => d.bars \subseteq Bars /\ d.key \in LineKeys
SliceTyped(sl) == sl.bars \subseteq Bars /\ (sl.bars # {} => sl.of \in LineKeys)
PageTyped(u) ==
  /\ u = [variant |-> u.variant, ref |-> u.ref, window |-> u.window, market |-> u.market,
          status |-> u.status, dense |-> u.dense, loaded |-> u.loaded, slice |-> u.slice,
          bumps |-> u.bumps]
  /\ u.variant \in Variants /\ u.ref \in Refs /\ u.window \in Windows
  /\ u.market \in {"loading", "ready"} /\ u.status \in {"idle", "ready", "error"}
  /\ DenseOk(u.dense) /\ SliceTyped(u.slice)
OwnerTyped(o) ==
  /\ o = [specs |-> o.specs, htf |-> o.htf, exit |-> o.exit, frozen |-> o.frozen]
  /\ LinesOk(o) /\ LineOk(o.frozen)
  /\ o.specs.htf => o.specs.key \in LineKeys
LanesTyped(l) == l.status \in {"idle", "ready", "error"} /\ DenseOk(l.dense)
CacheTyped(c) ==
  /\ c = [key |-> c.key, bars |-> c.bars] /\ c.bars \subseteq Bars
  /\ c.bars # {} => c.key \in LineKeys
CycleTyped(y, c) == y = None \/ (y \in LineCycles /\ c.key \in LineKeys)

AuxTyped ==
  /\ PageTyped(page) /\ PageTyped(commit.s) /\ commit.s.bumps = {}
  /\ OwnerTyped(owner) /\ LanesTyped(lanes) /\ CacheTyped(cache) /\ CycleTyped(cycle, cache)
  /\ LinesOk(slices.given) /\ LinesOk(slices.kept) /\ LinesOk(commit.drawn)
  /\ fetches \subseteq Variants

\* A change of the key runs the effects of the specs, of the exit lines and of
\* the load with the reset; a change of the market runs the last two.
DueTogether(d) ==
  /\ "reset" \in d <=> "specs" \in d
  /\ "reset" \in d => "bff" \in d
  /\ "bff" \in d => "load" \in d

\* Lines that are those of s: by the label, and only where s asks for them.
HtfOf(l, s) == l # None => l.label = Key(s) /\ SpecsOf(s).htf
ExitOf(l, s) == l # None => l.label[1] = s.variant
LinesOf(p, s) == HtfOf(p.htf, s) /\ ExitOf(p.exit, s)
OwnedBy(o, s) == o.specs = SpecsOf(s) /\ LinesOf(o, s) /\ HtfOf(o.frozen, s)

\* After a reset and until the next render the list, the kept slice and the
\* chart may still have the lines before, but the controller has none and
\* React has been told.
Bare(o, u) ==
  /\ o.htf = None /\ o.exit = None /\ o.frozen = None
  /\ "rev" \in u.bumps /\ u.slice.bars = {}
Emptied == due = {} /\ Bare(owner, page)

Labelled ==
  "reset" \notin due =>
    /\ OwnedBy(owner, commit.s) /\ cache.key = Key(commit.s)
    /\ fetches \subseteq {commit.s.variant}
    /\ \/ Emptied
       \/ /\ LinesOf(slices.given, commit.s) /\ LinesOf(slices.kept, commit.s)
          /\ LinesOf(commit.drawn, commit.s)

\* Exit lines come whole, and are cut to the window.
Whole(l, bars) == l # None => l.bars = bars
ExitWhole ==
  /\ Whole(owner.exit, Bars) /\ Whole(slices.given.exit, Bars)
  /\ Whole(slices.kept.exit, commit.s.window) /\ Whole(commit.drawn.exit, commit.s.window)

\* The kept slice lies in the window and has the fingerprint it is kept for,
\* or nothing has been rendered since the component was mounted.
KeptCut ==
  /\ slices.kept.htf # None => slices.kept.htf.bars \subseteq commit.s.window
  /\ \/ slices.print = Fingerprint(slices.kept, commit.s.window)
     \/ slices.kept.htf = None /\ slices.kept.exit = None /\ ("reset" \in due \/ Emptied)

\* In the window its trace was loaded for, the kept slice is what is drawn.
KeptDrawn ==
  Matches(commit.s) /\ slices.kept.htf # None /\ slices.kept.htf.bars # {} =>
    commit.drawn.htf = Cut(slices.kept.htf, commit.s.window)

\* A cycle no effect is about to replace is for the commit.
CycleFor(y, s) == y.key = Key(s) /\ y.window = s.window
CycleHere == cycle # None /\ "load" \notin due => CycleFor(cycle, commit.s)

\* Where the load is over, the controller has the lines that the cache has for
\* the window, and the list has them or is about to be read again.
OwnerCaught(o, c, u, s) ==
  SpecsOf(s).htf /\ Touches(c, s.window) =>
    /\ u.slice = SliceFor(c, s.window)
    /\ o.htf = Line(Key(s), c.key, c.bars \cap s.window)
ListCaught ==
  "rev" \notin page.bumps /\ SpecsOf(commit.s).htf /\ Touches(cache, commit.s.window) =>
    slices.given.htf = owner.htf /\ Count(slices.kept.htf) = Count(owner.htf)
Caught ==
  cycle = None /\ "load" \notin due /\ commit.s.market = "ready" =>
    /\ page.loaded = WindowKey(commit.s)
    /\ OwnerCaught(owner, cache, page, commit.s) /\ ListCaught

AuxInv ==
  /\ AuxTyped /\ DueTogether(due) /\ Labelled /\ ExitWhole
  /\ KeptCut /\ KeptDrawn /\ CycleHere /\ Caught

(***************************************************************************)
(* Lemmas about contexts, lines and slices.                                 *)
(***************************************************************************)

\* The default context of a variant is one of the refs.
LEMMA DefaultRefIsARef ==
  ASSUME NEW v \in Variants
  PROVE  DefaultRef(v) \in Refs
<1>1. Consumed[v] \in Refs /\ Contexts[v] \subseteq Refs /\ None \in Refs
  <2>1. Consumed[v] \in Contexts[v] \cup {None}
    BY AuxAssumption
  <2>2. Contexts[v] \subseteq Refs /\ None \in Refs
    <3>1. Contexts[v] \in {Contexts[w] : w \in Variants}
      OBVIOUS
    <3>2. Contexts[v] \subseteq UNION {Contexts[w] : w \in Variants}
      BY <3>1
    <3>3. Refs = {None} \cup UNION {Contexts[w] : w \in Variants}
      BY DEF Refs
    <3>4. QED BY <3>2, <3>3
  <2>3. QED BY <2>1, <2>2
<1>2. Cardinality(Contexts[v]) = 1 => Contexts[v] # {}
  BY FS_EmptySet
<1>3. Contexts[v] # {} => (CHOOSE r \in Contexts[v] : TRUE) \in Contexts[v]
  OBVIOUS
<1>4. QED BY <1>1, <1>2, <1>3 DEF DefaultRef

\* What a key says: the variant, and a context where the specs have HTF lines.
LEMMA KeySays ==
  ASSUME NEW s, PageTyped(s)
  PROVE  /\ Key(s) \in LineKeys /\ Key(s)[1] = s.variant
         /\ SpecsOf(s).key = Key(s)
         /\ SpecsOf(s).htf => Key(s)[2] # None
<1>1. s.variant \in Variants /\ s.ref \in Refs
  BY DEF PageTyped
<1>2. Effective(s) \in Refs
  BY <1>1, DefaultRefIsARef DEF Effective
<1>3. Key(s) \in LineKeys /\ Key(s)[1] = s.variant /\ Key(s)[2] = Effective(s)
  BY <1>1, <1>2 DEF Key, LineKeys
<1>4. SpecsOf(s).key = Key(s) /\ (SpecsOf(s).htf <=> Effective(s) \in Contexts[s.variant])
  BY DEF SpecsOf
<1>5. None \notin Contexts[s.variant]
  BY <1>1, AuxAssumption
<1>6. QED BY <1>3, <1>4, <1>5

\* Commits with the same key have the same variant and the same specs.
LEMMA SameKeySameSpecs ==
  ASSUME NEW s, NEW t, Key(s) = Key(t)
  PROVE  s.variant = t.variant /\ SpecsOf(s) = SpecsOf(t)
<1>1. s.variant = t.variant /\ Effective(s) = Effective(t)
  BY DEF Key
<1>2. QED BY <1>1 DEF SpecsOf, Key

\* The key depends on the variant and the ref alone.
LEMMA KeyDependsOn ==
  ASSUME NEW s, NEW t, s.variant = t.variant, s.ref = t.ref
  PROVE  Key(s) = Key(t)
  BY DEF Key, Effective

\* A line is a record of three fields, and is not None.
LEMMA LineIsALine ==
  ASSUME NEW label \in LineKeys, NEW data \in LineKeys, NEW bars \in SUBSET Bars
  PROVE  /\ Line(label, data, bars) \in Lines /\ Line(label, data, bars) # None
         /\ Line(label, data, bars).label = label /\ Line(label, data, bars).bars = bars
<1>1. Line(label, data, bars) \in Lines
  BY DEF Line, Lines
<1>2. QED BY <1>1, AuxAssumption DEF Line

HtfMade(line, specs, data, bars) ==
  IF specs.htf /\ data[2] # None /\ bars # {}
  THEN line = Line(specs.key, data, bars) /\ line # None /\ line.label = specs.key
  ELSE line = None
\* auxOverlayFromHtfSlice returns nothing, or a line with the label of the specs.
LEMMA HtfLineMade ==
  ASSUME NEW specs, NEW data, NEW bars \in SUBSET Bars,
         specs.htf => specs.key \in LineKeys, bars # {} => data \in LineKeys
  PROVE  LineOk(HtfLine(specs, data, bars)) /\ HtfMade(HtfLine(specs, data, bars), specs, data, bars)
<1>1. CASE specs.htf /\ data[2] # None /\ bars # {}
  <2>1. HtfLine(specs, data, bars) = Line(specs.key, data, bars)
    BY <1>1 DEF HtfLine
  <2>2. Line(specs.key, data, bars) \in Lines /\ Line(specs.key, data, bars) # None
        /\ Line(specs.key, data, bars).label = specs.key
    BY <1>1, LineIsALine
  <2>3. QED BY <1>1, <2>1, <2>2 DEF LineOk, HtfMade
<1>2. CASE ~ (specs.htf /\ data[2] # None /\ bars # {})
  BY <1>2 DEF HtfLine, LineOk, HtfMade
<1>3. QED BY <1>1, <1>2

\* A cut keeps the label of a line and some of its bars.
LEMMA CutKeeps ==
  ASSUME NEW l, LineOk(l), NEW window \in SUBSET Bars
  PROVE  /\ LineOk(Cut(l, window)) /\ (Cut(l, window) = None <=> l = None)
         /\ l # None => /\ Cut(l, window).label = l.label
                        /\ Cut(l, window).bars = l.bars \cap window
                        /\ l.bars \subseteq window => Cut(l, window) = l
                        /\ l.bars \subseteq Bars
<1>1. CASE l = None
  BY <1>1 DEF Cut, LineOk
<1>2. CASE l \in Lines
  <2>1. Cut(l, window) = [l EXCEPT !.bars = l.bars \cap window] /\ l # None
    BY <1>2, AuxAssumption DEF Cut
  <2>2. [l EXCEPT !.bars = l.bars \cap window] \in Lines
    BY <1>2 DEF Lines
  <2>3. Cut(l, window) \in Lines /\ Cut(l, window) # None
    BY <2>1, <2>2, AuxAssumption
  <2>4. Cut(l, window).label = l.label /\ Cut(l, window).bars = l.bars \cap window
    BY <1>2, <2>1 DEF Lines
  <2>5. l.bars \subseteq window => Cut(l, window) = l
    BY <1>2, <2>1 DEF Lines
  <2>6. l.bars \subseteq Bars
    BY <1>2 DEF Lines
  <2>7. QED BY <2>1, <2>3, <2>4, <2>5, <2>6 DEF LineOk
<1>3. QED BY <1>1, <1>2 DEF LineOk

\* What the display cache has for a window.
LEMMA SliceForSays ==
  ASSUME NEW c, CacheTyped(c), NEW window
  PROVE  /\ SliceTyped(SliceFor(c, window))
         /\ SliceFor(c, window).bars = c.bars \cap window
         /\ Touches(c, window) => /\ SliceFor(c, window).of = c.key
                                  /\ SliceFor(c, window).bars # {}
<1>1. c.bars \subseteq Bars /\ (c.bars # {} => c.key \in LineKeys)
  BY DEF CacheTyped
<1>2. CASE c.bars \cap window = {}
  BY <1>1, <1>2 DEF SliceFor, NoSlice, SliceTyped, Touches
<1>3. CASE c.bars \cap window # {}
  BY <1>1, <1>3 DEF SliceFor, SliceTyped, Touches
<1>4. QED BY <1>2, <1>3

(***************************************************************************)
(* What the writers of the HTF lines do to the controller.  htf and frozen   *)
(* are the line that was made, or stay.                                     *)
(***************************************************************************)

Rewritten(o, p) ==
  /\ OwnerTyped(p) /\ p.specs = o.specs /\ p.exit = o.exit
  /\ \/ p.htf = o.htf /\ p.frozen = o.frozen
     \/ /\ p.htf = p.frozen
        /\ p.htf # None => p.htf.label = o.specs.key /\ o.specs.htf

\* A slice of the display cache becomes the line, unless it is empty.
LEMMA WithSliceRewrites ==
  ASSUME NEW o, NEW sl, OwnerTyped(o), SliceTyped(sl)
  PROVE  /\ Rewritten(o, WithSlice(o, sl))
         /\ sl.bars = {} => WithSlice(o, sl) = o
         /\ sl.bars # {} /\ o.specs.htf /\ sl.of[2] # None =>
              WithSlice(o, sl).htf = Line(o.specs.key, sl.of, sl.bars)
<1> DEFINE line == IF sl.bars = {} THEN None ELSE HtfLine(o.specs, sl.of, sl.bars)
<1>1. LineOk(HtfLine(o.specs, sl.of, sl.bars))
      /\ HtfMade(HtfLine(o.specs, sl.of, sl.bars), o.specs, sl.of, sl.bars)
  BY HtfLineMade DEF OwnerTyped, SliceTyped
<1>2. LineOk(line)
  BY <1>1 DEF LineOk
<1>3. line # None => line.label = o.specs.key /\ o.specs.htf
  BY <1>1 DEF HtfMade
<1>4. sl.bars # {} /\ o.specs.htf /\ sl.of[2] # None =>
        line = Line(o.specs.key, sl.of, sl.bars) /\ line # None
  BY <1>1 DEF HtfMade
<1>5. WithSlice(o, sl) = IF line = None THEN o ELSE [o EXCEPT !.htf = line, !.frozen = line]
  BY DEF WithSlice
<1>6. sl.bars = {} => line = None
  OBVIOUS
<1>7. o = [specs |-> o.specs, htf |-> o.htf, exit |-> o.exit, frozen |-> o.frozen]
  BY DEF OwnerTyped
<1> HIDE DEF line
<1>8. CASE line = None
  BY <1>4, <1>5, <1>6, <1>8 DEF Rewritten
<1>9. CASE line # None
  <2>1. WithSlice(o, sl) = [specs |-> o.specs, htf |-> line, exit |-> o.exit, frozen |-> line]
    BY <1>5, <1>7, <1>9
  <2>2. OwnerTyped(WithSlice(o, sl))
    BY <1>2, <2>1 DEF OwnerTyped, LinesOk
  <2>3. QED BY <1>3, <1>4, <1>6, <1>9, <2>1, <2>2 DEF Rewritten
<1>10. QED BY <1>8, <1>9

\* The dense bundle becomes the line, or takes it away.
LEMMA WithDenseRewrites ==
  ASSUME NEW o, NEW dense, OwnerTyped(o), DenseOk(dense), dense # None
  PROVE  Rewritten(o, WithDense(o, dense))
<1> DEFINE line == HtfLine(o.specs, dense.key, dense.bars)
<1>1. LineOk(line) /\ HtfMade(line, o.specs, dense.key, dense.bars)
  BY HtfLineMade DEF OwnerTyped, DenseOk
<1>2. line # None => line.label = o.specs.key /\ o.specs.htf
  BY <1>1 DEF HtfMade
<1>3. WithDense(o, dense) = [o EXCEPT !.htf = line, !.frozen = line]
  BY DEF WithDense
<1>4. o = [specs |-> o.specs, htf |-> o.htf, exit |-> o.exit, frozen |-> o.frozen]
  BY DEF OwnerTyped
<1> HIDE DEF line
<1>5. WithDense(o, dense) = [specs |-> o.specs, htf |-> line, exit |-> o.exit, frozen |-> line]
  BY <1>3, <1>4
<1>6. OwnerTyped(WithDense(o, dense))
  BY <1>1, <1>5 DEF OwnerTyped, LinesOk
<1>7. QED BY <1>2, <1>5, <1>6 DEF Rewritten

\* A rewritten controller still has only lines of the commit its specs are of.
LEMMA RewrittenStaysOwned ==
  ASSUME NEW o, NEW p, NEW s, PageTyped(s), Rewritten(o, p), OwnedBy(o, s)
  PROVE  OwnedBy(p, s)
  BY KeySays DEF Rewritten, OwnedBy, LinesOf, HtfOf, ExitOf

(***************************************************************************)
(* The steps of the user, of the market data and of answers.                *)
(***************************************************************************)

\* After a reset no answer comes before the next render.
LEMMA RenderedMeansFilled ==
  ASSUME AuxInv, Rendered
  PROVE  ~ Emptied
  BY DEF AuxInv, AuxTyped, Rendered, Emptied, Bare

\* A step of the page that keeps its slice, its window loaded and its bumps.
LEMMA PageMovesKeepInv ==
  ASSUME AuxInv, PageTyped(page'), page'.bumps = page.bumps,
         page'.slice = page.slice, page'.loaded = page.loaded,
         UNCHANGED <<commit, due, owner, slices, cache, lanes, cycle, fetches>>
  PROVE  AuxInv'
<1>1. AuxTyped'
  BY DEF AuxInv, AuxTyped
<1>2. DueTogether(due)' /\ ExitWhole' /\ KeptDrawn' /\ CycleHere'
  BY DEF AuxInv, ExitWhole, KeptDrawn, CycleHere
<1>3. Emptied' <=> Emptied
  BY DEF Emptied, Bare
<1>4. Labelled' /\ KeptCut'
  BY <1>3 DEF AuxInv, Labelled, KeptCut
<1>5. OwnerCaught(owner, cache, page, commit.s)' <=> OwnerCaught(owner, cache, page, commit.s)
  BY DEF OwnerCaught
<1>6. Caught'
  BY <1>5 DEF AuxInv, Caught, ListCaught
<1>7. QED BY <1>1, <1>2, <1>4, <1>6 DEF AuxInv

\* A selection, a pan or the market data only move the page.
LEMMA UserKeepsInv ==
  ASSUME AuxInv,
         \/ \E v \in Variants : PickVariant(v) \/ \E r \in Contexts[v] \cup {None} : PickContext(r)
         \/ \E w \in Windows : MoveWindow(w)
         \/ MarketLoads \/ MarketReady
  PROVE  AuxInv'
<1>1. PageTyped(page)
  BY DEF AuxInv, AuxTyped
<1> DEFINE Moved == /\ PageTyped(page') /\ page'.bumps = page.bumps
                    /\ page'.slice = page.slice /\ page'.loaded = page.loaded
                    /\ UNCHANGED <<commit, due, owner, slices, cache, lanes, cycle, fetches>>
<1>2. ASSUME NEW v \in Variants, PickVariant(v)
      PROVE  Moved
  BY <1>1, <1>2 DEF PickVariant, Set, PageTyped
<1>3. ASSUME NEW v \in Variants, NEW r \in Contexts[v] \cup {None}, PickContext(r)
      PROVE  Moved
  <2>1. Contexts[v] \in {Contexts[w] : w \in Variants}
    OBVIOUS
  <2>2. Refs = {None} \cup UNION {Contexts[w] : w \in Variants}
    BY DEF Refs
  <2>3. r \in Refs
    BY <2>1, <2>2
  <2>4. page' = [page EXCEPT !.ref = r]
        /\ UNCHANGED <<commit, due, owner, slices, cache, lanes, cycle, fetches>>
    BY <1>3 DEF PickContext, Set
  <2>5. QED BY <1>1, <2>3, <2>4 DEF PageTyped
<1>4. ASSUME NEW w \in Windows, MoveWindow(w)
      PROVE  Moved
  BY <1>1, <1>4 DEF MoveWindow, Set, PageTyped
<1>5. MarketLoads => Moved
  BY <1>1 DEF MarketLoads, Set, PageTyped
<1>6. MarketReady => Moved
  BY <1>1 DEF MarketReady, Set, PageTyped
<1>7. Moved
  BY <1>2, <1>3, <1>4, <1>5, <1>6
<1>8. QED BY <1>7, PageMovesKeepInv

\* Bumping the page.
LEMMA BumpedSays ==
  ASSUME NEW u, PageTyped(u), NEW what
  PROVE  /\ PageTyped(Bumped(u, what)) /\ Bumped(u, what).bumps = u.bumps \cup what
         /\ Bumped(u, what).slice = u.slice /\ Bumped(u, what).loaded = u.loaded
  BY DEF Bumped, PageTyped

\* The exit lines come: nothing of the HTF lines changes, and the list will be
\* read again.
LEMMA ExitLineKeepsInv ==
  ASSUME AuxInv, NEW v \in Variants, ExitLineArrives(v)
  PROVE  AuxInv'
<1>1. PICK line : /\ line = None \/ line = Line(<<v, None>>, <<v, None>>, Bars)
                  /\ owner' = [owner EXCEPT !.exit = line]
  BY DEF ExitLineArrives, WithExit
<1>2. /\ v \in fetches /\ fetches' = fetches \ {v} /\ page' = Bumped(page, {"rev"})
      /\ UNCHANGED <<commit, due, slices, cache, lanes, cycle>> /\ ~ Emptied
  BY RenderedMeansFilled DEF ExitLineArrives
<1>3. LineOk(line) /\ (line # None => line.label[1] = v /\ line.bars = Bars)
  <2>1. <<v, None>> \in LineKeys
    BY DEF LineKeys, Refs
  <2>2. QED BY <1>1, <2>1, LineIsALine DEF LineOk
<1>4. PageTyped(page) /\ OwnerTyped(owner)
  BY DEF AuxInv, AuxTyped
<1>5. /\ PageTyped(page') /\ page'.bumps = page.bumps \cup {"rev"}
      /\ page'.slice = page.slice /\ page'.loaded = page.loaded
  BY <1>2, <1>4, BumpedSays
<1>6. owner' = [specs |-> owner.specs, htf |-> owner.htf, exit |-> line, frozen |-> owner.frozen]
  BY <1>1, <1>4 DEF OwnerTyped
<1>7. OwnerTyped(owner')
  BY <1>3, <1>4, <1>6 DEF OwnerTyped, LinesOk
<1>8. AuxTyped'
  BY <1>2, <1>5, <1>7 DEF AuxInv, AuxTyped
<1>9. DueTogether(due)' /\ KeptDrawn' /\ CycleHere'
  BY <1>2 DEF AuxInv, KeptDrawn, CycleHere
<1>10. ExitWhole'
  BY <1>2, <1>3, <1>6 DEF AuxInv, ExitWhole, Whole
<1>11. KeptCut'
  BY <1>2 DEF AuxInv, KeptCut
<1>12. ASSUME "reset" \notin due
       PROVE  OwnedBy(owner', commit.s)
  <2>1. OwnedBy(owner, commit.s) /\ fetches \subseteq {commit.s.variant}
    BY <1>12 DEF AuxInv, Labelled
  <2>2. v = commit.s.variant
    BY <1>2, <2>1
  <2>3. ExitOf(line, commit.s)
    BY <1>3, <2>2 DEF ExitOf
  <2>4. QED BY <1>6, <2>1, <2>3 DEF OwnedBy, LinesOf
<1>13. Labelled'
  BY <1>2, <1>12 DEF AuxInv, Labelled
<1>14. Caught'
  <2>1. OwnerCaught(owner, cache, page, commit.s) => OwnerCaught(owner', cache', page', commit'.s)
    BY <1>2, <1>5, <1>6 DEF OwnerCaught
  <2>2. ListCaught'
    BY <1>5 DEF ListCaught
  <2>3. QED BY <1>2, <1>5, <2>1, <2>2 DEF AuxInv, Caught
<1>15. QED BY <1>8, <1>9, <1>10, <1>11, <1>13, <1>14 DEF AuxInv

\* A chunk of the trace reaches the display cache while its cycle goes on.
LEMMA ChunkKeepsInv ==
  ASSUME AuxInv, ChunkArrives
  PROVE  AuxInv'
<1>1. /\ cycle # None /\ cycle \in LineCycles /\ CacheTyped(cache) /\ cache.key \in LineKeys
  BY DEF AuxInv, AuxTyped, CycleTyped, ChunkArrives
<1>2. /\ cache' = [cache EXCEPT !.bars = @ \cup cycle.range]
      /\ cycle' = [cycle EXCEPT !.stage = "dense"]
      /\ UNCHANGED <<page, commit, due, owner, slices, lanes, fetches>>
  BY DEF ChunkArrives
<1>3. cycle.range \subseteq Bars /\ cycle' \in LineCycles /\ cycle'.key = cycle.key
      /\ cycle'.window = cycle.window
  BY <1>1, <1>2 DEF LineCycles
<1>4. cache' = [key |-> cache.key, bars |-> cache.bars \cup cycle.range]
  BY <1>1, <1>2 DEF CacheTyped
<1>5. CacheTyped(cache') /\ cache'.key = cache.key
  BY <1>1, <1>3, <1>4 DEF CacheTyped
<1>6. cycle' # None
  BY <1>3, AuxAssumption
<1>7. AuxTyped'
  BY <1>1, <1>2, <1>3, <1>5 DEF AuxInv, AuxTyped, CycleTyped
<1>8. DueTogether(due)' /\ KeptDrawn' /\ ExitWhole'
  BY <1>2 DEF AuxInv, KeptDrawn, ExitWhole
<1>9. CycleHere'
  BY <1>1, <1>2, <1>3 DEF AuxInv, CycleHere, CycleFor
<1>10. Emptied' <=> Emptied
  BY <1>2 DEF Emptied
<1>11. KeptCut' /\ Labelled'
  BY <1>2, <1>5, <1>10 DEF AuxInv, KeptCut, Labelled
<1>12. Caught'
  BY <1>6 DEF Caught
<1>13. QED BY <1>7, <1>8, <1>9, <1>11, <1>12 DEF AuxInv

(***************************************************************************)
(* applyTraceDisplayForCurrentWindow, as what it makes of the page and of    *)
(* the controller.                                                          *)
(***************************************************************************)

AppliedPage(u, o, c, s) ==
  Bumped([u EXCEPT !.slice = SliceFor(c, s.window)],
         IF SliceFor(c, s.window).bars # {} /\ o.specs.htf THEN {"apply", "rev"} ELSE {"apply"})
AppliedOwner(o, c, s) == WithSlice(o, SliceFor(c, s.window))

\* Applying bumps the page, and lets the list be read again if there is a line.
LEMMA AppliedPageSays ==
  ASSUME NEW u, NEW o, NEW c, NEW s, PageTyped(u), CacheTyped(c)
  PROVE  /\ PageTyped(AppliedPage(u, o, c, s))
         /\ AppliedPage(u, o, c, s).loaded = u.loaded
         /\ AppliedPage(u, o, c, s).slice = SliceFor(c, s.window)
         /\ u.bumps \subseteq AppliedPage(u, o, c, s).bumps
         /\ Touches(c, s.window) /\ o.specs.htf => "rev" \in AppliedPage(u, o, c, s).bumps
<1>1. PICK w : w = [u EXCEPT !.slice = SliceFor(c, s.window)]
  OBVIOUS
<1>2. PICK what : what = (IF SliceFor(c, s.window).bars # {} /\ o.specs.htf
                          THEN {"apply", "rev"} ELSE {"apply"})
  OBVIOUS
<1>3. SliceTyped(SliceFor(c, s.window))
      /\ (Touches(c, s.window) => SliceFor(c, s.window).bars # {})
  BY SliceForSays
<1>4. PageTyped(w) /\ w.bumps = u.bumps /\ w.slice = SliceFor(c, s.window) /\ w.loaded = u.loaded
  BY <1>1, <1>3 DEF PageTyped
<1>5. AppliedPage(u, o, c, s) = Bumped(w, what)
  BY <1>1, <1>2 DEF AppliedPage
<1>6. /\ PageTyped(Bumped(w, what)) /\ Bumped(w, what).bumps = w.bumps \cup what
      /\ Bumped(w, what).slice = w.slice /\ Bumped(w, what).loaded = w.loaded
  BY <1>4, BumpedSays
<1>7. Touches(c, s.window) /\ o.specs.htf => "rev" \in what
  BY <1>2, <1>3
<1>8. QED BY <1>4, <1>5, <1>6, <1>7

\* Where the cache has bars of the window the controller has them afterwards.
LEMMA AppliedOwnerSays ==
  ASSUME NEW o, NEW c, NEW s, OwnerTyped(o), CacheTyped(c), PageTyped(s)
  PROVE  /\ Rewritten(o, AppliedOwner(o, c, s))
         /\ ~ Touches(c, s.window) => AppliedOwner(o, c, s) = o
         /\ OwnedBy(o, s) /\ c.key = Key(s) /\ SpecsOf(s).htf /\ Touches(c, s.window) =>
              AppliedOwner(o, c, s).htf = Line(Key(s), c.key, c.bars \cap s.window)
<1>1. PICK sl : sl = SliceFor(c, s.window)
  OBVIOUS
<1>2. /\ SliceTyped(sl) /\ sl.bars = c.bars \cap s.window
      /\ Touches(c, s.window) => sl.of = c.key /\ sl.bars # {}
  BY <1>1, SliceForSays
<1>3. AppliedOwner(o, c, s) = WithSlice(o, sl)
  BY <1>1 DEF AppliedOwner
<1>4. /\ Rewritten(o, WithSlice(o, sl))
      /\ sl.bars = {} => WithSlice(o, sl) = o
      /\ sl.bars # {} /\ o.specs.htf /\ sl.of[2] # None =>
              WithSlice(o, sl).htf = Line(o.specs.key, sl.of, sl.bars)
  BY <1>2, WithSliceRewrites
<1>5. ~ Touches(c, s.window) => sl.bars = {}
  BY <1>2 DEF Touches
<1>6. ASSUME OwnedBy(o, s), c.key = Key(s), SpecsOf(s).htf, Touches(c, s.window)
      PROVE  WithSlice(o, sl).htf = Line(Key(s), c.key, c.bars \cap s.window)
  <2>1. o.specs.htf /\ o.specs.key = Key(s) /\ Key(s)[2] # None
    BY <1>6, KeySays DEF OwnedBy
  <2>2. sl.of[2] # None
    BY <1>2, <1>6, <2>1
  <2>3. QED BY <1>2, <1>4, <1>6, <2>1, <2>2
<1>7. QED BY <1>3, <1>4, <1>5, <1>6

\* The end of a cycle, with a bundle or without: the window it was for is the
\* commit's, and what the cache has for it is applied.
LEMMA EndedKeepsInv ==
  ASSUME AuxInv, Rendered, NEW l, NEW bumps, Ended(l, bumps), cycle # None,
         LanesTyped(l), l.window = <<cycle.key, cycle.window>>
  PROVE  AuxInv'
<1>1. PICK u : u = Bumped(WithLanes(page, l), bumps)
  OBVIOUS
<1>2. PageTyped(page) /\ OwnerTyped(owner) /\ CacheTyped(cache) /\ PageTyped(commit.s)
  BY DEF AuxInv, AuxTyped
<1>3. PageTyped(u) /\ u.loaded = <<cycle.key, cycle.window>>
  <2>1. PICK w : w = WithLanes(page, l)
    OBVIOUS
  <2>2. PageTyped(w) /\ w.loaded = l.window
    BY <1>2, <2>1 DEF WithLanes, PageTyped, LanesTyped
  <2>3. QED BY <1>1, <2>1, <2>2, BumpedSays
<1>4. /\ lanes' = l /\ cycle' = None
      /\ page' = AppliedPage(u, owner, cache, commit.s)
      /\ owner' = AppliedOwner(owner, cache, commit.s)
      /\ UNCHANGED <<commit, due, slices, cache, fetches>>
  BY <1>1 DEF Ended, Applied, AppliedPage, AppliedOwner
<1>5. /\ PageTyped(page') /\ page'.loaded = <<cycle.key, cycle.window>>
      /\ page'.slice = SliceFor(cache, commit.s.window)
      /\ Touches(cache, commit.s.window) /\ owner.specs.htf => "rev" \in page'.bumps
  BY <1>2, <1>3, <1>4, AppliedPageSays
<1>6. /\ Rewritten(owner, owner')
      /\ OwnedBy(owner, commit.s) /\ cache.key = Key(commit.s) /\ SpecsOf(commit.s).htf
           /\ Touches(cache, commit.s.window) =>
              owner'.htf = Line(Key(commit.s), cache.key, cache.bars \cap commit.s.window)
  BY <1>2, <1>4, AppliedOwnerSays
<1>7. ~ Emptied
  BY RenderedMeansFilled
<1>8. AuxTyped'
  BY <1>4, <1>5, <1>6 DEF AuxInv, AuxTyped, CycleTyped, Rewritten
<1>9. DueTogether(due)' /\ KeptDrawn' /\ CycleHere'
  BY <1>4 DEF AuxInv, KeptDrawn, CycleHere
<1>10. KeptCut'
  BY <1>4, <1>7 DEF AuxInv, KeptCut
<1>11. ExitWhole'
  BY <1>4, <1>6 DEF AuxInv, ExitWhole, Rewritten
<1>12. Labelled'
  <2>1. OwnedBy(owner, commit.s) => OwnedBy(owner', commit.s)
    BY <1>2, <1>6, RewrittenStaysOwned
  <2>2. QED BY <1>4, <1>7, <2>1 DEF AuxInv, Labelled
<1>13. Caught'
  <2>1. SUFFICES ASSUME "load" \notin due
                 PROVE  Caught'
    BY <1>4 DEF Caught
  <2>2. page'.loaded = WindowKey(commit.s)
    BY <1>5, <2>1 DEF AuxInv, CycleHere, CycleFor, WindowKey
  <2>3. "reset" \notin due
    BY <2>1 DEF AuxInv, DueTogether
  <2>4. OwnedBy(owner, commit.s) /\ cache.key = Key(commit.s)
    BY <2>3 DEF AuxInv, Labelled
  <2>5. OwnerCaught(owner', cache, page', commit.s)
    BY <1>5, <1>6, <2>4 DEF OwnerCaught
  <2>6. SpecsOf(commit.s).htf /\ Touches(cache, commit.s.window) => "rev" \in page'.bumps
    BY <1>5, <2>4 DEF OwnedBy
  <2>7. ListCaught'
    BY <1>4, <2>6 DEF ListCaught
  <2>8. QED BY <1>4, <2>2, <2>5, <2>7 DEF Caught
<1>14. QED BY <1>8, <1>9, <1>10, <1>11, <1>12, <1>13 DEF AuxInv

\* A bundle and a failure end the cycle in the same way.
LEMMA CycleEndsKeepInv ==
  ASSUME AuxInv, DenseArrives \/ TraceFails
  PROVE  AuxInv'
<1>1. cycle # None /\ Rendered /\ cycle \in LineCycles
  BY DEF AuxInv, AuxTyped, CycleTyped, DenseArrives, TraceFails
<1>2. cycle.key \in LineKeys /\ cycle.range \subseteq Bars
  BY <1>1 DEF LineCycles
<1>3. CASE DenseArrives
  <2>1. PICK l : l = [status |-> "ready", dense |-> [key |-> cycle.key, bars |-> cycle.range],
                      window |-> <<cycle.key, cycle.window>>]
    OBVIOUS
  <2>2. LanesTyped(l) /\ l.window = <<cycle.key, cycle.window>>
    BY <1>2, <2>1 DEF LanesTyped, DenseOk
  <2>3. PICK bumps : Ended(l, bumps)
    BY <1>3, <2>1 DEF DenseArrives
  <2>4. QED BY <1>1, <2>2, <2>3, EndedKeepsInv
<1>4. CASE TraceFails
  <2>1. PICK l : l = [status |-> "error", dense |-> None,
                      window |-> <<cycle.key, cycle.window>>]
    OBVIOUS
  <2>2. LanesTyped(l) /\ l.window = <<cycle.key, cycle.window>>
    BY <2>1 DEF LanesTyped, DenseOk
  <2>3. PICK bumps : Ended(l, bumps)
    BY <1>4, <2>1 DEF TraceFails
  <2>4. QED BY <1>1, <2>2, <2>3, EndedKeepsInv
<1>5. QED BY <1>3, <1>4

(***************************************************************************)
(* The effects of a commit s, one lemma each: what the effect leaves of what *)
(* the effects before it made, x.                                           *)
(***************************************************************************)

Acting(x) ==
  /\ x = [ui |-> x.ui, owner |-> x.owner, fetches |-> x.fetches, cache |-> x.cache,
          lanes |-> x.lanes, cycle |-> x.cycle]
  /\ PageTyped(x.ui) /\ OwnerTyped(x.owner) /\ x.fetches \subseteq Variants
  /\ CacheTyped(x.cache) /\ LanesTyped(x.lanes) /\ CycleTyped(x.cycle, x.cache)

\* The load, the cache and what was applied of it stay; React's bumps grow.
SameLoad(x, y) ==
  /\ y.cache = x.cache /\ y.lanes = x.lanes /\ y.cycle = x.cycle
  /\ y.ui.loaded = x.ui.loaded /\ y.ui.slice = x.ui.slice /\ x.ui.bumps \subseteq y.ui.bumps

\* A ref the variant does not define is dropped: only the ref changes.
LEMMA InvalidEffectSays ==
  ASSUME NEW x, NEW s, Acting(x)
  PROVE  /\ Acting(InvalidEffect(x, s)) /\ SameLoad(x, InvalidEffect(x, s))
         /\ InvalidEffect(x, s).owner = x.owner /\ InvalidEffect(x, s).fetches = x.fetches
<1>1. CASE InvalidEffect(x, s) = x
  BY <1>1 DEF SameLoad
<1>2. CASE InvalidEffect(x, s) = [x EXCEPT !.ui.ref = None]
  <2>1. PICK u : u = [x.ui EXCEPT !.ref = None]
    OBVIOUS
  <2>2. None \in Refs
    BY DEF Refs
  <2>3. PageTyped(u) /\ u.loaded = x.ui.loaded /\ u.slice = x.ui.slice /\ u.bumps = x.ui.bumps
    BY <2>1, <2>2 DEF Acting, PageTyped
  <2>4. InvalidEffect(x, s) = [ui |-> u, owner |-> x.owner, fetches |-> x.fetches,
                               cache |-> x.cache, lanes |-> x.lanes, cycle |-> x.cycle]
    BY <1>2, <2>1 DEF Acting
  <2>5. QED BY <2>3, <2>4 DEF Acting, SameLoad
<1>3. QED BY <1>1, <1>2 DEF InvalidEffect

\* A new variant gets its default ref: only the ref changes.
LEMMA DefaultEffectSays ==
  ASSUME NEW x, NEW s, Acting(x), PageTyped(s)
  PROVE  /\ Acting(DefaultEffect(x, s)) /\ SameLoad(x, DefaultEffect(x, s))
         /\ DefaultEffect(x, s).owner = x.owner /\ DefaultEffect(x, s).fetches = x.fetches
<1>1. CASE DefaultEffect(x, s) = x
  BY <1>1 DEF SameLoad
<1>2. CASE DefaultEffect(x, s) = [x EXCEPT !.ui.ref = DefaultRef(s.variant)]
  <2>1. PICK r : r = DefaultRef(s.variant)
    OBVIOUS
  <2>2. r \in Refs
    BY <2>1, DefaultRefIsARef DEF PageTyped
  <2>3. PICK u : u = [x.ui EXCEPT !.ref = r]
    OBVIOUS
  <2>4. PageTyped(u) /\ u.loaded = x.ui.loaded /\ u.slice = x.ui.slice /\ u.bumps = x.ui.bumps
    BY <2>2, <2>3 DEF Acting, PageTyped
  <2>5. DefaultEffect(x, s) = [ui |-> u, owner |-> x.owner, fetches |-> x.fetches,
                               cache |-> x.cache, lanes |-> x.lanes, cycle |-> x.cycle]
    BY <1>2, <2>1, <2>3 DEF Acting
  <2>6. QED BY <2>4, <2>5 DEF Acting, SameLoad
<1>3. QED BY <1>1, <1>2 DEF DefaultEffect

\* What an effect makes of the controller and the requests, with a bump.
Stepped(x, o, f, what) ==
  [ui |-> Bumped(x.ui, what), owner |-> o, fetches |-> f, cache |-> x.cache,
   lanes |-> x.lanes, cycle |-> x.cycle]

\* Such an effect leaves the load as it was.
LEMMA SteppedSays ==
  ASSUME NEW x, NEW o, NEW f, NEW what, Acting(x), OwnerTyped(o), f \subseteq Variants
  PROVE  /\ Acting(Stepped(x, o, f, what)) /\ SameLoad(x, Stepped(x, o, f, what))
         /\ Stepped(x, o, f, what).owner = o /\ Stepped(x, o, f, what).fetches = f
         /\ Stepped(x, o, f, what).ui.bumps = x.ui.bumps \cup what
<1>1. PICK u : u = Bumped(x.ui, what)
  OBVIOUS
<1>2. /\ PageTyped(u) /\ u.bumps = x.ui.bumps \cup what
      /\ u.slice = x.ui.slice /\ u.loaded = x.ui.loaded
  BY <1>1, BumpedSays DEF Acting
<1>3. PICK y : y = Stepped(x, o, f, what)
  OBVIOUS
<1>4. y = [ui |-> u, owner |-> o, fetches |-> f, cache |-> x.cache, lanes |-> x.lanes,
           cycle |-> x.cycle]
  BY <1>1, <1>3 DEF Stepped
<1>5. CacheTyped(x.cache) /\ LanesTyped(x.lanes) /\ CycleTyped(x.cycle, x.cache)
  BY DEF Acting
<1>6. /\ y.ui = u /\ y.owner = o /\ y.fetches = f /\ y.cache = x.cache /\ y.lanes = x.lanes
      /\ y.cycle = x.cycle
  BY <1>4
<1>7. Acting(y)
  BY <1>2, <1>4, <1>5, <1>6 DEF Acting
<1>8. SameLoad(x, y)
  BY <1>2, <1>6 DEF SameLoad
<1>9. QED BY <1>2, <1>3, <1>6, <1>7, <1>8

\* The specs become those of the commit, and React is told.
LEMMA SpecsEffectSays ==
  ASSUME NEW x, NEW s, Acting(x), PageTyped(s)
  PROVE  /\ Acting(SpecsEffect(x, s)) /\ SameLoad(x, SpecsEffect(x, s))
         /\ SpecsEffect(x, s).fetches = x.fetches
         /\ "specs" \notin due => SpecsEffect(x, s).owner = x.owner
         /\ "specs" \in due => /\ SpecsEffect(x, s).owner.specs = SpecsOf(s)
                               /\ "rev" \in SpecsEffect(x, s).ui.bumps
<1>1. CASE "specs" \notin due
  BY <1>1 DEF SpecsEffect, SameLoad
<1>2. CASE "specs" \in due
  <2>1. PICK specs : specs = SpecsOf(s)
    OBVIOUS
  <2>2. specs.htf => specs.key \in LineKeys
    BY <2>1, KeySays
  <2>3. PICK o : o = [x.owner EXCEPT !.specs = specs]
    OBVIOUS
  <2>4. OwnerTyped(o) /\ o.specs = specs
    BY <2>2, <2>3 DEF Acting, OwnerTyped, LinesOk
  <2>5. SpecsEffect(x, s) = [x EXCEPT !.owner.specs = specs, !.ui = Bumped(@, {"rev"})]
    BY <1>2, <2>1 DEF SpecsEffect
  <2>6. SpecsEffect(x, s) = Stepped(x, o, x.fetches, {"rev"})
    BY <2>3, <2>5 DEF Acting, Stepped
  <2>7. x.fetches \subseteq Variants
    BY DEF Acting
  <2>8. PICK y : y = SpecsEffect(x, s)
    OBVIOUS
  <2>9. Acting(y) /\ SameLoad(x, y) /\ y.owner = o /\ y.fetches = x.fetches
        /\ y.ui.bumps = x.ui.bumps \cup {"rev"}
    BY <2>4, <2>6, <2>7, <2>8, SteppedSays
  <2>10. QED BY <1>2, <2>1, <2>4, <2>8, <2>9
<1>3. QED BY <1>1, <1>2

\* resetAuxOverlayRuntime leaves the specs and no line.
LEMMA ClearedSays ==
  ASSUME NEW o, OwnerTyped(o)
  PROVE  /\ OwnerTyped(Cleared(o)) /\ Cleared(o).specs = o.specs
         /\ Cleared(o).htf = None /\ Cleared(o).exit = None /\ Cleared(o).frozen = None
<1>1. o = [specs |-> o.specs, htf |-> o.htf, exit |-> o.exit, frozen |-> o.frozen]
  BY DEF OwnerTyped
<1>2. Cleared(o) = [o EXCEPT !.htf = None, !.exit = None, !.frozen = None]
  BY DEF Cleared
<1>3. Cleared(o) = [specs |-> o.specs, htf |-> None, exit |-> None, frozen |-> None]
  BY <1>1, <1>2
<1>4. QED BY <1>3 DEF OwnerTyped, LinesOk, LineOk

\* A controller that is left with fewer lines, under the same specs.
Fewer(o, p) ==
  /\ OwnerTyped(p) /\ p.specs = o.specs
  /\ p.htf \in {o.htf, None} /\ p.exit \in {o.exit, None} /\ p.frozen \in {o.frozen, None}

\* A controller with fewer lines still has only lines of the commit.
LEMMA FewerStaysOwned ==
  ASSUME NEW o, NEW p, NEW s, Fewer(o, p), OwnedBy(o, s)
  PROVE  OwnedBy(p, s)
  BY DEF Fewer, OwnedBy, LinesOf, HtfOf, ExitOf

\* The exit lines are asked for again or dropped, for the variant shown only.
LEMMA BffEffectSays ==
  ASSUME NEW x, NEW s, Acting(x), PageTyped(s)
  PROVE  /\ Acting(BffEffect(x, s)) /\ SameLoad(x, BffEffect(x, s))
         /\ Fewer(x.owner, BffEffect(x, s).owner)
         /\ "bff" \notin due => BffEffect(x, s) = x
         /\ "bff" \in due => BffEffect(x, s).fetches \subseteq {s.variant}
<1>1. x.fetches \subseteq Variants /\ OwnerTyped(x.owner) /\ s.variant \in Variants
  BY DEF Acting, PageTyped
<1>2. Fewer(x.owner, x.owner)
  BY <1>1 DEF Fewer
<1>3. CASE "bff" \notin due
  BY <1>2, <1>3 DEF BffEffect, SameLoad
<1>4. PICK y : y = BffEffect(x, s)
  OBVIOUS
<1>5. CASE "bff" \in due /\ (s.market # "ready" \/ ~(x.owner.specs.htf \/ x.owner.specs.exit))
  <2>1. y = [x EXCEPT !.owner = Cleared(x.owner), !.fetches = {}, !.ui = Bumped(x.ui, {"rev"})]
    BY <1>4, <1>5 DEF BffEffect
  <2>2. PICK o : o = Cleared(x.owner)
    OBVIOUS
  <2>3. OwnerTyped(o) /\ Fewer(x.owner, o)
    BY <1>1, <2>2, ClearedSays DEF Fewer
  <2>4. y = Stepped(x, o, {}, {"rev"})
    BY <2>1, <2>2 DEF Acting, Stepped
  <2>5. Acting(y) /\ SameLoad(x, y) /\ y.owner = o /\ y.fetches = {}
    BY <2>3, <2>4, SteppedSays
  <2>6. QED BY <1>4, <1>5, <2>3, <2>5
<1>6. CASE /\ "bff" \in due /\ ~ (s.market # "ready" \/ ~(x.owner.specs.htf \/ x.owner.specs.exit))
           /\ x.owner.specs.exit
  <2>1. y = [x EXCEPT !.fetches = {s.variant}]
    BY <1>4, <1>6 DEF BffEffect
  <2>2. y = [ui |-> x.ui, owner |-> x.owner, fetches |-> {s.variant}, cache |-> x.cache,
             lanes |-> x.lanes, cycle |-> x.cycle]
    BY <2>1 DEF Acting
  <2>3. Acting(y) /\ SameLoad(x, y) /\ y.owner = x.owner /\ y.fetches = {s.variant}
    BY <1>1, <2>2 DEF Acting, SameLoad
  <2>4. QED BY <1>2, <1>4, <1>6, <2>3
<1>7. CASE /\ "bff" \in due /\ ~ (s.market # "ready" \/ ~(x.owner.specs.htf \/ x.owner.specs.exit))
           /\ ~ x.owner.specs.exit
  <2>1. y = [x EXCEPT !.owner.exit = None, !.fetches = {}, !.ui = Bumped(@, {"rev"})]
    BY <1>4, <1>7 DEF BffEffect
  <2>2. PICK o : o = [x.owner EXCEPT !.exit = None]
    OBVIOUS
  <2>3. OwnerTyped(o) /\ Fewer(x.owner, o)
    BY <1>1, <2>2 DEF OwnerTyped, LinesOk, LineOk, Fewer
  <2>4. y = Stepped(x, o, {}, {"rev"})
    BY <2>1, <2>2 DEF Acting, Stepped
  <2>5. Acting(y) /\ SameLoad(x, y) /\ y.owner = o /\ y.fetches = {}
    BY <2>3, <2>4, SteppedSays
  <2>6. QED BY <1>4, <1>7, <2>3, <2>5
<1>8. QED BY <1>3, <1>5, <1>6, <1>7

\* The fallback to the dense bundle only touches the HTF lines, and only where
\* the cache has nothing for the window.
LEMMA FallbackEffectSays ==
  ASSUME NEW x, NEW s, Acting(x), PageTyped(s)
  PROVE  /\ Acting(FallbackEffect(x, s)) /\ SameLoad(x, FallbackEffect(x, s))
         /\ FallbackEffect(x, s).fetches = x.fetches
         /\ \/ Rewritten(x.owner, FallbackEffect(x, s).owner)
            \/ Fewer(x.owner, FallbackEffect(x, s).owner)
         /\ FallbackEffect(x, s).owner.specs = x.owner.specs
         /\ Touches(x.cache, s.window) => FallbackEffect(x, s) = x
<1>1. x.fetches \subseteq Variants /\ OwnerTyped(x.owner) /\ DenseOk(s.dense)
  BY DEF Acting, PageTyped
<1>2. Fewer(x.owner, x.owner)
  BY <1>1 DEF Fewer
<1>3. CASE FallbackEffect(x, s) = x
  BY <1>2, <1>3 DEF SameLoad
<1>4. PICK y : y = FallbackEffect(x, s)
  OBVIOUS
<1>5. ASSUME NEW o, y = Stepped(x, o, x.fetches, {"rev"}), OwnerTyped(o)
      PROVE  Acting(y) /\ SameLoad(x, y) /\ y.owner = o /\ y.fetches = x.fetches
  BY <1>1, <1>5, SteppedSays
<1>6. CASE ~ Touches(x.cache, s.window) /\ s.dense # None
           /\ FallbackEffect(x, s) = [x EXCEPT !.owner = WithDense(@, s.dense), !.ui = Bumped(@, {"rev"})]
  <2>1. PICK o : o = WithDense(x.owner, s.dense)
    OBVIOUS
  <2>2. PICK d : d = s.dense
    OBVIOUS
  <2>3. Rewritten(x.owner, o)
    BY <1>1, <1>6, <2>1, <2>2, WithDenseRewrites
  <2>4. OwnerTyped(o) /\ o.specs = x.owner.specs
    BY <2>3 DEF Rewritten
  <2>5. y = Stepped(x, o, x.fetches, {"rev"})
    BY <1>4, <1>6, <2>1 DEF Acting, Stepped
  <2>6. QED BY <1>4, <1>5, <1>6, <2>3, <2>4, <2>5
<1>7. CASE ~ Touches(x.cache, s.window)
           /\ FallbackEffect(x, s) = [x EXCEPT !.owner.htf = None, !.owner.frozen = None,
                                               !.ui = Bumped(@, {"rev"})]
  <2>1. PICK o : o = [x.owner EXCEPT !.htf = None, !.frozen = None]
    OBVIOUS
  <2>2. OwnerTyped(o) /\ Fewer(x.owner, o)
    BY <1>1, <2>1 DEF OwnerTyped, LinesOk, LineOk, Fewer
  <2>3. y = Stepped(x, o, x.fetches, {"rev"})
    BY <1>4, <1>7, <2>1 DEF Acting, Stepped
  <2>4. QED BY <1>4, <1>5, <1>7, <2>2, <2>3 DEF Fewer
<1>8. QED BY <1>3, <1>6, <1>7 DEF FallbackEffect

\* The lanes are copied to the page, which keeps its slice and its bumps.
LEMMA WithLanesSays ==
  ASSUME NEW u, NEW l, PageTyped(u), LanesTyped(l)
  PROVE  /\ PageTyped(WithLanes(u, l)) /\ WithLanes(u, l).loaded = l.window
         /\ WithLanes(u, l).slice = u.slice /\ WithLanes(u, l).bumps = u.bumps
<1>1. PICK w : w = WithLanes(u, l)
  OBVIOUS
<1>2. w = [u EXCEPT !.status = l.status, !.dense = l.dense, !.loaded = l.window]
  BY <1>1 DEF WithLanes
<1>3. PageTyped(w) /\ w.loaded = l.window /\ w.slice = u.slice /\ w.bumps = u.bumps
  BY <1>2 DEF PageTyped, LanesTyped
<1>4. QED BY <1>1, <1>3

\* Having no lanes is a state of the lanes.
LEMMA NoLanesAreTyped == LanesTyped(NoLanes)
  BY DEF NoLanes, LanesTyped, DenseOk

\* A reset leaves an empty cache for the key, and nothing in the controller.
ResetDone(x, y, s) ==
  /\ Acting(y) /\ y.cache = [key |-> Key(s), bars |-> {}]
  /\ y.owner.specs = x.owner.specs /\ y.owner.htf = None /\ y.owner.exit = None
  /\ y.owner.frozen = None /\ y.fetches = x.fetches
  /\ x.ui.bumps \subseteq y.ui.bumps /\ y.ui.slice.bars = {}

\* The reset empties cache, lanes and controller, whatever was there.
LEMMA ResetEffectSays ==
  ASSUME NEW x, NEW s, Acting(x), PageTyped(s)
  PROVE  /\ "reset" \notin due => ResetEffect(x, s) = x
         /\ "reset" \in due => ResetDone(x, ResetEffect(x, s), s)
<1>1. CASE "reset" \notin due
  BY <1>1 DEF ResetEffect
<1>2. CASE "reset" \in due
  <2>1. PICK o : o = Cleared(x.owner)
    OBVIOUS
  <2>2. /\ OwnerTyped(o) /\ o.specs = x.owner.specs
        /\ o.htf = None /\ o.exit = None /\ o.frozen = None
    BY <2>1, ClearedSays DEF Acting
  <2>3. PICK w : w = [x.ui EXCEPT !.slice = NoSlice]
    OBVIOUS
  <2>4. PageTyped(w) /\ w.bumps = x.ui.bumps /\ w.slice = NoSlice
    BY <2>3 DEF Acting, PageTyped, SliceTyped, NoSlice
  <2>5. PICK u : u = Bumped(w, {"version"})
    OBVIOUS
  <2>6. PageTyped(u) /\ u.bumps = x.ui.bumps \cup {"version"} /\ u.slice.bars = {}
    BY <2>4, <2>5, BumpedSays DEF NoSlice
  <2>7. PICK c : c = [key |-> Key(s), bars |-> {}]
    OBVIOUS
  <2>8. CacheTyped(c) /\ CycleTyped(x.cycle, c)
    BY <2>7, KeySays DEF Acting, CacheTyped, CycleTyped
  <2>9. ResetEffect(x, s) = [ui |-> u, owner |-> o, fetches |-> x.fetches, cache |-> c,
                             lanes |-> NoLanes, cycle |-> x.cycle]
    BY <1>2, <2>1, <2>3, <2>5, <2>7 DEF ResetEffect, Acting
  <2>10. PICK y : y = ResetEffect(x, s)
    OBVIOUS
  <2>11. /\ y.ui = u /\ y.owner = o /\ y.fetches = x.fetches /\ y.cache = c
         /\ y.lanes = NoLanes /\ y.cycle = x.cycle
    BY <2>9, <2>10
  <2>12. Acting(y)
    BY <2>2, <2>6, <2>8, <2>9, <2>10, <2>11, NoLanesAreTyped DEF Acting
  <2>13. ResetDone(x, y, s)
    BY <2>2, <2>6, <2>7, <2>11, <2>12 DEF ResetDone
  <2>14. QED BY <1>2, <2>10, <2>13
<1>3. QED BY <1>1, <1>2

\* Applying what the cache has for the window.
AppliedTo(x, y, s) ==
  /\ Acting(y) /\ Rewritten(x.owner, y.owner)
  /\ ~ Touches(x.cache, s.window) => y.owner = x.owner
  /\ OwnedBy(x.owner, s) /\ x.cache.key = Key(s) => OwnerCaught(y.owner, x.cache, y.ui, s)
  /\ y.ui.loaded = x.ui.loaded /\ y.ui.slice = SliceFor(x.cache, s.window)
  /\ x.ui.bumps \subseteq y.ui.bumps
  /\ Touches(x.cache, s.window) /\ x.owner.specs.htf => "rev" \in y.ui.bumps
  /\ y.fetches = x.fetches /\ y.cache = x.cache /\ y.lanes = x.lanes /\ y.cycle = x.cycle

\* Over the record of an effect, applying changes page and controller only.
LEMMA AppliedSays ==
  ASSUME NEW x, NEW s, Acting(x), PageTyped(s)
  PROVE  AppliedTo(x, Applied(x, s), s)
<1>1. PICK u : u = AppliedPage(x.ui, x.owner, x.cache, s)
  OBVIOUS
<1>2. PICK o : o = AppliedOwner(x.owner, x.cache, s)
  OBVIOUS
<1>3. PICK y : y = Applied(x, s)
  OBVIOUS
<1>4. PageTyped(x.ui) /\ OwnerTyped(x.owner) /\ CacheTyped(x.cache)
  BY DEF Acting
<1>5. /\ PageTyped(u) /\ u.loaded = x.ui.loaded /\ u.slice = SliceFor(x.cache, s.window)
      /\ x.ui.bumps \subseteq u.bumps
      /\ Touches(x.cache, s.window) /\ x.owner.specs.htf => "rev" \in u.bumps
  BY <1>1, <1>4, AppliedPageSays
<1>6. /\ Rewritten(x.owner, o)
      /\ ~ Touches(x.cache, s.window) => o = x.owner
      /\ OwnedBy(x.owner, s) /\ x.cache.key = Key(s) /\ SpecsOf(s).htf
           /\ Touches(x.cache, s.window) =>
              o.htf = Line(Key(s), x.cache.key, x.cache.bars \cap s.window)
  BY <1>2, <1>4, AppliedOwnerSays
<1>7. y = [ui |-> u, owner |-> o, fetches |-> x.fetches, cache |-> x.cache,
           lanes |-> x.lanes, cycle |-> x.cycle]
  BY <1>1, <1>2, <1>3 DEF Applied, AppliedPage, AppliedOwner, Acting
<1>8. /\ y.ui = u /\ y.owner = o /\ y.fetches = x.fetches /\ y.cache = x.cache
      /\ y.lanes = x.lanes /\ y.cycle = x.cycle
  BY <1>7
<1>9. Acting(y)
  BY <1>5, <1>6, <1>7, <1>8 DEF Acting, Rewritten
<1>10. OwnedBy(x.owner, s) /\ x.cache.key = Key(s) => OwnerCaught(o, x.cache, u, s)
  BY <1>5, <1>6 DEF OwnerCaught
<1>11. AppliedTo(x, y, s)
  BY <1>5, <1>6, <1>8, <1>9, <1>10 DEF AppliedTo
<1>12. QED BY <1>3, <1>11

\* The effect that loads.  It leaves a cycle for the commit, or none: then the
\* bundle was the window's and what the cache has for it is applied.
TraceDone(x, y, s) ==
  /\ Acting(y) /\ Rewritten(x.owner, y.owner)
  /\ ~ Touches(x.cache, s.window) =>
       y.owner = x.owner /\ (x.ui.slice.bars = {} => y.ui.slice.bars = {})
  /\ y.cycle # None => CycleFor(y.cycle, s)
  /\ y.fetches = x.fetches /\ y.cache = x.cache /\ x.ui.bumps \subseteq y.ui.bumps
  /\ s.market = "ready" /\ y.cycle = None =>
       /\ y.ui.loaded = WindowKey(s) /\ Covers(x.cache, s.window)
       /\ OwnedBy(x.owner, s) /\ x.cache.key = Key(s) => OwnerCaught(y.owner, x.cache, y.ui, s)
       /\ Touches(x.cache, s.window) /\ x.owner.specs.htf => "rev" \in y.ui.bumps

\* The load starts a cycle, stops or finds what it needs, as TraceDone says.
LEMMA TraceEffectSays ==
  ASSUME NEW x, NEW s, Acting(x), PageTyped(s), x.cache.key \in LineKeys
  PROVE  /\ "load" \notin due => TraceEffect(x, s) = x
         /\ "load" \in due => TraceDone(x, TraceEffect(x, s), s)
<1>1. CASE "load" \notin due
  BY <1>1 DEF TraceEffect
<1>2. PICK y : y = TraceEffect(x, s)
  OBVIOUS
<1>3. PageTyped(x.ui) /\ LanesTyped(x.lanes) /\ OwnerTyped(x.owner)
  BY DEF Acting
<1>4. Rewritten(x.owner, x.owner)
  BY <1>3 DEF Rewritten
<1>5. CASE "load" \in due /\ s.market # "ready"
  <2>1. PICK u : u = WithLanes(x.ui, NoLanes)
    OBVIOUS
  <2>2. PageTyped(u) /\ u.slice = x.ui.slice /\ u.bumps = x.ui.bumps
    BY <1>3, <2>1, WithLanesSays, NoLanesAreTyped
  <2>3. y = [ui |-> u, owner |-> x.owner, fetches |-> x.fetches, cache |-> x.cache,
             lanes |-> NoLanes, cycle |-> None]
    BY <1>2, <1>5, <2>1 DEF TraceEffect, Acting
  <2>4. /\ y.ui = u /\ y.owner = x.owner /\ y.fetches = x.fetches /\ y.cache = x.cache
        /\ y.lanes = NoLanes /\ y.cycle = None
    BY <2>3
  <2>5. Acting(y)
    BY <2>2, <2>3, <2>4, NoLanesAreTyped DEF Acting, CycleTyped
  <2>6. TraceDone(x, y, s)
    BY <1>4, <1>5, <2>2, <2>4, <2>5 DEF TraceDone
  <2>7. QED BY <1>2, <1>5, <2>6
<1>6. CASE /\ "load" \in due /\ s.market = "ready"
           /\ Covers(x.cache, s.window) /\ x.lanes.window = WindowKey(s)
  <2>1. PICK u : u = WithLanes(x.ui, x.lanes)
    OBVIOUS
  <2>2. PageTyped(u) /\ u.loaded = WindowKey(s) /\ u.slice = x.ui.slice /\ u.bumps = x.ui.bumps
    BY <1>3, <1>6, <2>1, WithLanesSays
  <2>3. PICK z : z = [ui |-> u, owner |-> x.owner, fetches |-> x.fetches, cache |-> x.cache,
                      lanes |-> x.lanes, cycle |-> None]
    OBVIOUS
  <2>4. /\ z.ui = u /\ z.owner = x.owner /\ z.fetches = x.fetches /\ z.cache = x.cache
        /\ z.lanes = x.lanes /\ z.cycle = None
    BY <2>3
  <2>5. Acting(z)
    BY <2>2, <2>3, <2>4 DEF Acting, CycleTyped
  <2>6. z = [x EXCEPT !.cycle = None, !.ui = WithLanes(x.ui, x.lanes)]
    <3>1. PICK e : e = [x EXCEPT !.cycle = None, !.ui = u]
      OBVIOUS
    <3>2. e = [ui |-> u, owner |-> x.owner, fetches |-> x.fetches, cache |-> x.cache,
               lanes |-> x.lanes, cycle |-> None]
      BY <3>1 DEF Acting
    <3>3. QED BY <2>1, <2>3, <3>1, <3>2
  <2>7. y = Applied(z, s)
    BY <1>2, <1>6, <2>6 DEF TraceEffect
  <2>8. AppliedTo(z, y, s)
    BY <2>5, <2>7, AppliedSays
  <2>9. y.ui.slice.bars = x.cache.bars \cap s.window
    BY <2>4, <2>8, SliceForSays DEF AppliedTo, Acting
  <2>10. ~ Touches(x.cache, s.window) => y.ui.slice.bars = {}
    BY <2>9 DEF Touches
  <2>11. TraceDone(x, y, s)
    BY <1>6, <2>2, <2>4, <2>8, <2>10 DEF TraceDone, AppliedTo
  <2>12. QED BY <1>2, <1>6, <2>11
<1>7. CASE /\ "load" \in due /\ s.market = "ready"
           /\ ~ (Covers(x.cache, s.window) /\ x.lanes.window = WindowKey(s))
  <2>1. PICK covered : covered \in BOOLEAN /\ (covered <=> Covers(x.cache, s.window))
    OBVIOUS
  <2>2. PICK range : range = IF covered THEN s.window ELSE MissingBars(x.cache, s.window)
    OBVIOUS
  <2>3. PICK stage : stage = IF covered THEN "dense" ELSE "display"
    OBVIOUS
  <2>4. PICK q : q = [key |-> Key(s), window |-> s.window, draws |-> ~covered,
                      range |-> range, stage |-> stage]
    OBVIOUS
  <2>5. s.window \in Windows /\ s.window \subseteq Bars /\ Key(s) \in LineKeys
    BY AuxAssumption, KeySays DEF PageTyped
  <2>6. range \subseteq Bars /\ stage \in {"display", "dense"}
    BY <2>2, <2>3, <2>5 DEF MissingBars
  <2>7. q \in LineCycles /\ CycleFor(q, s)
    BY <2>1, <2>4, <2>5, <2>6 DEF LineCycles, CycleFor
  <2>8. q # None
    BY <2>7, AuxAssumption
  <2>9. y = [x EXCEPT !.cycle = q]
    BY <1>2, <1>7, <2>1, <2>2, <2>3, <2>4 DEF TraceEffect
  <2>10. y = [ui |-> x.ui, owner |-> x.owner, fetches |-> x.fetches, cache |-> x.cache,
              lanes |-> x.lanes, cycle |-> q]
    BY <2>9 DEF Acting
  <2>11. /\ y.ui = x.ui /\ y.owner = x.owner /\ y.fetches = x.fetches /\ y.cache = x.cache
         /\ y.lanes = x.lanes /\ y.cycle = q
    BY <2>10
  <2>12. CycleTyped(q, x.cache)
    BY <2>7 DEF CycleTyped
  <2>13. Acting(y)
    BY <2>10, <2>11, <2>12 DEF Acting
  <2>14. TraceDone(x, y, s)
    BY <1>4, <2>7, <2>8, <2>11, <2>13 DEF TraceDone
  <2>15. QED BY <1>2, <1>7, <2>14
<1>8. QED BY <1>1, <1>5, <1>6, <1>7

(***************************************************************************)
(* The effects of a commit, together.                                       *)
(***************************************************************************)

\* The effects before the reset.
LEMMA EffectsBeforeReset ==
  ASSUME NEW x, NEW s, Acting(x), PageTyped(s), NEW y,
         y = FallbackEffect(BffEffect(SpecsEffect(DefaultEffect(InvalidEffect(x, s), s), s), s), s)
  PROVE  /\ Acting(y) /\ SameLoad(x, y)
         /\ "specs" \in due /\ "bff" \in due =>
              /\ y.owner.specs = SpecsOf(s) /\ "rev" \in y.ui.bumps
              /\ y.fetches \subseteq {s.variant}
         /\ "specs" \notin due =>
              /\ OwnedBy(x.owner, s) => OwnedBy(y.owner, s)
              /\ y.owner.exit \in {x.owner.exit, None}
              /\ y.fetches = x.fetches \/ y.fetches \subseteq {s.variant}
              /\ "bff" \notin due /\ Touches(x.cache, s.window) => y.owner = x.owner
<1>1. PICK a : a = InvalidEffect(x, s)
  OBVIOUS
<1>2. PICK b : b = DefaultEffect(a, s)
  OBVIOUS
<1>3. PICK c : c = SpecsEffect(b, s)
  OBVIOUS
<1>4. PICK d : d = BffEffect(c, s)
  OBVIOUS
<1>5. y = FallbackEffect(d, s)
  BY <1>1, <1>2, <1>3, <1>4
<1>6. Acting(a) /\ SameLoad(x, a) /\ a.owner = x.owner /\ a.fetches = x.fetches
  BY <1>1, InvalidEffectSays
<1>7. Acting(b) /\ SameLoad(a, b) /\ b.owner = a.owner /\ b.fetches = a.fetches
  BY <1>2, <1>6, DefaultEffectSays
<1>8. /\ Acting(c) /\ SameLoad(b, c) /\ c.fetches = b.fetches
      /\ "specs" \notin due => c.owner = b.owner
      /\ "specs" \in due => c.owner.specs = SpecsOf(s) /\ "rev" \in c.ui.bumps
  BY <1>3, <1>7, SpecsEffectSays
<1>9. /\ Acting(d) /\ SameLoad(c, d) /\ Fewer(c.owner, d.owner)
      /\ "bff" \notin due => d = c
      /\ "bff" \in due => d.fetches \subseteq {s.variant}
  BY <1>4, <1>8, BffEffectSays
<1>10. /\ Acting(y) /\ SameLoad(d, y) /\ y.fetches = d.fetches
       /\ Rewritten(d.owner, y.owner) \/ Fewer(d.owner, y.owner)
       /\ y.owner.specs = d.owner.specs
       /\ Touches(d.cache, s.window) => y = d
  BY <1>5, <1>9, FallbackEffectSays
<1>11. SameLoad(x, y) /\ d.cache = x.cache
  BY <1>6, <1>7, <1>8, <1>9, <1>10 DEF SameLoad
<1>12. ASSUME "specs" \in due, "bff" \in due
       PROVE  /\ y.owner.specs = SpecsOf(s) /\ "rev" \in y.ui.bumps
              /\ y.fetches \subseteq {s.variant}
  BY <1>8, <1>9, <1>10, <1>12 DEF SameLoad, Fewer
<1>13. ASSUME "specs" \notin due
       PROVE  /\ OwnedBy(x.owner, s) => OwnedBy(y.owner, s)
              /\ y.owner.exit \in {x.owner.exit, None}
              /\ y.fetches = x.fetches \/ y.fetches \subseteq {s.variant}
              /\ "bff" \notin due /\ Touches(x.cache, s.window) => y.owner = x.owner
  <2>1. c.owner = x.owner /\ c.fetches = x.fetches
    BY <1>6, <1>7, <1>8, <1>13
  <2>2. OwnedBy(x.owner, s) => OwnedBy(d.owner, s)
    BY <1>9, <2>1, FewerStaysOwned
  <2>3. OwnedBy(d.owner, s) => OwnedBy(y.owner, s)
    BY <1>10, FewerStaysOwned, RewrittenStaysOwned
  <2>4. d.owner.exit \in {x.owner.exit, None}
    BY <1>9, <2>1 DEF Fewer
  <2>5. y.owner.exit \in {d.owner.exit, None}
    BY <1>10 DEF Fewer, Rewritten
  <2>6. d.fetches = x.fetches \/ d.fetches \subseteq {s.variant}
    BY <1>9, <2>1
  <2>7. QED BY <1>9, <1>10, <1>11, <2>1, <2>2, <2>3, <2>4, <2>5, <2>6
<1>14. QED BY <1>10, <1>11, <1>12, <1>13

\* The effects of a commit keep the slices and the commit.  What they leave is
\* the page, the controller, the requests, the cache and the load in y.
LEMMA EffectsKeepInv ==
  ASSUME AuxInv, RunLineEffects
  PROVE  AuxInv'
<1> DEFINE s == commit.s
           x0 == [ui |-> page, owner |-> owner, fetches |-> fetches, cache |-> cache,
                  lanes |-> lanes, cycle |-> cycle]
<1>1. PICK x : x = x0
  OBVIOUS
<1>2. PICK x2 : x2 = FallbackEffect(BffEffect(
                       SpecsEffect(DefaultEffect(InvalidEffect(x, s), s), s), s), s)
  OBVIOUS
<1>3. PICK x3 : x3 = ResetEffect(x2, s)
  OBVIOUS
<1>4. PICK x4 : x4 = ApplyEffect(x3, s)
  OBVIOUS
<1>5. PICK y : y = TraceEffect(x4, s)
  OBVIOUS
<1>6. /\ due # {} /\ due' = {} /\ UNCHANGED <<commit, slices>>
      /\ page' = y.ui /\ owner' = y.owner /\ fetches' = y.fetches
      /\ cache' = y.cache /\ lanes' = y.lanes /\ cycle' = y.cycle
  BY <1>1, <1>2, <1>3, <1>4, <1>5 DEF RunLineEffects
<1>7. /\ x.ui = page /\ x.owner = owner /\ x.fetches = fetches /\ x.cache = cache
      /\ x.lanes = lanes /\ x.cycle = cycle
  BY <1>1
<1>8. PageTyped(s) /\ s.bumps = {} /\ Acting(x)
  BY <1>1, <1>7 DEF AuxInv, AuxTyped, Acting
<1> HIDE DEF x0
<1>9. /\ Acting(x2) /\ SameLoad(x, x2)
      /\ "specs" \in due /\ "bff" \in due =>
           /\ x2.owner.specs = SpecsOf(s) /\ "rev" \in x2.ui.bumps
           /\ x2.fetches \subseteq {s.variant}
      /\ "specs" \notin due =>
           /\ OwnedBy(x.owner, s) => OwnedBy(x2.owner, s)
           /\ x2.owner.exit \in {x.owner.exit, None}
           /\ x2.fetches = x.fetches \/ x2.fetches \subseteq {s.variant}
           /\ "bff" \notin due /\ Touches(x.cache, s.window) => x2.owner = x.owner
  BY <1>2, <1>8, EffectsBeforeReset
<1>10. /\ "reset" \notin due => x3 = x2
       /\ "reset" \in due => ResetDone(x2, x3, s)
  BY <1>3, <1>8, <1>9, ResetEffectSays
<1>11. Acting(x3)
  BY <1>9, <1>10 DEF ResetDone
<1>12. /\ "apply" \notin due => x4 = x3
       /\ "apply" \in due => AppliedTo(x3, x4, s)
  BY <1>4, <1>8, <1>11, AppliedSays DEF ApplyEffect
<1>13. Acting(x4) /\ x4.cache = x3.cache /\ x4.fetches = x3.fetches
       /\ x3.ui.bumps \subseteq x4.ui.bumps /\ x4.ui.loaded = x3.ui.loaded
       /\ Rewritten(x3.owner, x4.owner) /\ x4.cycle = x3.cycle
  <2>1. Rewritten(x3.owner, x3.owner)
    BY <1>11 DEF Rewritten, Acting
  <2>2. QED BY <1>11, <1>12, <2>1 DEF AppliedTo
<1>14. s.window \in Windows /\ s.window # {} /\ Key(s) \in LineKeys
  BY <1>8, AuxAssumption, KeySays DEF PageTyped
<1>15. /\ "reset" \in due <=> "specs" \in due
       /\ "reset" \in due => "bff" \in due
       /\ "bff" \in due => "load" \in due
  BY DEF AuxInv, DueTogether
<1>16. "reset" \notin due =>
         /\ OwnedBy(owner, s) /\ cache.key = Key(s) /\ fetches \subseteq {s.variant}
         /\ LinesOf(slices.given, s) /\ LinesOf(slices.kept, s) /\ LinesOf(commit.drawn, s)
  BY <1>6 DEF AuxInv, Labelled, Emptied
<1>17. x4.cache.key = Key(s)
  <2>1. CASE "reset" \in due
    BY <1>10, <1>13, <2>1 DEF ResetDone
  <2>2. CASE "reset" \notin due
    BY <1>7, <1>9, <1>10, <1>13, <1>16, <2>2 DEF SameLoad
  <2>3. QED BY <2>1, <2>2
<1>18. /\ "load" \notin due => y = x4
       /\ "load" \in due => TraceDone(x4, y, s)
  BY <1>5, <1>8, <1>13, <1>14, <1>17, TraceEffectSays
<1>19. Acting(y) /\ y.cache = x4.cache /\ y.fetches = x4.fetches
       /\ x4.ui.bumps \subseteq y.ui.bumps /\ Rewritten(x4.owner, y.owner)
  <2>1. Rewritten(x4.owner, x4.owner)
    BY <1>13 DEF Rewritten, Acting
  <2>2. QED BY <1>13, <1>18, <2>1 DEF TraceDone
<1>20. AuxTyped'
  BY <1>6, <1>19 DEF AuxInv, AuxTyped, Acting
<1>21. DueTogether(due)' /\ KeptDrawn'
  BY <1>6 DEF AuxInv, DueTogether, KeptDrawn
\* A reset empties the controller and starts a cycle.
<1>22. ASSUME "reset" \in due
       PROVE  /\ OwnedBy(y.owner, s) /\ Bare(y.owner, y.ui) /\ y.fetches \subseteq {s.variant}
              /\ y.cycle # None => CycleFor(y.cycle, s)
              /\ s.market = "ready" => y.cycle # None
  <2>1. x2.owner.specs = SpecsOf(s) /\ "rev" \in x2.ui.bumps /\ x2.fetches \subseteq {s.variant}
    BY <1>9, <1>15, <1>22
  <2>2. /\ x3.cache = [key |-> Key(s), bars |-> {}]
        /\ x3.owner.specs = SpecsOf(s) /\ x3.owner.htf = None /\ x3.owner.exit = None
        /\ x3.owner.frozen = None /\ x3.fetches \subseteq {s.variant}
        /\ "rev" \in x3.ui.bumps /\ x3.ui.slice.bars = {}
    BY <1>10, <1>22, <2>1 DEF ResetDone
  <2>3. x3.cache.bars = {} /\ ~ Touches(x3.cache, s.window) /\ ~ Covers(x3.cache, s.window)
    BY <1>14, <2>2 DEF Touches, Covers
  <2>4. x4.owner = x3.owner /\ x4.ui.slice.bars = {}
    <3>1. CASE "apply" \notin due
      BY <1>12, <2>2, <3>1
    <3>2. CASE "apply" \in due
      <4>1. x4.owner = x3.owner /\ x4.ui.slice = SliceFor(x3.cache, s.window)
        BY <1>12, <2>3, <3>2 DEF AppliedTo
      <4>2. SliceFor(x3.cache, s.window).bars = {}
        BY <2>3 DEF SliceFor, NoSlice
      <4>3. QED BY <4>1, <4>2
    <3>3. QED BY <3>1, <3>2
  <2>5. TraceDone(x4, y, s)
    BY <1>15, <1>18, <1>22
  <2>6. y.owner = x3.owner /\ y.ui.slice.bars = {}
    BY <1>13, <2>3, <2>4, <2>5 DEF TraceDone
  <2>7. "rev" \in y.ui.bumps /\ y.fetches \subseteq {s.variant}
    BY <1>13, <1>19, <2>2
  <2>8. OwnedBy(y.owner, s)
    BY <2>2, <2>6 DEF OwnedBy, LinesOf, HtfOf, ExitOf
  <2>9. Bare(y.owner, y.ui)
    BY <2>2, <2>6, <2>7 DEF Bare
  <2>10. s.market = "ready" => y.cycle # None
    BY <1>13, <2>3, <2>5 DEF TraceDone
  <2>11. y.cycle # None => CycleFor(y.cycle, s)
    BY <2>5 DEF TraceDone
  <2>12. QED BY <2>7, <2>8, <2>9, <2>10, <2>11
\* Without one the lines that stay are the commit's.
<1>23. ASSUME "reset" \notin due
       PROVE  /\ OwnedBy(x3.owner, s) /\ OwnedBy(x4.owner, s) /\ OwnedBy(y.owner, s)
              /\ y.owner.exit \in {owner.exit, None}
              /\ y.fetches \subseteq {s.variant}
  <2>1. OwnedBy(x2.owner, s) /\ x2.owner.exit \in {owner.exit, None}
        /\ x2.fetches \subseteq {s.variant}
    BY <1>7, <1>9, <1>15, <1>16, <1>23
  <2>2. x3 = x2
    BY <1>10, <1>23
  <2>3. OwnedBy(x4.owner, s)
    BY <1>8, <1>13, <2>1, <2>2, RewrittenStaysOwned
  <2>4. OwnedBy(y.owner, s)
    BY <1>8, <1>19, <2>3, RewrittenStaysOwned
  <2>5. y.owner.exit = x2.owner.exit
    BY <1>13, <1>19, <2>2 DEF Rewritten
  <2>6. QED BY <1>13, <1>19, <2>1, <2>2, <2>3, <2>4, <2>5
<1>24. Labelled'
  <2>1. OwnedBy(y.owner, s) /\ y.cache.key = Key(s) /\ y.fetches \subseteq {s.variant}
    BY <1>17, <1>19, <1>22, <1>23
  <2>2. "reset" \in due => Emptied'
    BY <1>6, <1>22 DEF Emptied
  <2>3. QED BY <1>6, <1>16, <2>1, <2>2 DEF Labelled
<1>25. ExitWhole'
  <2>1. Whole(y.owner.exit, Bars)
    <3>1. CASE "reset" \in due
      BY <1>22, <3>1 DEF Bare, Whole
    <3>2. CASE "reset" \notin due
      <4>1. Whole(owner.exit, Bars)
        BY DEF AuxInv, ExitWhole
      <4>2. QED BY <1>23, <3>2, <4>1 DEF Whole
    <3>3. QED BY <3>1, <3>2
  <2>2. QED BY <1>6, <2>1 DEF AuxInv, ExitWhole
<1>26. KeptCut'
  <2>1. "reset" \in due => Emptied'
    BY <1>6, <1>22 DEF Emptied
  <2>2. ~ Emptied
    BY <1>6 DEF Emptied
  <2>3. QED BY <1>6, <2>1, <2>2 DEF AuxInv, KeptCut
<1>27. CycleHere'
  <2>1. CASE "load" \in due
    BY <1>6, <1>18, <2>1 DEF CycleHere, TraceDone
  <2>2. CASE "load" \notin due
    <3>1. y.cycle = cycle
      BY <1>7, <1>9, <1>10, <1>13, <1>15, <1>18, <2>2 DEF SameLoad
    <3>2. QED BY <1>6, <2>2, <3>1 DEF AuxInv, CycleHere
  <2>3. QED BY <2>1, <2>2
<1>28. Caught'
  <2>1. SUFFICES ASSUME y.cycle = None, s.market = "ready"
                 PROVE  /\ y.ui.loaded = WindowKey(s) /\ OwnerCaught(y.owner, y.cache, y.ui, s)
                        /\ "rev" \notin y.ui.bumps /\ SpecsOf(s).htf /\ Touches(y.cache, s.window) =>
                             /\ slices.given.htf = y.owner.htf
                             /\ Count(slices.kept.htf) = Count(y.owner.htf)
    BY <1>6 DEF Caught, ListCaught
  <2>2. "reset" \notin due
    BY <1>22, <2>1
  <2>3. OwnedBy(x4.owner, s) /\ OwnedBy(x3.owner, s) /\ x3 = x2 /\ x4.cache.key = Key(s)
        /\ y.cache = x4.cache /\ x4.cache = x3.cache /\ x3.cache = cache
    BY <1>7, <1>9, <1>10, <1>13, <1>17, <1>19, <1>23, <2>2 DEF SameLoad
  <2>4. CASE "load" \in due
    <3>1. /\ y.ui.loaded = WindowKey(s)
          /\ OwnerCaught(y.owner, y.cache, y.ui, s)
          /\ Touches(y.cache, s.window) /\ x4.owner.specs.htf => "rev" \in y.ui.bumps
      BY <1>18, <2>1, <2>3, <2>4 DEF TraceDone
    <3>2. x4.owner.specs = SpecsOf(s)
      BY <2>3 DEF OwnedBy
    <3>3. QED BY <3>1, <3>2
  <2>5. CASE "load" \notin due
    <3>1. y = x4 /\ "bff" \notin due /\ "specs" \notin due
      BY <1>15, <1>18, <2>5
    <3>2. cycle = None
      BY <1>7, <1>9, <1>13, <2>1, <2>3, <3>1 DEF SameLoad
    <3>3. page.loaded = WindowKey(s) /\ OwnerCaught(owner, cache, page, s) /\ ListCaught
      BY <2>1, <2>5, <3>2 DEF AuxInv, Caught
    <3>4. /\ x3.ui.loaded = page.loaded /\ x3.ui.slice = page.slice
          /\ page.bumps \subseteq x3.ui.bumps
      BY <1>7, <1>9, <2>3 DEF SameLoad
    <3>5. y.ui.loaded = WindowKey(s)
      BY <1>13, <3>1, <3>3, <3>4
    <3>6. page.bumps \subseteq y.ui.bumps
      BY <1>13, <3>1, <3>4
    <3>7. OwnerCaught(y.owner, cache, y.ui, s)
      <4>1. SUFFICES ASSUME SpecsOf(s).htf, Touches(cache, s.window)
                     PROVE  /\ y.ui.slice = SliceFor(cache, s.window)
                            /\ y.owner.htf = Line(Key(s), cache.key, cache.bars \cap s.window)
        BY DEF OwnerCaught
      <4>2. x3.owner = owner
        BY <1>7, <1>9, <2>3, <3>1, <4>1
      <4>3. CASE "apply" \notin due
        <5>1. y = x3
          BY <1>12, <3>1, <4>3
        <5>2. QED BY <3>3, <3>4, <4>1, <4>2, <5>1 DEF OwnerCaught
      <4>4. CASE "apply" \in due
        <5>1. OwnerCaught(y.owner, cache, y.ui, s)
          BY <1>12, <2>3, <3>1, <4>4 DEF AppliedTo
        <5>2. QED BY <4>1, <5>1 DEF OwnerCaught
      <4>5. QED BY <4>3, <4>4
    <3>8. ASSUME "rev" \notin y.ui.bumps, SpecsOf(s).htf, Touches(cache, s.window)
          PROVE  slices.given.htf = y.owner.htf /\ Count(slices.kept.htf) = Count(y.owner.htf)
      <4>1. slices.given.htf = owner.htf /\ Count(slices.kept.htf) = Count(owner.htf)
        BY <3>3, <3>6, <3>8 DEF ListCaught
      <4>2. y.owner.htf = owner.htf
        BY <3>3, <3>7, <3>8 DEF OwnerCaught
      <4>3. QED BY <4>1, <4>2
    <3>9. QED BY <2>3, <3>5, <3>7, <3>8
  <2>6. QED BY <2>4, <2>5
<1>29. QED BY <1>20, <1>21, <1>24, <1>25, <1>26, <1>27, <1>28 DEF AuxInv

(***************************************************************************)
(* The render.                                                              *)
(***************************************************************************)

\* Where two slices have the same fingerprint they are for the same window and
\* have as many bars.
LEMMA FingerprintSays ==
  ASSUME NEW p, NEW q, NEW v, NEW w, Fingerprint(p, v) = Fingerprint(q, w)
  PROVE  v = w /\ Count(p.htf) = Count(q.htf) /\ Count(p.exit) = Count(q.exit)
  BY DEF Fingerprint

\* A missing line has no count.
LEMMA CountSays ==
  ASSUME NEW l, NEW m, Count(l) = Count(m)
  PROVE  l = None <=> m = None
  BY DEF Count

\* The list of a render is read from the controller or is the one before.
LEMMA GivenIsReadOrKept ==
  ASSUME NEW s
  PROVE  \/ Given(s).htf = owner.htf /\ Given(s).exit = owner.exit
         \/ "rev" \notin page.bumps /\ Given(s) = slices.given
<1> DEFINE reads == "rev" \in page.bumps \/ s.variant # commit.s.variant \/ s.market # commit.s.market
<1>1. CASE reads
  <2>1. Given(s) = [htf |-> owner.htf, exit |-> owner.exit]
    BY <1>1 DEF Given
  <2>2. QED BY <2>1
<1>2. CASE ~ reads
  BY <1>2 DEF Given
<1>3. QED BY <1>1, <1>2

\* The list a render reads.  Emptied, it reads the empty controller; a list it
\* does not read again is the one before.
LEMMA GivenSays ==
  ASSUME AuxInv, due = {}, NEW s, s = [page EXCEPT !.bumps = {}], Key(s) = Key(commit.s)
  PROVE  /\ LinesOf(Given(s), s)
         /\ Emptied => Given(s).htf = None /\ Given(s).exit = None
<1>1. OwnedBy(owner, commit.s) /\ (Emptied \/ LinesOf(slices.given, commit.s))
  BY DEF AuxInv, Labelled
<1>2. s.variant = commit.s.variant /\ SpecsOf(s) = SpecsOf(commit.s)
  BY SameKeySameSpecs
<1>3. \/ Given(s).htf = owner.htf /\ Given(s).exit = owner.exit
      \/ "rev" \notin page.bumps /\ Given(s) = slices.given
  BY GivenIsReadOrKept
<1>4. Emptied => "rev" \in page.bumps /\ owner.htf = None /\ owner.exit = None
  BY DEF Emptied, Bare
<1>5. LinesOf(Given(s), commit.s)
  BY <1>1, <1>3, <1>4 DEF OwnedBy, LinesOf
<1>6. LinesOf(Given(s), s)
  BY <1>2, <1>5 DEF LinesOf, HtfOf, ExitOf
<1>7. QED BY <1>3, <1>4, <1>6

\* Either way it has lines, and exit lines that are whole.
LEMMA GivenIsTyped ==
  ASSUME AuxInv, NEW s
  PROVE  LinesOk(Given(s)) /\ Whole(Given(s).exit, Bars)
<1>1. /\ LinesOk(owner) /\ LinesOk(slices.given)
      /\ Whole(owner.exit, Bars) /\ Whole(slices.given.exit, Bars)
  BY DEF AuxInv, AuxTyped, OwnerTyped, ExitWhole
<1>2. \/ Given(s).htf = owner.htf /\ Given(s).exit = owner.exit
      \/ Given(s) = slices.given
  BY GivenIsReadOrKept
<1>3. QED BY <1>1, <1>2 DEF LinesOk

\* The slice a render keeps: it is cut to the window and has the fingerprint of
\* the list, whether it was kept or is new.
LEMMA StableSays ==
  ASSUME AuxInv, due = {}, NEW given, LinesOk(given), Whole(given.exit, Bars),
         NEW window \in SUBSET Bars,
         Emptied => given.htf = None /\ given.exit = None,
         NEW raw, raw = SliceOf(given, window), NEW list, list = Stable(raw, window)
  PROVE  /\ LinesOk(raw) /\ LinesOk(list)
         /\ list.htf # None => list.htf.bars \subseteq window
         /\ Whole(list.exit, window)
         /\ Fingerprint(list, window) = Fingerprint(raw, window)
         /\ Emptied => list.htf = None /\ list.exit = None
<1>1. raw.htf = Cut(given.htf, window) /\ raw.exit = Cut(given.exit, window)
  BY DEF SliceOf
<1>2. /\ LinesOk(raw) /\ (raw.htf = None <=> given.htf = None)
      /\ raw.exit = None <=> given.exit = None
      /\ raw.htf # None => raw.htf.bars \subseteq window
      /\ Whole(raw.exit, window)
  <2>1. PICK h : h = Cut(given.htf, window)
    OBVIOUS
  <2>2. PICK e : e = Cut(given.exit, window)
    OBVIOUS
  <2>3. LineOk(given.htf) /\ LineOk(given.exit)
    BY DEF LinesOk
  <2>4. PICK gh : gh = given.htf
    OBVIOUS
  <2>5. PICK ge : ge = given.exit
    OBVIOUS
  <2>6. LineOk(h) /\ (h = None <=> gh = None) /\ (gh # None => h.bars = gh.bars \cap window)
    BY <2>1, <2>3, <2>4, CutKeeps
  <2>7. LineOk(e) /\ (e = None <=> ge = None) /\ (ge # None => e.bars = ge.bars \cap window)
    BY <2>2, <2>3, <2>5, CutKeeps
  <2>8. e # None => e.bars = window
    BY <2>5, <2>7 DEF Whole
  <2>9. QED BY <1>1, <2>1, <2>2, <2>4, <2>5, <2>6, <2>7, <2>8 DEF LinesOk, Whole
<1>3. CASE slices.print # Fingerprint(raw, window)
  BY <1>2, <1>3 DEF Stable
<1>4. CASE slices.print = Fingerprint(raw, window)
  <2>1. list = slices.kept
    BY <1>4 DEF Stable
  <2>2. LinesOk(list) /\ (list.htf # None => list.htf.bars \subseteq commit.s.window)
        /\ Whole(list.exit, commit.s.window)
    BY <2>1 DEF AuxInv, AuxTyped, KeptCut, ExitWhole
  <2>3. \/ slices.print = Fingerprint(list, commit.s.window)
        \/ list.htf = None /\ list.exit = None /\ Emptied
    BY <2>1 DEF AuxInv, KeptCut
  <2>4. CASE slices.print = Fingerprint(list, commit.s.window)
    <3>1. Fingerprint(list, commit.s.window) = Fingerprint(raw, window)
      BY <1>4, <2>4
    <3>2. commit.s.window = window /\ Count(list.htf) = Count(raw.htf)
          /\ Count(list.exit) = Count(raw.exit)
      BY <3>1, FingerprintSays
    <3>3. (list.htf = None <=> raw.htf = None) /\ (list.exit = None <=> raw.exit = None)
      BY <3>2, CountSays
    <3>4. QED BY <1>2, <2>1, <2>2, <3>1, <3>2, <3>3
  <2>5. CASE /\ slices.print # Fingerprint(list, commit.s.window)
             /\ list.htf = None /\ list.exit = None /\ Emptied
    <3>1. raw.htf = None /\ raw.exit = None
      BY <1>2, <2>5
    <3>2. Fingerprint(list, window) = Fingerprint(raw, window)
      BY <2>5, <3>1 DEF Fingerprint
    <3>3. LinesOk(list) /\ Whole(list.exit, window)
      BY <2>5 DEF LinesOk, LineOk, Whole
    <3>4. QED BY <1>2, <2>5, <3>2, <3>3
  <2>6. QED BY <2>3, <2>4, <2>5
<1>5. QED BY <1>3, <1>4

\* The chart draws the line or leaves the one before it.
LEMMA PaintSays ==
  ASSUME NEW line, NEW before
  PROVE  /\ Paint(line, before) \in {line, before}
         /\ line = None \/ line.bars # {} => Paint(line, before) = line
         /\ Paint(line, before) # None => line # None
  BY DEF Paint

\* What is on the chart after a render that draws.
LEMMA DrawnSays ==
  ASSUME AuxInv, NEW s, PageTyped(s), NEW own, OwnerTyped(own), NEW list, LinesOk(list),
         NEW drawn, drawn = Painted(Display(own, list, s)),
         NEW window \in SUBSET Bars, window = s.window, window # {}, Whole(list.exit, window)
  PROVE  /\ LinesOk(drawn) /\ drawn.exit = list.exit
         /\ \/ drawn.htf = None
            \/ list.htf # None /\ drawn.htf # None /\ drawn.htf.label = list.htf.label
            \/ own.frozen # None /\ drawn.htf # None /\ drawn.htf.label = own.frozen.label
            \/ drawn.htf = commit.drawn.htf
         /\ list.htf = None /\ own.frozen = None => drawn.htf = None
         /\ Matches(s) /\ list.htf # None /\ list.htf.bars # {} /\ list.htf.bars \subseteq window =>
              drawn.htf = Cut(list.htf, window)
<1>1. PICK source : source = IF ~Matches(s) /\ own.frozen # None THEN own.frozen ELSE list.htf
  OBVIOUS
<1>2. PICK cut : cut = Cut(source, window)
  OBVIOUS
<1>3. Display(own, list, s) = [exit |-> list.exit, htf |-> cut]
  BY <1>1, <1>2 DEF Display
<1>4. drawn = [htf |-> Paint(cut, commit.drawn.htf), exit |-> Paint(list.exit, commit.drawn.exit)]
  BY <1>3 DEF Painted
<1>5. drawn.htf = Paint(cut, commit.drawn.htf) /\ drawn.exit = Paint(list.exit, commit.drawn.exit)
  BY <1>4
<1>6. LineOk(source) /\ LineOk(list.htf) /\ LineOk(list.exit) /\ LineOk(commit.drawn.htf)
  BY <1>1 DEF LinesOk, OwnerTyped, AuxInv, AuxTyped
<1>7. /\ LineOk(cut) /\ (cut = None <=> source = None)
      /\ source # None => /\ cut.label = source.label
                          /\ cut.bars = source.bars \cap window
                          /\ source.bars \subseteq window => cut = source
  BY <1>2, <1>6, CutKeeps
<1>8. /\ drawn.htf \in {cut, commit.drawn.htf} /\ (drawn.htf # None => cut # None)
      /\ cut = None \/ cut.bars # {} => drawn.htf = cut
  BY <1>5, PaintSays
<1>9. drawn.exit = list.exit
  <2>1. list.exit = None \/ list.exit.bars # {}
    BY DEF Whole
  <2>2. QED BY <1>5, <2>1, PaintSays
<1>10. LinesOk(drawn)
  BY <1>6, <1>7, <1>8, <1>9 DEF LinesOk
<1>11. \/ drawn.htf = None
       \/ list.htf # None /\ drawn.htf # None /\ drawn.htf.label = list.htf.label
       \/ own.frozen # None /\ drawn.htf # None /\ drawn.htf.label = own.frozen.label
       \/ drawn.htf = commit.drawn.htf
  BY <1>1, <1>7, <1>8
<1>12. list.htf = None /\ own.frozen = None => drawn.htf = None
  BY <1>1, <1>7, <1>8
<1>13. ASSUME Matches(s), list.htf # None, list.htf.bars # {}, list.htf.bars \subseteq window
       PROVE  drawn.htf = Cut(list.htf, window)
  <2>1. source = list.htf
    BY <1>1, <1>13
  <2>2. cut = source /\ cut.bars # {}
    BY <1>7, <1>13, <2>1
  <2>3. QED BY <1>2, <1>8, <2>1, <2>2
<1>14. QED BY <1>9, <1>10, <1>11, <1>12, <1>13

\* The effects a commit triggers come together.
LEMMA TriggeredSays ==
  ASSUME NEW s, NEW t, NEW bumps
  PROVE  /\ DueTogether(Triggered(s, t, bumps))
         /\ "reset" \notin Triggered(s, t, bumps) => Key(s) = Key(t)
         /\ "load" \notin Triggered(s, t, bumps) =>
              Key(s) = Key(t) /\ s.window = t.window /\ s.market = t.market
<1>1. PICK T : T = Triggered(s, t, bumps)
  OBVIOUS
<1>2. /\ "reset" \in T <=> Key(s) # Key(t)
      /\ "specs" \in T <=> Key(s) # Key(t)
      /\ "bff" \in T <=> Key(s) # Key(t) \/ s.market # t.market
      /\ "load" \in T <=> Key(s) # Key(t) \/ s.window # t.window \/ s.market # t.market
  BY <1>1 DEF Triggered
<1>3. DueTogether(T)
  BY <1>2 DEF DueTogether
<1>4. QED BY <1>1, <1>2, <1>3

\* A render: with the key unchanged every line stays the commit's, and with the
\* window unchanged what the load caught reaches the list.
LEMMA RenderKeepsInv ==
  ASSUME AuxInv, RenderLines
  PROVE  AuxInv'
<1>1. PICK s : s = [page EXCEPT !.bumps = {}]
  OBVIOUS
<1>2. PICK given : given = Given(s)
  OBVIOUS
<1>3. PICK raw : raw = SliceOf(given, s.window)
  OBVIOUS
<1>4. PICK list : list = Stable(raw, s.window)
  OBVIOUS
<1> DEFINE same == /\ page.bumps \cap {"rev", "apply"} = {} /\ list = slices.kept
                   /\ s = [commit.s EXCEPT !.market = s.market]
<1>5. PICK own : own = IF same THEN owner ELSE WithSlice(owner, s.slice)
  OBVIOUS
<1>6. PICK drawn : drawn = IF same THEN commit.drawn ELSE Painted(Display(own, list, s))
  OBVIOUS
<1> DEFINE keeps == ~same /\ Matches(s) /\ list.htf # None /\ list.htf.bars # {}
<1>7. /\ due = {} /\ commit' = [s |-> s, drawn |-> drawn]
      /\ owner' = (IF keeps THEN [own EXCEPT !.frozen = list.htf] ELSE own)
      /\ slices' = [given |-> given, kept |-> list, print |-> Fingerprint(raw, s.window)]
      /\ page' = s /\ due' = Triggered(commit.s, s, page.bumps)
      /\ UNCHANGED <<cache, lanes, cycle, fetches>>
  BY <1>1, <1>2, <1>3, <1>4, <1>5, <1>6 DEF RenderLines
<1>8. /\ commit'.s = s /\ commit'.drawn = drawn /\ slices'.given = given /\ slices'.kept = list
      /\ slices'.print = Fingerprint(raw, s.window)
  BY <1>7
<1>9. /\ PageTyped(page) /\ PageTyped(commit.s) /\ OwnerTyped(owner)
      /\ CacheTyped(cache) /\ LinesOk(commit.drawn)
  BY DEF AuxInv, AuxTyped
<1>10. /\ PageTyped(s) /\ s.bumps = {} /\ s.slice = page.slice /\ s.loaded = page.loaded
       /\ SliceTyped(s.slice)
  BY <1>1, <1>9 DEF PageTyped
<1>11. s.window \in SUBSET Bars /\ s.window # {}
  BY <1>10, AuxAssumption DEF PageTyped
<1>12. LinesOk(given) /\ Whole(given.exit, Bars)
  BY <1>2, GivenIsTyped
<1>13. Emptied => given.htf = None /\ given.exit = None
  <2>1. Emptied => "rev" \in page.bumps /\ owner.htf = None /\ owner.exit = None
    BY DEF Emptied, Bare
  <2>2. \/ given.htf = owner.htf /\ given.exit = owner.exit
        \/ "rev" \notin page.bumps
    BY <1>2, GivenIsReadOrKept
  <2>3. QED BY <2>1, <2>2
<1>14. /\ LinesOk(raw) /\ LinesOk(list)
       /\ list.htf # None => list.htf.bars \subseteq s.window
       /\ Whole(list.exit, s.window)
       /\ Fingerprint(list, s.window) = Fingerprint(raw, s.window)
       /\ Emptied => list.htf = None /\ list.exit = None
  <2>1. PICK w : w = s.window
    OBVIOUS
  <2>2. w \in SUBSET Bars /\ raw = SliceOf(given, w) /\ list = Stable(raw, w)
    BY <1>3, <1>4, <1>11, <2>1
  <2>3. /\ LinesOk(raw) /\ LinesOk(list)
        /\ list.htf # None => list.htf.bars \subseteq w
        /\ Whole(list.exit, w)
        /\ Fingerprint(list, w) = Fingerprint(raw, w)
        /\ Emptied => list.htf = None /\ list.exit = None
    BY <1>7, <1>12, <1>13, <2>2, StableSays
  <2>4. QED BY <2>1, <2>3
<1>15. Rewritten(owner, own) /\ (s.slice.bars = {} => own = owner)
  <2>1. Rewritten(owner, owner)
    BY <1>9 DEF Rewritten
  <2>2. PICK sl : sl = s.slice
    OBVIOUS
  <2>3. /\ Rewritten(owner, WithSlice(owner, sl))
        /\ sl.bars = {} => WithSlice(owner, sl) = owner
    BY <1>9, <1>10, <2>2, WithSliceRewrites
  <2>4. QED BY <1>5, <2>1, <2>2, <2>3
<1>16. OwnerTyped(own)
  BY <1>15 DEF Rewritten
<1>17. \/ owner' = own
       \/ list.htf # None /\ owner' = [own EXCEPT !.frozen = list.htf]
  BY <1>7
<1>18. /\ OwnerTyped(owner') /\ owner'.specs = own.specs
       /\ owner'.htf = own.htf /\ owner'.exit = own.exit
       /\ owner'.frozen = own.frozen \/ (list.htf # None /\ owner'.frozen = list.htf)
  <2>1. CASE owner' = own
    BY <1>16, <2>1
  <2>2. CASE list.htf # None /\ owner' = [own EXCEPT !.frozen = list.htf]
    <3>1. owner' = [specs |-> own.specs, htf |-> own.htf, exit |-> own.exit, frozen |-> list.htf]
      BY <1>16, <2>2 DEF OwnerTyped
    <3>2. LineOk(list.htf)
      BY <1>14 DEF LinesOk
    <3>3. OwnerTyped(owner')
      BY <1>16, <3>1, <3>2 DEF OwnerTyped, LinesOk
    <3>4. QED BY <2>2, <3>1, <3>3
  <2>3. QED BY <1>17, <2>1, <2>2
<1>19. same => /\ drawn = commit.drawn /\ own = owner /\ list = slices.kept
               /\ page.bumps \cap {"rev", "apply"} = {}
               /\ s.variant = commit.s.variant /\ s.ref = commit.s.ref
               /\ s.window = commit.s.window /\ s.loaded = commit.s.loaded
  <2>1. SUFFICES ASSUME same
                 PROVE  /\ s.variant = commit.s.variant /\ s.ref = commit.s.ref
                        /\ s.window = commit.s.window /\ s.loaded = commit.s.loaded
    BY <1>5, <1>6
  <2>2. s = [commit.s EXCEPT !.market = s.market]
    BY <2>1
  <2>3. QED BY <1>9, <2>2 DEF PageTyped
<1>20. ~ same =>
         /\ LinesOk(drawn) /\ drawn.exit = list.exit
         /\ \/ drawn.htf = None
            \/ list.htf # None /\ drawn.htf # None /\ drawn.htf.label = list.htf.label
            \/ own.frozen # None /\ drawn.htf # None /\ drawn.htf.label = own.frozen.label
            \/ drawn.htf = commit.drawn.htf
         /\ list.htf = None /\ own.frozen = None => drawn.htf = None
         /\ Matches(s) /\ list.htf # None /\ list.htf.bars # {} => drawn.htf = Cut(list.htf, s.window)
  <2>1. PICK w : w = s.window
    OBVIOUS
  <2>2. w \in SUBSET Bars /\ w # {} /\ Whole(list.exit, w)
        /\ (list.htf # None => list.htf.bars \subseteq w)
    BY <1>11, <1>14, <2>1
  <2>3. SUFFICES ASSUME ~ same
                 PROVE  /\ LinesOk(drawn) /\ drawn.exit = list.exit
                        /\ \/ drawn.htf = None
                           \/ list.htf # None /\ drawn.htf # None /\ drawn.htf.label = list.htf.label
                           \/ own.frozen # None /\ drawn.htf # None
                                /\ drawn.htf.label = own.frozen.label
                           \/ drawn.htf = commit.drawn.htf
                        /\ list.htf = None /\ own.frozen = None => drawn.htf = None
                        /\ Matches(s) /\ list.htf # None /\ list.htf.bars # {} =>
                             drawn.htf = Cut(list.htf, w)
    BY <2>1
  <2>4. drawn = Painted(Display(own, list, s))
    BY <1>6, <2>3
  <2>5. LinesOk(list)
    BY <1>14
  <2> HIDE DEF same
  <2>6. QED BY <1>10, <1>16, <2>1, <2>2, <2>4, <2>5, DrawnSays
<1> HIDE DEF same, keeps
<1>21. AuxTyped'
  <2>1. LinesOk(drawn)
    BY <1>9, <1>19, <1>20
  <2>2. QED BY <1>7, <1>8, <1>10, <1>12, <1>14, <1>18, <2>1 DEF AuxInv, AuxTyped
<1>22. /\ DueTogether(due)'
       /\ "reset" \notin due' => Key(commit.s) = Key(s)
       /\ "load" \notin due' =>
            Key(commit.s) = Key(s) /\ commit.s.window = s.window /\ commit.s.market = s.market
  <2>1. PICK b : b = page.bumps
    OBVIOUS
  <2>2. PICK r : r = commit.s
    OBVIOUS
  <2>3. due' = Triggered(r, s, b)
    BY <1>7, <2>1, <2>2
  <2>4. QED BY <2>2, <2>3, TriggeredSays
\* With the key the render keeps every line the commit's.
<1>23. ASSUME "reset" \notin due'
       PROVE  /\ OwnedBy(owner', s) /\ cache.key = Key(s) /\ fetches \subseteq {s.variant}
              /\ LinesOf(given, s) /\ LinesOf(list, s) /\ LinesOf(drawn, s)
  <2>1. Key(s) = Key(commit.s)
    BY <1>22, <1>23
  <2>2. s.variant = commit.s.variant /\ SpecsOf(s) = SpecsOf(commit.s)
    BY <2>1, SameKeySameSpecs
  <2>3. /\ OwnedBy(owner, commit.s) /\ cache.key = Key(commit.s)
        /\ fetches \subseteq {commit.s.variant}
        /\ \/ Emptied
           \/ LinesOf(slices.kept, commit.s) /\ LinesOf(commit.drawn, commit.s)
    BY <1>7 DEF AuxInv, Labelled
  <2>4. OwnedBy(owner, s)
    BY <2>1, <2>2, <2>3 DEF OwnedBy, LinesOf, HtfOf, ExitOf
  <2>5. OwnedBy(own, s)
    BY <1>10, <1>15, <2>4, RewrittenStaysOwned
  <2>6. LinesOf(given, s)
    BY <1>1, <1>2, <1>7, <2>1, GivenSays
  <2>7. LinesOf(list, s)
    <3>1. CASE Emptied
      BY <1>14, <3>1 DEF LinesOf, HtfOf, ExitOf
    <3>2. CASE ~ Emptied
      <4>1. LinesOf(slices.kept, s)
        BY <2>1, <2>2, <2>3, <3>2 DEF LinesOf, HtfOf, ExitOf
      <4>2. LinesOf(raw, s)
        <5>1. PICK w : w = s.window
          OBVIOUS
        <5>2. PICK gh : gh = given.htf
          OBVIOUS
        <5>3. PICK ge : ge = given.exit
          OBVIOUS
        <5>4. raw.htf = Cut(gh, w) /\ raw.exit = Cut(ge, w)
          BY <1>3, <5>1, <5>2, <5>3 DEF SliceOf
        <5>5. LineOk(gh) /\ LineOk(ge) /\ w \in SUBSET Bars
          BY <1>11, <1>12, <5>1, <5>2, <5>3 DEF LinesOk
        <5>6. /\ Cut(gh, w) = None <=> gh = None
              /\ gh # None => Cut(gh, w).label = gh.label
              /\ Cut(ge, w) = None <=> ge = None
              /\ ge # None => Cut(ge, w).label = ge.label
          BY <5>5, CutKeeps
        <5>7. HtfOf(gh, s) /\ ExitOf(ge, s)
          BY <2>6, <5>2, <5>3 DEF LinesOf
        <5>8. QED BY <5>4, <5>6, <5>7 DEF LinesOf, HtfOf, ExitOf
      <4>3. list = raw \/ list = slices.kept
        BY <1>4 DEF Stable
      <4>4. QED BY <4>1, <4>2, <4>3
    <3>3. QED BY <3>1, <3>2
  <2>8. OwnedBy(owner', s)
    BY <1>18, <2>5, <2>7 DEF OwnedBy, LinesOf, HtfOf
  <2>9. LinesOf(drawn, s)
    <3>1. CASE Emptied
      <4>1. "rev" \in page.bumps /\ s.slice.bars = {} /\ owner.frozen = None
        BY <1>10, <3>1 DEF Emptied, Bare
      <4>2. ~ same
        BY <1>19, <4>1
      <4>3. own.frozen = None /\ list.htf = None /\ list.exit = None
        BY <1>14, <1>15, <3>1, <4>1
      <4>4. drawn.htf = None /\ drawn.exit = None
        BY <1>20, <4>2, <4>3
      <4>5. QED BY <4>4 DEF LinesOf, HtfOf, ExitOf
    <3>2. CASE ~ Emptied
      <4>1. LinesOf(commit.drawn, s)
        BY <2>1, <2>2, <2>3, <3>2 DEF LinesOf, HtfOf, ExitOf
      <4>2. CASE same
        BY <1>19, <4>1, <4>2
      <4>3. CASE ~ same
        <5>1. HtfOf(list.htf, s) /\ HtfOf(own.frozen, s) /\ HtfOf(commit.drawn.htf, s)
              /\ ExitOf(list.exit, s)
          BY <2>5, <2>7, <4>1 DEF LinesOf, OwnedBy
        <5>2. HtfOf(drawn.htf, s)
          BY <1>20, <4>3, <5>1 DEF HtfOf
        <5>3. drawn.exit = list.exit
          BY <1>20, <4>3
        <5>4. QED BY <5>1, <5>2, <5>3 DEF LinesOf
      <4>4. QED BY <4>2, <4>3
    <3>3. QED BY <3>1, <3>2
  <2>10. QED BY <2>1, <2>2, <2>3, <2>6, <2>7, <2>8, <2>9
<1>24. Labelled'
  BY <1>7, <1>8, <1>23 DEF Labelled
<1>25. ExitWhole'
  <2>1. Whole(owner'.exit, Bars)
    BY <1>15, <1>18 DEF AuxInv, ExitWhole, Rewritten
  <2>2. Whole(drawn.exit, s.window)
    <3>1. CASE same
      BY <1>19, <3>1 DEF AuxInv, ExitWhole
    <3>2. CASE ~ same
      BY <1>14, <1>20, <3>2
    <3>3. QED BY <3>1, <3>2
  <2>3. QED BY <1>8, <1>12, <1>14, <2>1, <2>2 DEF ExitWhole
<1>26. KeptCut'
  BY <1>8, <1>14 DEF KeptCut
<1>27. KeptDrawn'
  <2>1. SUFFICES ASSUME Matches(s), list.htf # None, list.htf.bars # {}
                 PROVE  drawn.htf = Cut(list.htf, s.window)
    BY <1>8 DEF KeptDrawn
  <2>2. CASE same
    <3>1. Key(s) = Key(commit.s) /\ s.window = commit.s.window /\ s.loaded = commit.s.loaded
          /\ drawn = commit.drawn /\ list = slices.kept
      BY <1>19, <2>2, KeyDependsOn
    <3>2. Matches(commit.s)
      BY <2>1, <3>1 DEF Matches, WindowKey
    <3>3. QED BY <2>1, <3>1, <3>2 DEF AuxInv, KeptDrawn
  <2>3. CASE ~ same
    BY <1>20, <2>1, <2>3
  <2>4. QED BY <2>2, <2>3
<1>28. CycleHere'
  <2>1. SUFFICES ASSUME cycle # None, "load" \notin due'
                 PROVE  CycleFor(cycle, s)
    BY <1>7, <1>8 DEF CycleHere
  <2>2. CycleFor(cycle, commit.s)
    BY <1>7, <2>1 DEF AuxInv, CycleHere
  <2>3. QED BY <1>22, <2>1, <2>2 DEF CycleFor
<1>29. Caught'
  <2>1. SUFFICES ASSUME cycle = None, "load" \notin due', s.market = "ready"
                 PROVE  /\ s.loaded = WindowKey(s) /\ OwnerCaught(owner', cache, s, s)
                        /\ SpecsOf(s).htf /\ Touches(cache, s.window) =>
                             given.htf = owner'.htf /\ Count(list.htf) = Count(owner'.htf)
    BY <1>7, <1>8 DEF Caught, ListCaught
  <2>2. Key(s) = Key(commit.s) /\ commit.s.window = s.window /\ commit.s.market = "ready"
    BY <1>22, <2>1
  <2>3. SpecsOf(s) = SpecsOf(commit.s)
    BY <2>2, SameKeySameSpecs
  <2>4. page.loaded = WindowKey(commit.s) /\ OwnerCaught(owner, cache, page, commit.s)
        /\ ListCaught
    BY <1>7, <2>1, <2>2 DEF AuxInv, Caught
  <2>5. s.loaded = WindowKey(s)
    BY <1>10, <2>2, <2>4 DEF WindowKey
  <2>6. ASSUME SpecsOf(s).htf, Touches(cache, s.window)
        PROVE  /\ s.slice = SliceFor(cache, s.window)
               /\ owner'.htf = Line(Key(s), cache.key, cache.bars \cap s.window)
               /\ given.htf = owner'.htf /\ Count(list.htf) = Count(owner'.htf)
    <3>1. /\ s.slice = SliceFor(cache, s.window)
          /\ owner.htf = Line(Key(s), cache.key, cache.bars \cap s.window)
      BY <1>10, <2>2, <2>3, <2>4, <2>6 DEF OwnerCaught
    <3>2. "reset" \notin due' /\ OwnedBy(owner, commit.s) /\ cache.key = Key(s)
      BY <1>7, <1>22, <2>1, <2>2 DEF AuxInv, Labelled, DueTogether
    <3>3. own.htf = owner.htf
      <4>1. CASE same
        BY <1>19, <4>1
      <4>2. CASE ~ same
        <5>1. PICK sl : sl = s.slice
          OBVIOUS
        <5>2. sl.of = cache.key /\ sl.bars = cache.bars \cap s.window /\ sl.bars # {}
          BY <1>9, <2>6, <3>1, <5>1, SliceForSays
        <5>3. owner.specs.htf /\ owner.specs.key = Key(s) /\ Key(s)[2] # None
          BY <1>10, <2>3, <2>6, <3>2, KeySays DEF OwnedBy
        <5>4. WithSlice(owner, sl).htf = Line(owner.specs.key, sl.of, sl.bars)
          <6>1. OwnerTyped(owner) /\ SliceTyped(sl) /\ sl.of[2] # None
            BY <1>9, <1>10, <3>2, <5>1, <5>2, <5>3
          <6>2. QED BY <5>2, <5>3, <6>1, WithSliceRewrites
        <5>5. own = WithSlice(owner, sl)
          BY <1>5, <4>2, <5>1
        <5>6. QED BY <3>1, <5>2, <5>3, <5>4, <5>5
      <4>3. QED BY <4>1, <4>2
    <3>4. given.htf = owner.htf
      <4>1. \/ given.htf = owner.htf
            \/ "rev" \notin page.bumps /\ given = slices.given
        BY <1>2, GivenIsReadOrKept
      <4>2. "rev" \notin page.bumps => slices.given.htf = owner.htf
        BY <2>2, <2>3, <2>4, <2>6 DEF ListCaught
      <4>3. QED BY <4>1, <4>2
    <3>5. raw.htf = owner.htf
      <4>1. PICK w : w = s.window
        OBVIOUS
      <4>2. PICK bars : bars = cache.bars \cap w
        OBVIOUS
      <4>3. PICK key : key = Key(s)
        OBVIOUS
      <4>4. key \in LineKeys /\ bars \in SUBSET Bars /\ bars \subseteq w /\ w \in SUBSET Bars
        BY <1>10, <1>11, <4>1, <4>2, <4>3, KeySays
      <4>5. PICK l : l = Line(key, key, bars)
        OBVIOUS
      <4>6. l \in Lines /\ l # None /\ l.bars = bars
        BY <4>4, <4>5, LineIsALine
      <4>7. Cut(l, w) = l
        BY <4>4, <4>6, CutKeeps DEF LineOk
      <4>8. owner.htf = l
        BY <3>1, <3>2, <4>1, <4>2, <4>3, <4>5
      <4>9. raw.htf = Cut(l, w)
        BY <1>3, <3>4, <4>1, <4>8 DEF SliceOf
      <4>10. QED BY <4>7, <4>8, <4>9
    <3>6. Count(list.htf) = Count(raw.htf)
      BY <1>14, FingerprintSays
    <3>7. owner'.htf = owner.htf
      BY <1>18, <3>3
    <3>8. QED BY <3>1, <3>4, <3>5, <3>6, <3>7
  <2>7. OwnerCaught(owner', cache, s, s)
    BY <2>6 DEF OwnerCaught
  <2>8. QED BY <2>5, <2>6, <2>7
<1>30. QED BY <1>21, <1>22, <1>24, <1>25, <1>26, <1>27, <1>28, <1>29 DEF AuxInv

(***************************************************************************)
(* The invariant holds throughout, and with it what the runs check.         *)
(***************************************************************************)

\* At the start every effect is due and there are no lines.
LEMMA AuxInitInv ==
  ASSUME AuxInit
  PROVE  AuxInv
<1>1. PICK v \in Variants, w \in Windows :
        /\ page = [variant |-> v, ref |-> None, window |-> w, market |-> "loading",
                   status |-> "idle", dense |-> None, loaded |-> None, slice |-> NoSlice,
                   bumps |-> {}]
        /\ commit = [s |-> page, drawn |-> [htf |-> None, exit |-> None]]
        /\ due = {"invalid", "default", "specs", "bff", "fallback", "reset", "apply", "load"}
        /\ owner = [specs |-> [key |-> None, htf |-> FALSE, exit |-> FALSE],
                    htf |-> None, exit |-> None, frozen |-> None]
        /\ slices = [given |-> [htf |-> None, exit |-> None],
                     kept |-> [htf |-> None, exit |-> None], print |-> None]
        /\ cache = [key |-> None, bars |-> {}] /\ lanes = NoLanes
        /\ cycle = None /\ fetches = {}
  BY DEF AuxInit
<1>2. /\ PageTyped(page) /\ page.bumps = {}
  BY <1>1 DEF PageTyped, Refs, DenseOk, SliceTyped, NoSlice
<1>3. commit.s = page /\ commit.drawn.htf = None /\ commit.drawn.exit = None
  BY <1>1
<1>4. /\ owner.htf = None /\ owner.exit = None /\ owner.frozen = None /\ ~ owner.specs.htf
      /\ owner = [specs |-> owner.specs, htf |-> owner.htf, exit |-> owner.exit,
                  frozen |-> owner.frozen]
  BY <1>1
<1>5. /\ slices.given.htf = None /\ slices.given.exit = None
      /\ slices.kept.htf = None /\ slices.kept.exit = None
  BY <1>1
<1>6. /\ "reset" \in due /\ "specs" \in due /\ "bff" \in due /\ "load" \in due
  BY <1>1
<1>7. CacheTyped(cache)
  BY <1>1 DEF CacheTyped
<1>8. AuxTyped
  BY <1>1, <1>2, <1>3, <1>4, <1>5, <1>7, NoLanesAreTyped
  DEF AuxTyped, OwnerTyped, LinesOk, LineOk, CycleTyped
<1>9. DueTogether(due) /\ Labelled /\ CycleHere /\ Caught
  BY <1>6 DEF DueTogether, Labelled, CycleHere, Caught
<1>10. ExitWhole /\ KeptCut /\ KeptDrawn
  BY <1>3, <1>4, <1>5, <1>6 DEF ExitWhole, Whole, KeptCut, KeptDrawn
<1>11. QED BY <1>8, <1>9, <1>10 DEF AuxInv

\* Every step keeps the invariant.
LEMMA AuxStepInv ==
  ASSUME AuxInv, [AuxNext]_auxVars
  PROVE  AuxInv'
<1>1. CASE RenderLines
  BY <1>1, RenderKeepsInv
<1>2. CASE RunLineEffects
  BY <1>2, EffectsKeepInv
<1>3. CASE ChunkArrives
  BY <1>3, ChunkKeepsInv
<1>4. CASE DenseArrives \/ TraceFails
  BY <1>4, CycleEndsKeepInv
<1>5. ASSUME NEW v \in Variants, ExitLineArrives(v)
      PROVE  AuxInv'
  BY <1>5, ExitLineKeepsInv
<1>6. CASE \/ \E v \in Variants :
                PickVariant(v) \/ \E r \in Contexts[v] \cup {None} : PickContext(r)
           \/ \E w \in Windows : MoveWindow(w)
           \/ MarketLoads \/ MarketReady
  BY <1>6, UserKeepsInv
<1>7. CASE UNCHANGED auxVars
  <2>1. PageTyped(page) /\ PageTyped(page')
        /\ UNCHANGED <<page, commit, due, owner, slices, cache, lanes, cycle, fetches>>
    BY <1>7 DEF auxVars, AuxInv, AuxTyped
  <2>2. QED BY <2>1, PageMovesKeepInv
<1>8. QED BY <1>1, <1>2, <1>3, <1>4, <1>5, <1>6, <1>7 DEF AuxNext

\* The invariant of the overlays holds in every reachable state.
THEOREM AuxAlwaysInv == AuxSpec => []AuxInv
<1>1. AuxInit => AuxInv
  BY AuxInitInv
<1>2. AuxInv /\ [AuxNext]_auxVars => AuxInv'
  BY AuxStepInv
<1>3. QED BY <1>1, <1>2, PTL DEF AuxSpec

\* At rest nothing is left to be told to React, so the controller has been read.
LEMMA RestMeansRead ==
  ASSUME AuxInv, AtRest
  PROVE  /\ "rev" \notin page.bumps /\ ~ Emptied /\ "reset" \notin due /\ "load" \notin due
         /\ page = commit.s
  BY DEF AuxInv, AuxTyped, AtRest, Emptied, Bare

\* With nothing under way and something in the cache, the controller has the
\* lines of the selected context there, and the chart draws the kept slice, which
\* has as many bars.
LEMMA QuietMeansDrawn ==
  ASSUME AuxInv, AuxQuiet, SpecsOf(commit.s).htf, Touches(cache, commit.s.window)
  PROVE  /\ owner.htf = Line(Key(commit.s), Key(commit.s), cache.bars \cap commit.s.window)
         /\ slices.kept.htf # None /\ commit.drawn.htf = slices.kept.htf
         /\ slices.kept.htf.bars \subseteq commit.s.window
         /\ Cardinality(slices.kept.htf.bars) = Cardinality(cache.bars \cap commit.s.window)
<1>1. AtRest /\ cycle = None /\ commit.s.market = "ready"
  BY DEF AuxQuiet
<1>2. "rev" \notin page.bumps /\ "load" \notin due /\ "reset" \notin due /\ page = commit.s
  BY <1>1, RestMeansRead
<1>3. PICK s : s = commit.s
  OBVIOUS
<1>4. PICK bars : bars = cache.bars \cap s.window
  OBVIOUS
<1>5. PageTyped(s) /\ CacheTyped(cache) /\ LinesOk(slices.kept)
  BY <1>3 DEF AuxInv, AuxTyped
<1>6. s.loaded = WindowKey(s)
      /\ owner.htf = Line(Key(s), cache.key, bars)
      /\ Count(slices.kept.htf) = Count(owner.htf)
  BY <1>1, <1>2, <1>3, <1>4 DEF AuxInv, Caught, OwnerCaught, ListCaught
<1>7. cache.key = Key(s)
  BY <1>2, <1>3 DEF AuxInv, Labelled
<1>8. Key(s) \in LineKeys /\ bars \in SUBSET Bars /\ bars # {} /\ s.window \in SUBSET Bars
  BY <1>3, <1>4, <1>5, KeySays, AuxAssumption DEF CacheTyped, PageTyped, Touches
<1>9. owner.htf # None /\ owner.htf.bars = bars
  <2>1. PICK k : k = Key(s)
    OBVIOUS
  <2>2. k \in LineKeys /\ owner.htf = Line(k, k, bars)
    BY <1>6, <1>7, <1>8, <2>1
  <2>3. QED BY <1>8, <2>2, LineIsALine
<1>10. slices.kept.htf # None
  BY <1>6, <1>9, CountSays
<1>11. Cardinality(slices.kept.htf.bars) = Cardinality(bars)
  <2>1. Count(owner.htf) = {Cardinality(bars)}
    BY <1>9 DEF Count
  <2>2. Count(slices.kept.htf) = {Cardinality(slices.kept.htf.bars)}
    BY <1>10 DEF Count
  <2>3. QED BY <1>6, <2>1, <2>2
<1>12. slices.kept.htf.bars # {}
  <2>1. IsFiniteSet(bars)
    BY <1>8, AuxAssumption, FS_Subset
  <2>2. Cardinality(bars) # 0
    BY <1>8, <2>1, FS_EmptySet
  <2>3. Cardinality({}) = 0
    BY FS_EmptySet
  <2>4. QED BY <1>11, <2>2, <2>3
<1>13. slices.kept.htf.bars \subseteq s.window
  BY <1>3, <1>10 DEF AuxInv, KeptCut
<1>14. commit.drawn.htf = Cut(slices.kept.htf, s.window)
  BY <1>3, <1>6, <1>10, <1>12 DEF AuxInv, KeptDrawn, Matches
<1>15. Cut(slices.kept.htf, s.window) = slices.kept.htf
  <2>1. PICK l : l = slices.kept.htf
    OBVIOUS
  <2>2. PICK w : w = s.window
    OBVIOUS
  <2>3. LineOk(l) /\ l # None /\ l.bars \subseteq w /\ w \in SUBSET Bars
    BY <1>5, <1>8, <1>10, <1>13, <2>1, <2>2 DEF LinesOk
  <2>4. Cut(l, w) = l
    BY <2>3, CutKeeps
  <2>5. QED BY <2>1, <2>2, <2>4
<1>16. QED BY <1>3, <1>4, <1>6, <1>7, <1>10, <1>11, <1>13, <1>14, <1>15

(***************************************************************************)
(* How far the load is: a second invariant over the first.                  *)
(***************************************************************************)

\* The range a cycle still waits for is what its window lacks.
Pending(y, c) ==
  y # None => y.window \subseteq c.bars \cup (IF y.stage = "display" THEN y.range ELSE {})

\* Lanes that are idle are no window's.
LanesTold(l) == l.status = "idle" => l.window = None

\* Where the load is over it has failed, or the cache covers the window.
LoadOver(u, c, s) ==
  /\ u.status # "idle"
  /\ u.status = "ready" => Covers(c, s.window)

LoadInv ==
  /\ Pending(cycle, cache) /\ LanesTold(lanes)
  /\ cycle = None /\ "load" \notin due /\ commit.s.market = "ready" =>
       LoadOver(page, cache, commit.s)

\* The range asked for has every bar of the window that the cache lacks.
LEMMA MissingMeans ==
  ASSUME NEW c, NEW w \in SUBSET Bars
  PROVE  w \subseteq c.bars \cup MissingBars(c, w)
<1>1. ASSUME NEW b \in w, b \notin c.bars
      PROVE  b \in MissingBars(c, w)
  <2>1. b \in Nat
    BY AuxAssumption
  <2>2. b \in w \ c.bars /\ b <= b
    BY <1>1, <2>1
  <2>3. QED BY <2>2 DEF MissingBars
<1>2. QED BY <1>1

\* None of the effects before the load changes React's status.
LEMMA StatusStays ==
  ASSUME NEW x, NEW s, Acting(x)
  PROVE  /\ InvalidEffect(x, s).ui.status = x.ui.status
         /\ DefaultEffect(x, s).ui.status = x.ui.status
         /\ SpecsEffect(x, s).ui.status = x.ui.status
         /\ BffEffect(x, s).ui.status = x.ui.status
         /\ FallbackEffect(x, s).ui.status = x.ui.status
         /\ ResetEffect(x, s).ui.status = x.ui.status
         /\ ApplyEffect(x, s).ui.status = x.ui.status
<1>1. x = [ui |-> x.ui, owner |-> x.owner, fetches |-> x.fetches, cache |-> x.cache,
           lanes |-> x.lanes, cycle |-> x.cycle]
      /\ PageTyped(x.ui)
  BY DEF Acting
<1>2. ASSUME NEW u, PageTyped(u), NEW what
      PROVE  Bumped(u, what).status = u.status
  BY <1>2 DEF Bumped, PageTyped
<1>3. InvalidEffect(x, s).ui.status = x.ui.status
  BY <1>1 DEF InvalidEffect, PageTyped
<1>4. DefaultEffect(x, s).ui.status = x.ui.status
  BY <1>1 DEF DefaultEffect, PageTyped
<1>5. SpecsEffect(x, s).ui.status = x.ui.status
  <2>1. SpecsEffect(x, s).ui \in {x.ui, Bumped(x.ui, {"rev"})}
    BY <1>1 DEF SpecsEffect
  <2>2. QED BY <1>1, <1>2, <2>1
<1>6. BffEffect(x, s).ui.status = x.ui.status
  <2>1. BffEffect(x, s).ui \in {x.ui, Bumped(x.ui, {"rev"})}
    BY <1>1 DEF BffEffect
  <2>2. QED BY <1>1, <1>2, <2>1
<1>7. FallbackEffect(x, s).ui.status = x.ui.status
  <2>1. FallbackEffect(x, s).ui \in {x.ui, Bumped(x.ui, {"rev"})}
    BY <1>1 DEF FallbackEffect
  <2>2. QED BY <1>1, <1>2, <2>1
<1>8. ResetEffect(x, s).ui.status = x.ui.status
  <2>1. PICK w : w = [x.ui EXCEPT !.slice = NoSlice]
    OBVIOUS
  <2>2. PageTyped(w) /\ w.status = x.ui.status
    BY <1>1, <2>1 DEF PageTyped, SliceTyped, NoSlice
  <2>3. ResetEffect(x, s).ui \in {x.ui, Bumped(w, {"version"})}
    BY <1>1, <2>1 DEF ResetEffect
  <2>4. QED BY <1>2, <2>2, <2>3
<1>9. ApplyEffect(x, s).ui.status = x.ui.status
  <2>1. PICK sl : sl = SliceFor(x.cache, s.window)
    OBVIOUS
  <2>2. PICK w : w = [x.ui EXCEPT !.slice = sl]
    OBVIOUS
  <2>3. SliceTyped(sl)
    BY <2>1, SliceForSays DEF Acting
  <2>4. PageTyped(w) /\ w.status = x.ui.status
    BY <1>1, <2>2, <2>3 DEF PageTyped
  <2>5. ApplyEffect(x, s).ui \in {x.ui, Bumped(w, {"apply", "rev"}), Bumped(w, {"apply"})}
    BY <1>1, <2>1, <2>2 DEF ApplyEffect, Applied
  <2>6. QED BY <1>2, <2>4, <2>5
<1>10. QED BY <1>3, <1>4, <1>5, <1>6, <1>7, <1>8, <1>9

\* What the load leaves: a cycle whose range the cache waits for, or lanes that
\* are the window's.
LoadDone(x, y, s) ==
  /\ Pending(y.cycle, x.cache) /\ y.lanes \in {x.lanes, NoLanes}
  /\ s.market = "ready" /\ y.cycle = None =>
       /\ y.ui.status = x.lanes.status /\ x.lanes.window = WindowKey(s)
       /\ Covers(x.cache, s.window)

\* The load starts with the missing range, or takes the lanes it has.
LEMMA LoadSays ==
  ASSUME NEW x, NEW s, Acting(x), PageTyped(s), "load" \in due
  PROVE  LoadDone(x, TraceEffect(x, s), s)
<1>1. PICK y : y = TraceEffect(x, s)
  OBVIOUS
<1>2. /\ x = [ui |-> x.ui, owner |-> x.owner, fetches |-> x.fetches, cache |-> x.cache,
              lanes |-> x.lanes, cycle |-> x.cycle]
      /\ PageTyped(x.ui) /\ LanesTyped(x.lanes)
  BY DEF Acting
<1>3. CASE s.market # "ready"
  <2>1. y.cycle = None /\ y.lanes = NoLanes
    BY <1>1, <1>2, <1>3 DEF TraceEffect
  <2>2. QED BY <1>1, <1>3, <2>1 DEF LoadDone, Pending
<1>4. CASE s.market = "ready" /\ Covers(x.cache, s.window) /\ x.lanes.window = WindowKey(s)
  <2>1. PICK u : u = WithLanes(x.ui, x.lanes)
    OBVIOUS
  <2>2. PageTyped(u) /\ u.status = x.lanes.status
    <3>1. u.status = x.lanes.status
      BY <1>2, <2>1 DEF WithLanes, PageTyped
    <3>2. QED BY <1>2, <2>1, <3>1, WithLanesSays
  <2>3. PICK z : z = [ui |-> u, owner |-> x.owner, fetches |-> x.fetches, cache |-> x.cache,
                      lanes |-> x.lanes, cycle |-> None]
    OBVIOUS
  <2>4. Acting(z) /\ z.ui = u /\ z.lanes = x.lanes /\ z.cycle = None
    BY <2>2, <2>3 DEF Acting, CycleTyped
  <2>5. z = [x EXCEPT !.cycle = None, !.ui = WithLanes(x.ui, x.lanes)]
    <3>1. PICK e : e = [x EXCEPT !.cycle = None, !.ui = u]
      OBVIOUS
    <3>2. e = [ui |-> u, owner |-> x.owner, fetches |-> x.fetches, cache |-> x.cache,
               lanes |-> x.lanes, cycle |-> None]
      BY <1>2, <3>1
    <3>3. QED BY <2>1, <2>3, <3>1, <3>2
  <2>6. y = Applied(z, s)
    BY <1>1, <1>4, <2>5 DEF TraceEffect
  <2>7. y.lanes = x.lanes /\ y.cycle = None
    BY <2>4, <2>6, AppliedSays DEF AppliedTo
  <2>8. y.ui.status = x.lanes.status
    <3>1. PICK sl : sl = SliceFor(z.cache, s.window)
      OBVIOUS
    <3>2. PICK w : w = [u EXCEPT !.slice = sl]
      OBVIOUS
    <3>3. SliceTyped(sl)
      BY <2>4, <3>1, SliceForSays DEF Acting
    <3>4. PageTyped(w) /\ w.status = x.lanes.status
      BY <2>2, <3>2, <3>3 DEF PageTyped
    <3>5. y.ui \in {Bumped(w, {"apply", "rev"}), Bumped(w, {"apply"})}
      BY <2>3, <2>4, <2>6, <3>1, <3>2 DEF Applied
    <3>6. QED BY <3>4, <3>5 DEF Bumped, PageTyped
  <2>9. LoadDone(x, y, s)
    BY <1>4, <2>7, <2>8 DEF LoadDone, Pending
  <2>10. QED BY <1>1, <2>9
<1>5. CASE s.market = "ready" /\ ~ (Covers(x.cache, s.window) /\ x.lanes.window = WindowKey(s))
  <2>1. PICK covered : covered \in BOOLEAN /\ (covered <=> Covers(x.cache, s.window))
    OBVIOUS
  <2>2. PICK range : range = IF covered THEN s.window ELSE MissingBars(x.cache, s.window)
    OBVIOUS
  <2>3. PICK stage : stage = IF covered THEN "dense" ELSE "display"
    OBVIOUS
  <2>4. PICK q : q = [key |-> Key(s), window |-> s.window, draws |-> ~covered,
                      range |-> range, stage |-> stage]
    OBVIOUS
  <2>5. y = [x EXCEPT !.cycle = q]
    BY <1>1, <1>5, <2>1, <2>2, <2>3, <2>4 DEF TraceEffect
  <2>6. y.cycle = q /\ y.lanes = x.lanes
    BY <1>2, <2>5
  <2>7. s.window \in SUBSET Bars
    BY AuxAssumption DEF PageTyped
  <2>8. Pending(q, x.cache)
    <3>1. ~ covered => s.window \subseteq x.cache.bars \cup MissingBars(x.cache, s.window)
      BY <2>7, MissingMeans
    <3>2. covered => s.window \subseteq x.cache.bars
      BY <2>1 DEF Covers
    <3>3. q.window = s.window /\ q.stage = stage /\ q.range = range
      BY <2>4
    <3>4. QED BY <2>1, <2>2, <2>3, <3>1, <3>2, <3>3 DEF Pending
  <2>9. q # None
    <3>1. s.window \in Windows /\ s.window \subseteq Bars /\ Key(s) \in LineKeys
      BY AuxAssumption, KeySays DEF PageTyped
    <3>2. range \subseteq Bars /\ stage \in {"display", "dense"}
      BY <2>2, <2>3, <3>1 DEF MissingBars
    <3>3. q \in LineCycles
      BY <2>1, <2>4, <3>1, <3>2 DEF LineCycles
    <3>4. QED BY <3>3, AuxAssumption
  <2>10. LoadDone(x, y, s)
    BY <2>6, <2>8, <2>9 DEF LoadDone
  <2>11. QED BY <1>1, <2>10
<1>6. QED BY <1>3, <1>4, <1>5

\* The effects of a commit keep the second invariant.
LEMMA EffectsKeepLoad ==
  ASSUME AuxInv, LoadInv, RunLineEffects
  PROVE  LoadInv'
<1> DEFINE s == commit.s
           x0 == [ui |-> page, owner |-> owner, fetches |-> fetches, cache |-> cache,
                  lanes |-> lanes, cycle |-> cycle]
<1>1. PICK x : x = x0
  OBVIOUS
<1>2. PICK xa : xa = InvalidEffect(x, s)
  OBVIOUS
<1>3. PICK xb : xb = DefaultEffect(xa, s)
  OBVIOUS
<1>4. PICK xc : xc = SpecsEffect(xb, s)
  OBVIOUS
<1>5. PICK xd : xd = BffEffect(xc, s)
  OBVIOUS
<1>6. PICK xe : xe = FallbackEffect(xd, s)
  OBVIOUS
<1>7. PICK xf : xf = ResetEffect(xe, s)
  OBVIOUS
<1>8. PICK xg : xg = ApplyEffect(xf, s)
  OBVIOUS
<1>9. PICK y : y = TraceEffect(xg, s)
  OBVIOUS
<1>10. /\ due' = {} /\ commit' = commit /\ page' = y.ui
       /\ cache' = y.cache /\ lanes' = y.lanes /\ cycle' = y.cycle
  BY <1>1, <1>2, <1>3, <1>4, <1>5, <1>6, <1>7, <1>8, <1>9 DEF RunLineEffects
<1>11. /\ x.ui = page /\ x.cache = cache /\ x.lanes = lanes /\ x.cycle = cycle
  BY <1>1
<1>12. PageTyped(s) /\ Acting(x)
  BY <1>1 DEF AuxInv, AuxTyped, Acting
<1> HIDE DEF x0
<1>13. /\ Acting(xa) /\ Acting(xb) /\ Acting(xc) /\ Acting(xd)
  BY <1>2, <1>3, <1>4, <1>5, <1>12, InvalidEffectSays, DefaultEffectSays, SpecsEffectSays,
     BffEffectSays
<1>14. Acting(xe) /\ SameLoad(x, xe)
  <2>1. xe = FallbackEffect(BffEffect(SpecsEffect(DefaultEffect(InvalidEffect(x, s), s), s), s), s)
    BY <1>2, <1>3, <1>4, <1>5, <1>6
  <2>2. QED BY <1>12, <2>1, EffectsBeforeReset
<1>15. xe.ui.status = page.status
  BY <1>2, <1>3, <1>4, <1>5, <1>6, <1>11, <1>12, <1>13, StatusStays
<1>16. Acting(xf) /\ xf.ui.status = xe.ui.status /\ xf.lanes \in {xe.lanes, NoLanes}
       /\ ("reset" \notin due => xf = xe)
  <2>1. xf.lanes \in {xe.lanes, NoLanes}
    BY <1>7, <1>14 DEF ResetEffect, Acting
  <2>2. QED BY <1>7, <1>12, <1>14, <2>1, ResetEffectSays, StatusStays DEF ResetDone
<1>17. /\ Acting(xg) /\ xg.ui.status = xf.ui.status
       /\ xg.cache = xf.cache /\ xg.lanes = xf.lanes /\ xg.cycle = xf.cycle
  <2>1. xg.ui.status = xf.ui.status
    BY <1>8, <1>16, StatusStays
  <2>2. CASE "apply" \in due
    <3>1. AppliedTo(xf, xg, s)
      BY <1>8, <1>12, <1>16, <2>2, AppliedSays DEF ApplyEffect
    <3>2. QED BY <2>1, <3>1 DEF AppliedTo
  <2>3. CASE "apply" \notin due
    BY <1>8, <1>16, <2>1, <2>3 DEF ApplyEffect
  <2>4. QED BY <2>2, <2>3
<1>18. LanesTold(NoLanes) /\ LanesTold(lanes) /\ LanesTold(xg.lanes)
  <2>1. LanesTold(NoLanes)
    BY DEF LanesTold, NoLanes
  <2>2. LanesTold(lanes)
    BY DEF LoadInv
  <2>3. QED BY <1>11, <1>14, <1>16, <1>17, <2>1, <2>2 DEF SameLoad
<1>19. CASE "load" \notin due
  <2>1. "reset" \notin due
    BY <1>19 DEF AuxInv, DueTogether
  <2>2. y = xg
    BY <1>9, <1>19 DEF TraceEffect
  <2>3. cache' = cache /\ cycle' = cycle /\ lanes' = lanes /\ page'.status = page.status
    BY <1>10, <1>11, <1>14, <1>15, <1>16, <1>17, <2>1, <2>2 DEF SameLoad
  <2>4. QED BY <1>10, <1>19, <2>3 DEF LoadInv, LoadOver
<1>20. CASE "load" \in due
  <2>1. LoadDone(xg, y, s)
    BY <1>9, <1>12, <1>17, <1>20, LoadSays
  <2>2. y.cache = xg.cache
    BY <1>9, <1>17 DEF TraceEffect, Applied, Acting
  <2>3. Pending(cycle', cache') /\ LanesTold(lanes')
    BY <1>10, <1>18, <2>1, <2>2 DEF LoadDone
  <2>4. ASSUME cycle' = None, commit'.s.market = "ready"
        PROVE  LoadOver(page', cache', commit'.s)
    <3>1. /\ y.ui.status = xg.lanes.status /\ xg.lanes.window = WindowKey(s)
          /\ Covers(xg.cache, s.window)
      BY <1>10, <2>1, <2>4 DEF LoadDone
    <3>2. WindowKey(s) # None
      <4>1. WindowKey(s) \in WindowKeys
        BY <1>12, KeySays DEF WindowKey, WindowKeys, PageTyped
      <4>2. QED BY <4>1, AuxAssumption
    <3>3. xg.lanes.status # "idle"
      BY <1>18, <3>1, <3>2 DEF LanesTold
    <3>4. QED BY <1>10, <2>2, <3>1, <3>3 DEF LoadOver
  <2>5. QED BY <2>3, <2>4 DEF LoadInv
<1>21. QED BY <1>19, <1>20

\* Every step keeps the second invariant.
LEMMA LoadStepInv ==
  ASSUME AuxInv, LoadInv, [AuxNext]_auxVars
  PROVE  LoadInv'
<1>1. CASE RenderLines
  <2>1. PICK s : s = [page EXCEPT !.bumps = {}]
    OBVIOUS
  <2>2. PageTyped(page)
    BY DEF AuxInv, AuxTyped
  <2>3. s.status = page.status
    BY <2>1, <2>2 DEF PageTyped
  <2>4. /\ due = {} /\ commit'.s = s /\ page' = s /\ UNCHANGED <<cache, lanes, cycle>>
        /\ due' = Triggered(commit.s, s, page.bumps)
    BY <1>1, <2>1 DEF RenderLines
  <2>5. "load" \notin due' => commit.s.window = s.window /\ commit.s.market = s.market
    BY <2>4, TriggeredSays
  <2>6. QED BY <2>3, <2>4, <2>5 DEF LoadInv, LoadOver
<1>2. CASE RunLineEffects
  BY <1>2, EffectsKeepLoad
<1>3. CASE ChunkArrives
  <2>1. cycle # None /\ cycle \in LineCycles /\ CacheTyped(cache) /\ cycle.stage = "display"
    BY <1>3 DEF ChunkArrives, AuxInv, AuxTyped, CycleTyped
  <2>2. /\ cache'.bars = cache.bars \cup cycle.range /\ UNCHANGED lanes
        /\ cycle'.window = cycle.window /\ cycle'.stage = "dense" /\ cycle' \in LineCycles
    BY <1>3, <2>1 DEF ChunkArrives, CacheTyped, LineCycles
  <2>3. cycle' # None
    BY <2>2, AuxAssumption
  <2>4. QED BY <2>1, <2>2, <2>3 DEF LoadInv, Pending
<1>4. ASSUME NEW l, NEW bumps, Ended(l, bumps), l.status \in {"ready", "error"}, cycle # None,
             l.status = "ready" => cycle.stage = "dense"
      PROVE  LoadInv'
  <2>1. /\ lanes' = l /\ cycle' = None
        /\ page' = Applied([ui |-> Bumped(WithLanes(page, l), bumps), owner |-> owner,
                            cache |-> cache], commit.s).ui
        /\ UNCHANGED <<commit, due, cache>>
    BY <1>4 DEF Ended
  <2>2. PageTyped(page) /\ CacheTyped(cache)
    BY DEF AuxInv, AuxTyped
  <2>3. page'.status = l.status
    <3>1. PICK u : u = Bumped(WithLanes(page, l), bumps)
      OBVIOUS
    <3>2. /\ u = [variant |-> u.variant, ref |-> u.ref, window |-> u.window, market |-> u.market,
                  status |-> u.status, dense |-> u.dense, loaded |-> u.loaded,
                  slice |-> u.slice, bumps |-> u.bumps]
          /\ u.status = l.status
      BY <2>2, <3>1 DEF PageTyped, Bumped, WithLanes
    <3>3. PICK sl : sl = SliceFor(cache, commit.s.window)
      OBVIOUS
    <3>4. PICK w : w = [u EXCEPT !.slice = sl]
      OBVIOUS
    <3>5. page' \in {Bumped(w, {"apply", "rev"}), Bumped(w, {"apply"})}
      BY <2>1, <3>1, <3>3, <3>4 DEF Applied
    <3>6. QED BY <3>2, <3>4, <3>5 DEF Bumped
  <2>4. ASSUME "load" \notin due, commit.s.market = "ready"
        PROVE  LoadOver(page', cache, commit.s)
    <3>1. cycle.window = commit.s.window
      BY <1>4, <2>4 DEF AuxInv, CycleHere, CycleFor
    <3>2. QED BY <1>4, <2>3, <3>1 DEF LoadOver, LoadInv, Pending, Covers
  <2>5. QED BY <1>4, <2>1, <2>4 DEF LoadInv, Pending, LanesTold
<1>5. CASE DenseArrives \/ TraceFails
  BY <1>4, <1>5 DEF DenseArrives, TraceFails
<1>6. ASSUME page'.status = page.status, UNCHANGED <<commit, due, cache, lanes, cycle>>
      PROVE  LoadInv'
  BY <1>6 DEF LoadInv, LoadOver
<1>7. ASSUME NEW v \in Variants, ExitLineArrives(v)
      PROVE  LoadInv'
  <2>1. PageTyped(page) /\ page' = Bumped(page, {"rev"})
        /\ UNCHANGED <<commit, due, cache, lanes, cycle>>
    BY <1>7 DEF ExitLineArrives, AuxInv, AuxTyped
  <2>2. page'.status = page.status
    BY <2>1 DEF Bumped, PageTyped
  <2>3. QED BY <1>6, <2>1, <2>2
<1>8. CASE \/ \E v \in Variants :
                PickVariant(v) \/ \E r \in Contexts[v] \cup {None} : PickContext(r)
           \/ \E w \in Windows : MoveWindow(w)
           \/ MarketLoads \/ MarketReady
  <2>1. PageTyped(page)
    BY DEF AuxInv, AuxTyped
  <2>2. page'.status = page.status /\ UNCHANGED <<commit, due, cache, lanes, cycle>>
    BY <1>8, <2>1 DEF PickVariant, PickContext, MoveWindow, MarketLoads, MarketReady, Set, PageTyped
  <2>3. QED BY <1>6, <2>2
<1>9. CASE UNCHANGED auxVars
  BY <1>6, <1>9 DEF auxVars
<1>10. QED BY <1>1, <1>2, <1>3, <1>5, <1>7, <1>8, <1>9 DEF AuxNext

\* Both invariants hold in every reachable state.
LEMMA AlwaysLoadInv == AuxSpec => [](AuxInv /\ LoadInv)
<1>1. AuxInit => AuxInv /\ LoadInv
  <2>1. AuxInit => LoadInv
    BY DEF AuxInit, LoadInv, Pending, LanesTold, NoLanes
  <2>2. QED BY <2>1, AuxInitInv
<1>2. AuxInv /\ LoadInv /\ [AuxNext]_auxVars => (AuxInv /\ LoadInv)'
  BY AuxStepInv, LoadStepInv
<1>3. QED BY <1>1, <1>2, PTL DEF AuxSpec

\* With nothing under way and nothing in the cache for the window, the load has
\* failed.
LEMMA NothingMeansFailed ==
  ASSUME AuxInv, LoadInv, AuxQuiet, Cached = {}
  PROVE  commit.s.status = "error"
<1>1. AtRest /\ cycle = None /\ commit.s.market = "ready"
  BY DEF AuxQuiet
<1>2. "load" \notin due /\ page = commit.s
  BY <1>1, RestMeansRead
<1>3. PageTyped(commit.s)
  BY DEF AuxInv, AuxTyped
<1>4. commit.s.status # "idle"
      /\ (commit.s.status = "ready" => commit.s.window \subseteq cache.bars)
  BY <1>1, <1>2 DEF LoadInv, LoadOver, Covers
<1>5. commit.s.window # {}
  BY <1>3, AuxAssumption DEF PageTyped
<1>6. commit.s.status # "ready"
  BY <1>4, <1>5 DEF Cached
<1>7. QED BY <1>3, <1>4, <1>6 DEF PageTyped

(* Once a selection has been rendered no line on the chart is labelled by      *)
(* another context or variant, and with nothing under way none lies outside   *)
(* the render window, whatever the traces, the exit lines and the market do   *)
(* in between: the reset empties the controller before the list is read       *)
(* again.  Nor are the values another context's, unless the load failed with  *)
(* nothing cached or the kept slice has as many points as the right lines.    *)
THEOREM NoLineIsEverLeftOver == AuxSpec => []NoLineIsLeftOver
<1>1. ASSUME AuxInv, LoadInv
      PROVE  NoLineIsLeftOver
  <2>1. AuxTypeOK
    <3>1. \A line \in {owner.htf, owner.exit, owner.frozen} :
            line # None => line.bars \subseteq Bars
      BY <1>1 DEF AuxInv, AuxTyped, OwnerTyped, LinesOk, LineOk, Lines
    <3>2. QED BY <1>1, <3>1 DEF AuxTypeOK, AuxInv, AuxTyped, PageTyped, CacheTyped
  <2>2. ASSUME AtRest
        PROVE  LinesOf(commit.drawn, commit.s)
    <3>1. "reset" \notin due /\ ~ Emptied
      BY <1>1, <2>2, RestMeansRead
    <3>2. QED BY <1>1, <3>1 DEF AuxInv, Labelled
  <2>3. ASSUME AuxQuiet, Cached # {}
        PROVE  /\ commit.drawn.htf # None => commit.drawn.htf.bars \subseteq commit.s.window
               /\ commit.drawn.exit # None => commit.drawn.exit.bars \subseteq commit.s.window
               /\ commit.drawn.htf # None => KeptSlice
    <3>1. LinesOf(commit.drawn, commit.s) /\ Touches(cache, commit.s.window)
      BY <2>2, <2>3 DEF AuxQuiet, Touches, Cached
    <3>2. commit.drawn.exit # None => commit.drawn.exit.bars \subseteq commit.s.window
      BY <1>1 DEF AuxInv, ExitWhole, Whole
    <3>3. CASE SpecsOf(commit.s).htf
      BY <1>1, <2>3, <3>1, <3>2, <3>3, QuietMeansDrawn DEF KeptSlice, Cached
    <3>4. CASE ~ SpecsOf(commit.s).htf
      BY <3>1, <3>2, <3>4 DEF LinesOf, HtfOf
    <3>5. QED BY <3>3, <3>4
  <2>4. ASSUME AuxQuiet, Cached = {}
        PROVE  commit.s.status = "error"
    BY <1>1, <2>4, NothingMeansFailed
  <2>5. QED BY <2>1, <2>2, <2>3, <2>4 DEF NoLineIsLeftOver, LinesOf, HtfOf, ExitOf
<1>2. QED BY <1>1, AlwaysLoadInv, PTL

(* With nothing under way the controller has the values of the selected        *)
(* context at the bars that the display cache has for the window, and these    *)
(* or a kept slice of as many points are on the chart: no answer, reset,       *)
(* change of context or pan in between has taken them away for good.          *)
THEOREM CachedHtfIsAlwaysDrawn == AuxSpec => []CachedHtfIsDrawn
<1>1. ASSUME AuxInv
      PROVE  CachedHtfIsDrawn
  <2>1. SUFFICES ASSUME AuxQuiet, SpecsOf(commit.s).htf, Cached # {}
                 PROVE  /\ owner.htf = Line(Key(commit.s), Key(commit.s), Cached)
                        /\ KeptSlice
    BY DEF CachedHtfIsDrawn
  <2>2. Touches(cache, commit.s.window)
    BY <2>1 DEF Touches, Cached
  <2>3. QED BY <1>1, <2>1, <2>2, QuietMeansDrawn DEF KeptSlice, Cached
<1>2. QED BY <1>1, AuxAlwaysInv, PTL
=============================================================================
