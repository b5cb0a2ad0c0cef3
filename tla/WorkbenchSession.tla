-------------------------- MODULE WorkbenchSession --------------------------
(* The session part of WorkbenchProvider (WorkbenchContext.tsx): the list of  *)
(* stored runs, the selected run and its report, the variant and the trade    *)
(* selected in it.  React state is `ui'; a commit copies it to `shown' and    *)
(* leaves in `pend' the passive effects whose dependencies changed; answers   *)
(* of the research API may arrive before a commit or between a commit and its *)
(* effects, user events only after both (React flushes the effects first).    *)
(* Runs are numbered in the order they are stored, 0 is "no run".  A list     *)
(* answer is the number of runs stored when the server read its directory.    *)
EXTENDS Naturals, Sequences, SequencesExt

CONSTANTS MaxRuns,      \* bound on the runs the server ever stores
          Stored,       \* runs stored when the page is opened
          Reports,      \* Reports[r]: the variants of run r, in report order
          Fails         \* subset of {"list", "report"}: the calls that may fail

NoTrade == 0
Trade == [id : Nat \ {NoTrade}, closed : BOOLEAN]
Variant == [variant : STRING, trades : Seq(Trade)]

ASSUME SessionAssumption ==
  /\ MaxRuns \in Nat /\ Stored \in 0..MaxRuns
  /\ DOMAIN Reports = 1..MaxRuns
  /\ \A r \in 1..MaxRuns : Reports[r] \in Seq(Variant) /\ Len(Reports[r]) > 0
  /\ Fails \subseteq {"list", "report"}

VARIABLES server,   \* number of runs the server has stored
          ui,       \* React state, with the updates queued since the last commit
          shown,    \* the state of the last commit
          pend,     \* dependencies that changed at the last commit, effects not yet run
          refs,     \* selectedVariantKeyRef, prevVariantKeyRef, prevRunIdForTradeBootstrapRef
          loads,    \* fetchRunReport calls in flight and not cancelled
          boots,    \* bootstrap list calls in flight and not cancelled: runs stored when sent
          refreshes \* refreshRunsAndSelectRun calls in flight
vars == <<server, ui, shown, pend, refs, loads, boots, refreshes>>

DefaultRun(n) == n

(* ---- trade lookup ---------------------------------------------------- *)
Position(trades, id) == SelectInSeq(trades, LAMBDA t : t.id = id)
InVariant(trades, id) == Position(trades, id) > 0
Named(run, key) == SelectInSeq(Reports[run], LAMBDA v : v.variant = key)
VariantOf(run, key) == Reports[run][IF Named(run, key) = 0 THEN 1 ELSE Named(run, key)]
KeyFor(run, previous) ==
  IF Named(run, previous) = 0 THEN Head(Reports[run]).variant ELSE previous
LastClosed(trades) ==
  LET i == SelectLastInSeq(trades, LAMBDA t : t.closed) IN IF i = 0 THEN NoTrade ELSE trades[i].id
Adjacent(trades, id, step) ==
  LET i == Position(trades, id) IN
  IF i = 0 \/ i + step \notin DOMAIN trades THEN NoTrade ELSE trades[i + step].id
ByNumber(trades, n) == IF n > Len(trades) THEN n ELSE trades[n].id

(* ---- selections ------------------------------------------------------ *)
Trades(s) == VariantOf(s.rep, s.key).trades
\* bar: the run on whose candles the selected bar lies, 0 when none is selected
Focused(s, run, key) ==
  LET id == LastClosed(VariantOf(run, key).trades) IN
  [s EXCEPT !.trade = id, !.bar = IF id = NoTrade THEN 0 ELSE run]

(* ---- effects: s is the commit they close over, u the queued state ---- *)
Cancelled_Never(calls) == calls

Cancelled(calls) == {}

LoadEffect(u, s) ==
  IF "load" \in pend /\ s.sel # 0 THEN [u EXCEPT !.status = "loading", !.err = FALSE] ELSE u

LoadCalls_SkipShown(s) ==
  IF "load" \notin pend THEN loads
  ELSE Cancelled(loads) \union (IF s.sel \in {0, s.rep} THEN {} ELSE {s.sel})

LoadCalls(s) ==
  IF "load" \notin pend THEN loads
  ELSE Cancelled(loads) \union (IF s.sel = 0 THEN {} ELSE {s.sel})

BootCalls == IF "boot" \in pend THEN Cancelled(boots) \union {server} ELSE boots

KeyRef(s) == IF "key" \in pend THEN s.key ELSE refs.key

VariantEffect(u, s) ==
  IF "rep" \in pend /\ s.rep # 0 THEN [u EXCEPT !.key = KeyFor(s.rep, KeyRef(s))] ELSE u

TradeBootstraps_ByVariant(s) == "key" \in pend /\ s.rep # 0 /\ refs.prevKey # s.key

TradeBootstraps(s) ==
  /\ pend \intersect {"rep", "key"} # {} /\ s.rep # 0
  /\ refs.prevKey # s.key \/ refs.prevRun # s.rep

TradeEffect(u, s) == IF TradeBootstraps(s) THEN Focused(u, s.rep, s.key) ELSE u

MembershipEffect_None(u) == u

MembershipEffect(u) ==
  IF u.rep # 0 /\ u.trade # NoTrade /\ ~ InVariant(Trades(u), u.trade)
  THEN Focused(u, u.rep, u.key) ELSE u

(* ---- React ----------------------------------------------------------- *)
Changed(s, t) ==
  (IF s.sel # t.sel \/ s.tok # t.tok THEN {"load"} ELSE {})
    \union (IF s.tok # t.tok THEN {"boot"} ELSE {})
    \union (IF s.rep # t.rep \/ t.fresh THEN {"rep"} ELSE {})
    \union (IF s.key # t.key THEN {"key"} ELSE {})

\* a commit, with the layout effect that runs in it; its update re-renders at once
Render ==
  /\ ui # shown /\ pend = {}
  /\ shown' = [ui EXCEPT !.fresh = FALSE]
  /\ pend' = Changed(shown, ui)
  /\ ui' = MembershipEffect([ui EXCEPT !.fresh = FALSE])
  /\ UNCHANGED <<server, refs, loads, boots, refreshes>>

RunEffects ==
  /\ pend # {} /\ pend' = {}
  /\ ui' = TradeEffect(VariantEffect(LoadEffect(ui, shown), shown), shown)
  /\ loads' = LoadCalls(shown) /\ boots' = BootCalls
  /\ refs' = [key |-> IF "rep" \in pend /\ shown.rep # 0
                      THEN KeyFor(shown.rep, KeyRef(shown)) ELSE KeyRef(shown),
              prevKey |-> IF TradeBootstraps(shown) THEN shown.key ELSE refs.prevKey,
              prevRun |-> IF TradeBootstraps(shown) THEN shown.rep ELSE refs.prevRun]
  /\ UNCHANGED <<server, shown, refreshes>>

Rest == ui = shown /\ pend = {}

(* ---- answers --------------------------------------------------------- *)
ReportArrives(r) ==
  /\ r \in loads /\ loads' = loads \ {r}
  /\ \/ ui' = [ui EXCEPT !.rep = r, !.fresh = TRUE, !.status = "ready"]
     \/ /\ "report" \in Fails
        /\ ui' = [ui EXCEPT !.rep = 0, !.status = "error", !.err = TRUE]
  /\ UNCHANGED <<server, shown, pend, refs, boots, refreshes>>

Listed(n) ==
  IF n = 0 THEN [ui EXCEPT !.runs = 0, !.rep = 0, !.sel = 0, !.status = "error", !.err = TRUE]
  ELSE [ui EXCEPT !.runs = n, !.sel = IF ui.sel \in 1..n THEN ui.sel ELSE DefaultRun(n)]

BootArrives ==
  \E b \in boots :
    /\ boots' = boots \ {b}
    /\ \/ \E n \in b..server : ui' = Listed(n)
       \/ "list" \in Fails /\ ui' = [ui EXCEPT !.status = "error", !.err = TRUE]
    /\ UNCHANGED <<server, shown, pend, refs, loads, refreshes>>

\* not cancelled by anything: the answer selects the run whatever happened since it was sent
RefreshArrives ==
  \E c \in refreshes :
    /\ refreshes' = refreshes \ {c}
    /\ \/ \E n \in c..server : ui' = [ui EXCEPT !.runs = n, !.sel = c]
       \/ "list" \in Fails /\ UNCHANGED ui
    /\ UNCHANGED <<server, shown, pend, refs, loads, boots>>

\* a backtest stores its report; the composer's then lists the runs and selects it
BacktestStored ==
  /\ server < MaxRuns /\ server' = server + 1
  /\ refreshes' \in {refreshes, refreshes \union {server + 1}}
  /\ UNCHANGED <<ui, shown, pend, refs, loads, boots>>

(* ---- user events ----------------------------------------------------- *)
UserSets(u) ==
  Rest /\ ui' = u /\ UNCHANGED <<server, shown, pend, loads, boots, refreshes>>

ContextBarShown == shown.rep # 0
GateOpen == shown.status = "ready" /\ shown.rep # 0

SelectRun(r) ==
  /\ ContextBarShown /\ r \in 1..shown.runs
  /\ UserSets([ui EXCEPT !.sel = r]) /\ UNCHANGED refs

SelectVariant(v) ==
  /\ ContextBarShown /\ v \in DOMAIN Reports[shown.rep]
  /\ LET key == Reports[shown.rep][v].variant IN
     /\ refs' = [refs EXCEPT !.key = key]
     /\ UserSets(Focused([ui EXCEPT !.key = key], shown.rep, key))

SelectTrade(id) ==
  /\ GateOpen
  /\ UserSets([ui EXCEPT !.trade = id,
                         !.bar = IF InVariant(Trades(shown), id) THEN shown.rep ELSE @])
  /\ UNCHANGED refs

ClickTrade == \E i \in DOMAIN Trades(shown) : SelectTrade(Trades(shown)[i].id)
ClearTrade == shown.trade # NoTrade /\ SelectTrade(NoTrade)
StepTrade ==
  \E step \in {1, -1} :
    LET id == Adjacent(Trades(shown), shown.trade, step) IN id # NoTrade /\ SelectTrade(id)
\* one number past the last trade stands for every number typed beyond it
TypeNumber ==
  /\ shown.trade # NoTrade
  /\ \E n \in 1..(Len(Trades(shown)) + 1) :
       /\ ByNumber(Trades(shown), n) # shown.trade
       /\ SelectTrade(ByNumber(Trades(shown), n))

SelectBar(b) == GateOpen /\ UserSets([ui EXCEPT !.bar = b]) /\ UNCHANGED refs

Retry == shown.status = "error" /\ UserSets([ui EXCEPT !.tok = ~ @]) /\ UNCHANGED refs

PickTrade ==
  GateOpen /\ (ClickTrade \/ ClearTrade \/ StepTrade \/ TypeNumber
               \/ SelectBar(0) \/ SelectBar(shown.rep))

Init ==
  /\ server = Stored
  /\ ui = [runs |-> 0, sel |-> 0, rep |-> 0, fresh |-> FALSE, status |-> "loading", err |-> FALSE,
           key |-> "", trade |-> NoTrade, bar |-> 0, tok |-> FALSE]
  /\ shown = ui /\ pend = {"load", "boot", "rep", "key"}
  /\ refs = [key |-> "", prevKey |-> "", prevRun |-> 0]
  /\ loads = {} /\ boots = {} /\ refreshes = {}

Next ==
  \/ Render \/ RunEffects \/ BootArrives \/ RefreshArrives \/ BacktestStored \/ Retry
  \/ \E r \in 1..MaxRuns : ReportArrives(r) \/ SelectRun(r)
  \/ ContextBarShown /\ \E v \in DOMAIN Reports[shown.rep] : SelectVariant(v)
  \/ PickTrade

Spec == Init /\ [][Next]_vars

\* The browser renders and runs its effects, and every call is answered.
Fairness ==
  /\ WF_vars(Render) /\ WF_vars(RunEffects) /\ WF_vars(BootArrives)
  /\ \A r \in 1..MaxRuns : WF_vars(ReportArrives(r))
FairSpec == Spec /\ Fairness

(* ---- properties ------------------------------------------------------ *)
(* The types of the session's state.                                        *)
TypeOK ==
  /\ server \in 0..MaxRuns /\ ui.runs \in 0..server
  /\ ui.sel \in 0..server /\ ui.rep \in 0..server /\ ui.bar \in 0..server
  /\ ui.status \in {"loading", "ready", "error"}
  /\ {ui.fresh, ui.err, ui.tok} \subseteq BOOLEAN
  /\ loads \subseteq 1..server /\ boots \subseteq 0..server /\ refreshes \subseteq 1..server
  /\ pend \subseteq {"load", "boot", "rep", "key"}

(* A report shown as ready, once React has settled, is that of the selected *)
(* run: an answer for a run left in the meantime is dropped, whatever order *)
(* the answers, the commits and the effects come in (when a run is stored as *)
(* the page opens: the list that is read is not empty).                      *)
ReportIsSelected == Rest /\ ui.status = "ready" => ui.rep = ui.sel

(* The variant key, the trade and the bar selected belong to the report that *)
(* is shown, once React has settled: switching between runs that share       *)
(* variant names and trade ids, reloading and typing a number never leave    *)
(* one of another list selected.                                             *)
SelectionIsOfReport ==
  TypeOK /\ (Rest /\ ui.rep # 0 =>
    /\ Named(ui.rep, ui.key) # 0
    /\ ui.trade # NoTrade => InVariant(Trades(ui), ui.trade)
    /\ ui.bar \in {0, ui.rep})

(* The gate never hangs on "Loading research run": while the selection stays *)
(* the loading ends with the report or an error, also when calls fail, are   *)
(* retried, or the run selected is not in the list that is fetched again.    *)
(* It needs a run stored when the page is opened (Stored > 0): otherwise an   *)
(* empty list that comes between a commit and its effects takes the run      *)
(* back, the load effect of that commit says loading, and nothing loads.     *)
LoadingEnds ==
  \A r \in 0..MaxRuns : (ui.status = "loading" /\ ui.sel = r)
                           ~> (ui.status # "loading" \/ ui.sel # r)
=============================================================================
