------------------------------ MODULE MarketLoad ------------------------------
(***************************************************************************)
(* How the workbench loads the market data of the chart: the focus window  *)
(* around the selected trade, the coverage window that panning widens, one *)
(* load cycle per coverage window, and the bundle composed from the cache  *)
(* (features/workbenchChartRuntime/phase63FMarketLoadBridge.ts and          *)
(* marketLoadRuntime.ts, features/chart/workbenchMarketLoad.ts and          *)
(* marketWindowPlanner.ts, shared/context/WorkbenchContext.tsx).            *)
(*                                                                         *)
(* Handlers, renders, effects and the continuations of awaits are atomic   *)
(* and interleave.  A window ends before its to; time is in bars.          *)
(***************************************************************************)
EXTENDS Intervals, FiniteSets

CONSTANTS
  RunViews,    \* variants of runs that can be shown
  Run,         \* the run of a view
  Candles,     \* the candle series of a view
  Overlays,    \* its overlay series
  Report,      \* the window of its report
  Stored,      \* the bars of a series the server has, first to last
  Entries,     \* entry bars of trades that can be selected
  Span,        \* CHART_RENDER_WINDOW_SIZE
  Margin,      \* CHART_RENDER_SAFE_ZONE
  ChunkCap,    \* MAX_CHUNKS_PER_KEY
  Fails,       \* requests may fail
  MaxMoves,    \* bound: what the user does
  Nothing

Series == {Candles[v] : v \in RunViews} \cup UNION {Overlays[v] : v \in RunViews}

AnyWindows == [from : Int, to : Int]
ReadyKeys == [view : RunViews, focus : AnyWindows]
LoadCycles ==
  [view : RunViews, focus : AnyWindows, coverage : AnyWindows, failed : BOOLEAN,
   candles : AnyWindows, overlays : UNION {[S -> AnyWindows] : S \in SUBSET Series}]

(* Candles and overlays have caches of their own; Nothing is none of these. *)
ASSUME LoadAssumption ==
  /\ Nothing \notin RunViews \cup ReadyKeys /\ Nothing \notin LoadCycles
  /\ Entries \subseteq Int
  /\ Span \in Nat \ {0} /\ Margin \in Nat /\ ChunkCap \in Nat \ {0}
  /\ \A v \in RunViews : Report[v] \in [from : Int, to : Int] /\ Report[v].from < Report[v].to
  /\ \A v, u \in RunViews : Candles[v] \notin Overlays[u]
  /\ \A s \in Series : Stored[s] \in [from : Int, to : Int] /\ Stored[s].from <= Stored[s].to

VARIABLES
  wanted,  \* the view and the trade selected
  coming,  \* the view of the report that is being fetched
  shown,   \* the windows of the last render
  owner,   \* the coverage target and what deduplicates pan decisions
  ctl,     \* the status the chart sees and the focus window it is ready for
  ran,     \* the coverage window the load effect last ran for
  load,    \* the load cycle in flight
  stale,   \* the cycle an effect has just aborted
  cache,   \* the chunks of every series
  moves
loadVars == <<wanted, coming, shown, owner, ctl, ran, load, stale, cache, moves>>

------------------------------------------------------------------------------
(* resolveTargetDisplayWindow: around the trade, or the tail of the report. *)
TargetWindow(report, entry) ==
  LET start == Larger(report.from, entry - (Span \div 2))
      to == Smaller(report.to, start + Span)
  IN  IF entry = Nothing
      THEN Window(Larger(report.from, report.to - Span), report.to)
      ELSE Window(Larger(report.from, to - Span), to)

Focus(view, trade) == TargetWindow(Report[view], trade)

Has(series, w) == Covers(Bounds(cache[series]), w)
HasIn(store, series, w) == Covers(Bounds(store[series]), w)

(* evaluateMarketPanPrefetchExpansion: the coverage window, wider by Span   *)
(* on each side whose edge the visible bars come near; the same window when *)
(* one such side is at the end of the report.                               *)
Expanded(target, visible, report) ==
  LET left == visible.from - target.from <= Margin
      right == target.to - visible.to <= Margin
      clamped == \/ left /\ target.from <= report.from
                 \/ right /\ target.to >= report.to
  IN  IF clamped THEN target
      ELSE Window(IF left THEN Larger(report.from, target.from - Span) ELSE target.from,
                  IF right THEN Smaller(report.to, target.to + Span) ELSE target.to)

FreshOwner == [target |-> Nothing, reset |-> Nothing, expansion |-> Nothing, sample |-> Nothing]
FreshControl == [status |-> "idle", ready |-> Nothing, intended |-> Nothing]

Key(view, focus) == [view |-> view, focus |-> focus]
NothingShown == [view |-> Nothing, focus |-> NoHole, coverage |-> NoHole]

ViewMoved == owner.reset = Nothing \/ owner.reset.view # wanted.view

(* The windows the memo of the next render returns. *)
FocusMoved == owner.reset # Key(wanted.view, Focus(wanted.view, wanted.trade))
NextShown ==
  LET focus == Focus(wanted.view, wanted.trade)
  IN  [view |-> wanted.view, focus |-> focus,
       coverage |-> IF FocusMoved \/ owner.target = Nothing THEN focus ELSE owner.target]

RenderPending == wanted.view # Nothing /\ shown # NextShown
EffectKey == [view |-> shown.view, coverage |-> shown.coverage]
EffectPending == ran # EffectKey

------------------------------------------------------------------------------
(* The bundle. *)

CoverageWindowOnly ==
  IF Has(Candles[shown.view], shown.coverage) THEN shown.coverage ELSE NoHole

(* resolveMarketBundleComposeWindow: the coverage window only when it is    *)
(* all there.                                                               *)
ComposeWindow ==
  IF Has(Candles[shown.view], shown.coverage) THEN shown.coverage ELSE shown.focus

(* resolveMarketBundleRuntime: the candles the chart is given. *)
Displayed ==
  IF \/ shown.view = Nothing \/ ctl.status = "error"
     \/ ~Has(Candles[shown.view], shown.focus)
  THEN NoHole ELSE ComposeWindow

(* composeDisplayMarketWindowBundle: an overlay for the whole bundle, or    *)
(* else for the focus window.                                               *)
OverlayShown(s) ==
  Displayed # NoHole /\ (Has(s, Displayed) \/ Has(s, shown.focus))

------------------------------------------------------------------------------
(* A load cycle. *)

MarkedUnchecked(c, store, view, focus) ==
  [c EXCEPT !.ready = Key(view, focus), !.status = "ready"]

(* markFocusCandlesReady, where the candles of the focus window are there. *)
Marked(c, store, view, focus) ==
  IF HasIn(store, Candles[view], focus) /\ c.ready # Key(view, focus)
  THEN [c EXCEPT !.ready = Key(view, focus), !.status = "ready"]
  ELSE c

(* planEmaWindowFetches *)
OverlayPlan(store, view, coverage) ==
  [s \in {x \in Overlays[view] : ~HasIn(store, x, coverage)} |->
     MissingRange(Bounds(store[s]), coverage)]

(* executeMarketWindowLoad once the candles are there: the overlays are     *)
(* asked for together; a cycle that needs none is done.                     *)
OverlayStage(store, view, focus, coverage) ==
  LET plan == OverlayPlan(store, view, coverage)
  IN  IF DOMAIN plan = {} THEN Nothing
      ELSE [view |-> view, focus |-> focus, coverage |-> coverage,
            candles |-> NoHole, overlays |-> plan, failed |-> FALSE]

(* planCandlesWindowFetch *)
CandlesHole(view, coverage) == MissingRange(Bounds(cache[Candles[view]]), coverage)

BegunUnlessInFlight ==
  LET hole == CandlesHole(shown.view, shown.coverage)
  IN  IF load # Nothing /\ load.candles = hole THEN Nothing
      ELSE [view |-> shown.view, focus |-> shown.focus, coverage |-> shown.coverage,
            candles |-> hole, failed |-> FALSE,
            overlays |-> IF hole # NoHole THEN <<>>
                         ELSE OverlayPlan(cache, shown.view, shown.coverage)]

(* runPhase63FMarketLoad up to its first await: the first hole of the       *)
(* candles, or the overlays when the candles have none.                     *)
Begun ==
  LET hole == CandlesHole(shown.view, shown.coverage)
  IN  IF hole = NoHole
      THEN OverlayStage(cache, shown.view, shown.focus, shown.coverage)
      ELSE [view |-> shown.view, focus |-> shown.focus, coverage |-> shown.coverage,
            candles |-> hole, overlays |-> <<>>, failed |-> FALSE]

(* runMarketLoadCycle on the way to its first await. *)
ControlAtStart ==
  LET c == [ctl EXCEPT !.intended = shown.view]
  IN  IF ~Has(Candles[shown.view], shown.focus) /\ c.ready # Key(shown.view, shown.focus)
      THEN [c EXCEPT !.status = "loading"]
      ELSE Marked(c, cache, shown.view, shown.focus)

(* The coverage of an answer: the bars the server has of what was asked     *)
(* for, or none, at its start; it is a success all the same.                *)
Answered(series, w) ==
  LET there == Clip(Stored[series], w)
  IN  IF there.from < there.to THEN there ELSE Window(w.from, w.from)

(* seedCandlesWindow, seedEmaWindow: what the answer covers goes into the   *)
(* cache, nobody looks at whether it is all that was asked for.             *)
Merged(series, w) ==
  LET got == Answered(series, w)
  IN  [cache EXCEPT ![series] = MergedChunks(@, Chunk(got.from, got.to, <<>>), ChunkCap)]

LoadInit ==
  /\ \E v \in RunViews, t \in Entries \cup {Nothing} : wanted = [view |-> v, trade |-> t]
  /\ coming = Nothing /\ shown = NothingShown /\ owner = FreshOwner
  /\ ctl = FreshControl /\ ran = [view |-> Nothing, coverage |-> NoHole]
  /\ load = Nothing /\ stale = Nothing
  /\ cache = [s \in Series |-> <<>>]
  /\ moves = 0

------------------------------------------------------------------------------
(* What the user does.  An aborted cycle unwinds before the next event. *)

Move == stale = Nothing /\ moves < MaxMoves /\ moves' = moves + 1

SelectTrade ==
  /\ Move /\ wanted.view # Nothing
  /\ \E t \in (Entries \cup {Nothing}) \ {wanted.trade} : wanted' = [wanted EXCEPT !.trade = t]
  /\ UNCHANGED <<coming, shown, owner, ctl, ran, load, stale, cache>>

(* setSelectedVariantKey also selects a trade of the variant. *)
SelectVariant ==
  /\ Move /\ wanted.view # Nothing
  /\ \E v \in RunViews \ {wanted.view}, t \in Entries \cup {Nothing} :
       Run[v] = Run[wanted.view] /\ wanted' = [view |-> v, trade |-> t]
  /\ UNCHANGED <<coming, shown, owner, ctl, ran, load, stale, cache>>

(* The report effect replaces the owner; the effect of the market load is   *)
(* cleaned up in the same commit, its cycle writes to the old controller.   *)
SelectRun ==
  /\ Move
  /\ \E v \in RunViews :
       /\ coming # v /\ (wanted.view # Nothing => Run[v] # Run[wanted.view])
       /\ coming' = v
  /\ wanted' = [view |-> Nothing, trade |-> Nothing]
  /\ owner' = FreshOwner /\ ctl' = FreshControl
  /\ shown' = NothingShown /\ ran' = [view |-> Nothing, coverage |-> NoHole]
  /\ load' = Nothing
  /\ UNCHANGED <<stale, cache>>

ReportArrives ==
  /\ stale = Nothing /\ coming # Nothing
  /\ \E t \in Entries \cup {Nothing} : wanted' = [view |-> coming, trade |-> t]
  /\ coming' = Nothing
  /\ UNCHANGED <<shown, owner, ctl, ran, load, stale, cache, moves>>

(* evaluatePhase63FPanPrefetch: a widened window is proposed once. *)
PanDecision(visible) ==
  LET wider == Expanded(shown.coverage, visible, Report[shown.view])
  IN  IF wider \in {shown.coverage, owner.expansion} THEN Nothing ELSE wider

(* onPanPrefetch with applyPhase63FPanPrefetchCoverage; a visible range is  *)
(* looked at once.                                                          *)
PanPrefetch ==
  /\ Move /\ ~RenderPending /\ Displayed # NoHole
  /\ \E from, to \in Displayed.from .. Displayed.to :
       LET visible == Window(from, to)
           wider == PanDecision(visible)
       IN  /\ from < to /\ visible # owner.sample
           /\ owner' = IF wider = Nothing THEN [owner EXCEPT !.sample = visible]
                       ELSE [owner EXCEPT !.sample = visible, !.expansion = wider,
                                          !.target = wider]
           /\ ctl' = IF wider \in {Nothing, owner.target} THEN ctl
                     ELSE [ctl EXCEPT !.ready = Nothing]
  /\ UNCHANGED <<wanted, coming, shown, ran, load, stale, cache>>

------------------------------------------------------------------------------
(* What React and the continuations of the cycles do. *)

(* resolvePhase63FMarketTargetWindows, evaluated while rendering: a new     *)
(* focus window drops the coverage target and readiness.                    *)
Render ==
  /\ stale = Nothing /\ ~EffectPending /\ RenderPending
  /\ shown' = NextShown
  /\ IF FocusMoved
     THEN /\ owner' = [FreshOwner EXCEPT !.reset = Key(NextShown.view, NextShown.focus)]
          /\ ctl' = [ctl EXCEPT !.ready = Nothing, !.status = "loading"]
     ELSE UNCHANGED <<owner, ctl>>
  /\ UNCHANGED <<wanted, coming, ran, load, stale, cache, moves>>

(* The effect: the cleanup aborts the cycle in flight, then a cycle begins. *)
RunLoadEffect ==
  /\ stale = Nothing /\ EffectPending
  /\ ran' = EffectKey
  /\ stale' = IF load = Nothing \/ load.failed THEN Nothing ELSE load
  /\ load' = Begun
  /\ ctl' = ControlAtStart
  /\ UNCHANGED <<wanted, coming, shown, owner, cache, moves>>

(* The continuations of an aborted cycle run out: its AbortErrors are       *)
(* swallowed, and it still marks its focus window when the view it was      *)
(* started for is the one last started for (shouldApplyMarketLoadResult).   *)
UnwindLoad ==
  /\ stale # Nothing
  /\ stale' = Nothing
  /\ ctl' = IF ctl.intended = stale.view
            THEN Marked(ctl, cache, stale.view, stale.focus) ELSE ctl
  /\ UNCHANGED <<wanted, coming, shown, owner, ran, load, cache, moves>>

AnswerCandles ==
  /\ stale = Nothing /\ load # Nothing /\ load.candles # NoHole
  /\ cache' = Merged(Candles[load.view], load.candles)
  /\ ctl' = Marked(ctl, cache', load.view, load.focus)
  /\ load' = OverlayStage(cache', load.view, load.focus, load.coverage)
  /\ UNCHANGED <<wanted, coming, shown, owner, ran, stale, moves>>

Rest(s) ==
  IF DOMAIN load.overlays = {s} THEN Nothing
  ELSE [load EXCEPT !.overlays = [x \in DOMAIN @ \ {s} |-> @[x]]]

AnswerOverlay ==
  /\ stale = Nothing /\ load # Nothing
  /\ \E s \in DOMAIN load.overlays :
       /\ cache' = Merged(s, load.overlays[s])
       /\ load' = Rest(s)
       /\ ctl' = IF Rest(s) = Nothing /\ ~load.failed
                 THEN Marked(ctl, cache', load.view, load.focus) ELSE ctl
  /\ UNCHANGED <<wanted, coming, shown, owner, ran, stale, moves>>

Failed == [ctl EXCEPT !.status = "error", !.ready = Nothing]

(* A failed request ends the cycle; overlays already asked for may still    *)
(* answer, a second failure among them has no effect.                       *)
FailRequest ==
  /\ Fails /\ stale = Nothing /\ load # Nothing
  /\ \/ /\ load.candles # NoHole
        /\ load' = Nothing /\ ctl' = Failed
     \/ \E s \in DOMAIN load.overlays :
          /\ load' = IF Rest(s) = Nothing THEN Nothing ELSE [Rest(s) EXCEPT !.failed = TRUE]
          /\ ctl' = IF load.failed THEN ctl ELSE Failed
  /\ UNCHANGED <<wanted, coming, shown, owner, ran, stale, cache, moves>>

LoadMachine == ReportArrives \/ Render \/ UnwindLoad \/ FailRequest \/ RunLoadEffect
                 \/ AnswerCandles \/ AnswerOverlay
User == SelectTrade \/ SelectVariant \/ SelectRun \/ PanPrefetch
LoadNext == LoadMachine \/ User

(* React and the event loop do some of what is due, and requests end, with  *)
(* an answer or a failure; nothing is assumed of which comes first.         *)
Fairness == WF_loadVars(LoadMachine)
LoadSpec == LoadInit /\ [][LoadNext]_loadVars /\ Fairness

------------------------------------------------------------------------------
(* Types; a cycle waits for the candles or for overlays of its own view,    *)
(* never for both.                                                          *)
LoadTypeOK ==
  /\ wanted \in [view : RunViews \cup {Nothing}, trade : Entries \cup {Nothing}]
  /\ coming \in RunViews \cup {Nothing}
  /\ shown \in [view : RunViews \cup {Nothing}, focus : AnyWindows, coverage : AnyWindows]
  /\ owner \in [target : AnyWindows \cup {Nothing}, reset : ReadyKeys \cup {Nothing},
                expansion : AnyWindows \cup {Nothing}, sample : AnyWindows \cup {Nothing}]
  /\ ctl \in [status : {"idle", "loading", "ready", "error"}, ready : ReadyKeys \cup {Nothing},
              intended : RunViews \cup {Nothing}]
  /\ ran \in [view : RunViews \cup {Nothing}, coverage : AnyWindows]
  /\ \A c \in {load, stale} \ {Nothing} :
       /\ c \in [view : RunViews, focus : AnyWindows, coverage : AnyWindows, failed : BOOLEAN,
                  candles : AnyWindows, overlays : [DOMAIN c.overlays -> AnyWindows]]
       /\ DOMAIN c.overlays \subseteq Overlays[c.view]
       /\ (c.candles = NoHole) # (DOMAIN c.overlays = {})
  /\ DOMAIN cache = Series

(* Nothing is left to do but what the user does. *)
LoadQuiet == coming = Nothing /\ stale = Nothing /\ load = Nothing
               /\ ~RenderPending /\ ~EffectPending

EffectsRun == stale = Nothing /\ ~RenderPending /\ ~EffectPending

(* A focus window that is shown and called ready has its candles, however   *)
(* cycles were cut short and whatever else went into the cache; and once    *)
(* the effects of a selection have run, ready is about the view that is     *)
(* shown: no cycle of a view left behind can claim it.                      *)
ReadyIsServed ==
  /\ LoadTypeOK
  /\ shown.view # Nothing /\ ctl.ready = Key(shown.view, shown.focus) =>
       Has(Candles[shown.view], shown.focus)
  /\ EffectsRun /\ ctl.status = "ready" /\ ctl.ready # Nothing =>
       ctl.ready.view = shown.view

(* The series holds as many chunks as it may, all of them right of the      *)
(* focus window: what is fetched for it is dropped as it is merged.         *)
LeftOut(s) ==
  Len(cache[s]) = ChunkCap /\ \A i \in DOMAIN cache[s] : shown.focus.to < cache[s][i].from

(* The server has every bar of the window. *)
InStock(s, w) == BarsOf(w) \subseteq BarsOf(Stored[s])

OutOfReach(s) == LeftOut(s) \/ ~InStock(s, shown.focus)

(* When all is quiet the chart is not left waiting for what the server has: *)
(* it is ready, with the candles of its focus window and, unless it was     *)
(* panned meanwhile, with every overlay; or it says error.  However short   *)
(* the answers before were and wherever they cut the cache into pieces, no  *)
(* bar the server has stays behind.  Only a window left of as many others   *)
(* as are kept is never loaded, and one the server lacks a bar of: there    *)
(* the last answer is a success like any other, and the chart waits on.     *)
QuietMeansReady ==
  LoadQuiet => \/ ctl.status = "error" \/ OutOfReach(Candles[shown.view])
           \/ /\ ctl.status = "ready" /\ Displayed # NoHole
              /\ owner.target = Nothing =>
                   \A s \in Overlays[shown.view] : OverlayShown(s) \/ OutOfReach(s)

(* "Keep focus-window data visible while a larger coverage prefetch is in   *)
(* flight" (composeDisplayMarketWindowBundle): until another focus window   *)
(* is shown, it stays, unless a request fails, or the answer of a cycle for *)
(* another focus window comes before the effect that would have aborted it, *)
(* and pushes it out of the cache.                                          *)
NoBlink ==
  [][Displayed # NoHole /\ shown'.view = shown.view /\ shown'.focus = shown.focus
       /\ ctl'.status # "error"
       /\ (cache' # cache => load.focus = shown.focus)
     => BarsOf(shown.focus) \subseteq BarsOf(Displayed')]_loadVars

(* Every selection is loaded, or said to have failed, in the end, or is out *)
(* of reach.                                                                *)
LoadSettles ==
  []<>(LoadQuiet /\ (ctl.status \in {"ready", "error"} \/ OutOfReach(Candles[shown.view])))
==============================================================================
