# A verification project for BBB

BBB is a research workbench for one trading strategy, `ema_pullback`. A *data
engine* keeps the candles of an exchange in SQLite; a *strategy package* turns
them into signals, simulates the trades and writes reports; a *research API*
serves reports and stored configs; a React *workbench* shows the reports on a
chart it loads piece by piece, and edits the configs in a *composer*. This
directory holds TLA+ modules that model the parts of it where order, failure and
interleaving decide what happens, the configurations that check them with TLC, and
proofs checked by TLAPS. `PROJECT.json` ties every definition to the lines it
stands for.

## 1. Inventory

Paths are relative to `src/`; `E/` is `research/strategies/ema_pullback/`, `F/` is
`frontend/src/features/`, `H/` is `frontend/src/shared/context/`.

| part | state | operations | who it talks to |
|---|---|---|---|
| **managed execution loop** `E/execution/managed_execution_loop.py`, `exit_policy_candidates.py`, `managed_bar_open_candidates.py`, `exit_arbitration.py`, `exit_attribution.py` | the open position with its runtime and inherited snapshot, the recorded trades, the event trace | one pass of the loop per bar: collect candidates, arbitrate, close, open, update; record what is open at the end | reads the masks, distances and series of the signal part; calls the provider; its trades go to results |
| **managed exit provider** `E/execution/managed_exit_provider.py`, `managed_components/`, `phase_rule_conditions/` | phase, excursion, active stop, take profile, armed runtime exits of one trade | `update_end_of_bar_snapshot` | called by the loop once per bar of an open trade |
| **data engine** `data_engine/` | tables `candles`, `meta`, `quarantine`; process-local cursors and plans | `backfill`, `fix`, `status` | Bybit over HTTP; everything else only reads its tables |
| **market chunk loading** `F/chart/market*.ts`, `workbenchMarketLoad.ts`, `F/workbenchChartRuntime/marketLoadRuntime.ts`, `phase63FMarketLoadBridge.ts` | chunks per series, coverage target, cycle in flight, readiness of the focus window | load cycles with an await per request, abort, pan prefetch, eviction, composing the bundle | the API; the session; the chart view |
| **signal trace loading** `F/chart/runtime/signalTraceRequestCoordinator.ts`, `F/chart/signalTrace*Cache.ts`, `F/workbenchChartRuntime/traceRuntime.ts`, `traceDisplayRuntime.ts` | ledger of requests, display cache, session cache, lanes and their status | load cycles with two awaits, aborts, reset, cutting the display | the API; the chart view; the overlays |
| **chart view state** `F/chart/chartDataWindowManager.ts`, `F/chart/runtime/renderWindowController.ts`, `viewportController.ts`, `H/WorkbenchRenderViewportContext.tsx` | the render window, a pending shift, viewport commands, focus references | pan, wheel, select, shift, restore, focus | both loaders; the chart library |
| **chart overlays** `F/workbenchChartRuntime/auxOverlayRuntime.ts`, `phase63EAuxOverlayBridge.ts`, `F/chart/chartRenderWindowDisplay.ts` | lines kept outside React, slices kept by key, requests for exit lines | rebuild, apply, reset, request, draw | the trace; the API |
| **markers and trade navigation** `F/chart/ChartPanel.tsx`, `ChartTradeFocusNav.tsx`, `tradeLookup.ts`, `tradeManagementChartEvents.ts`; **reports view** `F/reports/` | selected trade, filters, layers, the number field, what the canvas was given | click, type, step, filter, toggle, paint | the session; the chart library |
| **session** `H/WorkbenchContext.tsx` (reports, variants, trades) | list of runs, selected run, report, variant, trade, and the references its effects compare | bootstrap, refresh, select, retry | the API; everything that shows a report |
| **composer session** `F/composer/ComposerPanel.tsx`, `research_api/services/config_service.py` | draft, status, verdict, calls in flight; a directory of files and a selection | reload, select, edit, validate, save, run | the loader (validation); the session (a new run) |
| **composer drafts** `F/composer/composer*.ts`, editors | exit management block, instances, slots, contexts | form handlers, normalisation, two validators | the composer session; the loader |
| strategy configuration `E/instance_loader.py`, `E/spec.py` | none | parse, validate | the composer, the runner, the API |
| trade runtime replay, plain backtest, signals, contexts, signal trace, results, analyzer `E/` | none outside one run, or files of a finished run | vectorised or one pass | the API |
| experiments, diagnostics scripts, scripts, debug tools | output directories | batches | the runner |

What is hard, and what makes each part correct:

* **Managed loop.** Several exits compete on one bar, levels gap, rules become
  active and inactive, and each decision must act exactly one bar later. Correct:
  trades do not overlap; a stop only tightens and beats everything else on the
  bar that touches it; an armed exit closes; the last listed take rule wins;
  every position is recorded once.
* **Data engine.** Nothing prevents two commands from running at once, any of
  them may be killed between two transactions, the exchange may leave candles
  out, and the newest bar is still forming. Correct: only closed candles are
  stored; `ok` is true and stays true; an interrupted backfill leaves no hole a
  later one would not see; a repair leaves no gap when the exchange has the
  candles; every run ends.
* **Loaders.** Requests of superseded cycles are aborted or answered late, caches
  evict what a ledger still counts as loaded, and one variable is written by
  handlers, renders, effects and continuations of awaits. Correct: what is called
  ready or covered is there; nothing of another run or epoch is shown; once
  nothing is under way, what is shown is loaded or said to have failed.
* **Chart view and overlays.** Decisions wait for a pointer, a timer, a render or a
  load; effects run only when one of their dependencies changed, and what was drawn
  stays otherwise. Correct: the drawn bars are of the bundle; nothing is swapped
  under a drag; the selected trade comes into view; no line or marker of an earlier
  selection is left.
* **Session and composer.** Answers arrive in any order, between a commit and its
  effects, for a draft or a run that is no longer the one shown. Correct: report,
  variant, trade and bar belong together; a user who waits is told the truth; a
  saved config comes back; loading ends.
* **Drafts.** Two validators in two languages and a normalisation between them.
  Correct: what is stored is sound; neither check refuses what the other needs;
  no edit loses what another list holds.

## 2. Plan

What was planned and where it stands, in the order of importance:

1. `ManagedExecution` with `PositionLedger` and `ManagedExecution_proof` - done.
2. `DataEngine` and `DataEngine_proof` - done.
3. Market loading: `Intervals`, `MarketCache` with the abstract `BarStore`,
   `MarketLoad` - done.
4. Trace loading: `TraceCoverage`, `TraceLoad`, and `ChartData_proof` about it,
   `MarketCache` and `MarketLoad` - done.
5. Chart view: `RenderWindow`, `ChartView`, `TradeReview`, and `ChartView_proof` about the
   three - done.
6. `WorkbenchSession`, `AuxOverlays`, and `WorkbenchSession_proof` about the two - done.
7. Composer: `ConfigStore`, `ComposerSession`, `ExitManagementDraft`, `StrategyDraft`,
   and a proof module for each of the last three - done.
8. Left: the batch runner of the experiments; the replay of finished trades.

How the modules use one another:

    PositionLedger <-implements- ManagedExecution <- ManagedExecution_proof
    DataEngine <- DataEngine_proof
    Intervals <- MarketCache -implements-> BarStore
    Intervals <- MarketLoad
    Intervals <- TraceCoverage <- TraceLoad
    MarketCache, MarketLoad, TraceLoad <- ChartData_proof
    RenderWindow <- ChartView
    ChartView, TradeReview <- ChartView_proof
    WorkbenchSession, AuxOverlays <- WorkbenchSession_proof
    ConfigStore <- ComposerSession <- ComposerSession_proof
    ExitManagementDraft <- ExitManagementDraft_proof
    StrategyDraft <- StrategyDraft_proof

An arrow to the left is EXTENDS. Where two parts interact, the module of one takes
over what the other may do to it: `MarketLoad` has the session's selections and the
pans of the chart as actions, `ChartView` has the arrival and failure of market
data, `TraceLoad` has moved windows, switches and reloads, `AuxOverlays` has trace
cycles that merge, end or fail.

Each model module also holds operators no specification uses, named `X_Y` or for
the mistake they make: altered forms of a definition `X` or of the one that
follows. They record, for each property, a plausible bug that violates it
(`mutants` in `PROJECT.json`).

## 3. ManagedExecution

`ManagedExecution` walks a price series bar by bar, as `run_managed_execution_loop`
does. Its variables are the loop's locals:

| variable | in the code |
|---|---|
| `bar` | `bar_idx` of the next iteration |
| `pos` | `open_pos`: the `_OpenPosition` with its `TradeRuntimeState` and its `inherited_snapshot` in one record (`stop`, `stopRule`, `take`, `takeRule`, `armed`), or `None` |
| `candle` | the prices of the bar just processed |
| `closed` | the result's trades, each with the `exit_executed` fields a property reads |
| `events` | the management events of the bar just processed |
| `done` | the function has returned |

An iteration is one action: `StayFlat` and `Enter` for a bar that begins flat,
`Exit` and `Hold` for one that begins with a position, `Finish` for the code after
the loop. `Exit` collects the `exit_policy` candidates and the managed ones from
the snapshot inherited from the bar before, arbitrates, and appends the trade; the
bar ends flat because entries are only looked at when no position was open at the
start of the bar. `Hold` is the whole end-of-bar update: runtime state, phase
rules, then stop, take and runtime rules. The operators it is built from are named
for the functions they translate; those that pick one of several rules return the
set of possible picks (one element), which keeps them free of `CHOOSE`.

Abstractions. Prices are integers, a percentage or ATR multiple is an integer
comparison or product; the tolerance `1e-8` of "the stop changed" becomes equality.
The price series, the masks, the indicator readings and the initial distances are
chosen afresh on every bar or entry, which includes every series the code could
be given. A rule is its index. The condition registry is represented by one
condition of each shape: on excursion in ATR, on excursion in percent, on time,
and on an external series. Fees, slippage, component ids and the wording of
reasons are left out; signal rules are numbered in the order in which their
reasons sort, which is how the arbitrator breaks ties between them.

`PositionLedger` is what reports assume of any execution path: one position at a
time, never replaced on the bar that closes it, recorded once with the side, bar
and price of its entry. `ImplementsLedger` maps `pos` to the open position and
`closed` to the ledger, dropping every reason.

The run `managed` has three prices, four bars, both sides, a ladder of three stop rules
(break-even and a trailing stop that compete at `proven`, a lock at `runner`) under an ATR
that shrinks or goes missing, an initial stop and take profit, a take profile switched off
and on again, runtime exits of every kind and a profile-bound signal. It checks that
stops only tighten (`StopNeverLoosens`), win the bar that touches them (`StopTouchedCloses`)
and are filled at their level or at the open that gapped past it (`ManagedStopProtects`),
that an armed exit closes on the next bar and was announced (`ArmedExitsClose`), that the
take profit is what the last active rule says (`TakeProfitFollowsRules`), and that the loop
implements the ledger (`ImplementsLedger`).

Bounds. Three prices allow an entry strictly between a stop and a target, gaps to
both sides and a bar that touches both. Four bars are an entry bar, the first bar
with a provider update, the bar on which that update acts and the bar on which a
second update acts - the longest chain any property speaks of - and with them
several trades in a row. The rule lists make two rules compete at one phase and
one supersede another at a later one. Larger series add no interaction: the state
carried from bar to bar is what `pos` holds.

Fairness. `WF_vars(Next)`: the loop is sequential code without waiting. No property of this run
depends on it: the ledger promises no progress.

### What is proved

`ManagedExecution_proof` proves for all constants that satisfy `MarketAssumption`,
`RulesAssumption`, `NoneAssumption` and `OpeningAssumption` (series of any length, any consecutive
range of positive prices, any rule lists in the order the loader enforces):

| theorem | property |
|---|---|
| `TypeCorrect` | `TypeOK` is inductive as it stands. `Returned` and `Finish` need that a held position comes with a processed candle, which it states. |
| `StopOnlyTightens` | `Tightened` is the only way a stop changes, and `AtLeast` is reflexive and total on integers. |
| `StopTouchedAlwaysCloses` | a touched stop is a candidate (`StopHitIsCandidate`), the two stop types have the two best priorities (`StopsWin`), and `Hold` requires that there is no candidate. |
| `ExitsAreTradable` | a level that is hit is filled between the low and the high (`FillInRange`); every other candidate is filled at the close. |
| `ManagementAlwaysFollowsPhase` | inductive with `TypeOK`: phases never go back (`PhasesAfterFacts`), and each credited rule was active when it was credited. |
| `ManagedStopAlwaysProtects` | a winner other than a stop means the stop was not hit (`StopsWin`), so the bar's low, for a long, was above it; a winning stop is filled at its level or at the open (`ManagedStopFill`). |
| `TradesAlwaysDisjoint` | not inductive: `DisjointInv` adds that a loop that has returned is past the last bar and flat, so nothing follows the record of a position left open. |
| `ManagedExitsAlwaysDelayed` | not inductive: `DelayInv` adds that a position is older than the next bar. A managed candidate needs a stop in force or an armed rule (`ManagedCandidateOrigin`), and a position of age one has neither. |
| `ArmedExitsAlwaysClose` | `ArmedAnnounced` (every armed rule has its event on the bar before) is inductive; `Hold` cannot happen while a rule is armed. |
| `TakeProfitAlwaysFollowsRules` | not inductive: `TakeInv` adds that the profile of a position updated once is that of the last active rule, and still the initial one while no rule is active (active rules only grow, since phases never go back). A take-profit candidate is there exactly when the profile keeps it and the bar touches it (`TakeCandidate`). |
| `LoopImplementsLedger` | every action maps to one action of `PositionLedger` under the refinement mapping: `StayFlat` and `Hold` to `Wait`, `Enter` to `Open`, `Exit` to `Close`, `Finish` to `Settle` (`BookingAppends`, `BetweenPrices`). It needs `DelayInv` for `Close`. |

The assumptions are what the loader guarantees: phase rules sorted by their
target (`spec.py:852-858`), exits without a signal closing at market
(`spec.py:783-787`), known phases and actions. That prices are a range of integers
says that a level a bar trades through is a price it may be filled at; only
`LoopImplementsLedger` needs it.

## 4. DataEngine

One symbol and timeframe. `Workers` are operating-system processes, each running
one `backfill` or `fix` at a time; nothing in the code keeps them apart.

| variable | in the code |
|---|---|
| `clock` | the bar that forms now (`time.time`, on the time grid) |
| `candles` | the `candles` table: which bars are stored, and whether their OHLC is valid |
| `launchKnown` | the launch time is in `meta` |
| `quarantine` | reasons of the records in `quarantine` |
| `run` | the locals of each process: command, step, window, cursor, planned windows, whether a hard error happened |
| `report` | what the last run of each process printed |

Each action ends at a database statement, a request or an exit: those are the
places where another process may run or this one may be killed. `backfill` is
`ResolveLaunch`, `ReadMax`, `ReadMin`, then `StoreChunk` or `EmptyChunk` per request,
then `CheckCount`; `fix` is `FindStart`, `Discover`, `Plan`, `Repair` per window and
`Postflight`. The failing branches are `LaunchFails`, `BackfillFails`, `FixDies`,
`RepairFails`, `FixAborts`; `Kill` ends a process between two steps. A request and
the storing of its rows are one action: between the two the process holds only
what it fetched, so a kill there is a kill before the request, and upserts of
closed bars commute.

The exchange (`Listed`, `Answers`, `Tick`) is external. It lists bars from
`FirstListed` on, the forming one included; with `Partial` it may leave any of them
out of an answer; with `"invalid"` in `Qualities` it may send inconsistent prices.
`FetchWindows` and `Gaps` state in closed form what the loops of `dim.py` and
`gaps.py` compute.

The run `engine` has two processes that run both commands, fail and are killed anywhere,
an exchange that leaves candles out, three ticks and chunks of one bar, so that loops are
as long as the clock allows. It checks that the forming bar is never stored
(`OnlyClosedCandles`), that an `ok` report is true and stays true (`OkStaysComplete`), and that
every run that is not killed ends (`RunsEnd`). Two processes show every pairwise race; a
third changes nothing another run of the second does not, since a process leaves only rows
behind. Rows with inconsistent prices only change the verdict of a repair; they would
double the bars' states and are left to the theorems, as are longer clocks and chunks.

Fairness. `WF_vars(Step(w))` per process: a process that runs takes its next step.
Its requests time out and are retried at most five times
(`fetcher/bybit_rest.py`), a transaction waits at most for `busy_timeout`. Nothing
is assumed of `Tick`, `Start` or `Kill`. `Step` without `Kill`, so that a killed run
is not what makes a run end.

Two limits of the code: stored rows are never asked for again, so an invalid candle and a
hole before the oldest stored bar are permanent; and without the premise that the exchange
answers in full a backfill may leave a hole that only `fix` closes.

### What is proved

`DataEngine_proof` proves for all constants that satisfy `EngineAssumption`: any set of
processes, any length of the clock, any chunk limit, an exchange that answers in
part or in full.

| theorem | property |
|---|---|
| `TypeCorrect` | `TypeOK` |
| `OnlyClosedStored` | `OnlyClosedCandles` |
| `OkAlwaysComplete` | `OkStaysComplete` |
| `BackfillsLeaveNoHoles` | `BackfillLeavesNoHoles`, assuming `OnlyBackfills`: the commands are backfills and answers are full. |
| `RepairsCloseWindows` | `RepairClosesWindow`, assuming full answers: a repair that ended without an error closed every gap of its window, whatever ran beside it. |

The first three follow from one inductive invariant, `EngineInv`. None of the three is
inductive alone: that only closed bars are stored needs that a run never walks past
a bar that was closed when it began (`RunOK`: `to < clock`, and the planned windows of a
repair end there); that `ok` is true needs the window each step works on. Its two
lemmas of substance are `FullCountComplete` (a window that holds as many stored bars
as it has bars holds them all) and `NoGapsComplete` (without a maximal run of missing
bars nothing is missing; the extreme bars of a run exist by `LeastNatural`, which
is where the well-foundedness of the naturals comes in). `FetchWindowsFacts` bounds
the windows a gap is cut into. The proof that a step keeps `EngineInv` has one lemma
per command (`BackfillKeeps`, `FixPlansKeep`, `RepairsKeep`, `OthersKeep`), over three that
say what going on, reporting and dying do (`ContinueKeeps`, `ConcludeKeeps`, `DieKeeps`).

`BackfillsLeaveNoHoles` adds `PrefixInv`: what is stored is a prefix of what the
exchange lists, and every run that walks has the bars before its cursor behind it,
also when another process stored them.

`RepairsCloseWindows` adds `RepairInv`: every listed bar that is missing from the window of a
repair without an error so far lies in a window still planned, and none is missing from the
window of one that has reported. It rests on three facts about the arithmetic of
`gaps.py` and `dim.py`: every missing bar lies in a maximal gap (`GapAround`), a chunk of the
cut of a gap holds each of its bars (`ChunkOfGap`, by division), so the planned windows
cover what is missing (`FetchWindowsCover`); that storing only adds (`StoreGrows`) then makes
every step of any process keep it.

## 5. Market loading

`Intervals` translates `marketIntervalCoverage.ts` and the coalescing half of
`marketResourceCache.ts`: chunks as half-open intervals that carry rows, the walks over
them that decide what is covered and what is missing, merging and the cap. `MarketCache`
is the store of one series (candles and overlays differ only in what a row is), `series`
its list of chunks. `BarStore` is what the planner relies on: a set of bars that responses add to
and that loses only its oldest part; `ImplementsStore` maps `series` to the bars it holds.

The run `market_cache` merges every response over seven bars, with at most three chunks,
so that responses touch, overlap, bridge, contain and fall off the cap. It checks that the
walks agree with the set of bars (`WalksAgreeWithBars`), that coverage is never without
the rows behind it and chunks stay apart (`CoveredIsServed`), and the refinement.

What is proved of the cache, in `ChartData_proof`, for any horizon, cap and set of values
(`CacheAssumption`):

| theorem | property |
|---|---|
| `WalksSayWhatIsThere` | `WalksAgreeWithBars` |
| `CoverageIsServed` | `CoveredIsServed`, with the types |
| `StoreIsABarStore` | `ImplementsStore`, step by step |

The properties speak of what the store answers and are not inductive. `CacheInv` says of the
list that every chunk has a row of each of its bars and of no other (`FullChunks`), that chunks
stay apart and in order (`Apart`), and that the cap holds. A merge keeps it because the fold of
`Coalesced` over sorted chunks does, place by place (`SettlesOne`, `CoalescedIs`), and the list
it leaves has the bars of both from some bar on (`MergeGrows`), which is the step of `BarStore`.
Over chunks apart `Joined` changes nothing (`JoinedApart`), so the walk of `Reach` ends at
the first bar that is not there (`ReachIs`, `WalkOver`), from which follow what is covered,
what is missing and which parts are there (`CoversIs`, `MissingIs`, `CoveredAre`).

`MarketLoad` is the loader of the chart: `wanted` is what the session selected, `shown`
what the last render resolved (focus and coverage window), `owner` the coverage target a
pan set, `ctl` the load controller's status and ready key, `load` the load cycle in flight
with the requests it waits for, `stale` a cycle just aborted whose continuations have yet to
run, `ran` the key the effect last ran for. `SelectTrade`, `SelectVariant`, `SelectRun`,
`PanPrefetch` are the user's handlers, `Render` and `RunLoadEffect` are React's, `AnswerCandles`,
`AnswerOverlay`, `FailRequest`, `UnwindLoad` the continuations.

The run `market_load` has two variants of one run that share candles and an overlay, a
second run over the same candles, eight bars of report with windows of two at bars 0, 3
and 6 (the tail), failing requests and two moves: a cycle and two that supersede it. A series
keeps two chunks, so that the third window of a sequence goes over the cap from either side. It
checks that what is ready is served and, once settled, is about the view shown
(`ReadyIsServed`); that the focus window never blinks away while a wider window loads
(`NoBlink`); that when all is quiet the chart has its candles and, unless panned, its overlays,
or says error (`QuietMeansReady`); and that every selection comes to that (`LoadSettles`).

A success need not cover what was asked for: the server answers with the bars it has, or with
none (`_candles_window_coverage`), and the client seeds what the answer says it covers
(`Answered`, `Merged`). `Stored` is what the server has of a series, consecutive bars that stay
the same during the session; in the run the first bar and the last are missing of the candles,
the first five of an overlay. A window of which the server lacks a bar therefore ends at
"loading" with nothing left to do (section 12). The properties name this case and what the cap
does, together `OutOfReach`: the server lacks a bar of the window, or the window is left of as
many chunks as are kept (`LeftOut`) and is never loaded. They say that short and empty answers
leave nothing *else* behind: no bar the server has stays unloaded because a short answer cut the
cache into pieces. `NoBlink` leaves out that the answer of a cycle for another focus window, in
the moment before the effect that aborts it, may push the shown one out of the cache.

Fairness: `WF_loadVars(LoadMachine)`. While a report, a render, an effect, a continuation or the end
of a request is due, some of what is due happens: React and the event loop see to it, and
nothing is assumed of which comes first. A `fetch` that neither answers nor fails for ever is
the assumption's one limit. Nothing is assumed of the user. Left out:
keys of requests in flight (two cycles never ask for one window at a time once the first
is aborted), revisions and telemetry, `reconcileAbortedMarketLoad`, which no abort reaches. A
pan needs a displayed bundle; the reports of the run are at least a window wide.

`ChartData_proof` proves its safety for any views, runs, series shared between them, reports,
trades, sizes and bars the server has (`LoadAssumption`: candles and overlays have caches of their own):

| theorem | property |
|---|---|
| `ReadyIsAlwaysServed` | `ReadyIsServed`, with `LoadTypeOK` |
| `FocusNeverBlinks` | `NoBlink` |
| `QuietIsReady` | `QuietMeansReady`, if every report is at least a window wide (`WideReports`; section 12 says what a shorter one does) |

The first two follow from `LoadInv`: the effect that last ran, the cycle that answers it and what
the chart is told are about one view, and the windows a cycle waits for are the holes of the
store as it is now, although other answers have come since it began. The cap is what makes that
delicate. `WindowStays` shows that the answer for a window, short, empty or whole, takes no bar of
that window out: a merge drops a chunk only when the answer touches none, and then the answer
lies in a window that had nothing. Other windows can lose bars, and `Pointed` says that no cycle
in flight is for another focus window than one that is ready.

`QuietInv` is about what becomes of the window shown. Stored chunks are as wide as a window
or end at what the server has (`Spread`; `MergeWide` shows that answers keep it so), so a
focus window the server has all of has one hole at most (`FocusFills`), and what a cycle waits
for is all its focus window lacks (`CycleFits`); once merged the window is there or left of all
that is kept (`StockFills`, `MergeHolds`). A window that was panned was there before, and what
pushed it out left it in the hole of any wider window (`PannedSound`, `RightFills`). So the
candles and each overlay are there, due, out of reach, or the chart says error (`CandlesDue`,
`OverlaysDue`), and when nothing is due the rest remains.

## 6. Trace loading

`TraceCoverage` has the three data structures: the display cache with inclusive spans
counted in seconds (`Step` seconds between bars, since spans join only within one second),
the session cache of dense bundles, the bounded ledger of merged requests. `TraceLoad`
is the load cycle over them. `cycle` is the one that waits for chart events or for the
dense bundle, `aborted` one an effect has just cancelled, `result` what a cycle that did not
wait hands to React, `react` the lanes React was last given, `epoch` a counter of switches
and reloads by which data is told apart. A disturbance set, chosen once, says what else
happens in a behaviour: windows moved in the middle of cycles, reruns of the effect,
reloads, switches of run or context, cut, empty and failed answers.

The run `trace_load` has overlapping windows, a display cache of two chunks, a session
cache of two bundles and a ledger of four keys. It visits two windows under every disturbance
with chart events and without, and three, one more than bundles are kept, under none but a
moved window. It checks that no
answer from before a reset is drawn, kept or shown (`DisplayIsOfThisEpoch`); that what counts
as covered is there and what is drawn is what the cache holds (`CoveredIsDrawn`); that
without a cycle no key counts as in flight (`NothingLeftInFlight`); and that a user who lets
windows load, with requests that succeed and chart events on, finds the lanes of the window
before him (`QuietMeansLoaded`). The premise of the last is the code's: after a failure, or
when the effect is run again for the same window, a window may stay unloaded. So is its
exception `MayBeDropped`: the ledger still counts the request of a window as answered when a full
session cache has dropped its bundle, and on a second visit such a window has no lanes
(section 12). The third window is there to reach it.

Facts the model rests on: the rejection of an abort and the result of a cycle that did
not wait are microtasks, before any other task; effects are flushed before the next
render; every bar has one event and one context row. Generations are counted modulo five.
Left out: the branches no caller reaches (`pan_block` of the orchestrator, an absent chunk
plan), telemetry.

### What is proved

`ChartData_proof`, for any windows, settings, caps, step and number of epochs, and more than
three generations (`TraceAssumption`, `StepAssumption`):

| theorem | property |
|---|---|
| `OnlyThisEpochIsDrawn` | `DisplayIsOfThisEpoch`, with `TypeOK` |
| `NothingIsLeftInFlight` | `NothingLeftInFlight` |
| `CoveredIsAlwaysDrawn` | `CoveredIsDrawn` |
| `QuietIsLoaded`, under `EndsTellApart` | `QuietMeansLoaded` |

None is inductive. `TraceInv` adds that all rows of the display cache are of the epoch
(`StoreOk`), that a bundle a cycle read before its await is of the epoch the cycle began in
(`CycleOk`), that a cycle which could still be answered began in the present one (`Current`),
and that every key in flight is one of the waiting or the aborted cycle's, with that cycle's
generation (`Owned`), so that whichever ends it clears it. The lists with a cap keep their type by `NewestIs`,
`TouchedIs`, `PutIs` and `KeptIs`; that the search of a list finds what is there rests on the
least element of a set of naturals (`MinIsThere`).

`CoveredIsAlwaysDrawn` needs two things more. What is covered: every bundle has all bars
between its first and its last (`Solid`), and the walk over the sorted and joined spans stops
at a second no span reaches (`ReachIsHit`). A fold of the community modules is a recursive
function on sets of places, which is there for every list (`FoldExists`, extended place by
place), and keeps what every element keeps (`FoldLands`, `FoldPasses`); a sorted list has the elements of the
list because ranks are distinct places (`RankIs`, `ByStartIs`). What is drawn: `Fresh`, that to
apply the display again changes nothing, is kept since the cache changes only where the display
is committed (`AppliedFresh`, `FreshStep`).

`QuietIsLoaded` rests on `OrderlyInv`. For an orderly user one thing happens at a time (`InTurn`):
an effect finds no cycle, so no cycle is aborted, and what a cycle reads before its await still
holds after it (`CycleInTurn`). What must be remembered over time is where the ledger's entries
come from: each was asked for a window whose bundle is kept, or the session cache has since been
full, or by the cycle under way (`Remembered`; a full cache stays full and an entry leaves it in no
other way, `PutKnown`). Hence when a request is refused as answered, the bundle is kept and the
lanes are already its own, or it may have been dropped. A request is known by where it ends, since
its start is the first bar that is missing; so the theorem asks that no two windows end on one bar
(`EndsTellApart`), as windows of one width do not, and those of the run do not.

## 7. Chart view

`RenderWindow` is arithmetic: `chartDataWindowManager.ts`, `chartViewport.ts` and the focus range.
`ChartView` is the state machine around it: `market` is what the context passes down, `rw`
the render window controller (its state, pending shift, pointer, wheel and idle timer), `vp`
the viewport commands with their transactions, `focus` the references that decide whether
a trade is focused, `ref` the bars windows are computed from, `shown` what the last
render drew, `page` renders and effects that are due, `chart` the visible range.

The run `view` has windows of six bars in a report of nine and three users: one who drags,
wheels, pans by keyboard and changes runs; one who also selects trades; one who selects
trades and leaves the chart alone while loads fail and overlays come in. It checks that
the drawn bars are bars of the bundle, and as many as there can be once all is at rest
(`DrawnFromBundle`); that no shift of the user's is committed under a drag
(`NoSwapWhileDragging`; a selection may change the window under a pointer that is held); and
that a trade selected by a user who leaves the chart alone is in view when all is done
(`TradeInView`). Six bars leave a middle, a safe zone on each side and room to shift; the
bounds on events (four to six) are a selection, a pan, the load it causes, and a second
selection or pan that races them.

### What is proved

`ChartView_proof`, for every size of window, safe zone, focus and report, any trades, runs and
users (`SizesAssumption`, `ViewAssumption`). First the arithmetic of `RenderWindow`, where each
branch of a clamp is a case:

| theorem | what it says |
|---|---|
| `WindowsLieInTheBundle` | however a window is made it lies in its bundle and is as wide as it can be |
| `ShrunkBundleKeepsAWindow` | a bundle that changes its length leaves the window inside it |
| `AroundHoldsTheTrade` | a window built around an entry holds it |
| `ShiftKeepsTheMiddle` | a shift keeps the bar in the middle of the screen, the anchor of the restore |
| `CentredLiesOnTheBars` | a restored or focused range lies on the drawn bars and is as wide as asked |

and then the state machine, which uses them:

| theorem | property |
|---|---|
| `OnlyTheBundleIsDrawn` | `DrawnFromBundle` |
| `NeverSwappedUnderADrag` | `NoSwapWhileDragging` |
| `SelectedTradeComesIntoView` | `TradeInView` |

None of the three is inductive. `ViewInv` adds to the types that what is not due to be drawn
anew was drawn of the market data there is (`DrawnIsCurrent`), and that once effects have seen
a foundation of the bundle the controller has one and the window drawn is full
(`FoundedIsFull`). `AloneInv`, for a user who leaves the chart alone, adds that nothing but the
selection moves the coverage and nothing withdraws a command (`Undisturbed`), and that the
selected trade is in view, or its command is on the way, or effects that will send it are
due (`FocusOnTheWay`). The effects of a render are proved one by one, each a step between
`Stages` of the same commit; user events, timers and market data need only that they change
what `OutsideRenders` allows and ask for the render that goes with it.

Left out: widths in pixels and zooming; the DOM listeners of `interactionAdapter.ts` (their
calls are the actions `PointerDown`, `PointerUp`, `KeyboardPan`, `Wheel`, `Move`).

## 8. Session

`WorkbenchSession`: `ui` is React state with the updates queued, `shown` the last commit,
`pend` the effects whose dependencies changed, `refs` the references effects compare, `loads`,
`boots` and `refreshes` the calls in flight. User events come only after effects are flushed;
answers may come between a commit and its effects. A list answer is the number of runs
stored when the server read its directory.

The run `session` has two runs that share a variant name and trade ids, calls that fail,
and every order of answers. It checks that a ready report is the selected run's
(`ReportIsSelected`), that variant, trade and bar belong to it (`SelectionIsOfReport`), and
that loading ends (`LoadingEnds`, for a directory that was not empty when the page was opened:
section 12) under the fairness of renders, effects and answers. The
component catalog, `selectedPath` and trade entry times are left out, and so is React's
double mount of development builds.

### What is proved

`WorkbenchSession_proof`, for any number of runs, any nonempty report of each, and any set of
calls that may fail (`SessionAssumption`):

| theorem | property |
|---|---|
| `SelectionAlwaysOfReport` | `SelectionIsOfReport`, with `TypeOK` |
| `NeverAnotherReport` | a ready report is never that of a run other than the one selected |
| `ReportAlwaysSelected` | `ReportIsSelected`, if a run is stored when the page is opened (`Stored > 0`) |

The properties speak of a session at rest; the invariant `SessionInv` says what holds in
between, per effect: once the load effect has run only the call for the committed selection
is left, and a ready report is the one it brought (`LoadsAreOfSelection`); once the variant
effect has run the key is a name of the report's (`KeyIsNamed`); a committed
trade that is not the variant's is already replaced in the state to be rendered next
(`TradeIsReplaced`), and the bar is of the run the bootstrap effect last ran for, or is about
to run for (`BarIsOfRun`).
`ReportAlwaysSelected` adds `SelectionStays`, which is where `Stored > 0` comes in: a directory
that was empty when the page was opened is the one case in which a selection is taken back
(section 12).

## 9. Overlays, markers and lines

`AuxOverlays`: `page` is React's state with what is queued, `commit` the state last committed
and the lines on the chart, `owner` the controller that renders and effects write outside React's
state, `slices` the list given to the chart and the slice kept for its key, `cache`, `lanes` and
`cycle` what of trace loading reaches the lines, `fetches` the requests for exit lines, `due`
the effects of the last commit. The run `aux` has two variants with two contexts each, one
with a consumed context and exit lines, two windows over three bars, and failures of both
kinds of request. A line has a `label`, the selection whose specs name it, and `data`, the
selection whose trace its values are of. `NoLineIsLeftOver`: once a selection is rendered no
line has another label, and with nothing under way none lies outside the window and none has
other data, but in two cases that the code lets through and the property names (section 12): the
load failed with nothing cached, or the slice kept for a fingerprint has as many points as the
right lines. `CachedHtfIsDrawn`: with nothing under way the controller has exactly the values
of the selected context that are cached, and the chart draws that many points. The three
lines of a context are one, exit lines are one, and a line has a value at every bar it has.

`TradeReview`: `ui` holds tab, variant, selection, window, component events, layers and filters,
`nav` the number field, `canvas` what the chart library was given. A step is an event with the
renders and effects it causes, and a painting effect runs only if one of its dependencies
changed. The run `review` has a plain and a managed run of two variants each (shared ids at
different positions, more events than the cap, an open trade, a variant without closed
trades), and checks that field, markers, price lines and panel name one trade by one
number (`NumbersAgree`; the filtered table's `#` is not modelled, section 12), and that the events painted are exactly the selection's and on the
candles of the variant shown (`SelectionOwnsEvents`).

### What is proved

`ChartView_proof` proves of `TradeReview`, for any variants with any trades, events and
component events, any windows, chips and cap (`ReviewAssumption`: ids do not repeat in a
variant, and a plain report numbers its trades in order):

| theorem | property |
|---|---|
| `NumbersAlwaysAgree` | `NumbersAgree` |
| `EventsAreTheSelections` | `SelectionOwnsEvents` |

Neither is inductive: both speak of what was painted some steps ago. `ReviewInv` says
that the lines are those of the selection shown whenever the chart is mounted (`CanvasOk`),
that with candles the markers are those of what is shown or none at all, the latter only
while the candles of the window are not painted yet, and that a field not being edited has
the position of the selection (`FieldOk`). That a painting effect may be skipped is
`MarksFollowDeps` and `LinesFollowSelection`: what is painted is a function of the
effect's dependencies. `PlaceIs` and `LastIsClosed` are about the lookups by id, and
`GreatestIsThere`, from the well-foundedness of the naturals, is why the last closed trade
exists.

The second half of `WorkbenchSession_proof` proves of `AuxOverlays`, for any variants, contexts
and windows over a finite set of bars (`AuxAssumption`: bars are numbered, a window has bars, a
policy consumes a context of its own strategy), whichever requests may fail:

| theorem | property |
|---|---|
| `NoLineIsEverLeftOver` | `NoLineIsLeftOver` |
| `CachedHtfIsAlwaysDrawn` | `CachedHtfIsDrawn` |

Both speak of the chart at rest, which a line reaches through the controller, the list of a
render, the slice kept for its fingerprint and the series drawn. `AuxInv` follows it through
these. `Labelled`: unless a reset is due, everything in the controller is of the commit, and so
is what the list, the kept slice and the chart have, or the reset has emptied the
controller (`Emptied`) and told React, so that the next render reads an empty list, whose
fingerprint only an empty slice can have. `KeptCut` and `KeptDrawn` say that the
kept slice lies in the window, has the number of points it is kept for, and is what is drawn in
the window its trace was loaded for. `Caught`: where the load is over, the page's slice is the
cache's and the controller has its line, and the list has as many points or is about to be read
again. That needs `CycleHere`, since the end of a cycle applies the commit's window and not the
cycle's, and `DueTogether`, since a reset without a load would leave the lines empty for good.
`LoadInv`, a second invariant over the first, says how far the load is: the range a cycle waits
for is what its window lacks (`Pending`), so that a load that is over has failed or covers the
window (`LoadOver`); that is why a failure is the only way to have nothing cached at rest. The
effects of a commit are taken one lemma each (`SpecsEffectSays` to `TraceEffectSays`), over a record of
what the effects before it made. That counts of bars tell an empty line from another is where
the bars have to be finite.

## 10. Composer

`ConfigStore` is the directory of files and the selection of `config_service.py`: saving
picks a file by the safe form of an id, finding looks at that file first and scans then.
`ComposerSession` adds the context's `draft`, `status` and `ids`, the panel's local state and the
`calls` in flight, each served once and answered later, in any order; a panel that is gone
gets no answers but the context does.

The run `composer` has a patient user, one who acts while two calls are in flight on a
directory with a hand-named and an unloadable file, and one who leaves the tab. It
checks that the patient user's verdicts and messages are about the draft shown
(`PatientIsToldTheTruth`), that whatever is shown as under way has a call that ends it
(`WaitsForACall`), and that a save or a run reads back as the draft it stored
(`SavedComesBack`). Drafts are kept as normalised for editing at once.

`ExitManagementDraft` is the `exit_management` block: the handlers of its panels, the
normalisation each edit goes through, the Composer's validation and the loader's. A number is
one of the classes the checks tell apart. The run `exit_draft` starts from new, managed and
hand-written blocks and checks that what a save stores is sound for the managed loop
(`SavedIsSound`), that the Composer refuses no edited block in the form its editors write
which the loader takes (`LoaderTakesComposerTakes`), and that no edit of an accepted block strips another list
(`AcceptedIsNotStripped`).

`StrategyDraft` is the rest of an instance: slots, contexts, consumers, and the two shapes
(for editing, for the API). The run `strategy_draft` has four authors, who edit contexts and
their consumers, exits in two lists with clock stamps that repeat, old shapes, and
instances. It checks that what is stored consumes only what it defines
(`StoredContextsSound`), that exit ids are unique over all lists (`StoredIdsDistinct`), and that
a save changes nothing the author sees (`SaveKeepsWhatIsShown`).

Left out of the drafts: provider fields, market, anchor stack, sides, execution fields,
timeframes and sources, white space in ids, and the legacy roles no editor offers. The
phase-rule check is shared by both validators of the model. Elsewhere they differ, and the
model keeps the differences. The loader alone knows the alias `disable_fixed_tp`, and gives a
`lock_profit_stop` without `atr` its `atr_period` or 14 and an `rsi` without `period` 14, where
the Composer asks for both (`composerManagedExitManagement.ts:297-303`, `:360`): a file may hold
a block `{lock_atr: 1, atr_period: 14}` that the Composer refuses, so
`LoaderTakesComposerTakes` speaks of blocks in `EditorForm`, and hand-written blocks that are not
are among those the run starts from. A number a file holds in quotes, which the loader also
converts, is not modelled. The client alone accepts ids shared between layers, `buffer_type`
`"fixed"`, an `atr` of any content, fractions and cleared periods, and looks at the normalised block
where the loader sees what is sent: what `SavedIsSound` says comes of the loader's check, which
like the client's compares a phase rule with the one before it only.

### What is proved

`ComposerSession_proof`, for any drafts, ids, file names, directories and users
(`ComposerAssumption`: normalising a config for editing twice is doing it once):

| theorem | property |
|---|---|
| `AlwaysWaitsForACall` | `WaitsForACall` |
| `SavedConfigComesBack` | `SavedComesBack` |
| `AlwaysToldTheTruth` | `PatientIsToldTheTruth` |

`ComposerInv` is inductive: whatever the panel shows as under way has a call that is still
answered to this panel (`PanelWaits`), and "loading" has a reload (`StatusWaits`). For the patient user
`PatientInv` adds that there is at most one call, and what its answer will say is true of the draft
(`CallIsTrue`). That a save reads back goes through what `ConfigStore` finds: the file of the id's
own name first.

`StrategyDraft_proof`, for all strategies a file may hold, any authors and any number of
edits (`AuthorsAssumption`: files have the shape of strategies):

| theorem | property |
|---|---|
| `IdsStayDistinct` | `StoredIdsDistinct` |
| `ContextsStaySound` | `StoredContextsSound`, if no file has a consumption of the exit policy without a profile exit (`UseIsNeeded`; a save stores none, so only a file written by hand could) |
| `SavesKeepWhatIsShown` | `SaveKeepsWhatIsShown` |

The draft may be anything an author makes of it; the invariant is about its shape and about
what is stored. What makes a save sound is that the check before it is the loader's, and
that taking the API's shape back for editing changes nothing the editors show.

`ExitManagementDraft_proof`, for lists of any length (`AuthorsAssumption`: files hold blocks):

| theorem | property |
|---|---|
| `ComposerNeverInTheWay` | `LoaderTakesComposerTakes` |
| `SavesAreSound` | `SavedIsSound` |
| `EditsStripNothing` | `AcceptedIsNotStripped` |

The invariant `DraftInv` is that the draft is a block, which every step but a save keeps because
the block a handler writes is `Edited`: one list replaced, another mode, or a blank block for one of
the old shape. The rest is what normalising preserves. The checks compare neighbours in the list of
phase rules; that any two rules are then in order (`NeighboursInOrder`) is the one induction, by a least
counterexample.

## 11. Runs at a glance

Twelve runs, all of which pass. `MC_*.cfg` names the constants; the MC modules define what a
cfg cannot.

| run | modules | what it asks |
|---|---|---|
| `managed` | `ManagedExecution`, `PositionLedger` | do stops, exits, phases and fills behave, and is the loop the ledger? |
| `engine` | `DataEngine` | what do two processes, kills and partial answers leave behind? |
| `market_cache` | `MarketCache`, `BarStore` | is the chunk list a set of bars? |
| `market_load` | `MarketLoad` | is what is called ready loaded, and does loading settle? |
| `trace_load` | `TraceLoad` | is what is drawn of this run, and is what is covered drawn? |
| `view` | `ChartView` | is the window whole, still under a drag, and on the trade? |
| `session` | `WorkbenchSession` | do report, variant and trade belong together, and does loading end? |
| `aux` | `AuxOverlays` | is any line left over or missing? |
| `review` | `TradeReview` | do all views name the selected trade alike? |
| `composer` | `ComposerSession`, `ConfigStore` | is the user told the truth, and does a saved config come back? |
| `exit_draft` | `ExitManagementDraft` | do two validators keep what is stored sound? |
| `strategy_draft` | `StrategyDraft` | are contexts and ids of what is stored sound? |

Deadlock is checked for `managed`, `engine`, `market_cache` and `trace_load`. The others bound
what the user does, and may stop when he has done it.

## 12. Observed while modelling

Places where the code does something else than a document or comment says. They are read
off the source; no run is devoted to them. The models contain the behaviour unless noted,
and the properties are stated so that they hold with it.

* `runtime_exit_executed` is declared (`trade_runtime.py:39`) and emitted nowhere;
  `trade-exit-management-runtime/spec.md:515` lists it.
* In `fix` the discovery of the first bar and the window come before the `try`
  (`cli.py:282-292`): errors there leave no report, against `docs/data engine/03_dim_repair.md`.
* A response merged left of ten chunks is dropped at once (`marketResourceCache.ts:255`), so
  seeding does not imply coverage: the cycle ends, and the chart says it is loading until
  something else is selected. `setIfAbsent` replaces rows it is said not to overwrite
  (`:422`, `:432`).
* An answer that is short or empty is a success (`market_reader.py:80`, as
  `research-api-market-candles-window/spec.md:36,45` ask), and nothing looks at
  `coverage.truncated`: on a focus window of which the server lacks a bar the cycle ends without
  `ready` or `error`, no later cycle is due, and the chart stays at "loading".
* A superseded cycle of the view still shown marks its own focus window ready
  (`marketLoadRuntime.ts:105`); a failed overlay request takes the candles off the chart
  (`:248`); of two holes in a coverage window only the first is fetched
  (`marketWindowPlanner.ts:136`). A run over the same candles whose report is shorter than a
  window can leave such holes inside a focus window of another, and that chart then stays
  loading; all views of the run `market_load` have the same report.
* Neighbouring trace chunks never join, since bars are more than a second apart
  (`signalTraceDisplayCache.ts:189`). An effect run again for the same window is told
  `in_flight` by the key its own cleanup is about to release
  (`signalTraceRequestCoordinator.ts:142`), and a bundle evicted from the session cache still
  counts as merged (`:134`), so that a window visited again after enough others has no lanes
  (`QuietMeansLoaded` excludes it by `MayBeDropped`). Two windows of different widths that end on
  one bar can share a request, and the second is then told that it is merged: the windows of the
  run have one width.
* The focus effect moves the chart back to a trade after the user has panned, when
  overlays arrive (`WorkbenchRenderViewportContext.tsx:648`); with no trade selected it
  undoes a shift by a second swap.
* After a switch of the context React still has the dense bundle of the one before, and the
  fallback draws it under the new label (`phase63EAuxOverlayBridge.ts:113` does not ask whose
  trace it is). When the trace of the new context comes with as many points in the window, the
  key of the kept slice, which is of ids and counts (`chartRenderWindowDisplay.ts:87,106`), is what
  it was, and the old values stay on the chart until the window moves; when the load fails they
  stay as well. `workbench-chart-htf-context-overlays/spec.md:38` asks that the values equal the
  selected context's at each time. `NoLineIsLeftOver` names the two cases as the only ones, and
  `CachedHtfIsDrawn` speaks of values in the controller and of counts on the chart.
* A line without points keeps the old window's points (`ChartPanel.tsx:661`): `NoLineIsLeftOver`
  asks only for windows the cache has something of.
* When no run was stored as the page was opened, a list answer sent before the first
  backtest may take the selection back after its report has arrived, and leave a ready
  report with no run selected; one that comes between a commit and its effects leaves "loading"
  over no run and no call (`WorkbenchContext.tsx:557`; the run `session` and the
  theorem `ReportAlwaysSelected` start with a stored run).
* A list read before a backtest was stored can put the selection back
  (`WorkbenchContext.tsx:557`); a failing list hides a report that has arrived (`:571`).
* After a switch of the variant the markers of the one before stay while candles are
  missing (`ChartPanel.tsx:776`); the table's `#` is a row index, not the trade's number
  (`ReportsPanel.tsx:307`, not modelled); price lines show that number, not the id
  (`ChartPanel.tsx:859`).
* Two ids can share a file name, and a save replaces the other's file
  (`config_service.py:303`; the run uses ids that do not collide). Edits made while a save
  is under way are overwritten by its reload (`ComposerPanel.tsx:596`), for which reason the
  promise of truth is made to a user who waits.
* A block in another mode than managed loses its management rules with the first edit,
  without an error (`composerExitManagementProduct.ts:43`).

## 13. What is proved, only checked, left out

Proved for every value of the constants: the theorems of sections 3 to 10, in eight
modules. Every invariant and action property of the runs is among them, under the assumptions
its section names. Only checked with TLC is all liveness (`RunsEnd`, `LoadSettles`,
`LoadingEnds`): liveness and `ENABLED` are beyond the prover.

Some definitions are proved and not repeated by a run: `ExitPriceTradable`,
`ManagementFollowsPhase`, `TradesDisjoint`, `ManagedExitsAreDelayed`, `BackfillLeavesNoHoles`,
`RepairClosesWindow`, `NoOtherReport`, the arithmetic of section 7, and `TypeOK` of `DataEngine`.

Not modelled: float rounding and costs; vectorised indicator arithmetic and the vectorbt
simulation of plain mode; the parsing of strategy files beyond sections 3 and 10; report
statistics; the replay of finished trades for diagnostics; the batch runner of the
experiments; the read-only commands of the data engine and the stateless endpoints of the
API; rendering, layout and telemetry; the shadow runtimes that run for comparison
(`marketWindowRuntime`, `marketFetchPlanRuntime`, `interactionRuntime`, `panRuntime`) and their
harnesses; `displayComponentEventsForRenderWindow` and `tradeContextCausalDiagnostics`, which
nothing calls; scripts and debug tools.
