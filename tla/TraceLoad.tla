------------------------------- MODULE TraceLoad -------------------------------
(***************************************************************************)
(* How the workbench loads the signal trace of the chart window: one load  *)
(* cycle per run of the effect (WorkbenchContext.tsx), which restores the  *)
(* bundle of a visited window, or asks for chart events and the dense      *)
(* bundle (workbenchChartRuntime/traceRuntime.ts,                          *)
(* chart/runtime/workbenchTraceNetworkLoad.ts); the ledger of requests;    *)
(* and the display that is cut from what has arrived.                      *)
(*                                                                         *)
(* A run of the effect aborts the cycle before it.  The rejection reaches  *)
(* the aborted cycle, and the result of a cycle that did not wait reaches   *)
(* React, in microtasks: in either order, and before anything else.        *)
(***************************************************************************)
EXTENDS TraceCoverage

CONSTANTS
  Windows,       \* chart windows, as ranges of bars
  Settings,      \* builds and surroundings: VITE_CHART_EVENTS_API, the windows that are
                 \* visited, and what else happens
  MaxChunks,     \* MAX_CHUNKS_PER_KEY
  MaxBundles,    \* MAX_SESSION_TRACE_BUNDLES_PER_KEY
  MaxKeys,       \* MAX_MERGED_KEYS
  MaxEpoch,      \* bound: switches of the run and reloads
  Generations,   \* bound: load generations are counted modulo this
  None

(* What a load cycle is made of.                                           *)
Bars == UNION {w.from .. w.to : w \in Windows}
Bundles == UNION {[times -> 1 .. MaxEpoch] : times \in SUBSET {b * Step : b \in Bars}}
Lanes == [bundle : Bundles \cup {None}, status : {"idle", "loading", "ready", "error"},
          window : Windows \cup {None}]
Cycles == [window : Windows, gen : 0 .. Generations - 1, range : [from : Bars, to : Bars],
           epoch : 1 .. MaxEpoch, lanesOnly : BOOLEAN, snapshot : Lanes,
           visited : BOOLEAN, covered : BOOLEAN, stage : {"display", "dense"},
           drawn : BOOLEAN, use : {None, "fetch", "fetch_for_display"}]

ASSUME TraceAssumption ==
  /\ Windows \subseteq [from : Nat, to : Nat] /\ \A w \in Windows : w.from <= w.to
  /\ {MaxChunks, MaxBundles, MaxKeys, MaxEpoch} \subseteq Nat \ {0}
  /\ Generations \in Nat /\ Generations > 3
  /\ \A s \in Settings : s.chartEvents \in BOOLEAN /\ IsFiniteSet(s.disturbances)
  /\ None \notin Cycles \cup {"applied", "deferred", "blocked"}

VARIABLES
  view,     \* the chart: window, queued intent, panning, whether all it needs is
            \* loaded, and the setting it runs in, which never changes
  due,      \* the effect has to run
  epoch,    \* which run, or which load of it, the data must come from
  ledger,   \* coordinator: in flight (key to generation), merged, failed
  session,  \* bundles of visited windows
  lanes,    \* controller: the dense bundle, its status and its window
  gen,      \* loadGeneration
  chunks,   \* the display cache
  display,  \* what was last cut from it
  cycle,    \* the load cycle that waits
  aborted,  \* the cycle an effect has just aborted
  result,   \* of a cycle that did not wait: what React does next
  react     \* the lanes React was last given
vars == <<view, due, epoch, ledger, session, lanes, gen, chunks, display,
          cycle, aborted, result, react>>

------------------------------------------------------------------------------
NoLanes == [bundle |-> None, status |-> "idle", window |-> None]
NoLedger == [inFlight |-> <<>>, merged |-> <<>>, failed |-> {}]
EmptyDisplay == [events |-> {}, status |-> "empty", stale |-> FALSE, input |-> None]

ChartEvents == view.setting.chartEvents
Disturbances == view.setting.disturbances
Visited == view.setting.visited

Shown == view.window
Spans == [i \in DOMAIN chunks |-> Window(chunks[i].from, chunks[i].to)]
CoversIn(store, w) ==
  CoversSpan([i \in DOMAIN store |-> Window(store[i].from, store[i].to)], SpanOfBars(w))
DisplayCovers == CoversIn(chunks, Shown)

(* chart-events and signal-trace requests of one range have different keys *)
(* when chart events are on.                                               *)
TraceKey(range) == <<"trace", range>>
DisplayKey(range) == IF ChartEvents THEN <<"events", range>> ELSE TraceKey(range)

HasBundle(w) == \E i \in DOMAIN session : session[i].window = w
BundleOf(w) == (CHOOSE b \in ToSet(session) : b.window = w).bundle

(* lanesReadyForWindow: an error counts as ready.                          *)
ReadyFor(l, w) == l.window = w /\ l.status \in {"ready", "error"}

(* planMissingTraceDisplayChunkFetch: from the first bar at or after the   *)
(* missing second to the end of the window, whose last bar is always one.  *)
MissingBars(w) ==
  LET hole == MissingSpan(Spans, SpanOfBars(w))
      late == {b \in w.from .. w.to : b * Step >= hole.from}
  IN  Window(Min(late \cup {w.to}), w.to)

------------------------------------------------------------------------------
(* The ledger of requests. *)

InFlight(l, key) == key \in DOMAIN l.inFlight
MarkedInFlight(l, keys, g) ==
  [l EXCEPT !.inFlight = [k \in keys \cup DOMAIN @ |-> IF k \in keys THEN g ELSE @[k]]]
(* clearInFlight: only what this generation put there.                     *)
Cleared(l, keys, g) ==
  [l EXCEPT !.inFlight =
     [k \in {j \in DOMAIN @ : ~(j \in keys /\ @[j] = g)} |-> @[k]]]
MarkedMerged(l, key) ==
  [l EXCEPT !.failed = @ \ {key}, !.merged = TouchedKey(@, key, MaxKeys)]
MarkedFailed(l, key) ==
  [l EXCEPT !.failed = @ \cup {key},
            !.inFlight = [k \in DOMAIN @ \ {key} |-> @[k]]]
AnyAnswer(key, g) == TRUE
(* isResponseCurrent *)
IsCurrent(key, g) == InFlight(ledger, key) /\ ledger.inFlight[key] = g

(* evaluate *)
Authorised(key) ==
  key \notin ledger.failed /\ key \notin ToSet(ledger.merged) /\ ~InFlight(ledger, key)

------------------------------------------------------------------------------
(* The display. *)

EventsOf(store, w) ==
  LET cut == EventsIn(store, SpanOfBars(w))
  IN  {[time |-> t, epoch |-> cut[t]] : t \in DOMAIN cut}

(* applyTraceDisplayForWindow: what is drawn stays when the window has      *)
(* nothing of its own yet; nothing is recomputed for the same input.       *)
Applied(d, store, w, status) ==
  IF d.input = <<w, status>> THEN d
  ELSE LET events == EventsOf(store, w)
           state == IF CoversIn(store, w) THEN "current"
                    ELSE IF status = "loading" THEN "loading_missing"
                    ELSE IF events # {} THEN "partial" ELSE "stale"
           retain == state # "current" /\ events = {} /\ d.events # {}
           drawn == IF retain THEN d.events ELSE events
       IN  [events |-> drawn, status |-> state, input |-> <<w, status>>,
            stale |-> state # "current" /\ drawn # {}]

(* bumpTraceDisplayCacheVersion: the next application is recomputed.       *)
Bumped(d) == [d EXCEPT !.input = None]
Committed(d, store, w, status) == Applied(Bumped(d), store, w, status)

------------------------------------------------------------------------------
(* Load cycles. *)

DenseKey(c) == TraceKey(c.range)
Network(c) == IF c.lanesOnly THEN TraceKey(c.range) ELSE DisplayKey(c.range)
NetworkKeyOnly(c) == {Network(c)}
KeysOf(c) == {Network(c), TraceKey(c.range), DisplayKey(c.range)}

NewCycle(lanesOnly, range) ==
  [window |-> Shown, gen |-> (gen + 2) % Generations, range |-> range, epoch |-> epoch,
   lanesOnly |-> lanesOnly, snapshot |-> lanes, visited |-> HasBundle(Shown),
   covered |-> DisplayCovers, stage |-> "display", drawn |-> lanesOnly, use |-> None]

SkipWhenDrawn(c, committed) == IF committed THEN "skip" ELSE "fetch_for_display"

(* decideDenseLanesNetworkLoad: on what was read before the display answer. *)
DenseDecision(c, committed) ==
  LET ready == ReadyFor(c.snapshot, c.window)
      loaded == ready /\ c.snapshot.status = "ready" /\ c.snapshot.bundle # None
  IN  IF ~ChartEvents \/ ~(committed \/ c.lanesOnly)
      THEN IF loaded THEN "use_loaded" ELSE "fetch_for_display"
      ELSE IF ready THEN "skip"
      ELSE IF c.covered /\ c.visited /\ HasBundle(c.window) THEN "restore"
      ELSE "fetch"

Init ==
  /\ \E s \in Settings :
       view = [window |-> None, intent |-> None, panning |-> FALSE, booted |-> FALSE,
               setting |-> s]
  /\ due = FALSE /\ epoch = 1 /\ ledger = NoLedger /\ session = <<>>
  /\ lanes = NoLanes /\ gen = 0 /\ chunks = <<>> /\ display = EmptyDisplay
  /\ cycle = None /\ aborted = None /\ result = None /\ react = NoLanes

(* No microtask is left; without chart events a cycle passes the display    *)
(* stage in one.                                                           *)
Calm == aborted = None /\ result = None
        /\ (cycle # None => ChartEvents \/ cycle.stage # "display")

------------------------------------------------------------------------------
(* The chart and its user.  The effects of a render have run before the     *)
(* next one renders.                                                        *)

Still == Calm /\ ~due

(* A hasty user moves on before the window is loaded.                      *)
MayMove == Still /\ (cycle # None => "hasty" \in Disturbances)

(* The report, the variant and the market data of the chart are there.     *)
Boot ==
  /\ Still /\ ~view.booted
  /\ view' = [view EXCEPT !.booted = TRUE]
  /\ due' = TRUE
  /\ UNCHANGED <<epoch, ledger, session, lanes, gen, chunks, display, cycle,
                 aborted, result, react>>

(* A window shift is committed: applyWindowCommit queues its fetch intent. *)
Commit(w) ==
  /\ MayMove /\ w \in Visited \ {Shown}
  /\ view' = [view EXCEPT !.window = w, !.intent = w, !.panning = FALSE]
  /\ due' = TRUE
  /\ UNCHANGED <<epoch, ledger, session, lanes, gen, chunks, display, cycle,
                 aborted, result, react>>

(* The window changes with the trade or the bundle: no intent is queued.   *)
Realign(w) ==
  /\ "realign" \in Disturbances /\ MayMove /\ w \in Visited \ {Shown}
  /\ view' = [view EXCEPT !.window = w]
  /\ due' = TRUE
  /\ UNCHANGED <<epoch, ledger, session, lanes, gen, chunks, display, cycle,
                 aborted, result, react>>

(* The pointer goes down, or is released with no shift to commit.          *)
Pan ==
  /\ "pan" \in Disturbances /\ Still
  /\ view' = [view EXCEPT !.panning = ~@]
  /\ UNCHANGED <<due, epoch, ledger, session, lanes, gen, chunks, display, cycle,
                 aborted, result, react>>

(* Another dependency of the effect changes: a viewport command, say.      *)
Rerun ==
  /\ "rerun" \in Disturbances /\ Still
  /\ due' = TRUE
  /\ UNCHANGED <<view, epoch, ledger, session, lanes, gen, chunks, display, cycle,
                 aborted, result, react>>

(* resetTraceCoordinator, the display cache and the session cache.         *)
ResetAll ==
  /\ epoch' = epoch + 1 /\ ledger' = NoLedger /\ session' = <<>>
  /\ lanes' = NoLanes /\ gen' = (gen + 1) % Generations
  /\ chunks' = <<>> /\ display' = EmptyDisplay

(* Another run, or a variant on another market view: the effects of that    *)
(* render reset everything, and the load effect finds nothing to load yet.  *)
Switch ==
  /\ "switch" \in Disturbances /\ Still /\ epoch < MaxEpoch
  /\ ResetAll
  /\ view' = [view EXCEPT !.window = None, !.intent = None, !.booted = FALSE]
  /\ due' = FALSE /\ aborted' = cycle /\ cycle' = None /\ result' = "blocked"
  /\ UNCHANGED react

(* Another context, or a variant on the same market view: everything is     *)
(* reset and the load effect runs for the window still shown; the key of    *)
(* the lanes React has is no longer that of the window.                     *)
Recontext ==
  /\ "context" \in Disturbances /\ Still /\ view.booted /\ epoch < MaxEpoch
  /\ ResetAll
  /\ react' = [react EXCEPT !.window = None] /\ due' = TRUE
  /\ UNCHANGED <<view, cycle, aborted, result>>

(* The reload token: everything is reset before the load effect runs and    *)
(* aborts the cycle in flight.                                             *)
Reload ==
  /\ "reload" \in Disturbances /\ Still /\ epoch < MaxEpoch
  /\ ResetAll
  /\ view' = [view EXCEPT !.booted = FALSE] /\ due' = TRUE
  /\ UNCHANGED <<cycle, aborted, result, react>>

------------------------------------------------------------------------------
(* The load effect: the cycle before is aborted, the display is applied to  *)
(* the window of this render, and a new cycle runs up to its first await.   *)
(* planTraceDisplayLoad picks one of the outcomes.                          *)

Superseded == view.intent # None /\ view.intent # Shown
Blocked == ~view.booted \/ Shown = None
Held == view.panning /\ ~DisplayCovers
Restorable == HasBundle(Shown) /\ lanes.window # Shown
LanesOnly == ChartEvents /\ DisplayCovers /\ ~ReadyFor(lanes, Shown)
Wanted == IF DisplayCovers THEN Shown ELSE MissingBars(Shown)
FirstKey == IF LanesOnly THEN TraceKey(Wanted) ELSE DisplayKey(Wanted)

AppliedNow == Applied(display, chunks, Shown, react.status)

Effect ==
  /\ due /\ Calm
  /\ due' = FALSE /\ aborted' = cycle
  /\ view' = [view EXCEPT !.intent = None]
  /\ UNCHANGED <<epoch, react>>

EndedAtOnce(outcome) == cycle' = None /\ result' = outcome

BlockedEffect ==
  /\ Effect /\ Blocked
  /\ EndedAtOnce("blocked")
  /\ lanes' = NoLanes /\ gen' = (gen + 1) % Generations
  /\ display' = IF Shown = None THEN EmptyDisplay ELSE AppliedNow
  /\ UNCHANGED <<ledger, session, chunks>>

(* fetch_superseded and pan_block: nothing is loaded for this window.      *)
WaitingEffect ==
  /\ Effect /\ ~Blocked /\ (Superseded \/ Held)
  /\ EndedAtOnce(IF Superseded THEN "deferred" ELSE "applied")
  /\ gen' = (gen + 1) % Generations /\ display' = AppliedNow
  /\ UNCHANGED <<ledger, session, lanes, chunks>>

Loads == Effect /\ ~Blocked /\ ~Superseded /\ ~Held

(* restore_session: the lanes only when chart events have the window drawn, *)
(* else the bundle is merged into the display as well.                     *)
RestoreEffect ==
  /\ Loads /\ Restorable
  /\ EndedAtOnce("applied")
  /\ gen' = (gen + 1) % Generations
  /\ lanes' = [bundle |-> BundleOf(Shown), status |-> "ready", window |-> Shown]
  /\ LET all == ChartEvents /\ DisplayCovers
         bundle == BundleOf(Shown)
         key == IF all THEN TraceKey(Shown) ELSE DisplayKey(Shown)
     IN  /\ ledger' = MarkedMerged(ledger, key)
         /\ chunks' = IF all THEN chunks
                      ELSE MergedResponse(chunks, SpanOfBars(Shown), bundle, MaxChunks)
         /\ display' = IF all THEN Applied(AppliedNow, chunks, Shown, "ready")
                       ELSE Committed(AppliedNow, chunks', Shown, "ready")
  /\ UNCHANGED session

(* The window is drawn and the lanes need nothing.                         *)
CoveredEffect ==
  /\ Loads /\ ~Restorable /\ DisplayCovers /\ ~LanesOnly
  /\ EndedAtOnce("applied")
  /\ gen' = (gen + 1) % Generations
  /\ display' = Applied(AppliedNow, chunks, Shown, lanes.status)
  /\ UNCHANGED <<ledger, session, lanes, chunks>>

(* The coordinator does not authorise the request.                         *)
SkipEffect ==
  /\ Loads /\ ~Restorable /\ (DisplayCovers => LanesOnly)
  /\ ~Authorised(FirstKey)
  /\ LET merged == FirstKey \notin ledger.failed /\ FirstKey \in ToSet(ledger.merged)
     IN  /\ EndedAtOnce(IF merged THEN "applied" ELSE "deferred")
         /\ display' = IF merged \/ LanesOnly
                       THEN Applied(AppliedNow, chunks, Shown, lanes.status)
                       ELSE AppliedNow
  /\ gen' = (gen + 2) % Generations
  /\ UNCHANGED <<ledger, session, lanes, chunks>>

(* A request for the missing part of the display.                          *)
DisplayEffect ==
  /\ Loads /\ ~Restorable /\ ~DisplayCovers /\ Authorised(FirstKey)
  /\ LET c == NewCycle(FALSE, Wanted)
     IN  /\ cycle' = c /\ gen' = c.gen
         /\ ledger' = MarkedInFlight(ledger, {FirstKey}, c.gen)
  /\ result' = None /\ display' = AppliedNow
  /\ UNCHANGED <<session, lanes, chunks>>

(* A window that is drawn but whose lanes are not there: the dense bundle   *)
(* from the session cache or the server, without another await before.     *)
LanesEffect ==
  /\ Loads /\ ~Restorable /\ LanesOnly /\ Authorised(FirstKey)
  /\ LET c == [NewCycle(TRUE, Wanted) EXCEPT !.stage = "dense"]
         restored == DenseDecision(c, FALSE) = "restore"
     IN  /\ gen' = c.gen
         /\ display' = Applied(AppliedNow, chunks, Shown, lanes.status)
         /\ IF restored
            THEN /\ EndedAtOnce("applied")
                 /\ ledger' = MarkedMerged(ledger, TraceKey(Wanted))
                 /\ lanes' = [bundle |-> BundleOf(Shown), status |-> "ready",
                              window |-> Shown]
            ELSE /\ cycle' = c /\ result' = None
                 /\ ledger' = MarkedInFlight(ledger, {FirstKey}, c.gen)
                 /\ lanes' = [lanes EXCEPT !.status = "loading"]
  /\ UNCHANGED <<session, chunks>>

RunEffect ==
  \/ BlockedEffect \/ WaitingEffect \/ RestoreEffect \/ CoveredEffect
  \/ SkipEffect \/ DisplayEffect \/ LanesEffect

------------------------------------------------------------------------------
(* Microtasks. *)

(* The result of a cycle that did not wait is given to React, and the       *)
(* display is finalised with it.                                           *)
Deliver ==
  /\ result # None
  /\ react' = lanes /\ result' = None
  /\ display' = IF result = "applied" THEN Applied(display, chunks, Shown, lanes.status)
                ELSE display
  /\ UNCHANGED <<view, due, epoch, ledger, session, lanes, gen, chunks, cycle, aborted>>

(* The status an aborted cycle leaves: the one it found (traceRuntime 606). *)
Unwound == IF aborted.stage = "dense"
           THEN [lanes EXCEPT !.status = aborted.snapshot.status] ELSE lanes

Unwind ==
  /\ aborted # None
  /\ lanes' = Unwound
  /\ ledger' = Cleared(ledger, KeysOf(aborted), aborted.gen)
  /\ aborted' = None
  /\ UNCHANGED <<view, due, epoch, session, gen, chunks, display, cycle, result, react>>

------------------------------------------------------------------------------
(* Answers. *)

(* The bars of an answer carry the epoch they were asked for in.           *)
Rows(range, kind) ==
  LET bars == CASE kind = "full" -> range.from .. range.to
                [] kind = "short" -> range.from .. (range.to - 1)
                [] OTHER -> {}
  IN  [t \in {b * Step : b \in bars} |-> cycle.epoch]
Kinds == {"full"} \cup ({"short", "empty"} \cap Disturbances)

(* The cycle ends: its keys leave the ledger, React gets the lanes.        *)
Ended(l) ==
  /\ cycle' = None
  /\ ledger' = Cleared(l, KeysOf(cycle), cycle.gen)
  /\ react' = lanes'

(* After the display stage: store and d are what it left.                  *)
AfterDisplay(c, l, store, d) ==
  LET decision == DenseDecision(c, c.drawn)
  IN  CASE decision = "skip" ->
             /\ UNCHANGED lanes
             /\ Ended(MarkedMerged(l, DenseKey(c)))
             /\ chunks' = store
             /\ display' = Applied(d, store, c.window, lanes.status)
        [] decision = "use_loaded" ->
             /\ UNCHANGED lanes
             /\ Ended(MarkedMerged(MarkedMerged(l, DisplayKey(c.range)), DenseKey(c)))
             /\ chunks' = MergedResponse(store, SpanOfBars(c.range), c.snapshot.bundle,
                                         MaxChunks)
             /\ display' = Committed(d, chunks', c.window, lanes.status)
        [] decision = "restore" ->
             /\ lanes' = [bundle |-> BundleOf(c.window), status |-> "ready",
                          window |-> c.window]
             /\ Ended(MarkedMerged(l, DenseKey(c)))
             /\ chunks' = store
             /\ display' = Applied(d, store, c.window, "ready")
        [] OTHER ->
             /\ cycle' = [c EXCEPT !.stage = "dense", !.use = decision]
             /\ ledger' = MarkedInFlight(l, {DenseKey(c)}, c.gen)
             /\ lanes' = [lanes EXCEPT !.status = "loading"]
             /\ chunks' = store /\ display' = d
             /\ UNCHANGED react

(* Without chart events loadDisplayTraceChunk asks for nothing.            *)
PassDisplay ==
  /\ ~ChartEvents /\ cycle # None /\ cycle.stage = "display"
  /\ AfterDisplay(cycle, ledger, chunks, display)
  /\ UNCHANGED <<view, due, epoch, session, gen, aborted, result>>

AnswerDisplay ==
  /\ Calm /\ cycle # None /\ cycle.stage = "display" /\ IsCurrent(Network(cycle), cycle.gen)
  /\ \E kind \in Kinds :
       LET store == MergedResponse(chunks, SpanOfBars(cycle.range),
                                   Rows(cycle.range, kind), MaxChunks)
       IN  AfterDisplay([cycle EXCEPT !.drawn = TRUE],
                        MarkedMerged(ledger, DisplayKey(cycle.range)), store,
                        Committed(display, store, cycle.window, lanes.status))
  /\ UNCHANGED <<view, due, epoch, session, gen, aborted, result>>

FailDisplay ==
  /\ "fail" \in Disturbances
  /\ Calm /\ cycle # None /\ cycle.stage = "display" /\ IsCurrent(Network(cycle), cycle.gen)
  /\ AfterDisplay(cycle, ledger, chunks, display)
  /\ UNCHANGED <<view, due, epoch, session, gen, aborted, result>>

(* An answer to a request the ledger no longer knows: after a reset.       *)
StaleAnswer ==
  /\ Calm /\ cycle # None /\ ~IsCurrent(Network(cycle), cycle.gen)
  /\ lanes' = IF cycle.stage = "dense"
              THEN [lanes EXCEPT !.status = cycle.snapshot.status] ELSE lanes
  /\ Ended(ledger)
  /\ UNCHANGED <<view, due, epoch, session, gen, chunks, display, aborted, result>>

LanesOfShown(c, bundle) == [bundle |-> bundle, status |-> "ready", window |-> Shown]
LanesOf(c, bundle) == [bundle |-> bundle, status |-> "ready", window |-> c.window]

AnswerDense ==
  /\ Calm /\ cycle # None /\ cycle.stage = "dense" /\ IsCurrent(Network(cycle), cycle.gen)
  /\ \E kind \in Kinds :
       LET bundle == Rows(cycle.range, kind)
           draw == ~cycle.drawn /\ cycle.use = "fetch_for_display"
           store == IF draw THEN MergedResponse(chunks, SpanOfBars(cycle.range), bundle,
                                                MaxChunks)
                    ELSE chunks
           d == IF draw THEN Committed(display, store, cycle.window, "loading")
                ELSE display
           l == IF draw THEN MarkedMerged(ledger, DisplayKey(cycle.range)) ELSE ledger
       IN  /\ lanes' = LanesOf(cycle, bundle)
           /\ Ended(MarkedMerged(l, DenseKey(cycle)))
           /\ session' = PutBundle(session, cycle.window, bundle, MaxBundles)
           /\ chunks' = store
           /\ display' = Applied(d, store, cycle.window, "ready")
  /\ UNCHANGED <<view, due, epoch, gen, aborted, result>>

(* The chunk is marked as failed only when the display did not get it.     *)
FailDense ==
  /\ "fail" \in Disturbances
  /\ Calm /\ cycle # None /\ cycle.stage = "dense" /\ IsCurrent(Network(cycle), cycle.gen)
  /\ lanes' = [bundle |-> None, status |-> "error", window |-> cycle.window]
  /\ Ended(IF cycle.drawn THEN ledger ELSE MarkedFailed(ledger, DenseKey(cycle)))
  /\ display' = Applied(display, chunks, cycle.window, "error")
  /\ UNCHANGED <<view, due, epoch, session, gen, chunks, aborted, result>>

------------------------------------------------------------------------------
Environment == \/ Boot \/ Pan \/ Rerun \/ Switch \/ Recontext \/ Reload
               \/ \E w \in Windows : Commit(w) \/ Realign(w)
Answer == AnswerDisplay \/ FailDisplay \/ StaleAnswer \/ AnswerDense \/ FailDense
Machine == RunEffect \/ Deliver \/ Unwind \/ PassDisplay \/ Answer

Next == Environment \/ Machine
Spec == Init /\ [][Next]_vars

------------------------------------------------------------------------------
(* Properties. *)

(* Bundles are kept under the window they were asked for: they have no bar *)
(* of another one.                                                         *)
TypeOK ==
  /\ view.window \in Windows \cup {None} /\ view.intent \in Windows \cup {None}
  /\ view.panning \in BOOLEAN /\ view.booted \in BOOLEAN /\ due \in BOOLEAN
  /\ epoch \in 1 .. MaxEpoch /\ gen \in 0 .. Generations - 1
  /\ Len(chunks) <= MaxChunks /\ Len(session) <= MaxBundles /\ Len(ledger.merged) <= MaxKeys
  /\ lanes.status \in {"idle", "loading", "ready", "error"}
  /\ lanes.window \in Windows \cup {None}
  /\ result \in {None, "applied", "deferred", "blocked"}
  /\ \A b \in ToSet(session) \cup {lanes} : b.window # None /\ b.bundle # None =>
       DOMAIN b.bundle \subseteq {i * Step : i \in b.window.from .. b.window.to}

(* After a reload or a switch nothing of the data before is drawn, kept for *)
(* a later visit or shown in the lanes: an answer on its way is refused,    *)
(* and a cycle keeps no bundle over it.                                    *)
DisplayIsOfThisEpoch ==
  /\ TypeOK
  /\ \A e \in display.events : e.epoch = epoch
  /\ \A b \in ToSet(session) \cup {lanes} :
       b.bundle # None => \A t \in DOMAIN b.bundle : b.bundle[t] = epoch

(* What is covered is drawn in full: an answer the server cut, the removal *)
(* of duplicates or the cap never leave cover without the events and the   *)
(* context behind it; and what is drawn is what the cache now holds for    *)
(* the window it was drawn for, whichever chunks came or went since.       *)
CoveredIsDrawn ==
  /\ \A w \in Windows : CoversIn(chunks, w) =>
       LET span == SpanOfBars(w)
           times == {b * Step : b \in w.from .. w.to}
       IN  DOMAIN EventsIn(chunks, span) = times /\ DOMAIN HtfIn(chunks, span) = times
  /\ display.input # None =>
       display = Applied(Bumped(display), chunks, display.input[1], display.input[2])

(* Without a cycle under way no request counts as in flight: a key left     *)
(* behind would stop every later load of that range.                       *)
NothingLeftInFlight == cycle = None /\ aborted = None => ledger.inFlight = <<>>

(* A user who lets each window load, and requests that succeed.            *)
Orderly == ChartEvents /\ Disturbances \subseteq {"realign"}

(* Everything has come to rest: no cycle, no effect and no microtask waits. *)
Quiet == Still /\ cycle = None /\ view.booted /\ Shown # None

(* The ledger outlives the bundles: a full session cache may have dropped   *)
(* the one of this window, whose requests still count as answered.         *)
MayBeDropped == ~HasBundle(Shown) /\ Len(session) = MaxBundles

(* The lanes of the window an orderly user has before him are there once    *)
(* nothing is under way: as long as its bundle is kept, no ledger entry or  *)
(* cached bundle stands in for lanes that are not loaded.                  *)
QuietMeansLoaded == Orderly /\ Quiet => ReadyFor(react, Shown) \/ MayBeDropped
==================================================================================
