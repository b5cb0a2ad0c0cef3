----------------------------- MODULE AuxOverlays -----------------------------
(* The EMA lines the chart draws beside the anchor stack (WorkbenchContext    *)
(* over workbenchChartRuntime/auxOverlayRuntime.ts): the lines of a higher    *)
(* timeframe, cut from the signal trace of the context the user picked, and   *)
(* the lines of exit rules, asked of the server.  A controller that renders   *)
(* and effects write outside React's state keeps both; revisions tell React.  *)
(*                                                                            *)
(* The loading of the trace is TraceLoad's; what reaches the lines is left: a *)
(* cycle that merges a chunk into the display cache, then ends with the dense *)
(* bundle of its window or fails.  The three lines of a context are one, all  *)
(* lines of exit rules are one, and a line has a value at each of its bars.   *)
EXTENDS Naturals, FiniteSets

CONSTANTS
  Variants,   \* of the run that is shown
  Contexts,   \* Contexts[v]: the contexts that strategy_spec defines
  Consumed,   \* Consumed[v]: the context its exit policy consumes, or None
  ExitLines,  \* variants with an exit rule on an EMA of the chart's timeframe
  Bars,       \* bars of the report
  Windows,    \* render windows: sets of bars, in the order of time
  MayFail,    \* which requests may fail: subset of {"trace", "bff"}
  None

(* What lines and load cycles are made of.                                    *)
Refs == {None} \cup UNION {Contexts[v] : v \in Variants}
LineKeys == Variants \X Refs
Lines == [label : LineKeys, data : LineKeys, bars : SUBSET Bars]
LineCycles == [key : LineKeys, window : Windows, draws : BOOLEAN, range : SUBSET Bars,
               stage : {"display", "dense"}]
WindowKeys == LineKeys \X Windows

ASSUME AuxAssumption ==
  /\ \A v \in Variants : Consumed[v] \in Contexts[v] \cup {None} /\ None \notin Contexts[v]
  /\ Bars \subseteq Nat /\ IsFiniteSet(Bars)
  /\ Windows \subseteq SUBSET Bars /\ {} \notin Windows
  /\ None \notin Lines \cup LineCycles \cup WindowKeys
  /\ ExitLines \subseteq Variants /\ MayFail \subseteq {"trace", "bff"}

VARIABLES
  page,    \* React state, with the updates queued since the last commit
  commit,  \* the state of the last commit, and the lines on the chart since
  due,     \* effects of that commit that have not run
  owner,   \* the controller: specs, lines, HTF lines kept for a window without any
  slices,  \* list given to the chart window, and the slice kept for its fingerprint
  cache,   \* display cache: whose trace, and the bars it has
  lanes,   \* the trace controller's dense bundle
  cycle,   \* load cycle in flight
  fetches  \* requests for exit lines in flight, by the variant they are for
auxVars == <<page, commit, due, owner, slices, cache, lanes, cycle, fetches>>

------------------------------------------------------------------------------
(* Contexts. *)

(* defaultChartContextOverlayRef *)
DefaultRef(v) ==
  IF Consumed[v] # None THEN Consumed[v]
  ELSE IF Cardinality(Contexts[v]) = 1 THEN CHOOSE r \in Contexts[v] : TRUE
  ELSE None

Effective(s) == IF s.ref # None THEN s.ref ELSE DefaultRef(s.variant)

(* buildTraceDisplayCacheKey and chartWindowKey *)
Key(s) == <<s.variant, Effective(s)>>
WindowKey(s) == <<Key(s), s.window>>

(* collectAuxEmaSpecs.  A ref the variant does not define has no provider.   *)
SpecsOf(s) ==
  [key |-> Key(s), exit |-> s.variant \in ExitLines,
   htf |-> Effective(s) \in Contexts[s.variant]]

------------------------------------------------------------------------------
(* Lines: whose specs label them, whose values they have. *)

Line(label, data, bars) == [label |-> label, data |-> data, bars |-> bars]
Cut(line, window) ==
  IF line = None THEN None ELSE [line EXCEPT !.bars = @ \cap window]
Count(line) == IF line = None THEN {} ELSE {Cardinality(line.bars)}

(* auxOverlayFromHtfSlice: a trace loaded without a context has no values.   *)
HtfLine(specs, data, bars) ==
  IF ~specs.htf \/ data[2] = None \/ bars = {} THEN None ELSE Line(specs.key, data, bars)

NoSlice == [of |-> None, bars |-> {}]
SliceFor(store, window) ==
  IF store.bars \cap window = {} THEN NoSlice
  ELSE [of |-> store.key, bars |-> store.bars \cap window]

(* applyHtfOverlaysFromDisplaySlice *)
WithSlice(own, slice) ==
  LET line == IF slice.bars = {} THEN None ELSE HtfLine(own.specs, slice.of, slice.bars)
  IN  IF line = None THEN own ELSE [own EXCEPT !.htf = line, !.frozen = line]

(* resetAuxOverlayRuntime *)
Cleared(own) == [own EXCEPT !.htf = None, !.exit = None, !.frozen = None]

(* applyHtfOverlaysFromDenseTrace *)
WithDense(own, dense) ==
  LET line == HtfLine(own.specs, dense.key, dense.bars)
  IN  [own EXCEPT !.htf = line, !.frozen = line]

Covers(store, window) == window \subseteq store.bars
Touches(store, window) == store.bars \cap window # {}

------------------------------------------------------------------------------
(* Rendering. *)

Bumped(u, what) == [u EXCEPT !.bumps = @ \cup what]

(* renderViewportInputs reads the controller when one of its dependencies    *)
(* changed.                                                                  *)
Given(s) ==
  IF "rev" \in page.bumps \/ s.variant # commit.s.variant \/ s.market # commit.s.market
  THEN [htf |-> owner.htf, exit |-> owner.exit] ELSE slices.given

SliceOf(list, window) ==
  [htf |-> Cut(list.htf, window), exit |-> Cut(list.exit, window)]
(* buildAuxOverlaysStabilizeKey: the lines' ids and their number of points.  *)
Fingerprint(raw, window) == <<window, Count(raw.htf), Count(raw.exit)>>

(* stabilizeByWindowBoundsKey *)
Stable(raw, window) ==
  IF slices.print = Fingerprint(raw, window) THEN slices.kept ELSE raw

Matches(s) == s.loaded = WindowKey(s)

(* displayAuxOverlaysForRenderWindow *)
Display(own, list, s) ==
  LET source == IF ~Matches(s) /\ own.frozen # None THEN own.frozen ELSE list.htf
  IN  [exit |-> list.exit, htf |-> Cut(source, s.window)]

(* The chart: a line without points leaves the points of its series drawn.    *)
Paint(line, before) ==
  IF line # None /\ line.bars = {} /\ before # None THEN before ELSE line
Painted(lines) ==
  [htf |-> Paint(lines.htf, commit.drawn.htf), exit |-> Paint(lines.exit, commit.drawn.exit)]

(* The effects of a commit from s to t, by the dependencies that changed.    *)
Triggered(s, t, bumps) ==
  LET key == Key(s) # Key(t)
      window == s.window # t.window
  IN  (IF s.variant # t.variant THEN {"default"} ELSE {})
        \cup (IF s.variant # t.variant \/ s.ref # t.ref THEN {"invalid"} ELSE {})
        \cup (IF key THEN {"specs", "reset"} ELSE {})
        \cup (IF key \/ s.market # t.market THEN {"bff"} ELSE {})
        \cup (IF window \/ s.dense # t.dense \/ s.status # t.status
                 \/ bumps \cap {"version", "apply"} # {} THEN {"fallback"} ELSE {})
        \cup (IF window \/ s.variant # t.variant \/ "version" \in bumps
              THEN {"apply"} ELSE {})
        \cup (IF key \/ window \/ s.market # t.market THEN {"load"} ELSE {})

(* A render with the memo of the snapshot, which writes the controller: it   *)
(* applies the slice of the display and keeps the HTF lines of its window.    *)
RenderLines ==
  /\ due = {} /\ page # commit.s
  /\ LET s == [page EXCEPT !.bumps = {}]
         raw == SliceOf(Given(s), s.window)
         list == Stable(raw, s.window)
         same == /\ page.bumps \cap {"rev", "apply"} = {} /\ list = slices.kept
                 /\ s = [commit.s EXCEPT !.market = s.market]
         own == IF same THEN owner ELSE WithSlice(owner, s.slice)
         keeps == ~same /\ Matches(s) /\ list.htf # None /\ list.htf.bars # {}
     IN  /\ commit' = [s |-> s, drawn |-> IF same THEN commit.drawn
                                         ELSE Painted(Display(own, list, s))]
         /\ owner' = IF keeps THEN [own EXCEPT !.frozen = list.htf] ELSE own
         /\ slices' = [given |-> Given(s), kept |-> list,
                       print |-> Fingerprint(raw, s.window)]
         /\ page' = s
         /\ due' = Triggered(commit.s, s, page.bumps)
  /\ UNCHANGED <<cache, lanes, cycle, fetches>>

------------------------------------------------------------------------------
(* Effects, in the order of the component; x is what they change, s the       *)
(* commit they close over.                                                    *)

InvalidEffect(x, s) ==
  IF "invalid" \in due /\ s.ref \notin Contexts[s.variant]
  THEN [x EXCEPT !.ui.ref = None] ELSE x

DefaultEffect(x, s) ==
  IF "default" \in due THEN [x EXCEPT !.ui.ref = DefaultRef(s.variant)] ELSE x

SpecsEffect(x, s) ==
  IF "specs" \in due
  THEN [x EXCEPT !.owner.specs = SpecsOf(s), !.ui = Bumped(@, {"rev"})] ELSE x

(* Exit lines: the request before is cancelled; without market data or specs  *)
(* all lines are dropped, without exit lines only those.                      *)
BffEffect(x, s) ==
  IF "bff" \notin due THEN x
  ELSE IF s.market # "ready" \/ ~(x.owner.specs.htf \/ x.owner.specs.exit)
  THEN [x EXCEPT !.owner = Cleared(@), !.fetches = {}, !.ui = Bumped(@, {"rev"})]
  ELSE IF x.owner.specs.exit THEN [x EXCEPT !.fetches = {s.variant}]
  ELSE [x EXCEPT !.owner.exit = None, !.fetches = {}, !.ui = Bumped(@, {"rev"})]

(* runPhase63ESyncHtfOverlaysFromTraceFallback: where the display cache has   *)
(* nothing for the window, the dense bundle React has; nothing is dropped     *)
(* while a load runs or after it failed.                                      *)
FallbackEffect(x, s) ==
  IF "fallback" \notin due \/ ~x.owner.specs.htf \/ Touches(x.cache, s.window) THEN x
  ELSE IF s.status = "ready" /\ s.dense # None
  THEN [x EXCEPT !.owner = WithDense(@, s.dense), !.ui = Bumped(@, {"rev"})]
  ELSE IF s.status = "idle"
  THEN [x EXCEPT !.owner.htf = None, !.owner.frozen = None, !.ui = Bumped(@, {"rev"})]
  ELSE x

NoLanes == [status |-> "idle", dense |-> None, window |-> None]
WithLanes(u, l) ==
  [u EXCEPT !.status = l.status, !.dense = l.dense, !.loaded = l.window]

ResetEffect_TraceOnly(x, s) ==
  IF "reset" \notin due THEN x
  ELSE [x EXCEPT !.cache = [key |-> Key(s), bars |-> {}], !.lanes = NoLanes,
                 !.ui = Bumped([@ EXCEPT !.slice = NoSlice], {"version"})]

ResetEffect_CacheStays(x, s) ==
  IF "reset" \notin due THEN x
  ELSE [x EXCEPT !.cache.key = IF x.cache.bars = {} THEN Key(s) ELSE @,
                 !.lanes = NoLanes, !.owner = Cleared(@),
                 !.ui = Bumped([@ EXCEPT !.slice = NoSlice], {"version"})]

ResetEffect(x, s) ==
  IF "reset" \notin due THEN x
  ELSE [x EXCEPT !.cache = [key |-> Key(s), bars |-> {}], !.lanes = NoLanes,
                 !.owner = Cleared(@), !.ui = Bumped([@ EXCEPT !.slice = NoSlice], {"version"})]

(* applyTraceDisplayForCurrentWindow *)
Applied(x, s) ==
  LET slice == SliceFor(x.cache, s.window)
      own == WithSlice(x.owner, slice)
      applies == slice.bars # {} /\ x.owner.specs.htf
  IN  [x EXCEPT !.owner = own,
                !.ui = Bumped([@ EXCEPT !.slice = slice],
                              IF applies THEN {"apply", "rev"} ELSE {"apply"})]

ApplyEffect(x, s) == IF "apply" \in due THEN Applied(x, s) ELSE x

(* From the first bar the cache does not have to the end of the window.       *)
MissingBars(store, window) ==
  {b \in window : \E c \in window \ store.bars : c <= b}

(* The effect that loads the trace: see TraceLoad.                            *)
TraceEffect(x, s) ==
  IF "load" \notin due THEN x
  ELSE IF s.market # "ready"
  THEN [x EXCEPT !.cycle = None, !.lanes = NoLanes, !.ui = WithLanes(@, NoLanes)]
  ELSE IF Covers(x.cache, s.window) /\ x.lanes.window = WindowKey(s)
  THEN Applied([x EXCEPT !.cycle = None, !.ui = WithLanes(@, x.lanes)], s)
  ELSE LET covered == Covers(x.cache, s.window)
       IN  [x EXCEPT !.cycle =
              [key |-> Key(s), window |-> s.window, draws |-> ~covered,
               range |-> IF covered THEN s.window ELSE MissingBars(x.cache, s.window),
               stage |-> IF covered THEN "dense" ELSE "display"]]

RunLineEffects ==
  /\ due # {} /\ due' = {}
  /\ LET s == commit.s
         x0 == [ui |-> page, owner |-> owner, fetches |-> fetches, cache |-> cache,
                lanes |-> lanes, cycle |-> cycle]
         x1 == SpecsEffect(DefaultEffect(InvalidEffect(x0, s), s), s)
         x2 == FallbackEffect(BffEffect(x1, s), s)
         x == TraceEffect(ApplyEffect(ResetEffect(x2, s), s), s)
     IN  /\ page' = x.ui /\ owner' = x.owner /\ fetches' = x.fetches
         /\ cache' = x.cache /\ lanes' = x.lanes /\ cycle' = x.cycle
  /\ UNCHANGED <<commit, slices>>

------------------------------------------------------------------------------
(* Answers: between a commit and its effects or after both; what an effect or  *)
(* an answer queues is rendered before the next one comes.                    *)

Rendered == page = commit.s \/ due # {}

ChunkArrives ==
  /\ Rendered /\ cycle # None /\ cycle.stage = "display"
  /\ cache' = [cache EXCEPT !.bars = @ \cup cycle.range]
  /\ cycle' = [cycle EXCEPT !.stage = "dense"]
  /\ UNCHANGED <<page, commit, due, owner, slices, lanes, fetches>>

(* React is told of the chunk and of the bundle when the cycle ends.          *)
Ended(l, bumps) ==
  LET x == Applied([ui |-> Bumped(WithLanes(page, l), bumps), owner |-> owner,
                    cache |-> cache], commit.s)
  IN  /\ lanes' = l /\ page' = x.ui /\ owner' = x.owner /\ cycle' = None
      /\ UNCHANGED <<commit, due, slices, cache, fetches>>

DenseArrives ==
  /\ Rendered /\ cycle # None /\ cycle.stage = "dense"
  /\ Ended([status |-> "ready", dense |-> [key |-> cycle.key, bars |-> cycle.range],
            window |-> <<cycle.key, cycle.window>>],
           IF cycle.draws THEN {"version"} ELSE {})

TraceFails ==
  /\ Rendered /\ "trace" \in MayFail /\ cycle # None
  /\ Ended([status |-> "error", dense |-> None, window |-> <<cycle.key, cycle.window>>],
           IF cycle.draws /\ cycle.stage = "dense" THEN {"version"} ELSE {})

WithExit(own, line) == [own EXCEPT !.exit = line]

(* loadBffAuxOverlaysRuntime: the other lines stay, whether it comes or fails. *)
ExitLineArrives(v) ==
  /\ Rendered /\ v \in fetches /\ fetches' = fetches \ {v}
  /\ \/ owner' = WithExit(owner, Line(<<v, None>>, <<v, None>>, Bars))
     \/ "bff" \in MayFail /\ owner' = WithExit(owner, None)
  /\ page' = Bumped(page, {"rev"})
  /\ UNCHANGED <<commit, due, slices, cache, lanes, cycle>>

------------------------------------------------------------------------------
(* The user and the market data.  User events come after the effects.         *)

AtRest == page = commit.s /\ due = {}
Set(u) == page' = u /\ UNCHANGED <<commit, due, owner, slices, cache, lanes, cycle, fetches>>

PickContext(r) ==
  /\ AtRest /\ r \in Contexts[page.variant] \cup {None} /\ r # page.ref
  /\ Set([page EXCEPT !.ref = r])
PickVariant(v) == AtRest /\ v # page.variant /\ Set([page EXCEPT !.variant = v])
MoveWindow(w) == AtRest /\ w # page.window /\ Set([page EXCEPT !.window = w])

(* A load cycle of the market may show as loading over candles that stay.     *)
MarketLoads == AtRest /\ page.market = "ready" /\ Set([page EXCEPT !.market = "loading"])
MarketReady == page.market = "loading" /\ Set([page EXCEPT !.market = "ready"])

AuxInit ==
  \E v \in Variants, w \in Windows :
    LET s == [variant |-> v, ref |-> None, window |-> w, market |-> "loading",
              status |-> "idle", dense |-> None, loaded |-> None, slice |-> NoSlice,
              bumps |-> {}]
        none == [htf |-> None, exit |-> None]
    IN  /\ page = s /\ commit = [s |-> s, drawn |-> none]
        /\ due = {"invalid", "default", "specs", "bff", "fallback", "reset", "apply", "load"}
        /\ owner = [specs |-> [key |-> None, htf |-> FALSE, exit |-> FALSE],
                    htf |-> None, exit |-> None, frozen |-> None]
        /\ slices = [given |-> none, kept |-> none, print |-> None]
        /\ cache = [key |-> None, bars |-> {}] /\ lanes = NoLanes
        /\ cycle = None /\ fetches = {}

AuxNext ==
  \/ RenderLines \/ RunLineEffects \/ ChunkArrives \/ DenseArrives \/ TraceFails
  \/ \E v \in Variants : ExitLineArrives(v) \/ PickVariant(v)
  \/ \E v \in Variants : \E r \in Contexts[v] \cup {None} : PickContext(r)
  \/ \E w \in Windows : MoveWindow(w)
  \/ MarketLoads \/ MarketReady
AuxSpec == AuxInit /\ [][AuxNext]_auxVars

------------------------------------------------------------------------------
(* Properties. *)

(* Every line is labelled by some specs and has bars of the report.           *)
AuxTypeOK ==
  /\ page.variant \in Variants /\ commit.s.variant \in Variants
  /\ page.window \in Windows /\ page.market \in {"loading", "ready"}
  /\ page.status \in {"idle", "ready", "error"} /\ cache.bars \subseteq Bars
  /\ fetches \subseteq Variants
  /\ \A line \in {owner.htf, owner.exit, owner.frozen} : line # None => line.bars \subseteq Bars

AuxQuiet == AtRest /\ cycle = None /\ fetches = {} /\ commit.s.market = "ready"

(* What the display cache has for the window of the commit.                   *)
Cached == cache.bars \cap commit.s.window

(* The chart draws the kept slice, which has the fingerprint of what the       *)
(* controller has: as many points, whosever values they are.                   *)
KeptSlice ==
  /\ commit.drawn.htf # None /\ commit.drawn.htf = slices.kept.htf
  /\ Cardinality(commit.drawn.htf.bars) = Cardinality(Cached)

(* No line is left over.  Once a selection has been rendered every line on the *)
(* chart carries the label of the context and the variant selected, and with  *)
(* nothing under way none lies outside the render window, if the display      *)
(* cache has anything for it.  A label says nothing of the points under it:   *)
(* with nothing under way the values are the selected context's as well, but  *)
(* for two cases that the code lets through.  The load of the context failed   *)
(* with nothing in the cache, and what the fallback drew of the dense bundle   *)
(* before it stays; or the kept slice has as many points as the lines that    *)
(* should replace it, so that its fingerprint did not change.                 *)
NoLineIsLeftOver ==
  /\ AuxTypeOK
  /\ AtRest => /\ commit.drawn.htf # None => commit.drawn.htf.label = Key(commit.s)
               /\ commit.drawn.exit # None => commit.drawn.exit.label[1] = commit.s.variant
  /\ AuxQuiet /\ Cached # {} =>
       \A line \in {commit.drawn.htf, commit.drawn.exit} :
         line # None => line.bars \subseteq commit.s.window
  /\ AuxQuiet /\ commit.drawn.htf # None /\ commit.drawn.htf.data # Key(commit.s) =>
       IF Cached = {} THEN commit.s.status = "error" ELSE KeptSlice

(* With nothing under way the controller has the values of the selected        *)
(* context at each bar the display cache has in the window, and nothing else,  *)
(* and the chart draws a line of as many points: these, or a list kept from    *)
(* before a change of context that left the fingerprint what it was.  The      *)
(* answer for exit lines, a reset of the lines while the market loaded, a      *)
(* change of context or a pan back takes none of them away for good.           *)
CachedHtfIsDrawn ==
  AuxQuiet /\ SpecsOf(commit.s).htf /\ Cached # {} =>
    /\ owner.htf = Line(Key(commit.s), Key(commit.s), Cached)
    /\ KeptSlice
==============================================================================
