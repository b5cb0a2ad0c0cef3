------------------------------ MODULE ChartView ------------------------------
(***************************************************************************)
(* What the chart shows while its user pans, selects trades and changes    *)
(* runs: the render window controller (renderWindowController.ts), the     *)
(* viewport controller and its commands (viewportController.ts,            *)
(* viewportRuntime.ts), the effects of WorkbenchRenderViewportContext.tsx  *)
(* that apply a window for the selected trade, and the chart that executes *)
(* the commands (ChartPanel.tsx).                                          *)
(*                                                                         *)
(* A render computes the slice the chart draws; its effects run later, in  *)
(* one step and before the next render.  User events, timers and market    *)
(* data may come before either.                                            *)
(***************************************************************************)
EXTENDS RenderWindow, FiniteSets

CONSTANTS
  LastBar,     \* the report has the bars 1 .. LastBar
  Trades,      \* the entry times a trade may have
  Runs,        \* runs over the same bars of different symbols
  Reach,       \* bars a pan prefetch adds on one side
  Scenes,      \* which kinds of event the environment may produce, and how many
  None

(* What the environment may do. *)
Kinds == {"select", "run", "fail", "overlays", "pointer", "keyboard", "wheel", "move"}

ASSUME ViewAssumption ==
  /\ LastBar \in Nat \ {0} /\ Trades \subseteq 1 .. LastBar /\ Runs # {}
  /\ Reach \in Nat \ {0} /\ Scenes \subseteq [allowed : SUBSET Kinds, left : Nat]
  /\ None \notin Runs \cup Int \cup [type : {"focusTrade"}, time : Int]
                 \cup [run : Runs, window : [from : Int, to : Int]]

VARIABLES
  market,   \* what the workbench context passes down
  rw,       \* the render window controller
  vp,       \* the viewport controller and its command state
  focus,    \* the refs that decide whether a trade is focused
  ref,      \* cachedBundleCandlesRef: the bars windows are computed from
  shown,    \* what the last render drew, and saw
  page,     \* renders and effects that are due
  chart,    \* the visible range of the chart
  events    \* what may still happen, and how often

vars == <<market, rw, vp, focus, ref, shown, page, chart, events>>

NoBars == [from |-> 1, to |-> 0]
Report == [from |-> 1, to |-> LastBar]

(* resolveMarketTargetWindow: a window around the trade, or the last one. *)
FocusWindow(trade) ==
  SliceOf(Report, IF trade = None THEN TailWindow(LastBar)
                  ELSE AroundIndex(IndexOf(Report, trade), LastBar))

Within(a, b) == b.from <= a.from /\ a.to <= b.to

(* resolveMarketBundleRuntime: coverage when it is there, or the focus. *)
Bundle(m) ==
  IF m.status = "error" \/ ~Within(FocusWindow(m.trade), m.cached) THEN NoBars
  ELSE IF Within(m.cover, m.cached) THEN m.cover ELSE FocusWindow(m.trade)

(* resolveRenderWindowFoundationKey: none while anything is loading. *)
Foundation(m) ==
  IF m.status = "ready" /\ Within(FocusWindow(m.trade), m.cached)
  THEN [run |-> m.run, window |-> FocusWindow(m.trade)] ELSE None

-----------------------------------------------------------------------------
(* The render window controller. *)

Panning(r) == IF r.pending = None THEN "user_panning" ELSE "pending_shift"

ScheduleIdle(r) == [r EXCEPT !.timer = r.pending # None]

SettleAfterSwap(r) ==
  [r EXCEPT !.applying = 0,
            !.state = IF r.pointer \/ r.wheel THEN Panning(r) ELSE "idle_user_view"]

AbortApplying(r) == IF r.state = "applying_shift" THEN SettleAfterSwap(r) ELSE r

SettleSwap(r, seq) == IF r.applying = seq THEN SettleAfterSwap(r) ELSE r

(* recordBoundaryIntent *)
RecordIntent(r, visible, anchor) ==
  IF \/ r.programmatic
     \/ r.state \notin {"user_panning", "pending_shift"}
     \/ ~CrossesBoundary(r.win, visible)
  THEN r
  ELSE [r EXCEPT !.pending = [visible |-> visible, anchor |-> anchor],
                 !.state = "pending_shift", !.timer = TRUE]

(* tryCommitPendingShift, without its callback. *)
Committed(r) ==
  LET next == Shifted(r.win, r.pending.visible)
      rest == [r EXCEPT !.pending = None, !.timer = FALSE]
  IN  IF r.pending = None THEN r
      ELSE IF next = r.win
      THEN [rest EXCEPT !.state = IF r.pointer \/ r.wheel THEN "user_panning"
                                  ELSE "idle_user_view"]
      ELSE [rest EXCEPT !.win = next, !.seq = @ + 1, !.applying = r.seq + 1,
                        !.state = "applying_shift"]

Commits(r) == Committed(r).seq # r.seq

-----------------------------------------------------------------------------
(* The viewport controller: its owner and its focus intent go together. *)

PanStarts(v) == [v EXCEPT !.panning = TRUE, !.focused = FALSE]
PanEnds(v) == [v EXCEPT !.panning = FALSE]
WheelPan(v) == [v EXCEPT !.panning = FALSE, !.focused = FALSE]
TradeSelected(v) == IF v.panning THEN v ELSE [v EXCEPT !.focused = TRUE]

(* cancelViewportCommandsOnPointerDown, and setChartViewportCommand(null). *)
CommandsCancelled(v) == [v EXCEPT !.cancelled = v.txn, !.command = None]

(* What applyWindowCommit leaves when the bundle its closure knows is      *)
(* empty: a controller in applying_shift, and no command.                  *)
RestoreEmitted(v, before, after) ==
  IF page.bundle = NoBars THEN v
  ELSE [v EXCEPT !.txn = @ + 1,
                 !.command = [type |-> "restoreAfterWindowSwap", seq |-> after.seq,
                              txn |-> v.txn + 1, anchor |-> before.pending.anchor,
                              visible |-> before.pending.visible]]

(* emitTradeFocusCommand *)
FocusEmitted(v, time) ==
  [TradeSelected(v) EXCEPT !.command = [type |-> "focusTrade", time |-> time]]

-----------------------------------------------------------------------------
(* The market side, as far as the view can tell. *)

(* evaluateMarketPanPrefetchExpansion: bars shown within the safe zone of  *)
(* an end of the coverage widen it there, unless they are that near to an  *)
(* end of the report too.                                                  *)
Prefetched(m, bars) ==
  LET left == bars.from - m.cover.from <= SafeZone
      right == m.cover.to - bars.to <= SafeZone
      clamped == (left /\ m.cover.from = 1) \/ (right /\ m.cover.to = LastBar)
      wider == [from |-> IF left THEN Most(1, m.cover.from - Reach) ELSE m.cover.from,
                to |-> IF right THEN Least(LastBar, m.cover.to + Reach) ELSE m.cover.to]
  IN  IF clamped \/ wider = m.cover THEN m
      ELSE [m EXCEPT !.cover = wider, !.status = "loading"]

Dirty == [page EXCEPT !.dirty = TRUE]
Fresh == [page EXCEPT !.dirty = TRUE, !.fresh = TRUE]

Event(kind) ==
  kind \in events.allowed /\ events.left > 0 /\ events' = [events EXCEPT !.left = @ - 1]

SameFocus(m, n) == m.run = n.run /\ FocusWindow(m.trade) = FocusWindow(n.trade)

(* resolvePhase63FMarketTargetWindows: another focus drops the coverage.   *)
Retargeted(m, run, trade) ==
  LET next == [m EXCEPT !.run = run, !.trade = trade,
                        !.cached = IF run = m.run THEN @ ELSE NoBars]
  IN  IF SameFocus(m, next) THEN next
      ELSE [next EXCEPT !.cover = FocusWindow(trade), !.status = "loading"]

SelectTrade ==
  /\ Event("select")
  /\ \E trade \in Trades \cup {None} :
       /\ trade # market.trade
       /\ market' = Retargeted(market, market.run, trade)
  /\ page' = Fresh
  /\ UNCHANGED <<rw, vp, focus, ref, shown, chart>>

SwitchRun ==
  /\ Event("run")
  /\ \E run \in Runs \ {market.run} : market' = Retargeted(market, run, None)
  /\ page' = Fresh
  /\ UNCHANGED <<rw, vp, focus, ref, shown, chart>>

(* The hole of a load cycle comes in, joined to what is cached if they     *)
(* touch.                                                                  *)
MarketArrives ==
  /\ market.status = "loading"
  /\ market' = [market EXCEPT !.status = "ready",
       !.cached = IF market.cached = NoBars \/ market.cover.from > @.to + 1
                       \/ market.cover.to < @.from - 1
                  THEN market.cover
                  ELSE [from |-> Least(@.from, market.cover.from),
                        to |-> Most(@.to, market.cover.to)]]
  /\ page' = Fresh
  /\ UNCHANGED <<rw, vp, focus, ref, shown, chart, events>>

MarketFails ==
  /\ Event("fail") /\ market.status = "loading"
  /\ market' = [market EXCEPT !.status = "error"]
  /\ page' = Fresh
  /\ UNCHANGED <<rw, vp, focus, ref, shown, chart>>

(* Overlays of the window arrive: a new slice with the same bars. *)
OverlaysArrive ==
  /\ Event("overlays")
  /\ page' = Fresh
  /\ UNCHANGED <<market, rw, vp, focus, ref, shown, chart>>

-----------------------------------------------------------------------------
(* User events and timers: dispatchChartInteraction. *)

(* A commit, with what applyWindowCommit does of it: a restore command and *)
(* a prefetch around the new slice.                                        *)
Commit(r) ==
  LET after == Committed(r)
  IN  /\ rw' = IF Commits(r) /\ page.bundle # NoBars
               THEN [after EXCEPT !.shift = after.seq] ELSE after
      /\ market' = IF Commits(r) /\ page.bundle # NoBars
                   THEN Prefetched(market, SliceOf(page.bundle, after.win)) ELSE market
      /\ page' = IF ~Commits(r) THEN page
                 ELSE IF page.bundle = NoBars THEN page ELSE Fresh

PointerDown ==
  /\ Event("pointer") /\ ~rw.pointer
  /\ rw' = [AbortApplying(rw) EXCEPT !.pointer = TRUE, !.state = "user_panning"]
  /\ vp' = PanStarts(CommandsCancelled(vp))
  /\ focus' = [focus EXCEPT !.suppressed = TRUE]
  /\ page' = Dirty
  /\ UNCHANGED <<market, ref, shown, chart>>

KeyboardPan ==
  /\ Event("keyboard")
  /\ rw' = ScheduleIdle([AbortApplying(rw) EXCEPT !.state = Panning(rw)])
  /\ vp' = PanStarts(CommandsCancelled(vp))
  /\ focus' = [focus EXCEPT !.suppressed = TRUE]
  /\ page' = Dirty
  /\ UNCHANGED <<market, ref, shown, chart>>

(* pointerup commits what is pending. *)
PointerUp ==
  /\ rw.pointer
  /\ LET up == [rw EXCEPT !.pointer = FALSE, !.timer = FALSE,
                          !.state = IF rw.pending = None /\ ~rw.wheel
                                         /\ rw.state # "applying_shift"
                                    THEN "idle_user_view" ELSE @]
     IN  /\ Commit(up)
         /\ vp' = PanEnds(IF Commits(up) THEN RestoreEmitted(vp, up, Committed(up)) ELSE vp)
  /\ UNCHANGED <<focus, ref, shown, chart, events>>

Wheel ==
  /\ Event("wheel")
  /\ rw' = ScheduleIdle([rw EXCEPT !.wheel = TRUE, !.state = Panning(rw)])
  /\ vp' = WheelPan(vp)
  /\ UNCHANGED <<market, focus, ref, shown, page, chart>>

(* The 50 ms timer of a wheel event. *)
WheelEnds ==
  /\ rw.wheel
  /\ rw' = IF rw.pointer THEN [rw EXCEPT !.wheel = FALSE]
           ELSE IF rw.pending = None
           THEN [rw EXCEPT !.wheel = FALSE, !.state = "idle_user_view"]
           ELSE ScheduleIdle([rw EXCEPT !.wheel = FALSE])
  /\ UNCHANGED <<market, vp, focus, ref, shown, page, chart, events>>

(* Defective: the idle timer commits under a drag. *)
IdleTimer_Hasty ==
  /\ rw.timer
  /\ LET idle == [rw EXCEPT !.timer = FALSE]
     IN  Commit(idle) /\ vp' = IF Commits(idle) THEN RestoreEmitted(vp, idle, Committed(idle))
                                ELSE vp
  /\ UNCHANGED <<focus, ref, shown, chart, events>>

(* The idle timer: RENDER_WINDOW_IDLE_DEBOUNCE_MS after the last intent. *)
IdleTimer ==
  /\ rw.timer
  /\ LET idle == [rw EXCEPT !.timer = FALSE]
     IN  IF rw.pointer
         THEN rw' = idle /\ UNCHANGED <<market, vp, page>>
         ELSE /\ Commit(idle)
              /\ vp' = IF Commits(idle) THEN RestoreEmitted(vp, idle, Committed(idle))
                       ELSE vp
  /\ UNCHANGED <<focus, ref, shown, chart, events>>

(* The user moves the chart by a bar.  The event is dropped while a        *)
(* command has just been executed; otherwise it may record an intent, and  *)
(* asks for a prefetch when a user session is on.                          *)
Move ==
  /\ Event("move") /\ (rw.pointer \/ rw.wheel \/ vp.panning)
  /\ shown.bars # NoBars
  /\ \E step \in {-1, 1} :
       LET visible == [from |-> chart.visible.from + step, to |-> chart.visible.to + step]
           moved == RecordIntent(rw, visible, AnchorOf(shown.bars, visible))
           seen == [from |-> shown.bars.from + Between(visible.from, 0, Length(shown.bars) - 1),
                    to |-> shown.bars.from + Between(visible.to, 0, Length(shown.bars) - 1)]
       IN  /\ visible.from >= 0 /\ visible.to <= Length(shown.bars)
           /\ chart' = [chart EXCEPT !.visible = visible]
           /\ IF chart.applying THEN UNCHANGED <<rw, market, page>>
              ELSE /\ rw' = moved
                   /\ market' = IF moved.state \in {"user_panning", "pending_shift",
                                                    "applying_shift"}
                                THEN Prefetched(market, seen) ELSE market
                   /\ page' = IF market' = market THEN page ELSE Fresh
  /\ UNCHANGED <<vp, focus, ref, shown>>

(* 300 ms after a command was executed. *)
ApplyingEnds ==
  /\ chart.applying
  /\ chart' = [chart EXCEPT !.applying = FALSE]
  /\ rw' = [rw EXCEPT !.programmatic = FALSE]
  /\ UNCHANGED <<market, vp, focus, ref, shown, page, events>>

-----------------------------------------------------------------------------
(* Renders. *)

(* The library keeps the range it shows when its data change, if the data  *)
(* still reach that far, and starts at the last bars.                      *)
RangeKept(bars, visible) ==
  LET width == Least(FocusBars, Length(bars))
  IN  IF visible.to \in 1 .. Length(bars) THEN visible
      ELSE [from |-> Length(bars) - width, to |-> Length(bars)]

(* resolveChartWindowRuntime: the slice of the bundle, or, when its bounds *)
(* are those of the last slice, that slice again (stabilizeByWindowBounds- *)
(* Key).                                                                   *)
Drawn(bundle, win) ==
  LET bars == IF win.end > win.start THEN SliceOf(bundle, win) ELSE NoBars
  IN  IF bundle = NoBars THEN [shown EXCEPT !.bars = NoBars, !.run = None]
      ELSE IF bars # NoBars /\ bars = shown.kept
      THEN [shown EXCEPT !.bars = bars, !.run = shown.keptRun]
      ELSE [shown EXCEPT !.bars = bars, !.run = market.run,
                         !.kept = bars, !.keptRun = market.run]

Render ==
  /\ page.dirty /\ ~page.effects
  /\ \E bundle \in {Bundle(market)} :
     \E win \in {IF page.fresh /\ bundle # NoBars THEN WithFull(rw.win, Length(bundle))
                ELSE rw.win} :
     \E drawn \in {IF page.fresh THEN Drawn(bundle, win) ELSE shown} :
       /\ rw' = [rw EXCEPT !.win = win]
       /\ shown' = [drawn EXCEPT !.bundle = bundle, !.market = market,
                                 !.command = vp.command, !.shift = rw.shift,
                                 !.fresh = page.fresh]
       /\ chart' = IF drawn.bars = shown.bars \/ drawn.bars = NoBars THEN chart
                   ELSE [chart EXCEPT !.visible = RangeKept(drawn.bars, chart.visible)]
  /\ page' = [page EXCEPT !.dirty = FALSE, !.fresh = FALSE, !.effects = TRUE,
                          !.prev = IF SameFocus(market, shown.market) THEN @ ELSE None]
  /\ UNCHANGED <<market, vp, focus, ref, events>>

-----------------------------------------------------------------------------
(* The effects of a render, in their order.  Each takes and returns a      *)
(* record of what effects may change.                                      *)

(* ChartPanel: the command that was rendered is executed once.             *)
Executes ==
  /\ shown.command # None /\ shown.bars # NoBars
  /\ shown.command.type = "restoreAfterWindowSwap" =>
       shown.command.txn > vp.cancelled /\ shown.command.seq = shown.shift

ExecuteCommand(s) ==
  LET done == [s EXCEPT !.vp.command = None]
      plan == IF shown.command.type = "focusTrade"
              THEN FocusPlan(shown.bars, shown.command.time)
              ELSE RestorePlan(shown.bars, shown.command.anchor, shown.command.visible)
      applied == [done EXCEPT !.chart = [visible |-> plan, applying |-> TRUE],
                              !.rw.programmatic = TRUE]
  IN  IF shown.command = None \/ shown.bars = NoBars THEN s
      ELSE IF ~Executes THEN done
      ELSE IF shown.command.type = "focusTrade" THEN applied
      ELSE [applied EXCEPT !.rw = SettleSwap(@, shown.command.seq)]

(* offsetRenderWindowForBundlePrepend *)
OffsetForPrepend(s) ==
  LET bars == shown.bundle
      win == IF s.prev = None \/ bars.from >= s.prev THEN s.rw.win
             ELSE Offset(s.rw.win, IndexOf(bars, s.prev))
  IN  IF bars = NoBars THEN s
      ELSE [s EXCEPT !.rw.win = win, !.bump = @ \/ win # s.rw.win, !.prev = bars.from]

(* initializeRenderWindowRuntime, from its effect. *)
InitWindow(s) ==
  LET m == shown.market
      bars == FocusWindow(m.trade)
      win == IF m.trade = None THEN TailWindow(Length(bars))
             ELSE AroundIndex(IndexOf(bars, m.trade), Length(bars))
  IN  IF m.status = "error"
      THEN [s EXCEPT !.rw = [@ EXCEPT !.win = HeadWindow(0), !.timer = FALSE,
                                      !.foundation = None],
                     !.bump = TRUE]
      ELSE IF Foundation(m) = None \/ m = shown.last THEN s
      ELSE IF s.rw.foundation = Foundation(m) THEN [s EXCEPT !.ref = bars]
      ELSE [s EXCEPT !.ref = bars, !.bump = TRUE,
                     !.rw = [@ EXCEPT !.win = win, !.foundation = Foundation(m)]]

(* applyRenderWindowForTradeRuntime *)
WindowForTrade(s, trade, force) ==
  LET index == IndexOf(s.ref, trade)
  IN  IF s.ref = NoBars THEN s.rw.win
      ELSE IF trade = None THEN TailWindow(s.rw.win.full)
      ELSE IF force \/ RebuildFor(s.rw.win, index) THEN AroundIndex(index, s.rw.win.full)
      ELSE s.rw.win

Rebuilt(s, win) == [s EXCEPT !.rw.win = win, !.bump = TRUE]

(* evaluateTradeFocusReadiness *)
TradeReady ==
  /\ shown.market.trade # None /\ Foundation(shown.market) # None
  /\ Holds(shown.bars, shown.market.trade)

Focused(s) == [s EXCEPT !.vp = FocusEmitted(@, shown.market.trade)]

(* The effect that keeps the window around the selected trade. *)
ApplyForTrade(s) ==
  LET win == WindowForTrade(s, shown.market.trade, FALSE)
  IN  IF Foundation(shown.market) = None THEN s
      ELSE IF win # s.rw.win THEN Rebuilt(s, win)
      ELSE IF TradeReady THEN Focused(s) ELSE s

(* The effect that notices another trade, then tryEmitTradeFocusWhenReady. *)
Requested(s) ==
  LET trade == shown.market.trade
      fresh == [s EXCEPT !.focus = [key |-> trade, suppressed |-> FALSE, last |-> None,
                                    pending |-> trade # None],
                         !.vp.command = IF trade = None THEN @ ELSE None]
  IN  IF trade = s.focus.key THEN s ELSE fresh

EmitWhenReady(s) ==
  LET trade == shown.market.trade
      emit == [trade |-> trade, foundation |-> Foundation(shown.market)]
      outside == /\ Foundation(shown.market) # None /\ shown.bars # NoBars
                 /\ ~Holds(shown.bars, trade)
      win == WindowForTrade(s, trade, TRUE)
  IN  IF trade = None \/ shown.market.status = "error" THEN s
      ELSE IF outside /\ win # s.rw.win THEN Rebuilt(s, win)
      ELSE IF TradeReady /\ ~s.focus.suppressed /\ (s.focus.pending \/ s.focus.last # emit)
      THEN [Focused(s) EXCEPT !.focus.last = emit, !.focus.pending = FALSE]
      ELSE s

(* WorkbenchContext, whose effects come after its children's. *)
RememberBars(s) ==
  IF Foundation(shown.market) # None /\ Within(shown.market.cover, shown.market.cached)
  THEN [s EXCEPT !.ref = shown.market.cover] ELSE s

AfterEffects(s) ==
  /\ rw' = s.rw /\ vp' = s.vp /\ chart' = s.chart /\ focus' = s.focus /\ ref' = s.ref
  /\ page' = [dirty |-> page.dirty \/ s.bump \/ s.vp.command # vp.command,
              fresh |-> page.fresh \/ s.bump, effects |-> FALSE,
              bundle |-> shown.bundle, prev |-> s.prev]

Effects ==
  /\ page.effects
  /\ \E ran \in {ExecuteCommand([rw |-> rw, vp |-> vp, chart |-> chart, focus |-> focus,
                                 ref |-> ref, prev |-> page.prev, bump |-> FALSE])} :
       IF ~shown.fresh THEN AfterEffects(ran)
       ELSE \E offset \in {OffsetForPrepend(ran)} :
            \E started \in {InitWindow(offset)} :
            \E placed \in {ApplyForTrade(started)} :
            \E asked \in {Requested(placed)} :
            \E done \in {EmitWhenReady(asked)} : AfterEffects(RememberBars(done))
  /\ shown' = [shown EXCEPT !.last = shown.market]
  /\ UNCHANGED <<market, events>>

-----------------------------------------------------------------------------
NewMarket(run) ==
  [run |-> run, trade |-> None, cached |-> NoBars, cover |-> FocusWindow(None),
   status |-> "loading"]

Init ==
  /\ \E run \in Runs : market = NewMarket(run)
  /\ rw = [win |-> HeadWindow(0), state |-> "idle_user_view", pending |-> None, seq |-> 0,
           applying |-> 0, shift |-> 0, pointer |-> FALSE, wheel |-> FALSE,
           programmatic |-> FALSE, timer |-> FALSE, foundation |-> None]
  /\ vp = [panning |-> FALSE, focused |-> FALSE, txn |-> 0, cancelled |-> 0, command |-> None]
  /\ focus = [key |-> None, suppressed |-> FALSE, last |-> None, pending |-> FALSE]
  /\ ref = NoBars
  /\ shown = [bars |-> NoBars, run |-> None, kept |-> NoBars, keptRun |-> None,
              bundle |-> NoBars, market |-> market, last |-> market, command |-> None,
              shift |-> 0, fresh |-> FALSE]
  /\ page = [dirty |-> TRUE, fresh |-> TRUE, effects |-> FALSE, bundle |-> NoBars, prev |-> None]
  /\ chart = [visible |-> [from |-> 0, to |-> 0], applying |-> FALSE]
  /\ events \in Scenes

(* What happens without the user. *)
Machine == \/ MarketArrives \/ Render \/ Effects \/ WheelEnds \/ IdleTimer \/ ApplyingEnds

User == \/ SelectTrade \/ SwitchRun \/ MarketFails \/ OverlaysArrive
        \/ PointerDown \/ PointerUp \/ KeyboardPan \/ Wheel \/ Move

Next == Machine \/ User

Spec == Init /\ [][Next]_vars

(* Nothing is due. *)
Quiet ==
  /\ ~page.dirty /\ ~page.effects /\ ~rw.pointer /\ ~rw.wheel /\ ~rw.timer
  /\ ~chart.applying /\ market.status # "loading"

(* The bars the user sees. *)
Seen == [from |-> shown.bars.from + chart.visible.from,
         to |-> shown.bars.from + chart.visible.to - 1]

-----------------------------------------------------------------------------
(* Properties. *)

States == {"idle_user_view", "user_panning", "pending_shift", "applying_shift"}

(* The shape of the state. *)
TypeOK ==
  /\ rw.state \in States /\ rw.seq \in Nat /\ rw.applying \in 0 .. rw.seq
  /\ rw.win.full \in 0 .. LastBar /\ rw.win.start \in 0 .. rw.win.full
  /\ rw.win.end \in rw.win.start .. rw.win.full
  /\ vp.txn \in 0 .. rw.seq /\ vp.cancelled \in 0 .. vp.txn
  /\ market.status \in {"loading", "ready", "error"}

(* The drawn bars are bars of the bundle, never more than a window of them, *)
(* and once everything has come to rest as many as there can be.           *)
DrawnFromBundle ==
  /\ TypeOK
  /\ shown.bars # NoBars =>
       Within(shown.bars, shown.bundle) /\ Length(shown.bars) <= WindowSize
  /\ Quiet /\ market.status = "ready" =>
       Length(shown.bars) = SizeOf(Length(shown.bundle))

(* The user's shift is never committed under a drag (workbench-chart-      *)
(* sliding-window/spec.md), also when it was decided before the pointer    *)
(* went down: the controller counts its commits.  The window may change    *)
(* under a pointer that is held, when a trade is selected or the report's  *)
(* first window is made: those are not shifts of the user's.               *)
NoSwapWhileDragging == [][rw.pointer /\ rw'.pointer => rw'.seq = rw.seq]_vars

(* A trade that is selected while nobody moves the chart is in view when all *)
(* is done: its bars were loaded, its window built, its focus executed.    *)
LeftAlone == events.allowed \cap {"pointer", "wheel", "keyboard", "move"} = {}
TradeInView ==
  LeftAlone /\ Quiet /\ market.status = "ready" /\ market.trade # None
  => Holds(Seen, market.trade)
=============================================================================
