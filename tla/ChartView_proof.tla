--------------------------- MODULE ChartView_proof ---------------------------
(***************************************************************************)
(* What the window arithmetic of the chart guarantees for every size of    *)
(* window, safe zone and bundle (the first part), and what the chart shows *)
(* for every report, set of trades and runs, and any order of user events, *)
(* timers, market data, renders and effects (the second); and that what it *)
(* paints of the trades agrees with the table and the number field, for    *)
(* every set of variants and any order of the same (the third).            *)
(***************************************************************************)
EXTENDS ChartView, TradeReview, TLAPS, WellFoundedInduction

(* A window of a bundle of full bars: inside it, and as wide as it can be. *)
IsWindow(win, full) ==
  /\ win = [full |-> full, start |-> win.start, end |-> win.end]
  /\ win.start \in Nat /\ win.end \in Nat
  /\ win.end <= full
  /\ win.end - win.start = SizeOf(full)

(* A range of the bars 0 .. count that a chart can show. *)
IsRange(range, count) ==
  /\ range.from \in Nat /\ range.to \in Nat
  /\ range.from <= range.to /\ range.to <= count

LEMMA SizeOfBounds ==
  ASSUME NEW full \in Nat
  PROVE  SizeOf(full) \in 0 .. full /\ SizeOf(full) <= WindowSize
         /\ (full > 0 => SizeOf(full) > 0)
  BY SizesAssumption DEF SizesAssumption, SizeOf, Least

LEMMA ClampedStartBounds ==
  ASSUME NEW full \in Nat, NEW start \in Int
  PROVE  /\ ClampedStart(start, full) \in 0 .. full - SizeOf(full)
         /\ start \in 0 .. full - SizeOf(full) => ClampedStart(start, full) = start
  BY SizeOfBounds DEF ClampedStart, Between, Most, Least

LEMMA WindowAtIsWindow ==
  ASSUME NEW full \in Nat, NEW start \in 0 .. full - SizeOf(full)
  PROVE  IsWindow(WindowAt(start, full), full)
  BY SizeOfBounds DEF WindowAt, IsWindow

(* However the render window is made for a bundle, it lies in it and is as *)
(* wide as it can be: at its ends, around the entry of a trade, after a    *)
(* shift to the visible range and after bars came in before the first.     *)
THEOREM WindowsLieInTheBundle ==
  ASSUME NEW full \in Nat, NEW win, IsWindow(win, full),
         NEW index \in Int, NEW delta \in Int,
         NEW visible, visible.from \in Int, visible.to \in Int
  PROVE  /\ IsWindow(HeadWindow(full), full) /\ IsWindow(TailWindow(full), full)
         /\ IsWindow(AroundIndex(index, full), full)
         /\ IsWindow(Offset(win, delta), full)
         /\ IsWindow(Shifted(win, visible), full)
  <1> USE SizeOfBounds
  <1>f. win.full = full
    BY DEF IsWindow
  <1>1. \A start \in Int : IsWindow(WindowAt(ClampedStart(start, full), full), full)
    BY ClampedStartBounds, WindowAtIsWindow
  <1>2. IsWindow(HeadWindow(full), full) /\ IsWindow(TailWindow(full), full)
    BY WindowAtIsWindow DEF HeadWindow, TailWindow
  <1>3. IsWindow(AroundIndex(index, full), full)
    <2> DEFINE start == Between(index, 0, full - 1) - SizeOf(full) \div 2
    <2>1. start \in Int
      BY DEF Between, Most, Least
    <2>2. IsWindow(WindowAt(ClampedStart(start, full), full), full)
      BY <2>1, <1>1
    <2> QED  BY <2>2, <1>2 DEF AroundIndex
  <1>4. IsWindow(Offset(win, delta), full)
    <2>1. win.start + delta \in Int
      BY DEF IsWindow
    <2> QED  BY <2>1, <1>1, <1>f DEF Offset
  <1>5. IsWindow(Shifted(win, visible), full)
    <2> DEFINE start == (2 * win.start + visible.from + visible.to - SizeOf(full)) \div 2
    <2>1. start \in Int
      BY DEF IsWindow
    <2>2. IsWindow(WindowAt(ClampedStart(start, full), full), full)
      BY <2>1, <1>1
    <2> QED  BY <2>2, <1>f DEF Shifted, Recentred
  <1> QED  BY <1>2, <1>3, <1>4, <1>5

(* A bundle that became shorter or longer leaves a window inside it, and   *)
(* one that is full if it became shorter than the window's end.            *)
THEOREM ShrunkBundleKeepsAWindow ==
  ASSUME NEW before \in Nat, NEW full \in Nat, NEW win, IsWindow(win, before)
  PROVE  /\ WithFull(win, full).end <= full /\ WithFull(win, full).start \in Nat
         /\ WithFull(win, full).full = full
         /\ win.end > full => IsWindow(WithFull(win, full), full)
  <1>1. CASE win.end > full
    <2>1. ClampedStart(win.start, full) \in 0 .. full - SizeOf(full)
      BY ClampedStartBounds DEF IsWindow
    <2>2. IsWindow(WithFull(win, full), full)
      BY <1>1, <2>1, WindowAtIsWindow DEF WithFull
    <2> QED  BY <2>2 DEF IsWindow
  <1>2. CASE ~(win.end > full)
    <2>1. win.end \in Nat /\ win.start \in Nat /\ win.end <= full
      BY <1>2 DEF IsWindow
    <2>2. /\ [win EXCEPT !.full = full].end = win.end
          /\ [win EXCEPT !.full = full].start = win.start
          /\ [win EXCEPT !.full = full].full = full
      BY DEF IsWindow
    <2> QED  BY <1>2, <2>1, <2>2 DEF WithFull
  <1> QED  BY <1>1, <1>2

(* A window around a trade holds the trade's entry, at any index of the    *)
(* bundle: a trade that is selected can be drawn.                          *)
THEOREM AroundHoldsTheTrade ==
  ASSUME NEW full \in Nat, NEW index \in 0 .. full - 1
  PROVE  index \in AroundIndex(index, full).start .. AroundIndex(index, full).end - 1
  <1> DEFINE size == SizeOf(full)
             start == ClampedStart(index - size \div 2, full)
  <1>1. size \in 1 .. full
    BY SizeOfBounds
  <1>2. AroundIndex(index, full) = [full |-> full, start |-> start, end |-> start + size]
    BY DEF AroundIndex, WindowAt, Between, Most, Least
  <1>3. start <= index /\ index < start + size /\ start \in Int
    BY <1>1 DEF ClampedStart, Between, Most, Least
  <1> HIDE DEF size, start
  <1> QED  BY <1>1, <1>2, <1>3

(* A shift never loses the bar in the middle of the screen, which is the   *)
(* bar the viewport is restored around: it is in the new window too.       *)
THEOREM ShiftKeepsTheMiddle ==
  ASSUME NEW full \in Nat, NEW win, IsWindow(win, full),
         NEW visible, IsRange(visible, win.end - win.start), visible.from < visible.to
  PROVE  win.start + (visible.from + visible.to) \div 2
           \in Shifted(win, visible).start .. Shifted(win, visible).end
  <1> DEFINE size == SizeOf(full)
             sum == visible.from + visible.to
             start == ClampedStart((2 * win.start + sum - size) \div 2, full)
  <1>1. /\ size \in 0 .. full /\ win.start \in Nat /\ win.end = win.start + size
        /\ win.end <= full /\ win.full = full
    BY SizeOfBounds DEF IsWindow
  <1>2. sum \in Nat /\ sum <= 2 * size
    BY <1>1 DEF IsRange
  <1>3. Shifted(win, visible) \in {win, [full |-> full, start |-> start, end |-> start + size]}
    BY <1>1 DEF Shifted, Recentred, WindowAt, IsRange
  <1> HIDE DEF size, sum
  <1>4. /\ start \in Int /\ start <= win.start + sum \div 2
        /\ win.start + sum \div 2 <= start + size
    BY <1>1, <1>2 DEF ClampedStart, Between, Most, Least, size
  <1>5. win.start + sum \div 2 \in win.start .. win.end
    BY <1>1, <1>2
  <1> HIDE DEF start
  <1>6. CASE Shifted(win, visible) = win
    BY <1>5, <1>6 DEF sum
  <1>7. CASE Shifted(win, visible) = [full |-> full, start |-> start, end |-> start + size]
    BY <1>1, <1>2, <1>4, <1>7 DEF sum
  <1> QED  BY <1>3, <1>6, <1>7

(* A restored or focused range lies on the bars that are drawn and is as   *)
(* wide as was asked for, or shows them all.                               *)
THEOREM CentredLiesOnTheBars ==
  ASSUME NEW count \in Nat, NEW index \in Int, NEW bars \in Nat
  PROVE  /\ IsRange(Centred(count, index, bars), count)
         /\ Centred(count, index, bars).to - Centred(count, index, bars).from = Least(bars, count)
  BY DEF Centred, IsRange, Between, Most, Least

------------------------------------------------------------------------------
(* What the chart shows.                                                   *)

(* The bars of a full window of the report. *)
Full == SizeOf(LastBar)

IntRange == [from : Int, to : Int]
Statuses == {"loading", "ready", "error"}
Markets ==
  [run : Runs, trade : Trades \cup {None}, cached : IntRange, cover : IntRange,
   status : Statuses]
Windows == [full : 0 .. LastBar, start : Nat, end : Nat]
Foundations == [run : Runs, window : IntRange] \cup {None}
Controllers ==
  [win : Windows, state : States, pending : [visible : IntRange, anchor : Int] \cup {None},
   seq : Nat, applying : Nat, shift : Nat, pointer : BOOLEAN, wheel : BOOLEAN,
   programmatic : BOOLEAN, timer : BOOLEAN, foundation : Foundations]
FocusCommands == [type : {"focusTrade"}, time : Int]
RestoreCommands ==
  [type : {"restoreAfterWindowSwap"}, seq : Nat, txn : Nat, anchor : Int,
   visible : IntRange]
Commands == FocusCommands \cup RestoreCommands \cup {None}
Viewports ==
  [panning : BOOLEAN, focused : BOOLEAN, txn : Nat, cancelled : Nat, command : Commands]
Focuses ==
  [key : Trades \cup {None}, suppressed : BOOLEAN, pending : BOOLEAN,
   last : [trade : Trades, foundation : Foundations] \cup {None}]
Charts == [visible : IntRange, applying : BOOLEAN]
Pages ==
  [dirty : BOOLEAN, fresh : BOOLEAN, effects : BOOLEAN, bundle : IntRange,
   prev : Int \cup {None}]
Views ==
  [bars : IntRange, run : Runs \cup {None}, kept : IntRange, keptRun : Runs \cup {None},
   bundle : IntRange, market : Markets, last : Markets, command : Commands, shift : Nat,
   fresh : BOOLEAN]

InReport(bars) == 1 <= bars.from /\ bars.to <= LastBar

(* The coverage holds the focus, and so does the cache once it is ready. *)
MarketOk(m) ==
  /\ m \in Markets /\ InReport(m.cover) /\ InReport(m.cached)
  /\ Within(FocusWindow(m.trade), m.cover)
  /\ m.status = "ready" => Within(FocusWindow(m.trade), m.cached)

WindowOk(win) ==
  /\ win \in Windows
  /\ win.start <= win.end /\ win.end <= win.full /\ win.end - win.start <= WindowSize

Wide(win) == win.full >= Full /\ win.end - win.start = Full

(* A controller that knows its foundation has a window as wide as can be:  *)
(* no bundle is narrower than the focus that the window was made for.      *)
ControllerOk(r) ==
  /\ r \in Controllers /\ r.applying <= r.seq
  /\ WindowOk(r.win) /\ (r.foundation # None => Wide(r.win))

ViewportOk(v, seq) == v \in Viewports /\ v.txn <= seq /\ v.cancelled <= v.txn

(* What was drawn is of the bundle it was drawn from. *)
ShownOk(s) ==
  /\ s \in Views /\ MarketOk(s.market) /\ MarketOk(s.last)
  /\ s.bundle = NoBars \/ (InReport(s.bundle) /\ Length(s.bundle) >= Full)
  /\ s.bars # NoBars => Within(s.bars, s.bundle) /\ Length(s.bars) <= WindowSize

Typed ==
  /\ MarketOk(market) /\ ControllerOk(rw) /\ ViewportOk(vp, rw.seq) /\ ShownOk(shown)
  /\ focus \in Focuses /\ ref \in IntRange /\ chart \in Charts /\ page \in Pages
  /\ events \in [allowed : SUBSET Kinds, left : Nat]

(* What is not due to be drawn anew is drawn of what there is; effects that *)
(* are not due have run for what is drawn.                                 *)
DrawnIsCurrent ==
  /\ page.fresh => page.dirty
  /\ ~page.fresh => shown.market = market /\ shown.bundle = Bundle(market)
  /\ ~page.effects \/ ~shown.fresh => shown.last = shown.market

(* A foundation that the effects have seen is the controller's, and what    *)
(* was drawn with one is as wide as can be.                                *)
FoundedIsFull ==
  /\ Foundation(shown.last) # None => rw.foundation # None
  /\ ~page.fresh /\ rw.foundation # None /\ shown.bundle # NoBars
       => Length(shown.bars) = Full

ViewInv == Typed /\ DrawnIsCurrent /\ FoundedIsFull

(* While nobody moves the chart the coverage is the focus, no timer runs,   *)
(* and nothing withdraws a command that was rendered.                      *)
Undisturbed ==
  /\ market.cover = FocusWindow(market.trade)
  /\ ~rw.pointer /\ ~rw.wheel /\ ~rw.timer
  /\ page.effects => shown.command = vp.command

FocusOn(trade) == [type |-> "focusTrade", time |-> trade]

(* A selected trade is in view, or its command is on the way, or effects    *)
(* that are due will send it.                                              *)
FocusOnTheWay ==
  market.status = "ready" /\ market.trade # None /\ ~page.fresh
  => \/ page.effects /\ shown.fresh
     \/ vp.command = FocusOn(market.trade) /\ (page.dirty \/ page.effects)
     \/ vp.command \in {None, FocusOn(market.trade)} /\ Holds(Seen, market.trade)

AloneInv == LeftAlone => Undisturbed /\ FocusOnTheWay

------------------------------------------------------------------------------
(* Windows of bundles that may be wider than the focus. *)

(* A bundle that holds a full window has windows of the same width. *)
LEMMA FullBounds ==
  /\ Full \in 1 .. LastBar /\ Full <= WindowSize
  /\ \A full \in Full .. LastBar : SizeOf(full) = Full
  BY SizesAssumption, ViewAssumption
  DEF SizesAssumption, ViewAssumption, Full, SizeOf, Least

LEMMA IsWindowFits ==
  ASSUME NEW full \in 0 .. LastBar, NEW win, IsWindow(win, full)
  PROVE  WindowOk(win) /\ (full >= Full => Wide(win))
  <1>1. /\ win = [full |-> full, start |-> win.start, end |-> win.end]
        /\ win.start \in Nat /\ win.end \in Nat /\ win.end <= full
        /\ win.end - win.start = SizeOf(full)
    BY DEF IsWindow
  <1>2. SizeOf(full) \in 0 .. full /\ SizeOf(full) <= WindowSize
    BY SizeOfBounds, ViewAssumption DEF ViewAssumption
  <1>3. win.full = full /\ win \in Windows
    BY <1>1 DEF Windows
  <1>4. WindowOk(win)
    BY <1>1, <1>2, <1>3, SizesAssumption DEF WindowOk, SizesAssumption
  <1>5. ASSUME full >= Full  PROVE Wide(win)
    BY <1>1, <1>3, <1>5, FullBounds DEF Wide
  <1> QED  BY <1>4, <1>5

LEMMA PlacedWindow ==
  ASSUME NEW full \in Nat, NEW start \in Int
  PROVE  IsWindow(WindowAt(ClampedStart(start, full), full), full)
  BY ClampedStartBounds, WindowAtIsWindow

LEMMA MadeWindows ==
  ASSUME NEW full \in 0 .. LastBar, NEW index \in Int
  PROVE  /\ WindowOk(TailWindow(full)) /\ (full >= Full => Wide(TailWindow(full)))
         /\ WindowOk(AroundIndex(index, full))
         /\ (full >= Full => Wide(AroundIndex(index, full)))
  <1>1. full \in Nat
    BY ViewAssumption DEF ViewAssumption
  <1>2. IsWindow(TailWindow(full), full)
    BY <1>1, WindowAtIsWindow, SizeOfBounds DEF TailWindow
  <1>3. IsWindow(HeadWindow(full), full)
    BY <1>1, WindowAtIsWindow, SizeOfBounds DEF HeadWindow
  <1>4. IsWindow(AroundIndex(index, full), full)
    <2> DEFINE start == Between(index, 0, full - 1) - SizeOf(full) \div 2
    <2>1. start \in Int
      BY <1>1, SizeOfBounds DEF Between, Most, Least
    <2>2. IsWindow(WindowAt(ClampedStart(start, full), full), full)
      BY <1>1, <2>1, PlacedWindow
    <2> QED  BY <2>2, <1>3 DEF AroundIndex
  <1> QED  BY <1>2, <1>4, IsWindowFits

LEMMA WithFullFits ==
  ASSUME NEW win, WindowOk(win), NEW full \in 0 .. LastBar
  PROVE  /\ WindowOk(WithFull(win, full)) /\ WithFull(win, full).full = full
         /\ Wide(win) /\ full >= Full => Wide(WithFull(win, full))
  <1>1. full \in Nat /\ win.start \in Nat /\ win.end \in Nat
    BY ViewAssumption DEF ViewAssumption, WindowOk, Windows
  <1>2. CASE win.end > full
    <2>1. IsWindow(WithFull(win, full), full)
      BY <1>1, <1>2, PlacedWindow DEF WithFull
    <2> QED  BY <2>1, IsWindowFits DEF IsWindow
  <1>3. CASE ~(win.end > full)
    <2>1. WithFull(win, full) = [win EXCEPT !.full = full]
      BY <1>3 DEF WithFull
    <2> QED  BY <1>1, <1>3, <2>1 DEF WindowOk, Windows, Wide
  <1> QED  BY <1>2, <1>3

LEMMA OffsetFits ==
  ASSUME NEW win, WindowOk(win), NEW delta \in Int
  PROVE  WindowOk(Offset(win, delta)) /\ (Wide(win) => Wide(Offset(win, delta)))
  <1>1. win.full \in 0 .. LastBar /\ win.full \in Nat /\ win.start + delta \in Int
    BY ViewAssumption DEF ViewAssumption, WindowOk, Windows
  <1>2. Offset(win, delta) = win \/ IsWindow(Offset(win, delta), win.full)
    BY <1>1, PlacedWindow DEF Offset
  <1> QED  BY <1>1, <1>2, IsWindowFits DEF Wide

LEMMA ShiftedFits ==
  ASSUME NEW win, WindowOk(win), NEW visible \in IntRange
  PROVE  WindowOk(Shifted(win, visible)) /\ (Wide(win) => Wide(Shifted(win, visible)))
  <1> DEFINE start == (2 * win.start + visible.from + visible.to - SizeOf(win.full)) \div 2
  <1>1. win.full \in 0 .. LastBar /\ win.full \in Nat /\ win.start \in Nat
    BY ViewAssumption DEF ViewAssumption, WindowOk, Windows
  <1>2. start \in Int
    BY <1>1, SizeOfBounds DEF IntRange
  <1>3. IsWindow(WindowAt(ClampedStart(start, win.full), win.full), win.full)
    BY <1>1, <1>2, PlacedWindow
  <1>4. Shifted(win, visible) = win \/ IsWindow(Shifted(win, visible), win.full)
    BY <1>3 DEF Shifted, Recentred
  <1> QED  BY <1>1, <1>4, IsWindowFits DEF Wide

------------------------------------------------------------------------------
(* Focus, bundle and foundation of a market. *)

(* The focus is a full window of the report, with the trade in it. *)
LEMMA FocusIsFull ==
  ASSUME NEW trade \in Trades \cup {None}
  PROVE  /\ FocusWindow(trade) \in IntRange /\ InReport(FocusWindow(trade))
         /\ Length(FocusWindow(trade)) = Full
         /\ trade # None => Holds(FocusWindow(trade), trade)
  <1>1. /\ LastBar \in Nat /\ LastBar > 0 /\ Full \in 1 .. LastBar
        /\ trade # None => trade \in 1 .. LastBar
    BY ViewAssumption, FullBounds DEF ViewAssumption
  <1>2. ASSUME NEW win, IsWindow(win, LastBar)
        PROVE  /\ SliceOf(Report, win) = [from |-> 1 + win.start, to |-> win.end]
               /\ SliceOf(Report, win) \in IntRange /\ InReport(SliceOf(Report, win))
               /\ Length(SliceOf(Report, win)) = Full
    BY <1>1, <1>2 DEF SliceOf, Report, IsWindow, IntRange, InReport, Length, Full
  <1>3. CASE trade = None
    <2>1. IsWindow(TailWindow(LastBar), LastBar)
      BY <1>1, WindowAtIsWindow, SizeOfBounds DEF TailWindow
    <2> QED  BY <1>2, <1>3, <2>1 DEF FocusWindow
  <1>4. CASE trade # None
    <2> DEFINE win == AroundIndex(trade - 1, LastBar)
    <2>1. IndexOf(Report, trade) = trade - 1
      BY <1>1, <1>4 DEF IndexOf, Report, Length, Between, Most, Least
    <2>2. FocusWindow(trade) = SliceOf(Report, win)
      BY <1>4, <2>1 DEF FocusWindow
    <2>3. IsWindow(win, LastBar)
      <3> DEFINE start == Between(trade - 1, 0, LastBar - 1) - SizeOf(LastBar) \div 2
      <3>1. start \in Int
        BY <1>1, <1>4, SizeOfBounds DEF Between, Most, Least
      <3>2. IsWindow(WindowAt(ClampedStart(start, LastBar), LastBar), LastBar)
        BY <1>1, <3>1, PlacedWindow
      <3> QED  BY <1>1, <3>2 DEF AroundIndex
    <2>4. trade - 1 \in win.start .. win.end - 1
      BY <1>1, <1>4, AroundHoldsTheTrade
    <2>5. win.start \in Nat /\ win.end \in Nat
      BY <2>3 DEF IsWindow
    <2> HIDE DEF win
    <2>6. FocusWindow(trade) = [from |-> 1 + win.start, to |-> win.end]
      BY <1>2, <2>2, <2>3
    <2>7. Holds(FocusWindow(trade), trade)
      BY <1>1, <1>4, <2>4, <2>5, <2>6 DEF Holds
    <2> QED  BY <1>2, <2>2, <2>3, <2>7
  <1> QED  BY <1>3, <1>4

LEMMA BundleIs ==
  ASSUME NEW m, MarketOk(m)
  PROVE  /\ Bundle(m) \in IntRange /\ InReport(Bundle(m))
         /\ Bundle(m) = NoBars \/ Length(Bundle(m)) \in Full .. LastBar
         /\ Length(Bundle(m)) \in 0 .. LastBar
         /\ m.status = "ready" => Bundle(m) # NoBars
  <1>1. /\ FocusWindow(m.trade) \in IntRange /\ InReport(FocusWindow(m.trade))
        /\ Length(FocusWindow(m.trade)) = Full
    BY FocusIsFull DEF MarketOk, Markets
  <1>2. /\ m.cover \in IntRange /\ InReport(m.cover)
        /\ Within(FocusWindow(m.trade), m.cover)
        /\ m.status = "ready" => Within(FocusWindow(m.trade), m.cached)
    BY DEF MarketOk, Markets
  <1>3. Bundle(m) \in {NoBars, m.cover, FocusWindow(m.trade)}
    BY DEF Bundle
  <1>4. m.status = "ready" => Bundle(m) \in {m.cover, FocusWindow(m.trade)}
    BY <1>2 DEF Bundle
  <1>5. Full \in 1 .. LastBar /\ LastBar \in Nat
    BY FullBounds, ViewAssumption DEF ViewAssumption
  <1>6. NoBars \in IntRange /\ InReport(NoBars) /\ Length(NoBars) = 0
    BY <1>5 DEF NoBars, IntRange, InReport, Length
  <1>7. Length(FocusWindow(m.trade)) \in Full .. LastBar
        /\ Length(m.cover) \in Full .. LastBar
    BY <1>1, <1>2, <1>5 DEF IntRange, InReport, Length, Within
  <1>8. NoBars \notin {m.cover, FocusWindow(m.trade)}
    BY <1>5, <1>6, <1>7
  <1> QED  BY <1>1, <1>2, <1>3, <1>4, <1>5, <1>6, <1>7, <1>8

LEMMA FoundationIs ==
  ASSUME NEW m, MarketOk(m)
  PROVE  /\ Foundation(m) \in Foundations
         /\ Foundation(m) # None <=> m.status = "ready"
  <1>1. FocusWindow(m.trade) \in IntRange /\ m.run \in Runs
    BY FocusIsFull DEF MarketOk, Markets
  <1> DEFINE there == [run |-> m.run, window |-> FocusWindow(m.trade)]
  <1>2. there \in [run : Runs, window : IntRange]
    BY <1>1
  <1>3. there # None
    BY <1>2, ViewAssumption DEF ViewAssumption, IntRange
  <1> QED  BY <1>2, <1>3 DEF Foundation, Foundations, MarketOk

------------------------------------------------------------------------------
(* The controllers under user events and timers. *)

(* The helpers of the render window controller keep it a controller, with   *)
(* its window, its foundation and its count of commits.                    *)
StaysWith(r, q) ==
  /\ ControllerOk(q) /\ q.foundation = r.foundation /\ q.seq = r.seq /\ q.win = r.win

LEMMA HelpersStay ==
  ASSUME NEW r, ControllerOk(r)
  PROVE  /\ StaysWith(r, ScheduleIdle(r)) /\ StaysWith(r, AbortApplying(r))
         /\ StaysWith(r, SettleAfterSwap(r))
         /\ \A seq : StaysWith(r, SettleSwap(r, seq))
         /\ AbortApplying(r).pointer = r.pointer /\ ScheduleIdle(r).pointer = r.pointer
         /\ SettleAfterSwap(r).pointer = r.pointer /\ SettleAfterSwap(r).wheel = r.wheel
         /\ SettleAfterSwap(r).timer = r.timer
         /\ AbortApplying(r).pending = r.pending
  <1>1. r \in Controllers /\ r.applying <= r.seq /\ WindowOk(r.win)
        /\ (r.foundation # None => Wide(r.win))
    BY DEF ControllerOk
  <1>2. Panning(r) \in States
    BY DEF Panning, States
  <1>3. (IF r.pointer \/ r.wheel THEN Panning(r) ELSE "idle_user_view") \in States
    BY <1>2 DEF States
  <1>4. ScheduleIdle(r) = [r EXCEPT !.timer = (r.pending # None)]
    BY DEF ScheduleIdle
  <1>5. StaysWith(r, ScheduleIdle(r)) /\ ScheduleIdle(r).pointer = r.pointer
    BY <1>1, <1>4 DEF StaysWith, ControllerOk, Controllers
  <1>6. /\ StaysWith(r, SettleAfterSwap(r)) /\ SettleAfterSwap(r).pointer = r.pointer
        /\ SettleAfterSwap(r).wheel = r.wheel /\ SettleAfterSwap(r).timer = r.timer
        /\ SettleAfterSwap(r).pending = r.pending
    <2> DEFINE state == IF r.pointer \/ r.wheel THEN Panning(r) ELSE "idle_user_view"
               q == [r EXCEPT !.applying = 0, !.state = state]
    <2>1. state \in States
      BY <1>3
    <2> HIDE DEF state
    <2>2. /\ q \in Controllers /\ q.applying = 0 /\ q.seq = r.seq /\ q.win = r.win
          /\ q.foundation = r.foundation /\ q.pointer = r.pointer /\ q.wheel = r.wheel
          /\ q.timer = r.timer /\ q.pending = r.pending /\ r.seq \in Nat
      BY <1>1, <2>1 DEF Controllers
    <2>3. SettleAfterSwap(r) = q
      BY DEF SettleAfterSwap, state
    <2> HIDE DEF q
    <2> QED  BY <1>1, <2>2, <2>3 DEF StaysWith, ControllerOk
  <1>7. StaysWith(r, r)
    BY DEF StaysWith
  <1> QED  BY <1>5, <1>6, <1>7 DEF AbortApplying, SettleSwap

(* A commit counts, moves the window and keeps it as wide as it was. *)
LEMMA CommittedKeeps ==
  ASSUME NEW r, ControllerOk(r)
  PROVE  /\ ControllerOk(Committed(r)) /\ Committed(r).foundation = r.foundation
         /\ Committed(r).seq = IF Commits(r) THEN r.seq + 1 ELSE r.seq
         /\ Committed(r).pointer = r.pointer
         /\ Commits(r) => r.pending \in [visible : IntRange, anchor : Int]
  <1> DEFINE next == Shifted(r.win, r.pending.visible)
             rest == [r EXCEPT !.pending = None, !.timer = FALSE]
             state == IF r.pointer \/ r.wheel THEN "user_panning" ELSE "idle_user_view"
             idle == [rest EXCEPT !.state = state]
             swap == [rest EXCEPT !.win = next, !.seq = @ + 1, !.applying = r.seq + 1,
                                  !.state = "applying_shift"]
             moved == [rest EXCEPT !.win = next]
             counted == [moved EXCEPT !.seq = r.seq + 1, !.applying = r.seq + 1]
  <1>1. /\ r \in Controllers /\ r.applying <= r.seq /\ WindowOk(r.win)
        /\ (r.foundation # None => Wide(r.win))
    BY DEF ControllerOk
  <1>2. CASE r.pending = None
    <2>1. Committed(r) = r
      BY <1>2 DEF Committed
    <2> QED  BY <2>1 DEF Commits
  <1>3. CASE r.pending # None
    <2>1. r.pending \in [visible : IntRange, anchor : Int]
      BY <1>1, <1>3 DEF Controllers
    <2>2. WindowOk(next) /\ (Wide(r.win) => Wide(next))
      BY <1>1, <2>1, ShiftedFits
    <2>3. next \in Windows
      BY <2>2 DEF WindowOk
    <2> HIDE DEF next
    <2>4. state \in States /\ "applying_shift" \in States
      BY DEF States
    <2> HIDE DEF state
    <2>5a. /\ rest \in Controllers /\ rest.applying = r.applying /\ rest.seq = r.seq
          /\ rest.win = r.win /\ rest.foundation = r.foundation /\ rest.pointer = r.pointer
      BY <1>1 DEF Controllers
    <2> HIDE DEF rest
    <2>5. /\ idle \in Controllers /\ idle.applying = r.applying /\ idle.seq = r.seq
          /\ idle.win = r.win /\ idle.foundation = r.foundation /\ idle.pointer = r.pointer
      BY <2>5a, <2>4 DEF Controllers
    <2>7. r.seq \in Nat /\ r.seq + 1 \in Nat
      BY <1>1 DEF Controllers
    <2>5b. /\ moved \in Controllers /\ moved.win = next /\ moved.foundation = r.foundation
          /\ moved.pointer = r.pointer
      BY <2>5a, <2>3 DEF Controllers
    <2>5c. swap = [counted EXCEPT !.state = "applying_shift"]
      BY <2>5a DEF Controllers
    <2> HIDE DEF moved
    <2>5d. /\ counted \in Controllers /\ counted.win = next /\ counted.applying = r.seq + 1
          /\ counted.seq = r.seq + 1 /\ counted.foundation = r.foundation
          /\ counted.pointer = r.pointer
      BY <2>5b, <2>7 DEF Controllers
    <2> HIDE DEF counted, swap
    <2>6. /\ swap \in Controllers /\ swap.applying = r.seq + 1 /\ swap.seq = r.seq + 1
          /\ swap.win = next /\ swap.foundation = r.foundation /\ swap.pointer = r.pointer
      BY <2>5c, <2>5d, <2>4 DEF Controllers
    <2>8. Committed(r) = IF next = r.win THEN idle ELSE swap
      BY <1>3 DEF Committed, next, state, rest, swap
    <2> HIDE DEF idle, swap
    <2>9. Commits(r) <=> next # r.win
      BY <2>5, <2>6, <2>7, <2>8 DEF Commits
    <2>10. ControllerOk(idle) /\ ControllerOk(swap)
      BY <1>1, <2>2, <2>5, <2>6, <2>7 DEF ControllerOk
    <2> QED  BY <2>1, <2>5, <2>6, <2>8, <2>9, <2>10
  <1> QED  BY <1>2, <1>3

(* A prefetch keeps the focus covered. *)
LEMMA PrefetchedOk ==
  ASSUME NEW m, MarketOk(m), NEW bars \in IntRange
  PROVE  MarketOk(Prefetched(m, bars))
  <1> DEFINE left == bars.from - m.cover.from <= SafeZone
             right == m.cover.to - bars.to <= SafeZone
             wider == [from |-> IF left THEN Most(1, m.cover.from - Reach) ELSE m.cover.from,
                       to |-> IF right THEN Least(LastBar, m.cover.to + Reach) ELSE m.cover.to]
             next == [m EXCEPT !.cover = wider, !.status = "loading"]
  <1>1. /\ m \in Markets /\ m.cover \in IntRange /\ InReport(m.cover)
        /\ FocusWindow(m.trade) \in IntRange
    BY FocusIsFull DEF MarketOk, Markets
  <1>2. wider \in IntRange /\ InReport(wider) /\ Within(m.cover, wider)
    <2>1. /\ m.cover.from \in Int /\ m.cover.to \in Int
          /\ 1 <= m.cover.from /\ m.cover.to <= LastBar
          /\ Reach \in Nat /\ LastBar \in Nat
      BY <1>1, ViewAssumption DEF IntRange, InReport, ViewAssumption
    <2> HIDE DEF left, right
    <2>2. /\ wider.from \in Int /\ 1 <= wider.from /\ wider.from <= m.cover.from
          /\ wider.to \in Int /\ wider.to <= LastBar /\ m.cover.to <= wider.to
      BY <2>1 DEF Most, Least
    <2>3. wider \in IntRange
      BY <2>2 DEF IntRange
    <2> QED  BY <2>2, <2>3 DEF InReport, Within
  <1> HIDE DEF wider
  <1>3. Within(FocusWindow(m.trade), wider)
    BY <1>1, <1>2 DEF MarketOk, Within, IntRange
  <1>4. /\ next \in Markets /\ next.cover = wider /\ next.cached = m.cached
        /\ next.trade = m.trade /\ next.status = "loading"
    BY <1>1, <1>2 DEF Markets, Statuses
  <1>5. MarketOk(next)
    BY <1>2, <1>3, <1>4 DEF MarketOk
  <1> QED  BY <1>5 DEF Prefetched, wider

(* What a user event, a timer or the market may do: nothing is drawn, and   *)
(* whatever changes what should be drawn asks for it.                      *)
OutsideRenders ==
  /\ MarketOk(market') /\ ControllerOk(rw') /\ rw'.foundation = rw.foundation
  /\ ViewportOk(vp', rw'.seq) /\ focus' \in Focuses /\ chart' \in Charts
  /\ ref' = ref /\ shown' = shown
  /\ events' \in [allowed : SUBSET Kinds, left : Nat]
  /\ page' \in {page, Dirty, Fresh} /\ (market' = market \/ page' = Fresh)

LEMMA OutsideKeepsView ==
  ASSUME ViewInv, OutsideRenders
  PROVE  ViewInv'
  <1>1. page \in Pages /\ page' \in Pages /\ page'.effects = page.effects
        /\ (page' = Fresh => page'.fresh /\ page'.dirty)
        /\ (page'.dirty \/ page'.dirty = page.dirty)
        /\ (page' # Fresh => page'.fresh = page.fresh)
    BY DEF ViewInv, Typed, OutsideRenders, Pages, Dirty, Fresh
  <1>2. Typed'
    BY <1>1 DEF ViewInv, Typed, OutsideRenders
  <1>3. DrawnIsCurrent'
    <2>1. (page.fresh => page.dirty)'
      BY <1>1 DEF ViewInv, DrawnIsCurrent, OutsideRenders
    <2>2. (~page.fresh => shown.market = market /\ shown.bundle = Bundle(market))'
      BY <1>1 DEF ViewInv, DrawnIsCurrent, OutsideRenders
    <2>3. (~page.effects \/ ~shown.fresh => shown.last = shown.market)'
      BY <1>1 DEF ViewInv, DrawnIsCurrent, OutsideRenders
    <2> QED  BY <2>1, <2>2, <2>3 DEF DrawnIsCurrent
  <1>4. FoundedIsFull'
    BY <1>1 DEF ViewInv, FoundedIsFull, OutsideRenders
  <1> QED  BY <1>2, <1>3, <1>4 DEF ViewInv

NoSwap == rw.pointer /\ rw'.pointer => rw'.seq = rw.seq

LEMMA EventIs ==
  ASSUME Typed, NEW kind, Event(kind)
  PROVE  /\ events' \in [allowed : SUBSET Kinds, left : Nat]
         /\ events'.allowed = events.allowed /\ kind \in events.allowed
  BY DEF Typed, Event

(* The viewport helpers keep the commands of a viewport in order. *)
LEMMA ViewportHelpers ==
  ASSUME NEW seq \in Nat, NEW v, ViewportOk(v, seq)
  PROVE  /\ ViewportOk(PanStarts(v), seq) /\ ViewportOk(PanEnds(v), seq)
         /\ ViewportOk(WheelPan(v), seq) /\ ViewportOk(TradeSelected(v), seq)
         /\ ViewportOk(CommandsCancelled(v), seq)
         /\ ViewportOk([v EXCEPT !.command = None], seq)
         /\ \A time \in Int : ViewportOk(FocusEmitted(v, time), seq)
         /\ \A more \in Nat : more >= seq => ViewportOk(v, more)
  <1>1. v \in Viewports /\ v.txn <= seq /\ v.cancelled <= v.txn
    BY DEF ViewportOk
  <1>2. ViewportOk(PanStarts(v), seq) /\ ViewportOk(PanEnds(v), seq)
    BY <1>1 DEF PanStarts, PanEnds, ViewportOk, Viewports
  <1>3. ViewportOk(WheelPan(v), seq) /\ ViewportOk(TradeSelected(v), seq)
    BY <1>1 DEF WheelPan, TradeSelected, ViewportOk, Viewports
  <1>4. None \in Commands /\ \A time \in Int : FocusOn(time) \in Commands
    BY DEF Commands, FocusCommands, FocusOn
  <1>5. /\ ViewportOk(CommandsCancelled(v), seq)
        /\ ViewportOk([v EXCEPT !.command = None], seq)
    <2> DEFINE w == [v EXCEPT !.command = None]
               c == [w EXCEPT !.cancelled = v.txn]
    <2>1. /\ w \in Viewports /\ w.txn = v.txn /\ w.cancelled = v.cancelled /\ v.txn \in Nat
      BY <1>1, <1>4 DEF Viewports
    <2>2. CommandsCancelled(v) = c
      BY <1>1 DEF CommandsCancelled, Viewports
    <2> HIDE DEF w
    <2>3. c \in Viewports /\ c.txn = v.txn /\ c.cancelled = v.txn
      BY <2>1 DEF Viewports
    <2> HIDE DEF c
    <2> QED  BY <1>1, <2>1, <2>2, <2>3 DEF ViewportOk, w
  <1>6. ASSUME NEW time \in Int  PROVE ViewportOk(FocusEmitted(v, time), seq)
    <2>1. FocusEmitted(v, time) = [TradeSelected(v) EXCEPT !.command = FocusOn(time)]
      BY DEF FocusEmitted, FocusOn
    <2> DEFINE w == TradeSelected(v)
    <2>2. w \in Viewports /\ w.txn <= seq /\ w.cancelled <= w.txn
      BY <1>3 DEF ViewportOk
    <2>3. FocusOn(time) \in Commands
      BY <1>4
    <2> HIDE DEF w
    <2>4. ViewportOk([w EXCEPT !.command = FocusOn(time)], seq)
      BY <2>2, <2>3 DEF ViewportOk, Viewports
    <2> QED  BY <2>1, <2>4 DEF w
  <1>7. ASSUME NEW more \in Nat, more >= seq  PROVE ViewportOk(v, more)
    BY <1>1, <1>7 DEF ViewportOk, Viewports
  <1> QED  BY <1>2, <1>3, <1>5, <1>6, <1>7

LEMMA RestoreEmittedOk ==
  ASSUME NEW r, ControllerOk(r), Commits(r), NEW v, ViewportOk(v, r.seq)
  PROVE  ViewportOk(RestoreEmitted(v, r, Committed(r)), Committed(r).seq)
  <1> DEFINE seq == Committed(r).seq
             command == [type |-> "restoreAfterWindowSwap", seq |-> seq, txn |-> v.txn + 1,
                         anchor |-> r.pending.anchor, visible |-> r.pending.visible]
  <1>1. seq = r.seq + 1 /\ r.seq \in Nat /\ r.pending \in [visible : IntRange, anchor : Int]
    BY CommittedKeeps DEF ControllerOk, Controllers
  <1> HIDE DEF seq
  <1>2. v \in Viewports /\ v.txn \in Nat /\ v.txn <= r.seq /\ v.cancelled <= v.txn
        /\ v.cancelled \in Nat
    BY DEF ViewportOk, Viewports
  <1>3. command \in RestoreCommands
    BY <1>1, <1>2 DEF RestoreCommands
  <1> HIDE DEF command
  <1>4. ViewportOk([v EXCEPT !.txn = @ + 1, !.command = command], seq)
    <2> DEFINE txn == v.txn + 1
               w == [v EXCEPT !.txn = txn, !.command = command]
    <2>1. command \in Commands /\ txn \in Nat /\ txn <= seq /\ v.cancelled <= txn
      BY <1>1, <1>2, <1>3 DEF Commands
    <2>2. w = [v EXCEPT !.txn = @ + 1, !.command = command]
      BY <1>2 DEF Viewports
    <2> HIDE DEF txn
    <2>3. w \in Viewports /\ w.txn = txn /\ w.cancelled = v.cancelled
      BY <1>2, <2>1 DEF Viewports
    <2> HIDE DEF w
    <2> QED  BY <2>1, <2>2, <2>3 DEF ViewportOk
  <1>5. ViewportOk(v, seq)
    BY <1>1, <1>2 DEF ViewportOk
  <1>6. RestoreEmitted(v, r, Committed(r)) \in {v, [v EXCEPT !.txn = @ + 1, !.command = command]}
    BY DEF RestoreEmitted, command, seq
  <1> QED  BY <1>4, <1>5, <1>6 DEF seq

LEMMA SliceIs ==
  ASSUME NEW bars \in IntRange, NEW win, WindowOk(win)
  PROVE  /\ SliceOf(bars, win) \in IntRange
         /\ Length(SliceOf(bars, win)) = win.end - win.start
         /\ win.full = Length(bars) => Within(SliceOf(bars, win), bars)
  BY DEF SliceOf, IntRange, WindowOk, Windows, Length, Within

LEMMA CommitIs ==
  ASSUME ViewInv, NEW r, ControllerOk(r), Commit(r)
  PROVE  /\ MarketOk(market') /\ ControllerOk(rw') /\ rw'.foundation = r.foundation
         /\ rw'.seq = Committed(r).seq /\ rw'.pointer = r.pointer
         /\ page' \in {page, Fresh} /\ (market' = market \/ page' = Fresh)
  <1> DEFINE after == Committed(r)
  <1>1. ControllerOk(after) /\ after.foundation = r.foundation /\ after.pointer = r.pointer
    BY CommittedKeeps
  <1>2. rw' \in {after, [after EXCEPT !.shift = after.seq]}
    BY DEF Commit
  <1> HIDE DEF after
  <1>3. /\ ControllerOk([after EXCEPT !.shift = after.seq])
        /\ [after EXCEPT !.shift = after.seq].foundation = after.foundation
        /\ [after EXCEPT !.shift = after.seq].seq = after.seq
        /\ [after EXCEPT !.shift = after.seq].pointer = after.pointer
    <2> DEFINE q == [after EXCEPT !.shift = after.seq]
    <2>1. after \in Controllers
      BY <1>1 DEF ControllerOk
    <2>2. /\ q \in Controllers /\ q.foundation = after.foundation /\ q.seq = after.seq
          /\ q.pointer = after.pointer /\ q.win = after.win /\ q.applying = after.applying
      BY <2>1 DEF Controllers
    <2> HIDE DEF q
    <2>3. ControllerOk(q)
      BY <1>1, <2>2 DEF ControllerOk
    <2> QED  BY <2>2, <2>3 DEF q
  <1>4. /\ ControllerOk(rw') /\ rw'.foundation = r.foundation
        /\ rw'.seq = after.seq /\ rw'.pointer = r.pointer
    BY <1>1, <1>2, <1>3
  <1>5. SliceOf(page.bundle, after.win) \in IntRange
    BY <1>1, SliceIs DEF ViewInv, Typed, Pages, ControllerOk
  <1>6. MarketOk(market) /\ MarketOk(Prefetched(market, SliceOf(page.bundle, after.win)))
    BY <1>5, PrefetchedOk DEF ViewInv, Typed
  <1>7. \/ market' = market /\ page' \in {page, Fresh}
        \/ market' = Prefetched(market, SliceOf(page.bundle, after.win)) /\ page' = Fresh
    BY DEF Commit, after
  <1> QED  BY <1>4, <1>6, <1>7 DEF after

------------------------------------------------------------------------------
(* The market side: what is fresh is asked for. *)

(* The market and its events leave the controllers alone. *)
MarketMoves ==
  /\ MarketOk(market') /\ page' = Fresh
  /\ events' \in [allowed : SUBSET Kinds, left : Nat] /\ events'.allowed = events.allowed
  /\ market.cover = FocusWindow(market.trade) => market'.cover = FocusWindow(market'.trade)
  /\ UNCHANGED <<rw, vp, focus, ref, shown, chart>>

LEMMA MarketMovesOutside ==
  ASSUME ViewInv, MarketMoves
  PROVE  OutsideRenders /\ NoSwap
  BY DEF ViewInv, Typed, MarketMoves, OutsideRenders, NoSwap

LEMMA RetargetedOk ==
  ASSUME NEW m, MarketOk(m), NEW run \in Runs, NEW trade \in Trades \cup {None}
  PROVE  /\ MarketOk(Retargeted(m, run, trade))
         /\ m.cover = FocusWindow(m.trade) =>
              Retargeted(m, run, trade).cover = FocusWindow(Retargeted(m, run, trade).trade)
  <1> DEFINE cached == IF run = m.run THEN m.cached ELSE NoBars
             next == [m EXCEPT !.run = run, !.trade = trade, !.cached = cached]
             there == [next EXCEPT !.cover = FocusWindow(trade), !.status = "loading"]
  <1>1. m \in Markets /\ m.cached \in IntRange /\ m.run \in Runs
    BY DEF MarketOk, Markets
  <1>2. NoBars \in IntRange /\ InReport(NoBars)
    BY ViewAssumption DEF NoBars, IntRange, InReport, ViewAssumption
  <1>3. cached \in IntRange /\ InReport(cached) /\ (run = m.run => cached = m.cached)
    BY <1>1, <1>2 DEF MarketOk
  <1>4. Retargeted(m, run, trade) = IF SameFocus(m, next) THEN next ELSE there
    BY <1>1 DEF Retargeted, Markets
  <1> HIDE DEF cached
  <1>5. /\ FocusWindow(trade) \in IntRange /\ InReport(FocusWindow(trade))
    BY FocusIsFull
  <1>6. /\ next \in Markets /\ next.run = run /\ next.trade = trade /\ next.cached = cached
        /\ next.cover = m.cover /\ next.status = m.status
    BY <1>1, <1>3 DEF Markets
  <1> HIDE DEF next
  <1>7. CASE SameFocus(m, next)
    <2>1. run = m.run /\ FocusWindow(trade) = FocusWindow(m.trade)
      BY <1>6, <1>7 DEF SameFocus
    <2> QED  BY <1>3, <1>4, <1>6, <1>7, <2>1 DEF MarketOk
  <1>8. CASE ~SameFocus(m, next)
    <2>1. /\ there \in Markets /\ there.trade = trade /\ there.cached = cached
          /\ there.cover = FocusWindow(trade) /\ there.status = "loading"
      BY <1>5, <1>6 DEF Markets, Statuses
    <2> HIDE DEF there
    <2>2. Within(FocusWindow(trade), FocusWindow(trade))
      BY <1>5 DEF Within, IntRange
    <2> QED  BY <1>3, <1>4, <1>5, <1>8, <2>1, <2>2 DEF MarketOk
  <1> QED  BY <1>7, <1>8

LEMMA SelectTradeMoves ==
  ASSUME ViewInv, SelectTrade
  PROVE  MarketMoves
  <1>1. PICK trade \in Trades \cup {None} : market' = Retargeted(market, market.run, trade)
    BY DEF SelectTrade
  <1>2. MarketOk(market) /\ market.run \in Runs
    BY DEF ViewInv, Typed, MarketOk, Markets
  <1> QED  BY <1>1, <1>2, RetargetedOk, EventIs DEF SelectTrade, MarketMoves, ViewInv

LEMMA SwitchRunMoves ==
  ASSUME ViewInv, SwitchRun
  PROVE  MarketMoves
  <1>1. PICK run \in Runs : market' = Retargeted(market, run, None)
    BY DEF SwitchRun
  <1>2. MarketOk(market)
    BY DEF ViewInv, Typed
  <1> QED  BY <1>1, <1>2, RetargetedOk, EventIs DEF SwitchRun, MarketMoves, ViewInv

LEMMA MarketArrivesMoves ==
  ASSUME ViewInv, MarketArrives
  PROVE  MarketMoves
  <1> DEFINE m == market
             apart == \/ m.cached = NoBars \/ m.cover.from > m.cached.to + 1
                      \/ m.cover.to < m.cached.from - 1
             hull == [from |-> Least(m.cached.from, m.cover.from),
                      to |-> Most(m.cached.to, m.cover.to)]
             cached == IF apart THEN m.cover ELSE hull
  <1>1. /\ m \in Markets /\ m.cached \in IntRange /\ m.cover \in IntRange
        /\ InReport(m.cover) /\ InReport(m.cached) /\ LastBar \in Nat
        /\ Within(FocusWindow(m.trade), m.cover) /\ FocusWindow(m.trade) \in IntRange
    BY FocusIsFull, ViewAssumption DEF ViewInv, Typed, MarketOk, Markets, ViewAssumption
  <1>2. hull \in IntRange /\ InReport(hull) /\ Within(m.cover, hull)
    BY <1>1 DEF IntRange, InReport, Within, Least, Most
  <1>3. Within(m.cover, m.cover)
    BY <1>1 DEF Within, IntRange
  <1>4. market' = [m EXCEPT !.status = "ready", !.cached = cached]
    BY <1>1 DEF MarketArrives, Markets
  <1>5. cached \in IntRange /\ InReport(cached) /\ Within(m.cover, cached)
    BY <1>1, <1>2, <1>3
  <1> HIDE DEF cached
  <1>6. /\ market' \in Markets /\ market'.cached = cached /\ market'.cover = m.cover
        /\ market'.trade = m.trade
    BY <1>1, <1>4, <1>5 DEF Markets, Statuses
  <1>7. Within(FocusWindow(m.trade), cached)
    BY <1>1, <1>5 DEF Within, IntRange
  <1>8. MarketOk(market')
    BY <1>1, <1>5, <1>6, <1>7 DEF MarketOk
  <1> QED  BY <1>6, <1>8 DEF MarketArrives, MarketMoves, ViewInv, Typed

LEMMA MarketFailsMoves ==
  ASSUME ViewInv, MarketFails
  PROVE  MarketMoves
  <1>1. MarketOk(market) /\ market \in Markets
    BY DEF ViewInv, Typed, MarketOk
  <1>2. /\ market' \in Markets /\ market'.cached = market.cached
        /\ market'.cover = market.cover /\ market'.trade = market.trade
        /\ market'.status = "error"
    BY <1>1 DEF MarketFails, Markets, Statuses
  <1>3. MarketOk(market')
    BY <1>1, <1>2 DEF MarketOk
  <1> QED  BY <1>2, <1>3, EventIs DEF MarketFails, MarketMoves, ViewInv

LEMMA OverlaysArriveMoves ==
  ASSUME ViewInv, OverlaysArrive
  PROVE  MarketMoves
  BY EventIs DEF OverlaysArrive, MarketMoves, ViewInv, Typed

------------------------------------------------------------------------------
(* The user and the timers. *)

(* The parts of the state an action finds, spelled out. *)
LEMMA Parts ==
  ASSUME ViewInv
  PROVE  /\ MarketOk(market) /\ ControllerOk(rw) /\ rw \in Controllers /\ rw.seq \in Nat
         /\ ViewportOk(vp, rw.seq) /\ ShownOk(shown) /\ focus \in Focuses /\ chart \in Charts
         /\ [focus EXCEPT !.suppressed = TRUE] \in Focuses
  BY DEF ViewInv, Typed, ControllerOk, Controllers, Focuses

(* Fields of the controller that say what the user does, and its flags. *)
LEMMA FlagsKeep ==
  ASSUME NEW r, ControllerOk(r), NEW b \in BOOLEAN
  PROVE  /\ StaysWith(r, [r EXCEPT !.wheel = b]) /\ StaysWith(r, [r EXCEPT !.timer = b])
         /\ StaysWith(r, [r EXCEPT !.programmatic = b])
         /\ [r EXCEPT !.timer = b].pointer = r.pointer
  <1>1. r \in Controllers /\ r.applying <= r.seq /\ WindowOk(r.win)
        /\ (r.foundation # None => Wide(r.win))
    BY DEF ControllerOk
  <1>2. StaysWith(r, [r EXCEPT !.wheel = b])
    BY <1>1 DEF Controllers, StaysWith, ControllerOk
  <1>3. StaysWith(r, [r EXCEPT !.timer = b]) /\ [r EXCEPT !.timer = b].pointer = r.pointer
    BY <1>1 DEF Controllers, StaysWith, ControllerOk
  <1>4. StaysWith(r, [r EXCEPT !.programmatic = b])
    BY <1>1 DEF Controllers, StaysWith, ControllerOk
  <1> QED  BY <1>2, <1>3, <1>4

LEMMA GesturesKeep ==
  ASSUME NEW r, ControllerOk(r), NEW b \in BOOLEAN, NEW state \in States
  PROVE  /\ StaysWith(r, [r EXCEPT !.pointer = b, !.state = state])
         /\ StaysWith(r, [r EXCEPT !.wheel = b, !.state = state])
         /\ StaysWith(r, [r EXCEPT !.state = state])
         /\ StaysWith(r, [r EXCEPT !.pointer = b, !.timer = FALSE, !.state = state])
         /\ [r EXCEPT !.pointer = b, !.timer = FALSE, !.state = state].pointer = b
  <1>1. r \in Controllers /\ r.applying <= r.seq /\ WindowOk(r.win)
        /\ (r.foundation # None => Wide(r.win))
    BY DEF ControllerOk
  <1>2. StaysWith(r, [r EXCEPT !.pointer = b, !.state = state])
    BY <1>1 DEF Controllers, StaysWith, ControllerOk
  <1>3. StaysWith(r, [r EXCEPT !.wheel = b, !.state = state])
    BY <1>1 DEF Controllers, StaysWith, ControllerOk
  <1>4. StaysWith(r, [r EXCEPT !.state = state])
    BY <1>1 DEF Controllers, StaysWith, ControllerOk
  <1>5. StaysWith(r, [r EXCEPT !.pointer = b, !.timer = FALSE, !.state = state])
    BY <1>1 DEF Controllers, StaysWith, ControllerOk
  <1>6. [r EXCEPT !.pointer = b, !.timer = FALSE, !.state = state].pointer = b
    BY <1>1 DEF Controllers
  <1> QED  BY <1>2, <1>3, <1>4, <1>5, <1>6

LEMMA PointerDownOutside ==
  ASSUME ViewInv, PointerDown
  PROVE  OutsideRenders /\ NoSwap
  <1> DEFINE q == AbortApplying(rw)
  <1>1. StaysWith(rw, q)
    BY Parts, HelpersStay
  <1>2. rw' = [q EXCEPT !.pointer = TRUE, !.state = "user_panning"] /\ "user_panning" \in States
    BY DEF PointerDown, States
  <1> HIDE DEF q
  <1>3. StaysWith(q, rw')
    BY <1>1, <1>2, GesturesKeep DEF StaysWith
  <1>4. StaysWith(rw, rw')
    BY <1>1, <1>3 DEF StaysWith
  <1>5. ViewportOk(vp', rw'.seq)
    BY <1>4, Parts, ViewportHelpers DEF PointerDown, StaysWith
  <1> QED  BY <1>4, <1>5, Parts, EventIs
           DEF PointerDown, OutsideRenders, NoSwap, StaysWith, ViewInv

LEMMA KeyboardPanOutside ==
  ASSUME ViewInv, KeyboardPan
  PROVE  OutsideRenders /\ NoSwap
  <1> DEFINE q == AbortApplying(rw)
             p == [q EXCEPT !.state = Panning(rw)]
  <1>1. StaysWith(rw, q)
    BY Parts, HelpersStay
  <1>2. Panning(rw) \in States
    BY DEF Panning, States
  <1> HIDE DEF q
  <1>3. StaysWith(q, p)
    BY <1>1, <1>2, GesturesKeep DEF StaysWith
  <1>4. rw' = ScheduleIdle(p)
    BY DEF KeyboardPan, q
  <1> HIDE DEF p
  <1>5. StaysWith(p, rw')
    BY <1>3, <1>4, HelpersStay DEF StaysWith
  <1>6. StaysWith(rw, rw')
    BY <1>1, <1>3, <1>5 DEF StaysWith
  <1>7. ViewportOk(vp', rw'.seq)
    BY <1>6, Parts, ViewportHelpers DEF KeyboardPan, StaysWith
  <1> QED  BY <1>6, <1>7, Parts, EventIs
           DEF KeyboardPan, OutsideRenders, NoSwap, StaysWith, ViewInv

LEMMA WheelOutside ==
  ASSUME ViewInv, Wheel
  PROVE  OutsideRenders /\ NoSwap
  <1> DEFINE p == [rw EXCEPT !.wheel = TRUE, !.state = Panning(rw)]
  <1>1. Panning(rw) \in States
    BY DEF Panning, States
  <1>2. StaysWith(rw, p)
    BY <1>1, Parts, GesturesKeep
  <1>3. rw' = ScheduleIdle(p)
    BY DEF Wheel
  <1> HIDE DEF p
  <1>4. StaysWith(p, rw')
    BY <1>2, <1>3, HelpersStay DEF StaysWith
  <1>5. StaysWith(rw, rw')
    BY <1>2, <1>4 DEF StaysWith
  <1>6. ViewportOk(vp', rw'.seq)
    BY <1>5, Parts, ViewportHelpers DEF Wheel, StaysWith
  <1> QED  BY <1>5, <1>6, Parts, EventIs
           DEF Wheel, OutsideRenders, NoSwap, StaysWith, ViewInv

LEMMA WheelEndsOutside ==
  ASSUME ViewInv, WheelEnds
  PROVE  OutsideRenders /\ NoSwap
  <1> DEFINE p == [rw EXCEPT !.wheel = FALSE]
             q == [rw EXCEPT !.wheel = FALSE, !.state = "idle_user_view"]
  <1>1. StaysWith(rw, p) /\ StaysWith(rw, q)
    BY Parts, FlagsKeep, GesturesKeep DEF States
  <1>2. rw' \in {p, q, ScheduleIdle(p)}
    BY DEF WheelEnds
  <1> HIDE DEF p, q
  <1>3. StaysWith(p, ScheduleIdle(p))
    BY <1>1, HelpersStay DEF StaysWith
  <1>4. StaysWith(rw, rw')
    BY <1>1, <1>2, <1>3 DEF StaysWith
  <1> QED  BY <1>4, Parts DEF WheelEnds, OutsideRenders, NoSwap, StaysWith, ViewInv, Typed

LEMMA ApplyingEndsOutside ==
  ASSUME ViewInv, ApplyingEnds
  PROVE  OutsideRenders /\ NoSwap
  <1>1. StaysWith(rw, rw')
    BY Parts, FlagsKeep DEF ApplyingEnds
  <1>2. chart' \in Charts
    BY Parts DEF ApplyingEnds, Charts
  <1> QED  BY <1>1, <1>2, Parts
           DEF ApplyingEnds, OutsideRenders, NoSwap, StaysWith, ViewInv, Typed

(* A commit of a controller that differs from rw by its gestures. *)
LEMMA CommitOutside ==
  ASSUME ViewInv, NEW r, StaysWith(rw, r), Commit(r), ~r.pointer,
         NEW v, v = IF Commits(r) THEN RestoreEmitted(vp, r, Committed(r)) ELSE vp,
         vp' \in {v, PanEnds(v)},
         UNCHANGED <<focus, ref, shown, chart, events>>
  PROVE  OutsideRenders /\ NoSwap
  <1>1. ControllerOk(r) /\ r.seq = rw.seq /\ r.foundation = rw.foundation
    BY DEF StaysWith
  <1>2. /\ MarketOk(market') /\ ControllerOk(rw') /\ rw'.foundation = r.foundation
        /\ rw'.seq = Committed(r).seq /\ rw'.pointer = r.pointer
        /\ page' \in {page, Fresh} /\ (market' = market \/ page' = Fresh)
    BY <1>1, CommitIs
  <1>3. rw'.seq \in Nat
    BY <1>2 DEF ControllerOk, Controllers
  <1>4. ViewportOk(vp, r.seq)
    BY <1>1, Parts
  <1>5. ViewportOk(v, rw'.seq)
    BY <1>1, <1>2, <1>4, RestoreEmittedOk, CommittedKeeps
  <1>6. ViewportOk(vp', rw'.seq)
    BY <1>3, <1>5, ViewportHelpers
  <1> QED  BY <1>1, <1>2, <1>6, Parts DEF OutsideRenders, NoSwap, ViewInv, Typed

LEMMA PointerUpOutside ==
  ASSUME ViewInv, PointerUp
  PROVE  OutsideRenders /\ NoSwap
  <1> DEFINE state == IF /\ rw.pending = None /\ ~rw.wheel /\ rw.state # "applying_shift"
                      THEN "idle_user_view" ELSE rw.state
             up == [rw EXCEPT !.pointer = FALSE, !.timer = FALSE, !.state = state]
             v == IF Commits(up) THEN RestoreEmitted(vp, up, Committed(up)) ELSE vp
  <1>1. state \in States
    BY Parts DEF Controllers, States
  <1>2. Commit(up) /\ vp' = PanEnds(v) /\ UNCHANGED <<focus, ref, shown, chart, events>>
    BY Parts DEF PointerUp, Controllers
  <1> HIDE DEF state
  <1>3. StaysWith(rw, up) /\ ~up.pointer
    BY <1>1, Parts, GesturesKeep
  <1> HIDE DEF up
  <1> QED  BY <1>2, <1>3, CommitOutside

LEMMA IdleTimerOutside ==
  ASSUME ViewInv, IdleTimer
  PROVE  OutsideRenders /\ NoSwap
  <1> DEFINE idle == [rw EXCEPT !.timer = FALSE]
             v == IF Commits(idle) THEN RestoreEmitted(vp, idle, Committed(idle)) ELSE vp
  <1>1. StaysWith(rw, idle) /\ idle.pointer = rw.pointer
    BY Parts, FlagsKeep
  <1>2. /\ rw.pointer => rw' = idle /\ UNCHANGED <<market, vp, page>>
        /\ ~rw.pointer => Commit(idle) /\ vp' = v
        /\ UNCHANGED <<focus, ref, shown, chart, events>>
    BY DEF IdleTimer
  <1> HIDE DEF idle
  <1>3. CASE rw.pointer
    BY <1>1, <1>2, <1>3, Parts DEF OutsideRenders, NoSwap, StaysWith, ViewInv, Typed
  <1>4. CASE ~rw.pointer
    BY <1>1, <1>2, <1>4, CommitOutside
  <1> QED  BY <1>3, <1>4

LEMMA RecordIntentStays ==
  ASSUME NEW r, ControllerOk(r), NEW visible \in IntRange, NEW anchor \in Int
  PROVE  StaysWith(r, RecordIntent(r, visible, anchor))
  <1> DEFINE pending == [visible |-> visible, anchor |-> anchor]
             q == [r EXCEPT !.pending = pending, !.state = "pending_shift", !.timer = TRUE]
  <1>1. r \in Controllers /\ r.applying <= r.seq /\ WindowOk(r.win)
        /\ (r.foundation # None => Wide(r.win))
    BY DEF ControllerOk
  <1>2. pending \in [visible : IntRange, anchor : Int] /\ "pending_shift" \in States
    BY DEF States
  <1>3. RecordIntent(r, visible, anchor) \in {r, q}
    BY DEF RecordIntent
  <1> HIDE DEF pending
  <1>4. /\ q \in Controllers /\ q.applying = r.applying /\ q.seq = r.seq /\ q.win = r.win
        /\ q.foundation = r.foundation
    BY <1>1, <1>2 DEF Controllers
  <1> HIDE DEF q
  <1> QED  BY <1>1, <1>3, <1>4 DEF StaysWith, ControllerOk

LEMMA MoveOutside ==
  ASSUME ViewInv, Move
  PROVE  OutsideRenders /\ NoSwap
  <1>1. PICK step \in {-1, 1} :
          LET visible == [from |-> chart.visible.from + step, to |-> chart.visible.to + step]
              moved == RecordIntent(rw, visible, AnchorOf(shown.bars, visible))
              seen == [from |-> shown.bars.from + Between(visible.from, 0, Length(shown.bars) - 1),
                       to |-> shown.bars.from + Between(visible.to, 0, Length(shown.bars) - 1)]
          IN  /\ chart' = [chart EXCEPT !.visible = visible]
              /\ IF chart.applying THEN UNCHANGED <<rw, market, page>>
                 ELSE /\ rw' = moved /\ market' \in {market, Prefetched(market, seen)}
                      /\ page' = IF market' = market THEN page ELSE Fresh
    BY DEF Move
  <1> DEFINE visible == [from |-> chart.visible.from + step, to |-> chart.visible.to + step]
             seen == [from |-> shown.bars.from + Between(visible.from, 0, Length(shown.bars) - 1),
                      to |-> shown.bars.from + Between(visible.to, 0, Length(shown.bars) - 1)]
  <1>2. /\ chart.visible \in IntRange /\ shown.bars \in IntRange
        /\ shown.bars.from \in Int /\ Length(shown.bars) \in Int
    BY Parts DEF Charts, ShownOk, Views, IntRange, Length
  <1>3. visible \in IntRange /\ visible.from \in Int /\ visible.to \in Int
    BY <1>2 DEF IntRange
  <1>4. /\ chart' = [chart EXCEPT !.visible = visible]
        /\ IF chart.applying THEN UNCHANGED <<rw, market, page>>
           ELSE /\ rw' = RecordIntent(rw, visible, AnchorOf(shown.bars, visible))
                /\ market' \in {market, Prefetched(market, seen)}
                /\ page' = IF market' = market THEN page ELSE Fresh
    BY <1>1
  <1> HIDE DEF visible
  <1>5. seen \in IntRange
    BY <1>2, <1>3 DEF IntRange, Between, Most, Least
  <1>6. AnchorOf(shown.bars, visible) \in Int
    BY <1>2, <1>3 DEF AnchorOf, Between, Most, Least
  <1> HIDE DEF seen
  <1>7. chart' \in Charts
    BY <1>3, <1>4, Parts DEF Charts
  <1>8. StaysWith(rw, rw')
    BY <1>3, <1>4, <1>6, Parts, RecordIntentStays DEF StaysWith
  <1>9. /\ MarketOk(market') /\ page' \in {page, Fresh} /\ (market' = market \/ page' = Fresh)
    BY <1>4, <1>5, Parts, PrefetchedOk
  <1> QED  BY <1>7, <1>8, <1>9, Parts, EventIs
           DEF Move, OutsideRenders, NoSwap, StaysWith, ViewInv

------------------------------------------------------------------------------
(* A render. *)

LEMMA DrawnIs ==
  ASSUME ViewInv, NEW bundle \in IntRange, NEW win, WindowOk(win),
         bundle # NoBars => win.full = Length(bundle)
  PROVE  /\ Drawn(bundle, win) \in Views /\ Drawn(bundle, win).last = shown.last
         /\ Drawn(bundle, win).bars # NoBars =>
              /\ Within(Drawn(bundle, win).bars, bundle)
              /\ Length(Drawn(bundle, win).bars) <= WindowSize
         /\ bundle # NoBars /\ Wide(win) => Length(Drawn(bundle, win).bars) = Full
  <1> DEFINE bars == IF win.end > win.start THEN SliceOf(bundle, win) ELSE NoBars
             none == [shown EXCEPT !.bars = NoBars, !.run = None]
             again == [shown EXCEPT !.bars = bars, !.run = shown.keptRun]
             anew == [shown EXCEPT !.bars = bars, !.run = market.run, !.kept = bars,
                                   !.keptRun = market.run]
  <1>1. /\ SliceOf(bundle, win) \in IntRange
        /\ Length(SliceOf(bundle, win)) = win.end - win.start
        /\ bundle # NoBars => Within(SliceOf(bundle, win), bundle)
    BY SliceIs
  <1>2. /\ shown \in Views /\ market.run \in Runs
        /\ shown.keptRun \in Runs \cup {None}
    BY Parts DEF ShownOk, Views, MarketOk, Markets
  <1>3. NoBars \in IntRange
    BY DEF NoBars, IntRange
  <1>4. bars \in IntRange /\ (bars # NoBars => bars = SliceOf(bundle, win))
    BY <1>1, <1>3
  <1>5. /\ win.end - win.start <= WindowSize /\ Full > 0
        /\ win.end \in Nat /\ win.start \in Nat
    BY FullBounds DEF WindowOk, Windows
  <1>6. Wide(win) => bars = SliceOf(bundle, win) /\ Length(SliceOf(bundle, win)) = Full
    BY <1>1, <1>5, FullBounds DEF Wide
  <1>7. Drawn(bundle, win) = IF bundle = NoBars THEN none
                             ELSE IF bars # NoBars /\ bars = shown.kept THEN again ELSE anew
    BY DEF Drawn
  <1> HIDE DEF bars
  <1>8. none \in Views /\ none.last = shown.last /\ none.bars = NoBars
    BY <1>2, <1>3 DEF Views
  <1>9. again \in Views /\ again.last = shown.last /\ again.bars = bars
    BY <1>2, <1>4 DEF Views
  <1>10. anew \in Views /\ anew.last = shown.last /\ anew.bars = bars
    <2> DEFINE drawn == [shown EXCEPT !.bars = bars, !.run = market.run]
    <2>1. drawn \in Views /\ drawn.last = shown.last /\ drawn.bars = bars
      BY <1>2, <1>4 DEF Views
    <2>2. anew = [drawn EXCEPT !.kept = bars, !.keptRun = market.run]
      BY <1>2 DEF Views
    <2> HIDE DEF drawn
    <2> QED  BY <1>2, <1>4, <2>1, <2>2 DEF Views
  <1> HIDE DEF none, again, anew
  <1>11. CASE bundle = NoBars
    BY <1>7, <1>8, <1>11
  <1>12. CASE bundle # NoBars
    BY <1>1, <1>4, <1>5, <1>6, <1>7, <1>9, <1>10, <1>12
  <1> QED  BY <1>11, <1>12

LEMMA RangeKeptIs ==
  ASSUME NEW bars \in IntRange, NEW visible \in IntRange
  PROVE  RangeKept(bars, visible) \in IntRange
  BY SizesAssumption DEF RangeKept, IntRange, Length, Least, SizesAssumption

(* What a render leaves, by the three values it computes. *)
RenderedWith(bundle, win, drawn) ==
  /\ rw' = [rw EXCEPT !.win = win]
  /\ shown' = [drawn EXCEPT !.bundle = bundle, !.market = market, !.command = vp.command,
                            !.shift = rw.shift, !.fresh = page.fresh]
  /\ chart' = IF drawn.bars = shown.bars \/ drawn.bars = NoBars THEN chart
              ELSE [chart EXCEPT !.visible = RangeKept(drawn.bars, chart.visible)]

LEMMA RenderIs ==
  ASSUME ViewInv, Render
  PROVE  \E win, drawn :
           /\ RenderedWith(Bundle(market), win, drawn)
           /\ WindowOk(win) /\ (Wide(rw.win) => Wide(win))
           /\ ~page.fresh => win = rw.win /\ drawn = shown
           /\ drawn \in Views /\ drawn.last = shown.last
           /\ drawn.bars # NoBars =>
                Within(drawn.bars, Bundle(market)) /\ Length(drawn.bars) <= WindowSize
           /\ page.fresh /\ Bundle(market) # NoBars /\ Wide(win) => Length(drawn.bars) = Full
  <1> DEFINE bundle == Bundle(market)
             win == IF page.fresh /\ bundle # NoBars THEN WithFull(rw.win, Length(bundle))
                    ELSE rw.win
             drawn == IF page.fresh THEN Drawn(bundle, win) ELSE shown
  <1>1. RenderedWith(bundle, win, drawn)
    BY DEF Render, RenderedWith
  <1>2. /\ bundle \in IntRange /\ Length(bundle) \in 0 .. LastBar
        /\ bundle # NoBars => Length(bundle) >= Full
    BY Parts, BundleIs DEF IntRange
  <1>3. WindowOk(rw.win)
    BY Parts DEF ControllerOk
  <1>4. shown \in Views /\ (~page.fresh => shown.bundle = bundle)
    BY Parts DEF ShownOk, ViewInv, DrawnIsCurrent
  <1>5. shown.bars # NoBars =>
          Within(shown.bars, shown.bundle) /\ Length(shown.bars) <= WindowSize
    BY Parts DEF ShownOk
  <1> HIDE DEF bundle
  <1>6. /\ WindowOk(win) /\ (Wide(rw.win) => Wide(win))
        /\ page.fresh /\ bundle # NoBars => win.full = Length(bundle)
    BY <1>2, <1>3, WithFullFits
  <1>7. ~page.fresh => win = rw.win /\ drawn = shown
    OBVIOUS
  <1> HIDE DEF win
  <1>8. page.fresh => drawn = Drawn(bundle, win)
    OBVIOUS
  <1> HIDE DEF drawn
  <1>9. CASE page.fresh
    BY <1>1, <1>2, <1>6, <1>7, <1>8, <1>9, DrawnIs DEF bundle
  <1>10. CASE ~page.fresh
    BY <1>1, <1>4, <1>5, <1>6, <1>7, <1>10 DEF bundle
  <1> QED  BY <1>9, <1>10

LEMMA RenderKeepsView ==
  ASSUME ViewInv, Render
  PROVE  ViewInv' /\ NoSwap
  <1> DEFINE bundle == Bundle(market)
  <1>1. PICK win, drawn :
           /\ RenderedWith(bundle, win, drawn)
           /\ WindowOk(win) /\ (Wide(rw.win) => Wide(win))
           /\ ~page.fresh => win = rw.win /\ drawn = shown
           /\ drawn \in Views /\ drawn.last = shown.last
           /\ drawn.bars # NoBars =>
                Within(drawn.bars, bundle) /\ Length(drawn.bars) <= WindowSize
           /\ page.fresh /\ bundle # NoBars /\ Wide(win) => Length(drawn.bars) = Full
    BY RenderIs
  <1>2. /\ bundle \in IntRange /\ InReport(bundle)
        /\ bundle = NoBars \/ Length(bundle) >= Full
    BY Parts, BundleIs, FullBounds DEF IntRange
  <1> HIDE DEF bundle
  <1>3. /\ ControllerOk(rw') /\ rw'.foundation = rw.foundation /\ rw'.win = win
        /\ rw'.seq = rw.seq
    <2>1. rw \in Controllers /\ rw.applying <= rw.seq /\ (rw.foundation # None => Wide(rw.win))
      BY Parts DEF ControllerOk
    <2>2. rw' = [rw EXCEPT !.win = win] /\ win \in Windows
      BY <1>1 DEF RenderedWith, WindowOk
    <2>3. /\ rw' \in Controllers /\ rw'.foundation = rw.foundation /\ rw'.win = win
          /\ rw'.seq = rw.seq /\ rw'.applying = rw.applying
      BY <2>1, <2>2 DEF Controllers
    <2> QED  BY <1>1, <2>1, <2>3 DEF ControllerOk
  <1>4. /\ shown' \in Views /\ shown'.bars = drawn.bars /\ shown'.bundle = bundle
        /\ shown'.market = market /\ shown'.last = shown.last /\ shown'.fresh = page.fresh
    <2> DEFINE d == [drawn EXCEPT !.bundle = bundle, !.market = market]
               e == [d EXCEPT !.command = vp.command, !.shift = rw.shift]
    <2>1. market \in Markets /\ vp.command \in Commands /\ rw.shift \in Nat
          /\ page.fresh \in BOOLEAN
      BY Parts DEF MarketOk, ViewportOk, Viewports, Controllers, ViewInv, Typed, Pages
    <2>2. shown' = [e EXCEPT !.fresh = page.fresh]
      BY <1>1 DEF RenderedWith, Views
    <2>3. /\ d \in Views /\ d.bars = drawn.bars /\ d.bundle = bundle /\ d.market = market
          /\ d.last = shown.last
      BY <1>1, <1>2, <2>1 DEF Views
    <2> HIDE DEF d
    <2>4. /\ e \in Views /\ e.bars = drawn.bars /\ e.bundle = bundle /\ e.market = market
          /\ e.last = shown.last
      BY <2>1, <2>3 DEF Views
    <2> HIDE DEF e
    <2> QED  BY <2>1, <2>2, <2>4 DEF Views
  <1>5. chart' \in Charts
    <2>1. drawn.bars \in IntRange /\ chart \in Charts /\ chart.visible \in IntRange
      BY <1>1, Parts DEF Views, Charts
    <2>2. RangeKept(drawn.bars, chart.visible) \in IntRange
      BY <2>1, RangeKeptIs
    <2> QED  BY <1>1, <2>1, <2>2 DEF RenderedWith, Charts
  <1>6. /\ page' \in Pages /\ page'.effects /\ ~page'.fresh /\ ~page.effects
        /\ UNCHANGED <<market, vp, focus, ref, events>>
    <2>1. page.dirty \in BOOLEAN /\ page \in Pages /\ page.prev \in Int \cup {None}
      BY DEF ViewInv, Typed, Pages
    <2> DEFINE prev == IF SameFocus(market, shown.market) THEN page.prev ELSE None
    <2>2. page' = [page EXCEPT !.dirty = FALSE, !.fresh = FALSE, !.effects = TRUE,
                               !.prev = prev]
      BY <2>1 DEF Render, Pages
    <2>3. prev \in Int \cup {None}
      BY <2>1
    <2> HIDE DEF prev
    <2> QED  BY <2>1, <2>2, <2>3 DEF Render, Pages
  <1>7. Typed'
    <2>1. ShownOk(shown')
      BY <1>1, <1>2, <1>4, Parts DEF ShownOk
    <2>2. ViewportOk(vp, rw.seq)' /\ MarketOk(market)'
      BY <1>3, <1>6, Parts
    <2> QED  BY <1>3, <1>5, <1>6, <2>1, <2>2 DEF ViewInv, Typed
  <1>8. DrawnIsCurrent'
    <2>1. ~page.effects => shown.last = shown.market
      BY DEF ViewInv, DrawnIsCurrent
    <2>2. ~page.fresh => shown.market = market
      BY DEF ViewInv, DrawnIsCurrent
    <2>3. (page.fresh => page.dirty)'
      BY <1>6
    <2>4. (~page.fresh => shown.market = market /\ shown.bundle = Bundle(market))'
      BY <1>4, <1>6 DEF bundle
    <2>5. (~page.effects \/ ~shown.fresh => shown.last = shown.market)'
      BY <1>4, <1>6, <2>1, <2>2
    <2> QED  BY <2>3, <2>4, <2>5 DEF DrawnIsCurrent
  <1>9. FoundedIsFull'
    <2>1. /\ Foundation(shown.last) # None => rw.foundation # None
          /\ ~page.fresh /\ rw.foundation # None /\ shown.bundle # NoBars
               => Length(shown.bars) = Full
      BY DEF ViewInv, FoundedIsFull
    <2>2. rw.foundation # None => Wide(rw.win)
      BY Parts DEF ControllerOk
    <2>3. ~page.fresh => shown.bundle = bundle
      BY DEF ViewInv, DrawnIsCurrent, bundle
    <2>4. (Foundation(shown.last) # None => rw.foundation # None)'
      BY <1>3, <1>4, <2>1
    <2>5. rw'.foundation # None /\ bundle # NoBars => Length(drawn.bars) = Full
      BY <1>1, <1>3, <2>1, <2>2, <2>3
    <2> QED  BY <1>4, <2>4, <2>5 DEF FoundedIsFull
  <1> QED  BY <1>3, <1>7, <1>8, <1>9 DEF ViewInv, NoSwap

------------------------------------------------------------------------------
(* The effects of a render, one by one. *)

Stages ==
  [rw : Controllers, vp : Viewports, chart : Charts, focus : Focuses, ref : IntRange,
   prev : Int \cup {None}, bump : BOOLEAN]

StageOk(s) == s \in Stages /\ ControllerOk(s.rw) /\ ViewportOk(s.vp, s.rw.seq)

(* An effect leaves what the user does to the user, starts no timer, and    *)
(* asks for a render when it moves the window.                             *)
Gentle(s, t) ==
  /\ StageOk(t) /\ t.rw.seq = s.rw.seq
  /\ t.rw.pointer = s.rw.pointer /\ t.rw.wheel = s.rw.wheel
  /\ t.rw.timer => s.rw.timer
  /\ s.bump => t.bump
  /\ t.bump \/ t.rw.win = s.rw.win

(* Most of them leave the foundation, too. *)
Effect(s, t) == Gentle(s, t) /\ t.rw.foundation = s.rw.foundation

LEMMA StageIs ==
  ASSUME NEW s, StageOk(s)
  PROVE  /\ s \in Stages /\ ControllerOk(s.rw) /\ s.rw \in Controllers /\ s.rw.seq \in Nat
         /\ ViewportOk(s.vp, s.rw.seq) /\ s.vp \in Viewports /\ s.chart \in Charts
         /\ s.focus \in Focuses /\ s.ref \in IntRange /\ s.bump \in BOOLEAN
         /\ WindowOk(s.rw.win) /\ (s.rw.foundation # None => Wide(s.rw.win))
         /\ Effect(s, s)
  BY DEF StageOk, Stages, Controllers, ControllerOk, Effect, Gentle

(* The window of a stage replaced by another one. *)
Moved(s, win, bump) == [s EXCEPT !.rw.win = win, !.bump = bump]

LEMMA MovedIs ==
  ASSUME NEW s, StageOk(s), NEW win, WindowOk(win), Wide(s.rw.win) => Wide(win),
         NEW bump \in BOOLEAN, s.bump => bump, bump \/ win = s.rw.win
  PROVE  /\ Effect(s, Moved(s, win, bump)) /\ Moved(s, win, bump).bump = bump
         /\ Moved(s, win, bump).vp = s.vp /\ Moved(s, win, bump).chart = s.chart
  <1> DEFINE t == Moved(s, win, bump)
             q == [s.rw EXCEPT !.win = win]
  <1>1. s \in Stages /\ s.rw \in Controllers /\ s.rw.applying <= s.rw.seq
    BY DEF StageOk, Stages, ControllerOk
  <1>2. /\ q \in Controllers /\ q.win = win /\ q.seq = s.rw.seq /\ q.applying = s.rw.applying
        /\ q.foundation = s.rw.foundation /\ q.pointer = s.rw.pointer /\ q.wheel = s.rw.wheel
        /\ q.timer = s.rw.timer
    BY <1>1 DEF Controllers, WindowOk
  <1>3. t = [s EXCEPT !.rw = q, !.bump = bump]
    BY <1>1 DEF Stages, Moved
  <1> HIDE DEF q, t
  <1>4. ControllerOk(q)
    BY <1>1, <1>2, StageIs DEF ControllerOk
  <1>5. /\ t \in Stages /\ t.rw = q /\ t.bump = bump /\ t.vp = s.vp /\ t.chart = s.chart
    BY <1>1, <1>2, <1>3 DEF Stages
  <1>6. StageOk(t)
    BY <1>2, <1>4, <1>5 DEF StageOk
  <1> QED  BY <1>2, <1>5, <1>6 DEF Effect, Gentle, t

(* The viewport of a stage replaced by another one. *)
LEMMA WithViewport ==
  ASSUME NEW s, StageOk(s), NEW v, ViewportOk(v, s.rw.seq), NEW t, t = [s EXCEPT !.vp = v]
  PROVE  /\ Effect(s, t) /\ t.vp = v /\ t.rw = s.rw /\ t.chart = s.chart
         /\ t.focus = s.focus /\ t.ref = s.ref /\ t.bump = s.bump
  <1>1. /\ t \in Stages /\ t.vp = v /\ t.rw = s.rw /\ t.chart = s.chart
        /\ t.focus = s.focus /\ t.ref = s.ref /\ t.bump = s.bump
    BY DEF StageOk, Stages, ViewportOk
  <1>2. StageOk(t)
    BY <1>1 DEF StageOk
  <1> QED  BY <1>1, <1>2 DEF Effect, Gentle

LEMMA CentredIs ==
  ASSUME NEW count \in Int, NEW index \in Int, NEW bars \in Int
  PROVE  Centred(count, index, bars) \in IntRange
  BY DEF Centred, IntRange, Between, Most, Least

(* A command that was rendered is taken back, and may move the chart. *)
LEMMA ExecuteCommandIs ==
  ASSUME ViewInv, NEW s, StageOk(s)
  PROVE  /\ Effect(s, ExecuteCommand(s)) /\ ExecuteCommand(s).bump = s.bump
         /\ shown.command = None => ExecuteCommand(s) = s
         /\ shown.command # None /\ shown.bars # NoBars => ExecuteCommand(s).vp.command = None
         /\ shown.command \in FocusCommands /\ shown.bars # NoBars =>
              ExecuteCommand(s).chart.visible = FocusPlan(shown.bars, shown.command.time)
  <1> DEFINE v == [s.vp EXCEPT !.command = None]
             done == [s EXCEPT !.vp = v]
             plan == IF shown.command.type = "focusTrade"
                     THEN FocusPlan(shown.bars, shown.command.time)
                     ELSE RestorePlan(shown.bars, shown.command.anchor, shown.command.visible)
             moved == [visible |-> plan, applying |-> TRUE]
             q == [s.rw EXCEPT !.programmatic = TRUE]
             applied == [done EXCEPT !.chart = moved, !.rw = q]
             settled == [applied EXCEPT !.rw = SettleSwap(q, shown.command.seq)]
  <1>1. s \in Stages /\ s.rw \in Controllers /\ s.vp \in Viewports
    BY StageIs
  <1>2. ExecuteCommand(s) =
          IF shown.command = None \/ shown.bars = NoBars THEN s
          ELSE IF ~Executes THEN done
          ELSE IF shown.command.type = "focusTrade" THEN applied ELSE settled
    BY <1>1 DEF ExecuteCommand, Stages
  <1>3. ViewportOk(v, s.rw.seq) /\ v.command = None
    BY <1>1, StageIs, ViewportHelpers DEF Viewports
  <1> HIDE DEF v
  <1>4. /\ Effect(s, done) /\ done.vp = v /\ done.rw = s.rw /\ done.bump = s.bump
        /\ done \in Stages /\ StageOk(done)
    BY <1>3, WithViewport DEF Effect, Gentle, StageOk
  <1> HIDE DEF done
  <1>5. shown.command # None =>
          \/ shown.command \in FocusCommands /\ shown.command.type = "focusTrade"
          \/ shown.command \in RestoreCommands /\ shown.command.type = "restoreAfterWindowSwap"
    BY Parts DEF ShownOk, Views, Commands, FocusCommands, RestoreCommands
  <1>6. shown.bars \in IntRange /\ shown.bars.from \in Int /\ Length(shown.bars) \in Int
    BY Parts DEF ShownOk, Views, IntRange, Length
  <1>7. shown.command # None => plan \in IntRange
    <2>1. CASE shown.command \in FocusCommands
      <3>1. shown.command.time \in Int /\ shown.command.type = "focusTrade"
        BY <2>1 DEF FocusCommands
      <3>2. IndexOf(shown.bars, shown.command.time) \in Int
        BY <1>6, <3>1 DEF IndexOf, Between, Most, Least
      <3> QED  BY <1>6, <3>1, <3>2, CentredIs, SizesAssumption DEF FocusPlan, SizesAssumption
    <2>2. CASE shown.command \in RestoreCommands
      <3>1. /\ shown.command.anchor \in Int /\ shown.command.visible \in IntRange
            /\ shown.command.type = "restoreAfterWindowSwap"
        BY <2>2 DEF RestoreCommands
      <3>2. /\ IndexOf(shown.bars, shown.command.anchor) \in Int
            /\ Most(1, shown.command.visible.to - shown.command.visible.from) \in Int
        BY <1>6, <3>1 DEF IndexOf, Between, Most, Least, IntRange
      <3> QED  BY <1>6, <3>1, <3>2, CentredIs DEF RestorePlan
    <2> QED  BY <1>5, <2>1, <2>2
  <1>8. shown.command \in FocusCommands => plan = FocusPlan(shown.bars, shown.command.time)
    BY DEF FocusCommands
  <1> HIDE DEF plan
  <1>9. shown.command # None => moved \in Charts /\ moved.visible = plan
    BY <1>7 DEF Charts
  <1> HIDE DEF moved
  <1>10. StaysWith(s.rw, q) /\ q.pointer = s.rw.pointer /\ q.wheel = s.rw.wheel
         /\ q.timer = s.rw.timer /\ q \in Controllers
    BY <1>1, StageIs, FlagsKeep DEF Controllers
  <1> HIDE DEF q
  <1> DEFINE p == SettleSwap(q, shown.command.seq)
  <1>11. StaysWith(s.rw, p) /\ p.pointer = s.rw.pointer /\ p.wheel = s.rw.wheel
         /\ p.timer = s.rw.timer /\ p \in Controllers
    BY <1>10, HelpersStay DEF StaysWith, SettleSwap, ControllerOk
  <1>12. settled = [done EXCEPT !.chart = moved, !.rw = p]
    BY <1>4 DEF Stages
  <1> HIDE DEF p
  <1>13. ASSUME shown.command # None, NEW r, r \in {q, p}, NEW t,
                t = [done EXCEPT !.chart = moved, !.rw = r]
         PROVE  /\ Effect(s, t) /\ t.bump = s.bump /\ t.vp = v /\ t.chart = moved
    <2>1. StaysWith(s.rw, r) /\ r.pointer = s.rw.pointer /\ r.wheel = s.rw.wheel
          /\ r.timer = s.rw.timer /\ r \in Controllers
      BY <1>10, <1>11, <1>13
    <2>2. /\ t \in Stages /\ t.rw = r /\ t.vp = v /\ t.chart = moved /\ t.bump = s.bump
      BY <1>4, <1>9, <1>13, <2>1 DEF Stages
    <2>3. StageOk(t)
      BY <1>3, <2>1, <2>2 DEF StageOk, StaysWith
    <2> QED  BY <2>1, <2>2, <2>3 DEF Effect, Gentle, StaysWith
  <1>14. shown.command # None =>
           /\ Effect(s, applied) /\ applied.bump = s.bump /\ applied.vp = v
           /\ applied.chart = moved
    BY <1>13
  <1>15. shown.command # None =>
           /\ Effect(s, settled) /\ settled.bump = s.bump /\ settled.vp = v
           /\ settled.chart = moved
    BY <1>12, <1>13
  <1>16. Executes \/ ~(shown.command \in FocusCommands /\ shown.bars # NoBars)
    BY <1>5, ViewAssumption DEF Executes, FocusCommands, ViewAssumption
  <1>17. shown.command \in FocusCommands =>
           shown.command # None /\ shown.command.type = "focusTrade"
    BY ViewAssumption DEF FocusCommands, ViewAssumption
  <1> HIDE DEF applied, settled
  <1>18. Effect(s, ExecuteCommand(s)) /\ ExecuteCommand(s).bump = s.bump
    BY <1>2, <1>4, <1>14, <1>15, StageIs
  <1>19. shown.command = None => ExecuteCommand(s) = s
    BY <1>2
  <1>20. shown.command # None /\ shown.bars # NoBars => ExecuteCommand(s).vp.command = None
    BY <1>2, <1>3, <1>4, <1>14, <1>15
  <1>21. shown.command \in FocusCommands /\ shown.bars # NoBars =>
           ExecuteCommand(s).chart.visible = FocusPlan(shown.bars, shown.command.time)
    BY <1>2, <1>8, <1>9, <1>14, <1>16, <1>17
  <1> QED  BY <1>18, <1>19, <1>20, <1>21

LEMMA OffsetForPrependIs ==
  ASSUME ViewInv, NEW s, StageOk(s)
  PROVE  /\ Effect(s, OffsetForPrepend(s)) /\ OffsetForPrepend(s).vp = s.vp
         /\ OffsetForPrepend(s).chart = s.chart
  <1> DEFINE bars == shown.bundle
             win == IF s.prev = None \/ bars.from >= s.prev THEN s.rw.win
                    ELSE Offset(s.rw.win, IndexOf(bars, s.prev))
             bump == s.bump \/ win # s.rw.win
             moved == Moved(s, win, bump)
             t == [moved EXCEPT !.prev = bars.from]
  <1>1. bars \in IntRange /\ bars.from \in Int /\ Length(bars) \in Int
    BY Parts DEF ShownOk, Views, IntRange, Length
  <1>2. s \in Stages /\ WindowOk(s.rw.win) /\ s.prev \in Int \cup {None} /\ s.bump \in BOOLEAN
    BY StageIs DEF Stages
  <1>3. WindowOk(win) /\ (Wide(s.rw.win) => Wide(win))
    <2>1. CASE s.prev = None \/ bars.from >= s.prev
      BY <1>2, <2>1
    <2>2. CASE ~(s.prev = None \/ bars.from >= s.prev)
      <3>1. IndexOf(bars, s.prev) \in Int
        BY <1>1, <1>2, <2>2 DEF IndexOf, Between, Most, Least
      <3> QED  BY <1>2, <2>2, <3>1, OffsetFits
    <2> QED  BY <2>1, <2>2
  <1>4. OffsetForPrepend(s) = IF bars = NoBars THEN s ELSE t
    BY <1>2 DEF OffsetForPrepend, Moved, Stages
  <1> HIDE DEF win
  <1>5. bump \in BOOLEAN /\ (s.bump => bump) /\ (bump \/ win = s.rw.win)
    OBVIOUS
  <1> HIDE DEF bump
  <1>6. Effect(s, moved) /\ moved.vp = s.vp /\ moved.chart = s.chart
    BY <1>3, <1>5, MovedIs
  <1> HIDE DEF moved
  <1>7. moved \in Stages /\ StageOk(moved)
    BY <1>6 DEF Effect, Gentle, StageOk
  <1>8. /\ t \in Stages /\ t.rw = moved.rw /\ t.vp = moved.vp /\ t.chart = moved.chart
        /\ t.bump = moved.bump
    BY <1>1, <1>7 DEF Stages
  <1>9. Effect(s, t) /\ t.vp = s.vp /\ t.chart = s.chart
    BY <1>6, <1>7, <1>8 DEF Effect, Gentle, StageOk
  <1> QED  BY <1>4, <1>9, StageIs

LEMMA InitWindowIs ==
  ASSUME ViewInv, NEW s, StageOk(s)
  PROVE  /\ Gentle(s, InitWindow(s)) /\ InitWindow(s).vp = s.vp
         /\ InitWindow(s).chart = s.chart
         /\ InitWindow(s).bump \/ InitWindow(s).rw.foundation = s.rw.foundation
         /\ Foundation(shown.market) # None
              /\ (shown.market = shown.last => s.rw.foundation # None)
              => InitWindow(s).rw.foundation # None
  <1> DEFINE m == shown.market
             bars == FocusWindow(m.trade)
             win == IF m.trade = None THEN TailWindow(Length(bars))
                    ELSE AroundIndex(IndexOf(bars, m.trade), Length(bars))
             none == [s.rw EXCEPT !.win = HeadWindow(0), !.timer = FALSE, !.foundation = None]
             lost == [s EXCEPT !.rw = none, !.bump = TRUE]
             known == [s EXCEPT !.ref = bars]
             q == [s.rw EXCEPT !.win = win, !.foundation = Foundation(m)]
             started == [s EXCEPT !.ref = bars, !.bump = TRUE, !.rw = q]
  <1>1. /\ s \in Stages /\ s.rw \in Controllers /\ ControllerOk(s.rw) /\ s.rw.seq \in Nat
        /\ s.rw.applying <= s.rw.seq /\ ViewportOk(s.vp, s.rw.seq)
    BY StageIs DEF ControllerOk
  <1>2. /\ MarketOk(m) /\ m \in Markets /\ m.trade \in Trades \cup {None}
    BY Parts DEF ShownOk, MarketOk, Markets
  <1>3. /\ bars \in IntRange /\ bars.from \in Int /\ Length(bars) = Full
        /\ Full \in 1 .. LastBar /\ LastBar \in Nat
    BY <1>2, FocusIsFull, FullBounds, ViewAssumption DEF IntRange, ViewAssumption
  <1>4. WindowOk(win) /\ Wide(win)
    <2>1. Length(bars) \in 0 .. LastBar /\ Length(bars) >= Full
      BY <1>3
    <2>2. CASE m.trade = None
      BY <2>1, <2>2, MadeWindows
    <2>3. CASE m.trade # None
      <3>1. m.trade \in Int
        BY <1>2, <2>3, ViewAssumption DEF ViewAssumption
      <3>2. IndexOf(bars, m.trade) \in Int
        BY <1>3, <3>1 DEF IndexOf, Between, Most, Least
      <3> QED  BY <2>1, <2>3, <3>2, MadeWindows
    <2> QED  BY <2>2, <2>3
  <1>5. InitWindow(s) =
          IF m.status = "error" THEN lost
          ELSE IF Foundation(m) = None \/ m = shown.last THEN s
          ELSE IF s.rw.foundation = Foundation(m) THEN known ELSE started
    BY <1>1 DEF InitWindow, Stages
  <1>6. /\ Foundation(m) \in Foundations /\ (m.status = "error" => Foundation(m) = None)
    BY <1>2, FoundationIs
  <1> HIDE DEF win, bars
  <1>7. WindowOk(HeadWindow(0))
    <2>1. IsWindow(HeadWindow(0), 0)
      BY WindowAtIsWindow, SizeOfBounds DEF HeadWindow
    <2> QED  BY <1>3, <2>1, IsWindowFits
  <1>8. /\ Gentle(s, lost) /\ lost.vp = s.vp /\ lost.chart = s.chart /\ lost.bump
    <2>1. /\ none \in Controllers /\ none.win = HeadWindow(0) /\ none.foundation = None
          /\ none.seq = s.rw.seq /\ none.applying = s.rw.applying
          /\ none.pointer = s.rw.pointer /\ none.wheel = s.rw.wheel /\ none.timer = FALSE
      BY <1>1, <1>7 DEF Controllers, WindowOk, Foundations
    <2> HIDE DEF none
    <2>2. ControllerOk(none)
      BY <1>1, <1>7, <2>1 DEF ControllerOk
    <2>3. /\ lost \in Stages /\ lost.rw = none /\ lost.bump /\ lost.vp = s.vp
          /\ lost.chart = s.chart
      BY <1>1, <2>1 DEF Stages
    <2> QED  BY <1>1, <2>1, <2>2, <2>3 DEF Gentle, StageOk
  <1>9. /\ Gentle(s, known) /\ known.vp = s.vp /\ known.chart = s.chart
        /\ known.rw = s.rw
    <2>1. /\ known \in Stages /\ known.rw = s.rw /\ known.vp = s.vp
          /\ known.chart = s.chart /\ known.bump = s.bump
      BY <1>1, <1>3 DEF Stages
    <2> QED  BY <1>1, <2>1 DEF Gentle, StageOk
  <1>10. /\ Gentle(s, started) /\ started.vp = s.vp /\ started.chart = s.chart
         /\ started.bump /\ started.rw.foundation = Foundation(m)
    <2>1. /\ q \in Controllers /\ q.win = win /\ q.foundation = Foundation(m)
          /\ q.seq = s.rw.seq /\ q.applying = s.rw.applying
          /\ q.pointer = s.rw.pointer /\ q.wheel = s.rw.wheel /\ q.timer = s.rw.timer
      BY <1>1, <1>4, <1>6 DEF Controllers, WindowOk
    <2> HIDE DEF q
    <2>2. ControllerOk(q)
      BY <1>1, <1>4, <2>1 DEF ControllerOk
    <2>3. /\ started \in Stages /\ started.rw = q /\ started.bump /\ started.vp = s.vp
          /\ started.chart = s.chart
      BY <1>1, <1>3, <2>1 DEF Stages
    <2> QED  BY <1>1, <2>1, <2>2, <2>3 DEF Gentle, StageOk
  <1> HIDE DEF lost, known, started
  <1>11. Gentle(s, s)
    BY StageIs DEF Effect
  <1> QED  BY <1>5, <1>6, <1>8, <1>9, <1>10, <1>11

(* A window that is rebuilt for a trade is no narrower than before. *)
LEMMA WindowForTradeFits ==
  ASSUME ViewInv, NEW s, StageOk(s), NEW trade \in Trades \cup {None}, NEW force
  PROVE  /\ WindowOk(WindowForTrade(s, trade, force))
         /\ Wide(s.rw.win) => Wide(WindowForTrade(s, trade, force))
  <1>1. WindowOk(s.rw.win) /\ s.rw.win.full \in 0 .. LastBar
    BY StageIs DEF WindowOk, Windows
  <1>2. Wide(s.rw.win) => s.rw.win.full >= Full
    BY DEF Wide
  <1>3. WindowOk(TailWindow(s.rw.win.full)) /\ (Wide(s.rw.win) => Wide(TailWindow(s.rw.win.full)))
    BY <1>1, <1>2, MadeWindows
  <1>4. CASE trade = None
    BY <1>1, <1>3, <1>4 DEF WindowForTrade
  <1>5. CASE trade # None
    <2> DEFINE index == IndexOf(s.ref, trade)
    <2>1. index \in Int
      <3>1. trade \in Int /\ s.ref.from \in Int /\ Length(s.ref) \in Int
        BY <1>5, StageIs, ViewAssumption DEF ViewAssumption, IntRange, Length
      <3> QED  BY <3>1 DEF IndexOf, Between, Most, Least
    <2>2. WindowForTrade(s, trade, force) \in {s.rw.win, AroundIndex(index, s.rw.win.full)}
      BY <1>5 DEF WindowForTrade
    <2> HIDE DEF index
    <2> QED  BY <1>1, <1>2, <2>1, <2>2, MadeWindows
  <1> QED  BY <1>4, <1>5

LEMMA RebuiltIs ==
  ASSUME ViewInv, NEW s, StageOk(s), NEW win, WindowOk(win), Wide(s.rw.win) => Wide(win)
  PROVE  /\ Effect(s, Rebuilt(s, win)) /\ Rebuilt(s, win).bump
         /\ Rebuilt(s, win).chart = s.chart /\ Rebuilt(s, win).vp = s.vp
  <1>1. PICK bump \in BOOLEAN : bump = TRUE
    OBVIOUS
  <1>2. Rebuilt(s, win) = Moved(s, win, bump)
    BY <1>1 DEF Rebuilt, Moved
  <1>3. /\ Effect(s, Moved(s, win, bump)) /\ Moved(s, win, bump).bump = bump
        /\ Moved(s, win, bump).vp = s.vp /\ Moved(s, win, bump).chart = s.chart
    BY <1>1, MovedIs
  <1> QED  BY <1>1, <1>2, <1>3

LEMMA FocusedIs ==
  ASSUME ViewInv, NEW s, StageOk(s), shown.market.trade # None
  PROVE  /\ Effect(s, Focused(s)) /\ Focused(s).bump = s.bump
         /\ Focused(s).chart = s.chart /\ Focused(s).focus = s.focus
         /\ Focused(s).vp.command = FocusOn(shown.market.trade)
  <1>1. shown.market.trade \in Int
    BY Parts, ViewAssumption DEF ShownOk, MarketOk, Markets, ViewAssumption
  <1> DEFINE v == FocusEmitted(s.vp, shown.market.trade)
  <1>2. ViewportOk(v, s.rw.seq)
    <2>1. ViewportOk(s.vp, s.rw.seq) /\ s.rw.seq \in Nat
      BY StageIs
    <2> QED  BY <1>1, <2>1, ViewportHelpers
  <1>3. v.command = FocusOn(shown.market.trade)
    <2> DEFINE w == TradeSelected(s.vp)
    <2>1. w \in Viewports
      <3>1. ViewportOk(s.vp, s.rw.seq) /\ s.rw.seq \in Nat
        BY StageIs
      <3> QED  BY <3>1, ViewportHelpers DEF ViewportOk
    <2>2. v = [w EXCEPT !.command = FocusOn(shown.market.trade)]
      BY DEF FocusEmitted, FocusOn
    <2> HIDE DEF w, v
    <2> QED  BY <2>1, <2>2 DEF Viewports
  <1>4. Focused(s) = [s EXCEPT !.vp = v]
    BY StageIs DEF Focused, Stages
  <1> HIDE DEF v
  <1> QED  BY <1>2, <1>3, <1>4, WithViewport

LEMMA ApplyForTradeIs ==
  ASSUME ViewInv, NEW s, StageOk(s)
  PROVE  /\ Effect(s, ApplyForTrade(s)) /\ ApplyForTrade(s).chart = s.chart
         /\ TradeReady /\ ~ApplyForTrade(s).bump =>
              ApplyForTrade(s).vp.command = FocusOn(shown.market.trade)
  <1> DEFINE win == WindowForTrade(s, shown.market.trade, FALSE)
  <1>1. shown.market.trade \in Trades \cup {None}
    BY Parts DEF ShownOk, MarketOk, Markets
  <1>2. WindowOk(win) /\ (Wide(s.rw.win) => Wide(win))
    BY <1>1, WindowForTradeFits
  <1>3. ApplyForTrade(s) = IF Foundation(shown.market) = None THEN s
                           ELSE IF win # s.rw.win THEN Rebuilt(s, win)
                           ELSE IF TradeReady THEN Focused(s) ELSE s
    BY DEF ApplyForTrade
  <1> HIDE DEF win
  <1>4. TradeReady => shown.market.trade # None /\ Foundation(shown.market) # None
    BY DEF TradeReady
  <1> QED  BY <1>2, <1>3, <1>4, RebuiltIs, FocusedIs, StageIs

LEMMA RequestedIs ==
  ASSUME ViewInv, NEW s, StageOk(s)
  PROVE  /\ Effect(s, Requested(s)) /\ Requested(s).chart = s.chart
         /\ Requested(s).bump = s.bump
         /\ shown.market.trade # None /\ Requested(s) # s =>
              ~Requested(s).focus.suppressed /\ Requested(s).focus.pending
  <1> DEFINE trade == shown.market.trade
             command == IF trade = None THEN s.vp.command ELSE None
             v == [s.vp EXCEPT !.command = command]
             f == [key |-> trade, suppressed |-> FALSE, last |-> None,
                   pending |-> (trade # None)]
             t == [s EXCEPT !.vp = v]
             u == [t EXCEPT !.focus = f]
  <1>1. trade \in Trades \cup {None}
    BY Parts DEF ShownOk, MarketOk, Markets
  <1>2. /\ s \in Stages /\ s.vp \in Viewports /\ ViewportOk(s.vp, s.rw.seq)
        /\ s.rw.seq \in Nat
    BY StageIs
  <1>3. Requested(s) = IF trade = s.focus.key THEN s ELSE u
    BY <1>2 DEF Requested, Stages, Viewports
  <1>4. f \in Focuses /\ ~f.suppressed /\ (trade # None => f.pending)
    BY <1>1 DEF Focuses
  <1> HIDE DEF f
  <1>5. v \in {s.vp, [s.vp EXCEPT !.command = None]}
    BY <1>2 DEF Viewports
  <1>6. ViewportOk(v, s.rw.seq)
    BY <1>2, <1>5, ViewportHelpers
  <1> HIDE DEF v
  <1>7. Effect(s, t) /\ t.rw = s.rw /\ t.chart = s.chart /\ t.bump = s.bump
    BY <1>6, WithViewport
  <1> HIDE DEF t
  <1>8. t \in Stages /\ StageOk(t)
    BY <1>7 DEF Effect, Gentle, StageOk
  <1>9. /\ u \in Stages /\ u.rw = t.rw /\ u.vp = t.vp /\ u.chart = t.chart
        /\ u.bump = t.bump /\ u.focus = f
    BY <1>4, <1>8 DEF Stages
  <1> HIDE DEF u
  <1>10. Effect(s, u)
    BY <1>7, <1>8, <1>9 DEF Effect, Gentle, StageOk
  <1> QED  BY <1>3, <1>4, <1>7, <1>9, <1>10, StageIs

LEMMA EmitWhenReadyIs ==
  ASSUME ViewInv, NEW s, StageOk(s)
  PROVE  /\ Effect(s, EmitWhenReady(s)) /\ EmitWhenReady(s).chart = s.chart
         /\ TradeReady => \/ EmitWhenReady(s).vp.command = FocusOn(shown.market.trade)
                          \/ EmitWhenReady(s) = s /\ (s.focus.suppressed \/ ~s.focus.pending)
  <1> DEFINE trade == shown.market.trade
             emit == [trade |-> trade, foundation |-> Foundation(shown.market)]
             outside == /\ Foundation(shown.market) # None /\ shown.bars # NoBars
                        /\ ~Holds(shown.bars, trade)
             win == WindowForTrade(s, trade, TRUE)
             t == Focused(s)
             f == [t.focus EXCEPT !.last = emit, !.pending = FALSE]
             u == [t EXCEPT !.focus = f]
  <1>1. /\ trade \in Trades \cup {None} /\ MarketOk(shown.market)
    BY Parts DEF ShownOk, MarketOk, Markets
  <1>2. WindowOk(win) /\ (Wide(s.rw.win) => Wide(win))
    BY <1>1, WindowForTradeFits
  <1>3. TradeReady => /\ trade # None /\ ~outside /\ Foundation(shown.market) # None
                      /\ shown.market.status # "error"
    BY <1>1, FoundationIs DEF TradeReady
  <1>4. ASSUME trade # None
        PROVE  /\ Effect(s, u) /\ u.chart = s.chart /\ u.vp.command = FocusOn(trade)
    <2>1. /\ Effect(s, t) /\ t.chart = s.chart /\ t.vp.command = FocusOn(trade)
          /\ t \in Stages /\ StageOk(t) /\ t.focus \in Focuses
      BY <1>4, FocusedIs DEF Effect, Gentle, StageOk, Stages
    <2> HIDE DEF t
    <2>2. emit \in [trade : Trades, foundation : Foundations]
      BY <1>1, <1>4, FoundationIs
    <2>3. f \in Focuses
      BY <2>1, <2>2 DEF Focuses
    <2> HIDE DEF f
    <2>4. /\ u \in Stages /\ u.rw = t.rw /\ u.vp = t.vp /\ u.chart = t.chart
          /\ u.bump = t.bump
      BY <2>1, <2>3 DEF Stages
    <2> QED  BY <2>1, <2>4 DEF Effect, Gentle, StageOk
  <1>5. EmitWhenReady(s) =
          IF trade = None \/ shown.market.status = "error" THEN s
          ELSE IF outside /\ win # s.rw.win THEN Rebuilt(s, win)
          ELSE IF TradeReady /\ ~s.focus.suppressed /\ (s.focus.pending \/ s.focus.last # emit)
          THEN u ELSE s
    <2>1. trade # None => t \in Stages /\ t.focus \in Focuses
      BY FocusedIs DEF Effect, Gentle, StageOk, Stages
    <2>2. trade # None => [t EXCEPT !.focus.last = emit, !.focus.pending = FALSE] = u
      BY <2>1 DEF Stages, Focuses
    <2> QED  BY <2>2 DEF EmitWhenReady
  <1> HIDE DEF win, u, emit, outside
  <1> QED  BY <1>2, <1>3, <1>4, <1>5, RebuiltIs, StageIs

LEMMA RememberBarsIs ==
  ASSUME ViewInv, NEW s, StageOk(s)
  PROVE  /\ Effect(s, RememberBars(s)) /\ RememberBars(s).chart = s.chart
         /\ RememberBars(s).vp = s.vp /\ RememberBars(s).bump = s.bump
  <1> DEFINE t == [s EXCEPT !.ref = shown.market.cover]
  <1>1. s \in Stages /\ shown.market.cover \in IntRange
    BY Parts, StageIs DEF ShownOk, MarketOk, Markets
  <1>2. /\ t \in Stages /\ t.rw = s.rw /\ t.vp = s.vp /\ t.chart = s.chart /\ t.bump = s.bump
    BY <1>1 DEF Stages
  <1> HIDE DEF t
  <1>3. Effect(s, t)
    BY <1>2 DEF Effect, Gentle, StageOk
  <1>4. RememberBars(s) \in {s, t}
    BY DEF RememberBars, t
  <1> QED  BY <1>2, <1>3, <1>4, StageIs

------------------------------------------------------------------------------
(* All effects of a render. *)

Begin ==
  [rw |-> rw, vp |-> vp, chart |-> chart, focus |-> focus, ref |-> ref,
   prev |-> page.prev, bump |-> FALSE]

LEMMA BeginIs ==
  ASSUME ViewInv
  PROVE  StageOk(Begin)
  <1>1. page.prev \in Int \cup {None} /\ ref \in IntRange
    BY DEF ViewInv, Typed, Pages
  <1> QED  BY <1>1, Parts DEF Begin, StageOk, Stages, ViewportOk

LEMMA GentleChains ==
  ASSUME NEW s, NEW t, NEW u, Gentle(s, t), Gentle(t, u)
  PROVE  Gentle(s, u)
  <1>1. t.bump \in BOOLEAN /\ u.bump \in BOOLEAN
    BY DEF Gentle, StageOk, Stages
  <1> QED  BY <1>1 DEF Gentle

(* What the effects of a fresh render come to. *)
FreshEffects(t) ==
  /\ t.bump \/ t.rw.foundation = rw.foundation
  /\ Foundation(shown.market) # None => t.rw.foundation # None
  /\ TradeReady /\ ~t.bump => t.vp.command = FocusOn(shown.market.trade)

LEMMA EffectsAre ==
  ASSUME ViewInv, Effects
  PROVE  \E t : /\ AfterEffects(t) /\ Gentle(Begin, t)
                /\ t.chart = ExecuteCommand(Begin).chart
                /\ ~shown.fresh => t = ExecuteCommand(Begin)
                /\ shown.fresh => FreshEffects(t)
  <1> DEFINE ran == ExecuteCommand(Begin)
             offset == OffsetForPrepend(ran)
             started == InitWindow(offset)
             placed == ApplyForTrade(started)
             asked == Requested(placed)
             done == EmitWhenReady(asked)
             last == RememberBars(done)
  <1>1. IF ~shown.fresh THEN AfterEffects(ran) ELSE AfterEffects(last)
    BY DEF Effects, Begin
  <1>2. Effect(Begin, ran) /\ StageOk(ran)
    BY BeginIs, ExecuteCommandIs DEF Effect, Gentle
  <1>3. Begin.bump = FALSE /\ Begin.rw = rw
    BY DEF Begin
  <1> HIDE DEF ran
  <1>4. /\ Effect(ran, offset) /\ StageOk(offset) /\ offset.chart = ran.chart
    BY <1>2, OffsetForPrependIs DEF Effect, Gentle
  <1> HIDE DEF offset
  <1>5. /\ Gentle(offset, started) /\ StageOk(started) /\ started.chart = offset.chart
        /\ started.bump \/ started.rw.foundation = offset.rw.foundation
        /\ Foundation(shown.market) # None
              /\ (shown.market = shown.last => offset.rw.foundation # None)
              => started.rw.foundation # None
    BY <1>4, InitWindowIs DEF Gentle
  <1> HIDE DEF started
  <1>6. /\ Effect(started, placed) /\ StageOk(placed) /\ placed.chart = started.chart
        /\ TradeReady /\ ~placed.bump => placed.vp.command = FocusOn(shown.market.trade)
    BY <1>5, ApplyForTradeIs DEF Effect, Gentle
  <1> HIDE DEF placed
  <1>7. /\ Effect(placed, asked) /\ StageOk(asked) /\ asked.chart = placed.chart
        /\ asked.bump = placed.bump
        /\ shown.market.trade # None /\ asked # placed =>
              ~asked.focus.suppressed /\ asked.focus.pending
    BY <1>6, RequestedIs DEF Effect, Gentle
  <1> HIDE DEF asked
  <1>8. /\ Effect(asked, done) /\ StageOk(done) /\ done.chart = asked.chart
        /\ TradeReady => \/ done.vp.command = FocusOn(shown.market.trade)
                         \/ done = asked /\ (asked.focus.suppressed \/ ~asked.focus.pending)
    BY <1>7, EmitWhenReadyIs DEF Effect, Gentle
  <1> HIDE DEF done
  <1>9. /\ Effect(done, last) /\ last.chart = done.chart /\ last.vp = done.vp
        /\ last.bump = done.bump
    BY <1>8, RememberBarsIs
  <1> HIDE DEF last
  <1>10. Gentle(Begin, last)
    BY <1>2, <1>4, <1>5, <1>6, <1>7, <1>8, <1>9, GentleChains DEF Effect
  <1>11. /\ last.rw.foundation = started.rw.foundation
         /\ offset.rw.foundation = rw.foundation
    BY <1>2, <1>3, <1>4, <1>6, <1>7, <1>8, <1>9 DEF Effect
  <1>12. ~last.bump => ~started.bump /\ ~placed.bump
    BY <1>6, <1>7, <1>8, <1>9 DEF Effect, Gentle
  <1>13. last.bump \/ last.rw.foundation = rw.foundation
    BY <1>5, <1>11, <1>12
  <1>14. Foundation(shown.market) # None => last.rw.foundation # None
    BY <1>5, <1>11 DEF ViewInv, FoundedIsFull
  <1>15. TradeReady /\ ~last.bump => last.vp.command = FocusOn(shown.market.trade)
    <2>1. TradeReady => shown.market.trade # None
      BY DEF TradeReady
    <2> QED  BY <1>6, <1>7, <1>8, <1>9, <1>12, <2>1
  <1>16. shown.fresh => FreshEffects(last)
    BY <1>13, <1>14, <1>15 DEF FreshEffects
  <1>17. last.chart = ran.chart
    BY <1>4, <1>5, <1>6, <1>7, <1>8, <1>9
  <1>18. CASE shown.fresh
    BY <1>1, <1>10, <1>16, <1>17, <1>18 DEF ran
  <1>19. CASE ~shown.fresh
    BY <1>1, <1>2, <1>19 DEF Effect, ran
  <1> QED  BY <1>18, <1>19

LEMMA EffectsKeepView ==
  ASSUME ViewInv, Effects
  PROVE  ViewInv' /\ NoSwap
  <1>1. PICK t : /\ AfterEffects(t) /\ Gentle(Begin, t)
                 /\ t.chart = ExecuteCommand(Begin).chart
                 /\ ~shown.fresh => t = ExecuteCommand(Begin)
                 /\ shown.fresh => FreshEffects(t)
    BY EffectsAre
  <1>2. /\ StageOk(t) /\ t.rw.seq = rw.seq /\ t.bump \in BOOLEAN
    BY <1>1 DEF Gentle, Begin, StageOk, Stages
  <1>3. /\ rw' = t.rw /\ vp' = t.vp /\ chart' = t.chart /\ focus' = t.focus /\ ref' = t.ref
        /\ page' = [dirty |-> page.dirty \/ t.bump \/ t.vp.command # vp.command,
                    fresh |-> page.fresh \/ t.bump, effects |-> FALSE,
                    bundle |-> shown.bundle, prev |-> t.prev]
    BY <1>1 DEF AfterEffects
  <1>4. shown' = [shown EXCEPT !.last = shown.market] /\ UNCHANGED <<market, events>>
    BY DEF Effects
  <1>5. page \in Pages /\ shown \in Views /\ shown.bundle \in IntRange
        /\ MarketOk(shown.market) /\ shown.market \in Markets
    BY Parts DEF ViewInv, Typed, ShownOk, Views, MarketOk
  <1>6. page' \in Pages
    BY <1>2, <1>3, <1>5 DEF Pages, StageOk, Stages
  <1>7. /\ shown' \in Views /\ shown'.last = shown.market /\ shown'.market = shown.market
        /\ shown'.bars = shown.bars /\ shown'.bundle = shown.bundle
        /\ shown'.fresh = shown.fresh
    BY <1>4, <1>5 DEF Views
  <1>8. Typed'
    <2>1. ShownOk(shown')
      BY <1>5, <1>7, Parts DEF ShownOk
    <2>2. ControllerOk(rw') /\ ViewportOk(vp', rw'.seq) /\ chart' \in Charts
          /\ focus' \in Focuses /\ ref' \in IntRange
      BY <1>2, <1>3 DEF StageOk, Stages
    <2> QED  BY <1>4, <1>6, <2>1, <2>2, Parts DEF ViewInv, Typed
  <1>9. ~page'.fresh => ~page.fresh /\ ~t.bump
    BY <1>3
  <1>10. DrawnIsCurrent'
    <2>1. (page.fresh => page.dirty)'
      BY <1>3 DEF ViewInv, DrawnIsCurrent
    <2>2. (~page.fresh => shown.market = market /\ shown.bundle = Bundle(market))'
      BY <1>4, <1>7, <1>9 DEF ViewInv, DrawnIsCurrent
    <2>3. (~page.effects \/ ~shown.fresh => shown.last = shown.market)'
      BY <1>7
    <2> QED  BY <2>1, <2>2, <2>3 DEF DrawnIsCurrent
  <1>11. t.bump \/ t.rw.foundation = rw.foundation
    BY <1>1, BeginIs, ExecuteCommandIs DEF FreshEffects, Effect, Begin
  <1>12. Foundation(shown.market) # None => t.rw.foundation # None
    <2>1. CASE shown.fresh
      BY <1>1, <2>1 DEF FreshEffects
    <2>2. CASE ~shown.fresh
      <3>1. shown.last = shown.market
        BY <2>2 DEF ViewInv, DrawnIsCurrent
      <3>2. t.rw.foundation = rw.foundation
        BY <1>1, <2>2, BeginIs, ExecuteCommandIs DEF Effect, Begin
      <3> QED  BY <3>1, <3>2 DEF ViewInv, FoundedIsFull
    <2> QED  BY <2>1, <2>2
  <1>13. FoundedIsFull'
    BY <1>3, <1>7, <1>9, <1>11, <1>12 DEF ViewInv, FoundedIsFull
  <1> QED  BY <1>2, <1>3, <1>8, <1>10, <1>13 DEF ViewInv, NoSwap

------------------------------------------------------------------------------
(* A trade that is selected while nobody moves the chart. *)

(* The focus is planned around the trade. *)
LEMMA FocusPlanHolds ==
  ASSUME NEW bars \in IntRange, NEW time \in bars.from .. bars.to
  PROVE  Holds([from |-> bars.from + FocusPlan(bars, time).from,
                to |-> bars.from + FocusPlan(bars, time).to - 1], time)
  <1> DEFINE count == Length(bars)
             index == time - bars.from
             width == Least(FocusBars, count)
             start == Between(index - width \div 2, 0, count - width)
  <1>1. bars.from \in Int /\ bars.to \in Int
    BY DEF IntRange
  <1>2. count \in Nat /\ index \in 0 .. count - 1 /\ count > 0
    BY <1>1 DEF Length
  <1>3. IndexOf(bars, time) = index
    BY <1>1, <1>2 DEF IndexOf, Between, Most, Least
  <1>4. time = bars.from + index
    BY <1>1
  <1> HIDE DEF count, index
  <1>5. width \in 1 .. count
    BY <1>2, SizesAssumption DEF Least, SizesAssumption
  <1>6. FocusPlan(bars, time) = [from |-> start, to |-> start + width]
    BY <1>3 DEF FocusPlan, Centred, count
  <1> HIDE DEF width
  <1>7. start \in Int /\ start <= index /\ index <= start + width - 1
    BY <1>2, <1>5 DEF Between, Most, Least
  <1> HIDE DEF start
  <1> QED  BY <1>1, <1>2, <1>4, <1>5, <1>6, <1>7 DEF Holds

LEMMA AloneUnderMarket ==
  ASSUME ViewInv, AloneInv, MarketMoves
  PROVE  AloneInv'
  <1>1. LeftAlone' <=> LeftAlone
    BY DEF MarketMoves, LeftAlone
  <1>2. page'.fresh /\ page'.effects = page.effects
    BY DEF ViewInv, Typed, Pages, MarketMoves, Fresh
  <1> QED  BY <1>1, <1>2 DEF AloneInv, Undisturbed, FocusOnTheWay, MarketMoves

LEMMA AloneUnderRender ==
  ASSUME ViewInv, AloneInv, Render, LeftAlone
  PROVE  Undisturbed' /\ FocusOnTheWay'
  <1>1. PICK win, drawn :
          /\ RenderedWith(Bundle(market), win, drawn)
          /\ ~page.fresh => win = rw.win /\ drawn = shown
          /\ drawn \in Views
    BY RenderIs
  <1>2. /\ shown'.command = vp.command /\ shown'.fresh = page.fresh
        /\ shown'.bars = drawn.bars
    BY <1>1 DEF RenderedWith, Views
  <1>3. /\ rw'.pointer = rw.pointer /\ rw'.wheel = rw.wheel /\ rw'.timer = rw.timer
    BY <1>1, Parts DEF RenderedWith, Controllers
  <1>4. /\ page'.effects /\ ~page.effects /\ UNCHANGED <<market, vp, focus, ref, events>>
    BY DEF Render, ViewInv, Typed, Pages
  <1>5. Undisturbed'
    BY <1>2, <1>3, <1>4 DEF AloneInv, Undisturbed
  <1>6. CASE page.fresh
    BY <1>2, <1>4, <1>5, <1>6 DEF FocusOnTheWay
  <1>7. CASE ~page.fresh
    <2>1. shown'.bars = shown.bars /\ chart' = chart
      BY <1>1, <1>2, <1>7 DEF RenderedWith
    <2>2. Seen' = Seen
      BY <2>1 DEF Seen
    <2> QED  BY <1>4, <1>5, <1>7, <2>2 DEF AloneInv, FocusOnTheWay
  <1> QED  BY <1>5, <1>6, <1>7

LEMMA AloneUnderEffects ==
  ASSUME ViewInv, AloneInv, Effects, LeftAlone
  PROVE  Undisturbed' /\ FocusOnTheWay'
  <1>1. PICK t : /\ AfterEffects(t) /\ Gentle(Begin, t)
                 /\ t.chart = ExecuteCommand(Begin).chart
                 /\ ~shown.fresh => t = ExecuteCommand(Begin)
                 /\ shown.fresh => FreshEffects(t)
    BY EffectsAre
  <1>2. /\ rw' = t.rw /\ vp' = t.vp /\ chart' = t.chart
        /\ page' = [dirty |-> page.dirty \/ t.bump \/ t.vp.command # vp.command,
                    fresh |-> page.fresh \/ t.bump, effects |-> FALSE,
                    bundle |-> shown.bundle, prev |-> t.prev]
        /\ UNCHANGED <<market, events>> /\ page.effects
        /\ shown' = [shown EXCEPT !.last = shown.market]
    BY <1>1 DEF AfterEffects, Effects
  <1>3. shown'.bars = shown.bars /\ shown \in Views
    BY <1>2, Parts DEF ShownOk, Views
  <1>4. Undisturbed'
    BY <1>1, <1>2 DEF AloneInv, Undisturbed, Gentle, Begin
  <1>5. ASSUME market.status = "ready", market.trade # None, ~page'.fresh
        PROVE  \/ vp'.command = FocusOn(market.trade) /\ page'.dirty
               \/ vp'.command \in {None, FocusOn(market.trade)} /\ Holds(Seen', market.trade)
    <2> DEFINE trade == market.trade
    <2>1. ~page.fresh /\ ~t.bump
      BY <1>2, <1>5
    <2>2. shown.market = market /\ shown.bundle = Bundle(market)
      BY <2>1 DEF ViewInv, DrawnIsCurrent
    <2>3. /\ trade \in Trades /\ trade \in Int /\ MarketOk(market)
          /\ Foundation(market) # None
      BY <1>5, Parts, FoundationIs, ViewAssumption DEF MarketOk, Markets, ViewAssumption
    <2>4. shown.command = vp.command /\ market.cover = FocusWindow(trade)
      BY <1>2 DEF AloneInv, Undisturbed
    <2>5. /\ shown.bundle = FocusWindow(trade) /\ shown.bundle # NoBars
      BY <1>5, <2>2, <2>3, <2>4, BundleIs DEF Bundle
    <2>6. t.rw.foundation = rw.foundation
      BY <1>1, <2>1, BeginIs, ExecuteCommandIs DEF FreshEffects, Effect, Begin
    <2>7. rw.foundation # None
      <3>1. CASE shown.fresh
        BY <1>1, <2>2, <2>3, <2>6, <3>1 DEF FreshEffects
      <3>2. CASE ~shown.fresh
        BY <2>2, <2>3, <3>2 DEF ViewInv, DrawnIsCurrent, FoundedIsFull
      <3> QED  BY <3>1, <3>2
    <2>8. Length(shown.bars) = Full
      BY <2>1, <2>5, <2>7 DEF ViewInv, FoundedIsFull
    <2>9. shown.bars # NoBars /\ shown.bars \in IntRange
      BY <1>3, <2>8, FullBounds DEF NoBars, Length, Views
    <2>10. shown.bars = FocusWindow(trade) /\ Holds(shown.bars, trade)
      <3>1. /\ FocusWindow(trade) \in IntRange /\ Length(FocusWindow(trade)) = Full
            /\ Holds(FocusWindow(trade), trade)
        BY <1>5, <2>3, FocusIsFull
      <3>2. Within(shown.bars, FocusWindow(trade))
        BY <2>5, <2>9, Parts DEF ShownOk
      <3>3. shown.bars = FocusWindow(trade)
        BY <2>8, <2>9, <3>1, <3>2, FullBounds DEF IntRange, Length, Within
      <3> QED  BY <3>1, <3>3
    <2>11. TradeReady
      BY <1>5, <2>2, <2>3, <2>10 DEF TradeReady
    <2>12. ASSUME shown.command = FocusOn(trade)  PROVE Holds(Seen', trade)
      <3>1. shown.command \in FocusCommands /\ shown.command.time = trade
        BY <2>3, <2>12 DEF FocusOn, FocusCommands
      <3>2. chart'.visible = FocusPlan(shown.bars, trade)
        BY <1>1, <1>2, <2>9, <3>1, BeginIs, ExecuteCommandIs
      <3>3. trade \in shown.bars.from .. shown.bars.to
        BY <2>10 DEF Holds
      <3>4. Holds([from |-> shown.bars.from + FocusPlan(shown.bars, trade).from,
                   to |-> shown.bars.from + FocusPlan(shown.bars, trade).to - 1], trade)
        BY <2>9, <3>3, FocusPlanHolds
      <3> QED  BY <1>3, <3>2, <3>4 DEF Seen
    <2>13. CASE shown.fresh
      <3>1. vp'.command = FocusOn(trade)
        BY <1>1, <1>2, <2>1, <2>2, <2>11, <2>13 DEF FreshEffects
      <3>2. CASE vp.command = FocusOn(trade)
        BY <2>4, <2>12, <3>1, <3>2
      <3>3. CASE vp.command # FocusOn(trade)
        BY <1>2, <3>1, <3>3
      <3> QED  BY <3>2, <3>3
    <2>14. CASE ~shown.fresh
      <3>1. t = ExecuteCommand(Begin)
        BY <1>1, <2>14
      <3>2. CASE vp.command = FocusOn(trade)
        <4>1. shown.command # None
          BY <2>3, <2>4, <3>2, ViewAssumption DEF FocusOn, ViewAssumption
        <4>2. vp'.command = None
          BY <1>2, <2>9, <3>1, <4>1, BeginIs, ExecuteCommandIs
        <4> QED  BY <2>4, <2>12, <3>2, <4>2
      <3>3. CASE vp.command # FocusOn(trade)
        <4>1. vp.command = None /\ Holds(Seen, trade)
          BY <1>5, <2>1, <2>14, <3>3 DEF AloneInv, FocusOnTheWay
        <4>2. t = Begin
          BY <2>4, <3>1, <4>1, BeginIs, ExecuteCommandIs
        <4>3. vp' = vp /\ chart' = chart
          BY <1>2, <4>2 DEF Begin
        <4>4. Seen' = Seen
          BY <1>3, <4>3 DEF Seen
        <4> QED  BY <4>1, <4>3, <4>4
      <3> QED  BY <3>2, <3>3
    <2> QED  BY <2>13, <2>14
  <1>6. FocusOnTheWay'
    BY <1>2, <1>5 DEF FocusOnTheWay
  <1> QED  BY <1>4, <1>6

LEMMA AloneUnderApplyingEnds ==
  ASSUME ViewInv, AloneInv, ApplyingEnds, LeftAlone
  PROVE  Undisturbed' /\ FocusOnTheWay'
  <1>1. /\ rw'.pointer = rw.pointer /\ rw'.wheel = rw.wheel /\ rw'.timer = rw.timer
        /\ chart'.visible = chart.visible /\ UNCHANGED <<market, vp, shown, page>>
    BY Parts DEF ApplyingEnds, Controllers, Charts
  <1>2. Seen' = Seen
    BY <1>1 DEF Seen
  <1> QED  BY <1>1, <1>2 DEF AloneInv, Undisturbed, FocusOnTheWay

------------------------------------------------------------------------------
(* Every step. *)

LEMMA InitView == Init => ViewInv /\ AloneInv
  <1> SUFFICES ASSUME Init  PROVE ViewInv /\ AloneInv
    OBVIOUS
  <1> USE DEF Init
  <1>1. /\ FocusWindow(None) \in IntRange /\ InReport(FocusWindow(None))
        /\ NoBars \in IntRange /\ InReport(NoBars)
    BY FocusIsFull, ViewAssumption DEF NoBars, IntRange, InReport, ViewAssumption
  <1>2. MarketOk(market) /\ market.status = "loading" /\ market.trade = None
        /\ market.cover = FocusWindow(None)
    BY <1>1 DEF NewMarket, MarketOk, Markets, Statuses, Within, IntRange
  <1>3. WindowOk(HeadWindow(0))
    <2>1. IsWindow(HeadWindow(0), 0)
      BY WindowAtIsWindow, SizeOfBounds DEF HeadWindow
    <2>2. 0 \in 0 .. LastBar
      BY ViewAssumption DEF ViewAssumption
    <2> QED  BY <2>1, <2>2, IsWindowFits
  <1>4. ControllerOk(rw)
    BY <1>3 DEF ControllerOk, Controllers, WindowOk, States, Foundations
  <1>5. ViewportOk(vp, rw.seq)
    BY DEF ViewportOk, Viewports, Commands
  <1>6. ShownOk(shown)
    BY <1>1, <1>2 DEF ShownOk, Views, MarketOk, Commands
  <1>7. /\ focus \in Focuses /\ ref \in IntRange /\ chart \in Charts /\ page \in Pages
        /\ events \in [allowed : SUBSET Kinds, left : Nat]
    BY <1>1, ViewAssumption DEF Focuses, Charts, Pages, IntRange, ViewAssumption
  <1>8. Typed
    BY <1>2, <1>4, <1>5, <1>6, <1>7 DEF Typed
  <1>9. DrawnIsCurrent
    BY DEF DrawnIsCurrent
  <1>10. FoundedIsFull
    BY <1>2, FoundationIs DEF FoundedIsFull
  <1>11. AloneInv
    BY <1>2 DEF AloneInv, Undisturbed, FocusOnTheWay
  <1> QED  BY <1>8, <1>9, <1>10, <1>11 DEF ViewInv

LEMMA NextKeepsView ==
  ASSUME ViewInv, AloneInv, [Next]_vars
  PROVE  ViewInv' /\ AloneInv' /\ (NoSwap \/ UNCHANGED vars)
  <1>1. ASSUME MarketMoves  PROVE ViewInv' /\ AloneInv' /\ NoSwap
    BY <1>1, MarketMovesOutside, OutsideKeepsView, AloneUnderMarket
  <1>2. ASSUME NEW kind, Event(kind), kind \in {"pointer", "keyboard", "wheel", "move"}
        PROVE  ~LeftAlone'
    <2>1. events'.allowed = events.allowed /\ kind \in events.allowed
      BY <1>2, EventIs DEF ViewInv
    <2> QED  BY <1>2, <2>1 DEF LeftAlone
  <1>3. CASE SelectTrade
    BY <1>1, <1>3, SelectTradeMoves
  <1>4. CASE SwitchRun
    BY <1>1, <1>4, SwitchRunMoves
  <1>5. CASE MarketArrives
    BY <1>1, <1>5, MarketArrivesMoves
  <1>6. CASE MarketFails
    BY <1>1, <1>6, MarketFailsMoves
  <1>7. CASE OverlaysArrive
    BY <1>1, <1>7, OverlaysArriveMoves
  <1>8. CASE PointerDown
    <2>1. ~LeftAlone'
      BY <1>2, <1>8 DEF PointerDown
    <2> QED  BY <1>8, <2>1, PointerDownOutside, OutsideKeepsView DEF AloneInv
  <1>9. CASE KeyboardPan
    <2>1. ~LeftAlone'
      BY <1>2, <1>9 DEF KeyboardPan
    <2> QED  BY <1>9, <2>1, KeyboardPanOutside, OutsideKeepsView DEF AloneInv
  <1>10. CASE Wheel
    <2>1. ~LeftAlone'
      BY <1>2, <1>10 DEF Wheel
    <2> QED  BY <1>10, <2>1, WheelOutside, OutsideKeepsView DEF AloneInv
  <1>11. CASE Move
    <2>1. ~LeftAlone'
      BY <1>2, <1>11 DEF Move
    <2> QED  BY <1>11, <2>1, MoveOutside, OutsideKeepsView DEF AloneInv
  <1>12. CASE PointerUp
    <2>1. ~LeftAlone'
      BY <1>12 DEF PointerUp, AloneInv, Undisturbed, LeftAlone
    <2> QED  BY <1>12, <2>1, PointerUpOutside, OutsideKeepsView DEF AloneInv
  <1>13. CASE WheelEnds
    <2>1. ~LeftAlone'
      BY <1>13 DEF WheelEnds, AloneInv, Undisturbed, LeftAlone
    <2> QED  BY <1>13, <2>1, WheelEndsOutside, OutsideKeepsView DEF AloneInv
  <1>14. CASE IdleTimer
    <2>1. ~LeftAlone'
      BY <1>14 DEF IdleTimer, AloneInv, Undisturbed, LeftAlone
    <2> QED  BY <1>14, <2>1, IdleTimerOutside, OutsideKeepsView DEF AloneInv
  <1>15. CASE ApplyingEnds
    <2>1. AloneInv'
      <3>1. LeftAlone' <=> LeftAlone
        BY <1>15 DEF ApplyingEnds, LeftAlone
      <3> QED  BY <1>15, <3>1, AloneUnderApplyingEnds DEF AloneInv
    <2> QED  BY <1>15, <2>1, ApplyingEndsOutside, OutsideKeepsView
  <1>16. CASE Render
    <2>1. LeftAlone' <=> LeftAlone
      BY <1>16 DEF Render, LeftAlone
    <2> QED  BY <1>16, <2>1, RenderKeepsView, AloneUnderRender DEF AloneInv
  <1>17. CASE Effects
    <2>1. LeftAlone' <=> LeftAlone
      BY <1>17 DEF Effects, LeftAlone
    <2> QED  BY <1>17, <2>1, EffectsKeepView, AloneUnderEffects DEF AloneInv
  <1>18. CASE UNCHANGED vars
    <2>1. ViewInv'
      BY <1>18 DEF vars, ViewInv, Typed, DrawnIsCurrent, FoundedIsFull
    <2>2. AloneInv'
      BY <1>18 DEF vars, AloneInv, LeftAlone, Undisturbed, FocusOnTheWay, Seen
    <2> QED  BY <1>18, <2>1, <2>2
  <1> QED  BY <1>3, <1>4, <1>5, <1>6, <1>7, <1>8, <1>9, <1>10, <1>11, <1>12, <1>13, <1>14,
              <1>15, <1>16, <1>17, <1>18 DEF Next, Machine, User

LEMMA SpecKeepsView == Spec => [](ViewInv /\ AloneInv)
  <1>1. Init => ViewInv /\ AloneInv
    BY InitView
  <1>2. ViewInv /\ AloneInv /\ [Next]_vars => (ViewInv /\ AloneInv)'
    BY NextKeepsView
  <1> QED  BY <1>1, <1>2, PTL DEF Spec

LEMMA ViewIsDrawn == ViewInv => DrawnFromBundle
  <1> SUFFICES ASSUME ViewInv  PROVE DrawnFromBundle
    OBVIOUS
  <1>1. TypeOK
    BY Parts DEF TypeOK, ControllerOk, Controllers, WindowOk, Windows, ViewportOk, Viewports,
                 MarketOk, Markets, Statuses
  <1>2. shown.bars # NoBars => Within(shown.bars, shown.bundle) /\ Length(shown.bars) <= WindowSize
    BY Parts DEF ShownOk
  <1>3. ASSUME Quiet, market.status = "ready"
        PROVE  Length(shown.bars) = SizeOf(Length(shown.bundle))
    <2>1. ~page.fresh /\ shown.market = market /\ shown.bundle = Bundle(market)
          /\ shown.last = market
      BY <1>3 DEF Quiet, ViewInv, DrawnIsCurrent
    <2>2. MarketOk(market) /\ Foundation(market) # None
      BY <1>3, Parts, FoundationIs
    <2>3. shown.bundle # NoBars /\ Length(shown.bundle) \in Full .. LastBar
      BY <1>3, <2>1, <2>2, BundleIs
    <2>4. Length(shown.bars) = Full
      BY <2>1, <2>2, <2>3 DEF ViewInv, FoundedIsFull
    <2> QED  BY <2>3, <2>4, FullBounds
  <1> QED  BY <1>1, <1>2, <1>3 DEF DrawnFromBundle

LEMMA AloneIsInView == ViewInv /\ AloneInv => TradeInView
  <1> SUFFICES ASSUME ViewInv, AloneInv, LeftAlone, Quiet, market.status = "ready",
                      market.trade # None
               PROVE  Holds(Seen, market.trade)
    BY DEF TradeInView
  <1>1. ~page.fresh /\ ~page.dirty /\ ~page.effects
    BY DEF Quiet, ViewInv, DrawnIsCurrent
  <1> QED  BY <1>1 DEF AloneInv, FocusOnTheWay

(* What is drawn is of the bundle it was drawn from, never more than a      *)
(* window of it, and as wide as it can be once everything has come to rest *)
(* with the market data there: however the user pans, selects and changes   *)
(* runs, and however renders, effects and timers come between.             *)
THEOREM OnlyTheBundleIsDrawn == Spec => []DrawnFromBundle
  <1>1. ViewInv /\ AloneInv => DrawnFromBundle
    BY ViewIsDrawn
  <1> QED  BY <1>1, SpecKeepsView, PTL

(* No step commits a shift of the render window while the pointer is down  *)
(* before and after it: neither the idle timer nor any effect.             *)
THEOREM NeverSwappedUnderADrag == Spec => NoSwapWhileDragging
  <1>1. ViewInv /\ AloneInv /\ [Next]_vars => [NoSwap]_vars
    BY NextKeepsView DEF vars
  <1>2. [NoSwap]_vars => [rw.pointer /\ rw'.pointer => rw'.seq = rw.seq]_vars
    BY DEF NoSwap
  <1> QED  BY <1>1, <1>2, SpecKeepsView, PTL DEF Spec, NoSwapWhileDragging

(* A trade selected while nobody moves the chart is in view when all is    *)
(* done, whatever order its market data, renders, effects and further      *)
(* selections come in: its focus is executed on the bars that are drawn.   *)
THEOREM SelectedTradeComesIntoView == Spec => []TradeInView
  <1>1. ViewInv /\ AloneInv => TradeInView
    BY AloneIsInView
  <1> QED  BY <1>1, SpecKeepsView, PTL

(***************************************************************************)
(* The trades of the variant shown: the table, the number field and the    *)
(* canvas of TradeReview.                                                  *)
(***************************************************************************)

\* A nonempty set of naturals has a least element.
LEMMA LeastIsThere ==
  ASSUME NEW I \in SUBSET Nat, I # {}
  PROVE  \E n \in I : \A m \in I : n <= m
<1> DEFINE Below == {ss \in Nat \X Nat : ss[1] < ss[2]}
<1>1. IsWellFoundedOn(Below, Nat)
  BY NatLessThanWellFounded DEF OpToRel
<1> HIDE DEF Below
<1>2. PICK n \in I : \A m \in I : ~ (<<m, n>> \in Below)
  BY <1>1, WFMin
<1>3. \A m \in I : ~ (m < n)
  BY <1>2 DEF Below
<1>4. QED BY <1>3

\* A nonempty set of numbers up to n has a greatest element.
LEMMA GreatestIsThere ==
  ASSUME NEW n \in Nat, NEW s \in SUBSET (1 .. n), s # {}
  PROVE  \E u \in s : \A m \in s : u >= m
<1>1. PICK I : I = {u \in 1 .. n : \A m \in s : m <= u}
  OBVIOUS
<1>2. PICK a \in s : a \in 1 .. n
  OBVIOUS
<1>3. n \in I
  BY <1>1, <1>2
<1>4. PICK u \in I : \A v \in I : u <= v
  <2>1. I \in SUBSET Nat /\ I # {}
    BY <1>1, <1>3
  <2>2. QED BY <2>1, LeastIsThere
<1>5. CASE u \in s
  BY <1>1, <1>4, <1>5
<1>6. CASE u \notin s
  <2>1. \A m \in s : m \in 1 .. n /\ m <= u - 1
    BY <1>1, <1>4, <1>6
  <2>2. u - 1 \in 1 .. n
    <3>1. a <= u - 1 /\ u \in 1 .. n
      BY <1>1, <1>4, <2>1
    <3>2. QED BY <1>2, <3>1
  <2>3. u - 1 \in I
    BY <1>1, <2>1, <2>2
  <2>4. u <= u - 1
    BY <1>4, <2>3
  <2>5. QED BY <1>1, <1>4, <2>4
<1>7. QED BY <1>5, <1>6

(* ---- places and numbers of trades ------------------------------------- *)
LEMMA TradesAre ==
  ASSUME NEW v \in DOMAIN Variants, NEW ts, ts = Variants[v].trades
  PROVE  /\ Len(ts) \in Nat /\ DOMAIN ts = 1 .. Len(ts)
         /\ \A i \in DOMAIN ts : ts[i].id \in Nat \ {NoTrade}
         /\ \A i, j \in DOMAIN ts : ts[i].id = ts[j].id => i = j
<1>1. ts \in Seq(ToSet(ts))
  BY ReviewAssumption DEF IsList
<1>2. QED BY <1>1, ReviewAssumption

LEMMA PlaceIs ==
  ASSUME NEW v \in DOMAIN Variants, NEW ts, ts = Variants[v].trades
  PROVE  /\ \A i \in DOMAIN ts : Position(ts, ts[i].id) = i /\ InVariant(ts, ts[i].id)
         /\ \A id : InVariant(ts, id) =>
              Position(ts, id) \in DOMAIN ts /\ ts[Position(ts, id)].id = id
         /\ \A id : ~InVariant(ts, id) => Position(ts, id) = 0
<1>1. /\ Len(ts) \in Nat /\ DOMAIN ts = 1 .. Len(ts)
      /\ \A i, j \in DOMAIN ts : ts[i].id = ts[j].id => i = j
  BY TradesAre
<1>2. ASSUME NEW i \in DOMAIN ts PROVE Position(ts, ts[i].id) = i
  <2>1. {k \in 1 .. Len(ts) : ts[k].id = ts[i].id} = {i}
    BY <1>1
  <2>2. Position(ts, ts[i].id) = Min({i})
    BY <2>1 DEF Position, SelectInSeq
  <2>3. Min({i}) = i
    BY <1>1 DEF Min
  <2>4. QED BY <2>2, <2>3
<1>3. ASSUME NEW id, \A i \in DOMAIN ts : ts[i].id # id PROVE Position(ts, id) = 0
  <2>1. {k \in 1 .. Len(ts) : ts[k].id = id} = {}
    BY <1>1, <1>3
  <2>2. QED BY <2>1 DEF Position, SelectInSeq
<1>4. \A i \in DOMAIN ts : InVariant(ts, ts[i].id)
  BY <1>1, <1>2 DEF InVariant
<1>5. ASSUME NEW id, InVariant(ts, id)
      PROVE  Position(ts, id) \in DOMAIN ts /\ ts[Position(ts, id)].id = id
  <2>1. PICK i \in DOMAIN ts : ts[i].id = id
    BY <1>3, <1>5 DEF InVariant
  <2>2. QED BY <1>2, <2>1
<1>6. ASSUME NEW id, ~InVariant(ts, id) PROVE Position(ts, id) = 0
  <2>1. \A i \in DOMAIN ts : ts[i].id # id
    BY <1>4, <1>6
  <2>2. QED BY <1>3, <2>1
<1>7. QED BY <1>2, <1>4, <1>5, <1>6

LEMMA LastIsClosed ==
  ASSUME NEW v \in DOMAIN Variants, NEW ts, ts = Variants[v].trades
  PROVE  LastClosed(ts) = NoTrade \/ \E i \in DOMAIN ts : LastClosed(ts) = ts[i].id
<1>1. Len(ts) \in Nat /\ DOMAIN ts = 1 .. Len(ts)
  BY TradesAre
<1>2. PICK I : I = {i \in 1 .. Len(ts) : ts[i].closed}
  OBVIOUS
<1>3. PICK last : last = SelectLastInSeq(ts, LAMBDA t : t.closed)
  OBVIOUS
<1>4. last = IF I # {} THEN Max(I) ELSE 0
  BY <1>2, <1>3 DEF SelectLastInSeq
<1>5. LastClosed(ts) = IF last = 0 THEN NoTrade ELSE ts[last].id
  BY <1>3 DEF LastClosed
<1>6. CASE I = {}
  BY <1>4, <1>5, <1>6
<1>7. CASE I # {}
  <2>1. \E u \in I : \A m \in I : u >= m
    BY <1>1, <1>2, <1>7, GreatestIsThere
  <2>2. Max(I) \in I
    BY <2>1 DEF Max
  <2>3. last \in 1 .. Len(ts)
    BY <1>2, <1>4, <1>7, <2>2
  <2>4. QED BY <1>1, <1>5, <2>3
<1>8. QED BY <1>6, <1>7

(* ---- the parts of the invariant --------------------------------------- *)
FilterValues == {"all"} \union {chip[2] : chip \in Chips}
CompPlaces == UNION {DOMAIN Variants[v].comps : v \in DOMAIN Variants}
UiStates == [tab : {"chart", "reports", "composer"}, variant : DOMAIN Variants, sel : Nat,
             win : ViewWindows, comps : SUBSET CompPlaces, layers : SUBSET Layers,
             filters : [Filters -> FilterValues]]
UiOk(s) ==
  /\ s \in UiStates
  /\ s.sel = NoTrade \/ InVariant(TradesOf(s), s.sel)
  /\ s.comps \subseteq DOMAIN Variants[s.variant].comps
NavStates == [draft : Nat, editing : BOOLEAN]

\* The field, when it is not edited, has the place of the selection.
FieldOk ==
  Mounted(ui) /\ ui.sel # NoTrade /\ ~nav.editing
    => nav.draft = Position(TradesOf(ui), ui.sel)

\* What is painted is of what is shown, or not painted yet.
CanvasOk ==
  /\ canvas.candles \in ViewWindows
  /\ canvas.lines = IF Mounted(ui) THEN LinesOf(ui) ELSE {}
  /\ ui.win # NoCandles =>
       /\ canvas.marks \in {{}, Marks(ui)}
       /\ Mounted(ui) /\ canvas.candles = ui.win => canvas.marks = Marks(ui)

ReviewInv == UiOk(ui) /\ nav \in NavStates /\ FieldOk /\ CanvasOk

\* Markers and lines depend on nothing but what their effects depend on.
LEMMA MarksFollowDeps ==
  ASSUME NEW s, NEW t, s.variant = t.variant, s.sel = t.sel, s.win = t.win, s.comps = t.comps,
         s.layers = t.layers
  PROVE  Marks(s) = Marks(t)
<1>1. TradesOf(s) = TradesOf(t)
  BY DEF TradesOf
<1>2. TradeMarksForView(s) = TradeMarksForView(t)
  BY <1>1 DEF TradeMarksForView, TradeMarks
<1>3. ComponentMarks(s) = ComponentMarks(t)
  BY DEF ComponentMarks
<1>4. InView(s) = InView(t)
  BY DEF InView
<1>5. EventMarks(s) = EventMarks(t)
  BY <1>1, <1>4 DEF EventMarks
<1>6. QED BY <1>2, <1>3, <1>5 DEF Marks

LEMMA LinesFollowSelection ==
  ASSUME NEW s, NEW t, s.variant = t.variant, s.sel = t.sel
  PROVE  LinesOf(s) = LinesOf(t)
<1>1. TradesOf(s) = TradesOf(t)
  BY DEF TradesOf
<1>2. QED BY <1>1 DEF LinesOf

\* Other filters change nothing that is painted.
LEMMA FilteredIs ==
  ASSUME NEW t, UiOk(t), NEW f \in [Filters -> FilterValues], NEW u, u = [t EXCEPT !.filters = f]
  PROVE  /\ UiOk(u) /\ u.tab = t.tab /\ u.variant = t.variant /\ u.sel = t.sel /\ u.win = t.win
         /\ u.comps = t.comps /\ u.layers = t.layers
         /\ Mounted(u) = Mounted(t) /\ TradesOf(u) = TradesOf(t)
         /\ Marks(u) = Marks(t) /\ LinesOf(u) = LinesOf(t)
<1>1. t \in UiStates
  BY DEF UiOk
<1>2. /\ u.tab = t.tab /\ u.variant = t.variant /\ u.sel = t.sel /\ u.win = t.win
      /\ u.comps = t.comps /\ u.layers = t.layers /\ u \in UiStates
  BY <1>1 DEF UiStates
<1>3. TradesOf(u) = TradesOf(t) /\ Mounted(u) = Mounted(t)
  BY <1>2 DEF TradesOf, Mounted
<1>4. UiOk(u)
  BY <1>2, <1>3 DEF UiOk
<1>5. QED BY <1>2, <1>3, <1>4, MarksFollowDeps, LinesFollowSelection

LEMMA RefreshedIs ==
  ASSUME NEW t, UiOk(t), t.sel # NoTrade
  PROVE  /\ Refreshed(t) \in NavStates
         /\ Refreshed(t).draft = Position(TradesOf(t), t.sel)
<1>1. /\ t.variant \in DOMAIN Variants /\ InVariant(TradesOf(t), t.sel)
      /\ TradesOf(t) = Variants[t.variant].trades
  BY DEF UiOk, UiStates, TradesOf
<1>2. Position(TradesOf(t), t.sel) \in DOMAIN TradesOf(t) /\ DOMAIN TradesOf(t) \subseteq Nat
  BY <1>1, PlaceIs, TradesAre
<1>3. Format(t) = Position(TradesOf(t), t.sel)
  BY <1>1 DEF Format, Number
<1>4. Refreshed(t) = [draft |-> Format(t), editing |-> FALSE]
  BY DEF Refreshed
<1>5. QED BY <1>2, <1>3, <1>4 DEF NavStates

\* A chart that is mounted has its lines, and no markers yet.
LEMMA MountKeeps ==
  ASSUME NEW t, UiOk(t), NEW f \in [Filters -> FilterValues], ui' = [t EXCEPT !.filters = f],
         Mount(t)
  PROVE  ReviewInv'
<1>1. PICK u : u = [t EXCEPT !.filters = f]
  OBVIOUS
<1>2. /\ UiOk(u) /\ u.sel = t.sel /\ u.win = t.win /\ Mounted(u) = Mounted(t)
      /\ TradesOf(u) = TradesOf(t) /\ LinesOf(u) = LinesOf(t)
  BY <1>1, FilteredIs
<1>3. ui' = u
  BY <1>1
<1>4. /\ nav' = IF Mounted(t) /\ t.sel # NoTrade THEN Refreshed(t) ELSE Unmounted
      /\ canvas' = IF Mounted(t) THEN [NoCanvas EXCEPT !.lines = LinesOf(t)] ELSE NoCanvas
  BY DEF Mount
<1>5. nav' \in NavStates /\ FieldOk'
  <2>1. CASE Mounted(t) /\ t.sel # NoTrade
    BY <1>2, <1>3, <1>4, <2>1, RefreshedIs DEF FieldOk
  <2>2. CASE ~(Mounted(t) /\ t.sel # NoTrade)
    BY <1>2, <1>3, <1>4, <2>2 DEF FieldOk, Unmounted, NavStates, Blank
  <2>3. QED BY <2>1, <2>2
<1>6. CanvasOk'
  <2>1. canvas'.candles = NoCandles /\ canvas'.marks = {}
        /\ canvas'.lines = IF Mounted(t) THEN LinesOf(t) ELSE {}
    BY <1>4 DEF NoCanvas
  <2>2. NoCandles \in ViewWindows
    BY ReviewAssumption
  <2>3. QED BY <1>2, <1>3, <2>1, <2>2 DEF CanvasOk
<1>7. UiOk(ui')
  BY <1>2, <1>3
<1>8. QED BY <1>5, <1>6, <1>7 DEF ReviewInv

LEMMA UpdateKeeps ==
  ASSUME ReviewInv, NEW t, UiOk(t), NEW n \in NavStates,
         NEW f \in [Filters -> FilterValues], ui' = [t EXCEPT !.filters = f],
         Mounted(ui), Mounted(t), Update(t, n)
  PROVE  ReviewInv'
<1>1. PICK u : u = [t EXCEPT !.filters = f]
  OBVIOUS
<1>2. /\ UiOk(u) /\ u.sel = t.sel /\ u.win = t.win /\ Mounted(u) = Mounted(t)
      /\ TradesOf(u) = TradesOf(t) /\ LinesOf(u) = LinesOf(t) /\ Marks(u) = Marks(t)
  BY <1>1, FilteredIs
<1>3. ui' = u
  BY <1>1
<1>4. /\ nav' = NavEffect(n, ui, t) /\ canvas'.candles = PaintCandles(ui, t)
      /\ canvas'.marks = PaintMarks(ui, t) /\ canvas'.lines = PaintLines(ui, t)
  BY DEF Update
<1>5. nav' \in NavStates /\ FieldOk'
  <2>1. CASE t.sel = NoTrade
    BY <1>2, <1>3, <1>4, <2>1 DEF FieldOk, NavEffect, Unmounted, NavStates, Blank
  <2>2. CASE t.sel # NoTrade /\ (ui.sel = NoTrade \/ ~n.editing)
    <3>1. nav' = Refreshed(t)
      BY <1>4, <2>2 DEF NavEffect
    <3>2. QED BY <1>2, <1>3, <2>2, <3>1, RefreshedIs DEF FieldOk
  <2>3. CASE t.sel # NoTrade /\ ~(ui.sel = NoTrade \/ ~n.editing)
    BY <1>4, <2>3 DEF NavEffect, FieldOk
  <2>4. QED BY <2>1, <2>2, <2>3
<1>6. CanvasOk'
  <2>1. /\ canvas.candles \in ViewWindows /\ canvas.lines = LinesOf(ui)
        /\ ui.win # NoCandles =>
             /\ canvas.marks \in {{}, Marks(ui)}
             /\ canvas.candles = ui.win => canvas.marks = Marks(ui)
    BY DEF ReviewInv, CanvasOk
  <2>2. canvas'.lines = LinesOf(t)
    <3>1. CASE ui.variant = t.variant /\ ui.sel = t.sel
      BY <1>4, <2>1, <3>1, LinesFollowSelection DEF PaintLines
    <3>2. CASE ~(ui.variant = t.variant /\ ui.sel = t.sel)
      BY <1>4, <3>2 DEF PaintLines
    <3>3. QED BY <3>1, <3>2
  <2>3. canvas'.candles \in ViewWindows
    <3>1. t.win \in ViewWindows
      BY DEF UiOk, UiStates
    <3>2. QED BY <1>4, <2>1, <3>1 DEF PaintCandles
  <2>4. ASSUME t.win # NoCandles
        PROVE  /\ canvas'.marks \in {{}, Marks(t)}
               /\ canvas'.candles = t.win => canvas'.marks = Marks(t)
    <3>1. CASE MarkerDeps(ui) = MarkerDeps(t)
      <4>1. /\ ui.variant = t.variant /\ ui.sel = t.sel /\ ui.win = t.win
            /\ ui.comps = t.comps /\ ui.layers = t.layers
        BY <3>1 DEF MarkerDeps
      <4>2. Marks(ui) = Marks(t)
        BY <4>1, MarksFollowDeps
      <4>3. canvas'.marks = canvas.marks /\ canvas'.candles = canvas.candles
        BY <1>4, <3>1, <4>1 DEF PaintMarks, PaintCandles
      <4>4. QED BY <2>1, <2>4, <4>1, <4>2, <4>3
    <3>2. CASE MarkerDeps(ui) # MarkerDeps(t)
      BY <1>4, <2>4, <3>2 DEF PaintMarks
    <3>3. QED BY <3>1, <3>2
  <2>5. QED BY <1>2, <1>3, <2>2, <2>3, <2>4 DEF CanvasOk
<1>7. UiOk(ui')
  BY <1>2, <1>3
<1>8. QED BY <1>5, <1>6, <1>7 DEF ReviewInv

\* Whatever the effects of an event make of the field and the canvas keeps it.
LEMMA BecomesKeeps ==
  ASSUME ReviewInv, NEW t, UiOk(t), NEW n \in NavStates, Becomes(t, n)
  PROVE  ReviewInv'
<1>1. PICK f : f = IF t.tab = "reports" THEN t.filters ELSE AllFilters
  OBVIOUS
<1>2. f \in [Filters -> FilterValues]
  BY <1>1 DEF UiOk, UiStates, AllFilters, FilterValues
<1>3. ui' = [t EXCEPT !.filters = f]
  BY <1>1 DEF Becomes, UiOk, UiStates
<1>4. IF Mounted(ui) /\ Mounted(t) THEN Update(t, n) ELSE Mount(t)
  BY DEF Becomes
<1>5. CASE Mounted(ui) /\ Mounted(t)
  BY <1>2, <1>3, <1>4, <1>5, UpdateKeeps
<1>6. CASE ~(Mounted(ui) /\ Mounted(t))
  BY <1>2, <1>3, <1>4, <1>6, MountKeeps
<1>7. QED BY <1>5, <1>6

\* A selection is a trade of the variant, whatever id was asked for.
LEMMA KnownIs ==
  ASSUME NEW s, s.variant \in DOMAIN Variants, NEW id \in Nat
  PROVE  Known(s, id) \in Nat /\ (Known(s, id) = NoTrade \/ InVariant(TradesOf(s), Known(s, id)))
<1>1. PICK ts : ts = TradesOf(s)
  OBVIOUS
<1>2. ts = Variants[s.variant].trades
  BY <1>1 DEF TradesOf
<1>3. LastClosed(ts) = NoTrade \/ \E i \in DOMAIN ts : LastClosed(ts) = ts[i].id
  BY <1>2, LastIsClosed
<1>4. \A i \in DOMAIN ts : ts[i].id \in Nat
  BY <1>2, TradesAre
<1>5. \A i \in DOMAIN ts : InVariant(ts, ts[i].id)
  BY <1>2, PlaceIs
<1>6. LastClosed(ts) \in Nat /\ (LastClosed(ts) = NoTrade \/ InVariant(ts, LastClosed(ts)))
  BY <1>3, <1>4, <1>5 DEF NoTrade
<1>7. Known(s, id) = IF id = NoTrade \/ InVariant(ts, id) THEN id ELSE LastClosed(ts)
  BY <1>1 DEF Known
<1>8. QED BY <1>1, <1>6, <1>7

LEMMA SelectIs ==
  ASSUME NEW s, UiOk(s), NEW id \in Nat, NEW t, t = Select(s, id)
  PROVE  UiOk(t)
<1>1. s \in UiStates /\ s.variant \in DOMAIN Variants
      /\ s.comps \subseteq DOMAIN Variants[s.variant].comps
  BY DEF UiOk, UiStates
<1>2. PICK sel : sel = Known(s, id)
  OBVIOUS
<1>3. sel \in Nat /\ (sel = NoTrade \/ InVariant(TradesOf(s), sel))
  BY <1>1, <1>2, KnownIs
<1>4. PICK layers : layers = IF id # NoTrade /\ HasEvents(s, id)
                             THEN s.layers \union {"phases", "exits"} ELSE s.layers
  OBVIOUS
<1>5. layers \in SUBSET Layers
  BY <1>1, <1>4 DEF UiStates, Layers
<1>6. t = [s EXCEPT !.sel = sel, !.layers = layers]
  BY <1>1, <1>2, <1>4 DEF Select, UiStates
<1>7. t \in UiStates /\ t.sel = sel /\ t.variant = s.variant /\ t.comps = s.comps
  BY <1>1, <1>3, <1>5, <1>6 DEF UiStates
<1>8. TradesOf(t) = TradesOf(s)
  BY <1>7 DEF TradesOf
<1>9. QED BY <1>1, <1>3, <1>7, <1>8 DEF UiOk

LEMMA TabbedIs ==
  ASSUME NEW s, UiOk(s), NEW tab \in {"chart", "reports", "composer"}, NEW t,
         t = [s EXCEPT !.tab = tab]
  PROVE  UiOk(t)
<1>1. t \in UiStates /\ t.sel = s.sel /\ t.variant = s.variant /\ t.comps = s.comps
  BY DEF UiOk, UiStates
<1>2. TradesOf(t) = TradesOf(s)
  BY <1>1 DEF TradesOf
<1>3. QED BY <1>1, <1>2 DEF UiOk

(* ---- the actions ------------------------------------------------------- *)
LEMMA OpenTabKeeps ==
  ASSUME ReviewInv, NEW tab \in {"chart", "reports", "composer"}, OpenTab(tab)
  PROVE  ReviewInv'
<1>1. PICK t : t = [ui EXCEPT !.tab = tab]
  OBVIOUS
<1>2. UiOk(ui) /\ nav \in NavStates
  BY DEF ReviewInv
<1>3. UiOk(t)
  BY <1>1, <1>2, TabbedIs
<1>4. Becomes(t, nav)
  BY <1>1 DEF OpenTab
<1>5. QED BY <1>2, <1>3, <1>4, BecomesKeeps

LEMMA IdsOf ==
  ASSUME UiOk(ui)
  PROVE  /\ DOMAIN TradesOf(ui) = 1 .. Len(TradesOf(ui)) /\ Len(TradesOf(ui)) \in Nat
         /\ \A i \in DOMAIN TradesOf(ui) : TradesOf(ui)[i].id \in Nat
<1>1. ui.variant \in DOMAIN Variants /\ TradesOf(ui) = Variants[ui.variant].trades
  BY DEF UiOk, UiStates, TradesOf
<1>2. QED BY <1>1, TradesAre

LEMMA ClickRowKeeps ==
  ASSUME ReviewInv, NEW i \in Rows(ui), ClickRow(i)
  PROVE  ReviewInv'
<1>1. UiOk(ui) /\ nav \in NavStates
  BY DEF ReviewInv
<1>2. PICK id \in Nat : id = TradesOf(ui)[i].id
  BY <1>1, IdsOf DEF Rows
<1>3. PICK s : s = Select(ui, id)
  OBVIOUS
<1>4. PICK t : t = [s EXCEPT !.tab = "chart"]
  OBVIOUS
<1>5. UiOk(s)
  BY <1>1, <1>3, SelectIs
<1>6. UiOk(t)
  BY <1>4, <1>5, TabbedIs
<1>7. Becomes(t, nav)
  BY <1>2, <1>3, <1>4 DEF ClickRow
<1>8. QED BY <1>1, <1>6, <1>7, BecomesKeeps

LEMMA ChooseKeeps ==
  ASSUME ReviewInv, NEW chip \in Chips, Choose(chip)
  PROVE  ReviewInv'
<1>1. UiOk(ui) /\ nav \in NavStates /\ ui \in UiStates
  BY DEF ReviewInv, UiOk
<1>2. PICK f : f = [ui.filters EXCEPT ![chip[1]] = chip[2]]
  OBVIOUS
<1>3. f \in [Filters -> FilterValues]
  BY <1>1, <1>2 DEF UiStates, FilterValues
<1>4. PICK t : t = [ui EXCEPT !.filters = f]
  OBVIOUS
<1>5. UiOk(t)
  BY <1>1, <1>3, <1>4, FilteredIs
<1>6. Becomes(t, nav)
  BY <1>2, <1>4 DEF Choose
<1>7. QED BY <1>1, <1>5, <1>6, BecomesKeeps

LEMMA StepKeeps ==
  ASSUME ReviewInv, NEW d \in {"next", "previous"}, Step(d)
  PROVE  ReviewInv'
<1>1. UiOk(ui) /\ nav \in NavStates
  BY DEF ReviewInv
<1>2. PICK j \in DOMAIN TradesOf(ui) : Becomes(Select(ui, TradesOf(ui)[j].id), nav)
  BY DEF Step
<1>3. PICK id \in Nat : id = TradesOf(ui)[j].id
  BY <1>1, IdsOf
<1>4. PICK t : t = Select(ui, id)
  OBVIOUS
<1>5. UiOk(t)
  BY <1>1, <1>4, SelectIs
<1>6. Becomes(t, nav)
  BY <1>2, <1>3, <1>4
<1>7. QED BY <1>1, <1>5, <1>6, BecomesKeeps

LEMMA ClearKeeps ==
  ASSUME ReviewInv, Clear
  PROVE  ReviewInv'
<1>1. UiOk(ui) /\ nav \in NavStates
  BY DEF ReviewInv
<1>2. PICK t : t = Select(ui, NoTrade)
  OBVIOUS
<1>3. UiOk(t)
  <2>1. NoTrade \in Nat
    BY DEF NoTrade
  <2>2. QED BY <1>1, <1>2, <2>1, SelectIs
<1>4. Becomes(t, nav)
  BY <1>2 DEF Clear
<1>5. QED BY <1>1, <1>3, <1>4, BecomesKeeps

\* A field that is edited says what the user typed.
LEMMA EditKeeps ==
  ASSUME ReviewInv, Focus \/ \E n \in Blank .. MaxTyped : Type(n)
  PROVE  ReviewInv'
<1>1. UiOk(ui) /\ nav \in NavStates /\ CanvasOk
  BY DEF ReviewInv
<1>2. ui' = ui /\ canvas' = canvas /\ nav' \in NavStates /\ nav'.editing = TRUE
  <2>1. CASE Focus
    BY <1>1, <2>1 DEF Focus, NavStates
  <2>2. CASE \E n \in Blank .. MaxTyped : Type(n)
    <3>1. PICK n \in Nat : Type(n)
      <4>1. MaxTyped \in Nat
        BY ReviewAssumption
      <4>2. QED BY <2>2, <4>1 DEF Blank
    <3>2. QED BY <1>1, <3>1 DEF Type, NavStates
  <2>3. QED BY <2>1, <2>2
<1>3. UiOk(ui)'
  BY <1>1, <1>2
<1>4. CanvasOk'
  BY <1>1, <1>2 DEF CanvasOk
<1>5. FieldOk'
  BY <1>2 DEF FieldOk
<1>6. QED BY <1>2, <1>3, <1>4, <1>5 DEF ReviewInv

LEMMA LeaveKeeps ==
  ASSUME ReviewInv, Leave
  PROVE  ReviewInv'
<1>1. UiOk(ui) /\ nav \in NavStates
  BY DEF ReviewInv
<1>2. PICK id : id = IF nav.draft = Blank THEN ui.sel ELSE ByNumber(TradesOf(ui), nav.draft)
  OBVIOUS
<1>3. id \in Nat
  <2>1. ui.sel \in Nat /\ nav.draft \in Nat
    BY <1>1 DEF UiOk, UiStates, NavStates
  <2>2. /\ DOMAIN TradesOf(ui) = 1 .. Len(TradesOf(ui)) /\ Len(TradesOf(ui)) \in Nat
        /\ \A i \in DOMAIN TradesOf(ui) : TradesOf(ui)[i].id \in Nat
    BY <1>1, IdsOf
  <2>3. nav.draft # Blank => ByNumber(TradesOf(ui), nav.draft) \in Nat
    BY <2>1, <2>2 DEF ByNumber, Blank
  <2>4. QED BY <1>2, <2>1, <2>3
<1>4. PICK t : t = IF id = ui.sel THEN ui ELSE Select(ui, id)
  OBVIOUS
<1>5. UiOk(t)
  BY <1>1, <1>3, <1>4, SelectIs
<1>6. PICK n : n = [nav EXCEPT !.editing = FALSE]
  OBVIOUS
<1>7. n \in NavStates
  BY <1>1, <1>6 DEF NavStates
<1>8. Becomes(t, n)
  BY <1>2, <1>4, <1>6 DEF Leave
<1>9. QED BY <1>5, <1>7, <1>8, BecomesKeeps

LEMMA ToggleKeeps ==
  ASSUME ReviewInv, NEW layer \in Layers, Toggle(layer)
  PROVE  ReviewInv'
<1>1. UiOk(ui) /\ nav \in NavStates /\ ui \in UiStates
  BY DEF ReviewInv, UiOk
<1>2. PICK ls : ls = IF layer \in ui.layers THEN ui.layers \ {layer} ELSE ui.layers \union {layer}
  OBVIOUS
<1>3. PICK t : t = [ui EXCEPT !.layers = ls]
  OBVIOUS
<1>4. t \in UiStates /\ t.sel = ui.sel /\ t.variant = ui.variant /\ t.comps = ui.comps
  BY <1>1, <1>2, <1>3 DEF UiStates
<1>5. TradesOf(t) = TradesOf(ui)
  BY <1>4 DEF TradesOf
<1>6. UiOk(t)
  BY <1>1, <1>4, <1>5 DEF UiOk
<1>7. Becomes(t, nav)
  BY <1>1, <1>2, <1>3 DEF Toggle, UiStates
<1>8. QED BY <1>1, <1>6, <1>7, BecomesKeeps

\* Another variant comes with a selection of its own.
LEMMA OnVariantIs ==
  ASSUME UiOk(ui), NEW v \in DOMAIN Variants, NEW t, t = OnVariant(v)
  PROVE  UiOk(t)
<1>1. PICK ts : ts = Variants[v].trades
  OBVIOUS
<1>2. PICK id : id = LastClosed(ts)
  OBVIOUS
<1>3. id = NoTrade \/ \E i \in DOMAIN ts : id = ts[i].id
  BY <1>1, <1>2, LastIsClosed
<1>4. \A i \in DOMAIN ts : ts[i].id \in Nat
  BY <1>1, TradesAre
<1>5. \A i \in DOMAIN ts : InVariant(ts, ts[i].id)
  BY <1>1, PlaceIs
<1>6. id \in Nat /\ (id = NoTrade \/ InVariant(ts, id))
  BY <1>3, <1>4, <1>5 DEF NoTrade
<1>7. t = [ui EXCEPT !.variant = v, !.comps = {}, !.sel = id]
  BY <1>1, <1>2 DEF OnVariant
<1>8. t \in UiStates /\ t.variant = v /\ t.comps = {} /\ t.sel = id
  BY <1>6, <1>7 DEF UiOk, UiStates
<1>9. TradesOf(t) = ts
  BY <1>1, <1>8 DEF TradesOf
<1>10. QED BY <1>6, <1>8, <1>9 DEF UiOk

LEMMA SwitchVariantKeeps ==
  ASSUME ReviewInv, NEW v \in DOMAIN Variants, SwitchVariant(v)
  PROVE  ReviewInv'
<1>1. UiOk(ui) /\ nav \in NavStates
  BY DEF ReviewInv
<1>2. PICK t : t = OnVariant(v)
  OBVIOUS
<1>3. UiOk(t)
  BY <1>1, <1>2, OnVariantIs
<1>4. Becomes(t, nav)
  BY <1>2 DEF SwitchVariant
<1>5. QED BY <1>1, <1>3, <1>4, BecomesKeeps

\* A report always has a variant to show.
LEMMA KeyIsThere ==
  ASSUME NEW run, \E v \in DOMAIN Variants : Variants[v].run = run, NEW name
  PROVE  KeyFor(run, name) \in DOMAIN Variants
<1>1. PICK vs : vs = {v \in DOMAIN Variants : Variants[v].run = run}
  OBVIOUS
<1>2. PICK named : named = {v \in vs : Variants[v].name = name}
  OBVIOUS
<1>3. KeyFor(run, name) = IF named = {} THEN CHOOSE v \in vs : \A w \in vs : v <= w
                          ELSE CHOOSE v \in named : TRUE
  BY <1>1, <1>2 DEF KeyFor
<1>4. vs \in SUBSET Nat /\ vs # {}
  <2>1. DOMAIN Variants \subseteq Nat
    BY ReviewAssumption DEF IsList
  <2>2. QED BY <1>1, <2>1
<1>5. \E v \in vs : \A w \in vs : v <= w
  BY <1>4, LeastIsThere
<1>6. KeyFor(run, name) \in vs
  BY <1>2, <1>3, <1>5
<1>7. QED BY <1>1, <1>6

LEMMA SwitchReportKeeps ==
  ASSUME ReviewInv, NEW run \in {Variants[v].run : v \in DOMAIN Variants}, SwitchReport(run)
  PROVE  ReviewInv'
<1>1. UiOk(ui)
  BY DEF ReviewInv
<1>2. PICK v : v = KeyFor(run, Variants[ui.variant].name)
  OBVIOUS
<1>3. v \in DOMAIN Variants
  BY <1>2, KeyIsThere
<1>4. PICK s : s = OnVariant(v)
  OBVIOUS
<1>5. UiOk(s)
  BY <1>1, <1>3, <1>4, OnVariantIs
<1>6. PICK t : t = [s EXCEPT !.win = NoCandles]
  OBVIOUS
<1>7. UiOk(t)
  <2>1. NoCandles \in ViewWindows
    BY ReviewAssumption
  <2>2. t \in UiStates /\ t.sel = s.sel /\ t.variant = s.variant /\ t.comps = s.comps
    BY <1>5, <1>6, <2>1 DEF UiOk, UiStates
  <2>3. TradesOf(t) = TradesOf(s)
    BY <2>2 DEF TradesOf
  <2>4. QED BY <1>5, <2>2, <2>3 DEF UiOk
<1>8. ui' = [t EXCEPT !.filters = AllFilters] /\ Mount(t)
  BY <1>2, <1>4, <1>6 DEF SwitchReport
<1>9. AllFilters \in [Filters -> FilterValues]
  BY DEF AllFilters, FilterValues
<1>10. QED BY <1>7, <1>8, <1>9, MountKeeps

LEMMA ShiftToKeeps ==
  ASSUME ReviewInv, NEW w \in ViewWindows, ShiftTo(w)
  PROVE  ReviewInv'
<1>1. UiOk(ui) /\ nav \in NavStates
  BY DEF ReviewInv
<1>2. PICK t : t = [ui EXCEPT !.win = w]
  OBVIOUS
<1>3. t \in UiStates /\ t.sel = ui.sel /\ t.variant = ui.variant /\ t.comps = ui.comps
  BY <1>1, <1>2 DEF UiOk, UiStates
<1>4. TradesOf(t) = TradesOf(ui)
  BY <1>3 DEF TradesOf
<1>5. UiOk(t)
  BY <1>1, <1>3, <1>4 DEF UiOk
<1>6. Becomes(t, nav)
  BY <1>2 DEF ShiftTo
<1>7. QED BY <1>1, <1>5, <1>6, BecomesKeeps

LEMMA TracedKeeps ==
  ASSUME ReviewInv, NEW cs \in {{}, DOMAIN Variants[ui.variant].comps}, Traced(cs)
  PROVE  ReviewInv'
<1>1. UiOk(ui) /\ nav \in NavStates /\ ui \in UiStates /\ ui.variant \in DOMAIN Variants
  BY DEF ReviewInv, UiOk, UiStates
<1>2. PICK t : t = [ui EXCEPT !.comps = cs]
  OBVIOUS
<1>3. cs \in SUBSET CompPlaces
  BY <1>1 DEF CompPlaces
<1>4. t \in UiStates /\ t.sel = ui.sel /\ t.variant = ui.variant /\ t.comps = cs
  BY <1>1, <1>2, <1>3 DEF UiStates
<1>5. TradesOf(t) = TradesOf(ui)
  BY <1>4 DEF TradesOf
<1>6. UiOk(t)
  BY <1>1, <1>4, <1>5 DEF UiOk
<1>7. Becomes(t, nav)
  BY <1>2 DEF Traced
<1>8. QED BY <1>1, <1>6, <1>7, BecomesKeeps

LEMMA InitReview ==
  ASSUME ReviewInit
  PROVE  ReviewInv
<1>1. 1 \in DOMAIN Variants /\ NoCandles \in ViewWindows
  BY ReviewAssumption DEF IsList
<1>2. PICK sel : sel = LastClosed(Variants[1].trades)
  OBVIOUS
<1>3. PICK ts : ts = Variants[1].trades
  OBVIOUS
<1>4. sel \in Nat /\ (sel = NoTrade \/ InVariant(ts, sel))
  <2>1. sel = NoTrade \/ \E i \in DOMAIN ts : sel = ts[i].id
    BY <1>1, <1>2, <1>3, LastIsClosed
  <2>2. \A i \in DOMAIN ts : ts[i].id \in Nat
    BY <1>1, <1>3, TradesAre
  <2>3. \A i \in DOMAIN ts : InVariant(ts, ts[i].id)
    BY <1>1, <1>3, PlaceIs
  <2>4. QED BY <2>1, <2>2, <2>3 DEF NoTrade
<1>5. ui = [tab |-> "chart", variant |-> 1, sel |-> sel, win |-> NoCandles,
            comps |-> {}, layers |-> {"entry_block", "exit_signal", "setup"}, filters |-> AllFilters]
  BY <1>2 DEF ReviewInit
<1>6. AllFilters \in [Filters -> FilterValues]
  BY DEF AllFilters, FilterValues
<1>7. ui \in UiStates
  BY <1>1, <1>4, <1>5, <1>6 DEF UiStates, Layers
<1>8. ui.sel = sel /\ ui.variant = 1 /\ ui.comps = {} /\ ui.win = NoCandles /\ ui.tab = "chart"
  BY <1>5
<1>9. TradesOf(ui) = ts
  BY <1>3, <1>8 DEF TradesOf
<1>10. UiOk(ui)
  BY <1>4, <1>7, <1>8, <1>9 DEF UiOk
<1>11. Mounted(ui)
  BY <1>8 DEF Mounted
<1>12. nav \in NavStates /\ FieldOk
  <2>1. CASE ui.sel = NoTrade
    BY <2>1 DEF ReviewInit, Unmounted, NavStates, FieldOk, Blank
  <2>2. CASE ui.sel # NoTrade
    <3>1. nav = Refreshed(ui)
      BY <2>2 DEF ReviewInit
    <3>2. QED BY <1>10, <2>2, <3>1, RefreshedIs DEF FieldOk
  <2>3. QED BY <2>1, <2>2
<1>13. CanvasOk
  <2>1. canvas = [NoCanvas EXCEPT !.lines = LinesOf(ui)]
    BY DEF ReviewInit
  <2>2. canvas.candles = NoCandles /\ canvas.lines = LinesOf(ui)
    BY <2>1 DEF NoCanvas
  <2>3. QED BY <1>1, <1>8, <1>11, <2>2 DEF CanvasOk
<1>14. QED BY <1>10, <1>12, <1>13 DEF ReviewInv

LEMMA StillReview ==
  ASSUME ReviewInv, UNCHANGED reviewVars
  PROVE  ReviewInv'
<1>1. ui' = ui /\ nav' = nav /\ canvas' = canvas
  BY DEF reviewVars
<1>2. UiOk(ui)'
  BY <1>1 DEF ReviewInv
<1>3. FieldOk' /\ CanvasOk'
  BY <1>1 DEF ReviewInv, FieldOk, CanvasOk
<1>4. QED BY <1>1, <1>2, <1>3 DEF ReviewInv

\* The invariant of the review is kept by every step.
THEOREM ReviewHolds == ReviewSpec => []ReviewInv
<1>1. ReviewInit => ReviewInv
  BY InitReview
<1>2. ASSUME ReviewInv, [ReviewNext]_reviewVars
      PROVE  ReviewInv'
  <2>1. CASE \E tab \in {"chart", "reports", "composer"} : OpenTab(tab)
    BY <1>2, <2>1, OpenTabKeeps
  <2>2. CASE \E i \in Rows(ui) : ClickRow(i)
    BY <1>2, <2>2, ClickRowKeeps
  <2>3. CASE \E chip \in Chips : Choose(chip)
    BY <1>2, <2>3, ChooseKeeps
  <2>4. CASE \E d \in {"next", "previous"} : Step(d)
    BY <1>2, <2>4, StepKeeps
  <2>5. CASE Clear
    BY <1>2, <2>5, ClearKeeps
  <2>6. CASE Focus \/ \E n \in Blank .. MaxTyped : Type(n)
    BY <1>2, <2>6, EditKeeps
  <2>7. CASE Leave
    BY <1>2, <2>7, LeaveKeeps
  <2>8. CASE \E layer \in Layers : Toggle(layer)
    BY <1>2, <2>8, ToggleKeeps
  <2>9. CASE \E v \in DOMAIN Variants : SwitchVariant(v)
    BY <1>2, <2>9, SwitchVariantKeeps
  <2>10. CASE \E run \in {Variants[v].run : v \in DOMAIN Variants} : SwitchReport(run)
    BY <1>2, <2>10, SwitchReportKeeps
  <2>11. CASE \E w \in ViewWindows : ShiftTo(w)
    BY <1>2, <2>11, ShiftToKeeps
  <2>12. CASE \E cs \in {{}, DOMAIN Variants[ui.variant].comps} : Traced(cs)
    BY <1>2, <2>12, TracedKeeps
  <2>13. CASE UNCHANGED reviewVars
    BY <1>2, <2>13, StillReview
  <2>14. QED
    BY <1>2, <2>1, <2>2, <2>3, <2>4, <2>5, <2>6, <2>7, <2>8, <2>9, <2>10, <2>11, <2>12, <2>13
    DEF ReviewNext
<1>3. QED BY <1>1, <1>2, PTL DEF ReviewSpec

(* ---- what it says ------------------------------------------------------ *)
LEMMA ReviewTyped ==
  ASSUME ReviewInv
  PROVE  ReviewTypeOK
<1>1. /\ ui \in UiStates /\ nav \in NavStates /\ canvas.candles \in ViewWindows
      /\ ui.sel = NoTrade \/ InVariant(TradesOf(ui), ui.sel)
      /\ ui.comps \subseteq DOMAIN Variants[ui.variant].comps
  BY DEF ReviewInv, UiOk, CanvasOk
<1>2. /\ ui.tab \in {"chart", "reports", "composer"} /\ ui.variant \in DOMAIN Variants
      /\ ui.win \in ViewWindows /\ ui.layers \subseteq Layers /\ DOMAIN ui.filters = Filters
  BY <1>1 DEF UiStates
<1>3. nav.draft \in Nat /\ nav.editing \in BOOLEAN
  BY <1>1 DEF NavStates
<1>4. QED BY <1>1, <1>2, <1>3 DEF ReviewTypeOK

\* A marker has no number, or the place of the selection.
LEMMA MarksNumbered ==
  ASSUME NEW s, s.variant \in DOMAIN Variants, NEW m \in Marks(s)
  PROVE  m.mark.num \in {Blank, Position(TradesOf(s), s.sel)}
<1>1. PICK ts : ts = TradesOf(s)
  OBVIOUS
<1>2. PICK at : at = Position(ts, s.sel)
  OBVIOUS
<1>3. \A i \in DOMAIN ts : ts[i].id = s.sel => i = at
  <2>1. ts = Variants[s.variant].trades
    BY <1>1 DEF TradesOf
  <2>2. \A i \in DOMAIN ts : Position(ts, ts[i].id) = i
    BY <2>1, PlaceIs
  <2>3. QED BY <1>2, <2>2
<1>4. m.mark \in TradeMarksForView(s) \/ m.mark \in ComponentMarks(s) \/ m.mark \in EventMarks(s)
  BY DEF Marks
<1>5. CASE m.mark \in TradeMarksForView(s)
  <2>1. m.mark \in TradeMarks(s)
    BY <1>5 DEF TradeMarksForView
  <2>2. \E i \in DOMAIN ts : m.mark.num = IF ts[i].id = s.sel THEN i ELSE Blank
    BY <1>1, <2>1 DEF TradeMarks
  <2>3. QED BY <1>1, <1>2, <1>3, <2>2
<1>6. CASE m.mark \in ComponentMarks(s)
  BY <1>6 DEF ComponentMarks
<1>7. CASE m.mark \in EventMarks(s)
  <2>1. PICK es : es = Variants[s.variant].events
    OBVIOUS
  <2>2. PICK k \in InView(s) : m.mark.num = IF es[k].trade = s.sel THEN Lookup(ts, es[k].trade)
                                            ELSE Blank
    BY <1>1, <1>7, <2>1 DEF EventMarks
  <2>3. Lookup(ts, s.sel) = at
    BY <1>2 DEF Lookup
  <2>4. QED BY <1>1, <1>2, <2>2, <2>3
<1>8. QED BY <1>4, <1>5, <1>6, <1>7

LEMMA LinesNumbered ==
  ASSUME NEW s, s.variant \in DOMAIN Variants, NEW l \in LinesOf(s)
  PROVE  l.num = Position(TradesOf(s), s.sel)
<1>1. PICK ts : ts = TradesOf(s)
  OBVIOUS
<1>2. PICK at : at = Position(ts, s.sel)
  OBVIOUS
<1>3. at # 0
  BY <1>1, <1>2 DEF LinesOf
<1>4. ts = Variants[s.variant].trades
  BY <1>1 DEF TradesOf
<1>5. InVariant(ts, s.sel) /\ at \in DOMAIN ts /\ ts[at].id = s.sel
  BY <1>2, <1>3, <1>4, PlaceIs
<1>6. l.num = Number(ts, ts[at].id)
  BY <1>1, <1>2, <1>3 DEF LinesOf
<1>7. Number(ts, s.sel) = at
  BY <1>2, <1>5 DEF Number
<1>8. QED BY <1>1, <1>2, <1>5, <1>6, <1>7

LEMMA NumbersFollow ==
  ASSUME ReviewInv
  PROVE  NumbersAgree
<1>1. ReviewTypeOK
  BY ReviewTyped
<1>2. ASSUME Mounted(ui), ui.sel # NoTrade, ~nav.editing
      PROVE  /\ nav.draft \in DOMAIN TradesOf(ui) /\ TradesOf(ui)[nav.draft].id = ui.sel
             /\ ui.win # NoCandles =>
                  {m.mark.num : m \in canvas.marks} \union {l.num : l \in canvas.lines}
                    \union {Detail(ui).number} \subseteq {Blank, nav.draft}
  <2>1. PICK ts : ts = TradesOf(ui)
    OBVIOUS
  <2>2. nav.draft = Position(ts, ui.sel)
    BY <1>2, <2>1 DEF ReviewInv, FieldOk
  <2>3. ui.variant \in DOMAIN Variants /\ InVariant(ts, ui.sel)
    BY <1>1, <1>2, <2>1 DEF ReviewTypeOK
  <2>4. nav.draft \in DOMAIN ts /\ ts[nav.draft].id = ui.sel
    <3>1. ts = Variants[ui.variant].trades
      BY <2>1 DEF TradesOf
    <3>2. QED BY <2>2, <2>3, <3>1, PlaceIs
  <2>5. Detail(ui).number = nav.draft
    BY <2>1, <2>2, <2>3 DEF Detail, Number
  <2>6. canvas.lines = LinesOf(ui) /\ (ui.win # NoCandles => canvas.marks \in {{}, Marks(ui)})
    BY <1>2 DEF ReviewInv, CanvasOk
  <2>7. \A l \in canvas.lines : l.num = nav.draft
    BY <2>1, <2>2, <2>3, <2>6, LinesNumbered
  <2>8. \A m \in Marks(ui) : m.mark.num \in {Blank, nav.draft}
    BY <2>1, <2>2, <2>3, MarksNumbered
  <2>9. ui.win # NoCandles => \A m \in canvas.marks : m.mark.num \in {Blank, nav.draft}
    BY <2>6, <2>8
  <2>10. QED BY <2>1, <2>4, <2>5, <2>7, <2>9
<1>3. QED BY <1>1, <1>2 DEF NumbersAgree

\* Every marker of the view lies in the window.
LEMMA MarksLieInside ==
  ASSUME NEW s, NEW m \in Marks(s)
  PROVE  m.variant = s.variant /\ Inside(m.mark.time, s.win)
<1>1. m.variant = s.variant
  BY DEF Marks
<1>2. m.mark \in TradeMarksForView(s) \/ m.mark \in ComponentMarks(s) \/ m.mark \in EventMarks(s)
  BY DEF Marks
<1>3. CASE m.mark \in TradeMarksForView(s)
  BY <1>1, <1>3 DEF TradeMarksForView
<1>4. CASE m.mark \in ComponentMarks(s)
  BY <1>1, <1>4 DEF ComponentMarks
<1>5. CASE m.mark \in EventMarks(s)
  <2>1. PICK k \in InView(s) : m.mark.time = Variants[s.variant].events[k].time
    BY <1>5 DEF EventMarks
  <2>2. Inside(Variants[s.variant].events[k].time, s.win)
    BY <2>1 DEF InView, First
  <2>3. QED BY <1>1, <2>1, <2>2
<1>6. QED BY <1>1, <1>2, <1>3, <1>4, <1>5

\* The markers of events are those of the events in view, in the layers shown.
LEMMA EventsPainted ==
  ASSUME NEW s, NEW k
  PROVE  (\E m \in Marks(s) : m.mark.of = <<"event", k>>)
           <=> k \in InView(s) /\ Layer(Variants[s.variant].events[k].type) \in s.layers
<1>1. ASSUME NEW m \in Marks(s), m.mark.of = <<"event", k>>
      PROVE  k \in InView(s) /\ Layer(Variants[s.variant].events[k].type) \in s.layers
  <2>1. m.mark \in TradeMarksForView(s) \/ m.mark \in ComponentMarks(s) \/ m.mark \in EventMarks(s)
    BY DEF Marks
  <2>2. m.mark \notin TradeMarksForView(s)
    <3>1. \A x \in TradeMarks(s) : x.of[1] # "event"
      BY DEF TradeMarks
    <3>2. QED BY <1>1, <3>1 DEF TradeMarksForView
  <2>3. m.mark \notin ComponentMarks(s)
    <3>1. \A x \in ComponentMarks(s) : x.of[1] # "event"
      BY DEF ComponentMarks
    <3>2. QED BY <1>1, <3>1
  <2>4. PICK j \in {i \in InView(s) : Layer(Variants[s.variant].events[i].type) \in s.layers} :
             m.mark.of = <<"event", j>>
    BY <2>1, <2>2, <2>3 DEF EventMarks
  <2>5. j = k
    BY <1>1, <2>4
  <2>6. QED BY <2>4, <2>5
<1>2. ASSUME k \in InView(s), Layer(Variants[s.variant].events[k].type) \in s.layers
      PROVE  \E m \in Marks(s) : m.mark.of = <<"event", k>>
  <2>1. PICK x \in EventMarks(s) : x.of = <<"event", k>>
    <3>1. PICK es : es = Variants[s.variant].events
      OBVIOUS
    <3>2. PICK js : js = {j \in InView(s) : Layer(es[j].type) \in s.layers}
      OBVIOUS
    <3>3. k \in js
      BY <1>2, <3>1, <3>2
    <3>4. PICK num : num = IF es[k].trade = s.sel THEN Lookup(TradesOf(s), es[k].trade) ELSE Blank
      OBVIOUS
    <3>5. PICK x : x = [of |-> <<"event", k>>, time |-> es[k].time, label |-> es[k].type, num |-> num]
      OBVIOUS
    <3>6. x \in EventMarks(s)
      BY <3>1, <3>2, <3>3, <3>4, <3>5 DEF EventMarks
    <3>7. x.of = <<"event", k>>
      BY <3>5
    <3>8. QED BY <3>6, <3>7
  <2>2. PICK m : m = [mark |-> x, variant |-> s.variant]
    OBVIOUS
  <2>3. m \in Marks(s) /\ m.mark = x
    BY <2>1, <2>2 DEF Marks
  <2>4. QED BY <2>1, <2>3
<1>3. QED BY <1>1, <1>2

LEMMA EventsFollow ==
  ASSUME ReviewInv
  PROVE  SelectionOwnsEvents
<1>1. PICK es : es = Variants[ui.variant].events
  OBVIOUS
<1>2. ui.win \in (Nat \ {NoTime}) \X Nat
  BY ReviewAssumption DEF ReviewInv, UiOk, UiStates
<1>3. ASSUME ui.win # NoCandles
      PROVE  \A m \in canvas.marks : m.variant = ui.variant /\ Inside(m.mark.time, ui.win)
  <2>1. canvas.marks \in {{}, Marks(ui)}
    BY <1>3 DEF ReviewInv, CanvasOk
  <2>2. QED BY <2>1, MarksLieInside
<1>4. ASSUME ui.win # NoCandles, Mounted(ui), ui.sel # NoTrade, canvas.candles = ui.win
      PROVE  PaintedEvents = {k \in DOMAIN es :
               /\ es[k].trade = ui.sel /\ Inside(es[k].time, ui.win)
               /\ Layer(es[k].type) \in ui.layers}
  <2>1. canvas.marks = Marks(ui)
    BY <1>4 DEF ReviewInv, CanvasOk
  <2>2. PaintedEvents = {k \in DOMAIN es : \E m \in Marks(ui) : m.mark.of = <<"event", k>>}
    BY <1>1, <2>1 DEF PaintedEvents
  <2>3. PaintedEvents = {k \in DOMAIN es : k \in InView(ui) /\ Layer(es[k].type) \in ui.layers}
    BY <1>1, <2>2, EventsPainted
  <2>4. InView(ui) = {k \in DOMAIN es : es[k].time # NoTime /\ Inside(es[k].time, ui.win)
                                        /\ es[k].trade = ui.sel}
    BY <1>1, <1>4 DEF InView
  <2>5. \A k \in DOMAIN es : Inside(es[k].time, ui.win) => es[k].time # NoTime
    BY <1>2 DEF Inside, NoTime
  <2>6. QED BY <2>3, <2>4, <2>5
<1>5. QED BY <1>1, <1>3, <1>4 DEF SelectionOwnsEvents

\* The field, the markers, the lines and the panel never give the selected trade
\* two numbers.
THEOREM NumbersAlwaysAgree == ReviewSpec => []NumbersAgree
<1>1. ReviewInv => NumbersAgree
  BY NumbersFollow
<1>2. QED BY <1>1, ReviewHolds, PTL

\* No marker of an earlier view is left on the candles, and a selection has all of
\* its events and none of another trade's.
THEOREM EventsAreTheSelections == ReviewSpec => []SelectionOwnsEvents
<1>1. ReviewInv => SelectionOwnsEvents
  BY EventsFollow
<1>2. QED BY <1>1, ReviewHolds, PTL
=============================================================================
