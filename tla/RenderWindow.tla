---------------------------- MODULE RenderWindow ----------------------------
(***************************************************************************)
(* The arithmetic of the chart's render window (chartDataWindowManager.ts) *)
(* and of the range the chart shows of it (chartViewport.ts).  A bundle is *)
(* an interval of bars [from, to]; a window is a half-open range of its    *)
(* indices [full, start, end]; a visible range [from, to] counts bars from *)
(* the start of the window.  Bars are numbered by their time.              *)
(***************************************************************************)
EXTENDS Integers

CONSTANTS
  WindowSize,   \* CHART_RENDER_WINDOW_SIZE: bars of a window
  SafeZone,     \* CHART_RENDER_SAFE_ZONE: bars at either end of a window
  FocusBars     \* TRADE_FOCUS_VIEWPORT_BARS: bars shown around a trade

ASSUME SizesAssumption ==
  /\ WindowSize \in Nat \ {0} /\ SafeZone \in Nat /\ FocusBars \in Nat \ {0}
  /\ 2 * SafeZone < WindowSize

Least(a, b) == IF a < b THEN a ELSE b
Most(a, b) == IF a < b THEN b ELSE a
Between(x, low, high) == Most(low, Least(x, high))

Length(bars) == bars.to - bars.from + 1

(* The bars of a bundle that a window holds: sliceCandles. *)
SliceOf(bars, win) ==
  [from |-> bars.from + win.start, to |-> bars.from + win.end - 1]

(* findBarIndexAtOrBefore: 0 for a time before the first bar. *)
IndexOf(bars, time) == Between(time - bars.from, 0, Length(bars) - 1)

Holds(bars, time) == time \in bars.from .. bars.to

-----------------------------------------------------------------------------
(* Windows. *)

SizeOf(full) == Least(WindowSize, full)

ClampedStart(start, full) == Between(start, 0, full - SizeOf(full))

WindowAt(start, full) ==
  [full |-> full, start |-> start, end |-> start + SizeOf(full)]

HeadWindow(full) == WindowAt(0, full)

TailWindow(full) == WindowAt(full - SizeOf(full), full)

(* Defective: a bundle that shrank leaves the window where it was. *)
WithFull_Unclamped(win, full) == [win EXCEPT !.full = full]

(* setFullLength moves the window only when the bundle ends before it: a   *)
(* bundle that grows leaves a window that was too narrow as it is.         *)
WithFull(win, full) ==
  IF win.end > full THEN WindowAt(ClampedStart(win.start, full), full)
  ELSE [win EXCEPT !.full = full]

(* offsetWindowStart, when bars came in before the first. *)
Offset(win, delta) ==
  IF delta = 0 \/ win.full = 0 THEN win
  ELSE WindowAt(ClampedStart(win.start + delta, win.full), win.full)

AroundIndex(index, full) ==
  IF full = 0 THEN HeadWindow(0)
  ELSE WindowAt(ClampedStart(Between(index, 0, full - 1) - SizeOf(full) \div 2, full), full)

(* shouldRebuildForTrade: the entry is outside the window or in its safe zone. *)
RebuildFor(win, index) ==
  /\ win.full > 0
  /\ index \notin (win.start + SafeZone) .. (win.end - SafeZone - 1)

NearLeft(win, visible) == visible.from < SafeZone /\ win.start > 0
NearRight(win, visible) ==
  visible.to > win.end - win.start - SafeZone /\ win.end < win.full

(* isNearWindowBoundary and shiftDirectionFromVisible: the left edge is    *)
(* looked at first, and hides the right one.                               *)
CrossesBoundary(win, visible) ==
  /\ win.end > win.start
  /\ IF visible.from < SafeZone THEN NearLeft(win, visible) ELSE NearRight(win, visible)

(* repositionWindowForVisibleCenter: the middle of the visible range moves *)
(* to the middle of the window.                                            *)
Recentred(win, visible) ==
  WindowAt(ClampedStart((2 * win.start + visible.from + visible.to - SizeOf(win.full)) \div 2,
                        win.full),
           win.full)

(* maybeShiftWindowForVisibleRange *)
Shifted(win, visible) ==
  IF win.end > win.start /\ (NearLeft(win, visible) \/ NearRight(win, visible))
  THEN Recentred(win, visible) ELSE win

-----------------------------------------------------------------------------
(* Visible ranges. *)

(* centeredVisibleLogicalRange *)
Centred(count, index, bars) ==
  LET width == Least(bars, count)
      from == Between(index - width \div 2, 0, count - width)
  IN  [from |-> from, to |-> from + width]

(* resolveAnchorTimeFromVisibleRange: the bar in the middle of the screen. *)
AnchorOf(bars, visible) ==
  bars.from + Between((visible.from + visible.to) \div 2, 0, Length(bars) - 1)

(* computeWindowSwapRestorePlan: around the anchor, or at the end of the   *)
(* window it lies beyond.                                                  *)
RestorePlan(bars, anchor, visible) ==
  Centred(Length(bars), IndexOf(bars, anchor), Most(1, visible.to - visible.from))

(* Defective: the focus ends before the trade. *)
FocusPlan_Before(bars, time) ==
  LET plan == Centred(Length(bars), IndexOf(bars, time), FocusBars)
  IN  [from |-> Most(0, plan.from - FocusBars), to |-> plan.to - FocusBars]

(* applyChartViewport of a trade. *)
FocusPlan(bars, time) == Centred(Length(bars), IndexOf(bars, time), FocusBars)
=============================================================================
