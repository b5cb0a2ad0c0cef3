----------------------------- MODULE TradeReview -----------------------------
(* What the workbench shows of the trades of the selected variant: the table  *)
(* with its filters (ReportsPanel.tsx), the trade number field under the      *)
(* chart (ChartTradeFocusNav.tsx), and what ChartPanel.tsx paints on the      *)
(* chart's canvas: trade, component and management markers, and the price     *)
(* lines of the selected trade.  A step is one event together with the        *)
(* renders and effects it causes; the effects that paint run only when one of *)
(* their dependencies changed and leave what was painted otherwise.  The      *)
(* Composer tab and the gate of a loading run unmount ChartPanel; the Reports *)
(* tab hides it.  Chart is the tab the application opens with.                *)
(* Plain trades are numbered in report order; ids from TextIds on stand for   *)
(* managed ids such as long:979, which never equal a typed number.  Times are *)
(* bars.                                                                      *)
EXTENDS Naturals, Sequences, FiniteSets, SequencesExt

CONSTANTS Variants,   \* sequence of [run, name, v4, trades, events, comps], in report order
          ViewWindows,\* render windows <<from, to>>; NoCandles among them
          Chips,      \* filter chips tried: <<filter, value>>
          MaxTyped,   \* largest number typed into the field
          TextIds,    \* ids from here on are text
          Cap         \* TRADE_MANAGEMENT_MAX_MARKERS_WITHOUT_SELECTION

NoTrade == 0
NoTime == 0
Blank == 0            \* the field's text when it is empty or not a positive number
NoCandles == <<1, 0>>
Layers == {"phases", "exits", "entry_block", "exit_signal", "setup"}
Filters == {"direction", "entryProfile", "entryContextState", "exitKind", "exitGroup",
            "exitReason", "outcome", "qualityFlag"}

IsList(s) == s \in Seq(ToSet(s))

ASSUME ReviewAssumption ==
  /\ Variants # <<>> /\ IsList(Variants) /\ \A v \in DOMAIN Variants : IsList(Variants[v].trades)
  /\ NoCandles \in ViewWindows /\ ViewWindows \subseteq (Nat \ {NoTime}) \X Nat
  /\ Cap \in Nat /\ MaxTyped \in Nat /\ TextIds \in Nat /\ TextIds > MaxTyped
  /\ \A v \in DOMAIN Variants : \A i, j \in DOMAIN Variants[v].trades :
       /\ Variants[v].trades[i].id \in Nat \ {NoTrade}
       /\ Variants[v].trades[i].id = Variants[v].trades[j].id => i = j
       /\ Variants[v].trades[i].id = i \/ Variants[v].trades[i].id >= TextIds

VARIABLES ui,      \* React state: tab, variant, sel, win, comps (the trace's events), layers, filters
          nav,     \* the number field: draft, editing
          canvas   \* what the chart library was given: candles, marks, lines
reviewVars == <<ui, nav, canvas>>

TradesOf(s) == Variants[s.variant].trades

(* ---- trade lookup ---------------------------------------------------- *)
Position(trades, id) == SelectInSeq(trades, LAMBDA t : t.id = id)
InVariant(trades, id) == Position(trades, id) > 0
LastClosed(trades) ==
  LET i == SelectLastInSeq(trades, LAMBDA t : t.closed) IN IF i = 0 THEN NoTrade ELSE trades[i].id

\* tradeDisplayNumber, Blank for its null
Number(trades, id) ==
  IF InVariant(trades, id) THEN Position(trades, id)
  ELSE IF id < TextIds THEN id ELSE Blank

ByNumber(trades, n) == IF n > Len(trades) THEN n ELSE trades[n].id

Lookup_FromZero(trades, id) == Position(trades, id) - 1

\* buildTradeDisplayNumberLookup, Blank for a missing key
Lookup(trades, id) == Position(trades, id)

(* ---- table ----------------------------------------------------------- *)
ReasonMatches(reason, wanted) == wanted \in {"all", reason}

Matches(t, f) ==
  /\ ReasonMatches(t.exitReason, f["exitReason"])
  /\ \A k \in Filters \ {"exitReason", "outcome", "qualityFlag"} : f[k] \in {"all", t[k]}
  /\ f["outcome"] \in {"all", t.outcome}
  /\ f["qualityFlag"] = "all" \/ f["qualityFlag"] \in t.flags

\* the trades in the table, by position in the report
Rows(s) == {i \in DOMAIN TradesOf(s) : Matches(TradesOf(s)[i], s.filters)}

ExitKinds(s) == {TradesOf(s)[i].exitKind : i \in DOMAIN TradesOf(s)} \ {"none"}

\* the chips on the page: five filters need a report with diagnostics, exit_kind
\* offers the kinds of the variant
Offered(s, chip) ==
  /\ chip[1] \in {"direction", "exitReason"} \/ Variants[s.variant].v4
  /\ chip[1] = "exitKind" => chip[2] \in ExitKinds(s) \union {"all"}

\* the panel below the table
Detail(s) ==
  [id |-> IF InVariant(TradesOf(s), s.sel) THEN s.sel ELSE NoTrade,
   number |-> Number(TradesOf(s), s.sel)]

(* ---- markers --------------------------------------------------------- *)
Inside(t, w) == w[1] <= t /\ t <= w[2]
ExitLabel(reason) ==
  IF reason \in {"stop_loss", "take_profit", "signal", "break_even"} THEN reason ELSE "unknown"

\* buildTradeMarkers; a marker shows its trade's number only when it is highlighted
TradeMarks(s) ==
  LET ts == TradesOf(s)
      Num(i) == IF ts[i].id = s.sel THEN i ELSE Blank
  IN {[of |-> <<"entry", i>>, time |-> ts[i].entry, num |-> Num(i),
       label |-> IF ts[i].closed THEN "entry" ELSE "open"] : i \in DOMAIN ts}
     \union
     {[of |-> <<"exit", i>>, time |-> ts[i].exit, num |-> Num(i),
       label |-> ExitLabel(ts[i].exitReason)] :
        i \in {k \in DOMAIN ts : ts[k].closed /\ ts[k].exit # NoTime /\ ts[k].exitReason # "open"}}

TradeMarksForView(s) == {m \in TradeMarks(s) : Inside(m.time, s.win)}

ComponentMarks(s) ==
  LET cs == Variants[s.variant].comps IN
  {[of |-> <<"component", k>>, time |-> cs[k].time, num |-> Blank, label |-> cs[k].role] :
     k \in {j \in s.comps : Inside(cs[j].time, s.win) /\ cs[j].role \in s.layers}}

First(events) == {k \in events : Cardinality({j \in events : j <= k}) <= Cap}

InView_AnyTrade(s) ==
  LET es == Variants[s.variant].events
      in == {k \in DOMAIN es : Inside(es[k].time, s.win)}
  IN IF s.sel = NoTrade THEN First(in) ELSE in

\* the events, by position in the report, that the chart may show: those of the
\* selection, or the first Cap when there is none, hidden layers included
InView(s) ==
  LET es == Variants[s.variant].events
      in == {k \in DOMAIN es : /\ es[k].time # NoTime /\ Inside(es[k].time, s.win)
                               /\ s.sel = NoTrade \/ es[k].trade = s.sel}
  IN IF s.sel = NoTrade THEN First(in) ELSE in

Layer(type) == IF type = "phase_changed" THEN "phases" ELSE "exits"

EventMarks(s) ==
  LET es == Variants[s.variant].events IN
  {[of |-> <<"event", k>>, time |-> es[k].time, label |-> es[k].type,
    num |-> IF es[k].trade = s.sel THEN Lookup(TradesOf(s), es[k].trade) ELSE Blank] :
     k \in {j \in InView(s) : Layer(es[j].type) \in s.layers}}

(* ---- canvas ---------------------------------------------------------- *)
NoCanvas == [candles |-> NoCandles, marks |-> {}, lines |-> {}]
Marks(s) ==
  {[mark |-> m, variant |-> s.variant] :
     m \in TradeMarksForView(s) \union ComponentMarks(s) \union EventMarks(s)}

\* the layout effect on the candles: an empty window has no series key
PaintCandles(s, t) ==
  IF t.win = NoCandles \/ (s.win = t.win /\ s.variant = t.variant) THEN canvas.candles ELSE t.win

MarkerDeps(s) == <<s.variant, s.sel, s.win, s.comps, s.layers>>

\* the layout effect on the markers: without candles it keeps the old ones
PaintMarks(s, t) ==
  IF t.win = NoCandles \/ MarkerDeps(s) = MarkerDeps(t) THEN canvas.marks ELSE Marks(t)

LinesOf(s) ==
  LET i == Position(TradesOf(s), s.sel) IN
  IF i = 0 THEN {}
  ELSE LET t == TradesOf(s)[i] IN
       {[kind |-> k, num |-> Number(TradesOf(s), t.id)] :
          k \in (IF t.entryPrice THEN {"entry"} ELSE {})
                  \union (IF t.closed /\ t.exitPrice THEN {"exit"} ELSE {})}

\* the effect on [selectedTrade], an object of the variant's report
PaintLines(s, t) ==
  IF s.variant = t.variant /\ s.sel = t.sel THEN canvas.lines ELSE LinesOf(t)

Format(s) == Number(TradesOf(s), s.sel)

(* ---- number field ---------------------------------------------------- *)
Unmounted == [draft |-> Blank, editing |-> FALSE]
Mounted(s) == s.tab # "composer"
Refreshed(s) == [draft |-> Format(s), editing |-> FALSE]

\* mounted while there is a selection; refreshed, unless the user is editing, when
\* the selection or the trades change and when the editing ends
NavEffect(n, s, t) ==
  IF t.sel = NoTrade THEN Unmounted
  ELSE IF s.sel = NoTrade \/ ~ n.editing THEN Refreshed(t)
  ELSE n

\* ChartPanel is mounted: its layout effects find no chart yet, the effect that
\* creates the chart runs after them, and the one on the price lines last
Mount(t) ==
  /\ nav' = IF Mounted(t) /\ t.sel # NoTrade THEN Refreshed(t) ELSE Unmounted
  /\ canvas' = IF Mounted(t) THEN [NoCanvas EXCEPT !.lines = LinesOf(t)] ELSE NoCanvas

Update(t, n) ==
  /\ nav' = NavEffect(n, ui, t)
  /\ canvas' = [candles |-> PaintCandles(ui, t), marks |-> PaintMarks(ui, t),
                lines |-> PaintLines(ui, t)]

AllFilters == [f \in Filters |-> "all"]

\* the state after an event, with the effects of the commits it causes; the
\* filters are state of the Reports tab
Becomes(t, n) ==
  /\ ui' = [t EXCEPT !.filters = IF t.tab = "reports" THEN @ ELSE AllFilters]
  /\ IF Mounted(ui) /\ Mounted(t) THEN Update(t, n) ELSE Mount(t)

Known(s, id) == IF id = NoTrade \/ InVariant(TradesOf(s), id) THEN id ELSE LastClosed(TradesOf(s))

HasEvents(s, id) ==
  LET es == Variants[s.variant].events IN \E k \in DOMAIN es : es[k].trade = id

\* selectTrade, and the layout effect that replaces a trade the variant lacks
Select(s, id) ==
  [s EXCEPT !.sel = Known(s, id),
            !.layers = IF id # NoTrade /\ HasEvents(s, id) THEN @ \union {"phases", "exits"} ELSE @]

(* ---- the user; a click elsewhere first takes the focus from the field -- *)
On(tab) == ui.tab = tab /\ ~ nav.editing

OpenTab(tab) == ~ nav.editing /\ tab # ui.tab /\ Becomes([ui EXCEPT !.tab = tab], nav)

\* selectTrade opens the chart, which has been active before
ClickRow(i) ==
  /\ On("reports") /\ i \in Rows(ui)
  /\ Becomes([Select(ui, TradesOf(ui)[i].id) EXCEPT !.tab = "chart"], nav)

Choose(chip) ==
  /\ On("reports") /\ Offered(ui, chip)
  /\ Becomes([ui EXCEPT !.filters[chip[1]] = chip[2]], nav)

Step(d) ==
  LET i == Position(TradesOf(ui), ui.sel)
      j == IF d = "next" THEN i + 1 ELSE i - 1
  IN /\ On("chart") /\ i > 0 /\ j \in DOMAIN TradesOf(ui)
     /\ Becomes(Select(ui, TradesOf(ui)[j].id), nav)

Clear ==
  /\ On("chart") /\ ui.sel # NoTrade
  /\ Becomes(Select(ui, NoTrade), nav)

Focus ==
  /\ On("chart") /\ ui.sel # NoTrade
  /\ nav' = [nav EXCEPT !.editing = TRUE] /\ UNCHANGED <<ui, canvas>>

Type(n) ==
  /\ nav.editing /\ nav' = [nav EXCEPT !.draft = n] /\ UNCHANGED <<ui, canvas>>

\* commitDraft.  Enter runs it and blurs, which runs it again; Escape resets the
\* draft and blurs, but the blur still runs the commit of the last render, with
\* the typed draft: the three leave the same state.
Leave ==
  LET id == IF nav.draft = Blank THEN ui.sel ELSE ByNumber(TradesOf(ui), nav.draft) IN
  /\ nav.editing
  /\ Becomes(IF id = ui.sel THEN ui ELSE Select(ui, id), [nav EXCEPT !.editing = FALSE])

Toggle(layer) ==
  /\ On("chart")
  /\ IF layer \in {"phases", "exits"} THEN Variants[ui.variant].events # <<>> ELSE ui.comps # {}
  /\ Becomes([ui EXCEPT !.layers = IF layer \in @ THEN @ \ {layer} ELSE @ \union {layer}], nav)

\* the component events go and the last closed trade is selected; filters and
\* layers stay
OnVariant(v) == [ui EXCEPT !.variant = v, !.comps = {}, !.sel = LastClosed(Variants[v].trades)]

SwitchVariant(v) ==
  /\ ~ nav.editing /\ v # ui.variant /\ Variants[v].run = Variants[ui.variant].run
  /\ Becomes(OnVariant(v), nav)

KeyFor(run, name) ==
  LET vs == {v \in DOMAIN Variants : Variants[v].run = run}
      named == {v \in vs : Variants[v].name = name}
  IN IF named = {} THEN CHOOSE v \in vs : \A w \in vs : v <= w ELSE CHOOSE v \in named : TRUE

\* WorkbenchGate replaces the tabs until the report is there; no candles yet
SwitchReport(run) ==
  /\ ~ nav.editing /\ run # Variants[ui.variant].run
  /\ LET t == [OnVariant(KeyFor(run, Variants[ui.variant].name)) EXCEPT !.win = NoCandles] IN
     ui' = [t EXCEPT !.filters = AllFilters] /\ Mount(t)

(* ---- answers of the server ------------------------------------------- *)
ShiftTo(w) == w # ui.win /\ Becomes([ui EXCEPT !.win = w], nav)

Traced(cs) == cs # ui.comps /\ Becomes([ui EXCEPT !.comps = cs], nav)

ReviewInit ==
  /\ ui = [tab |-> "chart", variant |-> 1, sel |-> LastClosed(Variants[1].trades), win |-> NoCandles,
           comps |-> {}, layers |-> {"entry_block", "exit_signal", "setup"}, filters |-> AllFilters]
  /\ nav = IF ui.sel = NoTrade THEN Unmounted ELSE Refreshed(ui)
  /\ canvas = [NoCanvas EXCEPT !.lines = LinesOf(ui)]

ReviewNext ==
  \/ \E tab \in {"chart", "reports", "composer"} : OpenTab(tab)
  \/ \E i \in Rows(ui) : ClickRow(i)
  \/ \E chip \in Chips : Choose(chip)
  \/ \E d \in {"next", "previous"} : Step(d)
  \/ Clear \/ Focus \/ Leave
  \/ \E n \in Blank .. MaxTyped : Type(n)
  \/ \E layer \in Layers : Toggle(layer)
  \/ \E v \in DOMAIN Variants : SwitchVariant(v)
  \/ \E run \in {Variants[v].run : v \in DOMAIN Variants} : SwitchReport(run)
  \/ \E w \in ViewWindows : ShiftTo(w)
  \/ \E cs \in {{}, DOMAIN Variants[ui.variant].comps} : Traced(cs)

ReviewSpec == ReviewInit /\ [][ReviewNext]_reviewVars

(* ---- properties ------------------------------------------------------ *)
\* Values have their types; the selection is a trade of the variant shown.
ReviewTypeOK ==
  /\ ui.tab \in {"chart", "reports", "composer"} /\ ui.variant \in DOMAIN Variants /\ ui.win \in ViewWindows
  /\ ui.sel = NoTrade \/ InVariant(TradesOf(ui), ui.sel)
  /\ ui.comps \subseteq DOMAIN Variants[ui.variant].comps /\ ui.layers \subseteq Layers
  /\ DOMAIN ui.filters = Filters
  /\ nav.draft \in Nat /\ nav.editing \in BOOLEAN
  /\ canvas.candles \in ViewWindows

\* The number field, while it is not being edited, names the selected trade by its
\* position in the variant shown, also after a switch to a variant in which the
\* same id stands elsewhere; and the number, if any, of every highlighted marker
\* and price line, and the one of the panel below the table, is the one in the
\* field: four functions count it.  The column "#" of that table is none of them:
\* it counts the rows left by the table's filters, and is not modelled.
NumbersAgree ==
  /\ ReviewTypeOK
  /\ Mounted(ui) /\ ui.sel # NoTrade /\ ~ nav.editing =>
       /\ nav.draft \in DOMAIN TradesOf(ui) /\ TradesOf(ui)[nav.draft].id = ui.sel
       /\ ui.win # NoCandles =>
            {m.mark.num : m \in canvas.marks} \union {l.num : l \in canvas.lines}
              \union {Detail(ui).number} \subseteq {Blank, nav.draft}

PaintedEvents == {k \in DOMAIN Variants[ui.variant].events : \E m \in canvas.marks : m.mark.of = <<"event", k>>}

\* While there are candles every marker painted is of the variant shown and lies
\* on them: after a shift or a switch none of the view before is left.  With a
\* selection the events painted are exactly its own within the window in the
\* layers shown: the cap never drops one of them, and none of another trade is
\* left from an earlier selection.
SelectionOwnsEvents ==
  LET es == Variants[ui.variant].events IN
  ui.win # NoCandles =>
    /\ \A m \in canvas.marks : m.variant = ui.variant /\ Inside(m.mark.time, ui.win)
    /\ Mounted(ui) /\ ui.sel # NoTrade /\ canvas.candles = ui.win =>
         PaintedEvents = {k \in DOMAIN es :
           /\ es[k].trade = ui.sel /\ Inside(es[k].time, ui.win)
           /\ Layer(es[k].type) \in ui.layers}
=============================================================================
