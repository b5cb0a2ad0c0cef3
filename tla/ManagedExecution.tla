-------------------------- MODULE ManagedExecution --------------------------
(***************************************************************************)
(* The managed execution loop of the ema_pullback strategy                  *)
(* (research/strategies/ema_pullback/execution).  A backtest walks the bars *)
(* of a price series once.  It holds at most one position; on every bar an  *)
(* open position is first offered to the exit candidates that were already  *)
(* in force when the bar opened, and only if none of them hits does the     *)
(* managed exit provider move the phase of the trade, its stop, its take    *)
(* profile and its armed runtime exits.  What the provider computes on a    *)
(* bar is in force from the next bar on.                                    *)
(*                                                                          *)
(* Prices are integers.  The price series, the indicators and the masks are *)
(* inputs, chosen bar by bar.  A phase is its rank in                       *)
(* TRADE_MANAGEMENT_PHASES; a rule is its position in the configured list,  *)
(* and exit_policy signal rules are numbered in the alphabetical order of   *)
(* their instance ids, by which the arbitrator breaks ties.                 *)
(***************************************************************************)
EXTENDS Integers, Sequences, FiniteSets

CONSTANTS
  None,            \* no position, no price, no rule
  NumBars,         \* length of the price series
  Prices,          \* the prices of the market
  AtrValues,       \* ATR readings; 0 is missing, not finite or not positive
  TradeSides,      \* the sides the strategy may open
  Profiles,        \* exit profiles a trade may lock on entry
  StopDistances,   \* distance of the initial stop loss, or None
  TakeDistances,   \* distance of the initial take profit, or None
  PhaseRules,      \* <<[to, cond, threshold], ...>>
  StopRules,       \* <<[activate, offset, perAtr], ...>>
  TakeRules,       \* <<[activate, action], ...>>
  RuntimeRules,    \* <<[activate, kind, phaseOnly], ...>>
  Signals,         \* exit_policy signal rules
  SignalGroup      \* the profile a signal rule belongs to, or "always_on"

Sides  == {"long", "short"}
Phases == 0 .. 4    \* initial_risk, proven, protected, runner, exhaustion
InitialRisk == 0
TakeProfiles == {"initial", "disable_initial_tp"}
ExitKinds == {"protective_exit", "take_profit", "market_close"}

ASSUME MarketAssumption ==
  /\ NumBars \in Nat
  /\ Prices \subseteq Nat \ {0}
  /\ \A p, q \in Prices : p .. q \subseteq Prices
  /\ AtrValues \subseteq Nat
  /\ TradeSides \subseteq Sides
  /\ StopDistances \subseteq Nat \cup {None}
  /\ TakeDistances \subseteq Nat \cup {None}
ASSUME RulesAssumption ==
  /\ PhaseRules \in Seq([to : Phases \ {InitialRisk}, threshold : Nat,
                         cond : {"mfe_atr", "mfe_pct", "bars_in_trade", "adx_di"}])
  /\ \A i, j \in DOMAIN PhaseRules : i < j => PhaseRules[i].to <= PhaseRules[j].to
  /\ StopRules \in Seq([activate : Phases, offset : Nat, perAtr : BOOLEAN])
  /\ TakeRules \in Seq([activate : Phases, action : {"keep_initial", "disable_initial_tp"}])
  /\ RuntimeRules \in Seq([activate : Phases, kind : ExitKinds, phaseOnly : BOOLEAN])
  /\ \A i \in DOMAIN RuntimeRules :
       RuntimeRules[i].phaseOnly => RuntimeRules[i].kind = "market_close"
  /\ Signals \subseteq Nat
  /\ SignalGroup \in [Signals -> Profiles \cup {"always_on"}]

VARIABLES
  bar,       \* index of the next bar to process
  pos,       \* the open position, or None
  candle,    \* prices of the last processed bar
  closed,    \* trades recorded so far, each with what its exit event says
  events,    \* management events of the last processed bar
  done       \* the loop has returned

vars == <<bar, pos, candle, closed, events, done>>

(***************************************************************************)
(* Inputs of a bar.  adx holds the sides for which ADX and DI are over an   *)
(* adx_di_threshold; armable the runtime rules whose signal series is true; *)
(* signals the exit_policy signal rules whose mask is true.                 *)
(***************************************************************************)
Candles == {k \in [open : Prices, high : Prices, low : Prices, close : Prices] :
              /\ k.low <= k.open /\ k.open <= k.high
              /\ k.low <= k.close /\ k.close <= k.high}

Readings == [atr : AtrValues, adx : SUBSET TradeSides,
             armable : SUBSET {i \in DOMAIN RuntimeRules : ~RuntimeRules[i].phaseOnly}]

(***************************************************************************)
(* Side-aware arithmetic.                                                   *)
(***************************************************************************)
\* Price d in the trade's favour, away from its entry price.
Favourable(side, entry, d) == IF side = "long" THEN entry + d ELSE entry - d

\* a protects (or pays) a trade of this side at least as well as b.
AtLeast(side, a, b) == IF side = "long" THEN a >= b ELSE a <= b

Tighter(side, a, b) == IF AtLeast(side, a, b) THEN a ELSE b

\* A long loses at a level below the market and takes profit at one above it.
TriggersBelow(side, isLoss) == (side = "long") = isLoss

GappedThrough(k, level, below) == IF below THEN k.open <= level ELSE level <= k.open

LevelHit(side, k, level, isLoss) ==
  \/ GappedThrough(k, level, TriggersBelow(side, isLoss))
  \/ k.low <= level /\ level <= k.high

FillPrice(side, k, level, isLoss) ==
  IF GappedThrough(k, level, TriggersBelow(side, isLoss)) THEN k.open ELSE level

(***************************************************************************)
(* Exit candidates of a bar, from what was in force when it opened.         *)
(***************************************************************************)
Candidate(type, rule, price) == [type |-> type, rule |-> rule, price |-> price]

DistanceExit(type, rule, p, k, level, isLoss) ==
  IF level # None /\ LevelHit(p.side, k, level, isLoss)
  THEN {Candidate(type, rule, FillPrice(p.side, k, level, isLoss))}
  ELSE {}

PolicyCandidates(p, k, signals) ==
  DistanceExit("stop_loss", 0, p, k, p.sl, TRUE)
  \cup (IF p.take = "disable_initial_tp" THEN {}
        ELSE DistanceExit("take_profit", 0, p, k, p.tp, FALSE))
  \cup {Candidate("signal", i, k.close) :
          i \in {j \in signals : SignalGroup[j] \in {"always_on", p.profile}}}

RuntimeType(kind) == CASE kind = "protective_exit" -> "runtime_protective"
                       [] kind = "take_profit"     -> "runtime_take"
                       [] OTHER                    -> "runtime_close"

\* Mutant: the managed stop is filled at the close.
ManagedStopAtClose(p, k) ==
  IF p.stop # None /\ LevelHit(p.side, k, p.stop, TRUE)
  THEN {Candidate("managed_stop", p.stopRule, k.close)} ELSE {}

\* Mutant: only protective runtime exits become candidates.
OnlyProtectiveExits(p, k) ==
  DistanceExit("managed_stop", p.stopRule, p, k, p.stop, TRUE)
  \cup {Candidate(RuntimeType(RuntimeRules[i].kind), i, k.close) :
          i \in {j \in p.armed : RuntimeRules[j].kind = "protective_exit"}}

ManagedCandidates(p, k) ==
  DistanceExit("managed_stop", p.stopRule, p, k, p.stop, TRUE)
  \cup {Candidate(RuntimeType(RuntimeRules[i].kind), i, k.close) : i \in p.armed}

Candidates(p, k, signals) == PolicyCandidates(p, k, signals) \cup ManagedCandidates(p, k)

\* Mutant: a take profit is preferred to the stops.
PriorityTakeFirst ==
  [stop_loss |-> 2, managed_stop |-> 3, take_profit |-> 1,
   runtime_protective |-> 4, runtime_take |-> 5, runtime_close |-> 6, signal |-> 7]

Priority == [stop_loss |-> 1, managed_stop |-> 2, take_profit |-> 3,
             runtime_protective |-> 4, runtime_take |-> 5, runtime_close |-> 6,
             signal |-> 7]

\* The arbitrator's sort order: by priority, then by reason, then as listed.
Beats(c, d) == \/ Priority[c.type] < Priority[d.type]
               \/ Priority[c.type] = Priority[d.type] /\ c.rule <= d.rule

Winners(C) == {c \in C : \A d \in C : Beats(c, d)}

(***************************************************************************)
(* The provider's end-of-bar update, for a position no candidate closed.    *)
(* Each step gives the set of its outcomes, which has exactly one member.   *)
(***************************************************************************)
Observed(p, k, b) ==
  [p EXCEPT !.held = b - p.entry + 1,
            !.best = Tighter(p.side, p.best, IF p.side = "long" THEN k.high ELSE k.low)]

Mfe(p) == IF p.side = "long" THEN p.best - p.price ELSE p.price - p.best

ConditionMet(rule, p, x) ==
  CASE rule.cond = "mfe_atr"       -> x.atr > 0 /\ Mfe(p) >= rule.threshold * x.atr
    [] rule.cond = "mfe_pct"       -> 100 * Mfe(p) >= rule.threshold * p.price
    [] rule.cond = "bars_in_trade" -> p.held >= rule.threshold
    [] rule.cond = "adx_di"        -> p.side \in x.adx

\* Rules met on this bar that lead past the phase the bar began in.
Advancing(p, x) ==
  {i \in DOMAIN PhaseRules : PhaseRules[i].to > p.phase /\ ConditionMet(PhaseRules[i], p, x)}

\* In list order, a rule fires when it leads past every rule before it.
FiredPhaseRules(p, x) ==
  {i \in Advancing(p, x) :
     \A j \in Advancing(p, x) : j < i => PhaseRules[j].to < PhaseRules[i].to}

PhasesAfter(p, x) ==
  LET reached == {p.phase} \cup {PhaseRules[i].to : i \in FiredPhaseRules(p, x)}
  IN  {ph \in reached : \A other \in reached : other <= ph}

StopPrice(rule, p, x) ==
  Favourable(p.side, p.price, IF rule.perAtr THEN rule.offset * x.atr ELSE rule.offset)

ProposingStops(p, x) ==
  {i \in DOMAIN StopRules : /\ StopRules[i].activate <= p.phase
                            /\ StopRules[i].perAtr => x.atr > 0}

\* The tightest proposal, the first one listed when several are as tight.
MergedStops(p, x) ==
  {i \in ProposingStops(p, x) :
     \A j \in ProposingStops(p, x) :
       LET a == StopPrice(StopRules[i], p, x)
           b == StopPrice(StopRules[j], p, x)
       IN  AtLeast(p.side, a, b) /\ (a = b => i <= j)}

\* Mutant: the newest proposal replaces the stop.
NewestProposal(side, previous, proposal) == proposal

Tightened(side, previous, proposal) ==
  IF previous = None THEN proposal ELSE Tighter(side, previous, proposal)

StopUpdates(p, x) ==
  IF ProposingStops(p, x) = {} THEN {[stop |-> p.stop, rule |-> p.stopRule]}
  ELSE {LET stop == Tightened(p.side, p.stop, StopPrice(StopRules[i], p, x))
        IN  [stop |-> stop, rule |-> IF stop = p.stop THEN p.stopRule ELSE i] :
          i \in MergedStops(p, x)}

TakeProfile(action) == IF action = "keep_initial" THEN "initial" ELSE "disable_initial_tp"

ActiveTakes(p) == {i \in DOMAIN TakeRules : TakeRules[i].activate <= p.phase}

\* Mutant: the first active take rule wins.
FirstTakeWins(p) ==
  IF ActiveTakes(p) = {} THEN {[take |-> p.take, rule |-> p.takeRule]}
  ELSE {LET take == TakeProfile(TakeRules[i].action)
        IN  [take |-> take, rule |-> IF take = p.take THEN p.takeRule ELSE i] :
          i \in {j \in ActiveTakes(p) : \A l \in ActiveTakes(p) : j <= l}}

TakeUpdates(p) ==
  IF ActiveTakes(p) = {} THEN {[take |-> p.take, rule |-> p.takeRule]}
  ELSE {LET take == TakeProfile(TakeRules[i].action)
        IN  [take |-> take, rule |-> IF take = p.take THEN p.takeRule ELSE i] :
          i \in {j \in ActiveTakes(p) : \A l \in ActiveTakes(p) : l <= j}}

TriggeredRuntimeExits(p, x) ==
  {i \in DOMAIN RuntimeRules : /\ RuntimeRules[i].activate <= p.phase
                               /\ RuntimeRules[i].phaseOnly \/ i \in x.armable}

Event(type, rule) == [type |-> type, rule |-> rule]

UpdateEvents(before, after, x) ==
  {Event("phase_changed", i) : i \in FiredPhaseRules([after EXCEPT !.phase = before.phase], x)}
  \cup (IF after.stop = before.stop THEN {} ELSE {Event("active_stop_updated", after.stopRule)})
  \cup (IF after.take = before.take THEN {} ELSE {Event("active_take_updated", after.takeRule)})
  \cup {Event("runtime_exit_triggered", i) : i \in after.armed}

(***************************************************************************)
(* The loop.                                                                *)
(***************************************************************************)
\* A position opened at the close c: nothing managed is in force yet.
NewPosition(side, b, c, profile, slDistance, tpDistance) ==
  [side |-> side, entry |-> b, price |-> c, profile |-> profile,
   sl |-> IF slDistance = None THEN None ELSE Favourable(side, c, -slDistance),
   tp |-> IF tpDistance = None THEN None ELSE Favourable(side, c, tpDistance),
   held |-> 0, phase |-> InitialRisk, best |-> c,
   stop |-> None, stopRule |-> None, take |-> "initial", takeRule |-> None, armed |-> {}]

\* The record appended to closed, with what its exit_executed event carries.
TradeRecord(p, exit, price, type, rule) ==
  [side |-> p.side, entry |-> p.entry, entryPrice |-> p.price, exit |-> exit,
   price |-> price, type |-> type, rule |-> rule, stop |-> p.stop]

\* The side opened when these entry masks are true: long is tried first.
EntrySide(masks) == IF "long" \in masks \cap TradeSides THEN "long"
                    ELSE IF "short" \in masks \cap TradeSides THEN "short" ELSE None

Init ==
  /\ bar = 0
  /\ pos = None
  /\ candle = None
  /\ closed = <<>>
  /\ events = {}
  /\ done = FALSE

\* A flat bar without an entry.
StayFlat ==
  /\ bar < NumBars /\ pos = None
  /\ \E masks \in SUBSET Sides : EntrySide(masks) = None
  /\ candle' \in Candles
  /\ bar' = bar + 1
  /\ events' = {}
  /\ UNCHANGED <<pos, closed, done>>

\* A flat bar that opens a position at its close; the provider is not called.
Enter ==
  /\ bar < NumBars /\ pos = None
  /\ candle' \in Candles
  /\ \E masks \in SUBSET Sides, profile \in Profiles,
        slDistance \in StopDistances, tpDistance \in TakeDistances :
       /\ EntrySide(masks) # None
       /\ pos' = NewPosition(EntrySide(masks), bar, candle'.close, profile,
                             slDistance, tpDistance)
  /\ bar' = bar + 1
  /\ events' = {}
  /\ UNCHANGED <<closed, done>>

\* A candidate in force at the open hits: the trade closes, and the bar ends
\* flat, for a position that was open at its start is not replaced on it.
Exit ==
  /\ bar < NumBars /\ pos # None
  /\ candle' \in Candles
  /\ \E signals \in SUBSET Signals :
       \E w \in Winners(Candidates(pos, candle', signals)) :
         /\ closed' = Append(closed, TradeRecord(pos, bar, w.price, w.type, w.rule))
         /\ events' = {Event("exit_rule_triggered", w.rule), Event("exit_executed", w.rule)}
  /\ pos' = None
  /\ bar' = bar + 1
  /\ UNCHANGED done

\* No candidate hits: the provider looks at the whole bar and decides what is
\* in force from the next one.
Hold ==
  /\ bar < NumBars /\ pos # None
  /\ candle' \in Candles
  /\ \E signals \in SUBSET Signals : Candidates(pos, candle', signals) = {}
  /\ \E x \in Readings :
       \E phase \in PhasesAfter(Observed(pos, candle', bar), x) :
         LET p == [Observed(pos, candle', bar) EXCEPT !.phase = phase]
         IN  \E s \in StopUpdates(p, x), t \in TakeUpdates(p) :
               /\ pos' = [p EXCEPT !.stop = s.stop, !.stopRule = s.rule,
                                   !.take = t.take, !.takeRule = t.rule,
                                   !.armed = TriggeredRuntimeExits(p, x)]
               /\ events' = UpdateEvents(pos, pos', x)
  /\ bar' = bar + 1
  /\ UNCHANGED <<closed, done>>

\* Mutant: a position still open after the last bar is dropped.
FinishDroppingOpen ==
  /\ bar = NumBars /\ ~done
  /\ done' = TRUE
  /\ pos' = None
  /\ UNCHANGED <<bar, candle, closed, events>>

\* Mutant: that record names the bar after the last one.
FinishPastTheEnd ==
  /\ bar = NumBars /\ ~done
  /\ done' = TRUE
  /\ pos' = None
  /\ closed' = IF pos = None THEN closed
               ELSE Append(closed, TradeRecord(pos, NumBars, candle.close, "open", None))
  /\ UNCHANGED <<bar, candle, events>>

\* After the last bar a position still open is recorded at the last close.
Finish ==
  /\ bar = NumBars /\ ~done
  /\ done' = TRUE
  /\ pos' = None
  /\ closed' = IF pos = None THEN closed
               ELSE Append(closed, TradeRecord(pos, NumBars - 1, candle.close, "open", None))
  /\ UNCHANGED <<bar, candle, events>>

\* The call has returned.
Returned == done /\ UNCHANGED vars

Next == StayFlat \/ Enter \/ Exit \/ Hold \/ Finish \/ Returned

\* The loop is sequential code that runs to its end.
Spec == Init /\ [][Next]_vars /\ WF_vars(Next)

(***************************************************************************)
(* Properties.                                                              *)
(***************************************************************************)
Levels == Int \cup {None}

Position ==
  [side : TradeSides, entry : 0 .. NumBars - 1, price : Prices, profile : Profiles,
   sl : Levels, tp : Levels, held : Int, phase : Phases, best : Prices,
   stop : Levels, stopRule : DOMAIN StopRules \cup {None},
   take : TakeProfiles, takeRule : DOMAIN TakeRules \cup {None},
   armed : SUBSET DOMAIN RuntimeRules]

Trade ==
  [side : TradeSides, entry : 0 .. NumBars - 1, entryPrice : Prices,
   exit : 0 .. NumBars - 1, price : Int, type : DOMAIN Priority \cup {"open"},
   rule : Nat \cup {None}, stop : Levels]

ASSUME NoneAssumption == None \notin Int /\ None \notin Candles /\ None \notin Position

\* The loop's state keeps its types: above all a position and a recorded trade
\* are complete records whose side, phase, rules and bars exist, and a position
\* is only ever held over a bar that was processed.
TypeOK ==
  /\ bar \in 0 .. NumBars
  /\ pos \in Position \cup {None}
  /\ candle \in Candles \cup {None}
  /\ closed \in Seq(Trade)
  /\ done \in BOOLEAN
  /\ pos # None => candle # None

LastTrade == closed[Len(closed)]

\* Trades never overlap and a bar that closes one opens no other: every trade
\* that an exit closed spans at least one bar after its entry, and the next
\* one, open or recorded, is entered on a later bar than that exit.
TradesDisjoint ==
  /\ \A i \in DOMAIN closed :
       /\ closed[i].type = "open" => done /\ i = Len(closed)
       /\ closed[i].type # "open" => closed[i].entry < closed[i].exit
       /\ closed[i].exit < bar
  /\ \A i \in DOMAIN closed : i > 1 => closed[i - 1].exit < closed[i].entry
  /\ pos # None => /\ pos.entry < bar
                   /\ closed # <<>> => LastTrade.exit < pos.entry

\* Management in force is never ahead of the trade's phase: the rule credited
\* with the stop, the one credited with the take profile and every armed
\* runtime exit was activated by a phase the trade has reached and kept.
ManagementFollowsPhase ==
  pos # None =>
    /\ pos.stop # None => pos.stopRule # None
    /\ pos.stopRule # None => StopRules[pos.stopRule].activate <= pos.phase
    /\ pos.take # "initial" => pos.takeRule # None
    /\ pos.takeRule # None => /\ TakeRules[pos.takeRule].activate <= pos.phase
                              /\ TakeProfile(TakeRules[pos.takeRule].action) = pos.take
    /\ \A i \in pos.armed : RuntimeRules[i].activate <= pos.phase

\* Managed exits are delayed: the provider does not run on the entry bar and
\* what it decides is in force one bar later, so no managed stop and no runtime
\* exit closes a trade on its entry bar or on the bar after it.
ManagedTypes == {"managed_stop", "runtime_protective", "runtime_take", "runtime_close"}
ManagedExitsAreDelayed ==
  /\ \A i \in DOMAIN closed :
       closed[i].type \in ManagedTypes => closed[i].exit >= closed[i].entry + 2
  /\ pos # None /\ bar = pos.entry + 1 => pos.stop = None /\ pos.armed = {}

\* The managed stop of an open trade only ever tightens, whatever rules become
\* active and however the ATR they multiply shrinks or goes missing.
StopNeverLoosens ==
  [][pos # None /\ pos' # None /\ pos.stop # None =>
       pos'.stop # None /\ AtLeast(pos.side, pos'.stop, pos.stop)]_vars

Closes == pos # None /\ pos' = None /\ bar' > bar
NewTrade == closed'[Len(closed')]

StopHit(p, k) == \/ p.sl # None /\ LevelHit(p.side, k, p.sl, TRUE)
                 \/ p.stop # None /\ LevelHit(p.side, k, p.stop, TRUE)

\* The loop is pessimistic within a bar: a bar that touches the initial stop or
\* the managed stop in force at its open closes the trade as a stop, never as a
\* take profit, a runtime exit or a signal, and no trade survives it.
StopTouchedCloses ==
  [][pos # None /\ bar' > bar /\ StopHit(pos, candle') =>
       pos' = None /\ NewTrade.type \in {"stop_loss", "managed_stop"}]_vars

\* Once a managed stop is in force, a trade closed by anything but its initial
\* stop gets at least that stop, or the open when the market gapped past it.
ManagedStopProtects ==
  [][Closes /\ pos.stop # None /\ NewTrade.type # "stop_loss" =>
       \/ AtLeast(pos.side, NewTrade.price, pos.stop)
       \/ AtLeast(pos.side, NewTrade.price, candle'.open)]_vars

\* Every exit is filled at a price the closing bar traded at.
ExitPriceTradable ==
  [][Closes => candle'.low <= NewTrade.price /\ NewTrade.price <= candle'.high]_vars

\* An armed runtime exit closes the trade on the next bar: the position cannot
\* outlive it, and a runtime exit closes only what was announced as triggered on
\* the bar before.
ArmedExitsClose ==
  [][/\ pos # None /\ bar' > bar /\ pos.armed # {} => pos' = None
     /\ Closes /\ NewTrade.type \in ManagedTypes \ {"managed_stop"} =>
          Event("runtime_exit_triggered", NewTrade.rule) \in events]_vars

\* The last take rule a trade's phase has activated keeps the initial take profit.
TakeKept(p) ==
  \A i \in ActiveTakes(p) : \/ TakeRules[i].action = "keep_initial"
                            \/ \E j \in ActiveTakes(p) : j > i

\* After its first end-of-bar update a trade whose take profit is touched, and no
\* stop with it, takes that profit exactly if the last take rule its phase has
\* activated keeps it: switched off, it is off on every later bar, and a later
\* phase that keeps it brings it back.
TakeProfitFollowsRules ==
  [][/\ pos # None /\ bar' > bar /\ pos.held > 0
     /\ pos.tp # None /\ LevelHit(pos.side, candle', pos.tp, FALSE)
     /\ ~StopHit(pos, candle')
     => (pos' = None /\ NewTrade.type = "take_profit" <=> TakeKept(pos))]_vars

\* What is left of a position and of a recorded trade when everything about the
\* reasons of the exit is forgotten.
Opening(p) == [side |-> p.side, entry |-> p.entry, price |-> p.price]
Booking(t) == [side |-> t.side, entry |-> t.entry, entryPrice |-> t.entryPrice,
               exit |-> t.exit, price |-> t.price]

\* The managed loop is an execution path: forgetting everything about why a
\* trade was closed, it behaves as PositionLedger, up to its last settlement.
Ledger == INSTANCE PositionLedger WITH
  NoPosition  <- None,
  Length      <- NumBars,
  LedgerSides <- TradeSides,
  Amounts     <- Prices,
  clock       <- bar,
  open        <- IF pos = None THEN None ELSE Opening(pos),
  ledger      <- [i \in DOMAIN closed |-> Booking(closed[i])],
  settled     <- done

ASSUME OpeningAssumption == None \notin [side : Sides, entry : Int, price : Prices]

ImplementsLedger == Ledger!LedgerSpec
=============================================================================
