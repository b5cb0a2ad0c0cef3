----------------------- MODULE ManagedExecution_proof -----------------------
(***************************************************************************)
(* Proofs about ManagedExecution, for every series, every rule list and     *)
(* every choice of inputs that its assumptions allow.                       *)
(***************************************************************************)
EXTENDS ManagedExecution, TLAPS

(***************************************************************************)
(* Lemmas about the operators.                                              *)
(***************************************************************************)

\* A candle's prices are integers, and its low and high enclose them.
LEMMA CandleFacts ==
  ASSUME NEW k \in Candles
  PROVE  /\ k.open \in Prices /\ k.high \in Prices /\ k.low \in Prices /\ k.close \in Prices
         /\ k.open \in Int /\ k.high \in Int /\ k.low \in Int /\ k.close \in Int
         /\ k.low <= k.open /\ k.open <= k.high
         /\ k.low <= k.close /\ k.close <= k.high
<1>1. /\ k \in [open : Prices, high : Prices, low : Prices, close : Prices]
      /\ k.low <= k.open /\ k.open <= k.high
      /\ k.low <= k.close /\ k.close <= k.high
  BY DEF Candles
<1>2. k.open \in Prices /\ k.high \in Prices /\ k.low \in Prices /\ k.close \in Prices
  BY <1>1
<1>3. Prices \subseteq Int
  BY MarketAssumption DEF MarketAssumption
<1>4. QED BY <1>1, <1>2, <1>3

\* The candidate types the arbitrator knows.
LEMMA PriorityDomain ==
  DOMAIN Priority = {"stop_loss", "managed_stop", "take_profit", "runtime_protective",
                     "runtime_take", "runtime_close", "signal"}
BY DEF Priority

\* A level that is hit is filled at a price of the candle (fill_price_for_distance_exit).
LEMMA FillInRange ==
  ASSUME NEW k \in Candles, NEW side \in Sides, NEW level \in Int, NEW isLoss \in BOOLEAN,
         LevelHit(side, k, level, isLoss)
  PROVE  /\ FillPrice(side, k, level, isLoss) \in Int
         /\ k.low <= FillPrice(side, k, level, isLoss)
         /\ FillPrice(side, k, level, isLoss) <= k.high
<1>1. CASE GappedThrough(k, level, TriggersBelow(side, isLoss))
  BY <1>1, CandleFacts DEF FillPrice
<1>2. CASE ~GappedThrough(k, level, TriggersBelow(side, isLoss))
  BY <1>2, CandleFacts DEF FillPrice, LevelHit
<1>3. QED BY <1>1, <1>2

\* What the three distance exits of a position can be.
LEMMA DistanceExitFacts ==
  ASSUME NEW p \in Position, NEW k \in Candles, NEW level \in Levels, NEW isLoss \in BOOLEAN,
         NEW type, NEW rule, NEW c \in DistanceExit(type, rule, p, k, level, isLoss)
  PROVE  /\ level \in Int /\ LevelHit(p.side, k, level, isLoss)
         /\ c = Candidate(type, rule, FillPrice(p.side, k, level, isLoss))
         /\ c.price \in Int /\ k.low <= c.price /\ c.price <= k.high
<1>1. /\ level # None /\ LevelHit(p.side, k, level, isLoss)
      /\ c = Candidate(type, rule, FillPrice(p.side, k, level, isLoss))
  BY DEF DistanceExit
<1>2. level \in Int
  BY <1>1 DEF Levels
<1>3. p.side \in Sides
  BY MarketAssumption DEF Position
<1>4. c.price = FillPrice(p.side, k, level, isLoss)
  BY <1>1 DEF Candidate
<1>5. QED BY <1>1, <1>2, <1>3, <1>4, FillInRange

\* Every candidate has a known type, a known rule and a price of the candle.
LEMMA CandidateFacts ==
  ASSUME NEW p \in Position, NEW k \in Candles, NEW signals \in SUBSET Signals,
         NEW c \in Candidates(p, k, signals)
  PROVE  /\ c.type \in DOMAIN Priority
         /\ c.rule \in Nat \cup {None}
         /\ c.price \in Int /\ k.low <= c.price /\ c.price <= k.high
<1>0. /\ p.sl \in Levels /\ p.tp \in Levels /\ p.stop \in Levels
      /\ p.stopRule \in DOMAIN StopRules \cup {None}
      /\ p.armed \subseteq DOMAIN RuntimeRules
  BY DEF Position
<1>01. /\ DOMAIN StopRules \subseteq Nat /\ DOMAIN RuntimeRules \subseteq Nat
       /\ Signals \subseteq Nat
  BY RulesAssumption
<1>02. k.close \in Int /\ k.low <= k.close /\ k.close <= k.high
  BY CandleFacts
<1>1. CASE c \in DistanceExit("stop_loss", 0, p, k, p.sl, TRUE)
  <2>1. /\ c = Candidate("stop_loss", 0, FillPrice(p.side, k, p.sl, TRUE))
        /\ c.price \in Int /\ k.low <= c.price /\ c.price <= k.high
    BY <1>0, <1>1, DistanceExitFacts
  <2>2. c.type = "stop_loss" /\ c.rule = 0
    BY <2>1 DEF Candidate
  <2>3. c.type \in DOMAIN Priority
    BY <2>2, PriorityDomain
  <2>4. c.rule \in Nat \cup {None}
    BY <2>2
  <2>5. QED BY <2>1, <2>3, <2>4
<1>2. CASE c \in DistanceExit("take_profit", 0, p, k, p.tp, FALSE)
  <2>1. /\ c = Candidate("take_profit", 0, FillPrice(p.side, k, p.tp, FALSE))
        /\ c.price \in Int /\ k.low <= c.price /\ c.price <= k.high
    BY <1>0, <1>2, DistanceExitFacts
  <2>2. c.type = "take_profit" /\ c.rule = 0
    BY <2>1 DEF Candidate
  <2>3. c.type \in DOMAIN Priority
    BY <2>2, PriorityDomain
  <2>4. c.rule \in Nat \cup {None}
    BY <2>2
  <2>5. QED BY <2>1, <2>3, <2>4
<1>3. CASE c \in DistanceExit("managed_stop", p.stopRule, p, k, p.stop, TRUE)
  <2>1. /\ c = Candidate("managed_stop", p.stopRule, FillPrice(p.side, k, p.stop, TRUE))
        /\ c.price \in Int /\ k.low <= c.price /\ c.price <= k.high
    BY <1>0, <1>3, DistanceExitFacts
  <2>2. c.type = "managed_stop" /\ c.rule = p.stopRule
    BY <2>1 DEF Candidate
  <2>3. QED BY <1>0, <1>01, <2>1, <2>2, PriorityDomain
<1>4. CASE \E i \in Signals : c = Candidate("signal", i, k.close)
  BY <1>4, <1>01, <1>02, PriorityDomain DEF Candidate
<1>5. CASE \E i \in p.armed : c = Candidate(RuntimeType(RuntimeRules[i].kind), i, k.close)
  BY <1>5, <1>0, <1>01, <1>02, PriorityDomain DEF Candidate, RuntimeType
<1>6. QED
  BY <1>1, <1>2, <1>3, <1>4, <1>5 DEF Candidates, PolicyCandidates, ManagedCandidates

\* The fields of a rule, wherever it stands in its list.
LEMMA RuleFacts ==
  /\ \A i \in DOMAIN PhaseRules : PhaseRules[i].to \in Phases
  /\ \A i \in DOMAIN StopRules : /\ StopRules[i].activate \in Phases
                                 /\ StopRules[i].offset \in Nat
                                 /\ StopRules[i].perAtr \in BOOLEAN
  /\ \A i \in DOMAIN TakeRules : TakeRules[i].activate \in Phases
  /\ \A i \in DOMAIN RuntimeRules : RuntimeRules[i].activate \in Phases
<1>0. \A S : \A q \in Seq(S) : \A i \in DOMAIN q : q[i] \in S
  OBVIOUS
<1>1. \A i \in DOMAIN PhaseRules : PhaseRules[i].to \in Phases
  <2>1. \A i \in DOMAIN PhaseRules :
          PhaseRules[i] \in [to : Phases \ {InitialRisk}, threshold : Nat,
                            cond : {"mfe_atr", "mfe_pct", "bars_in_trade", "adx_di"}]
    BY <1>0, RulesAssumption DEF RulesAssumption
  <2>2. QED BY <2>1
<1>2. \A i \in DOMAIN StopRules :
        StopRules[i] \in [activate : Phases, offset : Nat, perAtr : BOOLEAN]
  BY <1>0, RulesAssumption DEF RulesAssumption
<1>3. \A i \in DOMAIN TakeRules :
        TakeRules[i] \in [activate : Phases, action : {"keep_initial", "disable_initial_tp"}]
  BY <1>0, RulesAssumption DEF RulesAssumption
<1>4. \A i \in DOMAIN RuntimeRules :
        RuntimeRules[i] \in [activate : Phases, kind : ExitKinds, phaseOnly : BOOLEAN]
  BY <1>0, RulesAssumption DEF RulesAssumption
<1>5. QED BY <1>1, <1>2, <1>3, <1>4

\* Looking at one more bar changes only the age and the best price of a trade.
LEMMA ObservedType ==
  ASSUME NEW p \in Position, NEW k \in Candles, NEW b \in Int
  PROVE  /\ Observed(p, k, b) \in Position
         /\ Observed(p, k, b).phase = p.phase
         /\ \A ph \in Phases : [Observed(p, k, b) EXCEPT !.phase = ph] \in Position
<1>1. k.high \in Prices /\ k.low \in Prices
  BY CandleFacts
<1>2. p.best \in Prices /\ p.entry \in Int
  BY MarketAssumption DEF Position
<1>3. Tighter(p.side, p.best, IF p.side = "long" THEN k.high ELSE k.low) \in Prices
  BY <1>1, <1>2 DEF Tighter
<1>4. b - p.entry + 1 \in Int
  BY <1>2
<1>5. QED BY <1>3, <1>4 DEF Observed, Position

\* The phase rules of a bar lead to a phase, and never to an earlier one.
LEMMA PhasesAfterFacts ==
  ASSUME NEW p \in Position, NEW x \in Readings, NEW ph \in PhasesAfter(p, x)
  PROVE  ph \in Phases /\ p.phase <= ph
<1>1. p.phase \in Phases
  BY DEF Position
<1>2. \A i \in FiredPhaseRules(p, x) : PhaseRules[i].to \in Phases
  BY RuleFacts DEF FiredPhaseRules, Advancing
<1>3. QED BY <1>1, <1>2 DEF PhasesAfter

\* A stop rule proposes an integer price.
LEMMA StopPriceType ==
  ASSUME NEW p \in Position, NEW x \in Readings, NEW i \in DOMAIN StopRules
  PROVE  StopPrice(StopRules[i], p, x) \in Int
<1>1. StopRules[i].offset \in Nat /\ StopRules[i].perAtr \in BOOLEAN
  BY RuleFacts
<1>2. x.atr \in Nat
  BY MarketAssumption DEF Readings
<1>3. p.price \in Int
  <2>1. p.price \in Prices
    BY DEF Position
  <2>2. Prices \subseteq Int
    BY MarketAssumption DEF MarketAssumption
  <2>3. QED BY <2>1, <2>2
<1>4. StopRules[i].offset * x.atr \in Nat
  BY <1>1, <1>2
<1>5. QED BY <1>1, <1>3, <1>4 DEF StopPrice, Favourable

\* What the stop rules of a bar leave in force: a stop no looser than the one
\* before, credited to a rule the phase has activated whenever it is new.
LEMMA StopUpdatesFacts ==
  ASSUME NEW p \in Position, NEW x \in Readings, NEW s \in StopUpdates(p, x)
  PROVE  /\ s.stop \in Levels /\ s.rule \in DOMAIN StopRules \cup {None}
         /\ p.stop # None => s.stop # None /\ AtLeast(p.side, s.stop, p.stop)
         /\ \/ s.stop = p.stop /\ s.rule = p.stopRule
            \/ s.rule \in DOMAIN StopRules /\ StopRules[s.rule].activate <= p.phase
<1>0. /\ p.stop \in Levels /\ p.stopRule \in DOMAIN StopRules \cup {None}
      /\ p.side \in Sides
  BY MarketAssumption DEF Position
<1>1. CASE ProposingStops(p, x) = {}
  <2>1. s = [stop |-> p.stop, rule |-> p.stopRule]
    BY <1>1 DEF StopUpdates
  <2>2. s.stop = p.stop /\ s.rule = p.stopRule
    BY <2>1
  <2>3. QED BY <1>0, <2>2 DEF Levels, AtLeast
<1>2. CASE ProposingStops(p, x) # {}
  <2>1. PICK i \in MergedStops(p, x) :
          LET stop == Tightened(p.side, p.stop, StopPrice(StopRules[i], p, x))
          IN  s = [stop |-> stop, rule |-> IF stop = p.stop THEN p.stopRule ELSE i]
    BY <1>2 DEF StopUpdates
  <2> DEFINE q == StopPrice(StopRules[i], p, x)
  <2>2. i \in DOMAIN StopRules /\ StopRules[i].activate <= p.phase
    BY DEF MergedStops, ProposingStops
  <2>3. q \in Int
    BY <2>2, StopPriceType
  <2>4. /\ s.stop = Tightened(p.side, p.stop, q)
        /\ s.rule = IF s.stop = p.stop THEN p.stopRule ELSE i
    BY <2>1
  <2> HIDE DEF q
  <2>5. s.stop \in Int
    BY <1>0, <2>3, <2>4 DEF Tightened, Tighter, Levels
  <2>6. p.stop # None => AtLeast(p.side, s.stop, p.stop)
    BY <1>0, <2>3, <2>4 DEF Tightened, Tighter, AtLeast, Levels
  <2>7. QED BY <1>0, <2>2, <2>4, <2>5, <2>6, NoneAssumption DEF Levels
<1>3. QED BY <1>1, <1>2

\* What the take rules of a bar leave in force, and for which phase.
LEMMA TakeUpdatesFacts ==
  ASSUME NEW p \in Position, NEW t \in TakeUpdates(p)
  PROVE  /\ t.take \in TakeProfiles /\ t.rule \in DOMAIN TakeRules \cup {None}
         /\ \/ t.take = p.take /\ t.rule = p.takeRule
            \/ /\ t.rule \in DOMAIN TakeRules
               /\ TakeRules[t.rule].activate <= p.phase
               /\ TakeProfile(TakeRules[t.rule].action) = t.take
<1>0. p.take \in TakeProfiles /\ p.takeRule \in DOMAIN TakeRules \cup {None}
  BY DEF Position
<1>1. CASE ActiveTakes(p) = {}
  <2>1. t = [take |-> p.take, rule |-> p.takeRule]
    BY <1>1 DEF TakeUpdates
  <2>2. QED BY <1>0, <2>1
<1>2. CASE ActiveTakes(p) # {}
  <2>1. PICK i \in ActiveTakes(p) :
          LET take == TakeProfile(TakeRules[i].action)
          IN  t = [take |-> take, rule |-> IF take = p.take THEN p.takeRule ELSE i]
    BY <1>2 DEF TakeUpdates
  <2>2. i \in DOMAIN TakeRules /\ TakeRules[i].activate <= p.phase
    BY DEF ActiveTakes
  <2>3. /\ t.take = TakeProfile(TakeRules[i].action)
        /\ t.rule = IF t.take = p.take THEN p.takeRule ELSE i
    BY <2>1
  <2>4. t.take \in TakeProfiles
    BY <2>3 DEF TakeProfile, TakeProfiles
  <2>5. QED BY <1>0, <2>2, <2>3, <2>4
<1>3. QED BY <1>1, <1>2

(***************************************************************************)
(* Type correctness.                                                        *)
(***************************************************************************)

\* A position opened at a bar's close is a position with nothing managed in force.
LEMMA NewPositionType ==
  ASSUME NEW masks \in SUBSET Sides, EntrySide(masks) # None, NEW b \in 0 .. NumBars - 1,
         NEW c \in Prices, NEW profile \in Profiles,
         NEW slDistance \in StopDistances, NEW tpDistance \in TakeDistances
  PROVE  NewPosition(EntrySide(masks), b, c, profile, slDistance, tpDistance) \in Position
<1>1. EntrySide(masks) \in TradeSides
  BY DEF EntrySide
<1>2. c \in Int
  BY MarketAssumption DEF MarketAssumption
<1>3. /\ slDistance # None => slDistance \in Int
      /\ tpDistance # None => tpDistance \in Int
  BY MarketAssumption DEF MarketAssumption
<1> DEFINE side == EntrySide(masks)
           sl == IF slDistance = None THEN None ELSE Favourable(side, c, -slDistance)
           tp == IF tpDistance = None THEN None ELSE Favourable(side, c, tpDistance)
<1>4. sl \in Levels /\ tp \in Levels
  BY <1>2, <1>3 DEF Levels, Favourable
<1>5. /\ InitialRisk \in Phases /\ "initial" \in TakeProfiles
      /\ 0 \in Int /\ None \in Levels
      /\ {} \in SUBSET DOMAIN RuntimeRules
  BY DEF InitialRisk, Phases, TakeProfiles, Levels
<1>6. NewPosition(EntrySide(masks), b, c, profile, slDistance, tpDistance) =
        [side |-> side, entry |-> b, price |-> c, profile |-> profile, sl |-> sl, tp |-> tp,
         held |-> 0, phase |-> InitialRisk, best |-> c, stop |-> None, stopRule |-> None,
         take |-> "initial", takeRule |-> None, armed |-> {}]
  BY DEF NewPosition
<1> HIDE DEF side, sl, tp
<1>7. side \in TradeSides
  BY <1>1 DEF side
<1>8. QED BY <1>4, <1>5, <1>6, <1>7 DEF Position

\* A position closed on a bar of the series makes a complete record.
LEMMA TradeRecordType ==
  ASSUME NEW p \in Position, NEW b \in 0 .. NumBars - 1, NEW price \in Int,
         NEW type \in DOMAIN Priority \cup {"open"}, NEW rule \in Nat \cup {None}
  PROVE  TradeRecord(p, b, price, type, rule) \in Trade
BY DEF TradeRecord, Trade, Position

\* What a provider update leaves of a position (update_end_of_bar_snapshot): the
\* phase, the stop and the take profile move as the lemmas above say.
LEMMA HoldFacts ==
  ASSUME TypeOK, Hold
  PROVE  /\ pos \in Position /\ pos' \in Position
         /\ candle' \in Candles
         /\ pos'.side = pos.side /\ pos'.entry = pos.entry /\ pos'.price = pos.price
         /\ pos.phase <= pos'.phase
         /\ pos.stop # None => pos'.stop # None /\ AtLeast(pos.side, pos'.stop, pos.stop)
         /\ \/ pos'.stop = pos.stop /\ pos'.stopRule = pos.stopRule
            \/ /\ pos'.stopRule \in DOMAIN StopRules
               /\ StopRules[pos'.stopRule].activate <= pos'.phase
         /\ \/ pos'.take = pos.take /\ pos'.takeRule = pos.takeRule
            \/ /\ pos'.takeRule \in DOMAIN TakeRules
               /\ TakeRules[pos'.takeRule].activate <= pos'.phase
               /\ TakeProfile(TakeRules[pos'.takeRule].action) = pos'.take
         /\ \A i \in pos'.armed : /\ RuntimeRules[i].activate <= pos'.phase
                                  /\ Event("runtime_exit_triggered", i) \in events'
<1>1. pos \in Position /\ candle' \in Candles /\ bar \in Int
  BY DEF TypeOK, Hold
<1> DEFINE o == Observed(pos, candle', bar)
<1>2. PICK x \in Readings :
        \E ph \in PhasesAfter(o, x) :
          LET p == [o EXCEPT !.phase = ph]
          IN  \E s \in StopUpdates(p, x), t \in TakeUpdates(p) :
                /\ pos' = [p EXCEPT !.stop = s.stop, !.stopRule = s.rule,
                                    !.take = t.take, !.takeRule = t.rule,
                                    !.armed = TriggeredRuntimeExits(p, x)]
                /\ events' = UpdateEvents(pos, pos', x)
  BY DEF Hold
<1>2a. PICK ph \in PhasesAfter(o, x) :
        LET p == [o EXCEPT !.phase = ph]
        IN  \E s \in StopUpdates(p, x), t \in TakeUpdates(p) :
              /\ pos' = [p EXCEPT !.stop = s.stop, !.stopRule = s.rule,
                                  !.take = t.take, !.takeRule = t.rule,
                                  !.armed = TriggeredRuntimeExits(p, x)]
              /\ events' = UpdateEvents(pos, pos', x)
  BY <1>2
<1> DEFINE p == [o EXCEPT !.phase = ph]
<1>3. PICK s \in StopUpdates(p, x), t \in TakeUpdates(p) :
        /\ pos' = [p EXCEPT !.stop = s.stop, !.stopRule = s.rule,
                            !.take = t.take, !.takeRule = t.rule,
                            !.armed = TriggeredRuntimeExits(p, x)]
        /\ events' = UpdateEvents(pos, pos', x)
  BY <1>2a
<1>4. o \in Position /\ o.phase = pos.phase
  BY <1>1, ObservedType
<1>5. ph \in Phases /\ pos.phase <= ph
  BY <1>4, PhasesAfterFacts
<1>6. p \in Position
  BY <1>1, <1>5, ObservedType
<1>7. /\ p.side = pos.side /\ p.entry = pos.entry /\ p.price = pos.price
      /\ p.stop = pos.stop /\ p.stopRule = pos.stopRule
      /\ p.take = pos.take /\ p.takeRule = pos.takeRule /\ p.phase = ph
  BY <1>1 DEF Observed, Position
<1> HIDE DEF o, p
<1>8. /\ s.stop \in Levels /\ s.rule \in DOMAIN StopRules \cup {None}
      /\ p.stop # None => s.stop # None /\ AtLeast(p.side, s.stop, p.stop)
      /\ \/ s.stop = p.stop /\ s.rule = p.stopRule
         \/ s.rule \in DOMAIN StopRules /\ StopRules[s.rule].activate <= p.phase
  BY <1>6, StopUpdatesFacts
<1>9. /\ t.take \in TakeProfiles /\ t.rule \in DOMAIN TakeRules \cup {None}
      /\ \/ t.take = p.take /\ t.rule = p.takeRule
         \/ /\ t.rule \in DOMAIN TakeRules
            /\ TakeRules[t.rule].activate <= p.phase
            /\ TakeProfile(TakeRules[t.rule].action) = t.take
  BY <1>6, TakeUpdatesFacts
<1>10. /\ TriggeredRuntimeExits(p, x) \subseteq DOMAIN RuntimeRules
       /\ \A i \in TriggeredRuntimeExits(p, x) : RuntimeRules[i].activate <= p.phase
  BY DEF TriggeredRuntimeExits
<1>11. /\ pos' \in Position
       /\ pos'.side = p.side /\ pos'.entry = p.entry /\ pos'.price = p.price
       /\ pos'.phase = p.phase
       /\ pos'.stop = s.stop /\ pos'.stopRule = s.rule
       /\ pos'.take = t.take /\ pos'.takeRule = t.rule
       /\ pos'.armed = TriggeredRuntimeExits(p, x)
  BY <1>3, <1>6, <1>8, <1>9, <1>10 DEF Position
<1>12. \A i \in pos'.armed : Event("runtime_exit_triggered", i) \in events'
  BY <1>3 DEF UpdateEvents
<1>13. QED
  BY <1>1, <1>5, <1>7, <1>8, <1>9, <1>10, <1>11, <1>12

\* What closes a trade: a candidate of the position as the bar found it.
LEMMA ExitFacts ==
  ASSUME TypeOK, Exit
  PROVE  /\ pos \in Position /\ pos' = None /\ candle' \in Candles
         /\ \E signals \in SUBSET Signals :
              \E w \in Candidates(pos, candle', signals) :
                /\ w \in Winners(Candidates(pos, candle', signals))
                /\ TradeRecord(pos, bar, w.price, w.type, w.rule) \in Trade
                /\ closed' = Append(closed, TradeRecord(pos, bar, w.price, w.type, w.rule))
<1>1. /\ pos \in Position /\ pos' = None /\ candle' \in Candles
      /\ bar \in 0 .. NumBars - 1
  BY MarketAssumption DEF TypeOK, Exit, MarketAssumption
<1>2a. PICK signals \in SUBSET Signals :
         \E w \in Winners(Candidates(pos, candle', signals)) :
           closed' = Append(closed, TradeRecord(pos, bar, w.price, w.type, w.rule))
  BY DEF Exit
<1>2. PICK w \in Winners(Candidates(pos, candle', signals)) :
        closed' = Append(closed, TradeRecord(pos, bar, w.price, w.type, w.rule))
  BY <1>2a
<1>3. w \in Candidates(pos, candle', signals)
  BY DEF Winners
<1>4. TradeRecord(pos, bar, w.price, w.type, w.rule) \in Trade
  BY <1>1, <1>3, CandidateFacts, TradeRecordType
<1>5. QED BY <1>1, <1>2, <1>3, <1>4

\* The loop's state keeps its types.
THEOREM TypeCorrect == Spec => []TypeOK
<1>1. Init => TypeOK
  <2> SUFFICES ASSUME Init PROVE TypeOK
    OBVIOUS
  <2>1. bar \in 0 .. NumBars
    BY MarketAssumption DEF Init, MarketAssumption
  <2>2. closed \in Seq(Trade)
    BY DEF Init
  <2>3. QED BY <2>1, <2>2 DEF Init, TypeOK
<1>2. TypeOK /\ [Next]_vars => TypeOK'
  <2> SUFFICES ASSUME TypeOK, [Next]_vars
               PROVE  TypeOK'
    OBVIOUS
  <2> USE MarketAssumption, NoneAssumption DEF TypeOK, MarketAssumption
  <2>1. CASE StayFlat
    BY <2>1 DEF StayFlat
  <2>2. CASE Enter
    <3>1. /\ candle' \in Candles /\ candle'.close \in Prices
          /\ bar \in 0 .. NumBars - 1 /\ bar' = bar + 1
          /\ UNCHANGED <<closed, done>>
      BY <2>2, CandleFacts DEF Enter
    <3>2. pos' \in Position
      <4>1. PICK masks \in SUBSET Sides, profile \in Profiles,
                 slDistance \in StopDistances, tpDistance \in TakeDistances :
              /\ EntrySide(masks) # None
              /\ pos' = NewPosition(EntrySide(masks), bar, candle'.close, profile,
                                    slDistance, tpDistance)
        BY <2>2 DEF Enter
      <4>2. QED BY <3>1, <4>1, NewPositionType
    <3>3. QED BY <3>1, <3>2
  <2>3. CASE Exit
    <3>1. /\ bar \in 0 .. NumBars - 1 /\ bar' = bar + 1 /\ UNCHANGED done
      BY <2>3 DEF Exit
    <3>2. /\ pos' = None /\ candle' \in Candles
          /\ \E r \in Trade : closed' = Append(closed, r)
      BY <2>3, ExitFacts
    <3>3. closed' \in Seq(Trade)
      BY <3>2
    <3>4. QED BY <3>1, <3>2, <3>3
  <2>4. CASE Hold
    <3>1. /\ bar \in 0 .. NumBars - 1 /\ bar' = bar + 1 /\ UNCHANGED <<closed, done>>
      BY <2>4 DEF Hold
    <3>2. pos' \in Position /\ candle' \in Candles
      BY <2>4, HoldFacts
    <3>3. QED BY <3>1, <3>2
  <2>5. CASE Finish
    <3>1. /\ bar = NumBars /\ pos' = None /\ done' = TRUE /\ UNCHANGED <<bar, candle>>
      BY <2>5 DEF Finish
    <3>2. closed' \in Seq(Trade)
      <4>1. CASE pos = None
        BY <2>5, <4>1 DEF Finish
      <4>2. CASE pos # None
        <5>1. pos \in Position /\ candle \in Candles
          BY <4>2
        <5>2. candle.close \in Int /\ NumBars - 1 \in 0 .. NumBars - 1
          BY <5>1, CandleFacts DEF Position
        <5>3. TradeRecord(pos, NumBars - 1, candle.close, "open", None) \in Trade
          BY <5>1, <5>2, TradeRecordType
        <5>4. QED BY <2>5, <4>2, <5>3 DEF Finish
      <4>3. QED BY <4>1, <4>2
    <3>3. QED BY <3>1, <3>2
  <2>6. CASE Returned \/ UNCHANGED vars
    BY <2>6 DEF Returned, vars
  <2>7. QED BY <2>1, <2>2, <2>3, <2>4, <2>5, <2>6 DEF Next
<1>3. QED BY <1>1, <1>2, PTL DEF Spec

(***************************************************************************)
(* The stops of a trade.                                                    *)
(***************************************************************************)

\* The managed stop of an open trade only ever tightens (apply_tighten_only_stop),
\* for any rules, any ATR and any number of bars.
THEOREM StopOnlyTightens == Spec => StopNeverLoosens
<1> DEFINE A == pos # None /\ pos' # None /\ pos.stop # None =>
                  pos'.stop # None /\ AtLeast(pos.side, pos'.stop, pos.stop)
<1>1. TypeOK /\ [Next]_vars => [A]_vars
  <2> SUFFICES ASSUME TypeOK, Next
               PROVE  [A]_vars
    OBVIOUS
  <2>1. CASE StayFlat \/ Enter
    BY <2>1 DEF StayFlat, Enter
  <2>2. CASE Exit \/ Finish
    BY <2>2 DEF Exit, Finish
  <2>3. CASE Hold
    BY <2>3, HoldFacts
  <2>4. CASE Returned
    BY <2>4 DEF Returned
  <2>5. QED BY <2>1, <2>2, <2>3, <2>4 DEF Next
<1>2. QED BY <1>1, TypeCorrect, PTL DEF Spec, StopNeverLoosens

\* A protective level the candle hits is a candidate, whatever else is.
LEMMA StopHitIsCandidate ==
  ASSUME NEW p \in Position, NEW k \in Candles, NEW signals
  PROVE  /\ p.sl # None /\ LevelHit(p.side, k, p.sl, TRUE) =>
              \E c \in Candidates(p, k, signals) : c.type = "stop_loss"
         /\ p.stop # None /\ LevelHit(p.side, k, p.stop, TRUE) =>
              \E c \in Candidates(p, k, signals) : c.type = "managed_stop"
<1>1. ASSUME p.sl # None, LevelHit(p.side, k, p.sl, TRUE)
      PROVE  \E c \in Candidates(p, k, signals) : c.type = "stop_loss"
  <2> DEFINE c == Candidate("stop_loss", 0, FillPrice(p.side, k, p.sl, TRUE))
  <2>1. c \in Candidates(p, k, signals)
    BY <1>1 DEF Candidates, PolicyCandidates, DistanceExit
  <2>2. c.type = "stop_loss"
    BY DEF Candidate
  <2>3. QED BY <2>1, <2>2
<1>2. ASSUME p.stop # None, LevelHit(p.side, k, p.stop, TRUE)
      PROVE  \E c \in Candidates(p, k, signals) : c.type = "managed_stop"
  <2> DEFINE c == Candidate("managed_stop", p.stopRule, FillPrice(p.side, k, p.stop, TRUE))
  <2>1. c \in Candidates(p, k, signals)
    BY <1>2 DEF Candidates, ManagedCandidates, DistanceExit
  <2>2. c.type = "managed_stop"
    BY DEF Candidate
  <2>3. QED BY <2>1, <2>2
<1>3. QED BY <1>1, <1>2

\* A candidate that wins over a stop is a stop, and wins over the managed stop
\* only as the managed or the initial one.
LEMMA StopsWin ==
  ASSUME NEW C, NEW w \in Winners(C), NEW c \in C, w.type \in DOMAIN Priority,
         c.type \in {"stop_loss", "managed_stop"}
  PROVE  w.type \in {"stop_loss", "managed_stop"}
<1>1. Beats(w, c)
  BY DEF Winners
<1>2. Priority[w.type] <= 2
  <2>1. Priority["stop_loss"] = 1 /\ Priority["managed_stop"] = 2
    BY DEF Priority
  <2>2. Priority[c.type] = 1 \/ Priority[c.type] = 2
    BY <2>1
  <2>3. Priority[w.type] \in Int
    BY DEF Priority
  <2>4. QED BY <1>1, <2>2, <2>3 DEF Beats
<1>3. QED BY <1>2 DEF Priority

\* The trade an exit records is one of the candidates of its bar, a winner.
LEMMA ClosingCandidate ==
  ASSUME TypeOK, Exit
  PROVE  \E signals \in SUBSET Signals :
           \E w \in Candidates(pos, candle', signals) :
             /\ w \in Winners(Candidates(pos, candle', signals))
             /\ w.type \in DOMAIN Priority /\ w.price \in Int
             /\ candle'.low <= w.price /\ w.price <= candle'.high
             /\ NewTrade = TradeRecord(pos, bar, w.price, w.type, w.rule)
             /\ NewTrade.type = w.type /\ NewTrade.price = w.price
<1>1. PICK signals \in SUBSET Signals :
        \E w \in Candidates(pos, candle', signals) :
          /\ w \in Winners(Candidates(pos, candle', signals))
          /\ closed' = Append(closed, TradeRecord(pos, bar, w.price, w.type, w.rule))
  BY ExitFacts
<1>2. PICK w \in Candidates(pos, candle', signals) :
          /\ w \in Winners(Candidates(pos, candle', signals))
          /\ closed' = Append(closed, TradeRecord(pos, bar, w.price, w.type, w.rule))
  BY <1>1
<1>3. pos \in Position /\ candle' \in Candles
  BY ExitFacts
<1>4. /\ w.type \in DOMAIN Priority /\ w.price \in Int
      /\ candle'.low <= w.price /\ w.price <= candle'.high
  BY <1>3, CandidateFacts
<1>5. NewTrade = TradeRecord(pos, bar, w.price, w.type, w.rule)
  BY <1>2 DEF NewTrade, TypeOK
<1>6. NewTrade.type = w.type /\ NewTrade.price = w.price
  BY <1>5 DEF TradeRecord
<1>7. QED BY <1>2, <1>4, <1>5, <1>6

\* The managed stop's candidate is filled at its stop or at the open.
LEMMA ManagedStopFill ==
  ASSUME NEW p \in Position, NEW k \in Candles, NEW signals \in SUBSET Signals,
         NEW c \in Candidates(p, k, signals), c.type = "managed_stop"
  PROVE  c.price = FillPrice(p.side, k, p.stop, TRUE)
<1>0. p.sl \in Levels /\ p.tp \in Levels /\ p.stop \in Levels
  BY DEF Position
<1>1. ASSUME NEW type, NEW rule, NEW price, c = Candidate(type, rule, price)
      PROVE  type = "managed_stop" /\ c.price = price
  BY <1>1 DEF Candidate
<1>2. c \notin DistanceExit("stop_loss", 0, p, k, p.sl, TRUE)
  <2>1. SUFFICES ASSUME c = Candidate("stop_loss", 0, FillPrice(p.side, k, p.sl, TRUE))
                 PROVE  FALSE
    BY <1>0, DistanceExitFacts
  <2>2. c.type = "stop_loss"
    BY <2>1 DEF Candidate
  <2>3. QED BY <2>2
<1>3. c \notin DistanceExit("take_profit", 0, p, k, p.tp, FALSE)
  <2>1. SUFFICES ASSUME c = Candidate("take_profit", 0, FillPrice(p.side, k, p.tp, FALSE))
                 PROVE  FALSE
    BY <1>0, DistanceExitFacts
  <2>2. c.type = "take_profit"
    BY <2>1 DEF Candidate
  <2>3. QED BY <2>2
<1>4. \A i : c # Candidate("signal", i, k.close)
  BY <1>1
<1>5. \A i : c # Candidate(RuntimeType(RuntimeRules[i].kind), i, k.close)
  BY <1>1 DEF RuntimeType
<1>6. c \in DistanceExit("managed_stop", p.stopRule, p, k, p.stop, TRUE)
  BY <1>2, <1>3, <1>4, <1>5 DEF Candidates, PolicyCandidates, ManagedCandidates
<1>7. c = Candidate("managed_stop", p.stopRule, FillPrice(p.side, k, p.stop, TRUE))
  BY <1>0, <1>6, DistanceExitFacts
<1>8. QED BY <1>1, <1>7

\* A bar that touches a stop in force closes the trade as a stop (ExitArbitrator).
THEOREM StopTouchedAlwaysCloses == Spec => StopTouchedCloses
<1> DEFINE A == pos # None /\ bar' > bar /\ StopHit(pos, candle') =>
                  pos' = None /\ NewTrade.type \in {"stop_loss", "managed_stop"}
<1>1. TypeOK /\ [Next]_vars => [A]_vars
  <2> SUFFICES ASSUME TypeOK, Next, pos # None, bar' > bar, StopHit(pos, candle')
               PROVE  pos' = None /\ NewTrade.type \in {"stop_loss", "managed_stop"}
    OBVIOUS
  <2>0. bar \in Int
    BY MarketAssumption DEF TypeOK
  <2>1. CASE Exit
    <3>1. PICK signals \in SUBSET Signals :
            \E w \in Winners(Candidates(pos, candle', signals)) :
              w.type \in DOMAIN Priority /\ NewTrade.type = w.type
      BY <2>1, ClosingCandidate
    <3>2. pos \in Position /\ pos' = None /\ candle' \in Candles
      BY <2>1, ExitFacts
    <3>3. \E c \in Candidates(pos, candle', signals) : c.type \in {"stop_loss", "managed_stop"}
      BY <3>2, StopHitIsCandidate DEF StopHit
    <3>4. NewTrade.type \in {"stop_loss", "managed_stop"}
      BY <3>1, <3>3, StopsWin
    <3>5. QED BY <3>2, <3>4
  <2>2. CASE Hold
    <3>1. PICK signals \in SUBSET Signals : Candidates(pos, candle', signals) = {}
      BY <2>2 DEF Hold
    <3>2. pos \in Position /\ candle' \in Candles
      BY <2>2, HoldFacts
    <3>3. QED BY <3>1, <3>2, StopHitIsCandidate DEF StopHit
  <2>3. CASE StayFlat \/ Enter
    BY <2>3 DEF StayFlat, Enter
  <2>4. CASE Finish \/ Returned
    BY <2>0, <2>4 DEF Finish, Returned, vars
  <2>5. QED BY <2>1, <2>2, <2>3, <2>4 DEF Next
<1>2. QED BY <1>1, TypeCorrect, PTL DEF Spec, StopTouchedCloses

\* Every exit is filled at a price of the bar that closed the trade.
THEOREM ExitsAreTradable == Spec => ExitPriceTradable
<1> DEFINE A == Closes => candle'.low <= NewTrade.price /\ NewTrade.price <= candle'.high
<1>1. TypeOK /\ [Next]_vars => [A]_vars
  <2> SUFFICES ASSUME TypeOK, Next, Closes
               PROVE  candle'.low <= NewTrade.price /\ NewTrade.price <= candle'.high
    OBVIOUS
  <2>0. bar \in Int
    BY MarketAssumption DEF TypeOK
  <2>1. CASE Exit
    BY <2>1, ClosingCandidate
  <2>2. CASE Hold
    <3>1. pos' \in Position
      BY <2>2, HoldFacts
    <3>2. QED BY <3>1, NoneAssumption DEF Closes
  <2>3. CASE StayFlat \/ Enter
    BY <2>3 DEF StayFlat, Enter, Closes
  <2>4. CASE Finish \/ Returned
    BY <2>0, <2>4 DEF Finish, Returned, vars, Closes
  <2>5. QED BY <2>1, <2>2, <2>3, <2>4 DEF Next
<1>2. QED BY <1>1, TypeCorrect, PTL DEF Spec, ExitPriceTradable

\* Under a managed stop a trade gets the stop, or the open if that is worse,
\* unless its initial stop closes it.
THEOREM ManagedStopAlwaysProtects == Spec => ManagedStopProtects
<1> DEFINE A == Closes /\ pos.stop # None /\ NewTrade.type # "stop_loss" =>
                  \/ AtLeast(pos.side, NewTrade.price, pos.stop)
                  \/ AtLeast(pos.side, NewTrade.price, candle'.open)
<1>1. TypeOK /\ [Next]_vars => [A]_vars
  <2> SUFFICES ASSUME TypeOK, Next, Closes, pos.stop # None, NewTrade.type # "stop_loss"
               PROVE  \/ AtLeast(pos.side, NewTrade.price, pos.stop)
                      \/ AtLeast(pos.side, NewTrade.price, candle'.open)
    OBVIOUS
  <2>0. bar \in Int
    BY MarketAssumption DEF TypeOK
  <2>1. CASE Exit
    <3>1. PICK signals \in SUBSET Signals :
            \E w \in Candidates(pos, candle', signals) :
              /\ w \in Winners(Candidates(pos, candle', signals))
              /\ w.type \in DOMAIN Priority /\ w.price \in Int
              /\ candle'.low <= w.price /\ w.price <= candle'.high
              /\ NewTrade.type = w.type /\ NewTrade.price = w.price
      BY <2>1, ClosingCandidate
    <3>2. PICK w \in Candidates(pos, candle', signals) :
              /\ w \in Winners(Candidates(pos, candle', signals))
              /\ w.type \in DOMAIN Priority /\ w.price \in Int
              /\ candle'.low <= w.price /\ w.price <= candle'.high
              /\ NewTrade.type = w.type /\ NewTrade.price = w.price
      BY <3>1
    <3>3. /\ pos \in Position /\ candle' \in Candles
          /\ pos.side \in Sides /\ pos.stop \in Int
      BY <2>1, ExitFacts, MarketAssumption DEF Position, Levels, MarketAssumption
    <3>4. /\ candle'.open \in Int /\ candle'.low \in Int /\ candle'.high \in Int
          /\ candle'.low <= candle'.open /\ candle'.open <= candle'.high
      BY <3>3, CandleFacts
    <3>5. CASE LevelHit(pos.side, candle', pos.stop, TRUE)
      <4>1. w.type = "managed_stop"
        BY <3>2, <3>3, <3>5, StopHitIsCandidate, StopsWin
      <4>2. w.price = FillPrice(pos.side, candle', pos.stop, TRUE)
        BY <3>2, <3>3, <4>1, ManagedStopFill
      <4>3. w.price = pos.stop \/ w.price = candle'.open
        BY <4>2 DEF FillPrice
      <4>4. QED BY <3>2, <3>3, <3>4, <4>3 DEF AtLeast
    <3>6. CASE ~LevelHit(pos.side, candle', pos.stop, TRUE)
      <4>1. CASE pos.side = "long"
        <5>1. candle'.low > pos.stop
          BY <3>3, <3>4, <3>6, <4>1 DEF LevelHit, GappedThrough, TriggersBelow
        <5>2. QED BY <3>2, <3>3, <3>4, <4>1, <5>1 DEF AtLeast
      <4>2. CASE pos.side = "short"
        <5>1. candle'.high < pos.stop
          BY <3>3, <3>4, <3>6, <4>2 DEF LevelHit, GappedThrough, TriggersBelow
        <5>2. QED BY <3>2, <3>3, <3>4, <4>2, <5>1 DEF AtLeast
      <4>3. QED BY <3>3, <4>1, <4>2 DEF Sides
    <3>7. QED BY <3>5, <3>6
  <2>2. CASE Hold
    <3>1. pos' \in Position
      BY <2>2, HoldFacts
    <3>2. QED BY <3>1, NoneAssumption DEF Closes
  <2>3. CASE StayFlat \/ Enter
    BY <2>3 DEF StayFlat, Enter, Closes
  <2>4. CASE Finish \/ Returned
    BY <2>0, <2>4 DEF Finish, Returned, vars, Closes
  <2>5. QED BY <2>1, <2>2, <2>3, <2>4 DEF Next
<1>2. QED BY <1>1, TypeCorrect, PTL DEF Spec, ManagedStopProtects

(***************************************************************************)
(* The phase of a trade and the management it has in force.                 *)
(***************************************************************************)

\* Whatever is in force was activated by a phase the trade has reached: a phase
\* never regresses (evaluate_phase_rules) and only an active rule is credited.
THEOREM ManagementAlwaysFollowsPhase == Spec => []ManagementFollowsPhase
<1>1. Init => ManagementFollowsPhase
  BY DEF Init, ManagementFollowsPhase
<1>2. TypeOK /\ ManagementFollowsPhase /\ [Next]_vars => ManagementFollowsPhase'
  <2> SUFFICES ASSUME TypeOK, ManagementFollowsPhase, [Next]_vars
               PROVE  ManagementFollowsPhase'
    OBVIOUS
  <2>1. CASE StayFlat \/ Exit \/ Finish
    BY <2>1 DEF StayFlat, Exit, Finish, ManagementFollowsPhase
  <2>2. CASE Enter
    BY <2>2 DEF Enter, NewPosition, ManagementFollowsPhase
  <2>3. CASE Hold
    <3>1. pos # None
      BY <2>3 DEF Hold
    <3>2. /\ pos \in Position /\ pos' \in Position /\ pos.phase <= pos'.phase
          /\ \/ pos'.stop = pos.stop /\ pos'.stopRule = pos.stopRule
             \/ /\ pos'.stopRule \in DOMAIN StopRules
                /\ StopRules[pos'.stopRule].activate <= pos'.phase
          /\ \/ pos'.take = pos.take /\ pos'.takeRule = pos.takeRule
             \/ /\ pos'.takeRule \in DOMAIN TakeRules
                /\ TakeRules[pos'.takeRule].activate <= pos'.phase
                /\ TakeProfile(TakeRules[pos'.takeRule].action) = pos'.take
          /\ \A i \in pos'.armed : RuntimeRules[i].activate <= pos'.phase
      BY <2>3, HoldFacts
    <3>3. /\ pos.phase \in Int /\ pos'.phase \in Int
          /\ pos.stopRule \in DOMAIN StopRules \cup {None}
          /\ pos.takeRule \in DOMAIN TakeRules \cup {None}
      BY <3>2 DEF Position, Phases
    <3>4. /\ \A i \in DOMAIN StopRules : StopRules[i].activate \in Int
          /\ \A i \in DOMAIN TakeRules : TakeRules[i].activate \in Int
      BY RuleFacts DEF Phases
    <3>5. None \notin DOMAIN StopRules /\ None \notin DOMAIN TakeRules
      BY NoneAssumption, RulesAssumption DEF RulesAssumption
    <3>6. /\ pos'.stop # None => pos'.stopRule # None
          /\ pos'.stopRule # None => StopRules[pos'.stopRule].activate <= pos'.phase
      BY <3>1, <3>2, <3>3, <3>4, <3>5 DEF ManagementFollowsPhase
    <3>7. /\ pos'.take # "initial" => pos'.takeRule # None
          /\ pos'.takeRule # None => /\ TakeRules[pos'.takeRule].activate <= pos'.phase
                                     /\ TakeProfile(TakeRules[pos'.takeRule].action) = pos'.take
      BY <3>1, <3>2, <3>3, <3>4, <3>5 DEF ManagementFollowsPhase
    <3>8. QED BY <3>2, <3>6, <3>7 DEF ManagementFollowsPhase
  <2>4. CASE Returned \/ UNCHANGED vars
    BY <2>4 DEF Returned, vars, ManagementFollowsPhase
  <2>5. QED BY <2>1, <2>2, <2>3, <2>4 DEF Next
<1>3. QED BY <1>1, <1>2, TypeCorrect, PTL DEF Spec

(***************************************************************************)
(* The trades of a run.                                                     *)
(***************************************************************************)

\* TradesDisjoint is not inductive: what keeps an exit or an entry from following
\* the record of a position left open is that the loop, once it has returned, is
\* past the last bar and flat.
DisjointInv == /\ TradesDisjoint
               /\ done => bar = NumBars /\ pos = None

\* A record appended after trades that end before its entry keeps them disjoint.
LEMMA AppendDisjoint ==
  ASSUME NEW trades \in Seq(Trade), NEW r \in Trade,
         \A i \in DOMAIN trades : i > 1 => trades[i - 1].exit < trades[i].entry,
         trades # <<>> => trades[Len(trades)].exit < r.entry
  PROVE  /\ DOMAIN Append(trades, r) = 1 .. Len(trades) + 1
         /\ \A i \in DOMAIN trades : Append(trades, r)[i] = trades[i]
         /\ Append(trades, r)[Len(trades) + 1] = r
         /\ \A i \in DOMAIN Append(trades, r) :
              i > 1 => Append(trades, r)[i - 1].exit < Append(trades, r)[i].entry
<1> DEFINE new == Append(trades, r)
<1>1. /\ DOMAIN trades = 1 .. Len(trades) /\ Len(trades) \in Nat
      /\ DOMAIN new = 1 .. Len(trades) + 1
      /\ \A i \in DOMAIN trades : new[i] = trades[i]
      /\ new[Len(trades) + 1] = r
  OBVIOUS
<1> HIDE DEF new
<1>2. ASSUME NEW i \in DOMAIN new, i > 1
      PROVE  new[i - 1].exit < new[i].entry
  <2>1. CASE i \in DOMAIN trades
    <3>1. i - 1 \in DOMAIN trades
      BY <1>1, <1>2, <2>1
    <3>2. QED BY <1>1, <1>2, <2>1, <3>1
  <2>2. CASE i = Len(trades) + 1
    <3>1. trades # <<>> /\ i - 1 = Len(trades) /\ i - 1 \in DOMAIN trades
      BY <1>1, <1>2, <2>2
    <3>2. QED BY <1>1, <2>2, <3>1
  <2>3. i \in DOMAIN trades \/ i = Len(trades) + 1
    BY <1>1
  <2>4. QED BY <2>1, <2>2, <2>3
<1>3. QED BY <1>1, <1>2 DEF new

\* Trades never overlap, and no bar both closes and opens one.
THEOREM TradesAlwaysDisjoint == Spec => []TradesDisjoint
<1>1. Init => DisjointInv
  BY DEF Init, DisjointInv, TradesDisjoint
<1>2. TypeOK /\ DisjointInv /\ [Next]_vars => DisjointInv'
  <2> SUFFICES ASSUME TypeOK, DisjointInv, [Next]_vars
               PROVE  DisjointInv'
    OBVIOUS
  <2>00. /\ closed \in Seq(Trade) /\ bar \in Int /\ NumBars \in Nat
         /\ \A i \in DOMAIN closed : closed[i] \in Trade
    BY MarketAssumption DEF TypeOK, MarketAssumption
  <2>01. closed # <<>> => Len(closed) \in DOMAIN closed
    BY <2>00
  <2>0. /\ bar \in Int /\ NumBars \in Nat /\ closed \in Seq(Trade)
        /\ \A i \in DOMAIN closed : closed[i] \in Trade
        /\ \A r \in Trade : r.entry \in Int /\ r.exit \in Int
        /\ \A p \in Position : p.entry \in Int
        /\ closed # <<>> => Len(closed) \in DOMAIN closed /\ LastTrade.exit < bar
    BY <2>00, <2>01 DEF Trade, Position, DisjointInv, TradesDisjoint, LastTrade
  <2>1. CASE StayFlat
    BY <2>0, <2>1 DEF StayFlat, DisjointInv, TradesDisjoint, LastTrade
  <2>2. CASE Enter
    <3>1. /\ pos'.entry = bar /\ bar' = bar + 1 /\ bar < NumBars
          /\ closed' = closed /\ done' = done
      BY <2>2 DEF Enter, NewPosition
    <3>2. ~done
      BY <2>0, <3>1 DEF DisjointInv
    <3>3. QED BY <2>0, <3>1, <3>2 DEF DisjointInv, TradesDisjoint, LastTrade
  <2>3. CASE Exit
    <3>1. /\ pos # None /\ pos' = None /\ bar' = bar + 1 /\ done' = done
      BY <2>3 DEF Exit
    <3>2. pos \in Position
      BY <3>1 DEF TypeOK
    <3>3. PICK r \in Trade : /\ closed' = Append(closed, r)
                             /\ r.type # "open" /\ r.entry = pos.entry /\ r.exit = bar
      <4>1. PICK signals \in SUBSET Signals :
              \E w \in Candidates(pos, candle', signals) :
                /\ TradeRecord(pos, bar, w.price, w.type, w.rule) \in Trade
                /\ closed' = Append(closed, TradeRecord(pos, bar, w.price, w.type, w.rule))
        BY <2>3, ExitFacts
      <4>2. PICK w \in Candidates(pos, candle', signals) :
                /\ TradeRecord(pos, bar, w.price, w.type, w.rule) \in Trade
                /\ closed' = Append(closed, TradeRecord(pos, bar, w.price, w.type, w.rule))
        BY <4>1
      <4>3. w.type \in DOMAIN Priority
        BY <2>3, <3>2, ExitFacts, CandidateFacts
      <4>4. w.type # "open"
        BY <4>3, PriorityDomain
      <4>5. QED BY <4>2, <4>4 DEF TradeRecord
    <3>4. ~done
      BY <3>1 DEF DisjointInv
    <3>5. /\ closed # <<>> => closed[Len(closed)].exit < r.entry
          /\ r.entry < r.exit
      BY <3>1, <3>3 DEF DisjointInv, TradesDisjoint, LastTrade
    <3>6. /\ DOMAIN closed' = 1 .. Len(closed) + 1 /\ DOMAIN closed = 1 .. Len(closed)
          /\ \A i \in DOMAIN closed : closed'[i] = closed[i]
          /\ closed'[Len(closed) + 1] = r
          /\ \A i \in DOMAIN closed' : i > 1 => closed'[i - 1].exit < closed'[i].entry
      BY <2>0, <3>3, <3>5, AppendDisjoint DEF DisjointInv, TradesDisjoint
    <3>7. ASSUME NEW i \in DOMAIN closed'
          PROVE  /\ closed'[i].type # "open"
                 /\ closed'[i].entry < closed'[i].exit
                 /\ closed'[i].exit < bar'
      <4>1. CASE i \in DOMAIN closed
        BY <2>0, <3>1, <3>4, <3>6, <4>1 DEF DisjointInv, TradesDisjoint
      <4>2. CASE i = Len(closed) + 1
        BY <2>0, <3>1, <3>3, <3>5, <3>6, <4>2
      <4>3. QED BY <2>0, <3>6, <3>7, <4>1, <4>2
    <3>8. QED BY <3>1, <3>4, <3>6, <3>7 DEF DisjointInv, TradesDisjoint
  <2>4. CASE Hold
    <3>1. /\ bar' = bar + 1 /\ closed' = closed /\ done' = done /\ pos # None
      BY <2>4 DEF Hold
    <3>2. pos \in Position /\ pos'.entry = pos.entry
      BY <2>4, HoldFacts
    <3>3. ~done
      BY <3>1 DEF DisjointInv
    <3>4. QED BY <2>0, <3>1, <3>2, <3>3 DEF DisjointInv, TradesDisjoint, LastTrade
  <2>5. CASE Finish
    <3>1. bar = NumBars /\ bar' = bar /\ done' = TRUE /\ pos' = None /\ ~done
      BY <2>5 DEF Finish
    <3>2. CASE pos = None
      BY <2>5, <3>1, <3>2 DEF Finish, DisjointInv, TradesDisjoint
    <3>3. CASE pos # None
      <4> DEFINE r == TradeRecord(pos, NumBars - 1, candle.close, "open", None)
      <4>1. /\ pos \in Position /\ candle \in Candles
            /\ closed' = Append(closed, r)
        BY <2>5, <3>3 DEF TypeOK, Finish
      <4>2. candle.close \in Int /\ NumBars - 1 \in 0 .. NumBars - 1
        BY <2>0, <4>1, CandleFacts DEF Position
      <4>3. /\ r \in Trade
            /\ r.type = "open" /\ r.entry = pos.entry /\ r.exit = NumBars - 1
        BY <4>1, <4>2, TradeRecordType DEF TradeRecord
      <4> HIDE DEF r
      <4>4. closed # <<>> => closed[Len(closed)].exit < r.entry
        BY <3>3, <4>3 DEF DisjointInv, TradesDisjoint, LastTrade
      <4>5. /\ DOMAIN closed' = 1 .. Len(closed) + 1 /\ DOMAIN closed = 1 .. Len(closed)
            /\ Len(closed') = Len(closed) + 1
            /\ \A i \in DOMAIN closed : closed'[i] = closed[i]
            /\ closed'[Len(closed) + 1] = r
            /\ \A i \in DOMAIN closed' : i > 1 => closed'[i - 1].exit < closed'[i].entry
        BY <2>0, <4>1, <4>3, <4>4, AppendDisjoint DEF DisjointInv, TradesDisjoint
      <4>6. ASSUME NEW i \in DOMAIN closed'
            PROVE  /\ closed'[i].type = "open" => i = Len(closed')
                   /\ closed'[i].type # "open" => closed'[i].entry < closed'[i].exit
                   /\ closed'[i].exit < bar'
        <5>1. CASE i \in DOMAIN closed
          BY <2>0, <3>1, <4>5, <5>1 DEF DisjointInv, TradesDisjoint
        <5>2. CASE i = Len(closed) + 1
          BY <2>0, <3>1, <4>3, <4>5, <5>2
        <5>3. QED BY <2>0, <4>5, <4>6, <5>1, <5>2
      <4>7. QED BY <3>1, <4>5, <4>6 DEF DisjointInv, TradesDisjoint
    <3>4. QED BY <3>2, <3>3
  <2>6. CASE Returned \/ UNCHANGED vars
    BY <2>6 DEF Returned, vars, DisjointInv, TradesDisjoint, LastTrade
  <2>7. QED BY <2>1, <2>2, <2>3, <2>4, <2>5, <2>6 DEF Next
<1>3. DisjointInv => TradesDisjoint
  BY DEF DisjointInv
<1>4. QED BY <1>1, <1>2, <1>3, TypeCorrect, PTL DEF Spec

(***************************************************************************)
(* What the provider decides acts one bar later.                            *)
(***************************************************************************)

\* A managed candidate comes from the snapshot: the managed stop from a stop in
\* force, a runtime exit from a rule that is armed.
LEMMA ManagedCandidateOrigin ==
  ASSUME NEW p \in Position, NEW k \in Candles, NEW signals \in SUBSET Signals,
         NEW c \in Candidates(p, k, signals), c.type \in ManagedTypes
  PROVE  IF c.type = "managed_stop" THEN p.stop # None ELSE c.rule \in p.armed
<1>0. p.sl \in Levels /\ p.tp \in Levels /\ p.stop \in Levels
  BY DEF Position
<1>1. CASE c \in DistanceExit("stop_loss", 0, p, k, p.sl, TRUE)
  <2>1. c = Candidate("stop_loss", 0, FillPrice(p.side, k, p.sl, TRUE))
    BY <1>0, <1>1, DistanceExitFacts
  <2>2. c.type = "stop_loss"
    BY <2>1 DEF Candidate
  <2>3. QED BY <2>2 DEF ManagedTypes
<1>2. CASE c \in DistanceExit("take_profit", 0, p, k, p.tp, FALSE)
  <2>1. c = Candidate("take_profit", 0, FillPrice(p.side, k, p.tp, FALSE))
    BY <1>0, <1>2, DistanceExitFacts
  <2>2. c.type = "take_profit"
    BY <2>1 DEF Candidate
  <2>3. QED BY <2>2 DEF ManagedTypes
<1>3. CASE c \in DistanceExit("managed_stop", p.stopRule, p, k, p.stop, TRUE)
  <2>1. /\ c = Candidate("managed_stop", p.stopRule, FillPrice(p.side, k, p.stop, TRUE))
        /\ p.stop \in Int
    BY <1>0, <1>3, DistanceExitFacts
  <2>2. c.type = "managed_stop"
    BY <2>1 DEF Candidate
  <2>3. QED BY <2>1, <2>2, NoneAssumption
<1>4. CASE \E i \in Signals : c = Candidate("signal", i, k.close)
  BY <1>4 DEF Candidate, ManagedTypes
<1>5. CASE \E i \in p.armed : c = Candidate(RuntimeType(RuntimeRules[i].kind), i, k.close)
  <2>1. PICK i \in p.armed : c = Candidate(RuntimeType(RuntimeRules[i].kind), i, k.close)
    BY <1>5
  <2>2. c.type = RuntimeType(RuntimeRules[i].kind) /\ c.rule = i
    BY <2>1 DEF Candidate
  <2>3. c.type # "managed_stop"
    BY <2>2 DEF RuntimeType
  <2>4. QED BY <2>2, <2>3
<1>6. QED
  BY <1>1, <1>2, <1>3, <1>4, <1>5 DEF Candidates, PolicyCandidates, ManagedCandidates

\* ManagedExitsAreDelayed is inductive only where a position is older than the
\* bar about to be processed, which TradesDisjoint says.
DelayInv == ManagedExitsAreDelayed /\ (pos # None => pos.entry < bar)

\* The strengthened invariant holds.
LEMMA DelayInductive == Spec => []DelayInv
<1>1. Init => DelayInv
  BY DEF Init, DelayInv, ManagedExitsAreDelayed
<1>2. TypeOK /\ DelayInv /\ [Next]_vars => DelayInv'
  <2> SUFFICES ASSUME TypeOK, DelayInv, [Next]_vars
               PROVE  DelayInv'
    OBVIOUS
  <2>0. /\ closed \in Seq(Trade) /\ bar \in Int
        /\ \A p \in Position : p.entry \in Int
    BY MarketAssumption DEF TypeOK, Position
  <2>1. CASE StayFlat
    BY <2>1 DEF StayFlat, DelayInv, ManagedExitsAreDelayed
  <2>2. CASE Enter
    <3>1. /\ pos'.entry = bar /\ bar' = bar + 1 /\ closed' = closed
          /\ pos'.stop = None /\ pos'.armed = {}
      BY <2>2 DEF Enter, NewPosition
    <3>2. QED BY <2>0, <3>1 DEF DelayInv, ManagedExitsAreDelayed
  <2>3. CASE Exit
    <3>1. /\ pos # None /\ pos' = None
      BY <2>3 DEF Exit
    <3>2. pos \in Position /\ candle' \in Candles
      BY <2>3, ExitFacts
    <3>3. PICK signals \in SUBSET Signals :
            \E w \in Candidates(pos, candle', signals) :
              /\ TradeRecord(pos, bar, w.price, w.type, w.rule) \in Trade
              /\ closed' = Append(closed, TradeRecord(pos, bar, w.price, w.type, w.rule))
      BY <2>3, ExitFacts
    <3>4. PICK w \in Candidates(pos, candle', signals) :
              /\ TradeRecord(pos, bar, w.price, w.type, w.rule) \in Trade
              /\ closed' = Append(closed, TradeRecord(pos, bar, w.price, w.type, w.rule))
      BY <3>3
    <3> DEFINE r == TradeRecord(pos, bar, w.price, w.type, w.rule)
    <3>5. r.type = w.type /\ r.entry = pos.entry /\ r.exit = bar /\ closed' = Append(closed, r)
      BY <3>4 DEF TradeRecord
    <3>6. r.type \in ManagedTypes => pos.stop # None \/ pos.armed # {}
      BY <3>2, <3>5, ManagedCandidateOrigin
    <3>7. r.type \in ManagedTypes => r.exit >= r.entry + 2
      BY <2>0, <3>1, <3>2, <3>5, <3>6 DEF DelayInv, ManagedExitsAreDelayed
    <3> HIDE DEF r
    <3>8. \A i \in DOMAIN closed' : closed'[i] = r \/ (i \in DOMAIN closed /\ closed'[i] = closed[i])
      BY <2>0, <3>5
    <3>9. QED BY <3>1, <3>7, <3>8 DEF DelayInv, ManagedExitsAreDelayed
  <2>4. CASE Hold
    <3>1. /\ bar' = bar + 1 /\ closed' = closed /\ pos # None
      BY <2>4 DEF Hold
    <3>2. pos \in Position /\ pos'.entry = pos.entry
      BY <2>4, HoldFacts
    <3>3. QED BY <2>0, <3>1, <3>2 DEF DelayInv, ManagedExitsAreDelayed
  <2>5. CASE Finish
    <3>1. pos' = None
      BY <2>5 DEF Finish
    <3>2. PICK r : /\ r.type = "open"
                   /\ closed' = closed \/ closed' = Append(closed, r)
      BY <2>5 DEF Finish, TradeRecord
    <3>3. r.type \notin ManagedTypes
      BY <3>2 DEF ManagedTypes
    <3>4. \A i \in DOMAIN closed' : closed'[i] = r \/ (i \in DOMAIN closed /\ closed'[i] = closed[i])
      BY <2>0, <3>2
    <3>5. QED BY <3>1, <3>3, <3>4 DEF DelayInv, ManagedExitsAreDelayed
  <2>6. CASE Returned \/ UNCHANGED vars
    BY <2>6 DEF Returned, vars, DelayInv, ManagedExitsAreDelayed
  <2>7. QED BY <2>1, <2>2, <2>3, <2>4, <2>5, <2>6 DEF Next
<1>3. QED BY <1>1, <1>2, TypeCorrect, PTL DEF Spec

\* No managed stop and no runtime exit closes a trade on its entry bar or on the
\* next one, since the provider does not run on the entry bar.
THEOREM ManagedExitsAlwaysDelayed == Spec => []ManagedExitsAreDelayed
<1>1. DelayInv => ManagedExitsAreDelayed
  BY DEF DelayInv
<1>2. QED BY <1>1, DelayInductive, PTL

\* Every runtime exit in force was announced by the bar that armed it.
ArmedAnnounced ==
  pos # None => \A i \in pos.armed : Event("runtime_exit_triggered", i) \in events

\* An armed runtime exit closes the trade on the next bar, and none closes a trade
\* that the bar before did not announce (evaluate_runtime_exits).
THEOREM ArmedExitsAlwaysClose == Spec => ArmedExitsClose
<1> DEFINE A == /\ pos # None /\ bar' > bar /\ pos.armed # {} => pos' = None
                /\ Closes /\ NewTrade.type \in ManagedTypes \ {"managed_stop"} =>
                     Event("runtime_exit_triggered", NewTrade.rule) \in events
<1>1. Init => ArmedAnnounced
  BY DEF Init, ArmedAnnounced
<1>2. TypeOK /\ ArmedAnnounced /\ [Next]_vars => ArmedAnnounced'
  <2> SUFFICES ASSUME TypeOK, ArmedAnnounced, [Next]_vars
               PROVE  ArmedAnnounced'
    OBVIOUS
  <2>1. CASE StayFlat \/ Exit \/ Finish
    BY <2>1 DEF StayFlat, Exit, Finish, ArmedAnnounced
  <2>2. CASE Enter
    BY <2>2 DEF Enter, NewPosition, ArmedAnnounced
  <2>3. CASE Hold
    BY <2>3, HoldFacts DEF ArmedAnnounced
  <2>4. CASE Returned \/ UNCHANGED vars
    BY <2>4 DEF Returned, vars, ArmedAnnounced
  <2>5. QED BY <2>1, <2>2, <2>3, <2>4 DEF Next
<1>3. TypeOK /\ ArmedAnnounced /\ [Next]_vars => [A]_vars
  <2> SUFFICES ASSUME TypeOK, ArmedAnnounced, Next
               PROVE  A
    OBVIOUS
  <2>0. bar \in Int
    BY MarketAssumption DEF TypeOK
  <2>1. CASE Exit
    <3>1. pos \in Position /\ pos' = None /\ candle' \in Candles /\ pos # None
      BY <2>1, ExitFacts DEF Exit
    <3>2. PICK signals \in SUBSET Signals :
            \E w \in Candidates(pos, candle', signals) :
              /\ NewTrade = TradeRecord(pos, bar, w.price, w.type, w.rule)
              /\ NewTrade.type = w.type
      BY <2>1, ClosingCandidate
    <3>3. PICK w \in Candidates(pos, candle', signals) :
              NewTrade.type = w.type /\ NewTrade.rule = w.rule
      BY <3>2 DEF TradeRecord
    <3>4. NewTrade.type \in ManagedTypes \ {"managed_stop"} => NewTrade.rule \in pos.armed
      BY <3>1, <3>3, ManagedCandidateOrigin
    <3>5. QED BY <3>1, <3>4 DEF ArmedAnnounced
  <2>2. CASE Hold
    <3>1. PICK signals \in SUBSET Signals : Candidates(pos, candle', signals) = {}
      BY <2>2 DEF Hold
    <3>2. pos.armed = {}
      BY <3>1 DEF Candidates, ManagedCandidates
    <3>3. pos' \in Position
      BY <2>2, HoldFacts
    <3>4. QED BY <3>2, <3>3, NoneAssumption DEF Closes
  <2>3. CASE StayFlat \/ Enter
    BY <2>3 DEF StayFlat, Enter, Closes
  <2>4. CASE Finish \/ Returned
    BY <2>0, <2>4 DEF Finish, Returned, vars, Closes
  <2>5. QED BY <2>1, <2>2, <2>3, <2>4 DEF Next
<1>4. QED BY <1>1, <1>2, <1>3, TypeCorrect, PTL DEF Spec, ArmedExitsClose

(***************************************************************************)
(* The loop implements the ledger.                                          *)
(***************************************************************************)

\* What the ledger sees of the trades, and of one more of them.
LEMMA BookingAppends ==
  ASSUME NEW trades \in Seq(Trade), NEW r \in Trade
  PROVE  [i \in DOMAIN Append(trades, r) |-> Booking(Append(trades, r)[i])] =
           Append([i \in DOMAIN trades |-> Booking(trades[i])], Booking(r))
<1> DEFINE book == [i \in DOMAIN trades |-> Booking(trades[i])]
           new  == [i \in DOMAIN Append(trades, r) |-> Booking(Append(trades, r)[i])]
           S    == [side : TradeSides, entry : 0 .. NumBars - 1, entryPrice : Prices,
                    exit : 0 .. NumBars - 1, price : Int]
<1>1. \A t \in Trade : Booking(t) \in S
  BY DEF Booking, Trade
<1>2. /\ DOMAIN trades = 1 .. Len(trades) /\ Len(trades) \in Nat
      /\ \A i \in DOMAIN trades : trades[i] \in Trade
      /\ DOMAIN Append(trades, r) = 1 .. Len(trades) + 1
      /\ \A i \in DOMAIN trades : Append(trades, r)[i] = trades[i]
      /\ Append(trades, r)[Len(trades) + 1] = r
  OBVIOUS
<1> HIDE DEF S
<1>3. book \in Seq(S) /\ Len(book) = Len(trades)
  BY <1>1, <1>2
<1>4. DOMAIN new = 1 .. Len(trades) + 1
  BY <1>2
<1>5. /\ DOMAIN Append(book, Booking(r)) = 1 .. Len(trades) + 1
      /\ \A i \in 1 .. Len(trades) : Append(book, Booking(r))[i] = book[i]
      /\ Append(book, Booking(r))[Len(trades) + 1] = Booking(r)
      /\ Append(book, Booking(r)) = [i \in 1 .. Len(trades) + 1 |-> Append(book, Booking(r))[i]]
  BY <1>1, <1>3
<1>6. \A i \in 1 .. Len(trades) + 1 : new[i] = Append(book, Booking(r))[i]
  BY <1>2, <1>5
<1> QED BY <1>4, <1>5, <1>6

\* Every price between two prices of the market is one of them.
LEMMA BetweenPrices ==
  ASSUME NEW k \in Candles, NEW price \in Int, k.low <= price, price <= k.high
  PROVE  price \in Prices
BY CandleFacts, MarketAssumption DEF MarketAssumption

\* Every step of the loop is a step of the ledger or leaves it as it is: one
\* position at a time, each entered in the ledger once, at a price of the market.
THEOREM LoopImplementsLedger == Spec => ImplementsLedger
<1>1. Init => Ledger!Start
  BY DEF Init, Ledger!Start
<1>2. TypeOK /\ DelayInv /\ [Next]_vars => [Ledger!Move]_Ledger!ledgerVars
  <2> SUFFICES ASSUME TypeOK, DelayInv, [Next]_vars
               PROVE  [Ledger!Move]_Ledger!ledgerVars
    OBVIOUS
  <2>0. /\ bar \in Int /\ NumBars \in Nat /\ closed \in Seq(Trade)
        /\ \A p \in Position : /\ p.side \in TradeSides /\ p.price \in Prices /\ p.entry \in Int
                               /\ Opening(p) # None
    BY MarketAssumption, OpeningAssumption DEF TypeOK, MarketAssumption, Position, Opening
  <2>1. CASE StayFlat
    BY <2>1 DEF StayFlat, Ledger!Move, Ledger!Wait
  <2>2. CASE Enter
    <3>1. /\ bar < NumBars /\ pos = None /\ bar' = bar + 1 /\ UNCHANGED <<closed, done>>
          /\ candle' \in Candles
      BY <2>2 DEF Enter
    <3>2. pos' # None /\ Opening(pos') = [side |-> pos'.side, entry |-> bar, price |-> pos'.price]
                      /\ pos'.side \in TradeSides /\ pos'.price \in Prices
      <4>1. PICK masks \in SUBSET Sides :
              \E profile \in Profiles, slDistance \in StopDistances, tpDistance \in TakeDistances :
                /\ EntrySide(masks) # None
                /\ pos' = NewPosition(EntrySide(masks), bar, candle'.close, profile,
                                      slDistance, tpDistance)
        BY <2>2 DEF Enter
      <4>2. EntrySide(masks) \in TradeSides
        BY <4>1 DEF EntrySide
      <4>3. candle'.close \in Prices /\ bar \in 0 .. NumBars - 1
        BY <2>0, <3>1, CandleFacts DEF TypeOK
      <4>4. pos' \in Position
        BY <4>1, <4>3, NewPositionType
      <4>5. pos'.side \in TradeSides /\ pos'.price \in Prices /\ pos'.entry = bar
        BY <2>0, <4>1, <4>4 DEF NewPosition
      <4>6. QED BY <4>4, <4>5, NoneAssumption DEF Opening
    <3>3. Ledger!Open
      BY <3>1, <3>2 DEF Ledger!Open
    <3>4. QED BY <3>3 DEF Ledger!Move
  <2>3. CASE Exit
    <3>1. /\ bar < NumBars /\ pos # None /\ pos' = None /\ bar' = bar + 1 /\ UNCHANGED done
          /\ pos \in Position /\ pos.entry < bar /\ candle' \in Candles
      BY <2>3, ExitFacts DEF Exit, DelayInv
    <3>2. PICK r \in Trade, price \in Prices :
            /\ closed' = Append(closed, r)
            /\ Booking(r) = [side |-> pos.side, entry |-> pos.entry, entryPrice |-> pos.price,
                             exit |-> bar, price |-> price]
      <4>1. PICK signals \in SUBSET Signals :
              \E w \in Candidates(pos, candle', signals) :
                /\ TradeRecord(pos, bar, w.price, w.type, w.rule) \in Trade
                /\ closed' = Append(closed, TradeRecord(pos, bar, w.price, w.type, w.rule))
        BY <2>3, ExitFacts
      <4>2. PICK w \in Candidates(pos, candle', signals) :
                /\ TradeRecord(pos, bar, w.price, w.type, w.rule) \in Trade
                /\ closed' = Append(closed, TradeRecord(pos, bar, w.price, w.type, w.rule))
        BY <4>1
      <4>3. w.price \in Prices
        BY <3>1, CandidateFacts, BetweenPrices
      <4>4. Booking(TradeRecord(pos, bar, w.price, w.type, w.rule)) =
              [side |-> pos.side, entry |-> pos.entry, entryPrice |-> pos.price,
               exit |-> bar, price |-> w.price]
        BY DEF Booking, TradeRecord
      <4>5. QED BY <4>2, <4>3, <4>4
    <3>3. [i \in DOMAIN closed' |-> Booking(closed'[i])] =
            Append([i \in DOMAIN closed |-> Booking(closed[i])], Booking(r))
      BY <2>0, <3>2, BookingAppends
    <3>4. Opening(pos).side = pos.side /\ Opening(pos).entry = pos.entry /\ Opening(pos).price = pos.price
      BY DEF Opening
    <3>5. Ledger!Close
      BY <2>0, <3>1, <3>2, <3>3, <3>4 DEF Ledger!Close, Ledger!CloseWith
    <3>6. QED BY <3>5 DEF Ledger!Move
  <2>4. CASE Hold
    <3>1. /\ bar < NumBars /\ bar' = bar + 1 /\ UNCHANGED <<closed, done>> /\ pos # None
      BY <2>4 DEF Hold
    <3>2. Opening(pos') = Opening(pos) /\ pos' # None
      BY <2>4, HoldFacts, NoneAssumption DEF Opening
    <3>3. QED BY <3>1, <3>2 DEF Ledger!Move, Ledger!Wait
  <2>5. CASE Finish
    <3>1. bar = NumBars /\ ~done /\ done' = TRUE /\ pos' = None /\ bar' = bar
      BY <2>5 DEF Finish
    <3>2. CASE pos = None
      BY <2>5, <3>1, <3>2 DEF Finish, Ledger!Move, Ledger!Settle
    <3>3. CASE pos # None
      <4> DEFINE r == TradeRecord(pos, NumBars - 1, candle.close, "open", None)
      <4>1. pos \in Position /\ candle \in Candles /\ closed' = Append(closed, r)
        BY <2>5, <3>3 DEF TypeOK, Finish
      <4>2. /\ candle.close \in Prices /\ candle.close \in Int
            /\ NumBars - 1 \in 0 .. NumBars - 1
        BY <2>0, <4>1, CandleFacts DEF Position
      <4>3. r \in Trade
        BY <4>1, <4>2, TradeRecordType
      <4>4. Booking(r) = [side |-> pos.side, entry |-> pos.entry, entryPrice |-> pos.price,
                          exit |-> NumBars - 1, price |-> candle.close]
        BY DEF Booking, TradeRecord
      <4> HIDE DEF r
      <4>5. [i \in DOMAIN closed' |-> Booking(closed'[i])] =
              Append([i \in DOMAIN closed |-> Booking(closed[i])], Booking(r))
        BY <2>0, <4>1, <4>3, BookingAppends
      <4>6. Opening(pos).side = pos.side /\ Opening(pos).entry = pos.entry /\ Opening(pos).price = pos.price
        BY DEF Opening
      <4>7. Ledger!Settle
        BY <2>0, <3>1, <3>3, <4>1, <4>2, <4>4, <4>5, <4>6 DEF Ledger!Settle, Ledger!CloseWith
      <4>8. QED BY <4>7 DEF Ledger!Move
    <3>4. QED BY <3>2, <3>3
  <2>6. CASE Returned \/ UNCHANGED vars
    BY <2>6 DEF Returned, vars, Ledger!ledgerVars
  <2>7. QED BY <2>1, <2>2, <2>3, <2>4, <2>5, <2>6 DEF Next
<1>3. QED BY <1>1, <1>2, DelayInductive, TypeCorrect, PTL DEF Spec, ImplementsLedger, Ledger!LedgerSpec

(***************************************************************************)
(* The take profit of a trade.                                              *)
(***************************************************************************)

\* The take profile of an updated position is that of the last active rule; without
\* an active rule it is still the one the position opened with.
TakeInv ==
  pos # None => /\ pos.held > 0 => (pos.take = "initial" <=> TakeKept(pos))
                /\ ActiveTakes(pos) = {} => pos.take = "initial"

\* What an update makes of the take profile: the rules are looked up for the phase
\* just reached, with the profile of before.
LEMMA HoldTakes ==
  ASSUME TypeOK, Hold
  PROVE  \E p \in Position : /\ pos.phase <= p.phase /\ p.take = pos.take
                             /\ pos' \in Position /\ pos'.phase = p.phase
                             /\ \E t \in TakeUpdates(p) : pos'.take = t.take
<1>0. bar \in Int
  BY DEF TypeOK
<1>1. pos \in Position /\ pos' \in Position /\ candle' \in Candles /\ bar \in Int
  BY <1>0, HoldFacts
<1> DEFINE o == Observed(pos, candle', bar)
<1>2. PICK x \in Readings :
        \E ph \in PhasesAfter(o, x) :
          LET p == [o EXCEPT !.phase = ph]
          IN  \E s \in StopUpdates(p, x), t \in TakeUpdates(p) :
                pos' = [p EXCEPT !.stop = s.stop, !.stopRule = s.rule,
                                 !.take = t.take, !.takeRule = t.rule,
                                 !.armed = TriggeredRuntimeExits(p, x)]
  BY DEF Hold
<1>3. PICK ph \in PhasesAfter(o, x) :
        LET p == [o EXCEPT !.phase = ph]
        IN  \E s \in StopUpdates(p, x), t \in TakeUpdates(p) :
              pos' = [p EXCEPT !.stop = s.stop, !.stopRule = s.rule,
                               !.take = t.take, !.takeRule = t.rule,
                               !.armed = TriggeredRuntimeExits(p, x)]
  BY <1>2
<1> DEFINE p == [o EXCEPT !.phase = ph]
<1>4. PICK s \in StopUpdates(p, x), t \in TakeUpdates(p) :
        pos' = [p EXCEPT !.stop = s.stop, !.stopRule = s.rule,
                         !.take = t.take, !.takeRule = t.rule,
                         !.armed = TriggeredRuntimeExits(p, x)]
  BY <1>3
<1>5. o \in Position /\ o.phase = pos.phase
  BY <1>1, ObservedType
<1>6. ph \in Phases /\ pos.phase <= ph
  BY <1>5, PhasesAfterFacts
<1>7. p \in Position /\ p.take = pos.take /\ p.phase = ph
  BY <1>1, <1>5, <1>6, ObservedType DEF Observed, Position
<1> HIDE DEF o, p
<1>8. pos'.take = t.take /\ pos'.phase = p.phase
  BY <1>4, <1>7 DEF Position
<1>9. QED BY <1>1, <1>4, <1>6, <1>7, <1>8

\* The profile the rules leave is the initial one exactly if the last of them says so.
LEMMA LastTakeDecides ==
  ASSUME NEW p \in Position, NEW t \in TakeUpdates(p), ActiveTakes(p) # {}
  PROVE  t.take = "initial" <=> TakeKept(p)
<1>1. PICK i \in ActiveTakes(p) :
        /\ \A l \in ActiveTakes(p) : l <= i
        /\ LET take == TakeProfile(TakeRules[i].action)
           IN  t = [take |-> take, rule |-> IF take = p.take THEN p.takeRule ELSE i]
  BY DEF TakeUpdates
<1>2. t.take = TakeProfile(TakeRules[i].action)
  BY <1>1
<1>3. t.take = "initial" <=> TakeRules[i].action = "keep_initial"
  BY <1>2 DEF TakeProfile
<1>4. ActiveTakes(p) \subseteq Nat
  BY RulesAssumption DEF ActiveTakes
<1>5. ~ \E j \in ActiveTakes(p) : j > i
  BY <1>1, <1>4
<1>6. \A j \in ActiveTakes(p) : j = i \/ i > j
  BY <1>1, <1>4
<1>7. QED BY <1>3, <1>5, <1>6 DEF TakeKept

LEMMA TakeInductive == Spec => []TakeInv
<1>1. Init => TakeInv
  BY DEF Init, TakeInv
<1>2. ASSUME TypeOK, TakeInv, [Next]_vars
      PROVE  TakeInv'
  <2>1. CASE StayFlat
    BY <2>1 DEF StayFlat, TakeInv
  <2>2. CASE Enter
    <3>1. PICK masks \in SUBSET Sides, profile \in Profiles,
               slDistance \in StopDistances, tpDistance \in TakeDistances :
            pos' = NewPosition(EntrySide(masks), bar, candle'.close, profile,
                               slDistance, tpDistance)
      BY <2>2 DEF Enter
    <3>2. pos'.held = 0 /\ pos'.take = "initial"
      BY <3>1 DEF NewPosition
    <3>3. QED BY <3>2 DEF TakeInv
  <2>3. CASE Exit \/ Finish
    BY <2>3 DEF Exit, Finish, TakeInv
  <2>4. CASE Hold
    <3>1. PICK p \in Position : /\ pos.phase <= p.phase /\ p.take = pos.take
                                /\ pos' \in Position /\ pos'.phase = p.phase
                                /\ \E t \in TakeUpdates(p) : pos'.take = t.take
      BY <1>2, <2>4, HoldTakes
    <3>2. PICK t \in TakeUpdates(p) : pos'.take = t.take
      BY <3>1
    <3>3. ActiveTakes(pos') = ActiveTakes(p)
      BY <3>1 DEF ActiveTakes
    <3>4. TakeKept(pos') <=> TakeKept(p)
      BY <3>3 DEF TakeKept
    <3>5. CASE ActiveTakes(p) # {}
      BY <3>2, <3>3, <3>4, <3>5, LastTakeDecides DEF TakeInv
    <3>6. CASE ActiveTakes(p) = {}
      <4>1. pos \in Position /\ pos # None
        BY <1>2, <2>4, HoldFacts DEF Hold
      <4>2. pos.phase \in Int /\ p.phase \in Int
        BY <4>1 DEF Position, Phases
      <4>3. ActiveTakes(pos) \subseteq ActiveTakes(p)
        BY <3>1, <4>2, RuleFacts DEF ActiveTakes, Phases
      <4>4. pos.take = "initial"
        BY <1>2, <3>6, <4>1, <4>3 DEF TakeInv
      <4>5. t.take = p.take
        BY <3>6 DEF TakeUpdates
      <4>6. TakeKept(p)
        BY <3>6 DEF TakeKept
      <4>7. QED BY <3>1, <3>2, <3>3, <3>4, <4>4, <4>5, <4>6 DEF TakeInv
    <3>7. QED BY <3>5, <3>6
  <2>5. CASE Returned \/ UNCHANGED vars
    <3>1. pos' = pos
      BY <2>5 DEF Returned, vars
    <3>2. QED BY <1>2, <3>1 DEF TakeInv, TakeKept, ActiveTakes
  <2>6. QED BY <1>2, <2>1, <2>2, <2>3, <2>4, <2>5 DEF Next
<1>3. QED BY <1>1, <1>2, TypeCorrect, PTL DEF Spec

\* A candidate of type take_profit is the initial target's, and is there exactly
\* when the profile keeps it and the bar touches it.
LEMMA TakeCandidate ==
  ASSUME NEW p \in Position, NEW k \in Candles, NEW signals \in SUBSET Signals
  PROVE  (\E c \in Candidates(p, k, signals) : c.type = "take_profit")
         <=> /\ p.take # "disable_initial_tp"
             /\ p.tp # None /\ LevelHit(p.side, k, p.tp, FALSE)
<1>1. ASSUME p.take # "disable_initial_tp", p.tp # None, LevelHit(p.side, k, p.tp, FALSE)
      PROVE  \E c \in Candidates(p, k, signals) : c.type = "take_profit"
  <2> DEFINE c == Candidate("take_profit", 0, FillPrice(p.side, k, p.tp, FALSE))
  <2>1. c \in Candidates(p, k, signals)
    BY <1>1 DEF Candidates, PolicyCandidates, DistanceExit
  <2>2. c.type = "take_profit"
    BY DEF Candidate
  <2>3. QED BY <2>1, <2>2
<1>2. ASSUME NEW c \in Candidates(p, k, signals), c.type = "take_profit"
      PROVE  p.take # "disable_initial_tp" /\ p.tp # None /\ LevelHit(p.side, k, p.tp, FALSE)
  <2>0. \A type, rule, price : Candidate(type, rule, price).type = type
    BY DEF Candidate
  <2>1. \A type, rule, price : c = Candidate(type, rule, price) => type = "take_profit"
    BY <1>2, <2>0
  <2>2. \A i : c # Candidate("signal", i, k.close)
    BY <2>1
  <2>3. \A i : c # Candidate(RuntimeType(RuntimeRules[i].kind), i, k.close)
    BY <2>1 DEF RuntimeType
  <2>4. c \notin DistanceExit("stop_loss", 0, p, k, p.sl, TRUE)
    BY <2>1 DEF DistanceExit
  <2>5. c \notin DistanceExit("managed_stop", p.stopRule, p, k, p.stop, TRUE)
    BY <2>1 DEF DistanceExit
  <2>6. /\ p.take # "disable_initial_tp"
        /\ c \in DistanceExit("take_profit", 0, p, k, p.tp, FALSE)
    BY <2>2, <2>3, <2>4, <2>5 DEF Candidates, PolicyCandidates, ManagedCandidates
  <2>7. QED BY <2>6 DEF DistanceExit
<1>3. QED BY <1>1, <1>2

\* Where no stop is hit no candidate is a stop.
LEMMA NoStopCandidate ==
  ASSUME NEW p \in Position, NEW k \in Candles, NEW signals \in SUBSET Signals,
         ~StopHit(p, k), NEW c \in Candidates(p, k, signals)
  PROVE  c.type \notin {"stop_loss", "managed_stop"}
<1>0. \A type, rule, price : Candidate(type, rule, price).type = type
  BY DEF Candidate
<1>1. /\ DistanceExit("stop_loss", 0, p, k, p.sl, TRUE) = {}
      /\ DistanceExit("managed_stop", p.stopRule, p, k, p.stop, TRUE) = {}
  <2>1. DistanceExit("stop_loss", 0, p, k, p.sl, TRUE) = {}
    BY DEF StopHit, DistanceExit
  <2>2. DistanceExit("managed_stop", p.stopRule, p, k, p.stop, TRUE) = {}
    BY DEF StopHit, DistanceExit
  <2>3. QED BY <2>1, <2>2
<1>2. CASE c \in DistanceExit("take_profit", 0, p, k, p.tp, FALSE)
  <2>1. c = Candidate("take_profit", 0, FillPrice(p.side, k, p.tp, FALSE))
    BY <1>2, Zenon DEF DistanceExit
  <2>2. c.type = "take_profit"
    BY <2>1 DEF Candidate
  <2>3. QED BY <2>2
<1>3. CASE \E i : c = Candidate("signal", i, k.close)
  BY <1>0, <1>3
<1>4. CASE \E i : c = Candidate(RuntimeType(RuntimeRules[i].kind), i, k.close)
  BY <1>0, <1>4 DEF RuntimeType
<1>5. QED
  BY <1>1, <1>2, <1>3, <1>4 DEF Candidates, PolicyCandidates, ManagedCandidates

\* A touched take profit is taken exactly if the last active take rule keeps it
\* (evaluate_take_management), on every bar after the first update.
THEOREM TakeProfitAlwaysFollowsRules == Spec => TakeProfitFollowsRules
<1> DEFINE Touched == /\ pos # None /\ bar' > bar /\ pos.held > 0
                      /\ pos.tp # None /\ LevelHit(pos.side, candle', pos.tp, FALSE)
                      /\ ~StopHit(pos, candle')
           Taken == pos' = None /\ NewTrade.type = "take_profit"
<1>1. ASSUME TypeOK, TakeInv, Next, Touched
      PROVE  Taken <=> TakeKept(pos)
  <2>0. bar \in Int /\ pos \in Position /\ pos.take \in TakeProfiles
    BY <1>1, MarketAssumption DEF TypeOK, Position
  <2>1. TakeKept(pos) <=> pos.take # "disable_initial_tp"
    BY <1>1, <2>0 DEF TakeInv, TakeProfiles
  <2>2. CASE Exit
    <3>1. PICK signals \in SUBSET Signals :
            \E w \in Candidates(pos, candle', signals) :
              /\ w \in Winners(Candidates(pos, candle', signals))
              /\ w.type \in DOMAIN Priority /\ NewTrade.type = w.type
      BY <1>1, <2>2, ClosingCandidate
    <3>2. PICK w \in Candidates(pos, candle', signals) :
              /\ w \in Winners(Candidates(pos, candle', signals))
              /\ w.type \in DOMAIN Priority /\ NewTrade.type = w.type
      BY <3>1
    <3>3. pos' = None /\ candle' \in Candles
      BY <1>1, <2>2, ExitFacts
    <3>4. w.type \notin {"stop_loss", "managed_stop"}
      BY <1>1, <2>0, <3>3, NoStopCandidate
    <3>5. CASE TakeKept(pos)
      <4>1. PICK c \in Candidates(pos, candle', signals) : c.type = "take_profit"
        BY <1>1, <2>0, <2>1, <3>3, <3>5, TakeCandidate
      <4>2. Beats(w, c)
        BY <3>2 DEF Winners
      <4>3. Priority[w.type] <= 3
        <5>1. Priority[c.type] = 3
          BY <4>1 DEF Priority
        <5>2. Priority[w.type] \in Int
          BY <3>2 DEF Priority
        <5>3. QED BY <4>2, <5>1, <5>2 DEF Beats
      <4>4. w.type = "take_profit"
        BY <3>2, <3>4, <4>3 DEF Priority
      <4>5. QED BY <3>2, <3>3, <3>5, <4>4
    <3>6. CASE ~TakeKept(pos)
      <4>1. w.type # "take_profit"
        BY <2>0, <2>1, <3>3, <3>6, TakeCandidate
      <4>2. QED BY <3>2, <3>6, <4>1
    <3>7. QED BY <3>5, <3>6
  <2>3. CASE Hold
    <3>1. PICK signals \in SUBSET Signals : Candidates(pos, candle', signals) = {}
      BY <2>3 DEF Hold
    <3>2. pos' \in Position /\ candle' \in Candles
      BY <1>1, <2>3, HoldFacts
    <3>3. ~TakeKept(pos)
      BY <1>1, <2>0, <2>1, <3>1, <3>2, TakeCandidate
    <3>4. QED BY <3>2, <3>3, NoneAssumption
  <2>4. CASE StayFlat \/ Enter
    BY <1>1, <2>4 DEF StayFlat, Enter
  <2>5. CASE Finish \/ Returned
    BY <1>1, <2>0, <2>5 DEF Finish, Returned, vars
  <2>6. QED BY <1>1, <2>2, <2>3, <2>4, <2>5 DEF Next
<1>2. TypeOK /\ TakeInv /\ [Next]_vars => [Touched => (Taken <=> TakeKept(pos))]_vars
  BY <1>1
<1>3. QED BY <1>2, TakeInductive, TypeCorrect, PTL DEF Spec, TakeProfitFollowsRules

=============================================================================
