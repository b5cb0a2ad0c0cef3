------------------------- MODULE ExitManagementDraft -------------------------
(* The exit_management block of one strategy instance while it is edited in    *)
(* the Composer: the panel's handlers, the normalisation every edit goes       *)
(* through, the Composer's own validation, and the research loader, which      *)
(* validates the same block again when it is saved.                            *)
(*                                                                             *)
(* A number is one of the classes the checks tell apart ("text" is what a      *)
(* cleared field holds); a rule id is a tuple, so that the ids the editor      *)
(* makes (<<component, slot>>) and typed ones can meet; timeframes and sources *)
(* the Composer never checks are left out, and so are numbers a file holds in  *)
(* quotes, which the loader converts and the Composer refuses. A file may      *)
(* leave out a parameter the loader has a default for.                         *)
EXTENDS Integers, Sequences, FiniteSets, SequencesExt

CONSTANT Authors   \* who may edit: [files, ids, lists, rules, left], the blocks his
                   \* config may hold, the rule ids he types, the lists he edits, the
                   \* bounds on their length and on the number of his edits

Rank == [text |-> -1, zero |-> 0, one |-> 1, frac |-> 2, many |-> 3]
Floats == DOMAIN Rank
Wholes == Floats \ {"frac"}
Positive(v) == Rank[v] > 0
PositiveInteger(v) == v \in {"one", "many"}
NonNegative(v) == v # "text"

\* A parameter, or what stands for one that is left out.
Given(p, f, default) == IF f \in DOMAIN p THEN p[f] ELSE default
HasAtr(p) == {"frame", "period"} \cap DOMAIN p # {}

PhaseOrder == <<"initial_risk", "proven", "protected", "runner", "exhaustion">>
Phases == Range(PhaseOrder)
TargetPhases == Phases \ {"initial_risk"}
PhaseRank(p) == CHOOSE i \in DOMAIN PhaseOrder : PhaseOrder[i] = p

Conditions == {"mfe_atr", "mfe_pct", "bars_in_trade", "adx_di_threshold"}
Layers == {"stop_management", "take_management", "runtime_exits"}
Lists == Layers \cup {"phase_rules"}

Components == [stop_management |-> <<"break_even_stop", "lock_profit_stop">>,
               take_management |-> <<"take_profile_switch">>,
               runtime_exits |-> <<"ema_cross_loss_exit", "phase_runtime_exit",
                                   "rsi_signal_exit">>]
Kinds == {"take_profit", "protective_exit", "market_close"}

VARIABLES em,       \* the block in the draft
          loaded,   \* it is as a file held it: no edit since
          stored,   \* the block of the saved config
          author    \* who edits, and how many edits he has left
vars == <<em, loaded, stored, author>>

\* A list of rules, and a block, whatever the rules say.
RuleFields(list) == IF list = "phase_rules" THEN {"id", "to", "condition"}
                    ELSE {"id", "component", "phase", "params", "role", "kind"}
RuleList(s, fields) ==
    /\ Len(s) \in Nat /\ s = [i \in 1..Len(s) |-> s[i]]
    /\ \A i \in 1..Len(s) : DOMAIN s[i] = fields
Block(e) ==
    /\ DOMAIN e = {"legacy", "mode"} \cup Lists /\ e.legacy \in BOOLEAN
    /\ e = [f \in DOMAIN e |-> e[f]]
    /\ \A l \in Lists : RuleList(e[l], RuleFields(l))

\* What a file can hold is a block; the user edits some of its lists, a number of times.
ASSUME AuthorsAssumption ==
    \A a \in Authors : /\ \A e \in a.files : Block(e)
                      /\ a.lists \subseteq Lists /\ a.rules \in Nat /\ a.left \in Nat

Blank == [legacy |-> FALSE, mode |-> "diagnostic_only", phase_rules |-> <<>>,
          stop_management |-> <<>>, take_management |-> <<>>, runtime_exits |-> <<>>]
Unset == [Blank EXCEPT !.mode = "none"]

-----------------------------------------------------------------------------
(* The shapes the editors write.                                               *)

DefaultAmount == [mfe_atr |-> [threshold |-> "one", frame |-> "base", period |-> "many"],
                  mfe_pct |-> [threshold |-> "frac"],
                  bars_in_trade |-> [threshold |-> "one"],
                  adx_di_threshold |-> [adx_threshold |-> "many", frame |-> "base",
                                        period |-> "many"]]

\* The parameters of a condition: each field the component has, kept when it holds a
\* value of its type and replaced by the default otherwise.
NormalizeCondition(params, c) ==
    [component |-> c,
     params |-> [f \in DOMAIN DefaultAmount[c] |->
                    IF f \in DOMAIN params /\ params[f] # "text" THEN params[f]
                                                                  ELSE DefaultAmount[c][f]]]

BlankPhaseRule(n) ==
    [id |-> <<"phase_rule", n + 1>>, to |-> "proven",
     condition |-> NormalizeCondition(<<>>, "mfe_atr")]

PresetRules ==
    [i \in 1..3 |->
        [id |-> <<"preset", i>>, to |-> PhaseOrder[i + 1],
         condition |-> [component |-> "mfe_atr",
                        params |-> [DefaultAmount.mfe_atr EXCEPT
                                       !.threshold = IF i = 1 THEN "one" ELSE "frac"]]]]

DefaultParams == [break_even_stop |-> [buffer_type |-> "none", buffer |-> "zero"],
                  lock_profit_stop |-> [lock_atr |-> "one", frame |-> "base",
                                        period |-> "many"],
                  take_profile_switch |-> [action |-> "disable_initial_tp"],
                  phase_runtime_exit |-> [exit_price |-> "close"],
                  rsi_signal_exit |-> [period |-> "many", above |-> "many",
                                       below |-> "many", confirm |-> "one"],
                  ema_cross_loss_exit |-> [fast |-> "one", slow |-> "many",
                                           confirm |-> "one"]]

DefaultKind(c) == CASE c = "rsi_signal_exit" -> "take_profit"
                    [] c = "ema_cross_loss_exit" -> "protective_exit"
                    [] OTHER -> "market_close"

DefaultPhase(layer, c) == CASE layer = "stop_management" -> "protected"
                            [] c = "phase_runtime_exit" -> "exhaustion"
                            [] OTHER -> "runner"

\* The role is forced and the exit kind filled in, whatever the rule said.
NormalizeRuntimeExit(r) ==
    [r EXCEPT !.role = "runtime_exit",
              !.kind = IF r.component = "phase_runtime_exit" THEN "market_close"
                       ELSE IF r.kind = "none" THEN DefaultKind(r.component) ELSE @]

BlankRule(layer, n) ==
    LET c == Head(Components[layer])
        r == [id |-> <<c, n + 1>>, component |-> c, phase |-> DefaultPhase(layer, c),
              params |-> DefaultParams[c], role |-> "none", kind |-> "none"]
    IN  IF layer = "runtime_exits" THEN NormalizeRuntimeExit(r) ELSE r

\* A rule given another component starts over from that component's defaults; only
\* the runtime exits also get its phase and kind.
WithComponent(layer, r, c) ==
    IF layer # "runtime_exits" THEN [r EXCEPT !.component = c, !.params = DefaultParams[c]]
    ELSE NormalizeRuntimeExit([r EXCEPT !.component = c, !.params = DefaultParams[c],
                                        !.phase = DefaultPhase(layer, c),
                                        !.kind = DefaultKind(c)])

\* Only a managed block keeps its three layers; the old shape's keys are dropped.
Normalize(e) ==
    LET managed == e.mode = "managed"
    IN  [legacy |-> FALSE,
         mode |-> IF managed THEN "managed" ELSE "diagnostic_only",
         phase_rules |-> e.phase_rules,
         stop_management |-> IF managed THEN e.stop_management ELSE <<>>,
         take_management |-> IF managed THEN e.take_management ELSE <<>>,
         runtime_exits |-> IF managed
                           THEN [i \in DOMAIN e.runtime_exits |->
                                     NormalizeRuntimeExit(e.runtime_exits[i])]
                           ELSE <<>>]

-----------------------------------------------------------------------------
(* The Composer's validation. Where the code collects messages the model asks   *)
(* whether there is one.                                                       *)

Distinct(s) == \A i, j \in DOMAIN s : s[i].id = s[j].id => i = j
Named(s) == \A i \in DOMAIN s : s[i].id # <<>>

ConditionOk(c) ==
    /\ c.component \in Conditions
    /\ LET p == c.params
       IN  CASE c.component = "mfe_atr" -> /\ Positive(p.threshold)
                                           /\ p.frame # ""
                                           /\ PositiveInteger(p.period)
             [] c.component = "mfe_pct" -> Positive(p.threshold)
             [] c.component = "bars_in_trade" -> PositiveInteger(p.threshold)
             [] OTHER -> /\ p.frame # ""
                         /\ PositiveInteger(p.period)
                         /\ Positive(p.adx_threshold)

\* Each rule is compared with the one before it.
PhaseRulesOk(e) ==
    /\ Named(e.phase_rules) /\ Distinct(e.phase_rules)
    /\ \A i \in DOMAIN e.phase_rules :
          /\ e.phase_rules[i].to \in TargetPhases
          /\ i > 1 => PhaseRank(e.phase_rules[i].to) >= PhaseRank(e.phase_rules[i - 1].to)
          /\ ConditionOk(e.phase_rules[i].condition)

ParamsOk(c, p) ==
    CASE c = "break_even_stop" ->
            /\ Given(p, "buffer_type", "none") \in {"none", "fixed", "atr"}
            /\ NonNegative(Given(p, "buffer", "zero"))
      [] c = "lock_profit_stop" -> Positive(Given(p, "lock_atr", "text")) /\ HasAtr(p)
      [] c = "take_profile_switch" ->
            Given(p, "action", "none") \in {"keep_initial", "disable_initial_tp"}
      [] OTHER -> TRUE

ExitOk_CloseOnly(r) == r.role = "runtime_exit" /\ r.kind = "market_close"

ExitOk(r) ==
    LET p == r.params
    IN  /\ r.role = "runtime_exit"
        /\ r.kind \in IF r.component = "phase_runtime_exit" THEN {"market_close"} ELSE Kinds
        /\ CASE r.component = "phase_runtime_exit" -> Given(p, "exit_price", "none") = "close"
             [] r.component = "rsi_signal_exit" ->
                   /\ Positive(Given(p, "period", "text"))
                   /\ Positive(Given(p, "confirm", "one"))
                   /\ NonNegative(Given(p, "above", "zero"))
                   /\ NonNegative(Given(p, "below", "zero"))
             [] OTHER ->
                   /\ {"fast", "slow"} \subseteq DOMAIN p
                   /\ Positive(p.fast) /\ Positive(p.slow) => Rank[p.fast] < Rank[p.slow]
                   /\ Positive(Given(p, "confirm", "one"))

ManagedRulesOk(e) ==
    IF e.mode # "managed" THEN \A l \in Layers : e[l] = <<>>
    ELSE \A l \in Layers :
            /\ Named(e[l]) /\ Distinct(e[l])
            /\ \A i \in DOMAIN e[l] :
                  /\ e[l][i].component \in Range(Components[l])
                  /\ e[l][i].phase \in Phases
                  /\ ParamsOk(e[l][i].component, e[l][i].params)
                  /\ l = "runtime_exits" => ExitOk(e[l][i])

\* It is the normalised block that is checked, and a block with neither a mode nor
\* phase rules is not checked at all.
ComposerAccepts(e) ==
    /\ ~e.legacy
    /\ e.mode \in {"diagnostic_only", "managed"} \/ e.phase_rules # <<>>
         => PhaseRulesOk(Normalize(e)) /\ ManagedRulesOk(Normalize(e))

-----------------------------------------------------------------------------
(* The loader's validation of the block that is sent, which is not normalised.  *)

\* The atr of a stop that locks profit may be left out: atr_period, or 14, stands for it.
LoaderAtr(p) ==
    LET own == Given(p, "atr_period", "many")
    IN  IF HasAtr(p) THEN /\ {"frame", "period"} \subseteq DOMAIN p
                          /\ p.frame # "" /\ Positive(p.period)
                          /\ own # "text"
                     ELSE Positive(own)

LoaderParams(c, p) ==
    CASE c = "break_even_stop" -> /\ Given(p, "buffer_type", "none") \in {"none", "atr"}
                                  /\ NonNegative(Given(p, "buffer", "zero"))
      [] c = "lock_profit_stop" -> Positive(Given(p, "lock_atr", "text")) /\ LoaderAtr(p)
      [] c = "take_profile_switch" ->
            Given(p, "action", "none") \in {"keep_initial", "disable_initial_tp", "disable_fixed_tp"}
      [] c = "phase_runtime_exit" -> Given(p, "exit_price", "none") = "close"
      [] c = "rsi_signal_exit" -> /\ PositiveInteger(Given(p, "period", "many"))
                                  /\ Positive(Given(p, "confirm", "one"))
                                  /\ NonNegative(Given(p, "above", "zero"))
                                  /\ NonNegative(Given(p, "below", "zero"))
      [] OTHER -> /\ {"fast", "slow"} \subseteq DOMAIN p
                  /\ PositiveInteger(p.fast) /\ PositiveInteger(p.slow)
                  /\ Rank[p.fast] < Rank[p.slow]
                  /\ Positive(Given(p, "confirm", "one"))

LoaderExit(r) ==
    /\ r.role \in {"none", "runtime_exit"}
    /\ r.kind \in IF r.component = "phase_runtime_exit" THEN {"none", "market_close"}
                                                        ELSE Kinds

LoaderRule(l, r) ==
    /\ r.id # <<>>
    /\ r.component \in Range(Components[l])
    /\ r.phase \in Phases
    /\ LoaderParams(r.component, r.params)
    /\ l = "runtime_exits" => LoaderExit(r)

Management(e) == e.stop_management \o e.take_management \o e.runtime_exits

LoaderAccepts_PerLayer(e) ==
    /\ ~e.legacy /\ e.mode \in {"none", "diagnostic_only", "managed"}
    /\ PhaseRulesOk(e)
    /\ \A l \in Layers : /\ Distinct(e[l])
                        /\ \A i \in DOMAIN e[l] : LoaderRule(l, e[l][i])
LoaderAccepts_AnyMode(e) ==
    /\ ~e.legacy /\ PhaseRulesOk(e) /\ Distinct(Management(e))
    /\ \A l \in Layers : \A i \in DOMAIN e[l] : LoaderRule(l, e[l][i])

\* One pass over the whole block: ids of the three layers share one name space.
LoaderAccepts(e) ==
    /\ ~e.legacy
    /\ e.mode \in {"none", "diagnostic_only", "managed"}
    /\ e.phase_rules # <<>> => e.mode # "none"
    /\ e.mode # "managed" => Management(e) = <<>>
    /\ PhaseRulesOk(e)
    /\ \A l \in Layers : \A i \in DOMAIN e[l] : LoaderRule(l, e[l][i])
    /\ Distinct(Management(e))

-----------------------------------------------------------------------------
(* The panel. Every handler's result is normalised when it is written to the    *)
(* strategy.                                                                   *)

Init ==
    /\ \E a \in Authors :
          /\ em \in a.files /\ stored = em
          /\ author = [ids |-> a.ids, lists |-> a.lists, rules |-> a.rules, left |-> a.left]
    /\ loaded = TRUE

Write(e) ==
    /\ author.left > 0
    /\ em' = Normalize(e)
    /\ loaded' = FALSE
    /\ author' = [author EXCEPT !.left = @ - 1]
    /\ UNCHANGED stored

Authoring == ~em.legacy
SetRule(list, i, r) == Write([em EXCEPT ![list][i] = r])

AddPhaseRule ==
    /\ Authoring /\ "phase_rules" \in author.lists /\ Len(em.phase_rules) < author.rules
    /\ Write([em EXCEPT !.phase_rules = Append(@, BlankPhaseRule(Len(@)))])

UsePreset ==
    /\ Authoring /\ "phase_rules" \in author.lists
    /\ Write([em EXCEPT !.phase_rules = PresetRules])

MovePhaseRule(i) ==
    /\ i < Len(em.phase_rules)
    /\ Write([em EXCEPT !.phase_rules[i] = em.phase_rules[i + 1],
                        !.phase_rules[i + 1] = em.phase_rules[i]])

\* Choosing the condition's component starts it over.
EditPhaseRule(i) ==
    LET r == em.phase_rules[i]
    IN  \/ \E id \in author.ids : SetRule("phase_rules", i, [r EXCEPT !.id = id])
        \/ \E p \in TargetPhases : SetRule("phase_rules", i, [r EXCEPT !.to = p])
        \/ \E c \in Conditions :
              SetRule("phase_rules", i, [r EXCEPT !.condition = NormalizeCondition(<<>>, c)])

\* Typing in a parameter keeps the others, and a field that is cleared falls back to its
\* default at once.
TypeCondition(i) ==
    LET r == em.phase_rules[i]
        shown == IF r.condition.component \in Conditions THEN r.condition.component
                                                         ELSE "mfe_atr"
        Typed(f) == IF f = "frame" THEN {"base", ""}
                    ELSE IF f = "period" \/ shown = "bars_in_trade" THEN Wholes ELSE Floats
    IN  \E f \in DOMAIN DefaultAmount[shown] : \E v \in Typed(f) :
           SetRule("phase_rules", i,
              [r EXCEPT !.condition =
                 NormalizeCondition([g \in DOMAIN @.params \cup {f} |->
                                         IF g = f THEN v ELSE @.params[g]], shown)])

RemoveRule(list, i) ==
    Write([em EXCEPT ![list] = RemoveAt(@, i)])

\* The management lists are shown for a managed block only.
Shown(layer) == Authoring /\ em.mode = "managed" /\ layer \in author.lists

AddRule(layer) ==
    /\ Shown(layer) /\ Len(em[layer]) < author.rules
    /\ Write([em EXCEPT ![layer] = Append(@, BlankRule(layer, Len(@)))])

\* What the fields of the stop and take rules, and of the runtime exits, take.
TypedLevel(f) ==
    CASE f = "buffer_type" -> {"none", "fixed", "atr"}
      [] f = "frame" -> {"base", ""}
      [] f = "action" -> {"keep_initial", "disable_initial_tp"}
      [] f = "period" -> Wholes
      [] OTHER -> Floats

TypedExit(f) ==
    CASE f = "exit_price" -> {}
      [] f \in {"above", "below"} -> Floats
      [] OTHER -> Wholes

\* Every field of the component is shown; typing in one the rule lacks adds that one only.
TypeParam(layer, i) ==
    LET r == em[layer][i]
    IN  \E f \in DOMAIN DefaultParams[r.component] :
           \E v \in IF layer = "runtime_exits" THEN TypedExit(f) ELSE TypedLevel(f) :
              SetRule(layer, i,
                 [r EXCEPT !.params = [g \in DOMAIN r.params \cup {f} |->
                                          IF g = f THEN v ELSE r.params[g]]])

EditRule(layer, i) ==
    LET r == em[layer][i]
    IN  \/ \E id \in author.ids : SetRule(layer, i, [r EXCEPT !.id = id])
        \/ \E c \in Range(Components[layer]) \ {r.component} :
              SetRule(layer, i, WithComponent(layer, r, c))
        \/ \E p \in Phases : SetRule(layer, i, [r EXCEPT !.phase = p])
        \/ /\ layer = "runtime_exits"
           /\ \E k \in Kinds : SetRule(layer, i, NormalizeRuntimeExit([r EXCEPT !.kind = k]))

SetMode ==
    /\ Authoring
    /\ \E m \in {"diagnostic_only", "managed"} \ {em.mode} : Write([em EXCEPT !.mode = m])

\* A block of the old shape can only be replaced by a blank one.
Reset == em.legacy /\ Write(Blank)

\* Saving: both checks, then the panel reloads what was stored. The loader never sees
\* a draft the Composer refuses.
Save ==
    /\ ComposerAccepts(em) /\ LoaderAccepts(em)
    /\ stored' = em
    /\ loaded' = TRUE
    /\ UNCHANGED <<em, author>>

EditPhases ==
    /\ Authoring /\ "phase_rules" \in author.lists
    /\ \E i \in DOMAIN em.phase_rules :
          EditPhaseRule(i) \/ TypeCondition(i) \/ MovePhaseRule(i) \/ RemoveRule("phase_rules", i)
EditLayer(l) ==
    /\ Shown(l)
    /\ \E i \in DOMAIN em[l] : EditRule(l, i) \/ TypeParam(l, i) \/ RemoveRule(l, i)

Next ==
    \/ AddPhaseRule \/ UsePreset \/ EditPhases
    \/ \E l \in Layers : AddRule(l) \/ EditLayer(l)
    \/ SetMode \/ Reset \/ Save

Spec == Init /\ [][Next]_vars

-----------------------------------------------------------------------------
(* Properties.                                                                 *)

\* Type correctness of the block and its lists.
TypeOK ==
    /\ em.legacy \in BOOLEAN /\ loaded \in BOOLEAN /\ author.left \in Nat
    /\ \A l \in Lists : \A i \in DOMAIN em[l] :
          DOMAIN em[l][i] = RuleFields(l)

Ordered(e) ==
    \A i, j \in DOMAIN e.phase_rules :
       i <= j => PhaseRank(e.phase_rules[i].to) <= PhaseRank(e.phase_rules[j].to)

\* What a save stores is what the managed execution relies on: the phases of any two
\* rules in order, one rule per id across all the layers, no management rule outside
\* managed mode, periods that make a fast average faster than the slow one. The Composer's
\* check lets two of these through (an id of two layers, rules outside managed mode in
\* the block as it is sent); it is the loader a save relies on, and the loader compares
\* each phase with the one before it only.
SavedIsSound ==
    [][stored' # stored =>
         /\ Ordered(stored')
         /\ Distinct(stored'.phase_rules) /\ Distinct(Management(stored'))
         /\ stored'.mode # "managed" => Management(stored') = <<>>
         /\ \A i \in DOMAIN stored'.runtime_exits :
               LET r == stored'.runtime_exits[i]
               IN  r.component = "ema_cross_loss_exit" =>
                      Rank[r.params.fast] < Rank[r.params.slow]]_vars

\* What the editors write and a file need not hold: no alias of an action, the atr of a
\* stop that locks profit and the period of an rsi exit there. The loader takes a block
\* that differs (it knows the alias disable_fixed_tp and has defaults for the others);
\* the Composer refuses it.
EditorForm(e) ==
    \A l \in Layers : \A i \in DOMAIN e[l] :
       LET p == e[l][i].params
       IN  /\ e[l][i].component = "lock_profit_stop" => HasAtr(p)
           /\ e[l][i].component = "rsi_signal_exit" => "period" \in DOMAIN p
           /\ Given(p, "action", "none") # "disable_fixed_tp"

\* The Composer does not stand in the way: an edited block in the form its editors write,
\* whatever else a file left out of it, is never refused by the Composer's own check if
\* the loader, whose check is written separately, would take it.
LoaderTakesComposerTakes ==
    /\ TypeOK
    /\ ~loaded /\ EditorForm(em) /\ LoaderAccepts(em) => ComposerAccepts(em)

\* No edit of a block both checks accept loses a rule of another list, even if the
\* block came from a file the Composer never normalised; only leaving managed mode does.
AcceptedIsNotStripped ==
    [][ComposerAccepts(em) /\ LoaderAccepts(em) /\ (em.mode = "managed" => em'.mode = "managed") =>
          \E one \in Lists : \A l \in Lists \ {one} :
             [i \in DOMAIN em'[l] |-> em'[l][i].id] = [i \in DOMAIN em[l] |-> em[l][i].id]]_vars
=============================================================================
