---------------------- MODULE ExitManagementDraft_proof ----------------------
(* The exit management block of the Composer: what its two validators and its  *)
(* normalisation guarantee for blocks with any number of rules.                *)
EXTENDS ExitManagementDraft, NaturalsInduction, SequenceTheorems,
        WellFoundedInduction, TLAPS

-----------------------------------------------------------------------------
(* Lists of rules.                                                             *)

\* A nonempty set of numbers has a least element: how a statement about all the rules
\* of a list is proved from one about neighbours.
LEMMA LeastElement ==
  ASSUME NEW T, T \subseteq Nat, T # {}
  PROVE  \E n \in T : \A m \in T : n <= m
  <1>1. IsWellFoundedOn(OpToRel(<, Nat), Nat)
    BY NatLessThanWellFounded
  <1>2. PICK n \in T : \A m \in T : ~ (<<m, n>> \in OpToRel(<, Nat))
    BY <1>1, WFMin
  <1>3. \A m \in T : ~ (m < n)
    BY <1>2 DEF OpToRel
  <1> QED  BY <1>3

\* Rules each at least as late as the one before it are in order, however far apart.
LEMMA NeighboursInOrder ==
  ASSUME NEW f, NEW n \in Nat,
         \A k \in 1..n : f[k] \in Int,
         \A k \in 2..n : f[k] >= f[k - 1]
  PROVE  \A i, j \in 1..n : i <= j => f[i] <= f[j]
  <1> SUFFICES ASSUME NEW i \in 1..n, NEW j \in 1..n, i <= j, ~(f[i] <= f[j])
               PROVE  FALSE
    OBVIOUS
  <1> DEFINE T == {k \in 1..n : i <= k /\ ~(f[i] <= f[k])}
  <1>1. T \subseteq Nat /\ T # {}
    OBVIOUS
  <1>2. PICK k \in T : \A m \in T : k <= m
    BY <1>1, LeastElement
  <1>3. k \in 2..n /\ i <= k - 1 /\ k - 1 \in 1..n
    BY <1>2
  <1>4. k - 1 \notin T
    BY <1>2
  <1> QED  BY <1>2, <1>3, <1>4

LEMMA OneReplaced ==
  ASSUME NEW s, NEW fields, RuleList(s, fields),
         NEW i \in DOMAIN s, NEW r, DOMAIN r = fields
  PROVE  RuleList([s EXCEPT ![i] = r], fields)
  <1>1. DOMAIN s = 1..Len(s)
    BY DEF RuleList
  <1>2. Len([s EXCEPT ![i] = r]) = Len(s)
    BY <1>1 DEF RuleList
  <1> QED  BY <1>1, <1>2 DEF RuleList

\* A list of rules is a sequence of them.
RulesOf(s) == {s[i] : i \in 1..Len(s)}

LEMMA ListIsSequence ==
  ASSUME NEW s, NEW fields, RuleList(s, fields)
  PROVE  s \in Seq(RulesOf(s))
  <1> DEFINE S == {s[i] : i \in 1..Len(s)}
  <1>1. [i \in 1..Len(s) |-> s[i]] \in [1..Len(s) -> S]
    OBVIOUS
  <1>2. s \in [1..Len(s) -> S] /\ Len(s) \in Nat
    BY <1>1, Zenon DEF RuleList
  <1> HIDE DEF S
  <1> DEFINE n == Len(s)
  <1>3. s \in [1..n -> S] /\ n \in Nat
    BY <1>2
  <1> HIDE DEF n
  <1>4. s \in UNION {[1..m -> S] : m \in Nat}
    BY <1>3, Zenon
  <1>5. s \in Seq(S)
    BY <1>4, SeqDef, Zenon
  <1> QED  BY <1>5 DEF S, RulesOf

LEMMA OneAdded ==
  ASSUME NEW s, NEW fields, RuleList(s, fields), NEW r, DOMAIN r = fields
  PROVE  RuleList(Append(s, r), fields)
  <1> DEFINE S == RulesOf(s) \cup {r}
             t == Append(s, r)
  <1>0. s \in Seq(RulesOf(s))
    BY ListIsSequence, Zenon
  <1>1. s \in Seq(S) /\ r \in S
    BY <1>0, SeqMonotonic, Zenon
  <1>2. t \in Seq(S) /\ Len(t) = Len(s) + 1 /\ Len(s) \in Nat
    BY <1>1
  <1>3. \A i \in 1..Len(t) : t[i] = IF i <= Len(s) THEN s[i] ELSE r
    BY <1>1
  <1> HIDE DEF t, S
  <1>4. t = [i \in 1..Len(t) |-> t[i]]
    BY <1>2
  <1>5. \A i \in 1..Len(t) : DOMAIN t[i] = fields
    BY <1>2, <1>3 DEF RuleList
  <1>6. RuleList(t, fields)
    BY <1>2, <1>4, <1>5 DEF RuleList
  <1> QED  BY <1>6 DEF t

LEMMA OneRemoved ==
  ASSUME NEW s, NEW fields, RuleList(s, fields), NEW i \in DOMAIN s
  PROVE  RuleList(RemoveAt(s, i), fields)
  <1> DEFINE S == RulesOf(s)
             a == SubSeq(s, 1, i - 1)
             b == SubSeq(s, i + 1, Len(s))
             t == a \o b
  <1>0. s \in Seq(S)
    BY ListIsSequence, Zenon
  <1>1. s \in Seq(S) /\ i \in 1..Len(s) /\ \A r \in S : DOMAIN r = fields
    BY <1>0 DEF RuleList, RulesOf
  <1>2. a \in Seq(S) /\ b \in Seq(S)
    BY <1>1
  <1> HIDE DEF a, b
  <1>3. t \in Seq(S) /\ Len(t) \in Nat
    BY <1>2
  <1> HIDE DEF t
  <1>4. t = [k \in 1..Len(t) |-> t[k]] /\ \A k \in 1..Len(t) : t[k] \in S
    BY <1>3
  <1> HIDE DEF S
  <1>5. RuleList(t, fields)
    BY <1>1, <1>3, <1>4 DEF RuleList
  <1> QED  BY <1>5 DEF RemoveAt, t, a, b

LEMMA Joined ==
  ASSUME NEW s, NEW t, NEW fields, RuleList(s, fields), RuleList(t, fields)
  PROVE  /\ Len(s \o t) = Len(s) + Len(t) /\ DOMAIN (s \o t) = 1..(Len(s) + Len(t))
         /\ \A i \in 1..Len(s) : (s \o t)[i] = s[i]
         /\ \A i \in 1..Len(t) : (s \o t)[Len(s) + i] = t[i]
         /\ RuleList(s \o t, fields)
  <1> DEFINE u == s \o t
  <1>1. /\ Len(u) = Len(s) + Len(t) /\ DOMAIN u = 1..(Len(s) + Len(t))
        /\ \A i \in 1..Len(s) : u[i] = s[i]
        /\ \A i \in 1..Len(t) : u[Len(s) + i] = t[i]
        /\ Len(s) \in Nat /\ Len(t) \in Nat
    BY DEF RuleList
  <1> DEFINE S == RulesOf(s) \cup RulesOf(t)
  <1>2. s \in Seq(RulesOf(s)) /\ t \in Seq(RulesOf(t))
    BY ListIsSequence, Zenon
  <1>3. s \in Seq(S) /\ t \in Seq(S)
    BY <1>2, SeqMonotonic, Zenon
  <1> HIDE DEF S
  <1>4. u \in Seq(S)
    BY <1>3
  <1> HIDE DEF u
  <1>5. u = [i \in 1..Len(u) |-> u[i]]
    BY <1>4
  <1>6. ASSUME NEW i \in 1..Len(u) PROVE DOMAIN u[i] = fields
    <2>1. CASE i <= Len(s)
      BY <1>1, <2>1 DEF RuleList
    <2>2. CASE i > Len(s)
      <3>1. i - Len(s) \in 1..Len(t) /\ i = Len(s) + (i - Len(s))
        BY <1>1, <2>2
      <3>2. u[i] = t[i - Len(s)]
        BY <1>1, <3>1
      <3> QED  BY <3>1, <3>2 DEF RuleList
    <2> QED  BY <1>1, <2>1, <2>2
  <1>7. RuleList(u, fields)
    BY <1>1, <1>6, <1>5 DEF RuleList
  <1> QED  BY <1>1, <1>7 DEF u

-----------------------------------------------------------------------------
(* Blocks: what an edit and the normalisation make of one.                     *)

Ids(s) == [i \in DOMAIN s |-> s[i].id]

\* d is e with one list replaced by another list of rules.
OneListOf(e, d) ==
    \E l \in Lists : \E s : RuleList(s, RuleFields(l)) /\ d = [e EXCEPT ![l] = s]

LEMMA EmptyList ==
  ASSUME NEW fields
  PROVE  RuleList(<<>>, fields) /\ DOMAIN <<>> = {} /\ Len(<<>>) = 0
  BY DEF RuleList

LEMMA ListReplaced ==
  ASSUME NEW e, Block(e), NEW l \in Lists, NEW s, RuleList(s, RuleFields(l))
  PROVE  /\ Block([e EXCEPT ![l] = s])
         /\ [e EXCEPT ![l] = s].mode = e.mode
         /\ \A m \in Lists \ {l} : [e EXCEPT ![l] = s][m] = e[m]
  <1> DEFINE d == [e EXCEPT ![l] = s]
  <1>1. DOMAIN e = {"legacy", "mode"} \cup Lists /\ l \notin {"legacy", "mode"}
    BY DEF Block, Lists, Layers
  <1>2. DOMAIN d = DOMAIN e /\ d[l] = s /\ \A f \in DOMAIN e \ {l} : d[f] = e[f]
    BY <1>1
  <1>3. d = [f \in DOMAIN d |-> d[f]]
    OBVIOUS
  <1>4. d.mode = e.mode /\ d.legacy = e.legacy
    BY <1>1, <1>2
  <1> HIDE DEF d
  <1>5. \A m \in Lists : RuleList(d[m], RuleFields(m))
    BY <1>1, <1>2 DEF Block
  <1>6. Block(d)
    BY <1>1, <1>2, <1>3, <1>4, <1>5 DEF Block
  <1> QED  BY <1>1, <1>2, <1>4, <1>6 DEF d

LEMMA ModeReplaced ==
  ASSUME NEW e, Block(e), NEW m
  PROVE  /\ Block([e EXCEPT !.mode = m]) /\ [e EXCEPT !.mode = m].mode = m
         /\ \A l \in Lists : [e EXCEPT !.mode = m][l] = e[l]
  BY DEF Block, Lists, Layers

LEMMA ExitNormalized ==
  ASSUME NEW r, DOMAIN r = RuleFields("runtime_exits")
  PROVE  /\ DOMAIN NormalizeRuntimeExit(r) = DOMAIN r
         /\ NormalizeRuntimeExit(r).id = r.id
         /\ NormalizeRuntimeExit(r).component = r.component
         /\ NormalizeRuntimeExit(r).phase = r.phase
         /\ NormalizeRuntimeExit(r).params = r.params
         /\ NormalizeRuntimeExit(r).role = "runtime_exit"
         /\ NormalizeRuntimeExit(r).kind =
              IF r.component = "phase_runtime_exit" THEN "market_close"
              ELSE IF r.kind = "none" THEN DefaultKind(r.component) ELSE r.kind
  BY DEF NormalizeRuntimeExit, RuleFields

\* The normalised exits of a block.
Exits(e) == [i \in DOMAIN e.runtime_exits |-> NormalizeRuntimeExit(e.runtime_exits[i])]

LEMMA ExitsAreRules ==
  ASSUME NEW e, Block(e)
  PROVE  RuleList(Exits(e), RuleFields("runtime_exits")) /\ Ids(Exits(e)) = Ids(e.runtime_exits)
  <1> DEFINE s == e.runtime_exits
  <1>1. RuleList(s, RuleFields("runtime_exits"))
    BY DEF Block, Lists, Layers
  <1>2. DOMAIN s = 1..Len(s) /\ Len(s) \in Nat
    BY <1>1 DEF RuleList
  <1>3. DOMAIN Exits(e) = 1..Len(s) /\ \A i \in 1..Len(s) : Exits(e)[i] = NormalizeRuntimeExit(s[i])
    BY <1>2 DEF Exits
  <1>4. Exits(e) = [i \in 1..Len(s) |-> Exits(e)[i]]
    BY <1>2 DEF Exits
  <1>5. Len(Exits(e)) = Len(s)
    BY <1>2, <1>3, <1>4
  <1>6. \A i \in 1..Len(s) : /\ DOMAIN Exits(e)[i] = RuleFields("runtime_exits")
                            /\ Exits(e)[i].id = s[i].id
    BY <1>1, <1>3, ExitNormalized DEF RuleList
  <1>7. Ids(Exits(e)) = Ids(s)
    BY <1>2, <1>3, <1>6 DEF Ids
  <1> HIDE DEF s
  <1>8. RuleList(Exits(e), RuleFields("runtime_exits"))
    BY <1>2, <1>3, <1>4, <1>5, <1>6 DEF RuleList
  <1> QED  BY <1>7, <1>8 DEF s

LEMMA NormalizedIs ==
  ASSUME NEW e, Block(e)
  PROVE  /\ Normalize(e).phase_rules = e.phase_rules
         /\ Normalize(e).mode = IF e.mode = "managed" THEN "managed" ELSE "diagnostic_only"
         /\ e.mode = "managed" => /\ Normalize(e).stop_management = e.stop_management
                                 /\ Normalize(e).take_management = e.take_management
                                 /\ Normalize(e).runtime_exits = Exits(e)
         /\ e.mode # "managed" => \A l \in Layers : Normalize(e)[l] = <<>>
  <1> DEFINE managed == e.mode = "managed"
             none(l) == IF managed THEN e[l] ELSE <<>>
             exits == IF managed THEN Exits(e) ELSE <<>>
  <1>1. Normalize(e) = [legacy |-> FALSE,
                        mode |-> IF managed THEN "managed" ELSE "diagnostic_only",
                        phase_rules |-> e.phase_rules,
                        stop_management |-> none("stop_management"),
                        take_management |-> none("take_management"),
                        runtime_exits |-> exits]
    BY Zenon DEF Normalize, Exits
  <1>2. managed => exits = Exits(e)
    OBVIOUS
  <1>3. ~managed => exits = <<>>
    OBVIOUS
  <1> HIDE DEF exits
  <1>4. /\ Normalize(e).phase_rules = e.phase_rules
        /\ Normalize(e).mode = IF managed THEN "managed" ELSE "diagnostic_only"
        /\ Normalize(e).stop_management = none("stop_management")
        /\ Normalize(e).take_management = none("take_management")
        /\ Normalize(e).runtime_exits = exits
    BY <1>1
  <1>5. ~managed => \A l \in Layers : Normalize(e)[l] = <<>>
    BY <1>3, <1>4 DEF Layers
  <1>6. managed => /\ Normalize(e).stop_management = e.stop_management
                   /\ Normalize(e).take_management = e.take_management
                   /\ Normalize(e).runtime_exits = Exits(e)
    BY <1>2, <1>4
  <1>7. /\ Normalize(e).phase_rules = e.phase_rules
        /\ Normalize(e).mode = IF e.mode = "managed" THEN "managed" ELSE "diagnostic_only"
    BY <1>4
  <1> HIDE DEF none
  <1> QED  BY <1>5, <1>6, <1>7, Zenon

LEMMA NormalizedShape ==
  ASSUME NEW e
  PROVE  /\ DOMAIN Normalize(e) = {"legacy", "mode"} \cup Lists
         /\ Normalize(e) = [f \in DOMAIN Normalize(e) |-> Normalize(e)[f]]
         /\ Normalize(e).legacy = FALSE
  BY DEF Normalize, Lists, Layers

LEMMA NormalizedBlock ==
  ASSUME NEW e, Block(e)
  PROVE  Block(Normalize(e))
  <1> DEFINE d == Normalize(e)
  <1>1. ASSUME NEW l \in Lists PROVE RuleList(d[l], RuleFields(l))
    <2>1. CASE l = "phase_rules"
      BY <2>1, NormalizedIs DEF Block
    <2>2. CASE l # "phase_rules" /\ e.mode # "managed"
      BY <2>2, NormalizedIs, EmptyList DEF Lists
    <2>3. CASE l # "phase_rules" /\ e.mode = "managed"
      BY <2>3, NormalizedIs, ExitsAreRules DEF Block, Lists, Layers
    <2> QED  BY <2>1, <2>2, <2>3
  <1>2. DOMAIN d = {"legacy", "mode"} \cup Lists
    BY NormalizedShape, Zenon
  <1>3. d = [f \in DOMAIN d |-> d[f]]
    BY NormalizedShape, Zenon
  <1>4. d.legacy = FALSE
    BY NormalizedShape, Zenon
  <1> HIDE DEF d
  <1>5. Block(d)
    BY <1>1, <1>2, <1>3, <1>4, Zenon DEF Block
  <1> QED  BY <1>5 DEF d

\* The normalisation changes no rule's id where the block is managed, nor any phase rule's.
LEMMA NormalizedKeepsIds ==
  ASSUME NEW e, Block(e), NEW l \in Lists, l = "phase_rules" \/ e.mode = "managed"
  PROVE  Ids(Normalize(e)[l]) = Ids(e[l])
  BY NormalizedIs, ExitsAreRules DEF Lists, Layers

-----------------------------------------------------------------------------
(* The invariant: the draft is a block, whatever was edited.                   *)

DraftInv ==
    /\ Block(em) /\ loaded \in BOOLEAN
    /\ author = [ids |-> author.ids, lists |-> author.lists, rules |-> author.rules,
                 left |-> author.left]
    /\ author.left \in Nat /\ author.lists \subseteq Lists

\* The block a handler hands to Write: one list replaced, another mode, or a blank block
\* in the place of one of the old shape.
Edited(d) ==
    \/ OneListOf(em, d)
    \/ /\ ~em.legacy
       /\ \E m \in {"diagnostic_only", "managed"} \ {em.mode} : d = [em EXCEPT !.mode = m]
    \/ em.legacy /\ d = Blank

LEMMA RuleFieldsIs ==
  ASSUME NEW l \in Layers
  PROVE  /\ l \in Lists /\ RuleFields(l) = {"id", "component", "phase", "params", "role", "kind"}
         /\ RuleFields("phase_rules") = {"id", "to", "condition"} /\ "phase_rules" \in Lists
  BY DEF RuleFields, Layers, Lists

LEMMA ListsAreRules ==
  ASSUME DraftInv, NEW l \in Lists
  PROVE  /\ RuleList(em[l], RuleFields(l)) /\ Len(em[l]) \in Nat
         /\ DOMAIN em[l] = 1..Len(em[l])
         /\ \A i \in DOMAIN em[l] : DOMAIN em[l][i] = RuleFields(l)
  BY DEF DraftInv, Block, RuleList

\* A rule that keeps its fields may replace another, or leave, or join.
LEMMA SetRuleEdits ==
  ASSUME DraftInv, NEW l \in Lists, NEW i \in DOMAIN em[l], NEW r, SetRule(l, i, r),
         DOMAIN r = RuleFields(l)
  PROVE  \E d : Write(d) /\ Edited(d)
  <1> DEFINE s == [em[l] EXCEPT ![i] = r]
  <1>1. RuleList(s, RuleFields(l))
    BY ListsAreRules, OneReplaced
  <1>2. [em EXCEPT ![l][i] = r] = [em EXCEPT ![l] = s]
    BY DEF DraftInv, Block
  <1>3. OneListOf(em, [em EXCEPT ![l] = s])
    BY <1>1, Zenon DEF OneListOf
  <1>4. Write([em EXCEPT ![l] = s])
    BY <1>2, Zenon DEF SetRule
  <1> QED  BY <1>3, <1>4, Zenon DEF Edited

LEMMA RemoveEdits ==
  ASSUME DraftInv, NEW l \in Lists, NEW i \in DOMAIN em[l], RemoveRule(l, i)
  PROVE  \E d : Write(d) /\ Edited(d)
  <1> DEFINE s == RemoveAt(em[l], i)
  <1>1. RuleList(s, RuleFields(l))
    BY ListsAreRules, OneRemoved, Zenon
  <1>2. OneListOf(em, [em EXCEPT ![l] = s])
    BY <1>1, Zenon DEF OneListOf
  <1>3. Write([em EXCEPT ![l] = s])
    BY Zenon DEF RemoveRule
  <1> QED  BY <1>2, <1>3, Zenon DEF Edited

\* The rules the handlers make have the fields of the list they go to.
LEMMA NewRules ==
  ASSUME NEW n
  PROVE  /\ DOMAIN BlankPhaseRule(n) = RuleFields("phase_rules")
         /\ \A l \in Layers : DOMAIN BlankRule(l, n) = RuleFields(l)
  <1>1. DOMAIN BlankPhaseRule(n) = RuleFields("phase_rules")
    BY DEF BlankPhaseRule, RuleFields
  <1>2. ASSUME NEW l \in Layers PROVE DOMAIN BlankRule(l, n) = RuleFields(l)
    BY DEF BlankRule, NormalizeRuntimeExit, RuleFields, Layers
  <1> QED  BY <1>1, <1>2

LEMMA PresetIsList == RuleList(PresetRules, RuleFields("phase_rules"))
  BY DEF PresetRules, RuleList, RuleFields

LEMMA ListEdits ==
  ASSUME DraftInv, NEW l \in Lists, NEW s, RuleList(s, RuleFields(l)),
         Write([em EXCEPT ![l] = s])
  PROVE  \E d : Write(d) /\ Edited(d)
  <1>1. OneListOf(em, [em EXCEPT ![l] = s])
    BY Zenon DEF OneListOf
  <1> QED  BY <1>1, Zenon DEF Edited

LEMMA PhaseEdits ==
  ASSUME DraftInv, AddPhaseRule \/ UsePreset \/ EditPhases
  PROVE  \E d : Write(d) /\ Edited(d)
  <1> DEFINE rules == em.phase_rules
             fields == RuleFields("phase_rules")
  <1>1. /\ "phase_rules" \in Lists /\ RuleList(rules, fields) /\ DOMAIN rules = 1..Len(rules)
        /\ Len(rules) \in Nat
        /\ \A i \in DOMAIN rules : DOMAIN rules[i] = fields
    BY ListsAreRules DEF Lists
  <1>2. CASE AddPhaseRule
    <2>1. RuleList(Append(rules, BlankPhaseRule(Len(rules))), fields)
      BY <1>1, OneAdded, NewRules, Zenon
    <2> QED  BY <1>1, <1>2, <2>1, ListEdits DEF AddPhaseRule
  <1>3. CASE UsePreset
    BY <1>1, <1>3, PresetIsList, ListEdits DEF UsePreset
  <1>4. CASE EditPhases
    <2>1. PICK i \in DOMAIN rules : EditPhaseRule(i) \/ TypeCondition(i) \/ MovePhaseRule(i)
                                   \/ RemoveRule("phase_rules", i)
      BY <1>4, Zenon DEF EditPhases
    <2>2. CASE EditPhaseRule(i)
      <3> USE <1>1, SetRuleEdits
      <3>1. ASSUME NEW id, SetRule("phase_rules", i, [rules[i] EXCEPT !.id = id])
            PROVE  \E d : Write(d) /\ Edited(d)
        BY <3>1, DOMAIN [rules[i] EXCEPT !.id = id] = fields
      <3>2. ASSUME NEW p, SetRule("phase_rules", i, [rules[i] EXCEPT !.to = p])
            PROVE  \E d : Write(d) /\ Edited(d)
        BY <3>2, DOMAIN [rules[i] EXCEPT !.to = p] = fields
      <3>3. ASSUME NEW c, SetRule("phase_rules", i, [rules[i] EXCEPT !.condition = c])
            PROVE  \E d : Write(d) /\ Edited(d)
        BY <3>3, DOMAIN [rules[i] EXCEPT !.condition = c] = fields
      <3> QED  BY <2>2, <3>1, <3>2, <3>3, Zenon DEF EditPhaseRule
    <2>3. CASE TypeCondition(i)
      <3>1. PICK c : SetRule("phase_rules", i, [rules[i] EXCEPT !.condition = c])
        BY <2>3, Zenon DEF TypeCondition
      <3>2. DOMAIN [rules[i] EXCEPT !.condition = c] = fields
        BY <1>1
      <3> QED  BY <1>1, <3>1, <3>2, SetRuleEdits
    <2>4. CASE MovePhaseRule(i)
      <3> DEFINE one == [rules EXCEPT ![i] = rules[i + 1]]
                 s == [one EXCEPT ![i + 1] = rules[i]]
      <3>1. i + 1 \in DOMAIN rules
        BY <1>1, <2>4 DEF MovePhaseRule
      <3>2. RuleList(one, fields)
        BY <1>1, <3>1, OneReplaced, Zenon
      <3>3. RuleList(s, fields)
        BY <1>1, <3>1, <3>2, OneReplaced, Zenon
      <3>4. Write([em EXCEPT !.phase_rules[i] = rules[i + 1], !.phase_rules[i + 1] = rules[i]])
        BY <2>4, Zenon DEF MovePhaseRule
      <3>5. [em EXCEPT !.phase_rules[i] = rules[i + 1], !.phase_rules[i + 1] = rules[i]]
            = [em EXCEPT !.phase_rules = s]
        BY DEF DraftInv, Block, Lists
      <3> HIDE DEF s
      <3> QED  BY <1>1, <3>3, <3>4, <3>5, ListEdits
    <2>5. CASE RemoveRule("phase_rules", i)
      BY <1>1, <2>5, RemoveEdits
    <2> QED  BY <2>1, <2>2, <2>3, <2>4, <2>5
  <1> QED  BY <1>2, <1>3, <1>4

LEMMA LayerEdits ==
  ASSUME DraftInv, NEW l \in Layers, AddRule(l) \/ EditLayer(l)
  PROVE  \E d : Write(d) /\ Edited(d)
  <1>1. /\ l \in Lists /\ RuleList(em[l], RuleFields(l))
        /\ \A i \in DOMAIN em[l] : DOMAIN em[l][i] = RuleFields(l)
    BY ListsAreRules, RuleFieldsIs
  <1>2. CASE AddRule(l)
    <2>1. RuleList(Append(em[l], BlankRule(l, Len(em[l]))), RuleFields(l))
      BY <1>1, OneAdded, NewRules, Zenon
    <2> QED  BY <1>1, <1>2, <2>1, ListEdits DEF AddRule
  <1>3. CASE EditLayer(l)
    <2>1. PICK i \in DOMAIN em[l] : EditRule(l, i) \/ TypeParam(l, i) \/ RemoveRule(l, i)
      BY <1>3, Zenon DEF EditLayer
    <2>2. CASE EditRule(l, i)
      <3> DEFINE r == em[l][i]
      <3> USE <1>1, SetRuleEdits
      <3>1. ASSUME NEW id, SetRule(l, i, [r EXCEPT !.id = id])
            PROVE  \E d : Write(d) /\ Edited(d)
        BY <3>1, DOMAIN [r EXCEPT !.id = id] = RuleFields(l)
      <3>2. ASSUME NEW c, SetRule(l, i, WithComponent(l, r, c))
            PROVE  \E d : Write(d) /\ Edited(d)
        <4>1. DOMAIN WithComponent(l, r, c) = RuleFields(l)
          BY DEF WithComponent, NormalizeRuntimeExit
        <4> QED  BY <3>2, <4>1
      <3>3. ASSUME NEW p, SetRule(l, i, [r EXCEPT !.phase = p])
            PROVE  \E d : Write(d) /\ Edited(d)
        BY <3>3, DOMAIN [r EXCEPT !.phase = p] = RuleFields(l)
      <3>4. ASSUME NEW k, SetRule(l, i, NormalizeRuntimeExit([r EXCEPT !.kind = k]))
            PROVE  \E d : Write(d) /\ Edited(d)
        <4>1. DOMAIN NormalizeRuntimeExit([r EXCEPT !.kind = k]) = RuleFields(l)
          BY DEF NormalizeRuntimeExit
        <4> QED  BY <3>4, <4>1
      <3> QED  BY <2>2, <3>1, <3>2, <3>3, <3>4, Zenon DEF EditRule
    <2>3. CASE TypeParam(l, i)
      <3>1. PICK r : SetRule(l, i, r) /\ DOMAIN r = DOMAIN em[l][i]
        BY <2>3 DEF TypeParam
      <3> QED  BY <1>1, <3>1, SetRuleEdits
    <2>4. CASE RemoveRule(l, i)
      BY <1>1, <2>4, RemoveEdits
    <2> QED  BY <2>1, <2>2, <2>3, <2>4
  <1> QED  BY <1>2, <1>3

\* Every step but a save writes an edited block.
LEMMA NextIs ==
  ASSUME DraftInv, Next
  PROVE  Save \/ \E d : Write(d) /\ Edited(d)
  <1>1. CASE AddPhaseRule \/ UsePreset \/ EditPhases
    BY <1>1, PhaseEdits
  <1>2. CASE \E l \in Layers : AddRule(l) \/ EditLayer(l)
    BY <1>2, LayerEdits
  <1>3. CASE SetMode
    BY <1>3 DEF SetMode, Authoring, Edited
  <1>4. CASE Reset
    BY <1>4 DEF Reset, Edited
  <1> QED  BY <1>1, <1>2, <1>3, <1>4 DEF Next

LEMMA InitInv ==
  ASSUME Init
  PROVE  DraftInv
  BY AuthorsAssumption DEF Init, DraftInv

LEMMA NextInv ==
  ASSUME DraftInv, Next
  PROVE  DraftInv'
  <1>1. CASE Save
    BY <1>1 DEF Save, DraftInv
  <1>2. ASSUME NEW d, Write(d), Edited(d) PROVE DraftInv'
    <2>1. Block(d)
      <3>1. CASE OneListOf(em, d)
        <4>1. PICK l \in Lists : \E s : RuleList(s, RuleFields(l)) /\ d = [em EXCEPT ![l] = s]
          BY <3>1, Zenon DEF OneListOf
        <4>2. PICK s : RuleList(s, RuleFields(l)) /\ d = [em EXCEPT ![l] = s]
          BY <4>1, Zenon
        <4> QED  BY <4>2, ListReplaced DEF DraftInv
      <3>2. ASSUME NEW m, d = [em EXCEPT !.mode = m] PROVE Block(d)
        BY <3>2, ModeReplaced DEF DraftInv
      <3>3. Block(Blank)
        BY EmptyList DEF Blank, Block, Lists, Layers
      <3> QED  BY <1>2, <3>1, <3>2, <3>3 DEF Edited
    <2>2. Block(em')
      BY <1>2, <2>1, NormalizedBlock DEF Write
    <2>3. /\ author' = [author EXCEPT !.left = author.left - 1] /\ author.left > 0
          /\ loaded' = FALSE
      BY <1>2 DEF Write
    <2>4. /\ author' = [ids |-> author'.ids, lists |-> author'.lists, rules |-> author'.rules,
                        left |-> author'.left]
          /\ author'.left = author.left - 1 /\ author'.lists = author.lists
      BY <2>3 DEF DraftInv
    <2>5. author'.left \in Nat /\ author'.lists \subseteq Lists
      BY <2>3, <2>4 DEF DraftInv
    <2>6. loaded' \in BOOLEAN
      BY <2>3
    <2> QED  BY <2>2, <2>4, <2>5, <2>6, Zenon DEF DraftInv
  <1> QED  BY <1>1, <1>2, NextIs

LEMMA StutterInv ==
  ASSUME DraftInv, UNCHANGED vars
  PROVE  DraftInv'
  BY DEF DraftInv, vars

LEMMA AlwaysDraftInv == Spec => []DraftInv
  BY InitInv, NextInv, StutterInv, PTL DEF Spec

LEMMA InvTypeOK ==
  ASSUME DraftInv
  PROVE  TypeOK
  BY ListsAreRules DEF TypeOK, DraftInv, Block

-----------------------------------------------------------------------------
(* What passes both checks.                                                    *)

LEMMA RankIsNumber ==
  ASSUME NEW p \in TargetPhases
  PROVE  PhaseRank(p) \in Int
  <1>1. \E i \in DOMAIN PhaseOrder : PhaseOrder[i] = p
    BY DEF TargetPhases, Phases, Range
  <1>2. PhaseRank(p) \in DOMAIN PhaseOrder
    BY <1>1 DEF PhaseRank
  <1> QED  BY <1>2 DEF PhaseOrder

\* The check compares neighbours; any two rules are in order.
LEMMA CheckedIsOrdered ==
  ASSUME NEW e, Block(e), PhaseRulesOk(e)
  PROVE  Ordered(e)
  <1> DEFINE n == Len(e.phase_rules)
             f == [i \in 1..n |-> PhaseRank(e.phase_rules[i].to)]
  <1>1. n \in Nat /\ DOMAIN e.phase_rules = 1..n
    BY DEF Block, RuleList, Lists
  <1>2. \A i \in 1..n : f[i] \in Int
    BY <1>1, RankIsNumber DEF PhaseRulesOk
  <1>3. \A i \in 2..n : f[i] >= f[i - 1]
    BY <1>1 DEF PhaseRulesOk
  <1>4. \A i, j \in 1..n : i <= j => f[i] <= f[j]
    <2> HIDE DEF f, n
    <2> QED  BY <1>1, <1>2, <1>3, NeighboursInOrder
  <1> QED  BY <1>1, <1>4 DEF Ordered

LEMMA LayersAre ==
  ASSUME NEW e, Block(e)
  PROVE  \A l \in Layers : RuleList(e[l], RuleFields("stop_management"))
  BY DEF Block, Lists, Layers, RuleFields

\* One name space for the three layers is one for each.
LEMMA DistinctInEachLayer ==
  ASSUME NEW e, Block(e), Distinct(Management(e)), NEW l \in Layers
  PROVE  Distinct(e[l])
  <1> DEFINE fields == RuleFields("stop_management")
             a == e.stop_management
             b == e.take_management
             c == e.runtime_exits
             ab == a \o b
             abc == ab \o c
  <1>1. RuleList(a, fields) /\ RuleList(b, fields) /\ RuleList(c, fields)
    BY LayersAre DEF Layers
  <1>2. /\ Len(ab) = Len(a) + Len(b)
        /\ \A i \in 1..Len(a) : ab[i] = a[i]
        /\ \A i \in 1..Len(b) : ab[Len(a) + i] = b[i]
        /\ RuleList(ab, fields)
    <2> HIDE DEF a, b, fields
    <2> QED  BY <1>1, Joined
  <1>3. /\ DOMAIN abc = 1..(Len(ab) + Len(c))
        /\ \A i \in 1..Len(ab) : abc[i] = ab[i]
        /\ \A i \in 1..Len(c) : abc[Len(ab) + i] = c[i]
    <2>1. RuleList(ab, fields) /\ RuleList(c, fields)
      BY <1>1, <1>2, Zenon
    <2> HIDE DEF ab, c, fields
    <2> QED  BY <2>1, Joined
  <1>4. \A i, j \in DOMAIN abc : abc[i].id = abc[j].id => i = j
    BY DEF Management, Distinct
  <1>5. Len(a) \in Nat /\ Len(b) \in Nat /\ Len(c) \in Nat
        /\ DOMAIN a = 1..Len(a) /\ DOMAIN b = 1..Len(b) /\ DOMAIN c = 1..Len(c)
    BY <1>1 DEF RuleList
  <1> HIDE DEF abc, ab, a, b, c, fields
  <1>6. Distinct(a)
    BY <1>2, <1>3, <1>4, <1>5 DEF Distinct
  <1>7. Distinct(b)
    <2> SUFFICES ASSUME NEW i \in 1..Len(b), NEW j \in 1..Len(b), b[i].id = b[j].id
                 PROVE  i = j
      BY <1>5 DEF Distinct
    <2>1. Len(a) + i \in 1..Len(ab) /\ Len(a) + j \in 1..Len(ab)
      BY <1>2, <1>5
    <2>2. abc[Len(a) + i] = b[i] /\ abc[Len(a) + j] = b[j]
      BY <1>2, <1>3, <2>1
    <2>3. Len(a) + i \in DOMAIN abc /\ Len(a) + j \in DOMAIN abc
      BY <1>2, <1>3, <1>5, <2>1
    <2>4. Len(a) + i = Len(a) + j
      BY <1>4, <2>2, <2>3
    <2> QED  BY <1>5, <2>4
  <1>8. Distinct(c)
    <2> SUFFICES ASSUME NEW i \in 1..Len(c), NEW j \in 1..Len(c), c[i].id = c[j].id
                 PROVE  i = j
      BY <1>5 DEF Distinct
    <2>1. Len(ab) \in Nat /\ Len(ab) + i \in DOMAIN abc /\ Len(ab) + j \in DOMAIN abc
      BY <1>2, <1>3, <1>5
    <2>2. abc[Len(ab) + i] = c[i] /\ abc[Len(ab) + j] = c[j]
      BY <1>3
    <2>3. Len(ab) + i = Len(ab) + j
      BY <1>4, <2>1, <2>2
    <2> QED  BY <2>1, <2>3
  <1> QED  BY <1>6, <1>7, <1>8 DEF Layers, a, b, c

\* A block the loader takes keeps what the managed loop relies on.
Sound(e) ==
    /\ Ordered(e)
    /\ Distinct(e.phase_rules) /\ Distinct(Management(e))
    /\ e.mode # "managed" => Management(e) = <<>>
    /\ \A i \in DOMAIN e.runtime_exits :
          LET r == e.runtime_exits[i]
          IN  r.component = "ema_cross_loss_exit" => Rank[r.params.fast] < Rank[r.params.slow]

LEMMA LoadedIsSound ==
  ASSUME NEW e, Block(e), LoaderAccepts(e)
  PROVE  Sound(e)
  <1>1. Ordered(e)
    BY CheckedIsOrdered DEF LoaderAccepts
  <1>2. Distinct(e.phase_rules) /\ Distinct(Management(e))
    BY DEF LoaderAccepts, PhaseRulesOk
  <1>3. e.mode # "managed" => Management(e) = <<>>
    BY DEF LoaderAccepts
  <1>4. ASSUME NEW i \in DOMAIN e.runtime_exits,
               e.runtime_exits[i].component = "ema_cross_loss_exit"
        PROVE  Rank[e.runtime_exits[i].params.fast] < Rank[e.runtime_exits[i].params.slow]
    <2>1. LoaderParams("ema_cross_loss_exit", e.runtime_exits[i].params)
      BY <1>4 DEF LoaderAccepts, LoaderRule, Layers
    <2> QED  BY <2>1 DEF LoaderParams
  <1> QED  BY <1>1, <1>2, <1>3, <1>4 DEF Sound

\* Outside managed mode a block the loader takes has no management rule.
LEMMA NoStrayRules ==
  ASSUME NEW e, Block(e), Management(e) = <<>>, NEW l \in Layers
  PROVE  e[l] = <<>>
  <1> DEFINE fields == RuleFields("stop_management")
             a == e.stop_management
             b == e.take_management
             c == e.runtime_exits
             ab == a \o b
             abc == ab \o c
  <1>1. RuleList(a, fields) /\ RuleList(b, fields) /\ RuleList(c, fields)
    BY LayersAre DEF Layers
  <1>2. Len(ab) = Len(a) + Len(b) /\ RuleList(ab, fields)
    <2> HIDE DEF a, b, fields
    <2> QED  BY <1>1, Joined
  <1>3. Len(abc) = Len(ab) + Len(c)
    <2>1. RuleList(ab, fields) /\ RuleList(c, fields)
      BY <1>1, <1>2, Zenon
    <2> HIDE DEF ab, c, fields
    <2> QED  BY <2>1, Joined
  <1>4. Len(abc) = 0
    BY DEF Management
  <1>5. Len(a) \in Nat /\ Len(b) \in Nat /\ Len(c) \in Nat
    BY <1>1 DEF RuleList
  <1> HIDE DEF abc, ab, a, b, c
  <1>6. Len(a) = 0 /\ Len(b) = 0 /\ Len(c) = 0
    <2>1. Len(a) + Len(b) + Len(c) = 0
      BY <1>2, <1>3, <1>4
    <2> QED  BY <1>5, <2>1
  <1>7. ASSUME NEW s, RuleList(s, fields), Len(s) = 0 PROVE s = <<>>
    BY <1>7 DEF RuleList
  <1>8. a = <<>> /\ b = <<>> /\ c = <<>>
    BY <1>1, <1>6, <1>7
  <1> QED  BY <1>8 DEF Layers, a, b, c

\* The Composer's own check asks nothing of one rule the loader does not ask.
LEMMA RuleTakenByBoth ==
  ASSUME NEW l \in Layers, NEW r, LoaderRule(l, r), DOMAIN r = RuleFields("runtime_exits"),
         r.component = "lock_profit_stop" => HasAtr(r.params),
         r.component = "rsi_signal_exit" => "period" \in DOMAIN r.params,
         Given(r.params, "action", "none") # "disable_fixed_tp"
  PROVE  /\ ParamsOk(r.component, r.params)
         /\ l = "runtime_exits" => ExitOk(NormalizeRuntimeExit(r))
  <1>1. ParamsOk(r.component, r.params)
    <2>1. /\ LoaderParams(r.component, r.params)
          /\ r.component \in {"break_even_stop", "lock_profit_stop", "take_profile_switch",
                              "ema_cross_loss_exit", "phase_runtime_exit", "rsi_signal_exit"}
      BY DEF LoaderRule, Components, Range, Layers
    <2>2. CASE r.component = "lock_profit_stop"
      BY <2>1, <2>2 DEF LoaderParams, ParamsOk
    <2>3. CASE r.component # "lock_profit_stop"
      BY <2>1, <2>3 DEF LoaderParams, ParamsOk
    <2> QED  BY <2>2, <2>3
  <1>2. ASSUME l = "runtime_exits" PROVE ExitOk(NormalizeRuntimeExit(r))
    <2> DEFINE x == NormalizeRuntimeExit(r)
    <2>1. /\ x.component = r.component /\ x.params = r.params /\ x.role = "runtime_exit"
          /\ x.kind = IF r.component = "phase_runtime_exit" THEN "market_close"
                      ELSE IF r.kind = "none" THEN DefaultKind(r.component) ELSE r.kind
      BY ExitNormalized
    <2>2. r.component \in {"ema_cross_loss_exit", "phase_runtime_exit", "rsi_signal_exit"}
      BY <1>2 DEF LoaderRule, Components, Range
    <2>3. r.component # "phase_runtime_exit" => x.kind \in Kinds
      BY <1>2, <2>1 DEF LoaderRule, LoaderExit, Kinds
    <2> HIDE DEF x
    <2> QED  BY <2>1, <2>2, <2>3
             DEF LoaderRule, LoaderParams, ExitOk, Positive, PositiveInteger, Given, Rank, x
  <1> QED  BY <1>1, <1>2

LEMMA ComposerTakes ==
  ASSUME NEW e, Block(e), EditorForm(e), LoaderAccepts(e)
  PROVE  ComposerAccepts(e)
  <1> DEFINE d == Normalize(e)
  <1>1. ~e.legacy /\ PhaseRulesOk(e) /\ Distinct(Management(e))
        /\ \A l \in Layers : \A i \in DOMAIN e[l] : LoaderRule(l, e[l][i])
    BY DEF LoaderAccepts
  <1>2. PhaseRulesOk(d)
    <2>1. d.phase_rules = e.phase_rules
      BY NormalizedIs
    <2> HIDE DEF d
    <2> QED  BY <1>1, <2>1, Zenon DEF PhaseRulesOk
  <1>3. ManagedRulesOk(d)
    <2>1. CASE e.mode # "managed"
      BY <2>1, NormalizedIs DEF ManagedRulesOk
    <2>2. CASE e.mode = "managed"
      <3> SUFFICES ASSUME NEW l \in Layers
                   PROVE  /\ Named(d[l]) /\ Distinct(d[l])
                          /\ \A i \in DOMAIN d[l] :
                                /\ d[l][i].component \in Range(Components[l])
                                /\ d[l][i].phase \in Phases
                                /\ ParamsOk(d[l][i].component, d[l][i].params)
                                /\ l = "runtime_exits" => ExitOk(d[l][i])
        BY <2>2, NormalizedIs DEF ManagedRulesOk
      <3>1. /\ d[l] = IF l = "runtime_exits" THEN Exits(e) ELSE e[l]
            /\ DOMAIN d[l] = DOMAIN e[l]
        BY <2>2, NormalizedIs DEF Layers, Exits
      <3>2. ASSUME NEW i \in DOMAIN e[l]
            PROVE  /\ d[l][i] = IF l = "runtime_exits" THEN NormalizeRuntimeExit(e[l][i])
                                                       ELSE e[l][i]
                   /\ DOMAIN e[l][i] = RuleFields("runtime_exits")
        <4>1. DOMAIN e[l][i] = RuleFields("runtime_exits")
          <5>1. RuleList(e[l], RuleFields("stop_management"))
            BY LayersAre
          <5>2. RuleFields("stop_management") = RuleFields("runtime_exits")
            BY DEF RuleFields
          <5> QED  BY <5>1, <5>2 DEF RuleList
        <4>2. l = "runtime_exits" => Exits(e)[i] = NormalizeRuntimeExit(e[l][i])
          BY DEF Exits
        <4> QED  BY <3>1, <4>1, <4>2
      <3>3. ASSUME NEW i \in DOMAIN e[l]
            PROVE  /\ d[l][i].id = e[l][i].id /\ d[l][i].component = e[l][i].component
                   /\ d[l][i].phase = e[l][i].phase /\ d[l][i].params = e[l][i].params
        BY <3>2, ExitNormalized
      <3>4. ASSUME NEW i \in DOMAIN e[l]
            PROVE  /\ e[l][i].id # <<>> /\ e[l][i].component \in Range(Components[l])
                   /\ e[l][i].phase \in Phases /\ ParamsOk(e[l][i].component, e[l][i].params)
                   /\ l = "runtime_exits" => ExitOk(NormalizeRuntimeExit(e[l][i]))
        <4>1. LoaderRule(l, e[l][i])
          BY <1>1
        <4>2. /\ e[l][i].component = "lock_profit_stop" => HasAtr(e[l][i].params)
              /\ e[l][i].component = "rsi_signal_exit" => "period" \in DOMAIN e[l][i].params
              /\ Given(e[l][i].params, "action", "none") # "disable_fixed_tp"
          BY Zenon DEF EditorForm
        <4>3. /\ ParamsOk(e[l][i].component, e[l][i].params)
              /\ l = "runtime_exits" => ExitOk(NormalizeRuntimeExit(e[l][i]))
          BY <3>2, <4>1, <4>2, RuleTakenByBoth
        <4>4. /\ e[l][i].id # <<>> /\ e[l][i].component \in Range(Components[l])
              /\ e[l][i].phase \in Phases
          BY <4>1, Zenon DEF LoaderRule
        <4> QED  BY <4>3, <4>4
      <3>5. Distinct(e[l])
        BY <1>1, DistinctInEachLayer
      <3> HIDE DEF d
      <3>6. Named(d[l])
        BY <3>1, <3>3, <3>4 DEF Named
      <3>7. Distinct(d[l])
        BY <3>1, <3>3, <3>5 DEF Distinct
      <3>8. ASSUME NEW i \in DOMAIN d[l]
            PROVE  /\ d[l][i].component \in Range(Components[l])
                   /\ d[l][i].phase \in Phases
                   /\ ParamsOk(d[l][i].component, d[l][i].params)
                   /\ l = "runtime_exits" => ExitOk(d[l][i])
        BY <3>1, <3>2, <3>3, <3>4
      <3> QED  BY <3>6, <3>7, <3>8
    <2> QED  BY <2>1, <2>2
  <1> QED  BY <1>1, <1>2, <1>3 DEF ComposerAccepts

-----------------------------------------------------------------------------
(* What an edit leaves alone.                                                  *)

OneListChanges ==
    \E one \in Lists : \A l \in Lists \ {one} : Ids(em'[l]) = Ids(em[l])

LEMMA EditStripsNothing ==
  ASSUME DraftInv, LoaderAccepts(em), em.mode = "managed" => em'.mode = "managed",
         NEW d, Write(d), Edited(d)
  PROVE  OneListChanges
  <1>1. Block(em) /\ em' = Normalize(d) /\ ~em.legacy
    BY DEF DraftInv, Write, LoaderAccepts
  <1>2. em.mode # "managed" => \A l \in Layers : em[l] = <<>>
    BY <1>1, NoStrayRules DEF LoaderAccepts
  <1>3. ASSUME NEW one \in Lists, Block(d), \A l \in Lists \ {one} : d[l] = em[l],
               d.mode = "managed" \/ em.mode # "managed"
        PROVE  OneListChanges
    <2>1. ASSUME NEW l \in Lists \ {one} PROVE Ids(em'[l]) = Ids(em[l])
      <3>1. CASE l = "phase_rules" \/ d.mode = "managed"
        BY <1>1, <1>3, <3>1, NormalizedKeepsIds
      <3>2. CASE l # "phase_rules" /\ d.mode # "managed"
        <4>1. l \in Layers /\ em[l] = <<>>
          BY <1>2, <1>3, <3>2 DEF Lists
        <4>2. em'[l] = <<>>
          BY <1>1, <1>3, <3>2, <4>1, NormalizedIs
        <4> QED  BY <4>1, <4>2
      <3> QED  BY <3>1, <3>2
    <2> QED  BY <2>1 DEF OneListChanges
  <1>4. CASE OneListOf(em, d)
    <2>1. PICK l \in Lists : \E s : RuleList(s, RuleFields(l)) /\ d = [em EXCEPT ![l] = s]
      BY <1>4, Zenon DEF OneListOf
    <2>2. PICK s : RuleList(s, RuleFields(l)) /\ d = [em EXCEPT ![l] = s]
      BY <2>1, Zenon
    <2>3. Block(em)
      BY <1>1
    <2> DEFINE e == [em EXCEPT ![l] = s]
    <2>4. Block(e) /\ e.mode = em.mode /\ \A m \in Lists \ {l} : e[m] = em[m]
      BY <2>2, <2>3, ListReplaced, Zenon
    <2> HIDE DEF e
    <2>5. d = e
      BY <2>2 DEF e
    <2>6. Block(d) /\ d.mode = em.mode /\ \A m \in Lists \ {l} : d[m] = em[m]
      BY <2>4, <2>5
    <2> QED  BY <1>3, <2>6
  <1>5. CASE \E m \in {"diagnostic_only", "managed"} \ {em.mode} : d = [em EXCEPT !.mode = m]
    <2>1. PICK m \in {"diagnostic_only", "managed"} \ {em.mode} : d = [em EXCEPT !.mode = m]
      BY <1>5
    <2>2. Block(d) /\ d.mode = m /\ \A l \in Lists : d[l] = em[l]
      BY <1>1, <2>1, ModeReplaced
    <2>3. em.mode # "managed"
      BY <1>1, <2>1, <2>2, NormalizedIs
    <2>4. "phase_rules" \in Lists
      BY DEF Lists
    <2> QED  BY <1>3, <2>2, <2>3, <2>4
  <1> QED  BY <1>1, <1>4, <1>5 DEF Edited

-----------------------------------------------------------------------------
(* The theorems.                                                               *)

\* For every block a file may hold, with any number of rules, and every sequence of
\* edits: an edited block the research loader would take (and that does not use the
\* alias no editor writes) is accepted by the Composer's own check of the normalised
\* block. Type correctness is part of the statement.
THEOREM ComposerNeverInTheWay == Spec => []LoaderTakesComposerTakes
  <1>1. DraftInv => LoaderTakesComposerTakes
    BY InvTypeOK, ComposerTakes DEF DraftInv, LoaderTakesComposerTakes
  <1> QED  BY <1>1, AlwaysDraftInv, PTL

\* What a save stores has its phases in order (any two rules, not only neighbours), ids
\* that are unique over all three layers, no management rule outside managed mode, and
\* averages whose fast period is the smaller.
THEOREM SavesAreSound == Spec => SavedIsSound
  <1>1. ASSUME DraftInv, [Next]_vars, stored' # stored
        PROVE  Sound(stored')
    <2>1. Save
      BY <1>1, NextIs DEF vars, Write
    <2>2. Sound(em) /\ stored' = em
      BY <1>1, <2>1, LoadedIsSound DEF Save, DraftInv
    <2> QED  BY <2>2
  <1>2. DraftInv /\ [Next]_vars => [stored' # stored => Sound(stored')]_vars
    BY <1>1
  <1>3. [][stored' # stored => Sound(stored')]_vars => SavedIsSound
    BY PTL DEF SavedIsSound, Sound
  <1> QED  BY <1>2, <1>3, AlwaysDraftInv, PTL DEF Spec

\* No edit of a block that passes both checks removes or renames a rule of another list,
\* whether or not the Composer ever normalised the block, unless it leaves managed mode.
THEOREM EditsStripNothing == Spec => AcceptedIsNotStripped
  <1>1. ASSUME DraftInv, [Next]_vars, ComposerAccepts(em), LoaderAccepts(em),
               em.mode = "managed" => em'.mode = "managed"
        PROVE  OneListChanges
    <2>1. CASE em' = em
      BY <2>1 DEF OneListChanges, Lists
    <2>2. CASE Save
      BY <2>1, <2>2 DEF Save
    <2>3. CASE UNCHANGED vars
      BY <2>1, <2>3 DEF vars
    <2>4. ASSUME NEW d, Write(d), Edited(d) PROVE OneListChanges
      BY <1>1, <2>4, EditStripsNothing
    <2> QED  BY <1>1, <2>2, <2>3, <2>4, NextIs
  <1>2. DraftInv /\ [Next]_vars =>
          [ComposerAccepts(em) /\ LoaderAccepts(em) /\ (em.mode = "managed" => em'.mode = "managed")
             => OneListChanges]_vars
    BY <1>1
  <1>3. [][ComposerAccepts(em) /\ LoaderAccepts(em) /\ (em.mode = "managed" => em'.mode = "managed")
             => OneListChanges]_vars => AcceptedIsNotStripped
    BY PTL DEF AcceptedIsNotStripped, OneListChanges, Ids
  <1> QED  BY <1>2, <1>3, AlwaysDraftInv, PTL DEF Spec
=============================================================================
