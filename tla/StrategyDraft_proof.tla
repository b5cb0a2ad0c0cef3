------------------------- MODULE StrategyDraft_proof -------------------------
(***************************************************************************)
(* Proofs about StrategyDraft, for every set of authors: whatever files    *)
(* they have, refs and ids they type, and however many edits they make.    *)
(***************************************************************************)
EXTENDS StrategyDraft, SequenceTheorems, TLAPS

IsSeq(q) == q \in Seq(Range(q))

\* A slot, a strategy and a draft in their editing shape.
SlotOk(l, t) ==
  /\ t = [id |-> t.id, comp |-> t.comp, flat |-> t.flat, nested |-> t.nested, use |-> t.use]
  /\ t.comp \in componentsForRole(l) /\ (Nested(t.comp) => t.nested = "none")
SlotsOk(l, q) == IsSeq(q) /\ \A k \in DOMAIN q : SlotOk(l, q[k])
ListsOk(lists) == lists = [l \in Lists |-> lists[l]] /\ \A l \in Lists : SlotsOk(l, lists[l])
StrategyOk(s) ==
  /\ s = [contexts |-> s.contexts, legacy |-> None, exitUse |-> s.exitUse, lists |-> s.lists]
  /\ ListsOk(s.lists)
InstanceOk(x) == x = [id |-> x.id, s |-> x.s] /\ StrategyOk(x.s)
DraftOk(d) == IsSeq(d) /\ \A i \in DOMAIN d : InstanceOk(d[i])

\* What the loader holds a stored strategy to.
RefsOk(s) == UsedRefs(s) \subseteq s.contexts
IdsOk(s) == Distinct(Ids(AllExits(s)))
StoredOk == \A i \in DOMAIN stored : RefsOk(stored[i].s) /\ IdsOk(stored[i].s)
                                     /\ (ConsumesContext(stored[i].s) => stored[i].s.exitUse # NoUse)

\* The exit policy consumes a context only for some profile.
UseIsNeeded(s) == s.exitUse # NoUse => ConsumesContext(s)

AuthorOk == "lists" \in DOMAIN author /\ author.lists \subseteq Lists

DraftInv == DraftOk(draft) /\ selected \in DOMAIN draft /\ StoredOk /\ AuthorOk

(***************************************************************************)
(* Lemmas about sequences of anything.                                      *)
(***************************************************************************)

LEMMA SeqIs ==
  ASSUME NEW S, NEW q \in Seq(S)
  PROVE  IsSeq(q)
<1>1. DOMAIN q = 1 .. Len(q) /\ Len(q) \in Nat /\ q = [k \in 1 .. Len(q) |-> q[k]]
  OBVIOUS
<1>2. \A k \in 1 .. Len(q) : q[k] \in Range(q)
  BY <1>1 DEF Range
<1>3. q \in [1 .. Len(q) -> Range(q)]
  BY <1>1, <1>2
<1>4. QED BY <1>1, <1>3 DEF IsSeq

LEMMA SeqHas ==
  ASSUME NEW q, IsSeq(q)
  PROVE  /\ Len(q) \in Nat /\ DOMAIN q = 1 .. Len(q)
         /\ q = [k \in 1 .. Len(q) |-> q[k]]
         /\ \A S : (\A k \in 1 .. Len(q) : q[k] \in S) => q \in Seq(S)
<1>1. Len(q) \in Nat /\ DOMAIN q = 1 .. Len(q) /\ q = [k \in 1 .. Len(q) |-> q[k]]
  BY DEF IsSeq
<1>2. ASSUME NEW S, \A k \in 1 .. Len(q) : q[k] \in S
      PROVE  q \in Seq(S)
  <2>1. q \in [1 .. Len(q) -> S]
    BY <1>1, <1>2
  <2>2. QED BY <1>1, <2>1
<1>3. QED BY <1>1, <1>2

LEMMA ListIs ==
  ASSUME NEW n \in Nat, NEW S, NEW q \in [1 .. n -> S]
  PROVE  IsSeq(q)
<1>1. q \in Seq(S)
  OBVIOUS
<1>2. QED BY <1>1, SeqIs

LEMMA AppendIs ==
  ASSUME NEW q, IsSeq(q), NEW t
  PROVE  /\ IsSeq(Append(q, t)) /\ Len(Append(q, t)) = Len(q) + 1
         /\ \A k \in DOMAIN Append(q, t) :
              \/ k \in DOMAIN q /\ Append(q, t)[k] = q[k]
              \/ Append(q, t)[k] = t
<1> DEFINE S == Range(q) \cup {t}
<1>1. Len(q) \in Nat /\ DOMAIN q = 1 .. Len(q) /\ \A k \in 1 .. Len(q) : q[k] \in S
  BY SeqHas DEF Range
<1>2. t \in S
  OBVIOUS
<1> HIDE DEF S
<1>3. q \in Seq(S)
  BY <1>1, SeqHas
<1>4. Append(q, t) \in Seq(S) /\ Len(Append(q, t)) = Len(q) + 1
  BY <1>2, <1>3
<1>5. \A k \in 1 .. Len(q) + 1 : Append(q, t)[k] = IF k <= Len(q) THEN q[k] ELSE t
  BY <1>2, <1>3
<1>6. DOMAIN Append(q, t) = 1 .. Len(q) + 1
  BY <1>4
<1>7. \A k \in DOMAIN Append(q, t) :
        \/ k \in DOMAIN q /\ Append(q, t)[k] = q[k]
        \/ Append(q, t)[k] = t
  BY <1>1, <1>5, <1>6
<1>8. IsSeq(Append(q, t))
  BY <1>4, SeqIs
<1>9. QED BY <1>4, <1>7, <1>8

LEMMA RemoveIs ==
  ASSUME NEW q, IsSeq(q), NEW i \in DOMAIN q
  PROVE  /\ IsSeq(RemoveAt(q, i)) /\ Len(RemoveAt(q, i)) = Len(q) - 1
         /\ \A k \in DOMAIN RemoveAt(q, i) : \E j \in DOMAIN q : RemoveAt(q, i)[k] = q[j]
<1> DEFINE S == Range(q)
           a == SubSeq(q, 1, i - 1)
           b == SubSeq(q, i + 1, Len(q))
<1>1. Len(q) \in Nat /\ i \in 1 .. Len(q) /\ q \in Seq(S) /\ DOMAIN q = 1 .. Len(q)
  BY SeqHas DEF IsSeq
<1>2. S = {q[j] : j \in DOMAIN q}
  BY DEF Range
<1> HIDE DEF S
<1>3. a \in Seq(S) /\ Len(a) = i - 1 /\ b \in Seq(S) /\ Len(b) = Len(q) - i
  BY <1>1
<1>4. RemoveAt(q, i) = a \o b
  BY DEF RemoveAt
<1> HIDE DEF a, b
<1>5. a \o b \in Seq(S) /\ Len(a \o b) = Len(q) - 1
  <2>1. a \o b \in Seq(S) /\ Len(a \o b) = Len(a) + Len(b)
    BY <1>3, ConcatProperties
  <2>2. QED BY <1>1, <1>3, <2>1
<1>6. \A k \in DOMAIN (a \o b) : (a \o b)[k] \in S
  BY <1>5
<1>7. IsSeq(a \o b)
  BY <1>5, SeqIs
<1>8. QED BY <1>2, <1>4, <1>5, <1>6, <1>7

LEMMA PutAt ==
  ASSUME NEW q, IsSeq(q), NEW i \in DOMAIN q, NEW t
  PROVE  /\ IsSeq([q EXCEPT ![i] = t]) /\ DOMAIN [q EXCEPT ![i] = t] = DOMAIN q
         /\ \A k \in DOMAIN q : [q EXCEPT ![i] = t][k] = IF k = i THEN t ELSE q[k]
<1> DEFINE r == [q EXCEPT ![i] = t]
           S == Range(q) \cup {t}
<1>1. /\ Len(q) \in Nat /\ DOMAIN q = 1 .. Len(q) /\ \A k \in 1 .. Len(q) : q[k] \in S
      /\ q = [k \in 1 .. Len(q) |-> q[k]] /\ t \in S
  BY SeqHas DEF Range
<1>2. r = [k \in 1 .. Len(q) |-> IF k = i THEN t ELSE q[k]]
  BY <1>1
<1> HIDE DEF r, S
<1>3. r \in [1 .. Len(q) -> S]
  BY <1>1, <1>2
<1>4. r \in Seq(S) /\ DOMAIN r = 1 .. Len(q)
  BY <1>1, <1>3
<1>5. IsSeq(r) /\ DOMAIN r = DOMAIN q /\ \A k \in DOMAIN q : r[k] = IF k = i THEN t ELSE q[k]
  BY <1>1, <1>2, <1>4, SeqIs
<1>6. QED BY <1>5 DEF r

(***************************************************************************)
(* The two shapes.                                                          *)
(***************************************************************************)

LEMMA Roles ==
  /\ \A l \in Lists \ {"setups", "trigger"} : \A c \in componentsForRole(l) : ~Nested(c)
  /\ "untouched_anchor_setup" \in componentsForRole("setups")
  /\ "no_blockers" \in componentsForRole("blockers")
  /\ "reclaim_anchor" \in componentsForRole("trigger")
  /\ "rsi_signal_exit" \in componentsForRole("always_on")
<1> DEFINE C == DOMAIN Catalog
<1>1. C = {"untouched_anchor_setup", "ema_bounce_counter_setup", "no_blockers",
           "counter_candle_blocker", "reclaim_anchor", "touch_anchor", "rsi_signal_exit"}
  BY DEF Catalog
<1>2. /\ Catalog["untouched_anchor_setup"].role = "setups"
      /\ Catalog["ema_bounce_counter_setup"].role = "setups"
      /\ Catalog["no_blockers"].role = "blockers"
      /\ Catalog["counter_candle_blocker"].role = "blockers"
      /\ Catalog["reclaim_anchor"].role = "trigger"
      /\ Catalog["touch_anchor"].role = "trigger"
      /\ Catalog["rsi_signal_exit"].role = "exits"
      /\ \A c \in C \ {"ema_bounce_counter_setup"} : Catalog[c].storage = "flat"
  BY DEF Catalog, Component
<1>3. \A c \in C : Nested(c) => c = "ema_bounce_counter_setup"
  BY <1>2 DEF Nested
<1>4. \A l \in Lists \ {"setups", "trigger"} : \A c \in componentsForRole(l) : ~Nested(c)
  BY <1>2, <1>3 DEF componentsForRole, Lists, SlotLists, ExitLists, Profiles, Singles
<1>5. QED BY <1>1, <1>2, <1>4 DEF componentsForRole, ExitLists, Profiles

LEMMA DefaultsAre ==
  ASSUME NEW id, NEW l, NEW c \in componentsForRole(l)
  PROVE  SlotOk(l, applyComponentDefaults(id, c)) /\ applyComponentDefaults(id, c).id = id
<1>1. PICK t, flat : t = applyComponentDefaults(id, c)
                     /\ t = [id |-> id, comp |-> c, flat |-> flat, nested |-> "none", use |-> NoUse]
  BY DEF applyComponentDefaults
<1>2. QED BY <1>1 DEF SlotOk

\* A slot taken to the API's shape and back is the slot it was.
LEMMA SlotReturns ==
  ASSUME NEW l, NEW t, SlotOk(l, t)
  PROVE  /\ slotForEditing(t) = t
         /\ slotForEditing(slotForApi(t)) = t
         /\ slotForApi(t).id = t.id
<1>1. /\ t = [id |-> t.id, comp |-> t.comp, flat |-> t.flat, nested |-> t.nested, use |-> t.use]
      /\ Nested(t.comp) => t.nested = "none"
  BY DEF SlotOk
<1>2. slotForEditing(t) = t
  BY <1>1 DEF slotForEditing
<1>3. CASE ~Nested(t.comp)
  BY <1>2, <1>3 DEF slotForApi
<1>4. CASE Nested(t.comp) /\ t.flat # "none"
  <2>1. PICK id, c, flat, use : id = t.id /\ c = t.comp /\ flat = t.flat /\ use = t.use
    OBVIOUS
  <2>2. /\ t = [id |-> id, comp |-> c, flat |-> flat, nested |-> "none", use |-> use]
        /\ Nested(c) /\ flat # "none"
    BY <1>1, <1>4, <2>1
  <2>3. slotForApi(t) = [id |-> id, comp |-> c, flat |-> "none", nested |-> flat, use |-> use]
    BY <2>2 DEF slotForApi
  <2>4. slotForEditing([id |-> id, comp |-> c, flat |-> "none", nested |-> flat, use |-> use])
          = [id |-> id, comp |-> c, flat |-> flat, nested |-> "none", use |-> use]
    BY <2>2 DEF slotForEditing
  <2>5. QED BY <1>2, <2>2, <2>3, <2>4
<1>5. CASE Nested(t.comp) /\ t.flat = "none"
  <2>1. slotForApi(t) = t
    BY <1>1, <1>5 DEF slotForApi
  <2>2. QED BY <1>2, <2>1
<1>6. QED BY <1>3, <1>4, <1>5

LEMMA SlotLoaded ==
  ASSUME NEW l, NEW t, FileSlot(l, t)
  PROVE  SlotOk(l, slotForEditing(t)) /\ (~Nested(t.comp) => SlotOk(l, t))
  BY DEF FileSlot, SlotOk, slotForEditing

LEMMA ListOfNone ==
  ASSUME NEW s, s = [contexts |-> s.contexts, legacy |-> None, exitUse |-> s.exitUse,
                     lists |-> s.lists]
  PROVE  migrateLegacySetup(s) = s
  BY DEF migrateLegacySetup

\* A draft in its editing shape stays as it is.
LEMMA ShapeStays ==
  ASSUME NEW s, StrategyOk(s)
  PROVE  normalizeStrategyForEditing(s) = s
<1>1. /\ s = [contexts |-> s.contexts, legacy |-> None, exitUse |-> s.exitUse, lists |-> s.lists]
      /\ s.lists = [l \in Lists |-> s.lists[l]]
      /\ \A l \in Lists : /\ s.lists[l] = [k \in DOMAIN s.lists[l] |-> s.lists[l][k]]
                          /\ \A k \in DOMAIN s.lists[l] : SlotOk(l, s.lists[l][k])
  BY SeqHas DEF StrategyOk, ListsOk, SlotsOk
<1>2. \A l \in Lists : \A k \in DOMAIN s.lists[l] : slotForEditing(s.lists[l][k]) = s.lists[l][k]
  BY <1>1, SlotReturns
<1>3. \A l \in Lists : [k \in DOMAIN s.lists[l] |-> slotForEditing(s.lists[l][k])] = s.lists[l]
  BY <1>1, <1>2
<1>4. PICK shaped : shaped = [l \in Lists |-> [i \in DOMAIN s.lists[l] |->
                                                slotForEditing(s.lists[l][i])]]
  OBVIOUS
<1>5. shaped = s.lists
  BY <1>1, <1>3, <1>4
<1>6. normalizeSlots(s, shaped) = s
  <2>1. [l \in Lists |-> IF l \in {"setups", "trigger"} THEN shaped[l] ELSE s.lists[l]] = s.lists
    BY <1>1, <1>5
  <2>2. QED BY <1>1, <2>1 DEF normalizeSlots
<1>7. migrateLegacySetup(s) = s
  BY <1>1, ListOfNone
<1>8. QED BY <1>4, <1>6, <1>7 DEF normalizeStrategyForEditing

\* What the API's shape of a strategy has, and what it is read back as.
LEMMA ApiIs ==
  ASSUME NEW s, StrategyOk(s), NEW p, p = prepareStrategyForApi(s)
  PROVE  /\ p.exitUse = IF ConsumesContext(s) THEN s.exitUse ELSE NoUse
         /\ ConsumesContext(p) = ConsumesContext(s)
         /\ StrategyOk(normalizeStrategyForEditing(p))
         /\ normalizeStrategyForEditing(p).contexts = s.contexts
         /\ normalizeStrategyForEditing(p).lists = s.lists
         /\ normalizeStrategyForEditing(p).exitUse = p.exitUse
<1>1. /\ s = [contexts |-> s.contexts, legacy |-> None, exitUse |-> s.exitUse, lists |-> s.lists]
      /\ s.lists = [l \in Lists |-> s.lists[l]]
      /\ \A l \in Lists : /\ s.lists[l] = [k \in DOMAIN s.lists[l] |-> s.lists[l][k]]
                          /\ \A k \in DOMAIN s.lists[l] : SlotOk(l, s.lists[l][k])
  BY SeqHas DEF StrategyOk, ListsOk, SlotsOk
<1>2. PICK api : api = [l \in Lists |-> [i \in DOMAIN s.lists[l] |-> slotForApi(s.lists[l][i])]]
  OBVIOUS
<1>3. PICK lists : lists = [l \in Lists |-> IF l \in {"setups", "trigger"} THEN api[l]
                                            ELSE s.lists[l]]
  OBVIOUS
<1>4. PICK u : u = IF ConsumesContext(s) THEN s.exitUse ELSE NoUse
  OBVIOUS
<1>5. p = [contexts |-> s.contexts, legacy |-> None, exitUse |-> u, lists |-> lists]
  <2>1. PICK t : t = [contexts |-> s.contexts, legacy |-> None, exitUse |-> u, lists |-> s.lists]
    OBVIOUS
  <2>2. p = normalizeSlots([t EXCEPT !.legacy = None], api)
    BY <1>1, <1>2, <1>4, <2>1 DEF prepareStrategyForApi, writeExitPolicyContextConsumption
  <2>3. [t EXCEPT !.legacy = None] = t
    BY <2>1
  <2>4. normalizeSlots(t, api) = [t EXCEPT !.lists = lists]
    BY <1>3, <2>1 DEF normalizeSlots
  <2>5. QED BY <2>1, <2>2, <2>3, <2>4
<1>6. ConsumesContext(p) = ConsumesContext(s)
  <2>1. \A l \in Profiles : l \in Lists /\ l \notin {"setups", "trigger"}
    BY DEF Profiles, Lists, SlotLists, ExitLists
  <2>2. \A l \in Profiles : p.lists[l] = s.lists[l]
    BY <1>3, <1>5, <2>1
  <2>3. QED BY <2>2 DEF ConsumesContext, profileExits
<1>7. PICK shaped : shaped = [l \in Lists |-> [i \in DOMAIN lists[l] |-> slotForEditing(lists[l][i])]]
  OBVIOUS
<1>8. \A l \in Lists : shaped[l] = s.lists[l]
  <2> TAKE l \in Lists
  <2>1. DOMAIN lists[l] = DOMAIN s.lists[l]
    BY <1>2, <1>3
  <2>2. \A i \in DOMAIN s.lists[l] : slotForEditing(lists[l][i]) = s.lists[l][i]
    BY <1>1, <1>2, <1>3, SlotReturns
  <2>3. shaped[l] = [i \in DOMAIN s.lists[l] |-> s.lists[l][i]]
    BY <1>7, <2>1, <2>2
  <2>4. QED BY <1>1, <2>3
<1>9. normalizeStrategyForEditing(p)
        = [contexts |-> s.contexts, legacy |-> None, exitUse |-> u, lists |-> s.lists]
  <2>1. migrateLegacySetup(p) = p
    BY <1>5, ListOfNone
  <2>2. normalizeStrategyForEditing(p) = normalizeSlots(p, shaped)
    BY <1>5, <1>7, <2>1 DEF normalizeStrategyForEditing
  <2>3. [l \in Lists |-> IF l \in {"setups", "trigger"} THEN shaped[l] ELSE lists[l]] = s.lists
    BY <1>1, <1>3, <1>8
  <2>4. QED BY <1>5, <2>2, <2>3 DEF normalizeSlots
<1>10. StrategyOk(normalizeStrategyForEditing(p))
  BY <1>9 DEF StrategyOk
<1>11. QED BY <1>4, <1>5, <1>6, <1>9, <1>10

\* A file is loaded into the editing shape.
LEMMA FileLoads ==
  ASSUME NEW s, FileStrategy(s), s.legacy = None \/ s.lists.setups = <<>>
  PROVE  StrategyOk(normalizeStrategyForEditing(s))
<1>1. /\ s = [contexts |-> s.contexts, legacy |-> s.legacy, exitUse |-> s.exitUse, lists |-> s.lists]
      /\ s.legacy = None \/ FileSlot("setups", s.legacy)
      /\ s.lists = [l \in Lists |-> s.lists[l]]
      /\ \A l \in Lists : /\ s.lists[l] \in Seq(Range(s.lists[l]))
                          /\ \A k \in DOMAIN s.lists[l] : FileSlot(l, s.lists[l][k])
  BY DEF FileStrategy
<1>2. PICK t : t = migrateLegacySetup(s)
  OBVIOUS
<1>3. /\ t = [contexts |-> s.contexts, legacy |-> None, exitUse |-> s.exitUse, lists |-> t.lists]
      /\ t.lists = [l \in Lists |-> t.lists[l]]
      /\ \A l \in Lists : /\ IsSeq(t.lists[l])
                          /\ \A k \in DOMAIN t.lists[l] : FileSlot(l, t.lists[l][k])
  <2>1. CASE s.legacy = None
    <3>1. t = s
      BY <1>2, <2>1 DEF migrateLegacySetup
    <3>2. QED BY <1>1, <2>1, <3>1 DEF IsSeq
  <2>2. CASE s.legacy # None
    <3>1. t = [s EXCEPT !.lists.setups = <<s.legacy>>, !.legacy = None]
      BY <1>2, <2>2 DEF migrateLegacySetup
    <3>2. PICK lists, q : q = <<s.legacy>> /\ lists = [s.lists EXCEPT !["setups"] = q]
      OBVIOUS
    <3>3. t = [contexts |-> s.contexts, legacy |-> None, exitUse |-> s.exitUse, lists |-> lists]
      BY <1>1, <3>1, <3>2
    <3>4. "setups" \in Lists
      BY DEF Lists, SlotLists
    <3>5. IsSeq(q) /\ \A k \in DOMAIN q : FileSlot("setups", q[k])
      <4>1. q \in Seq({s.legacy}) /\ DOMAIN q = {1} /\ q[1] = s.legacy
        BY <3>2
      <4>2. QED BY <1>1, <2>2, <4>1, SeqIs
    <3>6. \A l \in Lists : lists[l] = IF l = "setups" THEN q ELSE s.lists[l]
      BY <1>1, <3>2, <3>4
    <3>7. lists = [l \in Lists |-> lists[l]]
      BY <1>1, <3>2
    <3>8. t.lists = lists
      BY <3>3
    <3>9. QED BY <1>1, <3>3, <3>5, <3>6, <3>7, <3>8 DEF IsSeq
  <2>3. QED BY <2>1, <2>2
<1>4. PICK shaped : shaped = [l \in Lists |-> [i \in DOMAIN t.lists[l] |->
                                                slotForEditing(t.lists[l][i])]]
  OBVIOUS
<1>5. PICK lists : lists = [l \in Lists |-> IF l \in {"setups", "trigger"} THEN shaped[l]
                                            ELSE t.lists[l]]
  OBVIOUS
<1>6. normalizeStrategyForEditing(s)
        = [contexts |-> s.contexts, legacy |-> None, exitUse |-> s.exitUse, lists |-> lists]
  BY <1>2, <1>3, <1>4, <1>5 DEF normalizeStrategyForEditing, normalizeSlots
<1>7. ASSUME NEW l \in Lists PROVE SlotsOk(l, lists[l])
  <2>1. CASE l \in {"setups", "trigger"}
    <3>1. lists[l] = [i \in DOMAIN t.lists[l] |-> slotForEditing(t.lists[l][i])]
      BY <1>4, <1>5, <2>1
    <3>2. DOMAIN t.lists[l] = 1 .. Len(t.lists[l]) /\ Len(t.lists[l]) \in Nat
      BY <1>3, SeqHas
    <3>3. PICK n, S : /\ n \in Nat /\ n = Len(t.lists[l])
                      /\ S = {slotForEditing(t.lists[l][i]) : i \in 1 .. n}
      BY <3>2
    <3>4. lists[l] \in [1 .. n -> S]
      BY <3>1, <3>2, <3>3
    <3>5. IsSeq(lists[l])
      BY <3>3, <3>4, ListIs
    <3>6. \A i \in DOMAIN lists[l] : SlotOk(l, lists[l][i])
      BY <1>3, <3>1, SlotLoaded
    <3>7. QED BY <3>5, <3>6 DEF SlotsOk
  <2>2. CASE l \notin {"setups", "trigger"}
    <3>1. lists[l] = t.lists[l]
      BY <1>5, <2>2
    <3>2. \A k \in DOMAIN t.lists[l] : ~Nested(t.lists[l][k].comp)
      <4>1. \A k \in DOMAIN t.lists[l] : t.lists[l][k].comp \in componentsForRole(l)
        BY <1>3 DEF FileSlot
      <4>2. l \in Lists \ {"setups", "trigger"}
        BY <2>2
      <4>3. QED BY <4>1, <4>2, Roles
    <3>3. \A k \in DOMAIN t.lists[l] : SlotOk(l, t.lists[l][k])
      BY <1>3, <3>2, SlotLoaded
    <3>4. QED BY <1>3, <3>1, <3>3 DEF SlotsOk
  <2>3. QED BY <2>1, <2>2
<1>8. lists = [l \in Lists |-> lists[l]]
  BY <1>5
<1>9. QED BY <1>6, <1>7, <1>8 DEF StrategyOk, ListsOk

(***************************************************************************)
(* Drafts.                                                                  *)
(***************************************************************************)

LEMMA EditingStays ==
  ASSUME NEW d, DraftOk(d)
  PROVE  Editing(d) = d
<1>1. \A i \in DOMAIN d : [d[i] EXCEPT !.s = normalizeStrategyForEditing(@)] = d[i]
  <2> TAKE i \in DOMAIN d
  <2>1. InstanceOk(d[i])
    BY DEF DraftOk
  <2>2. PICK id, s : d[i] = [id |-> id, s |-> s] /\ StrategyOk(s)
    BY <2>1 DEF InstanceOk
  <2>3. normalizeStrategyForEditing(s) = s
    BY <2>2, ShapeStays
  <2>4. QED BY <2>2, <2>3
<1>2. d = [i \in DOMAIN d |-> d[i]]
  BY SeqHas DEF DraftOk
<1>3. QED BY <1>1, <1>2 DEF Editing

\* What is read back after a save.
LEMMA DraftReturns ==
  ASSUME NEW d, DraftOk(d)
  PROVE  /\ DraftOk(Editing(Api(d))) /\ DOMAIN Editing(Api(d)) = DOMAIN d
         /\ DOMAIN Api(d) = DOMAIN d
         /\ \A i \in DOMAIN d :
              /\ UseIsNeeded(Api(d)[i].s)
              /\ Shown(Editing(Api(d))[i]) = Shown(d[i])
<1>1. PICK api, e : api = Api(d) /\ e = Editing(api)
  OBVIOUS
<1>2. Len(d) \in Nat /\ DOMAIN d = 1 .. Len(d)
  BY SeqHas DEF DraftOk
<1>3. DOMAIN api = DOMAIN d /\ DOMAIN e = DOMAIN d
  BY <1>1 DEF Api, Editing
<1>4. ASSUME NEW i \in DOMAIN d
      PROVE  InstanceOk(e[i]) /\ UseIsNeeded(api[i].s) /\ Shown(e[i]) = Shown(d[i])
  <2>1. PICK id, s : d[i] = [id |-> id, s |-> s] /\ StrategyOk(s)
    BY DEF DraftOk, InstanceOk
  <2>2. PICK p : p = prepareStrategyForApi(s)
    OBVIOUS
  <2>3. PICK n : n = normalizeStrategyForEditing(p)
    OBVIOUS
  <2>4. api[i] = [id |-> id, s |-> p]
    BY <1>1, <2>1, <2>2 DEF Api
  <2>5. e[i] = [id |-> id, s |-> n]
    BY <1>1, <1>3, <2>3, <2>4 DEF Editing
  <2>6. /\ p.exitUse = IF ConsumesContext(s) THEN s.exitUse ELSE NoUse
        /\ ConsumesContext(p) = ConsumesContext(s)
        /\ StrategyOk(n) /\ n.contexts = s.contexts /\ n.lists = s.lists
        /\ n.exitUse = p.exitUse
    BY <2>1, <2>2, <2>3, ApiIs
  <2>7. InstanceOk(e[i])
    BY <2>5, <2>6 DEF InstanceOk
  <2>8. UseIsNeeded(api[i].s)
    BY <2>4, <2>6 DEF UseIsNeeded
  <2>9. ConsumesContext(n) = ConsumesContext(s)
    BY <2>6 DEF ConsumesContext, profileExits
  <2>10. Shown(e[i]) = Shown(d[i])
    BY <2>1, <2>5, <2>6, <2>9 DEF Shown
  <2>11. QED BY <2>7, <2>8, <2>10
<1>5. IsSeq(e)
  <2>1. PICK m, S : m \in Nat /\ m = Len(d) /\ S = {e[i] : i \in 1 .. m}
    BY <1>2
  <2>2. e = [i \in 1 .. m |-> e[i]]
    BY <1>1, <1>2, <1>3, <2>1 DEF Editing
  <2>3. e \in [1 .. m -> S]
    BY <2>1, <2>2
  <2>4. QED BY <2>1, <2>3, ListIs
<1>6. QED BY <1>1, <1>3, <1>4, <1>5 DEF DraftOk

LEMMA DefaultIs ==
  ASSUME NEW id
  PROVE  InstanceOk(createDefaultInstance(id)) /\ createDefaultInstance(id).id = id
<1>1. PICK lists : lists = createDefaultInstance(id).s.lists
  OBVIOUS
<1>2. ASSUME NEW l, NEW c \in componentsForRole(l), NEW slot
      PROVE  SlotsOk(l, <<applyComponentDefaults(slot, c)>>)
  <2>1. PICK t : t = applyComponentDefaults(slot, c) /\ SlotOk(l, t)
    BY DefaultsAre
  <2>2. PICK q : q = <<t>>
    OBVIOUS
  <2>3. q \in Seq({t}) /\ DOMAIN q = {1} /\ q[1] = t
    BY <2>2
  <2>4. IsSeq(q)
    BY <2>3, SeqIs
  <2>5. QED BY <2>1, <2>2, <2>3, <2>4 DEF SlotsOk
<1>3. \A l : SlotsOk(l, <<>>)
  <2>1. <<>> \in Seq({})
    OBVIOUS
  <2>2. IsSeq(<<>>)
    BY <2>1, SeqIs
  <2>3. DOMAIN <<>> = {}
    OBVIOUS
  <2>4. QED BY <2>2, <2>3 DEF SlotsOk
<1>4. /\ createDefaultInstance(id) = [id |-> id, s |-> createDefaultInstance(id).s]
      /\ createDefaultInstance(id).s = [contexts |-> {}, legacy |-> None, exitUse |-> NoUse,
                                        lists |-> lists]
  BY <1>1 DEF createDefaultInstance
<1>5. lists = [l \in Lists |->
                CASE l = "setups" -> <<applyComponentDefaults(<<"setup">>, "untouched_anchor_setup")>>
                  [] l = "blockers" -> <<applyComponentDefaults(<<"no_blockers">>, "no_blockers")>>
                  [] l = "trigger" -> <<applyComponentDefaults(<<>>, "reclaim_anchor")>>
                  [] l = "always_on" -> <<applyComponentDefaults(<<"rsi">>, "rsi_signal_exit")>>
                  [] OTHER -> <<>>]
  BY <1>1 DEF createDefaultInstance
<1>6. ASSUME NEW l \in Lists PROVE SlotsOk(l, lists[l])
  <2>1. CASE l = "setups"
    BY <1>2, <1>5, <2>1, Roles
  <2>2. CASE l = "blockers"
    BY <1>2, <1>5, <2>2, Roles
  <2>3. CASE l = "trigger"
    BY <1>2, <1>5, <2>3, Roles
  <2>4. CASE l = "always_on"
    BY <1>2, <1>5, <2>4, Roles
  <2>5. CASE l \notin {"setups", "blockers", "trigger", "always_on"}
    <3>1. lists[l] = <<>>
      BY <1>5, <2>5
    <3>2. QED BY <1>3, <3>1
  <2>6. QED BY <2>1, <2>2, <2>3, <2>4, <2>5
<1>7. lists = [l \in Lists |-> lists[l]]
  BY <1>5
<1>8. QED BY <1>4, <1>6, <1>7 DEF InstanceOk, StrategyOk, ListsOk

(***************************************************************************)
(* Edits.                                                                   *)
(***************************************************************************)

LEMMA EditKeeps ==
  ASSUME DraftInv, NEW d, DraftOk(d), Edit(d), selected' \in DOMAIN d
  PROVE  DraftInv'
<1>1. draft' = d /\ stored' = stored /\ author' = [author EXCEPT !.left = author.left - 1]
  BY EditingStays DEF Edit
<1>2. AuthorOk'
  BY <1>1 DEF AuthorOk, DraftInv
<1>3. QED BY <1>1, <1>2 DEF DraftInv, StoredOk

LEMMA PatchKeeps ==
  ASSUME DraftInv, NEW i \in DOMAIN draft, NEW s, StrategyOk(s), patchStrategy(i, s)
  PROVE  DraftInv'
<1>1. PICK x, t : x = draft[i] /\ t = [x EXCEPT !.s = s]
  OBVIOUS
<1>2. InstanceOk(x) /\ IsSeq(draft) /\ \A k \in DOMAIN draft : InstanceOk(draft[k])
  BY <1>1 DEF DraftInv, DraftOk
<1>3. InstanceOk(t)
  BY <1>1, <1>2 DEF InstanceOk
<1>4. PICK d : d = [draft EXCEPT ![i] = t]
  OBVIOUS
<1>5. Edit(d) /\ selected' = selected
  BY <1>1, <1>4 DEF patchStrategy
<1>6. DraftOk(d) /\ DOMAIN d = DOMAIN draft
  BY <1>2, <1>3, <1>4, PutAt DEF DraftOk
<1>7. QED BY <1>5, <1>6, EditKeeps DEF DraftInv

LEMMA ListKeeps ==
  ASSUME DraftInv, NEW i \in DOMAIN draft, NEW l \in Lists, NEW q, SlotsOk(l, q),
         SetList(i, l, q)
  PROVE  DraftInv'
<1>1. PICK s : s = draft[i].s
  OBVIOUS
<1>2. StrategyOk(s)
  BY <1>1 DEF DraftInv, DraftOk, InstanceOk
<1>3. PICK lists : lists = [s.lists EXCEPT ![l] = q]
  OBVIOUS
<1>4. PICK t : t = [s EXCEPT !.lists = lists]
  OBVIOUS
<1>5. patchStrategy(i, t)
  BY <1>1, <1>3, <1>4 DEF SetList
<1>6. ListsOk(lists)
  BY <1>2, <1>3 DEF StrategyOk, ListsOk
<1>7. t = [contexts |-> s.contexts, legacy |-> None, exitUse |-> s.exitUse, lists |-> lists]
  BY <1>2, <1>4 DEF StrategyOk
<1>8. StrategyOk(t)
  BY <1>6, <1>7 DEF StrategyOk
<1>9. QED BY <1>5, <1>8, PatchKeeps

LEMMA ListHas ==
  ASSUME DraftInv, NEW i \in DOMAIN draft, NEW l \in Lists
  PROVE  /\ IsSeq(draft[i].s.lists[l])
         /\ \A k \in DOMAIN draft[i].s.lists[l] : SlotOk(l, draft[i].s.lists[l][k])
  BY DEF DraftInv, DraftOk, InstanceOk, StrategyOk, ListsOk, SlotsOk

LEMMA SlotKeeps ==
  ASSUME DraftInv, NEW i \in DOMAIN draft, NEW l \in Lists, NEW k \in DOMAIN draft[i].s.lists[l],
         NEW t, SlotOk(l, t), SetSlot(i, l, k, t)
  PROVE  DraftInv'
<1>1. PICK q, r : q = draft[i].s.lists[l] /\ r = [q EXCEPT ![k] = t]
  OBVIOUS
<1>2. IsSeq(q) /\ (\A j \in DOMAIN q : SlotOk(l, q[j])) /\ k \in DOMAIN q
  BY <1>1, ListHas
<1>3. SlotsOk(l, r)
  BY <1>1, <1>2, PutAt DEF SlotsOk
<1>4. SetList(i, l, r)
  BY <1>1 DEF SetSlot
<1>5. QED BY <1>3, <1>4, ListKeeps

LEMMA FieldsStay ==
  ASSUME NEW s, StrategyOk(s), NEW c, NEW u
  PROVE  StrategyOk([s EXCEPT !.contexts = c]) /\ StrategyOk([s EXCEPT !.exitUse = u])
<1>1. /\ s = [contexts |-> s.contexts, legacy |-> None, exitUse |-> s.exitUse, lists |-> s.lists]
      /\ ListsOk(s.lists)
  BY DEF StrategyOk
<1>2. /\ [s EXCEPT !.contexts = c] = [contexts |-> c, legacy |-> None, exitUse |-> s.exitUse,
                                      lists |-> s.lists]
      /\ [s EXCEPT !.exitUse = u] = [contexts |-> s.contexts, legacy |-> None, exitUse |-> u,
                                     lists |-> s.lists]
  BY <1>1
<1>3. QED BY <1>1, <1>2 DEF StrategyOk

LEMMA SlotFieldsStay ==
  ASSUME NEW l, NEW t, SlotOk(l, t), NEW v
  PROVE  /\ SlotOk(l, [t EXCEPT !.id = v]) /\ SlotOk(l, [t EXCEPT !.flat = v])
         /\ SlotOk(l, [t EXCEPT !.use = v])
<1>1. /\ t = [id |-> t.id, comp |-> t.comp, flat |-> t.flat, nested |-> t.nested, use |-> t.use]
      /\ t.comp \in componentsForRole(l) /\ (Nested(t.comp) => t.nested = "none")
  BY DEF SlotOk
<1>2. /\ [t EXCEPT !.id = v] = [id |-> v, comp |-> t.comp, flat |-> t.flat,
                               nested |-> t.nested, use |-> t.use]
      /\ [t EXCEPT !.flat = v] = [id |-> t.id, comp |-> t.comp, flat |-> v,
                                 nested |-> t.nested, use |-> t.use]
      /\ [t EXCEPT !.use = v] = [id |-> t.id, comp |-> t.comp, flat |-> t.flat,
                                nested |-> t.nested, use |-> v]
  BY <1>1
<1>3. QED BY <1>1, <1>2 DEF SlotOk

LEMMA InstanceKeeps ==
  ASSUME DraftInv, NEW i \in DOMAIN draft, EditInstance(i)
  PROVE  DraftInv'
<1>1. PICK s : s = draft[i].s /\ StrategyOk(s)
  BY DEF DraftInv, DraftOk, InstanceOk
<1>2. ASSUME NEW c, patchStrategy(i, [draft[i].s EXCEPT !.contexts = c])
      PROVE  DraftInv'
  <2>1. PICK t : t = [s EXCEPT !.contexts = c] /\ StrategyOk(t)
    BY <1>1, FieldsStay
  <2>2. patchStrategy(i, t)
    BY <1>1, <1>2, <2>1
  <2>3. QED BY <2>1, <2>2, PatchKeeps
<1>3. ASSUME NEW u, patchStrategy(i, writeExitPolicyContextConsumption(draft[i].s, u))
      PROVE  DraftInv'
  <2>1. PICK t : t = [s EXCEPT !.exitUse = u] /\ StrategyOk(t)
    BY <1>1, FieldsStay
  <2>2. patchStrategy(i, t)
    BY <1>1, <1>3, <2>1 DEF writeExitPolicyContextConsumption
  <2>3. QED BY <2>1, <2>2, PatchKeeps
<1>4. ASSUME NEW id, RenameInstance(i, id)
      PROVE  DraftInv'
  <2>1. PICK x, d : x = [draft[i] EXCEPT !.id = id] /\ d = [draft EXCEPT ![i] = x]
    OBVIOUS
  <2>2. InstanceOk(draft[i]) /\ IsSeq(draft) /\ \A k \in DOMAIN draft : InstanceOk(draft[k])
    BY DEF DraftInv, DraftOk
  <2>3. InstanceOk(x)
    BY <2>1, <2>2 DEF InstanceOk
  <2>4. DraftOk(d) /\ DOMAIN d = DOMAIN draft
    BY <2>1, <2>2, <2>3, PutAt DEF DraftOk
  <2>5. Edit(d) /\ selected' = selected
    BY <1>4, <2>1 DEF RenameInstance
  <2>6. QED BY <2>4, <2>5, EditKeeps DEF DraftInv
<1>5. ASSUME Select(i)
      PROVE  DraftInv'
  BY <1>5 DEF Select, DraftInv, StoredOk, AuthorOk
<1>6. QED BY <1>2, <1>3, <1>4, <1>5
          DEF EditInstance, AddContext, RemoveContext, RenameContext, EditExitUse

LEMMA EditListKeeps ==
  ASSUME DraftInv, NEW i \in DOMAIN draft, NEW l \in Lists, EditList(i, l)
  PROVE  DraftInv'
<1>1. PICK q : q = draft[i].s.lists[l] /\ IsSeq(q) /\ \A k \in DOMAIN q : SlotOk(l, q[k])
  BY ListHas
<1>2. ASSUME NEW c \in componentsForRole(l), NEW stamp, addListSlot(i, l, c, stamp)
      PROVE  DraftInv'
  <2>1. PICK t : t = applyComponentDefaults(<<c, stamp>>, c) /\ SlotOk(l, t)
    BY DefaultsAre
  <2>2. SetList(i, l, Append(q, t))
    BY <1>1, <1>2, <2>1 DEF addListSlot
  <2>3. SlotsOk(l, Append(q, t))
    <3>1. /\ IsSeq(Append(q, t))
          /\ \A k \in DOMAIN Append(q, t) :
               \/ k \in DOMAIN q /\ Append(q, t)[k] = q[k]
               \/ Append(q, t)[k] = t
      BY <1>1, AppendIs
    <3>2. QED BY <1>1, <2>1, <3>1 DEF SlotsOk
  <2>4. QED BY <2>2, <2>3, ListKeeps
<1>3. ASSUME NEW k \in DOMAIN q, removeListSlot(i, l, k)
      PROVE  DraftInv'
  <2>1. SetList(i, l, RemoveAt(q, k))
    BY <1>1, <1>3 DEF removeListSlot
  <2>2. /\ IsSeq(RemoveAt(q, k))
        /\ \A j \in DOMAIN RemoveAt(q, k) : \E m \in DOMAIN q : RemoveAt(q, k)[j] = q[m]
    BY <1>1, RemoveIs
  <2>3. SlotsOk(l, RemoveAt(q, k))
    BY <1>1, <2>2 DEF SlotsOk
  <2>4. QED BY <2>1, <2>3, ListKeeps
<1>4. ASSUME NEW k \in DOMAIN q, NEW t, SlotOk(l, t), SetSlot(i, l, k, t)
      PROVE  DraftInv'
  BY <1>1, <1>4, SlotKeeps
<1>5. ASSUME NEW k \in DOMAIN q, NEW id, RenameSlot(i, l, k, id)
      PROVE  DraftInv'
  <2>1. PICK t : t = [q[k] EXCEPT !.id = id]
    OBVIOUS
  <2>2. SlotOk(l, t)
    BY <1>1, <2>1, SlotFieldsStay
  <2>3. SetSlot(i, l, k, t)
    BY <1>1, <1>5, <2>1 DEF RenameSlot
  <2>4. QED BY <1>4, <2>2, <2>3
<1>6. ASSUME NEW k \in DOMAIN q, NEW c \in componentsForRole(l), setComponent(i, l, k, c)
      PROVE  DraftInv'
  <2>1. PICK t : t = applyComponentDefaults(q[k].id, c) /\ SlotOk(l, t)
    BY DefaultsAre
  <2>2. SetSlot(i, l, k, t)
    BY <1>1, <1>6, <2>1 DEF setComponent
  <2>3. QED BY <1>4, <2>1, <2>2
<1>7. ASSUME NEW k \in DOMAIN q, NEW v, TypeParam(i, l, k, v)
      PROVE  DraftInv'
  <2>1. PICK t : t = [q[k] EXCEPT !.flat = v]
    OBVIOUS
  <2>2. SlotOk(l, t)
    BY <1>1, <2>1, SlotFieldsStay
  <2>3. SetSlot(i, l, k, t)
    BY <1>1, <1>7, <2>1 DEF TypeParam
  <2>4. QED BY <1>4, <2>2, <2>3
<1>8. ASSUME NEW k \in DOMAIN q, EditEntryUse(i, l, k)
      PROVE  DraftInv'
  <2>1. PICK u, t : t = [q[k] EXCEPT !.use = u] /\ SetSlot(i, l, k, t)
    BY <1>1, <1>8 DEF EditEntryUse
  <2>2. SlotOk(l, t)
    BY <1>1, <2>1, SlotFieldsStay
  <2>3. QED BY <1>4, <2>1, <2>2
<1>9. QED BY <1>1, <1>2, <1>3, <1>5, <1>6, <1>7, <1>8 DEF EditList

LEMMA InstancesKeep ==
  ASSUME DraftInv, addInstance \/ duplicateSelected \/ removeInstance
  PROVE  DraftInv'
<1>1. /\ IsSeq(draft) /\ (\A k \in DOMAIN draft : InstanceOk(draft[k]))
      /\ DOMAIN draft = 1 .. Len(draft) /\ Len(draft) \in Nat /\ selected \in 1 .. Len(draft)
  BY SeqHas DEF DraftInv, DraftOk
<1>2. ASSUME NEW x, InstanceOk(x), Edit(Append(draft, x)), selected' = Len(draft) + 1
      PROVE  DraftInv'
  <2>1. /\ IsSeq(Append(draft, x)) /\ Len(Append(draft, x)) = Len(draft) + 1
        /\ \A k \in DOMAIN Append(draft, x) :
              \/ k \in DOMAIN draft /\ Append(draft, x)[k] = draft[k]
              \/ Append(draft, x)[k] = x
    BY <1>1, AppendIs
  <2>2. DraftOk(Append(draft, x))
    BY <1>1, <1>2, <2>1 DEF DraftOk
  <2>3. selected' \in DOMAIN Append(draft, x)
    BY <1>1, <1>2, <2>1, SeqHas
  <2>4. QED BY <1>2, <2>2, <2>3, EditKeeps
<1>3. CASE addInstance
  <2>1. PICK x : x = createDefaultInstance(nextInstanceId(draft))
    OBVIOUS
  <2>2. InstanceOk(x)
    BY <2>1, DefaultIs
  <2>3. QED BY <1>2, <1>3, <2>1, <2>2 DEF addInstance
<1>4. CASE duplicateSelected
  <2>1. PICK id, x : id = nextInstanceId(draft) /\ x = [draft[selected] EXCEPT !.id = id]
    OBVIOUS
  <2>2. InstanceOk(x)
    BY <1>1, <2>1 DEF InstanceOk
  <2>3. QED BY <1>2, <1>4, <2>1, <2>2 DEF duplicateSelected
<1>5. CASE removeInstance
  <2>0. PICK q, i : q = draft /\ i = selected /\ IsSeq(q) /\ i \in DOMAIN q
    BY <1>1
  <2>1. PICK d : d = RemoveAt(q, i)
    OBVIOUS
  <2>a. IsSeq(d) /\ Len(d) = Len(q) - 1 /\ \A k \in DOMAIN d : \E j \in DOMAIN q : d[k] = q[j]
    BY <2>0, <2>1, RemoveIs
  <2>2. /\ IsSeq(d) /\ Len(d) = Len(draft) - 1
        /\ \A k \in DOMAIN d : \E j \in DOMAIN draft : d[k] = draft[j]
    BY <2>0, <2>a
  <2>3. DraftOk(d)
    BY <1>1, <2>2 DEF DraftOk
  <2>4. DOMAIN d = 1 .. Len(draft) - 1
    BY <2>2, SeqHas
  <2>5. /\ Edit(d) /\ Len(draft) > 1
        /\ selected' = IF selected > Len(draft) - 1 THEN Len(draft) - 1 ELSE selected
    BY <1>5, <2>0, <2>1 DEF removeInstance
  <2>6. selected' \in DOMAIN d
    BY <1>1, <2>4, <2>5
  <2>7. QED BY <2>3, <2>5, <2>6, EditKeeps
<1>6. QED BY <1>3, <1>4, <1>5

LEMMA AcceptedIs ==
  ASSUME NEW s, LoaderAcceptsStrategy(s)
  PROVE  /\ RefsOk(s) /\ IdsOk(s) /\ (ConsumesContext(s) => s.exitUse # NoUse)
         /\ s.legacy = None \/ s.lists.setups = <<>>
  BY DEF LoaderAcceptsStrategy, ExitsOk, RefsDefined, RefsOk, IdsOk

LEMMA SaveKeeps ==
  ASSUME DraftInv, Save
  PROVE  /\ DraftInv'
         /\ \A i \in DOMAIN stored' : UseIsNeeded(stored'[i].s)
         /\ DOMAIN draft' = DOMAIN draft
         /\ \A i \in DOMAIN draft : Shown(draft'[i]) = Shown(draft[i])
<1>1. /\ LoaderAccepts(Api(draft)) /\ stored' = Api(draft) /\ draft' = Editing(Api(draft))
      /\ selected' = selected /\ author' = author
  BY DEF Save
<1>2. DraftOk(draft) /\ selected \in DOMAIN draft /\ AuthorOk
  BY DEF DraftInv
<1>3. /\ DraftOk(draft') /\ DOMAIN draft' = DOMAIN draft
      /\ DOMAIN stored' = DOMAIN draft
      /\ \A i \in DOMAIN draft : /\ UseIsNeeded(stored'[i].s)
                                 /\ Shown(draft'[i]) = Shown(draft[i])
  BY <1>1, <1>2, DraftReturns
<1>4. \A i \in DOMAIN stored' : LoaderAcceptsStrategy(stored'[i].s)
  BY <1>1 DEF LoaderAccepts
<1>5. StoredOk'
  BY <1>4, AcceptedIs DEF StoredOk
<1>6. AuthorOk'
  BY <1>1, <1>2 DEF AuthorOk
<1>7. QED BY <1>1, <1>2, <1>3, <1>5, <1>6 DEF DraftInv

(***************************************************************************)
(* The theorems.                                                            *)
(***************************************************************************)

LEMMA InitDraft == Init => DraftInv
<1> SUFFICES ASSUME Init PROVE DraftInv
  OBVIOUS
<1>1. PICK a \in Authors :
        /\ author = [f \in DOMAIN a \ {"files"} |-> a[f]]
        /\ \/ \E s \in a.files : LoaderAcceptsStrategy(s) /\ stored = Load(s)
           \/ stored = <<>>
  BY DEF Init
<1>2. /\ "lists" \in DOMAIN a /\ a.lists \subseteq Lists
      /\ \A s \in a.files : FileStrategy(s)
  BY AuthorsAssumption DEF AuthorsAssumption
<1>3. AuthorOk
  BY <1>1, <1>2 DEF AuthorOk
<1>4. selected = 1 /\ draft = IF stored = <<>> THEN <<createDefaultInstance(<<"instance", 1>>)>>
                              ELSE Editing(stored)
  BY DEF Init
<1>5. ASSUME NEW x, InstanceOk(x), draft = <<x>>
      PROVE  DraftOk(draft) /\ selected \in DOMAIN draft
  <2>1. draft \in Seq({x}) /\ DOMAIN draft = {1} /\ draft[1] = x
    BY <1>5
  <2>2. QED BY <1>4, <1>5, <2>1, SeqIs DEF DraftOk
<1>6. CASE stored = <<>>
  <2>1. PICK x : x = createDefaultInstance(<<"instance", 1>>) /\ InstanceOk(x)
    BY DefaultIs
  <2>2. DraftOk(draft) /\ selected \in DOMAIN draft
    BY <1>4, <1>5, <1>6, <2>1
  <2>3. StoredOk
    BY <1>6 DEF StoredOk
  <2>4. QED BY <1>3, <2>2, <2>3 DEF DraftInv
<1>7. ASSUME NEW s \in a.files, LoaderAcceptsStrategy(s), stored = Load(s)
      PROVE  DraftInv
  <2>1. PICK id, x : x = [id |-> id, s |-> s] /\ stored = <<x>>
    BY <1>7 DEF Load
  <2>2. DOMAIN stored = {1} /\ stored[1] = x /\ stored # <<>> /\ x.s = s
    BY <2>1
  <2>3. StoredOk
    BY <1>7, <2>2, AcceptedIs DEF StoredOk
  <2>4. PICK n : n = normalizeStrategyForEditing(s) /\ StrategyOk(n)
    BY <1>2, <1>7, AcceptedIs, FileLoads
  <2>5. PICK y : y = [id |-> id, s |-> n]
    OBVIOUS
  <2>6. InstanceOk(y)
    BY <2>4, <2>5 DEF InstanceOk
  <2>7. draft = [i \in {1} |-> y]
    <3>1. draft = [i \in DOMAIN stored |-> [stored[i] EXCEPT !.s = normalizeStrategyForEditing(@)]]
      BY <1>4, <2>2 DEF Editing
    <3>2. [x EXCEPT !.s = n] = y
      BY <2>1, <2>5
    <3>3. [stored[1] EXCEPT !.s = normalizeStrategyForEditing(@)] = y
      BY <2>2, <2>4, <3>2
    <3>4. QED BY <2>2, <3>1, <3>3
  <2>8. draft = <<y>>
    BY <2>7
  <2>9. QED BY <1>3, <1>5, <2>3, <2>6, <2>8 DEF DraftInv
<1>8. QED BY <1>1, <1>6, <1>7

LEMMA StepKeeps == DraftInv /\ [Next]_vars => DraftInv'
<1> SUFFICES ASSUME DraftInv, [Next]_vars PROVE DraftInv'
  OBVIOUS
<1>1. CASE UNCHANGED vars
  BY <1>1 DEF vars, DraftInv, StoredOk, AuthorOk
<1>2. ASSUME NEW i \in DOMAIN draft, NEW l \in author.lists, EditList(i, l)
      PROVE  DraftInv'
  BY <1>2, EditListKeeps DEF DraftInv, AuthorOk
<1>3. QED BY <1>1, <1>2, InstanceKeeps, InstancesKeep, SaveKeeps DEF Next

LEMMA AlwaysDraft == Spec => []DraftInv
  BY InitDraft, StepKeeps, PTL DEF Spec

\* Only a save changes what is stored.
LEMMA OnlySaveStores ==
  ASSUME [Next]_vars
  PROVE  Save \/ stored' = stored
<1>1. ASSUME NEW i, EditInstance(i) PROVE stored' = stored
  BY <1>1 DEF EditInstance, AddContext, RemoveContext, RenameContext, EditExitUse,
              RenameInstance, Select, patchStrategy, Edit
<1>2. ASSUME NEW i, NEW l, EditList(i, l) PROVE stored' = stored
  BY <1>2 DEF EditList, addListSlot, removeListSlot, RenameSlot, setComponent, TypeParam,
              EditEntryUse, SetSlot, SetList, patchStrategy, Edit
<1>3. QED BY <1>1, <1>2 DEF Next, vars, addInstance, duplicateSelected, removeInstance, Edit

LEMMA NeededStays ==
  ASSUME DraftInv, [Next]_vars, \A i \in DOMAIN stored : UseIsNeeded(stored[i].s)
  PROVE  \A i \in DOMAIN stored' : UseIsNeeded(stored'[i].s)
<1>1. CASE Save
  BY <1>1, SaveKeeps
<1>2. CASE stored' = stored
  BY <1>2
<1>3. QED BY <1>1, <1>2, OnlySaveStores

LEMMA InvIsTyped == DraftInv => TypeOK
<1> SUFFICES ASSUME DraftInv PROVE TypeOK
  OBVIOUS
<1>1. ASSUME NEW i \in DOMAIN draft
      PROVE  /\ draft[i].s.legacy = None
             /\ \A l \in Lists : \A k \in DOMAIN draft[i].s.lists[l] : SlotOk(l, draft[i].s.lists[l][k])
  <2>1. StrategyOk(draft[i].s)
    BY DEF DraftInv, DraftOk, InstanceOk
  <2>2. PICK s : s = draft[i].s /\ StrategyOk(s)
    BY <2>1
  <2>3. s.legacy = None
    BY <2>2 DEF StrategyOk
  <2>4. QED BY <2>2, <2>3, ListHas
<1>2. ASSUME NEW l, NEW t, SlotOk(l, t)
      PROVE  t.comp \in componentsForRole(l) /\ (Nested(t.comp) => t.nested = "none")
  BY <1>2 DEF SlotOk
<1>3. QED BY <1>1, <1>2 DEF TypeOK, DraftInv

(***************************************************************************)
(* Exit ids are unique over all four lists of every strategy stored, and    *)
(* the draft has its editing shape, whatever the files held and whatever    *)
(* ids were typed or made from the clock.                                   *)
(***************************************************************************)
THEOREM IdsStayDistinct == Spec => []StoredIdsDistinct
<1>1. DraftInv => StoredIdsDistinct
  BY InvIsTyped DEF StoredIdsDistinct, DraftInv, StoredOk, IdsOk
<1>2. QED BY <1>1, AlwaysDraft, PTL

(***************************************************************************)
(* A stored strategy consumes only contexts it defines.  If no file had a   *)
(* consumption of the exit policy without a profile exit, as no saved one   *)
(* has, then what is stored has one exactly when some profile has an exit.  *)
(***************************************************************************)
THEOREM ContextsStaySound ==
  ASSUME \A a \in Authors : \A s \in a.files : UseIsNeeded(s)
  PROVE  Spec => []StoredContextsSound
<1> DEFINE Needed == \A i \in DOMAIN stored : UseIsNeeded(stored[i].s)
<1>1. Init => Needed
  <2> SUFFICES ASSUME Init PROVE Needed
    OBVIOUS
  <2>1. CASE stored = <<>>
    BY <2>1
  <2>2. ASSUME NEW a \in Authors, NEW s \in a.files, stored = Load(s)
        PROVE  Needed
    <3>1. PICK id, x : x = [id |-> id, s |-> s] /\ stored = <<x>>
      BY <2>2 DEF Load
    <3>2. DOMAIN stored = {1} /\ stored[1] = x /\ x.s = s
      BY <3>1
    <3>3. UseIsNeeded(s)
      OBVIOUS
    <3>4. QED BY <3>2, <3>3
  <2>3. QED BY <2>1, <2>2 DEF Init
<1>2. DraftInv /\ Needed /\ [Next]_vars => Needed'
  BY NeededStays
<1>3. DraftInv /\ Needed => StoredContextsSound
  BY DEF DraftInv, StoredOk, StoredContextsSound, RefsOk, UseIsNeeded
<1> HIDE DEF Needed
<1>4. QED BY <1>1, <1>2, <1>3, AlwaysDraft, PTL DEF Spec

(***************************************************************************)
(* A save changes nothing the author sees: taken to the shape of the API,   *)
(* stored and read back, every instance shows what it showed.               *)
(***************************************************************************)
THEOREM SavesKeepWhatIsShown == Spec => SaveKeepsWhatIsShown
<1>1. DraftInv /\ [Next]_vars =>
        [Save => [i \in DOMAIN draft' |-> Shown(draft'[i])] = [i \in DOMAIN draft |-> Shown(draft[i])]]_vars
  BY SaveKeeps
<1>2. QED BY <1>1, AlwaysDraft, PTL DEF Spec, SaveKeepsWhatIsShown
=============================================================================
