--------------------------- MODULE StrategyDraft ---------------------------
(* A config draft of the Composer while its instances are edited: the slots of *)
(* the setups, the trigger, the blockers and the exits, the context providers  *)
(* and their consumers, and the instances themselves; the two shapes a         *)
(* strategy has (for editing and for the API), the Composer's own checks and   *)
(* the loader's, which a save goes through.                                    *)
(*                                                                             *)
(* A slot's parameters are one value, kept at the top level (flat) or under    *)
(* `params` (nested).  exit_management has a module of its own, and the        *)
(* exchange with the server too: a save here is one step.                      *)
EXTENDS Integers, Sequences, FiniteSets, SequencesExt

CONSTANT Authors   \* who may edit: the strategies a stored config of his may hold
                   \* (files), the context refs (refs, <<>> for the default) and the slot
                   \* and instance ids (ids) he types, the last digits his clock shows
                   \* (stamps), the lists he edits (lists), the bounds on contexts,
                   \* slots of a list, instances, and edits (left)

Profiles == {"aligned", "countertrend", "neutral"}
ExitLists == Profiles \cup {"always_on"}
Singles == {"trigger"}
SlotLists == ExitLists \cup {"setups", "blockers"}
Lists == SlotLists \cup Singles

Component(role, storage, param, gated) ==
    [role |-> role, storage |-> storage, param |-> param, gated |-> gated]
Catalog ==
    [untouched_anchor_setup |-> Component("setups", "flat", TRUE, TRUE),
     ema_bounce_counter_setup |-> Component("setups", "nested", TRUE, TRUE),
     no_blockers |-> Component("blockers", "flat", FALSE, FALSE),
     counter_candle_blocker |-> Component("blockers", "flat", FALSE, TRUE),
     reclaim_anchor |-> Component("trigger", "flat", TRUE, FALSE),
     touch_anchor |-> Component("trigger", "flat", FALSE, FALSE),
     rsi_signal_exit |-> Component("exits", "flat", TRUE, FALSE)]

componentsForRole(list) ==
    LET role == IF list \in ExitLists THEN "exits" ELSE list
    IN  {c \in DOMAIN Catalog : Catalog[c].role = role}

Nested(c) == Catalog[c].storage = "nested"

Gate == "htf_regime_gate"
ExitPolicy == "exit_profile_by_htf_state"
NoUse == [ref |-> <<"none">>, policy |-> "", regimes |-> FALSE]
Empty == [ref |-> <<>>, policy |-> "", regimes |-> FALSE]
None == [comp |-> "none"]

\* A slot of a list as a file may hold it: a component of the list's role, whatever
\* is at the top level and under `params`.
FileSlot(l, t) ==
    /\ t = [id |-> t.id, comp |-> t.comp, flat |-> t.flat, nested |-> t.nested, use |-> t.use]
    /\ t.comp \in componentsForRole(l)

FileStrategy(s) ==
    /\ s = [contexts |-> s.contexts, legacy |-> s.legacy, exitUse |-> s.exitUse, lists |-> s.lists]
    /\ s.legacy = None \/ FileSlot("setups", s.legacy)
    /\ s.lists = [l \in Lists |-> s.lists[l]]
    /\ \A l \in Lists : /\ s.lists[l] \in Seq(Range(s.lists[l]))
                        /\ \A k \in DOMAIN s.lists[l] : FileSlot(l, s.lists[l][k])

ASSUME AuthorsAssumption ==
    \A a \in Authors : /\ "lists" \in DOMAIN a /\ a.lists \subseteq Lists
                       /\ \A s \in a.files : FileStrategy(s)

VARIABLES draft,      \* <<[id, s], ...>>: the instances, in their editing shape
          selected,   \* the index of the instance shown
          stored,     \* the instances of the saved config, in the API's shape
          author      \* who edits, and how many edits he has left
vars == <<draft, selected, stored, author>>

-----------------------------------------------------------------------------
(* Slots and instances as the editors make them.                               *)

\* A component's slot with every parameter at its default.
applyComponentDefaults(id, c) ==
    [id |-> id, comp |-> c, flat |-> IF Catalog[c].param THEN "default" ELSE "none",
     nested |-> "none", use |-> NoUse]

createDefaultInstance(id) ==
    [id |-> id,
     s |-> [contexts |-> {}, legacy |-> None, exitUse |-> NoUse,
            lists |-> [l \in Lists |->
                CASE l = "setups" -> <<applyComponentDefaults(<<"setup">>, "untouched_anchor_setup")>>
                  [] l = "blockers" -> <<applyComponentDefaults(<<"no_blockers">>, "no_blockers")>>
                  [] l = "trigger" -> <<applyComponentDefaults(<<>>, "reclaim_anchor")>>
                  [] l = "always_on" -> <<applyComponentDefaults(<<"rsi">>, "rsi_signal_exit")>>
                  [] OTHER -> <<>>]]]

InstanceIds(d) == {d[i].id : i \in DOMAIN d}

\* The first number free from the length on.
nextInstanceId(d) ==
    LET Free(n) == n > Len(d) /\ <<"instance", n>> \notin InstanceIds(d)
    IN  <<"instance", CHOOSE n \in 1..(2 * Len(d) + 1) : Free(n) /\ \A m \in 1..(n - 1) : ~Free(m)>>

generateUniqueContextRef(contexts) ==
    LET Free(n) == <<"htf", n>> \notin contexts
    IN  <<"htf", CHOOSE n \in 1..(Cardinality(contexts) + 1) :
                     Free(n) /\ \A m \in 1..(n - 1) : ~Free(m)>>

profileExits(s) == {l \in Profiles : s.lists[l] # <<>>}
ConsumesContext(s) == profileExits(s) # {}

writeExitPolicyContextConsumption(s, u) == [s EXCEPT !.exitUse = u]

-----------------------------------------------------------------------------
(* The two shapes.                                                             *)

\* Exits and blockers have one shape only.
normalizeSlots(s, shaped) ==
    [s EXCEPT !.lists = [l \in Lists |->
        IF l \in {"setups", "trigger"} THEN shaped[l] ELSE s.lists[l]]]

\* A singleton `setup` of an old config becomes the list, unless there is one.
migrateLegacySetup(s) ==
    IF s.lists.setups # <<>> \/ s.legacy = None THEN s
    ELSE [s EXCEPT !.lists.setups = <<s.legacy>>, !.legacy = None]

\* What is under `params` comes to the top level, over what is there.
slotForEditing(t) ==
    IF Nested(t.comp) /\ t.nested # "none" THEN [t EXCEPT !.flat = t.nested, !.nested = "none"]
                                           ELSE t

normalizeStrategyForEditing(s) ==
    LET t == migrateLegacySetup(s)
    IN  normalizeSlots(t, [l \in Lists |-> [i \in DOMAIN t.lists[l] |-> slotForEditing(t.lists[l][i])]])

slotForApi_KeepsOld(t) == IF ~Nested(t.comp) THEN t ELSE [t EXCEPT !.flat = "none"]

\* The top level goes under `params`; what is there already only fills the gaps.
slotForApi(t) ==
    IF ~Nested(t.comp) THEN t
    ELSE [t EXCEPT !.nested = IF t.flat # "none" THEN t.flat ELSE @, !.flat = "none"]

\* The exit policy's consumption is dropped when no profile has an exit, and the
\* singleton setup always.
prepareStrategyForApi(s) ==
    LET target == IF ConsumesContext(s) THEN s ELSE writeExitPolicyContextConsumption(s, NoUse)
    IN  normalizeSlots([target EXCEPT !.legacy = None],
                       [l \in Lists |-> [i \in DOMAIN s.lists[l] |-> slotForApi(s.lists[l][i])]])

Editing(d) == [i \in DOMAIN d |-> [d[i] EXCEPT !.s = normalizeStrategyForEditing(@)]]
Api(d) == [i \in DOMAIN d |-> [d[i] EXCEPT !.s = prepareStrategyForApi(@)]]

-----------------------------------------------------------------------------
(* The Composer's checks.                                                      *)

EntrySlots(s) == UNION {Range(s.lists[l]) : l \in {"setups", "blockers", "trigger"}}
                     \cup ({s.legacy} \ {None})
Consumers(s) == {t \in EntrySlots(s) : t.use # NoUse}
UsedRefs(s) == ({t.use.ref : t \in Consumers(s)} \cup {s.exitUse.ref}) \ {<<>>, <<"none">>}

UnsupportedUse(s) == \E t \in Consumers(s) : ~Catalog[t.comp].gated
EntryUseOk(u) == u.ref # <<>> /\ u.policy = Gate /\ u.regimes

\* Undefined refs are only looked for when some profile has an exit.
ComposerAcceptsStrategy(s) ==
    /\ ~UnsupportedUse(s)
    /\ \A t \in Consumers(s) : EntryUseOk(t.use)
    /\ s.exitUse.policy \in {"", ExitPolicy}
    /\ ConsumesContext(s) => /\ s.exitUse.ref \notin {<<>>, <<"none">>}
                             /\ s.exitUse.policy # ""
                             /\ UsedRefs(s) \subseteq s.contexts

ComposerAccepts(d) == \A i \in DOMAIN d : ComposerAcceptsStrategy(d[i].s)

-----------------------------------------------------------------------------
(* The loader's, on the API's shape.                                           *)

Ids(slots) == [i \in DOMAIN slots |-> slots[i].id]
Distinct(seq) == \A i, j \in DOMAIN seq : i # j => seq[i] # seq[j]
Named(slots) == \A i \in DOMAIN slots : slots[i].id # <<>>
AllExits(s) == s.lists.always_on \o s.lists.aligned \o s.lists.countertrend \o s.lists.neutral

\* An entry's consumption: one that can carry it, whole, its policy supported.
ParsedUse(t) == t.use = NoUse \/ (Catalog[t.comp].gated /\ EntryUseOk(t.use))

ExitsOk_PerList(s) ==
    /\ AllExits(s) # <<>>
    /\ \A l \in ExitLists : Distinct(Ids(s.lists[l])) /\ Named(s.lists[l])
    /\ s.exitUse # NoUse => s.exitUse.ref # <<>> /\ s.exitUse.policy = ExitPolicy
    /\ ConsumesContext(s) => s.exitUse # NoUse

ExitsOk(s) ==
    /\ AllExits(s) # <<>> /\ Distinct(Ids(AllExits(s))) /\ Named(AllExits(s))
    /\ s.exitUse # NoUse => s.exitUse.ref # <<>> /\ s.exitUse.policy = ExitPolicy
    /\ ConsumesContext(s) => s.exitUse # NoUse

RefsDefined_ExitOnly(s) == s.exitUse = NoUse \/ s.exitUse.ref \in s.contexts

RefsDefined(s) == UsedRefs(s) \subseteq s.contexts

LoaderAcceptsStrategy(s) ==
    /\ s.legacy = None \/ s.lists.setups = <<>>
    /\ LET setups == migrateLegacySetup(s).lists.setups
       IN  /\ setups # <<>> /\ s.lists.blockers # <<>>
           /\ \A list \in {setups, s.lists.blockers} : Distinct(Ids(list)) /\ Named(list)
    /\ \A t \in EntrySlots(s) : ParsedUse(t)
    /\ ExitsOk(s)
    /\ RefsDefined(s)

LoaderAccepts(d) ==
    /\ Distinct(Ids(d)) /\ Named(d)
    /\ \A i \in DOMAIN d : LoaderAcceptsStrategy(d[i].s)

-----------------------------------------------------------------------------
(* Edits.  Each is followed by the effect that brings the draft into its       *)
(* editing shape.                                                              *)

Edit(d) ==
    /\ author.left > 0
    /\ author' = [author EXCEPT !.left = @ - 1]
    /\ draft' = Editing(d)
    /\ UNCHANGED stored

patchStrategy(i, s) == Edit([draft EXCEPT ![i].s = s]) /\ UNCHANGED selected
SetList(i, l, slots) == patchStrategy(i, [draft[i].s EXCEPT !.lists[l] = slots])
SetSlot(i, l, k, t) == SetList(i, l, [draft[i].s.lists[l] EXCEPT ![k] = t])

\* Contexts.
AddContext(i, ref) ==
    LET contexts == draft[i].s.contexts
        key == IF ref # <<>> /\ ref \notin contexts THEN ref ELSE generateUniqueContextRef(contexts)
    IN  /\ Cardinality(contexts) < author.contexts
        /\ patchStrategy(i, [draft[i].s EXCEPT !.contexts = @ \cup {key}])

RemoveContext(i, ref) == patchStrategy(i, [draft[i].s EXCEPT !.contexts = @ \ {ref}])

\* Only the provider's key changes: consumers keep the old ref.  A ref that is taken
\* leaves everything as it was.
RenameContext(i, ref, new) ==
    /\ new # <<>> /\ new \notin draft[i].s.contexts
    /\ patchStrategy(i, [draft[i].s EXCEPT !.contexts = (@ \ {ref}) \cup {new}])

\* What the select of refs offers: nothing while there is no context.
ContextRefSelect(s) == IF s.contexts = {} THEN {} ELSE s.contexts \cup {<<>>}

\* A consumption's fields: its ref and policy have selects of their own (a new policy
\* starts without parameters), and the regimes show once a ref and a policy are there.
EntryUse(s, t) ==
    IF t.use = NoUse THEN {Empty}
    ELSE {NoUse}
         \cup {[t.use EXCEPT !.ref = ref] : ref \in ContextRefSelect(s)}
         \cup {[t.use EXCEPT !.policy = p, !.regimes = FALSE] : p \in {"", Gate}}
         \cup {[t.use EXCEPT !.regimes = b] :
                  b \in IF t.use.ref # <<>> /\ t.use.policy = Gate THEN BOOLEAN ELSE {}}

EditEntryUse(i, l, k) ==
    LET s == draft[i].s  t == s.lists[l][k] IN
    /\ l \notin ExitLists /\ Catalog[t.comp].gated
    /\ \E u \in EntryUse(s, t) : u # t.use /\ SetSlot(i, l, k, [t EXCEPT !.use = u])

\* The exit policy's: shown only while some profile has an exit.
ExitUse(s) ==
    {IF ref = <<>> THEN NoUse ELSE [s.exitUse EXCEPT !.ref = ref] : ref \in ContextRefSelect(s)}
    \cup {[s.exitUse EXCEPT !.policy = p] :
             p \in IF s.exitUse = NoUse THEN {} ELSE {"", ExitPolicy}}

EditExitUse(i) ==
    LET s == draft[i].s IN
    /\ ConsumesContext(s)
    /\ \E u \in ExitUse(s) : u # s.exitUse /\ patchStrategy(i, writeExitPolicyContextConsumption(s, u))

\* Slots.
addListSlot(i, l, c, stamp) ==
    /\ Len(draft[i].s.lists[l]) < author.slots
    /\ SetList(i, l, Append(draft[i].s.lists[l], applyComponentDefaults(<<c, stamp>>, c)))

removeListSlot(i, l, k) == SetList(i, l, RemoveAt(draft[i].s.lists[l], k))

RenameSlot(i, l, k, id) == SetSlot(i, l, k, [draft[i].s.lists[l][k] EXCEPT !.id = id])

\* Another component: its defaults, and no consumption.
setComponent(i, l, k, c) ==
    SetSlot(i, l, k, applyComponentDefaults(draft[i].s.lists[l][k].id, c))

\* A parameter is given a value, or cleared: a cleared number is left out.
ParamInput == {"typed", "none"}

TypeParam(i, l, k, v) ==
    LET t == draft[i].s.lists[l][k] IN
    Catalog[t.comp].param /\ t.flat # v /\ SetSlot(i, l, k, [t EXCEPT !.flat = v])

\* Instances.
addInstance ==
    /\ Len(draft) < author.instances
    /\ Edit(Append(draft, createDefaultInstance(nextInstanceId(draft))))
    /\ selected' = Len(draft) + 1

duplicateSelected ==
    /\ Len(draft) < author.instances
    /\ Edit(Append(draft, [draft[selected] EXCEPT !.id = nextInstanceId(draft)]))
    /\ selected' = Len(draft) + 1

removeInstance ==
    /\ Len(draft) > 1
    /\ Edit(RemoveAt(draft, selected))
    /\ selected' = IF selected > Len(draft) - 1 THEN Len(draft) - 1 ELSE selected

RenameInstance(i, id) == Edit([draft EXCEPT ![i].id = id]) /\ UNCHANGED selected

Select(i) == selected # i /\ selected' = i /\ UNCHANGED <<draft, stored, author>>

\* Validated on both sides, stored, and read back into the draft.
Save ==
    /\ ComposerAccepts(draft) /\ LoaderAccepts(Api(draft))
    /\ stored' = Api(draft)
    /\ draft' = Editing(stored')
    /\ stored' # stored
    /\ UNCHANGED <<selected, author>>

-----------------------------------------------------------------------------
Load(s) == <<[id |-> <<"instance", 1>>, s |-> s]>>

Init ==
    /\ \E a \in Authors :
          /\ author = [f \in DOMAIN a \ {"files"} |-> a[f]]
          /\ \/ \E s \in a.files : LoaderAcceptsStrategy(s) /\ stored = Load(s)
             \/ stored = <<>>
    /\ draft = IF stored = <<>> THEN <<createDefaultInstance(<<"instance", 1>>)>> ELSE Editing(stored)
    /\ selected = 1

EditInstance(i) ==
    \/ \E ref \in author.refs : AddContext(i, ref)
    \/ \E ref \in draft[i].s.contexts :
           RemoveContext(i, ref) \/ \E new \in author.refs : RenameContext(i, ref, new)
    \/ EditExitUse(i)
    \/ \E id \in author.ids : RenameInstance(i, id)
    \/ Select(i)

EditList(i, l) ==
    \/ \E c \in componentsForRole(l), stamp \in author.stamps : l \in SlotLists /\ addListSlot(i, l, c, stamp)
    \/ \E k \in DOMAIN draft[i].s.lists[l] :
          \/ l \in SlotLists /\ removeListSlot(i, l, k)
          \/ l \in SlotLists /\ \E id \in author.ids : RenameSlot(i, l, k, id)
          \/ \E c \in componentsForRole(l) : setComponent(i, l, k, c)
          \/ \E v \in ParamInput : TypeParam(i, l, k, v)
          \/ EditEntryUse(i, l, k)

Next ==
    \/ \E i \in DOMAIN draft : EditInstance(i) \/ \E l \in author.lists : EditList(i, l)
    \/ addInstance \/ duplicateSelected \/ removeInstance
    \/ Save

Spec == Init /\ [][Next]_vars

-----------------------------------------------------------------------------
(* Properties.                                                                 *)

\* The draft always has its editing shape: no singleton setup, nothing left under
\* `params` where the component reads them, each component in a list of its role; an
\* instance is selected.
TypeOK ==
    /\ selected \in DOMAIN draft
    /\ \A i \in DOMAIN draft :
          /\ draft[i].s.legacy = None
          /\ \A l \in Lists : \A k \in DOMAIN draft[i].s.lists[l] :
                LET t == draft[i].s.lists[l][k]
                IN  t.comp \in componentsForRole(l) /\ (Nested(t.comp) => t.nested = "none")

\* What is stored consumes only contexts it defines, although renaming or removing a
\* context leaves its consumers behind and the Composer looks for such refs only when
\* a profile has an exit; and it has a consumption of the exit policy exactly when some
\* profile has an exit: one configured before the last profile exit went is not kept.
StoredContextsSound ==
    \A i \in DOMAIN stored :
       LET s == stored[i].s
       IN  UsedRefs(s) \subseteq s.contexts /\ ((s.exitUse # NoUse) <=> ConsumesContext(s))

\* Exit ids are unique over all four lists in what is stored, although ids are made from
\* four digits of a clock, lists are edited one at a time and ids can be typed.
StoredIdsDistinct ==
    TypeOK /\ \A i \in DOMAIN stored : Distinct(Ids(AllExits(stored[i].s)))

\* What the author sees of an instance.
Shown(x) == [id |-> x.id, contexts |-> x.s.contexts, lists |-> x.s.lists,
             exitUse |-> IF ConsumesContext(x.s) THEN x.s.exitUse ELSE NoUse]

\* A save changes nothing the author sees, although what is stored has another shape and
\* the draft is read back from it.
SaveKeepsWhatIsShown ==
    [][Save => [i \in DOMAIN draft' |-> Shown(draft'[i])] = [i \in DOMAIN draft |-> Shown(draft[i])]]_vars
=============================================================================
