----------------------- MODULE ComposerSession_proof -----------------------
(***************************************************************************)
(* Proofs about ComposerSession, for every set of configs and drafts, every *)
(* loader and every kind of user its assumptions allow.                     *)
(***************************************************************************)
EXTENDS ComposerSession, SequenceTheorems, WellFoundedInduction, TLAPS

Nothing == Drafts \union {NoDraft}
ConfigFile == [name : STRING, draft : Drafts]
ConfigStates == [ids : SUBSET ExperimentIds, draft : Nothing]

(***************************************************************************)
(* Lemmas about the store of configs.                                       *)
(***************************************************************************)

\* A nonempty set of naturals has a least element.
LEMMA MinIsThere ==
  ASSUME NEW I \in SUBSET Nat, I # {}
  PROVE  Min(I) \in I /\ \A m \in I : Min(I) <= m
<1> DEFINE Below == {ss \in Nat \X Nat : ss[1] < ss[2]}
<1>1. IsWellFoundedOn(Below, Nat)
  BY NatLessThanWellFounded DEF OpToRel
<1> HIDE DEF Below
<1>2. PICK n \in I : \A m \in I : ~ (<<m, n>> \in Below)
  BY <1>1, WFMin
<1>3. \A m \in I : ~ (m < n)
  BY <1>2 DEF Below
<1>4. \A m \in I : n <= m
  BY <1>3
<1>5. QED BY <1>4 DEF Min

\* What a search of the directory finds is one of its files.
LEMMA FileNamed ==
  ASSUME NEW files \in Seq(ConfigFile), NEW name
  PROVE  /\ WithName(files, name) \in 0..Len(files)
         /\ Len(files) > 0 /\ files[1].name = name => WithName(files, name) = 1
<1> DEFINE I == {i \in 1..Len(files) : files[i].name = name}
           file == WithName(files, name)
<1>1. file = IF I # {} THEN Min(I) ELSE 0
  BY DEF WithName, SelectInSeq
<1>2. I \in SUBSET Nat /\ (\A i \in I : i \in 1..Len(files)) /\ Len(files) \in Nat
  OBVIOUS
<1>3. Len(files) > 0 /\ files[1].name = name => 1 \in I
  OBVIOUS
<1> HIDE DEF I, file
<1>4. CASE I = {}
  BY <1>1, <1>2, <1>3, <1>4 DEF file
<1>5. CASE I # {}
  <2>1. file \in I /\ \A m \in I : file <= m
    BY <1>1, <1>2, <1>5, MinIsThere
  <2>2. file \in 1..Len(files)
    BY <1>2, <2>1
  <2>3. QED BY <1>2, <1>3, <2>1, <2>2 DEF file
<1>6. QED BY <1>4, <1>5

LEMMA FileWithId ==
  ASSUME NEW files \in Seq(ConfigFile), NEW id
  PROVE  WithId(files, id) \in 0..Len(files)
<1> DEFINE I == {i \in 1..Len(files) : files[i].draft.id = id}
           file == WithId(files, id)
<1>1. file = IF I # {} THEN Min(I) ELSE 0
  BY DEF WithId, SelectInSeq
<1>2. I \in SUBSET Nat /\ (\A i \in I : i \in 1..Len(files)) /\ Len(files) \in Nat
  OBVIOUS
<1> HIDE DEF I, file
<1>3. I # {} => Min(I) \in 1..Len(files)
  BY <1>2, MinIsThere
<1>4. QED BY <1>1, <1>2, <1>3 DEF file

LEMMA FoundInStore ==
  ASSUME NEW st \in Stores, NEW id
  PROVE  FindFile(st, id) \in 0..Len(st.files)
<1>1. st.files \in Seq(ConfigFile)
  BY DEF Stores, ConfigFile
<1>2. QED BY <1>1, FileNamed, FileWithId DEF FindFile

LEMMA IdsOfStore ==
  ASSUME NEW st \in Stores
  PROVE  /\ ToSet(Ids(st)) = {st.files[i].draft.id : i \in 1..Len(st.files)}
         /\ ToSet(Ids(st)) \subseteq ExperimentIds
         /\ \A i \in 1..Len(st.files) : st.files[i] \in ConfigFile
<1>1. st.files \in Seq(ConfigFile)
  BY DEF Stores, ConfigFile
<1>2. DOMAIN st.files = 1..Len(st.files) /\ \A i \in 1..Len(st.files) : st.files[i] \in ConfigFile
  BY <1>1
<1>3. ToSet(Ids(st)) = {st.files[i].draft.id : i \in 1..Len(st.files)}
  BY <1>2 DEF ToSet, Ids
<1>4. \A i \in 1..Len(st.files) : st.files[i].draft.id \in ExperimentIds
  BY <1>2 DEF ConfigFile, Drafts
<1>5. QED BY <1>2, <1>3, <1>4

\* The draft of a config state is that of one of the files, or none (get_config_state).
LEMMA StateIs ==
  ASSUME NEW st \in Stores
  PROVE  /\ State(st) \in ConfigStates
         /\ State(st).draft # NoDraft =>
              \E i \in DOMAIN st.files : st.files[i].draft = State(st).draft
<1> DEFINE file == FindFile(st, SelectedId(st))
<1>1. file \in 0..Len(st.files) /\ DOMAIN st.files = 1..Len(st.files)
  <2>1. st.files \in Seq(ConfigFile)
    BY DEF Stores, ConfigFile
  <2>2. QED BY <2>1, FoundInStore
<1>2. file # 0 => file \in DOMAIN st.files /\ st.files[file].draft \in Drafts
  BY <1>1, IdsOfStore DEF ConfigFile
<1>3. State(st) = [ids |-> ToSet(Ids(st)),
                   draft |-> IF SelectedId(st) = NoId \/ file = 0 THEN NoDraft
                             ELSE IF Valid(st.files[file].draft) THEN st.files[file].draft ELSE NoDraft]
  BY DEF State
<1> HIDE DEF file
<1>4. QED BY <1>2, <1>3, IdsOfStore DEF ConfigStates, Nothing

\* A save leaves a store whose newest file is the draft's (save_draft).
LEMMA WrittenIs ==
  ASSUME NEW st \in Stores, NEW d \in Drafts
  PROVE  /\ Written(st, d) \in Stores
         /\ Len(Written(st, d).files) > 0
         /\ Written(st, d).files[1] = [name |-> FileName(d.id), draft |-> d]
<1> DEFINE new == [name |-> FileName(d.id), draft |-> d]
           old == Without(st.files, FileName(d.id))
<1>1. st.files \in Seq(ConfigFile) /\ st.selected \in ExperimentIds \union {NoId}
  BY DEF Stores, ConfigFile
<1>2. new \in ConfigFile
  BY ComposerAssumption DEF ComposerAssumption, ConfigFile, Drafts
<1>3. old \in Seq(ConfigFile)
  <2> DEFINE file == WithName(st.files, FileName(d.id))
  <2>1. file \in 0..Len(st.files)
    BY <1>1, FileNamed
  <2>2. old = IF file = 0 THEN st.files
              ELSE SubSeq(st.files, 1, file - 1) \o SubSeq(st.files, file + 1, Len(st.files))
    BY DEF Without, RemoveAt
  <2> HIDE DEF file
  <2>3. CASE file = 0
    BY <1>1, <2>2, <2>3
  <2>4. CASE file # 0
    <3>1. SubSeq(st.files, 1, file - 1) \in Seq(ConfigFile)
      BY <1>1, <2>1, <2>4
    <3>2. SubSeq(st.files, file + 1, Len(st.files)) \in Seq(ConfigFile)
      BY <1>1, <2>1, <2>4
    <3>3. QED BY <2>2, <2>4, <3>1, <3>2
  <2>5. QED BY <2>3, <2>4
<1>4. Written(st, d) = [st EXCEPT !.files = <<new>> \o old]
  BY DEF Written
<1> HIDE DEF new, old
<1>5. /\ <<new>> \o old \in Seq(ConfigFile)
      /\ Len(<<new>> \o old) > 0 /\ (<<new>> \o old)[1] = new
  BY <1>2, <1>3
<1>6. Written(st, d).files = <<new>> \o old /\ Written(st, d) \in Stores
  BY <1>4, <1>5 DEF Stores, ConfigFile
<1>7. QED BY <1>5, <1>6 DEF new

\* A draft that is saved comes back as the selected config (save_draft, get_config_state).
LEMMA SavedIs ==
  ASSUME NEW st \in Stores, NEW d \in Drafts
  PROVE  /\ Saved(st, d) \in Stores
         /\ Valid(d) => State(Saved(st, d)).draft = d
<1> DEFINE w == Written(st, d)
<1>1. /\ w \in Stores /\ Len(w.files) > 0 /\ w.files[1] = [name |-> FileName(d.id), draft |-> d]
  BY WrittenIs
<1>2. d.id \in ExperimentIds
  BY DEF Drafts
<1>3. CASE ~ Valid(d)
  BY <1>3 DEF Saved
<1>4. CASE Valid(d)
  <2> DEFINE s == Saved(st, d)
  <2>1. s = [w EXCEPT !.selected = d.id]
    BY <1>4 DEF Saved, Selected
  <2> HIDE DEF s, w
  <2>2. s \in Stores /\ s.files = w.files /\ s.selected = d.id
    BY <1>1, <1>2, <2>1 DEF Stores
  <2>3. s.files \in Seq(ConfigFile)
    BY <2>2 DEF Stores, ConfigFile
  <2>4. s.files # <<>> /\ 1 \in 1..Len(s.files) /\ s.files[1].draft = d
        /\ s.files[1].name = FileName(d.id)
    BY <1>1, <2>2, <2>3
  <2>5. d.id \in ToSet(Ids(s))
    BY <2>2, <2>4, IdsOfStore
  <2>6. SelectedId(s) = d.id
    BY <2>2, <2>4, <2>5 DEF SelectedId
  <2>7. FindFile(s, d.id) = 1
    <3>1. WithName(s.files, FileName(d.id)) = 1
      BY <2>3, <2>4, FileNamed
    <3>2. QED BY <3>1 DEF FindFile
  <2>8. SelectedId(s) # NoId
    BY <1>2, <2>6, ComposerAssumption DEF ComposerAssumption
  <2>9. State(s).draft = d
    BY <1>4, <2>4, <2>6, <2>7, <2>8 DEF State
  <2>10. QED BY <2>2, <2>9 DEF s
<1>5. QED BY <1>3, <1>4

(***************************************************************************)
(* The first invariant: types, and a call behind whatever is under way.     *)
(***************************************************************************)

Panels == [on : BOOLEAN, busy : {"none", "validate", "serialize", "save", "backtest"},
           verdict : {"none", "ok", "bad"}, about : Nothing,
           message : BOOLEAN, said : Nothing, preview : BOOLEAN]

Calls == [kind : Kinds, draft : Nothing \union [id : ExperimentIds], live : BOOLEAN,
          answered : BOOLEAN, ok : BOOLEAN, state : ConfigStates]

\* A call carries what its request needs.
CallOk(c) ==
  /\ c \in Calls
  /\ c.kind \notin {"reload", "select"} => c.draft \in Drafts
  /\ c.kind = "select" => c.draft.id \in ExperimentIds

Typed ==
  /\ user \in Users /\ store \in Stores /\ draft \in Nothing /\ ids \subseteq ExperimentIds
  /\ status \in {"loading", "ready", "empty", "error"}
  /\ status = "ready" => draft # NoDraft
  /\ panel \in Panels
  /\ \A c \in calls : CallOk(c)

PanelWaits == panel.busy # "none" => \E c \in calls : c.live /\ c.kind \in Ending(panel.busy)
StatusWaits == status = "loading" => \E c \in calls : c.kind \in {"reload", "reloadAfterSave"}

ComposerInv == Typed /\ PanelWaits /\ StatusWaits

LEMMA UserIs ==
  ASSUME Typed
  PROVE  /\ user.store \in Stores /\ user.edits \subseteq Drafts
         /\ user.patient \in BOOLEAN /\ user.leaves \in BOOLEAN
  BY ComposerAssumption DEF Typed, ComposerAssumption

\* Normalising keeps a draft a draft, and does nothing the second time.
LEMMA NormalIs ==
  ASSUME NEW d \in Nothing
  PROVE  /\ Normal(d) \in Nothing
         /\ d = NoDraft => Normal(d) = NoDraft
         /\ d # NoDraft => Normal(d) \in Drafts /\ Normal(d) # NoDraft
         /\ Normal(Normal(d)) = Normal(d)
<1>1. CASE d = NoDraft
  BY <1>1 DEF Normal, Nothing
<1>2. CASE d # NoDraft
  <2>1. d \in Drafts /\ d.body \in Bodies
    BY <1>2 DEF Nothing, Drafts
  <2>2. Normal(d) = [d EXCEPT !.body = Editable(d.body)]
    BY <1>2 DEF Normal
  <2>3. Editable(d.body) \in Bodies /\ Editable(Editable(d.body)) = Editable(d.body)
    BY <2>1, ComposerAssumption DEF ComposerAssumption
  <2>4. Normal(d) \in Drafts /\ Normal(d).body = Editable(d.body)
    BY <2>1, <2>2, <2>3 DEF Drafts
  <2>5. Normal(d) # NoDraft
    BY <2>4, ComposerAssumption DEF ComposerAssumption
  <2>6. Normal(Normal(d)) = [Normal(d) EXCEPT !.body = Editable(Normal(d).body)]
    BY <2>5 DEF Normal
  <2>7. Normal(Normal(d)) = Normal(d)
    BY <2>3, <2>4, <2>6 DEF Drafts
  <2>8. QED BY <1>2, <2>4, <2>5, <2>7 DEF Nothing
<1>3. QED BY <1>1, <1>2

LEMMA SendIs ==
  ASSUME NEW kind \in Kinds, NEW d \in Nothing \union [id : ExperimentIds],
         kind \notin {"reload", "select"} => d \in Drafts,
         kind = "select" => d.id \in ExperimentIds
  PROVE  /\ CallOk(Send(kind, d))
         /\ Send(kind, d).kind = kind /\ Send(kind, d).draft = d
         /\ Send(kind, d).live = TRUE /\ Send(kind, d).answered = FALSE
<1>1. [ids |-> {}, draft |-> NoDraft] \in ConfigStates
  BY DEF ConfigStates, Nothing
<1>2. Send(kind, d) = [kind |-> kind, draft |-> d, live |-> TRUE, answered |-> FALSE,
                       ok |-> FALSE, state |-> [ids |-> {}, draft |-> NoDraft]]
  BY DEF Send
<1>3. Send(kind, d) \in Calls
  BY <1>1, <1>2 DEF Calls
<1>4. /\ Send(kind, d).kind = kind /\ Send(kind, d).draft = d
      /\ Send(kind, d).live = TRUE /\ Send(kind, d).answered = FALSE
  BY <1>2
<1> DEFINE s == Send(kind, d)
<1>5. s \in Calls /\ s.kind = kind /\ s.draft = d
  BY <1>3, <1>4
<1> HIDE DEF s
<1>6. CallOk(s)
  BY <1>5 DEF CallOk
<1>7. QED BY <1>4, <1>6 DEF s

LEMMA InitComposer == Init => ComposerInv
<1> SUFFICES ASSUME Init PROVE ComposerInv
  OBVIOUS
<1>1. /\ user \in Users /\ store = user.store /\ draft = NoDraft /\ status = "loading" /\ ids = {}
      /\ panel = Fresh /\ calls = {Send("reload", NoDraft)}
  BY DEF Init
<1>2. store \in Stores
  BY <1>1, ComposerAssumption DEF ComposerAssumption
<1>3. panel \in Panels /\ panel.busy = "none"
  BY <1>1 DEF Fresh, Panels, Nothing
<1>4. CallOk(Send("reload", NoDraft)) /\ Send("reload", NoDraft).kind = "reload"
  <2>1. "reload" \in Kinds /\ NoDraft \in Nothing \union [id : ExperimentIds]
    BY DEF Kinds, Nothing
  <2>2. QED BY <2>1, SendIs
<1>5. Typed
  BY <1>1, <1>2, <1>3, <1>4 DEF Typed, Nothing
<1>6. QED BY <1>1, <1>3, <1>4, <1>5 DEF ComposerInv, PanelWaits, StatusWaits

\* A call that ends, or one that is sent, leaves every other call waiting.
LEMMA StillWaits ==
  ASSUME ComposerInv, Typed',
         \A c \in calls : c \in calls'
           \/ /\ c.live => panel'.busy = "none"
              /\ c.kind \in {"reload", "reloadAfterSave"} => status' # "loading"
           \/ \E d \in calls' : d.kind = c.kind /\ d.live = c.live,
         panel'.busy \in {"none", panel.busy}, status' = "loading" => status = "loading"
  PROVE  ComposerInv'
<1>1. PanelWaits'
  <2> SUFFICES ASSUME panel'.busy # "none"
               PROVE  \E c \in calls' : c.live /\ c.kind \in Ending(panel'.busy)
    BY DEF PanelWaits
  <2>1. PICK c \in calls : c.live /\ c.kind \in Ending(panel.busy)
    BY DEF ComposerInv, PanelWaits
  <2>2. QED BY <2>1
<1>2. StatusWaits'
  <2> SUFFICES ASSUME status' = "loading"
               PROVE  \E c \in calls' : c.kind \in {"reload", "reloadAfterSave"}
    BY DEF StatusWaits
  <2>1. PICK c \in calls : c.kind \in {"reload", "reloadAfterSave"}
    BY DEF ComposerInv, StatusWaits
  <2>2. QED BY <2>1
<1>3. QED BY <1>1, <1>2 DEF ComposerInv

(* ---- the user -------------------------------------------------------- *)
LEMMA EditWaits ==
  ASSUME ComposerInv, NEW d \in user.edits, Edit(d), UNCHANGED user
  PROVE  ComposerInv'
<1>1. /\ draft # NoDraft /\ draft' = d /\ panel' = Patched(panel)
      /\ UNCHANGED <<store, status, ids, calls>>
  BY DEF Edit, Editing
<1>2. d \in Drafts /\ d # NoDraft
  BY UserIs, ComposerAssumption DEF ComposerInv, ComposerAssumption
<1>3. panel' \in Panels /\ panel'.busy = panel.busy
  BY <1>1 DEF ComposerInv, Typed, Patched, Panels
<1>4. Typed'
  BY <1>1, <1>2, <1>3 DEF ComposerInv, Typed, Nothing
<1>5. QED BY <1>1, <1>3, <1>4, StillWaits

LEMMA ActWaits ==
  ASSUME ComposerInv, NEW kind \in {"validate", "serialize", "save", "backtest"}, Act(kind),
         UNCHANGED user
  PROVE  ComposerInv'
<1>1. /\ draft # NoDraft /\ panel.busy = "none" /\ UNCHANGED <<store, draft, status, ids>>
  BY DEF Act, Editing
<1>2. draft \in Drafts /\ panel \in Panels
  BY <1>1 DEF ComposerInv, Typed, Nothing
<1>3. CASE Blocked(draft.body)
  <2>1. PICK p \in BOOLEAN : panel' = Rejected([Busy(kind) EXCEPT !.preview = p]) /\ calls' = calls
    <3>1. Busy(kind).preview \in BOOLEAN
      BY <1>2 DEF Busy, Panels
    <3>2. QED BY <1>3, <3>1 DEF Act
  <2>2. Busy(kind) \in Panels
    BY <1>2 DEF Busy, Panels
  <2>3. panel' \in Panels /\ panel'.busy = "none"
    BY <1>2, <2>1, <2>2 DEF Rejected, Panels, Nothing
  <2>4. Typed'
    BY <1>1, <2>1, <2>3 DEF ComposerInv, Typed
  <2>5. QED BY <1>1, <2>1, <2>3, <2>4, StillWaits
<1>4. CASE ~ Blocked(draft.body)
  <2>1. panel' = Busy(kind) /\ calls' = calls \union {Send(kind, draft)}
    BY <1>4 DEF Act, Issue
  <2>2. panel' \in Panels /\ panel'.busy = kind
    BY <1>2, <2>1 DEF Busy, Panels
  <2>3. /\ CallOk(Send(kind, draft)) /\ Send(kind, draft).kind = kind
        /\ Send(kind, draft).live = TRUE
    <3>1. kind \in Kinds /\ kind # "select"
      BY DEF Kinds
    <3>2. QED BY <1>2, <3>1, SendIs DEF Nothing
  <2>4. Typed'
    BY <1>1, <2>1, <2>2, <2>3 DEF ComposerInv, Typed
  <2>5. PanelWaits'
    BY <2>1, <2>2, <2>3 DEF PanelWaits, Ending
  <2>6. StatusWaits'
    BY <1>1, <2>1 DEF ComposerInv, StatusWaits
  <2>7. QED BY <2>4, <2>5, <2>6 DEF ComposerInv
<1>5. QED BY <1>3, <1>4

LEMMA SelectSavedWaits ==
  ASSUME ComposerInv, NEW id \in ExperimentIds, SelectSaved(id), UNCHANGED user
  PROVE  ComposerInv'
<1>1. /\ calls' = calls \union {Send("select", [id |-> id])}
      /\ \/ panel' = panel
         \/ panel' = [panel EXCEPT !.verdict = "none", !.message = FALSE]
      /\ UNCHANGED <<store, draft, status, ids>>
  BY DEF SelectSaved, Issue
<1>2. CallOk(Send("select", [id |-> id]))
  <2>1. [id |-> id] \in [id : ExperimentIds] /\ [id |-> id].id = id /\ "select" \in Kinds
    BY DEF Kinds
  <2>2. QED BY <2>1, SendIs
<1>3. panel' \in Panels /\ panel'.busy = panel.busy
  BY <1>1 DEF ComposerInv, Typed, Panels
<1>4. Typed'
  BY <1>1, <1>2, <1>3 DEF ComposerInv, Typed
<1>5. QED BY <1>1, <1>3, <1>4, StillWaits

LEMMA CreateNewWaits ==
  ASSUME ComposerInv, CreateNew, UNCHANGED user
  PROVE  ComposerInv'
<1>1. /\ draft' = Normal(Blank) /\ status' = "ready" /\ UNCHANGED <<store, ids, panel, calls>>
  BY DEF CreateNew
<1>2. draft' \in Drafts /\ draft' # NoDraft
  BY <1>1, NormalIs, ComposerAssumption DEF ComposerAssumption, Nothing
<1>3. Typed'
  BY <1>1, <1>2 DEF ComposerInv, Typed, Nothing
<1>4. QED BY <1>1, <1>3, StillWaits

LEMMA PanelGone ==
  ASSUME ComposerInv, NEW rest \in SUBSET calls,
         panel' = [Fresh EXCEPT !.on = FALSE], calls' = {[c EXCEPT !.live = FALSE] : c \in rest},
         \A c \in calls \ rest : c.kind = "refresh",
         UNCHANGED <<user, store, draft, status, ids>>
  PROVE  ComposerInv'
<1>1. panel' \in Panels /\ panel'.busy = "none"
  BY DEF Fresh, Panels, Nothing
<1>2. \A c \in calls : /\ CallOk([c EXCEPT !.live = FALSE])
                       /\ [c EXCEPT !.live = FALSE].kind = c.kind
  <2> TAKE c \in calls
  <2>1. CallOk(c)
    BY DEF ComposerInv, Typed
  <2>2. [c EXCEPT !.live = FALSE] \in Calls /\ [c EXCEPT !.live = FALSE].kind = c.kind
        /\ [c EXCEPT !.live = FALSE].draft = c.draft
    BY <2>1 DEF CallOk, Calls
  <2>3. QED BY <2>1, <2>2 DEF CallOk
<1>3. \A c \in calls' : CallOk(c)
  BY <1>2
<1>4. Typed'
  BY <1>1, <1>3 DEF ComposerInv, Typed
<1>5. PanelWaits'
  BY <1>1 DEF PanelWaits
<1>6. StatusWaits'
  <2> SUFFICES ASSUME status = "loading"
               PROVE  \E c \in calls' : c.kind \in {"reload", "reloadAfterSave"}
    BY DEF StatusWaits
  <2>1. PICK c \in calls : c.kind \in {"reload", "reloadAfterSave"}
    BY DEF ComposerInv, StatusWaits
  <2>2. [c EXCEPT !.live = FALSE] \in calls'
    BY <2>1
  <2>3. QED BY <1>2, <2>1, <2>2
<1>7. QED BY <1>4, <1>5, <1>6 DEF ComposerInv

LEMMA LeaveWaits ==
  ASSUME ComposerInv, Leave, UNCHANGED user
  PROVE  ComposerInv'
  BY PanelGone DEF Leave

LEMMA ReturnWaits ==
  ASSUME ComposerInv, Return, UNCHANGED user
  PROVE  ComposerInv'
<1>1. panel' = Fresh /\ UNCHANGED <<store, draft, status, ids, calls>>
  BY DEF Return
<1>2. panel' \in Panels /\ panel'.busy = "none"
  BY <1>1 DEF Fresh, Panels, Nothing
<1>3. Typed'
  BY <1>1, <1>2 DEF ComposerInv, Typed
<1>4. QED BY <1>1, <1>2, <1>3, StillWaits

(* ---- the research API ------------------------------------------------ *)
\* What serving a call does to the store and to the call.
LEMMA ServeIs ==
  ASSUME Typed, NEW c \in calls, Serve(c)
  PROVE  /\ UNCHANGED <<draft, status, ids, panel>> /\ store' \in Stores
         /\ c.kind \notin {"select", "save", "backtest"} => store' = store
         /\ c.kind = "select" => store'.files = store.files
         /\ c.kind \in {"save", "backtest"} => store' = Saved(store, c.draft)
         /\ \E ok \in BOOLEAN :
              /\ calls' = (calls \ {c}) \union {[c EXCEPT !.answered = TRUE, !.ok = ok,
                                                          !.state = State(store')]}
              /\ c.kind \in {"save", "backtest"} => ok = Valid(c.draft)
<1>1. CallOk(c) /\ store \in Stores /\ c.kind \in Kinds
  BY DEF Typed, CallOk, Calls
<1>2. \A d \in Drafts : Valid(d) \in BOOLEAN
  BY ComposerAssumption DEF ComposerAssumption, Valid, Drafts
<1>3. UNCHANGED <<draft, status, ids, panel>>
  BY DEF Serve
<1>4. CASE c.kind \in {"reload", "reloadAfterSave", "refresh"}
  BY <1>1, <1>3, <1>4 DEF Serve, Answer
<1>5. CASE c.kind \in {"validate", "serialize"}
  <2>1. c.draft \in Drafts
    BY <1>1, <1>5 DEF CallOk
  <2>2. QED BY <1>1, <1>2, <1>3, <1>5, <2>1 DEF Serve, Answer
<1>6. CASE c.kind = "select"
  <2> DEFINE found == Exists(store, c.draft.id)
  <2>1. /\ store' = IF found THEN Selected(store, c.draft.id) ELSE store
        /\ Answer(c, found)
    BY <1>6 DEF Serve
  <2>2. found \in BOOLEAN /\ c.draft.id \in ExperimentIds
    BY <1>1, <1>6 DEF Exists, CallOk
  <2> HIDE DEF found
  <2>3. store' \in Stores /\ store'.files = store.files
    BY <1>1, <2>1, <2>2 DEF Stores, Selected
  <2>4. QED BY <1>3, <1>6, <2>1, <2>2, <2>3 DEF Answer
<1>7. CASE c.kind \in {"save", "backtest"}
  <2>1. c.draft \in Drafts
    BY <1>1, <1>7 DEF CallOk
  <2>2. store' = Saved(store, c.draft) /\ Answer(c, Valid(c.draft))
    BY <1>7 DEF Serve
  <2>3. store' \in Stores
    BY <1>1, <2>1, <2>2, SavedIs
  <2>4. QED BY <1>2, <1>3, <1>7, <2>1, <2>2, <2>3 DEF Answer
<1>8. QED BY <1>1, <1>4, <1>5, <1>6, <1>7 DEF Kinds

LEMMA ServeWaits ==
  ASSUME ComposerInv, NEW c \in calls, Serve(c), UNCHANGED user
  PROVE  ComposerInv'
<1>0. Typed /\ CallOk(c)
  BY DEF ComposerInv, Typed
<1>1. PICK ok \in BOOLEAN :
        calls' = (calls \ {c}) \union {[c EXCEPT !.answered = TRUE, !.ok = ok, !.state = State(store')]}
  BY <1>0, ServeIs
<1>2. UNCHANGED <<draft, status, ids, panel>> /\ store' \in Stores
  BY <1>0, ServeIs
<1> DEFINE answered == [c EXCEPT !.answered = TRUE, !.ok = ok, !.state = State(store')]
<1>3. State(store') \in ConfigStates
  BY <1>2, StateIs
<1>4. answered \in Calls /\ answered.kind = c.kind /\ answered.live = c.live
      /\ answered.draft = c.draft
  BY <1>0, <1>3 DEF CallOk, Calls
<1> HIDE DEF answered
<1>5. CallOk(answered)
  BY <1>0, <1>4 DEF CallOk
<1>6. calls' = (calls \ {c}) \union {answered}
  BY <1>1 DEF answered
<1>7. Typed'
  BY <1>0, <1>2, <1>5, <1>6 DEF Typed
<1>8. QED BY <1>2, <1>4, <1>6, <1>7, StillWaits

(* ---- answers --------------------------------------------------------- *)
\* What a config answer leaves of the state it sets.
LEMMA AppliedIs ==
  ASSUME NEW s \in ConfigStates, Applied(s)
  PROVE  /\ draft' \in Nothing /\ ids' \subseteq ExperimentIds
         /\ status' \in {"ready", "empty", "error"}
         /\ status' = "ready" => draft' # NoDraft
<1>1. s.draft \in Nothing /\ s.ids \subseteq ExperimentIds
  BY DEF ConfigStates
<1>2. QED BY <1>1, NormalIs DEF Applied

\* A call that ends, its panel idle if it belongs to the panel on the screen.
LEMMA EndedWaits ==
  ASSUME ComposerInv, NEW c \in calls, Ends(c),
         UNCHANGED <<user, store>>,
         draft' \in Nothing, ids' \subseteq ExperimentIds,
         status' \in {"ready", "empty", "error"} \/ (status' = status /\ c.kind \notin {"reload", "reloadAfterSave"}),
         status' = "ready" => draft' # NoDraft,
         panel' \in Panels,
         \/ panel' = panel /\ (c.live => \A busy \in {"validate", "serialize", "save", "backtest"} :
                                            c.kind \notin Ending(busy))
         \/ panel' = panel /\ ~ c.live
         \/ panel'.busy = "none"
  PROVE  ComposerInv'
<1>1. Typed /\ calls' = calls \ {c}
  BY DEF ComposerInv, Ends
<1>2. status' \in {"loading", "ready", "empty", "error"}
  BY <1>1 DEF Typed
<1>3. Typed'
  BY <1>1, <1>2 DEF Typed
<1>4. PanelWaits'
  <2> SUFFICES ASSUME panel'.busy # "none"
               PROVE  \E e \in calls' : e.live /\ e.kind \in Ending(panel'.busy)
    BY DEF PanelWaits
  <2>1. panel' = panel /\ panel.busy \in {"validate", "serialize", "save", "backtest"}
    BY <1>1 DEF Typed, Panels
  <2>2. PICK e \in calls : e.live /\ e.kind \in Ending(panel.busy)
    BY <2>1 DEF ComposerInv, PanelWaits
  <2>3. e # c
    BY <2>1, <2>2
  <2>4. QED BY <1>1, <2>1, <2>2, <2>3
<1>5. StatusWaits'
  <2> SUFFICES ASSUME status' = "loading"
               PROVE  \E e \in calls' : e.kind \in {"reload", "reloadAfterSave"}
    BY DEF StatusWaits
  <2>1. PICK e \in calls : e.kind \in {"reload", "reloadAfterSave"}
    BY DEF ComposerInv, StatusWaits
  <2>2. QED BY <1>1, <2>1
<1>6. QED BY <1>3, <1>4, <1>5 DEF ComposerInv

LEMMA ConfigArrivesWaits ==
  ASSUME ComposerInv, NEW c \in calls, ConfigArrives(c), UNCHANGED user
  PROVE  ComposerInv'
<1>1. /\ c.kind \in {"reload", "select"} /\ Ends(c) /\ UNCHANGED <<store, panel>>
      /\ IF c.ok THEN Applied(c.state)
         ELSE /\ status' = IF c.kind = "reload" THEN "error" ELSE status
              /\ UNCHANGED <<draft, ids>>
  BY DEF ConfigArrives
<1>2. Typed /\ c.state \in ConfigStates
  BY DEF ComposerInv, Typed, CallOk, Calls
<1>3. /\ draft' \in Nothing /\ ids' \subseteq ExperimentIds
      /\ status' = "ready" => draft' # NoDraft
      /\ status' \in {"ready", "empty", "error"} \/ (status' = status /\ c.kind = "select")
  <2>1. CASE c.ok
    BY <1>1, <1>2, <2>1, AppliedIs
  <2>2. CASE ~ c.ok
    BY <1>1, <1>2, <2>2 DEF Typed
  <2>3. QED BY <2>1, <2>2
<1>4. \A busy \in {"validate", "serialize", "save", "backtest"} : c.kind \notin Ending(busy)
  BY <1>1 DEF Ending
<1>5. panel' = panel /\ panel' \in Panels
  BY <1>1, <1>2 DEF Typed
<1>6. QED BY <1>1, <1>3, <1>4, <1>5, EndedWaits

\* An answer that only touches the panel, and leaves it idle.
LEMMA PanelAnswered ==
  ASSUME ComposerInv, NEW c \in calls, Ends(c), NEW p \in Panels, p.busy = "none",
         c.kind \notin {"reload", "select", "reloadAfterSave"},
         Local(c, p), UNCHANGED <<user, store, draft, status, ids>>
  PROVE  ComposerInv'
<1>1. Typed /\ CallOk(c)
  BY DEF ComposerInv, Typed
<1>2. panel' = IF c.live THEN p ELSE panel
  BY DEF Local
<1>3. panel' \in Panels /\ (panel'.busy = "none" \/ (panel' = panel /\ ~ c.live))
  BY <1>1, <1>2 DEF Typed, CallOk, Calls
<1>4. /\ draft' \in Nothing /\ ids' \subseteq ExperimentIds /\ status' = status
      /\ status' = "ready" => draft' # NoDraft
  BY <1>1 DEF Typed
<1>5. QED BY <1>3, <1>4, EndedWaits

\* What the panel's setters make of a panel.
LEMMA PanelSetters ==
  ASSUME NEW p \in Panels, NEW c, c.draft \in Nothing
  PROVE  /\ Done(p) \in Panels /\ Done(p).busy = "none"
         /\ Told(c, p) \in Panels
         /\ Ruled(c, p, "ok") \in Panels /\ Ruled(c, p, "bad") \in Panels
         /\ [p EXCEPT !.preview = FALSE] \in Panels
         /\ [p EXCEPT !.preview = TRUE] \in Panels
  BY DEF Done, Told, Ruled, Panels

LEMMA VerdictArrivesWaits ==
  ASSUME ComposerInv, NEW c \in calls, VerdictArrives(c), UNCHANGED user
  PROVE  ComposerInv'
<1>1. /\ c.kind \in {"validate", "serialize"} /\ Ends(c)
      /\ Local(c, IF c.kind = "validate"
                  THEN Done(Ruled(c, IF c.ok THEN panel ELSE [panel EXCEPT !.preview = FALSE],
                                  IF c.ok THEN "ok" ELSE "bad"))
                  ELSE IF c.ok THEN Done([panel EXCEPT !.preview = TRUE])
                  ELSE Done(Ruled(c, [panel EXCEPT !.preview = FALSE], "bad")))
      /\ UNCHANGED <<store, draft, status, ids>>
  BY DEF VerdictArrives
<1>2. PICK p : /\ Local(c, p)
               /\ p \in {Done(Ruled(c, panel, "ok")), Done(Ruled(c, [panel EXCEPT !.preview = FALSE], "bad")),
                         Done([panel EXCEPT !.preview = TRUE])}
  <2>1. CASE c.kind = "validate" /\ c.ok
    BY <1>1, <2>1
  <2>2. CASE c.kind = "validate" /\ ~ c.ok
    BY <1>1, <2>2
  <2>3. CASE c.kind = "serialize" /\ c.ok
    BY <1>1, <2>3
  <2>4. CASE c.kind = "serialize" /\ ~ c.ok
    BY <1>1, <2>4
  <2>5. QED BY <1>1, <2>1, <2>2, <2>3, <2>4
<1>3. panel \in Panels /\ c.draft \in Nothing
  BY <1>1 DEF ComposerInv, Typed, CallOk, Nothing
<1>4. p \in Panels /\ p.busy = "none"
  <2>1. CASE p = Done(Ruled(c, panel, "ok"))
    BY <1>3, <2>1, PanelSetters
  <2>2. CASE p = Done(Ruled(c, [panel EXCEPT !.preview = FALSE], "bad"))
    BY <1>3, <2>2, PanelSetters
  <2>3. CASE p = Done([panel EXCEPT !.preview = TRUE])
    BY <1>3, <2>3, PanelSetters
  <2>4. QED BY <1>2, <2>1, <2>2, <2>3
<1>5. QED BY <1>1, <1>2, <1>4, PanelAnswered

LEMMA RefusedWaits ==
  ASSUME ComposerInv, NEW c \in calls, Refused(c), UNCHANGED user
  PROVE  ComposerInv'
<1>1. /\ c.kind \in {"save", "backtest"} /\ Ends(c) /\ Local(c, Done(Ruled(c, panel, "bad")))
      /\ UNCHANGED <<store, draft, status, ids>>
  BY DEF Refused
<1>2. panel \in Panels /\ c.draft \in Nothing
  BY <1>1 DEF ComposerInv, Typed, CallOk, Nothing
<1>3. Done(Ruled(c, panel, "bad")) \in Panels /\ Done(Ruled(c, panel, "bad")).busy = "none"
  BY <1>2, PanelSetters
<1>4. QED BY <1>1, <1>3, PanelAnswered

\* The second request of a call goes on for the first.
LEMMA ContinuesIs ==
  ASSUME Typed, NEW c \in calls, NEW kind \in Kinds, kind \notin {"reload", "select"},
         c.draft \in Drafts, Continues(c, kind)
  PROVE  \E d \in Calls : /\ calls' = (calls \ {c}) \union {d} /\ CallOk(d)
                          /\ d.kind = kind /\ d.live = c.live
                          /\ d.draft = c.draft /\ ~ d.answered
<1>1. c.live \in BOOLEAN
  BY DEF Typed, CallOk, Calls
<1> DEFINE s == Send(kind, c.draft)
           d == [s EXCEPT !.live = c.live]
<1>2. s \in Calls /\ s.kind = kind /\ s.draft = c.draft /\ s.answered = FALSE
  <2>1. c.draft \in Nothing \union [id : ExperimentIds] /\ kind # "select"
    BY DEF Nothing
  <2>2. QED BY <2>1, SendIs DEF CallOk
<1>3. calls' = (calls \ {c}) \union {d}
  BY DEF Continues
<1> HIDE DEF s
<1>4. d \in Calls /\ d.kind = kind /\ d.live = c.live /\ d.draft = c.draft /\ ~ d.answered
  BY <1>1, <1>2 DEF Calls
<1> HIDE DEF d
<1>5. CallOk(d)
  BY <1>4 DEF CallOk
<1>6. QED BY <1>3, <1>4, <1>5

LEMMA SaveArrivesWaits ==
  ASSUME ComposerInv, NEW c \in calls, SaveArrives(c), UNCHANGED user
  PROVE  ComposerInv'
<1>1. /\ c.kind = "save" /\ Continues(c, "reloadAfterSave")
      /\ status' = IF status = "ready" THEN status ELSE "loading"
      /\ UNCHANGED <<store, draft, ids, panel>>
  BY DEF SaveArrives
<1>2. Typed /\ c.draft \in Drafts
  BY <1>1 DEF ComposerInv, Typed, CallOk
<1>3. PICK d \in Calls : /\ calls' = (calls \ {c}) \union {d} /\ CallOk(d)
                         /\ d.kind = "reloadAfterSave" /\ d.live = c.live
  BY <1>1, <1>2, ContinuesIs DEF Kinds
<1>4. Typed'
  BY <1>1, <1>2, <1>3 DEF Typed
<1>5. PanelWaits'
  <2> SUFFICES ASSUME panel.busy # "none"
               PROVE  \E e \in calls' : e.live /\ e.kind \in Ending(panel.busy)
    BY <1>1 DEF PanelWaits
  <2>1. PICK e \in calls : e.live /\ e.kind \in Ending(panel.busy)
    BY DEF ComposerInv, PanelWaits
  <2>2. CASE e = c
    <3>1. panel.busy = "save"
      BY <1>1, <1>2, <2>1, <2>2 DEF Ending, Typed, Panels
    <3>2. QED BY <1>3, <2>1, <2>2, <3>1 DEF Ending
  <2>3. CASE e # c
    BY <1>3, <2>1, <2>3
  <2>4. QED BY <2>2, <2>3
<1>6. StatusWaits'
  BY <1>3 DEF StatusWaits
<1>7. QED BY <1>4, <1>5, <1>6 DEF ComposerInv

LEMMA BacktestArrivesWaits ==
  ASSUME ComposerInv, NEW c \in calls, BacktestArrives(c), UNCHANGED user
  PROVE  ComposerInv'
<1>1. /\ c.kind = "backtest" /\ Continues(c, "refresh")
      /\ UNCHANGED <<store, draft, status, ids, panel>>
  BY DEF BacktestArrives
<1>2. Typed /\ c.draft \in Drafts
  BY <1>1 DEF ComposerInv, Typed, CallOk
<1>3. PICK d \in Calls : /\ calls' = (calls \ {c}) \union {d} /\ CallOk(d)
                         /\ d.kind = "refresh" /\ d.live = c.live
  BY <1>1, <1>2, ContinuesIs DEF Kinds
<1>4. Typed'
  BY <1>1, <1>2, <1>3 DEF Typed
<1>5. PanelWaits'
  <2> SUFFICES ASSUME panel.busy # "none"
               PROVE  \E e \in calls' : e.live /\ e.kind \in Ending(panel.busy)
    BY <1>1 DEF PanelWaits
  <2>1. PICK e \in calls : e.live /\ e.kind \in Ending(panel.busy)
    BY DEF ComposerInv, PanelWaits
  <2>2. CASE e = c
    <3>1. panel.busy = "backtest"
      BY <1>1, <1>2, <2>1, <2>2 DEF Ending, Typed, Panels
    <3>2. QED BY <1>3, <2>1, <2>2, <3>1 DEF Ending
  <2>3. CASE e # c
    BY <1>3, <2>1, <2>3
  <2>4. QED BY <2>2, <2>3
<1>6. StatusWaits'
  <2> SUFFICES ASSUME status = "loading"
               PROVE  \E e \in calls' : e.kind \in {"reload", "reloadAfterSave"}
    BY <1>1 DEF StatusWaits
  <2>1. PICK e \in calls : e.kind \in {"reload", "reloadAfterSave"}
    BY DEF ComposerInv, StatusWaits
  <2>2. QED BY <1>1, <1>3, <2>1
<1>7. QED BY <1>4, <1>5, <1>6 DEF ComposerInv

LEMMA ReloadAfterSaveArrivesWaits ==
  ASSUME ComposerInv, NEW c \in calls, ReloadAfterSaveArrives(c), UNCHANGED user
  PROVE  ComposerInv'
<1>1. /\ c.kind = "reloadAfterSave" /\ Ends(c) /\ UNCHANGED store
      /\ Applied(c.state) /\ Local(c, Done(Told(c, panel)))
  BY DEF ReloadAfterSaveArrives
<1>2. panel \in Panels /\ c.draft \in Nothing /\ c.state \in ConfigStates
  BY <1>1 DEF ComposerInv, Typed, CallOk, Calls, Nothing
<1>3. Done(Told(c, panel)) \in Panels /\ Done(Told(c, panel)).busy = "none"
  BY <1>2, PanelSetters
<1>4. panel' \in Panels /\ (panel'.busy = "none" \/ (panel' = panel /\ ~ c.live))
  BY <1>1, <1>2, <1>3 DEF Local
<1>5. /\ draft' \in Nothing /\ ids' \subseteq ExperimentIds
      /\ status' \in {"ready", "empty", "error"} /\ (status' = "ready" => draft' # NoDraft)
  BY <1>1, <1>2, AppliedIs
<1>6. QED BY <1>1, <1>4, <1>5, EndedWaits

LEMMA RefreshArrivesWaits ==
  ASSUME ComposerInv, NEW c \in calls, RefreshArrives(c), UNCHANGED user
  PROVE  ComposerInv'
<1>1. /\ c.kind = "refresh" /\ panel' = [Fresh EXCEPT !.on = FALSE]
      /\ calls' = {[d EXCEPT !.live = FALSE] : d \in calls \ {c}}
      /\ UNCHANGED <<store, draft, status, ids>>
  BY DEF RefreshArrives
<1>2. PICK rest \in SUBSET calls : rest = calls \ {c}
  OBVIOUS
<1>3. QED BY <1>1, <1>2, PanelGone

LEMMA FailWaits ==
  ASSUME ComposerInv, NEW c \in calls, Fail(c), UNCHANGED user
  PROVE  ComposerInv'
<1>1. /\ Ends(c) /\ UNCHANGED <<store, draft, ids>>
      /\ Local(c, IF c.kind \in {"reload", "select"} THEN panel
                  ELSE IF c.kind = "reloadAfterSave" THEN Done(Told(c, panel)) ELSE Done(panel))
      /\ status' = IF c.kind \in {"reload", "reloadAfterSave"} THEN "error" ELSE status
  BY DEF Fail
<1>2. Typed /\ CallOk(c) /\ panel \in Panels
  BY DEF ComposerInv, Typed
<1>3. /\ draft' \in Nothing /\ ids' \subseteq ExperimentIds
      /\ status' \in {"ready", "empty", "error"} \/ (status' = status /\ c.kind \notin {"reload", "reloadAfterSave"})
      /\ status' = "ready" => draft' # NoDraft
  BY <1>1, <1>2 DEF Typed
<1>4. CASE c.kind \in {"reload", "select"}
  <2>1. \A busy \in {"validate", "serialize", "save", "backtest"} : c.kind \notin Ending(busy)
    BY <1>4 DEF Ending
  <2>2. panel' = panel
    BY <1>1, <1>4 DEF Local
  <2>3. QED BY <1>1, <1>2, <1>3, <2>1, <2>2, EndedWaits
<1>5. CASE c.kind \notin {"reload", "select"}
  <2>1. c.draft \in Nothing
    BY <1>2, <1>5 DEF CallOk, Nothing
  <2>2. PICK p \in {Done(Told(c, panel)), Done(panel)} : panel' = IF c.live THEN p ELSE panel
    BY <1>1, <1>5 DEF Local
  <2>3. p \in Panels /\ p.busy = "none"
    BY <1>2, <2>1, <2>2, PanelSetters
  <2>4. panel' \in Panels /\ (panel'.busy = "none" \/ (panel' = panel /\ ~ c.live))
    BY <1>2, <2>2, <2>3
  <2>5. QED BY <1>1, <1>3, <2>4, EndedWaits
<1>6. QED BY <1>4, <1>5

(* ---- the theorems ---------------------------------------------------- *)
LEMMA StepKeeps == ComposerInv /\ [Next]_vars => ComposerInv'
<1> SUFFICES ASSUME ComposerInv, [Next]_vars PROVE ComposerInv'
  OBVIOUS
<1>1. CASE UNCHANGED vars
  BY <1>1 DEF vars, ComposerInv, Typed, PanelWaits, StatusWaits
<1>2. CASE User /\ UNCHANGED user
  BY <1>2, EditWaits, ActWaits, SelectSavedWaits, CreateNewWaits, LeaveWaits, ReturnWaits DEF User
<1>3. ASSUME NEW c \in calls, Arrive(c), UNCHANGED user
      PROVE  ComposerInv'
  BY <1>3, ConfigArrivesWaits, VerdictArrivesWaits, RefusedWaits, SaveArrivesWaits,
     BacktestArrivesWaits, ReloadAfterSaveArrivesWaits, RefreshArrivesWaits DEF Arrive
<1>4. CASE Api /\ UNCHANGED user
  BY <1>3, <1>4, ServeWaits, FailWaits DEF Api
<1>5. QED BY <1>1, <1>2, <1>4 DEF Next

LEMMA WaitsFromInv == ComposerInv => WaitsForACall
<1> SUFFICES ASSUME ComposerInv PROVE WaitsForACall
  OBVIOUS
<1>1. TypeOK
  BY DEF ComposerInv, Typed, TypeOK, Nothing, Stores, Panels, CallOk, Calls
<1>2. QED BY <1>1 DEF ComposerInv, PanelWaits, StatusWaits, WaitsForACall

LEMMA AlwaysComposer == Spec => []ComposerInv
  BY InitComposer, StepKeeps, PTL DEF Spec

(* Every button that shows work under way, and "Loading saved strategy       *)
(* config", has a call in flight that will end it: whichever call failed,    *)
(* whenever the tab was left, whatever config was selected meanwhile.        *)
THEOREM AlwaysWaitsForACall == Spec => []WaitsForACall
  BY AlwaysComposer, WaitsFromInv, PTL

\* One served save or backtest (POST /research/config, /backtest).
LEMMA ServedComesBack ==
  ASSUME ComposerInv, NEW c \in calls, c.kind \in {"save", "backtest"}, Valid(c.draft), Serve(c)
  PROVE  State(store').draft = c.draft
<1>1. Typed /\ store \in Stores /\ c.draft \in Drafts
  BY DEF ComposerInv, Typed, CallOk
<1>2. store' = Saved(store, c.draft)
  BY <1>1, ServeIs
<1>3. QED BY <1>1, <1>2, SavedIs

(* What a save or a backtest leaves is read back as the selected config,     *)
(* whatever files the directory held: one under the same name with another  *)
(* id, or one written by hand with the same id.                              *)
THEOREM SavedConfigComesBack == Spec => SavedComesBack
<1>1. ComposerInv /\ [Next]_vars
      => [\A c \in calls : c.kind \in {"save", "backtest"} /\ Valid(c.draft) /\ Serve(c)
           => State(store').draft = c.draft]_vars
  BY ServedComesBack
<1>2. QED BY <1>1, AlwaysComposer, PTL DEF Spec, SavedComesBack

(***************************************************************************)
(* The second invariant: what a patient user is shown is true.              *)
(***************************************************************************)

\* Some file holds the draft.
Filed(d) == \E i \in DOMAIN store.files : store.files[i].draft = d

\* A call the panel on the screen made about its draft.
Own(c) == c.live /\ c.kind \notin {"reload", "select"}

\* Such a call is about the draft shown; beside any other nothing is said.
\* A save that was served is the config the server would answer with.
CallIsTrue(c) ==
  /\ Own(c) => c.draft = draft
  /\ ~ Own(c) => panel.verdict = "none" /\ ~ panel.message
  /\ c.kind \notin {"reload", "select"} => Normal(c.draft) = c.draft
  /\ c.kind = "save" /\ c.answered /\ c.ok => State(store).draft = c.draft
  /\ c.kind = "reloadAfterSave" =>
       /\ State(store).draft = c.draft
       /\ c.answered => c.state.draft = c.draft

Shown ==
  /\ Normal(draft) = draft
  /\ panel.verdict # "none" => panel.about = draft /\ draft # NoDraft
  /\ panel.message => panel.said = draft /\ draft # NoDraft /\ Filed(draft)

Truth ==
  /\ Shown
  /\ \A c, d \in calls : c = d
  /\ \A c \in calls : CallIsTrue(c)

PatientInv == user.patient => Truth

\* The verdict and the message of one panel are those of the other.
Says(p, q) ==
  /\ p.verdict = q.verdict /\ p.about = q.about
  /\ p.message = q.message /\ p.said = q.said

LEMMA SettersSay ==
  ASSUME NEW p \in Panels, NEW c
  PROVE  /\ Says(Done(p), p)
         /\ Says([p EXCEPT !.preview = FALSE], p) /\ Says([p EXCEPT !.preview = TRUE], p)
  BY DEF Says, Done, Panels

LEMMA DoneSays ==
  ASSUME NEW p \in Panels, NEW c
  PROVE  /\ Done(Told(c, p)).said = c.draft
         /\ Done(Told(c, p)).verdict = p.verdict /\ Done(Told(c, p)).about = p.about
         /\ \A v \in {"ok", "bad"} :
              /\ Done(Ruled(c, p, v)).about = c.draft
              /\ Done(Ruled(c, p, v)).message = p.message /\ Done(Ruled(c, p, v)).said = p.said
  BY DEF Done, Told, Ruled, Panels

LEMMA NoCallIsTrue ==
  ASSUME Shown', calls' = {}
  PROVE  Truth'
  BY DEF Truth

LEMMA OneCallIsTrue ==
  ASSUME Shown', NEW d, calls' = {d}, CallIsTrue(d)'
  PROVE  Truth'
  BY DEF Truth

\* The draft of a file that answers for a config is in the directory.
LEMMA StateIsFiled ==
  ASSUME Typed, NEW d, State(store).draft = d, d # NoDraft
  PROVE  Filed(d)
  BY StateIs DEF Typed, Filed

LEMMA InitTrue == Init => PatientInv
<1> SUFFICES ASSUME Init PROVE Truth
  BY DEF PatientInv
<1>1. draft = NoDraft /\ panel = Fresh /\ calls = {Send("reload", NoDraft)}
  BY DEF Init
<1>2. panel.verdict = "none" /\ panel.message = FALSE
  BY <1>1 DEF Fresh
<1>3. Send("reload", NoDraft).kind = "reload"
  BY DEF Send
<1>4. CallIsTrue(Send("reload", NoDraft))
  BY <1>2, <1>3 DEF CallIsTrue, Own
<1>5. Shown
  BY <1>1, <1>2 DEF Shown, Normal
<1>6. QED BY <1>1, <1>4, <1>5 DEF Truth

(* ---- the user -------------------------------------------------------- *)
LEMMA EditTrue ==
  ASSUME Typed, Truth, user.patient, NEW d \in user.edits, Edit(d)
  PROVE  Truth'
<1>1. /\ calls = {} /\ calls' = calls /\ draft' = d /\ Normal(d) = d /\ panel' = Patched(panel)
  BY DEF Edit, Editing, Open
<1>2. panel'.verdict = "none" /\ panel'.message = FALSE
  BY <1>1 DEF Typed, Panels, Patched
<1>3. Shown'
  BY <1>1, <1>2 DEF Shown
<1>4. QED BY <1>1, <1>3, NoCallIsTrue

LEMMA ActTrue ==
  ASSUME Typed, Truth, user.patient, NEW kind \in {"validate", "serialize", "save", "backtest"},
         Act(kind)
  PROVE  Truth'
<1>1. calls = {} /\ draft # NoDraft /\ panel \in Panels /\ UNCHANGED <<store, draft>>
  BY DEF Act, Editing, Open, Typed
<1>2. /\ Busy(kind) \in Panels
      /\ Busy(kind).verdict = panel.verdict /\ Busy(kind).about = panel.about
      /\ Busy(kind).said = panel.said /\ (Busy(kind).message => panel.message)
  BY <1>1 DEF Busy, Panels
<1>3. CASE Blocked(draft.body)
  <2>1. PICK p \in BOOLEAN : panel' = Rejected([Busy(kind) EXCEPT !.preview = p]) /\ calls' = calls
    <3>1. Busy(kind).preview \in BOOLEAN
      BY <1>2 DEF Panels
    <3>2. QED BY <1>3, <3>1 DEF Act
  <2>2. /\ panel'.about = draft /\ panel'.said = panel.said
        /\ panel'.message => panel.message
    BY <1>2, <2>1 DEF Rejected, Panels
  <2>3. Shown'
    BY <1>1, <2>2 DEF Shown, Truth, Filed
  <2>4. QED BY <1>1, <2>1, <2>3, NoCallIsTrue
<1>4. CASE ~ Blocked(draft.body)
  <2>1. panel' = Busy(kind) /\ calls' = {Send(kind, draft)}
    BY <1>1, <1>4 DEF Act, Issue
  <2>2. Shown'
    BY <1>1, <1>2, <2>1 DEF Shown, Truth, Filed
  <2>3. PICK c : c = Send(kind, draft)
    OBVIOUS
  <2>4. c.kind = kind /\ c.draft = draft /\ c.live = TRUE /\ c.answered = FALSE
    BY <2>3 DEF Send
  <2>5. calls' = {c}
    BY <2>1, <2>3
  <2>6. draft' = draft /\ Normal(draft) = draft
    BY <1>1 DEF Truth, Shown
  <2>7. CallIsTrue(c)'
    BY <2>4, <2>6 DEF CallIsTrue, Own
  <2>8. QED BY <2>2, <2>5, <2>7, OneCallIsTrue
<1>5. QED BY <1>3, <1>4

LEMMA SelectSavedTrue ==
  ASSUME Typed, Truth, user.patient, NEW id \in ExperimentIds, SelectSaved(id)
  PROVE  Truth'
<1>1. /\ calls = {} /\ calls' = {Send("select", [id |-> id])} /\ draft' = draft
      /\ panel' = IF draft = NoDraft THEN panel ELSE [panel EXCEPT !.verdict = "none", !.message = FALSE]
  BY DEF SelectSaved, Open, Issue
<1>2. panel'.verdict = "none" /\ ~ panel'.message
  BY <1>1 DEF Truth, Shown, Typed, Panels
<1>3. Shown'
  BY <1>1, <1>2 DEF Truth, Shown
<1> DEFINE c == Send("select", [id |-> id])
<1>4. c.kind = "select"
  BY DEF Send
<1>5. calls' = {c}
  BY <1>1
<1> HIDE DEF c
<1>6. CallIsTrue(c)'
  BY <1>2, <1>4 DEF CallIsTrue, Own
<1>7. QED BY <1>3, <1>5, <1>6, OneCallIsTrue

LEMMA CreateNewTrue ==
  ASSUME Typed, Truth, user.patient, CreateNew
  PROVE  Truth'
<1>1. /\ calls = {} /\ draft = NoDraft /\ draft' = Normal(Blank) /\ UNCHANGED <<panel, calls>>
  BY DEF CreateNew, Open
<1>2. panel.verdict = "none" /\ ~ panel.message
  BY <1>1 DEF Truth, Shown
<1>3. Normal(draft') = draft'
  BY <1>1, NormalIs, ComposerAssumption DEF ComposerAssumption, Nothing
<1>4. Shown'
  BY <1>1, <1>2, <1>3 DEF Shown
<1>5. QED BY <1>1, <1>4, NoCallIsTrue

\* The panel goes away, with what it said; its calls go on.
LEMMA PanelGoneTrue ==
  ASSUME Typed, Truth, NEW rest \in SUBSET calls,
         panel' = [Fresh EXCEPT !.on = FALSE], calls' = {[c EXCEPT !.live = FALSE] : c \in rest},
         UNCHANGED <<store, draft>>
  PROVE  Truth'
<1>1. panel'.verdict = "none" /\ panel'.message = FALSE
  BY DEF Fresh
<1>2. Shown'
  BY <1>1 DEF Truth, Shown
<1>3. \A e \in calls' : CallIsTrue(e)'
  <2> SUFFICES ASSUME NEW c \in rest, NEW e, e = [c EXCEPT !.live = FALSE]
               PROVE  CallIsTrue(e)'
    OBVIOUS
  <2>1. c \in Calls /\ CallIsTrue(c)
    BY DEF Typed, Truth, CallOk
  <2>2. /\ e.live = FALSE /\ e.kind = c.kind /\ e.draft = c.draft /\ e.answered = c.answered
        /\ e.ok = c.ok /\ e.state = c.state
    BY <2>1 DEF Calls
  <2>3. QED BY <1>1, <2>1, <2>2 DEF CallIsTrue, Own
<1>4. \A e, f \in calls' : e = f
  <2>1. \A c, d \in rest : c = d
    BY DEF Truth
  <2>2. QED BY <2>1, Zenon
<1>5. QED BY <1>2, <1>3, <1>4 DEF Truth

LEMMA LeaveTrue ==
  ASSUME Typed, Truth, Leave
  PROVE  Truth'
  BY PanelGoneTrue DEF Leave

LEMMA ReturnTrue ==
  ASSUME Typed, Truth, Return
  PROVE  Truth'
<1>1. panel' = Fresh /\ UNCHANGED <<store, draft, calls>>
  BY DEF Return
<1>2. panel'.verdict = "none" /\ panel'.message = FALSE
  BY <1>1 DEF Fresh
<1>3. Shown'
  BY <1>1, <1>2 DEF Truth, Shown
<1>4. \A c \in calls : CallIsTrue(c)'
  BY <1>1, <1>2 DEF Truth, CallIsTrue
<1>5. QED BY <1>1, <1>3, <1>4 DEF Truth

(* ---- the research API ------------------------------------------------ *)
LEMMA ServeTrue ==
  ASSUME Typed, Truth, NEW c \in calls, Serve(c)
  PROVE  Truth'
<1>1. PICK ok \in BOOLEAN :
        /\ calls' = (calls \ {c}) \union {[c EXCEPT !.answered = TRUE, !.ok = ok, !.state = State(store')]}
        /\ c.kind \in {"save", "backtest"} => ok = Valid(c.draft)
  BY ServeIs
<1>2. /\ UNCHANGED <<draft, panel>> /\ store' \in Stores
      /\ c.kind \notin {"select", "save", "backtest"} => store' = store
      /\ c.kind = "select" => store'.files = store.files
      /\ c.kind \in {"save", "backtest"} => store' = Saved(store, c.draft)
  BY ServeIs
<1>3. CallOk(c) /\ CallIsTrue(c) /\ store \in Stores /\ calls = {c}
  BY DEF Typed, Truth
<1>a. PICK a : a = [c EXCEPT !.answered = TRUE, !.ok = ok, !.state = State(store')]
  OBVIOUS
<1>4. /\ a.kind = c.kind /\ a.live = c.live /\ a.draft = c.draft
      /\ a.ok = ok /\ a.state = State(store')
  BY <1>3, <1>a DEF CallOk, Calls
<1>5. calls' = {a}
  BY <1>1, <1>3, <1>a, Zenon
<1>6. c.kind \in {"save", "backtest"} /\ Valid(c.draft) => State(store').draft = c.draft
  BY <1>2, <1>3, SavedIs DEF CallOk
<1>7. CallIsTrue(a)'
  <2>1. Own(a)' => a.draft = draft'
    BY <1>2, <1>3, <1>4 DEF CallIsTrue, Own
  <2>2. ~ Own(a)' => panel'.verdict = "none" /\ ~ panel'.message
    BY <1>2, <1>3, <1>4 DEF CallIsTrue, Own
  <2>3. a.kind \notin {"reload", "select"} => Normal(a.draft) = a.draft
    BY <1>3, <1>4 DEF CallIsTrue
  <2>4. a.kind = "save" /\ a.ok => State(store').draft = a.draft
    BY <1>1, <1>4, <1>6
  <2>5. a.kind = "reloadAfterSave" => State(store').draft = a.draft /\ a.state.draft = a.draft
    BY <1>2, <1>3, <1>4 DEF CallIsTrue
  <2>6. QED BY <2>1, <2>2, <2>3, <2>4, <2>5 DEF CallIsTrue
<1>8. Shown'
  <2>1. Filed(draft) => Filed(draft)' \/ ~ Own(c)
    <3> SUFFICES ASSUME Filed(draft), Own(c) PROVE Filed(draft)'
      OBVIOUS
    <3>1. c.draft = draft
      BY <1>3 DEF CallIsTrue
    <3>2. CASE store' = store
      BY <1>2, <3>2 DEF Filed
    <3>3. CASE c.kind \in {"save", "backtest"} /\ ~ Valid(c.draft)
      BY <1>2, <3>2, <3>3 DEF Saved
    <3>4. CASE c.kind \in {"save", "backtest"} /\ Valid(c.draft)
      <4>1. State(store').draft = c.draft /\ c.draft # NoDraft
        BY <1>3, <1>6, <3>4, ComposerAssumption DEF CallOk, ComposerAssumption
      <4>2. \E i \in DOMAIN store'.files : store'.files[i].draft = State(store').draft
        BY <1>2, <4>1, StateIs
      <4>3. QED BY <1>2, <3>1, <4>1, <4>2 DEF Filed
    <3>5. QED BY <1>2, <3>2, <3>3, <3>4 DEF Own
  <2>2. panel.message => Own(c)
    BY <1>3 DEF CallIsTrue
  <2>3. QED BY <1>2, <2>1, <2>2 DEF Truth, Shown
<1>9. QED BY <1>5, <1>7, <1>8, OneCallIsTrue

(* ---- answers --------------------------------------------------------- *)
LEMMA EndedCalls ==
  ASSUME Truth, NEW c \in calls
  PROVE  /\ calls = {c} /\ Shown /\ CallIsTrue(c)
         /\ Ends(c) => calls' = {}
  BY DEF Truth, Ends

LEMMA ConfigArrivesTrue ==
  ASSUME Typed, Truth, NEW c \in calls, ConfigArrives(c)
  PROVE  Truth'
<1>1. /\ c.kind \in {"reload", "select"} /\ Ends(c) /\ UNCHANGED panel
      /\ (draft' = Normal(c.state.draft) \/ draft' = draft)
  BY DEF ConfigArrives, Applied
<1>2. panel'.verdict = "none" /\ ~ panel'.message /\ calls' = {} /\ Normal(draft) = draft
  BY <1>1, EndedCalls DEF CallIsTrue, Own, Shown
<1>3. c.state.draft \in Nothing
  BY DEF Typed, CallOk, Calls, ConfigStates
<1>4. Normal(draft') = draft'
  BY <1>1, <1>2, <1>3, NormalIs
<1>5. Shown'
  BY <1>2, <1>4 DEF Shown
<1>6. QED BY <1>2, <1>5, NoCallIsTrue

\* An answer about the draft shown, that keeps the verdict or gives a new one.
LEMMA PanelAnsweredTrue ==
  ASSUME Typed, Truth, NEW c \in calls, Ends(c), c.kind \notin {"reload", "select"},
         NEW p, Local(c, p), UNCHANGED <<store, draft>>,
         \/ p.verdict = panel.verdict /\ p.about = panel.about
         \/ p.about = c.draft,
         p.message = panel.message, p.said = panel.said
  PROVE  Truth'
<1>1. calls' = {} /\ CallIsTrue(c) /\ Shown /\ CallOk(c)
  BY EndedCalls DEF Typed
<1>2. CASE ~ c.live
  <2>1. panel' = panel
    BY <1>2 DEF Local
  <2>2. Shown'
    BY <1>1, <2>1 DEF Shown, Filed
  <2>3. QED BY <1>1, <2>2, NoCallIsTrue
<1>3. CASE c.live
  <2>1. panel' = p /\ c.draft = draft /\ draft # NoDraft
    BY <1>1, <1>3, ComposerAssumption DEF Local, CallIsTrue, Own, CallOk, ComposerAssumption
  <2>2. Shown'
    BY <1>1, <2>1 DEF Shown, Filed
  <2>3. QED BY <1>1, <2>2, NoCallIsTrue
<1>4. QED BY <1>2, <1>3 DEF Typed, CallOk, Calls

LEMMA VerdictArrivesTrue ==
  ASSUME Typed, Truth, NEW c \in calls, VerdictArrives(c)
  PROVE  Truth'
<1>1. /\ c.kind \in {"validate", "serialize"} /\ Ends(c) /\ UNCHANGED <<store, draft>>
      /\ Local(c, IF c.kind = "validate"
                  THEN Done(Ruled(c, IF c.ok THEN panel ELSE [panel EXCEPT !.preview = FALSE],
                                  IF c.ok THEN "ok" ELSE "bad"))
                  ELSE IF c.ok THEN Done([panel EXCEPT !.preview = TRUE])
                  ELSE Done(Ruled(c, [panel EXCEPT !.preview = FALSE], "bad")))
  BY DEF VerdictArrives
<1>2. PICK p : /\ Local(c, p)
               /\ p \in {Done(Ruled(c, panel, "ok")), Done(Ruled(c, [panel EXCEPT !.preview = FALSE], "bad")),
                         Done([panel EXCEPT !.preview = TRUE])}
  BY <1>1
<1>3. panel \in Panels /\ c.draft \in Nothing
  BY <1>1 DEF Typed, CallOk, Nothing
<1>4. /\ p.message = panel.message /\ p.said = panel.said
      /\ (p.verdict = panel.verdict /\ p.about = panel.about) \/ p.about = c.draft
  <2>1. CASE p = Done(Ruled(c, panel, "ok"))
    BY <1>3, <2>1, DoneSays
  <2>2. CASE p = Done(Ruled(c, [panel EXCEPT !.preview = FALSE], "bad"))
    <3>1. PICK q : q = [panel EXCEPT !.preview = FALSE]
      OBVIOUS
    <3>2. q \in Panels /\ Says(q, panel)
      BY <1>3, <3>1, PanelSetters, SettersSay
    <3>3. p = Done(Ruled(c, q, "bad"))
      BY <2>2, <3>1
    <3>4. QED BY <3>2, <3>3, DoneSays DEF Says
  <2>3. CASE p = Done([panel EXCEPT !.preview = TRUE])
    BY <1>3, <2>3 DEF Done, Panels
  <2>4. QED BY <1>2, <2>1, <2>2, <2>3
<1>5. QED BY <1>1, <1>2, <1>4, PanelAnsweredTrue

LEMMA RefusedTrue ==
  ASSUME Typed, Truth, NEW c \in calls, Refused(c)
  PROVE  Truth'
<1>1. /\ c.kind \in {"save", "backtest"} /\ Ends(c) /\ Local(c, Done(Ruled(c, panel, "bad")))
      /\ UNCHANGED <<store, draft>>
  BY DEF Refused
<1>2. panel \in Panels /\ c.draft \in Nothing
  BY <1>1 DEF Typed, CallOk, Nothing
<1>3. PICK p : p = Done(Ruled(c, panel, "bad"))
  OBVIOUS
<1>4. p.message = panel.message /\ p.said = panel.said /\ p.about = c.draft
  BY <1>2, <1>3, DoneSays
<1>5. QED BY <1>1, <1>3, <1>4, PanelAnsweredTrue

\* The second request is about the same draft, and speaks for the same panel.
LEMMA ContinuesTrue ==
  ASSUME Typed, Truth, NEW c \in calls, NEW kind \in {"reloadAfterSave", "refresh"},
         c.kind \in {"save", "backtest"}, Continues(c, kind),
         kind = "reloadAfterSave" => State(store).draft = c.draft,
         UNCHANGED <<store, draft, panel>>
  PROVE  Truth'
<1>1. calls = {c} /\ Shown /\ CallIsTrue(c) /\ c.draft \in Drafts /\ kind \in Kinds
  BY EndedCalls DEF Typed, CallOk, Kinds
<1>2. PICK d \in Calls : /\ calls' = (calls \ {c}) \union {d}
                         /\ d.kind = kind /\ d.live = c.live /\ d.draft = c.draft /\ ~ d.answered
  BY <1>1, ContinuesIs
<1>3. calls' = {d}
  BY <1>1, <1>2
<1>4. CallIsTrue(d)'
  BY <1>1, <1>2 DEF CallIsTrue, Own
<1>5. Shown'
  BY <1>1 DEF Shown, Filed
<1>6. QED BY <1>3, <1>4, <1>5, OneCallIsTrue

LEMMA SaveArrivesTrue ==
  ASSUME Typed, Truth, NEW c \in calls, c.answered, SaveArrives(c)
  PROVE  Truth'
<1>1. c.kind = "save" /\ c.ok /\ Continues(c, "reloadAfterSave") /\ UNCHANGED <<store, draft, panel>>
  BY DEF SaveArrives
<1>2. State(store).draft = c.draft
  BY <1>1, EndedCalls DEF CallIsTrue
<1>3. QED BY <1>1, <1>2, ContinuesTrue

LEMMA BacktestArrivesTrue ==
  ASSUME Typed, Truth, NEW c \in calls, BacktestArrives(c)
  PROVE  Truth'
  BY ContinuesTrue DEF BacktestArrives

\* "Saved to ..." is said of the draft shown, and the draft is in the directory.
LEMMA ToldTrue ==
  ASSUME Typed, Truth, NEW c \in calls, c.kind = "reloadAfterSave", Ends(c),
         Local(c, Done(Told(c, panel))), store' = store,
         draft' = draft \/ draft' = Normal(c.draft)
  PROVE  Truth'
<1>1. calls' = {} /\ CallIsTrue(c) /\ Shown /\ c.draft \in Drafts /\ panel \in Panels
  BY EndedCalls DEF Typed, CallOk
<1>2. Normal(c.draft) = c.draft /\ State(store).draft = c.draft
  BY <1>1 DEF CallIsTrue
<1>3. CASE ~ c.live
  <2>1. panel' = panel /\ panel.verdict = "none" /\ ~ panel.message
    BY <1>1, <1>3 DEF Local, CallIsTrue, Own
  <2>2. Normal(draft') = draft'
    BY <1>1, <1>2 DEF Shown
  <2>3. Shown'
    BY <2>1, <2>2 DEF Shown
  <2>4. QED BY <1>1, <2>3, NoCallIsTrue
<1>4. CASE c.live
  <2>1. c.draft = draft /\ draft' = draft /\ draft # NoDraft
    BY <1>1, <1>2, <1>4, ComposerAssumption DEF CallIsTrue, Own, ComposerAssumption
  <2>2. Filed(draft)
    BY <1>2, <2>1, StateIsFiled
  <2>3. /\ panel'.said = draft /\ panel'.verdict = panel.verdict /\ panel'.about = panel.about
    <3>1. panel' = Done(Told(c, panel))
      BY <1>4 DEF Local
    <3>2. QED BY <1>1, <2>1, <3>1, DoneSays
  <2>4. Shown'
    BY <1>1, <2>1, <2>2, <2>3 DEF Shown, Filed
  <2>5. QED BY <1>1, <2>4, NoCallIsTrue
<1>5. QED BY <1>3, <1>4 DEF Typed, CallOk, Calls

LEMMA ReloadAfterSaveArrivesTrue ==
  ASSUME Typed, Truth, NEW c \in calls, c.answered, ReloadAfterSaveArrives(c)
  PROVE  Truth'
<1>1. /\ c.kind = "reloadAfterSave" /\ Ends(c) /\ store' = store
      /\ draft' = Normal(c.state.draft) /\ Local(c, Done(Told(c, panel)))
  BY DEF ReloadAfterSaveArrives, Applied
<1>2. c.state.draft = c.draft
  BY <1>1, EndedCalls DEF CallIsTrue
<1>3. QED BY <1>1, <1>2, ToldTrue

LEMMA RefreshArrivesTrue ==
  ASSUME Typed, Truth, NEW c \in calls, RefreshArrives(c)
  PROVE  Truth'
<1>1. /\ panel' = [Fresh EXCEPT !.on = FALSE] /\ UNCHANGED <<store, draft>>
      /\ calls' = {[d EXCEPT !.live = FALSE] : d \in calls \ {c}}
  BY DEF RefreshArrives
<1>2. PICK rest \in SUBSET calls : rest = calls \ {c}
  OBVIOUS
<1>3. QED BY <1>1, <1>2, PanelGoneTrue

LEMMA FailTrue ==
  ASSUME Typed, Truth, NEW c \in calls, Fail(c)
  PROVE  Truth'
<1>1. /\ Ends(c) /\ UNCHANGED <<store, draft>>
      /\ Local(c, IF c.kind \in {"reload", "select"} THEN panel
                  ELSE IF c.kind = "reloadAfterSave" THEN Done(Told(c, panel)) ELSE Done(panel))
  BY DEF Fail
<1>2. CASE c.kind \in {"reload", "select"}
  <2>1. panel' = panel /\ calls' = {} /\ Shown
    BY <1>1, <1>2, EndedCalls DEF Local
  <2>2. Shown'
    BY <1>1, <2>1 DEF Shown, Filed
  <2>3. QED BY <2>1, <2>2, NoCallIsTrue
<1>3. CASE c.kind = "reloadAfterSave"
  BY <1>1, <1>3, ToldTrue
<1>4. CASE c.kind \notin {"reload", "select", "reloadAfterSave"}
  <2>1. PICK p : p = Done(panel) /\ Local(c, p)
    BY <1>1, <1>4
  <2>2. Says(p, panel)
    BY <2>1, SettersSay DEF Typed
  <2>3. QED BY <1>1, <1>4, <2>1, <2>2, PanelAnsweredTrue DEF Says
<1>5. QED BY <1>2, <1>3, <1>4

LEMMA StepTrue == ComposerInv /\ PatientInv /\ [Next]_vars => PatientInv'
<1> SUFFICES ASSUME Typed, Truth, user.patient, [Next]_vars PROVE Truth'
  <2>1. [Next]_vars => user' = user
    BY DEF Next, vars
  <2>2. QED BY <2>1 DEF PatientInv, ComposerInv
<1>1. CASE UNCHANGED vars
  BY <1>1 DEF vars, Truth, Shown, CallIsTrue, Own, Filed
<1>2. CASE User
  BY <1>2, EditTrue, ActTrue, SelectSavedTrue, CreateNewTrue, LeaveTrue, ReturnTrue DEF User
<1>3. ASSUME NEW c \in calls, Arrive(c)
      PROVE  Truth'
  BY <1>3, ConfigArrivesTrue, VerdictArrivesTrue, RefusedTrue, SaveArrivesTrue,
     BacktestArrivesTrue, ReloadAfterSaveArrivesTrue, RefreshArrivesTrue DEF Arrive
<1>4. CASE Api
  BY <1>3, <1>4, ServeTrue, FailTrue DEF Api
<1>5. QED BY <1>1, <1>2, <1>4 DEF Next

LEMMA TruthIsTold == PatientInv => PatientIsToldTheTruth
  BY DEF PatientInv, Truth, Shown, Filed, PatientIsToldTheTruth

(* Who waits for each answer is told the truth, even if he leaves the tab    *)
(* with a call under way and comes back: a verdict is about the draft shown, *)
(* and "Saved to ..." is said of a draft that is shown and that a file holds. *)
THEOREM AlwaysToldTheTruth == Spec => []PatientIsToldTheTruth
  BY InitTrue, StepTrue, AlwaysComposer, TruthIsTold, PTL DEF Spec
=============================================================================
