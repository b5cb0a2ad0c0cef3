--------------------------- MODULE ComposerSession ---------------------------
(* Editing, checking, saving and running a strategy config: the config state  *)
(* of WorkbenchContext.tsx (it outlives the tab), the local state of          *)
(* ComposerPanel.tsx (lost when the tab is left), and the research API.  A    *)
(* call is served once, at any time after it was sent, and its answer arrives *)
(* at any time after that.  The answers of a panel that is gone still reach   *)
(* the context but no local state.  Drafts are kept as normalised for editing *)
(* at once: the effect that does it runs before the next event.               *)
EXTENDS ConfigStore, FiniteSets

CONSTANTS Bodies, ExperimentIds,
          Blocked(_),      \* bodies collectComposerDraftErrors reports errors for
          Editable(_),     \* normalizeConfigDraftForEditing, on bodies
          Blank,           \* the draft of createBlankConfigDraft
          MaxCalls,        \* bound on the calls in flight
          Users            \* who may be at the page: [store, edits, patient, leaves], the
                           \* configs found, the drafts made of them, whether he waits for
                           \* the calls in flight, whether he leaves the tab and returns

Drafts == [id : ExperimentIds, body : Bodies]
Stores == [files : Seq([name : STRING, draft : Drafts]), selected : ExperimentIds \union {NoId}]

\* The effect that normalises a draft runs again until it changes nothing.
ASSUME ComposerAssumption ==
  /\ NoDraft \notin Drafts /\ NoId \notin ExperimentIds /\ Blank \in Drafts
  /\ \A id \in ExperimentIds : FileName(id) \in STRING
  /\ \A body \in Bodies : /\ Loads(body) \in BOOLEAN
                          /\ Editable(body) \in Bodies
                          /\ Editable(Editable(body)) = Editable(body)
  /\ Users \subseteq [store : Stores, edits : SUBSET Drafts, patient : BOOLEAN, leaves : BOOLEAN]

VARIABLES user,       \* who is at the page, and never changes
          store,      \* the server's configs
          draft, status, ids,  \* configDraft, configLoadStatus, configList
          panel,      \* local state of the composer panel
          calls       \* calls in flight
vars == <<user, store, draft, status, ids, panel, calls>>

\* about, said: the draft that the verdict and the message are about; preview: whether
\* one is shown
Fresh == [on |-> TRUE, busy |-> "none", verdict |-> "none", about |-> NoDraft,
          message |-> FALSE, said |-> NoDraft, preview |-> FALSE]

Normal(d) == IF d = NoDraft THEN NoDraft ELSE [d EXCEPT !.body = Editable(@)]

Send(kind, d) == [kind |-> kind, draft |-> d, live |-> TRUE, answered |-> FALSE,
                  ok |-> FALSE, state |-> [ids |-> {}, draft |-> NoDraft]]

Issue(kind, d) == Cardinality(calls) < MaxCalls /\ calls' = calls \union {Send(kind, d)}

(* ---- user ------------------------------------------------------------ *)
Open == panel.on /\ status # "loading" /\ (user.patient => calls = {})
Editing == Open /\ draft # NoDraft

Patched_KeepsVerdict(p) == [p EXCEPT !.preview = FALSE, !.message = FALSE]

Patched(p) == [p EXCEPT !.verdict = "none", !.preview = FALSE, !.message = FALSE]

\* patchDraft, patchInstance, patchStrategy and everything that goes through them
Edit(d) ==
  /\ Editing /\ d # draft /\ Normal(d) = d
  /\ draft' = d /\ panel' = Patched(panel)
  /\ UNCHANGED <<store, status, ids, calls>>

Rejected(p) == [p EXCEPT !.verdict = "bad", !.about = draft, !.busy = "none"]

\* message is the one of a save; that of a backtest goes with the panel
Busy(kind) ==
  [panel EXCEPT !.busy = kind, !.message = IF kind \in {"validate", "save"} THEN FALSE ELSE @]

Act(kind) ==
  /\ Editing /\ panel.busy = "none"
  /\ kind \in {"save", "backtest"} => panel.verdict = "ok"
  /\ IF Blocked(draft.body)
     THEN /\ panel' = Rejected([Busy(kind) EXCEPT !.preview =
                        IF kind \in {"validate", "serialize"} THEN FALSE ELSE @])
          /\ UNCHANGED calls
     ELSE /\ panel' = Busy(kind) /\ Issue(kind, draft)
  /\ UNCHANGED <<store, draft, status, ids>>

SelectSaved(id) ==
  /\ Open /\ id \in ids /\ Issue("select", [id |-> id])
  /\ panel' = IF draft = NoDraft THEN panel ELSE [panel EXCEPT !.verdict = "none", !.message = FALSE]
  /\ UNCHANGED <<store, draft, status, ids>>

CreateNew ==
  /\ Open /\ draft = NoDraft
  /\ draft' = Normal(Blank) /\ status' = "ready"
  /\ UNCHANGED <<store, ids, panel, calls>>

Leave ==
  /\ user.leaves /\ panel.on
  /\ panel' = [Fresh EXCEPT !.on = FALSE]
  /\ calls' = {[c EXCEPT !.live = FALSE] : c \in calls}
  /\ UNCHANGED <<store, draft, status, ids>>

Return == ~ panel.on /\ panel' = Fresh /\ UNCHANGED <<store, draft, status, ids, calls>>

(* ---- server ---------------------------------------------------------- *)
Answer(c, ok) ==
  calls' = (calls \ {c}) \union {[c EXCEPT !.answered = TRUE, !.ok = ok,
                                           !.state = State(store')]}

Serve(c) ==
  /\ ~ c.answered /\ UNCHANGED <<draft, status, ids, panel>>
  /\ \/ /\ c.kind \in {"reload", "reloadAfterSave", "refresh"}
        /\ UNCHANGED store /\ Answer(c, TRUE)
     \/ /\ c.kind \in {"validate", "serialize"}
        /\ UNCHANGED store /\ Answer(c, Valid(c.draft))
     \/ /\ c.kind = "select"
        /\ store' = IF Exists(store, c.draft.id) THEN Selected(store, c.draft.id) ELSE store
        /\ Answer(c, Exists(store, c.draft.id))
     \/ /\ c.kind \in {"save", "backtest"}
        /\ store' = Saved(store, c.draft)
        /\ Answer(c, Valid(c.draft))

(* ---- answers --------------------------------------------------------- *)
Applied(s) ==
  /\ ids' = s.ids /\ draft' = Normal(s.draft)
  /\ status' = IF s.draft # NoDraft THEN "ready" ELSE IF s.ids = {} THEN "empty" ELSE "error"

Local_OnlyThatDraft(c, p) == panel' = IF c.live /\ c.draft = draft THEN p ELSE panel

Local(c, p) == panel' = IF c.live THEN p ELSE panel
Done(p) == [p EXCEPT !.busy = "none"]
Told(c, p) == [p EXCEPT !.message = TRUE, !.said = c.draft]
Ruled(c, p, v) == [p EXCEPT !.verdict = v, !.about = c.draft]

\* the answer of the first request of a call with two: the second one is sent
Continues(c, kind) ==
  calls' = (calls \ {c}) \union {[Send(kind, c.draft) EXCEPT !.live = c.live]}
Ends(c) == calls' = calls \ {c}

ConfigArrives(c) ==
  /\ c.kind \in {"reload", "select"} /\ Ends(c) /\ UNCHANGED <<store, panel>>
  /\ IF c.ok THEN Applied(c.state)
     ELSE /\ status' = IF c.kind = "reload" THEN "error" ELSE status
          /\ UNCHANGED <<draft, ids>>

VerdictArrives(c) ==
  /\ c.kind \in {"validate", "serialize"} /\ Ends(c)
  /\ Local(c, IF c.kind = "validate"
              THEN Done(Ruled(c, IF c.ok THEN panel ELSE [panel EXCEPT !.preview = FALSE],
                              IF c.ok THEN "ok" ELSE "bad"))
              ELSE IF c.ok THEN Done([panel EXCEPT !.preview = TRUE])
              ELSE Done(Ruled(c, [panel EXCEPT !.preview = FALSE], "bad")))
  /\ UNCHANGED <<store, draft, status, ids>>

Refused(c) ==
  /\ c.kind \in {"save", "backtest"} /\ ~ c.ok /\ Ends(c)
  /\ Local(c, Done(Ruled(c, panel, "bad"))) /\ UNCHANGED <<store, draft, status, ids>>

SaveArrives(c) ==
  /\ c.kind = "save" /\ c.ok /\ Continues(c, "reloadAfterSave")
  /\ status' = IF status = "ready" THEN status ELSE "loading"
  /\ UNCHANGED <<store, draft, ids, panel>>

BacktestArrives(c) ==
  /\ c.kind = "backtest" /\ c.ok /\ Continues(c, "refresh")
  /\ UNCHANGED <<store, draft, status, ids, panel>>

ReloadAfterSaveArrives(c) ==
  /\ c.kind = "reloadAfterSave" /\ Ends(c) /\ UNCHANGED store
  /\ Applied(c.state) /\ Local(c, Done(Told(c, panel)))

\* the reports tab opens, which takes the composer panel away
RefreshArrives(c) ==
  /\ c.kind = "refresh"
  /\ panel' = [Fresh EXCEPT !.on = FALSE]
  /\ calls' = {[d EXCEPT !.live = FALSE] : d \in calls \ {c}}
  /\ UNCHANGED <<store, draft, status, ids>>

Arrive(c) ==
  /\ c.answered
  /\ \/ ConfigArrives(c) \/ VerdictArrives(c) \/ Refused(c) \/ SaveArrives(c)
     \/ BacktestArrives(c) \/ ReloadAfterSaveArrives(c) \/ RefreshArrives(c)

(* A call that fails (no answer, an error of the server) before or after it   *)
(* was served.  reloadConfig catches its failure, so the save still succeeds. *)
Fail(c) ==
  /\ Ends(c) /\ UNCHANGED <<store, draft, ids>>
  /\ Local(c, IF c.kind \in {"reload", "select"} THEN panel
              ELSE IF c.kind = "reloadAfterSave" THEN Done(Told(c, panel)) ELSE Done(panel))
  /\ status' = IF c.kind \in {"reload", "reloadAfterSave"} THEN "error" ELSE status

Init ==
  /\ user \in Users /\ store = user.store
  /\ draft = NoDraft /\ status = "loading" /\ ids = {}
  /\ panel = Fresh /\ calls = {Send("reload", NoDraft)}

User ==
  \/ \E d \in user.edits : Edit(d)
  \/ \E kind \in {"validate", "serialize", "save", "backtest"} : Act(kind)
  \/ \E id \in ExperimentIds : SelectSaved(id)
  \/ CreateNew \/ Leave \/ Return

Api == \E c \in calls : Serve(c) \/ Arrive(c) \/ Fail(c)

Next == (User \/ Api) /\ UNCHANGED user

Spec == Init /\ [][Next]_vars

Kinds == {"reload", "select", "validate", "serialize", "save", "reloadAfterSave", "backtest", "refresh"}

(* ---- properties ------------------------------------------------------ *)
(* The types of the state, and what the load status says of the draft.      *)
TypeOK ==
  /\ draft \in Drafts \union {NoDraft} /\ ids \subseteq ExperimentIds
  /\ store.selected \in ExperimentIds \union {NoId}
  /\ status \in {"loading", "ready", "empty", "error"}
  /\ status = "ready" => draft # NoDraft
  /\ panel.busy \in {"none", "validate", "serialize", "save", "backtest"}
  /\ panel.verdict \in {"none", "ok", "bad"}
  /\ \A c \in calls : c.kind \in Kinds

(* Who waits for each answer is told the truth: a verdict is about the draft *)
(* shown, so that Save and Run backtest, enabled by it, send a draft that was *)
(* validated; after "Saved to ..." the draft shown is the one saved, and a   *)
(* file holds it.                                                            *)
PatientIsToldTheTruth ==
  user.patient =>
    /\ panel.verdict # "none" => panel.about = draft
    /\ panel.message => /\ draft = panel.said
                        /\ \E i \in DOMAIN store.files : store.files[i].draft = draft

(* The config state read after a save is the config saved, also when its file *)
(* replaced that of another id, or a hand-written file holds the same id.    *)
SavedComesBack ==
  [][\A c \in calls : c.kind \in {"save", "backtest"} /\ Valid(c.draft) /\ Serve(c)
       => State(store').draft = c.draft]_vars

(* Whatever is shown as under way has a call that will end it, whoever's     *)
(* draft was replaced meanwhile and whichever call failed: the buttons come  *)
(* back, and "Loading saved strategy config" ends.                           *)
Ending(busy) == {busy} \union (CASE busy = "save" -> {"reloadAfterSave"}
                                [] busy = "backtest" -> {"refresh"} [] OTHER -> {})
WaitsForACall ==
  /\ TypeOK
  /\ panel.busy # "none" => \E c \in calls : c.live /\ c.kind \in Ending(panel.busy)
  /\ status = "loading" => \E c \in calls : c.kind \in {"reload", "reloadAfterSave"}
=============================================================================
