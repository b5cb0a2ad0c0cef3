----------------------------- MODULE ConfigStore -----------------------------
(* Saved strategy configs of one family, as config_service.py keeps them: a   *)
(* directory of files and the id selected in .workbench_selection.json.  A    *)
(* store is a record [files, selected]; files come newest first, the order of *)
(* _list_config_files.  A draft is [id, body]; what a body says is left out   *)
(* but for whether the loader accepts it.                                     *)
EXTENDS Naturals, Sequences, SequencesExt

CONSTANTS NoId, NoDraft,   \* model values: no experiment id, no draft
          FileName(_),     \* _safe_experiment_filename: two ids may share a name
          Loads(_)         \* the bodies load_strategy_config accepts

Valid(draft) == Loads(draft.body)

Ids(store) == [i \in DOMAIN store.files |-> store.files[i].draft.id]

WithName(files, name) == SelectInSeq(files, LAMBDA f : f.name = name)
WithId(files, id) == SelectInSeq(files, LAMBDA f : f.draft.id = id)

(* The file <name of id>.json if there is one, whatever id it holds, else the *)
(* newest file that holds the id.                                             *)
FindFile(store, id) ==
  LET direct == WithName(store.files, FileName(id)) IN
  IF direct # 0 THEN direct ELSE WithId(store.files, id)

SelectedId(store) ==
  IF store.files = <<>> THEN NoId
  ELSE IF store.selected \in ToSet(Ids(store)) THEN store.selected
  ELSE store.files[1].draft.id

\* the draft of the selected file, none when the loader rejects the file
State(store) ==
  LET file == FindFile(store, SelectedId(store)) IN
  [ids |-> ToSet(Ids(store)),
   draft |-> IF SelectedId(store) = NoId \/ file = 0 THEN NoDraft
             ELSE IF Valid(store.files[file].draft) THEN store.files[file].draft ELSE NoDraft]

Exists(store, id) == FindFile(store, id) # 0
Selected(store, id) == [store EXCEPT !.selected = id]

\* write_text replaces the file of that name, if there is one
Without(files, name) ==
  IF WithName(files, name) = 0 THEN files ELSE RemoveAt(files, WithName(files, name))

Written(store, draft) ==
  [store EXCEPT !.files = <<[name |-> FileName(draft.id), draft |-> draft]>> \o
                            Without(@, FileName(draft.id))]

Saved_Unselected(store, draft) == IF Valid(draft) THEN Written(store, draft) ELSE store

Saved(store, draft) ==
  IF Valid(draft) THEN Selected(Written(store, draft), draft.id) ELSE store
=============================================================================
