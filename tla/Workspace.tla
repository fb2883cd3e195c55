----------------------------- MODULE Workspace ------------------------------
(***************************************************************************)
(* The model a browser tab edits and its three copies: the project's, read  *)
(* at startup (model/use-project-hydration.ts) and replaced by a save       *)
(* (model/use-project-sync.ts); the draft in localStorage, written by a     *)
(* debounced autosave (model/use-autosave.ts) and offered by a banner       *)
(* (ui/draft-banner.tsx); and the store the tab shows                       *)
(* (model/model-store.ts), with `dirty` for "differs from the project".     *)
(*                                                                          *)
(* Under `aconiq serve` the project is the server's file.  In browser mode  *)
(* the draft is the only persistence there is.  A model is a number, 0 for  *)
(* the empty one; what an edit, or another writer, makes has never been     *)
(* seen before, so the hash of a file is the number of its model.           *)
(***************************************************************************)
EXTENDS Naturals

CONSTANTS MaxModels,   \* bound: models made by edits and by other writers
          MaxTroubles  \* bound: refused, lost and failed requests and writes, and
                       \* reloads, together

ASSUME WorkspaceAssumption == MaxModels \in Nat /\ MaxTroubles \in Nat

VARIABLES
    mode,       \* "served" (runsAgainstSavedModel) or "browser"
    file,       \* the project's model, 0 for none
    shown,      \* the store's features, receivers, calculation area and CRS
    dirty,
    draft,      \* [model, hash]; the model is 0 when there is none, as the hash is
                \* when the draft carries none
    query,      \* useProjectStatus: [at, hash, reached]
    hydration,  \* [status, started]
    fetch,      \* GET /api/v1/model: [at, model]
    offered,    \* draftOffered, and the banner not dismissed
    saving,     \* the POST in flight: [at, model, moved]
    armed,      \* the autosave timer
    made, troubles,
    base,       \* history: the project content the store was last synced with
    found,      \* history: the draft as the tab found it
    touched,    \* history: the user has edited, restored or discarded since
    bare        \* history: since the timer was last armed, a draft was refused or
                \* discarded

workspaceVars == <<mode, file, shown, dirty, draft, query, hydration, fetch, offered,
                   saving, armed, made, troubles, base, found, touched, bare>>

NoDraft == [model |-> 0, hash |-> 0]
NoSaving == [at |-> "none", model |-> 0, moved |-> FALSE]
NoFetch == [at |-> "none", model |-> 0]
Opening == [at |-> "loading", hash |-> 0, reached |-> FALSE]
Idle == [status |-> "idle", started |-> FALSE]

\* initialState of the hydration store, at module init: the store is empty.
Opens ==
    /\ shown' = 0 /\ dirty' = FALSE /\ armed' = FALSE
    /\ query' = Opening /\ hydration' = Idle /\ fetch' = NoFetch /\ saving' = NoSaving
    /\ offered' = (draft.model # 0)
    /\ base' = 0 /\ found' = draft /\ touched' = FALSE /\ bare' = FALSE

WorkspaceInit ==
    /\ mode \in {"served", "browser"}
    /\ file = 0 /\ draft = NoDraft
    /\ shown = 0 /\ dirty = FALSE /\ armed = FALSE
    /\ query = Opening /\ hydration = Idle /\ fetch = NoFetch /\ saving = NoSaving
    /\ offered = FALSE
    /\ made = 0 /\ troubles = 0
    /\ base = 0 /\ found = NoDraft /\ touched = FALSE /\ bare = FALSE

-----------------------------------------------------------------------------
Trouble == troubles < MaxTroubles /\ troubles' = troubles + 1
NoTrouble == UNCHANGED troubles

\* useHydrationSettled: the routes and the banner wait for it.
Settled == hydration.status \in {"settled", "error"}

\* hasUnsavedWork.
UnsavedWork == dirty \/ shown # 0

\* loadModel and every edit: the store is replaced, by references no save in
\* flight has seen, and the autosave timer starts over.
Replaces(model) ==
    /\ shown' = model
    /\ dirty' = TRUE
    /\ armed' = TRUE /\ bare' = FALSE
    /\ saving' = [saving EXCEPT !.moved = saving.at # "none"]
    /\ touched' = TRUE

HydratesDirty(model, synced) ==   \* mutant: loadModel in its place
    /\ shown' = model
    /\ dirty' = TRUE /\ armed' = TRUE
    /\ base' = synced

\* hydrateModel: the store is replaced by what the project holds, and is clean.
Hydrates(model, synced) ==
    /\ shown' = model
    /\ dirty' = FALSE /\ armed' = FALSE
    /\ base' = synced

-----------------------------------------------------------------------------
(* The user.                                                               *)

\* Any edit, undo, import or merge; the routes are up only once it has settled.
Edit ==
    /\ Settled /\ made < MaxModels
    /\ made' = made + 1
    /\ Replaces(made + 1)
    /\ UNCHANGED <<mode, file, draft, query, hydration, fetch, offered, troubles, base,
                   found>>

\* handleRestore: the draft stays.
Restore ==
    /\ Settled /\ offered
    /\ offered' = FALSE
    /\ \/ draft.model # 0 /\ Replaces(draft.model)
       \/ /\ draft.model = 0
          /\ UNCHANGED <<shown, dirty, armed, bare, saving, touched>>
    /\ UNCHANGED <<mode, file, draft, query, hydration, fetch, made, troubles, base,
                   found>>

\* handleDiscard: whatever the draft holds by now.
Discard ==
    /\ Settled /\ offered
    /\ offered' = FALSE
    /\ draft' = NoDraft
    /\ touched' = TRUE /\ bare' = TRUE
    /\ UNCHANGED <<mode, file, shown, dirty, query, hydration, fetch, saving, armed, made,
                   troubles, base, found>>

\* retryProjectHydration: the hook is armed again.
Retry ==
    /\ hydration.status = "error"
    /\ hydration' = Idle
    /\ UNCHANGED <<mode, file, shown, dirty, draft, query, fetch, offered, saving, armed,
                   made, troubles, base, found, touched, bare>>

\* The tab is reloaded or crashes.  What was asked of the server may still be done.
Reload ==
    /\ Trouble
    /\ Opens
    /\ file' \in {file} \cup (IF saving.at = "asked" THEN {saving.model} ELSE {})
    /\ UNCHANGED <<mode, draft, made>>

-----------------------------------------------------------------------------
(* useAutosave.                                                            *)

AutosaveWithHash ==   \* mutant: the last save's receipt is carried forward
    /\ armed /\ dirty
    /\ armed' = FALSE
    /\ draft' = [model |-> shown, hash |-> base]
    /\ UNCHANGED <<mode, file, shown, dirty, query, hydration, fetch, offered, saving,
                   made, troubles, base, found, touched, bare>>

\* The timer: a draft without a hash.  It is the save where nothing else is, and
\* nothing writes one that storage refused until the next edit.
Autosave ==
    /\ armed /\ dirty
    /\ armed' = FALSE
    /\ \/ /\ NoTrouble
          /\ draft' = [model |-> shown, hash |-> 0]
          /\ IF mode = "browser" THEN dirty' = FALSE /\ base' = shown
                                 ELSE UNCHANGED <<dirty, base>>
          /\ UNCHANGED bare
       \/ /\ Trouble
          /\ bare' = TRUE
          /\ UNCHANGED <<draft, dirty, base>>
    /\ UNCHANGED <<mode, file, shown, query, hydration, fetch, offered, saving, made,
                   found, touched>>

-----------------------------------------------------------------------------
(* useProjectSync.                                                         *)

\* save: the header, its shortcut and the run dialog; one at a time, and without
\* an expected hash.
BeginSave ==
    /\ mode = "served" /\ query.reached /\ dirty /\ saving.at = "none"
    /\ saving' = [at |-> "asked", model |-> shown, moved |-> FALSE]
    /\ UNCHANGED <<mode, file, shown, dirty, draft, query, hydration, fetch, offered, armed,
                   made, troubles, base, found, touched, bare>>

\* The server replaces the project's model, or refuses.
ServerSaves ==
    /\ saving.at = "asked"
    /\ \/ /\ file' = saving.model
          /\ saving' = [saving EXCEPT !.at = "written"]
          /\ NoTrouble
       \/ /\ Trouble
          /\ saving' = [saving EXCEPT !.at = "refused"]
          /\ UNCHANGED file
    /\ UNCHANGED <<mode, shown, dirty, draft, query, hydration, fetch, offered, armed, made,
                   base, found, touched, bare>>

\* The answer.  Only a store that has not moved since is clean, and only then is
\* a draft stamped with the hash, if the answer carries one.
SaveAnswered ==
    /\ saving.at = "written"
    /\ saving' = NoSaving
    /\ \/ /\ ~saving.moved
          /\ dirty' = FALSE /\ armed' = FALSE
          /\ base' = saving.model
          /\ \/ /\ NoTrouble
                /\ \E hash \in {0, saving.model} :
                      draft' = [model |-> saving.model, hash |-> hash]
             \/ Trouble /\ UNCHANGED draft
       \/ /\ saving.moved
          /\ NoTrouble /\ UNCHANGED <<dirty, armed, base, draft>>
    /\ UNCHANGED <<mode, file, shown, query, hydration, fetch, offered, made, found, touched,
                   bare>>

\* A refusal, or an answer that is lost: the store stays dirty.
SaveFails ==
    /\ \/ saving.at = "refused" /\ NoTrouble
       \/ saving.at = "written" /\ Trouble
    /\ saving' = NoSaving
    /\ UNCHANGED <<mode, file, shown, dirty, draft, query, hydration, fetch, offered, armed,
                   made, base, found, touched, bare>>

\* `aconiq import` or another client saves a model of its own, or deletes it.
OthersWrite ==
    /\ \/ made < MaxModels /\ made' = made + 1 /\ file' = made + 1
       \/ file' = 0 /\ UNCHANGED made
    /\ UNCHANGED <<mode, shown, dirty, draft, query, hydration, fetch, offered, saving, armed,
                   troubles, base, found, touched, bare>>

-----------------------------------------------------------------------------
(* useProjectHydration.                                                    *)

\* The project status, asked at startup, again on a retry, and polled.
StatusAnswers ==
    /\ query' = [at |-> "answered", hash |-> file, reached |-> TRUE]
    /\ UNCHANGED <<mode, file, shown, dirty, draft, hydration, fetch, offered, saving, armed,
                   made, troubles, base, found, touched, bare>>

StatusFails ==
    /\ query.at # "failed" /\ Trouble
    /\ query' = [query EXCEPT !.at = "failed"]
    /\ UNCHANGED <<mode, file, shown, dirty, draft, hydration, fetch, offered, saving, armed,
                   made, base, found, touched, bare>>

Starts(label) == hydration' = [status |-> label, started |-> TRUE]

\* The effect: it runs until it has started, and decides on what the status says.
Decide ==
    /\ ~hydration.started
    /\ \/ /\ mode = "browser"
          /\ Starts("settled") /\ UNCHANGED <<shown, dirty, armed, base, offered, fetch>>
       \/ /\ mode = "served" /\ query.at = "failed"   \* no answer: it stays armed
          /\ hydration' = [status |-> "error", started |-> FALSE]
          /\ UNCHANGED <<shown, dirty, armed, base, offered, fetch>>
       \/ /\ mode = "served" /\ query.at = "answered"
          /\ \/ /\ query.hash = 0 \/ UnsavedWork
                /\ Starts("settled")
                /\ UNCHANGED <<shown, dirty, armed, base, offered, fetch>>
             \/ /\ query.hash # 0 /\ ~UnsavedWork /\ draft.hash = query.hash
                /\ Hydrates(draft.model, query.hash)
                /\ offered' = FALSE
                /\ Starts("settled") /\ UNCHANGED fetch
             \/ /\ query.hash # 0 /\ ~UnsavedWork /\ draft.hash # query.hash
                /\ fetch' = [at |-> "asked", model |-> 0]
                /\ Starts("fetching")
                /\ UNCHANGED <<shown, dirty, armed, base, offered>>
    /\ UNCHANGED <<mode, file, draft, query, saving, made, troubles, found, touched, bare>>

\* GET /api/v1/model: the server reads the file, or the request fails.
ServerReads ==
    /\ fetch.at = "asked"
    /\ \/ fetch' = [at |-> "read", model |-> file] /\ NoTrouble
       \/ fetch' = [at |-> "failed", model |-> 0] /\ Trouble
    /\ UNCHANGED <<mode, file, shown, dirty, draft, query, hydration, offered, saving, armed,
                   made, base, found, touched, bare>>

\* The response: a model that is gone, or work begun meanwhile, ends it.
Fetched ==
    /\ fetch.at \in {"read", "failed"}
    /\ fetch' = NoFetch
    /\ Starts(IF fetch.at = "failed" THEN "error" ELSE "settled")
    /\ \/ /\ fetch.at = "read" /\ fetch.model # 0 /\ ~UnsavedWork
          /\ Hydrates(fetch.model, fetch.model)
       \/ /\ fetch.at = "failed" \/ fetch.model = 0 \/ UnsavedWork
          /\ UNCHANGED <<shown, dirty, armed, base>>
    /\ UNCHANGED <<mode, file, draft, query, offered, saving, made, troubles, found, touched,
                   bare>>

-----------------------------------------------------------------------------
WorkspaceNext ==
    \/ Edit \/ Restore \/ Discard \/ Retry \/ Reload
    \/ Autosave
    \/ BeginSave \/ ServerSaves \/ SaveAnswered \/ SaveFails \/ OthersWrite
    \/ StatusAnswers \/ StatusFails \/ Decide \/ ServerReads \/ Fetched

WorkspaceSpec == WorkspaceInit /\ [][WorkspaceNext]_workspaceVars

-----------------------------------------------------------------------------
Models == 0..MaxModels

StoreTypeOK ==
    /\ mode \in {"served", "browser"}
    /\ file \in Models /\ shown \in Models /\ base \in Models
    /\ draft \in [model: Models, hash: Models] /\ found \in [model: Models, hash: Models]
    /\ made \in 0..MaxModels /\ troubles \in 0..MaxTroubles

FlagTypeOK ==
    /\ dirty \in BOOLEAN /\ armed \in BOOLEAN /\ offered \in BOOLEAN
    /\ touched \in BOOLEAN /\ bare \in BOOLEAN

RequestTypeOK ==
    /\ query \in [at: {"loading", "failed", "answered"}, hash: Models, reached: BOOLEAN]
    /\ hydration \in [status: {"idle", "fetching", "settled", "error"}, started: BOOLEAN]
    /\ fetch \in [at: {"none", "asked", "read", "failed"}, model: Models]
    /\ saving \in [at: {"none", "asked", "written", "refused"}, model: Models,
                   moved: BOOLEAN]

\* The timer runs only while there is something to write.
WorkspaceTypeOK == StoreTypeOK /\ FlagTypeOK /\ RequestTypeOK /\ (armed => dirty)

\* A workspace that claims to be the project's is the content the project last
\* answered with: what it fetched, what its save wrote, or, through a draft, what
\* the status named.  It takes a draft that never carries the hash of another
\* content, and a save that never declares an edit made in flight saved.  In
\* browser mode that content is in the draft, unless the user has discarded it
\* since: the banner still offers a draft the autosave has written over.
CleanIsTheProjects ==
    ~dirty => /\ shown = base
              /\ mode = "browser" /\ shown # 0 => draft.model = shown \/ bare

\* Unsaved work is in the draft or about to be, unless storage refused it or the
\* user discarded the draft since; and a draft that startup found is still there
\* and still offered, or is what the workspace shows, until the user acts.
UnsavedWorkIsKept ==
    /\ dirty => armed \/ bare \/ draft.model = shown
    /\ ~touched => /\ draft = found
                   /\ found.model # 0 /\ Settled => offered \/ shown = found.model

=============================================================================
