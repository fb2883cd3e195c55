-------------------------- MODULE Workspace_proofs --------------------------
(***************************************************************************)
(* Proofs about the workspace of the browser: about its three copies        *)
(* (Workspace), for every bound; about its undo stack (EditHistory), for     *)
(* every depth and all files; and about the map page that reshapes its       *)
(* objects (GeometryEdit), over the same stack.                              *)
(***************************************************************************)
EXTENDS Workspace, GeometryEdit, SequenceTheorems, FiniteSetTheorems, WellFoundedInduction, TLAPS

LEMMA WorkspaceConstants == MaxModels \in Nat /\ MaxTroubles \in Nat
  BY WorkspaceAssumption

\* A draft that carries a hash is the content the hash names.
ReceiptsAreTrue == draft.hash # 0 => draft.hash = draft.model

\* A save in flight is of the store as it is, unless it has moved since, and a
\* fetch in flight is the one hydration waits for.
RequestsAreCurrent ==
    /\ saving.at # "none" => /\ mode = "served" /\ dirty /\ touched
                             /\ ~saving.moved => saving.model = shown
    /\ fetch.at # "none" => /\ mode = "served"
                            /\ hydration = [status |-> "fetching", started |-> TRUE]

\* Until the user acts nothing is unsaved, and a draft that is offered no more is
\* what the workspace was hydrated from.
UntouchedIsClean ==
    ~touched => /\ ~dirty
                /\ found.model # 0 /\ ~offered =>
                      /\ shown = found.model
                      /\ hydration = [status |-> "settled", started |-> TRUE]

Sound ==
    /\ ReceiptsAreTrue /\ RequestsAreCurrent /\ UntouchedIsClean
    /\ CleanIsTheProjects /\ UnsavedWorkIsKept

\* The inductive invariant.
WorkspaceInv == WorkspaceTypeOK /\ Sound

LEMMA WorkspaceInitially == WorkspaceInit => WorkspaceInv
<1> SUFFICES ASSUME WorkspaceInit PROVE WorkspaceInv
  OBVIOUS
<1> USE DEF WorkspaceInit, NoDraft, NoSaving, NoFetch, Opening, Idle
<1>1. WorkspaceTypeOK
  <2>1. StoreTypeOK
    BY WorkspaceConstants DEF StoreTypeOK, Models
  <2>2. RequestTypeOK
    BY WorkspaceConstants DEF RequestTypeOK, Models
  <2>3. armed => dirty
    OBVIOUS
  <2>4. FlagTypeOK
    BY Zenon DEF FlagTypeOK
  <2>5. QED
    BY <2>1, <2>2, <2>3, <2>4 DEF WorkspaceTypeOK
<1>2. ReceiptsAreTrue
  BY DEF ReceiptsAreTrue
<1>3. RequestsAreCurrent
  BY DEF RequestsAreCurrent
<1>4. UntouchedIsClean
  BY DEF UntouchedIsClean
<1>5. CleanIsTheProjects
  BY DEF CleanIsTheProjects
<1>6. UnsavedWorkIsKept
  BY DEF UnsavedWorkIsKept, Settled
<1>7. QED
  BY <1>1, <1>2, <1>3, <1>4, <1>5, <1>6 DEF WorkspaceInv, Sound

-----------------------------------------------------------------------------
(* Types.                                                                  *)

LEMMA UserStoreType ==
    ASSUME StoreTypeOK, RequestTypeOK,
           Edit \/ Restore \/ Discard \/ Retry \/ Reload
    PROVE  StoreTypeOK'
<1> USE WorkspaceConstants DEF StoreTypeOK, RequestTypeOK, Models,
        NoDraft, NoSaving, NoFetch, Opening, Idle, Replaces, Opens, Trouble
<1>1. CASE Edit
  BY <1>1 DEF Edit
<1>2. CASE Restore
  BY <1>2 DEF Restore
<1>3. CASE Discard
  BY <1>3 DEF Discard
<1>4. CASE Retry
  BY <1>4 DEF Retry
<1>5. CASE Reload
  BY <1>5 DEF Reload
<1>6. QED
  BY <1>1, <1>2, <1>3, <1>4, <1>5

LEMMA UserRequestType ==
    ASSUME StoreTypeOK, RequestTypeOK,
           Edit \/ Restore \/ Discard \/ Retry \/ Reload
    PROVE  RequestTypeOK'
<1> USE WorkspaceConstants DEF StoreTypeOK, RequestTypeOK, Models,
        NoDraft, NoSaving, NoFetch, Opening, Idle, Replaces, Opens, Trouble
<1>1. CASE Edit
  BY <1>1 DEF Edit
<1>2. CASE Restore
  BY <1>2 DEF Restore
<1>3. CASE Discard
  BY <1>3 DEF Discard
<1>4. CASE Retry
  BY <1>4 DEF Retry
<1>5. CASE Reload
  BY <1>5 DEF Reload
<1>6. QED
  BY <1>1, <1>2, <1>3, <1>4, <1>5

LEMMA UserFlagType ==
    ASSUME FlagTypeOK, armed => dirty,
           Edit \/ Restore \/ Discard \/ Retry \/ Reload
    PROVE  FlagTypeOK' /\ (armed => dirty)'
<1> USE DEF FlagTypeOK,
        NoDraft, NoSaving, NoFetch, Opening, Idle, Replaces, Opens, Trouble
<1>1. CASE Edit
  BY <1>1, Zenon DEF Edit
<1>2. CASE Restore
  <2>1. \/ dirty' = TRUE /\ armed' = TRUE /\ bare' = FALSE /\ touched' = TRUE
        \/ dirty' = dirty /\ armed' = armed /\ bare' = bare /\ touched' = touched
    BY <1>2, Zenon DEF Restore
  <2>2. offered' = FALSE
    BY <1>2, Zenon DEF Restore
  <2>3. CASE dirty' = TRUE /\ armed' = TRUE /\ bare' = FALSE /\ touched' = TRUE
    BY <2>2, <2>3, Zenon
  <2>4. CASE dirty' = dirty /\ armed' = armed /\ bare' = bare /\ touched' = touched
    BY <2>2, <2>4, Zenon
  <2>5. QED
    BY <2>1, <2>3, <2>4
<1>3. CASE Discard
  BY <1>3, Zenon DEF Discard
<1>4. CASE Retry
  BY <1>4, Zenon DEF Retry
<1>5. CASE Reload
  BY <1>5, Zenon DEF Reload
<1>6. QED
  BY <1>1, <1>2, <1>3, <1>4, <1>5

LEMMA SavingStoreType ==
    ASSUME StoreTypeOK, RequestTypeOK,
           Autosave \/ BeginSave \/ ServerSaves \/ SaveAnswered \/ SaveFails \/ OthersWrite
    PROVE  StoreTypeOK'
<1> USE WorkspaceConstants DEF StoreTypeOK, RequestTypeOK, Models,
        NoSaving, Trouble, NoTrouble
<1>1. CASE Autosave
  <2>1. \/ draft' = [model |-> shown, hash |-> 0]
        \/ draft' = draft
    BY <1>1, Zenon DEF Autosave
  <2>2. base' = shown \/ base' = base
    BY <1>1, Zenon DEF Autosave
  <2>3. \/ troubles' = troubles
        \/ troubles < MaxTroubles /\ troubles' = troubles + 1
    BY <1>1, Zenon DEF Autosave
  <2>4. mode' = mode /\ file' = file /\ shown' = shown /\ made' = made /\ found' = found
    BY <1>1, Zenon DEF Autosave
  <2>5. QED
    BY <2>1, <2>2, <2>3, <2>4
<1>2. CASE BeginSave
  BY <1>2 DEF BeginSave
<1>3. CASE ServerSaves
  BY <1>3 DEF ServerSaves
<1>4. CASE SaveAnswered
  BY <1>4 DEF SaveAnswered
<1>5. CASE SaveFails
  BY <1>5 DEF SaveFails
<1>6. CASE OthersWrite
  BY <1>6 DEF OthersWrite
<1>7. QED
  BY <1>1, <1>2, <1>3, <1>4, <1>5, <1>6

LEMMA SavingRequestType ==
    ASSUME StoreTypeOK, RequestTypeOK,
           Autosave \/ BeginSave \/ ServerSaves \/ SaveAnswered \/ SaveFails \/ OthersWrite
    PROVE  RequestTypeOK'
<1> USE WorkspaceConstants DEF StoreTypeOK, RequestTypeOK, Models,
        NoSaving, Trouble, NoTrouble
<1>1. CASE Autosave
  BY <1>1 DEF Autosave
<1>2. CASE BeginSave
  BY <1>2 DEF BeginSave
<1>3. CASE ServerSaves
  BY <1>3 DEF ServerSaves
<1>4. CASE SaveAnswered
  BY <1>4 DEF SaveAnswered
<1>5. CASE SaveFails
  BY <1>5 DEF SaveFails
<1>6. CASE OthersWrite
  BY <1>6 DEF OthersWrite
<1>7. QED
  BY <1>1, <1>2, <1>3, <1>4, <1>5, <1>6

LEMMA SavingFlagType ==
    ASSUME FlagTypeOK, armed => dirty,
           Autosave \/ BeginSave \/ ServerSaves \/ SaveAnswered \/ SaveFails \/ OthersWrite
    PROVE  FlagTypeOK' /\ (armed => dirty)'
<1> USE DEF FlagTypeOK,
        NoSaving, Trouble, NoTrouble
<1>1. CASE Autosave
  BY <1>1, Zenon DEF Autosave
<1>2. CASE BeginSave
  BY <1>2, Zenon DEF BeginSave
<1>3. CASE ServerSaves
  BY <1>3, Zenon DEF ServerSaves
<1>4. CASE SaveAnswered
  <2>1. \/ dirty' = FALSE /\ armed' = FALSE
        \/ dirty' = dirty /\ armed' = armed
    BY <1>4, Zenon DEF SaveAnswered
  <2>2. offered' = offered /\ touched' = touched /\ bare' = bare
    BY <1>4, Zenon DEF SaveAnswered
  <2>3. CASE dirty' = FALSE /\ armed' = FALSE
    BY <2>2, <2>3, Zenon
  <2>4. CASE dirty' = dirty /\ armed' = armed
    BY <2>2, <2>4, Zenon
  <2>5. QED
    BY <2>1, <2>3, <2>4
<1>5. CASE SaveFails
  BY <1>5, Zenon DEF SaveFails
<1>6. CASE OthersWrite
  BY <1>6, Zenon DEF OthersWrite
<1>7. QED
  BY <1>1, <1>2, <1>3, <1>4, <1>5, <1>6

LEMMA HydrationStoreType ==
    ASSUME StoreTypeOK, RequestTypeOK,
           StatusAnswers \/ StatusFails \/ Decide \/ ServerReads \/ Fetched
    PROVE  StoreTypeOK'
<1> USE WorkspaceConstants DEF StoreTypeOK, RequestTypeOK, Models,
        NoFetch, Trouble, NoTrouble, Starts, Hydrates
<1>1. CASE StatusAnswers
  BY <1>1 DEF StatusAnswers
<1>2. CASE StatusFails
  BY <1>2 DEF StatusFails
<1>3. CASE Decide
  BY <1>3 DEF Decide
<1>4. CASE ServerReads
  BY <1>4 DEF ServerReads
<1>5. CASE Fetched
  BY <1>5 DEF Fetched
<1>6. QED
  BY <1>1, <1>2, <1>3, <1>4, <1>5

LEMMA HydrationRequestType ==
    ASSUME StoreTypeOK, RequestTypeOK,
           StatusAnswers \/ StatusFails \/ Decide \/ ServerReads \/ Fetched
    PROVE  RequestTypeOK'
<1> USE WorkspaceConstants DEF StoreTypeOK, RequestTypeOK, Models,
        NoFetch, Trouble, NoTrouble, Starts, Hydrates
<1>1. CASE StatusAnswers
  BY <1>1 DEF StatusAnswers
<1>2. CASE StatusFails
  BY <1>2 DEF StatusFails
<1>3. CASE Decide
  <2>1. \/ fetch' = fetch
        \/ fetch' = [at |-> "asked", model |-> 0]
    BY <1>3, Zenon DEF Decide
  <2>2. \/ hydration' = [status |-> "settled", started |-> TRUE]
        \/ hydration' = [status |-> "error", started |-> FALSE]
        \/ hydration' = [status |-> "fetching", started |-> TRUE]
    BY <1>3, Zenon DEF Decide
  <2>3. query' = query /\ saving' = saving
    BY <1>3, Zenon DEF Decide
  <2>4. hydration' \in [status: {"idle", "fetching", "settled", "error"}, started: BOOLEAN]
    <3> HIDE DEF StoreTypeOK, RequestTypeOK, Models
    <3>1. CASE hydration' = [status |-> "settled", started |-> TRUE]
      BY ONLY <3>1
    <3>2. CASE hydration' = [status |-> "error", started |-> FALSE]
      BY ONLY <3>2
    <3>3. CASE hydration' = [status |-> "fetching", started |-> TRUE]
      BY ONLY <3>3
    <3>4. QED
      BY <2>2, <3>1, <3>2, <3>3
  <2>5. fetch' \in [at: {"none", "asked", "read", "failed"}, model: Models]
    BY <2>1
  <2>6. QED
    BY <2>3, <2>4, <2>5
<1>4. CASE ServerReads
  BY <1>4 DEF ServerReads
<1>5. CASE Fetched
  BY <1>5 DEF Fetched
<1>6. QED
  BY <1>1, <1>2, <1>3, <1>4, <1>5

LEMMA HydrationFlagType ==
    ASSUME FlagTypeOK, armed => dirty,
           StatusAnswers \/ StatusFails \/ Decide \/ ServerReads \/ Fetched
    PROVE  FlagTypeOK' /\ (armed => dirty)'
<1> USE DEF FlagTypeOK,
        NoFetch, Trouble, NoTrouble, Starts, Hydrates
<1>1. CASE StatusAnswers
  BY <1>1, Zenon DEF StatusAnswers
<1>2. CASE StatusFails
  BY <1>2, Zenon DEF StatusFails
<1>3. CASE Decide
  <2>1. \/ dirty' = FALSE /\ armed' = FALSE
        \/ dirty' = dirty /\ armed' = armed
    BY <1>3, Zenon DEF Decide
  <2>2. offered' = FALSE \/ offered' = offered
    BY <1>3, Zenon DEF Decide
  <2>3. touched' = touched /\ bare' = bare
    BY <1>3, Zenon DEF Decide
  <2>4. offered' \in BOOLEAN /\ touched' \in BOOLEAN /\ bare' \in BOOLEAN
    BY <2>2, <2>3, Zenon
  <2>5. CASE dirty' = FALSE /\ armed' = FALSE
    BY <2>4, <2>5, Zenon
  <2>6. CASE dirty' = dirty /\ armed' = armed
    BY <2>4, <2>6, Zenon
  <2>7. QED
    BY <2>1, <2>5, <2>6
<1>4. CASE ServerReads
  BY <1>4, Zenon DEF ServerReads
<1>5. CASE Fetched
  <2>1. \/ dirty' = FALSE /\ armed' = FALSE
        \/ dirty' = dirty /\ armed' = armed
    BY <1>5, Zenon DEF Fetched
  <2>2. offered' = offered /\ touched' = touched /\ bare' = bare
    BY <1>5, Zenon DEF Fetched
  <2>3. CASE dirty' = FALSE /\ armed' = FALSE
    BY <2>2, <2>3, Zenon
  <2>4. CASE dirty' = dirty /\ armed' = armed
    BY <2>2, <2>4, Zenon
  <2>5. QED
    BY <2>1, <2>3, <2>4
<1>6. QED
  BY <1>1, <1>2, <1>3, <1>4, <1>5

-----------------------------------------------------------------------------
(* Steps.                                                                  *)

LEMMA EditKeeps == WorkspaceInv /\ Edit => Sound'
<1> SUFFICES ASSUME WorkspaceInv, Edit PROVE Sound'
  OBVIOUS
<1> USE DEF WorkspaceInv, Sound
<1>1. ReceiptsAreTrue'
  BY DEF Edit, Replaces, ReceiptsAreTrue
<1>2. RequestsAreCurrent'
  BY DEF Edit, Replaces, RequestsAreCurrent, WorkspaceTypeOK, RequestTypeOK
<1>3. UntouchedIsClean'
  BY DEF Edit, Replaces, UntouchedIsClean
<1>4. CleanIsTheProjects'
  BY DEF Edit, Replaces, CleanIsTheProjects
<1>5. UnsavedWorkIsKept'
  BY DEF Edit, Replaces, Settled, UnsavedWorkIsKept
<1>6. QED
  BY <1>1, <1>2, <1>3, <1>4, <1>5

LEMMA RestoreKeeps == WorkspaceInv /\ Restore => Sound'
<1> SUFFICES ASSUME WorkspaceInv, Restore PROVE Sound'
  OBVIOUS
<1> USE DEF WorkspaceInv, Sound
<1>1. /\ mode' = mode /\ draft' = draft /\ hydration' = hydration /\ fetch' = fetch
      /\ found' = found /\ base' = base /\ offered' = FALSE /\ offered
  BY Zenon DEF Restore
<1>2. \/ /\ dirty' = TRUE /\ armed' = TRUE /\ touched' = TRUE /\ shown' = draft.model
         /\ saving' = [saving EXCEPT !.moved = saving.at # "none"]
      \/ /\ draft.model = 0 /\ dirty' = dirty /\ armed' = armed /\ bare' = bare
         /\ touched' = touched /\ shown' = shown /\ saving' = saving
  BY Zenon DEF Restore, Replaces
<1>3. ReceiptsAreTrue'
  BY <1>1 DEF ReceiptsAreTrue
<1>4. CASE /\ dirty' = TRUE /\ armed' = TRUE /\ touched' = TRUE /\ shown' = draft.model
           /\ saving' = [saving EXCEPT !.moved = saving.at # "none"]
  <2>1. RequestsAreCurrent'
    BY <1>1, <1>4 DEF RequestsAreCurrent, WorkspaceTypeOK, RequestTypeOK
  <2>2. UntouchedIsClean' /\ CleanIsTheProjects' /\ UnsavedWorkIsKept'
    BY <1>4 DEF UntouchedIsClean, CleanIsTheProjects, UnsavedWorkIsKept
  <2>3. QED
    BY <1>3, <2>1, <2>2
<1>5. CASE /\ draft.model = 0 /\ dirty' = dirty /\ armed' = armed /\ bare' = bare
           /\ touched' = touched /\ shown' = shown /\ saving' = saving
  <2>1. RequestsAreCurrent'
    BY <1>1, <1>5 DEF RequestsAreCurrent
  <2>2. ~touched => found.model = 0
    BY <1>5 DEF UnsavedWorkIsKept
  <2>3. UntouchedIsClean'
    BY <1>1, <1>5, <2>2 DEF UntouchedIsClean
  <2>4. CleanIsTheProjects'
    BY <1>1, <1>5 DEF CleanIsTheProjects
  <2>5. UnsavedWorkIsKept'
    BY <1>1, <1>5, <2>2 DEF UnsavedWorkIsKept
  <2>6. QED
    BY <1>3, <2>1, <2>3, <2>4, <2>5
<1>6. QED
  BY <1>2, <1>4, <1>5

LEMMA DiscardKeeps == WorkspaceInv /\ Discard => Sound'
<1> SUFFICES ASSUME WorkspaceInv, Discard PROVE Sound'
  OBVIOUS
<1> USE DEF WorkspaceInv, Sound
<1>1. ReceiptsAreTrue'
  BY DEF Discard, NoDraft, ReceiptsAreTrue
<1>2. RequestsAreCurrent'
  BY DEF Discard, NoDraft, RequestsAreCurrent
<1>3. UntouchedIsClean'
  BY DEF Discard, NoDraft, UntouchedIsClean
<1>4. CleanIsTheProjects'
  BY DEF Discard, NoDraft, CleanIsTheProjects
<1>5. UnsavedWorkIsKept'
  BY DEF Discard, NoDraft, Settled, UnsavedWorkIsKept
<1>6. QED
  BY <1>1, <1>2, <1>3, <1>4, <1>5

LEMMA RetryKeeps == WorkspaceInv /\ Retry => Sound'
<1> SUFFICES ASSUME WorkspaceInv, Retry PROVE Sound'
  OBVIOUS
<1> USE DEF WorkspaceInv, Sound
<1>1. ReceiptsAreTrue'
  BY DEF Retry, Idle, ReceiptsAreTrue
<1>2. RequestsAreCurrent'
  BY DEF Retry, Idle, RequestsAreCurrent
<1>3. UntouchedIsClean'
  BY DEF Retry, Idle, UntouchedIsClean
<1>4. CleanIsTheProjects'
  BY DEF Retry, Idle, CleanIsTheProjects
<1>5. UnsavedWorkIsKept'
  BY DEF Retry, Idle, Settled, UnsavedWorkIsKept
<1>6. QED
  BY <1>1, <1>2, <1>3, <1>4, <1>5

LEMMA ReloadKeeps == WorkspaceInv /\ Reload => Sound'
<1> SUFFICES ASSUME WorkspaceInv, Reload PROVE Sound'
  OBVIOUS
<1> USE DEF WorkspaceInv, Sound
<1>1. ReceiptsAreTrue'
  BY DEF Reload, Opens, Opening, NoFetch, NoSaving, Idle, Trouble, ReceiptsAreTrue
<1>2. RequestsAreCurrent'
  BY DEF Reload, Opens, Opening, NoFetch, NoSaving, Idle, Trouble, RequestsAreCurrent
<1>3. UntouchedIsClean'
  BY DEF Reload, Opens, Opening, NoFetch, NoSaving, Idle, Trouble, UntouchedIsClean
<1>4. CleanIsTheProjects'
  BY DEF Reload, Opens, Opening, NoFetch, NoSaving, Idle, Trouble, CleanIsTheProjects
<1>5. UnsavedWorkIsKept'
  BY DEF Reload, Opens, Opening, NoFetch, NoSaving, Idle, Trouble, Settled, UnsavedWorkIsKept
<1>6. QED
  BY <1>1, <1>2, <1>3, <1>4, <1>5

LEMMA AutosaveKeeps == WorkspaceInv /\ Autosave => Sound'
<1> SUFFICES ASSUME WorkspaceInv, Autosave PROVE Sound'
  OBVIOUS
<1> USE DEF WorkspaceInv, Sound
<1>1. /\ mode' = mode /\ shown' = shown /\ hydration' = hydration /\ fetch' = fetch
      /\ offered' = offered /\ saving' = saving /\ found' = found /\ touched' = touched
      /\ dirty
  BY Zenon DEF Autosave
<1>2. touched
  BY <1>1 DEF UntouchedIsClean
<1>3. \/ /\ draft' = [model |-> shown, hash |-> 0] /\ bare' = bare
         /\ \/ mode = "browser" /\ dirty' = FALSE /\ base' = shown
            \/ mode # "browser" /\ dirty' = dirty /\ base' = base
      \/ draft' = draft /\ bare' = TRUE /\ dirty' = dirty /\ base' = base
  BY Zenon DEF Autosave
<1>4. ReceiptsAreTrue'
  BY <1>3 DEF ReceiptsAreTrue
<1>5. RequestsAreCurrent'
  BY <1>1, <1>3 DEF RequestsAreCurrent
<1>6. UntouchedIsClean'
  BY <1>1, <1>2 DEF UntouchedIsClean
<1>7. CASE draft' = [model |-> shown, hash |-> 0] /\ mode = "browser" /\ base' = shown
  <2>1. CleanIsTheProjects' /\ UnsavedWorkIsKept'
    BY <1>1, <1>2, <1>7 DEF CleanIsTheProjects, UnsavedWorkIsKept
  <2>2. QED
    BY <1>4, <1>5, <1>6, <2>1
<1>8. CASE draft' = [model |-> shown, hash |-> 0] /\ dirty' = dirty
  <2>1. dirty'
    BY <1>1, <1>8, Zenon
  <2>2. CleanIsTheProjects' /\ UnsavedWorkIsKept'
    BY <1>1, <1>2, <1>8, <2>1 DEF CleanIsTheProjects, UnsavedWorkIsKept
  <2>3. QED
    BY <1>4, <1>5, <1>6, <2>2
<1>9. CASE bare' = TRUE /\ dirty' = dirty
  <2>1. dirty' /\ bare'
    BY <1>1, <1>9, Zenon
  <2>2. CleanIsTheProjects' /\ UnsavedWorkIsKept'
    BY <1>1, <1>2, <2>1 DEF CleanIsTheProjects, UnsavedWorkIsKept
  <2>3. QED
    BY <1>4, <1>5, <1>6, <2>2
<1>10. QED
  BY <1>3, <1>7, <1>8, <1>9

LEMMA BeginSaveKeeps == WorkspaceInv /\ BeginSave => Sound'
<1> SUFFICES ASSUME WorkspaceInv, BeginSave PROVE Sound'
  OBVIOUS
<1> USE DEF WorkspaceInv, Sound
<1>1. ReceiptsAreTrue'
  BY DEF BeginSave, ReceiptsAreTrue
<1>2. RequestsAreCurrent'
  BY DEF BeginSave, RequestsAreCurrent, UntouchedIsClean
<1>3. UntouchedIsClean'
  BY DEF BeginSave, UntouchedIsClean
<1>4. CleanIsTheProjects'
  BY DEF BeginSave, CleanIsTheProjects
<1>5. UnsavedWorkIsKept'
  BY DEF BeginSave, Settled, UnsavedWorkIsKept
<1>6. QED
  BY <1>1, <1>2, <1>3, <1>4, <1>5

LEMMA ServerSavesKeeps == WorkspaceInv /\ ServerSaves => Sound'
<1> SUFFICES ASSUME WorkspaceInv, ServerSaves PROVE Sound'
  OBVIOUS
<1> USE DEF WorkspaceInv, Sound
<1>1. ReceiptsAreTrue'
  BY DEF ServerSaves, ReceiptsAreTrue
<1>2. RequestsAreCurrent'
  BY DEF ServerSaves, RequestsAreCurrent, WorkspaceTypeOK, RequestTypeOK
<1>3. UntouchedIsClean'
  BY DEF ServerSaves, UntouchedIsClean
<1>4. CleanIsTheProjects'
  BY DEF ServerSaves, CleanIsTheProjects
<1>5. UnsavedWorkIsKept'
  BY DEF ServerSaves, Settled, UnsavedWorkIsKept
<1>6. QED
  BY <1>1, <1>2, <1>3, <1>4, <1>5

LEMMA SaveAnsweredKeeps == WorkspaceInv /\ SaveAnswered => Sound'
<1> SUFFICES ASSUME WorkspaceInv, SaveAnswered PROVE Sound'
  OBVIOUS
<1> USE DEF WorkspaceInv, Sound
<1>1. /\ saving' = NoSaving /\ mode' = mode /\ shown' = shown /\ hydration' = hydration
      /\ fetch' = fetch /\ offered' = offered /\ found' = found /\ touched' = touched
      /\ bare' = bare
  BY DEF SaveAnswered
<1>2. mode = "served" /\ touched /\ (~saving.moved => saving.model = shown)
  BY DEF SaveAnswered, RequestsAreCurrent
<1>3. \/ /\ ~saving.moved /\ dirty' = FALSE /\ armed' = FALSE /\ base' = saving.model
         /\ \/ draft' = draft
            \/ \E hash \in {0, saving.model} :
                  draft' = [model |-> saving.model, hash |-> hash]
      \/ dirty' = dirty /\ armed' = armed /\ base' = base /\ draft' = draft
  BY Zenon DEF SaveAnswered
<1>4. ReceiptsAreTrue'
  BY <1>3 DEF ReceiptsAreTrue
<1>5. RequestsAreCurrent'
  BY <1>1 DEF RequestsAreCurrent, NoSaving
<1>6. UntouchedIsClean'
  BY <1>1, <1>2 DEF UntouchedIsClean
<1>7. CASE ~saving.moved /\ dirty' = FALSE /\ base' = saving.model
  <2>1. CleanIsTheProjects'
    BY <1>1, <1>2, <1>7 DEF CleanIsTheProjects
  <2>2. UnsavedWorkIsKept'
    BY <1>1, <1>2, <1>7 DEF UnsavedWorkIsKept
  <2>3. QED
    BY <1>4, <1>5, <1>6, <2>1, <2>2
<1>8. CASE dirty' = dirty /\ armed' = armed /\ base' = base /\ draft' = draft
  <2>1. CleanIsTheProjects'
    BY <1>1, <1>8 DEF CleanIsTheProjects
  <2>2. UnsavedWorkIsKept'
    BY <1>1, <1>2, <1>8 DEF UnsavedWorkIsKept
  <2>3. QED
    BY <1>4, <1>5, <1>6, <2>1, <2>2
<1>9. QED
  BY <1>3, <1>7, <1>8

LEMMA SaveFailsKeeps == WorkspaceInv /\ SaveFails => Sound'
<1> SUFFICES ASSUME WorkspaceInv, SaveFails PROVE Sound'
  OBVIOUS
<1> USE DEF WorkspaceInv, Sound
<1>1. ReceiptsAreTrue'
  BY DEF SaveFails, NoSaving, ReceiptsAreTrue
<1>2. RequestsAreCurrent'
  BY DEF SaveFails, NoSaving, RequestsAreCurrent
<1>3. UntouchedIsClean'
  BY DEF SaveFails, NoSaving, UntouchedIsClean
<1>4. CleanIsTheProjects'
  BY DEF SaveFails, NoSaving, CleanIsTheProjects
<1>5. UnsavedWorkIsKept'
  BY DEF SaveFails, NoSaving, Settled, UnsavedWorkIsKept
<1>6. QED
  BY <1>1, <1>2, <1>3, <1>4, <1>5

LEMMA OthersWriteKeeps == WorkspaceInv /\ OthersWrite => Sound'
<1> SUFFICES ASSUME WorkspaceInv, OthersWrite PROVE Sound'
  OBVIOUS
<1> USE DEF WorkspaceInv, Sound
<1>1. ReceiptsAreTrue'
  BY DEF OthersWrite, ReceiptsAreTrue
<1>2. RequestsAreCurrent'
  BY DEF OthersWrite, RequestsAreCurrent
<1>3. UntouchedIsClean'
  BY DEF OthersWrite, UntouchedIsClean
<1>4. CleanIsTheProjects'
  BY DEF OthersWrite, CleanIsTheProjects
<1>5. UnsavedWorkIsKept'
  BY DEF OthersWrite, Settled, UnsavedWorkIsKept
<1>6. QED
  BY <1>1, <1>2, <1>3, <1>4, <1>5

LEMMA StatusAnswersKeeps == WorkspaceInv /\ StatusAnswers => Sound'
<1> SUFFICES ASSUME WorkspaceInv, StatusAnswers PROVE Sound'
  OBVIOUS
<1> USE DEF WorkspaceInv, Sound
<1>1. ReceiptsAreTrue'
  BY DEF StatusAnswers, ReceiptsAreTrue
<1>2. RequestsAreCurrent'
  BY DEF StatusAnswers, RequestsAreCurrent
<1>3. UntouchedIsClean'
  BY DEF StatusAnswers, UntouchedIsClean
<1>4. CleanIsTheProjects'
  BY DEF StatusAnswers, CleanIsTheProjects
<1>5. UnsavedWorkIsKept'
  BY DEF StatusAnswers, Settled, UnsavedWorkIsKept
<1>6. QED
  BY <1>1, <1>2, <1>3, <1>4, <1>5

LEMMA StatusFailsKeeps == WorkspaceInv /\ StatusFails => Sound'
<1> SUFFICES ASSUME WorkspaceInv, StatusFails PROVE Sound'
  OBVIOUS
<1> USE DEF WorkspaceInv, Sound
<1>1. ReceiptsAreTrue'
  BY DEF StatusFails, ReceiptsAreTrue
<1>2. RequestsAreCurrent'
  BY DEF StatusFails, RequestsAreCurrent
<1>3. UntouchedIsClean'
  BY DEF StatusFails, UntouchedIsClean
<1>4. CleanIsTheProjects'
  BY DEF StatusFails, CleanIsTheProjects
<1>5. UnsavedWorkIsKept'
  BY DEF StatusFails, Settled, UnsavedWorkIsKept
<1>6. QED
  BY <1>1, <1>2, <1>3, <1>4, <1>5

LEMMA DecideKeeps == WorkspaceInv /\ Decide => Sound'
<1> SUFFICES ASSUME WorkspaceInv, Decide PROVE Sound'
  OBVIOUS
<1> USE DEF WorkspaceInv, Sound
<1>1. /\ mode' = mode /\ draft' = draft /\ saving' = saving
      /\ found' = found /\ touched' = touched /\ bare' = bare
  BY Zenon DEF Decide
<1>2. /\ fetch.at = "none" /\ hydration # [status |-> "settled", started |-> TRUE]
      /\ saving.at # "none" => dirty
  BY DEF Decide, RequestsAreCurrent
<1>3. ~touched => ~dirty /\ draft = found /\ (found.model # 0 => offered)
  BY <1>2 DEF UntouchedIsClean, UnsavedWorkIsKept
<1>4. ReceiptsAreTrue'
  BY <1>1 DEF ReceiptsAreTrue
<1> DEFINE Same == /\ shown' = shown /\ dirty' = dirty /\ armed' = armed /\ base' = base
                   /\ offered' = offered
<1>5. \/ Same /\ fetch' = fetch
      \/ /\ draft.hash # 0 /\ shown' = draft.model /\ base' = draft.hash
         /\ mode = "served" /\ ~dirty /\ dirty' = FALSE /\ armed' = FALSE
         /\ hydration' = [status |-> "settled", started |-> TRUE] /\ fetch' = fetch
      \/ /\ Same /\ mode = "served"
         /\ hydration' = [status |-> "fetching", started |-> TRUE]
  BY Zenon DEF Decide, Starts, Hydrates, UnsavedWork
<1>6. CASE Same /\ fetch' = fetch
  <2>1. RequestsAreCurrent'
    BY <1>1, <1>2, <1>6 DEF RequestsAreCurrent
  <2>2. UntouchedIsClean'
    BY <1>1, <1>3, <1>6 DEF UntouchedIsClean
  <2>3. CleanIsTheProjects'
    BY <1>1, <1>6 DEF CleanIsTheProjects
  <2>4. UnsavedWorkIsKept'
    BY <1>1, <1>3, <1>6 DEF UnsavedWorkIsKept
  <2>5. QED
    BY <1>4, <2>1, <2>2, <2>3, <2>4
<1>7. CASE /\ draft.hash # 0 /\ shown' = draft.model /\ base' = draft.hash
           /\ mode = "served" /\ ~dirty /\ dirty' = FALSE /\ armed' = FALSE
           /\ hydration' = [status |-> "settled", started |-> TRUE] /\ fetch' = fetch
  <2>1. RequestsAreCurrent'
    BY <1>1, <1>2, <1>7 DEF RequestsAreCurrent
  <2>2. UntouchedIsClean'
    BY <1>1, <1>3, <1>7 DEF UntouchedIsClean
  <2>3. CleanIsTheProjects'
    BY <1>1, <1>7 DEF ReceiptsAreTrue, CleanIsTheProjects
  <2>4. UnsavedWorkIsKept'
    BY <1>1, <1>3, <1>7 DEF UnsavedWorkIsKept
  <2>5. QED
    BY <1>4, <2>1, <2>2, <2>3, <2>4
<1>8. CASE /\ Same /\ mode = "served"
           /\ hydration' = [status |-> "fetching", started |-> TRUE]
  <2>1. RequestsAreCurrent'
    BY <1>1, <1>8 DEF RequestsAreCurrent
  <2>2. UntouchedIsClean'
    BY <1>1, <1>3, <1>8 DEF UntouchedIsClean
  <2>3. CleanIsTheProjects'
    BY <1>1, <1>8 DEF CleanIsTheProjects
  <2>4. UnsavedWorkIsKept'
    BY <1>1, <1>3, <1>8 DEF UnsavedWorkIsKept
  <2>5. QED
    BY <1>4, <2>1, <2>2, <2>3, <2>4
<1>9. QED
  BY <1>5, <1>6, <1>7, <1>8

LEMMA ServerReadsKeeps == WorkspaceInv /\ ServerReads => Sound'
<1> SUFFICES ASSUME WorkspaceInv, ServerReads PROVE Sound'
  OBVIOUS
<1> USE DEF WorkspaceInv, Sound
<1>1. ReceiptsAreTrue'
  BY DEF ServerReads, ReceiptsAreTrue
<1>2. RequestsAreCurrent'
  BY DEF ServerReads, RequestsAreCurrent
<1>3. UntouchedIsClean'
  BY DEF ServerReads, UntouchedIsClean
<1>4. CleanIsTheProjects'
  BY DEF ServerReads, CleanIsTheProjects
<1>5. UnsavedWorkIsKept'
  BY DEF ServerReads, Settled, UnsavedWorkIsKept
<1>6. QED
  BY <1>1, <1>2, <1>3, <1>4, <1>5

LEMMA FetchedKeeps == WorkspaceInv /\ Fetched => Sound'
<1> SUFFICES ASSUME WorkspaceInv, Fetched PROVE Sound'
  OBVIOUS
<1> USE DEF WorkspaceInv, Sound
<1>1. /\ mode = "served" /\ hydration = [status |-> "fetching", started |-> TRUE]
      /\ saving.at # "none" => dirty
  BY DEF Fetched, RequestsAreCurrent
<1>2. /\ fetch' = NoFetch /\ mode' = mode /\ draft' = draft /\ offered' = offered
      /\ saving' = saving /\ found' = found /\ touched' = touched /\ bare' = bare
  BY DEF Fetched
<1>3. \/ /\ shown' = fetch.model /\ base' = fetch.model
         /\ dirty' = FALSE /\ armed' = FALSE /\ ~dirty
      \/ shown' = shown /\ dirty' = dirty /\ armed' = armed /\ base' = base
  BY Zenon DEF Fetched, Hydrates, UnsavedWork
<1>4. ReceiptsAreTrue'
  BY <1>2 DEF ReceiptsAreTrue
<1>5. ~touched => ~dirty /\ (found.model # 0 => offered)
  BY <1>1 DEF UntouchedIsClean
<1>6. ~touched => draft = found
  BY DEF UnsavedWorkIsKept
<1>7. CASE /\ shown' = fetch.model /\ base' = fetch.model
           /\ dirty' = FALSE /\ armed' = FALSE /\ ~dirty
  <2>1. RequestsAreCurrent'
    BY <1>1, <1>2, <1>7 DEF RequestsAreCurrent, NoFetch
  <2>2. UntouchedIsClean'
    BY <1>2, <1>5, <1>7 DEF UntouchedIsClean
  <2>3. CleanIsTheProjects'
    BY <1>1, <1>2, <1>7 DEF CleanIsTheProjects
  <2>4. UnsavedWorkIsKept'
    BY <1>2, <1>5, <1>6, <1>7 DEF UnsavedWorkIsKept
  <2>5. QED
    BY <1>4, <2>1, <2>2, <2>3, <2>4
<1>8. CASE shown' = shown /\ dirty' = dirty /\ armed' = armed /\ base' = base
  <2>1. RequestsAreCurrent'
    BY <1>1, <1>2, <1>8 DEF RequestsAreCurrent, NoFetch
  <2>2. UntouchedIsClean'
    BY <1>2, <1>5, <1>8 DEF UntouchedIsClean
  <2>3. CleanIsTheProjects'
    BY <1>2, <1>8 DEF CleanIsTheProjects
  <2>4. UnsavedWorkIsKept'
    BY <1>2, <1>5, <1>6, <1>8 DEF UnsavedWorkIsKept
  <2>5. QED
    BY <1>4, <2>1, <2>2, <2>3, <2>4
<1>9. QED
  BY <1>3, <1>7, <1>8

LEMMA StutterKeeps == WorkspaceInv /\ UNCHANGED workspaceVars => WorkspaceInv'
<1> SUFFICES ASSUME WorkspaceInv, UNCHANGED workspaceVars PROVE WorkspaceInv'
  OBVIOUS
<1> USE DEF WorkspaceInv, Sound, workspaceVars
<1>1. StoreTypeOK'
  BY DEF WorkspaceTypeOK, StoreTypeOK
<1>2. RequestTypeOK'
  BY DEF WorkspaceTypeOK, RequestTypeOK
<1>3. FlagTypeOK'
  BY Zenon DEF WorkspaceTypeOK, FlagTypeOK
<1>4. (armed => dirty)'
  BY DEF WorkspaceTypeOK
<1>5. ReceiptsAreTrue' /\ RequestsAreCurrent'
  BY DEF ReceiptsAreTrue, RequestsAreCurrent
<1>6. UntouchedIsClean'
  BY DEF UntouchedIsClean
<1>7. CleanIsTheProjects' /\ UnsavedWorkIsKept'
  BY DEF CleanIsTheProjects, UnsavedWorkIsKept, Settled
<1>8. QED
  BY <1>1, <1>2, <1>3, <1>4, <1>5, <1>6, <1>7 DEF WorkspaceTypeOK

LEMMA TypesStep == WorkspaceTypeOK /\ WorkspaceNext => WorkspaceTypeOK'
<1> SUFFICES ASSUME WorkspaceTypeOK, WorkspaceNext PROVE WorkspaceTypeOK'
  OBVIOUS
<1>1. StoreTypeOK /\ RequestTypeOK /\ FlagTypeOK /\ (armed => dirty)
  BY DEF WorkspaceTypeOK
<1>2. CASE Edit \/ Restore \/ Discard \/ Retry \/ Reload
  BY <1>1, <1>2, UserStoreType, UserRequestType, UserFlagType DEF WorkspaceTypeOK
<1>3. CASE Autosave \/ BeginSave \/ ServerSaves \/ SaveAnswered \/ SaveFails \/ OthersWrite
  BY <1>1, <1>3, SavingStoreType, SavingRequestType, SavingFlagType DEF WorkspaceTypeOK
<1>4. CASE StatusAnswers \/ StatusFails \/ Decide \/ ServerReads \/ Fetched
  BY <1>1, <1>4, HydrationStoreType, HydrationRequestType, HydrationFlagType
     DEF WorkspaceTypeOK
<1>5. QED
  BY <1>2, <1>3, <1>4 DEF WorkspaceNext

LEMMA WorkspaceStep == WorkspaceInv /\ [WorkspaceNext]_workspaceVars => WorkspaceInv'
<1>1. ASSUME WorkspaceInv, WorkspaceNext PROVE Sound'
  BY <1>1, EditKeeps, RestoreKeeps, DiscardKeeps, RetryKeeps, ReloadKeeps, AutosaveKeeps,
     BeginSaveKeeps, ServerSavesKeeps, SaveAnsweredKeeps, SaveFailsKeeps,
     OthersWriteKeeps, StatusAnswersKeeps, StatusFailsKeeps, DecideKeeps,
     ServerReadsKeeps, FetchedKeeps
     DEF WorkspaceNext
<1>2. ASSUME WorkspaceInv, WorkspaceNext PROVE WorkspaceTypeOK'
  BY <1>2, TypesStep DEF WorkspaceInv
<1>3. QED
  BY <1>1, <1>2, StutterKeeps DEF WorkspaceInv

\* The invariant of a tab, whatever is edited, refused, lost or reloaded.
THEOREM WorkspaceInvariant == WorkspaceSpec => []WorkspaceInv
<1>1. WorkspaceInit => WorkspaceInv
  BY WorkspaceInitially
<1>2. WorkspaceInv /\ [WorkspaceNext]_workspaceVars => WorkspaceInv'
  BY WorkspaceStep
<1>3. QED
  BY <1>1, <1>2, PTL DEF WorkspaceSpec

\* The state of a tab keeps its types, and its autosave timer runs only over
\* unsaved work.
THEOREM WorkspaceTypeCorrect == WorkspaceSpec => []WorkspaceTypeOK
<1>1. WorkspaceInv => WorkspaceTypeOK
  BY DEF WorkspaceInv
<1>2. QED
  BY <1>1, WorkspaceInvariant, PTL

\* The store says clean only of the project's content (markClean, hydrateModel), and
\* in browser mode only of what the draft holds or a draft the user discarded.
THEOREM CleanAlwaysIsTheProjects == WorkspaceSpec => []CleanIsTheProjects
<1>1. WorkspaceInv => CleanIsTheProjects
  BY DEF WorkspaceInv, Sound
<1>2. QED
  BY <1>1, WorkspaceInvariant, PTL

\* Autosave, hydration and the banner between them never lose the work of a session,
\* nor the draft an earlier one left.
THEOREM UnsavedWorkIsAlwaysKept == WorkspaceSpec => []UnsavedWorkIsKept
<1>1. WorkspaceInv => UnsavedWorkIsKept
  BY DEF WorkspaceInv, Sound
<1>2. QED
  BY <1>1, WorkspaceInvariant, PTL

-----------------------------------------------------------------------------
(* The undo stack: what a list keeps.                                       *)

\* How Kept goes through a list, as far as its n-th position.
Keeps(upTo, list, at, n) ==
    /\ upTo = [i \in 0..n |-> upTo[i]]
    /\ upTo[0] = << >>
    /\ \A i \in 1..n :
          upTo[i] = IF i \in at THEN Append(upTo[i - 1], list[i]) ELSE upTo[i - 1]

LEMMA KeepsAsFar ==
    ASSUME NEW list, NEW at, NEW n \in Nat
    PROVE  \E upTo : Keeps(upTo, list, at, n)
<1> DEFINE Wrong == {k \in 0..n : ~ \E upTo : Keeps(upTo, list, at, k)}
<1>1. SUFFICES ASSUME ~ \E upTo : Keeps(upTo, list, at, n) PROVE FALSE
  OBVIOUS
<1>2. Wrong \in SUBSET Nat /\ n \in Wrong
  BY <1>1
<1>3. PICK k \in Wrong : \A j \in Wrong : ~(<<j, k>> \in OpToRel(<, Nat))
  BY <1>2, NatLessThanWellFounded, WFMin
<1>4. CASE k = 0
  <2>1. Keeps([i \in 0..0 |-> << >>], list, at, 0)
    BY DEF Keeps
  <2> QED
    BY <1>4, <2>1
<1>5. CASE k # 0
  <2>1. k \in 1..n /\ k - 1 \in 0..n /\ k - 1 < k /\ k \in Nat /\ k - 1 \in Nat
    BY <1>5
  <2>2. ~(k - 1 \in Wrong)
    <3>1. SUFFICES ASSUME k - 1 \in Wrong PROVE FALSE
      OBVIOUS
    <3>2. ~(<<k - 1, k>> \in OpToRel(<, Nat))
      BY <1>3, <3>1
    <3> QED
      BY <2>1, <3>2 DEF OpToRel
  <2>3. PICK upTo : Keeps(upTo, list, at, k - 1)
    BY <2>1, <2>2
  <2> DEFINE next == IF k \in at THEN Append(upTo[k - 1], list[k]) ELSE upTo[k - 1]
  <2> HIDE DEF next
  <2> DEFINE more == [i \in 0..k |-> IF i = k THEN next ELSE upTo[i]]
  <2>4. /\ more = [i \in 0..k |-> more[i]] /\ more[0] = << >> /\ more[k] = next
        /\ \A i \in 0..k - 1 : more[i] = upTo[i]
    BY <2>1, <2>3 DEF Keeps
  <2> HIDE DEF more
  <2>5. ASSUME NEW i \in 1..k
        PROVE  more[i] = IF i \in at THEN Append(more[i - 1], list[i]) ELSE more[i - 1]
    <3>1. i - 1 \in 0..k - 1 /\ more[i - 1] = upTo[i - 1]
      BY <2>1, <2>4
    <3>2. CASE i = k
      BY <2>4, <3>1, <3>2 DEF next
    <3>3. CASE i # k
      <4>1. i \in 1..k - 1 /\ i \in 0..k - 1
        BY <2>1, <3>3
      <4> QED
        BY <2>3, <2>4, <3>1, <4>1 DEF Keeps
    <3> QED
      BY <3>2, <3>3
  <2>6. Keeps(more, list, at, k)
    BY <2>4, <2>5 DEF Keeps
  <2> QED
    BY <1>3, <2>6
<1> QED
  BY <1>4, <1>5

\* There is one way through a list.
LEMMA SameKeeps ==
    ASSUME NEW list, NEW at, NEW n \in Nat, NEW f, NEW g,
           Keeps(f, list, at, n), Keeps(g, list, at, n)
    PROVE  f[n] = g[n]
<1> DEFINE Wrong == {i \in 0..n : f[i] # g[i]}
<1>1. SUFFICES ASSUME f[n] # g[n] PROVE FALSE
  OBVIOUS
<1>2. Wrong \in SUBSET Nat /\ n \in Wrong
  BY <1>1
<1>3. PICK i \in Wrong : \A j \in Wrong : ~(<<j, i>> \in OpToRel(<, Nat))
  BY <1>2, NatLessThanWellFounded, WFMin
<1>4. i \in 1..n /\ f[i] # g[i]
  BY DEF Keeps
<1>5. f[i - 1] # g[i - 1]
  BY <1>4 DEF Keeps
<1>6. i - 1 \in 0..n /\ i - 1 < i /\ i \in Nat /\ i - 1 \in Nat
  BY <1>4
<1>7. i - 1 \in Wrong
  BY <1>5, <1>6
<1>8. ~(<<i - 1, i>> \in OpToRel(<, Nat))
  BY <1>3, <1>7
<1> QED
  BY <1>6, <1>8 DEF OpToRel

LEMMA KeptIs ==
    ASSUME NEW list, NEW at, Len(list) \in Nat, NEW f, Keeps(f, list, at, Len(list))
    PROVE  Kept(list, at) = f[Len(list)]
<1> DEFINE upTo == CHOOSE h : h = [i \in 0..Len(list) |->
                      IF i = 0 THEN << >>
                      ELSE IF i \in at THEN Append(h[i - 1], list[i]) ELSE h[i - 1]]
<1>1. Kept(list, at) = upTo[Len(list)]
  BY DEF Kept
<1>2. f = [i \in 0..Len(list) |->
             IF i = 0 THEN << >>
             ELSE IF i \in at THEN Append(f[i - 1], list[i]) ELSE f[i - 1]]
  <2>1. \A i \in 0..Len(list) : i = 0 \/ i \in 1..Len(list)
    OBVIOUS
  <2> QED
    BY <2>1 DEF Keeps
<1>3. upTo = [i \in 0..Len(list) |->
                IF i = 0 THEN << >>
                ELSE IF i \in at THEN Append(upTo[i - 1], list[i]) ELSE upTo[i - 1]]
  BY <1>2
<1> HIDE DEF upTo
<1>4. Keeps(upTo, list, at, Len(list))
  <2>1. 0 \in 0..Len(list) /\ \A i \in 1..Len(list) : i \in 0..Len(list) /\ i # 0
    OBVIOUS
  <2> QED
    BY <1>3, <2>1 DEF Keeps
<1> QED
  BY <1>1, <1>4, SameKeeps

\* Whoever keeps a front of a list has that front.
LEMMA KeptFront ==
    ASSUME NEW S, NEW front \in Seq(S), NEW rest \in Seq(S), NEW at,
           \A i \in 1..Len(front) + Len(rest) : i \in at <=> i <= Len(front)
    PROVE  Kept(front \o rest, at) = front
<1> DEFINE list == front \o rest
           n == Len(front)
           f == [i \in 0..Len(list) |-> IF i <= n THEN SubSeq(front, 1, i) ELSE front]
<1>1. /\ n \in Nat /\ Len(rest) \in Nat /\ Len(list) = n + Len(rest) /\ list \in Seq(S)
      /\ \A i \in 1..n : list[i] = front[i]
  OBVIOUS
<1> HIDE DEF list, n
<1>2. SubSeq(front, 1, 0) = << >> /\ SubSeq(front, 1, n) = front
  BY DEF n
<1>3. ASSUME NEW i \in 1..Len(list)
      PROVE  f[i] = IF i \in at THEN Append(f[i - 1], list[i]) ELSE f[i - 1]
  <2>1. i \in 0..Len(list) /\ i - 1 \in 0..Len(list)
    BY <1>1
  <2>2. CASE i <= n
    <3>1. i \in 1..Len(front) /\ i \in 1..Len(front) + Len(rest)
      BY <1>1, <2>1, <2>2 DEF n
    <3>2. SubSeq(front, 1, i) = Append(SubSeq(front, 1, i - 1), front[i])
      <4> DEFINE a == SubSeq(front, 1, i)
                 b == SubSeq(front, 1, i - 1)
                 c == Append(b, front[i])
      <4>1. a \in Seq(S) /\ Len(a) = i /\ \A j \in 1..i : a[j] = front[j]
        BY <3>1
      <4>2. b \in Seq(S) /\ Len(b) = i - 1 /\ \A j \in 1..(i - 1) : b[j] = front[j]
        BY <3>1
      <4>3. front[i] \in S
        BY <3>1
      <4> HIDE DEF a, b
      <4>4. c \in Seq(S) /\ Len(c) = i /\ \A j \in 1..i : c[j] = front[j]
        BY <3>1, <4>2, <4>3
      <4> HIDE DEF c
      <4>5. a = c
        BY <4>1, <4>4, SeqEqual
      <4> QED
        BY <4>5 DEF a, b, c
    <3>3. i \in at /\ list[i] = front[i]
      BY <1>1, <3>1, <2>2 DEF n
    <3> QED
      BY <1>1, <2>1, <2>2, <3>2, <3>3
  <2>3. CASE ~(i <= n)
    <3>1. ~(i \in at)
      BY <1>1, <2>3 DEF n
    <3>2. f[i - 1] = front
      BY <1>1, <1>2, <2>1, <2>3
    <3> QED
      BY <2>1, <2>3, <3>1, <3>2
  <2> QED
    BY <2>2, <2>3
<1>4. f[0] = << >> /\ f[Len(list)] = front
  BY <1>1, <1>2
<1>5. f = [i \in 0..Len(list) |-> f[i]]
  OBVIOUS
<1> HIDE DEF f
<1>6. Keeps(f, list, at, Len(list))
  BY <1>3, <1>4, <1>5 DEF Keeps
<1>7. Len(list) \in Nat
  BY <1>1
<1>8. Kept(list, at) = f[Len(list)]
  BY ONLY <1>6, <1>7, KeptIs
<1> QED
  BY ONLY <1>4, <1>8 DEF list

LEMMA AppendBehind ==
    ASSUME NEW S, NEW s \in Seq(S), NEW t \in Seq(S), NEW x \in S
    PROVE  s \o Append(t, x) = Append(s \o t, x)
<1>1. << x >> \in Seq(S) /\ s \o t \in Seq(S)
  OBVIOUS
<1>2. Append(t, x) = t \o << x >> /\ Append(s \o t, x) = (s \o t) \o << x >>
  BY <1>1, AppendIsConcat
<1> QED
  BY <1>1, <1>2, ConcatAssociative

\* Whoever keeps all but one position has what is around it.
LEMMA KeptAround ==
    ASSUME NEW S, NEW list \in Seq(S), NEW k \in 1..Len(list), NEW at,
           \A i \in 1..Len(list) : i \in at <=> i # k
    PROVE  Kept(list, at) = SubSeq(list, 1, k - 1) \o SubSeq(list, k + 1, Len(list))
<1> DEFINE n == Len(list)
           before == SubSeq(list, 1, k - 1)
           f == [i \in 0..n |-> IF i < k THEN SubSeq(list, 1, i)
                                ELSE before \o SubSeq(list, k + 1, i)]
<1>1. n \in Nat /\ k \in Nat /\ k <= n /\ k >= 1
  OBVIOUS
<1>2. before \in Seq(S) /\ Len(before) = k - 1 /\ \A j \in 1..(k - 1) : before[j] = list[j]
  BY <1>1
<1>3. ASSUME NEW i \in k..n, NEW s, s = SubSeq(list, k + 1, i)
      PROVE  s \in Seq(S) /\ Len(s) = i - k /\ \A j \in 1..(i - k) : s[j] = list[k + j]
  <2>1. CASE i = k
    <3>1. s = << >>
      BY <1>1, <1>3, <2>1
    <3> QED
      BY <1>1, <2>1, <3>1
  <2>2. CASE i # k
    <3>1. k + 1 \in 1..n /\ i \in (k + 1)..n
      BY <1>1, <2>2
    <3>2. s \in Seq(S) /\ Len(s) = i - (k + 1) + 1
      BY <1>3, <3>1
    <3>3. \A j \in 1..(i - k) : s[j] = list[k + 1 + j - 1]
      BY <1>1, <1>3, <3>1, <3>2
    <3>4. \A j \in 1..(i - k) : k + 1 + j - 1 = k + j
      BY <1>1
    <3> QED
      BY <1>1, <3>2, <3>3, <3>4
  <2> QED
    BY <2>1, <2>2
<1>4. ASSUME NEW i \in 1..n
      PROVE  f[i] = IF i \in at THEN Append(f[i - 1], list[i]) ELSE f[i - 1]
  <2>1. i \in 0..n /\ i - 1 \in 0..n /\ list[i] \in S
    BY <1>1
  <2>2. CASE i < k
    <3> DEFINE a == SubSeq(list, 1, i)
               b == SubSeq(list, 1, i - 1)
               c == Append(b, list[i])
    <3>1. a \in Seq(S) /\ Len(a) = i /\ \A j \in 1..i : a[j] = list[j]
      BY <1>1, <2>1, <2>2
    <3>2. b \in Seq(S) /\ Len(b) = i - 1 /\ \A j \in 1..(i - 1) : b[j] = list[j]
      BY <1>1, <2>1, <2>2
    <3> HIDE DEF a, b
    <3>3. c \in Seq(S) /\ Len(c) = i /\ \A j \in 1..i : c[j] = list[j]
      BY <2>1, <3>2
    <3> HIDE DEF c
    <3>4. a = c
      BY <3>1, <3>3, SeqEqual
    <3>5. i \in at /\ i - 1 < k
      BY <1>1, <2>2
    <3>6. f[i] = a /\ f[i - 1] = b
      BY <2>1, <2>2, <3>5 DEF a, b
    <3> QED
      BY <3>4, <3>5, <3>6 DEF c
  <2>3. CASE i = k
    <3>1. SubSeq(list, k + 1, k) = << >>
      BY <1>1
    <3>2. f[i] = before
      <4> HIDE DEF before
      <4>1. f[i] = before \o SubSeq(list, k + 1, k)
        BY <2>1, <2>3
      <4>2. before \o << >> = before
        BY <1>2
      <4> QED
        BY ONLY <3>1, <4>1, <4>2
    <3>3. ~(i \in at) /\ i - 1 < k /\ i - 1 = k - 1
      BY <1>1, <2>3
    <3>4. f[i - 1] = before
      BY <2>1, <3>3
    <3> QED
      BY <3>2, <3>3, <3>4
  <2>4. CASE i > k
    <3> DEFINE a == SubSeq(list, k + 1, i)
               b == SubSeq(list, k + 1, i - 1)
               c == Append(b, list[i])
    <3>0. i \in k..n /\ i - 1 \in k..n
      BY <1>1, <2>4
    <3>1. a \in Seq(S) /\ Len(a) = i - k /\ \A j \in 1..(i - k) : a[j] = list[k + j]
      BY <1>3, <3>0
    <3>2. b \in Seq(S) /\ Len(b) = (i - 1) - k /\ \A j \in 1..((i - 1) - k) : b[j] = list[k + j]
      BY <1>3, <3>0
    <3> HIDE DEF a, b
    <3>3. c \in Seq(S) /\ Len(c) = i - k /\ \A j \in 1..(i - k) : c[j] = list[k + j]
      BY <1>1, <2>1, <2>4, <3>2
    <3> HIDE DEF c
    <3>4. a = c
      BY <3>1, <3>3, SeqEqual
    <3>5. before \o c = Append(before \o b, list[i])
      <4> HIDE DEF before
      <4>1. before \o Append(b, list[i]) = Append(before \o b, list[i])
        BY <1>2, <2>1, <3>2, AppendBehind
      <4> QED
        BY <3>4, <4>1 DEF c
    <3>6. i \in at /\ ~(i < k) /\ ~(i - 1 < k)
      BY <1>1, <2>4
    <3> QED
      BY <2>1, <3>4, <3>5, <3>6 DEF a, b, c
  <2> QED
    BY <1>1, <2>2, <2>3, <2>4
<1>5. f[0] = << >> /\ f[n] = before \o SubSeq(list, k + 1, n)
  <2>1. 0 \in 0..n /\ n \in 0..n /\ 0 < k /\ ~(n < k)
    BY <1>1
  <2>2. SubSeq(list, 1, 0) = << >>
    BY <1>1
  <2> QED
    BY <2>1, <2>2
<1>6. f = [i \in 0..n |-> f[i]]
  OBVIOUS
<1> HIDE DEF f
<1>7. Keeps(f, list, at, n)
  BY <1>4, <1>5, <1>6 DEF Keeps
<1>8. Kept(list, at) = f[n]
  BY <1>1, <1>7, KeptIs
<1> QED
  BY <1>5, <1>8

\* What is kept is of the list, and each of its things once if the list has them once.
OneEach(list, at) ==
    \A i, j \in 1..Len(list) : i \in at /\ j \in at /\ list[i].id = list[j].id => i = j
KeptFrom(kept, list, at, n) ==
    /\ kept \in Seq({list[i] : i \in 1..Len(list)})
    /\ \A a \in 1..Len(kept) : \E i \in 1..n : i \in at /\ kept[a] = list[i]
    /\ \A a, b \in 1..Len(kept) : kept[a].id = kept[b].id => a = b

LEMMA KeptOnce ==
    ASSUME NEW list, NEW at, Len(list) \in Nat, OneEach(list, at)
    PROVE  KeptFrom(Kept(list, at), list, at, Len(list))
<1> DEFINE n == Len(list)
           things == {list[i] : i \in 1..n}
<1>1. PICK f : Keeps(f, list, at, n)
  BY KeepsAsFar
<1>2. Kept(list, at) = f[n]
  BY <1>1, KeptIs
<1> DEFINE Wrong == {i \in 0..n : ~KeptFrom(f[i], list, at, i)}
<1>3. SUFFICES ASSUME ~KeptFrom(f[n], list, at, n) PROVE FALSE
  BY <1>2
<1>4. Wrong \in SUBSET Nat /\ n \in Wrong
  BY <1>3
<1>5. PICK i \in Wrong : \A j \in Wrong : ~(<<j, i>> \in OpToRel(<, Nat))
  BY <1>4, NatLessThanWellFounded, WFMin
<1>6. i # 0
  <2>1. SUFFICES ASSUME i = 0 PROVE FALSE
    OBVIOUS
  <2>2. f[0] = << >>
    BY <1>1 DEF Keeps
  <2>3. KeptFrom(<< >>, list, at, 0)
    BY DEF KeptFrom
  <2> QED
    BY <1>5, <2>1, <2>2, <2>3
<1>7. i \in 1..n /\ i - 1 \in 0..n /\ i - 1 < i /\ i \in Nat /\ i - 1 \in Nat
  BY <1>6
<1>8. ~(i - 1 \in Wrong)
  <2>1. SUFFICES ASSUME i - 1 \in Wrong PROVE FALSE
    OBVIOUS
  <2>2. ~(<<i - 1, i>> \in OpToRel(<, Nat))
    BY <1>5, <2>1
  <2> QED
    BY <1>7, <2>2 DEF OpToRel
<1>9. KeptFrom(f[i - 1], list, at, i - 1)
  BY <1>7, <1>8
<1>10. KeptFrom(f[i], list, at, i)
  <2> DEFINE b == f[i - 1]
  <2>1. /\ b \in Seq(things)
        /\ \A p \in 1..Len(b) : \E j \in 1..(i - 1) : j \in at /\ b[p] = list[j]
        /\ \A p, q \in 1..Len(b) : b[p].id = b[q].id => p = q
    BY <1>9 DEF KeptFrom
  <2>2. f[i] = IF i \in at THEN Append(b, list[i]) ELSE b
    BY <1>1, <1>7 DEF Keeps
  <2> HIDE DEF b
  <2>3. CASE ~(i \in at)
    <3>1. f[i] = b
      BY <2>2, <2>3
    <3>2. \A j \in 1..(i - 1) : j \in 1..i
      BY <1>7
    <3> QED
      BY <2>1, <3>1, <3>2 DEF KeptFrom
  <2>4. CASE i \in at
    <3> DEFINE c == Append(b, list[i])
               m == Len(b)
    <3>1. list[i] \in things /\ m \in Nat
      BY <1>7, <2>1
    <3>2. c \in Seq(things) /\ Len(c) = m + 1 /\ c[m + 1] = list[i]
          /\ \A p \in 1..m : c[p] = b[p]
      BY <2>1, <3>1
    <3> HIDE DEF c, m
    <3>3. ASSUME NEW p \in 1..(m + 1) PROVE \E j \in 1..i : j \in at /\ c[p] = list[j]
      <4>1. CASE p = m + 1
        BY <1>7, <2>4, <3>2, <4>1
      <4>2. CASE p # m + 1
        <5>1. p \in 1..m
          BY <3>1, <4>2
        <5>2. PICK j \in 1..(i - 1) : j \in at /\ b[p] = list[j]
          BY <2>1, <5>1 DEF m
        <5>3. j \in 1..i
          BY <1>7
        <5> QED
          BY <3>2, <5>1, <5>2, <5>3
      <4> QED
        BY <4>1, <4>2
    <3>4. ASSUME NEW p \in 1..m PROVE c[p].id # c[m + 1].id
      <4>1. PICK j \in 1..(i - 1) : j \in at /\ b[p] = list[j]
        BY <2>1 DEF m
      <4>2. j \in 1..Len(list) /\ i \in 1..Len(list) /\ j # i
        BY <1>7
      <4>3. list[j].id # list[i].id
        BY <2>4, <4>1, <4>2 DEF OneEach
      <4> QED
        BY <3>2, <4>1, <4>3
    <3>5. ASSUME NEW p \in 1..(m + 1), NEW q \in 1..(m + 1), c[p].id = c[q].id PROVE p = q
      <4>1. CASE p \in 1..m /\ q \in 1..m
        BY <2>1, <3>2, <3>5, <4>1 DEF m
      <4>2. CASE p = m + 1
        BY <3>1, <3>4, <3>5, <4>2
      <4>3. CASE q = m + 1
        BY <3>1, <3>4, <3>5, <4>3
      <4> QED
        BY <3>1, <4>1, <4>2, <4>3
    <3>6. f[i] = c
      BY <2>2, <2>4 DEF c
    <3> QED
      BY <3>2, <3>3, <3>5, <3>6 DEF KeptFrom
  <2> QED
    BY <2>3, <2>4
<1> QED
  BY <1>5, <1>10

-----------------------------------------------------------------------------
(* The undo stack: models and patches.                                      *)

CRSs == {"lonlat", "metric"}
Things(S) == [id : Ids \cup MintedIds, shape : S, crs : CRSs, props : Props]
ModelsOf(S) == [features : Seq(Things(S)), receivers : Seq(Things(S)),
              area : {NoArea, "area"}, crs : CRSs]

LEMMA ModelLists ==
    ASSUME NEW S, NEW m \in ModelsOf(S), NEW list \in Lists
    PROVE  /\ m[list] \in Seq(Things(S)) /\ DOMAIN m[list] = 1..Len(m[list]) /\ Len(m[list]) \in Nat
           /\ \A i \in 1..Len(m[list]) : m[list][i] \in Things(S)
<1>1. CASE list = "features"
  BY <1>1 DEF ModelsOf
<1>2. CASE list = "receivers"
  BY <1>2 DEF ModelsOf
<1> QED
  BY <1>1, <1>2 DEF Lists

With(m, list, l) == [m EXCEPT ![list] = l]
WithArea(m, area) == [m EXCEPT !.area = area]

LEMMA ListReplaced ==
    ASSUME NEW S, NEW m \in ModelsOf(S), NEW list \in Lists, NEW l \in Seq(Things(S))
    PROVE  /\ With(m, list, l) \in ModelsOf(S) /\ With(m, list, l)[list] = l
           /\ With(m, list, l).area = m.area /\ With(m, list, l).crs = m.crs
           /\ \A other \in Lists : other # list => With(m, list, l)[other] = m[other]
<1>1. CASE list = "features"
  BY <1>1 DEF ModelsOf, Lists, With
<1>2. CASE list = "receivers"
  BY <1>2 DEF ModelsOf, Lists, With
<1> QED
  BY <1>1, <1>2 DEF Lists

LEMMA ListReplacedTwice ==
    ASSUME NEW S, NEW m \in ModelsOf(S), NEW list \in Lists, NEW k, NEW l
    PROVE  /\ With(With(m, list, k), list, l) = With(m, list, l)
           /\ With(m, list, m[list]) = m
<1>1. CASE list = "features"
  BY <1>1 DEF ModelsOf, Lists, With
<1>2. CASE list = "receivers"
  BY <1>2 DEF ModelsOf, Lists, With
<1> QED
  BY <1>1, <1>2 DEF Lists

Swapped(list, by) == [i \in DOMAIN list |-> IF i \in DOMAIN by THEN by[i] ELSE list[i]]

\* The patches by name.
AppendPatch(list, x) == [do |-> "append", list |-> list, x |-> x]
DropPatch(list, id) == [do |-> "drop", list |-> list, id |-> id]
PutPatch(list, x) == [do |-> "put", list |-> list, x |-> x]
SplicePatch(list, at, x) == [do |-> "splice", list |-> list, at |-> at, x |-> x]
SwapPatch(by) == [do |-> "swap", by |-> by]
AreaPatch(area) == [do |-> "area", area |-> area]
LandPatch(gone, plan) == [do |-> "land", gone |-> gone, plan |-> plan]
UnlandPatch(area, crs, ids) == [do |-> "unland", area |-> area, crs |-> crs, ids |-> ids]
RestorePatch(model) == [do |-> "restore", model |-> model]

\* What the patches do to a model.
LEMMA AppliedAppend ==
    ASSUME NEW m, NEW list, NEW x
    PROVE  Apply(AppendPatch(list, x), m) =
              With(m, list, Append(m[list], x))
  BY DEF Apply, With, AppendPatch
LEMMA AppliedDrop ==
    ASSUME NEW m, NEW list, NEW id
    PROVE  Apply(DropPatch(list, id), m) =
              With(m, list, Without(m[list], {id}))
  BY DEF Apply, With, DropPatch
LEMMA AppliedPut ==
    ASSUME NEW m, NEW list, NEW x
    PROVE  Apply(PutPatch(list, x), m) =
              With(m, list, Put(m[list], x))
  BY DEF Apply, With, PutPatch
LEMMA AppliedSplice ==
    ASSUME NEW m, NEW list, NEW at, NEW x
    PROVE  Apply(SplicePatch(list, at, x), m) =
              With(m, list, SpliceIn(m[list], at, x))
  BY DEF Apply, With, SplicePatch
LEMMA AppliedSwap ==
    ASSUME NEW m, NEW by
    PROVE  Apply(SwapPatch(by), m) =
              With(m, "features", Swapped(m.features, by))
  BY DEF Apply, With, Swapped, SwapPatch
LEMMA AppliedArea ==
    ASSUME NEW m, NEW area
    PROVE  Apply(AreaPatch(area), m) =
              WithArea(m, area)
  BY DEF Apply, WithArea, AreaPatch
LEMMA AppliedLand ==
    ASSUME NEW m, NEW gone, NEW plan
    PROVE  Apply(LandPatch(gone, plan), m) =
              [features |-> Outside(m.features, gone) \o plan.features,
               receivers |-> m.receivers \o plan.receivers,
               area |-> plan.area, crs |-> plan.crs]
  BY DEF Apply, LandPatch
LEMMA AppliedUnland ==
    ASSUME NEW m, NEW area, NEW crs, NEW ids
    PROVE  Apply(UnlandPatch(area, crs, ids), m) =
              [features |-> Without(m.features, ids),
               receivers |-> Without(m.receivers, ids), area |-> area, crs |-> crs]
  BY DEF Apply, UnlandPatch
LEMMA AppliedRestore ==
    ASSUME NEW m, NEW model
    PROVE  Apply(RestorePatch(model), m) =
              model
  BY DEF Apply, RestorePatch

\* Putting a thing over its namesakes.
LEMMA PutIs ==
    ASSUME NEW S, NEW list \in Seq(Things(S)), NEW x \in Things(S)
    PROVE  /\ Put(list, x) \in Seq(Things(S)) /\ Len(Put(list, x)) = Len(list)
           /\ \A i \in 1..Len(list) :
                 /\ Put(list, x)[i] = IF list[i].id = x.id THEN x ELSE list[i]
                 /\ Put(list, x)[i].id = list[i].id
           /\ \A y \in Things(S) : y.id = x.id => Put(Put(list, x), y) = Put(list, y)
<1> DEFINE put == Put(list, x)
<1>1. put \in Seq(Things(S)) /\ Len(put) = Len(list)
  BY DEF Put
<1>2. \A i \in 1..Len(list) : /\ put[i] = IF list[i].id = x.id THEN x ELSE list[i]
                              /\ put[i].id = list[i].id
  BY DEF Put
<1>3. ASSUME NEW y \in Things(S), y.id = x.id PROVE Put(put, y) = Put(list, y)
  <2> HIDE DEF put
  <2>1. Put(put, y) \in Seq(Things(S)) /\ Len(Put(put, y)) = Len(list)
    BY <1>1 DEF Put
  <2>2. Put(list, y) \in Seq(Things(S)) /\ Len(Put(list, y)) = Len(list)
    BY DEF Put
  <2>3. ASSUME NEW i \in 1..Len(list) PROVE Put(put, y)[i] = Put(list, y)[i]
    <3>1. put[i].id = list[i].id /\ put[i] = IF list[i].id = x.id THEN x ELSE list[i]
      BY <1>2
    <3>2. Put(put, y)[i] = IF put[i].id = y.id THEN y ELSE put[i]
      BY <1>1 DEF Put
    <3>3. Put(list, y)[i] = IF list[i].id = y.id THEN y ELSE list[i]
      BY DEF Put
    <3> QED
      BY <1>3, <3>1, <3>2, <3>3
  <2> QED
    BY <2>1, <2>2, <2>3, SeqEqual
<1> QED
  BY <1>1, <1>2, <1>3

-----------------------------------------------------------------------------
(* The undo stack: every patch is taken back by its undo.                   *)

LEMMA PutBack ==
    ASSUME NEW S, NEW list \in Seq(Things(S)), EachOnce(list), NEW at \in 1..Len(list),
           NEW x \in Things(S), x.id = list[at].id
    PROVE  Put(Put(list, x), list[at]) = list
<1> DEFINE old == list[at]
<1>1. old \in Things(S) /\ old.id = x.id
  OBVIOUS
<1>2. \A i \in 1..Len(list) : list[i].id = old.id => list[i] = old
  BY DEF EachOnce
<1> HIDE DEF old
<1>3. Put(Put(list, x), old) = Put(list, old)
  BY <1>1, PutIs
<1>4. /\ Put(list, old) \in Seq(Things(S)) /\ Len(Put(list, old)) = Len(list)
      /\ \A i \in 1..Len(list) :
            Put(list, old)[i] = IF list[i].id = old.id THEN old ELSE list[i]
  BY <1>1, PutIs
<1>5. \A i \in 1..Len(list) : Put(list, old)[i] = list[i]
  BY <1>2, <1>4
<1>6. Put(list, old) = list
  BY <1>4, <1>5, SeqEqual
<1> QED
  BY <1>3, <1>6 DEF old

\* Two ways to write which positions a list keeps.
LEMMA WithoutIs ==
    ASSUME NEW S, NEW list \in Seq(S), NEW ids
    PROVE  Without(list, ids) = Kept(list, {i \in 1..Len(list) : list[i].id \notin ids})
  BY DEF Without

LEMMA UnlandBack ==
    ASSUME NEW S, NEW list \in Seq(S), NEW new \in Seq(S), NEW ids,
           \A i \in 1..Len(list) : list[i].id \notin ids,
           \A i \in 1..Len(new) : new[i].id \in ids
    PROVE  Without(list \o new, ids) = list
<1> DEFINE both == list \o new
           at == {i \in 1..Len(both) : both[i].id \notin ids}
<1>1. /\ both \in Seq(S) /\ Len(both) = Len(list) + Len(new)
      /\ \A i \in 1..Len(both) : both[i] = IF i <= Len(list) THEN list[i] ELSE new[i - Len(list)]
  OBVIOUS
<1>2. ASSUME NEW i \in 1..Len(list) + Len(new) PROVE i \in at <=> i <= Len(list)
  <2>1. i \in 1..Len(both)
    BY <1>1
  <2>2. CASE i <= Len(list)
    BY <1>1, <2>1, <2>2
  <2>3. CASE ~(i <= Len(list))
    <3>1. i - Len(list) \in 1..Len(new)
      BY <2>3
    <3> QED
      BY <1>1, <2>1, <2>3, <3>1
  <2> QED
    BY <2>2, <2>3
<1>3. Kept(both, at) = list
  <2> HIDE DEF at
  <2> QED
    BY <1>2, KeptFront
<1>4. Without(both, ids) = Kept(both, at)
  <2> HIDE DEF both
  <2> QED
    BY <1>1, WithoutIs
<1> QED
  BY <1>3, <1>4

LEMMA AppendBack ==
    ASSUME NEW S, NEW list \in Seq(S), NEW x \in S, \A i \in 1..Len(list) : list[i].id # x.id
    PROVE  Without(Append(list, x), {x.id}) = list
<1>1. << x >> \in Seq(S) /\ Append(list, x) = list \o << x >>
  BY AppendIsConcat
<1>2. \A i \in 1..Len(<< x >>) : << x >>[i].id \in {x.id}
  OBVIOUS
<1>3. Without(list \o << x >>, {x.id}) = list
  BY <1>1, <1>2, UnlandBack
<1> QED
  BY <1>1, <1>3

LEMMA DropBack ==
    ASSUME NEW S, NEW list \in Seq(S), EachOnce(list), NEW at \in 1..Len(list)
    PROVE  /\ Without(list, {list[at].id}) \in Seq(S)
           /\ SpliceIn(Without(list, {list[at].id}), at, list[at]) = list
<1> DEFINE n == Len(list)
           before == SubSeq(list, 1, at - 1)
           after == SubSeq(list, at + 1, n)
           less == before \o after
<1>0. n \in Nat /\ at \in Nat /\ at >= 1 /\ at <= n /\ list[at] \in S
  OBVIOUS
<1>1. /\ before \in Seq(S) /\ Len(before) = at - 1
      /\ \A i \in 1..(at - 1) : before[i] = list[i]
  OBVIOUS
<1>2. /\ after \in Seq(S) /\ Len(after) = n - at
      /\ \A i \in 1..(n - at) : after[i] = list[at + i]
  <2>1. CASE at = n
    <3>1. after = << >>
      BY <2>1
    <3> QED
      BY <2>1, <3>1
  <2>2. CASE at # n
    <3>1. at + 1 \in 1..n /\ n \in (at + 1)..n
      BY <1>0, <2>2
    <3>2. after \in Seq(S) /\ Len(after) = n - (at + 1) + 1
      BY <3>1
    <3>3. \A i \in 1..(n - at) : after[i] = list[at + 1 + i - 1]
      BY <1>0, <3>1, <3>2
    <3>4. \A i \in 1..(n - at) : at + 1 + i - 1 = at + i
      BY <1>0
    <3> QED
      BY <1>0, <3>2, <3>3, <3>4
  <2> QED
    BY <2>1, <2>2
<1>3. Without(list, {list[at].id}) = less
  <2> DEFINE kept == {i \in 1..n : list[i].id \notin {list[at].id}}
  <2>1. \A i \in 1..n : i \in kept <=> i # at
    BY <1>0 DEF EachOnce
  <2>2. Without(list, {list[at].id}) = Kept(list, kept)
    BY WithoutIs
  <2> HIDE DEF kept
  <2> QED
    BY <2>1, <2>2, KeptAround
<1> HIDE DEF before, after
<1>4. /\ less \in Seq(S) /\ Len(less) = n - 1
      /\ \A i \in 1..(n - 1) : less[i] = IF i <= at - 1 THEN before[i] ELSE after[i - (at - 1)]
  BY <1>0, <1>1, <1>2
<1>5. SpliceIn(less, at, list[at]) = list
  <2> DEFINE k == IF at > Len(less) THEN Len(less) + 1 ELSE at
  <2>1. k = at
    BY <1>0, <1>4
  <2>2. SubSeq(less, 1, at - 1) = before
    <3> DEFINE s == SubSeq(less, 1, at - 1)
    <3>1. /\ s \in Seq(S) /\ Len(s) = at - 1
          /\ \A i \in 1..(at - 1) : s[i] = less[i]
      <4> HIDE DEF less
      <4> QED
        BY <1>0, <1>4
    <3>2. ASSUME NEW i \in 1..(at - 1) PROVE s[i] = before[i]
      <4>1. i \in 1..(n - 1) /\ i <= at - 1
        BY <1>0
      <4> HIDE DEF less, s
      <4> QED
        BY <1>4, <3>1, <4>1
    <3> HIDE DEF s, less
    <3>3. s = before
      BY <1>1, <3>1, <3>2, SeqEqual
    <3> QED
      BY <3>3 DEF s
  <2>3. SubSeq(less, at, Len(less)) = after
    <3> DEFINE s == SubSeq(less, at, Len(less))
    <3>1. /\ s \in Seq(S) /\ Len(s) = n - at
          /\ \A i \in 1..(n - at) : s[i] = less[at + i - 1]
      <4> HIDE DEF less
      <4>1. CASE at = n
        <5>1. s = << >>
          BY <1>0, <1>4, <4>1
        <5> QED
          BY <1>0, <4>1, <5>1
      <4>2. CASE at # n
        <5>1. at \in 1..Len(less) /\ Len(less) \in at..Len(less)
          BY <1>0, <1>4, <4>2
        <5>2. s \in Seq(S) /\ Len(s) = Len(less) - at + 1
          BY <1>4, <5>1
        <5> QED
          BY <1>0, <1>4, <5>1, <5>2
      <4> QED
        BY <4>1, <4>2
    <3>2. ASSUME NEW i \in 1..(n - at) PROVE s[i] = after[i]
      <4>1. at + i - 1 \in 1..(n - 1) /\ ~(at + i - 1 <= at - 1) /\ (at + i - 1) - (at - 1) = i
        BY <1>0
      <4> QED
        BY <1>4, <3>1, <4>1
    <3> HIDE DEF s, less
    <3>3. s = after
      BY <1>0, <1>2, <3>1, <3>2, SeqEqual
    <3> QED
      BY <3>3 DEF s
  <2>4. SpliceIn(less, at, list[at]) = (before \o << list[at] >>) \o after
    BY <2>1, <2>2, <2>3 DEF SpliceIn
  <2> DEFINE front == before \o << list[at] >>
             all == front \o after
  <2>5. /\ front \in Seq(S) /\ Len(front) = at /\ \A i \in 1..(at - 1) : front[i] = list[i]
        /\ front[at] = list[at]
    BY <1>0, <1>1
  <2> HIDE DEF front
  <2>6. /\ all \in Seq(S) /\ Len(all) = n
        /\ \A i \in 1..n : all[i] = IF i <= at THEN front[i] ELSE after[i - at]
    <3>0. front \in Seq(S) /\ after \in Seq(S)
      BY <1>2, <2>5
    <3>1. /\ all \in Seq(S) /\ Len(all) = Len(front) + Len(after)
          /\ \A i \in 1..Len(front) + Len(after) :
                all[i] = IF i <= Len(front) THEN front[i] ELSE after[i - Len(front)]
      BY <3>0, ConcatProperties
    <3>2. Len(front) + Len(after) = n
      BY <1>0, <1>2, <2>5
    <3> HIDE DEF all
    <3> QED
      BY <2>5, <3>1, <3>2
  <2>7. ASSUME NEW i \in 1..n PROVE all[i] = list[i]
    <3>1. CASE i <= at
      BY <1>0, <2>5, <2>6, <3>1
    <3>2. CASE ~(i <= at)
      <4>1. i - at \in 1..(n - at) /\ at + (i - at) = i
        BY <1>0, <3>2
      <4> QED
        BY <1>2, <2>6, <3>2, <4>1
    <3> QED
      BY <3>1, <3>2
  <2> HIDE DEF all
  <2>8. all = list
    BY <2>6, <2>7, SeqEqual
  <2> QED
    BY <2>4, <2>8 DEF all, front
<1> QED
  BY <1>3, <1>4, <1>5

-----------------------------------------------------------------------------
(* The undo stack: models in which an id is of one object.                  *)

Sane(S, known, m) ==
    /\ m \in ModelsOf(S) /\ OneObjectPerId(m)
    /\ IdsIn(m.features) \cup IdsIn(m.receivers) \subseteq known

LEMMA SaneLists ==
    ASSUME NEW S, NEW known, NEW m, Sane(S, known, m), NEW list \in Lists
    PROVE  /\ m[list] \in Seq(Things(S)) /\ EachOnce(m[list]) /\ IdsIn(m[list]) \subseteq known
           /\ \A other \in Lists : other # list => IdsIn(m[list]) \cap IdsIn(m[other]) = {}
           /\ \A i \in 1..Len(m[list]) : m[list][i] \in Things(S) /\ m[list][i].id \in known
<1>1. m[list] \in Seq(Things(S)) /\ DOMAIN m[list] = 1..Len(m[list])
  BY ModelLists DEF Sane
<1>2. \A i \in 1..Len(m[list]) : m[list][i] \in Things(S) /\ m[list][i].id \in IdsIn(m[list])
  BY <1>1 DEF IdsIn
<1>3. CASE list = "features"
  BY <1>1, <1>2, <1>3 DEF Sane, OneObjectPerId, Lists
<1>4. CASE list = "receivers"
  BY <1>1, <1>2, <1>4 DEF Sane, OneObjectPerId, Lists
<1> QED
  BY <1>3, <1>4 DEF Lists

LEMMA SaneWith ==
    ASSUME NEW S, NEW known, NEW m, Sane(S, known, m), NEW list \in Lists,
           NEW l \in Seq(Things(S)), EachOnce(l), IdsIn(l) \subseteq known,
           \A other \in Lists : other # list => IdsIn(l) \cap IdsIn(m[other]) = {}
    PROVE  Sane(S, known, With(m, list, l))
<1> DEFINE w == With(m, list, l)
<1>1. m \in ModelsOf(S)
  BY DEF Sane
<1>2. /\ w \in ModelsOf(S) /\ w[list] = l
      /\ \A other \in Lists : other # list => w[other] = m[other]
  BY <1>1, ListReplaced
<1> HIDE DEF w
<1>3. ASSUME list = "features" PROVE Sane(S, known, w)
  <2>1. w.features = l /\ w.receivers = m.receivers
    BY <1>2, <1>3 DEF Lists
  <2>2. IdsIn(l) \cap IdsIn(m.receivers) = {}
    BY <1>3 DEF Lists
  <2> QED
    BY <1>2, <2>1, <2>2 DEF Sane, OneObjectPerId
<1>4. ASSUME list = "receivers" PROVE Sane(S, known, w)
  <2>1. w.receivers = l /\ w.features = m.features
    BY <1>2, <1>4 DEF Lists
  <2>2. IdsIn(l) \cap IdsIn(m.features) = {}
    BY <1>4 DEF Lists
  <2> QED
    BY <1>2, <2>1, <2>2 DEF Sane, OneObjectPerId
<1> QED
  BY <1>3, <1>4 DEF Lists, w

LEMMA SaneMore ==
    ASSUME NEW S, NEW known, NEW more, known \subseteq more, NEW m, Sane(S, known, m)
    PROVE  Sane(S, more, m)
  BY DEF Sane

LEMMA FirstOfIs ==
    ASSUME NEW S, NEW list \in Seq(Things(S)), EachOnce(list), NEW id \in IdsIn(list)
    PROVE  FirstOf(list, id) \in 1..Len(list) /\ list[FirstOf(list, id)].id = id
<1>1. DOMAIN list = 1..Len(list) /\ Len(list) \in Nat
  OBVIOUS
<1>2. PICK i \in 1..Len(list) : list[i].id = id
  BY <1>1 DEF IdsIn
<1>3. i \in Positions(list, id) /\ \A j \in Positions(list, id) : i = j /\ i <= j
  BY <1>1, <1>2 DEF Positions, EachOnce
<1>4. FirstOf(list, id) = i
  BY <1>3 DEF FirstOf
<1> QED
  BY <1>2, <1>4

-----------------------------------------------------------------------------
(* The undo stack: what an edit makes of a model, and that it can be taken  *)
(* back.                                                                    *)

Known == Ids \cup minted

\* A command that can be gone on with puts one object, both ways.
PutsOne(S, c, list, id) ==
    \E x, y \in Things(S) : /\ x.id = id /\ y.id = id
                            /\ c.redo = PutPatch(list, x) /\ c.undo = PutPatch(list, y)
GoesOnWith(S, c) ==
    c.key # NoKey => \E list \in Lists : Found(list, c.key) /\ PutsOne(S, c, list, c.key)

\* Carrying a command out over the store as it is, and taking it back again.
Carries(S, c) == Apply(c.undo, Apply(c.redo, store)) = store /\ GoesOnWith(S, c)
MakesOne(S, c, known) == Carries(S, c) /\ Sane(S, known, Apply(c.redo, store))

LEMMA PutMakes ==
    ASSUME NEW S, Sane(S, Known, store), NEW list \in Lists, NEW id, Found(list, id),
           NEW x \in Things(S), x.id = id, NEW key \in {NoKey, id}
    PROVE  MakesOne(S, PutCommand(list, x, key), Known)
<1> DEFINE c == PutCommand(list, x, key)
           l == store[list]
           at == FirstOf(l, id)
           put == Put(l, x)
           w == With(store, list, put)
<1>1. l \in Seq(Things(S)) /\ EachOnce(l) /\ id \in IdsIn(l) /\ store \in ModelsOf(S)
  BY SaneLists DEF Found, Sane
<1>2. c.redo = PutPatch(list, x) /\ c.undo = PutPatch(list, l[at]) /\ c.key = key
  BY DEF PutCommand, Command, Held, PutPatch
<1>3. /\ IdsIn(l) \subseteq Known
      /\ \A other \in Lists : other # list => IdsIn(l) \cap IdsIn(store[other]) = {}
  BY SaneLists
<1>4. w = With(store, list, put) /\ With(store, list, l) = store
  BY <1>1, ListReplacedTwice
<1> HIDE DEF c, w
<1>5. Apply(c.redo, store) = w
  BY <1>2, <1>4, AppliedPut
<1> HIDE DEF l
<1>6. at \in 1..Len(l) /\ l[at].id = id /\ l[at] \in Things(S)
  BY <1>1, FirstOfIs
<1> HIDE DEF at
<1>7. /\ put \in Seq(Things(S)) /\ Len(put) = Len(l)
      /\ \A i \in 1..Len(l) : put[i].id = l[i].id
      /\ Put(put, l[at]) = l
  <2>1. Put(put, l[at]) = l
    BY <1>1, <1>6, PutBack
  <2> QED
    BY <1>1, <2>1, PutIs
<1> HIDE DEF put
<1>8. Apply(c.undo, w) = store
  <2>1. Apply(c.undo, w) = With(w, list, Put(w[list], l[at]))
    BY <1>2, AppliedPut
  <2>2. w[list] = put
    BY <1>1, <1>4, <1>7, ListReplaced
  <2>3. With(w, list, l) = store
    BY <1>1, <1>4, ListReplacedTwice
  <2> QED
    BY <1>7, <2>1, <2>2, <2>3
<1>9. Sane(S, Known, w)
  <2>1. EachOnce(put) /\ IdsIn(put) = IdsIn(l)
    <3>1. DOMAIN l = 1..Len(l) /\ DOMAIN put = 1..Len(l)
      BY <1>1, <1>7
    <3> QED
      BY <1>1, <1>7, <3>1 DEF EachOnce, IdsIn
  <2> QED
    BY <1>3, <1>4, <1>7, <2>1, SaneWith
<1>10. GoesOnWith(S, c)
  <2>1. PutsOne(S, c, list, id)
    BY <1>2, <1>6 DEF PutsOne
  <2> QED
    BY <1>2, <2>1 DEF GoesOnWith
<1>11. MakesOne(S, c, Known)
  BY <1>5, <1>8, <1>9, <1>10 DEF MakesOne, Carries
<1> QED
  BY <1>11 DEF c

LEMMA AddMakes ==
    ASSUME NEW S, Sane(S, Known, store), NEW list \in Lists,
           NEW id \in MintedIds \ minted, NEW x \in Things(S), x.id = id,
           NEW c, c = Command(AppendPatch(list, x), DropPatch(list, id), NoKey)
    PROVE  MakesOne(S, c, Known \cup {id})
<1> DEFINE l == store[list]
           more == Append(l, x)
           w == With(store, list, more)
<1>1. c.redo = AppendPatch(list, x) /\ c.undo = DropPatch(list, id) /\ c.key = NoKey
  BY DEF Command
<1>2. id \notin Known
  BY FreshAssumption DEF Known
<1>3. /\ l \in Seq(Things(S)) /\ EachOnce(l) /\ IdsIn(l) \subseteq Known
      /\ \A other \in Lists : other # list => IdsIn(l) \cap IdsIn(store[other]) = {}
      /\ \A i \in 1..Len(l) : l[i].id \in Known
      /\ store \in ModelsOf(S)
  BY SaneLists DEF Sane
<1>4. ASSUME NEW other \in Lists PROVE IdsIn(store[other]) \subseteq Known
  BY SaneLists
<1>5. w = With(store, list, more) /\ With(store, list, l) = store
  BY <1>3, ListReplacedTwice
<1> HIDE DEF w
<1>6. Apply(c.redo, store) = w
  BY <1>1, <1>5, AppliedAppend
<1> HIDE DEF l
<1>7. /\ more \in Seq(Things(S)) /\ Len(more) = Len(l) + 1 /\ more[Len(l) + 1] = x
      /\ \A i \in 1..Len(l) : more[i] = l[i]
  BY <1>3
<1>8. Without(more, {id}) = l
  BY <1>2, <1>3, AppendBack
<1> HIDE DEF more
<1>9. Apply(c.undo, w) = store
  <2>1. Apply(c.undo, w) = With(w, list, Without(w[list], {id}))
    <3>1. Apply(DropPatch(list, id), w) = With(w, list, Without(w[list], {id}))
      BY AppliedDrop
    <3> QED
      BY <1>1, <3>1
  <2>2. w[list] = more
    BY <1>3, <1>5, <1>7, ListReplaced
  <2>3. With(w, list, l) = store
    BY <1>3, <1>5, ListReplacedTwice
  <2> QED
    BY <1>8, <2>1, <2>2, <2>3
<1>10. Sane(S, Known \cup {id}, w)
  <2>1. Sane(S, Known \cup {id}, store)
    BY SaneMore
  <2>2. EachOnce(more)
    <3>1. SUFFICES ASSUME NEW i \in 1..Len(l) + 1, NEW j \in 1..Len(l) + 1, more[i].id = more[j].id
                   PROVE  i = j
      BY <1>7 DEF EachOnce
    <3>2. CASE i \in 1..Len(l) /\ j \in 1..Len(l)
      BY <1>3, <1>7, <3>1, <3>2 DEF EachOnce
    <3>3. CASE i = Len(l) + 1 /\ j \in 1..Len(l)
      BY <1>2, <1>3, <1>7, <3>1, <3>3
    <3>4. CASE j = Len(l) + 1 /\ i \in 1..Len(l)
      BY <1>2, <1>3, <1>7, <3>1, <3>4
    <3> QED
      BY <1>3, <3>2, <3>3, <3>4
  <2>3. IdsIn(more) = IdsIn(l) \cup {id}
    <3>1. DOMAIN l = 1..Len(l) /\ DOMAIN more = 1..Len(l) + 1 /\ Len(l) \in Nat
      BY <1>3, <1>7
    <3>2. \A i : i \in 1..Len(l) + 1 <=> i \in 1..Len(l) \/ i = Len(l) + 1
      BY <3>1
    <3> QED
      BY <1>7, <3>1, <3>2 DEF IdsIn
  <2>4. \A other \in Lists : other # list => IdsIn(more) \cap IdsIn(store[other]) = {}
    BY <1>2, <1>3, <1>4, <2>3
  <2>5. IdsIn(more) \subseteq Known \cup {id}
    BY <1>3, <2>3
  <2> QED
    BY <1>5, <1>7, <2>1, <2>2, <2>4, <2>5, SaneWith
<1>11. GoesOnWith(S, c)
  BY <1>1 DEF GoesOnWith
<1> QED
  BY <1>6, <1>9, <1>10, <1>11 DEF MakesOne, Carries

\* What is kept of a list.
LEMMA KeptThings ==
    ASSUME NEW S, NEW list \in Seq(Things(S)), NEW at, OneEach(list, at), NEW kept,
           kept = Kept(list, at)
    PROVE  /\ kept \in Seq(Things(S)) /\ EachOnce(kept)
           /\ \A id \in IdsIn(kept) : \E i \in 1..Len(list) : i \in at /\ list[i].id = id
           /\ IdsIn(kept) \subseteq IdsIn(list)
<1>1. Len(list) \in Nat /\ DOMAIN list = 1..Len(list)
  OBVIOUS
<1>2. KeptFrom(kept, list, at, Len(list))
  BY <1>1, KeptOnce
<1>3. kept \in Seq(Things(S))
  <2>1. {list[i] : i \in 1..Len(list)} \subseteq Things(S)
    BY <1>1
  <2>2. kept \in Seq({list[i] : i \in 1..Len(list)})
    BY <1>2 DEF KeptFrom
  <2> QED
    BY <2>1, <2>2, SeqMonotonic
<1>4. DOMAIN kept = 1..Len(kept)
  BY <1>3
<1>5. EachOnce(kept)
  BY <1>2 DEF KeptFrom, EachOnce
<1>6. ASSUME NEW id \in IdsIn(kept)
      PROVE  \E i \in 1..Len(list) : i \in at /\ list[i].id = id
  <2>1. PICK a \in 1..Len(kept) : kept[a].id = id
    BY <1>4 DEF IdsIn
  <2>2. PICK i \in 1..Len(list) : i \in at /\ kept[a] = list[i]
    BY <1>2 DEF KeptFrom
  <2> QED
    BY <2>1, <2>2
<1>7. IdsIn(kept) \subseteq IdsIn(list)
  BY <1>1, <1>6 DEF IdsIn
<1> QED
  BY <1>3, <1>5, <1>6, <1>7

LEMMA RemoveMakes ==
    ASSUME NEW S, Sane(S, Known, store), NEW list \in Lists, NEW id, Found(list, id),
           NEW at, at = FirstOf(store[list], id),
           NEW c, c = Command(DropPatch(list, id), SplicePatch(list, at, store[list][at]), NoKey)
    PROVE  MakesOne(S, c, Known)
<1> DEFINE l == store[list]
           less == Without(l, {id})
           w == With(store, list, less)
<1>1. c.redo = DropPatch(list, id) /\ c.undo = SplicePatch(list, at, l[at]) /\ c.key = NoKey
  BY DEF Command
<1>2. /\ l \in Seq(Things(S)) /\ EachOnce(l) /\ IdsIn(l) \subseteq Known
      /\ \A other \in Lists : other # list => IdsIn(l) \cap IdsIn(store[other]) = {}
      /\ store \in ModelsOf(S) /\ id \in IdsIn(l)
  BY SaneLists DEF Sane, Found
<1>3. w = With(store, list, less) /\ With(store, list, l) = store
  BY <1>2, ListReplacedTwice
<1> HIDE DEF w
<1>4. Apply(c.redo, store) = w
  BY <1>1, <1>3, AppliedDrop
<1>5. at = FirstOf(l, id)
  OBVIOUS
<1> HIDE DEF l
<1>6. at \in 1..Len(l) /\ l[at].id = id
  BY <1>2, <1>5, FirstOfIs
<1>7. SpliceIn(less, at, l[at]) = l
  BY <1>2, <1>6, DropBack
<1>8. less \in Seq(Things(S)) /\ EachOnce(less) /\ IdsIn(less) \subseteq IdsIn(l)
  <2> DEFINE kept == {i \in 1..Len(l) : l[i].id \notin {id}}
  <2>1. less = Kept(l, kept)
    BY <1>2, WithoutIs
  <2>2. OneEach(l, kept)
    BY <1>2 DEF OneEach, EachOnce
  <2> HIDE DEF kept, less
  <2> QED
    BY <1>2, <2>1, <2>2, KeptThings
<1> HIDE DEF less
<1>9. Apply(c.undo, w) = store
  <2>1. Apply(c.undo, w) = With(w, list, SpliceIn(w[list], at, l[at]))
    BY <1>1, AppliedSplice
  <2>2. w[list] = less
    BY <1>2, <1>3, <1>8, ListReplaced
  <2>3. With(w, list, l) = store
    BY <1>2, <1>3, ListReplacedTwice
  <2> QED
    BY <1>7, <2>1, <2>2, <2>3
<1>10. Sane(S, Known, w)
  <2>1. \A other \in Lists : other # list => IdsIn(less) \cap IdsIn(store[other]) = {}
    BY <1>2, <1>8
  <2>2. IdsIn(less) \subseteq Known
    BY <1>2, <1>8
  <2> QED
    BY <1>3, <1>8, <2>1, <2>2, SaneWith
<1>11. GoesOnWith(S, c)
  BY <1>1 DEF GoesOnWith
<1> QED
  BY <1>4, <1>9, <1>10, <1>11 DEF MakesOne, Carries

LEMMA SetAreaMakes ==
    ASSUME NEW S, Sane(S, Known, store), NEW area \in {NoArea, "area"},
           NEW c, c = Command(AreaPatch(area), AreaPatch(store.area), NoKey)
    PROVE  MakesOne(S, c, Known)
<1>1. c.redo = AreaPatch(area) /\ c.undo = AreaPatch(store.area) /\ c.key = NoKey
  BY DEF Command
<1>2. Apply(c.redo, store) = WithArea(store, area)
  BY <1>1, AppliedArea
<1> DEFINE w == WithArea(store, area)
<1>3. w \in ModelsOf(S) /\ w.features = store.features /\ w.receivers = store.receivers
  BY DEF Sane, ModelsOf, WithArea
<1>4. WithArea(w, store.area) = store
  BY DEF Sane, ModelsOf, WithArea
<1>5. Apply(c.undo, w) = WithArea(w, store.area)
  BY <1>1, AppliedArea
<1> HIDE DEF w
<1>6. Sane(S, Known, w)
  BY <1>3 DEF Sane, OneObjectPerId
<1>7. GoesOnWith(S, c)
  BY <1>1 DEF GoesOnWith
<1> QED
  BY <1>2, <1>4, <1>5, <1>6, <1>7 DEF MakesOne, Carries, w

LEMMA SwapMakes ==
    ASSUME NEW S, Sane(S, Known, store), NEW spots \in SUBSET (1..Len(store.features)),
           NEW by \in [spots -> Things(S)],
           \A i \in spots : by[i].id = store.features[i].id,
           NEW old, old = [i \in spots |-> store.features[i]],
           NEW c, c = Command(SwapPatch(by), SwapPatch(old), NoKey)
    PROVE  MakesOne(S, c, Known)
<1> DEFINE l == store["features"]
           new == Swapped(l, by)
           w == With(store, "features", new)
<1>1. c.redo = SwapPatch(by) /\ c.undo = SwapPatch(old) /\ c.key = NoKey
  BY DEF Command
<1>2. "features" \in Lists /\ store \in ModelsOf(S)
  BY DEF Lists, Sane
<1>3. /\ l \in Seq(Things(S)) /\ EachOnce(l) /\ IdsIn(l) \subseteq Known
      /\ \A other \in Lists : other # "features" => IdsIn(l) \cap IdsIn(store[other]) = {}
  BY <1>2, SaneLists
<1>4. w = With(store, "features", new) /\ With(store, "features", l) = store
  BY <1>2, ListReplacedTwice
<1> HIDE DEF w
<1>5. Apply(c.redo, store) = w
  <2>1. Apply(SwapPatch(by), store) = With(store, "features", Swapped(store.features, by))
    BY AppliedSwap
  <2> QED
    BY <1>1, <1>4, <2>1
<1>6. \A i \in spots : i \in 1..Len(l) /\ by[i].id = l[i].id /\ old[i] = l[i]
  OBVIOUS
<1>7. DOMAIN old = spots /\ DOMAIN by = spots
  OBVIOUS
<1> HIDE DEF l
<1>8. /\ new \in Seq(Things(S)) /\ Len(new) = Len(l)
      /\ \A i \in 1..Len(l) : /\ new[i] = IF i \in spots THEN by[i] ELSE l[i]
                              /\ new[i].id = l[i].id
  <2>1. DOMAIN l = 1..Len(l) /\ Len(l) \in Nat /\ \A i \in 1..Len(l) : l[i] \in Things(S)
    BY <1>3
  <2>2. new = [i \in 1..Len(l) |-> IF i \in spots THEN by[i] ELSE l[i]]
    BY <1>7, <2>1 DEF Swapped
  <2>3. \A i \in 1..Len(l) : (IF i \in spots THEN by[i] ELSE l[i]) \in Things(S)
    BY <2>1
  <2> QED
    BY <1>6, <2>1, <2>2, <2>3
<1> HIDE DEF new
<1>9. Swapped(new, old) = l
  <2>1. DOMAIN new = 1..Len(l) /\ DOMAIN l = 1..Len(l) /\ l = [i \in 1..Len(l) |-> l[i]]
    BY <1>3, <1>8
  <2>2. Swapped(new, old) = [i \in 1..Len(l) |-> IF i \in spots THEN old[i] ELSE new[i]]
    BY <1>7, <2>1 DEF Swapped
  <2>3. \A i \in 1..Len(l) : (IF i \in spots THEN old[i] ELSE new[i]) = l[i]
    BY <1>6, <1>8
  <2> QED
    BY <2>1, <2>2, <2>3
<1>10. Apply(c.undo, w) = store
  <2>1. Apply(SwapPatch(old), w) = With(w, "features", Swapped(w.features, old))
    BY AppliedSwap
  <2>2. w["features"] = new
    BY <1>2, <1>4, <1>8, ListReplaced
  <2>3. With(w, "features", l) = store
    BY <1>2, <1>4, ListReplacedTwice
  <2> QED
    BY <1>1, <1>9, <2>1, <2>2, <2>3
<1>11. Sane(S, Known, w)
  <2>1. EachOnce(new) /\ IdsIn(new) = IdsIn(l)
    <3>1. DOMAIN l = 1..Len(l) /\ DOMAIN new = 1..Len(l)
      BY <1>3, <1>8
    <3> QED
      BY <1>3, <1>8, <3>1 DEF EachOnce, IdsIn
  <2> QED
    BY <1>2, <1>3, <1>4, <1>8, <2>1, SaneWith
<1>12. GoesOnWith(S, c)
  BY <1>1 DEF GoesOnWith
<1> QED
  BY <1>5, <1>10, <1>11, <1>12 DEF MakesOne, Carries

LEMMA SignOffMakes ==
    ASSUME NEW S, Sane(S, Known, store), NEW ids, NEW props \in Props, SignOff(ids, props)
    PROVE  \E c : Execute(c) /\ MakesOne(S, c, Known) /\ UNCHANGED minted
<1> DEFINE l == store.features
           last(id) == CHOOSE i \in Positions(l, id) : \A j \in Positions(l, id) : j <= i
           due == {id \in ids \cap IdsIn(l) : l[last(id)].props # props}
           spots == {FirstOf(l, id) : id \in due}
           by == [i \in spots |-> [l[last(l[i].id)] EXCEPT !.props = props]]
           old == [i \in spots |-> l[i]]
           c == Command(SwapPatch(by), SwapPatch(old), NoKey)
<1>1. Execute(c) /\ UNCHANGED minted
  BY DEF SignOff, SwapPatch
<1> HIDE DEF c
<1>2. l \in Seq(Things(S)) /\ EachOnce(l)
  BY DEF Sane, OneObjectPerId, ModelsOf
<1>3. spots \in SUBSET (1..Len(l))
  <2>1. ASSUME NEW id \in due PROVE FirstOf(l, id) \in 1..Len(l)
    <3>1. id \in IdsIn(l)
      OBVIOUS
    <3> HIDE DEF l
    <3> QED
      BY <1>2, <3>1, FirstOfIs
  <2> QED
    BY <2>1
<1>4. ASSUME NEW i \in spots PROVE by[i] \in Things(S) /\ by[i].id = l[i].id
  <2>1. i \in 1..Len(l)
    BY <1>3
  <2>2. last(l[i].id) = i
    <3>1. DOMAIN l = 1..Len(l) /\ Len(l) \in Nat
      BY <1>2
    <3>2. i \in Positions(l, l[i].id) /\ \A j \in Positions(l, l[i].id) : j = i /\ j <= i
      BY <1>2, <2>1, <3>1 DEF Positions, EachOnce
    <3> QED
      BY <3>2
  <2>3. by[i] = [l[i] EXCEPT !.props = props]
    BY <2>2
  <2>4. l[i] \in Things(S)
    BY <1>2, <2>1
  <2> HIDE DEF by, l
  <2> QED
    BY <2>3, <2>4 DEF Things
<1>5. by \in [spots -> Things(S)]
  BY <1>4
<1>6. c = Command(SwapPatch(by), SwapPatch(old), NoKey)
  BY DEF c
<1>7. MakesOne(S, c, Known)
  <2>1. l = store.features
    OBVIOUS
  <2> HIDE DEF spots, by, l
  <2> QED
    BY <1>3, <1>4, <1>5, <1>6, <2>1, SwapMakes
<1> QED
  BY <1>1, <1>7

-----------------------------------------------------------------------------
(* The undo stack: models from outside.                                     *)

Firsts(list, taken) == {i \in DOMAIN list : /\ list[i].id \notin taken
                                            /\ \A j \in 1..(i - 1) : list[j].id # list[i].id}

LEMMA FirstsOnce ==
    ASSUME NEW S, NEW list \in Seq(Things(S)), NEW taken
    PROVE  OneEach(list, Firsts(list, taken))
<1>1. DOMAIN list = 1..Len(list) /\ Len(list) \in Nat
  OBVIOUS
<1> DEFINE new == Firsts(list, taken)
<1>2. OneEach(list, new)
  <2>1. SUFFICES ASSUME NEW i \in 1..Len(list), NEW j \in 1..Len(list), i \in new, j \in new,
                        list[i].id = list[j].id, i # j
                 PROVE  FALSE
    BY DEF OneEach
  <2>2. i < j => i \in 1..(j - 1)
    BY <1>1 DEF Firsts
  <2>3. j < i => j \in 1..(i - 1)
    BY <1>1 DEF Firsts
  <2>4. i < j \/ j < i
    BY <1>1, <2>1
  <2> QED
    BY <2>1, <2>2, <2>3, <2>4 DEF Firsts
<1> QED
  BY <1>2

LEMMA UntakenIs ==
    ASSUME NEW S, NEW list \in Seq(Things(S)), NEW taken
    PROVE  /\ Untaken(list, taken) \in Seq(Things(S)) /\ EachOnce(Untaken(list, taken))
           /\ IdsIn(Untaken(list, taken)) \subseteq IdsIn(list) \ taken
<1> DEFINE new == Firsts(list, taken)
<1>1. DOMAIN list = 1..Len(list) /\ Len(list) \in Nat
  OBVIOUS
<1>2. OneEach(list, new)
  BY FirstsOnce
<1>3. Untaken(list, taken) = Kept(list, new)
  BY DEF Untaken, Firsts
<1>4. \A i \in new : list[i].id \notin taken
  BY DEF Firsts
<1> HIDE DEF new
<1> DEFINE kept == Kept(list, new)
<1>5. /\ kept \in Seq(Things(S)) /\ EachOnce(kept)
      /\ \A id \in IdsIn(kept) : \E i \in 1..Len(list) : i \in new /\ list[i].id = id
      /\ IdsIn(kept) \subseteq IdsIn(list)
  BY <1>2, KeptThings
<1> HIDE DEF kept
<1>6. \A id \in IdsIn(kept) : id \notin taken
  BY <1>4, <1>5
<1> QED
  BY <1>3, <1>5, <1>6 DEF kept

LEMMA OutsideIs ==
    ASSUME NEW S, NEW list \in Seq(Things(S)), EachOnce(list), NEW gone
    PROVE  /\ Outside(list, gone) \in Seq(Things(S)) /\ EachOnce(Outside(list, gone))
           /\ IdsIn(Outside(list, gone)) \subseteq IdsIn(list)
           /\ gone = {} => Outside(list, gone) = list
<1> DEFINE at == {i \in DOMAIN list : list[i] \notin gone}
<1>1. DOMAIN list = 1..Len(list) /\ Len(list) \in Nat
  OBVIOUS
<1>2. OneEach(list, at)
  BY DEF OneEach, EachOnce
<1>3. Outside(list, gone) = Kept(list, at)
  BY DEF Outside
<1>4. ASSUME gone = {} PROVE Kept(list, at) = list
  <2>1. \A i \in 1..Len(list) + Len(<< >>) : i \in at <=> i <= Len(list)
    BY <1>1, <1>4
  <2>2. << >> \in Seq(Things(S)) /\ list \o << >> = list
    OBVIOUS
  <2> HIDE DEF at
  <2>3. Kept(list \o << >>, at) = list
    BY <2>1, <2>2, KeptFront
  <2> QED
    BY <2>2, <2>3
<1> HIDE DEF at
<1>5. /\ Kept(list, at) \in Seq(Things(S)) /\ EachOnce(Kept(list, at))
      /\ IdsIn(Kept(list, at)) \subseteq IdsIn(list)
  BY <1>2, KeptThings
<1> QED
  BY <1>3, <1>4, <1>5

LEMMA ConcatOnce ==
    ASSUME NEW S, NEW s \in Seq(Things(S)), NEW t \in Seq(Things(S)), EachOnce(s), EachOnce(t),
           IdsIn(s) \cap IdsIn(t) = {}
    PROVE  /\ s \o t \in Seq(Things(S)) /\ EachOnce(s \o t)
           /\ IdsIn(s \o t) = IdsIn(s) \cup IdsIn(t)
<1> DEFINE both == s \o t
           m == Len(s)
           n == Len(t)
<1>1. DOMAIN s = 1..m /\ DOMAIN t = 1..n /\ m \in Nat /\ n \in Nat
  OBVIOUS
<1>2. /\ both \in Seq(Things(S)) /\ Len(both) = m + n /\ DOMAIN both = 1..m + n
      /\ \A i \in 1..m + n : both[i] = IF i <= m THEN s[i] ELSE t[i - m]
  OBVIOUS
<1> HIDE DEF both, m, n
<1>3. \A i \in 1..m + n : \/ i \in 1..m /\ both[i] = s[i]
                          \/ i - m \in 1..n /\ both[i] = t[i - m] /\ ~(i <= m)
  BY <1>1, <1>2
<1>4. \A i \in 1..m : s[i].id \in IdsIn(s)
  BY <1>1 DEF IdsIn
<1>5. \A i \in 1..n : t[i].id \in IdsIn(t)
  BY <1>1 DEF IdsIn
<1>6. EachOnce(both)
  <2>1. SUFFICES ASSUME NEW i \in 1..m + n, NEW j \in 1..m + n, both[i].id = both[j].id
                 PROVE  i = j
    BY <1>2 DEF EachOnce
  <2>2. CASE i \in 1..m /\ both[i] = s[i] /\ j \in 1..m /\ both[j] = s[j]
    BY <2>1, <2>2 DEF EachOnce, m
  <2>3. CASE i - m \in 1..n /\ both[i] = t[i - m] /\ j - m \in 1..n /\ both[j] = t[j - m]
    <3>1. i - m = j - m
      BY <2>1, <2>3 DEF EachOnce, n
    <3> QED
      BY <1>1, <3>1
  <2>4. CASE i \in 1..m /\ both[i] = s[i] /\ j - m \in 1..n /\ both[j] = t[j - m]
    BY <1>4, <1>5, <2>1, <2>4
  <2>5. CASE j \in 1..m /\ both[j] = s[j] /\ i - m \in 1..n /\ both[i] = t[i - m]
    BY <1>4, <1>5, <2>1, <2>5
  <2> QED
    BY <1>3, <2>2, <2>3, <2>4, <2>5
<1>7. IdsIn(both) \subseteq IdsIn(s) \cup IdsIn(t)
  <2>1. SUFFICES ASSUME NEW i \in 1..m + n PROVE both[i].id \in IdsIn(s) \cup IdsIn(t)
    BY <1>2 DEF IdsIn
  <2> QED
    BY <1>3, <1>4, <1>5
<1>8. IdsIn(s) \cup IdsIn(t) \subseteq IdsIn(both)
  <2>1. ASSUME NEW i \in 1..m PROVE s[i].id \in IdsIn(both)
    <3>1. i \in 1..m + n /\ both[i] = s[i]
      BY <1>1, <1>2
    <3> QED
      BY <1>2, <3>1 DEF IdsIn
  <2>2. ASSUME NEW i \in 1..n PROVE t[i].id \in IdsIn(both)
    <3>1. m + i \in 1..m + n /\ ~(m + i <= m) /\ (m + i) - m = i
      BY <1>1
    <3>2. both[m + i] = t[i]
      BY <1>2, <3>1
    <3> QED
      BY <1>2, <3>1, <3>2 DEF IdsIn
  <2> QED
    BY <1>1, <2>1, <2>2 DEF IdsIn
<1> QED
  BY <1>2, <1>6, <1>7, <1>8 DEF both

\* A file, for what it brings: things of its own ids.
Brings(S, known, brought) ==
    brought \in ModelsOf(S) /\ IdsIn(brought.features) \cup IdsIn(brought.receivers) \subseteq known

Plans(S, known, m, plan) ==
    /\ plan.features \in Seq(Things(S)) /\ plan.receivers \in Seq(Things(S))
    /\ EachOnce(plan.features) /\ EachOnce(plan.receivers)
    /\ plan.area \in {NoArea, "area"} /\ plan.crs \in CRSs
    /\ IdsIn(plan.features) \cup IdsIn(plan.receivers) \subseteq known
    /\ IdsIn(plan.features) \cap IdsIn(plan.receivers) = {}
    /\ (IdsIn(plan.features) \cup IdsIn(plan.receivers))
          \cap (IdsIn(m.features) \cup IdsIn(m.receivers)) = {}

LEMMA PlanIs ==
    ASSUME NEW S, NEW known, NEW m, m \in ModelsOf(S), NEW brought, Brings(S, known, brought),
           NEW plan, plan = PlanMerge(m, brought)
    PROVE  Plans(S, known, m, plan)
<1> DEFINE held == IdsIn(m.features) \cup IdsIn(m.receivers)
           features == Untaken(brought.features, held)
           receivers == Untaken(brought.receivers, held \cup IdsIn(features))
           area == IF m.area # NoArea THEN m.area ELSE brought.area
           crs == IF EmptyOf(m) THEN brought.crs ELSE m.crs
<1>1. /\ plan.features = features /\ plan.receivers = receivers
      /\ plan.area = area /\ plan.crs = crs
  BY DEF PlanMerge
<1>2. /\ brought.features \in Seq(Things(S)) /\ brought.receivers \in Seq(Things(S))
      /\ area \in {NoArea, "area"} /\ crs \in CRSs
  BY DEF Brings, ModelsOf
<1> HIDE DEF held, area, crs
<1>3. /\ features \in Seq(Things(S)) /\ EachOnce(features)
      /\ IdsIn(features) \subseteq IdsIn(brought.features) \ held
  BY <1>2, UntakenIs
<1> HIDE DEF features
<1>4. /\ receivers \in Seq(Things(S)) /\ EachOnce(receivers)
      /\ IdsIn(receivers) \subseteq IdsIn(brought.receivers) \ (held \cup IdsIn(features))
  BY <1>2, UntakenIs
<1> HIDE DEF receivers
<1>5. IdsIn(brought.features) \cup IdsIn(brought.receivers) \subseteq known
  BY DEF Brings
<1>6. /\ IdsIn(features) \cap IdsIn(receivers) = {}
      /\ (IdsIn(features) \cup IdsIn(receivers)) \cap held = {}
      /\ IdsIn(features) \cup IdsIn(receivers) \subseteq known
  BY <1>3, <1>4, <1>5
<1> QED
  BY <1>1, <1>2, <1>3, <1>4, <1>6 DEF held, Plans

LEMMA RestIs ==
    ASSUME NEW S, NEW known, NEW m, Sane(S, known, m), NEW gone, NEW rest, rest = Rest(m, gone)
    PROVE  /\ Sane(S, known, rest) /\ rest.features = Outside(m.features, gone)
           /\ rest.receivers = m.receivers /\ rest.area = m.area /\ rest.crs = m.crs
           /\ gone = {} => rest = m
<1> DEFINE features == Outside(m.features, gone)
<1>1. m.features \in Seq(Things(S)) /\ EachOnce(m.features) /\ m \in ModelsOf(S)
  BY DEF Sane, OneObjectPerId, ModelsOf
<1>2. /\ features \in Seq(Things(S)) /\ EachOnce(features)
      /\ IdsIn(features) \subseteq IdsIn(m.features)
      /\ gone = {} => features = m.features
  BY <1>1, OutsideIs
<1>3. rest = [m EXCEPT !.features = features]
  BY DEF Rest
<1> HIDE DEF features
<1>4. /\ rest \in ModelsOf(S) /\ rest.features = features /\ rest.receivers = m.receivers
      /\ rest.area = m.area /\ rest.crs = m.crs
      /\ features = m.features => rest = m
  BY <1>1, <1>2, <1>3 DEF ModelsOf
<1>5. Sane(S, known, rest)
  BY <1>2, <1>4 DEF Sane, OneObjectPerId
<1> QED
  BY <1>2, <1>4, <1>5 DEF features

\* A model that lands on what is left of another, whatever of it goes.
LEMMA LandIs ==
    ASSUME NEW S, NEW known, NEW m, Sane(S, known, m), NEW gone, NEW brought, Brings(S, known, brought),
           NEW plan, plan = PlanMerge(Rest(m, gone), brought),
           NEW w, w = Apply(LandPatch(gone, plan), m)
    PROVE  /\ Sane(S, known, w)
           /\ gone = {} =>
                 Apply(UnlandPatch(m.area, m.crs,
                                   IdsIn(plan.features) \cup IdsIn(plan.receivers)), w) = m
<1> DEFINE rest == Rest(m, gone)
           features == rest.features \o plan.features
           receivers == rest.receivers \o plan.receivers
           ids == IdsIn(plan.features) \cup IdsIn(plan.receivers)
<1>1. rest = Rest(m, gone) /\ plan = PlanMerge(rest, brought)
  OBVIOUS
<1> HIDE DEF rest
<1>2. /\ Sane(S, known, rest) /\ rest.features = Outside(m.features, gone)
      /\ rest.receivers = m.receivers /\ rest.area = m.area /\ rest.crs = m.crs
      /\ gone = {} => rest = m
  BY <1>1, RestIs
<1>3. /\ plan.features \in Seq(Things(S)) /\ plan.receivers \in Seq(Things(S))
      /\ EachOnce(plan.features) /\ EachOnce(plan.receivers)
      /\ plan.area \in {NoArea, "area"} /\ plan.crs \in CRSs
      /\ IdsIn(plan.features) \cup IdsIn(plan.receivers) \subseteq known
      /\ IdsIn(plan.features) \cap IdsIn(plan.receivers) = {}
      /\ (IdsIn(plan.features) \cup IdsIn(plan.receivers))
            \cap (IdsIn(rest.features) \cup IdsIn(rest.receivers)) = {}
  <2>1. rest \in ModelsOf(S)
    BY <1>2 DEF Sane
  <2>2. Plans(S, known, rest, plan)
    BY <1>1, <2>1, PlanIs
  <2> QED
    BY <2>2 DEF Plans
<1>4. w = [features |-> features, receivers |-> receivers, area |-> plan.area, crs |-> plan.crs]
  <2>1. Apply(LandPatch(gone, plan), m) =
           [features |-> Outside(m.features, gone) \o plan.features,
            receivers |-> m.receivers \o plan.receivers,
            area |-> plan.area, crs |-> plan.crs]
    BY AppliedLand
  <2>2. Outside(m.features, gone) \o plan.features = features
        /\ m.receivers \o plan.receivers = receivers
    BY <1>2
  <2> HIDE DEF features, receivers
  <2> QED
    BY <2>1, <2>2
<1>5. /\ rest.features \in Seq(Things(S)) /\ rest.receivers \in Seq(Things(S))
      /\ EachOnce(rest.features) /\ EachOnce(rest.receivers)
      /\ IdsIn(rest.features) \cap IdsIn(rest.receivers) = {}
      /\ IdsIn(rest.features) \cup IdsIn(rest.receivers) \subseteq known
  BY <1>2 DEF Sane, OneObjectPerId, ModelsOf
<1>6. /\ features \in Seq(Things(S)) /\ EachOnce(features)
      /\ IdsIn(features) = IdsIn(rest.features) \cup IdsIn(plan.features)
  <2>1. IdsIn(rest.features) \cap IdsIn(plan.features) = {}
    BY <1>3
  <2> QED
    BY <1>3, <1>5, <2>1, ConcatOnce
<1>7. /\ receivers \in Seq(Things(S)) /\ EachOnce(receivers)
      /\ IdsIn(receivers) = IdsIn(rest.receivers) \cup IdsIn(plan.receivers)
  <2>1. IdsIn(rest.receivers) \cap IdsIn(plan.receivers) = {}
    BY <1>3
  <2> QED
    BY <1>3, <1>5, <2>1, ConcatOnce
<1>8. Sane(S, known, w)
  <2> HIDE DEF features, receivers
  <2>1. w \in ModelsOf(S) /\ w.features = features /\ w.receivers = receivers
    BY <1>3, <1>4, <1>6, <1>7 DEF ModelsOf
  <2>2. IdsIn(features) \cap IdsIn(receivers) = {}
        /\ IdsIn(features) \cup IdsIn(receivers) \subseteq known
    BY <1>3, <1>5, <1>6, <1>7
  <2> QED
    BY <1>6, <1>7, <2>1, <2>2 DEF Sane, OneObjectPerId
<1>9. ASSUME gone = {}, NEW k, k = ids PROVE Apply(UnlandPatch(m.area, m.crs, k), w) = m
  <2>1. rest = m
    BY <1>2, <1>9
  <2>2. w.features = features /\ w.receivers = receivers
    <3> HIDE DEF features, receivers
    <3> QED
      BY <1>4
  <2>3. ASSUME NEW a \in Seq(Things(S)), NEW b \in Seq(Things(S)), IdsIn(a) \cap k = {},
               IdsIn(b) \subseteq k
        PROVE  Without(a \o b, k) = a
    <3>1. DOMAIN a = 1..Len(a) /\ DOMAIN b = 1..Len(b)
      OBVIOUS
    <3>2. \A i \in 1..Len(a) : a[i].id \notin k
      BY <2>3, <3>1 DEF IdsIn
    <3>3. \A i \in 1..Len(b) : b[i].id \in k
      BY <2>3, <3>1 DEF IdsIn
    <3> QED
      BY <3>2, <3>3, UnlandBack
  <2>4. /\ IdsIn(rest.features) \cap k = {} /\ IdsIn(plan.features) \subseteq k
        /\ IdsIn(rest.receivers) \cap k = {} /\ IdsIn(plan.receivers) \subseteq k
    BY <1>3, <1>9
  <2>5. Without(features, k) = rest.features /\ Without(receivers, k) = rest.receivers
    BY <1>3, <1>5, <2>3, <2>4
  <2>6. Apply(UnlandPatch(m.area, m.crs, k), w)
           = [features |-> Without(w.features, k), receivers |-> Without(w.receivers, k),
              area |-> m.area, crs |-> m.crs]
    BY AppliedUnland
  <2>7. m = [features |-> m.features, receivers |-> m.receivers, area |-> m.area, crs |-> m.crs]
    BY DEF Sane, ModelsOf
  <2> HIDE DEF features, receivers
  <2> QED
    BY <2>1, <2>2, <2>5, <2>6, <2>7
<1> QED
  BY <1>8, <1>9

LEMMA MergeMakes ==
    ASSUME NEW S, Sane(S, Known, store), NEW brought, Brings(S, Known, brought), Merge(brought)
    PROVE  \E c : Execute(c) /\ MakesOne(S, c, Known) /\ UNCHANGED minted
<1> DEFINE plan == PlanMerge(store, brought)
           ids == IdsIn(plan.features) \cup IdsIn(plan.receivers)
           c == Command(LandPatch({}, plan), UnlandPatch(store.area, store.crs, ids), NoKey)
           w == Apply(LandPatch({}, plan), store)
<1>1. Execute(c) /\ UNCHANGED minted
  BY DEF Merge, LandPatch, UnlandPatch
<1>2. /\ c.redo = LandPatch({}, plan) /\ c.undo = UnlandPatch(store.area, store.crs, ids)
      /\ c.key = NoKey
  BY DEF Command
<1> HIDE DEF c
<1>3. plan = PlanMerge(Rest(store, {}), brought)
  BY RestIs
<1> HIDE DEF plan
<1>4. w = Apply(LandPatch({}, plan), store)
  OBVIOUS
<1> HIDE DEF w
<1>5. Sane(S, Known, w) /\ Apply(UnlandPatch(store.area, store.crs, ids), w) = store
  BY <1>3, <1>4, LandIs
<1>6. MakesOne(S, c, Known)
  BY <1>2, <1>4, <1>5 DEF MakesOne, Carries, GoesOnWith
<1> QED
  BY <1>1, <1>6

LEMMA ReplaceBuildingsMakes ==
    ASSUME NEW S, Sane(S, Known, store), NEW brought, Brings(S, Known, brought), NEW box,
           ReplaceBuildings(brought, box)
    PROVE  \E c : Execute(c) /\ MakesOne(S, c, Known) /\ UNCHANGED minted
<1> DEFINE gone == Boxed(store, box)
           plan == PlanMerge(Rest(store, gone), brought)
           c == Command(LandPatch(gone, plan), RestorePatch(store), NoKey)
           w == Apply(LandPatch(gone, plan), store)
<1>1. Execute(c) /\ UNCHANGED minted
  BY DEF ReplaceBuildings, LandPatch, RestorePatch
<1>2. c.redo = LandPatch(gone, plan) /\ c.undo = RestorePatch(store) /\ c.key = NoKey
  BY DEF Command
<1> HIDE DEF c, gone
<1>3. plan = PlanMerge(Rest(store, gone), brought)
  OBVIOUS
<1> HIDE DEF plan
<1>4. w = Apply(LandPatch(gone, plan), store)
  OBVIOUS
<1> HIDE DEF w
<1>5. Sane(S, Known, w)
  BY <1>3, <1>4, LandIs
<1>6. Apply(RestorePatch(store), w) = store
  BY AppliedRestore
<1>7. MakesOne(S, c, Known)
  BY <1>2, <1>4, <1>5, <1>6 DEF MakesOne, Carries, GoesOnWith
<1> QED
  BY <1>1, <1>7

-----------------------------------------------------------------------------
(* The undo stack: the line of models its commands walk along.              *)

Listed(s) == s \in Seq({s[i] : i \in DOMAIN s})

LEMMA ListedAppend ==
    ASSUME NEW s, Listed(s), NEW x
    PROVE  /\ Listed(Append(s, x)) /\ Len(s) \in Nat /\ Len(Append(s, x)) = Len(s) + 1
           /\ Append(s, x)[Len(s) + 1] = x /\ DOMAIN s = 1..Len(s)
           /\ \A i \in 1..Len(s) : Append(s, x)[i] = s[i]
<1> DEFINE T == {s[i] : i \in DOMAIN s} \cup {x}
<1>1. s \in Seq({s[i] : i \in DOMAIN s}) /\ x \in T
  BY DEF Listed
<1>2. s \in Seq(T)
  BY <1>1, SeqMonotonic
<1> HIDE DEF T
<1>3. /\ Append(s, x) \in Seq(T) /\ Len(Append(s, x)) = Len(s) + 1
      /\ Append(s, x)[Len(s) + 1] = x /\ Len(s) \in Nat /\ DOMAIN s = 1..Len(s)
      /\ \A i \in 1..Len(s) : Append(s, x)[i] = s[i]
  BY <1>1, <1>2
<1>4. \A t \in Seq(T) : t \in Seq({t[i] : i \in DOMAIN t})
  <2>1. SUFFICES ASSUME NEW t \in Seq(T) PROVE t \in Seq({t[i] : i \in DOMAIN t})
    OBVIOUS
  <2>2. DOMAIN t = 1..Len(t) /\ Len(t) \in Nat /\ t = [i \in 1..Len(t) |-> t[i]]
    BY <2>1
  <2> QED
    BY <2>2, IsASeq
<1> QED
  BY <1>3, <1>4 DEF Listed

LEMMA ListedBelow ==
    ASSUME NEW s, Listed(s), s # << >>
    PROVE  /\ Listed(Below(s)) /\ Len(s) \in Nat \ {0} /\ Len(Below(s)) = Len(s) - 1
           /\ DOMAIN s = 1..Len(s)
           /\ \A i \in 1..(Len(s) - 1) : Below(s)[i] = s[i]
<1> DEFINE T == {s[i] : i \in DOMAIN s}
           t == SubSeq(s, 1, Len(s) - 1)
<1>1. s \in Seq(T)
  BY DEF Listed
<1> HIDE DEF T
<1>2. Len(s) \in Nat \ {0} /\ DOMAIN s = 1..Len(s)
  BY <1>1
<1>3. /\ t \in Seq(T) /\ Len(t) = Len(s) - 1 /\ \A i \in 1..(Len(s) - 1) : t[i] = s[i]
  BY <1>1, <1>2
<1> HIDE DEF t
<1>4. t \in Seq({t[i] : i \in DOMAIN t})
  <2>1. DOMAIN t = 1..Len(t) /\ Len(t) \in Nat /\ t = [i \in 1..Len(t) |-> t[i]]
    BY <1>3
  <2> QED
    BY <2>1, IsASeq
<1> QED
  BY <1>2, <1>3, <1>4 DEF Listed, Below, t

LEMMA ListedTail ==
    ASSUME NEW s, Listed(s), s # << >>
    PROVE  /\ Listed(Tail(s)) /\ Len(s) \in Nat \ {0} /\ Len(Tail(s)) = Len(s) - 1
           /\ DOMAIN s = 1..Len(s)
           /\ \A i \in 1..(Len(s) - 1) : Tail(s)[i] = s[i + 1]
<1> DEFINE T == {s[i] : i \in DOMAIN s}
           t == Tail(s)
<1>1. s \in Seq(T)
  BY DEF Listed
<1> HIDE DEF T
<1>2. Len(s) \in Nat \ {0} /\ DOMAIN s = 1..Len(s)
  BY <1>1
<1>3. /\ t \in Seq(T) /\ Len(t) = Len(s) - 1 /\ \A i \in 1..(Len(s) - 1) : t[i] = s[i + 1]
  BY <1>1, <1>2
<1> HIDE DEF t
<1>4. t \in Seq({t[i] : i \in DOMAIN t})
  <2>1. DOMAIN t = 1..Len(t) /\ Len(t) \in Nat /\ t = [i \in 1..Len(t) |-> t[i]]
    BY <1>3
  <2> QED
    BY <2>1, IsASeq
<1> QED
  BY <1>2, <1>3, <1>4 DEF Listed, t

\* A line of models of W that ends at m, and that the commands of a stack walk along:
\* one of their two patches back, the other forth.
Fits(W, m, stack, back, forth, line) ==
    /\ line = [i \in 1..(Len(stack) + 1) |-> line[i]]
    /\ \A i \in 1..(Len(stack) + 1) : line[i] \in W
    /\ line[Len(stack) + 1] = m
    /\ \A i \in 1..Len(stack) : /\ Apply(stack[i][back], line[i + 1]) = line[i]
                                /\ Apply(stack[i][forth], line[i]) = line[i + 1]
OnLine(W, m, stack, back, forth) ==
    Listed(stack) /\ \E line : Fits(W, m, stack, back, forth, line)

Downwards(f, m, stack, side, n) ==
    f[n + 1] = m /\ \A i \in 1..n : f[i] = Apply(stack[i][side], f[i + 1])

LEMMA SameDownwards ==
    ASSUME NEW n \in Nat, NEW f, NEW g, NEW m, NEW stack, NEW side,
           Downwards(f, m, stack, side, n), Downwards(g, m, stack, side, n)
    PROVE  \A i \in 1..n : f[i] = g[i]
<1> DEFINE Wrong == {k \in 0..n : f[n + 1 - k] # g[n + 1 - k]}
<1>1. SUFFICES ASSUME NEW i \in 1..n, f[i] # g[i] PROVE FALSE
  OBVIOUS
<1>2. Wrong \in SUBSET Nat /\ n + 1 - i \in Wrong
  <2>1. n + 1 - i \in 0..n /\ n + 1 - (n + 1 - i) = i
    BY <1>1
  <2> QED
    BY <1>1, <2>1
<1>3. PICK k \in Wrong : \A j \in Wrong : ~(<<j, k>> \in OpToRel(<, Nat))
  BY <1>2, NatLessThanWellFounded, WFMin
<1>4. k \in 1..n /\ f[n + 1 - k] # g[n + 1 - k]
  BY DEF Downwards
<1>5. n + 1 - k \in 1..n /\ (n + 1 - k) + 1 = n + 1 - (k - 1)
  BY <1>4
<1>6. f[n + 1 - (k - 1)] # g[n + 1 - (k - 1)]
  BY <1>4, <1>5 DEF Downwards
<1>7. k - 1 \in 0..n /\ k - 1 < k /\ k \in Nat /\ k - 1 \in Nat
  BY <1>4
<1>8. k - 1 \in Wrong
  BY <1>6, <1>7
<1>9. ~(<<k - 1, k>> \in OpToRel(<, Nat))
  BY <1>3, <1>8
<1> QED
  BY <1>7, <1>9 DEF OpToRel

LEMMA WalkedIs ==
    ASSUME NEW W, NEW m, NEW stack, Listed(stack), NEW back, NEW forth, NEW line,
           Fits(W, m, stack, back, forth, line)
    PROVE  /\ Walked(m, stack, back) = [i \in 1..Len(stack) |-> line[i]]
           /\ Len(Walked(m, stack, back)) = Len(stack)
           /\ Walked(m, stack, back) \in Seq(W)
<1> DEFINE n == Len(stack)
           walk == CHOOSE f : f = [i \in 1..(n + 1) |->
                      IF i > n THEN m ELSE Apply(stack[i][back], f[i + 1])]
<1>1. n \in Nat /\ DOMAIN stack = 1..n
  BY DEF Listed
<1>2. Walked(m, stack, back) = [i \in 1..n |-> walk[i]]
  BY <1>1 DEF Walked
<1> HIDE DEF n
<1>3. line = [i \in 1..(n + 1) |-> IF i > n THEN m ELSE Apply(stack[i][back], line[i + 1])]
  <2>1. \A i \in 1..(n + 1) : /\ i > n => i = n + 1
                              /\ ~(i > n) => i \in 1..n
    BY <1>1
  <2>2. \A i \in 1..(n + 1) :
           line[i] = IF i > n THEN m ELSE Apply(stack[i][back], line[i + 1])
    BY <1>1, <2>1 DEF Fits, n
  <2>3. line = [i \in 1..(n + 1) |-> line[i]]
    BY DEF Fits, n
  <2> QED
    BY <2>2, <2>3
<1>4. walk = [i \in 1..(n + 1) |-> IF i > n THEN m ELSE Apply(stack[i][back], walk[i + 1])]
  BY <1>3
<1> HIDE DEF walk
<1>5. \A i \in 1..n : i \in 1..(n + 1) /\ ~(i > n)
  BY <1>1
<1>6. n + 1 \in 1..(n + 1) /\ n + 1 > n
  BY <1>1
<1>7. Downwards(walk, m, stack, back, n)
  BY <1>4, <1>5, <1>6 DEF Downwards
<1>8. Downwards(line, m, stack, back, n)
  BY <1>3, <1>5, <1>6 DEF Downwards
<1>9. \A i \in 1..n : walk[i] = line[i]
  BY <1>1, <1>7, <1>8, SameDownwards
<1>10. Walked(m, stack, back) = [i \in 1..n |-> line[i]]
  BY <1>2, <1>9
<1>11. \A i \in 1..n : line[i] \in W
  BY <1>5 DEF Fits, n
<1>12. [i \in 1..n |-> line[i]] \in Seq(W)
  BY <1>1, <1>11, IsASeq
<1>13. Len([i \in 1..n |-> line[i]]) = n
  BY <1>1
<1> QED
  BY <1>10, <1>12, <1>13 DEF n

LEMMA WalkedSeq ==
    ASSUME NEW W, NEW m, NEW stack, Listed(stack), NEW back, NEW forth, NEW line,
           Fits(W, m, stack, back, forth, line)
    PROVE  Walked(m, stack, back) \in Seq(W)
  BY WalkedIs

LEMMA WalkedLen ==
    ASSUME NEW W, NEW m, NEW stack, Listed(stack), NEW back, NEW forth, NEW line,
           Fits(W, m, stack, back, forth, line)
    PROVE  Len(Walked(m, stack, back)) = Len(stack)
  BY WalkedIs

\* A stack whose commands walk along a line to m, through the states of `walk`.
Along(W, m, stack, back, forth, walk) ==
    OnLine(W, m, stack, back, forth) /\ Walked(m, stack, back) = walk

\* One step back.
StepBack(W, m, stack, back, forth, walk, p) ==
    /\ stack # << >> /\ walk # << >> /\ p = walk[Len(walk)]
    /\ p = Apply(Latest(stack)[back], m) /\ p \in W /\ Apply(Latest(stack)[forth], p) = m
    /\ Along(W, p, Below(stack), back, forth, SubSeq(walk, 1, Len(walk) - 1))
    /\ walk = Append(SubSeq(walk, 1, Len(walk) - 1), p)

LEMMA FitsAppend ==
    ASSUME NEW W, NEW m, NEW stack, Listed(stack), NEW back, NEW forth, NEW line,
           Fits(W, m, stack, back, forth, line), NEW c, NEW w \in W,
           Apply(c[back], w) = m, Apply(c[forth], m) = w
    PROVE  /\ OnLine(W, w, Append(stack, c), back, forth)
           /\ Walked(w, Append(stack, c), back) = Append(Walked(m, stack, back), m)
<1> DEFINE n == Len(stack)
           more == Append(stack, c)
           longer == [i \in 1..(n + 2) |-> IF i = n + 2 THEN w ELSE line[i]]
           walk == Walked(m, stack, back)
<1>1. /\ Listed(more) /\ n \in Nat /\ Len(more) = n + 1 /\ more[n + 1] = c
      /\ \A i \in 1..n : more[i] = stack[i]
  BY ListedAppend
<1> HIDE DEF more
<1>2. /\ \A i \in 1..(n + 1) : longer[i] = line[i] /\ line[i] \in W
      /\ longer[n + 2] = w /\ line[n + 1] = m
      /\ longer = [i \in 1..(n + 2) |-> longer[i]]
  <2>1. \A i \in 1..(n + 1) : i \in 1..(n + 2) /\ i # n + 2
    BY <1>1
  <2>2. n + 2 \in 1..(n + 2)
    BY <1>1
  <2> QED
    BY <2>1, <2>2 DEF Fits
<1> HIDE DEF longer
<1>3. Fits(W, w, more, back, forth, longer)
  <2>1. Len(more) + 1 = n + 2 /\ \A i \in 1..(n + 2) : i = n + 2 \/ i \in 1..(n + 1)
    BY <1>1
  <2>2. \A i \in 1..(n + 2) : longer[i] \in W
    BY <1>2, <2>1
  <2>3. ASSUME NEW i \in 1..(n + 1)
        PROVE  /\ Apply(more[i][back], longer[i + 1]) = longer[i]
               /\ Apply(more[i][forth], longer[i]) = longer[i + 1]
    <3>1. CASE i = n + 1
      <4>1. i \in 1..(n + 1) /\ i + 1 = n + 2
        BY <1>1, <3>1
      <4> QED
        BY <1>1, <1>2, <3>1, <4>1
    <3>2. CASE i # n + 1
      <4>1. i \in 1..n /\ i + 1 \in 1..(n + 1)
        BY <1>1, <3>2
      <4>2. /\ Apply(stack[i][back], line[i + 1]) = line[i]
            /\ Apply(stack[i][forth], line[i]) = line[i + 1]
        BY <4>1 DEF Fits
      <4> QED
        BY <1>1, <1>2, <4>1, <4>2
    <3> QED
      BY <3>1, <3>2
  <2> QED
    BY <1>1, <1>2, <2>1, <2>2, <2>3 DEF Fits
<1>4. walk = [i \in 1..n |-> line[i]] /\ walk \in Seq(W) /\ Len(walk) = n
  BY WalkedIs
<1> HIDE DEF walk
<1>5. /\ Walked(w, more, back) = [i \in 1..(n + 1) |-> longer[i]]
      /\ Walked(w, more, back) \in Seq(W)
  BY <1>1, <1>3, WalkedIs
<1>6. Append(walk, m) = [i \in 1..(n + 1) |-> longer[i]]
  <2>1. m \in W
    <3>1. n + 1 \in 1..(n + 1)
      BY <1>1
    <3> QED
      BY <1>2, <3>1
  <2>2. Append(walk, m) \in Seq(W) /\ Len(Append(walk, m)) = n + 1
    BY <1>4, <2>1
  <2>3. \A i \in 1..(n + 1) : Append(walk, m)[i] = longer[i]
    <3>1. ASSUME NEW i \in 1..(n + 1) PROVE Append(walk, m)[i] = longer[i]
      <4>1. CASE i = n + 1
        <5>1. Append(walk, m)[n + 1] = m
          BY <1>1, <1>4, <2>1
        <5>2. longer[n + 1] = m
          <6>1. n + 1 \in 1..(n + 1)
            BY <1>1
          <6> QED
            BY <1>2, <6>1
        <5> QED
          BY <4>1, <5>1, <5>2
      <4>2. CASE i # n + 1
        <5>1. i \in 1..n
          BY <1>1, <4>2
        <5>2. Append(walk, m)[i] = walk[i]
          BY <1>4, <2>1, <5>1
        <5> QED
          BY <1>2, <1>4, <5>1, <5>2
      <4> QED
        BY <4>1, <4>2
    <3> QED
      BY <3>1
  <2>4. Append(walk, m) = [i \in 1..(n + 1) |-> Append(walk, m)[i]]
    <3>1. \A t \in Seq(W) : t = [i \in 1..Len(t) |-> t[i]]
      OBVIOUS
    <3> QED
      BY <2>2, <3>1
  <2> QED
    BY <2>3, <2>4
<1> QED
  BY <1>1, <1>3, <1>5, <1>6 DEF OnLine, more, walk

LEMMA FitsBelow ==
    ASSUME NEW W, NEW m, NEW stack, Listed(stack), stack # << >>, NEW back, NEW forth, NEW line,
           Fits(W, m, stack, back, forth, line), NEW p, p = line[Len(stack)]
    PROVE  StepBack(W, m, stack, back, forth, Walked(m, stack, back), p)
<1> DEFINE n == Len(stack)
           less == Below(stack)
           shorter == [i \in 1..n |-> line[i]]
           walk == Walked(m, stack, back)
           walkless == Walked(p, less, back)
<1>1. /\ Listed(less) /\ n \in Nat \ {0} /\ Len(less) = n - 1
      /\ \A i \in 1..(n - 1) : less[i] = stack[i]
  BY ListedBelow
<1> HIDE DEF less
<1>2. n \in 1..n /\ \A i \in 1..n : i \in 1..(n + 1)
  BY <1>1
<1>3. /\ p \in W /\ Apply(stack[n][back], m) = p /\ Apply(stack[n][forth], p) = m
  BY <1>2 DEF Fits
<1>4. Fits(W, p, less, back, forth, shorter)
  <2>1. Len(less) + 1 = n
    BY <1>1
  <2>2. \A i \in 1..n : shorter[i] = line[i] /\ line[i] \in W
    BY <1>2 DEF Fits
  <2>3. \A i \in 1..(n - 1) : i \in 1..n /\ i + 1 \in 1..n
    BY <1>1
  <2>4. shorter = [i \in 1..n |-> shorter[i]]
    OBVIOUS
  <2> HIDE DEF shorter
  <2>5. \A i \in 1..(n - 1) : /\ Apply(less[i][back], shorter[i + 1]) = shorter[i]
                              /\ Apply(less[i][forth], shorter[i]) = shorter[i + 1]
    BY <1>1, <2>2, <2>3 DEF Fits
  <2> QED
    BY <1>1, <1>2, <2>1, <2>2, <2>4, <2>5 DEF Fits
<1>5. walk = [i \in 1..n |-> line[i]] /\ walk \in Seq(W) /\ Len(walk) = n
  BY WalkedIs
<1>6 walkless = [i \in 1..(n - 1) |-> shorter[i]] /\ walkless \in Seq(W) /\ Len(walkless) = n - 1
  <2> HIDE DEF shorter
  <2>1. /\ walkless = [i \in 1..Len(less) |-> shorter[i]] /\ walkless \in Seq(W)
        /\ Len(walkless) = Len(less)
    <3> HIDE DEF walkless, n
    <3>1. Listed(less) /\ Fits(W, p, less, back, forth, shorter)
      BY <1>1, <1>4
    <3>2. walkless = Walked(p, less, back)
      BY DEF walkless
    <3> QED
      BY ONLY <3>1, <3>2, WalkedIs
  <2> QED
    BY <1>1, <2>1
<1> HIDE DEF walk, walkless
<1>7. walkless = [i \in 1..(n - 1) |-> line[i]]
  BY <1>1, <1>6
<1>8. walkless = SubSeq(walk, 1, n - 1)
  <2>1. SubSeq(walk, 1, n - 1) \in Seq(W) /\ Len(SubSeq(walk, 1, n - 1)) = n - 1
        /\ \A i \in 1..(n - 1) : SubSeq(walk, 1, n - 1)[i] = walk[i]
    BY <1>1, <1>5
  <2>2. \A i \in 1..(n - 1) : i \in 1..n
    BY <1>1
  <2>3. \A i \in 1..(n - 1) : SubSeq(walk, 1, n - 1)[i] = walkless[i]
    BY <1>5, <1>7, <2>1, <2>2
  <2> QED
    BY <1>6, <2>1, <2>3, SeqEqual
<1>9. walk = Append(walkless, p)
  <2>1. Append(walkless, p) \in Seq(W) /\ Len(Append(walkless, p)) = n
    <3>1. walkless \in Seq(W) /\ Len(walkless) = n - 1 /\ p \in W
      BY <1>3, <1>6
    <3> QED
      BY <1>1, <3>1
  <2>2. \A i \in 1..n : Append(walkless, p)[i] = walk[i]
    <3>1. ASSUME NEW i \in 1..n PROVE Append(walkless, p)[i] = walk[i]
      <4>1. CASE i = n
        BY <1>1, <1>3, <1>5, <1>6, <4>1
      <4>2. CASE i # n
        <5>1. i \in 1..(n - 1)
          BY <1>1, <4>2
        <5>2. Append(walkless, p)[i] = walkless[i]
          BY <1>3, <1>6, <5>1
        <5> QED
          BY <1>5, <1>7, <5>1, <5>2
      <4> QED
        BY <4>1, <4>2
    <3> QED
      BY <3>1
  <2> QED
    BY <1>5, <2>1, <2>2, SeqEqual
<1>10. walk[n] = p
  BY <1>2, <1>5
<1>11. walk # << >> /\ Len(walk) = n
  BY <1>1, <1>5
<1>12. Along(W, p, less, back, forth, SubSeq(walk, 1, n - 1))
  BY <1>1, <1>4, <1>8 DEF Along, OnLine, walkless
<1>13. walk = Append(SubSeq(walk, 1, n - 1), p)
  BY <1>8, <1>9
<1>14. StepBack(W, m, stack, back, forth, walk, p)
  BY <1>3, <1>10, <1>11, <1>12, <1>13 DEF StepBack, less, Latest
<1> QED
  BY <1>14 DEF walk

LEMMA FitsTail ==
    ASSUME NEW W, NEW m, NEW stack, Listed(stack), stack # << >>, NEW back, NEW forth, NEW line,
           Fits(W, m, stack, back, forth, line)
    PROVE  Along(W, m, Tail(stack), back, forth, Tail(Walked(m, stack, back)))
<1> DEFINE n == Len(stack)
           less == Tail(stack)
           shorter == [i \in 1..n |-> line[i + 1]]
           walk == Walked(m, stack, back)
           walkless == Walked(m, less, back)
<1>1. /\ Listed(less) /\ n \in Nat \ {0} /\ Len(less) = n - 1
      /\ \A i \in 1..(n - 1) : less[i] = stack[i + 1]
  BY ListedTail
<1> HIDE DEF less
<1>2. n \in 1..n /\ \A i \in 1..n : i + 1 \in 1..(n + 1)
  BY <1>1
<1>3. Fits(W, m, less, back, forth, shorter)
  <2>1. Len(less) + 1 = n
    BY <1>1
  <2>2. \A i \in 1..n : shorter[i] = line[i + 1] /\ line[i + 1] \in W
    BY <1>2 DEF Fits
  <2>3. \A i \in 1..(n - 1) : i \in 1..n /\ i + 1 \in 1..n
    BY <1>1
  <2>4. shorter = [i \in 1..n |-> shorter[i]]
    OBVIOUS
  <2> HIDE DEF shorter
  <2>5. \A i \in 1..(n - 1) : /\ Apply(less[i][back], shorter[i + 1]) = shorter[i]
                              /\ Apply(less[i][forth], shorter[i]) = shorter[i + 1]
    BY <1>1, <2>2, <2>3 DEF Fits
  <2>6. line[n + 1] = m
    BY DEF Fits
  <2> QED
    BY <1>1, <1>2, <2>1, <2>2, <2>4, <2>5, <2>6 DEF Fits
<1>4. walk = [i \in 1..n |-> line[i]] /\ walk \in Seq(W) /\ Len(walk) = n
  BY WalkedIs
<1>5. walkless = [i \in 1..(n - 1) |-> shorter[i]] /\ walkless \in Seq(W) /\ Len(walkless) = n - 1
  <2> HIDE DEF shorter
  <2> HIDE DEF n
  <2>1. Listed(less)
    BY <1>1
  <2>2. /\ walkless = [i \in 1..Len(less) |-> shorter[i]] /\ walkless \in Seq(W)
        /\ Len(walkless) = Len(less)
    BY <1>3, <2>1, WalkedIs
  <2> HIDE DEF walkless
  <2> QED
    BY <1>1, <2>2
<1> HIDE DEF walk, walkless
<1>6. \A i \in 1..(n - 1) : i \in 1..n /\ i + 1 \in 1..n
  BY <1>1
<1>7. \A i \in 1..(n - 1) : walkless[i] = walk[i + 1]
  BY <1>4, <1>5, <1>6
<1>8. walkless = Tail(walk)
  <2>1. walk # << >>
    BY <1>1, <1>4
  <2>2. /\ Tail(walk) \in Seq(W) /\ Len(Tail(walk)) = n - 1
        /\ \A i \in 1..(n - 1) : Tail(walk)[i] = walk[i + 1]
    BY <1>1, <1>4, <2>1
  <2> QED
    BY <1>5, <1>7, <2>2, SeqEqual
<1>9. Along(W, m, less, back, forth, Tail(walk))
  BY <1>1, <1>3, <1>8 DEF Along, OnLine, walkless
<1> QED
  BY <1>9 DEF less, walk

LEMMA FitsNothing ==
    ASSUME NEW W, NEW m \in W, NEW back, NEW forth
    PROVE  OnLine(W, m, << >>, back, forth) /\ Walked(m, << >>, back) = << >>
<1> DEFINE line == [i \in 1..1 |-> m]
           none == << >>
<1>1. none \in Seq({none[i] : i \in DOMAIN none}) /\ Len(none) = 0
  OBVIOUS
<1>2. Listed(none)
  BY <1>1 DEF Listed
<1>3. line[1] = m /\ 0 + 1 = 1 /\ (\A i \in 1..1 : i = 1) /\ 1 \in 1..1 /\ (1..0 = {})
  OBVIOUS
<1>4. line = [i \in 1..1 |-> line[i]]
  OBVIOUS
<1> HIDE DEF line, none
<1>5. Fits(W, m, none, back, forth, line)
  BY <1>1, <1>3, <1>4 DEF Fits
<1>6. Walked(m, none, back) \in Seq(W) /\ Len(Walked(m, none, back)) = 0
  BY <1>1, <1>2, <1>5, WalkedIs
<1>7. Walked(m, none, back) = << >>
  BY <1>6
<1> QED
  BY <1>2, <1>5, <1>7 DEF OnLine, none

LEMMA AlongHere ==
    ASSUME NEW W, NEW m, NEW stack, NEW back, NEW forth, NEW walk,
           Along(W, m, stack, back, forth, walk)
    PROVE  /\ m \in W /\ Listed(stack) /\ Len(stack) \in Nat
           /\ walk \in Seq(W) /\ Len(walk) = Len(stack)
<1>1. PICK line : Fits(W, m, stack, back, forth, line)
  BY DEF Along, OnLine
<1>2. Listed(stack) /\ Len(stack) \in Nat
  BY DEF Along, OnLine, Listed
<1>3. Len(stack) + 1 \in 1..(Len(stack) + 1)
  BY <1>2
<1>4. m \in W
  BY <1>1, <1>3 DEF Fits
<1>5. Walked(m, stack, back) \in Seq(W) /\ Len(Walked(m, stack, back)) = Len(stack)
  BY <1>1, <1>2, WalkedSeq, WalkedLen
<1> QED
  BY <1>2, <1>4, <1>5 DEF Along

LEMMA AlongMore ==
    ASSUME NEW W, NEW V, W \subseteq V, NEW m, NEW stack, NEW back, NEW forth, NEW walk,
           Along(W, m, stack, back, forth, walk)
    PROVE  Along(V, m, stack, back, forth, walk)
<1>1. PICK line : Fits(W, m, stack, back, forth, line)
  BY DEF Along, OnLine
<1>2. Fits(V, m, stack, back, forth, line)
  BY <1>1 DEF Fits
<1> QED
  BY <1>2 DEF Along, OnLine

LEMMA AlongAppend ==
    ASSUME NEW W, NEW m, NEW stack, NEW back, NEW forth, NEW walk,
           Along(W, m, stack, back, forth, walk), NEW c, NEW w, w \in W,
           Apply(c[back], w) = m, Apply(c[forth], m) = w
    PROVE  Along(W, w, Append(stack, c), back, forth, Append(walk, m))
<1>1. PICK line : Fits(W, m, stack, back, forth, line)
  BY DEF Along, OnLine
<1>2. Listed(stack)
  BY DEF Along, OnLine
<1>3. /\ OnLine(W, w, Append(stack, c), back, forth)
      /\ Walked(w, Append(stack, c), back) = Append(Walked(m, stack, back), m)
  BY <1>1, <1>2, FitsAppend
<1> QED
  BY <1>3 DEF Along

LEMMA AlongBelow ==
    ASSUME NEW W, NEW m, NEW stack, NEW back, NEW forth, NEW walk,
           Along(W, m, stack, back, forth, walk), stack # << >>,
           NEW p, p = Apply(Latest(stack)[back], m)
    PROVE  StepBack(W, m, stack, back, forth, walk, p)
<1>1. PICK line : Fits(W, m, stack, back, forth, line)
  BY DEF Along, OnLine
<1>2. Listed(stack) /\ Walked(m, stack, back) = walk
  BY DEF Along, OnLine
<1>3. Len(stack) \in 1..Len(stack)
  BY <1>2, ListedBelow
<1>4. p = line[Len(stack)]
  BY <1>1, <1>3 DEF Fits, Latest
<1>5. StepBack(W, m, stack, back, forth, Walked(m, stack, back), p)
  BY <1>1, <1>2, <1>4, FitsBelow
<1> QED
  BY <1>2, <1>5

LEMMA AlongTail ==
    ASSUME NEW W, NEW m, NEW stack, NEW back, NEW forth, NEW walk,
           Along(W, m, stack, back, forth, walk), stack # << >>
    PROVE  Along(W, m, Tail(stack), back, forth, Tail(walk))
<1>1. PICK line : Fits(W, m, stack, back, forth, line)
  BY DEF Along, OnLine
<1>2. Listed(stack) /\ Walked(m, stack, back) = walk
  BY DEF Along, OnLine
<1>3. Along(W, m, Tail(stack), back, forth, Tail(Walked(m, stack, back)))
  BY <1>1, <1>2, FitsTail
<1> QED
  BY <1>2, <1>3

LEMMA AlongNothing ==
    ASSUME NEW W, NEW m \in W, NEW back, NEW forth
    PROVE  Along(W, m, << >>, back, forth, << >>)
  BY FitsNothing DEF Along

-----------------------------------------------------------------------------
(* The undo stack: its operations keep the line.                            *)

FoundIn(m, list, id) ==
    /\ id \in IdsIn(m[list])
    /\ list = "receivers" => id \notin IdsIn(m.features)

\* The step that can be gone on with is the latest, and puts one object.
Open(S, m, undos, key) ==
    key # NoKey => /\ undos # << >>
                   /\ \E list \in Lists : /\ FoundIn(m, list, key)
                                          /\ PutsOne(S, Latest(undos), list, key)

\* The store and its two stacks, the lines of both among W.
HistoryAt(S, W, m, undos, redos, key, past, future) ==
    /\ Along(W, m, undos, "undo", "redo", past)
    /\ Along(W, m, redos, "redo", "undo", future)
    /\ Len(undos) + Len(redos) <= MaxSize
    /\ Open(S, m, undos, key)

LEMMA PutFinds ==
    ASSUME NEW S, NEW m \in ModelsOf(S), NEW list \in Lists, NEW x \in Things(S),
           NEW other \in Lists, NEW id, FoundIn(m, other, id)
    PROVE  FoundIn(Apply(PutPatch(list, x), m), other, id)
<1> DEFINE l == m[list]
           put == Put(l, x)
           w == With(m, list, put)
<1>1. Apply(PutPatch(list, x), m) = w
  BY AppliedPut
<1>2. l \in Seq(Things(S)) /\ DOMAIN l = 1..Len(l)
  BY ModelLists
<1> HIDE DEF l
<1>3. put \in Seq(Things(S)) /\ Len(put) = Len(l) /\ \A i \in 1..Len(l) : put[i].id = l[i].id
  BY <1>2, PutIs
<1>4. IdsIn(put) = IdsIn(l)
  <2>1. DOMAIN put = 1..Len(l)
    BY <1>3
  <2> QED
    BY <1>2, <1>3, <2>1 DEF IdsIn
<1> HIDE DEF put
<1>5. w[list] = put /\ \A k \in Lists : k # list => w[k] = m[k]
  BY <1>3, ListReplaced
<1> HIDE DEF w
<1>6. \A k \in Lists : IdsIn(w[k]) = IdsIn(m[k])
  BY <1>4, <1>5 DEF l
<1>7. IdsIn(w[other]) = IdsIn(m[other]) /\ IdsIn(w.features) = IdsIn(m.features)
  BY <1>6 DEF Lists
<1> QED
  BY <1>1, <1>7 DEF FoundIn

LEMMA PutTwice ==
    ASSUME NEW S, NEW m \in ModelsOf(S), NEW list \in Lists, NEW x \in Things(S),
           NEW y \in Things(S), y.id = x.id
    PROVE  Apply(PutPatch(list, y), Apply(PutPatch(list, x), m)) = Apply(PutPatch(list, y), m)
<1> DEFINE l == m[list]
           put == Put(l, x)
           w == With(m, list, put)
<1>1. Apply(PutPatch(list, x), m) = w /\ Apply(PutPatch(list, y), m) = With(m, list, Put(l, y))
  BY AppliedPut
<1>2. l \in Seq(Things(S))
  BY ModelLists
<1>3. put \in Seq(Things(S)) /\ Put(put, y) = Put(l, y)
  BY <1>2, PutIs
<1>4. w[list] = put
  BY <1>3, ListReplaced
<1> HIDE DEF w
<1>5. Apply(PutPatch(list, y), w) = With(w, list, Put(w[list], y))
  BY AppliedPut
<1>6. With(w, list, Put(l, y)) = With(m, list, Put(l, y))
  BY ListReplacedTwice DEF w
<1> QED
  BY <1>1, <1>3, <1>4, <1>5, <1>6

\* A command that is carried out, and what is kept open behind it.
Steps(S, V, m, c, new, key) ==
    /\ new \in V /\ V \subseteq ModelsOf(S)
    /\ new = Apply(c.redo, m) /\ Apply(c.undo, new) = m
    /\ key # NoKey => key = c.key
    /\ c.key # NoKey => \E list \in Lists : FoundIn(m, list, c.key) /\ PutsOne(S, c, list, c.key)

LEMMA StepsOpen ==
    ASSUME NEW S, NEW V, NEW m \in ModelsOf(S), NEW c, NEW new, NEW key, Steps(S, V, m, c, new, key),
           key # NoKey
    PROVE  \E list \in Lists : FoundIn(new, list, key) /\ PutsOne(S, c, list, key)
<1>1. PICK list \in Lists : FoundIn(m, list, key) /\ PutsOne(S, c, list, key)
  BY DEF Steps
<1>2. PICK x, y \in Things(S) : /\ x.id = key /\ y.id = key
                                /\ c.redo = PutPatch(list, x) /\ c.undo = PutPatch(list, y)
  BY <1>1 DEF PutsOne
<1>3. FoundIn(new, list, key)
  BY <1>1, <1>2, PutFinds DEF Steps
<1> QED
  BY <1>1, <1>3

\* A command on a stack with room for it, or on what is left of a full one.
LEMMA PushKeeps ==
    ASSUME NEW S, NEW W, NEW V, W \subseteq V, NEW m, NEW undos, NEW past,
           Along(W, m, undos, "undo", "redo", past), Len(undos) < MaxSize,
           NEW c, NEW new, NEW key, Steps(S, V, m, c, new, key)
    PROVE  HistoryAt(S, V, new, Append(undos, c), << >>, key, Append(past, m), << >>)
<1>1. Along(V, m, undos, "undo", "redo", past)
  BY AlongMore
<1>2. m \in V /\ Listed(undos) /\ Len(undos) \in Nat
  BY <1>1, AlongHere
<1>3. new \in V /\ Apply(c["undo"], new) = m /\ Apply(c["redo"], m) = new
  BY DEF Steps
<1>4. Along(V, new, Append(undos, c), "undo", "redo", Append(past, m))
  BY <1>1, <1>3, AlongAppend
<1>5. Along(V, new, << >>, "redo", "undo", << >>)
  BY <1>3, AlongNothing
<1>6. /\ Len(Append(undos, c)) = Len(undos) + 1 /\ Append(undos, c)[Len(undos) + 1] = c
  BY <1>2, ListedAppend
<1>7. /\ Len(Append(undos, c)) + Len(<< >>) <= MaxSize
      /\ Append(undos, c) # << >> /\ Latest(Append(undos, c)) = c
  BY <1>2, <1>6, StackAssumption DEF Latest
<1>8. Open(S, new, Append(undos, c), key)
  <2>1. m \in ModelsOf(S)
    BY <1>2 DEF Steps
  <2> QED
    BY <1>7, <2>1, StepsOpen DEF Open
<1> QED
  BY <1>4, <1>5, <1>7, <1>8 DEF HistoryAt

LEMMA FullKeeps ==
    ASSUME NEW S, NEW W, NEW V, W \subseteq V, NEW m, NEW undos, NEW past,
           Along(W, m, undos, "undo", "redo", past), Len(undos) = MaxSize,
           NEW c, NEW new, NEW key, Steps(S, V, m, c, new, key)
    PROVE  HistoryAt(S, V, new, Append(Tail(undos), c), << >>, key, Append(Tail(past), m), << >>)
<1>1. Listed(undos) /\ undos # << >>
  <2>1. Listed(undos) /\ Len(undos) \in Nat
    BY AlongHere
  <2> QED
    BY <2>1, StackAssumption
<1>2. Along(W, m, Tail(undos), "undo", "redo", Tail(past))
  BY <1>1, AlongTail
<1>3. Len(Tail(undos)) < MaxSize
  BY <1>1, ListedTail, StackAssumption
<1> QED
  BY <1>2, <1>3, PushKeeps

\* A command that goes on with the open one: it keeps the newest redo and the oldest undo.
LEMMA MergeKeeps ==
    ASSUME NEW S, NEW W, NEW V, W \subseteq V, NEW m, NEW undos, NEW redos, NEW open,
           NEW past, NEW future,
           HistoryAt(S, W, m, undos, redos, open, past, future), W \subseteq ModelsOf(S),
           open # NoKey, NEW c, NEW new, NEW key, Steps(S, V, m, c, new, key), c.key = open,
           NEW both, both = Command(c.redo, Latest(undos).undo, c.key)
    PROVE  HistoryAt(S, V, new, Append(Below(undos), both), << >>, key, past, << >>)
<1> DEFINE top == Latest(undos)
           p == Apply(top.undo, m)
           before == SubSeq(past, 1, Len(past) - 1)
<1>1. Along(W, m, undos, "undo", "redo", past) /\ undos # << >>
  BY DEF HistoryAt, Open
<1>2. Listed(undos) /\ Len(undos) \in Nat /\ m \in W
  BY <1>1, AlongHere
<1>3. StepBack(W, m, undos, "undo", "redo", past, p)
  BY <1>1, AlongBelow
<1>4. /\ p \in W /\ Apply(top.redo, p) = m /\ past = Append(before, p)
      /\ Along(W, p, Below(undos), "undo", "redo", before)
  BY <1>3 DEF StepBack
<1>5. p = Apply(top.undo, m)
  OBVIOUS
<1>6. PICK list \in Lists : FoundIn(m, list, open) /\ PutsOne(S, top, list, open)
  BY DEF HistoryAt, Open
<1> HIDE DEF top, p, before
<1>7. PICK other \in Lists : FoundIn(m, other, open) /\ PutsOne(S, c, other, open)
  BY DEF Steps
<1>8. other = list
  BY <1>6, <1>7 DEF FoundIn, Lists
<1>9. PICK x, y \in Things(S) : /\ x.id = open /\ y.id = open
                                /\ top.redo = PutPatch(list, x) /\ top.undo = PutPatch(list, y)
  BY <1>6 DEF PutsOne
<1>10. PICK v, u \in Things(S) : /\ v.id = open /\ u.id = open
                                 /\ c.redo = PutPatch(list, v) /\ c.undo = PutPatch(list, u)
  BY <1>7, <1>8 DEF PutsOne
<1>11. m \in ModelsOf(S) /\ p \in ModelsOf(S) /\ new = Apply(PutPatch(list, v), m) /\ new \in V
  BY <1>2, <1>4, <1>10 DEF Steps
<1>12. Apply(PutPatch(list, y), new) = p
  <2>1. Apply(PutPatch(list, y), new) = Apply(PutPatch(list, y), m)
    BY <1>9, <1>10, <1>11, PutTwice
  <2> QED
    BY <1>5, <1>9, <2>1
<1>13. Apply(PutPatch(list, v), p) = new
  <2>1. Apply(PutPatch(list, v), Apply(PutPatch(list, x), p)) = Apply(PutPatch(list, v), p)
    BY <1>9, <1>10, <1>11, PutTwice
  <2> QED
    BY <1>4, <1>9, <1>11, <2>1
<1>14. both.redo = PutPatch(list, v) /\ both.undo = PutPatch(list, y) /\ both.key = open
  BY <1>9, <1>10 DEF Command, top
<1>15. Steps(S, V, p, both, new, key)
  <2>1. key # NoKey => key = open
    BY DEF Steps
  <2>2. PutsOne(S, both, list, open)
    BY <1>9, <1>10, <1>14 DEF PutsOne
  <2>3. FoundIn(p, list, open)
    <3>1. FoundIn(Apply(PutPatch(list, y), m), list, open)
      BY <1>6, <1>9, <1>11, PutFinds
    <3> QED
      BY <1>5, <1>9, <3>1
  <2>4. V \subseteq ModelsOf(S)
    BY DEF Steps
  <2> QED
    BY <1>11, <1>12, <1>13, <1>14, <2>1, <2>2, <2>3, <2>4 DEF Steps
<1>16. Len(Below(undos)) < MaxSize
  <2>1. Len(redos) \in Nat /\ Len(undos) + Len(redos) <= MaxSize
    BY AlongHere DEF HistoryAt
  <2>2. Len(Below(undos)) = Len(undos) - 1
    BY <1>1, <1>2, ListedBelow
  <2> QED
    BY <1>2, <2>1, <2>2, StackAssumption
<1>17. HistoryAt(S, V, new, Append(Below(undos), both), << >>, key, Append(before, p), << >>)
  BY <1>4, <1>15, <1>16, PushKeeps
<1> QED
  BY <1>4, <1>17

\* Undo and redo move the latest command of one stack to the other.
LEMMA UndoKeeps ==
    ASSUME NEW S, NEW W, NEW m, NEW undos, NEW redos, NEW open, NEW past, NEW future,
           HistoryAt(S, W, m, undos, redos, open, past, future), undos # << >>,
           NEW p, p = Apply(Latest(undos).undo, m)
    PROVE  /\ past # << >> /\ p = past[Len(past)]
           /\ HistoryAt(S, W, p, Below(undos), Append(redos, Latest(undos)), NoKey,
                        SubSeq(past, 1, Len(past) - 1), Append(future, m))
<1>1. Along(W, m, undos, "undo", "redo", past) /\ Along(W, m, redos, "redo", "undo", future)
  BY DEF HistoryAt
<1>2. Listed(undos) /\ Len(undos) \in Nat /\ Listed(redos)
  BY <1>1, AlongHere
<1>3. StepBack(W, m, undos, "undo", "redo", past, p)
  BY <1>1, AlongBelow
<1>4. /\ past # << >> /\ p = past[Len(past)] /\ p \in W
      /\ Apply(Latest(undos)["undo"], m) = p /\ Apply(Latest(undos)["redo"], p) = m
      /\ Along(W, p, Below(undos), "undo", "redo", SubSeq(past, 1, Len(past) - 1))
  BY <1>3 DEF StepBack
<1>5. Along(W, p, Append(redos, Latest(undos)), "redo", "undo", Append(future, m))
  BY <1>1, <1>4, AlongAppend
<1>6. Len(Below(undos)) + Len(Append(redos, Latest(undos))) <= MaxSize
  <2>1. Len(Append(redos, Latest(undos))) = Len(redos) + 1 /\ Len(redos) \in Nat
    BY <1>2, ListedAppend
  <2>2. Len(undos) \in Nat \ {0} /\ Len(Below(undos)) = Len(undos) - 1
    BY <1>2, ListedBelow
  <2> QED
    BY <2>1, <2>2, StackAssumption DEF HistoryAt
<1>7. Open(S, p, Below(undos), NoKey)
  BY DEF Open
<1> QED
  BY <1>4, <1>5, <1>6, <1>7 DEF HistoryAt

LEMMA RedoKeeps ==
    ASSUME NEW S, NEW W, NEW m, NEW undos, NEW redos, NEW open, NEW past, NEW future,
           HistoryAt(S, W, m, undos, redos, open, past, future), redos # << >>,
           NEW p, p = Apply(Latest(redos).redo, m)
    PROVE  /\ future # << >> /\ p = future[Len(future)]
           /\ HistoryAt(S, W, p, Append(undos, Latest(redos)), Below(redos), NoKey,
                        Append(past, m), SubSeq(future, 1, Len(future) - 1))
<1>1. Along(W, m, undos, "undo", "redo", past) /\ Along(W, m, redos, "redo", "undo", future)
  BY DEF HistoryAt
<1>2. Listed(redos) /\ Len(redos) \in Nat /\ Listed(undos)
  BY <1>1, AlongHere
<1>3. StepBack(W, m, redos, "redo", "undo", future, p)
  BY <1>1, AlongBelow
<1>4. /\ future # << >> /\ p = future[Len(future)] /\ p \in W
      /\ Apply(Latest(redos)["redo"], m) = p /\ Apply(Latest(redos)["undo"], p) = m
      /\ Along(W, p, Below(redos), "redo", "undo", SubSeq(future, 1, Len(future) - 1))
  BY <1>3 DEF StepBack
<1>5. Along(W, p, Append(undos, Latest(redos)), "undo", "redo", Append(past, m))
  BY <1>1, <1>4, AlongAppend
<1>6. Len(Append(undos, Latest(redos))) + Len(Below(redos)) <= MaxSize
  <2>1. Len(Append(undos, Latest(redos))) = Len(undos) + 1 /\ Len(undos) \in Nat
    BY <1>2, ListedAppend
  <2>2. Len(redos) \in Nat \ {0} /\ Len(Below(redos)) = Len(redos) - 1
    BY <1>2, ListedBelow
  <2> QED
    BY <2>1, <2>2, StackAssumption DEF HistoryAt
<1>7. Open(S, p, Append(undos, Latest(redos)), NoKey)
  BY DEF Open
<1> QED
  BY <1>4, <1>5, <1>6, <1>7 DEF HistoryAt

-----------------------------------------------------------------------------
(* The undo stack: the inductive invariant, and what an edit is to the line. *)

\* The models of F in which an id is of one object.
Reachable(S, F, known) == {w \in F : Sane(S, known, w)}

HistoryInv(S, F) ==
    HistoryAt(S, Reachable(S, F, Known), store, undoStack, redoStack, openKey, Past, Future)

\* A command whose step is kept open, or one that is closed where nothing was open.
ClosesOrKeeps(c) == openKey' = c.key \/ (openKey = NoKey /\ openKey' = NoKey)

LEMMA ExecutedKeeps ==
    ASSUME NEW S, NEW F, HistoryInv(S, F), NEW c, Executed(c), MakesOne(S, c, Known'),
           Known \subseteq Known', store' \in F, ClosesOrKeeps(c)
    PROVE  /\ HistoryInv(S, F)'
           /\ History!NewStep \/ History!GoOn
           /\ Future' = << >> /\ (openKey # NoKey /\ c.key = openKey => Past' = Past)
<1> DEFINE W == Reachable(S, F, Known)
           V == Reachable(S, F, Known')
<1>1. W \subseteq V /\ V \subseteq ModelsOf(S) /\ W \subseteq ModelsOf(S)
  BY DEF Reachable, Sane
<1>2. Steps(S, V, store, c, store', openKey')
  <2>1. store' = Apply(c.redo, store) /\ Apply(c.undo, store') = store
    BY DEF Executed, MakesOne, Carries
  <2>2. store' \in V
    BY <2>1 DEF MakesOne, Reachable
  <2>3. openKey' # NoKey => openKey' = c.key
    BY DEF ClosesOrKeeps
  <2>4. c.key # NoKey =>
           \E list \in Lists : FoundIn(store, list, c.key) /\ PutsOne(S, c, list, c.key)
    BY DEF MakesOne, Carries, GoesOnWith, Found, FoundIn
  <2> QED
    BY <1>1, <2>1, <2>2, <2>3, <2>4 DEF Steps
<1>3. HistoryAt(S, W, store, undoStack, redoStack, openKey, Past, Future)
  BY DEF HistoryInv
<1> HIDE DEF W, V
<1>4. /\ Along(W, store, undoStack, "undo", "redo", Past)
      /\ Len(undoStack) + Len(redoStack) <= MaxSize
      /\ openKey # NoKey => undoStack # << >>
  BY <1>3 DEF HistoryAt, Open
<1>5. /\ Listed(undoStack) /\ Len(undoStack) \in Nat /\ Len(redoStack) \in Nat
      /\ Past \in Seq(W) /\ Len(Past) = Len(undoStack)
  <2>1. Along(W, store, redoStack, "redo", "undo", Future)
    BY <1>3 DEF HistoryAt
  <2>2. Len(redoStack) \in Nat
    BY <2>1, AlongHere
  <2>3. /\ Listed(undoStack) /\ Len(undoStack) \in Nat
        /\ Past \in Seq(W) /\ Len(Past) = Len(undoStack)
    BY <1>4, AlongHere
  <2> QED
    BY <2>2, <2>3
<1>6. undoStack' = Pushed(c) /\ redoStack' = << >>
  BY DEF Executed
<1>7. CASE c.key # NoKey /\ c.key = openKey
  <2> DEFINE both == Command(c.redo, Latest(undoStack).undo, c.key)
  <2>1. undoStack' = Append(Below(undoStack), both)
    BY <1>4, <1>6, <1>7 DEF Pushed
  <2>2. HistoryAt(S, V, store', Append(Below(undoStack), both), << >>, openKey', Past, << >>)
    BY <1>1, <1>2, <1>3, <1>7, MergeKeeps
  <2> HIDE DEF both
  <2>3. HistoryAt(S, V, store', undoStack', redoStack', openKey', Past, << >>)
    BY <1>6, <2>1, <2>2
  <2>4. Past' = Past /\ Future' = << >>
    BY <2>3 DEF HistoryAt, Along, Past, Future
  <2>5. HistoryInv(S, F)'
    BY <2>3, <2>4 DEF HistoryInv, V
  <2>6. openKey # NoKey /\ openKey' # NoKey /\ Past # << >>
    <3>1. Past # << >>
      BY <1>4, <1>5, <1>7, ListedBelow
    <3> QED
      BY <1>7, <3>1 DEF ClosesOrKeeps
  <2>7. History!GoOn
    BY <2>4, <2>6 DEF History!GoOn
  <2> QED
    BY <2>4, <2>5, <2>7
<1>8. CASE ~(c.key # NoKey /\ c.key = openKey) /\ Len(undoStack) < MaxSize
  <2>1. undoStack' = Append(undoStack, c)
    BY <1>6, <1>8 DEF Pushed
  <2>2. HistoryAt(S, V, store', Append(undoStack, c), << >>, openKey', Append(Past, store), << >>)
    BY <1>1, <1>2, <1>4, <1>8, PushKeeps
  <2>3. HistoryAt(S, V, store', undoStack', redoStack', openKey', Append(Past, store), << >>)
    BY <1>6, <2>1, <2>2
  <2>4. Past' = Append(Past, store) /\ Future' = << >>
    BY <2>3 DEF HistoryAt, Along, Past, Future
  <2>5. HistoryInv(S, F)'
    BY <2>3, <2>4 DEF HistoryInv, V
  <2>6. History!NewStep
    BY <1>5, <1>8, <2>4 DEF History!NewStep
  <2> QED
    BY <1>8, <2>4, <2>5, <2>6
<1>9. CASE ~(c.key # NoKey /\ c.key = openKey) /\ ~(Len(undoStack) < MaxSize)
  <2>1. undoStack' = Append(Tail(undoStack), c) /\ Len(undoStack) = MaxSize
    BY <1>4, <1>5, <1>6, <1>9, StackAssumption DEF Pushed
  <2>2. HistoryAt(S, V, store', Append(Tail(undoStack), c), << >>, openKey',
                  Append(Tail(Past), store), << >>)
    BY <1>1, <1>2, <1>4, <2>1, FullKeeps
  <2>3. HistoryAt(S, V, store', undoStack', redoStack', openKey', Append(Tail(Past), store), << >>)
    BY <1>6, <2>1, <2>2
  <2>4. Past' = Append(Tail(Past), store) /\ Future' = << >>
    BY <2>3 DEF HistoryAt, Along, Past, Future
  <2>5. HistoryInv(S, F)'
    BY <2>3, <2>4 DEF HistoryInv, V
  <2>6. History!NewStep
    BY <1>5, <1>9, <2>4 DEF History!NewStep
  <2> QED
    BY <1>9, <2>4, <2>5, <2>6
<1> QED
  BY <1>7, <1>8, <1>9

LEMMA UndoStep ==
    ASSUME NEW S, NEW F, HistoryInv(S, F), Undo
    PROVE  HistoryInv(S, F)' /\ History!Undo
<1> DEFINE W == Reachable(S, F, Known)
<1>1. HistoryAt(S, W, store, undoStack, redoStack, openKey, Past, Future)
  BY DEF HistoryInv
<1>2. /\ undoStack # << >> /\ store' = Apply(Latest(undoStack).undo, store)
      /\ undoStack' = Below(undoStack) /\ redoStack' = Append(redoStack, Latest(undoStack))
      /\ openKey' = NoKey /\ minted' = minted
  BY DEF Undo, Seal
<1> HIDE DEF W
<1>3. /\ Past # << >> /\ store' = Past[Len(Past)]
      /\ HistoryAt(S, W, store', Below(undoStack), Append(redoStack, Latest(undoStack)), NoKey,
                   SubSeq(Past, 1, Len(Past) - 1), Append(Future, store))
  BY <1>1, <1>2, UndoKeeps
<1>4. HistoryAt(S, W, store', undoStack', redoStack', openKey',
                SubSeq(Past, 1, Len(Past) - 1), Append(Future, store))
  BY <1>2, <1>3
<1>5. Past' = SubSeq(Past, 1, Len(Past) - 1) /\ Future' = Append(Future, store)
  BY <1>4 DEF HistoryAt, Along, Past, Future
<1>6. Known' = Known
  BY <1>2 DEF Known
<1>7. HistoryInv(S, F)'
  BY <1>4, <1>5, <1>6 DEF HistoryInv, W
<1> QED
  BY <1>2, <1>3, <1>5, <1>7 DEF History!Undo

LEMMA RedoStep ==
    ASSUME NEW S, NEW F, HistoryInv(S, F), Redo
    PROVE  HistoryInv(S, F)' /\ History!Redo
<1> DEFINE W == Reachable(S, F, Known)
<1>1. HistoryAt(S, W, store, undoStack, redoStack, openKey, Past, Future)
  BY DEF HistoryInv
<1>2. /\ redoStack # << >> /\ store' = Apply(Latest(redoStack).redo, store)
      /\ redoStack' = Below(redoStack) /\ undoStack' = Append(undoStack, Latest(redoStack))
      /\ openKey' = NoKey /\ minted' = minted
  BY DEF Redo, Seal
<1> HIDE DEF W
<1>3. /\ Future # << >> /\ store' = Future[Len(Future)]
      /\ HistoryAt(S, W, store', Append(undoStack, Latest(redoStack)), Below(redoStack), NoKey,
                   Append(Past, store), SubSeq(Future, 1, Len(Future) - 1))
  BY <1>1, <1>2, RedoKeeps
<1>4. HistoryAt(S, W, store', undoStack', redoStack', openKey',
                Append(Past, store), SubSeq(Future, 1, Len(Future) - 1))
  BY <1>2, <1>3
<1>5. Past' = Append(Past, store) /\ Future' = SubSeq(Future, 1, Len(Future) - 1)
  BY <1>4 DEF HistoryAt, Along, Past, Future
<1>6. Known' = Known
  BY <1>2 DEF Known
<1>7. HistoryInv(S, F)'
  BY <1>4, <1>5, <1>6 DEF HistoryInv, W
<1> QED
  BY <1>2, <1>3, <1>5, <1>7 DEF History!Redo

\* Whatever empties both stacks, and what closes the open step.
LEMMA ClearStep ==
    ASSUME NEW S, NEW F, store' \in Reachable(S, F, Known'), Clear
    PROVE  HistoryInv(S, F)' /\ History!Replace
<1> DEFINE V == Reachable(S, F, Known')
<1>1. undoStack' = << >> /\ redoStack' = << >> /\ openKey' = NoKey
  BY DEF Clear, Seal
<1>2. store' \in V
  OBVIOUS
<1> HIDE DEF V
<1>3. Along(V, store', << >>, "undo", "redo", << >>) /\ Along(V, store', << >>, "redo", "undo", << >>)
  BY <1>2, AlongNothing
<1>4. HistoryAt(S, V, store', undoStack', redoStack', openKey', << >>, << >>)
  BY <1>1, <1>3, StackAssumption DEF HistoryAt, Open
<1>5. Past' = << >> /\ Future' = << >>
  BY <1>4 DEF HistoryAt, Along, Past, Future
<1>6. HistoryInv(S, F)'
  BY <1>4, <1>5 DEF HistoryInv, V
<1> QED
  BY <1>1, <1>5, <1>6 DEF History!Replace

LEMMA SealStep ==
    ASSUME NEW S, NEW F, HistoryInv(S, F), Seal, UNCHANGED <<store, undoStack, redoStack, minted>>
    PROVE  HistoryInv(S, F)' /\ History!Close
<1>1. Past' = Past /\ Future' = Future /\ Known' = Known /\ openKey' = NoKey
  BY DEF Past, Future, Known, Seal
<1>2. HistoryInv(S, F)'
  BY <1>1 DEF HistoryInv, HistoryAt, Open
<1> QED
  BY <1>1, <1>2 DEF History!Close

LEMMA StandStep ==
    ASSUME NEW S, NEW F, HistoryInv(S, F), UNCHANGED editVars
    PROVE  HistoryInv(S, F)' /\ UNCHANGED History!vars
<1>1. /\ Past' = Past /\ Future' = Future /\ Known' = Known /\ openKey' = openKey
      /\ store' = store /\ undoStack' = undoStack /\ redoStack' = redoStack
  BY DEF Past, Future, Known, editVars, historyVars
<1>2. HistoryInv(S, F)'
  BY <1>1 DEF HistoryInv
<1> QED
  BY <1>1, <1>2 DEF History!vars

-----------------------------------------------------------------------------
(* The undo stack: the edits.                                               *)

\* One edit: a command carried out, which can be taken back, and whose step is left open
\* if it has a key.
Edits(S, c) ==
    /\ Executed(c) /\ openKey' = c.key
    /\ MakesOne(S, c, Known') /\ Known \subseteq Known'

LEMMA HeldIs ==
    ASSUME NEW S, Sane(S, Known, store), NEW list \in Lists, NEW id, Found(list, id)
    PROVE  Held(list, id) \in Things(S) /\ Held(list, id).id = id
<1>1. store[list] \in Seq(Things(S)) /\ EachOnce(store[list]) /\ id \in IdsIn(store[list])
  BY SaneLists DEF Found
<1> QED
  BY <1>1, FirstOfIs DEF Held

LEMMA AddEdits ==
    ASSUME NEW S, Sane(S, Known, store), NEW list \in Lists, NEW id \in MintedIds,
           NEW shape \in S, NEW props \in Props, Add(list, id, shape, props)
    PROVE  \E c : Edits(S, c)
<1> DEFINE x == [id |-> id, shape |-> shape, crs |-> store.crs, props |-> props]
           c == Command(AppendPatch(list, x), DropPatch(list, id), NoKey)
<1>1. id \in MintedIds \ minted /\ minted' = minted \cup {id} /\ Executed(c) /\ openKey' = c.key
  BY DEF Add, Execute, AppendPatch, DropPatch
<1>2. x \in Things(S) /\ x.id = id
  BY DEF Sane, ModelsOf, Things
<1> HIDE DEF x
<1>3. MakesOne(S, c, Known \cup {id})
  BY <1>1, <1>2, AddMakes
<1>4. Known' = Known \cup {id}
  BY <1>1 DEF Known
<1> HIDE DEF c
<1> QED
  BY <1>1, <1>3, <1>4 DEF Edits

LEMMA UpdateEdits ==
    ASSUME NEW S, Sane(S, Known, store), NEW list \in Lists, NEW id,
           NEW props \in Props, Update(list, id, props)
    PROVE  \E c : Edits(S, c)
<1> DEFINE x == [Held(list, id) EXCEPT !.props = props]
           c == PutCommand(list, x, NoKey)
<1>1. Found(list, id) /\ Executed(c) /\ openKey' = c.key /\ minted' = minted
  BY DEF Update, Execute
<1>2. x \in Things(S) /\ x.id = id
  BY <1>1, HeldIs DEF Things
<1> HIDE DEF x
<1>3. MakesOne(S, c, Known)
  BY <1>1, <1>2, PutMakes
<1>4. Known' = Known
  BY <1>1 DEF Known
<1> HIDE DEF c
<1> QED
  BY <1>1, <1>3, <1>4 DEF Edits

LEMMA ReshapeMakes ==
    ASSUME NEW S, Sane(S, Known, store), NEW list \in Lists, NEW id, Found(list, id),
           NEW shape \in S, NEW crs \in CRSs
    PROVE  MakesOne(S, ReshapeCommand(list, id, shape, crs), Known)
<1> DEFINE x == [Held(list, id) EXCEPT !.shape = shape, !.crs = crs]
<1>1. x \in Things(S) /\ x.id = id
  <2> DEFINE h == Held(list, id)
  <2>1. h \in Things(S) /\ h.id = id
    BY HeldIs
  <2> HIDE DEF h
  <2>2. /\ h \in [id : Ids \cup MintedIds, shape : S, crs : CRSs, props : Props]
        /\ shape \in S /\ crs \in CRSs
    BY <2>1 DEF Things
  <2>3. [[h EXCEPT !.shape = shape] EXCEPT !.crs = crs] \in Things(S)
    BY <2>2 DEF Things
  <2>4. x = [[h EXCEPT !.shape = shape] EXCEPT !.crs = crs]
    BY DEF h
  <2>5. [[h EXCEPT !.shape = shape] EXCEPT !.crs = crs].id = h.id
    BY <2>2
  <2> QED
    BY <2>1, <2>3, <2>4, <2>5
<1>2. ReshapeCommand(list, id, shape, crs) = PutCommand(list, x, id)
  BY DEF ReshapeCommand
<1> HIDE DEF x
<1>3. MakesOne(S, PutCommand(list, x, id), Known)
  BY <1>1, PutMakes
<1> QED
  BY <1>2, <1>3

LEMMA ReshapeEdits ==
    ASSUME NEW S, Sane(S, Known, store), NEW list \in Lists, NEW id,
           NEW shape \in S, NEW crs \in CRSs, Reshape(list, id, shape, crs)
    PROVE  \E c : Edits(S, c)
<1> DEFINE c == ReshapeCommand(list, id, shape, crs)
<1>1. Found(list, id) /\ Executed(c) /\ openKey' = c.key /\ minted' = minted
  BY DEF Reshape, Execute
<1>2. MakesOne(S, c, Known)
  BY <1>1, ReshapeMakes
<1>3. Known' = Known
  BY <1>1 DEF Known
<1> HIDE DEF c
<1> QED
  BY <1>1, <1>2, <1>3 DEF Edits

LEMMA RemoveEdits ==
    ASSUME NEW S, Sane(S, Known, store), NEW list \in Lists, NEW id, Remove(list, id)
    PROVE  \E c : Edits(S, c)
<1> DEFINE at == FirstOf(store[list], id)
           c == Command(DropPatch(list, id), SplicePatch(list, at, store[list][at]), NoKey)
<1>1. Found(list, id) /\ Executed(c) /\ openKey' = c.key /\ minted' = minted
  BY DEF Remove, Execute, DropPatch, SplicePatch
<1> HIDE DEF at
<1>2. MakesOne(S, c, Known)
  BY <1>1, RemoveMakes DEF at
<1>3. Known' = Known
  BY <1>1 DEF Known
<1> HIDE DEF c
<1> QED
  BY <1>1, <1>2, <1>3 DEF Edits

LEMMA SetAreaEdits ==
    ASSUME NEW S, Sane(S, Known, store), NEW area \in {NoArea, "area"}, SetArea(area)
    PROVE  \E c : Edits(S, c)
<1> DEFINE c == Command(AreaPatch(area), AreaPatch(store.area), NoKey)
<1>1. Executed(c) /\ openKey' = c.key /\ minted' = minted
  BY DEF SetArea, Execute, AreaPatch
<1>2. MakesOne(S, c, Known)
  BY SetAreaMakes
<1>3. Known' = Known
  BY <1>1 DEF Known
<1> HIDE DEF c
<1> QED
  BY <1>1, <1>2, <1>3 DEF Edits

LEMMA WholeEdits ==
    ASSUME NEW S, \E c : Execute(c) /\ MakesOne(S, c, Known) /\ UNCHANGED minted
    PROVE  \E c : Edits(S, c)
<1>1. PICK c : Execute(c) /\ MakesOne(S, c, Known) /\ UNCHANGED minted
  OBVIOUS
<1>2. Known' = Known /\ Executed(c) /\ openKey' = c.key
  BY <1>1 DEF Known, Execute
<1> QED
  BY <1>1, <1>2 DEF Edits

LEMMA EditModelEdits ==
    ASSUME NEW S, Shapes \subseteq S, \A f \in Files : Brings(S, Known, f),
           Sane(S, Known, store), EditModel
    PROVE  \E c : Edits(S, c)
<1>1. store.crs \in CRSs
  BY DEF Sane, ModelsOf
<1>2. ASSUME NEW list \in Lists, NEW id \in MintedIds, NEW s \in Shapes, NEW p \in Props,
             Add(list, id, s, p)
      PROVE  \E c : Edits(S, c)
  BY <1>2, AddEdits
<1>3. ASSUME NEW list \in Lists, NEW id \in IdsIn(store[list]), Remove(list, id)
      PROVE  \E c : Edits(S, c)
  BY <1>3, RemoveEdits
<1>4. ASSUME NEW list \in Lists, NEW id \in IdsIn(store[list]), NEW p \in Props, Update(list, id, p)
      PROVE  \E c : Edits(S, c)
  BY <1>4, UpdateEdits
<1>5. ASSUME NEW list \in Lists, NEW id \in IdsIn(store[list]), NEW s \in Shapes,
             Reshape(list, id, s, store.crs)
      PROVE  \E c : Edits(S, c)
  BY <1>1, <1>5, ReshapeEdits
<1>6. ASSUME NEW ids, NEW p \in Props, SignOff(ids, p)
      PROVE  \E c : Edits(S, c)
  BY <1>6, SignOffMakes, WholeEdits
<1>7. ASSUME NEW a \in {NoArea, "area"}, SetArea(a)
      PROVE  \E c : Edits(S, c)
  BY <1>7, SetAreaEdits
<1>8. ASSUME NEW f \in Files, Merge(f)
      PROVE  \E c : Edits(S, c)
  BY <1>8, MergeMakes, WholeEdits
<1>9. ASSUME NEW f \in Files, NEW box, ReplaceBuildings(f, box)
      PROVE  \E c : Edits(S, c)
  BY <1>9, ReplaceBuildingsMakes, WholeEdits
<1> QED
  BY <1>2, <1>3, <1>4, <1>5, <1>6, <1>7, <1>8, <1>9 DEF EditModel

-----------------------------------------------------------------------------
(* The undo stack: its theorems.                                            *)

FileShapes == UNION {{list[i].shape : i \in DOMAIN list} :
                        list \in {f.features : f \in Files} \cup {f.receivers : f \in Files}}

LEMMA FilesBring ==
    ASSUME NEW S, FileShapes \subseteq S, NEW f \in Files
    PROVE  Brings(S, Ids, f)
<1>1. ASSUME NEW list, list = f.features \/ list = f.receivers
      PROVE  list \in Seq(Things(S)) /\ IdsIn(list) \subseteq Ids
  <2> DEFINE things == {list[i] : i \in DOMAIN list}
  <2>1. /\ list \in Seq(things)
        /\ things \subseteq [id : IdsIn(list), shape : {x.shape : x \in things},
                             crs : {"lonlat", "metric"}, props : Props]
    <3>1. \A l \in {f.features, f.receivers} :
             /\ l \in Seq({l[i] : i \in DOMAIN l})
             /\ {l[i] : i \in DOMAIN l} \subseteq
                   [id : IdsIn(l), shape : {x.shape : x \in {l[i] : i \in DOMAIN l}},
                    crs : {"lonlat", "metric"}, props : Props]
      BY FilesAssumption, Zenon
    <3>2. list \in {f.features, f.receivers}
      BY <1>1
    <3> QED
      BY <3>1, <3>2
  <2>2. {x.shape : x \in things} \subseteq S
    BY <1>1 DEF FileShapes
  <2>3. IdsIn(list) \subseteq Ids
    BY <1>1 DEF Ids
  <2> HIDE DEF things
  <2>4. things \subseteq Things(S)
    BY <2>1, <2>2, <2>3 DEF Things, CRSs
  <2> QED
    BY <2>1, <2>3, <2>4, SeqMonotonic
<1>2. /\ f.features \in Seq(Things(S)) /\ IdsIn(f.features) \subseteq Ids
      /\ f.receivers \in Seq(Things(S)) /\ IdsIn(f.receivers) \subseteq Ids
  BY <1>1
<1>3. /\ f = [features |-> f.features, receivers |-> f.receivers, area |-> f.area, crs |-> f.crs]
      /\ f.area \in {NoArea, "area"} /\ f.crs \in CRSs
  BY FilesAssumption DEF CRSs
<1>4. f \in ModelsOf(S)
  BY <1>2, <1>3 DEF ModelsOf
<1> QED
  BY <1>2, <1>4 DEF Brings

LEMMA FilesAreModels ==
    ASSUME NEW S, FileShapes \subseteq S, NEW f \in Files
    PROVE  Brings(S, Known, f)
  BY FilesBring DEF Brings, Known

LEMMA EmptyIsSane == ASSUME NEW S, NEW known PROVE Sane(S, known, EmptyModel)
<1> DEFINE none == << >>
<1>1. none \in Seq(Things(S)) /\ DOMAIN none = {}
  OBVIOUS
<1>2. /\ EmptyModel.features = none /\ EmptyModel.receivers = none
      /\ EmptyModel = [features |-> none, receivers |-> none, area |-> NoArea, crs |-> "lonlat"]
  BY DEF EmptyModel
<1> HIDE DEF none
<1>3. EmptyModel \in ModelsOf(S)
  BY <1>1, <1>2 DEF ModelsOf, CRSs
<1>4. EachOnce(none) /\ IdsIn(none) = {}
  BY <1>1 DEF EachOnce, IdsIn
<1> QED
  BY <1>2, <1>3, <1>4 DEF Sane, OneObjectPerId

EditInv(S, F) ==
    HistoryInv(S, F) /\ minted \subseteq MintedIds /\ edits \in 0..MaxEdits

LEMMA EditInitially ==
    ASSUME NEW S, NEW F, EmptyModel \in F, EditInit
    PROVE  EditInv(S, F) /\ History!Init
<1> DEFINE W == Reachable(S, F, Known)
<1>1. store \in W
  BY EmptyIsSane DEF EditInit, Reachable
<1> HIDE DEF W
<1>2. undoStack = << >> /\ redoStack = << >> /\ openKey = NoKey
  BY DEF EditInit
<1>3. Along(W, store, << >>, "undo", "redo", << >>) /\ Along(W, store, << >>, "redo", "undo", << >>)
  BY <1>1, AlongNothing
<1>4. HistoryAt(S, W, store, undoStack, redoStack, openKey, << >>, << >>)
  BY <1>2, <1>3, StackAssumption DEF HistoryAt, Open
<1>5. Past = << >> /\ Future = << >>
  BY <1>4 DEF HistoryAt, Along, Past, Future
<1>6. HistoryInv(S, F)
  BY <1>4, <1>5 DEF HistoryInv, W
<1>7. minted \subseteq MintedIds /\ edits \in 0..MaxEdits
  BY StackAssumption DEF EditInit
<1> QED
  BY <1>2, <1>5, <1>6, <1>7 DEF EditInv, History!Init

LEMMA InvSane ==
    ASSUME NEW S, NEW F, HistoryInv(S, F)
    PROVE  Sane(S, Known, store) /\ store \in F
<1>1. Along(Reachable(S, F, Known), store, undoStack, "undo", "redo", Past)
  BY DEF HistoryInv, HistoryAt
<1>2. store \in Reachable(S, F, Known)
  BY <1>1, AlongHere
<1> QED
  BY <1>2 DEF Reachable

LEMMA EditsStep ==
    ASSUME NEW S, NEW F, EditInv(S, F), NEW c, Edits(S, c), store' \in F, minted' \subseteq MintedIds
    PROVE  EditInv(S, F)' /\ (History!NewStep \/ History!GoOn)
<1>1. HistoryInv(S, F)' /\ (History!NewStep \/ History!GoOn)
  BY ExecutedKeeps DEF EditInv, Edits, ClosesOrKeeps
<1>2. edits' \in 0..MaxEdits
  BY StackAssumption DEF EditInv, Edits, Executed
<1> QED
  BY <1>1, <1>2 DEF EditInv

LEMMA EditModelMints == ASSUME minted \subseteq MintedIds, EditModel PROVE minted' \subseteq MintedIds
  BY DEF EditModel, Add, Remove, Update, Reshape, SignOff, SetArea, Merge, ReplaceBuildings

LEMMA EditStep ==
    ASSUME \A f \in Files : OneObjectPerId(f),
           NEW S, S = Shapes \cup FileShapes, NEW F, F = ModelsOf(S),
           EditInv(S, F), [EditNext]_editVars
    PROVE  EditInv(S, F)' /\ [History!Next]_(History!vars)
<1>1. \A f \in Files : Brings(S, Known, f)
  BY FilesAreModels
<1>2. Sane(S, Known, store) /\ HistoryInv(S, F)
  BY InvSane DEF EditInv
<1>3. CASE EditModel
  <2>1. PICK c : Edits(S, c)
    BY <1>1, <1>2, <1>3, EditModelEdits
  <2>2. store' \in F
    BY <2>1 DEF Edits, Executed, MakesOne, Sane
  <2>3. minted' \subseteq MintedIds
    BY <1>3, EditModelMints DEF EditInv
  <2>4. EditInv(S, F)' /\ (History!NewStep \/ History!GoOn)
    BY <2>1, <2>2, <2>3, EditsStep
  <2> QED
    BY <2>4 DEF History!Next
<1>4. CASE Undo
  <2>1. HistoryInv(S, F)' /\ History!Undo
    BY <1>2, <1>4, UndoStep
  <2>2. minted' = minted /\ edits' = edits
    BY <1>4 DEF Undo
  <2> QED
    BY <2>1, <2>2 DEF History!Next, EditInv
<1>5. CASE Redo
  <2>1. HistoryInv(S, F)' /\ History!Redo
    BY <1>2, <1>5, RedoStep
  <2>2. minted' = minted /\ edits' = edits
    BY <1>5 DEF Redo
  <2> QED
    BY <2>1, <2>2 DEF History!Next, EditInv
<1>6. CASE SealHistory
  <2>1. Seal /\ UNCHANGED <<store, undoStack, redoStack, minted, edits>>
    BY <1>6 DEF SealHistory
  <2>2. HistoryInv(S, F)' /\ History!Close
    BY <1>2, <2>1, SealStep
  <2> QED
    BY <2>1, <2>2 DEF History!Next, EditInv
<1>7. ASSUME NEW m \in Files \cup {EmptyModel}, Load(m)
      PROVE  EditInv(S, F)' /\ [History!Next]_(History!vars)
  <2>1. store' = m /\ Clear /\ minted' = minted /\ edits' = edits
    BY <1>7 DEF Load
  <2>2. Sane(S, Known, m)
    <3>1. CASE m \in Files
      BY <1>1, <3>1 DEF Brings, Sane
    <3> QED
      BY <3>1, EmptyIsSane
  <2>3. Known' = Known
    BY <2>1 DEF Known
  <2>4. store' \in Reachable(S, F, Known')
    BY <2>1, <2>2, <2>3 DEF Reachable, Sane
  <2>5. HistoryInv(S, F)' /\ History!Replace
    BY <2>1, <2>4, ClearStep
  <2> QED
    BY <2>1, <2>5 DEF History!Next, EditInv
<1>8. CASE UNCHANGED editVars
  <2>1. HistoryInv(S, F)' /\ UNCHANGED History!vars
    BY <1>2, <1>8, StandStep
  <2> QED
    BY <1>8, <2>1 DEF EditInv, editVars
<1> QED
  BY <1>3, <1>4, <1>5, <1>6, <1>7, <1>8 DEF EditNext

\* Where no file has an id twice, the workspace's undo and redo walk a line of models:
\* every undo restores what was there before the step, whatever was merged, forgotten,
\* undone and redone in between (command-stack.ts:69-115, model-store.ts:120-520).
THEOREM EditsImplementHistory ==
    ASSUME \A f \in Files : OneObjectPerId(f)
    PROVE  EditSpec => HistoryImplemented
<1> DEFINE S == Shapes \cup FileShapes
           F == ModelsOf(S)
<1>1. EmptyModel \in F
  BY EmptyIsSane DEF Sane
<1>2. EditInit => EditInv(S, F) /\ History!Init
  BY <1>1, EditInitially
<1>3. EditInv(S, F) /\ [EditNext]_editVars => EditInv(S, F)' /\ [History!Next]_(History!vars)
  BY EditStep
<1> QED
  BY <1>2, <1>3, PTL DEF EditSpec, HistoryImplemented, History!Spec

LEMMA EditInvTypes == ASSUME NEW S, NEW F, EditInv(S, F) PROVE EditTypeOK
<1>1. Sane(S, Known, store) /\ HistoryInv(S, F)
  BY InvSane DEF EditInv
<1>2. store.area \in {NoArea, "area"} /\ store.crs \in {"lonlat", "metric"}
  BY <1>1 DEF Sane, ModelsOf, CRSs
<1>3. ASSUME NEW list \in Lists, NEW i \in DOMAIN store[list]
      PROVE  store[list][i].crs \in {"lonlat", "metric"} /\ store[list][i].props \in Props
  <2>1. store[list][i] \in Things(S)
    BY <1>1, <1>3, ModelLists DEF Sane
  <2> QED
    BY <2>1 DEF Things, CRSs
<1>4. Len(undoStack) <= MaxSize
  <2>1. /\ Along(Reachable(S, F, Known), store, undoStack, "undo", "redo", Past)
        /\ Along(Reachable(S, F, Known), store, redoStack, "redo", "undo", Future)
        /\ Len(undoStack) + Len(redoStack) <= MaxSize
    BY <1>1 DEF HistoryInv, HistoryAt
  <2>2. Len(undoStack) \in Nat /\ Len(redoStack) \in Nat
    BY <2>1, AlongHere
  <2> QED
    BY <2>1, <2>2, StackAssumption
<1> QED
  BY <1>2, <1>3, <1>4 DEF EditTypeOK, EditInv

\* The store, the stacks and the ids given keep their types.
THEOREM EditTypeCorrect ==
    ASSUME \A f \in Files : OneObjectPerId(f)
    PROVE  EditSpec => []EditTypeOK
<1> DEFINE S == Shapes \cup FileShapes
           F == ModelsOf(S)
<1>1. EmptyModel \in F
  BY EmptyIsSane DEF Sane
<1>2. EditInit => EditInv(S, F)
  BY <1>1, EditInitially
<1>3. EditInv(S, F) /\ [EditNext]_editVars => EditInv(S, F)'
  BY EditStep
<1>4. EditInv(S, F) => EditTypeOK
  BY EditInvTypes
<1> HIDE DEF F, S
<1> QED
  BY <1>2, <1>3, <1>4, PTL DEF EditSpec

-----------------------------------------------------------------------------
(* Reshaping on the map: what it does to the workspace.                     *)

\* Objects whose coordinates are in a CRS, or as a file brought them.
FitsIn(list, crs) == \A i \in DOMAIN list : list[i].crs = crs \/ AsFiled(list[i])
Placed(m) == FitsIn(m.features, m.crs) /\ FitsIn(m.receivers, m.crs)

\* A file's own objects, which fit wherever they are added.
Filed(f) == \A list \in Lists : \A i \in DOMAIN f[list] : AsFiled(f[list][i])

LEMMA FilesAreFiled == ASSUME NEW f \in Files PROVE Filed(f)
  BY DEF Filed, AsFiled

LEMMA FiledFitsIn ==
    ASSUME NEW f, Filed(f), NEW crs
    PROVE  FitsIn(f.features, crs) /\ FitsIn(f.receivers, crs)
  BY DEF Filed, FitsIn, Lists

LEMMA FiledPlaced == ASSUME NEW f, Filed(f) PROVE Placed(f)
  BY FiledFitsIn DEF Placed

LEMMA ListsPlaced ==
    ASSUME NEW m
    PROVE  Placed(m) <=> \A list \in Lists : FitsIn(m[list], m.crs)
<1>1. (\A list \in Lists : FitsIn(m[list], m.crs)) <=>
         FitsIn(m["features"], m.crs) /\ FitsIn(m["receivers"], m.crs)
  BY DEF Lists
<1> QED
  BY <1>1 DEF Placed

LEMMA WithPlaced ==
    ASSUME NEW S, NEW m \in ModelsOf(S), Placed(m), NEW list \in Lists,
           NEW l \in Seq(Things(S)), FitsIn(l, m.crs)
    PROVE  Placed(With(m, list, l))
<1> DEFINE w == With(m, list, l)
<1>1. w[list] = l /\ w.crs = m.crs /\ \A k \in Lists : k # list => w[k] = m[k]
  BY ListReplaced
<1>2. \A k \in Lists : FitsIn(m[k], m.crs)
  BY ListsPlaced
<1> HIDE DEF w
<1>3. \A k \in Lists : FitsIn(w[k], w.crs)
  BY <1>1, <1>2
<1>4. Placed(w)
  BY <1>3, ListsPlaced
<1> QED
  BY <1>4 DEF w

LEMMA PutPlaced ==
    ASSUME NEW S, NEW m \in ModelsOf(S), Placed(m), NEW list \in Lists,
           NEW x \in Things(S), x.crs = m.crs \/ AsFiled(x)
    PROVE  Placed(Apply(PutPatch(list, x), m))
<1> DEFINE l == m[list]
           put == Put(l, x)
<1>1. l \in Seq(Things(S)) /\ DOMAIN l = 1..Len(l) /\ FitsIn(l, m.crs)
  BY ModelLists, ListsPlaced
<1> HIDE DEF l
<1>2. /\ put \in Seq(Things(S)) /\ Len(put) = Len(l)
      /\ \A i \in 1..Len(l) : put[i] = IF l[i].id = x.id THEN x ELSE l[i]
  <2>1. put \in Seq(Things(S)) /\ Len(put) = Len(l)
    BY <1>1, PutIs
  <2>2. \A i \in 1..Len(l) : put[i] = IF l[i].id = x.id THEN x ELSE l[i]
    BY <1>1 DEF Put
  <2> QED
    BY <2>1, <2>2
<1> HIDE DEF put
<1>3. DOMAIN put = 1..Len(l)
  BY <1>2
<1>4. FitsIn(put, m.crs)
  BY <1>1, <1>2, <1>3 DEF FitsIn
<1>5. Placed(With(m, list, put))
  BY <1>2, <1>4, WithPlaced
<1> QED
  BY <1>5, AppliedPut DEF put, l

LEMMA KeptFitsIn ==
    ASSUME NEW S, NEW list \in Seq(Things(S)), NEW at, OneEach(list, at), NEW crs, FitsIn(list, crs)
    PROVE  FitsIn(Kept(list, at), crs)
<1>1. DOMAIN list = 1..Len(list) /\ Len(list) \in Nat
  OBVIOUS
<1> DEFINE kept == Kept(list, at)
<1>2. KeptFrom(kept, list, at, Len(list))
  BY <1>1, KeptOnce
<1> HIDE DEF kept
<1>3. kept \in Seq({list[i] : i \in 1..Len(list)})
  BY <1>2 DEF KeptFrom
<1>4. DOMAIN kept = 1..Len(kept)
  BY <1>3
<1>5. \A a \in 1..Len(kept) : kept[a].crs = crs \/ AsFiled(kept[a])
  BY <1>1, <1>2 DEF KeptFrom, FitsIn
<1> QED
  BY <1>4, <1>5 DEF FitsIn, kept

LEMMA DropPlaced ==
    ASSUME NEW S, NEW known, NEW m, Sane(S, known, m), Placed(m), NEW list \in Lists, NEW id
    PROVE  Placed(Apply(DropPatch(list, id), m))
<1> DEFINE l == m[list]
           at == {i \in DOMAIN l : l[i].id \notin {id}}
<1>1. m \in ModelsOf(S) /\ l \in Seq(Things(S)) /\ EachOnce(l) /\ FitsIn(l, m.crs)
  BY SaneLists, ListsPlaced DEF Sane
<1> HIDE DEF l
<1>2. OneEach(l, at)
  BY <1>1 DEF OneEach, EachOnce
<1>3. Without(l, {id}) = Kept(l, at)
  BY DEF Without
<1> HIDE DEF at
<1>4. Kept(l, at) \in Seq(Things(S)) /\ FitsIn(Kept(l, at), m.crs)
  BY <1>1, <1>2, KeptThings, KeptFitsIn
<1>5. Placed(With(m, list, Without(l, {id})))
  BY <1>1, <1>3, <1>4, WithPlaced
<1> QED
  BY <1>5, AppliedDrop DEF l

LEMMA UntakenFitsIn ==
    ASSUME NEW S, NEW list \in Seq(Things(S)), NEW taken, NEW crs, FitsIn(list, crs)
    PROVE  FitsIn(Untaken(list, taken), crs)
<1>1. Untaken(list, taken) = Kept(list, Firsts(list, taken))
  BY DEF Untaken, Firsts
<1>2. OneEach(list, Firsts(list, taken))
  BY FirstsOnce
<1> QED
  BY <1>1, <1>2, KeptFitsIn

LEMMA ConcatFitsIn ==
    ASSUME NEW S, NEW s \in Seq(Things(S)), NEW t \in Seq(Things(S)), NEW crs,
           FitsIn(s, crs), FitsIn(t, crs)
    PROVE  FitsIn(s \o t, crs)
<1>1. /\ DOMAIN s = 1..Len(s) /\ DOMAIN t = 1..Len(t) /\ Len(s) \in Nat /\ Len(t) \in Nat
      /\ DOMAIN (s \o t) = 1..(Len(s) + Len(t))
      /\ \A i \in 1..(Len(s) + Len(t)) :
            (s \o t)[i] = IF i <= Len(s) THEN s[i] ELSE t[i - Len(s)]
  OBVIOUS
<1>2. \A i \in 1..(Len(s) + Len(t)) : /\ i <= Len(s) => i \in 1..Len(s)
                                      /\ ~(i <= Len(s)) => i - Len(s) \in 1..Len(t)
  BY <1>1
<1> QED
  BY <1>1, <1>2 DEF FitsIn

\* A file lands in the workspace's CRS, or in an empty one; its objects come as they are.
LEMMA LandPlaced ==
    ASSUME NEW S, NEW known, NEW m, Sane(S, known, m), Placed(m),
           NEW brought, Brings(S, known, brought), Filed(brought),
           NEW plan, plan = PlanMerge(m, brought),
           NEW w, w = Apply(LandPatch({}, plan), m)
    PROVE  Placed(w)
<1> DEFINE held == IdsIn(m.features) \cup IdsIn(m.receivers)
           features == Untaken(brought.features, held)
           receivers == Untaken(brought.receivers, held \cup IdsIn(features))
<1>1. /\ brought.features \in Seq(Things(S)) /\ brought.receivers \in Seq(Things(S))
      /\ FitsIn(brought.features, plan.crs) /\ FitsIn(brought.receivers, plan.crs)
  BY FiledFitsIn DEF Brings, ModelsOf
<1>2. /\ plan.features = features /\ plan.receivers = receivers
      /\ plan.crs = (IF EmptyOf(m) THEN brought.crs ELSE m.crs)
  BY DEF PlanMerge
<1> HIDE DEF held
<1>3. features \in Seq(Things(S)) /\ FitsIn(features, plan.crs)
  BY <1>1, UntakenIs, UntakenFitsIn
<1> HIDE DEF features
<1>4. receivers \in Seq(Things(S)) /\ FitsIn(receivers, plan.crs)
  BY <1>1, UntakenIs, UntakenFitsIn
<1> HIDE DEF receivers
<1>5. /\ m.features \in Seq(Things(S)) /\ m.receivers \in Seq(Things(S)) /\ EachOnce(m.features)
      /\ FitsIn(m.features, plan.crs) /\ FitsIn(m.receivers, plan.crs)
  <2>1. /\ m.features \in Seq(Things(S)) /\ m.receivers \in Seq(Things(S)) /\ EachOnce(m.features)
        /\ FitsIn(m.features, m.crs) /\ FitsIn(m.receivers, m.crs)
    BY DEF Sane, OneObjectPerId, ModelsOf, Placed
  <2>2. CASE EmptyOf(m)
    <3>1. m.features = << >> /\ m.receivers = << >> /\ DOMAIN << >> = {}
      BY <2>2 DEF EmptyOf
    <3> QED
      BY <2>1, <3>1 DEF FitsIn
  <2>3. CASE ~EmptyOf(m)
    BY <1>2, <2>1, <2>3
  <2> QED
    BY <2>2, <2>3
<1>6. Outside(m.features, {}) = m.features
  BY <1>5, OutsideIs
<1>7. w = [features |-> m.features \o features, receivers |-> m.receivers \o receivers,
           area |-> plan.area, crs |-> plan.crs]
  <2>1. Apply(LandPatch({}, plan), m) =
           [features |-> Outside(m.features, {}) \o plan.features,
            receivers |-> m.receivers \o plan.receivers,
            area |-> plan.area, crs |-> plan.crs]
    BY AppliedLand
  <2> QED
    BY <1>2, <1>6, <2>1
<1>8. FitsIn(m.features \o features, plan.crs) /\ FitsIn(m.receivers \o receivers, plan.crs)
  BY <1>3, <1>4, <1>5, ConcatFitsIn
<1> DEFINE p == m.features \o features
           q == m.receivers \o receivers
<1>9. w.features = p /\ w.receivers = q /\ w.crs = plan.crs
  <2>1. w = [features |-> p, receivers |-> q, area |-> plan.area, crs |-> plan.crs]
    BY <1>7
  <2> HIDE DEF p, q
  <2> QED
    BY <2>1
<1> HIDE DEF p, q
<1> QED
  BY <1>8, <1>9 DEF Placed, p, q

Uniform(S) == {w \in ModelsOf(S) : Placed(w)}

\* Reshaping adds no objects, and a step is only kept open over a model in lon/lat.
WorkspaceSound(S) ==
    /\ EditInv(S, Uniform(S)) /\ minted = {}
    /\ openKey # NoKey => store.crs = "lonlat"
Goes(S) == WorkspaceSound(S)' /\ [History!Next]_(History!vars)

LEMMA SoundStore ==
    ASSUME NEW S, WorkspaceSound(S)
    PROVE  Sane(S, Ids, store) /\ Placed(store) /\ HistoryInv(S, Uniform(S))
<1>1. HistoryInv(S, Uniform(S)) /\ Known = Ids
  BY DEF WorkspaceSound, EditInv, Known
<1>2. Sane(S, Known, store) /\ store \in Uniform(S)
  BY <1>1, InvSane
<1> QED
  BY <1>1, <1>2 DEF Uniform

LEMMA StandsGoes == ASSUME NEW S, WorkspaceSound(S), UNCHANGED editVars PROVE Goes(S)
<1>1. HistoryInv(S, Uniform(S))' /\ UNCHANGED History!vars
  BY StandStep DEF WorkspaceSound, EditInv
<1> QED
  BY <1>1 DEF Goes, WorkspaceSound, EditInv, editVars, historyVars

LEMMA SealedGoes == ASSUME NEW S, WorkspaceSound(S), Sealed PROVE Goes(S)
<1>1. /\ Seal /\ UNCHANGED <<store, undoStack, redoStack, minted>>
      /\ openKey' = NoKey /\ edits' = edits
  BY DEF Sealed, Seal
<1>2. HistoryInv(S, Uniform(S))' /\ History!Close
  BY <1>1, SealStep DEF WorkspaceSound, EditInv
<1> QED
  BY <1>1, <1>2 DEF Goes, WorkspaceSound, EditInv, History!Next

LEMMA UndoGoes == ASSUME NEW S, WorkspaceSound(S), Undo PROVE Goes(S)
<1>1. HistoryInv(S, Uniform(S))' /\ History!Undo
  BY UndoStep DEF WorkspaceSound, EditInv
<1>2. openKey' = NoKey /\ minted' = minted /\ edits' = edits
  BY DEF Undo, Seal
<1> QED
  BY <1>1, <1>2 DEF Goes, WorkspaceSound, EditInv, History!Next

LEMMA RedoGoes == ASSUME NEW S, WorkspaceSound(S), Redo PROVE Goes(S)
<1>1. HistoryInv(S, Uniform(S))' /\ History!Redo
  BY RedoStep DEF WorkspaceSound, EditInv
<1>2. openKey' = NoKey /\ minted' = minted /\ edits' = edits
  BY DEF Redo, Seal
<1> QED
  BY <1>1, <1>2 DEF Goes, WorkspaceSound, EditInv, History!Next

\* A command that leaves no step open in a metric model.
LEMMA CommandGoes ==
    ASSUME NEW S, WorkspaceSound(S), NEW c, Executed(c), MakesOne(S, c, Known), ClosesOrKeeps(c),
           Placed(store'), minted' = minted, openKey' # NoKey => store'.crs = "lonlat"
    PROVE  Goes(S)
<1>1. Known' = Known
  BY DEF Known
<1>2. store' \in Uniform(S)
  BY DEF Executed, MakesOne, Sane, Uniform
<1>3. HistoryInv(S, Uniform(S))' /\ (History!NewStep \/ History!GoOn)
  BY <1>1, <1>2, ExecutedKeeps DEF WorkspaceSound, EditInv
<1>4. edits' \in 0..MaxEdits
  BY StackAssumption DEF WorkspaceSound, EditInv, Executed
<1> QED
  BY <1>3, <1>4 DEF Goes, WorkspaceSound, EditInv, History!Next

LEMMA PutLeavesCRS ==
    ASSUME NEW S, NEW m \in ModelsOf(S), NEW list \in Lists, NEW x \in Things(S)
    PROVE  Apply(PutPatch(list, x), m).crs = m.crs
<1>1. m[list] \in Seq(Things(S))
  BY ModelLists
<1>2. Put(m[list], x) \in Seq(Things(S))
  BY <1>1, PutIs
<1> QED
  BY <1>2, ListReplaced, AppliedPut

LEMMA UpdateGoes ==
    ASSUME NEW S, WorkspaceSound(S), NEW list \in Lists, NEW id, NEW props \in Props,
           Update(list, id, props)
    PROVE  Goes(S)
<1> DEFINE h == Held(list, id)
           x == [h EXCEPT !.props = props]
           c == PutCommand(list, x, NoKey)
<1>1. Found(list, id) /\ Executed(c) /\ openKey' = c.key /\ minted' = minted
  BY DEF Update, Execute
<1>2. Sane(S, Known, store) /\ Placed(store) /\ store \in ModelsOf(S)
  BY SoundStore DEF WorkspaceSound, Known, Sane
<1>3. h \in Things(S) /\ h.id = id /\ (h.crs = store.crs \/ AsFiled(h))
  <2>1. h \in Things(S) /\ h.id = id
    BY <1>1, <1>2, HeldIs
  <2>2. store[list] \in Seq(Things(S)) /\ EachOnce(store[list]) /\ id \in IdsIn(store[list])
    BY <1>1, <1>2, SaneLists DEF Found
  <2>3. FirstOf(store[list], id) \in 1..Len(store[list])
    BY <2>2, FirstOfIs
  <2>4. FitsIn(store[list], store.crs) /\ DOMAIN store[list] = 1..Len(store[list])
    BY <1>2, <2>2, ListsPlaced
  <2> QED
    BY <2>1, <2>3, <2>4 DEF FitsIn, Held
<1> HIDE DEF h
<1>4. x \in Things(S) /\ x.id = id /\ (x.crs = store.crs \/ AsFiled(x))
  <2>1. x \in Things(S) /\ x.id = h.id /\ x.shape = h.shape /\ x.crs = h.crs
    BY <1>3 DEF Things
  <2> HIDE DEF x
  <2> QED
    BY <1>3, <2>1 DEF AsFiled
<1> HIDE DEF x
<1>5. MakesOne(S, c, Known)
  BY <1>1, <1>2, <1>4, PutMakes
<1>6. c.redo = PutPatch(list, x) /\ c.key = NoKey
  BY DEF PutCommand, Command, PutPatch
<1> HIDE DEF c
<1>7. store' = Apply(PutPatch(list, x), store)
  BY <1>1, <1>6 DEF Executed
<1>8. Placed(store')
  BY <1>2, <1>4, <1>7, PutPlaced
<1> QED
  BY <1>1, <1>5, <1>6, <1>8, CommandGoes DEF ClosesOrKeeps

LEMMA RemoveGoes ==
    ASSUME NEW S, WorkspaceSound(S), NEW list \in Lists, NEW id, Remove(list, id)
    PROVE  Goes(S)
<1> DEFINE at == FirstOf(store[list], id)
           c == Command(DropPatch(list, id), SplicePatch(list, at, store[list][at]), NoKey)
<1>1. Found(list, id) /\ Executed(c) /\ openKey' = c.key /\ minted' = minted
  BY DEF Remove, Execute, DropPatch, SplicePatch
<1>2. Sane(S, Known, store) /\ Placed(store)
  BY SoundStore DEF WorkspaceSound, Known
<1> HIDE DEF at
<1>3. MakesOne(S, c, Known)
  BY <1>1, <1>2, RemoveMakes DEF at
<1>4. c.redo = DropPatch(list, id) /\ c.key = NoKey
  BY DEF Command
<1> HIDE DEF c
<1>5. store' = Apply(DropPatch(list, id), store)
  BY <1>1, <1>4 DEF Executed
<1>6. Placed(store')
  BY <1>2, <1>5, DropPlaced
<1> QED
  BY <1>1, <1>3, <1>4, <1>6, CommandGoes DEF ClosesOrKeeps

\* A shape in the store's own CRS, written over what an object had.
LEMMA ReshapedIs ==
    ASSUME NEW S, WorkspaceSound(S), NEW list \in Lists, NEW id, Found(list, id),
           NEW shape \in S, Executed(ReshapeCommand(list, id, shape, store.crs))
    PROVE  /\ MakesOne(S, ReshapeCommand(list, id, shape, store.crs), Known)
           /\ Placed(store') /\ store'.crs = store.crs
           /\ \E x \in Things(S) : x.id = id /\ x.shape = shape
                                   /\ store' = Apply(PutPatch(list, x), store)
<1> DEFINE h == Held(list, id)
           x == [h EXCEPT !.shape = shape, !.crs = store.crs]
           c == ReshapeCommand(list, id, shape, store.crs)
<1>1. Sane(S, Known, store) /\ Placed(store) /\ store \in ModelsOf(S) /\ store.crs \in CRSs
  BY SoundStore DEF WorkspaceSound, Known, Sane, ModelsOf
<1>2. MakesOne(S, c, Known)
  BY <1>1, ReshapeMakes
<1>3. h \in Things(S) /\ h.id = id
  BY <1>1, HeldIs
<1>4. c.redo = PutPatch(list, x)
  BY DEF ReshapeCommand, PutCommand, Command, PutPatch
<1> HIDE DEF h, c
<1>5. x \in Things(S) /\ x.id = id /\ x.shape = shape /\ x.crs = store.crs
  <2>1. /\ h \in [id : Ids \cup MintedIds, shape : S, crs : CRSs, props : Props]
        /\ shape \in S /\ store.crs \in CRSs
    BY <1>1, <1>3 DEF Things
  <2> DEFINE y == [[h EXCEPT !.shape = shape] EXCEPT !.crs = store.crs]
  <2>2. y \in Things(S) /\ y.id = h.id /\ y.shape = shape /\ y.crs = store.crs
    BY <2>1 DEF Things
  <2>3. x = y
    OBVIOUS
  <2> HIDE DEF x, y
  <2> QED
    BY <1>3, <2>2, <2>3
<1> HIDE DEF x
<1>6. store' = Apply(PutPatch(list, x), store)
  BY <1>4 DEF Executed, c
<1>7. Placed(store') /\ store'.crs = store.crs
  BY <1>1, <1>5, <1>6, PutPlaced, PutLeavesCRS
<1> QED
  BY <1>2, <1>5, <1>6, <1>7 DEF c

LEMMA ReshapeGoes ==
    ASSUME NEW S, WorkspaceSound(S), NEW list \in Lists, NEW id, NEW shape \in S,
           Reshape(list, id, shape, store.crs), store.crs = "lonlat"
    PROVE  Goes(S)
<1> DEFINE c == ReshapeCommand(list, id, shape, store.crs)
<1>1. Found(list, id) /\ Executed(c) /\ openKey' = c.key /\ minted' = minted
  BY DEF Reshape, Execute
<1>2. MakesOne(S, c, Known) /\ Placed(store') /\ store'.crs = store.crs
  BY <1>1, ReshapedIs
<1> HIDE DEF c
<1> QED
  BY <1>1, <1>2, CommandGoes DEF ClosesOrKeeps

Requests(S) == [id : Ids \cup {NoId}, list : Lists, shape : S, crs : {"metric"}]

LEMMA LandsGoes ==
    ASSUME NEW S, WorkspaceSound(S), NEW q \in Requests(S), store.crs = q.crs, Lands(q)
    PROVE  Goes(S) /\ store'.crs = store.crs
<1>1. q.list \in Lists /\ q.shape \in S /\ q.crs = "metric"
  BY DEF Requests
<1>2. CASE Found(q.list, q.id)
  <2> DEFINE c == ReshapeCommand(q.list, q.id, q.shape, store.crs)
  <2>1. Executed(c) /\ openKey' = NoKey /\ minted' = minted
    BY <1>2 DEF Lands, Seal
  <2>2. MakesOne(S, c, Known) /\ Placed(store') /\ store'.crs = store.crs
    BY <1>1, <1>2, <2>1, ReshapedIs
  <2>3. openKey = NoKey
    BY <1>1 DEF WorkspaceSound
  <2> HIDE DEF c
  <2> QED
    BY <2>1, <2>2, <2>3, CommandGoes DEF ClosesOrKeeps
<1>3. CASE ~Found(q.list, q.id)
  <2>1. Sealed
    BY <1>3 DEF Lands
  <2>2. store' = store
    BY <2>1 DEF Sealed
  <2> QED
    BY <2>1, <2>2, SealedGoes
<1> QED
  BY <1>2, <1>3

LEMMA MergeGoes ==
    ASSUME NEW S, WorkspaceSound(S), NEW f, Brings(S, Ids, f), Filed(f), Merge(f)
    PROVE  Goes(S)
<1> DEFINE plan == PlanMerge(store, f)
           ids == IdsIn(plan.features) \cup IdsIn(plan.receivers)
           c == Command(LandPatch({}, plan), UnlandPatch(store.area, store.crs, ids), NoKey)
           w == Apply(LandPatch({}, plan), store)
<1>1. Sane(S, Ids, store) /\ Placed(store) /\ Known = Ids
  BY SoundStore DEF WorkspaceSound, Known
<1>2. Executed(c) /\ openKey' = c.key /\ minted' = minted
  BY DEF Merge, Execute, LandPatch, UnlandPatch
<1>3. c.redo = LandPatch({}, plan) /\ c.key = NoKey
      /\ c.undo = UnlandPatch(store.area, store.crs, ids)
  BY DEF Command
<1>4. plan = PlanMerge(store, f) /\ w = Apply(LandPatch({}, plan), store)
  OBVIOUS
<1> HIDE DEF c, plan, w
<1>5. Rest(store, {}) = store
  BY <1>1, RestIs
<1>6. Sane(S, Ids, w) /\ Apply(UnlandPatch(store.area, store.crs, ids), w) = store
  BY <1>1, <1>4, <1>5, LandIs
<1>7. Placed(w)
  BY <1>1, <1>4, LandPlaced
<1>8. store' = w
  BY <1>2, <1>3, <1>4 DEF Executed
<1>9. MakesOne(S, c, Known)
  BY <1>1, <1>3, <1>4, <1>6 DEF MakesOne, Carries, GoesOnWith
<1> QED
  BY <1>2, <1>3, <1>7, <1>8, <1>9, CommandGoes DEF ClosesOrKeeps

LEMMA LoadGoes ==
    ASSUME NEW S, WorkspaceSound(S), NEW f, Brings(S, Ids, f), Filed(f), OneObjectPerId(f), Load(f)
    PROVE  Goes(S)
<1>1. store' = f /\ Clear /\ openKey' = NoKey /\ minted' = minted /\ edits' = edits
  BY DEF Load, Clear, Seal
<1>2. Known' = Ids
  BY <1>1 DEF Known, WorkspaceSound
<1>3. store' \in Reachable(S, Uniform(S), Known')
  BY <1>1, <1>2, FiledPlaced DEF Reachable, Uniform, Brings, Sane
<1>4. HistoryInv(S, Uniform(S))' /\ History!Replace
  BY <1>1, <1>3, ClearStep
<1> QED
  BY <1>1, <1>4 DEF Goes, WorkspaceSound, EditInv, History!Next

-----------------------------------------------------------------------------
(* Reshaping on the map: the page.                                          *)

OneOf(T) == {<< >>} \cup {<<x>> : x \in T}
Sessions(S) == [id : Ids \cup {NoId}, list : Lists, copy : S, held : BOOLEAN, stored : OneOf(S)]

\* An armed editor: it is of the selected object, holds a shape back only during a drag over
\* a metric model, and its copy is what the store has, or had when it last had the object.
Right(S, m, x, onMap, status, id, drag) ==
    /\ x \in Sessions(S) /\ x.id = id /\ onMap /\ status = "ready"
    /\ x.held => m.crs = "metric" /\ drag
    /\ m.crs = "lonlat" => /\ x.stored \in {<< >>, <<x.copy>>}
                           /\ StoredShape(m, x.list, x.id) \in {<< >>, x.stored}
SessionRight(S) ==
    Has(session) => \E x : session = <<x>> /\ Right(S, store, x, mapped, display, selected, Dragging)

GesturesOK ==
    /\ moves \in [1..(MaxGestures + 1) -> 0..2] /\ gesture \in 1..(MaxGestures + 1)
    /\ moves[MaxGestures + 1] = 0

PageInv(S) ==
    /\ SessionRight(S) /\ GesturesOK
    /\ selected \in Ids \cup {NoId} /\ display \in {"ready", "projecting"}
    /\ request \in OneOf(Requests(S)) /\ orphans \subseteq Requests(S)

GeometryInv(S) == WorkspaceSound(S) /\ PageInv(S)

LEMMA SoundStoreNext ==
    ASSUME NEW S, WorkspaceSound(S)'
    PROVE  Sane(S, Ids, store') /\ Placed(store') /\ store'.crs \in CRSs
<1> DEFINE W == Reachable(S, Uniform(S), Known')
<1>1. Known' = Ids
  BY DEF WorkspaceSound, Known
<1>2. Along(W, store', undoStack', "undo", "redo", Past')
  BY DEF WorkspaceSound, EditInv, HistoryInv, HistoryAt
<1>3. store' \in W
  BY <1>2, AlongHere
<1> QED
  BY <1>1, <1>3 DEF Reachable, Uniform, Sane, ModelsOf

\* What is stored of an object.
LEMMA StoredShapeIs ==
    ASSUME NEW S, NEW known, NEW m, Sane(S, known, m), NEW list \in Lists, NEW id
    PROVE  /\ id \notin IdsIn(m[list]) => StoredShape(m, list, id) = << >>
           /\ id \in IdsIn(m[list]) =>
                 /\ StoredShape(m, list, id) = <<m[list][FirstOf(m[list], id)].shape>>
                 /\ m[list][FirstOf(m[list], id)].shape \in S
           /\ StoredShape(m, list, id) \in OneOf(S)
<1> DEFINE x == m[list][FirstOf(m[list], id)]
           shape == x.shape
<1>1. ASSUME id \notin IdsIn(m[list]) PROVE StoredShape(m, list, id) = << >>
  BY <1>1 DEF StoredShape, Objects
<1>2. ASSUME id \in IdsIn(m[list]) PROVE StoredShape(m, list, id) = <<shape>> /\ shape \in S
  <2>1. m[list] \in Seq(Things(S)) /\ EachOnce(m[list])
    BY SaneLists
  <2>2. x \in Things(S)
    BY <1>2, <2>1, FirstOfIs
  <2>3. shape \in S
    BY <2>2 DEF Things
  <2>4. StoredShape(m, list, id) = [i \in DOMAIN <<x>> |-> <<x>>[i].shape]
    BY <1>2 DEF StoredShape, Objects
  <2> HIDE DEF x
  <2>5. [i \in DOMAIN <<x>> |-> <<x>>[i].shape] = <<shape>>
    OBVIOUS
  <2> QED
    BY <2>3, <2>4, <2>5
<1> HIDE DEF shape
<1> QED
  BY <1>1, <1>2 DEF OneOf, shape

\* What is stored of an object once it is written over.
LEMMA PutStored ==
    ASSUME NEW S, NEW m \in ModelsOf(S), NEW list \in Lists, NEW x \in Things(S),
           x.id \in IdsIn(m[list]), NEW w, w = Apply(PutPatch(list, x), m),
           NEW known, Sane(S, known, w)
    PROVE  StoredShape(w, list, x.id) = <<x.shape>>
<1> DEFINE l == m[list]
           put == Put(l, x)
<1>1. l \in Seq(Things(S)) /\ DOMAIN l = 1..Len(l)
  BY ModelLists
<1> HIDE DEF l
<1>2. put \in Seq(Things(S)) /\ Len(put) = Len(l) /\ DOMAIN put = 1..Len(l)
  <2>1. put \in Seq(Things(S)) /\ Len(put) = Len(l)
    BY <1>1, PutIs
  <2> QED
    BY <2>1
<1>3. \A i \in 1..Len(l) : put[i] = IF l[i].id = x.id THEN x ELSE l[i]
  BY <1>1 DEF Put
<1> HIDE DEF put
<1>4. w[list] = put
  BY <1>2, ListReplaced, AppliedPut DEF put, l
<1>5. x.id \in IdsIn(put)
  BY <1>1, <1>2, <1>3 DEF IdsIn, l
<1>6. EachOnce(put)
  BY <1>4, SaneLists
<1>7. FirstOf(put, x.id) \in 1..Len(put) /\ put[FirstOf(put, x.id)].id = x.id
  BY <1>2, <1>5, <1>6, FirstOfIs
<1>8. put[FirstOf(put, x.id)] = x
  BY <1>2, <1>3, <1>7
<1>9. StoredShape(w, list, x.id) = <<w[list][FirstOf(w[list], x.id)].shape>>
  BY <1>4, <1>5, StoredShapeIs
<1> QED
  BY <1>4, <1>8, <1>9

\* The editor is armed with what is stored.
LEMMA ArmedIs ==
    ASSUME NEW S, NEW m, Sane(S, Ids, m), NEW id \in Ids \cup {NoId}, NEW drag, Armed(m, id) # << >>
    PROVE  \E x : Armed(m, id) = <<x>> /\ Right(S, m, x, TRUE, "ready", id, drag)
<1> DEFINE list == ListOf(m, id)
           shape == StoredShape(m, list, id)
           x == [id |-> id, list |-> list, copy |-> shape[1], held |-> FALSE, stored |-> shape]
<1>1. Armed(m, id) = <<x>> /\ Holds(m, id)
  BY DEF Armed
<1>2. list \in Lists /\ id \in IdsIn(m[list])
  BY <1>1 DEF Holds, ListOf, Lists
<1>3. shape = <<m[list][FirstOf(m[list], id)].shape>> /\ m[list][FirstOf(m[list], id)].shape \in S
  BY <1>2, StoredShapeIs
<1>4. shape \in OneOf(S) /\ shape[1] \in S /\ shape = <<shape[1]>>
  BY <1>3 DEF OneOf
<1> HIDE DEF list, shape
<1>5. x \in Sessions(S)
  BY <1>2, <1>4 DEF Sessions
<1>6. x.id = id /\ x.held = FALSE /\ x.stored = shape /\ x.copy = shape[1] /\ x.list = list
  OBVIOUS
<1> HIDE DEF x
<1>7. Right(S, m, x, TRUE, "ready", id, drag)
  BY <1>4, <1>5, <1>6 DEF Right, shape
<1> QED
  BY <1>1, <1>7

LEMMA DragEndsOK ==
    ASSUME GesturesOK, DragEnds PROVE GesturesOK'
<1>1. gesture' \in 1..(MaxGestures + 1)
  <2>1. MaxGestures \in Nat
    BY GestureAssumption
  <2>2. Dragging => gesture # MaxGestures + 1
    BY DEF Dragging, GesturesOK
  <2> QED
    BY <2>1, <2>2 DEF DragEnds, GesturesOK
<1> QED
  BY <1>1 DEF DragEnds, GesturesOK

LEMMA HeldQuestion ==
    ASSUME NEW S, NEW x \in Sessions(S)
    PROVE  <<Question(x, "metric")>> \in OneOf(Requests(S))
<1>1. Question(x, "metric") \in Requests(S)
  BY DEF Question, Requests, Sessions
<1> QED
  BY <1>1 DEF OneOf

LEMMA SessionIs ==
    ASSUME NEW S, GeometryInv(S), Has(session)
    PROVE  /\ session = <<session[1]>>
           /\ Right(S, store, session[1], mapped, display, selected, Dragging)
<1>1. PICK x : session = <<x>> /\ Right(S, store, x, mapped, display, selected, Dragging)
  BY DEF GeometryInv, PageInv, SessionRight
<1>2. session[1] = x
  BY <1>1
<1> QED
  BY <1>1, <1>2

LEMMA ReactsKeeps ==
    ASSUME NEW S, GeometryInv(S), WorkspaceSound(S)', Reacts, mapped, mapped', selected' = selected
    PROVE  /\ SessionRight(S)' /\ GesturesOK' /\ display' \in {"ready", "projecting"}
           /\ request' \in OneOf(Requests(S))
<1> DEFINE s == session[1]
           now == StoredShape(store', s.list, s.id)
           moved == Has(now) /\ now # s.stored
           kept == s.held /\ ~moved
<1>1. /\ Sane(S, Ids, store') /\ store'.crs \in CRSs /\ store.crs \in CRSs
      /\ selected \in Ids \cup {NoId}
  <2>1. Sane(S, Ids, store)
    BY SoundStore DEF GeometryInv
  <2> QED
    BY <2>1, SoundStoreNext DEF GeometryInv, PageInv, Sane, ModelsOf
<1>2. display' = (IF store'.crs = "metric" THEN "projecting" ELSE "ready")
  BY DEF Reacts
<1>3. GesturesOK'
  <2>1. DragEnds \/ UNCHANGED gestureVars
    BY DEF Reacts
  <2>2. GesturesOK
    BY DEF GeometryInv, PageInv
  <2> QED
    BY <2>1, <2>2, DragEndsOK DEF gestureVars, GesturesOK
<1>4. /\ request \in OneOf(Requests(S)) /\ << >> \in OneOf(Requests(S))
  BY DEF GeometryInv, PageInv, OneOf
<1>5. ASSUME Has(session)
      PROVE  session = <<s>> /\ Right(S, store, s, mapped, display, selected, Dragging)
  BY <1>5, SessionIs
<1>6. ASSUME session' = Armed(store', selected), store'.crs # "metric"
      PROVE  SessionRight(S)'
  <2>1. ASSUME session' # << >>
        PROVE  \E x : session' = <<x>> /\ Right(S, store', x, mapped', display', selected', Dragging')
    <3>1. PICK x : /\ Armed(store', selected) = <<x>>
                   /\ Right(S, store', x, TRUE, "ready", selected, Dragging')
      BY <1>1, <1>6, <2>1, ArmedIs
    <3>2. Right(S, store', x, mapped', display', selected', Dragging')
      BY <1>2, <1>6, <3>1 DEF Right
    <3> QED
      BY <1>6, <3>1, <3>2
  <2> QED
    BY <2>1 DEF SessionRight, Has
<1>7. ASSUME session' = << >>
      PROVE  SessionRight(S)'
  BY <1>7 DEF SessionRight, Has
<1>8. CASE store'.crs # store.crs
  <2>1. /\ request' = << >>
        /\ session' = (IF store'.crs = "metric" THEN << >> ELSE Armed(store', selected))
    BY <1>8 DEF Reacts
  <2> QED
    BY <1>2, <1>3, <1>4, <1>6, <1>7, <2>1
<1>9. CASE store'.crs = store.crs /\ store'.crs = "metric"
  <2>1. /\ request' = (IF Has(session) /\ kept THEN <<Question(s, store.crs)>> ELSE request)
        /\ session' = << >>
    BY <1>9 DEF Reacts
  <2>2. ASSUME Has(session) PROVE <<Question(s, store.crs)>> \in OneOf(Requests(S))
    BY <1>5, <1>9, <2>2, HeldQuestion DEF Right
  <2> HIDE DEF kept, s
  <2>3. request' \in OneOf(Requests(S))
    BY <1>4, <2>1, <2>2
  <2> QED
    BY <1>2, <1>3, <1>7, <2>1, <2>3
<1>10. CASE store'.crs = store.crs /\ store'.crs = "lonlat"
  <2>1. /\ session' = (IF Has(session) /\ moved THEN Armed(store', selected) ELSE session)
        /\ request' = request
    BY <1>10 DEF Reacts
  <2>2. SessionRight(S)'
    <3>1. CASE Has(session) /\ moved
      BY <1>6, <1>10, <2>1, <3>1
    <3>2. CASE ~Has(session)
      BY <1>7, <2>1, <3>2 DEF Has
    <3>3. CASE Has(session) /\ ~moved
      <4>1. session' = session
        BY <2>1, <3>3
      <4>2. session = <<s>> /\ Right(S, store, s, mapped, display, selected, Dragging)
        BY <1>5, <3>3
      <4>3. now \in {<< >>, s.stored}
        BY <3>3 DEF Has
      <4> HIDE DEF s
      <4>4. Right(S, store', s, mapped', display', selected', Dragging')
        BY <1>2, <1>10, <4>2, <4>3 DEF Right
      <4> QED
        BY <4>1, <4>2, <4>4 DEF SessionRight
    <3> QED
      BY <3>1, <3>2, <3>3
  <2> QED
    BY <1>2, <1>3, <1>4, <2>1, <2>2
<1> QED
  BY <1>1, <1>8, <1>9, <1>10 DEF CRSs

-----------------------------------------------------------------------------
(* Reshaping on the map: its steps.                                         *)

GeometryGoes(S) == GeometryInv(S)' /\ [History!Next]_(History!vars)

\* Shapes to draw on, and files to start from.
Drawable(S) == \A s \in S : \A g, k \in Nat : s \cup {Token(g, k)} \in S
FilesRight(S) == \A f \in Files : Brings(S, Ids, f) /\ Filed(f) /\ OneObjectPerId(f)

LEMMA GeometryParts ==
    ASSUME NEW S, GeometryInv(S)
    PROVE  /\ WorkspaceSound(S) /\ Sane(S, Ids, store) /\ store.crs \in CRSs
           /\ SessionRight(S) /\ GesturesOK
           /\ selected \in Ids \cup {NoId} /\ display \in {"ready", "projecting"}
           /\ request \in OneOf(Requests(S)) /\ orphans \subseteq Requests(S)
           /\ << >> \in OneOf(Requests(S))
<1>1. Sane(S, Ids, store)
  BY SoundStore DEF GeometryInv
<1> QED
  BY <1>1 DEF GeometryInv, PageInv, Sane, ModelsOf, OneOf

LEMMA NoSession == ASSUME NEW S, session' = << >> PROVE SessionRight(S)'
  BY DEF SessionRight, Has

LEMMA SessionStays ==
    ASSUME NEW S, SessionRight(S), UNCHANGED <<session, store, mapped, display, selected, moves, gesture>>
    PROVE  SessionRight(S)'
  BY DEF SessionRight, Dragging, Has

LEMMA ArmedSession ==
    ASSUME NEW S, Sane(S, Ids, store), store' = store, session' = Armed(store, selected'),
           selected' \in Ids \cup {NoId}, mapped', display' = "ready"
    PROVE  SessionRight(S)'
<1>1. ASSUME session' # << >>
      PROVE  \E x : session' = <<x>> /\ Right(S, store', x, mapped', display', selected', Dragging')
  <2>1. \E x : /\ Armed(store, selected') = <<x>>
               /\ Right(S, store, x, TRUE, "ready", selected', Dragging')
    BY <1>1, ArmedIs
  <2> QED
    BY <2>1 DEF Right
<1> QED
  BY <1>1 DEF SessionRight, Has

LEMMA GesturesStay == ASSUME GesturesOK, UNCHANGED gestureVars PROVE GesturesOK'
  BY DEF GesturesOK, gestureVars

LEMMA EndsKeeps ==
    ASSUME NEW S, GeometryInv(S), Ends
    PROVE  Goes(S) /\ store' = store /\ request' \in OneOf(Requests(S))
<1>1. WorkspaceSound(S) /\ request \in OneOf(Requests(S))
  BY GeometryParts
<1>2. CASE Has(session) /\ session[1].held
  <2>1. Right(S, store, session[1], mapped, display, selected, Dragging)
    BY <1>2, SessionIs
  <2>2. store.crs = "metric" /\ session[1] \in Sessions(S)
    BY <1>2, <2>1 DEF Right
  <2>3. request' = <<Question(session[1], store.crs)>> /\ UNCHANGED editVars
    BY <1>2 DEF Ends
  <2>4. request' \in OneOf(Requests(S))
    BY <2>2, <2>3, HeldQuestion
  <2> QED
    BY <1>1, <2>3, <2>4, StandsGoes DEF editVars
<1>3. CASE ~(Has(session) /\ session[1].held) /\ Has(session)
  <2>1. request' = request /\ Sealed
    BY <1>3 DEF Ends
  <2> QED
    BY <1>1, <2>1, SealedGoes DEF Sealed
<1>4. CASE ~(Has(session) /\ session[1].held) /\ ~Has(session)
  <2>1. request' = request /\ UNCHANGED editVars
    BY <1>4 DEF Ends
  <2> QED
    BY <1>1, <2>1, StandsGoes DEF editVars
<1> QED
  BY <1>2, <1>3, <1>4

LEMMA SelectStep ==
    ASSUME NEW S, GeometryInv(S), NEW id \in IdsIn(store.features) \cup IdsIn(store.receivers),
           Select(id)
    PROVE  GeometryGoes(S)
<1>1. /\ mapped /\ mapped' = mapped /\ display' = display /\ selected' = id
      /\ session' = (IF display = "ready" THEN Armed(store, id) ELSE << >>)
      /\ orphans' = orphans /\ UNCHANGED gestureVars /\ Ends
  BY DEF Select
<1>2. Goes(S) /\ store' = store /\ request' \in OneOf(Requests(S))
  BY <1>1, EndsKeeps
<1>3. Sane(S, Ids, store) /\ GesturesOK /\ orphans \subseteq Requests(S)
      /\ display \in {"ready", "projecting"}
  BY GeometryParts
<1>4. id \in Ids \cup {NoId}
  BY <1>3 DEF Sane
<1>5. SessionRight(S)'
  <2>1. CASE display = "ready"
    BY <1>1, <1>2, <1>3, <1>4, <2>1, ArmedSession
  <2>2. CASE display # "ready"
    BY <1>1, <2>2, NoSession
  <2> QED
    BY <2>1, <2>2
<1>6. GesturesOK'
  BY <1>1, <1>3, GesturesStay
<1> QED
  BY <1>1, <1>2, <1>3, <1>4, <1>5, <1>6 DEF GeometryGoes, Goes, GeometryInv, PageInv

LEMMA DeselectStep == ASSUME NEW S, GeometryInv(S), Deselect PROVE GeometryGoes(S)
<1>1. /\ mapped' = mapped /\ display' = display /\ selected' = selected /\ session' = << >>
      /\ orphans' = orphans /\ UNCHANGED gestureVars /\ Ends
  BY DEF Deselect
<1>2. Goes(S) /\ request' \in OneOf(Requests(S))
  BY <1>1, EndsKeeps
<1>3. SessionRight(S)' /\ GesturesOK'
  BY <1>1, NoSession, GesturesStay, GeometryParts
<1>4. /\ orphans \subseteq Requests(S) /\ display \in {"ready", "projecting"}
      /\ selected \in Ids \cup {NoId}
  BY GeometryParts
<1> QED
  BY <1>1, <1>2, <1>3, <1>4 DEF GeometryGoes, Goes, GeometryInv, PageInv

LEMMA DisplayedStep == ASSUME NEW S, GeometryInv(S), Displayed PROVE GeometryGoes(S)
<1>1. /\ mapped /\ mapped' = mapped /\ display' = "ready" /\ selected' = selected
      /\ session' = Armed(store, selected) /\ orphans' = orphans /\ request' = request
      /\ UNCHANGED gestureVars /\ UNCHANGED editVars
  BY DEF Displayed
<1>2. /\ WorkspaceSound(S) /\ Sane(S, Ids, store) /\ GesturesOK
      /\ selected \in Ids \cup {NoId} /\ request \in OneOf(Requests(S))
      /\ orphans \subseteq Requests(S)
  BY GeometryParts
<1>3. Goes(S) /\ store' = store
  BY <1>1, <1>2, StandsGoes DEF editVars
<1>4. SessionRight(S)'
  BY <1>1, <1>2, <1>3, ArmedSession
<1>5. GesturesOK'
  BY <1>1, <1>2, GesturesStay
<1> QED
  BY <1>1, <1>2, <1>3, <1>4, <1>5 DEF GeometryGoes, Goes, GeometryInv, PageInv

LEMMA FinishStep == ASSUME NEW S, GeometryInv(S), Finish PROVE GeometryGoes(S)
<1> DEFINE s == session[1]
           t == [s EXCEPT !.held = FALSE]
<1>1. /\ mapped' = mapped /\ display' = display /\ selected' = selected /\ session' = <<t>>
      /\ orphans' = orphans /\ gesture' = gesture + 1 /\ moves' = moves
      /\ Has(session) /\ Dragging /\ Ends
  BY DEF Finish
<1>2. Goes(S) /\ store' = store /\ request' \in OneOf(Requests(S))
  BY <1>1, EndsKeeps
<1>3. /\ orphans \subseteq Requests(S) /\ display \in {"ready", "projecting"}
      /\ selected \in Ids \cup {NoId} /\ GesturesOK
  BY GeometryParts
<1>4. Right(S, store, s, mapped, display, selected, Dragging)
  BY <1>1, SessionIs
<1> HIDE DEF s
<1>5. /\ t \in Sessions(S) /\ t.held = FALSE /\ t.id = s.id /\ t.list = s.list
      /\ t.copy = s.copy /\ t.stored = s.stored
  <2>1. s \in Sessions(S)
    BY <1>4 DEF Right
  <2> QED
    BY <2>1 DEF Sessions
<1> HIDE DEF t
<1>6. Right(S, store', t, mapped', display', selected', Dragging')
  BY <1>1, <1>2, <1>4, <1>5 DEF Right
<1>7. SessionRight(S)'
  BY <1>1, <1>6 DEF SessionRight
<1>8. GesturesOK'
  <2>1. DragEnds
    BY <1>1 DEF DragEnds
  <2> QED
    BY <1>3, <2>1, DragEndsOK
<1> QED
  BY <1>1, <1>2, <1>3, <1>7, <1>8 DEF GeometryGoes, Goes, GeometryInv, PageInv

LEMMA FailStep == ASSUME NEW S, GeometryInv(S), Fail PROVE GeometryGoes(S)
<1>1. /\ mapped' = mapped /\ display' = display /\ selected' = selected /\ session' = session
      /\ orphans' = orphans /\ UNCHANGED gestureVars /\ UNCHANGED editVars /\ request' = << >>
  BY DEF Fail
<1>2. /\ orphans \subseteq Requests(S) /\ display \in {"ready", "projecting"}
      /\ selected \in Ids \cup {NoId} /\ GesturesOK /\ WorkspaceSound(S) /\ SessionRight(S)
      /\ << >> \in OneOf(Requests(S))
  BY GeometryParts
<1>3. Goes(S) /\ store' = store
  BY <1>1, <1>2, StandsGoes DEF editVars
<1>4. SessionRight(S)' /\ GesturesOK'
  BY <1>1, <1>2, <1>3, SessionStays, GesturesStay DEF gestureVars
<1> QED
  BY <1>1, <1>2, <1>3, <1>4 DEF GeometryGoes, Goes, GeometryInv, PageInv

LEMMA ReturnStep == ASSUME NEW S, GeometryInv(S), Return PROVE GeometryGoes(S)
<1>1. /\ ~mapped /\ display' = (IF Metric THEN "projecting" ELSE "ready")
      /\ selected' = selected /\ session' = session /\ request' = request
      /\ orphans' = orphans /\ UNCHANGED gestureVars /\ UNCHANGED editVars
  BY DEF Return
<1>2. /\ orphans \subseteq Requests(S) /\ request \in OneOf(Requests(S))
      /\ selected \in Ids \cup {NoId} /\ GesturesOK /\ WorkspaceSound(S) /\ SessionRight(S)
  BY GeometryParts
<1>3. Goes(S)
  BY <1>1, <1>2, StandsGoes
<1>4. session' = << >>
  BY <1>1, <1>2 DEF SessionRight, Right, Has
<1>5. SessionRight(S)' /\ GesturesOK'
  BY <1>1, <1>2, <1>4, NoSession, GesturesStay
<1> QED
  BY <1>1, <1>2, <1>3, <1>5 DEF GeometryGoes, Goes, GeometryInv, PageInv

LEMMA LeaveStep == ASSUME NEW S, GeometryInv(S), Leave PROVE GeometryGoes(S)
<1>1. /\ selected' = NoId /\ session' = << >> /\ request' = << >> /\ display' = display
      /\ orphans' = orphans \cup {request[i] : i \in DOMAIN request} /\ UNCHANGED gestureVars
      /\ Sealed \/ UNCHANGED editVars
  BY DEF Leave
<1>2. /\ orphans \subseteq Requests(S) /\ request \in OneOf(Requests(S))
      /\ display \in {"ready", "projecting"} /\ GesturesOK /\ WorkspaceSound(S)
      /\ << >> \in OneOf(Requests(S))
  BY GeometryParts
<1>3. Goes(S)
  BY <1>1, <1>2, SealedGoes, StandsGoes
<1>4. orphans' \subseteq Requests(S)
  <2>1. \A i \in DOMAIN request : request[i] \in Requests(S)
    BY <1>2 DEF OneOf
  <2> QED
    BY <1>1, <1>2, <2>1
<1>5. SessionRight(S)' /\ GesturesOK'
  BY <1>1, <1>2, NoSession, GesturesStay
<1> QED
  BY <1>1, <1>2, <1>3, <1>4, <1>5 DEF GeometryGoes, Goes, GeometryInv, PageInv

LEMMA ImportStep ==
    ASSUME NEW S, GeometryInv(S), FilesRight(S), NEW f \in Files, Import(f)
    PROVE  GeometryGoes(S)
<1>1. /\ ~mapped /\ UNCHANGED pageVars
      /\ Load(f) \/ Merge(f)
  BY DEF Import
<1>2. /\ orphans \subseteq Requests(S) /\ request \in OneOf(Requests(S))
      /\ display \in {"ready", "projecting"} /\ selected \in Ids \cup {NoId}
      /\ GesturesOK /\ WorkspaceSound(S) /\ SessionRight(S)
  BY GeometryParts
<1>3. Brings(S, Ids, f) /\ Filed(f) /\ OneObjectPerId(f)
  BY DEF FilesRight
<1>4. Goes(S)
  <2>1. CASE Load(f)
    BY <1>2, <1>3, <2>1, LoadGoes
  <2>2. CASE Merge(f)
    BY <1>2, <1>3, <2>2, MergeGoes
  <2> QED
    BY <1>1, <2>1, <2>2
<1>5. /\ session' = << >> /\ UNCHANGED gestureVars /\ orphans' = orphans /\ request' = request
      /\ display' = display /\ selected' = selected
  BY <1>1, <1>2 DEF SessionRight, Right, Has, pageVars, gestureVars
<1>6. SessionRight(S)' /\ GesturesOK'
  BY <1>2, <1>5, NoSession, GesturesStay
<1> QED
  BY <1>2, <1>4, <1>5, <1>6 DEF GeometryGoes, Goes, GeometryInv, PageInv

LEMMA StepHistoryStep == ASSUME NEW S, GeometryInv(S), StepHistory PROVE GeometryGoes(S)
<1>1. /\ mapped /\ mapped' = mapped /\ selected' = selected /\ orphans' = orphans
      /\ Undo \/ Redo
      /\ Reacts
  BY DEF StepHistory
<1>2. orphans \subseteq Requests(S) /\ selected \in Ids \cup {NoId} /\ WorkspaceSound(S)
  BY GeometryParts
<1>3. Goes(S)
  BY <1>1, <1>2, UndoGoes, RedoGoes
<1>4. WorkspaceSound(S)'
  BY <1>3 DEF Goes
<1>5. /\ SessionRight(S)' /\ GesturesOK' /\ display' \in {"ready", "projecting"}
      /\ request' \in OneOf(Requests(S))
  BY <1>1, <1>4, ReactsKeeps
<1> QED
  BY <1>1, <1>2, <1>3, <1>5 DEF GeometryGoes, Goes, GeometryInv, PageInv

LEMMA EditSelectedStep == ASSUME NEW S, GeometryInv(S), EditSelected PROVE GeometryGoes(S)
<1> DEFINE list == ListOf(store, selected)
<1>1. /\ mapped /\ mapped' = mapped /\ orphans' = orphans
      /\ \/ \E p \in Props : Update(list, selected, p) /\ Reacts /\ selected' = selected
         \/ /\ Remove(list, selected) /\ selected' = NoId /\ session' = << >>
            /\ display' = (IF Metric THEN "projecting" ELSE "ready")
            /\ request' = request /\ UNCHANGED gestureVars
  BY DEF EditSelected
<1>2. /\ orphans \subseteq Requests(S) /\ selected \in Ids \cup {NoId} /\ WorkspaceSound(S)
      /\ request \in OneOf(Requests(S)) /\ GesturesOK
  BY GeometryParts
<1>3. list \in Lists
  BY DEF ListOf, Lists
<1> HIDE DEF list
<1>4. ASSUME NEW p \in Props, Update(list, selected, p), Reacts, selected' = selected
      PROVE  GeometryGoes(S)
  <2>1. Goes(S)
    BY <1>2, <1>3, <1>4, UpdateGoes
  <2>2. WorkspaceSound(S)'
    BY <2>1 DEF Goes
  <2>3. /\ SessionRight(S)' /\ GesturesOK' /\ display' \in {"ready", "projecting"}
        /\ request' \in OneOf(Requests(S))
    BY <1>1, <1>4, <2>2, ReactsKeeps
  <2> QED
    BY <1>1, <1>2, <1>4, <2>1, <2>3 DEF GeometryGoes, Goes, GeometryInv, PageInv
<1>5. ASSUME Remove(list, selected), selected' = NoId, session' = << >>,
             display' = (IF Metric THEN "projecting" ELSE "ready"),
             request' = request, UNCHANGED gestureVars
      PROVE  GeometryGoes(S)
  <2>1. Goes(S)
    BY <1>2, <1>3, <1>5, RemoveGoes
  <2>2. SessionRight(S)' /\ GesturesOK'
    BY <1>2, <1>5, NoSession, GesturesStay
  <2> QED
    BY <1>1, <1>2, <1>5, <2>1, <2>2 DEF GeometryGoes, Goes, GeometryInv, PageInv
<1> QED
  BY <1>1, <1>4, <1>5

LEMMA LateGoes ==
    ASSUME NEW S, GeometryInv(S), NEW q \in Requests(S),
           IF store.crs = q.crs THEN Lands(q) ELSE UNCHANGED editVars
    PROVE  Goes(S)
<1>1. WorkspaceSound(S)
  BY GeometryParts
<1> QED
  BY <1>1, LandsGoes, StandsGoes

LEMMA DeliverStep ==
    ASSUME NEW S, GeometryInv(S), NEW q, Deliver(q)
    PROVE  GeometryGoes(S)
<1>1. /\ request = <<q>>
      /\ IF store.crs = q.crs THEN Lands(q) ELSE UNCHANGED editVars
      /\ mapped' = mapped /\ selected' = selected /\ orphans' = orphans
  BY DEF Deliver
<1>2. /\ orphans \subseteq Requests(S) /\ selected \in Ids \cup {NoId}
      /\ request \in OneOf(Requests(S)) /\ GesturesOK /\ << >> \in OneOf(Requests(S))
      /\ SessionRight(S) /\ display \in {"ready", "projecting"}
  BY GeometryParts
<1>3. q \in Requests(S)
  BY <1>1, <1>2 DEF OneOf
<1>4. Goes(S)
  BY <1>1, <1>3, LateGoes
<1>5. CASE store' = store
  <2>1. request' = << >> /\ UNCHANGED <<session, display, gestureVars>>
    BY <1>5 DEF Deliver
  <2>2. SessionRight(S)' /\ GesturesOK'
    BY <1>1, <1>2, <1>5, <2>1, SessionStays, GesturesStay DEF gestureVars
  <2> QED
    BY <1>1, <1>2, <1>4, <2>1, <2>2 DEF GeometryGoes, Goes, GeometryInv, PageInv
<1>6. CASE store' # store
  <2>1. /\ request' = (IF Has(session) /\ session[1].held
                       THEN <<Question(session[1], store.crs)>> ELSE << >>)
        /\ session' = << >> /\ display' = "projecting" /\ DragEnds
    BY <1>6 DEF Deliver
  <2>2. request' \in OneOf(Requests(S))
    <3>1. CASE Has(session) /\ session[1].held
      <4>1. Right(S, store, session[1], mapped, display, selected, Dragging)
        BY <3>1, SessionIs
      <4>2. store.crs = "metric" /\ session[1] \in Sessions(S)
        BY <3>1, <4>1 DEF Right
      <4> QED
        BY <2>1, <3>1, <4>2, HeldQuestion
    <3>2. CASE ~(Has(session) /\ session[1].held)
      BY <1>2, <2>1, <3>2
    <3> QED
      BY <3>1, <3>2
  <2>3. SessionRight(S)' /\ GesturesOK'
    BY <1>2, <2>1, NoSession, DragEndsOK
  <2> QED
    BY <1>1, <1>2, <1>4, <2>1, <2>2, <2>3 DEF GeometryGoes, Goes, GeometryInv, PageInv
<1> QED
  BY <1>5, <1>6

LEMMA DeliverLateStep ==
    ASSUME NEW S, GeometryInv(S), NEW q \in orphans, DeliverLate(q)
    PROVE  GeometryGoes(S)
<1>1. /\ orphans' = orphans \ {q} /\ mapped' = mapped /\ selected' = selected
      /\ IF store.crs = q.crs THEN Lands(q) ELSE UNCHANGED editVars
      /\ IF mapped /\ store' # store THEN Reacts
         ELSE UNCHANGED <<session, display, request, gestureVars>>
  BY DEF DeliverLate
<1>2. /\ orphans \subseteq Requests(S) /\ selected \in Ids \cup {NoId}
      /\ request \in OneOf(Requests(S)) /\ GesturesOK
      /\ SessionRight(S) /\ display \in {"ready", "projecting"}
  BY GeometryParts
<1>3. Goes(S) /\ orphans' \subseteq Requests(S) /\ selected' \in Ids \cup {NoId}
  BY <1>1, <1>2, LateGoes
<1>4. CASE mapped /\ store' # store
  <2>1. /\ SessionRight(S)' /\ GesturesOK' /\ display' \in {"ready", "projecting"}
        /\ request' \in OneOf(Requests(S))
    BY <1>1, <1>3, <1>4, ReactsKeeps DEF Goes
  <2> QED
    BY <1>3, <2>1 DEF GeometryGoes, Goes, GeometryInv, PageInv
<1>5. CASE ~(mapped /\ store' # store)
  <2>1. session' = session /\ display' = display /\ request' = request /\ UNCHANGED gestureVars
    BY <1>1, <1>5
  <2>2. GesturesOK'
    BY <1>2, <2>1, GesturesStay
  <2>3. SessionRight(S)'
    <3>1. CASE mapped
      BY <1>1, <1>2, <1>5, <2>1, <3>1, SessionStays DEF gestureVars
    <3>2. CASE ~mapped
      BY <1>2, <2>1, <3>2, NoSession DEF SessionRight, Right, Has
    <3> QED
      BY <3>1, <3>2
  <2> QED
    BY <1>2, <1>3, <2>1, <2>2, <2>3 DEF GeometryGoes, Goes, GeometryInv, PageInv
<1> QED
  BY <1>4, <1>5

\* A move over a metric model is held back.
LEMMA HoldStep ==
    ASSUME NEW S, Drawable(S), GeometryInv(S), Change, Metric
    PROVE  GeometryGoes(S)
<1> DEFINE s == session[1]
           copy == s.copy \cup {Token(gesture, moves'[gesture])}
           held == [s EXCEPT !.copy = copy]
           t == [held EXCEPT !.held = TRUE]
<1>1. /\ Has(session) /\ gesture \in Gestures /\ moves[gesture] < 2
      /\ moves' = [moves EXCEPT ![gesture] = @ + 1] /\ gesture' = gesture
      /\ session' = <<t>> /\ UNCHANGED editVars
      /\ UNCHANGED <<mapped, selected, display, request, orphans>>
  BY DEF Change
<1>2. /\ WorkspaceSound(S) /\ GesturesOK /\ orphans \subseteq Requests(S)
      /\ request \in OneOf(Requests(S)) /\ display \in {"ready", "projecting"}
      /\ selected \in Ids \cup {NoId}
  BY GeometryParts
<1>3. Goes(S) /\ store' = store
  BY <1>1, <1>2, StandsGoes DEF editVars
<1>4. gesture \in 1..MaxGestures /\ MaxGestures \in Nat
  BY <1>1, GestureAssumption DEF Gestures
<1>5. /\ GesturesOK' /\ moves'[gesture] \in Nat /\ Dragging'
  <2>1. gesture \in 1..(MaxGestures + 1) /\ gesture # MaxGestures + 1
    BY <1>4
  <2>2. moves[gesture] + 1 \in 0..2 /\ moves[gesture] + 1 > 0
    BY <1>1, <1>2, <2>1 DEF GesturesOK
  <2>3. moves' \in [1..(MaxGestures + 1) -> 0..2] /\ moves'[gesture] = moves[gesture] + 1
        /\ moves'[MaxGestures + 1] = 0
    BY <1>1, <1>2, <2>1, <2>2 DEF GesturesOK
  <2> QED
    BY <1>1, <2>1, <2>2, <2>3 DEF GesturesOK, Dragging
<1>6. Right(S, store, s, mapped, display, selected, Dragging)
  BY <1>1, SessionIs
<1>7. copy \in S
  <2>1. s.copy \in S
    BY <1>6 DEF Right, Sessions
  <2>2. gesture \in Nat
    BY <1>4
  <2> QED
    BY <1>5, <2>1, <2>2 DEF Drawable
<1> HIDE DEF s, copy
<1>8. t \in Sessions(S) /\ t.id = s.id
  <2>1. s \in Sessions(S)
    BY <1>6 DEF Right
  <2>2. held \in Sessions(S) /\ held.id = s.id
    BY <1>7, <2>1 DEF Sessions
  <2> HIDE DEF held
  <2> QED
    BY <2>2 DEF Sessions
<1> HIDE DEF t
<1>9. Right(S, store', t, mapped', display', selected', Dragging')
  BY <1>1, <1>3, <1>5, <1>6, <1>8 DEF Right, Metric
<1>10. SessionRight(S)'
  BY <1>1, <1>9 DEF SessionRight
<1> QED
  BY <1>1, <1>2, <1>3, <1>5, <1>10 DEF GeometryGoes, Goes, GeometryInv, PageInv

\* A move over a model in lon/lat is written at once.
LEMMA WriteStep ==
    ASSUME NEW S, Drawable(S), GeometryInv(S), Change, ~Metric
    PROVE  GeometryGoes(S)
<1> DEFINE s == session[1]
           copy == s.copy \cup {Token(gesture, moves'[gesture])}
           stored == StoredShape(store', s.list, s.id)
           drawn == [s EXCEPT !.copy = copy]
           t == [drawn EXCEPT !.stored = stored]
<1>1. /\ Has(session) /\ gesture \in Gestures /\ moves[gesture] < 2
      /\ moves' = [moves EXCEPT ![gesture] = @ + 1] /\ gesture' = gesture
      /\ session' = <<t>>
      /\ IF Found(s.list, s.id) THEN Reshape(s.list, s.id, copy, store.crs) ELSE UNCHANGED editVars
      /\ UNCHANGED <<mapped, selected, display, request, orphans>>
  BY DEF Change
<1>2. /\ WorkspaceSound(S) /\ GesturesOK /\ orphans \subseteq Requests(S)
      /\ request \in OneOf(Requests(S)) /\ display \in {"ready", "projecting"}
      /\ selected \in Ids \cup {NoId} /\ Sane(S, Ids, store) /\ store.crs \in CRSs
  BY GeometryParts
<1>3. gesture \in 1..MaxGestures /\ MaxGestures \in Nat
  BY <1>1, GestureAssumption DEF Gestures
<1>4. GesturesOK' /\ moves'[gesture] \in Nat
  <2>1. gesture \in 1..(MaxGestures + 1) /\ gesture # MaxGestures + 1
    BY <1>3
  <2>2. moves[gesture] + 1 \in 0..2
    BY <1>1, <1>2, <2>1 DEF GesturesOK
  <2>3. moves' \in [1..(MaxGestures + 1) -> 0..2] /\ moves'[gesture] = moves[gesture] + 1
        /\ moves'[MaxGestures + 1] = 0
    BY <1>1, <1>2, <2>1, <2>2 DEF GesturesOK
  <2> QED
    BY <1>1, <2>1, <2>2, <2>3 DEF GesturesOK
<1>5. Right(S, store, s, mapped, display, selected, Dragging) /\ store.crs = "lonlat"
  BY <1>1, <1>2, SessionIs DEF Metric, CRSs
<1>6. s \in Sessions(S) /\ s.list \in Lists /\ s.held = FALSE
  BY <1>5 DEF Right, Sessions
<1>7. copy \in S
  <2>1. s.copy \in S
    BY <1>6 DEF Sessions
  <2>2. gesture \in Nat
    BY <1>3
  <2> QED
    BY <1>4, <2>1, <2>2 DEF Drawable
<1> HIDE DEF s, copy
<1>8. Goes(S) /\ store'.crs = "lonlat" /\ stored \in {<< >>, <<copy>>}
  <2>1. CASE Found(s.list, s.id)
    <3>1. Reshape(s.list, s.id, copy, store.crs)
      BY <1>1, <2>1
    <3>2. Executed(ReshapeCommand(s.list, s.id, copy, store.crs))
      BY <3>1 DEF Reshape, Execute
    <3>3. PICK x \in Things(S) : /\ x.id = s.id /\ x.shape = copy
                                 /\ store' = Apply(PutPatch(s.list, x), store)
      BY <1>2, <1>6, <1>7, <2>1, <3>2, ReshapedIs
    <3>4. Goes(S)
      BY <1>2, <1>5, <1>6, <1>7, <3>1, ReshapeGoes
    <3>5. Sane(S, Ids, store') /\ store \in ModelsOf(S) /\ s.id \in IdsIn(store[s.list])
      BY <1>2, <2>1, <3>4, SoundStoreNext DEF Goes, Sane, Found
    <3>6. stored = <<copy>>
      BY <1>6, <3>3, <3>5, PutStored
    <3>7. store'.crs = store.crs
      BY <1>6, <3>3, <3>5, PutLeavesCRS
    <3> QED
      BY <1>5, <3>4, <3>6, <3>7
  <2>2. CASE ~Found(s.list, s.id)
    <3>1. Goes(S) /\ store' = store
      BY <1>1, <1>2, <2>2, StandsGoes DEF editVars
    <3>2. s.id \notin IdsIn(store[s.list])
      BY <1>2, <1>6, <2>2 DEF Found, Sane, OneObjectPerId, Lists
    <3>3. stored = << >>
      BY <1>2, <1>6, <3>1, <3>2, StoredShapeIs
    <3> QED
      BY <1>5, <3>1, <3>3
  <2> QED
    BY <2>1, <2>2
<1>9. /\ t \in Sessions(S) /\ t.id = s.id /\ t.list = s.list /\ t.held = FALSE
      /\ t.copy = copy /\ t.stored = stored
  <2> HIDE DEF stored
  <2>1. stored \in OneOf(S)
    BY <1>7, <1>8 DEF OneOf
  <2>2. drawn \in Sessions(S) /\ drawn.id = s.id /\ drawn.list = s.list /\ drawn.held = FALSE
        /\ drawn.copy = copy
    BY <1>6, <1>7 DEF Sessions
  <2> HIDE DEF drawn
  <2> QED
    BY <2>1, <2>2 DEF Sessions
<1> HIDE DEF t
<1>10. Right(S, store', t, mapped', display', selected', Dragging')
  BY <1>1, <1>5, <1>8, <1>9 DEF Right
<1>11. SessionRight(S)'
  BY <1>1, <1>10 DEF SessionRight
<1> QED
  BY <1>1, <1>2, <1>4, <1>8, <1>11 DEF GeometryGoes, Goes, GeometryInv, PageInv

LEMMA GeometryStep ==
    ASSUME NEW S, Drawable(S), FilesRight(S), GeometryInv(S), [GeometryNext]_geometryVars
    PROVE  GeometryGoes(S)
<1>1. CASE Change
  BY <1>1, HoldStep, WriteStep
<1>2. CASE Finish
  BY <1>2, FinishStep
<1>3. CASE Deselect
  BY <1>3, DeselectStep
<1>4. CASE Displayed
  BY <1>4, DisplayedStep
<1>5. CASE Fail
  BY <1>5, FailStep
<1>6. CASE StepHistory
  BY <1>6, StepHistoryStep
<1>7. CASE EditSelected
  BY <1>7, EditSelectedStep
<1>8. CASE Leave
  BY <1>8, LeaveStep
<1>9. CASE Return
  BY <1>9, ReturnStep
<1>10. ASSUME NEW id \in IdsIn(store.features) \cup IdsIn(store.receivers), Select(id)
       PROVE  GeometryGoes(S)
  BY <1>10, SelectStep
<1>11. ASSUME NEW q \in orphans, DeliverLate(q) PROVE GeometryGoes(S)
  BY <1>11, DeliverLateStep
<1>12. ASSUME NEW i \in DOMAIN request, Deliver(request[i]) PROVE GeometryGoes(S)
  BY <1>12, DeliverStep
<1>13. ASSUME NEW f \in Files, Import(f) PROVE GeometryGoes(S)
  BY <1>13, ImportStep
<1>14. CASE UNCHANGED geometryVars
  <2>1. /\ UNCHANGED editVars /\ UNCHANGED <<session, mapped, display, selected, moves, gesture>>
        /\ request' = request /\ orphans' = orphans /\ UNCHANGED gestureVars
    BY <1>14 DEF geometryVars, pageVars, gestureVars
  <2>2. /\ WorkspaceSound(S) /\ GesturesOK /\ orphans \subseteq Requests(S) /\ SessionRight(S)
        /\ request \in OneOf(Requests(S)) /\ display \in {"ready", "projecting"}
        /\ selected \in Ids \cup {NoId}
    BY GeometryParts
  <2>3. Goes(S) /\ store' = store
    BY <2>1, <2>2, StandsGoes DEF editVars
  <2>4. SessionRight(S)' /\ GesturesOK'
    BY <2>1, <2>2, <2>3, SessionStays, GesturesStay
  <2> QED
    BY <2>1, <2>2, <2>3, <2>4 DEF GeometryGoes, Goes, GeometryInv, PageInv
<1> QED
  BY <1>1, <1>2, <1>3, <1>4, <1>5, <1>6, <1>7, <1>8, <1>9, <1>10, <1>11, <1>12, <1>13, <1>14
  DEF GeometryNext

LEMMA GeometryInitially ==
    ASSUME NEW S, GeometryInit
    PROVE  GeometryInv(S) /\ History!Init
<1> DEFINE none == << >>
<1>1. EmptyModel \in Uniform(S)
  <2>1. EmptyModel \in ModelsOf(S)
    BY EmptyIsSane DEF Sane
  <2>2. EmptyModel.features = none /\ EmptyModel.receivers = none /\ DOMAIN none = {}
    BY DEF EmptyModel
  <2> HIDE DEF none
  <2>3. Placed(EmptyModel)
    BY <2>2 DEF Placed, FitsIn
  <2> QED
    BY <2>1, <2>3 DEF Uniform
<1>2. EditInv(S, Uniform(S)) /\ History!Init
  BY <1>1, EditInitially DEF GeometryInit
<1>3. WorkspaceSound(S)
  BY <1>2 DEF GeometryInit, EditInit, WorkspaceSound
<1>4. GesturesOK
  BY GestureAssumption DEF GeometryInit, GesturesOK
<1>5. SessionRight(S)
  BY DEF GeometryInit, SessionRight, Has
<1>6. PageInv(S)
  BY <1>4, <1>5 DEF GeometryInit, PageInv, OneOf
<1> QED
  BY <1>2, <1>3, <1>6 DEF GeometryInv

-----------------------------------------------------------------------------
(* Reshaping on the map: its theorems.                                      *)

\* What the map can draw: the shapes of the files, and every move of every drag.
Drawings == SUBSET ((UNION FileShapes) \cup {Token(g, k) : g \in Nat, k \in Nat})

LEMMA DrawingsDo == FilesAreSound => Drawable(Drawings) /\ FilesRight(Drawings)
<1>1. Drawable(Drawings)
  <2> DEFINE tokens == {Token(g, k) : g \in Nat, k \in Nat}
             T == (UNION FileShapes) \cup tokens
  <2>1. \A g, k \in Nat : Token(g, k) \in T
    <3>1. ASSUME NEW g \in Nat, NEW k \in Nat PROVE Token(g, k) \in tokens
      OBVIOUS
    <3> HIDE DEF tokens
    <3> QED
      BY <3>1
  <2>2. Drawings = SUBSET T
    BY DEF Drawings
  <2> HIDE DEF T
  <2>3. \A s \in SUBSET T : \A g, k \in Nat : s \cup {Token(g, k)} \in SUBSET T
    BY <2>1
  <2> QED
    BY <2>2, <2>3 DEF Drawable
<1>2. FileShapes \subseteq Drawings
  BY DEF Drawings
<1>3. ASSUME FilesAreSound, NEW f \in Files
      PROVE  Brings(Drawings, Ids, f) /\ Filed(f) /\ OneObjectPerId(f)
  <2>1. Brings(Drawings, Ids, f)
    BY <1>2, <1>3, FilesBring
  <2> QED
    BY <1>3, <2>1, FilesAreFiled DEF FilesAreSound
<1> QED
  BY <1>1, <1>3 DEF FilesRight

\* Over such files, the workspace stays sound under the map page, and the page's editor
\* tied to it, whatever is dragged, undone, imported or answered late.
THEOREM GeometryInvariant ==
    ASSUME FilesAreSound PROVE GeometrySpec => []GeometryInv(Drawings)
<1>1. GeometryInit => GeometryInv(Drawings)
  BY GeometryInitially
<1>2. GeometryInv(Drawings) /\ [GeometryNext]_geometryVars => GeometryInv(Drawings)'
  BY GeometryStep, DrawingsDo DEF GeometryGoes
<1> QED
  BY <1>1, <1>2, PTL DEF GeometrySpec

\* The same line of models, with the writers of the map page among the editors: drags
\* written move by move or when their projection answers, answers that come late, undo
\* and redo in the middle of a drag, imports (use-geometry-edit.ts:41-190,
\* use-inverse-projection.ts:40-125, command-stack.ts:69-115).
THEOREM ReshapingImplementsHistory ==
    ASSUME FilesAreSound PROVE GeometrySpec => HistoryImplemented
<1>1. GeometryInit => GeometryInv(Drawings) /\ History!Init
  BY GeometryInitially
<1>2. GeometryInv(Drawings) /\ [GeometryNext]_geometryVars =>
         GeometryInv(Drawings)' /\ [History!Next]_(History!vars)
  BY GeometryStep, DrawingsDo DEF GeometryGoes
<1> QED
  BY <1>1, <1>2, PTL DEF GeometrySpec, HistoryImplemented, History!Spec

\* The map page's variables keep their types and the editor's ties to the page.
THEOREM GeometryTypeCorrect ==
    ASSUME FilesAreSound PROVE GeometrySpec => []GeometryTypeOK
<1>1. ASSUME GeometryInv(Drawings) PROVE GeometryTypeOK
  <2>1. /\ WorkspaceSound(Drawings) /\ GesturesOK
        /\ selected \in Ids \cup {NoId} /\ display \in {"ready", "projecting"}
        /\ request \in OneOf(Requests(Drawings)) /\ orphans \subseteq Requests(Drawings)
    BY <1>1, GeometryParts
  <2>2. EditTypeOK
    BY <2>1, EditInvTypes DEF WorkspaceSound
  <2>3. Len(session) <= 1
    <3>1. CASE Has(session)
      <4>1. session = <<session[1]>>
        BY <1>1, <3>1, SessionIs
      <4>2. Len(<<session[1]>>) = 1
        OBVIOUS
      <4> QED
        BY <4>1, <4>2
    <3>2. CASE ~Has(session)
      BY <3>2 DEF Has
    <3> QED
      BY <3>1, <3>2
  <2>4. Has(session) => /\ mapped /\ display = "ready" /\ session[1].id = selected
                        /\ session[1].held => Metric /\ Dragging
    BY <1>1, SessionIs DEF Right, Metric
  <2>5. Len(request) <= 1 /\ \A i \in DOMAIN request : request[i] \in Requests(Drawings)
    <3>1. CASE request = << >>
      BY <3>1
    <3>2. ASSUME NEW q \in Requests(Drawings), request = <<q>>
          PROVE  Len(request) <= 1 /\ \A i \in DOMAIN request : request[i] \in Requests(Drawings)
      <4> HIDE DEF Drawings
      <4>1. Len(<<q>>) = 1 /\ DOMAIN <<q>> = {1} /\ <<q>>[1] = q
        OBVIOUS
      <4> QED
        BY <3>2, <4>1
    <3> QED
      BY <2>1, <3>1, <3>2 DEF OneOf
  <2>6. \A q \in Questions : q.crs = "metric"
    BY <2>1, <2>5 DEF Questions, Requests
  <2> QED
    BY <2>1, <2>2, <2>3, <2>4, <2>5, <2>6 DEF GeometryTypeOK, GesturesOK
<1> QED
  BY <1>1, GeometryInvariant, PTL

\* A file in another CRS is added as it is (model-store.ts:631-687), but nothing else
\* puts coordinates into a store that declares another CRS: no answer of a projection,
\* however late (use-inverse-projection.ts:96-109), and no undo or redo, which bring
\* coordinates and CRS back together.
THEOREM CoordinatesAlwaysTheStoresOrAFiles ==
    ASSUME FilesAreSound PROVE GeometrySpec => []CoordinatesAreTheStoresOrAFiles
<1>1. ASSUME GeometryInv(Drawings) PROVE CoordinatesAreTheStoresOrAFiles
  <2>1. Placed(store)
    BY <1>1, SoundStore, GeometryParts
  <2> QED
    BY <2>1, ListsPlaced DEF CoordinatesAreTheStoresOrAFiles, FitsIn
<1> QED
  BY <1>1, GeometryInvariant, PTL

\* Over a model in lon/lat no writer leaves the armed editor on a shape of its own, which
\* its next move would write back over theirs (use-geometry-edit.ts:41-49).
THEOREM CopyIsAlwaysTheStores ==
    ASSUME FilesAreSound PROVE GeometrySpec => []CopyIsTheStores
<1>1. ASSUME GeometryInv(Drawings) PROVE CopyIsTheStores
  <2>1. store.crs \in CRSs
    BY <1>1, GeometryParts
  <2> QED
    BY <1>1, <2>1, SessionIs DEF CopyIsTheStores, Right, Metric, CRSs
<1> QED
  BY <1>1, GeometryInvariant, PTL

-----------------------------------------------------------------------------
(* One gesture, one step: shapes.                                           *)

\* What a shape says of the drags: it has all the moves of a drag or none (Whole, of
\* those before one), none of a drag to come, and, under way, all there are of this one.
MovesBy(mv, g) == {Token(g, k) : k \in 1..mv[g]}
Whole(s, mv, h) == \A g \in 1..(h - 1) : MovesBy(mv, g) \subseteq s \/ MovesBy(mv, g) \cap s = {}
NoneFrom(s, h) == \A g \in Gestures, k \in 1..2 : g >= h => Token(g, k) \notin s
Finished(s, mv, g) == Whole(s, mv, g) /\ NoneFrom(s, g)
UnderWay(s, mv, g) == Whole(s, mv, g) /\ NoneFrom(s, g + 1) /\ MovesBy(mv, g) \subseteq s

\* The drags so far, and what may become of them in a step that moves nothing.
DragsAt(mv, g) ==
    /\ mv \in [1..(MaxGestures + 1) -> 0..2] /\ g \in 1..(MaxGestures + 1)
    /\ mv[MaxGestures + 1] = 0 /\ \A h \in Gestures : h > g => mv[h] = 0
DragEndsAt(mv, g, h) == h = g \/ (g \in Gestures /\ mv[g] > 0 /\ h = g + 1)

LEMMA TokenIs ==
    ASSUME NEW g, NEW k PROVE Token(g, k).g = g /\ Token(g, k).k = k
  BY DEF Token

LEMMA NextDrag ==
    ASSUME NEW mv, NEW g, DragsAt(mv, g), g \in Gestures
    PROVE  DragsAt(mv, g + 1) /\ mv[g + 1] = 0
<1>1. MaxGestures \in Nat /\ g \in 1..MaxGestures
  BY GestureAssumption DEF Gestures
<1>2. g + 1 \in 1..(MaxGestures + 1) /\ (g + 1 = MaxGestures + 1 \/ g + 1 \in 1..MaxGestures)
  BY <1>1
<1> QED
  BY <1>1, <1>2 DEF DragsAt, Gestures

LEMMA DragsEnd ==
    ASSUME NEW mv, NEW g, NEW h, DragsAt(mv, g), DragEndsAt(mv, g, h)
    PROVE  DragsAt(mv, h)
  BY NextDrag DEF DragEndsAt

LEMMA NoMovesYet ==
    ASSUME NEW mv, NEW g, DragsAt(mv, g), mv[g] = 0 PROVE MovesBy(mv, g) = {}
  BY DEF MovesBy

LEMMA MovesAre ==
    ASSUME NEW mv, NEW g, DragsAt(mv, g), NEW h \in Gestures
    PROVE  MovesBy(mv, h) \subseteq {Token(h, k) : k \in 1..2}
<1>1. h \in 1..(MaxGestures + 1)
  BY GestureAssumption DEF Gestures
<1>2. mv[h] \in 0..2
  BY <1>1 DEF DragsAt
<1> QED
  BY <1>2 DEF MovesBy

LEMMA FinishedEnds ==
    ASSUME NEW mv, NEW g, DragsAt(mv, g), g \in Gestures, NEW s, Finished(s, mv, g)
    PROVE  Finished(s, mv, g + 1)
<1>1. MaxGestures \in Nat /\ g \in 1..MaxGestures
  BY GestureAssumption DEF Gestures
<1>2. MovesBy(mv, g) \cap s = {}
  <2>1. \A k \in 1..2 : Token(g, k) \notin s
    BY <1>1 DEF Finished, NoneFrom
  <2> QED
    BY <2>1, MovesAre
<1>3. \A h \in 1..((g + 1) - 1) : h = g \/ h \in 1..(g - 1)
  BY <1>1
<1>4. \A h \in Gestures : h >= g + 1 => h >= g
  BY <1>1 DEF Gestures
<1> QED
  BY <1>2, <1>3, <1>4 DEF Finished, Whole, NoneFrom

LEMMA UnderWayEnds ==
    ASSUME NEW mv, NEW g, DragsAt(mv, g), NEW s, UnderWay(s, mv, g)
    PROVE  Finished(s, mv, g + 1)
<1>1. \A h \in 1..((g + 1) - 1) : h = g \/ h \in 1..(g - 1)
  BY GestureAssumption DEF DragsAt
<1> QED
  BY <1>1 DEF Finished, UnderWay, Whole

LEMMA FinishedArms ==
    ASSUME NEW mv, NEW g, DragsAt(mv, g), mv[g] = 0, NEW s, Finished(s, mv, g)
    PROVE  UnderWay(s, mv, g)
<1>1. \A h \in Gestures : h >= g + 1 => h >= g
  BY GestureAssumption DEF Gestures, DragsAt
<1> QED
  BY <1>1, NoMovesYet DEF Finished, UnderWay, NoneFrom

LEMMA EndedIsWhole ==
    ASSUME NEW mv, NEW g, NEW h, DragsAt(mv, g), DragEndsAt(mv, g, h), NEW s, Finished(s, mv, g)
    PROVE  Finished(s, mv, h)
  BY FinishedEnds DEF DragEndsAt

\* A move more.
Moved(mv, g) == [mv EXCEPT ![g] = @ + 1]

LEMMA MovedIs ==
    ASSUME NEW mv, NEW g, DragsAt(mv, g), g \in Gestures, mv[g] < 2
    PROVE  /\ DragsAt(Moved(mv, g), g) /\ Moved(mv, g)[g] = mv[g] + 1 /\ Moved(mv, g)[g] \in 1..2
           /\ \A h \in 1..(g - 1) : MovesBy(Moved(mv, g), h) = MovesBy(mv, h)
           /\ MovesBy(Moved(mv, g), g) \subseteq MovesBy(mv, g) \cup {Token(g, Moved(mv, g)[g])}
<1>1. MaxGestures \in Nat /\ g \in 1..MaxGestures /\ g \in 1..(MaxGestures + 1)
      /\ g # MaxGestures + 1
  BY GestureAssumption DEF Gestures
<1>2. mv[g] \in 0..2
  BY <1>1 DEF DragsAt
<1>3. mv[g] + 1 \in 1..2 /\ mv[g] + 1 \in 0..2
  BY <1>2
<1>4. /\ Moved(mv, g) \in [1..(MaxGestures + 1) -> 0..2] /\ Moved(mv, g)[g] = mv[g] + 1
      /\ \A h \in 1..(MaxGestures + 1) : h # g => Moved(mv, g)[h] = mv[h]
  BY <1>1, <1>3 DEF DragsAt, Moved
<1>5. \A h \in Gestures : h > g => h # g /\ h \in 1..(MaxGestures + 1)
  BY <1>1 DEF Gestures
<1>6. DragsAt(Moved(mv, g), g)
  BY <1>1, <1>4, <1>5 DEF DragsAt
<1>7. \A h \in 1..(g - 1) : h # g /\ h \in 1..(MaxGestures + 1)
  BY <1>1
<1>8. \A h \in 1..(g - 1) : MovesBy(Moved(mv, g), h) = MovesBy(mv, h)
  BY <1>4, <1>7 DEF MovesBy
<1>9. \A k \in 1..Moved(mv, g)[g] : k \in 1..mv[g] \/ k = Moved(mv, g)[g]
  BY <1>2, <1>4
<1>10. MovesBy(Moved(mv, g), g) \subseteq MovesBy(mv, g) \cup {Token(g, Moved(mv, g)[g])}
  BY <1>9 DEF MovesBy
<1> QED
  BY <1>3, <1>4, <1>6, <1>8, <1>10

LEMMA FinishedStays ==
    ASSUME NEW mv, NEW g, DragsAt(mv, g), g \in Gestures, mv[g] < 2, NEW s, Finished(s, mv, g)
    PROVE  Finished(s, Moved(mv, g), g)
  BY MovedIs DEF Finished, Whole

LEMMA UnderWayMoves ==
    ASSUME NEW mv, NEW g, DragsAt(mv, g), g \in Gestures, mv[g] < 2, NEW s, UnderWay(s, mv, g)
    PROVE  UnderWay(s \cup {Token(g, Moved(mv, g)[g])}, Moved(mv, g), g)
<1> DEFINE mw == Moved(mv, g)
           t == Token(g, mw[g])
           more == s \cup {t}
<1>1. /\ \A h \in 1..(g - 1) : MovesBy(mw, h) = MovesBy(mv, h)
      /\ MovesBy(mw, g) \subseteq MovesBy(mv, g) \cup {t}
  BY MovedIs
<1>2. MaxGestures \in Nat /\ g \in 1..MaxGestures
  BY GestureAssumption DEF Gestures
<1>3. t.g = g
  BY TokenIs
<1> HIDE DEF mw, t
<1>4. MovesBy(mw, g) \subseteq more
  BY <1>1 DEF UnderWay
<1>5. ASSUME NEW h \in 1..(g - 1) PROVE MovesBy(mw, h) \subseteq more \/ MovesBy(mw, h) \cap more = {}
  <2>1. t \notin MovesBy(mv, h)
    <3>1. h # g
      BY <1>2
    <3> QED
      BY <1>3, <3>1, TokenIs DEF MovesBy
  <2>2. MovesBy(mv, h) \subseteq s \/ MovesBy(mv, h) \cap s = {}
    BY DEF UnderWay, Whole
  <2> QED
    BY <1>1, <2>1, <2>2
<1>6. ASSUME NEW h \in Gestures, NEW k \in 1..2, h >= g + 1 PROVE Token(h, k) \notin more
  <2>1. h # g
    BY <1>2, <1>6 DEF Gestures
  <2>2. Token(h, k) # t
    BY <1>3, <2>1, TokenIs
  <2> QED
    BY <1>6, <2>2 DEF UnderWay, NoneFrom
<1> QED
  BY <1>4, <1>5, <1>6 DEF UnderWay, Whole, NoneFrom, mw, t

LEMMA UndrawnIsFinished ==
    ASSUME NEW mv, NEW g, DragsAt(mv, g), NEW s,
           s \cap {Token(h, k) : h \in Gestures, k \in 1..2} = {}
    PROVE  Finished(s, mv, g)
<1>1. \A h \in Gestures, k \in 1..2 : Token(h, k) \notin s
  OBVIOUS
<1>2. \A h \in 1..(g - 1) : h \in Gestures
  BY GestureAssumption DEF DragsAt, Gestures
<1>3. \A h \in 1..(g - 1) : MovesBy(mv, h) \cap s = {}
  BY <1>1, <1>2, MovesAre
<1> QED
  BY <1>1, <1>3 DEF Finished, Whole, NoneFrom

-----------------------------------------------------------------------------
(* One gesture, one step: lines of models.                                  *)

AllFinished(m, mv, g) == \A x \in ObjectsOf(m) : Finished(x.shape, mv, g)

\* Where a step is open, its object is the one under way.
StoreAt(m, key, mv, g) ==
    \A x \in ObjectsOf(m) : IF x.id = key THEN UnderWay(x.shape, mv, g)
                                          ELSE Finished(x.shape, mv, g)

\* Two models in lon/lat whose objects differ by the moves of one drag each; by those of
\* one drag in particular.
Differ(s, t) == (s \cup t) \ (s \cap t)
Near(m, n) ==
    m.crs = "lonlat" /\ n.crs = "lonlat" =>
       \A x \in ObjectsOf(m), y \in ObjectsOf(n) : x.id = y.id =>
          \A s, t \in Differ(x.shape, y.shape) : s.g = t.g
Within(m, n, g) ==
    \A x \in ObjectsOf(m), y \in ObjectsOf(n) : x.id = y.id =>
       \A t \in Differ(x.shape, y.shape) : t.g = g
SameShapes(m, n) ==
    \A x \in ObjectsOf(m), y \in ObjectsOf(n) : x.id = y.id => x.shape = y.shape

\* A stack of models with m on it, and what undo and redo can reach from m.
Chain(stack, m) ==
    \A i \in 1..Len(stack) : Near(stack[i], IF i = Len(stack) THEN m ELSE stack[i + 1])
StackAt(stack, m, mv, g) ==
    Chain(stack, m) /\ \A i \in 1..Len(stack) : AllFinished(stack[i], mv, g)
LineAt(past, m, future, mv, g) == StackAt(past, m, mv, g) /\ StackAt(future, m, mv, g)

LEMMA NearBoth == ASSUME NEW m, NEW n, Near(m, n) PROVE Near(n, m)
  BY DEF Near, Differ

LEMMA WithinIsNear == ASSUME NEW m, NEW n, NEW g, Within(m, n, g) PROVE Near(m, n)
  BY DEF Near, Within

LEMMA SameIsNear == ASSUME NEW m, NEW n, SameShapes(m, n) PROVE Near(m, n)
  BY DEF Near, SameShapes, Differ

LEMMA MetricIsNear == ASSUME NEW m, NEW n, m.crs = "metric" PROVE Near(m, n)
  BY DEF Near

LEMMA LineEnds ==
    ASSUME NEW past, NEW m, NEW future, NEW mv, NEW g, NEW h, DragsAt(mv, g), DragEndsAt(mv, g, h),
           LineAt(past, m, future, mv, g)
    PROVE  LineAt(past, m, future, mv, h)
  BY EndedIsWhole DEF LineAt, StackAt, AllFinished

LEMMA LineStays ==
    ASSUME NEW past, NEW m, NEW future, NEW mv, NEW g, DragsAt(mv, g), g \in Gestures, mv[g] < 2,
           LineAt(past, m, future, mv, g)
    PROVE  LineAt(past, m, future, Moved(mv, g), g)
  BY FinishedStays DEF LineAt, StackAt, AllFinished

LEMMA ClosedIsFinished ==
    ASSUME NEW m, NEW mv, NEW g, StoreAt(m, NoKey, mv, g), \A x \in ObjectsOf(m) : x.id # NoKey
    PROVE  AllFinished(m, mv, g)
  BY DEF StoreAt, AllFinished

LEMMA FinishedIsClosed ==
    ASSUME NEW m, NEW mv, NEW g, AllFinished(m, mv, g), \A x \in ObjectsOf(m) : x.id # NoKey
    PROVE  StoreAt(m, NoKey, mv, g)
  BY DEF StoreAt, AllFinished

LEMMA StoreEnds ==
    ASSUME NEW m, NEW key, NEW mv, NEW g, DragsAt(mv, g), g \in Gestures, StoreAt(m, key, mv, g)
    PROVE  AllFinished(m, mv, g + 1)
  BY UnderWayEnds, FinishedEnds DEF StoreAt, AllFinished

LEMMA AllFinishedEnds ==
    ASSUME NEW m, NEW mv, NEW g, NEW h, DragsAt(mv, g), DragEndsAt(mv, g, h), AllFinished(m, mv, g)
    PROVE  AllFinished(m, mv, h)
  BY EndedIsWhole DEF AllFinished

\* The steps of the line.
LEMMA ChainAppend ==
    ASSUME NEW V, NEW stack \in Seq(V), NEW m, NEW n, Chain(stack, m), Near(m, n)
    PROVE  Chain(Append(stack, m), n)
<1> DEFINE more == Append(stack, m)
<1>1. Len(stack) \in Nat /\ Len(more) = Len(stack) + 1 /\ more[Len(stack) + 1] = m
      /\ \A i \in 1..Len(stack) : more[i] = stack[i]
  OBVIOUS
<1> HIDE DEF more
<1>2. ASSUME NEW i \in 1..Len(more)
      PROVE  Near(more[i], IF i = Len(more) THEN n ELSE more[i + 1])
  <2>1. CASE i = Len(more)
    BY <1>1, <2>1
  <2>2. CASE i = Len(stack)
    <3>1. i \in 1..Len(stack) /\ i # Len(more) /\ more[i + 1] = m /\ more[i] = stack[i]
      BY <1>1, <1>2, <2>2
    <3>2. Near(stack[i], m)
      BY <2>2, <3>1 DEF Chain
    <3> QED
      BY <3>1, <3>2
  <2>3. CASE i # Len(more) /\ i # Len(stack)
    <3>1. /\ i \in 1..Len(stack) /\ i + 1 \in 1..Len(stack) /\ more[i] = stack[i]
          /\ more[i + 1] = stack[i + 1]
      BY <1>1, <2>3
    <3>2. Near(stack[i], stack[i + 1])
      BY <2>3, <3>1 DEF Chain
    <3> QED
      BY <2>3, <3>1, <3>2
  <2> QED
    BY <2>1, <2>2, <2>3
<1> QED
  BY <1>2 DEF Chain, more

LEMMA ChainBelow ==
    ASSUME NEW V, NEW stack \in Seq(V), stack # << >>, NEW m, Chain(stack, m)
    PROVE  /\ Chain(SubSeq(stack, 1, Len(stack) - 1), stack[Len(stack)])
           /\ Near(stack[Len(stack)], m)
<1> DEFINE less == SubSeq(stack, 1, Len(stack) - 1)
<1>1. Len(stack) \in Nat \ {0} /\ Len(less) = Len(stack) - 1
      /\ \A i \in 1..(Len(stack) - 1) : less[i] = stack[i]
  OBVIOUS
<1> HIDE DEF less
<1>2. Near(stack[Len(stack)], m)
  BY <1>1 DEF Chain
<1>3. ASSUME NEW i \in 1..Len(less)
      PROVE  Near(less[i], IF i = Len(less) THEN stack[Len(stack)] ELSE less[i + 1])
  <2>1. i \in 1..(Len(stack) - 1) /\ i \in 1..Len(stack) /\ i # Len(stack) /\ less[i] = stack[i]
    BY <1>1
  <2>2. Near(stack[i], stack[i + 1])
    BY <2>1 DEF Chain
  <2>3. CASE i = Len(less)
    <3>1. i + 1 = Len(stack)
      BY <1>1, <2>3
    <3> QED
      BY <2>1, <2>2, <2>3, <3>1
  <2>4. CASE i # Len(less)
    <3>1. i + 1 \in 1..(Len(stack) - 1)
      BY <1>1, <2>4
    <3> QED
      BY <1>1, <2>1, <2>2, <2>4, <3>1
  <2> QED
    BY <2>3, <2>4
<1> QED
  BY <1>2, <1>3 DEF Chain, less

LEMMA ChainTail ==
    ASSUME NEW V, NEW stack \in Seq(V), stack # << >>, NEW m, Chain(stack, m)
    PROVE  Chain(Tail(stack), m)
<1> DEFINE less == Tail(stack)
<1>1. Len(stack) \in Nat \ {0} /\ Len(less) = Len(stack) - 1
      /\ \A i \in 1..(Len(stack) - 1) : less[i] = stack[i + 1]
  OBVIOUS
<1> HIDE DEF less
<1>2. ASSUME NEW i \in 1..Len(less) PROVE Near(less[i], IF i = Len(less) THEN m ELSE less[i + 1])
  <2>1. i \in 1..(Len(stack) - 1) /\ i + 1 \in 1..Len(stack) /\ less[i] = stack[i + 1]
    BY <1>1
  <2>2. Near(stack[i + 1], IF i + 1 = Len(stack) THEN m ELSE stack[(i + 1) + 1])
    BY <2>1 DEF Chain
  <2>3. CASE i = Len(less)
    <3>1. i + 1 = Len(stack)
      BY <1>1, <2>3
    <3> QED
      BY <2>1, <2>2, <2>3, <3>1
  <2>4. CASE i # Len(less)
    <3>1. i + 1 \in 1..(Len(stack) - 1) /\ i + 1 # Len(stack)
      BY <1>1, <2>4
    <3> QED
      BY <1>1, <2>1, <2>2, <2>4, <3>1
  <2> QED
    BY <2>3, <2>4
<1> QED
  BY <1>2 DEF Chain, less

\* An edit, on what is remembered or on what is left of it.
EditedTo(past, m, more) ==
    more = Append(past, m) \/ (past # << >> /\ more = Append(Tail(past), m))

LEMMA LineEdit ==
    ASSUME NEW V, NEW past \in Seq(V), NEW m, NEW future, NEW mv, NEW g,
           LineAt(past, m, future, mv, g), AllFinished(m, mv, g), NEW n, Near(m, n),
           NEW more, EditedTo(past, m, more)
    PROVE  LineAt(more, n, << >>, mv, g)
<1>1. ASSUME NEW q \in Seq(V), \A i \in 1..Len(q) : AllFinished(q[i], mv, g), Chain(q, m)
      PROVE  LineAt(Append(q, m), n, << >>, mv, g)
  <2>1. Chain(Append(q, m), n)
    BY <1>1, ChainAppend
  <2>2. /\ Len(Append(q, m)) = Len(q) + 1 /\ Len(q) \in Nat
        /\ \A i \in 1..(Len(q) + 1) : IF i = Len(q) + 1 THEN Append(q, m)[i] = m
                                      ELSE i \in 1..Len(q) /\ Append(q, m)[i] = q[i]
    OBVIOUS
  <2>3. \A i \in 1..Len(Append(q, m)) : AllFinished(Append(q, m)[i], mv, g)
    BY <1>1, <2>2
  <2>4. Len(<< >>) = 0 /\ 1..0 = {}
    OBVIOUS
  <2> QED
    BY <2>1, <2>3, <2>4 DEF LineAt, StackAt, Chain
<1>2. CASE more = Append(past, m)
  BY <1>1, <1>2 DEF LineAt, StackAt
<1>3. CASE past # << >> /\ more = Append(Tail(past), m)
  <2>1. Tail(past) \in Seq(V) /\ Chain(Tail(past), m)
    BY <1>3, ChainTail DEF LineAt, StackAt
  <2>2. \A i \in 1..Len(Tail(past)) : i + 1 \in 1..Len(past) /\ Tail(past)[i] = past[i + 1]
    BY <1>3
  <2>3. \A i \in 1..Len(Tail(past)) : AllFinished(Tail(past)[i], mv, g)
    BY <2>2 DEF LineAt, StackAt
  <2> QED
    BY <1>1, <1>3, <2>1, <2>3
<1> QED
  BY <1>2, <1>3 DEF EditedTo

\* An edit that goes on with the open one.
LEMMA LineGoesOn ==
    ASSUME NEW V, NEW past \in Seq(V), NEW m, NEW future, NEW mv, NEW g,
           LineAt(past, m, future, mv, g), NEW n, past # << >> => Near(past[Len(past)], n)
    PROVE  LineAt(past, n, << >>, mv, g)
<1>1. Chain(past, n)
  BY DEF Chain, LineAt, StackAt
<1>2. Len(<< >>) = 0 /\ 1..0 = {}
  OBVIOUS
<1> QED
  BY <1>1, <1>2 DEF LineAt, StackAt, StackAt, Chain

\* From one stack to the other.
StepsTo(from, m, to, n, less, more) ==
    n = from[Len(from)] /\ less = SubSeq(from, 1, Len(from) - 1) /\ more = Append(to, m)
FinishedAt(n, less, more, mv, g) ==
    AllFinished(n, mv, g) /\ StackAt(less, n, mv, g) /\ StackAt(more, n, mv, g)
LEMMA LineSteps ==
    ASSUME NEW V, NEW from \in Seq(V), NEW m, NEW to \in Seq(V), NEW mv, NEW g, from # << >>,
           StackAt(from, m, mv, g), StackAt(to, m, mv, g), AllFinished(m, mv, g),
           NEW n, NEW less, NEW more, StepsTo(from, m, to, n, less, more)
    PROVE  FinishedAt(n, less, more, mv, g)
<1> USE DEF StepsTo
<1>1. Chain(less, n) /\ Near(m, n)
  BY ChainBelow, NearBoth DEF StackAt
<1>2. Chain(Append(to, m), n)
  BY <1>1, ChainAppend DEF StackAt
<1>3. Len(from) \in Nat \ {0}
  OBVIOUS
<1>4. AllFinished(n, mv, g)
  BY <1>3 DEF StackAt
<1>5. \A i \in 1..Len(less) : i \in 1..Len(from) /\ less[i] = from[i]
  BY <1>3
<1>6. /\ Len(Append(to, m)) = Len(to) + 1 /\ Len(to) \in Nat
      /\ \A i \in 1..(Len(to) + 1) : IF i = Len(to) + 1 THEN Append(to, m)[i] = m
                                     ELSE i \in 1..Len(to) /\ Append(to, m)[i] = to[i]
  OBVIOUS
<1>7. \A i \in 1..Len(Append(to, m)) : AllFinished(Append(to, m)[i], mv, g)
  BY <1>6 DEF StackAt
<1> QED
  BY <1>1, <1>2, <1>4, <1>5, <1>7 DEF StackAt, FinishedAt

LEMMA LineUndo ==
    ASSUME NEW V, NEW past \in Seq(V), NEW m, NEW future \in Seq(V), NEW mv, NEW g,
           LineAt(past, m, future, mv, g), AllFinished(m, mv, g), past # << >>,
           NEW n, n = past[Len(past)], NEW less, less = SubSeq(past, 1, Len(past) - 1)
    PROVE  LineAt(less, n, Append(future, m), mv, g) /\ AllFinished(n, mv, g)
<1>1. StackAt(past, m, mv, g) /\ StackAt(future, m, mv, g)
  BY DEF LineAt
<1> DEFINE more == Append(future, m)
<1>2. StepsTo(past, m, future, n, less, more)
  BY DEF StepsTo
<1> HIDE DEF more
<1>3. FinishedAt(n, less, more, mv, g)
  BY <1>1, <1>2, LineSteps
<1> QED
  BY <1>3 DEF LineAt, FinishedAt, more

LEMMA LineRedo ==
    ASSUME NEW V, NEW past \in Seq(V), NEW m, NEW future \in Seq(V), NEW mv, NEW g,
           LineAt(past, m, future, mv, g), AllFinished(m, mv, g), future # << >>,
           NEW n, n = future[Len(future)], NEW less, less = SubSeq(future, 1, Len(future) - 1)
    PROVE  LineAt(Append(past, m), n, less, mv, g) /\ AllFinished(n, mv, g)
<1>1. StackAt(past, m, mv, g) /\ StackAt(future, m, mv, g)
  BY DEF LineAt
<1> DEFINE more == Append(past, m)
<1>2. StepsTo(future, m, past, n, less, more)
  BY DEF StepsTo
<1> HIDE DEF more
<1>3. FinishedAt(n, less, more, mv, g)
  BY <1>1, <1>2, LineSteps
<1> QED
  BY <1>3 DEF LineAt, FinishedAt, more

-----------------------------------------------------------------------------
(* One gesture, one step: the objects of a model.                           *)

LEMMA ObjectIs ==
    ASSUME NEW S, NEW m \in ModelsOf(S), NEW x \in ObjectsOf(m)
    PROVE  x \in Things(S) /\ \E list \in Lists : \E i \in 1..Len(m[list]) : x = m[list][i]
<1>1. PICK list \in Lists : x \in {m[list][i] : i \in DOMAIN m[list]}
  BY DEF ObjectsOf
<1>2. m[list] \in Seq(Things(S)) /\ DOMAIN m[list] = 1..Len(m[list])
  BY ModelLists
<1> QED
  BY <1>1, <1>2

LEMMA ObjectIn ==
    ASSUME NEW S, NEW m \in ModelsOf(S), NEW list \in Lists, NEW i \in 1..Len(m[list])
    PROVE  m[list][i] \in ObjectsOf(m)
<1>1. m[list] \in Seq(Things(S)) /\ DOMAIN m[list] = 1..Len(m[list])
  BY ModelLists
<1> QED
  BY <1>1 DEF ObjectsOf

LEMMA ObjectHasId ==
    ASSUME NEW S, NEW m, Sane(S, Ids, m), NEW x \in ObjectsOf(m)
    PROVE  x \in Things(S) /\ x.id \in Ids /\ x.id # NoKey /\ x.shape \in S
<1>1. PICK list, i : list \in Lists /\ i \in 1..Len(m[list]) /\ x = m[list][i] /\ x \in Things(S)
  BY ObjectIs DEF Sane
<1>2. m[list][i].id \in Ids
  BY <1>1, SaneLists
<1> QED
  BY <1>1, <1>2, KeyAssumption DEF Things

LEMMA OneOfEach ==
    ASSUME NEW S, NEW known, NEW m, Sane(S, known, m), NEW x \in ObjectsOf(m), NEW y \in ObjectsOf(m),
           x.id = y.id
    PROVE  x = y
<1>1. m \in ModelsOf(S)
  BY DEF Sane
<1>2. PICK a, i : a \in Lists /\ i \in 1..Len(m[a]) /\ x = m[a][i]
  BY <1>1, ObjectIs
<1>3. PICK b, j : b \in Lists /\ j \in 1..Len(m[b]) /\ y = m[b][j]
  BY <1>1, ObjectIs
<1>4. /\ DOMAIN m[a] = 1..Len(m[a]) /\ DOMAIN m[b] = 1..Len(m[b]) /\ EachOnce(m[a])
      /\ a # b => IdsIn(m[a]) \cap IdsIn(m[b]) = {}
  <2>1. DOMAIN m[a] = 1..Len(m[a]) /\ DOMAIN m[b] = 1..Len(m[b])
    BY <1>1, <1>2, <1>3, ModelLists
  <2>2. EachOnce(m[a])
    BY <1>2, SaneLists
  <2>3. a # b => IdsIn(m[a]) \cap IdsIn(m[b]) = {}
    BY <1>2, <1>3, SaneLists
  <2> QED
    BY <2>1, <2>2, <2>3
<1>5. x.id \in IdsIn(m[a]) /\ y.id \in IdsIn(m[b])
  BY <1>2, <1>3, <1>4 DEF IdsIn
<1>6. a = b
  BY <1>4, <1>5
<1> QED
  BY <1>2, <1>3, <1>4, <1>6 DEF EachOnce

\* An object written over.
LEMMA PutObjects ==
    ASSUME NEW S, NEW known, NEW m, Sane(S, known, m), NEW list \in Lists, NEW x \in Things(S),
           x.id \in IdsIn(m[list]), NEW w, w = Apply(PutPatch(list, x), m), Sane(S, known, w)
    PROVE  /\ x \in ObjectsOf(w)
           /\ \A y \in ObjectsOf(w) : IF y.id = x.id THEN y = x ELSE y \in ObjectsOf(m)
<1> DEFINE l == m[list]
           put == Put(l, x)
<1>1. m \in ModelsOf(S) /\ w \in ModelsOf(S)
  BY DEF Sane
<1>2. l \in Seq(Things(S)) /\ DOMAIN l = 1..Len(l)
  BY <1>1, ModelLists
<1> HIDE DEF l
<1>3. put \in Seq(Things(S)) /\ Len(put) = Len(l)
      /\ \A i \in 1..Len(l) : put[i] = IF l[i].id = x.id THEN x ELSE l[i]
  <2>1. put \in Seq(Things(S)) /\ Len(put) = Len(l)
    BY <1>2, PutIs
  <2>2. \A i \in 1..Len(l) : put[i] = IF l[i].id = x.id THEN x ELSE l[i]
    BY <1>2 DEF Put
  <2> QED
    BY <2>1, <2>2
<1> HIDE DEF put
<1>4. w[list] = put /\ \A other \in Lists : other # list => w[other] = m[other]
  BY <1>1, <1>3, ListReplaced, AppliedPut DEF put, l
<1>5. x \in ObjectsOf(w)
  <2>1. PICK i \in 1..Len(l) : l[i].id = x.id
    BY <1>2 DEF IdsIn, l
  <2>2. i \in 1..Len(w[list]) /\ w[list][i] = x
    BY <1>3, <1>4, <2>1
  <2> QED
    BY <1>1, <2>2, ObjectIn
<1>6. ASSUME NEW y \in ObjectsOf(w), y.id # x.id PROVE y \in ObjectsOf(m)
  <2>1. PICK a, i : a \in Lists /\ i \in 1..Len(w[a]) /\ y = w[a][i]
    BY <1>1, ObjectIs
  <2>2. CASE a = list
    <3>1. i \in 1..Len(l) /\ y = l[i]
      BY <1>3, <1>4, <1>6, <2>1, <2>2
    <3> QED
      BY <1>1, <3>1, ObjectIn DEF l
  <2>3. CASE a # list
    BY <1>1, <1>4, <2>1, <2>3, ObjectIn
  <2> QED
    BY <2>2, <2>3
<1> QED
  BY <1>5, <1>6, OneOfEach

\* What a list keeps it had.
LEMMA KeptHad ==
    ASSUME NEW S, NEW list \in Seq(Things(S)), NEW at, OneEach(list, at)
    PROVE  \A i \in 1..Len(Kept(list, at)) : \E j \in 1..Len(list) : Kept(list, at)[i] = list[j]
<1>1. DOMAIN list = 1..Len(list) /\ Len(list) \in Nat
  OBVIOUS
<1> DEFINE kept == Kept(list, at)
<1>2. KeptFrom(kept, list, at, Len(list))
  BY <1>1, KeptOnce
<1> HIDE DEF kept
<1>3. kept \in Seq({list[i] : i \in 1..Len(list)})
  BY <1>2 DEF KeptFrom
<1>4. \A i \in 1..Len(kept) : kept[i] \in {list[j] : j \in 1..Len(list)}
  BY <1>3
<1> QED
  BY <1>4 DEF kept

LEMMA DropObjects ==
    ASSUME NEW S, NEW known, NEW m, Sane(S, known, m), NEW list \in Lists, NEW id,
           NEW w, w = Apply(DropPatch(list, id), m), w \in ModelsOf(S)
    PROVE  ObjectsOf(w) \subseteq ObjectsOf(m)
<1> DEFINE l == m[list]
           at == {i \in DOMAIN l : l[i].id \notin {id}}
<1>1. m \in ModelsOf(S) /\ l \in Seq(Things(S)) /\ EachOnce(l)
  BY SaneLists DEF Sane
<1> HIDE DEF l
<1>2. OneEach(l, at)
  BY <1>1 DEF OneEach, EachOnce
<1>3. Without(l, {id}) = Kept(l, at)
  BY DEF Without
<1> HIDE DEF at
<1> DEFINE kept == Kept(l, at)
<1>4. kept \in Seq(Things(S)) /\ \A i \in 1..Len(kept) : \E j \in 1..Len(l) : kept[i] = l[j]
  BY <1>1, <1>2, KeptThings, KeptHad
<1>5. w = With(m, list, kept)
  BY <1>3, AppliedDrop DEF l
<1> HIDE DEF kept
<1>6. w[list] = kept /\ \A other \in Lists : other # list => w[other] = m[other]
  BY <1>1, <1>4, <1>5, ListReplaced
<1>7. ASSUME NEW y \in ObjectsOf(w) PROVE y \in ObjectsOf(m)
  <2>1. PICK a, i : a \in Lists /\ i \in 1..Len(w[a]) /\ y = w[a][i]
    BY ObjectIs
  <2>2. CASE a = list
    <3>1. PICK j \in 1..Len(l) : y = l[j]
      BY <1>4, <1>6, <2>1, <2>2
    <3> QED
      BY <1>1, <3>1, ObjectIn DEF l
  <2>3. CASE a # list
    BY <1>1, <1>6, <2>1, <2>3, ObjectIn
  <2> QED
    BY <2>2, <2>3
<1> QED
  BY <1>7

\* What lands is of the file, and under ids the model did not have.
LEMMA UntakenHad ==
    ASSUME NEW S, NEW list \in Seq(Things(S)), NEW taken
    PROVE  \A i \in 1..Len(Untaken(list, taken)) :
              \E j \in 1..Len(list) : Untaken(list, taken)[i] = list[j]
<1>1. Untaken(list, taken) = Kept(list, Firsts(list, taken))
  BY DEF Untaken, Firsts
<1>2. OneEach(list, Firsts(list, taken))
  BY FirstsOnce
<1> QED
  BY <1>1, <1>2, KeptHad

LEMMA ObjectListed ==
    ASSUME NEW S, NEW m \in ModelsOf(S), NEW x \in ObjectsOf(m)
    PROVE  x.id \in IdsIn(m.features) \cup IdsIn(m.receivers)
<1>1. PICK list, i : list \in Lists /\ i \in 1..Len(m[list]) /\ x = m[list][i]
  BY ObjectIs
<1>2. DOMAIN m[list] = 1..Len(m[list])
  BY ModelLists
<1>3. x.id \in IdsIn(m[list])
  BY <1>1, <1>2 DEF IdsIn
<1>4. list = "features" \/ list = "receivers"
  BY <1>1 DEF Lists
<1> QED
  BY <1>3, <1>4

LEMMA ConcatHas ==
    ASSUME NEW S, NEW s \in Seq(Things(S)), NEW t \in Seq(Things(S)), NEW i \in 1..Len(s \o t)
    PROVE  \/ \E j \in 1..Len(s) : (s \o t)[i] = s[j]
           \/ \E j \in 1..Len(t) : (s \o t)[i] = t[j]
<1>1. /\ Len(s) \in Nat /\ Len(t) \in Nat /\ Len(s \o t) = Len(s) + Len(t)
      /\ (s \o t)[i] = IF i <= Len(s) THEN s[i] ELSE t[i - Len(s)]
  OBVIOUS
<1>2. i <= Len(s) => i \in 1..Len(s)
  BY <1>1
<1>3. ~(i <= Len(s)) => i - Len(s) \in 1..Len(t)
  BY <1>1
<1> QED
  BY <1>1, <1>2, <1>3

LEMMA LandObjects ==
    ASSUME NEW S, NEW known, NEW m, Sane(S, known, m), NEW brought, Brings(S, known, brought),
           NEW plan, plan = PlanMerge(m, brought),
           NEW w, w = Apply(LandPatch({}, plan), m), w \in ModelsOf(S), NEW y \in ObjectsOf(w)
    PROVE  \/ y \in ObjectsOf(m)
           \/ y \in ObjectsOf(brought) /\ \A x \in ObjectsOf(m) : x.id # y.id
<1> DEFINE held == IdsIn(m.features) \cup IdsIn(m.receivers)
           features == Untaken(brought.features, held)
           receivers == Untaken(brought.receivers, held \cup IdsIn(features))
<1>1. /\ brought \in ModelsOf(S) /\ brought.features \in Seq(Things(S))
      /\ brought.receivers \in Seq(Things(S)) /\ m \in ModelsOf(S)
  BY DEF Brings, ModelsOf, Sane
<1>2. plan.features = features /\ plan.receivers = receivers
  BY DEF PlanMerge
<1>3. \A x \in ObjectsOf(m) : x.id \in held
  BY <1>1, ObjectListed
<1> HIDE DEF held
<1>4. /\ features \in Seq(Things(S)) /\ IdsIn(features) \cap held = {}
      /\ \A i \in 1..Len(features) : \E j \in 1..Len(brought.features) :
            features[i] = brought.features[j]
  <2>1. features \in Seq(Things(S)) /\ IdsIn(features) \cap held = {}
    BY <1>1, UntakenIs
  <2>2. \A i \in 1..Len(features) : \E j \in 1..Len(brought.features) :
           features[i] = brought.features[j]
    BY <1>1, UntakenHad
  <2> QED
    BY <2>1, <2>2
<1> HIDE DEF features
<1>5. /\ receivers \in Seq(Things(S)) /\ IdsIn(receivers) \cap held = {}
      /\ \A i \in 1..Len(receivers) : \E j \in 1..Len(brought.receivers) :
            receivers[i] = brought.receivers[j]
  <2>1. receivers \in Seq(Things(S)) /\ IdsIn(receivers) \cap held = {}
    BY <1>1, UntakenIs
  <2>2. \A i \in 1..Len(receivers) : \E j \in 1..Len(brought.receivers) :
           receivers[i] = brought.receivers[j]
    BY <1>1, UntakenHad
  <2> QED
    BY <2>1, <2>2
<1> HIDE DEF receivers
<1>6. /\ m.features \in Seq(Things(S)) /\ m.receivers \in Seq(Things(S)) /\ EachOnce(m.features)
  BY DEF Sane, OneObjectPerId, ModelsOf
<1>7. Outside(m.features, {}) = m.features
  BY <1>6, OutsideIs
<1>8. w.features = m.features \o features /\ w.receivers = m.receivers \o receivers
  <2>1. Apply(LandPatch({}, plan), m) =
           [features |-> Outside(m.features, {}) \o plan.features,
            receivers |-> m.receivers \o plan.receivers,
            area |-> plan.area, crs |-> plan.crs]
    BY AppliedLand
  <2> DEFINE p == m.features \o features
             q == m.receivers \o receivers
  <2>2. w = [features |-> p, receivers |-> q, area |-> plan.area, crs |-> plan.crs]
    BY <1>2, <1>7, <2>1
  <2> HIDE DEF p, q
  <2>3. w.features = p /\ w.receivers = q
    BY <2>2
  <2> QED
    BY <2>3 DEF p, q
<1>9. PICK list, i : list \in Lists /\ i \in 1..Len(w[list]) /\ y = w[list][i]
  BY ObjectIs
<1>10. CASE list = "features"
  <2>1. i \in 1..Len(m.features \o features) /\ y = (m.features \o features)[i]
    BY <1>8, <1>9, <1>10
  <2>2. ASSUME NEW j \in 1..Len(m.features), y = m.features[j] PROVE y \in ObjectsOf(m)
    BY <1>1, <2>2, ObjectIn DEF Lists
  <2>3. ASSUME NEW j \in 1..Len(features), y = features[j]
        PROVE  y \in ObjectsOf(brought) /\ \A x \in ObjectsOf(m) : x.id # y.id
    <3>1. y.id \in IdsIn(features)
      BY <1>4, <2>3 DEF IdsIn
    <3>2. PICK k \in 1..Len(brought.features) : y = brought.features[k]
      BY <1>4, <2>3
    <3>3. y \in ObjectsOf(brought)
      BY <1>1, <3>2, ObjectIn DEF Lists
    <3> QED
      BY <1>3, <1>4, <3>1, <3>3
  <2> QED
    BY <1>4, <1>6, <2>1, <2>2, <2>3, ConcatHas
<1>11. CASE list = "receivers"
  <2>1. i \in 1..Len(m.receivers \o receivers) /\ y = (m.receivers \o receivers)[i]
    BY <1>8, <1>9, <1>11
  <2>2. ASSUME NEW j \in 1..Len(m.receivers), y = m.receivers[j] PROVE y \in ObjectsOf(m)
    BY <1>1, <2>2, ObjectIn DEF Lists
  <2>3. ASSUME NEW j \in 1..Len(receivers), y = receivers[j]
        PROVE  y \in ObjectsOf(brought) /\ \A x \in ObjectsOf(m) : x.id # y.id
    <3>1. y.id \in IdsIn(receivers)
      BY <1>5, <2>3 DEF IdsIn
    <3>2. PICK k \in 1..Len(brought.receivers) : y = brought.receivers[k]
      BY <1>5, <2>3
    <3>3. y \in ObjectsOf(brought)
      BY <1>1, <3>2, ObjectIn DEF Lists
    <3> QED
      BY <1>3, <1>5, <3>1, <3>3
  <2> QED
    BY <1>5, <1>6, <2>1, <2>2, <2>3, ConcatHas
<1> QED
  BY <1>9, <1>10, <1>11 DEF Lists

-----------------------------------------------------------------------------
(* One gesture, one step: the inductive invariant.                          *)

\* An open step is the drag under way, of the object the editor is armed with, and
\* nothing but that drag lies between its two ends.
OpenAt(m, key, past, future, editor, mv, g) ==
    key # NoKey => /\ Has(editor) /\ mv[g] > 0 /\ editor[1].id = key
                   /\ FoundIn(m, editor[1].list, key)
                   /\ future = << >> /\ Within(past[Len(past)], m, g)

\* A drag has an editor, whose copy is under way; what is asked of the projection is not.
EditorAt(editor, mv, g) ==
    /\ mv[g] > 0 => Has(editor)
    /\ Has(editor) => UnderWay(editor[1].copy, mv, g)
AskedAt(asked, late, mv, g) ==
    /\ \A i \in DOMAIN asked : Finished(asked[i].shape, mv, g)
    /\ \A q \in late : Finished(q.shape, mv, g)

GestureInv ==
    /\ DragsAt(moves, gesture)
    /\ OpenAt(store, openKey, Past, Future, session, moves, gesture)
    /\ LineAt(Past, store, Future, moves, gesture)
    /\ StoreAt(store, openKey, moves, gesture)
    /\ EditorAt(session, moves, gesture)
    /\ AskedAt(request, orphans, moves, gesture)

\* With no step open, in the state g of the drags.
ClosedAt(g) ==
    /\ LineAt(Past, store, Future, moves, g) /\ AllFinished(store, moves, g)

LEMMA LineListed ==
    ASSUME NEW S, WorkspaceSound(S)
    PROVE  \E V : Past \in Seq(V) /\ Future \in Seq(V) /\ V \subseteq ModelsOf(S)
                  /\ Len(Future) = Len(redoStack)
<1> DEFINE W == Reachable(S, Uniform(S), Known)
<1>1. /\ Along(W, store, undoStack, "undo", "redo", Past)
      /\ Along(W, store, redoStack, "redo", "undo", Future)
  BY DEF WorkspaceSound, EditInv, HistoryInv, HistoryAt
<1>2. W \subseteq ModelsOf(S)
  BY DEF Reachable, Sane
<1> HIDE DEF W
<1>3. Past \in Seq(W)
  BY <1>1, AlongHere
<1>4. Future \in Seq(W) /\ Len(Future) = Len(redoStack)
  BY <1>1, AlongHere
<1> QED
  BY <1>2, <1>3, <1>4

LEMMA StoreIds ==
    ASSUME NEW S, WorkspaceSound(S)
    PROVE  \A x \in ObjectsOf(store) : x.id # NoKey
<1>1. Sane(S, Ids, store)
  BY SoundStore
<1> QED
  BY <1>1, ObjectHasId

\* At the end of a drag, or where there was none, every model is whole.
LEMMA ClosesAt ==
    ASSUME NEW S, WorkspaceSound(S), GestureInv, NEW h, DragEndsAt(moves, gesture, h),
           openKey = NoKey \/ (gesture \in Gestures /\ h = gesture + 1)
    PROVE  ClosedAt(h) /\ DragsAt(moves, h)
<1>1. DragsAt(moves, gesture) /\ DragsAt(moves, h)
  BY DragsEnd DEF GestureInv
<1>2. LineAt(Past, store, Future, moves, h)
  BY <1>1, LineEnds DEF GestureInv
<1>3. AllFinished(store, moves, h)
  <2>1. CASE openKey = NoKey
    <3>1. AllFinished(store, moves, gesture)
      BY <2>1, StoreIds, ClosedIsFinished DEF GestureInv
    <3> QED
      BY <1>1, <3>1, AllFinishedEnds
  <2>2. CASE gesture \in Gestures /\ h = gesture + 1
    BY <1>1, <2>2, StoreEnds DEF GestureInv
  <2> QED
    BY <2>1, <2>2
<1> QED
  BY <1>1, <1>2, <1>3 DEF ClosedAt

LEMMA ClosedKeeps ==
    ASSUME NEW S, WorkspaceSound(S)', openKey' = NoKey, moves' = moves, DragsAt(moves, gesture'),
           LineAt(Past', store', Future', moves, gesture'), AllFinished(store', moves, gesture'),
           EditorAt(session', moves, gesture'), AskedAt(request', orphans', moves, gesture')
    PROVE  GestureInv'
<1>1. \A x \in ObjectsOf(store') : x.id # NoKey
  <2>1. Sane(S, Ids, store')
    BY SoundStoreNext
  <2> QED
    BY <2>1, ObjectHasId
<1>2. StoreAt(store', NoKey, moves, gesture')
  BY <1>1, FinishedIsClosed
<1>3. StoreAt(store', openKey', moves, gesture')
  BY <1>2
<1>4. OpenAt(store', openKey', Past', Future', session', moves, gesture')
  BY DEF OpenAt
<1> QED
  BY <1>3, <1>4 DEF GestureInv

\* What the history may do to a line whose models are whole, when the store moves little.
LEMMA LineGoes ==
    ASSUME NEW S, WorkspaceSound(S), [History!Next]_(History!vars), openKey' = NoKey,
           NEW g, ClosedAt(g), Near(store, store'), AllFinished(store', moves, g)
    PROVE  LineAt(Past', store', Future', moves, g)
<1>1. PICK V : Past \in Seq(V) /\ Future \in Seq(V)
  BY LineListed
<1>2. LineAt(Past, store, Future, moves, g) /\ AllFinished(store, moves, g)
  BY DEF ClosedAt
<1>3. CASE History!NewStep
  <2>1. Future' = << >> /\ Past' = IF Len(Past) < MaxSize THEN Append(Past, store)
                                   ELSE Append(Tail(Past), store)
    BY <1>3 DEF History!NewStep
  <2>2. ~(Len(Past) < MaxSize) => Past # << >>
    BY <1>1, StackAssumption
  <2>3. EditedTo(Past, store, Past')
    BY <2>1, <2>2 DEF EditedTo
  <2>4. LineAt(Past', store', << >>, moves, g)
    BY <1>1, <1>2, <2>3, LineEdit
  <2> QED
    BY <2>1, <2>4
<1>4. CASE History!GoOn
  BY <1>4 DEF History!GoOn
<1>5. CASE History!Undo
  <2> DEFINE less == SubSeq(Past, 1, Len(Past) - 1)
  <2>1. Past # << >> /\ store' = Past[Len(Past)] /\ Past' = less /\ Future' = Append(Future, store)
    BY <1>5 DEF History!Undo
  <2>2. less = SubSeq(Past, 1, Len(Past) - 1)
    OBVIOUS
  <2> HIDE DEF less
  <2>3. LineAt(less, store', Append(Future, store), moves, g)
    BY <1>1, <1>2, <2>1, <2>2, LineUndo
  <2> QED
    BY <2>1, <2>3
<1>6. CASE History!Redo
  <2> DEFINE less == SubSeq(Future, 1, Len(Future) - 1)
  <2>1. /\ Future # << >> /\ store' = Future[Len(Future)] /\ Future' = less
        /\ Past' = Append(Past, store)
    BY <1>6 DEF History!Redo
  <2>2. less = SubSeq(Future, 1, Len(Future) - 1)
    OBVIOUS
  <2> HIDE DEF less
  <2>3. LineAt(Append(Past, store), store', less, moves, g)
    BY <1>1, <1>2, <2>1, <2>2, LineRedo
  <2> QED
    BY <2>1, <2>3
<1>7. CASE History!Close
  BY <1>2, <1>7 DEF History!Close
<1>8. CASE History!Replace
  <2>1. Past' = << >> /\ Future' = << >> /\ Len(<< >>) = 0 /\ 1..0 = {}
    BY <1>8 DEF History!Replace
  <2> QED
    BY <2>1 DEF LineAt, StackAt, Chain
<1>9. CASE UNCHANGED History!vars
  BY <1>2, <1>9 DEF History!vars
<1> QED
  BY <1>3, <1>4, <1>5, <1>6, <1>7, <1>8, <1>9 DEF History!Next

\* Undo and redo take the store from one stack to the other.
LEMMA LineUndone ==
    ASSUME NEW S, WorkspaceSound(S), History!Undo \/ History!Redo, NEW g, ClosedAt(g)
    PROVE  LineAt(Past', store', Future', moves, g) /\ AllFinished(store', moves, g)
<1>1. PICK V : Past \in Seq(V) /\ Future \in Seq(V)
  BY LineListed
<1>2. LineAt(Past, store, Future, moves, g) /\ AllFinished(store, moves, g)
  BY DEF ClosedAt
<1>3. CASE History!Undo
  <2> DEFINE less == SubSeq(Past, 1, Len(Past) - 1)
  <2>1. Past # << >> /\ store' = Past[Len(Past)] /\ Past' = less /\ Future' = Append(Future, store)
    BY <1>3 DEF History!Undo
  <2>2. less = SubSeq(Past, 1, Len(Past) - 1)
    OBVIOUS
  <2> HIDE DEF less
  <2>3. LineAt(less, store', Append(Future, store), moves, g) /\ AllFinished(store', moves, g)
    BY <1>1, <1>2, <2>1, <2>2, LineUndo
  <2> QED
    BY <2>1, <2>3
<1>4. CASE History!Redo
  <2> DEFINE less == SubSeq(Future, 1, Len(Future) - 1)
  <2>1. /\ Future # << >> /\ store' = Future[Len(Future)] /\ Future' = less
        /\ Past' = Append(Past, store)
    BY <1>4 DEF History!Redo
  <2>2. less = SubSeq(Future, 1, Len(Future) - 1)
    OBVIOUS
  <2> HIDE DEF less
  <2>3. LineAt(Append(Past, store), store', less, moves, g) /\ AllFinished(store', moves, g)
    BY <1>1, <1>2, <2>1, <2>2, LineRedo
  <2> QED
    BY <2>1, <2>3
<1> QED
  BY <1>3, <1>4

LEMMA EditGoes ==
    ASSUME NEW S, WorkspaceSound(S), Goes(S), GestureInv, openKey' = NoKey, moves' = moves,
           DragEndsAt(moves, gesture, gesture'),
           openKey = NoKey \/ (gesture \in Gestures /\ gesture' = gesture + 1),
           Near(store, store'), AllFinished(store', moves, gesture'),
           EditorAt(session', moves, gesture'), AskedAt(request', orphans', moves, gesture')
    PROVE  GestureInv'
<1>1. ClosedAt(gesture') /\ DragsAt(moves, gesture')
  BY ClosesAt
<1>2. [History!Next]_(History!vars) /\ WorkspaceSound(S)'
  BY DEF Goes
<1>3. LineAt(Past', store', Future', moves, gesture')
  BY <1>1, <1>2, LineGoes
<1> QED
  BY <1>1, <1>2, <1>3, ClosedKeeps

LEMMA NearItself == ASSUME NEW S, NEW known, NEW m, Sane(S, known, m) PROVE Near(m, m)
<1>1. SameShapes(m, m)
  BY OneOfEach DEF SameShapes
<1> QED
  BY <1>1, SameIsNear

\* The store as it is.
LEMMA SameGoes ==
    ASSUME NEW S, WorkspaceSound(S), Goes(S), GestureInv, openKey' = NoKey, moves' = moves,
           store' = store, DragEndsAt(moves, gesture, gesture'),
           openKey = NoKey \/ (gesture \in Gestures /\ gesture' = gesture + 1),
           EditorAt(session', moves, gesture'), AskedAt(request', orphans', moves, gesture')
    PROVE  GestureInv'
<1>1. Near(store, store')
  BY SoundStore, NearItself
<1>2. ClosedAt(gesture')
  BY ClosesAt
<1>3. AllFinished(store', moves, gesture')
  BY <1>2 DEF ClosedAt
<1> QED
  BY <1>1, <1>3, EditGoes

LEMMA DragOver ==
    ASSUME DragsAt(moves, gesture)
    PROVE  /\ Dragging => gesture \in Gestures
           /\ ~Dragging => moves[gesture] = 0
           /\ DragEnds => /\ moves' = moves /\ DragEndsAt(moves, gesture, gesture')
                          /\ DragsAt(moves, gesture') /\ moves[gesture'] = 0
                          /\ Dragging => gesture' = gesture + 1
<1>1. MaxGestures \in Nat /\ moves[gesture] \in 0..2
  BY GestureAssumption DEF DragsAt
<1>2. Dragging => gesture \in Gestures
  <2>1. Dragging => gesture # MaxGestures + 1
    BY DEF Dragging, DragsAt
  <2> QED
    BY <1>1, <2>1 DEF DragsAt, Gestures
<1>3. ~Dragging => moves[gesture] = 0
  BY <1>1 DEF Dragging
<1>4. ASSUME DragEnds
      PROVE  /\ moves' = moves /\ DragEndsAt(moves, gesture, gesture')
             /\ DragsAt(moves, gesture') /\ moves[gesture'] = 0
             /\ Dragging => gesture' = gesture + 1
  <2>1. moves' = moves /\ gesture' = (IF Dragging THEN gesture + 1 ELSE gesture)
    BY <1>4 DEF DragEnds
  <2>2. CASE Dragging
    <3>1. DragsAt(moves, gesture + 1) /\ moves[gesture + 1] = 0
      BY <1>2, <2>2, NextDrag
    <3> QED
      BY <1>2, <2>1, <2>2, <3>1 DEF DragEndsAt, Dragging
  <2>3. CASE ~Dragging
    BY <1>3, <2>1, <2>3 DEF DragEndsAt
  <2> QED
    BY <2>2, <2>3
<1> QED
  BY <1>2, <1>3, <1>4

LEMMA StoredObject ==
    ASSUME NEW S, NEW known, NEW m, Sane(S, known, m), NEW list \in Lists, NEW id \in IdsIn(m[list])
    PROVE  \E x \in ObjectsOf(m) : x.id = id /\ StoredShape(m, list, id) = <<x.shape>>
<1>1. m[list] \in Seq(Things(S)) /\ EachOnce(m[list]) /\ m \in ModelsOf(S)
  BY SaneLists DEF Sane
<1>2. FirstOf(m[list], id) \in 1..Len(m[list]) /\ m[list][FirstOf(m[list], id)].id = id
  BY <1>1, FirstOfIs
<1>3. m[list][FirstOf(m[list], id)] \in ObjectsOf(m)
  BY <1>1, <1>2, ObjectIn
<1>4. StoredShape(m, list, id) = <<m[list][FirstOf(m[list], id)].shape>>
  BY StoredShapeIs
<1> QED
  BY <1>2, <1>3, <1>4

\* The editor between drags.
LEMMA NoEditor == ASSUME NEW mv, NEW g, mv[g] = 0 PROVE EditorAt(<< >>, mv, g)
  BY DEF EditorAt, Has

LEMMA ArmedEditor ==
    ASSUME NEW S, NEW m, Sane(S, Ids, m), NEW mv, NEW g, DragsAt(mv, g), mv[g] = 0,
           AllFinished(m, mv, g), NEW id
    PROVE  EditorAt(Armed(m, id), mv, g)
<1>1. CASE Armed(m, id) = << >>
  BY <1>1, NoEditor
<1>2. CASE Armed(m, id) # << >>
  <2> DEFINE list == ListOf(m, id)
             shape == StoredShape(m, list, id)
             x == [id |-> id, list |-> list, copy |-> shape[1], held |-> FALSE, stored |-> shape]
  <2>1. Armed(m, id) = <<x>> /\ Holds(m, id)
    BY <1>2 DEF Armed
  <2>2. list \in Lists /\ id \in IdsIn(m[list])
    BY <2>1 DEF Holds, ListOf, Lists
  <2>3. PICK y \in ObjectsOf(m) : shape = <<y.shape>>
    BY <2>2, StoredObject
  <2> HIDE DEF list, shape
  <2>4. Armed(m, id)[1].copy = y.shape
    BY <2>1, <2>3
  <2>5. UnderWay(y.shape, mv, g)
    BY FinishedArms DEF AllFinished
  <2> QED
    BY <2>4, <2>5 DEF EditorAt
<1> QED
  BY <1>1, <1>2

LEMMA AskedEnds ==
    ASSUME NEW mv, NEW g, NEW h, DragsAt(mv, g), DragEndsAt(mv, g, h), NEW asked, NEW late,
           AskedAt(asked, late, mv, g)
    PROVE  AskedAt(asked, late, mv, h)
  BY EndedIsWhole DEF AskedAt

\* What the editor holds is asked of the projection when the drag ends.
LEMMA HeldAsked ==
    ASSUME NEW mv, NEW g, NEW h, DragsAt(mv, g), g \in Gestures, mv[g] > 0, h = g + 1,
           NEW editor, EditorAt(editor, mv, g), NEW crs,
           NEW asked, NEW late, AskedAt(asked, late, mv, g)
    PROVE  AskedAt(<<Question(editor[1], crs)>>, late, mv, h)
<1> DEFINE q == Question(editor[1], crs)
<1>1. q.shape = editor[1].copy
  BY DEF Question
<1>2. Finished(editor[1].copy, mv, h)
  BY UnderWayEnds DEF EditorAt
<1>3. AskedAt(asked, late, mv, h)
  BY AskedEnds DEF DragEndsAt
<1> HIDE DEF q
<1>4. DOMAIN <<q>> = {1} /\ <<q>>[1] = q
  OBVIOUS
<1> QED
  BY <1>1, <1>2, <1>3, <1>4 DEF AskedAt, q

LEMMA NothingAsked ==
    ASSUME NEW mv, NEW g, NEW asked, NEW late, AskedAt(asked, late, mv, g)
    PROVE  AskedAt(<< >>, late, mv, g)
  BY DEF AskedAt

LEMMA GestureParts ==
    ASSUME GestureInv
    PROVE  /\ DragsAt(moves, gesture) /\ EditorAt(session, moves, gesture)
           /\ AskedAt(request, orphans, moves, gesture)
           /\ ~Dragging => openKey = NoKey
           /\ Dragging => Has(session)
  BY DEF GestureInv, OpenAt, EditorAt, Dragging

\* Between drags nothing is held.
LEMMA HeldDrags ==
    ASSUME NEW S, GeometryInv(S), Has(session), session[1].held
    PROVE  store.crs = "metric" /\ Dragging /\ openKey = NoKey
<1>1. Right(S, store, session[1], mapped, display, selected, Dragging)
  BY SessionIs
<1> QED
  BY <1>1, GeometryParts DEF Right, WorkspaceSound

LEMMA EndsQuietly ==
    ASSUME NEW S, GeometryInv(S), GestureInv, Ends, ~Dragging
    PROVE  Goes(S) /\ store' = store /\ request' = request /\ openKey' = NoKey
<1>1. ~(Has(session) /\ session[1].held) /\ openKey = NoKey
  BY HeldDrags, GestureParts
<1>2. request' = request /\ (Sealed \/ UNCHANGED editVars)
  BY <1>1 DEF Ends
<1>3. openKey' = NoKey
  BY <1>1, <1>2 DEF Sealed, Seal, editVars, historyVars
<1> QED
  BY <1>2, <1>3, EndsKeeps

-----------------------------------------------------------------------------
(* One gesture, one step: the steps of the page.                            *)

LEMMA SelectDraws ==
    ASSUME NEW S, GeometryInv(S), GestureInv, NEW id, Select(id) PROVE GestureInv'
<1>1. /\ ~Dragging /\ Ends /\ gesture' = gesture /\ moves' = moves /\ orphans' = orphans
      /\ session' = Armed(store, id) \/ session' = << >>
  BY DEF Select, gestureVars
<1>2. /\ DragsAt(moves, gesture) /\ moves[gesture] = 0 /\ openKey = NoKey
      /\ AskedAt(request, orphans, moves, gesture) /\ DragEndsAt(moves, gesture, gesture')
  BY <1>1, GestureParts, DragOver DEF DragEndsAt
<1>3. Goes(S) /\ store' = store /\ request' = request /\ openKey' = NoKey
  BY <1>1, EndsQuietly
<1>4. WorkspaceSound(S) /\ Sane(S, Ids, store)
  BY GeometryParts
<1>5. AllFinished(store, moves, gesture)
  BY <1>1, <1>2, <1>4, ClosesAt DEF ClosedAt
<1>6. EditorAt(session', moves, gesture')
  BY <1>1, <1>2, <1>4, <1>5, ArmedEditor, NoEditor
<1>7. AskedAt(request', orphans', moves, gesture')
  BY <1>1, <1>2, <1>3
<1> QED
  BY <1>1, <1>2, <1>3, <1>4, <1>6, <1>7, SameGoes

LEMMA DeselectDraws ==
    ASSUME NEW S, GeometryInv(S), GestureInv, Deselect PROVE GestureInv'
<1>1. /\ ~Dragging /\ Ends /\ gesture' = gesture /\ moves' = moves /\ orphans' = orphans
      /\ session' = << >>
  BY DEF Deselect, gestureVars
<1>2. /\ DragsAt(moves, gesture) /\ moves[gesture] = 0 /\ openKey = NoKey
      /\ AskedAt(request, orphans, moves, gesture) /\ DragEndsAt(moves, gesture, gesture')
  BY <1>1, GestureParts, DragOver DEF DragEndsAt
<1>3. Goes(S) /\ store' = store /\ request' = request /\ openKey' = NoKey
  BY <1>1, EndsQuietly
<1>4. WorkspaceSound(S)
  BY GeometryParts
<1>5. EditorAt(session', moves, gesture') /\ AskedAt(request', orphans', moves, gesture')
  BY <1>1, <1>2, <1>3, NoEditor
<1> QED
  BY <1>1, <1>2, <1>3, <1>4, <1>5, SameGoes

\* Where the workspace, the editor and the drags are as they were.
LEMMA PageStands ==
    ASSUME GestureInv, UNCHANGED editVars, UNCHANGED <<session, moves, gesture>>,
           AskedAt(request', orphans', moves, gesture)
    PROVE  GestureInv'
<1>1. store' = store /\ openKey' = openKey /\ Past' = Past /\ Future' = Future
  BY DEF editVars, historyVars, Past, Future
<1> QED
  BY <1>1 DEF GestureInv

LEMMA FailDraws == ASSUME GestureInv, Fail PROVE GestureInv'
<1>1. /\ request' = << >> /\ orphans' = orphans /\ UNCHANGED editVars
      /\ UNCHANGED <<session, moves, gesture>>
  BY DEF Fail, gestureVars
<1>2. AskedAt(request', orphans', moves, gesture)
  BY <1>1, GestureParts, NothingAsked
<1> QED
  BY <1>1, <1>2, PageStands

LEMMA ReturnDraws == ASSUME GestureInv, Return PROVE GestureInv'
<1>1. /\ request' = request /\ orphans' = orphans /\ UNCHANGED editVars
      /\ UNCHANGED <<session, moves, gesture>>
  BY DEF Return, gestureVars
<1> QED
  BY <1>1, GestureParts, PageStands

LEMMA LeaveDraws ==
    ASSUME NEW S, GeometryInv(S), GestureInv, Leave PROVE GestureInv'
<1>1. /\ ~Dragging /\ gesture' = gesture /\ moves' = moves /\ session' = << >> /\ request' = << >>
      /\ orphans' = orphans \cup {request[i] : i \in DOMAIN request}
      /\ Sealed \/ UNCHANGED editVars
  BY DEF Leave, gestureVars
<1>2. /\ DragsAt(moves, gesture) /\ moves[gesture] = 0 /\ openKey = NoKey
      /\ AskedAt(request, orphans, moves, gesture) /\ DragEndsAt(moves, gesture, gesture')
  BY <1>1, GestureParts, DragOver DEF DragEndsAt
<1>3. WorkspaceSound(S)
  BY GeometryParts
<1>4. Goes(S)
  BY <1>1, <1>3, SealedGoes, StandsGoes
<1>5. store' = store /\ openKey' = NoKey
  BY <1>1, <1>2 DEF Sealed, Seal, editVars, historyVars
<1>6. EditorAt(session', moves, gesture')
  BY <1>1, <1>2, NoEditor
<1>7. AskedAt(request', orphans', moves, gesture')
  BY <1>1, <1>2 DEF AskedAt
<1> QED
  BY <1>1, <1>2, <1>3, <1>4, <1>5, <1>6, <1>7, SameGoes

LEMMA DisplayedDraws ==
    ASSUME NEW S, GeometryInv(S), GestureInv, Displayed PROVE GestureInv'
<1>1. /\ display = "projecting" /\ session' = Armed(store, selected) /\ UNCHANGED editVars
      /\ gesture' = gesture /\ moves' = moves /\ request' = request /\ orphans' = orphans
  BY DEF Displayed, gestureVars
<1>2. ~Has(session)
  <2>1. "projecting" # "ready"
    OBVIOUS
  <2> QED
    BY <1>1, <2>1, SessionIs DEF Right
<1>3. /\ DragsAt(moves, gesture) /\ moves[gesture] = 0 /\ openKey = NoKey
      /\ AskedAt(request, orphans, moves, gesture) /\ DragEndsAt(moves, gesture, gesture')
  BY <1>1, <1>2, GestureParts, DragOver DEF DragEndsAt
<1>4. WorkspaceSound(S) /\ Sane(S, Ids, store)
  BY GeometryParts
<1>5. AllFinished(store, moves, gesture)
  BY <1>1, <1>3, <1>4, ClosesAt DEF ClosedAt
<1>6. EditorAt(session', moves, gesture')
  BY <1>1, <1>3, <1>4, <1>5, ArmedEditor
<1>7. Goes(S) /\ store' = store /\ openKey' = NoKey
  BY <1>1, <1>3, <1>4, StandsGoes DEF editVars, historyVars
<1> QED
  BY <1>1, <1>3, <1>4, <1>6, <1>7, SameGoes

\* The end of a drag closes its step.
LEMMA FinishDraws ==
    ASSUME NEW S, GeometryInv(S), GestureInv, Finish PROVE GestureInv'
<1> DEFINE t == [session[1] EXCEPT !.held = FALSE]
<1>1. /\ Has(session) /\ Dragging /\ Ends /\ session' = <<t>> /\ gesture' = gesture + 1
      /\ moves' = moves /\ orphans' = orphans
  BY DEF Finish
<1>2. /\ DragsAt(moves, gesture) /\ EditorAt(session, moves, gesture) /\ gesture \in Gestures
      /\ AskedAt(request, orphans, moves, gesture) /\ DragEndsAt(moves, gesture, gesture')
      /\ DragsAt(moves, gesture') /\ moves[gesture'] = 0
  BY <1>1, GestureParts, DragOver, NextDrag DEF DragEndsAt, Dragging
<1>3. WorkspaceSound(S) /\ Goes(S) /\ store' = store
  BY <1>1, GeometryParts, EndsKeeps
<1>4. t.copy = session[1].copy
  <2>1. Right(S, store, session[1], mapped, display, selected, Dragging)
    BY <1>1, SessionIs
  <2> QED
    BY <2>1 DEF Right, Sessions
<1> HIDE DEF t
<1>5. UnderWay(t.copy, moves, gesture')
  <2>1. Finished(t.copy, moves, gesture + 1)
    BY <1>1, <1>2, <1>4, UnderWayEnds DEF EditorAt
  <2> QED
    BY <1>1, <1>2, <2>1, FinishedArms
<1>6. EditorAt(session', moves, gesture')
  BY <1>1, <1>2, <1>5 DEF EditorAt, Has
<1>7. openKey' = NoKey /\ AskedAt(request', orphans', moves, gesture')
  <2>1. CASE session[1].held
    <3>1. request' = <<Question(session[1], store.crs)>> /\ UNCHANGED editVars
      BY <1>1, <2>1 DEF Ends
    <3>2. openKey' = NoKey
      BY <1>1, <2>1, <3>1, HeldDrags DEF editVars, historyVars
    <3>3. AskedAt(<<Question(session[1], store.crs)>>, orphans, moves, gesture')
      BY <1>1, <1>2, HeldAsked DEF Dragging
    <3> QED
      BY <1>1, <3>1, <3>2, <3>3
  <2>2. CASE ~session[1].held
    <3>1. request' = request /\ openKey' = NoKey
      BY <1>1, <2>2 DEF Ends, Sealed, Seal
    <3> QED
      BY <1>1, <1>2, <3>1, AskedEnds
  <2> QED
    BY <2>1, <2>2
<1> QED
  BY <1>1, <1>2, <1>3, <1>6, <1>7, SameGoes

\* What the page does of another writer's change.
LEMMA ReactsDrag ==
    ASSUME DragsAt(moves, gesture), Reacts
    PROVE  /\ moves' = moves /\ DragEndsAt(moves, gesture, gesture') /\ DragsAt(moves, gesture')
           /\ (session' = session /\ gesture' = gesture) \/ (session' # session /\ DragEnds)
<1>1. (session' = session /\ gesture' = gesture /\ moves' = moves) \/ (session' # session /\ DragEnds)
  BY DEF Reacts, gestureVars
<1>2. CASE session' = session /\ gesture' = gesture /\ moves' = moves
  BY <1>2 DEF DragEndsAt
<1>3. CASE session' # session /\ DragEnds
  BY <1>3, DragOver
<1> QED
  BY <1>1, <1>2, <1>3

LEMMA ReactsDraws ==
    ASSUME NEW S, GeometryInv(S), GestureInv, WorkspaceSound(S)', Reacts,
           orphans' \subseteq orphans, AllFinished(store', moves, gesture')
    PROVE  EditorAt(session', moves, gesture') /\ AskedAt(request', orphans', moves, gesture')
<1>1. /\ DragsAt(moves, gesture) /\ EditorAt(session, moves, gesture)
      /\ AskedAt(request, orphans, moves, gesture)
  BY GestureParts
<1>2. /\ moves' = moves /\ DragEndsAt(moves, gesture, gesture') /\ DragsAt(moves, gesture')
      /\ (session' = session /\ gesture' = gesture) \/ (session' # session /\ DragEnds)
  BY <1>1, ReactsDrag
<1>3. Sane(S, Ids, store') /\ store'.crs \in CRSs
  BY SoundStoreNext
<1>4. session' = session \/ session' = << >> \/ session' = Armed(store', selected)
  BY <1>3 DEF Reacts, CRSs
<1>5. EditorAt(session', moves, gesture')
  <2>1. CASE session' = session /\ gesture' = gesture
    BY <1>1, <2>1
  <2>2. CASE session' # session /\ DragEnds
    <3>1. moves[gesture'] = 0
      BY <1>1, <2>2, DragOver
    <3>2. CASE session' = << >>
      BY <3>1, <3>2, NoEditor
    <3>3. CASE session' = Armed(store', selected)
      BY <1>2, <1>3, <3>1, <3>3, ArmedEditor
    <3> QED
      BY <1>4, <2>2, <3>2, <3>3
  <2> QED
    BY <1>2, <2>1, <2>2
<1>6. AskedAt(request, orphans', moves, gesture')
  <2>1. AskedAt(request, orphans, moves, gesture')
    BY <1>1, <1>2, AskedEnds
  <2> QED
    BY <2>1 DEF AskedAt
<1>7. \/ request' = request \/ request' = << >>
      \/ /\ Has(session) /\ session[1].held /\ session' = << >>
         /\ request' = <<Question(session[1], store.crs)>>
  BY <1>3 DEF Reacts, CRSs
<1>8. AskedAt(request', orphans', moves, gesture')
  <2>1. CASE request' = request
    BY <1>6, <2>1
  <2>2. CASE request' = << >>
    BY <1>6, <2>2, NothingAsked
  <2>3. CASE /\ Has(session) /\ session[1].held /\ session' = << >>
             /\ request' = <<Question(session[1], store.crs)>>
    <3>1. Dragging
      BY <2>3, HeldDrags
    <3>2. gesture \in Gestures /\ gesture' = gesture + 1
      BY <1>1, <1>2, <2>3, <3>1, DragOver DEF Has
    <3>3. AskedAt(<<Question(session[1], store.crs)>>, orphans, moves, gesture')
      BY <1>1, <3>1, <3>2, HeldAsked DEF Dragging
    <3> QED
      BY <2>3, <3>3 DEF AskedAt
  <2> QED
    BY <1>7, <2>1, <2>2, <2>3
<1> QED
  BY <1>5, <1>8

\* Undo in the middle of a drag whose step is open ends it: what is stored is then without
\* the drag, and the editor's copy is not.
LEMMA OpenUndone ==
    ASSUME NEW S, GeometryInv(S), GestureInv, StepHistory, openKey # NoKey
    PROVE  gesture \in Gestures /\ gesture' = gesture + 1
<1> DEFINE s == session[1]
           id == openKey
           W == Reachable(S, Uniform(S), Known)
<1>1. /\ Has(session) /\ moves[gesture] > 0 /\ s.id = id /\ FoundIn(store, s.list, id)
      /\ Future = << >> /\ Dragging
  BY DEF GestureInv, OpenAt, Dragging
<1>2. /\ mapped /\ mapped' = mapped /\ selected' = selected /\ orphans' = orphans
      /\ Undo \/ Redo
      /\ Reacts
  BY DEF StepHistory
<1>3. WorkspaceSound(S) /\ HistoryInv(S, Uniform(S)) /\ Sane(S, Ids, store) /\ store.crs = "lonlat"
  BY GeometryParts, SoundStore DEF WorkspaceSound
<1>4. Undo /\ History!Undo
  <2>1. ~Redo
    BY <1>1, <1>3, RedoStep DEF History!Redo
  <2> QED
    BY <1>2, <1>3, <2>1, UndoStep
<1>5. WorkspaceSound(S)'
  BY <1>3, <1>4, UndoGoes DEF Goes
<1>6. Past # << >> /\ store' = Past[Len(Past)]
  BY <1>4 DEF History!Undo
<1>7. /\ DragsAt(moves, gesture) /\ EditorAt(session, moves, gesture) /\ gesture \in Gestures
      /\ LineAt(Past, store, Future, moves, gesture)
  BY <1>1, DragOver DEF GestureInv
<1>8. AllFinished(store', moves, gesture)
  <2>1. PICK V : Past \in Seq(V)
    BY <1>3, LineListed
  <2>2. Len(Past) \in 1..Len(Past)
    BY <1>6, <2>1
  <2> QED
    BY <1>6, <1>7, <2>2 DEF LineAt, StackAt
<1>9. Right(S, store, s, mapped, display, selected, Dragging)
  BY <1>1, SessionIs
<1>10. HistoryAt(S, W, store, undoStack, redoStack, openKey, Past, Future)
  BY <1>3 DEF HistoryInv
<1>11. PICK list \in Lists : FoundIn(store, list, id) /\ PutsOne(S, Latest(undoStack), list, id)
  BY <1>10 DEF HistoryAt, Open
<1> HIDE DEF s, W
<1>12. s.list \in Lists /\ s.list = list
  <2>1. s.list \in Lists
    BY <1>9 DEF Right, Sessions
  <2> QED
    BY <1>1, <1>11, <2>1 DEF FoundIn, Lists
<1>13. PICK y \in Things(S) : y.id = id /\ Latest(undoStack).undo = PutPatch(list, y)
  BY <1>11 DEF PutsOne
<1>14. store' = Apply(PutPatch(list, y), store)
  BY <1>4, <1>13 DEF Undo
<1>15. Sane(S, Ids, store') /\ store \in ModelsOf(S) /\ id \in IdsIn(store[list])
  BY <1>3, <1>5, <1>11, SoundStoreNext DEF Sane, FoundIn
<1>16. StoredShape(store', list, id) = <<y.shape>> /\ y \in ObjectsOf(store')
  <2>1. StoredShape(store', list, id) = <<y.shape>>
    BY <1>13, <1>14, <1>15, PutStored
  <2>2. y \in ObjectsOf(store')
    BY <1>3, <1>13, <1>14, <1>15, PutObjects
  <2> QED
    BY <2>1, <2>2
<1>17. store'.crs = "lonlat"
  BY <1>3, <1>14, <1>15, PutLeavesCRS
<1>18. y.shape # s.copy
  <2>1. Token(gesture, 1) \notin y.shape
    <3>1. gesture >= gesture
      BY <1>7, GestureAssumption DEF Gestures
    <3>2. NoneFrom(y.shape, gesture)
      BY <1>8, <1>16 DEF AllFinished, Finished
    <3> QED
      BY <1>7, <3>1, <3>2 DEF NoneFrom
  <2>2. Token(gesture, 1) \in s.copy
    <3>1. moves[gesture] \in 0..2
      BY <1>7 DEF DragsAt
    <3>2. 1 \in 1..moves[gesture]
      BY <1>1, <3>1
    <3>3. MovesBy(moves, gesture) \subseteq s.copy
      BY <1>1, <1>7 DEF EditorAt, UnderWay, s
    <3> QED
      BY <3>2, <3>3 DEF MovesBy
  <2> QED
    BY <2>1, <2>2
<1>19. session' # session
  <2> SUFFICES ASSUME session' = session PROVE FALSE
    OBVIOUS
  <2>1. SessionRight(S)'
    BY <1>2, <1>5, ReactsKeeps
  <2>2. PICK x : session' = <<x>> /\ Right(S, store', x, mapped', display', selected', Dragging')
    BY <1>1, <2>1 DEF SessionRight
  <2>3. x = s
    BY <2>2 DEF s
  <2>4. StoredShape(store', s.list, s.id) \in {<< >>, s.stored} /\ s.stored \in {<< >>, <<s.copy>>}
    BY <1>17, <2>2, <2>3 DEF Right
  <2>5. <<y.shape>> \in {<< >>, <<s.copy>>}
    BY <1>1, <1>12, <1>16, <2>4
  <2> QED
    BY <1>18, <2>5
<1> QED
  BY <1>1, <1>2, <1>7, <1>19, ReactsDrag, DragOver

LEMMA StepHistoryDraws ==
    ASSUME NEW S, GeometryInv(S), GestureInv, StepHistory PROVE GestureInv'
<1>1. /\ mapped /\ mapped' = mapped /\ selected' = selected /\ orphans' = orphans
      /\ Undo \/ Redo
      /\ Reacts /\ openKey' = NoKey
  BY DEF StepHistory, Undo, Redo, Seal
<1>2. WorkspaceSound(S) /\ HistoryInv(S, Uniform(S)) /\ DragsAt(moves, gesture)
  BY GeometryParts, SoundStore, GestureParts
<1>3. Goes(S) /\ WorkspaceSound(S)' /\ (History!Undo \/ History!Redo)
  <2>1. Goes(S)
    BY <1>1, <1>2, UndoGoes, RedoGoes
  <2>2. History!Undo \/ History!Redo
    BY <1>1, <1>2, UndoStep, RedoStep
  <2> QED
    BY <2>1, <2>2 DEF Goes
<1>4. moves' = moves /\ DragEndsAt(moves, gesture, gesture') /\ DragsAt(moves, gesture')
  BY <1>1, <1>2, ReactsDrag
<1>5. ClosedAt(gesture')
  BY <1>2, <1>4, OpenUndone, ClosesAt
<1>6. LineAt(Past', store', Future', moves, gesture') /\ AllFinished(store', moves, gesture')
  BY <1>2, <1>3, <1>5, LineUndone
<1>7. EditorAt(session', moves, gesture') /\ AskedAt(request', orphans', moves, gesture')
  BY <1>1, <1>3, <1>6, ReactsDraws
<1> QED
  BY <1>1, <1>3, <1>4, <1>6, <1>7, ClosedKeeps

\* A model that draws nothing but what another does.
Drawn(m, w) == \A y \in ObjectsOf(w) : \E x \in ObjectsOf(m) : x.id = y.id /\ x.shape = y.shape

LEMMA DrawnIs ==
    ASSUME NEW S, NEW known, NEW m, Sane(S, known, m), NEW w, Drawn(m, w)
    PROVE  Near(m, w) /\ \A mv, g : AllFinished(m, mv, g) => AllFinished(w, mv, g)
<1>1. SameShapes(m, w)
  <2>1. ASSUME NEW x \in ObjectsOf(m), NEW y \in ObjectsOf(w), x.id = y.id PROVE x.shape = y.shape
    <3>1. PICK z \in ObjectsOf(m) : z.id = y.id /\ z.shape = y.shape
      BY DEF Drawn
    <3>2. x = z
      BY <2>1, <3>1, OneOfEach
    <3> QED
      BY <3>1, <3>2
  <2> QED
    BY <2>1 DEF SameShapes
<1>2. Near(m, w)
  BY <1>1, SameIsNear
<1>3. ASSUME NEW mv, NEW g, AllFinished(m, mv, g), NEW y \in ObjectsOf(w)
      PROVE  Finished(y.shape, mv, g)
  BY <1>3 DEF Drawn, AllFinished
<1> QED
  BY <1>2, <1>3 DEF AllFinished

LEMMA UpdateDrawn ==
    ASSUME NEW S, WorkspaceSound(S), NEW list \in Lists, NEW id, NEW props \in Props,
           Update(list, id, props)
    PROVE  Drawn(store, store')
<1> DEFINE h == Held(list, id)
           x == [h EXCEPT !.props = props]
           c == PutCommand(list, x, NoKey)
<1>1. Found(list, id) /\ store' = Apply(c.redo, store)
  BY DEF Update, Execute, Executed
<1>2. Sane(S, Ids, store) /\ store \in ModelsOf(S) /\ Known = Ids /\ Goes(S)
  <2>1. Sane(S, Ids, store) /\ Known = Ids
    BY SoundStore DEF WorkspaceSound, Known
  <2>2. store \in ModelsOf(S)
    BY <2>1 DEF Sane
  <2>3. Goes(S)
    BY UpdateGoes
  <2> QED
    BY <2>1, <2>2, <2>3
<1>3. h \in Things(S) /\ h.id = id /\ h \in ObjectsOf(store)
  <2>1. h \in Things(S) /\ h.id = id
    BY <1>1, <1>2, HeldIs
  <2>2. store[list] \in Seq(Things(S)) /\ EachOnce(store[list]) /\ id \in IdsIn(store[list])
    BY <1>1, <1>2, SaneLists DEF Found
  <2>3. FirstOf(store[list], id) \in 1..Len(store[list])
    BY <2>2, FirstOfIs
  <2> QED
    BY <1>2, <2>1, <2>3, ObjectIn DEF Held
<1> HIDE DEF h
<1>4. x \in Things(S) /\ x.id = id /\ x.shape = h.shape
  BY <1>3 DEF Things
<1> HIDE DEF x
<1>5. c.redo = PutPatch(list, x)
  BY DEF PutCommand, Command, PutPatch
<1> HIDE DEF c
<1>6. store' = Apply(PutPatch(list, x), store) /\ x.id \in IdsIn(store[list]) /\ Sane(S, Ids, store')
  BY <1>1, <1>2, <1>4, <1>5, SoundStoreNext DEF Goes, Found
<1>7. \A y \in ObjectsOf(store') : IF y.id = x.id THEN y = x ELSE y \in ObjectsOf(store)
  BY <1>2, <1>4, <1>6, PutObjects
<1> QED
  BY <1>3, <1>4, <1>7 DEF Drawn

LEMMA RemoveDrawn ==
    ASSUME NEW S, WorkspaceSound(S), NEW list \in Lists, NEW id, Remove(list, id)
    PROVE  Drawn(store, store')
<1> DEFINE at == FirstOf(store[list], id)
           c == Command(DropPatch(list, id), SplicePatch(list, at, store[list][at]), NoKey)
<1>1. store' = Apply(c.redo, store)
  BY DEF Remove, Execute, Executed, DropPatch, SplicePatch
<1> HIDE DEF at
<1>2. c.redo = DropPatch(list, id)
  BY DEF Command
<1> HIDE DEF c
<1>3. Sane(S, Ids, store) /\ Goes(S)
  BY SoundStore, RemoveGoes
<1>4. store' \in ModelsOf(S)
  BY <1>3, SoundStoreNext DEF Goes, Sane
<1>5. ObjectsOf(store') \subseteq ObjectsOf(store)
  BY <1>1, <1>2, <1>3, <1>4, DropObjects
<1> QED
  BY <1>5 DEF Drawn

LEMMA EditSelectedDraws ==
    ASSUME NEW S, GeometryInv(S), GestureInv, EditSelected PROVE GestureInv'
<1> DEFINE list == ListOf(store, selected)
<1>1. /\ ~Dragging /\ orphans' = orphans
      /\ \/ \E p \in Props : Update(list, selected, p) /\ Reacts
         \/ /\ Remove(list, selected) /\ session' = << >> /\ request' = request
            /\ moves' = moves /\ gesture' = gesture
  BY DEF EditSelected, gestureVars
<1>2. /\ DragsAt(moves, gesture) /\ moves[gesture] = 0 /\ openKey = NoKey
      /\ AskedAt(request, orphans, moves, gesture)
  BY <1>1, GestureParts, DragOver
<1>3. WorkspaceSound(S) /\ Sane(S, Ids, store) /\ list \in Lists
  BY GeometryParts DEF ListOf, Lists
<1> HIDE DEF list
<1>4. ASSUME NEW p \in Props, Update(list, selected, p), Reacts PROVE GestureInv'
  <2>1. Goes(S) /\ Drawn(store, store') /\ openKey' = NoKey
    <3>1. openKey' = NoKey
      BY <1>4 DEF Update, Execute, PutCommand, Command
    <3> QED
      BY <1>3, <1>4, <3>1, UpdateGoes, UpdateDrawn
  <2>2. moves' = moves /\ DragEndsAt(moves, gesture, gesture')
    BY <1>2, <1>4, ReactsDrag
  <2>3. ClosedAt(gesture')
    BY <1>2, <1>3, <2>2, ClosesAt
  <2>4. Near(store, store') /\ AllFinished(store', moves, gesture')
    BY <1>3, <2>1, <2>3, DrawnIs DEF ClosedAt
  <2>5. EditorAt(session', moves, gesture') /\ AskedAt(request', orphans', moves, gesture')
    BY <1>1, <1>4, <2>1, <2>4, ReactsDraws DEF Goes
  <2> QED
    BY <1>2, <1>3, <2>1, <2>2, <2>4, <2>5, EditGoes
<1>5. ASSUME Remove(list, selected), session' = << >>, request' = request,
             moves' = moves, gesture' = gesture
      PROVE  GestureInv'
  <2>1. Goes(S) /\ Drawn(store, store') /\ openKey' = NoKey
    <3>1. openKey' = NoKey
      BY <1>5 DEF Remove, Execute, Command
    <3> QED
      BY <1>3, <1>5, <3>1, RemoveGoes, RemoveDrawn
  <2>2. DragEndsAt(moves, gesture, gesture')
    BY <1>5 DEF DragEndsAt
  <2>3. ClosedAt(gesture')
    BY <1>2, <1>3, <2>2, ClosesAt
  <2>4. Near(store, store') /\ AllFinished(store', moves, gesture')
    BY <1>3, <2>1, <2>3, DrawnIs DEF ClosedAt
  <2>5. EditorAt(session', moves, gesture') /\ AskedAt(request', orphans', moves, gesture')
    BY <1>1, <1>2, <1>5, NoEditor
  <2> QED
    BY <1>2, <1>3, <1>5, <2>1, <2>2, <2>4, <2>5, EditGoes
<1> QED
  BY <1>1, <1>4, <1>5

\* What lands is whole, and lands where no step is open.
LEMMA LandsDraws ==
    ASSUME NEW S, WorkspaceSound(S), NEW q \in Requests(S), store.crs = q.crs, Lands(q),
           NEW mv, NEW g, AllFinished(store, mv, g), Finished(q.shape, mv, g)
    PROVE  /\ openKey = NoKey /\ openKey' = NoKey /\ Goes(S)
           /\ Near(store, store') /\ AllFinished(store', mv, g)
<1>1. /\ q.list \in Lists /\ q.shape \in S /\ q.crs = "metric" /\ Goes(S)
      /\ Sane(S, Ids, store)
  BY SoundStore, LandsGoes DEF Requests
<1>2. openKey = NoKey /\ openKey' = NoKey /\ Near(store, store')
  BY <1>1, MetricIsNear DEF WorkspaceSound, Lands, Seal, Sealed
<1>3. CASE Found(q.list, q.id)
  <2>1. Executed(ReshapeCommand(q.list, q.id, q.shape, store.crs))
    BY <1>3 DEF Lands
  <2>2. PICK x \in Things(S) : /\ x.id = q.id /\ x.shape = q.shape
                               /\ store' = Apply(PutPatch(q.list, x), store)
    BY <1>1, <1>3, <2>1, ReshapedIs
  <2>3. x.id \in IdsIn(store[q.list]) /\ Sane(S, Ids, store')
    BY <1>1, <1>3, <2>2, SoundStoreNext DEF Found, Goes
  <2>4. \A y \in ObjectsOf(store') : IF y.id = x.id THEN y = x ELSE y \in ObjectsOf(store)
    BY <1>1, <2>2, <2>3, PutObjects
  <2>5. AllFinished(store', mv, g)
    BY <2>2, <2>4 DEF AllFinished
  <2> QED
    BY <1>1, <1>2, <2>5
<1>4. CASE ~Found(q.list, q.id)
  <2>1. store' = store
    BY <1>4 DEF Lands, Sealed
  <2> QED
    BY <1>1, <1>2, <2>1
<1> QED
  BY <1>3, <1>4

LEMMA DeliverDraws ==
    ASSUME NEW S, GeometryInv(S), GestureInv, NEW q, Deliver(q) PROVE GestureInv'
<1>1. /\ request = <<q>> /\ orphans' = orphans
      /\ IF store.crs = q.crs THEN Lands(q) ELSE UNCHANGED editVars
  BY DEF Deliver
<1>2. /\ DragsAt(moves, gesture) /\ EditorAt(session, moves, gesture)
      /\ AskedAt(request, orphans, moves, gesture) /\ WorkspaceSound(S)
  BY GestureParts, GeometryParts
<1>3. q \in Requests(S) /\ Finished(q.shape, moves, gesture)
  <2>1. q \in Requests(S)
    BY <1>1, GeometryParts DEF OneOf
  <2>2. DOMAIN request = {1} /\ request[1] = q
    BY <1>1
  <2> QED
    BY <1>2, <2>1, <2>2 DEF AskedAt
<1>4. CASE store' = store
  <2>1. request' = << >> /\ session' = session /\ moves' = moves /\ gesture' = gesture
    BY <1>4 DEF Deliver, gestureVars
  <2>2. AskedAt(request', orphans', moves, gesture)
    BY <1>1, <1>2, <2>1, NothingAsked
  <2>3. CASE store.crs = q.crs
    <3>1. Lands(q) /\ DragEndsAt(moves, gesture, gesture) /\ q.crs = "metric"
      BY <1>1, <1>3, <2>3 DEF DragEndsAt, Requests
    <3>2. openKey = NoKey
      BY <1>2, <2>3, <3>1 DEF WorkspaceSound
    <3>3. AllFinished(store, moves, gesture)
      BY <1>2, <3>1, <3>2, ClosesAt DEF ClosedAt
    <3>4. openKey' = NoKey /\ Goes(S)
      BY <1>2, <1>3, <2>3, <3>1, <3>3, LandsDraws
    <3> QED
      BY <1>2, <1>4, <2>1, <2>2, <3>1, <3>2, <3>4, SameGoes
  <2>4. CASE store.crs # q.crs
    BY <1>1, <2>1, <2>2, <2>4, PageStands
  <2> QED
    BY <2>3, <2>4
<1>5. CASE store' # store
  <2>1. /\ session' = << >> /\ DragEnds
        /\ request' = (IF Has(session) /\ session[1].held
                       THEN <<Question(session[1], store.crs)>> ELSE << >>)
    BY <1>5 DEF Deliver
  <2>2. store.crs = q.crs /\ Lands(q) /\ q.crs = "metric"
    BY <1>1, <1>3, <1>5 DEF editVars, Requests
  <2>3. openKey = NoKey
    BY <1>2, <2>2 DEF WorkspaceSound
  <2>4. /\ moves' = moves /\ DragEndsAt(moves, gesture, gesture') /\ moves[gesture'] = 0
        /\ Dragging => gesture \in Gestures /\ gesture' = gesture + 1
    BY <1>2, <2>1, DragOver
  <2>5. AllFinished(store, moves, gesture') /\ Finished(q.shape, moves, gesture')
    BY <1>2, <1>3, <2>3, <2>4, ClosesAt, EndedIsWhole DEF ClosedAt
  <2>6. openKey' = NoKey /\ Goes(S) /\ Near(store, store') /\ AllFinished(store', moves, gesture')
    BY <1>2, <1>3, <2>2, <2>5, LandsDraws
  <2>7. EditorAt(session', moves, gesture')
    BY <2>1, <2>4, NoEditor
  <2>8. AskedAt(request', orphans', moves, gesture')
    <3>1. CASE Has(session) /\ session[1].held
      <4>1. Dragging
        BY <3>1, HeldDrags
      <4>2. AskedAt(<<Question(session[1], store.crs)>>, orphans, moves, gesture')
        BY <1>2, <2>4, <4>1, HeldAsked DEF Dragging
      <4> QED
        BY <1>1, <2>1, <3>1, <4>2
    <3>2. CASE ~(Has(session) /\ session[1].held)
      BY <1>1, <1>2, <2>1, <2>4, <3>2, AskedEnds, NothingAsked
    <3> QED
      BY <3>1, <3>2
  <2> QED
    BY <1>2, <2>3, <2>4, <2>6, <2>7, <2>8, EditGoes
<1> QED
  BY <1>4, <1>5

LEMMA DeliverLateDraws ==
    ASSUME NEW S, GeometryInv(S), GestureInv, NEW q \in orphans, DeliverLate(q) PROVE GestureInv'
<1>1. /\ orphans' = orphans \ {q}
      /\ IF store.crs = q.crs THEN Lands(q) ELSE UNCHANGED editVars
      /\ IF mapped /\ store' # store THEN Reacts
         ELSE UNCHANGED <<session, display, request, gestureVars>>
  BY DEF DeliverLate
<1>2. /\ DragsAt(moves, gesture) /\ EditorAt(session, moves, gesture)
      /\ AskedAt(request, orphans, moves, gesture) /\ WorkspaceSound(S)
  BY GestureParts, GeometryParts
<1>3. /\ q \in Requests(S) /\ Finished(q.shape, moves, gesture)
      /\ AskedAt(request, orphans', moves, gesture)
  <2>1. q \in Requests(S)
    BY GeometryParts
  <2> QED
    BY <1>1, <1>2, <2>1 DEF AskedAt
<1>4. CASE store.crs # q.crs
  <2>1. UNCHANGED editVars /\ store' = store
    BY <1>1, <1>4 DEF editVars
  <2>2. session' = session /\ request' = request /\ moves' = moves /\ gesture' = gesture
    BY <1>1, <2>1 DEF gestureVars
  <2> QED
    BY <1>3, <2>1, <2>2, PageStands
<1>5. CASE store.crs = q.crs
  <2>1. Lands(q) /\ q.crs = "metric"
    BY <1>1, <1>3, <1>5 DEF Requests
  <2>2. openKey = NoKey
    BY <1>2, <1>5, <2>1 DEF WorkspaceSound
  <2>3. moves' = moves /\ DragEndsAt(moves, gesture, gesture')
    <3>1. CASE Reacts
      BY <1>2, <3>1, ReactsDrag
    <3>2. CASE UNCHANGED gestureVars
      BY <3>2 DEF gestureVars, DragEndsAt
    <3> QED
      BY <1>1, <3>1, <3>2
  <2>4. AllFinished(store, moves, gesture') /\ Finished(q.shape, moves, gesture')
    BY <1>2, <1>3, <2>2, <2>3, ClosesAt, EndedIsWhole DEF ClosedAt
  <2>5. openKey' = NoKey /\ Goes(S) /\ Near(store, store') /\ AllFinished(store', moves, gesture')
    BY <1>2, <1>3, <1>5, <2>1, <2>4, LandsDraws
  <2>6. EditorAt(session', moves, gesture') /\ AskedAt(request', orphans', moves, gesture')
    <3>1. CASE Reacts
      BY <1>1, <2>5, <3>1, ReactsDraws DEF Goes
    <3>2. CASE UNCHANGED <<session, display, request, gestureVars>>
      BY <1>2, <1>3, <3>2 DEF gestureVars
    <3> QED
      BY <1>1, <3>1, <3>2
  <2> QED
    BY <1>2, <2>2, <2>3, <2>5, <2>6, EditGoes
<1> QED
  BY <1>4, <1>5

\* What a file draws is whole in every state of the drags.
LEMMA FilesFinished ==
    ASSUME NEW S, FilesRight(S), FilesDrawNoMoves, NEW f \in Files, NEW mv, NEW g, DragsAt(mv, g)
    PROVE  AllFinished(f, mv, g)
<1>1. f \in ModelsOf(S)
  BY DEF FilesRight, Brings
<1>2. ASSUME NEW x \in ObjectsOf(f) PROVE Finished(x.shape, mv, g)
  <2>1. PICK list, i : list \in Lists /\ i \in 1..Len(f[list]) /\ x = f[list][i]
    BY <1>1, ObjectIs
  <2>2. DOMAIN f[list] = 1..Len(f[list])
    BY <1>1, <2>1, ModelLists
  <2>3. x.shape \cap {Token(h, k) : h \in Gestures, k \in 1..2} = {}
    BY <2>1, <2>2 DEF FilesDrawNoMoves
  <2> QED
    BY <2>3, UndrawnIsFinished
<1> QED
  BY <1>2 DEF AllFinished

LEMMA MergeDraws ==
    ASSUME NEW S, WorkspaceSound(S), NEW f, Brings(S, Ids, f), Merge(f), Goes(S),
           NEW mv, NEW g, AllFinished(f, mv, g), AllFinished(store, mv, g)
    PROVE  openKey' = NoKey /\ Near(store, store') /\ AllFinished(store', mv, g)
<1> DEFINE plan == PlanMerge(store, f)
           ids == IdsIn(plan.features) \cup IdsIn(plan.receivers)
           c == Command(LandPatch({}, plan), UnlandPatch(store.area, store.crs, ids), NoKey)
<1>1. Sane(S, Ids, store)
  BY SoundStore
<1>2. store' = Apply(c.redo, store) /\ openKey' = c.key
  BY DEF Merge, Execute, Executed, LandPatch, UnlandPatch
<1>3. c.redo = LandPatch({}, plan) /\ c.key = NoKey
  BY DEF Command
<1>4. plan = PlanMerge(store, f)
  OBVIOUS
<1> HIDE DEF c, plan
<1>5. store' \in ModelsOf(S)
  BY SoundStoreNext DEF Goes, Sane
<1>6. \A y \in ObjectsOf(store') : \/ y \in ObjectsOf(store)
                                   \/ y \in ObjectsOf(f) /\ \A x \in ObjectsOf(store) : x.id # y.id
  BY <1>1, <1>2, <1>3, <1>4, <1>5, LandObjects
<1>7. SameShapes(store, store')
  BY <1>1, <1>6, OneOfEach DEF SameShapes
<1>8. AllFinished(store', mv, g)
  BY <1>6 DEF AllFinished
<1> QED
  BY <1>2, <1>3, <1>7, <1>8, SameIsNear

LEMMA ImportDraws ==
    ASSUME NEW S, GeometryInv(S), FilesRight(S), FilesDrawNoMoves, GestureInv,
           NEW f \in Files, Import(f)
    PROVE  GestureInv'
<1>1. /\ ~mapped /\ session' = session /\ request' = request /\ orphans' = orphans
      /\ moves' = moves /\ gesture' = gesture
      /\ Load(f) \/ Merge(f)
  BY DEF Import, pageVars
<1>2. /\ DragsAt(moves, gesture) /\ EditorAt(session, moves, gesture)
      /\ AskedAt(request, orphans, moves, gesture) /\ WorkspaceSound(S)
      /\ DragEndsAt(moves, gesture, gesture)
  BY GestureParts, GeometryParts DEF DragEndsAt
<1>3. Brings(S, Ids, f) /\ Filed(f) /\ OneObjectPerId(f)
  BY DEF FilesRight
<1>4. openKey = NoKey
  <2>1. ~Has(session)
    BY <1>1, SessionIs DEF Right
  <2> QED
    BY <2>1, GestureParts
<1>5. AllFinished(f, moves, gesture) /\ AllFinished(store, moves, gesture)
  <2>1. AllFinished(f, moves, gesture)
    BY <1>2, FilesFinished
  <2>2. AllFinished(store, moves, gesture)
    BY <1>2, <1>4, ClosesAt DEF ClosedAt
  <2> QED
    BY <2>1, <2>2
<1>6. CASE Load(f)
  <2>1. store' = f /\ Clear /\ openKey' = NoKey
    BY <1>6 DEF Load, Clear, Seal
  <2>2. WorkspaceSound(S)'
    BY <1>2, <1>3, <1>6, LoadGoes DEF Goes
  <2>3. Past' = << >> /\ Future' = << >>
    <3>1. HistoryInv(S, Uniform(S))'
      BY <2>2 DEF WorkspaceSound, EditInv
    <3>2. f \in Reachable(S, Uniform(S), Known')
      BY <2>1, <3>1, <2>2, SoundStoreNext DEF Reachable, Uniform, WorkspaceSound, Known, Sane
    <3>3. History!Replace
      BY <2>1, <3>2, ClearStep
    <3> QED
      BY <3>3 DEF History!Replace
  <2>4. LineAt(Past', store', Future', moves, gesture)
    <3>1. Len(<< >>) = 0 /\ 1..0 = {}
      OBVIOUS
    <3> QED
      BY <2>3, <3>1 DEF LineAt, StackAt, Chain
  <2> QED
    BY <1>1, <1>2, <1>5, <2>1, <2>2, <2>4, ClosedKeeps
<1>7. CASE Merge(f)
  <2>1. Goes(S)
    BY <1>2, <1>3, <1>7, MergeGoes
  <2>2. openKey' = NoKey /\ Near(store, store') /\ AllFinished(store', moves, gesture)
    BY <1>2, <1>3, <1>5, <1>7, <2>1, MergeDraws
  <2> QED
    BY <1>1, <1>2, <1>4, <2>1, <2>2, EditGoes
<1> QED
  BY <1>1, <1>6, <1>7

\* A move of the drag: what is whole stays so, and the copy has it.
LEMMA AskedStays ==
    ASSUME NEW mv, NEW g, DragsAt(mv, g), g \in Gestures, mv[g] < 2, NEW asked, NEW late,
           AskedAt(asked, late, mv, g)
    PROVE  AskedAt(asked, late, Moved(mv, g), g)
  BY FinishedStays DEF AskedAt

LEMMA CopyMoves ==
    ASSUME NEW mv, NEW g, DragsAt(mv, g), g \in Gestures, mv[g] < 2, NEW editor, Has(editor),
           EditorAt(editor, mv, g), NEW t, t.copy = editor[1].copy \cup {Token(g, Moved(mv, g)[g])}
    PROVE  EditorAt(<<t>>, Moved(mv, g), g) /\ UnderWay(t.copy, Moved(mv, g), g)
<1>1. UnderWay(t.copy, Moved(mv, g), g)
  BY UnderWayMoves DEF EditorAt
<1>2. <<t>> # << >> /\ <<t>>[1] = t
  OBVIOUS
<1> QED
  BY <1>1, <1>2 DEF EditorAt, Has

\* An object drawn on by a move of drag g.
LEMMA WithinGrows ==
    ASSUME NEW m, NEW n, NEW g, Within(m, n, g), NEW h \in ObjectsOf(n), NEW token, token.g = g,
           NEW x, x.id = h.id, x.shape = h.shape \cup {token},
           NEW w, \A y \in ObjectsOf(w) : IF y.id = x.id THEN y = x ELSE y \in ObjectsOf(n)
    PROVE  Within(m, w, g)
<1>1. ASSUME NEW a \in ObjectsOf(m), NEW y \in ObjectsOf(w), a.id = y.id,
             NEW t \in Differ(a.shape, y.shape)
      PROVE  t.g = g
  <2>1. CASE y.id = x.id
    <3>1. y = x /\ a.id = h.id
      BY <1>1, <2>1
    <3>2. t \in Differ(a.shape, h.shape) \/ t = token
      BY <1>1, <3>1 DEF Differ
    <3> QED
      BY <3>1, <3>2 DEF Within
  <2>2. CASE y.id # x.id
    <3>1. y \in ObjectsOf(n)
      BY <2>2
    <3> QED
      BY <1>1, <3>1 DEF Within
  <2> QED
    BY <2>1, <2>2
<1> QED
  BY <1>1 DEF Within

LEMMA WithinItself ==
    ASSUME NEW S, NEW known, NEW m, Sane(S, known, m), NEW g PROVE Within(m, m, g)
<1>1. ASSUME NEW x \in ObjectsOf(m), NEW y \in ObjectsOf(m), x.id = y.id PROVE Differ(x.shape, y.shape) = {}
  BY <1>1, OneOfEach DEF Differ
<1> QED
  BY <1>1 DEF Within

\* A move that is not written, over a metric model or of an object that is gone.
LEMMA HoldDraws ==
    ASSUME NEW S, GeometryInv(S), GestureInv, Has(session), gesture \in Gestures, moves[gesture] < 2,
           moves' = Moved(moves, gesture), gesture' = gesture, NEW t, session' = <<t>>,
           t.copy = session[1].copy \cup {Token(gesture, Moved(moves, gesture)[gesture])},
           UNCHANGED editVars, request' = request, orphans' = orphans, openKey = NoKey
    PROVE  GestureInv'
<1>1. store' = store /\ openKey' = openKey /\ Past' = Past /\ Future' = Future
  BY DEF editVars, historyVars, Past, Future
<1>2. /\ DragsAt(moves, gesture) /\ EditorAt(session, moves, gesture)
      /\ AskedAt(request, orphans, moves, gesture)
      /\ LineAt(Past, store, Future, moves, gesture) /\ StoreAt(store, openKey, moves, gesture)
  BY DEF GestureInv
<1>3. DragsAt(Moved(moves, gesture), gesture)
  BY <1>2, MovedIs
<1>4. LineAt(Past, store, Future, Moved(moves, gesture), gesture)
  BY <1>2, LineStays
<1>5. StoreAt(store, NoKey, Moved(moves, gesture), gesture)
  <2>1. \A x \in ObjectsOf(store) : x.id # NoKey
    BY StoreIds, GeometryParts
  <2> QED
    BY <1>2, <2>1, FinishedStays DEF StoreAt
<1>6. EditorAt(<<t>>, Moved(moves, gesture), gesture)
  BY <1>2, CopyMoves
<1>7. AskedAt(request, orphans, Moved(moves, gesture), gesture)
  BY <1>2, AskedStays
<1>8. OpenAt(store, NoKey, Past, Future, session', Moved(moves, gesture), gesture)
  BY DEF OpenAt
<1> QED
  BY <1>1, <1>3, <1>4, <1>5, <1>6, <1>7, <1>8 DEF GestureInv

\* What a move that is written makes of the store.
Redrawn(m, w, id, copy, token) ==
    \E h \in ObjectsOf(m), x \in ObjectsOf(w) :
       /\ h.id = id /\ x.id = id /\ x.shape = copy /\ x.shape = h.shape \cup {token}
       /\ \A y \in ObjectsOf(w) : IF y.id = x.id THEN y = x ELSE y \in ObjectsOf(m)

LEMMA WriteMakes ==
    ASSUME NEW S, GeometryInv(S), GestureInv, Has(session), store.crs = "lonlat",
           NEW list, list = session[1].list, NEW id, id = session[1].id, NEW copy \in S, NEW token,
           copy = session[1].copy \cup {token},
           Found(list, id), Reshape(list, id, copy, store.crs)
    PROVE  /\ id # NoKey /\ openKey' = id /\ FoundIn(store', list, id) /\ Future' = << >>
           /\ openKey # NoKey => openKey = id /\ Past' = Past
           /\ openKey = NoKey => History!NewStep
           /\ Redrawn(store, store', id, copy, token)
<1> DEFINE c == ReshapeCommand(list, id, copy, store.crs)
<1>1. Executed(c) /\ openKey' = c.key /\ minted' = minted
  BY DEF Reshape, Execute
<1>2. WorkspaceSound(S) /\ Sane(S, Ids, store) /\ store \in ModelsOf(S)
  BY GeometryParts DEF Sane
<1>3. Right(S, store, session[1], mapped, display, selected, Dragging)
  BY SessionIs
<1>4. list \in Lists
  BY <1>3 DEF Right, Sessions
<1>5. id \in IdsIn(store[list]) /\ FoundIn(store, list, id)
  BY DEF Found, FoundIn
<1>6. id # NoKey
  <2>1. IdsIn(store[list]) \subseteq Ids
    BY <1>2, <1>4, SaneLists
  <2> QED
    BY <1>5, <2>1, KeyAssumption
<1>7. c.key = id
  BY DEF ReshapeCommand, PutCommand, Command
<1>8. MakesOne(S, c, Known) /\ Placed(store')
  BY <1>1, <1>2, <1>4, ReshapedIs
<1>9. PICK x \in Things(S) : /\ x.id = id /\ x.shape = copy
                             /\ store' = Apply(PutPatch(list, x), store)
  BY <1>1, <1>2, <1>4, ReshapedIs
<1> HIDE DEF c
<1>10. /\ HistoryInv(S, Uniform(S))' /\ (History!NewStep \/ History!GoOn)
       /\ Future' = << >> /\ (openKey # NoKey /\ c.key = openKey => Past' = Past)
  <2>1. Known' = Known /\ ClosesOrKeeps(c)
    BY <1>1 DEF Known, ClosesOrKeeps
  <2>2. store' \in Uniform(S)
    BY <1>1, <1>8 DEF Executed, MakesOne, Sane, Uniform
  <2>3. HistoryInv(S, Uniform(S))
    BY <1>2, SoundStore
  <2> QED
    BY <1>1, <1>8, <2>1, <2>2, <2>3, ExecutedKeeps
<1>11. openKey # NoKey => openKey = id
  BY DEF GestureInv, OpenAt
<1>12. openKey = NoKey => History!NewStep
  BY <1>10 DEF History!GoOn
<1>13. Sane(S, Ids, store') /\ FoundIn(store', list, id)
  <2>1. WorkspaceSound(S)'
    BY <1>2, <1>4, ReshapeGoes DEF Goes
  <2>2. FoundIn(store', list, id)
    BY <1>2, <1>4, <1>5, <1>9, PutFinds
  <2> QED
    BY <2>1, <2>2, SoundStoreNext
<1>14. /\ x \in ObjectsOf(store')
       /\ \A y \in ObjectsOf(store') : IF y.id = x.id THEN y = x ELSE y \in ObjectsOf(store)
  BY <1>2, <1>4, <1>5, <1>9, <1>13, PutObjects
<1>15. PICK h \in ObjectsOf(store) : h.id = id /\ StoredShape(store, list, id) = <<h.shape>>
  BY <1>2, <1>4, <1>5, StoredObject
<1>16. h.shape = session[1].copy
  <2>1. <<h.shape>> \in {<< >>, <<session[1].copy>>}
    BY <1>3, <1>15 DEF Right
  <2> QED
    BY <2>1
<1>17. x.shape = h.shape \cup {token}
  BY <1>9, <1>16
<1>18. Redrawn(store, store', id, copy, token)
  BY <1>9, <1>14, <1>15, <1>17 DEF Redrawn
<1> QED
  BY <1>1, <1>6, <1>7, <1>10, <1>11, <1>12, <1>13, <1>18

\* A move that is written opens a step, or goes on with the one its drag has opened.
LEMMA WriteDraws ==
    ASSUME NEW S, GeometryInv(S), GestureInv, Has(session), store.crs = "lonlat",
           gesture \in Gestures, moves[gesture] < 2,
           moves' = Moved(moves, gesture), gesture' = gesture,
           NEW t, session' = <<t>>, t.id = session[1].id, t.list = session[1].list, t.copy \in S,
           t.copy = session[1].copy \cup {Token(gesture, Moved(moves, gesture)[gesture])},
           Found(t.list, t.id), Reshape(t.list, t.id, t.copy, store.crs),
           request' = request, orphans' = orphans
    PROVE  GestureInv'
<1> DEFINE mw == Moved(moves, gesture)
           token == Token(gesture, mw[gesture])
           id == t.id
<1>1. /\ DragsAt(moves, gesture) /\ EditorAt(session, moves, gesture)
      /\ AskedAt(request, orphans, moves, gesture)
      /\ LineAt(Past, store, Future, moves, gesture) /\ StoreAt(store, openKey, moves, gesture)
      /\ OpenAt(store, openKey, Past, Future, session, moves, gesture)
  BY DEF GestureInv
<1>2. WorkspaceSound(S) /\ Sane(S, Ids, store) /\ \A y \in ObjectsOf(store) : y.id # NoKey
  BY GeometryParts, StoreIds
<1>3. token.g = gesture
  BY TokenIs
<1>4. /\ id # NoKey /\ openKey' = id /\ FoundIn(store', t.list, id) /\ Future' = << >>
      /\ openKey # NoKey => openKey = id /\ Past' = Past
      /\ openKey = NoKey => History!NewStep
      /\ Redrawn(store, store', id, t.copy, token)
  <2> DEFINE list == t.list
             copy == t.copy
  <2>1. /\ list = session[1].list /\ id = session[1].id /\ copy \in S
        /\ copy = session[1].copy \cup {token}
        /\ Found(list, id) /\ Reshape(list, id, copy, store.crs)
    OBVIOUS
  <2> HIDE DEF list, id, copy, mw, token
  <2>2. /\ id # NoKey /\ openKey' = id /\ FoundIn(store', list, id) /\ Future' = << >>
        /\ openKey # NoKey => openKey = id /\ Past' = Past
        /\ openKey = NoKey => History!NewStep
        /\ Redrawn(store, store', id, copy, token)
    BY <2>1, WriteMakes
  <2> QED
    BY <2>2 DEF list, copy
<1>5. PICK h \in ObjectsOf(store), x \in ObjectsOf(store') :
         /\ h.id = id /\ x.id = id /\ x.shape = t.copy /\ x.shape = h.shape \cup {token}
         /\ \A y \in ObjectsOf(store') : IF y.id = x.id THEN y = x ELSE y \in ObjectsOf(store)
  BY <1>4 DEF Redrawn
<1>6. /\ DragsAt(mw, gesture) /\ mw[gesture] > 0
      /\ EditorAt(<<t>>, mw, gesture) /\ UnderWay(t.copy, mw, gesture)
      /\ AskedAt(request, orphans, mw, gesture) /\ LineAt(Past, store, Future, mw, gesture)
  <2>1. DragsAt(mw, gesture) /\ mw[gesture] \in 1..2
    BY <1>1, MovedIs
  <2>2. EditorAt(<<t>>, mw, gesture) /\ UnderWay(t.copy, mw, gesture)
    BY <1>1, CopyMoves
  <2>3. AskedAt(request, orphans, mw, gesture) /\ LineAt(Past, store, Future, mw, gesture)
    BY <1>1, AskedStays, LineStays
  <2> QED
    BY <2>1, <2>2, <2>3
<1>7. ASSUME NEW y \in ObjectsOf(store), y.id # openKey PROVE Finished(y.shape, mw, gesture)
  <2>1. Finished(y.shape, moves, gesture)
    BY <1>1, <1>7 DEF StoreAt
  <2> QED
    BY <1>1, <2>1, FinishedStays
<1> HIDE DEF mw, token, id
<1>8. StoreAt(store', id, mw, gesture)
  <2>1. ASSUME NEW y \in ObjectsOf(store'), y.id # id PROVE Finished(y.shape, mw, gesture)
    <3>1. y \in ObjectsOf(store)
      BY <1>5, <2>1
    <3> QED
      BY <1>2, <1>4, <1>7, <2>1, <3>1
  <2>2. ASSUME NEW y \in ObjectsOf(store'), y.id = id PROVE UnderWay(y.shape, mw, gesture)
    BY <1>5, <1>6, <2>2
  <2> QED
    BY <2>1, <2>2 DEF StoreAt
<1>9. PICK V : Past \in Seq(V) /\ Future \in Seq(V)
  BY <1>2, LineListed
<1>10. LineAt(Past', store', << >>, mw, gesture) /\ Within(Past'[Len(Past')], store', gesture)
  <2>1. CASE openKey = NoKey
    <3>1. Within(store, store', gesture)
      <4>1. Within(store, store, gesture)
        BY <1>2, WithinItself
      <4> QED
        BY <1>3, <1>5, <4>1, WithinGrows
    <3>2. AllFinished(store, mw, gesture)
      BY <1>2, <1>7, <2>1 DEF AllFinished
    <3>3. Past' = IF Len(Past) < MaxSize THEN Append(Past, store) ELSE Append(Tail(Past), store)
      BY <1>4, <2>1 DEF History!NewStep
    <3>4. ~(Len(Past) < MaxSize) => Past # << >>
      BY <1>9, StackAssumption
    <3>5. EditedTo(Past, store, Past')
      BY <3>3, <3>4 DEF EditedTo
    <3>6. LineAt(Past', store', << >>, mw, gesture)
      BY <1>6, <1>9, <3>1, <3>2, <3>5, WithinIsNear, LineEdit
    <3>7. Past'[Len(Past')] = store
      BY <1>9, <3>5 DEF EditedTo
    <3> QED
      BY <3>1, <3>6, <3>7
  <2>2. CASE openKey # NoKey
    <3>1. Past' = Past /\ Within(Past[Len(Past)], store, gesture)
      BY <1>1, <1>4, <2>2 DEF OpenAt
    <3>2. Within(Past[Len(Past)], store', gesture)
      BY <1>3, <1>5, <3>1, WithinGrows
    <3>3. LineAt(Past, store', << >>, mw, gesture)
      BY <1>6, <1>9, <3>2, WithinIsNear, LineGoesOn
    <3> QED
      BY <3>1, <3>2, <3>3
  <2> QED
    BY <2>1, <2>2
<1>11. OpenAt(store', openKey', Past', Future', session', mw, gesture)
  <2>1. <<t>> # << >> /\ <<t>>[1] = t
    OBVIOUS
  <2> QED
    BY <1>4, <1>6, <1>10, <2>1 DEF OpenAt, Has, id
<1> QED
  BY <1>4, <1>6, <1>8, <1>10, <1>11 DEF GestureInv, mw

LEMMA ChangeDraws ==
    ASSUME NEW S, Drawable(S), GeometryInv(S), GestureInv, Change PROVE GestureInv'
<1> DEFINE s == session[1]
           copy == s.copy \cup {Token(gesture, moves'[gesture])}
           stored == StoredShape(store', s.list, s.id)
           drawn == [s EXCEPT !.copy = copy]
           held == [drawn EXCEPT !.held = TRUE]
           written == [drawn EXCEPT !.stored = stored]
<1>1. /\ Has(session) /\ gesture \in Gestures /\ moves[gesture] < 2
      /\ moves' = [moves EXCEPT ![gesture] = @ + 1] /\ gesture' = gesture
      /\ request' = request /\ orphans' = orphans
      /\ IF Metric THEN session' = <<held>> /\ UNCHANGED editVars
         ELSE /\ IF Found(s.list, s.id) THEN Reshape(s.list, s.id, copy, store.crs)
                                        ELSE UNCHANGED editVars
              /\ session' = <<written>>
  BY DEF Change
<1>2. moves' = Moved(moves, gesture)
  BY <1>1 DEF Moved
<1>3. WorkspaceSound(S) /\ store.crs \in CRSs /\ DragsAt(moves, gesture) /\ Sane(S, Ids, store)
  BY GeometryParts, GestureParts
<1>4. Right(S, store, s, mapped, display, selected, Dragging) /\ s \in Sessions(S)
  BY <1>1, SessionIs DEF Right
<1>5. copy \in S
  <2>1. s.copy \in S
    BY <1>4 DEF Sessions
  <2>2. gesture \in Nat
    BY <1>1, GestureAssumption DEF Gestures
  <2>3. moves'[gesture] \in Nat
    <3>1. Moved(moves, gesture)[gesture] \in 1..2
      BY <1>1, <1>3, MovedIs
    <3> QED
      BY <1>2, <3>1
  <2> QED
    BY <2>1, <2>2, <2>3 DEF Drawable
<1>6. copy = s.copy \cup {Token(gesture, Moved(moves, gesture)[gesture])}
  BY <1>2
<1> HIDE DEF s, copy, stored
<1>7. /\ held.copy = copy /\ written.copy = copy
      /\ written.id = s.id /\ written.list = s.list
  <2>1. drawn.copy = copy /\ drawn.id = s.id /\ drawn.list = s.list
        /\ DOMAIN drawn = {"id", "list", "copy", "held", "stored"}
    BY <1>4 DEF Sessions
  <2> HIDE DEF drawn
  <2> QED
    BY <2>1
<1> HIDE DEF held, written
<1>8. CASE Metric
  <2>1. openKey = NoKey
    BY <1>3, <1>8 DEF WorkspaceSound, Metric
  <2> QED
    BY <1>1, <1>2, <1>6, <1>7, <1>8, <2>1, HoldDraws DEF s
<1>9. CASE ~Metric /\ ~Found(s.list, s.id)
  <2>1. openKey = NoKey
    <3>1. openKey # NoKey => FoundIn(store, s.list, s.id)
      BY DEF GestureInv, OpenAt, s
    <3> QED
      BY <1>9, <3>1 DEF FoundIn, Found
  <2> QED
    BY <1>1, <1>2, <1>6, <1>7, <1>9, <2>1, HoldDraws DEF s
<1>10. CASE ~Metric /\ Found(s.list, s.id)
  <2>1. store.crs = "lonlat"
    BY <1>3, <1>10 DEF Metric, CRSs
  <2>2. Reshape(s.list, s.id, copy, store.crs)
    BY <1>1, <1>10
  <2> QED
    BY <1>1, <1>2, <1>5, <1>6, <1>7, <1>10, <2>1, <2>2, WriteDraws DEF s
<1> QED
  BY <1>8, <1>9, <1>10

LEMMA GestureStep ==
    ASSUME NEW S, Drawable(S), FilesRight(S), FilesDrawNoMoves, GeometryInv(S), GestureInv,
           [GeometryNext]_geometryVars
    PROVE  GestureInv'
<1>1. CASE Change
  BY <1>1, ChangeDraws
<1>2. CASE Finish
  BY <1>2, FinishDraws
<1>3. CASE Deselect
  BY <1>3, DeselectDraws
<1>4. CASE Displayed
  BY <1>4, DisplayedDraws
<1>5. CASE Fail
  BY <1>5, FailDraws
<1>6. CASE StepHistory
  BY <1>6, StepHistoryDraws
<1>7. CASE EditSelected
  BY <1>7, EditSelectedDraws
<1>8. CASE Leave
  BY <1>8, LeaveDraws
<1>9. CASE Return
  BY <1>9, ReturnDraws
<1>10. ASSUME NEW id, Select(id) PROVE GestureInv'
  BY <1>10, SelectDraws
<1>11. ASSUME NEW q \in orphans, DeliverLate(q) PROVE GestureInv'
  BY <1>11, DeliverLateDraws
<1>12. ASSUME NEW q, Deliver(q) PROVE GestureInv'
  BY <1>12, DeliverDraws
<1>13. ASSUME NEW f \in Files, Import(f) PROVE GestureInv'
  BY <1>13, ImportDraws
<1>14. CASE UNCHANGED geometryVars
  <2>1. /\ UNCHANGED editVars /\ UNCHANGED <<session, moves, gesture>>
        /\ request' = request /\ orphans' = orphans
    BY <1>14 DEF geometryVars, pageVars
  <2> QED
    BY <2>1, GestureParts, PageStands
<1> QED
  BY <1>1, <1>2, <1>3, <1>4, <1>5, <1>6, <1>7, <1>8, <1>9, <1>10, <1>11, <1>12, <1>13, <1>14
  DEF GeometryNext

LEMMA GestureInitially ==
    ASSUME GeometryInit PROVE GestureInv
<1>1. /\ store = EmptyModel /\ openKey = NoKey /\ session = << >> /\ request = << >>
      /\ orphans = {} /\ moves = [g \in 1..(MaxGestures + 1) |-> 0] /\ gesture = 1
      /\ Past = << >> /\ Future = << >>
  BY GeometryInitially DEF GeometryInit, EditInit, History!Init
<1>2. MaxGestures \in Nat
  BY GestureAssumption
<1>3. DragsAt(moves, gesture) /\ moves[gesture] = 0
  BY <1>1, <1>2 DEF DragsAt, Gestures
<1>4. ObjectsOf(store) = {}
  <2> DEFINE none == << >>
  <2>1. EmptyModel.features = none /\ EmptyModel.receivers = none /\ DOMAIN none = {}
    BY DEF EmptyModel
  <2> HIDE DEF none
  <2> QED
    BY <1>1, <2>1 DEF ObjectsOf, Lists
<1>5. StoreAt(store, openKey, moves, gesture)
  BY <1>4 DEF StoreAt
<1>6. LineAt(Past, store, Future, moves, gesture)
  <2>1. Len(<< >>) = 0 /\ 1..0 = {}
    OBVIOUS
  <2> QED
    BY <1>1, <2>1 DEF LineAt, StackAt, Chain
<1>7. EditorAt(session, moves, gesture)
  BY <1>1, <1>3, NoEditor
<1>8. AskedAt(request, orphans, moves, gesture)
  BY <1>1 DEF AskedAt
<1>9. OpenAt(store, openKey, Past, Future, session, moves, gesture)
  BY <1>1 DEF OpenAt
<1> QED
  BY <1>3, <1>5, <1>6, <1>7, <1>8, <1>9 DEF GestureInv

-----------------------------------------------------------------------------
(* One gesture, one step: its theorems.                                     *)

LEMMA ConcatIs ==
    ASSUME NEW U, NEW s \in Seq(U), NEW t \in Seq(U)
    PROVE  /\ s \o t \in Seq(U) /\ Len(s \o t) = Len(s) + Len(t) /\ DOMAIN (s \o t) = 1..Len(s \o t)
           /\ \A i \in 1..(Len(s) + Len(t)) :
                 (s \o t)[i] = IF i <= Len(s) THEN s[i] ELSE t[i - Len(s)]
  OBVIOUS

\* The line, index by index.
LEMMA LineItems ==
    ASSUME NEW V, Past \in Seq(V), Future \in Seq(V), Len(Future) = Len(redoStack),
           DOMAIN redoStack = 1..Len(redoStack)
    PROVE  /\ Len(Past) \in Nat /\ Len(Future) \in Nat
           /\ DOMAIN Line = 1..(Len(Past) + 1 + Len(Future))
           /\ Len(Line) = Len(Past) + 1 + Len(Future)
           /\ \A i \in 1..Len(Past) : Line[i] = Past[i]
           /\ Line[Len(Past) + 1] = store
           /\ \A i \in 1..Len(Future) : Line[Len(Past) + 1 + i] = Future[Len(Future) + 1 - i]
<1> DEFINE n == Len(Past)
           k == Len(Future)
           U == V \cup {store}
           ahead == [i \in DOMAIN redoStack |-> Future[Len(redoStack) + 1 - i]]
           upTo == Past \o <<store>>
<1>1. n \in Nat /\ k \in Nat
  OBVIOUS
<1>2. ahead \in Seq(U) /\ Len(ahead) = k /\ \A i \in 1..k : ahead[i] = Future[k + 1 - i]
  <2>1. ahead = [i \in 1..k |-> Future[k + 1 - i]]
    OBVIOUS
  <2>2. \A i \in 1..k : k + 1 - i \in 1..k
    BY <1>1
  <2>3. \A i \in 1..k : Future[k + 1 - i] \in U
    BY <2>2
  <2> QED
    BY <1>1, <2>1, <2>3
<1>3. Past \in Seq(U) /\ <<store>> \in Seq(U)
  OBVIOUS
<1>4. /\ upTo \in Seq(U) /\ Len(upTo) = n + 1
      /\ \A i \in 1..n : upTo[i] = Past[i]
      /\ upTo[n + 1] = store
  <2> HIDE DEF U
  <2>1. Len(<<store>>) = 1 /\ <<store>>[1] = store
    OBVIOUS
  <2> QED
    BY <1>1, <1>3, <2>1
<1>5. Line = upTo \o ahead
  BY DEF Line
<1> HIDE DEF n, k, U, ahead, upTo
<1>6. /\ DOMAIN Line = 1..(n + 1 + k) /\ Len(Line) = n + 1 + k
      /\ \A i \in 1..(n + 1) : Line[i] = upTo[i]
      /\ \A i \in 1..k : Line[n + 1 + i] = ahead[i]
  <2> DEFINE all == upTo \o ahead
  <2>1. /\ Len(all) = Len(upTo) + Len(ahead) /\ DOMAIN all = 1..Len(all)
        /\ \A i \in 1..(Len(upTo) + Len(ahead)) :
              all[i] = IF i <= Len(upTo) THEN upTo[i] ELSE ahead[i - Len(upTo)]
    <3>1. upTo \in Seq(U) /\ ahead \in Seq(U)
      BY <1>2, <1>4
    <3> QED
      BY ONLY <3>1, ConcatIs
  <2> HIDE DEF all
  <2>2. \A i \in 1..(n + 1) : i \in 1..(n + 1 + k) /\ i <= n + 1
    BY <1>1
  <2>3. \A i \in 1..k : /\ n + 1 + i \in 1..(n + 1 + k) /\ ~(n + 1 + i <= n + 1)
                        /\ (n + 1 + i) - (n + 1) = i
    BY <1>1
  <2> QED
    BY <1>2, <1>4, <1>5, <2>1, <2>2, <2>3 DEF all
<1>9. \A i \in 1..n : i \in 1..(n + 1) /\ Line[i] = Past[i]
  BY <1>1, <1>4, <1>6
<1>10. Line[n + 1] = store
  BY <1>1, <1>4, <1>6
<1> QED
  BY <1>1, <1>2, <1>6, <1>9, <1>10 DEF n, k

\* What the invariant says of the line.
LEMMA LineIsWhole ==
    ASSUME NEW S, GeometryInv(S), GestureInv
    PROVE  OneGestureOneStep
<1> DEFINE n == Len(Past)
           k == Len(Future)
<1>1. WorkspaceSound(S)
  BY GeometryParts
<1>2. PICK V : Past \in Seq(V) /\ Future \in Seq(V) /\ Len(Future) = Len(redoStack)
  BY <1>1, LineListed
<1>3. DOMAIN redoStack = 1..Len(redoStack)
  <2>1. Along(Reachable(S, Uniform(S), Known), store, redoStack, "redo", "undo", Future)
    BY <1>1 DEF WorkspaceSound, EditInv, HistoryInv, HistoryAt
  <2>2. Listed(redoStack)
    BY <2>1, AlongHere
  <2> QED
    BY <2>2 DEF Listed
<1>4. /\ n \in Nat /\ k \in Nat
      /\ DOMAIN Line = 1..(n + 1 + k) /\ Len(Line) = n + 1 + k
      /\ \A i \in 1..n : Line[i] = Past[i]
      /\ Line[n + 1] = store
      /\ \A i \in 1..k : Line[n + 1 + i] = Future[k + 1 - i]
  BY <1>2, <1>3, LineItems
<1>5. StackAt(Past, store, moves, gesture) /\ StackAt(Future, store, moves, gesture)
  BY DEF GestureInv, LineAt
<1> HIDE DEF n, k
<1>6. ASSUME NEW i \in DOMAIN Line, NEW x \in ObjectsOf(Line[i])
      PROVE  Whole(x.shape, moves, gesture)
  <2>1. CASE i \in 1..n
    <3>1. AllFinished(Past[i], moves, gesture)
      BY <1>5, <2>1 DEF StackAt, n
    <3> QED
      BY <1>4, <1>6, <2>1, <3>1 DEF AllFinished, Finished
  <2>2. CASE i = n + 1
    <3>1. x \in ObjectsOf(store)
      BY <1>4, <1>6, <2>2
    <3> QED
      BY <3>1 DEF GestureInv, StoreAt, Finished, UnderWay
  <2>3. CASE i \notin 1..n /\ i # n + 1
    <3>1. /\ i - (n + 1) \in 1..k /\ n + 1 + (i - (n + 1)) = i
          /\ k + 1 - (i - (n + 1)) \in 1..k
      BY <1>4, <2>3
    <3>2. Line[i] = Future[k + 1 - (i - (n + 1))]
      BY <1>4, <3>1
    <3>3. AllFinished(Line[i], moves, gesture)
      BY <1>5, <3>1, <3>2 DEF StackAt, k
    <3> QED
      BY <1>6, <3>3 DEF AllFinished, Finished
  <2> QED
    BY <2>1, <2>2, <2>3
<1>7. ASSUME NEW i \in 1..(Len(Line) - 1)
      PROVE  Near(Line[i], Line[i + 1])
  <2>1. CASE i \in 1..n
    <3>1. Near(Past[i], IF i = n THEN store ELSE Past[i + 1])
      BY <1>5, <2>1 DEF StackAt, Chain, n
    <3>2. i # n => i + 1 \in 1..n
      BY <1>4, <2>1
    <3>3. Line[i] = Past[i] /\ Line[i + 1] = IF i = n THEN store ELSE Past[i + 1]
      BY <1>4, <2>1, <3>2
    <3> QED
      BY <3>1, <3>3
  <2>2. CASE i = n + 1
    <3>1. 1 \in 1..k /\ k \in 1..k /\ k + 1 - 1 = k /\ n + 1 + 1 = i + 1
      BY <1>4, <1>7, <2>2
    <3>2. Near(Future[k], store)
      BY <1>5, <3>1 DEF StackAt, Chain, k
    <3>3. Line[i] = store /\ Line[i + 1] = Future[k]
      BY <1>4, <2>2, <3>1
    <3> QED
      BY <3>2, <3>3, NearBoth
  <2>3. CASE i \notin 1..n /\ i # n + 1
    <3> DEFINE j == k - (i - (n + 1))
    <3>1. /\ i - (n + 1) \in 1..k /\ n + 1 + (i - (n + 1)) = i /\ k + 1 - (i - (n + 1)) = j + 1
          /\ (i - (n + 1)) + 1 \in 1..k /\ n + 1 + ((i - (n + 1)) + 1) = i + 1
          /\ k + 1 - ((i - (n + 1)) + 1) = j
          /\ j \in 1..k /\ j + 1 \in 1..k /\ j # k
      BY <1>4, <1>7, <2>3
    <3> HIDE DEF j
    <3>2. Near(Future[j], Future[j + 1])
      BY <1>5, <3>1 DEF StackAt, Chain, k
    <3>3. Line[i] = Future[j + 1] /\ Line[i + 1] = Future[j]
      BY <1>4, <3>1
    <3> QED
      BY <3>2, <3>3, NearBoth
  <2> QED
    BY <2>1, <2>2, <2>3
<1>8. \A i \in DOMAIN Line : \A x \in ObjectsOf(Line[i]), g \in 1..(gesture - 1) :
         MovesOf(g) \subseteq x.shape \/ MovesOf(g) \cap x.shape = {}
  BY <1>6 DEF Whole, MovesBy, MovesOf
<1>9. \A i \in 1..(Len(Line) - 1) :
         Line[i].crs = "lonlat" /\ Line[i + 1].crs = "lonlat" =>
            \A x \in ObjectsOf(Line[i]), y \in ObjectsOf(Line[i + 1]) : x.id = y.id =>
               \A s, t \in (x.shape \cup y.shape) \ (x.shape \cap y.shape) : s.g = t.g
  BY <1>7 DEF Near, Differ
<1> QED
  BY <1>8, <1>9 DEF OneGestureOneStep

\* Every model undo and redo can reach has the whole of an earlier drag or nothing of it,
\* and what is open is the drag under way, however drags are cut short by undo, sent off
\* half way or answered late (use-geometry-edit.ts:32-39, use-inverse-projection.ts:40-125).
THEOREM GestureInvariant ==
    ASSUME FilesAreSound, FilesDrawNoMoves
    PROVE  GeometrySpec => [](GeometryInv(Drawings) /\ GestureInv)
<1>1. GeometryInit => GeometryInv(Drawings) /\ GestureInv
  BY GeometryInitially, GestureInitially
<1>2. GeometryInv(Drawings) /\ GestureInv /\ [GeometryNext]_geometryVars =>
         (GeometryInv(Drawings) /\ GestureInv)'
  BY GeometryStep, GestureStep, DrawingsDo DEF GeometryGoes
<1> QED
  BY <1>1, <1>2, PTL DEF GeometrySpec

\* One gesture is one undo step (use-geometry-edit.ts:32-39): no model undo or redo reaches
\* has half of a drag, and over lon/lat none is two drags of an object away from the next.
THEOREM OneGestureIsAlwaysOneStep ==
    ASSUME FilesAreSound, FilesDrawNoMoves PROVE GeometrySpec => []OneGestureOneStep
<1>1. GeometryInv(Drawings) /\ GestureInv => OneGestureOneStep
  BY LineIsWhole
<1> QED
  BY <1>1, GestureInvariant, PTL
=============================================================================
