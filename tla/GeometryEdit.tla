---------------------------- MODULE GeometryEdit ----------------------------
(***************************************************************************)
(* Reshaping a feature on the map (map/use-geometry-edit.ts and             *)
(* map/use-inverse-projection.ts) over the workspace and its undo stack.    *)
(* The editor's copy of the shape is terra-draw's own.  Over a model in     *)
(* lon/lat each move of a drag is written at once; over a metric model the  *)
(* shape is projected when the drag ends, and written when that answers.    *)
(*                                                                         *)
(* A shape is a set of tokens: the file it came from and the moves made of  *)
(* it since.  A drag is a gesture of at most two moves.  What React does of *)
(* a change of the store (re-render, effects) is part of the step that      *)
(* changed it.  Nobody clicks elsewhere during a drag, but keys work and    *)
(* answers arrive.                                                          *)
(***************************************************************************)
EXTENDS EditHistory

CONSTANTS NoId,          \* nothing is selected
          MaxGestures,   \* bound: drags
          MaxVisits      \* bound: visits of the map page after the first

ASSUME GestureAssumption == MaxGestures \in Nat /\ MaxVisits \in Nat

VARIABLES mapped,     \* the map page is open
          selected,   \* editingFeatureId
          display,    \* status of the display model
          session,    \* sessionRef: the armed editor, with terra-draw's copy
          request,    \* the projection the channel of this page waits for
          orphans,    \* projections the channels of closed pages wait for
          moves,       \* the moves each gesture is made of
          gesture,    \* the gesture under way, or the next
          visits

gestureVars == <<moves, gesture>>
pageVars == <<mapped, selected, display, session, request, orphans, moves, gesture, visits>>
geometryVars == <<editVars, pageVars>>

Gestures == 1..MaxGestures
Token(g, k) == [g |-> g, k |-> k]

Metric == store.crs = "metric"
Dragging == moves[gesture] > 0
Has(x) == x # <<>>

\* The list an id is looked up in: features first.
ListOf(m, id) == IF id \in IdsIn(m.features) THEN "features" ELSE "receivers"
Holds(m, id) == id \in IdsIn(m.features) \cup IdsIn(m.receivers)
Objects(m, list, id) ==
    IF id \in IdsIn(m[list]) THEN <<m[list][FirstOf(m[list], id)]>> ELSE <<>>
\* storedGeometry: absent, or one shape.
StoredShape(m, list, id) ==
    LET x == Objects(m, list, id) IN [i \in DOMAIN x |-> x[i].shape]

\* Coordinates in metres are off the globe, and terra-draw refuses them; a
\* metric model is projected for the display, whatever its objects are in.
OnTheGlobe(m, list, id) ==
    m.crs = "lonlat" => \A i \in DOMAIN Objects(m, list, id) : Objects(m, list, id)[i].crs = "lonlat"

\* The arming effect: terra-draw is given the model's shape.
Armed(m, id) ==
    LET list == ListOf(m, id)
        shape == StoredShape(m, list, id)
    IN  IF id # NoId /\ Holds(m, id) /\ OnTheGlobe(m, list, id)
        THEN <<[id |-> id, list |-> list, copy |-> shape[1], held |-> FALSE, stored |-> shape]>>
        ELSE <<>>

DragEnds == gesture' = (IF Dragging THEN gesture + 1 ELSE gesture) /\ UNCHANGED moves

\* A shape on its way through the projection.
Question(s, crs) == [id |-> s.id, list |-> s.list, shape |-> s.copy, crs |-> crs]

-----------------------------------------------------------------------------
(* What a change of the store does to the page.                            *)

ReactsDeaf ==    \* mutant: the session is not told of the change
    /\ display' = IF store'.crs = "metric" THEN "projecting" ELSE "ready"
    /\ UNCHANGED <<session, request>>
    /\ DragEnds

\* Another writer.  A changed CRS disowns the projection in flight.  A shape
\* held over what is no longer there is dropped; over a metric model the editor
\* is disarmed while the display model is projected anew, and what it holds
\* otherwise is sent off; over lon/lat it is re-armed.
Reacts ==
    LET s == session[1]
        now == StoredShape(store', s.list, s.id)
        moved == Has(now) /\ now # s.stored
        kept == s.held /\ ~moved
    IN  /\ display' = IF store'.crs = "metric" THEN "projecting" ELSE "ready"
        /\ CASE store'.crs # store.crs ->
                  /\ request' = <<>>
                  /\ session' = IF store'.crs = "metric" THEN <<>> ELSE Armed(store', selected)
             [] store'.crs = store.crs /\ store'.crs = "metric" ->
                  /\ request' = IF Has(session) /\ kept THEN <<Question(s, store.crs)>> ELSE request
                  /\ session' = <<>>
             [] store'.crs = store.crs /\ store'.crs = "lonlat" ->
                  /\ session' = IF Has(session) /\ moved THEN Armed(store', selected) ELSE session
                  /\ UNCHANGED request
        /\ IF session' = session THEN UNCHANGED gestureVars ELSE DragEnds

-----------------------------------------------------------------------------
(* The editor.                                                             *)

\* endSession without anything held.
Sealed == Seal /\ UNCHANGED <<store, undoStack, redoStack, minted, edits>>

\* endSession: what is held goes through the channel, whose newest wins.
Ends ==
    IF Has(session) /\ session[1].held
    THEN request' = <<Question(session[1], store.crs)>> /\ UNCHANGED editVars
    ELSE /\ UNCHANGED request
         /\ IF Has(session) THEN Sealed ELSE UNCHANGED editVars

\* A click on a feature, the one that is selected included.
Select(id) ==
    /\ mapped /\ ~Dragging
    /\ selected' = id
    /\ Ends
    /\ session' = IF display = "ready" THEN Armed(store, id) ELSE <<>>
    /\ UNCHANGED <<mapped, display, orphans, gestureVars, visits>>

\* A click beside it: terra-draw deselects, the page does not.
Deselect ==
    /\ mapped /\ ~Dragging /\ Has(session)
    /\ Ends
    /\ session' = <<>>
    /\ UNCHANGED <<mapped, selected, display, orphans, gestureVars, visits>>

\* The display model has been projected.
Displayed ==
    /\ mapped /\ display = "projecting"
    /\ display' = "ready"
    /\ session' = Armed(store, selected)
    /\ UNCHANGED <<editVars, mapped, selected, request, orphans, gestureVars, visits>>

\* onChange: the drag goes on.
Change ==
    /\ Has(session) /\ gesture \in Gestures /\ moves[gesture] < 2
    /\ moves' = [moves EXCEPT ![gesture] = @ + 1]
    /\ LET s == session[1]
           copy == s.copy \cup {Token(gesture, moves'[gesture])}
       IN  IF Metric
           THEN /\ session' = <<[s EXCEPT !.copy = copy, !.held = TRUE]>>
                /\ UNCHANGED editVars
           ELSE /\ IF Found(s.list, s.id) THEN Reshape(s.list, s.id, copy, store.crs)
                                         ELSE UNCHANGED editVars
                /\ session' = <<[s EXCEPT !.copy = copy,
                                          !.stored = StoredShape(store', s.list, s.id)]>>
    /\ UNCHANGED <<mapped, selected, display, request, orphans, gesture, visits>>

FinishOpen ==    \* mutant: the end of a drag does not close its step
    /\ Has(session) /\ Dragging
    /\ IF session[1].held THEN Ends ELSE UNCHANGED <<editVars, request>>
    /\ session' = <<[session[1] EXCEPT !.held = FALSE]>>
    /\ gesture' = gesture + 1
    /\ UNCHANGED <<mapped, selected, display, orphans, moves, visits>>

\* onFinish: the gesture is over, and the next finds a session of its own.
Finish ==
    /\ Has(session) /\ Dragging
    /\ Ends
    /\ session' = <<[session[1] EXCEPT !.held = FALSE]>>
    /\ gesture' = gesture + 1
    /\ UNCHANGED <<mapped, selected, display, orphans, moves, visits>>

-----------------------------------------------------------------------------
(* The projections.                                                        *)

\* updateFeatureGeometry and the seal behind it.
Lands(q) ==
    IF Found(q.list, q.id)
    THEN Executed(ReshapeCommand(q.list, q.id, q.shape, q.crs)) /\ Seal /\ UNCHANGED minted
    ELSE Sealed

\* An answer of this page's channel.  The session learns what it wrote, and is
\* disarmed like by any change; a drag under way is sent off as far as it got.
Deliver(q) ==
    /\ request = <<q>>
    /\ IF store.crs = q.crs THEN Lands(q) ELSE UNCHANGED editVars
    /\ IF store' = store
       THEN request' = <<>> /\ UNCHANGED <<session, display, gestureVars>>
       ELSE /\ request' = IF Has(session) /\ session[1].held
                          THEN <<Question(session[1], store.crs)>> ELSE <<>>
            /\ session' = <<>> /\ display' = "projecting" /\ DragEnds
    /\ UNCHANGED <<mapped, selected, orphans, visits>>

DeliverLateAnyCRS(q) ==    \* mutant: the store's CRS is not read again
    /\ q \in orphans /\ orphans' = orphans \ {q}
    /\ Lands(q)
    /\ IF mapped /\ store' # store THEN Reacts
       ELSE UNCHANGED <<session, display, request, gestureVars>>
    /\ UNCHANGED <<mapped, selected, visits>>

\* An answer to a page that was closed lands all the same.
DeliverLate(q) ==
    /\ q \in orphans /\ orphans' = orphans \ {q}
    /\ IF store.crs = q.crs THEN Lands(q) ELSE UNCHANGED editVars
    /\ IF mapped /\ store' # store THEN Reacts
       ELSE UNCHANGED <<session, display, request, gestureVars>>
    /\ UNCHANGED <<mapped, selected, visits>>

\* A projection fails: the shape is dropped.
Fail ==
    /\ Has(request)
    /\ request' = <<>>
    /\ UNCHANGED <<editVars, mapped, selected, display, session, orphans, gestureVars, visits>>

-----------------------------------------------------------------------------
(* The rest of the application.                                            *)

\* Ctrl+Z and Ctrl+Y, during a drag too.
StepHistory ==
    /\ mapped /\ (Undo \/ Redo)
    /\ Reacts
    /\ UNCHANGED <<mapped, selected, orphans, visits>>

\* The feature's form: another property, or the feature is removed, which closes it.
EditSelected ==
    /\ mapped /\ ~Dragging /\ selected # NoId /\ Holds(store, selected)
    /\ LET list == ListOf(store, selected)
       IN  \/ \E p \in Props \ {Held(list, selected).props} :
                 Update(list, selected, p) /\ Reacts /\ UNCHANGED selected
           \/ /\ Remove(list, selected)
              /\ selected' = NoId /\ session' = <<>>
              /\ display' = IF Metric THEN "projecting" ELSE "ready"
              /\ UNCHANGED <<request, gestureVars>>
    /\ UNCHANGED <<mapped, orphans, visits>>

\* Leaving the map for another page, and coming back to it.
Leave ==
    /\ mapped /\ ~Dragging /\ visits < MaxVisits
    /\ mapped' = FALSE /\ visits' = visits + 1
    /\ selected' = NoId /\ session' = <<>>
    /\ IF Has(session) THEN Sealed ELSE UNCHANGED editVars
    /\ orphans' = orphans \cup {request[i] : i \in DOMAIN request}
    /\ request' = <<>>
    /\ UNCHANGED <<display, gestureVars>>
Return ==
    /\ ~mapped /\ mapped' = TRUE
    /\ display' = IF Metric THEN "projecting" ELSE "ready"
    /\ UNCHANGED <<editVars, selected, session, request, orphans, gestureVars, visits>>

\* The import page: the model is replaced, or a file is added to it, in
\* whatever CRS the file is.
Import(file) ==
    /\ ~mapped
    /\ \/ file # store /\ Load(file)
       \/ Merge(file)
    /\ UNCHANGED pageVars

GeometryInit ==
    /\ EditInit
    /\ mapped = FALSE /\ selected = NoId /\ display = "ready"
    /\ session = <<>> /\ request = <<>> /\ orphans = {}
    /\ moves = [g \in 1..(MaxGestures + 1) |-> 0] /\ gesture = 1 /\ visits = 0

GeometryNext ==
    \/ Change \/ Finish \/ Deselect \/ Displayed \/ Fail
    \/ StepHistory \/ EditSelected \/ Leave \/ Return
    \/ \E id \in IdsIn(store.features) \cup IdsIn(store.receivers) : Select(id)
    \/ \E q \in orphans : DeliverLate(q)
    \/ \E i \in DOMAIN request : Deliver(request[i])
    \/ \E f \in Files : Import(f)

GeometrySpec == GeometryInit /\ [][GeometryNext]_geometryVars

\* What a file draws was not drawn here.
FilesDrawNoMoves ==
    \A f \in Files, list \in Lists : \A i \in DOMAIN f[list] :
       f[list][i].shape \cap {Token(g, k) : g \in Gestures, k \in 1..2} = {}

-----------------------------------------------------------------------------
Questions == {request[i] : i \in DOMAIN request} \cup orphans

\* The values the variables take.  An editor is armed on an open map only, and
\* only over a display model that is ready; what waits to be projected is metric.
GeometryTypeOK ==
    /\ EditTypeOK
    /\ selected \in Ids \cup {NoId} /\ display \in {"ready", "projecting"}
    /\ Len(session) <= 1 /\ Len(request) <= 1
    /\ Has(session) => mapped /\ display = "ready" /\ session[1].id = selected
    /\ Has(session) /\ session[1].held => Metric /\ Dragging
    /\ \A q \in Questions : q.crs = "metric"
    /\ moves \in [1..(MaxGestures + 1) -> 0..2] /\ gesture \in 1..(MaxGestures + 1)

\* The states of the workspace that undo and redo can reach, in their order.
Line == Past \o <<store>> \o [i \in DOMAIN redoStack |-> Future[Len(redoStack) + 1 - i]]

ObjectsOf(m) == UNION {{m[list][i] : i \in DOMAIN m[list]} : list \in Lists}
MovesOf(g) == {Token(g, k) : k \in 1..moves[g]}

\* One gesture is one undo step (use-geometry-edit.ts:32-39): no state that undo
\* or redo reaches has half of a drag, and over a lon/lat model, where nothing
\* waits, none is two drags of an object away from the next.
OneGestureOneStep ==
    /\ \A i \in DOMAIN Line : \A x \in ObjectsOf(Line[i]), g \in 1..(gesture - 1) :
          MovesOf(g) \subseteq x.shape \/ MovesOf(g) \cap x.shape = {}
    /\ \A i \in 1..(Len(Line) - 1) :
          Line[i].crs = "lonlat" /\ Line[i + 1].crs = "lonlat" =>
             \A x \in ObjectsOf(Line[i]), y \in ObjectsOf(Line[i + 1]) : x.id = y.id =>
                \A s, t \in (x.shape \cup y.shape) \ (x.shape \cap y.shape) : s.g = t.g

\* Over a lon/lat model no writer leaves the armed editor on a shape of its own,
\* which its next move would write back (use-geometry-edit.ts:41-49).
CopyIsTheStores ==
    Has(session) /\ ~Metric =>
        StoredShape(store, session[1].list, session[1].id) \in {<<>>, <<session[1].copy>>}
=============================================================================
