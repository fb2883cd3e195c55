----------------------------- MODULE EditHistory -----------------------------
(***************************************************************************)
(* The workspace of the browser (model/model-store.ts) and its undo stack   *)
(* (model/command-stack.ts).  An edit is a command, a pair of closures over *)
(* the values it captured; here a closure is a patch, the record of what it *)
(* will do to whatever model it finds.  Whether the patches of a stack fit  *)
(* together is the question: each assumes the model it was captured from.   *)
(*                                                                         *)
(* An object, feature or receiver, is an id, a shape, the CRS whoever wrote *)
(* the shape meant its coordinates in (a file its own, the map the store's) *)
(* and the rest of its properties.  The code keeps no CRS per object.       *)
(* `dirty` is left to Workspace.  All of it is one thread; every action is  *)
(* one store call.                                                          *)
(***************************************************************************)
EXTENDS Naturals, Sequences, FiniteSets

CONSTANTS Shapes,        \* geometries
          Props,         \* what else an object says
          MintedIds,     \* ids the dialogs give new objects, each once
          OSMIds,        \* the ids of buildings OpenStreetMap brought
          Files,         \* the models that can be loaded: [features, receivers, area, crs]
          MaxSize,       \* CommandStack.maxSize
          MaxEdits       \* bound: edits

ASSUME StackAssumption == MaxSize \in Nat \ {0} /\ MaxEdits \in Nat

VARIABLES store,      \* the model: [features, receivers, area, crs]
          undoStack,  \* commands, the latest last
          redoStack,  \* commands, the next one last
          openKey,    \* what the top of the undo stack is still open for
          minted,     \* the ids given so far
          edits

historyVars == <<undoStack, redoStack, openKey>>
editVars == <<store, historyVars, minted, edits>>

NoArea == "no area"
NoKey == "no key"
Lists == {"features", "receivers"}

EmptyModel == [features |-> <<>>, receivers |-> <<>>, area |-> NoArea, crs |-> "lonlat"]

IdsIn(list) == {list[i].id : i \in DOMAIN list}
Ids == UNION {IdsIn(f.features) \cup IdsIn(f.receivers) : f \in Files}

\* A file is a model, whatever shapes it draws.
ASSUME FilesAssumption ==
    \A f \in Files :
       /\ f = [features |-> f.features, receivers |-> f.receivers, area |-> f.area, crs |-> f.crs]
       /\ f.area \in {NoArea, "area"} /\ f.crs \in {"lonlat", "metric"}
       /\ \A list \in {f.features, f.receivers} :
             LET things == {list[i] : i \in DOMAIN list}
             IN  /\ list \in Seq(things)
                 /\ things \subseteq [id : IdsIn(list), shape : {x.shape : x \in things},
                                     crs : {"lonlat", "metric"}, props : Props]

\* A new object's id is a UUID (model/types.ts:226).
ASSUME FreshAssumption == MintedIds \cap Ids = {}

\* A key is "geometry:" and the id, never the lack of one (model-store.ts:431, 554).
ASSUME KeyAssumption == NoKey \notin Ids

Positions(list, id) == {i \in DOMAIN list : list[i].id = id}
FirstOf(list, id) ==
    CHOOSE i \in Positions(list, id) : \A j \in Positions(list, id) : i <= j
Kept(list, at) ==    \* what a list has at some positions, in order
    LET upTo[i \in 0..Len(list)] ==
            IF i = 0 THEN <<>>
            ELSE IF i \in at THEN Append(upTo[i - 1], list[i]) ELSE upTo[i - 1]
    IN  upTo[Len(list)]
Without(list, ids) == Kept(list, {i \in DOMAIN list : list[i].id \notin ids})
Outside(list, gone) == Kept(list, {i \in DOMAIN list : list[i] \notin gone})
Put(list, x) == [i \in DOMAIN list |-> IF list[i].id = x.id THEN x ELSE list[i]]
SpliceIn(list, at, x) ==
    LET k == IF at > Len(list) THEN Len(list) + 1 ELSE at
    IN  SubSeq(list, 1, k - 1) \o <<x>> \o SubSeq(list, k, Len(list))

-----------------------------------------------------------------------------
(* Patches and commands.                                                   *)

Apply(p, m) ==
    CASE p.do = "append" -> [m EXCEPT ![p.list] = Append(@, p.x)]
      [] p.do = "drop"   -> [m EXCEPT ![p.list] = Without(@, {p.id})]
      [] p.do = "put"    -> [m EXCEPT ![p.list] = Put(@, p.x)]
      [] p.do = "splice" -> [m EXCEPT ![p.list] = SpliceIn(@, p.at, p.x)]
      [] p.do = "swap"   -> [m EXCEPT !.features =
                                [i \in DOMAIN @ |-> IF i \in DOMAIN p.by THEN p.by[i] ELSE @[i]]]
      [] p.do = "area"   -> [m EXCEPT !.area = p.area]
      [] p.do = "land"   ->
            [features |-> Outside(m.features, p.gone) \o p.plan.features,
             receivers |-> m.receivers \o p.plan.receivers,
             area |-> p.plan.area, crs |-> p.plan.crs]
      [] p.do = "unland" ->
            [features |-> Without(m.features, p.ids),
             receivers |-> Without(m.receivers, p.ids), area |-> p.area, crs |-> p.crs]
      [] p.do = "restore" -> p.model

Command(redo, undo, key) == [redo |-> redo, undo |-> undo, key |-> key]

Latest(stack) == stack[Len(stack)]
Below(stack) == SubSeq(stack, 1, Len(stack) - 1)

PushedNewest(c) ==    \* mutant: a merged step takes itself back, not the gesture
    IF c.key # NoKey /\ c.key = openKey /\ undoStack # <<>>
    THEN Append(Below(undoStack), c)
    ELSE IF Len(undoStack) < MaxSize THEN Append(undoStack, c)
    ELSE Append(Tail(undoStack), c)

\* The stack with a command on it: a continuation of the open step is merged
\* into it, and keeps the newest redo and the oldest undo.
Pushed(c) ==
    IF c.key # NoKey /\ c.key = openKey /\ undoStack # <<>>
    THEN Append(Below(undoStack), Command(c.redo, Latest(undoStack).undo, c.key))
    ELSE IF Len(undoStack) < MaxSize THEN Append(undoStack, c)
    ELSE Append(Tail(undoStack), c)

\* CommandStack.execute, and what it leaves open.
Executed(c) ==
    /\ edits < MaxEdits /\ edits' = edits + 1
    /\ store' = Apply(c.redo, store)
    /\ undoStack' = Pushed(c)
    /\ redoStack' = <<>>
Execute(c) == Executed(c) /\ openKey' = c.key

\* CommandStack.seal, undo, redo and clear.
Seal == openKey' = NoKey
Undo ==
    /\ undoStack # <<>>
    /\ store' = Apply(Latest(undoStack).undo, store)
    /\ undoStack' = Below(undoStack)
    /\ redoStack' = Append(redoStack, Latest(undoStack))
    /\ Seal
    /\ UNCHANGED <<minted, edits>>
Redo ==
    /\ redoStack # <<>>
    /\ store' = Apply(Latest(redoStack).redo, store)
    /\ redoStack' = Below(redoStack)
    /\ undoStack' = Append(undoStack, Latest(redoStack))
    /\ Seal
    /\ UNCHANGED <<minted, edits>>
Clear == undoStack' = <<>> /\ redoStack' = <<>> /\ Seal

-----------------------------------------------------------------------------
(* The edits.                                                              *)

\* addFeature and addReceiver, called with a fresh id and in the store's CRS.
Add(list, id, shape, props) ==
    LET x == [id |-> id, shape |-> shape, crs |-> store.crs, props |-> props]
    IN  /\ id \in MintedIds \ minted /\ minted' = minted \cup {id}
        /\ Execute(Command([do |-> "append", list |-> list, x |-> x],
                           [do |-> "drop", list |-> list, id |-> id], NoKey))

\* Callers look for a feature of the id first, and for a receiver only without one.
Found(list, id) ==
    /\ id \in IdsIn(store[list])
    /\ list = "receivers" => id \notin IdsIn(store.features)

Held(list, id) == store[list][FirstOf(store[list], id)]
PutCommand(list, x, key) ==
    Command([do |-> "put", list |-> list, x |-> x],
            [do |-> "put", list |-> list, x |-> Held(list, x.id)], key)

\* updateFeature and updateReceiver.
Update(list, id, props) ==
    /\ Found(list, id)
    /\ Execute(PutCommand(list, [Held(list, id) EXCEPT !.props = props], NoKey))
    /\ UNCHANGED minted

ReshapeCommandKeyless(list, id, shape, crs) ==   \* mutant: one key for every object
    PutCommand(list, [Held(list, id) EXCEPT !.shape = shape, !.crs = crs], "geometry")

\* updateFeatureGeometry and updateReceiverGeometry: the key is the object's.
ReshapeCommand(list, id, shape, crs) ==
    PutCommand(list, [Held(list, id) EXCEPT !.shape = shape, !.crs = crs], id)
Reshape(list, id, shape, crs) ==
    /\ Found(list, id)
    /\ Execute(ReshapeCommand(list, id, shape, crs))
    /\ UNCHANGED minted

\* updateFeatures, as the sign-off calls it: a Map of the store by id, so of
\* namesakes the last, each of which takes the first free position of its id.
SignOff(ids, props) ==
    LET last(id) == CHOOSE i \in Positions(store.features, id) :
                        \A j \in Positions(store.features, id) : j <= i
        due == {id \in ids \cap IdsIn(store.features) : store.features[last(id)].props # props}
        spots == {FirstOf(store.features, id) : id \in due}
    IN  /\ due # {}
        /\ Execute(Command(
               [do |-> "swap", by |-> [i \in spots |->
                   [store.features[last(store.features[i].id)] EXCEPT !.props = props]]],
               [do |-> "swap", by |-> [i \in spots |-> store.features[i]]], NoKey))
        /\ UNCHANGED minted

RemoveToTheEnd(list, id) ==    \* mutant: undo puts it back at the end
    LET at == FirstOf(store[list], id)
    IN  /\ Found(list, id)
        /\ Execute(Command([do |-> "drop", list |-> list, id |-> id],
                           [do |-> "append", list |-> list, x |-> store[list][at]], NoKey))
        /\ UNCHANGED minted

\* removeFeature and removeReceiver.
Remove(list, id) ==
    LET at == FirstOf(store[list], id)
    IN  /\ Found(list, id)
        /\ Execute(Command([do |-> "drop", list |-> list, id |-> id],
                           [do |-> "splice", list |-> list, at |-> at, x |-> store[list][at]],
                           NoKey))
        /\ UNCHANGED minted

\* setCalcArea and clearCalcArea.
SetArea(area) ==
    /\ area = NoArea => store.area # NoArea
    /\ Execute(Command([do |-> "area", area |-> area], [do |-> "area", area |-> store.area], NoKey))
    /\ UNCHANGED minted

-----------------------------------------------------------------------------
(* Models from outside.                                                    *)

\* Of a list, in order, the first of each id that is not taken.
Untaken(list, taken) ==
    Kept(list, {i \in DOMAIN list : /\ list[i].id \notin taken
                                    /\ \A j \in 1..(i - 1) : list[j].id # list[i].id})

EmptyOf(m) == m.features = <<>> /\ m.receivers = <<>> /\ m.area = NoArea

PlanMergeApart(m, file) ==    \* mutant: receivers may take the id of a feature
    [features |-> Untaken(file.features, IdsIn(m.features)),
     receivers |-> Untaken(file.receivers, IdsIn(m.receivers)),
     area |-> IF m.area # NoArea THEN m.area ELSE file.area,
     crs |-> IF EmptyOf(m) THEN file.crs ELSE m.crs]

\* planMerge: ids are one namespace, what the workspace has wins, and only an
\* empty workspace takes the file's CRS.
PlanMerge(m, file) ==
    LET held == IdsIn(m.features) \cup IdsIn(m.receivers)
        features == Untaken(file.features, held)
    IN  [features |-> features,
         receivers |-> Untaken(file.receivers, held \cup IdsIn(features)),
         area |-> IF m.area # NoArea THEN m.area ELSE file.area,
         crs |-> IF EmptyOf(m) THEN file.crs ELSE m.crs]

LandsNothing(plan, m) ==
    plan.features = <<>> /\ plan.receivers = <<>> /\ plan.area = m.area /\ plan.crs = m.crs

\* mergeModel.  Undo drops what landed by its ids.
Merge(file) ==
    LET plan == PlanMerge(store, file)
    IN  /\ ~LandsNothing(plan, store)
        /\ Execute(Command([do |-> "land", gone |-> {}, plan |-> plan],
                           [do |-> "unland", area |-> store.area, crs |-> store.crs,
                            ids |-> IdsIn(plan.features) \cup IdsIn(plan.receivers)], NoKey))
        /\ UNCHANGED minted

\* planReplaceBuildings: OpenStreetMap's buildings inside the box go.  The box
\* is in degrees, so a workspace in metres is refused.
Comparable(m) == EmptyOf(m) \/ m.crs = "lonlat"
Boxed(m, box) == {x \in {m.features[i] : i \in DOMAIN m.features} :
                      x.id \in OSMIds /\ x.shape \in box}
Rest(m, gone) == [m EXCEPT !.features = Outside(@, gone)]

\* replaceBuildingsInBBox.  Undo restores the arrays as they were.
ReplaceBuildings(file, box) ==
    LET gone == Boxed(store, box)
        plan == PlanMerge(Rest(store, gone), file)
    IN  /\ Comparable(store)
        /\ gone # {} \/ ~LandsNothing(plan, store)
        /\ Execute(Command([do |-> "land", gone |-> gone, plan |-> plan],
                           [do |-> "restore", model |-> store], NoKey))
        /\ UNCHANGED minted

\* loadModel, hydrateModel and reset.
Load(model) ==
    /\ store' = model
    /\ Clear
    /\ UNCHANGED <<minted, edits>>

EditInit ==
    /\ store = EmptyModel
    /\ undoStack = <<>> /\ redoStack = <<>> /\ openKey = NoKey
    /\ minted = {} /\ edits = 0

EditModel ==
    \/ \E list \in Lists, id \in MintedIds, s \in Shapes, p \in Props : Add(list, id, s, p)
    \/ \E list \in Lists : \E id \in IdsIn(store[list]) :
          \/ Remove(list, id)
          \/ \E p \in Props : Update(list, id, p)
          \/ \E s \in Shapes : Reshape(list, id, s, store.crs)
    \/ \E ids \in SUBSET IdsIn(store.features), p \in Props : SignOff(ids, p)
    \/ \E a \in {NoArea, "area"} : SetArea(a)
    \/ \E f \in Files : Merge(f) \/ \E box \in SUBSET Shapes : ReplaceBuildings(f, box)

\* sealHistory, called by a gesture that ends with or without an edit.
SealHistory == openKey # NoKey /\ Seal /\ UNCHANGED <<store, undoStack, redoStack, minted, edits>>

EditNext ==
    \/ EditModel \/ Undo \/ Redo \/ SealHistory
    \/ \E m \in Files \cup {EmptyModel} : m # store /\ Load(m)

EditSpec == EditInit /\ [][EditNext]_editVars

-----------------------------------------------------------------------------
(* Files that are sound.  The store takes any, and only the validator speaks of *)
(* an id that two objects share; the edits address their objects by id.         *)

EachOnce(list) == \A i, j \in 1..Len(list) : list[i].id = list[j].id => i = j
OneObjectPerId(m) ==
    /\ EachOnce(m.features) /\ EachOnce(m.receivers)
    /\ IdsIn(m.features) \cap IdsIn(m.receivers) = {}
FilesAreSound == \A f \in Files : OneObjectPerId(f)

-----------------------------------------------------------------------------
\* The values the variables take.
EditTypeOK ==
    /\ \A list \in Lists : \A i \in DOMAIN store[list] :
          store[list][i].crs \in {"lonlat", "metric"} /\ store[list][i].props \in Props
    /\ store.area \in {NoArea, "area"} /\ store.crs \in {"lonlat", "metric"}
    /\ Len(undoStack) <= MaxSize
    /\ minted \subseteq MintedIds /\ edits \in 0..MaxEdits

\* The states undo or redo would walk through from one, were they asked for all of them.
Walked(from, stack, side) ==
    LET m[i \in 1..(Len(stack) + 1)] ==
            IF i > Len(stack) THEN from ELSE Apply(stack[i][side], m[i + 1])
    IN  [i \in DOMAIN stack |-> m[i]]
Past == Walked(store, undoStack, "undo")
Future == Walked(store, redoStack, "redo")

\* The workspace's history is a line of models, walked back and forth, though no
\* command holds a model: each patch finds the model it was captured from, however
\* edits were merged, forgotten, undone and redone (command-stack.ts:69-115).
History == INSTANCE SnapshotHistory WITH Depth <- MaxSize, present <- store, past <- Past,
                                         future <- Future, open <- openKey # NoKey
HistoryImplemented == History!Spec

\* An object as a file brought it, but for its properties.
AsFiled(x) ==
    \E f \in Files, list \in Lists : \E i \in DOMAIN f[list] :
        f[list][i].id = x.id /\ f[list][i].shape = x.shape /\ f[list][i].crs = x.crs

\* `crs` is "the CRS the stored coordinates are in" (model-store.ts:25), but
\* mergeModel adds a file in another CRS as it is.  That is the one exception:
\* no answer of a projection, however late, and no undo or redo puts
\* coordinates into a store that declares another CRS than they were made in.
CoordinatesAreTheStoresOrAFiles ==
    \A list \in Lists : \A i \in DOMAIN store[list] :
        store[list][i].crs = store.crs \/ AsFiled(store[list][i])
==============================================================================
