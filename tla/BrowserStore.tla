---------------------------- MODULE BrowserStore ----------------------------
(***************************************************************************)
(* The run store of browser mode (api/browser-backend.ts on top of         *)
(* api/browser-storage.ts).  IndexedDB is shared by every tab of the       *)
(* origin and holds one document, the list of runs with the high-water     *)
(* mark their ids are minted from, and beside it one byte record per run,  *)
(* its raster.  Every tab keeps a copy of the document, which its reads    *)
(* are served from, and every writer holds one origin-wide lock.           *)
(*                                                                         *)
(* A run is [id, by, exports]: `by` counts the computations of the origin  *)
(* in the order they started, so it is the run's start time and names its  *)
(* payload, and `exports` counts the export bundles stored inside it.      *)
(* Each step below ends where the code awaits.                             *)
(***************************************************************************)
EXTENDS Naturals, Sequences, FiniteSets

CONSTANTS Tab,          \* the open tabs of the origin
          NoTab,        \* the lock's holder when nobody holds it
          MaxStored,    \* MAX_STORED_RUNS
          MaxComputes,  \* bound: computations started
          MaxExports,   \* bound: export bundles per run
          MaxIncidents  \* bound: reads and writes IndexedDB refuses, tabs closed
                        \* and object URLs minted, together

ASSUME TabAssumption == NoTab \notin Tab
ASSUME BoundAssumption ==
    /\ MaxStored \in Nat \ {0}
    /\ {MaxComputes, MaxExports, MaxIncidents} \subseteq Nat

VARIABLES
    doc,        \* the stored document: [runs, mark]
    bytes,      \* the byte records: run id -> the computation they hold, 0 for none
    lock,       \* the holder of the Web Lock
    queue,      \* the tabs waiting for it, first come first served
    cache,      \* each tab's in-memory `state`
    loaded,     \* whether `state` is set at all
    swept,      \* sweptOrphanedBytes, once per session
    pc,         \* where each tab's writer stands
    op,         \* what it is doing: [kind, id, by, drop]
    readable,   \* whether every read of the store it made for that was answered
    outcome,    \* how it ended
    urls,       \* urlCache: run id -> the computation its object URL shows, 0 for none
    forgets,    \* deletes of byte records nobody waits for
    computed,   \* computations started so far
    incidents,  \* what has gone wrong, or been looked at, so far
    blind,      \* history: a tab has written after a read that failed
    taken,      \* history: computations whose raster a late delete removed
    unstored    \* history: computations whose store failed

storeVars == <<doc, bytes>>
tabVars == <<cache, loaded, swept, urls>>
writerVars == <<pc, op, readable, outcome>>
counters == <<computed, incidents>>
history == <<blind, taken, unstored>>
storageVars == <<doc, bytes, lock, queue, cache, loaded, swept, pc, op,
                 readable, outcome, urls, forgets, computed, incidents, blind, taken,
                 unstored>>

-----------------------------------------------------------------------------
(* The data.                                                               *)

Ids == 1..MaxComputes
Computation == 1..MaxComputes
Run == [id: Ids, by: Computation, exports: 0..MaxExports]
Document == [runs: SUBSET Run, mark: 0..MaxComputes]

\* initialState: what a tab starts from, and what an empty store decodes to.
InitialState == [runs |-> {}, mark |-> 0]

NoOp == [kind |-> "none", id |-> 0, by |-> 0, drop |-> {}]
IdsOf(runs) == {r.id : r \in runs}
Oldest(runs) == CHOOSE r \in runs : \A s \in runs : r.by <= s.by
Newest(n, runs) == {r \in runs : Cardinality({s \in runs : s.by > r.by}) < n}

SetRunUncapped(state, run) ==   \* mutant: nothing falls off the end
    [runs |-> {r \in state.runs : r.id # run.id} \cup {run},
     mark |-> IF run.id > state.mark THEN run.id ELSE state.mark]

\* setRun: the run replaces its namesake, the list is capped, the mark is raised.
SetRun(state, run) ==
    LET all == {r \in state.runs : r.id # run.id} \cup {run}
    IN  [runs |-> Newest(MaxStored, all),
         mark |-> IF run.id > state.mark THEN run.id ELSE state.mark]

\* evictOldestRun: the oldest run that is not the one being written.
Evictable(state, keep) == {r \in state.runs : r.id # keep}
Evicted(state, keep) ==
    [state EXCEPT !.runs = @ \ {Oldest(Evictable(state, keep))}]

NextIdOfTheList(state) ==   \* mutant: one above the highest run listed
    CHOOSE i \in 1..(MaxComputes + 1) :
        /\ \A r \in state.runs : r.id < i
        /\ i = 1 \/ i - 1 \in IdsOf(state.runs)

\* nextRunID: minted from the mark, never from the list.
NextId(state) == state.mark + 1

\* pruneURLCache: URLs of artifacts no stored run has any more are revoked.
Pruned(t, runs) ==
    [i \in Ids |-> IF i \in IdsOf(runs) THEN urls[t][i] ELSE 0]

-----------------------------------------------------------------------------
Init ==
    /\ doc = InitialState
    /\ bytes = [i \in Ids |-> 0]
    /\ lock = NoTab
    /\ queue = <<>>
    /\ cache = [t \in Tab |-> InitialState]
    /\ loaded = [t \in Tab |-> FALSE]
    /\ swept = [t \in Tab |-> FALSE]
    /\ pc = [t \in Tab |-> "idle"]
    /\ op = [t \in Tab |-> NoOp]
    /\ readable = [t \in Tab |-> TRUE]
    /\ outcome = [t \in Tab |-> "none"]
    /\ urls = [t \in Tab |-> [i \in Ids |-> 0]]
    /\ forgets = {}
    /\ computed = 0 /\ incidents = 0
    /\ blind = FALSE
    /\ taken = {}
    /\ unstored = {}

-----------------------------------------------------------------------------
(* Pieces of the writers' steps.                                           *)

Incident == incidents < MaxIncidents /\ incidents' = incidents + 1
Smoothly == UNCHANGED incidents

\* loadState as reloadState calls it, and whether the write that follows it is
\* accepted: the store's document replaces the copy, and a read that fails
\* keeps the copy the tab has.
ReadsThen(t, state, accepted) ==
    \E heard \in BOOLEAN :
       /\ state = IF heard THEN doc ELSE cache[t]
       /\ readable' = [readable EXCEPT ![t] = @ /\ heard]
       /\ incidents' = incidents + (IF heard THEN 0 ELSE 1) + (IF accepted THEN 0 ELSE 1)
       /\ incidents' <= MaxIncidents

Reads(t, state) == ReadsThen(t, state, TRUE)
Seen(t) == {doc, cache[t]}

\* savePersistedStateForgetting: the document and the byte records of the runs
\* it drops change in one transaction.
Commits(t, dropped, after) ==
    /\ doc' = after
    /\ bytes' = [i \in Ids |-> IF i \in dropped THEN 0 ELSE bytes[i]]
    /\ blind' = (blind \/ ~readable'[t])
Uncommitted == UNCHANGED <<doc, bytes, blind>>

Goto(t, label) == pc' = [pc EXCEPT ![t] = label]
Ends(t, how) ==
    /\ Goto(t, "end")
    /\ outcome' = [outcome EXCEPT ![t] = how]

\* forgetArtifactBytes: the delete is started and nobody waits for it.
Forgets(t) == forgets' = forgets \cup {[tab |-> t, id |-> op[t].id, by |-> op[t].by]}

Caches(t, state) == cache' = [cache EXCEPT ![t] = state]
Revokes(t, state) == urls' = [urls EXCEPT ![t] = Pruned(t, state.runs)]

-----------------------------------------------------------------------------
(* Reading: the first read of a tab, and the object URL of an artifact.    *)

\* ensureLoaded: the first read of a session.
Load(t) ==
    /\ pc[t] = "idle" /\ ~loaded[t]
    /\ \/ Caches(t, doc) /\ Smoothly
       \/ UNCHANGED cache /\ Incident
    /\ loaded' = [loaded EXCEPT ![t] = TRUE]
    /\ UNCHANGED <<storeVars, lock, queue, swept, writerVars, urls, forgets,
                   computed, history>>

\* getArtifactURL: served from urlCache, minted from the tab's copy when absent.
ViewArtifact(t) ==
    /\ loaded[t] /\ Incident
    /\ \E r \in cache[t].runs :
          /\ urls[t][r.id] = 0
          /\ urls' = [urls EXCEPT ![t][r.id] = r.by]
    /\ UNCHANGED <<storeVars, lock, queue, cache, loaded, swept, writerVars,
                   forgets, computed, history>>

-----------------------------------------------------------------------------
(* The lock: withStoreLock and the sweep it runs first.                    *)

\* startRun, createExport and deleteRun reach withStoreLock.
Request(t) ==
    /\ pc[t] = "idle"
    /\ \/ /\ computed + Cardinality({u \in Tab : op[u].kind = "run" /\ op[u].by = 0})
                < MaxComputes
          /\ op' = [op EXCEPT ![t] = [NoOp EXCEPT !.kind = "run"]]
       \/ \E r \in cache[t].runs, kind \in {"export", "delete"} :
             /\ loaded[t]
             /\ kind = "export" => r.exports < MaxExports
             /\ op' = [op EXCEPT ![t] = [kind |-> kind, id |-> r.id, by |-> r.by, drop |-> {}]]
    /\ queue' = Append(queue, t)
    /\ Goto(t, "waiting")
    /\ UNCHANGED <<storeVars, lock, tabVars, readable, outcome, forgets,
                   counters, history>>

\* locks.request: granted in the order it was asked for, on every tab.
Acquire(t) ==
    /\ pc[t] = "waiting" /\ lock = NoTab /\ Head(queue) = t
    /\ lock' = t
    /\ queue' = Tail(queue)
    /\ Goto(t, IF swept[t] THEN "begin" ELSE "sweep")
    /\ UNCHANGED <<storeVars, tabVars, op, readable, outcome, forgets, counters,
                   history>>

SweepReadAnyway(t) ==   \* mutant: a list that was not read is swept by
    /\ pc[t] = "sweep"
    /\ swept' = [swept EXCEPT ![t] = TRUE]
    /\ loaded' = [loaded EXCEPT ![t] = TRUE]
    /\ \E state \in Seen(t) : Reads(t, state) /\ Caches(t, state)
    /\ Goto(t, "sweepDelete")
    /\ UNCHANGED <<storeVars, lock, queue, op, outcome, urls, forgets, computed,
                   history>>

\* sweepOrphanedArtifactBytes: reads the document, and refuses to go on with a
\* list it did not read from the store.
SweepRead(t) ==
    /\ pc[t] = "sweep"
    /\ swept' = [swept EXCEPT ![t] = TRUE]
    /\ loaded' = [loaded EXCEPT ![t] = TRUE]
    /\ \E state \in Seen(t) : Reads(t, state) /\ Caches(t, state)
    /\ Goto(t, IF readable'[t] THEN "sweepDelete" ELSE "begin")
    /\ UNCHANGED <<storeVars, lock, queue, op, outcome, urls, forgets, computed,
                   history>>

\* listArtifactBytesIDs and deleteArtifactBytes: the records nothing names go.
SweepDelete(t) ==
    /\ pc[t] = "sweepDelete"
    /\ \/ /\ bytes' = [i \in Ids |->
                 IF i \in IdsOf(cache[t].runs) THEN bytes[i] ELSE 0]
          /\ Smoothly
       \/ Incident /\ UNCHANGED bytes
    /\ Goto(t, "begin")
    /\ UNCHANGED <<doc, lock, queue, tabVars, op, readable, outcome, forgets,
                   computed, history>>

\* The promise of withStoreLock settles, and the lock goes to the next tab.
Release(t) ==
    /\ pc[t] = "end"
    /\ lock' = NoTab
    /\ Goto(t, "idle")
    /\ op' = [op EXCEPT ![t] = NoOp]
    /\ readable' = [readable EXCEPT ![t] = TRUE]
    /\ outcome' = [outcome EXCEPT ![t] = "none"]
    /\ UNCHANGED <<storeVars, queue, tabVars, forgets, counters, history>>

-----------------------------------------------------------------------------
(* computeRLS19Road: mint, compute, raster, document.                      *)

\* The id is minted from the store as it is under the lock.
Mint(t) ==
    /\ pc[t] = "begin" /\ op[t].kind = "run"
    /\ \E state \in Seen(t) :
          /\ Reads(t, state)
          /\ Caches(t, state)
          /\ op' = [op EXCEPT ![t].id = NextId(state), ![t].by = computed + 1]
    /\ loaded' = [loaded EXCEPT ![t] = TRUE]
    /\ computed' = computed + 1
    /\ Goto(t, "compute")
    /\ UNCHANGED <<storeVars, lock, queue, swept, outcome, urls, forgets,
                   history>>

\* The kernel answers, or refuses, or the run is cancelled before it is saved.
Compute(t) ==
    /\ pc[t] = "compute"
    /\ \/ Goto(t, "raster") /\ UNCHANGED outcome
       \/ Ends(t, "failed")
    /\ UNCHANGED <<storeVars, lock, queue, tabVars, op, readable, forgets,
                   counters, history>>

WritesRaster(t) ==
    /\ bytes' = [bytes EXCEPT ![op[t].id] = op[t].by]
    /\ blind' = (blind \/ ~readable[t])

\* saveRasterBytes, first attempt: a quota failure goes on to evict.
SaveRaster(t) ==
    /\ pc[t] = "raster"
    /\ \/ WritesRaster(t) /\ Smoothly /\ Goto(t, "saved") /\ UNCHANGED outcome
       \/ /\ Incident
          /\ Goto(t, "evict") /\ UNCHANGED <<bytes, outcome, blind>>
       \/ /\ Incident
          /\ Ends(t, "failed") /\ UNCHANGED <<bytes, blind>>
    /\ UNCHANGED <<doc, lock, queue, tabVars, op, readable, forgets, computed,
                   taken, unstored>>

\* saveRasterBytes: the eviction is a document of its own; one that is not
\* committed is taken back from the copy.
EvictForRaster(t) ==
    /\ pc[t] = "evict"
    /\ \E state \in Seen(t) :
          LET evicted == Evicted(state, op[t].id)
          IN  \/ /\ Reads(t, state)
                 /\ Evictable(state, op[t].id) = {}
                 /\ Caches(t, state)
                 /\ Ends(t, "failed") /\ Uncommitted /\ UNCHANGED urls
              \/ /\ Reads(t, state)
                 /\ Evictable(state, op[t].id) # {}
                 /\ Caches(t, evicted) /\ Revokes(t, evicted)
                 /\ Commits(t, IdsOf(state.runs) \ IdsOf(evicted.runs), evicted)
                 /\ Goto(t, "rasterAgain") /\ UNCHANGED outcome
              \/ /\ ReadsThen(t, state, FALSE)
                 /\ Evictable(state, op[t].id) # {}
                 /\ Caches(t, state) /\ Revokes(t, evicted)
                 /\ Ends(t, "failed") /\ Uncommitted
    /\ UNCHANGED <<lock, queue, loaded, swept, op, forgets, computed, taken,
                   unstored>>

\* saveRasterBytes, second attempt: a failure leaves the eviction standing.
SaveRasterAgain(t) ==
    /\ pc[t] = "rasterAgain"
    /\ \/ WritesRaster(t) /\ Smoothly /\ Goto(t, "saved") /\ UNCHANGED outcome
       \/ Incident /\ Ends(t, "failed") /\ UNCHANGED <<bytes, blind>>
    /\ UNCHANGED <<doc, lock, queue, tabVars, op, readable, forgets, computed,
                   taken, unstored>>

\* The last look at the signal: a run cancelled during the write drops its bytes.
CheckAbandoned(t) ==
    /\ pc[t] = "saved"
    /\ \/ Goto(t, "persist") /\ UNCHANGED <<outcome, forgets>>
       \/ Ends(t, "failed") /\ Forgets(t)
    /\ UNCHANGED <<storeVars, lock, queue, tabVars, op, readable, counters,
                   history>>

-----------------------------------------------------------------------------
(* persistRun, for a run and for an export, and the two other writers.     *)

\* createExport: the run is read from the store, under the lock.
FindForExport(t) ==
    /\ pc[t] = "begin" /\ op[t].kind = "export"
    /\ \E state \in Seen(t) :
          /\ Reads(t, state)
          /\ Caches(t, state)
          /\ \/ op[t].id \in IdsOf(state.runs) /\ Goto(t, "persist") /\ UNCHANGED outcome
             \/ op[t].id \notin IdsOf(state.runs) /\ Ends(t, "failed")
    /\ UNCHANGED <<storeVars, lock, queue, loaded, swept, op, urls, forgets,
                   computed, history>>

\* The record the writer stores: the new run, or the run it read with one more
\* bundle in it.
ToStore(t) ==
    IF op[t].kind = "run"
    THEN [id |-> op[t].id, by |-> op[t].by, exports |-> 0]
    ELSE LET r == CHOOSE s \in cache[t].runs : s.id = op[t].id
         IN  [r EXCEPT !.exports = IF @ < MaxExports THEN @ + 1 ELSE @]

\* computeRLS19Road drops the raster of a run that could not be stored; an
\* export has none.
ForgetsIfRun(t) ==
    IF op[t].kind = "run"
    THEN Forgets(t) /\ unstored' = unstored \cup {op[t].by}
    ELSE UNCHANGED <<forgets, unstored>>

\* persistRun, first attempt: the copy is updated before the store.  A quota
\* failure goes on to evict, any other ends it.
PersistRun(t) ==
    /\ pc[t] = "persist"
    /\ \E state \in Seen(t) :
          LET next == SetRun(state, ToStore(t))
              drop == IdsOf(state.runs) \ IdsOf(next.runs)
          IN  /\ Caches(t, next) /\ Revokes(t, next)
              /\ \/ /\ Reads(t, state)
                    /\ Commits(t, drop, next)
                    /\ Ends(t, "stored") /\ UNCHANGED <<forgets, unstored, op>>
                 \/ /\ ReadsThen(t, state, FALSE)
                    /\ op' = [op EXCEPT ![t].drop = drop]
                    /\ Goto(t, "evictAndPersist")
                    /\ Uncommitted /\ UNCHANGED <<outcome, forgets, unstored>>
                 \/ /\ ReadsThen(t, state, FALSE)
                    /\ Ends(t, "failed") /\ ForgetsIfRun(t)
                    /\ Uncommitted /\ UNCHANGED op
    /\ UNCHANGED <<lock, queue, loaded, swept, computed, taken>>

PersistEvictingForGood(t) ==   \* mutant: a failed eviction stays in the copy
    /\ pc[t] = "evictAndPersist"
    /\ LET room == Evictable(cache[t], op[t].id)
           evicted == Evicted(cache[t], op[t].id)
       IN  /\ room # {} /\ UNCHANGED readable
           /\ Caches(t, evicted) /\ Revokes(t, evicted)
           /\ \/ Commits(t, op[t].drop \cup {Oldest(room).id}, evicted)
                 /\ Smoothly /\ Ends(t, "stored") /\ UNCHANGED <<forgets, unstored>>
              \/ Uncommitted /\ Incident /\ Ends(t, "failed") /\ ForgetsIfRun(t)
    /\ UNCHANGED <<lock, queue, loaded, swept, op, computed, taken>>

\* persistRun, after a quota failure: the oldest other run makes room.  The
\* retry carries what the first attempt would have dropped as well, and when
\* it fails the eviction is taken back from the copy.
PersistEvicting(t) ==
    /\ pc[t] = "evictAndPersist"
    /\ LET next == cache[t]
           room == Evictable(next, op[t].id)
           evicted == Evicted(next, op[t].id)
       IN  \/ /\ room = {}
              /\ Ends(t, "failed") /\ ForgetsIfRun(t)
              /\ Uncommitted /\ UNCHANGED <<cache, urls, incidents, readable>>
           \/ /\ room # {}
              /\ Caches(t, evicted) /\ Revokes(t, evicted)
              /\ UNCHANGED readable
              /\ Commits(t, op[t].drop \cup {Oldest(room).id}, evicted)
              /\ Ends(t, "stored")
              /\ Smoothly /\ UNCHANGED <<forgets, unstored>>
           \/ /\ room # {} /\ Incident
              /\ Caches(t, next) /\ Revokes(t, evicted)
              /\ Ends(t, "failed") /\ ForgetsIfRun(t)
              /\ Uncommitted /\ UNCHANGED readable
    /\ UNCHANGED <<lock, queue, loaded, swept, op, computed, taken>>

\* deleteRun: the run and its raster leave together.  The copy loses the run
\* before the store does, and keeps the loss when the write fails.
DeleteRun(t) ==
    /\ pc[t] = "begin" /\ op[t].kind = "delete"
    /\ \E state \in Seen(t) :
          LET without == [state EXCEPT !.runs = {r \in @ : r.id # op[t].id}]
          IN  \/ /\ Reads(t, state)
                 /\ op[t].id \notin IdsOf(state.runs)
                 /\ Caches(t, state)
                 /\ Ends(t, "failed") /\ Uncommitted /\ UNCHANGED urls
              \/ /\ op[t].id \in IdsOf(state.runs)
                 /\ Caches(t, without) /\ Revokes(t, without)
                 /\ \/ /\ Reads(t, state)
                       /\ Commits(t, {op[t].id}, without)
                       /\ Ends(t, "stored")
                    \/ /\ ReadsThen(t, state, FALSE)
                       /\ Ends(t, "failed") /\ Uncommitted
    /\ UNCHANGED <<lock, queue, loaded, swept, op, forgets, computed, taken,
                   unstored>>

-----------------------------------------------------------------------------
(* What nobody waits for, and the end of a tab.                            *)

\* The delete forgetArtifactBytes started, whenever its transaction runs; a
\* failure is swallowed.
ForgetLands(f) ==
    /\ forgets' = forgets \ {f}
    /\ \/ /\ bytes' = [bytes EXCEPT ![f.id] = 0]
          /\ taken' = taken \cup ({bytes[f.id]} \ {0, f.by})
          /\ Smoothly
       \/ Incident /\ UNCHANGED <<bytes, taken>>
    /\ UNCHANGED <<doc, lock, queue, tabVars, writerVars, computed, blind, unstored>>

\* A closed tab gives up its place in the queue; a tab waits in one place at most.
LeavesQueue(t) ==
    LET at == CHOOSE i \in DOMAIN queue : queue[i] = t
    IN  queue' = IF pc[t] = "waiting"
                 THEN SubSeq(queue, 1, at - 1) \o SubSeq(queue, at + 1, Len(queue))
                 ELSE queue

\* The tab is closed and opened again: its module state and what it had not
\* committed are gone, and its lock and its place in the queue are given up.
Close(t) ==
    /\ pc[t] # "idle" \/ loaded[t]
    /\ Incident
    /\ lock' = IF lock = t THEN NoTab ELSE lock
    /\ LeavesQueue(t)
    /\ Caches(t, InitialState)
    /\ loaded' = [loaded EXCEPT ![t] = FALSE]
    /\ swept' = [swept EXCEPT ![t] = FALSE]
    /\ urls' = [urls EXCEPT ![t] = [i \in Ids |-> 0]]
    /\ Goto(t, "idle")
    /\ op' = [op EXCEPT ![t] = NoOp]
    /\ readable' = [readable EXCEPT ![t] = TRUE]
    /\ outcome' = [outcome EXCEPT ![t] = "none"]
    /\ forgets' = {f \in forgets : f.tab # t}
    /\ UNCHANGED <<storeVars, computed, history>>

-----------------------------------------------------------------------------
\* The steps of a writer that holds the lock.
Writes(t) ==
    \/ SweepRead(t) \/ SweepDelete(t)
    \/ Mint(t) \/ Compute(t) \/ SaveRaster(t) \/ EvictForRaster(t)
    \/ SaveRasterAgain(t) \/ CheckAbandoned(t)
    \/ FindForExport(t) \/ PersistRun(t) \/ PersistEvicting(t) \/ DeleteRun(t)
    \/ Release(t)

Next ==
    \/ \E t \in Tab :
          \/ Load(t) \/ ViewArtifact(t) \/ Request(t) \/ Acquire(t)
          \/ Writes(t) \/ Close(t)
    \/ \E f \in forgets : ForgetLands(f)

Spec == Init /\ [][Next]_storageVars

-----------------------------------------------------------------------------
(* Safety.                                                                 *)

\* The store never holds more runs than MAX_STORED_RUNS, nor two of one id, nor
\* a run above its mark, and whoever is past the queue holds the lock.
TypeOK ==
    /\ doc \in Document /\ cache \in [Tab -> Document]
    /\ Cardinality(doc.runs) <= MaxStored
    /\ \A r, s \in doc.runs : r.id = s.id => r = s
    /\ \A r \in doc.runs : r.id <= doc.mark
    /\ bytes \in [Ids -> {0} \cup Computation]
    /\ lock \in Tab \cup {NoTab} /\ queue \in Seq(Tab)
    /\ loaded \in [Tab -> BOOLEAN] /\ swept \in [Tab -> BOOLEAN]
    /\ readable \in [Tab -> BOOLEAN]
    /\ pc \in [Tab -> {"idle", "waiting", "sweep", "sweepDelete", "begin", "compute",
                       "raster", "evict", "rasterAgain", "saved", "persist",
                       "evictAndPersist", "end"}]
    /\ \A t \in Tab : lock = t <=> pc[t] \notin {"idle", "waiting"}
    /\ op \in [Tab -> [kind: {"none", "run", "export", "delete"}, id: {0} \cup Ids,
                       by: {0} \cup Computation, drop: SUBSET Ids]]
    /\ outcome \in [Tab -> {"none", "stored", "failed"}]
    /\ urls \in [Tab -> [Ids -> {0} \cup Computation]]
    /\ forgets \subseteq [tab: Tab, id: Ids, by: Computation]
    /\ computed \in 0..MaxComputes /\ incidents \in 0..MaxIncidents
    /\ blind \in BOOLEAN /\ taken \cup unstored \subseteq Computation

\* Every stored run has the raster of the computation it lists, whichever
\* writes failed, were evicted for or were cut off by a closed tab: the document
\* is never ahead of the byte records and no sweep takes the record of a run
\* about to be named.  Two roads are excepted.  A write after a read that
\* failed merges into the tab's copy, and a delete nobody waits for can land on
\* the raster of the next run that mints the id.
StoredRunHasItsRaster ==
    ~blind => \A r \in doc.runs : bytes[r.id] = r.by \/ r.by \in taken

\* What a step of some tab may do to the list every tab shares: it adds ids that
\* were never stored before, loses the run a user deletes or the oldest of those
\* it does not itself store, and never swaps the payload of an id, drops an
\* export of a run it keeps or lowers the mark.
DocumentChangesAreDeliberate ==
    [][~blind' =>
         /\ doc'.mark >= doc.mark
         /\ \A i \in IdsOf(doc'.runs) \ IdsOf(doc.runs) : i > doc.mark
         /\ \A r \in doc.runs :
               \/ \E s \in doc'.runs :
                     s.id = r.id /\ s.by = r.by /\ s.exports >= r.exports
               \/ op[lock].kind = "delete" /\ op[lock].id = r.id
               \/ /\ r.id \notin IdsOf(doc'.runs)
                  /\ \A s \in doc'.runs : s.by > r.by \/ s.id = op[lock].id
      ]_storageVars

\* A run or an export that could not be stored leaves every stored run in the
\* list its tab shows: an eviction that was not committed is taken back.  The
\* run the cap would have dropped is the exception, and so is a failed
\* deleteRun, which takes nothing back.
FailedStoreKeepsTheList ==
    \A t \in Tab :
        /\ pc[t] = "end" /\ outcome[t] = "failed" /\ op[t].kind \in {"run", "export"}
        /\ readable[t] /\ ~blind
        => \A r \in doc.runs :
              \/ r.id \in IdsOf(cache[t].runs)
              \/ Cardinality(doc.runs) = MaxStored /\ r = Oldest(doc.runs)

\* The object URL a tab shows for a run it lists is that run's own: urlCache is
\* not consulted against the store, so an id must never come to name a second
\* payload.  It can for a run that was never stored: the tab's copy lists it
\* until the next read of the store, long enough to mint its URL, and the mark
\* that would have retired its id was not written.
OnlyALostRunsURLIsStale ==
    ~blind => \A t \in Tab : \A r \in cache[t].runs :
                 urls[t][r.id] \in {0, r.by} \cup unstored

=============================================================================
