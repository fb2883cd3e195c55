---------------------------- MODULE ChunkEngine ----------------------------
(***************************************************************************)
(* The chunked compute engine (engine.Runner): one producer, a pool of     *)
(* workers and one collector per run, over a cache directory that          *)
(* concurrent runs share: a chunk cache of each run's own, one keyed by    *)
(* content, a progress file, and the retention that prunes old runs.       *)
(*                                                                         *)
(* A run is a positive number, in the order of the run ids' names; Tiles   *)
(* is the directory the LGLN importer keeps beside the runs', and "lgln"   *)
(* sorts before "run-".  A result is the kernel's value for its inputs,    *)
(* and is represented by those inputs.                                     *)
(***************************************************************************)
EXTENDS Integers, Sequences, FiniteSets

CONSTANTS Runs,         \* engine runs, each in a process of its own
          NChunks,      \* chunks of a run
          Workers,      \* the configured number of workers
          MayDisable,   \* the runs that may be started with the chunk cache disabled
          Repeats,      \* runs whose id is used again: the warm runs of a benchmark
          Standard,     \* Standard[r]: the resolved standard of run r
          Geometry,     \* Geometry[r][c]: receivers and sources of its chunk c
          KeepLast,     \* run caches that retention keeps
          MaxFaults     \* bound on the storage failures of a behaviour

ASSUME ChunkEngineAssumption ==
    /\ Runs \subseteq Nat \ {0}
    /\ NChunks \in Nat \ {0}
    /\ Workers \in Nat \ {0}
    /\ MayDisable \subseteq Runs /\ Repeats \subseteq Runs
    /\ KeepLast \in Nat \ {0}
    /\ MaxFaults \in Nat

Chunk  == 1..NChunks
Pool   == 1..(IF Workers < NChunks THEN Workers ELSE NChunks)
Worker == Runs \X Pool
Tiles  == 0
Dirs   == Runs \cup {Tiles}

Level(r, c) == [standard |-> Standard[r], inputs |-> Geometry[r][c]]
KeyWithoutStandard(r, c) == Geometry[r][c]   \* mutant: the standard is left out of the key
Key(r, c) == Level(r, c)

Levels == {Level(r, c) : r \in Runs, c \in Chunk}
Keys   == {Key(r, c) : r \in Runs, c \in Chunk}
NoFile == [standard |-> "no file", inputs |-> 0]       \* nothing at that path
Torn   == [standard |-> "half a file", inputs |-> 0]

ASSUME FilesAssumption == NoFile \notin Levels /\ Torn \notin Levels

VARIABLES
    main,      \* main[r]: where Run is
    outcome,   \* outcome[r]: what Run returned
    parent,    \* the runs whose caller cancelled them
    stopped,   \* the runs that cancelled their own compute context
    next,      \* next[r]: the chunk the producer offers
    closed,    \* the runs whose jobs channel is closed, or was never made
    cached,    \* the runs that use the chunk cache
    at,        \* at[w]: where worker w is
    job,       \* job[w]: the chunk it works on
    val,       \* val[w]: the result it carries
    queue,     \* queue[r]: the buffered results channel
    received,  \* received[r]: the collected results by chunk
    firstErr,  \* firstErr[r]: the first failure the collector saw
    state,     \* state[r]: run-state.json
    local,     \* local[r]: the run's own chunk files
    shared,    \* shared[k]: the shared chunk files
    dirs,      \* the directories in the cache root
    pruned,    \* runs whose cache another run removed while they ran (history)
    faults     \* storage failures so far

context == <<parent, stopped>>
feed    == <<next, closed, cached>>
worker  == <<at, job, val>>
result  == <<queue, received, firstErr>>
files   == <<state, local, shared, dirs, pruned>>
vars    == <<main, outcome, context, feed, worker, result, files, faults>>

MainState == {"idle", "collecting", "persisting", "committing", "lost",
              "recording", "pruning", "returned", "killed"}
Ended     == {"completed", "canceled", "failed"}
Step      == {"none", "idle", "looking", "computing", "writing", "staged", "lost",
              "sharing", "sharestaged", "sending", "exited"}
Partial(S, T) == UNION {[D -> T] : D \in SUBSET S}
Ok(level)  == [err |-> "none", level |-> level]
Bad(error) == [err |-> error, level |-> NoFile]
Results == {Ok(level) : level \in Levels} \cup {Bad("canceled"), Bad("failed")}
NoState == [status |-> "none", done |-> 0]

TypeOK ==
    /\ main \in [Runs -> MainState]
    /\ outcome \in [Runs -> Ended \cup {"none"}]
    /\ parent \subseteq Runs /\ stopped \subseteq Runs
    /\ next \in [Runs -> 1..(NChunks + 1)]
    /\ closed \subseteq Runs /\ cached \subseteq Runs
    /\ at \in [Worker -> Step]
    /\ job \in [Worker -> Chunk \cup {0}]
    /\ val \in [Worker -> Results \cup {Bad("none")}]
    /\ queue \in [Runs -> Seq([chunk : Chunk, res : Results])]
    /\ received \in [Runs -> Partial(Chunk, Levels)]
    /\ local \in [Runs -> Partial(Chunk, Levels)]
    /\ firstErr \in [Runs -> {"none", "canceled", "failed"}]
    /\ state \in [Runs -> [status : Ended \cup {"none", "running"}, done : 0..NChunks]]
    /\ shared \in [Keys -> Levels \cup {NoFile}]
    /\ dirs \subseteq Dirs
    /\ pruned \subseteq Runs
    /\ faults \in 0..MaxFaults

Init ==
    /\ main = [r \in Runs |-> "idle"]
    /\ outcome = [r \in Runs |-> "none"]
    /\ parent = {} /\ stopped = {}
    /\ next = [r \in Runs |-> 1]
    /\ closed = {}
    /\ cached \in {Runs \ disabled : disabled \in SUBSET MayDisable}
    /\ at = [w \in Worker |-> "none"]
    /\ job = [w \in Worker |-> 0]
    /\ val = [w \in Worker |-> Bad("none")]
    /\ queue = [r \in Runs |-> <<>>]
    /\ received = [r \in Runs |-> <<>>]
    /\ firstErr = [r \in Runs |-> "none"]
    /\ state = [r \in Runs |-> NoState]
    /\ local = [r \in Runs |-> <<>>]
    /\ shared = [k \in Keys |-> NoFile]
    /\ dirs = {}
    /\ pruned = {}
    /\ faults = 0

Fault == faults < MaxFaults /\ faults' = faults + 1
Put(f, k, v) == [x \in DOMAIN f \cup {k} |-> IF x = k THEN v ELSE f[x]]
CtxDone(r) == r \in parent \cup stopped
Over(r) == main[r] \in {"returned", "killed"}
Running(r) == main[r] # "idle" /\ ~Over(r)
Live(r) == main[r] = "collecting"
MainGo(r, there) == main' = [main EXCEPT ![r] = there]

\* writeJSONFile: the directory is made, and the file is replaced whole.
WriteState(r, status, done) ==
    /\ state' = [state EXCEPT ![r] = [status |-> status, done |-> done]]
    /\ dirs' = dirs \cup {r}

-----------------------------------------------------------------------------
(* The caller, and the other tenant of the cache directory.                *)

Startable(r) ==
    \/ main[r] = "idle"
    \/ r \in Repeats /\ main[r] = "returned" /\ outcome[r] = "completed" /\ r \in closed

\* Run prepares its directories and progress file, then starts the pool.
Start(r) ==
    /\ Startable(r)
    /\ \/ /\ WriteState(r, "running", 0)
          /\ MainGo(r, "collecting")
          /\ outcome' = [outcome EXCEPT ![r] = "none"]
          /\ stopped' = stopped \ {r} /\ closed' = closed \ {r}
          /\ next' = [next EXCEPT ![r] = 1]
          /\ at' = [w \in Worker |-> IF w[1] = r THEN "idle" ELSE at[w]]
          /\ received' = [received EXCEPT ![r] = <<>>]
          /\ UNCHANGED faults
       \/ /\ Fault
          /\ MainGo(r, "returned")
          /\ outcome' = [outcome EXCEPT ![r] = "failed"]
          /\ closed' = closed \cup {r}
          /\ UNCHANGED <<stopped, next, received, state, dirs, at>>
    /\ UNCHANGED <<parent, cached, job, val, queue, firstErr, local, shared, pruned>>

Cancel(r) ==
    /\ Running(r)
    /\ parent' = parent \cup {r}
    /\ UNCHANGED <<main, outcome, stopped, feed, worker, result, files, faults>>

\* The process dies with its channels and workers, and what it committed stays.
Kill(r) ==
    /\ Running(r) /\ MainGo(r, "killed")
    /\ at' = [w \in Worker |-> IF w[1] = r THEN "exited" ELSE at[w]]
    /\ job' = [w \in Worker |-> IF w[1] = r THEN 0 ELSE job[w]]
    /\ val' = [w \in Worker |-> IF w[1] = r THEN Bad("none") ELSE val[w]]
    /\ queue' = [queue EXCEPT ![r] = <<>>]
    /\ closed' = closed \cup {r}
    /\ UNCHANGED <<outcome, context, next, cached, received, firstErr, files, faults>>

\* The LGLN importer of a server caches its tiles.
ImportTiles ==
    /\ dirs' = dirs \cup {Tiles}
    /\ UNCHANGED <<main, outcome, context, feed, worker, result, state, local, shared, pruned, faults>>

-----------------------------------------------------------------------------
(* The producer and the workers.                                           *)

\* jobs is unbuffered: the producer's send is a worker's receive.
Take(w) ==
    LET r == w[1]
    IN  /\ r \notin closed
        /\ at[w] = "idle" /\ next[r] \in Chunk
        /\ job' = [job EXCEPT ![w] = next[r]]
        /\ next' = [next EXCEPT ![r] = @ + 1]
        /\ at' = [at EXCEPT ![w] = "looking"]
        /\ UNCHANGED <<main, outcome, context, closed, cached, val, result, files, faults>>

CloseJobs(r) ==
    /\ closed' = closed \cup {r}
    /\ UNCHANGED <<main, outcome, context, next, cached, worker, result, files, faults>>

ProducerDone(r) ==
    /\ r \notin closed /\ next[r] = NChunks + 1
    /\ CloseJobs(r)

ProducerStopDeaf(r) ==     \* mutant: the send does not watch the context
    /\ r \notin closed /\ CtxDone(r) /\ next[r] \notin Chunk
    /\ CloseJobs(r)

ProducerStopOpen(r) ==     \* mutant: it returns without closing the channel
    /\ r \notin closed /\ CtxDone(r) /\ next[r] \in Chunk
    /\ next' = [next EXCEPT ![r] = NChunks + 2]
    /\ UNCHANGED <<main, outcome, context, closed, cached, worker, result, files, faults>>

\* The compute context ends while the producer waits for a free worker.
ProducerStop(r) ==
    /\ r \notin closed /\ CtxDone(r)
    /\ CloseJobs(r)

WorkerEnd(w) ==
    /\ at[w] = "idle" /\ w[1] \in closed
    /\ at' = [at EXCEPT ![w] = "exited"]
    /\ UNCHANGED <<main, outcome, context, feed, job, val, result, files, faults>>

Goes(w, there) == at' = [at EXCEPT ![w] = there] /\ UNCHANGED <<job, val>>
Carries(w, res) ==
    /\ at' = [at EXCEPT ![w] = "sending"]
    /\ val' = [val EXCEPT ![w] = res]
    /\ UNCHANGED job
BesideWorkers == <<main, outcome, context, feed, result>>

Mirror(r, c, found) ==
    IF found = Torn THEN UNCHANGED <<local, dirs>>
    ELSE local' = [local EXCEPT ![r] = Put(@, c, found)] /\ dirs' = dirs \cup {r}

\* readCachedChunk: the run's own file, then the shared one, which is mirrored
\* into the run's own if that works.
Look(w) ==
    LET r == w[1]
        c == job[w]
        found == shared[Key(r, c)]
    IN  /\ at[w] = "looking"
        /\ \/ /\ r \notin cached \/ (c \notin DOMAIN local[r] /\ found = NoFile)
              /\ Goes(w, "computing")
              /\ UNCHANGED <<files, faults>>
           \/ /\ r \in cached /\ c \in DOMAIN local[r]
              /\ Carries(w, Ok(local[r][c]))
              /\ UNCHANGED <<files, faults>>
           \/ /\ r \in cached /\ c \notin DOMAIN local[r] /\ found # NoFile
              /\ Carries(w, IF found = Torn THEN Bad("failed") ELSE Ok(found))
              /\ Mirror(r, c, found) \/ UNCHANGED <<local, dirs>>
              /\ UNCHANGED <<state, shared, pruned, faults>>
           \/ /\ r \in cached /\ Fault
              /\ Carries(w, Bad("failed"))
              /\ UNCHANGED files
        /\ UNCHANGED BesideWorkers

\* computeChunkResults asks the context before every receiver, so a context
\* that ends during the chunk may or may not be seen.
Compute(w) ==
    LET r == w[1]
    IN  /\ at[w] = "computing"
        /\ \/ /\ val' = [val EXCEPT ![w] = Ok(Level(r, job[w]))]
              /\ at' = [at EXCEPT ![w] = IF r \in cached THEN "writing" ELSE "sending"]
              /\ UNCHANGED job
           \/ CtxDone(r) /\ Carries(w, Bad("canceled"))
        /\ UNCHANGED <<BesideWorkers, files, faults>>

StageLocalCancels(w) ==    \* mutant: a worker cancels the pool before it reports
    /\ at[w] = "writing"
    /\ \/ /\ Goes(w, "staged")
          /\ dirs' = dirs \cup {w[1]}
          /\ UNCHANGED <<stopped, faults>>
       \/ /\ Fault /\ Carries(w, Bad("failed"))
          /\ stopped' = stopped \cup {w[1]}
          /\ UNCHANGED dirs
    /\ UNCHANGED <<main, outcome, parent, feed, result, state, local, shared, pruned>>

\* writeChunkCaches: the run's own file first; a temporary is written beside
\* its destination ...
StageLocal(w) ==
    /\ at[w] = "writing"
    /\ \/ /\ Goes(w, "staged")
          /\ dirs' = dirs \cup {w[1]}
          /\ UNCHANGED faults
       \/ Fault /\ Carries(w, Bad("failed")) /\ UNCHANGED dirs
    /\ UNCHANGED <<BesideWorkers, state, local, shared, pruned>>

\* ... and renamed over it, unless the directory is gone by then.
CommitLocal(w) ==
    LET r == w[1]
    IN  /\ \/ /\ at[w] = "staged"
              /\ Goes(w, "sharing")
              /\ local' = [local EXCEPT ![r] = Put(@, job[w], val[w].level)]
              /\ UNCHANGED faults
           \/ /\ at[w] = "lost"
              /\ Carries(w, Bad("failed"))
              /\ UNCHANGED <<local, faults>>
           \/ at[w] = "staged" /\ Fault /\ Carries(w, Bad("failed")) /\ UNCHANGED local
        /\ UNCHANGED <<BesideWorkers, state, shared, dirs, pruned>>

StageSharedInPlace(w) ==   \* mutant: the shared file is written in place
    /\ at[w] = "sharing"
    /\ Goes(w, "sharestaged")
    /\ shared' = [shared EXCEPT ![Key(w[1], job[w])] = Torn]
    /\ UNCHANGED <<BesideWorkers, state, local, dirs, pruned, faults>>

\* The shared file second.  Each writer has a temporary of its own.
StageShared(w) ==
    /\ at[w] = "sharing"
    /\ \/ Goes(w, "sharestaged") /\ UNCHANGED faults
       \/ Fault /\ Carries(w, Bad("failed"))
    /\ UNCHANGED <<BesideWorkers, files>>

CommitShared(w) ==
    /\ at[w] = "sharestaged"
    /\ \/ /\ shared' = [shared EXCEPT ![Key(w[1], job[w])] = val[w].level]
          /\ Carries(w, val[w])
          /\ UNCHANGED faults
       \/ Fault /\ Carries(w, Bad("failed")) /\ UNCHANGED shared
    /\ UNCHANGED <<BesideWorkers, state, local, dirs, pruned>>

\* The channel has room for every chunk.  A worker that failed takes no more.
Send(w) ==
    LET r == w[1]
    IN  /\ at[w] = "sending"
        /\ queue' = [queue EXCEPT ![r] = Append(@, [chunk |-> job[w], res |-> val[w]])]
        /\ at' = [at EXCEPT ![w] = IF val[w].err = "none" THEN "idle" ELSE "exited"]
        /\ job' = [job EXCEPT ![w] = 0]
        /\ val' = [val EXCEPT ![w] = Bad("none")]
        /\ UNCHANGED <<main, outcome, context, feed, received, firstErr, files, faults>>

-----------------------------------------------------------------------------
(* The collector, and what Run does with what it collected.                *)

Message(r) == Head(queue[r]).res
Dequeue(r) == queue' = [queue EXCEPT ![r] = Tail(@)]
BesideCollect == <<main, outcome, parent, feed, worker, local, shared, pruned>>

\* The first failure stops the workers.
CollectFailure(r) ==
    /\ Live(r) /\ queue[r] # <<>> /\ Message(r).err # "none"
    /\ firstErr[r] = "none"
    /\ firstErr' = [firstErr EXCEPT ![r] = Message(r).err]
    /\ stopped' = stopped \cup {r}
    /\ Dequeue(r)
    /\ UNCHANGED <<BesideCollect, received, state, dirs, faults>>

\* After it the channel is drained and nothing more is collected.
Drain(r) ==
    /\ Live(r) /\ queue[r] # <<>> /\ firstErr[r] # "none"
    /\ Dequeue(r)
    /\ UNCHANGED <<BesideCollect, stopped, received, firstErr, state, dirs, faults>>

CollectChunkIndex(r) ==    \* mutant: the chunk's index is reported as progress
    /\ Live(r) /\ queue[r] # <<>> /\ Message(r).err = "none"
    /\ firstErr[r] = "none"
    /\ received' = [received EXCEPT ![r] = Put(@, Head(queue[r]).chunk, Message(r).level)]
    /\ Dequeue(r)
    /\ WriteState(r, "running", Head(queue[r]).chunk)
    /\ UNCHANGED <<BesideCollect, stopped, firstErr, faults>>

\* A progress file that cannot be written is not minded.
CollectChunk(r) ==
    /\ Live(r) /\ queue[r] # <<>> /\ Message(r).err = "none"
    /\ firstErr[r] = "none"
    /\ received' = [received EXCEPT ![r] = Put(@, Head(queue[r]).chunk, Message(r).level)]
    /\ Dequeue(r)
    /\ \/ WriteState(r, "running", Cardinality(DOMAIN received'[r])) /\ UNCHANGED faults
       \/ Fault /\ UNCHANGED <<state, dirs>>
    /\ UNCHANGED <<BesideCollect, stopped, firstErr>>

Finish(r, status) ==
    /\ MainGo(r, "returned")
    /\ outcome' = [outcome EXCEPT ![r] = status]

Workless(r) == \A i \in Pool : at[<<r, i>>] \in {"none", "exited"}

\* The results channel is closed once every worker has exited.  A run that
\* failed or was cancelled says so in its progress file, if it can.
EndUnfinished(r) ==
    LET status == IF firstErr[r] # "none" THEN firstErr[r] ELSE "canceled"
    IN  /\ Live(r) /\ queue[r] = <<>> /\ Workless(r)
        /\ firstErr[r] # "none" \/ r \in parent
        /\ Finish(r, status)
        /\ \/ WriteState(r, status, Cardinality(DOMAIN received[r])) /\ UNCHANGED faults
           \/ Fault /\ UNCHANGED <<state, dirs>>
        /\ stopped' = stopped \cup {r}
        /\ UNCHANGED <<parent, feed, worker, result, local, shared, pruned>>

EndCollectedUnasked(r) ==  \* mutant: the caller's context is not asked again
    /\ Live(r) /\ queue[r] = <<>> /\ Workless(r)
    /\ firstErr[r] = "none"
    /\ MainGo(r, "persisting")
    /\ stopped' = stopped \cup {r}
    /\ UNCHANGED <<outcome, parent, feed, worker, result, files, faults>>

EndCollected(r) ==
    /\ Live(r) /\ queue[r] = <<>> /\ Workless(r)
    /\ firstErr[r] = "none" /\ r \notin parent
    /\ MainGo(r, "persisting")
    /\ stopped' = stopped \cup {r}
    /\ UNCHANGED <<outcome, parent, feed, worker, result, files, faults>>

BesideMain == <<context, feed, worker, result>>

\* run-output.json is staged and renamed, then the progress file says
\* completed; an error of either leaves the progress file as it was.
StageOutput(r) ==
    /\ main[r] = "persisting"
    /\ \/ /\ MainGo(r, "committing")
          /\ dirs' = dirs \cup {r}
          /\ UNCHANGED <<outcome, faults>>
       \/ Fault /\ Finish(r, "failed") /\ UNCHANGED dirs
    /\ UNCHANGED <<BesideMain, state, local, shared, pruned>>

CommitOutput(r) ==
    /\ \/ main[r] = "committing" /\ MainGo(r, "recording") /\ UNCHANGED <<outcome, faults>>
       \/ main[r] = "lost" /\ Finish(r, "failed") /\ UNCHANGED faults
       \/ main[r] = "committing" /\ Fault /\ Finish(r, "failed")
    /\ UNCHANGED <<BesideMain, files>>

Record(r) ==
    /\ main[r] = "recording"
    /\ \/ /\ WriteState(r, "completed", NChunks)
          /\ MainGo(r, "pruning")
          /\ UNCHANGED <<outcome, faults>>
       \/ Fault /\ Finish(r, "failed") /\ UNCHANGED <<state, dirs>>
    /\ UNCHANGED <<BesideMain, local, shared, pruned>>

\* pruneRunCacheDirs keeps the last KeepLast names and the run's own.
Stale(r) == {d \in dirs : Cardinality({e \in dirs : e > d}) >= KeepLast} \ {r}

Prune(r) ==
    /\ main[r] = "pruning"
    /\ \/ /\ outcome' = [outcome EXCEPT ![r] = "completed"]
          /\ dirs' = dirs \ Stale(r)
          /\ local' = [q \in Runs |-> IF q \in Stale(r) THEN <<>> ELSE local[q]]
          /\ state' = [q \in Runs |-> IF q \in Stale(r) THEN NoState ELSE state[q]]
          /\ at' = [w \in Worker |->
                      IF w[1] \in Stale(r) /\ at[w] = "staged" THEN "lost" ELSE at[w]]
          /\ main' = [q \in Runs |->
                        IF q = r THEN "returned"
                        ELSE IF q \in Stale(r) /\ main[q] = "committing" THEN "lost"
                        ELSE main[q]]
          /\ pruned' = pruned \cup {q \in Stale(r) \cap Runs : Running(q)}
          /\ UNCHANGED faults
       \/ /\ Fault /\ Finish(r, "failed")
          /\ UNCHANGED <<dirs, local, state, at, pruned>>
    /\ UNCHANGED <<context, feed, job, val, result, shared>>

Quiet ==
    /\ \A r \in Runs : Over(r) /\ r \in closed
    /\ UNCHANGED vars

-----------------------------------------------------------------------------

WorkerStep(w) ==
    \/ Take(w) \/ WorkerEnd(w) \/ Look(w) \/ Compute(w) \/ StageLocal(w) \/ CommitLocal(w)
    \/ StageShared(w) \/ CommitShared(w) \/ Send(w)
ProducerStep(r) == ProducerDone(r) \/ ProducerStop(r)
MainStep(r) ==
    \/ CollectFailure(r) \/ Drain(r) \/ CollectChunk(r) \/ EndUnfinished(r) \/ EndCollected(r)
    \/ StageOutput(r) \/ CommitOutput(r) \/ Record(r) \/ Prune(r)

Next ==
    \/ \E r \in Runs : Start(r) \/ Cancel(r) \/ Kill(r) \/ ProducerStep(r) \/ MainStep(r)
    \/ \E w \in Worker : WorkerStep(w)
    \/ ImportTiles
    \/ Quiet

Spec == Init /\ [][Next]_vars

(* Goroutines that can run do run, and the kernel's loop over a chunk is    *)
(* finite.  Nobody has to start or cancel a run, or import a tile.         *)
Fairness ==
    /\ \A w \in Worker : WF_vars(WorkerStep(w))
    /\ \A r \in Runs : WF_vars(ProducerStep(r)) /\ WF_vars(MainStep(r))
FairSpec == Spec /\ Fairness

-----------------------------------------------------------------------------
(* Safety.                                                                 *)

\* No worker outlives the call: when Run has returned, nothing of it writes
\* into the cache directory any more (the comment in computeChunks).
WorkersEndFirst == \A r \in Runs : Over(r) => Workless(r)

\* The results channel, made with room for every chunk, never fills: no worker is
\* ever stuck in its send, not even while the collector writes progress.
ChannelHasRoom == \A r \in Runs : Len(queue[r]) <= NChunks

\* A run that says it completed, to its caller or in its progress file, has
\* collected every chunk, whatever was cancelled on the way.
CompletedMeansAll ==
    \A r \in Runs :
        outcome[r] = "completed" \/ state[r].status = "completed" => DOMAIN received[r] = Chunk

\* Every result a run collects is the kernel's for its own inputs, whichever
\* run put it into the cache.
ResultsAreOwn ==
    \A r \in Runs : \A c \in DOMAIN received[r] : received[r][c] = Level(r, c)

\* A run fails only over a storage failure, or because another run pruned its
\* cache while it ran: two runs that write one shared chunk never fail each other.
OnlyFaultsFail == \A r \in Runs : outcome[r] = "failed" => faults > 0 \/ r \in pruned

\* A run is reported as canceled only if its caller cancelled it: a failure that
\* makes the other workers stop is still reported as the failure.
CanceledOnlyIfAsked == \A r \in Runs : outcome[r] = "canceled" => r \in parent

\* What Run returns is what happened, whichever of a cancel, a failure and the
\* last result the collector comes to first.
OutcomeIsTrue == CompletedMeansAll /\ CanceledOnlyIfAsked

\* The progress file never goes back while a run goes on, and its last word stays
\* its last.
ProgressNeverGoesBack ==
    [][\A r \in Runs : (main'[r] = "collecting" => main[r] = "collecting") =>
         /\ state'[r] # NoState => state'[r].done >= state[r].done
         /\ state[r].status \in Ended => state'[r] \in {state[r], NoState}]_vars

-----------------------------------------------------------------------------
(* Liveness.                                                               *)

\* Run returns: no worker, producer or collector waits for another for ever,
\* whoever fails and whenever it is cancelled; nor does the producer outlive it.
EveryRunReturns ==
    \A r \in Runs : (main[r] = "collecting" ~> Over(r)) /\ (Over(r) ~> r \in closed)

-----------------------------------------------------------------------------
(* What a comment says and the code does not keep.                         *)

\* handler_lgln.go: the tiles an import downloads are cached under
\* .noise/cache/lgln, so a second request does not download them again.
TilesAreReused == [][(Tiles \in dirs) => (Tiles \in dirs')]_vars
=============================================================================
