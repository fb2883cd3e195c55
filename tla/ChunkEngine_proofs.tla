------------------------- MODULE ChunkEngine_proofs -------------------------
(***************************************************************************)
(* Proofs about ChunkEngine, for any runs, chunks, workers and cache.      *)
(***************************************************************************)
EXTENDS ChunkEngine, FiniteSetTheorems, TLAPS

LEMMA Constants ==
    /\ Runs \subseteq Nat \ {0} /\ MayDisable \subseteq Runs /\ Repeats \subseteq Runs
    /\ NChunks \in Nat \ {0} /\ MaxFaults \in Nat
    /\ 1 \in Pool
    /\ NoFile \notin Levels /\ Torn \notin Levels
  BY ChunkEngineAssumption, FilesAssumption DEF Pool

LEMMA LevelType ==
    ASSUME NEW r \in Runs, NEW c \in Chunk
    PROVE  Level(r, c) \in Levels /\ Key(r, c) \in Keys /\ Key(r, c) = Level(r, c)
  BY DEF Levels, Keys, Key

\* A map of some chunks to levels stays one when a chunk is added.
LEMMA PutType ==
    ASSUME NEW f \in Partial(Chunk, Levels), NEW c \in Chunk, NEW v \in Levels
    PROVE  /\ Put(f, c, v) \in Partial(Chunk, Levels)
           /\ DOMAIN Put(f, c, v) = DOMAIN f \cup {c}
           /\ Put(f, c, v)[c] = v
           /\ \A d \in DOMAIN f : d # c => Put(f, c, v)[d] = f[d]
<1>1. PICK D \in SUBSET Chunk : f \in [D -> Levels]
  BY DEF Partial
<1>2. Put(f, c, v) \in [D \cup {c} -> Levels]
  BY <1>1 DEF Put
<1>3. QED
  BY <1>1, <1>2 DEF Put, Partial

LEMMA PartialType ==
    ASSUME NEW f \in Partial(Chunk, Levels)
    PROVE  DOMAIN f \subseteq Chunk /\ \A c \in DOMAIN f : f[c] \in Levels
  BY DEF Partial

LEMMA EmptyType == <<>> \in Partial(Chunk, Levels) /\ DOMAIN <<>> = {}
<1>1. <<>> \in [{} -> Levels] /\ DOMAIN <<>> = {}
  OBVIOUS
<1>2. QED
  BY <1>1 DEF Partial

\* The number of collected chunks is a number of chunks.
LEMMA CollectedType ==
    ASSUME NEW f \in Partial(Chunk, Levels)
    PROVE  Cardinality(DOMAIN f) \in 0..NChunks
<1>1. IsFiniteSet(Chunk) /\ Cardinality(Chunk) = NChunks
  BY Constants, FS_Interval DEF Chunk
<1>2. DOMAIN f \subseteq Chunk
  BY PartialType
<1>3. Cardinality(DOMAIN f) \in Nat /\ Cardinality(DOMAIN f) <= NChunks
  BY <1>1, <1>2, FS_Subset, FS_CardinalityType
<1>4. QED
  BY <1>3, Constants

LEMMA ResultType ==
    /\ \A level \in Levels : Ok(level) \in Results /\ Ok(level).level = level
                             /\ Ok(level).err = "none"
    /\ Bad("failed") \in Results /\ Bad("failed").err = "failed"
    /\ Bad("canceled") \in Results /\ Bad("canceled").err = "canceled"
    /\ Bad("none").err = "none"
    /\ \A res \in Results :
          /\ res.err \in {"none", "canceled", "failed"}
          /\ res.err = "none" => res.level \in Levels /\ res = Ok(res.level)
  BY DEF Results, Ok, Bad

-----------------------------------------------------------------------------
(* Types and owned results: one induction, because the type of what a      *)
(* worker writes depends on what its step says it carries.                 *)

\* A worker at work has a chunk, and what it carries is its chunk's level.
WorkerOwns(w) ==
    /\ job[w] = 0 <=> at[w] \in {"none", "idle", "exited"}
    /\ at[w] \in {"none", "idle", "exited", "looking", "computing"} => val[w] = Bad("none")
    /\ at[w] \in {"writing", "staged", "lost", "sharing", "sharestaged"}
          => val[w] = Ok(Level(w[1], job[w]))
    /\ at[w] = "sending" =>
          /\ val[w] \in Results
          /\ val[w].err = "none" => val[w] = Ok(Level(w[1], job[w]))

\* The channel, the run's own cache and the shared one hold nobody else's level.
ChannelOwns ==
    \A r \in Runs : \A i \in 1..Len(queue[r]) :
        queue[r][i].res.err = "none" => queue[r][i].res = Ok(Level(r, queue[r][i].chunk))
CachesOwn ==
    /\ \A r \in Runs : \A c \in DOMAIN local[r] : local[r][c] = Level(r, c)
    /\ \A k \in Keys : shared[k] \in {k, NoFile}

\* Outside the collection a run has no worker.
Resting == \A r \in Runs : ~Live(r) => Workless(r)

OwnInv ==
    /\ TypeOK /\ Resting
    /\ \A w \in Worker : WorkerOwns(w)
    /\ ChannelOwns /\ CachesOwn /\ ResultsAreOwn

LEMMA WorkerType ==
    ASSUME OwnInv, NEW w \in Worker
    PROVE  /\ w[1] \in Runs /\ w = <<w[1], w[2]>> /\ w[2] \in Pool
           /\ at[w] \notin {"none", "idle", "exited"} =>
                 /\ job[w] \in Chunk
                 /\ Level(w[1], job[w]) \in Levels
                 /\ Key(w[1], job[w]) \in Keys
                 /\ Key(w[1], job[w]) = Level(w[1], job[w])
  BY LevelType DEF OwnInv, WorkerOwns, TypeOK, Worker

LEMMA OwnInit == Init => OwnInv
<1> SUFFICES ASSUME Init PROVE OwnInv
  OBVIOUS
<1> USE DEF Init
<1>1. 0 \in 0..MaxFaults /\ 1 \in 1..(NChunks + 1) /\ 0 \in 0..NChunks
  BY Constants
<1>2. TypeOK
  BY <1>1, EmptyType, ResultType DEF TypeOK, MainState, Ended, Step, NoState
<1>3. \A w \in Worker : WorkerOwns(w)
  BY DEF WorkerOwns
<1>4. ChannelOwns /\ CachesOwn /\ ResultsAreOwn
  BY EmptyType DEF ChannelOwns, CachesOwn, ResultsAreOwn
<1>5. Resting
  BY DEF Resting, Workless, Worker
<1>6. QED
  BY <1>2, <1>3, <1>4, <1>5 DEF OwnInv

\* Types, action by action.
LEMMA CallerType ==
    ASSUME OwnInv, NEW r \in Runs,
           Start(r) \/ Cancel(r) \/ Kill(r) \/ ProducerStep(r)
    PROVE  TypeOK'
<1>1. CASE Start(r)
  <2>1. 0 \in 0..NChunks /\ 1 \in 1..(NChunks + 1) /\ r \in Dirs
    BY Constants DEF Dirs
  <2>2. /\ dirs \subseteq Dirs /\ faults \in 0..MaxFaults
        /\ closed \subseteq Runs /\ stopped \subseteq Runs
        /\ main \in [Runs -> MainState] /\ outcome \in [Runs -> Ended \cup {"none"}]
        /\ next \in [Runs -> 1..(NChunks + 1)] /\ at \in [Worker -> Step]
        /\ received \in [Runs -> Partial(Chunk, Levels)]
        /\ state \in [Runs -> [status : Ended \cup {"none", "running"}, done : 0..NChunks]]
    BY DEF OwnInv, TypeOK
  <2>3. dirs' \subseteq Dirs
    BY <1>1, <2>1, <2>2 DEF Start, WriteState
  <2>4. faults' \in 0..MaxFaults
    BY <1>1, <2>2, Constants DEF Start, Fault
  <2>5. [status |-> "running", done |-> 0] \in
           [status : Ended \cup {"none", "running"}, done : 0..NChunks]
    BY <2>1
  <2>6. state' \in [Runs -> [status : Ended \cup {"none", "running"}, done : 0..NChunks]]
    BY <1>1, <2>2, <2>5 DEF Start, WriteState
  <2>7. received' \in [Runs -> Partial(Chunk, Levels)]
    BY <1>1, <2>2, EmptyType DEF Start
  <2>8. main' \in [Runs -> MainState] /\ outcome' \in [Runs -> Ended \cup {"none"}]
    BY <1>1, <2>2 DEF Start, MainGo, MainState, Ended
  <2>9. /\ stopped' \subseteq Runs /\ closed' \subseteq Runs
        /\ next' \in [Runs -> 1..(NChunks + 1)] /\ at' \in [Worker -> Step]
    BY <1>1, <2>1, <2>2 DEF Start, Step
  <2>10. QED
    BY <1>1, <2>3, <2>4, <2>6, <2>7, <2>8, <2>9 DEF Start, OwnInv, TypeOK
<1>2. CASE Cancel(r)
  BY <1>2 DEF Cancel, OwnInv, TypeOK, feed, worker, result, files
<1>3. CASE Kill(r)
  <2> DEFINE Entry == [chunk : Chunk, res : Results]
  <2>0. queue \in [Runs -> Seq(Entry)]
    BY DEF OwnInv, TypeOK
  <2>1. queue' \in [Runs -> Seq(Entry)]
    <3> HIDE DEF Entry
    <3>1. <<>> \in Seq(Entry)
      OBVIOUS
    <3>2. QED
      BY <1>3, <2>0, <3>1 DEF Kill
  <2>2. main' \in [Runs -> MainState] /\ at' \in [Worker -> Step] /\ closed' \subseteq Runs
    BY <1>3 DEF Kill, MainGo, OwnInv, TypeOK, MainState, Step
  <2>3. job' \in [Worker -> Chunk \cup {0}] /\ val' \in [Worker -> Results \cup {Bad("none")}]
    BY <1>3 DEF Kill, OwnInv, TypeOK
  <2>4. QED
    BY <1>3, <2>1, <2>2, <2>3 DEF Kill, OwnInv, TypeOK, context, files
<1>4. CASE ProducerStep(r)
  BY <1>4 DEF ProducerStep, ProducerDone, ProducerStop, CloseJobs, OwnInv, TypeOK,
              context, worker, result, files
<1>5. QED
  BY <1>1, <1>2, <1>3, <1>4

LEMMA WorkerStepType ==
    ASSUME OwnInv, NEW w \in Worker, WorkerStep(w)
    PROVE  TypeOK'
<1> USE DEF OwnInv, TypeOK
<1>0. w[1] \in Runs /\ Runs \subseteq Dirs
  BY WorkerType DEF Dirs
<1>f. Fault \/ UNCHANGED faults => faults' \in 0..MaxFaults
  BY Constants DEF Fault
<1>v. ASSUME NEW res \in Results, Carries(w, res)
      PROVE  /\ at' \in [Worker -> Step]
             /\ job' \in [Worker -> Chunk \cup {0}]
             /\ val' \in [Worker -> Results \cup {Bad("none")}]
  BY <1>v DEF Carries, Step
<1>1. CASE Take(w)
  <2>1. next[w[1]] \in Chunk /\ next[w[1]] + 1 \in 1..(NChunks + 1)
    BY <1>1, Constants DEF Take, Chunk
  <2>2. QED
    BY <1>1, <1>0, <2>1 DEF Take, Step, context, result, files
<1>2. CASE WorkerEnd(w)
  BY <1>2 DEF WorkerEnd, Step, context, feed, result, files
<1>3. CASE Look(w)
  <2>1. faults' \in 0..MaxFaults
    BY <1>3, <1>f DEF Look, files
  <2>2. job[w] \in Chunk /\ Key(w[1], job[w]) \in Keys
    BY <1>3, WorkerType DEF Look
  <2>3. shared[Key(w[1], job[w])] \in Levels \cup {NoFile}
    BY <2>2
  <2>4. /\ at' \in [Worker -> Step]
        /\ job' \in [Worker -> Chunk \cup {0}]
        /\ val' \in [Worker -> Results \cup {Bad("none")}]
    <3>1. CASE Goes(w, "computing")
      BY <3>1 DEF Goes, Step
    <3>2. CASE job[w] \in DOMAIN local[w[1]] /\ Carries(w, Ok(local[w[1]][job[w]]))
      <4>1. local[w[1]][job[w]] \in Levels
        BY <1>0, <3>2, PartialType
      <4>2. QED
        BY <1>v, <3>2, <4>1, ResultType
    <3>3. CASE Carries(w, Bad("failed"))
      BY <1>v, <3>3, ResultType
    <3>4. CASE /\ shared[Key(w[1], job[w])] # NoFile
               /\ Carries(w, Ok(shared[Key(w[1], job[w])]))
      BY <1>v, <2>3, <3>4, ResultType
    <3>5. QED
      BY <1>3, <3>1, <3>2, <3>3, <3>4 DEF Look
  <2>5. local' \in [Runs -> Partial(Chunk, Levels)] /\ dirs' \subseteq Dirs
    <3>1. CASE UNCHANGED <<local, dirs>>
      BY <3>1
    <3>2. CASE /\ shared[Key(w[1], job[w])] \in Levels
               /\ local' = [local EXCEPT ![w[1]] = Put(@, job[w], shared[Key(w[1], job[w])])]
               /\ dirs' = dirs \cup {w[1]}
      <4>1. Put(local[w[1]], job[w], shared[Key(w[1], job[w])]) \in Partial(Chunk, Levels)
        BY <1>0, <2>2, <3>2, PutType
      <4>2. QED
        BY <1>0, <3>2, <4>1
    <3>3. QED
      BY <1>3, <2>3, <3>1, <3>2 DEF Look, Mirror, files
  <2>6. QED
    BY <1>3, <2>1, <2>4, <2>5 DEF Look, BesideWorkers, context, feed, result, files
<1>4. CASE Compute(w)
  <2>1. Ok(Level(w[1], job[w])) \in Results /\ Bad("canceled") \in Results
    BY <1>4, WorkerType, ResultType DEF Compute
  <2>2. /\ at' \in [Worker -> Step]
        /\ job' \in [Worker -> Chunk \cup {0}]
        /\ val' \in [Worker -> Results \cup {Bad("none")}]
    BY <1>4, <1>v, <2>1 DEF Compute, Step
  <2>3. QED
    BY <1>4, <2>2 DEF Compute, BesideWorkers, context, feed, result, files
<1>5. CASE StageLocal(w) \/ CommitLocal(w) \/ StageShared(w) \/ CommitShared(w)
  <2>1. faults' \in 0..MaxFaults
    BY <1>5, <1>f DEF StageLocal, CommitLocal, StageShared, CommitShared
  <2>2. at[w] \in {"writing", "staged", "lost", "sharing", "sharestaged"}
    BY <1>5 DEF StageLocal, CommitLocal, StageShared, CommitShared
  <2>3. /\ job[w] \in Chunk /\ Key(w[1], job[w]) \in Keys
        /\ val[w].level \in Levels /\ val[w] \in Results
    <3>1. WorkerOwns(w)
      OBVIOUS
    <3>2. job[w] \in Chunk /\ Key(w[1], job[w]) \in Keys /\ Level(w[1], job[w]) \in Levels
      BY <2>2, WorkerType
    <3>3. val[w] = Ok(Level(w[1], job[w]))
      BY <2>2, <3>1 DEF WorkerOwns
    <3>4. QED
      BY <3>2, <3>3, ResultType
  <2>4. /\ at' \in [Worker -> Step]
        /\ job' \in [Worker -> Chunk \cup {0}]
        /\ val' \in [Worker -> Results \cup {Bad("none")}]
    <3>1. Goes(w, "staged") \/ Goes(w, "sharing") \/ Goes(w, "sharestaged")
             \/ Carries(w, Bad("failed")) \/ Carries(w, val[w])
      BY <1>5 DEF StageLocal, CommitLocal, StageShared, CommitShared
    <3>2. QED
      BY <1>v, <2>3, <3>1, ResultType DEF Goes, Step
  <2>5. local' \in [Runs -> Partial(Chunk, Levels)]
    <3>1. Put(local[w[1]], job[w], val[w].level) \in Partial(Chunk, Levels)
      BY <1>0, <2>3, PutType
    <3>2. QED
      BY <1>5, <1>0, <3>1 DEF StageLocal, CommitLocal, StageShared, CommitShared, files
  <2>6. shared' \in [Keys -> Levels \cup {NoFile}] /\ dirs' \subseteq Dirs
    BY <1>5, <1>0, <2>3 DEF StageLocal, CommitLocal, StageShared, CommitShared, files
  <2>7. QED
    BY <1>5, <2>1, <2>4, <2>5, <2>6
       DEF StageLocal, CommitLocal, StageShared, CommitShared, BesideWorkers,
           context, feed, result, files
<1>6. CASE Send(w)
  <2>1. [chunk |-> job[w], res |-> val[w]] \in [chunk : Chunk, res : Results]
    BY <1>6, WorkerType DEF Send, WorkerOwns
  <2> DEFINE Entry == [chunk : Chunk, res : Results]
  <2>2. queue[w[1]] \in Seq(Entry) /\ queue \in [Runs -> Seq(Entry)]
    BY <1>0
  <2>3. Append(queue[w[1]], [chunk |-> job[w], res |-> val[w]]) \in Seq(Entry)
    <3> HIDE DEF Entry, OwnInv, TypeOK
    <3> QED
      BY <2>1, <2>2 DEF Entry
  <2>4. queue' \in [Runs -> Seq(Entry)]
    <3> HIDE DEF Entry, OwnInv, TypeOK
    <3> QED
      BY <1>6, <1>0, <2>2, <2>3 DEF Send
  <2>5. QED
    BY <1>6, <2>4 DEF Send, Step, context, feed, files
<1>7. QED
  BY <1>1, <1>2, <1>3, <1>4, <1>5, <1>6 DEF WorkerStep

LEMMA CollectorType ==
    ASSUME OwnInv, NEW r \in Runs, CollectFailure(r) \/ Drain(r) \/ CollectChunk(r)
    PROVE  TypeOK'
<1> DEFINE Entry == [chunk : Chunk, res : Results]
<1>1. queue[r] \in Seq(Entry) /\ queue \in [Runs -> Seq(Entry)]
  BY DEF OwnInv, TypeOK
<1>2. queue[r] # <<>>
  BY DEF CollectFailure, Drain, CollectChunk
<1>3. Head(queue[r]) \in Entry /\ Tail(queue[r]) \in Seq(Entry)
  <2> HIDE DEF Entry
  <2> QED
    BY <1>1, <1>2
<1>4. queue' \in [Runs -> Seq(Entry)]
  <2> HIDE DEF Entry
  <2> QED
    BY <1>1, <1>3 DEF CollectFailure, Drain, CollectChunk, Dequeue
<1>5. Head(queue[r]).chunk \in Chunk /\ Message(r) \in Results
  BY <1>3 DEF Message
<1>6. CASE CollectFailure(r)
  <2>1. firstErr' \in [Runs -> {"none", "canceled", "failed"}]
    BY <1>5, <1>6, ResultType DEF CollectFailure, OwnInv, TypeOK
  <2>2. QED
    BY <1>4, <1>6, <2>1
       DEF CollectFailure, BesideCollect, feed, worker, OwnInv, TypeOK
<1>7. CASE Drain(r)
  BY <1>4, <1>7 DEF Drain, BesideCollect, feed, worker, OwnInv, TypeOK
<1>8. CASE CollectChunk(r)
  <2>1. received[r] \in Partial(Chunk, Levels) /\ received \in [Runs -> Partial(Chunk, Levels)]
    BY DEF OwnInv, TypeOK
  <2>2. Message(r).level \in Levels
    BY <1>5, <1>8, ResultType DEF CollectChunk
  <2>3. Put(received[r], Head(queue[r]).chunk, Message(r).level) \in Partial(Chunk, Levels)
    BY <1>5, <2>1, <2>2, PutType
  <2>4. received' \in [Runs -> Partial(Chunk, Levels)] /\ received'[r] \in Partial(Chunk, Levels)
    BY <1>8, <2>1, <2>3 DEF CollectChunk
  <2>5. Cardinality(DOMAIN received'[r]) \in 0..NChunks
    BY <2>4, CollectedType
  <2>6. /\ state \in [Runs -> [status : Ended \cup {"none", "running"}, done : 0..NChunks]]
        /\ dirs \subseteq Dirs /\ r \in Dirs /\ faults \in 0..MaxFaults
    BY DEF OwnInv, TypeOK, Dirs
  <2>7. /\ state' \in [Runs -> [status : Ended \cup {"none", "running"}, done : 0..NChunks]]
        /\ dirs' \subseteq Dirs
    BY <1>8, <2>5, <2>6 DEF CollectChunk, WriteState
  <2>8. faults' \in 0..MaxFaults
    BY <1>8, <2>6, Constants DEF CollectChunk, Fault
  <2>9. QED
    BY <1>4, <1>8, <2>4, <2>7, <2>8
       DEF CollectChunk, BesideCollect, feed, worker, OwnInv, TypeOK
<1>9. QED
  BY <1>6, <1>7, <1>8

LEMMA MainStepType ==
    ASSUME OwnInv, NEW r \in Runs,
           \/ EndUnfinished(r) \/ EndCollected(r) \/ StageOutput(r) \/ CommitOutput(r)
           \/ Record(r) \/ Prune(r)
    PROVE  TypeOK'
<1> DEFINE States == [status : Ended \cup {"none", "running"}, done : 0..NChunks]
<1>1. /\ state \in [Runs -> States]
      /\ dirs \subseteq Dirs /\ r \in Dirs /\ faults \in 0..MaxFaults
      /\ main \in [Runs -> MainState] /\ outcome \in [Runs -> Ended \cup {"none"}]
      /\ stopped \subseteq Runs /\ at \in [Worker -> Step]
      /\ firstErr[r] \in {"none", "canceled", "failed"}
      /\ local \in [Runs -> Partial(Chunk, Levels)]
  BY DEF OwnInv, TypeOK, Dirs
<1>2. Fault \/ UNCHANGED faults => faults' \in 0..MaxFaults
  BY <1>1, Constants DEF Fault
<1>3. ASSUME NEW status \in Ended \cup {"running"}, NEW done \in 0..NChunks,
             WriteState(r, status, done)
      PROVE  state' \in [Runs -> States] /\ dirs' \subseteq Dirs
  BY <1>1, <1>3 DEF WriteState
<1>4. ASSUME NEW status \in Ended, Finish(r, status)
      PROVE  main' \in [Runs -> MainState] /\ outcome' \in [Runs -> Ended \cup {"none"}]
  BY <1>1, <1>4 DEF Finish, MainGo, MainState
<1>5. ASSUME NEW there \in MainState, MainGo(r, there)
      PROVE  main' \in [Runs -> MainState]
  BY <1>1, <1>5 DEF MainGo
<1>6. CASE EndUnfinished(r)
  <2> DEFINE status == IF firstErr[r] # "none" THEN firstErr[r] ELSE "canceled"
             done == Cardinality(DOMAIN received[r])
  <2>1. status \in Ended /\ done \in 0..NChunks
    BY <1>1, CollectedType DEF Ended, OwnInv, TypeOK
  <2>2. /\ Finish(r, status)
        /\ \/ WriteState(r, status, done) /\ UNCHANGED faults
           \/ Fault /\ UNCHANGED <<state, dirs>>
        /\ stopped' = stopped \cup {r}
        /\ UNCHANGED <<parent, feed, worker, result, local, shared, pruned>>
    BY <1>6 DEF EndUnfinished
  <2> HIDE DEF status, done
  <2>3. main' \in [Runs -> MainState] /\ outcome' \in [Runs -> Ended \cup {"none"}]
    BY <1>4, <2>1, <2>2
  <2>4. state' \in [Runs -> States] /\ dirs' \subseteq Dirs /\ faults' \in 0..MaxFaults
    BY <1>1, <1>2, <1>3, <2>1, <2>2
  <2>5. QED
    BY <2>2, <2>3, <2>4 DEF OwnInv, TypeOK, feed, worker, result
<1>7. CASE EndCollected(r)
  <2>1. main' \in [Runs -> MainState]
    BY <1>5, <1>7 DEF EndCollected, MainState
  <2>2. QED
    BY <1>7, <2>1 DEF EndCollected, OwnInv, TypeOK, feed, worker, result, files
<1>8. CASE StageOutput(r) \/ CommitOutput(r)
  <2>1. main' \in [Runs -> MainState] /\ outcome' \in [Runs -> Ended \cup {"none"}]
    BY <1>1, <1>8 DEF StageOutput, CommitOutput, Finish, MainGo, MainState, Ended
  <2>2. dirs' \subseteq Dirs /\ faults' \in 0..MaxFaults
    BY <1>1, <1>2, <1>8 DEF StageOutput, CommitOutput, files
  <2>3. QED
    BY <1>8, <2>1, <2>2
       DEF StageOutput, CommitOutput, BesideMain, OwnInv, TypeOK, context, feed, worker, result, files
<1>9. CASE Record(r)
  <2>1. NChunks \in 0..NChunks
    BY Constants
  <2>2. main' \in [Runs -> MainState] /\ outcome' \in [Runs -> Ended \cup {"none"}]
    BY <1>1, <1>9 DEF Record, Finish, MainGo, MainState, Ended
  <2>3. state' \in [Runs -> States] /\ dirs' \subseteq Dirs /\ faults' \in 0..MaxFaults
    BY <1>1, <1>2, <1>3, <1>9, <2>1 DEF Record, Ended
  <2>4. QED
    BY <1>9, <2>2, <2>3 DEF Record, BesideMain, OwnInv, TypeOK, context, feed, worker, result
<1>10. CASE Prune(r)
  <2>1. NoState \in States
    BY Constants DEF NoState
  <2>2. dirs' \subseteq Dirs /\ faults' \in 0..MaxFaults
    BY <1>1, <1>2, <1>10 DEF Prune
  <2>3. state' \in [Runs -> States]
    <3> HIDE DEF States
    <3> QED
      BY <1>1, <1>10, <2>1 DEF Prune
  <2>4. /\ main' \in [Runs -> MainState] /\ outcome' \in [Runs -> Ended \cup {"none"}]
        /\ at' \in [Worker -> Step]
    <3>1. CASE Fault /\ Finish(r, "failed") /\ UNCHANGED at
      BY <1>1, <1>4, <3>1 DEF Ended
    <3>2. CASE UNCHANGED faults
      <4>1. main' \in [Runs -> MainState]
        BY <1>1, <1>10, <3>2 DEF Prune, Fault, MainState
      <4>2. outcome' \in [Runs -> Ended \cup {"none"}]
        BY <1>1, <1>10, <3>2 DEF Prune, Finish, Ended
      <4>3. at' \in [Worker -> Step]
        BY <1>1, <1>10, <3>2 DEF Prune, Fault, Step
      <4>4. QED
        BY <4>1, <4>2, <4>3
    <3>3. QED
      BY <1>10, <3>1, <3>2 DEF Prune
  <2>5. local' \in [Runs -> Partial(Chunk, Levels)]
    BY <1>1, <1>10, EmptyType DEF Prune
  <2>6. pruned' \subseteq Runs
    BY <1>10 DEF Prune, OwnInv, TypeOK
  <2>7. QED
    BY <1>10, <2>2, <2>3, <2>4, <2>5, <2>6
       DEF Prune, OwnInv, TypeOK, context, feed, result
<1>11. QED
  BY <1>6, <1>7, <1>8, <1>9, <1>10

\* What a worker carries, action by action.
LEMMA WorkersOwnStep ==
    ASSUME OwnInv, [Next]_vars
    PROVE  \A w \in Worker : WorkerOwns(w)'
<1>a. at \in [Worker -> Step]
  BY DEF OwnInv, TypeOK
<1>0. \A w \in Worker : WorkerOwns(w)
  BY DEF OwnInv
<1>1. ASSUME NEW r \in Runs, Start(r) PROVE \A w \in Worker : WorkerOwns(w)'
  <2> SUFFICES ASSUME NEW w \in Worker PROVE WorkerOwns(w)'
    OBVIOUS
  <2>1. /\ job'[w] = job[w] /\ val'[w] = val[w]
        /\ at'[w] = at[w] \/ (w[1] = r /\ at'[w] = "idle")
    BY <1>1, <1>a DEF Start
  <2>2. w = <<w[1], w[2]>> /\ w[2] \in Pool
    BY WorkerType
  <2>3. w[1] = r => at[w] \in {"none", "exited"}
    BY <1>1, <2>2 DEF Start, Startable, Live, Workless, OwnInv, Resting
  <2>4. QED
    BY <1>0, <2>1, <2>3 DEF WorkerOwns
<1>2. ASSUME NEW r \in Runs, Kill(r) PROVE \A w \in Worker : WorkerOwns(w)'
  <2> SUFFICES ASSUME NEW w \in Worker PROVE WorkerOwns(w)'
    OBVIOUS
  <2>1. /\ at' = [x \in Worker |-> IF x[1] = r THEN "exited" ELSE at[x]]
        /\ job' = [x \in Worker |-> IF x[1] = r THEN 0 ELSE job[x]]
        /\ val' = [x \in Worker |-> IF x[1] = r THEN Bad("none") ELSE val[x]]
    BY <1>2 DEF Kill
  <2>2. QED
    BY <1>0, <2>1 DEF WorkerOwns
<1>3. ASSUME NEW w \in Worker, WorkerStep(w) PROVE \A x \in Worker : WorkerOwns(x)'
  <2>1. ASSUME NEW x \in Worker, x # w PROVE WorkerOwns(x)'
    <3>1. at'[x] = at[x] /\ job'[x] = job[x] /\ val'[x] = val[x]
      BY <1>3, <2>1
         DEF WorkerStep, Take, WorkerEnd, Look, Compute, StageLocal, CommitLocal, StageShared,
             CommitShared, Send, Goes, Carries, OwnInv, TypeOK
    <3>2. QED
      BY <1>0, <3>1 DEF WorkerOwns
  <2> SUFFICES WorkerOwns(w)'
    BY <2>1
  <2>0. w[1] \in Runs
    BY WorkerType
  <2>2. /\ WorkerOwns(w) /\ at \in [Worker -> Step] /\ val \in [Worker -> Results \cup {Bad("none")}]
        /\ job \in [Worker -> Chunk \cup {0}] /\ w[1] \in Runs
    BY <1>0, <2>0 DEF OwnInv, TypeOK
  <2>3. ASSUME NEW res \in Results, Carries(w, res), job[w] # 0,
               res.err = "none" => res = Ok(Level(w[1], job[w]))
        PROVE  WorkerOwns(w)'
    BY <2>2, <2>3 DEF Carries, WorkerOwns
  <2>4. CASE Take(w)
    BY <2>2, <2>4 DEF Take, Chunk, WorkerOwns
  <2>5. CASE WorkerEnd(w)
    BY <2>2, <2>5 DEF WorkerEnd, WorkerOwns
  <2>6. CASE Look(w)
    <3>1. at[w] = "looking" /\ job[w] # 0 /\ job[w] \in Chunk
      BY <2>2, <2>6 DEF Look, WorkerOwns
    <3>2. CASE Goes(w, "computing")
      BY <2>2, <3>1, <3>2 DEF Goes, WorkerOwns
    <3>3. CASE job[w] \in DOMAIN local[w[1]] /\ Carries(w, Ok(local[w[1]][job[w]]))
      <4>1. local[w[1]][job[w]] = Level(w[1], job[w])
        BY <2>2, <3>3 DEF OwnInv, CachesOwn
      <4>2. QED
        BY <2>2, <2>3, <3>1, <3>3, <4>1, LevelType, ResultType
    <3>4. CASE Carries(w, Bad("failed"))
      BY <2>3, <3>1, <3>4, ResultType
    <3>5. CASE /\ shared[Key(w[1], job[w])] # NoFile
               /\ Carries(w, Ok(shared[Key(w[1], job[w])]))
      <4>1. shared[Key(w[1], job[w])] = Level(w[1], job[w])
        BY <2>2, <3>1, <3>5, LevelType DEF OwnInv, CachesOwn
      <4>2. QED
        BY <2>2, <2>3, <3>1, <3>5, <4>1, LevelType, ResultType
    <3>6. QED
      BY <2>6, <3>2, <3>3, <3>4, <3>5 DEF Look
  <2>7. CASE Compute(w)
    <3>1. job[w] # 0 /\ job[w] \in Chunk
      BY <2>2, <2>7 DEF Compute, WorkerOwns
    <3>2. CASE CtxDone(w[1]) /\ Carries(w, Bad("canceled"))
      BY <2>3, <3>1, <3>2, ResultType
    <3>3. CASE /\ val' = [val EXCEPT ![w] = Ok(Level(w[1], job[w]))]
               /\ at' = [at EXCEPT ![w] = IF w[1] \in cached THEN "writing" ELSE "sending"]
               /\ UNCHANGED job
      <4>1. Ok(Level(w[1], job[w])) \in Results
        BY <2>2, <3>1, LevelType, ResultType
      <4>2. QED
        BY <2>2, <3>1, <3>3, <4>1 DEF WorkerOwns
    <3>4. QED
      BY <2>7, <3>2, <3>3 DEF Compute
  <2>8. CASE StageLocal(w) \/ CommitLocal(w) \/ StageShared(w) \/ CommitShared(w)
    <3>1. at[w] \in {"writing", "staged", "lost", "sharing", "sharestaged"}
      BY <2>8 DEF StageLocal, CommitLocal, StageShared, CommitShared
    <3>2. job[w] # 0 /\ val[w] = Ok(Level(w[1], job[w])) /\ val[w] \in Results
      BY <2>2, <3>1, LevelType, ResultType DEF WorkerOwns
    <3>3. \/ Goes(w, "staged") \/ Goes(w, "sharing") \/ Goes(w, "sharestaged")
          \/ Carries(w, Bad("failed")) \/ Carries(w, val[w])
      BY <2>8 DEF StageLocal, CommitLocal, StageShared, CommitShared
    <3>4. CASE Carries(w, Bad("failed")) \/ Carries(w, val[w])
      BY <2>3, <3>2, <3>4, ResultType
    <3>5. CASE Goes(w, "staged") \/ Goes(w, "sharing") \/ Goes(w, "sharestaged")
      BY <2>2, <3>2, <3>5 DEF Goes, WorkerOwns
    <3>6. QED
      BY <3>3, <3>4, <3>5
  <2>9. CASE Send(w)
    BY <2>2, <2>9 DEF Send, WorkerOwns
  <2>10. QED
    BY <1>3, <2>4, <2>5, <2>6, <2>7, <2>8, <2>9 DEF WorkerStep
<1>4. ASSUME NEW r \in Runs, Prune(r) PROVE \A w \in Worker : WorkerOwns(w)'
  <2> SUFFICES ASSUME NEW w \in Worker PROVE WorkerOwns(w)'
    OBVIOUS
  <2>1. /\ job'[w] = job[w] /\ val'[w] = val[w]
        /\ at'[w] = at[w] \/ (at[w] = "staged" /\ at'[w] = "lost")
    BY <1>4, <1>a DEF Prune
  <2>2. QED
    BY <1>0, <2>1 DEF WorkerOwns
<1>5. CASE UNCHANGED worker
  BY <1>0, <1>5 DEF worker, WorkerOwns
<1>6. ASSUME NEW r \in Runs,
             \/ Cancel(r) \/ ProducerStep(r) \/ CollectFailure(r) \/ Drain(r) \/ CollectChunk(r)
             \/ EndUnfinished(r) \/ EndCollected(r) \/ StageOutput(r) \/ CommitOutput(r) \/ Record(r)
      PROVE  UNCHANGED worker
  BY <1>6 DEF Cancel, ProducerStep, ProducerDone, ProducerStop, CloseJobs, CollectFailure, Drain,
              CollectChunk, BesideCollect, EndUnfinished, EndCollected, StageOutput, CommitOutput,
              Record, BesideMain
<1>7. ImportTiles \/ Quiet \/ UNCHANGED vars => UNCHANGED worker
  BY DEF ImportTiles, Quiet, vars
<1>8. QED
  BY <1>1, <1>2, <1>3, <1>4, <1>5, <1>6, <1>7 DEF Next, MainStep

\* A worker only moves while its run collects, and the collection ends with
\* its last worker.
LEMMA RestingStep == OwnInv /\ [Next]_vars => Resting'
<1> SUFFICES ASSUME OwnInv, [Next]_vars, NEW r \in Runs, ~Live(r)' PROVE Workless(r)'
  BY DEF Resting
<1>a. main \in [Runs -> MainState] /\ at \in [Worker -> Step]
  BY DEF OwnInv, TypeOK
<1>b. \A i \in Pool : <<r, i>> \in Worker /\ <<r, i>>[1] = r
  BY DEF Worker
<1>c. ~Live(r) => \A i \in Pool : at[<<r, i>>] \in {"none", "exited"}
  BY DEF OwnInv, Resting, Workless
<1>1. ASSUME UNCHANGED at, Live(r) => Workless(r) PROVE Workless(r)'
  BY <1>1, <1>c DEF Workless
<1>2. ASSUME NEW q \in Runs, Start(q) PROVE Workless(r)'
  <2>1. CASE MainGo(q, "returned") /\ UNCHANGED at
    <3>1. ~Live(q)
      BY <1>2 DEF Start, Startable, Live
    <3>2. ~Live(r)
      BY <1>a, <2>1, <3>1 DEF MainGo, Live
    <3>3. QED
      BY <1>1, <2>1, <3>2
  <2>2. CASE /\ MainGo(q, "collecting")
             /\ at' = [w \in Worker |-> IF w[1] = q THEN "idle" ELSE at[w]]
    <3>1. r # q /\ ~Live(r)
      BY <1>a, <2>2 DEF MainGo, Live
    <3>2. \A i \in Pool : at'[<<r, i>>] = at[<<r, i>>]
      BY <1>b, <2>2, <3>1
    <3>3. QED
      BY <1>c, <3>1, <3>2 DEF Workless
  <2>3. QED
    BY <1>2, <2>1, <2>2 DEF Start
<1>3. ASSUME NEW q \in Runs, Kill(q) PROVE Workless(r)'
  BY <1>3, <1>a, <1>b, <1>c DEF Kill, MainGo, Live, Workless
<1>4. ASSUME NEW w \in Worker, WorkerStep(w) PROVE Workless(r)'
  <2>1. w[1] \in Runs /\ w = <<w[1], w[2]>> /\ w[2] \in Pool
    BY WorkerType
  <2>2. UNCHANGED main /\ at[w] \notin {"none", "exited"}
    BY <1>4 DEF WorkerStep, Take, WorkerEnd, Look, Compute, StageLocal, CommitLocal, StageShared,
                CommitShared, Send, BesideWorkers
  <2>3. w[1] # r
    BY <1>c, <2>1, <2>2 DEF Live
  <2>4. \A x \in Worker : x # w => at'[x] = at[x]
    BY <1>4, <1>a
       DEF WorkerStep, Take, WorkerEnd, Look, Compute, StageLocal, CommitLocal, StageShared,
           CommitShared, Send, Goes, Carries
  <2>5. QED
    BY <1>b, <1>c, <2>2, <2>3, <2>4 DEF Live, Workless
<1>5. ASSUME NEW q \in Runs, EndUnfinished(q) \/ EndCollected(q) PROVE Workless(r)'
  <2>1. Live(r) => Workless(r)
    BY <1>5, <1>a DEF EndUnfinished, EndCollected, Finish, MainGo, Live
  <2>2. UNCHANGED at
    BY <1>5 DEF EndUnfinished, EndCollected, worker
  <2>3. QED
    BY <1>1, <2>1, <2>2
<1>6. ASSUME NEW q \in Runs,
             StageOutput(q) \/ CommitOutput(q) \/ Record(q) \/ CollectFailure(q) \/ Drain(q)
             \/ CollectChunk(q) \/ Cancel(q) \/ ProducerStep(q)
      PROVE  Workless(r)'
  <2>1. UNCHANGED at
    BY <1>6 DEF StageOutput, CommitOutput, Record, BesideMain, CollectFailure, Drain, CollectChunk,
                BesideCollect, Cancel, ProducerStep, ProducerDone, ProducerStop, CloseJobs, worker
  <2>2. UNCHANGED main \/ \E there \in MainState : main[q] # "collecting" /\ MainGo(q, there)
    BY <1>6 DEF StageOutput, CommitOutput, Record, Finish, CollectFailure, Drain, CollectChunk,
                BesideCollect, Cancel, ProducerStep, ProducerDone, ProducerStop, CloseJobs, MainState
  <2>3. ~Live(r)
    BY <2>2, <1>a DEF Live, MainGo
  <2>4. QED
    BY <1>1, <2>1, <2>3
<1>7. ASSUME NEW q \in Runs, Prune(q) PROVE Workless(r)'
  <2>1. ~Live(r)
    <3>1. CASE main' = main
      BY <3>1 DEF Live
    <3>2. CASE Finish(q, "failed")
      BY <1>7, <1>a, <3>2 DEF Prune, Finish, MainGo, Live
    <3>3. CASE main' = [p \in Runs |-> IF p = q THEN "returned"
                          ELSE IF p \in Stale(q) /\ main[p] = "committing" THEN "lost" ELSE main[p]]
      BY <1>7, <3>3 DEF Prune, Live
    <3>4. QED
      BY <1>7, <3>1, <3>2, <3>3 DEF Prune
  <2>2. \A x \in Worker : at'[x] = at[x] \/ at[x] = "staged"
    BY <1>7, <1>a DEF Prune
  <2>3. QED
    BY <1>b, <1>c, <2>1, <2>2 DEF Workless
<1>8. CASE ImportTiles \/ Quiet \/ UNCHANGED vars
  <2>1. UNCHANGED at /\ UNCHANGED main
    BY <1>8 DEF ImportTiles, Quiet, vars, worker
  <2>2. QED
    BY <1>1, <2>1 DEF Live
<1>9. QED
  BY <1>2, <1>3, <1>4, <1>5, <1>6, <1>7, <1>8 DEF Next, MainStep

LEMMA OwnFilesStep ==
    ASSUME OwnInv, [Next]_vars
    PROVE  ChannelOwns' /\ CachesOwn' /\ ResultsAreOwn'
<1> DEFINE Entry == [chunk : Chunk, res : Results]
<1>a. /\ queue \in [Runs -> Seq(Entry)]
      /\ received \in [Runs -> Partial(Chunk, Levels)]
      /\ local \in [Runs -> Partial(Chunk, Levels)]
      /\ shared \in [Keys -> Levels \cup {NoFile}]
  BY DEF OwnInv, TypeOK
<1>b. ChannelOwns /\ CachesOwn /\ ResultsAreOwn
  BY DEF OwnInv
<1>1. UNCHANGED queue => ChannelOwns'
  BY <1>b DEF ChannelOwns
<1>2. UNCHANGED <<local, shared>> => CachesOwn'
  BY <1>b DEF CachesOwn
<1>3. UNCHANGED received => ResultsAreOwn'
  BY <1>b DEF ResultsAreOwn
<1>4. ASSUME NEW r \in Runs, Start(r) PROVE ChannelOwns' /\ CachesOwn' /\ ResultsAreOwn'
  <2>1. UNCHANGED <<queue, local, shared>>
    BY <1>4 DEF Start
  <2>2. received' = received \/ received' = [received EXCEPT ![r] = <<>>]
    BY <1>4 DEF Start
  <2>3. QED
    BY <1>1, <1>2, <1>a, <1>b, <2>1, <2>2, EmptyType DEF ResultsAreOwn
<1>5. ASSUME NEW r \in Runs, Kill(r) PROVE ChannelOwns' /\ CachesOwn' /\ ResultsAreOwn'
  <2>1. UNCHANGED <<received, local, shared>> /\ queue' = [queue EXCEPT ![r] = <<>>]
    BY <1>5 DEF Kill, files
  <2>2. ChannelOwns'
    BY <1>a, <1>b, <2>1 DEF ChannelOwns
  <2>3. QED
    BY <1>2, <1>3, <2>1, <2>2
<1>6. ASSUME NEW w \in Worker, WorkerStep(w) PROVE ChannelOwns' /\ CachesOwn' /\ ResultsAreOwn'
  <2>1. UNCHANGED received
    BY <1>6 DEF WorkerStep, Take, WorkerEnd, Look, Compute, StageLocal, CommitLocal, StageShared,
                CommitShared, Send, BesideWorkers, result
  <2>2. w[1] \in Runs /\ WorkerOwns(w)
    BY WorkerType DEF OwnInv
  <2>3. ChannelOwns'
    <3>1. CASE Send(w)
      <4> DEFINE entry == [chunk |-> job[w], res |-> val[w]]
      <4>1. job[w] \in Chunk /\ val[w] \in Results
            /\ (val[w].err = "none" => val[w] = Ok(Level(w[1], job[w])))
        BY <2>2, <3>1, WorkerType DEF Send, WorkerOwns
      <4>2. entry \in Entry /\ entry.chunk = job[w] /\ entry.res = val[w]
        BY <4>1
      <4>3. queue' = [queue EXCEPT ![w[1]] = Append(queue[w[1]], entry)]
        BY <3>1 DEF Send
      <4> HIDE DEF entry, Entry
      <4>4. ASSUME NEW i \in 1..Len(queue'[w[1]]), queue'[w[1]][i].res.err = "none"
            PROVE  queue'[w[1]][i].res = Ok(Level(w[1], queue'[w[1]][i].chunk))
        <5>1. queue'[w[1]] = Append(queue[w[1]], entry) /\ queue[w[1]] \in Seq(Entry)
          BY <1>a, <2>2, <4>3
        <5>2. CASE i = Len(queue[w[1]]) + 1
          BY <4>1, <4>2, <4>4, <5>1, <5>2
        <5>3. CASE i \in 1..Len(queue[w[1]])
          BY <1>b, <2>2, <4>2, <4>4, <5>1, <5>3 DEF ChannelOwns
        <5>4. QED
          BY <4>2, <5>1, <5>2, <5>3
      <4>5. \A q \in Runs : q # w[1] => queue'[q] = queue[q]
        BY <1>a, <4>3
      <4>6. QED
        BY <1>b, <4>4, <4>5 DEF ChannelOwns
    <3>2. CASE ~Send(w)
      BY <1>1, <1>6, <3>2
         DEF WorkerStep, Take, WorkerEnd, Look, Compute, StageLocal, CommitLocal, StageShared,
             CommitShared, BesideWorkers, result
    <3>3. QED
      BY <3>1, <3>2
  <2>4. CachesOwn'
    <3>1. CASE UNCHANGED <<local, shared>>
      BY <1>2, <3>1
    <3>2. ASSUME at[w] \in {"looking", "staged"}, UNCHANGED shared,
                 local' = [local EXCEPT ![w[1]] = Put(@, job[w], Level(w[1], job[w]))]
          PROVE  CachesOwn'
      <4>1. job[w] \in Chunk /\ Level(w[1], job[w]) \in Levels
        BY <3>2, WorkerType
      <4> DEFINE mirrored == Put(local[w[1]], job[w], Level(w[1], job[w]))
      <4>2. /\ DOMAIN mirrored = DOMAIN local[w[1]] \cup {job[w]}
            /\ mirrored[job[w]] = Level(w[1], job[w])
            /\ \A c \in DOMAIN local[w[1]] : c # job[w] => mirrored[c] = local[w[1]][c]
        BY DEF Put
      <4>3. local' = [local EXCEPT ![w[1]] = mirrored]
        BY <3>2
      <4> HIDE DEF mirrored
      <4>4. \A q \in Runs : q # w[1] => local'[q] = local[q]
        BY <1>a, <4>3
      <4>5. local'[w[1]] = mirrored
        BY <1>a, <2>2, <4>3
      <4>6. ASSUME NEW c \in DOMAIN mirrored PROVE mirrored[c] = Level(w[1], c)
        <5>1. CASE c = job[w]
          BY <4>2, <5>1
        <5>2. CASE c # job[w]
          BY <1>b, <2>2, <4>2, <5>2 DEF CachesOwn
        <5>3. QED
          BY <5>1, <5>2
      <4>7. ASSUME NEW q \in Runs, NEW c \in DOMAIN local'[q] PROVE local'[q][c] = Level(q, c)
        <5>1. CASE q = w[1]
          BY <4>5, <4>6, <5>1
        <5>2. CASE q # w[1]
          BY <1>b, <4>4, <5>2 DEF CachesOwn
        <5>3. QED
          BY <5>1, <5>2
      <4>8. \A k \in Keys : shared'[k] \in {k, NoFile}
        BY <1>b, <3>2 DEF CachesOwn
      <4>9. \A q \in Runs : \A c \in DOMAIN local'[q] : Level(q, c)' = Level(q, c)
        BY DEF Level
      <4>10. QED
        BY <4>7, <4>8, <4>9 DEF CachesOwn
    <3>3. CASE Look(w)
      <4>1. job[w] \in Chunk /\ at[w] = "looking"
        BY <3>3, WorkerType DEF Look
      <4>2. CASE /\ shared[Key(w[1], job[w])] # NoFile
                 /\ Mirror(w[1], job[w], shared[Key(w[1], job[w])])
                 /\ UNCHANGED shared
        <5>1. shared[Key(w[1], job[w])] = Level(w[1], job[w])
          BY <1>b, <2>2, <4>1, <4>2, LevelType DEF CachesOwn
        <5>2. QED
          BY <3>1, <3>2, <4>1, <4>2, <5>1 DEF Mirror
      <4>3. QED
        BY <3>1, <3>3, <4>2 DEF Look, files
    <3>4. CASE CommitLocal(w)
      <4>1. CASE at[w] = "staged"
        <5>1. job[w] \in Chunk /\ val[w].level = Level(w[1], job[w])
          BY <2>2, <4>1, WorkerType, ResultType DEF WorkerOwns
        <5>2. QED
          BY <3>1, <3>2, <3>4, <4>1, <5>1 DEF CommitLocal
      <4>2. QED
        BY <3>1, <3>4, <4>1 DEF CommitLocal
    <3>5. CASE CommitShared(w)
      <4>1. at[w] = "sharestaged"
        BY <3>5 DEF CommitShared, WorkerOwns
      <4>2. /\ Key(w[1], job[w]) \in Keys /\ Key(w[1], job[w]) = Level(w[1], job[w])
            /\ val[w].level = Level(w[1], job[w])
        BY <2>2, <4>1, WorkerType, ResultType DEF WorkerOwns
      <4>3. QED
        BY <1>a, <1>b, <3>5, <4>2 DEF CommitShared, CachesOwn
    <3>6. QED
      BY <1>6, <3>1, <3>3, <3>4, <3>5
         DEF WorkerStep, Take, WorkerEnd, Compute, StageLocal, StageShared, Send, files
  <2>5. QED
    BY <1>3, <2>1, <2>3, <2>4
<1>7. ASSUME NEW r \in Runs, CollectFailure(r) \/ Drain(r) \/ CollectChunk(r)
      PROVE  ChannelOwns' /\ CachesOwn' /\ ResultsAreOwn'
  <2>1. UNCHANGED <<local, shared>> /\ queue[r] # <<>> /\ queue' = [queue EXCEPT ![r] = Tail(@)]
    BY <1>7 DEF CollectFailure, Drain, CollectChunk, BesideCollect, Dequeue
  <2>2. queue[r] \in Seq(Entry) /\ Len(queue[r]) > 0
    <3> HIDE DEF Entry
    <3> QED
      BY <1>a, <2>1
  <2>3. /\ Len(queue'[r]) = Len(queue[r]) - 1
        /\ \A i \in 1..Len(queue'[r]) : i + 1 \in 1..Len(queue[r]) /\ queue'[r][i] = queue[r][i + 1]
    <3> HIDE DEF Entry
    <3> QED
      BY <1>a, <2>1, <2>2
  <2>4. ChannelOwns'
    BY <1>a, <1>b, <2>1, <2>3 DEF ChannelOwns
  <2>5. ResultsAreOwn'
    <3>1. CASE CollectFailure(r) \/ Drain(r)
      BY <1>3, <3>1 DEF CollectFailure, Drain
    <3>2. CASE CollectChunk(r)
      <4>1. /\ Head(queue[r]) = queue[r][1] /\ 1 \in 1..Len(queue[r])
            /\ Head(queue[r]) \in Entry
        <5> HIDE DEF Entry
        <5> QED
          BY <2>1, <2>2
      <4> DEFINE c == Head(queue[r]).chunk
      <4>2. c \in Chunk /\ Message(r) \in Results /\ Message(r) = Ok(Level(r, c))
        BY <1>b, <3>2, <4>1 DEF CollectChunk, Message, ChannelOwns
      <4>3. Message(r).level = Level(r, c) /\ Level(r, c) \in Levels
        BY <4>2, LevelType, ResultType
      <4> DEFINE collected == Put(received[r], c, Level(r, c))
      <4>4. received' = [received EXCEPT ![r] = collected]
        BY <3>2, <4>3 DEF CollectChunk
      <4>5. /\ DOMAIN collected = DOMAIN received[r] \cup {c}
            /\ collected[c] = Level(r, c)
            /\ \A d \in DOMAIN received[r] : d # c => collected[d] = received[r][d]
        BY DEF Put
      <4> HIDE DEF c, collected
      <4>6. QED
        BY <1>a, <1>b, <4>4, <4>5 DEF ResultsAreOwn
    <3>3. QED
      BY <1>7, <3>1, <3>2
  <2>6. QED
    BY <1>2, <2>1, <2>4, <2>5
<1>8. ASSUME NEW r \in Runs, Prune(r) PROVE ChannelOwns' /\ CachesOwn' /\ ResultsAreOwn'
  <2>1. UNCHANGED <<queue, received, shared>>
    BY <1>8 DEF Prune, result
  <2>2. \A q \in Runs : local'[q] = local[q] \/ local'[q] = <<>>
    BY <1>8 DEF Prune
  <2>3. CachesOwn'
    BY <1>b, <2>1, <2>2, EmptyType DEF CachesOwn
  <2>4. QED
    BY <1>1, <1>3, <2>1, <2>3
<1>9. ASSUME NEW r \in Runs,
             \/ Cancel(r) \/ ProducerStep(r) \/ EndUnfinished(r) \/ EndCollected(r)
             \/ StageOutput(r) \/ CommitOutput(r) \/ Record(r)
      PROVE  UNCHANGED <<queue, received, local, shared>>
  BY <1>9 DEF Cancel, ProducerStep, ProducerDone, ProducerStop, CloseJobs, EndUnfinished,
              EndCollected, StageOutput, CommitOutput, Record, BesideMain, result, files
<1>10. ImportTiles \/ Quiet \/ UNCHANGED vars => UNCHANGED <<queue, received, local, shared>>
  BY DEF ImportTiles, Quiet, vars, result, files
<1>11. UNCHANGED <<queue, received, local, shared>> => ChannelOwns' /\ CachesOwn' /\ ResultsAreOwn'
  BY <1>1, <1>2, <1>3
<1>12. QED
  BY <1>4, <1>5, <1>6, <1>7, <1>8, <1>9, <1>10, <1>11 DEF Next, MainStep

LEMMA OwnStep == OwnInv /\ [Next]_vars => OwnInv'
<1> SUFFICES ASSUME OwnInv, [Next]_vars PROVE OwnInv'
  OBVIOUS
<1>1. TypeOK'
  <2>1. CASE UNCHANGED vars
    BY <2>1 DEF OwnInv, TypeOK, vars, context, feed, worker, result, files
  <2>2. ASSUME NEW r \in Runs, Start(r) \/ Cancel(r) \/ Kill(r) \/ ProducerStep(r) PROVE TypeOK'
    BY <2>2, CallerType
  <2>3. ASSUME NEW r \in Runs, MainStep(r) PROVE TypeOK'
    BY <2>3, CollectorType, MainStepType DEF MainStep
  <2>4. ASSUME NEW w \in Worker, WorkerStep(w) PROVE TypeOK'
    BY <2>4, WorkerStepType
  <2>5. CASE ImportTiles
    BY <2>5 DEF ImportTiles, Dirs, OwnInv, TypeOK, context, feed, worker, result
  <2>6. CASE Quiet
    BY <2>1, <2>6 DEF Quiet
  <2>7. QED
    BY <2>1, <2>2, <2>3, <2>4, <2>5, <2>6 DEF Next
<1>2. QED
  BY <1>1, WorkersOwnStep, RestingStep, OwnFilesStep DEF OwnInv

LEMMA OwnInvHolds == Spec => []OwnInv
  BY OwnInit, OwnStep, PTL DEF Spec

\* Every variable keeps the type of the channel, file or goroutine it models.
THEOREM TypeCorrect == Spec => []TypeOK
<1>1. OwnInv => TypeOK
  BY DEF OwnInv
<1>2. QED
  BY <1>1, OwnInvHolds, PTL

\* The shared chunk cache gives no run another run's levels: every collected
\* result is the kernel's for the run's own standard, receivers and sources.
THEOREM ResultsAreOwnHolds == Spec => []ResultsAreOwn
<1>1. OwnInv => ResultsAreOwn
  BY DEF OwnInv
<1>2. QED
  BY <1>1, OwnInvHolds, PTL

\* No worker goroutine outlives the Run that started it.
THEOREM WorkersEndFirstHolds == Spec => []WorkersEndFirst
<1>1. OwnInv => WorkersEndFirst
  BY DEF OwnInv, Resting, WorkersEndFirst, Over, Live
<1>2. QED
  BY <1>1, OwnInvHolds, PTL

-----------------------------------------------------------------------------
(* Blame: whatever is reported as failed or canceled, all the way from the  *)
(* worker to the caller, has a storage failure, a prune or the caller       *)
(* behind it.                                                              *)

\* What accounts for a failed or canceled chunk of run r.
Explained(r, err) ==
    /\ err = "canceled" => r \in parent \/ firstErr[r] # "none"
    /\ err = "failed" => faults > 0 \/ r \in pruned

WorkersExplained  == \A w \in Worker : Explained(w[1], val[w].err)
ChannelExplained  ==
    \A r \in Runs : \A i \in 1..Len(queue[r]) : Explained(r, queue[r][i].res.err)
FailureExplained  ==
    \A r \in Runs : /\ firstErr[r] = "canceled" => r \in parent
                    /\ firstErr[r] = "failed" => faults > 0 \/ r \in pruned
LossExplained ==
    /\ \A r \in Runs : main[r] = "lost" => r \in pruned
    /\ \A w \in Worker : at[w] = "lost" => w[1] \in pruned

\* While it collects, a run stops its own workers only over a failure.
StopExplained == \A r \in Runs : Live(r) /\ r \in stopped => firstErr[r] # "none"

BlameInv ==
    /\ OwnInv
    /\ WorkersExplained /\ ChannelExplained /\ FailureExplained
    /\ LossExplained /\ StopExplained
    /\ CanceledOnlyIfAsked /\ OnlyFaultsFail

LEMMA BlameInit == Init => BlameInv
<1> SUFFICES ASSUME Init PROVE BlameInv
  OBVIOUS
<1>1. OwnInv
  BY OwnInit
<1>2. WorkersExplained /\ ChannelExplained /\ FailureExplained
  BY ResultType DEF Init, WorkersExplained, ChannelExplained, FailureExplained, Explained
<1>3. LossExplained /\ StopExplained /\ CanceledOnlyIfAsked /\ OnlyFaultsFail
  BY DEF Init, LossExplained, StopExplained, CanceledOnlyIfAsked, OnlyFaultsFail, Live
<1>4. QED
  BY <1>1, <1>2, <1>3 DEF BlameInv

\* What a worker step, and what the steps of the producer and of Run after the
\* collection, leave alone.
LEMMA WorkerFrame ==
    ASSUME NEW w \in Worker, WorkerStep(w)
    PROVE  /\ UNCHANGED <<main, outcome, parent, stopped, closed, cached, received, firstErr,
                          state, pruned>>
           /\ Fault \/ UNCHANGED faults
  BY DEF WorkerStep, Take, WorkerEnd, Look, Compute, StageLocal, CommitLocal, StageShared,
         CommitShared, Send, BesideWorkers, context, feed, result, files

LEMMA PersistFrame ==
    ASSUME NEW r \in Runs, StageOutput(r) \/ CommitOutput(r) \/ Record(r)
    PROVE  /\ UNCHANGED <<parent, stopped, next, closed, cached, at, job, val, queue, received,
                          firstErr, local, shared, pruned>>
           /\ Fault \/ UNCHANGED faults
           /\ main[r] \in {"persisting", "committing", "lost", "recording"}
           /\ \/ \E there \in {"committing", "recording", "pruning"} :
                    MainGo(r, there) /\ UNCHANGED outcome
              \/ Finish(r, "failed") /\ (Fault \/ main[r] = "lost")
  BY DEF StageOutput, CommitOutput, Record, BesideMain, context, feed, worker, result, files

LEMMA CollectFrame ==
    ASSUME NEW r \in Runs, CollectFailure(r) \/ Drain(r) \/ CollectChunk(r)
    PROVE  /\ UNCHANGED <<main, outcome, parent, next, closed, cached, at, job, val, local,
                          shared, pruned>>
           /\ Live(r) /\ queue[r] # <<>> /\ Dequeue(r)
           /\ Fault \/ UNCHANGED faults
  BY DEF CollectFailure, Drain, CollectChunk, BesideCollect, feed, worker

LEMMA EndFrame ==
    ASSUME NEW r \in Runs, EndUnfinished(r) \/ EndCollected(r)
    PROVE  /\ UNCHANGED <<parent, next, closed, cached, at, job, val, queue, received, firstErr,
                          local, shared, pruned>>
           /\ stopped' = stopped \cup {r}
           /\ Live(r) /\ queue[r] = <<>> /\ Workless(r)
           /\ Fault \/ UNCHANGED faults
  BY DEF EndUnfinished, EndCollected, context, feed, worker, result, files

LEMMA IdleFrame ==
    ASSUME ImportTiles \/ Quiet \/ UNCHANGED vars
    PROVE  UNCHANGED <<main, outcome, parent, stopped, next, closed, cached, at, job, val, queue,
                       received, firstErr, state, local, shared, pruned, faults>>
  BY DEF ImportTiles, Quiet, vars, context, feed, worker, result, files

\* What accounts for a failure is never taken back.
LEMMA BlameStays ==
    ASSUME OwnInv, [Next]_vars
    PROVE  /\ parent \subseteq parent' /\ pruned \subseteq pruned'
           /\ faults > 0 => faults' > 0
           /\ \A r \in Runs : firstErr[r] # "none" => firstErr'[r] = firstErr[r]
<1>1. Fault \/ UNCHANGED faults => (faults > 0 => faults' > 0)
  <2>1. faults \in Nat
    BY Constants DEF OwnInv, TypeOK
  <2>2. QED
    BY <2>1 DEF Fault
<1>2. ASSUME NEW r \in Runs, Start(r) PROVE UNCHANGED <<parent, pruned, firstErr>> /\ (Fault \/ UNCHANGED faults)
  BY <1>2 DEF Start
<1>3. ASSUME NEW r \in Runs, Cancel(r)
      PROVE  parent \subseteq parent' /\ UNCHANGED <<pruned, firstErr, faults>>
  BY <1>3 DEF Cancel, result, files
<1>4. ASSUME NEW r \in Runs, Kill(r) \/ ProducerStep(r)
      PROVE  UNCHANGED <<parent, pruned, firstErr, faults>>
  BY <1>4 DEF Kill, ProducerStep, ProducerDone, ProducerStop, CloseJobs, context, result, files
<1>5. ASSUME NEW r \in Runs, CollectFailure(r) \/ Drain(r) \/ CollectChunk(r)
      PROVE  \A q \in Runs : firstErr[q] # "none" => firstErr'[q] = firstErr[q]
  BY <1>5 DEF CollectFailure, Drain, CollectChunk, OwnInv, TypeOK
<1>6. ASSUME NEW r \in Runs, Prune(r)
      PROVE  /\ UNCHANGED <<parent, firstErr>> /\ pruned \subseteq pruned'
             /\ Fault \/ UNCHANGED faults
  BY <1>6 DEF Prune, context, result
<1>7. QED
  BY <1>1, <1>2, <1>3, <1>4, <1>5, <1>6, WorkerFrame, PersistFrame, CollectFrame, EndFrame, IdleFrame
     DEF Next, MainStep

\* Only Start makes a run collect.
LEMMA BeginsByStart ==
    ASSUME OwnInv, [Next]_vars, NEW r \in Runs, Live(r)', ~Live(r)
    PROVE  /\ Start(r)
           /\ stopped' = stopped \ {r} /\ closed' = closed \ {r} /\ next' = [next EXCEPT ![r] = 1]
           /\ at' = [w \in Worker |-> IF w[1] = r THEN "idle" ELSE at[w]]
           /\ WriteState(r, "running", 0) /\ received' = [received EXCEPT ![r] = <<>>]
<1>a. main \in [Runs -> MainState]
  BY DEF OwnInv, TypeOK
<1>1. ASSUME NEW q \in Runs, Start(q) PROVE q = r /\ MainGo(q, "collecting")
  BY <1>1, <1>a DEF Start, MainGo, Live
<1>2. ASSUME NEW q \in Runs, Kill(q) \/ EndUnfinished(q) \/ EndCollected(q) PROVE FALSE
  BY <1>2, <1>a DEF Kill, EndUnfinished, EndCollected, Finish, MainGo, Live
<1>3. ASSUME NEW q \in Runs, StageOutput(q) \/ CommitOutput(q) \/ Record(q) PROVE FALSE
  BY <1>3, <1>a, PersistFrame DEF Finish, MainGo, Live
<1>4. ASSUME NEW q \in Runs, Prune(q) PROVE FALSE
  BY <1>4, <1>a DEF Prune, Finish, MainGo, Live
<1>5. ASSUME NEW q \in Runs,
             Cancel(q) \/ ProducerStep(q) \/ CollectFailure(q) \/ Drain(q) \/ CollectChunk(q)
      PROVE  FALSE
  <2>1. main' = main
    BY <1>5, CollectFrame DEF Cancel, ProducerStep, ProducerDone, ProducerStop, CloseJobs
  <2>2. QED
    BY <2>1 DEF Live
<1>6. ~(ImportTiles \/ Quiet \/ UNCHANGED vars) /\ \A w \in Worker : ~WorkerStep(w)
  BY IdleFrame, WorkerFrame DEF Live
<1>7. Start(r) /\ MainGo(r, "collecting")
  BY <1>1, <1>2, <1>3, <1>4, <1>5, <1>6 DEF Next, MainStep
<1>8. ~MainGo(r, "returned")
  BY <1>7, <1>a DEF MainGo
<1>9. QED
  BY <1>7, <1>8 DEF Start

LEMMA BlameStep ==
    ASSUME BlameInv, [Next]_vars
    PROVE  /\ WorkersExplained' /\ ChannelExplained' /\ FailureExplained'
           /\ LossExplained' /\ StopExplained'
<1> DEFINE Entry == [chunk : Chunk, res : Results]
<1>a. /\ OwnInv /\ main \in [Runs -> MainState] /\ at \in [Worker -> Step]
      /\ queue \in [Runs -> Seq(Entry)]
      /\ val \in [Worker -> Results \cup {Bad("none")}]
      /\ firstErr \in [Runs -> {"none", "canceled", "failed"}]
  BY DEF BlameInv, OwnInv, TypeOK
<1>b. WorkersExplained /\ ChannelExplained /\ FailureExplained /\ LossExplained /\ StopExplained
  BY DEF BlameInv
<1>c. /\ parent \subseteq parent' /\ pruned \subseteq pruned'
      /\ faults > 0 => faults' > 0
      /\ \A r \in Runs : firstErr[r] # "none" => firstErr'[r] = firstErr[r]
  BY <1>a, BlameStays
<1>d. \A w \in Worker : w[1] \in Runs
  BY <1>a, WorkerType
<1>e. ASSUME NEW r \in Runs, NEW err, Explained(r, err)
      PROVE  /\ err = "canceled" => r \in parent' \/ firstErr'[r] # "none"
             /\ err = "failed" => faults' > 0 \/ r \in pruned'
  BY <1>c, <1>e DEF Explained
<1>f. Fault => faults' > 0
  <2>1. faults \in Nat
    BY <1>a, Constants DEF OwnInv, TypeOK
  <2>2. QED
    BY <2>1 DEF Fault
<1>g. \A w \in Worker : at[w] \notin {"none", "exited"} => Live(w[1])
  <2> SUFFICES ASSUME NEW w \in Worker, ~Live(w[1]) PROVE at[w] \in {"none", "exited"}
    OBVIOUS
  <2>1. w[1] \in Runs /\ w = <<w[1], w[2]>> /\ w[2] \in Pool /\ Resting
    BY <1>a, WorkerType DEF OwnInv
  <2>2. QED
    BY <2>1 DEF Resting, Workless
<1>1. WorkersExplained'
  <2> SUFFICES ASSUME NEW w \in Worker
               PROVE  /\ val'[w].err = "canceled" => w[1] \in parent' \/ firstErr'[w[1]] # "none"
                      /\ val'[w].err = "failed" => faults' > 0 \/ w[1] \in pruned'
    BY DEF WorkersExplained, Explained
  <2>1. CASE val'[w].err \in {val[w].err, "none"}
    BY <1>b, <1>d, <1>e, <2>1 DEF WorkersExplained
  <2>2. CASE WorkerStep(w)
    <3>1. CASE Look(w)
      <4>1. job[w] \in Chunk /\ at[w] = "looking"
        BY <1>a, <3>1, WorkerType DEF Look
      <4>2. shared[Key(w[1], job[w])] # Torn
        <5>1. NoFile # Torn
          BY DEF NoFile, Torn
        <5>2. Key(w[1], job[w]) \in Keys /\ Key(w[1], job[w]) \in Levels
          BY <1>d, <4>1, LevelType
        <5>3. shared[Key(w[1], job[w])] \in {Key(w[1], job[w]), NoFile}
          BY <1>a, <5>2 DEF OwnInv, CachesOwn
        <5>4. QED
          BY <5>1, <5>2, <5>3, Constants
      <4>3. \/ UNCHANGED val \/ \E level : val' = [val EXCEPT ![w] = Ok(level)]
            \/ Fault /\ val' = [val EXCEPT ![w] = Bad("failed")]
        BY <3>1, <4>2 DEF Look, Goes, Carries
      <4>4. CASE \E level : val' = [val EXCEPT ![w] = Ok(level)]
        BY <1>a, <2>1, <4>4 DEF Ok
      <4>5. QED
        BY <1>a, <1>f, <2>1, <4>3, <4>4, ResultType
    <3>2. CASE Compute(w)
      <4>1. Live(w[1])
        BY <1>g, <3>2 DEF Compute
      <4>2. CASE val' = [val EXCEPT ![w] = Ok(Level(w[1], job[w]))]
        BY <1>a, <2>1, <4>2 DEF Ok
      <4>3. CASE CtxDone(w[1]) /\ val' = [val EXCEPT ![w] = Bad("canceled")]
        <5>1. w[1] \in parent \/ firstErr[w[1]] # "none"
          BY <1>b, <1>d, <4>1, <4>3 DEF CtxDone, StopExplained
        <5>2. QED
          BY <1>a, <1>c, <1>d, <4>3, <5>1, ResultType
      <4>4. QED
        BY <3>2, <4>2, <4>3 DEF Compute, Carries
    <3>3. CASE CommitLocal(w)
      <4>1. \/ UNCHANGED val
            \/ val' = [val EXCEPT ![w] = Bad("failed")] /\ (Fault \/ at[w] = "lost")
        BY <3>3 DEF CommitLocal, Goes, Carries
      <4>2. at[w] = "lost" => w[1] \in pruned'
        BY <1>b, <1>c DEF LossExplained
      <4>3. QED
        BY <1>a, <1>f, <2>1, <4>1, <4>2, ResultType
    <3>4. CASE StageLocal(w) \/ StageShared(w) \/ CommitShared(w)
      <4>1. \/ UNCHANGED val \/ val' = [val EXCEPT ![w] = val[w]]
            \/ val' = [val EXCEPT ![w] = Bad("failed")] /\ Fault
        BY <3>4 DEF StageLocal, StageShared, CommitShared, Goes, Carries
      <4>2. QED
        BY <1>a, <1>f, <2>1, <4>1, ResultType
    <3>5. CASE Take(w) \/ WorkerEnd(w) \/ Send(w)
      <4>1. UNCHANGED val \/ val' = [val EXCEPT ![w] = Bad("none")]
        BY <3>5 DEF Take, WorkerEnd, Send
      <4>2. QED
        BY <1>a, <2>1, <4>1, ResultType
    <3>6. QED
      BY <2>2, <3>1, <3>2, <3>3, <3>4, <3>5 DEF WorkerStep
  <2>3. ASSUME NEW x \in Worker, WorkerStep(x), x # w PROVE val'[w] = val[w]
    BY <1>a, <2>3
       DEF WorkerStep, Take, WorkerEnd, Look, Compute, StageLocal, CommitLocal, StageShared,
           CommitShared, Send, Goes, Carries
  <2>4. ASSUME NEW r \in Runs, Kill(r) PROVE val'[w].err \in {val[w].err, "none"}
    BY <1>a, <2>4, ResultType DEF Kill
  <2>5. ASSUME NEW r \in Runs, Start(r) \/ Cancel(r) \/ ProducerStep(r) \/ Prune(r)
        PROVE  UNCHANGED val
    BY <2>5 DEF Start, Cancel, ProducerStep, ProducerDone, ProducerStop, CloseJobs, Prune, worker
  <2>6. QED
    BY <2>1, <2>2, <2>3, <2>4, <2>5, PersistFrame, CollectFrame, EndFrame, IdleFrame
       DEF Next, MainStep
<1>2. ChannelExplained'
  <2> SUFFICES ASSUME NEW r \in Runs, NEW i \in 1..Len(queue'[r])
               PROVE  LET err == queue'[r][i].res.err
                      IN  /\ err = "canceled" => r \in parent' \/ firstErr'[r] # "none"
                          /\ err = "failed" => faults' > 0 \/ r \in pruned'
    BY DEF ChannelExplained, Explained
  <2>1. CASE \E j \in 1..Len(queue[r]) : queue'[r][i] = queue[r][j]
    BY <1>b, <1>e, <2>1 DEF ChannelExplained
  <2>2. CASE queue'[r] = queue[r]
    BY <2>1, <2>2
  <2>3. ASSUME NEW w \in Worker, Send(w), w[1] = r PROVE queue'[r][i].res = val[w]
                 \/ \E j \in 1..Len(queue[r]) : queue'[r][i] = queue[r][j]
    <3> DEFINE entry == [chunk |-> job[w], res |-> val[w]]
    <3>1. job[w] \in Chunk /\ val[w] \in Results
      BY <1>a, <2>3, WorkerType DEF OwnInv, WorkerOwns, Send
    <3>2. entry \in Entry /\ entry.res = val[w]
      BY <3>1
    <3>3. queue'[r] = Append(queue[r], entry) /\ queue[r] \in Seq(Entry)
      BY <1>a, <2>3 DEF Send
    <3> HIDE DEF entry, Entry
    <3>4. CASE i = Len(queue[r]) + 1
      BY <3>2, <3>3, <3>4
    <3>5. CASE i \in 1..Len(queue[r])
      BY <3>2, <3>3, <3>5
    <3>6. QED
      BY <3>2, <3>3, <3>4, <3>5
  <2>4. ASSUME NEW w \in Worker, WorkerStep(w) PROVE
                 LET err == queue'[r][i].res.err
                 IN  /\ err = "canceled" => r \in parent' \/ firstErr'[r] # "none"
                     /\ err = "failed" => faults' > 0 \/ r \in pruned'
    <3>1. CASE Send(w) /\ w[1] = r
      BY <1>b, <1>d, <1>e, <2>1, <2>3, <3>1 DEF WorkersExplained
    <3>2. CASE Send(w) /\ w[1] # r
      BY <1>a, <2>2, <3>2 DEF Send
    <3>3. CASE ~Send(w)
      <4>1. UNCHANGED queue
        BY <2>4, <3>3
           DEF WorkerStep, Take, WorkerEnd, Look, Compute, StageLocal, CommitLocal, StageShared,
               CommitShared, BesideWorkers, result
      <4>2. QED
        BY <2>2, <4>1
    <3>4. QED
      BY <3>1, <3>2, <3>3
  <2>5. ASSUME NEW q \in Runs, CollectFailure(q) \/ Drain(q) \/ CollectChunk(q)
        PROVE  \E j \in 1..Len(queue[r]) : queue'[r][i] = queue[r][j]
    <3>1. queue[q] # <<>> /\ queue' = [queue EXCEPT ![q] = Tail(@)]
      BY <2>5, CollectFrame DEF Dequeue
    <3>2. CASE q = r
      <4> HIDE DEF Entry
      <4>1. queue'[r] = Tail(queue[r]) /\ queue[r] \in Seq(Entry) /\ Len(queue[r]) > 0
        BY <1>a, <3>1, <3>2
      <4>2. i + 1 \in 1..Len(queue[r]) /\ queue'[r][i] = queue[r][i + 1]
        BY <4>1
      <4>3. QED
        BY <4>2
    <3>3. CASE q # r
      BY <1>a, <3>1, <3>3
    <3>4. QED
      BY <3>2, <3>3
  <2>6. ASSUME NEW q \in Runs, Kill(q) PROVE queue'[r] = queue[r]
    <3>1. queue' = [queue EXCEPT ![q] = <<>>]
      BY <2>6 DEF Kill
    <3>2. q # r
      BY <1>a, <3>1
    <3>3. QED
      BY <1>a, <3>1, <3>2
  <2>7. ASSUME NEW q \in Runs, Start(q) \/ Cancel(q) \/ ProducerStep(q) \/ Prune(q)
        PROVE  UNCHANGED queue
    BY <2>7 DEF Start, Cancel, ProducerStep, ProducerDone, ProducerStop, CloseJobs, Prune, result
  <2>8. QED
    BY <2>1, <2>2, <2>4, <2>5, <2>6, <2>7, PersistFrame, EndFrame, IdleFrame DEF Next, MainStep
<1>3. FailureExplained'
  <2>1. ASSUME NEW r \in Runs, CollectFailure(r), NEW q \in Runs
        PROVE  /\ firstErr'[q] = "canceled" => q \in parent'
               /\ firstErr'[q] = "failed" => faults' > 0 \/ q \in pruned'
    <3>1. CASE q # r
      BY <1>a, <1>b, <1>c, <2>1, <3>1 DEF CollectFailure, FailureExplained
    <3>2. CASE q = r
      <4>1. firstErr'[r] = Message(r).err /\ firstErr[r] = "none" /\ queue[r] # <<>>
        BY <1>a, <2>1 DEF CollectFailure
      <4>2. Head(queue[r]) = queue[r][1] /\ 1 \in 1..Len(queue[r])
        <5> HIDE DEF Entry
        <5> QED
          BY <1>a, <4>1
      <4>3. Explained(r, Message(r).err)
        BY <1>b, <4>2 DEF ChannelExplained, Message
      <4>4. QED
        BY <1>c, <3>2, <4>1, <4>3 DEF Explained
    <3>3. QED
      BY <3>1, <3>2
  <2>2. UNCHANGED firstErr => FailureExplained'
    BY <1>b, <1>c DEF FailureExplained
  <2>3. ASSUME NEW r \in Runs,
               \/ Start(r) \/ Cancel(r) \/ Kill(r) \/ ProducerStep(r) \/ Drain(r)
               \/ CollectChunk(r) \/ Prune(r)
        PROVE  UNCHANGED firstErr
    BY <2>3 DEF Start, Cancel, Kill, ProducerStep, ProducerDone, ProducerStop, CloseJobs, Drain,
                CollectChunk, Prune, result
  <2>4. (\E r \in Runs : CollectFailure(r)) \/ UNCHANGED firstErr
    BY <2>3, PersistFrame, EndFrame, IdleFrame, WorkerFrame DEF Next, MainStep
  <2>5. QED
    BY <2>1, <2>2, <2>4 DEF FailureExplained
<1>4. LossExplained'
  <2>1. ASSUME NEW r \in Runs, Prune(r) PROVE LossExplained'
    <3>1. CASE Finish(r, "failed") /\ UNCHANGED <<at, pruned>>
      BY <1>a, <1>b, <3>1 DEF Finish, MainGo, LossExplained
    <3>2. CASE ~(Finish(r, "failed") /\ UNCHANGED <<at, pruned>>)
      <4>1. /\ at' = [w \in Worker |->
                        IF w[1] \in Stale(r) /\ at[w] = "staged" THEN "lost" ELSE at[w]]
            /\ main' = [q \in Runs |->
                          IF q = r THEN "returned"
                          ELSE IF q \in Stale(r) /\ main[q] = "committing" THEN "lost"
                          ELSE main[q]]
            /\ pruned' = pruned \cup {q \in Stale(r) \cap Runs : Running(q)}
        BY <2>1, <3>2 DEF Prune
      <4>2. \A w \in Worker : at[w] = "staged" => Running(w[1])
        BY <1>g DEF Live, Running, Over
      <4>3. \A q \in Runs : main[q] = "committing" => Running(q)
        BY DEF Running, Over
      <4>4. \A w \in Worker : at'[w] = "lost" => w[1] \in pruned'
        BY <1>b, <1>d, <4>1, <4>2 DEF LossExplained
      <4>5. \A q \in Runs : main'[q] = "lost" => q \in pruned'
        BY <1>b, <4>1, <4>3 DEF LossExplained
      <4>6. QED
        BY <4>4, <4>5 DEF LossExplained
    <3>3. QED
      BY <3>1, <3>2
  <2>2. ASSUME \A r \in Runs : main'[r] = "lost" => main[r] = "lost",
               \A w \in Worker : at'[w] = "lost" => at[w] = "lost"
        PROVE  LossExplained'
    BY <1>b, <1>c, <2>2 DEF LossExplained
  <2>3. ASSUME NEW r \in Runs, Start(r) \/ Kill(r) PROVE LossExplained'
    <3>1. \A q \in Runs : main'[q] = "lost" => main[q] = "lost"
      BY <1>a, <2>3 DEF Start, Kill, MainGo
    <3>2. \A w \in Worker : at'[w] = "lost" => at[w] = "lost"
      BY <1>a, <2>3 DEF Start, Kill
    <3>3. QED
      BY <2>2, <3>1, <3>2
  <2>4. ASSUME NEW r \in Runs, EndUnfinished(r) \/ EndCollected(r) PROVE LossExplained'
    <3>1. \A q \in Runs : main'[q] = "lost" => main[q] = "lost"
      BY <1>a, <2>4 DEF EndUnfinished, EndCollected, Finish, MainGo
    <3>2. QED
      BY <2>2, <2>4, <3>1, EndFrame
  <2>5. ASSUME NEW r \in Runs, StageOutput(r) \/ CommitOutput(r) \/ Record(r)
        PROVE  LossExplained'
    <3>1. \A q \in Runs : main'[q] = "lost" => main[q] = "lost"
      BY <1>a, <2>5, PersistFrame DEF Finish, MainGo
    <3>2. QED
      BY <2>2, <2>5, <3>1, PersistFrame
  <2>6. ASSUME NEW w \in Worker, WorkerStep(w) PROVE LossExplained'
    <3>1. \A x \in Worker : at'[x] = "lost" => at[x] = "lost"
      BY <1>a, <2>6
         DEF WorkerStep, Take, WorkerEnd, Look, Compute, StageLocal, CommitLocal, StageShared,
             CommitShared, Send, Goes, Carries
    <3>2. QED
      BY <2>2, <2>6, <3>1, WorkerFrame
  <2>7. ASSUME NEW r \in Runs, Cancel(r) \/ ProducerStep(r) PROVE UNCHANGED <<main, at>>
    BY <2>7 DEF Cancel, ProducerStep, ProducerDone, ProducerStop, CloseJobs, worker
  <2>8. UNCHANGED <<main, at>> => LossExplained'
    BY <2>2
  <2>9. QED
    BY <2>1, <2>3, <2>4, <2>5, <2>6, <2>7, <2>8, CollectFrame, IdleFrame DEF Next, MainStep
<1>5. StopExplained'
  <2> SUFFICES ASSUME NEW r \in Runs, Live(r)', r \in stopped' PROVE firstErr'[r] # "none"
    BY DEF StopExplained
  <2>1. Live(r)
    BY <1>a, BeginsByStart
  <2>2. CASE r \in stopped
    BY <1>b, <1>c, <2>1, <2>2 DEF StopExplained
  <2>3. ASSUME NEW q \in Runs, CollectFailure(q), r \notin stopped PROVE firstErr'[r] # "none"
    BY <1>a, <2>3 DEF CollectFailure
  <2>4. ASSUME NEW q \in Runs, EndUnfinished(q) \/ EndCollected(q), r \notin stopped PROVE FALSE
    <3>1. q = r
      BY <2>4, EndFrame
    <3>2. ~Live(r)'
      BY <1>a, <2>4, <3>1 DEF EndUnfinished, EndCollected, Finish, MainGo, Live
    <3>3. QED
      BY <3>2
  <2>5. ASSUME NEW q \in Runs,
               \/ Start(q) \/ Cancel(q) \/ Kill(q) \/ ProducerStep(q) \/ Drain(q)
               \/ CollectChunk(q) \/ Prune(q)
        PROVE  stopped' \subseteq stopped
    BY <2>5 DEF Start, Cancel, Kill, ProducerStep, ProducerDone, ProducerStop, CloseJobs, Drain,
                CollectChunk, Prune, context
  <2>6. QED
    BY <2>2, <2>3, <2>4, <2>5, PersistFrame, IdleFrame, WorkerFrame DEF Next, MainStep
<1>6. QED
  BY <1>1, <1>2, <1>3, <1>4, <1>5

LEMMA OutcomeStep ==
    ASSUME BlameInv, [Next]_vars
    PROVE  CanceledOnlyIfAsked' /\ OnlyFaultsFail'
<1>a. /\ OwnInv /\ outcome \in [Runs -> Ended \cup {"none"}]
      /\ firstErr \in [Runs -> {"none", "canceled", "failed"}]
  BY DEF BlameInv, OwnInv, TypeOK
<1>b. FailureExplained /\ LossExplained /\ CanceledOnlyIfAsked /\ OnlyFaultsFail
  BY DEF BlameInv
<1>c. /\ parent \subseteq parent' /\ pruned \subseteq pruned'
      /\ faults > 0 => faults' > 0
  BY <1>a, BlameStays
<1>f. Fault => faults' > 0
  <2>1. faults \in Nat
    BY <1>a, Constants DEF OwnInv, TypeOK
  <2>2. QED
    BY <2>1 DEF Fault
<1> DEFINE Fair(r, status) ==
      /\ status = "canceled" => r \in parent'
      /\ status = "failed" => faults' > 0 \/ r \in pruned'
<1>1. ASSUME \A r \in Runs : outcome'[r] = outcome[r] \/ Fair(r, outcome'[r])
      PROVE  CanceledOnlyIfAsked' /\ OnlyFaultsFail'
  BY <1>b, <1>c, <1>1 DEF CanceledOnlyIfAsked, OnlyFaultsFail
<1>2. ASSUME NEW r \in Runs, Start(r)
      PROVE  \A q \in Runs : outcome'[q] = outcome[q] \/ Fair(q, outcome'[q])
  BY <1>a, <1>f, <1>2 DEF Start
<1>3. ASSUME NEW r \in Runs, EndUnfinished(r)
      PROVE  \A q \in Runs : outcome'[q] = outcome[q] \/ Fair(q, outcome'[q])
  <2> DEFINE status == IF firstErr[r] # "none" THEN firstErr[r] ELSE "canceled"
  <2>1. outcome' = [outcome EXCEPT ![r] = status] /\ (firstErr[r] # "none" \/ r \in parent)
    BY <1>3 DEF EndUnfinished, Finish
  <2>2. Fair(r, status)
    BY <1>a, <1>b, <1>c, <2>1 DEF FailureExplained
  <2>3. QED
    BY <1>a, <2>1, <2>2
<1>4. ASSUME NEW r \in Runs, StageOutput(r) \/ CommitOutput(r) \/ Record(r)
      PROVE  \A q \in Runs : outcome'[q] = outcome[q] \/ Fair(q, outcome'[q])
  <2>1. UNCHANGED outcome \/ (Finish(r, "failed") /\ (Fault \/ main[r] = "lost"))
    BY <1>4, PersistFrame
  <2>2. main[r] = "lost" => r \in pruned'
    BY <1>b, <1>c DEF LossExplained
  <2>3. QED
    BY <1>a, <1>f, <2>1, <2>2 DEF Finish
<1>5. ASSUME NEW r \in Runs, Prune(r)
      PROVE  \A q \in Runs : outcome'[q] = outcome[q] \/ Fair(q, outcome'[q])
  BY <1>a, <1>f, <1>5 DEF Prune, Finish
<1>6. ASSUME NEW r \in Runs, Cancel(r) \/ Kill(r) \/ ProducerStep(r) \/ EndCollected(r)
      PROVE  UNCHANGED outcome
  BY <1>6 DEF Cancel, Kill, ProducerStep, ProducerDone, ProducerStop, CloseJobs, EndCollected
<1>7. QED
  BY <1>1, <1>2, <1>3, <1>4, <1>5, <1>6, CollectFrame, IdleFrame, WorkerFrame DEF Next, MainStep

LEMMA BlameInvHolds == Spec => []BlameInv
<1>1. BlameInv /\ [Next]_vars => BlameInv'
  BY OwnStep, BlameStep, OutcomeStep DEF BlameInv
<1>2. QED
  BY <1>1, BlameInit, PTL DEF Spec

\* Run reports "canceled" only to a caller that cancelled: a failure that stops
\* the other workers is reported as the failure, whichever is collected first.
THEOREM CanceledOnlyIfAskedHolds == Spec => []CanceledOnlyIfAsked
<1>1. BlameInv => CanceledOnlyIfAsked
  BY DEF BlameInv
<1>2. QED
  BY <1>1, BlameInvHolds, PTL

\* Two runs that read and write one shared chunk never fail each other.
THEOREM OnlyFaultsFailHolds == Spec => []OnlyFaultsFail
<1>1. BlameInv => OnlyFaultsFail
  BY DEF BlameInv
<1>2. QED
  BY <1>1, BlameInvHolds, PTL

-----------------------------------------------------------------------------
(* Wholeness: a run that goes past its collection has every chunk, because *)
(* the producer stops short, and a worker leaves early, only for a reason  *)
(* the collection ends on.                                                 *)

Offered(r) == next[r] = NChunks + 1
Persisting == {"persisting", "committing", "lost", "recording", "pruning"}

\* The producer closes the jobs channel early only when the run is cancelled or failed.
ClosedWhenOffered ==
    \A r \in Runs : Live(r) /\ r \in closed /\ firstErr[r] = "none" /\ r \notin parent => Offered(r)

\* A worker leaves once there are no more jobs or after a failure it reported.
FailureQueued(r) == \E i \in 1..Len(queue[r]) : queue[r][i].res.err # "none"
LeftForCause ==
    \A w \in Worker : Live(w[1]) =>
        /\ at[w] # "none"
        /\ at[w] = "exited" => w[1] \in closed \/ firstErr[w[1]] # "none" \/ FailureQueued(w[1])

\* A chunk the producer handed out is collected, queued or some worker's.
InQueue(r, c) == \E i \in 1..Len(queue[r]) : queue[r][i].chunk = c
InWork(r, c)  == \E w \in Worker : w[1] = r /\ job[w] = c
NothingLost ==
    \A r \in Runs : Live(r) /\ firstErr[r] = "none" =>
        \A c \in Chunk : c < next[r] => c \in DOMAIN received[r] \/ InQueue(r, c) \/ InWork(r, c)

PersistsAll == \A r \in Runs : main[r] \in Persisting => DOMAIN received[r] = Chunk

WholeInv ==
    /\ BlameInv
    /\ ClosedWhenOffered /\ LeftForCause /\ NothingLost /\ PersistsAll
    /\ CompletedMeansAll

LEMMA WholeInit == Init => WholeInv
<1> SUFFICES ASSUME Init PROVE WholeInv
  OBVIOUS
<1>1. BlameInv
  BY BlameInit
<1>2. \A r \in Runs : main[r] = "idle"
  BY DEF Init
<1>3. LeftForCause
  <2>1. \A w \in Worker : w[1] \in Runs
    BY <1>1, WorkerType DEF BlameInv
  <2>2. QED
    BY <1>2, <2>1 DEF LeftForCause, Live
<1>4. ClosedWhenOffered /\ NothingLost /\ PersistsAll
  BY <1>2 DEF ClosedWhenOffered, NothingLost, PersistsAll, Persisting, Live
<1>5. CompletedMeansAll
  BY DEF Init, CompletedMeansAll, NoState
<1>6. QED
  BY <1>1, <1>3, <1>4, <1>5 DEF WholeInv

\* What can happen to the results channel of a run that goes on collecting.
Sends(w) ==
    LET r == w[1]
    IN  /\ Send(w) /\ Len(queue'[r]) = Len(queue[r]) + 1
        /\ \A i \in 1..Len(queue[r]) : queue'[r][i] = queue[r][i]
        /\ queue'[r][Len(queue[r]) + 1] = [chunk |-> job[w], res |-> val[w]]
Receives(r) ==
    /\ CollectFailure(r) \/ Drain(r) \/ CollectChunk(r)
    /\ Len(queue[r]) > 0 /\ Len(queue'[r]) = Len(queue[r]) - 1
    /\ \A i \in 1..Len(queue'[r]) : queue'[r][i] = queue[r][i + 1]
    /\ Head(queue[r]) = queue[r][1] /\ Head(queue[r]) \in [chunk : Chunk, res : Results]

LEMMA LengthType == ASSUME OwnInv, NEW r \in Runs PROVE Len(queue[r]) \in Nat
<1> DEFINE Entry == [chunk : Chunk, res : Results]
<1>1. queue[r] \in Seq(Entry)
  BY DEF OwnInv, TypeOK
<1> HIDE DEF Entry
<1>2. QED
  BY <1>1

LEMMA QueueFrame ==
    ASSUME OwnInv, [Next]_vars, NEW r \in Runs, Live(r)'
    PROVE  \/ queue'[r] = queue[r]
           \/ \E w \in Worker : w[1] = r /\ Sends(w)
           \/ Receives(r)
<1> DEFINE Entry == [chunk : Chunk, res : Results]
<1>a. queue \in [Runs -> Seq(Entry)] /\ main \in [Runs -> MainState]
  BY DEF OwnInv, TypeOK
<1>1. ASSUME NEW w \in Worker, Send(w), w[1] = r PROVE Sends(w)
  <2> DEFINE entry == [chunk |-> job[w], res |-> val[w]]
  <2>1. job[w] \in Chunk /\ val[w] \in Results
    BY <1>1, WorkerType DEF OwnInv, WorkerOwns, Send
  <2>2. entry \in Entry
    BY <2>1
  <2>3. queue'[r] = Append(queue[r], entry) /\ queue[r] \in Seq(Entry)
    BY <1>a, <1>1 DEF Send
  <2>4. /\ Len(queue'[r]) = Len(queue[r]) + 1
        /\ \A i \in 1..Len(queue[r]) : queue'[r][i] = queue[r][i]
        /\ queue'[r][Len(queue[r]) + 1] = entry
    <3> HIDE DEF entry, Entry
    <3> QED
      BY <2>2, <2>3
  <2>5. QED
    BY <1>1, <2>4 DEF Sends
<1>2. ASSUME NEW w \in Worker, WorkerStep(w), ~(Send(w) /\ w[1] = r) PROVE queue'[r] = queue[r]
  <2>1. CASE Send(w)
    BY <1>a, <1>2, <2>1 DEF Send
  <2>2. CASE ~Send(w)
    BY <1>2, <2>2
       DEF WorkerStep, Take, WorkerEnd, Look, Compute, StageLocal, CommitLocal, StageShared,
           CommitShared, BesideWorkers, result
  <2>3. QED
    BY <2>1, <2>2
<1>3. ASSUME NEW q \in Runs, CollectFailure(q) \/ Drain(q) \/ CollectChunk(q)
      PROVE  queue'[r] = queue[r] \/ Receives(r)
  <2>1. queue[q] # <<>> /\ queue' = [queue EXCEPT ![q] = Tail(@)]
    BY <1>3, CollectFrame DEF Dequeue
  <2>2. CASE q = r
    <3>1. /\ queue'[r] = Tail(queue[r]) /\ queue[r] \in Seq(Entry) /\ Len(queue[r]) > 0
          /\ Len(queue'[r]) = Len(queue[r]) - 1
          /\ \A i \in 1..Len(queue'[r]) : queue'[r][i] = queue[r][i + 1]
          /\ Head(queue[r]) = queue[r][1] /\ Head(queue[r]) \in Entry
      <4> HIDE DEF Entry
      <4> QED
        BY <1>a, <2>1, <2>2
    <3>2. QED
      BY <1>3, <2>2, <3>1 DEF Receives
  <2>3. CASE q # r
    BY <1>a, <2>1, <2>3
  <2>4. QED
    BY <2>2, <2>3
<1>4. ASSUME NEW q \in Runs, Kill(q) PROVE queue'[r] = queue[r]
  BY <1>a, <1>4 DEF Kill, MainGo, Live
<1>5. ASSUME NEW q \in Runs, Start(q) \/ Cancel(q) \/ ProducerStep(q) \/ Prune(q)
      PROVE  UNCHANGED queue
  BY <1>5 DEF Start, Cancel, ProducerStep, ProducerDone, ProducerStop, CloseJobs, Prune, result
<1>6. QED
  BY <1>1, <1>2, <1>3, <1>4, <1>5, PersistFrame, EndFrame, IdleFrame DEF Next, MainStep, WorkerStep

\* What can happen to the collected results of a run.
LEMMA ReceivedFrame ==
    ASSUME OwnInv, [Next]_vars, NEW r \in Runs
    PROVE  \/ received'[r] = received[r]
           \/ Start(r) /\ Live(r)' /\ ~Live(r) /\ received'[r] = <<>>
           \/ CollectChunk(r) /\ DOMAIN received'[r] = DOMAIN received[r] \cup {Head(queue[r]).chunk}
<1>a. received \in [Runs -> Partial(Chunk, Levels)] /\ main \in [Runs -> MainState]
  BY DEF OwnInv, TypeOK
<1>1. ASSUME NEW q \in Runs, Start(q)
      PROVE  \/ received'[r] = received[r]
             \/ Start(r) /\ Live(r)' /\ ~Live(r) /\ received'[r] = <<>>
  <2>1. CASE q = r
    <3>1. ~Live(r)
      BY <1>1, <2>1 DEF Start, Startable, Live
    <3>2. CASE received' = received
      BY <3>2
    <3>3. CASE received' # received
      BY <1>a, <1>1, <2>1, <3>1, <3>3 DEF Start, MainGo, Live
    <3>4. QED
      BY <3>2, <3>3
  <2>2. CASE q # r
    BY <1>a, <1>1, <2>2 DEF Start
  <2>3. QED
    BY <2>1, <2>2
<1>2. ASSUME NEW q \in Runs, CollectChunk(q)
      PROVE  \/ received'[r] = received[r]
             \/ CollectChunk(r)
                /\ DOMAIN received'[r] = DOMAIN received[r] \cup {Head(queue[r]).chunk}
  <2>1. received' = [received EXCEPT ![q] = Put(@, Head(queue[q]).chunk, Message(q).level)]
    BY <1>2 DEF CollectChunk
  <2>2. CASE q = r
    <3>1. received'[r] = Put(received[r], Head(queue[r]).chunk, Message(r).level)
      BY <1>a, <2>1, <2>2
    <3>2. QED
      BY <1>2, <2>2, <3>1 DEF Put
  <2>3. CASE q # r
    BY <1>a, <2>1, <2>3
  <2>4. QED
    BY <2>2, <2>3
<1>3. ASSUME NEW q \in Runs,
             \/ Cancel(q) \/ Kill(q) \/ ProducerStep(q) \/ CollectFailure(q) \/ Drain(q) \/ Prune(q)
      PROVE  UNCHANGED received
  BY <1>3 DEF Cancel, Kill, ProducerStep, ProducerDone, ProducerStop, CloseJobs, CollectFailure,
              Drain, Prune, result
<1>4. QED
  BY <1>1, <1>2, <1>3, PersistFrame, EndFrame, IdleFrame, WorkerFrame DEF Next, MainStep

\* What can happen to the progress file of a run.
LEMMA StateFrame ==
    ASSUME OwnInv, [Next]_vars, NEW r \in Runs
    PROVE  \/ state'[r] = state[r]
           \/ state'[r] = NoState
           \/ Start(r) /\ ~Live(r) /\ Live(r)' /\ state'[r] = [status |-> "running", done |-> 0]
           \/ /\ CollectChunk(r)
              /\ state'[r] = [status |-> "running", done |-> Cardinality(DOMAIN received'[r])]
           \/ /\ EndUnfinished(r)
              /\ \E status \in {"canceled", "failed"} :
                    state'[r] = [status |-> status, done |-> Cardinality(DOMAIN received[r])]
           \/ Record(r) /\ MainGo(r, "pruning") /\ state'[r] = [status |-> "completed", done |-> NChunks]
<1>a. /\ state \in [Runs -> [status : Ended \cup {"none", "running"}, done : 0..NChunks]]
      /\ main \in [Runs -> MainState]
      /\ firstErr \in [Runs -> {"none", "canceled", "failed"}]
  BY DEF OwnInv, TypeOK
<1>1. ASSUME NEW q \in Runs, Start(q)
      PROVE  \/ state'[r] = state[r]
             \/ Start(r) /\ ~Live(r) /\ Live(r)' /\ state'[r] = [status |-> "running", done |-> 0]
  <2>1. ~Live(q)
    BY <1>1 DEF Start, Startable, Live
  <2>2. CASE UNCHANGED state
    BY <2>2
  <2>3. CASE WriteState(q, "running", 0) /\ MainGo(q, "collecting")
    BY <1>a, <1>1, <2>1, <2>3 DEF WriteState, MainGo, Live
  <2>4. QED
    BY <1>1, <2>2, <2>3 DEF Start
<1>2. ASSUME NEW q \in Runs, CollectChunk(q)
      PROVE  \/ state'[r] = state[r]
             \/ /\ CollectChunk(r)
                /\ state'[r] = [status |-> "running", done |-> Cardinality(DOMAIN received'[r])]
  <2>1. UNCHANGED state \/ WriteState(q, "running", Cardinality(DOMAIN received'[q]))
    BY <1>2 DEF CollectChunk
  <2>2. QED
    BY <1>a, <1>2, <2>1 DEF WriteState
<1>3. ASSUME NEW q \in Runs, EndUnfinished(q)
      PROVE  \/ state'[r] = state[r]
             \/ /\ EndUnfinished(r)
                /\ \E status \in {"canceled", "failed"} :
                      state'[r] = [status |-> status, done |-> Cardinality(DOMAIN received[r])]
  <2> DEFINE status == IF firstErr[q] # "none" THEN firstErr[q] ELSE "canceled"
  <2>1. UNCHANGED state \/ WriteState(q, status, Cardinality(DOMAIN received[q]))
    BY <1>3 DEF EndUnfinished
  <2>2. status \in {"canceled", "failed"}
    BY <1>a
  <2> HIDE DEF status
  <2>3. QED
    BY <1>a, <1>3, <2>1, <2>2 DEF WriteState
<1>4. ASSUME NEW q \in Runs, StageOutput(q) \/ CommitOutput(q) \/ EndCollected(q)
      PROVE  UNCHANGED state
  BY <1>4 DEF StageOutput, CommitOutput, EndCollected, files
<1>5. ASSUME NEW q \in Runs, Record(q)
      PROVE  \/ state'[r] = state[r]
             \/ Record(r) /\ MainGo(r, "pruning")
                /\ state'[r] = [status |-> "completed", done |-> NChunks]
  <2>1. UNCHANGED state \/ (WriteState(q, "completed", NChunks) /\ MainGo(q, "pruning"))
    BY <1>5 DEF Record
  <2>2. QED
    BY <1>a, <1>5, <2>1 DEF WriteState
<1>6. ASSUME NEW q \in Runs, Prune(q) PROVE state'[r] = state[r] \/ state'[r] = NoState
  BY <1>6 DEF Prune
<1>7. ASSUME NEW q \in Runs,
             Cancel(q) \/ Kill(q) \/ ProducerStep(q) \/ CollectFailure(q) \/ Drain(q)
      PROVE  UNCHANGED state
  BY <1>7 DEF Cancel, Kill, ProducerStep, ProducerDone, ProducerStop, CloseJobs, CollectFailure,
              Drain, files
<1>8. QED
  BY <1>1, <1>2, <1>3, <1>4, <1>5, <1>6, <1>7, IdleFrame, WorkerFrame DEF Next, MainStep

LEMMA ClosedStep ==
    ASSUME WholeInv, [Next]_vars
    PROVE  ClosedWhenOffered'
<1> SUFFICES ASSUME NEW r \in Runs, Live(r)', r \in closed', firstErr'[r] = "none", r \notin parent'
             PROVE  Offered(r)'
  BY DEF ClosedWhenOffered
<1>a. /\ OwnInv /\ ClosedWhenOffered /\ StopExplained
      /\ main \in [Runs -> MainState] /\ next \in [Runs -> 1..(NChunks + 1)]
  BY DEF WholeInv, BlameInv, OwnInv, TypeOK
<1>b. firstErr[r] = "none" /\ r \notin parent
  BY <1>a, BlameStays
<1>1. Live(r)
  <2>1. CASE closed' = closed \ {r}
    BY <2>1
  <2>2. QED
    BY <1>a, <2>1, BeginsByStart
<1>2. r \notin stopped
  BY <1>a, <1>b, <1>1 DEF StopExplained
<1>3. ~Start(r)
  BY <1>1 DEF Start, Startable, Live
<1>4. CASE r \in closed
  <2>1. Offered(r)
    BY <1>a, <1>b, <1>1, <1>4 DEF ClosedWhenOffered
  <2>2. ASSUME NEW q \in Runs, Start(q) PROVE next'[r] = next[r]
    BY <1>a, <1>3, <2>2 DEF Start
  <2>3. ASSUME NEW w \in Worker, WorkerStep(w) PROVE next'[r] = next[r]
    <3>1. CASE Take(w)
      BY <1>a, <1>4, <3>1 DEF Take
    <3>2. CASE ~Take(w)
      BY <2>3, <3>2
         DEF WorkerStep, WorkerEnd, Look, Compute, StageLocal, CommitLocal, StageShared,
             CommitShared, Send, BesideWorkers, feed
    <3>3. QED
      BY <3>1, <3>2
  <2>4. ASSUME NEW q \in Runs, Cancel(q) \/ Kill(q) \/ ProducerStep(q) \/ Prune(q)
        PROVE  UNCHANGED next
    BY <2>4 DEF Cancel, Kill, ProducerStep, ProducerDone, ProducerStop, CloseJobs, Prune, feed
  <2>5. next'[r] = next[r]
    BY <2>2, <2>3, <2>4, PersistFrame, CollectFrame, EndFrame, IdleFrame DEF Next, MainStep
  <2>6. QED
    BY <2>1, <2>5 DEF Offered
<1>5. CASE r \notin closed
  <2>1. ASSUME NEW q \in Runs, ProducerStep(q) PROVE Offered(r)'
    <3>1. q = r /\ UNCHANGED next
      BY <1>5, <2>1 DEF ProducerStep, ProducerDone, ProducerStop, CloseJobs
    <3>2. next[r] = NChunks + 1
      BY <1>b, <1>2, <2>1, <3>1 DEF ProducerStep, ProducerDone, ProducerStop, CtxDone
    <3>3. QED
      BY <3>1, <3>2 DEF Offered
  <2>2. ASSUME NEW q \in Runs, Start(q) PROVE r \notin closed'
    BY <1>3, <1>5, <2>2 DEF Start
  <2>3. ASSUME NEW q \in Runs, Kill(q) PROVE r \notin closed'
    <3>1. q # r
      BY <1>a, <2>3 DEF Kill, MainGo, Live
    <3>2. QED
      BY <1>5, <2>3, <3>1 DEF Kill
  <2>4. ASSUME NEW q \in Runs, Cancel(q) \/ Prune(q) PROVE UNCHANGED closed
    BY <2>4 DEF Cancel, Prune, feed
  <2>5. QED
    BY <1>5, <2>1, <2>2, <2>3, <2>4, PersistFrame, CollectFrame, EndFrame, IdleFrame, WorkerFrame
       DEF Next, MainStep
<1>6. QED
  BY <1>4, <1>5

\* A reason for leaving stays one for as long as the run collects.
LEMMA CauseStays ==
    ASSUME OwnInv, [Next]_vars, NEW r \in Runs, Live(r), Live(r)',
           r \in closed \/ firstErr[r] # "none" \/ FailureQueued(r)
    PROVE  r \in closed' \/ firstErr'[r] # "none" \/ FailureQueued(r)'
<1>a. /\ main \in [Runs -> MainState]
      /\ firstErr \in [Runs -> {"none", "canceled", "failed"}]
  BY DEF OwnInv, TypeOK
<1>1. CASE r \in closed
  <2>1. ~Start(r)
    BY DEF Start, Startable, Live
  <2>2. ASSUME NEW q \in Runs, Start(q) PROVE r \in closed'
    BY <1>1, <2>1, <2>2 DEF Start
  <2>3. ASSUME NEW q \in Runs, Cancel(q) \/ Kill(q) \/ ProducerStep(q) \/ Prune(q)
        PROVE  r \in closed'
    BY <1>1, <2>3 DEF Cancel, Kill, ProducerStep, ProducerDone, ProducerStop, CloseJobs, Prune, feed
  <2>4. QED
    BY <1>1, <2>2, <2>3, PersistFrame, CollectFrame, EndFrame, IdleFrame, WorkerFrame
       DEF Next, MainStep
<1>2. CASE firstErr[r] # "none"
  BY <1>2, BlameStays
<1>3. CASE FailureQueued(r)
  <2>1. PICK i \in 1..Len(queue[r]) : queue[r][i].res.err # "none"
    BY <1>3 DEF FailureQueued
  <2>2. Len(queue[r]) \in Nat
    BY LengthType
  <2>3. CASE queue'[r] = queue[r]
    BY <1>3, <2>3 DEF FailureQueued
  <2>4. ASSUME NEW w \in Worker, w[1] = r, Sends(w) PROVE FailureQueued(r)'
    <3>1. i \in 1..Len(queue'[r]) /\ queue'[r][i] = queue[r][i]
      BY <2>1, <2>2, <2>4 DEF Sends
    <3>2. QED
      BY <2>1, <3>1 DEF FailureQueued
  <2>5. CASE Receives(r)
    <3>1. CASE CollectFailure(r)
      BY <1>a, <3>1 DEF CollectFailure
    <3>2. CASE Drain(r)
      BY <1>2, <3>2 DEF Drain
    <3>3. CASE CollectChunk(r)
      <4>1. queue[r][1].res.err = "none"
        BY <2>5, <3>3 DEF Receives, CollectChunk, Message
      <4>2. i - 1 \in 1..Len(queue'[r]) /\ (i - 1) + 1 = i
        BY <2>1, <2>2, <2>5, <4>1 DEF Receives
      <4>3. queue'[r][i - 1] = queue[r][i]
        BY <2>5, <4>2 DEF Receives
      <4>4. QED
        BY <2>1, <4>2, <4>3 DEF FailureQueued
    <3>4. QED
      BY <2>5, <3>1, <3>2, <3>3 DEF Receives
  <2>6. QED
    BY <2>3, <2>4, <2>5, QueueFrame
<1>4. QED
  BY <1>1, <1>2, <1>3

LEMMA LeftStep ==
    ASSUME WholeInv, [Next]_vars
    PROVE  LeftForCause'
<1>a. /\ OwnInv /\ LeftForCause
      /\ main \in [Runs -> MainState] /\ at \in [Worker -> Step]
  BY DEF WholeInv, BlameInv, OwnInv, TypeOK
<1> SUFFICES ASSUME NEW w \in Worker, Live(w[1])'
             PROVE  /\ at'[w] # "none"
                    /\ at'[w] = "exited" => \/ w[1] \in closed' \/ firstErr'[w[1]] # "none"
                                            \/ FailureQueued(w[1])'
  BY DEF LeftForCause
<1>b. w[1] \in Runs
  BY <1>a, WorkerType
<1>1. CASE ~Live(w[1])
  BY <1>a, <1>b, <1>1, BeginsByStart
<1>2. CASE Live(w[1])
  <2>1. /\ at[w] # "none"
        /\ at[w] = "exited" => w[1] \in closed \/ firstErr[w[1]] # "none" \/ FailureQueued(w[1])
    BY <1>a, <1>2 DEF LeftForCause
  <2>2. CASE at'[w] = at[w]
    BY <1>a, <1>b, <1>2, <2>1, <2>2, CauseStays
  <2>3. CASE WorkerStep(w)
    <3>1. CASE WorkerEnd(w)
      BY <1>a, <3>1 DEF WorkerEnd, feed
    <3>2. CASE Send(w)
      <4>1. CASE val[w].err = "none"
        BY <1>a, <3>2, <4>1 DEF Send
      <4>2. CASE val[w].err # "none"
        <5>1. at'[w] = "exited"
          BY <1>a, <3>2, <4>2 DEF Send
        <5>2. Len(queue[w[1]]) \in Nat
          BY <1>a, <1>b, LengthType
        <5>3. Len(queue'[w[1]]) = Len(queue[w[1]]) + 1
              /\ queue'[w[1]][Len(queue[w[1]]) + 1].res.err # "none"
          <6> DEFINE Entry == [chunk : Chunk, res : Results]
          <6> DEFINE entry == [chunk |-> job[w], res |-> val[w]]
          <6>1. job[w] \in Chunk /\ val[w] \in Results
            BY <1>a, <3>2, WorkerType DEF OwnInv, WorkerOwns, Send
          <6>2. entry \in Entry /\ entry.res = val[w]
            BY <6>1
          <6>3. queue[w[1]] \in Seq(Entry) /\ queue'[w[1]] = Append(queue[w[1]], entry)
            BY <1>a, <1>b, <3>2 DEF Send, OwnInv, TypeOK
          <6> HIDE DEF Entry, entry
          <6>4. QED
            BY <4>2, <6>2, <6>3
        <5>4. FailureQueued(w[1])'
          BY <5>2, <5>3 DEF FailureQueued
        <5>5. QED
          BY <5>1, <5>4
      <4>3. QED
        BY <4>1, <4>2
    <3>3. CASE ~WorkerEnd(w) /\ ~Send(w)
      BY <1>a, <2>3, <3>3
         DEF WorkerStep, Take, Look, Compute, StageLocal, CommitLocal, StageShared, CommitShared,
             Goes, Carries
    <3>4. QED
      BY <3>1, <3>2, <3>3
  <2>4. ASSUME NEW x \in Worker, WorkerStep(x), x # w PROVE at'[w] = at[w]
    BY <1>a, <2>4
       DEF WorkerStep, Take, WorkerEnd, Look, Compute, StageLocal, CommitLocal, StageShared,
           CommitShared, Send, Goes, Carries
  <2>5. ASSUME NEW q \in Runs, Start(q) PROVE at'[w] = at[w]
    <3>1. q # w[1]
      BY <1>2, <2>5 DEF Start, Startable, Live
    <3>2. QED
      BY <1>a, <2>5, <3>1 DEF Start
  <2>6. ASSUME NEW q \in Runs, Kill(q) PROVE at'[w] = at[w]
    <3>1. q # w[1]
      BY <1>a, <2>6 DEF Kill, MainGo, Live
    <3>2. QED
      BY <1>a, <2>6, <3>1 DEF Kill
  <2>7. ASSUME NEW q \in Runs, Prune(q) PROVE at'[w] = at[w] \/ at'[w] = "lost"
    BY <1>a, <2>7 DEF Prune
  <2>8. ASSUME NEW q \in Runs, Cancel(q) \/ ProducerStep(q) PROVE UNCHANGED at
    BY <2>8 DEF Cancel, ProducerStep, ProducerDone, ProducerStop, CloseJobs, worker
  <2>9. at'[w] = at[w] \/ at'[w] = "lost" \/ WorkerStep(w)
    BY <2>4, <2>5, <2>6, <2>7, <2>8, PersistFrame, CollectFrame, EndFrame, IdleFrame
       DEF Next, MainStep
  <2>10. QED
    BY <2>2, <2>3, <2>9
<1>3. QED
  BY <1>1, <1>2

LEMMA NothingLostStep ==
    ASSUME WholeInv, [Next]_vars
    PROVE  NothingLost'
<1>a. /\ OwnInv /\ NothingLost /\ main \in [Runs -> MainState]
      /\ next \in [Runs -> 1..(NChunks + 1)]
      /\ job \in [Worker -> Chunk \cup {0}] /\ at \in [Worker -> Step]
      /\ firstErr \in [Runs -> {"none", "canceled", "failed"}]
  BY DEF WholeInv, BlameInv, OwnInv, TypeOK
<1> SUFFICES ASSUME NEW r \in Runs, Live(r)', firstErr'[r] = "none", NEW c \in Chunk, c < next'[r]
             PROVE  c \in DOMAIN received'[r] \/ InQueue(r, c)' \/ InWork(r, c)'
  BY DEF NothingLost
<1>b. firstErr[r] = "none"
  BY <1>a, BlameStays
<1>c. Live(r)
  <2>1. CASE next' = [next EXCEPT ![r] = 1]
    BY <1>a, <2>1 DEF Chunk
  <2>2. QED
    BY <1>a, <2>1, BeginsByStart
<1>d. Len(queue[r]) \in Nat /\ ~Start(r) /\ ~Kill(r)
  <2>1. ~Start(r)
    BY <1>c DEF Start, Startable, Live
  <2>2. ~Kill(r)
    BY <1>a DEF Kill, MainGo, Live
  <2>3. QED
    BY <1>a, <2>1, <2>2, LengthType
<1>1. CASE c \in DOMAIN received[r]
  BY <1>a, <1>1, <1>c, ReceivedFrame
<1>2. CASE InQueue(r, c)
  <2>1. PICK i \in 1..Len(queue[r]) : queue[r][i].chunk = c
    BY <1>2 DEF InQueue
  <2>2. CASE queue'[r] = queue[r]
    BY <1>2, <2>2 DEF InQueue
  <2>3. ASSUME NEW w \in Worker, w[1] = r, Sends(w) PROVE InQueue(r, c)'
    <3>1. i \in 1..Len(queue'[r]) /\ queue'[r][i] = queue[r][i]
      BY <1>d, <2>1, <2>3 DEF Sends
    <3>2. QED
      BY <2>1, <3>1 DEF InQueue
  <2>4. CASE Receives(r)
    <3>1. CollectChunk(r)
      BY <1>a, <1>b, <2>4, ResultType DEF Receives, CollectFailure, Drain
    <3>2. CASE i = 1
      <4>1. Head(queue[r]).chunk = c /\ Head(queue[r]) \in [chunk : Chunk, res : Results]
        BY <2>1, <2>4, <3>2 DEF Receives
      <4>2. received'[r] = Put(received[r], c, Message(r).level)
        BY <1>a, <3>1, <4>1 DEF CollectChunk, OwnInv, TypeOK
      <4>3. QED
        BY <4>2 DEF Put
    <3>3. CASE i # 1
      <4>1. i - 1 \in 1..Len(queue'[r]) /\ (i - 1) + 1 = i
        BY <1>d, <2>1, <2>4, <3>3 DEF Receives
      <4>2. queue'[r][i - 1] = queue[r][i]
        BY <2>4, <4>1 DEF Receives
      <4>3. QED
        BY <2>1, <4>1, <4>2 DEF InQueue
    <3>4. QED
      BY <3>2, <3>3
  <2>5. QED
    BY <1>a, <2>2, <2>3, <2>4, QueueFrame
<1>3. ASSUME NEW w \in Worker, w[1] = r, job[w] = c
      PROVE  InQueue(r, c)' \/ InWork(r, c)'
  <2>1. job[w] # 0 /\ at[w] \notin {"none", "idle", "exited"}
    BY <1>a, <1>3, Constants DEF OwnInv, WorkerOwns, Chunk
  <2>2. CASE job'[w] = job[w]
    BY <1>3, <2>2 DEF InWork
  <2>3. CASE Send(w)
    <3>1. \E x \in Worker : x[1] = r /\ Sends(x)
      <4>1. queue'[r] # queue[r]
        <5> DEFINE Entry == [chunk : Chunk, res : Results]
        <5> DEFINE entry == [chunk |-> job[w], res |-> val[w]]
        <5>1. val[w] \in Results /\ job[w] \in Chunk
          BY <1>a, <1>3, <2>3 DEF OwnInv, WorkerOwns, Send
        <5>2. entry \in Entry
          BY <5>1
        <5>3. queue[r] \in Seq(Entry) /\ queue'[r] = Append(queue[r], entry)
          BY <1>a, <1>3, <2>3 DEF Send, OwnInv, TypeOK
        <5> HIDE DEF Entry, entry
        <5>4. Len(queue'[r]) = Len(queue[r]) + 1
          BY <5>2, <5>3
        <5>5. QED
          BY <1>d, <5>4
      <4>2. ~Receives(r)
        BY <2>3 DEF Receives, CollectFailure, Drain, CollectChunk, Send
      <4>3. QED
        BY <1>a, <4>1, <4>2, QueueFrame
    <3>2. PICK x \in Worker : x[1] = r /\ Sends(x)
      BY <3>1
    <3>3. x = w
      BY <1>a, <2>3, <3>2, <2>1 DEF Sends, Send
    <3>4. Len(queue'[r]) = Len(queue[r]) + 1 /\ queue'[r][Len(queue[r]) + 1].chunk = c
      BY <1>3, <3>2, <3>3 DEF Sends
    <3>5. QED
      BY <1>d, <3>4 DEF InQueue
  <2>4. ASSUME WorkerStep(w), ~Send(w) PROVE job'[w] = job[w]
    BY <2>1, <2>4
       DEF WorkerStep, Take, WorkerEnd, Look, Compute, StageLocal, CommitLocal, StageShared,
           CommitShared, Goes, Carries
  <2>5. ASSUME NEW x \in Worker, WorkerStep(x), x # w PROVE job'[w] = job[w]
    BY <1>a, <2>5
       DEF WorkerStep, Take, WorkerEnd, Look, Compute, StageLocal, CommitLocal, StageShared,
           CommitShared, Send, Goes, Carries
  <2>6. ASSUME NEW q \in Runs, Kill(q) PROVE job'[w] = job[w]
    <3>1. q # w[1]
      BY <1>3, <1>d, <2>6
    <3>2. QED
      BY <1>a, <2>6, <3>1 DEF Kill
  <2>7. ASSUME NEW q \in Runs, Start(q) \/ Cancel(q) \/ ProducerStep(q) \/ Prune(q)
        PROVE  UNCHANGED job
    BY <2>7 DEF Start, Cancel, ProducerStep, ProducerDone, ProducerStop, CloseJobs, Prune, worker
  <2>8. QED
    BY <2>2, <2>3, <2>4, <2>5, <2>6, <2>7, PersistFrame, CollectFrame, EndFrame, IdleFrame
       DEF Next, MainStep
<1>4. CASE c < next[r]
  BY <1>1, <1>2, <1>3, <1>4, <1>a, <1>b, <1>c DEF NothingLost, InWork
<1>5. CASE ~(c < next[r])
  <2>1. ASSUME NEW w \in Worker, Take(w), w[1] = r PROVE InWork(r, c)'
    <3>1. next'[r] = next[r] + 1 /\ job'[w] = next[r] /\ next[r] \in Nat
      BY <1>a, <2>1, Constants DEF Take
    <3>2. c = next[r]
      BY <1>5, <3>1, Constants DEF Chunk
    <3>3. QED
      BY <2>1, <3>1, <3>2 DEF InWork
  <2>2. ASSUME NEW w \in Worker, WorkerStep(w), ~(Take(w) /\ w[1] = r) PROVE next'[r] = next[r]
    <3>1. CASE Take(w)
      BY <1>a, <2>2, <3>1 DEF Take
    <3>2. CASE ~Take(w)
      BY <2>2, <3>2
         DEF WorkerStep, WorkerEnd, Look, Compute, StageLocal, CommitLocal, StageShared,
             CommitShared, Send, BesideWorkers, feed
    <3>3. QED
      BY <3>1, <3>2
  <2>3. ASSUME NEW q \in Runs, Start(q) PROVE next'[r] = next[r]
    BY <1>a, <1>d, <2>3 DEF Start
  <2>4. ASSUME NEW q \in Runs, Cancel(q) \/ Kill(q) \/ ProducerStep(q) \/ Prune(q)
        PROVE  UNCHANGED next
    BY <2>4 DEF Cancel, Kill, ProducerStep, ProducerDone, ProducerStop, CloseJobs, Prune, feed
  <2>5. next'[r] = next[r] \/ \E w \in Worker : Take(w) /\ w[1] = r
    BY <2>2, <2>3, <2>4, PersistFrame, CollectFrame, EndFrame, IdleFrame DEF Next, MainStep
  <2>6. QED
    BY <1>5, <2>1, <2>5
<1>6. QED
  BY <1>4, <1>5

\* What the collection ends with.
LEMMA EndsWhole ==
    ASSUME WholeInv, NEW r \in Runs, EndCollected(r)
    PROVE  DOMAIN received[r] = Chunk
<1>a. /\ OwnInv /\ LeftForCause /\ ClosedWhenOffered /\ NothingLost
      /\ queue[r] = <<>> /\ Live(r) /\ Workless(r) /\ firstErr[r] = "none" /\ r \notin parent
      /\ received \in [Runs -> Partial(Chunk, Levels)]
  BY DEF WholeInv, BlameInv, OwnInv, TypeOK, EndCollected
<1>1. r \in closed
  <2>1. <<r, 1>> \in Worker /\ <<r, 1>>[1] = r /\ at[<<r, 1>>] \in {"none", "exited"}
    BY <1>a, Constants DEF Worker, Workless
  <2>2. ~FailureQueued(r)
    BY <1>a DEF FailureQueued
  <2>3. QED
    BY <1>a, <2>1, <2>2 DEF LeftForCause
<1>2. next[r] = NChunks + 1
  BY <1>a, <1>1 DEF ClosedWhenOffered, Offered
<1>3. ASSUME NEW c \in Chunk PROVE c \in DOMAIN received[r]
  <2>1. c < next[r] /\ c # 0
    BY <1>2, Constants DEF Chunk
  <2>2. ~InQueue(r, c)
    BY <1>a DEF InQueue
  <2>3. ~InWork(r, c)
    <3> SUFFICES ASSUME NEW w \in Worker, w[1] = r, job[w] = c PROVE FALSE
      BY DEF InWork
    <3>1. w = <<w[1], w[2]>> /\ w[2] \in Pool
      BY <1>a, WorkerType
    <3>2. at[w] \in {"none", "exited"}
      BY <1>a, <3>1 DEF Workless
    <3>3. QED
      BY <1>a, <2>1, <3>2 DEF OwnInv, WorkerOwns
  <2>4. QED
    BY <1>a, <2>1, <2>2, <2>3 DEF NothingLost
<1>4. DOMAIN received[r] \subseteq Chunk
  BY <1>a, PartialType
<1>5. QED
  BY <1>3, <1>4

LEMMA PersistsStep ==
    ASSUME WholeInv, [Next]_vars
    PROVE  PersistsAll' /\ CompletedMeansAll'
<1>a. /\ OwnInv /\ PersistsAll /\ CompletedMeansAll
      /\ main \in [Runs -> MainState] /\ outcome \in [Runs -> Ended \cup {"none"}]
      /\ received \in [Runs -> Partial(Chunk, Levels)]
      /\ firstErr \in [Runs -> {"none", "canceled", "failed"}]
      /\ state \in [Runs -> [status : Ended \cup {"none", "running"}, done : 0..NChunks]]
  BY DEF WholeInv, BlameInv, OwnInv, TypeOK
<1>b. ASSUME NEW r \in Runs, DOMAIN received[r] = Chunk
      PROVE  DOMAIN received'[r] = Chunk \/ (Start(r) /\ Live(r)' /\ ~Live(r))
  <2>1. CASE CollectChunk(r)
    <3>1. Live(r) /\ queue[r] # <<>>
      BY <2>1 DEF CollectChunk
    <3>2. received'[r] = Put(received[r], Head(queue[r]).chunk, Message(r).level)
      BY <1>a, <2>1 DEF CollectChunk
    <3>3. Head(queue[r]).chunk \in Chunk
      <4> DEFINE Entry == [chunk : Chunk, res : Results]
      <4>1. queue[r] \in Seq(Entry)
        BY <1>a DEF OwnInv, TypeOK
      <4>2. Head(queue[r]) \in Entry
        <5> HIDE DEF Entry
        <5> QED
          BY <3>1, <4>1
      <4>3. QED
        BY <4>2
    <3>4. QED
      BY <1>b, <3>2, <3>3 DEF Put
  <2>2. QED
    BY <1>a, <1>b, <2>1, ReceivedFrame
<1>1. ASSUME NEW r \in Runs, main'[r] \in Persisting PROVE DOMAIN received'[r] = Chunk
  <2>1. CASE main[r] \in Persisting
    BY <1>1, <1>a, <1>b, <2>1 DEF PersistsAll, Persisting, Live
  <2>2. CASE main[r] \notin Persisting
    <3>1. ASSUME NEW q \in Runs, Start(q) PROVE FALSE
      BY <1>1, <1>a, <2>2, <3>1 DEF Start, MainGo, Persisting
    <3>2. ASSUME NEW q \in Runs, Kill(q) \/ EndUnfinished(q) PROVE FALSE
      BY <1>1, <1>a, <2>2, <3>2 DEF Kill, EndUnfinished, Finish, MainGo, Persisting
    <3>3. ASSUME NEW q \in Runs, StageOutput(q) \/ CommitOutput(q) \/ Record(q) PROVE FALSE
      BY <1>1, <1>a, <2>2, <3>3, PersistFrame DEF Finish, MainGo, Persisting
    <3>4. ASSUME NEW q \in Runs, Prune(q) PROVE FALSE
      BY <1>1, <1>a, <2>2, <3>4 DEF Prune, Finish, MainGo, Persisting
    <3>5. ASSUME NEW q \in Runs, Cancel(q) \/ ProducerStep(q) PROVE UNCHANGED main
      BY <3>5 DEF Cancel, ProducerStep, ProducerDone, ProducerStop, CloseJobs
    <3>6. PICK q \in Runs : EndCollected(q)
      BY <1>1, <2>2, <3>1, <3>2, <3>3, <3>4, <3>5, CollectFrame, IdleFrame, WorkerFrame
         DEF Next, MainStep
    <3>7. q = r
      BY <1>1, <1>a, <2>2, <3>6 DEF EndCollected, MainGo
    <3>8. QED
      BY <3>6, <3>7, EndsWhole, EndFrame
  <2>3. QED
    BY <2>1, <2>2
<1>2. ASSUME NEW r \in Runs, state'[r].status = "completed" PROVE DOMAIN received'[r] = Chunk
  <2>1. CASE state'[r] = state[r]
    <3>1. CASE Start(r) /\ Live(r)' /\ ~Live(r)
      BY <1>a, <1>2, <3>1, BeginsByStart DEF WriteState
    <3>2. QED
      BY <1>2, <1>a, <1>b, <2>1, <3>1 DEF CompletedMeansAll
  <2>2. CASE Record(r) /\ MainGo(r, "pruning")
    BY <1>a, <1>1, <2>2 DEF MainGo, Persisting
  <2>3. ASSUME NEW status \in {"none", "running", "canceled", "failed"}, NEW n,
               state'[r] = [status |-> status, done |-> n]
        PROVE  FALSE
    BY <1>2, <2>3
  <2>4. CASE state'[r] = NoState
    BY <2>3, <2>4 DEF NoState
  <2>5. CASE \E status \in {"canceled", "failed"} :
                state'[r] = [status |-> status, done |-> Cardinality(DOMAIN received[r])]
    BY <2>3, <2>5
  <2>6. OwnInv
    BY <1>a
  <2>7. QED
    BY <2>1, <2>2, <2>3, <2>4, <2>5, <2>6, StateFrame
<1>3. ASSUME NEW r \in Runs, outcome'[r] = "completed" PROVE DOMAIN received'[r] = Chunk
  <2>1. ASSUME NEW q \in Runs, Start(q) PROVE DOMAIN received'[r] = Chunk
    <3>1. CASE q = r
      BY <1>3, <1>a, <2>1, <3>1 DEF Start
    <3>2. CASE q # r
      BY <1>3, <1>a, <2>1, <3>2 DEF Start, CompletedMeansAll
    <3>3. QED
      BY <3>1, <3>2
  <2>2. ASSUME NEW q \in Runs, Prune(q) PROVE DOMAIN received'[r] = Chunk
    <3>1. UNCHANGED received /\ main[q] = "pruning"
      BY <2>2 DEF Prune, result
    <3>2. DOMAIN received[q] = Chunk
      BY <1>a, <3>1 DEF PersistsAll, Persisting
    <3>3. q # r => outcome[r] = "completed"
      BY <1>3, <1>a, <2>2 DEF Prune, Finish
    <3>4. QED
      BY <1>a, <3>1, <3>2, <3>3 DEF CompletedMeansAll
  <2>3. ASSUME NEW q \in Runs, EndUnfinished(q) PROVE outcome[r] = "completed"
    BY <1>3, <1>a, <2>3 DEF EndUnfinished, Finish
  <2>4. ASSUME NEW q \in Runs, StageOutput(q) \/ CommitOutput(q) \/ Record(q)
        PROVE  outcome[r] = "completed"
    BY <1>3, <1>a, <2>4, PersistFrame DEF Finish
  <2>5. ASSUME NEW q \in Runs, Cancel(q) \/ Kill(q) \/ ProducerStep(q) \/ EndCollected(q)
        PROVE  UNCHANGED outcome
    BY <2>5 DEF Cancel, Kill, ProducerStep, ProducerDone, ProducerStop, CloseJobs, EndCollected
  <2>6. CASE outcome[r] = "completed" /\ ~(Start(r) /\ Live(r)' /\ ~Live(r))
    BY <1>a, <1>b, <2>6 DEF CompletedMeansAll
  <2>7. QED
    BY <1>3, <2>1, <2>2, <2>3, <2>4, <2>5, <2>6, CollectFrame, IdleFrame, WorkerFrame
       DEF Next, MainStep
<1>4. QED
  BY <1>1, <1>2, <1>3 DEF PersistsAll, CompletedMeansAll

LEMMA WholeInvHolds == Spec => []WholeInv
<1>1. BlameInv /\ [Next]_vars => BlameInv'
  BY OwnStep, BlameStep, OutcomeStep DEF BlameInv
<1>2. WholeInv /\ [Next]_vars => WholeInv'
  BY <1>1, ClosedStep, LeftStep, NothingLostStep, PersistsStep DEF WholeInv
<1>3. QED
  BY <1>2, WholeInit, PTL DEF Spec

\* "completed", to the caller or in the progress file, means every chunk was
\* collected, whatever was cancelled, failed or pruned on the way.
THEOREM CompletedMeansAllHolds == Spec => []CompletedMeansAll
<1>1. WholeInv => CompletedMeansAll
  BY DEF WholeInv
<1>2. QED
  BY <1>1, WholeInvHolds, PTL

\* The outcome of a run is neither a completion that is not one nor a cancel that
\* nobody asked for.
THEOREM OutcomeIsTrueHolds == Spec => []OutcomeIsTrue
<1>1. CompletedMeansAll /\ CanceledOnlyIfAsked => OutcomeIsTrue
  BY DEF OutcomeIsTrue
<1>2. QED
  BY <1>1, CompletedMeansAllHolds, CanceledOnlyIfAskedHolds, PTL

-----------------------------------------------------------------------------
(* Progress: the progress file counts collected chunks and says a run has  *)
(* ended only once it is about to return.                                  *)

ProgressKept ==
    \A r \in Runs :
        /\ state[r].done <= Cardinality(DOMAIN received[r])
        /\ state[r].status \in Ended => Over(r) \/ main[r] = "pruning"

ProgressInv == WholeInv /\ ProgressKept

LEMMA ProgressInit == Init => ProgressInv
<1> SUFFICES ASSUME Init PROVE ProgressInv
  OBVIOUS
<1>1. ASSUME NEW r \in Runs
      PROVE  /\ state[r].done <= Cardinality(DOMAIN received[r])
             /\ state[r].status \notin Ended
  <2>1. state[r] = NoState /\ received[r] = <<>>
    BY DEF Init
  <2>2. Cardinality(DOMAIN received[r]) = 0
    BY <2>1, EmptyType, FS_EmptySet
  <2>3. QED
    BY <2>1, <2>2 DEF NoState, Ended
<1>2. QED
  BY <1>1, WholeInit DEF ProgressInv, ProgressKept

\* What is collected is counted: the count fits a progress file, and it grows.
LEMMA CountGrows ==
    ASSUME OwnInv, [Next]_vars, NEW r \in Runs
    PROVE  /\ Cardinality(DOMAIN received[r]) \in 0..NChunks
           /\ Cardinality(DOMAIN received'[r]) \in 0..NChunks
           /\ \/ Cardinality(DOMAIN received[r]) <= Cardinality(DOMAIN received'[r])
              \/ Start(r) /\ Live(r)' /\ ~Live(r)
<1>1. received[r] \in Partial(Chunk, Levels)
  BY DEF OwnInv, TypeOK
<1>2. received'[r] \in Partial(Chunk, Levels)
  <2>1. TypeOK'
    BY OwnStep DEF OwnInv
  <2>2. QED
    BY <2>1 DEF TypeOK, Partial, Chunk, Levels, Level
<1>3. DOMAIN received[r] \subseteq DOMAIN received'[r] \/ (Start(r) /\ Live(r)' /\ ~Live(r))
  BY ReceivedFrame
<1>4. IsFiniteSet(DOMAIN received'[r])
  BY <1>2, PartialType, Constants, FS_Interval, FS_Subset DEF Chunk
<1>5. QED
  BY <1>1, <1>2, <1>3, <1>4, CollectedType, FS_Subset

\* The next step of a progress file: the file is left alone, removed, begun again,
\* or counts on, and no run goes on once its file says that it ended.
LEMMA ProgressStep ==
    ASSUME ProgressInv, [Next]_vars, NEW r \in Runs
    PROVE  /\ state'[r].done <= Cardinality(DOMAIN received'[r])
           /\ state'[r].status \in Ended => Over(r)' \/ main'[r] = "pruning"
           /\ (main'[r] = "collecting" => main[r] = "collecting") =>
                 /\ state'[r] # NoState => state'[r].done >= state[r].done
                 /\ state[r].status \in Ended => state'[r] \in {state[r], NoState}
<1>a. /\ OwnInv /\ PersistsAll
      /\ main \in [Runs -> MainState]
      /\ state \in [Runs -> [status : Ended \cup {"none", "running"}, done : 0..NChunks]]
      /\ state[r].done <= Cardinality(DOMAIN received[r])
      /\ state[r].status \in Ended => Over(r) \/ main[r] = "pruning"
  BY DEF ProgressInv, ProgressKept, WholeInv, BlameInv, OwnInv, TypeOK
<1>b. /\ Cardinality(DOMAIN received[r]) \in 0..NChunks
      /\ Cardinality(DOMAIN received'[r]) \in 0..NChunks
      /\ \/ Cardinality(DOMAIN received[r]) <= Cardinality(DOMAIN received'[r])
         \/ Start(r) /\ Live(r)' /\ ~Live(r)
  BY <1>a, CountGrows
<1>n. state[r].done \in 0..NChunks /\ NChunks \in Nat
  BY <1>a, Constants
<1>1. CASE Start(r) /\ Live(r)' /\ ~Live(r)
  <2>1. /\ state'[r] = [status |-> "running", done |-> 0]
        /\ main'[r] = "collecting" /\ main[r] # "collecting"
    BY <1>a, <1>1, BeginsByStart DEF WriteState, Live
  <2>2. QED
    BY <1>b, <2>1 DEF Ended
<1>2. CASE state'[r] = state[r] /\ ~(Start(r) /\ Live(r)' /\ ~Live(r))
  <2>1. state'[r].done <= Cardinality(DOMAIN received'[r]) /\ state'[r].done >= state[r].done
    BY <1>a, <1>b, <1>n, <1>2
  <2>2. ASSUME state[r].status \in Ended PROVE Over(r)' \/ main'[r] = "pruning"
    <3>1. Over(r) \/ main[r] = "pruning"
      BY <1>a, <2>2
    <3>2. CASE main'[r] = main[r]
      BY <3>1, <3>2 DEF Over
    <3>3. ASSUME NEW q \in Runs, Start(q) PROVE main'[r] \in {main[r], "returned"}
      BY <1>a, <1>2, <3>1, <3>3 DEF Start, MainGo, Live, Over
    <3>4. ASSUME NEW q \in Runs, Kill(q) PROVE main'[r] \in {main[r], "killed"}
      BY <1>a, <3>4 DEF Kill, MainGo
    <3>5. ASSUME NEW q \in Runs, EndUnfinished(q) \/ EndCollected(q)
          PROVE  main'[r] = main[r]
      BY <1>a, <3>1, <3>5 DEF EndUnfinished, EndCollected, Finish, MainGo, Over, Live
    <3>6. ASSUME NEW q \in Runs, StageOutput(q) \/ CommitOutput(q) \/ Record(q)
          PROVE  main'[r] = main[r]
      BY <1>a, <3>1, <3>6, PersistFrame DEF Finish, MainGo, Over
    <3>7. ASSUME NEW q \in Runs, Prune(q) PROVE main'[r] \in {main[r], "returned"}
      BY <1>a, <3>1, <3>7 DEF Prune, Finish, MainGo, Over
    <3>8. ASSUME NEW q \in Runs, Cancel(q) \/ ProducerStep(q) PROVE UNCHANGED main
      BY <3>8 DEF Cancel, ProducerStep, ProducerDone, ProducerStop, CloseJobs
    <3>9. main'[r] \in {main[r], "returned", "killed"}
      BY <3>3, <3>4, <3>5, <3>6, <3>7, <3>8, CollectFrame, IdleFrame, WorkerFrame
         DEF Next, MainStep
    <3>10. QED
      BY <3>2, <3>9 DEF Over
  <2>3. QED
    BY <1>2, <2>1, <2>2
<1>3. CASE state'[r] = NoState /\ ~(Start(r) /\ Live(r)' /\ ~Live(r))
  BY <1>b, <1>3 DEF NoState, Ended
<1>4. CASE CollectChunk(r)
           /\ state'[r] = [status |-> "running", done |-> Cardinality(DOMAIN received'[r])]
  <2>1. Live(r)
    BY <1>4 DEF CollectChunk
  <2>2. state[r].status \notin Ended
    BY <1>a, <2>1 DEF Live, Over
  <2>3. state'[r].done >= state[r].done
    BY <1>a, <1>b, <1>n, <1>4, <2>1
  <2>4. QED
    BY <1>4, <1>b, <2>2, <2>3 DEF Ended
<1>5. CASE /\ EndUnfinished(r)
           /\ \E status \in {"canceled", "failed"} :
                 state'[r] = [status |-> status, done |-> Cardinality(DOMAIN received[r])]
  <2>1. Live(r) /\ UNCHANGED received /\ main'[r] = "returned"
    BY <1>a, <1>5, EndFrame DEF EndUnfinished, Finish, MainGo
  <2>2. state[r].status \notin Ended
    BY <1>a, <2>1 DEF Live, Over
  <2>3. state'[r].done = Cardinality(DOMAIN received[r])
    BY <1>5
  <2>4. QED
    BY <1>a, <1>b, <1>n, <2>1, <2>2, <2>3 DEF Over
<1>6. CASE Record(r) /\ MainGo(r, "pruning") /\ state'[r] = [status |-> "completed", done |-> NChunks]
  <2>1. main[r] = "recording" /\ main'[r] = "pruning" /\ UNCHANGED received
    BY <1>a, <1>6, PersistFrame DEF Record, MainGo
  <2>2. state[r].status \notin Ended
    BY <1>a, <2>1 DEF Over
  <2>3. Cardinality(DOMAIN received'[r]) = NChunks
    BY <1>a, <2>1, Constants, FS_Interval DEF PersistsAll, Persisting, Chunk
  <2>4. state'[r].done = NChunks
    BY <1>6
  <2>5. QED
    BY <1>n, <2>1, <2>2, <2>3, <2>4
<1>7. QED
  BY <1>a, <1>1, <1>2, <1>3, <1>4, <1>5, <1>6, StateFrame

LEMMA ProgressInvHolds == Spec => []ProgressInv
<1>1. BlameInv /\ [Next]_vars => BlameInv'
  BY OwnStep, BlameStep, OutcomeStep DEF BlameInv
<1>2. WholeInv /\ [Next]_vars => WholeInv'
  BY <1>1, ClosedStep, LeftStep, NothingLostStep, PersistsStep DEF WholeInv
<1>3. ProgressInv /\ [Next]_vars => ProgressInv'
  BY <1>2, ProgressStep DEF ProgressInv, ProgressKept
<1>4. QED
  BY <1>3, ProgressInit, PTL DEF Spec

\* While a run goes on its progress file only counts up, although its chunks
\* finish in any order, and a word of its end is its last.
THEOREM ProgressNeverGoesBackHolds == Spec => ProgressNeverGoesBack
<1>1. ProgressInv /\ [Next]_vars =>
        [\A r \in Runs : (main'[r] = "collecting" => main[r] = "collecting") =>
           /\ state'[r] # NoState => state'[r].done >= state[r].done
           /\ state[r].status \in Ended => state'[r] \in {state[r], NoState}]_vars
  BY ProgressStep
<1>2. QED
  BY <1>1, ProgressInvHolds, PTL DEF Spec, ProgressNeverGoesBack

-----------------------------------------------------------------------------
(* Room: no chunk is handed out twice, so the channel, made with a place   *)
(* for each, holds what all the workers may send.                          *)

Room(r) ==
    /\ ~Live(r) => queue[r] = <<>>
    /\ \A i \in 1..Len(queue[r]) : queue[r][i].chunk < next[r]
    /\ \A i, j \in 1..Len(queue[r]) : queue[r][i].chunk = queue[r][j].chunk => i = j
    /\ \A w \in Worker : w[1] = r =>
          /\ job[w] < next[r]
          /\ \A i \in 1..Len(queue[r]) : queue[r][i].chunk # job[w]
          /\ \A x \in Worker : x[1] = r /\ job[x] = job[w] /\ job[w] # 0 => x = w

RoomInv == OwnInv /\ \A r \in Runs : Room(r)

LEMMA RoomInit == Init => RoomInv
<1> SUFFICES ASSUME Init, NEW r \in Runs PROVE Room(r)
  BY OwnInit DEF RoomInv
<1>1. queue[r] = <<>> /\ next[r] = 1 /\ \A w \in Worker : job[w] = 0
  BY DEF Init
<1>2. QED
  BY <1>1 DEF Room

\* A step of a collecting run as its jobs and results channels see it.
Takes(w) ==
    LET r == w[1]
    IN  /\ queue'[r] = queue[r] /\ next'[r] = next[r] + 1 /\ job[w] = 0 /\ job'[w] = next[r]
        /\ \A x \in Worker : x # w => job'[x] = job[x]
Gives(w) ==
    LET r == w[1]
    IN  /\ Sends(w) /\ next'[r] = next[r] /\ job[w] \in Chunk /\ job'[w] = 0
        /\ \A x \in Worker : x # w => job'[x] = job[x]
SameJobs(r) == next'[r] = next[r] /\ \A w \in Worker : w[1] = r => job'[w] = job[w]

LEMMA ChannelFrame ==
    ASSUME OwnInv, [Next]_vars, NEW r \in Runs, Live(r), Live(r)'
    PROVE  \/ \E w \in Worker : w[1] = r /\ Takes(w)
           \/ \E w \in Worker : w[1] = r /\ Gives(w)
           \/ SameJobs(r) /\ (queue'[r] = queue[r] \/ Receives(r))
<1>a. /\ main \in [Runs -> MainState] /\ at \in [Worker -> Step]
      /\ job \in [Worker -> Chunk \cup {0}] /\ next \in [Runs -> 1..(NChunks + 1)]
  BY DEF OwnInv, TypeOK
<1>q. queue'[r] = queue[r] \/ (\E w \in Worker : w[1] = r /\ Sends(w)) \/ Receives(r)
  BY QueueFrame
<1>1. CASE \E w \in Worker : w[1] = r /\ Send(w)
  <2>1. PICK w \in Worker : w[1] = r /\ Send(w)
    BY <1>1
  <2>2. /\ job[w] \in Chunk /\ job'[w] = 0
        /\ \A x \in Worker : x # w => job'[x] = job[x]
    BY <1>a, <2>1, WorkerType DEF Send
  <2>3. next' = next
    BY <2>1 DEF Send, feed
  <2>4. queue'[r] # queue[r]
    <3> DEFINE Entry == [chunk : Chunk, res : Results]
    <3> DEFINE entry == [chunk |-> job[w], res |-> val[w]]
    <3>1. entry \in Entry
      BY <2>1, <2>2 DEF OwnInv, WorkerOwns, Send
    <3>2. queue[r] \in Seq(Entry) /\ queue'[r] = Append(queue[r], entry)
      BY <2>1 DEF Send, OwnInv, TypeOK
    <3> HIDE DEF Entry, entry
    <3>3. Len(queue'[r]) = Len(queue[r]) + 1 /\ Len(queue[r]) \in Nat
      BY <3>1, <3>2
    <3>4. QED
      BY <3>3
  <2>5. ~Receives(r)
    BY <2>1 DEF Receives, CollectFailure, Drain, CollectChunk, BesideCollect, worker, Send, WorkerOwns,
                OwnInv
  <2>6. PICK x \in Worker : x[1] = r /\ Sends(x)
    BY <1>q, <2>4, <2>5
  <2>7. x = w
    BY <1>a, <2>1, <2>2, <2>6 DEF Sends, Send, Chunk
  <2>8. QED
    BY <2>1, <2>2, <2>3, <2>6, <2>7 DEF Gives
<1>2. CASE ~\E w \in Worker : w[1] = r /\ Send(w)
  <2>1. queue'[r] = queue[r] \/ Receives(r)
    BY <1>q, <1>2 DEF Sends
  <2>2. ASSUME NEW w \in Worker, Take(w), w[1] = r PROVE Takes(w)
    <3>1. job[w] = 0 /\ queue' = queue
      BY <2>2 DEF Take, OwnInv, WorkerOwns, result
    <3>2. QED
      BY <1>a, <2>2, <3>1 DEF Take, Takes
  <2>3. ASSUME NEW w \in Worker, Take(w), w[1] # r PROVE SameJobs(r)
    BY <1>a, <2>3 DEF Take, SameJobs
  <2>4. ASSUME NEW w \in Worker, Send(w), w[1] # r PROVE SameJobs(r)
    BY <1>a, <2>4 DEF Send, SameJobs, feed
  <2>5. ASSUME NEW w \in Worker, WorkerStep(w), ~Take(w), ~Send(w) PROVE SameJobs(r)
    BY <2>5
       DEF WorkerStep, WorkerEnd, Look, Compute, StageLocal, CommitLocal, StageShared,
           CommitShared, BesideWorkers, feed, SameJobs, Goes, Carries
  <2>6. ASSUME NEW q \in Runs, Start(q) PROVE SameJobs(r)
    <3>1. q # r
      BY <2>6 DEF Start, Startable, Live
    <3>2. QED
      BY <1>a, <2>6, <3>1 DEF Start, SameJobs
  <2>7. ASSUME NEW q \in Runs, Kill(q) PROVE SameJobs(r)
    <3>1. q # r
      BY <1>a, <2>7 DEF Kill, MainGo, Live
    <3>2. QED
      BY <1>a, <2>7, <3>1 DEF Kill, SameJobs
  <2>8. ASSUME NEW q \in Runs, Cancel(q) \/ ProducerStep(q) \/ Prune(q) PROVE UNCHANGED <<next, job>>
    BY <2>8 DEF Cancel, ProducerStep, ProducerDone, ProducerStop, CloseJobs, Prune, feed, worker
  <2>9. UNCHANGED <<next, job>> => SameJobs(r)
    BY DEF SameJobs
  <2>10. ASSUME NEW w \in Worker, WorkerStep(w)
         PROVE  SameJobs(r) \/ (w[1] = r /\ Takes(w))
    BY <1>2, <2>2, <2>3, <2>4, <2>5, <2>10
  <2>11. SameJobs(r) \/ \E w \in Worker : w[1] = r /\ Takes(w)
    BY <2>6, <2>7, <2>8, <2>9, <2>10, PersistFrame, CollectFrame, EndFrame, IdleFrame
       DEF Next, MainStep
  <2>12. QED
    BY <2>1, <2>11
<1>3. QED
  BY <1>1, <1>2

\* A run that does not collect has nothing in its channel.
LEMMA RestsEmpty ==
    ASSUME RoomInv, [Next]_vars, NEW r \in Runs, ~Live(r)'
    PROVE  queue'[r] = <<>>
<1> DEFINE Entry == [chunk : Chunk, res : Results]
<1>a. /\ OwnInv /\ Resting /\ main \in [Runs -> MainState] /\ queue \in [Runs -> Seq(Entry)]
      /\ ~Live(r) => queue[r] = <<>>
  BY DEF RoomInv, Room, OwnInv, TypeOK
<1>1. ASSUME NEW q \in Runs, Kill(q) PROVE queue'[r] = <<>>
  <2>1. q # r => ~Live(r)
    BY <1>a, <1>1 DEF Kill, MainGo, Live
  <2>2. QED
    BY <1>a, <1>1, <2>1 DEF Kill
<1>2. ASSUME NEW q \in Runs, EndUnfinished(q) \/ EndCollected(q) PROVE queue'[r] = <<>>
  <2>1. q # r => ~Live(r)
    BY <1>a, <1>2 DEF EndUnfinished, EndCollected, Finish, MainGo, Live
  <2>2. QED
    BY <1>a, <1>2, <2>1, EndFrame
<1>3. ASSUME NEW w \in Worker, WorkerStep(w) PROVE queue'[r] = <<>>
  <2>1. ~Live(r)
    BY <1>3, WorkerFrame DEF Live
  <2>2. CASE Send(w)
    <3>1. w[1] # r
      <4>1. w = <<w[1], w[2]>> /\ w[2] \in Pool
        BY <1>a, WorkerType
      <4>2. QED
        BY <1>a, <2>1, <2>2, <4>1 DEF Resting, Workless, Send
    <3>2. QED
      BY <1>a, <2>1, <2>2, <3>1 DEF Send
  <2>3. CASE ~Send(w)
    BY <1>a, <1>3, <2>1, <2>3
       DEF WorkerStep, Take, WorkerEnd, Look, Compute, StageLocal, CommitLocal, StageShared,
           CommitShared, BesideWorkers, result
  <2>4. QED
    BY <2>2, <2>3
<1>4. ASSUME NEW q \in Runs, CollectFailure(q) \/ Drain(q) \/ CollectChunk(q)
      PROVE  queue'[r] = <<>>
  <2>1. ~Live(r) /\ Live(q) /\ queue' = [queue EXCEPT ![q] = Tail(@)]
    BY <1>4, CollectFrame DEF Live, Dequeue
  <2>2. QED
    BY <1>a, <2>1
<1>5. ASSUME NEW q \in Runs, Start(q) \/ Prune(q) \/ Cancel(q) \/ ProducerStep(q)
      PROVE  queue'[r] = <<>>
  <2>1. UNCHANGED queue
    BY <1>5 DEF Start, Prune, Cancel, ProducerStep, ProducerDone, ProducerStop, CloseJobs, result
  <2>2. ~Live(r)
    <3>1. CASE Start(q)
      BY <1>a, <3>1 DEF Start, Startable, MainGo, Live
    <3>2. CASE Prune(q)
      BY <1>a, <3>2 DEF Prune, Finish, MainGo, Live
    <3>3. CASE Cancel(q) \/ ProducerStep(q)
      BY <3>3 DEF Cancel, ProducerStep, ProducerDone, ProducerStop, CloseJobs, Live
    <3>4. QED
      BY <1>5, <3>1, <3>2, <3>3
  <2>3. QED
    BY <1>a, <2>1, <2>2
<1>6. ASSUME NEW q \in Runs, StageOutput(q) \/ CommitOutput(q) \/ Record(q)
      PROVE  queue'[r] = <<>>
  <2>1. ~Live(r)
    BY <1>a, <1>6, PersistFrame DEF Finish, MainGo, Live
  <2>2. QED
    BY <1>a, <1>6, <2>1, PersistFrame
<1>7. CASE ImportTiles \/ Quiet \/ UNCHANGED vars
  BY <1>a, <1>7, IdleFrame DEF Live
<1>8. QED
  BY <1>1, <1>2, <1>3, <1>4, <1>5, <1>6, <1>7 DEF Next, MainStep

LEMMA RoomStep ==
    ASSUME RoomInv, [Next]_vars, NEW r \in Runs
    PROVE  Room(r)'
<1>t. /\ OwnInv /\ Room(r) /\ Resting
      /\ next \in [Runs -> 1..(NChunks + 1)] /\ job \in [Worker -> Chunk \cup {0}]
  BY DEF RoomInv, OwnInv, TypeOK
<1>a. /\ OwnInv /\ Room(r) /\ Resting
      /\ next \in [Runs -> 1..(NChunks + 1)] /\ job \in [Worker -> Chunk \cup {0}]
      /\ \A w \in Worker : job[w] \in Nat
      /\ \A i, j \in 1..Len(queue[r]) : queue[r][i].chunk = queue[r][j].chunk => i = j
  <2>1. Chunk \cup {0} \subseteq Nat
    BY Constants DEF Chunk
  <2>2. \A i, j \in 1..Len(queue[r]) : queue[r][i].chunk = queue[r][j].chunk => i = j
    BY <1>t DEF Room
  <2>3. QED
    BY <1>t, <2>1, <2>2
<1>b. /\ OwnInv' /\ next[r] \in Nat /\ next'[r] \in Nat \ {0}
      /\ Len(queue[r]) \in Nat /\ NChunks \in Nat
  <2>1. OwnInv'
    BY <1>a, OwnStep
  <2>2. next' \in [Runs -> 1..(NChunks + 1)]
    BY <2>1 DEF OwnInv, TypeOK
  <2>3. QED
    BY <1>a, <2>1, <2>2, Constants, LengthType
<1>1. CASE ~Live(r)'
  <2>1. queue'[r] = <<>>
    BY <1>1, RestsEmpty
  <2>2. ASSUME NEW w \in Worker, w[1] = r PROVE job'[w] = 0
    <3>1. w = <<w[1], w[2]>> /\ w[2] \in Pool
      BY <1>a, WorkerType
    <3>2. at'[w] \in {"none", "exited"}
      BY <1>b, <1>1, <2>2, <3>1 DEF OwnInv, Resting, Workless
    <3>3. QED
      BY <1>b, <3>2 DEF OwnInv, WorkerOwns
  <2>3. QED
    BY <1>b, <2>1, <2>2 DEF Room
<1>2. CASE Live(r)' /\ ~Live(r)
  <2>1. Start(r) /\ next'[r] = 1
    BY <1>a, <1>2, BeginsByStart
  <2>2. UNCHANGED <<queue, job>> /\ queue[r] = <<>>
    BY <1>a, <1>2, <2>1 DEF Start, Room
  <2>3. ASSUME NEW w \in Worker, w[1] = r PROVE job'[w] = 0
    <3>1. w = <<w[1], w[2]>> /\ w[2] \in Pool
      BY <1>a, WorkerType
    <3>2. at[w] \in {"none", "exited"}
      BY <1>a, <1>2, <2>3, <3>1 DEF Resting, Workless
    <3>3. QED
      BY <1>a, <2>2, <3>2 DEF OwnInv, WorkerOwns
  <2>4. QED
    BY <1>2, <2>1, <2>2, <2>3 DEF Room
<1>3. CASE Live(r)' /\ Live(r)
  <2>1. ASSUME NEW w \in Worker, w[1] = r, Takes(w) PROVE Room(r)'
    <3>1. /\ queue'[r] = queue[r] /\ next'[r] = next[r] + 1 /\ job'[w] = next[r]
          /\ \A x \in Worker : x # w => job'[x] = job[x]
      BY <2>1 DEF Takes
    <3>2. \A i \in 1..Len(queue[r]) : queue[r][i].chunk < next[r]
      BY <1>a DEF Room
    <3>3. \A x \in Worker : x[1] = r => job[x] < next[r]
      BY <1>a DEF Room
    <3>c. \A i \in 1..Len(queue[r]) : queue[r][i].chunk \in Nat
      <4> DEFINE Entry == [chunk : Chunk, res : Results]
      <4>1. queue[r] \in Seq(Entry)
        BY <1>a DEF OwnInv, TypeOK
      <4>2. \A i \in 1..Len(queue[r]) : queue[r][i] \in Entry
        <5> HIDE DEF Entry
        <5> QED
          BY <4>1
      <4>3. QED
        BY <4>2 DEF Chunk
    <3>4. \A i \in 1..Len(queue'[r]) : queue'[r][i].chunk < next'[r]
      BY <1>b, <3>1, <3>2, <3>c
    <3>5. \A i, j \in 1..Len(queue'[r]) : queue'[r][i].chunk = queue'[r][j].chunk => i = j
      BY <1>a, <3>1 DEF Room
    <3>6. ASSUME NEW x \in Worker, x[1] = r
          PROVE  /\ job'[x] < next'[r]
                 /\ \A i \in 1..Len(queue'[r]) : queue'[r][i].chunk # job'[x]
                 /\ \A y \in Worker : y[1] = r /\ job'[y] = job'[x] /\ job'[x] # 0 => y = x
      <4>1. job[x] \in Nat /\ job[x] < next[r]
        BY <1>a, <3>3, <3>6
      <4>2. job'[x] < next'[r]
        BY <1>b, <3>1, <4>1
      <4>3. ASSUME NEW i \in 1..Len(queue'[r]) PROVE queue'[r][i].chunk # job'[x]
        BY <1>a, <1>b, <3>1, <3>2, <3>6, <3>c DEF Room
      <4>4. ASSUME NEW y \in Worker, y[1] = r, job'[y] = job'[x], job'[x] # 0 PROVE y = x
        <5>1. job[y] \in Nat /\ job[y] < next[r]
          BY <1>a, <3>3, <4>4
        <5>2. CASE x = w \/ y = w
          BY <1>b, <3>1, <4>1, <4>4, <5>1, <5>2
        <5>3. CASE x # w /\ y # w
          BY <1>a, <3>1, <3>6, <4>4, <5>3 DEF Room
        <5>4. QED
          BY <5>2, <5>3
      <4>5. QED
        BY <4>2, <4>3, <4>4
    <3>7. QED
      BY <1>3, <3>4, <3>5, <3>6 DEF Room
  <2>2. ASSUME NEW w \in Worker, w[1] = r, Gives(w) PROVE Room(r)'
    <3>1. /\ Len(queue'[r]) = Len(queue[r]) + 1 /\ next'[r] = next[r]
          /\ \A i \in 1..Len(queue[r]) : queue'[r][i] = queue[r][i]
          /\ queue'[r][Len(queue[r]) + 1].chunk = job[w]
          /\ job[w] \in Chunk /\ job[w] # 0 /\ job'[w] = 0
          /\ \A x \in Worker : x # w => job'[x] = job[x]
      BY <2>2, Constants DEF Gives, Sends, Chunk
    <3>2. /\ job[w] < next[r]
          /\ \A i \in 1..Len(queue[r]) : queue[r][i].chunk < next[r] /\ queue[r][i].chunk # job[w]
          /\ \A x \in Worker : x[1] = r /\ x # w => job[x] # job[w]
      BY <1>a, <2>2, <3>1 DEF Room
    <3>3. ASSUME NEW i \in 1..Len(queue'[r])
          PROVE  \/ i \in 1..Len(queue[r]) /\ queue'[r][i] = queue[r][i]
                 \/ i = Len(queue[r]) + 1 /\ queue'[r][i].chunk = job[w]
      BY <1>b, <3>1
    <3>4. \A i \in 1..Len(queue'[r]) : queue'[r][i].chunk < next'[r]
      BY <3>1, <3>2, <3>3
    <3>5. ASSUME NEW i \in 1..Len(queue'[r]), NEW j \in 1..Len(queue'[r]),
                 queue'[r][i].chunk = queue'[r][j].chunk
          PROVE  i = j
      <4>1. CASE i \in 1..Len(queue[r]) /\ j \in 1..Len(queue[r])
        <5>1. queue[r][i].chunk = queue[r][j].chunk
          BY <3>1, <3>5, <4>1
        <5>2. QED
          BY <1>a, <4>1, <5>1
      <4>2. QED
        BY <3>2, <3>3, <3>5, <4>1
    <3>6. ASSUME NEW x \in Worker, x[1] = r
          PROVE  /\ job'[x] < next'[r]
                 /\ \A i \in 1..Len(queue'[r]) : queue'[r][i].chunk # job'[x]
                 /\ \A y \in Worker : y[1] = r /\ job'[y] = job'[x] /\ job'[x] # 0 => y = x
      <4>1. CASE x = w
        <5>1. \A i \in 1..Len(queue'[r]) : queue'[r][i].chunk # 0
          <6>1. TypeOK'
            BY <1>b DEF OwnInv
          <6> DEFINE Entry == [chunk : Chunk, res : Results]
          <6>2. queue'[r] \in Seq(Entry)
            BY <6>1 DEF TypeOK
          <6>3. \A i \in 1..Len(queue'[r]) : queue'[r][i] \in Entry
            <7> HIDE DEF Entry
            <7> QED
              BY <6>2
          <6>4. QED
            BY <6>3 DEF Chunk
        <5>2. QED
          BY <1>b, <3>1, <4>1, <5>1
      <4>2. CASE x # w
        <5>1. job'[x] = job[x] /\ job[x] # job[w] /\ job[x] < next[r]
          BY <1>a, <3>1, <3>2, <3>6, <4>2 DEF Room
        <5>2. \A i \in 1..Len(queue'[r]) : queue'[r][i].chunk # job'[x]
          BY <1>a, <3>3, <3>6, <5>1 DEF Room
        <5>3. ASSUME NEW y \in Worker, y[1] = r, job'[y] = job'[x], job'[x] # 0 PROVE y = x
          <6>1. y # w
            BY <3>1, <5>3
          <6>2. QED
            BY <1>a, <3>1, <3>6, <5>1, <5>3, <6>1 DEF Room
        <5>4. QED
          BY <3>1, <5>1, <5>2, <5>3
      <4>3. QED
        BY <4>1, <4>2
    <3>7. QED
      BY <1>3, <3>4, <3>5, <3>6 DEF Room
  <2>3. CASE SameJobs(r) /\ queue'[r] = queue[r]
    BY <1>3, <1>a, <2>3 DEF Room, SameJobs
  <2>4. CASE SameJobs(r) /\ Receives(r)
    <3>1. \A i \in 1..Len(queue'[r]) : i + 1 \in 1..Len(queue[r]) /\ queue'[r][i] = queue[r][i + 1]
      BY <1>b, <2>4 DEF Receives
    <3>2. \A i \in 1..Len(queue'[r]) : queue'[r][i].chunk < next'[r]
      BY <1>a, <2>4, <3>1 DEF Room, SameJobs
    <3>3. ASSUME NEW i \in 1..Len(queue'[r]), NEW j \in 1..Len(queue'[r]),
                 queue'[r][i].chunk = queue'[r][j].chunk
          PROVE  i = j
      <4> DEFINE m == i + 1
      <4> DEFINE n == j + 1
      <4>1. /\ m \in 1..Len(queue[r]) /\ n \in 1..Len(queue[r])
            /\ queue[r][m].chunk = queue[r][n].chunk
        BY <3>1, <3>3
      <4> HIDE DEF m, n
      <4>2. m = n
        BY <1>a, <4>1
      <4>3. QED
        BY <4>2 DEF m, n
    <3>4. ASSUME NEW x \in Worker, x[1] = r
          PROVE  /\ job'[x] < next'[r]
                 /\ \A i \in 1..Len(queue'[r]) : queue'[r][i].chunk # job'[x]
                 /\ \A y \in Worker : y[1] = r /\ job'[y] = job'[x] /\ job'[x] # 0 => y = x
      BY <1>a, <2>4, <3>1, <3>4 DEF Room, SameJobs
    <3>5. QED
      BY <1>3, <3>2, <3>3, <3>4 DEF Room
  <2>5. QED
    BY <1>3, <1>a, <2>1, <2>2, <2>3, <2>4, ChannelFrame
<1>4. QED
  BY <1>1, <1>2, <1>3

LEMMA RoomInvHolds == Spec => []RoomInv
<1>1. RoomInv /\ [Next]_vars => RoomInv'
  BY OwnStep, RoomStep DEF RoomInv
<1>2. QED
  BY <1>1, RoomInit, PTL DEF Spec

\* The results channel, whose capacity is the number of chunks, never fills, so
\* no worker waits in its send for a collector that writes progress.
THEOREM ChannelHasRoomHolds == Spec => []ChannelHasRoom
<1>1. RoomInv => ChannelHasRoom
  <2> SUFFICES ASSUME RoomInv, NEW r \in Runs PROVE Len(queue[r]) <= NChunks
    BY DEF ChannelHasRoom
  <2> DEFINE Entry == [chunk : Chunk, res : Results]
  <2> DEFINE Places == 1..Len(queue[r])
  <2> DEFINE chunks == [i \in Places |-> queue[r][i].chunk]
  <2>1. queue[r] \in Seq(Entry) /\ Len(queue[r]) \in Nat
    BY LengthType DEF RoomInv, OwnInv, TypeOK
  <2>2. \A i \in Places : queue[r][i] \in Entry
    <3> HIDE DEF Entry
    <3> QED
      BY <2>1
  <2>3. chunks \in [Places -> Chunk]
    BY <2>2
  <2>4. \A i, j \in Places : chunks[i] = chunks[j] => i = j
    BY DEF RoomInv, Room
  <2>5. chunks \in Injection(Places, Chunk)
    BY <2>3, <2>4 DEF Injection, IsInjective
  <2>6. IsFiniteSet(Chunk) /\ Cardinality(Chunk) = NChunks
    BY Constants, FS_Interval DEF Chunk
  <2>7. Cardinality(Places) <= Cardinality(Chunk)
    BY <2>5, <2>6, FS_Injection
  <2>8. Cardinality(Places) = Len(queue[r])
    BY <2>1, FS_Interval
  <2>9. QED
    BY <2>6, <2>7, <2>8
<1>2. QED
  BY <1>1, RoomInvHolds, PTL

=============================================================================
