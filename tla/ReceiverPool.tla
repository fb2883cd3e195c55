---------------------------- MODULE ReceiverPool ----------------------------
(***************************************************************************)
(* The walk of an RLS-19 run over its receivers (rls19/road/parallel.go):   *)
(* one goroutine walks them all, or a pool walks chunks of them and the     *)
(* chunks are put together by index.  Either way the caller is promised     *)
(* what the sequential walk says, and is told how far it has got            *)
(* (progress.go, app/cli/run_progress.go).  A level is the receiver it      *)
(* belongs to.                                                              *)
(***************************************************************************)
EXTENDS Naturals, SequencesExt

CONSTANTS Count,      \* how many receivers
          CrewSizes,  \* the worker counts callers ask for
          Inputs      \* what is wrong with what is computed, in Faults

Receivers == 1..Count
Faults == [refused : SUBSET Receivers, scene : BOOLEAN, lot : BOOLEAN]

ASSUME PoolAssumption ==
    /\ Count \in Nat \ {0}
    /\ CrewSizes \subseteq Nat \ {0}
    /\ Inputs \subseteq Faults

VARIABLES
    trouble,      \* what is wrong with the receivers, the scene and the car parks
    crew,         \* the workers asked for
    point,        \* where the caller's goroutine stands
    dealt,        \* the chunks the producer is done with
    task,         \* what each walker is at
    chunkResult,  \* results: each chunk's
    asked,        \* the caller's context is done
    refusal,      \* a refusal cancelled computeCtx
    counted,      \* progressCounter.done
    reported,     \* runProgress.lastDone: what run.log says
    filed,        \* what progress.json says
    answer        \* what the caller is answered

poolCase == <<trouble, crew>>
poolReport == <<counted, reported, filed>>
poolVars == <<poolCase, point, dealt, task, chunkResult, asked, refusal, poolReport, answer>>

-----------------------------------------------------------------------------
Least(m, n) == IF m < n THEN m ELSE n
Most(m, n) == IF m < n THEN n ELSE m

\* partition.Size.
MinChunk == 64
TargetChunksPerWorker == 8
Size(workers) ==
    LET target == workers * TargetChunksPerWorker
        wanted == (Count + target - 1) \div target
    IN  IF workers <= 1 THEN Count
        ELSE Least(Least(Most(wanted, MinChunk), Most(Count \div workers, 1)), Count)

\* partition.Over: chunk c is the receivers From(c)..To(c).
ChunkCount == (Count + Size(crew) - 1) \div Size(crew)
Chunks == 1..ChunkCount
From(c) == (c - 1) * Size(crew) + 1
To(c) == Least(c * Size(crew), Count)

Pooled == ChunkCount > 1
Walkers == 1..Least(crew, ChunkCount)

\* What a walk or a chunk of one ends with: the levels, or why there are none.
Said(is, at, table) == [is |-> is, at |-> at, table |-> table]
Computed(table) == Said("computed", 0, table)
RefusesReceiver(r) == Said("receiver", r, << >>)
RefusesScene == Said("scene", 0, << >>)
RefusesLot == Said("car park", 0, << >>)
WalkCancelled == Said("cancelled", 0, << >>)
NeverRun == Said("never run", 0, << >>)

Through(from, to) == [i \in 1..(to + 1 - from) |-> from + i - 1]
FirstRefused == CHOOSE r \in trouble.refused : \A s \in trouble.refused : r <= s

AtRest == [chunk |-> 0, at |-> 0, inside |-> FALSE]
Received(c) == [chunk |-> c, at |-> 0, inside |-> FALSE]
Before(c, r) == [chunk |-> c, at |-> r, inside |-> FALSE]
Inside(c, r) == [chunk |-> c, at |-> r, inside |-> TRUE]

PoolInit ==
    /\ trouble \in Inputs /\ crew \in CrewSizes
    /\ point = "new"
    /\ dealt = 0
    /\ task = [w \in Walkers |-> AtRest]
    /\ chunkResult = [c \in Chunks |-> NeverRun]
    /\ asked = FALSE /\ refusal = FALSE
    /\ counted = 0 /\ reported = 0 /\ filed = 0
    /\ answer = NeverRun

AnswersWith(said) == point' = "ended" /\ answer' = said

\* The caller's context is done: a signal, or the request's client is gone.
AskToStop ==
    /\ point # "ended" /\ ~asked
    /\ asked' = TRUE
    /\ UNCHANGED <<poolCase, point, dealt, task, chunkResult, refusal, poolReport, answer>>

\* workers <= 1, or too few receivers for two chunks: the walk is the caller's own.
WalkAlone ==
    /\ point = "new" /\ ~Pooled
    /\ point' = "walking"
    /\ task' = [task EXCEPT ![1] = Before(1, 1)]
    /\ UNCHANGED <<poolCase, dealt, chunkResult, asked, refusal, poolReport, answer>>

\* The context is checked before the scene is prepared.
OpenPool ==
    /\ point = "new" /\ Pooled
    /\ \/ asked /\ AnswersWith(WalkCancelled)
       \/ ~asked /\ point' = "preparing" /\ UNCHANGED answer
    /\ UNCHANGED <<poolCase, dealt, task, chunkResult, asked, refusal, poolReport>>

\* PrepareSceneForContext: a scene that cannot be prepared, or not for the first
\* receiver, is refused by the sequential walk, which looks at the context first.
\* ValidateReceivers then refuses the first receiver that is wrong.
Prepare ==
    /\ point = "preparing"
    /\ \/ /\ asked
          /\ trouble.scene \/ 1 \in trouble.refused
          /\ AnswersWith(WalkCancelled)
       \/ /\ ~asked /\ trouble.scene
          /\ AnswersWith(IF 1 \in trouble.refused THEN RefusesReceiver(1) ELSE RefusesScene)
       \/ /\ ~trouble.scene /\ trouble.refused # {}
          /\ AnswersWith(RefusesReceiver(FirstRefused))
       \/ /\ ~trouble.scene /\ trouble.refused = {}
          /\ point' = "dealing" /\ UNCHANGED answer
    /\ UNCHANGED <<poolCase, dealt, task, chunkResult, asked, refusal, poolReport>>

\* computeCtx.Err() # nil.
CrewStops == asked \/ refusal

\* The producer's select: a worker that waits takes the next chunk, and once
\* computeCtx is done the chunk may go to nobody.
Deal(w) ==
    /\ point = "dealing" /\ dealt < ChunkCount
    /\ task[w] = AtRest
    /\ dealt' = dealt + 1
    /\ task' = [task EXCEPT ![w] = Received(dealt + 1)]
    /\ UNCHANGED <<poolCase, point, chunkResult, asked, refusal, poolReport, answer>>

DealToNobody ==
    /\ point = "dealing" /\ dealt < ChunkCount /\ CrewStops
    /\ dealt' = dealt + 1
    /\ UNCHANGED <<poolCase, point, task, chunkResult, asked, refusal, poolReport, answer>>

\* A worker drops what it is dealt once computeCtx is done, and else walks it.
TakeUp(w) ==
    /\ task[w].chunk # 0 /\ task[w].at = 0
    /\ task' = [task EXCEPT ![w] = IF CrewStops THEN AtRest
                                 ELSE Before(task[w].chunk, From(task[w].chunk))]
    /\ UNCHANGED <<poolCase, point, dealt, chunkResult, asked, refusal, poolReport, answer>>

\* A walk ends: in the pool as a chunk's result, which cancels computeCtx if it is
\* a refusal; alone as the answer.
EndWalk(w, said) ==
    /\ task' = [task EXCEPT ![w] = AtRest]
    /\ chunkResult' = [chunkResult EXCEPT ![task[w].chunk] = said]
    /\ refusal' = (refusal \/ said.is # "computed")
    /\ IF Pooled THEN UNCHANGED <<point, answer>> ELSE AnswersWith(said)

NextReceiverOfTheCrew(w) ==     \* mutant: the walk heeds computeCtx
    LET r == task[w].at IN
    /\ r # 0 /\ ~task[w].inside
    /\ IF CrewStops THEN EndWalk(w, WalkCancelled)
       ELSE IF r \in trouble.refused THEN EndWalk(w, RefusesReceiver(r))
       ELSE IF trouble.scene /\ ~Pooled THEN EndWalk(w, RefusesScene)
       ELSE /\ task' = [task EXCEPT ![w] = Inside(task[w].chunk, r)]
            /\ UNCHANGED <<point, chunkResult, refusal, answer>>
    /\ UNCHANGED <<poolCase, dealt, asked, poolReport>>

\* computeReceivers, before a receiver: the context, its own checks, and the
\* scene, unless the pool has prepared it.  The context is the caller's.
NextReceiver(w) ==
    LET r == task[w].at IN
    /\ r # 0 /\ ~task[w].inside
    /\ IF asked THEN EndWalk(w, WalkCancelled)
       ELSE IF r \in trouble.refused THEN EndWalk(w, RefusesReceiver(r))
       ELSE IF trouble.scene /\ ~Pooled THEN EndWalk(w, RefusesScene)
       ELSE /\ task' = [task EXCEPT ![w] = Inside(task[w].chunk, r)]
            /\ UNCHANGED <<point, chunkResult, refusal, answer>>
    /\ UNCHANGED <<poolCase, dealt, asked, poolReport>>

\* Inside a receiver the walk heeds the context before every Teilstueck, and then
\* refuses a car park that cannot be.
LeaveReceiver(w) ==
    /\ task[w].inside
    /\ \/ asked /\ EndWalk(w, WalkCancelled)
       \/ trouble.lot /\ EndWalk(w, RefusesLot)
    /\ UNCHANGED <<poolCase, dealt, asked, poolReport>>

ReportsSeldom(done) ==     \* mutant: the last report is throttled too
    \/ UNCHANGED <<reported, filed>>
    \/ reported' = done /\ filed' \in {filed, done}

\* runProgress.report, under the counter's lock and its own: the last report is
\* written always, another once a second, and a failure to write the file is
\* swallowed.
Reports(done) ==
    \/ done < Count /\ UNCHANGED <<reported, filed>>
    \/ reported' = done /\ filed' \in {filed, done}

\* A level is appended and counted; after the chunk's last it is the result.
LevelOf(w) ==
    LET c == task[w].chunk
        r == task[w].at
    IN  /\ task[w].inside /\ ~trouble.lot
        /\ counted' = counted + 1
        /\ Reports(counted + 1)
        /\ IF r = To(c) THEN EndWalk(w, Computed(Through(From(c), r)))
           ELSE /\ task' = [task EXCEPT ![w] = Before(c, r + 1)]
                /\ UNCHANGED <<point, chunkResult, refusal, answer>>
        /\ UNCHANGED <<poolCase, dealt, asked>>

Failed == {c \in Chunks : chunkResult[c].is \notin {"computed", "never run"}}
LowestFailed == CHOOSE c \in Failed : \A d \in Failed : c <= d
AllLevels == FlattenSeq([c \in Chunks |-> chunkResult[c].table])

\* collectChunks, once every chunk is dealt and every worker has ended.
Collect ==
    /\ point = "dealing" /\ dealt = ChunkCount
    /\ \A w \in Walkers : task[w] = AtRest
    /\ AnswersWith(
          IF asked THEN WalkCancelled
          ELSE IF Failed # {} THEN chunkResult[LowestFailed]
          ELSE IF \E c \in Chunks : chunkResult[c].is = "never run" THEN NeverRun
          ELSE Computed(AllLevels))
    /\ UNCHANGED <<poolCase, dealt, task, chunkResult, asked, refusal, poolReport>>

WalkerStep(w) == Deal(w) \/ TakeUp(w) \/ NextReceiver(w) \/ LeaveReceiver(w) \/ LevelOf(w)

PoolNext ==
    \/ AskToStop \/ WalkAlone \/ OpenPool \/ Prepare \/ DealToNobody \/ Collect
    \/ \E w \in Walkers : WalkerStep(w)

PoolSpec == PoolInit /\ [][PoolNext]_poolVars

-----------------------------------------------------------------------------
Answers == [is : {"computed", "receiver", "scene", "car park", "cancelled", "never run"},
            at : 0..Count, table : Seq(Receivers)]

PoolTypeOK ==
    /\ trouble \in Inputs /\ crew \in CrewSizes
    /\ point \in {"new", "walking", "preparing", "dealing", "ended"}
    /\ dealt \in 0..ChunkCount
    /\ task \in [Walkers -> [chunk : 0..ChunkCount, at : 0..Count, inside : BOOLEAN]]
    /\ chunkResult \in [Chunks -> Answers] /\ answer \in Answers
    /\ asked \in BOOLEAN /\ refusal \in BOOLEAN
    /\ counted \in 0..Count /\ reported \in 0..Count /\ filed \in 0..Count

\* ComputeReceiverOutputsContext when nobody stops it: receiver by receiver, its
\* own checks, the scene before the first, its levels and then the car parks.
SequentialWalk ==
    IF 1 \in trouble.refused THEN RefusesReceiver(1)
    ELSE IF trouble.scene THEN RefusesScene
    ELSE IF trouble.lot THEN RefusesLot
    ELSE IF trouble.refused # {} THEN RefusesReceiver(FirstRefused)
    ELSE Computed(Through(1, Count))

\* The one order the pool does not keep: it checks every receiver before any is
\* walked, and a car park is refused by the walk of the first.
LotGivesWay == Pooled /\ trouble.lot /\ ~trouble.scene /\ trouble.refused # {}

\* Whichever workers, in whatever order they take, drop and end chunks: the
\* caller is answered as by the sequential walk, unless it stopped the walk
\* itself; never with a short table or one out of order.
AnswerIsTheSequentialWalks ==
    point = "ended" =>
       \/ answer = SequentialWalk
       \/ asked /\ answer = WalkCancelled
       \/ LotGivesWay /\ answer = RefusesReceiver(FirstRefused)

\* What the run reports is never ahead of the walkers and never goes back, and a
\* walk that succeeds has reported its last receiver.
ReportsKeepUp ==
    [][/\ reported' \in reported..counted' /\ filed' \in filed..reported'
       /\ answer'.is = "computed" => reported' = Count]_poolVars
=============================================================================
