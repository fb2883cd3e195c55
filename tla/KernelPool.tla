----------------------------- MODULE KernelPool -----------------------------
(***************************************************************************)
(* The kernel workers of one browser tab (wasm/kernel.ts) and the runs that *)
(* compute on them (startRun and runRLS19Road of api/browser-backend.ts).  *)
(* One worker is the tab's kernel; a run grows it by extra workers for its *)
(* shards and releases them when it is done.  A worker computes on its only *)
(* thread, so a run is cancelled by terminating it.                        *)
(*                                                                         *)
(* A load spawns one worker, and both go by one number.  A call is pending *)
(* as long as the run stands where it made it: the worker answers it, or   *)
(* is dead and the call is rejected.                                       *)
(***************************************************************************)
EXTENDS Naturals, FiniteSets

CONSTANTS Runs,        \* the runs users of the tab start, in any number at once
          NoRun,       \* the holder of the store's lock when no run holds it
          Extras,      \* workers a pool grows by
          MaxWorkers,  \* bound: workers spawned
          MaxLosses    \* bound: workers that fail to start or stop by themselves

ASSUME KernelAssumption ==
    /\ NoRun \notin Runs
    /\ Extras \in Nat /\ MaxWorkers \in Nat /\ MaxLosses \in Nat

VARIABLES
    worker,      \* what has become of each worker
    kernel,      \* kernelPromise: the load it is of, 0 for none
    warm,        \* the loads cancelKernel started, whose failure nobody handles
    active,      \* activeClient: the worker a cancel terminates, 0 for none
    poolExtras,  \* the workers a pool holds
    generation,  \* poolGeneration
    phase,       \* where each run stands
    client,      \* the kernel each run was given
    awaited,     \* the workers it still waits for
    grown,       \* the extras it started
    since,       \* the generation it started to grow its pool in
    aborted,     \* the runs whose signal is aborted
    computing,   \* the holder of the store's lock
    losses,
    overtaken    \* history: loads the promise was taken from in flight

kernelVars == <<worker, kernel, warm, active, poolExtras, generation, phase, client,
                awaited, grown, since, aborted, computing, losses, overtaken>>
workerVars == <<worker, kernel, warm, active, poolExtras, generation, losses, overtaken>>
runVars == <<client, awaited, grown, since>>

Workers == 1..MaxWorkers
Alive == {w \in Workers : worker[w] \in {"starting", "ready"}}

\* A run between addEventListener and removeEventListener: an abort reaches it.
Listening == {"prepare", "waiting", "growing", "whole", "shards", "computed", "saving"}

KernelInit ==
    /\ worker = [w \in Workers |-> "none"]
    /\ kernel = 0 /\ warm = {} /\ active = 0
    /\ poolExtras = {} /\ generation = 0
    /\ phase = [r \in Runs |-> "idle"]
    /\ client = [r \in Runs |-> 0]
    /\ awaited = [r \in Runs |-> {}] /\ grown = [r \in Runs |-> {}]
    /\ since = [r \in Runs |-> 0]
    /\ aborted = {} /\ computing = NoRun
    /\ losses = 0 /\ overtaken = {}

-----------------------------------------------------------------------------
(* Workers.                                                                *)

\* The workers spawned next, and what becomes of the others.
Fresh(n) == {w \in Workers : worker[w] = "none"
                               /\ Cardinality({v \in 1..w : worker[v] = "none"}) <= n}
Changes(spawned, terminated) ==
    worker' = [w \in Workers |-> IF w \in terminated THEN "dead"
                                 ELSE IF w \in spawned THEN "starting" ELSE worker[w]]

\* A load whose promise is dropped or replaced before it has settled.
Overtakes == overtaken' = overtaken \cup {w \in {kernel} \ {0} : worker[w] = "starting"}

\* releasePoolExtras: every extra is terminated, and a pool being started learns it.
ReleasesExtras == poolExtras' = {} /\ generation' = generation + 1

\* connectKernel answers: loadKernel makes the worker the active one, whatever
\* has become of the promise meanwhile.
KernelReady(w) ==
    /\ worker[w] = "starting"
    /\ \A r \in Runs : w \notin grown[r]
    /\ worker' = [worker EXCEPT ![w] = "ready"]
    /\ active' = w
    /\ UNCHANGED <<kernel, warm, poolExtras, generation, losses, overtaken, phase, runVars,
                   aborted, computing>>

\* An extra is started, for the run that grows its pool.
ExtraReady(w) ==
    /\ worker[w] = "starting"
    /\ \E r \in Runs : w \in grown[r]
    /\ worker' = [worker EXCEPT ![w] = "ready"]
    /\ awaited' = [r \in Runs |-> awaited[r] \ {w}]
    /\ UNCHANGED <<kernel, warm, active, poolExtras, generation, losses, overtaken, phase,
                   client, grown, since, aborted, computing>>

LostKept(w) ==    \* mutant: the promise of a lost kernel is kept
    /\ w \in Alive /\ losses < MaxLosses
    /\ losses' = losses + 1
    /\ worker' = [worker EXCEPT ![w] = "dead"]
    /\ active' = IF active = w THEN 0 ELSE active
    /\ UNCHANGED <<kernel, warm, poolExtras, generation, overtaken, phase, runVars, aborted,
                   computing>>

\* A worker stops by itself.  A load getKernel started and that fails clears the
\* promise if it is still its own, one cancelKernel started leaves it; a lost
\* kernel clears it with the client, if it is the active one (releaseLostKernel).
Lost(w) ==
    /\ w \in Alive /\ losses < MaxLosses
    /\ losses' = losses + 1
    /\ worker' = [worker EXCEPT ![w] = "dead"]
    /\ active' = IF active = w THEN 0 ELSE active
    /\ \/ /\ active = w
          /\ kernel' = 0
          /\ IF kernel = w THEN UNCHANGED overtaken ELSE Overtakes
       \/ /\ active # w
          /\ kernel' = IF kernel = w /\ w \notin warm /\ worker[w] = "starting"
                       THEN 0 ELSE kernel
          /\ UNCHANGED overtaken
    /\ UNCHANGED <<warm, poolExtras, generation, phase, runVars, aborted, computing>>

CancelsDeaf ==   \* mutant: the cancel leaves the extras to themselves
    /\ \E spawned \in {Fresh(1), {}} :
          /\ spawned = {} <=> kernel = 0
          /\ Changes(spawned, {active} \ {0})
          /\ kernel' = IF spawned = {} THEN 0 ELSE CHOOSE w \in spawned : TRUE
          /\ warm' = warm \cup spawned
    /\ active' = 0
    /\ Overtakes
    /\ UNCHANGED <<poolExtras, generation, losses>>

\* cancelKernel: the active worker and the extras are terminated, and a kernel
\* that was loaded or loading is replaced at once.
Cancels ==
    /\ \E spawned \in {Fresh(1), {}} :
          /\ spawned = {} <=> kernel = 0
          /\ Changes(spawned, ({active} \ {0}) \cup poolExtras)
          /\ kernel' = IF spawned = {} THEN 0 ELSE CHOOSE w \in spawned : TRUE
          /\ warm' = warm \cup spawned
    /\ active' = 0
    /\ ReleasesExtras
    /\ Overtakes
    /\ UNCHANGED losses

-----------------------------------------------------------------------------
(* A run.                                                                  *)

Goes(r, there) == phase' = [phase EXCEPT ![r] = there]

\* The promise of the run settles: the listener is removed, the lock given up.
Settles(r, how) ==
    /\ Goes(r, how)
    /\ computing' = IF computing = r THEN NoRun ELSE computing
    /\ client' = [client EXCEPT ![r] = 0]
    /\ awaited' = [awaited EXCEPT ![r] = {}]
    /\ grown' = [grown EXCEPT ![r] = {}]
    /\ since' = [since EXCEPT ![r] = 0]

\* startRun and getKernel: a load is started when there is none.
StartRun(r) ==
    /\ phase[r] = "idle" /\ r \notin aborted
    /\ Goes(r, "loading")
    /\ IF kernel # 0
       THEN /\ client' = [client EXCEPT ![r] = kernel]
            /\ UNCHANGED <<worker, kernel>>
       ELSE \E w \in Fresh(1) :
            /\ Changes({w}, {})
            /\ kernel' = w
            /\ client' = [client EXCEPT ![r] = w]
    /\ UNCHANGED <<warm, active, poolExtras, generation, losses, overtaken, awaited,
                   grown, since, aborted, computing>>

\* The load settles.  A run aborted meanwhile ends here; any other listens from now.
Loaded(r) ==
    /\ phase[r] = "loading" /\ worker[client[r]] # "starting"
    /\ IF worker[client[r]] = "dead" \/ r \in aborted
       THEN Settles(r, "failed")
       ELSE Goes(r, "prepare") /\ UNCHANGED <<runVars, computing>>
    /\ UNCHANGED <<workerVars, aborted>>

\* The calls that prepare the request: projection, footprints, receivers.
Prepared(r) ==
    /\ phase[r] = "prepare"
    /\ \/ /\ worker[client[r]] = "ready"
          /\ Goes(r, "waiting") /\ UNCHANGED <<runVars, computing>>
       \/ Settles(r, "failed")
    /\ UNCHANGED <<workerVars, aborted>>

\* withStoreLock is granted.  A large run grows a pool, a small one does not.
Granted(r) ==
    /\ phase[r] = "waiting" /\ computing = NoRun
    /\ computing' = r
    /\ \/ /\ Goes(r, "whole")
          /\ UNCHANGED <<runVars, worker>>
       \/ /\ Extras > 0 /\ Cardinality(Fresh(Extras)) = Extras
          /\ Goes(r, "growing")
          /\ Changes(Fresh(Extras), {})
          /\ grown' = [grown EXCEPT ![r] = Fresh(Extras)]
          /\ awaited' = [awaited EXCEPT ![r] = Fresh(Extras)]
          /\ since' = [since EXCEPT ![r] = generation]
          /\ UNCHANGED client
    /\ UNCHANGED <<kernel, warm, active, poolExtras, generation, losses, overtaken, aborted>>

\* growPool settles.  A worker that failed, or a release meanwhile, ends the pool,
\* and the run falls back to its kernel; otherwise the shards are posted, and a
\* kernel that is dead rejects its own in the same turn.
Grown(r) ==
    /\ phase[r] = "growing"
    /\ \A w \in awaited[r] : worker[w] = "dead"
    /\ \/ /\ awaited[r] # {} \/ generation # since[r]
          /\ Goes(r, "whole")
          /\ Changes({}, grown[r])
          /\ awaited' = [awaited EXCEPT ![r] = {}]
          /\ grown' = [grown EXCEPT ![r] = {}]
          /\ UNCHANGED <<poolExtras, generation, client, since, computing>>
       \/ /\ awaited[r] = {} /\ generation = since[r]
          /\ worker[client[r]] = "ready"
          /\ Goes(r, "shards")
          /\ poolExtras' = poolExtras \cup grown[r]
          /\ awaited' = [awaited EXCEPT ![r] = grown[r] \cup {client[r]}]
          /\ UNCHANGED <<worker, generation, client, grown, since, computing>>
       \/ /\ awaited[r] = {} /\ generation = since[r]
          /\ worker[client[r]] = "dead"
          /\ Settles(r, "failed")
          /\ Changes({}, poolExtras \cup grown[r])
          /\ ReleasesExtras
    /\ UNCHANGED <<kernel, warm, active, losses, overtaken, aborted>>

\* A shard is answered.
Answered(r, w) ==
    /\ phase[r] = "shards" /\ w \in awaited[r] /\ worker[w] = "ready"
    /\ awaited' = [awaited EXCEPT ![r] = @ \ {w}]
    /\ UNCHANGED <<workerVars, phase, client, grown, since, aborted, computing>>

\* computeOverPool leaves its shards, by the last answer or the first rejection,
\* and the extras are released either way.
LeaveShards(r) ==
    /\ phase[r] = "shards"
    /\ \/ /\ awaited[r] = {}
          /\ Goes(r, "computed")
          /\ grown' = [grown EXCEPT ![r] = {}]
          /\ UNCHANGED <<client, awaited, since, computing>>
       \/ /\ \E w \in awaited[r] : worker[w] \in {"ready", "dead"}
          /\ Settles(r, "failed")
    /\ Changes({}, poolExtras)
    /\ ReleasesExtras
    /\ UNCHANGED <<kernel, warm, active, losses, overtaken, aborted>>

WholeUnrejected(r) ==    \* mutant: a cancel rejects no pending call
    /\ phase[r] = "whole" /\ worker[client[r]] = "ready"
    /\ \/ Goes(r, "computed") /\ UNCHANGED <<runVars, computing>>
       \/ Settles(r, "failed")
    /\ UNCHANGED <<workerVars, aborted>>

\* The whole run on the kernel: answered, refused, or rejected with its worker.
Whole(r) ==
    /\ phase[r] = "whole"
    /\ \/ /\ worker[client[r]] = "ready"
          /\ Goes(r, "computed") /\ UNCHANGED <<runVars, computing>>
       \/ Settles(r, "failed")
    /\ UNCHANGED <<workerVars, aborted>>

\* The results are saved, the raster first: an abort is looked for before and after.
Save(r) ==
    /\ \/ /\ phase[r] = "computed" /\ r \notin aborted
          /\ Goes(r, "saving") /\ UNCHANGED <<runVars, computing>>
       \/ /\ phase[r] = "saving" /\ r \notin aborted
          /\ Settles(r, "stored")
       \/ /\ phase[r] \in {"computed", "saving"} /\ r \in aborted
          /\ Settles(r, "failed")
    /\ UNCHANGED <<workerVars, aborted>>

\* The user cancels: the signal is aborted, and a run that listens to it cancels
\* the tab's kernel.
Abort(r) ==
    /\ phase[r] \in Listening \cup {"loading"} /\ r \notin aborted
    /\ aborted' = aborted \cup {r}
    /\ IF phase[r] \in Listening THEN Cancels ELSE UNCHANGED workerVars
    /\ UNCHANGED <<phase, runVars, computing>>

-----------------------------------------------------------------------------
\* What happens by itself once a run is started.
RunStep(r) ==
    \/ Loaded(r) \/ Prepared(r) \/ Granted(r) \/ Grown(r)
    \/ \E w \in Workers : Answered(r, w)
    \/ LeaveShards(r) \/ Whole(r) \/ Save(r)

KernelNext ==
    \/ \E r \in Runs : StartRun(r) \/ RunStep(r) \/ Abort(r)
    \/ \E w \in Workers : KernelReady(w) \/ ExtraReady(w) \/ Lost(w)

\* A worker starts or fails to, a call is answered while its worker lives, and a
\* promise that can settle does.  Nobody has to start a run or cancel it.
KernelFairness ==
    /\ \A r \in Runs : WF_kernelVars(RunStep(r))
    /\ \A w \in Workers : WF_kernelVars(KernelReady(w) \/ ExtraReady(w))

KernelSpec == KernelInit /\ [][KernelNext]_kernelVars /\ KernelFairness

-----------------------------------------------------------------------------
(* Safety.                                                                 *)

KernelTypeOK ==
    /\ worker \in [Workers -> {"none", "starting", "ready", "dead"}]
    /\ kernel \in {0} \cup Workers /\ warm \subseteq Workers
    /\ active \in {0} \cup Workers
    /\ poolExtras \subseteq Workers /\ generation \in Nat
    /\ phase \in [Runs -> Listening \cup {"idle", "loading", "stored", "failed"}]
    /\ client \in [Runs -> {0} \cup Workers]
    /\ awaited \in [Runs -> SUBSET Workers] /\ grown \in [Runs -> SUBSET Workers]
    /\ since \in [Runs -> Nat]
    /\ aborted \subseteq Runs /\ computing \in Runs \cup {NoRun}
    /\ losses \in 0..MaxLosses /\ overtaken \subseteq Workers

\* Every live worker is the tab's kernel or an extra some run is about to release,
\* and the kernel the next run is given is alive: no cancel, lost worker or failed
\* pool leaves a worker nobody will terminate, or a dead one in the promise.  It is
\* lost only after a load was overtaken, by a cancel or a loss before it had
\* settled, or when the load a cancel started fails.
OnlyAnOvertakenLoadLeaks ==
    overtaken = {} =>
        /\ Alive \subseteq {kernel} \cup UNION {grown[r] : r \in Runs}
        /\ kernel = 0 \/ kernel \in Alive \cup warm

\* When the user cancels a run nothing computes for it any more: its kernel is
\* terminated, and so is every extra that has one of its shards.  It holds while
\* no load was overtaken; a worker that was lost sight of computes on.
CancelStopsTheRun ==
    \A r \in aborted :
        overtaken = {} /\ phase[r] \in {"prepare", "waiting", "whole", "shards"} =>
            worker[client[r]] = "dead" /\ \A w \in grown[r] : worker[w] = "dead"

-----------------------------------------------------------------------------
(* Liveness.                                                               *)

\* Every run that is started is stored or fails, and the lock with it: a cancelled,
\* lost or overtaken worker leaves no promise of a run unsettled.
EveryRunEnds ==
    \A r \in Runs : phase[r] = "loading" ~> phase[r] \in {"stored", "failed"}

-----------------------------------------------------------------------------
(* What a comment says and the code does not keep.                         *)

\* getKernel: "A kernel that failed to load must not be the answer for the rest of
\* the session".
FailedLoadIsNotTheAnswer == kernel # 0 => worker[kernel] # "dead"

=============================================================================
