-------------------------- MODULE KernelPool_proofs --------------------------
(***************************************************************************)
(* Proofs about KernelPool, for any runs, extras, workers and losses.      *)
(***************************************************************************)
EXTENDS KernelPool, FiniteSetTheorems, TLAPS

LEMMA KernelConstants ==
    NoRun \notin Runs /\ Extras \in Nat /\ MaxWorkers \in Nat /\ MaxLosses \in Nat
  BY KernelAssumption

-----------------------------------------------------------------------------
(* The invariant.                                                          *)

\* Whatever is referred to has been spawned.
AllSpawned ==
    /\ kernel # 0 => worker[kernel] # "none"
    /\ \A w \in poolExtras : worker[w] # "none"
    /\ \A r \in Runs : \A w \in grown[r] : worker[w] # "none"
    /\ \A r \in Runs : client[r] # 0 => worker[client[r]] # "none"

\* No extra is a kernel, of the tab or of a run.
Apart ==
    /\ kernel \notin poolExtras
    /\ \A r \in Runs : kernel \notin grown[r]
    /\ \A r, s \in Runs : client[r] \notin grown[s]

\* Only the run that holds the store's lock has extras.
OneAtATime ==
    \A r \in Runs :
        /\ grown[r] # {} => phase[r] \in {"growing", "shards"}
        /\ phase[r] \in {"growing", "whole", "shards", "computed", "saving"} =>
              computing = r

\* A run has a kernel from its start, and one that has been loaded from when it
\* listens.
Served ==
    \A r \in Runs :
        /\ phase[r] \in Listening \cup {"loading"} => client[r] # 0
        /\ phase[r] \in Listening => worker[client[r]] \in {"ready", "dead"}

\* While shards are computed their extras are in the pool a cancel terminates.
Pooled ==
    \A r \in Runs :
        phase[r] = "shards" => \A w \in grown[r] : w \in poolExtras \/ worker[w] = "dead"

Sound == KernelTypeOK /\ AllSpawned /\ Apart /\ OneAtATime /\ Served /\ Pooled

\* Nobody holds a worker in secret: a live one is the kernel or an extra.
LiveAreHeld == Alive \subseteq {kernel} \cup UNION {grown[r] : r \in Runs}

KernelIsLive == kernel = 0 \/ kernel \in Alive \cup warm

\* A cancel terminates the kernel, if it is ready, and no other worker.
ActiveIsTheKernel ==
    /\ active # 0 => active = kernel
    /\ kernel # 0 /\ worker[kernel] = "ready" => active = kernel

\* The kernel of a run is the tab's, or dead.
ClientsAreTheKernel ==
    \A r \in Runs : client[r] # 0 => worker[client[r]] = "dead" \/ client[r] = kernel

\* Nothing computes for a run that was cancelled.
Stopped ==
    \A r \in aborted :
        /\ phase[r] \in Listening => worker[client[r]] = "dead"
        /\ phase[r] = "shards" => \A w \in grown[r] : worker[w] = "dead"

\* The inductive invariant: orderly as long as no load was overtaken.
Orderly ==
    LiveAreHeld /\ KernelIsLive /\ ActiveIsTheKernel /\ ClientsAreTheKernel /\ Stopped

KernelInv == Sound /\ (overtaken = {} => Orderly)

-----------------------------------------------------------------------------
(* Workers.                                                                *)

LEMMA FreshAreNew ==
    ASSUME NEW n PROVE Fresh(n) \subseteq {w \in Workers : worker[w] = "none"}
  BY DEF Fresh

\* A single load spawns a single worker.
LEMMA FreshIsOne ==
    ASSUME NEW a \in Fresh(1), NEW b \in Fresh(1) PROVE a = b
<1> DEFINE New(w) == {v \in 1..w : worker[v] = "none"}
<1>1. ASSUME NEW c \in Fresh(1), NEW d \in Fresh(1), c < d PROVE FALSE
  <2>1. c \in Nat /\ d \in Nat /\ c \in 1..d /\ d \in 1..d
    BY <1>1, KernelConstants DEF Fresh, Workers
  <2>2. worker[c] = "none" /\ worker[d] = "none" /\ Cardinality(New(d)) <= 1
    BY DEF Fresh
  <2>3. IsFiniteSet(New(d)) /\ Cardinality(New(d)) \in Nat
    <3>1. IsFiniteSet(1..d)
      BY <2>1, FS_Interval
    <3>2. New(d) \subseteq 1..d
      OBVIOUS
    <3>3. IsFiniteSet(New(d))
      BY <3>1, <3>2, FS_Subset
    <3>4. QED
      BY <3>3, FS_CardinalityType
  <2>4. {c, d} \subseteq New(d)
    BY <2>1, <2>2
  <2>5. Cardinality({c, d}) <= Cardinality(New(d))
    BY <2>3, <2>4, FS_Subset
  <2>6. Cardinality({c, d}) = 2
    <3>1. Cardinality({c}) = 1 /\ IsFiniteSet({c})
      BY FS_Singleton
    <3>2. Cardinality({c} \cup {d}) = Cardinality({c}) + 1
      BY <3>1, <2>1, <1>1, FS_AddElement
    <3>3. {c} \cup {d} = {c, d}
      OBVIOUS
    <3>4. QED
      BY <3>1, <3>2, <3>3
  <2>7. QED
    BY <2>2, <2>3, <2>5, <2>6
<1>2. a \in Int /\ b \in Int
  BY KernelConstants DEF Fresh, Workers
<1>3. CASE a < b
  BY <1>1, <1>3
<1>4. CASE b < a
  BY <1>1, <1>4
<1>5. QED
  BY <1>2, <1>3, <1>4

\* What no step undoes.
Ages ==
    /\ worker' \in [Workers -> {"none", "starting", "ready", "dead"}]
    /\ \A w \in Workers :
          /\ worker[w] # "none" => worker'[w] # "none"
          /\ worker[w] = "dead" => worker'[w] = "dead"
          /\ worker[w] = "ready" => worker'[w] \in {"ready", "dead"}

LEMMA ChangesAge ==
    ASSUME KernelTypeOK, NEW spawned, NEW terminated, Changes(spawned, terminated),
           spawned \subseteq {w \in Workers : worker[w] = "none"}
    PROVE  Ages
  BY DEF KernelTypeOK, Changes, Ages

-----------------------------------------------------------------------------
(* Steps of a run that go on, and that settle it.                          *)

LEMMA AdvancedSound ==
    ASSUME Sound, NEW r \in Runs, NEW there \in Listening \ {"growing", "shards"},
           Goes(r, there), phase[r] \in Listening \cup {"loading"}, grown[r] = {},
           worker[client[r]] \in {"ready", "dead"},
           there \in {"prepare", "waiting"} \/ computing = r,
           UNCHANGED <<workerVars, runVars, aborted, computing>>
    PROVE  Sound'
<1> USE DEF Sound, workerVars, runVars
<1>0. phase' = [phase EXCEPT ![r] = there] /\ phase \in [Runs -> Listening \cup {"idle", "loading", "stored", "failed"}]
  BY DEF Goes, KernelTypeOK
<1>1. KernelTypeOK'
  <2>1. phase' \in [Runs -> Listening \cup {"idle", "loading", "stored", "failed"}]
    BY <1>0
  <2>2. QED
    BY <2>1 DEF KernelTypeOK
<1>2. AllSpawned'
  BY DEF AllSpawned
<1>3. Apart'
  BY DEF Apart
<1>4. OneAtATime'
  BY <1>0 DEF OneAtATime, Listening
<1>5. Served'
  BY <1>0 DEF Served, Listening
<1>6. Pooled'
  BY <1>0 DEF Pooled, Listening
<1>7. QED
  BY <1>1, <1>2, <1>3, <1>4, <1>5, <1>6

\* The extras of a run that settles are released, or it has none.
LEMMA SettledSound ==
    ASSUME Sound, NEW r \in Runs, NEW how \in {"stored", "failed"}, Settles(r, how), Ages,
           UNCHANGED <<kernel, warm, active, aborted, losses, overtaken>>,
           \/ UNCHANGED <<poolExtras, generation>>
           \/ ReleasesExtras /\ computing = r
    PROVE  Sound'
<1> USE KernelConstants DEF Sound
<1>0. /\ phase' = [phase EXCEPT ![r] = how]
      /\ computing' = IF computing = r THEN NoRun ELSE computing
      /\ client' = [client EXCEPT ![r] = 0]
      /\ awaited' = [awaited EXCEPT ![r] = {}]
      /\ grown' = [grown EXCEPT ![r] = {}]
      /\ since' = [since EXCEPT ![r] = 0]
  BY DEF Settles, Goes
<1>00. /\ phase \in [Runs -> Listening \cup {"idle", "loading", "stored", "failed"}]
       /\ client \in [Runs -> {0} \cup Workers]
       /\ awaited \in [Runs -> SUBSET Workers] /\ grown \in [Runs -> SUBSET Workers]
       /\ since \in [Runs -> Nat] /\ computing \in Runs \cup {NoRun}
       /\ poolExtras \subseteq Workers /\ generation \in Nat
       /\ kernel \in {0} \cup Workers /\ active \in {0} \cup Workers
       /\ warm \subseteq Workers /\ overtaken \subseteq Workers
       /\ aborted \subseteq Runs /\ losses \in 0..MaxLosses
  BY DEF KernelTypeOK
<1>p. poolExtras' \subseteq poolExtras /\ generation' \in Nat
  BY <1>00 DEF ReleasesExtras
<1>1. KernelTypeOK'
  <2>1. phase' \in [Runs -> Listening \cup {"idle", "loading", "stored", "failed"}]
    BY <1>0, <1>00
  <2>2. /\ client' \in [Runs -> {0} \cup Workers]
        /\ awaited' \in [Runs -> SUBSET Workers] /\ grown' \in [Runs -> SUBSET Workers]
    BY <1>0, <1>00
  <2>3. since' \in [Runs -> Nat] /\ computing' \in Runs \cup {NoRun}
    BY <1>0, <1>00
  <2>4. QED
    BY <1>00, <1>p, <2>1, <2>2, <2>3 DEF KernelTypeOK, Ages
<1>2. AllSpawned'
  BY <1>0, <1>00, <1>p DEF AllSpawned, Ages
<1>3. Apart'
  <2>1. kernel' \notin poolExtras'
    BY <1>p DEF Apart
  <2>2. \A s \in Runs : grown'[s] \subseteq grown[s] /\ client'[s] \in {0, client[s]}
    BY <1>0, <1>00
  <2>3. 0 \notin Workers
    BY DEF Workers
  <2>4. \A s \in Runs : 0 \notin grown[s]
    BY <1>00, <2>3
  <2>5. QED
    BY <2>1, <2>2, <2>4 DEF Apart
<1>4. OneAtATime'
  BY <1>0, <1>00 DEF OneAtATime
<1>5. Served'
  <2> SUFFICES ASSUME NEW s \in Runs
               PROVE  /\ phase'[s] \in Listening \cup {"loading"} => client'[s] # 0
                      /\ phase'[s] \in Listening => worker'[client'[s]] \in {"ready", "dead"}
    BY DEF Served
  <2>1. CASE s = r
    BY <2>1, <1>0, <1>00 DEF Listening
  <2>2. CASE s # r
    <3>1. phase'[s] = phase[s] /\ client'[s] = client[s] /\ client[s] \in {0} \cup Workers
      BY <2>2, <1>0, <1>00
    <3>2. QED
      BY <3>1 DEF Served, Ages
  <2>3. QED
    BY <2>1, <2>2
<1>6. Pooled'
  <2> SUFFICES ASSUME NEW s \in Runs, phase'[s] = "shards", NEW w \in grown'[s]
               PROVE  w \in poolExtras' \/ worker'[w] = "dead"
    BY DEF Pooled
  <2>1. s # r
    BY <1>0, <1>00
  <2>2. phase[s] = "shards" /\ w \in grown[s] /\ w \in Workers
    BY <2>1, <1>0, <1>00
  <2>3. computing = s
    BY <2>2 DEF OneAtATime
  <2>4. poolExtras' = poolExtras
    BY <2>1, <2>3
  <2>5. QED
    BY <2>2, <2>4 DEF Pooled, Ages
<1>7. QED
  BY <1>1, <1>2, <1>3, <1>4, <1>5, <1>6

-----------------------------------------------------------------------------
(* Every step keeps Sound.                                                 *)

LEMMA KernelReadySound ==
    ASSUME Sound, NEW w \in Workers, KernelReady(w) PROVE Sound'
<1> USE DEF Sound, KernelReady, runVars
<1>1. KernelTypeOK'
  BY DEF KernelTypeOK
<1>2. AllSpawned'
  BY DEF AllSpawned, KernelTypeOK
<1>3. Apart'
  BY DEF Apart
<1>4. OneAtATime'
  BY DEF OneAtATime
<1>5. Served'
  BY DEF Served, KernelTypeOK
<1>6. Pooled'
  BY DEF Pooled, KernelTypeOK
<1>7. QED
  BY <1>1, <1>2, <1>3, <1>4, <1>5, <1>6

LEMMA ExtraReadySound ==
    ASSUME Sound, NEW w \in Workers, ExtraReady(w) PROVE Sound'
<1> USE DEF Sound, ExtraReady
<1>1. KernelTypeOK'
  BY DEF KernelTypeOK
<1>2. AllSpawned'
  BY DEF AllSpawned, KernelTypeOK
<1>3. Apart'
  BY DEF Apart
<1>4. OneAtATime'
  BY DEF OneAtATime
<1>5. Served'
  BY DEF Served, KernelTypeOK
<1>6. Pooled'
  BY DEF Pooled, KernelTypeOK
<1>7. QED
  BY <1>1, <1>2, <1>3, <1>4, <1>5, <1>6

LEMMA LostSound ==
    ASSUME Sound, NEW w \in Workers, Lost(w) PROVE Sound'
<1> USE DEF Sound
<1>0. /\ worker' = [worker EXCEPT ![w] = "dead"]
      /\ kernel' \in {0, kernel}
      /\ UNCHANGED <<warm, poolExtras, generation, phase, client, awaited, grown, since,
                     aborted, computing>>
  BY DEF Lost, runVars
<1>1. KernelTypeOK'
  <2>1. losses' \in 0..MaxLosses
    BY KernelConstants DEF Lost, KernelTypeOK
  <2>2. active' \in {0} \cup Workers
    BY DEF Lost, KernelTypeOK
  <2>3. overtaken' \subseteq Workers
    BY DEF Lost, Overtakes, KernelTypeOK
  <2>4. QED
    BY <1>0, <2>1, <2>2, <2>3 DEF KernelTypeOK
<1>2. AllSpawned'
  BY <1>0 DEF AllSpawned, KernelTypeOK
<1>3. Apart'
  <2>1. 0 \notin Workers
    BY DEF Workers
  <2>2. QED
    BY <1>0, <2>1 DEF Apart, KernelTypeOK
<1>4. OneAtATime'
  BY <1>0 DEF OneAtATime
<1>5. Served'
  BY <1>0 DEF Served, KernelTypeOK
<1>6. Pooled'
  BY <1>0 DEF Pooled, KernelTypeOK
<1>7. QED
  BY <1>1, <1>2, <1>3, <1>4, <1>5, <1>6

LEMMA StartRunSound ==
    ASSUME Sound, NEW r \in Runs, StartRun(r) PROVE Sound'
<1> USE DEF Sound
<1>1. PICK w \in Workers :
         /\ \/ /\ kernel # 0 /\ w = kernel
               /\ UNCHANGED <<worker, kernel>>
            \/ /\ kernel = 0 /\ worker[w] = "none"
               /\ Changes({w}, {})
               /\ kernel' = w
         /\ client' = [client EXCEPT ![r] = w]
  BY FreshAreNew DEF StartRun, KernelTypeOK
<1>2. /\ phase[r] = "idle" /\ phase' = [phase EXCEPT ![r] = "loading"]
      /\ UNCHANGED <<warm, active, poolExtras, generation, losses, overtaken, awaited,
                     grown, since, aborted, computing>>
  BY DEF StartRun, Goes
<1>3. Ages /\ kernel' = w /\ worker'[w] # "none" /\ (worker[w] = "none" \/ kernel = w)
  <2>1. CASE kernel # 0
    BY <1>1, <2>1 DEF Ages, AllSpawned, KernelTypeOK
  <2>2. CASE kernel = 0
    <3>1. Changes({w}, {}) /\ worker[w] = "none" /\ kernel' = w
      BY <1>1, <2>2
    <3>2. Ages
      BY <3>1, ChangesAge
    <3>3. worker'[w] = "starting"
      BY <3>1 DEF Changes
    <3>4. QED
      BY <3>1, <3>2, <3>3
  <2>3. QED
    BY <2>1, <2>2
<1>4. KernelTypeOK'
  BY <1>1, <1>2, <1>3 DEF KernelTypeOK, Ages
<1>5. AllSpawned'
  BY <1>1, <1>2, <1>3 DEF AllSpawned, Ages, KernelTypeOK
<1>6. Apart'
  <2>1. w \notin poolExtras /\ \A s \in Runs : w \notin grown[s]
    BY <1>3 DEF Apart, AllSpawned
  <2>2. QED
    BY <1>1, <1>2, <1>3, <2>1 DEF Apart, KernelTypeOK
<1>7. OneAtATime'
  BY <1>2 DEF OneAtATime, KernelTypeOK
<1>8. Served'
  <2> SUFFICES ASSUME NEW s \in Runs
               PROVE  /\ phase'[s] \in Listening \cup {"loading"} => client'[s] # 0
                      /\ phase'[s] \in Listening => worker'[client'[s]] \in {"ready", "dead"}
    BY DEF Served
  <2>1. CASE s = r
    BY <2>1, <1>1, <1>2 DEF Listening, Workers, KernelTypeOK
  <2>2. CASE s # r
    <3>1. phase'[s] = phase[s] /\ client'[s] = client[s] /\ client[s] \in {0} \cup Workers
      BY <2>2, <1>1, <1>2 DEF KernelTypeOK
    <3>2. QED
      BY <3>1, <1>3 DEF Served, Ages
  <2>3. QED
    BY <2>1, <2>2
<1>9. Pooled'
  BY <1>2, <1>3 DEF Pooled, KernelTypeOK, Ages
<1>10. QED
  BY <1>4, <1>5, <1>6, <1>7, <1>8, <1>9

\* A run that has not grown a pool has no extras to lose.
LEMMA LoadedSound ==
    ASSUME Sound, NEW r \in Runs, Loaded(r) PROVE Sound'
<1>0. /\ phase[r] = "loading" /\ worker[client[r]] # "starting"
      /\ UNCHANGED <<workerVars, aborted>> /\ grown[r] = {}
      /\ client[r] \in Workers /\ worker[client[r]] \in {"ready", "dead"}
  BY DEF Loaded, Sound, OneAtATime, Served, AllSpawned, KernelTypeOK
<1>1. CASE Settles(r, "failed")
  <2>1. Ages
    BY <1>0 DEF Ages, workerVars, Sound, KernelTypeOK
  <2>2. QED
    BY <1>0, <1>1, <2>1, SettledSound DEF workerVars
<1>2. CASE Goes(r, "prepare") /\ UNCHANGED <<runVars, computing>>
  BY <1>0, <1>2, AdvancedSound DEF Listening
<1>3. QED
  BY <1>1, <1>2 DEF Loaded

LEMMA PreparedSound ==
    ASSUME Sound, NEW r \in Runs, Prepared(r) PROVE Sound'
<1>0. /\ phase[r] = "prepare" /\ UNCHANGED <<workerVars, aborted>> /\ grown[r] = {}
      /\ worker[client[r]] \in {"ready", "dead"}
  BY DEF Prepared, Sound, OneAtATime, Served, Listening
<1>1. CASE Settles(r, "failed")
  <2>1. Ages
    BY <1>0 DEF Ages, workerVars, Sound, KernelTypeOK
  <2>2. QED
    BY <1>0, <1>1, <2>1, SettledSound DEF workerVars
<1>2. CASE Goes(r, "waiting") /\ UNCHANGED <<runVars, computing>>
  BY <1>0, <1>2, AdvancedSound DEF Listening
<1>3. QED
  BY <1>1, <1>2 DEF Prepared

LEMMA WholeSound ==
    ASSUME Sound, NEW r \in Runs, Whole(r) PROVE Sound'
<1>0. /\ phase[r] = "whole" /\ UNCHANGED <<workerVars, aborted>> /\ grown[r] = {}
      /\ worker[client[r]] \in {"ready", "dead"} /\ computing = r
  BY DEF Whole, Sound, OneAtATime, Served, Listening
<1>1. CASE Settles(r, "failed")
  <2>1. Ages
    BY <1>0 DEF Ages, workerVars, Sound, KernelTypeOK
  <2>2. QED
    BY <1>0, <1>1, <2>1, SettledSound DEF workerVars
<1>2. CASE Goes(r, "computed") /\ UNCHANGED <<runVars, computing>>
  BY <1>0, <1>2, AdvancedSound DEF Listening
<1>3. QED
  BY <1>1, <1>2 DEF Whole

LEMMA SaveSound ==
    ASSUME Sound, NEW r \in Runs, Save(r) PROVE Sound'
<1>0. /\ phase[r] \in {"computed", "saving"} /\ UNCHANGED <<workerVars, aborted>>
      /\ grown[r] = {} /\ worker[client[r]] \in {"ready", "dead"} /\ computing = r
  BY DEF Save, Sound, OneAtATime, Served, Listening
<1>1. ASSUME NEW how \in {"stored", "failed"}, Settles(r, how) PROVE Sound'
  <2>1. Ages
    BY <1>0 DEF Ages, workerVars, Sound, KernelTypeOK
  <2>2. QED
    BY <1>0, <1>1, <2>1, SettledSound DEF workerVars
<1>2. CASE Goes(r, "saving") /\ UNCHANGED <<runVars, computing>>
  BY <1>0, <1>2, AdvancedSound DEF Listening
<1>3. QED
  BY <1>1, <1>2 DEF Save

LEMMA AnsweredSound ==
    ASSUME Sound, NEW r \in Runs, NEW w \in Workers, Answered(r, w) PROVE Sound'
<1> USE DEF Sound, Answered, workerVars
<1>1. KernelTypeOK'
  BY DEF KernelTypeOK
<1>2. AllSpawned'
  BY DEF AllSpawned
<1>3. Apart'
  BY DEF Apart
<1>4. OneAtATime'
  BY DEF OneAtATime
<1>5. Served'
  BY DEF Served
<1>6. Pooled'
  BY DEF Pooled
<1>7. QED
  BY <1>1, <1>2, <1>3, <1>4, <1>5, <1>6

LEMMA GrantedSound ==
    ASSUME Sound, NEW r \in Runs, Granted(r) PROVE Sound'
<1> USE DEF Sound
<1>0. /\ phase[r] = "waiting" /\ computing = NoRun /\ computing' = r
      /\ UNCHANGED <<kernel, warm, active, poolExtras, generation, losses, overtaken,
                     aborted, client>>
      /\ grown[r] = {} /\ worker[client[r]] \in {"ready", "dead"} /\ client[r] # 0
  BY DEF Granted, OneAtATime, Served, Listening, runVars
<1>a. /\ phase \in [Runs -> Listening \cup {"idle", "loading", "stored", "failed"}]
      /\ grown \in [Runs -> SUBSET Workers] /\ awaited \in [Runs -> SUBSET Workers]
      /\ since \in [Runs -> Nat] /\ generation \in Nat /\ client \in [Runs -> {0} \cup Workers]
  BY DEF KernelTypeOK
<1>b. \A s \in Runs : computing # s
  BY <1>0, KernelConstants
<1>1. CASE Goes(r, "whole") /\ UNCHANGED <<runVars, worker>>
  <2>0. phase' = [phase EXCEPT ![r] = "whole"]
        /\ UNCHANGED <<worker, awaited, grown, since>>
    BY <1>1 DEF Goes, runVars
  <2>1. KernelTypeOK'
    <3>1. phase' \in [Runs -> Listening \cup {"idle", "loading", "stored", "failed"}]
      BY <2>0, <1>a DEF Listening
    <3>2. QED
      BY <1>0, <2>0, <3>1 DEF KernelTypeOK
  <2>2. AllSpawned' /\ Apart'
    BY <1>0, <2>0 DEF AllSpawned, Apart
  <2>3. OneAtATime'
    BY <1>0, <1>a, <1>b, <2>0 DEF OneAtATime
  <2>4. Served' /\ Pooled'
    BY <1>0, <1>a, <2>0 DEF Served, Pooled, Listening
  <2>5. QED
    BY <2>1, <2>2, <2>3, <2>4
<1>2. ASSUME NEW fresh \in SUBSET {w \in Workers : worker[w] = "none"},
             Goes(r, "growing"), Changes(fresh, {}),
             grown' = [grown EXCEPT ![r] = fresh],
             awaited' = [awaited EXCEPT ![r] = fresh],
             since' = [since EXCEPT ![r] = generation]
      PROVE  Sound'
  <2>0. phase' = [phase EXCEPT ![r] = "growing"]
    BY <1>2 DEF Goes
  <2>a. Ages
    BY <1>2, ChangesAge
  <2>b. \A w \in fresh : worker'[w] # "none"
    BY <1>2 DEF Changes
  <2>1. KernelTypeOK'
    <3>1. phase' \in [Runs -> Listening \cup {"idle", "loading", "stored", "failed"}]
      BY <2>0, <1>a DEF Listening
    <3>2. /\ grown' \in [Runs -> SUBSET Workers] /\ awaited' \in [Runs -> SUBSET Workers]
          /\ since' \in [Runs -> Nat]
      BY <1>2, <1>a
    <3>3. QED
      BY <1>0, <2>a, <3>1, <3>2 DEF KernelTypeOK, Ages
  <2>2. AllSpawned'
    BY <1>0, <1>2, <1>a, <2>a, <2>b DEF AllSpawned, Ages, KernelTypeOK
  <2>3. Apart'
    <3>1. 0 \notin Workers
      BY DEF Workers
    <3>2. kernel \notin fresh /\ \A s \in Runs : client[s] \notin fresh
      BY <3>1, <1>a DEF AllSpawned, KernelTypeOK
    <3>3. QED
      BY <1>0, <1>2, <1>a, <3>2 DEF Apart
  <2>4. OneAtATime'
    BY <1>0, <1>2, <1>a, <1>b, <2>0 DEF OneAtATime
  <2>5. Served'
    BY <1>0, <1>a, <2>0, <2>a DEF Served, Listening, Ages
  <2>6. Pooled'
    BY <1>0, <1>2, <1>a, <2>0, <2>a DEF Pooled, Ages
  <2>7. QED
    BY <2>1, <2>2, <2>3, <2>4, <2>5, <2>6
<1>3. QED
  BY <1>1, <1>2, FreshAreNew DEF Granted

LEMMA GrownSound ==
    ASSUME Sound, NEW r \in Runs, Grown(r) PROVE Sound'
<1> USE DEF Sound
<1>0. /\ phase[r] = "growing" /\ computing = r
      /\ UNCHANGED <<kernel, warm, active, losses, overtaken, aborted>>
      /\ worker[client[r]] \in {"ready", "dead"} /\ client[r] # 0
  BY DEF Grown, OneAtATime, Served, Listening
<1>a. /\ phase \in [Runs -> Listening \cup {"idle", "loading", "stored", "failed"}]
      /\ grown \in [Runs -> SUBSET Workers] /\ awaited \in [Runs -> SUBSET Workers]
      /\ client \in [Runs -> {0} \cup Workers] /\ poolExtras \subseteq Workers
  BY DEF KernelTypeOK
<1>b. \A s \in Runs : s # r => grown[s] = {}
  BY <1>0 DEF OneAtATime
<1>1. CASE /\ Goes(r, "whole") /\ Changes({}, grown[r])
           /\ awaited' = [awaited EXCEPT ![r] = {}]
           /\ grown' = [grown EXCEPT ![r] = {}]
           /\ UNCHANGED <<poolExtras, generation, client, since, computing>>
  <2>0. phase' = [phase EXCEPT ![r] = "whole"]
    BY <1>1 DEF Goes
  <2>a. Ages
    BY <1>1, ChangesAge
  <2>1. KernelTypeOK'
    <3>1. phase' \in [Runs -> Listening \cup {"idle", "loading", "stored", "failed"}]
      BY <2>0, <1>a DEF Listening
    <3>2. grown' \in [Runs -> SUBSET Workers] /\ awaited' \in [Runs -> SUBSET Workers]
      BY <1>1, <1>a
    <3>3. QED
      BY <1>0, <1>1, <2>a, <3>1, <3>2 DEF KernelTypeOK, Ages
  <2>2. AllSpawned'
    BY <1>0, <1>1, <1>a, <2>a DEF AllSpawned, Ages, KernelTypeOK
  <2>3. Apart'
    BY <1>0, <1>1, <1>a DEF Apart
  <2>4. OneAtATime'
    BY <1>0, <1>1, <1>a, <2>0 DEF OneAtATime
  <2>5. Served'
    BY <1>0, <1>1, <1>a, <2>0, <2>a DEF Served, Listening, Ages
  <2>6. Pooled'
    BY <1>0, <1>1, <1>a, <2>0, <2>a DEF Pooled, Ages
  <2>7. QED
    BY <2>1, <2>2, <2>3, <2>4, <2>5, <2>6
<1>2. CASE /\ Goes(r, "shards")
           /\ poolExtras' = poolExtras \cup grown[r]
           /\ awaited' = [awaited EXCEPT ![r] = grown[r] \cup {client[r]}]
           /\ UNCHANGED <<worker, generation, client, grown, since, computing>>
  <2>0. phase' = [phase EXCEPT ![r] = "shards"]
    BY <1>2 DEF Goes
  <2>1. KernelTypeOK'
    <3>1. phase' \in [Runs -> Listening \cup {"idle", "loading", "stored", "failed"}]
      BY <2>0, <1>a DEF Listening
    <3>2. awaited' \in [Runs -> SUBSET Workers] /\ poolExtras' \subseteq Workers
      BY <1>0, <1>2, <1>a
    <3>3. QED
      BY <1>0, <1>2, <3>1, <3>2 DEF KernelTypeOK
  <2>2. AllSpawned' /\ Apart'
    BY <1>0, <1>2 DEF AllSpawned, Apart
  <2>3. OneAtATime'
    BY <1>0, <1>2, <1>a, <2>0 DEF OneAtATime
  <2>4. Served'
    BY <1>0, <1>2, <1>a, <2>0 DEF Served, Listening
  <2>5. Pooled'
    BY <1>0, <1>2, <1>a, <2>0 DEF Pooled
  <2>6. QED
    BY <2>1, <2>2, <2>3, <2>4, <2>5
<1>3. CASE Settles(r, "failed") /\ Changes({}, poolExtras \cup grown[r]) /\ ReleasesExtras
  <2>1. Ages
    BY <1>3, ChangesAge
  <2>2. QED
    BY <1>0, <1>3, <2>1, SettledSound
<1>4. QED
  BY <1>1, <1>2, <1>3 DEF Grown

LEMMA LeaveShardsSound ==
    ASSUME Sound, NEW r \in Runs, LeaveShards(r) PROVE Sound'
<1> USE DEF Sound
<1>0. /\ phase[r] = "shards" /\ computing = r
      /\ Changes({}, poolExtras) /\ ReleasesExtras
      /\ UNCHANGED <<kernel, warm, active, losses, overtaken, aborted>>
      /\ worker[client[r]] \in {"ready", "dead"} /\ client[r] # 0
  BY DEF LeaveShards, OneAtATime, Served, Listening
<1>a. /\ phase \in [Runs -> Listening \cup {"idle", "loading", "stored", "failed"}]
      /\ grown \in [Runs -> SUBSET Workers] /\ client \in [Runs -> {0} \cup Workers]
      /\ generation \in Nat
  BY DEF KernelTypeOK
<1>b. Ages
  BY <1>0, ChangesAge
<1>1. CASE /\ Goes(r, "computed")
           /\ grown' = [grown EXCEPT ![r] = {}]
           /\ UNCHANGED <<client, awaited, since, computing>>
  <2>0. phase' = [phase EXCEPT ![r] = "computed"]
    BY <1>1 DEF Goes
  <2>1. KernelTypeOK'
    <3>1. phase' \in [Runs -> Listening \cup {"idle", "loading", "stored", "failed"}]
      BY <2>0, <1>a DEF Listening
    <3>2. grown' \in [Runs -> SUBSET Workers]
      BY <1>1, <1>a
    <3>3. poolExtras' = {} /\ generation' \in Nat
      BY <1>0, <1>a DEF ReleasesExtras
    <3>4. QED
      BY <1>0, <1>1, <1>b, <3>1, <3>2, <3>3 DEF KernelTypeOK, Ages
  <2>2. AllSpawned'
    BY <1>0, <1>1, <1>a, <1>b DEF AllSpawned, Ages, KernelTypeOK, ReleasesExtras
  <2>3. Apart'
    BY <1>0, <1>1, <1>a DEF Apart, ReleasesExtras
  <2>4. OneAtATime'
    BY <1>0, <1>1, <1>a, <2>0 DEF OneAtATime
  <2>5. Served'
    BY <1>0, <1>1, <1>a, <1>b, <2>0 DEF Served, Listening, Ages
  <2>6. Pooled'
    <3>1. \A s \in Runs : phase'[s] # "shards"
      BY <1>0, <1>a, <2>0 DEF OneAtATime
    <3>2. QED
      BY <3>1 DEF Pooled
  <2>7. QED
    BY <2>1, <2>2, <2>3, <2>4, <2>5, <2>6
<1>2. CASE Settles(r, "failed")
  BY <1>0, <1>2, <1>b, SettledSound
<1>3. QED
  BY <1>1, <1>2 DEF LeaveShards

\* What a cancel does to the tab's kernel: the one it starts replaces it, and the
\* active worker and the extras are dead.
LEMMA CancelReplaces ==
    ASSUME KernelTypeOK, Cancels
    PROVE  \E spawned \in SUBSET {w \in Workers : worker[w] = "none"} :
              /\ Changes(spawned, ({active} \ {0}) \cup poolExtras)
              /\ warm' = warm \cup spawned
              /\ \/ kernel = 0 /\ kernel' = 0 /\ spawned = {}
                 \/ kernel # 0 /\ spawned = {kernel'}
<1>1. PICK spawned \in {Fresh(1), {}} :
         /\ spawned = {} <=> kernel = 0
         /\ Changes(spawned, ({active} \ {0}) \cup poolExtras)
         /\ kernel' = IF spawned = {} THEN 0 ELSE CHOOSE w \in spawned : TRUE
         /\ warm' = warm \cup spawned
  BY DEF Cancels
<1>2. spawned \subseteq {w \in Workers : worker[w] = "none"}
  BY FreshAreNew
<1>3. CASE kernel = 0
  BY <1>1, <1>2, <1>3
<1>4. CASE kernel # 0
  <2>1. kernel' \in Fresh(1) /\ spawned = Fresh(1)
    BY <1>1, <1>4
  <2>2. spawned = {kernel'}
    BY <2>1, FreshIsOne
  <2>3. QED
    BY <1>1, <1>2, <1>4, <2>2
<1>5. QED
  BY <1>3, <1>4

LEMMA AbortSound ==
    ASSUME Sound, NEW r \in Runs, Abort(r) PROVE Sound'
<1> USE DEF Sound
<1>0. /\ UNCHANGED <<phase, client, awaited, grown, since, computing>>
      /\ aborted' = aborted \cup {r}
  BY DEF Abort, runVars
<1>1. CASE UNCHANGED workerVars
  <2> USE DEF workerVars
  <2>1. KernelTypeOK'
    BY <1>0, <1>1 DEF KernelTypeOK
  <2>2. AllSpawned' /\ Apart'
    BY <1>0, <1>1 DEF AllSpawned, Apart
  <2>3. OneAtATime' /\ Served' /\ Pooled'
    BY <1>0, <1>1 DEF OneAtATime, Served, Pooled
  <2>4. QED
    BY <2>1, <2>2, <2>3
<1>2. CASE Cancels
  <2>1. PICK spawned \in SUBSET {w \in Workers : worker[w] = "none"} :
           /\ Changes(spawned, ({active} \ {0}) \cup poolExtras)
           /\ warm' = warm \cup spawned
           /\ \/ kernel = 0 /\ kernel' = 0 /\ spawned = {}
              \/ kernel # 0 /\ spawned = {kernel'}
    BY <1>2, CancelReplaces
  <2>2. Ages
    BY <2>1, ChangesAge
  <2>3. active' = 0 /\ poolExtras' = {} /\ generation' = generation + 1 /\ losses' = losses
    BY <1>2 DEF Cancels, ReleasesExtras
  <2>4. KernelTypeOK'
    <3>1. overtaken' \subseteq Workers
      BY <1>2 DEF Cancels, Overtakes, KernelTypeOK
    <3>2. kernel' \in {0} \cup Workers /\ warm' \subseteq Workers
      BY <2>1 DEF KernelTypeOK
    <3>3. generation' \in Nat /\ aborted' \subseteq Runs
      BY <1>0, <2>3 DEF KernelTypeOK
    <3>4. QED
      BY <1>0, <2>2, <2>3, <3>1, <3>2, <3>3 DEF KernelTypeOK, Ages
  <2>5. \A w \in Workers : w \in poolExtras => worker'[w] = "dead"
    BY <2>1 DEF Changes
  <2>6. kernel' = 0 \/ (kernel' \in Workers /\ worker[kernel'] = "none" /\ worker'[kernel'] # "none")
    BY <2>1 DEF Changes
  <2>7. AllSpawned'
    BY <1>0, <2>2, <2>3, <2>6 DEF AllSpawned, Ages, KernelTypeOK
  <2>8. Apart'
    <3>1. 0 \notin Workers
      BY DEF Workers
    <3>2. \A s \in Runs : kernel' \notin grown[s]
      BY <2>6, <3>1 DEF AllSpawned, KernelTypeOK
    <3>3. QED
      BY <1>0, <2>3, <3>2 DEF Apart
  <2>9. OneAtATime'
    BY <1>0 DEF OneAtATime
  <2>10. Served'
    BY <1>0, <2>2 DEF Served, Ages, KernelTypeOK
  <2>11. Pooled'
    BY <1>0, <2>2, <2>5 DEF Pooled, Ages, KernelTypeOK
  <2>12. QED
    BY <2>4, <2>7, <2>8, <2>9, <2>10, <2>11
<1>3. QED
  BY <1>1, <1>2 DEF Abort

-----------------------------------------------------------------------------
(* Every step keeps Orderly, unless it overtakes a load.                    *)

\* The same steps of a run: nothing is spawned, and what is terminated is its own.
LEMMA AdvancedOrderly ==
    ASSUME Sound, Orderly, NEW r \in Runs, NEW there \in Listening \ {"shards"},
           Goes(r, there), phase[r] \in Listening \/ r \notin aborted,
           UNCHANGED <<workerVars, client, grown, aborted>>
    PROVE  Orderly'
<1> USE DEF Orderly, workerVars
<1>0. phase' = [phase EXCEPT ![r] = there] /\ phase \in [Runs -> Listening \cup {"idle", "loading", "stored", "failed"}]
  BY DEF Goes, Sound, KernelTypeOK
<1>1. LiveAreHeld' /\ KernelIsLive'
  BY DEF LiveAreHeld, KernelIsLive, Alive
<1>2. ActiveIsTheKernel' /\ ClientsAreTheKernel'
  BY DEF ActiveIsTheKernel, ClientsAreTheKernel
<1>3. Stopped'
  BY <1>0 DEF Stopped, Sound, KernelTypeOK
<1>4. QED
  BY <1>1, <1>2, <1>3

\* What is terminated is no kernel, nor needed by another run.
LEMMA SettledOrderly ==
    ASSUME Sound, Orderly, NEW r \in Runs, NEW how \in {"stored", "failed", "computed", "whole"},
           NEW extras \in SUBSET Workers,
           phase' = [phase EXCEPT ![r] = how],
           client' = IF how \in Listening THEN client ELSE [client EXCEPT ![r] = 0],
           grown' = [grown EXCEPT ![r] = {}],
           UNCHANGED <<kernel, warm, active, aborted>>,
           phase[r] \in Listening \/ how \notin Listening,
           Changes({}, extras), kernel \notin extras,
           \A w \in grown[r] : w \in extras \/ worker[w] = "dead"
    PROVE  Orderly'
<1> USE DEF Orderly
<1>0. /\ phase \in [Runs -> Listening \cup {"idle", "loading", "stored", "failed"}]
      /\ grown \in [Runs -> SUBSET Workers] /\ client \in [Runs -> {0} \cup Workers]
      /\ aborted \subseteq Runs /\ kernel \in {0} \cup Workers /\ warm \subseteq Workers
      /\ worker \in [Workers -> {"none", "starting", "ready", "dead"}]
  BY DEF Sound, KernelTypeOK
<1>a. \A w \in Workers : worker'[w] = IF w \in extras THEN "dead" ELSE worker[w]
  BY DEF Changes
<1>1. LiveAreHeld'
  <2> SUFFICES ASSUME NEW w \in Workers, worker'[w] \in {"starting", "ready"}, w # kernel
               PROVE  \E s \in Runs : w \in grown'[s]
    BY DEF LiveAreHeld, Alive
  <2>1. w \in Alive /\ w \notin extras
    BY <1>0, <1>a DEF Alive
  <2>2. PICK s \in Runs : w \in grown[s]
    BY <2>1 DEF LiveAreHeld
  <2>3. s # r
    BY <2>1, <2>2 DEF Alive
  <2>4. QED
    BY <1>0, <2>2, <2>3
<1>2. KernelIsLive'
  BY <1>0, <1>a DEF KernelIsLive, Alive
<1>3. ActiveIsTheKernel'
  BY <1>0, <1>a DEF ActiveIsTheKernel
<1>4. ClientsAreTheKernel'
  BY <1>0, <1>a DEF ClientsAreTheKernel
<1>5. Stopped'
  <2> SUFFICES ASSUME NEW s \in aborted
               PROVE  /\ phase'[s] \in Listening => worker'[client'[s]] = "dead"
                      /\ phase'[s] = "shards" => \A w \in grown'[s] : worker'[w] = "dead"
    BY DEF Stopped
  <2>1. CASE s = r
    <3>1. CASE how \notin Listening
      BY <2>1, <3>1, <1>0 DEF Listening
    <3>2. CASE how \in Listening
      <4>1. phase[r] \in Listening /\ phase'[r] = how /\ client'[r] = client[r]
        BY <3>2, <1>0
      <4>2. worker[client[r]] = "dead" /\ client[r] # 0
        BY <4>1, <2>1 DEF Stopped, Sound, Served
      <4>3. QED
        BY <2>1, <3>2, <4>1, <4>2, <1>0, <1>a DEF Listening
    <3>3. QED
      BY <3>1, <3>2
  <2>2. CASE s # r
    <3>1. s \in Runs /\ phase'[s] = phase[s] /\ client'[s] = client[s] /\ grown'[s] = grown[s]
      BY <2>2, <1>0
    <3>2. ASSUME phase[s] \in Listening PROVE worker'[client[s]] = "dead"
      <4>1. worker[client[s]] = "dead" /\ client[s] \in Workers
        BY <3>1, <3>2, <1>0 DEF Stopped, Sound, Served
      <4>2. QED
        BY <4>1, <1>a
    <3>3. ASSUME phase[s] = "shards", NEW w \in grown[s] PROVE worker'[w] = "dead"
      <4>1. worker[w] = "dead" /\ w \in Workers
        BY <3>1, <3>3, <1>0 DEF Stopped
      <4>2. QED
        BY <4>1, <1>a
    <3>4. QED
      BY <3>1, <3>2, <3>3
  <2>3. QED
    BY <2>1, <2>2
<1>6. QED
  BY <1>1, <1>2, <1>3, <1>4, <1>5

LEMMA KernelReadyOrderly ==
    ASSUME Sound, Orderly, NEW w \in Workers, KernelReady(w) PROVE Orderly'
<1> USE DEF Orderly, KernelReady, runVars
<1>0. /\ worker \in [Workers -> {"none", "starting", "ready", "dead"}]
      /\ client \in [Runs -> {0} \cup Workers] /\ grown \in [Runs -> SUBSET Workers]
      /\ aborted \subseteq Runs
  BY DEF Sound, KernelTypeOK
<1>1. w = kernel
  BY DEF LiveAreHeld, Alive
<1>2. LiveAreHeld' /\ KernelIsLive'
  BY <1>0, <1>1 DEF LiveAreHeld, KernelIsLive, Alive
<1>3. ActiveIsTheKernel'
  BY <1>0, <1>1 DEF ActiveIsTheKernel
<1>4. ClientsAreTheKernel'
  BY <1>0 DEF ClientsAreTheKernel
<1>5. Stopped'
  BY <1>0 DEF Stopped, Sound, Served
<1>6. QED
  BY <1>2, <1>3, <1>4, <1>5

LEMMA ExtraReadyOrderly ==
    ASSUME Sound, Orderly, NEW w \in Workers, ExtraReady(w) PROVE Orderly'
<1> USE DEF Orderly, ExtraReady
<1>0. /\ worker \in [Workers -> {"none", "starting", "ready", "dead"}]
      /\ client \in [Runs -> {0} \cup Workers] /\ grown \in [Runs -> SUBSET Workers]
      /\ aborted \subseteq Runs
  BY DEF Sound, KernelTypeOK
<1>1. w # kernel
  BY DEF Sound, Apart
<1>2. LiveAreHeld' /\ KernelIsLive'
  BY <1>0 DEF LiveAreHeld, KernelIsLive, Alive
<1>3. ActiveIsTheKernel'
  BY <1>0, <1>1 DEF ActiveIsTheKernel
<1>4. ClientsAreTheKernel'
  BY <1>0 DEF ClientsAreTheKernel
<1>5. Stopped'
  BY <1>0 DEF Stopped, Sound, Served
<1>6. QED
  BY <1>2, <1>3, <1>4, <1>5

LEMMA LostOrderly ==
    ASSUME Sound, Orderly, NEW w \in Workers, Lost(w) PROVE Orderly'
<1> USE DEF Orderly
<1>0. /\ worker \in [Workers -> {"none", "starting", "ready", "dead"}]
      /\ client \in [Runs -> {0} \cup Workers] /\ grown \in [Runs -> SUBSET Workers]
      /\ aborted \subseteq Runs /\ kernel \in {0} \cup Workers /\ 0 \notin Workers
  BY DEF Sound, KernelTypeOK, Workers
<1>1. /\ worker' = [worker EXCEPT ![w] = "dead"] /\ w \in Alive
      /\ active' = IF active = w THEN 0 ELSE active
      /\ UNCHANGED <<warm, phase, client, grown, aborted>>
  BY DEF Lost, runVars
<1>2. IF w = kernel THEN IF w \in warm /\ worker[w] = "starting" THEN kernel' \in {0, kernel}
                                                                 ELSE kernel' = 0
                    ELSE kernel' = kernel
  <2>1. CASE active = w
    BY <2>1, <1>0 DEF Lost, ActiveIsTheKernel
  <2>2. CASE active # w
    BY <2>2, <1>0 DEF Lost, ActiveIsTheKernel, Alive
  <2>3. QED
    BY <2>1, <2>2
<1>3. LiveAreHeld'
  BY <1>0, <1>1, <1>2 DEF LiveAreHeld, Alive
<1>4. KernelIsLive'
  BY <1>0, <1>1, <1>2 DEF KernelIsLive, Alive
<1>5. ActiveIsTheKernel'
  BY <1>0, <1>1, <1>2 DEF ActiveIsTheKernel
<1>6. ClientsAreTheKernel'
  BY <1>0, <1>1, <1>2 DEF ClientsAreTheKernel
<1>7. Stopped'
  BY <1>0, <1>1 DEF Stopped, Sound, Served
<1>8. QED
  BY <1>3, <1>4, <1>5, <1>6, <1>7

LEMMA StartRunOrderly ==
    ASSUME Sound, Orderly, NEW r \in Runs, StartRun(r) PROVE Orderly'
<1> USE DEF Orderly
<1>0. /\ worker \in [Workers -> {"none", "starting", "ready", "dead"}]
      /\ client \in [Runs -> {0} \cup Workers] /\ grown \in [Runs -> SUBSET Workers]
      /\ phase \in [Runs -> Listening \cup {"idle", "loading", "stored", "failed"}]
      /\ aborted \subseteq Runs /\ kernel \in {0} \cup Workers /\ 0 \notin Workers
  BY DEF Sound, KernelTypeOK, Workers
<1>1. /\ phase' = [phase EXCEPT ![r] = "loading"] /\ r \notin aborted
      /\ UNCHANGED <<warm, active, grown, aborted>>
  BY DEF StartRun, Goes
<1>2. CASE kernel # 0
  <2>0. client' = [client EXCEPT ![r] = kernel] /\ UNCHANGED <<worker, kernel>>
    BY <1>2 DEF StartRun
  <2>1. LiveAreHeld' /\ KernelIsLive' /\ ActiveIsTheKernel'
    BY <1>1, <2>0 DEF LiveAreHeld, KernelIsLive, Alive, ActiveIsTheKernel
  <2>2. ClientsAreTheKernel'
    BY <1>0, <2>0 DEF ClientsAreTheKernel
  <2>3. Stopped'
    BY <1>0, <1>1, <2>0 DEF Stopped
  <2>4. QED
    BY <2>1, <2>2, <2>3
<1>3. CASE kernel = 0
  <2>0. PICK w \in Workers :
           /\ worker[w] = "none" /\ Changes({w}, {}) /\ kernel' = w
           /\ client' = [client EXCEPT ![r] = w]
    BY <1>3, FreshAreNew DEF StartRun
  <2>a. worker' = [worker EXCEPT ![w] = "starting"]
    BY <1>0, <2>0 DEF Changes
  <2>b. active = 0
    BY <1>3 DEF ActiveIsTheKernel
  <2>1. LiveAreHeld'
    BY <1>0, <1>1, <1>3, <2>0, <2>a DEF LiveAreHeld, Alive
  <2>2. KernelIsLive' /\ ActiveIsTheKernel'
    BY <1>0, <1>1, <2>0, <2>a, <2>b DEF KernelIsLive, Alive, ActiveIsTheKernel
  <2>3. ClientsAreTheKernel'
    BY <1>0, <1>3, <2>0, <2>a DEF ClientsAreTheKernel
  <2>4. Stopped'
    <3>1. \A s \in aborted : s # r /\ phase'[s] = phase[s] /\ client'[s] = client[s]
      BY <1>0, <1>1, <2>0
    <3>2. \A s \in aborted : worker[client[s]] = "dead" =>
             client[s] = 0 \/ worker'[client[s]] = "dead"
      BY <1>0, <2>0, <2>a
    <3>3. \A s \in aborted : \A v \in grown[s] : worker[v] = "dead" => worker'[v] = "dead"
      BY <1>0, <2>0, <2>a
    <3>4. QED
      BY <1>0, <1>1, <3>1, <3>2, <3>3 DEF Stopped, Sound, Served
  <2>5. QED
    BY <2>1, <2>2, <2>3, <2>4
<1>4. QED
  BY <1>2, <1>3

LEMMA LoadedOrderly ==
    ASSUME Sound, Orderly, NEW r \in Runs, Loaded(r) PROVE Orderly'
<1>0. /\ UNCHANGED <<workerVars, aborted>> /\ grown[r] = {}
      /\ worker \in [Workers -> {"none", "starting", "ready", "dead"}]
  BY DEF Loaded, Sound, OneAtATime, KernelTypeOK
<1>1. CASE Settles(r, "failed")
  <2>1. Changes({}, {})
    BY <1>0 DEF Changes, workerVars
  <2>2. QED
    BY <1>0, <1>1, <2>1, SettledOrderly DEF workerVars, Settles, Goes, Listening
<1>2. CASE Goes(r, "prepare") /\ UNCHANGED <<runVars, computing>> /\ r \notin aborted
  BY <1>0, <1>2, AdvancedOrderly DEF Listening, runVars
<1>3. QED
  BY <1>1, <1>2 DEF Loaded

\* The steps of a run that listens, on workers that stay.
LEMMA CallsOrderly ==
    ASSUME Sound, Orderly, NEW r \in Runs, Prepared(r) \/ Whole(r) \/ Save(r) PROVE Orderly'
<1>0. /\ UNCHANGED <<workerVars, aborted>> /\ grown[r] = {} /\ phase[r] \in Listening
      /\ worker \in [Workers -> {"none", "starting", "ready", "dead"}]
  BY DEF Prepared, Whole, Save, Listening, Sound, OneAtATime, KernelTypeOK
<1>1. ASSUME NEW how \in {"stored", "failed"}, Settles(r, how) PROVE Orderly'
  <2>1. Changes({}, {})
    BY <1>0 DEF Changes, workerVars
  <2>2. QED
    BY <1>0, <1>1, <2>1, SettledOrderly DEF workerVars, Settles, Goes, Listening
<1>2. ASSUME NEW there \in Listening \ {"shards"}, Goes(r, there), UNCHANGED runVars
      PROVE  Orderly'
  BY <1>0, <1>2, AdvancedOrderly DEF runVars
<1>3. QED
  BY <1>1, <1>2 DEF Prepared, Whole, Save, Listening

LEMMA AnsweredOrderly ==
    ASSUME Sound, Orderly, NEW r \in Runs, NEW w \in Workers, Answered(r, w) PROVE Orderly'
<1> USE DEF Orderly, Answered, workerVars
<1>1. LiveAreHeld' /\ KernelIsLive'
  BY DEF LiveAreHeld, KernelIsLive, Alive
<1>2. ActiveIsTheKernel' /\ ClientsAreTheKernel' /\ Stopped'
  BY DEF ActiveIsTheKernel, ClientsAreTheKernel, Stopped
<1>3. QED
  BY <1>1, <1>2

LEMMA GrantedOrderly ==
    ASSUME Sound, Orderly, NEW r \in Runs, Granted(r) PROVE Orderly'
<1> USE DEF Orderly
<1>0. /\ phase[r] = "waiting" /\ grown[r] = {}
      /\ UNCHANGED <<kernel, warm, active, poolExtras, generation, losses, overtaken,
                     aborted, client>>
  BY DEF Granted, Sound, OneAtATime, runVars
<1>a. /\ worker \in [Workers -> {"none", "starting", "ready", "dead"}]
      /\ client \in [Runs -> {0} \cup Workers] /\ grown \in [Runs -> SUBSET Workers]
      /\ phase \in [Runs -> Listening \cup {"idle", "loading", "stored", "failed"}]
      /\ aborted \subseteq Runs /\ kernel \in {0} \cup Workers
  BY DEF Sound, KernelTypeOK
<1>1. CASE Goes(r, "whole") /\ UNCHANGED <<runVars, worker>>
  BY <1>0, <1>1, AdvancedOrderly DEF Listening, runVars, workerVars
<1>2. ASSUME NEW fresh \in SUBSET {w \in Workers : worker[w] = "none"},
             Goes(r, "growing"), Changes(fresh, {}), grown' = [grown EXCEPT ![r] = fresh]
      PROVE  Orderly'
  <2>0. phase' = [phase EXCEPT ![r] = "growing"]
    BY <1>2 DEF Goes
  <2>a. \A w \in Workers : worker'[w] = IF w \in fresh THEN "starting" ELSE worker[w]
    BY <1>2 DEF Changes
  <2>b. kernel # 0 => worker'[kernel] = worker[kernel]
    BY <1>2, <1>a, <2>a DEF Sound, AllSpawned
  <2>c. \A s \in Runs : client[s] # 0 => worker'[client[s]] = worker[client[s]]
    BY <1>2, <1>a, <2>a DEF Sound, AllSpawned
  <2>1. LiveAreHeld'
    <3> SUFFICES ASSUME NEW w \in Workers, worker'[w] \in {"starting", "ready"}, w # kernel
                 PROVE  \E s \in Runs : w \in grown'[s]
      BY <1>0 DEF LiveAreHeld, Alive
    <3>1. CASE w \in fresh
      BY <1>2, <1>a, <3>1
    <3>2. CASE w \notin fresh
      <4>1. PICK s \in Runs : w \in grown[s]
        BY <2>a, <3>2 DEF LiveAreHeld, Alive
      <4>2. QED
        BY <1>0, <1>2, <1>a, <4>1
    <3>3. QED
      BY <3>1, <3>2
  <2>2. KernelIsLive' /\ ActiveIsTheKernel'
    BY <1>0, <1>a, <2>b DEF KernelIsLive, ActiveIsTheKernel, Alive
  <2>3. ClientsAreTheKernel'
    BY <1>0, <2>c DEF ClientsAreTheKernel
  <2>4. Stopped'
    <3> SUFFICES ASSUME NEW s \in aborted
                 PROVE  /\ phase'[s] \in Listening => worker'[client[s]] = "dead"
                        /\ phase'[s] = "shards" => \A w \in grown'[s] : worker'[w] = "dead"
      BY <1>0 DEF Stopped
    <3>1. s \in Runs /\ (phase'[s] \in Listening => phase[s] \in Listening)
      BY <1>0, <1>a, <2>0 DEF Listening
    <3>2. phase'[s] \in Listening => worker'[client[s]] = "dead"
      BY <2>c, <3>1 DEF Stopped, Sound, Served
    <3>3. ASSUME phase'[s] = "shards", NEW w \in grown'[s] PROVE worker'[w] = "dead"
      <4>1. s # r /\ phase[s] = "shards" /\ w \in grown[s] /\ w \in Workers
        BY <1>2, <1>a, <2>0, <3>1, <3>3
      <4>2. QED
        BY <1>2, <2>a, <4>1 DEF Stopped
    <3>4. QED
      BY <3>2, <3>3
  <2>5. QED
    BY <2>1, <2>2, <2>3, <2>4
<1>3. QED
  BY <1>1, <1>2, FreshAreNew DEF Granted

LEMMA GrownOrderly ==
    ASSUME Sound, Orderly, NEW r \in Runs, Grown(r) PROVE Orderly'
<1>0. /\ phase[r] = "growing" /\ UNCHANGED <<kernel, warm, active, losses, overtaken, aborted>>
      /\ grown[r] \in SUBSET Workers /\ poolExtras \in SUBSET Workers
      /\ kernel \notin poolExtras \cup grown[r]
  BY DEF Grown, Sound, KernelTypeOK, Apart
<1>1. CASE /\ Goes(r, "whole") /\ Changes({}, grown[r])
           /\ grown' = [grown EXCEPT ![r] = {}] /\ UNCHANGED client
  BY <1>0, <1>1, SettledOrderly DEF Goes, Listening
<1>2. CASE /\ worker[client[r]] = "ready" /\ Goes(r, "shards")
           /\ UNCHANGED <<worker, client, grown>>
  <2> USE DEF Orderly
  <2>0. phase' = [phase EXCEPT ![r] = "shards"] /\ r \notin aborted /\ aborted \subseteq Runs
        /\ phase \in [Runs -> Listening \cup {"idle", "loading", "stored", "failed"}]
    BY <1>0, <1>2 DEF Goes, Stopped, Listening, Sound, KernelTypeOK
  <2>1. LiveAreHeld' /\ KernelIsLive'
    BY <1>0, <1>2 DEF LiveAreHeld, KernelIsLive, Alive
  <2>2. ActiveIsTheKernel' /\ ClientsAreTheKernel'
    BY <1>0, <1>2 DEF ActiveIsTheKernel, ClientsAreTheKernel
  <2>3. Stopped'
    BY <1>0, <1>2, <2>0 DEF Stopped
  <2>4. QED
    BY <2>1, <2>2, <2>3
<1>3. CASE Settles(r, "failed") /\ Changes({}, poolExtras \cup grown[r])
  BY <1>0, <1>3, SettledOrderly DEF Settles, Goes, Listening
<1>4. QED
  BY <1>1, <1>2, <1>3 DEF Grown

LEMMA LeaveShardsOrderly ==
    ASSUME Sound, Orderly, NEW r \in Runs, LeaveShards(r) PROVE Orderly'
<1>0. /\ phase[r] = "shards" /\ Changes({}, poolExtras)
      /\ UNCHANGED <<kernel, warm, active, aborted>>
      /\ poolExtras \in SUBSET Workers /\ kernel \notin poolExtras
      /\ \A w \in grown[r] : w \in poolExtras \/ worker[w] = "dead"
  BY DEF LeaveShards, Sound, KernelTypeOK, Apart, Pooled
<1>1. CASE Goes(r, "computed") /\ grown' = [grown EXCEPT ![r] = {}] /\ UNCHANGED client
  BY <1>0, <1>1, SettledOrderly DEF Goes, Listening
<1>2. CASE Settles(r, "failed")
  BY <1>0, <1>2, SettledOrderly DEF Settles, Goes, Listening
<1>3. QED
  BY <1>1, <1>2 DEF LeaveShards

\* A cancel that overtakes no load finds the kernel ready, and so active.
LEMMA AbortOrderly ==
    ASSUME Sound, Orderly, NEW r \in Runs, Abort(r), overtaken' = {} PROVE Orderly'
<1> USE DEF Orderly
<1>0. /\ UNCHANGED <<phase, client, awaited, grown, since, computing>>
      /\ aborted' = aborted \cup {r}
  BY DEF Abort, runVars
<1>a. /\ worker \in [Workers -> {"none", "starting", "ready", "dead"}]
      /\ client \in [Runs -> {0} \cup Workers] /\ grown \in [Runs -> SUBSET Workers]
      /\ aborted \subseteq Runs /\ kernel \in {0} \cup Workers /\ 0 \notin Workers
  BY DEF Sound, KernelTypeOK, Workers
<1>1. CASE phase[r] = "loading" /\ UNCHANGED workerVars
  <2> USE DEF workerVars
  <2>1. LiveAreHeld' /\ KernelIsLive'
    BY <1>0, <1>1 DEF LiveAreHeld, KernelIsLive, Alive
  <2>2. ActiveIsTheKernel' /\ ClientsAreTheKernel'
    BY <1>0, <1>1 DEF ActiveIsTheKernel, ClientsAreTheKernel
  <2>3. Stopped'
    BY <1>0, <1>1 DEF Stopped, Listening
  <2>4. QED
    BY <2>1, <2>2, <2>3
<1>2. CASE Cancels
  <2>1. PICK spawned \in SUBSET {w \in Workers : worker[w] = "none"} :
           /\ Changes(spawned, ({active} \ {0}) \cup poolExtras)
           /\ warm' = warm \cup spawned
           /\ \/ kernel = 0 /\ kernel' = 0 /\ spawned = {}
              \/ kernel # 0 /\ spawned = {kernel'}
    BY <1>2, CancelReplaces DEF Sound
  <2>2. active' = 0
    BY <1>2 DEF Cancels
  <2>3. kernel # 0 => worker[kernel] \in {"ready", "dead"}
    BY <1>2, <1>a DEF Cancels, Overtakes, Sound, AllSpawned
  <2>4. \A w \in Workers :
           worker'[w] = IF w \in {active} \ {0} \/ w \in poolExtras THEN "dead"
                        ELSE IF w \in spawned THEN "starting" ELSE worker[w]
    BY <2>1 DEF Changes
  <2>5. kernel # 0 => worker'[kernel] = "dead"
    BY <1>a, <2>1, <2>3, <2>4 DEF ActiveIsTheKernel
  <2>6. \A w \in Workers : worker[w] = "dead" => worker'[w] = "dead"
    BY <2>1, <2>4
  <2>7. LiveAreHeld'
    <3> SUFFICES ASSUME NEW w \in Workers, worker'[w] \in {"starting", "ready"}, w # kernel'
                 PROVE  \E s \in Runs : w \in grown[s]
      BY <1>0 DEF LiveAreHeld, Alive
    <3>1. w \in Alive /\ w # kernel
      BY <1>a, <2>1, <2>4, <2>5 DEF Alive
    <3>2. QED
      BY <3>1 DEF LiveAreHeld
  <2>8. KernelIsLive'
    BY <2>1 DEF KernelIsLive
  <2>9. ActiveIsTheKernel'
    BY <2>1, <2>2, <2>4 DEF ActiveIsTheKernel
  <2>10. \A s \in Runs : client[s] # 0 => worker'[client[s]] = "dead"
    BY <1>a, <2>5, <2>6 DEF ClientsAreTheKernel
  <2>11. ClientsAreTheKernel'
    BY <1>0, <2>10 DEF ClientsAreTheKernel
  <2>12. \A s \in Runs : phase[s] = "shards" => \A w \in grown[s] : worker'[w] = "dead"
    BY <1>a, <2>4, <2>6 DEF Sound, Pooled
  <2>13. Stopped'
    BY <1>0, <1>a, <2>10, <2>12 DEF Stopped, Sound, Served
  <2>14. QED
    BY <2>7, <2>8, <2>9, <2>11, <2>13
<1>3. QED
  BY <1>1, <1>2 DEF Abort

-----------------------------------------------------------------------------
(* The theorems.                                                           *)

\* A load once overtaken stays in the history.
LEMMA OvertakenGrows ==
    ASSUME KernelNext, overtaken' = {} PROVE overtaken = {}
<1>1. ASSUME NEW r \in Runs, StartRun(r) PROVE overtaken = {}
  BY <1>1 DEF StartRun
<1>2. ASSUME NEW r \in Runs, Loaded(r) \/ Prepared(r) \/ Whole(r) \/ Save(r)
      PROVE  overtaken = {}
  BY <1>2 DEF Loaded, Prepared, Whole, Save, workerVars
<1>3. ASSUME NEW r \in Runs, Granted(r) \/ Grown(r) \/ LeaveShards(r)
      PROVE  overtaken = {}
  BY <1>3 DEF Granted, Grown, LeaveShards
<1>4. ASSUME NEW r \in Runs, NEW w \in Workers, Answered(r, w) PROVE overtaken = {}
  BY <1>4 DEF Answered, workerVars
<1>5. ASSUME NEW r \in Runs, Abort(r) PROVE overtaken = {}
  BY <1>5 DEF Abort, Cancels, Overtakes, workerVars
<1>6. ASSUME NEW w \in Workers, KernelReady(w) \/ ExtraReady(w) PROVE overtaken = {}
  BY <1>6 DEF KernelReady, ExtraReady
<1>7. ASSUME NEW w \in Workers, Lost(w) PROVE overtaken = {}
  BY <1>7 DEF Lost, Overtakes
<1>8. QED
  BY <1>1, <1>2, <1>3, <1>4, <1>5, <1>6, <1>7 DEF KernelNext, RunStep

LEMMA InitInv == ASSUME KernelInit PROVE KernelInv
<1> USE KernelConstants DEF KernelInit
<1>0. 0 \notin Workers
  BY DEF Workers
<1>1. KernelTypeOK
  BY DEF KernelTypeOK
<1>2. AllSpawned /\ Apart
  BY DEF AllSpawned, Apart
<1>3. OneAtATime /\ Served /\ Pooled
  BY DEF OneAtATime, Served, Pooled, Listening
<1>4. LiveAreHeld /\ KernelIsLive /\ ActiveIsTheKernel
  BY <1>0 DEF LiveAreHeld, KernelIsLive, ActiveIsTheKernel, Alive
<1>5. ClientsAreTheKernel /\ Stopped
  BY DEF ClientsAreTheKernel, Stopped
<1>6. QED
  BY <1>1, <1>2, <1>3, <1>4, <1>5 DEF KernelInv, Sound, Orderly

LEMMA StutterInv == ASSUME KernelInv, UNCHANGED kernelVars PROVE KernelInv'
<1> USE DEF kernelVars
<1>1. KernelTypeOK' /\ AllSpawned' /\ Apart'
  BY DEF KernelInv, Sound, KernelTypeOK, AllSpawned, Apart
<1>2. OneAtATime' /\ Served' /\ Pooled'
  BY DEF KernelInv, Sound, OneAtATime, Served, Pooled
<1>3. overtaken = {} =>
         LiveAreHeld' /\ KernelIsLive' /\ ActiveIsTheKernel' /\ ClientsAreTheKernel' /\ Stopped'
  BY DEF KernelInv, Orderly, LiveAreHeld, KernelIsLive, Alive, ActiveIsTheKernel,
         ClientsAreTheKernel, Stopped
<1>4. QED
  BY <1>1, <1>2, <1>3 DEF KernelInv, Sound, Orderly

LEMMA StepInv == ASSUME KernelInv, [KernelNext]_kernelVars PROVE KernelInv'
<1>0. Sound /\ (overtaken = {} => Orderly)
  BY DEF KernelInv
<1>1. CASE UNCHANGED kernelVars
  BY <1>1, StutterInv
<1>2. CASE KernelNext
  <2>0. overtaken' = {} => Orderly
    BY <1>0, <1>2, OvertakenGrows
  <2> SUFFICES Sound' /\ (overtaken' = {} => Orderly')
    BY DEF KernelInv
  <2>1. ASSUME NEW r \in Runs, StartRun(r) PROVE Sound' /\ (Orderly => Orderly')
    BY <1>0, <2>1, StartRunSound, StartRunOrderly
  <2>2. ASSUME NEW r \in Runs, Loaded(r) PROVE Sound' /\ (Orderly => Orderly')
    BY <1>0, <2>2, LoadedSound, LoadedOrderly
  <2>3. ASSUME NEW r \in Runs, Prepared(r) \/ Whole(r) \/ Save(r)
        PROVE  Sound' /\ (Orderly => Orderly')
    BY <1>0, <2>3, PreparedSound, WholeSound, SaveSound, CallsOrderly
  <2>4. ASSUME NEW r \in Runs, Granted(r) PROVE Sound' /\ (Orderly => Orderly')
    BY <1>0, <2>4, GrantedSound, GrantedOrderly
  <2>5. ASSUME NEW r \in Runs, Grown(r) PROVE Sound' /\ (Orderly => Orderly')
    BY <1>0, <2>5, GrownSound, GrownOrderly
  <2>6. ASSUME NEW r \in Runs, NEW w \in Workers, Answered(r, w)
        PROVE  Sound' /\ (Orderly => Orderly')
    BY <1>0, <2>6, AnsweredSound, AnsweredOrderly
  <2>7. ASSUME NEW r \in Runs, LeaveShards(r) PROVE Sound' /\ (Orderly => Orderly')
    BY <1>0, <2>7, LeaveShardsSound, LeaveShardsOrderly
  <2>8. ASSUME NEW r \in Runs, Abort(r)
        PROVE  Sound' /\ (Orderly /\ overtaken' = {} => Orderly')
    BY <1>0, <2>8, AbortSound, AbortOrderly
  <2>9. ASSUME NEW w \in Workers, KernelReady(w) PROVE Sound' /\ (Orderly => Orderly')
    BY <1>0, <2>9, KernelReadySound, KernelReadyOrderly
  <2>10. ASSUME NEW w \in Workers, ExtraReady(w) PROVE Sound' /\ (Orderly => Orderly')
    BY <1>0, <2>10, ExtraReadySound, ExtraReadyOrderly
  <2>11. ASSUME NEW w \in Workers, Lost(w) PROVE Sound' /\ (Orderly => Orderly')
    BY <1>0, <2>11, LostSound, LostOrderly
  <2>12. QED
    BY <1>2, <2>0, <2>1, <2>2, <2>3, <2>4, <2>5, <2>6, <2>7, <2>8, <2>9, <2>10, <2>11
       DEF KernelNext, RunStep
<1>3. QED
  BY <1>1, <1>2

LEMMA KernelInvariant == KernelSpec => []KernelInv
<1>1. KernelInit => KernelInv
  BY InitInv
<1>2. KernelInv /\ [KernelNext]_kernelVars => KernelInv'
  BY StepInv
<1>3. QED
  BY <1>1, <1>2, PTL DEF KernelSpec

\* Workers, promise, pool and runs keep their types, for any runs and any bounds.
THEOREM KernelTypeCorrect == KernelSpec => []KernelTypeOK
<1>1. KernelInv => KernelTypeOK
  BY DEF KernelInv, Sound
<1>2. QED
  BY <1>1, KernelInvariant, PTL

\* As long as no load was overtaken, every live worker is the tab's kernel or an
\* extra some run holds, and the promise is of no dead one but a cancel's own: over
\* starts, cancels, losses and pools in any order (getKernel, releaseLostKernel,
\* cancelKernel and growPool of wasm/kernel.ts).
THEOREM OnlyOvertakenLoadsLeak == KernelSpec => []OnlyAnOvertakenLoadLeaks
<1>1. KernelInv => OnlyAnOvertakenLoadLeaks
  BY DEF KernelInv, Orderly, LiveAreHeld, KernelIsLive, OnlyAnOvertakenLoadLeaks
<1>2. QED
  BY <1>1, KernelInvariant, PTL

\* A cancelled run has no live worker left, neither the kernel it was given nor an
\* extra that computes one of its shards (cancelKernel, and the abort listener of
\* startRun in api/browser-backend.ts).
THEOREM CancelAlwaysStopsTheRun == KernelSpec => []CancelStopsTheRun
<1>1. KernelInv => CancelStopsTheRun
  <2> SUFFICES ASSUME KernelInv, NEW r \in aborted, overtaken = {},
                      phase[r] \in {"prepare", "waiting", "whole", "shards"}
               PROVE  worker[client[r]] = "dead" /\ \A w \in grown[r] : worker[w] = "dead"
    BY DEF CancelStopsTheRun
  <2>1. r \in Runs
    BY DEF KernelInv, Sound, KernelTypeOK
  <2>2. worker[client[r]] = "dead"
    BY DEF KernelInv, Orderly, Stopped, Listening
  <2>3. CASE phase[r] = "shards"
    BY <2>2, <2>3 DEF KernelInv, Orderly, Stopped
  <2>4. CASE phase[r] # "shards"
    BY <2>1, <2>2, <2>4 DEF KernelInv, Sound, OneAtATime
  <2>5. QED
    BY <2>3, <2>4
<1>2. QED
  BY <1>1, KernelInvariant, PTL

=============================================================================
