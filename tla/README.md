# Aconiq: formal models

TLA+ models of the parts of Aconiq in which several processes, goroutines, tabs,
workers or requests share state. On the server: the life of a run, the chunked
compute engine, the compare-and-write of the project model, the terrain and its
remembered digest, the estimate slot, the pool that walks the receivers of an RLS-19 run, and
the events feed that tells the page of it. In the browser: the run store in IndexedDB,
the kernel workers and the runs on them, the workspace with its draft, its undo stack and
the reshaping of features on the map. TLC checks
each on small instances; TLAPS proves nearly all of the safety properties, and that the models implement their abstract
specifications, for every value of the constants.

Aconiq is a Go backend (`src/backend`) and a browser front end
(`src/frontend`). A project is a directory with a manifest
(`.noise/project.json`), model files, run directories and caches. Three kinds of
process work on it at once: `aconiq serve` (HTTP API), `aconiq mcp` (the same
handler for agents) and CLI commands (`run`, `import`, `reattach-facades`, ...).
A server computes nothing itself: it starts `aconiq run` as a child process. There
is no database and no broker; the processes coordinate by one advisory file lock,
by renames, and by the statuses in the manifest. In browser mode there is no server
either: a web worker computes, IndexedDB holds the runs for every tab of the origin,
and localStorage the draft of the model.

## 1. Inventory

| Part | State | Operations | Meets |
|---|---|---|---|
| Manifest store (`io/projectfs/store.go`, `manifestlock*.go`, `deleterun.go`, `interrupted_runs.go`) | `project.json`, `runs/<id>/`, the file lock | `LockManifest`, `Load`, `Save`, `CreateRun`, `DeleteRun`, `FailInterruptedRuns`, `FailOpenRun` | every process that writes a project |
| Run child (`app/cli/run_pipeline.go`, `run_persist_finalize.go`) | its run directory, its row | prepare, create the row, compute, save a terminal status, write the log | the manifest store, the engine, its server by signals |
| Run supervisor (`api/httpv1/run_supervisor.go`, `run_create.go`, `run_executor.go`, `run.go`; `app/cli/serve.go`) | runs in flight, their contexts | start, wait for the row, cancel, settle, delete, sweep at start, shut down | run children, manifest store |
| Compute engine (`engine/runner.go`) | jobs and results channels, run and shared chunk caches, `run-state.json`, the cache root | `Run`: producer, workers, collector, persist, prune | the kernel, other runs through the shared cache, the LGLN tile cache |
| Model store (`io/projectfs/model.go`, `atomicfile`) | normalized file, dump, validation report, artifact references | `ReadModelWithHash`, `SaveModelIf`, `KeepImportRecord` | the API's model and proposal handlers, CLI importers and rewriters |
| Terrain store (`io/projectfs/terrain.go`) | terrain raster and its metadata, a hash cache | `SaveTerrain`, `TerrainHash` | API, run preparation |
| Run estimate (`api/httpv1/run_estimate.go`) | one slot | wait, estimate, release | API clients |
| RLS-19 receiver pool (`standards/rls19/road/parallel.go`, `progress.go`, `compute.go`; `app/cli/run_progress.go`) | chunks, their results, a counter, the last report | deal, walk, refuse, cancel, collect, report | a run child, its progress file |
| Events feed (`api/httpv1/events.go`, `status.go`; `frontend/src/api/project-events.ts`, `event-stream.ts`, `hooks.ts`) | the last event sent per stream; the runs carried, the list in the query cache and its poll interval | poll the manifest, emit if changed, apply, invalidate, refetch, reconnect | manifest and progress file to browser |
| Browser run store (`frontend/src/api/browser-backend.ts`, `browser-storage.ts`) | one document of runs and one byte record per raster in IndexedDB; in each tab a copy of the document and a cache of object URLs | load, lock, sweep, mint, store, evict, export, delete, view | the other tabs, the kernel's runs |
| Browser compute (`frontend/src/wasm/*`) | the kernel's promise, the active worker, a pool of extra workers, pending calls | load, call, grow, cancel by termination, pre-warm, lose | web workers, the run store's lock |
| Browser project state (`frontend/src/model/*`, `ui/draft-banner.tsx`) | the model shown, `dirty`, the draft, the hydration, a save in flight | edit, autosave, hydrate, retry, restore, discard, save | API, localStorage |
| Undo history (`model/model-store.ts`, `model/command-stack.ts`) | the undo and redo stacks, the key of the open step | execute, coalesce, seal, undo, redo, clear | every edit, merge and load of the workspace |
| Reshaping on the map (`map/use-geometry-edit.ts`, `use-inverse-projection.ts`) | terra-draw's copy, the session over it, a projection in flight | arm, change, finish, deselect, re-arm, project, deliver, drop | the undo history, the display model, the transform request |
| Exports and reports (`app/cli/export.go`, `compare.go`) | files, artifact references in the manifest | render, register | manifest store |
| Standards, acoustics, geometry, importers, facade sets | none | pure functions | all of the above |
| MCP server, HTTP middleware, configuration, UI | none of their own | adapt, validate, render | handlers |

### What is hard, and what makes each part correct

* **Manifest store.** Every change is a read-modify-write of one file by any of
  several processes, any of which can be killed between two of its steps. Correct
  means: no update is lost, no dead process keeps the project locked, a row never
  points at a directory that is not there, and whatever interleaving occurs the
  reader sees a list of runs changed one operation at a time.
* **Run child and supervisor.** A run's row is written by the child, by its
  supervisor, by a starting server's sweep and by a delete. A child may ignore
  its interrupt; a server may die, or give up waiting, and leave its child at
  work. Correct means: a settled run never reads "running" again, a start
  answered with an error leaves no run that nobody minds, a cancelled run settles, an orphaned row is closed by the next
  server, a stop in time leaves nothing open, and nothing but a sweep contradicts a
  child at work.
* **Compute engine.** An unbuffered jobs channel, workers that leave after their
  first failure, a context that two parties cancel, chunks finishing in any order,
  and caches other processes write and prune. Correct means: `Run` returns and
  nothing outlives it, "completed" means every chunk, "canceled" means the caller
  asked, progress only goes forward, and a cached result is the one the run would
  have computed.
* **Model store.** Three renames and a manifest save behind one hash comparison,
  by servers and CLI tools at once. Correct means: a guarded save replaces exactly
  what its author read, a receipt names what was written, a new normalized file
  finds its dump, and every early return gives back both locks.
* **Terrain store.** The same compare-and-write, plus a hash remembered under a
  file's identity and time, taken around a read that a save of this or another process
  may overtake. Correct means: the remembered hash answers only for the file it was
  taken from, and a guarded save replaces only the file it named.
* **Estimate slot.** Claims, kills, answers and releases of several requests in any
  order. Correct means: only the newest estimate goes on uncancelled, and only an
  older one is told it was superseded.
* **Browser run store.** A document every tab copies and writes whole, and rasters
  beside it in transactions of their own, either of which the quota may refuse, under
  a lock that ends with its tab. Correct means: a stored run has its raster, ids are never used
  twice, no tab undoes another's work, and a store that failed leaves the list as it was.
* **Browser compute.** A call can only be stopped by terminating its worker, while others
  load, wait or compute. Correct means: every run ends and gives up the store's
  lock, a cancelled run computes nowhere, and no worker is left over.
* **Workspace.** What the tab shows, the draft, the project and the answers under way
  are four versions of one model. Correct means: "saved" is said only of what the
  project holds, and work is never in none of them.
* **Receiver pool.** Chunks are dealt, dropped and ended in any order, and refusals and
  cancels come while others are in flight. Correct means: the pool answers what the walk
  of one goroutine would, and never reports backwards or short of the last receiver.
* **Events feed.** The page stops polling for the runs its stream carries, and the stream may
  drop, fall silent or be closed with the tab, while answers taken earlier are still on
  their way. Correct means: an open run on screen is always fetched, polled or carried, and
  its end shows before the idle poll.
* **Undo history.** Commands are closures that assume the model they were captured in, and a
  coalesced step has its undo from one and its redo from another. Correct means: undo and
  redo walk along the models the workspace has been in, whatever was merged, replaced or
  removed between, and a drag takes back the shape of one object.
* **Reshaping.** The editor's copy, the model, the undo stack and a projection in flight are four
  places for one shape. Correct means: one drag is one step, the copy is the model's when nothing
  is held, an answer lands in the model its question was about, and no drag is lost unseen.

PROJECT.json lists each of these hazards at the line where it bites.

## 2. Plan

| # | Modules | Status |
|---|---|---|
| 1 | `RunRegistry` (abstract run list), `RunLifecycle` (processes, lock, manifest, directories), `RunLifecycle_proofs` | modelled, checked, proved |
| 2 | `ChunkEngine` (one run and runs that share a cache), `ChunkEngine_proofs` | modelled, checked, proved |
| 3 | `GuardedRegister` (abstract compare-and-write), `ModelStore`, `ModelStore_proofs` | modelled, checked, proved |
| 4 | `BrowserStore`, `BrowserStore_proofs`: the tabs, the document and the rasters | modelled, checked, proved |
| 5 | `TerrainStore`, `ServerState_proofs`: saves and the remembered digest | modelled, checked, proved |
| 6 | `EstimateSlot`, `ServerState_proofs` | modelled, checked, proved |
| 7 | `KernelPool`, `KernelPool_proofs`: workers, cancels, losses and the runs on them | modelled, checked, safety proved |
| 8 | `Workspace`, `Workspace_proofs`: draft, hydration and save against the project | modelled, checked, proved |
| 9 | `SnapshotHistory` (abstract line of models), `EditHistory`, `Workspace_proofs`: edits and the undo stack | modelled, checked, proved |
| 10 | `GeometryEdit`, which extends `EditHistory`, `Workspace_proofs`: reshaping on the map over both | modelled, checked, proved |
| 11 | `ReceiverPool`, `RunProgress_proofs`: the pooled walk against the sequential one, and its reports | modelled, checked, safety proved |
| 12 | `ProjectEvents`, `RunProgress_proofs`: the events feed and the page on it | modelled, checked, safety proved |
| 13 | The artifact references of exports against deletes; the tool calls of the MCP server; concurrent downloads into the tile cache | left |

Runs are few and large: one run per question, several properties each. The parts 5 to
10 share no state but the model that 9 and 10 have in common, so `MCSession` checks them
side by side in one run: a behaviour is one of one part. `MCServer` does the same with 3, 11
and 12.

## 3. The models

A comment in each module says which source function a definition stands for, and
PROJECT.json maps each definition to its lines.

### RunLifecycle

| Variable | In the code |
|---|---|
| `manifest`, `dir` | the status of each row in `project.json`; the existing `.noise/runs/<id>/` |
| `lock`, `copy` | the flock of `LockManifest`; the project a holder has loaded |
| `child`, `outcome` | the `aconiq run` process: preparing, creating its row, computing, finalizing, logging; the status it decided on |
| `sup`, `cancelled`, `req`, `owner` | the supervisor goroutine of a run, its context, the `POST /runs` that waits for its row, and the server it belongs to |
| `srv`, `del`, `target` | a server process from boot through its sweep to its stop or death; its one delete handler |
| `swept` (history), `faults` | rows closed by a starting server; storage failures so far |

A run id is used once and a server boots once, so a restart is another element of
`Servers`. Locking, saving and unlocking are separate steps, and any thread's
process may die between them; the kernel then drops its lock. `Load` happens in
the step that takes the lock because nobody else can write in between. The settlements and
the delete of one server also contend for its handler mutex (`HandlerFree`). The rewrite of
`project.json` is a single step because it is a temporary file and a rename.
Abstracted: the scenarios, artifacts and provenance in the manifest, run ids'
spelling, logs, progress, and the computation itself, which just ends with a
status. "pending" does not occur in the model because no code path writes it.

`RunRegistry` is what a client of the run list may rely on: atomic `Create`,
`Finish`, `Sweep` and `Delete`, and a run that left the list never returns.
`RunLifecycle` implements it with `row` read off the manifest, where an absent row
is "new" as long as its child may still file it.

### ChunkEngine

One run is the goroutines of one `Runner.Run`: the producer (`next`, `closed`), the
workers (`at`, `job`, `val`), the buffered results channel (`queue`), the collector
(`received`, `firstErr`) and `Run` itself (`main`, `outcome`). `parent` and
`stopped` are the caller's context and the one `computeChunks` derives from it.
`local`, `shared`, `state` and `dirs` are the cache root, which all runs share;
`pruned` and `faults` are history. Writing a file is a staging step and a renaming
step, and retention may remove the directory between them ("lost"). A level is
represented by the inputs it is computed from (`Level`), so a result taken from a
cache entry of other inputs shows. Run ids are numbers in the order of their
names; directory 0 is `lgln`, which sorts first. A run whose id is in `Repeats`
may start again once complete, over its warm cache, as `aconiq bench` does.

### ModelStore

One server's API clients and any number of CLI processes. `normalized`, `dump` and
`report` are the three files, `refs` whether the manifest names them, `mutex` and
`lock` the handler's mutex and the file lock. `at`, `op`, `base`, `new` and `guarded`
are a save under way; `hash` is the hash a writer holds, and so the model it believes saved. `Post`, `Propose`,
`Rewrite` and `Import` are the four ways in, and all go through the same `Lock`,
`Check`, three commits and `Answer`. A model is its features and its import record;
a hash is represented by the features it names. `GuardedRegister` is the
compare-and-write register that the file, the hashes and the saves implement.

### BrowserStore

| Variable | In the code |
|---|---|
| `doc`, `bytes` | the stored document, its runs and `lastRunIndex` (`mark`); the byte records |
| `lock`, `queue` | the Web Lock of `withStoreLock` and who waits for it |
| `cache`, `loaded`, `swept`, `urls` | each tab's `state`, whether it is set, `sweptOrphanedBytes`, `urlCache` |
| `pc`, `op`, `readable`, `outcome` | the writer of a tab: run, export or delete, how far it is, whether its reads were answered, how it ended |
| `forgets` | deletes started by `forgetArtifactBytes`, which nobody waits for |
| `blind`, `taken`, `unstored` | history: see below |

Each step ends where the code awaits. A run is its id, the computation its payload
comes from and the number of its exports. A read or a write may be refused at each step that
makes one; a tab may be closed between any two. A tab runs one writer at a time; the
migration of the legacy document, a corrupt document and browsers without Web Locks
are left out. Three properties name what the code does not keep: after a *write that
follows a refused read* (`blind`) the tab's old copy overwrites the list, which loses other
tabs' runs and can bring a deleted one back; a *late delete* (`taken`) can land on the raster
of the next run that mints the same id; and an id *whose store failed* (`unstored`) is minted
again, so a URL a tab made of it meanwhile shows the lost run. The comment at
`browser-backend.ts:823-828` says a surviving URL can never be stale, which is so but for
the last case. When the cap drops a run and the write then fails, or `deleteRun`'s write
fails, the tab's list goes without the run until the next read.

### KernelPool

A worker and the load that spawned it go by one number. `kernel`, `active`, `poolExtras` and
`generation` are `kernelPromise`, `activeClient`, `poolExtras` and `poolGeneration` of `kernel.ts`;
`warm` marks the loads `cancelKernel` started, whose rejection clears nothing. Each run is a
`startRun`: it waits for its kernel, prepares, waits for the store's lock
(`computing`), computes whole or in shards over a pool it grows, and saves. A pending call is
not a message of its own: a run that stands at a call is answered by a living worker
or rejected by a dead one. Terrain replay, progress and calls outside runs are left out;
`overtaken` is history, the loads whose promise was dropped in flight, because a worker
that becomes ready after that is made active without anyone holding its promise.

### TerrainStore and EstimateSlot

`TerrainStore` follows `SaveTerrain` step by step for the server and for importers, with
every error return and the deferred unlock and discard, and `TerrainHash` for the server's
status requests: two stats around a read, then the entry. A file is an inode, a clock tick
and a content; all files have one size, an inode is free again when nothing names it,
and several saves may fall in one tick. `repeated` is history: a new file got an inode and a
tick that an earlier one had. It takes three saves within a tick; the comment at `terrain.go:114-119`
excludes it for a single rename, which is right.

`EstimateSlot` has one action per step of a request, from its claim to its release, and lets
the client leave at any moment. "Newest" is by the order of the claims: a request
whose client has left already still claims, and supersedes a live one.

### Workspace

`shown` and `dirty` are the model store; `draft` is localStorage; `file` the project's model,
which other clients also write; `query`, `hydration` and `fetch` the startup; `saving` the POST in
flight with `moved` for the reference comparison after it; `armed` the autosave's
timer; `offered` the banner. Every edit makes a model never seen before, so a hash is
the number of its model. `base`, `found`, `touched` and `bare` are history. One tab: the drafts of two
tabs share a key and the code does not coordinate them. Undo is an edit. A POST abandoned by a reload
may still be done by the server at that moment, not later. Two observations are no
property: the banner goes on offering a draft the autosave has written over since, so
*Discard* then deletes the only copy of current work (`bare`); and a draft that storage
refused is not retried before the next edit.

### EditHistory

| Variable | In the code |
|---|---|
| `store` | features, receivers, calculation area and CRS of `useModelStore` |
| `undoStack`, `redoStack`, `openKey` | the fields of `CommandStack` |
| `minted`, `edits` | the ids the dialogs have given; the bound |

A command's two closures are patches: records that say what they will do to *whatever* model they
find (`Apply`), as the closures do. `SnapshotHistory` has no commands, only the models
themselves; under the refinement mapping its `past` and `future` are what the patches
would make of the model one after the other (`Walked`). `Execute` is `CommandStack.execute`;
each edit of the store is an action that builds its command as the code does, with what it
captures at that moment. An object carries the CRS its coordinates are really in, which
the code does not store. Ids: a dialog mints a new one each time; files may repeat them.

### GeometryEdit

Extends `EditHistory` with the map page: `session` is `sessionRef` with terra-draw's copy, `stored`
the geometry it remembers by reference and `held` its `pending`; `request` the projection the
page's newest-wins channel waits for; `orphans` those of pages that were left, which answer all
the same; `display` the display model's readiness. A shape is the set of the moves
made of it since its file, so that one can say what a shape contains. What React does of
a change of the store, re-render, cleanups and effects, is one step with the change
(`Reacts`): the code runs it before the next event. Loading happens on the import page, with
the map unmounted. A file in another CRS is added as it is, as in the code: a survey in metres
may lie in a workspace in lon/lat, and the editor arms only what terra-draw takes for
coordinates on the globe (`OnTheGlobe`). Basemap switches, drawing new shapes and geometry types terra-draw
cannot edit are left out.

### ReceiverPool

| Variable | In the code |
|---|---|
| `trouble`, `crew` | what is wrong with the receivers, the scene and the car parks; the `workers` asked for |
| `point`, `answer` | where `ComputeReceiverOutputsParallelProgress` stands, and what it returns |
| `dealt`, `task`, `chunkResult` | the producer's loop, each walker's chunk and receiver, `results` |
| `asked`, `refusal` | the caller's context is done; a refusal has cancelled `computeCtx` |
| `counted`, `reported`, `filed` | `progressCounter.done`, `runProgress.lastDone`, the number in `progress.json` |

The chunk sizes are computed as `partition.Size` does. A walk heeds the context at each place
the code does: before a receiver, before a Teilstueck inside it, and, through `computeCtx`,
before it takes up a chunk. A level is the receiver it belongs to, so an answer in the
wrong order shows. `SequentialWalk` is not an action but the reference definition: what one
goroutine would answer, from the order of the checks in `computeReceivers`.

### ProjectEvents

| Variable | In the code |
|---|---|
| `rows`, `created` | the manifest's runs with the progress of the open ones, which other processes change |
| `link`, `told`, `wire` | the event stream, the last status sent on it, the events not yet read |
| `carried` | `carriedRunIds` |
| `runsList`, `poll`, `listFetch`, `failed` | the runs list in the query cache, its interval, its fetch under way, whether the last one failed |
| `mounted`, `visible` | a runs list is on screen; the tab is |

`Applies` is `applyProjectStatusEvent`, branch by branch. A stream that is *silent* delivers nothing
and is not known to be dead until the stall timer. TanStack Query is a library: that an
invalidation joins the fetch under way, that the interval is read again only when the data
changes, and that a hidden tab's timer does not fetch is taken from what `project-events.ts`
(91-101, 115-118, 144-146) and `hooks.ts` (79-84) say and rely on. One list is mounted at
most; two would share the stream and the cached list.

## 4. What is checked

| Run | Instance | States | Shows |
|---|---|---|---|
| `OneServer` | two runs, one server, one storage failure | 1.3 M | all safety properties but the sweep's, and the refinement of `RunRegistry` |
| `TwoServers` | two live servers, one run of theirs, one bare run | 2.4 M, symmetry of the servers | only a starting server's sweep closes the row of a child at work |
| `RunsSettle` | one run, two servers one after the other, fair | 14 k | a cancelled run settles; an open row found at start is closed |
| `LiveWriter` | the same | | **violated**: see section 6 |
| `Pool` | one run, three chunks, two workers, cache on or off, a repeat, one failure, fair | 41 k | outcome, progress file, termination |
| `Cache` | three runs of one chunk, one of them of another standard, retention 1 | 1.8 M | shared cache entries and pruning |
| `Tiles` | two runs, retention 1 | | **violated** |
| `Server` | model: one client (also a proposer), one tool, two models, one failure or death; receivers: four of them, one to three workers, twelve combinations of troubles, a cancel; feed: two runs, one report, two mishaps, one event on the wire, fair | 244 k | compare-and-write, receipts, locks, and the refinement of `GuardedRegister`; the pool's answer and reports; what the page watches and shows |
| `Proposal` | a client and a tool, two models, no failure | | **violated** |
| `Tabs` | two tabs, three computations, at most two stored runs, one export each, two incidents | 3.3 M | list, rasters, copies and URLs under refused reads and writes and closed tabs |
| `Session` | kernel: two runs, two extras, six workers, one loss; workspace: three models, two troubles, both modes; terrain: server and importer, one reader, two inodes, two ticks, three saves; three estimates; edits: three files, three edits over a stack of two; map: a city in lon/lat and a survey in metres with the same road and a receiver each, two drags of at most two moves (one where the city was added to the survey), two edits, one return visit | 546 k, fair kernel | the properties of the six parts side by side; the refinement of `SnapshotHistory` |
| `DeadLoad` | two runs, one extra, four workers, one loss | | **violated** |

`OneRewriteAtATime`, `WorkersEndFirst`, `ChannelHasRoom`, `NoBlindOverwrite` and the type
correctness of `RunLifecycle` and `ChunkEngine` are proved (section 5), and no run repeats them.

**Bounds, and why they are enough.** Every hazard of the manifest is between two
writers: two runs with one server have two children, two supervisors, a sweep and
a delete competing for the lock, and two servers add the cross-server pairs.
Three chunks over two workers is the smallest pool in which a worker takes a
second chunk while another still holds one and the producer waits with a chunk in
hand. Three runs is the smallest number in which one prunes another while a third
shares its entry. Two models give an A-B-A around a hash. `MaxFaults` is 1 because
each error path ends the operation it is in; where a second fault would reach
something new (a settlement that cannot be saved *after* a crash), the crash is not
counted as a fault in `RunLifecycle`. In `Tabs` the third computation meets the cap
of two stored runs and so the dropping, and two incidents are a refused write and the
refused retry, or a closed tab and what its successor meets; the incidents also
bound URLs. Six workers are a kernel, a pool of two, a replacement and one more of each
kind. Three models are a draft, a project and a
newer edit. Two inodes and two ticks make an inode come back at once, and within
a tick; a second reader shows nothing the proof does not. Three
estimates are one that releases late, one that replaced it and one that would run
beside that. A stack of two overflows at the third edit and is walked both ways. Four
receivers give one walker, two chunks of two and three workers with a chunk more than they are;
receivers that are refused are none, the first, or two of the others, which fall into
different chunks. In the feed one run ends while another goes on or is created; two mishaps are a
lost stream and what comes in its stead, such as a failed fetch or a hidden tab, and meet the first run
alone; of the second only its creation and its end matter, so it reports no progress. The safety of the
feed is proved without these bounds. Two drags are one
under way and one in flight; two moves are one that opens a step and one merged into it. Two
edits on the map are a drag and what another edit or an undo does to it. The edits by themselves
keep to workspaces that declare lon/lat, the only ones (but the empty) where buildings are
replaced by those of a box; a survey in metres may be added to them.
The safety proofs of section 5 hold for any value of these.

**Mutants.** Each property of a passing run names a mutant operator, defined just
above the operator it replaces, for example `AcquireUnlocked` (no file lock),
`ReapEarly` (settling before the child has exited), `EndCollectedUnasked` (the
caller's context not asked again), `PushedNewest` (a merged step keeps the newest undo). Under
each, TLC finds the property violated in the same run.

**Fairness.** `RunLifecycle`: a thread that can move does, and a thread waiting for
a lock that is free again and again gets it (strong fairness on the lock steps:
Go's mutex has a starvation mode, flock waiters are queued). `GraceKill` is weakly
fair because `exec.Cmd.WaitDelay` kills a child that outlives its interrupt. There
is no fairness on the computation itself, on clients, on deaths, on boot or on
stop, so nothing depends on a child being well-behaved. `KernelPool`: a promise that can
settle does, a worker starts or fails to, and a call to a living worker is answered,
as its computation is finite (`KernelFairness`); nobody has to start or cancel a run, and workers
need not be lost. `ChunkEngine`: goroutines
that can run do, and a chunk's computation is a finite loop. `ProjectEvents`: the
fast poll's timer, the server's answers and their arrival, the stream's ticker and delivery and the
stall timer are weakly fair; the idle poll, a reconnection and the user are not, so the page
may rely on none of them. `ReceiverPool` claims no liveness: every wait in it is for a goroutine that
runs, and a pool that stops short is a deadlock. `ModelStore` claims
no liveness: its one progress hazard, a lock that is kept, is `LocksAreGivenBack`,
a safety property. `EditHistory` and `GeometryEdit` claim none: nobody has to edit, and a
projection may stay out for ever.

Deadlock is checked in every run but `Tabs`, `Session` and `DeadLoad`, whose instances end
when their bounds are used up; in the others `Quiet`, and in `Server` a
receiver walk that has been answered, is the only step of a system at rest. That no run of the browser hangs is `EveryRunEnds`.

## 5. What is proved

TLAPS checks every theorem for arbitrary sets of runs, servers, clients, tools, models,
importers, readers and requests, from the `ASSUME`s of the modules alone: the sets of
identities do not overlap, "none" values are outside the sets they extend, and bounds are
naturals. No finiteness is assumed of any of these sets; a run's chunks and workers,
and the workers of a tab, are intervals of numbers.

**RunLifecycle_proofs.** All seven safety properties and the refinement.

1. `TypeCorrect`: one case per action.
2. `OneRewriteAtATime` is inductive with the type invariant: lock holder and program
   counters change together, deaths included. It is the fact everything else needs.
3. `NoLostUpdate` follows by induction from 2: a save by another thread requires the
   lock, which 2 says nobody else has.
4. `SupervisorInv` is the strengthening for the supervisor: what a supervisor state
   says of the child (settling only after the exit), of its owner and of its
   server's state. Alone `SettledRunIsClosed` is not inductive, because a child that
   had not exited could still save.
5. `RowStep` says how any step can change one row. `NoRowYet` (a child that has not filed
   its row has none), `OnlyASweepOverreaches`, `SettledRunIsClosed` and `RefusedHasNoRow`
   are each a case split on it rather than on every action. `CleanStop` and
   `RefusedRunIsOver` then follow without another induction: what the answer to a start
   promises is what `SupervisorInv` says of the supervisor it met.
6. `DirectoryInv` strengthens `RowHasDirectory` with the directory a child makes before it
   saves its row and the row a delete has taken out before it removes files.
7. `RegistryImplemented`: `Row` of the initial state is the abstract initial state, and
   each step maps to one abstract operation or a stutter (`SweepRefines`, `OneRowRefines`).

**ModelStore_proofs.** The inductive invariant is `SaveInv`: the type invariant,
`LocksAreGivenBack` and, for each writer, `Kept`, which says what a save
under way may rely on: past the check the precondition goes on holding, past a
rename what was renamed stays. `NoBlindOverwrite` alone is not inductive: it says
nothing of the step before the rename, nor that nobody else is past its check.
From `SaveInv` follow `NoBlindOverwrite`, the action property `NewModelFindsItsDump` and
`RegisterImplemented`.

**ChunkEngine_proofs.** All seven safety properties and the type invariant, by five
inductions, the first of which carries the others.

1. `OwnInv`: the type invariant, `Resting` (a run that is not collecting has no worker),
   `WorkerOwns` for each worker (one at work has a chunk, and the result it carries is
   its chunk's), `ChannelOwns` and `CachesOwn` (the same of the results in the channel, of the
   run's own chunk files and of the shared ones). It is one induction because the type of
   what a worker writes depends on what its step says it carries. `ResultsAreOwn` alone
   is not inductive: the level is wrong, if it ever is, in a file of another run's long
   before it is collected. The proof uses that `Key` is all of `Level`, the standard
   included, and that no step leaves a shared file half written. `WorkersEndFirst` follows
   from `Resting`.
2. `BlameInv` follows a failure from the worker through the channel to the outcome: each
   "failed" has a fault or a prune behind it, each "canceled" the caller or an earlier
   failure (`Explained`), and a run stops its own workers only over a failure
   (`StopExplained`). Hence `OnlyFaultsFail` and `CanceledOnlyIfAsked`.
3. `WholeInv` says why the collection cannot end early unnoticed: the producer closes the
   channel early only on a cancel or a failure (`ClosedWhenOffered`, which needs
   `StopExplained`), a worker leaves early only after a failure that is queued or collected
   (`LeftForCause`), and a chunk handed out is collected, queued or in work (`NothingLost`).
   With `Resting`, an empty channel and no worker left then mean every chunk (`EndsWhole`), and
   `CompletedMeansAll` follows for the outcome and the progress file. With `CanceledOnlyIfAsked` it
   is `OutcomeIsTrue`, which `Pool` checks.
4. `ProgressInv` bounds the progress file by what is collected and says a run whose file
   has a last word is about to return; `ProgressNeverGoesBack` is then a property of each
   kind of step that `StateFrame` lists.
5. `RoomInv` (`Room` of each run): no chunk is queued twice, or queued and in work, or in
   the work of two. The channel's contents inject into the chunks, so `ChannelHasRoom`.

`ChannelFrame`, `QueueFrame`, `ReceivedFrame` and `StateFrame` say how any step can change one
run's channel, collected results and progress file; the inductions split on those.
`FilesAssumption`, that neither an absent nor a half-written file passes for a level, is
the only assumption besides the bounds.

**ServerState_proofs, the terrain store.** The inductive invariant is `TerrainInv`: the type invariant,
`CheckedHolds` (what a save checked under the lock holds until it commits) and, as long as
nothing was `repeated`, `StagedApart` and `HashesHold`. `RememberedHashIsTheFiles` alone is not
inductive: a digest becomes wrong long before it is asked for, when a version somebody
has stat-ed, hashed or remembered is given to other content. `HashesHold` therefore covers
every reader between its two stats as well as the remembered entry, and `StagedApart`
keeps a file that waits to be renamed from sharing its version with the terrain.
`CheckedHolds` gives `GuardedSaves`, which states `GuardedSaveReplacesWhatItNamed`: no run
checks that one, because the lock alone implies it.

**ServerState_proofs, the estimate slot.** `SlotInv` adds to the type invariant `ClaimsInOrder` (each generation
is claimed once, and the slot holds the cancel function of the last claim until its own
release) and `OldOnesReplaced` (everything older in flight is cancelled). Without the first,
a release could be taken to drop a cancel function that is not its own, and
`NewestEstimateStands` would not follow.

**Workspace_proofs.** `WorkspaceInv` adds to the two properties `ReceiptsAreTrue` (a draft with a
hash is the content of that hash), `RequestsAreCurrent` (a save in flight is of the store as
it is unless it has moved since, and a fetch in flight is the one hydration waits for) and
`UntouchedIsClean` (until the user acts nothing is unsaved). The last two are what lets the
answer of a POST or a GET mark the store clean.

**KernelPool_proofs.** `Sound` holds always: whatever is referred to has been spawned, extras
are apart from every kernel, only the run with the lock has extras, a run that listens has a
kernel that was loaded, and shards in work are in the pool. `Orderly` holds while no load
was overtaken: live workers are held, the active one is the kernel, a run's kernel is the
tab's or dead, and a cancelled run has nothing alive. `OnlyAnOvertakenLoadLeaks` is a part of
`Orderly`, but not inductive without the others: a cancel terminates the *active* worker, so
nothing leaks only if that is the kernel, and a failed pool terminates its extras,
so nothing else dies only if they are apart. `FreshIsOne`, that one load spawns one worker,
counts with the library's cardinality theorems.

**RunProgress_proofs, the events feed.** `FeedInv` adds two facts to the type invariant. `StreamKept`: only a
visible list has a stream, the newest event on the wire is the last status told, and once
the wire is empty what is carried is what that status said. `PollKept`: on the idle poll, with
no fetch out and none failed, every open run of the list is carried. `OpenRunIsWatched` follows
and is not inductive alone: it says nothing of an older event that is still on the wire, nor of
the runs the stream will stop carrying when that is applied.

**RunProgress_proofs, the receiver pool.** Two inductions, after the arithmetic they rest on.

1. *The chunks.* `SizeIs`, `ChunkCountIs`, `ChunkIs` and `ChunksPartition` follow from the one
   fact `DivisionIs`: with every crew a chunk holds at least one receiver, and every receiver is
   of exactly one chunk. `LeastOfThem` finds the first refused receiver.
2. *The table.* `AllLevelsIs`: if every chunk has computed its own part, the parts
   concatenated in chunk order are the whole table. It is an induction along the chunks that
   needs no induction theorem over an operator: the concatenation is a recursive function, the
   prefixes of the whole table are another, and `SameRecursion` compares two such functions at
   the least index at which they differ.
3. `WalkInv` is the type invariant with what a walker holds (`Walking`: a chunk nobody has ended, dealt
   if pooled, and a receiver of it), that no two hold the same (`Apart`), and what a chunk ended
   with and why (`Ended`), or, for a walk without a pool, that nothing before its receiver was
   refused (`Alone`). `AnswerIsTheSequentialWalks` says nothing until the end, so it cannot be
   inductive alone. What it needs most is the last conjunct of `Ended`: a chunk that was dealt,
   never ran and is in nobody's hands was dropped over a cancel or a refusal, so
   an uncancelled pool without one has them all. `MovesAWalker` is the frame of every step of one walker.
4. `CountInv` bounds what is counted by the cardinality of `Behind`, the receivers the walkers have
   passed, and while no walk has failed the two are equal. A walk that computed its answer has
   passed every receiver, so it counted all of them, and the report at the last is always made.
   `ReportsKeepUp` is a property of each step of it.

**BrowserStore_proofs.** Five results by five inductions, each resting on the ones before it.

1. `StoreInv` is the type invariant, part by part, with what makes it inductive: what every
   list of runs is like (`Sane`: an id and a computation once each, none above the mark or
   younger than the last computation), that a computation has one id in all lists (`Lists`), what an
   operation holds at each of its steps (`Operation`), that whoever waits is in the queue
   (`Queued`), and a budget for those who have yet to compute (`Budgeted`). The cap and the
   evictions are proved about once (`NewestOf`, `OldestIs`, `EvictedIs`, `SetRunIs`): the oldest
   run exists by a least counterexample over the naturals, and `LaterIsCounted` bounds by cardinality.
2. `Writers` says what a writer knows of a document it read under the lock and that other
   tabs may not touch: its copy is the document until it puts its record in it, the id it
   minted is above the mark, and the list a retry starts from `Follows` the document. Its last
   conjunct gives `FailedStoreKeepsTheList`.
3. `DocumentChangesAreDeliberate` is `DocFollows` of every step that leaves `blind` false: each of the
   four that write the document follows from `Writers`, and no other touches it. It is also what
   the next two inductions know of a step's effect on the document.
4. `Rasters` adds to `StoredRunHasItsRaster` that a writer past its raster has one (`RasterIsWritten`) and
   that a delete nobody waits for is of a computation no list or writer will name again
   (`ForgottenIsNotStored`). Without the second, that delete could land on a stored run unrecorded.
5. `URLs` adds to `OnlyALostRunsURLIsStale` that every pair of an id and a computation a tab shows or lists is of a
   store that failed, retired in the document, or being stored by a retry (`NamesAreKept`).
   A retired id is below the mark, and what is minted is above it.

**Workspace_proofs, the undo stack.** That `EditSpec` implements `SnapshotHistory`, over files
that give no id to two objects.

1. *What each patch does.* `Kept` is a recursive function; `KeepsAsFar` and `KeptIs` show
   by least counterexample that it is what its recursion says, and from it (`KeptFront`, `KeptAround`, `KeptOnce`)
   follows what filtering does to a list, and that each edit's undo takes back
   its redo and its redo brings it again (`PutBack`, `DropBack` and the lemmas of each edit). Each needs that
   an id is of one object, so that is part of the invariant, `Sane`, and has to survive every edit,
   `Untaken` and `PlanMerge` included.
2. *How the stacks fit.* `HistoryInv` says there is a `line` of sane models with the store in it
   such that the commands before it carry each model to the next by redo and back by undo, and
   those after it likewise (`Along`). `Past` and `Future` are recursive functions that apply the
   patches of a stack from the store outwards; along such a line they are the line itself. So a
   step moves the store along the line, cuts the line behind it, forgets its oldest model, or
   merges two of its steps: the actions of `SnapshotHistory`.
3. *The open step.* A command is merged only into one with its key, and the merged one has
   the redo of the last and the undo of the first. `Open` says why that is still a step of the
   line: the top of the stack puts one object, found by the key in the store, and puts it there
   under both patches.

The hypothesis cannot be dropped. The store holds namesakes if a file does
(`model-store.test.ts:373`; `feature.id.duplicate` is a finding of the validator), and the undo of a removal then
brings back one of the two (section 6): with such a file TLC refutes the refinement in two steps.

**Workspace_proofs, reshaping on the map.** Over files that have each id once
(`FilesAreSound`, which TLC evaluates for the files of `Session`). `GeometryInv` is two halves.
`WorkspaceSound` is the invariant of the undo stack over lines of models whose objects are each in
the model's CRS or as a file brought them (`Placed`), with a step left open only over lon/lat. `PageInv` ties the page to it: the armed editor is of the
object selected, its copy is drawn from the shapes there are, and over lon/lat it is
the store's (`Right`); a question about a projection is in metres; and the drag after
the last has no moves. `ReshapingImplementsHistory`, `CoordinatesAlwaysTheStoresOrAFiles`,
`CopyIsAlwaysTheStores` and type correctness follow. The second is not inductive alone: an undo restores
coordinates from a patch captured long before, and only the line says in which CRS the
model will be by then. Nor is the third: a drop of the object, an undo or a late answer may change the
shape under the editor, and what re-arms it is the page's reaction in the same step (`Reacts`).

**Workspace_proofs, one drag is one undo step.** Over files that draw no moves of this page, too
(`FilesDrawNoMoves`: the model names a move for the drag it was made in, and what a file
holds, an export of this map included, is the file's own drawing). `OneGestureOneStep` speaks of the models on the line and is not
inductive: it says nothing of the editor's copy, of what is in flight, or of which step the
next move is merged into. `GestureInv` does.

1. *Shapes.* Against the drags so far a shape is `Finished` (all or nothing of each drag that ended,
   nothing of the one under way) or `UnderWay` (the same, but with all there is of that one). A drag that
   ends turns `UnderWay` into `Finished`; a move keeps `UnderWay` that way.
2. *The line.* `LineAt`: every model undo or redo can reach has finished shapes only, and over
   lon/lat no two neighbours are more than one drag of an object apart. `StoreAt` says the same of the store, except
   for the object of the step left open, which is under way.
3. *The open step.* `OpenAt`: if a step is open, a drag is, the editor is armed with the object of
   its key, nothing can be redone, and only that drag lies between the top of the line and the store. So a
   move is merged into a step of its own drag, or opens one. `ExecutedKeeps` is where the stack says
   so: a merge leaves the models behind the store alone. Since no step open is written as no
   key, this needs that a key is never the lack of one (`KeyAssumption`: it is
   `geometry:` and the id, `model-store.ts:431`, `554`).
4. *What is drawn elsewhere.* `EditorAt` and `AskedAt`: the copy is under way, what a projection was asked
   is finished. So an answer, however late, writes a finished shape (`DeliverDraws`,
   `DeliverLateDraws`).
5. *Undo in mid-drag.* The step that takes the store to the top of the line leaves the object
   without the drag, and the copy has it, so copy and store differ, the page re-arms, and the
   drag has ended (`StepHistoryDraws`, `OpenUndone`): nothing goes on to write its second half.

`GestureInvariant` is that induction over every step of the page, under `GeometryInv`;
`LineIsWhole` reads `OneGestureOneStep` off it. TLC evaluates the hypotheses for the files of `Session`.

**Only model-checked.** `CancelledRunSettles`, `SweepClosesOpenRows`, `EveryRunReturns`,
`EndIsShownBeforeTheIdlePoll` and `EveryRunEnds` are liveness under fairness, which this prover does not do.
`ServerTypeOK` and `SessionTypeOK`
only join type invariants that are proved one by one. The properties of the violated runs are refuted, not proved.

## 6. Where comments and code disagree

* **A run's directory can be removed under a live writer** (`LiveWriter`).
  `deleterun.go:67-69` promises otherwise, and `interrupted_runs.go:39-43` names a bare
  `aconiq run` as the one case in which a starting server closes a row whose child
  lives. A server that dies leaves its own child as another: the next server's
  sweep closes the row, and a closed row may be deleted.
* **A completed run can delete the LGLN tile cache** (`Tiles`). `handler_lgln.go:42-45`
  says a second request does not download the tiles again; `pruneRunCacheDirs`
  counts `lgln` as a run's cache, and it sorts first.
* **A proposal can be placed on a model the agent has not read** (`Proposal`).
  `facade_proposals.go:36-38` says "and nothing else"; the handler reads the model
  before the file lock and compares the agent's hash under it, so a second process
  that puts another model in and the first back around that read goes unnoticed.
* **A kernel that failed to load stays the answer** (`DeadLoad`). `kernel.ts:280-284` says a
  kernel that failed to load must not be the answer for the rest of the session, and
  `getKernel` clears the promise on failure. The load `cancelKernel` starts at 337-338
  has no such handler, so when it fails every later run of the tab is rejected with it.

Eight more disagreements are not stated by a run. They are read off the code; where the model
has the step, it does what the code does, and the properties name the exception.

* `run_create.go:95-97` answers with the child's reason "if the child stops before it ever
  creates" a row. It does so too when the last look cannot read the manifest (lines 141-159),
  and the run may be in the list all the same (`AnswerUnread`; `RefusedRunIsOver` says what holds).
* `removeFeature` drops every feature of an id and its undo brings back one.
  `model-store.ts:369-371` says that two features under one id are a state the store holds,
  and the test at `model-store.test.ts:107` that the removal is undoable.
* `updateFeatures` goes by positions so that a namesake is not overwritten
  (`model-store.ts:371-374`), but `signOffFeatures` (`pages/map.tsx:462`) has already resolved
  the ids through a map, which keeps the last, and that one is put in the first's place.
* `model-store.ts:25` says `crs` is the CRS of the stored coordinates; `mergeModel` keeps the
  workspace's and projects nothing, where `replaceBuildingsInBBox` refuses, and neither the
  import page nor its preview looks (`CoordinatesAreTheStoresOrAFiles` excepts a file's objects).
* `use-geometry-edit.ts:195-201` says a later shape contains the earlier; not if the feature
  was armed anew, or another one was, while the answer was out.
* `use-geometry-edit.ts:280-282` drops a shape that is *held* when the model moves; one that
  is *in flight* lands all the same, and so can undo an undo.
* `parallel.go:27` promises the sequential walk's refusal "in the same words". The walk of
  the first receiver also refuses a car park, which `ValidateReceivers` does not look at: with both an
  impossible car park and a wrong receiver that is not the first, one goroutine names the car
  park and the pool the receiver (`LotGivesWay`).
* `use-geometry-edit.ts:189-192` and `PLAN.md:1863` say a failed projection snaps back; the
  session stays armed on terra-draw's copy, and nothing reads the failure.

## 7. Not modelled, and why

* Numerics (standards, acoustics, geometry) and parsing: pure and floating-point or
  string-valued; nothing a model checker adds to the golden tests.
* Rendering of reports and exports, configuration, logging: I/O without shared
  state, except for the artifact references (plan, 13).
* The estimate's value (measured time), and in the browser the terrain retained for new workers, progress merging and kernel
  calls outside runs, the migration of the legacy document and browsers without Web Locks.
* The map's share of the code is small because most of the repository is numerics, importers,
  exporters and user interface: long sequential data transformations, in which nothing
  interleaves, waits or fails halfway. The parts that keep state are modelled.
* Windows' file locking and non-atomic file systems: the models are of the POSIX
  lock and rename the code is built for.
* `project.json`'s other contents: they travel in the same read-modify-write, and so
  `NoLostUpdate` covers them, but no property is about their values.
