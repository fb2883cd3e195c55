---------------------------- MODULE RunLifecycle ----------------------------
(***************************************************************************)
(* The life of the runs of one Aconiq project: the `aconiq run` children   *)
(* that compute them, the `aconiq serve` / `aconiq mcp` processes that     *)
(* start, supervise, cancel, delete and sweep them, and the manifest       *)
(* (.noise/project.json) that all of them rewrite under one file lock.     *)
(*                                                                         *)
(* A server process is one element of Servers: it boots at most once, so a *)
(* restart is the boot of another element.  A run is one element of Runs   *)
(* (the id the server, or a bare `aconiq run`, mints).                     *)
(***************************************************************************)
EXTENDS Naturals, FiniteSets

CONSTANTS Runs,        \* run ids
          BareRuns,    \* the runs started from a terminal, not by a server
          Servers,     \* server processes
          NoServer,    \* "no server", the owner of a bare run
          NoAgent,     \* "nobody", the holder of a free lock
          NoRun,       \* "no run", the target of an idle delete handler
          MaxFaults,   \* bound on the storage failures of a behaviour
          Overlap      \* may two servers live on one project at once?

ASSUME RunLifecycleAssumption ==
    /\ BareRuns \subseteq Runs
    /\ NoServer \notin Servers
    /\ NoRun \notin Runs
    /\ NoAgent \notin {"child", "settle"} \X Runs
    /\ NoAgent \notin {"sweep", "delete"} \X Servers
    /\ MaxFaults \in Nat
    /\ Overlap \in BOOLEAN

VARIABLES
    manifest,   \* manifest[r]: the status of r's row in project.json
    dir,        \* the runs whose .noise/runs/<id>/ exists
    lock,       \* holder of the manifest file lock
    copy,       \* copy[a]: the manifest a loaded under the lock
    child,      \* child[r]: where the `aconiq run` process of r is
    outcome,    \* outcome[r]: the terminal status the child decided on
    owner,      \* owner[r]: the server that started r
    sup,        \* sup[r]: the supervisor goroutine of r
    cancelled,  \* the runs whose context was cancelled, for whatever cause
    req,        \* req[r]: the POST /runs request that started r
    srv,        \* srv[s]: where server process s is
    del,        \* del[s]: the DELETE /runs/{id} handler of s
    target,     \* target[s]: the run that handler deletes
    swept,      \* runs whose open row a starting server closed (history)
    faults      \* storage failures so far

store   == <<manifest, dir, lock, copy>>
process == <<child, outcome>>
server  == <<owner, sup, cancelled, req, srv, del, target>>
vars    == <<store, process, server, swept, faults>>

Child(r)  == <<"child", r>>      \* the threads that may hold the lock
Settle(r) == <<"settle", r>>
Sweep(s)  == <<"sweep", s>>
Delete(s) == <<"delete", s>>
Agent == ({"child", "settle"} \X Runs) \cup ({"sweep", "delete"} \X Servers)

Status   == {"absent", "running", "completed", "failed"}
Terminal == {"completed", "failed"}
Manifest == [Runs -> Status]
NoRows   == [r \in Runs |-> "absent"]

ChildState == {"none", "preparing", "creating", "filed", "computing",
               "finalizing", "closing", "logging", "exited"}
SupState == {"none", "executing", "settling", "locking", "saving",
             "done", "leftopen", "dead"}
ReqState == {"none", "waiting", "accepted", "refused", "unread", "timeout", "gone"}
SrvState == {"unborn", "looking", "locking", "saving", "up", "stopping", "stopped", "dead"}
DelState == {"idle", "locking", "saving", "removing"}

TypeOK ==
    /\ manifest \in Manifest
    /\ dir \subseteq Runs
    /\ lock \in Agent \cup {NoAgent}
    /\ copy \in [Agent -> Manifest]
    /\ child \in [Runs -> ChildState]
    /\ outcome \in [Runs -> Terminal]
    /\ owner \in [Runs -> Servers \cup {NoServer}]
    /\ sup \in [Runs -> SupState]
    /\ cancelled \subseteq Runs
    /\ req \in [Runs -> ReqState]
    /\ srv \in [Servers -> SrvState]
    /\ del \in [Servers -> DelState]
    /\ target \in [Servers -> Runs \cup {NoRun}]
    /\ swept \subseteq Runs
    /\ faults \in 0..MaxFaults

Init ==
    /\ manifest = NoRows
    /\ dir = {}
    /\ lock = NoAgent
    /\ copy = [a \in Agent |-> NoRows]
    /\ child = [r \in Runs |-> "none"]
    /\ outcome = [r \in Runs |-> "failed"]
    /\ owner = [r \in Runs |-> NoServer]
    /\ sup = [r \in Runs |-> "none"]
    /\ cancelled = {}
    /\ req = [r \in Runs |-> "none"]
    /\ srv = [s \in Servers |-> "unborn"]
    /\ del = [s \in Servers |-> "idle"]
    /\ target = [s \in Servers |-> NoRun]
    /\ swept = {}
    /\ faults = 0

-----------------------------------------------------------------------------
(* The manifest lock and one read-modify-write under it.                   *)

AcquireUnlocked(a) ==      \* mutant: no file lock across processes
    /\ lock' = a
    /\ copy' = [copy EXCEPT ![a] = manifest]

\* LockManifest followed by the Load every holder starts with.
Acquire(a) ==
    /\ lock = NoAgent
    /\ lock' = a
    /\ copy' = [copy EXCEPT ![a] = manifest]

Release(a) ==
    /\ lock' = NoAgent
    /\ copy' = [copy EXCEPT ![a] = NoRows]

\* The kernel drops the lock of a process that dies.
ReleaseDying(agents) ==
    /\ lock' = IF lock \in agents THEN NoAgent ELSE lock
    /\ copy' = [a \in Agent |-> IF a \in agents THEN NoRows ELSE copy[a]]

\* Save writes the whole manifest the holder computed from its copy.
Save(rows) == manifest' = rows

\* A storage operation fails and leaves the manifest as it was.
Fault ==
    /\ faults < MaxFaults
    /\ faults' = faults + 1

Mine(s) == {r \in Runs : owner[r] = s}
Open(rows) == {r \in Runs : rows[r] = "running"}

Live(r) == child[r] \notin {"none", "exited"}
Serving(s) == srv[s] \in {"up", "stopping"}
Alive(s) == srv[s] \notin {"unborn", "stopped", "dead"}
Active(r) == sup[r] \in {"executing", "settling", "locking", "saving"}
Settling(r) == sup[r] \in {"locking", "saving"}

\* The handler mutex of a server: no other handler of it rewrites the manifest.
HandlerFree(s) ==
    /\ del[s] = "idle"
    /\ \A r \in Runs : owner[r] = s => ~Settling(r)

-----------------------------------------------------------------------------
(* The `aconiq run` child.                                                 *)

At(r, here) == child[r] = here
Go(r, there) == child' = [child EXCEPT ![r] = there]

\* `aconiq run` typed into a terminal.
StartBare(r) ==
    /\ r \in BareRuns
    /\ At(r, "none") /\ Go(r, "preparing")
    /\ UNCHANGED <<store, outcome, server, swept, faults>>

\* Every refusal of prepareRun comes before CreateRun and leaves no trace.
Refuse(r) ==
    /\ At(r, "preparing") /\ Go(r, "exited")
    /\ UNCHANGED <<store, outcome, server, swept, faults>>

\* CreateRun takes the lock and loads.  An id already in the list is refused
\* (Refuse); a minted one is not in it.
CreateLock(r) ==
    /\ At(r, "preparing") /\ Go(r, "creating")
    /\ manifest[r] = "absent"
    /\ Acquire(Child(r))
    /\ UNCHANGED <<manifest, dir, outcome, server, swept, faults>>

\* persistRun makes the run directory, the log and the provenance first ...
CreateFiles(r) ==
    /\ At(r, "creating")
    /\ \/ /\ Go(r, "filed")
          /\ dir' = dir \cup {r}
          /\ UNCHANGED <<lock, copy, faults>>
       \/ /\ Fault
          /\ Go(r, "exited")
          /\ dir' \in {dir, dir \cup {r}}
          /\ Release(Child(r))
    /\ UNCHANGED <<manifest, outcome, server, swept>>

\* ... and saves the row last.
CreateSave(r) ==
    /\ At(r, "filed")
    /\ \/ /\ Save([copy[Child(r)] EXCEPT ![r] = "running"])
          /\ Go(r, "computing")
          /\ UNCHANGED faults
       \/ /\ Fault
          /\ Go(r, "exited")
          /\ UNCHANGED manifest
    /\ Release(Child(r))
    /\ UNCHANGED <<dir, outcome, server, swept>>

\* The module computes and persists its results, or fails; without its
\* directory it cannot even record its provenance, and once past that point it
\* makes the directory again to hold its results.
Compute(r) ==
    /\ At(r, "computing") /\ Go(r, "finalizing")
    /\ \/ /\ outcome' = [outcome EXCEPT ![r] = "completed"]
          /\ dir' = dir \cup {r}
       \/ /\ outcome' = [outcome EXCEPT ![r] = "failed"]
          /\ UNCHANGED dir
    /\ UNCHANGED <<manifest, lock, copy, server, swept, faults>>

FinalLock(r) ==
    /\ At(r, "finalizing") /\ Go(r, "closing")
    /\ Acquire(Child(r))
    /\ UNCHANGED <<manifest, dir, outcome, server, swept, faults>>

\* saveRunStatus: the status is set whatever the row read, if there is a row.
FinalSave(r) ==
    /\ At(r, "closing")
    /\ \/ /\ copy[Child(r)][r] # "absent"
          /\ Save([copy[Child(r)] EXCEPT ![r] = outcome[r]])
          /\ Go(r, "logging")
          /\ UNCHANGED faults
       \/ /\ copy[Child(r)][r] = "absent"
          /\ Go(r, "exited")
          /\ UNCHANGED <<manifest, faults>>
       \/ /\ Fault
          /\ Go(r, "exited")
          /\ UNCHANGED manifest
    /\ Release(Child(r))
    /\ UNCHANGED <<dir, outcome, server, swept>>

\* writeFinalRunLog replaces run.log after the lock is released.
FinalLog(r) ==
    /\ At(r, "logging") /\ Go(r, "exited")
    /\ UNCHANGED <<store, outcome, server, swept, faults>>

\* The process is killed: out of memory, by a user, or by the server once the
\* interrupt grace is over.
Kill(r) ==
    /\ Live(r) /\ Go(r, "exited")
    /\ ReleaseDying({Child(r)})
    /\ UNCHANGED <<manifest, dir, outcome, server, swept, faults>>

-----------------------------------------------------------------------------
(* The supervisor of one run, in the server that started it.               *)

\* POST /runs mints the id and starts the child under a context of the
\* server's; a server that is shutting down starts nothing.
Start(s, r) ==
    /\ r \notin BareRuns
    /\ srv[s] = "up"
    /\ At(r, "none") /\ Go(r, "preparing")
    /\ owner' = [owner EXCEPT ![r] = s]
    /\ sup' = [sup EXCEPT ![r] = "executing"]
    /\ req' = [req EXCEPT ![r] = "waiting"]
    /\ UNCHANGED <<store, outcome, cancelled, srv, del, target, swept, faults>>

SupGo(r, there) == sup' = [sup EXCEPT ![r] = there]
CancelRun(r) == cancelled' = cancelled \cup {r}

ReapEarly(r) ==            \* mutant: the row is settled while the child lives
    /\ sup[r] = "executing"
    /\ SupGo(r, "settling")
    /\ UNCHANGED <<store, process, owner, cancelled, req, srv, del, target, swept, faults>>

\* execute returns: the child has exited.
Reap(r) ==
    /\ sup[r] = "executing"
    /\ At(r, "exited")
    /\ SupGo(r, "settling")
    /\ UNCHANGED <<store, process, owner, cancelled, req, srv, del, target, swept, faults>>

SettleLookPast(r) ==       \* mutant: a child's row is left to the child
    /\ sup[r] = "settling"
    /\ HandlerFree(owner[r])
    /\ SupGo(r, "done")
    /\ UNCHANGED <<store, process, owner, cancelled, req, srv, del, target, swept, faults>>

\* failOpenRuns looks before it locks; a look that fails settles nothing.
SettleLook(r) ==
    /\ sup[r] = "settling"
    /\ HandlerFree(owner[r])
    /\ \/ /\ IF r \in Open(manifest) THEN SupGo(r, "locking") ELSE SupGo(r, "done")
          /\ UNCHANGED faults
       \/ Fault /\ SupGo(r, "leftopen")
    /\ UNCHANGED <<store, process, owner, cancelled, req, srv, del, target, swept>>

SettleLock(r) ==
    /\ sup[r] = "locking" /\ SupGo(r, "saving")
    /\ Acquire(Settle(r))
    /\ UNCHANGED <<manifest, dir, process, owner, cancelled, req, srv, del, target, swept, faults>>

\* ... and decides again on the copy it saves.  A failed save leaves the row
\* open until the next server boots.
SettleSave(r) ==
    /\ sup[r] = "saving"
    /\ \/ /\ r \in Open(copy[Settle(r)])
          /\ Save([copy[Settle(r)] EXCEPT ![r] = "failed"])
          /\ SupGo(r, "done")
          /\ UNCHANGED faults
       \/ /\ r \notin Open(copy[Settle(r)])
          /\ SupGo(r, "done")
          /\ UNCHANGED <<manifest, faults>>
       \/ /\ Fault
          /\ SupGo(r, "leftopen")
          /\ UNCHANGED manifest
    /\ Release(Settle(r))
    /\ UNCHANGED <<dir, process, owner, cancelled, req, srv, del, target, swept>>

\* The POST /runs answer: the poll finds the row ...
AnswerFound(r) ==
    /\ req[r] = "waiting" /\ Serving(owner[r])
    /\ manifest[r] # "absent"
    /\ req' = [req EXCEPT ![r] = "accepted"]
    /\ UNCHANGED <<store, process, owner, sup, cancelled, srv, del, target, swept, faults>>

\* ... or the run is over and one last look finds none ...
AnswerRefused(r) ==
    /\ req[r] = "waiting" /\ Serving(owner[r])
    /\ sup[r] \in {"done", "leftopen"}
    /\ manifest[r] = "absent"
    /\ req' = [req EXCEPT ![r] = "refused"]
    /\ UNCHANGED <<store, process, owner, sup, cancelled, srv, del, target, swept, faults>>

\* ... or that look cannot read the manifest, and the child's reason (or the
\* storage's) is answered whatever the row says ...
AnswerUnread(r) ==
    /\ req[r] = "waiting" /\ Serving(owner[r])
    /\ sup[r] \in {"done", "leftopen"}
    /\ Fault
    /\ req' = [req EXCEPT ![r] = "unread"]
    /\ UNCHANGED <<store, process, owner, sup, cancelled, srv, del, target, swept>>

AnswerTimeoutOnly(r) ==    \* mutant: the client is answered, the child goes on
    /\ req[r] = "waiting" /\ Serving(owner[r])
    /\ req' = [req EXCEPT ![r] = "timeout"]
    /\ UNCHANGED <<store, process, owner, sup, cancelled, srv, del, target, swept, faults>>

\* ... or the wait times out and the run is told to stop ...
AnswerTimeout(r) ==
    /\ req[r] = "waiting" /\ Serving(owner[r])
    /\ req' = [req EXCEPT ![r] = "timeout"]
    /\ IF Active(r) THEN CancelRun(r) ELSE UNCHANGED cancelled
    /\ UNCHANGED <<store, process, owner, sup, srv, del, target, swept, faults>>

\* ... or the client goes away and the run computes on.
ClientGone(r) ==
    /\ req[r] = "waiting"
    /\ req' = [req EXCEPT ![r] = "gone"]
    /\ UNCHANGED <<store, process, owner, sup, cancelled, srv, del, target, swept, faults>>

-----------------------------------------------------------------------------
(* The server process.                                                     *)

SrvGo(s, there) == srv' = [srv EXCEPT ![s] = there]

Boot(s) ==
    /\ srv[s] = "unborn" /\ SrvGo(s, "looking")
    /\ Overlap \/ \A t \in Servers : ~Alive(t)
    /\ UNCHANGED <<store, process, owner, sup, cancelled, req, del, target, swept, faults>>

SweepLookPast(s) ==        \* mutant: a server boots without its sweep
    /\ srv[s] = "looking" /\ SrvGo(s, "up")
    /\ UNCHANGED <<store, process, owner, sup, cancelled, req, del, target, swept, faults>>

\* FailInterruptedRuns looks before it locks ...
SweepLook(s) ==
    /\ srv[s] = "looking"
    /\ \/ /\ IF Open(manifest) = {} THEN SrvGo(s, "up") ELSE SrvGo(s, "locking")
          /\ UNCHANGED faults
       \/ Fault /\ SrvGo(s, "dead")
    /\ UNCHANGED <<store, process, owner, sup, cancelled, req, del, target, swept>>

SweepLock(s) ==
    /\ srv[s] = "locking" /\ SrvGo(s, "saving")
    /\ Acquire(Sweep(s))
    /\ UNCHANGED <<manifest, dir, process, owner, sup, cancelled, req, del, target, swept, faults>>

\* ... then fails every open row of the copy it saves.  A server whose sweep
\* fails does not start.
SweepSave(s) ==
    LET rows == copy[Sweep(s)]
    IN  /\ srv[s] = "saving"
        /\ \/ /\ Save([r \in Runs |-> IF r \in Open(rows) THEN "failed" ELSE rows[r]])
              /\ swept' = swept \cup Open(rows)
              /\ SrvGo(s, "up")
              /\ UNCHANGED faults
           \/ /\ Fault
              /\ SrvGo(s, "dead")
              /\ UNCHANGED <<manifest, swept>>
        /\ Release(Sweep(s))
        /\ UNCHANGED <<dir, process, owner, sup, cancelled, req, del, target>>

\* POST /runs/{id}/cancel: only an open run of this server's is interrupted.
Cancel(s, r) ==
    /\ srv[s] = "up" /\ owner[r] = s
    /\ manifest[r] = "running"
    /\ Active(r)
    /\ CancelRun(r)
    /\ UNCHANGED <<store, process, owner, sup, req, srv, del, target, swept, faults>>

\* DELETE /runs/{id}: handler mutex, file lock, load, refusals ...
DeleteBegin(s, r) ==
    /\ srv[s] = "up" /\ HandlerFree(s)
    /\ del' = [del EXCEPT ![s] = "locking"]
    /\ target' = [target EXCEPT ![s] = r]
    /\ UNCHANGED <<store, process, owner, sup, cancelled, req, srv, swept, faults>>

DeleteLockFilesFirst(s) == \* mutant: the files go before the manifest
    /\ del[s] = "locking"
    /\ Acquire(Delete(s))
    /\ dir' = IF manifest[target[s]] \in Terminal THEN dir \ {target[s]} ELSE dir
    /\ del' = [del EXCEPT ![s] = "saving"]
    /\ UNCHANGED <<manifest, process, owner, sup, cancelled, req, srv, target, swept, faults>>

DeleteLock(s) ==
    /\ del[s] = "locking"
    /\ Acquire(Delete(s))
    /\ del' = [del EXCEPT ![s] = "saving"]
    /\ UNCHANGED <<manifest, dir, process, owner, sup, cancelled, req, srv, target, swept, faults>>

DeleteEnd(s) ==
    /\ del' = [del EXCEPT ![s] = "idle"]
    /\ target' = [target EXCEPT ![s] = NoRun]
    /\ Release(Delete(s))

DeleteRefuse(s) ==
    /\ del[s] = "saving"
    /\ \/ copy[Delete(s)][target[s]] \notin Terminal /\ UNCHANGED faults
       \/ Fault
    /\ DeleteEnd(s)
    /\ UNCHANGED <<manifest, dir, process, owner, sup, cancelled, req, srv, swept>>

\* ... then the manifest goes first ...
DeleteSave(s) ==
    /\ del[s] = "saving"
    /\ copy[Delete(s)][target[s]] \in Terminal
    /\ Save([copy[Delete(s)] EXCEPT ![target[s]] = "absent"])
    /\ del' = [del EXCEPT ![s] = "removing"]
    /\ UNCHANGED <<dir, lock, copy, process, owner, sup, cancelled, req, srv, target, swept, faults>>

\* ... and the directory after it, or a failed removal leaves it behind.
DeleteFiles(s) ==
    /\ del[s] = "removing"
    /\ \/ dir' = dir \ {target[s]} /\ UNCHANGED faults
       \/ Fault /\ UNCHANGED dir
    /\ DeleteEnd(s)
    /\ UNCHANGED <<manifest, process, owner, sup, cancelled, req, srv, swept>>

\* Supervisor.shutdown: no new runs, every run in flight interrupted.
Shutdown(s) ==
    /\ srv[s] = "up" /\ SrvGo(s, "stopping")
    /\ cancelled' = cancelled \cup {r \in Mine(s) : Active(r)}
    /\ UNCHANGED <<store, process, owner, sup, req, del, target, swept, faults>>

\* The process ends: its threads with it, the locks they hold released.
EndProcess(s, how) ==
    /\ SrvGo(s, how)
    /\ sup' = [r \in Runs |-> IF r \in Mine(s) /\ Active(r) THEN "dead" ELSE sup[r]]
    /\ req' = [r \in Runs |-> IF r \in Mine(s) /\ req[r] = "waiting" THEN "gone" ELSE req[r]]
    /\ del' = [del EXCEPT ![s] = "idle"]
    /\ target' = [target EXCEPT ![s] = NoRun]
    /\ ReleaseDying({Sweep(s), Delete(s)} \cup {Settle(r) : r \in Mine(s)})
    /\ UNCHANGED <<manifest, dir, process, owner, cancelled, swept, faults>>

StopAtOnce(s) ==           \* mutant: the stop does not wait for the runs
    /\ srv[s] = "stopping"
    /\ EndProcess(s, "stopped")

\* Every run has settled before the stop deadline.
Stop(s) ==
    /\ srv[s] = "stopping"
    /\ \A r \in Mine(s) : ~Active(r)
    /\ EndProcess(s, "stopped")

\* The stop deadline passes, or the process is killed: the children live on.
Die(s) == Alive(s) /\ EndProcess(s, "dead")

\* Everything has come to rest.
Quiet ==
    /\ \A s \in Servers : srv[s] \in {"stopped", "dead"}
    /\ \A r \in Runs : ~Live(r)
    /\ UNCHANGED vars

-----------------------------------------------------------------------------

ChildStep(r) ==
    \/ Refuse(r) \/ CreateLock(r) \/ CreateFiles(r) \/ CreateSave(r)
    \/ Compute(r) \/ FinalLock(r) \/ FinalSave(r) \/ FinalLog(r)
SettleStep(r) == Reap(r) \/ SettleLook(r) \/ SettleLock(r) \/ SettleSave(r)
AnswerStep(r) ==
    AnswerFound(r) \/ AnswerRefused(r) \/ AnswerUnread(r) \/ AnswerTimeout(r)
SweepStep(s) == SweepLook(s) \/ SweepLock(s) \/ SweepSave(s)
DeleteStep(s) == DeleteLock(s) \/ DeleteRefuse(s) \/ DeleteSave(s) \/ DeleteFiles(s)

Next ==
    \/ \E r \in Runs :
          \/ StartBare(r) \/ ChildStep(r) \/ Kill(r)
          \/ SettleStep(r) \/ AnswerStep(r) \/ ClientGone(r)
    \/ \E s \in Servers :
          \/ Boot(s) \/ SweepStep(s) \/ Shutdown(s) \/ Stop(s) \/ Die(s)
          \/ DeleteStep(s)
          \/ \E r \in Runs : Start(s, r) \/ Cancel(s, r) \/ DeleteBegin(s, r)
    \/ Quiet

Spec == Init /\ [][Next]_vars

\* runInterruptGrace after its interrupt a child is killed by the server that
\* started it.
GraceKillNever(r) ==       \* mutant: no WaitDelay on the child's command
    r \in cancelled /\ FALSE /\ Kill(r)
GraceKill(r) == r \in cancelled /\ sup[r] = "executing" /\ Kill(r)

(* Threads that can move do move, and a thread waiting for a lock that keeps *)
(* coming free gets it (both mutexes and flock queue their waiters).  No     *)
(* fairness makes a computation end, a client act, a process die, or a       *)
(* server boot or stop.                                                      *)
Fairness ==
    /\ \A r \in Runs :
          /\ WF_vars(CreateFiles(r) \/ CreateSave(r) \/ FinalSave(r) \/ FinalLog(r))
          /\ SF_vars(FinalLock(r))
          /\ WF_vars(GraceKill(r))
          /\ WF_vars(Reap(r) \/ SettleSave(r))
          /\ SF_vars(SettleLook(r)) /\ SF_vars(SettleLock(r))
    /\ \A s \in Servers :
          /\ WF_vars(SweepLook(s) \/ SweepSave(s)) /\ SF_vars(SweepLock(s))
          /\ WF_vars(DeleteRefuse(s) \/ DeleteSave(s) \/ DeleteFiles(s))
          /\ SF_vars(DeleteLock(s))

FairSpec == Spec /\ Fairness

-----------------------------------------------------------------------------
(* Safety.                                                                 *)

\* The file lock belongs to exactly the one thread that is inside a
\* read-modify-write, and to nobody once that thread or its process has died:
\* a killed `aconiq run` cannot leave the project locked (manifestlock.go).
OneRewriteAtATime ==
    /\ \A r \in Runs :
          /\ lock = Child(r) <=> child[r] \in {"creating", "filed", "closing"}
          /\ lock = Settle(r) <=> sup[r] = "saving"
    /\ \A s \in Servers :
          /\ lock = Sweep(s) <=> srv[s] = "saving"
          /\ lock = Delete(s) <=> del[s] \in {"saving", "removing"}

\* Whoever is about to save holds the manifest as it is now: no save can drop
\* another writer's change, in whatever process it was made.
NoLostUpdate ==
    /\ \A r \in Runs :
          /\ child[r] \in {"creating", "filed", "closing"} => copy[Child(r)] = manifest
          /\ sup[r] = "saving" => copy[Settle(r)] = manifest
    /\ \A s \in Servers :
          /\ srv[s] = "saving" => copy[Sweep(s)] = manifest
          /\ del[s] = "saving" => copy[Delete(s)] = manifest

\* The manifest never points at a run directory that is not there, through
\* creations, deletions, failed removals and deaths in the middle of either.
RowHasDirectory == \A r \in Runs : manifest[r] # "absent" => r \in dir

\* While a child is at work its row says "running", unless a starting server
\* wrote it off: neither a supervisor, a cancel nor a delete gets in its way.
OnlyASweepOverreaches ==
    \A r \in Runs \ swept :
        child[r] \in {"computing", "finalizing", "closing"} => manifest[r] = "running"

\* Once the supervisor has settled a run nothing will ever show it as running
\* again, however its child ended.
SettledRunIsClosed == \A r \in Runs : sup[r] = "done" => manifest[r] # "running"

\* A POST /runs answered with an error leaves no run behind that nobody minds.
\* Refused on a last look that found no row, the run never gets one.  Answered
\* without that look, or after the start timeout, it is over or told to stop,
\* and its row does not stay open unless the closing itself failed or the
\* server died before it.
RefusedRunIsOver ==
    \A r \in Runs :
        /\ req[r] = "refused" => manifest[r] = "absent"
        /\ req[r] \in {"refused", "unread"} => ~Live(r) /\ ~Active(r)
        /\ req[r] = "timeout" /\ Active(r) => r \in cancelled
        /\ req[r] \in {"unread", "timeout"} /\ manifest[r] = "running" =>
              Active(r) \/ sup[r] \in {"leftopen", "dead"}

\* A server that stopped in time has left no child computing and no row open,
\* except one whose closing could not be saved.
CleanStop ==
    \A s \in Servers : srv[s] = "stopped" =>
        \A r \in Mine(s) : ~Live(r) /\ (manifest[r] = "running" => sup[r] = "leftopen")

\* The manifest behaves as the abstract run list does: every save is one
\* operation of it, and a run that left the list never comes back.
Row == [r \in Runs |->
          IF manifest[r] # "absent" THEN manifest[r]
          ELSE IF child[r] \in {"none", "preparing", "creating", "filed"} THEN "new"
          ELSE "gone"]
Registry == INSTANCE RunRegistry WITH row <- Row
ImplementsRegistry == Registry!Spec

-----------------------------------------------------------------------------
(* Liveness.                                                               *)

\* A run whose context was cancelled (by a client, by the start timeout or by
\* the shutdown) is settled, even if its child ignores the interrupt.
CancelledRunSettles == \A r \in Runs : (r \in cancelled) ~> ~Active(r)

\* A row that is open when a server starts does not stay open: it is a spinner
\* in the UI that nothing else would ever stop.
SweepClosesOpenRows ==
    \A s \in Servers, r \in Runs :
        (srv[s] = "looking" /\ manifest[r] = "running")
            ~> (manifest[r] # "running" \/ srv[s] = "dead")

-----------------------------------------------------------------------------
(* What the comments say and the code does not keep.                       *)

\* deleterun.go: a run whose directory a live `aconiq run` is still writing is
\* left alone.  (A starting server closes the row of a dead server's child that
\* still computes, and a closed row may be deleted.)
WriterKeepsItsDirectory == \A r \in Runs : child[r] = "computing" => r \in dir
=============================================================================
