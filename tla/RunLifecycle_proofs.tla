------------------------ MODULE RunLifecycle_proofs ------------------------
(***************************************************************************)
(* Proofs about RunLifecycle, for every set of runs and servers.           *)
(***************************************************************************)
EXTENDS RunLifecycle, TLAPS

LEMMA AgentTypes ==
    /\ \A r \in Runs : Child(r) \in Agent /\ Settle(r) \in Agent
    /\ \A s \in Servers : Sweep(s) \in Agent /\ Delete(s) \in Agent
    /\ NoAgent \notin Agent
  BY RunLifecycleAssumption DEF Agent, Child, Settle, Sweep, Delete

LEMMA AgentsDiffer ==
    /\ \A r, q \in Runs :
          /\ Child(r) # Settle(q)
          /\ (Child(r) = Child(q)) => r = q
          /\ (Settle(r) = Settle(q)) => r = q
    /\ \A s, t \in Servers :
          /\ Sweep(s) # Delete(t)
          /\ (Sweep(s) = Sweep(t)) => s = t
          /\ (Delete(s) = Delete(t)) => s = t
    /\ \A r \in Runs, s \in Servers :
          /\ Child(r) # Sweep(s) /\ Child(r) # Delete(s)
          /\ Settle(r) # Sweep(s) /\ Settle(r) # Delete(s)
  BY DEF Child, Settle, Sweep, Delete

LEMMA Constants == BareRuns \subseteq Runs /\ MaxFaults \in Nat /\ NoRun \notin Runs
  BY RunLifecycleAssumption

LEMMA NoRowsType == NoRows \in Manifest
  BY DEF Manifest, NoRows, Status

LEMMA UpdateType ==
    ASSUME NEW m \in Manifest, NEW r \in Runs, NEW status \in Status
    PROVE  [m EXCEPT ![r] = status] \in Manifest
  BY DEF Manifest

LEMMA AcquireType ==
    ASSUME TypeOK, NEW a \in Agent, Acquire(a)
    PROVE  lock' \in Agent \cup {NoAgent} /\ copy' \in [Agent -> Manifest]
  BY DEF TypeOK, Acquire

THEOREM TypeCorrect == Spec => []TypeOK
<1>1. Init => TypeOK
  BY RunLifecycleAssumption DEF Init, TypeOK, NoRows, Manifest, Status, Terminal,
       ChildState, SupState, ReqState, SrvState, DelState
<1>2. TypeOK /\ [Next]_vars => TypeOK'
  <2> SUFFICES ASSUME TypeOK, [Next]_vars PROVE TypeOK'
    OBVIOUS
  <2> USE Constants, AgentTypes, NoRowsType
        DEF TypeOK, Terminal, ChildState, SupState, ReqState, SrvState, DelState
  <2>1. ASSUME NEW r \in Runs, StartBare(r) \/ Refuse(r) PROVE TypeOK'
    BY <2>1 DEF StartBare, Refuse, At, Go, store, server
  <2>2. ASSUME NEW r \in Runs, CreateLock(r) \/ FinalLock(r) PROVE TypeOK'
    <3>1. lock' \in Agent \cup {NoAgent} /\ copy' \in [Agent -> Manifest]
      BY <2>2, AcquireType DEF CreateLock, FinalLock
    <3>2. child' \in [Runs -> ChildState]
      BY <2>2 DEF CreateLock, FinalLock, Go
    <3> QED BY <2>2, <3>1, <3>2 DEF CreateLock, FinalLock, server
  <2>3. ASSUME NEW r \in Runs, CreateFiles(r) PROVE TypeOK'
    <3>1. faults' \in 0..MaxFaults
      BY <2>3 DEF CreateFiles, Fault
    <3>2. lock' \in Agent \cup {NoAgent} /\ copy' \in [Agent -> Manifest]
      BY <2>3 DEF CreateFiles, Release
    <3>3. dir' \subseteq Runs /\ child' \in [Runs -> ChildState]
      BY <2>3 DEF CreateFiles, Go
    <3> QED BY <2>3, <3>1, <3>2, <3>3 DEF CreateFiles, server
  <2>4. ASSUME NEW r \in Runs, CreateSave(r) \/ FinalSave(r) PROVE TypeOK'
    <3>1. copy[Child(r)] \in Manifest
      OBVIOUS
    <3>2. manifest' \in Manifest
      <4>1. [copy[Child(r)] EXCEPT ![r] = "running"] \in Manifest
        BY <3>1, UpdateType DEF Status
      <4>2. [copy[Child(r)] EXCEPT ![r] = outcome[r]] \in Manifest
        BY <3>1, UpdateType DEF Status
      <4> QED BY <2>4, <4>1, <4>2 DEF CreateSave, FinalSave, Save
    <3>3. faults' \in 0..MaxFaults
      BY <2>4 DEF CreateSave, FinalSave, Fault
    <3> QED BY <2>4, <3>2, <3>3 DEF CreateSave, FinalSave, Release, Go, server
  <2>5. ASSUME NEW r \in Runs, Compute(r) \/ FinalLog(r) PROVE TypeOK'
    BY <2>5 DEF Compute, FinalLog, At, Go, store, server
  <2>6. ASSUME NEW r \in Runs, Kill(r) PROVE TypeOK'
    BY <2>6 DEF Kill, ReleaseDying, Go, server
  <2>7. ASSUME NEW r \in Runs, SettleStep(r) PROVE TypeOK'
    <3>1. CASE Reap(r) \/ SettleLock(r)
      <4>1. lock' \in Agent \cup {NoAgent} /\ copy' \in [Agent -> Manifest]
        BY <3>1, AcquireType DEF Reap, SettleLock, store
      <4>2. sup' \in [Runs -> SupState]
        BY <3>1 DEF Reap, SettleLock, SupGo
      <4> QED BY <3>1, <4>1, <4>2 DEF Reap, SettleLock, store, process
    <3>2. CASE SettleSave(r)
      <4>1. manifest' \in Manifest
        <5>1. copy[Settle(r)] \in Manifest
          OBVIOUS
        <5>2. [copy[Settle(r)] EXCEPT ![r] = "failed"] \in Manifest
          BY <5>1, UpdateType DEF Status
        <5> QED BY <3>2, <5>2 DEF SettleSave, Save
      <4>2. faults' \in 0..MaxFaults
        BY <3>2 DEF SettleSave, Fault
      <4> QED BY <3>2, <4>1, <4>2 DEF SettleSave, Release, SupGo, process
    <3>3. CASE SettleLook(r)
      <4>1. faults' \in 0..MaxFaults
        BY <3>3 DEF SettleLook, Fault
      <4>2. sup' \in [Runs -> SupState]
        BY <3>3 DEF SettleLook, SupGo
      <4> QED BY <3>3, <4>1, <4>2 DEF SettleLook, store, process
    <3> QED BY <2>7, <3>1, <3>2, <3>3 DEF SettleStep
  <2>8. ASSUME NEW r \in Runs, AnswerStep(r) \/ ClientGone(r) PROVE TypeOK'
    <3>1. UNCHANGED <<store, process, owner, sup, srv, del, target, swept>>
      BY <2>8 DEF AnswerStep, AnswerFound, AnswerRefused, AnswerUnread, AnswerTimeout, ClientGone
    <3>2. \E answer \in {"accepted", "refused", "unread", "timeout", "gone"} :
              req' = [req EXCEPT ![r] = answer]
      BY <2>8 DEF AnswerStep, AnswerFound, AnswerRefused, AnswerUnread, AnswerTimeout, ClientGone
    <3>3. cancelled' \subseteq Runs
      BY <2>8 DEF AnswerStep, AnswerFound, AnswerRefused, AnswerUnread, AnswerTimeout, ClientGone, CancelRun
    <3>4. req' \in [Runs -> ReqState]
      BY <3>2
    <3>5. faults' \in 0..MaxFaults
      BY <2>8 DEF AnswerStep, AnswerFound, AnswerRefused, AnswerUnread, AnswerTimeout, ClientGone,
                  Fault
    <3> QED BY <3>1, <3>3, <3>4, <3>5 DEF store, process
  <2>9. ASSUME NEW s \in Servers, Boot(s) \/ SweepStep(s) PROVE TypeOK'
    <3>1. CASE Boot(s) \/ SweepLock(s)
      <4>1. lock' \in Agent \cup {NoAgent} /\ copy' \in [Agent -> Manifest]
        BY <3>1, AcquireType DEF Boot, SweepLock, store
      <4>2. srv' \in [Servers -> SrvState]
        BY <3>1 DEF Boot, SweepLock, SrvGo
      <4> QED BY <3>1, <4>1, <4>2 DEF Boot, SweepLock, store, process
    <3>2. CASE SweepSave(s)
      <4>1. manifest' \in Manifest
        <5>1. copy[Sweep(s)] \in Manifest
          OBVIOUS
        <5> QED BY <3>2, <5>1 DEF SweepSave, Save, Manifest, Status
      <4>2. faults' \in 0..MaxFaults
        BY <3>2 DEF SweepSave, Fault
      <4>3. swept' \subseteq Runs
        BY <3>2 DEF SweepSave, Open
      <4> QED BY <3>2, <4>1, <4>2, <4>3 DEF SweepSave, Release, SrvGo, process
    <3>3. CASE SweepLook(s)
      <4>1. faults' \in 0..MaxFaults
        BY <3>3 DEF SweepLook, Fault
      <4>2. srv' \in [Servers -> SrvState]
        BY <3>3 DEF SweepLook, SrvGo
      <4> QED BY <3>3, <4>1, <4>2 DEF SweepLook, store, process
    <3> QED BY <2>9, <3>1, <3>2, <3>3 DEF SweepStep
  <2>10. ASSUME NEW s \in Servers, DeleteStep(s) PROVE TypeOK'
    <3>1. CASE DeleteLock(s)
      <4>1. lock' \in Agent \cup {NoAgent} /\ copy' \in [Agent -> Manifest]
        BY <3>1, AcquireType DEF DeleteLock
      <4> QED BY <3>1, <4>1 DEF DeleteLock, process
    <3>2. CASE DeleteSave(s)
      <4>1. copy[Delete(s)] \in Manifest
        OBVIOUS
      <4>2. manifest' \in Manifest
        BY <3>2, <4>1 DEF DeleteSave, Save, Manifest, Status
      <4> QED BY <3>2, <4>2 DEF DeleteSave, process
    <3>3. CASE DeleteRefuse(s) \/ DeleteFiles(s)
      <4>1. faults' \in 0..MaxFaults
        BY <3>3 DEF DeleteRefuse, DeleteFiles, Fault
      <4>2. lock' \in Agent \cup {NoAgent} /\ copy' \in [Agent -> Manifest]
        BY <3>3 DEF DeleteRefuse, DeleteFiles, DeleteEnd, Release
      <4>3. del' \in [Servers -> DelState] /\ target' \in [Servers -> Runs \cup {NoRun}]
        BY <3>3 DEF DeleteRefuse, DeleteFiles, DeleteEnd
      <4>4. dir' \subseteq Runs
        BY <3>3 DEF DeleteRefuse, DeleteFiles
      <4> QED BY <3>3, <4>1, <4>2, <4>3, <4>4 DEF DeleteRefuse, DeleteFiles, process
    <3> QED BY <2>10, <3>1, <3>2, <3>3 DEF DeleteStep
  <2>11. ASSUME NEW s \in Servers, NEW r \in Runs,
                Start(s, r) \/ Cancel(s, r) \/ DeleteBegin(s, r)
         PROVE TypeOK'
    <3>1. CASE Start(s, r)
      <4>1. owner' \in [Runs -> Servers \cup {NoServer}]
        BY <3>1 DEF Start
      <4>2. child' \in [Runs -> ChildState] /\ sup' \in [Runs -> SupState]
        BY <3>1 DEF Start, Go
      <4>3. req' \in [Runs -> ReqState]
        BY <3>1 DEF Start
      <4> QED BY <3>1, <4>1, <4>2, <4>3 DEF Start, store
    <3>2. CASE Cancel(s, r)
      BY <3>2 DEF Cancel, CancelRun, store, process
    <3>3. CASE DeleteBegin(s, r)
      BY <3>3 DEF DeleteBegin, store, process
    <3> QED BY <2>11, <3>1, <3>2, <3>3
  <2>12. ASSUME NEW s \in Servers, Shutdown(s) PROVE TypeOK'
    BY <2>12 DEF Shutdown, SrvGo, Mine, store, process
  <2>13. ASSUME NEW s \in Servers, Stop(s) \/ Die(s) PROVE TypeOK'
    <3>1. srv' \in [Servers -> SrvState]
      BY <2>13 DEF Stop, Die, EndProcess, SrvGo
    <3>2. sup' \in [Runs -> SupState] /\ req' \in [Runs -> ReqState]
      BY <2>13 DEF Stop, Die, EndProcess
    <3>3. lock' \in Agent \cup {NoAgent} /\ copy' \in [Agent -> Manifest]
      BY <2>13 DEF Stop, Die, EndProcess, ReleaseDying
    <3>4. del' \in [Servers -> DelState] /\ target' \in [Servers -> Runs \cup {NoRun}]
      BY <2>13 DEF Stop, Die, EndProcess
    <3>5. UNCHANGED <<manifest, dir, child, outcome, owner, cancelled, swept, faults>>
      BY <2>13 DEF Stop, Die, EndProcess, process
    <3> QED BY <3>1, <3>2, <3>3, <3>4, <3>5
  <2>14. CASE Quiet \/ UNCHANGED vars
    BY <2>14 DEF Quiet, vars, store, process, server
  <2> QED
    BY <2>1, <2>2, <2>3, <2>4, <2>5, <2>6, <2>7, <2>8, <2>9, <2>10, <2>11, <2>12, <2>13, <2>14
       DEF Next, ChildStep
<1> QED BY <1>1, <1>2, PTL DEF Spec

(***************************************************************************)
(* A supervisor and the process, the request and the child it belongs to.  *)
(* A run has a supervisor only if a server started it; the supervisor is   *)
(* past execute only when its child has exited; it is at work only in a    *)
(* serving process; a refusal, or an answer without a look, is given only  *)
(* once it is over, and the start timeout has cancelled what is at work.   *)
(***************************************************************************)
SupervisorInv ==
    \A r \in Runs :
        /\ child[r] = "none" => sup[r] = "none" /\ req[r] = "none"
        /\ sup[r] # "none" <=> owner[r] \in Servers
        /\ req[r] # "none" => sup[r] # "none"
        /\ sup[r] \in {"settling", "locking", "saving", "done", "leftopen"} => child[r] = "exited"
        /\ Active(r) => Serving(owner[r])
        /\ sup[r] = "dead" => srv[owner[r]] = "dead"
        /\ req[r] \in {"refused", "unread"} => sup[r] \in {"done", "leftopen"}
        /\ req[r] = "timeout" /\ Active(r) => r \in cancelled

LEMMA SupervisorStep == TypeOK /\ SupervisorInv /\ [Next]_vars => SupervisorInv'
<1> SUFFICES ASSUME TypeOK, SupervisorInv, [Next]_vars PROVE SupervisorInv'
  OBVIOUS
<1> USE DEF TypeOK, SupervisorInv, Active, Serving
<1>1. ASSUME NEW r \in Runs, StartBare(r) \/ ChildStep(r) \/ Kill(r) PROVE SupervisorInv'
  <2>1. UNCHANGED <<owner, sup, req, srv, cancelled>>
    BY <1>1 DEF StartBare, ChildStep, Refuse, CreateLock, CreateFiles, CreateSave, Compute,
                FinalLock, FinalSave, FinalLog, Kill, server
  <2>2. \E pc \in ChildState \ {"none"} : child' = [child EXCEPT ![r] = pc]
    BY <1>1 DEF StartBare, ChildStep, Refuse, CreateLock, CreateFiles, CreateSave, Compute,
                FinalLock, FinalSave, FinalLog, Kill, Go, ChildState
  <2>3. child[r] # "exited"
    BY <1>1 DEF StartBare, ChildStep, Refuse, CreateLock, CreateFiles, CreateSave, Compute,
                FinalLock, FinalSave, FinalLog, Kill, At, Live
  <2> QED BY <2>1, <2>2, <2>3
<1>2. ASSUME NEW r \in Runs, SettleStep(r) PROVE SupervisorInv'
  <2>1. UNCHANGED <<child, owner, req, srv, cancelled>>
    BY <1>2 DEF SettleStep, Reap, SettleLook, SettleLock, SettleSave, process
  <2>2. /\ sup[r] \in {"executing", "settling", "locking", "saving"}
        /\ sup[r] = "executing" => child[r] = "exited"
    BY <1>2 DEF SettleStep, Reap, SettleLook, SettleLock, SettleSave, At
  <2>3. \E pc \in {"settling", "locking", "saving", "done", "leftopen"} :
            sup' = [sup EXCEPT ![r] = pc]
    BY <1>2 DEF SettleStep, Reap, SettleLook, SettleLock, SettleSave, SupGo
  <2> QED BY <2>1, <2>2, <2>3
<1>3. ASSUME NEW r \in Runs, AnswerStep(r) \/ ClientGone(r) PROVE SupervisorInv'
  BY <1>3 DEF AnswerStep, AnswerFound, AnswerRefused, AnswerUnread, AnswerTimeout, ClientGone, CancelRun,
              process
<1>4. ASSUME NEW s \in Servers, Boot(s) \/ SweepStep(s) PROVE SupervisorInv'
  <2>1. UNCHANGED <<child, owner, sup, req, cancelled>>
    BY <1>4 DEF Boot, SweepStep, SweepLook, SweepLock, SweepSave, process
  <2>2. /\ srv[s] \in {"unborn", "looking", "locking", "saving"}
        /\ \E pc \in SrvState : srv' = [srv EXCEPT ![s] = pc]
    BY <1>4 DEF Boot, SweepStep, SweepLook, SweepLock, SweepSave, SrvGo, SrvState
  <2> QED BY <2>1, <2>2
<1>5. ASSUME NEW s \in Servers, DeleteStep(s) PROVE SupervisorInv'
  BY <1>5 DEF DeleteStep, DeleteLock, DeleteRefuse, DeleteSave, DeleteFiles, process
<1>6. ASSUME NEW s \in Servers, NEW r \in Runs, Start(s, r) PROVE SupervisorInv'
  <2>1. UNCHANGED <<srv, cancelled>> /\ srv[s] = "up" /\ owner' = [owner EXCEPT ![r] = s]
    BY <1>6 DEF Start
  <2>2. /\ child' = [child EXCEPT ![r] = "preparing"]
        /\ sup' = [sup EXCEPT ![r] = "executing"]
        /\ req' = [req EXCEPT ![r] = "waiting"]
    BY <1>6 DEF Start, Go
  <2> QED BY <2>1, <2>2
<1>7. ASSUME NEW s \in Servers, NEW r \in Runs, Cancel(s, r) \/ DeleteBegin(s, r)
      PROVE SupervisorInv'
  BY <1>7 DEF Cancel, DeleteBegin, CancelRun, process
<1>8. ASSUME NEW s \in Servers, Shutdown(s) PROVE SupervisorInv'
  BY <1>8 DEF Shutdown, SrvGo, process
<1>9. ASSUME NEW s \in Servers, Stop(s) \/ Die(s) PROVE SupervisorInv'
  <2>1. UNCHANGED <<child, owner, cancelled>>
    BY <1>9 DEF Stop, Die, EndProcess, process
  <2>2. /\ srv' = [srv EXCEPT ![s] = srv'[s]]
        /\ srv'[s] = "dead" \/ \A r \in Mine(s) : ~Active(r)
    BY <1>9 DEF Stop, Die, EndProcess, SrvGo
  <2>3. sup' = [r \in Runs |-> IF r \in Mine(s) /\ Active(r) THEN "dead" ELSE sup[r]]
    BY <1>9 DEF Stop, Die, EndProcess
  <2>4. req' = [r \in Runs |-> IF r \in Mine(s) /\ req[r] = "waiting" THEN "gone" ELSE req[r]]
    BY <1>9 DEF Stop, Die, EndProcess
  <2>5. srv[s] # "dead"
    BY <1>9 DEF Stop, Die, Alive
  <2> QED BY <2>1, <2>2, <2>3, <2>4, <2>5 DEF Mine
<1>10. CASE Quiet \/ UNCHANGED vars
  BY <1>10 DEF Quiet, vars, process, server
<1> QED
  BY <1>1, <1>2, <1>3, <1>4, <1>5, <1>6, <1>7, <1>8, <1>9, <1>10 DEF Next

THEOREM SupervisorInvHolds == Spec => []SupervisorInv
<1>1. Init => SupervisorInv
  BY RunLifecycleAssumption DEF Init, SupervisorInv, Active
<1> QED BY <1>1, TypeCorrect, SupervisorStep, PTL DEF Spec

(***************************************************************************)
(* The lock.  Its holder is the one thread inside a read-modify-write: a   *)
(* step that enters one acquires a free lock, a step that leaves one, or   *)
(* ends the process that is in one, frees it, and nothing else touches it. *)
(***************************************************************************)
LEMMA OneRewriteStep ==
    TypeOK /\ SupervisorInv /\ OneRewriteAtATime /\ [Next]_vars => OneRewriteAtATime'
<1> SUFFICES ASSUME TypeOK, SupervisorInv, OneRewriteAtATime, [Next]_vars PROVE OneRewriteAtATime'
  OBVIOUS
<1> USE AgentTypes, AgentsDiffer DEF TypeOK, OneRewriteAtATime
<1>1. ASSUME NEW r \in Runs, StartBare(r) \/ Refuse(r) \/ Compute(r) \/ FinalLog(r)
      PROVE OneRewriteAtATime'
  BY <1>1 DEF StartBare, Refuse, Compute, FinalLog, At, Go, store, server
<1>2. ASSUME NEW r \in Runs, CreateLock(r) \/ FinalLock(r) PROVE OneRewriteAtATime'
  BY <1>2 DEF CreateLock, FinalLock, Acquire, At, Go, server
<1>3. ASSUME NEW r \in Runs, CreateFiles(r) PROVE OneRewriteAtATime'
  BY <1>3 DEF CreateFiles, Release, At, Go, server
<1>4. ASSUME NEW r \in Runs, CreateSave(r) \/ FinalSave(r) PROVE OneRewriteAtATime'
  BY <1>4 DEF CreateSave, FinalSave, Release, At, Go, server
<1>5. ASSUME NEW r \in Runs, Kill(r) PROVE OneRewriteAtATime'
  BY <1>5 DEF Kill, ReleaseDying, Live, Go, server
<1>6. ASSUME NEW r \in Runs, SettleStep(r) PROVE OneRewriteAtATime'
  <2>1. CASE Reap(r) \/ SettleLook(r)
    BY <2>1 DEF Reap, SettleLook, SupGo, store, process
  <2>2. CASE SettleLock(r)
    BY <2>2 DEF SettleLock, Acquire, SupGo, process
  <2>3. CASE SettleSave(r)
    BY <2>3 DEF SettleSave, Release, SupGo, process
  <2> QED BY <1>6, <2>1, <2>2, <2>3 DEF SettleStep
<1>7. ASSUME NEW r \in Runs, AnswerStep(r) \/ ClientGone(r) PROVE OneRewriteAtATime'
  BY <1>7 DEF AnswerStep, AnswerFound, AnswerRefused, AnswerUnread, AnswerTimeout, ClientGone, store, process
<1>8. ASSUME NEW s \in Servers, Boot(s) \/ SweepStep(s) PROVE OneRewriteAtATime'
  <2>1. CASE Boot(s) \/ SweepLook(s)
    BY <2>1 DEF Boot, SweepLook, SrvGo, store, process
  <2>2. CASE SweepLock(s)
    BY <2>2 DEF SweepLock, Acquire, SrvGo, process
  <2>3. CASE SweepSave(s)
    BY <2>3 DEF SweepSave, Release, SrvGo, process
  <2> QED BY <1>8, <2>1, <2>2, <2>3 DEF SweepStep
<1>9. ASSUME NEW s \in Servers, DeleteStep(s) PROVE OneRewriteAtATime'
  <2>1. CASE DeleteLock(s)
    BY <2>1 DEF DeleteLock, Acquire, process
  <2>2. CASE DeleteSave(s)
    BY <2>2 DEF DeleteSave, process
  <2>3. CASE DeleteRefuse(s) \/ DeleteFiles(s)
    BY <2>3 DEF DeleteRefuse, DeleteFiles, DeleteEnd, Release, process
  <2> QED BY <1>9, <2>1, <2>2, <2>3 DEF DeleteStep
<1>10. ASSUME NEW s \in Servers, NEW r \in Runs, Start(s, r) \/ Cancel(s, r) \/ DeleteBegin(s, r)
       PROVE OneRewriteAtATime'
  <2>1. CASE Start(s, r)
    <3>1. child' = [child EXCEPT ![r] = "preparing"] /\ child[r] = "none"
      BY <2>1 DEF Start, At, Go
    <3>2. sup' = [sup EXCEPT ![r] = "executing"] /\ UNCHANGED <<lock, srv, del>>
      BY <2>1 DEF Start, store
    <3>3. sup[r] = "none"
      BY <3>1 DEF SupervisorInv
    <3> QED BY <3>1, <3>2, <3>3
  <2>2. CASE Cancel(s, r)
    BY <2>2 DEF Cancel, store, process
  <2>3. CASE DeleteBegin(s, r)
    BY <2>3 DEF DeleteBegin, HandlerFree, store, process
  <2> QED BY <1>10, <2>1, <2>2, <2>3
<1>11. ASSUME NEW s \in Servers, Shutdown(s) PROVE OneRewriteAtATime'
  BY <1>11 DEF Shutdown, SrvGo, store, process
<1>12. ASSUME NEW s \in Servers, Stop(s) \/ Die(s) PROVE OneRewriteAtATime'
  <2> DEFINE Gone == {Sweep(s), Delete(s)} \cup {Settle(r) : r \in Mine(s)}
  <2>1. lock' = IF lock \in Gone THEN NoAgent ELSE lock
    BY <1>12 DEF Stop, Die, EndProcess, ReleaseDying
  <2>2. child' = child
    BY <1>12 DEF Stop, Die, EndProcess, process
  <2>3. srv' = [srv EXCEPT ![s] = srv'[s]] /\ srv'[s] \in {"stopped", "dead"}
    BY <1>12 DEF Stop, Die, EndProcess, SrvGo
  <2>4. del' = [del EXCEPT ![s] = "idle"]
    BY <1>12 DEF Stop, Die, EndProcess
  <2>5. sup' = [r \in Runs |-> IF r \in Mine(s) /\ Active(r) THEN "dead" ELSE sup[r]]
    BY <1>12 DEF Stop, Die, EndProcess
  <2>6. ASSUME NEW r \in Runs
        PROVE  /\ lock' = Child(r) <=> child'[r] \in {"creating", "filed", "closing"}
               /\ lock' = Settle(r) <=> sup'[r] = "saving"
    <3>1. Child(r) \notin Gone /\ (Settle(r) \in Gone <=> r \in Mine(s))
      BY DEF Mine
    <3>2. lock' = Child(r) <=> lock = Child(r)
      BY <2>1, <3>1
    <3>3. lock' = Settle(r) <=> lock = Settle(r) /\ r \notin Mine(s)
      BY <2>1, <3>1
    <3>4. sup'[r] = "saving" <=> sup[r] = "saving" /\ r \notin Mine(s)
      BY <2>5 DEF Active
    <3> QED BY <3>2, <3>3, <3>4, <2>2
  <2>7. ASSUME NEW t \in Servers
        PROVE  /\ lock' = Sweep(t) <=> srv'[t] = "saving"
               /\ lock' = Delete(t) <=> del'[t] \in {"saving", "removing"}
    <3>1. (Sweep(t) \in Gone <=> t = s) /\ (Delete(t) \in Gone <=> t = s)
      BY DEF Mine
    <3>2. lock' = Sweep(t) <=> lock = Sweep(t) /\ t # s
      BY <2>1, <3>1
    <3>3. lock' = Delete(t) <=> lock = Delete(t) /\ t # s
      BY <2>1, <3>1
    <3> QED BY <3>2, <3>3, <2>3, <2>4
  <2> QED BY <2>6, <2>7
<1>13. CASE Quiet \/ UNCHANGED vars
  BY <1>13 DEF Quiet, vars, store, process, server
<1> QED
  BY <1>1, <1>2, <1>3, <1>4, <1>5, <1>6, <1>7, <1>8, <1>9, <1>10, <1>11, <1>12, <1>13
     DEF Next, ChildStep

THEOREM OneRewriteAtATimeHolds == Spec => []OneRewriteAtATime
<1>1. Init => OneRewriteAtATime
  BY AgentTypes DEF Init, OneRewriteAtATime
<1> QED BY <1>1, TypeCorrect, SupervisorInvHolds, OneRewriteStep, PTL DEF Spec

(***************************************************************************)
(* No save drops another writer's change: who saves holds the lock, and    *)
(* since it loaded the manifest nobody else has held it.                   *)
(***************************************************************************)
LEMMA NoLostUpdateStep ==
    TypeOK /\ SupervisorInv /\ OneRewriteAtATime /\ NoLostUpdate /\ [Next]_vars => NoLostUpdate'
<1> SUFFICES ASSUME TypeOK, SupervisorInv, OneRewriteAtATime, NoLostUpdate, [Next]_vars
             PROVE  NoLostUpdate'
  OBVIOUS
<1> USE AgentTypes, AgentsDiffer DEF TypeOK, OneRewriteAtATime, NoLostUpdate
<1>1. ASSUME NEW r \in Runs, StartBare(r) \/ Refuse(r) \/ Compute(r) \/ FinalLog(r)
      PROVE NoLostUpdate'
  BY <1>1 DEF StartBare, Refuse, Compute, FinalLog, At, Go, store, server
<1>2. ASSUME NEW r \in Runs, CreateLock(r) \/ FinalLock(r) PROVE NoLostUpdate'
  BY <1>2 DEF CreateLock, FinalLock, Acquire, At, Go, server
<1>3. ASSUME NEW r \in Runs, CreateFiles(r) PROVE NoLostUpdate'
  BY <1>3 DEF CreateFiles, Release, At, Go, server
<1>4. ASSUME NEW r \in Runs, CreateSave(r) \/ FinalSave(r) PROVE NoLostUpdate'
  <2>1. lock = Child(r) /\ child' = [child EXCEPT ![r] = child'[r]]
        /\ child'[r] \in {"computing", "logging", "exited"}
    BY <1>4 DEF CreateSave, FinalSave, At, Go
  <2>2. UNCHANGED <<sup, srv, del>>
    BY <1>4 DEF CreateSave, FinalSave, server
  <2> QED BY <2>1, <2>2
<1>5. ASSUME NEW r \in Runs, Kill(r) PROVE NoLostUpdate'
  BY <1>5 DEF Kill, ReleaseDying, Live, Go, server
<1>6. ASSUME NEW r \in Runs, SettleStep(r) PROVE NoLostUpdate'
  <2>1. CASE Reap(r) \/ SettleLook(r)
    BY <2>1 DEF Reap, SettleLook, SupGo, store, process
  <2>2. CASE SettleLock(r)
    BY <2>2 DEF SettleLock, Acquire, SupGo, process
  <2>3. CASE SettleSave(r)
    <3>1. lock = Settle(r) /\ sup' = [sup EXCEPT ![r] = sup'[r]] /\ sup'[r] # "saving"
      BY <2>3 DEF SettleSave, SupGo
    <3>2. UNCHANGED <<child, srv, del>>
      BY <2>3 DEF SettleSave, process
    <3> QED BY <3>1, <3>2
  <2> QED BY <1>6, <2>1, <2>2, <2>3 DEF SettleStep
<1>7. ASSUME NEW r \in Runs, AnswerStep(r) \/ ClientGone(r) PROVE NoLostUpdate'
  BY <1>7 DEF AnswerStep, AnswerFound, AnswerRefused, AnswerUnread, AnswerTimeout, ClientGone, store, process
<1>8. ASSUME NEW s \in Servers, Boot(s) \/ SweepStep(s) PROVE NoLostUpdate'
  <2>1. CASE Boot(s) \/ SweepLook(s)
    BY <2>1 DEF Boot, SweepLook, SrvGo, store, process
  <2>2. CASE SweepLock(s)
    BY <2>2 DEF SweepLock, Acquire, SrvGo, process
  <2>3. CASE SweepSave(s)
    <3>1. lock = Sweep(s) /\ srv' = [srv EXCEPT ![s] = srv'[s]] /\ srv'[s] # "saving"
      BY <2>3 DEF SweepSave, SrvGo
    <3>2. UNCHANGED <<child, sup, del>>
      BY <2>3 DEF SweepSave, process
    <3> QED BY <3>1, <3>2
  <2> QED BY <1>8, <2>1, <2>2, <2>3 DEF SweepStep
<1>9. ASSUME NEW s \in Servers, DeleteStep(s) PROVE NoLostUpdate'
  <2>1. CASE DeleteLock(s)
    BY <2>1 DEF DeleteLock, Acquire, process
  <2>2. CASE DeleteSave(s)
    <3>1. lock = Delete(s) /\ del' = [del EXCEPT ![s] = "removing"]
      BY <2>2 DEF DeleteSave
    <3>2. UNCHANGED <<child, sup, srv>>
      BY <2>2 DEF DeleteSave, process
    <3> QED BY <3>1, <3>2
  <2>3. CASE DeleteRefuse(s) \/ DeleteFiles(s)
    BY <2>3 DEF DeleteRefuse, DeleteFiles, DeleteEnd, Release, process
  <2> QED BY <1>9, <2>1, <2>2, <2>3 DEF DeleteStep
<1>10. ASSUME NEW s \in Servers, NEW r \in Runs, Start(s, r) \/ Cancel(s, r) \/ DeleteBegin(s, r)
       PROVE NoLostUpdate'
  <2>1. CASE Start(s, r)
    BY <2>1 DEF Start, At, Go, store
  <2>2. CASE Cancel(s, r)
    BY <2>2 DEF Cancel, store, process
  <2>3. CASE DeleteBegin(s, r)
    BY <2>3 DEF DeleteBegin, store, process
  <2> QED BY <1>10, <2>1, <2>2, <2>3
<1>11. ASSUME NEW s \in Servers, Shutdown(s) PROVE NoLostUpdate'
  BY <1>11 DEF Shutdown, SrvGo, store, process
<1>12. ASSUME NEW s \in Servers, Stop(s) \/ Die(s) PROVE NoLostUpdate'
  <2> DEFINE Gone == {Sweep(s), Delete(s)} \cup {Settle(r) : r \in Mine(s)}
  <2>1. UNCHANGED <<manifest, child>>
    BY <1>12 DEF Stop, Die, EndProcess, process
  <2>2. copy' = [a \in Agent |-> IF a \in Gone THEN NoRows ELSE copy[a]]
    BY <1>12 DEF Stop, Die, EndProcess, ReleaseDying
  <2>3. srv' = [srv EXCEPT ![s] = srv'[s]] /\ srv'[s] \in {"stopped", "dead"}
    BY <1>12 DEF Stop, Die, EndProcess, SrvGo
  <2>4. del' = [del EXCEPT ![s] = "idle"]
    BY <1>12 DEF Stop, Die, EndProcess
  <2>5. sup' = [r \in Runs |-> IF r \in Mine(s) /\ Active(r) THEN "dead" ELSE sup[r]]
    BY <1>12 DEF Stop, Die, EndProcess
  <2>6. ASSUME NEW r \in Runs
        PROVE  /\ child'[r] \in {"creating", "filed", "closing"} => copy'[Child(r)] = manifest'
               /\ sup'[r] = "saving" => copy'[Settle(r)] = manifest'
    <3>1. Child(r) \notin Gone /\ (Settle(r) \in Gone => r \in Mine(s))
      BY DEF Mine
    <3>2. sup'[r] = "saving" => sup[r] = "saving" /\ r \notin Mine(s)
      BY <2>5 DEF Active
    <3> QED BY <3>1, <3>2, <2>1, <2>2
  <2>7. ASSUME NEW t \in Servers
        PROVE  /\ srv'[t] = "saving" => copy'[Sweep(t)] = manifest'
               /\ del'[t] = "saving" => copy'[Delete(t)] = manifest'
    <3>1. (Sweep(t) \in Gone => t = s) /\ (Delete(t) \in Gone => t = s)
      BY DEF Mine
    <3> QED BY <3>1, <2>1, <2>2, <2>3, <2>4
  <2> QED BY <2>6, <2>7
<1>13. CASE Quiet \/ UNCHANGED vars
  BY <1>13 DEF Quiet, vars, store, process, server
<1> QED
  BY <1>1, <1>2, <1>3, <1>4, <1>5, <1>6, <1>7, <1>8, <1>9, <1>10, <1>11, <1>12, <1>13
     DEF Next, ChildStep

THEOREM NoLostUpdateHolds == Spec => []NoLostUpdate
<1>1. Init => NoLostUpdate
  BY DEF Init, NoLostUpdate
<1> QED
  BY <1>1, TypeCorrect, SupervisorInvHolds, OneRewriteAtATimeHolds, NoLostUpdateStep, PTL DEF Spec

(***************************************************************************)
(* Every way in which the row of one run may change, in one place.         *)
(***************************************************************************)
RowChange(r) ==
    \/ manifest'[r] = manifest[r]
    \/ child[r] = "filed" /\ child'[r] = "computing" /\ manifest'[r] = "running"
    \/ /\ child[r] = "closing" /\ child'[r] = "logging"
       /\ manifest[r] # "absent" /\ manifest'[r] = outcome[r]
    \/ sup[r] = "saving" /\ manifest[r] = "running" /\ manifest'[r] = "failed"
    \/ r \in swept' /\ manifest[r] = "running" /\ manifest'[r] = "failed"
    \/ manifest[r] \in Terminal /\ manifest'[r] = "absent"

LEMMA RowStep ==
    ASSUME TypeOK, NoLostUpdate, [Next]_vars, NEW r \in Runs
    PROVE  RowChange(r)
<1> USE DEF TypeOK, RowChange
<1>1. ASSUME NEW q \in Runs, CreateSave(q) PROVE RowChange(r)
  <2>1. copy[Child(q)] = manifest /\ child[q] = "filed"
    BY <1>1 DEF CreateSave, At, NoLostUpdate
  <2> QED BY <1>1, <2>1 DEF CreateSave, Save, Go, Manifest
<1>2. ASSUME NEW q \in Runs, FinalSave(q) PROVE RowChange(r)
  <2>1. copy[Child(q)] = manifest /\ child[q] = "closing"
    BY <1>2 DEF FinalSave, At, NoLostUpdate
  <2> QED BY <1>2, <2>1 DEF FinalSave, Save, Go, Manifest
<1>3. ASSUME NEW q \in Runs, SettleSave(q) PROVE RowChange(r)
  <2>1. copy[Settle(q)] = manifest /\ sup[q] = "saving"
    BY <1>3 DEF SettleSave, NoLostUpdate
  <2> QED BY <1>3, <2>1 DEF SettleSave, Save, Open, Manifest
<1>4. ASSUME NEW s \in Servers, SweepSave(s) PROVE RowChange(r)
  <2>1. copy[Sweep(s)] = manifest
    BY <1>4 DEF SweepSave, NoLostUpdate
  <2> QED BY <1>4, <2>1 DEF SweepSave, Save, Open
<1>5. ASSUME NEW s \in Servers, DeleteSave(s) PROVE RowChange(r)
  <2>1. copy[Delete(s)] = manifest
    BY <1>5 DEF DeleteSave, NoLostUpdate
  <2> QED BY <1>5, <2>1 DEF DeleteSave, Save, Manifest
<1>6. ASSUME UNCHANGED manifest PROVE RowChange(r)
  BY <1>6
<1>7. ASSUME NEW q \in Runs, StartBare(q) \/ ChildStep(q) \/ Kill(q), ~CreateSave(q), ~FinalSave(q)
      PROVE UNCHANGED manifest
  BY <1>7 DEF StartBare, ChildStep, Refuse, CreateLock, CreateFiles, Compute, FinalLock,
              FinalLog, Kill, store
<1>8. ASSUME NEW q \in Runs, SettleStep(q) \/ AnswerStep(q) \/ ClientGone(q), ~SettleSave(q)
      PROVE UNCHANGED manifest
  BY <1>8 DEF SettleStep, Reap, SettleLook, SettleLock, AnswerStep, AnswerFound, AnswerRefused,
              AnswerUnread, AnswerTimeout, ClientGone, store
<1>9. ASSUME NEW s \in Servers, Boot(s) \/ SweepStep(s) \/ Shutdown(s) \/ Stop(s) \/ Die(s),
             ~SweepSave(s)
      PROVE UNCHANGED manifest
  BY <1>9 DEF Boot, SweepStep, SweepLook, SweepLock, Shutdown, Stop, Die, EndProcess, store
<1>10. ASSUME NEW s \in Servers, DeleteStep(s), ~DeleteSave(s) PROVE UNCHANGED manifest
  BY <1>10 DEF DeleteStep, DeleteLock, DeleteRefuse, DeleteFiles
<1>11. ASSUME NEW s \in Servers, NEW q \in Runs, Start(s, q) \/ Cancel(s, q) \/ DeleteBegin(s, q)
       PROVE UNCHANGED manifest
  BY <1>11 DEF Start, Cancel, DeleteBegin, store
<1>12. ASSUME Quiet \/ UNCHANGED vars PROVE UNCHANGED manifest
  BY <1>12 DEF Quiet, vars, store
<1> QED
  BY <1>1, <1>2, <1>3, <1>4, <1>5, <1>6, <1>7, <1>8, <1>9, <1>10, <1>11, <1>12
     DEF Next, SettleStep, SweepStep, DeleteStep, ChildStep

(***************************************************************************)
(* The child and its row.  A child that has not saved its row has none;    *)
(* between its two saves the row is open, unless it was swept; and once    *)
(* its supervisor has settled it, it is closed.                            *)
(***************************************************************************)
NotFiled(r) == child[r] \in {"none", "preparing", "creating", "filed"}
NoRowYet == \A r \in Runs : NotFiled(r) => manifest[r] = "absent"

ChildMove(r) ==
    \/ child'[r] = child[r]
    \/ NotFiled(r) /\ child'[r] \in {"preparing", "filed", "exited"}
    \/ NotFiled(r) /\ child'[r] = "creating" /\ manifest[r] = "absent"
    \/ child[r] = "filed" /\ child'[r] = "computing" /\ manifest'[r] = "running"
    \/ child[r] = "computing" /\ child'[r] = "finalizing"
    \/ child[r] = "finalizing" /\ child'[r] = "closing"
    \/ child[r] # "none" /\ child'[r] \in {"logging", "exited"}

LEMMA ChildMoveStep ==
    ASSUME TypeOK, [Next]_vars, NEW r \in Runs
    PROVE  ChildMove(r) /\ swept \subseteq swept'
<1> USE DEF TypeOK, ChildMove, NotFiled
<1>1. ASSUME NEW q \in Runs, StartBare(q) \/ ChildStep(q) \/ Kill(q)
      PROVE ChildMove(r) /\ UNCHANGED swept
  <2>1. CASE CreateSave(q)
    <3>1. CASE Go(q, "computing")
      <4>1. manifest' = [copy[Child(q)] EXCEPT ![q] = "running"]
        BY <2>1, <3>1 DEF CreateSave, Save, Go, At
      <4>2. copy[Child(q)] \in Manifest
        BY AgentTypes
      <4> QED BY <4>1, <4>2, <2>1, <3>1 DEF CreateSave, Go, At, Manifest
    <3>2. CASE Go(q, "exited")
      BY <2>1, <3>2 DEF CreateSave, Go, At
    <3> QED BY <2>1, <3>1, <3>2 DEF CreateSave
  <2>2. CASE ~CreateSave(q)
    BY <1>1, <2>2 DEF StartBare, ChildStep, Refuse, CreateLock, CreateFiles, Compute, FinalLock,
              FinalSave, FinalLog, Kill, Live, Go, At
  <2> QED BY <2>1, <2>2
<1>2. ASSUME NEW q \in Runs, SettleStep(q) \/ AnswerStep(q) \/ ClientGone(q)
      PROVE UNCHANGED <<child, swept>>
  BY <1>2 DEF SettleStep, Reap, SettleLook, SettleLock, SettleSave, AnswerStep, AnswerFound,
              AnswerRefused, AnswerUnread, AnswerTimeout, ClientGone, process
<1>3. ASSUME NEW s \in Servers, Boot(s) \/ SweepStep(s) \/ Shutdown(s) \/ Stop(s) \/ Die(s)
      PROVE UNCHANGED child /\ swept \subseteq swept'
  BY <1>3 DEF Boot, SweepStep, SweepLook, SweepLock, SweepSave, Shutdown, Stop, Die, EndProcess,
              process
<1>4. ASSUME NEW s \in Servers, DeleteStep(s) PROVE UNCHANGED <<child, swept>>
  BY <1>4 DEF DeleteStep, DeleteLock, DeleteRefuse, DeleteSave, DeleteFiles, process
<1>5. ASSUME NEW s \in Servers, NEW q \in Runs, Start(s, q) \/ Cancel(s, q) \/ DeleteBegin(s, q)
      PROVE ChildMove(r) /\ UNCHANGED swept
  BY <1>5 DEF Start, Cancel, DeleteBegin, Go, At, process
<1>6. ASSUME Quiet \/ UNCHANGED vars PROVE UNCHANGED <<child, swept>>
  BY <1>6 DEF Quiet, vars, process
<1> QED BY <1>1, <1>2, <1>3, <1>4, <1>5, <1>6 DEF Next

LEMMA SettleMoveStep ==
    ASSUME TypeOK, NoLostUpdate, [Next]_vars, NEW r \in Runs
    PROVE  /\ sup'[r] = "done" => sup[r] = "done" \/ manifest'[r] # "running"
           /\ req'[r] = "refused" => req[r] = "refused" \/ manifest'[r] = "absent"
<1> DEFINE Goal == /\ sup'[r] = "done" => sup[r] = "done" \/ manifest'[r] # "running"
                   /\ req'[r] = "refused" => req[r] = "refused" \/ manifest'[r] = "absent"
<1> USE DEF TypeOK
<1>1. ASSUME NEW q \in Runs, StartBare(q) \/ ChildStep(q) \/ Kill(q) PROVE Goal
  BY <1>1 DEF StartBare, ChildStep, Refuse, CreateLock, CreateFiles, CreateSave, Compute,
              FinalLock, FinalSave, FinalLog, Kill, server
<1>2. ASSUME NEW q \in Runs, SettleStep(q) PROVE Goal
  <2>1. UNCHANGED req
    BY <1>2 DEF SettleStep, Reap, SettleLook, SettleLock, SettleSave
  <2>2. CASE Reap(q) \/ SettleLock(q)
    BY <2>1, <2>2 DEF Reap, SettleLock, SupGo
  <2>3. CASE SettleLook(q)
    BY <2>1, <2>3 DEF SettleLook, SupGo, Open, store
  <2>4. CASE SettleSave(q)
    <3>1. copy[Settle(q)] = manifest
      BY <2>4 DEF SettleSave, NoLostUpdate
    <3> QED BY <2>1, <2>4, <3>1 DEF SettleSave, SupGo, Open, Save, Manifest
  <2> QED BY <1>2, <2>2, <2>3, <2>4 DEF SettleStep
<1>3. ASSUME NEW q \in Runs, AnswerStep(q) \/ ClientGone(q) PROVE Goal
  BY <1>3 DEF AnswerStep, AnswerFound, AnswerRefused, AnswerUnread, AnswerTimeout, ClientGone, store
<1>4. ASSUME NEW s \in Servers, Boot(s) \/ SweepStep(s) \/ Shutdown(s) \/ DeleteStep(s)
      PROVE Goal
  BY <1>4 DEF Boot, SweepStep, SweepLook, SweepLock, SweepSave, Shutdown, DeleteStep,
              DeleteLock, DeleteRefuse, DeleteSave, DeleteFiles
<1>5. ASSUME NEW s \in Servers, Stop(s) \/ Die(s) PROVE Goal
  BY <1>5 DEF Stop, Die, EndProcess
<1>6. ASSUME NEW s \in Servers, NEW q \in Runs, Start(s, q) \/ Cancel(s, q) \/ DeleteBegin(s, q)
      PROVE Goal
  BY <1>6 DEF Start, Cancel, DeleteBegin
<1>7. ASSUME Quiet \/ UNCHANGED vars PROVE Goal
  BY <1>7 DEF Quiet, vars, server
<1> QED BY <1>1, <1>2, <1>3, <1>4, <1>5, <1>6, <1>7 DEF Next

\* A run has no row until its child has saved one.
LEMMA NoRowYetHolds == Spec => []NoRowYet
<1>1. Init => NoRowYet
  BY DEF Init, NoRowYet, NotFiled, NoRows
<1>2. TypeOK /\ SupervisorInv /\ NoLostUpdate /\ NoRowYet /\ [Next]_vars => NoRowYet'
  <2> SUFFICES ASSUME TypeOK, SupervisorInv, NoLostUpdate, NoRowYet, [Next]_vars,
                      NEW r \in Runs, NotFiled(r)'
               PROVE  manifest'[r] = "absent"
    BY DEF NoRowYet
  <2>1. NotFiled(r)
    BY ChildMoveStep DEF ChildMove, NotFiled
  <2>2. manifest[r] = "absent"
    BY <2>1 DEF NoRowYet
  <2>3. RowChange(r)
    BY RowStep
  <2> QED BY <2>2, <2>3 DEF RowChange, NotFiled, Terminal
<1> QED BY <1>1, <1>2, TypeCorrect, SupervisorInvHolds, NoLostUpdateHolds, PTL DEF Spec

\* While a child is at work its row is open, unless a starting server swept it.
THEOREM OnlyASweepOverreachesHolds == Spec => []OnlyASweepOverreaches
<1>1. Init => OnlyASweepOverreaches
  BY DEF Init, OnlyASweepOverreaches
<1>2. TypeOK /\ SupervisorInv /\ NoLostUpdate /\ OnlyASweepOverreaches /\ [Next]_vars
        => OnlyASweepOverreaches'
  <2> SUFFICES ASSUME TypeOK, SupervisorInv, NoLostUpdate, OnlyASweepOverreaches, [Next]_vars,
                      NEW r \in Runs, r \notin swept',
                      child'[r] \in {"computing", "finalizing", "closing"}
               PROVE  manifest'[r] = "running"
    BY DEF OnlyASweepOverreaches
  <2>1. ChildMove(r) /\ r \notin swept
    BY ChildMoveStep
  <2>2. RowChange(r)
    BY RowStep
  <2>3. CASE child[r] \in {"computing", "finalizing", "closing"}
    <3>1. manifest[r] = "running" /\ sup[r] # "saving"
      BY <2>1, <2>3 DEF OnlyASweepOverreaches, SupervisorInv
    <3> QED BY <2>2, <3>1 DEF RowChange, Terminal
  <2>4. CASE child[r] \notin {"computing", "finalizing", "closing"}
    BY <2>1, <2>4 DEF ChildMove
  <2> QED BY <2>3, <2>4
<1> QED BY <1>1, <1>2, TypeCorrect, SupervisorInvHolds, NoLostUpdateHolds, PTL DEF Spec

\* A settled run is never shown as running again.
THEOREM SettledRunIsClosedHolds == Spec => []SettledRunIsClosed
<1>1. Init => SettledRunIsClosed
  BY DEF Init, SettledRunIsClosed
<1>2. TypeOK /\ SupervisorInv /\ NoLostUpdate /\ SettledRunIsClosed /\ [Next]_vars
        => SettledRunIsClosed'
  <2> SUFFICES ASSUME TypeOK, SupervisorInv, NoLostUpdate, SettledRunIsClosed, [Next]_vars,
                      NEW r \in Runs, sup'[r] = "done", manifest'[r] = "running"
               PROVE  FALSE
    BY DEF SettledRunIsClosed
  <2>1. sup[r] = "done"
    BY SettleMoveStep
  <2>2. manifest[r] # "running" /\ child[r] = "exited"
    BY <2>1 DEF SettledRunIsClosed, SupervisorInv
  <2>3. RowChange(r)
    BY RowStep
  <2> QED BY <2>2, <2>3 DEF RowChange
<1> QED BY <1>1, <1>2, TypeCorrect, SupervisorInvHolds, NoLostUpdateHolds, PTL DEF Spec

RefusedHasNoRow == \A r \in Runs : req[r] = "refused" => manifest[r] = "absent"

\* A run that was refused on a last look that found no row never gets one.
LEMMA RefusedHasNoRowHolds == Spec => []RefusedHasNoRow
<1>1. Init => RefusedHasNoRow
  BY DEF Init, RefusedHasNoRow
<1>2. TypeOK /\ SupervisorInv /\ NoLostUpdate /\ RefusedHasNoRow /\ [Next]_vars
        => RefusedHasNoRow'
  <2> SUFFICES ASSUME TypeOK, SupervisorInv, NoLostUpdate, RefusedHasNoRow, [Next]_vars,
                      NEW r \in Runs, req'[r] = "refused", manifest'[r] # "absent"
               PROVE  FALSE
    BY DEF RefusedHasNoRow
  <2>1. req[r] = "refused"
    BY SettleMoveStep
  <2>2. manifest[r] = "absent" /\ child[r] = "exited"
    BY <2>1 DEF RefusedHasNoRow, SupervisorInv
  <2>3. RowChange(r)
    BY RowStep
  <2> QED BY <2>2, <2>3 DEF RowChange, Terminal
<1> QED BY <1>1, <1>2, TypeCorrect, SupervisorInvHolds, NoLostUpdateHolds, PTL DEF Spec

\* A POST /runs answered with an error, by a refusal, by a last look that could
\* not read the manifest or by the start timeout, leaves no run behind that
\* nobody minds: it never gets a row, or it is over or told to stop and its row
\* is closed, but for a failed closing and a server's death.
THEOREM RefusedRunIsOverHolds == Spec => []RefusedRunIsOver
<1>1. TypeOK /\ SupervisorInv /\ SettledRunIsClosed /\ RefusedHasNoRow => RefusedRunIsOver
  <2> SUFFICES ASSUME TypeOK, SupervisorInv, SettledRunIsClosed, RefusedHasNoRow, NEW r \in Runs
               PROVE  /\ req[r] = "refused" => manifest[r] = "absent"
                      /\ req[r] \in {"refused", "unread"} => ~Live(r) /\ ~Active(r)
                      /\ req[r] = "timeout" /\ Active(r) => r \in cancelled
                      /\ req[r] \in {"unread", "timeout"} /\ manifest[r] = "running" =>
                            Active(r) \/ sup[r] \in {"leftopen", "dead"}
    BY DEF RefusedRunIsOver
  <2>1. req[r] = "refused" => manifest[r] = "absent"
    BY DEF RefusedHasNoRow
  <2>2. req[r] \in {"refused", "unread"} => ~Live(r) /\ ~Active(r)
    BY DEF SupervisorInv, Live, Active
  <2>3. req[r] = "timeout" /\ Active(r) => r \in cancelled
    BY DEF SupervisorInv
  <2>4. req[r] \in {"unread", "timeout"} /\ manifest[r] = "running" =>
            Active(r) \/ sup[r] \in {"leftopen", "dead"}
    BY DEF SupervisorInv, SettledRunIsClosed, TypeOK, SupState, Active
  <2> QED BY <2>1, <2>2, <2>3, <2>4
<1> QED
  BY <1>1, TypeCorrect, SupervisorInvHolds, SettledRunIsClosedHolds, RefusedHasNoRowHolds, PTL

\* A server that stopped in time left no child computing and closed its rows.
THEOREM CleanStopHolds == Spec => []CleanStop
<1>1. SupervisorInv /\ SettledRunIsClosed /\ TypeOK => CleanStop
  BY DEF SupervisorInv, SettledRunIsClosed, CleanStop, TypeOK, Mine, Live, Active, Serving, SupState
<1> QED BY <1>1, TypeCorrect, SupervisorInvHolds, SettledRunIsClosedHolds, PTL

(***************************************************************************)
(* The rows and the directories.  A row is saved after its directory was   *)
(* made and dropped before it is removed; whoever removes a directory      *)
(* still holds the lock under which it dropped the row.                    *)
(***************************************************************************)
DirectoryInv ==
    /\ \A r \in Runs : child[r] = "filed" => r \in dir
    /\ \A s \in Servers :
          /\ del[s] # "idle" => target[s] \in Runs
          /\ del[s] = "removing" => manifest[target[s]] = "absent"

LEMMA DirectoryStep ==
    TypeOK /\ SupervisorInv /\ OneRewriteAtATime /\ NoLostUpdate /\ DirectoryInv
      /\ RowHasDirectory /\ [Next]_vars
    => DirectoryInv' /\ RowHasDirectory'
<1> SUFFICES ASSUME TypeOK, SupervisorInv, OneRewriteAtATime, NoLostUpdate, DirectoryInv,
                    RowHasDirectory, [Next]_vars
             PROVE  DirectoryInv' /\ RowHasDirectory'
  OBVIOUS
<1> USE DEF TypeOK, DirectoryInv, RowHasDirectory
<1>1. ASSUME UNCHANGED <<manifest, dir, child, del, target>>
      PROVE  DirectoryInv' /\ RowHasDirectory'
  BY <1>1
<1>2. ASSUME NEW r \in Runs, StartBare(r) \/ ChildStep(r) \/ Kill(r)
      PROVE  DirectoryInv' /\ RowHasDirectory'
  <2>1. UNCHANGED <<del, target>>
    BY <1>2 DEF StartBare, ChildStep, Refuse, CreateLock, CreateFiles, CreateSave, Compute,
                FinalLock, FinalSave, FinalLog, Kill, server
  <2>2. dir \subseteq dir' /\ (child'[r] = "filed" => r \in dir')
        /\ child' = [child EXCEPT ![r] = child'[r]]
    BY <1>2 DEF StartBare, ChildStep, Refuse, CreateLock, CreateFiles, CreateSave, Compute,
                FinalLock, FinalSave, FinalLog, Kill, Go, store
  <2>3. CASE UNCHANGED manifest
    BY <2>1, <2>2, <2>3
  <2>4. CASE CreateSave(r) \/ FinalSave(r)
    <3>1. lock = Child(r) /\ copy[Child(r)] = manifest
      BY <2>4 DEF CreateSave, FinalSave, OneRewriteAtATime, NoLostUpdate, At
    <3>2. \A s \in Servers : del[s] # "removing"
      BY <3>1, AgentsDiffer DEF OneRewriteAtATime
    <3>3. \A q \in Runs : q # r => manifest'[q] = manifest[q]
      BY <2>4, <3>1 DEF CreateSave, FinalSave, Save, Manifest
    <3>4. manifest'[r] # "absent" => r \in dir
      BY <2>4, <3>1 DEF CreateSave, FinalSave, Save, Manifest, At
    <3> QED BY <2>1, <2>2, <3>2, <3>3, <3>4
  <2>5. CreateSave(r) \/ FinalSave(r) \/ UNCHANGED manifest
    BY <1>2 DEF StartBare, ChildStep, Refuse, CreateLock, CreateFiles, Compute, FinalLock,
                FinalLog, Kill, store
  <2> QED BY <2>3, <2>4, <2>5
<1>3. ASSUME NEW r \in Runs, SettleStep(r) \/ AnswerStep(r) \/ ClientGone(r)
      PROVE  DirectoryInv' /\ RowHasDirectory'
  <2>1. UNCHANGED <<dir, child, del, target>>
    BY <1>3 DEF SettleStep, Reap, SettleLook, SettleLock, SettleSave, AnswerStep, AnswerFound,
                AnswerRefused, AnswerUnread, AnswerTimeout, ClientGone, store, process
  <2>2. \A q \in Runs : manifest[q] = "absent" => manifest'[q] = "absent"
    BY RowStep, <2>1 DEF RowChange
  <2>3. \A q \in Runs : manifest'[q] # "absent" => manifest[q] # "absent"
    BY <2>2
  <2> QED BY <2>1, <2>2, <2>3
<1>4. ASSUME NEW s \in Servers, Boot(s) \/ SweepStep(s) \/ Shutdown(s)
      PROVE  DirectoryInv' /\ RowHasDirectory'
  <2>1. UNCHANGED <<dir, child, del, target>>
    BY <1>4 DEF Boot, SweepStep, SweepLook, SweepLock, SweepSave, Shutdown, store, process
  <2>2. \A q \in Runs : manifest[q] = "absent" => manifest'[q] = "absent"
    BY RowStep, <2>1 DEF RowChange
  <2> QED BY <2>1, <2>2
<1>5. ASSUME NEW s \in Servers, DeleteStep(s) PROVE DirectoryInv' /\ RowHasDirectory'
  <2>1. UNCHANGED child /\ target[s] \in Runs
    BY <1>5 DEF DeleteStep, DeleteLock, DeleteRefuse, DeleteSave, DeleteFiles, process
  <2>2. CASE DeleteLock(s)
    BY <2>1, <2>2 DEF DeleteLock
  <2>3. CASE DeleteRefuse(s)
    BY <2>1, <2>3 DEF DeleteRefuse, DeleteEnd
  <2>4. CASE DeleteSave(s)
    <3>1. copy[Delete(s)] = manifest /\ UNCHANGED <<dir, target>>
      BY <2>4 DEF DeleteSave, NoLostUpdate
    <3>2. manifest' = [manifest EXCEPT ![target[s]] = "absent"]
      BY <2>4, <3>1 DEF DeleteSave, Save
    <3>3. del' = [del EXCEPT ![s] = "removing"]
      BY <2>4 DEF DeleteSave
    <3> QED BY <2>1, <3>1, <3>2, <3>3 DEF Manifest
  <2>5. CASE DeleteFiles(s)
    <3>1. manifest[target[s]] = "absent" /\ UNCHANGED manifest
      BY <2>5 DEF DeleteFiles
    <3>2. \A r \in Runs : child[r] # "filed"
      BY <2>5, AgentTypes, AgentsDiffer DEF DeleteFiles, OneRewriteAtATime
    <3> QED BY <2>1, <2>5, <3>1, <3>2 DEF DeleteFiles, DeleteEnd
  <2> QED BY <1>5, <2>2, <2>3, <2>4, <2>5 DEF DeleteStep
<1>6. ASSUME NEW s \in Servers, NEW r \in Runs, Start(s, r) \/ Cancel(s, r) \/ DeleteBegin(s, r)
      PROVE  DirectoryInv' /\ RowHasDirectory'
  BY <1>6 DEF Start, Cancel, DeleteBegin, Go, store, process
<1>7. ASSUME NEW s \in Servers, Stop(s) \/ Die(s) PROVE DirectoryInv' /\ RowHasDirectory'
  BY <1>7 DEF Stop, Die, EndProcess, process
<1> QED
  BY <1>1, <1>2, <1>3, <1>4, <1>5, <1>6, <1>7 DEF Next, Quiet, vars, store, process, server

\* The manifest never points at a run directory that is not there.
THEOREM RowHasDirectoryHolds == Spec => []RowHasDirectory
<1>1. Init => DirectoryInv /\ RowHasDirectory
  BY DEF Init, DirectoryInv, RowHasDirectory, NoRows
<1> QED
  BY <1>1, TypeCorrect, SupervisorInvHolds, OneRewriteAtATimeHolds, NoLostUpdateHolds,
     DirectoryStep, PTL DEF Spec

(***************************************************************************)
(* Refinement.  A step either leaves every row and the sweep history as    *)
(* they are, or is the one operation of the registry on the row it saves.  *)
(***************************************************************************)
RegistryFacts == TypeOK /\ SupervisorInv /\ NoLostUpdate /\ NoRowYet /\ OnlyASweepOverreaches

LEMMA RowValue ==
    ASSUME TypeOK, NEW r \in Runs
    PROVE  /\ manifest[r] # "absent" => Row[r] = manifest[r]
           /\ manifest[r] = "absent" /\ NotFiled(r) => Row[r] = "new"
           /\ manifest[r] = "absent" /\ ~NotFiled(r) => Row[r] = "gone"
  BY DEF TypeOK, Row, NotFiled

LEMMA SweepRefines ==
    ASSUME RegistryFacts, NEW s \in Servers, SweepSave(s)
    PROVE  [Registry!Next]_Registry!vars
<1> USE DEF RegistryFacts
<1>1. copy[Sweep(s)] = manifest /\ UNCHANGED child
  BY DEF SweepSave, NoLostUpdate, process
<1>2. CASE UNCHANGED <<manifest, swept>>
  BY <1>1, <1>2 DEF Registry!vars, Row
<1>3. CASE /\ manifest' = [r \in Runs |-> IF r \in Open(manifest) THEN "failed" ELSE manifest[r]]
           /\ swept' = swept \cup Open(manifest)
  <2>1. {r \in Runs : Row[r] = "running"} = Open(manifest)
    BY RowValue DEF Open
  <2>2. Row' = [r \in Runs |-> IF r \in Open(manifest) THEN "failed" ELSE Row[r]]
    BY <1>1, <1>3 DEF Row, Open
  <2>3. Registry!Sweep
    BY <2>1, <2>2, <1>3 DEF Registry!Sweep
  <2> QED BY <2>3 DEF Registry!Next
<1> QED BY <1>1, <1>2, <1>3 DEF SweepSave, Save

LEMMA OneRowRefines ==
    ASSUME RegistryFacts, TypeOK', NoRowYet', NEW r \in Runs, RowChange(r), ChildMove(r),
           UNCHANGED swept,
           \A q \in Runs \ {r} : manifest'[q] = manifest[q] /\ NotFiled(q)' = NotFiled(q)
    PROVE  [Registry!Next]_Registry!vars
<1> USE DEF RegistryFacts
<1>1. Row' = [Row EXCEPT ![r] = Row'[r]]
  BY DEF Row, NotFiled
<1>2. CASE Row'[r] = Row[r]
  <2>1. Row' = Row
    BY <1>1, <1>2 DEF Row
  <2> QED BY <2>1 DEF Registry!vars
<1>3. CASE Row[r] = "new" /\ Row'[r] \in {"running", "gone"}
  BY <1>1, <1>3 DEF Registry!Next, Registry!Create, Registry!Abandon
<1>4. CASE Row[r] \in Terminal /\ Row'[r] = "gone"
  <2>1. Registry!Delete(r)
    BY <1>1, <1>4 DEF Registry!Delete, Registry!Terminal, Terminal
  <2> QED BY <2>1 DEF Registry!Next
<1>5. CASE /\ Row[r] = "running" \/ (Row[r] \in Terminal /\ r \in swept)
           /\ Row'[r] \in Terminal
  <2>1. Registry!Finish(r)
    BY <1>1, <1>5 DEF Registry!Finish, Registry!Terminal, Terminal
  <2> QED BY <2>1 DEF Registry!Next
<1>6. \/ Row'[r] = Row[r]
      \/ Row[r] = "new" /\ Row'[r] \in {"running", "gone"}
      \/ Row[r] \in Terminal /\ Row'[r] = "gone"
      \/ /\ Row[r] = "running" \/ (Row[r] \in Terminal /\ r \in swept)
         /\ Row'[r] \in Terminal
  <2>1. CASE manifest'[r] = manifest[r]
    <3>1. CASE manifest[r] # "absent"
      BY <2>1, <3>1 DEF Row
    <3>2. CASE manifest[r] = "absent"
      <4>1. ~NotFiled(r) => ~NotFiled(r)'
        BY DEF ChildMove, NotFiled
      <4>2. Row[r] = (IF NotFiled(r) THEN "new" ELSE "gone")
            /\ Row'[r] = (IF NotFiled(r)' THEN "new" ELSE "gone")
        BY <2>1, <3>2 DEF Row, NotFiled
      <4> QED BY <4>1, <4>2
    <3> QED BY <3>1, <3>2
  <2>2. CASE child[r] = "filed" /\ manifest'[r] = "running"
    <3>1. Row[r] = "new"
      BY <2>2, RowValue DEF NoRowYet, NotFiled
    <3>2. Row'[r] = "running"
      BY <2>2 DEF Row
    <3> QED BY <3>1, <3>2
  <2>3. CASE child[r] = "closing" /\ manifest[r] # "absent" /\ manifest'[r] = outcome[r]
    <3>1. Row[r] = manifest[r] /\ Row'[r] = outcome[r] /\ outcome[r] \in Terminal
      BY <2>3 DEF Row, TypeOK, Terminal
    <3>2. r \notin swept => manifest[r] = "running"
      BY <2>3 DEF OnlyASweepOverreaches
    <3>3. manifest[r] \in {"running"} \cup Terminal
      BY <2>3 DEF TypeOK, Manifest, Status, Terminal
    <3> QED BY <3>1, <3>2, <3>3
  <2>4. CASE manifest[r] = "running" /\ manifest'[r] = "failed"
    BY <2>4 DEF Row, Terminal
  <2>5. CASE manifest[r] \in Terminal /\ manifest'[r] = "absent"
    <3>1. ~NotFiled(r)
      BY <2>5 DEF NoRowYet, Terminal
    <3>2. ~NotFiled(r)'
      BY <3>1 DEF ChildMove, NotFiled
    <3> QED BY <2>5, <3>2 DEF Row, NotFiled, Terminal
  <2> QED BY <2>1, <2>2, <2>3, <2>4, <2>5 DEF RowChange
<1> QED BY <1>2, <1>3, <1>4, <1>5, <1>6

LEMMA RegistryStep ==
    RegistryFacts /\ TypeOK' /\ NoRowYet' /\ [Next]_vars => [Registry!Next]_Registry!vars
<1> SUFFICES ASSUME RegistryFacts, TypeOK', NoRowYet', [Next]_vars
             PROVE  [Registry!Next]_Registry!vars
  OBVIOUS
<1> DEFINE Elsewhere(r) == \A q \in Runs \ {r} :
                             manifest'[q] = manifest[q] /\ NotFiled(q)' = NotFiled(q)
<1>1. TypeOK /\ NoLostUpdate /\ NoRowYet
  BY DEF RegistryFacts
<1>2. ASSUME NEW r \in Runs, UNCHANGED swept, Elsewhere(r)
      PROVE  [Registry!Next]_Registry!vars
  <2>1. RowChange(r) /\ ChildMove(r)
    BY <1>1, RowStep, ChildMoveStep
  <2> QED BY <1>2, <2>1, OneRowRefines
<1>3. ASSUME UNCHANGED <<manifest, child, swept>> PROVE [Registry!Next]_Registry!vars
  BY <1>3 DEF Registry!vars, Row
<1>4. ASSUME NEW r \in Runs, StartBare(r) \/ ChildStep(r) \/ Kill(r)
      PROVE  UNCHANGED swept /\ Elsewhere(r)
  <2>1. UNCHANGED swept /\ child' = [child EXCEPT ![r] = child'[r]]
    BY <1>1, <1>4 DEF StartBare, ChildStep, Refuse, CreateLock, CreateFiles, CreateSave, Compute,
                FinalLock, FinalSave, FinalLog, Kill, Go, TypeOK
  <2>2. \A q \in Runs \ {r} : NotFiled(q)' = NotFiled(q)
    BY <1>1, <2>1 DEF TypeOK, NotFiled
  <2>3. CASE UNCHANGED manifest
    BY <2>1, <2>2, <2>3
  <2>4. CASE CreateSave(r) \/ FinalSave(r)
    <3>1. copy[Child(r)] = manifest
      BY <1>1, <2>4 DEF CreateSave, FinalSave, At, NoLostUpdate
    <3>2. \A q \in Runs \ {r} : manifest'[q] = manifest[q]
      BY <1>1, <2>4, <3>1 DEF CreateSave, FinalSave, Save, TypeOK, Manifest
    <3> QED BY <2>1, <2>2, <3>2
  <2>5. CreateSave(r) \/ FinalSave(r) \/ UNCHANGED manifest
    BY <1>4 DEF StartBare, ChildStep, Refuse, CreateLock, CreateFiles, Compute, FinalLock,
                FinalLog, Kill, store
  <2> QED BY <2>3, <2>4, <2>5
<1>5. ASSUME NEW r \in Runs, SettleStep(r) PROVE UNCHANGED swept /\ Elsewhere(r)
  <2>1. UNCHANGED <<swept, child>>
    BY <1>5 DEF SettleStep, Reap, SettleLook, SettleLock, SettleSave, process
  <2>2. CASE SettleSave(r)
    <3>1. copy[Settle(r)] = manifest
      BY <1>1, <2>2 DEF SettleSave, NoLostUpdate
    <3>2. \A q \in Runs \ {r} : manifest'[q] = manifest[q]
      BY <1>1, <2>2, <3>1 DEF SettleSave, Save, TypeOK, Manifest
    <3> QED BY <2>1, <3>2 DEF NotFiled
  <2>3. CASE ~SettleSave(r)
    BY <1>5, <2>1, <2>3 DEF SettleStep, Reap, SettleLook, SettleLock, store, NotFiled
  <2> QED BY <2>2, <2>3
<1>6. ASSUME NEW r \in Runs, AnswerStep(r) \/ ClientGone(r)
      PROVE  UNCHANGED <<manifest, child, swept>>
  BY <1>6 DEF AnswerStep, AnswerFound, AnswerRefused, AnswerUnread, AnswerTimeout, ClientGone, store, process
<1>7. ASSUME NEW s \in Servers, DeleteStep(s)
      PROVE  [Registry!Next]_Registry!vars
  <2>1. UNCHANGED <<swept, child>>
    BY <1>7 DEF DeleteStep, DeleteLock, DeleteRefuse, DeleteSave, DeleteFiles, process
  <2>2. CASE DeleteSave(s)
    <3>1. copy[Delete(s)] = manifest
      BY <1>1, <2>2 DEF DeleteSave, NoLostUpdate
    <3>2. CASE target[s] \in Runs
      <4>1. \A q \in Runs \ {target[s]} : manifest'[q] = manifest[q]
        BY <1>1, <2>2, <3>1, <3>2 DEF DeleteSave, Save, TypeOK, Manifest
      <4>2. Elsewhere(target[s])
        BY <2>1, <4>1 DEF NotFiled
      <4> QED BY <1>2, <2>1, <3>2, <4>2
    <3>3. CASE target[s] \notin Runs
      <4>1. manifest' = manifest
        BY <1>1, <2>2, <3>1, <3>3 DEF DeleteSave, Save, TypeOK, Manifest
      <4> QED BY <1>3, <2>1, <4>1
    <3> QED BY <3>2, <3>3
  <2>3. CASE ~DeleteSave(s)
    <3>1. UNCHANGED manifest
      BY <1>7, <2>3 DEF DeleteStep, DeleteLock, DeleteRefuse, DeleteFiles
    <3> QED BY <1>3, <2>1, <3>1
  <2> QED BY <2>2, <2>3
<1>8. ASSUME NEW s \in Servers, Boot(s) \/ SweepStep(s) \/ Shutdown(s) \/ Stop(s) \/ Die(s)
      PROVE  SweepSave(s) \/ UNCHANGED <<manifest, child, swept>>
  BY <1>8 DEF Boot, SweepStep, SweepLook, SweepLock, Shutdown, Stop, Die, EndProcess, store,
              process
<1>9. ASSUME NEW s \in Servers, NEW r \in Runs, Start(s, r)
      PROVE  UNCHANGED swept /\ Elsewhere(r)
  <2>1. UNCHANGED <<swept, manifest>> /\ child' = [child EXCEPT ![r] = child'[r]]
    BY <1>1, <1>9 DEF Start, Go, store, TypeOK
  <2> QED BY <1>1, <2>1 DEF TypeOK, NotFiled
<1>10. ASSUME NEW s \in Servers, NEW r \in Runs, Cancel(s, r) \/ DeleteBegin(s, r)
       PROVE  UNCHANGED <<manifest, child, swept>>
  BY <1>10 DEF Cancel, DeleteBegin, store, process
<1>11. ASSUME Quiet \/ UNCHANGED vars PROVE UNCHANGED <<manifest, child, swept>>
  BY <1>11 DEF Quiet, vars, store, process
<1> QED
  BY <1>2, <1>3, <1>4, <1>5, <1>6, <1>7, <1>8, <1>9, <1>10, <1>11, SweepRefines DEF Next

\* The manifest that many processes rewrite behaves as the abstract run list.
THEOREM RegistryImplemented == Spec => ImplementsRegistry
<1>1. Init => Registry!Init
  BY DEF Init, NoRows, Registry!Init, Row
<1>2. TypeOK /\ SupervisorInv /\ NoLostUpdate /\ NoRowYet /\ OnlyASweepOverreaches
        /\ TypeOK' /\ NoRowYet' /\ [Next]_vars
      => [Registry!Next]_Registry!vars
  BY RegistryStep DEF RegistryFacts
<1> QED
  BY <1>1, <1>2, TypeCorrect, SupervisorInvHolds, NoLostUpdateHolds, NoRowYetHolds,
     OnlyASweepOverreachesHolds, PTL
     DEF Spec, ImplementsRegistry, Registry!Spec
=============================================================================
