-------------------------- MODULE ModelStore_proofs --------------------------
(***************************************************************************)
(* Proofs about ModelStore, for every set of clients, tools and models.    *)
(***************************************************************************)
EXTENDS ModelStore, TLAPS

LEMMA Constants ==
    /\ Clients \cap Tools = {}
    /\ Proposers \subseteq Clients
    /\ None \notin Clients \cup Tools \cup Models \cup Records
    /\ MaxFaults \in Nat
  BY ModelStoreAssumption

LEMMA MakingType ==
    ASSUME TypeOK,
           \/ \E c \in Clients :
                 Get(c) \/ Propose(c) \/ \E m \in Models, guard \in BOOLEAN : Post(c, m, guard)
           \/ \E t \in Tools :
                 Rewrite(t) \/ \E m \in Models, i \in Records : Import(t, m, i)
           \/ \E w \in Writers, m \in Models : KeepRecord(w, m)
    PROVE  TypeOK'
<1> USE Constants DEF TypeOK, Writers, Features, Model, Stage, Learns, Stages, Goes,
                      disk, locks, save
<1>1. ASSUME NEW c \in Clients, Get(c) PROVE TypeOK'
  BY <1>1 DEF Get
<1>2. ASSUME NEW c \in Clients, Propose(c) PROVE TypeOK'
  BY <1>2 DEF Propose
<1>3. ASSUME NEW c \in Clients, NEW m \in Models, NEW guard \in BOOLEAN, Post(c, m, guard)
      PROVE  TypeOK'
  BY <1>3 DEF Post
<1>4. ASSUME NEW t \in Tools, Rewrite(t) PROVE TypeOK'
  BY <1>4 DEF Rewrite
<1>5. ASSUME NEW t \in Tools, NEW m \in Models, NEW i \in Records, Import(t, m, i)
      PROVE  TypeOK'
  BY <1>5 DEF Import
<1>6. ASSUME NEW w \in Writers, NEW m \in Models, KeepRecord(w, m) PROVE TypeOK'
  BY <1>6 DEF KeepRecord
<1>7. QED
  BY <1>1, <1>2, <1>3, <1>4, <1>5, <1>6

LEMMA SavingType ==
    ASSUME TypeOK, NEW w \in Writers, SaveStep(w)
    PROVE  TypeOK'
<1> USE Constants DEF TypeOK, Writers, Features, Model, Stage, Learns, Goes, End, Fault,
                      disk, locks, save
<1>1. CASE Lock(w)
  BY <1>1 DEF Lock
<1>2. CASE Check(w)
  BY <1>2 DEF Check
<1>3. CASE Refuse(w)
  BY <1>3 DEF Refuse
<1>4. CASE Fail(w)
  BY <1>4 DEF Fail
<1>5. CASE CommitDump(w) \/ CommitReport(w) \/ CommitNormalized(w)
  BY <1>5 DEF CommitDump, CommitReport, CommitNormalized
<1>6. CASE Answer(w)
  BY <1>6 DEF Answer
<1>7. QED
  BY <1>1, <1>2, <1>3, <1>4, <1>5, <1>6 DEF SaveStep

LEMMA TypeCorrectInit == Init => TypeOK
<1>1. NoModel \in Model
  BY DEF NoModel, Model, Features
<1>2. None \in Features /\ "idle" \in Stage
  BY DEF Features, Stage
<1>3. Init => refs \in BOOLEAN
  BY Zenon DEF Init
<1>4. Init => faults \in 0..MaxFaults
  BY Constants DEF Init
<1>5. QED
  BY <1>1, <1>2, <1>3, <1>4 DEF Init, TypeOK

LEMMA TypeCorrectStep == TypeOK /\ [Next]_vars => TypeOK'
<1> SUFFICES ASSUME TypeOK, [Next]_vars PROVE TypeOK'
  OBVIOUS
<1>1. ASSUME NEW W \in {Clients} \cup {{t} : t \in Tools}, Die(W) PROVE TypeOK'
  BY <1>1, Constants
     DEF Die, TypeOK, Writers, Features, Model, Stage, Fault, disk
<1>2. CASE UNCHANGED vars
  BY <1>2 DEF TypeOK, vars, disk, locks, save
<1>3. QED
  BY <1>1, <1>2, MakingType, SavingType DEF Next

\* Every variable keeps the type of the file, lock or process state it models.
THEOREM TypeCorrect == Spec => []TypeOK
  BY TypeCorrectInit, TypeCorrectStep, PTL DEF Spec

-----------------------------------------------------------------------------
(* The inductive invariant: what a save under way may rely on.             *)

\* Past the check, the precondition goes on holding; past a rename, what was
\* renamed stays; and an edit is still of the features its writer holds.
Kept(w) ==
    /\ at[w] # "idle" /\ op[w] \in {"edit", "rewrite"} => base[w] = hash[w]
    /\ at[w] \notin {"idle", "reading"} => new[w].features \in Models
    /\ w \in guarded /\ at[w] \in {"dump", "report", "normalized"} => hash[w] = normalized
    /\ at[w] \in {"report", "normalized"} => dump = new[w]
    /\ at[w] = "normalized" => report = new[w].features

SaveInv ==
    /\ TypeOK
    /\ LocksAreGivenBack
    /\ \A w \in Writers : Kept(w)

LEMMA MakingKeeps ==
    ASSUME SaveInv, TypeOK', NEW x \in Writers,
           \/ x \in Clients /\ (Get(x) \/ Propose(x))
           \/ x \in Clients /\ \E m \in Models, guard \in BOOLEAN : Post(x, m, guard)
           \/ x \in Tools /\ Rewrite(x)
           \/ x \in Tools /\ \E m \in Models, i \in Records : Import(x, m, i)
           \/ \E m \in Models : KeepRecord(x, m)
    PROVE  SaveInv'
<1> USE Constants DEF SaveInv, Writers, Saving, Stage, Learns, Stages, Goes,
                      LocksAreGivenBack, Kept, disk, locks, save
<1>1. CASE x \in Clients /\ Get(x)
  BY <1>1 DEF Get, TypeOK
<1>2. CASE x \in Clients /\ Propose(x)
  BY <1>2 DEF Propose, TypeOK
<1>3. ASSUME x \in Clients, NEW m \in Models, NEW guard \in BOOLEAN, Post(x, m, guard)
      PROVE  SaveInv'
  BY <1>3 DEF Post, TypeOK
<1>4. CASE x \in Tools /\ Rewrite(x)
  BY <1>4 DEF Rewrite, TypeOK
<1>5. ASSUME x \in Tools, NEW m \in Models, NEW i \in Records, Import(x, m, i)
      PROVE  SaveInv'
  BY <1>5 DEF Import, TypeOK
<1>6. ASSUME NEW m \in Models, KeepRecord(x, m) PROVE SaveInv'
  BY <1>6 DEF KeepRecord, TypeOK
<1>7. QED
  BY <1>1, <1>2, <1>3, <1>4, <1>5, <1>6

LEMMA SavingKeeps ==
    ASSUME SaveInv, TypeOK', NEW x \in Writers, SaveStep(x)
    PROVE  SaveInv'
<1> USE Constants DEF SaveInv, Writers, Saving, Stage, Learns, Goes, End,
                      LocksAreGivenBack, Kept, disk, locks, save
<1>1. CASE Lock(x)
  BY <1>1 DEF Lock, TypeOK
<1>2. CASE Check(x)
  BY <1>2 DEF Check, TypeOK
<1>3. CASE Refuse(x)
  BY <1>3 DEF Refuse, TypeOK
<1>4. CASE Fail(x)
  BY <1>4 DEF Fail, TypeOK
<1>5. CASE CommitDump(x)
  BY <1>5 DEF CommitDump, TypeOK
<1>6. CASE CommitReport(x)
  BY <1>6 DEF CommitReport, TypeOK
<1>7. CASE CommitNormalized(x)
  BY <1>7 DEF CommitNormalized, TypeOK
<1>8. CASE Answer(x)
  BY <1>8 DEF Answer, TypeOK
<1>9. QED
  BY <1>1, <1>2, <1>3, <1>4, <1>5, <1>6, <1>7, <1>8 DEF SaveStep

LEMMA DyingKeeps ==
    ASSUME SaveInv, TypeOK', NEW W \in {Clients} \cup {{t} : t \in Tools}, Die(W)
    PROVE  SaveInv'
  BY Constants DEF SaveInv, Writers, Saving, Stage, Die,
       LocksAreGivenBack, Kept, disk, TypeOK

LEMMA SaveInvHolds == Spec => []SaveInv
<1>1. Init => SaveInv
  <2>1. Init => TypeOK
    BY TypeCorrectInit
  <2>2. QED
    BY <2>1, Constants DEF Init, SaveInv, LocksAreGivenBack, Kept, Saving, Writers
<1>2. SaveInv /\ [Next]_vars => SaveInv'
  <2> SUFFICES ASSUME SaveInv, [Next]_vars PROVE SaveInv'
    OBVIOUS
  <2>1. TypeOK'
    BY TypeCorrectStep DEF SaveInv
  <2>2. CASE UNCHANGED vars
    BY <2>1, <2>2 DEF SaveInv, LocksAreGivenBack, Kept,
         vars, disk, locks, save
  <2>3. QED
    BY <2>1, <2>2, MakingKeeps, SavingKeeps, DyingKeeps DEF Next, Writers
<1>3. QED
  BY <1>1, <1>2, PTL DEF Spec

\* Every way out of a save gives back the server's mutex and the file lock.
THEOREM LocksAreGivenBackHolds == Spec => []LocksAreGivenBack
<1>1. SaveInv => LocksAreGivenBack
  BY DEF SaveInv
<1>2. QED
  BY <1>1, SaveInvHolds, PTL

\* A guarded edit or rewrite commits over the very features it was made from.
THEOREM NoBlindOverwriteHolds == Spec => []NoBlindOverwrite
<1>1. SaveInv => NoBlindOverwrite
  BY DEF SaveInv, NoBlindOverwrite, Kept, TypeOK
<1>2. QED
  BY <1>1, SaveInvHolds, PTL

-----------------------------------------------------------------------------
(* What a reader of the normalized file finds beside it.                   *)

\* The normalized file changes only over a dump and a report of the same model.
THEOREM NewModelFindsItsDumpHolds == Spec => NewModelFindsItsDump
<1> DEFINE Found ==
      normalized' # normalized => dump'.features = normalized' /\ report' = normalized'
<1>1. SaveInv /\ [Next]_vars => [Found]_vars
  <2> SUFFICES ASSUME SaveInv, [Next]_vars PROVE Found
    OBVIOUS
  <2>1. CASE \E w \in Writers : CommitNormalized(w)
    BY <2>1 DEF SaveInv, Kept, CommitNormalized
  <2>2. CASE ~ \E w \in Writers : CommitNormalized(w)
    BY <2>2 DEF Next, Get, Propose, Post, Rewrite, Import, KeepRecord, SaveStep, Lock,
         Check, Refuse, Fail, CommitDump, CommitReport, Answer, Die, vars, disk
  <2>3. QED
    BY <2>1, <2>2
<1>2. QED
  BY <1>1, SaveInvHolds, PTL DEF Spec, NewModelFindsItsDump

-----------------------------------------------------------------------------
(* The model is one compare-and-write register.                            *)

Asked(m, guard) == [new |-> m, guarded |-> guard, done |-> FALSE]

LEMMA Fields ==
    ASSUME NEW write, NEW m, NEW guard, NEW done,
           write = [new |-> m, guarded |-> guard, done |-> done]
    PROVE  write.new = m /\ write.guarded = guard /\ write.done = done
  OBVIOUS

\* Until a model is staged there is no write, and a staged write is not none.
LEMMA PendingMeans ==
    ASSUME SaveInv, NEW w \in Writers
    PROVE  /\ at[w] \in {"idle", "reading"} => Pending[w] = Register!NoWrite
           /\ at[w] \notin {"idle", "reading"} =>
                 /\ Pending[w].new = new[w].features
                 /\ Pending[w].guarded <=> w \in guarded
                 /\ Pending[w].done <=> at[w] = "manifest"
                 /\ Pending[w] # Register!NoWrite
<1>1. CASE at[w] \in {"idle", "reading"}
  BY <1>1 DEF Pending, Register!NoWrite
<1>2. CASE at[w] \notin {"idle", "reading"}
  <2>1. Pending[w] = [new |-> new[w].features, guarded |-> w \in guarded,
                      done |-> at[w] = "manifest"]
    BY <1>2 DEF Pending
  <2>2. /\ Pending[w].new = new[w].features
        /\ Pending[w].guarded = (w \in guarded)
        /\ Pending[w].done = (at[w] = "manifest")
    BY ONLY <2>1, Fields
  <2>3. (Pending[w].guarded <=> w \in guarded) /\ (Pending[w].done <=> at[w] = "manifest")
    BY <2>2, Zenon
  <2>4. Pending[w] # Register!NoWrite
    BY <1>2, <2>2, Constants DEF SaveInv, Kept, Register!NoWrite
  <2>5. QED
    BY <1>2, <2>2, <2>3, <2>4
<1>3. QED
  BY <1>1, <1>2

LEMMA AskStep ==
    ASSUME SaveInv, NEW x \in Writers, NEW what, NEW from, NEW i, NEW m \in Models,
           NEW guard \in BOOLEAN,
           at[x] \in {"idle", "reading"},
           Stages(x, what, from, [features |-> m, record |-> i], guard),
           UNCHANGED <<normalized, hash>>
    PROVE  Register!Ask(x)
<1>1. Pending' = [Pending EXCEPT ![x] = Asked(m, guard)]
  <2>1. \A w \in Writers \ {x} : Pending'[w] = Pending[w]
    BY DEF SaveInv, TypeOK, Pending, Stages
  <2>2. /\ at'[x] = "staged" /\ new'[x].features = m
        /\ guard => x \in guarded'
        /\ ~guard => x \notin guarded'
    BY DEF SaveInv, TypeOK, Stages
  <2>3. CASE guard
    <3>1. Pending'[x] = Asked(m, TRUE)
      BY <2>2, <2>3 DEF Pending, Asked
    <3>2. guard = TRUE
      BY <2>3
    <3>3. QED
      BY <2>1, <3>1, <3>2 DEF Pending
  <2>4. CASE ~guard
    <3>1. (x \in guarded') = FALSE
      BY <2>2, <2>4
    <3>2. Pending'[x] = Asked(m, FALSE)
      BY <2>2, <3>1 DEF Pending, Asked
    <3>3. guard = FALSE
      BY <2>4
    <3>4. QED
      BY <2>1, <3>2, <3>3 DEF Pending
  <2>5. QED
    BY <2>3, <2>4
<1>2. Pending[x] = Register!NoWrite
  BY PendingMeans
<1>3. QED
  BY <1>1, <1>2 DEF Register!Ask, Asked

LEMMA DropStep ==
    ASSUME SaveInv, NEW x \in Writers, at[x] # "idle", End(x), UNCHANGED <<normalized, hash, new, guarded>>
    PROVE  Register!Drop(x) \/ UNCHANGED Register!vars
<1>1. Pending' = [Pending EXCEPT ![x] = Register!NoWrite]
  BY DEF SaveInv, TypeOK, Pending, End, Goes, Register!NoWrite
<1>2. CASE at[x] = "reading"
  <2>1. Pending' = Pending
    BY <1>1, <1>2, PendingMeans DEF Pending
  <2>2. QED
    BY <2>1 DEF Register!vars
<1>3. CASE at[x] # "reading"
  BY <1>1, <1>3, PendingMeans DEF Register!Drop
<1>4. QED
  BY <1>2, <1>3

\* A step of a save that neither starts nor commits nor ends it is unseen.
LEMMA UnseenStep ==
    ASSUME SaveInv, NEW x \in Writers, NEW there,
           \/ at[x] = "idle" /\ there = "reading"
           \/ /\ at[x] \in {"staged", "locked", "dump", "report"}
              /\ there \in {"locked", "dump", "report", "normalized"},
           Goes(x, there), UNCHANGED <<new, guarded>>
    PROVE  UNCHANGED Pending
  BY DEF SaveInv, TypeOK, Pending, Goes

\* Clients, tools and saves, whatever locks they take and however they fail,
\* do to the normalized file what a compare-and-write register allows.
THEOREM RegisterImplemented == Spec => ImplementsRegister
<1>1. Init => Register!Init
  BY DEF Init, Register!Init, Pending, Register!NoWrite
<1>2. SaveInv /\ [Next]_vars => [Register!Next]_(Register!vars)
  <2> SUFFICES ASSUME SaveInv, [Next]_vars PROVE [Register!Next]_(Register!vars)
    OBVIOUS
  <2>1. ASSUME NEW x \in Writers, Get(x) PROVE Register!Look(x)
    BY <2>1, PendingMeans
       DEF Get, Learns, Register!Look, Pending, save, disk
  <2>2. ASSUME NEW x \in Writers, Propose(x) PROVE UNCHANGED Register!vars
    BY <2>2, UnseenStep DEF Propose, disk, Register!vars
  <2>3. ASSUME NEW x \in Writers, Rewrite(x) PROVE Register!Look(x)
    BY <2>3, UnseenStep, PendingMeans DEF Rewrite, Learns, disk, Register!Look
  <2>4. ASSUME NEW x \in Writers, NEW m \in Models, NEW guard \in BOOLEAN, Post(x, m, guard)
        PROVE  Register!Ask(x)
    BY <2>4, AskStep DEF Post, disk
  <2>5. ASSUME NEW x \in Writers, NEW m \in Models, NEW i \in Records, Import(x, m, i)
        PROVE  Register!Ask(x)
    BY <2>5, AskStep DEF Import, disk
  <2>6. ASSUME NEW x \in Writers, NEW m \in Models, KeepRecord(x, m) PROVE Register!Ask(x)
    BY <2>6, AskStep DEF KeepRecord, disk
  <2>7. ASSUME NEW x \in Writers, Lock(x) \/ Check(x) \/ CommitDump(x) \/ CommitReport(x)
        PROVE  UNCHANGED Register!vars
    BY <2>7, UnseenStep
       DEF Lock, Check, CommitDump, CommitReport, disk, Register!vars
  <2>8. ASSUME NEW x \in Writers, CommitNormalized(x) PROVE Register!Replace(x)
    <3>1. Pending' = [Pending EXCEPT ![x].done = TRUE]
      BY <2>8 DEF CommitNormalized, Goes, Pending, SaveInv, TypeOK
    <3>2. /\ Pending[x] # Register!NoWrite /\ ~Pending[x].done
          /\ Pending[x].guarded => normalized = hash[x]
          /\ Pending[x].new = new[x].features
      BY <2>8, PendingMeans DEF CommitNormalized, SaveInv, Kept
    <3>3. QED
      BY <2>8, <3>1, <3>2 DEF CommitNormalized, Register!Replace
  <2>9. ASSUME NEW x \in Writers, Refuse(x) \/ Fail(x)
        PROVE  Register!Drop(x) \/ UNCHANGED Register!vars
    BY <2>9, DropStep DEF Refuse, Fail, End, disk
  <2>10. ASSUME NEW x \in Writers, Answer(x)
         PROVE  Register!Answer(x) \/ Register!Drop(x) \/ UNCHANGED Register!vars
    <3>1. CASE UNCHANGED hash
      BY <2>10, <3>1, DropStep DEF Answer, End
    <3>2. CASE Learns(x, new[x].features)
      <4>1. Pending' = [Pending EXCEPT ![x] = Register!NoWrite]
        BY <2>10 DEF Answer, SaveInv, TypeOK, Pending, End, Goes, Register!NoWrite
      <4>2. Pending[x].done /\ Pending[x].new = new[x].features
        BY <2>10, PendingMeans DEF Answer
      <4>3. QED
        BY <2>10, <3>2, <4>1, <4>2 DEF Answer, Learns, Register!Answer
    <3>3. QED
      BY <2>10, <3>1, <3>2 DEF Answer
  <2>11. ASSUME NEW W \in SUBSET Writers, Die(W) PROVE Register!DropAll(W)
    BY <2>11 DEF Die, Pending, Register!DropAll, Register!NoWrite, disk, SaveInv, TypeOK
  <2>12. CASE UNCHANGED vars
    BY <2>12 DEF vars, disk, save, Pending, Register!vars
  <2>13. QED
    BY <2>1, <2>2, <2>3, <2>4, <2>5, <2>6, <2>7, <2>8, <2>9, <2>10, <2>11, <2>12
       DEF Next, SaveStep, Writers, Register!Next
<1>3. QED
  BY <1>1, <1>2, SaveInvHolds, PTL DEF Spec, ImplementsRegister, Register!Spec
=============================================================================
