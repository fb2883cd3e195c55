----------------------------- MODULE ModelStore -----------------------------
(***************************************************************************)
(* The compare-and-write of the project model (projectfs.SaveModelIf) and  *)
(* everyone who goes through it: the API clients that get, edit and post   *)
(* the model or propose windows on it, in one server process, and the CLI  *)
(* tools that import a model or rewrite the saved one.                     *)
(*                                                                         *)
(* A model is its features and its import record.  The normalized file     *)
(* carries the features, the dump both, the report what validation says of *)
(* the features.  A hash identifies the features it was computed from, and *)
(* is represented by them.                                                 *)
(***************************************************************************)
EXTENDS Naturals

CONSTANTS Clients,    \* API clients, one request at a time each
          Proposers,  \* the clients that propose windows (agents)
          Tools,      \* CLI processes: import, reattach-facades, window lists
          Models,     \* feature collections that can be saved
          Records,    \* import records
          None,       \* no file, no hash, no holder; ExpectNone as a hash
          MaxFaults   \* bound on the storage failures and deaths of a behaviour

ASSUME ModelStoreAssumption ==
    /\ Clients \cap Tools = {}
    /\ Proposers \subseteq Clients
    /\ None \notin Clients \cup Tools \cup Models \cup Records
    /\ MaxFaults \in Nat

Writers == Clients \cup Tools

VARIABLES
    normalized,  \* the features in model.normalized.geojson
    report,      \* the features the validation report is about
    dump,        \* the features and the import record in the model dump
    refs,        \* are the model artifacts registered in the manifest?
    mutex,       \* holder of the server's handler mutex
    lock,        \* holder of the manifest lock
    at,          \* at[w]: how far the save of writer w is
    op,          \* op[w]: what w is doing
    base,        \* base[w]: the features its new model was made from
    new,         \* new[w]: the model it saves
    guarded,     \* the writers whose save carries an expected hash
    hash,        \* hash[w]: the hash w holds, as the features it names
    faults       \* storage failures and deaths so far

disk   == <<normalized, report, dump, refs>>
locks  == <<mutex, lock>>
save   == <<at, op, base, new, guarded>>
vars   == <<disk, locks, save, hash, faults>>

Features == Models \cup {None}
Model    == [features : Features, record : Records \cup {None}]
NoModel  == [features |-> None, record |-> None]
Stage    == {"idle", "reading", "staged", "locked", "dump", "report", "normalized", "manifest"}
Saving   == {"locked", "dump", "report", "normalized", "manifest"}  \* under the file lock

TypeOK ==
    /\ normalized \in Features /\ report \in Features /\ dump \in Model
    /\ refs \in BOOLEAN
    /\ mutex \in Clients \cup {None}
    /\ lock \in Writers \cup {None}
    /\ at \in [Writers -> Stage]
    /\ op \in [Writers -> {"none", "edit", "propose", "import", "rewrite"}]
    /\ base \in [Writers -> Features]
    /\ new \in [Writers -> Model]
    /\ guarded \subseteq Writers
    /\ hash \in [Writers -> Features]
    /\ faults \in 0..MaxFaults

Init ==
    /\ normalized = None /\ report = None /\ dump = NoModel
    /\ refs = FALSE
    /\ mutex = None /\ lock = None
    /\ at = [w \in Writers |-> "idle"]
    /\ op = [w \in Writers |-> "none"]
    /\ base = [w \in Writers |-> None]
    /\ new = [w \in Writers |-> NoModel]
    /\ guarded = {}
    /\ hash = [w \in Writers |-> None]
    /\ faults = 0

Fault == faults < MaxFaults /\ faults' = faults + 1
Goes(w, there) == at' = [at EXCEPT ![w] = there]
Learns(w, features) == hash' = [hash EXCEPT ![w] = features]

-----------------------------------------------------------------------------
(* Making a model to save.                                                 *)

\* GET /model hashes the bytes it returns (ReadModelWithHash).
Get(c) ==
    /\ at[c] = "idle"
    /\ Learns(c, normalized)
    /\ UNCHANGED <<disk, locks, save, faults>>

\* Stages model m beside the files it will replace, outside every file lock.
Stages(w, what, from, m, guard) ==
    /\ at' = [at EXCEPT ![w] = "staged"]
    /\ op' = [op EXCEPT ![w] = what]
    /\ base' = [base EXCEPT ![w] = from]
    /\ new' = [new EXCEPT ![w] = m]
    /\ guarded' = IF guard THEN guarded \cup {w} ELSE guarded \ {w}

\* POST /model: the client's own edit, which carries no import record.
Post(c, features, guard) ==
    /\ at[c] = "idle" /\ mutex = None
    /\ mutex' = c
    /\ Stages(c, "edit", hash[c], [features |-> features, record |-> None], guard)
    /\ UNCHANGED <<disk, lock, hash, faults>>

\* POST /facades/windows: the handler reads the saved model itself ...
Propose(c) ==
    /\ c \in Proposers
    /\ at[c] = "idle" /\ mutex = None
    /\ normalized # None /\ hash[c] # None
    /\ mutex' = c
    /\ Goes(c, "reading")
    /\ op' = [op EXCEPT ![c] = "propose"]
    /\ base' = [base EXCEPT ![c] = normalized]
    /\ UNCHANGED <<disk, lock, new, guarded, hash, faults>>

\* aconiq reattach-facades, or a window list: the saved model with its hash ...
Rewrite(t) ==
    /\ t \in Tools
    /\ at[t] = "idle" /\ normalized # None
    /\ Goes(t, "reading")
    /\ op' = [op EXCEPT ![t] = "rewrite"]
    /\ base' = [base EXCEPT ![t] = normalized]
    /\ Learns(t, normalized)
    /\ UNCHANGED <<disk, locks, new, guarded, faults>>

\* ... and then, in both, the import record from the dump (KeepImportRecord).
KeepRecord(w, features) ==
    /\ at[w] = "reading"
    /\ Stages(w, op[w], base[w], [features |-> features, record |-> dump.record], TRUE)
    /\ UNCHANGED <<disk, locks, hash, faults>>

\* aconiq import replaces whatever is there.
Import(t, features, record) ==
    /\ t \in Tools
    /\ at[t] = "idle"
    /\ Stages(t, "import", None, [features |-> features, record |-> record], FALSE)
    /\ UNCHANGED <<disk, locks, hash, faults>>

-----------------------------------------------------------------------------
(* SaveModelIf.                                                            *)

LockUnheld(w) ==           \* mutant: the save does not take the manifest lock
    /\ at[w] = "staged" /\ Goes(w, "locked")
    /\ lock' = w
    /\ UNCHANGED <<disk, mutex, op, base, new, guarded, hash, faults>>

Lock(w) ==
    /\ at[w] = "staged" /\ Goes(w, "locked")
    /\ lock = None /\ lock' = w
    /\ UNCHANGED <<disk, mutex, op, base, new, guarded, hash, faults>>

\* The precondition is compared under the lock.
Check(w) ==
    /\ at[w] = "locked" /\ Goes(w, "dump")
    /\ w \in guarded => hash[w] = normalized
    /\ UNCHANGED <<disk, locks, op, base, new, guarded, hash, faults>>

\* The save is over: the deferred releases run.
End(w) ==
    /\ Goes(w, "idle")
    /\ lock' = IF lock = w THEN None ELSE lock
    /\ mutex' = IF mutex = w THEN None ELSE mutex
    /\ UNCHANGED <<op, base, new, guarded>>

RefuseHoldingOn(w) ==      \* mutant: an early return forgets the server's mutex
    /\ at[w] = "locked" /\ w \in guarded /\ hash[w] # normalized
    /\ Goes(w, "idle")
    /\ lock' = None
    /\ UNCHANGED <<disk, mutex, op, base, new, guarded, hash, faults>>

\* A model that does not validate, or whose precondition does not hold, is
\* refused, and a refusal writes nothing.
Refuse(w) ==
    /\ \/ at[w] = "reading"
       \/ at[w] = "locked" /\ w \in guarded /\ hash[w] # normalized
    /\ End(w)
    /\ UNCHANGED <<disk, hash, faults>>

\* A storage failure of any step ends the save where it is.
Fail(w) ==
    /\ at[w] # "idle"
    /\ Fault
    /\ End(w)
    /\ UNCHANGED <<disk, hash>>

CommitNormalizedFirst(w) == \* mutant: the normalized file is renamed first
    /\ at[w] = "dump" /\ Goes(w, "report")
    /\ dump' = new[w] /\ normalized' = new[w].features
    /\ UNCHANGED <<report, refs, locks, op, base, new, guarded, hash, faults>>

CommitDump(w) ==
    /\ at[w] = "dump" /\ Goes(w, "report")
    /\ dump' = new[w]
    /\ UNCHANGED <<normalized, report, refs, locks, op, base, new, guarded, hash, faults>>

CommitReport(w) ==
    /\ at[w] = "report" /\ Goes(w, "normalized")
    /\ report' = new[w].features
    /\ UNCHANGED <<normalized, dump, refs, locks, op, base, new, guarded, hash, faults>>

\* The file the hash describes is renamed last.
CommitNormalized(w) ==
    /\ at[w] = "normalized" /\ Goes(w, "manifest")
    /\ normalized' = new[w].features
    /\ UNCHANGED <<report, dump, refs, locks, op, base, new, guarded, hash, faults>>

AnswerReread(w) ==         \* mutant: the receipt is read back after the release
    /\ at[w] = "manifest"
    /\ refs' = TRUE
    /\ End(w)
    /\ \E m \in Models : Learns(w, m)
    /\ UNCHANGED <<normalized, report, dump, faults>>

AnswerDumpHash(w) ==       \* mutant: the receipt is the dump's, not the normalized file's
    /\ at[w] = "manifest"
    /\ refs' = TRUE
    /\ End(w)
    /\ Learns(w, new[w])
    /\ UNCHANGED <<normalized, report, dump, faults>>

\* The manifest is saved, and the answer carries the receipt of the bytes that
\* were committed; the client may not be there to read it.  A tool ignores it.
Answer(w) ==
    /\ at[w] = "manifest"
    /\ refs' = TRUE
    /\ End(w)
    /\ \/ w \in Clients /\ Learns(w, new[w].features)
       \/ UNCHANGED hash
    /\ UNCHANGED <<normalized, report, dump, faults>>

\* A process dies, and with it every save it was making: the kernel drops its
\* lock, and its staged files are nobody's.
Die(W) ==
    /\ \E w \in W : at[w] # "idle"
    /\ Fault
    /\ at' = [w \in Writers |-> IF w \in W THEN "idle" ELSE at[w]]
    /\ lock' = IF lock \in W THEN None ELSE lock
    /\ mutex' = IF mutex \in W THEN None ELSE mutex
    /\ UNCHANGED <<disk, op, base, new, guarded, hash>>

-----------------------------------------------------------------------------

SaveStep(w) ==
    \/ Lock(w) \/ Check(w) \/ Refuse(w) \/ Fail(w)
    \/ CommitDump(w) \/ CommitReport(w) \/ CommitNormalized(w) \/ Answer(w)

Next ==
    \/ \E c \in Clients :
          \/ Get(c) \/ Propose(c)
          \/ \E m \in Models, guard \in BOOLEAN : Post(c, m, guard)
    \/ \E t \in Tools :
          \/ Rewrite(t)
          \/ \E m \in Models, i \in Records : Import(t, m, i)
          \/ Die({t})
    \/ \E w \in Writers : SaveStep(w) \/ \E m \in Models : KeepRecord(w, m)
    \/ Die(Clients)

Spec == Init /\ [][Next]_vars

-----------------------------------------------------------------------------
(* Safety.                                                                 *)

\* Every way out of a save gives back both locks, and no save is inside one it
\* does not hold: an early return that kept one would stop the whole project.
LocksAreGivenBack ==
    /\ \A w \in Writers : lock = w <=> at[w] \in Saving
    /\ \A c \in Clients : mutex = c <=> at[c] # "idle"

\* A guarded save replaces the features its own were made from: between the
\* check and the rename no other save gets in, in whatever process.
NoBlindOverwrite ==
    \A w \in guarded :
        at[w] \in {"dump", "report", "normalized"} /\ op[w] \in {"edit", "rewrite"}
            => normalized = base[w]

\* Whoever sees a new normalized model finds its dump and its report already
\* beside it, however the save that wrote it ends.
NewModelFindsItsDump ==
    [][normalized' # normalized => dump'.features = normalized' /\ report' = normalized']_vars

\* The model behaves as one compare-and-write register: a writer's hash is of
\* the model it read, or of the one the register took from it, never of what
\* another writer saved meanwhile.
Pending ==
    [w \in Writers |->
        IF at[w] \in {"idle", "reading"} THEN [new |-> None, guarded |-> FALSE, done |-> FALSE]
        ELSE [new |-> new[w].features, guarded |-> w \in guarded, done |-> at[w] = "manifest"]]
Register == INSTANCE GuardedRegister WITH
    Values <- Models,
    value <- normalized,
    seen <- hash,
    pending <- Pending
ImplementsRegister == Register!Spec

-----------------------------------------------------------------------------
(* What a comment says and the code does not keep.                         *)

\* facade_proposals.go: "a proposal is placed on the model the agent read, and
\* nothing else".
ProposalIsOnWhatTheAgentRead ==
    \A w \in Proposers :
        at[w] \in {"dump", "report", "normalized"} /\ op[w] = "propose" => base[w] = hash[w]
=============================================================================
