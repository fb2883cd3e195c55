------------------------- MODULE ServerState_proofs -------------------------
(***************************************************************************)
(* Proofs about the two pieces of state a server keeps beside the project: *)
(* the terrain store with the digest it remembers, for every set of        *)
(* processes and every bound, and the slot of the run estimate, for every  *)
(* set of requests.  The two share nothing.                                *)
(***************************************************************************)
EXTENDS TerrainStore, EstimateSlot, TLAPS

-----------------------------------------------------------------------------
(* The terrain store.                                                      *)

LEMMA TerrainConstants ==
    /\ Server \notin Importers /\ Free \notin Savers
    /\ 0 \notin Inodes
    /\ MaxTick \in Nat /\ MaxSaves \in Nat
  BY TerrainAssumption DEF Savers

\* A version that files have had, and that no staged file will bring back.
Known(d) ==
    /\ <<d.ino, d.tick>> \in named
    /\ \A s \in Savers : ~SameVersion(d, save[s].staged)

\* Staged files have versions of their own.
StagedApart ==
    \A s \in Savers : save[s].staged.ino # 0 =>
        /\ <<save[s].staged.ino, save[s].staged.tick>> \in named
        /\ \A t \in Savers : t # s => ~SameVersion(save[s].staged, save[t].staged)

\* A version that was stat-ed, hashed or remembered is known, so the terrain has
\* it only if it never changed, and then its sum is the terrain's.
HashesHold ==
    /\ terrain.ino # 0 => Known(terrain)
    /\ \A r \in Readers : status[r].at # "idle" =>
          /\ Known(status[r])
          /\ status[r].at # "hash" /\ SameVersion(status[r], terrain)
                => status[r].sum = terrain.content
    /\ digest.ino # 0 =>
          /\ Known(digest)
          /\ SameVersion(digest, terrain) => digest.sum = terrain.content

\* What a save has checked under the lock stays so until it commits.
CheckedHolds ==
    \A s \in Savers : save[s].at = "checked" => terrain.content \in save[s].expected

VersionsHold == StagedApart /\ HashesHold

TerrainInv ==
    TerrainTypeOK /\ CheckedHolds /\ (~repeated => VersionsHold)

LEMMA TerrainInitially == TerrainInit => TerrainInv
<1> SUFFICES ASSUME TerrainInit PROVE TerrainInv
  OBVIOUS
<1> USE TerrainConstants DEF TerrainInit, NoFile, NoDigest, NoSave, NoStatus
<1>1. FilesTypeOK
  BY DEF FilesTypeOK, SaveState, StatusState, Stages, File
<1>2. LockHeld
  BY DEF LockHeld
<1>3. registered \in BOOLEAN /\ repeated \in BOOLEAN
  BY Zenon
<1>4. CheckedHolds
  BY DEF CheckedHolds
<1>5. VersionsHold
  BY DEF VersionsHold, StagedApart, HashesHold
<1>6. QED
  BY <1>1, <1>2, <1>3, <1>4, <1>5 DEF TerrainInv, TerrainTypeOK

-----------------------------------------------------------------------------
(* What a saver's step does to the saves.                                  *)

\* Saver s moves to a stage; what it staged stays or goes.
Stepped(s, l) ==
    /\ save' \in [Savers -> SaveState]
    /\ \A t \in Savers : t # s => save'[t] = save[t]
    /\ save'[s].at = l
    /\ save'[s].staged = save[s].staged \/ save'[s].staged = NoFile

LEMMA MovesStepped ==
    ASSUME save \in [Savers -> SaveState], NEW s \in Savers, NEW l \in Stages, Moves(s, l)
    PROVE  Stepped(s, l) /\ save'[s].expected = save[s].expected
  BY DEF Moves, Stepped, SaveState

LEMMA FailsStepped ==
    ASSUME save \in [Savers -> SaveState], NEW s \in Savers, Fails(s)
    PROVE  Stepped(s, "unlock")
<1> DEFINE f == [at |-> "unlock", expected |-> {}, staged |-> save[s].staged]
<1>1. \A t \in Savers : t # s => save'[t] = save[t]
  BY DEF Fails
<1>2. f \in SaveState
  BY DEF SaveState, Stages
<1>3. save[s] \in SaveState
  OBVIOUS
<1>4. save'[s] = f
  BY <1>3 DEF Fails, SaveState
<1>5. save' = [t \in Savers |-> save'[t]]
  BY DEF Fails
<1> HIDE DEF f
<1>6. \A t \in Savers : save'[t] \in SaveState
  BY <1>1, <1>2, <1>4
<1>7. save' \in [Savers -> SaveState]
  BY <1>5, <1>6
<1>8. QED
  BY <1>1, <1>4, <1>7 DEF Stepped, f

LEMMA NoSaveStepped ==
    ASSUME save \in [Savers -> SaveState], NEW s \in Savers, NEW l \in Stages,
           save' = [save EXCEPT ![s] = [NoSave EXCEPT !.at = l]]
    PROVE  Stepped(s, l)
<1> DEFINE f == [NoSave EXCEPT !.at = l]
<1>1. f \in SaveState /\ f.at = l /\ f.staged = NoFile
  BY DEF SaveState, NoSave, NoFile
<1> HIDE DEF f
<1>2. save' = [save EXCEPT ![s] = f]
  BY DEF f
<1>3. save' \in [Savers -> SaveState] /\ save'[s] = f
  BY <1>1, <1>2
<1>4. \A t \in Savers : t # s => save'[t] = save[t]
  BY <1>2
<1>5. QED
  BY <1>1, <1>3, <1>4 DEF Stepped

\* The versions hold through every step that names no file and remembers nothing.
LEMMA VersionsFrame ==
    ASSUME VersionsHold, named' = named, terrain' = terrain,
           digest' = digest \/ digest' = NoDigest,
           \A r \in Readers : status'[r] = status[r] \/ status'[r] = NoStatus,
           \A t \in Savers : \/ save'[t].staged = save[t].staged
                             \/ save'[t].staged = NoFile,
           0 \notin Inodes, named \subseteq Inodes \X (0..MaxTick)
    PROVE  VersionsHold'
<1>1. ASSUME NEW d, Known(d) PROVE Known(d)'
  <2>1. d.ino # 0
    BY <1>1 DEF Known
  <2>2. QED
    BY <1>1, <2>1 DEF Known, SameVersion, NoFile
<1>2. StagedApart'
  BY DEF VersionsHold, StagedApart, SameVersion, NoFile
<1>3. HashesHold'
  <2>1. (terrain.ino # 0 => Known(terrain))'
    BY <1>1 DEF VersionsHold, HashesHold
  <2>2. ASSUME NEW r \in Readers, status'[r].at # "idle"
        PROVE  /\ Known(status[r])'
               /\ status'[r].at # "hash" /\ SameVersion(status'[r], terrain')
                     => status'[r].sum = terrain'.content
    <3>1. status'[r] = status[r]
      BY <2>2 DEF NoStatus
    <3>2. Known(status[r])
      BY <2>2, <3>1 DEF VersionsHold, HashesHold
    <3>3. Known(status[r])'
      BY <1>1, <3>1, <3>2
    <3>4. QED
      BY <2>2, <3>1, <3>3 DEF VersionsHold, HashesHold, SameVersion
  <2>3. ASSUME digest'.ino # 0
        PROVE  Known(digest)' /\ (SameVersion(digest', terrain') => digest'.sum = terrain'.content)
    <3>1. digest' = digest
      BY <2>3 DEF NoDigest
    <3>2. QED
      BY <1>1, <2>3, <3>1 DEF VersionsHold, HashesHold, SameVersion
  <2>4. QED
    BY <2>1, <2>2, <2>3 DEF HashesHold, SameVersion
<1>4. QED
  BY <1>2, <1>3 DEF VersionsHold

-----------------------------------------------------------------------------
(* Savers.                                                                 *)

Holding(l) == l \notin {"idle", "staged", "discard"}

\* The lock is taken or kept, given back, or not s's to give.
LockMoves(s, l) ==
    \/ Holding(l) /\ manifestLock \in {Free, s} /\ manifestLock' = s
    \/ ~Holding(l) /\ manifestLock = s /\ manifestLock' = Free
    \/ ~Holding(l) /\ manifestLock # s /\ manifestLock' = manifestLock

FlagsKeep == registered' \in BOOLEAN /\ repeated' = repeated

\* What a step of s to a stage may change beside the saves, but for its first step.
SaverChanges(s, l) ==
    /\ terrain' = terrain \/ (manifestLock = s /\ terrain' = save[s].staged)
    /\ LockMoves(s, l)
    /\ digest' \in {digest, NoDigest,
                    [ino |-> terrain.ino, tick |-> terrain.tick, sum |-> terrain.content]}
    /\ status' = status \/ status' = [r \in Readers |-> NoStatus]
    /\ clock' = clock /\ saves' = saves /\ named' = named

LEMMA SteppedLock ==
    ASSUME LockHeld, NEW s \in Savers, NEW l \in Stages, Stepped(s, l), Free \notin Savers,
           LockMoves(s, l)
    PROVE  LockHeld'
<1>1. \A t \in Savers : t # s => save'[t].at = save[t].at
  BY DEF Stepped
<1>2. save'[s].at = l
  BY DEF Stepped
<1>3. ASSUME NEW t \in Savers PROVE manifestLock' = t <=> Holding(save'[t].at)
  BY <1>1, <1>2 DEF LockHeld, Holding, LockMoves
<1>4. QED
  BY <1>3 DEF LockHeld, Holding

LEMMA SteppedChecked ==
    ASSUME CheckedHolds, LockHeld, NEW s \in Savers, NEW l \in Stages, Stepped(s, l),
           terrain' = terrain \/ manifestLock = s,
           l = "checked" => terrain'.content \in save'[s].expected
    PROVE  CheckedHolds'
<1>1. ASSUME NEW t \in Savers, save'[t].at = "checked"
      PROVE  terrain'.content \in save'[t].expected
  <2>1. CASE t = s
    BY <1>1, <2>1 DEF Stepped
  <2>2. CASE t # s
    <3>1. save'[t] = save[t] /\ save[t].at = "checked"
      BY <1>1, <2>2 DEF Stepped
    <3>2. manifestLock = t
      BY <3>1 DEF LockHeld
    <3>3. QED
      BY <2>2, <3>1, <3>2 DEF CheckedHolds
  <2>3. QED
    BY <2>1, <2>2
<1>2. QED
  BY <1>1 DEF CheckedHolds

\* A saver's step, but for the first, from what it changes.
LEMMA SaverKeeps ==
    ASSUME TerrainInv, NEW s \in Savers, NEW l \in Stages, Stepped(s, l),
           SaverChanges(s, l), FlagsKeep,
           l = "checked" => terrain'.content \in save'[s].expected,
           VersionsHold => VersionsHold'
    PROVE  TerrainInv'
<1> USE TerrainConstants
<1>1. FilesTypeOK
  BY DEF TerrainInv, TerrainTypeOK
<1>2. LockHeld'
  BY SteppedLock DEF TerrainInv, TerrainTypeOK, SaverChanges
<1>3. CheckedHolds'
  BY SteppedChecked DEF TerrainInv, TerrainTypeOK, SaverChanges
<1>4. FilesTypeOK'
  <2>1. terrain' \in File \cup {NoFile}
    BY <1>1 DEF FilesTypeOK, SaveState, SaverChanges
  <2>2. digest' \in [ino: {0} \cup Inodes, tick: 0..MaxTick, sum: {0} \cup Contents]
    BY <1>1 DEF FilesTypeOK, File, NoFile, NoDigest, Contents, SaverChanges
  <2>3. status' \in [Readers -> StatusState]
    BY <1>1 DEF FilesTypeOK, StatusState, NoStatus, SaverChanges
  <2>4. manifestLock' \in Savers \cup {Free}
    BY <1>1 DEF FilesTypeOK, SaverChanges, LockMoves
  <2>5. QED
    BY <1>1, <2>1, <2>2, <2>3, <2>4 DEF FilesTypeOK, Stepped, SaverChanges
<1>5. registered' \in BOOLEAN /\ repeated' \in BOOLEAN
  BY Zenon DEF TerrainInv, TerrainTypeOK, FlagsKeep
<1>6. ~repeated' => VersionsHold'
  <2>1. ~repeated' => ~repeated
    BY Zenon DEF FlagsKeep
  <2>2. QED
    BY <2>1 DEF TerrainInv
<1>7. TerrainTypeOK'
  BY <1>2, <1>4, <1>5, Zenon DEF TerrainTypeOK
<1>8. QED
  BY <1>3, <1>6, <1>7 DEF TerrainInv

LEMMA LockKeeps == ASSUME TerrainInv, NEW s \in Savers, LockTerrain(s) PROVE TerrainInv'
<1>1. FilesTypeOK
  BY DEF TerrainInv, TerrainTypeOK
<1>2. "locked" \in Stages
  BY DEF Stages
<1>3. Stepped(s, "locked")
  BY <1>1, <1>2, MovesStepped DEF FilesTypeOK, LockTerrain
<1>4. SaverChanges(s, "locked")
  <2>1. /\ terrain' = terrain /\ digest' = digest /\ status' = status
        /\ clock' = clock /\ saves' = saves /\ named' = named
        /\ manifestLock = Free /\ manifestLock' = s
    BY Zenon DEF LockTerrain
  <2>2. QED
    BY <2>1 DEF SaverChanges, LockMoves, Holding
<1>5. FlagsKeep
  BY Zenon DEF FlagsKeep, LockTerrain, TerrainInv, TerrainTypeOK
<1>6. VersionsHold => VersionsHold'
  BY <1>1, <1>3, TerrainConstants, VersionsFrame DEF LockTerrain, Stepped, FilesTypeOK
<1>7. QED
  BY <1>2, <1>3, <1>4, <1>5, <1>6, SaverKeeps

LEMMA CheckKeeps == ASSUME TerrainInv, NEW s \in Savers, CheckTerrain(s) PROVE TerrainInv'
<1>1. FilesTypeOK /\ manifestLock = s
  BY DEF TerrainInv, TerrainTypeOK, LockHeld, CheckTerrain
<1>2. "checked" \in Stages /\ "unlock" \in Stages
  BY DEF Stages
<1>3. SaverChanges(s, "checked") /\ SaverChanges(s, "unlock")
  <2>1. /\ terrain' = terrain /\ digest' = digest /\ status' = status
        /\ clock' = clock /\ saves' = saves /\ named' = named
        /\ manifestLock' = manifestLock
    BY Zenon DEF CheckTerrain
  <2>2. QED
    BY <1>1, <2>1 DEF SaverChanges, LockMoves, Holding
<1>4. FlagsKeep
  BY Zenon DEF FlagsKeep, CheckTerrain, TerrainInv, TerrainTypeOK
<1>5. CASE terrain.content \in save[s].expected /\ Moves(s, "checked")
  <2>1. Stepped(s, "checked") /\ save'[s].expected = save[s].expected
    BY <1>1, <1>2, <1>5, MovesStepped DEF FilesTypeOK
  <2>2. terrain'.content \in save'[s].expected
    BY <1>5, <2>1 DEF CheckTerrain
  <2>3. VersionsHold => VersionsHold'
    BY <1>1, <2>1, TerrainConstants, VersionsFrame DEF CheckTerrain, Stepped, FilesTypeOK
  <2>4. QED
    BY <1>2, <1>3, <1>4, <2>1, <2>2, <2>3, SaverKeeps
<1>6. CASE Fails(s)
  <2>1. Stepped(s, "unlock")
    BY <1>1, <1>6, FailsStepped DEF FilesTypeOK
  <2>2. VersionsHold => VersionsHold'
    BY <1>1, <2>1, TerrainConstants, VersionsFrame DEF CheckTerrain, Stepped, FilesTypeOK
  <2>3. QED
    BY <1>2, <1>3, <1>4, <2>1, <2>2, SaverKeeps
<1>7. QED
  BY <1>5, <1>6 DEF CheckTerrain

\* The rename: what was remembered or read is of another version than what was staged.
LEMMA CommitKeeps == ASSUME TerrainInv, NEW s \in Savers, CommitTerrain(s) PROVE TerrainInv'
<1>1. FilesTypeOK /\ manifestLock = s
  BY DEF TerrainInv, TerrainTypeOK, LockHeld, CommitTerrain
<1>2. "committed" \in Stages /\ "unlock" \in Stages
  BY DEF Stages
<1>3. FlagsKeep
  BY Zenon DEF FlagsKeep, CommitTerrain, TerrainInv, TerrainTypeOK
<1>4. CASE /\ terrain' = save[s].staged
           /\ save' = [save EXCEPT ![s] = [NoSave EXCEPT !.at = "committed"]]
  <2>1. Stepped(s, "committed") /\ save'[s].staged = NoFile
    BY <1>1, <1>2, <1>4, NoSaveStepped DEF FilesTypeOK, NoSave
  <2>2. SaverChanges(s, "committed")
    BY <1>1, <1>4 DEF SaverChanges, LockMoves, Holding, CommitTerrain
  <2>3. ASSUME VersionsHold PROVE VersionsHold'
    <3>1. ASSUME NEW d, Known(d) PROVE Known(d)'
      <4>1. d.ino # 0
        BY <1>1, <2>3, <3>1, TerrainConstants DEF Known, FilesTypeOK
      <4>2. QED
        BY <2>1, <3>1, <4>1 DEF Known, SameVersion, NoFile, CommitTerrain, Stepped
    <3>2. StagedApart'
      BY <2>1, <2>3 DEF VersionsHold, StagedApart, SameVersion, NoFile, CommitTerrain, Stepped
    <3>3. ASSUME terrain'.ino # 0 PROVE Known(terrain)'
      <4>1. /\ <<terrain'.ino, terrain'.tick>> \in named
            /\ \A t \in Savers : t # s => ~SameVersion(terrain', save[t].staged)
        BY <1>4, <2>3, <3>3 DEF VersionsHold, StagedApart
      <4>2. \A t \in Savers : ~SameVersion(terrain', save'[t].staged)
        BY <2>1, <3>3, <4>1 DEF Stepped, SameVersion, NoFile
      <4>3. named' = named
        BY DEF CommitTerrain
      <4>4. QED
        BY <4>1, <4>2, <4>3 DEF Known, SameVersion
    <3>4. ASSUME NEW d, Known(d) PROVE ~SameVersion(d, terrain')
      BY <1>4, <3>4 DEF Known, SameVersion
    <3>5. digest' = digest /\ status' = status
      BY DEF CommitTerrain
    <3>6. ASSUME NEW r \in Readers, status[r].at # "idle"
          PROVE  Known(status[r])' /\ ~SameVersion(status[r], terrain')
      BY <2>3, <3>1, <3>4, <3>5, <3>6 DEF VersionsHold, HashesHold
    <3>7. ASSUME digest.ino # 0 PROVE Known(digest)' /\ ~SameVersion(digest, terrain')
      BY <2>3, <3>1, <3>4, <3>5, <3>7 DEF VersionsHold, HashesHold
    <3>8. HashesHold'
      BY <3>3, <3>5, <3>6, <3>7 DEF HashesHold, SameVersion
    <3>9. QED
      BY <3>2, <3>8 DEF VersionsHold
  <2>4. QED
    BY <1>2, <1>3, <2>1, <2>2, <2>3, SaverKeeps
<1>5. CASE Fails(s) /\ terrain' = terrain
  <2>1. Stepped(s, "unlock")
    BY <1>1, <1>5, FailsStepped DEF FilesTypeOK
  <2>2. SaverChanges(s, "unlock")
    <3>1. /\ digest' = digest /\ status' = status
          /\ clock' = clock /\ saves' = saves /\ named' = named
          /\ manifestLock' = manifestLock
      BY Zenon DEF CommitTerrain
    <3>2. QED
      BY <1>1, <1>5, <3>1 DEF SaverChanges, LockMoves, Holding
  <2>3. VersionsHold => VersionsHold'
    BY <1>1, <1>5, <2>1, TerrainConstants, VersionsFrame
       DEF CommitTerrain, Stepped, FilesTypeOK
  <2>4. QED
    BY <1>2, <1>3, <2>1, <2>2, <2>3, SaverKeeps
<1>6. QED
  BY <1>4, <1>5 DEF CommitTerrain

LEMMA RememberCommittedKeeps ==
    ASSUME TerrainInv, NEW s \in Savers, RememberCommitted(s) PROVE TerrainInv'
<1>1. FilesTypeOK /\ manifestLock = s
  BY DEF TerrainInv, TerrainTypeOK, LockHeld, RememberCommitted
<1>2. "register" \in Stages
  BY DEF Stages
<1>3. Stepped(s, "register")
  BY <1>1, <1>2, MovesStepped DEF FilesTypeOK, RememberCommitted
<1>4. /\ terrain' = terrain /\ status' = status /\ clock' = clock /\ saves' = saves
      /\ named' = named /\ manifestLock' = manifestLock
      /\ \/ digest' = digest
         \/ digest' = [ino |-> terrain.ino, tick |-> terrain.tick, sum |-> terrain.content]
  BY Zenon DEF RememberCommitted
<1>5. SaverChanges(s, "register")
  BY <1>1, <1>4 DEF SaverChanges, LockMoves, Holding
<1>6. FlagsKeep
  BY Zenon DEF FlagsKeep, RememberCommitted, TerrainInv, TerrainTypeOK
<1>7. ASSUME VersionsHold PROVE VersionsHold'
  <2>1. CASE digest' = digest
    BY <1>1, <1>3, <1>4, <1>7, <2>1, TerrainConstants, VersionsFrame DEF Stepped, FilesTypeOK
  <2>2. CASE digest' = [ino |-> terrain.ino, tick |-> terrain.tick, sum |-> terrain.content]
    <3>1. ASSUME NEW d, Known(d) PROVE Known(d)'
      <4>1. d.ino # 0
        BY <1>1, <3>1, TerrainConstants DEF Known, FilesTypeOK
      <4>2. QED
        BY <1>3, <1>4, <3>1, <4>1 DEF Known, SameVersion, NoFile, Stepped
    <3>2. StagedApart'
      BY <1>3, <1>4, <1>7 DEF VersionsHold, StagedApart, SameVersion, NoFile, Stepped
    <3>3. terrain'.ino # 0 => Known(terrain)'
      BY <1>4, <1>7, <3>1 DEF VersionsHold, HashesHold
    <3>4. digest'.ino # 0 => Known(digest)'
      BY <1>4, <2>2, <3>3 DEF Known, SameVersion
    <3>5. ASSUME NEW r \in Readers, status'[r].at # "idle" PROVE Known(status[r])'
      BY <1>4, <1>7, <3>1, <3>5 DEF VersionsHold, HashesHold
    <3>6. HashesHold'
      BY <1>4, <1>7, <2>2, <3>3, <3>4, <3>5 DEF VersionsHold, HashesHold, SameVersion
    <3>7. QED
      BY <3>2, <3>6 DEF VersionsHold
  <2>3. QED
    BY <1>4, <2>1, <2>2
<1>8. QED
  BY <1>2, <1>3, <1>5, <1>6, <1>7, SaverKeeps

LEMMA RegisterKeeps ==
    ASSUME TerrainInv, NEW s \in Savers, RegisterTerrain(s) PROVE TerrainInv'
<1>1. FilesTypeOK /\ manifestLock = s
  BY DEF TerrainInv, TerrainTypeOK, LockHeld, RegisterTerrain
<1>2. "unlock" \in Stages
  BY DEF Stages
<1>3. Stepped(s, "unlock")
  BY <1>1, <1>2, MovesStepped DEF FilesTypeOK, RegisterTerrain
<1>4. /\ terrain' = terrain /\ status' = status /\ clock' = clock /\ saves' = saves
      /\ named' = named /\ manifestLock' = manifestLock /\ digest' = digest
  BY Zenon DEF RegisterTerrain
<1>5. SaverChanges(s, "unlock")
  BY <1>1, <1>4 DEF SaverChanges, LockMoves, Holding
<1>6. FlagsKeep
  <2>1. registered' \in {registered, TRUE} /\ registered \in BOOLEAN
    BY Zenon DEF RegisterTerrain, TerrainInv, TerrainTypeOK
  <2>2. registered' \in BOOLEAN
    BY <2>1, Zenon
  <2>3. QED
    BY <2>2, Zenon DEF FlagsKeep, RegisterTerrain
<1>7. VersionsHold => VersionsHold'
  BY <1>1, <1>3, <1>4, TerrainConstants, VersionsFrame DEF Stepped, FilesTypeOK
<1>8. QED
  BY <1>2, <1>3, <1>5, <1>6, <1>7, SaverKeeps

LEMMA UnlockKeeps ==
    ASSUME TerrainInv, NEW s \in Savers, UnlockTerrain(s) PROVE TerrainInv'
<1>1. FilesTypeOK /\ manifestLock = s
  BY DEF TerrainInv, TerrainTypeOK, LockHeld, UnlockTerrain
<1>2. "discard" \in Stages
  BY DEF Stages
<1>3. Stepped(s, "discard")
  BY <1>1, <1>2, MovesStepped DEF FilesTypeOK, UnlockTerrain
<1>4. /\ terrain' = terrain /\ status' = status /\ clock' = clock /\ saves' = saves
      /\ named' = named /\ manifestLock' = Free /\ digest' = digest
  BY Zenon DEF UnlockTerrain
<1>5. SaverChanges(s, "discard")
  BY <1>1, <1>4 DEF SaverChanges, LockMoves, Holding
<1>6. FlagsKeep
  BY Zenon DEF FlagsKeep, UnlockTerrain, TerrainInv, TerrainTypeOK
<1>7. VersionsHold => VersionsHold'
  BY <1>1, <1>3, <1>4, TerrainConstants, VersionsFrame DEF Stepped, FilesTypeOK
<1>8. QED
  BY <1>2, <1>3, <1>5, <1>6, <1>7, SaverKeeps

LEMMA DiscardKeeps ==
    ASSUME TerrainInv, NEW s \in Savers, DiscardStaged(s) PROVE TerrainInv'
<1>1. FilesTypeOK /\ manifestLock # s
  BY DEF TerrainInv, TerrainTypeOK, LockHeld, DiscardStaged
<1>2. "idle" \in Stages
  BY DEF Stages
<1>3. Stepped(s, "idle")
  BY <1>1, <1>2, NoSaveStepped DEF FilesTypeOK, DiscardStaged, NoSave
<1>4. /\ terrain' = terrain /\ status' = status /\ clock' = clock /\ saves' = saves
      /\ named' = named /\ manifestLock' = manifestLock /\ digest' = digest
  BY Zenon DEF DiscardStaged
<1>5. SaverChanges(s, "idle")
  BY <1>1, <1>4 DEF SaverChanges, LockMoves, Holding
<1>6. FlagsKeep
  BY Zenon DEF FlagsKeep, DiscardStaged, TerrainInv, TerrainTypeOK
<1>7. VersionsHold => VersionsHold'
  BY <1>1, <1>3, <1>4, TerrainConstants, VersionsFrame DEF Stepped, FilesTypeOK
<1>8. QED
  BY <1>2, <1>3, <1>5, <1>6, <1>7, SaverKeeps

LEMMA DeathKeeps == ASSUME TerrainInv, NEW s \in Savers, Dies(s) PROVE TerrainInv'
<1>1. FilesTypeOK
  BY DEF TerrainInv, TerrainTypeOK
<1>2. "idle" \in Stages
  BY DEF Stages
<1>3. Stepped(s, "idle")
  BY <1>1, <1>2, NoSaveStepped DEF FilesTypeOK, Dies, NoSave
<1>4. /\ terrain' = terrain /\ clock' = clock /\ saves' = saves /\ named' = named
      /\ manifestLock' = IF manifestLock = s THEN Free ELSE manifestLock
      /\ digest' = digest \/ digest' = NoDigest
      /\ status' = status \/ status' = [r \in Readers |-> NoStatus]
  BY Zenon DEF Dies
<1>5. SaverChanges(s, "idle")
  BY <1>4 DEF SaverChanges, LockMoves, Holding
<1>6. FlagsKeep
  BY Zenon DEF FlagsKeep, Dies, TerrainInv, TerrainTypeOK
<1>7. VersionsHold => VersionsHold'
  <2>1. \A r \in Readers : status'[r] = status[r] \/ status'[r] = NoStatus
    BY <1>4
  <2>2. QED
    BY <1>1, <1>3, <1>4, <2>1, TerrainConstants, VersionsFrame DEF Stepped, FilesTypeOK
<1>8. QED
  BY <1>2, <1>3, <1>5, <1>6, <1>7, SaverKeeps

\* A new file: unless it repeats an earlier version, it is one that nothing knows.
LEMMA StageKeeps == ASSUME TerrainInv, NEW s \in Savers, StageTerrain(s) PROVE TerrainInv'
<1> USE TerrainConstants
<1>1. FilesTypeOK /\ LockHeld /\ CheckedHolds /\ save[s].at = "idle" /\ saves < MaxSaves
  BY DEF TerrainInv, TerrainTypeOK, StageTerrain
<1>2. PICK i \in Spare, e \in Expectations :
         /\ save' = [save EXCEPT ![s] =
               [at |-> "staged", expected |-> e,
                staged |-> [ino |-> i, tick |-> clock, content |-> saves + 1]]]
         /\ repeated' = (repeated \/ <<i, clock>> \in named)
         /\ named' = named \cup {<<i, clock>>}
  BY Zenon DEF StageTerrain
<1> DEFINE new == [ino |-> i, tick |-> clock, content |-> saves + 1]
<1> DEFINE begun == [at |-> "staged", expected |-> e, staged |-> new]
<1>3. /\ terrain' = terrain /\ digest' = digest /\ clock' = clock /\ saves' = saves + 1
      /\ manifestLock' = manifestLock /\ status' = status /\ registered' = registered
  BY Zenon DEF StageTerrain
<1>4. i \in Inodes /\ i # 0 /\ new \in File
  BY <1>1 DEF Spare, File, FilesTypeOK, Contents
<1>5. begun \in SaveState
  BY <1>4 DEF SaveState, Stages
<1>6. begun.at = "staged" /\ begun.staged = new
  OBVIOUS
<1>7. save' = [save EXCEPT ![s] = begun]
  BY <1>2
<1> HIDE DEF begun
<1>8. /\ save' \in [Savers -> SaveState] /\ save'[s] = begun
      /\ \A t \in Savers : t # s => save'[t] = save[t]
  BY <1>1, <1>5, <1>7 DEF FilesTypeOK
<1>9. FilesTypeOK'
  <2>1. named' \subseteq Inodes \X (0..MaxTick)
    BY <1>1, <1>2, <1>4 DEF FilesTypeOK
  <2>2. saves' \in 0..MaxSaves
    BY <1>1, <1>3 DEF FilesTypeOK
  <2>3. QED
    BY <1>1, <1>3, <1>8, <2>1, <2>2 DEF FilesTypeOK
<1>10. LockHeld'
  BY <1>1, <1>3, <1>6, <1>8 DEF LockHeld
<1>11. CheckedHolds'
  BY <1>1, <1>3, <1>6, <1>8 DEF CheckedHolds
<1>12. registered' \in BOOLEAN /\ repeated' \in BOOLEAN
  <2>1. registered' \in BOOLEAN
    BY <1>3, Zenon DEF TerrainInv, TerrainTypeOK
  <2>2. repeated' \in BOOLEAN
    BY <1>2, Zenon
  <2>3. QED
    BY <2>1, <2>2
<1>13. ASSUME VersionsHold, <<i, clock>> \notin named PROVE VersionsHold'
  <2>1. ASSUME NEW d, Known(d) PROVE Known(d)'
    BY <1>2, <1>6, <1>8, <1>13, <2>1 DEF Known, SameVersion
  <2>2. StagedApart'
    <3>1. ASSUME NEW t \in Savers, t # s, save[t].staged.ino # 0
          PROVE  <<save[t].staged.ino, save[t].staged.tick>> \in named
      BY <1>13, <3>1 DEF VersionsHold, StagedApart
    <3>2. ASSUME NEW t \in Savers, t # s PROVE ~SameVersion(new, save[t].staged)
      BY <1>4, <1>13, <3>1, <3>2 DEF SameVersion
    <3>3. ASSUME NEW t \in Savers, save'[t].staged.ino # 0
          PROVE  <<save'[t].staged.ino, save'[t].staged.tick>> \in named'
      BY <1>2, <1>6, <1>8, <3>1, <3>3
    <3>4. ASSUME NEW t \in Savers, NEW u \in Savers, t # u, save'[t].staged.ino # 0
          PROVE  ~SameVersion(save'[t].staged, save'[u].staged)
      <4>1. CASE t = s
        BY <1>6, <1>8, <3>2, <3>4, <4>1
      <4>2. CASE u = s
        BY <1>6, <1>8, <3>2, <3>4, <4>2 DEF SameVersion
      <4>3. CASE t # s /\ u # s
        BY <1>8, <1>13, <3>4, <4>3 DEF VersionsHold, StagedApart
      <4>4. QED
        BY <4>1, <4>2, <4>3
    <3>5. QED
      BY <3>3, <3>4 DEF StagedApart, SameVersion
  <2>3. terrain'.ino # 0 => Known(terrain)'
    BY <1>3, <1>13, <2>1 DEF VersionsHold, HashesHold
  <2>4. digest'.ino # 0 => Known(digest)'
    BY <1>3, <1>13, <2>1 DEF VersionsHold, HashesHold
  <2>5. ASSUME NEW r \in Readers, status'[r].at # "idle" PROVE Known(status[r])'
    BY <1>3, <1>13, <2>1, <2>5 DEF VersionsHold, HashesHold
  <2>6. HashesHold'
    BY <1>3, <1>13, <2>3, <2>4, <2>5 DEF VersionsHold, HashesHold, SameVersion
  <2>7. QED
    BY <2>2, <2>6 DEF VersionsHold
<1>14. ~repeated' => ~repeated /\ <<i, clock>> \notin named
  BY <1>2, Zenon
<1>15. ~repeated' => VersionsHold'
  BY <1>13, <1>14 DEF TerrainInv
<1>16. TerrainTypeOK'
  BY <1>9, <1>10, <1>12, Zenon DEF TerrainTypeOK
<1>17. QED
  BY <1>11, <1>15, <1>16 DEF TerrainInv

-----------------------------------------------------------------------------
(* Readers, and the clock.                                                 *)

\* A step that saves nothing, from what it changes.
LEMMA ReaderKeeps ==
    ASSUME TerrainInv, FlagsKeep, terrain' = terrain, manifestLock' = manifestLock,
           save' = save, saves' = saves, named' = named,
           clock' \in 0..MaxTick,
           digest' \in [ino: {0} \cup Inodes, tick: 0..MaxTick, sum: {0} \cup Contents],
           status' \in [Readers -> StatusState],
           VersionsHold => VersionsHold'
    PROVE  TerrainInv'
<1>1. FilesTypeOK /\ LockHeld /\ CheckedHolds
  BY DEF TerrainInv, TerrainTypeOK
<1>2. FilesTypeOK'
  BY <1>1 DEF FilesTypeOK
<1>3. LockHeld' /\ CheckedHolds'
  BY <1>1 DEF LockHeld, CheckedHolds
<1>4. registered' \in BOOLEAN /\ repeated' \in BOOLEAN
  BY Zenon DEF TerrainInv, TerrainTypeOK, FlagsKeep
<1>5. ~repeated' => VersionsHold'
  <2>1. ~repeated' => ~repeated
    BY Zenon DEF FlagsKeep
  <2>2. QED
    BY <2>1 DEF TerrainInv
<1>6. TerrainTypeOK'
  BY <1>2, <1>3, <1>4, Zenon DEF TerrainTypeOK
<1>7. QED
  BY <1>3, <1>5, <1>6 DEF TerrainInv

\* The versions hold through a reader's step if what it reads, or remembers, does.
LEMMA ReaderVersions ==
    ASSUME VersionsHold, terrain' = terrain, save' = save, named' = named,
           \A r \in Readers : status'[r].at # "idle" =>
               /\ Known(status'[r])
               /\ status'[r].at # "hash" /\ SameVersion(status'[r], terrain)
                     => status'[r].sum = terrain.content,
           digest'.ino # 0 =>
               /\ Known(digest')
               /\ SameVersion(digest', terrain) => digest'.sum = terrain.content
    PROVE  VersionsHold'
  BY DEF VersionsHold, StagedApart, HashesHold, Known, SameVersion

LEMMA StatKeeps == ASSUME TerrainInv, NEW r \in Readers, StatTerrain(r) PROVE TerrainInv'
<1> USE TerrainConstants
<1> DEFINE stat == [at |-> "hash", ino |-> terrain.ino, tick |-> terrain.tick, sum |-> 0]
<1>1. FilesTypeOK /\ terrain # NoFile
  BY DEF TerrainInv, TerrainTypeOK, StatTerrain
<1>2. /\ terrain' = terrain /\ save' = save /\ saves' = saves /\ named' = named
      /\ clock' = clock /\ manifestLock' = manifestLock /\ digest' = digest
      /\ status' = [status EXCEPT ![r] = stat]
  BY Zenon DEF StatTerrain
<1>3. terrain.ino # 0 /\ stat \in StatusState
  BY <1>1 DEF FilesTypeOK, File, StatusState, NoFile
<1>4. FlagsKeep
  BY Zenon DEF FlagsKeep, StatTerrain, TerrainInv, TerrainTypeOK
<1>5. status' \in [Readers -> StatusState]
  BY <1>1, <1>2, <1>3 DEF FilesTypeOK
<1>6. ASSUME VersionsHold PROVE VersionsHold'
  <2>1. Known(stat) /\ stat.at = "hash"
    BY <1>3, <1>6 DEF VersionsHold, HashesHold, Known, SameVersion
  <2> HIDE DEF stat
  <2>2. \A q \in Readers : status'[q] = IF q = r THEN stat ELSE status[q]
    BY <1>1, <1>2 DEF FilesTypeOK
  <2>3. QED
    BY <1>2, <1>6, <2>1, <2>2, ReaderVersions DEF VersionsHold, HashesHold
<1>7. QED
  BY <1>1, <1>2, <1>4, <1>5, <1>6, ReaderKeeps DEF FilesTypeOK

LEMMA HashKeeps == ASSUME TerrainInv, NEW r \in Readers, HashTerrain(r) PROVE TerrainInv'
<1> USE TerrainConstants
<1> DEFINE hashed == [at |-> "again", ino |-> status[r].ino, tick |-> status[r].tick,
                      sum |-> terrain.content]
<1>1. FilesTypeOK /\ status[r].at = "hash"
  BY DEF TerrainInv, TerrainTypeOK, HashTerrain
<1>2. /\ terrain' = terrain /\ save' = save /\ saves' = saves /\ named' = named
      /\ clock' = clock /\ manifestLock' = manifestLock /\ digest' = digest
  BY Zenon DEF HashTerrain
<1>3. status[r] \in StatusState
  BY <1>1 DEF FilesTypeOK
<1>4. /\ hashed \in StatusState
      /\ NoStatus \in StatusState
  BY <1>1, <1>3 DEF FilesTypeOK, File, StatusState, NoFile, NoStatus
<1>5. PICK f \in {hashed, NoStatus} : \A q \in Readers : status'[q] = IF q = r THEN f ELSE status[q]
  <2>1. \/ status' = [status EXCEPT ![r].at = "again", ![r].sum = terrain.content]
        \/ status' = [status EXCEPT ![r] = NoStatus]
    BY DEF HashTerrain
  <2>2. CASE status' = [status EXCEPT ![r].at = "again", ![r].sum = terrain.content]
    <3>1. \A q \in Readers : q # r => status'[q] = status[q]
      BY <2>2, <1>1 DEF FilesTypeOK
    <3>2. status'[r] = hashed
      BY <2>2, <1>1, <1>3 DEF FilesTypeOK, StatusState
    <3>3. QED
      BY <3>1, <3>2
  <2>3. CASE status' = [status EXCEPT ![r] = NoStatus]
    BY <2>3, <1>1 DEF FilesTypeOK
  <2>4. QED
    BY <2>1, <2>2, <2>3
<1>6. FlagsKeep
  BY Zenon DEF FlagsKeep, HashTerrain, TerrainInv, TerrainTypeOK
<1>7. status' \in [Readers -> StatusState]
  <2>1. status' = [q \in Readers |-> status'[q]]
    BY <1>1 DEF HashTerrain, FilesTypeOK
  <2> HIDE DEF hashed
  <2>2. \A q \in Readers : status'[q] \in StatusState
    BY <1>1, <1>4, <1>5 DEF FilesTypeOK
  <2>3. QED
    BY <2>1, <2>2
<1>8. ASSUME VersionsHold PROVE VersionsHold'
  <2>1. Known(hashed)
    BY <1>1, <1>8 DEF VersionsHold, HashesHold, Known, SameVersion
  <2>2. /\ hashed.sum = terrain.content
        /\ NoStatus.at = "idle"
    BY DEF NoStatus
  <2> HIDE DEF hashed
  <2>3. QED
    BY <1>2, <1>5, <1>8, <2>1, <2>2, ReaderVersions DEF VersionsHold, HashesHold
<1>9. QED
  BY <1>1, <1>2, <1>6, <1>7, <1>8, ReaderKeeps DEF FilesTypeOK

LEMMA StatAgainKeeps == ASSUME TerrainInv, NEW r \in Readers, StatAgain(r) PROVE TerrainInv'
<1> USE TerrainConstants
<1> DEFINE kept == [at |-> "remember", ino |-> status[r].ino, tick |-> status[r].tick,
                    sum |-> status[r].sum]
<1>1. FilesTypeOK /\ status[r].at = "again"
  BY DEF TerrainInv, TerrainTypeOK, StatAgain
<1>2. /\ terrain' = terrain /\ save' = save /\ saves' = saves /\ named' = named
      /\ clock' = clock /\ manifestLock' = manifestLock /\ digest' = digest
  BY Zenon DEF StatAgain
<1>3. status[r] \in StatusState
  BY <1>1 DEF FilesTypeOK
<1>4. /\ kept \in StatusState
      /\ NoStatus \in StatusState
  BY <1>1, <1>3 DEF FilesTypeOK, StatusState, NoStatus
<1>5. PICK f \in {kept, NoStatus} : \A q \in Readers : status'[q] = IF q = r THEN f ELSE status[q]
  <2>1. \/ status' = [status EXCEPT ![r].at = "remember"]
        \/ status' = [status EXCEPT ![r] = NoStatus]
    BY DEF StatAgain
  <2>2. CASE status' = [status EXCEPT ![r].at = "remember"]
    <3>1. \A q \in Readers : q # r => status'[q] = status[q]
      BY <2>2, <1>1 DEF FilesTypeOK
    <3>2. status'[r] = kept
      BY <2>2, <1>1, <1>3 DEF FilesTypeOK, StatusState
    <3>3. QED
      BY <3>1, <3>2
  <2>3. CASE status' = [status EXCEPT ![r] = NoStatus]
    BY <2>3, <1>1 DEF FilesTypeOK
  <2>4. QED
    BY <2>1, <2>2, <2>3
<1>6. FlagsKeep
  BY Zenon DEF FlagsKeep, StatAgain, TerrainInv, TerrainTypeOK
<1>7. status' \in [Readers -> StatusState]
  <2>1. status' = [q \in Readers |-> status'[q]]
    BY <1>1 DEF StatAgain, FilesTypeOK
  <2> HIDE DEF kept
  <2>2. \A q \in Readers : status'[q] \in StatusState
    BY <1>1, <1>4, <1>5 DEF FilesTypeOK
  <2>3. QED
    BY <2>1, <2>2
<1>8. ASSUME VersionsHold PROVE VersionsHold'
  <2>1. Known(kept) /\ (SameVersion(kept, terrain) => kept.sum = terrain.content)
    BY <1>1, <1>8 DEF VersionsHold, HashesHold, Known, SameVersion
  <2>2. NoStatus.at = "idle"
    BY DEF NoStatus
  <2> HIDE DEF kept
  <2>3. QED
    BY <1>2, <1>5, <1>8, <2>1, <2>2, ReaderVersions DEF VersionsHold, HashesHold
<1>9. QED
  BY <1>1, <1>2, <1>6, <1>7, <1>8, ReaderKeeps DEF FilesTypeOK

LEMMA RememberKeeps ==
    ASSUME TerrainInv, NEW r \in Readers, RememberHashed(r) PROVE TerrainInv'
<1> USE TerrainConstants
<1> DEFINE entry == [ino |-> status[r].ino, tick |-> status[r].tick, sum |-> status[r].sum]
<1>1. FilesTypeOK /\ status[r].at = "remember"
  BY DEF TerrainInv, TerrainTypeOK, RememberHashed
<1>2. /\ terrain' = terrain /\ save' = save /\ saves' = saves /\ named' = named
      /\ clock' = clock /\ manifestLock' = manifestLock /\ digest' = entry
      /\ status' = [status EXCEPT ![r] = NoStatus]
  BY Zenon DEF RememberHashed
<1>3. FlagsKeep
  BY Zenon DEF FlagsKeep, RememberHashed, TerrainInv, TerrainTypeOK
<1>4. status[r] \in StatusState /\ NoStatus \in StatusState
  BY <1>1 DEF FilesTypeOK, StatusState, NoStatus
<1>5. status' \in [Readers -> StatusState]
  BY <1>1, <1>2, <1>4 DEF FilesTypeOK
<1>6. digest' \in [ino: {0} \cup Inodes, tick: 0..MaxTick, sum: {0} \cup Contents]
  BY <1>2, <1>4 DEF StatusState
<1>7. ASSUME VersionsHold PROVE VersionsHold'
  <2>1. Known(entry) /\ (SameVersion(entry, terrain) => entry.sum = terrain.content)
    BY <1>1, <1>7 DEF VersionsHold, HashesHold, Known, SameVersion
  <2>2. \A q \in Readers : status'[q] = IF q = r THEN NoStatus ELSE status[q]
    BY <1>1, <1>2 DEF FilesTypeOK
  <2>3. NoStatus.at = "idle"
    BY DEF NoStatus
  <2> HIDE DEF entry
  <2>4. QED
    BY <1>2, <1>7, <2>1, <2>2, <2>3, ReaderVersions DEF VersionsHold, HashesHold
<1>8. QED
  BY <1>1, <1>2, <1>3, <1>5, <1>6, <1>7, ReaderKeeps DEF FilesTypeOK

LEMMA ClockKeeps == TerrainInv /\ (Ticks \/ UNCHANGED terrainVars) => TerrainInv'
<1> SUFFICES ASSUME TerrainInv, Ticks \/ UNCHANGED terrainVars PROVE TerrainInv'
  OBVIOUS
<1> USE TerrainConstants
<1>1. FilesTypeOK
  BY DEF TerrainInv, TerrainTypeOK
<1>2. /\ terrain' = terrain /\ save' = save /\ saves' = saves /\ named' = named
      /\ manifestLock' = manifestLock /\ digest' = digest /\ status' = status
  BY Zenon DEF Ticks, terrainVars
<1>3. clock' \in 0..MaxTick
  <2>1. clock' = clock \/ (clock < MaxTick /\ clock' = clock + 1)
    BY Zenon DEF Ticks, terrainVars
  <2>2. QED
    BY <1>1, <2>1 DEF FilesTypeOK
<1>4. FlagsKeep
  BY Zenon DEF FlagsKeep, Ticks, terrainVars, TerrainInv, TerrainTypeOK
<1>5. VersionsHold => VersionsHold'
  BY <1>2, ReaderVersions DEF VersionsHold, HashesHold
<1>6. QED
  BY <1>1, <1>2, <1>3, <1>4, <1>5, ReaderKeeps DEF FilesTypeOK

-----------------------------------------------------------------------------
LEMMA TerrainStep == TerrainInv /\ [TerrainNext]_terrainVars => TerrainInv'
<1> SUFFICES ASSUME TerrainInv, [TerrainNext]_terrainVars PROVE TerrainInv'
  OBVIOUS
<1>1. ASSUME NEW s \in Savers, Saves(s) PROVE TerrainInv'
  BY <1>1, StageKeeps, LockKeeps, CheckKeeps, CommitKeeps, RememberCommittedKeeps,
     RegisterKeeps, UnlockKeeps, DiscardKeeps, DeathKeeps DEF Saves
<1>2. ASSUME NEW r \in Readers, Reads(r) PROVE TerrainInv'
  BY <1>2, StatKeeps, HashKeeps, StatAgainKeeps, RememberKeeps DEF Reads
<1>3. QED
  BY <1>1, <1>2, ClockKeeps DEF TerrainNext

\* The invariant of the terrain file, the digests of it and the saves of it.
THEOREM TerrainInvariant == TerrainSpec => []TerrainInv
<1>1. TerrainInit => TerrainInv
  BY TerrainInitially
<1>2. TerrainInv /\ [TerrainNext]_terrainVars => TerrainInv'
  BY TerrainStep
<1>3. QED
  BY <1>1, <1>2, PTL DEF TerrainSpec

\* The state keeps its types, and a save is past its lock and before its unlock
\* exactly while it holds the manifest lock.
THEOREM TerrainTypeCorrect == TerrainSpec => []TerrainTypeOK
<1>1. TerrainInv => TerrainTypeOK
  BY DEF TerrainInv
<1>2. QED
  BY <1>1, TerrainInvariant, PTL

\* TerrainHash never answers with the digest of another terrain, unless the file
\* system gave two files one identity.
THEOREM RememberedHashAlwaysTheFiles == TerrainSpec => []RememberedHashIsTheFiles
<1>1. TerrainInv => RememberedHashIsTheFiles
  <2> SUFFICES ASSUME TerrainInv, ~repeated, terrain # NoFile, SameVersion(digest, terrain)
               PROVE  digest.sum = terrain.content
    BY Zenon DEF RememberedHashIsTheFiles
  <2>1. terrain.ino # 0
    BY TerrainConstants DEF TerrainInv, TerrainTypeOK, FilesTypeOK, File
  <2>2. VersionsHold
    BY DEF TerrainInv
  <2>3. QED
    BY <2>1, <2>2 DEF VersionsHold, HashesHold, SameVersion
<1>2. QED
  BY <1>1, TerrainInvariant, PTL

\* SaveTerrain checks the terrain it replaces under the lock it commits under, so no
\* save slips in between.
THEOREM GuardedSaves == TerrainSpec => GuardedSaveReplacesWhatItNamed
<1>1. ASSUME TerrainInv, [TerrainNext]_terrainVars, terrain' # terrain
      PROVE  manifestLock \in Savers /\ terrain.content \in save[manifestLock].expected
  <2>1. PICK s \in Savers : CommitTerrain(s)
    BY <1>1 DEF TerrainNext, Saves, Reads, Ticks, terrainVars, StageTerrain, LockTerrain,
       CheckTerrain, RememberCommitted, RegisterTerrain, UnlockTerrain, DiscardStaged, Dies,
       StatTerrain, HashTerrain, StatAgain, RememberHashed
  <2>2. save[s].at = "checked"
    BY <2>1 DEF CommitTerrain
  <2>3. manifestLock = s
    BY <1>1, <2>2 DEF TerrainInv, TerrainTypeOK, LockHeld
  <2>4. QED
    BY <1>1, <2>2, <2>3 DEF TerrainInv, CheckedHolds
<1>2. TerrainInv /\ [TerrainNext]_terrainVars
        => [terrain' # terrain => /\ manifestLock \in Savers
                                  /\ terrain.content \in save[manifestLock].expected]_terrainVars
  BY <1>1
<1>3. QED
  BY <1>2, TerrainInvariant, PTL DEF TerrainSpec, GuardedSaveReplacesWhatItNamed

-----------------------------------------------------------------------------
(* The slot of the run estimate.                                           *)

\* The requests that have claimed the slot and have not released it.
Held == {q \in Estimates : stage[q] \in {"claimed", "running", "estimated", "failed",
                                         "answered"}}

\* Generations are claimed once each, the slot holds the cancel function of the
\* last claim until its own release, and everything older in flight is cancelled.
ClaimsInOrder ==
    /\ \A q \in Estimates : stage[q] = "new" <=> claimed[q] = 0
    /\ \A q, r \in Estimates : claimed[q] = claimed[r] /\ claimed[q] # 0 => q = r
    /\ claims # 0 => \E q \in Estimates : claimed[q] = claims
    /\ holder # NoEstimate => claimed[holder] = claims /\ claims # 0
    /\ \A q \in Held : claimed[q] = claims => holder = q

OldOnesReplaced ==
    /\ \A q \in replaced : claimed[q] # 0 /\ claimed[q] < claims
    /\ \A q \in InFlight : claimed[q] < claims => q \in replaced
    /\ \A q \in Estimates : answer[q] = "superseded" => q \in replaced

SlotInv == SlotTypeOK /\ ClaimsInOrder /\ OldOnesReplaced

LEMMA SlotConstants == NoEstimate \notin Estimates
  BY EstimateAssumption

LEMMA SlotInitially == SlotInit => SlotInv
<1> USE SlotConstants DEF SlotInit, SlotInv, SlotTypeOK, ClaimsInOrder, OldOnesReplaced,
                          InFlight, Held
<1> QED
  OBVIOUS

\* A claim: what it takes the slot from is cancelled.
LEMMA ClaimKeeps ==
    ASSUME SlotInv, NEW q \in Estimates, Claim(q)
    PROVE  SlotInv'
<1> USE SlotConstants DEF SlotInv
<1>1. /\ stage[q] = "new" /\ claimed[q] = 0
      /\ stage' = [stage EXCEPT ![q] = "claimed"]
      /\ claims' = claims + 1 /\ claims \in Nat
      /\ claimed' = [claimed EXCEPT ![q] = claims + 1]
      /\ holder' = q
      /\ replaced' = replaced \cup ({holder} \ {NoEstimate})
      /\ UNCHANGED <<left, answer>>
  BY DEF Claim, Advances, ClaimsInOrder, SlotTypeOK
<1>2. SlotTypeOK'
  BY <1>1 DEF SlotTypeOK
<1>3. ClaimsInOrder'
  <2>1. \A r \in Estimates : claimed[r] \in 0..claims
    BY DEF SlotTypeOK
  <2>2. \A r \in Estimates : claimed'[r] = IF r = q THEN claims + 1 ELSE claimed[r]
    BY <1>1 DEF SlotTypeOK
  <2>3. \A r \in Estimates : stage'[r] = IF r = q THEN "claimed" ELSE stage[r]
    BY <1>1 DEF SlotTypeOK
  <2>4. \A r \in Estimates : claimed'[r] = claims' => r = q
    BY <1>1, <2>1, <2>2
  <2>5. \A r \in Estimates : stage'[r] = "new" <=> claimed'[r] = 0
    BY <1>1, <2>2, <2>3 DEF ClaimsInOrder
  <2>6. \A r, s \in Estimates : claimed'[r] = claimed'[s] /\ claimed'[r] # 0 => r = s
    BY <1>1, <2>1, <2>2 DEF ClaimsInOrder
  <2>7. QED
    BY <1>1, <2>2, <2>4, <2>5, <2>6 DEF ClaimsInOrder, Held
<1>4. OldOnesReplaced'
  <2>1. \A r \in Estimates : claimed[r] \in 0..claims
    BY DEF SlotTypeOK
  <2>2. \A r \in Estimates : claimed'[r] = IF r = q THEN claims + 1 ELSE claimed[r]
    BY <1>1 DEF SlotTypeOK
  <2>3. \A r \in Estimates : stage'[r] = IF r = q THEN "claimed" ELSE stage[r]
    BY <1>1 DEF SlotTypeOK
  <2>4. ASSUME NEW r \in InFlight, r # q PROVE r \in replaced'
    <3>1. r \in Estimates /\ r \in Held
      BY DEF InFlight, Held
    <3>2. CASE claimed[r] < claims
      BY <1>1, <3>2 DEF OldOnesReplaced
    <3>3. CASE claimed[r] = claims
      <4>1. holder = r
        BY <3>1, <3>3 DEF ClaimsInOrder
      <4>2. QED
        BY <1>1, <3>1, <4>1
    <3>4. QED
      BY <1>1, <2>1, <3>1, <3>2, <3>3
  <2>5. \A r \in InFlight' : claimed'[r] < claims' => r \in replaced'
    <3>1. SUFFICES ASSUME NEW r \in Estimates, stage'[r] \in {"claimed", "running"},
                          claimed'[r] < claims'
                   PROVE  r \in replaced'
      BY DEF InFlight
    <3>2. r # q
      BY <1>1, <2>2, <3>1
    <3>3. r \in InFlight
      BY <2>3, <3>1, <3>2 DEF InFlight
    <3>4. QED
      BY <2>4, <3>2, <3>3
  <2>6. \A r \in replaced' : claimed'[r] # 0 /\ claimed'[r] < claims'
    <3>1. SUFFICES ASSUME NEW r \in replaced' PROVE claimed'[r] # 0 /\ claimed'[r] < claims'
      OBVIOUS
    <3>2. CASE r \in replaced
      <4>1. r \in Estimates /\ claimed[r] # 0 /\ claimed[r] < claims
        BY <3>2 DEF OldOnesReplaced, SlotTypeOK
      <4>2. QED
        BY <1>1, <2>1, <2>2, <4>1
    <3>3. CASE r = holder /\ holder # NoEstimate
      <4>1. r \in Estimates /\ claimed[r] = claims
        BY <3>3 DEF ClaimsInOrder, SlotTypeOK
      <4>2. r # q /\ claims # 0
        BY <1>1, <3>3, <4>1 DEF ClaimsInOrder
      <4>3. QED
        BY <1>1, <2>1, <2>2, <4>1, <4>2
    <3>4. QED
      BY <1>1, <3>1, <3>2, <3>3
  <2>7. \A r \in Estimates : answer'[r] = "superseded" => r \in replaced'
    BY <1>1 DEF OldOnesReplaced
  <2>8. QED
    BY <2>5, <2>6, <2>7 DEF OldOnesReplaced
<1>5. QED
  BY <1>2, <1>3, <1>4

\* The child's steps move one request along, and leave the slot alone.
LEMMA ChildKeeps ==
    ASSUME SlotInv, NEW q \in Estimates, StartChild(q) \/ ChildEnds(q) \/ KillChild(q)
    PROVE  SlotInv'
<1> USE SlotConstants DEF SlotInv
<1>1. PICK to \in {"running", "estimated", "failed"} :
         /\ stage[q] \in {"claimed", "running"} /\ q \in InFlight
         /\ stage' = [stage EXCEPT ![q] = to]
         /\ UNCHANGED <<claims, claimed, holder, replaced, left, answer>>
  BY DEF StartChild, ChildEnds, KillChild, Advances, InFlight
<1>2. SlotTypeOK'
  BY <1>1 DEF SlotTypeOK
<1>3. \A r \in Estimates : stage'[r] = IF r = q THEN to ELSE stage[r]
  BY <1>1 DEF SlotTypeOK
<1>4. InFlight' \subseteq InFlight /\ Held' = Held
  BY <1>1, <1>3 DEF InFlight, Held
<1>5. ClaimsInOrder'
  BY <1>1, <1>3, <1>4 DEF ClaimsInOrder
<1>6. OldOnesReplaced'
  BY <1>1, <1>4 DEF OldOnesReplaced
<1>7. QED
  BY <1>2, <1>5, <1>6

LEMMA AnswerKeeps ==
    ASSUME SlotInv, NEW q \in Estimates, AnswerEstimate(q)
    PROVE  SlotInv'
<1> USE SlotConstants DEF SlotInv
<1>1. PICK what \in {"estimate", "superseded", "error"} :
         /\ stage[q] \in {"estimated", "failed"}
         /\ stage' = [stage EXCEPT ![q] = "answered"]
         /\ answer' = [answer EXCEPT ![q] = what]
         /\ what = "superseded" => q \in replaced
         /\ UNCHANGED <<claims, claimed, holder, replaced, left>>
  <2>1. CASE stage[q] = "estimated"
    BY <2>1 DEF AnswerEstimate, Advances
  <2>2. CASE stage[q] = "failed" /\ Cancelled(q) /\ q \notin left
    BY <2>2 DEF AnswerEstimate, Advances, Cancelled
  <2>3. CASE stage[q] = "failed" /\ ~(Cancelled(q) /\ q \notin left)
    BY <2>3 DEF AnswerEstimate, Advances
  <2>4. QED
    BY <2>1, <2>2, <2>3 DEF AnswerEstimate
<1>2. SlotTypeOK'
  BY <1>1 DEF SlotTypeOK
<1>3. \A r \in Estimates : stage'[r] = IF r = q THEN "answered" ELSE stage[r]
  BY <1>1 DEF SlotTypeOK
<1>4. \A r \in Estimates : answer'[r] = IF r = q THEN what ELSE answer[r]
  BY <1>1 DEF SlotTypeOK
<1>5. InFlight' = InFlight /\ Held' = Held
  BY <1>1, <1>3 DEF InFlight, Held
<1>6. ClaimsInOrder'
  BY <1>1, <1>3, <1>5 DEF ClaimsInOrder
<1>7. OldOnesReplaced'
  BY <1>1, <1>4, <1>5 DEF OldOnesReplaced
<1>8. QED
  BY <1>2, <1>6, <1>7

\* The release of an older request leaves the slot to whoever holds it.
LEMMA ReleaseKeeps ==
    ASSUME SlotInv, NEW q \in Estimates, ReleaseSlot(q)
    PROVE  SlotInv'
<1> USE SlotConstants DEF SlotInv
<1>1. /\ stage[q] = "answered"
      /\ stage' = [stage EXCEPT ![q] = "done"]
      /\ holder' = IF claims = claimed[q] THEN NoEstimate ELSE holder
      /\ UNCHANGED <<claims, claimed, replaced, left, answer>>
  BY DEF ReleaseSlot, Advances
<1>2. SlotTypeOK'
  BY <1>1 DEF SlotTypeOK
<1>3. \A r \in Estimates : stage'[r] = IF r = q THEN "done" ELSE stage[r]
  BY <1>1 DEF SlotTypeOK
<1>4. InFlight' = InFlight /\ Held' = Held \ {q} /\ q \in Held
  BY <1>1, <1>3 DEF InFlight, Held
<1>5. ASSUME NEW r \in Held', claimed'[r] = claims' PROVE holder' = r
  <2>1. r \in Held /\ r # q /\ r \in Estimates /\ claimed[r] = claims
    BY <1>1, <1>4, <1>5 DEF Held
  <2>2. claimed[r] # 0
    BY <2>1 DEF ClaimsInOrder, Held
  <2>3. claimed[q] # claims
    BY <2>1, <2>2 DEF ClaimsInOrder
  <2>4. QED
    BY <1>1, <2>1, <2>3 DEF ClaimsInOrder
<1>6. ClaimsInOrder'
  BY <1>1, <1>3, <1>5 DEF ClaimsInOrder
<1>7. OldOnesReplaced'
  BY <1>1, <1>4 DEF OldOnesReplaced
<1>8. QED
  BY <1>2, <1>6, <1>7

LEMMA SlotStep == SlotInv /\ [SlotNext]_slotVars => SlotInv'
<1> SUFFICES ASSUME SlotInv, [SlotNext]_slotVars PROVE SlotInv'
  OBVIOUS
<1>1. ASSUME NEW q \in Estimates, Claim(q) PROVE SlotInv'
  BY <1>1, ClaimKeeps
<1>2. ASSUME NEW q \in Estimates, StartChild(q) \/ ChildEnds(q) \/ KillChild(q)
      PROVE  SlotInv'
  BY <1>2, ChildKeeps
<1>3. ASSUME NEW q \in Estimates, AnswerEstimate(q) PROVE SlotInv'
  BY <1>3, AnswerKeeps
<1>4. ASSUME NEW q \in Estimates, ReleaseSlot(q) PROVE SlotInv'
  BY <1>4, ReleaseKeeps
<1>5. ASSUME NEW q \in Estimates, ClientLeaves(q) PROVE SlotInv'
  BY <1>5 DEF ClientLeaves, SlotInv, SlotTypeOK, ClaimsInOrder, OldOnesReplaced, InFlight,
              Held
<1>6. CASE UNCHANGED slotVars
  BY <1>6 DEF slotVars, SlotInv, SlotTypeOK, ClaimsInOrder, OldOnesReplaced, InFlight, Held
<1>7. QED
  BY <1>1, <1>2, <1>3, <1>4, <1>5, <1>6 DEF SlotNext

\* The inductive invariant is enough: who is in flight and not the last claim was
\* replaced, and who was replaced is older than the last claim, which someone made.
LEMMA NewestFromOrder == SlotInv => NewestEstimateStands
<1> SUFFICES ASSUME SlotInv PROVE NewestEstimateStands
  OBVIOUS
<1>1. claims \in Nat /\ \A q \in Estimates : claimed[q] \in 0..claims
  BY DEF SlotInv, SlotTypeOK
<1>2. ASSUME NEW q \in InFlight PROVE q \in replaced \/ claimed[q] = claims
  BY <1>1 DEF SlotInv, OldOnesReplaced, InFlight
<1>3. ASSUME NEW q \in Estimates, answer[q] = "superseded"
      PROVE  \E r \in Estimates : claimed[r] > claimed[q]
  <2>1. claimed[q] # 0 /\ claimed[q] < claims
    BY <1>3 DEF SlotInv, OldOnesReplaced
  <2>2. PICK r \in Estimates : claimed[r] = claims
    BY <1>1, <2>1 DEF SlotInv, ClaimsInOrder
  <2>3. QED
    BY <1>1, <2>1, <2>2
<1>4. QED
  BY <1>2, <1>3 DEF NewestEstimateStands, SlotInv, OldOnesReplaced

\* The slot's state is what estimateSlot and the request contexts hold, always.
THEOREM SlotTypeCorrect == SlotSpec => []SlotTypeOK
<1>1. SlotInit => SlotInv
  BY SlotInitially
<1>2. SlotInv /\ [SlotNext]_slotVars => SlotInv'
  BY SlotStep
<1>3. SlotInv => SlotTypeOK
  BY DEF SlotInv
<1>4. QED
  BY <1>1, <1>2, <1>3, PTL DEF SlotSpec

\* However many requests come, leave and release in whatever order, at most the
\* newest estimate runs uncancelled, and only an older one is called superseded.
THEOREM NewestAlwaysStands == SlotSpec => []NewestEstimateStands
<1>1. SlotInit => SlotInv
  BY SlotInitially
<1>2. SlotInv /\ [SlotNext]_slotVars => SlotInv'
  BY SlotStep
<1>3. SlotInv => NewestEstimateStands
  BY NewestFromOrder
<1>4. QED
  BY <1>1, <1>2, <1>3, PTL DEF SlotSpec

=============================================================================
