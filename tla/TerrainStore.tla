---------------------------- MODULE TerrainStore ----------------------------
(***************************************************************************)
(* The project terrain, one file the server and the command line replace by *)
(* a rename under the manifest lock (projectfs/terrain.go), and the digest  *)
(* the server remembers for it so that the status, rebuilt every two        *)
(* seconds for every open event stream, need not hash it again.             *)
(*                                                                          *)
(* A file is known by its inode and its modification time.  The time is a   *)
(* clock that ticks slower than saves can follow each other, an inode is    *)
(* free again once nothing names it, and every terrain here has one size:   *)
(* the worst case for a digest filed under a stat.                          *)
(***************************************************************************)
EXTENDS Naturals

CONSTANTS Server,      \* the server's import handler, one request at a time
          Importers,   \* `aconiq import --terrain` processes
          Free,        \* the manifest lock's holder when nobody holds it
          Readers,     \* status requests of the server
          Inodes,
          MaxTick, MaxSaves   \* bounds: timestamp ticks, saves begun

ASSUME TerrainAssumption ==
    /\ Server \notin Importers /\ Free \notin Importers \cup {Server}
    /\ 0 \notin Inodes
    /\ MaxTick \in Nat /\ MaxSaves \in Nat

VARIABLES
    terrain,     \* the file under .noise/model: [ino, tick, content]
    registered,  \* the manifest lists the terrain artifact
    digest,      \* terrainHashes, the server's one entry: [ino, tick, sum]
    clock,
    manifestLock,
    save,        \* each saver's SaveTerrain: [at, expected, staged]
    status,      \* each status request's TerrainHash: [at, ino, tick, sum]
    saves,
    named,       \* history: the [inode, tick] pairs files have had
    repeated     \* history: two files have had one pair

terrainVars == <<terrain, registered, digest, clock, manifestLock, save, status, saves,
                 named, repeated>>

-----------------------------------------------------------------------------
Savers == Importers \cup {Server}
NoFile == [ino |-> 0, tick |-> 0, content |-> 0]
NoDigest == [ino |-> 0, tick |-> 0, sum |-> 0]
NoSave == [at |-> "idle", expected |-> {}, staged |-> NoFile]
NoStatus == [at |-> "idle", ino |-> 0, tick |-> 0, sum |-> 0]

\* What a save may replace: the content its expected_hash names, nothing at
\* all (ExpectNone), or whatever there is (an empty expected_hash).
Contents == 1..MaxSaves
Unchecked == Contents \cup {0}
Expectations == {{c} : c \in Unchecked} \cup {Unchecked}
File == [ino: Inodes, tick: 0..MaxTick, content: Contents]

SameMoment(a, b) == a.tick = b.tick   \* mutant: a file is known by size and time

\* sameFileVersion: the same file, of the same size and time.
SameVersion(a, b) == a.ino = b.ino /\ a.tick = b.tick

\* The inodes the file system may give a new file.
Spare == Inodes \ ({terrain.ino} \cup {save[s].staged.ino : s \in Savers})

TerrainInit ==
    /\ terrain = NoFile /\ registered = FALSE
    /\ digest = NoDigest
    /\ clock = 0
    /\ manifestLock = Free
    /\ save = [s \in Savers |-> NoSave]
    /\ status = [r \in Readers |-> NoStatus]
    /\ saves = 0 /\ named = {} /\ repeated = FALSE

-----------------------------------------------------------------------------
(* SaveTerrain.                                                            *)

Moves(s, label) == save' = [save EXCEPT ![s].at = label]

\* An error return, with the lock held.
Fails(s) == save' = [save EXCEPT ![s].at = "unlock", ![s].expected = {}]

\* atomicfile.Stage: the new terrain is written beside the old, which still
\* exists.  Only a request carries an expected hash.
StageTerrain(s) ==
    /\ save[s].at = "idle" /\ saves < MaxSaves
    /\ \E i \in Spare, e \in Expectations :
          /\ s \in Importers => e = Unchecked
          /\ save' = [save EXCEPT ![s] =
                [at |-> "staged", expected |-> e,
                 staged |-> [ino |-> i, tick |-> clock, content |-> saves + 1]]]
          /\ repeated' = (repeated \/ <<i, clock>> \in named)
          /\ named' = named \cup {<<i, clock>>}
    /\ saves' = saves + 1
    /\ UNCHANGED <<terrain, registered, digest, clock, manifestLock, status>>

LockTerrainAnyway(s) ==   \* mutant: the manifest lock is not waited for
    /\ save[s].at = "staged"
    /\ manifestLock' = s
    /\ Moves(s, "locked")
    /\ UNCHANGED <<terrain, registered, digest, clock, status, saves, named, repeated>>

\* LockManifest, after the staging: nobody else replaces the terrain from here.
LockTerrain(s) ==
    /\ save[s].at = "staged" /\ manifestLock = Free
    /\ manifestLock' = s
    /\ Moves(s, "locked")
    /\ UNCHANGED <<terrain, registered, digest, clock, status, saves, named, repeated>>

\* The manifest is loaded and the file itself is hashed, under the lock.
CheckTerrain(s) ==
    /\ save[s].at = "locked"
    /\ \/ terrain.content \in save[s].expected /\ Moves(s, "checked")
       \/ Fails(s)   \* refused, or the manifest cannot be read
    /\ UNCHANGED <<terrain, registered, digest, clock, manifestLock, status, saves, named,
                   repeated>>

\* staged.Commit: the rename, after which the old file has no name.
CommitTerrain(s) ==
    /\ save[s].at = "checked"
    /\ \/ /\ terrain' = save[s].staged
          /\ save' = [save EXCEPT ![s] = [NoSave EXCEPT !.at = "committed"]]
       \/ Fails(s) /\ UNCHANGED terrain
    /\ UNCHANGED <<registered, digest, clock, manifestLock, status, saves, named, repeated>>

\* The digest of what was just committed is known.  The entry an importer
\* leaves is in a process of its own.
RememberCommitted(s) ==
    /\ save[s].at = "committed"
    /\ \/ /\ s = Server
          /\ digest' = [ino |-> terrain.ino, tick |-> terrain.tick, sum |-> terrain.content]
       \/ UNCHANGED digest
    /\ Moves(s, "register")
    /\ UNCHANGED <<terrain, registered, clock, manifestLock, status, saves, named, repeated>>

RegisterTerrain(s) ==
    /\ save[s].at = "register"
    /\ registered' \in {registered, TRUE}
    /\ Moves(s, "unlock")
    /\ UNCHANGED <<terrain, digest, clock, manifestLock, status, saves, named, repeated>>

\* The deferred calls, last first: the lock, then what is still staged.
UnlockTerrain(s) ==
    /\ save[s].at = "unlock"
    /\ manifestLock' = Free
    /\ Moves(s, "discard")
    /\ UNCHANGED <<terrain, registered, digest, clock, status, saves, named, repeated>>

DiscardStaged(s) ==
    /\ save[s].at = "discard"
    /\ save' = [save EXCEPT ![s] = NoSave]
    /\ UNCHANGED <<terrain, registered, digest, clock, manifestLock, status, saves, named,
                   repeated>>

\* A process dies: the kernel gives its lock back, what it staged is left to
\* whoever clears the directory, and the server's memory goes with it.
Dies(s) ==
    /\ s = Server \/ save[s].at # "idle"
    /\ save' = [save EXCEPT ![s] = NoSave]
    /\ manifestLock' = IF manifestLock = s THEN Free ELSE manifestLock
    /\ IF s = Server
       THEN digest' = NoDigest /\ status' = [r \in Readers |-> NoStatus]
       ELSE UNCHANGED <<digest, status>>
    /\ UNCHANGED <<terrain, registered, clock, saves, named, repeated>>

-----------------------------------------------------------------------------
(* TerrainHash.                                                            *)

\* The first stat.  An entry for the version it finds is the answer.
StatTerrain(r) ==
    /\ status[r].at = "idle" /\ terrain # NoFile
    /\ ~SameVersion(digest, terrain)
    /\ status' = [status EXCEPT ![r] =
          [at |-> "hash", ino |-> terrain.ino, tick |-> terrain.tick, sum |-> 0]]
    /\ UNCHANGED <<terrain, registered, digest, clock, manifestLock, save, saves, named,
                   repeated>>

\* hashFile: the file the path names when it is opened, or an error.
HashTerrain(r) ==
    /\ status[r].at = "hash"
    /\ \/ status' = [status EXCEPT ![r].at = "again", ![r].sum = terrain.content]
       \/ status' = [status EXCEPT ![r] = NoStatus]
    /\ UNCHANGED <<terrain, registered, digest, clock, manifestLock, save, saves, named,
                   repeated>>

\* The second stat: what was read is kept only if the file was not replaced.
StatAgain(r) ==
    /\ status[r].at = "again"
    /\ \/ /\ SameVersion(status[r], terrain)
          /\ status' = [status EXCEPT ![r].at = "remember"]
       \/ status' = [status EXCEPT ![r] = NoStatus]
    /\ UNCHANGED <<terrain, registered, digest, clock, manifestLock, save, saves, named,
                   repeated>>

\* remember: whatever has been remembered, or saved, since.
RememberHashed(r) ==
    /\ status[r].at = "remember"
    /\ digest' = [ino |-> status[r].ino, tick |-> status[r].tick, sum |-> status[r].sum]
    /\ status' = [status EXCEPT ![r] = NoStatus]
    /\ UNCHANGED <<terrain, registered, clock, manifestLock, save, saves, named, repeated>>

Ticks ==
    /\ clock < MaxTick
    /\ clock' = clock + 1
    /\ UNCHANGED <<terrain, registered, digest, manifestLock, save, status, saves, named,
                   repeated>>

-----------------------------------------------------------------------------
Saves(s) ==
    \/ StageTerrain(s) \/ LockTerrain(s) \/ CheckTerrain(s) \/ CommitTerrain(s)
    \/ RememberCommitted(s) \/ RegisterTerrain(s) \/ UnlockTerrain(s) \/ DiscardStaged(s)
    \/ Dies(s)

Reads(r) == StatTerrain(r) \/ HashTerrain(r) \/ StatAgain(r) \/ RememberHashed(r)

TerrainNext == (\E s \in Savers : Saves(s)) \/ (\E r \in Readers : Reads(r)) \/ Ticks

TerrainSpec == TerrainInit /\ [][TerrainNext]_terrainVars

-----------------------------------------------------------------------------
Stages == {"idle", "staged", "locked", "checked", "committed", "register", "unlock",
           "discard"}
SaveState == [at: Stages, expected: {{}} \cup Expectations, staged: File \cup {NoFile}]
StatusState == [at: {"idle", "hash", "again", "remember"}, ino: {0} \cup Inodes,
                tick: 0..MaxTick, sum: {0} \cup Contents]

\* A save holds the manifest lock from LockTerrain to UnlockTerrain.
LockHeld ==
    \A s \in Savers : manifestLock = s <=> save[s].at \notin {"idle", "staged", "discard"}

FilesTypeOK ==
    /\ terrain \in File \cup {NoFile}
    /\ digest \in [ino: {0} \cup Inodes, tick: 0..MaxTick, sum: {0} \cup Contents]
    /\ clock \in 0..MaxTick
    /\ manifestLock \in Savers \cup {Free}
    /\ save \in [Savers -> SaveState]
    /\ status \in [Readers -> StatusState]
    /\ saves \in 0..MaxSaves
    /\ named \subseteq Inodes \X (0..MaxTick)

TerrainTypeOK ==
    FilesTypeOK /\ LockHeld /\ registered \in BOOLEAN /\ repeated \in BOOLEAN

\* The digest the status answers with is the terrain's own, whoever replaced the
\* file while it was read, remembered or waited for, and however many saves fit
\* into one tick of the clock.  The one exception is a new file that is given
\* the inode and the tick of an earlier one.
RememberedHashIsTheFiles ==
    ~repeated /\ terrain # NoFile /\ SameVersion(digest, terrain)
        => digest.sum = terrain.content

\* No save that named the terrain it expects ever replaces another one, whatever
\* the digest that it was told was worth: a stale one can only be refused.
GuardedSaveReplacesWhatItNamed ==
    [][terrain' # terrain
         => /\ manifestLock \in Savers
            /\ terrain.content \in save[manifestLock].expected]_terrainVars

=============================================================================
