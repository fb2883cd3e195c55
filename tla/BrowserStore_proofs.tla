------------------------- MODULE BrowserStore_proofs -------------------------
(***************************************************************************)
(* Proofs about BrowserStore, for every set of tabs and every bound.       *)
(***************************************************************************)
EXTENDS BrowserStore, FunctionTheorems, FiniteSetTheorems, WellFoundedInduction, TLAPS

LEMMA StoreConstants ==
    /\ NoTab \notin Tab
    /\ MaxStored \in Nat \ {0}
    /\ MaxComputes \in Nat /\ MaxExports \in Nat /\ MaxIncidents \in Nat
  BY TabAssumption, BoundAssumption

-----------------------------------------------------------------------------
(* The data: lists of runs, and what the cap and an eviction make of them. *)

\* Only so many runs can be told apart, so every list is finite.
LEMMA RunsFinite ==
    ASSUME NEW S \in SUBSET Run
    PROVE  IsFiniteSet(S)
<1> DEFINE Triple == (Ids \X Computation) \X (0..MaxExports)
           f == [r \in Run |-> <<<<r.id, r.by>>, r.exports>>]
<1>1. IsFiniteSet(Ids) /\ IsFiniteSet(Computation) /\ IsFiniteSet(0..MaxExports)
  BY StoreConstants, FS_Interval DEF Ids, Computation
<1>2. IsFiniteSet(Triple)
  <2>1. IsFiniteSet(Ids \X Computation)
    BY <1>1, FS_Product
  <2>2. QED
    BY <1>1, <2>1, FS_Product
<1>3. f \in Injection(Run, Triple)
  <2>1. f \in [Run -> Triple]
    BY DEF Run
  <2>2. \A r, s \in Run : f[r] = f[s] => r = s
    BY DEF Run
  <2>3. QED
    BY <2>1, <2>2, Fun_IsInj
<1>4. IsFiniteSet(Run)
  BY <1>2, <1>3, FS_Injection
<1>5. QED
  BY <1>4, FS_Subset

\* A computation is in a list once.
Distinct(S) == \A r, s \in S : r.by = s.by => r = s
Later(S, r) == {s \in S : s.by > r.by}

LEMMA LaterIsCounted ==
    ASSUME NEW S \in SUBSET Run, NEW r \in S
    PROVE  /\ IsFiniteSet(S) /\ Cardinality(S) \in Nat
           /\ Cardinality(Later(S, r)) \in Nat
           /\ Cardinality(Later(S, r)) < Cardinality(S)
<1>1. IsFiniteSet(S) /\ Cardinality(S) \in Nat
  BY RunsFinite, FS_CardinalityType
<1>2. Later(S, r) \in SUBSET S /\ r \notin Later(S, r)
  <2>1. r.by \in Nat
    BY StoreConstants DEF Run, Computation
  <2>2. QED
    BY <2>1 DEF Later
<1>3. IsFiniteSet(Later(S, r)) /\ Cardinality(Later(S, r)) <= Cardinality(S)
      /\ (Cardinality(S) = Cardinality(Later(S, r)) => S = Later(S, r))
  BY <1>1, <1>2, FS_Subset
<1>4. Cardinality(Later(S, r)) \in Nat
  BY <1>3, FS_CardinalityType
<1>5. QED
  BY <1>1, <1>2, <1>3, <1>4

\* The earlier of two runs has more runs after it.
LEMMA EarlierHasMore ==
    ASSUME NEW S \in SUBSET Run, NEW r \in S, NEW s \in S, s.by <= r.by
    PROVE  /\ Cardinality(Later(S, r)) <= Cardinality(Later(S, s))
           /\ s.by < r.by => Cardinality(Later(S, r)) < Cardinality(Later(S, s))
<1>1. r.by \in Nat /\ s.by \in Nat /\ \A x \in S : x.by \in Nat
  BY StoreConstants DEF Run, Computation
<1>2. Later(S, r) \in SUBSET Later(S, s)
  BY <1>1 DEF Later
<1>3. IsFiniteSet(Later(S, s))
  <2>1. Later(S, s) \in SUBSET S
    BY DEF Later
  <2>2. QED
    BY <2>1, LaterIsCounted, FS_Subset
<1>4. /\ Cardinality(Later(S, r)) <= Cardinality(Later(S, s))
      /\ Cardinality(Later(S, s)) = Cardinality(Later(S, r)) => Later(S, s) = Later(S, r)
  BY <1>2, <1>3, FS_Subset
<1>5. s.by < r.by => r \in Later(S, s) /\ r \notin Later(S, r)
  BY <1>1 DEF Later
<1>6. QED
  BY <1>4, <1>5, LaterIsCounted

LEMMA NewestOf ==
    ASSUME NEW n, NEW S
    PROVE  Newest(n, S) = {r \in S : Cardinality(Later(S, r)) < n}
  BY DEF Newest, Later

\* The cap leaves at most so many runs.
LEMMA NewestIsCapped ==
    ASSUME NEW n \in Nat \ {0}, NEW S \in SUBSET Run, Distinct(S)
    PROVE  Cardinality(Newest(n, S)) <= n
<1> DEFINE N == Newest(n, S)
           f == [r \in N |-> Cardinality(Later(S, r))]
<1>1. N \in SUBSET S /\ \A r \in N : Cardinality(Later(S, r)) < n
  BY NewestOf
<1>2. f \in [N -> 0..(n - 1)]
  <2>1. ASSUME NEW r \in N PROVE f[r] \in 0..(n - 1)
    <3>1. r \in S /\ Cardinality(Later(S, r)) \in Nat /\ Cardinality(Later(S, r)) < n
      BY <1>1, LaterIsCounted
    <3>2. QED
      BY <3>1
  <2>2. QED
    BY <2>1
<1>3. \A r, s \in N : f[r] = f[s] => r = s
  <2>1. SUFFICES ASSUME NEW r \in N, NEW s \in N, r # s PROVE f[r] # f[s]
    OBVIOUS
  <2>2. r \in S /\ s \in S /\ r.by \in Nat /\ s.by \in Nat /\ r.by # s.by
    BY <1>1, <2>1, StoreConstants DEF Run, Computation, Distinct
  <2>3. Cardinality(Later(S, r)) \in Nat /\ Cardinality(Later(S, s)) \in Nat
    BY <2>2, LaterIsCounted
  <2>4. CASE r.by < s.by
    BY <2>2, <2>3, <2>4, EarlierHasMore
  <2>5. CASE s.by < r.by
    BY <2>2, <2>3, <2>5, EarlierHasMore
  <2>6. QED
    BY <2>2, <2>4, <2>5
<1>4. f \in Injection(N, 0..(n - 1))
  BY <1>2, <1>3, Fun_IsInj
<1>5. IsFiniteSet(0..(n - 1)) /\ Cardinality(0..(n - 1)) = n
  BY FS_Interval
<1>6. QED
  BY <1>4, <1>5, FS_Injection

\* A list within the cap loses nothing.
LEMMA NewestKeepsAll ==
    ASSUME NEW n \in Nat, NEW S \in SUBSET Run, Cardinality(S) <= n
    PROVE  Newest(n, S) = S
<1>1. ASSUME NEW r \in S PROVE Cardinality(Later(S, r)) < n
  BY LaterIsCounted
<1>2. QED
  BY <1>1, NewestOf

\* What the cap drops is earlier than all it keeps, and there was more than fits.
LEMMA NewestDropsTheEarliest ==
    ASSUME NEW n \in Nat, NEW S \in SUBSET Run, NEW r \in S, r \notin Newest(n, S)
    PROVE  /\ \A s \in Newest(n, S) : s.by > r.by
           /\ Cardinality(Later(S, r)) >= n
<1>1. Cardinality(Later(S, r)) \in Nat /\ Cardinality(Later(S, r)) >= n
  BY NewestOf, LaterIsCounted
<1>2. ASSUME NEW s \in Newest(n, S), ~(s.by > r.by) PROVE FALSE
  <2>1. s \in S /\ Cardinality(Later(S, s)) < n
    BY NewestOf
  <2>2. s.by \in Nat /\ r.by \in Nat
    BY <2>1, StoreConstants DEF Run, Computation
  <2>3. s.by <= r.by
    BY <1>2, <2>2
  <2>4. Cardinality(Later(S, r)) <= Cardinality(Later(S, s)) /\ Cardinality(Later(S, s)) \in Nat
    BY <2>1, <2>3, EarlierHasMore, LaterIsCounted
  <2>5. QED
    BY <1>1, <2>1, <2>4
<1>3. QED
  BY <1>1, <1>2

\* There is an oldest run wherever there is a run.
LEMMA OldestIs ==
    ASSUME NEW S \in SUBSET Run, S # {}
    PROVE  Oldest(S) \in S /\ \A s \in S : Oldest(S).by <= s.by
<1> DEFINE B == {r.by : r \in S}
<1>1. B \in SUBSET Nat /\ B # {}
  BY StoreConstants DEF Run, Computation
<1>2. PICK b \in B : \A c \in B : ~(<<c, b>> \in OpToRel(<, Nat))
  BY <1>1, NatLessThanWellFounded, WFMin
<1>3. PICK r \in S : r.by = b
  OBVIOUS
<1>4. ASSUME NEW s \in S PROVE r.by <= s.by
  <2>1. s.by \in B
    OBVIOUS
  <2>2. ~(<<s.by, b>> \in OpToRel(<, Nat))
    BY <1>2, <2>1
  <2>3. ~(s.by < b)
    BY <1>1, <2>1, <2>2 DEF OpToRel
  <2>4. QED
    BY <1>1, <1>3, <2>1, <2>3
<1>5. QED
  BY <1>4 DEF Oldest
-----------------------------------------------------------------------------
(* The invariant, part by part.                                            *)

\* Where a writer of a run stands once it has minted its id, and once its raster
\* is written.
Written == {"saved", "persist", "evictAndPersist"}
Computing == {"compute", "raster", "evict", "rasterAgain"}
Minted == Computing \cup Written

\* Runs that have been asked for and have not started to compute.
Pending == {u \in Tab : op[u].kind = "run" /\ op[u].by = 0}

\* What every list of runs is like, the stored one and each tab's copy.
Sane(d, n) ==
    /\ d \in Document
    /\ Cardinality(d.runs) <= MaxStored
    /\ \A r, s \in d.runs : r.id = s.id \/ r.by = s.by => r = s
    /\ \A r \in d.runs : r.id <= d.mark /\ r.by <= n
    /\ d.mark <= n

Listed == doc.runs \cup UNION {cache[t].runs : t \in Tab}

\* The lists are sane, and a computation has the same id in all of them.
Lists ==
    /\ Sane(doc, computed)
    /\ \A t \in Tab : Sane(cache[t], computed)
    /\ \A r, s \in Listed : r.by = s.by => r.id = s.id
    /\ \A t \in Tab : \A r \in Listed :
          op[t].kind = "run" /\ op[t].by = r.by => op[t].id = r.id

\* What a tab's operation holds at each step of it.
Operation(t) ==
    /\ pc[t] = "idle" => op[t] = NoOp
    /\ pc[t] \in {"waiting", "sweep", "sweepDelete", "begin"} /\ op[t].kind = "run" =>
          op[t].by = 0
    /\ pc[t] \in Computing \cup {"saved"} => op[t].kind = "run"
    /\ pc[t] \in {"persist", "evictAndPersist"} => op[t].kind \in {"run", "export"}
    /\ pc[t] \in Minted /\ op[t].kind = "run" => op[t].id # 0 /\ op[t].by # 0
    /\ pc[t] = "persist" /\ op[t].kind = "export" => op[t].id \in IdsOf(cache[t].runs)
    /\ op[t].kind \in {"export", "delete"} => op[t].id # 0
    /\ op[t].id <= computed /\ op[t].by <= computed

Operations == \A t \in Tab : Operation(t)

\* Whoever waits has its place, and there are computations left for all who do.
Queued == \A t \in Tab : pc[t] = "waiting" => \E i \in DOMAIN queue : queue[i] = t
Budgeted == IsFiniteSet(Pending) /\ computed + Cardinality(Pending) <= MaxComputes
Forgotten == \A f \in forgets : f.by <= computed

\* The part of the type invariant that says nothing of the lists.
StoreTyped ==
    /\ bytes \in [Ids -> {0} \cup Computation]
    /\ forgets \subseteq [tab: Tab, id: Ids, by: Computation]
    /\ computed \in 0..MaxComputes /\ incidents \in 0..MaxIncidents
    /\ blind \in BOOLEAN /\ taken \cup unstored \subseteq Computation

TabsTyped ==
    /\ loaded \in [Tab -> BOOLEAN] /\ swept \in [Tab -> BOOLEAN]
    /\ urls \in [Tab -> [Ids -> {0} \cup Computation]]

WritersTyped ==
    /\ lock \in Tab \cup {NoTab} /\ queue \in Seq(Tab)
    /\ readable \in [Tab -> BOOLEAN]
    /\ pc \in [Tab -> {"idle", "waiting", "sweep", "sweepDelete", "begin", "compute",
                       "raster", "evict", "rasterAgain", "saved", "persist",
                       "evictAndPersist", "end"}]
    /\ \A t \in Tab : lock = t <=> pc[t] \notin {"idle", "waiting"}
    /\ op \in [Tab -> [kind: {"none", "run", "export", "delete"}, id: {0} \cup Ids,
                       by: {0} \cup Computation, drop: SUBSET Ids]]
    /\ outcome \in [Tab -> {"none", "stored", "failed"}]

Typed == StoreTyped /\ TabsTyped /\ WritersTyped

Copies == cache \in [Tab -> Document]

StoreInv == Typed /\ Copies /\ Lists /\ Operations /\ Queued /\ Budgeted /\ Forgotten

\* The list d stores the record of the operation o in the list old, less what the cap
\* drops: nothing of old is lost but its earliest run, and only when old is full.
Follows(d, drop, o, old) ==
    /\ d.mark >= old.mark /\ (o.kind = "run" => d.mark >= o.id)
    /\ \A s \in d.runs :
          /\ s.id \notin drop
          /\ \/ o.kind = "run" /\ s.id = o.id /\ s.by = o.by
             \/ \E r \in old.runs : r.id = s.id /\ r.by = s.by
    /\ \A r \in old.runs :
          \/ \E s \in d.runs : s.id = r.id /\ s.by = r.by /\ s.exports >= r.exports
          \/ /\ r.id \notin IdsOf(d.runs)
             /\ \A s \in d.runs : s.by > r.by \/ s.id = o.id
             /\ Cardinality(old.runs) = MaxStored /\ r = Oldest(old.runs)

\* What a writer that read the store under the lock knows: its copy is the document
\* until it stores its own record in it, the id it minted is above the mark, and a
\* retry starts from the document with the record in it.
Writer(t) ==
    /\ pc[t] = "sweepDelete" => readable[t]
    /\ readable[t] /\ pc[t] \in Computing \cup {"sweepDelete", "saved", "persist"} =>
          cache[t] = doc
    /\ /\ pc[t] \in Minted /\ op[t].kind = "run"
       /\ readable[t] \/ (~blind /\ pc[t] \in Written)
       => op[t].id > doc.mark
    /\ ~blind /\ pc[t] \in {"saved", "persist"} /\ op[t].kind = "run" => readable[t]
    /\ readable[t] /\ pc[t] = "evictAndPersist" =>
          Follows(cache[t], op[t].drop, op[t], doc)
    /\ pc[t] = "end" /\ outcome[t] = "failed" /\ op[t].kind \in {"run", "export"} /\ readable[t] =>
          \A r \in doc.runs :
             \/ r.id \in IdsOf(cache[t].runs)
             \/ Cardinality(doc.runs) = MaxStored /\ r = Oldest(doc.runs)

Writers == \A t \in Tab : Writer(t)

\* A raster whose delete nobody waits for is of a computation that is not stored
\* and will not be.
ForgottenIsNotStored ==
    ~blind => \A f \in forgets :
        /\ \A r \in doc.runs : r.by # f.by
        /\ \A t \in Tab : op[t].kind = "run" /\ pc[t] \in Minted => op[t].by # f.by

RasterIsWritten ==
    ~blind => \A t \in Tab : op[t].kind = "run" /\ pc[t] \in Written =>
                  bytes[op[t].id] = op[t].by \/ op[t].by \in taken

Rasters == StoredRunHasItsRaster /\ ForgottenIsNotStored /\ RasterIsWritten

\* An id and a computation that the store has known together, or may yet.
Retired(i, b) == i <= doc.mark /\ \A r \in doc.runs : r.id = i => r.by = b
BeingStored(t, i, b) ==
    pc[t] = "evictAndPersist" /\ op[t].kind = "run" /\ i = op[t].id /\ b = op[t].by
Named(t, i, b) == b \in unstored \/ Retired(i, b) \/ BeingStored(t, i, b)

NamesAreKept ==
    ~blind => \A t \in Tab :
        /\ \A i \in Ids : urls[t][i] # 0 => Named(t, i, urls[t][i])
        /\ \A r \in cache[t].runs : Named(t, r.id, r.by)

URLs == NamesAreKept /\ OnlyALostRunsURLIsStale
-----------------------------------------------------------------------------
(* Sane lists stay sane.                                                   *)

\* setRun stores what is in the list, bar the record it replaces, and the record.
Merged(d, run) == {r \in d.runs : r.id # run.id} \cup {run}

LEMMA SetRunIs ==
    ASSUME NEW d, NEW run
    PROVE  /\ SetRun(d, run).runs = Newest(MaxStored, Merged(d, run))
           /\ SetRun(d, run).mark = IF run.id > d.mark THEN run.id ELSE d.mark
           /\ SetRun(d, run) = [runs |-> SetRun(d, run).runs, mark |-> SetRun(d, run).mark]
           /\ SetRun(d, run).runs \subseteq Merged(d, run)
  BY NewestOf DEF SetRun, Merged

LEMMA MergedIs ==
    ASSUME NEW n, NEW d, Sane(d, n), NEW run \in Run,
           \A r \in d.runs : r.by = run.by => r.id = run.id
    PROVE  /\ Merged(d, run) \in SUBSET Run
           /\ \A r, s \in Merged(d, run) : r.id = s.id \/ r.by = s.by => r = s
           /\ Distinct(Merged(d, run))
           /\ IsFiniteSet(d.runs) /\ Cardinality(d.runs) \in Nat
           /\ run.id \in IdsOf(d.runs) => Cardinality(Merged(d, run)) <= MaxStored
           /\ Cardinality(Merged(d, run)) <= Cardinality(d.runs) + 1
           /\ Cardinality(Merged(d, run)) \in Nat
<1> DEFINE kept == {r \in d.runs : r.id # run.id}
<1>1. d.runs \in SUBSET Run /\ kept \in SUBSET d.runs
  BY DEF Sane, Document
<1>2. \A r, s \in d.runs : r.id = s.id \/ r.by = s.by => r = s
  BY DEF Sane
<1>3. \A r, s \in Merged(d, run) : r.id = s.id \/ r.by = s.by => r = s
  BY <1>2 DEF Merged
<1>4. /\ IsFiniteSet(d.runs) /\ Cardinality(d.runs) \in Nat
      /\ IsFiniteSet(kept) /\ Cardinality(kept) <= Cardinality(d.runs)
      /\ Cardinality(kept) \in Nat
      /\ Cardinality(d.runs) = Cardinality(kept) => d.runs = kept
  BY <1>1, RunsFinite, FS_Subset, FS_CardinalityType
<1>5. Cardinality(Merged(d, run)) = Cardinality(kept) + 1
  <2>1. run \notin kept
    OBVIOUS
  <2>2. QED
    BY <1>4, <2>1, FS_AddElement DEF Merged
<1>6. run.id \in IdsOf(d.runs) => kept # d.runs
  BY DEF IdsOf
<1>7. Cardinality(d.runs) <= MaxStored
  BY DEF Sane
<1>8. run.id \in IdsOf(d.runs) => Cardinality(Merged(d, run)) <= MaxStored
  BY <1>4, <1>5, <1>6, <1>7, StoreConstants
<1>9. Cardinality(Merged(d, run)) <= Cardinality(d.runs) + 1 /\ Cardinality(Merged(d, run)) \in Nat
  BY <1>4, <1>5
<1>10. Merged(d, run) \in SUBSET Run
  BY <1>1 DEF Merged
<1>11. QED
  BY <1>3, <1>4, <1>8, <1>9, <1>10 DEF Distinct

LEMMA SetRunIsSane ==
    ASSUME NEW n \in 0..MaxComputes, NEW d, Sane(d, n), NEW run \in Run,
           run.id <= n, run.by <= n,
           \A r \in d.runs : r.by = run.by => r.id = run.id
    PROVE  Sane(SetRun(d, run), n)
<1> DEFINE e == SetRun(d, run)
<1>1. /\ e.runs \subseteq Merged(d, run)
      /\ e.mark = IF run.id > d.mark THEN run.id ELSE d.mark
      /\ e = [runs |-> e.runs, mark |-> e.mark]
  BY SetRunIs
<1>2. /\ d.mark \in 0..MaxComputes /\ d.mark <= n /\ d.runs \in SUBSET Run
      /\ \A r \in d.runs : r.id <= d.mark /\ r.by <= n
  BY DEF Sane, Document
<1>3. \A r \in Run : r.id \in 1..MaxComputes /\ r.by \in 1..MaxComputes
  BY DEF Run, Ids, Computation
<1>4. e.mark \in 0..MaxComputes /\ e.mark <= n /\ e.mark >= d.mark /\ e.mark >= run.id
  BY <1>1, <1>2, <1>3, StoreConstants
<1>5. \A r \in Merged(d, run) : r.id <= e.mark /\ r.by <= n
  BY <1>2, <1>3, <1>4, StoreConstants DEF Merged
<1>6. Cardinality(e.runs) <= MaxStored
  BY MergedIs, SetRunIs, NewestIsCapped, StoreConstants
<1>7. e \in Document
  <2>1. e.runs \in SUBSET Run
    BY <1>1, MergedIs
  <2>2. QED
    BY <1>1, <1>4, <2>1 DEF Document
<1>8. \A r, s \in e.runs : r.id = s.id \/ r.by = s.by => r = s
  BY <1>1, MergedIs
<1>9. QED
  BY <1>1, <1>4, <1>5, <1>6, <1>7, <1>8 DEF Sane

\* Dropping runs from a list leaves it sane.
LEMMA FewerIsSane ==
    ASSUME NEW n, NEW d, Sane(d, n), NEW S \in SUBSET d.runs
    PROVE  Sane([d EXCEPT !.runs = S], n)
<1> DEFINE e == [d EXCEPT !.runs = S]
<1>1. d \in [runs : SUBSET Run, mark : 0..MaxComputes]
  BY DEF Sane, Document
<1>2. e \in Document /\ e.runs = S /\ e.mark = d.mark
  BY <1>1 DEF Document
<1>3. IsFiniteSet(d.runs) /\ Cardinality(d.runs) \in Nat
  BY <1>1, RunsFinite, FS_CardinalityType
<1>4. Cardinality(S) <= Cardinality(d.runs) /\ IsFiniteSet(S)
  BY <1>3, FS_Subset
<1>5. Cardinality(S) <= MaxStored
  <2>1. Cardinality(S) \in Nat
    BY <1>4, FS_CardinalityType
  <2>2. QED
    BY <1>3, <1>4, <2>1, StoreConstants DEF Sane
<1>6. QED
  BY <1>2, <1>5 DEF Sane

LEMMA LaterTimesAreSane ==
    ASSUME NEW n \in Nat, NEW m \in Nat, n <= m, NEW d, Sane(d, n)
    PROVE  Sane(d, m)
<1>1. d.mark \in Nat /\ \A r \in d.runs : r.by \in Nat
  BY StoreConstants DEF Sane, Document, Run, Computation
<1>2. d.mark <= m /\ \A r \in d.runs : r.by <= m
  BY <1>1 DEF Sane
<1>3. QED
  BY <1>2 DEF Sane

\* evictOldestRun takes one run, and none as old as it but the one it keeps.
LEMMA EvictedIs ==
    ASSUME NEW n, NEW d, Sane(d, n), NEW keep, Evictable(d, keep) # {}
    PROVE  LET e == Evicted(d, keep)
               o == Oldest(Evictable(d, keep))
           IN  /\ Sane(e, n)
               /\ o \in d.runs /\ o.id # keep
               /\ e.runs = d.runs \ {o} /\ e.mark = d.mark
               /\ \A s \in e.runs : s.by > o.by \/ s.id = keep
<1> DEFINE o == Oldest(Evictable(d, keep))
<1>1. Evictable(d, keep) \in SUBSET d.runs /\ d.runs \in SUBSET Run
  BY DEF Evictable, Sane, Document
<1>2. o \in Evictable(d, keep) /\ \A s \in Evictable(d, keep) : o.by <= s.by
  BY <1>1, OldestIs
<1>3. d \in [runs : SUBSET Run, mark : 0..MaxComputes]
  BY DEF Sane, Document
<1>4. Evicted(d, keep) = [d EXCEPT !.runs = d.runs \ {o}]
  BY <1>3 DEF Evicted
<1>5. Sane(Evicted(d, keep), n)
  BY <1>4, FewerIsSane
<1>6. Evicted(d, keep).runs = d.runs \ {o} /\ Evicted(d, keep).mark = d.mark
  BY <1>3, <1>4
<1>7. o \in d.runs /\ o.id # keep
  BY <1>2 DEF Evictable
<1>8. ASSUME NEW s \in d.runs, s # o, s.id # keep PROVE s.by > o.by
  <2>1. s \in Evictable(d, keep)
    BY <1>8 DEF Evictable
  <2>2. s.by # o.by
    BY <1>7, <1>8 DEF Sane
  <2>3. s.by \in Nat /\ o.by \in Nat
    BY <1>1, <1>7, StoreConstants DEF Run, Computation
  <2>4. QED
    BY <1>2, <2>1, <2>2, <2>3
<1>9. QED
  BY <1>5, <1>6, <1>7, <1>8
-----------------------------------------------------------------------------
(* The lists of a step: what is new in them is the run of the lock's holder. *)

LEMMA TypeFromStore == StoreInv => TypeOK
<1> SUFFICES ASSUME StoreInv PROVE TypeOK
  OBVIOUS
<1>1. doc \in Document /\ Cardinality(doc.runs) <= MaxStored
      /\ (\A r, s \in doc.runs : r.id = s.id => r = s) /\ \A r \in doc.runs : r.id <= doc.mark
  BY DEF StoreInv, Lists, Sane
<1>2. QED
  BY <1>1 DEF StoreInv, Typed, StoreTyped, TabsTyped, WritersTyped, Copies, TypeOK

\* A run that has its id is being written by the tab that holds the lock.
LEMMA OnlyTheHolderComputes ==
    ASSUME Typed, Operations, NEW u \in Tab, op[u].kind = "run", op[u].by # 0
    PROVE  lock = u
<1>1. pc[u] # "idle"
  BY DEF Operations, Operation, NoOp
<1>2. pc[u] # "waiting"
  BY DEF Operations, Operation
<1>3. QED
  BY <1>1, <1>2 DEF Typed, WritersTyped

LEMMA ListedRuns ==
    ASSUME Typed, Lists, NEW r \in Listed
    PROVE  r \in Run /\ r.by \in Nat \ {0} /\ r.id \in Nat \ {0} /\ r.by <= computed /\ r.id <= computed
<1>1. PICK d \in {doc} \cup {cache[t] : t \in Tab} : r \in d.runs
  BY DEF Listed
<1>2. Sane(d, computed)
  BY <1>1 DEF Lists
<1>3. r \in Run /\ r.by <= computed /\ r.id <= d.mark /\ d.mark <= computed /\ d.mark \in 0..MaxComputes
  BY <1>1, <1>2 DEF Sane, Document
<1>4. r.by \in Nat \ {0} /\ r.id \in Nat \ {0}
  BY <1>3, StoreConstants DEF Run, Ids, Computation
<1>5. computed \in Nat
  BY StoreConstants DEF Typed, StoreTyped
<1>6. QED
  BY <1>3, <1>4, <1>5, StoreConstants

LEMMA ListsStep ==
    ASSUME Typed, Operations, Lists,
           Sane(doc', computed'), \A u \in Tab : Sane(cache'[u], computed'),
           \A r \in Listed' :
              \/ \E s \in Listed : s.id = r.id /\ s.by = r.by
              \/ \E u \in Tab : op[u].kind = "run" /\ op[u].id = r.id /\ op[u].by = r.by,
           \A u \in Tab : op'[u].kind = "run" =>
              \/ op'[u].by = 0 \/ op'[u].by > computed
              \/ op[u].kind = "run" /\ op'[u].id = op[u].id /\ op'[u].by = op[u].by,
           \A r \in Listed' : r.by \in Nat \ {0}
    PROVE  Lists'
<1>1. \A u \in Tab : op[u].by \in Nat /\ op[u].by <= computed
  BY StoreConstants DEF Typed, StoreTyped, WritersTyped, Operations, Operation, Computation
<1>2. computed \in Nat
  BY StoreConstants DEF Typed, StoreTyped
<1>3. ASSUME NEW u \in Tab, NEW v \in Tab, op[u].kind = "run", op[v].kind = "run",
             op[u].by = op[v].by, op[u].by # 0
      PROVE  u = v
  BY <1>3, OnlyTheHolderComputes
<1>4. ASSUME NEW r \in Listed, NEW u \in Tab, op[u].kind = "run", op[u].by = r.by
      PROVE  op[u].id = r.id
  BY <1>4 DEF Lists
<1>5. ASSUME NEW r \in Listed', NEW s \in Listed', r.by = s.by
      PROVE  r.id = s.id
  <2>1. CASE \E x \in Listed : x.id = r.id /\ x.by = r.by
    <3>1. PICK x \in Listed : x.id = r.id /\ x.by = r.by
      BY <2>1
    <3>2. CASE \E y \in Listed : y.id = s.id /\ y.by = s.by
      BY <1>5, <3>1, <3>2 DEF Lists
    <3>3. CASE \E u \in Tab : op[u].kind = "run" /\ op[u].id = s.id /\ op[u].by = s.by
      BY <1>4, <1>5, <3>1, <3>3
    <3>4. QED
      BY <3>2, <3>3
  <2>2. CASE \E u \in Tab : op[u].kind = "run" /\ op[u].id = r.id /\ op[u].by = r.by
    <3>1. PICK u \in Tab : op[u].kind = "run" /\ op[u].id = r.id /\ op[u].by = r.by
      BY <2>2
    <3>2. CASE \E y \in Listed : y.id = s.id /\ y.by = s.by
      BY <1>4, <1>5, <3>1, <3>2
    <3>3. CASE \E v \in Tab : op[v].kind = "run" /\ op[v].id = s.id /\ op[v].by = s.by
      <4>1. PICK v \in Tab : op[v].kind = "run" /\ op[v].id = s.id /\ op[v].by = s.by
        BY <3>3
      <4>2. op[u].by # 0
        BY <3>1
      <4>3. u = v
        BY <1>3, <1>5, <3>1, <4>1, <4>2
      <4>4. QED
        BY <3>1, <4>1, <4>3
    <3>4. QED
      BY <3>2, <3>3
  <2>3. QED
    BY <2>1, <2>2
<1>6. ASSUME NEW u \in Tab, NEW r \in Listed', op'[u].kind = "run", op'[u].by = r.by
      PROVE  op'[u].id = r.id
  <2>1. r.by <= computed /\ r.by \in Nat \ {0}
    BY <1>1, ListedRuns
  <2>2. op[u].kind = "run" /\ op'[u].id = op[u].id /\ op[u].by = r.by
    BY <1>2, <1>6, <2>1
  <2>3. CASE \E s \in Listed : s.id = r.id /\ s.by = r.by
    BY <1>4, <2>2, <2>3
  <2>4. CASE \E v \in Tab : op[v].kind = "run" /\ op[v].id = r.id /\ op[v].by = r.by
    BY <1>3, <2>1, <2>2, <2>4
  <2>5. QED
    BY <2>3, <2>4
<1>7. QED
  BY <1>5, <1>6 DEF Lists

\* A step of one tab that leaves the store alone, or stores what it has in its copy.
LEMMA ListsOfAStep ==
    ASSUME Typed, Operations, Copies, Lists, NEW t \in Tab, NEW c,
           cache' = [cache EXCEPT ![t] = c], doc' \in {doc, c},
           computed' \in 0..MaxComputes, computed <= computed', Sane(c, computed'),
           \A r \in c.runs :
              \/ \E s \in Listed : s.id = r.id /\ s.by = r.by
              \/ op[t].kind = "run" /\ op[t].id = r.id /\ op[t].by = r.by,
           \A u \in Tab : op'[u].kind = "run" =>
              \/ op'[u].by = 0 \/ op'[u].by > computed
              \/ op[u].kind = "run" /\ op'[u].id = op[u].id /\ op'[u].by = op[u].by
    PROVE  Lists' /\ Copies'
<1>1. computed \in Nat /\ computed' \in Nat
  BY StoreConstants DEF Typed, StoreTyped
<1>2. \A u \in Tab : cache'[u] = IF u = t THEN c ELSE cache[u]
  BY DEF Copies
<1>3. Sane(doc, computed') /\ \A u \in Tab : Sane(cache[u], computed')
  BY <1>1, LaterTimesAreSane DEF Lists
<1>4. Sane(doc', computed') /\ \A u \in Tab : Sane(cache'[u], computed')
  BY <1>2, <1>3
<1>5. \A r \in Listed' : r \in Listed \/ r \in c.runs
  BY <1>2 DEF Listed
<1>6. \A r \in Listed' : r.by \in Nat \ {0}
  <2>1. c.runs \in SUBSET Run
    BY DEF Sane, Document
  <2>2. \A r \in Run : r.by \in Nat \ {0}
    BY StoreConstants DEF Run, Computation
  <2>3. QED
    BY <1>5, <2>1, <2>2, ListedRuns
<1>7. \A r \in Listed' :
          \/ \E s \in Listed : s.id = r.id /\ s.by = r.by
          \/ \E u \in Tab : op[u].kind = "run" /\ op[u].id = r.id /\ op[u].by = r.by
  BY <1>5
<1>8. Lists'
  BY <1>4, <1>6, <1>7, ListsStep
<1>9. Copies'
  BY <1>2 DEF Copies, Sane
<1>10. QED
  BY <1>8, <1>9

\* A step that touches no list.
LEMMA ListsUntouched ==
    ASSUME Typed, Operations, Copies, Lists, UNCHANGED <<doc, cache, computed>>,
           \A u \in Tab : op'[u].kind = "run" =>
              \/ op'[u].by = 0 \/ op'[u].by > computed
              \/ op[u].kind = "run" /\ op'[u].id = op[u].id /\ op'[u].by = op[u].by
    PROVE  Lists' /\ Copies'
<1>1. Listed' = Listed
  BY DEF Listed
<1>2. Sane(doc', computed') /\ \A u \in Tab : Sane(cache'[u], computed')
  BY DEF Lists
<1>3. Lists'
  BY <1>1, <1>2, ListsStep, ListedRuns
<1>4. QED
  BY <1>3 DEF Copies

\* What a tab starts a write from: the store's list or its own copy.
LEMMA SeenIsSane ==
    ASSUME Lists, NEW t \in Tab, NEW state \in Seen(t)
    PROVE  Sane(state, computed) /\ state.runs \subseteq Listed
  BY DEF Lists, Listed, Seen

LEMMA EmptyIsSane == ASSUME NEW n \in Nat PROVE Sane(InitialState, n)
  BY StoreConstants, FS_EmptySet DEF Sane, InitialState, Document

-----------------------------------------------------------------------------
(* The steps keep the lists, the budget and the place of every waiting tab.  *)

\* No step but the mint gives a run its id and its computation.
OpsStand ==
    \A u \in Tab : op'[u].kind = "run" =>
        op[u].kind = "run" /\ op'[u].id = op[u].id /\ op'[u].by = op[u].by

LEMMA StoreStep ==
    ASSUME StoreInv, NEW t \in Tab, Typed', Lists', Copies', Operations', Queued',
           computed' = computed, OpsStand, \A f \in forgets' : f \in forgets \/ f.by = op[t].by
    PROVE  StoreInv'
<1>1. Forgotten'
  BY DEF StoreInv, Forgotten, Operations, Operation
<1>2. Budgeted'
  <2>1. Pending' \in SUBSET Pending
    BY DEF OpsStand, Pending
  <2>2. IsFiniteSet(Pending') /\ Cardinality(Pending') <= Cardinality(Pending)
    BY <2>1, FS_Subset DEF StoreInv, Budgeted
  <2>3. Cardinality(Pending') \in Nat /\ Cardinality(Pending) \in Nat
    BY <2>2, FS_CardinalityType DEF StoreInv, Budgeted
  <2>4. computed \in Nat /\ MaxComputes \in Nat
    BY StoreConstants DEF StoreInv, Typed, StoreTyped
  <2>5. QED
    BY <2>2, <2>3, <2>4 DEF StoreInv, Budgeted
<1>3. QED
  BY <1>1, <1>2 DEF StoreInv

LEMMA URLsTyped ==
    ASSUME TabsTyped, NEW t \in Tab, NEW state, Revokes(t, state), UNCHANGED <<loaded, swept>>
    PROVE  TabsTyped'
  BY DEF TabsTyped, Revokes, Pruned

\* A queue without its n-th element, and who is still in it.
WithoutNth(q, n) == SubSeq(q, 1, n - 1) \o SubSeq(q, n + 1, Len(q))

LEMMA OthersStayQueued ==
    ASSUME NEW q \in Seq(Tab), NEW n \in 1..Len(q)
    PROVE  /\ WithoutNth(q, n) \in Seq(Tab)
           /\ \A j \in 1..Len(q) : j # n =>
                 \E i \in DOMAIN WithoutNth(q, n) : WithoutNth(q, n)[i] = q[j]
<1> DEFINE before == SubSeq(q, 1, n - 1)
           after == SubSeq(q, n + 1, Len(q))
<1>1. Len(q) \in Nat
  OBVIOUS
<1>2. before \in Seq(Tab) /\ Len(before) = n - 1 /\ \A i \in 1..(n - 1) : before[i] = q[i]
  BY <1>1
<1>3. /\ after \in Seq(Tab) /\ Len(after) = Len(q) - n
      /\ \A i \in 1..(Len(q) - n) : after[i] = q[n + i]
  BY <1>1
<1>4. WithoutNth(q, n) = before \o after
  BY DEF WithoutNth
<1> HIDE DEF before, after
<1>5. /\ before \o after \in Seq(Tab)
      /\ DOMAIN (before \o after) = 1..(Len(q) - 1)
      /\ \A i \in 1..(Len(q) - 1) :
            (before \o after)[i] = IF i <= n - 1 THEN before[i] ELSE after[i - (n - 1)]
  BY <1>1, <1>2, <1>3
<1>6. ASSUME NEW j \in 1..Len(q), j # n
      PROVE  \E i \in 1..(Len(q) - 1) : (before \o after)[i] = q[j]
  <2>1. j \in Nat /\ n \in Nat
    BY <1>1
  <2>2. CASE j < n
    <3>1. j \in 1..(Len(q) - 1) /\ j <= n - 1
      BY <1>1, <2>2
    <3>2. QED
      BY <1>1, <1>2, <1>5, <3>1
  <2>3. CASE j > n
    <3>1. j - 1 \in 1..(Len(q) - 1) /\ ~(j - 1 <= n - 1) /\ j - n \in 1..(Len(q) - n)
      BY <1>1, <2>3
    <3>2. (j - 1) - (n - 1) = j - n /\ n + (j - n) = j
      BY <2>1
    <3>3. (before \o after)[j - 1] = after[j - n]
      BY <1>5, <3>1, <3>2
    <3>4. QED
      BY <1>3, <3>1, <3>2, <3>3
  <2>4. j < n \/ j > n
    BY <1>6, <2>1
  <2>5. QED
    BY <2>2, <2>3, <2>4
<1>7. QED
  BY <1>4, <1>5, <1>6

\* A URL is minted for a run of the copy.
LEMMA ViewArtifactKeeps == ASSUME StoreInv, NEW t \in Tab, ViewArtifact(t) PROVE StoreInv'
<1> USE StoreConstants DEF StoreInv, Typed, ViewArtifact, Incident, storeVars, writerVars, history
<1>1. StoreTyped'
  BY DEF StoreTyped
<1>2. TabsTyped'
  <2>1. PICK r \in cache[t].runs : urls' = [urls EXCEPT ![t][r.id] = r.by]
    OBVIOUS
  <2>2. r.id \in Ids /\ r.by \in Computation
    BY DEF Copies, Document, Run
  <2>3. QED
    BY <2>1, <2>2 DEF TabsTyped
<1>3. WritersTyped'
  BY DEF WritersTyped
<1>4. OpsStand
  BY DEF OpsStand, WritersTyped, NoOp
<1>5. Lists' /\ Copies'
  BY <1>4, ListsUntouched DEF OpsStand
<1>6. Operations'
  BY DEF WritersTyped, Operations, Operation, Computing, Minted, Written
<1>7. Queued'
  BY DEF WritersTyped, Queued
<1>8. QED
  BY <1>1, <1>2, <1>3, <1>4, <1>5, <1>6, <1>7, StoreStep

\* The lock goes to the tab at the head of the queue, which is there.
LEMMA AcquireKeeps == ASSUME StoreInv, NEW t \in Tab, Acquire(t) PROVE StoreInv'
<1> USE StoreConstants DEF StoreInv, Typed, Acquire, Goto, storeVars, tabVars, writerVars, counters, history
<1>1. StoreTyped'
  BY DEF StoreTyped
<1>2. TabsTyped'
  BY DEF TabsTyped
<1>3. WritersTyped'
  <2>1. queue \in Seq(Tab) /\ queue # <<>>
    BY DEF WritersTyped, Queued
  <2>2. Tail(queue) \in Seq(Tab)
    BY <2>1
  <2>3. QED
    BY <2>2 DEF WritersTyped
<1>4. OpsStand
  BY DEF OpsStand, WritersTyped, NoOp
<1>5. Lists' /\ Copies'
  BY <1>4, ListsUntouched DEF OpsStand
<1>6. Operations'
  BY DEF WritersTyped, Operations, Operation, Computing, Minted, Written
<1>7. Queued'
  <2>1. SUFFICES ASSUME NEW u \in Tab, u # t, pc[u] = "waiting"
                 PROVE  \E i \in DOMAIN queue' : queue'[i] = u
    BY DEF WritersTyped, Queued
  <2>2. PICK i \in DOMAIN queue : queue[i] = u
    BY <2>1 DEF Queued
  <2>3. queue \in Seq(Tab) /\ i \in 1..Len(queue) /\ i # 1 /\ queue' = Tail(queue)
    BY <2>1, <2>2 DEF WritersTyped
  <2>4. i - 1 \in DOMAIN Tail(queue) /\ Tail(queue)[i - 1] = u
    BY <2>2, <2>3
  <2>5. QED
    BY <2>3, <2>4
<1>8. QED
  BY <1>1, <1>2, <1>3, <1>4, <1>5, <1>6, <1>7, StoreStep

\* The sweep deletes byte records only.
LEMMA SweepDeleteKeeps == ASSUME StoreInv, NEW t \in Tab, SweepDelete(t) PROVE StoreInv'
<1> USE StoreConstants DEF StoreInv, Typed, SweepDelete, Incident, Smoothly, Goto, tabVars, history
<1>1. StoreTyped'
  BY DEF StoreTyped
<1>2. TabsTyped'
  BY DEF TabsTyped
<1>3. WritersTyped'
  BY DEF WritersTyped
<1>4. OpsStand
  BY DEF OpsStand, WritersTyped, NoOp
<1>5. Lists' /\ Copies'
  BY <1>4, ListsUntouched DEF OpsStand
<1>6. Operations'
  BY DEF WritersTyped, Operations, Operation, Computing, Minted, Written
<1>7. Queued'
  BY DEF WritersTyped, Queued
<1>8. QED
  BY <1>1, <1>2, <1>3, <1>4, <1>5, <1>6, <1>7, StoreStep

\* The kernel answers or does not.
LEMMA ComputeKeeps == ASSUME StoreInv, NEW t \in Tab, Compute(t) PROVE StoreInv'
<1> USE StoreConstants DEF StoreInv, Typed, Compute, Goto, Ends, storeVars, tabVars, writerVars, counters, history
<1>1. StoreTyped'
  BY DEF StoreTyped
<1>2. TabsTyped'
  BY DEF TabsTyped
<1>3. WritersTyped'
  BY DEF WritersTyped
<1>4. OpsStand
  BY DEF OpsStand, WritersTyped, NoOp
<1>5. Lists' /\ Copies'
  BY <1>4, ListsUntouched DEF OpsStand
<1>6. Operations'
  BY DEF WritersTyped, Operations, Operation, Computing, Minted, Written
<1>7. Queued'
  BY DEF WritersTyped, Queued
<1>8. QED
  BY <1>1, <1>2, <1>3, <1>4, <1>5, <1>6, <1>7, StoreStep

\* The raster is written, or its record is left as it was.
LEMMA SaveRasterKeeps == ASSUME StoreInv, NEW t \in Tab, SaveRaster(t) PROVE StoreInv'
<1> USE StoreConstants DEF StoreInv, Typed, SaveRaster, Incident, Smoothly, Goto, Ends, WritesRaster, tabVars
<1>1. StoreTyped'
  <2>1. op[t].by \in {0} \cup Computation /\ bytes \in [Ids -> {0} \cup Computation]
    BY DEF WritersTyped, StoreTyped
  <2>2. bytes' \in [Ids -> {0} \cup Computation]
    BY <2>1
  <2>3. blind' \in BOOLEAN
    BY DEF StoreTyped
  <2>4. incidents' \in 0..MaxIncidents
    BY DEF StoreTyped
  <2>5. UNCHANGED <<forgets, computed, taken, unstored>>
    OBVIOUS
  <2>6. QED
    BY <2>2, <2>3, <2>4, <2>5 DEF StoreTyped
<1>2. TabsTyped'
  BY DEF TabsTyped
<1>3. WritersTyped'
  BY DEF WritersTyped
<1>4. OpsStand
  BY DEF OpsStand, WritersTyped, NoOp
<1>5. Lists' /\ Copies'
  BY <1>4, ListsUntouched DEF OpsStand
<1>6. Operations'
  BY DEF WritersTyped, Operations, Operation, Computing, Minted, Written
<1>7. Queued'
  BY DEF WritersTyped, Queued
<1>8. QED
  BY <1>1, <1>2, <1>3, <1>4, <1>5, <1>6, <1>7, StoreStep

\* The second attempt is like the first.
LEMMA SaveRasterAgainKeeps == ASSUME StoreInv, NEW t \in Tab, SaveRasterAgain(t) PROVE StoreInv'
<1> USE StoreConstants DEF StoreInv, Typed, SaveRasterAgain, Incident, Smoothly, Goto, Ends, WritesRaster, tabVars
<1>1. StoreTyped'
  <2>1. op[t].by \in {0} \cup Computation /\ bytes \in [Ids -> {0} \cup Computation]
    BY DEF WritersTyped, StoreTyped
  <2>2. bytes' \in [Ids -> {0} \cup Computation]
    BY <2>1
  <2>3. blind' \in BOOLEAN
    BY DEF StoreTyped
  <2>4. incidents' \in 0..MaxIncidents
    BY DEF StoreTyped
  <2>5. UNCHANGED <<forgets, computed, taken, unstored>>
    OBVIOUS
  <2>6. QED
    BY <2>2, <2>3, <2>4, <2>5 DEF StoreTyped
<1>2. TabsTyped'
  BY DEF TabsTyped
<1>3. WritersTyped'
  BY DEF WritersTyped
<1>4. OpsStand
  BY DEF OpsStand, WritersTyped, NoOp
<1>5. Lists' /\ Copies'
  BY <1>4, ListsUntouched DEF OpsStand
<1>6. Operations'
  BY DEF WritersTyped, Operations, Operation, Computing, Minted, Written
<1>7. Queued'
  BY DEF WritersTyped, Queued
<1>8. QED
  BY <1>1, <1>2, <1>3, <1>4, <1>5, <1>6, <1>7, StoreStep

\* An abandoned run leaves a delete behind.
LEMMA CheckAbandonedKeeps == ASSUME StoreInv, NEW t \in Tab, CheckAbandoned(t) PROVE StoreInv'
<1> USE StoreConstants DEF StoreInv, Typed, CheckAbandoned, Goto, Ends, Forgets, storeVars, tabVars, writerVars, counters, history
<1>1. StoreTyped'
  BY DEF StoreTyped, Operations, Operation, WritersTyped, Minted, Computing, Written
<1>2. TabsTyped'
  BY DEF TabsTyped
<1>3. WritersTyped'
  BY DEF WritersTyped
<1>4. OpsStand
  BY DEF OpsStand, WritersTyped, NoOp
<1>5. Lists' /\ Copies'
  BY <1>4, ListsUntouched DEF OpsStand
<1>6. Operations'
  BY DEF WritersTyped, Operations, Operation, Computing, Minted, Written
<1>7. Queued'
  BY DEF WritersTyped, Queued
<1>8. QED
  BY <1>1, <1>2, <1>3, <1>4, <1>5, <1>6, <1>7, StoreStep

\* The operation is over.
LEMMA ReleaseKeeps == ASSUME StoreInv, NEW t \in Tab, Release(t) PROVE StoreInv'
<1> USE StoreConstants DEF StoreInv, Typed, Release, Goto, storeVars, tabVars, writerVars, counters, history
<1>1. StoreTyped'
  BY DEF StoreTyped
<1>2. TabsTyped'
  BY DEF TabsTyped
<1>3. WritersTyped'
  BY DEF WritersTyped, NoOp
<1>4. OpsStand
  BY DEF OpsStand, WritersTyped, NoOp
<1>5. Lists' /\ Copies'
  BY <1>4, ListsUntouched DEF OpsStand
<1>6. Operations'
  BY DEF WritersTyped, StoreTyped, Operations, Operation, Computing, Minted, Written, NoOp
<1>7. Queued'
  BY DEF WritersTyped, Queued
<1>8. QED
  BY <1>1, <1>2, <1>3, <1>4, <1>5, <1>6, <1>7, StoreStep

\* The copy becomes what was read, or stays.
LEMMA SweepReadKeeps == ASSUME StoreInv, NEW t \in Tab, SweepRead(t) PROVE StoreInv'
<1> USE StoreConstants DEF StoreInv, Typed, SweepRead, Reads, ReadsThen, Caches, Goto, storeVars, history
<1>1. StoreTyped'
  BY DEF StoreTyped
<1>2. TabsTyped'
  BY DEF TabsTyped
<1>3. WritersTyped'
  BY DEF WritersTyped
<1>4. OpsStand
  BY DEF OpsStand, WritersTyped, NoOp
<1>5. Lists' /\ Copies'
  <2>1. PICK state \in Seen(t) : cache' = [cache EXCEPT ![t] = state]
    BY DEF Caches
  <2>2. Sane(state, computed) /\ state.runs \subseteq Listed
    BY <2>1, SeenIsSane
  <2>3. computed \in 0..MaxComputes /\ computed <= computed
    BY DEF StoreTyped
  <2>4. QED
    BY <1>4, <2>1, <2>2, <2>3, ListsOfAStep DEF OpsStand
<1>6. Operations'
  BY DEF WritersTyped, Operations, Operation, Computing, Minted, Written
<1>7. Queued'
  BY DEF WritersTyped, Queued
<1>8. QED
  BY <1>1, <1>2, <1>3, <1>4, <1>5, <1>6, <1>7, StoreStep

\* The export finds its run in what was read.
LEMMA FindForExportKeeps == ASSUME StoreInv, NEW t \in Tab, FindForExport(t) PROVE StoreInv'
<1> USE StoreConstants DEF StoreInv, Typed, FindForExport, Reads, ReadsThen, Caches, Goto, Ends, storeVars, history
<1>1. StoreTyped'
  BY DEF StoreTyped
<1>2. TabsTyped'
  BY DEF TabsTyped
<1>3. WritersTyped'
  <2>1. pc' \in {[pc EXCEPT ![t] = "persist"], [pc EXCEPT ![t] = "end"]}
        /\ readable' \in [Tab -> BOOLEAN] /\ outcome' \in [Tab -> {"none", "stored", "failed"}]
        /\ UNCHANGED <<lock, queue, op>> /\ pc[t] = "begin"
    BY DEF WritersTyped
  <2>2. QED
    BY <2>1 DEF WritersTyped
<1>4. OpsStand
  BY DEF OpsStand, WritersTyped, NoOp
<1>5. Lists' /\ Copies'
  <2>1. PICK state \in Seen(t) : cache' = [cache EXCEPT ![t] = state]
    BY DEF Caches
  <2>2. Sane(state, computed) /\ state.runs \subseteq Listed
    BY <2>1, SeenIsSane
  <2>3. computed \in 0..MaxComputes /\ computed <= computed
    BY DEF StoreTyped
  <2>4. QED
    BY <1>4, <2>1, <2>2, <2>3, ListsOfAStep DEF OpsStand
<1>6. Operations'
  <2>1. PICK state \in Seen(t) :
           /\ cache' = [cache EXCEPT ![t] = state]
           /\ \/ pc' = [pc EXCEPT ![t] = "persist"] /\ op[t].id \in IdsOf(state.runs)
              \/ pc' = [pc EXCEPT ![t] = "end"]
    OBVIOUS
  <2>2. cache'[t] = state /\ op' = op /\ op[t].kind = "export"
    BY <2>1 DEF Copies
  <2>3. \A u \in Tab : u # t => cache'[u] = cache[u]
    BY <2>1 DEF Copies
  <2>4. QED
    BY <2>1, <2>2, <2>3 DEF WritersTyped, Operations, Operation, Computing, Minted, Written
<1>7. Queued'
  BY DEF WritersTyped, Queued
<1>8. QED
  BY <1>1, <1>2, <1>3, <1>4, <1>5, <1>6, <1>7, StoreStep

\* The first read of a session.
LEMMA LoadKeeps == ASSUME StoreInv, NEW t \in Tab, Load(t) PROVE StoreInv'
<1> USE StoreConstants DEF StoreInv, Typed, Load, Incident, Smoothly, Caches, storeVars, tabVars, writerVars, counters, history
<1>1. StoreTyped'
  BY DEF StoreTyped
<1>2. TabsTyped'
  BY DEF TabsTyped
<1>3. WritersTyped'
  BY DEF WritersTyped
<1>4. OpsStand
  BY DEF OpsStand, WritersTyped, NoOp
<1>5. Lists' /\ Copies'
  <2>1. CASE cache' = cache
    BY <1>4, <2>1, ListsUntouched DEF OpsStand
  <2>2. CASE cache' = [cache EXCEPT ![t] = doc]
    <3>1. doc \in Seen(t) /\ Sane(doc, computed) /\ doc.runs \subseteq Listed
      BY SeenIsSane DEF Seen
    <3>2. computed \in 0..MaxComputes /\ computed <= computed
      BY DEF StoreTyped
    <3>3. QED
      BY <1>4, <2>2, <3>1, <3>2, ListsOfAStep DEF OpsStand
  <2>3. QED
    BY <2>1, <2>2
<1>6. Operations'
  <2>1. \A u \in Tab : u # t => cache'[u] = cache[u]
    BY DEF Copies
  <2>2. pc' = pc /\ op' = op /\ computed' = computed /\ pc[t] = "idle"
    OBVIOUS
  <2>3. QED
    BY <2>1, <2>2 DEF Operations, Operation
<1>7. Queued'
  BY DEF WritersTyped, Queued
<1>8. QED
  BY <1>1, <1>2, <1>3, <1>4, <1>5, <1>6, <1>7, StoreStep

\* A closed tab keeps nothing and waits for nothing.
LEMMA CloseKeeps == ASSUME StoreInv, NEW t \in Tab, Close(t) PROVE StoreInv'
<1> USE StoreConstants DEF StoreInv, Typed, Close, Incident, Caches, Goto, storeVars, history
<1>1. StoreTyped'
  BY DEF StoreTyped
<1>2. TabsTyped'
  BY DEF TabsTyped
<1>3. WritersTyped'
  <2>1. queue' \in Seq(Tab)
    <3>1. CASE pc[t] = "waiting"
      <4> DEFINE at == CHOOSE i \in DOMAIN queue : queue[i] = t
      <4>1. queue \in Seq(Tab) /\ at \in 1..Len(queue)
        BY <3>1 DEF WritersTyped, Queued
      <4>2. queue' = WithoutNth(queue, at)
        BY <3>1 DEF LeavesQueue, WithoutNth
      <4> HIDE DEF at
      <4>3. QED
        BY <4>1, <4>2, OthersStayQueued
    <3>2. CASE pc[t] # "waiting"
      BY <3>2 DEF LeavesQueue, WritersTyped
    <3>3. QED
      BY <3>1, <3>2
  <2>2. QED
    BY <2>1 DEF WritersTyped, NoOp
<1>4. OpsStand
  BY DEF OpsStand, WritersTyped, NoOp
<1>5. Lists' /\ Copies'
  <2>1. Sane(InitialState, computed)
    BY EmptyIsSane DEF StoreTyped
  <2>2. computed \in 0..MaxComputes /\ computed <= computed /\ InitialState.runs = {}
    BY DEF StoreTyped, InitialState
  <2>3. QED
    BY <1>4, <2>1, <2>2, ListsOfAStep DEF OpsStand
<1>6. Operations'
  <2>1. \A u \in Tab : u # t => cache'[u] = cache[u]
    BY DEF Copies
  <2>2. QED
    BY <2>1 DEF WritersTyped, StoreTyped, Operations, Operation, Computing, Minted, Written, NoOp
<1>7. Queued'
  <2>1. SUFFICES ASSUME NEW u \in Tab, u # t, pc[u] = "waiting"
                 PROVE  \E i \in DOMAIN queue' : queue'[i] = u
    BY DEF WritersTyped, Queued
  <2>2. PICK j \in DOMAIN queue : queue[j] = u
    BY <2>1 DEF Queued
  <2>3. CASE pc[t] = "waiting"
    <3> DEFINE at == CHOOSE i \in DOMAIN queue : queue[i] = t
    <3>1. queue \in Seq(Tab) /\ at \in 1..Len(queue) /\ queue[at] = t /\ j \in 1..Len(queue)
      BY <2>3 DEF WritersTyped, Queued
    <3>2. queue' = WithoutNth(queue, at)
      BY <2>3 DEF LeavesQueue, WithoutNth
    <3>3. at # j
      BY <2>1, <2>2, <3>1
    <3> HIDE DEF at
    <3>4. QED
      BY <2>2, <3>1, <3>2, <3>3, OthersStayQueued
  <2>4. CASE pc[t] # "waiting"
    BY <2>2, <2>4 DEF LeavesQueue
  <2>5. QED
    BY <2>3, <2>4
<1>8. QED
  BY <1>1, <1>2, <1>3, <1>4, <1>5, <1>6, <1>7, StoreStep

\* A request for a run is one more computation to come, and there is one left.
LEMMA RequestKeeps == ASSUME StoreInv, NEW t \in Tab, Request(t) PROVE StoreInv'
<1> USE StoreConstants DEF StoreInv, Typed
<1>1. /\ pc[t] = "idle" /\ pc' = [pc EXCEPT ![t] = "waiting"]
      /\ queue' = Append(queue, t)
      /\ UNCHANGED <<doc, bytes, lock, cache, loaded, swept, urls, readable, outcome, forgets,
                     computed, incidents, blind, taken, unstored>>
  BY DEF Request, Goto, storeVars, tabVars, counters, history
<1>2. PICK new :
         /\ op' = [op EXCEPT ![t] = new]
         /\ new \in [kind: {"run", "export", "delete"}, id: {0} \cup Ids,
                     by: {0} \cup Computation, drop: SUBSET Ids]
         /\ new.kind = "run" => new.by = 0 /\ new.id = 0 /\ computed + Cardinality(Pending) < MaxComputes
         /\ new.kind # "run" => new.id # 0
         /\ new.id <= computed /\ new.by <= computed
  <2>1. CASE /\ computed + Cardinality(Pending) < MaxComputes
             /\ op' = [op EXCEPT ![t] = [NoOp EXCEPT !.kind = "run"]]
    <3> DEFINE n == [kind |-> "run", id |-> 0, by |-> 0, drop |-> {}]
    <3>1. n = [NoOp EXCEPT !.kind = "run"]
      BY DEF NoOp
    <3>2. op' = [op EXCEPT ![t] = n] /\ computed + Cardinality(Pending) < MaxComputes
      BY <2>1, <3>1
    <3>3. n \in [kind: {"run", "export", "delete"}, id: {0} \cup Ids,
                by: {0} \cup Computation, drop: SUBSET Ids]
      OBVIOUS
    <3>4. n.kind = "run" /\ n.by = 0 /\ n.id = 0 /\ 0 <= computed
      BY DEF StoreTyped
    <3> HIDE DEF n
    <3>5. QED
      BY <3>2, <3>3, <3>4
  <2>2. CASE \E r \in cache[t].runs, kind \in {"export", "delete"} :
                op' = [op EXCEPT ![t] = [kind |-> kind, id |-> r.id, by |-> r.by, drop |-> {}]]
    <3>1. PICK r \in cache[t].runs, kind \in {"export", "delete"} :
                op' = [op EXCEPT ![t] = [kind |-> kind, id |-> r.id, by |-> r.by, drop |-> {}]]
      BY <2>2
    <3>2. r \in Listed
      BY DEF Listed
    <3>3. r \in Run /\ r.id # 0 /\ r.id <= computed /\ r.by <= computed
      BY <3>2, ListedRuns
    <3> DEFINE n == [kind |-> kind, id |-> r.id, by |-> r.by, drop |-> {}]
    <3>4. r.id \in Ids /\ r.by \in Computation
      BY <3>3 DEF Run
    <3>5. n \in [kind: {"run", "export", "delete"}, id: {0} \cup Ids,
                by: {0} \cup Computation, drop: SUBSET Ids]
      BY <3>4
    <3>6. n.kind # "run" /\ n.id # 0 /\ n.id <= computed /\ n.by <= computed
      BY <3>3
    <3>7. op' = [op EXCEPT ![t] = n]
      BY <3>1
    <3> HIDE DEF n
    <3>8. QED
      BY <3>5, <3>6, <3>7
  <2>3. \/ /\ computed + Cardinality(Pending) < MaxComputes
           /\ op' = [op EXCEPT ![t] = [NoOp EXCEPT !.kind = "run"]]
        \/ \E r \in cache[t].runs, kind \in {"export", "delete"} :
              op' = [op EXCEPT ![t] = [kind |-> kind, id |-> r.id, by |-> r.by, drop |-> {}]]
    BY DEF Request, Pending
  <2>4. QED
    BY <2>1, <2>2, <2>3
<1>3. \A u \in Tab : op'[u] = IF u = t THEN new ELSE op[u]
  BY <1>2 DEF WritersTyped
<1>4. StoreTyped' /\ TabsTyped'
  BY <1>1 DEF StoreTyped, TabsTyped
<1>5. WritersTyped'
  <2>1. op' \in [Tab -> [kind: {"none", "run", "export", "delete"}, id: {0} \cup Ids,
                         by: {0} \cup Computation, drop: SUBSET Ids]]
    BY <1>2 DEF WritersTyped
  <2>2. queue' \in Seq(Tab)
    BY <1>1 DEF WritersTyped
  <2>3. \A u \in Tab : pc'[u] = IF u = t THEN "waiting" ELSE pc[u]
    BY <1>1 DEF WritersTyped
  <2>4. \A u \in Tab : lock' = u <=> pc'[u] \notin {"idle", "waiting"}
    BY <1>1, <2>3 DEF WritersTyped
  <2>5. QED
    BY <1>1, <2>1, <2>2, <2>4 DEF WritersTyped
<1>6. Lists' /\ Copies'
  BY <1>1, <1>2, <1>3, ListsUntouched
<1>7. Operations'
  BY <1>1, <1>2, <1>3 DEF Operations, Operation, WritersTyped, Computing, Minted, Written
<1>8. Queued'
  <2>1. Len(queue) + 1 \in DOMAIN queue' /\ queue'[Len(queue) + 1] = t
    BY <1>1 DEF WritersTyped
  <2>2. \A i \in DOMAIN queue : i \in DOMAIN queue' /\ queue'[i] = queue[i]
    BY <1>1 DEF WritersTyped
  <2>3. \A u \in Tab : u # t => (pc'[u] = "waiting" => pc[u] = "waiting")
    BY <1>1 DEF WritersTyped
  <2>4. QED
    BY <2>1, <2>2, <2>3 DEF Queued
<1>9. Budgeted'
  <2>1. IsFiniteSet(Pending) /\ computed + Cardinality(Pending) <= MaxComputes
    BY DEF Budgeted
  <2>2. Cardinality(Pending) \in Nat /\ computed \in Nat
    BY <2>1, FS_CardinalityType DEF StoreTyped
  <2>3. CASE new.kind = "run"
    <3>1. Pending' = Pending \cup {t}
      BY <1>2, <1>3, <2>3 DEF Pending
    <3>2. IsFiniteSet(Pending') /\ Cardinality(Pending') <= Cardinality(Pending) + 1
      BY <2>1, <2>2, <3>1, FS_AddElement
    <3>3. Cardinality(Pending') \in Nat
      BY <3>2, FS_CardinalityType
    <3>4. QED
      BY <1>1, <1>2, <2>2, <2>3, <3>2, <3>3 DEF Budgeted
  <2>4. CASE new.kind # "run"
    <3>1. Pending' \in SUBSET Pending
      BY <1>3, <2>4 DEF Pending
    <3>2. IsFiniteSet(Pending') /\ Cardinality(Pending') <= Cardinality(Pending)
      BY <2>1, <3>1, FS_Subset
    <3>3. Cardinality(Pending') \in Nat
      BY <3>2, FS_CardinalityType
    <3>4. QED
      BY <1>1, <2>1, <2>2, <3>2, <3>3 DEF Budgeted
  <2>5. QED
    BY <2>3, <2>4
<1>10. Forgotten'
  BY <1>1 DEF Forgotten
<1>11. QED
  BY <1>4, <1>5, <1>6, <1>7, <1>8, <1>9, <1>10

\* The mint spends a computation that was kept for it, and its id is one above
\* a mark no computation has passed.
LEMMA MintKeeps == ASSUME StoreInv, NEW t \in Tab, Mint(t) PROVE StoreInv'
<1> USE StoreConstants DEF StoreInv, Typed
<1>1. PICK state \in Seen(t) :
         /\ cache' = [cache EXCEPT ![t] = state]
         /\ op' = [op EXCEPT ![t].id = state.mark + 1, ![t].by = computed + 1]
         /\ Reads(t, state)
  BY DEF Mint, Caches, NextId
<1>2. readable' \in [Tab -> BOOLEAN] /\ incidents' \in 0..MaxIncidents
  BY <1>1 DEF Reads, ReadsThen, WritersTyped, StoreTyped
<1>3. /\ pc[t] = "begin" /\ op[t].kind = "run" /\ pc' = [pc EXCEPT ![t] = "compute"]
      /\ loaded' = [loaded EXCEPT ![t] = TRUE]
      /\ computed' = computed + 1
      /\ UNCHANGED <<doc, bytes, lock, queue, swept, urls, outcome, forgets, blind, taken, unstored>>
  BY DEF Mint, Goto, storeVars, history
<1>4. Sane(state, computed) /\ state.runs \subseteq Listed /\ state.mark \in Nat /\ state.mark <= computed
  <2>1. Sane(state, computed) /\ state.runs \subseteq Listed
    BY <1>1, SeenIsSane
  <2>2. QED
    BY <2>1 DEF Sane, Document
<1>5. computed + 1 \in 1..MaxComputes
  <2>1. t \in Pending
    BY <1>3 DEF Pending, Operations, Operation
  <2>2. IsFiniteSet(Pending) /\ computed + Cardinality(Pending) <= MaxComputes
        /\ Cardinality(Pending) \in Nat /\ computed \in Nat
    BY FS_CardinalityType DEF Budgeted, StoreTyped
  <2>3. Cardinality(Pending) # 0
    BY <2>1, <2>2, FS_EmptySet
  <2>4. QED
    BY <2>2, <2>3
<1>6. computed \in Nat
  BY DEF StoreTyped
<1> DEFINE new == [op[t] EXCEPT !.id = state.mark + 1, !.by = computed + 1]
<1>7. /\ op[t] \in [kind: {"none", "run", "export", "delete"}, id: {0} \cup Ids,
                    by: {0} \cup Computation, drop: SUBSET Ids]
      /\ op' = [op EXCEPT ![t] = new]
      /\ \A u \in Tab : op'[u] = IF u = t THEN new ELSE op[u]
  BY <1>1 DEF WritersTyped
<1>8. /\ new.kind = "run" /\ new.id = state.mark + 1 /\ new.by = computed + 1
      /\ new.id \in Ids /\ new.by \in Computation
      /\ new \in [kind: {"none", "run", "export", "delete"}, id: {0} \cup Ids,
                  by: {0} \cup Computation, drop: SUBSET Ids]
  <2>1. state.mark + 1 \in Ids /\ computed + 1 \in Computation
    BY <1>4, <1>5, <1>6 DEF Ids, Computation
  <2>2. QED
    BY <1>3, <1>7, <2>1
<1> HIDE DEF new
<1>9. StoreTyped' /\ TabsTyped'
  BY <1>2, <1>3, <1>5 DEF StoreTyped, TabsTyped
<1>10. WritersTyped'
  <2>1. op' \in [Tab -> [kind: {"none", "run", "export", "delete"}, id: {0} \cup Ids,
                         by: {0} \cup Computation, drop: SUBSET Ids]]
    BY <1>7, <1>8 DEF WritersTyped
  <2>2. QED
    BY <1>2, <1>3, <2>1 DEF WritersTyped
<1>11. Lists' /\ Copies'
  <2>1. Sane(state, computed')
    BY <1>3, <1>4, <1>5, <1>6, LaterTimesAreSane
  <2>2. computed' \in 0..MaxComputes /\ computed <= computed'
    BY <1>3, <1>5, <1>6
  <2>3. \A u \in Tab : \/ op'[u].by > computed
                       \/ op'[u] = op[u]
    BY <1>6, <1>7, <1>8
  <2>4. \A r \in state.runs : \E s \in Listed : s.id = r.id /\ s.by = r.by
    BY <1>4
  <2>5. doc' \in {doc, state}
    BY <1>3
  <2>6. QED
    BY <1>1, <2>1, <2>2, <2>3, <2>4, <2>5, ListsOfAStep
<1>12. Operations'
  <2>1. \A u \in Tab : u # t => cache'[u] = cache[u]
    BY <1>1 DEF Copies
  <2>2. \A u \in Tab : op[u].id \in Nat /\ op[u].by \in Nat
    BY DEF WritersTyped, Ids, Computation
  <2>3. \A u \in Tab : u # t => Operation(u)'
    <3>1. SUFFICES ASSUME NEW u \in Tab, u # t PROVE Operation(u)'
      OBVIOUS
    <3>2. op'[u] = op[u] /\ pc'[u] = pc[u] /\ cache'[u] = cache[u]
      BY <1>3, <1>7, <2>1, <3>1 DEF WritersTyped
    <3>3. op[u].id <= computed' /\ op[u].by <= computed'
      BY <1>3, <1>6, <2>2 DEF Operations, Operation
    <3>4. QED
      BY <3>2, <3>3 DEF Operations, Operation
  <2>4. Operation(t)'
    BY <1>3, <1>4, <1>6, <1>7, <1>8 DEF Operation, WritersTyped, Minted, Computing, Written
  <2>5. QED
    BY <2>3, <2>4 DEF Operations
<1>13. Queued'
  BY <1>3 DEF Queued, WritersTyped
<1>14. Budgeted'
  <2>1. Pending' = Pending \ {t} /\ t \in Pending
    BY <1>3, <1>6, <1>7, <1>8 DEF Pending, Operations, Operation
  <2>2. IsFiniteSet(Pending) /\ computed + Cardinality(Pending) <= MaxComputes
        /\ Cardinality(Pending) \in Nat
    BY FS_CardinalityType DEF Budgeted
  <2>3. IsFiniteSet(Pending') /\ Cardinality(Pending') = Cardinality(Pending) - 1
    BY <2>1, <2>2, FS_RemoveElement
  <2>4. QED
    BY <1>3, <1>6, <2>2, <2>3 DEF Budgeted
<1>15. Forgotten'
  BY <1>3, <1>6 DEF Forgotten, StoreTyped, Computation
<1>16. QED
  BY <1>9, <1>10, <1>11, <1>12, <1>13, <1>14, <1>15

-----------------------------------------------------------------------------
(* The steps that write the document.                                      *)

\* The record persistRun stores.
LEMMA StoredRecord ==
    ASSUME StoreInv, NEW t \in Tab, pc[t] = "persist", NEW state \in Seen(t)
    PROVE  /\ ToStore(t) \in Run /\ ToStore(t).id = op[t].id
           /\ ToStore(t).id <= computed /\ ToStore(t).by <= computed
           /\ \A r \in state.runs : r.by = ToStore(t).by => r.id = ToStore(t).id
           /\ \/ op[t].kind = "run" /\ ToStore(t).by = op[t].by
              \/ /\ op[t].kind = "export"
                 /\ \E s \in cache[t].runs :
                       s.id = op[t].id /\ s.by = ToStore(t).by /\ ToStore(t).exports >= s.exports
<1> USE StoreConstants DEF StoreInv
<1>1. op[t].kind \in {"run", "export"} /\ op[t].id <= computed /\ op[t].by <= computed
      /\ op[t].id \in {0} \cup Ids /\ op[t].by \in {0} \cup Computation
  BY DEF Operations, Operation, Typed, WritersTyped
<1>2. state.runs \subseteq Listed
  BY SeenIsSane
<1>3. CASE op[t].kind = "run"
  <2>1. op[t].id # 0 /\ op[t].by # 0
    BY <1>3 DEF Operations, Operation, Minted, Written
  <2>2. ToStore(t) = [id |-> op[t].id, by |-> op[t].by, exports |-> 0]
    BY <1>3 DEF ToStore
  <2>3. [id |-> op[t].id, by |-> op[t].by, exports |-> 0] \in Run
    BY <1>1, <2>1 DEF Run
  <2>4. \A r \in state.runs : r.by = op[t].by => r.id = op[t].id
    BY <1>2, <1>3 DEF Lists
  <2>5. QED
    BY <1>1, <1>3, <2>2, <2>3, <2>4
<1>4. CASE op[t].kind = "export"
  <2> DEFINE r0 == CHOOSE s \in cache[t].runs : s.id = op[t].id
  <2>1. r0 \in cache[t].runs /\ r0.id = op[t].id
    BY <1>4 DEF Operations, Operation, IdsOf
  <2>2. ToStore(t) = [r0 EXCEPT !.exports = IF @ < MaxExports THEN @ + 1 ELSE @]
    BY <1>4 DEF ToStore
  <2> HIDE DEF r0
  <2>3. r0 \in Listed
    BY <2>1 DEF Listed
  <2>4. r0 \in [id: Ids, by: Computation, exports: 0..MaxExports]
    BY <2>3, ListedRuns DEF Run
  <2>5. /\ ToStore(t) \in Run /\ ToStore(t).id = r0.id /\ ToStore(t).by = r0.by
        /\ ToStore(t).exports >= r0.exports
    BY <2>2, <2>4 DEF Run
  <2>6. r0.by <= computed
    BY <2>3, ListedRuns
  <2>7. \A r \in state.runs : r.by = r0.by => r.id = r0.id
    BY <1>2, <2>3 DEF Lists
  <2>8. QED
    BY <1>1, <1>4, <2>1, <2>5, <2>6, <2>7
<1>5. QED
  BY <1>1, <1>3, <1>4

\* What the writers' steps that change lists have in common.
LEMMA WritingStep ==
    ASSUME StoreInv, NEW t \in Tab, NEW c, pc[t] \notin {"idle", "waiting"},
           StoreTyped', TabsTyped',
           pc' \in {[pc EXCEPT ![t] = l] : l \in {"rasterAgain", "evictAndPersist", "end"}},
           pc'[t] = "evictAndPersist" => pc[t] = "persist",
           pc'[t] = "rasterAgain" => op[t].kind = "run" /\ op[t].by # 0 /\ op[t].id # 0,
           readable' \in [Tab -> BOOLEAN],
           \/ outcome' = outcome
           \/ \E how \in {"stored", "failed"} : outcome' = [outcome EXCEPT ![t] = how],
           \/ op' = op
           \/ \E drop \in SUBSET Ids : op' = [op EXCEPT ![t].drop = drop],
           UNCHANGED <<lock, queue, computed>>,
           \A f \in forgets' : f \in forgets \/ f.by = op[t].by,
           cache' = [cache EXCEPT ![t] = c], doc' \in {doc, c}, Sane(c, computed),
           \A r \in c.runs :
              \/ \E s \in Listed : s.id = r.id /\ s.by = r.by
              \/ op[t].kind = "run" /\ op[t].id = r.id /\ op[t].by = r.by
    PROVE  StoreInv'
<1> USE DEF StoreInv, Typed
<1>1. PICK l \in {"rasterAgain", "evictAndPersist", "end"} : pc' = [pc EXCEPT ![t] = l]
  OBVIOUS
<1>2. /\ \A u \in Tab : pc'[u] = IF u = t THEN l ELSE pc[u]
      /\ \A u \in Tab : op'[u].kind = op[u].kind /\ op'[u].id = op[u].id /\ op'[u].by = op[u].by
      /\ \A u \in Tab : u # t => op'[u] = op[u] /\ cache'[u] = cache[u]
      /\ op' \in [Tab -> [kind: {"none", "run", "export", "delete"}, id: {0} \cup Ids,
                          by: {0} \cup Computation, drop: SUBSET Ids]]
  <2>1. \A u \in Tab : pc'[u] = IF u = t THEN l ELSE pc[u]
    BY <1>1 DEF WritersTyped
  <2>2. \A u \in Tab : u # t => cache'[u] = cache[u]
    BY DEF Copies
  <2>3. CASE op' = op
    BY <2>1, <2>2, <2>3 DEF WritersTyped
  <2>4. CASE \E drop \in SUBSET Ids : op' = [op EXCEPT ![t].drop = drop]
    <3>1. PICK drop \in SUBSET Ids : op' = [op EXCEPT ![t].drop = drop]
      BY <2>4
    <3>2. op[t] \in [kind: {"none", "run", "export", "delete"}, id: {0} \cup Ids,
                      by: {0} \cup Computation, drop: SUBSET Ids]
      BY DEF WritersTyped
    <3> DEFINE new == [op[t] EXCEPT !.drop = drop]
    <3>3. /\ new \in [kind: {"none", "run", "export", "delete"}, id: {0} \cup Ids,
                      by: {0} \cup Computation, drop: SUBSET Ids]
          /\ new.kind = op[t].kind /\ new.id = op[t].id /\ new.by = op[t].by
      BY <3>2
    <3>4. op' = [op EXCEPT ![t] = new]
      BY <3>1
    <3> HIDE DEF new
    <3>5. /\ op' \in [Tab -> [kind: {"none", "run", "export", "delete"}, id: {0} \cup Ids,
                               by: {0} \cup Computation, drop: SUBSET Ids]]
          /\ \A u \in Tab : u # t => op'[u] = op[u]
          /\ op'[t].kind = op[t].kind /\ op'[t].id = op[t].id /\ op'[t].by = op[t].by
      BY <3>3, <3>4 DEF WritersTyped
    <3>6. QED
      BY <2>1, <2>2, <3>5
  <2>5. QED
    BY <2>3, <2>4
<1>3. WritersTyped'
  <2>1. outcome' \in [Tab -> {"none", "stored", "failed"}]
    BY DEF WritersTyped
  <2>2. pc' \in [Tab -> {"idle", "waiting", "sweep", "sweepDelete", "begin", "compute",
                       "raster", "evict", "rasterAgain", "saved", "persist",
                       "evictAndPersist", "end"}]
    BY <1>1 DEF WritersTyped
  <2>3. \A u \in Tab : lock' = u <=> pc'[u] \notin {"idle", "waiting"}
    BY <1>2 DEF WritersTyped
  <2>4. QED
    BY <1>2, <2>1, <2>2, <2>3 DEF WritersTyped
<1>4. OpsStand
  BY <1>2 DEF OpsStand
<1>5. Lists' /\ Copies'
  <2>1. computed' \in 0..MaxComputes /\ computed <= computed' /\ Sane(c, computed')
    BY StoreConstants DEF StoreTyped
  <2>2. QED
    BY <1>4, <2>1, ListsOfAStep DEF OpsStand
<1>6. Operations'
  <2>1. \A u \in Tab : u # t => Operation(u)'
    BY <1>2 DEF Operations, Operation
  <2>2. Operation(t)'
    BY <1>2 DEF Operations, Operation, Minted, Computing, Written
  <2>3. QED
    BY <2>1, <2>2 DEF Operations
<1>7. Queued'
  BY <1>2 DEF Queued
<1>8. QED
  BY <1>3, <1>4, <1>5, <1>6, <1>7, StoreStep

LEMMA ReadsTyped ==
    ASSUME StoreTyped, WritersTyped, NEW t \in Tab, NEW state, NEW accepted \in BOOLEAN,
           ReadsThen(t, state, accepted)
    PROVE  readable' \in [Tab -> BOOLEAN] /\ incidents' \in 0..MaxIncidents
<1>1. PICK heard \in BOOLEAN :
         /\ readable' = [readable EXCEPT ![t] = @ /\ heard]
         /\ incidents' = incidents + (IF heard THEN 0 ELSE 1) + (IF accepted THEN 0 ELSE 1)
         /\ incidents' <= MaxIncidents
  BY DEF ReadsThen
<1>2. readable' \in [Tab -> BOOLEAN]
  BY <1>1 DEF WritersTyped
<1>3. incidents \in Nat
  BY StoreConstants DEF StoreTyped
<1>4. incidents' \in Nat
  BY <1>1, <1>3
<1>5. QED
  BY <1>1, <1>2, <1>4, StoreConstants

LEMMA EvictForRasterKeeps == ASSUME StoreInv, NEW t \in Tab, EvictForRaster(t) PROVE StoreInv'
<1> USE DEF StoreInv, Typed
<1>1. PICK state, c :
         /\ state \in Seen(t) /\ c \in {state, Evicted(state, op[t].id)}
         /\ cache' = [cache EXCEPT ![t] = c] /\ doc' \in {doc, c}
         /\ c # state => Evictable(state, op[t].id) # {}
         /\ urls' = urls \/ Revokes(t, Evicted(state, op[t].id))
         /\ pc' \in {[pc EXCEPT ![t] = l] : l \in {"rasterAgain", "end"}}
         /\ \/ outcome' = outcome \/ outcome' = [outcome EXCEPT ![t] = "failed"]
         /\ \/ bytes' = bytes
            \/ \E dropped : bytes' = [i \in Ids |-> IF i \in dropped THEN 0 ELSE bytes[i]]
         /\ blind' \in BOOLEAN /\ incidents' \in 0..MaxIncidents
         /\ readable' \in [Tab -> BOOLEAN]
  <2>1. PICK state \in Seen(t) :
          LET evicted == Evicted(state, op[t].id)
          IN  \/ /\ Reads(t, state)
                 /\ Evictable(state, op[t].id) = {}
                 /\ Caches(t, state)
                 /\ Ends(t, "failed") /\ Uncommitted /\ UNCHANGED urls
              \/ /\ Reads(t, state)
                 /\ Evictable(state, op[t].id) # {}
                 /\ Caches(t, evicted) /\ Revokes(t, evicted)
                 /\ Commits(t, IdsOf(state.runs) \ IdsOf(evicted.runs), evicted)
                 /\ Goto(t, "rasterAgain") /\ UNCHANGED outcome
              \/ /\ ReadsThen(t, state, FALSE)
                 /\ Evictable(state, op[t].id) # {}
                 /\ Caches(t, state) /\ Revokes(t, evicted)
                 /\ Ends(t, "failed") /\ Uncommitted
    BY DEF EvictForRaster
  <2>2. readable' \in [Tab -> BOOLEAN] /\ incidents' \in 0..MaxIncidents
    BY <2>1, ReadsTyped DEF Reads
  <2>3. blind' \in BOOLEAN
    BY <2>1, <2>2 DEF Commits, Uncommitted, StoreTyped
  <2>4. QED
    BY <2>1, <2>2, <2>3 DEF Caches, Commits, Uncommitted, Goto, Ends
<1>2. /\ pc[t] = "evict" /\ op[t].kind = "run" /\ op[t].by # 0 /\ op[t].id # 0
      /\ UNCHANGED <<lock, queue, loaded, swept, op, forgets, computed, taken, unstored>>
  BY DEF EvictForRaster, Operations, Operation, Minted, Computing
<1>3. Sane(state, computed) /\ state.runs \subseteq Listed
  BY <1>1, SeenIsSane
<1>4. Sane(c, computed) /\ c.runs \subseteq state.runs
  BY <1>1, <1>3, EvictedIs
<1>5. StoreTyped'
  <2>1. bytes' \in [Ids -> {0} \cup Computation]
    BY <1>1 DEF StoreTyped
  <2>2. QED
    BY <1>1, <1>2, <2>1, StoreConstants DEF StoreTyped
<1>6. TabsTyped'
  BY <1>1, <1>2, URLsTyped DEF TabsTyped
<1>7. pc'[t] \in {"rasterAgain", "end"}
  BY <1>1 DEF WritersTyped
<1>8. \A r \in c.runs : \E s \in Listed : s.id = r.id /\ s.by = r.by
  BY <1>3, <1>4
<1>9. pc' \in {[pc EXCEPT ![t] = l] : l \in {"rasterAgain", "evictAndPersist", "end"}}
  BY <1>1
<1>10. \/ outcome' = outcome
       \/ \E how \in {"stored", "failed"} : outcome' = [outcome EXCEPT ![t] = how]
  BY <1>1
<1>11. QED
  BY <1>1, <1>2, <1>4, <1>5, <1>6, <1>7, <1>8, <1>9, <1>10, WritingStep

\* persistRun's first attempt.
LEMMA PersistRunKeeps == ASSUME StoreInv, NEW t \in Tab, PersistRun(t) PROVE StoreInv'
<1> USE DEF StoreInv, Typed
<1>1. PICK state \in Seen(t) :
         LET next == SetRun(state, ToStore(t))
             drop == IdsOf(state.runs) \ IdsOf(next.runs)
         IN  /\ Caches(t, next) /\ Revokes(t, next)
             /\ \/ /\ Reads(t, state)
                   /\ Commits(t, drop, next)
                   /\ Ends(t, "stored") /\ UNCHANGED <<forgets, unstored, op>>
                \/ /\ ReadsThen(t, state, FALSE)
                   /\ op' = [op EXCEPT ![t].drop = drop]
                   /\ Goto(t, "evictAndPersist")
                   /\ Uncommitted /\ UNCHANGED <<outcome, forgets, unstored>>
                \/ /\ ReadsThen(t, state, FALSE)
                   /\ Ends(t, "failed") /\ ForgetsIfRun(t)
                   /\ Uncommitted /\ UNCHANGED op
  BY DEF PersistRun
<1>2. pc[t] = "persist" /\ UNCHANGED <<lock, queue, loaded, swept, computed, taken>>
  BY DEF PersistRun
<1> DEFINE next == SetRun(state, ToStore(t))
           drop == IdsOf(state.runs) \ IdsOf(next.runs)
<1>3. Sane(state, computed) /\ state.runs \subseteq Listed
  BY SeenIsSane
<1>4. /\ ToStore(t) \in Run /\ ToStore(t).id = op[t].id
      /\ ToStore(t).id <= computed /\ ToStore(t).by <= computed
      /\ \A r \in state.runs : r.by = ToStore(t).by => r.id = ToStore(t).id
      /\ \/ op[t].kind = "run" /\ ToStore(t).by = op[t].by
         \/ \E s \in Listed : s.id = ToStore(t).id /\ s.by = ToStore(t).by
  BY <1>2, StoredRecord DEF Listed
<1>5. Sane(next, computed)
  BY <1>3, <1>4, SetRunIsSane DEF StoreTyped
<1>6. \A r \in next.runs :
         \/ \E s \in Listed : s.id = r.id /\ s.by = r.by
         \/ op[t].kind = "run" /\ op[t].id = r.id /\ op[t].by = r.by
  <2>1. next.runs \subseteq Merged(state, ToStore(t))
    BY SetRunIs
  <2>2. \A r \in next.runs : r \in Listed \/ r = ToStore(t)
    BY <1>3, <2>1 DEF Merged
  <2>3. QED
    BY <1>4, <2>2
<1>7. drop \in SUBSET Ids
  BY <1>3 DEF Sane, Document, Run, IdsOf
<1> HIDE DEF next, drop
<1>8. readable' \in [Tab -> BOOLEAN] /\ incidents' \in 0..MaxIncidents
  BY <1>1, ReadsTyped DEF Reads
<1>9. /\ cache' = [cache EXCEPT ![t] = next] /\ Revokes(t, next) /\ doc' \in {doc, next}
      /\ \/ bytes' = bytes \/ bytes' = [i \in Ids |-> IF i \in drop THEN 0 ELSE bytes[i]]
      /\ \/ blind' = blind \/ blind' = (blind \/ ~readable'[t])
      /\ \/ pc' = [pc EXCEPT ![t] = "evictAndPersist"] \/ pc' = [pc EXCEPT ![t] = "end"]
      /\ \/ outcome' = outcome \/ outcome' = [outcome EXCEPT ![t] = "stored"]
         \/ outcome' = [outcome EXCEPT ![t] = "failed"]
      /\ \/ op' = op \/ op' = [op EXCEPT ![t].drop = drop]
      /\ \/ UNCHANGED <<forgets, unstored>>
         \/ /\ op[t].kind = "run"
            /\ forgets' = forgets \cup {[tab |-> t, id |-> op[t].id, by |-> op[t].by]}
            /\ unstored' = unstored \cup {op[t].by}
  BY <1>1 DEF Caches, Commits, Uncommitted, Goto, Ends, ForgetsIfRun, Forgets, next, drop
<1>10. op[t].kind = "run" => op[t].id \in Ids /\ op[t].by \in Computation
  BY <1>2 DEF Operations, Operation, Minted, Written, WritersTyped
<1>11. StoreTyped'
  <2>1. bytes' \in [Ids -> {0} \cup Computation]
    BY <1>9 DEF StoreTyped
  <2>2. blind' \in BOOLEAN
    BY <1>9 DEF StoreTyped
  <2>3. forgets' \subseteq [tab: Tab, id: Ids, by: Computation] /\ unstored' \subseteq Computation
    BY <1>9, <1>10 DEF StoreTyped
  <2>4. QED
    BY <1>2, <1>8, <2>1, <2>2, <2>3 DEF StoreTyped
<1>12. TabsTyped'
  BY <1>2, <1>9, URLsTyped
<1>13. pc' \in {[pc EXCEPT ![t] = l] : l \in {"rasterAgain", "evictAndPersist", "end"}}
       /\ pc'[t] # "rasterAgain"
  BY <1>9 DEF WritersTyped
<1>14. \/ outcome' = outcome
       \/ \E how \in {"stored", "failed"} : outcome' = [outcome EXCEPT ![t] = how]
  BY <1>9
<1>15. \A f \in forgets' : f \in forgets \/ f.by = op[t].by
  BY <1>9
<1>16. \/ op' = op \/ \E d \in SUBSET Ids : op' = [op EXCEPT ![t].drop = d]
  BY <1>7, <1>9
<1>17. QED
  BY <1>2, <1>5, <1>6, <1>8, <1>9, <1>11, <1>12, <1>13, <1>14, <1>15, <1>16, WritingStep

\* The retry with an eviction.
LEMMA PersistEvictingKeeps == ASSUME StoreInv, NEW t \in Tab, PersistEvicting(t) PROVE StoreInv'
<1> USE DEF StoreInv, Typed
<1> DEFINE evicted == Evicted(cache[t], op[t].id)
           room == Evictable(cache[t], op[t].id)
<1>1. /\ pc[t] = "evictAndPersist"
      /\ UNCHANGED <<lock, queue, loaded, swept, op, computed, taken, readable>>
      /\ urls' = urls \/ Revokes(t, evicted)
      /\ \/ cache' = cache /\ doc' = doc
         \/ /\ room # {} /\ cache' = [cache EXCEPT ![t] = evicted] /\ doc' = evicted
         \/ cache' = [cache EXCEPT ![t] = cache[t]] /\ doc' = doc
      /\ bytes' \in [Ids -> {0} \cup Computation]
      /\ blind' \in BOOLEAN
      /\ \/ incidents' = incidents
         \/ incidents < MaxIncidents /\ incidents' = incidents + 1
      /\ pc' = [pc EXCEPT ![t] = "end"]
      /\ \/ outcome' = [outcome EXCEPT ![t] = "stored"]
         \/ outcome' = [outcome EXCEPT ![t] = "failed"]
      /\ \/ UNCHANGED <<forgets, unstored>>
         \/ /\ op[t].kind = "run"
            /\ forgets' = forgets \cup {[tab |-> t, id |-> op[t].id, by |-> op[t].by]}
            /\ unstored' = unstored \cup {op[t].by}
  <2> USE DEF Caches, Commits, Uncommitted, Ends, Goto, ForgetsIfRun, Forgets
  <2> HIDE DEF evicted, room
  <2>1. pc[t] = "evictAndPersist" /\ UNCHANGED <<lock, queue, loaded, swept, op, computed, taken>>
    BY DEF PersistEvicting
  <2>2. CASE /\ room = {} /\ Ends(t, "failed") /\ ForgetsIfRun(t)
             /\ Uncommitted /\ UNCHANGED <<cache, urls, incidents, readable>>
    <3>1. outcome' = [outcome EXCEPT ![t] = "failed"]
      BY <2>2
    <3>2. \/ UNCHANGED <<forgets, unstored>>
          \/ /\ op[t].kind = "run"
             /\ forgets' = forgets \cup {[tab |-> t, id |-> op[t].id, by |-> op[t].by]}
             /\ unstored' = unstored \cup {op[t].by}
      BY <2>2
    <3>3. UNCHANGED <<doc, bytes, blind, cache, urls, incidents, readable>>
          /\ pc' = [pc EXCEPT ![t] = "end"]
      BY <2>2
    <3>4. blind' \in BOOLEAN /\ bytes' \in [Ids -> {0} \cup Computation]
      BY <3>3 DEF StoreTyped
    <3>5. QED
      BY <2>1, <3>1, <3>2, <3>3, <3>4
  <2>3. CASE /\ room # {} /\ Caches(t, evicted) /\ Revokes(t, evicted) /\ UNCHANGED readable
             /\ Commits(t, op[t].drop \cup {Oldest(room).id}, evicted)
             /\ Ends(t, "stored") /\ Smoothly /\ UNCHANGED <<forgets, unstored>>
    <3>1. outcome' = [outcome EXCEPT ![t] = "stored"]
      BY <2>3
    <3>2. bytes' \in [Ids -> {0} \cup Computation]
      BY <2>3 DEF StoreTyped
    <3>3. blind' \in BOOLEAN /\ pc' = [pc EXCEPT ![t] = "end"]
      BY <2>3
    <3>4. /\ cache' = [cache EXCEPT ![t] = evicted] /\ doc' = evicted /\ room # {}
          /\ Revokes(t, evicted) /\ UNCHANGED <<readable, incidents, forgets, unstored>>
      BY <2>3 DEF Smoothly
    <3>5. QED
      BY <2>1, <3>1, <3>2, <3>3, <3>4
  <2>4. CASE /\ room # {} /\ Incident /\ Caches(t, cache[t]) /\ Revokes(t, evicted)
             /\ Ends(t, "failed") /\ ForgetsIfRun(t) /\ Uncommitted /\ UNCHANGED readable
    <3>1. blind' \in BOOLEAN /\ bytes' \in [Ids -> {0} \cup Computation]
      BY <2>4 DEF StoreTyped
    <3>2. QED
      BY <2>1, <2>4, <3>1 DEF Incident
  <2>5. QED
    BY <2>2, <2>3, <2>4 DEF PersistEvicting, evicted, room
<1>2. Sane(cache[t], computed) /\ cache[t].runs \subseteq Listed
  BY DEF Lists, Listed
<1>3. cache = [cache EXCEPT ![t] = cache[t]]
  BY DEF Copies
<1>4. PICK c : /\ c \in {cache[t], evicted} /\ cache' = [cache EXCEPT ![t] = c] /\ doc' \in {doc, c}
               /\ c = cache[t] \/ room # {}
  <2>1. CASE cache' = cache /\ doc' = doc
    BY <1>3, <2>1
  <2>2. CASE cache' = [cache EXCEPT ![t] = evicted] /\ doc' = evicted /\ room # {}
    BY <2>2
  <2>3. CASE cache' = [cache EXCEPT ![t] = cache[t]] /\ doc' = doc
    BY <2>3
  <2>4. QED
    BY <1>1, <2>1, <2>2, <2>3
<1>5. Sane(c, computed) /\ c.runs \subseteq cache[t].runs
  BY <1>2, <1>4, EvictedIs
<1>6. op[t].kind = "run" => op[t].id \in Ids /\ op[t].by \in Computation
  BY <1>1 DEF Operations, Operation, Minted, Written, WritersTyped
<1>7. StoreTyped'
  <2>1. bytes' \in [Ids -> {0} \cup Computation]
    BY <1>1 DEF StoreTyped
  <2>2. blind' \in BOOLEAN /\ incidents' \in 0..MaxIncidents
    <3>1. blind' \in BOOLEAN
      BY <1>1
    <3>2. incidents \in 0..MaxIncidents /\ MaxIncidents \in Nat
      BY StoreConstants DEF StoreTyped
    <3>3. incidents' \in 0..MaxIncidents
      BY <1>1, <3>2
    <3>4. QED
      BY <3>1, <3>3
  <2>3. forgets' \subseteq [tab: Tab, id: Ids, by: Computation] /\ unstored' \subseteq Computation
    BY <1>1, <1>6 DEF StoreTyped
  <2>4. QED
    BY <1>1, <2>1, <2>2, <2>3 DEF StoreTyped
<1>8. TabsTyped'
  BY <1>1, URLsTyped DEF TabsTyped
<1>9. pc' \in {[pc EXCEPT ![t] = l] : l \in {"rasterAgain", "evictAndPersist", "end"}}
       /\ pc'[t] = "end"
  BY <1>1 DEF WritersTyped
<1>10. \A f \in forgets' : f \in forgets \/ f.by = op[t].by
  BY <1>1
<1>11. \A r \in c.runs : \E s \in Listed : s.id = r.id /\ s.by = r.by
  BY <1>2, <1>5
<1>12. readable' \in [Tab -> BOOLEAN]
  BY <1>1 DEF WritersTyped
<1>13. \E how \in {"stored", "failed"} : outcome' = [outcome EXCEPT ![t] = how]
  BY <1>1
<1>14. QED
  BY <1>1, <1>4, <1>5, <1>7, <1>8, <1>9, <1>10, <1>11, <1>12, <1>13, WritingStep

\* A run leaves the list.
LEMMA DeleteRunKeeps == ASSUME StoreInv, NEW t \in Tab, DeleteRun(t) PROVE StoreInv'
<1> USE DEF StoreInv, Typed
<1>1. PICK state \in Seen(t) :
         LET without == [state EXCEPT !.runs = {r \in @ : r.id # op[t].id}]
         IN  \/ /\ Reads(t, state)
                /\ op[t].id \notin IdsOf(state.runs)
                /\ Caches(t, state)
                /\ Ends(t, "failed") /\ Uncommitted /\ UNCHANGED urls
             \/ /\ op[t].id \in IdsOf(state.runs)
                /\ Caches(t, without) /\ Revokes(t, without)
                /\ \/ /\ Reads(t, state)
                      /\ Commits(t, {op[t].id}, without)
                      /\ Ends(t, "stored")
                   \/ /\ ReadsThen(t, state, FALSE)
                      /\ Ends(t, "failed") /\ Uncommitted
  BY DEF DeleteRun
<1>2. pc[t] = "begin" /\ UNCHANGED <<lock, queue, loaded, swept, op, forgets, computed, taken, unstored>>
  BY DEF DeleteRun
<1> DEFINE without == [state EXCEPT !.runs = {r \in @ : r.id # op[t].id}]
<1>3. Sane(state, computed) /\ state.runs \subseteq Listed
  BY SeenIsSane
<1>4. Sane(without, computed) /\ without.runs \subseteq state.runs
  <2>1. state \in [runs : SUBSET Run, mark : 0..MaxComputes]
    BY <1>3 DEF Sane, Document
  <2>2. without = [state EXCEPT !.runs = {r \in state.runs : r.id # op[t].id}]
    BY <2>1
  <2>3. without.runs = {r \in state.runs : r.id # op[t].id}
    BY <2>1
  <2>4. QED
    BY <1>3, <2>2, <2>3, FewerIsSane
<1> HIDE DEF without
<1>5. readable' \in [Tab -> BOOLEAN] /\ incidents' \in 0..MaxIncidents
  BY <1>1, ReadsTyped DEF Reads
<1>6. PICK c : c \in {state, without} /\ cache' = [cache EXCEPT ![t] = c] /\ doc' \in {doc, c}
  BY <1>1 DEF Caches, Commits, Uncommitted, without
<1>7. /\ urls' = urls \/ Revokes(t, without)
      /\ \/ bytes' = bytes \/ bytes' = [i \in Ids |-> IF i \in {op[t].id} THEN 0 ELSE bytes[i]]
      /\ \/ blind' = blind \/ blind' = (blind \/ ~readable'[t])
      /\ pc' = [pc EXCEPT ![t] = "end"]
      /\ \E how \in {"stored", "failed"} : outcome' = [outcome EXCEPT ![t] = how]
  BY <1>1 DEF Commits, Uncommitted, Ends, Goto, without
<1>8. StoreTyped'
  <2>1. bytes' \in [Ids -> {0} \cup Computation]
    BY <1>7 DEF StoreTyped
  <2>2. blind' \in BOOLEAN
    BY <1>7 DEF StoreTyped
  <2>3. QED
    BY <1>2, <1>5, <2>1, <2>2 DEF StoreTyped
<1>9. TabsTyped'
  BY <1>2, <1>7, URLsTyped DEF TabsTyped
<1>10. pc' \in {[pc EXCEPT ![t] = l] : l \in {"rasterAgain", "evictAndPersist", "end"}}
       /\ pc'[t] = "end"
  BY <1>7 DEF WritersTyped
<1>11. Sane(c, computed) /\ \A r \in c.runs : \E s \in Listed : s.id = r.id /\ s.by = r.by
  BY <1>3, <1>4, <1>6
<1>12. QED
  BY <1>2, <1>5, <1>6, <1>7, <1>8, <1>9, <1>10, <1>11, WritingStep

\* A delete nobody waited for lands, or is refused.
LEMMA ForgetLandsKeeps == ASSUME StoreInv, NEW f \in forgets, ForgetLands(f) PROVE StoreInv'
<1> USE StoreConstants DEF StoreInv, Typed
<1>1. /\ forgets' = forgets \ {f}
      /\ UNCHANGED <<doc, lock, queue, cache, loaded, swept, urls, pc, op, readable, outcome,
                     computed, blind, unstored>>
  BY DEF ForgetLands, tabVars, writerVars
<1>2. StoreTyped'
  BY DEF StoreTyped, ForgetLands, Smoothly, Incident
<1>3. TabsTyped' /\ WritersTyped'
  BY <1>1 DEF TabsTyped, WritersTyped
<1>4. Lists' /\ Copies'
  BY <1>1, ListsUntouched
<1>5. Operations' /\ Queued' /\ Forgotten'
  BY <1>1 DEF Operations, Operation, Queued, Forgotten
<1>6. Budgeted'
  BY <1>1 DEF Budgeted, Pending
<1>7. QED
  BY <1>2, <1>3, <1>4, <1>5, <1>6

LEMMA StoreInitially == Init => StoreInv
<1> SUFFICES ASSUME Init PROVE StoreInv
  OBVIOUS
<1> USE StoreConstants DEF Init
<1>1. StoreTyped /\ TabsTyped
  <2>1. bytes \in [Ids -> {0} \cup Computation] /\ computed \in 0..MaxComputes
        /\ incidents \in 0..MaxIncidents
    OBVIOUS
  <2>2. forgets \subseteq [tab: Tab, id: Ids, by: Computation] /\ blind \in BOOLEAN
        /\ taken \cup unstored \subseteq Computation
    OBVIOUS
  <2>3. TabsTyped
    BY DEF TabsTyped
  <2>4. QED
    BY <2>1, <2>2, <2>3 DEF StoreTyped
<1>2. WritersTyped
  BY DEF WritersTyped, NoOp
<1>3. Copies /\ Lists
  <2>1. Sane(InitialState, computed)
    BY EmptyIsSane
  <2>2. Listed = {}
    BY DEF Listed, InitialState
  <2>3. Lists
    BY <2>1, <2>2 DEF Lists
  <2>4. Copies
    BY <2>1 DEF Copies, Sane
  <2>5. QED
    BY <2>3, <2>4
<1>4. Operations /\ Queued /\ Forgotten
  BY DEF Operations, Operation, NoOp, Queued, Forgotten, Computing, Minted, Written
<1>5. Budgeted
  <2>1. Pending = {}
    BY DEF Pending, NoOp
  <2>2. QED
    BY <2>1, FS_EmptySet DEF Budgeted
<1>6. QED
  BY <1>1, <1>2, <1>3, <1>4, <1>5 DEF StoreInv, Typed

LEMMA StoreKept == StoreInv /\ [Next]_storageVars => StoreInv'
<1> SUFFICES ASSUME StoreInv, [Next]_storageVars PROVE StoreInv'
  OBVIOUS
<1>1. ASSUME NEW t \in Tab, Load(t) \/ ViewArtifact(t) \/ Request(t) \/ Acquire(t) \/ Close(t)
      PROVE  StoreInv'
  BY <1>1, LoadKeeps, ViewArtifactKeeps, RequestKeeps, AcquireKeeps, CloseKeeps
<1>2. ASSUME NEW t \in Tab, Writes(t) PROVE StoreInv'
  BY <1>2, SweepReadKeeps, SweepDeleteKeeps, MintKeeps, ComputeKeeps, SaveRasterKeeps,
     EvictForRasterKeeps, SaveRasterAgainKeeps, CheckAbandonedKeeps, FindForExportKeeps,
     PersistRunKeeps, PersistEvictingKeeps, DeleteRunKeeps, ReleaseKeeps DEF Writes
<1>3. ASSUME NEW f \in forgets, ForgetLands(f) PROVE StoreInv'
  BY <1>3, ForgetLandsKeeps
<1>4. CASE UNCHANGED storageVars
  BY <1>4 DEF storageVars, StoreInv, Typed, StoreTyped, TabsTyped, WritersTyped, Copies, Lists,
              Listed, Operations, Operation, Queued, Budgeted, Pending, Forgotten
<1>5. QED
  BY <1>1, <1>2, <1>3, <1>4 DEF Next

LEMMA StoreIsKept == Spec => []StoreInv
<1>1. QED
  BY StoreInitially, StoreKept, PTL DEF Spec

\* Type correctness of the run store, whatever the tabs, the cap and the bounds: the cap
\* holds for lists read, merged, evicted from and written blind, ids are never minted
\* past the mark, and only the holder of the lock is past the queue (TypeOK).
THEOREM StoreTypeCorrect == Spec => []TypeOK
<1>1. QED
  BY StoreIsKept, TypeFromStore, PTL
-----------------------------------------------------------------------------
(* What a writer knows.                                                    *)

\* Storing a record in the document.
LEMMA StoringFollows ==
    ASSUME StoreInv, NEW t \in Tab, pc[t] = "persist", cache[t] = doc,
           op[t].kind = "run" => op[t].id > doc.mark,
           NEW next, next = SetRun(doc, ToStore(t))
    PROVE  Follows(next, IdsOf(doc.runs) \ IdsOf(next.runs), op[t], doc)
<1> USE DEF StoreInv
<1> DEFINE rec == ToStore(t)
           all == Merged(doc, rec)
<1>1. /\ rec \in Run /\ rec.id = op[t].id
      /\ \A r \in doc.runs : r.by = rec.by => r.id = rec.id
      /\ \/ op[t].kind = "run" /\ rec.by = op[t].by
         \/ /\ op[t].kind = "export"
            /\ \E s \in doc.runs : s.id = op[t].id /\ s.by = rec.by /\ rec.exports >= s.exports
  BY StoredRecord DEF Seen
<1> HIDE DEF rec
<1>2. Sane(doc, computed)
  BY DEF Lists
<1>3. /\ all \in SUBSET Run
      /\ \A r, s \in all : r.id = s.id \/ r.by = s.by => r = s
      /\ IsFiniteSet(doc.runs) /\ Cardinality(doc.runs) \in Nat
      /\ rec.id \in IdsOf(doc.runs) => Cardinality(all) <= MaxStored
      /\ Cardinality(all) <= Cardinality(doc.runs) + 1
      /\ Cardinality(all) \in Nat
  BY <1>1, <1>2, MergedIs
<1>4. /\ next.runs = Newest(MaxStored, all) /\ next.runs \subseteq all
      /\ next.mark = IF rec.id > doc.mark THEN rec.id ELSE doc.mark
  BY SetRunIs DEF rec
<1>5. doc.runs \in SUBSET Run /\ doc.mark \in Nat /\ rec.id \in Nat
      /\ (\A r \in doc.runs : r.id <= doc.mark) /\ Cardinality(doc.runs) <= MaxStored
  BY <1>1, <1>2, StoreConstants DEF Sane, Document, Run, Ids
<1>6. next.mark >= doc.mark /\ next.mark >= op[t].id
  BY <1>1, <1>4, <1>5
<1>7. \A s \in next.runs :
         \/ op[t].kind = "run" /\ s.id = op[t].id /\ s.by = op[t].by
         \/ \E r \in doc.runs : r.id = s.id /\ r.by = s.by
  BY <1>1, <1>4 DEF Merged
<1>8. \A s \in next.runs : s.id \notin IdsOf(doc.runs) \ IdsOf(next.runs)
  BY DEF IdsOf
<1>9. ASSUME NEW r \in doc.runs
      PROVE  \/ \E s \in next.runs : s.id = r.id /\ s.by = r.by /\ s.exports >= r.exports
             \/ /\ r.id \notin IdsOf(next.runs)
                /\ \A s \in next.runs : s.by > r.by \/ s.id = op[t].id
                /\ Cardinality(doc.runs) = MaxStored /\ r = Oldest(doc.runs)
  <2>1. r.exports \in Nat
    BY <1>5, StoreConstants DEF Run
  <2>2. CASE op[t].kind = "export"
    <3>1. PICK s \in doc.runs : s.id = op[t].id /\ s.by = rec.by /\ rec.exports >= s.exports
      BY <1>1, <2>2
    <3>2. next.runs = all
      BY <1>1, <1>3, <1>4, <3>1, NewestKeepsAll, StoreConstants DEF IdsOf
    <3>3. CASE r.id = rec.id
      <4>1. r = s
        BY <1>1, <1>2, <3>1, <3>3 DEF Sane
      <4>2. QED
        BY <1>1, <3>1, <3>2, <4>1 DEF Merged
    <3>4. CASE r.id # rec.id
      BY <2>1, <3>2, <3>4 DEF Merged
    <3>5. QED
      BY <3>3, <3>4
  <2>3. CASE op[t].kind = "run"
    <3>1. r \in all
      BY <1>1, <1>5, <2>3 DEF Merged
    <3>2. CASE r \in next.runs
      BY <2>1, <3>2
    <3>3. CASE r \notin next.runs
      <4>1. (\A s \in next.runs : s.by > r.by) /\ Cardinality(Later(all, r)) >= MaxStored
        BY <1>3, <1>4, <3>1, <3>3, NewestDropsTheEarliest, StoreConstants
      <4>2. r.id \notin IdsOf(next.runs)
        BY <1>3, <1>4, <3>1, <3>3 DEF IdsOf
      <4>3. /\ IsFiniteSet(all) /\ Cardinality(Later(all, r)) \in Nat
            /\ Cardinality(Later(all, r)) < Cardinality(all)
        BY <1>3, <3>1, LaterIsCounted
      <4>4. Cardinality(doc.runs) = MaxStored /\ Cardinality(Later(all, r)) = Cardinality(all) - 1
        BY <1>3, <1>5, <4>1, <4>3, StoreConstants
      <4>5. all \ {r} = Later(all, r)
        <5>1. IsFiniteSet(all \ {r}) /\ Cardinality(all \ {r}) = Cardinality(all) - 1
          BY <3>1, <4>3, FS_RemoveElement
        <5>2. Later(all, r) \in SUBSET (all \ {r})
          BY <1>3, <3>1, StoreConstants DEF Later, Run, Computation
        <5>3. QED
          BY <4>4, <5>1, <5>2, FS_Subset
      <4>6. r = Oldest(doc.runs)
        <5>1. \A s \in doc.runs : s = r \/ s.by > r.by
          BY <1>1, <1>5, <2>3, <4>5 DEF Merged, Later
        <5>2. Oldest(doc.runs) \in doc.runs /\ Oldest(doc.runs).by <= r.by
          BY <1>5, OldestIs
        <5>3. r.by \in Nat /\ Oldest(doc.runs).by \in Nat
          BY <1>5, <5>2, StoreConstants DEF Run, Computation
        <5>4. QED
          BY <5>1, <5>2, <5>3
      <4>7. QED
        BY <4>1, <4>2, <4>4, <4>6
    <3>4. QED
      BY <3>2, <3>3
  <2>4. QED
    BY <1>1, <2>2, <2>3
<1>10. QED
  BY <1>6, <1>7, <1>8, <1>9 DEF Follows

\* A tab that nothing happens to knows what it knew.
LEMMA WriterStands ==
    ASSUME NEW t \in Tab, Writer(t), UNCHANGED <<doc, blind>>,
           cache'[t] = cache[t], pc'[t] = pc[t], op'[t] = op[t],
           readable'[t] = readable[t], outcome'[t] = outcome[t]
    PROVE  Writer(t)'
  BY DEF Writer

\* Whoever does not hold the lock knows nothing.
LEMMA HolderKnows ==
    ASSUME StoreInv', NEW t \in Tab, lock' = t, Writer(t)'
    PROVE  Writers'
<1>1. ASSUME NEW u \in Tab, u # t PROVE pc'[u] \in {"idle", "waiting"}
  BY <1>1 DEF StoreInv, Typed, WritersTyped
<1>2. ASSUME NEW u \in Tab, u # t PROVE Writer(u)'
  BY <1>1, <1>2 DEF Writer, Minted, Computing, Written
<1>3. QED
  BY <1>2 DEF Writers

\* A read that is answered, all of an operation's reads, hands over the document.
LEMMA ReadsGive ==
    ASSUME StoreInv, NEW t \in Tab, NEW state, NEW accepted, ReadsThen(t, state, accepted)
    PROVE  (readable'[t] => readable[t] /\ state = doc) /\ state \in Seen(t)
<1>1. PICK heard \in BOOLEAN : /\ state = IF heard THEN doc ELSE cache[t]
                               /\ readable' = [readable EXCEPT ![t] = @ /\ heard]
  BY DEF ReadsThen
<1>2. readable \in [Tab -> BOOLEAN]
  BY DEF StoreInv, Typed, WritersTyped
<1>3. readable'[t] => readable[t] /\ heard
  BY <1>1, <1>2
<1>4. QED
  BY <1>1, <1>3 DEF Seen

\* Steps of a tab that is not past the queue, or leaves the lock.
LEMMA OutsidersKnow ==
    ASSUME StoreInv, Writers, NEW t \in Tab,
           Load(t) \/ ViewArtifact(t) \/ Request(t) \/ Acquire(t) \/ Release(t) \/ Close(t)
    PROVE  Writers'
<1> USE DEF StoreInv, Typed
<1>1. UNCHANGED <<doc, blind>>
  BY DEF Load, ViewArtifact, Request, Acquire, Release, Close, storeVars, history
<1>2. ASSUME NEW u \in Tab, u # t PROVE Writer(u)'
  <2>1. /\ cache'[u] = cache[u] /\ pc'[u] = pc[u] /\ op'[u] = op[u]
        /\ readable'[u] = readable[u] /\ outcome'[u] = outcome[u]
    <3>1. CASE Load(t)
      BY <1>2, <3>1 DEF Load, Caches, writerVars, Copies
    <3>2. CASE ViewArtifact(t)
      BY <3>2 DEF ViewArtifact, writerVars
    <3>3. CASE Request(t)
      BY <1>2, <3>3 DEF Request, Goto, tabVars, WritersTyped
    <3>4. CASE Acquire(t)
      BY <1>2, <3>4 DEF Acquire, Goto, tabVars, WritersTyped
    <3>5. CASE Release(t)
      BY <1>2, <3>5 DEF Release, Goto, tabVars, WritersTyped
    <3>6. CASE Close(t)
      BY <1>2, <3>6 DEF Close, Caches, Goto, WritersTyped, Copies
    <3>7. QED
      BY <3>1, <3>2, <3>3, <3>4, <3>5, <3>6
  <2>2. QED
    BY <1>1, <1>2, <2>1, WriterStands DEF Writers
<1>3. CASE Load(t) \/ Request(t) \/ Acquire(t) \/ Release(t) \/ Close(t)
  <2>1. pc'[t] \in {"idle", "waiting", "sweep", "begin"}
    BY <1>3 DEF Load, Request, Acquire, Release, Close, Goto, writerVars, WritersTyped
  <2>2. Writer(t)'
    BY <2>1 DEF Writer, Minted, Computing, Written
  <2>3. QED
    BY <1>2, <2>2 DEF Writers
<1>4. CASE ViewArtifact(t)
  <2>1. Writer(t)'
    BY <1>1, <1>4, WriterStands DEF ViewArtifact, writerVars, Writers
  <2>2. QED
    BY <1>2, <2>1 DEF Writers
<1>5. QED
  BY <1>3, <1>4

LEMMA ForgetLandsKnows == ASSUME Writers, NEW f \in forgets, ForgetLands(f) PROVE Writers'
<1>1. UNCHANGED <<doc, blind, cache, pc, op, readable, outcome>>
  BY DEF ForgetLands, tabVars, writerVars
<1>2. QED
  BY <1>1, WriterStands DEF Writers

\* A writer's step leaves it the lock, and says what it knows of what it was.
LEMMA WritersStep ==
    ASSUME StoreInv, StoreInv', NEW t \in Tab, pc[t] \notin {"idle", "waiting"},
           lock' = lock, Writer(t)'
    PROVE  Writers'
<1>1. lock' = t
  BY DEF StoreInv, Typed, WritersTyped
<1>2. QED
  BY <1>1, HolderKnows

LEMMA SweepsKnow ==
    ASSUME StoreInv, StoreInv', Writers, NEW t \in Tab, SweepRead(t) \/ SweepDelete(t)
    PROVE  Writers'
<1> USE DEF StoreInv, Typed
<1>1. CASE SweepRead(t)
  <2>1. PICK state \in Seen(t) : Reads(t, state) /\ Caches(t, state)
    BY <1>1 DEF SweepRead
  <2>2. /\ pc[t] = "sweep" /\ lock' = lock /\ doc' = doc
        /\ pc' = [pc EXCEPT ![t] = IF readable'[t] THEN "sweepDelete" ELSE "begin"]
    BY <1>1 DEF SweepRead, Goto, storeVars
  <2>3. readable'[t] => cache'[t] = doc
    BY <2>1, ReadsGive DEF Reads, Caches, Copies
  <2>4. pc'[t] = IF readable'[t] THEN "sweepDelete" ELSE "begin"
    BY <2>2 DEF WritersTyped
  <2>5. Writer(t)'
    BY <2>2, <2>3, <2>4 DEF Writer, Minted, Computing, Written
  <2>6. QED
    BY <2>2, <2>5, WritersStep
<1>2. CASE SweepDelete(t)
  <2>1. pc[t] = "sweepDelete" /\ lock' = lock /\ pc'[t] = "begin"
    BY <1>2 DEF SweepDelete, Goto, WritersTyped
  <2>2. Writer(t)'
    BY <2>1 DEF Writer, Minted, Computing, Written
  <2>3. QED
    BY <2>1, <2>2, WritersStep
<1>3. QED
  BY <1>1, <1>2

LEMMA MintKnows == ASSUME StoreInv, StoreInv', Writers, NEW t \in Tab, Mint(t) PROVE Writers'
<1> USE DEF StoreInv, Typed
<1>1. PICK state \in Seen(t) :
         /\ Reads(t, state) /\ Caches(t, state)
         /\ op' = [op EXCEPT ![t].id = NextId(state), ![t].by = computed + 1]
  BY DEF Mint
<1>2. pc[t] = "begin" /\ pc'[t] = "compute" /\ UNCHANGED <<lock, doc>>
  BY DEF Mint, Goto, storeVars, WritersTyped
<1>3. readable'[t] => cache'[t] = doc /\ state = doc
  BY <1>1, ReadsGive DEF Reads, Caches, Copies
<1>4. op'[t].id = NextId(state)
  BY <1>1 DEF WritersTyped
<1>5. NextId(doc) > doc.mark
  BY StoreConstants DEF Lists, Sane, Document, NextId
<1>6. Writer(t)'
  BY <1>2, <1>3, <1>4, <1>5 DEF Writer, Minted, Computing, Written
<1>7. QED
  BY <1>2, <1>6, WritersStep

\* Steps that change neither the document nor the copy.
LEMMA RasterStepsKnow ==
    ASSUME StoreInv, StoreInv', Writers, NEW t \in Tab,
           Compute(t) \/ SaveRaster(t) \/ SaveRasterAgain(t) \/ CheckAbandoned(t)
    PROVE  Writers'
<1> USE DEF StoreInv, Typed
<1>1. /\ UNCHANGED <<lock, doc, cache, readable, op>>
      /\ pc[t] \in {"compute", "raster", "rasterAgain", "saved"}
      /\ pc'[t] \in {"raster", "evict", "saved", "persist", "end"}
      /\ \/ blind' = blind
         \/ pc'[t] = "saved" /\ blind' = (blind \/ ~readable[t])
      /\ pc'[t] \in {"saved", "persist"} =>
            pc[t] = "saved" \/ blind' = (blind \/ ~readable[t])
  BY DEF Compute, SaveRaster, SaveRasterAgain, CheckAbandoned, WritesRaster, Ends, Goto,
         tabVars, storeVars, history, WritersTyped
<1>2. Writer(t)
  BY DEF Writers
<1>3. ~blind' => ~blind
  BY <1>1
<1>4. readable'[t] => cache'[t] = doc'
  BY <1>1, <1>2 DEF Writer, Computing
<1>5. \A r \in doc.runs : r.id \in IdsOf(doc.runs)
  BY DEF IdsOf
<1>6. op[t].kind = "run" /\ readable[t] => op[t].id > doc.mark
  BY <1>1, <1>2 DEF Writer, Minted, Computing, Written
<1>7. ~blind' /\ pc'[t] \in {"saved", "persist"} /\ op[t].kind = "run" => readable[t]
  BY <1>1, <1>2, <1>3 DEF Writer
<1>8. Writer(t)'
  BY <1>1, <1>4, <1>5, <1>6, <1>7 DEF Writer, Written
<1>9. QED
  BY <1>1, <1>8, WritersStep
LEMMA FindForExportKnows ==
    ASSUME StoreInv, StoreInv', Writers, NEW t \in Tab, FindForExport(t) PROVE Writers'
<1> USE DEF StoreInv, Typed
<1>1. PICK state \in Seen(t) :
         /\ Reads(t, state) /\ Caches(t, state)
         /\ \/ pc' = [pc EXCEPT ![t] = "persist"]
            \/ pc' = [pc EXCEPT ![t] = "end"]
  BY DEF FindForExport, Goto, Ends
<1>2. pc[t] = "begin" /\ op[t].kind = "export" /\ UNCHANGED <<lock, doc, op>>
  BY DEF FindForExport, storeVars
<1>3. readable'[t] => cache'[t] = doc
  BY <1>1, ReadsGive DEF Reads, Caches, Copies
<1>4. pc'[t] \in {"persist", "end"}
  BY <1>1 DEF WritersTyped
<1>5. \A r \in doc.runs : r.id \in IdsOf(doc.runs)
  BY DEF IdsOf
<1>6. Writer(t)'
  BY <1>2, <1>3, <1>4, <1>5 DEF Writer
<1>7. QED
  BY <1>2, <1>6, WritersStep

LEMMA EvictForRasterKnows ==
    ASSUME StoreInv, StoreInv', Writers, NEW t \in Tab, EvictForRaster(t) PROVE Writers'
<1> USE DEF StoreInv, Typed
<1>1. PICK state \in Seen(t), accepted \in BOOLEAN :
         LET evicted == Evicted(state, op[t].id)
         IN  /\ ReadsThen(t, state, accepted)
             /\ \/ /\ Caches(t, state) /\ doc' = doc
                   /\ pc' = [pc EXCEPT ![t] = "end"]
                \/ /\ Evictable(state, op[t].id) # {}
                   /\ Caches(t, evicted) /\ doc' = evicted
                   /\ pc' = [pc EXCEPT ![t] = "rasterAgain"]
  BY DEF EvictForRaster, Reads, Uncommitted, Commits, Goto, Ends
<1>2. pc[t] = "evict" /\ UNCHANGED <<lock, op>>
  BY DEF EvictForRaster
<1>3. readable'[t] => readable[t] /\ state = doc
  BY <1>1, ReadsGive
<1>4. readable[t] /\ op[t].kind = "run" => op[t].id > doc.mark
  BY <1>2 DEF Writers, Writer, Minted, Computing
<1>5. CASE Caches(t, state) /\ doc' = doc /\ pc' = [pc EXCEPT ![t] = "end"]
  <2>1. pc'[t] = "end" /\ cache'[t] = state
    BY <1>5 DEF WritersTyped, Caches, Copies
  <2>2. \A r \in doc.runs : r.id \in IdsOf(doc.runs)
    BY DEF IdsOf
  <2>3. Writer(t)'
    BY <1>2, <1>3, <1>5, <2>1, <2>2 DEF Writer, Minted, Computing, Written
  <2>4. QED
    BY <1>2, <2>3, WritersStep
<1>6. CASE /\ Evictable(state, op[t].id) # {} /\ Caches(t, Evicted(state, op[t].id))
           /\ doc' = Evicted(state, op[t].id) /\ pc' = [pc EXCEPT ![t] = "rasterAgain"]
  <2>1. pc'[t] = "rasterAgain" /\ cache'[t] = doc'
    BY <1>6 DEF WritersTyped, Caches, Copies
  <2>2. doc'.mark = state.mark
    BY <1>6, SeenIsSane, EvictedIs
  <2>3. Writer(t)'
    BY <1>2, <1>3, <1>4, <2>1, <2>2 DEF Writer, Minted, Computing, Written
  <2>4. QED
    BY <1>2, <2>3, WritersStep
<1>7. QED
  BY <1>1, <1>5, <1>6

LEMMA PersistRunKnows ==
    ASSUME StoreInv, StoreInv', Writers, NEW t \in Tab, PersistRun(t) PROVE Writers'
<1> USE DEF StoreInv, Typed
<1>1. PICK state \in Seen(t), accepted \in BOOLEAN :
         LET next == SetRun(state, ToStore(t))
             drop == IdsOf(state.runs) \ IdsOf(next.runs)
         IN  /\ ReadsThen(t, state, accepted)
             /\ Caches(t, next)
             /\ \/ pc' = [pc EXCEPT ![t] = "end"] /\ outcome' = [outcome EXCEPT ![t] = "stored"]
                \/ /\ doc' = doc /\ blind' = blind
                   /\ pc' = [pc EXCEPT ![t] = "evictAndPersist"]
                   /\ op' = [op EXCEPT ![t].drop = drop]
                \/ /\ doc' = doc /\ pc' = [pc EXCEPT ![t] = "end"] /\ op' = op
  BY DEF PersistRun, Reads, Uncommitted, Goto, Ends
<1>2. pc[t] = "persist" /\ lock' = lock
  BY DEF PersistRun
<1> DEFINE next == SetRun(doc, ToStore(t))
           drop == IdsOf(doc.runs) \ IdsOf(next.runs)
<1>3. readable'[t] => readable[t] /\ state = doc /\ cache'[t] = next
  BY <1>1, ReadsGive DEF Caches, Copies
<1>4. readable[t] => cache[t] = doc
  BY <1>2 DEF Writers, Writer
<1>5. op[t].kind = "run" /\ (readable[t] \/ ~blind) => op[t].id > doc.mark
  BY <1>2 DEF Writers, Writer, Minted, Written
<1>6. readable'[t] => Follows(next, drop, op[t], doc)
  BY <1>2, <1>3, <1>4, <1>5, StoringFollows
<1>7. CASE pc' = [pc EXCEPT ![t] = "end"] /\ outcome' = [outcome EXCEPT ![t] = "stored"]
  <2>1. pc'[t] = "end" /\ outcome'[t] = "stored"
    BY <1>7 DEF WritersTyped
  <2>2. Writer(t)'
    BY <2>1 DEF Writer, Minted, Computing, Written
  <2>3. QED
    BY <1>2, <2>2, WritersStep
<1>8. CASE /\ doc' = doc /\ blind' = blind
           /\ pc' = [pc EXCEPT ![t] = "evictAndPersist"]
           /\ op' = [op EXCEPT ![t].drop = IdsOf(state.runs) \ IdsOf(SetRun(state, ToStore(t)).runs)]
  <2>1. pc'[t] = "evictAndPersist"
    BY <1>8 DEF WritersTyped
  <2>2. /\ op'[t].kind = op[t].kind /\ op'[t].id = op[t].id /\ op'[t].by = op[t].by
        /\ op'[t].drop = IdsOf(state.runs) \ IdsOf(SetRun(state, ToStore(t)).runs)
    BY <1>8 DEF WritersTyped
  <2>3. readable'[t] => Follows(cache'[t], op'[t].drop, op'[t], doc)
    BY <1>3, <1>6, <2>2 DEF Follows
  <2>4. Writer(t)'
    BY <1>3, <1>5, <1>8, <2>1, <2>2, <2>3 DEF Writer, Computing
  <2>5. QED
    BY <1>2, <2>4, WritersStep
<1>9. CASE doc' = doc /\ pc' = [pc EXCEPT ![t] = "end"] /\ op' = op
  <2>1. pc'[t] = "end"
    BY <1>9 DEF WritersTyped
  <2>2. readable'[t] => \A r \in doc.runs :
           \/ r.id \in IdsOf(cache'[t].runs)
           \/ Cardinality(doc.runs) = MaxStored /\ r = Oldest(doc.runs)
    BY <1>3, <1>6 DEF Follows, IdsOf
  <2>3. Writer(t)'
    BY <1>9, <2>1, <2>2 DEF Writer, Minted, Computing, Written
  <2>4. QED
    BY <1>2, <2>3, WritersStep
<1>10. QED
  BY <1>1, <1>7, <1>8, <1>9

LEMMA PersistEvictingKnows ==
    ASSUME StoreInv, StoreInv', Writers, NEW t \in Tab, PersistEvicting(t) PROVE Writers'
<1> USE DEF StoreInv, Typed
<1>1. /\ pc[t] = "evictAndPersist" /\ UNCHANGED <<lock, op, readable>>
      /\ pc' = [pc EXCEPT ![t] = "end"]
      /\ \/ outcome' = [outcome EXCEPT ![t] = "stored"]
         \/ cache' = cache /\ doc' = doc
         \/ cache' = [cache EXCEPT ![t] = cache[t]] /\ doc' = doc
  BY DEF PersistEvicting, Caches, Uncommitted, Goto, Ends
<1>2. /\ pc'[t] = "end"
      /\ outcome'[t] = "stored" \/ (cache'[t] = cache[t] /\ doc' = doc)
  <2>1. pc'[t] = "end"
    BY <1>1 DEF WritersTyped
  <2>2. CASE outcome' = [outcome EXCEPT ![t] = "stored"]
    BY <2>1, <2>2 DEF WritersTyped
  <2>3. CASE cache' = cache /\ doc' = doc
    BY <2>1, <2>3
  <2>4. CASE cache' = [cache EXCEPT ![t] = cache[t]] /\ doc' = doc
    BY <2>1, <2>4 DEF Copies
  <2>5. QED
    BY <1>1, <2>2, <2>3, <2>4
<1>3. readable[t] => Follows(cache[t], op[t].drop, op[t], doc)
  BY <1>1 DEF Writers, Writer
<1>4. readable[t] => \A r \in doc.runs :
         \/ r.id \in IdsOf(cache[t].runs)
         \/ Cardinality(doc.runs) = MaxStored /\ r = Oldest(doc.runs)
  BY <1>3 DEF Follows, IdsOf
<1>5. Writer(t)'
  BY <1>1, <1>2, <1>4 DEF Writer, Minted, Computing, Written
<1>6. QED
  BY <1>1, <1>5, WritersStep

LEMMA DeleteRunKnows ==
    ASSUME StoreInv, StoreInv', Writers, NEW t \in Tab, DeleteRun(t) PROVE Writers'
<1> USE DEF StoreInv, Typed
<1>1. /\ pc[t] = "begin" /\ op[t].kind = "delete" /\ UNCHANGED <<lock, op>>
      /\ pc' = [pc EXCEPT ![t] = "end"]
  BY DEF DeleteRun, Goto, Ends
<1>2. pc'[t] = "end"
  BY <1>1 DEF WritersTyped
<1>3. Writer(t)'
  BY <1>1, <1>2 DEF Writer, Minted, Computing, Written
<1>4. QED
  BY <1>1, <1>3, WritersStep

LEMMA WritersInitially == Init => Writers
  BY DEF Init, Writers, Writer, Minted, Computing, Written

LEMMA WritersKept == StoreInv /\ StoreInv' /\ Writers /\ [Next]_storageVars => Writers'
<1> SUFFICES ASSUME StoreInv, StoreInv', Writers, [Next]_storageVars PROVE Writers'
  OBVIOUS
<1>1. ASSUME NEW t \in Tab, Load(t) \/ ViewArtifact(t) \/ Request(t) \/ Acquire(t) \/ Close(t)
      PROVE  Writers'
  BY <1>1, OutsidersKnow
<1>2. ASSUME NEW t \in Tab, Writes(t) PROVE Writers'
  BY <1>2, SweepsKnow, MintKnows, RasterStepsKnow, FindForExportKnows, EvictForRasterKnows,
     PersistRunKnows, PersistEvictingKnows, DeleteRunKnows, OutsidersKnow DEF Writes
<1>3. ASSUME NEW f \in forgets, ForgetLands(f) PROVE Writers'
  BY <1>3, ForgetLandsKnows
<1>4. CASE UNCHANGED storageVars
  BY <1>4, WriterStands DEF storageVars, Writers
<1>5. QED
  BY <1>1, <1>2, <1>3, <1>4 DEF Next

LEMMA WritersKnow == Spec => []Writers
<1>1. QED
  BY StoreIsKept, WritersInitially, WritersKept, PTL DEF Spec

\* A run or an export that could not be stored leaves every stored run in the list its
\* tab shows, the one the cap would have dropped excepted, whatever was evicted in the
\* copy meanwhile (FailedStoreKeepsTheList).
THEOREM FailedStoresKeepTheList == Spec => []FailedStoreKeepsTheList
<1>1. Writers => FailedStoreKeepsTheList
  BY DEF Writers, Writer, FailedStoreKeepsTheList
<1>2. QED
  BY <1>1, WritersKnow, PTL
-----------------------------------------------------------------------------
(* What a step may do to the document.                                     *)

\* The runs the document gains were not in it before, nor were their ids; those it loses
\* were deleted, or are the oldest of what the writer does not itself store.
DocFollows ==
    /\ doc'.mark >= doc.mark
    /\ \A r \in doc'.runs :
          r.id > doc.mark \/ \E s \in doc.runs : s.id = r.id /\ s.by = r.by
    /\ \A r \in doc.runs :
          \/ \E s \in doc'.runs : s.id = r.id /\ s.by = r.by /\ s.exports >= r.exports
          \/ op[lock].kind = "delete" /\ op[lock].id = r.id
          \/ /\ r.id \notin IdsOf(doc'.runs)
             /\ \A s \in doc'.runs : s.by > r.by \/ s.id = op[lock].id

LEMMA DocIsTyped ==
    ASSUME StoreInv
    PROVE  /\ doc.mark \in Nat /\ doc.runs \in SUBSET Run
           /\ \A r \in doc.runs : r.exports \in Nat /\ r.id \in Nat /\ r.by \in Nat
  BY StoreConstants DEF StoreInv, Lists, Sane, Document, Run, Ids, Computation

LEMMA SameDocFollows == ASSUME StoreInv, doc' = doc PROVE DocFollows
  BY DocIsTyped DEF DocFollows

\* The oldest run but one leaves the document.
LEMMA EvictingFollows ==
    ASSUME StoreInv, NEW t \in Tab, lock = t, Evictable(doc, op[t].id) # {},
           doc' = Evicted(doc, op[t].id)
    PROVE  DocFollows
<1> DEFINE o == Oldest(Evictable(doc, op[t].id))
<1>1. /\ o \in doc.runs /\ doc'.runs = doc.runs \ {o} /\ doc'.mark = doc.mark
      /\ \A s \in doc'.runs : s.by > o.by \/ s.id = op[t].id
  BY EvictedIs DEF StoreInv, Lists
<1> HIDE DEF o
<1>2. ASSUME NEW r \in doc.runs, r # o
      PROVE  \E s \in doc'.runs : s.id = r.id /\ s.by = r.by /\ s.exports >= r.exports
  BY <1>1, <1>2, DocIsTyped
<1>3. o.id \notin IdsOf(doc'.runs)
  BY <1>1 DEF IdsOf, StoreInv, Lists, Sane
<1>4. \A r \in doc.runs :
         \/ \E s \in doc'.runs : s.id = r.id /\ s.by = r.by /\ s.exports >= r.exports
         \/ /\ r.id \notin IdsOf(doc'.runs)
            /\ \A s \in doc'.runs : s.by > r.by \/ s.id = op[t].id
  BY <1>1, <1>2, <1>3
<1>5. doc'.mark >= doc.mark
  BY <1>1, DocIsTyped
<1>6. QED
  BY <1>1, <1>4, <1>5 DEF DocFollows

\* A list that stores the record of the operation becomes the document.
LEMMA StoredFollows ==
    ASSUME StoreInv, NEW t \in Tab, lock = t, NEW drop, Follows(doc', drop, op[t], doc),
           op[t].kind = "run" => op[t].id > doc.mark
    PROVE  DocFollows
<1>1. \A r \in doc'.runs : r.id > doc.mark \/ \E s \in doc.runs : s.id = r.id /\ s.by = r.by
  BY DEF Follows
<1>2. QED
  BY <1>1 DEF DocFollows, Follows

\* A list that does, less the oldest run but the one it stores.
LEMMA RetryFollows ==
    ASSUME StoreInv, NEW t \in Tab, lock = t, Follows(cache[t], op[t].drop, op[t], doc),
           op[t].kind = "run" => op[t].id > doc.mark,
           Evictable(cache[t], op[t].id) # {}, doc' = Evicted(cache[t], op[t].id)
    PROVE  DocFollows
<1> DEFINE o == Oldest(Evictable(cache[t], op[t].id))
<1>1. Sane(cache[t], computed)
  BY DEF StoreInv, Lists
<1>2. /\ o \in cache[t].runs /\ doc'.runs = cache[t].runs \ {o} /\ doc'.mark = cache[t].mark
      /\ \A s \in doc'.runs : s.by > o.by \/ s.id = op[t].id
  BY <1>1, EvictedIs
<1> HIDE DEF o
<1>3. doc'.mark >= doc.mark
  BY <1>2 DEF Follows
<1>4. \A r \in doc'.runs : r.id > doc.mark \/ \E s \in doc.runs : s.id = r.id /\ s.by = r.by
  BY <1>2 DEF Follows
<1>5. o.id \notin IdsOf(doc'.runs)
  BY <1>1, <1>2 DEF IdsOf, Sane
<1>6. ASSUME NEW r \in doc.runs
      PROVE  \/ \E s \in doc'.runs : s.id = r.id /\ s.by = r.by /\ s.exports >= r.exports
             \/ /\ r.id \notin IdsOf(doc'.runs)
                /\ \A s \in doc'.runs : s.by > r.by \/ s.id = op[t].id
  <2>1. CASE \E s \in cache[t].runs : s.id = r.id /\ s.by = r.by /\ s.exports >= r.exports
    <3>1. PICK s \in cache[t].runs : s.id = r.id /\ s.by = r.by /\ s.exports >= r.exports
      BY <2>1
    <3>2. CASE s = o
      BY <1>2, <1>5, <3>1, <3>2
    <3>3. CASE s # o
      BY <1>2, <3>1, <3>3
    <3>4. QED
      BY <3>2, <3>3
  <2>2. CASE /\ r.id \notin IdsOf(cache[t].runs)
             /\ \A s \in cache[t].runs : s.by > r.by \/ s.id = op[t].id
    BY <1>2, <2>2 DEF IdsOf
  <2>3. QED
    BY <2>1, <2>2 DEF Follows
<1>7. QED
  BY <1>3, <1>4, <1>6 DEF DocFollows

\* What a committed write stores, step by step.
LEMMA EvictForRasterFollows ==
    ASSUME StoreInv, Writers, NEW t \in Tab, EvictForRaster(t), ~blind' PROVE DocFollows
<1>1. pc[t] = "evict" /\ lock = t
  BY DEF EvictForRaster, StoreInv, Typed, WritersTyped
<1>2. PICK state \in Seen(t) :
         \/ doc' = doc
         \/ /\ ReadsThen(t, state, TRUE) /\ blind' = (blind \/ ~readable'[t])
            /\ Evictable(state, op[t].id) # {} /\ doc' = Evicted(state, op[t].id)
  BY DEF EvictForRaster, Reads, Commits, Uncommitted
<1>3. CASE /\ ReadsThen(t, state, TRUE) /\ blind' = (blind \/ ~readable'[t])
           /\ Evictable(state, op[t].id) # {} /\ doc' = Evicted(state, op[t].id)
  <2>1. readable'[t]
    BY <1>3
  <2>2. state = doc
    BY <1>3, <2>1, ReadsGive
  <2>3. QED
    BY <1>1, <1>3, <2>2, EvictingFollows
<1>4. QED
  BY <1>2, <1>3, SameDocFollows

LEMMA PersistRunStores ==
    ASSUME StoreInv, Writers, NEW t \in Tab, PersistRun(t), ~blind'
    PROVE  /\ op[t].kind = "run" => op[t].id > doc.mark
           /\ \/ doc' = doc
              \/ Follows(doc', IdsOf(doc.runs) \ IdsOf(doc'.runs), op[t], doc)
<1>1. PICK state \in Seen(t) :
         \/ doc' = doc /\ blind' = blind
         \/ /\ ReadsThen(t, state, TRUE) /\ blind' = (blind \/ ~readable'[t])
            /\ doc' = SetRun(state, ToStore(t))
  BY DEF PersistRun, Reads, Commits, Uncommitted
<1>2. pc[t] = "persist" /\ ~blind
  <2>1. ~blind
    BY <1>1
  <2>2. QED
    BY <2>1 DEF PersistRun
<1>3. op[t].kind = "run" => op[t].id > doc.mark
  BY <1>2 DEF Writers, Writer, Minted, Written
<1>4. CASE /\ ReadsThen(t, state, TRUE) /\ blind' = (blind \/ ~readable'[t])
           /\ doc' = SetRun(state, ToStore(t))
  <2>1. readable'[t]
    BY <1>4
  <2>2. state = doc /\ readable[t]
    BY <1>4, <2>1, ReadsGive
  <2>3. cache[t] = doc
    BY <1>2, <2>2 DEF Writers, Writer
  <2>4. QED
    BY <1>2, <1>3, <1>4, <2>2, <2>3, StoringFollows
<1>5. QED
  BY <1>1, <1>3, <1>4

LEMMA PersistRunFollows ==
    ASSUME StoreInv, Writers, NEW t \in Tab, PersistRun(t), ~blind' PROVE DocFollows
<1>1. lock = t
  BY DEF PersistRun, StoreInv, Typed, WritersTyped
<1>2. QED
  BY <1>1, PersistRunStores, StoredFollows, SameDocFollows

LEMMA PersistEvictingStores ==
    ASSUME StoreInv, Writers, NEW t \in Tab, PersistEvicting(t), ~blind'
    PROVE  /\ op[t].kind = "run" => op[t].id > doc.mark
           /\ \/ doc' = doc
              \/ /\ Evictable(cache[t], op[t].id) # {} /\ doc' = Evicted(cache[t], op[t].id)
                 /\ Follows(cache[t], op[t].drop, op[t], doc)
<1>1. \/ doc' = doc /\ blind' = blind
      \/ /\ blind' = (blind \/ ~readable'[t])
         /\ Evictable(cache[t], op[t].id) # {} /\ doc' = Evicted(cache[t], op[t].id)
  BY DEF PersistEvicting, Commits, Uncommitted
<1>2. pc[t] = "evictAndPersist" /\ ~blind
  <2>1. ~blind
    BY <1>1
  <2>2. QED
    BY <2>1 DEF PersistEvicting
<1>3. op[t].kind = "run" => op[t].id > doc.mark
  BY <1>2 DEF Writers, Writer, Minted, Written
<1>4. readable'[t] = readable[t]
  BY DEF PersistEvicting
<1>5. readable[t] => Follows(cache[t], op[t].drop, op[t], doc)
  BY <1>2 DEF Writers, Writer
<1>6. QED
  BY <1>1, <1>3, <1>4, <1>5

LEMMA PersistEvictingFollows ==
    ASSUME StoreInv, Writers, NEW t \in Tab, PersistEvicting(t), ~blind' PROVE DocFollows
<1>1. lock = t
  BY DEF PersistEvicting, StoreInv, Typed, WritersTyped
<1>2. QED
  BY <1>1, PersistEvictingStores, RetryFollows, SameDocFollows

LEMMA DeleteRunFollows ==
    ASSUME StoreInv, Writers, NEW t \in Tab, DeleteRun(t), ~blind' PROVE DocFollows
<1>1. op[t].kind = "delete" /\ lock = t
  BY DEF DeleteRun, StoreInv, Typed, WritersTyped
<1>2. PICK state \in Seen(t) :
         \/ doc' = doc
         \/ /\ ReadsThen(t, state, TRUE) /\ blind' = (blind \/ ~readable'[t])
            /\ doc' = [state EXCEPT !.runs = {r \in @ : r.id # op[t].id}]
  BY DEF DeleteRun, Reads, Commits, Uncommitted
<1>3. CASE /\ ReadsThen(t, state, TRUE) /\ blind' = (blind \/ ~readable'[t])
           /\ doc' = [state EXCEPT !.runs = {r \in @ : r.id # op[t].id}]
  <2>1. readable'[t]
    BY <1>3
  <2>2. state = doc /\ doc \in [runs: SUBSET Run, mark: 0..MaxComputes]
    BY <1>3, <2>1, ReadsGive DEF StoreInv, Lists, Sane, Document
  <2>3. doc'.runs = {r \in doc.runs : r.id # op[t].id} /\ doc'.mark = doc.mark
    BY <1>3, <2>2
  <2>4. QED
    BY <1>1, <2>3, DocIsTyped DEF DocFollows
<1>4. QED
  BY <1>2, <1>3, SameDocFollows

LEMMA EveryStepFollows ==
    ASSUME StoreInv, Writers, [Next]_storageVars, ~blind' PROVE DocFollows
<1>1. ASSUME NEW t \in Tab,
             Load(t) \/ ViewArtifact(t) \/ Request(t) \/ Acquire(t) \/ Close(t) \/ Release(t)
      PROVE  doc' = doc
  BY <1>1 DEF Load, ViewArtifact, Request, Acquire, Close, Release, storeVars
<1>2. ASSUME NEW t \in Tab,
             \/ SweepRead(t) \/ SweepDelete(t) \/ Mint(t) \/ Compute(t) \/ SaveRaster(t)
             \/ SaveRasterAgain(t) \/ CheckAbandoned(t) \/ FindForExport(t)
      PROVE  doc' = doc
  BY <1>2 DEF SweepRead, SweepDelete, Mint, Compute, SaveRaster, SaveRasterAgain,
              CheckAbandoned, FindForExport, storeVars
<1>3. ASSUME NEW f \in forgets, ForgetLands(f) PROVE doc' = doc
  BY <1>3 DEF ForgetLands
<1>4. ASSUME NEW t \in Tab, Writes(t) PROVE DocFollows
  BY <1>1, <1>2, <1>4, SameDocFollows, EvictForRasterFollows, PersistRunFollows,
     PersistEvictingFollows, DeleteRunFollows DEF Writes
<1>5. CASE UNCHANGED storageVars
  BY <1>5, SameDocFollows DEF storageVars
<1>6. QED
  BY <1>1, <1>3, <1>4, <1>5, SameDocFollows DEF Next

\* What a step of some tab may do to the list every tab shares
\* (DocumentChangesAreDeliberate): the cap, an eviction and a delete are all that take a
\* run from it, and none takes a later run before an earlier.
THEOREM OnlyDeliberateChanges == Spec => DocumentChangesAreDeliberate
<1>1. ASSUME StoreInv, Writers, [Next]_storageVars, ~blind'
      PROVE  /\ doc'.mark >= doc.mark
             /\ \A i \in IdsOf(doc'.runs) \ IdsOf(doc.runs) : i > doc.mark
             /\ \A r \in doc.runs :
                   \/ \E s \in doc'.runs :
                         s.id = r.id /\ s.by = r.by /\ s.exports >= r.exports
                   \/ op[lock].kind = "delete" /\ op[lock].id = r.id
                   \/ /\ r.id \notin IdsOf(doc'.runs)
                      /\ \A s \in doc'.runs : s.by > r.by \/ s.id = op[lock].id
  <2>1. DocFollows
    BY <1>1, EveryStepFollows
  <2>2. QED
    BY <2>1 DEF DocFollows, IdsOf
<1>2. QED
  BY <1>1, StoreIsKept, WritersKnow, PTL DEF Spec, DocumentChangesAreDeliberate
-----------------------------------------------------------------------------
(* The rasters of the stored runs.                                         *)

\* A step that writes no record, no list and no run's operation.
LEMMA RastersStand ==
    ASSUME Rasters, UNCHANGED <<doc, bytes>>, blind => blind', taken \subseteq taken',
           forgets' \subseteq forgets,
           \A u \in Tab : op'[u].kind = "run" /\ pc'[u] \in Minted =>
              /\ op[u].kind = "run" /\ pc[u] \in Minted
              /\ op'[u].by = op[u].by /\ op'[u].id = op[u].id
              /\ pc'[u] \in Written => pc[u] \in Written
    PROVE  Rasters'
<1>1. StoredRunHasItsRaster'
  BY DEF Rasters, StoredRunHasItsRaster
<1>2. ForgottenIsNotStored'
  BY DEF Rasters, ForgottenIsNotStored
<1>3. RasterIsWritten'
  BY DEF Rasters, RasterIsWritten, Written, Minted
<1>4. QED
  BY <1>1, <1>2, <1>3 DEF Rasters

\* Only the holder of the lock has a run under way.
LEMMA RastersOfTheHolder ==
    ASSUME StoreInv', NEW t \in Tab, lock' = t,
           ~blind' => \A r \in doc'.runs : bytes'[r.id] = r.by \/ r.by \in taken',
           ~blind' => \A f \in forgets' :
              /\ \A r \in doc'.runs : r.by # f.by
              /\ op'[t].kind = "run" /\ pc'[t] \in Minted => op'[t].by # f.by,
           ~blind' /\ op'[t].kind = "run" /\ pc'[t] \in Written =>
              bytes'[op'[t].id] = op'[t].by \/ op'[t].by \in taken'
    PROVE  Rasters'
<1>1. \A u \in Tab : u # t => pc'[u] \in {"idle", "waiting"}
  BY DEF StoreInv, Typed, WritersTyped
<1>2. \A u \in Tab : pc'[u] \in Minted => u = t
  BY <1>1 DEF Minted, Computing, Written
<1>3. StoredRunHasItsRaster'
  BY DEF StoredRunHasItsRaster
<1>4. ForgottenIsNotStored'
  BY <1>2 DEF ForgottenIsNotStored
<1>5. RasterIsWritten'
  BY <1>2 DEF RasterIsWritten, Minted
<1>6. QED
  BY <1>3, <1>4, <1>5 DEF Rasters

\* The steps that leave the records and the document alone.
LEMMA RastersLeftAlone ==
    ASSUME StoreInv, Rasters, NEW t \in Tab,
           \/ Load(t) \/ ViewArtifact(t) \/ Request(t) \/ Acquire(t) \/ Close(t) \/ Release(t)
           \/ SweepRead(t) \/ Compute(t) \/ FindForExport(t)
    PROVE  Rasters'
<1> USE DEF StoreInv, Typed
<1>1. UNCHANGED <<doc, bytes, blind, taken>>
  BY DEF Load, ViewArtifact, Request, Acquire, Close, Release, SweepRead, Compute,
         FindForExport, storeVars, history
<1>2. forgets' \subseteq forgets
  BY DEF Load, ViewArtifact, Request, Acquire, Close, Release, SweepRead, Compute,
         FindForExport
<1>3. \A u \in Tab : u # t => op'[u] = op[u] /\ pc'[u] = pc[u]
  <2>1. CASE Load(t) \/ ViewArtifact(t)
    BY <2>1 DEF Load, ViewArtifact, writerVars
  <2>2. CASE Request(t)
    BY <2>2 DEF Request, Goto, WritersTyped
  <2>3. CASE Acquire(t) \/ SweepRead(t) \/ Compute(t) \/ FindForExport(t)
    BY <2>3 DEF Acquire, SweepRead, Compute, FindForExport, Goto, Ends, WritersTyped
  <2>4. CASE Close(t) \/ Release(t)
    BY <2>4 DEF Close, Release, Goto, WritersTyped
  <2>5. QED
    BY <2>1, <2>2, <2>3, <2>4
<1>4. \/ op'[t] = op[t] /\ pc'[t] = pc[t]
      \/ pc'[t] \notin Minted
      \/ op'[t] = op[t] /\ pc[t] = "compute" /\ pc'[t] = "raster"
      \/ op'[t] = op[t] /\ op[t].kind = "export"
  <2>1. CASE Load(t) \/ ViewArtifact(t)
    BY <2>1 DEF Load, ViewArtifact, writerVars
  <2>2. CASE Request(t) \/ Acquire(t) \/ SweepRead(t) \/ Close(t) \/ Release(t)
    <3>1. pc'[t] \in {"idle", "waiting", "sweep", "sweepDelete", "begin"}
      BY <2>2 DEF Request, Acquire, SweepRead, Close, Release, Goto, WritersTyped
    <3>2. QED
      BY <3>1 DEF Minted, Computing, Written
  <2>3. CASE Compute(t)
    <3>1. op' = op /\ pc[t] = "compute" /\ pc'[t] \in {"raster", "end"}
      BY <2>3 DEF Compute, Goto, Ends, WritersTyped
    <3>2. QED
      BY <3>1 DEF Minted, Computing, Written
  <2>4. CASE FindForExport(t)
    BY <2>4 DEF FindForExport
  <2>5. QED
    BY <2>1, <2>2, <2>3, <2>4
<1>5. \A u \in Tab : op'[u].kind = "run" /\ pc'[u] \in Minted =>
              /\ op[u].kind = "run" /\ pc[u] \in Minted
              /\ op'[u].by = op[u].by /\ op'[u].id = op[u].id
              /\ pc'[u] \in Written => pc[u] \in Written
  BY <1>3, <1>4 DEF Minted, Computing, Written
<1>6. QED
  BY <1>1, <1>2, <1>5, RastersStand

\* The sweep keeps the records of the runs in the list it has just read.
LEMMA SweepDeleteRasters ==
    ASSUME StoreInv, StoreInv', Writers, Rasters, NEW t \in Tab, SweepDelete(t)
    PROVE  Rasters'
<1> USE DEF StoreInv, Typed
<1>1. /\ pc[t] = "sweepDelete" /\ UNCHANGED <<lock, doc, forgets, blind, taken>>
      /\ \/ bytes' = bytes
         \/ bytes' = [i \in Ids |-> IF i \in IdsOf(cache[t].runs) THEN bytes[i] ELSE 0]
  BY DEF SweepDelete, history
<1>2. cache[t] = doc
  BY <1>1 DEF Writers, Writer
<1>3. lock' = t /\ pc'[t] = "begin"
  BY <1>1 DEF SweepDelete, Goto, WritersTyped
<1>4. \A r \in doc.runs : r.id \in Ids /\ r.id \in IdsOf(doc.runs)
  BY DEF Lists, Sane, Document, Run, IdsOf
<1>5. \A r \in doc.runs : bytes'[r.id] = bytes[r.id]
  BY <1>1, <1>2, <1>4
<1>6. ~blind' => \A r \in doc'.runs : bytes'[r.id] = r.by \/ r.by \in taken'
  BY <1>1, <1>5 DEF Rasters, StoredRunHasItsRaster
<1>7. ~blind' => \A f \in forgets' : \A r \in doc'.runs : r.by # f.by
  BY <1>1 DEF Rasters, ForgottenIsNotStored
<1>8. pc'[t] \notin Minted /\ pc'[t] \notin Written
  BY <1>3 DEF Minted, Computing, Written
<1>9. QED
  BY <1>3, <1>6, <1>7, <1>8, RastersOfTheHolder

\* A computation is not forgotten before it is minted.
LEMMA MintRasters ==
    ASSUME StoreInv, StoreInv', Rasters, NEW t \in Tab, Mint(t) PROVE Rasters'
<1> USE DEF StoreInv, Typed
<1>1. /\ pc[t] = "begin" /\ UNCHANGED <<lock, doc, bytes, forgets, blind, taken>>
      /\ \E i : op' = [op EXCEPT ![t].id = i, ![t].by = computed + 1]
  BY DEF Mint, storeVars, history
<1>2. lock' = t /\ pc'[t] = "compute" /\ op'[t].by = computed + 1
  BY <1>1 DEF Mint, Goto, WritersTyped
<1>3. \A f \in forgets : f.by \in Nat /\ computed \in Nat /\ f.by <= computed
  BY StoreConstants DEF Forgotten, StoreTyped, Computation
<1>4. ~blind' => \A f \in forgets' :
         /\ \A r \in doc'.runs : r.by # f.by
         /\ op'[t].by # f.by
  BY <1>1, <1>2, <1>3 DEF Rasters, ForgottenIsNotStored
<1>5. ~blind' => \A r \in doc'.runs : bytes'[r.id] = r.by \/ r.by \in taken'
  BY <1>1 DEF Rasters, StoredRunHasItsRaster
<1>6. pc'[t] \notin Written
  BY <1>2 DEF Written
<1>7. QED
  BY <1>2, <1>4, <1>5, <1>6, RastersOfTheHolder

\* A raster is written under an id no stored run has.
LEMMA SaveRasterRasters ==
    ASSUME StoreInv, StoreInv', Writers, Rasters, NEW t \in Tab,
           SaveRaster(t) \/ SaveRasterAgain(t)
    PROVE  Rasters'
<1> USE DEF StoreInv, Typed
<1>1. /\ pc[t] \in {"raster", "rasterAgain"} /\ UNCHANGED <<lock, doc, forgets, op, taken>>
      /\ \/ /\ bytes' = [bytes EXCEPT ![op[t].id] = op[t].by]
            /\ blind' = (blind \/ ~readable[t]) /\ pc' = [pc EXCEPT ![t] = "saved"]
         \/ /\ UNCHANGED <<bytes, blind>>
            /\ pc' = [pc EXCEPT ![t] = "evict"] \/ pc' = [pc EXCEPT ![t] = "end"]
  BY DEF SaveRaster, SaveRasterAgain, WritesRaster, Goto, Ends
<1>2. lock = t /\ op[t].kind = "run" /\ op[t].id \in Ids
  BY <1>1 DEF WritersTyped, Operations, Operation, Computing, Minted
<1>3. pc[t] \in Minted
  BY <1>1 DEF Minted, Computing
<1>4. CASE /\ bytes' = [bytes EXCEPT ![op[t].id] = op[t].by]
           /\ blind' = (blind \/ ~readable[t]) /\ pc' = [pc EXCEPT ![t] = "saved"]
  <2>1. bytes'[op[t].id] = op[t].by
    BY <1>2, <1>4 DEF StoreTyped
  <2>2. ASSUME ~blind', NEW r \in doc.runs PROVE bytes'[r.id] = r.by \/ r.by \in taken
    <3>1. op[t].id > doc.mark
      BY <1>2, <1>3, <1>4, <2>2 DEF Writers, Writer
    <3>2. r.id <= doc.mark /\ r.id \in Nat /\ doc.mark \in Nat /\ op[t].id \in Nat
      BY <1>2, DocIsTyped, StoreConstants DEF Lists, Sane, Ids
    <3>3. bytes'[r.id] = bytes[r.id]
      BY <1>4, <3>1, <3>2 DEF StoreTyped
    <3>4. ~blind
      BY <1>4, <2>2
    <3>5. QED
      BY <3>3, <3>4 DEF Rasters, StoredRunHasItsRaster
  <2>3. ~blind' => \A f \in forgets' :
           /\ \A r \in doc'.runs : r.by # f.by
           /\ op'[t].by # f.by
    <3>1. ~blind' => ~blind
      BY <1>4
    <3>2. QED
      BY <1>1, <1>2, <1>3, <3>1 DEF Rasters, ForgottenIsNotStored
  <2>4. QED
    BY <1>1, <1>2, <2>1, <2>2, <2>3, RastersOfTheHolder
<1>5. CASE /\ UNCHANGED <<bytes, blind>>
           /\ pc' = [pc EXCEPT ![t] = "evict"] \/ pc' = [pc EXCEPT ![t] = "end"]
  <2>1. pc'[t] \in {"evict", "end"} /\ \A u \in Tab : u # t => pc'[u] = pc[u]
    BY <1>5 DEF WritersTyped
  <2>2. \A u \in Tab : pc'[u] \in Minted =>
           pc[u] \in Minted /\ (pc'[u] \in Written => pc[u] \in Written)
    BY <1>3, <2>1 DEF Minted, Computing, Written
  <2>3. QED
    BY <1>1, <1>5, <2>2, RastersStand
<1>6. QED
  BY <1>1, <1>4, <1>5

\* The raster of a run that gives up is of no stored computation.
LEMMA GivenUpIsNotStored ==
    ASSUME StoreInv, Writers, NEW t \in Tab, pc[t] \in Written, op[t].kind = "run", ~blind
    PROVE  \A r \in doc.runs : r.by # op[t].by
<1>1. op[t].id > doc.mark
  BY DEF Writers, Writer, Minted
<1>2. \A r \in doc.runs : r.by = op[t].by => r.id = op[t].id
  BY DEF StoreInv, Lists, Listed
<1>3. \A r \in doc.runs : r.id <= doc.mark /\ r.id \in Nat /\ doc.mark \in Nat
  BY DocIsTyped DEF StoreInv, Lists, Sane
<1>4. op[t].id \in Nat
  BY StoreConstants DEF StoreInv, Typed, WritersTyped, Ids
<1>5. QED
  BY <1>1, <1>2, <1>3, <1>4

\* A writer that fails leaves the document and the records as they are, and may start
\* the delete of its raster.
LEMMA FailingRasters ==
    ASSUME StoreInv, StoreInv', Writers, Rasters, NEW t \in Tab, lock' = t,
           UNCHANGED <<doc, bytes, blind, taken>>, pc'[t] = "end",
           \/ forgets' \subseteq forgets
           \/ /\ pc[t] \in Written /\ op[t].kind = "run"
              /\ forgets' = forgets \cup {[tab |-> t, id |-> op[t].id, by |-> op[t].by]}
    PROVE  Rasters'
<1>1. pc'[t] \notin Minted /\ pc'[t] \notin Written
  BY DEF Minted, Computing, Written
<1>2. ~blind' => \A f \in forgets' : \A r \in doc'.runs : r.by # f.by
  BY GivenUpIsNotStored DEF Rasters, ForgottenIsNotStored
<1>3. ~blind' => \A r \in doc'.runs : bytes'[r.id] = r.by \/ r.by \in taken'
  BY DEF Rasters, StoredRunHasItsRaster
<1>4. QED
  BY <1>1, <1>2, <1>3, RastersOfTheHolder

LEMMA CheckAbandonedRasters ==
    ASSUME StoreInv, StoreInv', Writers, Rasters, NEW t \in Tab, CheckAbandoned(t)
    PROVE  Rasters'
<1> USE DEF StoreInv, Typed
<1>1. /\ pc[t] = "saved" /\ UNCHANGED <<lock, doc, bytes, blind, taken, op>>
      /\ \/ pc' = [pc EXCEPT ![t] = "persist"] /\ forgets' = forgets
         \/ /\ pc' = [pc EXCEPT ![t] = "end"]
            /\ forgets' = forgets \cup {[tab |-> t, id |-> op[t].id, by |-> op[t].by]}
  BY DEF CheckAbandoned, Forgets, Goto, Ends, storeVars, history
<1>2. lock' = t /\ pc[t] \in Written /\ op[t].kind = "run"
  BY <1>1 DEF WritersTyped, Written, Operations, Operation
<1>3. CASE pc' = [pc EXCEPT ![t] = "persist"] /\ forgets' = forgets
  <2>1. \A u \in Tab : pc'[u] = IF u = t THEN "persist" ELSE pc[u]
    BY <1>3 DEF WritersTyped
  <2>2. \A u \in Tab : pc'[u] \in Minted =>
           pc[u] \in Minted /\ (pc'[u] \in Written => pc[u] \in Written)
    BY <1>2, <2>1 DEF Minted
  <2>3. QED
    BY <1>1, <1>3, <2>2, RastersStand
<1>4. CASE /\ pc' = [pc EXCEPT ![t] = "end"]
           /\ forgets' = forgets \cup {[tab |-> t, id |-> op[t].id, by |-> op[t].by]}
  <2>1. pc'[t] = "end"
    BY <1>4 DEF WritersTyped
  <2>2. QED
    BY <1>1, <1>2, <1>4, <2>1, FailingRasters
<1>5. QED
  BY <1>1, <1>3, <1>4

\* A transaction that stores a list keeps the records of what it stores.
LEMMA CommitRasters ==
    ASSUME StoreInv, StoreInv', Rasters, NEW t \in Tab, lock' = t,
           UNCHANGED <<taken, forgets, op>>, blind => blind',
           pc'[t] \notin Written, pc'[t] \in Minted => pc[t] \in Minted,
           NEW dropped, bytes' = [i \in Ids |-> IF i \in dropped THEN 0 ELSE bytes[i]],
           ~blind' => \A r \in doc'.runs :
              /\ r.id \notin dropped
              /\ \/ \E s \in doc.runs : s.id = r.id /\ s.by = r.by
                 \/ pc[t] \in Written /\ op[t].kind = "run" /\ op[t].id = r.id /\ op[t].by = r.by
    PROVE  Rasters'
<1>1. \A r \in doc'.runs : r.id \in Ids
  BY DEF StoreInv, Lists, Sane, Document, Run
<1>2. ASSUME ~blind', NEW r \in doc'.runs PROVE bytes'[r.id] = r.by \/ r.by \in taken'
  <2>1. bytes'[r.id] = bytes[r.id]
    BY <1>1, <1>2
  <2>2. bytes[r.id] = r.by \/ r.by \in taken
    BY <1>2 DEF Rasters, StoredRunHasItsRaster, RasterIsWritten
  <2>3. QED
    BY <2>1, <2>2
<1>3. ~blind' => \A f \in forgets' :
         /\ \A r \in doc'.runs : r.by # f.by
         /\ op'[t].kind = "run" /\ pc'[t] \in Minted => op'[t].by # f.by
  BY DEF Rasters, ForgottenIsNotStored, Minted
<1>4. QED
  BY <1>2, <1>3, RastersOfTheHolder

LEMMA EvictForRasterRasters ==
    ASSUME StoreInv, StoreInv', Writers, Rasters, NEW t \in Tab, EvictForRaster(t)
    PROVE  Rasters'
<1> USE DEF StoreInv, Typed
<1>1. PICK state \in Seen(t) :
         LET evicted == Evicted(state, op[t].id)
         IN  \/ UNCHANGED <<doc, bytes, blind>> /\ pc' = [pc EXCEPT ![t] = "end"]
             \/ /\ ReadsThen(t, state, TRUE) /\ blind' = (blind \/ ~readable'[t])
                /\ Evictable(state, op[t].id) # {} /\ doc' = evicted
                /\ bytes' = [i \in Ids |->
                      IF i \in IdsOf(state.runs) \ IdsOf(evicted.runs) THEN 0 ELSE bytes[i]]
                /\ pc' = [pc EXCEPT ![t] = "rasterAgain"]
  BY DEF EvictForRaster, Reads, Commits, Uncommitted, Goto, Ends
<1>2. /\ pc[t] = "evict" /\ lock' = t /\ UNCHANGED <<op, forgets, taken>>
  BY DEF EvictForRaster, WritersTyped
<1>3. CASE UNCHANGED <<doc, bytes, blind>> /\ pc' = [pc EXCEPT ![t] = "end"]
  <2>1. pc'[t] = "end"
    BY <1>3 DEF WritersTyped
  <2>2. QED
    BY <1>2, <1>3, <2>1, FailingRasters
<1>4. CASE /\ ReadsThen(t, state, TRUE) /\ blind' = (blind \/ ~readable'[t])
           /\ Evictable(state, op[t].id) # {} /\ doc' = Evicted(state, op[t].id)
           /\ bytes' = [i \in Ids |->
                 IF i \in IdsOf(state.runs) \ IdsOf(Evicted(state, op[t].id).runs)
                 THEN 0 ELSE bytes[i]]
           /\ pc' = [pc EXCEPT ![t] = "rasterAgain"]
  <2>1. pc'[t] = "rasterAgain"
    BY <1>4 DEF WritersTyped
  <2>2. pc'[t] \notin Written /\ pc[t] \in Minted
    BY <1>2, <2>1 DEF Written, Minted, Computing
  <2>3. ASSUME ~blind', NEW r \in doc'.runs
        PROVE  /\ r.id \notin IdsOf(state.runs) \ IdsOf(doc'.runs)
               /\ \E s \in doc.runs : s.id = r.id /\ s.by = r.by
    <3>1. readable'[t]
      BY <1>4, <2>3
    <3>2. state = doc
      BY <1>4, <3>1, ReadsGive
    <3>3. r \in doc.runs
      BY <1>4, <2>3, <3>2, EvictedIs DEF Lists
    <3>4. QED
      BY <3>3 DEF IdsOf
  <2>4. blind => blind'
    BY <1>4
  <2>5. QED
    BY <1>2, <1>4, <2>2, <2>3, <2>4, CommitRasters
<1>5. QED
  BY <1>1, <1>3, <1>4

LEMMA PersistRunRasters ==
    ASSUME StoreInv, StoreInv', Writers, Rasters, NEW t \in Tab, PersistRun(t)
    PROVE  Rasters'
<1> USE DEF StoreInv, Typed
<1>1. PICK state \in Seen(t) :
         LET next == SetRun(state, ToStore(t))
             drop == IdsOf(state.runs) \ IdsOf(next.runs)
         IN  \/ /\ ReadsThen(t, state, TRUE) /\ blind' = (blind \/ ~readable'[t])
                /\ doc' = next
                /\ bytes' = [i \in Ids |-> IF i \in drop THEN 0 ELSE bytes[i]]
                /\ pc' = [pc EXCEPT ![t] = "end"] /\ UNCHANGED <<forgets, op>>
             \/ /\ UNCHANGED <<doc, bytes, blind, forgets>>
                /\ op' = [op EXCEPT ![t].drop = drop]
                /\ pc' = [pc EXCEPT ![t] = "evictAndPersist"]
             \/ /\ UNCHANGED <<doc, bytes, blind>> /\ pc' = [pc EXCEPT ![t] = "end"]
                /\ ForgetsIfRun(t)
  BY DEF PersistRun, Reads, Commits, Uncommitted, Goto, Ends
<1>2. /\ pc[t] = "persist" /\ lock' = t /\ taken' = taken
  BY DEF PersistRun, WritersTyped
<1>3. pc[t] \in Written /\ pc[t] \in Minted
  BY <1>2 DEF Written, Minted
<1>4. CASE /\ ReadsThen(t, state, TRUE) /\ blind' = (blind \/ ~readable'[t])
           /\ doc' = SetRun(state, ToStore(t))
           /\ bytes' = [i \in Ids |->
                 IF i \in IdsOf(state.runs) \ IdsOf(SetRun(state, ToStore(t)).runs)
                 THEN 0 ELSE bytes[i]]
           /\ pc' = [pc EXCEPT ![t] = "end"] /\ UNCHANGED <<forgets, op>>
  <2> DEFINE dropped == IdsOf(state.runs) \ IdsOf(SetRun(state, ToStore(t)).runs)
  <2>1. pc'[t] = "end"
    BY <1>4 DEF WritersTyped
  <2>2. pc'[t] \notin Written
    BY <2>1 DEF Written
  <2>3. ASSUME ~blind', NEW r \in doc'.runs
        PROVE  /\ r.id \notin dropped
               /\ \/ \E s \in doc.runs : s.id = r.id /\ s.by = r.by
                  \/ pc[t] \in Written /\ op[t].kind = "run" /\ op[t].id = r.id /\ op[t].by = r.by
    <3>1. doc' = doc \/ Follows(doc', IdsOf(doc.runs) \ IdsOf(doc'.runs), op[t], doc)
      BY <2>3, PersistRunStores
    <3>2. r.id \in IdsOf(doc'.runs)
      BY <2>3 DEF IdsOf
    <3>3. QED
      BY <1>3, <1>4, <2>3, <3>1, <3>2 DEF Follows
  <2>4. blind => blind'
    BY <1>4
  <2>5. /\ UNCHANGED <<taken, forgets, op>>
        /\ bytes' = [i \in Ids |-> IF i \in dropped THEN 0 ELSE bytes[i]]
    BY <1>2, <1>4
  <2> HIDE DEF dropped
  <2>6. QED
    BY <1>2, <1>3, <2>2, <2>3, <2>4, <2>5, CommitRasters
<1>5. CASE /\ UNCHANGED <<doc, bytes, blind, forgets>>
           /\ op' = [op EXCEPT ![t].drop = IdsOf(state.runs) \ IdsOf(SetRun(state, ToStore(t)).runs)]
           /\ pc' = [pc EXCEPT ![t] = "evictAndPersist"]
  <2>1. \A u \in Tab : /\ op'[u].kind = op[u].kind /\ op'[u].by = op[u].by /\ op'[u].id = op[u].id
                       /\ pc'[u] = IF u = t THEN "evictAndPersist" ELSE pc[u]
    BY <1>5 DEF WritersTyped
  <2>2. QED
    BY <1>2, <1>3, <1>5, <2>1, RastersStand
<1>6. CASE /\ UNCHANGED <<doc, bytes, blind>> /\ pc' = [pc EXCEPT ![t] = "end"]
           /\ ForgetsIfRun(t)
  <2>1. pc'[t] = "end"
    BY <1>6 DEF WritersTyped
  <2>2. QED
    BY <1>2, <1>3, <1>6, <2>1, FailingRasters DEF ForgetsIfRun, Forgets
<1>7. QED
  BY <1>1, <1>4, <1>5, <1>6

LEMMA PersistEvictingRasters ==
    ASSUME StoreInv, StoreInv', Writers, Rasters, NEW t \in Tab, PersistEvicting(t)
    PROVE  Rasters'
<1> USE DEF StoreInv, Typed
<1> DEFINE room == Evictable(cache[t], op[t].id)
           dropped == op[t].drop \cup {Oldest(room).id}
<1>1. \/ /\ room # {} /\ doc' = Evicted(cache[t], op[t].id)
         /\ bytes' = [i \in Ids |-> IF i \in dropped THEN 0 ELSE bytes[i]]
         /\ blind' = (blind \/ ~readable'[t]) /\ UNCHANGED forgets
      \/ UNCHANGED <<doc, bytes, blind>> /\ ForgetsIfRun(t)
  BY DEF PersistEvicting, Commits, Uncommitted
<1>2. /\ pc[t] = "evictAndPersist" /\ lock' = t /\ UNCHANGED <<taken, op, readable>>
      /\ pc'[t] = "end"
  BY DEF PersistEvicting, WritersTyped, Goto, Ends
<1>3. pc[t] \in Written /\ pc[t] \in Minted
  BY <1>2 DEF Written, Minted
<1>4. CASE /\ room # {} /\ doc' = Evicted(cache[t], op[t].id)
           /\ bytes' = [i \in Ids |-> IF i \in dropped THEN 0 ELSE bytes[i]]
           /\ blind' = (blind \/ ~readable'[t]) /\ UNCHANGED forgets
  <2>1. pc'[t] \notin Written
    BY <1>2 DEF Written
  <2>2. ASSUME ~blind', NEW r \in doc'.runs
        PROVE  /\ r.id \notin dropped
               /\ \/ \E s \in doc.runs : s.id = r.id /\ s.by = r.by
                  \/ op[t].kind = "run" /\ op[t].id = r.id /\ op[t].by = r.by
    <3>1. readable[t]
      BY <1>2, <1>4, <2>2
    <3>2. Follows(cache[t], op[t].drop, op[t], doc)
      BY <1>2, <3>1 DEF Writers, Writer
    <3>3. Sane(cache[t], computed)
      BY DEF Lists
    <3>4. /\ Oldest(room) \in cache[t].runs
          /\ r \in cache[t].runs /\ r # Oldest(room)
      BY <1>4, <2>2, <3>3, EvictedIs
    <3>5. r.id # Oldest(room).id
      BY <3>3, <3>4 DEF Sane
    <3>6. QED
      BY <3>2, <3>4, <3>5 DEF Follows
  <2>3. blind => blind'
    BY <1>4
  <2> HIDE DEF dropped
  <2>4. QED
    BY <1>2, <1>3, <1>4, <2>1, <2>2, <2>3, CommitRasters
<1>5. CASE UNCHANGED <<doc, bytes, blind>> /\ ForgetsIfRun(t)
  BY <1>2, <1>3, <1>5, FailingRasters DEF ForgetsIfRun, Forgets
<1>6. QED
  BY <1>1, <1>4, <1>5

LEMMA DeleteRunRasters ==
    ASSUME StoreInv, StoreInv', Writers, Rasters, NEW t \in Tab, DeleteRun(t)
    PROVE  Rasters'
<1> USE DEF StoreInv, Typed
<1>1. PICK state \in Seen(t) :
         \/ UNCHANGED <<doc, bytes, blind>>
         \/ /\ ReadsThen(t, state, TRUE) /\ blind' = (blind \/ ~readable'[t])
            /\ doc' = [state EXCEPT !.runs = {r \in @ : r.id # op[t].id}]
            /\ bytes' = [i \in Ids |-> IF i \in {op[t].id} THEN 0 ELSE bytes[i]]
  BY DEF DeleteRun, Reads, Commits, Uncommitted
<1>2. /\ lock' = t /\ UNCHANGED <<taken, op, forgets>> /\ pc'[t] = "end"
  BY DEF DeleteRun, WritersTyped, Goto, Ends
<1>3. CASE UNCHANGED <<doc, bytes, blind>>
  BY <1>2, <1>3, FailingRasters
<1>4. CASE /\ ReadsThen(t, state, TRUE) /\ blind' = (blind \/ ~readable'[t])
           /\ doc' = [state EXCEPT !.runs = {r \in @ : r.id # op[t].id}]
           /\ bytes' = [i \in Ids |-> IF i \in {op[t].id} THEN 0 ELSE bytes[i]]
  <2> DEFINE dropped == {op[t].id}
  <2>1. pc'[t] \notin Written /\ pc'[t] \notin Minted
    BY <1>2 DEF Written, Minted, Computing
  <2>2. ASSUME ~blind', NEW r \in doc'.runs
        PROVE  r.id \notin dropped /\ \E s \in doc.runs : s.id = r.id /\ s.by = r.by
    <3>1. readable'[t]
      BY <1>4, <2>2
    <3>2. state = doc /\ doc \in [runs: SUBSET Run, mark: 0..MaxComputes]
      BY <1>4, <3>1, ReadsGive DEF Lists, Sane, Document
    <3>3. doc'.runs = {s \in doc.runs : s.id # op[t].id}
      BY <1>4, <3>2
    <3>4. QED
      BY <2>2, <3>3
  <2>3. blind => blind'
    BY <1>4
  <2>4. bytes' = [i \in Ids |-> IF i \in dropped THEN 0 ELSE bytes[i]]
    BY <1>4
  <2> HIDE DEF dropped
  <2>5. QED
    BY <1>2, <2>1, <2>2, <2>3, <2>4, CommitRasters
<1>5. QED
  BY <1>1, <1>3, <1>4

\* A delete nobody waited for takes no stored raster but under another computation's id.
LEMMA ForgetLandsRasters ==
    ASSUME StoreInv, Writers, Rasters, NEW f \in forgets, ForgetLands(f)
    PROVE  Rasters'
<1> USE DEF StoreInv, Typed
<1>1. /\ UNCHANGED <<doc, pc, op, blind>> /\ forgets' \subseteq forgets
      /\ \/ /\ bytes' = [bytes EXCEPT ![f.id] = 0]
            /\ taken' = taken \cup ({bytes[f.id]} \ {0, f.by})
         \/ UNCHANGED <<bytes, taken>>
  BY DEF ForgetLands, writerVars
<1>2. CASE UNCHANGED <<bytes, taken>>
  BY <1>1, <1>2, RastersStand
<1>3. CASE /\ bytes' = [bytes EXCEPT ![f.id] = 0]
           /\ taken' = taken \cup ({bytes[f.id]} \ {0, f.by})
  <2>1. ASSUME NEW i \in Ids, NEW b, b # 0, b # f.by, bytes[i] = b \/ b \in taken
        PROVE  bytes'[i] = b \/ b \in taken'
    BY <1>3, <2>1 DEF StoreTyped
  <2>2. ASSUME ~blind', NEW r \in doc'.runs PROVE bytes'[r.id] = r.by \/ r.by \in taken'
    <3>1. r \in doc.runs /\ r.id \in Ids /\ r.by # 0
      BY <1>1, <2>2, StoreConstants DEF Lists, Sane, Document, Run, Computation
    <3>2. r.by # f.by /\ (bytes[r.id] = r.by \/ r.by \in taken)
      BY <1>1, <2>2, <3>1 DEF Rasters, ForgottenIsNotStored, StoredRunHasItsRaster
    <3>3. QED
      BY <2>1, <3>1, <3>2
  <2>3. ASSUME ~blind', NEW u \in Tab, op[u].kind = "run", pc[u] \in Written
        PROVE  bytes'[op[u].id] = op[u].by \/ op[u].by \in taken'
    <3>1. pc[u] \in Minted
      BY <2>3 DEF Minted
    <3>2. op[u].id \in Ids /\ op[u].by # 0
      BY <2>3, <3>1 DEF WritersTyped, Operations, Operation
    <3>3. op[u].by # f.by /\ (bytes[op[u].id] = op[u].by \/ op[u].by \in taken)
      BY <1>1, <2>3, <3>1 DEF Rasters, ForgottenIsNotStored, RasterIsWritten
    <3>4. QED
      BY <2>1, <3>2, <3>3
  <2>4. StoredRunHasItsRaster' /\ RasterIsWritten'
    BY <1>1, <2>2, <2>3 DEF StoredRunHasItsRaster, RasterIsWritten
  <2>5. ForgottenIsNotStored'
    BY <1>1 DEF Rasters, ForgottenIsNotStored
  <2>6. QED
    BY <2>4, <2>5 DEF Rasters
<1>4. QED
  BY <1>1, <1>2, <1>3

LEMMA RastersInitially == Init => Rasters
  BY DEF Init, InitialState, Rasters, StoredRunHasItsRaster, ForgottenIsNotStored,
         RasterIsWritten, Written

LEMMA RastersKept == StoreInv /\ StoreInv' /\ Writers /\ Rasters /\ [Next]_storageVars => Rasters'
<1> SUFFICES ASSUME StoreInv, StoreInv', Writers, Rasters, [Next]_storageVars PROVE Rasters'
  OBVIOUS
<1>1. ASSUME NEW t \in Tab, Load(t) \/ ViewArtifact(t) \/ Request(t) \/ Acquire(t) \/ Close(t)
      PROVE  Rasters'
  BY <1>1, RastersLeftAlone
<1>2. ASSUME NEW t \in Tab, Writes(t) PROVE Rasters'
  BY <1>2, RastersLeftAlone, SweepDeleteRasters, MintRasters, SaveRasterRasters,
     CheckAbandonedRasters, EvictForRasterRasters, PersistRunRasters, PersistEvictingRasters,
     DeleteRunRasters DEF Writes
<1>3. ASSUME NEW f \in forgets, ForgetLands(f) PROVE Rasters'
  BY <1>3, ForgetLandsRasters
<1>4. CASE UNCHANGED storageVars
  BY <1>4, RastersStand DEF storageVars
<1>5. QED
  BY <1>1, <1>2, <1>3, <1>4 DEF Next

\* Every stored run has the raster of the computation it lists, the two excepted roads
\* apart (StoredRunHasItsRaster).
THEOREM StoredRunsHaveRasters == Spec => []StoredRunHasItsRaster
<1>1. Rasters => StoredRunHasItsRaster
  BY DEF Rasters
<1>2. QED
  BY <1>1, StoreIsKept, WritersKnow, RastersInitially, RastersKept, PTL DEF Spec
-----------------------------------------------------------------------------
(* The object URLs.                                                        *)

\* The computation an id was stored for stays the only one it can name.
LEMMA RetiredStays ==
    ASSUME StoreInv, StoreInv', DocFollows, NEW i \in Ids, NEW b, Retired(i, b)
    PROVE  Retired(i, b)'
<1>1. i <= doc.mark /\ doc'.mark >= doc.mark /\ i \in Nat /\ doc.mark \in Nat
  BY DocIsTyped, StoreConstants DEF DocFollows, Retired, Ids
<1>2. ASSUME NEW r \in doc'.runs, r.id = i PROVE r.by = b
  BY <1>1, <1>2 DEF DocFollows, Retired
<1>3. doc'.mark \in Nat
  BY StoreConstants DEF StoreInv, Lists, Sane, Document
<1>4. QED
  BY <1>1, <1>2, <1>3 DEF Retired

LEMMA StoredIsRetired ==
    ASSUME StoreInv, NEW r \in doc.runs
    PROVE  Retired(r.id, r.by)
  BY DEF Retired, StoreInv, Lists, Sane

\* One tab's step, in what it does to its own copy and its own URLs.
LEMMA NamesStep ==
    ASSUME StoreInv, StoreInv', DocFollows, URLs, ~blind', blind => blind',
           unstored \subseteq unstored', NEW t \in Tab,
           \A u \in Tab : u # t => /\ cache'[u] = cache[u] /\ urls'[u] = urls[u]
                                   /\ pc'[u] = pc[u] /\ op'[u] = op[u],
           NEW i0, i0 = op[t].id, NEW b0, b0 = op[t].by,
           pc[t] = "evictAndPersist" /\ op[t].kind = "run" => Named(t, i0, b0)',
           \A i \in Ids :
              \/ urls'[t][i] \in {0, urls[t][i]}
              \/ \E r \in cache[t].runs : r.id = i /\ r.by = urls'[t][i],
           \A r \in cache'[t].runs :
              \/ \E s \in cache[t].runs : s.id = r.id /\ s.by = r.by
              \/ pc[t] # "evictAndPersist" /\ \E s \in doc.runs : s.id = r.id /\ s.by = r.by
              \/ /\ pc[t] = "persist" /\ op[t].kind = "run" /\ r.id = op[t].id /\ r.by = op[t].by
                 /\ op[t].id > doc.mark /\ Named(t, i0, b0)'
    PROVE  URLs'
<1>1. NamesAreKept /\ OnlyALostRunsURLIsStale /\ ~blind
  BY DEF URLs
<1>2. ASSUME NEW u \in Tab, u # t, NEW i \in Ids, NEW b, Named(u, i, b)
      PROVE  Named(u, i, b)'
  BY <1>2, RetiredStays DEF Named, BeingStored
<1>3. ASSUME NEW i \in Ids, NEW b, Named(t, i, b) PROVE Named(t, i, b)'
  <2>1. CASE b \in unstored \/ Retired(i, b)
    BY <2>1, RetiredStays DEF Named
  <2>2. CASE BeingStored(t, i, b)
    BY <2>2 DEF BeingStored
  <2>3. QED
    BY <1>3, <2>1, <2>2 DEF Named
<1>4. ASSUME NEW i \in Ids, urls'[t][i] # 0 PROVE Named(t, i, urls'[t][i])
  <2>1. CASE urls'[t][i] = urls[t][i]
    BY <1>1, <1>4, <2>1 DEF NamesAreKept
  <2>2. CASE \E r \in cache[t].runs : r.id = i /\ r.by = urls'[t][i]
    BY <1>1, <2>2 DEF NamesAreKept
  <2>3. QED
    BY <1>4, <2>1, <2>2
<1>5. \A u \in Tab : \A r \in cache[u].runs : r.id \in Ids /\ r.by # 0
  BY StoreConstants DEF StoreInv, Lists, Sane, Document, Run, Computation
<1>6. \A u \in Tab : \A r \in cache'[u].runs : r.id \in Ids
  BY DEF StoreInv, Lists, Sane, Document, Run
<1>7. \A r \in doc.runs : r.id \in Ids
  BY DEF StoreInv, Lists, Sane, Document, Run
<1>8. NamesAreKept'
  <2>1. ASSUME NEW u \in Tab, NEW i \in Ids, NEW b, b = urls'[u][i], b # 0
        PROVE  Named(u, i, b)'
    <3>1. Named(u, i, b)
      BY <1>1, <1>4, <2>1 DEF NamesAreKept
    <3>2. QED
      BY <1>2, <1>3, <3>1
  <2>2. ASSUME NEW u \in Tab, NEW r \in cache'[u].runs PROVE Named(u, r.id, r.by)'
    <3>1. CASE \E s \in cache[u].runs : s.id = r.id /\ s.by = r.by
      <4>1. Named(u, r.id, r.by)
        BY <1>1, <3>1 DEF NamesAreKept
      <4>2. QED
        BY <1>2, <1>3, <1>6, <4>1
    <3>2. CASE u = t /\ \E s \in doc.runs : s.id = r.id /\ s.by = r.by
      <4>1. Named(u, r.id, r.by)
        BY <3>2, StoredIsRetired DEF Named
      <4>2. QED
        BY <1>2, <1>3, <1>6, <4>1
    <3>3. CASE u = t /\ r.id = i0 /\ r.by = b0 /\ Named(t, i0, b0)'
      BY <3>3
    <3>4. QED
      BY <2>2, <3>1, <3>2, <3>3
  <2>3. QED
    BY <2>1, <2>2 DEF NamesAreKept
<1>9. ASSUME NEW u \in Tab, NEW r \in cache'[u].runs
      PROVE  urls'[u][r.id] \in {0, r.by} \cup unstored'
  <2>1. CASE u # t
    BY <1>1, <1>9, <2>1 DEF OnlyALostRunsURLIsStale
  <2>2. CASE u = t
    <3> DEFINE v == urls'[t][r.id]
    <3>1. SUFFICES ASSUME v # 0, v \notin unstored PROVE v = r.by
      BY <2>2
    <3>2. r.id \in Ids
      BY <1>6
    <3>3. Retired(r.id, v) \/ BeingStored(t, r.id, v)
      BY <1>4, <3>1, <3>2 DEF Named
    <3>4. CASE \E s \in cache[t].runs : s.id = r.id /\ s.by = r.by
      <4>1. PICK s \in cache[t].runs : s.id = r.id /\ s.by = r.by
        BY <3>4
      <4>2. CASE v = urls[t][r.id]
        BY <1>1, <3>1, <4>1, <4>2 DEF OnlyALostRunsURLIsStale
      <4>3. CASE \E q \in cache[t].runs : q.id = r.id /\ q.by = v
        BY <4>1, <4>3 DEF StoreInv, Lists, Sane
      <4>4. QED
        BY <3>1, <3>2, <4>2, <4>3
    <3>5. CASE pc[t] # "evictAndPersist" /\ \E s \in doc.runs : s.id = r.id /\ s.by = r.by
      BY <3>3, <3>5 DEF BeingStored, Retired
    <3>6. CASE /\ pc[t] = "persist" /\ op[t].kind = "run" /\ r.id = op[t].id /\ r.by = op[t].by
               /\ op[t].id > doc.mark
      BY <3>2, <3>3, <3>6, DocIsTyped, StoreConstants DEF BeingStored, Retired, Ids
    <3>7. QED
      BY <1>9, <2>2, <3>4, <3>5, <3>6
  <2>3. QED
    BY <2>1, <2>2
<1>10. OnlyALostRunsURLIsStale'
  BY <1>9 DEF OnlyALostRunsURLIsStale
<1>11. QED
  BY <1>8, <1>10 DEF URLs

\* A step that leaves the copies and the URLs alone.
LEMMA URLsStand ==
    ASSUME StoreInv, StoreInv', DocFollows, URLs, ~blind', NEW t \in Tab,
           \/ Request(t) \/ Acquire(t) \/ SweepDelete(t) \/ Compute(t) \/ SaveRaster(t)
           \/ SaveRasterAgain(t) \/ CheckAbandoned(t) \/ Release(t)
    PROVE  URLs'
<1> USE DEF StoreInv, Typed
<1>1. UNCHANGED <<cache, urls, unstored>>
  BY DEF Request, Acquire, SweepDelete, Compute, SaveRaster, SaveRasterAgain, CheckAbandoned,
         Release, tabVars, history
<1>2. \A u \in Tab : u # t => pc'[u] = pc[u] /\ op'[u] = op[u]
  <2>1. CASE Request(t) \/ Acquire(t) \/ Release(t)
    BY <2>1 DEF Request, Acquire, Release, Goto, WritersTyped
  <2>2. CASE \/ SweepDelete(t) \/ Compute(t) \/ SaveRaster(t) \/ SaveRasterAgain(t)
             \/ CheckAbandoned(t)
    BY <2>2 DEF SweepDelete, Compute, SaveRaster, SaveRasterAgain, CheckAbandoned, Goto, Ends,
                WritersTyped
  <2>3. QED
    BY <2>1, <2>2
<1>3. pc[t] \notin {"persist", "evictAndPersist"}
  BY DEF Request, Acquire, SweepDelete, Compute, SaveRaster, SaveRasterAgain, CheckAbandoned,
         Release
<1>4. blind => blind'
  BY DEF Request, Acquire, SweepDelete, Compute, SaveRaster, SaveRasterAgain, CheckAbandoned,
         Release, WritesRaster, history
<1>5. QED
  BY <1>1, <1>2, <1>3, <1>4, NamesStep

LEMMA LoadNames ==
    ASSUME StoreInv, StoreInv', DocFollows, URLs, ~blind', NEW t \in Tab, Load(t) PROVE URLs'
<1>1. /\ pc[t] = "idle" /\ UNCHANGED <<urls, pc, op, blind, unstored>>
      /\ cache' = [cache EXCEPT ![t] = doc] \/ cache' = cache
  BY DEF Load, Caches, writerVars, history
<1>2. /\ \A u \in Tab : u # t => cache'[u] = cache[u]
      /\ cache'[t] \in {doc, cache[t]}
  BY <1>1 DEF StoreInv, Copies
<1>3. QED
  BY <1>1, <1>2, NamesStep

LEMMA ViewArtifactNames ==
    ASSUME StoreInv, StoreInv', DocFollows, URLs, ~blind', NEW t \in Tab, ViewArtifact(t)
    PROVE  URLs'
<1> USE DEF StoreInv, Typed
<1>1. /\ UNCHANGED <<doc, cache, pc, op, blind, unstored>>
      /\ \E r \in cache[t].runs : urls' = [urls EXCEPT ![t][r.id] = r.by]
  BY DEF ViewArtifact, storeVars, writerVars, history
<1>2. PICK r \in cache[t].runs : urls' = [urls EXCEPT ![t][r.id] = r.by]
  BY <1>1
<1>3. r.id \in Ids
  BY DEF Lists, Sane, Document, Run
<1> DEFINE new == [urls[t] EXCEPT ![r.id] = r.by]
<1>4. urls[t] \in [Ids -> {0} \cup Computation]
  BY DEF TabsTyped
<1>5. \A i \in Ids : new[i] = IF i = r.id THEN r.by ELSE urls[t][i]
  BY <1>4
<1>6. urls' = [urls EXCEPT ![t] = new]
  BY <1>2
<1> HIDE DEF new
<1>7. urls'[t] = new /\ \A u \in Tab : u # t => urls'[u] = urls[u]
  BY <1>6 DEF TabsTyped
<1>8. ASSUME NEW i0, i0 = op[t].id, NEW b0, b0 = op[t].by,
             pc[t] = "evictAndPersist", op[t].kind = "run"
      PROVE  Named(t, i0, b0)'
  BY <1>1, <1>8 DEF Named, BeingStored
<1>9. \A i \in Ids :
          \/ urls'[t][i] \in {0, urls[t][i]}
          \/ \E q \in cache[t].runs : q.id = i /\ q.by = urls'[t][i]
  BY <1>5, <1>7
<1>10. QED
  BY <1>1, <1>7, <1>8, <1>9, NamesStep

LEMMA RevokesIs ==
    ASSUME TabsTyped, NEW t \in Tab, NEW d, urls' = urls \/ Revokes(t, d)
    PROVE  /\ \A i \in Ids : urls'[t][i] \in {0, urls[t][i]}
           /\ \A u \in Tab : u # t => urls'[u] = urls[u]
<1>1. CASE urls' = urls
  BY <1>1
<1>2. CASE Revokes(t, d)
  <2>1. urls' = [urls EXCEPT ![t] = Pruned(t, d.runs)]
    BY <1>2 DEF Revokes
  <2>2. urls'[t] = Pruned(t, d.runs) /\ \A u \in Tab : u # t => urls'[u] = urls[u]
    BY <2>1 DEF TabsTyped
  <2>3. QED
    BY <2>2 DEF Pruned
<1>3. QED
  BY <1>1, <1>2

\* A step that takes the document, or runs of it, into the copy.
LEMMA ReadingNames ==
    ASSUME StoreInv, StoreInv', DocFollows, URLs, ~blind', blind => blind',
           unstored \subseteq unstored', NEW t \in Tab,
           pc[t] \notin {"persist", "evictAndPersist"},
           NEW state \in Seen(t), NEW c, c.runs \subseteq state.runs,
           cache' = [cache EXCEPT ![t] = c], NEW d, urls' = urls \/ Revokes(t, d),
           \A u \in Tab : u # t => pc'[u] = pc[u] /\ op'[u] = op[u]
    PROVE  URLs'
<1>1. /\ cache'[t] = c /\ \A u \in Tab : u # t => cache'[u] = cache[u]
  BY DEF StoreInv, Copies
<1>2. /\ \A i \in Ids : urls'[t][i] \in {0, urls[t][i]}
      /\ \A u \in Tab : u # t => urls'[u] = urls[u]
  BY RevokesIs DEF StoreInv, Typed
<1>3. \A r \in cache'[t].runs :
         \/ \E s \in cache[t].runs : s.id = r.id /\ s.by = r.by
         \/ \E s \in doc.runs : s.id = r.id /\ s.by = r.by
  BY <1>1 DEF Seen
<1>4. QED
  BY <1>1, <1>2, <1>3, NamesStep

LEMMA ReadsNames ==
    ASSUME StoreInv, StoreInv', DocFollows, URLs, ~blind', NEW t \in Tab,
           SweepRead(t) \/ Mint(t) \/ FindForExport(t)
    PROVE  URLs'
<1> USE DEF StoreInv, Typed
<1>1. PICK state \in Seen(t) : cache' = [cache EXCEPT ![t] = state]
  BY DEF SweepRead, Mint, FindForExport, Caches
<1>2. pc[t] \in {"sweep", "begin"} /\ UNCHANGED <<urls, blind, unstored>>
  BY DEF SweepRead, Mint, FindForExport, history
<1>3. \A u \in Tab : u # t => pc'[u] = pc[u] /\ op'[u] = op[u]
  BY DEF SweepRead, Mint, FindForExport, Goto, Ends, WritersTyped
<1>4. QED
  BY <1>1, <1>2, <1>3, ReadingNames

LEMMA EvictForRasterNames ==
    ASSUME StoreInv, StoreInv', DocFollows, URLs, ~blind', NEW t \in Tab, EvictForRaster(t)
    PROVE  URLs'
<1> USE DEF StoreInv, Typed
<1>1. PICK state \in Seen(t) :
         LET evicted == Evicted(state, op[t].id)
         IN  /\ \/ cache' = [cache EXCEPT ![t] = state]
                \/ Evictable(state, op[t].id) # {} /\ cache' = [cache EXCEPT ![t] = evicted]
             /\ urls' = urls \/ Revokes(t, evicted)
  BY DEF EvictForRaster, Caches
<1>2. pc[t] = "evict" /\ UNCHANGED <<op, unstored>> /\ (blind => blind')
  <2>1. blind => blind'
    BY DEF EvictForRaster, Commits, Uncommitted
  <2>2. QED
    BY <2>1 DEF EvictForRaster
<1>3. \A u \in Tab : u # t => pc'[u] = pc[u] /\ op'[u] = op[u]
  BY <1>2 DEF EvictForRaster, Goto, Ends, WritersTyped
<1>4. PICK c : c.runs \subseteq state.runs /\ cache' = [cache EXCEPT ![t] = c]
  BY <1>1, SeenIsSane, EvictedIs
<1>5. QED
  BY <1>1, <1>2, <1>3, <1>4, ReadingNames

LEMMA DeleteRunNames ==
    ASSUME StoreInv, StoreInv', DocFollows, URLs, ~blind', NEW t \in Tab, DeleteRun(t)
    PROVE  URLs'
<1> USE DEF StoreInv, Typed
<1>1. PICK state \in Seen(t) :
         LET without == [state EXCEPT !.runs = {r \in @ : r.id # op[t].id}]
         IN  /\ \/ cache' = [cache EXCEPT ![t] = state]
                \/ cache' = [cache EXCEPT ![t] = without]
             /\ urls' = urls \/ Revokes(t, without)
  BY DEF DeleteRun, Caches
<1>2. pc[t] = "begin" /\ UNCHANGED <<op, unstored>> /\ (blind => blind')
  <2>1. blind => blind'
    BY DEF DeleteRun, Commits, Uncommitted
  <2>2. QED
    BY <2>1 DEF DeleteRun
<1>3. \A u \in Tab : u # t => pc'[u] = pc[u] /\ op'[u] = op[u]
  BY <1>2 DEF DeleteRun, Goto, Ends, WritersTyped
<1>4. state \in [runs: SUBSET Run, mark: 0..MaxComputes]
  BY SeenIsSane DEF Sane, Document
<1>5. [state EXCEPT !.runs = {r \in @ : r.id # op[t].id}].runs \subseteq state.runs
  BY <1>4
<1>6. PICK c : c.runs \subseteq state.runs /\ cache' = [cache EXCEPT ![t] = c]
  BY <1>1, <1>5
<1>7. QED
  BY <1>1, <1>2, <1>3, <1>6, ReadingNames

LEMMA CloseNames ==
    ASSUME StoreInv, StoreInv', DocFollows, URLs, NEW t \in Tab, Close(t)
    PROVE  URLs'
<1> USE DEF StoreInv, Typed
<1>1. UNCHANGED <<doc, blind, unstored>>
  BY DEF Close, storeVars, history
<1>2. /\ cache'[t].runs = {} /\ urls'[t] = [i \in Ids |-> 0]
      /\ \A u \in Tab : u # t => /\ cache'[u] = cache[u] /\ urls'[u] = urls[u]
                                 /\ pc'[u] = pc[u] /\ op'[u] = op[u]
  BY DEF Close, Caches, Goto, InitialState, WritersTyped, TabsTyped, Copies
<1>3. NamesAreKept'
  <2>1. ASSUME NEW u \in Tab, u # t, NEW i, NEW b, Named(u, i, b) PROVE Named(u, i, b)'
    BY <1>1, <1>2, <2>1 DEF Named, Retired, BeingStored
  <2>2. ASSUME ~blind', NEW u \in Tab, NEW i \in Ids, NEW b, b = urls'[u][i], b # 0
        PROVE  Named(u, i, b)'
    <3>1. u # t
      BY <1>2, <2>2
    <3>2. Named(u, i, b)
      BY <1>1, <1>2, <2>2, <3>1 DEF URLs, NamesAreKept
    <3>3. QED
      BY <2>1, <3>1, <3>2
  <2>3. ASSUME ~blind', NEW u \in Tab, NEW r \in cache'[u].runs PROVE Named(u, r.id, r.by)'
    <3>1. u # t
      BY <1>2, <2>3
    <3>2. Named(u, r.id, r.by)
      BY <1>1, <1>2, <2>3, <3>1 DEF URLs, NamesAreKept
    <3>3. QED
      BY <2>1, <3>1, <3>2
  <2>4. QED
    BY <2>2, <2>3 DEF NamesAreKept
<1>4. OnlyALostRunsURLIsStale'
  BY <1>1, <1>2 DEF URLs, OnlyALostRunsURLIsStale
<1>5. QED
  BY <1>3, <1>4 DEF URLs

\* The run being stored is named before its name is written, while the retry is under
\* way and, when it is lost, for ever.
LEMMA PersistRunNames ==
    ASSUME StoreInv, StoreInv', Writers, DocFollows, URLs, ~blind', NEW t \in Tab, PersistRun(t)
    PROVE  URLs'
<1> USE DEF StoreInv, Typed
<1> DEFINE rec == ToStore(t)
<1>1. PICK state \in Seen(t) :
         LET next == SetRun(state, rec)
             drop == IdsOf(state.runs) \ IdsOf(next.runs)
         IN  /\ cache' = [cache EXCEPT ![t] = next] /\ Revokes(t, next)
             /\ \/ doc' = next /\ unstored' = unstored /\ op' = op
                \/ /\ op' = [op EXCEPT ![t].drop = drop]
                   /\ pc' = [pc EXCEPT ![t] = "evictAndPersist"] /\ unstored' = unstored
                \/ ForgetsIfRun(t) /\ op' = op
  BY DEF PersistRun, Caches, Commits, Goto
<1>2. pc[t] = "persist" /\ (blind => blind')
  <2>1. blind => blind'
    BY DEF PersistRun, Commits, Uncommitted
  <2>2. QED
    BY <2>1 DEF PersistRun
<1> DEFINE next == SetRun(state, rec)
<1>3. /\ rec \in Run /\ rec.id = op[t].id
      /\ \/ op[t].kind = "run" /\ rec.by = op[t].by
         \/ /\ op[t].kind = "export"
            /\ \E s \in cache[t].runs : s.id = op[t].id /\ s.by = rec.by
  BY <1>2, StoredRecord
<1> HIDE DEF rec
<1>4. /\ next.runs \subseteq Merged(state, rec)
      /\ next.mark = IF rec.id > state.mark THEN rec.id ELSE state.mark
  BY SetRunIs
<1>5. op[t].kind = "run" => op[t].id > doc.mark
  BY PersistRunStores
<1>6. \A u \in Tab : u # t => pc'[u] = pc[u]
  BY DEF PersistRun, Goto, Ends, WritersTyped
<1>7. /\ \A u \in Tab : u # t => op'[u] = op[u]
      /\ op'[t].id = op[t].id /\ op'[t].by = op[t].by /\ op'[t].kind = op[t].kind
  <2>1. op' = op \/ \E drop : op' = [op EXCEPT ![t].drop = drop]
    BY <1>1
  <2>2. QED
    BY <2>1 DEF WritersTyped
<1>8. ASSUME NEW i0, i0 = op[t].id, NEW b0, b0 = op[t].by, op[t].kind = "run"
      PROVE  Named(t, i0, b0)'
  <2>1. CASE doc' = next
    <3>1. rec.id \in Nat /\ state.mark \in Nat
      BY <1>3, SeenIsSane, StoreConstants DEF Sane, Document, Run, Ids
    <3>2. next.mark >= i0
      BY <1>3, <1>4, <1>8, <3>1
    <3>3. \A r \in next.runs : r.id = i0 => r = rec
      BY <1>3, <1>4, <1>8 DEF Merged
    <3>4. rec.by = b0
      BY <1>3, <1>8
    <3>5. QED
      BY <2>1, <3>2, <3>3, <3>4 DEF Named, Retired
  <2>2. CASE pc' = [pc EXCEPT ![t] = "evictAndPersist"]
    <3>1. pc'[t] = "evictAndPersist"
      BY <2>2 DEF WritersTyped
    <3>2. QED
      BY <1>7, <1>8, <3>1 DEF Named, BeingStored
  <2>3. CASE ForgetsIfRun(t)
    BY <1>8, <2>3 DEF ForgetsIfRun, Named
  <2>4. QED
    BY <1>1, <2>1, <2>2, <2>3
<1>9. /\ cache'[t] = next /\ \A u \in Tab : u # t => cache'[u] = cache[u]
  BY <1>1 DEF Copies
<1>10. /\ \A i \in Ids : urls'[t][i] \in {0, urls[t][i]}
       /\ \A u \in Tab : u # t => urls'[u] = urls[u]
  BY <1>1, RevokesIs
<1>11. unstored \subseteq unstored'
  BY <1>1 DEF ForgetsIfRun
<1>12. ASSUME NEW i0, i0 = op[t].id, NEW b0, b0 = op[t].by, NEW r \in cache'[t].runs
       PROVE  \/ \E s \in cache[t].runs : s.id = r.id /\ s.by = r.by
              \/ \E s \in doc.runs : s.id = r.id /\ s.by = r.by
              \/ /\ op[t].kind = "run" /\ r.id = op[t].id /\ r.by = op[t].by
                 /\ op[t].id > doc.mark /\ Named(t, i0, b0)'
  <2>1. r \in state.runs \/ r = rec
    BY <1>4, <1>9, <1>12 DEF Merged
  <2>2. CASE r \in state.runs
    BY <2>2 DEF Seen
  <2>3. CASE r = rec
    BY <1>3, <1>5, <1>8, <1>12, <2>3
  <2>4. QED
    BY <2>1, <2>2, <2>3
<1> HIDE DEF next
<1>13. QED
  BY <1>2, <1>6, <1>7, <1>9, <1>10, <1>11, <1>12, NamesStep

LEMMA PersistEvictingNames ==
    ASSUME StoreInv, StoreInv', Writers, DocFollows, URLs, ~blind', NEW t \in Tab,
           PersistEvicting(t)
    PROVE  URLs'
<1> USE DEF StoreInv, Typed
<1> DEFINE evicted == Evicted(cache[t], op[t].id)
           room == Evictable(cache[t], op[t].id)
<1>1. /\ pc[t] = "evictAndPersist" /\ op' = op
      /\ pc' = [pc EXCEPT ![t] = "end"]
      /\ \/ cache' = cache
         \/ cache' = [cache EXCEPT ![t] = cache[t]]
         \/ room # {} /\ cache' = [cache EXCEPT ![t] = evicted]
      /\ urls' = urls \/ Revokes(t, evicted)
      /\ \/ room # {} /\ doc' = evicted /\ blind' = (blind \/ ~readable'[t])
            /\ readable' = readable /\ unstored' = unstored
         \/ ForgetsIfRun(t)
  BY DEF PersistEvicting, Caches, Commits, Goto, Ends
<1>2. blind => blind'
  BY DEF PersistEvicting, Commits, Uncommitted
<1>3. Sane(cache[t], computed)
  BY DEF Lists
<1>4. room # {} => evicted.runs \subseteq cache[t].runs /\ evicted.mark = cache[t].mark
  BY <1>3, EvictedIs
<1> HIDE DEF evicted, room
<1>5. /\ cache'[t].runs \subseteq cache[t].runs
      /\ \A u \in Tab : u # t => cache'[u] = cache[u] /\ pc'[u] = pc[u] /\ op'[u] = op[u]
  BY <1>1, <1>4 DEF Copies, WritersTyped
<1>6. /\ \A i \in Ids : urls'[t][i] \in {0, urls[t][i]}
      /\ \A u \in Tab : u # t => urls'[u] = urls[u]
  BY <1>1, RevokesIs
<1>7. unstored \subseteq unstored'
  BY <1>1 DEF ForgetsIfRun
<1>8. ASSUME NEW i0, i0 = op[t].id, NEW b0, b0 = op[t].by, op[t].kind = "run"
      PROVE  Named(t, i0, b0)'
  <2>1. CASE room # {} /\ doc' = evicted /\ blind' = (blind \/ ~readable'[t]) /\ readable' = readable
    <3>1. readable[t]
      BY <2>1
    <3>2. Follows(cache[t], op[t].drop, op[t], doc) /\ op[t].id > doc.mark
      BY <1>1, <1>8, <3>1 DEF Writers, Writer, Minted, Written
    <3>3. doc'.mark >= i0
      BY <1>4, <1>8, <2>1, <3>2 DEF Follows
    <3>4. \A r \in doc.runs : r.id <= doc.mark /\ r.id \in Nat /\ doc.mark \in Nat /\ op[t].id \in Nat
      BY DocIsTyped, StoreConstants DEF Lists, Sane, WritersTyped, Ids
    <3>5. \A r \in doc'.runs : r.id = i0 => r.by = b0
      BY <1>4, <1>8, <2>1, <3>2, <3>4 DEF Follows
    <3>6. QED
      BY <3>3, <3>5 DEF Named, Retired
  <2>2. CASE ForgetsIfRun(t)
    BY <1>8, <2>2 DEF ForgetsIfRun, Named
  <2>3. QED
    BY <1>1, <2>1, <2>2
<1>9. \A r \in cache'[t].runs : \E s \in cache[t].runs : s.id = r.id /\ s.by = r.by
  BY <1>5
<1>10. QED
  BY <1>2, <1>5, <1>6, <1>7, <1>8, <1>9, NamesStep

LEMMA URLsInitially == Init => URLs
  BY DEF Init, InitialState, URLs, NamesAreKept, OnlyALostRunsURLIsStale

LEMMA URLsKept == StoreInv /\ StoreInv' /\ Writers /\ URLs /\ [Next]_storageVars => URLs'
<1> SUFFICES ASSUME StoreInv, StoreInv', Writers, URLs, [Next]_storageVars PROVE URLs'
  OBVIOUS
<1>1. CASE blind'
  BY <1>1 DEF URLs, NamesAreKept, OnlyALostRunsURLIsStale
<1>2. CASE ~blind'
  <2>1. DocFollows
    BY <1>2, EveryStepFollows
  <2>2. ASSUME NEW t \in Tab, Load(t) \/ ViewArtifact(t) \/ Request(t) \/ Acquire(t) \/ Close(t)
        PROVE  URLs'
    BY <1>2, <2>1, <2>2, LoadNames, ViewArtifactNames, URLsStand, CloseNames
  <2>3. ASSUME NEW t \in Tab, Writes(t) PROVE URLs'
    BY <1>2, <2>1, <2>3, URLsStand, ReadsNames, EvictForRasterNames, PersistRunNames,
       PersistEvictingNames, DeleteRunNames DEF Writes
  <2>4. ASSUME UNCHANGED <<doc, cache, urls, pc, op, blind, unstored>> PROVE URLs'
    BY <2>4 DEF URLs, NamesAreKept, Named, Retired, BeingStored, OnlyALostRunsURLIsStale
  <2>5. ASSUME NEW f \in forgets, ForgetLands(f) PROVE URLs'
    BY <2>4, <2>5 DEF ForgetLands, tabVars, writerVars
  <2>6. CASE UNCHANGED storageVars
    BY <2>4, <2>6 DEF storageVars
  <2>7. QED
    BY <2>2, <2>3, <2>5, <2>6 DEF Next
<1>3. QED
  BY <1>1, <1>2

\* The object URL a tab shows for a run it lists is that run's own, or of a run that
\* could not be stored (OnlyALostRunsURLIsStale).
THEOREM URLsAreTheRunsOwn == Spec => []OnlyALostRunsURLIsStale
<1>1. URLs => OnlyALostRunsURLIsStale
  BY DEF URLs
<1>2. QED
  BY <1>1, StoreIsKept, WritersKnow, URLsInitially, URLsKept, PTL DEF Spec
=============================================================================
