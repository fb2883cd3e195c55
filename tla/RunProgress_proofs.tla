------------------------- MODULE RunProgress_proofs -------------------------
(***************************************************************************)
(* Proofs about how a run's progress is made and told, for every value of    *)
(* the constants.  ProjectEvents: its types, and that an open run on screen  *)
(* is always watched.  ReceiverPool: its types, that the pooled walk answers *)
(* as the sequential one would, and that its reports keep up.                *)
(***************************************************************************)
EXTENDS ProjectEvents, ReceiverPool, SequenceTheorems, FiniteSetTheorems,
        WellFoundedInduction, TLAPS

-----------------------------------------------------------------------------
(* The events feed.                                                         *)

\* Only a visible list has a stream, and what it carries is the last thing it was
\* told, once that has arrived.
StreamKept ==
    /\ link # "off" => mounted /\ visible
    /\ carried # {} => link \in {"up", "silent"}
    /\ link = "up" => /\ wire # << >> => wire[Len(wire)] = told
                      /\ wire = << >> /\ told.available => carried = Says(told)

\* The idle poll is the interval only of a list whose open runs are carried.
PollKept ==
    mounted /\ listFetch = NoRequest /\ ~failed /\ poll = "idle" =>
        OpenIn(runsList) \subseteq carried

FeedInv == FeedTypeOK /\ StreamKept /\ PollKept

-----------------------------------------------------------------------------
\* An event is one, whatever the manifest holds, and says which runs are open.
LEMMA EventType ==
    ASSUME rows \in [RowIds -> Rows]
    PROVE  Event \in Events /\ Event.available /\ Says(Event) = OpenIn(rows)
<1> DEFINE listed == {r \in RowIds : rows[r] # NoRow}
           latest == {r \in listed : \A q \in listed : q <= r}
           statusOf == [r \in latest |-> rows[r].status]
           progressOf == [r \in OpenIn(rows) |-> rows[r].progress]
<1>1. \A r \in latest : rows[r].status \in {"running", "settled"}
  BY DEF Rows, NoRow, OpenRow, EndedRow
<1>2. \A r \in OpenIn(rows) : r \in RowIds /\ rows[r].progress \in 0..MaxProgress
  BY DEF OpenIn, Rows, NoRow, OpenRow, EndedRow
<1>3. statusOf \in PartialOn({"running", "settled"})
  <2>1. latest \in SUBSET RowIds
    OBVIOUS
  <2>2. statusOf \in [latest -> {"running", "settled"}]
    BY <1>1
  <2> QED
    BY <2>1, <2>2 DEF PartialOn
<1>4. progressOf \in PartialOn(0..MaxProgress)
  <2>1. OpenIn(rows) \in SUBSET RowIds
    BY <1>2
  <2>2. progressOf \in [OpenIn(rows) -> 0..MaxProgress]
    BY <1>2
  <2> QED
    BY <2>1, <2>2 DEF PartialOn
<1>5. Event = [available |-> TRUE, last |-> statusOf, active |-> progressOf]
  BY DEF Event
<1> HIDE DEF statusOf, progressOf
<1>6. Event \in Events /\ Event.available /\ Event.active = progressOf
  BY <1>3, <1>4, <1>5 DEF Events
<1>7. DOMAIN progressOf = OpenIn(rows)
  BY DEF progressOf
<1> QED
  BY <1>6, <1>7 DEF Says

LEMMA NoProjectType == NoProject \in Events
<1>1. << >> \in PartialOn({"running", "settled"}) /\ << >> \in PartialOn(0..MaxProgress)
  <2>1. {} \in SUBSET RowIds
    OBVIOUS
  <2>2. << >> \in [{} -> {"running", "settled"}] /\ << >> \in [{} -> 0..MaxProgress]
    OBVIOUS
  <2> QED
    BY <2>1, <2>2 DEF PartialOn
<1> QED
  BY <1>1 DEF NoProject, Events

LEMMA EventParts ==
    ASSUME NEW event \in Events
    PROVE  /\ Says(event) \subseteq RowIds
           /\ event.available \in BOOLEAN
           /\ \A r \in DOMAIN event.active : event.active[r] \in 0..MaxProgress
<1>1. event.active \in PartialOn(0..MaxProgress) /\ event.available \in BOOLEAN
  BY DEF Events
<1>2. PICK D \in SUBSET RowIds : event.active \in [D -> 0..MaxProgress]
  BY <1>1 DEF PartialOn
<1> QED
  BY <1>1, <1>2 DEF Says

\* The poll is idle only if every open run is carried.
LEMMA IntervalOf ==
    ASSUME NEW runs, NEW pushed
    PROVE  /\ Interval(runs, pushed) \in {"fast", "idle"}
           /\ Interval(runs, pushed) = "idle" => OpenIn(runs) \subseteq pushed
BY DEF Interval

LEMMA PatchedType ==
    ASSUME runsList \in [RowIds -> Rows], NEW event \in Events
    PROVE  Patched(event.active) \in [RowIds -> Rows]
<1>1. \A r \in DOMAIN event.active : OpenRow(event.active[r]) \in Rows
  BY EventParts DEF Rows
<1> QED
  BY <1>1 DEF Patched
-----------------------------------------------------------------------------
(* Types. *)

LEMMA FeedInitType == FeedInit => FeedTypeOK
<1> SUFFICES ASSUME FeedInit PROVE FeedTypeOK
  OBVIOUS
<1>1. rows \in [RowIds -> Rows]
  BY DEF FeedInit, Rows
<1>2. told \in Events /\ wire \in Seq(Events) /\ Len(wire) <= WireRoom
  BY NoProjectType, FeedAssumption DEF FeedInit
<1>3. created \in 0..MaxRows /\ mishaps \in 0..MaxMishaps
  BY FeedAssumption DEF FeedInit
<1> QED
  BY <1>1, <1>2, <1>3 DEF FeedInit, FeedTypeOK

LEMMA RowsBecomeType ==
    ASSUME FeedTypeOK, NEW r \in RowIds, NEW row \in Rows, RowsBecome(r, row),
           created' \in 0..MaxRows
    PROVE  FeedTypeOK'
BY DEF FeedTypeOK, RowsBecome

LEMMA MishapType ==
    ASSUME mishaps \in 0..MaxMishaps, Mishap
    PROVE  mishaps' \in 0..MaxMishaps
BY FeedAssumption DEF Mishap

LEMMA InvalidatedType ==
    ASSUME FeedTypeOK
    PROVE  /\ Invalidated # NoRequest
           /\ Invalidated \in {Requested} \cup {AnsweredBy(runs) : runs \in [RowIds -> Rows]}
BY DEF FeedTypeOK, Invalidated, Requested, NoRequest

LEMMA ClosesType ==
    ASSUME Closes
    PROVE  /\ link' = "off" /\ told' \in Events /\ carried' \subseteq RowIds
           /\ wire' \in Seq(Events) /\ Len(wire') <= WireRoom
BY NoProjectType, FeedAssumption DEF Closes

LEMMA AppliesType ==
    ASSUME FeedTypeOK, NEW event \in Events, Applies(event)
    PROVE  /\ carried' \subseteq RowIds
           /\ runsList' \in {NoList} \cup [RowIds -> Rows] /\ poll' \in {"fast", "idle"}
           /\ listFetch' \in {NoRequest, Requested}
                               \cup {AnsweredBy(runs) : runs \in [RowIds -> Rows]}
           /\ failed' \in BOOLEAN
<1>1. carried' \subseteq RowIds
  BY EventParts DEF Applies
<1>2. runsList # NoList => Patched(event.active) \in [RowIds -> Rows]
  BY PatchedType DEF FeedTypeOK
<1>3. Interval(Patched(event.active), Says(event)) \in {"fast", "idle"}
  BY IntervalOf
<1> QED
  BY <1>1, <1>2, <1>3, InvalidatedType DEF Applies, FeedTypeOK

LEMMA FeedStepType == FeedTypeOK /\ [FeedNext]_feedVars => FeedTypeOK'
<1> SUFFICES ASSUME FeedTypeOK, [FeedNext]_feedVars PROVE FeedTypeOK'
  OBVIOUS
<1>1. CASE CreateRow
  <2>1. created + 1 \in RowIds /\ created' \in 0..MaxRows /\ OpenRow(0) \in Rows
    BY <1>1, FeedAssumption DEF CreateRow, FeedTypeOK, RowIds, Rows
  <2> QED
    BY <1>1, <2>1, RowsBecomeType DEF CreateRow
<1>2. ASSUME NEW r \in RowIds, ReportProgress(r) PROVE FeedTypeOK'
  <2>1. rows[r].progress \in 0..MaxProgress
    BY <1>2 DEF ReportProgress, FeedTypeOK, Rows, NoRow, EndedRow, OpenRow
  <2>2. OpenRow(rows[r].progress + 1) \in Rows
    BY <1>2, <2>1, FeedAssumption DEF ReportProgress, Rows
  <2> QED
    BY <1>2, <2>2, RowsBecomeType DEF ReportProgress, FeedTypeOK
<1>3. ASSUME NEW r \in RowIds, SettleRow(r) \/ DeleteRow(r) PROVE FeedTypeOK'
  <2>1. EndedRow \in Rows /\ NoRow \in Rows
    BY DEF Rows
  <2> QED
    BY <1>3, <2>1, RowsBecomeType DEF SettleRow, DeleteRow, FeedTypeOK
<1>4. CASE FastPoll \/ IdlePoll
  BY <1>4 DEF FastPoll, IdlePoll, Poll, FeedTypeOK, ServerSide, Stream, Screen
<1>5. CASE UserRefetches
  BY <1>5, MishapType DEF UserRefetches, FeedTypeOK, ServerSide, Stream, Screen
<1>6. CASE AnswerList
  BY <1>6 DEF AnswerList, FeedTypeOK, ServerSide, Stream, Screen
<1>7. CASE FetchFails
  BY <1>7, MishapType DEF FetchFails, FeedTypeOK, ServerSide, Stream, Screen
<1>8. CASE LandList
  <2>1. listFetch.of \in [RowIds -> Rows]
    BY <1>8 DEF LandList, FeedTypeOK, NoRequest, Requested, AnsweredBy
  <2> QED
    BY <1>8, <2>1, IntervalOf DEF LandList, FeedTypeOK, ServerSide, Stream, Screen
<1>9. CASE Connect
  <2>1. told' \in Events
    BY <1>9, EventType, NoProjectType DEF Connect, FeedTypeOK
  <2>2. mishaps' \in 0..MaxMishaps
    <3>1. told' = NoProject => mishaps < MaxMishaps
      BY <1>9, EventType DEF Connect, NoProject, FeedTypeOK
    <3> QED
      BY <1>9, <3>1, FeedAssumption DEF Connect, FeedTypeOK
  <2>3. wire' \in Seq(Events) /\ Len(wire') <= WireRoom
    BY <1>9, <2>1, FeedAssumption DEF Connect
  <2> QED
    BY <1>9, <2>1, <2>2, <2>3 DEF Connect, FeedTypeOK, ServerSide, Screen
<1>10. CASE PushStatus
  <2>1. told' \in Events
    BY <1>10, EventType, NoProjectType DEF PushStatus, FeedTypeOK
  <2>2. wire' \in Seq(Events) /\ Len(wire') <= WireRoom
    BY <1>10, <2>1, FeedAssumption DEF PushStatus, FeedTypeOK
  <2>3. mishaps' \in 0..MaxMishaps
    BY <1>10, MishapType DEF PushStatus, FeedTypeOK
  <2> QED
    BY <1>10, <2>1, <2>2, <2>3 DEF PushStatus, FeedTypeOK, ServerSide, Screen
<1>11. CASE DeliverEvent
  <2>1. Head(wire) \in Events /\ wire' \in Seq(Events) /\ Len(wire') <= WireRoom
    BY <1>11, FeedAssumption DEF DeliverEvent, FeedTypeOK
  <2>2. CASE Head(wire).available
    BY <1>11, <2>1, <2>2, AppliesType DEF DeliverEvent, FeedTypeOK, ServerSide, Screen
  <2>3. CASE ~Head(wire).available
    BY <1>11, <2>1, <2>3 DEF DeliverEvent, FeedTypeOK, ServerSide, Screen
  <2> QED
    BY <2>2, <2>3
<1>12. CASE FallSilent
  BY <1>12, MishapType, FeedAssumption DEF FallSilent, FeedTypeOK, ServerSide, Screen
<1>13. CASE Drop \/ Stall
  <2>1. LosesStream /\ mishaps' \in 0..MaxMishaps
    BY <1>13, MishapType DEF Drop, Stall, FeedTypeOK
  <2> QED
    BY <2>1, InvalidatedType, NoProjectType, FeedAssumption
       DEF LosesStream, FeedTypeOK, ServerSide, Screen
<1>14. CASE Mount
  BY <1>14, InvalidatedType, IntervalOf DEF Mount, FeedTypeOK, ServerSide
<1>15. CASE Unmount
  <2>1. mishaps' \in 0..MaxMishaps
    BY <1>15, MishapType DEF Unmount, FeedTypeOK
  <2> QED
    BY <1>15, <2>1, ClosesType DEF Unmount, FeedTypeOK, ServerSide
<1>16. CASE Hide
  <2>1. mishaps' \in 0..MaxMishaps
    BY <1>16, MishapType DEF Hide, FeedTypeOK
  <2> QED
    BY <1>16, <2>1, ClosesType, InvalidatedType DEF Hide, FeedTypeOK, ServerSide
<1>17. CASE Show
  BY <1>17 DEF Show, FeedTypeOK, ServerSide
<1>18. CASE UNCHANGED feedVars
  BY <1>18 DEF feedVars, FeedTypeOK
<1> QED
  BY <1>1, <1>2, <1>3, <1>4, <1>5, <1>6, <1>7, <1>8, <1>9, <1>10, <1>11, <1>12, <1>13, <1>14,
     <1>15, <1>16, <1>17, <1>18 DEF FeedNext

\* Every variable of the feed keeps its type, and the wire its bound.
THEOREM FeedTypeCorrect == FeedSpec => []FeedTypeOK
<1>1. QED
  BY FeedInitType, FeedStepType, PTL DEF FeedSpec, FeedSafety

-----------------------------------------------------------------------------
(* What is carried, and what is polled. *)

LEMMA AppliesKeepsPoll ==
    ASSUME FeedTypeOK, PollKept, NEW event \in Events, Applies(event), mounted' = mounted
    PROVE  PollKept' /\ carried' = Says(event)
<1>1. Invalidated # NoRequest
  BY InvalidatedType
<1>2. Interval(Patched(event.active), Says(event)) = "idle"
         => OpenIn(Patched(event.active)) \subseteq Says(event)
  BY IntervalOf
<1> QED
  BY <1>1, <1>2 DEF Applies, PollKept, OpenIn

LEMMA FeedInitInv == FeedInit => StreamKept /\ PollKept
BY DEF FeedInit, StreamKept, PollKept

LEMMA LosesKeeps ==
    ASSUME FeedTypeOK, StreamKept, link # "off", LosesStream
    PROVE  StreamKept' /\ PollKept'
BY InvalidatedType DEF LosesStream, StreamKept, PollKept, Screen

LEMMA FeedStepInv == FeedInv /\ [FeedNext]_feedVars => StreamKept' /\ PollKept'
<1> SUFFICES ASSUME FeedTypeOK, StreamKept, PollKept, [FeedNext]_feedVars
             PROVE  StreamKept' /\ PollKept'
  BY DEF FeedInv
<1>1. ASSUME NEW r \in RowIds, NEW row, RowsBecome(r, row) PROVE StreamKept' /\ PollKept'
  BY <1>1 DEF RowsBecome, StreamKept, PollKept, OpenIn, Says
<1>2. CASE CreateRow \/ \E r \in RowIds : ReportProgress(r) \/ SettleRow(r) \/ DeleteRow(r)
  <2>1. CreateRow => created + 1 \in RowIds
    BY FeedAssumption DEF CreateRow, FeedTypeOK, RowIds
  <2> QED
    BY <1>1, <1>2, <2>1 DEF CreateRow, ReportProgress, SettleRow, DeleteRow
<1>3. CASE FastPoll \/ IdlePoll \/ UserRefetches \/ AnswerList \/ FetchFails
  <2>1. StreamKept'
    BY <1>3 DEF FastPoll, IdlePoll, Poll, UserRefetches, AnswerList, FetchFails, StreamKept,
                Says, Stream, Screen
  <2>2. PollKept'
    BY <1>3 DEF FastPoll, IdlePoll, Poll, UserRefetches, AnswerList, FetchFails, PollKept,
                Requested, NoRequest, AnsweredBy
  <2> QED
    BY <2>1, <2>2
<1>4. CASE LandList
  BY <1>4, IntervalOf DEF LandList, StreamKept, PollKept, Says, Stream, Screen
<1>5. CASE Connect
  <2>1. StreamKept'
    BY <1>5 DEF Connect, StreamKept, ServerSide, Screen
  <2> QED
    BY <1>5, <2>1 DEF Connect, PollKept, OpenIn, ServerSide, Screen
<1>6. CASE PushStatus
  <2>1. told' \in Events
    BY <1>6, EventType, NoProjectType DEF PushStatus, FeedTypeOK
  <2>2. wire' # << >> /\ wire'[Len(wire')] = told'
    BY <1>6, <2>1 DEF PushStatus, FeedTypeOK
  <2> QED
    BY <1>6, <2>2 DEF PushStatus, StreamKept, PollKept, OpenIn, ServerSide, Screen
<1>7. CASE DeliverEvent
  <2>1. Head(wire) \in Events /\ wire' = Tail(wire) /\ link = "up" /\ link' = link
    BY <1>7 DEF DeliverEvent, FeedTypeOK
  <2>2. wire' # << >> => wire'[Len(wire')] = told'
    BY <1>7 DEF DeliverEvent, FeedTypeOK, StreamKept
  <2>3. wire' = << >> => Head(wire) = told
    <3>1. wire \in Seq(Events) /\ wire # << >> /\ wire[Len(wire)] = told
      BY <1>7 DEF DeliverEvent, FeedTypeOK, StreamKept
    <3>2. Len(Tail(wire)) = Len(wire) - 1 /\ Len(wire) \in Nat /\ Head(wire) = wire[1]
      BY <3>1
    <3>3. Tail(wire) = << >> => Len(wire) = 1
      <4>1. Len(<< >>) = 0
        OBVIOUS
      <4>2. Tail(wire) = << >> => Len(wire) - 1 = 0
        BY <3>2, <4>1, Zenon
      <4> QED
        BY <3>2, <4>2
    <3> QED
      BY <2>1, <3>1, <3>2, <3>3
  <2>4. told' = told /\ mounted' = mounted /\ visible' = visible
    BY <1>7 DEF DeliverEvent, Screen
  <2>5. CASE Head(wire).available
    <3>1. PollKept' /\ carried' = Says(Head(wire))
      BY <1>7, <2>1, <2>4, <2>5, AppliesKeepsPoll DEF DeliverEvent
    <3> QED
      BY <2>1, <2>2, <2>3, <2>4, <3>1 DEF StreamKept, Says
  <2>6. CASE ~Head(wire).available
    BY <1>7, <2>1, <2>2, <2>3, <2>4, <2>6 DEF DeliverEvent, StreamKept, PollKept, OpenIn
  <2> QED
    BY <2>5, <2>6
<1>8. CASE FallSilent
  BY <1>8 DEF FallSilent, StreamKept, PollKept, OpenIn, Screen
<1>9. CASE Drop \/ Stall
  BY <1>9, LosesKeeps DEF Drop, Stall
<1>10. CASE Mount
  <2>1. Interval(runsList, {}) = "idle" => OpenIn(runsList) \subseteq {}
    BY IntervalOf
  <2> QED
    BY <1>10, <2>1 DEF Mount, StreamKept, PollKept, OpenIn, Says
<1>11. CASE Unmount \/ Hide
  BY <1>11, InvalidatedType DEF Unmount, Hide, Closes, StreamKept, PollKept, OpenIn
<1>12. CASE Show
  BY <1>12 DEF Show, StreamKept, PollKept, OpenIn, ServerSide, FeedTypeOK
<1>13. CASE UNCHANGED feedVars
  BY <1>13 DEF feedVars, StreamKept, PollKept, OpenIn, Says
<1> QED
  BY <1>2, <1>3, <1>4, <1>5, <1>6, <1>7, <1>8, <1>9, <1>10, <1>11, <1>12, <1>13 DEF FeedNext

LEMMA WatchedIfKept == FeedInv => OpenRunIsWatched
<1> SUFFICES ASSUME FeedInv, mounted, ~failed,
                    NEW r \in OpenIn(runsList), listFetch = NoRequest, poll # "fast"
             PROVE  /\ r \in carried
                    /\ \/ link = "silent" \/ r \in OpenIn(rows) \/ told # Event
                       \/ \E i \in DOMAIN wire : wire[i] = told
  <2>1. FeedInv => OpenIn(runsList) \subseteq RowIds
    BY DEF FeedInv, FeedTypeOK, OpenIn, NoList
  <2> QED
    BY <2>1 DEF OpenRunIsWatched
<1>1. r \in carried /\ link \in {"up", "silent"}
  BY DEF FeedInv, FeedTypeOK, PollKept, StreamKept
<1>2. CASE link = "up" /\ wire # << >>
  <2>1. Len(wire) \in DOMAIN wire
    BY <1>2 DEF FeedInv, FeedTypeOK
  <2> QED
    BY <1>1, <1>2, <2>1 DEF FeedInv, StreamKept
<1>3. CASE link = "up" /\ wire = << >> /\ told = Event
  <2>1. told.available /\ Says(told) = OpenIn(rows)
    BY <1>3, EventType DEF FeedInv, FeedTypeOK
  <2> QED
    BY <1>1, <1>3, <2>1 DEF FeedInv, StreamKept
<1> QED
  BY <1>1, <1>2, <1>3

\* No open run on screen is left to the idle poll while nothing else would say that
\* it has ended.
THEOREM OpenRunIsAlwaysWatched == FeedSpec => []OpenRunIsWatched
<1>1. FeedInit => FeedInv
  BY FeedInitType, FeedInitInv DEF FeedInv
<1>2. FeedInv /\ [FeedNext]_feedVars => FeedInv'
  BY FeedStepType, FeedStepInv DEF FeedInv
<1> QED
  BY <1>1, <1>2, WatchedIfKept, PTL DEF FeedSpec, FeedSafety

-----------------------------------------------------------------------------
(* The receiver pool: chunks.                                              *)

LEMMA PoolConstants ==
    /\ Count \in Nat \ {0} /\ CrewSizes \subseteq Nat \ {0}
    /\ \A input \in Inputs : /\ input.refused \subseteq Receivers
                             /\ input.scene \in BOOLEAN /\ input.lot \in BOOLEAN
  BY PoolAssumption DEF Faults

\* A division is the one the primary school knows.
LEMMA DivisionIs ==
    ASSUME NEW a \in Nat, NEW b \in Nat \ {0}
    PROVE  /\ a \div b \in Nat
           /\ b * (a \div b) <= a /\ a < b * (a \div b) + b
  OBVIOUS

LEMMA TimesGrows ==
    ASSUME NEW a \in Nat, NEW b \in Nat, NEW s \in Nat, a <= b
    PROVE  a * s <= b * s
  OBVIOUS

\* A chunk holds a receiver at least, and no more than there are.
LEMMA SizeIs ==
    ASSUME NEW n \in CrewSizes
    PROVE  Size(n) \in Receivers
<1> DEFINE target == n * TargetChunksPerWorker
           wanted == (Count + target - 1) \div target
           share == Count \div n
<1>1. Count \in Nat \ {0} /\ n \in Nat \ {0}
  BY PoolConstants
<1>2. target \in Nat \ {0} /\ Count + target - 1 \in Nat
  BY <1>1 DEF TargetChunksPerWorker
<1> HIDE DEF target
<1>3. wanted \in Nat
  BY <1>2, DivisionIs
<1>4. share \in Nat
  BY <1>1, DivisionIs
<1> HIDE DEF wanted, share
<1>5. Most(wanted, MinChunk) \in Nat \ {0} /\ Most(share, 1) \in Nat \ {0}
  BY <1>3, <1>4 DEF Most, MinChunk
<1>6. Least(Least(Most(wanted, MinChunk), Most(share, 1)), Count) \in 1..Count
  BY <1>1, <1>5 DEF Least
<1>7. Size(n) = IF n <= 1 THEN Count ELSE Least(Least(Most(wanted, MinChunk), Most(share, 1)), Count)
  BY DEF Size, target, wanted, share
<1> QED
  BY <1>1, <1>6, <1>7 DEF Receivers

\* There is a chunk, the last one is the first that reaches the last receiver, and a
\* larger number of chunks is a larger number of receivers.
LEMMA ChunkCountIs ==
    ASSUME crew \in CrewSizes
    PROVE  /\ Size(crew) \in Receivers /\ ChunkCount \in Nat \ {0}
           /\ (ChunkCount - 1) * Size(crew) < Count /\ Count <= ChunkCount * Size(crew)
<1> DEFINE S == Size(crew)
           N == (Count + S - 1) \div S
<1>1. S \in Nat \ {0} /\ Count \in Nat \ {0} /\ S <= Count
  BY SizeIs, PoolConstants DEF Receivers
<1>2. ChunkCount = N
  BY DEF ChunkCount
<1> HIDE DEF S
<1>3. Count + S - 1 \in Nat
  BY <1>1
<1>4. N \in Nat /\ S * N <= Count + S - 1 /\ Count + S - 1 < S * N + S
  BY <1>1, <1>3, DivisionIs
<1> HIDE DEF N
<1>5. N # 0
  BY <1>1, <1>4
<1>6. (N - 1) * S = S * N - S /\ N * S = S * N
  BY <1>1, <1>4
<1>7. S * N \in Nat
  BY <1>1, <1>4
<1>8. (N - 1) * S < Count /\ Count <= N * S
  BY <1>1, <1>4, <1>6, <1>7
<1> QED
  BY <1>1, <1>2, <1>4, <1>5, <1>8, SizeIs DEF S

LEMMA ChunkIs ==
    ASSUME crew \in CrewSizes, NEW c \in Chunks
    PROVE  /\ c \in Nat \ {0} /\ c <= ChunkCount
           /\ From(c) \in Receivers /\ To(c) \in Receivers /\ From(c) <= To(c)
           /\ From(1) = 1 /\ (c = ChunkCount => To(c) = Count)
           /\ c < ChunkCount => c + 1 \in Chunks /\ From(c + 1) = To(c) + 1
<1> DEFINE S == Size(crew)
           N == ChunkCount
<1>1. /\ S \in Nat \ {0} /\ N \in Nat \ {0} /\ Count \in Nat \ {0} /\ S <= Count
      /\ (N - 1) * S < Count /\ Count <= N * S
  BY ChunkCountIs, PoolConstants DEF Receivers
<1>2. c \in Nat \ {0} /\ c <= N
  BY <1>1 DEF Chunks
<1>3. /\ From(c) = (c - 1) * S + 1 /\ From(1) = (1 - 1) * S + 1 /\ From(c + 1) = ((c + 1) - 1) * S + 1
      /\ To(c) = IF c * S < Count THEN c * S ELSE Count
  BY DEF From, To, Least
<1> HIDE DEF S, N
<1>4. /\ c * S = (c - 1) * S + S /\ ((c + 1) - 1) * S = c * S /\ (1 - 1) * S = 0
      /\ (c - 1) * S \in Nat /\ c * S \in Nat
  BY <1>1, <1>2
<1>5. (c - 1) * S < Count
  <2>1. (c - 1) * S <= (N - 1) * S
    BY <1>1, <1>2, TimesGrows
  <2>2. (N - 1) * S \in Nat
    BY <1>1
  <2> QED
    BY <1>1, <1>4, <2>1, <2>2
<1>6. /\ From(c) \in 1..Count /\ To(c) \in 1..Count /\ From(c) <= To(c)
      /\ From(1) = 1 /\ (c = N => To(c) = Count)
  BY <1>1, <1>3, <1>4, <1>5
<1>7. ASSUME c < N PROVE From(c + 1) = To(c) + 1
  <2>1. c * S <= (N - 1) * S
    BY <1>1, <1>2, <1>7, TimesGrows
  <2>2. c * S < Count
    BY <1>1, <1>4, <2>1
  <2> QED
    BY <1>3, <1>4, <2>2
<1>8. c < N => c + 1 \in Chunks
  BY <1>1, <1>2 DEF Chunks, N
<1> QED
  BY <1>2, <1>6, <1>7, <1>8 DEF Receivers, N

\* A receiver is in one chunk.
LEMMA ChunksPartition ==
    ASSUME crew \in CrewSizes
    PROVE  /\ \A r \in Receivers : \E c \in Chunks : r \in From(c)..To(c)
           /\ \A c, d \in Chunks : \A r \in Receivers :
                 r \in From(c)..To(c) /\ r \in From(d)..To(d) => c = d
<1> DEFINE S == Size(crew)
           N == ChunkCount
<1>1. /\ S \in Nat \ {0} /\ N \in Nat \ {0} /\ Count \in Nat \ {0}
      /\ (N - 1) * S < Count /\ Count <= N * S
  BY ChunkCountIs, PoolConstants DEF Receivers
<1>2. \A c \in Chunks : c \in Nat \ {0} /\ c <= N
  BY <1>1 DEF Chunks
<1>3. \A c : /\ From(c) = (c - 1) * S + 1
             /\ To(c) = IF c * S < Count THEN c * S ELSE Count
  BY DEF From, To, Least
<1>4. ASSUME NEW r \in Receivers
      PROVE  \E c \in Chunks : r \in From(c)..To(c)
  <2> DEFINE q == (r - 1) \div S
  <2>1. r \in Nat \ {0} /\ r <= Count /\ r - 1 \in Nat
    BY <1>1 DEF Receivers
  <2> HIDE DEF S, N
  <2>2. q \in Nat /\ S * q <= r - 1 /\ r - 1 < S * q + S
    BY <1>1, <2>1, DivisionIs
  <2> HIDE DEF q
  <2>3. q < N
    <3>1. SUFFICES ASSUME N <= q PROVE FALSE
      BY <1>1, <2>2
    <3>2. N * S <= q * S
      BY <1>1, <2>2, <3>1, TimesGrows
    <3>3. q * S = S * q /\ S * q \in Nat /\ N * S \in Nat
      BY <1>1, <2>2
    <3> QED
      BY <1>1, <2>1, <2>2, <3>2, <3>3
  <2>4. q + 1 \in Chunks
    BY <1>1, <2>2, <2>3 DEF Chunks, N
  <2>5. ((q + 1) - 1) * S = S * q /\ (q + 1) * S = S * q + S /\ S * q \in Nat
    BY <1>1, <2>2
  <2>6. From(q + 1) = S * q + 1 /\ To(q + 1) = IF S * q + S < Count THEN S * q + S ELSE Count
    BY <1>3, <2>5
  <2>7. r \in From(q + 1)..To(q + 1)
    BY <1>1, <2>1, <2>2, <2>5, <2>6
  <2> QED
    BY <2>4, <2>7
<1>5. ASSUME NEW c \in Chunks, NEW d \in Chunks, NEW r \in Receivers, c < d,
             r \in From(c)..To(c), r \in From(d)..To(d)
      PROVE  FALSE
  <2>1. c * S <= (d - 1) * S
    <3> HIDE DEF S
    <3> QED
      BY <1>1, <1>2, <1>5, TimesGrows
  <2> HIDE DEF S
  <2>2. c * S \in Nat /\ (d - 1) * S \in Nat
    BY <1>1, <1>2
  <2>3. r <= c * S
    <3>1. To(c) <= c * S /\ To(c) \in Nat
      BY <1>1, <1>3, <2>2
    <3>2. r <= To(c) /\ r \in Nat
      BY <1>1, <1>5 DEF Receivers
    <3> QED
      BY <2>2, <3>1, <3>2
  <2>4. (d - 1) * S + 1 <= r
    BY <1>3, <1>5
  <2> QED
    BY <2>1, <2>2, <2>3, <2>4, <1>5, PoolConstants DEF Receivers
<1>6. \A c, d \in Chunks : \A r \in Receivers :
          r \in From(c)..To(c) /\ r \in From(d)..To(d) => c = d
  BY <1>2, <1>5
<1> QED
  BY <1>4, <1>6

\* What a step that keeps the workers asked for and the input keeps.
LEMMA SameCase ==
    ASSUME UNCHANGED poolCase
    PROVE  /\ trouble' = trouble /\ crew' = crew
           /\ ChunkCount' = ChunkCount /\ Chunks' = Chunks /\ Walkers' = Walkers
           /\ (Pooled' <=> Pooled) /\ (LotGivesWay' <=> LotGivesWay)
           /\ FirstRefused' = FirstRefused /\ SequentialWalk' = SequentialWalk
           /\ \A c : From(c)' = From(c) /\ To(c)' = To(c)
<1>1. trouble' = trouble /\ crew' = crew
  BY DEF poolCase
<1>2. ChunkCount' = ChunkCount
  BY <1>1 DEF ChunkCount, Size
<1>3. Chunks' = Chunks /\ Walkers' = Walkers /\ (Pooled' <=> Pooled)
  BY <1>1, <1>2 DEF Chunks, Walkers, Pooled
<1>4. FirstRefused' = FirstRefused
  BY <1>1 DEF FirstRefused
<1>5. SequentialWalk' = SequentialWalk
  BY <1>1, <1>4 DEF SequentialWalk, RefusesReceiver, RefusesScene, RefusesLot, Computed, Through, Said
<1>6. LotGivesWay' <=> LotGivesWay
  BY <1>1, <1>3 DEF LotGivesWay
<1>7. \A c : From(c)' = From(c) /\ To(c)' = To(c)
  BY <1>1 DEF From, To, Size
<1> QED
  BY <1>1, <1>2, <1>3, <1>4, <1>5, <1>6, <1>7

\* The walkers of a walk that is not pooled are one, and its chunk is the whole.
LEMMA AloneIs ==
    ASSUME crew \in CrewSizes, ~Pooled
    PROVE  /\ ChunkCount = 1 /\ Chunks = {1} /\ Walkers = {1}
           /\ From(1) = 1 /\ To(1) = Count
<1>1. ChunkCount \in Nat \ {0}
  BY ChunkCountIs
<1>2. ChunkCount = 1
  BY <1>1 DEF Pooled
<1>3. Chunks = {1}
  BY <1>2 DEF Chunks
<1>4. crew \in Nat \ {0}
  BY PoolConstants
<1>5. Least(crew, 1) = 1
  BY <1>4 DEF Least
<1>6. Walkers = {1}
  BY <1>2, <1>5 DEF Walkers
<1> QED
  BY <1>2, <1>3, <1>6, ChunkIs

\* Numbers have a least one.
LEMMA LeastOfThem ==
    ASSUME NEW S \in SUBSET Nat, S # {}
    PROVE  \E r \in S : \A s \in S : r <= s
<1>1. PICK r \in S : \A s \in S : ~(<<s, r>> \in OpToRel(<, Nat))
  BY NatLessThanWellFounded, WFMin
<1>2. ASSUME NEW s \in S PROVE r <= s
  <2>1. ~(<<s, r>> \in OpToRel(<, Nat))
    BY <1>1
  <2>2. ~(s < r)
    BY <2>1 DEF OpToRel
  <2> QED
    BY <2>2
<1> QED
  BY <1>2

LEMMA FirstRefusedIs ==
    ASSUME trouble \in Inputs, trouble.refused # {}
    PROVE  /\ FirstRefused \in trouble.refused /\ FirstRefused \in Receivers
           /\ \A s \in trouble.refused : FirstRefused <= s
<1>1. trouble.refused \in SUBSET Receivers /\ Receivers \in SUBSET Nat
  BY PoolConstants DEF Receivers
<1>2. \E r \in trouble.refused : \A s \in trouble.refused : r <= s
  BY <1>1, LeastOfThem
<1> QED
  BY <1>1, <1>2 DEF FirstRefused

-----------------------------------------------------------------------------
(* The walks: the invariant.                                               *)

WalkTyped ==
    /\ trouble \in Inputs /\ crew \in CrewSizes
    /\ point \in {"new", "walking", "preparing", "dealing", "ended"}
    /\ dealt \in 0..ChunkCount
    /\ task \in [Walkers -> [chunk : 0..ChunkCount, at : 0..Count, inside : BOOLEAN]]
    /\ chunkResult \in [Chunks -> Answers] /\ answer \in Answers
    /\ asked \in BOOLEAN /\ refusal \in BOOLEAN

\* A walker at work has a chunk nobody has ended, and is at a receiver of it.
Walking(w) ==
    /\ task[w].chunk = 0 => task[w] = AtRest
    /\ task[w].chunk # 0 => point = IF Pooled THEN "dealing" ELSE "walking"
    /\ \A c \in Chunks : task[w].chunk = c =>
          /\ chunkResult[c] = NeverRun
          /\ Pooled => c <= dealt
          /\ task[w].at # 0 => task[w].at \in From(c)..To(c)
    /\ task[w].inside =>
          task[w].at # 0 /\ task[w].at \notin trouble.refused /\ ~trouble.scene

\* No two walkers have the same chunk.
Apart ==
    \A v, w \in Walkers : task[v].chunk = task[w].chunk => v = w \/ task[v].chunk = 0

\* What a chunk of the pool has ended with, and why one that was dealt has not been run.
Ended(c) ==
    /\ c > dealt => chunkResult[c] = NeverRun
    /\ \/ chunkResult[c] = NeverRun
       \/ chunkResult[c] = Computed(Through(From(c), To(c))) /\ ~trouble.lot
       \/ chunkResult[c] = WalkCancelled /\ asked
       \/ chunkResult[c] = RefusesLot /\ trouble.lot
    /\ c <= dealt /\ chunkResult[c] = NeverRun /\ (\A w \in Walkers : task[w].chunk # c) => CrewStops

InPool ==
    /\ point # "walking"
    /\ point = "dealing" => ~trouble.scene /\ trouble.refused = {}
    /\ \A c \in Chunks : Ended(c)
    /\ refusal => Failed # {}

\* A walk that is its caller's own has found nothing wrong so far.
Alone ==
    /\ point \in {"new", "walking", "ended"}
    /\ point = "walking" =>
          /\ task[1].at # 0
          /\ task[1].at > 1 => ~trouble.scene /\ ~trouble.lot
          /\ \A r \in trouble.refused : r >= task[1].at

Unanswered ==
    /\ point # "ended" => answer = NeverRun
    /\ point \in {"new", "preparing"} =>
          dealt = 0 /\ ~refusal /\ \A c \in Chunks : chunkResult[c] = NeverRun

WalkInv ==
    /\ WalkTyped
    /\ \A w \in Walkers : Walking(w)
    /\ Apart
    /\ IF Pooled THEN InPool ELSE Alone
    /\ Unanswered
    /\ AnswerIsTheSequentialWalks

-----------------------------------------------------------------------------
(* How far the walks have got.                                             *)

\* The receivers that have been computed, or that belong to a chunk that has ended.
Passed(c, r) ==
    \/ chunkResult[c] # NeverRun
    \/ \E w \in Walkers : task[w].chunk = c /\ r < task[w].at
Behind == {r \in Receivers : \E c \in Chunks : r \in From(c)..To(c) /\ Passed(c, r)}

\* No receiver is counted twice, and none is missed unless a walk has failed.
CountInv ==
    /\ counted \in Nat /\ reported \in 0..counted /\ filed \in 0..reported
    /\ counted <= Cardinality(Behind)
    /\ Failed = {} => counted = Cardinality(Behind)
    /\ counted = Count => reported = Count
    /\ answer.is = "computed" => reported = Count

-----------------------------------------------------------------------------
(* Tables.                                                                 *)

LEMMA ThroughIs ==
    ASSUME NEW from \in Nat, NEW to \in Nat, from <= to + 1
    PROVE  /\ Through(from, to) \in Seq(Nat) /\ Len(Through(from, to)) = to + 1 - from
           /\ \A i \in 1..(to + 1 - from) : Through(from, to)[i] = from + i - 1
           /\ DOMAIN Through(from, to) = 1..(to + 1 - from)
<1>1. to + 1 - from \in Nat
  OBVIOUS
<1>2. Through(from, to) = [i \in 1..(to + 1 - from) |-> from + i - 1]
  BY DEF Through
<1>3. \A i \in 1..(to + 1 - from) : from + i - 1 \in Nat
  OBVIOUS
<1>4. Through(from, to) \in [1..(to + 1 - from) -> Nat]
  BY <1>2, <1>3
<1> QED
  BY <1>1, <1>2, <1>4

LEMMA ThroughReceivers ==
    ASSUME NEW from \in Receivers, NEW to \in Receivers, from <= to
    PROVE  Through(from, to) \in Seq(Receivers)
<1>1. from \in Nat \ {0} /\ to \in Nat /\ to <= Count /\ to + 1 - from \in Nat
  BY PoolConstants DEF Receivers
<1>2. Through(from, to) = [i \in 1..(to + 1 - from) |-> from + i - 1]
  BY DEF Through
<1>3. \A i \in 1..(to + 1 - from) : from + i - 1 \in Receivers
  BY <1>1, PoolConstants DEF Receivers
<1>4. Through(from, to) \in [1..(to + 1 - from) -> Receivers]
  BY <1>2, <1>3
<1> QED
  BY <1>1, <1>4

\* A table behind a table.
LEMMA ThroughThrough ==
    ASSUME NEW m \in Nat, NEW n \in Nat, m <= n
    PROVE  Through(1, m) \o Through(m + 1, n) = Through(1, n)
<1> DEFINE a == Through(1, m)
           b == Through(m + 1, n)
           c == Through(1, n)
<1>1. a \in Seq(Nat) /\ Len(a) = m /\ \A i \in 1..m : a[i] = i
  <2>1. m + 1 - 1 = m /\ 1 <= m + 1 /\ \A i \in 1..m : 1 + i - 1 = i
    OBVIOUS
  <2> QED
    BY <2>1, ThroughIs
<1>2. c \in Seq(Nat) /\ Len(c) = n /\ \A i \in 1..n : c[i] = i
  <2>1. n + 1 - 1 = n /\ 1 <= n + 1 /\ \A i \in 1..n : 1 + i - 1 = i
    OBVIOUS
  <2> QED
    BY <2>1, ThroughIs
<1>3. b \in Seq(Nat) /\ Len(b) = n - m /\ \A i \in 1..(n - m) : b[i] = m + i
  <2>1. n + 1 - (m + 1) = n - m /\ m + 1 <= n + 1 /\ \A i \in 1..(n - m) : m + 1 + i - 1 = m + i
    OBVIOUS
  <2>2. m + 1 \in Nat
    OBVIOUS
  <2> QED
    BY <2>1, <2>2, ThroughIs
<1> HIDE DEF a, b, c
<1> DEFINE d == a \o b
<1>4. /\ d \in Seq(Nat) /\ Len(d) = Len(a) + Len(b)
      /\ \A i \in 1..(Len(a) + Len(b)) : d[i] = IF i <= Len(a) THEN a[i] ELSE b[i - Len(a)]
  BY <1>1, <1>3, ConcatProperties
<1> HIDE DEF d
<1>5. Len(d) = n
  BY <1>1, <1>3, <1>4
<1>6. ASSUME NEW i \in 1..n PROVE d[i] = i
  <2>1. d[i] = IF i <= m THEN a[i] ELSE b[i - m]
    BY <1>1, <1>4, <1>5
  <2>2. CASE i <= m
    BY <1>1, <2>1, <2>2
  <2>3. CASE i > m
    <3>1. i - m \in 1..(n - m) /\ m + (i - m) = i
      BY <2>3
    <3>2. d[i] = b[i - m]
      BY <2>1, <2>3
    <3> QED
      BY <1>3, <3>1, <3>2
  <2>4. i <= m \/ i > m
    OBVIOUS
  <2> QED
    BY <2>2, <2>3, <2>4
<1>7. d = c
  BY <1>2, <1>4, <1>5, <1>6, SeqEqual
<1> QED
  BY <1>7 DEF a, b, c, d

Chained(f, tables, n) == \A i \in 2..n : f[i] = f[i - 1] \o tables[i]

\* A least counterexample: two functions that answer the first alike, and every other
\* from the answer before it, are alike.
LEMMA SameRecursion ==
    ASSUME NEW n \in Nat \ {0}, NEW f, NEW g, NEW tables, f[1] = g[1],
           Chained(f, tables, n), Chained(g, tables, n)
    PROVE  f[n] = g[n]
<1> DEFINE Wrong == {i \in 1..n : f[i] # g[i]}
<1>1. SUFFICES ASSUME f[n] # g[n] PROVE FALSE
  OBVIOUS
<1>2. Wrong \in SUBSET Nat /\ n \in Wrong
  BY <1>1
<1>3. PICK i \in Wrong : \A j \in Wrong : ~(<<j, i>> \in OpToRel(<, Nat))
  BY <1>2, NatLessThanWellFounded, WFMin
<1>4. i \in 2..n /\ f[i] # g[i]
  OBVIOUS
<1>5. f[i - 1] # g[i - 1]
  BY <1>4 DEF Chained
<1>6. i - 1 \in 1..n /\ i - 1 < i /\ i \in Nat /\ i - 1 \in Nat
  BY <1>4
<1>7. i - 1 \in Wrong
  BY <1>5, <1>6
<1>8. ~(<<i - 1, i>> \in OpToRel(<, Nat))
  BY <1>3, <1>7
<1> QED
  BY <1>6, <1>8 DEF OpToRel

\* The chunks' tables one behind the other are the whole table.
LEMMA AllLevelsIs ==
    ASSUME crew \in CrewSizes,
           \A c \in Chunks : chunkResult[c] = Computed(Through(From(c), To(c)))
    PROVE  AllLevels = Through(1, Count)
<1> DEFINE tables == [c \in Chunks |-> chunkResult[c].table]
           sofar == [c \in Chunks |-> Through(1, To(c))]
<1>1. ChunkCount \in Nat \ {0} /\ Chunks = 1..ChunkCount
  BY ChunkCountIs DEF Chunks
<1>2. Len(tables) = ChunkCount
  BY <1>1
<1>3. ASSUME NEW c \in Chunks PROVE tables[c] = Through(From(c), To(c))
  <2>1. chunkResult[c] = Computed(Through(From(c), To(c)))
    OBVIOUS
  <2>2. chunkResult[c].table = Through(From(c), To(c))
    BY <2>1 DEF Computed, Said
  <2> QED
    BY <2>2
<1>4. sofar = [c \in 1..ChunkCount |-> IF c = 1 THEN tables[1] ELSE sofar[c - 1] \o tables[c]]
  <2>1. ASSUME NEW c \in Chunks
        PROVE  Through(1, To(c)) = IF c = 1 THEN tables[1] ELSE sofar[c - 1] \o tables[c]
    <3>1. CASE c = 1
      BY <1>3, <3>1, ChunkIs
    <3>2. CASE c # 1
      <4>1. c - 1 \in Chunks /\ c - 1 < ChunkCount /\ (c - 1) + 1 = c
        BY <1>1, <3>2
      <4>2. From(c) = To(c - 1) + 1 /\ To(c - 1) \in Receivers
        BY <4>1, ChunkIs
      <4>3. To(c - 1) \in Nat /\ To(c) \in Nat /\ To(c - 1) <= To(c)
        BY <4>1, <4>2, ChunkIs, PoolConstants DEF Receivers
      <4>4. Through(1, To(c - 1)) \o Through(From(c), To(c)) = Through(1, To(c))
        BY <4>2, <4>3, ThroughThrough
      <4>5. sofar[c - 1] = Through(1, To(c - 1))
        BY <4>1
      <4> QED
        BY <1>3, <3>2, <4>4, <4>5
    <3> QED
      BY <3>1, <3>2
  <2> QED
    BY <1>1, <2>1
<1> HIDE DEF sofar
<1>5. AllLevels = FlattenSeq(tables)
  BY DEF AllLevels
<1> HIDE DEF tables
<1> DEFINE whole == CHOOSE h : h = [i \in 1..ChunkCount |-> IF i = 1 THEN tables[i] ELSE h[i - 1] \o tables[i]]
<1>6. AllLevels = whole[ChunkCount]
  BY <1>1, <1>2, <1>5 DEF FlattenSeq
<1>7. sofar = [i \in 1..ChunkCount |-> IF i = 1 THEN tables[i] ELSE sofar[i - 1] \o tables[i]]
  BY <1>4
<1>8. whole = [i \in 1..ChunkCount |-> IF i = 1 THEN tables[i] ELSE whole[i - 1] \o tables[i]]
  BY <1>7
<1> HIDE DEF whole
<1>9. /\ sofar[1] = tables[1] /\ Chained(sofar, tables, ChunkCount)
      /\ whole[1] = tables[1] /\ Chained(whole, tables, ChunkCount)
  <2>1. 1 \in 1..ChunkCount /\ \A i \in 2..ChunkCount : i \in 1..ChunkCount /\ i # 1
    BY <1>1
  <2>2. ASSUME NEW h, h = [i \in 1..ChunkCount |-> IF i = 1 THEN tables[i] ELSE h[i - 1] \o tables[i]]
        PROVE  h[1] = tables[1] /\ Chained(h, tables, ChunkCount)
    BY <2>1, <2>2 DEF Chained
  <2> QED
    BY <1>7, <1>8, <2>2
<1>10. whole[ChunkCount] = sofar[ChunkCount]
  BY <1>1, <1>9, SameRecursion
<1>11. sofar[ChunkCount] = Through(1, To(ChunkCount)) /\ To(ChunkCount) = Count
  <2>1. ChunkCount \in Chunks
    BY <1>1
  <2> QED
    BY <2>1, ChunkIs DEF sofar
<1> QED
  BY <1>6, <1>10, <1>11

-----------------------------------------------------------------------------
(* The walks: the induction.                                               *)

\* What a walk or a chunk can end with is told apart by what it is.
LEMMA SaidsAre ==
    /\ NeverRun.is = "never run" /\ WalkCancelled.is = "cancelled"
    /\ RefusesLot.is = "car park" /\ RefusesScene.is = "scene"
    /\ \A r : RefusesReceiver(r).is = "receiver"
    /\ \A table : Computed(table).is = "computed" /\ Computed(table).table = table
    /\ {NeverRun, WalkCancelled, RefusesLot, RefusesScene} \subseteq Answers
    /\ \A r \in Receivers : RefusesReceiver(r) \in Answers
    /\ \A table \in Seq(Receivers) : Computed(table) \in Answers
<1>1. 0 \in 0..Count /\ Receivers \subseteq 0..Count
  BY PoolConstants DEF Receivers
<1>2. << >> \in Seq(Receivers)
  OBVIOUS
<1> QED
  BY <1>1, <1>2 DEF NeverRun, WalkCancelled, RefusesLot, RefusesScene, RefusesReceiver,
       Computed, Said, Answers

LEMMA WalkStarts == ASSUME PoolInit PROVE WalkInv
<1>1. crew \in CrewSizes /\ trouble \in Inputs
  BY DEF PoolInit
<1>2. ChunkCount \in Nat \ {0} /\ Count \in Nat \ {0}
  BY <1>1, ChunkCountIs, PoolConstants
<1>3. /\ \A w \in Walkers : task[w] = AtRest
      /\ \A c \in Chunks : chunkResult[c] = NeverRun
      /\ \A c \in Chunks : c > 0
  BY <1>2 DEF PoolInit, Chunks
<1>4. AtRest \in [chunk : 0..ChunkCount, at : 0..Count, inside : BOOLEAN]
  BY <1>2 DEF AtRest
<1>5. WalkTyped
  <2>1. task \in [Walkers -> [chunk : 0..ChunkCount, at : 0..Count, inside : BOOLEAN]]
    BY <1>4 DEF PoolInit
  <2>2. NeverRun \in Answers
    BY SaidsAre
  <2>3. chunkResult \in [Chunks -> Answers] /\ answer \in Answers
    BY <2>2 DEF PoolInit
  <2>4. dealt \in 0..ChunkCount
    BY <1>2 DEF PoolInit
  <2>5. asked \in BOOLEAN /\ refusal \in BOOLEAN
    BY DEF PoolInit
  <2>6. point \in {"new", "walking", "preparing", "dealing", "ended"}
    BY DEF PoolInit
  <2> QED
    BY <1>1, <2>1, <2>3, <2>4, <2>5, <2>6 DEF WalkTyped
<1>6. \A w \in Walkers : Walking(w)
  BY <1>3 DEF Walking, AtRest, Chunks
<1>7. Apart
  BY <1>3 DEF Apart, AtRest
<1>8. IF Pooled THEN InPool ELSE Alone
  <2>1. point = "new" /\ dealt = 0 /\ ~refusal
    BY DEF PoolInit
  <2>2. \A c \in Chunks : Ended(c)
    <3> TAKE c \in Chunks
    <3>1. ~(c <= dealt)
      BY <1>2, <1>3, <2>1 DEF Chunks
    <3> QED
      BY <1>3, <3>1 DEF Ended
  <2> QED
    BY <2>1, <2>2 DEF InPool, Alone
<1>9. Unanswered /\ AnswerIsTheSequentialWalks
  BY <1>3 DEF PoolInit, Unanswered, AnswerIsTheSequentialWalks
<1> QED
  BY <1>5, <1>6, <1>7, <1>8, <1>9 DEF WalkInv

\* At rest before the first walk and after the last one.
LEMMA AllAtRest ==
    ASSUME WalkInv, point \in {"new", "preparing", "ended"}
    PROVE  \A w \in Walkers : task[w] = AtRest
  BY DEF WalkInv, Walking

LEMMA TaskIs ==
    ASSUME WalkInv, NEW w \in Walkers
    PROVE  /\ task[w] \in [chunk : 0..ChunkCount, at : 0..Count, inside : BOOLEAN]
           /\ task[w].chunk \in Nat /\ task[w].at \in Nat
           /\ task[w].chunk # 0 <=> task[w].chunk \in Chunks
           /\ task[w].at # 0 => task[w].chunk \in Chunks
<1>1. /\ task[w] \in [chunk : 0..ChunkCount, at : 0..Count, inside : BOOLEAN]
      /\ Walking(w) /\ crew \in CrewSizes
  BY DEF WalkInv, WalkTyped
<1>2. ChunkCount \in Nat \ {0} /\ Count \in Nat \ {0}
  BY <1>1, ChunkCountIs, PoolConstants
<1>3. task[w].chunk \in 0..ChunkCount /\ task[w].at \in 0..Count
  BY <1>1
<1>4. task[w].at # 0 => task[w].chunk # 0
  BY <1>1 DEF Walking, AtRest
<1> QED
  BY <1>1, <1>2, <1>3, <1>4 DEF Chunks

\* A walk that ends with what it may end with.
LEMMA EndWalkKeeps ==
    ASSUME WalkInv, NEW w \in Walkers, NEW said \in Answers, NEW c \in Chunks,
           task[w].chunk = c, EndWalk(w, said), UNCHANGED <<poolCase, dealt, asked>>,
           Pooled => \/ said = Computed(Through(From(c), To(c))) /\ ~trouble.lot
                     \/ said = WalkCancelled /\ asked
                     \/ said = RefusesLot /\ trouble.lot,
           ~Pooled => said = SequentialWalk \/ (asked /\ said = WalkCancelled)
    PROVE  WalkInv'
<1>1. /\ trouble' = trouble /\ crew' = crew
      /\ ChunkCount' = ChunkCount /\ Chunks' = Chunks /\ Walkers' = Walkers
      /\ (Pooled' <=> Pooled) /\ (LotGivesWay' <=> LotGivesWay)
      /\ FirstRefused' = FirstRefused /\ SequentialWalk' = SequentialWalk
      /\ \A d : From(d)' = From(d) /\ To(d)' = To(d)
      /\ dealt' = dealt /\ asked' = asked
  BY SameCase
<1>2. /\ task' = [task EXCEPT ![w] = AtRest]
      /\ chunkResult' = [chunkResult EXCEPT ![c] = said]
      /\ refusal' = (refusal \/ said.is # "computed")
      /\ Pooled => point' = point /\ answer' = answer
      /\ ~Pooled => point' = "ended" /\ answer' = said
  BY DEF EndWalk, AnswersWith
<1>3. /\ WalkTyped /\ Walking(w) /\ \A v \in Walkers : Walking(v)
      /\ Apart /\ (IF Pooled THEN InPool ELSE Alone) /\ Unanswered
  BY DEF WalkInv
<1>4. /\ c \in Nat \ {0} /\ chunkResult[c] = NeverRun /\ (Pooled => c <= dealt)
      /\ point = IF Pooled THEN "dealing" ELSE "walking"
      /\ ChunkCount \in Nat \ {0} /\ Count \in Nat \ {0}
  BY <1>3, ChunkIs, ChunkCountIs, PoolConstants DEF Walking, WalkTyped
<1>5. /\ task'[w] = AtRest /\ chunkResult'[c] = said
      /\ \A v \in Walkers : v # w => task'[v] = task[v]
      /\ \A d \in Chunks : d # c => chunkResult'[d] = chunkResult[d]
  BY <1>2, <1>3 DEF WalkTyped
<1>6. AtRest.chunk = 0 /\ AtRest.at = 0 /\ AtRest.inside = FALSE
  BY DEF AtRest
<1>7. WalkTyped'
  <2>1. AtRest \in [chunk : 0..ChunkCount, at : 0..Count, inside : BOOLEAN]
    BY <1>4 DEF AtRest
  <2>2. refusal' \in BOOLEAN
    BY <1>2
  <2>3. Answers' = Answers
    BY DEF Answers
  <2> QED
    BY <1>1, <1>2, <1>3, <1>4, <2>1, <2>2, <2>3 DEF WalkTyped
<1>8. \A v \in Walkers : v # w => task[v].chunk # c /\ Pooled
  <2>1. \A v \in Walkers : v # w => task[v].chunk # c
    BY <1>3, <1>4 DEF Apart
  <2>2. ~Pooled => Walkers = {1}
    BY <1>3, AloneIs DEF WalkTyped
  <2> QED
    BY <2>1, <2>2
<1>9. ASSUME NEW v \in Walkers PROVE Walking(v)'
  <2>1. CASE v = w
    BY <1>1, <1>4, <1>5, <1>6, <2>1, ChunkIs DEF Walking, AtRest, Chunks
  <2>2. CASE v # w
    BY <1>1, <1>2, <1>3, <1>5, <1>8, <2>2 DEF Walking
  <2> QED
    BY <2>1, <2>2
<1>10. Apart'
  BY <1>1, <1>3, <1>5, <1>6 DEF Apart
<1>11. ASSUME Pooled PROVE InPool'
  <2>1. InPool /\ said.is # "never run"
    BY <1>3, <1>11, SaidsAre
  <2>2. ASSUME NEW d \in Chunks PROVE Ended(d)'
    <3>1. CASE d = c
      <4>1. d <= dealt
        BY <1>4, <1>11, <3>1
      <4>2. said # NeverRun
        BY <2>1, SaidsAre
      <4>3. d \in Nat /\ dealt \in Nat
        BY <1>3, <1>4, <3>1 DEF WalkTyped
      <4> QED
        BY <1>1, <1>5, <1>11, <3>1, <4>1, <4>2, <4>3 DEF Ended
    <3>2. CASE d # c
      <4>1. Ended(d)
        BY <2>1 DEF InPool
      <4>2. (\A v \in Walkers : task'[v].chunk # d) => \A v \in Walkers : task[v].chunk # d
        BY <1>5, <3>2
      <4>3. CrewStops => CrewStops'
        <5>1. refusal => refusal'
          BY <1>2
        <5>2. asked => asked'
          BY <1>1
        <5> QED
          BY <5>1, <5>2 DEF CrewStops
      <4> QED
        BY <1>1, <1>5, <3>2, <4>1, <4>2, <4>3 DEF Ended
    <3> QED
      BY <3>1, <3>2
  <2>3. refusal' => Failed' # {}
    <3>1. CASE said.is # "computed"
      <4>1. c \in Failed'
        BY <1>1, <1>5, <2>1, <3>1 DEF Failed
      <4> QED
        BY <4>1
    <3>2. CASE refusal
      <4>1. PICK d \in Chunks : chunkResult[d].is \notin {"computed", "never run"}
        BY <2>1, <3>2 DEF InPool, Failed
      <4>2. d # c
        BY <1>4, <4>1, SaidsAre
      <4>3. d \in Failed'
        BY <1>1, <1>5, <4>1, <4>2 DEF Failed
      <4> QED
        BY <4>3
    <3> QED
      BY <1>2, <3>1, <3>2
  <2> QED
    BY <1>1, <1>2, <1>4, <1>11, <2>1, <2>2, <2>3 DEF InPool
<1>12. ASSUME ~Pooled PROVE Alone'
  BY <1>2, <1>12 DEF Alone
<1>13. Unanswered'
  BY <1>2, <1>3, <1>4 DEF Unanswered
<1>14. AnswerIsTheSequentialWalks'
  <2>1. CASE Pooled
    BY <1>2, <1>4, <2>1 DEF AnswerIsTheSequentialWalks
  <2>2. CASE ~Pooled
    <3>1. WalkCancelled' = WalkCancelled
      BY DEF WalkCancelled, Said
    <3> QED
      BY <1>1, <1>2, <2>2, <3>1 DEF AnswerIsTheSequentialWalks
  <2> QED
    BY <2>1, <2>2
<1> QED
  BY <1>1, <1>7, <1>9, <1>10, <1>11, <1>12, <1>13, <1>14 DEF WalkInv

\* What a step leaves alone of the case it is about.
SameInput ==
    /\ trouble' = trouble /\ crew' = crew
    /\ ChunkCount' = ChunkCount /\ Chunks' = Chunks /\ Walkers' = Walkers
    /\ (Pooled' <=> Pooled) /\ (LotGivesWay' <=> LotGivesWay)
    /\ FirstRefused' = FirstRefused /\ SequentialWalk' = SequentialWalk
    /\ \A c : From(c)' = From(c) /\ To(c)' = To(c)
    /\ Answers' = Answers

LEMMA InputStays == ASSUME UNCHANGED poolCase PROVE SameInput
  BY SameCase DEF SameInput, Answers

\* A step that hands the walker w the chunk c, or moves it within c, to be at k.
MovesTo(w, k, c) ==
    /\ UNCHANGED <<poolCase, chunkResult, asked, refusal, answer>>
    /\ task' = [task EXCEPT ![w] = k]
    /\ k \in [chunk : 0..ChunkCount, at : 0..Count, inside : BOOLEAN] /\ k.chunk = c
    /\ task[w].chunk \in {0, c} /\ \A v \in Walkers : v # w => task[v].chunk # c
    /\ dealt' \in 0..ChunkCount /\ dealt <= dealt'
    /\ point # "ended" /\ point' = IF Pooled THEN "dealing" ELSE "walking"
    /\ Pooled => /\ point = "dealing" /\ c <= dealt'
                 /\ \A d \in Chunks : d <= dealt' => d <= dealt \/ d = c
    /\ chunkResult[c] = NeverRun
    /\ k.at # 0 => k.at \in From(c)..To(c)
    /\ k.inside => k.at # 0 /\ k.at \notin trouble.refused /\ ~trouble.scene
    /\ ~Pooled => /\ k.at # 0 /\ (k.at > 1 => ~trouble.scene /\ ~trouble.lot)
                  /\ \A r \in trouble.refused : r >= k.at

LEMMA MovesAWalker ==
    ASSUME WalkInv, NEW w \in Walkers, NEW k, NEW c \in Chunks, MovesTo(w, k, c)
    PROVE  WalkInv'
<1> USE DEF MovesTo
<1>1. /\ SameInput /\ chunkResult' = chunkResult /\ asked' = asked /\ refusal' = refusal
      /\ answer' = answer
  BY InputStays
<1>2. /\ WalkTyped /\ \A v \in Walkers : Walking(v)
      /\ Apart /\ (IF Pooled THEN InPool ELSE Alone) /\ Unanswered
  BY DEF WalkInv
<1>3. /\ task'[w] = k /\ \A v \in Walkers : v # w => task'[v] = task[v]
      /\ task' \in [Walkers -> [chunk : 0..ChunkCount, at : 0..Count, inside : BOOLEAN]]
  BY <1>2 DEF WalkTyped
<1>4. c \in Nat \ {0} /\ dealt \in Nat /\ dealt' \in Nat
  BY <1>2, ChunkIs, ChunkCountIs DEF WalkTyped
<1>5. point' \in {"walking", "dealing"}
  OBVIOUS
<1>6. WalkTyped'
  BY <1>1, <1>2, <1>3, <1>5 DEF WalkTyped, SameInput
<1>7. ASSUME NEW v \in Walkers PROVE Walking(v)'
  <2>1. CASE v = w
    <3>1. c # 0
      BY <1>4
    <3> QED
      BY <1>1, <1>3, <2>1, <3>1 DEF Walking, SameInput
  <2>2. CASE v # w
    <3>1. task'[v] = task[v] /\ Walking(v)
      BY <1>2, <1>3, <2>2
    <3>2. Pooled => point' = point
      OBVIOUS
    <3>3. ~Pooled => v = w
      BY <1>2, AloneIs DEF WalkTyped
    <3>4. \A d \in Chunks : d <= dealt => d <= dealt'
      BY <1>4 DEF Chunks
    <3> QED
      BY <1>1, <2>2, <3>1, <3>2, <3>3, <3>4 DEF Walking, SameInput
  <2> QED
    BY <2>1, <2>2
<1>8. Apart'
  <2>1. \A v \in Walkers : v # w => task'[v].chunk # task'[w].chunk
    BY <1>3
  <2>2. ASSUME NEW u \in Walkers, NEW v \in Walkers, task'[u].chunk = task'[v].chunk
        PROVE  u = v \/ task'[u].chunk = 0
    <3>1. CASE u = w \/ v = w
      BY <2>1, <2>2, <3>1
    <3>2. CASE u # w /\ v # w
      BY <1>2, <1>3, <2>2, <3>2 DEF Apart
    <3> QED
      BY <3>1, <3>2
  <2> QED
    BY <1>1, <2>2 DEF Apart, SameInput
<1>9. ASSUME Pooled PROVE InPool'
  <2>1. InPool /\ point' = "dealing" /\ point = "dealing"
    BY <1>2, <1>9
  <2>2. ASSUME NEW d \in Chunks PROVE Ended(d)'
    <3>1. Ended(d) /\ d \in Nat
      BY <1>2, <2>1, ChunkIs DEF InPool, WalkTyped
    <3>2. CASE d = c
      BY <1>1, <1>3, <1>4, <3>1, <3>2 DEF Ended, SameInput
    <3>3. CASE d # c
      <4>1. d <= dealt <=> d <= dealt'
        BY <1>4, <1>9, <3>1, <3>3
      <4>2. d > dealt <=> d > dealt'
        BY <1>4, <3>1, <4>1
      <4>3. (\A v \in Walkers : task'[v].chunk # d) => \A v \in Walkers : task[v].chunk # d
        <5>1. task[w].chunk # d
          BY <1>4, <3>1, <3>3, ChunkIs, <1>2 DEF WalkTyped
        <5> QED
          BY <1>3, <5>1
      <4>4. CrewStops => CrewStops'
        BY <1>1 DEF CrewStops
      <4> QED
        BY <1>1, <3>1, <4>1, <4>2, <4>3, <4>4 DEF Ended, SameInput
    <3> QED
      BY <3>2, <3>3
  <2>3. refusal' => Failed' # {}
    <3>1. Failed' = Failed
      BY <1>1 DEF Failed, SameInput
    <3> QED
      BY <1>1, <2>1, <3>1 DEF InPool
  <2> QED
    BY <1>1, <2>1, <2>2, <2>3 DEF InPool, SameInput
<1>10. ASSUME ~Pooled PROVE Alone'
  <2>1. w = 1
    BY <1>2, <1>10, AloneIs DEF WalkTyped
  <2>2. task'[1] = k
    BY <1>3, <2>1
  <2> QED
    BY <1>1, <1>10, <2>2 DEF Alone, SameInput
<1>11. Unanswered'
  BY <1>1, <1>2, <1>5 DEF Unanswered, NeverRun, Said
<1>12. AnswerIsTheSequentialWalks'
  BY <1>5 DEF AnswerIsTheSequentialWalks
<1> QED
  BY <1>1, <1>6, <1>7, <1>8, <1>9, <1>10, <1>11, <1>12 DEF WalkInv, SameInput

\* A step that leaves every walker and every chunk's result alone.
LEMMA StandsStill ==
    ASSUME WalkInv, UNCHANGED <<poolCase, task, chunkResult, refusal>>,
           asked' \in BOOLEAN, asked => asked',
           point' \in {"new", "walking", "preparing", "dealing", "ended"},
           dealt' \in {dealt, dealt + 1}, dealt' \in 0..ChunkCount,
           dealt' # dealt => Pooled /\ CrewStops,
           \A w \in Walkers : task[w].chunk # 0 => point' = point,
           ~Pooled => point' \in {point, "ended"},
           Pooled /\ point' = "dealing" => ~trouble.scene /\ trouble.refused = {},
           Pooled => point' # "walking",
           point' \in {"new", "preparing"} => dealt' = dealt /\ point \in {"new", "preparing"},
           answer' \in Answers,
           point' # "ended" => answer' = NeverRun,
           AnswerIsTheSequentialWalks'
    PROVE  WalkInv'
<1>1. /\ SameInput /\ task' = task /\ chunkResult' = chunkResult /\ refusal' = refusal
  BY InputStays
<1>2. /\ WalkTyped /\ \A v \in Walkers : Walking(v)
      /\ Apart /\ (IF Pooled THEN InPool ELSE Alone) /\ Unanswered
  BY DEF WalkInv
<1>3. dealt \in Nat /\ dealt' \in Nat /\ dealt <= dealt'
  BY <1>2, ChunkCountIs DEF WalkTyped
<1>4. WalkTyped'
  BY <1>1, <1>2 DEF WalkTyped, SameInput
<1>5. ASSUME NEW v \in Walkers PROVE Walking(v)'
  <2>1. Walking(v)
    BY <1>2
  <2>2. \A d \in Chunks : d <= dealt => d <= dealt'
    BY <1>3 DEF Chunks
  <2> QED
    BY <1>1, <2>1, <2>2 DEF Walking, SameInput
<1>6. Apart'
  BY <1>1, <1>2 DEF Apart, SameInput
<1>7. ASSUME Pooled PROVE InPool'
  <2>1. InPool
    BY <1>2, <1>7
  <2>2. CrewStops => CrewStops'
    BY <1>1 DEF CrewStops
  <2>3. ASSUME NEW d \in Chunks PROVE Ended(d)'
    <3>1. Ended(d) /\ d \in Nat
      BY <1>2, <2>1, ChunkIs DEF InPool, WalkTyped
    <3>2. d > dealt' => d > dealt
      BY <1>3, <3>1
    <3>3. d <= dealt' => d <= dealt \/ CrewStops'
      BY <1>3, <2>2, <3>1
    <3> QED
      BY <1>1, <2>2, <3>1, <3>2, <3>3 DEF Ended, SameInput
  <2>4. Failed' = Failed
    BY <1>1 DEF Failed, SameInput
  <2> QED
    BY <1>1, <1>7, <2>1, <2>3, <2>4 DEF InPool, SameInput
<1>8. ASSUME ~Pooled PROVE Alone'
  BY <1>1, <1>2, <1>8 DEF Alone, SameInput
<1>9. Unanswered'
  <2>1. NeverRun' = NeverRun /\ (point' # "ended" => answer' = NeverRun)
    BY DEF NeverRun, Said
  <2>2. ASSUME point' \in {"new", "preparing"}
        PROVE  dealt' = 0 /\ ~refusal' /\ \A c \in Chunks : chunkResult'[c] = NeverRun
    <3>1. dealt = 0 /\ ~refusal /\ \A c \in Chunks : chunkResult[c] = NeverRun
      BY <1>2, <2>2 DEF Unanswered
    <3> QED
      BY <1>1, <2>2, <3>1
  <2> QED
    BY <1>1, <2>1, <2>2 DEF Unanswered, SameInput
<1> QED
  BY <1>1, <1>4, <1>5, <1>6, <1>7, <1>8, <1>9 DEF WalkInv, SameInput

\* The caller's own steps.
LEMMA AskToStopKeeps == ASSUME WalkInv, AskToStop PROVE WalkInv'
<1>1. WalkTyped /\ (IF Pooled THEN InPool ELSE Alone) /\ Unanswered
  BY DEF WalkInv
<1>2. AnswerIsTheSequentialWalks'
  BY DEF AskToStop, AnswerIsTheSequentialWalks
<1> QED
  BY <1>1, <1>2, StandsStill DEF AskToStop, WalkTyped, InPool, Alone, Unanswered, poolReport

LEMMA DealToNobodyKeeps == ASSUME WalkInv, DealToNobody PROVE WalkInv'
<1>1. WalkTyped /\ (IF Pooled THEN InPool ELSE Alone) /\ Unanswered
  BY DEF WalkInv
<1>2. AnswerIsTheSequentialWalks'
  BY DEF DealToNobody, AnswerIsTheSequentialWalks
<1>3. Pooled /\ dealt + 1 \in 0..ChunkCount
  BY <1>1, ChunkCountIs DEF DealToNobody, Alone, WalkTyped
<1> QED
  BY <1>1, <1>2, <1>3, StandsStill DEF DealToNobody, WalkTyped, InPool, Unanswered, poolReport

LEMMA WalkAloneKeeps == ASSUME WalkInv, WalkAlone PROVE WalkInv'
<1>1. WalkTyped /\ Unanswered
  BY DEF WalkInv
<1>2. Walkers = {1} /\ Chunks = {1} /\ ChunkCount = 1 /\ From(1) = 1 /\ To(1) = Count
  BY <1>1, AloneIs DEF WalkAlone, WalkTyped
<1>3. task[1].chunk = 0 /\ chunkResult[1] = NeverRun
  BY <1>1, <1>2, AllAtRest DEF WalkAlone, AtRest, Unanswered
<1>4. Count \in Nat \ {0} /\ \A r \in trouble.refused : r >= 1
  BY <1>1, PoolConstants DEF WalkTyped, Receivers
<1> DEFINE k == Before(1, 1)
<1>5. k = [chunk |-> 1, at |-> 1, inside |-> FALSE]
  BY DEF Before
<1> HIDE DEF k
<1>6. k \in [chunk : 0..ChunkCount, at : 0..Count, inside : BOOLEAN]
  <2>1. 1 \in 0..ChunkCount /\ 1 \in 0..Count
    BY <1>2, <1>4
  <2> QED
    BY <1>5, <2>1
<1>7. task' = [task EXCEPT ![1] = k]
  BY DEF WalkAlone, k
<1>8. /\ UNCHANGED <<poolCase, chunkResult, asked, refusal, answer>> /\ dealt' = dealt
      /\ ~Pooled /\ point' = "walking" /\ point # "ended"
  BY DEF WalkAlone
<1>9. dealt \in 0..ChunkCount /\ dealt <= dealt
  BY <1>1, <1>2 DEF WalkTyped
<1>10. /\ k.chunk = 1 /\ k.at = 1 /\ ~k.inside
       /\ 1 \in Walkers /\ 1 \in Chunks /\ \A v \in Walkers : v = 1
       /\ k.at \in From(1)..To(1) /\ ~(k.at > 1) /\ \A r \in trouble.refused : r >= k.at
  BY <1>2, <1>4, <1>5
<1>11. /\ task[1].chunk \in {0, 1}
       /\ dealt' \in 0..ChunkCount /\ dealt <= dealt'
       /\ point' = IF Pooled THEN "dealing" ELSE "walking"
  BY <1>3, <1>8, <1>9
<1>12. MovesTo(1, k, 1)
  BY <1>3, <1>6, <1>7, <1>8, <1>10, <1>11 DEF MovesTo
<1> QED
  BY <1>10, <1>12, MovesAWalker

LEMMA OpenPoolKeeps == ASSUME WalkInv, OpenPool PROVE WalkInv'
<1>1. WalkTyped /\ InPool /\ Unanswered /\ Pooled
  BY DEF WalkInv, OpenPool
<1>2. \A w \in Walkers : task[w].chunk = 0
  BY AllAtRest DEF OpenPool, AtRest
<1>3. /\ UNCHANGED <<poolCase, task, chunkResult, refusal>>
      /\ dealt' = dealt /\ asked' = asked /\ point = "new"
  BY DEF OpenPool
<1>4. CASE asked /\ AnswersWith(WalkCancelled)
  <2>1. point' = "ended" /\ answer' = WalkCancelled /\ asked'
    BY <1>3, <1>4 DEF AnswersWith
  <2>2. AnswerIsTheSequentialWalks'
    BY <2>1 DEF AnswerIsTheSequentialWalks, WalkCancelled, Said
  <2> QED
    BY <1>1, <1>2, <1>3, <2>1, <2>2, SaidsAre, StandsStill DEF WalkTyped
<1>5. CASE ~asked /\ point' = "preparing" /\ UNCHANGED answer
  <2>1. AnswerIsTheSequentialWalks'
    BY <1>5 DEF AnswerIsTheSequentialWalks
  <2> QED
    BY <1>1, <1>2, <1>3, <1>5, <2>1, StandsStill DEF WalkTyped, Unanswered
<1> QED
  BY <1>4, <1>5 DEF OpenPool

LEMMA InputIs ==
    ASSUME trouble \in Inputs
    PROVE  /\ trouble.scene \in BOOLEAN /\ trouble.lot \in BOOLEAN
           /\ \A r \in trouble.refused : r \in Nat /\ 1 <= r /\ r <= Count
           /\ SequentialWalk \in Answers
           /\ 1 \in trouble.refused => FirstRefused = 1
<1>1. /\ trouble.scene \in BOOLEAN /\ trouble.lot \in BOOLEAN
      /\ \A r \in trouble.refused : r \in Nat /\ 1 <= r /\ r <= Count
      /\ Count \in Nat \ {0}
  BY PoolConstants DEF Receivers
<1>2. 1 \in trouble.refused => FirstRefused = 1
  BY <1>1, FirstRefusedIs
<1>3. /\ 1 \in Receivers /\ (trouble.refused # {} => RefusesReceiver(FirstRefused) \in Answers)
      /\ Computed(Through(1, Count)) \in Answers /\ RefusesReceiver(1) \in Answers
  <2>1. 1 \in Receivers /\ Count \in Receivers
    BY <1>1 DEF Receivers
  <2>2. Through(1, Count) \in Seq(Receivers)
    BY <1>1, <2>1, ThroughReceivers
  <2>3. trouble.refused # {} => FirstRefused \in Receivers
    BY FirstRefusedIs
  <2> QED
    BY <2>1, <2>2, <2>3, SaidsAre
<1>4. SequentialWalk \in Answers
  BY <1>3, SaidsAre DEF SequentialWalk
<1> QED
  BY <1>1, <1>2, <1>4

LEMMA PrepareKeeps == ASSUME WalkInv, Prepare PROVE WalkInv'
<1>1. /\ WalkTyped /\ Unanswered /\ Pooled /\ InPool /\ trouble \in Inputs
      /\ point = "preparing"
  BY DEF WalkInv, Alone, Prepare, WalkTyped
<1>2. \A w \in Walkers : task[w].chunk = 0
  BY <1>1, AllAtRest DEF AtRest
<1>3. /\ UNCHANGED <<poolCase, task, chunkResult, refusal>> /\ SameInput
      /\ dealt' = dealt /\ asked' = asked /\ asked' \in BOOLEAN /\ dealt' \in 0..ChunkCount
  BY <1>1, InputStays DEF Prepare, WalkTyped
<1>4. ASSUME NEW said \in Answers, AnswersWith(said),
             \/ said = SequentialWalk
             \/ asked /\ said = WalkCancelled
             \/ LotGivesWay /\ said = RefusesReceiver(FirstRefused)
      PROVE  WalkInv'
  <2>1. point' = "ended" /\ answer' = said
    BY <1>4 DEF AnswersWith
  <2>2. AnswerIsTheSequentialWalks'
    <3>1. /\ WalkCancelled' = WalkCancelled
          /\ RefusesReceiver(FirstRefused)' = RefusesReceiver(FirstRefused)
      BY <1>3 DEF WalkCancelled, RefusesReceiver, Said, SameInput
    <3>2. asked => asked'
      BY <1>3
    <3> QED
      BY <1>3, <1>4, <2>1, <3>1, <3>2 DEF AnswerIsTheSequentialWalks, SameInput
  <2>3. asked => asked'
    BY <1>3
  <2> QED
    BY <1>1, <1>2, <1>3, <2>1, <2>2, <2>3, StandsStill
<1>5. CASE /\ asked /\ AnswersWith(WalkCancelled)
  BY <1>4, <1>5, SaidsAre
<1>6. CASE /\ ~asked /\ trouble.scene
           /\ AnswersWith(IF 1 \in trouble.refused THEN RefusesReceiver(1) ELSE RefusesScene)
  <2>1. AnswersWith(SequentialWalk)
    BY <1>6 DEF SequentialWalk
  <2> QED
    BY <1>1, <1>4, <2>1, InputIs
<1>7. CASE /\ ~trouble.scene /\ trouble.refused # {}
           /\ AnswersWith(RefusesReceiver(FirstRefused))
  <2>1. RefusesReceiver(FirstRefused) \in Answers
    BY <1>1, <1>7, FirstRefusedIs, SaidsAre
  <2>2. CASE LotGivesWay
    BY <1>4, <1>7, <2>1, <2>2
  <2>3. CASE ~LotGivesWay
    <3>1. ~trouble.lot
      BY <1>1, <1>7, <2>3 DEF LotGivesWay
    <3>2. RefusesReceiver(FirstRefused) = SequentialWalk
      BY <1>1, <1>7, <3>1, InputIs DEF SequentialWalk
    <3> QED
      BY <1>4, <1>7, <2>1, <3>2
  <2> QED
    BY <2>2, <2>3
<1>8. CASE ~trouble.scene /\ trouble.refused = {} /\ point' = "dealing" /\ UNCHANGED answer
  <2>1. AnswerIsTheSequentialWalks'
    BY <1>8 DEF AnswerIsTheSequentialWalks
  <2>2. answer' = NeverRun /\ answer' \in Answers
    BY <1>1, <1>8, SaidsAre DEF Unanswered
  <2>3. asked => asked'
    BY <1>3
  <2> QED
    BY <1>1, <1>2, <1>3, <1>8, <2>1, <2>2, <2>3, StandsStill
<1> QED
  BY <1>5, <1>6, <1>7, <1>8 DEF Prepare

\* Once every chunk is dealt and nobody walks, what the chunks ended with is what one
\* goroutine would have said.
LEMMA CollectKeeps == ASSUME WalkInv, Collect PROVE WalkInv'
<1>1. /\ WalkTyped /\ Unanswered /\ point = "dealing" /\ trouble \in Inputs /\ crew \in CrewSizes
      /\ Pooled /\ InPool /\ dealt = ChunkCount
  BY DEF WalkInv, Alone, Collect, WalkTyped
<1>2. \A w \in Walkers : task[w].chunk = 0
  <2>1. \A w \in Walkers : task[w] = AtRest
    BY DEF Collect
  <2> QED
    BY <2>1 DEF AtRest
<1>3. /\ UNCHANGED <<poolCase, task, chunkResult, refusal>> /\ SameInput
      /\ dealt' = dealt /\ asked' = asked /\ asked' \in BOOLEAN /\ dealt' \in 0..ChunkCount
  BY <1>1, InputStays DEF Collect, WalkTyped
<1>4. ~trouble.scene /\ trouble.refused = {}
  BY <1>1 DEF InPool
<1>5. ChunkCount \in Nat \ {0} /\ 1 \in Chunks /\ \A c \in Chunks : c \in Nat \ {0} /\ c <= dealt
  BY <1>1, ChunkCountIs DEF Chunks
<1>6. ASSUME NEW c \in Chunks
      PROVE  /\ \/ chunkResult[c] = NeverRun
                \/ chunkResult[c] = Computed(Through(From(c), To(c))) /\ ~trouble.lot
                \/ chunkResult[c] = WalkCancelled /\ asked
                \/ chunkResult[c] = RefusesLot /\ trouble.lot
             /\ chunkResult[c] = NeverRun => CrewStops
  <2>1. Ended(c)
    BY <1>1 DEF InPool
  <2>2. \A w \in Walkers : task[w].chunk # c
    BY <1>2, <1>5
  <2> QED
    BY <1>5, <2>1, <2>2 DEF Ended
<1>7. ASSUME NEW said \in Answers, AnswersWith(said),
             said = SequentialWalk \/ (asked /\ said = WalkCancelled)
      PROVE  WalkInv'
  <2>1. point' = "ended" /\ answer' = said
    BY <1>7 DEF AnswersWith
  <2>2. asked => asked'
    BY <1>3
  <2>3. AnswerIsTheSequentialWalks'
    <3>1. WalkCancelled' = WalkCancelled
      BY DEF WalkCancelled, Said
    <3> QED
      BY <1>3, <1>7, <2>1, <2>2, <3>1 DEF AnswerIsTheSequentialWalks, SameInput
  <2> QED
    BY <1>1, <1>2, <1>3, <2>1, <2>2, <2>3, StandsStill
<1>8. CASE asked
  BY <1>7, <1>8, SaidsAre DEF Collect
<1>9. CASE ~asked /\ Failed # {}
  <2>1. Failed \in SUBSET Nat
    BY <1>5 DEF Failed
  <2>2. LowestFailed \in Failed
    BY <1>9, <2>1, LeastOfThem DEF LowestFailed
  <2>3. LowestFailed \in Chunks /\ chunkResult[LowestFailed].is \notin {"computed", "never run"}
    BY <2>2 DEF Failed
  <2>4. chunkResult[LowestFailed] = RefusesLot /\ trouble.lot
    BY <1>6, <1>9, <2>3, SaidsAre
  <2>5. SequentialWalk = RefusesLot
    BY <1>4, <2>4 DEF SequentialWalk
  <2>6. AnswersWith(RefusesLot)
    BY <1>9, <2>4 DEF Collect
  <2> QED
    BY <1>7, <2>5, <2>6, SaidsAre
<1>10. CASE ~asked /\ Failed = {}
  <2>1. ~CrewStops
    BY <1>1, <1>10 DEF CrewStops, InPool
  <2>2. ASSUME NEW c \in Chunks
        PROVE  chunkResult[c] = Computed(Through(From(c), To(c))) /\ ~trouble.lot
               /\ chunkResult[c].is # "never run"
    <3>1. chunkResult[c] # RefusesLot
      BY <1>10, SaidsAre DEF Failed
    <3> QED
      BY <1>6, <1>10, <2>1, <3>1, SaidsAre
  <2>3. AllLevels = Through(1, Count)
    BY <1>1, <2>2, AllLevelsIs
  <2>4. SequentialWalk = Computed(Through(1, Count))
    BY <1>4, <1>5, <2>2 DEF SequentialWalk
  <2>5. AnswersWith(SequentialWalk)
    BY <1>10, <2>2, <2>3, <2>4 DEF Collect
  <2> QED
    BY <1>1, <1>7, <2>5, InputIs
<1> QED
  BY <1>8, <1>9, <1>10

\* The walkers' steps.
LEMMA DealKeeps ==
    ASSUME WalkInv, NEW w \in Walkers, Deal(w)
    PROVE  WalkInv'
<1> DEFINE c == dealt + 1
           k == Received(c)
<1>1. /\ WalkTyped /\ point = "dealing" /\ Pooled /\ InPool /\ dealt < ChunkCount
      /\ crew \in CrewSizes /\ \A v \in Walkers : Walking(v)
  BY DEF WalkInv, Alone, Deal, WalkTyped
<1>2. ChunkCount \in Nat \ {0} /\ dealt \in Nat /\ c \in Chunks /\ Count \in Nat
  BY <1>1, ChunkCountIs, PoolConstants DEF WalkTyped, Chunks
<1>3. k = [chunk |-> c, at |-> 0, inside |-> FALSE]
  BY DEF Received
<1>4. /\ task' = [task EXCEPT ![w] = k] /\ dealt' = c /\ point' = point
      /\ UNCHANGED <<poolCase, chunkResult, asked, refusal, answer>>
      /\ task[w].chunk = 0
  BY DEF Deal, AtRest
<1>5. ASSUME NEW v \in Walkers PROVE task[v].chunk # c
  <2>1. Walking(v) /\ task[v].chunk \in Nat
    BY <1>1, TaskIs
  <2> QED
    BY <1>1, <1>2, <2>1 DEF Walking
<1>6. chunkResult[c] = NeverRun
  BY <1>1, <1>2 DEF InPool, Ended
<1> HIDE DEF k
<1>7. k \in [chunk : 0..ChunkCount, at : 0..Count, inside : BOOLEAN] /\ k.chunk = c
      /\ k.at = 0 /\ ~k.inside
  <2>1. c \in 0..ChunkCount /\ 0 \in 0..Count
    BY <1>1, <1>2
  <2> HIDE DEF c
  <2> QED
    BY <1>3, <2>1
<1>8. /\ dealt' \in 0..ChunkCount /\ dealt <= dealt' /\ c <= dealt'
      /\ \A d \in Chunks : d <= dealt' => d <= dealt \/ d = c
  BY <1>1, <1>2, <1>4 DEF Chunks
<1>9. MovesTo(w, k, c)
  BY <1>1, <1>4, <1>5, <1>6, <1>7, <1>8 DEF MovesTo
<1> QED
  BY <1>2, <1>9, MovesAWalker

\* A chunk that is dropped is not run, for a reason.
LEMMA DropKeeps ==
    ASSUME WalkInv, NEW w \in Walkers, task[w].at = 0, CrewStops, Pooled,
           task' = [task EXCEPT ![w] = AtRest],
           UNCHANGED <<poolCase, point, dealt, chunkResult, asked, refusal, answer>>
    PROVE  WalkInv'
<1>1. /\ SameInput /\ chunkResult' = chunkResult /\ asked' = asked /\ refusal' = refusal
      /\ answer' = answer /\ dealt' = dealt /\ point' = point
  BY InputStays
<1>2. /\ WalkTyped /\ \A v \in Walkers : Walking(v)
      /\ Apart /\ InPool /\ Unanswered /\ crew \in CrewSizes /\ AnswerIsTheSequentialWalks
  BY DEF WalkInv, WalkTyped
<1>3. AtRest.chunk = 0 /\ AtRest.at = 0 /\ AtRest.inside = FALSE
  BY DEF AtRest
<1>4. /\ task'[w] = AtRest /\ \A v \in Walkers : v # w => task'[v] = task[v]
      /\ task' \in [Walkers -> [chunk : 0..ChunkCount, at : 0..Count, inside : BOOLEAN]]
  <2>1. AtRest \in [chunk : 0..ChunkCount, at : 0..Count, inside : BOOLEAN]
    BY <1>2, ChunkCountIs, PoolConstants DEF AtRest
  <2> QED
    BY <1>2, <2>1 DEF WalkTyped
<1>5. WalkTyped'
  BY <1>1, <1>2, <1>4 DEF WalkTyped, SameInput
<1>6. \A c \in Chunks : c # 0
  BY <1>2, ChunkIs
<1>7. ASSUME NEW v \in Walkers PROVE Walking(v)'
  <2>1. CASE v = w
    BY <1>1, <1>3, <1>4, <1>6, <2>1 DEF Walking, SameInput, AtRest
  <2>2. CASE v # w
    BY <1>1, <1>2, <1>4, <2>2 DEF Walking, SameInput
  <2> QED
    BY <2>1, <2>2
<1>8. Apart'
  BY <1>1, <1>2, <1>3, <1>4 DEF Apart, SameInput
<1>9. CrewStops'
  <2>1. asked => asked'
    BY <1>1
  <2>2. refusal => refusal'
    BY <1>1
  <2> QED
    BY <2>1, <2>2 DEF CrewStops
<1>10. InPool'
  <2>1. Failed' = Failed
    BY <1>1 DEF Failed, SameInput
  <2>2. refusal' => refusal
    BY <1>1
  <2> QED
    BY <1>1, <1>2, <1>9, <2>1, <2>2 DEF InPool, Ended, SameInput
<1>11. Unanswered'
  <2>1. NeverRun' = NeverRun
    BY DEF NeverRun, Said
  <2>2. refusal' => refusal
    BY <1>1
  <2> QED
    BY <1>1, <1>2, <2>1, <2>2 DEF Unanswered, SameInput
<1>12. AnswerIsTheSequentialWalks'
  <2>1. WalkCancelled' = WalkCancelled
    BY DEF WalkCancelled, Said
  <2>2. RefusesReceiver(FirstRefused)' = RefusesReceiver(FirstRefused)
    BY <1>1 DEF RefusesReceiver, Said, SameInput
  <2>3. asked => asked'
    BY <1>1
  <2> QED
    BY <1>1, <1>2, <2>1, <2>2, <2>3 DEF AnswerIsTheSequentialWalks, SameInput
<1> QED
  BY <1>1, <1>5, <1>7, <1>8, <1>10, <1>11, <1>12 DEF WalkInv, SameInput

\* Where a walker at work stands.
LEMMA AtWork ==
    ASSUME WalkInv, NEW w \in Walkers, NEW c \in Chunks, task[w].chunk = c
    PROVE  /\ c \in Nat \ {0} /\ c \in 0..ChunkCount /\ chunkResult[c] = NeverRun
           /\ From(c) \in Receivers /\ To(c) \in Receivers /\ From(c) <= To(c)
           /\ \A v \in Walkers : v # w => task[v].chunk # c
           /\ point = IF Pooled THEN "dealing" ELSE "walking"
           /\ Pooled => c <= dealt /\ ~trouble.scene /\ trouble.refused = {}
           /\ task[w].at # 0 => task[w].at \in From(c)..To(c) /\ task[w].at \in Receivers
           /\ ~Pooled => /\ c = 1 /\ w = 1 /\ From(c) = 1 /\ To(c) = Count
                         /\ task[w].at # 0
                         /\ task[w].at > 1 => ~trouble.scene /\ ~trouble.lot
                         /\ \A r \in trouble.refused : r >= task[w].at
<1>1. /\ WalkTyped /\ Walking(w) /\ Apart /\ (IF Pooled THEN InPool ELSE Alone)
      /\ crew \in CrewSizes /\ Count \in Nat \ {0} /\ ChunkCount \in Nat \ {0}
  BY PoolConstants, ChunkCountIs DEF WalkInv, WalkTyped
<1>2. /\ c \in Nat \ {0} /\ c <= ChunkCount
      /\ From(c) \in Receivers /\ To(c) \in Receivers /\ From(c) <= To(c)
  BY <1>1, ChunkIs
<1>3. \A v \in Walkers : v # w => task[v].chunk # c
  BY <1>1, <1>2 DEF Apart
<1>4. /\ chunkResult[c] = NeverRun /\ (Pooled => c <= dealt)
      /\ point = IF Pooled THEN "dealing" ELSE "walking"
      /\ task[w].at # 0 => task[w].at \in From(c)..To(c)
  BY <1>1, <1>2 DEF Walking
<1>5. task[w].at # 0 => task[w].at \in Receivers
  BY <1>1, <1>2, <1>4 DEF Receivers
<1>6. Pooled => ~trouble.scene /\ trouble.refused = {}
  BY <1>1, <1>4 DEF InPool
<1>7. ASSUME ~Pooled
      PROVE  /\ c = 1 /\ w = 1 /\ From(c) = 1 /\ To(c) = Count /\ task[w].at # 0
             /\ task[w].at > 1 => ~trouble.scene /\ ~trouble.lot
             /\ \A r \in trouble.refused : r >= task[w].at
  <2>1. c = 1 /\ w = 1 /\ From(1) = 1 /\ To(1) = Count
    BY <1>1, <1>7, AloneIs
  <2> QED
    BY <1>1, <1>4, <1>7, <2>1 DEF Alone
<1> QED
  BY <1>1, <1>2, <1>3, <1>4, <1>5, <1>6, <1>7

LEMMA TakeUpKeeps ==
    ASSUME WalkInv, NEW w \in Walkers, TakeUp(w)
    PROVE  WalkInv'
<1> DEFINE c == task[w].chunk
<1>1. c \in Chunks /\ task[w].at = 0
  BY TaskIs DEF TakeUp
<1>2. /\ c \in Nat \ {0} /\ c \in 0..ChunkCount /\ chunkResult[c] = NeverRun
      /\ From(c) \in Receivers /\ To(c) \in Receivers /\ From(c) <= To(c)
      /\ \A v \in Walkers : v # w => task[v].chunk # c
      /\ point = "dealing" /\ Pooled /\ c <= dealt
  BY <1>1, AtWork
<1>3. /\ UNCHANGED <<poolCase, chunkResult, asked, refusal, answer>>
      /\ point' = point /\ dealt' = dealt
      /\ dealt \in 0..ChunkCount /\ ChunkCount \in Nat
  BY ChunkCountIs DEF TakeUp, WalkInv, WalkTyped
<1>4. CASE CrewStops
  BY <1>1, <1>2, <1>3, <1>4, DropKeeps DEF TakeUp
<1>5. CASE ~CrewStops
  <2> DEFINE k == Before(c, From(c))
  <2>1. k = [chunk |-> c, at |-> From(c), inside |-> FALSE]
    BY DEF Before
  <2>2. task' = [task EXCEPT ![w] = k]
    BY <1>5 DEF TakeUp
  <2>3. From(c) \in 0..Count /\ From(c) \in From(c)..To(c)
    BY <1>2, PoolConstants DEF Receivers
  <2> HIDE DEF k
  <2>4. /\ k \in [chunk : 0..ChunkCount, at : 0..Count, inside : BOOLEAN]
        /\ k.chunk = c /\ k.at \in From(c)..To(c) /\ ~k.inside
    BY <1>2, <2>1, <2>3
  <2>5. MovesTo(w, k, c)
    <3>1. dealt <= dealt' /\ dealt' \in 0..ChunkCount /\ \A d \in Chunks : d <= dealt' => d <= dealt
      BY <1>3
    <3> QED
      BY <1>2, <1>3, <2>2, <2>4, <3>1 DEF MovesTo
  <2> QED
    BY <1>1, <2>5, MovesAWalker
<1> QED
  BY <1>4, <1>5

\* A walk alone that is refused, or done, is answered by itself.
LEMMA NextReceiverKeeps ==
    ASSUME WalkInv, NEW w \in Walkers, NextReceiver(w)
    PROVE  WalkInv'
<1> DEFINE c == task[w].chunk
           r == task[w].at
<1>1. c \in Chunks /\ r # 0 /\ trouble \in Inputs
  BY TaskIs DEF NextReceiver, WalkInv, WalkTyped
<1>2. /\ c \in Nat \ {0} /\ c \in 0..ChunkCount /\ chunkResult[c] = NeverRun
      /\ From(c) \in Receivers /\ To(c) \in Receivers /\ From(c) <= To(c)
      /\ \A v \in Walkers : v # w => task[v].chunk # c
      /\ point = IF Pooled THEN "dealing" ELSE "walking"
      /\ Pooled => c <= dealt /\ ~trouble.scene /\ trouble.refused = {}
      /\ r \in From(c)..To(c) /\ r \in Receivers
      /\ ~Pooled => /\ r > 1 => ~trouble.scene /\ ~trouble.lot
                    /\ \A s \in trouble.refused : s >= r
  BY <1>1, AtWork
<1>3. /\ UNCHANGED <<poolCase, dealt, asked>> /\ dealt \in 0..ChunkCount /\ ChunkCount \in Nat
      /\ r \in Nat /\ r \in 0..Count /\ r >= 1
  BY <1>2, ChunkCountIs, PoolConstants DEF NextReceiver, WalkInv, WalkTyped, Receivers
<1>4. CASE asked
  <2>1. EndWalk(w, WalkCancelled)
    BY <1>4 DEF NextReceiver
  <2> QED
    BY <1>1, <1>3, <1>4, <2>1, EndWalkKeeps, SaidsAre
<1>5. CASE ~asked /\ r \in trouble.refused
  <2>1. EndWalk(w, RefusesReceiver(r))
    BY <1>5 DEF NextReceiver
  <2>2. ~Pooled
    BY <1>2, <1>5
  <2>3. RefusesReceiver(r) = SequentialWalk
    <3>1. CASE r = 1
      BY <1>5, <3>1 DEF SequentialWalk
    <3>2. CASE r # 1
      <4>1. 1 \notin trouble.refused /\ ~trouble.scene /\ ~trouble.lot /\ trouble.refused # {}
        BY <1>2, <1>3, <1>5, <2>2, <3>2
      <4>2. FirstRefused = r
        <5>1. FirstRefused \in trouble.refused /\ FirstRefused <= r /\ FirstRefused \in Receivers
          BY <1>1, <1>5, FirstRefusedIs
        <5> QED
          BY <1>2, <1>3, <2>2, <5>1, PoolConstants DEF Receivers
      <4> QED
        BY <4>1, <4>2 DEF SequentialWalk
    <3> QED
      BY <3>1, <3>2
  <2> QED
    BY <1>1, <1>2, <1>3, <2>1, <2>2, <2>3, EndWalkKeeps, SaidsAre
<1>6. CASE ~asked /\ r \notin trouble.refused /\ trouble.scene /\ ~Pooled
  <2>1. EndWalk(w, RefusesScene)
    BY <1>6 DEF NextReceiver
  <2>2. RefusesScene = SequentialWalk
    BY <1>2, <1>3, <1>6 DEF SequentialWalk
  <2> QED
    BY <1>1, <1>3, <1>6, <2>1, <2>2, EndWalkKeeps, SaidsAre
<1>7. CASE ~asked /\ r \notin trouble.refused /\ ~(trouble.scene /\ ~Pooled)
  <2> DEFINE k == Inside(c, r)
  <2>1. k = [chunk |-> c, at |-> r, inside |-> TRUE]
    BY DEF Inside
  <2>2. /\ task' = [task EXCEPT ![w] = k]
        /\ UNCHANGED <<poolCase, chunkResult, asked, refusal, answer>>
        /\ point' = point /\ dealt' = dealt
    BY <1>7 DEF NextReceiver
  <2> HIDE DEF k
  <2>3. /\ k \in [chunk : 0..ChunkCount, at : 0..Count, inside : BOOLEAN]
        /\ k.chunk = c /\ k.at = r
    BY <1>2, <1>3, <2>1
  <2>4. ~trouble.scene
    BY <1>2, <1>7
  <2>5. MovesTo(w, k, c)
    <3>1. dealt <= dealt' /\ dealt' \in 0..ChunkCount /\ \A d \in Chunks : d <= dealt' => d <= dealt
      BY <1>3, <2>2
    <3> QED
      BY <1>1, <1>2, <1>7, <2>2, <2>3, <2>4, <3>1 DEF MovesTo
  <2> QED
    BY <1>1, <2>5, MovesAWalker
<1> QED
  BY <1>4, <1>5, <1>6, <1>7

\* What is known of a walker inside a receiver.
LEMMA InsideIs ==
    ASSUME WalkInv, NEW w \in Walkers, task[w].inside
    PROVE  /\ task[w].at # 0 /\ task[w].at \notin trouble.refused /\ ~trouble.scene
           /\ task[w].chunk \in Chunks /\ trouble \in Inputs
  BY TaskIs DEF WalkInv, Walking, WalkTyped

LEMMA LeaveReceiverKeeps ==
    ASSUME WalkInv, NEW w \in Walkers, LeaveReceiver(w)
    PROVE  WalkInv'
<1> DEFINE c == task[w].chunk
           r == task[w].at
<1>1. /\ c \in Chunks /\ r # 0 /\ r \notin trouble.refused /\ ~trouble.scene
      /\ UNCHANGED <<poolCase, dealt, asked>>
  BY InsideIs DEF LeaveReceiver
<1>2. /\ r \in Receivers
      /\ ~Pooled => /\ r > 1 => ~trouble.lot
                    /\ \A s \in trouble.refused : s >= r
  BY <1>1, AtWork
<1>3. CASE asked /\ EndWalk(w, WalkCancelled)
  BY <1>1, <1>3, EndWalkKeeps, SaidsAre
<1>4. CASE trouble.lot /\ EndWalk(w, RefusesLot)
  <2>1. ~Pooled => RefusesLot = SequentialWalk
    <3>1. ~Pooled => 1 \notin trouble.refused
      BY <1>1, <1>2, <1>4, PoolConstants DEF Receivers
    <3> QED
      BY <1>1, <1>4, <3>1 DEF SequentialWalk
  <2> QED
    BY <1>1, <1>4, <2>1, EndWalkKeeps, SaidsAre
<1> QED
  BY <1>3, <1>4 DEF LeaveReceiver

LEMMA LevelOfKeeps ==
    ASSUME WalkInv, NEW w \in Walkers, LevelOf(w)
    PROVE  WalkInv'
<1> DEFINE c == task[w].chunk
           r == task[w].at
<1>1. /\ c \in Chunks /\ r # 0 /\ r \notin trouble.refused /\ ~trouble.scene /\ ~trouble.lot
      /\ UNCHANGED <<poolCase, dealt, asked>> /\ trouble \in Inputs
  BY InsideIs DEF LevelOf
<1>2. /\ c \in Nat \ {0} /\ c \in 0..ChunkCount /\ chunkResult[c] = NeverRun
      /\ From(c) \in Receivers /\ To(c) \in Receivers /\ From(c) <= To(c)
      /\ \A v \in Walkers : v # w => task[v].chunk # c
      /\ point = IF Pooled THEN "dealing" ELSE "walking"
      /\ Pooled => c <= dealt
      /\ r \in From(c)..To(c) /\ r \in Receivers
      /\ ~Pooled => /\ From(c) = 1 /\ To(c) = Count
                    /\ \A s \in trouble.refused : s >= r
  BY <1>1, AtWork
<1>3. /\ dealt \in 0..ChunkCount /\ ChunkCount \in Nat /\ Count \in Nat \ {0}
      /\ r \in Nat /\ r >= 1 /\ r <= Count /\ From(c) \in Nat /\ To(c) \in Nat /\ To(c) <= Count
      /\ \A s \in trouble.refused : s \in Nat /\ s <= Count
  BY <1>1, <1>2, ChunkCountIs, PoolConstants, InputIs DEF WalkInv, WalkTyped, Receivers
<1>4. CASE r = To(c)
  <2> DEFINE said == Computed(Through(From(c), To(c)))
  <2>1. EndWalk(w, said)
    BY <1>4 DEF LevelOf
  <2>2. said \in Answers
    BY <1>2, ThroughReceivers, SaidsAre
  <2>3. ~Pooled => said = SequentialWalk
    <3>1. ~Pooled => trouble.refused = {}
      BY <1>1, <1>2, <1>3, <1>4
    <3> QED
      BY <1>1, <1>2, <3>1 DEF SequentialWalk
  <2> HIDE DEF said
  <2>4. Pooled => said = Computed(Through(From(c), To(c)))
    BY DEF said
  <2> QED
    BY <1>1, <2>1, <2>2, <2>3, <2>4, EndWalkKeeps
<1>5. CASE r # To(c)
  <2> DEFINE k == Before(c, r + 1)
  <2>1. k = [chunk |-> c, at |-> r + 1, inside |-> FALSE]
    BY DEF Before
  <2>2. /\ task' = [task EXCEPT ![w] = k]
        /\ UNCHANGED <<poolCase, chunkResult, asked, refusal, answer>>
        /\ point' = point /\ dealt' = dealt
    BY <1>5 DEF LevelOf
  <2>3. r + 1 \in 0..Count /\ r + 1 \in From(c)..To(c) /\ r + 1 # 0
    BY <1>2, <1>3, <1>5
  <2>4. ~Pooled => \A s \in trouble.refused : s >= r + 1
    BY <1>1, <1>2, <1>3
  <2> HIDE DEF k
  <2>5. /\ k \in [chunk : 0..ChunkCount, at : 0..Count, inside : BOOLEAN]
        /\ k.chunk = c /\ k.at = r + 1 /\ ~k.inside
    BY <1>2, <2>1, <2>3
  <2>6. MovesTo(w, k, c)
    <3>1. dealt <= dealt' /\ dealt' \in 0..ChunkCount /\ \A d \in Chunks : d <= dealt' => d <= dealt
      BY <1>3, <2>2
    <3> QED
      BY <1>1, <1>2, <2>2, <2>3, <2>4, <2>5, <3>1 DEF MovesTo
  <2> QED
    BY <1>1, <2>6, MovesAWalker
<1> QED
  BY <1>4, <1>5

LEMMA StepKeepsWalks == ASSUME WalkInv, [PoolNext]_poolVars PROVE WalkInv'
<1>1. CASE AskToStop
  BY <1>1, AskToStopKeeps
<1>2. CASE WalkAlone
  BY <1>2, WalkAloneKeeps
<1>3. CASE OpenPool
  BY <1>3, OpenPoolKeeps
<1>4. CASE Prepare
  BY <1>4, PrepareKeeps
<1>5. CASE DealToNobody
  BY <1>5, DealToNobodyKeeps
<1>6. CASE Collect
  BY <1>6, CollectKeeps
<1>7. ASSUME NEW w \in Walkers, WalkerStep(w) PROVE WalkInv'
  BY <1>7, DealKeeps, TakeUpKeeps, NextReceiverKeeps, LeaveReceiverKeeps, LevelOfKeeps
     DEF WalkerStep
<1>8. CASE UNCHANGED poolVars
  <2>1. UNCHANGED <<poolCase, point, dealt, task, chunkResult, asked, refusal, answer>>
    BY <1>8 DEF poolVars
  <2>2. SameInput /\ WalkTyped /\ (IF Pooled THEN InPool ELSE Alone) /\ Unanswered
    BY <2>1, InputStays DEF WalkInv
  <2>3. asked => asked'
    BY <2>1
  <2>4. AnswerIsTheSequentialWalks'
    <3>1. /\ WalkCancelled' = WalkCancelled
          /\ RefusesReceiver(FirstRefused)' = RefusesReceiver(FirstRefused)
      BY <2>2 DEF WalkCancelled, RefusesReceiver, Said, SameInput
    <3> QED
      BY <2>1, <2>2, <2>3, <3>1 DEF WalkInv, AnswerIsTheSequentialWalks, SameInput
  <2> QED
    BY <2>1, <2>2, <2>3, <2>4, StandsStill DEF WalkTyped, InPool, Alone, Unanswered
<1> QED
  BY <1>1, <1>2, <1>3, <1>4, <1>5, <1>6, <1>7, <1>8 DEF PoolNext

\* The walks keep their invariant.
LEMMA WalksHold == PoolSpec => []WalkInv
<1>1. PoolInit => WalkInv
  BY WalkStarts
<1>2. WalkInv /\ [PoolNext]_poolVars => WalkInv'
  BY StepKeepsWalks
<1> QED
  BY <1>1, <1>2, PTL DEF PoolSpec

\* Whichever workers, in whatever order they take, drop and end chunks, and whatever is
\* wrong with the input: the caller is answered as by the sequential walk
\* (AnswerIsTheSequentialWalks).
THEOREM AnswerIsAlwaysTheSequentialWalks == PoolSpec => []AnswerIsTheSequentialWalks
<1>1. WalkInv => AnswerIsTheSequentialWalks
  BY DEF WalkInv
<1> QED
  BY <1>1, WalksHold, PTL

-----------------------------------------------------------------------------
(* How far the walks have got: the induction.                              *)

LEMMA BehindIs ==
    /\ Behind \in SUBSET Receivers /\ IsFiniteSet(Behind)
    /\ Cardinality(Behind) \in Nat /\ Cardinality(Behind) <= Count
    /\ IsFiniteSet(Receivers) /\ Cardinality(Receivers) = Count
<1>1. Count \in Nat \ {0}
  BY PoolConstants
<1>2. IsFiniteSet(Receivers) /\ Cardinality(Receivers) = Count
  BY <1>1, FS_Interval DEF Receivers
<1>3. Behind \in SUBSET Receivers
  BY DEF Behind
<1> QED
  BY <1>1, <1>2, <1>3, FS_Subset, FS_CardinalityType

\* A step that moves nobody forward.
LEMMA NobodyPasses ==
    ASSUME SameInput, chunkResult' = chunkResult,
           \A c \in Chunks : \A r \in Receivers : r \in From(c)..To(c) =>
              ((\E w \in Walkers : task'[w].chunk = c /\ r < task'[w].at)
               <=> (\E w \in Walkers : task[w].chunk = c /\ r < task[w].at))
    PROVE  Behind' = Behind /\ Failed' = Failed
<1>1. Failed' = Failed
  BY DEF Failed, SameInput
<1>2. NeverRun' = NeverRun
  BY DEF NeverRun, Said
<1>3. ASSUME NEW c \in Chunks, NEW r \in Receivers, r \in From(c)..To(c)
      PROVE  Passed(c, r)' <=> Passed(c, r)
  BY <1>2, <1>3 DEF Passed, SameInput
<1>4. Behind' = Behind
  <2>1. Behind' = {r \in Receivers : \E c \in Chunks : r \in From(c)..To(c) /\ Passed(c, r)'}
    BY DEF Behind, SameInput
  <2> QED
    BY <1>3, <2>1 DEF Behind
<1> QED
  BY <1>1, <1>4

LEMMA NobodyMoves ==
    ASSUME SameInput, task' = task, chunkResult' = chunkResult
    PROVE  Behind' = Behind /\ Failed' = Failed
  BY NobodyPasses

\* A walker that is moved within its chunk, or given one, and passes no receiver of it.
PassesNone(w, k) ==
    \A c \in Chunks : \A r \in Receivers : r \in From(c)..To(c) =>
       (k.chunk = c /\ r < k.at <=> task[w].chunk = c /\ r < task[w].at)

LEMMA PassesNothing ==
    ASSUME WalkInv, SameInput, chunkResult' = chunkResult, NEW w \in Walkers, NEW k,
           task' = [task EXCEPT ![w] = k], PassesNone(w, k)
    PROVE  Behind' = Behind /\ Failed' = Failed
<1>1. task'[w] = k /\ \A v \in Walkers : v # w => task'[v] = task[v]
  BY DEF WalkInv, WalkTyped
<1>2. ASSUME NEW c \in Chunks, NEW r \in Receivers, r \in From(c)..To(c)
      PROVE  (\E v \in Walkers : task'[v].chunk = c /\ r < task'[v].at)
             <=> (\E v \in Walkers : task[v].chunk = c /\ r < task[v].at)
  <2>1. ASSUME NEW v \in Walkers
        PROVE  task'[v].chunk = c /\ r < task'[v].at <=> task[v].chunk = c /\ r < task[v].at
    <3>1. CASE v = w
      BY <1>1, <1>2, <3>1 DEF PassesNone
    <3>2. CASE v # w
      BY <1>1, <3>2
    <3> QED
      BY <3>1, <3>2
  <2> QED
    BY <2>1
<1> QED
  BY <1>2, NobodyPasses

\* A walk that fails counts its whole chunk as behind.
LEMMA FailingPasses ==
    ASSUME WalkInv, NEW w \in Walkers, NEW said, NEW c \in Chunks, task[w].chunk = c,
           EndWalk(w, said), UNCHANGED <<poolCase, dealt, asked>>,
           said.is \notin {"computed", "never run"}
    PROVE  Behind \subseteq Behind' /\ Failed' # {}
<1>1. SameInput
  BY InputStays
<1>2. /\ task' = [task EXCEPT ![w] = AtRest]
      /\ chunkResult' = [chunkResult EXCEPT ![c] = said]
  BY DEF EndWalk
<1>3. /\ chunkResult'[c] = said /\ \A d \in Chunks : d # c => chunkResult'[d] = chunkResult[d]
      /\ \A v \in Walkers : v # w => task'[v] = task[v]
  BY <1>2 DEF WalkInv, WalkTyped
<1>4. c \in Failed'
  BY <1>1, <1>3 DEF Failed, SameInput
<1>5. NeverRun' = NeverRun /\ said # NeverRun
  BY SaidsAre DEF NeverRun, Said
<1>6. ASSUME NEW d \in Chunks, NEW r \in Receivers, Passed(d, r)
      PROVE  Passed(d, r)'
  <2>1. CASE d = c
    BY <1>3, <1>5, <2>1 DEF Passed
  <2>2. CASE d # c
    BY <1>1, <1>3, <1>5, <1>6, <2>2 DEF Passed, SameInput
  <2> QED
    BY <2>1, <2>2
<1>7. Behind' = {r \in Receivers : \E d \in Chunks : r \in From(d)..To(d) /\ Passed(d, r)'}
  BY <1>1 DEF Behind, SameInput
<1> QED
  BY <1>4, <1>6, <1>7 DEF Behind

\* A level is counted at the receiver it belongs to, for the first time.
LEMMA LevelPasses ==
    ASSUME WalkInv, NEW w \in Walkers, LevelOf(w),
           NEW c, NEW r, task[w].chunk = c, task[w].at = r
    PROVE  /\ c \in Chunks /\ r \in Receivers /\ r \notin Behind
           /\ Behind' = Behind \cup {r} /\ Failed' = Failed
<1>1. /\ c \in Chunks /\ r # 0 /\ crew \in CrewSizes
      /\ UNCHANGED <<poolCase, dealt, asked>> /\ SameInput
  BY InsideIs, InputStays DEF LevelOf, WalkInv, WalkTyped
<1>2. /\ c # 0 /\ chunkResult[c] = NeverRun /\ From(c) \in Receivers /\ To(c) \in Receivers
      /\ \A v \in Walkers : v # w => task[v].chunk # c
      /\ r \in From(c)..To(c) /\ r \in Receivers
  BY <1>1, AtWork
<1>3. /\ r \in Nat /\ From(c) \in Nat /\ To(c) \in Nat /\ NeverRun' = NeverRun
      /\ \A s \in Receivers : s \in Nat
  <2>1. \A s \in Receivers : s \in Nat
    BY PoolConstants DEF Receivers
  <2>2. NeverRun' = NeverRun
    BY DEF NeverRun, Said
  <2> QED
    BY <1>2, <2>1, <2>2
<1>4. /\ task' \in [Walkers -> [chunk : 0..ChunkCount, at : 0..Count, inside : BOOLEAN]]
      /\ chunkResult' \in [Chunks -> Answers]
  BY <1>1, LevelOfKeeps DEF WalkInv, WalkTyped, SameInput
<1>5. \A s \in Receivers : Passed(c, s) <=> s < r
  BY <1>2, <1>3 DEF Passed
<1>6. /\ \A s \in Receivers : s \in From(c)..To(c) => (Passed(c, s)' <=> s < r + 1)
      /\ \A d \in Chunks : d # c => chunkResult'[d] = chunkResult[d]
                                    /\ \A s \in Receivers : Passed(d, s)' <=> Passed(d, s)
      /\ chunkResult'[c].is \in {"computed", "never run"}
  <2>1. CASE r = To(c)
    <3> DEFINE said == Computed(Through(From(c), r))
    <3>1. said # NeverRun /\ said.is = "computed"
      BY SaidsAre
    <3> HIDE DEF said
    <3>2. /\ task' = [task EXCEPT ![w] = AtRest]
          /\ chunkResult' = [chunkResult EXCEPT ![c] = said]
      BY <2>1 DEF LevelOf, EndWalk, said
    <3>3. /\ chunkResult'[c] = said /\ \A d \in Chunks : d # c => chunkResult'[d] = chunkResult[d]
          /\ \A v \in Walkers : v # w => task'[v] = task[v]
          /\ task'[w].chunk = 0 /\ task'[w].at = 0
      BY <1>1, <3>2 DEF WalkInv, WalkTyped, AtRest
    <3>4. \A s \in Receivers : Passed(c, s)'
      BY <1>3, <3>1, <3>3 DEF Passed
    <3>5. \A d \in Chunks : d # c => \A s \in Receivers : Passed(d, s)' <=> Passed(d, s)
      <4>1. \A d \in Chunks : d # 0
        BY <1>1, ChunkIs
      <4> QED
        BY <1>1, <1>3, <3>3, <4>1 DEF Passed, SameInput
    <3>6. \A s \in Receivers : s \in From(c)..To(c) => s < r + 1
      BY <1>3, <2>1
    <3> QED
      BY <3>1, <3>3, <3>4, <3>5, <3>6
  <2>2. CASE r # To(c)
    <3> DEFINE k == Before(c, r + 1)
    <3>1. k.chunk = c /\ k.at = r + 1
      BY DEF Before
    <3> HIDE DEF k
    <3>2. task' = [task EXCEPT ![w] = k] /\ chunkResult' = chunkResult
      BY <2>2 DEF LevelOf, k
    <3>3. task'[w] = k /\ \A v \in Walkers : v # w => task'[v] = task[v]
      BY <3>2 DEF WalkInv, WalkTyped
    <3>4. \A s \in Receivers : Passed(c, s)' <=> s < r + 1
      BY <1>1, <1>2, <1>3, <3>1, <3>2, <3>3 DEF Passed, SameInput
    <3>5. \A d \in Chunks : d # c => \A s \in Receivers : Passed(d, s)' <=> Passed(d, s)
      BY <1>1, <1>3, <3>1, <3>2, <3>3 DEF Passed, SameInput
    <3>6. chunkResult'[c].is = "never run"
      BY <1>2, <3>2, SaidsAre
    <3> QED
      BY <3>2, <3>4, <3>5, <3>6
  <2> QED
    BY <2>1, <2>2
<1>7. \A d \in Chunks : \A s \in Receivers : s \in From(c)..To(c) /\ s \in From(d)..To(d) => d = c
  BY <1>1, ChunksPartition
<1>8. Behind' = {s \in Receivers : \E d \in Chunks : s \in From(d)..To(d) /\ Passed(d, s)'}
  BY <1>1 DEF Behind, SameInput
<1>9. ASSUME NEW s \in Receivers
      PROVE  s \in Behind' <=> s \in Behind \/ s = r
  <2>1. CASE s \in From(c)..To(c)
    <3>1. s \in Behind <=> Passed(c, s)
      BY <1>1, <1>7, <2>1 DEF Behind
    <3>2. s \in Behind' <=> Passed(c, s)'
      BY <1>1, <1>7, <1>8, <2>1
    <3>3. (s < r + 1) <=> (s < r \/ s = r)
      BY <1>3
    <3> QED
      BY <1>5, <1>6, <2>1, <3>1, <3>2, <3>3
  <2>2. CASE s \notin From(c)..To(c)
    BY <1>2, <1>6, <1>8, <2>2 DEF Behind
  <2> QED
    BY <2>1, <2>2
<1>10. r \notin Behind
  <2>1. ~(r < r)
    BY <1>3
  <2> QED
    BY <1>2, <1>5, <1>7, <2>1 DEF Behind
<1>11. Behind' = Behind \cup {r}
  <2>1. Behind \subseteq Receivers /\ Behind' \subseteq Receivers
    BY <1>8 DEF Behind
  <2> QED
    BY <1>2, <1>9, <2>1
<1>12. Failed' = Failed
  <2>1. chunkResult[c].is = "never run"
    BY <1>2, SaidsAre
  <2> QED
    BY <1>1, <1>6, <2>1 DEF Failed, SameInput
<1> QED
  BY <1>1, <1>2, <1>10, <1>11, <1>12

LEMMA CountStarts == ASSUME PoolInit PROVE CountInv
<1>1. WalkInv
  BY WalkStarts
<1>2. /\ \A w \in Walkers : task[w] = AtRest
      /\ \A c \in Chunks : chunkResult[c] = NeverRun
      /\ \A r \in Receivers : ~(r < 0)
  BY PoolConstants DEF PoolInit, Receivers
<1>3. Behind = {}
  BY <1>2 DEF Behind, Passed, AtRest
<1>4. Cardinality(Behind) = 0
  BY <1>3, FS_EmptySet
<1>5. counted = 0 /\ reported = 0 /\ filed = 0 /\ answer.is # "computed"
  BY SaidsAre DEF PoolInit
<1>6. Count # 0
  BY PoolConstants
<1> QED
  BY <1>4, <1>5, <1>6 DEF CountInv

\* A step that counts nothing keeps the counts if it computes no answer either.
LEMMA CountsNothing ==
    ASSUME CountInv, UNCHANGED poolReport,
           \/ Behind' = Behind /\ Failed' = Failed
           \/ Behind \subseteq Behind' /\ Failed' # {},
           answer' = answer \/ answer'.is # "computed"
    PROVE  CountInv'
<1>1. counted' = counted /\ reported' = reported /\ filed' = filed
  BY DEF poolReport
<1>2. Cardinality(Behind) \in Nat /\ IsFiniteSet(Behind)
  BY BehindIs
<1>3. CASE Behind' = Behind /\ Failed' = Failed
  BY <1>1, <1>3 DEF CountInv
<1>4. CASE Behind \subseteq Behind' /\ Failed' # {}
  <2>1. Behind' \in SUBSET Receivers /\ IsFiniteSet(Receivers)
    BY BehindIs DEF Behind, Receivers
  <2>2. IsFiniteSet(Behind') /\ Cardinality(Behind') \in Nat
    BY <2>1, FS_Subset, FS_CardinalityType
  <2>3. Cardinality(Behind) <= Cardinality(Behind')
    BY <1>4, <2>2, FS_Subset
  <2> QED
    BY <1>1, <1>2, <1>4, <2>2, <2>3 DEF CountInv
<1> QED
  BY <1>3, <1>4

LEMMA CountsALevel ==
    ASSUME WalkInv, CountInv, NEW w \in Walkers, LevelOf(w)
    PROVE  CountInv'
<1>1. PICK c, r : task[w].chunk = c /\ task[w].at = r
  OBVIOUS
<1>2. /\ c \in Chunks /\ r \in Receivers /\ r \notin Behind
      /\ Behind' = Behind \cup {r} /\ Failed' = Failed
  BY <1>1, LevelPasses
<1>3. /\ counted' = counted + 1 /\ Reports(counted + 1)
      /\ UNCHANGED poolCase /\ ~trouble.lot
  BY DEF LevelOf
<1>4. /\ counted \in Nat /\ reported \in 0..counted /\ filed \in 0..reported
      /\ counted <= Cardinality(Behind) /\ (Failed = {} => counted = Cardinality(Behind))
      /\ Count \in Nat \ {0}
  BY PoolConstants DEF CountInv
<1>5. Cardinality(Behind') = Cardinality(Behind) + 1 /\ Cardinality(Behind) \in Nat
  BY <1>2, BehindIs, FS_AddElement
<1>6. Cardinality(Behind') <= Count
  <2>1. Behind' \in SUBSET Receivers
    BY <1>2, BehindIs
  <2> QED
    BY <2>1, BehindIs, FS_Subset
<1>7. /\ counted' \in Nat /\ counted' <= Cardinality(Behind')
      /\ Failed' = {} => counted' = Cardinality(Behind')
  BY <1>2, <1>3, <1>4, <1>5
<1>8. /\ reported' \in 0..counted' /\ filed' \in 0..reported'
      /\ counted' = Count => reported' = Count
  <2>1. CASE counted + 1 < Count /\ UNCHANGED <<reported, filed>>
    BY <1>3, <1>4, <2>1
  <2>2. CASE reported' = counted + 1 /\ filed' \in {filed, counted + 1}
    BY <1>3, <1>4, <2>2
  <2> QED
    BY <1>3, <2>1, <2>2 DEF Reports
<1>9. answer'.is = "computed" => reported' = Count
  <2>1. answer = NeverRun
    <3>1. point # "ended"
      BY <1>1, <1>2, AtWork
    <3> QED
      BY <3>1 DEF WalkInv, Unanswered
  <2>2. answer' # answer => ~Pooled /\ r = To(c)
    BY <1>1 DEF LevelOf, EndWalk
  <2>3. ASSUME ~Pooled, r = To(c) PROVE counted' = Count
    <3>1. /\ Chunks = {1} /\ From(1) = 1 /\ To(1) = Count /\ c = 1
      BY <1>2, <2>3, AloneIs DEF WalkInv, WalkTyped
    <3>2. \A s \in Receivers : s \in Behind'
      <4>1. \A s \in Receivers : s < r \/ s = r
        BY <1>4, <2>3, <3>1 DEF Receivers
      <4>2. \A s \in Receivers : s < r => s \in Behind
        BY <1>1, <3>1 DEF Behind, Passed, Receivers
      <4> QED
        BY <1>2, <4>1, <4>2
    <3>3. Behind' = Receivers
      BY <1>2, <3>2, BehindIs
    <3>4. Cardinality(Behind') = Count
      BY <3>3, BehindIs
    <3>5. Failed = {}
      <4>1. chunkResult[1] = NeverRun
        BY <1>1, <1>2, <3>1, AtWork
      <4> QED
        BY <3>1, <4>1, SaidsAre DEF Failed
    <3> QED
      BY <1>2, <1>7, <3>4, <3>5
  <2>4. CASE answer' = answer
    BY <2>1, <2>4, SaidsAre
  <2>5. CASE answer' # answer
    BY <1>8, <2>2, <2>3, <2>5
  <2> QED
    BY <2>4, <2>5
<1> QED
  BY <1>7, <1>8, <1>9 DEF CountInv

\* Only a pool that has computed every chunk answers with a table.
LEMMA CountsAtTheEnd ==
    ASSUME WalkInv, CountInv, Collect
    PROVE  CountInv'
<1>1. /\ SameInput /\ UNCHANGED poolReport /\ task' = task /\ chunkResult' = chunkResult
      /\ crew \in CrewSizes
  BY InputStays DEF Collect, WalkInv, WalkTyped
<1>2. Behind' = Behind /\ Failed' = Failed
  BY <1>1, NobodyMoves
<1>3. CASE answer'.is # "computed"
  BY <1>1, <1>2, <1>3, CountsNothing
<1>4. CASE answer'.is = "computed"
  <2>1. ~asked
    BY <1>4, SaidsAre DEF Collect, AnswersWith
  <2>2. Failed = {}
    <3>1. SUFFICES ASSUME Failed # {} PROVE FALSE
      OBVIOUS
    <3>2. Failed \in SUBSET Nat
      BY <1>1, ChunkIs DEF Failed
    <3>3. LowestFailed \in Failed
      BY <3>1, <3>2, LeastOfThem DEF LowestFailed
    <3>4. answer' = chunkResult[LowestFailed]
      BY <2>1, <3>1 DEF Collect, AnswersWith
    <3> QED
      BY <1>4, <3>3, <3>4 DEF Failed
  <2>3. \A c \in Chunks : chunkResult[c].is # "never run"
    BY <1>4, <2>1, <2>2, SaidsAre DEF Collect, AnswersWith
  <2>4. \A c \in Chunks : chunkResult[c] # NeverRun
    BY <2>3, SaidsAre
  <2>5. Behind = Receivers
    <3>1. \A r \in Receivers : \E c \in Chunks : r \in From(c)..To(c)
      BY <1>1, ChunksPartition
    <3> QED
      BY <2>4, <3>1 DEF Behind, Passed
  <2>6. counted = Count /\ reported = Count
    BY <2>2, <2>5, BehindIs DEF CountInv
  <2> QED
    BY <1>1, <1>2, <2>6 DEF CountInv, poolReport
<1> QED
  BY <1>3, <1>4

LEMMA StepKeepsCounts ==
    ASSUME WalkInv, CountInv, [PoolNext]_poolVars
    PROVE  CountInv'
<1>1. CASE AskToStop \/ DealToNobody \/ UNCHANGED poolVars
  <2>1. UNCHANGED <<poolCase, task, chunkResult, answer>> /\ UNCHANGED poolReport
    BY <1>1 DEF AskToStop, DealToNobody, poolVars, poolReport
  <2> QED
    BY <2>1, InputStays, NobodyMoves, CountsNothing
<1>2. CASE OpenPool \/ Prepare
  <2>1. UNCHANGED <<poolCase, task, chunkResult>> /\ UNCHANGED poolReport
    BY <1>2 DEF OpenPool, Prepare
  <2>2. answer' = answer \/ answer'.is # "computed"
    BY <1>2, SaidsAre DEF OpenPool, Prepare, AnswersWith
  <2> QED
    BY <2>1, <2>2, InputStays, NobodyMoves, CountsNothing
<1>3. CASE Collect
  BY <1>3, CountsAtTheEnd
<1>4. CASE WalkAlone
  <2>1. /\ Walkers = {1} /\ task[1] = AtRest /\ UNCHANGED poolReport /\ SameInput
        /\ chunkResult' = chunkResult /\ answer' = answer
    BY <1>4, AloneIs, AllAtRest, InputStays DEF WalkAlone, WalkInv, WalkTyped
  <2> DEFINE k == Before(1, 1)
  <2>2. k.at = 1 /\ task[1].at = 0 /\ task' = [task EXCEPT ![1] = k]
    BY <1>4, <2>1 DEF Before, AtRest, WalkAlone
  <2> HIDE DEF k
  <2>3. \A r \in Receivers : ~(r < 1) /\ ~(r < 0)
    BY PoolConstants DEF Receivers
  <2>4. Behind' = Behind /\ Failed' = Failed
    <3>1. PassesNone(1, k)
      BY <2>1, <2>2, <2>3 DEF PassesNone
    <3> QED
      BY <2>1, <2>2, <3>1, PassesNothing
  <2> QED
    BY <2>1, <2>4, CountsNothing
<1>5. ASSUME NEW w \in Walkers, WalkerStep(w) PROVE CountInv'
  <2>1. PICK c, r : task[w].chunk = c /\ task[w].at = r
    OBVIOUS
  <2>2. /\ c \in Nat /\ r \in Nat /\ \A s \in Receivers : s \in Nat /\ ~(s < 0)
        /\ c # 0 => c \in Chunks
        /\ \A d \in Chunks : d # 0
    BY <2>1, TaskIs, ChunkIs, PoolConstants DEF Receivers, WalkInv, WalkTyped
  <2>3. CASE Deal(w)
    <3> DEFINE k == Received(dealt + 1)
    <3>1. k.at = 0 /\ task[w].at = 0 /\ task' = [task EXCEPT ![w] = k]
      BY <2>3 DEF Received, Deal, AtRest
    <3>2. SameInput /\ UNCHANGED poolReport /\ chunkResult' = chunkResult /\ answer' = answer
      BY <2>3, InputStays DEF Deal
    <3> HIDE DEF k
    <3>3. Behind' = Behind /\ Failed' = Failed
      <4>1. PassesNone(w, k)
        BY <2>2, <3>1 DEF PassesNone
      <4> QED
        BY <3>1, <3>2, <4>1, PassesNothing
    <3> QED
      BY <3>2, <3>3, CountsNothing
  <2>4. CASE TakeUp(w)
    <3> DEFINE k == IF CrewStops THEN AtRest ELSE Before(c, From(c))
    <3>1. /\ c \in Chunks /\ r = 0 /\ task' = [task EXCEPT ![w] = k]
          /\ k.at = 0 \/ (k.at = From(c) /\ k.chunk = c)
      BY <2>1, <2>2, <2>4 DEF TakeUp, AtRest, Before
    <3>2. SameInput /\ UNCHANGED poolReport /\ chunkResult' = chunkResult /\ answer' = answer
      BY <2>4, InputStays DEF TakeUp
    <3> HIDE DEF k
    <3>3. \A s \in Receivers : s \in From(c)..To(c) => ~(s < From(c))
      <4>1. From(c) \in Nat /\ To(c) \in Nat
        BY <2>1, <2>2, <3>1, AtWork
      <4> QED
        BY <2>2, <4>1
    <3>4. Behind' = Behind /\ Failed' = Failed
      <4>1. PassesNone(w, k)
        BY <2>1, <2>2, <3>1, <3>3 DEF PassesNone
      <4> QED
        BY <3>1, <3>2, <4>1, PassesNothing
    <3> QED
      BY <3>2, <3>4, CountsNothing
  <2>5. CASE NextReceiver(w)
    <3>1. SameInput /\ UNCHANGED poolReport /\ UNCHANGED <<poolCase, dealt, asked>> /\ c \in Chunks
      BY <2>1, <2>5, InputStays, TaskIs DEF NextReceiver
    <3>2. CASE \E said : EndWalk(w, said) /\ said.is \notin {"computed", "never run"}
      <4>1. PICK said : EndWalk(w, said) /\ said.is \notin {"computed", "never run"}
        BY <3>2
      <4>2. Behind \subseteq Behind' /\ Failed' # {}
        BY <2>1, <3>1, <4>1, FailingPasses
      <4>3. answer' = answer \/ answer'.is # "computed"
        BY <4>1 DEF EndWalk, AnswersWith
      <4> QED
        BY <3>1, <4>2, <4>3, CountsNothing
    <3>3. CASE /\ task' = [task EXCEPT ![w] = Inside(c, r)]
               /\ UNCHANGED <<point, chunkResult, refusal, answer>>
      <4> DEFINE k == Inside(c, r)
      <4>1. k.chunk = c /\ k.at = r /\ task' = [task EXCEPT ![w] = k]
        BY <3>3 DEF Inside
      <4> HIDE DEF k
      <4>2. Behind' = Behind /\ Failed' = Failed
        <5>1. PassesNone(w, k)
          BY <2>1, <4>1 DEF PassesNone
        <5> QED
          BY <3>1, <3>3, <4>1, <5>1, PassesNothing
      <4> QED
        BY <3>1, <3>3, <4>2, CountsNothing
    <3>4. \/ EndWalk(w, WalkCancelled) \/ EndWalk(w, RefusesReceiver(r)) \/ EndWalk(w, RefusesScene)
          \/ /\ task' = [task EXCEPT ![w] = Inside(c, r)]
             /\ UNCHANGED <<point, chunkResult, refusal, answer>>
      BY <2>1, <2>5 DEF NextReceiver
    <3> QED
      BY <3>2, <3>3, <3>4, SaidsAre
  <2>6. CASE LeaveReceiver(w)
    <3>1. SameInput /\ UNCHANGED poolReport /\ UNCHANGED <<poolCase, dealt, asked>> /\ c \in Chunks
      BY <2>1, <2>6, InputStays, InsideIs DEF LeaveReceiver
    <3>2. PICK said : EndWalk(w, said) /\ said.is \notin {"computed", "never run"}
      BY <2>6, SaidsAre DEF LeaveReceiver
    <3>3. Behind \subseteq Behind' /\ Failed' # {}
      BY <2>1, <3>1, <3>2, FailingPasses
    <3>4. answer' = answer \/ answer'.is # "computed"
      BY <3>2 DEF EndWalk, AnswersWith
    <3> QED
      BY <3>1, <3>3, <3>4, CountsNothing
  <2>7. CASE LevelOf(w)
    BY <2>7, CountsALevel
  <2> QED
    BY <1>5, <2>3, <2>4, <2>5, <2>6, <2>7 DEF WalkerStep
<1> QED
  BY <1>1, <1>2, <1>3, <1>4, <1>5 DEF PoolNext

LEMMA CountsHold == PoolSpec => []CountInv
<1>1. PoolInit => CountInv
  BY CountStarts
<1>2. WalkInv /\ CountInv /\ [PoolNext]_poolVars => CountInv'
  BY StepKeepsCounts
<1> QED
  BY <1>1, <1>2, WalksHold, PTL DEF PoolSpec

\* Type correctness of the pool, whose counts are bounded because no receiver is counted
\* twice (PoolTypeOK).
THEOREM PoolTypeCorrect == PoolSpec => []PoolTypeOK
<1>1. WalkInv /\ CountInv => PoolTypeOK
  <2>1. ASSUME WalkInv, CountInv PROVE PoolTypeOK
    <3>1. /\ counted \in Nat /\ reported \in 0..counted /\ filed \in 0..reported
          /\ counted <= Count /\ Count \in Nat
      BY <2>1, BehindIs, PoolConstants DEF CountInv
    <3>2. counted \in 0..Count /\ reported \in 0..Count /\ filed \in 0..Count
      BY <3>1
    <3> QED
      BY <2>1, <3>2 DEF WalkInv, WalkTyped, PoolTypeOK
  <2> QED
    BY <2>1
<1> QED
  BY <1>1, WalksHold, CountsHold, PTL

\* Neither run.log nor progress.json goes back or runs ahead of the walkers, and a walk that
\* succeeds has reported its last receiver (ReportsKeepUp).
THEOREM ReportsAlwaysKeepUp == PoolSpec => ReportsKeepUp
<1> DEFINE Up == /\ reported' \in reported..counted' /\ filed' \in filed..reported'
                 /\ answer'.is = "computed" => reported' = Count
<1>1. ASSUME CountInv, CountInv', PoolNext PROVE Up
  <2>1. /\ counted \in Nat /\ reported \in 0..counted /\ filed \in 0..reported
        /\ counted' \in Nat /\ reported' \in 0..counted' /\ filed' \in 0..reported'
        /\ answer'.is = "computed" => reported' = Count
    BY <1>1 DEF CountInv
  <2>2. CASE UNCHANGED poolReport
    BY <2>1, <2>2 DEF poolReport
  <2>3. CASE \E w \in Walkers : LevelOf(w)
    <3>1. Reports(counted + 1)
      BY <2>3 DEF LevelOf
    <3> QED
      BY <2>1, <3>1 DEF Reports
  <2>4. UNCHANGED poolReport \/ \E w \in Walkers : LevelOf(w)
    BY <1>1 DEF PoolNext, AskToStop, WalkAlone, OpenPool, Prepare, DealToNobody, Collect,
         WalkerStep, Deal, TakeUp, NextReceiver, LeaveReceiver
  <2> QED
    BY <2>2, <2>3, <2>4
<1>2. CountInv /\ CountInv' /\ [PoolNext]_poolVars => [Up]_poolVars
  BY <1>1
<1> QED
  BY <1>2, CountsHold, PTL DEF PoolSpec, ReportsKeepUp
=============================================================================
