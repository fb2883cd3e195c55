---------------------------- MODULE ProjectEvents ---------------------------
(***************************************************************************)
(* How a page learns what has become of the runs it lists.  The server polls *)
(* the manifest for every open event stream and sends the project's status   *)
(* when it has changed (httpv1/events.go); the page patches or refetches its *)
(* list on each event (api/project-events.ts, event-stream.ts) and polls the *)
(* list itself, fast only while it shows an open run the stream does not     *)
(* carry (api/hooks.ts).  The query cache is TanStack's: an invalidation     *)
(* joins the fetch under way, and the poll interval is read again when the   *)
(* list is answered or patched.                                              *)
(***************************************************************************)
EXTENDS Naturals, Sequences, FiniteSets

CONSTANTS MaxRows,      \* runs created
          MaxProgress,  \* reports of a run
          MaxMishaps,   \* failures, drops, refetches by the user, tabs hidden, pages left
          WireRoom      \* events sent and not read

ASSUME FeedAssumption ==
    {MaxRows, MaxProgress, MaxMishaps} \subseteq Nat /\ WireRoom \in Nat \ {0}

VARIABLES
    rows,       \* the manifest's runs, with the progress of the open ones
    created,    \* runs created so far
    mounted,    \* a runs list is on screen
    visible,    \* the tab is
    link,       \* the event stream, as it is
    told,       \* lastStatusKey of the server's side of it
    wire,       \* the events on their way
    carried,    \* carriedRunIds
    runsList,   \* the runs list in the query cache
    poll,       \* the interval it is refetched at
    listFetch,  \* its fetch under way
    failed,     \* its last fetch failed
    mishaps

feedVars == <<rows, created, mounted, visible, link, told, wire, carried, runsList, poll,
              listFetch, failed, mishaps>>

RowIds == 1..MaxRows
NoRow == [status |-> "none", progress |-> 0]
OpenRow(p) == [status |-> "running", progress |-> p]
EndedRow == [status |-> "settled", progress |-> 0]
Rows == {NoRow, EndedRow} \cup {OpenRow(p) : p \in 0..MaxProgress}
NoList == << >>
NoRequest == [is |-> "none", of |-> NoList]
Requested == [is |-> "asked", of |-> NoList]
AnsweredBy(runs) == [is |-> "answered", of |-> runs]

OpenIn(runs) == {r \in DOMAIN runs : runs[r].status = "running"}

\* projectStatus: the last run with its status, and the open ones with their
\* progress.
Event ==
    LET listed == {r \in RowIds : rows[r] # NoRow}
        last == {r \in listed : \A q \in listed : q <= r}
    IN  [available |-> TRUE,
         last |-> [r \in last |-> rows[r].status],
         active |-> [r \in OpenIn(rows) |-> rows[r].progress]]

\* The project could not be loaded; also, nothing has been told.
NoProject == [available |-> FALSE, last |-> << >>, active |-> << >>]

FeedInit ==
    /\ rows = [r \in RowIds |-> NoRow] /\ created = 0
    /\ mounted = FALSE /\ visible = TRUE
    /\ link = "off" /\ told = NoProject /\ wire = << >>
    /\ carried = {}
    /\ runsList = NoList /\ poll = "idle" /\ listFetch = NoRequest /\ failed = FALSE
    /\ mishaps = 0

Mishap == mishaps < MaxMishaps /\ mishaps' = mishaps + 1

-----------------------------------------------------------------------------
(* The runs. *)

RowsBecome(r, row) ==
    /\ rows' = [rows EXCEPT ![r] = row]
    /\ UNCHANGED <<mounted, visible, link, told, wire, carried, runsList, poll, listFetch,
                   failed, mishaps>>

CreateRow ==
    /\ created < MaxRows
    /\ created' = created + 1
    /\ RowsBecome(created + 1, OpenRow(0))

ReportProgress(r) ==
    /\ rows[r].status = "running" /\ rows[r].progress < MaxProgress
    /\ RowsBecome(r, OpenRow(rows[r].progress + 1))
    /\ UNCHANGED created

SettleRow(r) ==
    /\ rows[r].status = "running"
    /\ RowsBecome(r, EndedRow)
    /\ UNCHANGED created

DeleteRow(r) ==
    /\ rows[r] = EndedRow
    /\ RowsBecome(r, NoRow)
    /\ UNCHANGED created

-----------------------------------------------------------------------------
(* The list. *)

\* runsRefetchInterval.
Interval(runs, pushed) == IF OpenIn(runs) \ pushed # {} THEN "fast" ELSE "idle"

\* invalidateRuns: cancelRefetch is false.
Invalidated == IF listFetch = NoRequest THEN Requested ELSE listFetch

ServerSide == <<rows, created>>
Stream == <<link, told, wire, carried>>
Screen == <<mounted, visible>>

\* The interval has run out; a hidden tab's does not fetch.
Poll(rate) ==
    /\ mounted /\ visible /\ poll = rate /\ listFetch = NoRequest
    /\ listFetch' = Requested
    /\ UNCHANGED <<ServerSide, Stream, Screen, runsList, poll, failed, mishaps>>

FastPoll == Poll("fast")
IdlePoll == Poll("idle")

\* A mutation of the user's invalidates the list, and cancels the fetch under way.
UserRefetches ==
    /\ mounted /\ Mishap
    /\ listFetch' = Requested
    /\ UNCHANGED <<ServerSide, Stream, Screen, runsList, poll, failed>>

\* handleRunsList.
AnswerList ==
    /\ listFetch = Requested
    /\ listFetch' = AnsweredBy(rows)
    /\ UNCHANGED <<ServerSide, Stream, Screen, runsList, poll, failed, mishaps>>

FetchFails ==
    /\ listFetch # NoRequest /\ Mishap
    /\ listFetch' = NoRequest /\ failed' = TRUE
    /\ UNCHANGED <<ServerSide, Stream, Screen, runsList, poll>>

\* useRuns: the answer becomes the list, and the interval is read again.
LandList ==
    /\ listFetch.is = "answered"
    /\ runsList' = listFetch.of /\ poll' = Interval(listFetch.of, carried)
    /\ listFetch' = NoRequest /\ failed' = FALSE
    /\ UNCHANGED <<ServerSide, Stream, Screen, mishaps>>

-----------------------------------------------------------------------------
(* The stream. *)

\* handleEvents: the first status goes out with the headers.
Connect ==
    /\ link = "retrying"
    /\ link' = "up"
    /\ told' \in {Event} \cup (IF mishaps < MaxMishaps THEN {NoProject} ELSE {})
    /\ mishaps' = mishaps + (IF told' = NoProject THEN 1 ELSE 0)
    /\ wire' = <<told'>>
    /\ UNCHANGED <<ServerSide, Screen, carried, runsList, poll, listFetch, failed>>

\* pushStatusEvent, every tick.
PushStatus ==
    /\ link = "up" /\ Len(wire) < WireRoom
    /\ \/ told' = Event /\ UNCHANGED mishaps
       \/ told' = NoProject /\ Mishap
    /\ told' # told
    /\ wire' = Append(wire, told')
    /\ UNCHANGED <<ServerSide, Screen, link, carried, runsList, poll, listFetch, failed>>

SaysLast(event) ==     \* mutant: the last run counts, ended or not
    DOMAIN event.active \cup DOMAIN event.last

\* Only an open run counts as carried.
Says(event) == DOMAIN event.active

\* withProgress: patched in place.
Patched(active) == [r \in DOMAIN runsList |->
                       IF r \in DOMAIN active THEN OpenRow(active[r]) ELSE runsList[r]]

\* applyProjectStatusEvent: the list is fetched if the event cannot say what it
\* should hold, or if it only says that others are carried; else it is patched.
Applies(event) ==
    LET active == event.active
        changed == Says(event) # carried
        differs(r, status) == r \notin DOMAIN runsList \/ runsList[r].status # status
        unsaid == \/ \E r \in DOMAIN event.last : differs(r, event.last[r])
                  \/ \E r \in DOMAIN active : differs(r, "running")
                  \/ changed /\ OpenIn(runsList) \ Says(event) # {}
        patched == Patched(active)
    IN  /\ carried' = Says(event)
        /\ \/ /\ runsList # NoList /\ unsaid
              /\ listFetch' = Invalidated /\ UNCHANGED <<runsList, poll, failed>>
           \/ /\ runsList = NoList \/ (~unsaid /\ patched = runsList)
              /\ listFetch' = IF changed THEN Invalidated ELSE listFetch
              /\ UNCHANGED <<runsList, poll, failed>>
           \/ /\ runsList # NoList /\ ~unsaid /\ patched # runsList
              /\ runsList' = patched /\ poll' = Interval(patched, Says(event))
              /\ failed' = FALSE /\ UNCHANGED listFetch

DeliverEvent ==
    /\ link = "up" /\ wire # << >>
    /\ wire' = Tail(wire)
    /\ IF Head(wire).available THEN Applies(Head(wire))
       ELSE UNCHANGED <<carried, runsList, poll, listFetch, failed>>
    /\ UNCHANGED <<ServerSide, Screen, link, told, mishaps>>

\* Nothing arrives any more, and nobody says so: a sleeping machine, a proxy.
FallSilent ==
    /\ link = "up" /\ Mishap
    /\ link' = "silent" /\ wire' = << >>
    /\ UNCHANGED <<ServerSide, Screen, told, carried, runsList, poll, listFetch, failed>>

LosesStreamQuietly ==     \* mutant: the list is left as it is
    /\ link' = "retrying" /\ told' = NoProject /\ wire' = << >>
    /\ carried' = {}
    /\ UNCHANGED <<ServerSide, Screen, runsList, poll, listFetch, failed>>

\* onConnectionChange(false): what was carried is no longer, and the list is
\* fetched, which puts it back on the fast poll.
LosesStream ==
    /\ link' = "retrying" /\ told' = NoProject /\ wire' = << >>
    /\ carried' = {} /\ listFetch' = Invalidated
    /\ UNCHANGED <<ServerSide, Screen, runsList, poll, failed>>

Drop == link = "up" /\ Mishap /\ LosesStream

\* The stall timer.
Stall == link = "silent" /\ LosesStream /\ UNCHANGED mishaps

-----------------------------------------------------------------------------
(* The page and its tab. *)

\* syncConnection's close.
Closes == link' = "off" /\ told' = NoProject /\ wire' = << >> /\ carried' = {}

\* useRuns on a screen that shows a list: a list that is stale is fetched.
Mount ==
    /\ ~mounted
    /\ mounted' = TRUE
    /\ link' = IF visible THEN "retrying" ELSE "off"
    /\ poll' = Interval(runsList, {})
    /\ \/ listFetch' = Invalidated
       \/ runsList # NoList /\ ~failed /\ UNCHANGED listFetch
    /\ UNCHANGED <<ServerSide, visible, told, wire, carried, runsList, failed, mishaps>>

Unmount ==
    /\ mounted /\ Mishap
    /\ mounted' = FALSE
    /\ Closes
    /\ UNCHANGED <<ServerSide, visible, runsList, poll, listFetch, failed>>

Hide ==
    /\ visible /\ Mishap
    /\ visible' = FALSE
    /\ Closes
    /\ listFetch' = IF mounted THEN Invalidated ELSE listFetch
    /\ UNCHANGED <<ServerSide, mounted, runsList, poll, failed>>

Show ==
    /\ ~visible
    /\ visible' = TRUE
    /\ link' = IF mounted THEN "retrying" ELSE "off"
    /\ UNCHANGED <<ServerSide, mounted, told, wire, carried, runsList, poll, listFetch,
                   failed, mishaps>>

FeedNext ==
    \/ CreateRow \/ \E r \in RowIds : ReportProgress(r) \/ SettleRow(r) \/ DeleteRow(r)
    \/ FastPoll \/ IdlePoll \/ UserRefetches \/ AnswerList \/ FetchFails \/ LandList
    \/ Connect \/ PushStatus \/ DeliverEvent \/ FallSilent \/ Drop \/ Stall
    \/ Mount \/ Unmount \/ Hide \/ Show

\* The timers run, the server answers and its ticker goes on; nothing is said of
\* the idle poll, of a reconnection, or of the user.
FeedFairness ==
    /\ WF_feedVars(FastPoll) /\ WF_feedVars(AnswerList) /\ WF_feedVars(LandList)
    /\ WF_feedVars(PushStatus) /\ WF_feedVars(DeliverEvent) /\ WF_feedVars(Stall)

FeedSafety == FeedInit /\ [][FeedNext]_feedVars
FeedSpec == FeedSafety /\ FeedFairness

-----------------------------------------------------------------------------
PartialOn(S) == UNION {[D -> S] : D \in SUBSET RowIds}
Events == [available : BOOLEAN, last : PartialOn({"running", "settled"}),
           active : PartialOn(0..MaxProgress)]

FeedTypeOK ==
    /\ rows \in [RowIds -> Rows] /\ created \in 0..MaxRows
    /\ mounted \in BOOLEAN /\ visible \in BOOLEAN
    /\ link \in {"off", "retrying", "up", "silent"}
    /\ told \in Events /\ wire \in Seq(Events) /\ Len(wire) <= WireRoom
    /\ carried \subseteq RowIds
    /\ runsList \in {NoList} \cup [RowIds -> Rows] /\ poll \in {"fast", "idle"}
    /\ listFetch \in {NoRequest, Requested} \cup {AnsweredBy(runs) : runs \in [RowIds -> Rows]}
    /\ failed \in BOOLEAN
    /\ mishaps \in 0..MaxMishaps

\* An open run on screen is fetched, or polled fast, or carried by a stream; and
\* while a stream carries a run that has ended, the server has yet to say so, or
\* has said it and the event is on its way, or the stream is dead and its stall
\* timer runs.  A failed fetch leaves the list to the idle poll.
OpenRunIsWatched ==
    mounted =>
      \A r \in OpenIn(runsList) \ (IF failed THEN RowIds ELSE {}) :
         \/ listFetch # NoRequest \/ poll = "fast"
         \/ /\ r \in carried
            /\ \/ link = "silent" \/ r \in OpenIn(rows) \/ told # Event
               \/ \E i \in DOMAIN wire : wire[i] = told

\* A run that has ended is not shown as open for longer than the timers and the
\* stream take: the page never has to wait for the idle poll, unless a fetch fails
\* or nobody looks.
EndIsShownBeforeTheIdlePoll ==
    \A r \in RowIds :
       (r \in OpenIn(runsList) /\ rows[r].status # "running") ~>
          (r \notin OpenIn(runsList) \/ failed \/ ~mounted \/ ~visible)
=============================================================================
