---------------------------- MODULE EstimateSlot ----------------------------
(***************************************************************************)
(* POST /api/v1/runs/estimate (httpv1/run_estimate.go): the server computes *)
(* one estimate at a time, each in a child process that lives under its     *)
(* request's context.  A newer estimate cancels the one in flight rather    *)
(* than wait for it, and so does a client that gives up.                    *)
(***************************************************************************)
EXTENDS Naturals

CONSTANTS Estimates,  \* the requests, one estimate each
          NoEstimate  \* whose cancel function the slot holds when it holds none

ASSUME EstimateAssumption == NoEstimate \notin Estimates

VARIABLES
    stage,      \* where each request stands
    claims,     \* estimateSlot.generation
    claimed,    \* the generation each request claimed, 0 before it has
    holder,     \* estimateSlot.cancel: whose it is
    replaced,   \* the requests whose context the slot cancelled
    left,       \* the requests whose client is gone
    answer      \* what each request was answered

slotVars == <<stage, claims, claimed, holder, replaced, left, answer>>

\* ctx.Err() # nil, for the context claim returned: its parent is the request's.
Cancelled(q) == q \in replaced \cup left

SlotInit ==
    /\ stage = [q \in Estimates |-> "new"]
    /\ claims = 0
    /\ claimed = [q \in Estimates |-> 0]
    /\ holder = NoEstimate
    /\ replaced = {} /\ left = {}
    /\ answer = [q \in Estimates |-> "none"]

Advances(q, to) == stage' = [stage EXCEPT ![q] = to]

\* claim: whoever holds the slot is cancelled.
Claim(q) ==
    /\ stage[q] = "new"
    /\ replaced' = replaced \cup ({holder} \ {NoEstimate})
    /\ claims' = claims + 1
    /\ claimed' = [claimed EXCEPT ![q] = claims + 1]
    /\ holder' = q
    /\ Advances(q, "claimed")
    /\ UNCHANGED <<left, answer>>

\* cmd.Run starts the child, unless the context is done already or the process
\* cannot be started.
StartChild(q) ==
    /\ stage[q] = "claimed"
    /\ \/ ~Cancelled(q) /\ Advances(q, "running")
       \/ Advances(q, "failed")
    /\ UNCHANGED <<claims, claimed, holder, replaced, left, answer>>

\* The child ends by itself, with an estimate or with an error: it is known by
\* what it printed, and by the context if that is done by then.
ChildEnds(q) ==
    /\ stage[q] = "running"
    /\ \/ Advances(q, "estimated")
       \/ Advances(q, "failed")
    /\ UNCHANGED <<claims, claimed, holder, replaced, left, answer>>

\* cmd.Cancel: the child of a cancelled context is killed, not waited for.
KillChild(q) ==
    /\ stage[q] = "running" /\ Cancelled(q)
    /\ Advances(q, "failed")
    /\ UNCHANGED <<claims, claimed, holder, replaced, left, answer>>

\* handleRunEstimate: an estimate is an answer however late; a failure is
\* "superseded" if the slot was the reason, to a client that is still there.
AnswerEstimate(q) ==
    /\ \/ /\ stage[q] = "estimated"
          /\ answer' = [answer EXCEPT ![q] = "estimate"]
       \/ /\ stage[q] = "failed"
          /\ answer' = [answer EXCEPT ![q] =
                IF Cancelled(q) /\ q \notin left THEN "superseded" ELSE "error"]
    /\ Advances(q, "answered")
    /\ UNCHANGED <<claims, claimed, holder, replaced, left>>

ReleaseSlotAnyway(q) ==   \* mutant: whoever holds the slot, it is emptied
    /\ stage[q] = "answered"
    /\ holder' = NoEstimate
    /\ Advances(q, "done")
    /\ UNCHANGED <<claims, claimed, replaced, left, answer>>

\* release: the slot is emptied only of the request's own cancel function.
ReleaseSlot(q) ==
    /\ stage[q] = "answered"
    /\ holder' = IF claims = claimed[q] THEN NoEstimate ELSE holder
    /\ Advances(q, "done")
    /\ UNCHANGED <<claims, claimed, replaced, left, answer>>

\* The client gives up, at any time: the dialog drops a stale estimate.
ClientLeaves(q) ==
    /\ stage[q] # "done" /\ q \notin left
    /\ left' = left \cup {q}
    /\ UNCHANGED <<stage, claims, claimed, holder, replaced, answer>>

SlotNext ==
    \E q \in Estimates :
       \/ Claim(q) \/ StartChild(q) \/ ChildEnds(q) \/ KillChild(q)
       \/ AnswerEstimate(q) \/ ReleaseSlot(q) \/ ClientLeaves(q)

SlotSpec == SlotInit /\ [][SlotNext]_slotVars

-----------------------------------------------------------------------------
SlotTypeOK ==
    /\ stage \in [Estimates -> {"new", "claimed", "running", "estimated", "failed",
                                "answered", "done"}]
    /\ claims \in Nat /\ claimed \in [Estimates -> 0..claims]
    /\ holder \in Estimates \cup {NoEstimate}
    /\ replaced \subseteq Estimates /\ left \subseteq Estimates
    /\ answer \in [Estimates -> {"none", "estimate", "superseded", "error"}]

\* The requests that are being estimated.
InFlight == {q \in Estimates : stage[q] \in {"claimed", "running"}}

\* At most one estimate goes on uncancelled, it is the one claimed last, and a
\* request is told it was superseded only if another claimed after it: however
\* the answers, the kills and the releases of older ones come to lie.
NewestEstimateStands ==
    /\ \A q \in InFlight : q \in replaced \/ claimed[q] = claims
    /\ \A q \in replaced : claimed[q] < claims
    /\ \A q \in Estimates :
          answer[q] = "superseded" => \E r \in Estimates : claimed[r] > claimed[q]

=============================================================================
