----------------------------- MODULE RunRegistry -----------------------------
(***************************************************************************)
(* What the run list of one project promises its readers, with no lock, no *)
(* file and no process in sight: each change is one atomic operation on    *)
(* the rows it names, and a run that has left the list never returns.      *)
(* RunLifecycle implements this specification.                             *)
(***************************************************************************)

CONSTANT Runs           \* the run ids that can be minted

VARIABLES row,          \* row[r]: how far run r has come, as readers see it
          swept         \* runs a starting server wrote off as interrupted

vars == <<row, swept>>

Terminal == {"completed", "failed"}
Statuses == {"new", "running", "gone"} \cup Terminal

Init ==
    /\ row = [r \in Runs |-> "new"]
    /\ swept = {}

\* A run enters the list open.
Create(r) ==
    /\ row[r] = "new"
    /\ row' = [row EXCEPT ![r] = "running"]
    /\ UNCHANGED swept

\* A run is refused, or dies, before it enters the list.
Abandon(r) ==
    /\ row[r] = "new"
    /\ row' = [row EXCEPT ![r] = "gone"]
    /\ UNCHANGED swept

\* A run's end is recorded.  Only a run that was written off while it was
\* still computing may replace a terminal status.
Finish(r) ==
    /\ row[r] = "running" \/ (row[r] \in Terminal /\ r \in swept)
    /\ \E status \in Terminal : row' = [row EXCEPT ![r] = status]
    /\ UNCHANGED swept

\* A starting server closes every open row, and no other.
Sweep ==
    LET open == {r \in Runs : row[r] = "running"}
    IN  /\ row' = [r \in Runs |-> IF r \in open THEN "failed" ELSE row[r]]
        /\ swept' = swept \cup open

\* Only a finished run is deleted, and for good.
Delete(r) ==
    /\ row[r] \in Terminal
    /\ row' = [row EXCEPT ![r] = "gone"]
    /\ UNCHANGED swept

Next ==
    \/ Sweep
    \/ \E r \in Runs : Create(r) \/ Abandon(r) \/ Finish(r) \/ Delete(r)

Spec == Init /\ [][Next]_vars
=============================================================================
