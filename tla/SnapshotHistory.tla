--------------------------- MODULE SnapshotHistory ---------------------------
(***************************************************************************)
(* What undo and redo promise: a line of states the model has been in,      *)
(* walked back and forth.  An edit starts a new step unless it goes on with *)
(* the one that is still open; anything else closes it; the oldest states   *)
(* are forgotten.  EditHistory implements this with commands that only know *)
(* how to do and take back their own edit.                                  *)
(***************************************************************************)
EXTENDS Naturals, Sequences

CONSTANT Depth     \* steps that are remembered

VARIABLES present,  \* the model as it is
          past,     \* the states undo goes back to, the latest last
          future,   \* the states redo goes forward to, the next one last
          open      \* the last edit may still be gone on with

vars == <<present, past, future, open>>

\* The line changes by one of these, and `present` to whatever the edit makes of it.
NewStep ==
    /\ past' = IF Len(past) < Depth THEN Append(past, present)
               ELSE Append(Tail(past), present)
    /\ future' = <<>>
GoOn ==
    /\ open /\ past # <<>>
    /\ UNCHANGED past
    /\ future' = <<>> /\ open'
Undo ==
    /\ past # <<>> /\ ~open'
    /\ present' = past[Len(past)]
    /\ past' = SubSeq(past, 1, Len(past) - 1)
    /\ future' = Append(future, present)
Redo ==
    /\ future # <<>> /\ ~open'
    /\ present' = future[Len(future)]
    /\ future' = SubSeq(future, 1, Len(future) - 1)
    /\ past' = Append(past, present)
Close ==
    /\ ~open' /\ UNCHANGED <<present, past, future>>
Replace ==
    /\ past' = <<>> /\ future' = <<>> /\ ~open'

Init == past = <<>> /\ future = <<>> /\ ~open
Next == NewStep \/ GoOn \/ Undo \/ Redo \/ Close \/ Replace
Spec == Init /\ [][Next]_vars
==============================================================================
