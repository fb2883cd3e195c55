--------------------------- MODULE GuardedRegister ---------------------------
(***************************************************************************)
(* What compare-and-write promises of a file that several writers replace: *)
(* a guarded write replaces exactly the value its writer last saw, or      *)
(* nothing, and a writer is told only of a write that happened.            *)
(* ModelStore implements this for the project model.                       *)
(***************************************************************************)
CONSTANTS Writers, Values, None

VARIABLES value,     \* the file's content, None while there is no file
          seen,      \* seen[w]: the content writer w last read or saved
          pending    \* pending[w]: the write w has under way

vars == <<value, seen, pending>>

NoWrite == [new |-> None, guarded |-> FALSE, done |-> FALSE]

Init ==
    /\ value = None
    /\ seen = [w \in Writers |-> None]
    /\ pending = [w \in Writers |-> NoWrite]

Look(w) ==
    /\ pending[w] = NoWrite
    /\ seen' = [seen EXCEPT ![w] = value]
    /\ UNCHANGED <<value, pending>>

Ask(w) ==
    /\ pending[w] = NoWrite
    /\ \E v \in Values, g \in BOOLEAN :
          pending' = [pending EXCEPT ![w] = [new |-> v, guarded |-> g, done |-> FALSE]]
    /\ UNCHANGED <<value, seen>>

Replace(w) ==
    /\ pending[w] # NoWrite /\ ~pending[w].done
    /\ pending[w].guarded => value = seen[w]
    /\ value' = pending[w].new
    /\ pending' = [pending EXCEPT ![w].done = TRUE]
    /\ UNCHANGED seen

\* Refused, failed, or answered to nobody.
Drop(w) ==
    /\ pending[w] # NoWrite
    /\ pending' = [pending EXCEPT ![w] = NoWrite]
    /\ UNCHANGED <<value, seen>>

Answer(w) ==
    /\ pending[w].done
    /\ seen' = [seen EXCEPT ![w] = pending[w].new]
    /\ pending' = [pending EXCEPT ![w] = NoWrite]
    /\ UNCHANGED value

DropAll(W) ==              \* a process with several writers dies
    /\ pending' = [w \in Writers |-> IF w \in W THEN NoWrite ELSE pending[w]]
    /\ UNCHANGED <<value, seen>>

Next ==
    \/ \E w \in Writers : Look(w) \/ Ask(w) \/ Replace(w) \/ Drop(w) \/ Answer(w)
    \/ \E W \in SUBSET Writers : DropAll(W)
Spec == Init /\ [][Next]_vars
=============================================================================
