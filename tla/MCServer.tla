------------------------------ MODULE MCServer ------------------------------
(***************************************************************************)
(* What a server and its runs are at, three parts that share no state,      *)
(* checked side by side: the saves of the project's model by several        *)
(* processes, the receiver walk of an RLS-19 run, and the events feed to a  *)
(* page.  A behaviour is one of one part, chosen at the start.              *)
(***************************************************************************)
EXTENDS MCModelStore, ReceiverPool, ProjectEvents

\* Receivers, a scene and car parks that are in order or not, in every combination.
Troubles == {[refused |-> bad, scene |-> scene, lot |-> lot] :
                bad \in {{}, {1}, {2, 3}}, scene \in BOOLEAN, lot \in BOOLEAN}
NoTrouble == [refused |-> {}, scene |-> FALSE, lot |-> FALSE]

\* Bounds: the second run reports no progress, and two mishaps meet one run.
SmallFeed == rows'[2].progress = 0 /\ (mishaps' < 2 \/ created' < 2)

VARIABLE part

ServerInit ==
    /\ part \in {"model", "receivers", "feed"}
    /\ Init /\ PoolInit /\ FeedInit
    /\ part # "receivers" => crew = 1 /\ trouble = NoTrouble

\* A walk that has ended rests; the model's clients and the page always can go on.
ServerNext ==
    /\ UNCHANGED part
    /\ \/ part = "model" /\ Next /\ UNCHANGED <<poolVars, feedVars>>
       \/ part = "receivers" /\ PoolNext /\ UNCHANGED <<vars, feedVars>>
       \/ part = "receivers" /\ point = "ended" /\ UNCHANGED <<vars, poolVars, feedVars>>
       \/ part = "feed" /\ FeedNext /\ SmallFeed /\ UNCHANGED <<vars, poolVars>>

ServerVars == <<part, vars, poolVars, feedVars>>
ServerSpec == ServerInit /\ [][ServerNext]_ServerVars /\ FeedFairness

ServerTypeOK == TypeOK /\ PoolTypeOK /\ FeedTypeOK
=============================================================================
