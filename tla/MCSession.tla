----------------------------- MODULE MCSession ------------------------------
(***************************************************************************)
(* Six parts of a working session that share no state, checked side by     *)
(* side: a behaviour is one of one part, chosen at the start.  The workspace *)
(* and its undo stack are checked by themselves and under the map.          *)
(***************************************************************************)
EXTENDS KernelPool, Workspace, TerrainStore, EstimateSlot, GeometryEdit

\* A model of a city in lon/lat, and a survey of it in metres, which has its road
\* and a receiver of its own; and buildings whose file has a receiver under the id
\* of that road.
Thing(id, k, crs) == [id |-> id, shape |-> {Token(0, k)}, crs |-> crs, props |-> "p"]
City(k, crs, receiver) ==
    [features |-> <<Thing("road", k, crs)>>, receivers |-> <<Thing(receiver, k, crs)>>,
     area |-> NoArea, crs |-> crs]
Buildings == [features |-> <<Thing("lgln", 0, "lonlat")>>,
              receivers |-> <<Thing("road", 0, "lonlat")>>, area |-> "area", crs |-> "lonlat"]
Imported == {City(0, "lonlat", "r"), City(1, "metric", "s"), Buildings}
Drawn == {{Token(0, 0)}, {Token(0, 1)}}

\* Bounds: the workspace by itself declares lon/lat; the map shows the city and the
\* survey only, and a survey that the city was added to sees one drag.
EditsOnTheMap == 2
OneDragOverBoth == store'.crs = "metric" /\ Holds(store', "r") => moves'[2] = 0

\* What the theorems about the workspace assume of files holds of these.
ASSUME ImportedAreSound == FilesAreSound /\ FilesDrawNoMoves

VARIABLE part

SessionVars == <<part, kernelVars, workspaceVars, terrainVars, slotVars, geometryVars>>

SessionInit ==
    /\ part \in {"kernel", "workspace", "terrain", "estimates", "edits", "map"}
    /\ KernelInit /\ WorkspaceInit /\ TerrainInit /\ SlotInit /\ GeometryInit
    /\ part # "workspace" => mode = "served"

SessionNext ==
    /\ UNCHANGED part
    /\ \/ /\ part = "kernel" /\ KernelNext
          /\ UNCHANGED <<workspaceVars, terrainVars, slotVars, geometryVars>>
       \/ /\ part = "workspace" /\ WorkspaceNext
          /\ UNCHANGED <<kernelVars, terrainVars, slotVars, geometryVars>>
       \/ /\ part = "terrain" /\ TerrainNext
          /\ UNCHANGED <<kernelVars, workspaceVars, slotVars, geometryVars>>
       \/ /\ part = "estimates" /\ SlotNext
          /\ UNCHANGED <<kernelVars, workspaceVars, terrainVars, geometryVars>>
       \/ /\ part = "edits" /\ EditNext
          /\ store'.crs = "lonlat"
          /\ UNCHANGED <<kernelVars, workspaceVars, terrainVars, slotVars, pageVars>>
       \/ /\ part = "map" /\ GeometryNext
          /\ edits' <= EditsOnTheMap /\ ~Holds(store', "lgln") /\ OneDragOverBoth
          /\ UNCHANGED <<kernelVars, workspaceVars, terrainVars, slotVars>>

SessionSpec == SessionInit /\ [][SessionNext]_SessionVars /\ KernelFairness

SessionTypeOK == KernelTypeOK /\ WorkspaceTypeOK /\ TerrainTypeOK /\ SlotTypeOK /\ GeometryTypeOK
=============================================================================
