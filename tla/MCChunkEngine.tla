--------------------------- MODULE MCChunkEngine ---------------------------
EXTENDS ChunkEngine
\* Runs 1 and 2 use one standard, run 3 another.
MCStandard == [r \in Runs |-> IF r <= 2 THEN "v1" ELSE "v2"]
\* Every run has the same chunks ...
SameGeometry == [r \in Runs |-> [c \in Chunk |-> c]]
\* ... or shares its first chunk alone.
FirstShared == [r \in Runs |-> [c \in Chunk |-> IF c = 1 THEN 0 ELSE 10 * r + c]]
=============================================================================
