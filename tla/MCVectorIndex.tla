--------------------------- MODULE MCVectorIndex ----------------------------
(* Three dimensions with extents 1..3: every size in which the extents   *)
(* differ from each other, with every position inside it.                *)
EXTENDS VectorIndex

MCDim == 3
MCMaxExtent == 3

=============================================================================
