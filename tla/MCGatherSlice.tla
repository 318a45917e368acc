--------------------------- MODULE MCGatherSlice ----------------------------
(* Model-checking instances of GatherSlice: three ranks, every subset of  *)
(* them taking part.  One init call checks the protocol itself; repeated  *)
(* calls check re-initialization, which the code supports explicitly      *)
(* ("free old communicator if init is called again").                     *)
EXTENDS GatherSlice

MCK == 3
MCSevenRanks == 7
MCOneInit == 1
MCTwoInits == 2

(* Parts of one and two cells, a slice of three: the active ranks cover  *)
(* it in many ways, in every order of sizes.                             *)
MCSize == [r \in 0 .. K - 1 |-> 1 + (r % 2)]
MCSimSize == 4
MCTwoGathers == 2
=============================================================================
