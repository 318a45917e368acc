------------------------------ MODULE MCYeeStep ------------------------------
(* Model-checking instances of YeeStep: three time steps, so the first   *)
(* step's communications meet the next step's updates, and the third    *)
(* step's depend on both through the chain of transactions.             *)
EXTENDS YeeStep

MCSteps == 3
=============================================================================
