--------------------------- MODULE MCEnergyKernel ---------------------------
(* Model-checking instance of EnergyKernel: two blocks of two threads,    *)
(* up to two frames per supercell, so a block has an empty supercell, a   *)
(* partly filled single frame, or a full frame before a partial one, and  *)
(* the two blocks' global adds interleave with each other's threads.      *)
EXTENDS EnergyKernel, TLC

CONSTANTS b1, b2

MCBlocks == {b1, b2}
MCN == 2
MCMaxFrames == 2

(* Supercells are interchangeable.                                        *)
MCSymmetry == Permutations(MCBlocks)
=============================================================================
