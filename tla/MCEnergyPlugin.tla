--------------------------- MODULE MCEnergyPlugin ---------------------------
(* Two ranks, the first of them the reduce root, notified at every step  *)
(* 0..2, with one crash: a checkpoint can be taken before, between and   *)
(* after the steps, so a restart can resume at every step.               *)
EXTENDS EnergyPlugin

CONSTANTS r0, r1

MCRanks == {r0, r1}
MCFreq == 1
MCMaxStep == 2
MCMaxCrashes == 1

=============================================================================
