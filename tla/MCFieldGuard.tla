---------------------------- MODULE MCFieldGuard ----------------------------
(* Two dimensions, two species and margins 0..1: every choice of margins  *)
(* in which the species and the solver disagree on a side is reached.    *)
EXTENDS FieldGuard

CONSTANTS s1, s2

MCDim == 2
MCSpecies == {s1, s2}
MCMaxMargin == 1

=============================================================================
