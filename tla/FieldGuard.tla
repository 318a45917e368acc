----------------------------- MODULE FieldGuard -----------------------------
(***************************************************************************)
(* The guard exchanges the FieldB constructor (fields/FieldB.tpp lines     *)
(* 60-106) registers on the field's grid buffer.  The lower and upper      *)
(* margins are the component-wise maxima, starting from zero, of the       *)
(* interpolation margins of all species and of the field solver's margin   *)
(* for FIELD_B; for each exchange direction the guard read from the        *)
(* neighbour is the lower margin along a dimension in which the direction  *)
(* is -1 and the upper margin otherwise.                                   *)
(*                                                                         *)
(* The margins are compile-time traits of the species and the solver, so   *)
(* every combination of small margins is an initial state, and            *)
(* construction is the one step.                                           *)
(***************************************************************************)
EXTENDS Integers, FiniteSets

CONSTANTS
  Dim,          (* simDim                                                  *)
  Species,      (* VectorAllSpecies                                        *)
  MaxMargin     (* largest margin of a trait                               *)

ASSUME Dim \in Nat \ {0} /\ MaxMargin \in Nat

Dims == 0 .. Dim - 1
Margin == [Dims -> 0 .. MaxMargin]

(* Mask::getRelativeDirections over i = 1 .. NumberOfExchanges - 1: every *)
(* relative direction but ZERO.                                            *)
Directions == [Dims -> {-1, 0, 1}] \ {[d \in Dims |-> 0]}

VARIABLES
  lowerInterp,  (* species -> GetLowerMargin<GetInterpolation<species>>   *)
  upperInterp,  (* species -> GetUpperMargin<GetInterpolation<species>>   *)
  solverLower,  (* GetMargin<FieldSolver, FIELD_B>::LowerMargin           *)
  solverUpper,  (* GetMargin<FieldSolver, FIELD_B>::UpperMargin           *)
  exchanges     (* direction -> guardingCells of addExchange, or none     *)

vars == <<lowerInterp, upperInterp, solverLower, solverUpper, exchanges>>

MaxOf(a, b) == IF a >= b THEN a ELSE b

(* Mutation: the margins are added instead of taking their maximum.       *)
VecAdd(u, v) == [d \in Dims |-> u[d] + v[d]]

(* PMacc::math::CT::max on vectors.                                        *)
VecMax(u, v) == [d \in Dims |-> MaxOf(u[d], v[d])]

(* bmpl::accumulate of CT::max over the species, from make_Int<simDim,0>. *)
RECURSIVE Accumulate(_, _)
Accumulate(m, S) ==
  IF S = {} THEN [d \in Dims |-> 0]
  ELSE LET s == CHOOSE s \in S : TRUE
       IN  VecMax(m[s], Accumulate(m, S \ {s}))

(* Lines 67-90: originGuard and endGuard.                                  *)
OriginGuard == VecMax(Accumulate(lowerInterp, Species), solverLower)
EndGuard == VecMax(Accumulate(upperInterp, Species), solverUpper)

(* Lines 95-102.                                                           *)
GuardingCells(dir) ==
  [d \in Dims |-> IF dir[d] = -1 THEN OriginGuard[d] ELSE EndGuard[d]]

(* Lines 92-104: fieldB->addExchange(GUARD, i, guardingCells, FIELD_B)     *)
(* for every direction.                                                    *)
Construct ==
  /\ exchanges = [dir \in Directions |-> {}]
  /\ exchanges' = [dir \in Directions |-> {GuardingCells(dir)}]
  /\ UNCHANGED <<lowerInterp, upperInterp, solverLower, solverUpper>>

Init ==
  /\ lowerInterp \in [Species -> Margin]
  /\ upperInterp \in [Species -> Margin]
  /\ solverLower \in Margin
  /\ solverUpper \in Margin
  /\ exchanges = [dir \in Directions |-> {}]

Constructed == \A dir \in Directions : exchanges[dir] # {}

Next == Construct \/ (Constructed /\ UNCHANGED vars)

Spec == Init /\ [][Next]_vars

-----------------------------------------------------------------------------
TypeOK ==
  /\ lowerInterp \in [Species -> Margin] /\ upperInterp \in [Species -> Margin]
  /\ solverLower \in Margin /\ solverUpper \in Margin
  /\ exchanges \in [Directions -> SUBSET Margin]

=============================================================================
