---------------------------- MODULE VectorIndex -----------------------------
(***************************************************************************)
(* The index arithmetic of PMacc::math::Vector (libPMacc/include/math/     *)
(* vector/Vector.hpp) as pure operators: revert, shrink,                   *)
(* productOfComponents, linearize, and the alpaka extent and offset traits *)
(* through which every buffer copy and kernel launch hands a PMacc vector  *)
(* to alpaka.                                                              *)
(*                                                                         *)
(* PMacc stores x in component 0, and x is the fastest running index of    *)
(* its memory; alpaka numbers dimensions the other way, the last one       *)
(* running fastest.  The operators are checked against alpaka's row-major *)
(* linear index over every size and position of a small box.              *)
(*                                                                         *)
(* A vector of dimension d is a function from 0 .. d-1, component 0 = x.   *)
(***************************************************************************)
EXTENDS Integers, FiniteSets, Functions

CONSTANTS
  Dim,       (* dimension of the sizes and positions checked              *)
  MaxExtent  (* largest extent of a size along one dimension              *)

ASSUME Dim \in {2, 3} /\ MaxExtent \in Nat \ {0}

DimOf(v) == Cardinality(DOMAIN v)

(* revert (lines 222-229): invertedVector[dim-1-i] = v[i].                 *)
Revert(v) == [i \in DOMAIN v |-> v[DimOf(v) - 1 - i]]

(* shrink<k>(startIdx) (lines 303-311): k components from startIdx on,     *)
(* wrapping around.                                                        *)
Shrink(v, k, startIdx) == [i \in 0 .. k - 1 |-> v[(startIdx + i) % DimOf(v)]]

(* Mutation: the loop starts at 0 although result already holds v[0].      *)
ProductOfComponentsFromZero(v) ==
  LET RECURSIVE P(_)
      P(i) == IF i = DimOf(v) THEN 1 ELSE v[i] * P(i + 1)
  IN  v[0] * P(0)

(* productOfComponents (lines 318-325): v[0] times v[1] .. v[dim-1].       *)
ProductOfComponents(v) ==
  LET RECURSIVE P(_)
      P(i) == IF i = DimOf(v) THEN 1 ELSE v[i] * P(i + 1)
  IN  v[0] * P(1)

(* linearize of a 2D position in a 1D size (lines 719-733).               *)
Linearize2(size, pos) == pos[1] * size[0] + pos[0]

(* linearize of a 3D position in a 2D size (lines 735-749).               *)
Linearize3(size, pos) == pos[2] * size[0] * size[1] + pos[1] * size[0] + pos[0]

(* Mutation: alpaka's dimension idx read without reversing the order.      *)
GetExtentUnreversed(idx, v) == v[idx]

(* alpaka::extent::traits::GetExtent (lines 889-908): alpaka dimension    *)
(* idx is PMacc component dim-1-idx.                                       *)
GetExtent(idx, v) == v[DimOf(v) - 1 - idx]

(* alpaka::offset::traits::GetOffset (lines 943-961).                     *)
GetOffset(idx, v) == v[DimOf(v) - 1 - idx]

(* alpaka::extent::traits::SetExtent (lines 912-933).                     *)
SetExtent(idx, v, e) == [v EXCEPT ![DimOf(v) - 1 - idx] = e]

(* alpaka::offset::traits::SetOffset (lines 962-985).                     *)
SetOffset(idx, v, o) == [v EXCEPT ![DimOf(v) - 1 - idx] = o]

(* C integer division and remainder of the component type: the quotient  *)
(* is truncated toward zero, the remainder takes the sign of the dividend.*)
Sign(x) == IF x < 0 THEN -1 ELSE 1
AbsOf(x) == x * Sign(x)
CDiv(x, y) == Sign(x) * Sign(y) * (AbsOf(x) \div AbsOf(y))
CRem(x, y) == x - y * CDiv(x, y)

(* One component of a compound operator: += -= *= /= and % of the       *)
(* component type.                                                        *)
Combine(o, x, y) ==
  CASE o = "+" -> x + y
    [] o = "-" -> x - y
    [] o = "*" -> x * y
    [] o = "/" -> CDiv(x, y)
    [] o = "%" -> CRem(x, y)

(* The vector operators +=, -=, *=, /= (lines 326-402): component i of    *)
(* the left vector combined with component i of the right one.            *)
ElementWise(o, a, b) == [i \in DOMAIN a |-> Combine(o, a[i], b[i])]

(* The free operators + - * / on two vectors (lines 523-630): a copy of  *)
(* the left operand with the compound operator applied.                   *)
Plus(a, b)  == ElementWise("+", a, b)
Minus(a, b) == ElementWise("-", a, b)
Times(a, b) == ElementWise("*", a, b)
Div(a, b)   == ElementWise("/", a, b)

(* The compound operators with a scalar (lines 404-435): every component *)
(* combined with the same value.                                          *)
ScalarCombine(o, a, s) == [i \in DOMAIN a |-> Combine(o, a[i], s)]

(* vector * scalar and scalar * vector (lines 632-662), vector / scalar  *)
(* (lines 664-678): a copy with the compound operator applied.           *)
TimesScalar(a, s) == ScalarCombine("*", a, s)

DivScalar(a, s) == ScalarCombine("/", a, s)

(* unary minus (lines 680-696).                                           *)
Negate(v) == [i \in DOMAIN v |-> -v[i]]

(* The sum of a[k] * b[k] over the components k from i on.               *)
ProductSumFrom(a, b, i) ==
  LET RECURSIVE S(_)
      S(k) == IF k = DimOf(a) THEN 0 ELSE a[k] * b[k] + S(k + 1)
  IN  S(i)

(* Mutation: the loop starts at 0 although result already holds x * x.   *)
DotFromZero(a, b) == a[0] * b[0] + ProductSumFrom(a, b, 0)

(* dot (lines 786-795): result = a.x() * b.x(), then components 1 ..     *)
(* dim-1 added.                                                           *)
Dot(a, b) == a[0] * b[0] + ProductSumFrom(a, b, 1)

(* abs2 (lines 770-778): the same loop over the vector with itself.       *)
Abs2(v) == v[0] * v[0] + ProductSumFrom(v, v, 1)

(* operator% (lines 761-769): lhs[i] % rhs[i] for every component.        *)
Mod(a, b) == ElementWise("%", a, b)

(* operator== (lines 444-450): false at the first differing component.   *)
Equal(a, b) == \A i \in DOMAIN a : a[i] = b[i]

(* operator!= (lines 460-464).                                            *)
NotEqual(a, b) == ~Equal(a, b)

(* operator>= (lines 698-717): a vector of booleans.                      *)
GreaterEq(a, b) == [i \in DOMAIN a |-> a[i] >= b[i]]

(* The positions of a box of the given size.                              *)
Box(size) == [DOMAIN size -> 0 .. MaxExtent - 1] \cap
             {p \in [DOMAIN size -> Nat] : \A i \in DOMAIN size : p[i] < size[i]}

VARIABLES
  size,      (* extent of a buffer, in PMacc order                         *)
  pos        (* a position inside it, in PMacc order                       *)

vars == <<size, pos>>

Init ==
  /\ size \in [0 .. Dim - 1 -> 1 .. MaxExtent]
  /\ pos \in Box(size)

(* The operators are pure: every state is one input, checked as it is.    *)
Next == UNCHANGED vars

Spec == Init /\ [][Next]_vars

-----------------------------------------------------------------------------
(* alpaka's linear index of idx in a buffer of extent ext, both in alpaka *)
(* order: the last dimension runs fastest.                                *)
AlpakaLinear(ext, idx) ==
  LET RECURSIVE L(_)
      L(k) == IF k = 0 THEN 0 ELSE L(k - 1) * ext[k - 1] + idx[k - 1]
  IN  L(DimOf(ext))

(* The alpaka view of a PMacc vector, built with the traits.              *)
AlpakaExtent(v) == [k \in DOMAIN v |-> GetExtent(k, v)]
AlpakaOffset(v) == [k \in DOMAIN v |-> GetOffset(k, v)]

TypeOK ==
  /\ size \in [0 .. Dim - 1 -> 1 .. MaxExtent]
  /\ pos \in Box(size)

(* The cell PMacc's linearize computes for a position (with the size      *)
(* shrunk to its leading components, as the callers pass it) is the cell *)
(* alpaka addresses for the same position and size handed over through   *)
(* the extent and offset traits, in 3D and in the 2D slice of it: a copy *)
(* or kernel by alpaka and an access by PMacc touch the same element.    *)
LinearizeMatchesAlpaka ==
  LET s2 == Shrink(size, 2, 0)
      p2 == Shrink(pos, 2, 0)
  IN  /\ Dim = 3 =>
           Linearize3(Shrink(size, 2, 0), pos)
             = AlpakaLinear(AlpakaExtent(size), AlpakaOffset(pos))
      /\ Linearize2(Shrink(s2, 1, 0), p2)
           = AlpakaLinear(AlpakaExtent(s2), AlpakaOffset(p2))

(* linearize numbers the cells of the box densely: it is a bijection from *)
(* the positions onto 0 .. productOfComponents - 1, so a buffer of        *)
(* productOfComponents elements holds every cell once.                    *)
LinearizeDense ==
  Dim = 3 =>
    /\ {Linearize3(Shrink(size, 2, 0), p) : p \in Box(size)}
         = 0 .. ProductOfComponents(size) - 1
    /\ Cardinality(Box(size)) = ProductOfComponents(size)

(* dot and abs2 compute the sum of the products of the components (the  *)
(* reference sum over the whole domain) for a position and the negative *)
(* offset pos - size alike: abs2 is the dot product of a vector with     *)
(* itself, a vector and its negation have the same abs2, and dot is      *)
(* linear in a scalar factor, so no component is left out or counted     *)
(* twice by the loops that start from the x component.                   *)
DotMatchesReference ==
  \A a \in {pos, Minus(pos, size)} :
     /\ Dot(a, size) = FoldFunction(LAMBDA x, y : x + y, 0,
                                    [i \in DOMAIN a |-> a[i] * size[i]])
     /\ Abs2(a) = Dot(a, a)
     /\ Abs2(Negate(a)) = Abs2(a)
     /\ Dot(TimesScalar(a, -2), size) = -2 * Dot(a, size)

=============================================================================
