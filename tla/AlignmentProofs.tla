--------------------------- MODULE AlignmentProofs ---------------------------
(***************************************************************************)
(* What rounding an address up to an alignment guarantees, and that the    *)
(* natural numbers are well ordered.                                       *)
(***************************************************************************)
EXTENDS Alignment, WellFoundedInduction, TLAPS

\* Truncating division brackets its dividend.
LEMMA DivBracket ==
  ASSUME NEW x \in Nat, NEW d \in Nat \ {0}
  PROVE  /\ x \div d \in Nat
         /\ (x \div d) * d <= x
         /\ x < (x \div d) * d + d
  OBVIOUS

\* Rounding up finds the first multiple: none lies between x and the result.
LEMMA RoundUpFirst ==
  ASSUME NEW x \in Nat, NEW a \in Nat \ {0}
  PROVE  /\ RoundUp(x, a) \in Nat
         /\ x <= RoundUp(x, a)
         /\ RoundUp(x, a) < x + a
         /\ RoundUp(x, a) % a = 0
         /\ \A y \in Nat : x <= y /\ y < RoundUp(x, a) => y % a # 0
<1> DEFINE q == (x + a - 1) \div a
<1>1. q \in Nat /\ q * a <= x + a - 1 /\ x + a - 1 < q * a + a
  BY DivBracket
<1>2. RoundUp(x, a) = q * a
  BY DEF RoundUp
<1>3. ASSUME NEW y \in Nat, x <= y, y < q * a, y % a = 0
      PROVE  FALSE
  <2> DEFINE k == y \div a
  <2>1. k \in Nat /\ y = k * a
    BY <1>3
  <2> HIDE DEF k, q
  <2>2. (q - 1) * a < k * a
    BY <1>1, <1>3, <2>1
  <2>3. q - 1 < k
    BY <1>1, <2>1, <2>2
  <2>4. q * a <= k * a
    BY <1>1, <2>1, <2>3
  <2> QED BY <1>1, <1>3, <2>1, <2>4
<1>4. (q * a) % a = 0
  <2> HIDE DEF q
  <2> QED BY <1>1
<1> HIDE DEF q
<1>5. q * a \in Nat /\ x <= q * a /\ q * a < x + a
  BY <1>1
<1> QED BY <1>2, <1>3, <1>4, <1>5

\* A non-empty set of numbers has a least element: < is well founded.
LEMMA LeastNat ==
  ASSUME NEW T, T \subseteq Nat, T # {}
  PROVE  \E x \in T : \A y \in T : x <= y
<1> DEFINE R == OpToRel(<, Nat)
<1>1. \A x, y \in Nat : x < y => <<x, y>> \in R
  BY Zenon DEF OpToRel
<1>2. IsWellFoundedOn(R, Nat)
  BY NatLessThanWellFounded
<1> HIDE DEF R
<1>3. PICK x \in T : \A y \in T : <<y, x>> \notin R
  BY <1>2, WFMin
<1>4. ASSUME NEW y \in T PROVE x <= y
  <2>1. ~(y < x)
    BY <1>1, <1>3
  <2> QED BY <2>1
<1> QED BY <1>4
=============================================================================
