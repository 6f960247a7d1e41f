--------------------------- MODULE BumpHeapProofs ---------------------------
(***************************************************************************)
(* Proofs about the bump allocator, for every hole and every request the   *)
(* assumptions of BumpHeap allow.  The inductive invariant adds to the     *)
(* checked ones that next is at or above the end of every grant.           *)
(***************************************************************************)
EXTENDS BumpHeap, AlignmentProofs

NextAbove ==
  /\ Start <= next /\ next <= End
  /\ \A g \in granted : g.end <= next

BumpInv ==
  TypeOK /\ NextAbove /\ GrantsDisjoint /\ GrantsPlaced /\ RefusalJustified

\* Below the end of the hole rounding up does not wrap: AlignUp is RoundUp.
LEMMA NoWrap ==
  ASSUME NEW align \in Aligns \cup {1}, NextAbove, next \in Nat
  PROVE  /\ Effective(align) \in Nat \ {0}
         /\ AlignUp(next, Effective(align)) = RoundUp(next, Effective(align))
<1> DEFINE a == Effective(align)
<1>1. align \in Nat /\ (align = 1 \/ 2 * align <= Word)
  BY RequestAssumption
<1>2. a \in Nat \ {0} /\ (a = 1 \/ 2 * a <= Word)
  BY <1>1 DEF Effective
<1>3. next \in Nat /\ 2 * next <= Word /\ Word \in Nat /\ Word >= 2
  BY HoleAssumption DEF NextAbove, End
<1> HIDE DEF a
<1>4. next + a - 1 \in Nat /\ next + a - 1 < Word
  BY <1>2, <1>3
<1>5. (next + a - 1) % Word = next + a - 1
  BY <1>3, <1>4
<1>6. AlignUp(next, a) = RoundUp(next, a)
  BY <1>5 DEF AlignUp, RoundUp
<1> QED BY <1>2, <1>6 DEF a

LEMMA InitBump == Init => BumpInv
<1> SUFFICES ASSUME Init PROVE BumpInv
  OBVIOUS
<1>1. TypeOK
  BY HoleAssumption DEF Init, TypeOK, End
<1>2. NextAbove
  BY HoleAssumption DEF Init, NextAbove, End
<1>3. GrantsDisjoint /\ GrantsPlaced
  BY DEF Init, GrantsDisjoint, GrantsPlaced
<1>4. RefusalJustified
  BY DEF Init, RefusalJustified, BadRequest
<1> QED BY <1>1, <1>2, <1>3, <1>4 DEF BumpInv

LEMMA GrantKeeps ==
  ASSUME BumpInv, NEW size \in Sizes, NEW align \in Aligns \cup {1},
         Grant(size, align)
  PROVE  BumpInv'
<1> DEFINE a    == Effective(align)
           addr == AlignUp(next, a)
           g    == [base |-> addr, end |-> addr + size, align |-> a]
<1>1. /\ next \in Nat /\ NextAbove /\ Start \in Nat /\ End \in Nat
      /\ size \in Nat /\ align \in Nat
  BY HoleAssumption, RequestAssumption DEF BumpInv, TypeOK, End
<1>2. a \in Nat \ {0} /\ addr = RoundUp(next, a)
  BY <1>1, NoWrap
<1>3. addr \in Nat /\ next <= addr /\ addr % a = 0
  BY <1>1, <1>2, RoundUpFirst
<1>4. /\ size # 0 /\ addr <= End /\ size <= End - addr
      /\ next' = addr + size
      /\ granted' = granted \cup {g}
      /\ last' = [size |-> size, align |-> align, ok |-> TRUE]
  BY DEF Grant, BadRequest, FitsHole
<1> HIDE DEF a, addr
<1>5. g \in [base : Nat, end : Nat, align : Nat]
  BY <1>1, <1>2, <1>3
<1>6. TypeOK'
  BY <1>1, <1>3, <1>4, <1>5 DEF BumpInv, TypeOK
<1>7. /\ next <= next' /\ Start <= next' /\ next' <= End /\ next' \in Nat
  BY <1>1, <1>3, <1>4 DEF NextAbove
<1>8. \A h \in granted : h.end \in Nat /\ h.base \in Nat /\ h.end <= next
  BY <1>1 DEF BumpInv, TypeOK, NextAbove
<1>9. NextAbove'
  <2>1. \A h \in granted' : h.end <= next'
    BY <1>1, <1>4, <1>7, <1>8
  <2> QED BY <1>1, <1>7, <2>1 DEF NextAbove, End
<1>10. GrantsDisjoint'
  <2>1. \A h \in granted : h.end <= g.base
    BY <1>1, <1>3, <1>8
  <2>2. \A h, k \in granted : h # k => h.end <= k.base \/ k.end <= h.base
    BY DEF BumpInv, GrantsDisjoint
  <2> HIDE DEF g
  <2> QED BY <1>4, <2>1, <2>2 DEF GrantsDisjoint
<1>11. GrantsPlaced'
  <2>1. Start <= g.base /\ g.base < g.end /\ g.end <= End /\ g.base % g.align = 0
    BY <1>1, <1>3, <1>4 DEF NextAbove
  <2> HIDE DEF g
  <2> QED BY <1>4, <2>1 DEF BumpInv, GrantsPlaced, End
<1>12. RefusalJustified'
  BY <1>4 DEF RefusalJustified
<1> QED BY <1>6, <1>9, <1>10, <1>11, <1>12 DEF BumpInv

LEMMA RefuseKeeps ==
  ASSUME BumpInv, NEW size \in Sizes, NEW align \in Aligns \cup {1},
         Refuse(size, align)
  PROVE  BumpInv'
<1> DEFINE a    == Effective(align)
           addr == AlignUp(next, a)
<1>1. /\ next \in Nat /\ NextAbove /\ End \in Nat
      /\ size \in Nat /\ align \in Nat
  BY HoleAssumption, RequestAssumption DEF BumpInv, TypeOK, End
<1>2. a \in Nat \ {0} /\ addr = RoundUp(next, a)
  BY <1>1, NoWrap
<1>3. /\ addr \in Nat
      /\ \A y \in Nat : next <= y /\ y < addr => y % a # 0
  BY <1>1, <1>2, RoundUpFirst
<1>4. /\ next' = next /\ granted' = granted
      /\ last' = [size |-> size, align |-> align, ok |-> FALSE]
      /\ BadRequest(size, align) \/ ~FitsHole(addr, size)
  BY DEF Refuse
<1>5. TypeOK' /\ NextAbove' /\ GrantsDisjoint' /\ GrantsPlaced'
  BY <1>1, <1>4 DEF BumpInv, TypeOK, NextAbove, GrantsDisjoint, GrantsPlaced, End
<1> HIDE DEF addr
<1>6. ASSUME ~BadRequest(size, align), NEW x \in next .. End, x % a = 0
      PROVE  x + size > End
  <2>1. x \in Nat /\ addr <= x
    BY <1>1, <1>3, <1>6
  <2>2. ~(addr <= End /\ size <= End - addr)
    BY <1>4, <1>6 DEF FitsHole
  <2> QED BY <1>1, <1>3, <2>1, <2>2
<1>7. RefusalJustified'
  BY <1>4, <1>6 DEF RefusalJustified, BadRequest, End
<1> QED BY <1>5, <1>7 DEF BumpInv

\* The inductive invariant of bump_alloc_aligned.
THEOREM BumpInvariance == Spec => []BumpInv
<1>1. BumpInv /\ [Next]_vars => BumpInv'
  <2> SUFFICES ASSUME BumpInv, [Next]_vars PROVE BumpInv'
    OBVIOUS
  <2>1. CASE Next
    BY <2>1, GrantKeeps, RefuseKeeps DEF Next
  <2>2. CASE UNCHANGED vars
    BY <2>2 DEF vars, BumpInv, TypeOK, NextAbove, GrantsDisjoint, GrantsPlaced,
                RefusalJustified
  <2> QED BY <2>1, <2>2
<1> QED BY <1>1, InitBump, PTL DEF Spec

\* bump_alloc_aligned never moves next out of the hole.
THEOREM NextInHole == Spec => []TypeOK
<1>1. BumpInv => TypeOK
  BY DEF BumpInv
<1> QED BY <1>1, BumpInvariance, PTL

\* No two MMIO regions handed out by bump_alloc_aligned overlap.
THEOREM GrantsNeverOverlap == Spec => []GrantsDisjoint
<1>1. BumpInv => GrantsDisjoint
  BY DEF BumpInv
<1> QED BY <1>1, BumpInvariance, PTL

\* Every MMIO region handed out is in the hole and aligned as asked.
THEOREM GrantsAlwaysPlaced == Spec => []GrantsPlaced
<1>1. BumpInv => GrantsPlaced
  BY DEF BumpInv
<1> QED BY <1>1, BumpInvariance, PTL

\* bump_alloc_aligned refuses a well-formed request only when no aligned address
\* is left that has room for it.
THEOREM RefusalsJustified == Spec => []RefusalJustified
<1>1. BumpInv => RefusalJustified
  BY DEF BumpInv
<1> QED BY <1>1, BumpInvariance, PTL
=============================================================================
