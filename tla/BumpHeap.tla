------------------------------ MODULE BumpHeap ------------------------------
(***************************************************************************)
(* The bump allocator of mem_manager/bump_allocator.c, behind k_bump_alloc  *)
(* and k_bump_alloc_aligned: it hands out addresses of the hole that       *)
(* find_mmio_hole found, upwards, and takes none back.                     *)
(***************************************************************************)
EXTENDS Alignment

CONSTANTS
  Start,   \* bump_heap_t.start, the base of the hole
  Size,    \* bump_heap_t.size, its length
  Word,    \* 2^64
  Sizes,   \* the sizes callers ask for
  Aligns   \* the alignments callers ask for

\* The hole lies below 4 GiB, so nothing in it is near the end of the word.
ASSUME HoleAssumption ==
  /\ Start \in Nat
  /\ Size \in Nat \ {0}
  /\ Word \in Nat
  /\ 2 * (Start + Size) <= Word

ASSUME RequestAssumption ==
  /\ Sizes \subseteq Nat
  /\ Aligns \subseteq Nat
  /\ \A a \in Aligns : 2 * a <= Word

VARIABLES
  next,      \* bump_heap_t.next
  granted,   \* history: everything handed out
  last       \* history: the last request and whether it was granted

vars == <<next, granted, last>>

End == Start + Size

\* Mutant: the address is rounded down.
AlignDown(x, a) == (x \div a) * a

\* (next + align - 1) & ~(align - 1) in 64-bit arithmetic.
AlignUp(x, a) == (((x + a - 1) % Word) \div a) * a

BadRequest(size, align) == size = 0 \/ ~PowerOfTwo(Effective(align))

\* Mutant: next is compared, not the address that was rounded up.
FitsBeforeRounding(addr, size) == next <= End /\ size <= End - next

\* Mutant: the last byte of the hole is never given out.
FitsStrictly(addr, size) == addr <= End /\ size < End - addr

\* addr > end || size > end - addr fails.
FitsHole(addr, size) == addr <= End /\ size <= End - addr

-----------------------------------------------------------------------------
Init ==
  /\ next = Start
  /\ granted = {}
  /\ last = [size |-> 0, align |-> 0, ok |-> FALSE]

Grant(size, align) ==
  LET addr == AlignUp(next, Effective(align))
  IN /\ ~BadRequest(size, align)
     /\ FitsHole(addr, size)
     /\ next' = addr + size
     /\ granted' = granted \cup {[base |-> addr, end |-> addr + size,
                                  align |-> Effective(align)]}
     /\ last' = [size |-> size, align |-> align, ok |-> TRUE]

Refuse(size, align) ==
  /\ \/ BadRequest(size, align)
     \/ ~FitsHole(AlignUp(next, Effective(align)), size)
  /\ last' = [size |-> size, align |-> align, ok |-> FALSE]
  /\ UNCHANGED <<next, granted>>

\* bump_alloc(size) is bump_alloc_aligned(size, 1).
Next ==
  \E size \in Sizes, align \in Aligns \cup {1} :
    Grant(size, align) \/ Refuse(size, align)

Spec == Init /\ [][Next]_vars

-----------------------------------------------------------------------------
(* Properties                                                              *)

\* The types of the allocator's fields: next stays within the hole.
TypeOK ==
  /\ next \in Start .. End
  /\ granted \subseteq [base : Nat, end : Nat, align : Nat]
  /\ last \in [size : Nat, align : Nat, ok : BOOLEAN]

\* No two grants of bump_alloc_aligned overlap.
GrantsDisjoint ==
  \A g, h \in granted : g # h => g.end <= h.base \/ h.end <= g.base

\* Every grant of bump_alloc_aligned lies in the hole, holds at least a byte and
\* is aligned as asked, whatever padding earlier grants left.
GrantsPlaced ==
  \A g \in granted :
    /\ Start <= g.base /\ g.base < g.end /\ g.end <= End
    /\ g.base % g.align = 0

\* A well-formed request that bump_alloc_aligned refuses does not fit anywhere in
\* what is left of the hole (a refusal changes nothing, so next is still the
\* position it was refused at).
RefusalJustified ==
  ~last.ok /\ ~BadRequest(last.size, last.align) =>
    \A x \in next .. End :
      x % Effective(last.align) = 0 => x + last.size > End
=============================================================================
