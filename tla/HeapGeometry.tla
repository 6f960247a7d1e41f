---------------------------- MODULE HeapGeometry ----------------------------
(***************************************************************************)
(* The fixed geometry of one heap_t of the kernel (the root heap behind    *)
(* kalloc or the low heap behind low_kalloc): how many blocks it has, where *)
(* they are and what a request asks of them.  Addresses and sizes are in   *)
(* bytes; blocks are numbered from 0.                                      *)
(***************************************************************************)
EXTENDS Alignment

CONSTANTS
  Total,       \* heap->max_size / heap->block_size
  BlockSize,   \* heap->block_size (512 in the kernel)
  StartAddr,   \* heap->start_addr, the address of block 0
  Word,        \* 2^64: the modulus of size_t and uint64_t
  Sizes,       \* the sizes callers ask for
  Alignments   \* the alignments callers ask for

\* The heap has blocks, at addresses in the lower half of the word (the kernel
\* identity-maps 4 GiB), so that rounding an address up cannot wrap.
ASSUME GeometryAssumption ==
  /\ Total \in Nat \ {0}
  /\ BlockSize \in Nat \ {0}
  /\ StartAddr \in Nat \ {0}
  /\ Word \in Nat
  /\ 2 * (StartAddr + Total * BlockSize) <= Word

\* No caller asks for a size within one block of 2^64: sizes are sizeof
\* expressions, sector and cluster sizes and the lengths of files on a disk.
ASSUME SizesAssumption ==
  Sizes \subseteq Nat /\ \A size \in Sizes : size + BlockSize - 1 < Word

ASSUME AlignmentsAssumption ==
  Alignments \subseteq Nat /\ \A a \in Alignments : 2 * a <= Word

Blocks == 0 .. Total - 1

\* Mutant: the division truncates.
NeededTruncated(size) == size \div BlockSize

\* Blocks needed for size bytes, in size_t arithmetic.
Needed(size) == ((size + BlockSize - 1) % Word) \div BlockSize

BlockAddr(b) == StartAddr + b * BlockSize

\* addr & (alignment - 1) = 0, for a power of two.
AlignedAt(b, a) == BlockAddr(b) % a = 0
=============================================================================
