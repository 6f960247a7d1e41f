------------------------------ MODULE Alignment ------------------------------
(***************************************************************************)
(* The bit tricks of the kernel's allocators, as arithmetic.  For a power  *)
(* of two a, x & (a - 1) is x % a and x & ~(a - 1) is (x \div a) * a.      *)
(***************************************************************************)
EXTENDS Integers

\* a & (a - 1) = 0, for an alignment other than 0: 1 is a's only odd divisor.
PowerOfTwo(a) == \A d \in 2 .. a : a % d = 0 => d % 2 = 0

\* An alignment of 0 stands for 1.
Effective(align) == IF align = 0 THEN 1 ELSE align

\* (x + a - 1) & ~(a - 1), where the sum does not wrap.
RoundUp(x, a) == ((x + a - 1) \div a) * a
=============================================================================
