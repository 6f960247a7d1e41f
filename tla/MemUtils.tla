------------------------------ MODULE MemUtils ------------------------------
(***************************************************************************)
(* memset of utils.c, byte by byte, in a memory of Word addresses.  The    *)
(* other routines of that file (memcpy, memcmp, strcmp) are loops over     *)
(* 0 .. n - 1; memset's counter is an address.                             *)
(***************************************************************************)
EXTENDS Integers

CONSTANTS
  Word,   \* 2^64, the number of addresses
  Bytes   \* values of a byte

Addresses == 0 .. Word - 1

VARIABLES
  mem,     \* contents of memory
  before,  \* history: its contents when memset was entered
  call,    \* the arguments ptr, c and n
  i,       \* the loop counter
  done     \* memset has returned

vars == <<mem, before, call, i, done>>

\* memset is called on an object, which lies in memory.
Init ==
  /\ mem \in [Addresses -> Bytes]
  /\ before = mem
  /\ call \in [ptr : Addresses, c : Bytes, n : Addresses]
  /\ call.ptr + call.n < Word
  /\ i = call.ptr
  /\ done = FALSE

\* ((uint8_t*)ptr)[i] = c, an address computed modulo 2^64.
Store ==
  /\ ~done /\ i < call.ptr + call.n
  /\ mem' = [mem EXCEPT ![(call.ptr + i) % Word] = call.c]
  /\ i' = i + 1
  /\ UNCHANGED <<before, call, done>>

Return ==
  /\ ~done /\ i >= call.ptr + call.n
  /\ done' = TRUE
  /\ UNCHANGED <<mem, before, call, i>>

Next == Store \/ Return

Spec == Init /\ [][Next]_vars

-----------------------------------------------------------------------------
\* memset clears what it is pointed at, as its callers' comments say ("Clear
\* command table"), and nothing else.
MemsetFills ==
  done =>
    mem = [a \in Addresses |->
             IF call.ptr <= a /\ a < call.ptr + call.n THEN call.c ELSE before[a]]
=============================================================================
