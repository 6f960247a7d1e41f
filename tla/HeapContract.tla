---------------------------- MODULE HeapContract ----------------------------
(***************************************************************************)
(* What alloc, alloc_aligned and free promise a caller, without the block  *)
(* table and without the scan: one call at a time, and a call that ends    *)
(* takes the lowest run of blocks that is free, large enough and aligned,  *)
(* or is refused because there is none.  GrantTail is the exception that   *)
(* alloc makes: it never compares the run with the end of the heap.        *)
(***************************************************************************)
EXTENDS HeapGeometry

VARIABLES
  live,   \* the allocations callers hold
  call    \* the call in progress, or NoCall

contractVars == <<live, call>>

NoCall == [op |-> "none", size |-> 0, align |-> 0]
Calls  == [op : {"alloc"}, size : Sizes, align : {1}]
            \cup [op : {"alloc_aligned"}, size : Sizes, align : Alignments]

\* A run of blocks start .. end-1 given out for a request of size bytes.
Allocation(s, c) ==
  [start |-> s, end |-> s + Needed(c.size), size |-> c.size,
   align |-> Effective(c.align)]

FreeRun(s, n) == \A a \in live : a.end <= s \/ s + n <= a.start

\* Block s can begin an allocation for call c.
Candidate(s, c) ==
  /\ s + Needed(c.size) <= Total
  /\ FreeRun(s, Needed(c.size))
  /\ AlignedAt(s, Effective(c.align))

Rejected(c) == c.size = 0 \/ ~PowerOfTwo(Effective(c.align))

Request(c) ==
  /\ call = NoCall
  /\ call' = c
  /\ UNCHANGED live

Grant ==
  /\ call # NoCall
  /\ ~Rejected(call)
  /\ \E s \in Blocks :
       /\ Candidate(s, call)
       /\ \A t \in 0 .. s - 1 : ~Candidate(t, call)
       /\ live' = live \cup {Allocation(s, call)}
  /\ call' = NoCall

GrantTail ==
  /\ call.op = "alloc"
  /\ ~Rejected(call)
  /\ \A t \in Blocks : ~Candidate(t, call)
  /\ \E s \in Blocks :
       /\ s + Needed(call.size) > Total
       /\ FreeRun(s, Needed(call.size))
       /\ live' = live \cup {Allocation(s, call)}
  /\ call' = NoCall

Refuse ==
  /\ call # NoCall
  /\ Rejected(call) \/ \A t \in Blocks : ~Candidate(t, call)
  /\ call' = NoCall
  /\ UNCHANGED live

Release(a) ==
  /\ call = NoCall
  /\ live' = live \ {a}
  /\ UNCHANGED call

Init == live = {} /\ call = NoCall

Next ==
  \/ \E c \in Calls : Request(c)
  \/ Grant
  \/ GrantTail
  \/ Refuse
  \/ \E a \in live : Release(a)

Spec == Init /\ [][Next]_contractVars
=============================================================================
