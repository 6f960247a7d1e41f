------------------------------ MODULE BlockHeap ------------------------------
(***************************************************************************)
(* The block allocator of mem_manager/allocator.c: a table with one entry  *)
(* per block, scanned by alloc (any run) and alloc_aligned (a run at an    *)
(* aligned address) and cleared by free.  One iteration of a scanning loop *)
(* is one step; the loops that write a run of entries are one step each.   *)
(*                                                                         *)
(* kalloc, low_kalloc and their aligned forms (manager.c) pass their       *)
(* arguments on unchanged, so each of the two heaps is one instance.       *)
(***************************************************************************)
EXTENDS HeapGeometry

VARIABLES
  blocks,  \* the table: blocks[b] is the allocation_t of block b
  i,       \* the scan position of the call in progress
  call,    \* the call in progress and its arguments, or NoCall
  live     \* history: what callers hold and have not freed

vars == <<blocks, i, call, live>>

NoCall == [op |-> "none", size |-> 0, align |-> 0]
Calls  == [op : {"alloc"}, size : Sizes, align : {1}]
            \cup [op : {"alloc_aligned"}, size : Sizes, align : Alignments]

FreeEntry == [isAllocated |-> FALSE, start_block |-> 0, end_block |-> 0]

needed    == Needed(call.size)
alignment == Effective(call.align)

\* The early returns: size 0 and, for alloc_aligned, an alignment that is not a
\* power of two or a run longer than the heap.
EarlyReturn ==
  \/ call.size = 0
  \/ /\ call.op = "alloc_aligned"
     /\ \/ ~PowerOfTwo(alignment)
        \/ needed > Total

Scanning(op) == call.op = op /\ ~EarlyReturn

\* Table indices of the run that starts at b, cut at the end of the table.
RunInTable(b) == {k \in Blocks : b <= k /\ k < b + needed}
RunIsFree(b)  == \A k \in RunInTable(b) : ~blocks[k].isAllocated

\* (aligned + block_size - 1) / block_size for the first aligned address at or
\* after block b.
NextAlignedBlock(b) ==
  (RoundUp(BlockAddr(b), alignment) - StartAddr + BlockSize - 1) \div BlockSize

-----------------------------------------------------------------------------
Init ==
  /\ blocks = [b \in Blocks |-> FreeEntry]
  /\ i = 0
  /\ call = NoCall
  /\ live = {}

Enter(c) ==
  /\ call = NoCall
  /\ call' = c
  /\ i' = 0
  /\ UNCHANGED <<blocks, live>>

ReturnNull ==
  /\ call' = NoCall
  /\ i' = 0
  /\ UNCHANGED <<blocks, live>>

\* Mutant: the marking loop stops one block short.
MarkShort(s) ==
  [b \in Blocks |->
     IF s <= b /\ b < s + needed - 1
       THEN [isAllocated |-> TRUE, start_block |-> s, end_block |-> s + needed]
       ELSE blocks[b]]

\* Mark the run that starts at s and return its address.  Entries past the end
\* of the table are written too: that memory is not part of this model.
Mark(s) ==
  [b \in Blocks |->
     IF s <= b /\ b < s + needed
       THEN [isAllocated |-> TRUE, start_block |-> s, end_block |-> s + needed]
       ELSE blocks[b]]

Take(s) ==
  /\ blocks' = Mark(s)
  /\ live' = live \cup {[start |-> s, end |-> s + needed,
                         size |-> call.size, align |-> alignment]}
  /\ call' = NoCall
  /\ i' = 0

Move(to) ==
  /\ i' = to
  /\ UNCHANGED <<blocks, call, live>>

Reject ==
  /\ call # NoCall
  /\ EarlyReturn
  /\ ReturnNull

-----------------------------------------------------------------------------
(* alloc                                                                   *)

\* The whole run is free as far as the table goes.  Past its end the loop reads
\* whatever memory follows: AllocOverrun and AllocHop are both possible then.
AllocTake ==
  /\ Scanning("alloc")
  /\ i < Total
  /\ RunIsFree(i)
  /\ i + needed <= Total
  /\ Take(i)

\* Mutant: the loop condition is total >= i.
AllocOverrunLate ==
  /\ Scanning("alloc")
  /\ i <= Total
  /\ RunIsFree(i)
  /\ i + needed > Total
  /\ Take(i)

AllocOverrun ==
  /\ Scanning("alloc")
  /\ i < Total
  /\ RunIsFree(i)
  /\ i + needed > Total
  /\ Take(i)

\* Block i is free and the run is not: both i++ of the loop body are executed.
AllocHop ==
  /\ Scanning("alloc")
  /\ i < Total
  /\ ~blocks[i].isAllocated
  /\ ~RunIsFree(i) \/ i + needed > Total
  /\ Move(i + 2)

\* Mutant: no continue after the jump, so the i++ of the loop body follows it.
AllocSkipOneMore ==
  /\ Scanning("alloc")
  /\ i < Total
  /\ blocks[i].isAllocated
  /\ Move(blocks[i].end_block + 1)

\* Block i is allocated: jump to the end of its allocation.
AllocSkip ==
  /\ Scanning("alloc")
  /\ i < Total
  /\ blocks[i].isAllocated
  /\ Move(IF blocks[i].end_block > i THEN blocks[i].end_block ELSE i + 1)

AllocFail ==
  /\ Scanning("alloc")
  /\ i >= Total
  /\ ReturnNull

-----------------------------------------------------------------------------
(* alloc_aligned                                                           *)

AlignedJump ==
  /\ Scanning("alloc_aligned")
  /\ i + needed <= Total
  /\ ~AlignedAt(i, alignment)
  /\ Move(NextAlignedBlock(i))

AlignedTake ==
  /\ Scanning("alloc_aligned")
  /\ i + needed <= Total
  /\ AlignedAt(i, alignment)
  /\ RunIsFree(i)
  /\ Take(i)

\* Mutant: the skip uses start_block.
AlignedSkipBack ==
  /\ Scanning("alloc_aligned")
  /\ i + needed <= Total
  /\ AlignedAt(i, alignment)
  /\ \E hit \in RunInTable(i) :
       /\ blocks[hit].isAllocated
       /\ \A k \in i .. hit - 1 : ~blocks[k].isAllocated
       /\ Move(blocks[hit].start_block)

\* Skip past the first allocated block of the run.
AlignedSkip ==
  /\ Scanning("alloc_aligned")
  /\ i + needed <= Total
  /\ AlignedAt(i, alignment)
  /\ \E hit \in RunInTable(i) :
       /\ blocks[hit].isAllocated
       /\ \A k \in i .. hit - 1 : ~blocks[k].isAllocated
       /\ Move(IF blocks[hit].end_block > hit THEN blocks[hit].end_block
                                              ELSE hit + 1)

\* Mutant: the loop condition is i + needed < total.
AlignedFailEarly ==
  /\ Scanning("alloc_aligned")
  /\ i + needed >= Total
  /\ ReturnNull

AlignedFail ==
  /\ Scanning("alloc_aligned")
  /\ i + needed > Total
  /\ ReturnNull

-----------------------------------------------------------------------------
\* Mutant: free clears the first block of the run only.
FreeFirst(a) ==
  /\ call = NoCall
  /\ blocks' = [blocks EXCEPT ![a.start] = FreeEntry]
  /\ live' = live \ {a}
  /\ UNCHANGED <<i, call>>

\* free(ptr) of an allocation a caller holds.  free(NULL) changes nothing.
Free(a) ==
  /\ call = NoCall
  /\ LET block == (BlockAddr(a.start) - StartAddr) \div BlockSize
         end   == blocks[block].end_block
     IN blocks' = [b \in Blocks |->
                     IF block <= b /\ b < end THEN FreeEntry ELSE blocks[b]]
  /\ live' = live \ {a}
  /\ UNCHANGED <<i, call>>

AllocStep ==
  Reject \/ AllocTake \/ AllocOverrun \/ AllocHop \/ AllocSkip \/ AllocFail

AlignedStep == AlignedJump \/ AlignedTake \/ AlignedSkip \/ AlignedFail

Step == AllocStep \/ AlignedStep

Next ==
  \/ \E c \in Calls : Enter(c)
  \/ Step
  \/ \E a \in live : Free(a)

\* A call runs to its end: nothing preempts the kernel, which takes no
\* interrupts, so the processor keeps executing the loop.
Spec == Init /\ [][Next]_vars /\ WF_vars(Step)

-----------------------------------------------------------------------------
(* Properties                                                              *)

\* The types of the table, of the scan position and of the calls.
TypeOK ==
  /\ blocks \in [Blocks -> [isAllocated : BOOLEAN, start_block : Nat,
                            end_block : Nat]]
  /\ i \in Nat
  /\ call \in Calls \cup {NoCall}
  /\ live \subseteq [start : Blocks, end : Nat, size : Nat, align : Nat]

\* No block belongs to two allocations that callers hold (alloc and
\* alloc_aligned share one table).
Disjoint ==
  \A a, c \in live : a # c => a.end <= c.start \/ c.end <= a.start

\* The table describes exactly what callers hold: alloc and alloc_aligned skip
\* by end_block, and free trusts it.
TableMatchesLive ==
  \A b \in Blocks :
    /\ blocks[b].isAllocated <=> \E a \in live : a.start <= b /\ b < a.end
    /\ \A a \in live :
         a.start <= b /\ b < a.end =>
           blocks[b].start_block = a.start /\ blocks[b].end_block = a.end

\* What alloc and alloc_aligned return has room for the request and is at an
\* address of the alignment asked for.
Usable ==
  \A a \in live :
    /\ a.size <= (a.end - a.start) * BlockSize
    /\ BlockAddr(a.start) % a.align = 0

Fits(t) ==
  /\ t + needed <= Total
  /\ RunIsFree(t)
  /\ AlignedAt(t, alignment)

\* The scan never passes a run it should have taken, however it skips: alloc
\* advances by two after a collision, and both jump over whole allocations.
NothingPassed ==
  call # NoCall /\ ~EarlyReturn => \A t \in 0 .. i - 1 : ~Fits(t)

\* Every allocation lies within the heap's blocks.  alloc_aligned compares the
\* run with the end of the table; alloc does not.
InHeap == \A a \in live : a.end <= Total

\* The allocator implements its contract: every call takes the lowest run or is
\* refused because there is none.
Contract == INSTANCE HeapContract
ImplementsContract == Contract!Spec

\* The scanning loops end: every call returns.
CallReturns == (call # NoCall) ~> (call = NoCall)
=============================================================================
