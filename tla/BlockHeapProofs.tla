--------------------------- MODULE BlockHeapProofs ---------------------------
(***************************************************************************)
(* Proofs about the block allocator, for every heap size, block size,      *)
(* start address and set of requests that the assumptions of HeapGeometry  *)
(* allow.                                                                  *)
(***************************************************************************)
EXTENDS BlockHeap, AlignmentProofs

\* A request of at least one byte needs at least one block, and the blocks it
\* needs hold it.
LEMMA NeededHolds ==
  ASSUME NEW size \in Sizes
  PROVE  /\ Needed(size) \in Nat
         /\ size # 0 => Needed(size) >= 1
         /\ size <= Needed(size) * BlockSize
<1> DEFINE x == size + BlockSize - 1
<1>1. size \in Nat /\ BlockSize \in Nat \ {0} /\ x \in Nat /\ x < Word /\ Word \in Nat \ {0}
  BY GeometryAssumption, SizesAssumption
<1>2. x % Word = x
  BY <1>1
<1>3. Needed(size) = x \div BlockSize
  BY <1>2 DEF Needed
<1> DEFINE q == x \div BlockSize
<1>4. q \in Nat /\ q * BlockSize <= x /\ x < q * BlockSize + BlockSize
  BY <1>1, DivBracket
<1>5. size <= q * BlockSize
  BY <1>1, <1>4
<1>6. size # 0 => q # 0
  BY <1>1, <1>5
<1> QED BY <1>3, <1>4, <1>5, <1>6

\* The jump of alloc_aligned lands on a later block, and every block it jumps
\* over is at an address that is not aligned.
LEMMA JumpSkipsUnaligned ==
  ASSUME NEW b \in Nat, alignment \in Nat \ {0}, ~AlignedAt(b, alignment)
  PROVE  /\ NextAlignedBlock(b) \in Nat
         /\ NextAlignedBlock(b) > b
         /\ \A t \in b .. NextAlignedBlock(b) - 1 : ~AlignedAt(t, alignment)
<1> DEFINE r == RoundUp(BlockAddr(b), alignment)
           n == NextAlignedBlock(b)
<1>1. StartAddr \in Nat /\ BlockSize \in Nat \ {0}
  BY GeometryAssumption
<1>2. \A t \in Nat : BlockAddr(t) \in Nat /\ BlockAddr(t) = StartAddr + t * BlockSize
  BY <1>1 DEF BlockAddr
<1>3. /\ r \in Nat /\ BlockAddr(b) <= r
      /\ \A y \in Nat : BlockAddr(b) <= y /\ y < r => y % alignment # 0
  BY <1>2, RoundUpFirst
<1> DEFINE d == r - StartAddr + BlockSize - 1
<1>4. b * BlockSize \in Nat /\ d \in Nat
  BY <1>1, <1>2, <1>3
<1>5. n = d \div BlockSize
  BY DEF NextAlignedBlock
<1>6. n \in Nat /\ n * BlockSize <= d /\ d < n * BlockSize + BlockSize
  BY <1>1, <1>4, <1>5, DivBracket
<1>7. ASSUME NEW t \in b .. n - 1
      PROVE  ~AlignedAt(t, alignment)
  <2>1. t \in Nat /\ t + 1 <= n /\ b <= t
    BY <1>6
  <2> HIDE DEF n
  <2>2. (t + 1) * BlockSize <= n * BlockSize
    BY <1>1, <1>6, <2>1
  <2>3. t * BlockSize + BlockSize <= d
    BY <1>1, <1>3, <1>4, <1>6, <2>1, <2>2
  <2>4. BlockAddr(t) < r
    BY <1>1, <1>2, <1>3, <2>1, <2>3
  <2>5. BlockAddr(b) <= BlockAddr(t)
    BY <1>1, <1>2, <2>1
  <2> QED BY <1>2, <1>3, <2>1, <2>4, <2>5 DEF AlignedAt
<1>8. n > b
  <2>1. BlockAddr(b) # r
    <3>1. BlockAddr(b) \in Nat /\ r % alignment = 0
      <4> DEFINE q == (BlockAddr(b) + alignment - 1) \div alignment
      <4>1. q \in Nat
        BY <1>2, DivBracket
      <4>2. r = q * alignment
        BY DEF RoundUp
      <4> HIDE DEF q
      <4>3. (q * alignment) % alignment = 0
        BY <4>1
      <4> QED BY <1>2, <4>2, <4>3
    <3> QED BY <3>1 DEF AlignedAt
  <2>2. b * BlockSize + 1 <= r - StartAddr
    BY <1>1, <1>2, <1>3, <2>1
  <2>3. (b + 1) * BlockSize <= d
    BY <1>1, <1>3, <1>4, <2>2
  <2> HIDE DEF n, d
  <2>4. (b + 1) * BlockSize < (n + 1) * BlockSize
    BY <1>1, <1>4, <1>6, <2>3
  <2>5. b + 1 < n + 1
    BY <1>1, <1>6, <2>4
  <2> QED BY <1>6, <2>5
<1> QED BY <1>6, <1>7, <1>8

-----------------------------------------------------------------------------
(* The inductive invariant.  NothingPassed needs the table to describe what  *)
(* callers hold (a skip jumps by end_block), which needs the runs to be      *)
(* disjoint and not empty (a run taken overwrites whatever it covers).       *)

NonEmptyRuns == \A a \in live : a.start < a.end

TableInv == TypeOK /\ NonEmptyRuns /\ Disjoint /\ TableMatchesLive

IInv == TableInv /\ Usable /\ NothingPassed

\* What a call that was not rejected asks for.
LEMMA CallFacts ==
  ASSUME TypeOK, call # NoCall
  PROVE  /\ call.size \in Sizes /\ call.size \in Nat
         /\ alignment \in Nat \ {0}
         /\ call.op \in {"alloc", "alloc_aligned"}
         /\ call.op = "alloc" => alignment = 1
         /\ needed \in Nat
         /\ ~EarlyReturn => needed >= 1
         /\ call.size <= needed * BlockSize
<1>1. call \in Calls
  BY DEF TypeOK
<1>2. /\ call.size \in Sizes /\ call.size \in Nat /\ call.align \in Nat
      /\ call.op \in {"alloc", "alloc_aligned"}
      /\ call.op = "alloc" => call.align = 1
  <2>1. CASE call \in [op : {"alloc"}, size : Sizes, align : {1}]
    <3>1. call.op = "alloc" /\ call.size \in Sizes /\ call.align = 1
      BY <2>1
    <3>2. call.size \in Nat
      BY <3>1, SizesAssumption
    <3> QED BY <3>1, <3>2
  <2>2. CASE call \in [op : {"alloc_aligned"}, size : Sizes, align : Alignments]
    <3>1. /\ call.op = "alloc_aligned" /\ call.size \in Sizes
          /\ call.align \in Alignments
      BY <2>2
    <3> QED BY <3>1, SizesAssumption, AlignmentsAssumption
  <2> QED BY <1>1, <2>1, <2>2 DEF Calls
<1>3. alignment \in Nat \ {0} /\ (call.op = "alloc" => alignment = 1)
  BY <1>2 DEF alignment, Effective
<1>4. /\ needed \in Nat
      /\ call.size # 0 => needed >= 1
      /\ call.size <= needed * BlockSize
  BY <1>2, NeededHolds DEF needed
<1> QED BY <1>2, <1>3, <1>4 DEF EarlyReturn

\* Taking a free run that starts in the table keeps the table and what callers
\* hold in step, whether or not the run passes the end of the table.
LEMMA TakeKeepsTable ==
  ASSUME TableInv, call # NoCall, ~EarlyReturn,
         NEW s \in Blocks, RunIsFree(s), Take(s)
  PROVE  TableInv'
<1> DEFINE n == [start |-> s, end |-> s + needed, size |-> call.size,
                 align |-> alignment]
<1>1. /\ call.size \in Nat /\ alignment \in Nat
      /\ needed \in Nat /\ needed >= 1
  BY CallFacts DEF TableInv
<1>2. Blocks \subseteq Nat /\ s \in Nat
  BY GeometryAssumption DEF Blocks
<1>3. blocks' = Mark(s) /\ live' = live \cup {n} /\ call' = NoCall /\ i' = 0
  BY DEF Take
<1>4. n \in [start : Blocks, end : Nat, size : Nat, align : Nat]
  BY <1>1, <1>2
<1>5. TypeOK'
  BY <1>1, <1>2, <1>3, <1>4 DEF TableInv, TypeOK, Mark
<1>6. NonEmptyRuns'
  BY <1>1, <1>2, <1>3 DEF TableInv, NonEmptyRuns
<1>7. ASSUME NEW a \in live
      PROVE  a.end <= s \/ s + needed <= a.start
  <2>1. a.start \in Blocks /\ a.start \in Nat /\ a.end \in Nat /\ a.start < a.end
    BY <1>2 DEF TableInv, TypeOK, NonEmptyRuns
  <2>2. ~blocks[s].isAllocated
    BY <1>1, <1>2 DEF RunIsFree, RunInTable
  <2>3. ~(a.start <= s /\ s < a.end)
    BY <2>2 DEF TableInv, TableMatchesLive
  <2>4. blocks[a.start].isAllocated
    BY <2>1 DEF TableInv, TableMatchesLive
  <2>5. ~(s <= a.start /\ a.start < s + needed)
    BY <2>1, <2>4 DEF RunIsFree, RunInTable
  <2> QED BY <1>1, <1>2, <2>1, <2>3, <2>5
<1>8. Disjoint'
  BY <1>3, <1>7 DEF TableInv, Disjoint
<1>9. TableMatchesLive'
  <2> SUFFICES ASSUME NEW b \in Blocks
               PROVE  /\ blocks'[b].isAllocated
                           <=> \E a \in live' : a.start <= b /\ b < a.end
                      /\ \A a \in live' : a.start <= b /\ b < a.end =>
                           /\ blocks'[b].start_block = a.start
                           /\ blocks'[b].end_block = a.end
    BY DEF TableMatchesLive
  <2>1. b \in Nat
    BY <1>2
  <2>2. \A a \in live : a.start \in Nat /\ a.end \in Nat
    BY <1>2 DEF TableInv, TypeOK
  <2>3. CASE s <= b /\ b < s + needed
    <3>1. blocks'[b] = [isAllocated |-> TRUE, start_block |-> s,
                        end_block |-> s + needed]
      BY <1>3, <2>3 DEF Mark
    <3>2. \A a \in live : ~(a.start <= b /\ b < a.end)
      BY <1>1, <1>2, <1>7, <2>1, <2>2, <2>3
    <3>3. n \in live' /\ n.start = s /\ n.end = s + needed
      BY <1>3
    <3>4. \A a \in live' : a.start <= b /\ b < a.end => a = n
      BY <1>3, <3>2
    <3> HIDE DEF n
    <3> QED BY <2>3, <3>1, <3>3, <3>4
  <2>4. CASE ~(s <= b /\ b < s + needed)
    <3>1. blocks'[b] = blocks[b]
      BY <1>3, <2>4 DEF Mark
    <3> QED BY <1>3, <2>4, <3>1 DEF TableInv, TableMatchesLive
  <2> QED BY <2>3, <2>4
<1> QED BY <1>5, <1>6, <1>8, <1>9 DEF TableInv

\* What is taken is large enough and aligned.
LEMMA TakeIsUsable ==
  ASSUME TypeOK, Usable, call # NoCall, NEW s \in Blocks,
         AlignedAt(s, alignment), Take(s)
  PROVE  Usable'
<1>1. /\ call.size \in Nat /\ alignment \in Nat /\ needed \in Nat
      /\ call.size <= needed * BlockSize
  BY CallFacts
<1>2. s \in Nat /\ (s + needed) - s = needed
  BY <1>1, GeometryAssumption DEF Blocks
<1>3. live' = live \cup {[start |-> s, end |-> s + needed, size |-> call.size,
                          align |-> alignment]}
  BY DEF Take
<1> QED BY <1>1, <1>2, <1>3 DEF Usable, AlignedAt, BlockAddr

\* free clears exactly the entries of the allocation it is given.
LEMMA FreeKeepsTable ==
  ASSUME TableInv, NEW a \in live, Free(a)
  PROVE  TableInv'
<1> DEFINE block == (BlockAddr(a.start) - StartAddr) \div BlockSize
<1>1. /\ Blocks \subseteq Nat /\ a.start \in Blocks /\ a.end \in Nat
      /\ a.start < a.end /\ StartAddr \in Nat /\ BlockSize \in Nat \ {0}
  BY GeometryAssumption DEF TableInv, TypeOK, NonEmptyRuns, Blocks
<1>2. block = a.start
  <2> a.start \in Nat
    BY <1>1
  <2>1. a.start \in Nat /\ a.start * BlockSize \in Nat
    BY <1>1
  <2>2. BlockAddr(a.start) - StartAddr = a.start * BlockSize
    BY <1>1, <2>1 DEF BlockAddr
  <2>3. (a.start * BlockSize) \div BlockSize = a.start
    BY <1>1, <2>1
  <2> QED BY <2>2, <2>3
<1>3. blocks[a.start].end_block = a.end
  <2>1. a.start \in Nat
    BY <1>1
  <2>2. \A b \in Blocks : a.start <= b /\ b < a.end => blocks[b].end_block = a.end
    BY DEF TableInv, TableMatchesLive
  <2> QED BY <1>1, <2>1, <2>2
<1> HIDE DEF block
<1>4. /\ blocks' = [b \in Blocks |-> IF a.start <= b /\ b < a.end
                                      THEN FreeEntry ELSE blocks[b]]
      /\ live' = live \ {a} /\ call' = call /\ i' = i
  BY <1>2, <1>3 DEF Free, block
<1>5. TypeOK'
  BY <1>1, <1>4 DEF TableInv, TypeOK, FreeEntry
<1>6. NonEmptyRuns' /\ Disjoint'
  BY <1>4 DEF TableInv, NonEmptyRuns, Disjoint
<1>7. TableMatchesLive'
  <2> SUFFICES ASSUME NEW b \in Blocks
               PROVE  /\ blocks'[b].isAllocated
                           <=> \E c \in live' : c.start <= b /\ b < c.end
                      /\ \A c \in live' : c.start <= b /\ b < c.end =>
                           /\ blocks'[b].start_block = c.start
                           /\ blocks'[b].end_block = c.end
    BY DEF TableMatchesLive
  <2>1. b \in Nat /\ \A c \in live : c.start \in Nat /\ c.end \in Nat
    BY <1>1 DEF TableInv, TypeOK
  <2>2. CASE a.start <= b /\ b < a.end
    <3>1. \A c \in live' : ~(c.start <= b /\ b < c.end)
      BY <1>1, <1>4, <2>1, <2>2 DEF TableInv, Disjoint
    <3>2. blocks'[b] = FreeEntry
      BY <1>4, <2>2
    <3> QED BY <3>1, <3>2 DEF FreeEntry
  <2>3. CASE ~(a.start <= b /\ b < a.end)
    <3>1. blocks'[b] = blocks[b]
      BY <1>4, <2>3
    <3> QED BY <1>4, <2>3, <3>1 DEF TableInv, TableMatchesLive
  <2> QED BY <2>2, <2>3
<1> QED BY <1>5, <1>6, <1>7 DEF TableInv

-----------------------------------------------------------------------------
(* The scan                                                                *)

\* Every block from an allocated block to its end_block is allocated.
LEMMA AllocatedToEnd ==
  ASSUME TableInv, NEW b \in Blocks, blocks[b].isAllocated,
         NEW t \in Blocks, b <= t, t < blocks[b].end_block
  PROVE  blocks[t].isAllocated
<1>1. PICK a \in live : a.start <= b /\ b < a.end
  BY DEF TableInv, TableMatchesLive
<1>2. blocks[b].end_block = a.end
  BY <1>1 DEF TableInv, TableMatchesLive
<1>3. a.start \in Nat /\ b \in Nat /\ t \in Nat
  BY GeometryAssumption DEF TableInv, TypeOK, Blocks
<1>4. a.start <= t /\ t < a.end
  BY <1>1, <1>2, <1>3
<1> QED BY <1>4 DEF TableInv, TableMatchesLive

\* A scan may move on when nothing it moves over fits.
LEMMA MoveKeeps ==
  ASSUME IInv, NEW to \in Nat, Move(to), \A t \in i .. to - 1 : ~Fits(t)
  PROVE  IInv'
<1>1. /\ i' = to /\ blocks' = blocks /\ call' = call /\ live' = live
      /\ i \in Nat
  BY DEF Move, IInv, TableInv, TypeOK
<1>2. TableInv' /\ Usable'
  BY <1>1 DEF IInv, TableInv, TypeOK, NonEmptyRuns, Disjoint,
              TableMatchesLive, Usable
<1>3. NothingPassed'
  <2> SUFFICES ASSUME call # NoCall, ~EarlyReturn, NEW t \in 0 .. to - 1
               PROVE  ~Fits(t)
    BY <1>1 DEF NothingPassed, EarlyReturn, Fits, RunIsFree, RunInTable,
                needed, alignment
  <2>1. CASE t < i
    BY <1>1, <2>1 DEF IInv, NothingPassed
  <2>2. CASE t >= i
    BY <1>1, <2>2
  <2> QED BY <1>1, <2>1, <2>2
<1> QED BY <1>2, <1>3 DEF IInv

\* After a collision alloc moves on by two: the block in between cannot begin a
\* run that fits, for the run at i would have fitted then.
LEMMA HopPassesNothing ==
  ASSUME IInv, AllocHop
  PROVE  \A t \in i .. i + 1 : ~Fits(t)
<1>1. /\ i \in Blocks /\ i \in Nat /\ ~blocks[i].isAllocated
      /\ ~RunIsFree(i) \/ i + needed > Total
  BY GeometryAssumption DEF AllocHop, IInv, TableInv, TypeOK, Blocks
<1>2. needed \in Nat /\ Total \in Nat
  BY CallFacts, GeometryAssumption
     DEF AllocHop, Scanning, NoCall, IInv, TableInv
<1>3. ~Fits(i)
  BY <1>1, <1>2 DEF Fits
<1>4. ~Fits(i + 1)
  <2> SUFFICES ASSUME Fits(i + 1) PROVE FALSE
    OBVIOUS
  <2>1. i + needed <= Total
    BY <1>1, <1>2 DEF Fits
  <2>2. \A k \in RunInTable(i) : k = i \/ k \in RunInTable(i + 1)
    BY <1>1, <1>2 DEF RunInTable, Blocks
  <2>3. RunIsFree(i)
    BY <1>1, <2>2 DEF Fits, RunIsFree
  <2> QED BY <1>1, <1>2, <2>1, <2>3
<1> QED BY <1>1, <1>3, <1>4

\* Skipping an allocated block skips no run that fits.
LEMMA SkipPassesNothing ==
  ASSUME IInv, call # NoCall, ~EarlyReturn, NEW hit \in Blocks,
         blocks[hit].isAllocated, i <= hit, hit < i + needed,
         NEW to \in Nat,
         to = IF blocks[hit].end_block > hit THEN blocks[hit].end_block
                                             ELSE hit + 1
  PROVE  \A t \in i .. to - 1 : ~Fits(t)
<1> SUFFICES ASSUME NEW t \in i .. to - 1, Fits(t) PROVE FALSE
  OBVIOUS
<1>1. /\ i \in Nat /\ hit \in Nat /\ t \in Nat /\ Total \in Nat
      /\ blocks[hit].end_block \in Nat
  BY GeometryAssumption DEF IInv, TableInv, TypeOK, Blocks
<1>2. needed \in Nat /\ needed >= 1
  BY CallFacts DEF IInv, TableInv
<1>3. t + needed <= Total /\ RunIsFree(t)
  BY DEF Fits
<1>4. t \in Blocks /\ t \in RunInTable(t)
  BY <1>1, <1>2, <1>3 DEF Blocks, RunInTable
<1>5. CASE t <= hit
  <2>1. hit \in RunInTable(t)
    BY <1>1, <1>2, <1>5 DEF RunInTable
  <2> QED BY <1>3, <2>1 DEF RunIsFree
<1>6. CASE hit < t
  <2>1. t < blocks[hit].end_block
    BY <1>1, <1>6
  <2>2. blocks[t].isAllocated
    BY <1>1, <1>4, <1>6, <2>1, AllocatedToEnd DEF IInv
  <2> QED BY <1>3, <1>4, <2>2 DEF RunIsFree
<1> QED BY <1>1, <1>5, <1>6

-----------------------------------------------------------------------------
(* One lemma per kind of step                                              *)

LEMMA InitEstablishes ==
  ASSUME Init
  PROVE  IInv
<1>1. TypeOK
  BY DEF Init, TypeOK, FreeEntry
<1>2. NonEmptyRuns /\ Disjoint /\ TableMatchesLive /\ Usable
  BY DEF Init, NonEmptyRuns, Disjoint, TableMatchesLive, Usable, FreeEntry
<1>3. NothingPassed
  BY DEF Init, NothingPassed
<1> QED BY <1>1, <1>2, <1>3 DEF IInv, TableInv

\* Entering a call and returning NULL from it touch neither the table nor what
\* callers hold, and a scan starts at block 0.
LEMMA QuietKeeps ==
  ASSUME IInv, UNCHANGED <<blocks, live>>, i' = 0, call' \in Calls \cup {NoCall}
  PROVE  IInv'
<1>1. TypeOK'
  BY DEF IInv, TableInv, TypeOK
<1>2. NonEmptyRuns' /\ Disjoint' /\ TableMatchesLive' /\ Usable'
  BY DEF IInv, TableInv, NonEmptyRuns, Disjoint, TableMatchesLive, Usable
<1>3. NothingPassed'
  BY DEF NothingPassed
<1> QED BY <1>1, <1>2, <1>3 DEF IInv, TableInv

LEMMA TakeKeeps ==
  ASSUME IInv, call # NoCall, ~EarlyReturn, NEW s \in Blocks, RunIsFree(s),
         AlignedAt(s, alignment), Take(s)
  PROVE  IInv'
<1>1. TableInv'
  BY TakeKeepsTable DEF IInv
<1>2. Usable'
  BY TakeIsUsable DEF IInv, TableInv
<1>3. NothingPassed'
  BY DEF Take, NothingPassed
<1> QED BY <1>1, <1>2, <1>3 DEF IInv

\* A call that is scanning is a call.
LEMMA ScanningIsCall ==
  ASSUME NEW op \in {"alloc", "alloc_aligned"}, Scanning(op)
  PROVE  call # NoCall /\ ~EarlyReturn
  BY DEF Scanning, NoCall

LEMMA AllocKeeps ==
  ASSUME IInv, AllocStep
  PROVE  IInv'
<1> USE DEF AllocStep
<1>0. TypeOK /\ i \in Nat /\ Total \in Nat
  BY GeometryAssumption DEF IInv, TableInv, TypeOK
<1>1. CASE Reject
  BY <1>1, QuietKeeps DEF Reject, ReturnNull
<1>2. CASE AllocTake \/ AllocOverrun
  <2>1. call # NoCall /\ ~EarlyReturn /\ call.op = "alloc"
    BY <1>2, ScanningIsCall DEF AllocTake, AllocOverrun, Scanning
  <2>2. i \in Blocks /\ RunIsFree(i) /\ Take(i)
    BY <1>0, <1>2 DEF AllocTake, AllocOverrun, Blocks
  <2>3. AlignedAt(i, alignment)
    <3>1. alignment = 1
      BY <1>0, <2>1, CallFacts
    <3>2. BlockAddr(i) \in Nat
      BY <1>0, GeometryAssumption DEF BlockAddr
    <3> QED BY <3>1, <3>2 DEF AlignedAt
  <2> QED BY <2>1, <2>2, <2>3, TakeKeeps
<1>3. CASE AllocHop
  <2>1. Move(i + 2) /\ i + 2 \in Nat /\ i + 1 = (i + 2) - 1
    BY <1>0, <1>3 DEF AllocHop
  <2>2. \A t \in i .. i + 1 : ~Fits(t)
    BY <1>3, HopPassesNothing
  <2> QED BY <2>1, <2>2, MoveKeeps
<1>4. CASE AllocSkip
  <2>1. call # NoCall /\ ~EarlyReturn
    BY <1>4, ScanningIsCall DEF AllocSkip
  <2>2. i \in Blocks /\ blocks[i].isAllocated
    BY <1>0, <1>4 DEF AllocSkip, Blocks
  <2>3. i <= i /\ i < i + needed
    BY <1>0, <2>1, CallFacts
  <2> DEFINE to == IF blocks[i].end_block > i THEN blocks[i].end_block ELSE i + 1
  <2>4. Move(to) /\ to \in Nat
    BY <1>0, <1>4, <2>2 DEF AllocSkip, TypeOK
  <2>5. \A t \in i .. to - 1 : ~Fits(t)
    BY <2>1, <2>2, <2>3, <2>4, SkipPassesNothing
  <2> QED BY <2>4, <2>5, MoveKeeps
<1>5. CASE AllocFail
  BY <1>5, QuietKeeps DEF AllocFail, ReturnNull
<1> QED BY <1>1, <1>2, <1>3, <1>4, <1>5

LEMMA AlignedKeeps ==
  ASSUME IInv, AlignedStep
  PROVE  IInv'
<1> USE DEF AlignedStep
<1>0. TypeOK /\ i \in Nat /\ Total \in Nat
  BY GeometryAssumption DEF IInv, TableInv, TypeOK
<1>1. CASE AlignedJump
  <2>1. call # NoCall
    BY <1>1, ScanningIsCall DEF AlignedJump
  <2>2. alignment \in Nat \ {0}
    BY <1>0, <2>1, CallFacts
  <2> DEFINE to == NextAlignedBlock(i)
  <2>3. Move(to) /\ ~AlignedAt(i, alignment)
    BY <1>1 DEF AlignedJump
  <2>4. to \in Nat /\ \A t \in i .. to - 1 : ~AlignedAt(t, alignment)
    BY <1>0, <2>2, <2>3, JumpSkipsUnaligned
  <2>5. \A t \in i .. to - 1 : ~Fits(t)
    BY <2>4 DEF Fits
  <2> HIDE DEF to
  <2> QED BY <2>3, <2>4, <2>5, MoveKeeps
<1>2. CASE AlignedTake
  <2>1. call # NoCall /\ ~EarlyReturn
    BY <1>2, ScanningIsCall DEF AlignedTake
  <2>2. needed \in Nat /\ needed >= 1
    BY <1>0, <2>1, CallFacts
  <2>3. /\ i \in Blocks /\ RunIsFree(i) /\ AlignedAt(i, alignment) /\ Take(i)
    BY <1>0, <1>2, <2>2 DEF AlignedTake, Blocks
  <2> QED BY <2>1, <2>3, TakeKeeps
<1>3. CASE AlignedSkip
  <2>1. call # NoCall /\ ~EarlyReturn
    BY <1>3, ScanningIsCall DEF AlignedSkip
  <2>2. needed \in Nat
    BY <1>0, <2>1, CallFacts
  <2>3. PICK hit \in RunInTable(i) :
          /\ blocks[hit].isAllocated
          /\ Move(IF blocks[hit].end_block > hit THEN blocks[hit].end_block
                                                 ELSE hit + 1)
    BY <1>3 DEF AlignedSkip
  <2>4. hit \in Blocks /\ hit \in Nat /\ i <= hit /\ hit < i + needed
    BY <1>0 DEF RunInTable, Blocks
  <2> DEFINE to == IF blocks[hit].end_block > hit THEN blocks[hit].end_block
                                                  ELSE hit + 1
  <2>5. to \in Nat
    BY <1>0, <2>4 DEF TypeOK
  <2>6. \A t \in i .. to - 1 : ~Fits(t)
    BY <2>1, <2>3, <2>4, <2>5, SkipPassesNothing
  <2> QED BY <2>3, <2>5, <2>6, MoveKeeps
<1>4. CASE AlignedFail
  BY <1>4, QuietKeeps DEF AlignedFail, ReturnNull
<1> QED BY <1>1, <1>2, <1>3, <1>4

LEMMA FreeKeeps ==
  ASSUME IInv, NEW a \in live, Free(a)
  PROVE  IInv'
<1>1. TableInv'
  BY FreeKeepsTable DEF IInv
<1>2. Usable'
  BY DEF IInv, Usable, Free
<1>3. NothingPassed'
  BY DEF Free, NothingPassed
<1> QED BY <1>1, <1>2, <1>3 DEF IInv

LEMMA NextKeeps ==
  ASSUME IInv, [Next]_vars
  PROVE  IInv'
<1>1. ASSUME NEW c \in Calls, Enter(c)
      PROVE  IInv'
  BY <1>1, QuietKeeps DEF Enter
<1>2. CASE Step
  BY <1>2, AllocKeeps, AlignedKeeps DEF Step
<1>3. ASSUME NEW a \in live, Free(a)
      PROVE  IInv'
  BY <1>3, FreeKeeps
<1>4. CASE UNCHANGED vars
  BY <1>4 DEF vars, IInv, TableInv, TypeOK, NonEmptyRuns, Disjoint,
              TableMatchesLive, Usable, NothingPassed, EarlyReturn, Fits,
              RunIsFree, RunInTable, needed, alignment
<1> QED BY <1>1, <1>2, <1>3, <1>4 DEF Next

\* The inductive invariant holds in every state of alloc, alloc_aligned and free.
THEOREM Invariance == Spec => []IInv
<1>1. Init => IInv
  BY InitEstablishes
<1>2. IInv /\ [Next]_vars => IInv'
  BY NextKeeps
<1> QED BY <1>1, <1>2, PTL DEF Spec

\* The table entries, the scan position and the allocations handed out keep
\* their types.
THEOREM TypeCorrect == Spec => []TypeOK
<1>1. IInv => TypeOK
  BY DEF IInv, TableInv
<1> QED BY <1>1, Invariance, PTL

\* No block is ever given to two callers by alloc and alloc_aligned.
THEOREM NoBlockShared == Spec => []Disjoint
<1>1. IInv => Disjoint
  BY DEF IInv, TableInv
<1> QED BY <1>1, Invariance, PTL

\* The block table always describes exactly the allocations callers hold, so
\* free releases the blocks of the allocation it is given and no others.
THEOREM TableAccurate == Spec => []TableMatchesLive
<1>1. IInv => TableMatchesLive
  BY DEF IInv, TableInv
<1> QED BY <1>1, Invariance, PTL

\* Every pointer alloc or alloc_aligned returns has room for its request and
\* the alignment asked for.
THEOREM AlwaysUsable == Spec => []Usable
<1>1. IInv => Usable
  BY DEF IInv
<1> QED BY <1>1, Invariance, PTL

\* The scans of alloc and alloc_aligned pass no run that they should have taken.
THEOREM ScanMissesNothing == Spec => []NothingPassed
<1>1. IInv => NothingPassed
  BY DEF IInv
<1> QED BY <1>1, Invariance, PTL

-----------------------------------------------------------------------------
(* Refinement                                                              *)

\* The contract has the geometry of the heap.
LEMMA SameGeometry ==
  /\ Contract!Blocks = Blocks
  /\ \A size : Contract!Needed(size) = Needed(size)
  /\ \A a : Contract!Effective(a) = Effective(a)
  /\ \A a : Contract!PowerOfTwo(a) = PowerOfTwo(a)
  /\ \A b, a : Contract!AlignedAt(b, a) = AlignedAt(b, a)
  BY DEF Contract!Blocks, Blocks, Contract!Needed, Needed, Contract!Effective,
         Effective, Contract!PowerOfTwo, PowerOfTwo, Contract!AlignedAt,
         AlignedAt, Contract!BlockAddr, BlockAddr

\* Where a run lies within the table, being free in the table and overlapping
\* nothing that callers hold are the same.
LEMMA TableRunIsFreeRun ==
  ASSUME TableInv, call # NoCall, ~EarlyReturn, NEW t \in Blocks
  PROVE  /\ RunIsFree(t) => Contract!FreeRun(t, needed)
         /\ Contract!FreeRun(t, needed) => RunIsFree(t)
<1>1. needed \in Nat /\ needed >= 1 /\ t \in Nat /\ Blocks \subseteq Nat
  BY CallFacts, GeometryAssumption DEF TableInv, Blocks
<1>2. ASSUME NEW a \in live
      PROVE  a.start \in Blocks /\ a.start \in Nat /\ a.end \in Nat /\ a.start < a.end
  BY <1>1 DEF TableInv, TypeOK, NonEmptyRuns
<1>3. ASSUME RunIsFree(t), NEW a \in live
      PROVE  a.end <= t \/ t + needed <= a.start
  <2>1. ~blocks[t].isAllocated
    BY <1>1, <1>3 DEF RunIsFree, RunInTable
  <2>2. ~(a.start <= t /\ t < a.end)
    BY <2>1 DEF TableInv, TableMatchesLive
  <2>3. blocks[a.start].isAllocated
    BY <1>2 DEF TableInv, TableMatchesLive
  <2>4. ~(t <= a.start /\ a.start < t + needed)
    BY <1>2, <1>3, <2>3 DEF RunIsFree, RunInTable
  <2> QED BY <1>1, <1>2, <2>2, <2>4
<1>4. ASSUME Contract!FreeRun(t, needed), NEW k \in RunInTable(t)
      PROVE  ~blocks[k].isAllocated
  <2>1. k \in Blocks /\ k \in Nat /\ t <= k /\ k < t + needed
    BY <1>1 DEF RunInTable
  <2>2. \A a \in live : ~(a.start <= k /\ k < a.end)
    BY <1>1, <1>2, <1>4, <2>1 DEF Contract!FreeRun
  <2> QED BY <2>1, <2>2 DEF TableInv, TableMatchesLive
<1> QED BY <1>3, <1>4 DEF Contract!FreeRun, RunIsFree

\* What the contract calls a candidate is what the scan looks for.
LEMMA CandidateFits ==
  ASSUME TableInv, call # NoCall, ~EarlyReturn, NEW t \in Blocks
  PROVE  /\ Contract!Candidate(t, call) => Fits(t)
         /\ Fits(t) => Contract!Candidate(t, call)
  BY TableRunIsFreeRun, SameGeometry DEF Contract!Candidate, Fits, needed, alignment

\* Where the scan has been there is no candidate.
LEMMA NoCandidateBefore ==
  ASSUME IInv, call # NoCall, ~EarlyReturn, NEW t \in Blocks, t < i
  PROVE  ~Contract!Candidate(t, call)
<1>1. t \in Nat /\ i \in Nat
  BY GeometryAssumption DEF Blocks, IInv, TableInv, TypeOK
<1>2. ~Fits(t)
  BY <1>1 DEF IInv, NothingPassed
<1> QED BY <1>2, CandidateFits DEF IInv

\* A call that was not rejected early is one the contract does not reject.
LEMMA NotRejected ==
  ASSUME TypeOK, call # NoCall, ~EarlyReturn
  PROVE  ~Contract!Rejected(call)
<1>1. call.size # 0
  BY DEF EarlyReturn
<1>2. CASE call.op = "alloc_aligned"
  BY <1>1, <1>2, SameGeometry DEF EarlyReturn, Contract!Rejected, alignment
<1>3. CASE call.op = "alloc"
  <2>1. alignment = 1
    BY <1>3, CallFacts
  <2>2. PowerOfTwo(1)
    BY DEF PowerOfTwo
  <2> QED BY <1>1, <2>1, <2>2, SameGeometry DEF Contract!Rejected, alignment
<1> QED BY <1>2, <1>3, CallFacts

\* A free run that lies within the heap is granted, and it is the lowest one.
LEMMA TakeIsGrant ==
  ASSUME IInv, call # NoCall, ~EarlyReturn, i \in Blocks, RunIsFree(i),
         AlignedAt(i, alignment), i + needed <= Total, Take(i)
  PROVE  Contract!Grant
<1>1. ~Contract!Rejected(call)
  BY NotRejected DEF IInv, TableInv
<1>2. Contract!Candidate(i, call)
  BY CandidateFits DEF IInv, Fits
<1>3. \A t \in 0 .. i - 1 : ~Contract!Candidate(t, call)
  BY NoCandidateBefore, GeometryAssumption DEF Blocks
<1>4. live' = live \cup {Contract!Allocation(i, call)}
  BY SameGeometry DEF Take, Contract!Allocation, needed, alignment
<1> QED BY <1>1, <1>2, <1>3, <1>4, SameGeometry DEF Contract!Grant, Contract!NoCall, NoCall, Take

\* alloc takes the tail of the heap only when no run within it is large enough.
LEMMA OverrunIsGrantTail ==
  ASSUME IInv, AllocOverrun
  PROVE  Contract!GrantTail
<1>1. call # NoCall /\ ~EarlyReturn /\ call.op = "alloc"
  BY ScanningIsCall DEF AllocOverrun, Scanning
<1>2. i \in Nat /\ Total \in Nat /\ needed \in Nat
  BY <1>1, CallFacts, GeometryAssumption DEF IInv, TableInv, TypeOK
<1>3. i \in Blocks /\ RunIsFree(i) /\ i + needed > Total /\ Take(i)
  BY <1>2 DEF AllocOverrun, Blocks
<1>4. ~Contract!Rejected(call)
  BY <1>1, NotRejected DEF IInv, TableInv
<1>5. ASSUME NEW t \in Blocks
      PROVE  ~Contract!Candidate(t, call)
  <2>1. t \in Nat
    BY GeometryAssumption DEF Blocks
  <2>2. CASE t < i
    BY <1>1, <2>2, NoCandidateBefore
  <2>3. CASE i <= t
    <3>1. ~(t + needed <= Total)
      BY <1>2, <1>3, <2>1, <2>3
    <3> QED BY <3>1, SameGeometry DEF Contract!Candidate, needed
  <2> QED BY <1>2, <2>1, <2>2, <2>3
<1>6. Contract!FreeRun(i, needed)
  BY <1>1, <1>3, TableRunIsFreeRun DEF IInv
<1>7. live' = live \cup {Contract!Allocation(i, call)} /\ call' = Contract!NoCall
  BY <1>3, SameGeometry DEF Take, Contract!Allocation, needed, alignment, Contract!NoCall, NoCall
<1> QED BY <1>1, <1>3, <1>4, <1>5, <1>6, <1>7, SameGeometry
        DEF Contract!GrantTail, needed

\* A call that returns NULL is refused for a reason the contract gives.
LEMMA NullIsRefuse ==
  ASSUME IInv, Reject \/ AllocFail \/ AlignedFail
  PROVE  Contract!Refuse
<1>1. call # NoCall
  BY ScanningIsCall DEF Reject, AllocFail, AlignedFail
<1>2. call # Contract!NoCall /\ call' = Contract!NoCall /\ live' = live
  BY <1>1 DEF Reject, AllocFail, AlignedFail, ReturnNull, Contract!NoCall, NoCall
<1>3. i \in Nat /\ Total \in Nat /\ needed \in Nat
  BY <1>1, CallFacts, GeometryAssumption DEF IInv, TableInv, TypeOK
<1>4. ASSUME \A t \in Blocks : t < i \/ t + needed > Total,
             ~EarlyReturn, NEW t \in Blocks
      PROVE  ~Contract!Candidate(t, call)
  <2>1. t \in Nat
    BY GeometryAssumption DEF Blocks
  <2>2. CASE t < i
    BY <1>1, <1>4, <2>2, NoCandidateBefore
  <2>3. CASE t + needed > Total
    <3>1. ~(t + needed <= Total)
      BY <1>3, <2>1, <2>3
    <3> QED BY <3>1, SameGeometry DEF Contract!Candidate, needed
  <2> QED BY <1>4, <2>2, <2>3
<1>5. CASE Reject
  <2>1. CASE needed > Total
    <3>1. \A t \in Blocks : t \in Nat /\ ~(t + needed <= Total)
      BY <1>3, <2>1 DEF Blocks
    <3>2. \A t \in Blocks : ~Contract!Candidate(t, call)
      BY <3>1, SameGeometry DEF Contract!Candidate, needed
    <3> QED BY <1>2, <3>2, SameGeometry DEF Contract!Refuse
  <2>2. CASE call.size = 0 \/ ~PowerOfTwo(alignment)
    BY <1>2, <2>2, SameGeometry DEF Contract!Refuse, Contract!Rejected, alignment
  <2> QED BY <1>5, <2>1, <2>2 DEF Reject, EarlyReturn
<1>6. CASE AllocFail
  <2>1. ~EarlyReturn /\ \A t \in Blocks : t < i
    BY <1>3, <1>6 DEF AllocFail, Scanning, Blocks
  <2> QED BY <1>2, <1>4, <2>1, SameGeometry DEF Contract!Refuse
<1>7. CASE AlignedFail
  <2>1. ~EarlyReturn /\ \A t \in Blocks : t < i \/ t + needed > Total
    BY <1>3, <1>7 DEF AlignedFail, Scanning, Blocks
  <2> QED BY <1>2, <1>4, <2>1, SameGeometry DEF Contract!Refuse
<1> QED BY <1>5, <1>6, <1>7

\* Every step of the allocator is a step of its contract or leaves it unchanged.
LEMMA StepRefines ==
  ASSUME IInv, [Next]_vars
  PROVE  [Contract!Next]_Contract!contractVars
<1> USE DEF Contract!Next, Contract!contractVars
<1>1. ASSUME NEW c \in Calls, Enter(c)
      PROVE  \E d \in Contract!Calls : Contract!Request(d)
  BY <1>1 DEF Enter, Contract!Request, Contract!Calls, Calls, Contract!NoCall, NoCall
<1>2. CASE Reject \/ AllocFail \/ AlignedFail
  BY <1>2, NullIsRefuse
<1>3. CASE AllocOverrun
  BY <1>3, OverrunIsGrantTail
<1>4. CASE AllocTake
  <2>1. call # NoCall /\ ~EarlyReturn /\ call.op = "alloc"
    BY <1>4, ScanningIsCall DEF AllocTake, Scanning
  <2>2. i \in Nat /\ i \in Blocks /\ i + needed <= Total /\ RunIsFree(i) /\ Take(i)
    BY <1>4, GeometryAssumption DEF AllocTake, Blocks, IInv, TableInv, TypeOK
  <2>3. alignment = 1
    BY <2>1, CallFacts DEF IInv, TableInv
  <2>4. BlockAddr(i) \in Nat
    BY <2>2, GeometryAssumption DEF BlockAddr
  <2>5. AlignedAt(i, alignment)
    BY <2>3, <2>4 DEF AlignedAt
  <2> QED BY <2>1, <2>2, <2>5, TakeIsGrant
<1>5. CASE AlignedTake
  <2>1. call # NoCall /\ ~EarlyReturn
    BY <1>5, ScanningIsCall DEF AlignedTake
  <2>2. needed \in Nat /\ needed >= 1
    BY <2>1, CallFacts DEF IInv, TableInv
  <2>3. i \in Blocks
    BY <1>5, <2>2, GeometryAssumption
       DEF AlignedTake, Blocks, IInv, TableInv, TypeOK
  <2> QED BY <1>5, <2>1, <2>3, TakeIsGrant DEF AlignedTake
<1>6. CASE AllocHop \/ AllocSkip \/ AlignedJump \/ AlignedSkip
  BY <1>6 DEF AllocHop, AllocSkip, AlignedJump, AlignedSkip, Move
<1>7. ASSUME NEW a \in live, Free(a)
      PROVE  Contract!Release(a)
  BY <1>7 DEF Free, Contract!Release, Contract!NoCall, NoCall
<1>8. CASE UNCHANGED vars
  BY <1>8 DEF vars
<1> QED BY <1>1, <1>2, <1>3, <1>4, <1>5, <1>6, <1>7, <1>8
        DEF Next, Step, AllocStep, AlignedStep

\* The block allocator implements its contract: alloc and alloc_aligned take the
\* lowest run that fits, refuse only when there is none, and alloc overruns the
\* end of the heap only then.
THEOREM Refinement == Spec => ImplementsContract
<1>1. Init => Contract!Init
  BY DEF Init, Contract!Init, NoCall, Contract!NoCall
<1>2. IInv /\ [Next]_vars => [Contract!Next]_Contract!contractVars
  BY StepRefines
<1> QED BY <1>1, <1>2, Invariance, PTL DEF Spec, ImplementsContract, Contract!Spec
=============================================================================
