-------------------------- MODULE KernelInitProofs --------------------------
(***************************************************************************)
(* Proofs about mem_manager_init as part of init, for every memory map     *)
(* that firmware may deliver and every size of the heaps and the kernel.   *)
(***************************************************************************)
EXTENDS KernelInit, AlignmentProofs, TLAPS

-----------------------------------------------------------------------------
(* The inductive invariant                                                 *)

\* The addresses from b to e - 1 lie in an entry of the map of the given type.
Within(map, type, b, e) ==
  \E k \in DOMAIN map :
    map[k].type = type /\ map[k].base <= b /\ e <= EndOf(map[k])

\* The phases that have not run have left no trace.
NotYet ==
  /\ pc \in {"acpi", "root"} =>
       memory_map = firmware /\ root_heap = None /\ low_heap = None
  /\ pc = "low" => low_heap = None

Maps == E820Map(firmware) /\ E820Map(memory_map)

\* Cutting the root heap out leaves no usable memory that firmware did not list,
\* and lists all that it did.
MapFollowsFirmware ==
  /\ \A k \in DOMAIN memory_map : memory_map[k].type = Usable =>
       Within(firmware, Usable, memory_map[k].base, EndOf(memory_map[k]))
  /\ Len(firmware) < MaxEntries =>
       Listed(memory_map, {Usable, Reserved}) = Listed(firmware, {Usable, Reserved})

\* The root heap is above the kernel, in memory that was usable and is reserved.
RootPlaced ==
  root_heap # None =>
    /\ root_heap.base \in Nat /\ root_heap.end \in Nat
    /\ KernelEnd <= root_heap.base /\ root_heap.end <= FourGiB
    /\ Within(firmware, Usable, root_heap.base, root_heap.end)
    /\ Within(memory_map, Reserved, root_heap.base, root_heap.end)

\* The low heap is in memory that is still usable, and its blocks fit.
LowPlaced ==
  low_heap # None =>
    /\ low_heap.base \in Nat /\ low_heap.region_end \in Nat
    /\ low_heap.region_end < FourGiB
    /\ Within(memory_map, Usable, low_heap.base, low_heap.region_end)
    /\ low_heap.start_addr + low_heap.nblocks * BlockSize \in Nat
    /\ low_heap.start_addr + low_heap.nblocks * BlockSize <= low_heap.region_end

BootInv == NotYet /\ Maps /\ MapFollowsFirmware /\ RootPlaced /\ LowPlaced

\* The scan is at a place of the area or past it, and has passed over no sound pointer.
Short == \A a \in DOMAIN tables : Len(tables[a].bytes) < AcpiByte

ScanInv ==
  /\ area \in Seq(rsdp_t) /\ BiosTables(tables) /\ scan \in 1 .. Len(area) + 1
  /\ Short => \A k \in 1 .. scan - 1 : ~Sound(area[k])
  /\ RSD_T # Null => /\ scan <= Len(area) /\ area[scan].address = RSD_T
                     /\ Short => Sound(area[scan])
  /\ pc \notin {"acpi", "fault", "halted"} => RSD_T # Null
  /\ pc = "halted" /\ RSD_T = Null => scan > Len(area)

\* An MCFG table is one that the root table leads to.
McfgInv ==
  /\ McfgTable(mcfg) /\ (mcfg.present => Describes(RSD_T))
  /\ pc = "ready" => mcfg.present

\* The bump heap is the gap that the walk found, or there was none to find.
HoleInv ==
  /\ pc \in {"acpi", "root", "low", "hole"} => bump_heap = None
  /\ pc \in {"running", "ready"} => bump_heap # None
  /\ bump_heap # None =>
       /\ bump_heap = [start |-> LargestGap.base, size |-> LargestGap.size]
       /\ pc \in {"running", "ready", "halted"}
  /\ pc = "halted" /\ low_heap # None /\ bump_heap = None => LargestGap.size = 0

-----------------------------------------------------------------------------
(* Addresses                                                               *)

LEMMA Sizes ==
  /\ FourGiB \in Nat \ {0} /\ Page \in Nat \ {0} /\ BlockSize \in Nat \ {0}
  /\ EntrySize \in Nat \ {0} /\ HeaderSize \in Nat \ {0}
  /\ LowSize \in Nat \ {0}
  /\ RootSize \in Nat \ {0} /\ KernelStart \in Nat /\ KernelEnd \in Nat
  /\ MaxEntries \in Nat
  /\ LowSize >= HeaderSize + (Page - 1) + BlockSize + EntrySize
BY BootAssumption

\* The entries of a map, and the addresses in them.
LEMMA EntryIs ==
  ASSUME NEW map, E820Map(map), NEW k \in DOMAIN map
  PROVE  /\ map[k] \in e820_entry /\ map[k].base \in Nat
    /\ map[k].length \in Nat
         /\ map[k].type \in {Usable, Reserved}
         /\ EndOf(map[k]) \in Nat /\ map[k].base <= EndOf(map[k])
         /\ k \in Nat
<1>1. map[k] \in e820_entry /\ k \in Nat
  BY DEF E820Map
<1> QED BY <1>1 DEF e820_entry, EndOf

\* Two entries that share an address are one.
LEMMA SameEntry ==
  ASSUME NEW map, E820Map(map), NEW j \in DOMAIN map, NEW k \in DOMAIN map,
         NEW x \in Nat, map[j].base <= x, x < EndOf(map[j]),
         map[k].base <= x, x < EndOf(map[k])
  PROVE  j = k
<1>1. /\ map[j].base \in Nat /\ EndOf(map[j]) \in Nat
      /\ map[k].base \in Nat /\ EndOf(map[k]) \in Nat
  BY EntryIs
<1>2. /\ x \in Span(map[j].base, EndOf(map[j]))
      /\ x \in Span(map[k].base, EndOf(map[k]))
  BY <1>1 DEF Span
<1> QED BY <1>2 DEF E820Map

\* Rounding up to a page moves an address by less than a page.
LEMMA PageUp ==
  ASSUME NEW x \in Nat
  PROVE  /\ RoundUp(x, Page) \in Nat
         /\ x <= RoundUp(x, Page) /\ RoundUp(x, Page) <= x + (Page - 1)
<1>1. RoundUp(x, Page) \in Nat /\ x <= RoundUp(x, Page)
        /\ RoundUp(x, Page) < x + Page
  BY Sizes, RoundUpFirst
<1> QED BY <1>1, Sizes

\* Where the root heap goes in an entry that is large enough.
LEMMA RootGeometry ==
  ASSUME NEW e \in e820_entry, RootFits(e)
  PROVE  LET start == RootStart(e)
             end   == RootData(start) + RootSize
         IN /\ start \in Nat /\ end \in Nat /\ e.base <= start
           /\ KernelEnd <= start
            /\ start < end /\ end <= EndOf(e) /\ end <= FourGiB
<1> DEFINE start == RootStart(e)
           data  == RootData(start)
<1>1. e.base \in Nat /\ EndOf(e) \in Nat /\ KernelEnd \in Nat /\ FourGiB \in Nat
  BY Sizes DEF e820_entry, EndOf
<1>2. /\ Later(e.base, KernelEnd) \in Nat
      /\ e.base <= Later(e.base, KernelEnd)
      /\ KernelEnd <= Later(e.base, KernelEnd)
  BY <1>1 DEF Later
<1>3. start \in Nat /\ e.base <= start /\ KernelEnd <= start
  <2>1. RootStart(e) = RoundUp(Later(e.base, KernelEnd), Page)
    BY DEF RootStart
  <2> HIDE DEF start
  <2>2. start \in Nat /\ Later(e.base, KernelEnd) <= start
    BY <1>2, <2>1, PageUp DEF start
  <2> QED BY <1>1, <1>2, <2>2
<1> HIDE DEF start
<1>4. TableBytes \in Nat /\ HeaderSize \in Nat \ {0} /\ RootSize \in Nat \ {0}
  <2>1. RootSize \div BlockSize \in Nat
    BY Sizes, DivBracket
  <2> QED BY <2>1, Sizes DEF TableBytes
<1>5. /\ data \in Nat /\ start + HeaderSize + TableBytes <= data
      /\ data <= start + HeaderSize + TableBytes + (Page - 1)
  <2>1. start + HeaderSize + TableBytes \in Nat
    BY <1>3, <1>4
  <2> QED BY <2>1, PageUp DEF RootData
<1> HIDE DEF data
<1>6. Earlier(EndOf(e), FourGiB) - start >= RootTotal
  BY DEF RootFits, start
<1>7. RootTotal = HeaderSize + TableBytes + (Page - 1) + RootSize
  BY DEF RootTotal
<1>8. /\ Earlier(EndOf(e), FourGiB) \in Nat
      /\ Earlier(EndOf(e), FourGiB) <= EndOf(e)
      /\ Earlier(EndOf(e), FourGiB) <= FourGiB
  BY <1>1 DEF Earlier
<1>9. /\ data + RootSize \in Nat /\ start < data + RootSize
      /\ data + RootSize <= Earlier(EndOf(e), FourGiB)
  BY <1>3, <1>4, <1>5, <1>6, <1>7, <1>8, Sizes
<1>10. data + RootSize <= EndOf(e) /\ data + RootSize <= FourGiB
  BY <1>1, <1>8, <1>9
<1> QED BY <1>3, <1>9, <1>10 DEF start, data

\* Where the low heap goes in an entry that is large enough, and that its blocks fit.
LEMMA LowGeometry ==
  ASSUME NEW e \in e820_entry, RegionFits(e)
  PROVE  LET base == RegionStart(e)
             last == RoundUp(base + HeaderSize + LowBlocks * EntrySize, Page)
                       + LowBlocks * BlockSize
         IN /\ base \in Nat /\ e.base <= base /\ base + LowSize \in Nat
            /\ base + LowSize <= EndOf(e) /\ base + LowSize < FourGiB
            /\ last \in Nat /\ last <= base + LowSize
<1> DEFINE base == RegionStart(e)
           room == LowSize - HeaderSize - (Page - 1)
           n    == LowBlocks
           up   == RoundUp(base + HeaderSize + n * EntrySize, Page)
<1>1. e.base \in Nat /\ EndOf(e) \in Nat /\ FourGiB \in Nat \ {0}
  BY Sizes DEF e820_entry, EndOf
<1>2. base \in Nat /\ e.base <= base
  BY <1>1, PageUp DEF RegionStart
<1>3. RegionEnd(e) - base >= LowSize
  BY DEF RegionFits
<1>4. RegionEnd(e) <= EndOf(e) /\ RegionEnd(e) <= FourGiB - 1
        /\ RegionEnd(e) \in Nat
  <2>1. FourGiB - 1 \in Nat
    BY <1>1
  <2> QED BY <1>1, <2>1 DEF RegionEnd, Earlier
<1> HIDE DEF base
<1>5. /\ base + LowSize \in Nat /\ base + LowSize <= EndOf(e)
      /\ base + LowSize < FourGiB
  BY <1>1, <1>2, <1>3, <1>4, Sizes
<1>6. room \in Nat /\ BlockSize + EntrySize \in Nat \ {0}
  BY Sizes
<1>7. n \in Nat /\ n * (BlockSize + EntrySize) <= room
  <2>1. n = room \div (BlockSize + EntrySize)
    BY DEF LowBlocks
  <2> HIDE DEF room, n
  <2> QED BY <1>6, <2>1, DivBracket
<1> HIDE DEF n
<1>8. n * (BlockSize + EntrySize) = n * EntrySize + n * BlockSize
      /\ n * EntrySize \in Nat /\ n * BlockSize \in Nat
  BY <1>7, Sizes
<1>9. base + HeaderSize + n * EntrySize \in Nat
  BY <1>2, <1>8, Sizes
<1>10. up \in Nat /\ up <= base + HeaderSize + n * EntrySize + (Page - 1)
  BY <1>9, PageUp
<1> HIDE DEF up
<1>11. up + n * BlockSize \in Nat /\ up + n * BlockSize <= base + LowSize
  <2> DEFINE p == n * EntrySize
             q == n * BlockSize
  <2>1. p \in Nat /\ q \in Nat /\ p + q <= LowSize - HeaderSize - (Page - 1)
    BY <1>7, <1>8
  <2>2. up <= base + HeaderSize + p + (Page - 1)
    BY <1>10
  <2> HIDE DEF p, q
  <2>3. up + q \in Nat /\ up + q <= base + LowSize
    BY <1>2, <1>10, <2>1, <2>2, Sizes
  <2> QED BY <2>3 DEF q
<1> QED BY <1>2, <1>5, <1>11 DEF base, up, n

-----------------------------------------------------------------------------
(* Cutting the root heap out of the map                                    *)

\* What cutting base .. end - 1 out of memory_map makes of it.
IsCut(new, base, end) ==
  /\ E820Map(new)
  /\ \A j \in DOMAIN new : new[j].type = Usable =>
       Within(memory_map, Usable, new[j].base, EndOf(new[j]))
  /\ Within(new, Reserved, base, end)
  /\ Len(memory_map) < MaxEntries =>
       Listed(new, {Usable, Reserved}) = Listed(memory_map, {Usable, Reserved})

\* The addresses a map lists, one by one.
LEMMA ListedIs ==
  ASSUME NEW map, E820Map(map)
  PROVE  \A x : x \in Listed(map, {Usable, Reserved}) <=>
           \E k \in DOMAIN map : x \in Span(map[k].base, EndOf(map[k]))
<1>1. {j \in DOMAIN map : map[j].type \in {Usable, Reserved}} = DOMAIN map
  BY EntryIs
<1> QED BY <1>1 DEF Listed

\* The entry that is cut, field by field.
LEMMA CutEntry ==
  ASSUME NEW e \in e820_entry, NEW l
  PROVE  [[e EXCEPT !.type = Reserved] EXCEPT !.length = l]
           = [base |-> e.base, length |-> l, type |-> Reserved]
<1> DEFINE f == [e EXCEPT !.type = Reserved]
<1>1. e = [base |-> e.base, length |-> e.length, type |-> e.type]
  BY DEF e820_entry
<1>2. f = [base |-> e.base, length |-> e.length, type |-> Reserved]
  BY <1>1
<1> HIDE DEF f
<1>3. [f EXCEPT !.length = l] = [base |-> e.base, length |-> l, type |-> Reserved]
  BY <1>2
<1> QED BY <1>3 DEF f

LEMMA CutMap ==
  ASSUME E820Map(memory_map), NEW k \in DOMAIN memory_map,
         memory_map[k].type = Usable, NEW heap, heap.base \in Nat, heap.end \in Nat,
         memory_map[k].base <= heap.base, heap.base < heap.end,
         heap.end <= EndOf(memory_map[k])
  PROVE  IsCut(ReserveRoot(k, heap), heap.base, heap.end)
<1> DEFINE chosen == memory_map[k]
           n      == Len(memory_map)
           cut    == [memory_map EXCEPT ![k].type = Reserved,
                                        ![k].length = heap.end - chosen.base]
           rest   == [base |-> RestBase(heap), length |-> EndOf(chosen) - RestBase(heap),
                      type |-> Usable]
           new    == ReserveRoot(k, heap)
<1>1. /\ n \in Nat /\ DOMAIN memory_map = 1 .. n /\ k \in 1 .. n
      /\ memory_map \in Seq(e820_entry)
  BY DEF E820Map
<1>2. /\ chosen \in e820_entry /\ chosen.base \in Nat /\ chosen.length \in Nat
      /\ EndOf(chosen) \in Nat
  BY EntryIs
<1>3. heap.end - chosen.base \in Nat /\ EndOf(chosen) - heap.end \in Nat
  BY <1>2
<1>4. \A j \in 1 .. n : memory_map[j] \in e820_entry
  BY <1>1
\* The entry that is cut, the others, and the new one.
<1>5. /\ cut \in Seq(e820_entry) /\ Len(cut) = n /\ DOMAIN cut = 1 .. n
      /\ cut[k] = [base |-> chosen.base, length |-> heap.end - chosen.base,
                   type |-> Reserved]
      /\ \A j \in 1 .. n : j # k => cut[j] = memory_map[j]
  <2> DEFINE piece == [base |-> chosen.base, length |-> heap.end - chosen.base,
                       type |-> Reserved]
  <2>1. piece \in e820_entry
    BY <1>2, <1>3 DEF e820_entry
  <2>2. [[chosen EXCEPT !.type = Reserved] EXCEPT !.length = heap.end - chosen.base]
          = piece
    <3> HIDE DEF chosen
    <3> QED BY <1>2, CutEntry
  <2>3. cut = [memory_map EXCEPT ![k] = piece]
    BY <1>1, <2>2
  <2> HIDE DEF piece, cut
  <2>4. cut \in Seq(e820_entry) /\ Len(cut) = n /\ DOMAIN cut = 1 .. n
    BY <1>1, <2>1, <2>3
  <2>5. cut[k] = piece /\ \A j \in 1 .. n : j # k => cut[j] = memory_map[j]
    BY <1>1, <2>3
  <2> QED BY <2>4, <2>5 DEF piece
<1>6. /\ rest \in e820_entry /\ rest.base = heap.end /\ rest.type = Usable
      /\ EndOf(rest) = EndOf(chosen)
  <2>1. heap.end + (EndOf(chosen) - heap.end) = EndOf(chosen)
    BY <1>2
  <2> QED BY <1>3, <2>1 DEF e820_entry, RestBase, EndOf
<1>7. /\ EndOf(cut[k]) = heap.end /\ cut[k].base = chosen.base
      /\ cut[k].type = Reserved
  <2>1. chosen.base + (heap.end - chosen.base) = heap.end
    BY <1>2
  <2> QED BY <1>5, <2>1 DEF EndOf
<1>8. new = IF RestListed(chosen, heap) THEN Append(cut, rest) ELSE cut
  BY DEF ReserveRoot
<1> HIDE DEF cut, rest, new, n
<1>9. /\ new \in Seq(e820_entry)
      /\ \A j \in 1 .. n : j \in DOMAIN new /\ new[j] = cut[j]
      /\ DOMAIN new \subseteq 1 .. n + 1
      /\ n + 1 \in DOMAIN new => RestListed(chosen, heap) /\ new[n + 1] = rest
      /\ RestListed(chosen, heap) => n + 1 \in DOMAIN new
      /\ Len(new) <= MaxEntries
  <2>1. CASE RestListed(chosen, heap)
    <3>1. new = Append(cut, rest)
      BY <1>8, <2>1
    <3> HIDE DEF chosen
    <3>2. n < MaxEntries
      BY <2>1 DEF RestListed, n
    <3>3. /\ new \in Seq(e820_entry) /\ Len(new) = n + 1
          /\ DOMAIN new = 1 .. n + 1
          /\ \A j \in 1 .. n : new[j] = cut[j]
          /\ new[n + 1] = rest
      BY <1>1, <1>5, <1>6, <3>1
    <3>4. n + 1 <= MaxEntries /\ n + 1 \in 1 .. n + 1
            /\ 1 .. n \subseteq 1 .. n + 1
      BY <1>1, <3>2, Sizes
    <3> QED BY <2>1, <3>3, <3>4
  <2>2. CASE ~RestListed(chosen, heap)
    <3>1. new = cut
      BY <1>8, <2>2
    <3> HIDE DEF chosen
    <3>2. n + 1 \notin 1 .. n
      BY <1>1
    <3>3. Len(new) <= MaxEntries
      BY <1>5, <3>1 DEF E820Map, n
    <3> QED BY <1>1, <1>5, <2>2, <3>1, <3>2, <3>3
  <2> QED BY <2>1, <2>2
\* Every entry of the new map lies within one of the old.
<1> DEFINE from(j) == IF j = n + 1 THEN k ELSE j
<1>10. \A j \in DOMAIN new :
         /\ from(j) \in 1 .. n /\ new[j].base \in Nat /\ EndOf(new[j]) \in Nat
         /\ memory_map[from(j)].base <= new[j].base
         /\ EndOf(new[j]) <= EndOf(memory_map[from(j)])
         /\ new[j].type = Usable => memory_map[from(j)].type = Usable
  <2> TAKE j \in DOMAIN new
  <2>1. j \in 1 .. n \/ j = n + 1
    BY <1>1, <1>9
  <2>2. CASE j = n + 1
    <3>1. new[j] = rest /\ from(j) = k
      BY <1>9, <2>2
    <3> HIDE DEF from
    <3> QED BY <1>1, <1>2, <1>6, <3>1
  <2>3. CASE j = k
    <3>1. new[j] = cut[k] /\ from(j) = k
      BY <1>1, <1>9, <2>3
    <3> HIDE DEF from
    <3> QED BY <1>1, <1>2, <1>7, <3>1
  <2>4. CASE j \in 1 .. n /\ j # k
    <3>1. new[j] = memory_map[j] /\ from(j) = j
      BY <1>1, <1>5, <1>9, <2>4
    <3>2. /\ memory_map[j].base \in Nat /\ EndOf(memory_map[j]) \in Nat
      BY <1>1, <2>4, EntryIs
    <3> HIDE DEF from
    <3> QED BY <2>4, <3>1, <3>2
  <2> HIDE DEF from
  <2> QED BY <2>1, <2>2, <2>3, <2>4
<1>11. E820Map(new)
  <2> SUFFICES ASSUME NEW i \in DOMAIN new, NEW j \in DOMAIN new, i # j,
                      NEW x \in Span(new[i].base, EndOf(new[i])),
                      x \in Span(new[j].base, EndOf(new[j]))
               PROVE  FALSE
    BY <1>9 DEF E820Map
  <2>1. /\ x \in Nat /\ new[i].base <= x /\ x < EndOf(new[i])
        /\ new[j].base <= x /\ x < EndOf(new[j])
    BY <1>10 DEF Span
  <2>2. from(i) \in DOMAIN memory_map /\ from(j) \in DOMAIN memory_map
    BY <1>1, <1>10
  <2>3. /\ memory_map[from(i)].base \in Nat
        /\ EndOf(memory_map[from(i)]) \in Nat
        /\ memory_map[from(j)].base \in Nat
        /\ EndOf(memory_map[from(j)]) \in Nat
    BY <2>2, EntryIs
  <2>4. from(i) = from(j)
    <3>1. /\ memory_map[from(i)].base <= x /\ x < EndOf(memory_map[from(i)])
          /\ memory_map[from(j)].base <= x /\ x < EndOf(memory_map[from(j)])
      BY <1>10, <2>1, <2>3
    <3> HIDE DEF from
    <3> QED BY <2>1, <2>2, <3>1, SameEntry
  <2>5. (i = n + 1 /\ j = k) \/ (j = n + 1 /\ i = k)
    BY <1>1, <1>9, <2>4
  <2>6. EndOf(new[k]) = heap.end /\ new[n + 1].base = heap.end
    BY <1>1, <1>5, <1>6, <1>7, <1>9, <2>5
  <2> HIDE DEF from
  <2>7. CASE i = n + 1 /\ j = k
    BY <2>1, <2>6, <2>7
  <2>8. CASE j = n + 1 /\ i = k
    BY <2>1, <2>6, <2>8
  <2> QED BY <2>5, <2>7, <2>8
<1>12. \A j \in DOMAIN new : new[j].type = Usable =>
         Within(memory_map, Usable, new[j].base, EndOf(new[j]))
  <2> HIDE DEF from
  <2> QED BY <1>1, <1>10 DEF Within
<1>13. Within(new, Reserved, heap.base, heap.end)
  <2>1. k \in DOMAIN new /\ new[k] = cut[k]
    BY <1>1, <1>9
  <2> QED BY <1>2, <1>7, <2>1 DEF Within
<1>14. ASSUME n < MaxEntries
       PROVE  Listed(new, {Usable, Reserved}) = Listed(memory_map, {Usable, Reserved})
  <2>1. ASSUME NEW x, NEW j \in DOMAIN new, x \in Span(new[j].base, EndOf(new[j]))
        PROVE  \E i \in DOMAIN memory_map :
                 x \in Span(memory_map[i].base, EndOf(memory_map[i]))
    <3>1. from(j) \in DOMAIN memory_map
      BY <1>1, <1>10
    <3>2. memory_map[from(j)].base \in Nat /\ EndOf(memory_map[from(j)]) \in Nat
      BY <3>1, EntryIs
    <3>3. x \in Span(memory_map[from(j)].base, EndOf(memory_map[from(j)]))
      <4> HIDE DEF from
      <4> QED BY <1>10, <2>1, <3>2 DEF Span
    <3> QED BY <3>1, <3>3
  <2>2. ASSUME NEW x, NEW i \in DOMAIN memory_map,
               x \in Span(memory_map[i].base, EndOf(memory_map[i]))
        PROVE  \E j \in DOMAIN new : x \in Span(new[j].base, EndOf(new[j]))
    <3>1. CASE i # k
      <4>1. i \in DOMAIN new /\ new[i] = memory_map[i]
        BY <1>1, <1>5, <1>9, <3>1
      <4> QED BY <2>2, <4>1
    <3>2. CASE i = k
      <4>1. /\ x \in Nat /\ chosen.base <= x /\ x < EndOf(chosen)
        BY <1>2, <2>2, <3>2 DEF Span
      <4>2. k \in DOMAIN new /\ new[k] = cut[k]
        BY <1>1, <1>9
      <4>3. CASE x < heap.end
        <5>1. x \in Span(new[k].base, EndOf(new[k]))
          BY <1>2, <1>7, <4>1, <4>2, <4>3 DEF Span
        <5> QED BY <4>2, <5>1
      <4>4. CASE ~(x < heap.end)
        <5>1. EndOf(chosen) > heap.end
          BY <1>2, <4>1, <4>4
        <5>2. RestListed(chosen, heap)
          BY <1>14, <5>1 DEF RestListed, n
        <5>3. n + 1 \in DOMAIN new /\ new[n + 1] = rest
          BY <1>9, <5>2
        <5>4. x \in Span(rest.base, EndOf(rest))
          BY <1>2, <1>6, <4>1, <4>4 DEF Span
        <5> QED BY <5>3, <5>4
      <4> QED BY <4>3, <4>4
    <3> QED BY <3>1, <3>2
  <2>3. \A x : x \in Listed(new, {Usable, Reserved})
               <=> x \in Listed(memory_map, {Usable, Reserved})
    <3> HIDE DEF from
    <3> QED BY <1>11, <2>1, <2>2, ListedIs
  <2> QED BY <2>3
<1> HIDE DEF from
<1> QED BY <1>11, <1>12, <1>13, <1>14 DEF IsCut, n, new

-----------------------------------------------------------------------------
(* The ranges that nothing may be placed in                                *)

\* A range as range_add keeps it, and the addresses that a list of them covers.
Claim == {r \in range_t : r.base < r.end /\ r.end <= FourGiB}
Covered(rs, x) == \E j \in DOMAIN rs : rs[j].base <= x /\ x < rs[j].end

\* A product of numbers is one.
LEMMA ProductNat == ASSUME NEW a \in Nat, NEW b \in Nat PROVE a * b \in Nat
OBVIOUS

\* The greatest of a bounded set of numbers.
LEMMA MaxIs ==
  ASSUME NEW n \in Nat, NEW S, S \subseteq 0 .. n, S # {}
  PROVE  Max(S) \in S /\ \A y \in S : Max(S) >= y
<1> DEFINE T == {n - x : x \in S}
<1>1. T \subseteq Nat /\ T # {}
  <2>1. \A x \in S : n - x \in Nat
    OBVIOUS
  <2> QED BY <2>1
<1>2. PICK t \in T : \A y \in T : t <= y
  BY <1>1, LeastNat
<1>3. PICK x \in S : t = n - x
  OBVIOUS
<1>4. \A y \in S : x >= y
  <2> TAKE y \in S
  <2>1. n - y \in T
    OBVIOUS
  <2>2. n - x <= n - y
    BY <1>2, <1>3, <2>1
  <2> QED BY <2>2
<1> QED BY <1>3, <1>4 DEF Max

\* What is passed to range_add: the map and the fixed devices come first.
LEMMA AddedIs ==
  ASSUME E820Map(memory_map), McfgTable(mcfg)
  PROVE  /\ Added \in Seq(range_t) /\ Len(Added) \in Nat
         /\ \A k \in DOMAIN memory_map :
              /\ k \in DOMAIN Added /\ k <= MaxEntries + 8
              /\ Added[k] = [base |-> memory_map[k].base, end |-> EndOf(memory_map[k])]
         /\ \A d \in DOMAIN FixedDevices :
              \E k \in DOMAIN Added : k <= MaxEntries + 8
                /\ Added[k] = FixedDevices[d]
<1> DEFINE listed == [k \in DOMAIN memory_map |->
                        [base |-> memory_map[k].base, end |-> EndOf(memory_map[k])]]
           ecam   == [i \in 1 .. Len(McfgWords) \div 2 |-> EcamRange(i)]
<1>1. /\ memory_map \in Seq(e820_entry) /\ Len(memory_map) \in Nat
      /\ DOMAIN memory_map = 1 .. Len(memory_map)
      /\ Len(memory_map) <= MaxEntries
  BY DEF E820Map
<1>2. \A k \in DOMAIN memory_map : listed[k] \in range_t
  <2> TAKE k \in DOMAIN memory_map
  <2>1. memory_map[k].base \in Nat /\ EndOf(memory_map[k]) \in Nat
    BY EntryIs
  <2> QED BY <2>1 DEF range_t
<1>3. listed \in Seq(range_t) /\ Len(listed) = Len(memory_map)
  <2>1. listed \in [1 .. Len(memory_map) -> range_t]
    BY <1>1, <1>2
  <2> HIDE DEF listed
  <2> QED BY <1>1, <2>1
<1>4. McfgWords \in Seq(Nat)
  <2>1. CASE ~mcfg.present
    BY <2>1 DEF McfgTable, McfgWords
  <2>2. CASE mcfg.present
    <3> DEFINE m == Len(mcfg.entries)
               word(i) == IF i = 1 THEN 0
                          ELSE IF i % 2 = 0 THEN mcfg.entries[i \div 2].base
                          ELSE mcfg.entries[i \div 2].start_bus * StartBusUnit
                                 + mcfg.entries[i \div 2].end_bus * EndBusUnit
    <3>1. mcfg.entries \in Seq(mcfg_entry_t) /\ m \in Nat
      BY <2>2 DEF McfgTable
    <3>2. ASSUME NEW i \in 1 .. 2 * m + 1 PROVE word(i) \in Nat
      <4>1. CASE i = 1
        BY <4>1
      <4>2. CASE i # 1
        <5>1. i \div 2 \in 1 .. m
          <6> HIDE DEF m
          <6> QED BY <3>1, <4>2
        <5>2. mcfg.entries[i \div 2] \in mcfg_entry_t
          BY <3>1, <5>1
        <5> DEFINE e == mcfg.entries[i \div 2]
        <5>3. e.base \in Nat /\ e.start_bus \in Nat /\ e.end_bus \in Nat
          BY <5>2 DEF mcfg_entry_t
        <5>4. e.start_bus * StartBusUnit \in Nat
                /\ e.end_bus * EndBusUnit \in Nat
          <6>1. StartBusUnit \in Nat /\ EndBusUnit \in Nat
            BY BootAssumption, ProductNat
          <6> HIDE DEF e
          <6> QED BY <5>3, <6>1, ProductNat
        <5> DEFINE a == e.start_bus * StartBusUnit
                   b == e.end_bus * EndBusUnit
        <5>5. word(i) = IF i % 2 = 0 THEN e.base ELSE a + b
          BY <4>2
        <5> HIDE DEF a, b, e, word
        <5>6. a \in Nat /\ b \in Nat
          BY <5>4 DEF a, b
        <5> QED BY <5>3, <5>5, <5>6
      <4> QED BY <4>1, <4>2
    <3>3. McfgWords = [i \in 1 .. 2 * m + 1 |-> word(i)]
      BY <2>2 DEF McfgWords
    <3> HIDE DEF word, m
    <3> QED BY <3>1, <3>2, <3>3
  <2> QED BY <2>1, <2>2
<1> DEFINE n == Len(McfgWords) \div 2
<1>5. n \in Nat /\ n * 2 <= Len(McfgWords) /\ Len(McfgWords) \in Nat
  <2>1. Len(McfgWords) \in Nat
    BY <1>4
  <2> QED BY <2>1, DivBracket
<1> HIDE DEF n
<1>6. ASSUME NEW i \in 1 .. n PROVE EcamRange(i) \in range_t
  <2> DEFINE base  == McfgWords[2 * i - 1]
             start == (McfgWords[2 * i] \div StartBusUnit) % Buses
             end   == (McfgWords[2 * i] \div EndBusUnit) % Buses
  <2>1. 2 * i - 1 \in 1 .. Len(McfgWords) /\ 2 * i \in 1 .. Len(McfgWords)
    BY <1>5
  <2>2. base \in Nat /\ McfgWords[2 * i] \in Nat
    BY <1>4, <2>1
  <2>3. /\ StartBusUnit \in Nat \ {0} /\ EndBusUnit \in Nat \ {0}
        /\ Buses \in Nat \ {0}
        /\ BusSpan \in Nat
    <3>1. /\ StartBusUnit \in Nat \ {0} /\ Buses \in Nat \ {0}
          /\ BusSpan \in Nat
          /\ EndBusUnit = StartBusUnit * Buses
      BY BootAssumption
    <3>2. StartBusUnit * Buses \in Nat \ {0}
      BY <3>1
    <3> QED BY <3>1, <3>2
  <2>4. start \in Nat /\ end \in Nat
    <3>1. /\ McfgWords[2 * i] \div StartBusUnit \in Nat
          /\ McfgWords[2 * i] \div EndBusUnit \in Nat
      BY <2>2, <2>3, DivBracket
    <3> QED BY <2>3, <3>1
  <2>5. EcamRange(i) = [base |-> base + start * BusSpan,
                        end |-> base + (end + 1) * BusSpan]
    BY DEF EcamRange
  <2> HIDE DEF base, start, end
  <2>6. start * BusSpan \in Nat /\ (end + 1) * BusSpan \in Nat
    <3>1. end + 1 \in Nat
      BY <2>4
    <3> QED BY <2>3, <2>4, <3>1, ProductNat
  <2> QED BY <2>2, <2>5, <2>6 DEF range_t
<1>7. ecam \in Seq(range_t)
  <2>1. ecam = [i \in 1 .. n |-> EcamRange(i)]
    BY DEF n
  <2> HIDE DEF ecam
  <2> QED BY <1>5, <1>6, <2>1
<1>8. /\ FixedDevices \in Seq(range_t) /\ Len(FixedDevices) \in Nat
      /\ Len(FixedDevices) <= 8
      /\ DOMAIN FixedDevices = 1 .. Len(FixedDevices)
  BY BootAssumption
<1>9. Added = listed \o FixedDevices \o ecam
  BY DEF Added
<1> DEFINE front == listed \o FixedDevices
<1>10. \A k \in DOMAIN memory_map :
         listed[k] = [base |-> memory_map[k].base, end |-> EndOf(memory_map[k])]
  OBVIOUS
<1> HIDE DEF listed, ecam
<1>11. /\ front \in Seq(range_t)
       /\ Len(front) = Len(memory_map) + Len(FixedDevices)
       /\ \A k \in 1 .. Len(memory_map) : front[k] = listed[k]
       /\ \A d \in 1 .. Len(FixedDevices) :
            front[Len(memory_map) + d] = FixedDevices[d]
  BY <1>1, <1>3, <1>8
<1> HIDE DEF front
<1>12. /\ Added \in Seq(range_t) /\ Len(Added) = Len(front) + Len(ecam)
       /\ \A k \in 1 .. Len(front) : Added[k] = front[k]
  <2>1. Added = front \o ecam
    BY <1>9 DEF front
  <2> QED BY <1>7, <1>11, <2>1
<1>13. /\ Len(ecam) \in Nat /\ Len(Added) \in Nat
       /\ DOMAIN Added = 1 .. Len(Added)
  BY <1>7, <1>12
<1>14. ASSUME NEW k \in DOMAIN memory_map
       PROVE  /\ k \in DOMAIN Added /\ k <= MaxEntries + 8
              /\ Added[k] = [base |-> memory_map[k].base, end |-> EndOf(memory_map[k])]
  <2>1. k \in 1 .. Len(memory_map) /\ k \in 1 .. Len(front)
    BY <1>1, <1>8, <1>11
  <2>2. Added[k] = listed[k]
    BY <1>11, <1>12, <2>1
  <2>3. k \in DOMAIN Added /\ k <= MaxEntries + 8
    BY <1>1, <1>11, <1>12, <1>13, <2>1, Sizes
  <2> QED BY <1>10, <2>2, <2>3
<1>15. ASSUME NEW d \in DOMAIN FixedDevices
       PROVE  \E k \in DOMAIN Added : k <= MaxEntries + 8
         /\ Added[k] = FixedDevices[d]
  <2> DEFINE k == Len(memory_map) + d
  <2>1. d \in 1 .. Len(FixedDevices) /\ k \in 1 .. Len(front)
          /\ k <= MaxEntries + 8
    BY <1>1, <1>8, <1>11, Sizes
  <2>2. k \in DOMAIN Added /\ Added[k] = FixedDevices[d]
    BY <1>11, <1>12, <1>13, <2>1
  <2> QED BY <2>1, <2>2
<1> QED BY <1>12, <1>13, <1>14, <1>15

\* The calls of range_add, one by one.
LEMMA RangesAre ==
  ASSUME Len(Added) \in Nat
  PROVE  ranges = [n \in 0 .. Len(Added) |->
                  IF n = 0 THEN <<>> ELSE RangeAdd(ranges[n - 1], Added[n])]
<1> DEFINE Body(f, m) == [n \in 0 .. m |->
                            IF n = 0 THEN <<>> ELSE RangeAdd(f[n - 1], Added[n])]
           T == {m \in 0 .. Len(Added) : ~ \E f : f = Body(f, m)}
<1>1. ASSUME T # {} PROVE FALSE
  <2>1. PICK m \in T : \A y \in T : m <= y
    <3>1. T \subseteq Nat
      OBVIOUS
    <3> HIDE DEF T
    <3> QED BY <1>1, <3>1, LeastNat
  <2>2. m \in 0 .. Len(Added) /\ ~ \E f : f = Body(f, m)
    OBVIOUS
  <2>3. CASE m = 0
    <3> DEFINE f == [n \in 0 .. 0 |-> <<>>]
    <3>1. f = Body(f, 0)
      OBVIOUS
    <3> QED BY <2>2, <2>3, <3>1
  <2>4. CASE m # 0
    <3>1. m - 1 \in 0 .. Len(Added) /\ m - 1 \notin T
      BY <2>1, <2>2, <2>4
    <3>2. PICK f : f = Body(f, m - 1)
      BY <3>1
    <3> DEFINE g == [n \in 0 .. m |->
                      IF n = m THEN RangeAdd(f[m - 1], Added[m]) ELSE f[n]]
    <3>3. ASSUME NEW n \in 0 .. m
          PROVE  g[n] = IF n = 0 THEN <<>> ELSE RangeAdd(g[n - 1], Added[n])
      <4>1. CASE n = m
        BY <2>2, <2>4, <4>1
      <4>2. CASE n # m
        <5>1. n \in 0 .. m - 1 /\ g[n] = f[n] /\ (n # 0 => g[n - 1] = f[n - 1])
          BY <2>2, <4>2
        <5>2. f[n] = IF n = 0 THEN <<>> ELSE RangeAdd(f[n - 1], Added[n])
          BY <3>2, <5>1
        <5> HIDE DEF g
        <5> QED BY <5>1, <5>2
      <4> QED BY <4>1, <4>2
    <3>4. g = Body(g, m)
      BY <3>3
    <3> QED BY <2>2, <3>4
  <2> QED BY <2>3, <2>4
<1>2. Len(Added) \notin T
  BY <1>1
<1>3. \E f : f = Body(f, Len(Added))
  BY <1>2
<1> HIDE DEF T
<1> QED BY <1>3 DEF ranges

\* The rounds of the insertion sort, one by one.
LEMMA SortedIs ==
  ASSUME Len(Claimed) \in Nat
  PROVE  sorted = [n \in 0 .. Len(Claimed) |->
                  IF n = 0 THEN <<>> ELSE Inserted(sorted[n - 1], Claimed[n])]
<1> DEFINE Body(f, m) == [n \in 0 .. m |->
                            IF n = 0 THEN <<>> ELSE Inserted(f[n - 1], Claimed[n])]
           T == {m \in 0 .. Len(Claimed) : ~ \E f : f = Body(f, m)}
<1>1. ASSUME T # {} PROVE FALSE
  <2>1. PICK m \in T : \A y \in T : m <= y
    <3>1. T \subseteq Nat
      OBVIOUS
    <3> HIDE DEF T
    <3> QED BY <1>1, <3>1, LeastNat
  <2>2. m \in 0 .. Len(Claimed) /\ ~ \E f : f = Body(f, m)
    OBVIOUS
  <2>3. CASE m = 0
    <3> DEFINE f == [n \in 0 .. 0 |-> <<>>]
    <3>1. f = Body(f, 0)
      OBVIOUS
    <3> QED BY <2>2, <2>3, <3>1
  <2>4. CASE m # 0
    <3>1. m - 1 \in 0 .. Len(Claimed) /\ m - 1 \notin T
      BY <2>1, <2>2, <2>4
    <3>2. PICK f : f = Body(f, m - 1)
      BY <3>1
    <3> DEFINE g == [n \in 0 .. m |->
                      IF n = m THEN Inserted(f[m - 1], Claimed[m]) ELSE f[n]]
    <3>3. ASSUME NEW n \in 0 .. m
          PROVE  g[n] = IF n = 0 THEN <<>> ELSE Inserted(g[n - 1], Claimed[n])
      <4>1. CASE n = m
        BY <2>2, <2>4, <4>1
      <4>2. CASE n # m
        <5>1. n \in 0 .. m - 1 /\ g[n] = f[n] /\ (n # 0 => g[n - 1] = f[n - 1])
          BY <2>2, <4>2
        <5>2. f[n] = IF n = 0 THEN <<>> ELSE Inserted(f[n - 1], Claimed[n])
          BY <3>2, <5>1
        <5> HIDE DEF g
        <5> QED BY <5>1, <5>2
      <4> QED BY <4>1, <4>2
    <3>4. g = Body(g, m)
      BY <3>3
    <3> QED BY <2>2, <3>4
  <2> QED BY <2>3, <2>4
<1>2. Len(Claimed) \notin T
  BY <1>1
<1>3. \E f : f = Body(f, Len(Claimed))
  BY <1>2
<1> HIDE DEF T
<1> QED BY <1>3 DEF sorted

\* The steps of the walk, one by one.
LEMMA WalkedIs ==
  ASSUME Len(Bounds) \in Nat
  PROVE  walked = [n \in 0 .. Len(Bounds) |->
                  IF n = 0 THEN [cursor |-> 0, base |-> 0, size |-> 0] ELSE Walk(walked[n - 1], Bounds[n])]
<1> DEFINE Body(f, m) == [n \in 0 .. m |->
                            IF n = 0 THEN [cursor |-> 0, base |-> 0, size |-> 0] ELSE Walk(f[n - 1], Bounds[n])]
           T == {m \in 0 .. Len(Bounds) : ~ \E f : f = Body(f, m)}
<1>1. ASSUME T # {} PROVE FALSE
  <2>1. PICK m \in T : \A y \in T : m <= y
    <3>1. T \subseteq Nat
      OBVIOUS
    <3> HIDE DEF T
    <3> QED BY <1>1, <3>1, LeastNat
  <2>2. m \in 0 .. Len(Bounds) /\ ~ \E f : f = Body(f, m)
    OBVIOUS
  <2>3. CASE m = 0
    <3> DEFINE f == [n \in 0 .. 0 |-> [cursor |-> 0, base |-> 0, size |-> 0]]
    <3>1. f = Body(f, 0)
      OBVIOUS
    <3> QED BY <2>2, <2>3, <3>1
  <2>4. CASE m # 0
    <3>1. m - 1 \in 0 .. Len(Bounds) /\ m - 1 \notin T
      BY <2>1, <2>2, <2>4
    <3>2. PICK f : f = Body(f, m - 1)
      BY <3>1
    <3> DEFINE g == [n \in 0 .. m |->
                      IF n = m THEN Walk(f[m - 1], Bounds[m]) ELSE f[n]]
    <3>3. ASSUME NEW n \in 0 .. m
          PROVE  g[n] = IF n = 0 THEN [cursor |-> 0, base |-> 0, size |-> 0] ELSE Walk(g[n - 1], Bounds[n])
      <4>1. CASE n = m
        BY <2>2, <2>4, <4>1
      <4>2. CASE n # m
        <5>1. n \in 0 .. m - 1 /\ g[n] = f[n] /\ (n # 0 => g[n - 1] = f[n - 1])
          BY <2>2, <4>2
        <5>2. f[n] = IF n = 0 THEN [cursor |-> 0, base |-> 0, size |-> 0] ELSE Walk(f[n - 1], Bounds[n])
          BY <3>2, <5>1
        <5> HIDE DEF g
        <5> QED BY <5>1, <5>2
      <4> QED BY <4>1, <4>2
    <3>4. g = Body(g, m)
      BY <3>3
    <3> QED BY <2>2, <3>4
  <2> QED BY <2>3, <2>4
<1>2. Len(Bounds) \notin T
  BY <1>1
<1>3. \E f : f = Body(f, Len(Bounds))
  BY <1>2
<1> HIDE DEF T
<1> QED BY <1>3 DEF walked

\* One call of range_add.
IsAdded(new, rs, r) ==
  /\ new \in Seq(Claim) /\ Len(new) <= Len(rs) + 1
  /\ \A x : Covered(rs, x) => Covered(new, x)
  /\ Len(rs) < MaxEntries + 8 =>
       \A x \in Span(r.base, r.end) : x < FourGiB => Covered(new, x)

LEMMA RangeAddIs ==
  ASSUME NEW rs \in Seq(Claim), NEW r \in range_t
  PROVE  IsAdded(RangeAdd(rs, r), rs, r)
<1> DEFINE kept == [base |-> r.base, end |-> Earlier(r.end, FourGiB)]
           new  == RangeAdd(rs, r)
<1>1. r.base \in Nat /\ r.end \in Nat /\ FourGiB \in Nat /\ MaxEntries \in Nat
  BY Sizes DEF range_t
<1>2. Len(rs) \in Nat /\ DOMAIN rs = 1 .. Len(rs)
  OBVIOUS
<1>3. CASE r.base >= FourGiB \/ r.end <= r.base \/ Len(rs) >= MaxEntries + 8
  <2>1. new = rs
    BY <1>3 DEF RangeAdd
  <2>2. ASSUME Len(rs) < MaxEntries + 8, NEW x \in Span(r.base, r.end), x < FourGiB
        PROVE  FALSE
    BY <1>1, <1>2, <1>3, <2>2 DEF Span
  <2> HIDE DEF new
  <2> QED BY <1>2, <2>1, <2>2 DEF IsAdded, new
<1>4. CASE r.base < FourGiB /\ r.base < r.end /\ Len(rs) < MaxEntries + 8
  <2>1. new = Append(rs, kept)
    BY <1>1, <1>2, <1>4 DEF RangeAdd
  <2>2. kept \in Claim
    BY <1>1, <1>4 DEF Claim, range_t, Earlier
  <2>3. ASSUME NEW x \in Span(r.base, r.end), x < FourGiB
        PROVE  kept.base <= x /\ x < kept.end
    BY <1>1, <2>3 DEF Span, Earlier
  <2> HIDE DEF new, kept
  <2>4. /\ new \in Seq(Claim) /\ Len(new) = Len(rs) + 1
        /\ DOMAIN new = 1 .. Len(rs) + 1 /\ new[Len(rs) + 1] = kept
        /\ \A j \in 1 .. Len(rs) : new[j] = rs[j]
    BY <1>2, <2>1, <2>2
  <2>5. \A x : Covered(rs, x) => Covered(new, x)
    BY <1>2, <2>4 DEF Covered
  <2>6. \A x \in Span(r.base, r.end) : x < FourGiB => Covered(new, x)
    BY <1>2, <2>3, <2>4 DEF Covered
  <2> QED BY <1>2, <2>4, <2>5, <2>6 DEF IsAdded, new
<1> QED BY <1>1, <1>2, <1>3, <1>4

\* Every address below 4 GiB of the map and of the fixed devices is claimed.
LEMMA ClaimedIs ==
  ASSUME E820Map(memory_map), McfgTable(mcfg)
  PROVE  /\ Claimed \in Seq(Claim) /\ Len(Claimed) \in Nat
         /\ \A k \in DOMAIN Added : k <= MaxEntries + 8 =>
              \A x \in Span(Added[k].base, Added[k].end) :
                x < FourGiB => Covered(Claimed, x)
<1> DEFINE N == Len(Added)
           Good(n) ==
             /\ ranges[n] \in Seq(Claim) /\ Len(ranges[n]) <= n
             /\ \A k \in 1 .. n : k <= MaxEntries + 8 =>
                  \A x \in Span(Added[k].base, Added[k].end) :
                    x < FourGiB => Covered(ranges[n], x)
           T == {n \in 0 .. N : ~Good(n)}
<1>1. N \in Nat /\ Added \in Seq(range_t) /\ DOMAIN Added = 1 .. N
  BY AddedIs
<1>2. \A n \in 0 .. N :
        ranges[n] = IF n = 0 THEN <<>> ELSE RangeAdd(ranges[n - 1], Added[n])
  BY <1>1, RangesAre
<1> HIDE DEF N
<1>3. ASSUME T # {} PROVE FALSE
  <2>1. PICK n \in T : \A y \in T : n <= y
    <3>1. T \subseteq Nat
      OBVIOUS
    <3> HIDE DEF T
    <3> QED BY <1>3, <3>1, LeastNat
  <2>2. n \in 0 .. N /\ ~Good(n)
    OBVIOUS
  <2>3. CASE n = 0
    <3>1. ranges[0] = <<>>
      BY <1>1, <1>2
    <3>2. <<>> \in Seq(Claim) /\ Len(<<>>) = 0
      OBVIOUS
    <3> QED BY <2>2, <2>3, <3>1, <3>2
  <2>4. CASE n # 0
    <3>1. n - 1 \in 0 .. N /\ n \in 1 .. N /\ n \in Nat
      BY <1>1, <2>2, <2>4
    <3>2. Good(n - 1)
      <4>1. n - 1 \notin T
        BY <2>1, <2>2, <2>4
      <4> QED BY <3>1, <4>1
    <3> DEFINE old == ranges[n - 1]
    <3>3. old \in Seq(Claim) /\ Added[n] \in range_t /\ Len(old) \in Nat
      BY <1>1, <3>1, <3>2
    <3>4. ranges[n] = RangeAdd(old, Added[n])
      BY <1>2, <2>2, <2>4
    <3>5. IsAdded(ranges[n], old, Added[n])
      <4> HIDE DEF old
      <4> QED BY <3>3, <3>4, RangeAddIs
    <3>6. ranges[n] \in Seq(Claim) /\ Len(ranges[n]) <= n
      BY <3>1, <3>2, <3>3, <3>5 DEF IsAdded
    <3>7. ASSUME NEW k \in 1 .. n, k <= MaxEntries + 8,
                 NEW x \in Span(Added[k].base, Added[k].end), x < FourGiB
          PROVE  Covered(ranges[n], x)
      <4>1. CASE k = n
        <5>1. Len(old) < MaxEntries + 8
          BY <3>1, <3>2, <3>3, <3>7, <4>1, Sizes
        <5> QED BY <3>5, <3>7, <4>1, <5>1 DEF IsAdded
      <4>2. CASE k # n
        <5>1. k \in 1 .. n - 1
          BY <3>1, <4>2
        <5>2. Covered(old, x)
          BY <3>2, <3>7, <5>1
        <5> QED BY <3>5, <5>2 DEF IsAdded
      <4> QED BY <4>1, <4>2
    <3>8. Good(n)
      BY <3>6, <3>7
    <3> QED BY <2>2, <3>8
  <2> QED BY <2>3, <2>4
<1>4. Good(N)
  BY <1>1, <1>3
<1>5. Claimed = ranges[N]
  BY DEF Claimed, N
<1>6. Claimed \in Seq(Claim)
  BY <1>4, <1>5
<1> QED BY <1>1, <1>4, <1>5, <1>6

-----------------------------------------------------------------------------
(* The insertion sort                                                      *)

Ordered(rs) == \A i, j \in DOMAIN rs : i < j => rs[i].base <= rs[j].base

IsInserted(new, rs, r) ==
  /\ new \in Seq(Claim) /\ Len(new) = Len(rs) + 1 /\ Ordered(new)
  /\ \A i \in DOMAIN new : new[i] = r \/ \E j \in DOMAIN rs : new[i] = rs[j]
  /\ \E i \in DOMAIN new : new[i] = r
  /\ \A j \in DOMAIN rs : \E i \in DOMAIN new : new[i] = rs[j]

LEMMA InsertedIs ==
  ASSUME NEW rs \in Seq(Claim), Ordered(rs), NEW r \in Claim
  PROVE  IsInserted(Inserted(rs, r), rs, r)
<1> DEFINE n    == Len(rs)
           S    == {0} \cup {j \in DOMAIN rs : rs[j].base <= r.base}
           last == Max(S)
           new  == Inserted(rs, r)
<1>1. /\ n \in Nat /\ DOMAIN rs = 1 .. n
      /\ r.base \in Nat /\ \A j \in 1 .. n : rs[j] \in Claim /\ rs[j].base \in Nat
  BY DEF Claim, range_t
<1>2. S \subseteq 0 .. n /\ S # {}
  BY <1>1
<1>3. last \in S /\ \A y \in S : last >= y
  <2> HIDE DEF S, n
  <2> QED BY <1>1, <1>2, MaxIs
<1>4. last \in 0 .. n /\ (last # 0 => rs[last].base <= r.base)
  BY <1>1, <1>3
<1>5. \A j \in 1 .. n : j > last => rs[j].base > r.base
  <2> TAKE j \in 1 .. n
  <2> HAVE j > last
  <2>1. j \notin S
    BY <1>1, <1>3, <1>4
  <2> QED BY <1>1, <2>1
<1>6. \A j \in 1 .. n : j <= last => rs[j].base <= r.base
  <2> TAKE j \in 1 .. n
  <2> HAVE j <= last
  <2>1. last \in 1 .. n /\ rs[last].base <= r.base
    BY <1>1, <1>4
  <2>2. rs[j].base <= rs[last].base
    BY <1>1, <1>4, <2>1 DEF Ordered
  <2> QED BY <1>1, <2>1, <2>2
<1>7. new = InsertAt(rs, last + 1, r)
  BY DEF Inserted
<1> HIDE DEF S, last, new, n
<1>8. /\ new \in Seq(Claim) /\ Len(new) = n + 1 /\ DOMAIN new = 1 .. n + 1
      /\ \A j \in 1 .. last : new[j] = rs[j]
      /\ new[last + 1] = r
      /\ \A j \in last + 2 .. n + 1 : new[j] = rs[j - 1]
  <2> DEFINE below == SubSeq(rs, 1, last)
             above == SubSeq(rs, last + 1, n)
  <2>1. /\ below \in Seq(Claim) /\ Len(below) = last
        /\ \A j \in 1 .. last : below[j] = rs[j]
    BY <1>1, <1>4 DEF n
  <2>2. /\ above \in Seq(Claim) /\ Len(above) = n - last
        /\ \A j \in 1 .. n - last : above[j] = rs[last + j]
    <3>1. n - last \in Nat /\ n - (last + 1) + 1 = n - last
      BY <1>1, <1>4
    <3>2. above = [j \in 1 .. n - last |-> rs[last + j]]
      <4>1. \A j \in 1 .. n - last : (last + 1) + j - 1 = last + j
        BY <1>4
      <4>2. above = [j \in 1 .. (n - (last + 1)) + 1 |-> rs[((last + 1) + j) - 1]]
        BY <1>1, <1>4 DEF n
      <4> QED BY <1>1, <1>4, <3>1, <4>1, <4>2
    <3>3. \A j \in 1 .. n - last : rs[last + j] \in Claim
      BY <1>1, <1>4
    <3> HIDE DEF above
    <3> QED BY <3>1, <3>2, <3>3
  <2>3. new = below \o <<r>> \o above
    <3>1. (last + 1) - 1 = last
      BY <1>4
    <3>2. new = SubSeq(rs, 1, (last + 1) - 1) \o <<r>> \o SubSeq(rs, last + 1, n)
      BY <1>7 DEF InsertAt, n
    <3> QED BY <3>1, <3>2
  <2> HIDE DEF below, above
  <2> DEFINE front == below \o <<r>>
  <2>4. /\ front \in Seq(Claim) /\ Len(front) = last + 1
        /\ \A j \in 1 .. last : front[j] = rs[j]
        /\ front[last + 1] = r
    BY <1>4, <2>1
  <2>5. new = front \o above
    BY <2>3
  <2> HIDE DEF front
  <2>6. /\ new \in Seq(Claim) /\ Len(new) = n + 1 /\ DOMAIN new = 1 .. n + 1
        /\ \A j \in 1 .. last + 1 : new[j] = front[j]
        /\ \A j \in 1 .. n - last : new[last + 1 + j] = rs[last + j]
    <3>1. n - last \in Nat /\ last + 1 \in Nat
            /\ (last + 1) + (n - last) = n + 1
      BY <1>1, <1>4
    <3>2. /\ new \in Seq(Claim) /\ Len(new) = (last + 1) + (n - last)
          /\ \A j \in 1 .. last + 1 : new[j] = front[j]
          /\ \A j \in 1 .. n - last : new[last + 1 + j] = above[j]
      <4>1. new \in Seq(Claim) /\ Len(new) = (last + 1) + (n - last)
        <5>1. front \in Seq(Claim) /\ above \in Seq(Claim)
          BY <2>2, <2>4
        <5>2. new \in Seq(Claim) /\ Len(new) = Len(front) + Len(above)
          BY <2>5, <5>1
        <5> QED BY <2>2, <2>4, <5>2
      <4>2. \A j \in 1 .. last + 1 : new[j] = front[j]
        BY <2>2, <2>4, <2>5, <3>1
      <4>3. ASSUME NEW j \in 1 .. n - last PROVE new[last + 1 + j] = above[j]
        <5>1. /\ last + 1 + j \in 1 .. Len(front) + Len(above)
              /\ ~(last + 1 + j <= Len(front))
              /\ (last + 1 + j) - Len(front) = j
          BY <2>2, <2>4, <3>1
        <5> QED BY <2>2, <2>4, <2>5, <3>1, <5>1
      <4> QED BY <4>1, <4>2, <4>3
    <3>3. DOMAIN new = 1 .. n + 1 /\ Len(new) = n + 1
      BY <3>1, <3>2
    <3> QED BY <2>2, <3>2, <3>3
  <2>7. ASSUME NEW j \in last + 2 .. n + 1 PROVE new[j] = rs[j - 1]
    <3>1. j - last - 1 \in 1 .. n - last
      BY <1>1, <1>4
    <3>2. last + 1 + (j - last - 1) = j /\ last + (j - last - 1) = j - 1
      BY <1>1, <1>4
    <3> QED BY <2>6, <3>1, <3>2
  <2> QED BY <1>4, <2>4, <2>6, <2>7
<1>9. Ordered(new)
  <2> SUFFICES ASSUME NEW i \in 1 .. n + 1, NEW j \in 1 .. n + 1, i < j
               PROVE  new[i].base <= new[j].base
    BY <1>8 DEF Ordered
  <2>1. CASE j <= last
    <3>1. i \in DOMAIN rs /\ j \in DOMAIN rs /\ new[i] = rs[i] /\ new[j] = rs[j]
      BY <1>1, <1>4, <1>8, <2>1
    <3> QED BY <3>1 DEF Ordered
  <2>2. CASE j = last + 1
    BY <1>1, <1>4, <1>6, <1>8, <2>2
  <2>3. CASE j > last + 1
    <3>1. j - 1 \in 1 .. n /\ new[j] = rs[j - 1] /\ rs[j - 1].base > r.base
      BY <1>1, <1>4, <1>5, <1>8, <2>3
    <3>2. CASE i <= last
      <4>1. i \in 1 .. n /\ new[i] = rs[i] /\ rs[i].base <= r.base
        BY <1>1, <1>4, <1>6, <1>8, <3>2
      <4> QED BY <1>1, <3>1, <4>1
    <3>3. CASE i = last + 1
      BY <1>1, <1>8, <3>1, <3>3
    <3>4. CASE i > last + 1
      <4>1. i - 1 \in 1 .. n /\ new[i] = rs[i - 1] /\ i - 1 < j - 1
        BY <1>1, <1>4, <1>8, <3>4
      <4> QED BY <1>1, <3>1, <4>1 DEF Ordered
    <3> QED BY <1>4, <3>2, <3>3, <3>4
  <2> QED BY <1>4, <2>1, <2>2, <2>3
<1>10. ASSUME NEW i \in DOMAIN new
       PROVE  new[i] = r \/ \E j \in DOMAIN rs : new[i] = rs[j]
  <2>1. CASE i <= last
    <3>1. i \in DOMAIN rs /\ new[i] = rs[i]
      BY <1>1, <1>4, <1>8, <2>1
    <3> QED BY <3>1
  <2>2. CASE i = last + 1
    BY <1>8, <2>2
  <2>3. CASE i > last + 1
    <3>1. i - 1 \in DOMAIN rs /\ new[i] = rs[i - 1]
      BY <1>1, <1>4, <1>8, <2>3
    <3> QED BY <3>1
  <2> QED BY <1>4, <1>8, <2>1, <2>2, <2>3
<1>11. last + 1 \in DOMAIN new /\ new[last + 1] = r
  BY <1>1, <1>4, <1>8
<1>12. ASSUME NEW j \in DOMAIN rs PROVE \E i \in DOMAIN new : new[i] = rs[j]
  <2>1. CASE j <= last
    <3>1. j \in DOMAIN new /\ new[j] = rs[j]
      BY <1>1, <1>4, <1>8, <2>1
    <3> QED BY <3>1
  <2>2. CASE j > last
    <3>1. j + 1 \in last + 2 .. n + 1 /\ j + 1 \in DOMAIN new /\ j + 1 - 1 = j
      BY <1>1, <1>4, <1>8, <2>2
    <3>2. new[j + 1] = rs[j]
      BY <1>8, <3>1
    <3> QED BY <3>1, <3>2
  <2> QED BY <1>1, <1>4, <2>1, <2>2
<1> QED BY <1>8, <1>9, <1>10, <1>11, <1>12 DEF IsInserted, new, n

\* The sort orders the ranges by their bases, and neither loses nor invents one.
Sorts(rs, m) ==
  /\ rs \in Seq(Claim) /\ Len(rs) = m /\ Ordered(rs)
  /\ \A i \in 1 .. m : \E j \in 1 .. m : rs[i] = Claimed[j]
  /\ \A j \in 1 .. m : \E i \in 1 .. m : rs[i] = Claimed[j]

LEMMA SortIs ==
  ASSUME Claimed \in Seq(Claim)
  PROVE  Sorts(sorted[Len(Claimed)], Len(Claimed))
<1> DEFINE N == Len(Claimed)
           T == {n \in 0 .. N : ~Sorts(sorted[n], n)}
<1>1. N \in Nat /\ \A n \in 1 .. N : Claimed[n] \in Claim
  OBVIOUS
<1>2. \A n \in 0 .. N :
        sorted[n] = IF n = 0 THEN <<>> ELSE Inserted(sorted[n - 1], Claimed[n])
  BY <1>1, SortedIs
<1> HIDE DEF N
<1>3. ASSUME T # {} PROVE FALSE
  <2>1. PICK n \in T : \A y \in T : n <= y
    <3>1. T \subseteq Nat
      OBVIOUS
    <3> HIDE DEF T
    <3> QED BY <1>3, <3>1, LeastNat
  <2>2. n \in 0 .. N /\ ~Sorts(sorted[n], n)
    OBVIOUS
  <2>3. CASE n = 0
    <3>1. sorted[0] = <<>>
      BY <1>1, <1>2
    <3>2. <<>> \in Seq(Claim) /\ Len(<<>>) = 0 /\ DOMAIN <<>> = {}
      OBVIOUS
    <3> QED BY <2>2, <2>3, <3>1, <3>2 DEF Sorts, Ordered
  <2>4. CASE n # 0
    <3>1. n - 1 \in 0 .. N /\ n \in 1 .. N /\ n \in Nat
      BY <1>1, <2>2, <2>4
    <3>2. Sorts(sorted[n - 1], n - 1)
      <4>1. n - 1 \notin T
        BY <2>1, <2>2, <2>4
      <4> QED BY <3>1, <4>1
    <3> DEFINE old == sorted[n - 1]
    <3>3. old \in Seq(Claim) /\ Ordered(old) /\ Claimed[n] \in Claim
            /\ Len(old) = n - 1
      BY <1>1, <3>1, <3>2 DEF Sorts
    <3>4. sorted[n] = Inserted(old, Claimed[n])
      BY <1>2, <2>2, <2>4
    <3>5. IsInserted(sorted[n], old, Claimed[n])
      <4> HIDE DEF old
      <4> QED BY <3>3, <3>4, InsertedIs
    <3>6. DOMAIN old = 1 .. n - 1
      <4> HIDE DEF old
      <4> QED BY <3>3
    <3>7. /\ \A i \in 1 .. n - 1 : \E j \in 1 .. n - 1 : old[i] = Claimed[j]
          /\ \A j \in 1 .. n - 1 : \E i \in 1 .. n - 1 : old[i] = Claimed[j]
      BY <3>2 DEF Sorts
    <3> DEFINE new == sorted[n]
    <3> HIDE DEF old, new
    <3>8. /\ new \in Seq(Claim) /\ Len(new) = n /\ Ordered(new)
      <4>1. n - 1 + 1 = n
        BY <3>1
      <4> QED BY <3>3, <3>5, <4>1 DEF IsInserted, new
    <3>9. DOMAIN new = 1 .. n
      BY <3>8
    <3>10. /\ \A i \in 1 .. n :
                new[i] = Claimed[n] \/ \E j \in 1 .. n - 1 : new[i] = old[j]
           /\ \E i \in 1 .. n : new[i] = Claimed[n]
           /\ \A j \in 1 .. n - 1 : \E i \in 1 .. n : new[i] = old[j]
      BY <3>5, <3>6, <3>9 DEF IsInserted, new
    <3>11. 1 .. n - 1 \subseteq 1 .. n /\ \A j \in 1 .. n : j = n
             \/ j \in 1 .. n - 1
      BY <3>1
    <3>12. \A i \in 1 .. n : \E j \in 1 .. n : new[i] = Claimed[j]
      <4> TAKE i \in 1 .. n
      <4>1. CASE new[i] = Claimed[n]
        BY <3>1, <4>1
      <4>2. ASSUME NEW k \in 1 .. n - 1, new[i] = old[k]
            PROVE  \E j \in 1 .. n : new[i] = Claimed[j]
        <5>1. PICK j \in 1 .. n - 1 : old[k] = Claimed[j]
          BY <3>7
        <5> QED BY <3>11, <4>2, <5>1
      <4> QED BY <3>10, <4>1, <4>2
    <3>13. \A j \in 1 .. n : \E i \in 1 .. n : new[i] = Claimed[j]
      <4> TAKE j \in 1 .. n
      <4>1. CASE j = n
        BY <3>10, <4>1
      <4>2. CASE j \in 1 .. n - 1
        <5>1. PICK k \in 1 .. n - 1 : old[k] = Claimed[j]
          BY <3>7, <4>2
        <5>2. PICK i \in 1 .. n : new[i] = old[k]
          BY <3>10
        <5> QED BY <5>1, <5>2
      <4> QED BY <3>11, <4>1, <4>2
    <3> QED BY <2>2, <3>8, <3>12, <3>13 DEF Sorts, new
  <2> QED BY <2>3, <2>4
<1>4. N \notin T
  BY <1>3
<1> QED BY <1>1, <1>4 DEF N

-----------------------------------------------------------------------------
(* The walk                                                                *)

\* No address from b to e - 1 is in r.
Clear(r, b, e) == r.end <= b \/ e <= r.base \/ r.end <= r.base

\* The claims in order, and an empty range at 4 GiB behind them.
IsBounds(m) ==
  /\ m \in Nat /\ Len(Bounds) = m + 1
  /\ \A j \in 1 .. m + 1 :
       /\ Bounds[j].base \in Nat /\ Bounds[j].end \in Nat
       /\ Bounds[j].base <= Bounds[j].end /\ Bounds[j].end <= FourGiB
  /\ \A i, j \in 1 .. m + 1 : i < j => Bounds[i].base <= Bounds[j].base
  /\ \A j \in 1 .. m : \E k \in 1 .. m : Bounds[j] = Claimed[k]
  /\ \A k \in 1 .. m : \E j \in 1 .. m : Bounds[j] = Claimed[k]
  /\ \A j \in 1 .. m : Bounds[j].base < Bounds[j].end
  /\ Bounds[m + 1].base = FourGiB /\ Bounds[m + 1].end = FourGiB

LEMMA BoundsAre ==
  ASSUME Claimed \in Seq(Claim)
  PROVE  IsBounds(Len(Claimed))
<1> DEFINE m   == Len(Claimed)
           in  == sorted[m]
           top == [base |-> FourGiB, end |-> FourGiB]
<1>1. m \in Nat /\ FourGiB \in Nat
  BY Sizes
<1>2. Sorts(in, m)
  BY SortIs
<1>3. Bounds = Append(in, top)
  BY DEF Bounds
<1>4. top.base = FourGiB /\ top.end = FourGiB
  OBVIOUS
<1> HIDE DEF in, m, top
<1>5. in \in Seq(Claim) /\ Len(in) = m /\ Ordered(in) /\ DOMAIN in = 1 .. m
  BY <1>2 DEF Sorts
<1>6. \A j \in 1 .. m : /\ in[j].base \in Nat /\ in[j].end \in Nat
                        /\ in[j].base < in[j].end /\ in[j].end <= FourGiB
  <2>1. \A j \in 1 .. m : in[j] \in Claim
    BY <1>5
  <2> QED BY <2>1 DEF Claim, range_t
<1>7. /\ Len(Bounds) = m + 1 /\ Bounds[m + 1] = top
      /\ \A j \in 1 .. m : Bounds[j] = in[j]
  BY <1>1, <1>3, <1>5
<1>8. \A j \in 1 .. m + 1 : j = m + 1 \/ j \in 1 .. m
  BY <1>1
<1>9. \A j \in 1 .. m + 1 :
        /\ Bounds[j].base \in Nat /\ Bounds[j].end \in Nat
        /\ Bounds[j].base <= Bounds[j].end /\ Bounds[j].end <= FourGiB
  BY <1>1, <1>4, <1>6, <1>7, <1>8
<1>10. ASSUME NEW i \in 1 .. m + 1, NEW j \in 1 .. m + 1, i < j
       PROVE  Bounds[i].base <= Bounds[j].base
  <2>1. i \in 1 .. m
    BY <1>1, <1>10
  <2>2. CASE j = m + 1
    BY <1>1, <1>4, <1>6, <1>7, <2>1, <2>2
  <2>3. CASE j \in 1 .. m
    BY <1>5, <1>7, <1>10, <2>1, <2>3 DEF Ordered
  <2> QED BY <1>8, <2>2, <2>3
<1>11. /\ \A j \in 1 .. m : \E k \in 1 .. m : Bounds[j] = Claimed[k]
       /\ \A k \in 1 .. m : \E j \in 1 .. m : Bounds[j] = Claimed[k]
  <2>1. /\ \A j \in 1 .. m : \E k \in 1 .. m : in[j] = Claimed[k]
        /\ \A k \in 1 .. m : \E j \in 1 .. m : in[j] = Claimed[k]
    BY <1>2 DEF Sorts
  <2> QED BY <1>7, <2>1
<1>12. \A j \in 1 .. m : Bounds[j].base < Bounds[j].end
  BY <1>6, <1>7
<1> QED BY <1>1, <1>4, <1>7, <1>9, <1>10, <1>11, <1>12 DEF IsBounds, m

\* After n ranges: the gap that was kept is free, all that lies below the cursor has
\* been looked at, and no free run of it is longer than the gap.
WalkOK(w, n) ==
  /\ w.cursor \in Nat /\ w.base \in Nat /\ w.size \in Nat
  /\ w.cursor <= FourGiB /\ w.base + w.size <= FourGiB
  /\ \A j \in 1 .. Len(Bounds) : w.size = 0 \/ Clear(Bounds[j], w.base, w.base + w.size)
  /\ \A j \in 1 .. n : Bounds[j].end <= w.cursor
  /\ \/ w.cursor = 0 \/ n = Len(Bounds)
     \/ \E j \in 1 .. n : Bounds[j].base < w.cursor /\ w.cursor <= Bounds[j].end
  /\ \A b, e \in Nat :
       b < e /\ e <= w.cursor
         /\ (\A j \in 1 .. Len(Bounds) : Clear(Bounds[j], b, e))
         => e - b <= w.size

LEMMA WalkStep ==
  ASSUME NEW m, IsBounds(m), NEW n \in 1 .. m + 1, NEW w, WalkOK(w, n - 1)
  PROVE  WalkOK(Walk(w, Bounds[n]), n)
<1> DEFINE r   == Bounds[n]
           new == Walk(w, r)
<1>1. m \in Nat /\ Len(Bounds) = m + 1 /\ FourGiB \in Nat
  BY Sizes DEF IsBounds
<1>2. /\ r.base \in Nat /\ r.end \in Nat /\ r.base <= r.end /\ r.end <= FourGiB
  BY DEF IsBounds
<1>3. /\ w.cursor \in Nat /\ w.base \in Nat /\ w.size \in Nat
      /\ w.cursor <= FourGiB /\ w.base + w.size <= FourGiB
      /\ \A j \in 1 .. m + 1 : w.size = 0 \/ Clear(Bounds[j], w.base, w.base + w.size)
      /\ \A j \in 1 .. n - 1 : Bounds[j].end <= w.cursor
      /\ \/ w.cursor = 0
         \/ \E j \in 1 .. n - 1 : Bounds[j].base < w.cursor /\ w.cursor <= Bounds[j].end
      /\ \A b, e \in Nat :
           b < e /\ e <= w.cursor
             /\ (\A j \in 1 .. m + 1 : Clear(Bounds[j], b, e))
             => e - b <= w.size
  BY <1>1 DEF WalkOK
<1>4. /\ new.cursor = Cursor(w, r)
      /\ new.base = IF Better(w, r) THEN w.cursor ELSE w.base
      /\ new.size = IF Better(w, r) THEN r.base - w.cursor ELSE w.size
  BY DEF Walk
<1> HIDE DEF r, new
<1>5. /\ new.cursor \in Nat /\ w.cursor <= new.cursor /\ r.end <= new.cursor
      /\ new.cursor <= FourGiB /\ (new.cursor = w.cursor \/ new.cursor = r.end)
  BY <1>2, <1>3, <1>4 DEF Cursor, Later
<1>6. Better(w, r) <=> r.base > w.cursor /\ r.base - w.cursor > w.size
  BY DEF Better
<1>7. /\ new.base \in Nat /\ new.size \in Nat /\ new.base + new.size <= FourGiB
      /\ w.size <= new.size /\ (r.base > w.cursor => r.base - w.cursor <= new.size)
  <2>1. CASE Better(w, r)
    BY <1>1, <1>2, <1>3, <1>4, <1>6, <2>1
  <2>2. CASE ~Better(w, r)
    BY <1>1, <1>2, <1>3, <1>4, <1>6, <2>2
  <2> QED BY <2>1, <2>2
<1>8. ASSUME NEW j \in 1 .. m + 1
      PROVE  new.size = 0 \/ Clear(Bounds[j], new.base, new.base + new.size)
  <2>1. CASE Better(w, r)
    <3>1. new.base = w.cursor /\ new.base + new.size = r.base
      BY <1>2, <1>3, <1>4, <1>6, <2>1
    <3>2. CASE j <= n - 1
      <4>1. Bounds[j].end <= w.cursor
        BY <1>1, <1>3, <3>2
      <4> QED BY <3>1, <4>1 DEF Clear
    <3>3. CASE ~(j <= n - 1)
      <4>1. r.base <= Bounds[j].base
        <5>1. j = n \/ n < j
          BY <1>1, <3>3
        <5> QED BY <1>2, <5>1 DEF IsBounds, r
      <4> QED BY <3>1, <4>1 DEF Clear
    <3> QED BY <3>2, <3>3
  <2>2. CASE ~Better(w, r)
    BY <1>3, <1>4, <2>2
  <2> QED BY <2>1, <2>2
<1>9. ASSUME NEW j \in 1 .. n PROVE Bounds[j].end <= new.cursor
  <2>1. CASE j = n
    BY <1>5, <2>1 DEF r
  <2>2. CASE j # n
    <3>1. j \in 1 .. n - 1 /\ j \in 1 .. m + 1
      BY <1>1, <2>2
    <3>2. Bounds[j].end \in Nat /\ Bounds[j].end <= w.cursor
      BY <1>3, <3>1 DEF IsBounds
    <3> QED BY <1>3, <1>5, <3>2
  <2> QED BY <2>1, <2>2
<1>10. \/ new.cursor = 0 \/ n = m + 1
       \/ \E j \in 1 .. n : Bounds[j].base < new.cursor /\ new.cursor <= Bounds[j].end
  <2>1. CASE n # m + 1 /\ new.cursor = r.end
    <3>1. n \in 1 .. m /\ n \in 1 .. n
      BY <1>1, <2>1
    <3>2. Bounds[n].base < Bounds[n].end
      BY <3>1 DEF IsBounds
    <3>3. Bounds[n].base < new.cursor /\ new.cursor <= Bounds[n].end
      BY <1>2, <2>1, <3>2 DEF r
    <3> QED BY <3>1, <3>3
  <2>2. CASE new.cursor = w.cursor /\ w.cursor # 0
    <3>1. PICK j \in 1 .. n - 1 : Bounds[j].base < w.cursor
            /\ w.cursor <= Bounds[j].end
      BY <1>3, <2>2
    <3>2. j \in 1 .. n
      BY <1>1
    <3> QED BY <2>2, <3>1, <3>2
  <2> QED BY <1>5, <2>1, <2>2
<1>11. ASSUME NEW b \in Nat, NEW e \in Nat, b < e, e <= new.cursor,
              \A j \in 1 .. m + 1 : Clear(Bounds[j], b, e)
       PROVE  e - b <= new.size
  <2>1. CASE e <= w.cursor
    <3>1. e - b <= w.size
      BY <1>3, <1>11, <2>1
    <3> QED BY <1>3, <1>7, <3>1
  <2>2. CASE e > w.cursor
    <3>1. new.cursor = r.end /\ e <= r.end /\ w.cursor < r.end
      BY <1>2, <1>3, <1>5, <1>11, <2>2
    <3>2. Clear(r, b, e)
      BY <1>11 DEF r
    <3>3. e <= r.base
      BY <1>2, <1>11, <3>1, <3>2 DEF Clear
    <3>4. w.cursor <= b
      <4>1. CASE w.cursor = 0
        BY <4>1
      <4>2. CASE w.cursor # 0
        <5>1. PICK j \in 1 .. n - 1 : Bounds[j].base < w.cursor
                /\ w.cursor <= Bounds[j].end
          BY <1>3, <4>2
        <5>2. j \in 1 .. m + 1
          BY <1>1
        <5>3. Clear(Bounds[j], b, e) /\ Bounds[j].base \in Nat
                /\ Bounds[j].end \in Nat
          BY <1>11, <5>2 DEF IsBounds
        <5> QED BY <1>3, <1>11, <2>2, <5>1, <5>3 DEF Clear
      <4> QED BY <4>1, <4>2
    <3>5. r.base - w.cursor <= new.size
      BY <1>2, <1>3, <1>7, <2>2, <3>3
    <3> QED BY <1>2, <1>3, <1>7, <3>3, <3>4, <3>5
  <2> QED BY <1>3, <2>1, <2>2
<1> QED BY <1>1, <1>5, <1>7, <1>8, <1>9, <1>10, <1>11 DEF WalkOK, new, r

LEMMA WalkIs ==
  ASSUME NEW m, IsBounds(m)
  PROVE  WalkOK(LargestGap, m + 1)
<1> DEFINE T == {n \in 0 .. m + 1 : ~WalkOK(walked[n], n)}
<1>1. m \in Nat /\ Len(Bounds) = m + 1 /\ FourGiB \in Nat
  BY Sizes DEF IsBounds
<1>2. \A n \in 0 .. m + 1 :
        walked[n] = IF n = 0 THEN [cursor |-> 0, base |-> 0, size |-> 0]
                    ELSE Walk(walked[n - 1], Bounds[n])
  BY <1>1, WalkedIs
<1>3. ASSUME T # {} PROVE FALSE
  <2>1. PICK n \in T : \A y \in T : n <= y
    <3>1. T \subseteq Nat
      BY <1>1
    <3> HIDE DEF T
    <3> QED BY <1>3, <3>1, LeastNat
  <2>2. n \in 0 .. m + 1 /\ ~WalkOK(walked[n], n)
    OBVIOUS
  <2>3. CASE n = 0
    <3> DEFINE w == walked[0]
    <3>1. w.cursor = 0 /\ w.base = 0 /\ w.size = 0
      BY <1>1, <1>2
    <3> HIDE DEF w
    <3>2. WalkOK(w, 0)
      BY <1>1, <3>1 DEF WalkOK
    <3> QED BY <2>2, <2>3, <3>2 DEF w
  <2>4. CASE n # 0
    <3>1. n - 1 \in 0 .. m + 1 /\ n \in 1 .. m + 1
      BY <1>1, <2>2, <2>4
    <3>2. WalkOK(walked[n - 1], n - 1)
      <4>1. n - 1 \notin T
        BY <2>1, <2>2, <2>4
      <4> QED BY <3>1, <4>1
    <3>3. walked[n] = Walk(walked[n - 1], Bounds[n])
      BY <1>2, <2>2, <2>4
    <3> QED BY <2>2, <3>1, <3>2, <3>3, WalkStep
  <2> QED BY <2>3, <2>4
<1>4. m + 1 \in 0 .. m + 1 /\ m + 1 \notin T
  BY <1>1, <1>3
<1> QED BY <1>1, <1>4 DEF LargestGap

\* What the walk finds: a gap that no claim touches, and the longest.
IsGap(gap) ==
  /\ gap.base \in Nat /\ gap.size \in Nat /\ gap.base + gap.size <= FourGiB
  /\ \A x \in Span(gap.base, gap.base + gap.size) : ~Covered(Claimed, x)
  /\ \A b \in Nat, e \in Nat :
       b < e /\ e <= FourGiB /\ (\A x \in Span(b, e) : ~Covered(Claimed, x))
         => e - b <= gap.size

LEMMA GapIs ==
  ASSUME E820Map(memory_map), McfgTable(mcfg)
  PROVE  IsGap(LargestGap)
<1> DEFINE m   == Len(Claimed)
           gap == LargestGap
<1>1. Claimed \in Seq(Claim) /\ m \in Nat /\ FourGiB \in Nat
  BY ClaimedIs, Sizes
<1>2. IsBounds(m) /\ WalkOK(gap, m + 1)
  BY <1>1, BoundsAre, WalkIs
<1>3. DOMAIN Claimed = 1 .. m /\ \A k \in 1 .. m : Claimed[k] \in Claim
  BY <1>1
<1> HIDE DEF m, gap
<1>4. /\ gap.base \in Nat /\ gap.size \in Nat /\ gap.base + gap.size <= FourGiB
      /\ gap.cursor \in Nat /\ gap.cursor <= FourGiB
  BY <1>2 DEF WalkOK
<1>5. Len(Bounds) = m + 1 /\ m + 1 \in 1 .. m + 1 /\ 1 .. m \subseteq 1 .. m + 1
  BY <1>1, <1>2 DEF IsBounds
<1>6. gap.cursor = FourGiB
  <2>1. Bounds[m + 1].end = FourGiB /\ Bounds[m + 1].end <= gap.cursor
    BY <1>2, <1>5 DEF IsBounds, WalkOK
  <2> QED BY <1>1, <1>4, <2>1
<1>7. ASSUME NEW x \in Span(gap.base, gap.base + gap.size), Covered(Claimed, x)
      PROVE  FALSE
  <2>1. PICK k \in 1 .. m : Claimed[k].base <= x /\ x < Claimed[k].end
    BY <1>3, <1>7 DEF Covered
  <2>2. PICK j \in 1 .. m : Bounds[j] = Claimed[k]
    BY <1>2 DEF IsBounds
  <2>3. gap.size # 0 /\ x \in Nat /\ gap.base <= x /\ x < gap.base + gap.size
    BY <1>4 DEF Span
  <2>4. Clear(Bounds[j], gap.base, gap.base + gap.size)
    BY <1>2, <1>5, <2>3 DEF WalkOK
  <2>5. Bounds[j].base \in Nat /\ Bounds[j].end \in Nat
    BY <1>2, <1>5 DEF IsBounds
  <2> QED BY <1>4, <2>1, <2>2, <2>3, <2>4, <2>5 DEF Clear
<1>8. ASSUME NEW b \in Nat, NEW e \in Nat, b < e, e <= FourGiB,
             \A x \in Span(b, e) : ~Covered(Claimed, x)
      PROVE  e - b <= gap.size
  <2>1. ASSUME NEW j \in 1 .. m + 1 PROVE Clear(Bounds[j], b, e)
    <3>1. CASE j = m + 1
      BY <1>2, <1>8, <3>1 DEF IsBounds, Clear
    <3>2. CASE j # m + 1
      <4>1. j \in 1 .. m
        BY <1>1, <3>2
      <4>2. PICK k \in 1 .. m : Bounds[j] = Claimed[k]
        BY <1>2, <4>1 DEF IsBounds
      <4> DEFINE r == Bounds[j]
                 x == Later(b, r.base)
      <4>3. r.base \in Nat /\ r.end \in Nat
        BY <1>2 DEF IsBounds
      <4> HIDE DEF r
      <4>4. ASSUME ~Clear(r, b, e) PROVE FALSE
        <5>1. x \in Nat /\ b <= x /\ x < e /\ r.base <= x /\ x < r.end
          BY <1>8, <4>3, <4>4 DEF Clear, Later
        <5> HIDE DEF x
        <5>2. x \in Span(b, e)
          BY <5>1 DEF Span
        <5>3. Covered(Claimed, x)
          BY <1>3, <4>2, <5>1 DEF Covered, r
        <5> QED BY <1>8, <5>2, <5>3
      <4> QED BY <4>4 DEF r
    <3> QED BY <3>1, <3>2
  <2> QED BY <1>2, <1>5, <1>6, <1>8, <2>1 DEF WalkOK
<1> QED BY <1>4, <1>7, <1>8 DEF IsGap, gap

-----------------------------------------------------------------------------
(* The invariant                                                           *)

LEMMA BootInvInit == KernelInitInit => BootInv
<1> SUFFICES ASSUME KernelInitInit PROVE BootInv
  OBVIOUS
<1>1. E820Map(firmware) /\ memory_map = firmware
  BY FirmwareAssumption DEF KernelInitInit
<1>2. NotYet /\ RootPlaced /\ LowPlaced
  BY <1>1 DEF KernelInitInit, NotYet, RootPlaced, LowPlaced
<1>3. \A k \in DOMAIN memory_map : memory_map[k].type = Usable =>
        Within(firmware, Usable, memory_map[k].base, EndOf(memory_map[k]))
  BY <1>1, EntryIs DEF Within
<1> QED BY <1>1, <1>2, <1>3 DEF BootInv, Maps, MapFollowsFirmware

\* What a step keeps that leaves the map and the two heaps alone.
LEMMA Elsewhere ==
  ASSUME BootInv, UNCHANGED <<firmware, memory_map, root_heap, low_heap>>,
         pc' \in {"acpi", "root", "low"} => (pc' = pc \/ (pc = "acpi"
           /\ pc' = "root"))
  PROVE  BootInv'
<1>1. NotYet'
  BY DEF BootInv, NotYet
<1>2. Maps' /\ MapFollowsFirmware'
  BY DEF BootInv, Maps, MapFollowsFirmware
<1>3. RootPlaced' /\ LowPlaced'
  BY DEF BootInv, RootPlaced, LowPlaced
<1> QED BY <1>1, <1>2, <1>3 DEF BootInv

\* What has been cut out of the map was usable before.
LEMMA SetupRootKeeps ==
  ASSUME BootInv, SetupRoot
  PROVE  BootInv'
<1>1. /\ pc = "root" /\ pc' = "low" /\ low_heap' = low_heap
      /\ firmware' = firmware
      /\ memory_map = firmware /\ low_heap = None
      /\ E820Map(firmware) /\ E820Map(memory_map)
  BY DEF BootInv, NotYet, Maps, SetupRoot, Phase
<1>2. PICK k \in DOMAIN memory_map :
        /\ FirstEntry(RootFits, k)
        /\ LET start == RootStart(memory_map[k])
               data  == RootData(start)
               heap  == [base |-> start, start_addr |-> data, end |-> data + RootSize]
           IN root_heap' = heap /\ memory_map' = ReserveRoot(k, heap)
  BY DEF SetupRoot
<1> DEFINE start == RootStart(memory_map[k])
           heap  == [base |-> start, start_addr |-> RootData(start),
                     end |-> RootData(start) + RootSize]
<1>3. memory_map[k] \in e820_entry /\ RootFits(memory_map[k])
  BY <1>1, <1>2, EntryIs DEF FirstEntry
<1>4. /\ heap.base \in Nat /\ heap.end \in Nat
      /\ memory_map[k].base <= heap.base
      /\ KernelEnd <= heap.base /\ heap.base < heap.end
      /\ heap.end <= EndOf(memory_map[k]) /\ heap.end <= FourGiB
  BY <1>3, RootGeometry
<1>5. root_heap' = heap /\ memory_map' = ReserveRoot(k, heap)
  BY <1>2
<1>6. memory_map[k].type = Usable
  BY <1>3 DEF RootFits
<1> HIDE DEF heap
<1>7. IsCut(memory_map', heap.base, heap.end)
  BY <1>1, <1>4, <1>5, <1>6, CutMap
<1>8. NotYet' /\ LowPlaced'
  BY <1>1 DEF NotYet, LowPlaced
<1>9. Maps'
  BY <1>1, <1>7 DEF Maps, IsCut
<1>10. MapFollowsFirmware'
  BY <1>1, <1>7 DEF MapFollowsFirmware, IsCut
<1>11. Within(firmware', Usable, root_heap'.base, root_heap'.end)
  BY <1>1, <1>4, <1>5, <1>6 DEF Within
<1>12. Within(memory_map', Reserved, root_heap'.base, root_heap'.end)
  BY <1>5, <1>7 DEF IsCut
<1>13. RootPlaced'
  BY <1>4, <1>5, <1>11, <1>12 DEF RootPlaced
<1> QED BY <1>8, <1>9, <1>10, <1>13 DEF BootInv

LEMMA SetupLowKeeps ==
  ASSUME BootInv, SetupLow
  PROVE  BootInv'
<1>1. /\ pc' = "hole" /\ firmware' = firmware /\ memory_map' = memory_map
      /\ root_heap' = root_heap /\ E820Map(memory_map)
  BY DEF BootInv, Maps, SetupLow, Phase
<1>2. PICK k \in DOMAIN memory_map :
        /\ FirstEntry(RegionFits, k)
        /\ LET base == RegionStart(memory_map[k])
           IN low_heap' = [base |-> base, region_end |-> base + LowSize,
                           start_addr |-> RoundUp(base + HeaderSize
                                                    + LowBlocks * EntrySize, Page),
                           nblocks |-> LowBlocks]
  BY DEF SetupLow
<1> DEFINE base == RegionStart(memory_map[k])
<1>3. memory_map[k] \in e820_entry /\ RegionFits(memory_map[k])
  BY <1>1, <1>2, EntryIs DEF FirstEntry
<1>4. /\ low_heap'.base = base /\ low_heap'.region_end = base + LowSize
      /\ low_heap'.nblocks = LowBlocks
      /\ low_heap'.start_addr
           = RoundUp(base + HeaderSize + LowBlocks * EntrySize, Page)
  BY <1>2
<1>5. /\ base \in Nat /\ memory_map[k].base <= base /\ base + LowSize \in Nat
      /\ base + LowSize <= EndOf(memory_map[k]) /\ base + LowSize < FourGiB
      /\ RoundUp(base + HeaderSize + LowBlocks * EntrySize, Page)
           + LowBlocks * BlockSize \in Nat
      /\ RoundUp(base + HeaderSize + LowBlocks * EntrySize, Page)
           + LowBlocks * BlockSize <= base + LowSize
  BY <1>3, LowGeometry
<1>6. Within(memory_map', Usable, low_heap'.base, low_heap'.region_end)
  BY <1>1, <1>3, <1>4, <1>5 DEF Within, RegionFits
<1> HIDE DEF base
<1>7. LowPlaced'
  BY <1>4, <1>5, <1>6 DEF LowPlaced
<1>8. NotYet' /\ Maps' /\ MapFollowsFirmware' /\ RootPlaced'
  BY <1>1 DEF BootInv, NotYet, Maps, MapFollowsFirmware, RootPlaced
<1> QED BY <1>7, <1>8 DEF BootInv

LEMMA BootInvNext == BootInv /\ [KernelInitNext]_initVars => BootInv'
<1> SUFFICES ASSUME BootInv, [KernelInitNext]_initVars PROVE BootInv'
  OBVIOUS
<1>1. CASE AcpiScans
  BY <1>1, Elsewhere DEF AcpiScans, vars
<1>2. CASE AcpiFinds
  BY <1>2, Elsewhere DEF AcpiFinds, Phase
<1>3. CASE AcpiFaults
  BY <1>3, Elsewhere DEF AcpiFaults, Phase
<1>4. CASE AcpiFails
  BY <1>4, Elsewhere DEF AcpiFails, Phase
<1>5. CASE SetupRoot
  BY <1>5, SetupRootKeeps
<1>6. CASE NoRoot
  BY <1>6, Elsewhere DEF NoRoot, Phase
<1>7. CASE SetupLow
  BY <1>7, SetupLowKeeps
<1>8. CASE NoLow
  BY <1>8, Elsewhere DEF NoLow, Phase
<1>9. CASE FindHole
  BY <1>9, Elsewhere DEF FindHole, Phase
<1>10. CASE NoHole
  BY <1>10, Elsewhere DEF NoHole, Phase
<1>11. CASE BusReady
  BY <1>11, Elsewhere DEF BusReady, Phase
<1>12. CASE BusFails
  BY <1>12, Elsewhere DEF BusFails, Phase
<1>13. CASE UNCHANGED initVars
  BY <1>13, Elsewhere DEF initVars, vars
<1> QED
  BY <1>1, <1>2, <1>3, <1>4, <1>5, <1>6, <1>7, <1>8, <1>9, <1>10, <1>11, <1>12,
     <1>13
     DEF KernelInitNext, MemManagerInit, Next

\* The gap depends on the map and the MCFG table alone.
LEMMA GapStays == UNCHANGED <<memory_map, mcfg>> => LargestGap' = LargestGap
<1> SUFFICES ASSUME UNCHANGED <<memory_map, mcfg>> PROVE LargestGap' = LargestGap
  OBVIOUS
<1>1. McfgWords' = McfgWords
  BY DEF McfgWords
<1>2. Added' = Added
  BY <1>1 DEF Added, EcamRange, EndOf
<1>3. ranges' = ranges
  BY <1>2 DEF ranges
<1>4. Claimed' = Claimed
  BY <1>2, <1>3 DEF Claimed
<1>5. sorted' = sorted
  BY <1>4 DEF sorted
<1>6. Bounds' = Bounds
  BY <1>4, <1>5 DEF Bounds
<1>7. walked' = walked
  BY <1>6 DEF walked
<1> QED BY <1>6, <1>7 DEF LargestGap

KernelInitInv == BootInv /\ ScanInv /\ McfgInv /\ HoleInv

LEMMA KernelInitInvInit == KernelInitInit => KernelInitInv
<1> SUFFICES ASSUME KernelInitInit PROVE KernelInitInv
  OBVIOUS
<1>1. BootInv
  BY BootInvInit
<1>2. area \in Seq(rsdp_t) /\ BiosTables(tables)
  BY FirmwareAssumption DEF KernelInitInit
<1>3. ScanInv
  <2>1. scan = 1 /\ Len(area) \in Nat /\ 1 .. scan - 1 = {}
    BY <1>2 DEF KernelInitInit
  <2> QED BY <1>2, <2>1 DEF KernelInitInit, ScanInv
<1>4. McfgInv
  <2>1. <<>> \in Seq(Nat)
    OBVIOUS
  <2> QED BY <2>1 DEF KernelInitInit, McfgInv, McfgTable
<1>5. HoleInv
  BY DEF KernelInitInit, HoleInv
<1> QED BY <1>1, <1>3, <1>4, <1>5 DEF KernelInitInv

\* The first table of a name is one that the root table lists.
LEMMA GetTableIs ==
  ASSUME NEW root, GetTable(root, "MCFG") # Null, BiosTables(tables),
         root \in DOMAIN tables
  PROVE  Describes(root) /\ GetTable(root, "MCFG") \in DOMAIN tables
<1> DEFINE bytes == tables[root].bytes
           named == {k \in TableHeader + 1 .. Len(bytes) : Is(bytes[k], "MCFG")}
<1>1. GetTable(root, "MCFG") = IF named = {} THEN Null ELSE bytes[Min(named)]
  BY DEF GetTable
<1>2. bytes \in Seq(Nat) /\ TableHeader \in Nat /\ Len(bytes) \in Nat
  BY AcpiAssumption DEF BiosTables
<1>3. named # {} /\ named \subseteq Nat
  <2>1. \A k \in TableHeader + 1 .. Len(bytes) : k \in Nat
    BY <1>2
  <2> QED BY <1>1, <2>1
<1>4. Min(named) \in named
  <2> HIDE DEF named
  <2> QED BY <1>3, LeastNat DEF Min
<1>5. /\ Min(named) \in DOMAIN bytes /\ Min(named) > TableHeader
      /\ Is(bytes[Min(named)], "MCFG")
  BY <1>2, <1>4
<1> QED BY <1>1, <1>3, <1>5 DEF Describes, Is

\* What a step keeps that leaves ACPI's variables alone.
LEMMA ScanStays ==
  ASSUME ScanInv, UNCHANGED acpiVars,
         pc' \notin {"acpi", "fault", "halted"} => RSD_T # Null,
         pc' = "halted" /\ RSD_T = Null => scan > Len(area)
  PROVE  ScanInv'
<1>1. area' = area /\ tables' = tables /\ scan' = scan /\ RSD_T' = RSD_T
  BY DEF acpiVars
<1> QED BY <1>1 DEF ScanInv, Short, Sound, Is, BiosTables

LEMMA McfgStays ==
  ASSUME McfgInv, UNCHANGED <<mcfg, tables, RSD_T>>, pc' = "ready" => mcfg.present
  PROVE  McfgInv'
BY DEF McfgInv, McfgTable, Describes, Is

\* Where tables are short, a pointer that init passes over is not sound, and one
\* that it takes is.
LEMMA PointerIs ==
  ASSUME ScanInv, Short, scan <= Len(area)
  PROVE  Sound(Place) <=> /\ Pointer /\ Is(Place.address, "RSDT")
                          /\ Checksum(tables[Place.address])
<1>1. ASSUME Is(Place.address, "RSDT")
      PROVE  Checksum(tables[Place.address])
               <=> Sum(tables[Place.address].bytes) = 0
  <2> DEFINE bytes == tables[Place.address].bytes
  <2>1. Place.address \in DOMAIN tables
    BY <1>1 DEF Is
  <2>2. bytes \in Seq(Nat) /\ Len(bytes) < AcpiByte /\ AcpiByte \in Nat
    BY <2>1, AcpiAssumption DEF ScanInv, BiosTables, Short
  <2> HIDE DEF bytes
  <2>3. Len(bytes) % AcpiByte = Len(bytes)
    BY <2>2
  <2>4. SubSeq(bytes, 1, Len(bytes)) = bytes
    BY <2>2
  <2> QED BY <2>3, <2>4 DEF Checksum, bytes
<1> QED BY <1>1 DEF Sound, Pointer

LEMMA ScanNext ==
  ASSUME ScanInv, McfgInv, NextPlace, UNCHANGED vars
  PROVE  ScanInv' /\ McfgInv'
<1>1. /\ scan <= Len(area) /\ RSD_T = Null /\ scan' = scan + 1 /\ pc' = pc
      /\ area' = area /\ tables' = tables /\ RSD_T' = RSD_T /\ mcfg' = mcfg
  BY DEF NextPlace, InArea, vars
<1>2. scan \in Nat /\ Len(area) \in Nat /\ scan >= 1
  BY DEF ScanInv
<1>3. ASSUME Short PROVE ~Sound(Place)
  BY <1>1, <1>3, PointerIs DEF NextPlace, Rooted
<1>4. scan' \in 1 .. Len(area) + 1
  BY <1>1, <1>2
<1>5. ASSUME Short, NEW k \in 1 .. scan PROVE ~Sound(area[k])
  <2>1. CASE k = scan
    BY <1>3, <1>5, <2>1 DEF Place
  <2>2. CASE k # scan
    <3>1. k \in 1 .. scan - 1
      BY <1>2, <2>2
    <3> QED BY <1>5, <3>1 DEF ScanInv
  <2> QED BY <2>1, <2>2
<1>6. scan' - 1 = scan
  BY <1>1, <1>2
<1>7. Short' => \A k \in 1 .. scan' - 1 : ~Sound(area[k])'
  BY <1>1, <1>5, <1>6 DEF Short, Sound, Is
<1>8. (pc \notin {"acpi", "fault", "halted"} => RSD_T # Null)
      /\ ~(pc = "halted" /\ RSD_T = Null)
  BY <1>1, <1>2 DEF ScanInv
<1>9. ScanInv'
  <2>1. area' \in Seq(rsdp_t) /\ BiosTables(tables')
    BY <1>1 DEF ScanInv
  <2> QED BY <1>1, <1>4, <1>7, <1>8, <2>1 DEF ScanInv
<1> QED BY <1>1, <1>8, <1>9, McfgStays DEF McfgInv

LEMMA ScanFinds ==
  ASSUME ScanInv, McfgInv, AcpiFinds
  PROVE  ScanInv' /\ McfgInv'
<1>1. /\ scan <= Len(area) /\ RSD_T = Null /\ scan' = scan /\ pc' = "root"
      /\ area' = area /\ tables' = tables /\ RSD_T' = Place.address
      /\ Pointer /\ Is(Place.address, "RSDT") /\ Checksum(tables[Place.address])
      /\ mcfg' = McfgOf(RSD_T')
  BY DEF AcpiFinds, FoundRoot, InArea, Phase, Rooted
<1>2. Place.address \in DOMAIN tables /\ Place.address # Null
  BY <1>1 DEF ScanInv, BiosTables, Is
<1>3. ScanInv'
  <2>1. Short => Sound(Place)
    BY <1>1, PointerIs
  <2> QED BY <1>1, <1>2, <2>1 DEF ScanInv, Short, Sound, Is, BiosTables, Place
<1>4. McfgTable(mcfg') /\ (mcfg'.present => Describes(Place.address))
  <2> DEFINE root == Place.address
             address == GetTable(root, "MCFG")
  <2>1. mcfg' = IF address = Null THEN [present |-> FALSE, words |-> LowMemory]
                ELSE [present |-> TRUE, entries |-> tables[address].entries]
    BY <1>1 DEF McfgOf
  <2>2. CASE address = Null
    BY <2>1, <2>2, FirmwareAssumption DEF McfgTable
  <2>3. CASE address # Null
    <3>1. Describes(root) /\ address \in DOMAIN tables
      BY <1>2, <2>3, GetTableIs DEF ScanInv
    <3> QED BY <2>1, <2>3, <3>1 DEF McfgTable, ScanInv, BiosTables
  <2> QED BY <2>2, <2>3
<1>5. McfgInv'
  BY <1>1, <1>4 DEF McfgInv, McfgTable, Describes, Is
<1> QED BY <1>3, <1>5

LEMMA KernelInitInvNext == KernelInitInv
  /\ [KernelInitNext]_initVars => KernelInitInv'
<1> SUFFICES ASSUME KernelInitInv, [KernelInitNext]_initVars PROVE KernelInitInv'
  OBVIOUS
<1>1. BootInv /\ ScanInv /\ McfgInv /\ HoleInv /\ BootInv'
  BY BootInvNext DEF KernelInitInv
<1>2. E820Map(memory_map) /\ McfgTable(mcfg)
  BY <1>1 DEF BootInv, Maps, McfgInv
<1>3. /\ pc \in {"acpi", "root", "low"} => low_heap = None
      /\ pc \in {"acpi", "root", "low", "hole"} => bump_heap = None
      /\ pc \in {"running", "ready"} => bump_heap # None
      /\ pc \notin {"acpi", "fault", "halted"} => RSD_T # Null
      /\ bump_heap # None =>
           /\ bump_heap = [start |-> LargestGap.base, size |-> LargestGap.size]
           /\ pc \in {"running", "ready", "halted"}
      /\ pc = "halted" /\ low_heap # None /\ bump_heap = None => LargestGap.size = 0
  BY <1>1 DEF BootInv, NotYet, HoleInv, ScanInv
<1>4. CASE AcpiScans
  <2>1. ScanInv' /\ McfgInv'
    BY <1>1, <1>4, ScanNext DEF AcpiScans
  <2>2. HoleInv'
    BY <1>3, <1>4 DEF AcpiScans, vars, HoleInv
  <2> QED BY <1>1, <2>1, <2>2 DEF KernelInitInv
<1>5. CASE AcpiFinds
  <2>1. ScanInv' /\ McfgInv'
    BY <1>1, <1>5, ScanFinds
  <2>2. HoleInv'
    BY <1>3, <1>5 DEF AcpiFinds, Phase, HoleInv
  <2> QED BY <1>1, <2>1, <2>2 DEF KernelInitInv
<1>6. CASE AcpiFaults
  <2>1. ScanInv' /\ McfgInv'
    BY <1>1, <1>6, ScanStays, McfgStays DEF AcpiFaults, Phase, acpiVars
  <2>2. HoleInv'
    BY <1>3, <1>6 DEF AcpiFaults, Phase, HoleInv
  <2> QED BY <1>1, <2>1, <2>2 DEF KernelInitInv
<1>7. CASE AcpiFails
  <2>1. ScanInv' /\ McfgInv'
    BY <1>1, <1>7, ScanStays, McfgStays DEF AcpiFails, Phase, acpiVars
  <2>2. HoleInv'
    BY <1>3, <1>7 DEF AcpiFails, Phase, HoleInv
  <2> QED BY <1>1, <2>1, <2>2 DEF KernelInitInv
<1>8. CASE MemManagerInit
  <2>1. /\ UNCHANGED acpiVars /\ mcfg' = mcfg
        /\ pc \in {"root", "low", "hole"}
        /\ pc' \in {"low", "hole", "running", "halted"}
    BY <1>8 DEF MemManagerInit, Next, SetupRoot, NoRoot, SetupLow, NoLow,
       FindHole, NoHole,
                Phase
  <2>2. ScanInv' /\ McfgInv'
    BY <1>1, <1>3, <2>1, ScanStays, McfgStays DEF acpiVars
  <2>3. HoleInv'
    <3>1. CASE SetupRoot \/ SetupLow
      BY <1>3, <3>1 DEF SetupRoot, SetupLow, Phase, HoleInv
    <3>2. CASE NoRoot \/ NoLow
      BY <1>3, <3>2 DEF NoRoot, NoLow, Phase, HoleInv
    <3>3. CASE FindHole
      <4>1. /\ memory_map' = memory_map /\ pc' = "running"
            /\ bump_heap' = [start |-> LargestGap.base, size |-> LargestGap.size]
        BY <3>3 DEF FindHole, Phase
      <4>2. LargestGap' = LargestGap
        BY <2>1, <4>1, GapStays
      <4>3. LargestGap.base \in Nat /\ LargestGap.size \in Nat
        BY <1>2, GapIs DEF IsGap
      <4>4. bump_heap' # None
        <5>1. bump_heap' \in bump_heap_t
          BY <4>1, <4>3 DEF bump_heap_t
        <5>2. None \notin bump_heap_t
          BY BootAssumption
        <5> QED BY <5>1, <5>2
      <4> QED BY <4>1, <4>2, <4>4 DEF HoleInv
    <3>4. CASE NoHole
      <4>1. /\ memory_map' = memory_map /\ pc' = "halted"
            /\ bump_heap' = bump_heap
            /\ pc = "hole" /\ LargestGap.size = 0
        BY <3>4 DEF NoHole, Phase
      <4>2. LargestGap' = LargestGap
        BY <2>1, <4>1, GapStays
      <4> QED BY <1>3, <4>1, <4>2 DEF HoleInv
    <3> QED BY <1>8, <3>1, <3>2, <3>3, <3>4 DEF MemManagerInit, Next
  <2> QED BY <1>1, <2>2, <2>3 DEF KernelInitInv
<1>9. CASE BusReady \/ BusFails
  <2>1. /\ UNCHANGED acpiVars /\ mcfg' = mcfg /\ memory_map' = memory_map
        /\ low_heap' = low_heap /\ bump_heap' = bump_heap
        /\ pc = "running" /\ pc' \in {"ready", "halted"}
        /\ pc' = "ready" => mcfg.present
    BY <1>9 DEF BusReady, BusFails, Phase
  <2>2. ScanInv' /\ McfgInv'
    BY <1>1, <1>3, <2>1, ScanStays, McfgStays DEF acpiVars
  <2>3. LargestGap' = LargestGap
    BY <2>1, GapStays
  <2>4. HoleInv'
    BY <1>3, <2>1, <2>3 DEF HoleInv
  <2> QED BY <1>1, <2>2, <2>4 DEF KernelInitInv
<1>10. CASE UNCHANGED initVars
  <2>1. /\ UNCHANGED acpiVars /\ mcfg' = mcfg /\ memory_map' = memory_map
        /\ low_heap' = low_heap /\ bump_heap' = bump_heap /\ pc' = pc
    BY <1>10 DEF initVars, vars
  <2>2. ScanInv'
    BY <1>1, <2>1, ScanStays DEF ScanInv
  <2>3. McfgInv'
    BY <1>1, <2>1, McfgStays DEF acpiVars, McfgInv
  <2>4. LargestGap' = LargestGap
    BY <2>1, GapStays
  <2>5. HoleInv'
    BY <1>1, <2>1, <2>4 DEF HoleInv
  <2> QED BY <1>1, <2>2, <2>3, <2>5 DEF KernelInitInv
<1> QED
  BY <1>4, <1>5, <1>6, <1>7, <1>8, <1>9, <1>10 DEF KernelInitNext

-----------------------------------------------------------------------------
(* What it implies                                                         *)

\* Addresses that lie in an entry of a type are among those the map lists of it.
LEMMA WithinListed ==
  ASSUME NEW map, E820Map(map), NEW type, NEW b \in Nat, NEW e \in Nat,
         Within(map, type, b, e)
  PROVE  Span(b, e) \subseteq Listed(map, {type})
<1>1. PICK k \in DOMAIN map :
        map[k].type = type /\ map[k].base <= b /\ e <= EndOf(map[k])
  BY DEF Within
<1>2. map[k].base \in Nat /\ EndOf(map[k]) \in Nat
  BY EntryIs
<1>3. Span(b, e) \subseteq Span(map[k].base, EndOf(map[k]))
  BY <1>1, <1>2 DEF Span
<1> QED BY <1>1, <1>3 DEF Listed

LEMMA InRam == BootInv => HeapsInRam
<1> SUFFICES ASSUME BootInv PROVE HeapsInRam
  OBVIOUS
<1>1. E820Map(firmware) /\ E820Map(memory_map)
  BY DEF BootInv, Maps
<1>2. RootSpan \subseteq Listed(firmware, {Usable}) \cap Span(0, FourGiB)
  <2>1. CASE root_heap = None
    BY <2>1 DEF RootSpan
  <2>2. CASE root_heap # None
    <3>1. /\ root_heap.base \in Nat /\ root_heap.end \in Nat
          /\ root_heap.end <= FourGiB
          /\ Within(firmware, Usable, root_heap.base, root_heap.end)
      BY <2>2 DEF BootInv, RootPlaced
    <3>2. Span(root_heap.base, root_heap.end) \subseteq Listed(firmware, {Usable})
      BY <1>1, <3>1, WithinListed
    <3>3. Span(root_heap.base, root_heap.end) \subseteq Span(0, FourGiB)
      BY <3>1, Sizes DEF Span
    <3> QED BY <2>2, <3>2, <3>3 DEF RootSpan
  <2> QED BY <2>1, <2>2
<1>3. ASSUME low_heap # None
      PROVE 
        /\ LowSpan \subseteq Listed(firmware, {Usable}) \cap Span(0, FourGiB)
             /\ low_heap.start_addr + low_heap.nblocks * BlockSize
                  <= low_heap.region_end
  <2> DEFINE end == low_heap.start_addr + low_heap.nblocks * BlockSize
  <2>1. /\ low_heap.base \in Nat /\ low_heap.region_end \in Nat
        /\ low_heap.region_end < FourGiB
        /\ Within(memory_map, Usable, low_heap.base, low_heap.region_end)
        /\ end \in Nat /\ end <= low_heap.region_end
    BY <1>3 DEF BootInv, LowPlaced
  <2> HIDE DEF end
  <2>2. PICK k \in DOMAIN memory_map :
          /\ memory_map[k].type = Usable /\ memory_map[k].base <= low_heap.base
          /\ low_heap.region_end <= EndOf(memory_map[k])
    BY <2>1 DEF Within
  <2>3. Within(firmware, Usable, memory_map[k].base, EndOf(memory_map[k]))
    BY <2>2 DEF BootInv, MapFollowsFirmware
  <2>4. memory_map[k].base \in Nat /\ EndOf(memory_map[k]) \in Nat
    BY <1>1, EntryIs
  <2>5. Span(memory_map[k].base, EndOf(memory_map[k])) \subseteq Listed(firmware, {Usable})
    BY <1>1, <2>3, <2>4, WithinListed
  <2>6. Span(low_heap.base, end) \subseteq Span(memory_map[k].base, EndOf(memory_map[k]))
    BY <2>1, <2>2, <2>4 DEF Span
  <2>7. Span(low_heap.base, end) \subseteq Span(0, FourGiB)
    BY <2>1, Sizes DEF Span
  <2>8. LowSpan = Span(low_heap.base, end)
    BY <1>3 DEF LowSpan, end
  <2> QED BY <2>1, <2>5, <2>6, <2>7, <2>8 DEF end
<1>4. low_heap = None => LowSpan = {}
  BY DEF LowSpan
<1> QED BY <1>2, <1>3, <1>4 DEF HeapsInRam

LEMMA Apart == BootInv => HeapsApart
<1> SUFFICES ASSUME BootInv PROVE HeapsApart
  OBVIOUS
<1>1. ASSUME root_heap # None PROVE RootSpan \cap KernelSpan = {}
  <2>1. root_heap.base \in Nat /\ root_heap.end \in Nat
          /\ KernelEnd <= root_heap.base
    BY <1>1 DEF BootInv, RootPlaced
  <2> QED BY <1>1, <2>1, Sizes DEF RootSpan, KernelSpan, Span
<1>2. ASSUME root_heap # None, low_heap # None, NEW x \in RootSpan, x \in LowSpan
      PROVE  FALSE
  <2> DEFINE end == low_heap.start_addr + low_heap.nblocks * BlockSize
  <2>1. /\ root_heap.base \in Nat /\ root_heap.end \in Nat
        /\ Within(memory_map, Reserved, root_heap.base, root_heap.end)
    BY <1>2 DEF BootInv, RootPlaced
  <2>2. /\ low_heap.base \in Nat /\ low_heap.region_end \in Nat
        /\ Within(memory_map, Usable, low_heap.base, low_heap.region_end)
        /\ end \in Nat /\ end <= low_heap.region_end
    BY <1>2 DEF BootInv, LowPlaced
  <2>3. x \in Span(root_heap.base, root_heap.end)
          /\ x \in Span(low_heap.base, end)
    BY <1>2 DEF RootSpan, LowSpan
  <2> HIDE DEF end
  <2>4. /\ x \in Nat /\ root_heap.base <= x /\ x < root_heap.end
        /\ low_heap.base <= x /\ x < low_heap.region_end
    BY <2>1, <2>2, <2>3 DEF Span
  <2>5. PICK j \in DOMAIN memory_map :
          /\ memory_map[j].type = Reserved
          /\ memory_map[j].base <= root_heap.base
          /\ root_heap.end <= EndOf(memory_map[j])
    BY <2>1 DEF Within
  <2>6. PICK k \in DOMAIN memory_map :
          /\ memory_map[k].type = Usable /\ memory_map[k].base <= low_heap.base
          /\ low_heap.region_end <= EndOf(memory_map[k])
    BY <2>2 DEF Within
  <2>7. E820Map(memory_map)
    BY DEF BootInv, Maps
  <2>8. /\ memory_map[j].base \in Nat /\ EndOf(memory_map[j]) \in Nat
        /\ memory_map[k].base \in Nat /\ EndOf(memory_map[k]) \in Nat
    BY <2>7, EntryIs
  <2>9. /\ memory_map[j].base <= x /\ x < EndOf(memory_map[j])
        /\ memory_map[k].base <= x /\ x < EndOf(memory_map[k])
    BY <2>1, <2>2, <2>4, <2>5, <2>6, <2>8
  <2>10. j = k
    BY <2>4, <2>7, <2>9, SameEntry
  <2> QED BY <2>5, <2>6, <2>10 DEF Usable, Reserved
<1>3. (root_heap = None => RootSpan = {}) /\ (low_heap = None => LowSpan = {})
  BY DEF RootSpan, LowSpan
<1> QED BY <1>1, <1>2, <1>3 DEF HeapsApart

LEMMA StillPartition == BootInv => MapStillPartition
BY DEF BootInv, Maps, MapFollowsFirmware, MapStillPartition

\* The hole is the gap, and the claims are what their spans say.
LEMMA HoleIs ==
  ASSUME KernelInitInv
  PROVE  /\ E820Map(memory_map) /\ IsGap(LargestGap)
         /\ bump_heap # None => /\ bump_heap.start = LargestGap.base
                                /\ bump_heap.size = LargestGap.size
         /\ pc = "halted" /\ low_heap # None /\ bump_heap = None => LargestGap.size = 0
         /\ \A x \in Nat : Covered(Claimed, x) => x \in ClaimedSpan
<1>1. E820Map(memory_map) /\ McfgTable(mcfg)
  BY DEF KernelInitInv, BootInv, Maps, McfgInv
<1>2. IsGap(LargestGap) /\ Claimed \in Seq(Claim)
  BY <1>1, GapIs, ClaimedIs
<1>3. ASSUME NEW x, Covered(Claimed, x), x \in Nat PROVE x \in ClaimedSpan
  <2>1. PICK k \in DOMAIN Claimed : Claimed[k].base <= x /\ x < Claimed[k].end
    BY <1>3 DEF Covered
  <2>2. Claimed[k].base \in Nat /\ Claimed[k].end \in Nat
    BY <1>2 DEF Claim, range_t
  <2>3. x \in Span(Claimed[k].base, Claimed[k].end)
    BY <1>3, <2>1, <2>2 DEF Span
  <2> QED BY <2>3 DEF ClaimedSpan
<1> QED BY <1>1, <1>2, <1>3 DEF KernelInitInv, HoleInv

LEMMA Unclaimed == KernelInitInv => HoleUnclaimed
<1> SUFFICES ASSUME KernelInitInv, NEW x \in HoleSpan,
                    x \in Listed(memory_map, {Usable, Reserved}) \cup FixedSpan
                            \cup RootSpan \cup LowSpan
             PROVE  FALSE
  BY DEF HoleUnclaimed
<1>1. BootInv /\ E820Map(memory_map) /\ McfgTable(mcfg)
  BY DEF KernelInitInv, BootInv, Maps, McfgInv
<1>2. /\ x \in Span(LargestGap.base, LargestGap.base + LargestGap.size)
  BY HoleIs DEF HoleSpan
<1>3. /\ LargestGap.base \in Nat /\ LargestGap.size \in Nat
      /\ LargestGap.base + LargestGap.size <= FourGiB
      /\ ~Covered(Claimed, x)
  BY <1>2, HoleIs DEF IsGap
<1>4. x \in Nat /\ x < FourGiB
  BY <1>2, <1>3, Sizes DEF Span
<1>5. \A k \in DOMAIN Added : k <= MaxEntries + 8 =>
        x \notin Span(Added[k].base, Added[k].end)
  BY <1>1, <1>3, <1>4, ClaimedIs
<1>6. x \notin Listed(memory_map, {Usable, Reserved})
  <2>1. ASSUME NEW k \in DOMAIN memory_map,
               x \in Span(memory_map[k].base, EndOf(memory_map[k]))
        PROVE  FALSE
    <3>1. /\ k \in DOMAIN Added /\ k <= MaxEntries + 8
          /\ Added[k] = [base |-> memory_map[k].base, end |-> EndOf(memory_map[k])]
      BY <1>1, AddedIs
    <3> QED BY <1>5, <2>1, <3>1
  <2> QED BY <1>1, <2>1, ListedIs
<1>7. x \notin FixedSpan
  <2>1. ASSUME NEW d \in DOMAIN FixedDevices,
               x \in Span(FixedDevices[d].base, FixedDevices[d].end)
        PROVE  FALSE
    <3>1. PICK k \in DOMAIN Added : k <= MaxEntries + 8
            /\ Added[k] = FixedDevices[d]
      BY <1>1, AddedIs
    <3> QED BY <1>5, <2>1, <3>1
  <2> QED BY <2>1 DEF FixedSpan
<1>8. \A type : Listed(memory_map, {type}) \subseteq Listed(memory_map, {Usable, Reserved})
  BY <1>1, EntryIs DEF Listed
<1>9. RootSpan \subseteq Listed(memory_map, {Usable, Reserved})
  <2>1. CASE root_heap # None
    <3>1. /\ root_heap.base \in Nat /\ root_heap.end \in Nat
          /\ Within(memory_map, Reserved, root_heap.base, root_heap.end)
      BY <1>1, <2>1 DEF BootInv, RootPlaced
    <3>2. Span(root_heap.base, root_heap.end) \subseteq Listed(memory_map, {Reserved})
      BY <1>1, <3>1, WithinListed
    <3> QED BY <1>8, <2>1, <3>2 DEF RootSpan
  <2> QED BY <2>1 DEF RootSpan
<1>10. LowSpan \subseteq Listed(memory_map, {Usable, Reserved})
  <2>1. CASE low_heap # None
    <3> DEFINE end == low_heap.start_addr + low_heap.nblocks * BlockSize
    <3>1. /\ low_heap.base \in Nat /\ low_heap.region_end \in Nat
          /\ Within(memory_map, Usable, low_heap.base, low_heap.region_end)
          /\ end \in Nat /\ end <= low_heap.region_end
      BY <1>1, <2>1 DEF BootInv, LowPlaced
    <3>2. LowSpan = Span(low_heap.base, end)
      BY <2>1 DEF LowSpan
    <3> HIDE DEF end
    <3>3. Span(low_heap.base, low_heap.region_end) \subseteq Listed(memory_map, {Usable})
      BY <1>1, <3>1, WithinListed
    <3>4. Span(low_heap.base, end) \subseteq Span(low_heap.base, low_heap.region_end)
      BY <3>1 DEF Span
    <3> QED BY <1>8, <3>2, <3>3, <3>4
  <2> QED BY <2>1 DEF LowSpan
<1> QED BY <1>6, <1>7, <1>9, <1>10

LEMMA Largest == KernelInitInv => HoleLargest
<1> SUFFICES ASSUME KernelInitInv PROVE HoleLargest
  OBVIOUS
<1> DEFINE size == LargestGap.size
<1>1. /\ size \in Nat /\ FourGiB \in Nat /\ LargestGap.base \in Nat
      /\ LargestGap.base + size <= FourGiB
      /\ \A b \in Nat, e \in Nat :
           b < e /\ e <= FourGiB /\ (\A x \in Span(b, e) : ~Covered(Claimed, x))
             => e - b <= size
  BY HoleIs, Sizes DEF IsGap
<1> HIDE DEF size
<1>2. ASSUME NEW b \in Nat, NEW e \in Nat, b < e, e <= FourGiB,
             Span(b, e) \cap ClaimedSpan = {}
      PROVE  e - b <= size
  <2>1. \A x \in Span(b, e) : ~Covered(Claimed, x)
    BY <1>2, HoleIs DEF Span
  <2> QED BY <1>1, <1>2, <2>1
<1>3. ASSUME bump_heap # None, NEW b \in 0 .. FourGiB - bump_heap.size - 1,
             Span(b, b + bump_heap.size + 1) \cap ClaimedSpan = {}
      PROVE  FALSE
  <2>1. bump_heap.size = size
    BY <1>3, HoleIs DEF size
  <2> DEFINE e == b + size + 1
  <2>2. b \in Nat /\ e \in Nat /\ b < e /\ e <= FourGiB /\ ~(e - b <= size)
    BY <1>1, <1>3, <2>1
  <2>3. Span(b, e) \cap ClaimedSpan = {}
    BY <1>3, <2>1
  <2> HIDE DEF e
  <2> QED BY <1>2, <2>2, <2>3
<1>4. ASSUME pc = "halted", low_heap # None, bump_heap = None, NEW x \in Span(0, FourGiB)
      PROVE  x \in ClaimedSpan
  <2>1. size = 0
    BY <1>4, HoleIs DEF size
  <2>2. x \in Nat /\ x + 1 \in Nat /\ x < x + 1 /\ x + 1 <= FourGiB
          /\ ~((x + 1) - x <= 0)
    BY <1>1 DEF Span
  <2>3. \A y \in Span(x, x + 1) : y = x
    BY <2>2 DEF Span
  <2> QED BY <1>2, <2>1, <2>2, <2>3
<1> QED BY <1>3, <1>4 DEF HoleLargest

LEMMA Exact == KernelInitInv => InitExact
<1> SUFFICES ASSUME KernelInitInv, Short
             PROVE  /\ RSD_T # Null =>
                         /\ Sound(area[scan]) /\ area[scan].address = RSD_T
                         /\ \A k \in 1 .. scan - 1 : ~Sound(area[k])
                    /\ pc = "halted" /\ RSD_T = Null => \A k \in DOMAIN area : ~Sound(area[k])
                    /\ pc = "ready" => Describes(RSD_T) /\ bump_heap # None
  BY DEF InitExact, Short
<1>1. /\ area \in Seq(rsdp_t) /\ scan \in 1 .. Len(area) + 1
      /\ \A k \in 1 .. scan - 1 : ~Sound(area[k])
      /\ RSD_T # Null => area[scan].address = RSD_T /\ Sound(area[scan])
      /\ pc = "halted" /\ RSD_T = Null => scan > Len(area)
  BY DEF KernelInitInv, ScanInv
<1>2. Len(area) \in Nat /\ DOMAIN area = 1 .. Len(area)
  BY <1>1
<1>3. ASSUME scan > Len(area), NEW k \in DOMAIN area PROVE k \in 1 .. scan - 1
  BY <1>1, <1>2, <1>3
<1>4. pc = "ready" => Describes(RSD_T) /\ bump_heap # None
  BY DEF KernelInitInv, McfgInv, HoleInv
<1> QED BY <1>1, <1>3, <1>4

-----------------------------------------------------------------------------
(* Theorems                                                                *)

\* init, mem_manager_init in it, keeps the invariant: the kernel's map stays an E820
\* map of what firmware listed, the heaps lie in it, the scan for the root pointer has
\* passed over no sound one, and the bump heap is the gap that find_mmio_hole found.
THEOREM KernelInitInvariance == KernelInitSpec => []KernelInitInv
<1>1. KernelInitInit => KernelInitInv
  BY KernelInitInvInit
<1>2. KernelInitInv /\ [KernelInitNext]_initVars => KernelInitInv'
  BY KernelInitInvNext
<1> QED BY <1>1, <1>2, PTL DEF KernelInitSpec

LEMMA BootPart == KernelInitInv => BootInv
BY DEF KernelInitInv

\* Header, table and blocks of both heaps are in memory that firmware said is usable
\* and that is mapped, and the low heap stays within the size it was asked for.
THEOREM HeapsPlacedInRam == KernelInitSpec => []HeapsInRam
BY KernelInitInvariance, BootPart, InRam, PTL

\* The root heap touches neither the kernel image nor the low heap.
THEOREM HeapsNeverMeet == KernelInitSpec => []HeapsApart
BY KernelInitInvariance, BootPart, Apart, PTL

\* The map that the kernel keeps is one that firmware could have delivered, and lists
\* what firmware listed.
THEOREM MapKeepsMemory == KernelInitSpec => []MapStillPartition
BY KernelInitInvariance, BootPart, StillPartition, PTL

\* What find_mmio_hole gives to the bump allocator holds no memory, no fixed device
\* and neither heap, whatever the order in which firmware lists the map.
THEOREM HoleHoldsNothing == KernelInitSpec => []HoleUnclaimed
BY KernelInitInvariance, Unclaimed, PTL

\* The walk over the sorted ranges misses no longer gap, and finds one if there is one.
THEOREM HoleIsLargest == KernelInitSpec => []HoleLargest
BY KernelInitInvariance, Largest, PTL

\* ACPI_init takes the first sound root pointer, and no device is handed out without
\* an MCFG table and a hole.
THEOREM InitIsExact == KernelInitSpec => []InitExact
BY KernelInitInvariance, Exact, PTL
=============================================================================
