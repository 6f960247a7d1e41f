----------------------------- MODULE BootMemory -----------------------------
(***************************************************************************)
(* mem_manager_init (mem_manager/manager.c): from the firmware's memory    *)
(* map it places the root heap above the kernel, reserves it in the map,   *)
(* places the low heap in what is left, and looks for the largest part of  *)
(* the first 4 GiB that nothing claims, which the bump allocator hands out *)
(* to PCI devices.  One phase of the function is one action; every phase   *)
(* but the last can halt the machine.                                      *)
(*                                                                         *)
(* Addresses are natural numbers in a scaled-down address space: FourGiB   *)
(* stands for 2^32 and the other sizes keep their order and their          *)
(* divisibility.                                                           *)
(***************************************************************************)
EXTENDS Alignment, Sequences, FiniteSets, SequencesExt

CONSTANTS
  FourGiB,       \* MAPPED_LIMIT and FOUR_GIB
  Page,          \* 0x1000
  BlockSize,     \* 512
  EntrySize,     \* sizeof(allocation_t)
  HeaderSize,    \* sizeof(heap_t)
  KernelStart,   \* KERNEL_START
  KernelEnd,     \* kernel_end
  RootSize,      \* size, a multiple of a page
  LowSize,       \* low_heap_size
  MaxEntries,    \* E820_MAX_ENTRIES
  FixedDevices,  \* sequence of [base, end]: I/O APIC, HPET, local APIC, flash
  BusSpan,       \* 1 << 20: the bytes of configuration space of one bus
  StartBusUnit,  \* 1 << 16: start_bus is byte 2 of the second quadword
  EndBusUnit,    \* 1 << 24: end_bus is byte 3 of it
  Buses,         \* 256
  Machines,      \* what firmware may deliver: [map, mcfg]
  None           \* the NULL of the heap pointers

range_t      == [base : Nat, end : Nat]
bump_heap_t  == [start : Nat, size : Nat]
mcfg_entry_t == [base : Nat, start_bus : Nat, end_bus : Nat]

\* The requested sizes leave room for the headers, and heaps are whole pages;
\* the array of ranges has room for the fixed devices.
ASSUME BootAssumption ==
  /\ {FourGiB, Page, BlockSize, EntrySize, HeaderSize, LowSize, RootSize}
       \subseteq Nat \ {0}
  /\ {KernelStart, KernelEnd, MaxEntries} \subseteq Nat
  /\ RootSize % Page = 0 /\ RootSize % BlockSize = 0
  /\ LowSize >= HeaderSize + Page - 1 + BlockSize + EntrySize
  /\ KernelStart < KernelEnd
  /\ {BusSpan, StartBusUnit, Buses} \subseteq Nat \ {0}
  /\ EndBusUnit = StartBusUnit * Buses /\ FourGiB = EndBusUnit * Buses
  /\ FixedDevices \in Seq(range_t) /\ Len(FixedDevices) <= 8
  /\ None \notin bump_heap_t

Usable   == "usable"
Reserved == "reserved"

EndOf(e) == e.base + e.length
Span(from, to) == from .. to - 1

e820_entry == [base : Nat, length : Nat, type : {Usable, Reserved}]

\* An E820 map: its entries, in any order, share no address.
E820Map(map) ==
  /\ map \in Seq(e820_entry) /\ Len(map) <= MaxEntries
  /\ \A j, k \in DOMAIN map :
       j # k => Span(map[j].base, EndOf(map[j]))
                  \cap Span(map[k].base, EndOf(map[k])) = {}

\* An MCFG table, or the words that are taken for one.
McfgTable(table) ==
  IF table.present THEN table.entries \in Seq(mcfg_entry_t) ELSE table.words \in Seq(Nat)

ASSUME MachineAssumption == \A m \in Machines : E820Map(m.map) /\ McfgTable(m.mcfg)

VARIABLES
  pc,         \* the next phase of mem_manager_init
  firmware,   \* history: the memory map as the bootloader left it
  mcfg,       \* ACPI's MCFG table: its ECAM entries, or, where there is none, the
              \* words at address 0 that are taken for it
  memory_map, \* the map the kernel keeps: a sequence of e820_entry
  root_heap,  \* [base, start_addr, end], or None
  low_heap,   \* [base, region_end, start_addr, nblocks], or None
  bump_heap   \* [start, size], or None

vars == <<pc, firmware, mcfg, memory_map, root_heap, low_heap, bump_heap>>

Later(a, b)   == IF a > b THEN a ELSE b
Earlier(a, b) == IF a < b THEN a ELSE b

Phase(from, to) == pc = from /\ pc' = to

\* The index of the first entry of the map that satisfies P, if there is one.
FirstEntry(P(_), k) ==
  /\ k \in DOMAIN memory_map
  /\ P(memory_map[k])
  /\ \A j \in 1 .. k - 1 : ~P(memory_map[j])

-----------------------------------------------------------------------------
(* The root heap                                                           *)

TableBytes == EntrySize * (RootSize \div BlockSize)
RootTotal  == HeaderSize + TableBytes + (Page - 1) + RootSize

\* Mutant: the heap may begin inside the kernel image.
RootStartAtBase(e) == RoundUp(e.base, Page)

RootStart(e) == RoundUp(Later(e.base, KernelEnd), Page)

RootFits(e) ==
  /\ e.type = Usable
  /\ Earlier(EndOf(e), FourGiB) - RootStart(e) >= RootTotal

\* start_addr: the first page boundary after the header and the table.
RootData(start) == RoundUp(start + HeaderSize + TableBytes, Page)

\* Mutant: the rest is listed from the heap's data on.
RestBaseEarly(heap) == heap.start_addr

RestBase(heap) == heap.end

RestListed(chosen, heap) == EndOf(chosen) > heap.end /\ Len(memory_map) < MaxEntries

\* The chosen entry is cut at the end of the heap and reserved; what was left of
\* it becomes an entry of its own if the map has room for one.
ReserveRoot(k, heap) ==
  LET chosen == memory_map[k]
      cut    == [memory_map EXCEPT ![k].type = Reserved,
                                   ![k].length = heap.end - chosen.base]
      rest   == [base |-> RestBase(heap), length |-> EndOf(chosen) - RestBase(heap),
                 type |-> Usable]
  IN IF RestListed(chosen, heap) THEN Append(cut, rest) ELSE cut

\* The table is cleared, and the map, copied into the root heap, keeps its value.
SetupRoot ==
  /\ Phase("root", "low")
  /\ \E k \in DOMAIN memory_map :
       /\ FirstEntry(RootFits, k)
       /\ LET start == RootStart(memory_map[k])
              data  == RootData(start)
              heap  == [base |-> start, start_addr |-> data,
                        end |-> data + RootSize]
          IN /\ root_heap' = heap
             /\ memory_map' = ReserveRoot(k, heap)
  /\ UNCHANGED <<firmware, mcfg, low_heap, bump_heap>>

NoRoot ==
  /\ Phase("root", "halted")
  /\ \A k \in DOMAIN memory_map : ~RootFits(memory_map[k])
  /\ UNCHANGED <<firmware, mcfg, memory_map, root_heap, low_heap, bump_heap>>

-----------------------------------------------------------------------------
(* The low heap                                                            *)

\* e820_find_region(E820_USABLE, low_heap_size, 0, UINT32_MAX, 0x1000).
RegionStart(e) == RoundUp(e.base, Page)
RegionEnd(e)   == Earlier(EndOf(e), FourGiB - 1)
RegionFits(e)  == e.type = Usable /\ RegionEnd(e) - RegionStart(e) >= LowSize

\* Mutant: no space is set aside for rounding the first block up to a page.
LowBlocksNoSlack == (LowSize - HeaderSize) \div (BlockSize + EntrySize)

LowBlocks == (LowSize - HeaderSize - (Page - 1)) \div (BlockSize + EntrySize)

SetupLow ==
  /\ Phase("low", "hole")
  /\ \E k \in DOMAIN memory_map :
       /\ FirstEntry(RegionFits, k)
       /\ LET base == RegionStart(memory_map[k])
          IN low_heap' = [base |-> base, region_end |-> base + LowSize,
                          start_addr |-> RoundUp(base + HeaderSize
                                                   + LowBlocks * EntrySize, Page),
                          nblocks |-> LowBlocks]
  /\ UNCHANGED <<firmware, mcfg, memory_map, root_heap, bump_heap>>

NoLow ==
  /\ Phase("low", "halted")
  /\ \A k \in DOMAIN memory_map : ~RegionFits(memory_map[k])
  /\ UNCHANGED <<firmware, mcfg, memory_map, root_heap, low_heap, bump_heap>>

-----------------------------------------------------------------------------
(* The MMIO hole                                                           *)

RangeAdd(rs, r) ==
  IF r.base >= FourGiB \/ r.end <= r.base \/ Len(rs) >= MaxEntries + 8
    THEN rs
    ELSE Append(rs, [base |-> r.base, end |-> Earlier(r.end, FourGiB)])

\* The quadwords after the 36-byte header of the table: 8 reserved bytes, then base
\* and bus numbers of each entry.  The pointer is not compared with NULL.
McfgWords ==
  IF ~mcfg.present THEN mcfg.words
  ELSE [i \in 1 .. 2 * Len(mcfg.entries) + 1 |->
          LET e == mcfg.entries[i \div 2]
          IN IF i = 1 THEN 0
             ELSE IF i % 2 = 0 THEN e.base
             ELSE e.start_bus * StartBusUnit + e.end_bus * EndBusUnit]

\* find_mmio_hole reads 16-byte entries from the end of the header on, that is
\* from the reserved bytes: word 2i - 1 is taken for a base and word 2i for the
\* bus numbers.
EcamRange(i) ==
  LET base   == McfgWords[2 * i - 1]
      second == McfgWords[2 * i]
      start_bus == (second \div StartBusUnit) % Buses
      end_bus   == (second \div EndBusUnit) % Buses
  IN [base |-> base + start_bus * BusSpan,
      end  |-> base + (end_bus + 1) * BusSpan]

\* What is passed to range_add, and the ranges after the first n calls.
Added ==
  [k \in DOMAIN memory_map |->
     [base |-> memory_map[k].base, end |-> EndOf(memory_map[k])]]
    \o FixedDevices \o [i \in 1 .. Len(McfgWords) \div 2 |-> EcamRange(i)]

ranges[n \in 0 .. Len(Added)] ==
  IF n = 0 THEN <<>> ELSE RangeAdd(ranges[n - 1], Added[n])

Claimed == ranges[Len(Added)]

\* One round of the insertion sort: r goes behind the last range whose base is not
\* above its own.
Inserted(rs, r) ==
  LET last == Max({0} \cup {j \in DOMAIN rs : rs[j].base <= r.base})
  IN InsertAt(rs, last + 1, r)

sorted[n \in 0 .. Len(Claimed)] ==
  IF n = 0 THEN <<>> ELSE Inserted(sorted[n - 1], Claimed[n])

\* Mutant: the cursor moves to the end of every range, also of one that lies
\* within an earlier one.
CursorBack(w, r) == r.end

Cursor(w, r) == Later(r.end, w.cursor)

\* Mutant: the first gap is kept.
BetterFirst(w, r) == r.base > w.cursor /\ w.size = 0

Better(w, r) == r.base > w.cursor /\ r.base - w.cursor > w.size

\* One step of the walk: the gap before the range r, if it is the largest yet.
Walk(w, r) ==
  [cursor |-> Cursor(w, r),
   base   |-> IF Better(w, r) THEN w.cursor ELSE w.base,
   size   |-> IF Better(w, r) THEN r.base - w.cursor ELSE w.size]

\* The walk over the ranges in order of their bases, and the gap above the last.
Bounds == Append(sorted[Len(Claimed)], [base |-> FourGiB, end |-> FourGiB])

walked[n \in 0 .. Len(Bounds)] ==
  IF n = 0 THEN [cursor |-> 0, base |-> 0, size |-> 0]
  ELSE Walk(walked[n - 1], Bounds[n])

LargestGap == walked[Len(Bounds)]

FindHole ==
  /\ Phase("hole", "running")
  /\ LargestGap.size > 0
  /\ bump_heap' = [start |-> LargestGap.base, size |-> LargestGap.size]
  /\ UNCHANGED <<firmware, mcfg, memory_map, root_heap, low_heap>>

NoHole ==
  /\ Phase("hole", "halted")
  /\ LargestGap.size = 0
  /\ UNCHANGED <<firmware, mcfg, memory_map, root_heap, low_heap, bump_heap>>

-----------------------------------------------------------------------------
Init ==
  /\ pc = "root"
  /\ \E m \in Machines : firmware = m.map /\ mcfg = m.mcfg
  /\ memory_map = firmware
  /\ root_heap = None
  /\ low_heap = None
  /\ bump_heap = None

Next == SetupRoot \/ NoRoot \/ SetupLow \/ NoLow \/ FindHole \/ NoHole

Spec == Init /\ [][Next]_vars

-----------------------------------------------------------------------------
(* Properties                                                              *)

Listed(map, types) ==
  UNION {Span(map[k].base, EndOf(map[k])) :
           k \in {j \in DOMAIN map : map[j].type \in types}}

KernelSpan == Span(KernelStart, KernelEnd)
RootSpan   == IF root_heap = None THEN {} ELSE Span(root_heap.base, root_heap.end)
LowSpan    == IF low_heap = None THEN {}
                ELSE Span(low_heap.base, low_heap.start_addr
                                           + low_heap.nblocks * BlockSize)
HoleSpan   == IF bump_heap = None THEN {}
                ELSE Span(bump_heap.start, bump_heap.start + bump_heap.size)

\* Header, table and blocks of each heap lie in memory that the firmware said is
\* usable and that is mapped, the low heap's within the size asked for.
HeapsInRam ==
  /\ RootSpan \cup LowSpan \subseteq Listed(firmware, {Usable}) \cap Span(0, FourGiB)
  /\ low_heap # None =>
       low_heap.start_addr + low_heap.nblocks * BlockSize <= low_heap.region_end

\* The root heap does not touch the kernel image, and the low heap, placed from
\* the map the root heap was cut out of, does not touch the root heap.
HeapsApart == RootSpan \cap KernelSpan = {} /\ RootSpan \cap LowSpan = {}

\* Cutting the root heap out of the map loses no memory that firmware listed
\* (unless the map is full) and lists none twice.
MapStillPartition ==
  /\ E820Map(memory_map)
  /\ Len(firmware) < MaxEntries =>
       Listed(memory_map, {Usable, Reserved}) = Listed(firmware, {Usable, Reserved})

FixedSpan == UNION {Span(FixedDevices[d].base, FixedDevices[d].end) :
                      d \in DOMAIN FixedDevices}

\* The hole given to the bump allocator holds nothing that the map lists, no
\* fixed device and no heap.
HoleUnclaimed ==
  HoleSpan \cap (Listed(memory_map, {Usable, Reserved}) \cup FixedSpan
                   \cup RootSpan \cup LowSpan) = {}

ClaimedSpan == UNION {Span(Claimed[k].base, Claimed[k].end) : k \in DOMAIN Claimed}

\* No run of unclaimed addresses is longer than the hole the walk found; a halt
\* for want of a hole means that there is none.
HoleLargest ==
  /\ bump_heap # None =>
       ~ \E b \in 0 .. FourGiB - bump_heap.size - 1 :
           Span(b, b + bump_heap.size + 1) \cap ClaimedSpan = {}
  /\ pc = "halted" /\ low_heap # None /\ bump_heap = None => Span(0, FourGiB) \subseteq ClaimedSpan

EcamSpan ==
  LET e == mcfg.entries
  IN UNION {Span(e[i].base + e[i].start_bus * BusSpan,
                 e[i].base + (e[i].end_bus + 1) * BusSpan) : i \in DOMAIN e}

\* The hole avoids the ECAM windows that the MCFG table describes: find_mmio_hole
\* reads that table to claim them, as devices that the E820 map usually leaves
\* out.
HoleAvoidsEcam == HoleSpan \cap EcamSpan = {}

\* Everything up to the end of the root heap is reserved, the kernel image
\* included, so that the low heap never lies on the kernel.
KernelReserved == LowSpan \cap KernelSpan = {}
=============================================================================
