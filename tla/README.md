# Ketone: a TLA+ verification project

Ketone is a 64-bit hobby kernel in C for BIOS PCs. It boots from two assembly
stages, finds the ACPI tables, sets up its memory manager from the firmware's
E820 map, enumerates PCIe devices and moves their base address registers (BARs),
finds SATA disks and prints the file `/ketone/hello` of every exFAT partition.
This project models that path from `init` to the end of `kernel_main`, and the
ATA driver that the disk dispatch offers beside SATA. Paths below are relative
to `src/os/kernel/` of the repository.

The kernel has one thread and takes no interrupts, so inside the kernel nothing
interleaves. What is concurrent is the hardware: disks execute commands while
the driver polls, and a PCI device decodes whatever its registers hold between
two writes of the driver. The rest of the difficulty is in long sequences of
calls (the allocators), in arithmetic at boundaries, in what firmware and disks
may hold, and in reads that fail in the middle of something.

## Inventory

| Part | State | Operations | Used by / uses |
|---|---|---|---|
| block allocator (`mem_manager/allocator.c`) | table of `allocation_t` per heap | `alloc`, `alloc_aligned`, `free` | everything, through `kalloc`, `low_kalloc`, ... |
| bump allocator (`mem_manager/bump_allocator.c`) | `start`, `next`, `size` | `bump_alloc`, `bump_alloc_aligned` | PCIe remapping |
| memory manager (`mem_manager/manager.c`) | E820 map, two heaps, bump heap | `mem_manager_init`, `e820_find_region`, `low_heap_init`, `find_mmio_hole` | firmware map, ACPI's MCFG table |
| PCIe (`drivers/component_bus/pcie/pcie.c`) | device array, the devices' registers | `PCIE_get_devices`, `PCIE_remap_BAR` | bump allocator, root heap |
| component bus (`drivers/component_bus/common.c`) | device array | filters by class | PCIe; used by SATA |
| SATA (`drivers/disk/sata/sata.c`) | port structures, adapter registers | `SATA_get_disks`, `SATA_port_configure`, `SATA_execute_command`, `SATA_read` | low heap, component bus |
| ATA (`drivers/disk/ata/ata.c`) | registers of a channel | `ATA_identify`, `ATA_read`, `ATA_write` | disk dispatch (not used at boot) |
| disk dispatch (`drivers/disk/common.c`) | none | `get_disk_devices`, `read_disk`, `write_disk` | ATA, SATA |
| MBR (`drivers/fs/mbr/mbr.c`) | none | `MBR_get_partitions` | disk dispatch, root heap |
| exFAT (`drivers/fs/exfat/exfat.c`) | the mounted volume, an open file | `EXFAT_init`, `EXFAT_open_file`, `EXFAT_read_file`, `EXFAT_read_file_ALL` | disk dispatch, root heap |
| ACPI (`drivers/acpi/acpi.c`) | pointer to the RSDT | `ACPI_init`, `ACPI_get_table` | memory manager, PCIe |
| start (`kernel.c`) | none | `init`, `kernel_main` | everything |
| utilities (`utils.c`) | none | `memset`, `memcpy`, `memcmp`, `strcmp`, `halt` | everything |
| serial, port I/O, bootloader | | | |

What makes each part correct:

* allocators: nothing is given out twice, what is given out is where and as
  large as asked, a refusal is justified, the scans end;
* memory manager: kernel, heaps, devices and hole do not overlap;
* PCIe: no device ever decodes a value that is only a probe, sizes are right,
  moved windows are apart, error paths restore everything;
* component bus: a query finds every matching device and no other;
* ACPI and start: the first sound root table is used, and nothing that was
  computed from a missing table;
* SATA: a read that reports success delivers the sector asked for, an issued
  command is left alone, no path loses memory or waits for ever;
* ATA: the address reaches the drive whole, a read sees what was written, only
  disks are taken for disks, every wait ends;
* MBR, exFAT: where names are of characters of one byte, a file is found if and
  only if it is there; its data is complete or refused, nothing outside the volume is read, every exit frees what it
  allocated, and the kernel comes to its end.

`PROJECT.json` lists the hazards at their lines.

## Modules

| Module | Models | Notes |
|---|---|---|
| `Alignment` | the power-of-two tricks of both allocators | operators only |
| `HeapGeometry` | one `heap_t`: blocks, addresses, what a request needs | constants and assumptions |
| `HeapContract` | what `alloc`, `alloc_aligned` and `free` promise | abstract specification |
| `BlockHeap` | `allocator.c` | one loop iteration per step; implements `HeapContract` |
| `BumpHeap` | `bump_allocator.c` | 64-bit arithmetic modulo `Word` |
| `BootMemory`, `MCBootMemory` | `mem_manager_init` and what it calls | one action per phase and per halt that can be reached |
| `Acpi` | `acpi.c` | one place of the BIOS area per step |
| `KernelInit`, `MCKernelInit` | `init` | composes `Acpi`, `BootMemory` and `PCIE_init`'s use of the MCFG table |
| `Pcie` | `PCIE_get_devices`, `PCIE_remap_BAR`, the registers | composes `BumpHeap` by `INSTANCE` |
| `ComponentBus`, `MCPcie` | `component_bus/common.c` | extends `Pcie`, whose devices it is asked for |
| `Sata` | `sata.c` and, external, the AHCI adapter | the low heap appears as `HeapContract` describes it |
| `Ata`, `MCAta` | `ata.c` with its part of `disk/common.c`; external, the drives | one register access per step |
| `ExFatVolume` | what is on an exFAT volume | definition of a volume, no code; for the properties and the proofs |
| `ExFat` | `EXFAT_open_file`, the two reading functions, `read_disk` | extends `ExFatVolume`; one cluster or FAT word per step |
| `KernelMain`, `MCKernelMain` | `kernel_main`, `mbr.c`, `EXFAT_init` | extends `ExFat`; `MCKernelMain` holds the disk images |
| `MemUtils` | `memset` | |
| `BlockHeapProofs`, `BumpHeapProofs`, `KernelInitProofs`, `PcieProofs`, `SataProofs`, `AtaProofs`, `KernelMainProofs` | | theorems about the module of that name; `PcieProofs` also about `ComponentBus`, `KernelInitProofs` about `BootMemory` |
| `AlignmentProofs` | | lemmas on rounding, and the least-number principle |

**BlockHeap.** `blocks` is the table, `i` the scan position, `call` the call in
progress with its arguments, `live` what callers hold (history). `Enter` starts
a call; each iteration of `alloc`'s loop is `AllocTake`, `AllocOverrun`,
`AllocHop` (a collision: both `i++` are executed) or `AllocSkip`; each iteration
of `alloc_aligned`'s is `AlignedJump`, `AlignedTake` or `AlignedSkip`. When the
run reaches past the table, the loop reads whatever follows it: `AllocOverrun`
and `AllocHop` are then both possible. Entries past the table are outside the
model, and so is what overwriting them damages.

**BootMemory.** The phases are those of the function: place the root heap and
reserve it in the map, place the low heap, find the hole. `EcamRange` reads the
MCFG table as `find_mmio_hole` does, from offset 36, in the quadwords that are
really there. `ranges` are the calls of `range_add`, `sorted` the insertion sort,
`walked` the walk over the sorted array that keeps the largest gap. Addresses are scaled down (4 GiB is 64). The two runs
that show it violated start from `BootMemory` alone.

**Acpi, KernelInit.** `area` is the BIOS area as the search sees it: at each place,
whether the signature is there, the checksum of the root pointer, the address of
the root table and the four bytes behind it. `KernelInit` puts the phases of `init`
one after the other. `find_mmio_hole` uses the MCFG table without asking whether
there is one; `mcfg` is then the words at address 0, and the model goes on with
them, as the code does, until `PCIE_init` refuses (`BusFails`).

**ComponentBus.** `Matches` is the condition of a query, `Put` one iteration of the
loop that fills the answer, `Filled` the loop and `Answer` the cut
at its end. Class codes matter to nothing else in `Pcie` and are chosen when the question is asked.

**Pcie.** `hw` says what each register implements, `reg` and `decode` what the
registers hold; register kinds cover 32-bit, 64-bit, I/O, 16-bit I/O, reserved,
unimplemented and immovable registers. Every write that a device could see
between two others is a step. `k_bump_alloc_aligned` has no `return`; the
makefile builds without optimisation, where the callee's value is still in the
return register, and that value is what the model uses. The address the bump
allocator gives always passes the checks of `PCIE_remap_BAR` (part of
`MovedApart`), so its rejections are not actions.

**Sata.** The driver is a program counter over the waits of the code; the
adapter's steps interleave with it freely. `punctual` distinguishes machines in
which a working port answers before ten million polls from ones in which it may
be late. A port that stopped on an error (`wedged`) answers no more.

**Ata.** `regs` are the task-file registers of a channel, each with the last two
bytes written to it; both drives of the channel share them, and the drive register
says which one a command is for. A busy drive ignores writes. A `prompt` drive is
never seen busy; one that is not may answer at any time or never, also while the
driver is already talking to the other drive. A faulty drive may end any command
with an error. The words of a sector are transferred in one step. `shadow` is what
acknowledged writes should have left on the disks.

**ExFat, KernelMain.** A sector is a sequence of cells: directory entries, FAT words,
pieces of data, the boot sector's or the MBR's fields. Every read of a `flaky` disk
may fail, and one past its end does. `call` is the call in progress with its cluster
buffer; what `EXFAT_open_file` reads behind that buffer is chosen freely (`Junk`).
A FAT that cannot be read yields cluster 0, as in `EXFAT_get_fat_entry`.
`EXFAT_init` takes the fields of whatever it finds, or of a buffer that was never
read into (`Stale`). A look into a FAT that is not there, or at a sector that is none,
yields one of the words `Stray`. `callers` includes `kernel_main` itself and programs that open
other paths or use `EXFAT_read_file`. `FilesAt` is the loop over the secondary
entries of a file entry, `ListedOf` the loop of `MBR_get_partitions` over the table.

A name is a sequence of pieces, as the entries on disk hold it. A piece carries the
text of the lower bytes of its UTF-16 units, whether a NUL ends it, and the upper bytes.
`Narrow` translates the cast of `exfat.c:187`, which drops the upper bytes, so that a unit
may alias another or become the NUL that ends the string. `CString` is the part of a name before the first NUL, which is
all that `strcmp` compares (`Stops`).

If `EXFAT_read_file_ALL` leaves the size unset, `kernel_main` uses whatever is in it:
`ShowHello` prints any number of bytes from address 0 on, up to the `Mapped` ones, and
`PrintFaults` runs past them. The boot loader maps 4 GiB (`bootloader_s2.asm:80`) and the
kernel has no handler for the fault, so that the machine does not come back to the loop;
the reset that follows is not modelled.

**ExFatVolume.** Each partition carries, as a ghost that no action looks at, the files
and directories that are on it, with their clusters, their contents and whether the
chain is whole, ends too early or leads back into itself. `IsVolume` relates this ghost
to the sectors: `IsFile` says that each cluster is followed by the one the FAT names (or
by its neighbour) and what the clusters hold, `IsDirectory` that the entry sets before
the end marker are those of the paths below it. It only quantifies over positions; it
follows no chain and scans no directory, so it cannot repeat an error of the driver. Beyond
what an exFAT volume is, it asks for three things the driver relies on: directories have
a FAT chain, no entry set crosses a cluster, and names are of characters of one byte, none
of them NUL (`PieceOf`). Names are compared exactly, as `strcmp` does, although exFAT
takes upper and lower case for the same. A partition whose
ghost does not say `searchable` may hold anything; the damaged images of the run are
such volumes, or ones with a short or circular chain.

## Runs

| Run | Result | What it shows |
|---|---|---|
| `block_heap` | holds | block allocator: safety, refinement of `HeapContract`, every call returns |
| `bump_heap` | holds | bump allocator |
| `kernel_init` | holds | `init`: root table, placement of heaps and hole, no use of a missing table |
| `sata` | holds | SATA driver, with punctual and with late adapters |
| `pcie` | holds | enumeration, remapping and queries of the component bus |
| `ata` | holds | ATA driver on prompt, slow, absent, packet and faulty drives |
| `kernel_main` | holds | partitions, exFAT and the loop of `kernel_main`, on sound and damaged volumes |
| `block_heap_end` | violated | `alloc` gives out blocks past the end of the heap |
| `boot_ecam` | violated | the MMIO hole can contain the ECAM window |
| `boot_kernel` | violated | the low heap can be placed over the kernel |
| `sata_late_read` | violated | a late transfer ends up in another read's buffer |
| `memset` | violated | `memset` writes at twice its address |

Each violated property states what a comment or a declaration of the repository
says; `PROJECT.json` quotes it under `findings`. The passing runs take from a few
seconds to about a minute.

**What the properties do not promise.** Some of what the code does is tolerated by
no comment and promised by none either. The models do it, and the properties name
it as the case they are not about:

* a FAT read that fails yields cluster 0, so a file may be "read" from sectors
  before the cluster heap, and a directory search may go on without end
  (`ReadExact`, `OpenExact`, and the second alternative of `Ends`);
* `EXFAT_read_file` delivers sectors it could not read and does not notice the end
  of a chain (`ReadExact` promises this of `EXFAT_read_file_ALL` only);
* an entry set that crosses clusters is not found, and a directory without a FAT
  chain is followed through the FAT all the same (`searchable`, `IsDirectory`);
* a directory whose chain runs in a circle is searched for ever (`DirectoriesEnd`);
* `EXFAT_init` accepts any volume and ignores a failing read, after which the root may
  be any cluster and be searched for ever (`fault` holds `"init"`, the second
  alternative of `Ends`);
* a name with characters of more than a byte is taken for that of its lower bytes, and
  the wrong file is returned (`PieceOf`, which `searchable` volumes keep to; the run has
  a volume that does not);
* an I/O register with 16 address bits is recorded as valid with a size that is too large
  by 4 GiB less 64 KiB, and an immovable register with what reaches from it to 4 GiB
  (`RecordedBarsReal` says so of both; the sizes of all other registers are the ones
  implemented);
* if the read of the hello file fails, `kernel_main` prints as many bytes from
  address 0 as its uninitialised size says, or faults (`HelloPrinted` is about disks
  that can be read, `Ends` takes the fault for an end); it never frees partitions, path and file entry;
* on an ATA channel with a drive that is not prompt, answers may be taken for those
  to another command, even of the other drive: only `CallReturns` is promised;
* a 28-bit address loses its upper bits (`wrapped`);
* a root table of 256 bytes or more is checked in part (`InitExact`), and a root
  pointer of ACPI 2.0 makes `init` read unmapped memory (`AcpiFaults`);
* I/O registers are moved to MMIO addresses although `manager.h` says
  "MMIO only".

**Bounds.** `block_heap`: six blocks of two bytes; sizes of zero, one, two, three
and seven blocks (more than the heap), alignments of zero, a non-power, one that
spans two blocks, one that only one block satisfies and one that none does; a
start address that is not aligned to the larger ones. Collisions, jumps, double
steps, tail runs and full heaps all occur. `bump_heap`: a hole that starts and ends
unaligned, alignments up to one larger than the hole. `kernel_init`: maps in both
orders, with the kernel's region too small, just large enough and large, entries
that meet, reach past 4 GiB or fill the map; a byte counts to 8, so that a root
table of eight bytes is one whose length wraps; damaged root pointers and tables
before, between and in place of the sound one. `pcie`: every sequence of three
function numbers, each empty or one of four kinds of function with three registers,
and machines with an immovable register; the hole is too small for all of them, so
that refusals occur; the array of devices and the answer to a query start with one
entry and grow by one, so that both are filled, grown and cut. `sata`: two ports
with two slots each, so that a slot can be occupied and all slots can be, two
sectors, low heaps with too few and with enough frames, and every combination of
attached devices and of engines that firmware left running. `ata`: two drives on one
channel and one on another, six machines, three calls, a wait of two polls;
a register holds a digit in base 4 and the drive register one in base 2, and of the
two sector addresses one is past what 28 bits reach. `kernel_main`: sectors of two cells, clusters
of two sectors, volumes of six clusters with the FAT in four sectors, twelve kinds
of volume, each on a sound and on a flaky disk, and machines with several
partitions and disks; directories and files span clusters, names differ in a later
piece, in upper bytes only and behind a NUL, a cluster number and a sector address wrap
at 256. A buffer that was not read into holds one of eight boot sectors (`Stale`), with
the heap in and before its place and with any root, so that a directory chain that never
ends is reached from a sound volume; a stray FAT word is a small cluster number or an end
mark (`Stray`); one byte is mapped (`Mapped`), so that garbage is printed and faults.

**Deadlock.** `block_heap` and `bump_heap` check it. The other passing runs do
not: boot ends, enumeration ends, the calls of `ata` are bounded, and the machine
may be halted, which in this kernel is a loop that does nothing.

**Fairness.** The kernel is one thread that nothing preempts, so its steps are
weakly fair as a whole (`WF(Step)`, `WF(Next)`, `WF(Driver)`). In `Sata` each
port's adapter is weakly fair too: an AHCI engine that has something to do
does it or fails. In `Ata` only prompt drives are. `CallReturns` of both does not
depend on a device that works, since every wait of the code is bounded. In
`KernelMain` nothing but the kernel moves.

## Proofs

The theorems hold for every value of the constants that the named assumptions
allow, so for every heap size, machine, disk and bus and not only for those of the
runs. Every inductive invariant was also checked by TLC on the instances above; of
`AtaInv`, the one conjunct `call.outs \in Seq(Range(All))` only as to its domain, since
TLC does not compare the records and numbers in `All`.

### What is proved

**`BlockHeap`.** `TypeOK`, `Disjoint`, `TableMatchesLive`, `Usable`, `NothingPassed`,
and that `BlockHeap` implements `HeapContract`. The inductive invariant `IInv` is
their conjunction with `NonEmptyRuns` (every allocation has a block).
`TableMatchesLive` is what carries the argument: `Disjoint` alone is not
inductive, since a new run is disjoint from the old ones only because the table
marks exactly their blocks; and the skips pass nothing only because `end_block`
is the true end of the run collided with. The double step of `alloc` is sound
because after a collision at a free block `i`, block `i + 1` cannot start a run
that fits either, or block `i` would have started it. The jump of
`alloc_aligned` needs two facts about rounding up, proved in `AlignmentProofs`.

**`BumpHeap`.** `TypeOK`, `GrantsDisjoint`, `GrantsPlaced` and `RefusalJustified`.
The invariant adds that `next` is above every grant, and the assumption that the
hole ends in the lower half of the word excludes the wrap-around of rounding up.

**`KernelInit` with `BootMemory` and `Acpi`.** `HeapsInRam`, `HeapsApart`,
`MapStillPartition`, `HoleUnclaimed`, `HoleLargest` and `InitExact`.
`KernelInitInv` has four parts. `BootInv` says what each phase has placed and that
the map is the firmware's with at most one entry added: the low heap is apart from
the root heap only because reserving the root heap leaves entries that share no
address. `ScanInv` says that the search has passed over no sound root pointer.
`McfgInv` says which table the hole was computed from. `HoleInv` says that the hole
is the gap that `walked` keeps. Below it are three lemmas, each by its own
argument over the array: `range_add` loses no address of what it is given, although
it merges; the insertion sort keeps the ranges and orders them; and after `n` ranges
the walk holds the largest gap below them and knows the highest end so far, which is
why ranges that overlap or lie inside one another do no harm.

**`Pcie`.** `DecodesRealAddress`, `DecodingRestored`, `AllEnumerated`,
`RecordedBarsReal`, `MovedApart` and `SizingUndone`. `PcieInv` says what each
register holds at each step of the sizing and of the move: the register at hand a
probe or its saved value, every other one (`Untouched`, `Stable`) what firmware or an
earlier move left. Decoding is off wherever a probe is in a register (`DecodeOK`).
`Recorded` and `AllReal` tie the record to the hardware: the size that the driver
computes from the mask is the size implemented, but for 16-bit I/O and immovable
registers, of which it says what comes out instead. `WindowsApart` is the invariant of
the bump allocator carried over to the windows.

**`ComponentBus`.** `Filtered`: filling the array and growing it commute with
selecting the devices that match, for any first size and any increment. `BusInv` adds
to `PcieInv` that only a finished enumeration is asked.

**`Sata`.** `PromptReadIntegrity`, `DmaIntoOwnBuffer`, `AllDisksFound`,
`BufferAtHand`, `IssuedCommandsStable`, `ConfiguredStopped`. `SataInv` says, for every
adapter, what the driver holds of the low heap at each wait (`Buffers`), which slots
can be occupied (`SlotFree`) and what their tables hold (`TableSet`, `Fetched`). For
punctual adapters it adds that at most one command is out (`OneCommand`) and that a
slot the adapter has finished delivered the sector asked for (`Delivered`). Without
these two `ReadIntegrity` is not inductive: an adapter that still works on an
abandoned command would overwrite the buffer between completion and return, which is
what `sata_late_read` shows of adapters that are not punctual.

**`Ata`.** `ReadsSeeWrites` and `FoundAreReal`, on channels of prompt drives that do
not fail. `AtaInv` says what the first `n` register writes of a command leave in the
two-deep registers (`Holding`), so that at the command byte the registers hold the
address whole, the upper digits behind the lower ones. The lemmas on the digits of a
number (`DigitsCountUp`, `TopDigit`) then give back the sector address, for registers
of any width. `DriveOK` says that what a drive works on is the command of the call, or
a write that was acknowledged and is still being committed; `ContentOK` compares the
disk as it will be once settled with the acknowledged writes.

**`KernelMain` with `ExFat`: what is allocated.** `FsCallsBalanced`, and that the loops
of `kernel_main` hold no cluster buffer and no data. `HeapInv` says how many buffers and
data areas the call in progress holds at each of its steps. Nothing is assumed of what
the disks hold or of which reads fail.

**`KernelMain` with `ExFat`: what is found, read and printed.**
`OpenExact`, `ReadExact`, `ReadsInVolume` and `HelloPrinted`, for disks, volumes, clusters, chains and paths of any
size, with or without reads that fail. The inductive invariant is `VolumeInv`:

* `LoopInv` says which disk and which partition `kernel_main` is at, and that `parts` is
  what the MBR of that disk lists; `MountInv` that the fields `EXFAT_init` took are
  those of the boot sector, unless its read failed.
* `OpenInv`: the search is at cluster `k` of the directory at the first `n` components
  of the path, and what it has passed (`Passed`) holds neither an end marker nor the
  entry of the next component. This is what makes NULL mean that there is no such file,
  and it needs the first `n` components to be a directory of the volume, since the
  search descends only where it has found one. Below it are a lemma that an entry set
  of the volume is what the driver takes it for, buffer cell by buffer cell
  (`FileAtRight`; the cast leaves its name as it is, `NarrowNameIs`), and that the scan stops at the first entry of that name or at the end
  marker (`FirstStop`, `ScanFinds`).
* `ReadInv`: the read is at cluster `k` of the file, has copied `k - 1` or `k` clusters,
  and what it has copied is a beginning of the contents. A chain that ends too early is
  never complete. `ClusterCopied` is the copy of one cluster, the last one cut at the
  length.
* `ReadsInVolume` follows from both, since every cluster the driver is at is one of the
  volume's. After a FAT read that failed it is not (cluster 0), hence `Trusted`, which
  all of these parts have as their condition.
* `OpenedInv` and `ReadDone` carry the result from one call to the next, and
  `ConsoleInv` compares the console with what the partitions before the one at hand
  hold; at the end that is `HelloPrinted`. That it never faults rests on `CleanSized`: with
  no failing read the size is set. The lemma `ListedPrints` shows that entries
  that `MBR_get_partitions` leaves out would have printed nothing.

### Assumptions

| Assumption | What it asks, and why the code allows it |
|---|---|
| `GeometryAssumption`, `HoleAssumption` | memory lies in the lower half of the 64-bit space; the kernel maps 4 GiB |
| `SizesAssumption` | no size within a block of 2^64: such a size wraps in `alloc` |
| `AlignmentsAssumption`, `RequestAssumption` | alignments of at most half the space |
| `BootAssumption` | sizes are positive and whole pages or blocks, as the constants of `manager.c` are; the fixed devices fit the array of ranges |
| `MachineAssumption` (`BootMemory`), `FirmwareAssumption` | the entries of the E820 map, in any order, share no address; `bootloader.asm` stops at 64 entries. What the ACPI tables hold is free |
| `AcpiAssumption` | a byte has values |
| `PcieAssumption`, `HardwareAssumption` | headers of type 0; register values have a bound `W`, the hole ends below it; the window of an I/O register with 16 address bits is smaller than what they reach; the halves of a 64-bit register are neighbours, as PCI says |
| `BusAssumption` | the array starts with an entry and grows by one at least |
| `SataAssumption` | 1 to 32 slots, which is what the five bits of `cap` can say |
| `AtaAssumption`, `MachineAssumption` (`Ata`) | a register holds at least two values; addresses are 32 bits wide, as the parameters of `ATA_read` are; a slave has a master beside it; a disk with 28-bit addresses has no sector beyond them |
| `VolumeAssumption`, `ExFatAssumption` | sectors and clusters are not empty; cluster numbers and sector addresses have a width, and chains an end mark within it; a stray word is of that width too |
| `MappedAssumption` | the mapped memory is of some size |
| `CallersAssumption` | `exfat.h` has two functions that read a file; paths are finite |
| `MachinesAssumption` | a disk has a first sector and a signed one has a table of partitions. It also ties the ghost to the disk: a partition called `searchable` is an `IsVolume`, with what that asks of directories, entry sets and names. Other partitions may hold anything, so no machine is excluded; TLC evaluates it on every machine of the run |

### How

Loops over arrays (`ranges`, `sorted`, `walked`, `Filled`, `FilesAt`, `ListedOf`) are
recursive functions, not operators. What holds of all their values is shown by the least counterexample
(`LeastNat`, which is well-founded order on the naturals): the library's induction
theorems take an operator as a parameter, which the provers cannot instantiate. For the
same reason the properties are stated with sets and quantifiers instead of folds.
Each module's proof has one lemma per action; a lemma about a step that many parts of
the invariant do not see cites one lemma that frames them.

### What is only model-checked

* All liveness: `CallReturns` of `BlockHeap`, `Sata` and `Ata`, `Ends` of `Pcie` and
  `KernelMain`.
  Fairness is out of the prover's reach.
* The five properties that are violated, and `MemUtils`.

## Not modelled

* The bootloader: assembly that runs once, before any of this.
* Serial output and port I/O: no behaviour depends on them. What `kernel_main`
  prints of a file is modelled (`console`), the rest of the output is not.
* `PCIE_print_devices` and vendor names: output only. The arithmetic of ECAM
  addresses: configuration space is reached by function and register.
* Bridges: `PCIE_get_devices` probes six registers whatever the header type is;
  the model has type 0 headers only.
* `write_disk` on a SATA disk, which halts; `wait_for_drive`, which nothing calls.
* The contents of FISes and, but for size and addressing, of identify data.
* Allocations that fail in `kernel_main`, the file systems and the component bus,
  which test no result of `kalloc`; the model gives them memory. The damage that
  `memset` and an overrunning `alloc` do to other memory.
* Sectors of another size than 512 bytes: `EXFAT_init` reads the size from the
  volume, while `read_disk` always delivers 512 bytes. The sizes of sectors and clusters
  are constants of `ExFat`, the same for all volumes and unchanged by a failing read of
  the boot sector, after which the code would use any.
* `valid_data_length`: the driver stores it and never uses it, and delivers what lies
  beyond it as it is on the disk.
* The halt for a copy of the map that cannot be allocated (`manager.c:272`): the
  heap is empty then, holds more blocks than the copy needs, and its first run is taken.
* Entries of the memory map or of the MCFG table whose end is past 2^64, where the sums
  of `manager.c:81`, `122` and `221` would wrap; in the model they are natural numbers.
* A huge length in the words at address 0 that stand for a missing MCFG table
  (`manager.c:131`): the loop would then run through unmapped memory. The words are those of a
  small table.
* The allocation of the array that `SATA_get_disks` grows past 16 disks
  (`sata.c:292`): its elements are copied in order, and the model appends to a sequence.

## Plan

1. Done: `BlockHeap` with its contract and proofs, `BumpHeap` with proofs,
   `BootMemory`, `Pcie`, `Sata`, `MemUtils`; then `Acpi` and `KernelInit`,
   `ComponentBus`, `ExFat` and `KernelMain`, `Ata`.
2. Done: proofs of `KernelInit` with `BootMemory` and `Acpi`, of `Pcie` and
   `ComponentBus`, of `Sata`, of `Ata`, and of the heap balance of `KernelMain`.
3. Done: `ExFatVolume`, and with it the proofs of what is found on a volume, read from
   it and printed. Every safety property of the passing runs is now a theorem.
4. Bridges in `Pcie`, where the bus numbers that the probing overwrites route the
   accesses that follow.
