----------------------------- MODULE KernelMain -----------------------------
(***************************************************************************)
(* kernel_main after init (kernel.c), with MBR_get_partitions              *)
(* (drivers/fs/mbr/mbr.c) and EXFAT_init: for every disk, for every exFAT  *)
(* partition of it, open /ketone/hello, read it and print it.              *)
(*                                                                         *)
(* callers gives the other programs one could write against exfat.h the    *)
(* same loop with other paths, and EXFAT_read_file beside                  *)
(* EXFAT_read_file_ALL.                                                    *)
(***************************************************************************)
EXTENDS ExFat

CONSTANTS
  Machines,    \* sequences of disks: [sectors, flaky]
  Callers,     \* [paths, reads]: what the caller opens, and how it reads
  Hello,       \* the path /ketone/hello
  Stale,       \* what EXFAT_init may find in a buffer that was not read into
  Mapped       \* the bytes that the page tables of the boot loader map from 0 on

\* exfat.h has two functions that read a file.
ASSUME CallersAssumption ==
  \A c \in Callers :
    /\ \A q \in c.paths : IsSequence(q)
    /\ c.reads \subseteq {"read_all", "read_file"}

ASSUME MappedAssumption == Mapped \in Nat

MbrOf(sector) == sector[1]
TableOf(dsk)  == MbrOf(dsk.sectors[0]).table
Signed(dsk)   == MbrOf(dsk.sectors[0]).signed

\* Every disk has a sector; the volumes that are called searchable are exFAT volumes
\* with directories that follow the FAT.
ASSUME MachinesAssumption ==
  \A m \in Machines :
    /\ IsSequence(m)
    /\ \A i \in DOMAIN m :
         /\ 0 \in DOMAIN m[i].sectors
         /\ Signed(m[i]) => IsSequence(TableOf(m[i]))
         /\ Signed(m[i]) =>
              \A k \in DOMAIN TableOf(m[i]) :
                LET e == TableOf(m[i])[k] IN
                e.type = "exfat" /\ e.vol.searchable => IsVolume(m[i].sectors, e)

VARIABLES
  machine,   \* the disks that SATA_get_disks returned, in order
  caller,
  pc,        \* where kernel_main is
  d, p,      \* the disk and the partition it is at
  parts,     \* the partitions of the disk, as MBR_get_partitions returns them
  path,      \* the path last opened
  console    \* what has been printed

mainVars == <<machine, caller, pc, d, p, parts, path, console>>
vars == <<fsVars, mainVars>>

KernelCaller == [paths |-> {Hello}, reads |-> {"read_all"}]

At(loc) == pc = loc /\ call = NoCall

\* Advance to the next disk.
NextDisk ==
  /\ pc' = "disk" /\ d' = d + 1
  /\ disk' = IF d < Len(machine) THEN machine[d + 1].sectors ELSE disk
  /\ flaky' = IF d < Len(machine) THEN machine[d + 1].flaky ELSE flaky

\* Mutants: only the first partition is looked at; the loop does not move on.
NextPartitionNone  == pc' = "partition" /\ p' = Len(parts) + 1
NextPartitionStays == pc' = "partition" /\ p' = p

NextPartition == pc' = "partition" /\ p' = p + 1

-----------------------------------------------------------------------------
(* MBR_get_partitions                                                      *)

Listed(e) == e.type \in {"empty", "exfat"}     \* types 0x00 and 0x07

\* The array of partitions after the first n entries of the table.
ListedOf(table) ==
  LET listed[n \in 0 .. Len(table)] ==
        IF n = 0 THEN <<>>
        ELSE IF Listed(table[n]) THEN Append(listed[n - 1], table[n])
        ELSE listed[n - 1]
  IN listed

\* The sector is read and has its signature: its partitions are listed.
GetPartitions ==
  /\ At("disk") /\ d <= Len(machine)
  /\ Readable({0}) /\ MbrOf(disk[0]).signed
  /\ parts' = ListedOf(MbrOf(disk[0]).table)[Len(MbrOf(disk[0]).table)]
  /\ pc' = "partition" /\ p' = 1
  /\ UNCHANGED <<fsVars, machine, caller, d, path, console>>

\* -1: the array for the partitions is freed.
NoPartitions ==
  /\ At("disk") /\ d <= Len(machine)
  /\ MayFail({0}) \/ ~MbrOf(disk[0]).signed
  /\ NextDisk
  /\ UNCHANGED <<fs, call, reply, heap, fault, lbas, machine, caller, p, parts,
                 path, console>>

-----------------------------------------------------------------------------
(* kernel_main                                                             *)

SkipPartition ==
  /\ At("partition") /\ p <= Len(parts)
  /\ parts[p].type # "exfat"
  /\ NextPartition
  /\ UNCHANGED <<fsVars, machine, caller, d, parts, path, console>>

\* The boot sector as EXFAT_init sees it: a sector of some other file system has
\* any fields.
BootSectors(lba) ==
  IF lba \in DOMAIN disk /\ disk[lba][1].t = "boot" THEN {disk[lba][1]} ELSE Stale

\* EXFAT_init copies the fields of the boot sector.  It neither looks at the
\* result of the read nor compares the signature.
Mount ==
  /\ At("partition") /\ p <= Len(parts)
  /\ parts[p].type = "exfat"
  /\ LET lba == parts[p].start IN
     /\ \E boot \in BootSectors(lba) \cup Stale :
          /\ \/ Readable({lba}) /\ boot \in BootSectors(lba) /\ fault' = {}
             \/ MayFail({lba}) /\ boot \in Stale /\ fault' = {"init"}
          /\ fs' = [start |-> lba, fat |-> boot.fat, heap |-> boot.heap, root |-> boot.root]
     /\ lbas' = {lba}
  /\ pc' = "open"
  /\ UNCHANGED <<disk, flaky, call, reply, heap, machine, caller, d, p, parts, path,
                 console>>

OpenHello ==
  /\ At("open")
  /\ \E wanted \in caller.paths : Open(wanted) /\ path' = wanted
  /\ pc' = "opened"
  /\ UNCHANGED <<machine, caller, d, p, parts, console>>

HelloAbsent ==
  /\ At("opened") /\ ~reply.ok
  /\ NextPartition
  /\ UNCHANGED <<fsVars, machine, caller, d, parts, path, console>>

ReadHello ==
  /\ At("opened") /\ reply.ok
  /\ \E op \in caller.reads : Read(op, reply.file)
  /\ pc' = "read"
  /\ UNCHANGED <<machine, caller, d, p, parts, path, console>>

\* n bytes from address 0 on.
Garbage(n) == [k \in 1 .. n |-> Fresh]

\* Print hello_file_size bytes and free the data.  If EXFAT_read_file_ALL did not
\* set the size, it is any, and the bytes are those from address 0 on.
ShowHello ==
  /\ At("read")
  /\ \/ reply.sized /\ console' = console \o reply.data
     \/ ~reply.sized /\ \E n \in 0 .. Mapped : console' = console \o Garbage(n)
  /\ heap' = [heap EXCEPT !.data = IF reply.ok THEN @ - 1 ELSE @]
  /\ NextPartition
  /\ UNCHANGED <<disk, flaky, fs, call, reply, fault, lbas, machine, caller, d, parts,
                 path>>

\* A larger size leads past the mapped memory: the kernel has no handler for the fault.
PrintFaults ==
  /\ At("read") /\ ~reply.sized
  /\ console' = console \o Garbage(Mapped)
  /\ pc' = "fault"
  /\ UNCHANGED <<fsVars, machine, caller, d, p, parts, path>>

PartitionsDone ==
  /\ At("partition") /\ p > Len(parts)
  /\ NextDisk
  /\ UNCHANGED <<fs, call, reply, heap, fault, lbas, machine, caller, p, parts, path,
                 console>>

Halt ==
  /\ At("disk") /\ d > Len(machine)
  /\ pc' = "halted"
  /\ UNCHANGED <<fsVars, machine, caller, d, p, parts, path, console>>

-----------------------------------------------------------------------------
Init ==
  /\ machine \in Machines
  /\ caller \in Callers
  /\ pc = "disk" /\ d = 1 /\ p = 1 /\ parts = <<>> /\ path = Hello /\ console = <<>>
  /\ disk = machine[1].sectors /\ flaky = machine[1].flaky
  /\ fs = [start |-> 0, fat |-> 0, heap |-> 0, root |-> 0]
  /\ call = NoCall /\ reply = Null
  /\ heap = [buffer |-> 0, file |-> 0, data |-> 0]
  /\ fault = {} /\ lbas = {}

Next ==
  \/ GetPartitions \/ NoPartitions \/ SkipPartition \/ Mount \/ OpenHello
  \/ HelloAbsent \/ ReadHello \/ ShowHello \/ PrintFaults \/ PartitionsDone \/ Halt
  \/ FsStep /\ UNCHANGED mainVars

\* The kernel is one thread that nothing preempts.
Spec == Init /\ [][Next]_vars /\ WF_vars(Next)

-----------------------------------------------------------------------------
(* Properties.  An entry of a partition table carries, as a ghost, what    *)
(* the volume holds: entries as ExFatVolume says; searchable, that it is   *)
(* such a volume.                                                          *)

Vol     == parts[p].vol
Mounted == pc \in {"open", "opened", "read"}
Chain   == Vol.entries[path].chain

\* Where every name is of characters of one byte (the driver compares no more of a
\* name), directories have FAT chains and no entry set crosses a cluster,
\* EXFAT_open_file finds exactly the files there are: unless the boot sector or the
\* FAT could not be read, what it returns is the file at the path, and NULL means,
\* unless any read failed, that there is none.
OpenExact ==
  At("opened") /\ Vol.searchable =>
    /\ reply.ok /\ fault \cap {"init", "fat"} = {} =>
         /\ path \in DOMAIN Vol.entries
         /\ reply.file.first = Vol.entries[path].first
         /\ reply.file.length = Vol.entries[path].length
    /\ ~reply.ok /\ fault = {} => path \notin DOMAIN Vol.entries

\* EXFAT_read_file_ALL returns the whole file or NULL: a sector that cannot be read
\* never reaches the caller, nor does a chain that ends too early; EXFAT_read_file
\* promises as much only when no read fails.
ReadExact ==
  At("read") /\ Vol.searchable /\ fault \cap {"init", "fat"} = {} =>
    /\ reply.ok /\ Chain = "whole" /\ (fault = {} \/ caller.reads = {"read_all"}) =>
         reply.data = Vol.entries[path].data
    /\ reply.ok /\ caller.reads = {"read_all"} => Chain # "short"
    /\ ~reply.ok /\ fault = {} /\ Chain = "whole" => Vol.entries[path].length = 0

\* Every return of EXFAT_open_file, EXFAT_read_file and EXFAT_read_file_ALL leaves
\* the heap as the call found it, but for the file or the data it hands over.
FsCallsBalanced ==
  [][call # NoCall /\ call' = NoCall =>
       heap' = [call.before EXCEPT
                  !.file = IF call.op = "open" /\ reply'.ok THEN @ + 1 ELSE @,
                  !.data = IF call.op # "open" /\ reply'.ok THEN @ + 1 ELSE @]]_vars

\* As long as no read fails, the driver reads nothing outside the partition it was
\* given (EXFAT_read_file on a chain that ends too early apart).
ReadsInVolume ==
  Mounted /\ Vol.searchable /\ fault = {} =>
    \/ lbas \subseteq Within(parts[p])
    \/ pc = "read" /\ Chain = "short" /\ "read_file" \in caller.reads

\* What has been printed when the first n partitions of a table have been dealt with,
\* and when the first n disks have.
AfterPartitions(table, before) ==
  LET printed[n \in 0 .. Len(table)] ==
        IF n = 0 THEN before
        ELSE IF table[n].type = "exfat" /\ Hello \in DOMAIN table[n].vol.entries
          THEN printed[n - 1] \o table[n].vol.entries[Hello].data
        ELSE printed[n - 1]
  IN printed

AfterDisks(m) ==
  LET printed[n \in 0 .. Len(m)] ==
        IF n = 0 THEN <<>>
        ELSE IF Signed(m[n])
          THEN AfterPartitions(TableOf(m[n]), printed[n - 1])[Len(TableOf(m[n]))]
        ELSE printed[n - 1]
  IN printed

VolumesOf(m) ==
  UNION {{TableOf(m[i])[k].vol : k \in {k \in DOMAIN TableOf(m[i]) : TableOf(m[i])[k].type = "exfat"}}
           : i \in {i \in DOMAIN m : Signed(m[i])}}

Sound(vol) ==
  /\ vol.searchable
  /\ Hello \in DOMAIN vol.entries => vol.entries[Hello].chain = "whole"

\* On disks that can be read, with sound volumes, kernel_main never faults, and prints
\* the hello file of every exFAT partition of every disk, in order and to the last byte.
HelloPrinted ==
  /\ caller = KernelCaller
  /\ \A i \in DOMAIN machine : ~machine[i].flaky
  /\ \A vol \in VolumesOf(machine) : Sound(vol)
  => /\ pc # "fault"
     /\ pc = "halted" => console = AfterDisks(machine)[Len(machine)]

\* The chain of every directory ends.
DirectoriesEnd(vol) ==
  \A q \in DOMAIN vol.entries : vol.entries[q].directory => vol.entries[q].chain # "cyclic"

\* On volumes with directories that end, kernel_main comes to its end, if only with a
\* fault, whatever reads of directories and files fail.  Only where the boot sector or
\* the FAT could not be read may EXFAT_open_file search for ever: from any root
\* cluster, or on in the cluster 0 that a failing look into the FAT yields.
Ends ==
  (\A vol \in VolumesOf(machine) : vol.searchable /\ DirectoriesEnd(vol)) =>
    \/ <>(pc \in {"halted", "fault"})
    \/ <>[](call.op = "open" /\ fault \cap {"init", "fat"} # {})
=============================================================================
