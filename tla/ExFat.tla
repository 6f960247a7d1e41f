-------------------------------- MODULE ExFat --------------------------------
(***************************************************************************)
(* The exFAT driver (drivers/fs/exfat/exfat.c) over read_disk              *)
(* (drivers/disk/common.c): EXFAT_open_file walks the directories of a     *)
(* path, EXFAT_read_file_ALL and EXFAT_read_file follow a file's clusters. *)
(* One step is the reading of one cluster, the scan of one directory       *)
(* cluster or one look into the FAT; each of the reads can fail.           *)
(*                                                                         *)
(* A sector is a sequence of cells.  A cell is a directory entry, a word   *)
(* of the FAT, a piece of file data, or the boot sector's or the MBR's     *)
(* fields; all have the same size here.  A component of a path is a        *)
(* sequence of texts, each as long as the piece of a name that one name    *)
(* entry holds.                                                            *)
(***************************************************************************)
EXTENDS ExFatVolume, FiniteSets, FiniteSetsExt

CONSTANTS
  MaxSecondary,  \* the largest secondary_count of a directory entry
  Junk,          \* cells that memory which nobody initialised may hold
  Stray          \* the words that a sector outside the FAT may hold

ASSUME ExFatAssumption == MaxSecondary \in Nat /\ Stray \subseteq 0 .. Word - 1

VARIABLES
  disk,   \* the disk in use: a function from sector addresses to sectors
  flaky,  \* whether its reads may fail
  fs,     \* exfat_instance_t: where the partition, its FAT and its clusters start
  call,   \* the call in progress, or NoCall
  reply,  \* what the last call returned
  heap,   \* cluster buffers, open files and data buffers in the root heap
  fault,  \* history: which reads have failed since EXFAT_init
  lbas    \* history: the sectors that the last step read

fsVars == <<disk, flaky, fs, call, reply, heap, fault, lbas>>

NoCall == [op |-> "none"]
Null   == [ok |-> FALSE, sized |-> FALSE]
Fresh  == [t |-> "other"]     \* what a cluster buffer holds before it is read into

-----------------------------------------------------------------------------
(* Addresses and reads                                                     *)

\* EXFAT_cluster_to_lba: cluster - 2 is computed in 32 bits.
ClusterLba(c) == fs.start + fs.heap + ((c - 2) % Word) * ClusterSize

ClusterLbas(c) == {(ClusterLba(c) + s) % Word : s \in 0 .. ClusterSize - 1}

\* Mutant: the FAT's offset is taken from the start of the disk.
FatLbaOfDisk(c) == (fs.fat + (c \div Cells)) % Word

FatLba(c) == (fs.start + fs.fat + (c \div Cells)) % Word

\* read_disk narrows the address to 32 bits; what is not on the disk fails.
Readable(ls) == ls \subseteq DOMAIN disk
MayFail(ls)  == flaky \/ ~Readable(ls)

\* The sectors of cluster c that are not on the disk.
Missing(c) ==
  {s \in 1 .. ClusterSize : (ClusterLba(c) + s - 1) % Word \notin DOMAIN disk}

\* What the buffer holds once the sectors of cluster c but those in failed have
\* been read.
Loaded(c, failed) ==
  [k \in 1 .. ClusterCells |->
    LET s == (k - 1) \div Cells IN
    IF s + 1 \in failed THEN call.buffer[k]
                        ELSE disk[(ClusterLba(c) + s) % Word][((k - 1) % Cells) + 1]]

\* The word for cluster c: any, where the sector is not one of the FAT.
FatWords(c) ==
  LET cell == disk[FatLba(c)][(c % Cells) + 1]
  IN IF cell.t = "fat" THEN {cell.next} ELSE Stray

\* EXFAT_get_fat_entry: 0 when the FAT cannot be read.
GetFatEntry(next) ==
  /\ \/ Readable({FatLba(call.cluster)}) /\ next \in FatWords(call.cluster) /\ fault' = fault
     \/ MayFail({FatLba(call.cluster)}) /\ next = 0 /\ fault' = fault \cup {"fat"}
  /\ lbas' = {FatLba(call.cluster)}

FatResults ==
  {0} \cup IF Readable({FatLba(call.cluster)}) THEN FatWords(call.cluster) ELSE {}

Return(r) == call' = NoCall /\ reply' = r

-----------------------------------------------------------------------------
(* EXFAT_open_file                                                         *)

\* The path is the sequence of its components; one without any is answered NULL
\* at once, and is not asked for here.
Open(path) ==
  /\ call = NoCall /\ path # <<>>
  /\ call' = [op |-> "open", pc |-> "read", path |-> path, cluster |-> fs.root,
              buffer |-> [k \in 1 .. ClusterCells |-> Fresh], before |-> heap]
  /\ heap' = [heap EXCEPT !.buffer = @ + 1]
  /\ reply' = Null
  /\ UNCHANGED <<disk, flaky, fs, fault, lbas>>

Opening(pc) == call.op = "open" /\ call.pc = pc

ReadDirectory ==
  /\ Opening("read")
  /\ Readable(ClusterLbas(call.cluster))
  /\ call' = [call EXCEPT !.pc = "scan", !.buffer = Loaded(call.cluster, {})]
  /\ lbas' = ClusterLbas(call.cluster)
  /\ UNCHANGED <<disk, flaky, fs, reply, heap, fault>>

ReadDirectoryFails ==
  /\ Opening("read")
  /\ MayFail(ClusterLbas(call.cluster))
  /\ heap' = [heap EXCEPT !.buffer = @ - 1]
  /\ Return(Null)
  /\ fault' = fault \cup {"read"}
  /\ lbas' = ClusterLbas(call.cluster)
  /\ UNCHANGED <<disk, flaky, fs>>

\* The k-th cell from the start of the buffer, in past behind its end.
CellAt(k, past) ==
  IF k <= Len(call.buffer) THEN call.buffer[k] ELSE past[k - Len(call.buffer)]

\* (char)c: the upper bytes of a name's units are dropped.
Narrow(piece) == [low |-> piece.low, zero |-> piece.zero]

\* Mutant: the pieces of the name are not cut at name_length.
WithPieceUncut(file, piece) == [file EXCEPT !.name = Append(@, Narrow(piece))]

\* A name entry adds its piece, up to name_length.
WithPiece(file, piece) ==
  [file EXCEPT !.name = IF Len(@) < file.name_length THEN Append(@, Narrow(piece)) ELSE @]

\* What a secondary entry adds to the file: a stream extension most fields.
Secondary(file, cell) ==
  CASE cell.t = "stream" ->
         [file EXCEPT !.first = cell.first, !.length = cell.length,
                      !.flat = cell.flat, !.name_length = cell.name_length]
    [] cell.t = "name" -> WithPiece(file, cell.piece)
    [] OTHER -> file

\* The file entry at i after its first f secondary entries.
FilesAt(i, past) ==
  LET file[f \in 0 .. call.buffer[i].count] ==
        IF f = 0
          THEN [first |-> 0, length |-> 0, flat |-> FALSE, name_length |-> 0,
                name |-> <<>>, directory |-> call.buffer[i].directory]
          ELSE Secondary(file[f - 1], CellAt(i + f, past))
  IN file

\* The entry set that begins with the file entry at i.
FileAt(i, past) == FilesAt(i, past)[call.buffer[i].count]

\* An end marker is an entry whose first byte is 0; a free FAT word read as an entry
\* looks the same.
IsEnd(cell) == cell.t = "end" \/ cell = [t |-> "fat", next |-> 0]

\* What strcmp sees of a file name: the texts of its pieces up to the first NUL.
CString(name) ==
  LET ends == {k \in DOMAIN name : name[k].zero}
      n == IF ends = {} THEN Len(name)
           ELSE IF name[Min(ends)].low = "" THEN Min(ends) - 1 ELSE Min(ends)
  IN [k \in 1 .. n |-> name[k].low]

\* Where the scan of the cluster stops: at an end marker or at the name.
Stops(past) ==
  {i \in 1 .. Len(call.buffer) :
     \/ IsEnd(call.buffer[i])
     \/ /\ call.buffer[i].t = "file"
        /\ CString(FileAt(i, past).name) = Head(call.path)}

NotFound ==
  /\ heap' = [heap EXCEPT !.buffer = @ - 1]
  /\ Return(Null)

\* The last component is returned; another one must be a directory to descend
\* into, and its entry and the buffer are freed (a new buffer is allocated).
Found(file) ==
  \/ /\ Len(call.path) = 1
     /\ heap' = [heap EXCEPT !.buffer = @ - 1, !.file = @ + 1]
     /\ Return([ok |-> TRUE, file |-> file])
  \/ /\ Len(call.path) > 1 /\ ~file.directory
     /\ NotFound
  \/ /\ Len(call.path) > 1 /\ file.directory
     /\ call' = [call EXCEPT !.pc = "read", !.path = Tail(@), !.cluster = file.first]
     /\ UNCHANGED <<heap, reply>>

\* One pass over the entries of the cluster.
ScanDirectory ==
  /\ Opening("scan")
  /\ \E past \in [1 .. MaxSecondary -> Junk] :
       LET stops == Stops(past) IN
       \/ /\ stops = {}
          /\ call' = [call EXCEPT !.pc = "next"]
          /\ UNCHANGED <<heap, reply>>
       \/ /\ stops # {} /\ IsEnd(call.buffer[Min(stops)])
          /\ NotFound
       \/ /\ stops # {} /\ call.buffer[Min(stops)].t = "file"
          /\ Found(FileAt(Min(stops), past))
  /\ UNCHANGED <<disk, flaky, fs, fault, lbas>>

NextDirectoryCluster ==
  /\ Opening("next")
  /\ \E next \in FatResults :
       /\ GetFatEntry(next)
       /\ IF next >= EndMark
            THEN NotFound
            ELSE /\ call' = [call EXCEPT !.pc = "read", !.cluster = next]
                 /\ UNCHANGED <<heap, reply>>
  /\ UNCHANGED <<disk, flaky, fs>>

-----------------------------------------------------------------------------
(* EXFAT_read_file_ALL ("read_all") and EXFAT_read_file ("read_file")      *)

\* kalloc(0) is NULL: an empty file has no data buffer.
Read(op, file) ==
  /\ call = NoCall
  /\ call' = [op |-> op, pc |-> "load", file |-> file, cluster |-> file.first,
              data |-> <<>>, before |-> heap,
              buffer |-> [k \in 1 .. ClusterCells |-> Fresh]]
  /\ heap' = [heap EXCEPT !.buffer = @ + 1,
                          !.data = IF file.length = 0 THEN @ ELSE @ + 1]
  /\ reply' = Null
  /\ UNCHANGED <<disk, flaky, fs, fault, lbas>>

Reading(pc) == call.op \in {"read_all", "read_file"} /\ call.pc = pc
Complete    == Len(call.data) >= call.file.length

\* The data with what the cluster buffer adds to it.
Copy(buffer) ==
  call.data \o SubSeq(buffer, 1, Min({Len(buffer), call.file.length - Len(call.data)}))

LoadCluster ==
  /\ Reading("load") /\ ~Complete
  /\ Readable(ClusterLbas(call.cluster))
  /\ call' = [call EXCEPT !.pc = "next", !.buffer = Loaded(call.cluster, {}),
                          !.data = Copy(Loaded(call.cluster, {}))]
  /\ lbas' = ClusterLbas(call.cluster)
  /\ UNCHANGED <<disk, flaky, fs, reply, heap, fault>>

\* Mutant: the data buffer is not freed.
GiveUpKept ==
  /\ heap' = [heap EXCEPT !.buffer = @ - 1]
  /\ Return(Null)

GiveUp ==
  /\ heap' = [heap EXCEPT !.buffer = @ - 1, !.data = @ - 1]
  /\ Return(Null)

\* EXFAT_read_file_ALL gives up at the first sector that cannot be read.
LoadFails ==
  /\ Reading("load") /\ ~Complete /\ call.op = "read_all"
  /\ MayFail(ClusterLbas(call.cluster))
  /\ GiveUp
  /\ fault' = fault \cup {"read"}
  /\ lbas' = ClusterLbas(call.cluster)
  /\ UNCHANGED <<disk, flaky, fs>>

\* EXFAT_read_file does not look: the sectors of the buffer that could not be read
\* are copied as they were.
LoadFailsUnseen ==
  /\ Reading("load") /\ ~Complete /\ call.op = "read_file"
  /\ \E failed \in (SUBSET (1 .. ClusterSize)) \ {{}} :
       /\ flaky \/ failed = Missing(call.cluster)
       /\ Missing(call.cluster) \subseteq failed
       /\ call' = [call EXCEPT !.pc = "next", !.buffer = Loaded(call.cluster, failed),
                               !.data = Copy(Loaded(call.cluster, failed))]
  /\ fault' = fault \cup {"read"}
  /\ lbas' = ClusterLbas(call.cluster)
  /\ UNCHANGED <<disk, flaky, fs, reply, heap>>

\* NoFatChain: the next cluster is the following one.
NextFlat ==
  /\ Reading("next") /\ ~Complete /\ call.file.flat
  /\ call' = [call EXCEPT !.pc = "load", !.cluster = (@ + 1) % Word]
  /\ UNCHANGED <<disk, flaky, fs, reply, heap, fault, lbas>>

\* Mutant: EXFAT_read_file_ALL does not look for the end of the chain either.
ChainEndsUnseen(next) == FALSE

ChainEnds(next) == call.op = "read_all" /\ next >= EndMark

NextChained ==
  /\ Reading("next") /\ ~Complete /\ ~call.file.flat
  /\ \E next \in FatResults :
       /\ GetFatEntry(next)
       /\ IF ChainEnds(next)
            THEN GiveUp
            ELSE /\ call' = [call EXCEPT !.pc = "load", !.cluster = next]
                 /\ UNCHANGED <<heap, reply>>
  /\ UNCHANGED <<disk, flaky, fs>>

\* All of the file: the cluster buffer is freed, the data returned.
Finish ==
  /\ call.op \in {"read_all", "read_file"} /\ Complete
  /\ heap' = [heap EXCEPT !.buffer = @ - 1]
  /\ Return([ok |-> call.file.length # 0, sized |-> TRUE, data |-> call.data])
  /\ UNCHANGED <<disk, flaky, fs, fault, lbas>>

-----------------------------------------------------------------------------
FsStep ==
  \/ ReadDirectory \/ ReadDirectoryFails \/ ScanDirectory \/ NextDirectoryCluster
  \/ LoadCluster \/ LoadFails \/ LoadFailsUnseen \/ NextFlat \/ NextChained \/ Finish
=============================================================================
