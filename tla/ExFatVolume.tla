----------------------------- MODULE ExFatVolume -----------------------------
(***************************************************************************)
(* What an exFAT volume is: the files and directories that it holds, as a  *)
(* relation between the sectors of a disk and a ghost that the entry e of  *)
(* the partition table carries.  e.vol.entries maps the path of every file *)
(* and directory, <<>> for the root, to                                    *)
(*   first, length, flat, directory: what its directory entry says of it,  *)
(*   clusters: its clusters, in order,                                     *)
(*   data: its contents,                                                   *)
(*   chain: "whole", "short" if the clusters end before the length does,   *)
(*          "cyclic" if the last of them leads back to one of them.        *)
(* Nothing here says how to find anything: no operator follows a chain or  *)
(* scans a directory.                                                      *)
(***************************************************************************)
EXTENDS Integers, Sequences, Functions

CONSTANTS
  Cells,         \* cells of a sector
  ClusterSize,   \* 1 << sectors_per_cluster_shift
  Word,          \* 2^32: a sector address of read_disk, a cluster number
  EndMark        \* 0xFFFFFFF8: FAT values from here on end a chain

ASSUME VolumeAssumption ==
  /\ {Cells, ClusterSize, Word} \subseteq Nat \ {0}
  /\ EndMark \in 2 .. Word - 1

ClusterCells == ClusterSize * Cells

IsSequence(s) == s \in Seq(Range(s))

-----------------------------------------------------------------------------
(* Where things are                                                        *)

Within(e) == e.start .. e.start + e.sectors - 1

BootOf(sectors, e) == sectors[e.start][1]

FirstSector(sectors, e, c) == e.start + BootOf(sectors, e).heap + (c - 2) * ClusterSize

FatSector(sectors, e, c) == e.start + BootOf(sectors, e).fat + (c \div Cells)

\* The word of the FAT for cluster c, and cell i of cluster c.
FatCell(sectors, e, c) == sectors[FatSector(sectors, e, c)][(c % Cells) + 1]

CellOf(sectors, e, c, i) ==
  sectors[FirstSector(sectors, e, c) + ((i - 1) \div Cells)][((i - 1) % Cells) + 1]

\* The partition lies on the disk and begins with a boot sector.
IsPlaced(sectors, e) ==
  /\ e.start \in Nat /\ e.sectors \in Nat \ {0} /\ e.start + e.sectors <= Word
  /\ Within(e) \subseteq DOMAIN sectors
  /\ BootOf(sectors, e).t = "boot"
  /\ {BootOf(sectors, e).fat, BootOf(sectors, e).heap} \subseteq Nat

IsCluster(sectors, e, c) ==
  /\ c \in 2 .. EndMark - 1
  /\ FirstSector(sectors, e, c) + ClusterSize - 1 \in Within(e)
  /\ FatSector(sectors, e, c) \in Within(e)
  /\ FatCell(sectors, e, c).t = "fat" /\ FatCell(sectors, e, c).next \in 0 .. Word - 1

-----------------------------------------------------------------------------
(* Files                                                                   *)

AfterLast(sectors, e, f) == FatCell(sectors, e, f.clusters[Len(f.clusters)]).next

IsFile(sectors, e, f) ==
  /\ f.length \in Nat /\ {f.flat, f.directory} \subseteq BOOLEAN
  /\ IsSequence(f.clusters)
  /\ \A k \in 1 .. Len(f.clusters) : IsCluster(sectors, e, f.clusters[k])
  /\ f.clusters # <<>> => f.clusters[1] = f.first
  /\ \A k \in 1 .. Len(f.clusters) - 1 :
       f.clusters[k + 1] = IF f.flat THEN f.clusters[k] + 1
                                     ELSE FatCell(sectors, e, f.clusters[k]).next
  /\ \/ /\ f.chain = "whole" /\ f.length <= Len(f.clusters) * ClusterCells
        /\ f.data = [j \in 1 .. f.length |->
             CellOf(sectors, e, f.clusters[((j - 1) \div ClusterCells) + 1],
                    ((j - 1) % ClusterCells) + 1)]
     \/ /\ f.chain = "short" /\ f.length > Len(f.clusters) * ClusterCells
        /\ ~f.flat /\ f.clusters # <<>> /\ AfterLast(sectors, e, f) >= EndMark
     \/ /\ f.chain = "cyclic"
        /\ ~f.flat /\ f.clusters # <<>>
        /\ \E k \in 1 .. Len(f.clusters) : AfterLast(sectors, e, f) = f.clusters[k]

-----------------------------------------------------------------------------
(* Directories: they follow the FAT, no entry set crosses a cluster, and   *)
(* the names are of characters of one byte, none of them NUL               *)

\* A name entry holds a piece of a name in units of 16 bits: low is what their lower
\* bytes spell up to the first that is 0, zero whether one is, high stands for their
\* upper bytes.  The piece for a text of characters of one byte:
PieceOf(text) == [low |-> text, zero |-> FALSE, high |-> 0]

DirCell(sectors, e, dir, k, i) ==
  CellOf(sectors, e, e.vol.entries[dir].clusters[k], i)

\* Cell i of the k-th cluster of a directory lies before its end marker.
Reached(sectors, e, dir, k, i) ==
  \A j \in 1 .. k, h \in 1 .. ClusterCells :
    j < k \/ h < i => DirCell(sectors, e, dir, j, h).t # "end"

\* The entry set at cell i of the k-th cluster says that there is a file f, called
\* name: a file entry, a stream extension, and the pieces of the name.
EntrySetAt(sectors, e, dir, k, i, name, f) ==
  LET count == DirCell(sectors, e, dir, k, i).count
      stream == DirCell(sectors, e, dir, k, i + 1)
  IN /\ DirCell(sectors, e, dir, k, i).t = "file"
     /\ DirCell(sectors, e, dir, k, i).directory = f.directory
     /\ count \in 2 .. ClusterCells - i
     /\ stream.t = "stream" /\ stream.name_length = Len(name)
     /\ stream.first = f.first /\ stream.length = f.length /\ stream.flat = f.flat
     /\ Len(name) \in 1 .. count - 1
     /\ \A n \in 1 .. count - 1 :
          LET cell == DirCell(sectors, e, dir, k, i + 1 + n) IN
          cell.t = "name" /\ (n <= Len(name) => cell.piece = PieceOf(name[n]))

Parent(path) == SubSeq(path, 1, Len(path) - 1)
NameOf(path) == path[Len(path)]

\* The directory lists exactly the paths below it.
IsDirectory(sectors, e, dir) ==
  LET f == e.vol.entries[dir]
      below == {q \in DOMAIN e.vol.entries : q # <<>> /\ Parent(q) = dir}
      listed(q, k, i) == EntrySetAt(sectors, e, dir, k, i, NameOf(q), e.vol.entries[q])
  IN /\ ~f.flat /\ f.clusters # <<>>
     /\ f.chain = "cyclic" \/ AfterLast(sectors, e, f) >= EndMark
     /\ \A k \in 1 .. Len(f.clusters), i \in 1 .. ClusterCells :
          /\ DirCell(sectors, e, dir, k, i).t # "fat"
          /\ Reached(sectors, e, dir, k, i) /\ DirCell(sectors, e, dir, k, i).t = "file"
             => \E q \in below : listed(q, k, i)
     /\ \A q \in below : \E k \in 1 .. Len(f.clusters), i \in 1 .. ClusterCells :
          Reached(sectors, e, dir, k, i) /\ listed(q, k, i)

-----------------------------------------------------------------------------
(* Volumes                                                                 *)

IsVolume(sectors, e) ==
  LET entries == e.vol.entries IN
  /\ IsPlaced(sectors, e)
  /\ \A s \in Within(e) : DOMAIN sectors[s] = 1 .. Cells
  /\ <<>> \in DOMAIN entries /\ entries[<<>>].directory
  /\ entries[<<>>].first = BootOf(sectors, e).root
  /\ \A q \in DOMAIN entries :
       /\ IsSequence(q) /\ IsFile(sectors, e, entries[q])
       /\ q # <<>> => /\ IsSequence(NameOf(q)) /\ Parent(q) \in DOMAIN entries
                      /\ entries[Parent(q)].directory
       /\ entries[q].directory => IsDirectory(sectors, e, q)
=============================================================================
