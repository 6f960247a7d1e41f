---------------------------- MODULE MCKernelMain ----------------------------
(***************************************************************************)
(* Disk images for KernelMain: volumes of six clusters of four cells, so   *)
(* that directories and files span clusters, entry sets meet the end of a  *)
(* cluster, and FAT words lie in several sectors.                          *)
(***************************************************************************)
EXTENDS KernelMain, SequencesExt

Ketone  == <<"ketone">>
HelloN  == <<"hello">>
MCHello == <<Ketone, HelloN>>

-----------------------------------------------------------------------------
(* Cells                                                                   *)

F(count)            == [t |-> "file", count |-> count, directory |-> FALSE]
D(count)            == [t |-> "file", count |-> count, directory |-> TRUE]
S(first, length)    == [t |-> "stream", first |-> first, length |-> length,
                        flat |-> FALSE, name_length |-> 1]
Flat(cell)          == [cell EXCEPT !.flat = TRUE]
Long(cell)          == [cell EXCEPT !.name_length = 2]
N(text)             == [t |-> "name", piece |-> PieceOf(text)]
Wide(low, zero)     == [t |-> "name", piece |-> [low |-> low, zero |-> zero, high |-> 1]]
E                   == [t |-> "end"]
X(k)                == [t |-> "data", of |-> k]
U                   == Fresh
Blank               == <<U, U, U, U>>
Boot                == [t |-> "boot", fat |-> 1, heap |-> 5, root |-> 2]
EOC                 == 255

MCJunk  == {U, N("ketone")}
MCStale == [t : {"boot"}, fat : {1}, heap : {0, 5}, root : {0, 2, 3, 4}]
MCStray == {0, 3, 4, EOC}

-----------------------------------------------------------------------------
(* Volumes: FAT words of clusters 2 to 7, the clusters, and the ghost      *)

File(clusters, length, data) ==
  [first |-> IF clusters = <<>> THEN 0 ELSE clusters[1], length |-> length, data |-> data,
   clusters |-> clusters, flat |-> FALSE, directory |-> FALSE, chain |-> "whole"]

Sub(clusters, data)   == [File(clusters, Len(data), data) EXCEPT !.directory = TRUE]
Contig(f)             == [f EXCEPT !.flat = TRUE]
Broken(f, chain)      == [f EXCEPT !.chain = chain]

\* clusters gives the contents of clusters 2 to 7, root the clusters of the root.
Volume(fat, root, clusters, entries) ==
  [fat |-> <<248, EOC>> \o fat, clusters |-> clusters, boot |-> Boot,
   vol |-> [searchable |-> TRUE,
            entries |-> entries @@
              (<<>> :> Sub(root, FlattenSeq([k \in DOMAIN root |-> clusters[root[k] - 1]])))]]

Unsearchable(v) == [v EXCEPT !.vol.searchable = FALSE]

Root == <<D(2), S(3, 4), N("ketone"), E>>
Data(a, b) == [k \in 1 .. b - a + 1 |-> X(a + k - 1)]
RootFat(a, b, c) == <<EOC, EOC, a, b, c, 0>>
Tree(dir, hello) == (<<Ketone>> :> Sub(<<3>>, dir)) @@ (MCHello :> hello)

HelloDir(cell) == <<F(2), cell, N("hello"), E>>

\* A chained file of one and a half clusters.
Plain ==
  Volume(RootFat(6, 0, EOC), <<2>>,
         <<Root, HelloDir(S(4, 6)), Data(1, 4), Blank, Data(5, 8), Blank>>,
         Tree(HelloDir(S(4, 6)), File(<<4, 6>>, 6, Data(1, 6))))

\* Both directories have two clusters, with names that differ from the wanted one
\* in the directory, in a later piece and in a piece past the name's length.
Deep ==
  LET first  == <<F(3), Long(S(7, 1)), N("hello"), N("world")>>
      second == <<F(3), Flat(S(5, 3)), N("hello"), N("world")>>
  IN Volume(<<3, EOC, 6, EOC, EOC, EOC>>, <<2, 3>>,
            <<<<F(2), S(7, 2), N("hello"), U>>, <<D(2), S(4, 8), N("ketone"), E>>,
              first, Data(1, 4), second, Data(5, 8)>>,
            (<<HelloN>> :> File(<<7>>, 2, Data(5, 6)))
              @@ (<<Ketone>> :> Sub(<<4, 6>>, first \o second))
              @@ (MCHello :> Contig(File(<<5>>, 3, Data(1, 3))))
              @@ (<<Ketone, <<"hello", "world">>>> :> File(<<7>>, 1, Data(5, 5))))

\* A contiguous file: its FAT words mean nothing.
Contiguous ==
  Volume(RootFat(0, 0, 0), <<2>>,
         <<Root, HelloDir(Flat(S(4, 9))), Data(1, 4), Data(5, 8), Data(9, 12), Blank>>,
         Tree(HelloDir(Flat(S(4, 9))), Contig(File(<<4, 5, 6>>, 9, Data(1, 9)))))

Empty ==
  Volume(RootFat(0, 0, 0), <<2>>, <<Root, HelloDir(S(0, 0)), Blank, Blank, Blank, Blank>>,
         Tree(HelloDir(S(0, 0)), File(<<>>, 0, <<>>)))

\* ketone is a file: its data must not be searched.
NotDirectory ==
  Volume(RootFat(0, 0, 0), <<2>>,
         <<<<F(2), S(3, 4), N("ketone"), E>>, HelloDir(S(4, 1)), Blank, Blank, Blank, Blank>>,
         <<Ketone>> :> File(<<3>>, 4, HelloDir(S(4, 1))))

\* The chain of hello ends after one of two clusters, or runs in a circle.
Short ==
  Volume(RootFat(EOC, 0, 0), <<2>>,
         <<Root, HelloDir(S(4, 6)), Data(1, 4), Blank, Blank, Blank>>,
         Tree(HelloDir(S(4, 6)), Broken(File(<<4>>, 6, <<>>), "short")))

Circular ==
  Volume(RootFat(4, 0, 0), <<2>>,
         <<Root, HelloDir(S(4, 6)), Data(1, 4), Blank, Blank, Blank>>,
         Tree(HelloDir(S(4, 6)), Broken(File(<<4>>, 6, <<>>), "cyclic")))

\* Before hello, two names that differ from it in upper bytes only and in a character
\* that ends it.
Aliased ==
  LET first  == <<F(2), S(7, 1), Wide("hello", FALSE), U>>
      second == <<F(2), S(7, 2), Wide("hello", TRUE), U>>
      third  == HelloDir(S(5, 3))
  IN Unsearchable(Volume(<<EOC, 4, 6, EOC, EOC, EOC>>, <<2>>,
       <<<<D(2), S(3, 12), N("ketone"), E>>, second, first, Data(1, 4), third, Data(5, 8)>>,
       (<<Ketone>> :> Sub(<<3, 4, 6>>, second \o first \o third))
         @@ (MCHello :> File(<<5>>, 3, Data(1, 3)))))

\* An entry set that crosses clusters; a directory without a FAT chain; a directory
\* whose chain runs in a circle; another file system.
Split ==
  Unsearchable(Volume(<<3, EOC, EOC, EOC, 0, 0>>, <<2, 3>>,
    <<<<U, U, D(2), S(4, 4)>>, <<N("ketone"), E, U, U>>, HelloDir(S(5, 2)), Data(1, 4), Blank, Blank>>,
    (<<Ketone>> :> Sub(<<4>>, HelloDir(S(5, 2)))) @@ (MCHello :> File(<<5>>, 2, Data(1, 2)))))

FlatDirectory ==
  Unsearchable(Volume(<<EOC, 0, 0, EOC, 0, 0>>, <<2>>,
    <<<<D(2), Flat(S(3, 8)), N("ketone"), E>>, Blank, HelloDir(S(5, 2)), Data(1, 4), Blank, Blank>>,
    (<<Ketone>> :> Contig(Sub(<<3, 4>>, Blank \o HelloDir(S(5, 2)))))
      @@ (MCHello :> File(<<5>>, 2, Data(1, 2)))))

CircularDirectory ==
  LET v == Volume(<<2, 0, 0, 0, 0, 0>>, <<2>>, [c \in 1 .. 6 |-> Blank], <<>>)
  IN [v EXCEPT !.vol.entries[<<>>].chain = "cyclic"]

Foreign ==
  LET v == Unsearchable(Volume(<<0, 0, 0, 0, 0, 0>>, <<>>, [c \in 1 .. 6 |-> Blank], <<>>))
  IN [v EXCEPT !.boot = U]

-----------------------------------------------------------------------------
(* Disks and machines                                                      *)

VolSectors == 17    \* boot sector, four FAT sectors, six clusters of two sectors

SectorOf(v, s) ==
  IF s = 0 THEN <<v.boot, U>>
  ELSE IF s <= 4 THEN [k \in 1 .. 2 |-> [t |-> "fat", next |-> v.fat[2 * (s - 1) + k]]]
  ELSE [k \in 1 .. 2 |-> v.clusters[(s - 5) \div 2 + 1][2 * ((s - 5) % 2) + k]]

\* A disk with an MBR and the volumes one after the other, with a gap between them.
Disk(signed, types, vols, flk) ==
  LET start(i) == 2 + (i - 1) * (VolSectors + 1)
      place(s) == {i \in DOMAIN vols : s \in start(i) .. start(i) + VolSectors - 1}
      table == [i \in DOMAIN vols |->
                  [type |-> types[i], start |-> start(i), sectors |-> VolSectors,
                   vol |-> vols[i].vol]]
  IN [flaky |-> flk,
      sectors |-> [s \in 0 .. start(Len(vols) + 1) - 2 |->
        IF s = 0 THEN <<[t |-> "mbr", signed |-> signed, table |-> table], U>>
        ELSE IF place(s) = {} THEN <<U, U>>
        ELSE LET i == CHOOSE i \in place(s) : TRUE IN SectorOf(vols[i], s - start(i))]]

VolumeKinds == {Plain, Deep, Contiguous, Empty, NotDirectory, Short, Circular, Aliased,
                Split, FlatDirectory, CircularDirectory, Foreign}

Ex(n) == [i \in 1 .. n |-> "exfat"]

MCMachines ==
  {<<Disk(TRUE, Ex(1), <<v>>, flk)>> : v \in VolumeKinds, flk \in BOOLEAN}
  \cup {<<Disk(TRUE, <<"exfat", "empty", "other", "exfat">>,
               <<Deep, Plain, Plain, Contiguous>>, FALSE)>>,
        <<Disk(FALSE, Ex(1), <<Deep>>, FALSE), Disk(TRUE, Ex(2), <<NotDirectory, Plain>>, FALSE)>>,
        <<Disk(TRUE, Ex(2), <<Short, Deep>>, FALSE), Disk(TRUE, Ex(1), <<Contiguous>>, TRUE)>>}

Paths == {MCHello, <<HelloN>>, <<Ketone>>, <<Ketone, <<"hello", "world">>>>,
          <<HelloN, HelloN>>, <<Ketone, <<"world">>>>}

MCCallers ==
  {KernelCaller,
   [paths |-> Paths, reads |-> {"read_all"}],
   [paths |-> Paths, reads |-> {"read_file"}]}
=============================================================================
