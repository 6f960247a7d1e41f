---------------------------- MODULE MCBootMemory ----------------------------
(***************************************************************************)
(* A 64-address machine for BootMemory.  The maps vary the length of the   *)
(* main memory, what lies above it, the order in which firmware lists the  *)
(* entries and how full the map is.                                        *)
(***************************************************************************)
EXTENDS BootMemory

MCFixedDevices == <<[base |-> 54, end |-> 55], [base |-> 60, end |-> 64]>>

Ram(b, n)  == [base |-> b, length |-> n, type |-> Usable]
Rsvd(b, n) == [base |-> b, length |-> n, type |-> Reserved]

\* Conventional memory, then main memory from the megabyte on, then another
\* region below the fixed devices.
FirstMegabyte == <<Ram(0, 3)>>
MainMemory    == {Ram(4, n) : n \in {5, 15, 20, 28, 33, 42}}
AboveMain     == {<<>>, <<Ram(46, 6)>>, <<Ram(47, 6)>>, <<Rsvd(46, 2)>>,
                  <<Rsvd(48, 6)>>, <<Rsvd(50, 24)>>}

MemoryMaps ==
  {FirstMegabyte \o <<main>> \o above : main \in MainMemory, above \in AboveMain}
    \cup {above \o <<main>> \o FirstMegabyte : main \in MainMemory,
                                               above \in AboveMain}
    \cup {<<main, Ram(64, 20), Ram(0, 2), Rsvd(2, 2)>> : main \in MainMemory}
    \cup {<<Ram(4, n), Ram(26, 20)>> : n \in {12, 15, 20}}
    \cup {<<Ram(0, 20), Rsvd(20, 3), Ram(23, 31), Rsvd(54, 6)>>,
          <<Ram(0, 40), Rsvd(40, 20)>>}

Ecam(b, s, e) == [base |-> b, start_bus |-> s, end_bus |-> e]

McfgTables == {<<Ecam(b, 0, n)>> : b \in {32, 48}, n \in {0, 1}}
                \cup {<<Ecam(40, 0, 0), Ecam(48, 0, 0)>>}

\* Configuration space is not in memory; firmware may or may not list it.
Windows(t) == UNION {Span(t[i].base + t[i].start_bus * BusSpan,
                          t[i].base + (t[i].end_bus + 1) * BusSpan) : i \in DOMAIN t}

MCMachines ==
  {m \in [map : MemoryMaps, mcfg : [present : {TRUE}, entries : McfgTables]] :
     Windows(m.mcfg.entries) \cap Listed(m.map, {Usable}) = {}}
=============================================================================
