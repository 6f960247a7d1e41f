---------------------------- MODULE MCKernelInit ----------------------------
(***************************************************************************)
(* The memory maps of MCBootMemory under a BIOS without surprises, and a   *)
(* few of them under BIOSes whose root pointers and tables are damaged,    *)
(* missing, doubled, or longer than a byte counts.                         *)
(***************************************************************************)
EXTENDS KernelInit, MCBootMemory

At(sum, address, next) == [rsdp |-> TRUE, sum |-> sum, address |-> address, next |-> next]
Nothing == [At(0, 0, 0) EXCEPT !.rsdp = FALSE]

Table(signature, bytes) == [signature |-> signature, bytes |-> bytes, entries |-> <<>>]

\* Table 1 is sound and leads to the MCFG table 4; 2 has the wrong sum; 3 is no root
\* table; 5 leads to no MCFG table; 6 is as long as a byte can count.
Tables(ecam) ==
  <<Table("RSDT", <<1, 3, 4>>), Table("RSDT", <<1, 4>>), Table("FACP", <<0>>),
    [Table("MCFG", <<0>>) EXCEPT !.entries = ecam], Table("RSDT", <<5, 3>>)>>

LongTables(ecam) == Append(Tables(ecam), Table("RSDT", <<1, 3, 3, 3, 3, 3, 3, 4>>))

Plain == <<Nothing, At(0, 1, 0)>>

Areas == {<<>>, <<Nothing, At(3, 1, 0), At(0, 2, 0), At(0, 3, 0), At(0, 7, 0)>>,
          <<At(3, 5, 0), At(0, 2, 0), At(0, 3, 0), Nothing, At(0, 1, 0), At(0, 5, 0)>>,
          <<At(0, 5, 0), At(0, 1, 0)>>, <<At(1, 1, 2), At(0, 1, 2), At(0, 1, 0)>>}

Delivered(m, places, long) ==
  [map |-> m.map, area |-> places,
   tables |-> IF long THEN LongTables(m.mcfg.entries) ELSE Tables(m.mcfg.entries)]

MCFirmware ==
  {Delivered(m, Plain, FALSE) : m \in MCMachines}
    \cup {Delivered(m, places, FALSE) : places \in Areas,
            m \in {n \in MCMachines : Len(n.map) = 3 /\ Len(n.mcfg.entries) = 2}}
    \cup {Delivered(m, <<At(0, 6, 0)>>, TRUE) :
            m \in {n \in MCMachines : Len(n.map) = 2}}

MCLowMemory == <<40, 16, 7, 3, 200>>
=============================================================================
