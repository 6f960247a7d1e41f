----------------------------- MODULE KernelInit -----------------------------
(***************************************************************************)
(* init (kernel.c): ACPI_init, mem_manager_init and component_bus_init,    *)
(* the last as far as PCIE_init's search for the MCFG table.  The three    *)
(* share that table: find_mmio_hole takes it without a test, PCIE_init     *)
(* refuses to go on without it.                                            *)
(***************************************************************************)
EXTENDS BootMemory, Acpi

CONSTANTS
  Firmware,   \* what firmware may deliver: [map, area, tables]
  LowMemory   \* the words that find_mmio_hole takes for an MCFG table at address 0

\* Tables as the BIOS leaves them; there is none at address NULL.
BiosTables(ts) ==
  /\ Null \notin DOMAIN ts
  /\ \A a \in DOMAIN ts : ts[a].bytes \in Seq(Nat) /\ ts[a].entries \in Seq(mcfg_entry_t)

ASSUME FirmwareAssumption ==
  /\ \A f \in Firmware :
       E820Map(f.map) /\ f.area \in Seq(rsdp_t) /\ BiosTables(f.tables)
  /\ LowMemory \in Seq(Nat)

initVars == <<vars, acpiVars>>

\* The table as its two readers see it.
McfgOf(root) ==
  LET address == GetTable(root, "MCFG")
  IN IF address = Null THEN [present |-> FALSE, words |-> LowMemory]
     ELSE [present |-> TRUE, entries |-> tables[address].entries]

AcpiScans ==
  /\ pc = "acpi" /\ NextPlace
  /\ UNCHANGED vars

AcpiFinds ==
  /\ Phase("acpi", "root") /\ FoundRoot
  /\ mcfg' = McfgOf(RSD_T')
  /\ UNCHANGED <<firmware, memory_map, root_heap, low_heap, bump_heap>>

\* The root table is looked for where nothing is mapped.
AcpiFaults ==
  /\ Phase("acpi", "fault") /\ InArea /\ Pointer /\ ~Mapped
  /\ UNCHANGED <<firmware, mcfg, memory_map, root_heap, low_heap, bump_heap, acpiVars>>

AcpiFails ==
  /\ Phase("acpi", "halted") /\ RSD_T = Null /\ scan > Len(area)
  /\ UNCHANGED <<firmware, mcfg, memory_map, root_heap, low_heap, bump_heap, acpiVars>>

MemManagerInit == Next /\ UNCHANGED acpiVars

\* PCIE_init and component_bus_init.
BusReady ==
  /\ Phase("running", "ready") /\ mcfg.present
  /\ UNCHANGED <<firmware, mcfg, memory_map, root_heap, low_heap, bump_heap, acpiVars>>

BusFails ==
  /\ Phase("running", "halted") /\ ~mcfg.present
  /\ UNCHANGED <<firmware, mcfg, memory_map, root_heap, low_heap, bump_heap, acpiVars>>

KernelInitInit ==
  /\ pc = "acpi"
  /\ \E f \in Firmware : firmware = f.map /\ area = f.area /\ tables = f.tables
  /\ mcfg = [present |-> FALSE, words |-> <<>>]
  /\ memory_map = firmware
  /\ root_heap = None /\ low_heap = None /\ bump_heap = None
  /\ scan = 1 /\ RSD_T = Null

KernelInitNext ==
  \/ AcpiScans \/ AcpiFinds \/ AcpiFaults \/ AcpiFails
  \/ MemManagerInit
  \/ BusReady \/ BusFails

KernelInitSpec == KernelInitInit /\ [][KernelInitNext]_initVars

-----------------------------------------------------------------------------
(* Properties                                                              *)

\* A root pointer as it should be: the sums are right over the whole of the table.
Sound(p) ==
  /\ p.rsdp /\ p.sum = 0 /\ Is(p.address, "RSDT")
  /\ Sum(tables[p.address].bytes) = 0

Describes(address) ==
  \E k \in DOMAIN tables[address].bytes :
    k > TableHeader /\ Is(tables[address].bytes[k], "MCFG")

\* Where root tables are shorter than 256 bytes, init uses the first sound one of
\* the area, whatever damaged ones come before it, and it is only for want of a sound
\* one that ACPI_init fails.  Devices are handed out only if that table leads to an
\* MCFG table: a hole computed from address 0 instead is never used.
InitExact ==
  (\A a \in DOMAIN tables : Len(tables[a].bytes) < AcpiByte) =>
    /\ RSD_T # Null =>
         /\ Sound(area[scan]) /\ area[scan].address = RSD_T
         /\ \A k \in 1 .. scan - 1 : ~Sound(area[k])
    /\ pc = "halted" /\ RSD_T = Null => \A k \in DOMAIN area : ~Sound(area[k])
    /\ pc = "ready" => Describes(RSD_T) /\ bump_heap # None
=============================================================================
