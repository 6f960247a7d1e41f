-------------------------------- MODULE Acpi --------------------------------
(***************************************************************************)
(* ACPI (drivers/acpi/acpi.c): ACPI_init searches the BIOS area for a root *)
(* pointer whose root table is sound, ACPI_get_table looks a table up in   *)
(* it.  One step is one place of the area.                                 *)
(*                                                                         *)
(* A place of the area is [rsdp, sum, address, next]: whether "RSD PTR "   *)
(* is there, the sum of the 20 bytes from there on, the four bytes of      *)
(* rsdt_address and the four after them.  A table is [signature, bytes],   *)
(* the bytes of a root table being a header and then one address each.     *)
(***************************************************************************)
EXTENDS Integers, Sequences, SequencesExt

CONSTANTS
  AcpiByte,     \* 2^8
  TableHeader,  \* sizeof(rsdt_header_t)
  Null          \* the NULL of table pointers

ASSUME AcpiAssumption == AcpiByte \in Nat \ {0} /\ TableHeader \in Nat

rsdp_t == [rsdp : BOOLEAN, sum : Nat, address : Nat, next : Nat]

VARIABLES
  area,    \* the places from 0xE0000 on
  tables,  \* the tables, by address
  scan,    \* the place that ACPI_init is at
  RSD_T    \* the root table, or Null

acpiVars == <<area, tables, scan, RSD_T>>

Sum(bytes) == FoldLeft(LAMBDA s, b : (s + b) % AcpiByte, 0, bytes)

\* Mutant: the sum is computed and not looked at.
ChecksumUnseen(table) == TRUE

\* acpi_checksum: the length is passed as a uint8_t.
Checksum(table) == Sum(SubSeq(table.bytes, 1, Len(table.bytes) % AcpiByte)) = 0

Is(address, signature) ==
  address \in DOMAIN tables /\ tables[address].signature = signature

Place   == area[scan]
Pointer == Place.rsdp /\ Place.sum = 0

\* rsdt_address is declared as a pointer, so that the four bytes behind it are read
\* as its upper half; what lies above 4 GiB is not mapped.
Mapped  == Place.next = 0
Rooted  == Mapped /\ Is(Place.address, "RSDT") /\ Checksum(tables[Place.address])

InArea == RSD_T = Null /\ scan <= Len(area)

NextPlace ==
  /\ InArea
  /\ Pointer => Mapped /\ ~Rooted
  /\ scan' = scan + 1
  /\ UNCHANGED <<area, tables, RSD_T>>

FoundRoot ==
  /\ InArea /\ Pointer /\ Rooted
  /\ RSD_T' = Place.address
  /\ UNCHANGED <<area, tables, scan>>

\* ACPI_get_table: the first table of that name, or NULL.
GetTable(root, name) ==
  LET bytes == tables[root].bytes
      named == {k \in TableHeader + 1 .. Len(bytes) : Is(bytes[k], name)}
  IN IF named = {} THEN Null ELSE bytes[Min(named)]
=============================================================================
