-------------------------------- MODULE MCAta --------------------------------
(***************************************************************************)
(* Two drives on one channel and one on another.  With Byte = 4 and Nibble *)
(* = 2 the 28-bit addresses are those below 128 and the 32-bit ones those  *)
(* below 256, so that 7 and 135 differ in bits that only 48-bit addressing *)
(* sends.                                                                  *)
(***************************************************************************)
EXTENDS Ata

MCSlots == <<<<"primary", "master">>, <<"primary", "slave">>, <<"secondary", "master">>>>

Drive(kind, lba48, capacity, prompt, faulty) ==
  [kind |-> kind, lba48 |-> lba48, capacity |-> capacity, prompt |-> prompt, faulty |-> faulty]

None   == Drive("none", FALSE, 0, TRUE, FALSE)
Packet == Drive("packet", FALSE, 0, TRUE, FALSE)
Small  == Drive("disk", FALSE, 128, TRUE, FALSE)
Large  == Drive("disk", TRUE, 140, TRUE, FALSE)
Slow   == Drive("disk", FALSE, 8, FALSE, FALSE)
Bad    == Drive("disk", TRUE, 8, TRUE, TRUE)

Three(a, b, c) == (MCSlots[1] :> a) @@ (MCSlots[2] :> b) @@ (MCSlots[3] :> c)

MCMachines == {Three(Small, Large, None), Three(Packet, Large, None), Three(Slow, None, Small),
               Three(Slow, Small, None), Three(Bad, Large, None), Three(None, Small, Packet)}

MCLbas == {7, 135}
=============================================================================
