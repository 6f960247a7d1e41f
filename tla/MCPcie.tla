------------------------------- MODULE MCPcie -------------------------------
(***************************************************************************)
(* Small machines for ComponentBus: three function numbers, each empty or  *)
(* one of a few kinds of device with three registers.                      *)
(***************************************************************************)
EXTENDS ComponentBus

BarOf(k, s, b) == [kind |-> k, size |-> s, base |-> b]
Unused == BarOf("none", 0, 0)

\* Addresses that firmware gave out: memory in the hole (40 .. 59) or, in 64-bit
\* registers, above 4 GiB; ports below IoTop.
Functions ==
  { <<>>,
    <<BarOf("mem64", 8, 40), BarOf("high", 8, 0), BarOf("mem32", 4, 48)>>,
    <<BarOf("mem64", 128, 0), BarOf("high", 128, 2), Unused>>,
    <<Unused, BarOf("io", 4, 8), BarOf("mem32", 8, 48)>>,
    <<BarOf("io16", 4, 4), BarOf("mem32", 16, 32), BarOf("reserved", 8, 16)>> }

FixedFunction == <<Unused, BarOf("fixed", 8, 56), Unused>>

MCHardware ==
  {<<f, g, h>> : f, g, h \in Functions}
    \cup {<<f, FixedFunction>> : f \in Functions}

\* AHCI controllers, and others that differ in the interface or the subclass.
Code(s, i) == [class |-> 1, subclass |-> s, prog_if |-> i]
MCCodes == {Code(6, 1), Code(6, 0), Code(1, 1)}
=============================================================================
