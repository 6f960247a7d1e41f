-------------------------------- MODULE Pcie --------------------------------
(***************************************************************************)
(* PCIE_get_devices and PCIE_remap_BAR (drivers/component_bus/pcie/pcie.c): *)
(* every function's base address registers are sized by writing ones to    *)
(* them, and then moved, one after the other, to addresses of the MMIO     *)
(* hole that the bump allocator hands out.  The registers are those of the *)
(* devices, so every intermediate value is one that a device decodes       *)
(* unless the driver has switched its decoding off.                        *)
(*                                                                         *)
(* Register values are numbers below W, which stands for 2^32; the flag    *)
(* bits of a register are its kind.  A 64-bit address takes two registers. *)
(***************************************************************************)
EXTENDS Alignment, Sequences, FiniteSets, SequencesExt

CONSTANTS
  W,          \* 2^32
  IoTop,      \* 2^16: what an I/O register with 16 address bits can hold
  NBars,      \* registers of a function (6)
  Hardware,   \* the machines: sequences of functions, each a sequence of
              \* registers [kind, size, base], or <<>> where nothing answers
  HoleStart,  \* the MMIO hole: bump_heap_t.start
  HoleSize,   \* and size
  FirstSize,  \* entries the array of devices starts with (16)
  GrowBy      \* entries it grows by (8)

ASSUME PcieAssumption ==
  /\ {W, IoTop, NBars, HoleSize, FirstSize, GrowBy} \subseteq Nat \ {0}
  /\ HoleStart \in Nat /\ HoleStart + HoleSize < W
  /\ W % IoTop = 0

VARIABLES
  hw,        \* the machine: what every register implements
  firmware,  \* registers and decode bits as firmware left them
  reg,       \* register values: reg[f][b]
  decode,    \* the decode bits of every function's command register
  drv,       \* the position of the driver and what it has read
  devices,   \* the array of devices, as far as it is filled
  capacity,  \* the entries it has room for: *devices_size
  moved,     \* history: the registers <<device, register>> that were moved
  next, granted, last   \* the bump allocator

bump == <<next, granted, last>>
vars == <<hw, firmware, reg, decode, drv, devices, capacity, moved, next, granted, last>>

Bump == INSTANCE BumpHeap
          WITH Start <- HoleStart, Size <- HoleSize, Word <- W * W,
               Sizes <- {}, Aligns <- {}

Bars == 1 .. NBars
Ones == W - 1

-----------------------------------------------------------------------------
(* The devices                                                             *)

\* Kinds: "mem32"; "mem64" and "high", the two halves of a 64-bit register;
\* "io" and "io16", which has no bits above 2^16; "reserved", memory of type 3;
\* "none", which reads 0; "fixed", 32-bit memory that cannot be moved.
LowSize(r) == IF r.size < W THEN r.size ELSE W

\* What the register keeps of a value that is written to it.
Kept(r, v) ==
  CASE r.kind \in {"mem32", "io", "reserved"} -> (v \div r.size) * r.size
    [] r.kind = "mem64" -> (v \div LowSize(r)) * LowSize(r)
    [] r.kind = "high"  -> IF r.size < W THEN v
                             ELSE (v \div (r.size \div W)) * (r.size \div W)
    [] r.kind = "io16"  -> ((v % IoTop) \div r.size) * r.size
    [] r.kind = "none"  -> 0
    [] r.kind = "fixed" -> r.base

Registers ==
  [kind : {"mem32", "mem64", "high", "io", "io16", "reserved", "none", "fixed"},
   size : Nat, base : 0 .. W - 1]

\* What the bus guarantees of a register: it holds what it can keep, and its size
\* divides what its address bits can count, as powers of two do.
RealRegister(r) ==
  /\ Kept(r, r.base) = r.base
  /\ r.kind \in {"mem32", "io", "reserved"} =>
       0 < r.size /\ r.size < W /\ W % r.size = 0
  /\ r.kind \in {"mem64", "high"} =>
       \/ 0 < r.size /\ r.size < W /\ W % r.size = 0
       \/ \E n \in 1 .. W - 1 : r.size = n * W /\ W % n = 0
  /\ r.kind = "io16" => 0 < r.size /\ r.size < IoTop /\ IoTop % r.size = 0
  /\ r.kind = "fixed" => r.base + r.size <= W

\* The halves of a 64-bit register are neighbours.
RealFunction(regs) ==
  /\ Len(regs) = NBars
  /\ \A b \in 1 .. NBars :
       /\ RealRegister(regs[b])
       /\ regs[b].kind = "mem64" =>
            /\ b < NBars
            /\ regs[b + 1].kind = "high" /\ regs[b + 1].size = regs[b].size
       /\ regs[b].kind = "high" => b > 1 /\ regs[b - 1].kind = "mem64"

ASSUME HardwareAssumption ==
  /\ Hardware \subseteq Seq(Seq(Registers))
  /\ \A m \in Hardware : \A f \in DOMAIN m : m[f] = <<>> \/ RealFunction(m[f])

IsIo(r) == r.kind \in {"io", "io16"}
Is64(r) == r.kind = "mem64"

\* The full address that the register at b of function f holds.
Address(f, b) == reg[f][b] + IF Is64(hw[f][b]) THEN W * reg[f][b + 1] ELSE 0

-----------------------------------------------------------------------------
(* Sizing                                                                  *)

F == drv.fn
B == drv.bar
R == hw[F][B]

Written(lo, hi) ==
  [reg EXCEPT ![F] = [b \in Bars |->
     IF b = B THEN Kept(R, lo)
     ELSE IF Is64(R) /\ b = B + 1 THEN Kept(hw[F][b], hi) ELSE reg[F][b]]]

\* The size that the masks read back stand for: ~mask + 1, in 32-bit or in 64-bit
\* arithmetic.  An unimplemented register gives 0.
Sized(lo, hi) ==
  IF Is64(R) THEN (W * W - (lo + W * hi)) % (W * W) ELSE (W - lo) % W

NoBar == [valid |-> FALSE, is64 |-> FALSE, isIo |-> FALSE, size |-> 0, base |-> 0]

\* Mutant: the array is not grown.
NotGrown == capacity

\* The array grows before an entry past its end is written.
Grown == IF Len(devices) >= capacity THEN capacity + GrowBy ELSE capacity

\* The entry of the device being enumerated, with register B filled in.
Record(bar) ==
  /\ capacity' = Grown
  /\ drv' = [drv EXCEPT !.pc = "bar", !.bar = B + 1,
                        !.was64 = bar.is64, !.bars = Append(@, bar)]

\* No function answers: its vendor ID reads 0xFFFF.
Absent ==
  /\ drv.pc = "bar" /\ F <= Len(hw)
  /\ hw[F] = <<>>
  /\ drv' = [drv EXCEPT !.fn = F + 1]
  /\ UNCHANGED <<hw, firmware, reg, decode, devices, capacity, moved, bump>>

AtBar == drv.pc = "bar" /\ F <= Len(hw) /\ hw[F] # <<>> /\ B <= NBars

\* The register after a 64-bit one is its upper half; its lowest bit is taken
\* for the I/O flag.
UpperHalf ==
  /\ AtBar /\ drv.was64
  /\ Record([NoBar EXCEPT !.isIo = (reg[F][B] % 2 = 1)])
  /\ UNCHANGED <<hw, firmware, reg, decode, devices, moved, bump>>

\* Mutant: decoding stays on while the register is probed.
DisableNothing ==
  /\ AtBar /\ ~drv.was64
  /\ drv' = [drv EXCEPT !.pc = "ones", !.low = reg[F][B],
               !.high = IF Is64(R) THEN reg[F][B + 1] ELSE 0,
               !.command = decode[F]]
  /\ UNCHANGED <<hw, firmware, reg, decode, devices, capacity, moved, bump>>

\* Save the register and the command register and switch decoding off.
Disable ==
  /\ AtBar /\ ~drv.was64
  /\ drv' = [drv EXCEPT !.pc = "ones", !.low = reg[F][B],
               !.high = IF Is64(R) THEN reg[F][B + 1] ELSE 0,
               !.command = decode[F]]
  /\ decode' = [decode EXCEPT ![F] = FALSE]
  /\ UNCHANGED <<hw, firmware, reg, devices, capacity, moved, bump>>

WriteOnes ==
  /\ drv.pc = "ones"
  /\ reg' = Written(Ones, Ones)
  /\ drv' = [drv EXCEPT !.pc = "mask"]
  /\ UNCHANGED <<hw, firmware, decode, devices, capacity, moved, bump>>

\* Mutant: only the lower half is restored.
RestoreLow ==
  /\ drv.pc = "mask"
  /\ drv' = [drv EXCEPT !.pc = "restored", !.maskLow = reg[F][B],
               !.maskHigh = IF Is64(R) THEN reg[F][B + 1] ELSE 0]
  /\ reg' = [reg EXCEPT ![F][B] = Kept(R, drv.low)]
  /\ UNCHANGED <<hw, firmware, decode, devices, capacity, moved, bump>>

\* Read the masks and write back what the register held.
Restore ==
  /\ drv.pc = "mask"
  /\ drv' = [drv EXCEPT !.pc = "restored", !.maskLow = reg[F][B],
               !.maskHigh = IF Is64(R) THEN reg[F][B + 1] ELSE 0]
  /\ reg' = Written(drv.low, drv.high)
  /\ UNCHANGED <<hw, firmware, decode, devices, capacity, moved, bump>>

\* Write the command register back and record the register.
Enable ==
  /\ drv.pc = "restored"
  /\ decode' = [decode EXCEPT ![F] = drv.command]
  /\ Record(IF R.kind = "reserved" THEN NoBar
            ELSE [valid |-> Sized(drv.maskLow, drv.maskHigh) # 0,
                  is64 |-> Is64(R), isIo |-> IsIo(R),
                  size |-> Sized(drv.maskLow, drv.maskHigh),
                  base |-> drv.low + W * drv.high])
  /\ UNCHANGED <<hw, firmware, reg, devices, moved, bump>>

\* All registers are recorded: the device's entry is complete.
NextFunction ==
  /\ drv.pc = "bar" /\ F <= Len(hw) /\ hw[F] # <<>> /\ B > NBars
  /\ devices' = Append(devices, [fn |-> F, bars |-> drv.bars])
  /\ drv' = [drv EXCEPT !.fn = F + 1, !.bar = 1, !.was64 = FALSE, !.bars = <<>>]
  /\ UNCHANGED <<hw, firmware, reg, decode, capacity, moved, bump>>

\* The array is cut to the devices found; remapping starts.
ScanDone ==
  /\ drv.pc = "bar" /\ F > Len(hw)
  /\ capacity' = Len(devices)
  /\ drv' = [drv EXCEPT !.pc = "remap", !.dev = 1, !.bar = 1]
  /\ UNCHANGED <<hw, firmware, reg, decode, devices, moved, bump>>

-----------------------------------------------------------------------------
(* Remapping                                                               *)

D == devices[drv.dev]
Bar == D.bars[B]
AtRemap == drv.pc = "remap" /\ drv.dev <= Len(devices)

Advance ==
  drv' = IF B < NBars THEN [drv EXCEPT !.pc = "remap", !.bar = B + 1]
         ELSE [drv EXCEPT !.pc = "remap", !.bar = 1, !.dev = @ + 1]

SkipBar ==
  /\ AtRemap
  /\ ~Bar.valid \/ Bar.size = 0
  /\ Advance
  /\ UNCHANGED <<hw, firmware, reg, decode, devices, capacity, moved, bump>>

\* Mutant: the request is made again until there is memory.
NoAddressRetry ==
  /\ AtRemap /\ Bar.valid /\ Bar.size # 0
  /\ Bump!Refuse(Bar.size, Bar.size)
  /\ UNCHANGED <<hw, firmware, reg, decode, drv, devices, capacity, moved>>

\* The bump allocator returns NULL: the register keeps its address.
NoAddress ==
  /\ AtRemap /\ Bar.valid /\ Bar.size # 0
  /\ Bump!Refuse(Bar.size, Bar.size)
  /\ Advance
  /\ UNCHANGED <<hw, firmware, reg, decode, devices, capacity, moved>>

\* PCIE_remap_BAR: save the registers and switch decoding off.  The address it
\* is given is aligned and ends below 4 GiB (AddressAcceptable), so that none of
\* its checks rejects it.
Assign ==
  /\ AtRemap /\ Bar.valid /\ Bar.size # 0
  /\ Bump!Grant(Bar.size, Bar.size)
  /\ drv' = [drv EXCEPT !.pc = "write", !.fn = D.fn, !.command = decode[D.fn],
               !.low = reg[D.fn][B], !.new = next' - Bar.size,
               !.high = IF Bar.is64 THEN reg[D.fn][B + 1] ELSE 0]
  /\ decode' = [decode EXCEPT ![D.fn] = FALSE]
  /\ UNCHANGED <<hw, firmware, reg, devices, capacity, moved>>

WriteBar ==
  /\ drv.pc = "write"
  /\ reg' = Written(drv.new % W, drv.new \div W)
  /\ drv' = [drv EXCEPT !.pc = "verify"]
  /\ UNCHANGED <<hw, firmware, decode, devices, capacity, moved, bump>>

\* Mutant: the new base is recorded without reading the register back.
MovedUnread == drv.pc = "verify"

Moved == drv.pc = "verify" /\ Address(F, B) = drv.new

\* The register holds the new address: record it and restore the command.
Verified ==
  /\ Moved
  /\ devices' = [devices EXCEPT ![drv.dev].bars[B].base = drv.new]
  /\ decode' = [decode EXCEPT ![F] = drv.command]
  /\ moved' = moved \cup {<<drv.dev, B>>}
  /\ Advance
  /\ UNCHANGED <<hw, firmware, reg, capacity, bump>>

\* Mutant: the error path leaves decoding off.
RemapFailedOff ==
  /\ drv.pc = "verify" /\ Address(F, B) # drv.new
  /\ reg' = Written(drv.low, drv.high)
  /\ drv' = [drv EXCEPT !.pc = "halted"]
  /\ UNCHANGED <<hw, firmware, decode, devices, capacity, moved, bump>>

\* It does not: write everything back and halt.
RemapFailed ==
  /\ drv.pc = "verify" /\ Address(F, B) # drv.new
  /\ reg' = Written(drv.low, drv.high)
  /\ decode' = [decode EXCEPT ![F] = drv.command]
  /\ drv' = [drv EXCEPT !.pc = "halted"]
  /\ UNCHANGED <<hw, firmware, devices, capacity, moved, bump>>

RemapDone ==
  /\ drv.pc = "remap" /\ drv.dev > Len(devices)
  /\ drv' = [drv EXCEPT !.pc = "done"]
  /\ UNCHANGED <<hw, firmware, reg, decode, devices, capacity, moved, bump>>

-----------------------------------------------------------------------------
Init ==
  /\ hw \in Hardware
  /\ reg = [f \in DOMAIN hw |-> [b \in DOMAIN hw[f] |-> hw[f][b].base]]
  /\ decode \in [DOMAIN hw -> BOOLEAN]
  /\ firmware = [reg |-> reg, decode |-> decode]
  /\ drv = [pc |-> "bar", fn |-> 1, bar |-> 1, was64 |-> FALSE, bars |-> <<>>,
            low |-> 0, high |-> 0, maskLow |-> 0, maskHigh |-> 0,
            command |-> FALSE, dev |-> 1, new |-> 0]
  /\ devices = <<>>
  /\ capacity = FirstSize
  /\ moved = {}
  /\ Bump!Init

Next ==
  \/ Absent \/ UpperHalf \/ Disable \/ WriteOnes \/ Restore \/ Enable
  \/ NextFunction \/ ScanDone
  \/ SkipBar \/ NoAddress \/ Assign \/ WriteBar \/ Verified \/ RemapFailed
  \/ RemapDone

Spec == Init /\ [][Next]_vars /\ WF_vars(Next)

-----------------------------------------------------------------------------
(* Properties                                                              *)

Present == {f \in DOMAIN hw : hw[f] # <<>>}
Starts(f) == {b \in Bars : hw[f][b].kind \notin {"high", "none"}}

\* A device that decodes never sees a probe value: each of its registers holds
\* the address firmware gave it or one that the bump allocator gave it.
DecodesRealAddress ==
  \A f \in Present : decode[f] =>
    \A b \in Starts(f) :
      \/ /\ reg[f][b] = firmware.reg[f][b]
         /\ Is64(hw[f][b]) => reg[f][b + 1] = firmware.reg[f][b + 1]
      \/ \E g \in granted : g.base = Address(f, b)

\* Between two registers, and when the driver is done or gives up, every command
\* register decodes what it decoded when the driver started.
DecodingRestored ==
  drv.pc \in {"bar", "remap", "done", "halted"} => decode = firmware.decode

\* Enumeration leaves no trace: when remapping starts every register is as
\* firmware left it, whatever was probed before.
SizingUndone == [][ScanDone => reg = firmware.reg]_vars

\* The array holds exactly the functions that answer, in order, and is never
\* written past its end.
AllEnumerated ==
  /\ drv.bars # <<>> => Len(devices) < capacity
  /\ drv.pc \in {"remap", "done"} =>
       /\ capacity = Len(devices)
       /\ {devices[d].fn : d \in DOMAIN devices} = Present
       /\ \A d, e \in DOMAIN devices : d < e => devices[d].fn < devices[e].fn

\* The address that PCIE_remap_BAR is given passes all of its checks.
AddressAcceptable ==
  drv.pc \in {"write", "verify"} =>
    /\ drv.new % D.bars[B].size = 0
    /\ drv.new + D.bars[B].size < W

\* What the array says of a register is the address that it holds and, for 32-bit and
\* 64-bit memory and 32-bit I/O, the size that the hardware implements.  Of the other
\* two kinds that it calls valid it says a wrong size: the address bits that a 16-bit
\* I/O register lacks count as if it decoded them, so that its size is that of almost
\* the whole 4 GiB, and a register that cannot be moved seems to reach to 4 GiB.
RecordedBarsReal ==
  drv.pc \in {"remap", "done", "halted"} =>
    \A d \in DOMAIN devices : \A b \in Bars :
      LET f == devices[d].fn  r == hw[f][b]  bar == devices[d].bars[b] IN
      /\ bar.valid => bar.base = Address(f, b)
      /\ r.kind \in {"mem32", "mem64", "io"} => bar.valid /\ bar.size = r.size
      /\ r.kind = "io16"  => bar.valid /\ bar.size = r.size + (W - IoTop)
      /\ r.kind = "fixed" => bar.size = (W - r.base) % W /\ (bar.valid <=> r.base # 0)
      /\ r.kind \in {"none", "high", "reserved"} => ~bar.valid

\* The windows that devices decode at the addresses they were moved to, as long
\* as the hardware makes them, lie in the hole and do not overlap, and every address
\* on offer passes the checks of PCIE_remap_BAR.
MovedApart ==
  /\ AddressAcceptable
  /\ LET base(m) == Address(devices[m[1]].fn, m[2])
         end(m)  == base(m) + hw[devices[m[1]].fn][m[2]].size
     IN \A m, n \in moved :
          /\ HoleStart <= base(m) /\ end(m) <= HoleStart + HoleSize
          /\ m # n => end(m) <= base(n) \/ end(n) <= base(m)

\* Enumeration and remapping end.
Ends == <>(drv.pc \in {"done", "halted"})
=============================================================================
