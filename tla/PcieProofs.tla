----------------------------- MODULE PcieProofs -----------------------------
(***************************************************************************)
(* Proofs about enumeration and remapping, for every machine that          *)
(* HardwareAssumption describes, every hole and every register width, and  *)
(* about the queries of the component bus.                                 *)
(***************************************************************************)
EXTENDS ComponentBus, AlignmentProofs, TLAPS

-----------------------------------------------------------------------------
(* The inductive invariant                                                 *)

Values == 0 .. W - 1
BarType == [valid : BOOLEAN, is64 : BOOLEAN, isIo : BOOLEAN, size : Nat, base : Nat]

EntryType == [fn : Nat \ {0}, bars : Seq(BarType)]

DrvType ==
  [pc : {"bar", "ones", "mask", "restored", "remap", "write", "verify", "done",
         "halted"},
   fn : Nat \ {0}, bar : 1 .. NBars + 1, was64 : BOOLEAN, bars : Seq(BarType),
   low : Nat, high : Nat, maskLow : Nat, maskHigh : Nat, command : BOOLEAN,
   dev : Nat \ {0}, new : Nat]

Probing  == drv.pc \in {"ones", "mask", "restored"}
Scanning == drv.pc = "bar" \/ Probing
Moving   == drv.pc \in {"write", "verify"}

TypeOK ==
  /\ hw \in Hardware
  /\ firmware.reg = [f \in DOMAIN hw |-> [b \in DOMAIN hw[f] |-> hw[f][b].base]]
  /\ firmware.decode \in [DOMAIN hw -> BOOLEAN]
  /\ DOMAIN reg = DOMAIN hw
  /\ \A f \in Present : reg[f] \in [Bars -> Values]
  /\ drv \in DrvType
  /\ devices \in Seq(EntryType)
  /\ capacity \in Nat
  /\ next \in HoleStart .. HoleStart + HoleSize

\* The driver is at a register of a function that answers.
AtRegister ==
  /\ Probing \/ Moving => F \in Present /\ B \in Bars
  /\ drv.pc = "bar" /\ F \in Present /\ B \in Bars =>
       (drv.was64 <=> R.kind = "high")
  /\ drv.pc = "bar" /\ B = 1 => ~drv.was64
  /\ Probing => R.kind # "high"

\* Only the function whose registers are being written does not decode.
DecodeOK ==
  IF Probing \/ Moving
    THEN /\ drv.command = firmware.decode[F]
         /\ decode = [firmware.decode EXCEPT ![F] = FALSE]
    ELSE decode = firmware.decode

\* Every register holds a value that it can keep.
Stable == \A f \in Present, b \in Bars : Kept(hw[f][b], reg[f][b]) = reg[f][b]

\* While a register is probed, the driver holds what firmware left in it.
Saved ==
  Probing =>
    /\ drv.low = firmware.reg[F][B]
    /\ drv.high = IF Is64(R) THEN firmware.reg[F][B + 1] ELSE 0

\* Only the register that is probed differs from what firmware left, and only
\* until it is restored.
Untouched ==
  /\ Scanning /\ drv.pc # "mask" => reg = firmware.reg
  /\ drv.pc = "mask" =>
       /\ \A f \in DOMAIN hw : f # F => reg[f] = firmware.reg[f]
       /\ \A b \in Bars : b # B /\ ~(Is64(R) /\ b = B + 1) =>
            reg[F][b] = firmware.reg[F][b]
       /\ reg[F][B] = Kept(R, Ones)
       /\ Is64(R) => reg[F][B + 1] = Kept(hw[F][B + 1], Ones)
  /\ drv.pc = "restored" =>
       /\ drv.maskLow = Kept(R, Ones)
       /\ drv.maskHigh = IF Is64(R) THEN Kept(hw[F][B + 1], Ones) ELSE 0

\* What an entry says of a register: bar is the entry of register b of function f.
Describes(bar, f, b) ==
  LET r == hw[f][b] IN
  /\ bar.valid => /\ r.kind \notin {"none", "high", "reserved"}
                  /\ bar.is64 = Is64(r)
                  /\ bar.size # 0 /\ r.size <= bar.size
  /\ r.kind \in {"mem32", "mem64", "io"} => bar.valid /\ bar.size = r.size
  /\ r.kind = "io16"  => bar.valid /\ bar.size = r.size + (W - IoTop)
  /\ r.kind = "fixed" => bar.size = (W - r.base) % W /\ (bar.valid <=> r.base # 0)

\* The full address that firmware left in a register.
FirmAddress(f, b) ==
  firmware.reg[f][b] + IF Is64(hw[f][b]) THEN W * firmware.reg[f][b + 1] ELSE 0

Enumerated ==
  /\ Scanning =>
       /\ F <= Len(hw) + 1
       /\ Len(drv.bars) = B - 1
       /\ F \notin Present => B = 1
       /\ F \in Present => \A b \in 1 .. B - 1 :
            /\ Describes(drv.bars[b], F, b)
            /\ drv.bars[b].valid => drv.bars[b].base = FirmAddress(F, b)
       /\ {devices[d].fn : d \in DOMAIN devices} = {f \in Present : f < F}
       /\ moved = {}
       /\ Len(devices) <= capacity
       /\ drv.bars # <<>> => Len(devices) < capacity
  /\ ~Scanning =>
       /\ drv.bars = <<>>
       /\ {devices[d].fn : d \in DOMAIN devices} = Present
       /\ capacity = Len(devices)
  /\ \A d, e \in DOMAIN devices : d < e => devices[d].fn < devices[e].fn

\* The entries of the array are true, except of the register being moved.
Recorded ==
  \A d \in DOMAIN devices :
    /\ Len(devices[d].bars) = NBars
    /\ \A b \in Bars :
         /\ Describes(devices[d].bars[b], devices[d].fn, b)
         /\ devices[d].bars[b].valid /\ Scanning =>
              devices[d].bars[b].base = FirmAddress(devices[d].fn, b)
         /\ /\ devices[d].bars[b].valid /\ ~Scanning
            /\ ~(Moving /\ d = drv.dev /\ b = B)
            => devices[d].bars[b].base = Address(devices[d].fn, b)

\* A register holds firmware's address or one that the bump allocator gave it.
Real(f, b, addr) ==
  \/ /\ reg[f][b] = firmware.reg[f][b]
     /\ Is64(hw[f][b]) => reg[f][b + 1] = firmware.reg[f][b + 1]
  \/ \E g \in granted : g.base = addr

AllReal ==
  \A f \in Present : \A b \in Starts(f) :
    (drv.pc \in {"mask", "verify"} /\ f = F /\ b = B)
      \/ Real(f, b, Address(f, b))

\* The register being moved: what the driver saved is what its entry says, and
\* the new address has just been granted.
MoveOK ==
  /\ drv.pc = "remap" => B \in Bars /\ drv.dev <= Len(devices) + 1
  /\ Moving =>
       /\ drv.dev \in DOMAIN devices /\ F = D.fn /\ Bar.valid
       /\ drv.low \in Values /\ Kept(R, drv.low) = drv.low
       /\ IF Is64(R) THEN /\ drv.high \in Values
                          /\ Kept(hw[F][B + 1], drv.high) = drv.high
                     ELSE drv.high = 0
       /\ Bar.base = drv.low + W * drv.high
       /\ \/ /\ drv.low = firmware.reg[F][B]
             /\ Is64(R) => drv.high = firmware.reg[F][B + 1]
          \/ \E g \in granted : g.base = Bar.base
       /\ \E g \in granted : g.base = drv.new
       /\ HoleStart <= drv.new /\ drv.new % Bar.size = 0
       /\ next = drv.new + Bar.size
  /\ drv.pc = "write" => Address(F, B) = Bar.base

\* The window that the entry of a moved register says.
Window(m) ==
  LET b == devices[m[1]].bars[m[2]].base
  IN [base |-> b, end |-> b + hw[devices[m[1]].fn][m[2]].size]

WindowsApart ==
  /\ \A m \in moved :
       /\ m \in (DOMAIN devices) \X Bars
       /\ devices[m[1]].bars[m[2]].valid
       /\ drv.pc \in {"remap", "write", "verify"} =>
            m[1] < drv.dev \/ (m[1] = drv.dev /\ m[2] < B)
       /\ HoleStart <= Window(m).base
       /\ Window(m).end <= IF Moving THEN drv.new ELSE next
  /\ \A m, n \in moved :
       m # n => Window(m).end <= Window(n).base
         \/ Window(n).end <= Window(m).base

PcieInv ==
  /\ TypeOK /\ AtRegister /\ DecodeOK /\ Stable /\ Saved /\ Untouched
  /\ Enumerated
  /\ Recorded /\ AllReal /\ MoveOK /\ WindowsApart

-----------------------------------------------------------------------------
(* Arithmetic                                                              *)

\* Dividing a multiple is exact.
LEMMA MultDiv ==
  ASSUME NEW q \in Nat, NEW s \in Nat \ {0}
  PROVE  (q * s) \div s = q /\ (q * s) % s = 0
  OBVIOUS

\* A number is its quotient times the divisor and the remainder.
LEMMA DivMod ==
  ASSUME NEW x \in Nat, NEW m \in Nat \ {0}
  PROVE  x = (x \div m) * m + (x % m)
  OBVIOUS

\* Rounding down twice is rounding down once.
LEMMA FloorIdem ==
  ASSUME NEW v \in Nat, NEW s \in Nat \ {0}
  PROVE  /\ (v \div s) * s \in Nat
         /\ (v \div s) * s <= v
         /\ (((v \div s) * s) \div s) * s = (v \div s) * s
<1>1. v \div s \in Nat /\ (v \div s) * s <= v
  BY DivBracket
<1>2. ((v \div s) * s) \div s = v \div s
  BY <1>1, MultDiv
<1> QED BY <1>1, <1>2

\* Ones in the bits that a size does not count: the largest multiple below w.
LEMMA TopMultiple ==
  ASSUME NEW w \in Nat \ {0}, NEW s \in Nat \ {0}, w % s = 0
  PROVE  ((w - 1) \div s) * s = w - s /\ s <= w
<1>1. PICK k \in Nat : w = k * s
  <2>1. w = (w \div s) * s /\ w \div s \in Nat
    OBVIOUS
  <2> QED BY <2>1
<1>2. k >= 1
  BY <1>1
<1>3. PICK j \in Nat : k = j + 1
  <2>1. k - 1 \in Nat /\ k = (k-1) + 1
    BY <1>2
  <2> QED BY <2>1
<1>4. w = j * s + s
  BY <1>1, <1>3
<1>5. w - 1 = j * s + (s - 1) /\ j * s \in Nat
  BY <1>4
<1>6. (w - 1) \div s = j
  <2> DEFINE q == (w - 1) \div s
  <2>1. q \in Nat /\ q * s <= w - 1 /\ w - 1 < q * s + s
    BY DivBracket
  <2> HIDE DEF q
  <2>2. ~(q < j)
    <3>1. SUFFICES ASSUME q + 1 <= j PROVE FALSE
      BY <2>1
    <3>2. (q + 1) * s <= j * s
      BY <2>1, <3>1
    <3> QED BY <2>1, <3>2, <1>5
  <2>3. ~(j < q)
    <3>1. SUFFICES ASSUME j + 1 <= q PROVE FALSE
      BY <2>1
    <3>2. (j + 1) * s <= q * s
      BY <2>1, <3>1
    <3> QED BY <2>1, <3>2, <1>5
  <2>4. q = j BY <2>1, <2>2, <2>3
  <2> QED BY <2>4 DEF q
<1> QED BY <1>4, <1>5, <1>6

-----------------------------------------------------------------------------
(* The hardware                                                            *)

\* The widths are numbers.
LEMMA Widths ==
  /\ W \in Nat /\ W >= 2 /\ IoTop \in Nat \ {0} /\ NBars \in Nat \ {0}
  /\ HoleStart \in Nat /\ HoleSize \in Nat \ {0} /\ HoleStart + HoleSize < W
  /\ W % IoTop = 0 /\ Ones \in Values /\ 0 \in Values
<1>1. /\ W \in Nat \ {0} /\ IoTop \in Nat \ {0} /\ NBars \in Nat \ {0}
      /\ HoleStart \in Nat /\ HoleSize \in Nat \ {0} /\ HoleStart + HoleSize < W
      /\ W % IoTop = 0
  BY PcieAssumption
<1> QED BY <1>1 DEF Ones, Values

\* The registers of a function that answers.
LEMMA HardwareIs ==
  ASSUME hw \in Hardware, NEW f \in Present
  PROVE  /\ DOMAIN hw[f] = Bars
         /\ \A b \in Bars :
              /\ hw[f][b] \in Registers /\ RealRegister(hw[f][b])
              /\ Is64(hw[f][b]) => /\ b + 1 \in Bars /\ hw[f][b + 1].kind = "high"
                                   /\ hw[f][b + 1].size = hw[f][b].size
              /\ hw[f][b].kind = "high" => b - 1 \in Bars /\ Is64(hw[f][b - 1])
<1>1. f \in DOMAIN hw /\ hw[f] # <<>>
  BY DEF Present
<1>2. hw \in Seq(Seq(Registers)) /\ RealFunction(hw[f])
  BY <1>1, HardwareAssumption
<1>3. hw[f] \in Seq(Registers)
  BY <1>1, <1>2
<1>4. DOMAIN hw[f] = Bars /\ \A b \in Bars : hw[f][b] \in Registers
  BY <1>2, <1>3 DEF RealFunction, Bars
<1>5. \A b \in Bars : b \in Nat /\ b >= 1 /\ b <= NBars
  BY Widths DEF Bars
<1> QED BY <1>2, <1>4, <1>5, Widths DEF RealFunction, Is64, Bars

\* What a register keeps is a value that it keeps unchanged.
LEMMA KeptStable ==
  ASSUME NEW r \in Registers, RealRegister(r), NEW v \in Values
  PROVE  /\ Kept(r, v) \in Values
         /\ Kept(r, Kept(r, v)) = Kept(r, v)
<1>1. /\ v \in Nat /\ v < W /\ W \in Nat \ {0} /\ r.size \in Nat
      /\ r.base \in Values
      /\ r.kind \in {"mem32", "mem64", "high", "io", "io16", "reserved", "none",
                     "fixed"}
  BY Widths DEF Values, Registers
<1>2. ASSUME NEW s \in Nat \ {0}
      PROVE  (v \div s) * s \in Values
             /\ (((v \div s) * s) \div s) * s = (v \div s) * s
  <2> DEFINE k == (v \div s) * s
  <2>1. k \in Nat /\ k <= v /\ (k \div s) * s = k
    BY <1>1, FloorIdem
  <2> HIDE DEF k
  <2>2. k \in Values
    BY <1>1, <2>1 DEF Values
  <2> QED BY <2>1, <2>2 DEF k
<1>3. CASE r.kind \in {"mem32", "io", "reserved"}
  <2>1. r.size \in Nat \ {0} /\ \A x : Kept(r, x) = (x \div r.size) * r.size
    BY <1>1, <1>3 DEF RealRegister, Kept
  <2> QED BY <1>2, <2>1
<1>4. CASE r.kind = "mem64"
  <2>1. r.size # 0
    BY <1>1, <1>4 DEF RealRegister
  <2>2. LowSize(r) \in Nat \ {0}
    BY <1>1, <2>1 DEF LowSize
  <2>3. \A x : Kept(r, x) = (x \div LowSize(r)) * LowSize(r)
    BY <1>4 DEF Kept
  <2> QED BY <1>2, <2>2, <2>3
<1>5. CASE r.kind = "high"
  <2>1. CASE r.size < W
    <3>1. \A x : Kept(r, x) = x
      BY <1>5, <2>1 DEF Kept
    <3> QED BY <3>1
  <2>2. CASE ~(r.size < W)
    <3>1. PICK n \in 1 .. W - 1 : r.size = n * W /\ W % n = 0
      BY <1>5, <2>2 DEF RealRegister
    <3>2. r.size \div W = n
      BY <1>1, <3>1, MultDiv
    <3>3. \A x : Kept(r, x) = (x \div n) * n
      BY <1>5, <2>2, <3>2 DEF Kept
    <3> QED BY <1>2, <3>1, <3>3
  <2> QED BY <2>1, <2>2
<1>6. CASE r.kind = "io16"
  <2>1. r.size \in Nat \ {0}
          /\ \A x : Kept(r, x) = ((x % IoTop) \div r.size) * r.size
    BY <1>1, <1>6 DEF RealRegister, Kept
  <2> DEFINE u == v % IoTop
             k == (u \div r.size) * r.size
  <2>2. u \in Nat /\ u < IoTop /\ u <= v
    BY <1>1, Widths
  <2> HIDE DEF u
  <2>3. k \in Nat /\ k <= u /\ (k \div r.size) * r.size = k
    BY <2>1, <2>2, FloorIdem
  <2> HIDE DEF k
  <2>4. k % IoTop = k
    BY <2>2, <2>3, Widths
  <2>5. Kept(r, v) = k /\ Kept(r, k) = k
    BY <2>1, <2>3, <2>4 DEF k, u
  <2> QED BY <1>1, <2>2, <2>3, <2>5 DEF Values
<1>7. CASE r.kind = "none"
  <2>1. \A x : Kept(r, x) = 0
    BY <1>7 DEF Kept
  <2> QED BY <2>1, Widths
<1>8. CASE r.kind = "fixed"
  <2>1. \A x : Kept(r, x) = r.base
    BY <1>8 DEF Kept
  <2> QED BY <1>1, <2>1
<1> QED BY <1>1, <1>3, <1>4, <1>5, <1>6, <1>7, <1>8

\* What sizing computes from the masks: the size of the register, or 0, or at
\* least the size for registers that the kernel takes for others.
LEMMA SizedRight ==
  ASSUME hw \in Hardware, F \in Present, B \in Bars, R.kind # "high"
  PROVE  LET n == Sized(Kept(R, Ones),
                        IF Is64(R) THEN Kept(hw[F][B + 1], Ones) ELSE 0)
         IN /\ n \in Nat
            /\ R.kind \in {"mem32", "mem64", "io"} => n = R.size /\ n # 0
            /\ R.kind = "none" => n = 0
            /\ R.kind = "io16" => n = R.size + (W - IoTop) /\ n # 0
            /\ R.kind = "fixed" => n = (W - R.base) % W /\ (n # 0 <=> R.base # 0)
            /\ R.kind \in {"io16", "fixed"} /\ n # 0 => R.size <= n
<1> DEFINE lo == Kept(R, Ones)
           hi == IF Is64(R) THEN Kept(hw[F][B + 1], Ones) ELSE 0
           n  == Sized(lo, hi)
<1>1. /\ W \in Nat \ {0} /\ W >= 2 /\ Ones = W - 1 /\ Ones \in Values
      /\ Ones \in Nat
      /\ R \in Registers /\ RealRegister(R)
      /\ R.size \in Nat /\ R.base \in Values
  BY Widths, HardwareIs DEF R, Ones, Values, Registers
<1>2. lo \in Nat /\ lo < W
  BY <1>1, KeptStable DEF Values
<1>3. ASSUME ~Is64(R)
      PROVE  n = (W - lo) % W /\ n \in Nat /\ (lo # 0 => n = W - lo)
        /\ (lo = 0 => n = 0)
  <2>1. n = (W - lo) % W
    BY <1>3 DEF Sized
  <2> HIDE DEF n, lo
  <2> QED BY <1>1, <1>2, <2>1
<1>4. CASE R.kind \in {"mem32", "io"}
  <2>1. /\ ~Is64(R) /\ R.size \in Nat \ {0} /\ R.size < W /\ W % R.size = 0
        /\ lo = ((W - 1) \div R.size) * R.size
    BY <1>1, <1>4 DEF Is64, RealRegister, Kept
  <2>2. lo = W - R.size
    BY <1>1, <2>1, TopMultiple
  <2> HIDE DEF n, lo
  <2> QED BY <1>1, <1>3, <1>4, <2>1, <2>2 DEF n, lo, hi
<1>5. CASE R.kind = "mem64"
  <2> DEFINE q == W * W
             H == hw[F][B + 1]
  <2>1. /\ Is64(R) /\ B + 1 \in Bars /\ H.kind = "high" /\ H.size = R.size
    BY <1>5, HardwareIs DEF R, Is64
  <2>2. n = (q - (lo + W * hi)) % q /\ hi = Kept(H, W - 1)
    BY <1>1, <2>1 DEF Sized
  <2>3. q \in Nat /\ W <= q
    BY <1>1
  <2>4. ASSUME lo + W * hi = q - R.size, 0 < R.size, R.size < q PROVE n = R.size /\ n # 0
    <3>1. n = R.size % q
      BY <1>1, <2>2, <2>3, <2>4
    <3> QED BY <1>1, <2>3, <2>4, <3>1
  <2>5. CASE 0 < R.size /\ R.size < W /\ W % R.size = 0
    <3>1. lo = W - R.size
      BY <1>1, <1>5, <2>5, TopMultiple DEF Kept, LowSize
    <3>2. hi = W - 1
      BY <2>1, <2>2, <2>5 DEF Kept
    <3>3. W * hi = q - W
      BY <1>1, <3>2
    <3>4. lo + W * hi = q - R.size
      BY <1>1, <2>3, <3>1, <3>3
    <3> QED BY <1>5, <2>3, <2>4, <2>5, <3>4, <1>1
  <2>6. CASE \E k \in 1 .. W - 1 : R.size = k * W /\ W % k = 0
    <3>1. PICK k \in 1 .. W - 1 : R.size = k * W /\ W % k = 0
      BY <2>6
    <3>2. k \in Nat \ {0} /\ k < W /\ W <= k * W /\ k * W < q
      BY <1>1, <3>1
    <3>3. ~(R.size < W) /\ R.size \div W = k
      BY <1>1, <3>1, <3>2, MultDiv
    <3>4. lo = ((W - 1) \div W) * W
      BY <1>1, <1>5, <3>3 DEF Kept, LowSize
    <3>5. lo = 0
      BY <1>1, <3>4
    <3>6. hi = ((W - 1) \div k) * k
      BY <2>1, <2>2, <3>3 DEF Kept
    <3>7. hi = W - k
      BY <1>1, <3>1, <3>2, <3>6, TopMultiple
    <3>8. W * hi = q - k * W
      BY <1>1, <3>2, <3>7
    <3>9. lo + W * hi = q - R.size
      BY <1>1, <2>3, <3>1, <3>2, <3>5, <3>8
    <3> QED BY <1>5, <2>4, <3>1, <3>2, <3>9, <1>1
  <2>7. n \in Nat /\ n = R.size /\ n # 0
    BY <1>1, <1>5, <2>5, <2>6 DEF RealRegister
  <2> QED BY <1>5, <2>7
<1>6. CASE R.kind = "none"
  <2>1. lo = 0 /\ ~Is64(R)
    BY <1>6 DEF Kept, Is64
  <2> HIDE DEF n, lo
  <2> QED BY <1>3, <1>6, <2>1 DEF n, lo, hi
<1>7. CASE R.kind = "io16"
  <2>1. /\ ~Is64(R) /\ R.size \in Nat \ {0} /\ R.size < IoTop /\ IoTop % R.size = 0
        /\ lo = (((W - 1) % IoTop) \div R.size) * R.size
    BY <1>1, <1>7 DEF Is64, RealRegister, Kept
  <2>2. (W - 1) % IoTop = IoTop - 1 /\ IoTop <= W /\ IoTop \in Nat \ {0}
    <3>1. ((W - 1) \div IoTop) * IoTop = W - IoTop /\ IoTop <= W
      BY <1>1, Widths, TopMultiple
    <3>2. W - 1 = ((W - 1) \div IoTop) * IoTop + ((W - 1) % IoTop)
      BY <1>1, Widths, DivMod
    <3> QED BY <1>1, <3>1, <3>2, Widths
  <2>3. lo = IoTop - R.size
    BY <2>1, <2>2, TopMultiple
  <2> HIDE DEF n, lo
  <2> QED BY <1>1, <1>2, <1>3, <1>7, <2>1, <2>2, <2>3 DEF n, lo, hi
<1>8. CASE R.kind = "fixed"
  <2>1. lo = R.base /\ ~Is64(R) /\ R.base + R.size <= W
    BY <1>1, <1>8 DEF Kept, Is64, RealRegister
  <2> HIDE DEF n, lo
  <2> QED BY <1>1, <1>2, <1>3, <1>8, <2>1 DEF n, lo, hi
<1>9. CASE R.kind = "reserved"
  <2>1. ~Is64(R)
    BY <1>9 DEF Is64
  <2> HIDE DEF n, lo
  <2> QED BY <1>3, <1>9, <2>1 DEF n, lo, hi
<1> QED BY <1>1, <1>4, <1>5, <1>6, <1>7, <1>8, <1>9 DEF Registers

\* What firmware left is what registers can keep.
LEMMA FirmwareIs ==
  ASSUME TypeOK
  PROVE  /\ DOMAIN firmware.reg = DOMAIN hw
         /\ \A f \in Present :
              /\ firmware.reg[f] \in [Bars -> Values]
              /\ \A b \in Bars : Kept(hw[f][b], firmware.reg[f][b]) = firmware.reg[f][b]
<1>1. /\ firmware.reg = [f \in DOMAIN hw |-> [b \in DOMAIN hw[f] |-> hw[f][b].base]]
      /\ hw \in Hardware
  BY DEF TypeOK
<1>2. ASSUME NEW f \in Present
      PROVE  /\ firmware.reg[f] \in [Bars -> Values]
             /\ \A b \in Bars : Kept(hw[f][b], firmware.reg[f][b]) = firmware.reg[f][b]
  <2>1. firmware.reg[f] = [b \in Bars |-> hw[f][b].base]
    BY <1>1, HardwareIs DEF Present
  <2>2. \A b \in Bars : hw[f][b].base \in Values
                        /\ Kept(hw[f][b], hw[f][b].base) = hw[f][b].base
    BY <1>1, HardwareIs DEF Registers, RealRegister, Values
  <2> QED BY <2>1, <2>2
<1> QED BY <1>1, <1>2

\* The registers after a write of the one at hand and of its upper half: no other
\* is changed, and each holds a value that it can keep.
IsWritten(new, lo, hi) ==
  /\ DOMAIN new = DOMAIN hw
  /\ \A f \in DOMAIN hw : f # F => new[f] = reg[f]
  /\ \A f \in Present : new[f] \in [Bars -> Values]
  /\ new[F][B] = Kept(R, lo)
  /\ Is64(R) => new[F][B + 1] = Kept(hw[F][B + 1], hi)
  /\ \A b \in Bars : b # B /\ ~(Is64(R) /\ b = B + 1) => new[F][b] = reg[F][b]
  /\ \A f \in Present, b \in Bars : Kept(hw[f][b], new[f][b]) = new[f][b]

\* That is what Written gives.
LEMMA WrittenIs ==
  ASSUME TypeOK, Stable, F \in Present, B \in Bars,
         NEW lo \in Values, NEW hi, Is64(R) => hi \in Values
  PROVE  IsWritten(Written(lo, hi), lo, hi)
<1> DEFINE new == Written(lo, hi)
           row == [b \in Bars |-> IF b = B THEN Kept(R, lo)
                                  ELSE IF Is64(R) /\ b = B + 1
                                         THEN Kept(hw[F][b], hi) ELSE reg[F][b]]
<1>1. /\ DOMAIN reg = DOMAIN hw /\ Present \subseteq DOMAIN hw
      /\ hw \in Hardware
      /\ \A f \in Present : reg[f] \in [Bars -> Values]
      /\ \A b \in Bars : hw[F][b] \in Registers /\ RealRegister(hw[F][b])
      /\ Is64(R) => B + 1 \in Bars
      /\ \A b \in Bars : b \in Nat
  BY HardwareIs DEF TypeOK, Present, R, Bars
<1>2. new = [reg EXCEPT ![F] = row]
  BY DEF Written
<1>3. Kept(R, lo) \in Values /\ Kept(R, Kept(R, lo)) = Kept(R, lo)
  BY <1>1, KeptStable DEF R
<1>4. Is64(R) => /\ Kept(hw[F][B + 1], hi) \in Values
                 /\ Kept(hw[F][B + 1], Kept(hw[F][B + 1], hi)) = Kept(hw[F][B + 1], hi)
  BY <1>1, KeptStable
<1> HIDE DEF new, row
<1>5. new[F] = row /\ DOMAIN new = DOMAIN hw
      /\ \A f \in DOMAIN hw : f # F => new[f] = reg[f]
  BY <1>1, <1>2
<1>6. /\ row \in [Bars -> Values]
      /\ row[B] = Kept(R, lo)
      /\ Is64(R) => row[B + 1] = Kept(hw[F][B + 1], hi)
      /\ \A b \in Bars : b # B /\ ~(Is64(R) /\ b = B + 1) => row[b] = reg[F][b]
  BY <1>1, <1>3, <1>4 DEF row
<1>7. \A b \in Bars : Kept(hw[F][b], row[b]) = row[b]
  <2>1. TAKE b \in Bars
  <2>2. CASE b = B
    BY <1>3, <1>6, <2>2 DEF R
  <2>3. CASE Is64(R) /\ b = B + 1
    BY <1>4, <1>6, <2>3
  <2>4. CASE b # B /\ ~(Is64(R) /\ b = B + 1)
    BY <1>6, <2>4 DEF Stable
  <2> QED BY <2>2, <2>3, <2>4
<1>8. \A f \in Present, b \in Bars : Kept(hw[f][b], new[f][b]) = new[f][b]
  BY <1>1, <1>5, <1>7 DEF Stable
<1>9. \A f \in Present : new[f] \in [Bars -> Values]
  BY <1>1, <1>5, <1>6
<1> QED BY <1>5, <1>6, <1>8, <1>9 DEF new, IsWritten

-----------------------------------------------------------------------------
(* Enumeration                                                             *)

\* Before remapping, no register was moved, and those of other functions than the
\* one being probed are as firmware left them.
LEMMA ScanRest ==
  TypeOK /\ AtRegister /\ Untouched /\ Enumerated /\ Scanning
    => AllReal /\ MoveOK /\ WindowsApart
<1> SUFFICES ASSUME TypeOK, AtRegister, Untouched, Enumerated, Scanning
             PROVE  AllReal /\ MoveOK /\ WindowsApart
  OBVIOUS
<1>1. moved = {} /\ ~Moving /\ drv.pc \notin {"remap", "write", "verify"}
  BY DEF Enumerated, Scanning, Probing, Moving
<1>2. MoveOK /\ WindowsApart
  BY <1>1 DEF MoveOK, WindowsApart
<1>3. ASSUME NEW f \in Present, NEW b \in Starts(f)
      PROVE  (drv.pc \in {"mask", "verify"} /\ f = F /\ b = B)
        \/ Real(f, b, Address(f, b))
  <2>1. CASE drv.pc # "mask"
    BY <2>1 DEF Untouched, Real
  <2>2. CASE drv.pc = "mask" /\ f # F
    BY <2>2 DEF Untouched, Real, Present
  <2>3. CASE drv.pc = "mask" /\ f = F /\ b # B
    <3>1. /\ B \in Bars /\ R.kind # "high" /\ b \in Bars
          /\ hw[f][b].kind # "high"
          /\ \A x \in Bars : x \in Nat
      BY <2>3 DEF AtRegister, Probing, Starts, Bars
    <3>2. /\ Is64(R) => hw[F][B + 1].kind = "high"
          /\ Is64(hw[f][b]) => b + 1 \in Bars /\ hw[f][b + 1].kind = "high"
      BY <2>3, <3>1, HardwareIs DEF TypeOK, R
    <3>3. ~(Is64(R) /\ b = B + 1)
      BY <2>3, <3>1, <3>2
    <3>4. Is64(hw[f][b]) => b + 1 # B /\ ~(Is64(R) /\ b + 1 = B + 1)
      BY <2>3, <3>1, <3>2 DEF R
    <3> QED BY <2>3, <3>1, <3>2, <3>3, <3>4 DEF Untouched, Real
  <2> QED BY <2>1, <2>2, <2>3
<1>4. AllReal
  BY <1>3 DEF AllReal
<1> QED BY <1>2, <1>4

\* A step within enumeration keeps the invariant if it keeps these parts.
LEMMA ScanKeeps ==
  ASSUME Scanning', TypeOK', AtRegister', DecodeOK', Stable', Saved', Untouched',
         Enumerated', Recorded'
  PROVE  PcieInv'
<1>1. (TypeOK /\ AtRegister /\ Untouched /\ Enumerated /\ Scanning
         => AllReal /\ MoveOK /\ WindowsApart)'
  BY ScanRest, PTL
<1> QED BY <1>1 DEF PcieInv

\* A function number without a function is passed.
LEMMA AbsentKeeps ==
  ASSUME PcieInv, Absent
  PROVE  PcieInv'
<1>1. /\ drv.pc = "bar" /\ F \in DOMAIN hw /\ F \notin Present /\ F <= Len(hw)
      /\ drv' = [drv EXCEPT !.fn = F + 1] /\ drv \in DrvType /\ F \in Nat \ {0}
      /\ UNCHANGED <<hw, firmware, reg, decode, devices, capacity, moved, next, granted>>
      /\ hw \in Seq(Seq(Registers))
  <2>1. /\ drv.pc = "bar" /\ F <= Len(hw) /\ hw[F] = <<>>
        /\ drv' = [drv EXCEPT !.fn = F + 1]
        /\ UNCHANGED <<hw, firmware, reg, decode, devices, capacity, moved, next, granted>>
    BY DEF Absent, bump
  <2>2. drv \in DrvType /\ F \in Nat \ {0} /\ hw \in Seq(Seq(Registers))
    BY HardwareAssumption DEF PcieInv, TypeOK, DrvType, F
  <2> QED BY <2>1, <2>2 DEF Present
<1>2. /\ drv' \in DrvType /\ drv'.pc = "bar" /\ F' = F + 1 /\ B' = B
      /\ drv'.bars = drv.bars /\ drv'.was64 = drv.was64
  <2>1. F + 1 \in Nat \ {0} /\ drv' = [drv EXCEPT !.fn = F + 1]
          /\ drv \in DrvType
    BY <1>1
  <2>2. drv' \in DrvType
    BY <2>1 DEF DrvType
  <2> QED BY <1>1, <2>1, <2>2 DEF DrvType, F, B
<1>3. Scanning /\ Scanning' /\ ~Probing /\ ~Probing' /\ ~Moving' /\ ~Moving
  BY <1>1, <1>2 DEF Scanning, Probing, Moving
<1>4. Present' = Present
  BY <1>1 DEF Present
<1>5. TypeOK' /\ DecodeOK' /\ Stable' /\ Saved' /\ Untouched'
  BY <1>1, <1>2, <1>3, <1>4 DEF PcieInv, TypeOK, DecodeOK, Stable, Saved,
     Untouched
<1>6. B = 1 /\ drv.bars = <<>>
  <2>1. B = 1 /\ Len(drv.bars) = 0 /\ drv.bars \in Seq(BarType)
    BY <1>1, <1>3 DEF PcieInv, Enumerated, DrvType
  <2> QED BY <2>1
<1>7. Enumerated'
  <2>1. {f \in Present : f < F + 1} = {f \in Present : f < F}
    BY <1>1 DEF Present
  <2> QED BY <1>1, <1>2, <1>3, <1>4, <1>6, <2>1 DEF PcieInv, Enumerated
<1>8. Recorded'
  BY <1>1, <1>2, <1>3 DEF PcieInv, Recorded, FirmAddress, Describes
<1>9. AtRegister'
  <2>1. F' \in Present => hw[F'][1].kind # "high"
    <3>1. SUFFICES ASSUME F' \in Present PROVE hw[F'][1].kind # "high"
      OBVIOUS
    <3>2. 1 \in Bars /\ 1 - 1 \notin Bars
      BY Widths DEF Bars
    <3> QED BY <3>1, <3>2, HardwareIs DEF PcieInv, TypeOK
  <2>2. ~drv.was64
    BY <1>1, <1>6 DEF PcieInv, AtRegister
  <2> QED BY <1>1, <1>2, <1>3, <1>4, <1>6, <2>1, <2>2 DEF AtRegister, R
<1> QED BY <1>3, <1>5, <1>7, <1>8, <1>9, ScanKeeps

\* An entry that is true of the register at hand completes it.
LEMMA RecordKeeps ==
  ASSUME PcieInv, F \in Present, B \in Bars, Scanning, drv.pc # "mask",
         NEW bar \in BarType, Record(bar),
         UNCHANGED <<hw, firmware, reg, devices, moved, next, granted>>,
         decode' = firmware.decode,
         Describes(bar, F, B), bar.valid => bar.base = FirmAddress(F, B),
         bar.is64 <=> Is64(R)
  PROVE  PcieInv'
<1>1. /\ drv \in DrvType /\ B \in 1 .. NBars /\ NBars \in Nat
      /\ drv.bars \in Seq(BarType) /\ Append(drv.bars, bar) \in Seq(BarType)
      /\ Len(drv.bars) = B - 1 /\ B + 1 \in 1 .. NBars + 1
      /\ Len(Append(drv.bars, bar)) = B /\ bar.is64 \in BOOLEAN
      /\ Len(devices) \in Nat /\ capacity \in Nat
  <2>1. drv \in DrvType /\ B \in 1 .. NBars /\ NBars \in Nat
          /\ Len(devices) \in Nat
        /\ capacity \in Nat
    BY Widths DEF PcieInv, TypeOK, Bars
  <2>2. drv.bars \in Seq(BarType) /\ Len(drv.bars) = B - 1
    BY <2>1 DEF DrvType, PcieInv, Enumerated
  <2>3. B + 1 \in 1 .. NBars + 1 /\ bar.is64 \in BOOLEAN
    BY <2>1 DEF BarType
  <2>4. Append(drv.bars, bar) \in Seq(BarType) /\ Len(Append(drv.bars, bar)) = B
    BY <2>1, <2>2
  <2> QED BY <2>1, <2>2, <2>3, <2>4
<1>2. /\ drv' = [drv EXCEPT !.pc = "bar", !.bar = B + 1, !.was64 = bar.is64,
                            !.bars = Append(drv.bars, bar)]
      /\ capacity' = Grown
  BY DEF Record
<1>3. drv' \in DrvType
  BY <1>1, <1>2 DEF DrvType
<1>4. /\ drv'.pc = "bar" /\ F' = F /\ B' = B + 1 /\ drv'.was64 = bar.is64
      /\ drv'.bars = Append(drv.bars, bar)
  BY <1>1, <1>2 DEF DrvType, F, B
<1>5. Scanning' /\ ~Probing' /\ ~Moving' /\ drv'.pc # "mask"
        /\ Present' = Present
  BY <1>4 DEF Scanning, Probing, Moving, Present
<1>6. capacity' \in Nat /\ Len(devices) < capacity'
  <2>1. GrowBy \in Nat \ {0} /\ Len(devices) <= capacity
    BY PcieAssumption DEF PcieInv, Enumerated
  <2> QED BY <1>1, <1>2, <2>1 DEF Grown
<1>7. TypeOK'
  BY <1>3, <1>5, <1>6 DEF PcieInv, TypeOK
<1>8. DecodeOK' /\ Stable' /\ Saved' /\ Untouched'
  BY <1>4, <1>5 DEF PcieInv, DecodeOK, Stable, Saved, Untouched
<1>9. AtRegister'
  <2>1. B + 1 \in Bars => (Is64(R) <=> hw[F][B + 1].kind = "high")
    <3>1. B + 1 - 1 = B
      BY <1>1
    <3> QED BY <1>1, <3>1, HardwareIs DEF PcieInv, TypeOK, R
  <2> QED BY <1>1, <1>4, <1>5, <2>1 DEF AtRegister, R
<1>10. ASSUME NEW b \in 1 .. B
       PROVE  /\ Describes(drv'.bars[b], F, b)
              /\ drv'.bars[b].valid => drv'.bars[b].base = FirmAddress(F, b)
  <2>1. CASE b = B
    BY <1>1, <1>4, <2>1
  <2>2. CASE b # B
    <3>1. b \in 1 .. B - 1 /\ drv'.bars[b] = drv.bars[b]
      BY <1>1, <1>4, <2>2
    <3> QED BY <3>1 DEF PcieInv, Enumerated
  <2> QED BY <2>1, <2>2
<1>11. Enumerated'
  <2>1. \A b \in 1 .. B' - 1 :
          /\ Describes(drv.bars[b], F, b)'
          /\ (drv.bars[b].valid => drv.bars[b].base = FirmAddress(F, b))'
    <3>1. ASSUME NEW b \in 1 .. B' - 1
          PROVE  /\ Describes(drv.bars[b], F, b)'
                 /\ (drv.bars[b].valid => drv.bars[b].base = FirmAddress(F, b))'
      <4>1. b \in 1 .. B
        BY <1>1, <1>4
      <4>2. /\ Describes(drv'.bars[b], F, b)
            /\ drv'.bars[b].valid => drv'.bars[b].base = FirmAddress(F, b)
        BY <4>1, <1>10
      <4> QED BY <1>4, <4>2 DEF Describes, FirmAddress
    <3> QED BY <3>1
  <2>2. F' <= Len(hw') + 1 /\ Len(drv'.bars) = B' - 1 /\ F' \in Present'
    BY <1>1, <1>4, <1>5 DEF PcieInv, Enumerated
  <2>3. /\ {devices'[d].fn : d \in DOMAIN devices'} = {f \in Present' : f < F'}
        /\ moved' = {} /\ Len(devices') < capacity'
        /\ Len(devices') <= capacity'
        /\ \A d, e \in DOMAIN devices' : d < e => devices'[d].fn < devices'[e].fn
    BY <1>1, <1>4, <1>5, <1>6 DEF PcieInv, Enumerated
  <2> HIDE DEF Scanning
  <2> QED BY <1>4, <1>5, <2>1, <2>2, <2>3 DEF Enumerated
<1>12. Recorded'
  BY <1>4, <1>5 DEF PcieInv, Recorded, FirmAddress, Describes
<1> QED BY <1>5, <1>7, <1>8, <1>9, <1>11, <1>12, ScanKeeps

\* The register after a 64-bit one is recorded as none.
LEMMA UpperHalfKeeps ==
  ASSUME PcieInv, UpperHalf
  PROVE  PcieInv'
<1> DEFINE bar == [NoBar EXCEPT !.isIo = (reg[F][B] % 2 = 1)]
<1>1. /\ drv.pc = "bar" /\ F \in Present /\ B \in Bars /\ drv.was64
      /\ UNCHANGED <<hw, firmware, reg, decode, devices, moved, next, granted>>
      /\ Record(bar) /\ R.kind = "high"
      /\ drv \in DrvType
  <2>1. /\ drv.pc = "bar" /\ F <= Len(hw) /\ hw[F] # <<>> /\ B <= NBars
        /\ drv.was64
        /\ UNCHANGED <<hw, firmware, reg, decode, devices, moved, next, granted>>
        /\ Record(bar)
    BY DEF UpperHalf, AtBar, bump
  <2>2. /\ drv \in DrvType /\ F \in Nat \ {0} /\ B \in 1 .. NBars + 1
        /\ hw \in Seq(Seq(Registers))
    BY HardwareAssumption DEF PcieInv, TypeOK, DrvType, F, B
  <2>3. F \in Present /\ B \in Bars
    BY <2>1, <2>2, Widths DEF Present, Bars
  <2> QED BY <2>1, <2>2, <2>3 DEF PcieInv, AtRegister
<1>2. /\ bar \in BarType /\ ~bar.valid /\ ~bar.is64
  BY DEF BarType, NoBar
<1> HIDE DEF bar
<1>3. /\ Scanning /\ decode' = firmware.decode
      /\ ~Is64(R) /\ Describes(bar, F, B)
  BY <1>1, <1>2 DEF PcieInv, DecodeOK, Scanning, Probing, Moving, Is64,
     Describes, R
<1> QED BY <1>1, <1>2, <1>3, RecordKeeps

\* A step of sizing that moves neither the register at hand nor the array keeps
\* what was recorded.
LEMMA SizingKeeps ==
  ASSUME PcieInv, Scanning, Scanning', F \in Present, B \in Bars,
         UNCHANGED <<hw, firmware, devices, capacity, moved, next, granted, F, B,
                     drv.bars>>,
         drv' \in DrvType, AtRegister', DecodeOK', Stable', Saved', Untouched',
         DOMAIN reg' = DOMAIN hw, \A f \in Present : reg'[f] \in [Bars -> Values]
  PROVE  PcieInv'
<1>1. Present' = Present /\ ~Moving /\ ~Moving'
  BY DEF Present, Scanning, Probing, Moving
<1>2. TypeOK'
  BY <1>1 DEF PcieInv, TypeOK
<1>3. Enumerated'
  BY <1>1 DEF PcieInv, Enumerated, Describes, FirmAddress
<1>4. Recorded'
  BY <1>1 DEF PcieInv, Recorded, Describes, FirmAddress
<1> QED BY <1>2, <1>3, <1>4, ScanKeeps

LEMMA DisableKeeps ==
  ASSUME PcieInv, Disable
  PROVE  PcieInv'
<1> DEFINE high == IF Is64(R) THEN reg[F][B + 1] ELSE 0
<1>1. /\ drv.pc = "bar" /\ F \in Present /\ B \in Bars /\ ~drv.was64
      /\ UNCHANGED <<hw, firmware, reg, devices, capacity, moved, next, granted>>
      /\ drv' = [drv EXCEPT !.pc = "ones", !.low = reg[F][B], !.high = high,
                            !.command = decode[F]]
      /\ decode' = [decode EXCEPT ![F] = FALSE]
  <2>1. /\ drv.pc = "bar" /\ F <= Len(hw) /\ hw[F] # <<>> /\ B <= NBars
        /\ ~drv.was64
        /\ UNCHANGED <<hw, firmware, reg, devices, capacity, moved, next, granted>>
        /\ drv' = [drv EXCEPT !.pc = "ones", !.low = reg[F][B], !.high = high,
                              !.command = decode[F]]
        /\ decode' = [decode EXCEPT ![F] = FALSE]
    BY DEF Disable, AtBar, bump
  <2>2. /\ F \in Nat \ {0} /\ B \in 1 .. NBars + 1 /\ hw \in Seq(Seq(Registers))
    BY HardwareAssumption DEF PcieInv, TypeOK, DrvType, F, B
  <2>3. F \in Present /\ B \in Bars
    BY <2>1, <2>2, Widths DEF Present, Bars
  <2> QED BY <2>1, <2>3
<1>2. /\ decode = firmware.decode /\ firmware.decode \in [DOMAIN hw -> BOOLEAN]
      /\ reg = firmware.reg /\ drv \in DrvType /\ Stable
      /\ F \in DOMAIN hw /\ R.kind # "high"
  BY <1>1 DEF PcieInv, TypeOK, DecodeOK, Untouched, AtRegister, Present,
     Scanning,
     Probing, Moving
<1>3. reg[F][B] \in Nat /\ high \in Nat /\ decode[F] \in BOOLEAN
  <2>1. \A b \in Bars : reg[F][b] \in Nat
    BY <1>1 DEF PcieInv, TypeOK, Values
  <2>2. Is64(R) => B + 1 \in Bars
    BY <1>1, HardwareIs DEF PcieInv, TypeOK, R
  <2> QED BY <1>1, <1>2, <2>1, <2>2
<1> HIDE DEF high
<1>4. drv' \in DrvType
  BY <1>1, <1>2, <1>3 DEF DrvType
<1>5. /\ drv'.pc = "ones" /\ F' = F /\ B' = B /\ drv'.bars = drv.bars
      /\ drv'.low = reg[F][B] /\ drv'.high = high /\ drv'.command = decode[F]
  BY <1>1, <1>2 DEF DrvType, F, B
<1>6. /\ Scanning /\ Scanning' /\ Probing' /\ ~Moving' /\ Present' = Present
      /\ R' = R
  BY <1>1, <1>5 DEF Scanning, Probing, Moving, Present, R
<1>7. AtRegister'
  BY <1>1, <1>2, <1>5, <1>6 DEF AtRegister
<1>8. DecodeOK'
  BY <1>1, <1>2, <1>5, <1>6 DEF DecodeOK
<1>9. Saved' /\ Untouched' /\ Stable'
  BY <1>1, <1>2, <1>5, <1>6 DEF Saved, Untouched, Stable, high
<1> QED BY <1>1, <1>4, <1>5, <1>6, <1>7, <1>8, <1>9, SizingKeeps
        DEF PcieInv, TypeOK

\* Ones are written to the register, and nothing else is.
LEMMA WriteOnesKeeps ==
  ASSUME PcieInv, WriteOnes
  PROVE  PcieInv'
<1>1. /\ drv.pc = "ones" /\ reg' = Written(Ones, Ones)
      /\ drv' = [drv EXCEPT !.pc = "mask"]
      /\ UNCHANGED <<hw, firmware, decode, devices, capacity, moved, next, granted>>
  BY DEF WriteOnes, bump
<1>2. /\ TypeOK /\ Stable /\ Saved /\ DecodeOK /\ AtRegister
      /\ reg = firmware.reg
      /\ drv \in DrvType /\ F \in Present /\ B \in Bars /\ F \in DOMAIN hw
      /\ Scanning /\ Probing /\ ~Moving /\ Ones \in Values
  BY <1>1, Widths DEF PcieInv, TypeOK, Untouched, AtRegister, Scanning,
     Probing, Moving,
     Present
<1>3. /\ drv' \in DrvType /\ drv'.pc = "mask" /\ F' = F /\ B' = B
      /\ drv'.bars = drv.bars
      /\ UNCHANGED <<drv.low, drv.high, drv.command>>
  BY <1>1, <1>2 DEF DrvType, F, B
<1>4. /\ Scanning' /\ Probing' /\ ~Moving' /\ Present' = Present /\ R' = R
  BY <1>1, <1>3 DEF Scanning, Probing, Moving, Present, R
<1>5. /\ DOMAIN reg' = DOMAIN hw
      /\ \A f \in DOMAIN hw : f # F => reg'[f] = reg[f]
      /\ \A f \in Present : reg'[f] \in [Bars -> Values]
      /\ reg'[F][B] = Kept(R, Ones)
      /\ Is64(R) => reg'[F][B + 1] = Kept(hw[F][B + 1], Ones)
      /\ \A b \in Bars : b # B /\ ~(Is64(R) /\ b = B + 1) => reg'[F][b] = reg[F][b]
      /\ \A f \in Present, b \in Bars : Kept(hw[f][b], reg'[f][b]) = reg'[f][b]
  <2>1. IsWritten(reg', Ones, Ones)
    BY <1>1, <1>2, WrittenIs
  <2> QED BY <2>1 DEF IsWritten
<1>6. AtRegister' /\ DecodeOK' /\ Saved'
  BY <1>1, <1>2, <1>3, <1>4 DEF AtRegister, DecodeOK, Saved
<1>7. Stable'
  BY <1>1, <1>4, <1>5 DEF Stable
<1>8. Untouched'
  BY <1>1, <1>2, <1>3, <1>4, <1>5 DEF Untouched
<1> QED BY <1>1, <1>2, <1>3, <1>4, <1>5, <1>6, <1>7, <1>8, SizingKeeps

\* Writing back what was saved leaves the registers as firmware left them.
LEMMA RestoreKeeps ==
  ASSUME PcieInv, Restore
  PROVE  PcieInv'
<1> DEFINE mhi == IF Is64(R) THEN reg[F][B + 1] ELSE 0
<1>1. /\ drv.pc = "mask" /\ reg' = Written(drv.low, drv.high)
      /\ drv' = [drv EXCEPT !.pc = "restored", !.maskLow = reg[F][B], !.maskHigh = mhi]
      /\ UNCHANGED <<hw, firmware, decode, devices, capacity, moved, next, granted>>
  BY DEF Restore, bump
<1>2. /\ TypeOK /\ Stable /\ Saved /\ DecodeOK /\ AtRegister /\ Untouched
      /\ drv \in DrvType /\ F \in Present /\ B \in Bars /\ F \in DOMAIN hw
      /\ Scanning /\ Probing /\ ~Moving
      /\ DOMAIN reg = DOMAIN hw /\ \A f \in Present : reg[f] \in [Bars -> Values]
      /\ \A b \in Bars : b \in Nat
      /\ Is64(R) => B + 1 \in Bars
  BY <1>1, HardwareIs DEF PcieInv, TypeOK, AtRegister, Scanning, Probing,
     Moving,
     Present, Bars, R
<1>3. reg[F][B] \in Nat /\ mhi \in Nat
  BY <1>2 DEF Values
<1>4. /\ drv.low = firmware.reg[F][B] /\ drv.low \in Values
      /\ Is64(R) => drv.high = firmware.reg[F][B + 1] /\ drv.high \in Values
      /\ reg[F][B] = Kept(R, Ones)
      /\ Is64(R) => reg[F][B + 1] = Kept(hw[F][B + 1], Ones)
  BY <1>1, <1>2, FirmwareIs DEF Saved, Untouched
<1> HIDE DEF mhi
<1>5. /\ drv' \in DrvType /\ drv'.pc = "restored" /\ F' = F /\ B' = B
      /\ UNCHANGED <<drv.low, drv.high, drv.command, drv.bars>>
      /\ drv'.maskLow = reg[F][B] /\ drv'.maskHigh = mhi
  BY <1>1, <1>2, <1>3 DEF DrvType, F, B
<1>6. /\ Scanning' /\ Probing' /\ ~Moving' /\ Present' = Present /\ R' = R
  BY <1>1, <1>5 DEF Scanning, Probing, Moving, Present, R
<1>7. /\ DOMAIN reg' = DOMAIN hw
      /\ \A f \in DOMAIN hw : f # F => reg'[f] = reg[f]
      /\ \A f \in Present : reg'[f] \in [Bars -> Values]
      /\ reg'[F][B] = Kept(R, drv.low)
      /\ Is64(R) => reg'[F][B + 1] = Kept(hw[F][B + 1], drv.high)
      /\ \A b \in Bars : b # B /\ ~(Is64(R) /\ b = B + 1) => reg'[F][b] = reg[F][b]
      /\ \A f \in Present, b \in Bars : Kept(hw[f][b], reg'[f][b]) = reg'[f][b]
  <2>1. /\ TypeOK /\ Stable /\ F \in Present /\ B \in Bars
        /\ drv.low \in Values /\ (Is64(R) => drv.high \in Values)
        /\ reg' = Written(drv.low, drv.high)
    BY <1>1, <1>2, <1>4
  <2>2. IsWritten(reg', drv.low, drv.high)
    BY <2>1, WrittenIs
  <2> QED BY <2>2 DEF IsWritten
<1>8. reg' = firmware.reg
  <2>1. \A b \in Bars : Kept(hw[F][b], firmware.reg[F][b]) = firmware.reg[F][b]
    BY <1>2, FirmwareIs
  <2>2. \A b \in Bars : reg'[F][b] = firmware.reg[F][b]
    <3>1. TAKE b \in Bars
    <3>2. CASE b = B
      BY <1>4, <1>7, <2>1, <3>2 DEF R
    <3>3. CASE Is64(R) /\ b = B + 1
      BY <1>4, <1>7, <2>1, <3>3
    <3>4. CASE b # B /\ ~(Is64(R) /\ b = B + 1)
      BY <1>1, <1>2, <1>7, <3>4 DEF Untouched
    <3> QED BY <3>2, <3>3, <3>4
  <2>3. reg'[F] = firmware.reg[F]
    <3>1. reg'[F] \in [Bars -> Values] /\ firmware.reg[F] \in [Bars -> Values]
      BY <1>2, <1>7, FirmwareIs
    <3> QED BY <2>2, <3>1
  <2>4. \A f \in DOMAIN hw : reg'[f] = firmware.reg[f]
    BY <1>1, <1>2, <1>7, <2>3 DEF Untouched
  <2>5. DOMAIN firmware.reg = DOMAIN hw
    BY <1>2, FirmwareIs
  <2>6. reg' = [f \in DOMAIN hw |-> reg'[f]]
    BY <1>1, <1>2, <1>7 DEF Written
  <2>7. firmware.reg = [f \in DOMAIN hw |-> firmware.reg[f]]
    BY <1>2, <2>5 DEF TypeOK
  <2> QED BY <2>4, <2>6, <2>7
<1>9. AtRegister' /\ DecodeOK' /\ Saved'
  BY <1>1, <1>2, <1>5, <1>6 DEF AtRegister, DecodeOK, Saved
<1>10. Stable'
  BY <1>1, <1>6, <1>7 DEF Stable
<1>11. Untouched'
  BY <1>1, <1>4, <1>5, <1>6, <1>8 DEF Untouched, mhi
<1> QED BY <1>1, <1>2, <1>5, <1>6, <1>7, <1>9, <1>10, <1>11, SizingKeeps

\* The first register of a function is no upper half.
LEMMA FirstNotHigh ==
  ASSUME hw \in Hardware, NEW f \in Present
  PROVE  1 \in Bars /\ hw[f][1].kind # "high"
<1>1. 1 \in Bars /\ 1 - 1 \notin Bars
  BY Widths DEF Bars
<1> QED BY <1>1, HardwareIs

\* The masks are turned into a size, and decoding is switched on again.
LEMMA EnableKeeps ==
  ASSUME PcieInv, Enable
  PROVE  PcieInv'
<1> DEFINE n   == Sized(drv.maskLow, drv.maskHigh)
           bar == IF R.kind = "reserved" THEN NoBar
                  ELSE [valid |-> n # 0, is64 |-> Is64(R), isIo |-> IsIo(R),
                        size |-> n, base |-> drv.low + W * drv.high]
<1>1. /\ drv.pc = "restored" /\ decode' = [decode EXCEPT ![F] = drv.command]
      /\ Record(bar)
      /\ UNCHANGED <<hw, firmware, reg, devices, moved, next, granted>>
  BY DEF Enable, bump
<1>2. /\ hw \in Hardware /\ F \in Present /\ B \in Bars /\ Scanning /\ Probing
      /\ R.kind # "high" /\ drv \in DrvType /\ F \in DOMAIN hw
      /\ firmware.decode \in [DOMAIN hw -> BOOLEAN]
  BY <1>1 DEF PcieInv, TypeOK, AtRegister, Scanning, Probing, Present
<1>3. decode' = firmware.decode
  <2>1. /\ drv.command = firmware.decode[F]
        /\ decode = [firmware.decode EXCEPT ![F] = FALSE]
    BY <1>2 DEF PcieInv, DecodeOK
  <2> QED BY <1>1, <1>2, <2>1
<1>4. /\ drv.maskLow = Kept(R, Ones)
      /\ drv.maskHigh = IF Is64(R) THEN Kept(hw[F][B + 1], Ones) ELSE 0
      /\ drv.low = firmware.reg[F][B]
      /\ drv.high = IF Is64(R) THEN firmware.reg[F][B + 1] ELSE 0
  BY <1>1, <1>2 DEF PcieInv, Untouched, Saved
<1>5. /\ n \in Nat
      /\ R.kind \in {"mem32", "mem64", "io"} => n = R.size /\ n # 0
      /\ R.kind = "none" => n = 0
      /\ R.kind = "io16" => n = R.size + (W - IoTop) /\ n # 0
      /\ R.kind = "fixed" => n = (W - R.base) % W /\ (n # 0 <=> R.base # 0)
      /\ R.kind \in {"io16", "fixed"} /\ n # 0 => R.size <= n
  BY <1>2, <1>4, SizedRight
<1> HIDE DEF n
<1>6. /\ drv.low + W * drv.high = FirmAddress(F, B)
      /\ drv.low + W * drv.high \in Nat
  <2>1. drv.low \in Nat /\ drv.high \in Nat /\ W \in Nat
    BY <1>2, Widths DEF DrvType
  <2> QED BY <1>4, <2>1 DEF FirmAddress, R
<1>7. bar \in BarType
  BY <1>5, <1>6 DEF BarType, NoBar, Is64, IsIo
<1>8. /\ bar.valid => bar.base = FirmAddress(F, B)
      /\ bar.is64 <=> Is64(R)
  BY <1>6 DEF NoBar, Is64
<1>9. Describes(bar, F, B)
  <2>1. R \in Registers /\ R.size \in Nat
    BY <1>2, HardwareIs DEF R, Registers
  <2>2. R.kind \in {"mem32", "mem64", "high", "io", "io16", "reserved", "none", "fixed"}
    BY <2>1 DEF Registers
  <2>3. CASE R.kind = "reserved"
    <3>1. bar.valid = FALSE
      BY <2>3 DEF NoBar
    <3> HIDE DEF bar
    <3> QED BY <2>3, <3>1 DEF Describes, R
  <2>4. CASE R.kind # "reserved"
    <3>1. bar.valid = (n # 0) /\ bar.is64 = Is64(R) /\ bar.size = n
      BY <2>4
    <3> HIDE DEF bar
    <3>2. bar.valid => /\ R.kind \notin {"none", "high", "reserved"}
                       /\ bar.size # 0 /\ R.size <= bar.size
      <4> SUFFICES ASSUME n # 0
                   PROVE  R.kind \notin {"none", "high", "reserved"}
                     /\ R.size <= n
        BY <3>1
      <4>1. R.kind \notin {"none", "high", "reserved"}
        BY <1>2, <1>5, <2>4
      <4>2. R.kind \in {"mem32", "mem64", "io"} \/ R.kind \in {"io16", "fixed"}
        BY <2>2, <4>1
      <4>3. CASE R.kind \in {"mem32", "mem64", "io"}
        BY <1>5, <2>1, <4>3
      <4>4. CASE R.kind \in {"io16", "fixed"}
        BY <1>5, <4>4
      <4> QED BY <4>1, <4>2, <4>3, <4>4
    <3>3. R.kind \in {"mem32", "mem64", "io"} => bar.valid /\ bar.size = R.size
      BY <1>5, <3>1
    <3>4. /\ R.kind = "io16" => bar.valid /\ bar.size = R.size + (W - IoTop)
          /\ R.kind = "fixed" =>
               bar.size = (W - R.base) % W /\ (bar.valid <=> R.base # 0)
      BY <1>5, <3>1
    <3> QED BY <3>1, <3>2, <3>3, <3>4 DEF Describes, R
  <2> QED BY <2>3, <2>4
<1> HIDE DEF bar
<1> QED BY <1>1, <1>2, <1>3, <1>7, <1>8, <1>9, RecordKeeps

\* The entry of a device is complete when its registers are.
LEMMA NextFunctionKeeps ==
  ASSUME PcieInv, NextFunction
  PROVE  PcieInv'
<1> DEFINE e == [fn |-> F, bars |-> drv.bars]
<1>1. /\ drv.pc = "bar" /\ F <= Len(hw) /\ hw[F] # <<>> /\ B > NBars
      /\ devices' = Append(devices, e)
      /\ drv' = [drv EXCEPT !.fn = F + 1, !.bar = 1, !.was64 = FALSE, !.bars = <<>>]
      /\ UNCHANGED <<hw, firmware, reg, decode, capacity, moved, next, granted>>
  BY DEF NextFunction, bump
<1>2. /\ hw \in Hardware /\ hw \in Seq(Seq(Registers)) /\ drv \in DrvType
      /\ F \in Nat \ {0} /\ B = NBars + 1 /\ drv.bars \in Seq(BarType)
      /\ devices \in Seq(EntryType) /\ NBars \in Nat \ {0} /\ capacity \in Nat
  <2>1. hw \in Hardware /\ drv \in DrvType /\ devices \in Seq(EntryType)
          /\ capacity \in Nat
    BY DEF PcieInv, TypeOK
  <2>2. F \in Nat \ {0} /\ B \in 1 .. NBars + 1 /\ drv.bars \in Seq(BarType)
    BY <2>1 DEF DrvType, F, B
  <2> QED BY <1>1, <2>1, <2>2, HardwareAssumption, Widths
<1>3. F \in Present /\ F \in DOMAIN hw
  BY <1>1, <1>2 DEF Present
<1>4. /\ devices' \in Seq(EntryType) /\ Len(devices') = Len(devices) + 1
      /\ Len(devices) \in Nat
  <2>1. e \in EntryType
    BY <1>2 DEF EntryType
  <2> HIDE DEF e
  <2> QED BY <1>1, <1>2, <2>1
<1>5. /\ drv' \in DrvType /\ drv'.pc = "bar" /\ F' = F + 1 /\ B' = 1
      /\ drv'.was64 = FALSE /\ drv'.bars = <<>>
  <2>1. F + 1 \in Nat \ {0} /\ 1 \in 1 .. NBars + 1
    BY <1>2
  <2>2. <<>> \in Seq(BarType)
    OBVIOUS
  <2>3. drv' \in DrvType
    BY <1>1, <1>2, <2>1, <2>2 DEF DrvType
  <2> QED BY <1>1, <1>2, <2>3 DEF DrvType, F, B
<1>6. /\ Scanning /\ Scanning' /\ ~Probing /\ ~Probing' /\ ~Moving /\ ~Moving'
      /\ Present' = Present
  BY <1>1, <1>5 DEF Scanning, Probing, Moving, Present
<1>7. TypeOK' /\ DecodeOK' /\ Stable' /\ Saved' /\ Untouched'
  <2>1. DecodeOK' /\ Stable' /\ Saved' /\ Untouched'
    BY <1>1, <1>5, <1>6 DEF PcieInv, DecodeOK, Stable, Saved, Untouched
  <2>2. devices' \in Seq(EntryType)
    BY <1>4
  <2>3. TypeOK'
    BY <1>1, <1>5, <1>6, <2>2 DEF PcieInv, TypeOK
  <2> QED BY <2>1, <2>3
<1>8. AtRegister'
  <2>1. F' \in Present => 1 \in Bars /\ hw[F'][1].kind # "high"
    <3>1. F' \in Present => hw[F'][1].kind # "high"
      BY <1>2, FirstNotHigh
    <3> QED BY <3>1, Widths DEF Bars
  <2> QED BY <1>1, <1>5, <1>6, <2>1 DEF AtRegister, R
<1>9. /\ Len(drv.bars) = NBars
      /\ \A b \in Bars : /\ Describes(drv.bars[b], F, b)
                         /\ drv.bars[b].valid => drv.bars[b].base = FirmAddress(F, b)
      /\ {devices[d].fn : d \in DOMAIN devices} = {f \in Present : f < F}
      /\ moved = {} /\ Len(devices) < capacity
      /\ \A d, g \in DOMAIN devices : d < g => devices[d].fn < devices[g].fn
  <2>1. B - 1 = NBars /\ Bars = 1 .. B - 1
    BY <1>2 DEF Bars
  <2>2. /\ Len(drv.bars) = B - 1 /\ (drv.bars # <<>> => Len(devices) < capacity)
        /\ \A b \in 1 .. B - 1 :
             /\ Describes(drv.bars[b], F, b)
             /\ drv.bars[b].valid => drv.bars[b].base = FirmAddress(F, b)
        /\ {devices[d].fn : d \in DOMAIN devices} = {f \in Present : f < F}
        /\ moved = {}
        /\ \A d, g \in DOMAIN devices : d < g => devices[d].fn < devices[g].fn
    BY <1>3, <1>6 DEF PcieInv, Enumerated
  <2>3. drv.bars # <<>>
    BY <1>2, <2>1, <2>2
  <2> QED BY <2>1, <2>2, <2>3
<1> HIDE DEF e
<1>10. /\ DOMAIN devices = 1 .. Len(devices)
       /\ DOMAIN devices' = DOMAIN devices \cup {Len(devices) + 1}
       /\ \A d \in DOMAIN devices : devices'[d] = devices[d] /\ d < Len(devices) + 1
       /\ devices'[Len(devices) + 1] = e
       /\ \A d \in DOMAIN devices : devices[d].fn \in Present /\ devices[d].fn < F
  BY <1>1, <1>2, <1>4, <1>9
<1>11. e.fn = F /\ e.bars = drv.bars
  BY DEF e
<1>12. Enumerated'
  <2>1. {devices'[d].fn : d \in DOMAIN devices'} = {f \in Present : f < F + 1}
    <3>1. {f \in Present : f < F + 1} = {f \in Present : f < F} \cup {F}
      BY <1>2, <1>3 DEF Present
    <3>2. {devices'[d].fn : d \in DOMAIN devices'}
            = {devices[d].fn : d \in DOMAIN devices} \cup {F}
      BY <1>10, <1>11
    <3> QED BY <1>9, <3>1, <3>2
  <2>2. \A d, g \in DOMAIN devices' : d < g => devices'[d].fn < devices'[g].fn
    <3>1. ASSUME NEW d \in DOMAIN devices', NEW g \in DOMAIN devices', d < g
          PROVE  devices'[d].fn < devices'[g].fn
      <4>1. d \in DOMAIN devices
        BY <1>4, <1>10, <3>1
      <4>2. CASE g \in DOMAIN devices
        BY <1>9, <1>10, <3>1, <4>1, <4>2
      <4>3. CASE g = Len(devices) + 1
        BY <1>10, <1>11, <4>1, <4>3
      <4> QED BY <1>10, <4>2, <4>3
    <3> QED BY <3>1
  <2>3. F + 1 <= Len(hw) + 1 /\ Len(devices') <= capacity /\ Len(<<>>) = 1 - 1
    BY <1>1, <1>2, <1>4, <1>9
  <2>4. 1 .. 1 - 1 = {}
    OBVIOUS
  <2> QED BY <1>1, <1>5, <1>6, <1>9, <2>1, <2>2, <2>3, <2>4 DEF Enumerated
<1>13. Recorded'
  <2>1. ASSUME NEW d \in DOMAIN devices'
        PROVE  /\ Len(devices'[d].bars) = NBars
               /\ \A b \in Bars :
                    /\ Describes(devices'[d].bars[b], devices'[d].fn, b)
                    /\ devices'[d].bars[b].valid =>
                         devices'[d].bars[b].base = FirmAddress(devices'[d].fn, b)
    <3>1. CASE d \in DOMAIN devices
      BY <1>6, <1>10, <3>1 DEF PcieInv, Recorded
    <3>2. CASE d = Len(devices) + 1
      BY <1>9, <1>10, <1>11, <3>2
    <3> QED BY <1>10, <3>1, <3>2
  <2> QED BY <1>1, <1>6, <2>1 DEF Recorded, Describes, FirmAddress
<1> QED BY <1>6, <1>7, <1>8, <1>12, <1>13, ScanKeeps

\* Remapping starts with every register as firmware left it.
LEMMA ScanDoneKeeps ==
  ASSUME PcieInv, ScanDone
  PROVE  PcieInv'
<1>1. /\ drv.pc = "bar" /\ F > Len(hw) /\ capacity' = Len(devices)
      /\ drv' = [drv EXCEPT !.pc = "remap", !.dev = 1, !.bar = 1]
      /\ UNCHANGED <<hw, firmware, reg, decode, devices, moved, next, granted>>
  BY DEF ScanDone, bump
<1>2. /\ hw \in Seq(Seq(Registers)) /\ drv \in DrvType /\ F \in Nat \ {0}
      /\ NBars \in Nat \ {0} /\ drv.bars \in Seq(BarType)
      /\ Len(devices) \in Nat
  <2>1. hw \in Hardware /\ drv \in DrvType /\ Len(devices) \in Nat
    BY DEF PcieInv, TypeOK
  <2>2. F \in Nat \ {0} /\ drv.bars \in Seq(BarType)
    BY <2>1 DEF DrvType, F
  <2> QED BY <2>1, <2>2, HardwareAssumption, Widths
<1>3. /\ drv' \in DrvType /\ drv'.pc = "remap" /\ drv'.dev = 1 /\ B' = 1
      /\ F' = F
      /\ drv'.bars = drv.bars
  <2>1. 1 \in Nat \ {0} /\ 1 \in 1 .. NBars + 1
    BY <1>2
  <2>2. drv' \in DrvType
    BY <1>1, <1>2, <2>1 DEF DrvType
  <2> QED BY <1>1, <1>2, <2>2 DEF DrvType, F, B
<1>4. /\ Scanning /\ ~Scanning' /\ ~Probing /\ ~Probing' /\ ~Moving /\ ~Moving'
      /\ Present' = Present
  BY <1>1, <1>3 DEF Scanning, Probing, Moving, Present
<1>5. TypeOK' /\ DecodeOK' /\ Stable' /\ Saved' /\ Untouched' /\ AtRegister'
  BY <1>1, <1>2, <1>3, <1>4
     DEF PcieInv, TypeOK, DecodeOK, Stable, Saved, Untouched, AtRegister
<1>6. drv.bars = <<>> /\ F \notin Present
  <2>1. F \notin Present
    BY <1>1, <1>2 DEF Present
  <2>2. B = 1 /\ Len(drv.bars) = B - 1
    BY <1>4, <2>1 DEF PcieInv, Enumerated
  <2> QED BY <1>2, <2>1, <2>2
<1>7. {f \in Present : f < F} = Present
  BY <1>1, <1>2 DEF Present
<1>8. Enumerated'
  <2>1. /\ {devices[d].fn : d \in DOMAIN devices} = {f \in Present : f < F}
        /\ \A d, e \in DOMAIN devices : d < e => devices[d].fn < devices[e].fn
    BY <1>4 DEF PcieInv, Enumerated
  <2> QED BY <1>1, <1>3, <1>4, <1>6, <1>7, <2>1 DEF Enumerated
<1>9. reg = firmware.reg /\ moved = {}
  BY <1>1, <1>4 DEF PcieInv, Untouched, Enumerated
<1>10. Recorded'
  BY <1>1, <1>3, <1>4, <1>9 DEF PcieInv, Recorded, Describes, FirmAddress,
     Address
<1>11. AllReal'
  BY <1>1, <1>9 DEF AllReal, Real
<1>12. MoveOK' /\ WindowsApart'
  BY <1>1, <1>2, <1>3, <1>4, <1>9, Widths DEF MoveOK, WindowsApart, Bars
<1> QED BY <1>5, <1>8, <1>10, <1>11, <1>12 DEF PcieInv

-----------------------------------------------------------------------------
(* Remapping                                                               *)

\* The position moves to the next register, past every one before it.
LEMMA AdvanceIs ==
  ASSUME drv \in DrvType, B \in Bars, Len(devices) \in Nat, drv.dev <= Len(devices),
         Advance
  PROVE  /\ drv' \in DrvType /\ drv'.pc = "remap" /\ drv'.bars = drv.bars
         /\ B' \in Bars /\ drv'.dev <= Len(devices) + 1
         /\ \A d, b \in Nat : d < drv.dev \/ (d = drv.dev /\ b <= B)
                                => d < drv'.dev \/ (d = drv'.dev /\ b < B')
<1>1. /\ drv.dev \in Nat \ {0} /\ B \in 1 .. NBars /\ NBars \in Nat \ {0}
      /\ drv.dev + 1 \in Nat \ {0} /\ 1 \in 1 .. NBars + 1 /\ 1 \in 1 .. NBars
  BY Widths DEF DrvType, Bars
<1>2. CASE B < NBars
  <2>1. drv' = [drv EXCEPT !.pc = "remap", !.bar = B + 1]
    BY <1>2 DEF Advance
  <2>2. B + 1 \in 1 .. NBars + 1 /\ B + 1 \in 1 .. NBars
    BY <1>1, <1>2
  <2>3. drv' \in DrvType
    BY <2>1, <2>2 DEF DrvType
  <2>4. drv'.pc = "remap" /\ drv'.bars = drv.bars /\ B' = B + 1
          /\ drv'.dev = drv.dev
    BY <2>1, <2>2 DEF DrvType, B
  <2> QED BY <1>1, <2>2, <2>3, <2>4 DEF Bars
<1>3. CASE ~(B < NBars)
  <2>1. drv' = [drv EXCEPT !.pc = "remap", !.bar = 1, !.dev = drv.dev + 1]
    BY <1>3 DEF Advance
  <2>2. drv' \in DrvType
    BY <1>1, <2>1 DEF DrvType
  <2>3. drv'.pc = "remap" /\ drv'.bars = drv.bars /\ B' = 1
          /\ drv'.dev = drv.dev + 1
    BY <2>1, <1>1 DEF DrvType, B
  <2> QED BY <1>1, <2>2, <2>3 DEF Bars
<1> QED BY <1>2, <1>3

\* The driver is at an entry of the array.
LEMMA AtEntry ==
  ASSUME PcieInv, drv.dev <= Len(devices), drv.pc = "remap" \/ Moving
  PROVE  /\ drv \in DrvType /\ B \in Bars /\ Len(devices) \in Nat
         /\ drv.dev \in DOMAIN devices /\ ~Scanning /\ ~Probing
         /\ D.fn \in Present /\ Bar \in BarType /\ hw \in Hardware
         /\ Describes(Bar, D.fn, B)
<1>1. /\ drv \in DrvType /\ B \in Bars /\ Len(devices) \in Nat
      /\ hw \in Hardware
      /\ devices \in Seq(EntryType) /\ ~Scanning /\ ~Probing
  BY DEF PcieInv, TypeOK, MoveOK, AtRegister, Scanning, Probing, Moving
<1>2. drv.dev \in DOMAIN devices
  <2>1. drv.dev \in Nat \ {0}
    BY <1>1 DEF DrvType
  <2> QED BY <1>1, <2>1
<1>3. D.fn \in Present
  BY <1>1, <1>2 DEF PcieInv, Enumerated, D
<1>4. /\ Len(D.bars) = NBars /\ D.bars \in Seq(BarType)
      /\ Describes(D.bars[B], D.fn, B)
  <2>1. Len(D.bars) = NBars /\ Describes(D.bars[B], D.fn, B)
    BY <1>1, <1>2 DEF PcieInv, Recorded, D
  <2>2. D \in EntryType
    BY <1>1, <1>2 DEF D
  <2> QED BY <2>1, <2>2 DEF EntryType
<1>5. Bar \in BarType
  BY <1>1, <1>4, Widths DEF Bar, Bars
<1> QED BY <1>1, <1>2, <1>3, <1>4, <1>5 DEF Bar

\* The window of an entry is made of numbers.
LEMMA WindowIs ==
  ASSUME TypeOK, Enumerated, Recorded, NEW m \in (DOMAIN devices) \X Bars,
         devices[m[1]].bars[m[2]].valid
  PROVE  /\ m[1] \in Nat /\ m[2] \in Nat
         /\ Window(m).base \in Nat /\ Window(m).end \in Nat
         /\ devices[m[1]].fn \in Present
         /\ hw[devices[m[1]].fn][m[2]].size \in Nat
         /\ hw[devices[m[1]].fn][m[2]].size <= devices[m[1]].bars[m[2]].size
         /\ devices[m[1]].bars[m[2]].base \in Nat
<1> DEFINE d == m[1]
           b == m[2]
           f == devices[d].fn
<1>1. /\ d \in DOMAIN devices /\ b \in Bars /\ d \in Nat /\ b \in Nat
      /\ devices \in Seq(EntryType)
  BY DEF TypeOK, Bars
<1>2. devices[d] \in EntryType
  BY <1>1
<1>3. Len(devices[d].bars) = NBars /\ Describes(devices[d].bars[b], f, b)
  BY <1>1 DEF Recorded
<1>4. devices[d].bars[b] \in BarType
  BY <1>1, <1>2, <1>3, Widths DEF Bars, EntryType
<1>5. devices[d].bars[b].base \in Nat
  BY <1>4 DEF BarType
<1>6. f \in Present
  BY <1>1 DEF Enumerated
<1>7. hw[f][b].size \in Nat
  BY <1>1, <1>6, HardwareIs DEF TypeOK, Registers
<1>8. hw[f][b].size <= devices[d].bars[b].size
  BY <1>3 DEF Describes
<1>9. Window(m).base \in Nat /\ Window(m).end \in Nat
  BY <1>5, <1>7 DEF Window
<1> QED BY <1>1, <1>5, <1>6, <1>7, <1>8, <1>9

\* A register that is passed keeps its address.
LEMMA PassKeeps ==
  ASSUME PcieInv, AtRemap, Advance,
         UNCHANGED <<hw, firmware, reg, decode, devices, capacity, moved, next, granted>>
  PROVE  PcieInv'
<1>1. /\ drv.pc = "remap" /\ drv.dev <= Len(devices) /\ drv \in DrvType
      /\ B \in Bars
      /\ Len(devices) \in Nat /\ devices \in Seq(EntryType)
  BY AtEntry DEF AtRemap, PcieInv, TypeOK
<1>2. /\ drv' \in DrvType /\ drv'.pc = "remap" /\ drv'.bars = drv.bars
      /\ B' \in Bars /\ drv'.dev <= Len(devices) + 1
      /\ \A d, b \in Nat : d < drv.dev \/ (d = drv.dev /\ b <= B)
                             => d < drv'.dev \/ (d = drv'.dev /\ b < B')
  BY <1>1, AdvanceIs
<1>3. /\ ~Scanning /\ ~Scanning' /\ ~Probing /\ ~Probing' /\ ~Moving /\ ~Moving'
      /\ Present' = Present
  BY <1>1, <1>2 DEF Scanning, Probing, Moving, Present
<1>4. /\ TypeOK' /\ DecodeOK' /\ Stable' /\ Saved' /\ Untouched' /\ AtRegister'
      /\ Enumerated'
  BY <1>1, <1>2, <1>3
     DEF PcieInv, TypeOK, DecodeOK, Stable, Saved, Untouched, AtRegister, Enumerated
<1>5. Recorded'
  BY <1>2, <1>3 DEF PcieInv, Recorded, Describes, FirmAddress, Address
<1>6. AllReal'
  BY <1>1, <1>3 DEF PcieInv, AllReal, Real, Address, Starts
<1>7. MoveOK'
  BY <1>2, <1>3 DEF MoveOK
<1>8. WindowsApart'
  <2>1. \A m \in moved : m \in (DOMAIN devices) \X Bars => m[1] \in Nat
          /\ m[2] \in Nat
    BY <1>1 DEF Bars
  <2>2. \A m \in moved : m[1] < drv.dev \/ (m[1] = drv.dev /\ m[2] < B)
    BY <1>1 DEF PcieInv, WindowsApart
  <2>3. \A m \in moved : m[1] < drv'.dev \/ (m[1] = drv'.dev /\ m[2] < B')
    <3>1. ASSUME NEW m \in moved
          PROVE  m[1] < drv'.dev \/ (m[1] = drv'.dev /\ m[2] < B')
      <4>1. m[1] \in Nat /\ m[2] \in Nat
        BY <2>1 DEF PcieInv, WindowsApart
      <4>2. m[1] < drv.dev \/ (m[1] = drv.dev /\ m[2] <= B)
        BY <2>2, <4>1, <1>1 DEF Bars
      <4> QED BY <1>2, <4>1, <4>2
    <3> QED BY <3>1
  <2> QED BY <1>2, <1>3, <2>3 DEF PcieInv, WindowsApart, Window
<1> QED BY <1>4, <1>5, <1>6, <1>7, <1>8 DEF PcieInv

\* What the bump allocator grants for a register that asks for its own size.
LEMMA GrantIs ==
  ASSUME next \in HoleStart .. HoleStart + HoleSize, NEW size \in Nat \ {0},
         Bump!Grant(size, size)
  PROVE  LET addr == next' - size IN
         /\ next' \in HoleStart .. HoleStart + HoleSize
         /\ addr \in Nat /\ next <= addr /\ addr % size = 0
         /\ granted \subseteq granted'
         /\ \E g \in granted' : g.base = addr
<1> DEFINE a == Bump!AlignUp(next, size)
           g == [base |-> a, end |-> a + size, align |-> size]
<1>1. /\ next \in Nat /\ W \in Nat /\ W >= 2 /\ HoleStart \in Nat
      /\ HoleSize \in Nat
      /\ HoleStart + HoleSize < W /\ next <= HoleStart + HoleSize
  BY Widths
<1>2. Bump!Effective(size) = size
  BY DEF Bump!Effective
<1>3. /\ a <= HoleStart + HoleSize /\ size <= (HoleStart + HoleSize) - a
      /\ next' = a + size /\ granted' = granted \cup {g}
  <2>1. /\ Bump!FitsHole(Bump!AlignUp(next, Bump!Effective(size)), size)
        /\ next' = Bump!AlignUp(next, Bump!Effective(size)) + size
        /\ granted' = granted \cup
             {[base |-> Bump!AlignUp(next, Bump!Effective(size)),
               end |-> Bump!AlignUp(next, Bump!Effective(size)) + size,
               align |-> Bump!Effective(size)]}
    BY DEF Bump!Grant
  <2>2. Bump!FitsHole(a, size) /\ next' = a + size
          /\ granted' = granted \cup {g}
    BY <1>2, <2>1
  <2> HIDE DEF a, g
  <2> QED BY <2>2 DEF Bump!FitsHole, Bump!End
<1>4. a = (((next + size - 1) % (W * W)) \div size) * size
  BY DEF Bump!AlignUp
<1>5. W * W \in Nat /\ W * W >= 2 * W
  BY <1>1
<1>6. a \in Nat
  <2> DEFINE x == (next + size - 1) % (W * W)
  <2>1. x \in Nat
    BY <1>1, <1>5
  <2> HIDE DEF x
  <2>2. (x \div size) * size \in Nat
    BY <2>1, FloorIdem
  <2> QED BY <1>4, <2>2 DEF x
<1> HIDE DEF a
<1>7. next + size - 1 \in Nat /\ next + size - 1 < W * W
  BY <1>1, <1>3, <1>5, <1>6
<1>8. (next + size - 1) % (W * W) = next + size - 1
  BY <1>5, <1>7
<1>9. a = RoundUp(next, size)
  BY <1>4, <1>8 DEF RoundUp
<1>10. next <= a /\ a % size = 0
  BY <1>1, <1>9, RoundUpFirst
<1>11. next' - size = a /\ next' \in HoleStart .. HoleStart + HoleSize
  BY <1>1, <1>3, <1>6, <1>10
<1>12. g \in granted' /\ g.base = a
  BY <1>3
<1> QED BY <1>3, <1>6, <1>10, <1>11, <1>12

\* The register at hand gets an address and stops decoding.
LEMMA AssignKeeps ==
  ASSUME PcieInv, Assign
  PROVE  PcieInv'
<1> DEFINE f    == D.fn
           high == IF Bar.is64 THEN reg[f][B + 1] ELSE 0
           addr == next' - Bar.size
<1>1. /\ drv.pc = "remap" /\ drv.dev <= Len(devices) /\ Bar.valid
      /\ Bar.size # 0
      /\ Bump!Grant(Bar.size, Bar.size)
      /\ drv' = [drv EXCEPT !.pc = "write", !.fn = f, !.command = decode[f],
                            !.low = reg[f][B], !.new = addr, !.high = high]
      /\ decode' = [decode EXCEPT ![f] = FALSE]
      /\ UNCHANGED <<hw, firmware, reg, devices, capacity, moved>>
  BY DEF Assign, AtRemap
<1>2. /\ drv \in DrvType /\ B \in Bars /\ Len(devices) \in Nat
      /\ drv.dev \in DOMAIN devices /\ ~Scanning /\ ~Probing
      /\ f \in Present /\ Bar \in BarType /\ hw \in Hardware
      /\ Describes(Bar, f, B)
      /\ drv.dev \in Nat \ {0}
  BY <1>1, AtEntry DEF DrvType
<1>3. Bar.size \in Nat \ {0}
  BY <1>1, <1>2 DEF BarType
<1>4. /\ next' \in HoleStart .. HoleStart + HoleSize
      /\ addr \in Nat /\ next <= addr /\ addr % Bar.size = 0
      /\ granted \subseteq granted'
      /\ \E g \in granted' : g.base = addr
  BY <1>1, <1>3, GrantIs DEF PcieInv, TypeOK
<1>5. /\ Bar.is64 = Is64(hw[f][B])
      /\ hw[f][B].kind \notin {"none", "high", "reserved"} /\ B \in Starts(f)
  BY <1>1, <1>2 DEF Describes, Starts
<1>6. /\ \A b \in Bars : reg[f][b] \in Values
      /\ Is64(hw[f][B]) => B + 1 \in Bars
  BY <1>2, HardwareIs DEF PcieInv, TypeOK
<1>7. /\ f \in Nat \ {0} /\ reg[f][B] \in Values /\ high \in Nat
      /\ Is64(hw[f][B]) => high = reg[f][B + 1] /\ high \in Values
      /\ ~Is64(hw[f][B]) => high = 0
      /\ decode[f] \in BOOLEAN
  <2>1. f \in DOMAIN hw /\ ~Moving
    BY <1>1, <1>2 DEF Present, Moving
  <2>2. decode[f] \in BOOLEAN
    BY <1>2, <2>1 DEF PcieInv, TypeOK, DecodeOK
  <2>3. f \in Nat \ {0}
    <3>1. devices \in Seq(EntryType)
      BY DEF PcieInv, TypeOK
    <3>2. D \in EntryType
      BY <1>2, <3>1 DEF D
    <3> QED BY <3>2 DEF EntryType
  <2> QED BY <1>2, <1>5, <1>6, <2>2, <2>3 DEF Values
<1> HIDE DEF f, high, addr
<1>8. drv' \in DrvType
  <2>1. reg[f][B] \in Nat
    BY <1>7 DEF Values
  <2> QED BY <1>1, <1>2, <1>4, <1>7, <2>1 DEF DrvType
<1>9. /\ drv'.pc = "write" /\ F' = f /\ B' = B /\ drv'.bars = drv.bars
      /\ drv'.dev = drv.dev /\ drv'.command = decode[f]
      /\ drv'.low = reg[f][B] /\ drv'.new = addr /\ drv'.high = high
  BY <1>1, <1>2 DEF DrvType, F, B
<1>10. /\ ~Scanning' /\ ~Probing' /\ ~Moving /\ Moving' /\ Present' = Present
       /\ D' = D /\ Bar' = Bar /\ R' = hw[f][B]
  BY <1>1, <1>9 DEF Scanning, Probing, Moving, Present, D, Bar, R
<1>11. TypeOK'
  BY <1>1, <1>4, <1>8, <1>10 DEF PcieInv, TypeOK
<1>12. AtRegister' /\ Stable' /\ Saved' /\ Untouched'
  BY <1>1, <1>2, <1>9, <1>10 DEF PcieInv, AtRegister, Stable, Saved, Untouched
<1>13. DecodeOK'
  BY <1>1, <1>2, <1>9, <1>10 DEF PcieInv, DecodeOK
<1>14. Enumerated'
  BY <1>1, <1>2, <1>9, <1>10 DEF PcieInv, Enumerated
<1>15. Recorded'
  BY <1>1, <1>2, <1>9, <1>10 DEF PcieInv, Recorded, Describes, FirmAddress,
     Address
<1>16. AllReal'
  BY <1>1, <1>4, <1>9, <1>10 DEF PcieInv, AllReal, Real, Address, Starts
<1>17. Address(f, B) = Bar.base
  BY <1>1, <1>2, <1>10 DEF PcieInv, Recorded, D, Bar, f
<1>18. MoveOK'
  <2>1. drv'.low \in Values /\ Kept(R, drv.low)' = drv'.low
    BY <1>2, <1>7, <1>9, <1>10 DEF PcieInv, Stable, Kept, LowSize
  <2>2. IF Is64(R') THEN /\ drv'.high \in Values
                         /\ Kept(hw[f][B + 1], drv'.high) = drv'.high
                    ELSE drv'.high = 0
    BY <1>2, <1>6, <1>7, <1>9, <1>10 DEF PcieInv, Stable
  <2>3. Bar.base = drv'.low + W * drv'.high
    BY <1>7, <1>9, <1>17, Widths DEF Address
  <2>4. Real(f, B, Bar.base)
    BY <1>1, <1>2, <1>5, <1>10, <1>17 DEF PcieInv, AllReal
  <2>5. \/ /\ drv'.low = firmware.reg[f][B]
           /\ Is64(R') => drv'.high = firmware.reg[f][B + 1]
        \/ \E g \in granted' : g.base = Bar.base
    BY <1>4, <1>7, <1>9, <1>10, <2>4 DEF Real
  <2>6. HoleStart <= addr /\ next' = addr + Bar.size
    BY <1>3, <1>4, Widths DEF addr, PcieInv, TypeOK
  <2>7. Address(F, B)' = Bar.base
    BY <1>1, <1>9, <1>17 DEF Address, Is64
  <2> QED BY <1>1, <1>2, <1>4, <1>9, <1>10, <2>1, <2>2, <2>3, <2>5, <2>6, <2>7
          DEF MoveOK, f
<1>19. WindowsApart'
  <2>1. \A m \in moved : m[1] < drv.dev \/ (m[1] = drv.dev /\ m[2] < B)
    BY <1>1 DEF PcieInv, WindowsApart
  <2>2. \A m \in moved : Window(m)' = Window(m) /\ Window(m).end <= addr
    <3>1. ASSUME NEW m \in moved
          PROVE  Window(m)' = Window(m) /\ Window(m).end <= addr
      <4>1. Window(m)' = Window(m)
        BY <1>1 DEF Window
      <4>2. Window(m).end <= next
        BY <1>10 DEF PcieInv, WindowsApart
      <4>3. Window(m).end \in Int
        BY WindowIs DEF PcieInv, WindowsApart
      <4> QED BY <1>4, <4>1, <4>2, <4>3, Widths DEF PcieInv, TypeOK
    <3> QED BY <3>1
  <2> QED BY <1>1, <1>9, <1>10, <2>1, <2>2 DEF PcieInv, WindowsApart
<1> QED BY <1>11, <1>12, <1>13, <1>14, <1>15, <1>16, <1>18, <1>19 DEF PcieInv

\* A write of the register at hand leaves the addresses of all others alone.
LEMMA OthersKept ==
  ASSUME hw \in Hardware, F \in Present, B \in Bars, R.kind # "high",
         NEW new, NEW lo, NEW hi, IsWritten(new, lo, hi),
         NEW f \in Present, NEW b \in Starts(f), ~(f = F /\ b = B)
  PROVE  new[f][b] = reg[f][b]
    /\ (Is64(hw[f][b]) => new[f][b + 1] = reg[f][b + 1])
<1>1. b \in Bars /\ hw[f][b].kind # "high" /\ \A x \in Bars : x \in Nat
  BY DEF Starts, Bars
<1>2. CASE f # F
  BY <1>2 DEF IsWritten, Present
<1>3. CASE f = F /\ b # B
  <2>1. /\ Is64(R) => hw[F][B + 1].kind = "high"
        /\ Is64(hw[f][b]) => b + 1 \in Bars /\ hw[f][b + 1].kind = "high"
    BY <1>1, HardwareIs DEF R
  <2>2. ~(Is64(R) /\ b = B + 1)
    BY <1>1, <1>3, <2>1
  <2>3. Is64(hw[f][b]) => b + 1 # B /\ ~(Is64(R) /\ b + 1 = B + 1)
    BY <1>1, <1>3, <2>1 DEF R
  <2> QED BY <1>1, <1>3, <2>1, <2>2, <2>3 DEF IsWritten
<1> QED BY <1>2, <1>3

\* The registers of another entry are not those of the entry at hand.
LEMMA OtherEntry ==
  ASSUME Enumerated, Recorded, drv.dev \in DOMAIN devices, devices \in Seq(EntryType),
         F = D.fn, NEW d \in DOMAIN devices, NEW b \in Bars,
         devices[d].bars[b].valid, ~(d = drv.dev /\ b = B)
  PROVE  /\ devices[d].fn \in Present /\ b \in Starts(devices[d].fn)
         /\ ~(devices[d].fn = F /\ b = B)
<1>1. devices[d].fn \in Present
  BY DEF Enumerated
<1>2. b \in Starts(devices[d].fn)
  BY DEF Recorded, Describes, Starts
<1>3. d # drv.dev => devices[d].fn # D.fn
  <2>1. \A x \in DOMAIN devices : x \in Nat /\ devices[x].fn \in Nat
    <3>1. \A x \in DOMAIN devices : x \in Nat /\ devices[x] \in EntryType
      OBVIOUS
    <3> QED BY <3>1 DEF EntryType
  <2>2. d # drv.dev => d < drv.dev \/ drv.dev < d
    BY <2>1
  <2> QED BY <2>1, <2>2 DEF Enumerated, D
<1> QED BY <1>1, <1>2, <1>3

\* The register that is being moved is that of a valid entry.
LEMMA MovingIs ==
  ASSUME PcieInv, Moving
  PROVE  /\ drv.dev \in DOMAIN devices /\ F = D.fn /\ Bar.valid
    /\ Bar \in BarType
         /\ F \in Present /\ F \in DOMAIN hw /\ B \in Bars /\ B \in Starts(F)
         /\ hw \in Hardware /\ TypeOK /\ Stable /\ Enumerated /\ Recorded
         /\ drv \in DrvType /\ devices \in Seq(EntryType)
         /\ Describes(Bar, F, B) /\ R.kind # "high"
<1>1. /\ drv.dev \in DOMAIN devices /\ F = D.fn /\ Bar.valid
      /\ F \in Present /\ B \in Bars /\ hw \in Hardware /\ TypeOK /\ Stable
      /\ drv \in DrvType /\ devices \in Seq(EntryType) /\ Enumerated /\ Recorded
      /\ F \in DOMAIN hw
  BY DEF PcieInv, TypeOK, MoveOK, AtRegister, Present
<1>2. Len(devices) \in Nat /\ drv.dev <= Len(devices)
  BY <1>1
<1>3. Describes(Bar, F, B) /\ Bar \in BarType
  BY <1>1, <1>2, AtEntry
<1> QED BY <1>1, <1>3 DEF Describes, R, Starts

\* The new address is written.
LEMMA WriteBarKeeps ==
  ASSUME PcieInv, WriteBar
  PROVE  PcieInv'
<1>1. /\ drv.pc = "write" /\ reg' = Written(drv.new % W, drv.new \div W)
      /\ drv' = [drv EXCEPT !.pc = "verify"]
      /\ UNCHANGED <<hw, firmware, decode, devices, capacity, moved, next, granted>>
  BY DEF WriteBar, bump
<1>2. Moving
  BY <1>1 DEF Moving
<1>3. /\ drv.dev \in DOMAIN devices /\ F = D.fn /\ Bar.valid /\ Bar \in BarType
      /\ F \in Present /\ F \in DOMAIN hw /\ B \in Bars /\ B \in Starts(F)
      /\ hw \in Hardware /\ TypeOK /\ Stable /\ Enumerated /\ Recorded
      /\ drv \in DrvType /\ devices \in Seq(EntryType)
      /\ Describes(Bar, F, B) /\ R.kind # "high"
  BY <1>2, MovingIs
<1>4. drv.new \in Values
  <2>1. Bar.size \in Nat /\ drv.new \in Nat /\ next = drv.new + Bar.size
        /\ next \in HoleStart .. HoleStart + HoleSize
    BY <1>2, <1>3 DEF PcieInv, MoveOK, TypeOK, BarType, DrvType
  <2> QED BY <2>1, Widths DEF Values
<1>5. drv.new % W = drv.new /\ drv.new \div W = 0
  BY <1>4, Widths DEF Values
<1>6. IsWritten(reg', drv.new, 0)
  <2>1. reg' = Written(drv.new, 0) /\ 0 \in Values
    BY <1>1, <1>5, Widths
  <2> QED BY <1>2, <1>3, <1>4, <2>1, WrittenIs
<1>7. /\ drv' \in DrvType /\ drv'.pc = "verify" /\ F' = F /\ B' = B
      /\ UNCHANGED <<drv.bars, drv.dev, drv.low, drv.high, drv.new, drv.command>>
  BY <1>1, <1>2, <1>3 DEF DrvType, F, B
<1>8. /\ ~Scanning /\ ~Scanning' /\ ~Probing /\ ~Probing' /\ Moving'
      /\ Present' = Present
      /\ D' = D /\ Bar' = Bar /\ R' = R
  BY <1>1, <1>7 DEF Scanning, Probing, Moving, Present, D, Bar, R
<1>9. ASSUME NEW f \in Present, NEW b \in Starts(f), ~(f = F /\ b = B)
      PROVE  /\ reg'[f][b] = reg[f][b]
             /\ Is64(hw[f][b]) => reg'[f][b + 1] = reg[f][b + 1]
             /\ Address(f, b)' = Address(f, b)
  <2>1. /\ reg'[f][b] = reg[f][b]
        /\ Is64(hw[f][b]) => reg'[f][b + 1] = reg[f][b + 1]
    BY <1>2, <1>3, <1>6, <1>9, OthersKept
  <2> QED BY <1>1, <2>1 DEF Address, Is64
<1>10. TypeOK' /\ Stable'
  BY <1>1, <1>2, <1>3, <1>6, <1>7, <1>8 DEF TypeOK, Stable, IsWritten
<1>11. AtRegister' /\ DecodeOK' /\ Saved' /\ Untouched' /\ Enumerated'
  BY <1>1, <1>2, <1>3, <1>7, <1>8
     DEF PcieInv, AtRegister, DecodeOK, Saved, Untouched, Enumerated
<1>12. Recorded'
  <2>1. ASSUME NEW d \in DOMAIN devices, NEW b \in Bars, devices[d].bars[b].valid,
               ~(d = drv.dev /\ b = B)
        PROVE  devices[d].bars[b].base = Address(devices[d].fn, b)'
    <3>1. /\ devices[d].fn \in Present /\ b \in Starts(devices[d].fn)
          /\ ~(devices[d].fn = F /\ b = B)
      BY <1>2, <1>3, <2>1, OtherEntry
    <3>2. Address(devices[d].fn, b)' = Address(devices[d].fn, b)
      BY <1>1, <1>9, <3>1 DEF Address
    <3> QED BY <1>8, <2>1, <3>2 DEF PcieInv, Recorded
  <2>2. \A d \in DOMAIN devices :
          /\ Len(devices[d].bars) = NBars
          /\ \A b \in Bars : Describes(devices[d].bars[b], devices[d].fn, b)'
    BY <1>1 DEF PcieInv, Recorded, Describes
  <2>3. ASSUME NEW d \in DOMAIN devices', NEW b \in Bars
        PROVE  /\ Describes(devices[d].bars[b], devices[d].fn, b)'
               /\ (devices[d].bars[b].valid /\ ~Scanning
                   /\ ~(Moving /\ d = drv.dev /\ b = B)
                    => devices[d].bars[b].base = Address(devices[d].fn, b))'
    BY <1>1, <1>7, <1>8, <2>1, <2>2
  <2> QED BY <1>1, <1>8, <2>2, <2>3 DEF Recorded
<1>13. AllReal'
  <2>1. ASSUME NEW f \in Present, NEW b \in Starts(f), ~(f = F /\ b = B)
        PROVE  Real(f, b, Address(f, b))'
    <3>1. Real(f, b, Address(f, b))
      BY <1>1, <2>1 DEF PcieInv, AllReal
    <3> QED BY <1>1, <1>9, <2>1, <3>1 DEF Real
  <2> QED BY <1>1, <1>7, <1>8, <2>1 DEF AllReal, Starts
<1>14. MoveOK'
  <2>1. MoveOK
    BY DEF PcieInv
  <2>2. /\ drv'.dev = drv.dev /\ drv'.low = drv.low /\ drv'.high = drv.high
        /\ drv'.new = drv.new
    BY <1>7
  <2> QED BY <1>1, <1>2, <1>3, <1>7, <1>8, <2>1, <2>2 DEF MoveOK, Is64
<1>15. WindowsApart'
  <2>1. WindowsApart
    BY DEF PcieInv
  <2>2. drv'.dev = drv.dev /\ drv'.new = drv.new
    BY <1>7
  <2>3. \A m \in moved : Window(m)' = Window(m)
    BY <1>1 DEF Window
  <2> QED BY <1>1, <1>2, <1>3, <1>7, <1>8, <2>1, <2>2, <2>3 DEF WindowsApart
<1> QED BY <1>10, <1>11, <1>12, <1>13, <1>14, <1>15 DEF PcieInv

\* The register holds what was saved again, and decoding is switched on.
LEMMA RemapFailedKeeps ==
  ASSUME PcieInv, RemapFailed
  PROVE  PcieInv'
<1>1. /\ drv.pc = "verify" /\ reg' = Written(drv.low, drv.high)
      /\ decode' = [decode EXCEPT ![F] = drv.command]
      /\ drv' = [drv EXCEPT !.pc = "halted"]
      /\ UNCHANGED <<hw, firmware, devices, capacity, moved, next, granted>>
  BY DEF RemapFailed, bump
<1>2. Moving
  BY <1>1 DEF Moving
<1>3. /\ drv.dev \in DOMAIN devices /\ F = D.fn /\ Bar.valid /\ Bar \in BarType
      /\ F \in Present /\ F \in DOMAIN hw /\ B \in Bars /\ B \in Starts(F)
      /\ hw \in Hardware /\ TypeOK /\ Stable /\ Enumerated /\ Recorded
      /\ drv \in DrvType /\ devices \in Seq(EntryType)
      /\ Describes(Bar, F, B) /\ R.kind # "high"
  BY <1>2, MovingIs
<1>4. /\ drv.low \in Values /\ Kept(R, drv.low) = drv.low
      /\ Is64(R) => drv.high \in Values /\ Kept(hw[F][B + 1], drv.high) = drv.high
      /\ ~Is64(R) => drv.high = 0
      /\ Bar.base = drv.low + W * drv.high
      /\ \/ /\ drv.low = firmware.reg[F][B]
            /\ Is64(R) => drv.high = firmware.reg[F][B + 1]
         \/ \E g \in granted : g.base = Bar.base
  BY <1>2, <1>3 DEF PcieInv, MoveOK
<1>5. IsWritten(reg', drv.low, drv.high)
  <2>1. Is64(R) => drv.high \in Values
    BY <1>4
  <2> QED BY <1>1, <1>2, <1>3, <1>4, <2>1, WrittenIs
<1>6. /\ reg'[F][B] = drv.low
      /\ Is64(R) => reg'[F][B + 1] = drv.high
  BY <1>4, <1>5 DEF IsWritten
<1>7. Address(F, B)' = Bar.base
  <2>1. F' = F /\ B' = B
    BY <1>1, <1>2, <1>3 DEF DrvType, F, B
  <2>2. drv.low \in Nat /\ W \in Nat /\ W * 0 = 0
    BY <1>4, Widths DEF Values
  <2> QED BY <1>1, <1>4, <1>6, <2>1, <2>2 DEF Address, Is64, R
<1>8. /\ drv' \in DrvType /\ drv'.pc = "halted" /\ F' = F /\ B' = B
      /\ UNCHANGED <<drv.bars, drv.dev, drv.low, drv.high, drv.new, drv.command>>
  BY <1>1, <1>2, <1>3 DEF DrvType, F, B
<1>9. /\ ~Scanning /\ ~Scanning' /\ ~Probing /\ ~Probing' /\ ~Moving'
      /\ Present' = Present /\ D' = D /\ Bar' = Bar /\ R' = R
  BY <1>1, <1>8 DEF Scanning, Probing, Moving, Present, D, Bar, R
<1>10. ASSUME NEW f \in Present, NEW b \in Starts(f), ~(f = F /\ b = B)
       PROVE  /\ reg'[f][b] = reg[f][b]
              /\ Is64(hw[f][b]) => reg'[f][b + 1] = reg[f][b + 1]
              /\ Address(f, b)' = Address(f, b)
  <2>1. /\ reg'[f][b] = reg[f][b]
        /\ Is64(hw[f][b]) => reg'[f][b + 1] = reg[f][b + 1]
    BY <1>2, <1>3, <1>5, <1>10, OthersKept
  <2> QED BY <1>1, <2>1 DEF Address, Is64
<1>11. TypeOK' /\ Stable'
  BY <1>1, <1>2, <1>3, <1>5, <1>8, <1>9 DEF TypeOK, Stable, IsWritten
<1>12. DecodeOK'
  BY <1>1, <1>2, <1>3, <1>8, <1>9 DEF PcieInv, TypeOK, DecodeOK
<1>13. AtRegister' /\ Saved' /\ Untouched' /\ Enumerated' /\ MoveOK'
  BY <1>1, <1>2, <1>3, <1>8, <1>9
     DEF PcieInv, AtRegister, Saved, Untouched, Enumerated, MoveOK, Scanning
<1>14. Recorded'
  <2>1. ASSUME NEW d \in DOMAIN devices, NEW b \in Bars, devices[d].bars[b].valid
        PROVE  devices[d].bars[b].base = Address(devices[d].fn, b)'
    <3>1. CASE d = drv.dev /\ b = B
      BY <1>1, <1>2, <1>3, <1>7, <1>8, <3>1 DEF D, Bar, Address
    <3>2. CASE ~(d = drv.dev /\ b = B)
      <4>1. /\ devices[d].fn \in Present /\ b \in Starts(devices[d].fn)
            /\ ~(devices[d].fn = F /\ b = B)
        BY <1>2, <1>3, <2>1, <3>2, OtherEntry
      <4>2. Address(devices[d].fn, b)' = Address(devices[d].fn, b)
        BY <1>1, <1>10, <4>1 DEF Address
      <4> QED BY <1>9, <2>1, <3>2, <4>2 DEF PcieInv, Recorded
    <3> QED BY <3>1, <3>2
  <2>2. \A d \in DOMAIN devices :
          /\ Len(devices[d].bars) = NBars
          /\ \A b \in Bars : Describes(devices[d].bars[b], devices[d].fn, b)'
    BY <1>1 DEF PcieInv, Recorded, Describes
  <2>3. ASSUME NEW d \in DOMAIN devices', NEW b \in Bars
        PROVE  /\ Describes(devices[d].bars[b], devices[d].fn, b)'
               /\ (devices[d].bars[b].valid
                    => devices[d].bars[b].base = Address(devices[d].fn, b))'
    BY <1>1, <2>1, <2>2
  <2> QED BY <1>1, <1>9, <2>2, <2>3 DEF Recorded
<1>15. AllReal'
  <2>1. ASSUME NEW f \in Present, NEW b \in Starts(f)
        PROVE  Real(f, b, Address(f, b))'
    <3>1. CASE f = F /\ b = B
      BY <1>1, <1>4, <1>6, <1>7, <1>8, <3>1 DEF Real, Is64, R, Address
    <3>2. CASE ~(f = F /\ b = B)
      <4>1. Real(f, b, Address(f, b))
        BY <1>1, <3>2 DEF PcieInv, AllReal
      <4> QED BY <1>1, <1>10, <3>2, <4>1 DEF Real
    <3> QED BY <3>1, <3>2
  <2> QED BY <1>1, <1>8, <1>9, <2>1 DEF AllReal, Starts
<1>16. WindowsApart'
  <2>1. /\ drv.new \in Nat /\ drv.new <= next /\ next \in Nat
    <3>1. Bar.size \in Nat /\ drv.new \in Nat /\ next = drv.new + Bar.size
      BY <1>2, <1>3 DEF PcieInv, MoveOK, BarType, DrvType
    <3> QED BY <3>1
  <2>2. \A m \in moved : Window(m)' = Window(m) /\ Window(m).end <= next
    <3>1. ASSUME NEW m \in moved
          PROVE  Window(m)' = Window(m) /\ Window(m).end <= next
      <4>1. Window(m)' = Window(m)
        BY <1>1 DEF Window
      <4>2. /\ Window(m).end <= drv.new /\ m \in (DOMAIN devices) \X Bars
            /\ devices[m[1]].bars[m[2]].valid
        BY <1>2, <1>3 DEF PcieInv, WindowsApart
      <4>3. Window(m).end \in Nat
        BY <1>2, <1>3, <4>2, WindowIs
      <4> QED BY <2>1, <4>1, <4>2, <4>3
    <3> QED BY <3>1
  <2> QED BY <1>1, <1>8, <1>9, <2>2 DEF PcieInv, WindowsApart
<1> QED BY <1>11, <1>12, <1>13, <1>14, <1>15, <1>16 DEF PcieInv

\* The register holds the new address: its entry gets it, and decoding goes on.
LEMMA VerifiedKeeps ==
  ASSUME PcieInv, Verified
  PROVE  PcieInv'
<1> DEFINE nb    == [Bar EXCEPT !.base = drv.new]
           nbars == [D.bars EXCEPT ![B] = nb]
           ne    == [D EXCEPT !.bars = nbars]
<1>1. /\ drv.pc = "verify" /\ Address(F, B) = drv.new
      /\ devices' = [devices EXCEPT ![drv.dev].bars[B].base = drv.new]
      /\ decode' = [decode EXCEPT ![F] = drv.command]
      /\ moved' = moved \cup {<<drv.dev, B>>}
      /\ Advance
      /\ UNCHANGED <<hw, firmware, reg, capacity, next, granted>>
  BY DEF Verified, Moved, bump
<1>2. Moving
  BY <1>1 DEF Moving
<1>3. /\ drv.dev \in DOMAIN devices /\ F = D.fn /\ Bar.valid /\ Bar \in BarType
      /\ F \in Present /\ F \in DOMAIN hw /\ B \in Bars /\ B \in Starts(F)
      /\ hw \in Hardware /\ TypeOK /\ Stable /\ Enumerated /\ Recorded
      /\ drv \in DrvType /\ devices \in Seq(EntryType)
      /\ Describes(Bar, F, B) /\ R.kind # "high"
  BY <1>2, MovingIs
<1>4. /\ Bar.size \in Nat /\ drv.new \in Nat /\ next = drv.new + Bar.size
      /\ next \in Nat /\ drv.new <= next /\ HoleStart <= drv.new
      /\ \E g \in granted : g.base = drv.new
  <2>1. Bar.size \in Nat /\ drv.new \in Nat
    BY <1>3 DEF BarType, DrvType
  <2>2. /\ next = drv.new + Bar.size /\ HoleStart <= drv.new
        /\ \E g \in granted : g.base = drv.new
    BY <1>2 DEF PcieInv, MoveOK
  <2> QED BY <2>1, <2>2
<1>5. /\ Len(devices) \in Nat /\ drv.dev <= Len(devices) /\ drv.dev \in Nat
      /\ D \in EntryType
  BY <1>3 DEF D
<1>6. D.bars \in Seq(BarType) /\ Len(D.bars) = NBars /\ B \in DOMAIN D.bars
  <2>1. Len(D.bars) = NBars
    BY <1>3 DEF Recorded, D
  <2>2. D.bars \in Seq(BarType)
    BY <1>5 DEF EntryType
  <2> QED BY <1>3, <2>1, <2>2, Widths DEF Bars
<1>7. nb \in BarType /\ nb.base = drv.new /\ nb.valid = Bar.valid
        /\ nb.is64 = Bar.is64
      /\ nb.size = Bar.size
  BY <1>3, <1>4 DEF BarType
<1>8. nbars \in Seq(BarType) /\ Len(nbars) = NBars /\ nbars[B] = nb
      /\ \A b \in Bars : b # B => nbars[b] = D.bars[b]
  <2> HIDE DEF nb
  <2> QED BY <1>6, <1>7, Widths DEF Bars
<1>9. ne \in EntryType /\ ne.fn = D.fn /\ ne.bars = nbars
  <2> HIDE DEF nbars
  <2> QED BY <1>5, <1>8 DEF EntryType
<1>10. devices' = [devices EXCEPT ![drv.dev] = ne]
  BY <1>1 DEF D, Bar
<1> HIDE DEF nb, nbars, ne
<1>11. /\ devices' \in Seq(EntryType) /\ DOMAIN devices' = DOMAIN devices
       /\ Len(devices') = Len(devices) /\ devices'[drv.dev] = ne
       /\ \A d \in DOMAIN devices : d # drv.dev => devices'[d] = devices[d]
  BY <1>3, <1>9, <1>10
<1>12. ASSUME NEW d \in DOMAIN devices
       PROVE  /\ devices'[d].fn = devices[d].fn
              /\ Len(devices'[d].bars) = NBars
              /\ \A b \in Bars : ~(d = drv.dev /\ b = B) =>
                   devices'[d].bars[b] = devices[d].bars[b]
  <2>1. CASE d = drv.dev
    BY <1>8, <1>9, <1>11, <2>1 DEF D
  <2>2. CASE d # drv.dev
    BY <1>3, <1>11, <2>2 DEF Recorded
  <2> QED BY <2>1, <2>2
<1>13. devices'[drv.dev].bars[B] = nb
  BY <1>8, <1>9, <1>11
<1>14. /\ drv' \in DrvType /\ drv'.pc = "remap" /\ drv'.bars = drv.bars
       /\ B' \in Bars /\ drv'.dev <= Len(devices) + 1
       /\ \A d, b \in Nat : d < drv.dev \/ (d = drv.dev /\ b <= B)
                              => d < drv'.dev \/ (d = drv'.dev /\ b < B')
  BY <1>1, <1>3, <1>5, AdvanceIs
<1>15. /\ ~Scanning /\ ~Scanning' /\ ~Probing /\ ~Probing' /\ ~Moving'
       /\ Present' = Present
  BY <1>1, <1>14 DEF Scanning, Probing, Moving, Present
<1>16. TypeOK' /\ Stable' /\ AtRegister' /\ Saved' /\ Untouched'
  BY <1>1, <1>3, <1>11, <1>14, <1>15 DEF TypeOK, Stable, AtRegister, Saved,
     Untouched
<1>17. DecodeOK'
  <2>1. /\ drv.command = firmware.decode[F]
        /\ decode = [firmware.decode EXCEPT ![F] = FALSE]
        /\ firmware.decode \in [DOMAIN hw -> BOOLEAN]
    BY <1>2, <1>3 DEF PcieInv, DecodeOK, TypeOK
  <2> QED BY <1>1, <1>3, <1>15, <2>1 DEF DecodeOK
<1>18. Enumerated'
  <2>1. {devices'[d].fn : d \in DOMAIN devices'} = {devices[d].fn : d \in DOMAIN devices}
    BY <1>11, <1>12
  <2>2. \A d, e \in DOMAIN devices' : d < e => devices'[d].fn < devices'[e].fn
    BY <1>3, <1>11, <1>12 DEF Enumerated
  <2> QED BY <1>1, <1>3, <1>11, <1>14, <1>15, <2>1, <2>2 DEF Enumerated
<1>19. Recorded'
  <2>1. ASSUME NEW d \in DOMAIN devices, NEW b \in Bars
        PROVE  /\ Describes(devices'[d].bars[b], devices[d].fn, b)
               /\ devices'[d].bars[b].valid =>
                    devices'[d].bars[b].base = Address(devices[d].fn, b)
    <3>1. CASE d = drv.dev /\ b = B
      <4>1. Describes(nb, F, B)
        BY <1>3, <1>7 DEF Describes
      <4> QED BY <1>1, <1>3, <1>7, <1>13, <3>1, <4>1 DEF D
    <3>2. CASE ~(d = drv.dev /\ b = B)
      BY <1>3, <1>12, <1>15, <3>2 DEF Recorded
    <3> QED BY <3>1, <3>2
  <2>2. ASSUME NEW d \in DOMAIN devices', NEW b \in Bars
        PROVE  /\ Describes(devices'[d].bars[b], devices'[d].fn, b)
               /\ devices'[d].bars[b].valid =>
                    devices'[d].bars[b].base = Address(devices'[d].fn, b)
    BY <1>11, <1>12, <2>1
  <2>3. hw' = hw /\ reg' = reg
    BY <1>1
  <2> QED BY <1>11, <1>12, <1>15, <2>2, <2>3 DEF Recorded, Describes, Address
<1>20. AllReal'
  <2>1. ASSUME NEW f \in Present, NEW b \in Starts(f)
        PROVE  Real(f, b, Address(f, b))'
    <3>1. CASE f = F /\ b = B
      BY <1>1, <1>4, <3>1 DEF Real, Address
    <3>2. CASE ~(f = F /\ b = B)
      BY <1>1, <3>2 DEF PcieInv, AllReal, Real, Address
    <3> QED BY <3>1, <3>2
  <2> QED BY <1>1, <1>15, <2>1 DEF AllReal, Starts
<1>21. MoveOK'
  BY <1>11, <1>14, <1>15 DEF MoveOK
<1>22. WindowsApart'
  <2> DEFINE here   == <<drv.dev, B>>
             win(m) ==
               LET b == devices'[m[1]].bars[m[2]].base
               IN [base |-> b, end |-> b + hw[devices'[m[1]].fn][m[2]].size]
  <2>1. ASSUME NEW m \in moved
        PROVE  /\ m \in (DOMAIN devices) \X Bars /\ m[1] \in Nat /\ m[2] \in Nat
               /\ m[1] < drv.dev \/ (m[1] = drv.dev /\ m[2] < B)
               /\ win(m) = Window(m) /\ devices'[m[1]].bars[m[2]].valid
               /\ HoleStart <= Window(m).base /\ Window(m).end <= drv.new
               /\ Window(m).end \in Nat /\ m # here
    <3>1. /\ m \in (DOMAIN devices) \X Bars /\ devices[m[1]].bars[m[2]].valid
          /\ m[1] < drv.dev \/ (m[1] = drv.dev /\ m[2] < B)
          /\ HoleStart <= Window(m).base /\ Window(m).end <= drv.new
      BY <1>1, <1>2 DEF PcieInv, WindowsApart
    <3>2. Window(m).end \in Nat /\ m[1] \in Nat /\ m[2] \in Nat
      BY <1>3, <3>1, WindowIs
    <3>3. ~(m[1] = drv.dev /\ m[2] = B)
      BY <1>3, <1>5, <3>1, <3>2 DEF Bars
    <3>4. devices'[m[1]].bars[m[2]] = devices[m[1]].bars[m[2]]
          /\ devices'[m[1]].fn = devices[m[1]].fn
      BY <1>12, <3>1, <3>3
    <3>5. win(m) = Window(m)
      BY <3>4 DEF Window
    <3> QED BY <3>1, <3>2, <3>3, <3>4, <3>5
  <2>2. /\ here \in (DOMAIN devices) \X Bars /\ here[1] = drv.dev /\ here[2] = B
        /\ devices'[drv.dev].bars[B].valid
    BY <1>3, <1>7, <1>13
  <2>3. /\ win(here).base = drv.new /\ win(here).end <= next
    <3>1. R.size <= Bar.size /\ R.size \in Nat
      BY <1>3, HardwareIs DEF Describes, R, Registers
    <3>2. win(here) = [base |-> drv.new, end |-> drv.new + R.size]
      BY <1>3, <1>7, <1>12, <1>13, <2>2 DEF R, D
    <3> QED BY <1>4, <3>1, <3>2
  <2> HIDE DEF here, win
  <2>4. moved' = moved \cup {here}
    BY <1>1 DEF here
  <2>5. ASSUME NEW m \in moved'
        PROVE  /\ m \in (DOMAIN devices') \X Bars
               /\ devices'[m[1]].bars[m[2]].valid
               /\ m[1] < drv'.dev \/ (m[1] = drv'.dev /\ m[2] < B')
               /\ HoleStart <= win(m).base /\ win(m).end <= next'
    <3>1. CASE m \in moved
      <4>1. win(m).end <= next'
        <5>1. win(m).end \in Nat /\ win(m).end <= drv.new /\ next' = next
          BY <1>1, <2>1, <3>1
        <5> QED BY <1>4, <5>1
      <4>2. m[1] < drv.dev \/ (m[1] = drv.dev /\ m[2] <= B)
        BY <1>3, <2>1, <3>1 DEF Bars
      <4>3. m[1] < drv'.dev \/ (m[1] = drv'.dev /\ m[2] < B')
        BY <1>14, <2>1, <3>1, <4>2
      <4> QED BY <1>11, <2>1, <3>1, <4>1, <4>3
    <3>2. CASE m = here
      <4>1. drv.dev \in Nat /\ B \in Nat /\ B <= B
        BY <1>3, <1>5 DEF Bars
      <4>2. drv.dev < drv'.dev \/ (drv.dev = drv'.dev /\ B < B')
        BY <1>14, <4>1
      <4> QED BY <1>1, <1>4, <1>11, <2>2, <2>3, <3>2, <4>2
    <3> QED BY <2>4, <3>1, <3>2
  <2>6. ASSUME NEW m \in moved', NEW n \in moved', m # n
        PROVE  win(m).end <= win(n).base \/ win(n).end <= win(m).base
    <3>1. CASE m \in moved /\ n \in moved
      BY <2>1, <2>6, <3>1 DEF PcieInv, WindowsApart
    <3>2. CASE m \in moved /\ n = here
      BY <2>1, <2>3, <3>2
    <3>3. CASE m = here /\ n \in moved
      BY <2>1, <2>3, <3>3
    <3> QED BY <2>4, <2>6, <3>1, <3>2, <3>3
  <2>7. \A m : Window(m)' = win(m)
    BY <1>1 DEF Window, win
  <2> QED BY <1>14, <1>15, <2>5, <2>6, <2>7 DEF WindowsApart
<1> QED BY <1>16, <1>17, <1>18, <1>19, <1>20, <1>21, <1>22 DEF PcieInv

\* Nothing is left to move.
LEMMA RemapDoneKeeps ==
  ASSUME PcieInv, RemapDone
  PROVE  PcieInv'
<1>1. /\ drv.pc = "remap" /\ drv' = [drv EXCEPT !.pc = "done"]
      /\ UNCHANGED <<hw, firmware, reg, decode, devices, capacity, moved, next, granted>>
  BY DEF RemapDone, bump
<1>2. /\ drv' \in DrvType /\ drv'.pc = "done" /\ drv'.bars = drv.bars
  <2>1. drv \in DrvType
    BY DEF PcieInv, TypeOK
  <2> QED BY <1>1, <2>1 DEF DrvType
<1>3. /\ ~Scanning /\ ~Scanning' /\ ~Probing /\ ~Probing' /\ ~Moving /\ ~Moving'
      /\ Present' = Present
  BY <1>1, <1>2 DEF Scanning, Probing, Moving, Present
<1>4. /\ TypeOK' /\ DecodeOK' /\ Stable' /\ Saved' /\ Untouched' /\ AtRegister'
      /\ Enumerated' /\ MoveOK'
  BY <1>1, <1>2, <1>3
     DEF PcieInv, TypeOK, DecodeOK, Stable, Saved, Untouched, AtRegister, Enumerated,
         MoveOK
<1>5. Recorded'
  BY <1>1, <1>3 DEF PcieInv, Recorded, Describes, FirmAddress, Address
<1>6. AllReal'
  BY <1>1, <1>2, <1>3 DEF PcieInv, AllReal, Real, Address, Starts
<1>7. WindowsApart'
  <2>1. \A m \in moved : Window(m)' = Window(m)
    BY <1>1 DEF Window
  <2> QED BY <1>1, <1>2, <1>3, <2>1 DEF PcieInv, WindowsApart
<1> QED BY <1>4, <1>5, <1>6, <1>7 DEF PcieInv

-----------------------------------------------------------------------------
(* The theorems                                                            *)

LEMMA InitPcie == Init => PcieInv
<1> SUFFICES ASSUME Init PROVE PcieInv
  OBVIOUS
<1>1. /\ hw \in Hardware /\ decode \in [DOMAIN hw -> BOOLEAN]
      /\ reg = [f \in DOMAIN hw |-> [b \in DOMAIN hw[f] |-> hw[f][b].base]]
      /\ firmware = [reg |-> reg, decode |-> decode]
      /\ devices = <<>> /\ capacity = FirstSize /\ moved = {}
      /\ next = HoleStart
      /\ hw \in Seq(Seq(Registers))
  BY HardwareAssumption DEF Init, Bump!Init
<1>2. firmware.reg = reg /\ firmware.decode = decode
  BY <1>1
<1>3. /\ drv \in DrvType /\ drv.pc = "bar" /\ F = 1 /\ B = 1
      /\ drv.was64 = FALSE
      /\ drv.bars = <<>>
  <2>1. /\ drv = [pc |-> "bar", fn |-> 1, bar |-> 1, was64 |-> FALSE, bars |-> <<>>,
                  low |-> 0, high |-> 0, maskLow |-> 0, maskHigh |-> 0,
                  command |-> FALSE, dev |-> 1, new |-> 0]
    BY DEF Init
  <2>2. 1 \in 1 .. NBars + 1 /\ 1 \in Nat \ {0} /\ <<>> \in Seq(BarType)
    BY Widths
  <2> QED BY <2>1, <2>2 DEF DrvType, F, B
<1>4. Scanning /\ ~Probing /\ ~Moving
  BY <1>3 DEF Scanning, Probing, Moving
<1>5. ASSUME NEW f \in Present
      PROVE  /\ reg[f] \in [Bars -> Values]
             /\ \A b \in Bars : Kept(hw[f][b], reg[f][b]) = reg[f][b]
  <2>1. reg[f] = [b \in Bars |-> hw[f][b].base]
    BY <1>1, HardwareIs DEF Present
  <2>2. \A b \in Bars : /\ hw[f][b].base \in Values
                        /\ Kept(hw[f][b], hw[f][b].base) = hw[f][b].base
    BY <1>1, HardwareIs DEF Registers, RealRegister, Values
  <2> QED BY <2>1, <2>2
<1>6. TypeOK
  <2>1. HoleStart \in HoleStart .. HoleStart + HoleSize
    BY Widths
  <2>2. capacity \in Nat /\ devices \in Seq(EntryType)
    BY <1>1, PcieAssumption
  <2> QED BY <1>1, <1>2, <1>3, <1>5, <2>1, <2>2 DEF TypeOK
<1>7. AtRegister
  <2>1. F \in Present => R.kind # "high"
    BY <1>1, <1>3, FirstNotHigh DEF R
  <2> QED BY <1>3, <1>4, <2>1 DEF AtRegister
<1>8. DecodeOK /\ Stable /\ Saved /\ Untouched
  BY <1>2, <1>3, <1>4, <1>5 DEF DecodeOK, Stable, Saved, Untouched
<1>9. Enumerated
  <2>1. {f \in Present : f < 1} = {} /\ 1 <= Len(hw) + 1 /\ 1 .. 1 - 1 = {}
    BY <1>1 DEF Present
  <2>2. DOMAIN devices = {} /\ Len(devices) = 0 /\ Len(drv.bars) = 1 - 1
          /\ 0 <= FirstSize
    BY <1>1, <1>3, PcieAssumption
  <2> QED BY <1>1, <1>3, <1>4, <2>1, <2>2 DEF Enumerated
<1>10. Recorded
  BY <1>1 DEF Recorded
<1>11. AllReal /\ MoveOK /\ WindowsApart
  BY <1>4, <1>6, <1>7, <1>8, <1>9, ScanRest
<1> QED BY <1>6, <1>7, <1>8, <1>9, <1>10, <1>11 DEF PcieInv

LEMMA StepPcie == PcieInv /\ [Next]_vars => PcieInv'
<1> SUFFICES ASSUME PcieInv, [Next]_vars PROVE PcieInv'
  OBVIOUS
<1>1. CASE Absent
  BY <1>1, AbsentKeeps
<1>2. CASE UpperHalf
  BY <1>2, UpperHalfKeeps
<1>3. CASE Disable
  BY <1>3, DisableKeeps
<1>4. CASE WriteOnes
  BY <1>4, WriteOnesKeeps
<1>5. CASE Restore
  BY <1>5, RestoreKeeps
<1>6. CASE Enable
  BY <1>6, EnableKeeps
<1>7. CASE NextFunction
  BY <1>7, NextFunctionKeeps
<1>8. CASE ScanDone
  BY <1>8, ScanDoneKeeps
<1>9. CASE SkipBar
  BY <1>9, PassKeeps DEF SkipBar, bump
<1>10. CASE NoAddress
  <2>1. UNCHANGED <<next, granted>>
    BY <1>10 DEF NoAddress, Bump!Refuse
  <2> QED BY <1>10, <2>1, PassKeeps DEF NoAddress
<1>11. CASE Assign
  BY <1>11, AssignKeeps
<1>12. CASE WriteBar
  BY <1>12, WriteBarKeeps
<1>13. CASE Verified
  BY <1>13, VerifiedKeeps
<1>14. CASE RemapFailed
  BY <1>14, RemapFailedKeeps
<1>15. CASE RemapDone
  BY <1>15, RemapDoneKeeps
<1>16. CASE UNCHANGED vars
  <2>1. UNCHANGED <<hw, firmware, reg, decode, drv, devices, capacity, moved, next,
                    granted>>
    BY <1>16 DEF vars, bump
  <2>2. /\ Scanning' = Scanning /\ Probing' = Probing /\ Moving' = Moving
        /\ Present' = Present /\ F' = F /\ B' = B /\ R' = R /\ D' = D
        /\ Bar' = Bar
    BY <2>1 DEF Scanning, Probing, Moving, Present, F, B, R, D, Bar
  <2>3. TypeOK' /\ AtRegister' /\ DecodeOK' /\ Stable' /\ Saved' /\ Untouched'
    BY <2>1, <2>2
       DEF PcieInv, TypeOK, AtRegister, DecodeOK, Stable, Saved, Untouched
  <2>4. Enumerated' /\ Recorded'
    BY <2>1, <2>2 DEF PcieInv, Enumerated, Recorded, Describes, FirmAddress,
       Address
  <2>5. AllReal'
    BY <2>1, <2>2 DEF PcieInv, AllReal, Real, Starts, Address
  <2>6. MoveOK'
    BY <2>1, <2>2 DEF PcieInv, MoveOK, Address
  <2>7. WindowsApart'
    <3>1. \A m : Window(m)' = Window(m)
      BY <2>1 DEF Window
    <3> QED BY <2>1, <2>2, <3>1 DEF PcieInv, WindowsApart
  <2> QED BY <2>3, <2>4, <2>5, <2>6, <2>7 DEF PcieInv
<1> QED BY <1>1, <1>2, <1>3, <1>4, <1>5, <1>6, <1>7, <1>8, <1>9, <1>10, <1>11,
           <1>12,
           <1>13, <1>14, <1>15, <1>16 DEF Next

\* Every reachable state of pcie.c's scan and remapping satisfies the invariant:
\* what the driver has read and saved agrees with what the registers hold.
THEOREM PcieInvariance == Spec => []PcieInv
<1>1. Init => PcieInv
  BY InitPcie
<1>2. PcieInv /\ [Next]_vars => PcieInv'
  BY StepPcie
<1> QED BY <1>1, <1>2, PTL DEF Spec

\* A device that decodes never sees a probe value of PCIE_get_devices or a half-written
\* address of PCIE_remap_BAR.
THEOREM ProbesUnseen == Spec => []DecodesRealAddress
<1>1. PcieInv => DecodesRealAddress
  <2> SUFFICES ASSUME PcieInv, NEW f \in Present, decode[f], NEW b \in Starts(f)
               PROVE  Real(f, b, Address(f, b))
    BY DEF DecodesRealAddress, Real
  <2>1. drv.pc \in {"mask", "verify"} => f # F
    <3>1. SUFFICES ASSUME drv.pc \in {"mask", "verify"}, f = F PROVE FALSE
      OBVIOUS
    <3>2. decode = [firmware.decode EXCEPT ![F] = FALSE]
            /\ F \in DOMAIN firmware.decode
      BY <3>1 DEF PcieInv, DecodeOK, TypeOK, Probing, Moving, AtRegister,
         Present
    <3> QED BY <3>1, <3>2
  <2> QED BY <2>1 DEF PcieInv, AllReal
<1> QED BY <1>1, PcieInvariance, PTL

\* Whenever PCIE_get_devices or PCIE_remap_BAR is between two registers, every command
\* register is as it was when the driver started.
THEOREM DecodingComesBack == Spec => []DecodingRestored
<1>1. PcieInv => DecodingRestored
  BY DEF PcieInv, DecodeOK, DecodingRestored, Probing, Moving
<1> QED BY <1>1, PcieInvariance, PTL

\* PCIE_get_devices lists exactly the functions that answer, in their order, and writes
\* no entry past the end of its array.
THEOREM EnumerationComplete == Spec => []AllEnumerated
<1>1. PcieInv => AllEnumerated
  BY DEF PcieInv, Enumerated, AllEnumerated, Scanning, Probing
<1> QED BY <1>1, PcieInvariance, PTL

\* RecordedBarsReal: the addresses that PCIE_get_devices and PCIE_remap_BAR record are
\* those that the registers hold; the sizes are those of the hardware for 32-bit and
\* 64-bit memory and 32-bit I/O, and just so much too large for 16-bit I/O.
THEOREM RecordsTrue == Spec => []RecordedBarsReal
<1>1. PcieInv => RecordedBarsReal
  <2> SUFFICES ASSUME PcieInv, drv.pc \in {"remap", "done", "halted"},
                      NEW d \in DOMAIN devices, NEW b \in Bars
               PROVE  LET r == hw[devices[d].fn][b]  bar == devices[d].bars[b] IN
                      /\ bar.valid => bar.base = Address(devices[d].fn, b)
                      /\ r.kind \in {"mem32", "mem64", "io"} =>
                           bar.valid /\ bar.size = r.size
                      /\ r.kind = "io16" => bar.valid /\ bar.size = r.size + (W - IoTop)
                      /\ r.kind = "fixed" =>
                           bar.size = (W - r.base) % W /\ (bar.valid <=> r.base # 0)
                      /\ r.kind \in {"none", "high", "reserved"} => ~bar.valid
    BY DEF RecordedBarsReal
  <2>1. ~Scanning /\ ~Moving
    BY DEF Scanning, Probing, Moving
  <2>2. Describes(devices[d].bars[b], devices[d].fn, b)
    BY DEF PcieInv, Recorded
  <2> QED BY <2>1, <2>2 DEF PcieInv, Recorded, Describes
<1> QED BY <1>1, PcieInvariance, PTL

\* PCIE_remap_BAR moves registers to addresses that pass its own checks, and no two
\* windows that it moved overlap or leave the hole.
THEOREM MovedWindowsApart == Spec => []MovedApart
<1>1. PcieInv => AddressAcceptable
  <2> SUFFICES ASSUME PcieInv, Moving
               PROVE  drv.new % Bar.size = 0 /\ drv.new + Bar.size < W
    BY DEF AddressAcceptable, Moving, Bar
  <2>1. drv.new % Bar.size = 0 /\ next = drv.new + Bar.size
        /\ next \in HoleStart .. HoleStart + HoleSize
    BY DEF PcieInv, MoveOK, TypeOK
  <2> QED BY <2>1, Widths
<1>2. ASSUME PcieInv, NEW m \in moved
      PROVE  /\ Window(m).base = Address(devices[m[1]].fn, m[2])
             /\ Window(m).end = Window(m).base + hw[devices[m[1]].fn][m[2]].size
             /\ HoleStart <= Window(m).base
             /\ Window(m).end <= HoleStart + HoleSize
  <2>1. /\ m \in (DOMAIN devices) \X Bars /\ devices[m[1]].bars[m[2]].valid
        /\ Moving => m[1] < drv.dev \/ (m[1] = drv.dev /\ m[2] < B)
        /\ HoleStart <= Window(m).base
        /\ Window(m).end <= IF Moving THEN drv.new ELSE next
    BY <1>2 DEF PcieInv, WindowsApart, Moving
  <2>2. m[1] \in Nat /\ m[2] \in Nat /\ Window(m).end \in Nat
    BY <1>2, <2>1, WindowIs DEF PcieInv
  <2>3. ~Scanning
    BY <1>2 DEF PcieInv, Enumerated
  <2>4. ~(Moving /\ m[1] = drv.dev /\ m[2] = B)
    <3>1. Moving => drv.dev \in Nat /\ B \in Nat
      BY <1>2, MovingIs DEF Bars, DrvType
    <3> QED BY <2>1, <2>2, <3>1
  <2>5. Window(m).base = Address(devices[m[1]].fn, m[2])
    BY <1>2, <2>1, <2>3, <2>4 DEF PcieInv, Recorded, Window
  <2>6. Moving => drv.new \in Nat /\ drv.new <= next
    <3>1. SUFFICES ASSUME Moving PROVE drv.new \in Nat /\ drv.new <= next
      OBVIOUS
    <3>2. Bar.size \in Nat /\ drv.new \in Nat
      BY <1>2, <3>1, MovingIs DEF BarType, DrvType
    <3>3. next = drv.new + Bar.size
      BY <1>2, <3>1 DEF PcieInv, MoveOK
    <3> QED BY <3>2, <3>3
  <2>7. next \in Nat /\ next <= HoleStart + HoleSize
    BY <1>2, Widths DEF PcieInv, TypeOK
  <2> QED BY <2>1, <2>2, <2>5, <2>6, <2>7, Widths DEF Window
<1>3. PcieInv => MovedApart
  <2> SUFFICES ASSUME PcieInv PROVE MovedApart
    OBVIOUS
  <2>1. ASSUME NEW m \in moved, NEW n \in moved, m # n
        PROVE  Window(m).end <= Window(n).base
          \/ Window(n).end <= Window(m).base
    BY <2>1 DEF PcieInv, WindowsApart
  <2> HIDE DEF PcieInv
  <2> QED BY <1>1, <1>2, <2>1 DEF MovedApart
<1> QED BY <1>3, PcieInvariance, PTL

\* When PCIE_get_devices starts to move registers, every register is as firmware
\* left it.
THEOREM EnumerationLeavesNoTrace == Spec => SizingUndone
<1>1. PcieInv /\ [Next]_vars => [ScanDone => reg = firmware.reg]_vars
  BY DEF PcieInv, Untouched, Scanning, ScanDone
<1> QED BY <1>1, PcieInvariance, PTL DEF Spec, SizingUndone

-----------------------------------------------------------------------------
(* The component bus                                                       *)

\* The loop over the devices, one by one.
LEMMA FilledIs ==
  ASSUME Len(devices) \in Nat, NEW wanted
  PROVE  Filled(wanted) = [n \in 0 .. Len(devices) |->
           IF n = 0 THEN NothingYet
           ELSE IF n \in wanted THEN Put(Filled(wanted)[n - 1], n)
           ELSE Filled(wanted)[n - 1]]
<1> DEFINE Step(x, n) == IF n \in wanted THEN Put(x, n) ELSE x
           Body(f, m) == [n \in 0 .. m |->
                            IF n = 0 THEN NothingYet ELSE Step(f[n - 1], n)]
           T == {m \in 0 .. Len(devices) : ~ \E f : f = Body(f, m)}
<1>0. \A f : Body(f, Len(devices)) =
        [n \in 0 .. Len(devices) |->
           IF n = 0 THEN NothingYet
           ELSE IF n \in wanted THEN Put(f[n - 1], n)
           ELSE f[n - 1]]
  OBVIOUS
<1> HIDE DEF Step
<1>1. ASSUME T # {} PROVE FALSE
  <2>1. PICK m \in T : \A y \in T : m <= y
    <3>1. T \subseteq Nat
      OBVIOUS
    <3> HIDE DEF T
    <3> QED BY <1>1, <3>1, LeastNat
  <2>2. m \in 0 .. Len(devices) /\ ~ \E f : f = Body(f, m)
    OBVIOUS
  <2>3. CASE m = 0
    <3> DEFINE f == [n \in 0 .. 0 |-> NothingYet]
    <3>1. f = Body(f, 0)
      OBVIOUS
    <3> QED BY <2>2, <2>3, <3>1
  <2>4. CASE m # 0
    <3>1. m - 1 \in 0 .. Len(devices) /\ m - 1 \notin T
      BY <2>1, <2>2, <2>4
    <3>2. PICK f : f = Body(f, m - 1)
      BY <3>1
    <3> DEFINE g == [n \in 0 .. m |-> IF n = m THEN Step(f[m - 1], m) ELSE f[n]]
    <3>3. ASSUME NEW n \in 0 .. m
          PROVE  g[n] = IF n = 0 THEN NothingYet ELSE Step(g[n - 1], n)
      <4>1. CASE n = m
        BY <2>2, <2>4, <4>1
      <4>2. CASE n # m
        <5>1. n \in 0 .. m - 1 /\ g[n] = f[n] /\ (n # 0 => g[n - 1] = f[n - 1])
          BY <2>2, <4>2
        <5>2. f[n] = IF n = 0 THEN NothingYet ELSE Step(f[n - 1], n)
          BY <3>2, <5>1
        <5> HIDE DEF g
        <5> QED BY <5>1, <5>2
      <4> QED BY <4>1, <4>2
    <3>4. g = Body(g, m)
      BY <3>3
    <3> QED BY <2>2, <3>4
  <2> QED BY <2>3, <2>4
<1>2. Len(devices) \notin T
  BY <1>1
<1>3. \E f : f = Body(f, Len(devices))
  BY <1>2
<1> HIDE DEF T, Body
<1>4. \E f : f = [n \in 0 .. Len(devices) |->
           IF n = 0 THEN NothingYet
           ELSE IF n \in wanted THEN Put(f[n - 1], n)
           ELSE f[n - 1]]
  BY <1>0, <1>3
<1> QED BY <1>4 DEF Filled

\* The first a.idx entries are the devices up to n that are wanted, in order.
Collected(a, n, wanted) ==
  /\ a.idx \in Nat /\ a.ret \in Seq(Nat) /\ a.idx <= Len(a.ret)
  /\ \A i \in 1 .. a.idx : a.ret[i] \in wanted /\ a.ret[i] <= n
  /\ \A i, j \in 1 .. a.idx : i < j => a.ret[i] < a.ret[j]
  /\ \A k \in wanted : k <= n => \E i \in 1 .. a.idx : a.ret[i] = k

LEMMA PutKeeps ==
  ASSUME NEW a, NEW wanted \in SUBSET Nat, NEW n \in wanted, n > 0,
         Collected(a, n - 1, wanted)
  PROVE  Collected(Put(a, n), n, wanted)
<1> DEFINE more == [k \in 1 .. AnswerGrows |-> Unset]
           grown == IF Full(a) THEN a.ret \o more ELSE a.ret
           put == [k \in DOMAIN grown |-> IF k = a.idx + 1 THEN n ELSE grown[k]]
<1>1. a.idx \in Nat /\ a.ret \in Seq(Nat) /\ a.idx <= Len(a.ret)
  BY DEF Collected
<1>2. AnswerGrows \in Nat \ {0}
  BY BusAssumption
<1>3. more \in Seq(Nat) /\ Len(more) = AnswerGrows
  BY <1>2 DEF Unset
<1> HIDE DEF more
<1>4. a.ret \o more \in Seq(Nat) /\ Len(a.ret \o more) = Len(a.ret) + AnswerGrows
      /\ \A i \in 1 .. Len(a.ret) : (a.ret \o more)[i] = a.ret[i]
  <2> DEFINE s == a.ret
  <2>1. s \in Seq(Nat)
    BY <1>1
  <2> HIDE DEF s
  <2>2. s \o more \in Seq(Nat)
    BY <1>3, <2>1
  <2>3. Len(s \o more) = Len(s) + AnswerGrows
    BY <1>3, <2>1
  <2>4. \A i \in 1 .. Len(s) : (s \o more)[i] = s[i]
    BY <1>3, <2>1
  <2> QED BY <2>2, <2>3, <2>4 DEF s
<1>5. /\ grown \in Seq(Nat) /\ a.idx + 1 <= Len(grown)
      /\ \A i \in 1 .. a.idx : grown[i] = a.ret[i]
  BY <1>1, <1>2, <1>4 DEF Full
<1> HIDE DEF grown
<1>6. /\ put \in Seq(Nat) /\ Len(put) = Len(grown)
      /\ \A i \in 1 .. a.idx : put[i] = a.ret[i]
      /\ put[a.idx + 1] = n
  <2>1. DOMAIN grown = 1 .. Len(grown) /\ Len(grown) \in Nat
        /\ \A i \in 1 .. Len(grown) : grown[i] \in Nat
    BY <1>5
  <2>2. DOMAIN put = 1 .. Len(grown)
    BY <2>1
  <2>3. \A i \in 1 .. Len(grown) : put[i] \in Nat
    BY <2>1
  <2>4. put \in [1 .. Len(grown) -> Nat]
    BY <2>1, <2>3
  <2>5. put \in Seq(Nat) /\ Len(put) = Len(grown)
    <3> HIDE DEF put
    <3> QED BY <2>1, <2>4
  <2>6. a.idx + 1 \in DOMAIN grown /\ 1 .. a.idx \subseteq DOMAIN grown
    BY <1>1, <1>5, <2>1
  <2>7. \A i \in 1 .. a.idx : i # a.idx + 1
    BY <1>1
  <2> QED BY <1>1, <1>5, <2>5, <2>6, <2>7
<1>7. Put(a, n) = [idx |-> a.idx + 1, ret |-> put]
  BY DEF Put, grown, more
<1> HIDE DEF put
<1> DEFINE b == Put(a, n)
<1>8. b.idx = a.idx + 1 /\ b.ret = put
  BY <1>7
<1> HIDE DEF b
<1>9. \A i \in 1 .. b.idx : i \in 1 .. a.idx \/ i = a.idx + 1
  BY <1>1, <1>8
<1>10. \A i \in 1 .. b.idx : b.ret[i] \in wanted /\ b.ret[i] <= n
  <2> SUFFICES ASSUME NEW i \in 1 .. b.idx PROVE b.ret[i] \in wanted /\ b.ret[i] <= n
    OBVIOUS
  <2>1. CASE i \in 1 .. a.idx
    <3>1. a.ret[i] \in wanted /\ a.ret[i] <= n - 1 /\ a.ret[i] \in Nat
      BY <2>1 DEF Collected
    <3> QED BY <1>6, <1>8, <2>1, <3>1
  <2>2. CASE i = a.idx + 1
    BY <1>6, <1>8, <2>2
  <2> QED BY <1>9, <2>1, <2>2
<1>11. \A i, j \in 1 .. b.idx : i < j => b.ret[i] < b.ret[j]
  <2> SUFFICES ASSUME NEW i \in 1 .. b.idx, NEW j \in 1 .. b.idx, i < j
               PROVE  b.ret[i] < b.ret[j]
    OBVIOUS
  <2>1. i \in 1 .. a.idx
    BY <1>1, <1>8
  <2>2. a.ret[i] <= n - 1 /\ a.ret[i] \in Nat
    BY <2>1 DEF Collected
  <2>3. j \in 1 .. a.idx => a.ret[i] < a.ret[j]
    BY <2>1 DEF Collected
  <2> QED BY <1>6, <1>8, <1>9, <2>1, <2>2, <2>3
<1>12. \A k \in wanted : k <= n => \E i \in 1 .. b.idx : b.ret[i] = k
  <2> SUFFICES ASSUME NEW k \in wanted, k <= n PROVE \E i \in 1 .. b.idx : b.ret[i] = k
    OBVIOUS
  <2>1. CASE k = n
    BY <1>1, <1>6, <1>8, <2>1
  <2>2. CASE k <= n - 1
    <3>1. PICK i \in 1 .. a.idx : a.ret[i] = k
      BY <2>2 DEF Collected
    <3>2. i \in 1 .. b.idx
      BY <1>1, <1>8
    <3> QED BY <1>6, <1>8, <3>1, <3>2
  <2> QED BY <2>1, <2>2
<1> QED BY <1>1, <1>5, <1>6, <1>8, <1>10, <1>11, <1>12 DEF Collected, b

\* component_bus_get_devices fills the array with what is wanted, in order.
LEMMA FilledRight ==
  ASSUME Len(devices) \in Nat, NEW wanted \in SUBSET (1 .. Len(devices))
  PROVE  Collected(Filled(wanted)[Len(devices)], Len(devices), wanted)
<1> DEFINE a(n) == Filled(wanted)[n]
           T == {n \in 0 .. Len(devices) : ~Collected(a(n), n, wanted)}
<1>1. \A n \in 0 .. Len(devices) :
        a(n) = IF n = 0 THEN NothingYet
               ELSE IF n \in wanted THEN Put(a(n - 1), n) ELSE a(n - 1)
  BY FilledIs
<1>2. ASSUME T # {} PROVE FALSE
  <2>1. PICK n \in T : \A y \in T : n <= y
    <3>1. T \subseteq Nat
      OBVIOUS
    <3> HIDE DEF T
    <3> QED BY <1>2, <3>1, LeastNat
  <2>2. n \in 0 .. Len(devices) /\ ~Collected(a(n), n, wanted)
    OBVIOUS
  <2>3. CASE n = 0
    <3>1. a(n) = NothingYet
      BY <1>1, <2>2, <2>3
    <3>2. FirstAnswer \in Nat
      BY BusAssumption
    <3>3. [k \in 1 .. FirstAnswer |-> Unset] \in Seq(Nat)
      BY <3>2 DEF Unset
    <3>4. NothingYet.idx = 0 /\ NothingYet.ret \in Seq(Nat)
      BY <3>3 DEF NothingYet
    <3>5. 0 <= Len(NothingYet.ret)
      BY <3>4
    <3>6. \A k \in wanted : ~(k <= 0)
      OBVIOUS
    <3>7. Collected(NothingYet, 0, wanted)
      BY <3>4, <3>5, <3>6 DEF Collected
    <3> HIDE DEF a
    <3> QED BY <2>2, <2>3, <3>1, <3>7
  <2>4. CASE n # 0
    <3>1. n - 1 \in 0 .. Len(devices) /\ n - 1 \notin T
      BY <2>1, <2>2, <2>4
    <3> HIDE DEF a
    <3>2. Collected(a(n - 1), n - 1, wanted)
      BY <3>1
    <3>3. CASE n \in wanted
      <4>1. a(n) = Put(a(n - 1), n)
        BY <1>1, <2>2, <2>4, <3>3
      <4>2. wanted \in SUBSET Nat /\ n > 0
        BY <2>2, <2>4
      <4> QED BY <2>2, <3>2, <3>3, <4>1, <4>2, PutKeeps
    <3>4. CASE n \notin wanted
      <4>1. a(n) = a(n - 1)
        BY <1>1, <2>2, <2>4, <3>4
      <4>2. \A k \in wanted : k <= n <=> k <= n - 1
        BY <2>2, <3>4
      <4>3. \A i \in 1 .. a(n - 1).idx : a(n - 1).ret[i] <= n
        <5>1. \A i \in 1 .. a(n - 1).idx :
                a(n - 1).ret[i] <= n - 1 /\ a(n - 1).ret[i] \in Nat
          BY <3>2 DEF Collected
        <5> QED BY <2>2, <5>1
      <4>4. Collected(a(n - 1), n, wanted)
        BY <3>2, <4>2, <4>3 DEF Collected
      <4> QED BY <2>2, <4>1, <4>4
    <3> QED BY <3>3, <3>4
  <2> QED BY <2>3, <2>4
<1>3. Len(devices) \notin T
  BY <1>2
<1> QED BY <1>3

\* The answer is wanted, in order.
LEMMA AnswerIs ==
  ASSUME Len(devices) \in Nat, NEW wanted \in SUBSET (1 .. Len(devices))
  PROVE  /\ Answer(wanted) \in Seq(wanted)
         /\ \A i, j \in DOMAIN Answer(wanted) :
              i < j => Answer(wanted)[i] < Answer(wanted)[j]
         /\ \A k \in wanted : \E i \in DOMAIN Answer(wanted) : Answer(wanted)[i] = k
<1> DEFINE a == Filled(wanted)[Len(devices)]
           ret == Answer(wanted)
<1>1. Collected(a, Len(devices), wanted)
  BY FilledRight
<1>2. ret = IF Len(a.ret) > a.idx THEN SubSeq(a.ret, 1, a.idx) ELSE a.ret
  BY DEF Answer
<1> HIDE DEF a, ret
<1>3. a.idx \in Nat /\ a.ret \in Seq(Nat) /\ a.idx <= Len(a.ret)
  BY <1>1 DEF Collected
<1>4. DOMAIN ret = 1 .. a.idx /\ (\A i \in 1 .. a.idx : ret[i] = a.ret[i])
      /\ ret \in Seq(Nat) /\ Len(ret) = a.idx
  <2>1. CASE Len(a.ret) > a.idx
    <3> DEFINE s == a.ret
    <3>1. s \in Seq(Nat) /\ a.idx <= Len(s)
      BY <1>3
    <3>2. ret = SubSeq(s, 1, a.idx)
      BY <1>2, <2>1
    <3> HIDE DEF s
    <3>3. ret \in Seq(Nat) /\ Len(ret) = a.idx
      BY <1>3, <3>1, <3>2
    <3>4. \A i \in 1 .. a.idx : ret[i] = s[i]
      BY <1>3, <3>1, <3>2
    <3> QED BY <3>3, <3>4 DEF s
  <2>2. CASE Len(a.ret) = a.idx
    BY <1>2, <1>3, <2>2
  <2> QED BY <1>3, <2>1, <2>2
<1>5. \A i \in 1 .. Len(ret) : ret[i] \in wanted
  BY <1>1, <1>4 DEF Collected
<1>6. ret \in Seq(wanted)
  BY <1>4, <1>5
<1>7. \A i, j \in DOMAIN ret : i < j => ret[i] < ret[j]
  BY <1>1, <1>4 DEF Collected
<1>8. \A k \in wanted : \E i \in DOMAIN ret : ret[i] = k
  BY <1>1, <1>4 DEF Collected
<1> QED BY <1>6, <1>7, <1>8 DEF ret

\* Only a finished enumeration is asked, and then nothing changes any more.
LEMMA DoneIsLast == Next => drv.pc # "done"
<1> SUFFICES ASSUME Next PROVE drv.pc # "done"
  OBVIOUS
<1>1. CASE Absent \/ UpperHalf \/ Disable \/ NextFunction \/ ScanDone
  BY <1>1 DEF Absent, UpperHalf, Disable, NextFunction, ScanDone, AtBar
<1>2. CASE WriteOnes \/ Restore \/ Enable
  BY <1>2 DEF WriteOnes, Restore, Enable
<1>3. CASE SkipBar \/ NoAddress \/ Assign \/ RemapDone
  BY <1>3 DEF SkipBar, NoAddress, Assign, RemapDone, AtRemap
<1>4. CASE WriteBar \/ Verified \/ RemapFailed
  BY <1>4 DEF WriteBar, Verified, Moved, RemapFailed
<1> QED BY <1>1, <1>2, <1>3, <1>4 DEF Next

BusInv ==
  /\ PcieInv
  /\ answer # NoAnswer => drv.pc = "done"
  /\ Filtered

LEMMA AskedKeeps ==
  ASSUME BusInv, NEW codes \in [DOMAIN hw -> Codes], NEW want \in Codes,
         NEW ex \in BOOLEAN, Asks(codes, want, ex)
  PROVE  BusInv'
<1> DEFINE wanted == {n \in DOMAIN devices : Matches(codes, want, ex, devices[n].fn)}
           ret == Answer(wanted)
<1>1. /\ drv.pc = "done" /\ UNCHANGED vars
      /\ answer' = [asked |-> TRUE, codes |-> codes, want |-> want, ex |-> ex,
                    ret |-> ret]
  BY DEF Asks
<1>2. devices \in Seq(EntryType) /\ ~Scanning
  BY <1>1 DEF BusInv, PcieInv, TypeOK, Scanning, Probing
<1>3. /\ {devices[e].fn : e \in DOMAIN devices} = Present
      /\ \A d, e \in DOMAIN devices : d < e => devices[d].fn < devices[e].fn
  BY <1>2 DEF BusInv, PcieInv, Enumerated
<1>4. Len(devices) \in Nat /\ DOMAIN devices = 1 .. Len(devices)
      /\ wanted \in SUBSET (1 .. Len(devices))
  BY <1>2
<1> HIDE DEF wanted
<1>5. /\ ret \in Seq(wanted)
      /\ \A i, j \in DOMAIN ret : i < j => ret[i] < ret[j]
      /\ \A k \in wanted : \E i \in DOMAIN ret : ret[i] = k
  BY <1>4, AnswerIs
<1> HIDE DEF ret
<1>6. \A i \in DOMAIN ret : ret[i] \in wanted
  BY <1>5
<1>7. /\ answer'.codes = codes /\ answer'.want = want /\ answer'.ex = ex
      /\ answer'.ret = ret
      /\ devices' = devices /\ hw' = hw /\ drv' = drv
  BY <1>1 DEF vars
<1>8. PcieInv'
  BY <1>1, StepPcie DEF BusInv
<1> DEFINE asked(f) ==
             /\ hw[f] # <<>>
             /\ codes[f].class = want.class
             /\ codes[f].subclass = want.subclass
             /\ ~ex \/ codes[f].prog_if = want.prog_if
<1>9. Range(ret) \subseteq DOMAIN devices
  BY <1>4, <1>6 DEF Range
<1>10. {devices[ret[i]].fn : i \in DOMAIN ret} = {f \in DOMAIN hw : asked(f)}
  <2>1. ASSUME NEW i \in DOMAIN ret
        PROVE  devices[ret[i]].fn \in {f \in DOMAIN hw : asked(f)}
    <3>1. ret[i] \in DOMAIN devices /\ Matches(codes, want, ex, devices[ret[i]].fn)
      BY <1>6 DEF wanted
    <3>2. devices[ret[i]].fn \in Present
      BY <1>3, <3>1
    <3> QED BY <3>1, <3>2 DEF Present, Matches
  <2>2. ASSUME NEW f \in DOMAIN hw, asked(f)
        PROVE  \E i \in DOMAIN ret : devices[ret[i]].fn = f
    <3>1. f \in Present
      BY <2>2 DEF Present
    <3>2. PICK n \in DOMAIN devices : devices[n].fn = f
      BY <1>3, <3>1
    <3>3. n \in wanted
      BY <2>2, <3>2 DEF wanted, Matches
    <3> QED BY <1>5, <3>2, <3>3
  <2> QED BY <2>1, <2>2
<1>11. \A i, j \in DOMAIN ret : i < j => devices[ret[i]].fn < devices[ret[j]].fn
  BY <1>3, <1>5, <1>6, <1>9 DEF wanted
<1>12. Filtered'
  BY <1>7, <1>9, <1>10, <1>11 DEF Filtered
<1>13. (answer # NoAnswer => drv.pc = "done")'
  BY <1>1, <1>7
<1> QED BY <1>8, <1>12, <1>13 DEF BusInv

LEMMA BusStep == BusInv /\ [BusNext]_busVars => BusInv'
<1> SUFFICES ASSUME BusInv, [BusNext]_busVars PROVE BusInv'
  OBVIOUS
<1>1. CASE Next /\ UNCHANGED answer
  <2>1. PcieInv'
    BY <1>1, StepPcie DEF BusInv
  <2>2. answer = NoAnswer
    BY <1>1, DoneIsLast DEF BusInv
  <2> QED BY <1>1, <2>1, <2>2 DEF BusInv, Filtered
<1>2. CASE UNCHANGED busVars
  <2>1. UNCHANGED <<vars, answer, drv, devices, hw>>
    BY <1>2 DEF busVars, vars
  <2>2. PcieInv'
    BY <2>1, StepPcie DEF BusInv
  <2> QED BY <2>1, <2>2 DEF BusInv, Filtered
<1>3. ASSUME NEW codes \in [DOMAIN hw -> Codes], NEW want \in Codes,
             GetDevices(codes, want) \/ GetDevicesEX(codes, want)
      PROVE  BusInv'
  BY <1>3, AskedKeeps DEF GetDevices, GetDevicesEX
<1> QED BY <1>1, <1>2, <1>3 DEF BusNext

\* The invariant of PCIE_get_devices holds beside the drivers that ask the bus, and
\* only a finished enumeration is asked.
THEOREM BusInvariance == BusSpec => []BusInv
<1>1. BusInit => BusInv
  BY InitPcie DEF BusInit, BusInv, Filtered
<1>2. BusInv /\ [BusNext]_busVars => BusInv'
  BY BusStep
<1> QED BY <1>1, <1>2, PTL DEF BusSpec

\* component_bus_get_devices and its EX form answer with exactly the functions that
\* have the codes asked for, in bus order, however many there are.
THEOREM QueriesExact == BusSpec => []Filtered
<1>1. BusInv => Filtered
  BY DEF BusInv
<1> QED BY <1>1, BusInvariance, PTL
=============================================================================
