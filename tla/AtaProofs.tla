------------------------------ MODULE AtaProofs ------------------------------
(***************************************************************************)
(* Proofs about the ATA driver on channels of prompt drives, for every     *)
(* number of channels, every machine, every size of register and every set *)
(* of addresses.  Nothing is shown of channels with a slow drive, on which *)
(* the driver promises nothing but to return.                              *)
(***************************************************************************)
EXTENDS Ata, AlignmentProofs, TLAPS

-----------------------------------------------------------------------------
(* The inductive invariant                                                 *)

States == {"idle", "busy", "drq", "err"}
Bytes  == {"count", "low", "mid", "high"}

\* The accesses of the call in progress, all of them, and how many were made.
All  == Outs(call.op, call.slot, call.lba)
Done == Len(All) - Len(call.outs)

Calling    == call.op # "none"
Mine(s)    == Calling /\ call.slot = s
Written(s) == Mine(s) /\ call.pc # "out"

TypeOK ==
  /\ machine \in Machines
  /\ DOMAIN regs = Channels
  /\ \A c \in Channels :
       /\ <<c, regs[c].drive.sub>> \in AllSlots
       /\ DOMAIN regs[c] = {"drive"} \cup Bytes
       /\ \A b \in Bytes : DOMAIN regs[c][b] = {1, 2}
  /\ DOMAIN drive = AllSlots
  /\ \A s \in AllSlots :
       /\ DOMAIN drive[s] = {"st", "cmd", "lba", "more", "data", "disk"}
       /\ drive[s].st \in States
  /\ DOMAIN device = AllSlots
  /\ DOMAIN shadow = AllSlots
  /\ wrapped \subseteq AllSlots

CallOK ==
  Calling =>
    /\ DOMAIN call = {"op", "pc", "slot", "lba", "data", "outs", "polls"}
    /\ call.op \in {"identify", "read", "write"}
    /\ call.pc \in {"out", "wait"} \cup States
    /\ call.slot \in AllSlots
    /\ call.op = "identify" => call.lba = 0 /\ device[call.slot] = NoDevice
    /\ call.op # "identify" =>
         call.lba \in Lbas /\ device[call.slot].type = "DISK_ATA"

\* The accesses that are left are the last ones.
OutsLeft ==
  Calling /\ call.pc = "out" =>
    /\ call.outs \in Seq(Range(All)) /\ 0 < Len(call.outs) /\ Len(call.outs) <= Len(All)
    /\ \A k \in 1 .. Len(call.outs) : call.outs[k] = All[Done + k]

\* What the first n accesses leave in the registers r: the last byte written to each
\* and the one before.
Holding(r, W, n) ==
  /\ n > 0 => r.drive = W[1].val
  /\ \A j \in 2 .. n :
       (\A i \in j + 1 .. n : W[i].reg # W[j].reg) => r[W[j].reg][1] = W[j].val
  /\ \A j, k \in 2 .. n :
       /\ j < k /\ W[j].reg = W[k].reg
       /\ \A i \in j + 1 .. n : i # k => W[i].reg # W[j].reg
       => r[W[j].reg][2] = W[j].val

\* On a channel of prompt drives no access is ignored.
RegsOK ==
  Calling /\ Prompt(call.slot) =>
    /\ call.pc = "out" => Holding(regs[call.slot[1]], All, Done)
    /\ call.pc # "out" => Selected = call.slot

\* The address sent is the one asked for.
Exact(s) == machine[s].lba48 \/ call.lba < machine[s].capacity

\* What the drive at s was sent.
Sent(s) ==
  /\ drive[s].cmd = call.op /\ ~drive[s].more
  /\ call.op # "identify" /\ Exact(s) => drive[s].lba = call.lba

\* What holds of a drive without faults: it works only on the command of the call in
\* progress, or commits the last write.
DriveOK(s) ==
  LET v == drive[s]  m == machine[s] IN
  /\ m.kind = "none" => v.st = "idle"
  /\ v.st = "busy" =>
       \/ Mine(s) /\ call.pc = "wait" /\ Sent(s)
       \/ v.cmd = "commit" /\ ~Written(s)
  /\ v.st = "drq" =>
       /\ Mine(s) /\ call.pc \in {"wait", "drq"} /\ Sent(s)
       /\ m.kind = "disk" /\ (call.op # "identify" => ~(v.lba >= m.capacity))
  /\ v.st = "err" /\ Written(s) =>
       /\ call.pc \in {"wait", "err"}
       /\ m.kind = "packet" \/ (call.op # "identify" /\ Sent(s) /\ v.lba >= m.capacity)
  /\ Written(s) =>
       /\ m.kind # "none" => v.st # "idle"
       /\ call.pc # "wait" => call.pc = v.st

\* The sectors as they are once the drive is done.
Settled(s) ==
  IF drive[s].st = "busy" /\ drive[s].cmd = "commit"
    THEN Put(drive[s].disk, drive[s].lba, drive[s].data)
    ELSE drive[s].disk

\* A disk has, or will have, what acknowledged writes should have left on it.
ContentOK(s) ==
  s \notin wrapped =>
    \A lba \in 0 .. machine[s].capacity - 1 :
      Sector(Settled(s), lba) = Sector(shadow[s], lba)

AtaInv ==
  /\ TypeOK /\ CallOK /\ OutsLeft /\ RegsOK
  /\ \A s \in AllSlots : Reliable(s) => DriveOK(s) /\ ContentOK(s)
  /\ FoundAreReal
  /\ ReadsSeeWrites

-----------------------------------------------------------------------------
(* The digits of an address                                                *)

\* Dividing by b once more is dividing by w * b.
LEMMA DivAgain ==
  ASSUME NEW n \in Nat, NEW w \in Nat \ {0}, NEW b \in Nat \ {0}
  PROVE  (n \div w) \div b = n \div (w * b)
<1> DEFINE q == n \div w  p == (n \div w) \div b  m == w * b
<1>1. q \in Nat /\ q * w <= n /\ n < q * w + w
  BY DivBracket
<1>2. p \in Nat /\ p * b <= q /\ q < p * b + b
  BY <1>1, DivBracket
<1>3. m \in Nat \ {0}
  OBVIOUS
<1> HIDE DEF p, q
<1>4. /\ (p * b) * w <= q * w
      /\ (q + 1) * w <= (p * b + b) * w
  <2>1. p * b \in Nat /\ b \in Nat /\ q + 1 <= p * b + b
    BY <1>1, <1>2
  <2> DEFINE x == p * b  y == p * b + b
  <2>2. x \in Nat /\ y \in Nat /\ x <= q /\ q + 1 <= y
    BY <1>1, <1>2, <2>1
  <2> HIDE DEF x, y
  <2>3. x * w <= q * w /\ (q + 1) * w <= y * w
    BY <1>1, <2>2
  <2> QED BY <2>3 DEF x, y
<1>5. p * m <= n /\ n < p * m + m
  <2>1. (p * b) * w = p * m /\ (p * b + b) * w = p * m + m /\ (q + 1) * w = q * w + w
    BY <1>1, <1>2
  <2> QED BY <1>1, <1>2, <1>3, <1>4, <2>1
<1> DEFINE e == n \div m
<1>6. e \in Nat /\ e * m <= n /\ n < e * m + m
  BY <1>3, DivBracket
<1> HIDE DEF e, m
<1>7. p = e
  <2>1. p * m < (e + 1) * m /\ e * m < (p + 1) * m
    BY <1>2, <1>3, <1>5, <1>6
  <2>2. p < e + 1 /\ e < p + 1
    BY <1>2, <1>3, <1>6, <2>1
  <2> QED BY <1>2, <1>6, <2>2
<1> QED BY <1>7 DEF e, m, p

\* The number of an address that is left above its first k digits.
Above(lba, k) == lba \div Weight[k + 1]

\* A digit is what is lost when the next one is reached.
LEMMA Digits ==
  ASSUME NEW lba \in 0 .. Weight[5] - 1
  PROVE  /\ \A k \in 0 .. 3 :
              /\ Above(lba, k) \in Nat
              /\ Digit(lba, k) \in 0 .. Byte - 1
              /\ Above(lba, k) = Above(lba, k + 1) * Byte + Digit(lba, k)
         /\ Above(lba, 0) = lba /\ Above(lba, 4) = 0
         /\ Digit(lba, 4) = 0 /\ Digit(lba, 5) = 0
<1>1. Byte \in Nat \ {0, 1}
  BY AtaAssumption
<1>2. Byte * Byte > 0 /\ Byte * Byte * Byte > 0 /\ Byte * Byte * Byte * Byte > 0
  <2> DEFINE x == Byte * Byte  y == x * Byte
  <2>1. x \in Nat /\ x > 0
    BY <1>1
  <2> HIDE DEF x
  <2>2. y \in Nat /\ y > 0
    BY <1>1, <2>1
  <2> HIDE DEF y
  <2>3. y * Byte > 0
    BY <1>1, <2>2
  <2> QED BY <2>1, <2>2, <2>3 DEF x, y
<1>3. \A k \in 1 .. 5 : Weight[k] \in Nat \ {0}
  BY <1>1, <1>2 DEF Weight
<1>4. \A k \in 1 .. 5 : Weight[k + 1] = Weight[k] * Byte
  BY <1>1 DEF Weight
<1>5. Weight[1] = 1
  BY DEF Weight
<1>6. Weight[6] \in Nat \ {0}
  <2> DEFINE x == Weight[5]
  <2>1. x \in Nat \ {0} /\ Weight[6] = x * Byte
    BY <1>3, <1>4
  <2> HIDE DEF x
  <2> QED BY <1>1, <2>1
<1>7. lba \in Nat /\ lba < Weight[5]
  BY <1>3
<1>8. ASSUME NEW k \in 0 .. 4
      PROVE  /\ Above(lba, k) \in Nat
             /\ Above(lba, k + 1) = Above(lba, k) \div Byte
             /\ Digit(lba, k) = Above(lba, k) % Byte
  <2>1. k + 1 \in 1 .. 5
    OBVIOUS
  <2> DEFINE w == Weight[k + 1]
  <2>2. w \in Nat \ {0} /\ Weight[k + 2] = w * Byte
    BY <1>3, <1>4, <2>1
  <2> HIDE DEF w
  <2>3. lba \div w \in Nat
    BY <1>7, <2>2, DivBracket
  <2>4. (lba \div w) \div Byte = lba \div (w * Byte)
    BY <1>1, <1>7, <2>2, DivAgain
  <2> QED BY <2>2, <2>3, <2>4 DEF w, Above, Digit
<1>9. Above(lba, 0) = lba
  BY <1>5, <1>7 DEF Above
<1>10. Above(lba, 4) = 0 /\ Digit(lba, 4) = 0
  <2> DEFINE w == Weight[5]
  <2>1. w \in Nat \ {0} /\ lba < w
    BY <1>3, <1>7
  <2> HIDE DEF w
  <2>2. lba \div w = 0
    BY <1>7, <2>1
  <2>3. Above(lba, 4) = 0
    BY <2>2 DEF w, Above
  <2> QED BY <1>1, <1>8, <2>3
<1>11. Digit(lba, 5) = 0
  <2> DEFINE w == Weight[6]
  <2>1. w \in Nat \ {0}
    BY <1>6
  <2>2. Above(lba, 5) = 0
    BY <1>1, <1>8, <1>10
  <2>3. lba \div w = 0
    BY <2>2 DEF Above
  <2> HIDE DEF w
  <2>4. 0 % Byte = 0
    BY <1>1
  <2> QED BY <2>3, <2>4 DEF w, Digit
<1>12. ASSUME NEW k \in 0 .. 3
       PROVE  /\ Above(lba, k) \in Nat
              /\ Digit(lba, k) \in 0 .. Byte - 1
              /\ Above(lba, k) = Above(lba, k + 1) * Byte + Digit(lba, k)
  <2> DEFINE a == Above(lba, k)
  <2>1. a \in Nat /\ Above(lba, k + 1) = a \div Byte /\ Digit(lba, k) = a % Byte
    BY <1>8
  <2> HIDE DEF a
  <2>2. a % Byte \in 0 .. Byte - 1 /\ a = (a \div Byte) * Byte + (a % Byte)
    BY <1>1, <2>1
  <2> QED BY <2>1, <2>2 DEF a
<1> QED BY <1>9, <1>10, <1>11, <1>12

\* The digits count up to the address again.
LEMMA DigitsCountUp ==
  ASSUME NEW lba \in 0 .. Weight[5] - 1
  PROVE  lba = Digit(lba, 0) + Digit(lba, 1) * Weight[2] + Digit(lba, 2) * Weight[3]
                 + Digit(lba, 3) * Weight[4]
<1> DEFINE d0 == Digit(lba, 0)  d1 == Digit(lba, 1)  d2 == Digit(lba, 2)
           d3 == Digit(lba, 3)  a1 == Above(lba, 1)  a2 == Above(lba, 2)
           a3 == Above(lba, 3)  b == Byte
<1>1. /\ {d0, d1, d2, d3, a1, a2, a3, b} \subseteq Nat
      /\ lba = a1 * b + d0 /\ a1 = a2 * b + d1 /\ a2 = a3 * b + d2 /\ a3 = d3
  <2>1. Byte \in Nat
    BY AtaAssumption
  <2>2. \A k \in 0 .. 3 : Digit(lba, k) \in Nat /\ Above(lba, k) \in Nat
    BY <2>1, Digits
  <2>3. {d0, d1, d2, d3, a1, a2, a3, b} \subseteq Nat
    BY <2>1, <2>2
  <2>4. lba = a1 * b + d0 /\ a1 = a2 * b + d1 /\ a2 = a3 * b + d2
    BY Digits
  <2>5. a3 = 0 * b + d3
    BY Digits
  <2> HIDE DEF d0, d1, d2, d3, a1, a2, a3, b
  <2> QED BY <2>3, <2>4, <2>5
<1> HIDE DEF d0, d1, d2, d3, a1, a2, a3
<1>2. a1 * b = d1 * b + d2 * (b * b) + d3 * (b * b * b)
  <2> HIDE DEF b
  <2>1. a2 = d3 * b + d2
    BY <1>1
  <2>2. a2 * b = d3 * b * b + d2 * b
    BY <1>1, <2>1
  <2>3. a1 = d3 * b * b + d2 * b + d1
    BY <1>1, <2>2
  <2> QED BY <1>1, <2>3
<1>3. lba = d0 + d1 * Weight[2] + d2 * Weight[3] + d3 * Weight[4]
  BY <1>1, <1>2 DEF Weight
<1> QED BY <1>3 DEF d0, d1, d2, d3

\* The digit that the drive register's low half keeps is a whole one, for a sector
\* that a disk with 28-bit addresses has.
LEMMA TopDigit ==
  ASSUME NEW lba \in 0 .. Weight[5] - 1, lba < Nibble * Weight[4]
  PROVE  Digit(lba, 3) % Nibble = Digit(lba, 3)
<1> DEFINE a == Above(lba, 3)  w == Weight[4]
<1>1. Byte \in Nat \ {0, 1} /\ Nibble \in Nat \ {0, 1}
  BY AtaAssumption
<1>2. w \in Nat \ {0}
  <2> DEFINE x == Byte * Byte
  <2>1. x \in Nat /\ x > 0
    BY <1>1
  <2> HIDE DEF x
  <2>2. x * Byte \in Nat /\ x * Byte > 0
    BY <1>1, <2>1
  <2> QED BY <2>2 DEF x, Weight
<1>3. a = Digit(lba, 3) /\ a \in Nat
  <2>1. Above(lba, 3) = 0 * Byte + Digit(lba, 3) /\ Above(lba, 3) \in Nat
    BY Digits
  <2>2. Digit(lba, 3) \in Nat
    BY <1>1, Digits
  <2> QED BY <1>1, <2>1, <2>2
<1>4. lba \in Nat /\ a = lba \div w
  BY DEF Above, Weight
<1>5. lba < Nibble * w
  OBVIOUS
<1> HIDE DEF w, a
<1>6. a * w <= lba
  BY <1>2, <1>4, DivBracket
<1>7. a * w < Nibble * w
  BY <1>1, <1>2, <1>3, <1>4, <1>5, <1>6
<1>8. a < Nibble
  BY <1>1, <1>2, <1>3, <1>7
<1>9. a % Nibble = a
  BY <1>1, <1>3, <1>8
<1> QED BY <1>3, <1>9

-----------------------------------------------------------------------------
(* The accesses of a call                                                  *)

\* What Append does, for any sequence.
Appended(w, c) ==
  LET W == Append(w, c) IN
  /\ W \in Seq(Range(W))
  /\ Len(W) = Len(w) + 1
  /\ \A k \in 1 .. Len(w) : W[k] = w[k]
  /\ W[Len(w) + 1] = c

LEMMA AppendIs ==
  ASSUME NEW w, NEW c, w \in Seq(Range(w))
  PROVE  Appended(w, c)
<1> DEFINE S == Range(w) \cup {c}  W == Append(w, c)
<1>1. w \in Seq(S) /\ c \in S
  OBVIOUS
<1> HIDE DEF S
<1>2. /\ W \in Seq(S) /\ Len(W) = Len(w) + 1
      /\ \A k \in 1 .. Len(w) : W[k] = w[k]
      /\ W[Len(w) + 1] = c
  BY <1>1
<1> HIDE DEF W
<1>3. DOMAIN W = 1 .. Len(W) /\ Len(W) \in Nat
  BY <1>2
<1>4. W \in Seq(Range(W))
  BY <1>2, <1>3 DEF Range
<1> QED BY <1>2, <1>4 DEF Appended, W

\* IDENTIFY takes two accesses.
LEMMA OutsIdentify ==
  ASSUME NEW s, NEW lba
  PROVE  /\ Len(Outs("identify", s, lba)) = 2
         /\ Outs("identify", s, lba)[1] = Select(s, 0)
         /\ Outs("identify", s, lba)[2] = Out("cmd", [op |-> "identify", ext |-> FALSE])
BY DEF Outs

\* A transfer with 48 bits of address takes ten.
TenAccesses(op, s, lba) ==
  LET W == Outs(op, s, lba) IN
  /\ Len(W) = 10
  /\ W[1] = Select(s, 0) /\ W[2] = Out("count", 0)
  /\ W[3] = Out("low", Digit(lba, 3)) /\ W[4] = Out("mid", Digit(lba, 4))
  /\ W[5] = Out("high", Digit(lba, 5)) /\ W[6] = Out("count", 1)
  /\ W[7] = Out("low", Digit(lba, 0)) /\ W[8] = Out("mid", Digit(lba, 1))
  /\ W[9] = Out("high", Digit(lba, 2))
  /\ W[10] = Out("cmd", [op |-> op, ext |-> device[s].lba48])

LEMMA OutsExt ==
  ASSUME NEW op, op # "identify", NEW s, NEW lba, device[s].lba48
  PROVE  TenAccesses(op, s, lba)
<1> DEFINE w == OutsLba48(s, lba)  c == Out("cmd", [op |-> op, ext |-> device[s].lba48])
<1>1. Outs(op, s, lba) = Append(w, c)
  BY DEF Outs
<1>2. /\ Len(w) = 9
      /\ w[1] = Select(s, 0) /\ w[2] = Out("count", 0)
      /\ w[3] = Out("low", Digit(lba, 3)) /\ w[4] = Out("mid", Digit(lba, 4))
      /\ w[5] = Out("high", Digit(lba, 5)) /\ w[6] = Out("count", 1)
      /\ w[7] = Out("low", Digit(lba, 0)) /\ w[8] = Out("mid", Digit(lba, 1))
      /\ w[9] = Out("high", Digit(lba, 2))
  BY DEF OutsLba48
<1>3. w \in Seq(Range(w))
  BY DEF OutsLba48, Range
<1> HIDE DEF w, c
<1>4. /\ Len(Append(w, c)) = 10 /\ \A k \in 1 .. 9 : Append(w, c)[k] = w[k]
      /\ Append(w, c)[10] = c
  <2>1. Appended(w, c)
    BY <1>3, AppendIs
  <2> QED BY <1>2, <2>1 DEF Appended
<1> QED BY <1>1, <1>2, <1>4 DEF c, TenAccesses

\* One with 28 bits takes six.
SixAccesses(op, s, lba) ==
  LET W == Outs(op, s, lba) IN
  /\ Len(W) = 6
  /\ W[1] = Select(s, Digit(lba, 3) % Nibble) /\ W[2] = Out("count", 1)
  /\ W[3] = Out("low", Digit(lba, 0)) /\ W[4] = Out("mid", Digit(lba, 1))
  /\ W[5] = Out("high", Digit(lba, 2))
  /\ W[6] = Out("cmd", [op |-> op, ext |-> device[s].lba48])

LEMMA OutsPlain ==
  ASSUME NEW op, op # "identify", NEW s, NEW lba, ~device[s].lba48
  PROVE  SixAccesses(op, s, lba)
<1> DEFINE w == OutsLba28(s, lba)  c == Out("cmd", [op |-> op, ext |-> device[s].lba48])
<1>1. Outs(op, s, lba) = Append(w, c)
  BY DEF Outs
<1>2. /\ Len(w) = 5
      /\ w[1] = Select(s, Digit(lba, 3) % Nibble) /\ w[2] = Out("count", 1)
      /\ w[3] = Out("low", Digit(lba, 0)) /\ w[4] = Out("mid", Digit(lba, 1))
      /\ w[5] = Out("high", Digit(lba, 2))
  BY DEF OutsLba28
<1>3. w \in Seq(Range(w))
  BY DEF OutsLba28, Range
<1> HIDE DEF w, c
<1>4. /\ Len(Append(w, c)) = 6 /\ \A k \in 1 .. 5 : Append(w, c)[k] = w[k]
      /\ Append(w, c)[6] = c
  <2>1. Appended(w, c)
    BY <1>3, AppendIs
  <2> QED BY <1>2, <2>1 DEF Appended
<1> QED BY <1>1, <1>2, <1>4 DEF c, SixAccesses

\* The first access selects the drive, the last one is the command, and those between
\* write a byte each.
AccessesOf(op, s, lba) ==
  LET W == Outs(op, s, lba) IN
  /\ W \in Seq(Range(W)) /\ Len(W) \in Nat /\ Len(W) > 1
  /\ W[1].reg = "drive" /\ W[1].val.sub = s[2]
  /\ \A k \in 2 .. Len(W) - 1 : W[k].reg \in Bytes
  /\ W[Len(W)].reg = "cmd" /\ W[Len(W)].val.op = op

LEMMA AccessesAre ==
  ASSUME NEW op, NEW s, NEW lba
  PROVE  AccessesOf(op, s, lba)
<1> DEFINE W == Outs(op, s, lba)
<1>1. W \in Seq(Range(W))
  <2>1. CASE op = "identify"
    BY <2>1 DEF Outs, Range
  <2>2. CASE op # "identify"
    <3> DEFINE w == IF device[s].lba48 THEN OutsLba48(s, lba) ELSE OutsLba28(s, lba)
               c == Out("cmd", [op |-> op, ext |-> device[s].lba48])
    <3>1. W = Append(w, c)
      BY <2>2 DEF Outs
    <3>2. /\ OutsLba28(s, lba) \in Seq(Range(OutsLba28(s, lba)))
          /\ OutsLba48(s, lba) \in Seq(Range(OutsLba48(s, lba)))
      BY DEF OutsLba28, OutsLba48, Range
    <3>3. w \in Seq(Range(w))
      BY <3>2
    <3> HIDE DEF w, c
    <3> QED BY <3>1, <3>3, AppendIs DEF Appended
  <2> QED BY <2>1, <2>2
<1>2. /\ Len(W) \in Nat /\ Len(W) > 1
      /\ W[1].reg = "drive" /\ W[1].val.sub = s[2]
      /\ \A k \in 2 .. Len(W) - 1 : W[k].reg \in Bytes
      /\ W[Len(W)].reg = "cmd" /\ W[Len(W)].val.op = op
  <2>1. CASE op = "identify"
    <3> HIDE DEF W
    <3>1. Len(W) = 2 /\ W[1] = Select(s, 0) /\ W[2].reg = "cmd" /\ W[2].val.op = op
      <4>1. /\ Len(W) = 2 /\ W[1] = Select(s, 0)
            /\ W[2] = Out("cmd", [op |-> "identify", ext |-> FALSE])
        BY <2>1, OutsIdentify DEF W
      <4> QED BY <2>1, <4>1 DEF Out
    <3> QED BY <3>1 DEF Out, Select
  <2>2. CASE op # "identify" /\ device[s].lba48
    <3> HIDE DEF W
    <3>1. /\ Len(W) = 10 /\ W[1] = Select(s, 0) /\ W[2] = Out("count", 0)
          /\ W[3] = Out("low", Digit(lba, 3)) /\ W[4] = Out("mid", Digit(lba, 4))
          /\ W[5] = Out("high", Digit(lba, 5)) /\ W[6] = Out("count", 1)
          /\ W[7] = Out("low", Digit(lba, 0)) /\ W[8] = Out("mid", Digit(lba, 1))
          /\ W[9] = Out("high", Digit(lba, 2))
          /\ W[10] = Out("cmd", [op |-> op, ext |-> device[s].lba48])
      <4>1. TenAccesses(op, s, lba)
        BY <2>2, OutsExt
      <4> QED BY <4>1 DEF W, TenAccesses
    <3>2. \A k \in 2 .. 9 : k \in {2, 3, 4, 5, 6, 7, 8, 9}
      OBVIOUS
    <3>3. \A k \in 2 .. 9 : W[k].reg \in Bytes
      BY <3>1, <3>2 DEF Out, Bytes
    <3> QED BY <3>1, <3>3 DEF Out, Select
  <2>3. CASE op # "identify" /\ ~device[s].lba48
    <3> HIDE DEF W
    <3>1. /\ Len(W) = 6 /\ W[1] = Select(s, Digit(lba, 3) % Nibble)
          /\ W[2] = Out("count", 1)
          /\ W[3] = Out("low", Digit(lba, 0)) /\ W[4] = Out("mid", Digit(lba, 1))
          /\ W[5] = Out("high", Digit(lba, 2))
          /\ W[6] = Out("cmd", [op |-> op, ext |-> device[s].lba48])
      BY <2>3, OutsPlain DEF W, SixAccesses
    <3>2. \A k \in 2 .. 5 : k \in {2, 3, 4, 5}
      OBVIOUS
    <3>3. \A k \in 2 .. 5 : W[k].reg \in Bytes
      BY <3>1, <3>2 DEF Out, Bytes
    <3> QED BY <3>1, <3>3 DEF Out, Select
  <2> QED BY <2>1, <2>2, <2>3
<1> HIDE DEF W
<1>3. AccessesOf(op, s, lba) <=>
        /\ W \in Seq(Range(W)) /\ Len(W) \in Nat /\ Len(W) > 1
        /\ W[1].reg = "drive" /\ W[1].val.sub = s[2]
        /\ \A k \in 2 .. Len(W) - 1 : W[k].reg \in Bytes
        /\ W[Len(W)].reg = "cmd" /\ W[Len(W)].val.op = op
  BY DEF AccessesOf, W
<1> QED BY <1>1, <1>2, <1>3

-----------------------------------------------------------------------------
(* What the accesses leave in the registers                                *)

\* The register written gets the new byte and keeps the one it had as the one before.
Wrote(r, o) ==
  [r EXCEPT ![o.reg] = IF o.reg = "drive" THEN o.val ELSE <<o.val, @[1]>>]

RegsShape(r) ==
  /\ DOMAIN r = {"drive"} \cup Bytes
  /\ \A b \in Bytes : DOMAIN r[b] = {1, 2}

\* One access more.
HoldsOn(r, W, n) ==
  Holding(r, W, n) /\ RegsShape(r) => Holding(Wrote(r, W[n + 1]), W, n + 1)

LEMMA HoldingOn ==
  ASSUME NEW r, NEW W, NEW L \in Nat, NEW n \in 0 .. L - 1,
         W[1].reg = "drive", \A k \in 2 .. L : W[k].reg \in Bytes
  PROVE  HoldsOn(r, W, n)
<1> SUFFICES ASSUME Holding(r, W, n), RegsShape(r)
             PROVE  Holding(Wrote(r, W[n + 1]), W, n + 1)
  BY DEF HoldsOn
<1> DEFINE R == Wrote(r, W[n + 1])  m == n + 1
<1>1. m \in 1 .. L
  OBVIOUS
<1>2. CASE n = 0
  <2>1. R.drive = W[1].val
    BY <1>2 DEF Wrote, RegsShape
  <2> QED BY <1>2, <2>1 DEF Holding
<1>3. CASE n # 0
  <2>1. m \in 2 .. L /\ W[m].reg \in Bytes /\ W[m].reg # "drive"
    BY <1>3 DEF Bytes
  <2>2. R[W[m].reg] = <<W[m].val, r[W[m].reg][1]>>
    BY <2>1 DEF Wrote, RegsShape
  <2>3. \A x \in {"drive"} \cup Bytes : x # W[m].reg => R[x] = r[x]
    BY DEF Wrote, RegsShape
  <2>4. \A k \in 2 .. m : W[k].reg \in Bytes
    OBVIOUS
  <2>5. R.drive = W[1].val
    BY <1>3, <2>1, <2>3 DEF Holding
  <2> HIDE DEF R
  <2>6. ASSUME NEW j \in 2 .. m, \A i \in j + 1 .. m : W[i].reg # W[j].reg
        PROVE  R[W[j].reg][1] = W[j].val
    <3>1. CASE j = m
      BY <2>2, <3>1
    <3>2. CASE j # m
      <4>1. j \in 2 .. n /\ m \in j + 1 .. m /\ \A i \in j + 1 .. n : i \in j + 1 .. m
        BY <3>2
      <4>2. W[m].reg # W[j].reg
        BY <2>6, <4>1
      <4>3. r[W[j].reg][1] = W[j].val
        BY <2>6, <4>1 DEF Holding
      <4> QED BY <2>3, <2>4, <4>2, <4>3
    <3> QED BY <3>1, <3>2
  <2>7. ASSUME NEW j \in 2 .. m, NEW k \in 2 .. m, j < k, W[j].reg = W[k].reg,
               \A i \in j + 1 .. m : i # k => W[i].reg # W[j].reg
        PROVE  R[W[j].reg][2] = W[j].val
    <3>1. j \in 2 .. n
      BY <2>7
    <3>2. CASE k = m
      <4>1. \A i \in j + 1 .. n : i \in j + 1 .. m /\ i # k
        BY <3>2
      <4>2. r[W[j].reg][1] = W[j].val
        BY <2>7, <3>1, <4>1 DEF Holding
      <4> QED BY <2>2, <2>7, <3>2, <4>2
    <3>3. CASE k # m
      <4>1. k \in 2 .. n /\ m \in j + 1 .. m /\ \A i \in j + 1 .. n : i \in j + 1 .. m
        BY <3>1, <3>3
      <4>2. W[m].reg # W[j].reg
        BY <2>7, <3>3, <4>1
      <4>3. r[W[j].reg][2] = W[j].val
        BY <2>7, <3>1, <4>1 DEF Holding
      <4> QED BY <2>3, <2>4, <4>2, <4>3
    <3> QED BY <3>2, <3>3
  <2>8. Holding(R, W, m)
    BY <2>5, <2>6, <2>7 DEF Holding
  <2> QED BY <2>8 DEF R
<1> QED BY <1>2, <1>3

\* The accesses before the command leave the count and the address in the registers.
LEMMA HeldExt ==
  ASSUME NEW r, NEW op, op # "identify", NEW s, NEW lba \in 0 .. Weight[5] - 1,
         device[s].lba48, Holding(r, Outs(op, s, lba), 9)
  PROVE  /\ Count(r, TRUE) = 1
         /\ Address(r, TRUE) = lba
<1> DEFINE W == Outs(op, s, lba)
<1>1. TenAccesses(op, s, lba)
  BY OutsExt
<1>2. /\ W[2] = Out("count", 0)
      /\ W[3] = Out("low", Digit(lba, 3)) /\ W[4] = Out("mid", Digit(lba, 4))
      /\ W[5] = Out("high", Digit(lba, 5)) /\ W[6] = Out("count", 1)
      /\ W[7] = Out("low", Digit(lba, 0)) /\ W[8] = Out("mid", Digit(lba, 1))
      /\ W[9] = Out("high", Digit(lba, 2))
  BY <1>1 DEF W, TenAccesses
<1> HIDE DEF W
<1>3. /\ W[2].reg = "count" /\ W[3].reg = "low" /\ W[4].reg = "mid" /\ W[5].reg = "high"
      /\ W[6].reg = "count" /\ W[7].reg = "low" /\ W[8].reg = "mid" /\ W[9].reg = "high"
  BY <1>2 DEF Out
<1>4. /\ W[2].val = 0 /\ W[6].val = 1
      /\ W[3].val = Digit(lba, 3) /\ W[4].val = Digit(lba, 4) /\ W[5].val = Digit(lba, 5)
      /\ W[7].val = Digit(lba, 0) /\ W[8].val = Digit(lba, 1) /\ W[9].val = Digit(lba, 2)
  BY <1>2 DEF Out
<1>5. /\ \A j \in 2 .. 9 :
           (\A i \in j + 1 .. 9 : W[i].reg # W[j].reg) => r[W[j].reg][1] = W[j].val
      /\ \A j, k \in 2 .. 9 :
           /\ j < k /\ W[j].reg = W[k].reg
           /\ \A i \in j + 1 .. 9 : i # k => W[i].reg # W[j].reg
           => r[W[j].reg][2] = W[j].val
  BY DEF Holding, W
<1>6. \A j \in 6 .. 9 : \A i \in j + 1 .. 9 : W[i].reg # W[j].reg
  <2>1. \A i \in 7 .. 9 : i \in {7, 8, 9}
    OBVIOUS
  <2>2. \A i \in 7 .. 9 : W[i].reg # "count"
    BY <1>3, <2>1
  <2>3. \A i \in 8 .. 9 : W[i].reg # "low"
    <3>1. \A i \in 8 .. 9 : i \in {8, 9}
      OBVIOUS
    <3> QED BY <1>3, <3>1
  <2>4. \A i \in 9 .. 9 : W[i].reg # "mid"
    <3>1. \A i \in 9 .. 9 : i = 9
      OBVIOUS
    <3> QED BY <1>3, <3>1
  <2>5. \A j \in 6 .. 9 : j \in {6, 7, 8, 9}
    OBVIOUS
  <2> QED BY <1>3, <2>2, <2>3, <2>4, <2>5
<1>7. \A j \in 2 .. 5 : \A i \in j + 1 .. 9 : i # j + 4 => W[i].reg # W[j].reg
  <2>1. \A j \in 2 .. 5 : j \in {2, 3, 4, 5}
    OBVIOUS
  <2>2. \A j \in 2 .. 5 : \A i \in j + 1 .. 9 : i \in {3, 4, 5, 6, 7, 8, 9} /\ j < i
    OBVIOUS
  <2> QED BY <1>3, <2>1, <2>2
<1>8. /\ r.count[1] = 1 /\ r.low[1] = Digit(lba, 0)
      /\ r.mid[1] = Digit(lba, 1) /\ r.high[1] = Digit(lba, 2)
  <2>1. \A j \in 6 .. 9 : r[W[j].reg][1] = W[j].val
    BY <1>5, <1>6
  <2>2. {6, 7, 8, 9} \subseteq 6 .. 9
    OBVIOUS
  <2> QED BY <1>3, <1>4, <2>1, <2>2
<1>9. /\ r.count[2] = 0 /\ r.low[2] = Digit(lba, 3)
      /\ r.mid[2] = Digit(lba, 4) /\ r.high[2] = Digit(lba, 5)
  <2>1. \A j \in 2 .. 5 : W[j].reg = W[j + 4].reg
    <3>1. \A j \in 2 .. 5 : j \in {2, 3, 4, 5}
      OBVIOUS
    <3>2. /\ W[2].reg = W[2 + 4].reg /\ W[3].reg = W[3 + 4].reg
          /\ W[4].reg = W[4 + 4].reg /\ W[5].reg = W[5 + 4].reg
      BY <1>3
    <3> QED BY <3>1, <3>2
  <2>2. ASSUME NEW j \in 2 .. 5
        PROVE  r[W[j].reg][2] = W[j].val
    <3>1. j \in 2 .. 9 /\ j + 4 \in 2 .. 9 /\ j < j + 4
      OBVIOUS
    <3> QED BY <1>5, <1>7, <2>1, <3>1
  <2>3. {2, 3, 4, 5} \subseteq 2 .. 5
    OBVIOUS
  <2> QED BY <1>3, <1>4, <2>2, <2>3
<1>10. Count(r, TRUE) = 1
  BY <1>8, <1>9, AtaAssumption DEF Count
<1>11. Address(r, TRUE) = lba
  <2>1. Digit(lba, 4) = 0 /\ Digit(lba, 5) = 0
    BY Digits
  <2>2. \A k \in 1 .. 6 : Weight[k] \in Nat
    BY AtaAssumption DEF Weight
  <2>3. \A k \in 0 .. 3 : Digit(lba, k) \in Nat
    BY AtaAssumption, Digits
  <2>4. Address(r, TRUE) =
          (Digit(lba, 0) + Digit(lba, 1) * Weight[2] + Digit(lba, 2) * Weight[3])
            + (Digit(lba, 3) * Weight[4] + Digit(lba, 4) * Weight[5]
                 + Digit(lba, 5) * Weight[6])
    BY <1>8, <1>9 DEF Address
  <2>5. 0 * Weight[5] = 0 /\ 0 * Weight[6] = 0
    BY <2>2
  <2>6. /\ Digit(lba, 1) * Weight[2] \in Nat /\ Digit(lba, 2) * Weight[3] \in Nat
        /\ Digit(lba, 3) * Weight[4] \in Nat
    BY <2>2, <2>3
  <2>7. Digit(lba, 4) * Weight[5] = 0 /\ Digit(lba, 5) * Weight[6] = 0
    BY <2>1, <2>5
  <2>8. lba = Digit(lba, 0) + Digit(lba, 1) * Weight[2] + Digit(lba, 2) * Weight[3]
                + Digit(lba, 3) * Weight[4]
    BY DigitsCountUp
  <2> DEFINE x0 == Digit(lba, 0)  x1 == Digit(lba, 1) * Weight[2]
             x2 == Digit(lba, 2) * Weight[3]  x3 == Digit(lba, 3) * Weight[4]
  <2>9. {x0, x1, x2, x3} \subseteq Nat /\ lba = x0 + x1 + x2 + x3
    BY <2>3, <2>6, <2>8
  <2>10. Address(r, TRUE) = (x0 + x1 + x2) + (x3 + 0 + 0)
    BY <2>4, <2>7
  <2> HIDE DEF x0, x1, x2, x3
  <2>11. (x0 + x1 + x2) + (x3 + 0 + 0) = x0 + x1 + x2 + x3
    BY <2>9
  <2> QED BY <2>9, <2>10, <2>11, Zenon
<1> QED BY <1>10, <1>11

LEMMA HeldPlain ==
  ASSUME NEW r, NEW op, op # "identify", NEW s, NEW lba \in 0 .. Weight[5] - 1,
         ~device[s].lba48, Holding(r, Outs(op, s, lba), 5)
  PROVE  /\ Count(r, FALSE) = 1
         /\ lba < Nibble * Weight[4] => Address(r, FALSE) = lba
<1> DEFINE W == Outs(op, s, lba)
<1>1. SixAccesses(op, s, lba)
  BY OutsPlain
<1>2. /\ W[1] = Select(s, Digit(lba, 3) % Nibble) /\ W[2] = Out("count", 1)
      /\ W[3] = Out("low", Digit(lba, 0)) /\ W[4] = Out("mid", Digit(lba, 1))
      /\ W[5] = Out("high", Digit(lba, 2))
  BY <1>1 DEF W, SixAccesses
<1> HIDE DEF W
<1>3. /\ W[2].reg = "count" /\ W[3].reg = "low" /\ W[4].reg = "mid" /\ W[5].reg = "high"
      /\ W[2].val = 1 /\ W[3].val = Digit(lba, 0) /\ W[4].val = Digit(lba, 1)
      /\ W[5].val = Digit(lba, 2) /\ W[1].val.top = Digit(lba, 3) % Nibble
  BY <1>2 DEF Out, Select
<1>4. /\ r.drive = W[1].val
      /\ \A j \in 2 .. 5 :
           (\A i \in j + 1 .. 5 : W[i].reg # W[j].reg) => r[W[j].reg][1] = W[j].val
  BY DEF Holding, W
<1>5. \A j \in 2 .. 5 : \A i \in j + 1 .. 5 : W[i].reg # W[j].reg
  <2>1. \A j \in 2 .. 5 : \A i \in j + 1 .. 5 :
          j \in {2, 3, 4, 5} /\ i \in {3, 4, 5} /\ j < i
    OBVIOUS
  <2> QED BY <1>3, <2>1
<1>6. /\ r.count[1] = 1 /\ r.low[1] = Digit(lba, 0)
      /\ r.mid[1] = Digit(lba, 1) /\ r.high[1] = Digit(lba, 2)
  <2>1. \A j \in 2 .. 5 : r[W[j].reg][1] = W[j].val
    BY <1>4, <1>5
  <2>2. {2, 3, 4, 5} \subseteq 2 .. 5
    OBVIOUS
  <2> QED BY <1>3, <2>1, <2>2
<1>7. Count(r, FALSE) = 1
  BY <1>6 DEF Count
<1>8. ASSUME lba < Nibble * Weight[4]
      PROVE  Address(r, FALSE) = lba
  <2>1. r.drive.top = Digit(lba, 3)
    BY <1>3, <1>4, <1>8, TopDigit
  <2>2. \A k \in 1 .. 6 : Weight[k] \in Nat
    BY AtaAssumption DEF Weight
  <2>3. \A k \in 0 .. 3 : Digit(lba, k) \in Nat
    BY AtaAssumption, Digits
  <2>4. Address(r, FALSE) =
          (Digit(lba, 0) + Digit(lba, 1) * Weight[2] + Digit(lba, 2) * Weight[3])
            + Digit(lba, 3) * Weight[4]
    BY <1>6, <2>1 DEF Address
  <2>5. /\ Digit(lba, 1) * Weight[2] \in Nat /\ Digit(lba, 2) * Weight[3] \in Nat
        /\ Digit(lba, 3) * Weight[4] \in Nat
    BY <2>2, <2>3
  <2> QED BY <2>3, <2>4, <2>5, DigitsCountUp
<1> QED BY <1>7, <1>8

-----------------------------------------------------------------------------
(* Every step keeps the invariant                                          *)

LEMMA MachineIs ==
  ASSUME machine \in Machines, NEW s \in AllSlots
  PROVE  /\ machine[s].kind \in {"disk", "packet", "none"}
         /\ machine[s].capacity \in Nat
         /\ machine[s].lba48 \in BOOLEAN /\ machine[s].prompt \in BOOLEAN
         /\ machine[s].faulty \in BOOLEAN
         /\ machine[s].lba48 \/ machine[s].capacity <= Nibble * Weight[4]
         /\ s[1] \in Channels /\ s = <<s[1], s[2]>> /\ <<s[1], "master">> \in AllSlots
<1>1. machine[s] \in Drives
  BY MachineAssumption
<1>2. /\ machine[s].kind \in {"disk", "packet", "none"}
      /\ machine[s].capacity \in Nat
      /\ machine[s].lba48 \in BOOLEAN /\ machine[s].prompt \in BOOLEAN
      /\ machine[s].faulty \in BOOLEAN
  BY <1>1 DEF Drives
<1>3. machine[s].lba48 \/ machine[s].capacity <= Nibble * Weight[4]
  BY MachineAssumption
<1>4. s[1] \in Channels
  BY DEF Channels
<1> QED BY <1>2, <1>3, <1>4, MachineAssumption

\* The addresses that callers use fit in the digits.
LEMMA LbaIs ==
  ASSUME NEW lba \in Lbas
  PROVE  lba \in 0 .. Weight[5] - 1 /\ lba \in Nat
BY AtaAssumption

\* A slot that was found to hold a disk holds that disk.
LEMMA FoundDisk ==
  ASSUME FoundAreReal, NEW s \in AllSlots, Reliable(s), device[s].type = "DISK_ATA"
  PROVE  machine[s].kind = "disk" /\ device[s].lba48 = machine[s].lba48
<1>1. device[s] # NoDevice /\ device[s] # DiskNone
  BY DEF NoDevice, DiskNone
<1>2. /\ machine[s].kind = "disk"
      /\ device[s] = [type |-> "DISK_ATA", lba48 |-> machine[s].lba48,
                      size |-> machine[s].capacity]
  BY <1>1 DEF FoundAreReal
<1> QED BY <1>2

\* Of a call that goes on, the accesses are the same.
LEMMA SameAccesses ==
  ASSUME device' = device, call'.op = call.op, call'.slot = call.slot, call'.lba = call.lba
  PROVE  All' = All
BY DEF All, Outs

LEMMA BeginKeeps ==
  ASSUME AtaInv, call = NoCall,
         NEW op \in {"identify", "read", "write"}, NEW s \in AllSlots, NEW lba, NEW data,
         op = "identify" => lba = 0 /\ device[s] = NoDevice,
         op # "identify" => lba \in Lbas /\ device[s].type = "DISK_ATA",
         Begin(op, s, lba, data)
  PROVE  AtaInv'
<1>1. /\ call' = [op |-> op, pc |-> "out", slot |-> s, lba |-> lba, data |-> data,
                  outs |-> Outs(op, s, lba), polls |-> 0]
      /\ UNCHANGED <<machine, regs, drive, device, reply, shadow, wrapped>>
  BY DEF Begin
<1>2. /\ DOMAIN call' = {"op", "pc", "slot", "lba", "data", "outs", "polls"}
      /\ call'.op = op /\ call'.pc = "out" /\ call'.slot = s /\ call'.lba = lba
      /\ call'.outs = Outs(op, s, lba)
  BY <1>1
<1>3. ~Calling
  BY DEF Calling, NoCall
<1>4. TypeOK'
  BY <1>1 DEF AtaInv, TypeOK
<1>5. CallOK'
  BY <1>1, <1>2 DEF CallOK, NoDevice
<1>6. All' = Outs(op, s, lba)
  BY <1>1, <1>2 DEF All, Outs
<1> DEFINE W == Outs(op, s, lba)
<1>7. W \in Seq(Range(W)) /\ Len(W) \in Nat /\ Len(W) > 1
  BY AccessesAre DEF AccessesOf
<1> HIDE DEF W
<1>8. Done' = 0 /\ All' = W /\ call'.outs = W
  BY <1>2, <1>6, <1>7 DEF Done, W
<1>9. OutsLeft'
  BY <1>7, <1>8 DEF OutsLeft
<1>10. RegsOK'
  BY <1>2, <1>8 DEF RegsOK, Holding
<1>11. \A t \in AllSlots : Reliable(t)' = Reliable(t)
  BY <1>1 DEF Reliable, Prompt
<1>12. ASSUME NEW t \in AllSlots, Reliable(t)
       PROVE  DriveOK(t)' /\ ContentOK(t)'
  <2>1. DriveOK(t) /\ ContentOK(t)
    BY <1>12 DEF AtaInv
  <2>2. ~Written(t) /\ ~Mine(t) /\ ~Written(t)'
    BY <1>2, <1>3 DEF Written, Mine
  <2>3. DriveOK(t)'
    BY <1>1, <2>1, <2>2 DEF DriveOK
  <2>4. ContentOK(t)'
    BY <1>1, <2>1 DEF ContentOK, Settled
  <2> QED BY <2>3, <2>4
<1>13. FoundAreReal'
  BY <1>1, <1>11 DEF AtaInv, FoundAreReal
<1>14. ReadsSeeWrites'
  BY <1>2 DEF ReadsSeeWrites, NoCall
<1> QED BY <1>4, <1>5, <1>9, <1>10, <1>11, <1>12, <1>13, <1>14 DEF AtaInv

\* A completion ends the command of the call in progress, or the commit of a write.
LEMMA CompletionKeeps ==
  ASSUME AtaInv, NEW u \in AllSlots, DriveCompletes(u)
  PROVE  AtaInv'
<1>1. /\ Busy(u)
      /\ UNCHANGED <<machine, regs, device, call, reply, calls, shadow, wrapped>>
  BY DEF DriveCompletes
<1>2. PICK v \in Completions(u) : drive' = [drive EXCEPT ![u] = v]
  BY DEF DriveCompletes
<1>3. /\ drive'[u] = v /\ DOMAIN drive' = AllSlots
      /\ \A t \in AllSlots : t # u => drive'[t] = drive[t]
  BY <1>2 DEF AtaInv, TypeOK
<1>4. DOMAIN drive[u] = {"st", "cmd", "lba", "more", "data", "disk"} /\ drive[u].st = "busy"
  BY <1>1 DEF AtaInv, TypeOK, Busy
<1> DEFINE d == drive[u]  m == machine[u]
<1>5. /\ m.kind \in {"disk", "packet", "none"}
      /\ m.capacity \in Nat
      /\ m.faulty \in BOOLEAN
  BY MachineIs DEF AtaInv, TypeOK
<1>6. /\ DOMAIN v = {"st", "cmd", "lba", "more", "data", "disk"}
      /\ v.cmd = d.cmd /\ v.lba = d.lba /\ v.more = d.more /\ v.data = d.data
      /\ v.st \in {"idle", "drq", "err"}
      /\ \/ /\ m.faulty /\ v.st = "err" /\ v.disk = d.disk
         \/ /\ d.cmd = "commit" /\ v.st = "idle" /\ v.disk = Put(d.disk, d.lba, d.data)
         \/ /\ d.cmd # "commit" /\ v.st = "err" /\ v.disk = d.disk
            /\ m.kind = "packet" \/ (d.cmd # "identify" /\ d.lba >= m.capacity)
         \/ /\ d.cmd # "commit" /\ v.st = "drq" /\ v.disk = d.disk
            /\ m.kind # "packet" /\ (d.cmd # "identify" => ~(d.lba >= m.capacity))
  <2> DEFINE failed == [d EXCEPT !.st = "err"]
             idle == [d EXCEPT !.st = "idle", !.disk = Put(@, d.lba, d.data)]
             drq == [d EXCEPT !.st = "drq"]
  <2>1. /\ d.cmd = "commit" => v = idle \/ (m.faulty /\ v = failed)
        /\ d.cmd # "commit" =>
             \/ m.faulty /\ v = failed
             \/ /\ v = failed
                /\ m.kind = "packet" \/ (d.cmd # "identify" /\ d.lba >= m.capacity)
             \/ /\ v = drq
                /\ m.kind # "packet" /\ (d.cmd # "identify" => ~(d.lba >= m.capacity))
    BY <1>2, <1>5 DEF Completions
  <2>2. /\ DOMAIN failed = DOMAIN d /\ failed.st = "err" /\ failed.cmd = d.cmd
        /\ failed.lba = d.lba /\ failed.more = d.more /\ failed.data = d.data
        /\ failed.disk = d.disk
    BY <1>4
  <2>3. /\ DOMAIN drq = DOMAIN d /\ drq.st = "drq" /\ drq.cmd = d.cmd
        /\ drq.lba = d.lba /\ drq.more = d.more /\ drq.data = d.data
        /\ drq.disk = d.disk
    BY <1>4
  <2>4. /\ DOMAIN idle = DOMAIN d /\ idle.st = "idle" /\ idle.cmd = d.cmd
        /\ idle.lba = d.lba /\ idle.more = d.more /\ idle.data = d.data
        /\ idle.disk = Put(d.disk, d.lba, d.data)
    BY <1>4
  <2> HIDE DEF failed, idle, drq
  <2> QED BY <1>4, <2>1, <2>2, <2>3, <2>4
<1>7. TypeOK'
  BY <1>1, <1>3, <1>6 DEF AtaInv, TypeOK, States
<1>8. CallOK'
  BY <1>1 DEF AtaInv, CallOK, Calling
<1>9. All' = All /\ Done' = Done
  <2>1. All' = All
    BY <1>1, SameAccesses
  <2> QED BY <1>1, <2>1 DEF Done
<1>10. OutsLeft'
  BY <1>1, <1>9 DEF AtaInv, OutsLeft, Calling
<1>11. \A t \in AllSlots : Reliable(t)' = Reliable(t) /\ Prompt(t)' = Prompt(t)
  BY <1>1 DEF Reliable, Prompt
<1>12. RegsOK'
  <2>1. Prompt(call.slot)' = Prompt(call.slot)
    BY <1>1 DEF Prompt
  <2> QED BY <1>1, <1>9, <2>1 DEF AtaInv, RegsOK, Calling, Selected
<1>13. ASSUME NEW t \in AllSlots, Reliable(t)
       PROVE  DriveOK(t)' /\ ContentOK(t)'
  <2>1. DriveOK(t) /\ ContentOK(t)
    BY <1>13 DEF AtaInv
  <2>2. Written(t)' = Written(t) /\ Mine(t)' = Mine(t)
    BY <1>1 DEF Written, Mine, Calling
  <2>3. CASE t # u
    <3>1. Sent(t)' = Sent(t)
      BY <1>1, <1>3, <2>3 DEF Sent, Exact
    <3>2. DriveOK(t)'
      BY <1>1, <1>3, <2>1, <2>2, <2>3, <3>1 DEF DriveOK
    <3>3. ContentOK(t)'
      BY <1>1, <1>3, <2>1, <2>3 DEF ContentOK, Settled
    <3> QED BY <3>2, <3>3
  <2>4. CASE t = u
    <3>1. ~m.faulty
      BY <1>13, <2>4 DEF Reliable
    <3>2. Sent(u)' = Sent(u)
      BY <1>1, <1>3, <1>6 DEF Sent, Exact
    <3>3. m.kind # "none"
      BY <1>4, <2>1, <2>4 DEF DriveOK
    <3>4. d.cmd # "commit" => Mine(u) /\ call.pc = "wait" /\ Sent(u)
      BY <1>4, <2>1, <2>4 DEF DriveOK
    <3>5. d.cmd = "commit" => ~Written(u)
      <4>1. Sent(u) /\ Calling => d.cmd \in {"identify", "read", "write"}
        BY DEF AtaInv, CallOK, Sent
      <4> QED BY <1>4, <2>1, <2>4, <4>1 DEF DriveOK, Mine
    <3>6. Sent(u) => d.cmd = call.op
      BY DEF Sent
    <3>7. Written(u)' = Written(u) /\ Mine(u)' = Mine(u)
      BY <1>1 DEF Written, Mine, Calling
    <3>8. DriveOK(u)'
      <4>1. CASE d.cmd = "commit"
        <5>1. v.st = "idle" /\ ~Written(u)'
          BY <1>6, <3>7, <3>1, <3>5, <4>1
        <5> QED BY <1>1, <1>3, <3>3, <5>1 DEF DriveOK
      <4>2. CASE d.cmd # "commit" /\ v.st = "err"
        <5>1. m.kind = "packet" \/ (call.op # "identify" /\ Sent(u) /\ d.lba >= m.capacity)
          BY <1>6, <3>1, <3>4, <3>6, <4>2
        <5>2. Mine(u)' /\ call'.pc = "wait" /\ Sent(u)'
          BY <1>1, <3>7, <3>2, <3>4, <4>2
        <5> QED BY <1>1, <1>3, <1>6, <3>2, <3>3, <4>2, <5>1, <5>2 DEF DriveOK
      <4>3. CASE d.cmd # "commit" /\ v.st = "drq"
        <5>1. /\ m.kind = "disk"
              /\ call.op # "identify" => ~(v.lba >= m.capacity)
          BY <1>5, <1>6, <3>1, <3>3, <3>4, <3>6, <4>3
        <5>2. Mine(u)' /\ call'.pc = "wait" /\ Sent(u)'
          BY <1>1, <3>7, <3>2, <3>4, <4>3
        <5> QED BY <1>1, <1>3, <1>6, <3>3, <4>3, <5>1, <5>2 DEF DriveOK
      <4> QED BY <1>6, <3>1, <4>1, <4>2, <4>3
    <3>9. Settled(u)' = Settled(u)
      BY <1>3, <1>4, <1>6, <3>1 DEF Settled
    <3>10. ContentOK(u)'
      BY <1>1, <2>1, <2>4, <3>9 DEF ContentOK
    <3> QED BY <2>4, <3>8, <3>10
  <2> QED BY <2>3, <2>4
<1>14. FoundAreReal'
  BY <1>1, <1>11 DEF AtaInv, FoundAreReal
<1>15. ReadsSeeWrites'
  BY <1>1 DEF AtaInv, ReadsSeeWrites, Reliable, Prompt
<1> QED BY <1>7, <1>8, <1>10, <1>11, <1>12, <1>13, <1>14, <1>15 DEF AtaInv

\* The access that OutB makes, and what it does on a channel of prompt drives.
Access == All[Done + 1]
Chan   == call.slot[1]
There  == Selected \in AllSlots /\ machine[Selected].kind # "none"

LEMMA AccessIs ==
  ASSUME AtaInv, Calling, call.pc = "out"
  PROVE  /\ Head(call.outs) = Access /\ Len(Tail(call.outs)) = Len(call.outs) - 1
         /\ \A k \in 1 .. Len(call.outs) - 1 : Tail(call.outs)[k] = All[Done + 1 + k]
         /\ Tail(call.outs) \in Seq(Range(All))
         /\ Done \in 0 .. Len(All) - 1 /\ Len(All) \in Nat
         /\ Done = 0 => Access.reg = "drive" /\ Access.val.sub = call.slot[2]
         /\ 0 < Done /\ Done < Len(All) - 1 => Access.reg \in Bytes
         /\ Done = Len(All) - 1 => Access.reg = "cmd" /\ Access.val.op = call.op /\ Done > 0
<1> DEFINE W == All  s == call.outs  L == Len(s)
<1>1. /\ W \in Seq(Range(W)) /\ Len(W) \in Nat /\ Len(W) > 1
      /\ W[1].reg = "drive" /\ W[1].val.sub = call.slot[2]
      /\ \A k \in 2 .. Len(W) - 1 : W[k].reg \in Bytes
      /\ W[Len(W)].reg = "cmd" /\ W[Len(W)].val.op = call.op
  <2>1. AccessesOf(call.op, call.slot, call.lba)
    BY AccessesAre
  <2> QED BY <2>1 DEF AccessesOf, All
<1>2. /\ s \in Seq(Range(W)) /\ 0 < L /\ L <= Len(W)
      /\ Done = Len(W) - L
      /\ \A k \in 1 .. L : s[k] = W[Done + k]
  BY DEF AtaInv, OutsLeft, Done
<1> HIDE DEF W, s
<1>3. L \in Nat /\ Head(s) = s[1] /\ Tail(s) \in Seq(Range(W)) /\ Len(Tail(s)) = L - 1
      /\ \A k \in 1 .. L - 1 : Tail(s)[k] = s[k + 1]
  BY <1>2
<1> HIDE DEF L
<1> DEFINE n == Done
<1>4. n \in 0 .. Len(W) - 1 /\ n = Len(W) - L
  BY <1>1, <1>2, <1>3
<1>5. Head(s) = W[n + 1]
  BY <1>2, <1>3
<1>6. \A k \in 1 .. L - 1 : Tail(s)[k] = W[n + 1 + k]
  <2> TAKE k \in 1 .. L - 1
  <2>1. k + 1 \in 1 .. L /\ n + (k + 1) = n + 1 + k
    BY <1>1, <1>3, <1>4
  <2> QED BY <1>2, <1>3, <2>1
<1> HIDE DEF n
<1>7. /\ n = 0 => W[n + 1].reg = "drive" /\ W[n + 1].val.sub = call.slot[2]
      /\ 0 < n /\ n < Len(W) - 1 => W[n + 1].reg \in Bytes
      /\ n = Len(W) - 1 => W[n + 1].reg = "cmd" /\ W[n + 1].val.op = call.op /\ n > 0
  BY <1>1, <1>4
<1> QED BY <1>1, <1>3, <1>4, <1>5, <1>6, <1>7 DEF W, s, L, n, Access

\* What the last access starts, on a disk without faults.
LEMMA CommandSent ==
  ASSUME AtaInv, Calling, call.pc = "out", Done = Len(All) - 1, Reliable(call.slot)
  PROVE  /\ Access.val.op # "identify" => Count(regs[Chan], Access.val.ext) = 1
         /\ Access.val.op # "identify" /\ Exact(call.slot) =>
              Address(regs[Chan], Access.val.ext) = call.lba
<1> DEFINE op == call.op  s == call.slot  lba == call.lba  r == regs[Chan]
           W == Outs(op, s, lba)  m == machine[s]
<1>1. /\ s \in AllSlots /\ Prompt(s)
      /\ Holding(r, W, Len(W) - 1) /\ Access = W[Len(W)]
      /\ Access.val.op = op
      /\ Len(W) \in Nat
  <2>1. /\ call.slot \in AllSlots /\ Prompt(call.slot)
        /\ Holding(regs[call.slot[1]], All, Done)
    BY DEF AtaInv, CallOK, RegsOK, Reliable
  <2>2. Len(All) \in Nat /\ Access.val.op = call.op
    BY AccessIs
  <2>3. Access = All[Len(All)]
    BY <2>2 DEF Access
  <2> QED BY <2>1, <2>2, <2>3 DEF All, Chan
<1>2. SUFFICES ASSUME op # "identify"
               PROVE  /\ Count(r, Access.val.ext) = 1
                      /\ Exact(s) => Address(r, Access.val.ext) = lba
  BY <1>1
<1>3. lba \in 0 .. Weight[5] - 1 /\ lba \in Nat /\ device[s].type = "DISK_ATA"
  BY <1>2, LbaIs DEF AtaInv, CallOK
<1>4. device[s].lba48 = m.lba48
  BY <1>1, <1>3, FoundDisk DEF AtaInv
<1>5. /\ m.lba48 \in BOOLEAN /\ m.capacity \in Nat
      /\ m.lba48 \/ m.capacity <= Nibble * Weight[4]
  BY <1>1, MachineIs DEF AtaInv, TypeOK
<1> HIDE DEF op, s, lba, r, m
<1>6. CASE m.lba48
  <2>1. device[s].lba48 /\ device[s].lba48 = TRUE
    BY <1>4, <1>5, <1>6
  <2>2. TenAccesses(op, s, lba)
    BY <1>2, <2>1, OutsExt
  <2>3. Len(W) = 10 /\ W[10] = Out("cmd", [op |-> op, ext |-> device[s].lba48])
    BY <2>2 DEF TenAccesses
  <2> HIDE DEF W
  <2>4. Access.val.ext = TRUE
    BY <1>1, <2>1, <2>3 DEF Out
  <2>5. Holding(r, W, 9)
    BY <1>1, <2>3
  <2>6. Count(r, TRUE) = 1 /\ Address(r, TRUE) = lba
    BY <1>2, <1>3, <2>1, <2>5, HeldExt DEF W
  <2> QED BY <2>4, <2>6
<1>7. CASE ~m.lba48
  <2>1. ~device[s].lba48 /\ device[s].lba48 = FALSE
    BY <1>4, <1>5, <1>7
  <2>2. SixAccesses(op, s, lba)
    BY <1>2, <2>1, OutsPlain
  <2>3. Len(W) = 6 /\ W[6] = Out("cmd", [op |-> op, ext |-> device[s].lba48])
    BY <2>2 DEF SixAccesses
  <2> HIDE DEF W
  <2>4. Access.val.ext = FALSE
    BY <1>1, <2>1, <2>3 DEF Out
  <2>5. Holding(r, W, 5)
    BY <1>1, <2>3
  <2>6. Count(r, FALSE) = 1 /\ (lba < Nibble * Weight[4] => Address(r, FALSE) = lba)
    BY <1>2, <1>3, <2>1, <2>5, HeldPlain DEF W
  <2>7. Exact(s) => lba < Nibble * Weight[4]
    <3> DEFINE x == Nibble * Weight[4]
    <3>1. x \in Nat
      BY AtaAssumption DEF Weight
    <3>2. m.capacity <= x /\ (Exact(s) => lba < m.capacity)
      BY <1>5, <1>7 DEF Exact, m, lba
    <3> HIDE DEF x
    <3>3. Exact(s) => lba < x
      BY <1>3, <1>5, <3>1, <3>2
    <3> QED BY <3>3 DEF x
  <2> QED BY <2>4, <2>6, <2>7
<1> QED BY <1>6, <1>7

\* What OutB does: the access is ignored by a busy drive, or it is the command, or it
\* writes a register.
OutBIs ==
  /\ UNCHANGED <<machine, device, reply, calls, shadow, wrapped>>
  /\ DOMAIN call' = DOMAIN call
  /\ \A f \in DOMAIN call \ {"outs", "pc"} : call'[f] = call[f]
  /\ call'.outs = Tail(call.outs)
  /\ call'.pc = IF Access.reg = "cmd" THEN "wait" ELSE "out"
  /\ \/ /\ There /\ ~machine[Selected].prompt
        /\ UNCHANGED <<regs, drive>>
     \/ /\ Access.reg = "cmd" /\ UNCHANGED regs
        /\ ~There => UNCHANGED drive
        /\ There =>
             /\ ~Busy(Selected)
             /\ DOMAIN drive' = DOMAIN drive
             /\ \A t \in AllSlots : t # Selected => drive'[t] = drive[t]
             /\ DOMAIN drive'[Selected] = DOMAIN drive[Selected]
             /\ drive'[Selected].st = "busy" /\ drive'[Selected].cmd = Access.val.op
             /\ drive'[Selected].lba = Address(regs[Chan], Access.val.ext)
             /\ drive'[Selected].more =
                  (Count(regs[Chan], Access.val.ext) # 1 /\ Access.val.op # "identify")
             /\ drive'[Selected].disk = drive[Selected].disk
     \/ /\ Access.reg # "cmd" /\ UNCHANGED drive
        /\ DOMAIN regs' = DOMAIN regs
        /\ regs'[Chan] = Wrote(regs[Chan], Access)
        /\ \A c \in Channels : c # Chan => regs'[c] = regs[c]

LEMMA OutBDoes ==
  ASSUME AtaInv, OutB
  PROVE  OutBIs
<1>1. /\ Calling /\ call.pc = "out"
      /\ UNCHANGED <<machine, device, reply, calls, shadow, wrapped>>
  BY DEF OutB, Calling
<1>2. Head(call.outs) = Access
  BY <1>1, AccessIs
<1>3. DOMAIN call = {"op", "pc", "slot", "lba", "data", "outs", "polls"}
  BY <1>1 DEF AtaInv, CallOK
<1>4. Chan \in Channels
  <2>1. call.slot \in AllSlots
    BY <1>1 DEF AtaInv, CallOK
  <2> QED BY <2>1, MachineIs DEF AtaInv, TypeOK, Chan
<1> DEFINE o == Access  r == regs[Chan]
<1>5. Selected = <<Chan, r.drive.sub>>
  BY DEF Selected, Chan
<1>6. call' = [call EXCEPT !.outs = Tail(@), !.pc = IF o.reg = "cmd" THEN "wait" ELSE @]
  BY <1>2 DEF OutB
<1>7. /\ DOMAIN call' = DOMAIN call
      /\ \A f \in DOMAIN call \ {"outs", "pc"} : call'[f] = call[f]
      /\ call'.outs = Tail(call.outs)
      /\ call'.pc = IF o.reg = "cmd" THEN "wait" ELSE "out"
  <2> HIDE DEF o
  <2> QED BY <1>1, <1>3, <1>6
<1>8. /\ There => ~Stays(Selected)
      /\ IF There /\ Busy(Selected) THEN UNCHANGED <<regs, drive>>
         ELSE IF o.reg = "cmd"
           THEN /\ drive' = IF ~There THEN drive ELSE
                     [drive EXCEPT ![Selected] =
                        [@ EXCEPT !.st = "busy", !.cmd = o.val.op,
                                  !.lba = Address(r, o.val.ext),
                                  !.more = Count(r, o.val.ext) # 1 /\ o.val.op # "identify"]]
                /\ UNCHANGED regs
         ELSE /\ regs' = [regs EXCEPT ![Chan][o.reg] =
                            IF o.reg = "drive" THEN o.val ELSE <<o.val, @[1]>>]
              /\ UNCHANGED drive
  BY <1>2, <1>5 DEF OutB, There, Chan
<1> HIDE DEF o, r
<1>9. CASE There /\ Busy(Selected)
  <2>1. ~machine[Selected].prompt
    BY <1>8, <1>9 DEF Stays
  <2> QED BY <1>1, <1>7, <1>8, <1>9, <2>1 DEF OutBIs, o
<1>10. CASE ~(There /\ Busy(Selected)) /\ o.reg = "cmd"
  <2>1. UNCHANGED regs /\ (~There => UNCHANGED drive)
    BY <1>8, <1>10
  <2>2. ASSUME There
        PROVE  /\ ~Busy(Selected)
               /\ DOMAIN drive' = DOMAIN drive
               /\ \A t \in AllSlots : t # Selected => drive'[t] = drive[t]
               /\ DOMAIN drive'[Selected] = DOMAIN drive[Selected]
               /\ drive'[Selected].st = "busy" /\ drive'[Selected].cmd = o.val.op
               /\ drive'[Selected].lba = Address(r, o.val.ext)
               /\ drive'[Selected].more = (Count(r, o.val.ext) # 1 /\ o.val.op # "identify")
               /\ drive'[Selected].disk = drive[Selected].disk
    <3> DEFINE S == Selected  a == Address(r, o.val.ext)
               e == (Count(r, o.val.ext) # 1 /\ o.val.op # "identify")  p == o.val.op
    <3>1. drive' = [drive EXCEPT ![S] =
                      [@ EXCEPT !.st = "busy", !.cmd = p, !.lba = a, !.more = e]]
      BY <1>8, <1>10, <2>2
    <3>2. /\ S \in DOMAIN drive /\ DOMAIN drive = AllSlots
          /\ DOMAIN drive[S] = {"st", "cmd", "lba", "more", "data", "disk"}
      BY <2>2 DEF AtaInv, TypeOK, There
    <3> HIDE DEF S, a, e, p
    <3>3. /\ DOMAIN drive' = DOMAIN drive
          /\ \A t \in AllSlots : t # S => drive'[t] = drive[t]
          /\ DOMAIN drive'[S] = DOMAIN drive[S]
          /\ drive'[S].st = "busy" /\ drive'[S].cmd = p
          /\ drive'[S].lba = a /\ drive'[S].more = e
          /\ drive'[S].disk = drive[S].disk
      BY <3>1, <3>2
    <3> QED BY <1>10, <2>2, <3>3 DEF S, a, e, p
  <2> QED BY <1>1, <1>7, <1>10, <2>1, <2>2 DEF OutBIs, o, r
<1>11. CASE ~(There /\ Busy(Selected)) /\ o.reg # "cmd"
  <2>1. /\ UNCHANGED drive
        /\ regs' = [regs EXCEPT ![Chan][o.reg] =
                      IF o.reg = "drive" THEN o.val ELSE <<o.val, @[1]>>]
    BY <1>8, <1>11
  <2>2. DOMAIN regs = Channels
    BY DEF AtaInv, TypeOK
  <2>3. /\ DOMAIN regs' = DOMAIN regs
        /\ regs'[Chan] = Wrote(regs[Chan], o)
        /\ \A c \in Channels : c # Chan => regs'[c] = regs[c]
    BY <1>4, <2>1, <2>2 DEF Wrote
  <2> QED BY <1>1, <1>7, <1>11, <2>1, <2>3 DEF OutBIs, o
<1> QED BY <1>9, <1>10, <1>11

LEMMA OutBKeeps ==
  ASSUME AtaInv, OutB
  PROVE  AtaInv'
<1>1. Calling /\ call.pc = "out" /\ OutBIs
  BY OutBDoes DEF OutB, Calling
<1>2. /\ DOMAIN call = {"op", "pc", "slot", "lba", "data", "outs", "polls"}
      /\ call.slot \in AllSlots /\ call.op \in {"identify", "read", "write"}
      /\ TypeOK
  BY <1>1 DEF AtaInv, CallOK
<1>3. /\ UNCHANGED <<machine, device, reply, shadow, wrapped>>
      /\ DOMAIN call' = DOMAIN call
      /\ call'.op = call.op /\ call'.slot = call.slot /\ call'.lba = call.lba
      /\ call'.outs = Tail(call.outs)
      /\ call'.pc = IF Access.reg = "cmd" THEN "wait" ELSE "out"
  BY <1>1, <1>2 DEF OutBIs
<1>4. /\ call.slot = <<Chan, call.slot[2]>> /\ Chan \in Channels
      /\ Selected = <<Chan, regs[Chan].drive.sub>> /\ Selected \in AllSlots
      /\ RegsShape(regs[Chan])
  BY <1>2, MachineIs DEF TypeOK, Chan, Selected, RegsShape
<1>5. /\ Len(Tail(call.outs)) = Len(call.outs) - 1
      /\ \A k \in 1 .. Len(call.outs) - 1 : Tail(call.outs)[k] = All[Done + 1 + k]
      /\ Tail(call.outs) \in Seq(Range(All))
      /\ Done \in 0 .. Len(All) - 1 /\ Len(All) \in Nat
      /\ Done = 0 => Access.reg = "drive" /\ Access.val.sub = call.slot[2]
      /\ 0 < Done /\ Done < Len(All) - 1 => Access.reg \in Bytes
      /\ Done = Len(All) - 1 => Access.reg = "cmd" /\ Access.val.op = call.op /\ Done > 0
  BY <1>1, AccessIs
<1>6. /\ Access.reg = "cmd" <=> Done = Len(All) - 1
      /\ Access.reg = "drive" <=> Done = 0
      /\ Access.reg \in {"drive", "cmd"} \cup Bytes
  BY <1>5 DEF Bytes
<1>7. All' = All
  BY <1>3, SameAccesses
<1>8. call'.pc = "out" => Done' = Done + 1 /\ Done + 1 < Len(All)
  <2> DEFINE L == Len(call.outs)  n == Done
  <2>1. L \in Nat
    BY <1>1 DEF AtaInv, OutsLeft
  <2>2. Done' = Len(All) - (L - 1) /\ n = Len(All) - L
    BY <1>3, <1>5, <1>7 DEF Done
  <2>3. call'.pc = "out" => n # Len(All) - 1
    BY <1>3, <1>6
  <2> HIDE DEF L, n
  <2>4. n \in 0 .. Len(All) - 1
    BY <1>5 DEF n
  <2> QED BY <1>5, <2>1, <2>2, <2>3, <2>4 DEF n
<1>9. \A t \in AllSlots : Reliable(t)' = Reliable(t) /\ Prompt(t)' = Prompt(t)
  BY <1>3 DEF Reliable, Prompt
<1>10. ASSUME Prompt(call.slot)
       PROVE  ~There \/ machine[Selected].prompt
  BY <1>2, <1>4, <1>10 DEF Prompt, Chan
<1>11. ASSUME Prompt(call.slot), Done > 0
       PROVE  Selected = call.slot
  <2>1. Holding(regs[Chan], All, Done)
    BY <1>1, <1>11 DEF AtaInv, RegsOK, Chan
  <2>2. regs[Chan].drive = All[1].val
    BY <1>11, <2>1 DEF Holding
  <2>3. All[1].val.sub = call.slot[2]
    <3>1. AccessesOf(call.op, call.slot, call.lba)
      BY AccessesAre
    <3> QED BY <3>1 DEF AccessesOf, All
  <2> QED BY <1>4, <2>2, <2>3
<1>12. /\ DOMAIN regs' = Channels
       /\ \A c \in Channels : /\ <<c, regs'[c].drive.sub>> \in AllSlots
                              /\ RegsShape(regs'[c])
  <2>1. CASE UNCHANGED regs
    BY <1>2, <2>1 DEF TypeOK, RegsShape
  <2>2. CASE /\ Access.reg # "cmd" /\ DOMAIN regs' = DOMAIN regs
             /\ regs'[Chan] = Wrote(regs[Chan], Access)
             /\ \A c \in Channels : c # Chan => regs'[c] = regs[c]
    <3>1. RegsShape(regs'[Chan])
      BY <1>4, <1>6, <2>2 DEF Wrote, RegsShape, Bytes
    <3>2. regs'[Chan].drive.sub \in {call.slot[2], regs[Chan].drive.sub}
      BY <1>4, <1>5, <1>6, <2>2 DEF Wrote, RegsShape, Bytes
    <3> QED BY <1>2, <1>4, <2>2, <3>1, <3>2 DEF TypeOK, RegsShape
  <2> QED BY <1>1, <2>1, <2>2 DEF OutBIs
<1>13. /\ DOMAIN drive' = AllSlots
       /\ \A t \in AllSlots : /\ DOMAIN drive'[t] = DOMAIN drive[t]
                              /\ drive'[t].st \in States
  BY <1>1, <1>2 DEF OutBIs, TypeOK, There, States
<1>14. TypeOK'
  BY <1>2, <1>3, <1>12, <1>13 DEF TypeOK, RegsShape
<1>15. CallOK'
  BY <1>1, <1>3 DEF AtaInv, CallOK, Calling
<1>16. OutsLeft'
  <2> SUFFICES ASSUME call'.pc = "out"
               PROVE  /\ call'.outs \in Seq(Range(All)) /\ 0 < Len(call'.outs)
                      /\ Len(call'.outs) <= Len(All)
                      /\ \A k \in 1 .. Len(call'.outs) : call'.outs[k] = All[Done + 1 + k]
    BY <1>7, <1>8 DEF OutsLeft
  <2> DEFINE L == Len(call.outs)  M == Len(call'.outs)
  <2>1. L \in Nat /\ Done = Len(All) - L /\ M = L - 1 /\ Done + 1 < Len(All)
    <3>1. Done + 1 < Len(All)
      BY <1>8
    <3>2. L \in Nat /\ M = L - 1
      BY <1>1, <1>3, <1>5 DEF AtaInv, OutsLeft
    <3> QED BY <3>1, <3>2 DEF Done
  <2>2. 0 < M /\ M <= Len(All)
    <3> HIDE DEF L, M
    <3> QED BY <1>5, <2>1
  <2> QED BY <1>3, <1>5, <2>1, <2>2
<1>17. RegsOK'
  <2> SUFFICES ASSUME Prompt(call.slot)
               PROVE  /\ call'.pc = "out" => Holding(regs'[Chan], All, Done + 1)
                      /\ call'.pc # "out" => Selected' = call.slot
    BY <1>3, <1>7, <1>8, <1>9, <1>2 DEF RegsOK, Chan
  <2>1. ASSUME call'.pc = "out"
        PROVE  Holding(regs'[Chan], All, Done + 1)
    <3>1. regs'[Chan] = Wrote(regs[Chan], Access)
      BY <1>1, <1>3, <1>10, <2>1 DEF OutBIs
    <3>2. Holding(regs[Chan], All, Done)
      BY <1>1 DEF AtaInv, RegsOK, Chan
    <3>3. HoldsOn(regs[Chan], All, Done)
      <4> DEFINE L == Len(All) - 1  n == Done  W == All  r == regs[Chan]
      <4>1. AccessesOf(call.op, call.slot, call.lba)
        BY AccessesAre
      <4>2. W[1].reg = "drive" /\ \A k \in 2 .. L : W[k].reg \in Bytes
        BY <4>1 DEF AccessesOf, All
      <4>3. L \in Nat /\ n \in 0 .. L - 1
        BY <1>5, <1>8, <2>1
      <4> HIDE DEF L, n, W, r
      <4>4. HoldsOn(r, W, n)
        BY <4>2, <4>3, HoldingOn
      <4> QED BY <4>4 DEF n, W, r
    <3> QED BY <1>4, <3>1, <3>2, <3>3 DEF HoldsOn, Access
  <2>2. ASSUME call'.pc # "out"
        PROVE  Selected' = call.slot
    <3>1. Access.reg = "cmd" /\ Done > 0
      BY <1>3, <1>5, <1>6, <2>2
    <3>2. UNCHANGED regs
      BY <1>1, <3>1 DEF OutBIs
    <3>3. Selected' = Selected
      BY <1>3, <3>2 DEF Selected
    <3> QED BY <1>11, <3>1, <3>3
  <2> QED BY <2>1, <2>2
<1>18. ASSUME NEW t \in AllSlots, Reliable(t)
       PROVE  DriveOK(t)' /\ ContentOK(t)'
  <2>1. DriveOK(t) /\ ContentOK(t)
    BY <1>18 DEF AtaInv
  <2>2. Mine(t)' = Mine(t) /\ ~Written(t)
    BY <1>1, <1>3 DEF Written, Mine, Calling
  <2>3. drive[t].st # "drq"
    BY <1>1, <2>1 DEF DriveOK
  <2> DEFINE untouched ==
        /\ drive'[t] = drive[t]
        /\ Access.reg # "cmd" \/ ~Mine(t) \/ machine[t].kind = "none"
  <2>4. CASE untouched
    <3>1. ~Mine(t) \/ ~(drive[t].st = "busy" /\ call.pc = "wait")
      BY <1>1
    <3>2. Written(t)' => machine[t].kind = "none"
      BY <1>1, <1>3, <2>2, <2>4 DEF Written
    <3>3. drive[t].st = "busy" => drive[t].cmd = "commit" /\ machine[t].kind # "none"
      BY <1>1, <2>1 DEF DriveOK
    <3>4. machine[t].kind = "none" => drive[t].st = "idle"
      BY <2>1 DEF DriveOK
    <3>5. Written(t)' => call'.pc = "wait"
      BY <1>3 DEF Written
    <3>6. DriveOK(t)'
      BY <1>3, <2>3, <2>4, <3>2, <3>3, <3>4, <3>5 DEF DriveOK
    <3>7. ContentOK(t)'
      BY <1>3, <2>1, <2>4 DEF ContentOK, Settled
    <3> QED BY <3>6, <3>7
  <2>5. CASE ~untouched
    <3>1. /\ Access.reg = "cmd" /\ t = call.slot /\ There /\ Selected = t
          /\ Prompt(call.slot)
      <4>1. ASSUME Mine(t), Access.reg = "cmd"
            PROVE  Prompt(call.slot) /\ Selected = call.slot /\ t = call.slot
        BY <1>5, <1>6, <1>11, <1>18, <4>1 DEF Mine, Reliable
      <4>2. ASSUME drive'[t] # drive[t]
            PROVE  Access.reg = "cmd" /\ There /\ Selected = t
        BY <1>1, <4>2 DEF OutBIs
      <4>3. ASSUME drive'[t] # drive[t]
            PROVE  Mine(t)
        <5>1. t[1] = Chan
          BY <1>4, <4>2, <4>3
        <5>2. Prompt(call.slot)
          BY <1>2, <1>18, <5>1 DEF Reliable, Prompt, Chan
        <5>3. Selected = call.slot
          BY <1>5, <1>6, <1>11, <4>2, <4>3, <5>2
        <5> QED BY <1>1, <4>2, <4>3, <5>3 DEF Mine
      <4>4. Mine(t) /\ Access.reg = "cmd"
        BY <2>5, <4>2, <4>3
      <4>5. machine[t].kind # "none" \/ drive'[t] # drive[t]
        BY <2>5, <4>4
      <4>6. There
        BY <4>1, <4>2, <4>4, <4>5 DEF There
      <4> QED BY <4>1, <4>4, <4>6
    <3>2. machine[t].prompt
      BY <1>10, <3>1
    <3>3. /\ drive'[t].st = "busy" /\ drive'[t].cmd = Access.val.op
          /\ drive'[t].lba = Address(regs[Chan], Access.val.ext)
          /\ drive'[t].more =
               (Count(regs[Chan], Access.val.ext) # 1 /\ Access.val.op # "identify")
          /\ drive'[t].disk = drive[t].disk /\ drive[t].st # "busy"
      BY <1>1, <3>1, <3>2 DEF OutBIs, Busy
    <3>4. /\ Access.val.op # "identify" => Count(regs[Chan], Access.val.ext) = 1
          /\ Access.val.op # "identify" /\ Exact(call.slot) =>
               Address(regs[Chan], Access.val.ext) = call.lba
      BY <1>1, <1>6, <1>18, <3>1, CommandSent
    <3>5. Access.val.op = call.op
      BY <1>5, <1>6, <3>1
    <3>6. Sent(t)'
      BY <1>3, <3>1, <3>3, <3>4, <3>5 DEF Sent, Exact
    <3>7. Mine(t)' /\ call'.pc = "wait" /\ machine[t].kind # "none"
      BY <1>1, <1>3, <2>2, <3>1 DEF Mine, There
    <3>8. DriveOK(t)'
      BY <1>3, <3>3, <3>6, <3>7 DEF DriveOK
    <3>9. ContentOK(t)'
      <4>1. Settled(t)' = Settled(t)
        BY <1>2, <3>3, <3>5 DEF Settled
      <4> QED BY <1>3, <2>1, <4>1 DEF ContentOK
    <3> QED BY <3>8, <3>9
  <2> QED BY <2>4, <2>5
<1>19. FoundAreReal'
  BY <1>3, <1>9 DEF AtaInv, FoundAreReal
<1>20. ReadsSeeWrites'
  BY <1>1, <1>3 DEF ReadsSeeWrites, NoCall, Calling
<1> QED BY <1>9, <1>14, <1>15, <1>16, <1>17, <1>18, <1>19, <1>20 DEF AtaInv

\* A poll leaves everything but the call; the wait goes on, or ends with what the
\* selected drive shows, which is not that it is busy if it is prompt.
LEMMA PollKeeps ==
  ASSUME AtaInv, PollAgain \/ PollEnds
  PROVE  AtaInv'
<1>1. /\ Calling /\ call.pc = "wait"
      /\ UNCHANGED <<machine, regs, drive, device, reply, calls, shadow, wrapped>>
      /\ ~Stays(Selected)
      /\ \/ call' = [call EXCEPT !.polls = Polls]
         \/ call' = [call EXCEPT !.pc = drive[Selected].st]
  BY DEF PollAgain, PollEnds, Calling
<1>2. /\ DOMAIN call = {"op", "pc", "slot", "lba", "data", "outs", "polls"}
      /\ call.slot \in AllSlots /\ call.op \in {"identify", "read", "write"}
      /\ TypeOK
  BY <1>1 DEF AtaInv, CallOK
<1>3. Selected \in AllSlots
  BY <1>2, MachineIs DEF TypeOK, Selected
<1>4. /\ DOMAIN call' = DOMAIN call
      /\ call'.op = call.op /\ call'.slot = call.slot /\ call'.lba = call.lba
      /\ call'.pc \in {"wait", drive[Selected].st}
  <2> DEFINE pc == drive[Selected].st  polls == Polls
  <2>1. call' = [call EXCEPT !.polls = polls] \/ call' = [call EXCEPT !.pc = pc]
    BY <1>1
  <2> HIDE DEF pc, polls
  <2>2. /\ DOMAIN call' = DOMAIN call
        /\ call'.op = call.op /\ call'.slot = call.slot /\ call'.lba = call.lba
        /\ call'.pc \in {call.pc, pc}
    BY <1>2, <2>1
  <2> QED BY <1>1, <2>2 DEF pc
<1>5. drive[Selected].st \in States
  BY <1>2, <1>3 DEF TypeOK
<1>6. call'.pc # "out" /\ call'.pc \in {"wait"} \cup States
  BY <1>4, <1>5 DEF States
<1>7. TypeOK'
  BY <1>1, <1>2 DEF TypeOK
<1>8. CallOK'
  BY <1>1, <1>4, <1>6 DEF AtaInv, CallOK, Calling
<1>9. OutsLeft'
  BY <1>6 DEF OutsLeft
<1>10. \A t \in AllSlots : Reliable(t)' = Reliable(t) /\ Prompt(t)' = Prompt(t)
  BY <1>1 DEF Reliable, Prompt
<1>11. Selected' = Selected
  BY <1>1, <1>4 DEF Selected
<1>12. Prompt(call.slot) => Selected = call.slot
  BY <1>1 DEF AtaInv, RegsOK
<1>13. RegsOK'
  BY <1>2, <1>4, <1>6, <1>10, <1>11, <1>12 DEF RegsOK
<1>14. ASSUME NEW t \in AllSlots, Reliable(t)
       PROVE  DriveOK(t)' /\ ContentOK(t)'
  <2>1. DriveOK(t) /\ ContentOK(t)
    BY <1>14 DEF AtaInv
  <2>2. Written(t)' = Written(t) /\ Mine(t)' = Mine(t)
    BY <1>1, <1>4, <1>6 DEF Written, Mine, Calling
  <2>3. Sent(t)' = Sent(t)
    BY <1>1, <1>4 DEF Sent, Exact
  <2>4. ContentOK(t)'
    BY <1>1, <2>1 DEF ContentOK, Settled
  <2>5. CASE ~Mine(t)
    <3>1. ~Written(t)
      BY <2>5 DEF Written
    <3> QED BY <1>1, <2>1, <2>2, <2>3, <2>4, <2>5, <3>1 DEF DriveOK
  <2>6. CASE Mine(t) /\ call'.pc = "wait"
    <3> QED BY <1>1, <1>4, <2>1, <2>2, <2>3, <2>4, <2>6 DEF DriveOK
  <2>7. CASE Mine(t) /\ call'.pc # "wait"
    <3>1. Selected = t /\ machine[t].prompt
      BY <1>12, <1>14, <2>7 DEF Mine, Reliable, Prompt
    <3>2. call'.pc = drive[t].st /\ drive[t].st # "busy"
      BY <1>1, <1>4, <2>7, <3>1 DEF Stays, Busy
    <3> QED BY <1>1, <1>4, <2>1, <2>2, <2>3, <2>4, <2>7, <3>2 DEF DriveOK
  <2> QED BY <2>5, <2>6, <2>7
<1>15. FoundAreReal'
  BY <1>1, <1>10 DEF AtaInv, FoundAreReal
<1>16. ReadsSeeWrites'
  BY <1>1, <1>4 DEF ReadsSeeWrites, NoCall, Calling
<1> QED BY <1>7, <1>8, <1>9, <1>10, <1>13, <1>14, <1>15, <1>16 DEF AtaInv

\* What is known of a call about to return, on a disk without faults.
Returning ==
  LET v == drive[call.slot]  m == machine[call.slot] IN
  /\ Selected = call.slot
  /\ v.st \in {"idle", "drq", "err"} /\ call.pc = v.st
  /\ v.st = "idle" => m.kind = "none"
  /\ v.st = "drq" => /\ m.kind = "disk" /\ Sent(call.slot)
                     /\ call.op # "identify" => ~(v.lba >= m.capacity)
  /\ v.st = "err" => \/ m.kind = "packet"
                     \/ call.op # "identify" /\ Sent(call.slot) /\ v.lba >= m.capacity
  /\ call.op # "identify" => m.kind = "disk"

LEMMA ReturningIs ==
  ASSUME AtaInv, Calling, call.pc \notin {"out", "wait"}, Reliable(call.slot)
  PROVE  Returning
<1> DEFINE s == call.slot
<1>1. /\ s \in AllSlots /\ DriveOK(s) /\ Written(s)
      /\ drive[s].st \in States
  BY DEF AtaInv, CallOK, TypeOK, Written, Mine
<1>2. Selected = s
  BY DEF AtaInv, RegsOK, Reliable
<1>3. call.op # "identify" => machine[s].kind = "disk"
  <2>1. call.op # "identify" => device[s].type = "DISK_ATA"
    BY DEF AtaInv, CallOK
  <2> QED BY <1>1, <2>1, FoundDisk DEF AtaInv
<1> QED BY <1>1, <1>2, <1>3 DEF Returning, DriveOK, States

\* A return leaves the other slots alone.
LEMMA ReturnKeeps ==
  ASSUME AtaInv, Calling, call' = NoCall, UNCHANGED <<machine, regs>>, TypeOK',
         \A t \in AllSlots : t # Selected => drive'[t] = drive[t],
         \A t \in AllSlots : t # call.slot =>
           shadow'[t] = shadow[t] /\ (t \in wrapped' <=> t \in wrapped),
         call.pc # "out",
         \A t \in AllSlots :
           t = call.slot /\ Reliable(t) => DriveOK(t)' /\ ContentOK(t)',
         FoundAreReal', ReadsSeeWrites'
  PROVE  AtaInv'
<1>1. ~Calling'
  BY DEF Calling, NoCall
<1>2. CallOK' /\ OutsLeft' /\ RegsOK'
  BY <1>1 DEF CallOK, OutsLeft, RegsOK
<1>3. \A t \in AllSlots : Reliable(t)' = Reliable(t)
  BY DEF Reliable, Prompt
<1>4. call.slot \in AllSlots /\ call.slot[1] = Selected[1]
  BY DEF AtaInv, CallOK, Selected
<1>5. ASSUME NEW t \in AllSlots, Reliable(t)
      PROVE  DriveOK(t)' /\ ContentOK(t)'
  <2>1. CASE t = call.slot
    BY <1>5, <2>1
  <2>2. CASE t # call.slot
    <3>1. drive'[t] = drive[t]
      <4>1. SUFFICES ASSUME t = Selected
                     PROVE  FALSE
        OBVIOUS
      <4>2. Prompt(call.slot)
        BY <1>4, <1>5, <4>1 DEF Reliable, Prompt
      <4>3. Selected = call.slot
        BY <4>2 DEF AtaInv, RegsOK
      <4> QED BY <2>2, <4>1, <4>3
    <3>2. DriveOK(t) /\ ContentOK(t)
      BY <1>5 DEF AtaInv
    <3>3. ~Mine(t) /\ ~Written(t) /\ ~Mine(t)' /\ ~Written(t)'
      BY <1>1, <2>2 DEF Mine, Written
    <3>4. DriveOK(t)'
      BY <3>1, <3>2, <3>3 DEF DriveOK
    <3>5. ContentOK(t)'
      BY <2>2, <3>1, <3>2 DEF ContentOK, Settled
    <3> QED BY <3>4, <3>5
  <2> QED BY <2>1, <2>2
<1> QED BY <1>2, <1>3, <1>5 DEF AtaInv

LEMMA FailKeeps ==
  ASSUME AtaInv, Fail
  PROVE  AtaInv'
<1> DEFINE s == call.slot
<1>1. /\ Calling /\ call.pc \notin {"out", "wait", "drq"} /\ call' = NoCall
      /\ device' = IF call.op = "identify" THEN [device EXCEPT ![s] = DiskNone] ELSE device
      /\ reply' = [op |-> call.op, ok |-> FALSE, slot |-> s, lba |-> call.lba]
      /\ UNCHANGED <<machine, regs, drive, calls, shadow, wrapped>>
  BY DEF Fail, NoData, Calling
<1>2. s \in AllSlots /\ call.op \in {"identify", "read", "write"} /\ TypeOK
      /\ (call.op # "identify" => call.lba \in Lbas)
  BY <1>1 DEF AtaInv, CallOK
<1>3. Reliable(s) => Returning
  BY <1>1, ReturningIs
<1>4. DOMAIN device' = AllSlots
  BY <1>1, <1>2 DEF TypeOK
<1>5. TypeOK'
  BY <1>1, <1>2, <1>4 DEF TypeOK
<1>6. \A t \in AllSlots : Reliable(t)' = Reliable(t)
  BY <1>1 DEF Reliable, Prompt
<1>7. ASSUME NEW t \in AllSlots, t = s, Reliable(t)
      PROVE  DriveOK(t)' /\ ContentOK(t)'
  <2>1. drive[t].st \in {"idle", "err"}
    BY <1>1, <1>3, <1>7 DEF Returning
  <2>2. ~Mine(t)' /\ ~Written(t)'
    BY <1>1 DEF Mine, Written, Calling, NoCall
  <2>3. DriveOK(t) /\ ContentOK(t)
    BY <1>7 DEF AtaInv
  <2>4. DriveOK(t)'
    BY <1>1, <2>1, <2>2, <2>3 DEF DriveOK
  <2>5. ContentOK(t)'
    BY <1>1, <2>3 DEF ContentOK, Settled
  <2> QED BY <2>4, <2>5
<1>8. FoundAreReal'
  <2>1. CASE call.op = "identify"
    <3>1. /\ device'[s] = DiskNone
          /\ \A t \in AllSlots : t # s => device'[t] = device[t]
      BY <1>1, <1>2, <2>1 DEF TypeOK
    <3>2. Reliable(s) => machine[s].kind # "disk"
      BY <1>1, <1>3, <2>1 DEF Returning
    <3> QED BY <1>1, <1>6, <3>1, <3>2 DEF AtaInv, FoundAreReal
  <2>2. CASE call.op # "identify"
    <3>1. device' = device
      BY <1>1, <2>2
    <3> QED BY <1>1, <1>6, <3>1 DEF AtaInv, FoundAreReal
  <2> QED BY <2>1, <2>2
<1>9. ReadsSeeWrites'
  <2>1. /\ reply'.op = call.op /\ reply'.ok = FALSE
        /\ reply'.slot = s /\ reply'.lba = call.lba
    BY <1>1
  <2>2. ASSUME Reliable(s), call.op # "identify"
        PROVE  ~(call.lba < machine[s].capacity)
    <3>1. /\ drive[s].st = "err" /\ machine[s].kind = "disk"
          /\ Sent(s) /\ drive[s].lba >= machine[s].capacity
      BY <1>1, <1>3, <2>2 DEF Returning
    <3>2. call.lba \in Nat /\ machine[s].capacity \in Nat
      BY <1>2, <2>2, LbaIs, MachineIs DEF TypeOK
    <3> QED BY <2>2, <3>1, <3>2 DEF Sent, Exact
  <2> QED BY <1>1, <1>2, <1>6, <2>1, <2>2 DEF ReadsSeeWrites
<1> QED BY <1>1, <1>5, <1>7, <1>8, <1>9, ReturnKeeps

\* A transfer that succeeds was of the sector asked for, which the disk has.
LEMMA TransferOfSector ==
  ASSUME AtaInv, Calling, call.pc = "drq", call.op # "identify", Reliable(call.slot)
  PROVE  LET v == drive[call.slot] IN
         /\ Selected = call.slot /\ call.slot \in AllSlots
         /\ v.st = "drq" /\ v.cmd = call.op /\ ~v.more
         /\ call.lba < machine[call.slot].capacity => v.lba = call.lba
         /\ machine[call.slot].lba48 => call.lba < machine[call.slot].capacity
         /\ call.lba \in Nat /\ machine[call.slot].capacity \in Nat
<1>1. Returning /\ call.slot \in AllSlots /\ call.lba \in Nat
      /\ machine[call.slot].capacity \in Nat
  BY ReturningIs, LbaIs, MachineIs DEF AtaInv, CallOK, TypeOK
<1>2. /\ Selected = call.slot /\ drive[call.slot].st = "drq" /\ Sent(call.slot)
      /\ ~(drive[call.slot].lba >= machine[call.slot].capacity)
  BY <1>1 DEF Returning
<1> QED BY <1>1, <1>2 DEF Sent, Exact

\* What the end of a transfer does to the selected drive.
LEMMA TransferredIs ==
  ASSUME AtaInv, Calling, NEW next \in States,
         drive' = [drive EXCEPT ![Selected] = Transferred(@, next)]
  PROVE  /\ DOMAIN drive' = AllSlots /\ Selected \in AllSlots
         /\ \A t \in AllSlots : /\ DOMAIN drive'[t] = DOMAIN drive[t]
                                /\ drive'[t].st \in States
                                /\ t # Selected => drive'[t] = drive[t]
         /\ drive'[Selected].st = IF drive[Selected].more THEN "drq" ELSE next
         /\ drive'[Selected].cmd = drive[Selected].cmd
         /\ drive'[Selected].disk = drive[Selected].disk
<1>1. Selected \in AllSlots /\ TypeOK
  <2>1. call.slot \in AllSlots
    BY DEF AtaInv, CallOK
  <2> QED BY <2>1, MachineIs DEF AtaInv, TypeOK, Selected
<1> DEFINE S == Selected  v == drive[S]  e == IF v.more THEN "drq" ELSE next
<1>2. drive' = [drive EXCEPT ![S] = [v EXCEPT !.st = e]] /\ e \in States
  BY DEF Transferred, States
<1>3. DOMAIN v = {"st", "cmd", "lba", "more", "data", "disk"} /\ S \in AllSlots
      /\ DOMAIN drive = AllSlots
  BY <1>1 DEF TypeOK
<1> HIDE DEF S, e
<1>4. /\ DOMAIN drive' = AllSlots
      /\ \A t \in AllSlots : /\ DOMAIN drive'[t] = DOMAIN drive[t]
                             /\ t # S => drive'[t] = drive[t]
      /\ drive'[S].st = e /\ drive'[S].cmd = v.cmd /\ drive'[S].disk = v.disk
  BY <1>2, <1>3
<1>5. \A t \in AllSlots : drive'[t].st \in States
  BY <1>1, <1>2, <1>4 DEF TypeOK
<1> QED BY <1>3, <1>4, <1>5 DEF S, e

LEMMA IdentifyEndsKeeps ==
  ASSUME AtaInv, IdentifyEnds
  PROVE  AtaInv'
<1> DEFINE s == call.slot
           found == [type |-> "DISK_ATA", lba48 |-> machine[Selected].lba48,
                     size |-> machine[Selected].capacity]
<1>1. /\ Calling /\ call.op = "identify" /\ call.pc = "drq" /\ call' = NoCall
      /\ device' = [device EXCEPT ![s] = found]
      /\ drive' = [drive EXCEPT ![Selected] = Transferred(@, "idle")]
      /\ reply' = [op |-> "identify", ok |-> TRUE]
      /\ UNCHANGED <<machine, regs, calls, shadow, wrapped>>
  BY DEF IdentifyEnds, NoData, Calling
<1>2. s \in AllSlots /\ TypeOK
  BY <1>1 DEF AtaInv, CallOK
<1>3. /\ DOMAIN drive' = AllSlots
      /\ \A t \in AllSlots : /\ DOMAIN drive'[t] = DOMAIN drive[t]
                             /\ drive'[t].st \in States
                             /\ t # Selected => drive'[t] = drive[t]
      /\ drive'[Selected].st = IF drive[Selected].more THEN "drq" ELSE "idle"
      /\ drive'[Selected].disk = drive[Selected].disk
  BY <1>1, TransferredIs DEF States
<1>4. Reliable(s) => Returning
  BY <1>1, ReturningIs
<1> HIDE DEF found
<1>5. /\ DOMAIN device' = AllSlots /\ device'[s] = found
      /\ \A t \in AllSlots : t # s => device'[t] = device[t]
  BY <1>1, <1>2 DEF TypeOK
<1>6. TypeOK'
  BY <1>1, <1>2, <1>3, <1>5 DEF TypeOK
<1>7. \A t \in AllSlots : Reliable(t)' = Reliable(t)
  BY <1>1 DEF Reliable, Prompt
<1>8. ASSUME NEW t \in AllSlots, t = s, Reliable(t)
      PROVE  DriveOK(t)' /\ ContentOK(t)'
  <2>1. Selected = t /\ drive[t].st = "drq" /\ ~drive[t].more
    BY <1>1, <1>4, <1>8 DEF Returning, Sent
  <2>2. drive'[t].st = "idle" /\ drive'[t].disk = drive[t].disk
    BY <1>3, <2>1
  <2>3. ~Mine(t)' /\ ~Written(t)'
    BY <1>1 DEF Mine, Written, Calling, NoCall
  <2>4. DriveOK(t)'
    BY <2>2, <2>3 DEF DriveOK
  <2>5. ContentOK(t)'
    BY <1>1, <1>8, <2>1, <2>2 DEF AtaInv, ContentOK, Settled
  <2> QED BY <2>4, <2>5
<1>9. FoundAreReal'
  <2>1. Reliable(s) => /\ machine[s].kind = "disk"
                       /\ found = [type |-> "DISK_ATA", lba48 |-> machine[s].lba48,
                                   size |-> machine[s].capacity]
    BY <1>1, <1>4 DEF Returning, found
  <2>2. ASSUME NEW t \in AllSlots, device'[t] # NoDevice, Reliable(t)
        PROVE  IF machine[t].kind = "disk"
                 THEN device'[t] = [type |-> "DISK_ATA", lba48 |-> machine[t].lba48,
                                    size |-> machine[t].capacity]
                 ELSE device'[t] = DiskNone
    <3>1. CASE t = s
      BY <1>5, <2>1, <2>2, <3>1
    <3>2. CASE t # s
      BY <1>5, <2>2, <3>2 DEF AtaInv, FoundAreReal
    <3> QED BY <3>1, <3>2
  <2> QED BY <1>1, <1>7, <2>2 DEF FoundAreReal
<1>10. ReadsSeeWrites'
  BY <1>1 DEF ReadsSeeWrites
<1> QED BY <1>1, <1>3, <1>6, <1>8, <1>9, <1>10, ReturnKeeps

LEMMA ReadEndsKeeps ==
  ASSUME AtaInv, ReadEnds
  PROVE  AtaInv'
<1> DEFINE s == call.slot  v == drive[Selected]
           data == IF v.cmd = "read" THEN Sector(v.disk, v.lba) ELSE Garbage
<1>1. /\ Calling /\ call.op = "read" /\ call.pc = "drq" /\ call' = NoCall
      /\ drive' = [drive EXCEPT ![Selected] = Transferred(@, "idle")]
      /\ reply' = [op |-> "read", ok |-> TRUE, slot |-> s, lba |-> call.lba, data |-> data]
      /\ UNCHANGED <<machine, regs, device, calls, shadow, wrapped>>
  BY DEF ReadEnds, Calling
<1>2. s \in AllSlots /\ TypeOK
  BY <1>1 DEF AtaInv, CallOK
<1>3. /\ DOMAIN drive' = AllSlots
      /\ \A t \in AllSlots : /\ DOMAIN drive'[t] = DOMAIN drive[t]
                             /\ drive'[t].st \in States
                             /\ t # Selected => drive'[t] = drive[t]
      /\ drive'[Selected].st = IF drive[Selected].more THEN "drq" ELSE "idle"
      /\ drive'[Selected].disk = drive[Selected].disk
  BY <1>1, TransferredIs DEF States
<1>4. TypeOK'
  BY <1>1, <1>2, <1>3 DEF TypeOK
<1>5. \A t \in AllSlots : Reliable(t)' = Reliable(t)
  BY <1>1 DEF Reliable, Prompt
<1>6. ASSUME Reliable(s)
      PROVE  /\ Selected = s
             /\ drive[s].st = "drq" /\ drive[s].cmd = "read" /\ ~drive[s].more
             /\ call.lba < machine[s].capacity => drive[s].lba = call.lba
             /\ machine[s].lba48 => call.lba < machine[s].capacity
             /\ call.lba \in Nat /\ machine[s].capacity \in Nat
  BY <1>1, <1>6, TransferOfSector
<1>7. ASSUME NEW t \in AllSlots, t = s, Reliable(t)
      PROVE  DriveOK(t)' /\ ContentOK(t)'
  <2>1. Selected = t /\ drive[t].st = "drq" /\ ~drive[t].more
    BY <1>6, <1>7
  <2>2. drive'[t].st = "idle" /\ drive'[t].disk = drive[t].disk
    BY <1>3, <2>1
  <2>3. ~Mine(t)' /\ ~Written(t)'
    BY <1>1 DEF Mine, Written, Calling, NoCall
  <2>4. DriveOK(t)'
    BY <2>2, <2>3 DEF DriveOK
  <2>5. ContentOK(t)'
    BY <1>1, <1>7, <2>1, <2>2 DEF AtaInv, ContentOK, Settled
  <2> QED BY <2>4, <2>5
<1>8. FoundAreReal'
  BY <1>1, <1>5 DEF AtaInv, FoundAreReal
<1>9. ReadsSeeWrites'
  <2>1. ASSUME Reliable(s), call.lba < machine[s].capacity, s \notin wrapped
        PROVE  data = Sector(shadow[s], call.lba)
    <3>1. data = Sector(drive[s].disk, call.lba)
      BY <1>6, <2>1
    <3>2. Settled(s) = drive[s].disk
      BY <1>6, <2>1 DEF Settled
    <3>3. call.lba \in 0 .. machine[s].capacity - 1
      BY <1>6, <2>1
    <3>4. Sector(Settled(s), call.lba) = Sector(shadow[s], call.lba)
      BY <1>2, <2>1, <3>3 DEF AtaInv, ContentOK
    <3> QED BY <3>1, <3>2, <3>4
  <2> HIDE DEF data
  <2>2. /\ reply'.op = "read" /\ reply'.ok = TRUE
        /\ reply'.slot = s /\ reply'.lba = call.lba /\ reply'.data = data
    BY <1>1
  <2>3. Reliable(s) /\ call.lba >= machine[s].capacity => ~machine[s].lba48
    BY <1>6
  <2> QED BY <1>1, <1>2, <1>5, <2>1, <2>2, <2>3 DEF ReadsSeeWrites
<1> QED BY <1>1, <1>3, <1>4, <1>7, <1>8, <1>9, ReturnKeeps

LEMMA WriteEndsKeeps ==
  ASSUME AtaInv, WriteEnds
  PROVE  AtaInv'
<1> DEFINE s == call.slot  v == drive[Selected]  lba == call.lba
           has == lba < machine[s].capacity
<1>1. /\ Calling /\ call.op = "write" /\ call.pc = "drq" /\ call' = NoCall
      /\ drive' = [drive EXCEPT ![Selected] =
                     IF @.cmd = "write"
                       THEN [Transferred(@, "busy") EXCEPT !.cmd = "commit",
                                                           !.data = call.data]
                       ELSE Transferred(@, "idle")]
      /\ shadow' = IF has THEN [shadow EXCEPT ![s] = Put(@, lba, call.data)] ELSE shadow
      /\ wrapped' = IF has THEN wrapped ELSE wrapped \cup {s}
      /\ reply' = [op |-> "write", ok |-> TRUE, slot |-> s, lba |-> lba]
      /\ UNCHANGED <<machine, regs, device, calls>>
  BY DEF WriteEnds, Calling
<1>2. s \in AllSlots /\ TypeOK /\ Selected \in AllSlots
  <2>1. s \in AllSlots /\ TypeOK
    BY <1>1 DEF AtaInv, CallOK
  <2> QED BY <2>1, MachineIs DEF TypeOK, Selected
<1>3. /\ DOMAIN drive' = AllSlots
      /\ \A t \in AllSlots : /\ DOMAIN drive'[t] = DOMAIN drive[t]
                             /\ drive'[t].st \in States
                             /\ t # Selected => drive'[t] = drive[t]
      /\ drive'[Selected].disk = v.disk
      /\ v.cmd = "write" =>
           /\ drive'[Selected].st = IF v.more THEN "drq" ELSE "busy"
           /\ drive'[Selected].cmd = "commit" /\ drive'[Selected].data = call.data
           /\ drive'[Selected].lba = v.lba
  <2>1. CASE v.cmd = "write"
    <3> DEFINE S == Selected  e == IF v.more THEN "drq" ELSE "busy"  data == call.data
    <3>1. drive' = [drive EXCEPT ![S] = [[v EXCEPT !.st = e] EXCEPT !.cmd = "commit",
                                                                    !.data = data]]
          /\ e \in States
      BY <1>1, <2>1 DEF Transferred, States
    <3>2. DOMAIN v = {"st", "cmd", "lba", "more", "data", "disk"} /\ S \in AllSlots
          /\ DOMAIN drive = AllSlots /\ v = drive[S]
      BY <1>2 DEF TypeOK
    <3> HIDE DEF S, e, data, v
    <3>3. /\ DOMAIN drive' = AllSlots
          /\ \A t \in AllSlots : /\ DOMAIN drive'[t] = DOMAIN drive[t]
                                 /\ t # S => drive'[t] = drive[t]
          /\ drive'[S].st = e /\ drive'[S].cmd = "commit" /\ drive'[S].data = data
          /\ drive'[S].lba = v.lba /\ drive'[S].disk = v.disk
      BY <3>1, <3>2
    <3>4. \A t \in AllSlots : drive'[t].st \in States
      BY <1>2, <3>1, <3>3 DEF TypeOK
    <3> QED BY <3>3, <3>4 DEF S, e, data
  <2>2. CASE v.cmd # "write"
    <3>1. drive' = [drive EXCEPT ![Selected] = Transferred(@, "idle")]
      BY <1>1, <2>2
    <3>2. "idle" \in States
      BY DEF States
    <3> QED BY <1>1, <2>2, <3>1, <3>2, TransferredIs
  <2> QED BY <2>1, <2>2
<1>4. /\ DOMAIN shadow' = AllSlots /\ wrapped' \subseteq AllSlots
      /\ \A t \in AllSlots : t # s =>
           shadow'[t] = shadow[t] /\ (t \in wrapped' <=> t \in wrapped)
      /\ has => shadow'[s] = Put(shadow[s], lba, call.data) /\ wrapped' = wrapped
      /\ ~has => s \in wrapped'
  BY <1>1, <1>2 DEF TypeOK
<1>5. TypeOK'
  BY <1>1, <1>2, <1>3, <1>4 DEF TypeOK
<1>6. \A t \in AllSlots : Reliable(t)' = Reliable(t)
  BY <1>1 DEF Reliable, Prompt
<1>7. ASSUME Reliable(s)
      PROVE  /\ Selected = s
             /\ drive[s].st = "drq" /\ drive[s].cmd = "write" /\ ~drive[s].more
             /\ has => drive[s].lba = lba
             /\ machine[s].lba48 => has
             /\ lba \in Nat /\ machine[s].capacity \in Nat
  BY <1>1, <1>7, TransferOfSector
<1>8. ASSUME NEW t \in AllSlots, t = s, Reliable(t)
      PROVE  DriveOK(t)' /\ ContentOK(t)'
  <2>1. Selected = t /\ drive[t].st = "drq" /\ drive[t].cmd = "write" /\ ~drive[t].more
    BY <1>7, <1>8
  <2>2. /\ drive'[t].st = "busy" /\ drive'[t].cmd = "commit"
        /\ drive'[t].disk = drive[t].disk /\ drive'[t].lba = drive[t].lba
        /\ drive'[t].data = call.data
    BY <1>3, <2>1
  <2>3. ~Mine(t)' /\ ~Written(t)'
    BY <1>1 DEF Mine, Written, Calling, NoCall
  <2>4. machine[t].kind # "none"
    BY <1>8, <2>1 DEF AtaInv, DriveOK
  <2>5. DriveOK(t)'
    BY <1>1, <2>2, <2>3, <2>4 DEF DriveOK
  <2>6. ContentOK(t)'
    <3>1. CASE ~has
      BY <1>4, <1>8, <3>1 DEF ContentOK
    <3>2. CASE has
      <4>1. drive[t].lba = lba
        BY <1>7, <1>8, <3>2
      <4>2. Settled(t) = drive[t].disk /\ Settled(t)' = Put(drive[t].disk, lba, call.data)
        BY <2>1, <2>2, <4>1 DEF Settled
      <4>3. shadow'[t] = Put(shadow[t], lba, call.data)
            /\ (t \in wrapped' <=> t \in wrapped)
        BY <1>4, <1>8, <3>2
      <4>4. ASSUME NEW x, Sector(drive[t].disk, x) = Sector(shadow[t], x)
            PROVE  Sector(Put(drive[t].disk, lba, call.data), x)
                     = Sector(Put(shadow[t], lba, call.data), x)
        BY <4>4 DEF Sector, Put
      <4>5. t \notin wrapped => \A x \in 0 .. machine[t].capacity - 1 :
              Sector(drive[t].disk, x) = Sector(shadow[t], x)
        BY <1>8, <4>2 DEF AtaInv, ContentOK
      <4> HIDE DEF lba
      <4> QED BY <1>1, <4>2, <4>3, <4>4, <4>5 DEF ContentOK
    <3> QED BY <3>1, <3>2
  <2> QED BY <2>5, <2>6
<1>9. FoundAreReal'
  BY <1>1, <1>6 DEF AtaInv, FoundAreReal
<1>10. ReadsSeeWrites'
  <2>1. /\ reply'.op = "write" /\ reply'.ok = TRUE
        /\ reply'.slot = s /\ reply'.lba = lba
    BY <1>1
  <2>2. Reliable(s) /\ lba >= machine[s].capacity => ~machine[s].lba48
    BY <1>7
  <2> QED BY <1>1, <1>2, <1>6, <2>1, <2>2 DEF ReadsSeeWrites
<1> QED BY <1>1, <1>3, <1>4, <1>5, <1>8, <1>9, <1>10, ReturnKeeps

\* A step that changes nothing but what was counted and answered.
LEMMA IdleKeeps ==
  ASSUME AtaInv, UNCHANGED <<machine, regs, drive, device, call, shadow, wrapped>>,
         ReadsSeeWrites'
  PROVE  AtaInv'
<1>1. All' = All /\ Done' = Done
  <2>1. All' = All
    BY SameAccesses
  <2> QED BY <2>1 DEF Done
<1>2. \A t \in AllSlots : Reliable(t)' = Reliable(t) /\ Prompt(t)' = Prompt(t)
  BY DEF Reliable, Prompt
<1>3. TypeOK' /\ CallOK' /\ OutsLeft'
  BY <1>1 DEF AtaInv, TypeOK, CallOK, OutsLeft, Calling
<1>4. RegsOK'
  <2>1. Prompt(call.slot)' = Prompt(call.slot)
    BY DEF Prompt
  <2> QED BY <1>1, <2>1 DEF AtaInv, RegsOK, Calling, Selected
<1>5. \A t \in AllSlots : Reliable(t) => DriveOK(t)' /\ ContentOK(t)'
  <2> TAKE t \in AllSlots
  <2> HAVE Reliable(t)
  <2>1. Mine(t)' = Mine(t) /\ Written(t)' = Written(t) /\ Sent(t)' = Sent(t)
        /\ Settled(t)' = Settled(t)
    BY DEF Mine, Written, Calling, Sent, Exact, Settled
  <2> QED BY <2>1 DEF AtaInv, DriveOK, ContentOK
<1>6. FoundAreReal'
  BY <1>2 DEF AtaInv, FoundAreReal
<1> QED BY <1>2, <1>3, <1>4, <1>5, <1>6 DEF AtaInv

LEMMA AtaStep ==
  ASSUME AtaInv, [Next]_vars
  PROVE  AtaInv'
<1>1. CASE Identify
  <2>1. PICK i \in DOMAIN Slots :
          device[Slots[i]] = NoDevice /\ Begin("identify", Slots[i], 0, Blank)
    BY <1>1 DEF Identify
  <2>2. Slots[i] \in AllSlots /\ call = NoCall
    BY <1>1 DEF AllSlots, Range, Identify
  <2> DEFINE s == Slots[i]
  <2>3. s \in AllSlots /\ device[s] = NoDevice /\ Begin("identify", s, 0, Blank)
    BY <2>1, <2>2
  <2> HIDE DEF s
  <2> QED BY <2>2, <2>3, BeginKeeps
<1>2. CASE OutB
  BY <1>2, OutBKeeps
<1>3. CASE PollAgain \/ PollEnds
  BY <1>3, PollKeeps
<1>4. CASE Fail
  BY <1>4, FailKeeps
<1>5. CASE IdentifyEnds
  BY <1>5, IdentifyEndsKeeps
<1>6. CASE ReadEnds
  BY <1>6, ReadEndsKeeps
<1>7. CASE WriteEnds
  BY <1>7, WriteEndsKeeps
<1>8. ASSUME NEW s \in AllSlots, DriveCompletes(s)
      PROVE  AtaInv'
  BY <1>8, CompletionKeeps
<1>9. ASSUME NEW s \in AllSlots, NoSuchDisk(s)
      PROVE  AtaInv'
  <2>1. /\ UNCHANGED <<machine, regs, drive, device, call, shadow, wrapped>>
        /\ reply' = [op |-> "none", ok |-> FALSE]
    BY <1>9 DEF NoSuchDisk
  <2>2. ReadsSeeWrites'
    BY <2>1 DEF ReadsSeeWrites
  <2> QED BY <2>1, <2>2, IdleKeeps
<1>10. ASSUME NEW s \in AllSlots, NEW lba \in Lbas, ReadDisk(s, lba)
       PROVE  AtaInv'
  <2>1. call = NoCall /\ device[s].type = "DISK_ATA" /\ Begin("read", s, lba, Blank)
    BY <1>10 DEF ReadDisk, Ready
  <2> QED BY <2>1, BeginKeeps
<1>11. ASSUME NEW s \in AllSlots, NEW lba \in Lbas, NEW v \in Values, WriteDisk(s, lba, v)
       PROVE  AtaInv'
  <2>1. call = NoCall /\ device[s].type = "DISK_ATA" /\ Begin("write", s, lba, v)
    BY <1>11 DEF WriteDisk, Ready
  <2> QED BY <2>1, BeginKeeps
<1>12. CASE UNCHANGED vars
  <2>1. UNCHANGED <<machine, regs, drive, device, call, shadow, wrapped, reply>>
    BY <1>12 DEF vars
  <2>2. ReadsSeeWrites'
    BY <2>1 DEF AtaInv, ReadsSeeWrites, Reliable, Prompt
  <2> QED BY <2>1, <2>2, IdleKeeps
<1> QED
  BY <1>1, <1>2, <1>3, <1>4, <1>5, <1>6, <1>7, <1>8, <1>9, <1>10, <1>11, <1>12
     DEF Next, Driver

LEMMA AtaInit ==
  ASSUME Init
  PROVE  AtaInv
<1>1. /\ machine \in Machines /\ call = NoCall /\ reply = [op |-> "none", ok |-> FALSE]
      /\ device = [s \in AllSlots |-> NoDevice] /\ shadow = [s \in AllSlots |-> <<>>]
      /\ wrapped = {}
      /\ DOMAIN drive = AllSlots
      /\ \A s \in AllSlots :
           drive[s] = [st |-> "idle", cmd |-> "none", lba |-> 0, more |-> FALSE,
                       data |-> Blank, disk |-> <<>>]
      /\ regs = [c \in Channels |->
           [drive |-> [sub |-> "master", top |-> 0], count |-> <<0, 0>>, low |-> <<0, 0>>,
            mid |-> <<0, 0>>, high |-> <<0, 0>>]]
  BY DEF Init
<1>2. ~Calling
  BY <1>1 DEF Calling, NoCall
<1>3. \A c \in Channels : <<c, "master">> \in AllSlots
  BY MachineAssumption DEF Channels
<1>4. TypeOK
  <2>1. \A s \in AllSlots :
          /\ DOMAIN drive[s] = {"st", "cmd", "lba", "more", "data", "disk"}
          /\ drive[s].st \in States
    BY <1>1 DEF States
  <2>2. \A c \in Channels :
          /\ regs[c].drive.sub = "master"
          /\ DOMAIN regs[c] = {"drive"} \cup Bytes
          /\ \A b \in Bytes : DOMAIN regs[c][b] = {1, 2}
    <3> TAKE c \in Channels
    <3>1. regs[c] = [drive |-> [sub |-> "master", top |-> 0], count |-> <<0, 0>>,
                     low |-> <<0, 0>>, mid |-> <<0, 0>>, high |-> <<0, 0>>]
      BY <1>1
    <3>2. \A b \in Bytes : regs[c][b] = <<0, 0>>
      BY <3>1 DEF Bytes
    <3>3. DOMAIN <<0, 0>> = {1, 2}
      OBVIOUS
    <3>4. DOMAIN regs[c] = {"drive"} \cup Bytes /\ regs[c].drive.sub = "master"
      BY <3>1 DEF Bytes
    <3> QED BY <3>2, <3>3, <3>4
  <2> QED BY <1>1, <1>3, <2>1, <2>2 DEF TypeOK
<1>5. CallOK /\ OutsLeft /\ RegsOK
  BY <1>2 DEF CallOK, OutsLeft, RegsOK
<1>6. ASSUME NEW s \in AllSlots
      PROVE  DriveOK(s) /\ ContentOK(s)
  <2>1. drive[s].st = "idle" /\ drive[s].disk = <<>> /\ shadow[s] = <<>>
    BY <1>1
  <2>2. ~Mine(s) /\ ~Written(s)
    BY <1>2 DEF Mine, Written
  <2>3. DriveOK(s)
    BY <2>1, <2>2 DEF DriveOK
  <2>4. ContentOK(s)
    BY <2>1 DEF ContentOK, Settled
  <2> QED BY <2>3, <2>4
<1>7. FoundAreReal
  BY <1>1 DEF FoundAreReal
<1>8. ReadsSeeWrites
  BY <1>1 DEF ReadsSeeWrites
<1> QED BY <1>4, <1>5, <1>6, <1>7, <1>8 DEF AtaInv

-----------------------------------------------------------------------------
(* The theorems                                                            *)

\* The inductive invariant holds throughout: on channels of prompt drives the
\* registers follow the accesses of ATA_read and ATA_write, a drive works only on
\* what it was sent last, and the disks hold what acknowledged writes left.
THEOREM AtaInvariance == Spec => []AtaInv
<1>1. Init => AtaInv
  BY AtaInit
<1>2. AtaInv /\ [Next]_vars => AtaInv'
  BY AtaStep
<1> QED BY <1>1, <1>2, PTL DEF Spec

\* The order in which ATA_read and ATA_write send the two bytes of each register
\* makes them reach every sector a disk has, with 28 bits of address and with 48: a
\* read succeeds and returns what the last acknowledged write to that sector left.
THEOREM ReadsAreTrue == Spec => []ReadsSeeWrites
<1>1. AtaInv => ReadsSeeWrites
  BY DEF AtaInv
<1> QED BY <1>1, AtaInvariance, PTL

\* What get_disk_devices records as an ATA disk is one, and the disk it says.
THEOREM DisksAreReal == Spec => []FoundAreReal
<1>1. AtaInv => FoundAreReal
  BY DEF AtaInv
<1> QED BY <1>1, AtaInvariance, PTL
=============================================================================
