--------------------------------- MODULE Ata ---------------------------------
(***************************************************************************)
(* The ATA PIO driver (drivers/disk/ata/ata.c) behind get_disk_devices,    *)
(* read_disk and write_disk (drivers/disk/common.c): the drives of the     *)
(* channels are identified, then one sector at a time is read or written.  *)
(* One step is one register access of the driver, or the transfer of the   *)
(* 256 words of a sector, or the completion of a command by a drive.       *)
(*                                                                         *)
(* The drives are external.  The registers of a channel keep the last two  *)
(* bytes written to each; a busy drive ignores what is written, registers  *)
(* and commands alike.  A prompt drive answers before the driver looks at  *)
(* it a second time; any other may still be busy when the driver has given *)
(* up, or is back with its next request.  A register holds one digit in    *)
(* base Byte, and the drive register's low half one in base Nibble.        *)
(***************************************************************************)
EXTENDS Integers, Sequences, SequencesExt

CONSTANTS
  Slots,      \* <<channel, sub>> in the order of get_disk_devices
  Machines,   \* functions from slots to [kind, lba48, capacity, prompt, faulty]
  Byte, Nibble,
  Lbas,       \* the 32-bit addresses that callers use
  Values,     \* sector contents
  Blank,      \* what a new disk holds
  MaxPolls,   \* 1000000: bound of wait_for_data
  MaxCalls    \* bound on the reads and writes made

\* What the digits of an address count, the lowest first.
Weight ==
  <<1, Byte, Byte * Byte, Byte * Byte * Byte, Byte * Byte * Byte * Byte,
    Byte * Byte * Byte * Byte * Byte>>

ASSUME AtaAssumption ==
  /\ {Byte, Nibble} \subseteq Nat \ {0, 1} /\ {MaxPolls, MaxCalls} \subseteq Nat
  /\ Lbas \subseteq 0 .. Weight[5] - 1 /\ Blank \notin Values

AllSlots == Range(Slots)
Channels == {s[1] : s \in AllSlots}

Drives ==
  [kind : {"disk", "packet", "none"}, lba48 : BOOLEAN, capacity : Nat,
   prompt : BOOLEAN, faulty : BOOLEAN]

\* The slots of a channel are a master and perhaps a slave, and a disk that takes
\* 28-bit addresses only has no sectors beyond them.
ASSUME MachineAssumption ==
  /\ \A s \in AllSlots : s = <<s[1], s[2]>> /\ <<s[1], "master">> \in AllSlots
  /\ Machines \subseteq [AllSlots -> Drives]
  /\ \A m \in Machines, s \in AllSlots :
       m[s].lba48 \/ m[s].capacity <= Nibble * Weight[4]

VARIABLES
  machine,
  regs,     \* per channel: the drive register, and <<last, one before>> of the others
  drive,    \* per slot: the state of the drive and its sectors
  device,   \* per slot: the disk_device_t, or NoDevice before it is identified
  call,     \* the call in progress, or NoCall
  reply,    \* what the last call returned
  calls,    \* reads and writes made so far
  shadow,   \* history: per slot, the sectors as acknowledged writes leave them
  wrapped   \* history: slots written to past what 28 bits address

vars == <<machine, regs, drive, device, call, reply, calls, shadow, wrapped>>

NoCall   == [op |-> "none"]
NoDevice == [type |-> "unknown"]
DiskNone == [type |-> "DISK_NONE"]
Garbage  == "garbage"    \* words read from a drive that has no sector to give

-----------------------------------------------------------------------------
(* The drives                                                              *)

\* The address that a command takes from the registers.
Address(r, ext) ==
  r.low[1] + r.mid[1] * Weight[2] + r.high[1] * Weight[3]
    + IF ext THEN r.low[2] * Weight[4] + r.mid[2] * Weight[5] + r.high[2] * Weight[6]
             ELSE r.drive.top * Weight[4]

Count(r, ext) == r.count[1] + IF ext THEN r.count[2] * Byte ELSE 0

\* What sector lba holds, given the sectors written so far.
Sector(written, lba) == IF lba \in DOMAIN written THEN written[lba] ELSE Blank

Put(written, lba, data) ==
  [a \in DOMAIN written \cup {lba} |-> IF a = lba THEN data ELSE written[a]]

Busy(s)  == drive[s].st = "busy"
Stays(s) == Busy(s) /\ machine[s].prompt     \* will not be seen busy

\* A command ends: with data to transfer, with an error, or after the commit of
\* the data of a write.
Completions(s) ==
  LET m == machine[s]  v == drive[s]
      failed == [v EXCEPT !.st = "err"]
  IN IF v.cmd = "commit"
       THEN {[v EXCEPT !.st = "idle", !.disk = Put(@, v.lba, v.data)]}
              \cup (IF m.faulty THEN {failed} ELSE {})
     ELSE (IF m.kind = "packet" \/ (v.cmd # "identify" /\ v.lba >= m.capacity)
             THEN {failed} ELSE {[v EXCEPT !.st = "drq"]})
          \cup (IF m.faulty THEN {failed} ELSE {})

DriveCompletes(s) ==
  /\ Busy(s)
  /\ \E v \in Completions(s) : drive' = [drive EXCEPT ![s] = v]
  /\ UNCHANGED <<machine, regs, device, call, reply, calls, shadow, wrapped>>

-----------------------------------------------------------------------------
(* ATA_read and ATA_write: the registers they write, in order              *)

Digit(lba, k) == (lba \div Weight[k + 1]) % Byte
Out(reg, val) == [reg |-> reg, val |-> val]
Select(s, top) == Out("drive", [sub |-> s[2], top |-> top])

\* Mutant: of the two bytes of each register, the low one first.
OutsLba48LowFirst(s, lba) ==
  <<Select(s, 0),
    Out("count", 1),
    Out("low", Digit(lba, 0)), Out("mid", Digit(lba, 1)), Out("high", Digit(lba, 2)),
    Out("count", 0),
    Out("low", Digit(lba, 3)), Out("mid", Digit(lba, 4)), Out("high", Digit(lba, 5))>>

OutsLba48(s, lba) ==
  <<Select(s, 0),
    Out("count", 0),
    Out("low", Digit(lba, 3)), Out("mid", Digit(lba, 4)), Out("high", Digit(lba, 5)),
    Out("count", 1),
    Out("low", Digit(lba, 0)), Out("mid", Digit(lba, 1)), Out("high", Digit(lba, 2))>>

OutsLba28(s, lba) ==
  <<Select(s, Digit(lba, 3) % Nibble),
    Out("count", 1),
    Out("low", Digit(lba, 0)), Out("mid", Digit(lba, 1)), Out("high", Digit(lba, 2))>>

Outs(op, s, lba) ==
  IF op = "identify" THEN <<Select(s, 0), Out("cmd", [op |-> op, ext |-> FALSE])>>
  ELSE LET ext == device[s].lba48 IN
       Append(IF ext THEN OutsLba48(s, lba) ELSE OutsLba28(s, lba),
              Out("cmd", [op |-> op, ext |-> ext]))

Begin(op, s, lba, data) ==
  /\ call' = [op |-> op, pc |-> "out", slot |-> s, lba |-> lba, data |-> data,
              outs |-> Outs(op, s, lba), polls |-> 0]
  /\ UNCHANGED <<machine, regs, drive, device, reply, shadow, wrapped>>

\* get_disk_devices identifies one drive after the other.
Identify ==
  /\ call = NoCall
  /\ \E i \in DOMAIN Slots :
       /\ device[Slots[i]] = NoDevice
       /\ \A j \in 1 .. i - 1 : device[Slots[j]] # NoDevice
       /\ Begin("identify", Slots[i], 0, Blank)
  /\ UNCHANGED calls

Ready(s) ==
  /\ call = NoCall /\ \A t \in AllSlots : device[t] # NoDevice
  /\ calls < MaxCalls /\ calls' = calls + 1

ReadDisk(s, lba) ==
  /\ Ready(s) /\ device[s].type = "DISK_ATA"
  /\ Begin("read", s, lba, Blank)

WriteDisk(s, lba, v) ==
  /\ Ready(s) /\ device[s].type = "DISK_ATA"
  /\ Begin("write", s, lba, v)

\* read_disk and write_disk on a DISK_NONE.
NoSuchDisk(s) ==
  /\ Ready(s) /\ device[s] = DiskNone
  /\ reply' = [op |-> "none", ok |-> FALSE]
  /\ UNCHANGED <<machine, regs, drive, device, call, shadow, wrapped>>

\* outb: all drives of the channel see the write; a command is for the selected one.
OutB ==
  /\ call.op # "none" /\ call.pc = "out"
  /\ LET o == Head(call.outs)  r == regs[call.slot[1]]
         selected == <<call.slot[1], r.drive.sub>>
         there == selected \in AllSlots /\ machine[selected].kind # "none"
     IN /\ there => ~Stays(selected)
        /\ IF there /\ Busy(selected) THEN UNCHANGED <<regs, drive>>
           ELSE IF o.reg = "cmd"
             THEN /\ drive' = IF ~there THEN drive ELSE
                       [drive EXCEPT ![selected] =
                          [@ EXCEPT !.st = "busy", !.cmd = o.val.op,
                                    !.lba = Address(r, o.val.ext),
                                    !.more = Count(r, o.val.ext) # 1 /\ o.val.op # "identify"]]
                  /\ UNCHANGED regs
           ELSE /\ regs' = [regs EXCEPT ![call.slot[1]][o.reg] =
                              IF o.reg = "drive" THEN o.val ELSE <<o.val, @[1]>>]
                /\ UNCHANGED drive
        /\ call' = [call EXCEPT !.outs = Tail(@), !.pc = IF o.reg = "cmd" THEN "wait" ELSE @]
  /\ UNCHANGED <<machine, device, reply, calls, shadow, wrapped>>

-----------------------------------------------------------------------------
(* wait_for_data                                                           *)

Selected == <<call.slot[1], regs[call.slot[1]].drive.sub>>

\* Mutant: nothing counts the polls.
PollsUncounted == call.polls

Polls == call.polls + 1

\* The error bit or the data bit ends the wait; the busy bit is not looked at.
PollAgain ==
  /\ call.op # "none" /\ call.pc = "wait" /\ call.polls < MaxPolls
  /\ drive[Selected].st \notin {"drq", "err"} /\ ~Stays(Selected)
  /\ call' = [call EXCEPT !.polls = Polls]
  /\ UNCHANGED <<machine, regs, drive, device, reply, calls, shadow, wrapped>>

PollEnds ==
  /\ call.op # "none" /\ call.pc = "wait" /\ ~Stays(Selected)
  /\ drive[Selected].st \in {"drq", "err"} \/ call.polls >= MaxPolls
  /\ call' = [call EXCEPT !.pc = drive[Selected].st]
  /\ UNCHANGED <<machine, regs, drive, device, reply, calls, shadow, wrapped>>

-----------------------------------------------------------------------------
(* The end of the call                                                     *)

\* Mutant: only the error bit is looked at after IDENTIFY.
NoDataUnseen == call.pc = "err"

NoData == call.pc # "drq"

Fail ==
  /\ call.op # "none" /\ call.pc \notin {"out", "wait"} /\ NoData
  /\ call' = NoCall
  /\ device' = IF call.op = "identify" THEN [device EXCEPT ![call.slot] = DiskNone] ELSE device
  /\ reply' = [op |-> call.op, ok |-> FALSE, slot |-> call.slot, lba |-> call.lba]
  /\ UNCHANGED <<machine, regs, drive, calls, shadow, wrapped>>

\* What the drive does once a sector has been transferred.
Transferred(v, next) == [v EXCEPT !.st = IF v.more THEN "drq" ELSE next]

IdentifyEnds ==
  /\ call.op = "identify" /\ call.pc \notin {"out", "wait"} /\ ~NoData
  /\ LET m == machine[Selected] IN
     device' = [device EXCEPT ![call.slot] =
                  [type |-> "DISK_ATA", lba48 |-> m.lba48, size |-> m.capacity]]
  /\ drive' = [drive EXCEPT ![Selected] = Transferred(@, "idle")]
  /\ call' = NoCall
  /\ reply' = [op |-> "identify", ok |-> TRUE]
  /\ UNCHANGED <<machine, regs, calls, shadow, wrapped>>

ReadEnds ==
  /\ call.op = "read" /\ call.pc = "drq"
  /\ LET v == drive[Selected] IN
     reply' = [op |-> "read", ok |-> TRUE, slot |-> call.slot, lba |-> call.lba,
               data |-> IF v.cmd = "read" THEN Sector(v.disk, v.lba) ELSE Garbage]
  /\ drive' = [drive EXCEPT ![Selected] = Transferred(@, "idle")]
  /\ call' = NoCall
  /\ UNCHANGED <<machine, regs, device, calls, shadow, wrapped>>

\* The words are handed over, and that is the end of it: nobody waits for the drive
\* to have written them.
WriteEnds ==
  /\ call.op = "write" /\ call.pc = "drq"
  /\ drive' = [drive EXCEPT ![Selected] =
                 IF @.cmd = "write"
                   THEN [Transferred(@, "busy") EXCEPT !.cmd = "commit", !.data = call.data]
                   ELSE Transferred(@, "idle")]
  /\ shadow' = IF call.lba < machine[call.slot].capacity
                 THEN [shadow EXCEPT ![call.slot] = Put(@, call.lba, call.data)] ELSE shadow
  /\ wrapped' = IF call.lba < machine[call.slot].capacity
                  THEN wrapped ELSE wrapped \cup {call.slot}
  /\ call' = NoCall
  /\ reply' = [op |-> "write", ok |-> TRUE, slot |-> call.slot, lba |-> call.lba]
  /\ UNCHANGED <<machine, regs, device, calls>>

-----------------------------------------------------------------------------
Init ==
  /\ machine \in Machines
  /\ regs = [c \in Channels |->
       [drive |-> [sub |-> "master", top |-> 0], count |-> <<0, 0>>, low |-> <<0, 0>>,
        mid |-> <<0, 0>>, high |-> <<0, 0>>]]
  /\ drive = [s \in AllSlots |->
       [st |-> "idle", cmd |-> "none", lba |-> 0, more |-> FALSE, data |-> Blank,
        disk |-> <<>>]]
  /\ device = [s \in AllSlots |-> NoDevice]
  /\ call = NoCall /\ reply = [op |-> "none", ok |-> FALSE] /\ calls = 0
  /\ shadow = [s \in AllSlots |-> <<>>]
  /\ wrapped = {}

Driver == Identify \/ OutB \/ PollAgain \/ PollEnds \/ Fail \/ IdentifyEnds \/ ReadEnds \/ WriteEnds

Next ==
  \/ Driver
  \/ \E s \in AllSlots :
       \/ DriveCompletes(s) \/ NoSuchDisk(s)
       \/ \E lba \in Lbas : ReadDisk(s, lba) \/ \E v \in Values : WriteDisk(s, lba, v)

\* The kernel is one thread that nothing preempts; a prompt drive answers, while
\* another may stay busy for good.
Spec ==
  /\ Init /\ [][Next]_vars
  /\ WF_vars(Driver)
  /\ \A s \in AllSlots : WF_vars(machine[s].prompt /\ DriveCompletes(s))

-----------------------------------------------------------------------------
(* Properties                                                              *)

\* Both drives of a channel write to the same registers, and a busy one keeps the
\* driver from selecting the other.
Prompt(s)   == \A t \in AllSlots : t[1] = s[1] => machine[t].prompt
Reliable(s) == Prompt(s) /\ ~machine[s].faulty

\* On a disk without faults, on a channel of prompt drives, whatever the other drive
\* of the channel was sent and whichever way each is addressed, a read or a write of
\* a sector that the disk has succeeds, and a read returns what the last acknowledged
\* write to that sector left; one past the end fails where 48 bits of address are sent.
ReadsSeeWrites ==
  LET r == reply IN
  call = NoCall /\ r.op \in {"read", "write"} /\ Reliable(r.slot) =>
    /\ r.lba < machine[r.slot].capacity =>
         /\ r.ok
         /\ r.op = "read" /\ r.slot \notin wrapped => r.data = Sector(shadow[r.slot], r.lba)
    /\ r.lba >= machine[r.slot].capacity /\ machine[r.slot].lba48 => ~r.ok

\* On a channel of prompt drives, a DISK_ATA is recorded for exactly the slots with a
\* disk, and with that disk's own addressing and size, also when the other drive is
\* absent, faulty or no disk.
FoundAreReal ==
  \A s \in AllSlots :
    device[s] # NoDevice /\ Reliable(s) =>
      IF machine[s].kind = "disk"
        THEN device[s] = [type |-> "DISK_ATA", lba48 |-> machine[s].lba48,
                          size |-> machine[s].capacity]
        ELSE device[s] = DiskNone

\* Every call returns, whatever the drive does: an absent one, one that stays busy,
\* one that answers late.
CallReturns == (call # NoCall) ~> (call = NoCall)
=============================================================================
