-------------------------------- MODULE Sata --------------------------------
(***************************************************************************)
(* The SATA driver (drivers/disk/sata/sata.c) and the AHCI host adapter it *)
(* drives.  The kernel runs one thread: SATA_get_disks configures and      *)
(* identifies every port, then SATA_read reads sectors.  The adapter runs  *)
(* beside it: it starts and stops its engines, fetches commands that the   *)
(* driver issued, writes sectors into the driver's buffers and completes   *)
(* commands or fails them, whenever it likes.                              *)
(*                                                                         *)
(* A sector's contents are named by its port and its address.  The low     *)
(* heap is a row of frames from which the lowest free one is taken, as     *)
(* HeapContract says: one frame is one sector buffer, or all that          *)
(* SATA_port_configure allocates for a port.                               *)
(*                                                                         *)
(* memset(p, 0, n) writes from address 2p on (see MemUtils), so no call of *)
(* it clears the buffer it is meant to clear.  What it overwrites instead  *)
(* is not part of this model: the low heap's data starts megabytes up, the *)
(* driver's structures take kilobytes, so twice the address of one of them *)
(* is never inside another.  The FIS on the stack is not cleared either:   *)
(* the bytes of it that are not assigned hold whatever the stack held, and *)
(* the adapter's Fault also stands for a disk that rejects them.           *)
(***************************************************************************)
EXTENDS Integers, Sequences, FiniteSets, FiniteSetsExt, SequencesExt

CONSTANTS
  NPorts,     \* ports of the adapters, in the order the driver visits them
  NSlots,     \* command slots of a port: ((cap >> 8) & 0x1F) + 1
  Lbas,       \* sector addresses
  HeapSizes,  \* frames the low heap may have
  Timings     \* TRUE: a port that works answers before the driver gives up

ASSUME SataAssumption ==
  /\ NPorts \in Nat \ {0}
  /\ NSlots \in 1 .. 32
  /\ HeapSizes \subseteq Nat
  /\ Timings \subseteq BOOLEAN

Ports == 1 .. NPorts
Slots == 0 .. NSlots - 1
Kinds == {"sata", "atapi", "unknown", "absent"}

Nothing == <<0, "none">>                       \* contents of a fresh frame
Identity == "identify"                         \* the address IDENTIFY stands for
Sector(p, l) == <<p, l>>

VARIABLES
  drv,     \* the driver's call in progress
  disks,   \* ports found, in order: the array SATA_get_disks returns
  frames,  \* number of frames of the low heap
  used,    \* frames in use
  mem,     \* contents of every frame
  table,   \* command tables: what slot s of port p asks for
  result,  \* the last SATA_read: what was asked and what was delivered
  kind,    \* what is attached to each port
  punctual,  \* whether the ports that work answer in time
  hba      \* the adapter's registers and state, per port

driverVars == <<drv, disks, used, table, result>>
vars == <<drv, disks, frames, used, mem, table, result, kind, punctual, hba>>

NoResult == [ok |-> FALSE, want |-> Nothing, got |-> Nothing]

\* run: the command the adapter is executing.  wedged: it stopped on an error,
\* and will not fetch commands until its engine is restarted.
IdleRun == [active |-> FALSE, buf |-> 0, lba |-> Identity, dma |-> FALSE]

\* Registers that the driver reads: ci, as the issued slots in the order of issue,
\* tfd (busy, err), is (tfes) and cmd (st, cr, fre, fr).
PortState(running) ==
  [ci |-> <<>>, busy |-> FALSE, err |-> FALSE, tfes |-> FALSE, wedged |-> FALSE,
   st |-> running, cr |-> running, fre |-> running, fr |-> running, run |-> IdleRun]

Goto(pc) == drv' = [drv EXCEPT !.pc = pc]

\* Between calls.
Idle == [pc |-> "idle", op |-> "none", port |-> 1, lba |-> Identity, buf |-> 0,
         slot |-> 0]

\* The lowest free frame; 0 is NULL.
Free == (1 .. frames) \ used
Lowest == IF Free = {} THEN 0 ELSE Min(Free)

P == drv.port

-----------------------------------------------------------------------------
(* SATA_get_disks and SATA_port_configure                                  *)

Halt == Goto("halted")

\* Mutant: a port without a SATA disk ends the loop.
SkipRest ==
  /\ drv.pc = "probe" /\ P \in Ports
  /\ kind[P] # "sata"
  /\ drv' = [drv EXCEPT !.port = NPorts + 1]
  /\ UNCHANGED <<disks, frames, used, mem, table, result, kind, punctual, hba>>

\* Not a SATA disk: the port is skipped.
SkipPort ==
  /\ drv.pc = "probe" /\ P \in Ports
  /\ kind[P] # "sata"
  /\ drv' = [drv EXCEPT !.port = P + 1]
  /\ UNCHANGED <<disks, frames, used, mem, table, result, kind, punctual, hba>>

\* A SATA disk: allocate id_buff and stop the command engine.
ProbePort ==
  /\ drv.pc = "probe" /\ P \in Ports
  /\ kind[P] = "sata" /\ Lowest # 0
  /\ drv' = [drv EXCEPT !.pc = "wait_cr", !.buf = Lowest]
  /\ used' = used \cup {Lowest}
  /\ hba' = [hba EXCEPT ![P].st = FALSE]
  /\ UNCHANGED <<disks, frames, mem, table, result, kind, punctual>>

\* Mutant: SATA_port_configure does not wait for the command engine.
EngineStoppedUnchecked == drv.pc = "wait_cr"

EngineStopped == drv.pc = "wait_cr" /\ ~hba[P].cr

\* The command engine has stopped: stop the reception of FISes.
StopFis ==
  /\ EngineStopped
  /\ hba' = [hba EXCEPT ![P].fre = FALSE]
  /\ Goto("wait_fr")
  /\ UNCHANGED <<disks, frames, used, mem, table, result, kind, punctual>>

\* Reception has stopped: allocate command list, FIS area and command tables,
\* program their addresses and start both again.  IDENTIFY comes next.
ConfigurePort ==
  /\ drv.pc = "wait_fr" /\ ~hba[P].fr
  /\ Lowest # 0
  /\ used' = used \cup {Lowest}
  /\ hba' = [hba EXCEPT ![P].fre = TRUE, ![P].st = TRUE]
  /\ drv' = [drv EXCEPT !.pc = "find_slot", !.op = "identify", !.lba = Identity]
  /\ UNCHANGED <<disks, frames, mem, table, result, kind, punctual>>

\* No memory for id_buff or for the port's structures.
NoMemory ==
  /\ \/ drv.pc = "probe" /\ P \in Ports /\ kind[P] = "sata"
     \/ drv.pc = "wait_fr" /\ ~hba[P].fr
  /\ Lowest = 0
  /\ Halt
  /\ UNCHANGED <<disks, frames, used, mem, table, result, kind, punctual, hba>>

\* An engine did not stop before the driver gave up.
ConfigureTimeout ==
  /\ ~punctual
  /\ \/ drv.pc = "wait_cr" /\ hba[P].cr
     \/ drv.pc = "wait_fr" /\ hba[P].fr
  /\ Halt
  /\ UNCHANGED <<disks, frames, used, mem, table, result, kind, punctual, hba>>

\* Every port has been visited.
ScanDone ==
  /\ drv.pc = "probe" /\ P \notin Ports
  /\ drv' = Idle
  /\ UNCHANGED <<disks, frames, used, mem, table, result, kind, punctual, hba>>

-----------------------------------------------------------------------------
(* SATA_execute_command                                                    *)

\* Mutant: the first slot is always used.
FirstSlot == 0

\* SATA_find_command_slot: the first slot that is not occupied, or -1.
FindCommandSlot ==
  LET open == Slots \ Range(hba[P].ci) IN IF open = {} THEN -1 ELSE Min(open)

FindSlot ==
  /\ drv.pc = "find_slot"
  /\ FindCommandSlot >= 0
  /\ drv' = [drv EXCEPT !.pc = "wait_ready", !.slot = FindCommandSlot]
  /\ UNCHANGED <<disks, frames, used, mem, table, result, kind, punctual, hba>>

\* The port is neither busy nor requesting data: fill in the command table.
Prepare ==
  /\ drv.pc = "wait_ready" /\ ~hba[P].busy
  /\ table' = [table EXCEPT ![P][drv.slot] = [buf |-> drv.buf, lba |-> drv.lba]]
  /\ Goto("issue")
  /\ UNCHANGED <<disks, frames, used, mem, result, kind, punctual, hba>>

\* Clear the port's status and issue the command.
Issue ==
  /\ drv.pc = "issue"
  /\ hba' = [hba EXCEPT ![P].tfes = FALSE, ![P].ci = Append(@, drv.slot)]
  /\ Goto("wait_done")
  /\ UNCHANGED <<disks, frames, used, mem, table, result, kind, punctual>>

Waiting == drv.pc = "wait_done" /\ drv.slot \in Range(hba[P].ci)

\* Mutant: the wait for completion has no timeout.
TimeoutReadyOnly ==
  /\ drv.pc = "wait_ready" /\ hba[P].busy
  /\ ~punctual \/ hba[P].wedged

\* The wait for readiness or for completion ran out of polls.  The command, if
\* it was issued, stays issued.
Timeout ==
  /\ \/ drv.pc = "wait_ready" /\ hba[P].busy
     \/ Waiting /\ ~hba[P].tfes
  /\ ~punctual \/ hba[P].wedged

NoSlot == drv.pc = "find_slot" /\ FindCommandSlot < 0

TaskFileError == Waiting /\ hba[P].tfes

Finished == drv.pc = "wait_done" /\ drv.slot \notin Range(hba[P].ci)

\* Mutant: what the port says of the command is not looked at.
SucceededUnchecked == Finished

Succeeded == Finished /\ ~hba[P].err /\ ~hba[P].tfes
Failed    == \/ NoSlot \/ Timeout \/ TaskFileError
             \/ Finished /\ (hba[P].err \/ hba[P].tfes)

-----------------------------------------------------------------------------
(* What the callers of SATA_execute_command do with its result             *)

\* SATA_get_disks: the disk is added to the array and id_buff is freed.
Identified ==
  /\ drv.op = "identify" /\ Succeeded
  /\ disks' = Append(disks, P)
  /\ used' = used \ {drv.buf}
  /\ drv' = [drv EXCEPT !.pc = "probe", !.port = P + 1, !.buf = 0]
  /\ UNCHANGED <<frames, mem, table, result, kind, punctual, hba>>

IdentifyFailed ==
  /\ drv.op = "identify" /\ Failed
  /\ Halt
  /\ UNCHANGED <<disks, frames, used, mem, table, result, kind, punctual, hba>>

\* Mutant: the buffer is freed before the command is executed.
ReadFreedEarly(p, l) ==
  /\ drv.pc = "idle" /\ p \in Range(disks)
  /\ drv' = [pc |-> "find_slot", op |-> "read", port |-> p, lba |-> l,
             buf |-> Lowest, slot |-> 0]
  /\ result' = NoResult
  /\ UNCHANGED <<disks, frames, used, mem, table, kind, punctual, hba>>

\* SATA_read allocates its buffer and executes a READ.  It would return false
\* without a free frame: BufferAtHand says that there always is one.
Read(p, l) ==
  /\ drv.pc = "idle" /\ p \in Range(disks)
  /\ used' = used \cup {Lowest}
  /\ drv' = [pc |-> "find_slot", op |-> "read", port |-> p, lba |-> l,
             buf |-> Lowest, slot |-> 0]
  /\ result' = NoResult
  /\ UNCHANGED <<disks, frames, mem, table, kind, punctual, hba>>

\* Mutant: the buffer is freed on success only.
ReadFailedLeak ==
  /\ drv.op = "read" /\ Failed
  /\ drv' = Idle
  /\ UNCHANGED <<disks, frames, used, mem, table, result, kind, punctual, hba>>

\* Success: the buffer is copied to the caller; in any case it is freed.
ReadDone ==
  /\ drv.op = "read" /\ Succeeded
  /\ result' = [ok |-> TRUE, want |-> Sector(P, drv.lba), got |-> mem[drv.buf]]
  /\ used' = used \ {drv.buf}
  /\ drv' = Idle
  /\ UNCHANGED <<disks, frames, mem, table, kind, punctual, hba>>

ReadFailed ==
  /\ drv.op = "read" /\ Failed
  /\ used' = used \ {drv.buf}
  /\ drv' = Idle
  /\ UNCHANGED <<disks, frames, mem, table, result, kind, punctual, hba>>

-----------------------------------------------------------------------------
(* The host adapter                                                        *)

Hba(p, state) ==
  /\ hba' = [hba EXCEPT ![p] = state]
  /\ UNCHANGED <<driverVars, frames, mem, kind, punctual>>

\* The engines follow their enable bits.  Stopping forgets issued commands.
StopCommandEngine(p) ==
  /\ hba[p].cr /\ ~hba[p].st
  /\ Hba(p, [hba[p] EXCEPT !.cr = FALSE, !.ci = <<>>, !.run = IdleRun,
                           !.wedged = FALSE])

StartCommandEngine(p) ==
  /\ hba[p].st /\ ~hba[p].cr
  /\ Hba(p, [hba[p] EXCEPT !.cr = TRUE])

FollowFisEnable(p) ==
  /\ hba[p].fr # hba[p].fre
  /\ Hba(p, [hba[p] EXCEPT !.fr = hba[p].fre])

Fetch(p) ==
  /\ hba[p].cr /\ hba[p].fr /\ ~hba[p].wedged
  /\ ~hba[p].run.active
  /\ hba[p].ci # <<>>
  /\ LET cmd == table[p][Head(hba[p].ci)]
     IN Hba(p, [hba[p] EXCEPT !.busy = TRUE, !.err = FALSE,
                  !.run = [active |-> TRUE, buf |-> cmd.buf, lba |-> cmd.lba,
                           dma |-> FALSE]])

Dma(p) ==
  /\ hba[p].run.active /\ ~hba[p].run.dma
  /\ mem' = [mem EXCEPT ![hba[p].run.buf] = Sector(p, hba[p].run.lba)]
  /\ hba' = [hba EXCEPT ![p].run.dma = TRUE]
  /\ UNCHANGED <<driverVars, frames, kind, punctual>>

Complete(p) ==
  /\ hba[p].run.active /\ hba[p].run.dma
  /\ Hba(p, [hba[p] EXCEPT !.busy = FALSE, !.ci = Tail(@),
                           !.run = IdleRun])

\* A command fails: some adapters clear its slot, some leave it issued.
Fault(p) ==
  /\ hba[p].run.active
  /\ \E ci \in {hba[p].ci, Tail(hba[p].ci)} :
       Hba(p, [hba[p] EXCEPT !.busy = FALSE, !.err = TRUE, !.tfes = TRUE,
                             !.ci = ci, !.wedged = TRUE, !.run = IdleRun])

-----------------------------------------------------------------------------
Init ==
  /\ kind \in [Ports -> Kinds]
  /\ punctual \in Timings
  /\ \E running \in [Ports -> BOOLEAN] :
       hba = [p \in Ports |-> PortState(running[p])]
  /\ drv = [Idle EXCEPT !.pc = "probe", !.op = "identify"]
  /\ disks = <<>>
  /\ frames \in HeapSizes
  /\ used = {}
  /\ mem = [f \in 1 .. frames |-> Nothing]
  /\ table = [p \in Ports |-> [s \in Slots |-> [buf |-> 0, lba |-> Identity]]]
  /\ result = NoResult

Driver ==
  \/ SkipPort \/ ProbePort \/ StopFis \/ ConfigurePort \/ NoMemory
  \/ ConfigureTimeout \/ ScanDone
  \/ FindSlot \/ Prepare \/ Issue
  \/ Identified \/ IdentifyFailed \/ ReadDone \/ ReadFailed

Adapter(p) ==
  \/ StopCommandEngine(p) \/ StartCommandEngine(p) \/ FollowFisEnable(p)
  \/ Fetch(p) \/ Dma(p) \/ Complete(p) \/ Fault(p)

Next ==
  \/ Driver
  \/ \E p \in Ports, l \in Lbas : Read(p, l)
  \/ \E p \in Ports : Adapter(p)

\* The processor keeps executing the driver, every poll loop is bounded, and an
\* adapter that has work does it.
Spec ==
  /\ Init /\ [][Next]_vars
  /\ WF_vars(Driver)
  /\ \A p \in Ports : WF_vars(Adapter(p))

-----------------------------------------------------------------------------
(* Properties                                                              *)

\* A SATA_read that reports success delivers the sector it was asked for.
ReadIntegrity == result.ok => result.got = result.want

\* So it does wherever ports that work answer before SATA_execute_command gives
\* up, also after a port has failed.
PromptReadIntegrity == punctual => ReadIntegrity

\* There the adapter writes only into the buffer of the call in progress, never
\* into memory that the driver has given back to the low heap.
DmaIntoOwnBuffer ==
  \A p \in Ports :
    punctual /\ hba[p].run.active =>
      /\ hba[p].run.buf \in used
      /\ hba[p].run.buf = drv.buf /\ p = P

\* SATA_execute_command never rewrites the table of a command that is issued,
\* and never issues in an occupied slot.
IssuedCommandsStable ==
  [][\A p \in Ports, s \in Slots :
       s \in Range(hba[p].ci) => table'[p][s] = table[p][s]]_vars

\* SATA_port_configure programs the addresses of a port's structures only while
\* both of its engines have stopped.
ConfiguredStopped ==
  [][ConfigurePort => ~hba[P].cr /\ ~hba[P].fr]_vars

\* Every path out of SATA_get_disks and SATA_read gives its buffer back: between
\* calls only the structures of the configured ports are allocated, and the frame
\* that identified the last disk is free for the next read.
BufferAtHand ==
  drv.pc = "idle" /\ disks # <<>> =>
    Cardinality(used) = Len(disks) /\ Lowest # 0

\* SATA_get_disks returns exactly the SATA disks, in port order.
AllDisksFound ==
  drv.pc = "idle" =>
    /\ Range(disks) = {p \in Ports : kind[p] = "sata"}
    /\ \A i, j \in DOMAIN disks : i < j => disks[i] < disks[j]

\* Every call returns or halts the machine, also on a port that an error left
\* without a running engine.
CallReturns == drv.pc \notin {"idle", "halted"} ~> drv.pc \in {"idle", "halted"}
=============================================================================
