----------------------------- MODULE SataProofs -----------------------------
(***************************************************************************)
(* Proofs about the SATA driver beside its adapter, for every number of    *)
(* ports and of command slots, every heap and every set of addresses.      *)
(***************************************************************************)
EXTENDS Sata, AlignmentProofs, FiniteSetTheorems, TLAPS

-----------------------------------------------------------------------------
(* The inductive invariant                                                 *)

Frames == 1 .. frames
Addresses == Lbas \cup {Identity}
Contents == {Nothing} \cup {Sector(p, l) : p \in Ports, l \in Addresses}
Commands == [buf : 0 .. frames, lba : Addresses]

Stopping == drv.pc \in {"wait_cr", "wait_fr"}
Executing == drv.pc \in {"find_slot", "wait_ready", "issue", "wait_done"}
Scanning == drv.pc = "probe" \/ Stopping \/ (Executing /\ drv.op = "identify")

DrvType ==
  [pc : {"probe", "wait_cr", "wait_fr", "find_slot", "wait_ready", "issue",
         "wait_done", "idle", "halted"},
   op : {"none", "identify", "read"}, port : 1 .. NPorts + 1, lba : Addresses,
   buf : 0 .. frames, slot : Slots]

RunType == [active : BOOLEAN, buf : 0 .. frames, lba : Addresses, dma : BOOLEAN]

PortType ==
  [ci : Seq(Slots), busy : BOOLEAN, err : BOOLEAN, tfes : BOOLEAN,
   wedged : BOOLEAN, st : BOOLEAN, cr : BOOLEAN, fre : BOOLEAN, fr : BOOLEAN,
   run : RunType]

\* A call that configures or executes something is at a port.
DriverAtPort ==
  /\ Stopping \/ Executing => P \in Ports
  /\ Executing => drv.op \in {"identify", "read"}

StoreOK ==
  /\ disks \in Seq(Ports)
  /\ used \subseteq Frames
  /\ mem \in [Frames -> Contents]
  /\ table \in [Ports -> [Slots -> Commands]]
  /\ hba \in [Ports -> PortType]

TypeOK ==
  /\ kind \in [Ports -> Kinds] /\ punctual \in BOOLEAN /\ frames \in Nat
  /\ drv \in DrvType
  /\ DriverAtPort
  /\ StoreOK

\* Whose each frame is: one per configured port, and those of the call in progress.
Held ==
  CASE drv.pc \in {"probe", "idle"} -> 0
    [] Executing /\ drv.op = "identify" -> 2
    [] OTHER -> 1

Buffers ==
  /\ Stopping \/ Executing => drv.buf \in used
  /\ drv.pc \in {"probe", "idle"} /\ disks # <<>> => used # Frames
  /\ drv.pc # "halted" => Cardinality(used) = Len(disks) + Held

\* A port is started from its configuration on, and stopped while it lasts.
Started ==
  /\ \A p \in Range(disks) : hba[p].st
  /\ Executing => hba[P].st
  /\ Stopping => ~hba[P].st
  /\ drv.pc = "wait_fr" => ~hba[P].cr

\* What SATA_get_disks has found of the ports that it has passed.
Found ==
  /\ Scanning => Range(disks) = {p \in Ports : p < P /\ kind[p] = "sata"}
  /\ Scanning /\ drv.pc # "probe" => kind[P] = "sata"
  /\ ~Scanning /\ drv.pc # "halted" =>
       Range(disks) = {p \in Ports : kind[p] = "sata"}
  /\ \A i, j \in DOMAIN disks : i < j => disks[i] < disks[j]
  /\ Executing /\ drv.op = "read" => P \in Range(disks)

\* The slot that was found stays free until the command is issued.
SlotFree == drv.pc \in {"wait_ready", "issue"} => drv.slot \notin Range(hba[P].ci)

\* The command that an adapter executes is still issued.
Fetched == \A p \in Ports : hba[p].run.active => hba[p].ci # <<>>

\* Where ports answer in time, the only command an adapter can be at is that of
\* the call in progress.
OneCommand ==
  \A p \in Ports :
    /\ hba[p].ci # <<>> /\ ~hba[p].wedged =>
         p = P /\ drv.pc = "wait_done" /\ hba[p].ci = <<drv.slot>>
    /\ hba[p].run.active =>
         /\ ~hba[p].wedged /\ hba[p].run.buf = drv.buf
         /\ hba[p].run.lba = drv.lba
         /\ hba[p].run.dma => mem[drv.buf] = Sector(p, drv.lba)

TableSet ==
  drv.pc \in {"issue", "wait_done"} =>
    table[P][drv.slot] = [buf |-> drv.buf, lba |-> drv.lba]

Delivered ==
  drv.pc = "wait_done" =>
    /\ hba[P].tfes => hba[P].wedged
    /\ drv.slot \notin Range(hba[P].ci) =>
         hba[P].tfes \/ mem[drv.buf] = Sector(P, drv.lba)

BaseInv == TypeOK /\ Buffers /\ Started /\ Found /\ SlotFree /\ TableSet
  /\ Fetched

SataInv ==
  /\ BaseInv
  /\ punctual => OneCommand /\ Delivered /\ ReadIntegrity
-----------------------------------------------------------------------------
(* Sequences, the lowest free frame and the first free slot                *)

\* Min of a non-empty set of numbers is an element of it.
LEMMA MinIs ==
  ASSUME NEW T, T \subseteq Nat, T # {}
  PROVE  Min(T) \in T
BY LeastNat DEF Min

\* A sequence that something was appended to is not empty.
LEMMA AppendNotEmpty ==
  ASSUME NEW S, NEW s \in Seq(S), NEW e
  PROVE  Append(s, e) # <<>>
<1>1. Len(Append(s, e)) = Len(s) + 1 /\ Len(s) \in Nat
  OBVIOUS
<1> QED BY <1>1

\* What Append and Tail do to the elements of a sequence.
LEMMA RangeAppend ==
  ASSUME NEW S, NEW s \in Seq(S), NEW e \in S
  PROVE  Range(Append(s, e)) = Range(s) \cup {e}
<1>1. DOMAIN Append(s, e) = DOMAIN s \cup {Len(s) + 1}
  OBVIOUS
<1>2. \A i \in DOMAIN s : Append(s, e)[i] = s[i]
  OBVIOUS
<1>3. Append(s, e)[Len(s) + 1] = e
  OBVIOUS
<1> QED BY <1>1, <1>2, <1>3 DEF Range

LEMMA RangeTail ==
  ASSUME NEW S, NEW s \in Seq(S), s # <<>>
  PROVE  Range(Tail(s)) \subseteq Range(s)
<1>1. \A i \in DOMAIN Tail(s) : i + 1 \in DOMAIN s /\ Tail(s)[i] = s[i + 1]
  OBVIOUS
<1> QED BY <1>1 DEF Range

\* The low heap gives out a frame that is not in use, if there is one.
LEMMA LowestFree ==
  ASSUME frames \in Nat, used \subseteq Frames
  PROVE  /\ Lowest # 0 => Lowest \in Frames /\ Lowest \notin used
         /\ used # Frames => Lowest # 0
<1>1. Free \subseteq Nat /\ Free = Frames \ used /\ 0 \notin Free
  BY DEF Free, Frames
<1>2. Free # {} => Min(Free) \in Free
  BY <1>1, MinIs
<1>3. used # Frames => Free # {}
  BY <1>1
<1> QED BY <1>1, <1>2, <1>3 DEF Lowest

\* SATA_find_command_slot finds a slot that is not occupied.
LEMMA SlotFound ==
  ASSUME FindCommandSlot >= 0
  PROVE  FindCommandSlot \in Slots /\ FindCommandSlot \notin Range(hba[P].ci)
<1> DEFINE open == Slots \ Range(hba[P].ci)
<1>1. open \subseteq Nat
  BY DEF Slots
<1>2. open # {}
  BY DEF FindCommandSlot
<1>3. Min(open) \in open
  BY <1>1, <1>2, MinIs
<1> QED BY <1>2, <1>3 DEF FindCommandSlot

-----------------------------------------------------------------------------
(* The adapter                                                             *)

\* An adapter changes the state of one port and the contents of frames.  It does
\* not touch the engines' enable bits, and issued commands only leave.
LEMMA AdapterStep ==
  ASSUME TypeOK, Fetched, NEW p \in Ports, Adapter(p)
  PROVE  /\ UNCHANGED <<driverVars, frames, kind, punctual>>
         /\ mem' \in [Frames -> Contents]
         /\ hba' \in [Ports -> PortType]
         /\ \A q \in Ports : q # p => hba'[q] = hba[q]
         /\ hba'[p].st = hba[p].st
         /\ ~hba[p].st /\ ~hba[p].cr => ~hba'[p].cr
         /\ Range(hba'[p].ci) \subseteq Range(hba[p].ci)
         /\ hba'[p].run.active => hba'[p].ci # <<>>
<1> DEFINE h == hba[p]
<1>1. h \in PortType /\ hba \in [Ports -> PortType]
        /\ mem \in [Frames -> Contents]
  BY DEF TypeOK, StoreOK
<1>2. h.run.active => h.ci # <<>>
  BY DEF Fetched
<1>3. ASSUME NEW state \in PortType, Hba(p, state)
      PROVE  /\ UNCHANGED <<driverVars, frames, mem, kind, punctual>>
             /\ hba' \in [Ports -> PortType]
             /\ \A q \in Ports : q # p => hba'[q] = hba[q]
             /\ hba'[p] = state
  BY <1>1, <1>3 DEF Hba
<1>4. IdleRun \in RunType /\ ~IdleRun.active
  BY DEF IdleRun, RunType, TypeOK, Addresses
<1>5. <<>> \in Seq(Slots) /\ Range(<<>>) = {}
  BY DEF Range
<1>6. CASE StopCommandEngine(p)
  <2> DEFINE g == [h EXCEPT !.cr = FALSE, !.ci = <<>>, !.run = IdleRun,
                            !.wedged = FALSE]
  <2> HIDE DEF IdleRun, h
  <2>1. g \in PortType
    BY <1>1, <1>4, <1>5 DEF PortType
  <2>2. g.st = h.st /\ ~g.cr /\ g.ci = <<>> /\ ~g.run.active
    BY <1>1, <1>4 DEF PortType
  <2>3. Hba(p, g)
    BY <1>6 DEF StopCommandEngine, h
  <2> HIDE DEF g
  <2> QED BY <1>1, <1>3, <1>5, <2>1, <2>2, <2>3 DEF h
<1>7. CASE StartCommandEngine(p)
  <2> DEFINE g == [h EXCEPT !.cr = TRUE]
  <2>1. g \in PortType /\ g.st = h.st /\ g.ci = h.ci /\ g.run = h.run /\ h.st
    BY <1>1, <1>7 DEF PortType, StartCommandEngine
  <2>2. Hba(p, g)
    BY <1>7 DEF StartCommandEngine
  <2> HIDE DEF g
  <2> QED BY <1>1, <1>2, <1>3, <2>1, <2>2
<1>8. CASE FollowFisEnable(p)
  <2> DEFINE g == [h EXCEPT !.fr = h.fre]
  <2>1. g \in PortType /\ g.st = h.st /\ g.cr = h.cr /\ g.ci = h.ci
          /\ g.run = h.run
    BY <1>1 DEF PortType
  <2>2. Hba(p, g)
    BY <1>8 DEF FollowFisEnable
  <2> HIDE DEF g
  <2> QED BY <1>1, <1>2, <1>3, <2>1, <2>2
<1>9. CASE Fetch(p)
  <2> DEFINE cmd == table[p][Head(h.ci)]
             r   == [active |-> TRUE, buf |-> cmd.buf, lba |-> cmd.lba,
                     dma |-> FALSE]
             g   == [h EXCEPT !.busy = TRUE, !.err = FALSE, !.run = r]
  <2>1. h.ci # <<>> /\ Head(h.ci) \in Slots
    BY <1>1, <1>9 DEF Fetch, PortType
  <2>2. cmd \in Commands
    BY <2>1 DEF TypeOK, StoreOK
  <2>3. r \in RunType
    BY <2>2 DEF RunType, Commands
  <2>4. Hba(p, g)
    BY <1>9 DEF Fetch
  <2> HIDE DEF r
  <2>5. g \in PortType /\ g.st = h.st /\ g.cr = h.cr /\ g.ci = h.ci
    BY <1>1, <2>3 DEF PortType
  <2> HIDE DEF g
  <2> QED BY <1>1, <1>3, <2>1, <2>4, <2>5
<1>10. CASE Dma(p)
  <2> DEFINE g == [h EXCEPT !.run.dma = TRUE]
  <2>1. h.run \in RunType /\ [h.run EXCEPT !.dma = TRUE] \in RunType
    BY <1>1 DEF PortType, RunType
  <2>2. g \in PortType /\ g.st = h.st /\ g.cr = h.cr /\ g.ci = h.ci
    BY <1>1, <2>1 DEF PortType
  <2>3. h.ci # <<>>
    BY <1>2, <1>10 DEF Dma
  <2>4. hba' = [hba EXCEPT ![p] = g]
    BY <1>10 DEF Dma
  <2>5. Sector(p, h.run.lba) \in Contents
    BY <2>1 DEF RunType, Contents
  <2>6. mem' \in [Frames -> Contents]
    BY <1>1, <1>10, <2>5 DEF Dma
  <2>7. UNCHANGED <<driverVars, frames, kind, punctual>>
    BY <1>10 DEF Dma
  <2> HIDE DEF g
  <2> QED BY <1>1, <2>2, <2>3, <2>4, <2>6, <2>7
<1>11. CASE Complete(p)
  <2> DEFINE g == [h EXCEPT !.busy = FALSE, !.ci = Tail(@), !.run = IdleRun]
  <2>1. h.ci # <<>> /\ h.ci \in Seq(Slots)
    BY <1>1, <1>2, <1>11 DEF Complete, PortType
  <2>2. Tail(h.ci) \in Seq(Slots) /\ Range(Tail(h.ci)) \subseteq Range(h.ci)
    BY <2>1, RangeTail
  <2>3. Hba(p, g)
    BY <1>11 DEF Complete
  <2> HIDE DEF IdleRun, h
  <2>4. g \in PortType
    BY <1>1, <1>4, <2>2 DEF PortType
  <2>5. g.st = h.st /\ g.cr = h.cr /\ g.ci = Tail(h.ci) /\ ~g.run.active
    BY <1>1, <1>4 DEF PortType
  <2> HIDE DEF g
  <2> QED BY <1>1, <1>3, <2>2, <2>3, <2>4, <2>5 DEF h
<1>12. CASE Fault(p)
  <2>1. h.ci # <<>> /\ h.ci \in Seq(Slots)
    BY <1>1, <1>2, <1>12 DEF Fault, PortType
  <2>2. Tail(h.ci) \in Seq(Slots) /\ Range(Tail(h.ci)) \subseteq Range(h.ci)
    BY <2>1, RangeTail
  <2>3. PICK ci \in {h.ci, Tail(h.ci)} :
          Hba(p, [h EXCEPT !.busy = FALSE, !.err = TRUE, !.tfes = TRUE,
                           !.ci = ci, !.wedged = TRUE, !.run = IdleRun])
    BY <1>12 DEF Fault
  <2> DEFINE g == [h EXCEPT !.busy = FALSE, !.err = TRUE, !.tfes = TRUE,
                            !.ci = ci, !.wedged = TRUE, !.run = IdleRun]
  <2>4. ci \in Seq(Slots) /\ Range(ci) \subseteq Range(h.ci)
    BY <2>1, <2>2
  <2> HIDE DEF IdleRun, h
  <2>5. g \in PortType
    BY <1>1, <1>4, <2>4 DEF PortType
  <2>6. g.st = h.st /\ g.cr = h.cr /\ g.ci = ci /\ ~g.run.active
    BY <1>1, <1>4 DEF PortType
  <2>7. Hba(p, g)
    BY <2>3
  <2> HIDE DEF g
  <2> QED BY <1>1, <1>3, <2>4, <2>5, <2>6, <2>7 DEF h
<1> QED BY <1>6, <1>7, <1>8, <1>9, <1>10, <1>11, <1>12 DEF Adapter

-----------------------------------------------------------------------------
(* Types                                                                   *)

\* Every driver step that writes the port's registers leaves a port state, and
\* changes no more of it than the step names.
LEMMA DriverRegisters ==
  ASSUME TypeOK, P \in Ports
  PROVE  /\ [hba EXCEPT ![P].st = FALSE] \in [Ports -> PortType]
         /\ [hba EXCEPT ![P].fre = FALSE] \in [Ports -> PortType]
         /\ [hba EXCEPT ![P].fre = TRUE, ![P].st = TRUE] \in [Ports -> PortType]
         /\ [hba EXCEPT ![P].tfes = FALSE, ![P].ci = Append(@, drv.slot)]
              \in [Ports -> PortType]
<1>1. hba \in [Ports -> PortType] /\ drv.slot \in Slots
  BY DEF TypeOK, StoreOK, DrvType
<1>2. hba[P].ci \in Seq(Slots)
  BY <1>1 DEF PortType
<1>3. Append(hba[P].ci, drv.slot) \in Seq(Slots)
  BY <1>1, <1>2
<1>4. /\ [hba[P] EXCEPT !.st = FALSE] \in PortType
      /\ [hba[P] EXCEPT !.fre = FALSE] \in PortType
      /\ [hba[P] EXCEPT !.fre = TRUE, !.st = TRUE] \in PortType
      /\ [hba[P] EXCEPT !.tfes = FALSE, !.ci = Append(@, drv.slot)] \in PortType
  BY <1>1, <1>3 DEF PortType
<1> QED BY <1>1, <1>4

\* What is attached, how it answers and the heap's size never change, and with
\* them the types.
LEMMA FixedKept ==
  ASSUME TypeOK, Fetched, Next
  PROVE  /\ UNCHANGED <<frames, kind, punctual>>
         /\ DrvType' = DrvType /\ PortType' = PortType /\ Commands' = Commands
         /\ Frames' = Frames /\ Contents' = Contents
<1>1. ASSUME Driver PROVE UNCHANGED <<frames, kind, punctual>>
  BY <1>1 DEF Driver, SkipPort, ProbePort, StopFis, ConfigurePort, NoMemory,
     ConfigureTimeout, ScanDone, FindSlot, Prepare, Issue, Identified,
     IdentifyFailed, ReadDone, ReadFailed
<1>2. UNCHANGED <<frames, kind, punctual>>
  BY <1>1, AdapterStep DEF Next, Read
<1> QED BY <1>2 DEF DrvType, PortType, RunType, Commands, Frames, Contents,
           Addresses

\* Every step keeps the types: SATA_read never asks for a frame in vain.
LEMMA TypeKept ==
  ASSUME BaseInv, Next
  PROVE  TypeOK'
<1>1. /\ UNCHANGED <<frames, kind, punctual>>
      /\ DrvType' = DrvType /\ PortType' = PortType /\ Commands' = Commands
      /\ Frames' = Frames /\ Contents' = Contents
  BY FixedKept DEF BaseInv
<1>2. /\ NPorts \in Nat /\ frames \in Nat /\ Slots \subseteq Nat /\ 0 \in Slots
      /\ drv \in DrvType /\ DriverAtPort /\ StoreOK /\ TypeOK /\ Fetched
      /\ Lowest \in 0 .. frames /\ (Lowest # 0 => Lowest \in Frames)
  BY SataAssumption, LowestFree DEF BaseInv, TypeOK, StoreOK, Slots, Frames
<1>3. drv' \in DrvType /\ DriverAtPort' /\ StoreOK' => TypeOK'
  BY <1>1 DEF BaseInv, TypeOK
<1>4. ASSUME UNCHANGED <<disks, used, mem, table, hba>> PROVE StoreOK'
  BY <1>1, <1>2, <1>4 DEF StoreOK
<1>5. ASSUME drv'.pc \in {"probe", "idle", "halted"} PROVE DriverAtPort'
  BY <1>5 DEF DriverAtPort, Stopping, Executing
<1>6. Idle \in DrvType /\ Idle.pc = "idle"
  BY <1>2, SataAssumption DEF Idle, DrvType, Addresses
<1>7. ASSUME Halt PROVE drv' \in DrvType /\ DriverAtPort'
  <2>1. drv' \in DrvType /\ drv'.pc = "halted"
    BY <1>2, <1>7 DEF Halt, Goto, DrvType
  <2> QED BY <1>5, <2>1
<1>8. CASE SkipPort
  <2>1. drv' = [drv EXCEPT !.port = P + 1] /\ P \in Ports /\ drv.pc = "probe"
    BY <1>8 DEF SkipPort
  <2>2. P + 1 \in 1 .. NPorts + 1
    BY <1>2, <2>1 DEF Ports
  <2>3. drv' \in DrvType /\ drv'.pc = "probe"
    BY <1>2, <2>1, <2>2 DEF DrvType
  <2> QED BY <1>3, <1>4, <1>5, <1>8, <2>3 DEF SkipPort
<1>9. CASE ProbePort
  <2>1. drv' \in DrvType /\ P \in Ports /\ P' = P /\ drv'.pc = "wait_cr"
    BY <1>2, <1>9 DEF ProbePort, DrvType, P
  <2>2. StoreOK'
    BY <1>1, <1>2, <1>9, DriverRegisters DEF ProbePort, StoreOK
  <2> QED BY <1>3, <2>1, <2>2 DEF DriverAtPort, Executing
<1>10. CASE StopFis
  <2>1. drv' \in DrvType /\ P \in Ports /\ P' = P /\ drv'.pc = "wait_fr"
    BY <1>2, <1>10 DEF StopFis, EngineStopped, Goto, DrvType, P, DriverAtPort,
       Stopping
  <2>2. StoreOK'
    BY <1>1, <1>2, <1>10, <2>1, DriverRegisters DEF StopFis, StoreOK
  <2> QED BY <1>3, <2>1, <2>2 DEF DriverAtPort, Executing
<1>11. CASE ConfigurePort
  <2>1. /\ drv' \in DrvType /\ P \in Ports /\ P' = P /\ drv'.pc = "find_slot"
        /\ drv'.op = "identify"
    BY <1>2, <1>11 DEF ConfigurePort, DrvType, P, DriverAtPort, Stopping,
       Addresses
  <2>2. StoreOK'
    BY <1>1, <1>2, <1>11, <2>1, DriverRegisters DEF ConfigurePort, StoreOK
  <2> QED BY <1>3, <2>1, <2>2 DEF DriverAtPort, Stopping
<1>12. CASE NoMemory
  BY <1>3, <1>4, <1>7, <1>12 DEF NoMemory
<1>13. CASE ConfigureTimeout
  BY <1>3, <1>4, <1>7, <1>13 DEF ConfigureTimeout
<1>14. CASE ScanDone
  BY <1>3, <1>4, <1>5, <1>6, <1>14 DEF ScanDone
<1>15. CASE FindSlot
  <2>1. /\ drv' \in DrvType /\ P \in Ports /\ P' = P /\ drv'.pc = "wait_ready"
        /\ drv'.op \in {"identify", "read"}
    BY <1>2, <1>15, SlotFound DEF FindSlot, DrvType, P, DriverAtPort, Executing
  <2> QED BY <1>3, <1>4, <1>15, <2>1 DEF FindSlot, DriverAtPort, Stopping
<1>16. CASE Prepare
  <2>1. /\ drv' \in DrvType /\ P \in Ports /\ P' = P /\ drv'.pc = "issue"
        /\ drv'.op \in {"identify", "read"}
    BY <1>2, <1>16 DEF Prepare, Goto, DrvType, P, DriverAtPort, Executing
  <2>2. [buf |-> drv.buf, lba |-> drv.lba] \in Commands
    BY <1>2 DEF DrvType, Commands
  <2>3. table' \in [Ports -> [Slots -> Commands]]
    BY <1>2, <1>16, <2>2 DEF Prepare, StoreOK
  <2>4. StoreOK'
    BY <1>1, <1>2, <1>16, <2>3 DEF Prepare, StoreOK
  <2> QED BY <1>3, <2>1, <2>4 DEF DriverAtPort, Stopping
<1>17. CASE Issue
  <2>1. /\ drv' \in DrvType /\ P \in Ports /\ P' = P /\ drv'.pc = "wait_done"
        /\ drv'.op \in {"identify", "read"}
    BY <1>2, <1>17 DEF Issue, Goto, DrvType, P, DriverAtPort, Executing
  <2>2. StoreOK'
    BY <1>1, <1>2, <1>17, <2>1, DriverRegisters DEF Issue, StoreOK
  <2> QED BY <1>3, <2>1, <2>2 DEF DriverAtPort, Stopping
<1>18. CASE Identified
  <2>1. /\ P \in Ports
        /\ drv' = [drv EXCEPT !.pc = "probe", !.port = P + 1, !.buf = 0]
        /\ disks' = Append(disks, P) /\ used' = used \ {drv.buf}
        /\ UNCHANGED <<mem, table, hba>>
    BY <1>2, <1>18 DEF Identified, Succeeded, Finished, DriverAtPort, Executing
  <2>2. P + 1 \in 1 .. NPorts + 1 /\ 0 \in 0 .. frames /\ drv \in DrvType
    BY <1>2, <2>1 DEF Ports
  <2>3. drv' \in DrvType /\ drv'.pc = "probe"
    BY <2>1, <2>2 DEF DrvType
  <2>4. disks' \in Seq(Ports)
    BY <1>2, <2>1 DEF StoreOK
  <2>5. StoreOK'
    BY <1>1, <1>2, <2>1, <2>4 DEF StoreOK
  <2> QED BY <1>3, <1>5, <2>3, <2>5
<1>19. CASE IdentifyFailed
  BY <1>3, <1>4, <1>7, <1>19 DEF IdentifyFailed
<1>20. CASE ReadDone \/ ReadFailed
  <2>1. drv' = Idle /\ used' \subseteq used
          /\ UNCHANGED <<disks, mem, table, hba>>
    BY <1>20 DEF ReadDone, ReadFailed
  <2>2. StoreOK'
    BY <1>1, <1>2, <2>1 DEF StoreOK
  <2> QED BY <1>3, <1>5, <1>6, <2>1, <2>2
<1>21. ASSUME NEW p \in Ports, NEW l \in Lbas, Read(p, l) PROVE TypeOK'
  <2>1. p \in Range(disks) /\ drv.pc = "idle" /\ disks # <<>>
    BY <1>21 DEF Read, Range
  <2>2. Lowest \in Frames
    BY <1>2, <2>1, LowestFree DEF BaseInv, Buffers, StoreOK
  <2>3. drv' = [pc |-> "find_slot", op |-> "read", port |-> p, lba |-> l,
                buf |-> Lowest, slot |-> 0]
    BY <1>21 DEF Read
  <2>4. drv' \in DrvType /\ P' = p /\ drv'.pc = "find_slot" /\ drv'.op = "read"
    BY <1>2, <2>2, <2>3 DEF DrvType, P, Ports, Addresses
  <2>5. StoreOK'
    BY <1>1, <1>2, <1>21, <2>2 DEF Read, StoreOK
  <2> QED BY <1>3, <2>4, <2>5 DEF DriverAtPort, Stopping
<1>22. ASSUME NEW p \in Ports, Adapter(p) PROVE TypeOK'
  <2>1. /\ UNCHANGED <<drv, disks, used, table>>
        /\ mem' \in [Frames -> Contents] /\ hba' \in [Ports -> PortType]
    BY <1>2, <1>22, AdapterStep DEF driverVars
  <2>2. StoreOK'
    BY <1>1, <1>2, <2>1 DEF StoreOK
  <2> QED BY <1>2, <1>3, <2>1, <2>2 DEF DriverAtPort, Stopping, Executing, P
<1> QED BY <1>8, <1>9, <1>10, <1>11, <1>12, <1>13, <1>14, <1>15, <1>16, <1>17,
           <1>18, <1>19, <1>20, <1>21, <1>22 DEF Next, Driver

-----------------------------------------------------------------------------
(* What the driver keeps                                                   *)

\* Where each step of the driver leads.
LEMMA DriverGoes ==
  ASSUME drv \in DrvType
  PROVE  /\ SkipPort \/ Identified => drv'.pc = "probe"
         /\ NoMemory \/ ConfigureTimeout \/ IdentifyFailed => drv'.pc = "halted"
         /\ ScanDone \/ ReadDone \/ ReadFailed => drv'.pc = "idle"
         /\ ProbePort => drv'.pc = "wait_cr"
         /\ StopFis => drv'.pc = "wait_fr"
         /\ ConfigurePort => drv'.pc = "find_slot"
         /\ FindSlot => drv'.pc = "wait_ready"
         /\ Prepare => drv'.pc = "issue"
         /\ Issue => drv'.pc = "wait_done"
<1>1. SkipPort \/ Identified => drv'.pc = "probe"
  BY DEF SkipPort, Identified, DrvType
<1>2. NoMemory \/ ConfigureTimeout \/ IdentifyFailed => drv'.pc = "halted"
  BY DEF NoMemory, ConfigureTimeout, IdentifyFailed, Halt, Goto, DrvType
<1>3. ScanDone \/ ReadDone \/ ReadFailed => drv'.pc = "idle"
  BY DEF ScanDone, ReadDone, ReadFailed, Idle
<1>4. /\ ProbePort => drv'.pc = "wait_cr"
      /\ StopFis => drv'.pc = "wait_fr"
      /\ ConfigurePort => drv'.pc = "find_slot"
  BY DEF ProbePort, StopFis, ConfigurePort, Goto, DrvType
<1>5. /\ FindSlot => drv'.pc = "wait_ready"
      /\ Prepare => drv'.pc = "issue"
      /\ Issue => drv'.pc = "wait_done"
  BY DEF FindSlot, Prepare, Issue, Goto, DrvType
<1> QED BY <1>1, <1>2, <1>3, <1>4, <1>5

\* Every step keeps the command engines of the configured ports enabled.
LEMMA StartedKept ==
  ASSUME BaseInv, Next
  PROVE  Started'
<1>1. /\ drv \in DrvType /\ hba \in [Ports -> PortType] /\ disks \in Seq(Ports)
      /\ DriverAtPort /\ Started /\ Found /\ TypeOK /\ Fetched
      /\ Range(disks) \subseteq Ports
  BY DEF BaseInv, TypeOK, StoreOK, Range
<1>2. \A p \in Ports : ~(p < p)
  BY DEF Ports
<1>3. CASE drv'.pc \in {"probe", "idle", "halted"} /\ UNCHANGED <<disks, hba>>
  BY <1>1, <1>3 DEF Started, Stopping, Executing
<1>4. CASE ProbePort
  <2>1. P \in Ports /\ P \notin Range(disks)
    BY <1>1, <1>2, <1>4 DEF ProbePort, Found, Scanning
  <2>2. drv'.pc = "wait_cr" /\ P' = P /\ disks' = disks
    BY <1>1, <1>4 DEF ProbePort, DrvType, P
  <2>3. ~hba'[P].st /\ \A q \in Ports : q # P => hba'[q] = hba[q]
    BY <1>1, <1>4, <2>1 DEF ProbePort, PortType
  <2> QED BY <1>1, <2>1, <2>2, <2>3 DEF Started, Stopping, Executing
<1>5. CASE StopFis
  <2>1. drv.pc = "wait_cr" /\ P \in Ports /\ ~hba[P].cr
    BY <1>1, <1>5 DEF StopFis, EngineStopped, DriverAtPort, Stopping
  <2>2. drv'.pc = "wait_fr" /\ P' = P /\ disks' = disks
    BY <1>1, <1>5 DEF StopFis, Goto, DrvType, P
  <2>3. /\ hba'[P].st = hba[P].st /\ hba'[P].cr = hba[P].cr
        /\ \A q \in Ports : q # P => hba'[q] = hba[q]
    BY <1>1, <1>5, <2>1 DEF StopFis, PortType
  <2> QED BY <1>1, <2>1, <2>2, <2>3 DEF Started, Stopping, Executing
<1>6. CASE ConfigurePort
  <2>1. drv.pc = "wait_fr" /\ P \in Ports
    BY <1>1, <1>6 DEF ConfigurePort, DriverAtPort, Stopping
  <2>2. drv'.pc = "find_slot" /\ P' = P /\ disks' = disks
    BY <1>1, <1>6 DEF ConfigurePort, DrvType, P
  <2>3. hba'[P].st /\ \A q \in Ports : q # P => hba'[q] = hba[q]
    BY <1>1, <1>6, <2>1 DEF ConfigurePort, PortType
  <2> QED BY <1>1, <2>1, <2>2, <2>3 DEF Started, Stopping, Executing
<1>7. CASE FindSlot \/ Prepare
  <2>1. /\ drv.pc \in {"find_slot", "wait_ready"} /\ P' = P
        /\ drv'.pc \in {"wait_ready", "issue"} /\ UNCHANGED <<disks, hba>>
    BY <1>1, <1>7 DEF FindSlot, Prepare, Goto, DrvType, P
  <2> QED BY <1>1, <2>1 DEF Started, Stopping, Executing
<1>8. CASE Issue
  <2>1. P \in Ports /\ drv.pc = "issue"
    BY <1>1, <1>8 DEF Issue, DriverAtPort, Executing
  <2>2. drv'.pc = "wait_done" /\ P' = P /\ disks' = disks
    BY <1>1, <1>8 DEF Issue, Goto, DrvType, P
  <2>3. hba'[P].st = hba[P].st /\ \A q \in Ports : q # P => hba'[q] = hba[q]
    BY <1>1, <1>8, <2>1 DEF Issue, PortType
  <2> QED BY <1>1, <2>1, <2>2, <2>3 DEF Started, Stopping, Executing
<1>9. CASE Identified
  <2>1. P \in Ports /\ hba[P].st /\ hba' = hba /\ drv'.pc = "probe"
          /\ disks' = Append(disks, P)
    BY <1>1, <1>9 DEF Identified, Succeeded, Finished, DriverAtPort, Executing,
       Started, DrvType
  <2>2. Range(disks') = Range(disks) \cup {P}
    BY <1>1, <2>1, RangeAppend
  <2> QED BY <1>1, <2>1, <2>2 DEF Started, Stopping, Executing
<1>10. ASSUME NEW p \in Ports, NEW l \in Lbas, Read(p, l) PROVE Started'
  <2>1. p \in Range(disks) /\ P' = p /\ drv'.pc = "find_slot"
          /\ UNCHANGED <<disks, hba>>
    BY <1>10 DEF Read, P
  <2> QED BY <1>1, <2>1 DEF Started, Stopping, Executing
<1>11. ASSUME NEW p \in Ports, Adapter(p) PROVE Started'
  <2>1. /\ UNCHANGED <<drv, disks>>
        /\ \A q \in Ports : /\ hba'[q].st = hba[q].st
                            /\ ~hba[q].st /\ ~hba[q].cr => ~hba'[q].cr
    BY <1>1, <1>11, AdapterStep DEF driverVars
  <2> QED BY <1>1, <2>1 DEF Started, DriverAtPort, Stopping, Executing, P
<1>12. CASE SkipPort \/ NoMemory \/ ConfigureTimeout \/ ScanDone
         \/ IdentifyFailed
            \/ ReadDone \/ ReadFailed
  <2>1. drv'.pc \in {"probe", "idle", "halted"} /\ UNCHANGED <<disks, hba>>
    BY <1>1, <1>12, DriverGoes DEF SkipPort, NoMemory, ConfigureTimeout,
       ScanDone,
       IdentifyFailed, ReadDone, ReadFailed
  <2> QED BY <1>3, <2>1
<1> QED BY <1>4, <1>5, <1>6, <1>7, <1>8, <1>9, <1>10, <1>11, <1>12 DEF Next,
           Driver

\* No step occupies the slot that SATA_find_command_slot returned.
LEMMA SlotFreeKept ==
  ASSUME BaseInv, Next
  PROVE  SlotFree'
<1>1. /\ drv \in DrvType /\ DriverAtPort /\ SlotFree /\ TypeOK /\ Fetched
  BY DEF BaseInv, TypeOK
<1>2. CASE FindSlot
  <2>1. drv'.slot = FindCommandSlot /\ P' = P /\ hba' = hba
          /\ FindCommandSlot >= 0
    BY <1>1, <1>2 DEF FindSlot, DrvType, P
  <2> QED BY <2>1, SlotFound DEF SlotFree
<1>3. CASE Prepare
  <2>1. drv.pc = "wait_ready" /\ UNCHANGED <<drv.slot, P, hba>>
    BY <1>1, <1>3 DEF Prepare, Goto, DrvType, P
  <2> QED BY <1>1, <2>1 DEF SlotFree
<1>4. CASE drv'.pc \notin {"wait_ready", "issue"}
  BY <1>4 DEF SlotFree
<1>5. ASSUME NEW p \in Ports, Adapter(p) PROVE SlotFree'
  <2>1. drv' = drv
          /\ \A q \in Ports : Range(hba'[q].ci) \subseteq Range(hba[q].ci)
    BY <1>1, <1>5, AdapterStep DEF driverVars
  <2> QED BY <1>1, <2>1 DEF SlotFree, DriverAtPort, Executing, P
<1>6. ASSUME NEW p \in Ports, NEW l \in Lbas, Read(p, l)
      PROVE  drv'.pc \notin {"wait_ready", "issue"}
  BY <1>6 DEF Read
<1>7. ASSUME Driver, ~FindSlot, ~Prepare PROVE drv'.pc \notin {"wait_ready", "issue"}
  BY <1>1, <1>7, DriverGoes DEF Driver
<1> QED BY <1>2, <1>3, <1>4, <1>5, <1>6, <1>7 DEF Next

\* No step disturbs the table between its filling and completion.
LEMMA TableSetKept ==
  ASSUME BaseInv, Next
  PROVE  TableSet'
<1>1. /\ drv \in DrvType /\ table \in [Ports -> [Slots -> Commands]]
      /\ DriverAtPort /\ TableSet /\ TypeOK /\ Fetched
  BY DEF BaseInv, TypeOK, StoreOK
<1>2. CASE Prepare
  <2>1. P \in Ports /\ drv.slot \in Slots
    BY <1>1, <1>2 DEF Prepare, DriverAtPort, Executing, DrvType
  <2>2. UNCHANGED <<drv.slot, drv.buf, drv.lba, P>>
    BY <1>1, <1>2 DEF Prepare, Goto, DrvType, P
  <2>3. table'[P][drv.slot] = [buf |-> drv.buf, lba |-> drv.lba]
    BY <1>1, <1>2, <2>1 DEF Prepare
  <2> QED BY <2>2, <2>3 DEF TableSet
<1>3. CASE Issue
  <2>1. drv.pc = "issue" /\ UNCHANGED <<drv.slot, drv.buf, drv.lba, P, table>>
    BY <1>1, <1>3 DEF Issue, Goto, DrvType, P
  <2> QED BY <1>1, <2>1 DEF TableSet
<1>4. CASE drv'.pc \notin {"issue", "wait_done"}
  BY <1>4 DEF TableSet
<1>5. ASSUME NEW p \in Ports, Adapter(p) PROVE TableSet'
  <2>1. UNCHANGED <<drv, table>>
    BY <1>1, <1>5, AdapterStep DEF driverVars
  <2> QED BY <1>1, <2>1 DEF TableSet, P
<1>6. ASSUME NEW p \in Ports, NEW l \in Lbas, Read(p, l)
      PROVE  drv'.pc \notin {"issue", "wait_done"}
  BY <1>6 DEF Read
<1>7. ASSUME Driver, ~Prepare, ~Issue PROVE drv'.pc \notin {"issue", "wait_done"}
  BY <1>1, <1>7, DriverGoes DEF Driver
<1> QED BY <1>2, <1>3, <1>4, <1>5, <1>6, <1>7 DEF Next

\* No step takes a command away from the adapter that executes it.
LEMMA FetchedKept ==
  ASSUME BaseInv, Next
  PROVE  Fetched'
<1>1. /\ drv \in DrvType /\ hba \in [Ports -> PortType] /\ TypeOK /\ Fetched
      /\ DriverAtPort
  BY DEF BaseInv, TypeOK, StoreOK
<1>2. CASE UNCHANGED hba
  BY <1>1, <1>2 DEF Fetched
<1>3. CASE ProbePort \/ StopFis \/ ConfigurePort
  <2>1. P \in Ports
    BY <1>1, <1>3 DEF ProbePort, StopFis, EngineStopped, ConfigurePort,
       DriverAtPort, Stopping
  <2>2. CASE ProbePort
    BY <1>1, <2>1, <2>2 DEF ProbePort, PortType, Fetched
  <2>3. CASE StopFis
    BY <1>1, <2>1, <2>3 DEF StopFis, PortType, Fetched
  <2>4. CASE ConfigurePort
    BY <1>1, <2>1, <2>4 DEF ConfigurePort, PortType, Fetched
  <2> QED BY <1>3, <2>2, <2>3, <2>4
<1>4. CASE Issue
  <2>1. P \in Ports /\ drv.slot \in Slots /\ hba[P].ci \in Seq(Slots)
    BY <1>1, <1>4 DEF Issue, DriverAtPort, Executing, DrvType, PortType
  <2>2. Append(hba[P].ci, drv.slot) # <<>>
    BY <2>1, AppendNotEmpty
  <2>3. /\ \A q \in Ports : q # P => hba'[q] = hba[q]
        /\ hba'[P].ci = Append(hba[P].ci, drv.slot)
    BY <1>1, <1>4, <2>1 DEF Issue, PortType
  <2> QED BY <1>1, <2>1, <2>2, <2>3 DEF Fetched
<1>5. ASSUME NEW p \in Ports, Adapter(p) PROVE Fetched'
  BY <1>1, <1>5, AdapterStep DEF Fetched
<1>6. ASSUME NEW p \in Ports, NEW l \in Lbas, Read(p, l) PROVE UNCHANGED hba
  BY <1>6 DEF Read
<1>7. ASSUME Driver PROVE ProbePort \/ StopFis \/ ConfigurePort \/ Issue
        \/ UNCHANGED hba
  BY <1>7 DEF Driver, SkipPort, NoMemory, ConfigureTimeout, ScanDone, FindSlot,
     Prepare,
     Identified, IdentifyFailed, ReadDone, ReadFailed
<1> QED BY <1>2, <1>3, <1>4, <1>5, <1>6, <1>7 DEF Next

\* Every step keeps the array of disks in order and complete so far.
LEMMA FoundKept ==
  ASSUME BaseInv, Next
  PROVE  Found'
<1>1. /\ drv \in DrvType /\ disks \in Seq(Ports) /\ TypeOK /\ Fetched
      /\ Found /\ DriverAtPort /\ kind' = kind /\ NPorts \in Nat
  BY FixedKept, SataAssumption DEF BaseInv, TypeOK, StoreOK
<1> DEFINE Passed(q) == {p \in Ports : p < q /\ kind[p] = "sata"}
           All     == {p \in Ports : kind[p] = "sata"}
<1>2. \A q \in Ports : Passed(q + 1) = IF kind[q] = "sata" THEN Passed(q) \cup {q} ELSE Passed(q)
  BY <1>1 DEF Ports
<1>3. /\ Scanning => Range(disks) = Passed(P)
      /\ Scanning /\ drv.pc # "probe" => kind[P] = "sata"
      /\ ~Scanning /\ drv.pc # "halted" => Range(disks) = All
      /\ \A i, j \in DOMAIN disks : i < j => disks[i] < disks[j]
      /\ Executing /\ drv.op = "read" => P \in Range(disks)
  BY <1>1 DEF Found
<1>4. CASE SkipPort
  <2>1. drv'.pc = "probe" /\ P' = P + 1 /\ disks' = disks
          /\ Range(disks) = Passed(P)
    BY <1>1, <1>3, <1>4 DEF SkipPort, DrvType, P, Scanning
  <2>2. P \in Ports /\ kind[P] # "sata"
    BY <1>4 DEF SkipPort
  <2>3. Range(disks)' = Passed(P')
    BY <1>2, <2>1, <2>2
  <2> QED BY <1>1, <1>3, <2>1, <2>3 DEF Found, Scanning, Executing
<1>5. ASSUME drv'.pc \in {"wait_cr", "wait_fr"}, P' = P, disks' = disks,
             Scanning, kind[P] = "sata"
      PROVE  Found'
  BY <1>1, <1>3, <1>5 DEF Found, Scanning, Stopping, Executing
<1>6. CASE ProbePort
  <2>1. drv'.pc = "wait_cr" /\ P' = P /\ disks' = disks /\ kind[P] = "sata"
          /\ Scanning
    BY <1>1, <1>6 DEF ProbePort, DrvType, P, Scanning
  <2> QED BY <1>5, <2>1
<1>7. CASE StopFis
  <2>1. /\ drv'.pc = "wait_fr" /\ P' = P /\ disks' = disks /\ Scanning
        /\ drv.pc # "probe"
    BY <1>1, <1>7 DEF StopFis, EngineStopped, Goto, DrvType, P, Scanning,
       Stopping
  <2> QED BY <1>3, <1>5, <2>1
<1>8. ASSUME Executing', P' = P, disks' = disks, drv'.op = "identify",
             Scanning, kind[P] = "sata"
      PROVE  Found'
  BY <1>1, <1>3, <1>8 DEF Found, Scanning
<1>9. CASE ConfigurePort
  <2>1. /\ Executing' /\ drv'.op = "identify" /\ P' = P /\ disks' = disks
        /\ Scanning /\ drv.pc # "probe"
    BY <1>1, <1>9 DEF ConfigurePort, DrvType, P, Scanning, Stopping, Executing
  <2> QED BY <1>3, <1>8, <2>1
<1>10. CASE FindSlot \/ Prepare \/ Issue
  <2>1. /\ Executing /\ Executing' /\ drv'.op = drv.op /\ P' = P
        /\ disks' = disks
    BY <1>1, <1>10 DEF FindSlot, Prepare, Issue, Goto, DrvType, P, Executing
  <2>2. CASE drv.op = "identify"
    BY <1>3, <1>8, <2>1, <2>2 DEF Scanning, Executing
  <2>3. CASE drv.op # "identify"
    <3>1. ~Scanning /\ ~Scanning' /\ drv.op = "read"
      BY <1>1, <2>1, <2>3 DEF Scanning, Stopping, Executing, DriverAtPort
    <3> QED BY <1>1, <1>3, <2>1, <3>1 DEF Found, Executing
  <2> QED BY <2>2, <2>3
<1>11. CASE Identified
  <2>1. /\ P \in Ports /\ drv'.pc = "probe" /\ P' = P + 1
        /\ disks' = Append(disks, P)
        /\ Scanning /\ drv.pc # "probe"
    BY <1>1, <1>11 DEF Identified, Succeeded, Finished, DriverAtPort, Executing,
       Scanning, DrvType, P
  <2>2. Range(disks') = Range(disks) \cup {P}
    BY <1>1, <2>1, RangeAppend
  <2>3. Range(disks') = Passed(P')
    BY <1>2, <1>3, <2>1, <2>2
  <2>4. \A q \in Range(disks) : q < P
    BY <1>3, <2>1
  <2>5. \A i, j \in DOMAIN disks' : i < j => disks'[i] < disks'[j]
    <3>1. SUFFICES ASSUME NEW i \in DOMAIN disks', NEW j \in DOMAIN disks', i < j
                   PROVE  disks'[i] < disks'[j]
      OBVIOUS
    <3>2. i \in DOMAIN disks /\ disks'[i] = disks[i]
      BY <1>1, <2>1, <3>1
    <3>3. CASE j \in DOMAIN disks
      <4>1. disks'[j] = disks[j]
        BY <1>1, <2>1, <3>3
      <4> QED BY <1>3, <3>1, <3>2, <3>3, <4>1
    <3>4. CASE j \notin DOMAIN disks
      <4>1. disks'[j] = P
        BY <1>1, <2>1, <3>1, <3>4
      <4>2. disks[i] \in Range(disks)
        BY <3>2 DEF Range
      <4> QED BY <2>4, <3>2, <4>1, <4>2
    <3> QED BY <3>3, <3>4
  <2> QED BY <1>1, <2>1, <2>3, <2>5 DEF Found, Scanning, Executing
<1>12. CASE NoMemory \/ ConfigureTimeout \/ IdentifyFailed
  <2>1. drv'.pc = "halted" /\ disks' = disks
    BY <1>1, <1>12, DriverGoes DEF NoMemory, ConfigureTimeout, IdentifyFailed
  <2> QED BY <1>3, <2>1 DEF Found, Scanning, Stopping, Executing
<1>13. CASE ScanDone
  <2>1. drv'.pc = "idle" /\ disks' = disks /\ Scanning /\ P \notin Ports
    BY <1>1, <1>13, DriverGoes DEF ScanDone, Scanning
  <2>2. P = NPorts + 1
    BY <1>1, <2>1 DEF DrvType, P, Ports
  <2>3. Passed(P) = All
    BY <1>1, <2>2 DEF Ports
  <2> QED BY <1>1, <1>3, <2>1, <2>3 DEF Found, Scanning, Stopping, Executing
<1>14. CASE ReadDone \/ ReadFailed
  <2>1. drv'.pc = "idle" /\ disks' = disks /\ drv.op = "read"
          /\ drv.pc # "probe" /\ Executing
    BY <1>1, <1>14, DriverGoes DEF ReadDone, ReadFailed, Succeeded, Failed,
       Finished,
       NoSlot, Timeout, TaskFileError, Waiting, Executing
  <2>2. ~Scanning /\ drv.pc # "halted"
    BY <2>1 DEF Scanning, Stopping, Executing
  <2> QED BY <1>1, <1>3, <2>1, <2>2 DEF Found, Scanning, Stopping, Executing
<1>15. ASSUME NEW p \in Ports, NEW l \in Lbas, Read(p, l) PROVE Found'
  <2>1. /\ drv.pc = "idle" /\ p \in Range(disks) /\ disks' = disks
        /\ drv'.pc = "find_slot" /\ drv'.op = "read" /\ P' = p
    BY <1>15 DEF Read, P
  <2> QED BY <1>1, <1>3, <2>1 DEF Found, Scanning, Stopping, Executing
<1>16. ASSUME NEW p \in Ports, Adapter(p) PROVE Found'
  <2>1. UNCHANGED <<drv, disks>>
    BY <1>1, <1>16, AdapterStep DEF driverVars
  <2> QED BY <1>1, <2>1 DEF Found, Scanning, Stopping, Executing, P
<1> QED BY <1>4, <1>6, <1>7, <1>9, <1>10, <1>11, <1>12, <1>13, <1>14, <1>15,
           <1>16
        DEF Next, Driver

\* Every step keeps the count of the frames in use.
LEMMA BuffersKept ==
  ASSUME BaseInv, Next
  PROVE  Buffers'
<1> DEFINE n == Cardinality(used)
<1>1. /\ drv \in DrvType /\ disks \in Seq(Ports) /\ TypeOK /\ Fetched /\ Buffers
      /\ DriverAtPort /\ Frames' = Frames /\ frames \in Nat
      /\ used \subseteq Frames
      /\ Len(disks) \in Nat
  BY FixedKept DEF BaseInv, TypeOK, StoreOK
<1>2. /\ IsFiniteSet(used) /\ n \in Nat
      /\ \A f : f \notin used => Cardinality(used \cup {f}) = n + 1
      /\ \A f \in used : Cardinality(used \ {f}) = n - 1
  <2>1. IsFiniteSet(used)
    <3>1. IsFiniteSet(Frames)
      BY <1>1, FS_Interval DEF Frames
    <3> QED BY <1>1, <3>1, FS_Subset
  <2> QED BY <2>1, FS_CardinalityType, FS_AddElement, FS_RemoveElement
<1>3. Lowest # 0 => Lowest \in Frames /\ Lowest \notin used
  BY <1>1, LowestFree
<1>4. CASE SkipPort \/ ScanDone
  <2>1. /\ drv'.pc \in {"probe", "idle"} /\ drv.pc = "probe"
        /\ UNCHANGED <<disks, used>>
    BY <1>1, <1>4, DriverGoes DEF SkipPort, ScanDone
  <2> QED BY <1>1, <2>1 DEF Buffers, Held, Stopping, Executing
<1>5. CASE ProbePort
  <2>1. /\ drv.pc = "probe" /\ drv'.pc = "wait_cr" /\ drv'.buf = Lowest
        /\ Lowest # 0
        /\ used' = used \cup {Lowest} /\ disks' = disks
    BY <1>1, <1>5 DEF ProbePort, DrvType
  <2>2. n = Len(disks)
    BY <1>1, <2>1 DEF Buffers, Held, Executing
  <2>3. Cardinality(used') = n + 1 /\ Lowest \in used'
    BY <1>2, <1>3, <2>1
  <2> QED BY <2>1, <2>2, <2>3 DEF Buffers, Held, Stopping, Executing
<1>6. CASE StopFis
  <2>1. /\ drv.pc = "wait_cr" /\ drv'.pc = "wait_fr" /\ drv'.buf = drv.buf
        /\ UNCHANGED <<used, disks>>
    BY <1>1, <1>6 DEF StopFis, EngineStopped, Goto, DrvType
  <2> QED BY <1>1, <2>1 DEF Buffers, Held, Stopping, Executing
<1>7. CASE ConfigurePort
  <2>1. /\ drv.pc = "wait_fr" /\ drv'.pc = "find_slot" /\ drv'.op = "identify"
        /\ drv'.buf = drv.buf /\ Lowest # 0
        /\ used' = used \cup {Lowest} /\ disks' = disks
    BY <1>1, <1>7 DEF ConfigurePort, DrvType
  <2>2. n = Len(disks) + 1 /\ Cardinality(used') = n + 1 /\ drv.buf \in used
    BY <1>2, <1>3, <1>1, <2>1 DEF Buffers, Held, Stopping, Executing
  <2> QED BY <1>1, <2>1, <2>2 DEF Buffers, Held, Stopping, Executing
<1>8. CASE NoMemory \/ ConfigureTimeout \/ IdentifyFailed
  <2>1. drv'.pc = "halted"
    BY <1>1, <1>8, DriverGoes
  <2> QED BY <2>1 DEF Buffers, Stopping, Executing
<1>9. CASE FindSlot \/ Prepare \/ Issue
  <2>1. /\ Executing /\ Executing' /\ drv'.op = drv.op /\ drv'.buf = drv.buf
        /\ UNCHANGED <<used, disks>>
    BY <1>1, <1>9 DEF FindSlot, Prepare, Issue, Goto, DrvType, Executing
  <2> QED BY <1>1, <2>1 DEF Buffers, Held, Stopping, Executing
<1>10. CASE Identified
  <2>1. /\ drv.pc = "wait_done" /\ drv.op = "identify" /\ drv'.pc = "probe"
        /\ P \in Ports
        /\ used' = used \ {drv.buf} /\ disks' = Append(disks, P)
    BY <1>1, <1>10, DriverGoes DEF Identified, Succeeded, Finished,
       DriverAtPort, Executing
  <2>2. n = Len(disks) + 2 /\ drv.buf \in used /\ drv.buf \in Frames
    BY <1>1, <2>1 DEF Buffers, Held, Executing
  <2>3. Cardinality(used') = n - 1 /\ Len(disks') = Len(disks) + 1
          /\ used' # Frames
    BY <1>1, <1>2, <2>1, <2>2
  <2> QED BY <1>1, <1>2, <2>1, <2>2, <2>3 DEF Buffers, Held, Stopping, Executing
<1>11. CASE ReadDone \/ ReadFailed
  <2>1. /\ Executing /\ drv.op = "read" /\ drv'.pc = "idle"
        /\ used' = used \ {drv.buf} /\ disks' = disks
    BY <1>1, <1>11, DriverGoes DEF ReadDone, ReadFailed, Succeeded, Failed,
       Finished,
       NoSlot, Timeout, TaskFileError, Waiting, Executing
  <2>2. n = Len(disks) + 1 /\ drv.buf \in used /\ drv.buf \in Frames
    BY <1>1, <2>1 DEF Buffers, Held, Executing
  <2>3. Cardinality(used') = n - 1 /\ used' # Frames
    BY <1>1, <1>2, <2>1, <2>2
  <2> QED BY <1>1, <1>2, <2>1, <2>2, <2>3 DEF Buffers, Held, Stopping, Executing
<1>12. ASSUME NEW p \in Ports, NEW l \in Lbas, Read(p, l) PROVE Buffers'
  <2>1. /\ drv.pc = "idle" /\ p \in Range(disks) /\ disks # <<>>
        /\ disks' = disks
        /\ drv' = [pc |-> "find_slot", op |-> "read", port |-> p, lba |-> l,
                   buf |-> Lowest, slot |-> 0]
        /\ used' = used \cup {Lowest}
    BY <1>12 DEF Read, Range
  <2>2. n = Len(disks) /\ used # Frames
    BY <1>1, <2>1 DEF Buffers, Held, Executing
  <2> HIDE DEF n
  <2>3. Cardinality(used') = n + 1 /\ Lowest \in used'
    BY <1>1, <1>2, <1>3, <2>1, <2>2, LowestFree
  <2> QED BY <2>1, <2>2, <2>3 DEF Buffers, Held, Stopping, Executing
<1>13. ASSUME NEW p \in Ports, Adapter(p) PROVE Buffers'
  <2>1. UNCHANGED <<drv, disks, used>>
    BY <1>1, <1>13, AdapterStep DEF driverVars
  <2> QED BY <1>1, <2>1 DEF Buffers, Held, Stopping, Executing
<1> QED BY <1>4, <1>5, <1>6, <1>7, <1>8, <1>9, <1>10, <1>11, <1>12, <1>13
        DEF Next, Driver

-----------------------------------------------------------------------------
(* Ports that answer in time                                               *)

PromptInv == OneCommand /\ Delivered /\ ReadIntegrity

\* No adapter has anything to do.
Quiet ==
  \A p \in Ports :
    /\ hba[p].ci # <<>> => hba[p].wedged
    /\ ~hba[p].run.active

\* Except while the driver waits for completion, every adapter is quiet.
LEMMA QuietUnlessWaiting ==
  ASSUME Fetched
  PROVE  /\ OneCommand /\ drv.pc # "wait_done" => Quiet
         /\ Quiet => OneCommand
BY DEF Fetched, OneCommand, Quiet

\* When the driver stops waiting, also on an error, the adapter has stopped.
LEMMA QuietAfter ==
  ASSUME BaseInv, punctual, OneCommand, Delivered,
         Succeeded \/ Failed
  PROVE  Quiet
<1>1. /\ Fetched /\ TypeOK /\ DriverAtPort /\ drv \in DrvType
      /\ hba \in [Ports -> PortType]
  BY DEF BaseInv, TypeOK, StoreOK
<1>2. CASE drv.pc # "wait_done"
  BY <1>1, <1>2, QuietUnlessWaiting
<1>3. CASE drv.pc = "wait_done"
  <2>1. Finished \/ hba[P].wedged
    BY <1>3 DEF Succeeded, Failed, NoSlot, Timeout, TaskFileError, Waiting,
       Finished,
       Delivered
  <2>2. P \in Ports
    BY <1>1, <1>3 DEF DriverAtPort, Executing
  <2>3. drv.slot \in Range(<<drv.slot>>)
    BY DEF Range
  <2>4. hba[P].ci # <<>> => hba[P].wedged
    BY <2>1, <2>2, <2>3 DEF OneCommand, Finished
  <2> QED BY <1>1, <2>4 DEF OneCommand, Quiet, Fetched
<1> QED BY <1>2, <1>3

\* The adapter works for the call in progress only.
LEMMA AdapterPrompt ==
  ASSUME BaseInv, punctual, PromptInv, NEW p \in Ports, Adapter(p)
  PROVE  PromptInv'
<1> DEFINE h == hba[p]
<1>1. /\ Fetched /\ TypeOK /\ DriverAtPort /\ drv \in DrvType /\ Started
      /\ TableSet
      /\ hba \in [Ports -> PortType] /\ mem \in [Frames -> Contents]
      /\ h \in PortType /\ h.ci \in Seq(Slots) /\ drv.slot \in Slots
  BY DEF BaseInv, TypeOK, StoreOK, PortType, DrvType
<1>2. OneCommand /\ Delivered /\ ReadIntegrity
  BY DEF PromptInv
<1>3. /\ UNCHANGED <<drv, disks, used, table, result, P>>
      /\ hba' \in [Ports -> PortType]
      /\ \A q \in Ports : q # p => hba'[q] = hba[q]
      /\ Fetched'
  BY <1>1, AdapterStep DEF driverVars, P, Fetched
<1>4. ReadIntegrity'
  BY <1>2, <1>3 DEF ReadIntegrity
<1>5. ASSUME mem' = mem, p # P \/ drv.pc # "wait_done", ~hba'[p].run.active,
             hba'[p].ci # <<>> => hba'[p].wedged
      PROVE  OneCommand' /\ Delivered'
  <2>1. OneCommand'
    BY <1>2, <1>3, <1>5 DEF OneCommand
  <2>2. drv.pc = "wait_done" => P \in Ports /\ P # p
    BY <1>1, <1>5 DEF DriverAtPort, Executing
  <2>3. Delivered'
    BY <1>2, <1>3, <1>5, <2>2 DEF Delivered
  <2> QED BY <2>1, <2>3
<1>6. h.run.active => /\ p = P /\ drv.pc = "wait_done" /\ h.ci = <<drv.slot>>
                      /\ h.run.buf = drv.buf /\ h.run.lba = drv.lba
  BY <1>1, <1>2 DEF OneCommand, Fetched
<1>7. CASE StopCommandEngine(p)
  <2>1. ~hba'[p].run.active /\ hba'[p].ci = <<>> /\ mem' = mem /\ ~h.st
    BY <1>1, <1>7 DEF StopCommandEngine, Hba, PortType, IdleRun
  <2>2. p # P \/ drv.pc # "wait_done"
    BY <1>1, <2>1 DEF Started, Executing
  <2> QED BY <1>4, <1>5, <2>1, <2>2 DEF PromptInv
<1>8. CASE StartCommandEngine(p) \/ FollowFisEnable(p)
  <2>1. /\ hba'[p].ci = h.ci /\ hba'[p].run = h.run /\ hba'[p].wedged = h.wedged
        /\ hba'[p].tfes = h.tfes /\ mem' = mem
    BY <1>1, <1>8 DEF StartCommandEngine, FollowFisEnable, Hba, PortType
  <2>2. OneCommand'
    BY <1>2, <1>3, <2>1 DEF OneCommand
  <2>3. Delivered'
    BY <1>1, <1>2, <1>3, <2>1 DEF Delivered, DriverAtPort, Executing
  <2> QED BY <1>4, <2>2, <2>3 DEF PromptInv
<1>9. CASE Fetch(p)
  <2>1. p = P /\ drv.pc = "wait_done" /\ h.ci = <<drv.slot>> /\ ~h.wedged
    BY <1>1, <1>2, <1>9 DEF Fetch, OneCommand
  <2>2. table[p][Head(h.ci)] = [buf |-> drv.buf, lba |-> drv.lba]
    BY <1>1, <2>1 DEF TableSet
  <2>3. /\ hba'[p].ci = h.ci /\ hba'[p].wedged = h.wedged
        /\ hba'[p].tfes = h.tfes
        /\ hba'[p].run = [active |-> TRUE, buf |-> table[p][Head(h.ci)].buf,
                          lba |-> table[p][Head(h.ci)].lba, dma |-> FALSE]
        /\ mem' = mem
    BY <1>1, <1>9 DEF Fetch, Hba, PortType
  <2>4. hba'[p].run.buf = drv.buf /\ hba'[p].run.lba = drv.lba
          /\ ~hba'[p].run.dma
    BY <2>2, <2>3
  <2>5. OneCommand'
    BY <1>2, <1>3, <2>1, <2>3, <2>4 DEF OneCommand
  <2>6. Delivered'
    BY <1>2, <1>3, <2>1, <2>3 DEF Delivered
  <2> QED BY <1>4, <2>5, <2>6 DEF PromptInv
<1>10. CASE Dma(p)
  <2>1. /\ p = P /\ drv.pc = "wait_done" /\ h.ci = <<drv.slot>> /\ h.run.active
        /\ h.run.buf = drv.buf /\ h.run.lba = drv.lba
    BY <1>6, <1>10 DEF Dma
  <2>2. drv.buf \in Frames
    BY <2>1 DEF BaseInv, Buffers, TypeOK, StoreOK, Executing
  <2>3. mem'[drv.buf] = Sector(p, drv.lba)
    BY <1>1, <1>10, <2>1, <2>2 DEF Dma
  <2>4. h.run \in RunType
    BY <1>1 DEF PortType
  <2>5. /\ hba'[p].ci = h.ci /\ hba'[p].wedged = h.wedged
        /\ hba'[p].tfes = h.tfes
        /\ hba'[p].run = [h.run EXCEPT !.dma = TRUE]
    BY <1>1, <1>10 DEF Dma, PortType
  <2>6. hba'[p].run.buf = drv.buf /\ hba'[p].run.lba = drv.lba
    BY <2>1, <2>4, <2>5 DEF RunType
  <2>7. \A q \in Ports : q # p => ~hba[q].run.active
    BY <1>1, <1>2, <2>1 DEF OneCommand, Fetched
  <2>8. OneCommand'
    BY <1>2, <1>3, <2>1, <2>3, <2>5, <2>6, <2>7 DEF OneCommand
  <2>9. Delivered'
    BY <1>2, <1>3, <2>1, <2>3, <2>5 DEF Delivered
  <2> QED BY <1>4, <2>8, <2>9 DEF PromptInv
<1>11. CASE Complete(p)
  <2>1. /\ p = P /\ drv.pc = "wait_done" /\ h.ci = <<drv.slot>> /\ h.run.active
        /\ mem[drv.buf] = Sector(p, drv.lba) /\ Tail(<<drv.slot>>) = <<>>
    BY <1>2, <1>6, <1>11 DEF Complete, OneCommand
  <2>2. /\ hba'[p].ci = <<>> /\ hba'[p].tfes = h.tfes
        /\ hba'[p].wedged = h.wedged
        /\ ~hba'[p].run.active /\ mem' = mem
    BY <1>1, <1>11, <2>1 DEF Complete, Hba, PortType, IdleRun
  <2>3. OneCommand'
    BY <1>2, <1>3, <2>1, <2>2 DEF OneCommand
  <2>4. Delivered'
    BY <1>2, <1>3, <2>1, <2>2 DEF Delivered
  <2> QED BY <1>4, <2>3, <2>4 DEF PromptInv
<1>12. CASE Fault(p)
  <2>1. /\ p = P /\ drv.pc = "wait_done"
    BY <1>6, <1>12 DEF Fault
  <2>2. hba'[p].tfes /\ hba'[p].wedged /\ ~hba'[p].run.active /\ mem' = mem
    BY <1>1, <1>12 DEF Fault, Hba, PortType, IdleRun
  <2>3. OneCommand'
    BY <1>2, <1>3, <2>1, <2>2 DEF OneCommand
  <2>4. Delivered'
    BY <1>2, <1>3, <2>1, <2>2 DEF Delivered
  <2> QED BY <1>4, <2>3, <2>4 DEF PromptInv
<1> QED BY <1>7, <1>8, <1>9, <1>10, <1>11, <1>12 DEF Adapter

\* The driver leaves a call only when the adapter has stopped working for it.
LEMMA DriverPrompt ==
  ASSUME BaseInv, punctual, PromptInv, Driver
  PROVE  PromptInv'
<1>1. /\ Fetched /\ TypeOK /\ DriverAtPort /\ drv \in DrvType /\ SlotFree
      /\ hba \in [Ports -> PortType] /\ drv.slot \in Slots
      /\ OneCommand /\ Delivered /\ ReadIntegrity
  BY DEF BaseInv, TypeOK, StoreOK, DrvType, PromptInv
<1>2. ASSUME Quiet', drv'.pc # "wait_done", ReadIntegrity' PROVE PromptInv'
  BY <1>2 DEF PromptInv, Quiet, OneCommand, Delivered
<1>3. ASSUME Quiet, hba' = hba, drv'.pc # "wait_done", result' = result
      PROVE  PromptInv'
  BY <1>1, <1>2, <1>3 DEF Quiet, ReadIntegrity
<1>4. drv.pc # "wait_done" => Quiet
  BY <1>1, QuietUnlessWaiting
<1>5. CASE SkipPort \/ NoMemory \/ ConfigureTimeout \/ ScanDone \/ FindSlot
        \/ Prepare
  <2>1. /\ drv.pc # "wait_done" /\ drv'.pc # "wait_done"
        /\ UNCHANGED <<hba, result>>
    BY <1>1, <1>5, DriverGoes DEF SkipPort, NoMemory, ConfigureTimeout,
       ScanDone,
       FindSlot, Prepare
  <2> QED BY <1>3, <1>4, <2>1
<1>6. CASE ProbePort \/ StopFis \/ ConfigurePort
  <2>1. /\ drv.pc # "wait_done" /\ drv'.pc # "wait_done" /\ result' = result
        /\ P \in Ports
    BY <1>1, <1>6, DriverGoes DEF ProbePort, StopFis, EngineStopped,
       ConfigurePort,
       DriverAtPort, Stopping
  <2>2. Quiet'
    <3>1. CASE ProbePort
      BY <1>1, <1>4, <2>1, <3>1 DEF ProbePort, PortType, Quiet
    <3>2. CASE StopFis
      BY <1>1, <1>4, <2>1, <3>2 DEF StopFis, PortType, Quiet
    <3>3. CASE ConfigurePort
      BY <1>1, <1>4, <2>1, <3>3 DEF ConfigurePort, PortType, Quiet
    <3> QED BY <1>6, <3>1, <3>2, <3>3
  <2> QED BY <1>1, <1>2, <2>1, <2>2 DEF ReadIntegrity
<1>7. CASE Issue
  <2>1. /\ drv.pc = "issue" /\ P \in Ports /\ P' = P /\ drv'.slot = drv.slot
        /\ drv'.pc = "wait_done" /\ result' = result /\ Quiet
    BY <1>1, <1>4, <1>7 DEF Issue, Goto, DrvType, P, DriverAtPort, Executing
  <2>2. hba[P].ci \in Seq(Slots)
    BY <1>1, <2>1 DEF PortType
  <2>3. /\ \A q \in Ports : q # P => hba'[q] = hba[q]
        /\ hba'[P].ci = Append(hba[P].ci, drv.slot) /\ ~hba'[P].tfes
        /\ hba'[P].wedged = hba[P].wedged /\ hba'[P].run = hba[P].run
    BY <1>1, <1>7, <2>1 DEF Issue, PortType
  <2>4. hba[P].ci = <<>> => hba'[P].ci = <<drv.slot>>
    BY <1>1, <2>3
  <2>5. drv.slot \in Range(hba'[P].ci)
    BY <1>1, <2>2, <2>3, RangeAppend
  <2>6. OneCommand'
    BY <2>1, <2>3, <2>4 DEF OneCommand, Quiet
  <2>7. Delivered'
    BY <2>1, <2>3, <2>5 DEF Delivered
  <2> QED BY <1>1, <2>1, <2>6, <2>7 DEF PromptInv, ReadIntegrity
<1>8. CASE Identified \/ IdentifyFailed \/ ReadFailed
  <2>1. /\ Succeeded \/ Failed
        /\ drv'.pc # "wait_done" /\ UNCHANGED <<hba, result>>
    BY <1>1, <1>8, DriverGoes DEF Identified, IdentifyFailed, ReadFailed
  <2> QED BY <1>1, <1>3, <2>1, QuietAfter
<1>9. CASE ReadDone
  <2>1. /\ Succeeded /\ drv'.pc # "wait_done" /\ hba' = hba
        /\ result' = [ok |-> TRUE, want |-> Sector(P, drv.lba), got |-> mem[drv.buf]]
    BY <1>1, <1>9, DriverGoes DEF ReadDone
  <2>2. mem[drv.buf] = Sector(P, drv.lba)
    BY <1>1, <2>1 DEF Succeeded, Finished, Delivered
  <2>3. ReadIntegrity'
    BY <2>1, <2>2 DEF ReadIntegrity
  <2> QED BY <1>1, <1>2, <2>1, <2>3, QuietAfter DEF Quiet
<1> QED BY <1>5, <1>6, <1>7, <1>8, <1>9 DEF Driver

\* A read starts while every adapter is quiet.
LEMMA ReadPrompt ==
  ASSUME BaseInv, punctual, PromptInv, NEW p \in Ports, NEW l \in Lbas, Read(p, l)
  PROVE  PromptInv'
<1>1. Quiet
  BY QuietUnlessWaiting DEF Read, BaseInv, PromptInv
<1>2. Quiet' /\ drv'.pc # "wait_done" /\ ~result'.ok
  BY <1>1 DEF Read, Quiet, NoResult
<1> QED BY <1>2 DEF PromptInv, Quiet, OneCommand, Delivered, ReadIntegrity

-----------------------------------------------------------------------------
(* Results                                                                 *)

\* The inductive invariant holds when SATA_get_disks is called.
LEMMA InitSata == Init => SataInv
<1> SUFFICES ASSUME Init PROVE SataInv
  OBVIOUS
<1>0. /\ frames \in HeapSizes /\ disks = <<>> /\ used = {}
      /\ drv = [Idle EXCEPT !.pc = "probe", !.op = "identify"]
  BY DEF Init
<1>1. /\ NPorts \in Nat \ {0} /\ Slots \subseteq Nat /\ 0 \in Slots
      /\ frames \in Nat
  <2>1. frames \in HeapSizes
    BY <1>0
  <2>2. NSlots \in Nat /\ NSlots >= 1 /\ NPorts \in Nat \ {0} /\ frames \in Nat
    BY <2>1, SataAssumption
  <2> QED BY <2>2 DEF Slots
<1>2. /\ drv = [pc |-> "probe", op |-> "identify", port |-> 1, lba |-> Identity,
                buf |-> 0, slot |-> 0]
      /\ disks = <<>> /\ used = {} /\ Range(disks) = {} /\ Len(disks) = 0
      /\ Cardinality(used) = 0
  <2>1. drv = [pc |-> "probe", op |-> "identify", port |-> 1, lba |-> Identity,
               buf |-> 0, slot |-> 0]
    BY <1>0 DEF Idle
  <2>2. Range(disks) = {} /\ Len(disks) = 0
    BY <1>0 DEF Range
  <2> QED BY <1>0, <2>1, <2>2, FS_EmptySet
<1>3. ~Stopping /\ ~Executing /\ P = 1
  BY <1>2 DEF Stopping, Executing, P
<1>4. drv \in DrvType
  BY <1>1, <1>2 DEF DrvType, Addresses
<1>5. PICK running \in [Ports -> BOOLEAN] : hba = [p \in Ports |-> PortState(running[p])]
  BY DEF Init
<1>6. \A p \in Ports : /\ hba[p] \in PortType /\ hba[p].ci = <<>>
                       /\ ~hba[p].run.active
  <2>1. IdleRun \in RunType /\ <<>> \in Seq(Slots) /\ ~IdleRun.active
    BY <1>1 DEF IdleRun, RunType, Addresses
  <2> HIDE DEF IdleRun
  <2> QED BY <1>5, <2>1 DEF PortState, PortType
<1>7. StoreOK
  <2>1. hba \in [Ports -> PortType]
    BY <1>5, <1>6
  <2>2. mem \in [Frames -> Contents]
    BY DEF Init, Frames, Contents
  <2>3. table \in [Ports -> [Slots -> Commands]]
    BY <1>1 DEF Init, Commands, Addresses
  <2> QED BY <1>2, <2>1, <2>2, <2>3 DEF StoreOK
<1>8. TypeOK
  BY <1>1, <1>3, <1>4, <1>7, SataAssumption DEF Init, TypeOK, DriverAtPort
<1>9. Buffers
  BY <1>2, <1>3 DEF Buffers, Held
<1>10. Started /\ SlotFree /\ TableSet
  BY <1>2, <1>3 DEF Started, SlotFree, TableSet
<1>11. Found
  <2>1. {p \in Ports : p < 1 /\ kind[p] = "sata"} = {}
    BY DEF Ports
  <2> QED BY <1>2, <1>3, <2>1 DEF Found, Scanning
<1>12. Fetched /\ PromptInv
  BY <1>2, <1>6 DEF Fetched, PromptInv, OneCommand, Delivered, ReadIntegrity,
     Init, NoResult
<1> QED BY <1>8, <1>9, <1>10, <1>11, <1>12 DEF SataInv, BaseInv, PromptInv

\* Every step keeps the inductive invariant.
LEMMA SataStep == SataInv /\ [Next]_vars => SataInv'
<1> SUFFICES ASSUME SataInv, [Next]_vars PROVE SataInv'
  OBVIOUS
<1>1. BaseInv /\ (punctual => PromptInv)
  BY DEF SataInv, PromptInv
<1>2. CASE Next
  <2>1. BaseInv'
    BY <1>1, <1>2, TypeKept, BuffersKept, StartedKept, FoundKept, SlotFreeKept,
       TableSetKept, FetchedKept DEF BaseInv
  <2>2. punctual' = punctual
    BY <1>1, <1>2, FixedKept DEF BaseInv
  <2>3. punctual => PromptInv'
    BY <1>1, <1>2, DriverPrompt, ReadPrompt, AdapterPrompt DEF Next
  <2> QED BY <2>1, <2>2, <2>3 DEF SataInv, PromptInv
<1>3. CASE UNCHANGED vars
  BY <1>1, <1>3 DEF vars, SataInv, BaseInv, TypeOK, DriverAtPort, StoreOK,
     Buffers, Held,
     Started, Found, SlotFree, TableSet, Fetched, PromptInv, OneCommand, Delivered,
     ReadIntegrity, Stopping, Executing, Scanning, P, Frames, Addresses, Contents,
     Commands, DrvType, RunType, PortType
<1> QED BY <1>2, <1>3

\* The inductive invariant of SATA_get_disks and SATA_read beside their adapter.
THEOREM SataInvariance == Spec => []SataInv
BY InitSata, SataStep, PTL DEF Spec

\* A read that reports success delivers the sector that was asked for, wherever
\* the ports that work answer before SATA_execute_command gives up.
THEOREM PromptReadsCorrect == Spec => []PromptReadIntegrity
<1>1. SataInv => PromptReadIntegrity
  BY DEF SataInv, PromptReadIntegrity
<1> QED BY <1>1, SataInvariance, PTL

\* There the adapter writes only into the buffer of the call in progress.
THEOREM DmaContained == Spec => []DmaIntoOwnBuffer
<1>1. SataInv => DmaIntoOwnBuffer
  BY DEF SataInv, BaseInv, Buffers, Fetched, OneCommand, DmaIntoOwnBuffer,
     Executing
<1> QED BY <1>1, SataInvariance, PTL

\* SATA_get_disks returns exactly the SATA disks, in port order.
THEOREM DisksComplete == Spec => []AllDisksFound
<1>1. SataInv => AllDisksFound
  BY DEF SataInv, BaseInv, Found, AllDisksFound, Scanning, Stopping, Executing
<1> QED BY <1>1, SataInvariance, PTL

\* No path out of the driver leaks its buffer: a read always finds a free one.
THEOREM BuffersReturned == Spec => []BufferAtHand
<1>1. SataInv => BufferAtHand
  BY LowestFree DEF SataInv, BaseInv, TypeOK, StoreOK, Buffers, Held,
     BufferAtHand, Executing
<1> QED BY <1>1, SataInvariance, PTL

\* The table of an issued command is never rewritten.
THEOREM IssuedStable == Spec => IssuedCommandsStable
<1> DEFINE Stable == \A p \in Ports, s \in Slots :
                       s \in Range(hba[p].ci) => table'[p][s] = table[p][s]
<1>1. SataInv /\ [Next]_vars => [Stable]_vars
  <2> SUFFICES ASSUME SataInv, Next PROVE Stable
    OBVIOUS
  <2>1. /\ TypeOK /\ Fetched /\ SlotFree
        /\ table \in [Ports -> [Slots -> Commands]]
    BY DEF SataInv, BaseInv, TypeOK, StoreOK
  <2>2. CASE Prepare
    BY <2>1, <2>2 DEF Prepare, SlotFree
  <2>3. ASSUME NEW p \in Ports, Adapter(p) PROVE table' = table
    BY <2>1, <2>3, AdapterStep DEF driverVars
  <2>4. ASSUME Driver, ~Prepare PROVE table' = table
    BY <2>4 DEF Driver, SkipPort, ProbePort, StopFis, ConfigurePort, NoMemory,
       ConfigureTimeout, ScanDone, FindSlot, Issue, Identified, IdentifyFailed,
       ReadDone, ReadFailed
  <2>5. ASSUME NEW p \in Ports, NEW l \in Lbas, Read(p, l) PROVE table' = table
    BY <2>5 DEF Read
  <2> QED BY <2>2, <2>3, <2>4, <2>5 DEF Next
<1> QED BY <1>1, SataInvariance, PTL DEF Spec, IssuedCommandsStable

\* A port's structures are programmed only while both of its engines stand still.
THEOREM ConfiguredWhileStopped == Spec => ConfiguredStopped
<1>1. SataInv /\ [Next]_vars => [ConfigurePort => ~hba[P].cr /\ ~hba[P].fr]_vars
  BY DEF SataInv, BaseInv, Started, ConfigurePort
<1> QED BY <1>1, SataInvariance, PTL DEF Spec, ConfiguredStopped
=============================================================================
