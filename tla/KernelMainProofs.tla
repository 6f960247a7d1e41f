--------------------------- MODULE KernelMainProofs ---------------------------
(***************************************************************************)
(* What the exFAT driver and the loop of kernel_main allocate is freed     *)
(* again, on every path and whatever the disks hold: nothing is assumed    *)
(* about their contents, and every read may fail.                          *)
(*                                                                         *)
(* On an exFAT volume as ExFatVolume defines it, of any size, the search   *)
(* finds the files that there are, the reads return their data, and no     *)
(* step leaves the partition.  The invariant relates the call in progress  *)
(* to the volume: which cluster of which directory it is at and what it    *)
(* has passed, which cluster of the file it is at and what it has copied.  *)
(***************************************************************************)
EXTENDS KernelMain, AlignmentProofs, TLAPS

-----------------------------------------------------------------------------
(* The inductive invariant of the heap                                     *)

Counts == [buffer : Int, file : Int, data : Int]

OpenFields == {"op", "pc", "path", "cluster", "buffer", "before"}
ReadFields == {"op", "pc", "file", "cluster", "data", "before", "buffer"}

\* EXFAT_read_file and EXFAT_read_file_ALL have allocated the data, unless the file
\* is empty, and then they are through at once.
Sized  == IF call.file.length = 0 THEN 0 ELSE 1
NoData == call.file.length = 0 => call.data = <<>>

\* What is allocated beyond what was when the call began.
Holds(buffers, datas) ==
  /\ heap.buffer = call.before.buffer + buffers
  /\ heap.file = call.before.file
  /\ heap.data = call.before.data + datas

\* A call in progress holds its cluster buffer and, when it reads, the data.
CallHolds ==
  call # NoCall =>
    /\ call.before \in Counts
    /\ \/ DOMAIN call = OpenFields /\ call.op = "open" /\ Holds(1, 0)
       \/ /\ DOMAIN call = ReadFields /\ call.op \in {"read_all", "read_file"}
          /\ NoData /\ Holds(1, Sized)

Clear(h) == h.buffer = 0 /\ h.data = 0

\* Between the calls of kernel_main at most the data of the file just read is held.
LoopHolds ==
  IF call = NoCall
    THEN IF pc \in {"read", "fault"}
           THEN heap.buffer = 0 /\ heap.data = (IF reply.ok THEN 1 ELSE 0)
           ELSE Clear(heap)
    ELSE /\ Clear(call.before)
         /\ \/ pc = "opened" /\ call.op = "open"
            \/ pc = "read" /\ call.op # "open"

HeapInv ==
  /\ caller \in Callers
  /\ heap \in Counts
  /\ reply.ok \in BOOLEAN
  /\ CallHolds
  /\ LoopHolds

-----------------------------------------------------------------------------
(* The calls of the driver                                                 *)

\* What a return leaves, as FsCallsBalanced says.
Balanced ==
  heap' = [call.before EXCEPT
             !.file = IF call.op = "open" /\ reply'.ok THEN @ + 1 ELSE @,
             !.data = IF call.op # "open" /\ reply'.ok THEN @ + 1 ELSE @]

\* One step of a call: it goes on with what it holds, or it returns balanced.
StepKeeps ==
  /\ heap' \in Counts /\ reply'.ok \in BOOLEAN
  /\ call' # NoCall => CallHolds' /\ call'.before = call.before /\ call'.op = call.op
  /\ call' = NoCall => Balanced

LEMMA CallIs ==
  ASSUME HeapInv, call # NoCall
  PROVE  /\ call.before \in Counts
         /\ call.op = "open" => DOMAIN call = OpenFields /\ Holds(1, 0)
         /\ call.op # "open" =>
              /\ DOMAIN call = ReadFields
              /\ call.op \in {"read_all", "read_file"}
              /\ NoData /\ Holds(1, Sized)
BY DEF HeapInv, CallHolds

\* Two heaps with the same counts are the same.
LEMMA SameCounts ==
  ASSUME NEW g \in Counts, NEW h \in Counts,
         g.buffer = h.buffer, g.file = h.file, g.data = h.data
  PROVE  g = h
BY DEF Counts

\* A return is balanced if the counts are.
LEMMA ReturnBalanced ==
  ASSUME call.before \in Counts, heap' \in Counts, reply'.ok \in BOOLEAN,
         heap'.buffer = call.before.buffer,
         heap'.file = call.before.file
                        + IF call.op = "open" /\ reply'.ok THEN 1 ELSE 0,
         heap'.data = call.before.data
                        + IF call.op # "open" /\ reply'.ok THEN 1 ELSE 0
  PROVE  Balanced
<1> DEFINE h == call.before
           file == IF call.op = "open" /\ reply'.ok THEN h.file + 1 ELSE h.file
           data == IF call.op # "open" /\ reply'.ok THEN h.data + 1 ELSE h.data
           g == [h EXCEPT !.file = file, !.data = data]
<1>1. h.file \in Int /\ h.data \in Int
  BY DEF Counts
<1>2. file \in Int /\ data \in Int /\ heap'.file = file /\ heap'.data = data
  BY <1>1
<1> HIDE DEF file, data
<1>3. g \in Counts /\ g.buffer = h.buffer /\ g.file = file /\ g.data = data
  BY <1>2 DEF Counts
<1>4. heap' = g
  <2> HIDE DEF g
  <2> QED BY <1>2, <1>3, SameCounts
<1> QED BY <1>4 DEF Balanced, file, data

\* A search that goes on keeps its buffer.
LEMMA OpenGoesOn ==
  ASSUME HeapInv, call.op = "open", UNCHANGED <<heap, reply>>,
         call'.op = call.op, call'.before = call.before, DOMAIN call' = DOMAIN call
  PROVE  StepKeeps
<1>1. call # NoCall /\ call' # NoCall
  BY DEF NoCall
<1>2. /\ call.before \in Counts /\ Holds(1, 0) /\ DOMAIN call = OpenFields
  BY <1>1, CallIs
<1>3. CallHolds'
  BY <1>2 DEF CallHolds, Holds
<1> QED BY <1>1, <1>3 DEF StepKeeps, HeapInv

\* A read that goes on keeps its buffer and the data.
LEMMA ReadGoesOn ==
  ASSUME HeapInv, call.op \in {"read_all", "read_file"}, UNCHANGED <<heap, reply>>,
         call'.op = call.op, call'.before = call.before, DOMAIN call' = DOMAIN call,
         call'.file = call.file, NoData'
  PROVE  StepKeeps
<1>1. call # NoCall /\ call' # NoCall
  BY DEF NoCall
<1>2. /\ call.before \in Counts /\ Holds(1, Sized) /\ DOMAIN call = ReadFields
  BY <1>1, CallIs
<1>3. Sized' = Sized
  BY DEF Sized
<1>4. CallHolds'
  BY <1>2, <1>3 DEF CallHolds, Holds
<1> QED BY <1>1, <1>4 DEF StepKeeps, HeapInv

\* A search that fails frees its buffer.
LEMMA OpenGivesUp ==
  ASSUME HeapInv, call.op = "open", NotFound
  PROVE  StepKeeps
<1>1. call # NoCall
  BY DEF NoCall
<1>2. call.before \in Counts /\ Holds(1, 0) /\ heap \in Counts
  BY <1>1, CallIs DEF HeapInv
<1>3. heap' = [heap EXCEPT !.buffer = @ - 1] /\ call' = NoCall /\ ~reply'.ok
      /\ reply'.ok \in BOOLEAN
  BY DEF NotFound, Return, Null
<1>4. heap' \in Counts /\ heap'.buffer = heap.buffer - 1
        /\ heap'.file = heap.file
      /\ heap'.data = heap.data
  BY <1>2, <1>3 DEF Counts
<1>5. Balanced
  BY <1>2, <1>3, <1>4, ReturnBalanced DEF Holds, Counts
<1> QED BY <1>3, <1>4, <1>5 DEF StepKeeps

\* A read of a file that is not empty frees its buffer and the data.
LEMMA ReadGivesUp ==
  ASSUME HeapInv, call.op \in {"read_all", "read_file"}, ~Complete, GiveUp
  PROVE  StepKeeps
<1>1. call # NoCall
  BY DEF NoCall
<1>2. /\ call.before \in Counts /\ NoData /\ Holds(1, Sized) /\ heap \in Counts
  BY <1>1, CallIs DEF HeapInv
<1>3. Sized = 1
  BY <1>2 DEF NoData, Complete, Sized
<1>4. heap' = [heap EXCEPT !.buffer = @ - 1, !.data = @ - 1] /\ call' = NoCall
      /\ ~reply'.ok /\ reply'.ok \in BOOLEAN
  BY DEF GiveUp, Return, Null
<1>5. heap' \in Counts /\ heap'.buffer = heap.buffer - 1
        /\ heap'.file = heap.file
      /\ heap'.data = heap.data - 1
  <2> DEFINE x == heap.buffer - 1
             y == heap.data - 1
  <2>1. x \in Int /\ y \in Int /\ heap' = [heap EXCEPT !.buffer = x, !.data = y]
    BY <1>2, <1>4 DEF Counts
  <2> HIDE DEF x, y
  <2>2. heap' \in Counts /\ heap'.buffer = x /\ heap'.file = heap.file
          /\ heap'.data = y
    BY <1>2, <2>1 DEF Counts
  <2> QED BY <2>2 DEF x, y
<1>6. Balanced
  BY <1>2, <1>3, <1>4, <1>5, ReturnBalanced DEF Holds, Counts
<1> QED BY <1>4, <1>5, <1>6 DEF StepKeeps

\* EXFAT_open_file.
LEMMA OpenKeeps ==
  ASSUME HeapInv,
         ReadDirectory \/ ReadDirectoryFails \/ ScanDirectory
           \/ NextDirectoryCluster
  PROVE  StepKeeps
<1>1. call.op = "open"
  BY DEF ReadDirectory, ReadDirectoryFails, ScanDirectory,
     NextDirectoryCluster, Opening
<1>2. call # NoCall
  BY <1>1 DEF NoCall
<1>3. call.before \in Counts /\ DOMAIN call = OpenFields /\ Holds(1, 0)
        /\ heap \in Counts
  BY <1>1, <1>2, CallIs DEF HeapInv
<1>4. CASE ReadDirectory
  <2>1. call'.op = call.op /\ call'.before = call.before
          /\ DOMAIN call' = DOMAIN call
    BY <1>3, <1>4 DEF ReadDirectory, OpenFields
  <2> QED BY <1>1, <1>4, <2>1, OpenGoesOn DEF ReadDirectory
<1>5. CASE ReadDirectoryFails
  BY <1>1, <1>5, OpenGivesUp DEF ReadDirectoryFails, NotFound
<1>6. CASE ScanDirectory
  <2>1. ASSUME NEW file, Found(file) PROVE StepKeeps
    <3>1. CASE NotFound
      BY <1>1, <3>1, OpenGivesUp
    <3>2. CASE /\ heap' = [heap EXCEPT !.buffer = @ - 1, !.file = @ + 1]
               /\ Return([ok |-> TRUE, file |-> file])
      <4>1. call' = NoCall /\ reply'.ok = TRUE
        BY <3>2 DEF Return
      <4> DEFINE x == heap.buffer - 1
                 y == heap.file + 1
      <4>2. x \in Int /\ y \in Int
              /\ heap' = [heap EXCEPT !.buffer = x, !.file = y]
        BY <1>3, <3>2 DEF Counts
      <4> HIDE DEF x, y
      <4>3. heap' \in Counts /\ heap'.buffer = x /\ heap'.file = y
            /\ heap'.data = heap.data
        BY <1>3, <4>2 DEF Counts
      <4>4. heap'.buffer = call.before.buffer
              /\ heap'.file = call.before.file + 1
            /\ heap'.data = call.before.data + 0
        BY <1>3, <4>3 DEF Holds, Counts, x, y
      <4>5. Balanced
        BY <1>1, <1>3, <4>1, <4>3, <4>4, ReturnBalanced
      <4> QED BY <4>1, <4>3, <4>5 DEF StepKeeps
    <3>3. CASE /\ call' = [call EXCEPT !.pc = "read", !.path = Tail(@),
                                       !.cluster = file.first]
               /\ UNCHANGED <<heap, reply>>
      <4>1. call'.op = call.op /\ call'.before = call.before
            /\ DOMAIN call' = DOMAIN call
        BY <1>3, <3>3 DEF OpenFields
      <4> QED BY <1>1, <3>3, <4>1, OpenGoesOn
    <3> QED BY <2>1, <3>1, <3>2, <3>3 DEF Found
  <2>2. CASE call' = [call EXCEPT !.pc = "next"] /\ UNCHANGED <<heap, reply>>
    <3>1. call'.op = call.op /\ call'.before = call.before
            /\ DOMAIN call' = DOMAIN call
      BY <1>3, <2>2 DEF OpenFields
    <3> QED BY <1>1, <2>2, <3>1, OpenGoesOn
  <2>3. CASE NotFound
    BY <1>1, <2>3, OpenGivesUp
  <2> QED BY <1>6, <2>1, <2>2, <2>3 DEF ScanDirectory
<1>7. CASE NextDirectoryCluster
  <2>1. PICK next : IF next >= EndMark
                      THEN NotFound
                      ELSE
                        /\ call' = [call EXCEPT !.pc = "read", !.cluster = next]
                           /\ UNCHANGED <<heap, reply>>
    BY <1>7 DEF NextDirectoryCluster
  <2>2. CASE NotFound
    BY <1>1, <2>2, OpenGivesUp
  <2>3. CASE /\ call' = [call EXCEPT !.pc = "read", !.cluster = next]
             /\ UNCHANGED <<heap, reply>>
    <3>1. call'.op = call.op /\ call'.before = call.before
            /\ DOMAIN call' = DOMAIN call
      BY <1>3, <2>3 DEF OpenFields
    <3> QED BY <1>1, <2>3, <3>1, OpenGoesOn
  <2> QED BY <2>1, <2>2, <2>3
<1> QED BY <1>4, <1>5, <1>6, <1>7

\* EXFAT_read_file and EXFAT_read_file_ALL.
LEMMA ReadKeeps ==
  ASSUME HeapInv,
         LoadCluster \/ LoadFails \/ LoadFailsUnseen \/ NextFlat
           \/ NextChained \/ Finish
  PROVE  StepKeeps
<1>1. call.op \in {"read_all", "read_file"}
  BY DEF LoadCluster, LoadFails, LoadFailsUnseen, NextFlat, NextChained,
     Finish, Reading
<1>2. call # NoCall
  BY <1>1 DEF NoCall
<1>3. call.before \in Counts /\ DOMAIN call = ReadFields /\ Holds(1, Sized)
      /\ heap \in Counts /\ NoData
  BY <1>1, <1>2, CallIs DEF HeapInv
<1>4. ~Complete => call.file.length # 0
  BY <1>3 DEF NoData, Complete
<1>5. CASE LoadCluster
  <2>1. call'.op = call.op /\ call'.before = call.before
          /\ DOMAIN call' = DOMAIN call
        /\ call'.file = call.file
    BY <1>3, <1>5 DEF LoadCluster, ReadFields
  <2>2. NoData'
    BY <1>4, <1>5, <2>1 DEF NoData, LoadCluster
  <2> QED BY <1>1, <1>5, <2>1, <2>2, ReadGoesOn DEF LoadCluster
<1>6. CASE LoadFails
  BY <1>1, <1>6, ReadGivesUp DEF LoadFails
<1>7. CASE LoadFailsUnseen
  <2>1. PICK failed :
          call' = [call EXCEPT !.pc = "next", !.buffer = Loaded(call.cluster, failed),
                                 !.data = Copy(Loaded(call.cluster, failed))]
    BY <1>7 DEF LoadFailsUnseen
  <2>2. call'.op = call.op /\ call'.before = call.before
          /\ DOMAIN call' = DOMAIN call
        /\ call'.file = call.file
    BY <1>3, <2>1 DEF ReadFields
  <2>3. NoData'
    BY <1>4, <1>7, <2>2 DEF NoData, LoadFailsUnseen
  <2> QED BY <1>1, <1>7, <2>2, <2>3, ReadGoesOn DEF LoadFailsUnseen
<1>8. CASE NextFlat
  <2>1. call'.op = call.op /\ call'.before = call.before
          /\ DOMAIN call' = DOMAIN call
        /\ call'.file = call.file
    BY <1>3, <1>8 DEF NextFlat, ReadFields
  <2>2. NoData'
    BY <1>4, <1>8, <2>1 DEF NoData, NextFlat
  <2> QED BY <1>1, <1>8, <2>1, <2>2, ReadGoesOn DEF NextFlat
<1>9. CASE NextChained
  <2>1. PICK next : IF ChainEnds(next)
                      THEN GiveUp
                      ELSE
                        /\ call' = [call EXCEPT !.pc = "load", !.cluster = next]
                           /\ UNCHANGED <<heap, reply>>
    BY <1>9 DEF NextChained
  <2>2. CASE GiveUp
    BY <1>1, <1>9, <2>2, ReadGivesUp DEF NextChained
  <2>3. CASE /\ call' = [call EXCEPT !.pc = "load", !.cluster = next]
             /\ UNCHANGED <<heap, reply>>
    <3>1. call'.op = call.op /\ call'.before = call.before
            /\ DOMAIN call' = DOMAIN call
          /\ call'.file = call.file
      BY <1>3, <2>3 DEF ReadFields
    <3>2. NoData'
      BY <1>4, <1>9, <3>1 DEF NoData, NextChained
    <3> QED BY <1>1, <2>3, <3>1, <3>2, ReadGoesOn
  <2> QED BY <2>1, <2>2, <2>3
<1>10. CASE Finish
  <2>1. heap' = [heap EXCEPT !.buffer = @ - 1] /\ call' = NoCall
        /\ reply'.ok = (call.file.length # 0)
    BY <1>10 DEF Finish, Return
  <2>2. heap' \in Counts /\ heap'.buffer = heap.buffer - 1
          /\ heap'.file = heap.file
        /\ heap'.data = heap.data
    BY <1>3, <2>1 DEF Counts
  <2>3. heap'.buffer = call.before.buffer /\ heap'.file = call.before.file + 0
        /\ heap'.data = call.before.data + Sized
    BY <1>3, <2>2 DEF Holds, Counts, Sized
  <2>4. Sized = IF reply'.ok THEN 1 ELSE 0
    BY <2>1 DEF Sized
  <2>5. call.op # "open"
    BY <1>1
  <2>6. Balanced
    BY <1>3, <2>1, <2>2, <2>3, <2>4, <2>5, ReturnBalanced
  <2> QED BY <2>1, <2>2, <2>6 DEF StepKeeps
<1> QED BY <1>5, <1>6, <1>7, <1>8, <1>9, <1>10

\* A step of a call keeps the invariant.
LEMMA FsStepKeeps ==
  ASSUME HeapInv, FsStep, UNCHANGED mainVars
  PROVE  HeapInv' /\ (call' = NoCall => Balanced)
<1>1. StepKeeps
  BY OpenKeeps, ReadKeeps DEF FsStep
<1>2. call # NoCall
  <2>1. call.op \in {"open", "read_all", "read_file"}
    BY DEF FsStep, ReadDirectory, ReadDirectoryFails, ScanDirectory,
           NextDirectoryCluster, LoadCluster, LoadFails, LoadFailsUnseen, NextFlat,
           NextChained, Finish, Opening, Reading
  <2> QED BY <2>1 DEF NoCall
<1>3. call.before \in Counts /\ Clear(call.before)
      /\ ((pc = "opened" /\ call.op = "open") \/ (pc = "read"
      /\ call.op # "open"))
  BY <1>2, CallIs DEF HeapInv, LoopHolds
<1>4. pc' = pc /\ caller' = caller
  BY DEF mainVars
<1>5. CASE call' # NoCall
  <2>1. CallHolds' /\ call'.before = call.before /\ call'.op = call.op
    BY <1>1, <1>5 DEF StepKeeps
  <2>2. LoopHolds'
    BY <1>3, <1>4, <1>5, <2>1 DEF LoopHolds, Clear
  <2> QED BY <1>1, <1>4, <1>5, <2>1, <2>2 DEF HeapInv, StepKeeps
<1>6. CASE call' = NoCall
  <2>1. Balanced
    BY <1>1, <1>6 DEF StepKeeps
  <2>2. CallHolds'
    BY <1>6 DEF CallHolds
  <2>3. heap'.buffer = call.before.buffer
        /\ heap'.data = IF call.op # "open"
        /\ reply'.ok THEN call.before.data + 1
                                                          ELSE call.before.data
    BY <1>3, <2>1 DEF Balanced, Counts
  <2>4. LoopHolds'
    BY <1>3, <1>4, <1>6, <2>3 DEF LoopHolds, Clear
  <2> QED BY <1>1, <1>4, <2>1, <2>2, <2>4 DEF HeapInv, StepKeeps
<1> QED BY <1>5, <1>6

\* So does a step of kernel_main.
LEMMA MainStepKeeps ==
  ASSUME HeapInv,
         \/ GetPartitions \/ NoPartitions \/ SkipPartition \/ Mount \/ OpenHello
         \/ HelloAbsent \/ ReadHello \/ ShowHello \/ PrintFaults \/ PartitionsDone
         \/ Halt
  PROVE  HeapInv' /\ call = NoCall
<1>1. call = NoCall
  BY DEF GetPartitions, NoPartitions, SkipPartition, Mount, OpenHello,
     HelloAbsent,
         ReadHello, ShowHello, PrintFaults, PartitionsDone, Halt, At
<1>2. heap \in Counts /\ caller \in Callers /\ reply.ok \in BOOLEAN
  BY DEF HeapInv
<1>3. IF pc \in {"read", "fault"} THEN heap.buffer = 0
        /\ heap.data = (IF reply.ok THEN 1 ELSE 0)
                     ELSE Clear(heap)
  BY <1>1 DEF HeapInv, LoopHolds
<1>4. CASE GetPartitions \/ NoPartitions \/ SkipPartition \/ Mount
        \/ HelloAbsent
           \/ PartitionsDone \/ Halt
  <2>1. UNCHANGED <<call, reply, heap, caller>>
    BY <1>4 DEF GetPartitions, NoPartitions, SkipPartition, Mount, HelloAbsent,
         PartitionsDone, Halt, fsVars
  <2>2. pc \notin {"read", "fault"} /\ pc' \notin {"read", "fault"}
    BY <1>4 DEF GetPartitions, NoPartitions, SkipPartition, Mount, HelloAbsent,
         PartitionsDone, Halt, At, NextDisk, NextPartition
  <2> QED BY <1>1, <1>2, <1>3, <2>1, <2>2 DEF HeapInv, CallHolds, LoopHolds,
             Clear
<1>5. CASE OpenHello
  <2>1. PICK wanted : Open(wanted)
    BY <1>5 DEF OpenHello
  <2>2. /\ call'.op = "open" /\ call'.before = heap /\ DOMAIN call' = OpenFields
        /\ reply' = Null /\ heap' = [heap EXCEPT !.buffer = @ + 1]
    BY <2>1 DEF Open, OpenFields
  <2>3. call' # NoCall
    BY <2>2 DEF NoCall
  <2>4. heap' \in Counts /\ heap'.buffer = heap.buffer + 1
          /\ heap'.file = heap.file
        /\ heap'.data = heap.data + 0
    BY <1>2, <2>2 DEF Counts
  <2>5. CallHolds'
    BY <1>2, <2>2, <2>4 DEF CallHolds, Holds
  <2>6. pc = "open" /\ pc' = "opened" /\ caller' = caller
    BY <1>5 DEF OpenHello, At
  <2>7. LoopHolds'
    BY <1>3, <2>2, <2>3, <2>6 DEF LoopHolds, Clear
  <2> QED BY <1>1, <1>2, <2>2, <2>4, <2>5, <2>6, <2>7 DEF HeapInv, Null
<1>6. CASE ReadHello
  <2>1. PICK op \in caller.reads : Read(op, reply.file)
    BY <1>6 DEF ReadHello
  <2>2. op \in {"read_all", "read_file"}
    BY <1>2, <2>1, CallersAssumption
  <2>3. /\ call'.op = op /\ call'.before = heap /\ DOMAIN call' = ReadFields
        /\ call'.file = reply.file /\ call'.data = <<>> /\ reply' = Null
    BY <2>1 DEF Read, ReadFields
  <2> DEFINE x == heap.buffer + 1
             y == IF reply.file.length = 0 THEN heap.data ELSE heap.data + 1
  <2>4. x \in Int /\ y \in Int /\ heap' = [heap EXCEPT !.buffer = x, !.data = y]
        /\ y = heap.data + Sized'
    BY <1>2, <2>1, <2>3 DEF Read, Counts, Sized
  <2> HIDE DEF y
  <2>5. heap' \in Counts /\ heap'.buffer = heap.buffer + 1
          /\ heap'.file = heap.file
        /\ heap'.data = heap.data + Sized'
    BY <1>2, <2>4 DEF Counts
  <2>6. call' # NoCall
    BY <2>2, <2>3 DEF NoCall
  <2>7. CallHolds'
    BY <1>2, <2>2, <2>3, <2>5 DEF CallHolds, Holds, NoData
  <2>8. pc = "opened" /\ pc' = "read" /\ caller' = caller
    BY <1>6 DEF ReadHello, At
  <2>9. LoopHolds'
    BY <1>3, <2>2, <2>3, <2>6, <2>8 DEF LoopHolds, Clear
  <2> QED BY <1>1, <1>2, <2>3, <2>5, <2>7, <2>8, <2>9 DEF HeapInv, Null
<1>7. CASE ShowHello
  <2>1. pc = "read" /\ pc' = "partition" /\ UNCHANGED <<call, reply, caller>>
    BY <1>7 DEF ShowHello, At, NextPartition
  <2>2. heap' = [heap EXCEPT !.data = IF reply.ok THEN @ - 1 ELSE @]
    BY <1>7 DEF ShowHello
  <2>3. heap' \in Counts /\ Clear(heap')
    BY <1>2, <1>3, <2>1, <2>2 DEF Counts, Clear
  <2> QED BY <1>1, <1>2, <2>1, <2>3 DEF HeapInv, CallHolds, LoopHolds, Clear
<1>8. CASE PrintFaults
  <2>1. pc = "read" /\ pc' = "fault" /\ UNCHANGED <<call, reply, heap, caller>>
    BY <1>8 DEF PrintFaults, At, fsVars
  <2> QED BY <1>1, <1>2, <1>3, <2>1 DEF HeapInv, CallHolds, LoopHolds
<1> QED BY <1>1, <1>4, <1>5, <1>6, <1>7, <1>8

LEMMA InitKeeps == Init => HeapInv
<1> SUFFICES ASSUME Init PROVE HeapInv
  OBVIOUS
<1>1. heap \in Counts /\ heap.buffer = 0 /\ heap.data = 0
  BY DEF Init, Counts
<1> QED BY <1>1 DEF Init, HeapInv, CallHolds, LoopHolds, Clear, Null

LEMMA HeapStep ==
  HeapInv /\ [Next]_vars =>
    HeapInv' /\ (call # NoCall /\ call' = NoCall => Balanced)
<1> SUFFICES ASSUME HeapInv, [Next]_vars
             PROVE  HeapInv' /\ (call # NoCall /\ call' = NoCall => Balanced)
  OBVIOUS
<1>1. CASE FsStep /\ UNCHANGED mainVars
  BY <1>1, FsStepKeeps
<1>2. CASE UNCHANGED vars
  <2>1. UNCHANGED <<call, reply, heap, caller, pc>>
    BY <1>2 DEF vars, fsVars, mainVars
  <2> QED BY <2>1 DEF HeapInv, CallHolds, Holds, NoData, Sized, LoopHolds, Clear
<1>3. CASE \/ GetPartitions \/ NoPartitions \/ SkipPartition \/ Mount
        \/ OpenHello
           \/ HelloAbsent \/ ReadHello \/ ShowHello \/ PrintFaults \/ PartitionsDone
           \/ Halt
  BY <1>3, MainStepKeeps
<1> QED BY <1>1, <1>2, <1>3 DEF Next

-----------------------------------------------------------------------------
(* What is freed                                                           *)

\* The inductive invariant of kernel_main's use of the heap.
THEOREM HeapInvariance == Spec => []HeapInv
BY InitKeeps, HeapStep, PTL DEF Spec

\* Every return of EXFAT_open_file, EXFAT_read_file and EXFAT_read_file_ALL leaves
\* the heap as the call found it, but for the file or the data it hands over.
THEOREM CallsBalanced == Spec => FsCallsBalanced
<1>1. HeapInv /\ [Next]_vars =>
        [call # NoCall /\ call' = NoCall =>
           heap' = [call.before EXCEPT
                      !.file = IF call.op = "open"
                        /\ reply'.ok THEN @ + 1 ELSE @,
                      !.data = IF call.op # "open"
                        /\ reply'.ok THEN @ + 1 ELSE @]]_vars
  BY HeapStep DEF Balanced
<1> QED BY <1>1, HeapInvariance, PTL DEF Spec, FsCallsBalanced

\* Whenever kernel_main turns to a disk, to a partition or halts, no cluster buffer
\* and no data is allocated any more: the loop over the partitions does not use up
\* the heap, except for the entry of each file it opened, which it never frees.
LoopKeepsNothing ==
  pc \in {"disk", "partition", "halted"} => heap.buffer = 0 /\ heap.data = 0

\* kernel_main's loop keeps neither buffers nor data, on every path.
THEOREM LoopFrees == Spec => []LoopKeepsNothing
<1>1. HeapInv => LoopKeepsNothing
  BY DEF HeapInv, LoopHolds, Clear, LoopKeepsNothing
<1> QED BY <1>1, HeapInvariance, PTL

-----------------------------------------------------------------------------
(* The inductive invariant of what is found and read                       *)

\* The entry of the partition in use, and the fields EXFAT_init should take.
Part == parts[p]
Geometry(sectors, e) ==
  [start |-> e.start, fat |-> BootOf(sectors, e).fat, heap |-> BootOf(sectors, e).heap,
   root |-> BootOf(sectors, e).root]

\* Where kernel_main is, and what it has of the machine there.
LoopInv ==
  /\ machine \in Machines /\ caller \in Callers
  /\ d \in 1 .. Len(machine) + 1 /\ p \in Nat \ {0}
  /\ pc \in {"disk", "partition", "open", "opened", "read", "halted", "fault"}
  /\ d <= Len(machine) => disk = machine[d].sectors /\ flaky = machine[d].flaky
  /\ pc = "halted" => d = Len(machine) + 1
  /\ pc \notin {"disk", "halted"} =>
       /\ d <= Len(machine) /\ Signed(machine[d])
       /\ parts = ListedOf(TableOf(machine[d]))[Len(TableOf(machine[d]))]
       /\ p <= Len(parts) + 1
  /\ Mounted => p <= Len(parts) /\ Part.type = "exfat"
  /\ pc \in {"opened", "read"} => path \in caller.paths /\ path # <<>>
  /\ call # NoCall => \/ pc = "opened" /\ call.op = "open"
                      \/ pc = "read" /\ call.op \in caller.reads

\* A volume to find files on, of which EXFAT_init has read the boot sector, and on
\* which no read of the FAT has failed.
Good    == Mounted /\ Vol.searchable
Trusted == Good /\ fault \cap {"init", "fat"} = {}

MountInv == Trusted => fs = Geometry(disk, Part)

\* The path up to its n-th component.
Prefix(n) == SubSeq(path, 1, n)

\* No end marker and no entry of the path q is in the clusters of dir before the m-th.
Passed(dir, q, m) ==
  \A j \in 1 .. m - 1, h \in 1 .. ClusterCells :
    /\ DirCell(disk, Part, dir, j, h).t # "end"
    /\ q \in DOMAIN Vol.entries =>
         ~EntrySetAt(disk, Part, dir, j, h, NameOf(q), Vol.entries[q])

\* The search is at the k-th cluster of the directory at the first n components.
Searching(n, k) ==
  /\ call.path = SubSeq(path, n + 1, Len(path))
  /\ Prefix(n) \in DOMAIN Vol.entries /\ Vol.entries[Prefix(n)].directory
  /\ k \in 1 .. Len(Vol.entries[Prefix(n)].clusters)
  /\ call.cluster = Vol.entries[Prefix(n)].clusters[k]
  /\ Passed(Prefix(n), Prefix(n + 1), IF call.pc = "next" THEN k + 1 ELSE k)
  /\ call.pc = "scan" =>
       call.buffer = [i \in 1 .. ClusterCells |-> DirCell(disk, Part, Prefix(n), k, i)]

OpenInv ==
  Trusted /\ call.op = "open" =>
    /\ call.pc \in {"read", "scan", "next"}
    /\ \E n \in 0 .. Len(path) - 1 :
         \E k \in 1 .. Len(Vol.entries[Prefix(n)].clusters) : Searching(n, k)

Wanted == Vol.entries[path]

Describes(file, f) ==
  file.first = f.first /\ file.length = f.length /\ file.flat = f.flat

\* The read is at the k-th cluster of the file, or past it.
ReadingAt(k) ==
  /\ call.cluster = Wanted.clusters[k]
  /\ Chain # "cyclic" =>
       Len(call.data) = (IF call.pc = "load" THEN k - 1 ELSE k) * ClusterCells

ReadInv ==
  Trusted /\ pc = "read" /\ call # NoCall =>
    /\ path \in DOMAIN Vol.entries /\ Describes(call.file, Wanted)
    /\ call.pc \in {"load", "next"}
    /\ IsSequence(call.data) /\ Len(call.data) <= Wanted.length
    /\ Chain = "whole" /\ (fault = {} \/ call.op = "read_all") =>
         \A j \in 1 .. Len(call.data) : call.data[j] = Wanted.data[j]
    /\ call.op = "read_all" /\ Chain = "short" => ~Complete
    /\ ~Complete /\ (call.op = "read_all" \/ Chain # "short") =>
         \E k \in 1 .. Len(Wanted.clusters) : ReadingAt(k)

OpenedInv ==
  /\ At("opened") /\ Trusted /\ reply.ok =>
       path \in DOMAIN Vol.entries /\ Describes(reply.file, Wanted)
  /\ At("opened") /\ Trusted /\ ~reply.ok /\ fault = {} => path \notin DOMAIN Vol.entries

\* What is printed of the file is all of it.
ReadDone ==
  At("read") /\ Trusted =>
    /\ path \in DOMAIN Vol.entries
    /\ Chain = "whole" /\ fault = {} => reply.sized /\ reply.data = Wanted.data

\* Machines on which nothing can go wrong.
Clean ==
  /\ caller = KernelCaller
  /\ \A i \in DOMAIN machine : ~machine[i].flaky
  /\ \A vol \in VolumesOf(machine) : Sound(vol)

ConsoleInv ==
  Clean =>
    /\ Mounted => fault = {}
    /\ pc # "fault"
    /\ console = IF pc \in {"disk", "halted"} THEN AfterDisks(machine)[d - 1]
                 ELSE AfterPartitions(parts, AfterDisks(machine)[d - 1])[p - 1]

VolumeInv ==
  /\ HeapInv /\ LoopInv /\ MountInv /\ OpenInv /\ ReadInv /\ OpenedInv /\ ReadDone
  /\ ReadExact /\ ReadsInVolume /\ ConsoleInv

-----------------------------------------------------------------------------
(* Loops as recursive functions                                            *)

\* The loop over the entries of the table, one by one.
LEMMA ListedIs ==
  ASSUME NEW table, Len(table) \in Nat
  PROVE  \A n \in 0 .. Len(table) : ListedOf(table)[n] =
           IF n = 0 THEN <<>>
           ELSE IF Listed(table[n]) THEN Append(ListedOf(table)[n - 1], table[n])
           ELSE ListedOf(table)[n - 1]
<1> DEFINE N == Len(table)
           Step(x, n) == IF Listed(table[n]) THEN Append(x, table[n])
           ELSE x
           Body(f, m) == [n \in 0 .. m |-> IF n = 0 THEN <<>> ELSE Step(f[n - 1], n)]
           T == {m \in 0 .. N : ~ \E f : f = Body(f, m)}
<1>0. \A f : Body(f, N) =
        [n \in 0 .. Len(table) |->
           IF n = 0 THEN <<>>
           ELSE IF Listed(table[n]) THEN Append(f[n - 1], table[n])
           ELSE f[n - 1]]
  OBVIOUS
<1>5. N \in Nat
  OBVIOUS
<1> HIDE DEF Step, N
<1>1. ASSUME T # {} PROVE FALSE
  <2>1. PICK m \in T : \A y \in T : m <= y
    <3>1. T \subseteq Nat
      OBVIOUS
    <3> HIDE DEF T
    <3> QED BY <1>1, <3>1, LeastNat
  <2>2. m \in 0 .. N /\ ~ \E f : f = Body(f, m)
    OBVIOUS
  <2>3. CASE m = 0
    <3> DEFINE f == [n \in 0 .. 0 |-> <<>>]
    <3>1. f = Body(f, 0)
      OBVIOUS
    <3> QED BY <2>2, <2>3, <3>1
  <2>4. CASE m # 0
    <3>1. m - 1 \in 0 .. N /\ m - 1 \notin T
      <4>1. m \in Nat /\ m <= N /\ m - 1 \in 0 .. N /\ ~(m <= m - 1)
        BY <1>5, <2>2, <2>4
      <4> HIDE DEF T
      <4> QED BY <2>1, <4>1
    <3>2. PICK f : f = Body(f, m - 1)
      BY <3>1
    <3> DEFINE g == [n \in 0 .. m |-> IF n = m THEN Step(f[m - 1], m) ELSE f[n]]
    <3>3. ASSUME NEW n \in 0 .. m
          PROVE  g[n] = IF n = 0 THEN <<>> ELSE Step(g[n - 1], n)
      <4>1. CASE n = m
        BY <2>2, <2>4, <4>1
      <4>2. CASE n # m
        <5>1. n \in 0 .. m - 1 /\ g[n] = f[n] /\ (n # 0 => g[n - 1] = f[n - 1])
          BY <2>2, <4>2
        <5>2. f[n] = IF n = 0 THEN <<>> ELSE Step(f[n - 1], n)
          BY <3>2, <5>1
        <5> HIDE DEF g
        <5> QED BY <5>1, <5>2
      <4> QED BY <4>1, <4>2
    <3>4. g = Body(g, m)
      BY <3>3
    <3> QED BY <2>2, <3>4
  <2> QED BY <2>3, <2>4
<1>2. Len(table) \in 0 .. N /\ Len(table) \notin T
  BY <1>1 DEF N
<1>3. \E f : f = Body(f, N)
  BY <1>2 DEF N
<1> HIDE DEF T, Body
<1>4. \E f : f = [n \in 0 .. Len(table) |->
           IF n = 0 THEN <<>>
           ELSE IF Listed(table[n]) THEN Append(f[n - 1], table[n])
           ELSE f[n - 1]]
  BY <1>0, <1>3
<1> DEFINE r == ListedOf(table)
<1>6. r = [n \in 0 .. Len(table) |->
           IF n = 0 THEN <<>>
           ELSE IF Listed(table[n]) THEN Append(r[n - 1], table[n])
           ELSE r[n - 1]]
  BY <1>4 DEF ListedOf
<1> HIDE DEF r
<1>7. \A n \in 0 .. Len(table) : r[n] =
           IF n = 0 THEN <<>>
           ELSE IF Listed(table[n]) THEN Append(r[n - 1], table[n])
           ELSE r[n - 1]
  BY <1>6
<1> QED BY <1>7 DEF r

\* The secondary entries of a file entry, one by one.
LEMMA FilesAre ==
  ASSUME NEW i, NEW past, call.buffer[i].count \in Nat
  PROVE  \A n \in 0 .. call.buffer[i].count : FilesAt(i, past)[n] =
           IF n = 0 THEN [first |-> 0, length |-> 0, flat |-> FALSE, name_length |-> 0,
                name |-> <<>>, directory |-> call.buffer[i].directory]
           ELSE Secondary(FilesAt(i, past)[n - 1], CellAt(i + n, past))
<1> DEFINE N == call.buffer[i].count
           Step(x, n) == Secondary(x, CellAt(i + n, past))
           Body(f, m) == [n \in 0 .. m |-> IF n = 0 THEN [first |-> 0, length |-> 0, flat |-> FALSE, name_length |-> 0,
                name |-> <<>>, directory |-> call.buffer[i].directory] ELSE Step(f[n - 1], n)]
           T == {m \in 0 .. N : ~ \E f : f = Body(f, m)}
<1>0. \A f : Body(f, N) =
        [n \in 0 .. call.buffer[i].count |->
           IF n = 0 THEN [first |-> 0, length |-> 0, flat |-> FALSE, name_length |-> 0,
                name |-> <<>>, directory |-> call.buffer[i].directory]
           ELSE Secondary(f[n - 1], CellAt(i + n, past))]
  OBVIOUS
<1>5. N \in Nat
  OBVIOUS
<1> HIDE DEF Step, N
<1>1. ASSUME T # {} PROVE FALSE
  <2>1. PICK m \in T : \A y \in T : m <= y
    <3>1. T \subseteq Nat
      OBVIOUS
    <3> HIDE DEF T
    <3> QED BY <1>1, <3>1, LeastNat
  <2>2. m \in 0 .. N /\ ~ \E f : f = Body(f, m)
    OBVIOUS
  <2>3. CASE m = 0
    <3> DEFINE f == [n \in 0 .. 0 |-> [first |-> 0, length |-> 0, flat |-> FALSE, name_length |-> 0,
                name |-> <<>>, directory |-> call.buffer[i].directory]]
    <3>1. f = Body(f, 0)
      OBVIOUS
    <3> QED BY <2>2, <2>3, <3>1
  <2>4. CASE m # 0
    <3>1. m - 1 \in 0 .. N /\ m - 1 \notin T
      <4>1. m \in Nat /\ m <= N /\ m - 1 \in 0 .. N /\ ~(m <= m - 1)
        BY <1>5, <2>2, <2>4
      <4> HIDE DEF T
      <4> QED BY <2>1, <4>1
    <3>2. PICK f : f = Body(f, m - 1)
      BY <3>1
    <3> DEFINE g == [n \in 0 .. m |-> IF n = m THEN Step(f[m - 1], m) ELSE f[n]]
    <3>3. ASSUME NEW n \in 0 .. m
          PROVE  g[n] = IF n = 0 THEN [first |-> 0, length |-> 0, flat |-> FALSE, name_length |-> 0,
                name |-> <<>>, directory |-> call.buffer[i].directory] ELSE Step(g[n - 1], n)
      <4>1. CASE n = m
        BY <2>2, <2>4, <4>1
      <4>2. CASE n # m
        <5>1. n \in 0 .. m - 1 /\ g[n] = f[n] /\ (n # 0 => g[n - 1] = f[n - 1])
          BY <2>2, <4>2
        <5>2. f[n] = IF n = 0 THEN [first |-> 0, length |-> 0, flat |-> FALSE, name_length |-> 0,
                name |-> <<>>, directory |-> call.buffer[i].directory] ELSE Step(f[n - 1], n)
          BY <3>2, <5>1
        <5> HIDE DEF g
        <5> QED BY <5>1, <5>2
      <4> QED BY <4>1, <4>2
    <3>4. g = Body(g, m)
      BY <3>3
    <3> QED BY <2>2, <3>4
  <2> QED BY <2>3, <2>4
<1>2. call.buffer[i].count \in 0 .. N /\ call.buffer[i].count \notin T
  BY <1>1 DEF N
<1>3. \E f : f = Body(f, N)
  BY <1>2 DEF N
<1> HIDE DEF T, Body
<1>4. \E f : f = [n \in 0 .. call.buffer[i].count |->
           IF n = 0 THEN [first |-> 0, length |-> 0, flat |-> FALSE, name_length |-> 0,
                name |-> <<>>, directory |-> call.buffer[i].directory]
           ELSE Secondary(f[n - 1], CellAt(i + n, past))]
  BY <1>0, <1>3
<1> DEFINE r == FilesAt(i, past)
<1>6. r = [n \in 0 .. call.buffer[i].count |->
           IF n = 0 THEN [first |-> 0, length |-> 0, flat |-> FALSE, name_length |-> 0,
                name |-> <<>>, directory |-> call.buffer[i].directory]
           ELSE Secondary(r[n - 1], CellAt(i + n, past))]
  BY <1>4 DEF FilesAt
<1> HIDE DEF r
<1>7. \A n \in 0 .. call.buffer[i].count : r[n] =
           IF n = 0 THEN [first |-> 0, length |-> 0, flat |-> FALSE, name_length |-> 0,
                name |-> <<>>, directory |-> call.buffer[i].directory]
           ELSE Secondary(r[n - 1], CellAt(i + n, past))
  BY <1>6
<1> QED BY <1>7 DEF r

\* What is printed of one partition after the other.
LEMMA PartitionsAre ==
  ASSUME NEW table, NEW before, Len(table) \in Nat
  PROVE  \A n \in 0 .. Len(table) : AfterPartitions(table, before)[n] =
           IF n = 0 THEN before
           ELSE IF table[n].type = "exfat" /\ Hello \in DOMAIN table[n].vol.entries
             THEN AfterPartitions(table, before)[n - 1] \o table[n].vol.entries[Hello].data
           ELSE AfterPartitions(table, before)[n - 1]
<1> DEFINE N == Len(table)
           Step(x, n) == IF table[n].type = "exfat" /\ Hello \in DOMAIN table[n].vol.entries
             THEN x \o table[n].vol.entries[Hello].data
           ELSE x
           Body(f, m) == [n \in 0 .. m |-> IF n = 0 THEN before ELSE Step(f[n - 1], n)]
           T == {m \in 0 .. N : ~ \E f : f = Body(f, m)}
<1>0. \A f : Body(f, N) =
        [n \in 0 .. Len(table) |->
           IF n = 0 THEN before
           ELSE IF table[n].type = "exfat" /\ Hello \in DOMAIN table[n].vol.entries
             THEN f[n - 1] \o table[n].vol.entries[Hello].data
           ELSE f[n - 1]]
  OBVIOUS
<1>5. N \in Nat
  OBVIOUS
<1> HIDE DEF Step, N
<1>1. ASSUME T # {} PROVE FALSE
  <2>1. PICK m \in T : \A y \in T : m <= y
    <3>1. T \subseteq Nat
      OBVIOUS
    <3> HIDE DEF T
    <3> QED BY <1>1, <3>1, LeastNat
  <2>2. m \in 0 .. N /\ ~ \E f : f = Body(f, m)
    OBVIOUS
  <2>3. CASE m = 0
    <3> DEFINE f == [n \in 0 .. 0 |-> before]
    <3>1. f = Body(f, 0)
      OBVIOUS
    <3> QED BY <2>2, <2>3, <3>1
  <2>4. CASE m # 0
    <3>1. m - 1 \in 0 .. N /\ m - 1 \notin T
      <4>1. m \in Nat /\ m <= N /\ m - 1 \in 0 .. N /\ ~(m <= m - 1)
        BY <1>5, <2>2, <2>4
      <4> HIDE DEF T
      <4> QED BY <2>1, <4>1
    <3>2. PICK f : f = Body(f, m - 1)
      BY <3>1
    <3> DEFINE g == [n \in 0 .. m |-> IF n = m THEN Step(f[m - 1], m) ELSE f[n]]
    <3>3. ASSUME NEW n \in 0 .. m
          PROVE  g[n] = IF n = 0 THEN before ELSE Step(g[n - 1], n)
      <4>1. CASE n = m
        BY <2>2, <2>4, <4>1
      <4>2. CASE n # m
        <5>1. n \in 0 .. m - 1 /\ g[n] = f[n] /\ (n # 0 => g[n - 1] = f[n - 1])
          BY <2>2, <4>2
        <5>2. f[n] = IF n = 0 THEN before ELSE Step(f[n - 1], n)
          BY <3>2, <5>1
        <5> HIDE DEF g
        <5> QED BY <5>1, <5>2
      <4> QED BY <4>1, <4>2
    <3>4. g = Body(g, m)
      BY <3>3
    <3> QED BY <2>2, <3>4
  <2> QED BY <2>3, <2>4
<1>2. Len(table) \in 0 .. N /\ Len(table) \notin T
  BY <1>1 DEF N
<1>3. \E f : f = Body(f, N)
  BY <1>2 DEF N
<1> HIDE DEF T, Body
<1>4. \E f : f = [n \in 0 .. Len(table) |->
           IF n = 0 THEN before
           ELSE IF table[n].type = "exfat" /\ Hello \in DOMAIN table[n].vol.entries
             THEN f[n - 1] \o table[n].vol.entries[Hello].data
           ELSE f[n - 1]]
  BY <1>0, <1>3
<1> DEFINE r == AfterPartitions(table, before)
<1>6. r = [n \in 0 .. Len(table) |->
           IF n = 0 THEN before
           ELSE IF table[n].type = "exfat" /\ Hello \in DOMAIN table[n].vol.entries
             THEN r[n - 1] \o table[n].vol.entries[Hello].data
           ELSE r[n - 1]]
  BY <1>4 DEF AfterPartitions
<1> HIDE DEF r
<1>7. \A n \in 0 .. Len(table) : r[n] =
           IF n = 0 THEN before
           ELSE IF table[n].type = "exfat" /\ Hello \in DOMAIN table[n].vol.entries
             THEN r[n - 1] \o table[n].vol.entries[Hello].data
           ELSE r[n - 1]
  BY <1>6
<1> QED BY <1>7 DEF r

\* What is printed of one disk after the other.
LEMMA DisksAre ==
  ASSUME NEW ma, Len(ma) \in Nat
  PROVE  \A n \in 0 .. Len(ma) : AfterDisks(ma)[n] =
           IF n = 0 THEN <<>>
           ELSE IF Signed(ma[n])
             THEN AfterPartitions(TableOf(ma[n]), AfterDisks(ma)[n - 1])[Len(TableOf(ma[n]))]
           ELSE AfterDisks(ma)[n - 1]
<1> DEFINE N == Len(ma)
           Step(x, n) == IF Signed(ma[n])
             THEN AfterPartitions(TableOf(ma[n]), x)[Len(TableOf(ma[n]))]
           ELSE x
           Body(f, m) == [n \in 0 .. m |-> IF n = 0 THEN <<>> ELSE Step(f[n - 1], n)]
           T == {m \in 0 .. N : ~ \E f : f = Body(f, m)}
<1>0. \A f : Body(f, N) =
        [n \in 0 .. Len(ma) |->
           IF n = 0 THEN <<>>
           ELSE IF Signed(ma[n])
             THEN AfterPartitions(TableOf(ma[n]), f[n - 1])[Len(TableOf(ma[n]))]
           ELSE f[n - 1]]
  OBVIOUS
<1>5. N \in Nat
  OBVIOUS
<1> HIDE DEF Step, N
<1>1. ASSUME T # {} PROVE FALSE
  <2>1. PICK m \in T : \A y \in T : m <= y
    <3>1. T \subseteq Nat
      OBVIOUS
    <3> HIDE DEF T
    <3> QED BY <1>1, <3>1, LeastNat
  <2>2. m \in 0 .. N /\ ~ \E f : f = Body(f, m)
    OBVIOUS
  <2>3. CASE m = 0
    <3> DEFINE f == [n \in 0 .. 0 |-> <<>>]
    <3>1. f = Body(f, 0)
      OBVIOUS
    <3> QED BY <2>2, <2>3, <3>1
  <2>4. CASE m # 0
    <3>1. m - 1 \in 0 .. N /\ m - 1 \notin T
      <4>1. m \in Nat /\ m <= N /\ m - 1 \in 0 .. N /\ ~(m <= m - 1)
        BY <1>5, <2>2, <2>4
      <4> HIDE DEF T
      <4> QED BY <2>1, <4>1
    <3>2. PICK f : f = Body(f, m - 1)
      BY <3>1
    <3> DEFINE g == [n \in 0 .. m |-> IF n = m THEN Step(f[m - 1], m) ELSE f[n]]
    <3>3. ASSUME NEW n \in 0 .. m
          PROVE  g[n] = IF n = 0 THEN <<>> ELSE Step(g[n - 1], n)
      <4>1. CASE n = m
        BY <2>2, <2>4, <4>1
      <4>2. CASE n # m
        <5>1. n \in 0 .. m - 1 /\ g[n] = f[n] /\ (n # 0 => g[n - 1] = f[n - 1])
          BY <2>2, <4>2
        <5>2. f[n] = IF n = 0 THEN <<>> ELSE Step(f[n - 1], n)
          BY <3>2, <5>1
        <5> HIDE DEF g
        <5> QED BY <5>1, <5>2
      <4> QED BY <4>1, <4>2
    <3>4. g = Body(g, m)
      BY <3>3
    <3> QED BY <2>2, <3>4
  <2> QED BY <2>3, <2>4
<1>2. Len(ma) \in 0 .. N /\ Len(ma) \notin T
  BY <1>1 DEF N
<1>3. \E f : f = Body(f, N)
  BY <1>2 DEF N
<1> HIDE DEF T, Body
<1>4. \E f : f = [n \in 0 .. Len(ma) |->
           IF n = 0 THEN <<>>
           ELSE IF Signed(ma[n])
             THEN AfterPartitions(TableOf(ma[n]), f[n - 1])[Len(TableOf(ma[n]))]
           ELSE f[n - 1]]
  BY <1>0, <1>3
<1> DEFINE r == AfterDisks(ma)
<1>6. r = [n \in 0 .. Len(ma) |->
           IF n = 0 THEN <<>>
           ELSE IF Signed(ma[n])
             THEN AfterPartitions(TableOf(ma[n]), r[n - 1])[Len(TableOf(ma[n]))]
           ELSE r[n - 1]]
  BY <1>4 DEF AfterDisks
<1> HIDE DEF r
<1>7. \A n \in 0 .. Len(ma) : r[n] =
           IF n = 0 THEN <<>>
           ELSE IF Signed(ma[n])
             THEN AfterPartitions(TableOf(ma[n]), r[n - 1])[Len(TableOf(ma[n]))]
           ELSE r[n - 1]
  BY <1>6
<1> QED BY <1>7 DEF r

-----------------------------------------------------------------------------
(* The partitions of a table                                               *)

\* What MBR_get_partitions lists are entries of the table.
LEMMA ListedFrom ==
  ASSUME NEW table, IsSequence(table)
  PROVE  \A n \in 0 .. Len(table) : ListedOf(table)[n] \in Seq(Range(table))
<1> DEFINE S == Range(table)
           l(n) == ListedOf(table)[n]
           T == {n \in 0 .. Len(table) : l(n) \notin Seq(S)}
<1>1. table \in Seq(S) /\ Len(table) \in Nat
  BY DEF IsSequence
<1>2. ASSUME NEW n \in 0 .. Len(table)
      PROVE  l(n) = IF n = 0 THEN <<>>
                    ELSE IF Listed(table[n]) THEN Append(l(n - 1), table[n])
                    ELSE l(n - 1)
  BY <1>1, ListedIs
<1> HIDE DEF l
<1>3. ASSUME T # {} PROVE FALSE
  <2>1. PICK m \in T : \A y \in T : m <= y
    <3>1. T \subseteq Nat
      OBVIOUS
    <3> HIDE DEF T
    <3> QED BY <1>3, <3>1, LeastNat
  <2>2. m # 0
    <3>1. l(0) = <<>>
      BY <1>1, <1>2
    <3>2. <<>> \in Seq(S)
      OBVIOUS
    <3>3. l(0) \in Seq(S)
      BY <3>1, <3>2
    <3> QED BY <2>1, <3>3
  <2>3. m - 1 \in 0 .. Len(table) /\ ~(m <= m - 1)
    BY <1>1, <2>1, <2>2
  <2>4. l(m - 1) \in Seq(S)
    BY <2>1, <2>3
  <2>5. table[m] \in S
    BY <1>1, <2>2
  <2>6. Append(l(m - 1), table[m]) \in Seq(S)
    <3> HIDE DEF S
    <3> QED BY <2>4, <2>5
  <2> QED BY <1>2, <2>1, <2>2, <2>4, <2>6
<1>4. T = {}
  BY <1>3
<1> QED BY <1>4 DEF l

\* What is printed depends on the partitions passed only.
LEMMA PrintedPrefix ==
  ASSUME NEW s, NEW t, NEW before, Len(s) \in Nat, Len(t) \in Nat,
         NEW n \in Nat, n <= Len(s), n <= Len(t), \A j \in 1 .. n : s[j] = t[j]
  PROVE  \A i \in 0 .. n : AfterPartitions(s, before)[i] = AfterPartitions(t, before)[i]
<1> DEFINE a(i) == AfterPartitions(s, before)[i]
           b(i) == AfterPartitions(t, before)[i]
           Then(x, e) == IF e.type = "exfat" /\ Hello \in DOMAIN e.vol.entries
                           THEN x \o e.vol.entries[Hello].data ELSE x
           T == {i \in 0 .. n : a(i) # b(i)}
<1>1. ASSUME NEW i \in 0 .. n
      PROVE  /\ a(i) = IF i = 0 THEN before ELSE Then(a(i - 1), s[i])
             /\ b(i) = IF i = 0 THEN before ELSE Then(b(i - 1), t[i])
  <2>1. i \in 0 .. Len(s) /\ i \in 0 .. Len(t)
    OBVIOUS
  <2> QED BY <2>1, PartitionsAre
<1> HIDE DEF a, b, Then
<1>2. ASSUME T # {} PROVE FALSE
  <2>1. PICK m \in T : \A y \in T : m <= y
    <3>1. T \subseteq Nat
      OBVIOUS
    <3> HIDE DEF T
    <3> QED BY <1>2, <3>1, LeastNat
  <2>2. m # 0
    BY <1>1
  <2>3. m - 1 \in 0 .. n /\ ~(m <= m - 1) /\ m \in 1 .. n
    BY <2>2
  <2>4. a(m - 1) = b(m - 1) /\ s[m] = t[m]
    BY <2>1, <2>3
  <2> QED BY <1>1, <2>1, <2>2, <2>4
<1>3. T = {}
  BY <1>2
<1> QED BY <1>3 DEF a, b

\* Entries of other types are not listed and have nothing printed.
LEMMA ListedPrints ==
  ASSUME NEW table, IsSequence(table), NEW before
  PROVE  \A n \in 0 .. Len(table) :
           AfterPartitions(ListedOf(table)[n], before)[Len(ListedOf(table)[n])]
             = AfterPartitions(table, before)[n]
<1> DEFINE S == Range(table)
           l(n) == ListedOf(table)[n]
           a(n) == AfterPartitions(l(n), before)[Len(l(n))]
           b(n) == AfterPartitions(table, before)[n]
           Then(x, e) == IF e.type = "exfat" /\ Hello \in DOMAIN e.vol.entries
                           THEN x \o e.vol.entries[Hello].data ELSE x
           T == {n \in 0 .. Len(table) : a(n) # b(n)}
<1>1. table \in Seq(S) /\ Len(table) \in Nat
  BY DEF IsSequence
<1>2. ASSUME NEW n \in 0 .. Len(table)
      PROVE  /\ l(n) \in Seq(S)
             /\ l(n) = IF n = 0 THEN <<>>
                       ELSE IF Listed(table[n]) THEN Append(l(n - 1), table[n])
                       ELSE l(n - 1)
  BY <1>1, ListedFrom, ListedIs
<1>3. ASSUME NEW n \in 0 .. Len(table)
      PROVE  b(n) = IF n = 0 THEN before ELSE Then(b(n - 1), table[n])
  BY <1>1, PartitionsAre
<1>4. a(0) = before
  <2>1. l(0) = <<>>
    BY <1>1, <1>2
  <2>2. AfterPartitions(<<>>, before)[0] = before
    BY PartitionsAre
  <2> QED BY <2>1, <2>2
<1>5. ASSUME NEW n \in 1 .. Len(table), Listed(table[n])
      PROVE  a(n) = Then(a(n - 1), table[n])
  <2> DEFINE s == l(n - 1)
             t == l(n)
  <2>1. n - 1 \in 0 .. Len(table) /\ n \in 0 .. Len(table) /\ n # 0 /\ table[n] \in S
    BY <1>1
  <2>2. s \in Seq(S) /\ t = Append(s, table[n])
    BY <1>2, <1>5, <2>1
  <2> HIDE DEF l, S
  <2>3. t \in Seq(S) /\ Len(t) = Len(s) + 1 /\ t[Len(t)] = table[n] /\ Len(s) \in Nat
        /\ \A j \in 1 .. Len(s) : t[j] = s[j]
    BY <2>1, <2>2
  <2> HIDE DEF s, t
  <2>4. AfterPartitions(t, before)[Len(s)] = AfterPartitions(s, before)[Len(s)]
    BY <2>3, PrintedPrefix
  <2>5. AfterPartitions(t, before)[Len(t)]
          = Then(AfterPartitions(t, before)[Len(t) - 1], t[Len(t)])
    <3>1. Len(t) \in Nat /\ Len(t) \in 0 .. Len(t) /\ Len(t) # 0
      BY <2>3
    <3> QED BY <3>1, PartitionsAre
  <2> QED BY <2>3, <2>4, <2>5 DEF s, t
<1>6. ASSUME NEW n \in 1 .. Len(table), ~Listed(table[n])
      PROVE  a(n) = a(n - 1) /\ b(n) = b(n - 1)
  <2>1. n \in 0 .. Len(table) /\ n # 0
    BY <1>1
  <2>2. l(n) = l(n - 1)
    BY <1>2, <1>6, <2>1
  <2>3. table[n].type # "exfat"
    BY <1>6 DEF Listed
  <2> QED BY <1>3, <2>1, <2>2, <2>3
<1> HIDE DEF a, b, l
<1>7. ASSUME T # {} PROVE FALSE
  <2>1. PICK m \in T : \A y \in T : m <= y
    <3>1. T \subseteq Nat
      OBVIOUS
    <3> HIDE DEF T
    <3> QED BY <1>7, <3>1, LeastNat
  <2>2. m # 0
    BY <1>1, <1>3, <1>4
  <2>3. m - 1 \in 0 .. Len(table) /\ ~(m <= m - 1) /\ m \in 1 .. Len(table)
    BY <1>1, <2>2
  <2>4. a(m - 1) = b(m - 1)
    BY <2>1, <2>3
  <2> HIDE DEF Then
  <2> QED BY <1>3, <1>5, <1>6, <2>1, <2>2, <2>3, <2>4
<1>8. T = {}
  BY <1>7
<1> QED BY <1>8 DEF a, b, l

\* Where kernel_main is among the disks.
LEMMA LoopIs ==
  ASSUME LoopInv
  PROVE  /\ Len(machine) \in Nat /\ DOMAIN machine = 1 .. Len(machine) /\ d \in Nat \ {0}
         /\ d <= Len(machine) + 1
         /\ d <= Len(machine) =>
              /\ d \in DOMAIN machine /\ disk = machine[d].sectors /\ flaky = machine[d].flaky
              /\ 0 \in DOMAIN disk
              /\ Signed(machine[d]) => IsSequence(TableOf(machine[d]))
         /\ pc \notin {"disk", "halted"} => parts \in Seq(Range(TableOf(machine[d])))
<1>1. machine \in Machines /\ IsSequence(machine)
  BY MachinesAssumption DEF LoopInv
<1>2. Len(machine) \in Nat /\ DOMAIN machine = 1 .. Len(machine)
  BY <1>1 DEF IsSequence
<1>3. d \in 1 .. Len(machine) + 1
  BY DEF LoopInv
<1>4. ASSUME d <= Len(machine)
      PROVE  /\ d \in DOMAIN machine /\ disk = machine[d].sectors
             /\ flaky = machine[d].flaky /\ 0 \in DOMAIN disk
             /\ Signed(machine[d]) => IsSequence(TableOf(machine[d]))
  <2>1. d \in DOMAIN machine
    BY <1>2, <1>3, <1>4
  <2>2. disk = machine[d].sectors /\ flaky = machine[d].flaky
    BY <1>4 DEF LoopInv
  <2> QED BY <1>1, <2>1, <2>2, MachinesAssumption
<1>5. pc \notin {"disk", "halted"} => parts \in Seq(Range(TableOf(machine[d])))
  <2> SUFFICES ASSUME pc \notin {"disk", "halted"}
               PROVE  parts \in Seq(Range(TableOf(machine[d])))
    OBVIOUS
  <2> DEFINE table == TableOf(machine[d])
  <2>1. IsSequence(table) /\ parts = ListedOf(table)[Len(table)]
    BY <1>4 DEF LoopInv
  <2>2. Len(table) \in 0 .. Len(table)
    BY <2>1 DEF IsSequence
  <2> HIDE DEF table
  <2>3. parts \in Seq(Range(table))
    BY <2>1, <2>2, ListedFrom
  <2> QED BY <2>3 DEF table
<1> QED BY <1>2, <1>3, <1>4, <1>5

\* The entry of a partition that kernel_main turns to.
LEMMA EntryIs ==
  ASSUME LoopInv, pc \notin {"disk", "halted"}, p <= Len(parts), Part.type = "exfat"
  PROVE  /\ Vol.searchable => IsVolume(disk, Part)
         /\ Vol \in VolumesOf(machine)
<1> DEFINE table == TableOf(machine[d])
<1>1. /\ machine \in Machines /\ p \in Nat \ {0} /\ d \in DOMAIN machine
      /\ Signed(machine[d]) /\ disk = machine[d].sectors
      /\ parts \in Seq(Range(table)) /\ IsSequence(table)
  BY LoopIs DEF LoopInv
<1>2. Part \in Range(table)
  <2> HIDE DEF table
  <2> QED BY <1>1 DEF Part
<1>3. PICK k \in DOMAIN table : Part = table[k]
  BY <1>2 DEF Range
<1>4. Vol.searchable => IsVolume(machine[d].sectors, table[k])
  BY <1>1, <1>3, MachinesAssumption DEF Vol, Part
<1>5. Vol \in {TableOf(machine[d])[j].vol :
                 j \in {j \in DOMAIN TableOf(machine[d]) :
                          TableOf(machine[d])[j].type = "exfat"}}
  BY <1>3 DEF Vol, Part
<1>6. d \in {i \in DOMAIN machine : Signed(machine[i])}
  BY <1>1
<1>7. Vol \in VolumesOf(machine)
  <2> HIDE DEF table
  <2> QED BY <1>5, <1>6 DEF VolumesOf
<1> QED BY <1>1, <1>3, <1>4, <1>7

\* While a partition is in use, its entry is one of the table of the disk in use.
LEMMA PartIs ==
  ASSUME LoopInv, Good
  PROVE  IsVolume(disk, Part)
<1>1. pc \notin {"disk", "halted"} /\ p <= Len(parts) /\ Part.type = "exfat"
  BY DEF LoopInv, Good, Mounted
<1> QED BY <1>1, EntryIs DEF Good

-----------------------------------------------------------------------------
(* Clusters of a volume as the driver sees them                            *)

\* Multiplication is monotonic.
LEMMA MulMono ==
  ASSUME NEW a \in Nat, NEW b \in Nat, NEW c \in Nat, a <= b
  PROVE  a * c <= b * c
  OBVIOUS

\* Positions below a * b are in the first a groups of b.
LEMMA DivBelow ==
  ASSUME NEW a \in Nat, NEW b \in Nat \ {0}, NEW n \in Nat, n < a * b
  PROVE  n \div b \in 0 .. a - 1
<1> DEFINE q == n \div b
<1>1. q \in Nat /\ q * b <= n
  BY DivBracket
<1> HIDE DEF q
<1>2. ASSUME a <= q PROVE FALSE
  <2>1. a * b <= q * b /\ a * b \in Nat /\ q * b \in Nat
    BY <1>1, <1>2, MulMono
  <2> DEFINE x == a * b  y == q * b
  <2> HIDE DEF x, y
  <2>2. x <= y /\ y <= n /\ n < x /\ x \in Nat /\ y \in Nat
    BY <1>1, <2>1 DEF x, y
  <2> QED BY <2>2
<1>3. q \in 0 .. a - 1
  BY <1>1, <1>2
<1> QED BY <1>3 DEF q

\* A cluster has cells.
LEMMA ClusterCellsIs == ClusterCells \in Nat \ {0}
BY VolumeAssumption DEF ClusterCells

\* The volume in use is on the disk, and the driver knows where.
Placed == IsVolume(disk, Part) /\ fs = Geometry(disk, Part)

\* What EXFAT_init has of a volume.
LEMMA PlacedIs ==
  ASSUME Placed
  PROVE  /\ fs.start = Part.start /\ fs.start \in Nat
         /\ fs.fat = BootOf(disk, Part).fat /\ fs.fat \in Nat
         /\ fs.heap = BootOf(disk, Part).heap /\ fs.heap \in Nat
         /\ fs.root = BootOf(disk, Part).root
         /\ Part.sectors \in Nat \ {0} /\ Part.start + Part.sectors <= Word
         /\ Within(Part) \subseteq DOMAIN disk
BY DEF Placed, IsVolume, IsPlaced, Geometry

\* No address of a cluster, or of its word of the FAT, wraps or leaves the volume.
LEMMA ClusterAddress ==
  ASSUME Placed, NEW c, IsCluster(disk, Part, c)
  PROVE  /\ c \in Nat /\ 2 <= c /\ c < EndMark /\ c < Word
         /\ ClusterLba(c) = FirstSector(disk, Part, c) /\ ClusterLba(c) \in Nat
         /\ \A s \in 0 .. ClusterSize - 1 :
              /\ ClusterLba(c) + s \in Within(Part)
              /\ (ClusterLba(c) + s) % Word = ClusterLba(c) + s
         /\ FatLba(c) = FatSector(disk, Part, c) /\ FatLba(c) \in Within(Part)
<1>1. c \in 2 .. EndMark - 1 /\ EndMark \in 2 .. Word - 1 /\ Word \in Nat \ {0}
      /\ ClusterSize \in Nat \ {0} /\ Cells \in Nat \ {0}
  BY VolumeAssumption DEF IsCluster
<1>2. c \in Nat /\ 2 <= c /\ c < EndMark /\ c < Word /\ (c - 2) % Word = c - 2
  BY <1>1
<1> DEFINE off == (c - 2) * ClusterSize
           lba == ClusterLba(c)
<1>3. off \in Nat
  BY <1>1, <1>2
<1>4. lba = fs.start + fs.heap + off /\ lba = FirstSector(disk, Part, c)
  BY <1>2, PlacedIs DEF ClusterLba, FirstSector
<1> HIDE DEF off, lba
<1>5. lba \in Nat /\ Part.start <= lba
  BY <1>3, <1>4, PlacedIs
<1>6. lba + ClusterSize - 1 <= Part.start + Part.sectors - 1
  BY <1>4 DEF IsCluster, Within
<1>7. ASSUME NEW s \in 0 .. ClusterSize - 1
      PROVE  lba + s \in Within(Part) /\ (lba + s) % Word = lba + s
  <2>1. lba + s \in Within(Part) /\ lba + s \in Nat /\ lba + s < Word
    BY <1>1, <1>5, <1>6, PlacedIs DEF Within
  <2> QED BY <1>1, <2>1
<1>8. FatSector(disk, Part, c) \in Within(Part) /\ FatLba(c) = FatSector(disk, Part, c)
  <2>1. FatSector(disk, Part, c) \in Within(Part)
    BY DEF IsCluster
  <2>2. FatSector(disk, Part, c) \in Nat /\ FatSector(disk, Part, c) < Word
    BY <1>1, <2>1, PlacedIs DEF Within
  <2>3. FatLba(c) = FatSector(disk, Part, c) % Word
    BY PlacedIs DEF FatLba, FatSector
  <2> QED BY <1>1, <2>1, <2>2, <2>3
<1> QED BY <1>2, <1>4, <1>5, <1>7, <1>8 DEF lba

\* A cluster is read from inside the volume, and the buffer holds its cells.
LEMMA ClusterReads ==
  ASSUME Placed, NEW c, IsCluster(disk, Part, c)
  PROVE  /\ ClusterLbas(c) \subseteq Within(Part) /\ Readable(ClusterLbas(c))
         /\ Loaded(c, {}) = [i \in 1 .. ClusterCells |-> CellOf(disk, Part, c, i)]
<1>1. ClusterLbas(c) \subseteq Within(Part)
  BY ClusterAddress DEF ClusterLbas
<1>2. ASSUME NEW i \in 1 .. ClusterCells
      PROVE  disk[(ClusterLba(c) + ((i - 1) \div Cells)) % Word][((i - 1) % Cells) + 1]
               = CellOf(disk, Part, c, i)
  <2>1. i - 1 \in Nat /\ i - 1 < ClusterSize * Cells
        /\ ClusterSize \in Nat /\ Cells \in Nat \ {0}
    BY VolumeAssumption, ClusterCellsIs DEF ClusterCells
  <2>2. (i - 1) \div Cells \in 0 .. ClusterSize - 1
    BY <2>1, DivBelow
  <2>3. (ClusterLba(c) + ((i - 1) \div Cells)) % Word
          = FirstSector(disk, Part, c) + ((i - 1) \div Cells)
    BY <2>2, ClusterAddress
  <2> QED BY <2>3 DEF CellOf
<1>3. Loaded(c, {}) = [i \in 1 .. ClusterCells |-> CellOf(disk, Part, c, i)]
  BY <1>2 DEF Loaded
<1> QED BY <1>1, <1>3, PlacedIs DEF Readable

\* So is its word of the FAT.
LEMMA FatReads ==
  ASSUME Placed, NEW c, IsCluster(disk, Part, c)
  PROVE  /\ {FatLba(c)} \subseteq Within(Part) /\ Readable({FatLba(c)})
         /\ FatWords(c) = {FatCell(disk, Part, c).next}
         /\ FatCell(disk, Part, c).next \in Nat
<1>1. FatLba(c) = FatSector(disk, Part, c) /\ FatLba(c) \in Within(Part)
  BY ClusterAddress
<1>2. FatCell(disk, Part, c).t = "fat" /\ FatCell(disk, Part, c).next \in 0 .. Word - 1
      /\ Word \in Nat
  BY VolumeAssumption DEF IsCluster
<1>3. FatWords(c) = {FatCell(disk, Part, c).next}
  BY <1>1, <1>2 DEF FatWords, FatCell
<1> QED BY <1>1, <1>2, <1>3, PlacedIs DEF Readable

\* A look into the FAT, as long as none has failed: it yields the word.
LEMMA FatTrusted ==
  ASSUME Placed, NEW c, IsCluster(disk, Part, c), call.cluster = c,
         NEW next, GetFatEntry(next), "fat" \notin fault'
  PROVE  /\ next = FatCell(disk, Part, c).next /\ next \in Nat
         /\ fault' = fault /\ lbas' \subseteq Within(Part)
BY FatReads DEF GetFatEntry

-----------------------------------------------------------------------------
(* Entry sets as the driver reads them                                     *)

\* A prefix grows by the next element.
LEMMA PrefixGrows ==
  ASSUME NEW s, IsSequence(s), NEW m \in Nat, m < Len(s)
  PROVE  /\ Len(SubSeq(s, 1, m)) = m
         /\ Append(SubSeq(s, 1, m), s[m + 1]) = SubSeq(s, 1, m + 1)
<1> DEFINE S == Range(s)
<1>1. s \in Seq(S) /\ Len(s) \in Nat
  BY DEF IsSequence
<1> HIDE DEF S
<1>2. Len(SubSeq(s, 1, m)) = m /\ SubSeq(s, 1, m) \in Seq(S)
  BY <1>1
<1>3. SubSeq(s, 1, m + 1) \in Seq(S) /\ Len(SubSeq(s, 1, m + 1)) = m + 1
  BY <1>1
<1>4. s[m + 1] \in S
  BY <1>1
<1>5. \A j \in 1 .. m + 1 :
        Append(SubSeq(s, 1, m), s[m + 1])[j] = SubSeq(s, 1, m + 1)[j]
  BY <1>1, <1>2, <1>3, <1>4
<1> QED BY <1>2, <1>3, <1>4, <1>5

\* The longest and the shortest prefix.
LEMMA WholePrefix ==
  ASSUME NEW s, IsSequence(s)
  PROVE  SubSeq(s, 1, Len(s)) = s /\ SubSeq(s, 1, 0) = <<>>
<1> DEFINE S == Range(s)
<1>1. s \in Seq(S)
  BY DEF IsSequence
<1> HIDE DEF S
<1> QED BY <1>1

\* What the driver keeps of a name of characters of one byte.
NarrowName(name) == [n \in 1 .. Len(name) |-> Narrow(PieceOf(name[n]))]

\* It is a sequence, and strcmp sees the name again.
LEMMA NarrowNameIs ==
  ASSUME NEW name, IsSequence(name)
  PROVE  /\ IsSequence(NarrowName(name)) /\ Len(NarrowName(name)) = Len(name)
         /\ \A n \in 1 .. Len(name) : NarrowName(name)[n] = Narrow(PieceOf(name[n]))
         /\ CString(NarrowName(name)) = name
<1> DEFINE S == Range(name)  t == NarrowName(name)
           Piece(x) == [low |-> x, zero |-> FALSE]
<1>1. name \in Seq(S)
  BY DEF IsSequence
<1> HIDE DEF S
<1>2. Len(name) \in Nat /\ DOMAIN name = 1 .. Len(name)
      /\ name = [n \in 1 .. Len(name) |-> name[n]]
  BY <1>1
<1>3. t = [n \in 1 .. Len(name) |-> Piece(name[n])]
  BY DEF NarrowName, Narrow, PieceOf
<1> HIDE DEF t
<1>4. DOMAIN t = 1 .. Len(name) /\ \A n \in 1 .. Len(name) : t[n] = Piece(name[n])
  BY <1>3
<1>5. \A n \in 1 .. Len(name) : t[n] \in Range(t)
  BY <1>4 DEF Range
<1>6. t \in Seq(Range(t)) /\ Len(t) = Len(name)
  BY <1>2, <1>3, <1>5
<1>7. {n \in DOMAIN t : t[n].zero} = {}
  BY <1>4
<1>8. CString(t) = [n \in 1 .. Len(name) |-> t[n].low]
  BY <1>6, <1>7 DEF CString
<1>9. CString(t) = name
  BY <1>2, <1>4, <1>8
<1>10. \A n \in 1 .. Len(name) : t[n] = Narrow(PieceOf(name[n]))
  BY <1>4 DEF Narrow, PieceOf
<1> QED BY <1>6, <1>9, <1>10 DEF IsSequence, t

\* From the cells of an entry set the driver makes the file that it describes.
LEMMA FileAtRight ==
  ASSUME NEW dir, NEW k, NEW i \in 1 .. ClusterCells, NEW name, NEW f, NEW past,
         call.buffer = [j \in 1 .. ClusterCells |-> DirCell(disk, Part, dir, k, j)],
         IsSequence(name), EntrySetAt(disk, Part, dir, k, i, name, f)
  PROVE  /\ CString(FileAt(i, past).name) = name
         /\ FileAt(i, past).directory = f.directory /\ Describes(FileAt(i, past), f)
<1> DEFINE cell(j) == DirCell(disk, Part, dir, k, j)
           text == NarrowName(name)
           count == cell(i).count
           file(n) == FilesAt(i, past)[n]
           Named(n) == IF n - 1 <= Len(name) THEN n - 1 ELSE Len(name)
           Right(n) == file(n) = [first |-> f.first, length |-> f.length,
                                  flat |-> f.flat, name_length |-> Len(name),
                                  name |-> SubSeq(text, 1, Named(n)),
                                  directory |-> f.directory]
           T == {n \in 1 .. count : ~Right(n)}
<1>1. /\ cell(i).directory = f.directory /\ count \in 2 .. ClusterCells - i
      /\ cell(i + 1).t = "stream" /\ cell(i + 1).name_length = Len(name)
      /\ cell(i + 1).first = f.first /\ cell(i + 1).length = f.length
      /\ cell(i + 1).flat = f.flat /\ Len(name) \in 1 .. count - 1
      /\ \A n \in 1 .. count - 1 :
           /\ cell(i + 1 + n).t = "name"
           /\ n <= Len(name) => cell(i + 1 + n).piece = PieceOf(name[n])
  BY DEF EntrySetAt
<1> HIDE DEF cell
<1>2. ClusterCells \in Nat /\ count \in Nat /\ Len(name) \in Nat
  BY <1>1, ClusterCellsIs
<1>0. /\ IsSequence(text) /\ Len(text) = Len(name) /\ CString(text) = name
      /\ \A n \in 1 .. Len(name) : text[n] = Narrow(PieceOf(name[n]))
  BY NarrowNameIs
<1> HIDE DEF text
<1>3. Len(call.buffer) = ClusterCells /\ call.buffer[i] = cell(i)
  BY <1>2 DEF cell
<1>4. ASSUME NEW n \in 1 .. count PROVE CellAt(i + n, past) = cell(i + n)
  <2>1. i + n \in 1 .. ClusterCells
    BY <1>1, <1>2
  <2>2. call.buffer[i + n] = cell(i + n)
    BY <2>1 DEF cell
  <2> HIDE DEF count
  <2> QED BY <1>2, <1>3, <2>1, <2>2 DEF CellAt
<1>5. ASSUME NEW n \in 0 .. count
      PROVE  file(n) = IF n = 0
                         THEN [first |-> 0, length |-> 0, flat |-> FALSE,
                               name_length |-> 0, name |-> <<>>,
                               directory |-> f.directory]
                         ELSE Secondary(file(n - 1), cell(i + n))
  <2>1. call.buffer[i].count = count /\ call.buffer[i].count \in Nat
        /\ call.buffer[i].directory = f.directory
    BY <1>1, <1>2, <1>3
  <2>4. n \in 0 .. call.buffer[i].count
    BY <2>1
  <2>5. FilesAt(i, past)[n] = IF n = 0
          THEN [first |-> 0, length |-> 0, flat |-> FALSE, name_length |-> 0,
                name |-> <<>>, directory |-> call.buffer[i].directory]
          ELSE Secondary(FilesAt(i, past)[n - 1], CellAt(i + n, past))
    <3> HIDE DEF count, file
    <3> QED BY <2>1, <2>4, FilesAre
  <2> HIDE DEF count
  <2>2. CASE n = 0
    BY <2>1, <2>2, <2>5
  <2>3. CASE n # 0
    <3>1. CellAt(i + n, past) = cell(i + n)
      BY <1>4, <2>3
    <3> QED BY <2>3, <2>5, <3>1
  <2> QED BY <2>2, <2>3
<1> HIDE DEF file, count
<1>6. Right(1)
  <2> DEFINE g == [first |-> 0, length |-> 0, flat |-> FALSE, name_length |-> 0,
                   name |-> <<>>, directory |-> f.directory]
  <2>1. file(0) = g
    BY <1>2, <1>5
  <2>2. file(1) = Secondary(g, cell(i + 1))
    <3>1. 1 \in 0 .. count /\ 1 - 1 = 0
      BY <1>1 DEF count
    <3>2. file(1) = Secondary(file(1 - 1), cell(i + 1))
      BY <1>5, <3>1
    <3> HIDE DEF g
    <3> QED BY <2>1, <3>1, <3>2
  <2>3. SubSeq(text, 1, Named(1)) = <<>>
    BY <1>0, <1>2, WholePrefix
  <2> QED BY <1>1, <2>2, <2>3 DEF Secondary
<1>7. ASSUME NEW n \in 2 .. count, Right(n - 1) PROVE Right(n)
  <2>1. file(n) = Secondary(file(n - 1), cell(i + n))
    BY <1>2, <1>5
  <2>2. /\ cell(i + n).t = "name"
        /\ n - 1 <= Len(name) => Narrow(cell(i + n).piece) = text[n - 1]
    <3>1. n - 1 \in 1 .. count - 1 /\ i + 1 + (n - 1) = i + n
      BY <1>2
    <3>2. /\ cell(i + n).t = "name"
          /\ n - 1 <= Len(name) => cell(i + n).piece = PieceOf(name[n - 1])
      BY <1>1, <3>1
    <3>3. n - 1 <= Len(name) => n - 1 \in 1 .. Len(name)
      BY <1>2, <3>1
    <3>4. n - 1 <= Len(name) => text[n - 1] = Narrow(PieceOf(name[n - 1]))
      BY <1>0, <3>3
    <3> QED BY <3>2, <3>4
  <2>3. file(n) = WithPiece(file(n - 1), cell(i + n).piece)
    BY <2>1, <2>2 DEF Secondary
  <2>4. CASE n - 1 <= Len(name)
    <3>1. Named(n - 1) = n - 2 /\ n - 2 \in Nat /\ n - 2 < Len(name) /\ Named(n) = n - 1
      BY <1>2, <2>4
    <3>2. /\ Len(SubSeq(text, 1, n - 2)) = n - 2
          /\ Append(SubSeq(text, 1, n - 2), text[n - 1]) = SubSeq(text, 1, n - 1)
      <4>1. (n - 2) + 1 = n - 1
        BY <1>2
      <4> QED BY <1>0, <3>1, <4>1, PrefixGrows
    <3> DEFINE before == SubSeq(text, 1, n - 2)  after == SubSeq(text, 1, n - 1)
    <3>3. file(n - 1) = [first |-> f.first, length |-> f.length, flat |-> f.flat,
                         name_length |-> Len(name), name |-> before,
                         directory |-> f.directory]
      BY <1>7, <3>1
    <3>4. Len(before) = n - 2 /\ Append(before, Narrow(cell(i + n).piece)) = after
      BY <2>2, <2>4, <3>2
    <3> HIDE DEF before, after
    <3>5. file(n) = [first |-> f.first, length |-> f.length, flat |-> f.flat,
                     name_length |-> Len(name), name |-> after,
                     directory |-> f.directory]
      <4> DEFINE piece == cell(i + n).piece  N == Len(name)
      <4>1. Len(before) < N
        BY <3>1, <3>4
      <4> HIDE DEF piece, N
      <4>2. WithPiece(file(n - 1), piece)
              = [file(n - 1) EXCEPT !.name = Append(before, Narrow(piece))]
        BY <3>3, <4>1 DEF WithPiece, N
      <4>3. file(n) = [file(n - 1) EXCEPT !.name = after]
        <5>1. Append(before, Narrow(piece)) = after
          BY <3>4 DEF piece
        <5>2. file(n) = WithPiece(file(n - 1), piece)
          BY <2>3 DEF piece
        <5> QED BY <4>2, <5>1, <5>2, Zenon
      <4> QED BY <3>3, <4>3
    <3> QED BY <3>1, <3>5 DEF after
  <2>5. CASE ~(n - 1 <= Len(name))
    <3>1. Named(n - 1) = Len(name) /\ Named(n) = Len(name)
      BY <1>2, <2>5
    <3>2. SubSeq(text, 1, Len(name)) = text
      BY <1>0, WholePrefix
    <3>3. file(n - 1) = [first |-> f.first, length |-> f.length, flat |-> f.flat,
                         name_length |-> Len(name), name |-> text,
                         directory |-> f.directory]
      BY <1>7, <3>1, <3>2
    <3>4. file(n) = file(n - 1)
      BY <1>0, <1>2, <2>3, <3>3 DEF WithPiece
    <3> QED BY <3>1, <3>2, <3>3, <3>4
  <2> QED BY <2>4, <2>5
<1> HIDE DEF Right
<1>8. ASSUME T # {} PROVE FALSE
  <2>1. PICK m \in T : \A y \in T : m <= y
    <3>1. T \subseteq Nat
      OBVIOUS
    <3> HIDE DEF T
    <3> QED BY <1>8, <3>1, LeastNat
  <2>2. m \in 1 .. count /\ m # 1
    BY <1>6, <2>1
  <2>3. m \in 2 .. count /\ m - 1 \in 1 .. count /\ ~(m <= m - 1)
    BY <1>2, <2>2
  <2>4. Right(m - 1)
    BY <2>1, <2>3
  <2> QED BY <1>7, <2>1, <2>3, <2>4
<1>9. Right(count)
  <2>1. count \in 1 .. count /\ T = {}
    BY <1>1, <1>2, <1>8
  <2> QED BY <2>1
<1>10. Named(count) = Len(name)
  BY <1>1, <1>2
<1>11. file(count) = [first |-> f.first, length |-> f.length, flat |-> f.flat,
                      name_length |-> Len(name), name |-> text,
                      directory |-> f.directory]
  BY <1>0, <1>9, <1>10, WholePrefix DEF Right
<1>12. FileAt(i, past) = file(count)
  BY <1>3 DEF FileAt, file, count
<1> QED BY <1>0, <1>11, <1>12 DEF Describes

-----------------------------------------------------------------------------
(* Paths                                                                   *)

\* The parent and the name of a prefix.
LEMMA PrefixIs ==
  ASSUME NEW s, IsSequence(s), NEW n \in Nat, n < Len(s)
  PROVE  LET q == SubSeq(s, 1, n + 1) IN
         q # <<>> /\ Parent(q) = SubSeq(s, 1, n) /\ NameOf(q) = s[n + 1]
<1> DEFINE S == Range(s)
           q == SubSeq(s, 1, n + 1)
<1>1. s \in Seq(S) /\ Len(s) \in Nat
  BY DEF IsSequence
<1> HIDE DEF S
<1>2. /\ q \in Seq(S) /\ Len(q) = n + 1 /\ q[n + 1] = s[n + 1]
      /\ \A j \in 1 .. n + 1 : q[j] = s[j]
  BY <1>1
<1>3. SubSeq(s, 1, n) \in Seq(S) /\ Len(SubSeq(s, 1, n)) = n
      /\ \A j \in 1 .. n : SubSeq(s, 1, n)[j] = s[j]
  BY <1>1
<1> HIDE DEF q
<1>4. SubSeq(q, 1, n) \in Seq(S) /\ Len(SubSeq(q, 1, n)) = n
      /\ \A j \in 1 .. n : SubSeq(q, 1, n)[j] = q[j]
  BY <1>2
<1>5. SubSeq(q, 1, n) = SubSeq(s, 1, n)
  <2> DEFINE a == SubSeq(q, 1, n)  b == SubSeq(s, 1, n)
  <2>1. \A j \in 1 .. n : a[j] = b[j]
    BY <1>2, <1>3, <1>4
  <2>2. a \in Seq(S) /\ b \in Seq(S) /\ Len(a) = n /\ Len(b) = n
    BY <1>3, <1>4
  <2> HIDE DEF a, b
  <2>3. a = b
    BY <2>1, <2>2
  <2> QED BY <2>3 DEF a, b
<1>6. q # <<>>
  BY <1>2
<1>7. Parent(q) = SubSeq(q, 1, n)
  <2>1. Len(q) - 1 = n
    BY <1>2
  <2> QED BY <2>1 DEF Parent
<1>8. NameOf(q) = s[n + 1]
  BY <1>2 DEF NameOf
<1> QED BY <1>5, <1>6, <1>7, <1>8 DEF q

\* A path is determined by its parent and its name.
LEMMA PathIs ==
  ASSUME NEW q, IsSequence(q), q # <<>>
  PROVE  q = Append(Parent(q), NameOf(q))
<1> DEFINE m == Len(q) - 1
<1>1. m \in Nat /\ m < Len(q) /\ m + 1 = Len(q)
  BY DEF IsSequence
<1>2. Append(SubSeq(q, 1, m), q[m + 1]) = SubSeq(q, 1, m + 1)
  BY <1>1, PrefixGrows
<1>3. SubSeq(q, 1, Len(q)) = q
  BY WholePrefix
<1> QED BY <1>1, <1>2, <1>3 DEF Parent, NameOf

\* The path with the next name in the directory of a prefix is the next prefix.
LEMMA NextPrefix ==
  ASSUME NEW q, IsSequence(q), q # <<>>, IsSequence(path), NEW n \in Nat, n < Len(path),
         Parent(q) = Prefix(n), NameOf(q) = path[n + 1]
  PROVE  q = Prefix(n + 1)
<1>1. Append(SubSeq(path, 1, n), path[n + 1]) = SubSeq(path, 1, n + 1)
  BY PrefixGrows
<1> QED BY <1>1, PathIs DEF Prefix

\* What is on the way to a file is there, and they are directories.
LEMMA PrefixClosed ==
  ASSUME Placed, IsSequence(path), path \in DOMAIN Vol.entries
  PROVE  \A n \in 0 .. Len(path) :
           /\ Prefix(n) \in DOMAIN Vol.entries
           /\ n < Len(path) => Vol.entries[Prefix(n)].directory
<1> DEFINE N == Len(path)
           OnWay(n) == /\ Prefix(n) \in DOMAIN Vol.entries
                       /\ n < N => Vol.entries[Prefix(n)].directory
           T == {m \in 0 .. N : ~OnWay(N - m)}
<1>1. N \in Nat
  BY DEF IsSequence
<1>2. OnWay(N)
  <2>1. Prefix(N) = path
    BY WholePrefix DEF Prefix
  <2>2. ~(N < N)
    BY <1>1
  <2> HIDE DEF N
  <2> QED BY <2>1, <2>2
<1>3. ASSUME NEW n \in 0 .. N - 1, OnWay(n + 1) PROVE OnWay(n)
  <2>1. Prefix(n + 1) # <<>> /\ Parent(Prefix(n + 1)) = Prefix(n)
    <3>1. n \in Nat /\ n < Len(path)
      BY <1>1
    <3> QED BY <3>1, PrefixIs DEF Prefix
  <2>2. Prefix(n + 1) \in DOMAIN Vol.entries
    BY <1>3
  <2> QED BY <2>1, <2>2 DEF Placed, IsVolume, Vol, Part
<1> HIDE DEF OnWay, N
<1>4. ASSUME T # {} PROVE FALSE
  <2>1. PICK m \in T : \A y \in T : m <= y
    <3>1. T \subseteq Nat
      OBVIOUS
    <3> HIDE DEF T
    <3> QED BY <1>4, <3>1, LeastNat
  <2>2. m \in 0 .. N /\ m # 0
    BY <1>1, <1>2
  <2>3. m - 1 \in 0 .. N /\ ~(m <= m - 1) /\ N - m \in 0 .. N - 1
        /\ N - (m - 1) = (N - m) + 1
    BY <1>1, <2>2
  <2>4. OnWay(N - (m - 1))
    BY <2>1, <2>3
  <2>5. OnWay(N - m)
    BY <1>3, <2>3, <2>4
  <2> QED BY <2>1, <2>5
<1>5. ASSUME NEW n \in 0 .. N PROVE OnWay(n)
  <2>1. N - n \in 0 .. N /\ N - (N - n) = n
    BY <1>1
  <2>2. N - n \notin T
    BY <1>4
  <2> QED BY <2>1, <2>2
<1> QED BY <1>5 DEF OnWay, N

\* The least of a set of numbers.
LEMMA MinIs ==
  ASSUME NEW T, T \subseteq Nat, T # {}
  PROVE  Min(T) \in T /\ \A y \in T : Min(T) <= y
<1>1. \E x \in T : \A y \in T : x <= y
  BY LeastNat
<1> QED BY <1>1 DEF Min

-----------------------------------------------------------------------------
(* Searching a directory                                                   *)

\* The rest of a path.
LEMMA RestIs ==
  ASSUME NEW s, IsSequence(s), NEW n \in Nat, n < Len(s)
  PROVE  LET rest == SubSeq(s, n + 1, Len(s)) IN
         /\ Head(rest) = s[n + 1] /\ Len(rest) = Len(s) - n
         /\ Tail(rest) = SubSeq(s, n + 2, Len(s))
<1> DEFINE S == Range(s)
           rest == SubSeq(s, n + 1, Len(s))
           after == SubSeq(s, n + 2, Len(s))
<1>1. s \in Seq(S) /\ Len(s) \in Nat
  BY DEF IsSequence
<1> HIDE DEF S
<1>2. /\ rest \in Seq(S) /\ Len(rest) = Len(s) - n
      /\ \A j \in 1 .. Len(s) - n : rest[j] = s[n + j]
  BY <1>1
<1>3. /\ after \in Seq(S) /\ Len(after) = Len(s) - n - 1
      /\ \A j \in 1 .. Len(s) - n - 1 : after[j] = s[n + 1 + j]
  BY <1>1
<1> HIDE DEF rest, after
<1>4. Head(rest) = rest[1] /\ rest # <<>>
  BY <1>1, <1>2
<1>5. /\ Tail(rest) \in Seq(S) /\ Len(Tail(rest)) = Len(s) - n - 1
      /\ \A j \in 1 .. Len(s) - n - 1 : Tail(rest)[j] = rest[j + 1]
  BY <1>1, <1>2, <1>4
<1>6. Tail(rest) = after
  <2>1. \A j \in 1 .. Len(s) - n - 1 : Tail(rest)[j] = after[j]
    <3> TAKE j \in 1 .. Len(s) - n - 1
    <3>1. j + 1 \in 1 .. Len(s) - n /\ n + (j + 1) = n + 1 + j
      BY <1>1
    <3> QED BY <1>2, <1>3, <1>5, <3>1
  <2> DEFINE t == Tail(rest)
  <2> HIDE DEF t
  <2>2. t \in Seq(S) /\ Len(t) = Len(after) /\ \A j \in 1 .. Len(t) : t[j] = after[j]
    BY <1>1, <1>3, <1>5, <2>1 DEF t
  <2>3. t = after
    BY <1>3, <2>2
  <2> QED BY <2>3 DEF t
<1>7. rest[1] = s[n + 1]
  <2>1. 1 \in 1 .. Len(s) - n
    BY <1>1
  <2> QED BY <1>2, <2>1
<1> QED BY <1>2, <1>4, <1>6, <1>7 DEF rest, after

\* What a volume says of its files.
LEMMA FileIs ==
  ASSUME Placed, NEW q \in DOMAIN Vol.entries
  PROVE  LET f == Vol.entries[q] IN
         /\ IsFile(disk, Part, f) /\ f.length \in Nat
         /\ Len(f.clusters) \in Nat /\ DOMAIN f.clusters = 1 .. Len(f.clusters)
         /\ \A k \in 1 .. Len(f.clusters) : IsCluster(disk, Part, f.clusters[k])
         /\ f.clusters # <<>> => Len(f.clusters) # 0 /\ f.clusters[1] = f.first
<1> DEFINE f == Vol.entries[q]
<1>1. IsFile(disk, Part, f)
  BY DEF Placed, IsVolume, Vol, Part
<1>2. IsSequence(f.clusters)
  BY <1>1 DEF IsFile
<1> HIDE DEF f
<1>3. Len(f.clusters) \in Nat /\ DOMAIN f.clusters = 1 .. Len(f.clusters)
      /\ (f.clusters # <<>> => Len(f.clusters) # 0)
  <2> DEFINE s == f.clusters  S == Range(f.clusters)
  <2>1. s \in Seq(S)
    BY <1>2 DEF IsSequence
  <2> HIDE DEF s, S
  <2>2. Len(s) \in Nat /\ DOMAIN s = 1 .. Len(s) /\ (s # <<>> => Len(s) # 0)
    BY <2>1
  <2> QED BY <2>2 DEF s
<1> QED BY <1>1, <1>3 DEF IsFile, f

\* What a volume says of its directories.
LEMMA DirectoryIs ==
  ASSUME Placed, NEW dir \in DOMAIN Vol.entries, Vol.entries[dir].directory
  PROVE  LET f == Vol.entries[dir] IN
         /\ IsDirectory(disk, Part, dir)
         /\ Len(f.clusters) \in Nat \ {0} /\ f.clusters[1] = f.first
         /\ \A k \in 1 .. Len(f.clusters) - 1 :
              f.clusters[k + 1] = FatCell(disk, Part, f.clusters[k]).next
         /\ \/ AfterLast(disk, Part, f) >= EndMark
            \/ \E k \in 1 .. Len(f.clusters) : AfterLast(disk, Part, f) = f.clusters[k]
<1> DEFINE f == Vol.entries[dir]
<1>1. IsDirectory(disk, Part, dir) /\ f = Part.vol.entries[dir]
  BY DEF Placed, IsVolume, Vol, Part
<1>2. ~f.flat /\ f.clusters # <<>>
      /\ (f.chain = "cyclic" \/ AfterLast(disk, Part, f) >= EndMark)
  BY <1>1 DEF IsDirectory
<1>3. IsFile(disk, Part, f) /\ Len(f.clusters) \in Nat \ {0} /\ f.clusters[1] = f.first
  BY <1>2, FileIs
<1> HIDE DEF f
<1>4. \A k \in 1 .. Len(f.clusters) - 1 :
        f.clusters[k + 1] = FatCell(disk, Part, f.clusters[k]).next
  BY <1>2, <1>3 DEF IsFile
<1>5. f.chain = "cyclic" =>
        \E k \in 1 .. Len(f.clusters) : AfterLast(disk, Part, f) = f.clusters[k]
  BY <1>3 DEF IsFile
<1> QED BY <1>1, <1>2, <1>3, <1>4, <1>5 DEF f

\* Where a search is.
Inside(n, k) ==
  /\ Placed /\ IsSequence(path) /\ n \in Nat /\ n < Len(path)
  /\ Prefix(n) \in DOMAIN Vol.entries /\ Vol.entries[Prefix(n)].directory
  /\ k \in 1 .. Len(Vol.entries[Prefix(n)].clusters)

\* The name that is looked for is at cell i of the k-th cluster.
NameAt(n, k, i) ==
  EntrySetAt(disk, Part, Prefix(n), k, i, NameOf(Prefix(n + 1)), Vol.entries[Prefix(n + 1)])

\* The name that is looked for is in the directory, at some place that is reached.
LEMMA IsListed ==
  ASSUME NEW n, NEW k, Inside(n, k), Prefix(n + 1) \in DOMAIN Vol.entries
  PROVE  \E m \in 1 .. Len(Vol.entries[Prefix(n)].clusters), i \in 1 .. ClusterCells :
           Reached(disk, Part, Prefix(n), m, i) /\ NameAt(n, m, i)
<1>1. IsDirectory(disk, Part, Prefix(n)) /\ Vol.entries = Part.vol.entries
  BY DirectoryIs DEF Inside, Vol, Part
<1>2. Prefix(n + 1) # <<>> /\ Parent(Prefix(n + 1)) = Prefix(n)
  BY PrefixIs DEF Inside, Prefix
<1> QED BY <1>1, <1>2 DEF IsDirectory, NameAt

\* A name that no cluster holds is not there.
LEMMA AbsentAfterAll ==
  ASSUME NEW n, NEW k, Inside(n, k),
         Passed(Prefix(n), Prefix(n + 1), Len(Vol.entries[Prefix(n)].clusters) + 1)
  PROVE  Prefix(n + 1) \notin DOMAIN Vol.entries
<1>1. ASSUME Prefix(n + 1) \in DOMAIN Vol.entries PROVE FALSE
  <2>1. PICK m \in 1 .. Len(Vol.entries[Prefix(n)].clusters), i \in 1 .. ClusterCells :
          NameAt(n, m, i)
    BY <1>1, IsListed
  <2>2. Len(Vol.entries[Prefix(n)].clusters) \in Nat
    BY FileIs DEF Inside
  <2>3. m \in 1 .. (Len(Vol.entries[Prefix(n)].clusters) + 1) - 1
    BY <2>1, <2>2
  <2> QED BY <1>1, <2>1, <2>3 DEF Passed, NameAt
<1> QED BY <1>1

\* Nor is one that does not come before the end marker.
LEMMA AbsentAtEnd ==
  ASSUME NEW n, NEW k, Inside(n, k), Passed(Prefix(n), Prefix(n + 1), k),
         NEW s \in 1 .. ClusterCells, DirCell(disk, Part, Prefix(n), k, s).t = "end",
         Prefix(n + 1) \in DOMAIN Vol.entries =>
           \A h \in 1 .. ClusterCells : h < s => ~NameAt(n, k, h)
  PROVE  Prefix(n + 1) \notin DOMAIN Vol.entries
<1>1. ASSUME Prefix(n + 1) \in DOMAIN Vol.entries PROVE FALSE
  <2>1. PICK m \in 1 .. Len(Vol.entries[Prefix(n)].clusters), i \in 1 .. ClusterCells :
          Reached(disk, Part, Prefix(n), m, i) /\ NameAt(n, m, i)
    BY <1>1, IsListed
  <2>2. k \in Nat /\ m \in Nat /\ 1 <= m /\ 1 <= k /\ ClusterCells \in Nat
    BY <2>1, FileIs, ClusterCellsIs DEF Inside
  <2>3. ~(m < k)
    <3>1. ASSUME m < k PROVE m \in 1 .. k - 1
      BY <2>2, <3>1
    <3> QED BY <1>1, <2>1, <3>1 DEF Passed, NameAt
  <2>4. ~(k < m)
    <3>1. k < m => k \in 1 .. m
      BY <2>2
    <3> QED BY <2>1, <3>1 DEF Reached
  <2>5. k = m /\ k \in 1 .. m
    BY <2>2, <2>3, <2>4
  <2>6. ~(s < i)
    BY <2>1, <2>5 DEF Reached
  <2>7. s # i
    BY <2>1, <2>5 DEF NameAt, EntrySetAt
  <2>8. i < s
    BY <2>2, <2>6, <2>7
  <2> QED BY <1>1, <2>1, <2>5, <2>8
<1> QED BY <1>1

-----------------------------------------------------------------------------
(* The scan of a cluster of a directory                                    *)

\* The buffer holds the k-th cluster of the directory at the first n components.
Scanning(n, k) == Inside(n, k) /\ Searching(n, k) /\ call.pc = "scan"

\* The buffer holds the cluster; only an end marker ends the scan.
LEMMA ScanSees ==
  ASSUME NEW n, NEW k, Scanning(n, k)
  PROVE  /\ Len(call.buffer) = ClusterCells
         /\ \A i \in 1 .. ClusterCells :
              /\ call.buffer[i] = DirCell(disk, Part, Prefix(n), k, i)
              /\ IsEnd(call.buffer[i]) <=> DirCell(disk, Part, Prefix(n), k, i).t = "end"
         /\ Head(call.path) = path[n + 1] /\ Len(call.path) = Len(path) - n
         /\ Tail(call.path) = SubSeq(path, n + 2, Len(path))
         /\ Passed(Prefix(n), Prefix(n + 1), k)
<1>1. call.buffer = [i \in 1 .. ClusterCells |-> DirCell(disk, Part, Prefix(n), k, i)]
      /\ call.path = SubSeq(path, n + 1, Len(path))
      /\ Passed(Prefix(n), Prefix(n + 1), k)
  BY DEF Scanning, Searching
<1>2. Head(call.path) = path[n + 1] /\ Len(call.path) = Len(path) - n
      /\ Tail(call.path) = SubSeq(path, n + 2, Len(path))
  BY <1>1, RestIs DEF Scanning, Inside
<1>3. Len(call.buffer) = ClusterCells
  BY <1>1, ClusterCellsIs
<1>4. ASSUME NEW i \in 1 .. ClusterCells
      PROVE  DirCell(disk, Part, Prefix(n), k, i).t # "fat"
  <2>1. IsDirectory(disk, Part, Prefix(n))
        /\ k \in 1 .. Len(Part.vol.entries[Prefix(n)].clusters)
    BY DirectoryIs DEF Scanning, Inside, Vol, Part
  <2> QED BY <2>1 DEF IsDirectory
<1>5. ASSUME NEW i \in 1 .. ClusterCells
      PROVE  /\ call.buffer[i] = DirCell(disk, Part, Prefix(n), k, i)
             /\ IsEnd(call.buffer[i]) <=> DirCell(disk, Part, Prefix(n), k, i).t = "end"
  <2>1. call.buffer[i] = DirCell(disk, Part, Prefix(n), k, i)
    BY <1>1
  <2> QED BY <1>4, <2>1 DEF IsEnd
<1> QED BY <1>1, <1>2, <1>3, <1>5

\* An entry set of the cluster is taken for what it says.
LEMMA ScanReads ==
  ASSUME NEW n, NEW k, Scanning(n, k), NEW past, NEW i \in 1 .. ClusterCells,
         NEW q \in DOMAIN Vol.entries, q # <<>>,
         EntrySetAt(disk, Part, Prefix(n), k, i, NameOf(q), Vol.entries[q])
  PROVE  /\ CString(FileAt(i, past).name) = NameOf(q)
         /\ FileAt(i, past).directory = Vol.entries[q].directory
         /\ Describes(FileAt(i, past), Vol.entries[q])
<1>1. IsSequence(NameOf(q))
  BY DEF Scanning, Inside, Placed, IsVolume, Vol, Part
<1>2. call.buffer = [j \in 1 .. ClusterCells |-> DirCell(disk, Part, Prefix(n), k, j)]
  BY DEF Scanning, Searching
<1> DEFINE dir == Prefix(n)  name == NameOf(q)  f == Vol.entries[q]
<1>3. EntrySetAt(disk, Part, dir, k, i, name, f)
  OBVIOUS
<1> HIDE DEF dir, name, f
<1>4. CString(FileAt(i, past).name) = name /\ FileAt(i, past).directory = f.directory
      /\ Describes(FileAt(i, past), f)
  BY <1>1, <1>2, <1>3, FileAtRight DEF dir, name
<1> QED BY <1>4 DEF name, f

\* The name that is looked for.
LEMMA NextName ==
  ASSUME NEW n, NEW k, Inside(n, k)
  PROVE  /\ Prefix(n + 1) # <<>> /\ Parent(Prefix(n + 1)) = Prefix(n)
         /\ NameOf(Prefix(n + 1)) = path[n + 1]
BY PrefixIs DEF Inside, Prefix

\* The scan stops at the name and at an end marker.
LEMMA StopsAtName ==
  ASSUME NEW n, NEW k, Scanning(n, k), NEW past, NEW h \in 1 .. ClusterCells,
         Prefix(n + 1) \in DOMAIN Vol.entries, NameAt(n, k, h)
  PROVE  h \in Stops(past)
<1>1. CString(FileAt(h, past).name) = path[n + 1]
  BY ScanReads, NextName DEF NameAt, Scanning
<1>2. call.buffer[h].t = "file" /\ h \in 1 .. Len(call.buffer)
      /\ Head(call.path) = path[n + 1]
  BY ScanSees DEF NameAt, EntrySetAt
<1> QED BY <1>1, <1>2 DEF Stops

LEMMA StopsAtEnd ==
  ASSUME NEW n, NEW k, Scanning(n, k), NEW past, NEW h \in 1 .. ClusterCells,
         DirCell(disk, Part, Prefix(n), k, h).t = "end"
  PROVE  h \in Stops(past)
<1>1. IsEnd(call.buffer[h]) /\ h \in 1 .. Len(call.buffer)
  BY ScanSees
<1> QED BY <1>1 DEF Stops

\* No stop: the cluster is passed.
LEMMA ScanPasses ==
  ASSUME NEW n, NEW k, Scanning(n, k), NEW past, Stops(past) = {}
  PROVE  Passed(Prefix(n), Prefix(n + 1), k + 1)
<1> DEFINE q == Prefix(n + 1)
<1>1. ASSUME NEW j \in 1 .. (k + 1) - 1, NEW h \in 1 .. ClusterCells
      PROVE  /\ DirCell(disk, Part, Prefix(n), j, h).t # "end"
             /\ q \in DOMAIN Vol.entries => ~NameAt(n, j, h)
  <2>1. k \in Nat /\ (j = k \/ j \in 1 .. k - 1)
    BY FileIs DEF Scanning, Inside
  <2>2. CASE j = k
    BY <2>2, StopsAtEnd, StopsAtName
  <2>3. CASE j \in 1 .. k - 1
    BY <2>3, ScanSees DEF Passed, NameAt
  <2> QED BY <2>1, <2>2, <2>3
<1> QED BY <1>1 DEF Passed, NameAt

\* It stops at the first of them.
LEMMA FirstStop ==
  ASSUME NEW n, NEW k, Scanning(n, k), NEW past, Stops(past) # {}
  PROVE  /\ Min(Stops(past)) \in 1 .. ClusterCells /\ Min(Stops(past)) \in Stops(past)
         /\ \A h \in 1 .. ClusterCells : h < Min(Stops(past)) => h \notin Stops(past)
<1> DEFINE T == Stops(past)
<1>1. T \subseteq 1 .. ClusterCells
  BY ScanSees DEF Stops
<1> HIDE DEF T
<1>2. ClusterCells \in Nat /\ T \subseteq Nat
  BY <1>1, ClusterCellsIs
<1>3. Min(T) \in T /\ \A y \in T : Min(T) <= y
  BY <1>2, MinIs DEF T
<1>4. Min(T) \in 1 .. ClusterCells
  BY <1>1, <1>3
<1>5. \A h \in 1 .. ClusterCells : h < Min(T) => h \notin T
  BY <1>2, <1>3, <1>4
<1> QED BY <1>3, <1>4, <1>5 DEF T

\* The scan stops at an end marker: there is no such name.
LEMMA ScanEnds ==
  ASSUME NEW n, NEW k, Scanning(n, k), NEW past, Stops(past) # {},
         IsEnd(call.buffer[Min(Stops(past))])
  PROVE  Prefix(n + 1) \notin DOMAIN Vol.entries
<1> DEFINE s == Min(Stops(past))
<1>1. s \in 1 .. ClusterCells /\ \A h \in 1 .. ClusterCells : h < s => h \notin Stops(past)
  BY FirstStop
<1>2. DirCell(disk, Part, Prefix(n), k, s).t = "end" /\ Passed(Prefix(n), Prefix(n + 1), k)
  BY <1>1, ScanSees
<1> HIDE DEF s
<1>3. Prefix(n + 1) \in DOMAIN Vol.entries =>
        \A h \in 1 .. ClusterCells : h < s => ~NameAt(n, k, h)
  BY <1>1, StopsAtName
<1> QED BY <1>1, <1>2, <1>3, AbsentAtEnd DEF Scanning

\* The scan stops at an entry set: it is that of the name.
LEMMA ScanFinds ==
  ASSUME NEW n, NEW k, Scanning(n, k), NEW past, Stops(past) # {},
         call.buffer[Min(Stops(past))].t = "file"
  PROVE  LET file == FileAt(Min(Stops(past)), past)
             q == Prefix(n + 1)
         IN /\ q \in DOMAIN Vol.entries
            /\ file.directory = Vol.entries[q].directory /\ Describes(file, Vol.entries[q])
<1> DEFINE s == Min(Stops(past))
<1>1. s \in 1 .. ClusterCells /\ s \in Stops(past)
      /\ \A h \in 1 .. ClusterCells : h < s => h \notin Stops(past)
  BY FirstStop
<1> HIDE DEF s
<1>2. DirCell(disk, Part, Prefix(n), k, s).t = "file" /\ ~IsEnd(call.buffer[s])
  BY <1>1, ScanSees DEF s
<1>3. CString(FileAt(s, past).name) = path[n + 1]
  BY <1>1, <1>2, ScanSees DEF Stops
<1>4. Reached(disk, Part, Prefix(n), k, s)
  <2>1. ASSUME NEW j \in 1 .. k, NEW h \in 1 .. ClusterCells, j < k \/ h < s
        PROVE  DirCell(disk, Part, Prefix(n), j, h).t # "end"
    <3>1. k \in Nat /\ (j = k \/ j \in 1 .. k - 1)
      BY FileIs DEF Scanning, Inside
    <3>2. CASE j = k
      BY <1>1, <2>1, <3>1, <3>2, StopsAtEnd
    <3>3. CASE j \in 1 .. k - 1
      BY <3>3, ScanSees DEF Passed
    <3> QED BY <3>1, <3>2, <3>3
  <2> QED BY <2>1 DEF Reached
<1>5. IsDirectory(disk, Part, Prefix(n)) /\ Vol.entries = Part.vol.entries
      /\ k \in 1 .. Len(Vol.entries[Prefix(n)].clusters)
  BY DirectoryIs DEF Scanning, Inside, Vol, Part
<1>6. PICK q \in DOMAIN Vol.entries :
        /\ q # <<>> /\ Parent(q) = Prefix(n)
        /\ EntrySetAt(disk, Part, Prefix(n), k, s, NameOf(q), Vol.entries[q])
  BY <1>1, <1>2, <1>4, <1>5 DEF IsDirectory
<1>7. /\ CString(FileAt(s, past).name) = NameOf(q)
      /\ FileAt(s, past).directory = Vol.entries[q].directory
      /\ Describes(FileAt(s, past), Vol.entries[q])
  BY <1>1, <1>6, ScanReads
<1>8. IsSequence(q)
  BY DEF Scanning, Inside, Placed, IsVolume, Vol, Part
<1>9. q = Prefix(n + 1)
  BY <1>3, <1>6, <1>7, <1>8, NextPrefix DEF Scanning, Inside
<1> QED BY <1>6, <1>7, <1>9 DEF s

-----------------------------------------------------------------------------
(* The steps of EXFAT_open_file                                            *)

\* A step of a call that searches.
SearchStep ==
  /\ LoopInv /\ MountInv /\ OpenInv
  /\ pc = "opened" /\ call.op = "open" /\ UNCHANGED <<mainVars, disk, flaky, fs>>

\* What it keeps.
SearchIsRight ==
  /\ OpenInv' /\ OpenedInv'
  /\ Trusted /\ fault' = {} => lbas' = lbas \/ lbas' \subseteq Within(Part)
  /\ Trusted /\ ~flaky => fault' = fault

\* Once a read of the FAT has failed nothing is said.
LEMMA SearchLost ==
  ASSUME ~Trusted'
  PROVE  OpenInv' /\ OpenedInv'
BY DEF OpenInv, OpenedInv

\* The driver changes neither the disk nor what kernel_main is at.
LEMMA StillGood ==
  ASSUME UNCHANGED <<mainVars, disk>>
  PROVE  /\ Good' = Good /\ Part' = Part /\ Vol' = Vol
         /\ fault \subseteq fault' => (Trusted' => Trusted)
BY DEF mainVars, Good, Mounted, Part, Vol, Trusted

\* A search that goes on, at the k-th cluster of the directory at n components.
LEMMA SearchGoesOn ==
  ASSUME UNCHANGED <<mainVars, disk, fs>>, NEW n, NEW k, Inside(n, k),
         call'.op = "open", call'.pc \in {"read", "scan", "next"},
         call'.path = SubSeq(path, n + 1, Len(path)),
         call'.cluster = Vol.entries[Prefix(n)].clusters[k],
         Passed(Prefix(n), Prefix(n + 1), IF call'.pc = "next" THEN k + 1 ELSE k),
         call'.pc = "scan" =>
           call'.buffer = [i \in 1 .. ClusterCells |-> DirCell(disk, Part, Prefix(n), k, i)]
  PROVE  OpenInv' /\ OpenedInv'
<1>1. path' = path /\ Part' = Part /\ Vol' = Vol /\ disk' = disk
  BY DEF mainVars, Part, Vol
<1>2. Prefix(n)' = Prefix(n) /\ Prefix(n + 1)' = Prefix(n + 1)
  BY <1>1 DEF Prefix
<1>3. ASSUME NEW m
      PROVE  Passed(Prefix(n), Prefix(n + 1), m)' = Passed(Prefix(n), Prefix(n + 1), m)
  BY <1>1, <1>2 DEF Passed
<1>4. Searching(n, k)'
  BY <1>1, <1>2, <1>3 DEF Searching, Inside
<1>5. n \in 0 .. Len(path) - 1 /\ k \in 1 .. Len(Vol.entries[Prefix(n)].clusters)
  BY DEF Inside, IsSequence
<1>6. OpenInv'
  BY <1>1, <1>2, <1>4, <1>5 DEF OpenInv
<1>7. call' # NoCall
  BY DEF NoCall
<1> QED BY <1>6, <1>7 DEF OpenedInv, At

\* A search that returns NULL, and one that returns a file.
LEMMA SearchFails ==
  ASSUME UNCHANGED <<mainVars, disk>>, call' = NoCall, reply' = Null,
         Trusted' => path \notin DOMAIN Vol.entries \/ fault' # {}
  PROVE  OpenInv' /\ OpenedInv'
BY DEF OpenInv, OpenedInv, NoCall, Null, mainVars, Vol

LEMMA SearchSucceeds ==
  ASSUME UNCHANGED <<mainVars, disk>>, call' = NoCall,
         NEW file, reply' = [ok |-> TRUE, file |-> file],
         path \in DOMAIN Vol.entries, Describes(file, Wanted)
  PROVE  OpenInv' /\ OpenedInv'
<1>1. Vol' = Vol /\ path' = path
  BY DEF mainVars, Vol
<1>2. Wanted' = Wanted
  BY <1>1 DEF Wanted
<1>3. OpenedInv'
  BY <1>1, <1>2 DEF OpenedInv, Describes
<1> QED BY <1>3 DEF OpenInv, NoCall

\* Where the search is, as long as that can be said.
LEMMA SearchAt ==
  ASSUME SearchStep, Trusted
  PROVE  /\ Placed /\ path \in caller.paths /\ IsSequence(path) /\ path # <<>>
         /\ call.pc \in {"read", "scan", "next"}
         /\ \E n \in Nat, k \in Nat :
              Inside(n, k) /\ Searching(n, k) /\ IsCluster(disk, Part, call.cluster)
<1>1. path \in caller.paths /\ path # <<>> /\ caller \in Callers
  BY DEF SearchStep, LoopInv
<1>2. IsSequence(path)
  BY <1>1, CallersAssumption
<1>3. Mounted /\ Good
  BY DEF SearchStep, Mounted, Trusted, Good
<1>4. Placed
  BY <1>3, PartIs DEF SearchStep, MountInv, Placed
<1>a. PICK n \in 0 .. Len(path) - 1 :
        \E k \in 1 .. Len(Vol.entries[Prefix(n)].clusters) : Searching(n, k)
  BY DEF SearchStep, OpenInv
<1>5. PICK k \in 1 .. Len(Vol.entries[Prefix(n)].clusters) : Searching(n, k)
  BY <1>a
<1>6. n \in Nat /\ n < Len(path)
  BY <1>2, <1>a DEF IsSequence
<1>7. Inside(n, k)
  BY <1>2, <1>4, <1>5, <1>6 DEF Inside, Searching
<1>8. IsCluster(disk, Part, call.cluster) /\ k \in Nat
  BY <1>5, <1>7, FileIs DEF Inside, Searching
<1>9. call.pc \in {"read", "scan", "next"}
  BY DEF SearchStep, OpenInv
<1> QED BY <1>1, <1>2, <1>4, <1>5, <1>6, <1>7, <1>8, <1>9

\* The steps, one by one.
LEMMA ReadDirectoryFinds ==
  ASSUME SearchStep, HeapInv, ReadDirectory
  PROVE  SearchIsRight
<1>1. UNCHANGED <<mainVars, disk, fs, flaky, fault>> /\ lbas' = ClusterLbas(call.cluster)
  BY DEF SearchStep, ReadDirectory
<1>2. Trusted' => Trusted
  BY <1>1, StillGood
<1>3. CASE Trusted
  <2>1. PICK n \in Nat, k \in Nat :
          Inside(n, k) /\ Searching(n, k) /\ IsCluster(disk, Part, call.cluster)
    BY <1>3, SearchAt
  <2>2. call.pc = "read" /\ DOMAIN call = OpenFields
    <3>1. call # NoCall
      BY DEF SearchStep, NoCall
    <3> QED BY <3>1, CallIs DEF SearchStep, ReadDirectory, Opening
  <2>3. call' = [call EXCEPT !.pc = "scan", !.buffer = Loaded(call.cluster, {})]
    BY DEF ReadDirectory
  <2>4. /\ call'.op = "open" /\ call'.pc = "scan" /\ call'.path = call.path
        /\ call'.cluster = call.cluster /\ call'.buffer = Loaded(call.cluster, {})
    BY <2>2, <2>3 DEF SearchStep, OpenFields
  <2>5. ClusterLbas(call.cluster) \subseteq Within(Part)
        /\ Loaded(call.cluster, {})
             = [i \in 1 .. ClusterCells |-> CellOf(disk, Part, call.cluster, i)]
    BY <2>1, ClusterReads DEF Inside
  <2>6. Passed(Prefix(n), Prefix(n + 1), k)
        /\ call.cluster = Vol.entries[Prefix(n)].clusters[k]
        /\ call.path = SubSeq(path, n + 1, Len(path))
    BY <2>1, <2>2 DEF Searching
  <2>7. Loaded(call.cluster, {})
          = [i \in 1 .. ClusterCells |-> DirCell(disk, Part, Prefix(n), k, i)]
    BY <2>5, <2>6 DEF DirCell, Vol, Part
  <2>8. OpenInv' /\ OpenedInv'
    BY <1>1, <2>1, <2>4, <2>6, <2>7, SearchGoesOn
  <2> QED BY <1>1, <2>5, <2>8 DEF SearchIsRight
<1> QED BY <1>1, <1>2, <1>3, SearchLost DEF SearchIsRight

LEMMA ReadDirectoryFailsFinds ==
  ASSUME SearchStep, ReadDirectoryFails
  PROVE  SearchIsRight
<1>1. /\ UNCHANGED <<mainVars, disk, fs, flaky>> /\ call' = NoCall /\ reply' = Null
      /\ fault' = fault \cup {"read"} /\ MayFail(ClusterLbas(call.cluster))
  BY DEF SearchStep, ReadDirectoryFails, Return
<1>2. OpenInv' /\ OpenedInv'
  BY <1>1, SearchFails
<1>3. Trusted => flaky
  <2> SUFFICES ASSUME Trusted PROVE flaky
    OBVIOUS
  <2>1. Placed /\ IsCluster(disk, Part, call.cluster)
    BY SearchAt
  <2> QED BY <1>1, <2>1, ClusterReads DEF MayFail
<1> QED BY <1>1, <1>2, <1>3 DEF SearchIsRight

\* A component that is not in its directory: there is no such path.
LEMMA NoSuchPath ==
  ASSUME NEW n, NEW k, Inside(n, k), Prefix(n + 1) \notin DOMAIN Vol.entries
  PROVE  path \notin DOMAIN Vol.entries
<1>1. n + 1 \in 0 .. Len(path)
  BY DEF Inside, IsSequence
<1> QED BY <1>1, PrefixClosed DEF Inside

\* The entry set of a component was found: it is returned, descended into, or the
\* path ends here.
LEMMA FoundFinds ==
  ASSUME SearchStep, HeapInv, Trusted, NEW n \in Nat, NEW k, Scanning(n, k),
         NEW file, Found(file), Prefix(n + 1) \in DOMAIN Vol.entries,
         file.directory = Vol.entries[Prefix(n + 1)].directory,
         Describes(file, Vol.entries[Prefix(n + 1)])
  PROVE  OpenInv' /\ OpenedInv'
<1>1. UNCHANGED <<mainVars, disk, fs, flaky>>
  BY DEF SearchStep
<1>2. /\ Placed /\ IsSequence(path) /\ n < Len(path) /\ Len(path) \in Nat
      /\ Len(call.path) = Len(path) - n /\ Tail(call.path) = SubSeq(path, n + 2, Len(path))
  <2>1. Placed /\ IsSequence(path) /\ n < Len(path)
    BY DEF Scanning, Inside
  <2>2. Len(path) \in Nat
    BY <2>1 DEF IsSequence
  <2> QED BY <2>1, <2>2, ScanSees
<1>3. CASE Len(call.path) = 1 /\ Return([ok |-> TRUE, file |-> file])
  <2>1. n + 1 = Len(path)
    BY <1>2, <1>3
  <2>2. Prefix(n + 1) = path
    BY <1>2, <2>1, WholePrefix DEF Prefix
  <2> QED BY <1>1, <1>3, <2>2, SearchSucceeds DEF Return, Wanted
<1>4. CASE Len(call.path) > 1 /\ ~file.directory /\ NotFound
  <2>1. n + 1 \in 0 .. Len(path) /\ n + 1 < Len(path)
    BY <1>2, <1>4
  <2>2. path \notin DOMAIN Vol.entries
    BY <1>2, <1>4, <2>1, PrefixClosed
  <2> QED BY <1>1, <1>4, <2>2, SearchFails DEF NotFound, Return
<1>5. CASE /\ Len(call.path) > 1 /\ file.directory
           /\ call' = [call EXCEPT !.pc = "read", !.path = Tail(@), !.cluster = file.first]
  <2>1. n + 1 \in Nat /\ n + 1 < Len(path) /\ (n + 1) + 1 = n + 2
    BY <1>2, <1>5
  <2>2. /\ Vol.entries[Prefix(n + 1)].clusters[1] = file.first
        /\ 1 \in 1 .. Len(Vol.entries[Prefix(n + 1)].clusters)
    <3>1. Len(Vol.entries[Prefix(n + 1)].clusters) \in Nat \ {0}
          /\ Vol.entries[Prefix(n + 1)].clusters[1] = Vol.entries[Prefix(n + 1)].first
      BY <1>2, <1>5, DirectoryIs
    <3> QED BY <3>1 DEF Describes
  <2>3. Inside(n + 1, 1)
    BY <1>2, <1>5, <2>1, <2>2 DEF Inside
  <2>4. DOMAIN call = OpenFields /\ call.op = "open"
    <3>1. call # NoCall
      BY DEF SearchStep, NoCall
    <3> QED BY <3>1, CallIs DEF SearchStep
  <2>5. /\ call'.op = "open" /\ call'.pc = "read" /\ call'.cluster = file.first
        /\ call'.path = SubSeq(path, (n + 1) + 1, Len(path))
    BY <1>2, <1>5, <2>1, <2>4 DEF OpenFields
  <2>6. Passed(Prefix(n + 1), Prefix((n + 1) + 1), 1)
    BY DEF Passed
  <2> QED BY <1>1, <2>1, <2>2, <2>3, <2>5, <2>6, SearchGoesOn
<1> QED BY <1>3, <1>4, <1>5 DEF Found

LEMMA ScanDirectoryFinds ==
  ASSUME SearchStep, HeapInv, ScanDirectory
  PROVE  SearchIsRight
<1>1. UNCHANGED <<mainVars, disk, fs, flaky, fault, lbas>> /\ call.pc = "scan"
  BY DEF SearchStep, ScanDirectory, Opening
<1>2. Trusted' => Trusted
  BY <1>1, StillGood
<1>3. CASE Trusted
  <2> SUFFICES OpenInv' /\ OpenedInv'
    BY <1>1 DEF SearchIsRight
  <2>1. PICK n \in Nat, k \in Nat :
          Inside(n, k) /\ Searching(n, k) /\ IsCluster(disk, Part, call.cluster)
    BY <1>3, SearchAt
  <2>2. Scanning(n, k)
    BY <1>1, <2>1 DEF Scanning
  <2>3. PICK past \in [1 .. MaxSecondary -> Junk] :
          \/ /\ Stops(past) = {}
             /\ call' = [call EXCEPT !.pc = "next"]
          \/ /\ Stops(past) # {} /\ IsEnd(call.buffer[Min(Stops(past))])
             /\ NotFound
          \/ /\ Stops(past) # {} /\ call.buffer[Min(Stops(past))].t = "file"
             /\ Found(FileAt(Min(Stops(past)), past))
    BY DEF ScanDirectory
  <2>4. CASE Stops(past) = {} /\ call' = [call EXCEPT !.pc = "next"]
    <3>1. Passed(Prefix(n), Prefix(n + 1), k + 1)
      BY <2>2, <2>4, ScanPasses
    <3>2. DOMAIN call = OpenFields /\ call.op = "open"
      <4>1. call # NoCall
        BY DEF SearchStep, NoCall
      <4> QED BY <4>1, CallIs DEF SearchStep
    <3>3. /\ call'.op = "open" /\ call'.pc = "next" /\ call'.path = call.path
          /\ call'.cluster = call.cluster
      BY <2>4, <3>2 DEF OpenFields
    <3>4. call.cluster = Vol.entries[Prefix(n)].clusters[k]
          /\ call.path = SubSeq(path, n + 1, Len(path))
      BY <2>1 DEF Searching
    <3> QED BY <1>1, <2>1, <3>1, <3>3, <3>4, SearchGoesOn
  <2>5. CASE Stops(past) # {} /\ IsEnd(call.buffer[Min(Stops(past))]) /\ NotFound
    <3>1. path \notin DOMAIN Vol.entries
      BY <2>1, <2>2, <2>5, ScanEnds, NoSuchPath
    <3> QED BY <1>1, <2>5, <3>1, SearchFails DEF NotFound, Return
  <2>6. CASE /\ Stops(past) # {} /\ call.buffer[Min(Stops(past))].t = "file"
             /\ Found(FileAt(Min(Stops(past)), past))
    <3> DEFINE file == FileAt(Min(Stops(past)), past)
    <3>1. /\ Prefix(n + 1) \in DOMAIN Vol.entries
          /\ file.directory = Vol.entries[Prefix(n + 1)].directory
          /\ Describes(file, Vol.entries[Prefix(n + 1)]) /\ Found(file)
      BY <2>2, <2>6, ScanFinds
    <3> HIDE DEF file
    <3> QED BY <1>3, <2>2, <3>1, FoundFinds
  <2> QED BY <2>3, <2>4, <2>5, <2>6
<1> QED BY <1>1, <1>2, <1>3, SearchLost DEF SearchIsRight

\* What has been passed contains what was passed before.
LEMMA PassedBefore ==
  ASSUME NEW dir, NEW q, NEW m \in Nat, NEW k \in Nat, m <= k, Passed(dir, q, k)
  PROVE  Passed(dir, q, m)
<1>1. 1 .. m - 1 \subseteq 1 .. k - 1
  OBVIOUS
<1> QED BY <1>1 DEF Passed

LEMMA NextDirectoryClusterFinds ==
  ASSUME SearchStep, HeapInv, NextDirectoryCluster
  PROVE  SearchIsRight
<1>1. UNCHANGED <<mainVars, disk, fs, flaky>> /\ call.pc = "next"
  BY DEF SearchStep, NextDirectoryCluster, Opening
<1>2. PICK next \in FatResults :
        /\ GetFatEntry(next)
        /\ IF next >= EndMark THEN NotFound
           ELSE call' = [call EXCEPT !.pc = "read", !.cluster = next]
  BY DEF NextDirectoryCluster
<1>3. fault \subseteq fault' /\ (fault' = fault \/ "fat" \in fault')
  BY <1>2 DEF GetFatEntry
<1>4. Trusted' => Trusted /\ "fat" \notin fault'
  BY <1>1, <1>3, StillGood DEF Trusted
<1>5. CASE Trusted
  <2>1. PICK n \in Nat, k \in Nat :
          Inside(n, k) /\ Searching(n, k) /\ IsCluster(disk, Part, call.cluster)
    BY <1>5, SearchAt
  <2> DEFINE f == Vol.entries[Prefix(n)]
  <2>2. Passed(Prefix(n), Prefix(n + 1), k + 1) /\ call.cluster = f.clusters[k]
        /\ call.path = SubSeq(path, n + 1, Len(path)) /\ Placed
    BY <1>1, <2>1 DEF Searching, Inside
  <2>3. /\ Len(f.clusters) \in Nat \ {0} /\ k \in 1 .. Len(f.clusters)
        /\ \A j \in 1 .. Len(f.clusters) : IsCluster(disk, Part, f.clusters[j])
        /\ k < Len(f.clusters) =>
             f.clusters[k + 1] = FatCell(disk, Part, call.cluster).next
        /\ \/ FatCell(disk, Part, f.clusters[Len(f.clusters)]).next >= EndMark
           \/ \E j \in 1 .. Len(f.clusters) :
                FatCell(disk, Part, f.clusters[Len(f.clusters)]).next = f.clusters[j]
    <3>1. /\ Prefix(n) \in DOMAIN Vol.entries /\ f.directory
          /\ k \in 1 .. Len(f.clusters)
      BY <2>1 DEF Inside
    <3>2. \A j \in 1 .. Len(f.clusters) : IsCluster(disk, Part, f.clusters[j])
      BY <2>2, <3>1, FileIs
    <3>3. /\ Len(f.clusters) \in Nat \ {0}
          /\ \A j \in 1 .. Len(f.clusters) - 1 :
               f.clusters[j + 1] = FatCell(disk, Part, f.clusters[j]).next
          /\ \/ AfterLast(disk, Part, f) >= EndMark
             \/ \E j \in 1 .. Len(f.clusters) : AfterLast(disk, Part, f) = f.clusters[j]
      BY <2>2, <3>1, DirectoryIs
    <3> HIDE DEF f
    <3>4. k < Len(f.clusters) => k \in 1 .. Len(f.clusters) - 1
      BY <3>1, <3>3
    <3> QED BY <2>2, <3>1, <3>2, <3>3, <3>4 DEF AfterLast
  <2> HIDE DEF f
  <2>4. \A j \in 1 .. Len(f.clusters) : f.clusters[j] \in Nat /\ f.clusters[j] < EndMark
    BY <2>2, <2>3, ClusterAddress
  <2>5. ASSUME "fat" \notin fault' PROVE OpenInv' /\ OpenedInv'
    <3>1. next = FatCell(disk, Part, call.cluster).next /\ next \in Nat
      BY <1>2, <2>1, <2>2, <2>5, FatTrusted
    <3>2. EndMark \in Nat
      BY VolumeAssumption
    <3>3. CASE next >= EndMark
      <4>1. k = Len(f.clusters)
        <5>1. ASSUME k < Len(f.clusters) PROVE FALSE
          <6>1. k + 1 \in 1 .. Len(f.clusters) /\ f.clusters[k + 1] = next
            BY <2>3, <3>1, <5>1
          <6>2. next < EndMark
            BY <2>4, <6>1
          <6> QED BY <3>1, <3>2, <3>3, <6>2
        <5> QED BY <2>3, <5>1
      <4>2. Prefix(n + 1) \notin DOMAIN Vol.entries
        BY <2>1, <2>2, <4>1, AbsentAfterAll DEF f
      <4>3. path \notin DOMAIN Vol.entries
        BY <2>1, <4>2, NoSuchPath
      <4>4. call' = NoCall /\ reply' = Null
        BY <1>2, <3>3 DEF NotFound, Return
      <4> QED BY <1>1, <4>3, <4>4, SearchFails
    <3>4. CASE ~(next >= EndMark)
      <4>1. \E j \in 1 .. Len(f.clusters) : j <= k + 1 /\ next = f.clusters[j]
        <5>1. CASE k < Len(f.clusters)
          <6>1. k + 1 \in 1 .. Len(f.clusters) /\ k + 1 <= k + 1
            BY <2>3, <5>1
          <6> QED BY <2>3, <3>1, <5>1, <6>1
        <5>2. CASE k = Len(f.clusters)
          <6>1. PICK j \in 1 .. Len(f.clusters) : next = f.clusters[j]
            BY <2>2, <2>3, <3>1, <3>4, <5>2
          <6>2. j <= k + 1
            BY <2>3, <5>2
          <6> QED BY <6>1, <6>2
        <5> QED BY <2>3, <5>1, <5>2
      <4>2. PICK j \in 1 .. Len(f.clusters) : j <= k + 1 /\ next = f.clusters[j]
        BY <4>1
      <4>3. j \in Nat /\ k + 1 \in Nat
        BY <2>3
      <4>4. Passed(Prefix(n), Prefix(n + 1), j)
        BY <2>2, <4>2, <4>3, PassedBefore
      <4>5. DOMAIN call = OpenFields /\ call.op = "open"
        <5>1. call # NoCall
          BY DEF SearchStep, NoCall
        <5> QED BY <5>1, CallIs DEF SearchStep
      <4>6. call' = [call EXCEPT !.pc = "read", !.cluster = next]
        BY <1>2, <3>4
      <4>7. /\ call'.op = "open" /\ call'.pc = "read" /\ call'.path = call.path
            /\ call'.cluster = next
        BY <4>5, <4>6 DEF OpenFields
      <4>8. Inside(n, j)
        BY <2>1 DEF Inside, f
      <4> QED BY <1>1, <2>2, <4>2, <4>4, <4>7, <4>8, SearchGoesOn DEF f
    <3> QED BY <3>3, <3>4
  <2>6. OpenInv' /\ OpenedInv'
    BY <1>4, <2>5, SearchLost
  <2>7. "fat" \notin fault' => lbas' \subseteq Within(Part)
    BY <1>2, <2>1, <2>2, FatTrusted
  <2>8. ~flaky => fault' = fault
    BY <1>2, <2>1, <2>2, FatReads DEF GetFatEntry, MayFail
  <2> QED BY <2>6, <2>7, <2>8 DEF SearchIsRight
<1> QED BY <1>4, <1>5, SearchLost DEF SearchIsRight

-----------------------------------------------------------------------------
(* Data that is read                                                       *)

\* Elements of Seq are sequences.
LEMMA SeqIs ==
  ASSUME NEW S, NEW s \in Seq(S)
  PROVE  IsSequence(s)
<1> DEFINE T == Range(s)
<1>1. \A i \in 1 .. Len(s) : s[i] \in T
  BY DEF Range
<1> HIDE DEF T
<1>2. s \in Seq(T)
  BY <1>1
<1> QED BY <1>2 DEF T, IsSequence

\* The lesser of two numbers.
LEMMA SmallerIs ==
  ASSUME NEW a \in Nat, NEW b \in Nat
  PROVE  Min({a, b}) = IF a <= b THEN a ELSE b
<1> DEFINE T == {a, b}
<1>1. T \subseteq Nat /\ T # {}
  OBVIOUS
<1> HIDE DEF T
<1>2. Min(T) \in T /\ \A y \in T : Min(T) <= y
  BY <1>1, MinIs
<1> QED BY <1>2 DEF T

\* A cluster is copied behind what has been read, up to the length of the file.
LEMMA CopyIs ==
  ASSUME IsSequence(call.data), NEW length \in Nat, call.file.length = length,
         Len(call.data) <= length,
         NEW buffer, buffer = [i \in 1 .. ClusterCells |-> buffer[i]]
  PROVE  LET m == Len(call.data)
             n == IF ClusterCells <= length - m THEN m + ClusterCells ELSE length
         IN /\ IsSequence(Copy(buffer)) /\ Len(Copy(buffer)) = n /\ m \in Nat
            /\ \A j \in 1 .. n :
                 Copy(buffer)[j] = IF j <= m THEN call.data[j] ELSE buffer[j - m]
<1> DEFINE S == Range(call.data) \cup Range(buffer)
           data == call.data
           m == Len(data)
           more == IF ClusterCells <= length - m THEN ClusterCells ELSE length - m
           piece == SubSeq(buffer, 1, more)
<1>1. data \in Seq(S)
  <2> DEFINE R == Range(data)
  <2>1. data \in Seq(R) /\ R \subseteq S
    BY DEF IsSequence
  <2> HIDE DEF R, S, data
  <2> QED BY <2>1
<1>2. m \in Nat /\ ClusterCells \in Nat /\ length - m \in Nat
  <2>1. m \in Nat
    BY <1>1
  <2> QED BY <2>1, ClusterCellsIs
<1>3. buffer \in Seq(S) /\ Len(buffer) = ClusterCells
  <2>1. \A i \in 1 .. ClusterCells : buffer[i] \in S
    BY DEF Range
  <2> HIDE DEF S
  <2> QED BY <1>2, <2>1
<1>4. Min({Len(buffer), call.file.length - Len(call.data)}) = more
  BY <1>2, <1>3, SmallerIs
<1>5. Copy(buffer) = data \o piece
  BY <1>4 DEF Copy
<1>6. more \in Nat /\ more <= ClusterCells
  BY <1>2
<1> HIDE DEF S, more, data
<1>7. piece \in Seq(S) /\ Len(piece) = more /\ \A j \in 1 .. more : piece[j] = buffer[j]
  BY <1>2, <1>3, <1>6
<1> HIDE DEF piece
<1>8. /\ data \o piece \in Seq(S) /\ Len(data \o piece) = m + more
      /\ \A j \in 1 .. m + more :
           (data \o piece)[j] = IF j <= m THEN data[j] ELSE piece[j - m]
  BY <1>1, <1>7
<1>9. \A j \in 1 .. m + more : ~(j <= m) => j - m \in 1 .. more
  BY <1>2, <1>6
<1>10. /\ IsSequence(Copy(buffer)) /\ Len(Copy(buffer)) = m + more
       /\ \A j \in 1 .. m + more :
            Copy(buffer)[j] = IF j <= m THEN data[j] ELSE buffer[j - m]
  BY <1>5, <1>7, <1>8, <1>9, SeqIs
<1>11. m + more = IF ClusterCells <= length - m THEN m + ClusterCells ELSE length
  BY <1>2 DEF more
<1> QED BY <1>2, <1>10, <1>11 DEF data

\* The cells of the k-th group of n begin behind (k - 1) * n.
LEMMA GroupIs ==
  ASSUME NEW n \in Nat \ {0}, NEW k \in Nat \ {0}, NEW j \in Nat,
         (k - 1) * n < j, j <= (k - 1) * n + n
  PROVE  ((j - 1) \div n) + 1 = k /\ ((j - 1) % n) + 1 = j - (k - 1) * n
<1> DEFINE a == k - 1
           q == (j - 1) \div n
           x == a * n
           y == q * n
<1>1. a \in Nat /\ j - 1 \in Nat /\ q \in Nat /\ x \in Nat /\ y \in Nat
      /\ y <= j - 1 /\ j - 1 < y + n
  <2>1. j - 1 \in Nat /\ a \in Nat
    <3>1. x \in Nat
      OBVIOUS
    <3> HIDE DEF x
    <3> QED BY <3>1
  <2> QED BY <2>1, DivBracket
<1>2. j - 1 = y + ((j - 1) % n)
  BY <1>1
<1> HIDE DEF a, q
<1>3. ASSUME a < q PROVE FALSE
  <2>1. (a + 1) * n <= q * n /\ (a + 1) * n = x + n
    BY <1>1, <1>3, MulMono
  <2> HIDE DEF x, y
  <2> QED BY <1>1, <2>1 DEF a, x, y
<1>4. ASSUME q < a PROVE FALSE
  <2>1. (q + 1) * n <= a * n /\ (q + 1) * n = y + n
    BY <1>1, <1>4, MulMono
  <2> HIDE DEF x, y
  <2> QED BY <1>1, <2>1 DEF a, x, y
<1>5. q = a
  BY <1>1, <1>3, <1>4
<1>6. q + 1 = k
  BY <1>5 DEF a
<1>7. ((j - 1) % n) + 1 = j - x
  <2>1. x = y
    BY <1>5
  <2> DEFINE r == (j - 1) % n
  <2>2. r \in Int
    OBVIOUS
  <2>3. j - 1 = x + r
    BY <1>2, <2>1
  <2> HIDE DEF x, y, r
  <2> QED BY <1>1, <2>2, <2>3 DEF r
<1> QED BY <1>6, <1>7 DEF q, a

-----------------------------------------------------------------------------
(* The steps of EXFAT_read_file and EXFAT_read_file_ALL                    *)

\* A step of a call that reads.
ReadStep ==
  /\ LoopInv /\ MountInv /\ ReadInv /\ HeapInv
  /\ pc = "read" /\ call.op \in {"read_all", "read_file"}
  /\ UNCHANGED <<mainVars, disk, flaky, fs>>

\* What it keeps.
ReadIsRight ==
  /\ ReadInv' /\ ReadDone' /\ ReadExact'
  /\ Trusted /\ fault' = {} =>
       \/ lbas' = lbas \/ lbas' \subseteq Within(Part)
       \/ Chain = "short" /\ call.op = "read_file"
  /\ Trusted /\ ~flaky /\ Chain = "whole" => fault' = fault

\* Once a read of the FAT has failed nothing is said.
LEMMA ReadLost ==
  ASSUME ~Trusted'
  PROVE  ReadInv' /\ ReadDone' /\ ReadExact'
BY DEF ReadInv, ReadDone, ReadExact, Trusted, Good, Mounted, At

\* The call and the file, as long as something is said.
LEMMA ReadFieldsAre ==
  ASSUME ReadStep
  PROVE  call # NoCall /\ DOMAIN call = ReadFields
<1>1. call # NoCall /\ call.op # "open"
  BY DEF ReadStep, NoCall
<1> QED BY <1>1, CallIs DEF ReadStep

\* What the volume says of the file that is read.
LEMMA WantedIs ==
  ASSUME Placed, path \in DOMAIN Vol.entries
  PROVE  /\ IsFile(disk, Part, Wanted) /\ Wanted.length \in Nat
         /\ Len(Wanted.clusters) \in Nat
         /\ \A k \in 1 .. Len(Wanted.clusters) : IsCluster(disk, Part, Wanted.clusters[k])
         /\ Wanted.clusters # <<>> =>
              Len(Wanted.clusters) # 0 /\ Wanted.clusters[1] = Wanted.first
         /\ Chain = Wanted.chain
BY FileIs DEF Wanted, Chain

LEMMA ReadAt ==
  ASSUME ReadStep, Trusted
  PROVE  /\ Placed /\ path \in DOMAIN Vol.entries /\ Describes(call.file, Wanted)
         /\ call.pc \in {"load", "next"}
         /\ IsSequence(call.data) /\ Len(call.data) \in Nat
         /\ Len(call.data) <= Wanted.length /\ call.file.length = Wanted.length
         /\ Complete => Len(call.data) = Wanted.length
<1>1. Mounted /\ Good
  BY DEF ReadStep, Mounted, Trusted, Good
<1>2. Placed
  BY <1>1, PartIs DEF ReadStep, MountInv, Placed
<1>3. /\ path \in DOMAIN Vol.entries /\ Describes(call.file, Wanted)
      /\ call.pc \in {"load", "next"}
      /\ IsSequence(call.data) /\ Len(call.data) <= Wanted.length
  BY ReadFieldsAre DEF ReadInv, ReadStep
<1>4. Len(call.data) \in Nat /\ Wanted.length \in Nat
  BY <1>2, <1>3, WantedIs DEF IsSequence
<1>5. call.file.length = Wanted.length
  BY <1>3 DEF Describes
<1> QED BY <1>2, <1>3, <1>4, <1>5 DEF Complete

\* Where a read is: which cluster, how much of the file.
Position(cluster, data, at, k) ==
  /\ k \in 1 .. Len(Wanted.clusters) /\ cluster = Wanted.clusters[k]
  /\ Chain # "cyclic" =>
       Len(data) = (IF at = "load" THEN k - 1 ELSE k) * ClusterCells

\* Whether the read stays with the clusters of the file.
Followed(op) == op = "read_all" \/ Chain # "short"

DataRight(data) == \A j \in 1 .. Len(data) : data[j] = Wanted.data[j]

\* What the invariant says of a read in these terms.
LEMMA ReadPosition ==
  ASSUME ReadStep, Trusted
  PROVE  /\ Chain = "whole" /\ (fault = {} \/ call.op = "read_all") => DataRight(call.data)
         /\ call.op = "read_all" /\ Chain = "short" => ~Complete
         /\ ~Complete /\ Followed(call.op) =>
              \E k \in Nat : Position(call.cluster, call.data, call.pc, k)
<1>1. call # NoCall
  BY ReadFieldsAre
<1>2. Chain = "whole" /\ (fault = {} \/ call.op = "read_all") => DataRight(call.data)
  BY <1>1 DEF ReadStep, ReadInv, DataRight
<1>3. call.op = "read_all" /\ Chain = "short" => ~Complete
  BY <1>1 DEF ReadStep, ReadInv
<1>4. ASSUME ~Complete, Followed(call.op)
      PROVE  \E k \in Nat : Position(call.cluster, call.data, call.pc, k)
  <2>1. PICK k \in 1 .. Len(Wanted.clusters) : ReadingAt(k)
    BY <1>1, <1>4 DEF ReadStep, ReadInv, Followed
  <2>2. k \in Nat
    BY <2>1, ReadAt, WantedIs
  <2> QED BY <2>1, <2>2 DEF ReadingAt, Position
<1> QED BY <1>2, <1>3, <1>4

\* A read that goes on.
LEMMA ReadContinues ==
  ASSUME ReadStep, Trusted, call'.op = call.op, call'.file = call.file,
         call'.pc \in {"load", "next"},
         IsSequence(call'.data), Len(call'.data) <= Wanted.length,
         Chain = "whole" /\ (fault' = {} \/ call.op = "read_all") => DataRight(call'.data),
         call.op = "read_all" /\ Chain = "short" => Len(call'.data) < Wanted.length,
         Len(call'.data) < Wanted.length /\ Followed(call.op) =>
           \E k \in Nat : Position(call'.cluster, call'.data, call'.pc, k)
  PROVE  ReadInv' /\ ReadDone' /\ ReadExact'
<1>1. path' = path /\ Vol' = Vol /\ pc' = "read"
  BY DEF ReadStep, mainVars, Vol
<1>2. Wanted' = Wanted /\ Chain' = Chain
  BY <1>1 DEF Wanted, Chain
<1>3. call' # NoCall
  BY DEF NoCall, ReadStep
<1>4. Complete' <=> Len(call'.data) >= Wanted.length
  BY ReadAt DEF Complete
<1>5. Len(call'.data) \in Nat /\ Wanted.length \in Nat
  BY ReadAt, WantedIs DEF IsSequence
<1>6. Complete' <=> ~(Len(call'.data) < Wanted.length)
  BY <1>4, <1>5
<1>7. Describes(call.file, Wanted) /\ path \in DOMAIN Vol.entries
  BY ReadAt
<1>8. Describes(call.file, Wanted)'
  BY <1>2, <1>7 DEF Describes
<1>9. ASSUME NEW k, Position(call'.cluster, call'.data, call'.pc, k)
      PROVE  k \in 1 .. Len(Wanted'.clusters) /\ ReadingAt(k)'
  BY <1>2, <1>9 DEF Position, ReadingAt
<1>10. ReadInv'
  BY <1>1, <1>2, <1>6, <1>7, <1>8, <1>9 DEF ReadInv, DataRight, Followed
<1> QED BY <1>3, <1>10 DEF ReadDone, ReadExact, At

\* A read that returns NULL without setting the size.
LEMMA ReadGivesNull ==
  ASSUME ReadStep, Trusted, call' = NoCall, reply' = Null,
         fault' # {} \/ Chain # "whole"
  PROVE  ReadInv' /\ ReadDone' /\ ReadExact'
<1>1. path' = path /\ Vol' = Vol /\ pc' = "read"
  BY DEF ReadStep, mainVars, Vol
<1>2. Wanted' = Wanted /\ Chain' = Chain
  BY <1>1 DEF Wanted, Chain
<1>3. path \in DOMAIN Vol.entries
  BY ReadAt
<1>4. ReadDone'
  BY <1>1, <1>2, <1>3 DEF ReadDone
<1>5. ReadExact'
  <2>1. ~reply'.ok
    BY DEF Null
  <2> QED BY <1>2, <2>1 DEF ReadExact
<1> QED BY <1>4, <1>5 DEF ReadInv, NoCall

\* A read that returns the data.
LEMMA FinishReads ==
  ASSUME ReadStep, Finish
  PROVE  ReadIsRight
<1>1. /\ UNCHANGED <<mainVars, disk, flaky, fs, fault, lbas>> /\ call' = NoCall
      /\ reply' = [ok |-> call.file.length # 0, sized |-> TRUE, data |-> call.data]
      /\ Complete
  BY DEF ReadStep, Finish, Return
<1>2. Trusted' => Trusted
  BY <1>1, StillGood
<1>3. CASE Trusted
  <2>1. path' = path /\ Vol' = Vol /\ pc' = "read" /\ caller' = caller
    BY <1>1 DEF ReadStep, mainVars, Vol
  <2>2. Wanted' = Wanted /\ Chain' = Chain
    BY <2>1 DEF Wanted, Chain
  <2>3. /\ Placed /\ path \in DOMAIN Vol.entries /\ IsSequence(call.data)
        /\ Len(call.data) = Wanted.length /\ call.file.length = Wanted.length
    BY <1>1, <1>3, ReadAt
  <2>4. ASSUME Chain = "whole", fault = {} \/ call.op = "read_all"
        PROVE  call.data = Wanted.data
    <3> DEFINE data == call.data  wanted == Wanted.data
    <3>1. DataRight(data)
      BY <1>3, <2>4, ReadPosition
    <3>2. wanted = [j \in 1 .. Wanted.length |-> wanted[j]]
      <4>1. \/ Wanted.chain # "whole"
            \/ Wanted.data = [j \in 1 .. Wanted.length |->
                 CellOf(disk, Part, Wanted.clusters[((j - 1) \div ClusterCells) + 1],
                        ((j - 1) % ClusterCells) + 1)]
        BY <2>3, WantedIs DEF IsFile
      <4> QED BY <2>3, <2>4, <4>1, WantedIs
    <3>3. data \in Seq(Range(data))
      BY <2>3 DEF IsSequence
    <3>4. data = [j \in 1 .. Len(data) |-> data[j]]
      <4> DEFINE S == Range(data)
      <4>1. data \in Seq(S)
        BY <3>3
      <4> HIDE DEF S, data
      <4> QED BY <4>1
    <3>5. Len(data) = Wanted.length /\ \A j \in 1 .. Wanted.length : data[j] = wanted[j]
      BY <2>3, <3>1 DEF DataRight
    <3> HIDE DEF data, wanted
    <3>6. data = wanted
      BY <3>2, <3>4, <3>5
    <3> QED BY <3>6 DEF data, wanted
  <2>5. ReadDone'
    BY <1>1, <2>1, <2>2, <2>3, <2>4 DEF ReadDone
  <2>6. caller.reads = {"read_all"} => call.op = "read_all"
    BY ReadFieldsAre DEF ReadStep, LoopInv
  <2>7. ~(call.op = "read_all" /\ Chain = "short")
    BY <1>1, <1>3, ReadPosition
  <2>8. reply'.ok = (Wanted.length # 0) /\ reply'.data = call.data
    BY <1>1, <2>3
  <2>9. ReadExact'
    BY <1>1, <2>1, <2>2, <2>4, <2>6, <2>7, <2>8 DEF ReadExact, Wanted
  <2> QED BY <1>1, <2>5, <2>9 DEF ReadIsRight, ReadInv, NoCall
<1> QED BY <1>1, <1>2, <1>3, ReadLost DEF ReadIsRight

\* Multiples.
LEMMA NextMultiple ==
  ASSUME NEW k \in Nat \ {0}, NEW n \in Nat
  PROVE  (k - 1) * n \in Nat /\ (k - 1) * n + n = k * n /\ k * n \in Nat
<1> DEFINE a == k - 1
<1>1. a \in Nat /\ k = a + 1
  OBVIOUS
<1> HIDE DEF a
<1>2. a * n \in Nat /\ a * n + n = (a + 1) * n /\ (a + 1) * n \in Nat
  BY <1>1
<1> QED BY <1>1, <1>2 DEF a

\* What a cluster adds to a read, whatever part of it could not be read.
LEMMA ClusterCopied ==
  ASSUME ReadStep, Trusted, call.pc = "load", ~Complete, NEW failed,
         call' = [call EXCEPT !.pc = "next", !.buffer = Loaded(call.cluster, failed),
                              !.data = Copy(Loaded(call.cluster, failed))],
         failed = {} => fault' = fault,
         failed # {} => call.op = "read_file" /\ fault' # {}
  PROVE  ReadInv' /\ ReadDone' /\ ReadExact'
<1> DEFINE buffer == Loaded(call.cluster, failed)
           length == Wanted.length
           C == ClusterCells
           m == Len(call.data)
           n == IF C <= length - m THEN m + C ELSE length
           L == Len(Wanted.clusters)
<1>1. /\ Placed /\ path \in DOMAIN Vol.entries /\ IsSequence(call.data)
      /\ m \in Nat /\ m <= length /\ call.file.length = length
      /\ length \in Nat /\ L \in Nat /\ C \in Nat \ {0} /\ IsFile(disk, Part, Wanted)
      /\ Chain = Wanted.chain /\ m < length
      /\ \A k \in 1 .. L : IsCluster(disk, Part, Wanted.clusters[k])
  <2>1. /\ Placed /\ path \in DOMAIN Vol.entries /\ IsSequence(call.data)
        /\ m \in Nat /\ m <= length /\ call.file.length = length
    BY ReadAt
  <2>2. length \in Nat /\ L \in Nat /\ IsFile(disk, Part, Wanted)
        /\ Chain = Wanted.chain
        /\ \A k \in 1 .. L : IsCluster(disk, Part, Wanted.clusters[k])
    BY <2>1, WantedIs
  <2>3. m < length
    BY <2>1, <2>2 DEF Complete
  <2> QED BY <2>1, <2>2, <2>3, ClusterCellsIs
<1>2. buffer = [i \in 1 .. C |-> buffer[i]]
  BY DEF Loaded
<1>3. /\ call'.op = call.op /\ call'.file = call.file /\ call'.pc = "next"
      /\ call'.cluster = call.cluster /\ call'.data = Copy(buffer)
  <2>1. DOMAIN call = ReadFields
    BY ReadFieldsAre
  <2> HIDE DEF buffer
  <2> QED BY <2>1 DEF ReadFields, buffer
<1>4. /\ IsSequence(Copy(buffer)) /\ Len(Copy(buffer)) = n
      /\ \A j \in 1 .. n : Copy(buffer)[j] = IF j <= m THEN call.data[j] ELSE buffer[j - m]
  <2> HIDE DEF buffer, length
  <2> QED BY <1>1, <1>2, CopyIs
<1> HIDE DEF length, L, m
<1>5. /\ n \in Nat /\ n <= length /\ n <= m + C /\ (n < length => n = m + C)
      /\ (n = m + C \/ length <= m + C)
  <2> HIDE DEF C
  <2> QED BY <1>1
<1> HIDE DEF n
<1>6. Followed(call.op) =>
        \E k \in Nat : Position(call.cluster, call.data, "load", k)
  BY ReadPosition
<1>7. ASSUME NEW k \in Nat, Position(call.cluster, call.data, "load", k)
      PROVE  /\ k \in Nat \ {0} /\ k \in 1 .. L /\ call.cluster = Wanted.clusters[k]
             /\ (k - 1) * C \in Nat /\ (k - 1) * C + C = k * C /\ k * C \in Nat
             /\ k * C <= L * C /\ L * C \in Nat
             /\ Chain # "cyclic" => m = (k - 1) * C /\ n <= k * C
             /\ n < length => Position(call.cluster, call'.data, "next", k)
  <2>1. k \in Nat \ {0} /\ k \in 1 .. L /\ k <= L /\ call.cluster = Wanted.clusters[k]
        /\ (Chain # "cyclic" => m = (k - 1) * C)
    BY <1>1, <1>7 DEF Position, L, m
  <2>2. (k - 1) * C \in Nat /\ (k - 1) * C + C = k * C /\ k * C \in Nat
    BY <1>1, <2>1, NextMultiple
  <2>3. k * C <= L * C /\ L * C \in Nat
    BY <1>1, <2>1, MulMono
  <2>4. Chain # "cyclic" => m = (k - 1) * C /\ n <= k * C /\ (n < length => n = k * C)
    BY <1>5, <2>1, <2>2
  <2>5. n < length => Position(call.cluster, call'.data, "next", k)
    BY <1>3, <1>4, <2>1, <2>4 DEF Position, L
  <2> QED BY <2>1, <2>2, <2>3, <2>4, <2>5
<1>8. ASSUME call.op = "read_all", Chain = "short" PROVE n < length
  <2>1. PICK k \in Nat : Position(call.cluster, call.data, "load", k)
    BY <1>6, <1>8 DEF Followed
  <2>2. m = (k - 1) * C /\ n <= k * C /\ k * C <= L * C /\ (k - 1) * C + C = k * C
        /\ k * C \in Nat /\ L * C \in Nat
    BY <1>7, <1>8, <2>1
  <2>3. L * C < length
    BY <1>1, <1>8 DEF IsFile, L, length
  <2> DEFINE x == k * C  y == L * C
  <2> HIDE DEF x, y
  <2>4. n <= x /\ x <= y /\ y < length /\ x \in Nat /\ y \in Nat
    BY <2>2, <2>3, <1>1 DEF x, y
  <2> QED BY <1>1, <1>5, <2>4
<1>9. ASSUME Chain = "whole", fault' = {} \/ call.op = "read_all"
      PROVE  DataRight(call'.data)
  <2>1. failed = {} /\ fault' = fault
    BY <1>9
  <2>2. DataRight(call.data)
    BY <1>9, <2>1, ReadPosition
  <2>3. PICK k \in Nat : Position(call.cluster, call.data, "load", k)
    BY <1>6, <1>9 DEF Followed
  <2>4. /\ k \in Nat \ {0} /\ k \in 1 .. L /\ call.cluster = Wanted.clusters[k]
        /\ m = (k - 1) * C /\ n <= (k - 1) * C + C /\ (k - 1) * C \in Nat
    BY <1>7, <1>9, <2>3
  <2>5. IsCluster(disk, Part, call.cluster)
    BY <1>1, <2>4
  <2>6. buffer = [i \in 1 .. C |-> CellOf(disk, Part, call.cluster, i)]
    BY <1>1, <2>1, <2>5, ClusterReads
  <2>7. \A j \in 1 .. length : Wanted.data[j]
          = CellOf(disk, Part, Wanted.clusters[((j - 1) \div C) + 1], ((j - 1) % C) + 1)
    BY <1>1, <1>9 DEF IsFile, length
  <2>8. ASSUME NEW j \in 1 .. n PROVE call'.data[j] = Wanted.data[j]
    <3>1. j \in Nat /\ j \in 1 .. length /\ j <= n
      BY <1>1, <1>5
    <3>2. CASE j <= m
      <4>1. j \in 1 .. m
        BY <1>1, <3>1, <3>2
      <4> QED BY <1>3, <1>4, <2>2, <3>2, <4>1 DEF DataRight, m
    <3>3. CASE ~(j <= m)
      <4>1. m < j /\ j <= m + C /\ j - m \in 1 .. C
        BY <1>1, <1>5, <3>1, <3>3
      <4>2. call'.data[j] = CellOf(disk, Part, call.cluster, j - m)
        <5>1. call'.data[j] = buffer[j - m]
          BY <1>3, <1>4, <3>3
        <5> QED BY <2>6, <4>1, <5>1
      <4>3. ((j - 1) \div C) + 1 = k /\ ((j - 1) % C) + 1 = j - m
        <5>1. (k - 1) * C < j /\ j <= (k - 1) * C + C
          BY <2>4, <4>1
        <5> HIDE DEF C
        <5>2. ((j - 1) \div C) + 1 = k /\ ((j - 1) % C) + 1 = j - (k - 1) * C
          BY <1>1, <2>4, <3>1, <5>1, GroupIs
        <5> QED BY <2>4, <5>2
      <4> QED BY <2>4, <2>7, <3>1, <4>2, <4>3
    <3> QED BY <3>2, <3>3
  <2> QED BY <1>3, <1>4, <2>8 DEF DataRight
<1>10. n < length /\ Followed(call.op) =>
         \E k \in Nat : Position(call'.cluster, call'.data, call'.pc, k)
  BY <1>3, <1>6, <1>7
<1> QED BY <1>3, <1>4, <1>5, <1>8, <1>9, <1>10, ReadContinues DEF length

LEMMA LoadClusterReads ==
  ASSUME ReadStep, LoadCluster
  PROVE  ReadIsRight
<1>1. /\ UNCHANGED <<mainVars, disk, flaky, fs, fault>>
      /\ lbas' = ClusterLbas(call.cluster) /\ call.pc = "load" /\ ~Complete
      /\ call' = [call EXCEPT !.pc = "next", !.buffer = Loaded(call.cluster, {}),
                              !.data = Copy(Loaded(call.cluster, {}))]
  BY DEF ReadStep, LoadCluster, Reading
<1>2. Trusted' => Trusted
  BY <1>1, StillGood
<1>3. CASE Trusted
  <2>1. ReadInv' /\ ReadDone' /\ ReadExact'
    BY <1>1, <1>3, ClusterCopied
  <2>2. Followed(call.op) => lbas' \subseteq Within(Part)
    <3> SUFFICES ASSUME Followed(call.op) PROVE lbas' \subseteq Within(Part)
      OBVIOUS
    <3>1. PICK k \in Nat : Position(call.cluster, call.data, call.pc, k)
      BY <1>1, <1>3, ReadPosition
    <3>2. Placed /\ IsCluster(disk, Part, call.cluster)
      BY <1>3, <3>1, ReadAt, WantedIs DEF Position
    <3> QED BY <1>1, <3>2, ClusterReads
  <2>3. ~Followed(call.op) => Chain = "short" /\ call.op = "read_file"
    BY DEF Followed, ReadStep
  <2> QED BY <1>1, <2>1, <2>2, <2>3 DEF ReadIsRight
<1> QED BY <1>1, <1>2, <1>3, ReadLost DEF ReadIsRight

\* A cluster of a whole file can be read, and none of its sectors is missing.
LEMMA WholeReadable ==
  ASSUME ReadStep, Trusted, Chain = "whole", ~Complete
  PROVE  /\ Readable(ClusterLbas(call.cluster)) /\ Missing(call.cluster) = {}
         /\ Readable({FatLba(call.cluster)})
<1>1. PICK k \in Nat : Position(call.cluster, call.data, call.pc, k)
  BY ReadPosition DEF Followed
<1>2. Placed /\ IsCluster(disk, Part, call.cluster)
  BY <1>1, ReadAt, WantedIs DEF Position
<1>3. Missing(call.cluster) = {}
  <2>1. ASSUME NEW s \in 1 .. ClusterSize
        PROVE  (ClusterLba(call.cluster) + s - 1) % Word \in DOMAIN disk
    <3>1. s - 1 \in 0 .. ClusterSize - 1
      BY VolumeAssumption
    <3>2. ClusterLba(call.cluster) \in Nat
          /\ ClusterLba(call.cluster) + (s - 1) \in Within(Part)
          /\ (ClusterLba(call.cluster) + (s - 1)) % Word = ClusterLba(call.cluster) + (s - 1)
      BY <1>2, <3>1, ClusterAddress
    <3>3. ClusterLba(call.cluster) + (s - 1) = ClusterLba(call.cluster) + s - 1
      BY <3>2, VolumeAssumption
    <3> QED BY <1>2, <3>2, <3>3, PlacedIs
  <2> QED BY <2>1 DEF Missing
<1> QED BY <1>2, <1>3, ClusterReads, FatReads

LEMMA LoadFailsReads ==
  ASSUME ReadStep, LoadFails
  PROVE  ReadIsRight
<1>1. /\ UNCHANGED <<mainVars, disk, flaky, fs>> /\ ~Complete
      /\ call' = NoCall /\ reply' = Null
      /\ fault' = fault \cup {"read"} /\ MayFail(ClusterLbas(call.cluster))
  BY DEF ReadStep, LoadFails, GiveUp, Return
<1>2. Trusted' => Trusted
  BY <1>1, StillGood
<1>3. CASE Trusted
  <2>1. ReadInv' /\ ReadDone' /\ ReadExact'
    BY <1>1, <1>3, ReadGivesNull
  <2>2. ~flaky => Chain # "whole"
    BY <1>1, <1>3, WholeReadable DEF MayFail
  <2> QED BY <1>1, <2>1, <2>2 DEF ReadIsRight
<1> QED BY <1>1, <1>2, <1>3, ReadLost DEF ReadIsRight

LEMMA LoadFailsUnseenReads ==
  ASSUME ReadStep, LoadFailsUnseen
  PROVE  ReadIsRight
<1>1. /\ UNCHANGED <<mainVars, disk, flaky, fs>> /\ ~Complete
      /\ call.pc = "load" /\ call.op = "read_file" /\ fault' = fault \cup {"read"}
  BY DEF ReadStep, LoadFailsUnseen, Reading
<1>2. PICK failed \in (SUBSET (1 .. ClusterSize)) \ {{}} :
        /\ flaky \/ failed = Missing(call.cluster)
        /\ call' = [call EXCEPT !.pc = "next", !.buffer = Loaded(call.cluster, failed),
                                !.data = Copy(Loaded(call.cluster, failed))]
  BY DEF LoadFailsUnseen
<1>3. Trusted' => Trusted
  BY <1>1, StillGood
<1>5. failed # {} /\ fault' # {}
  <2>1. failed # {}
    BY <1>2
  <2>2. "read" \in fault'
    BY <1>1
  <2> QED BY <2>1, <2>2
<1>6. ~flaky => failed = Missing(call.cluster)
  BY <1>2
<1>4. CASE Trusted
  <2>1. ReadInv' /\ ReadDone' /\ ReadExact'
    BY <1>1, <1>2, <1>4, <1>5, ClusterCopied
  <2>2. ~flaky => Chain # "whole"
    BY <1>1, <1>4, <1>5, <1>6, WholeReadable
  <2> QED BY <1>1, <2>1, <2>2 DEF ReadIsRight
<1> QED BY <1>1, <1>3, <1>4, ReadLost DEF ReadIsRight

\* A read that goes on to another cluster of the file.
LEMMA NextReads ==
  ASSUME ReadStep, Trusted, call.pc = "next", ~Complete, NEW cluster,
         call' = [call EXCEPT !.pc = "load", !.cluster = cluster],
         fault' = {} => fault = {},
         Followed(call.op) => \E k \in Nat : Position(cluster, call.data, "load", k)
  PROVE  ReadInv' /\ ReadDone' /\ ReadExact'
<1>1. /\ call'.op = call.op /\ call'.file = call.file /\ call'.pc = "load"
      /\ call'.cluster = cluster /\ call'.data = call.data
  <2>1. DOMAIN call = ReadFields
    BY ReadFieldsAre
  <2> QED BY <2>1 DEF ReadFields
<1>2. /\ IsSequence(call.data) /\ Len(call.data) <= Wanted.length
      /\ Len(call.data) < Wanted.length
  BY ReadAt, WantedIs DEF Complete
<1>3. Chain = "whole" /\ (fault' = {} \/ call.op = "read_all") => DataRight(call.data)
  BY ReadPosition
<1> QED BY <1>1, <1>2, <1>3, ReadContinues

\* What is left of a file is in the clusters after the k-th.
LEMMA MoreClusters ==
  ASSUME Placed, path \in DOMAIN Vol.entries, Chain = "whole", NEW k \in Nat,
         Position(call.cluster, call.data, "next", k), Len(call.data) < Wanted.length
  PROVE  k + 1 \in 1 .. Len(Wanted.clusters)
<1> DEFINE L == Len(Wanted.clusters)
           length == Wanted.length
           x == k * ClusterCells
           y == L * ClusterCells
<1>1. length \in Nat /\ L \in Nat /\ length <= y /\ y \in Nat /\ x \in Nat
  <2>1. length \in Nat /\ L \in Nat /\ IsFile(disk, Part, Wanted) /\ Wanted.chain = "whole"
    BY WantedIs
  <2> QED BY <2>1, ClusterCellsIs DEF IsFile
<1>2. k \in 1 .. L /\ x < length
  BY DEF Position
<1>3. ASSUME k = L PROVE FALSE
  <2>1. x = y
    BY <1>3
  <2> HIDE DEF x, y, length
  <2> QED BY <1>1, <1>2, <2>1
<1> QED BY <1>1, <1>2, <1>3

LEMMA NextFlatReads ==
  ASSUME ReadStep, NextFlat
  PROVE  ReadIsRight
<1>1. /\ UNCHANGED <<mainVars, disk, flaky, fs, fault, lbas>> /\ ~Complete
      /\ call.pc = "next" /\ call.file.flat
      /\ call' = [call EXCEPT !.pc = "load", !.cluster = (call.cluster + 1) % Word]
  BY DEF ReadStep, NextFlat, Reading
<1>2. Trusted' => Trusted
  BY <1>1, StillGood
<1>3. CASE Trusted
  <2>1. /\ Placed /\ path \in DOMAIN Vol.entries /\ Wanted.flat
        /\ Len(call.data) < Wanted.length
    <3>1. Placed /\ path \in DOMAIN Vol.entries /\ Describes(call.file, Wanted)
          /\ Len(call.data) \in Nat /\ call.file.length = Wanted.length
      BY <1>3, ReadAt
    <3>2. Wanted.length \in Nat
      BY <3>1, WantedIs
    <3> QED BY <1>1, <3>1, <3>2 DEF Describes, Complete
  <2>2. IsFile(disk, Part, Wanted) /\ Chain = "whole"
        /\ \A k \in 1 .. Len(Wanted.clusters) : IsCluster(disk, Part, Wanted.clusters[k])
    BY <2>1, WantedIs DEF IsFile
  <2>3. PICK k \in Nat : Position(call.cluster, call.data, "next", k)
    BY <1>1, <1>3, <2>2, ReadPosition DEF Followed
  <2>4. k + 1 \in 1 .. Len(Wanted.clusters) /\ k \in 1 .. Len(Wanted.clusters) - 1
    <3>1. k + 1 \in 1 .. Len(Wanted.clusters) /\ Len(Wanted.clusters) \in Nat
      BY <2>1, <2>2, <2>3, MoreClusters, WantedIs
    <3> QED BY <2>3, <3>1 DEF Position
  <2>5. Wanted.clusters[k + 1] = call.cluster + 1
    BY <2>1, <2>2, <2>3, <2>4 DEF IsFile, Position
  <2>6. (call.cluster + 1) % Word = call.cluster + 1
    <3>1. IsCluster(disk, Part, call.cluster + 1)
      BY <2>2, <2>4, <2>5
    <3>2. call.cluster + 1 \in Nat /\ call.cluster + 1 < Word /\ Word \in Nat \ {0}
      BY <2>1, <3>1, ClusterAddress, VolumeAssumption
    <3> DEFINE c == call.cluster + 1
    <3> HIDE DEF c
    <3>3. c % Word = c
      BY <3>2 DEF c
    <3> QED BY <3>3 DEF c
  <2>7. Position((call.cluster + 1) % Word, call.data, "load", k + 1)
    <3>1. (k + 1) - 1 = k
      OBVIOUS
    <3> QED BY <2>3, <2>4, <2>5, <2>6, <3>1 DEF Position
  <2>8. ReadInv' /\ ReadDone' /\ ReadExact'
    <3>1. k + 1 \in Nat
      OBVIOUS
    <3> QED BY <1>1, <1>3, <2>7, <3>1, NextReads
  <2> QED BY <1>1, <2>8 DEF ReadIsRight
<1> QED BY <1>1, <1>2, <1>3, ReadLost DEF ReadIsRight

LEMMA NextChainedReads ==
  ASSUME ReadStep, NextChained
  PROVE  ReadIsRight
<1>1. UNCHANGED <<mainVars, disk, flaky, fs>> /\ ~Complete
      /\ call.pc = "next" /\ ~call.file.flat
  BY DEF ReadStep, NextChained, Reading
<1>2. PICK next \in FatResults :
        /\ GetFatEntry(next)
        /\ IF ChainEnds(next)
             THEN call' = NoCall /\ reply' = Null
             ELSE call' = [call EXCEPT !.pc = "load", !.cluster = next]
  BY DEF NextChained, GiveUp, Return
<1>3. fault \subseteq fault' /\ (fault' = fault \/ "fat" \in fault')
  BY <1>2 DEF GetFatEntry
<1>4. Trusted' => Trusted /\ "fat" \notin fault'
  BY <1>1, <1>3, StillGood DEF Trusted
<1>5. CASE Trusted
  <2> DEFINE L == Len(Wanted.clusters)
  <2>1. /\ Placed /\ path \in DOMAIN Vol.entries /\ ~Wanted.flat
        /\ Len(call.data) < Wanted.length
    BY <1>1, <1>5, ReadAt, WantedIs DEF Describes, Complete
  <2>2. /\ IsFile(disk, Part, Wanted) /\ Chain = Wanted.chain /\ L \in Nat
        /\ \A k \in 1 .. L : IsCluster(disk, Part, Wanted.clusters[k])
    BY <2>1, WantedIs
  <2>3. ASSUME NEW k \in Nat, Position(call.cluster, call.data, "next", k)
        PROVE  /\ k \in 1 .. L /\ IsCluster(disk, Part, call.cluster)
               /\ k < L => Wanted.clusters[k + 1] = FatCell(disk, Part, call.cluster).next
               /\ k = L /\ Chain = "short" => FatCell(disk, Part, call.cluster).next >= EndMark
               /\ k = L /\ Chain = "cyclic" =>
                    \E j \in 1 .. L : FatCell(disk, Part, call.cluster).next = Wanted.clusters[j]
               /\ Chain = "whole" => k < L
    <3>1. k \in 1 .. L /\ call.cluster = Wanted.clusters[k]
      BY <2>3 DEF Position
    <3>2. k < L => k \in 1 .. L - 1
      BY <2>2, <3>1
    <3>3. Chain = "whole" => k < L
      <4> SUFFICES ASSUME Chain = "whole" PROVE k < L
        OBVIOUS
      <4>1. k + 1 \in 1 .. L
        BY <2>1, <2>3, MoreClusters
      <4> QED BY <2>2, <4>1
    <3>4. \A j \in 1 .. L - 1 :
            Wanted.clusters[j + 1] = FatCell(disk, Part, Wanted.clusters[j]).next
      BY <2>1, <2>2 DEF IsFile
    <3>5. /\ Chain = "short" => AfterLast(disk, Part, Wanted) >= EndMark
          /\ Chain = "cyclic" =>
               \E j \in 1 .. L : AfterLast(disk, Part, Wanted) = Wanted.clusters[j]
      BY <2>2 DEF IsFile
    <3> QED BY <2>2, <3>1, <3>2, <3>3, <3>4, <3>5 DEF AfterLast
  <2> HIDE DEF L
  <2>4. Followed(call.op) =>
          \E k \in Nat : Position(call.cluster, call.data, "next", k)
    BY <1>1, <1>5, ReadPosition
  <2>5. ASSUME "fat" \notin fault', Followed(call.op)
        PROVE  /\ lbas' \subseteq Within(Part)
               /\ \/ next >= EndMark /\ Chain = "short"
                  \/ \E k \in Nat : Position(next, call.data, "load", k)
    <3>1. PICK k \in Nat : Position(call.cluster, call.data, "next", k)
      BY <2>4, <2>5
    <3>2. next = FatCell(disk, Part, call.cluster).next /\ lbas' \subseteq Within(Part)
      BY <1>2, <2>1, <2>3, <2>5, <3>1, FatTrusted
    <3>3. CASE k < L
      <4>1. k + 1 \in 1 .. L /\ k + 1 \in Nat /\ (k + 1) - 1 = k
        BY <2>2, <2>3, <3>1, <3>3
      <4>2. next = Wanted.clusters[k + 1]
        BY <2>3, <3>1, <3>2, <3>3
      <4>3. Position(next, call.data, "load", k + 1)
        BY <3>1, <4>1, <4>2 DEF Position, L
      <4> QED BY <3>2, <4>1, <4>3
    <3>4. CASE k = L /\ Chain = "short"
      BY <2>3, <3>1, <3>2, <3>4
    <3>5. CASE k = L /\ Chain = "cyclic"
      <4>1. PICK j \in 1 .. L : next = Wanted.clusters[j]
        BY <2>3, <3>1, <3>2, <3>5
      <4>2. Position(next, call.data, "load", j) /\ j \in Nat
        BY <3>5, <4>1 DEF Position, L
      <4> QED BY <3>2, <4>2
    <3>6. k < L \/ k = L
      BY <2>2, <2>3, <3>1
    <3>7. Chain \in {"whole", "short", "cyclic"}
      BY <2>2 DEF IsFile
    <3> QED BY <2>3, <3>1, <3>3, <3>4, <3>5, <3>6, <3>7
  <2>6. ASSUME "fat" \notin fault' PROVE ReadInv' /\ ReadDone' /\ ReadExact'
    <3>1. CASE ChainEnds(next)
      <4>1. next >= EndMark /\ call.op = "read_all" /\ Followed(call.op)
        BY <3>1 DEF ChainEnds, Followed
      <4>2. Chain = "short"
        <5>1. ASSUME NEW k \in Nat, Position(next, call.data, "load", k) PROVE FALSE
          <6>1. IsCluster(disk, Part, next)
            BY <2>2, <5>1 DEF Position, L
          <6>2. next \in Nat /\ next < EndMark /\ EndMark \in Nat
            BY <2>1, <6>1, ClusterAddress, VolumeAssumption
          <6> QED BY <4>1, <6>2
        <5> QED BY <2>5, <2>6, <4>1, <5>1
      <4> QED BY <1>2, <1>5, <3>1, <4>2, ReadGivesNull
    <3>2. CASE ~ChainEnds(next)
      <4>1. call' = [call EXCEPT !.pc = "load", !.cluster = next]
        BY <1>2, <3>2
      <4>2. Followed(call.op) => \E k \in Nat : Position(next, call.data, "load", k)
        <5> SUFFICES ASSUME Followed(call.op)
                     PROVE  \E k \in Nat : Position(next, call.data, "load", k)
          OBVIOUS
        <5>1. ~(next >= EndMark /\ Chain = "short")
          BY <3>2 DEF ChainEnds, Followed
        <5> QED BY <2>5, <2>6, <5>1
      <4>3. fault' = {} => fault = {}
        BY <1>3
      <4> QED BY <1>1, <1>5, <4>1, <4>2, <4>3, NextReads
    <3> QED BY <3>1, <3>2
  <2>7. ReadInv' /\ ReadDone' /\ ReadExact'
    BY <1>4, <2>6, ReadLost
  <2>8. fault' = {} => \/ lbas' \subseteq Within(Part)
                       \/ Chain = "short" /\ call.op = "read_file"
    <3>1. ~Followed(call.op) => Chain = "short" /\ call.op = "read_file"
      BY DEF Followed, ReadStep
    <3> QED BY <2>5, <3>1
  <2>9. ~flaky /\ Chain = "whole" => fault' = fault
    BY <1>1, <1>2, <1>5, WholeReadable DEF GetFatEntry, MayFail
  <2> QED BY <2>7, <2>8, <2>9 DEF ReadIsRight
<1> QED BY <1>4, <1>5, ReadLost DEF ReadIsRight

-----------------------------------------------------------------------------
(* The loop of kernel_main                                                 *)

\* On a clean machine no read has failed.
LEMMA CleanIs ==
  ASSUME LoopInv, ConsoleInv, Clean, Mounted
  PROVE  /\ Trusted /\ ~flaky /\ fault = {} /\ Sound(Vol)
         /\ pc \in {"opened", "read"} => path = Hello
<1>1. d <= Len(machine) /\ p <= Len(parts) /\ Part.type = "exfat"
      /\ pc \notin {"disk", "halted"}
  BY DEF LoopInv, Mounted
<1>2. Sound(Vol)
  BY <1>1, EntryIs DEF Clean
<1>3. ~flaky
  BY <1>1, LoopIs DEF Clean
<1>4. fault = {}
  BY DEF ConsoleInv
<1>5. pc \in {"opened", "read"} => path = Hello
  BY DEF LoopInv, Clean, KernelCaller
<1> QED BY <1>2, <1>3, <1>4, <1>5 DEF Trusted, Good, Sound

\* No step of a call breaks the invariant.
LEMMA FsStepRight ==
  ASSUME VolumeInv, FsStep, UNCHANGED mainVars
  PROVE  VolumeInv'
<1>1. /\ HeapInv /\ LoopInv /\ MountInv /\ OpenInv /\ ReadInv /\ OpenedInv /\ ReadDone
      /\ ReadExact /\ ReadsInVolume /\ ConsoleInv
  BY DEF VolumeInv
<1>2. UNCHANGED <<disk, flaky, fs>>
  BY DEF FsStep, ReadDirectory, ReadDirectoryFails, ScanDirectory, NextDirectoryCluster,
         LoadCluster, LoadFails, LoadFailsUnseen, NextFlat, NextChained, Finish
<1>3. HeapInv' /\ StepKeeps
  BY <1>1, FsStepKeeps, OpenKeeps, ReadKeeps DEF FsStep
<1>4. UNCHANGED <<machine, caller, pc, d, p, parts, path, console>>
  BY DEF mainVars
<1>5. call.op \in {"open", "read_all", "read_file"} /\ call # NoCall
  <2>1. call.op \in {"open", "read_all", "read_file"}
    BY DEF FsStep, ReadDirectory, ReadDirectoryFails, ScanDirectory,
           NextDirectoryCluster, LoadCluster, LoadFails, LoadFailsUnseen, NextFlat,
           NextChained, Finish, Opening, Reading
  <2> QED BY <2>1 DEF NoCall
<1>6. \/ pc = "opened" /\ call.op = "open"
      \/ pc = "read" /\ call.op \in caller.reads /\ call.op # "open"
  <2>1. \/ pc = "opened" /\ call.op = "open"
        \/ pc = "read" /\ call.op \in caller.reads
    BY <1>1, <1>5 DEF LoopInv
  <2>2. caller.reads \subseteq {"read_all", "read_file"}
    BY <1>1, CallersAssumption DEF LoopInv
  <2> QED BY <2>1, <2>2
<1>7. call' # NoCall => call'.op = call.op
  BY <1>3 DEF StepKeeps
<1>8. LoopInv'
  BY <1>1, <1>2, <1>4, <1>6, <1>7 DEF LoopInv, Mounted, Part
<1>9. fault \subseteq fault'
  BY DEF FsStep, ReadDirectory, ReadDirectoryFails, ScanDirectory, NextDirectoryCluster,
         LoadCluster, LoadFails, LoadFailsUnseen, NextFlat, NextChained, Finish,
         GetFatEntry
<1>10. Part' = Part /\ Vol' = Vol /\ Mounted' = Mounted /\ Good' = Good
       /\ (Trusted' => Trusted) /\ Chain' = Chain /\ Mounted
  BY <1>2, <1>4, <1>6, <1>9, StillGood DEF Mounted, Chain, Vol
<1>11. MountInv'
  BY <1>1, <1>2, <1>10 DEF MountInv, Geometry
<1>12. /\ OpenInv' /\ OpenedInv' /\ ReadInv' /\ ReadDone' /\ ReadExact'
       /\ Trusted /\ fault' = {} =>
            \/ lbas' = lbas \/ lbas' \subseteq Within(Part)
            \/ pc = "read" /\ Chain = "short" /\ "read_file" \in caller.reads
       /\ Trusted /\ ~flaky /\ (pc = "read" => Chain = "whole") => fault' = fault
  <2>1. CASE pc = "opened" /\ call.op = "open"
    <3>1. SearchStep
      BY <1>1, <1>2, <2>1 DEF SearchStep
    <3>2. SearchIsRight
      <4>1. ReadDirectory \/ ReadDirectoryFails \/ ScanDirectory \/ NextDirectoryCluster
        BY <2>1 DEF FsStep, LoadCluster, LoadFails, LoadFailsUnseen, NextFlat,
                    NextChained, Finish, Reading
      <4> QED BY <1>1, <3>1, <4>1, ReadDirectoryFinds, ReadDirectoryFailsFinds,
                 ScanDirectoryFinds, NextDirectoryClusterFinds
    <3>3. ReadInv' /\ ReadDone' /\ ReadExact'
      BY <1>4, <2>1 DEF ReadInv, ReadDone, ReadExact, At
    <3> QED BY <2>1, <3>2, <3>3 DEF SearchIsRight
  <2>2. CASE pc = "read" /\ call.op # "open"
    <3>1. ReadStep
      BY <1>1, <1>2, <1>5, <2>2 DEF ReadStep
    <3>2. ReadIsRight
      <4>1. LoadCluster \/ LoadFails \/ LoadFailsUnseen \/ NextFlat \/ NextChained \/ Finish
        BY <2>2 DEF FsStep, ReadDirectory, ReadDirectoryFails, ScanDirectory,
                    NextDirectoryCluster, Opening
      <4> QED BY <3>1, <4>1, LoadClusterReads, LoadFailsReads, LoadFailsUnseenReads,
                 NextFlatReads, NextChainedReads, FinishReads
    <3>3. OpenInv' /\ OpenedInv'
      BY <1>4, <1>7, <2>2 DEF OpenInv, OpenedInv, At, NoCall
    <3>4. call.op = "read_file" => "read_file" \in caller.reads
      BY <1>6, <2>2
    <3> QED BY <2>2, <3>2, <3>3, <3>4 DEF ReadIsRight
  <2> QED BY <1>6, <2>1, <2>2
<1>13. ReadsInVolume'
  <2> SUFFICES ASSUME Vol'.searchable, fault' = {}
               PROVE  \/ lbas' \subseteq Within(Part)
                      \/ pc = "read" /\ Chain = "short" /\ "read_file" \in caller.reads
    BY <1>4, <1>10 DEF ReadsInVolume, Part, Mounted
  <2>1. fault = {} /\ Vol.searchable
    BY <1>9, <1>10
  <2>2. Trusted
    BY <1>10, <2>1 DEF Trusted, Good
  <2>3. \/ lbas \subseteq Within(Part)
        \/ pc = "read" /\ Chain = "short" /\ "read_file" \in caller.reads
    BY <1>1, <1>10, <2>1 DEF ReadsInVolume, Part
  <2> QED BY <1>12, <2>2, <2>3
<1>14. ConsoleInv'
  <2>1. Clean' = Clean
    BY <1>4 DEF Clean
  <2>2. ASSUME Clean PROVE fault' = {}
    <3>1. Trusted /\ ~flaky /\ fault = {} /\ Sound(Vol)
          /\ (pc = "read" => path = Hello)
      BY <1>1, <1>10, <2>2, CleanIs
    <3>2. pc = "read" => Chain = "whole"
      <4> SUFFICES ASSUME pc = "read" PROVE Chain = "whole"
        OBVIOUS
      <4>1. path \in DOMAIN Vol.entries /\ path = Hello
        BY <1>1, <1>5, <3>1 DEF ReadInv
      <4> QED BY <3>1, <4>1 DEF Sound, Chain
    <3> QED BY <1>12, <3>1, <3>2
  <2>3. Clean => console = IF pc \in {"disk", "halted"} THEN AfterDisks(machine)[d - 1]
                 ELSE AfterPartitions(parts, AfterDisks(machine)[d - 1])[p - 1]
    BY <1>1 DEF ConsoleInv
  <2> QED BY <1>4, <1>6, <2>1, <2>2, <2>3 DEF ConsoleInv
<1> QED BY <1>3, <1>8, <1>11, <1>12, <1>13, <1>14 DEF VolumeInv

\* Between the partitions there is nothing to say of what is found.
LEMMA NothingMounted ==
  ASSUME ~Mounted', call' = NoCall
  PROVE  /\ MountInv' /\ OpenInv' /\ ReadInv' /\ OpenedInv' /\ ReadDone'
         /\ ReadExact' /\ ReadsInVolume'
BY DEF Mounted, MountInv, Trusted, Good, OpenInv, ReadInv, OpenedInv, ReadDone,
       ReadExact, ReadsInVolume, At, NoCall

\* What is printed once a partition has been dealt with.
LEMMA PrintedNext ==
  ASSUME LoopInv, pc \notin {"disk", "halted"}, p <= Len(parts)
  PROVE  AfterPartitions(parts, AfterDisks(machine)[d - 1])[(p + 1) - 1]
           = IF Part.type = "exfat" /\ Hello \in DOMAIN Part.vol.entries
               THEN AfterPartitions(parts, AfterDisks(machine)[d - 1])[p - 1]
                      \o Part.vol.entries[Hello].data
               ELSE AfterPartitions(parts, AfterDisks(machine)[d - 1])[p - 1]
<1>1. p \in Nat \ {0} /\ Len(parts) \in Nat
  <2>1. p \in Nat \ {0} /\ parts \in Seq(Range(TableOf(machine[d])))
    BY LoopIs DEF LoopInv
  <2> DEFINE S == Range(TableOf(machine[d]))
  <2> HIDE DEF S
  <2> QED BY <2>1 DEF S
<1>2. p \in 0 .. Len(parts) /\ p # 0 /\ (p + 1) - 1 = p
  BY <1>1
<1> QED BY <1>1, <1>2, PartitionsAre DEF Part

\* What is printed before a disk's first partition, and after its last.
LEMMA PrintedDisk ==
  ASSUME LoopInv, pc \notin {"disk", "halted"}, ~(p <= Len(parts))
  PROVE  AfterPartitions(parts, AfterDisks(machine)[d - 1])[p - 1]
           = AfterDisks(machine)[(d + 1) - 1]
<1> DEFINE table == TableOf(machine[d])
           before == AfterDisks(machine)[d - 1]
<1>1. /\ d <= Len(machine) /\ Signed(machine[d]) /\ p \in Nat \ {0} /\ p <= Len(parts) + 1
      /\ parts = ListedOf(table)[Len(table)] /\ IsSequence(table)
      /\ Len(machine) \in Nat /\ d \in Nat \ {0} /\ parts \in Seq(Range(table))
  BY LoopIs DEF LoopInv
<1>2. Len(table) \in Nat /\ Len(table) \in 0 .. Len(table)
  BY <1>1 DEF IsSequence
<1> HIDE DEF table, before
<1>3. Len(parts) \in Nat
  <2> DEFINE S == Range(table)
  <2> HIDE DEF S
  <2> QED BY <1>1 DEF S
<1>4. p - 1 = Len(parts)
  BY <1>1, <1>3
<1>5. AfterPartitions(parts, before)[Len(parts)] = AfterPartitions(table, before)[Len(table)]
  BY <1>1, <1>2, ListedPrints
<1>6. d \in 0 .. Len(machine) /\ d # 0 /\ (d + 1) - 1 = d
  BY <1>1
<1>7. AfterDisks(machine)[d] = AfterPartitions(table, before)[Len(table)]
  BY <1>1, <1>6, DisksAre DEF table, before
<1> QED BY <1>4, <1>5, <1>6, <1>7 DEF before

\* The machine and the caller are fixed.
LEMMA CleanStays ==
  ASSUME UNCHANGED <<machine, caller>>
  PROVE  Clean' = Clean
BY DEF Clean

\* The next disk, or the end of the disks.
LEMMA NextDiskLoop ==
  ASSUME LoopInv, NextDisk, d <= Len(machine), call' = NoCall,
         UNCHANGED <<machine, caller, p, parts>>
  PROVE  LoopInv' /\ ~Mounted'
<1>1. pc' = "disk" /\ d' = d + 1
  BY DEF NextDisk
<1>2. Len(machine) \in Nat /\ d \in Nat \ {0}
  BY LoopIs
<1>3. d' \in 1 .. Len(machine) + 1
  BY <1>1, <1>2
<1>4. d' <= Len(machine) => disk' = machine[d'].sectors /\ flaky' = machine[d'].flaky
  BY <1>1, <1>2 DEF NextDisk
<1>5. ~Mounted'
  BY <1>1 DEF Mounted
<1> QED BY <1>1, <1>3, <1>4, <1>5 DEF LoopInv

\* The steps of kernel_main, one by one.
LEMMA GetPartitionsRight ==
  ASSUME LoopInv, ConsoleInv, GetPartitions
  PROVE  LoopInv' /\ ConsoleInv' /\ ~Mounted' /\ call' = NoCall
<1> DEFINE table == TableOf(machine[d])
<1>1. /\ UNCHANGED <<disk, flaky, call, machine, caller, d, path, console>>
      /\ pc = "disk" /\ call = NoCall /\ pc' = "partition" /\ p' = 1 /\ d <= Len(machine)
      /\ MbrOf(disk[0]).signed /\ parts' = ListedOf(MbrOf(disk[0]).table)[Len(MbrOf(disk[0]).table)]
  BY DEF GetPartitions, At, fsVars
<1>2. d \in DOMAIN machine /\ disk = machine[d].sectors /\ Signed(machine[d])
      /\ parts' = ListedOf(table)[Len(table)]
  BY <1>1, LoopIs DEF Signed, TableOf
<1>3. IsSequence(table)
  BY <1>1, <1>2, LoopIs
<1>4. Len(parts') \in Nat
  <2>1. Len(table) \in 0 .. Len(table)
    BY <1>3 DEF IsSequence
  <2> DEFINE S == Range(table)
  <2>2. parts' \in Seq(S)
    BY <1>2, <1>3, <2>1, ListedFrom
  <2> HIDE DEF S, table
  <2> QED BY <2>2
<1>5. ~Mounted'
  BY <1>1 DEF Mounted
<1>6. LoopInv'
  <2>1. p' <= Len(parts') + 1 /\ p' \in Nat \ {0}
    BY <1>1, <1>4
  <2> QED BY <1>1, <1>2, <1>5, <2>1 DEF LoopInv
<1>7. AfterPartitions(parts', AfterDisks(machine)[d - 1])[0] = AfterDisks(machine)[d - 1]
  <2>1. 0 \in 0 .. Len(parts')
    BY <1>4
  <2> QED BY <1>4, <2>1, PartitionsAre
<1>8. ConsoleInv'
  <2>1. Clean' = Clean
    BY <1>1, CleanStays
  <2>2. Clean => console = AfterDisks(machine)[d - 1]
    BY <1>1 DEF ConsoleInv
  <2>3. p' - 1 = 0
    BY <1>1
  <2> QED BY <1>1, <1>5, <1>7, <2>1, <2>2, <2>3 DEF ConsoleInv
<1> QED BY <1>1, <1>5, <1>6, <1>8

LEMMA NoPartitionsRight ==
  ASSUME LoopInv, ConsoleInv, NoPartitions
  PROVE  LoopInv' /\ ConsoleInv' /\ ~Mounted' /\ call' = NoCall
<1>1. /\ UNCHANGED <<machine, caller, p, parts, call, console>> /\ NextDisk
      /\ pc = "disk" /\ call = NoCall /\ d <= Len(machine)
      /\ MayFail({0}) \/ ~MbrOf(disk[0]).signed
  BY DEF NoPartitions, At
<1>2. LoopInv' /\ ~Mounted' /\ pc' = "disk" /\ d' = d + 1
  BY <1>1, NextDiskLoop DEF NextDisk
<1>3. Clean => console = AfterDisks(machine)[d - 1]
  BY <1>1 DEF ConsoleInv
<1>4. ASSUME Clean PROVE AfterDisks(machine)[d] = AfterDisks(machine)[d - 1]
  <2>1. d \in DOMAIN machine /\ disk = machine[d].sectors /\ ~flaky /\ 0 \in DOMAIN disk
    BY <1>1, <1>4, LoopIs DEF Clean
  <2>2. ~Signed(machine[d])
    BY <1>1, <2>1 DEF MayFail, Readable, Signed
  <2>3. Len(machine) \in Nat /\ d \in 0 .. Len(machine) /\ d # 0
    BY <1>1, LoopIs
  <2> QED BY <2>2, <2>3, DisksAre
<1>5. (d + 1) - 1 = d
  BY LoopIs
<1>6. Clean' = Clean
  BY <1>1, CleanStays
<1> QED BY <1>1, <1>2, <1>3, <1>4, <1>5, <1>6 DEF ConsoleInv

LEMMA PartitionsDoneRight ==
  ASSUME LoopInv, ConsoleInv, PartitionsDone
  PROVE  LoopInv' /\ ConsoleInv' /\ ~Mounted' /\ call' = NoCall
<1>1. /\ UNCHANGED <<machine, caller, p, parts, call, console>> /\ NextDisk
      /\ pc = "partition" /\ call = NoCall /\ p > Len(parts)
  BY DEF PartitionsDone, At
<1>2. d <= Len(machine) /\ p \in Nat \ {0}
  BY <1>1 DEF LoopInv
<1>3. LoopInv' /\ ~Mounted' /\ pc' = "disk" /\ d' = d + 1
  BY <1>1, <1>2, NextDiskLoop DEF NextDisk
<1>4. ~(p <= Len(parts))
  <2> DEFINE S == Range(TableOf(machine[d]))
  <2>1. parts \in Seq(S)
    BY <1>1, LoopIs
  <2> HIDE DEF S
  <2> QED BY <1>1, <1>2, <2>1
<1>5. AfterPartitions(parts, AfterDisks(machine)[d - 1])[p - 1]
        = AfterDisks(machine)[(d + 1) - 1]
  BY <1>1, <1>4, PrintedDisk
<1>6. Clean => console = AfterPartitions(parts, AfterDisks(machine)[d - 1])[p - 1]
  BY <1>1 DEF ConsoleInv
<1>7. Clean' = Clean
  BY <1>1, CleanStays
<1> QED BY <1>1, <1>3, <1>5, <1>6, <1>7 DEF ConsoleInv

LEMMA HaltRight ==
  ASSUME LoopInv, ConsoleInv, Halt
  PROVE  LoopInv' /\ ConsoleInv' /\ ~Mounted' /\ call' = NoCall
<1>1. /\ UNCHANGED <<disk, flaky, machine, caller, d, p, parts, path, call, console>>
      /\ pc = "disk" /\ call = NoCall /\ d > Len(machine) /\ pc' = "halted"
  BY DEF Halt, At, fsVars
<1>2. d = Len(machine) + 1 /\ ~Mounted'
  BY <1>1, LoopIs DEF Mounted
<1>3. LoopInv'
  BY <1>1, <1>2 DEF LoopInv
<1>4. Clean' = Clean
  BY <1>1, CleanStays
<1> QED BY <1>1, <1>2, <1>3, <1>4 DEF ConsoleInv

\* The next partition of the same disk.
LEMMA NextPartitionLoop ==
  ASSUME LoopInv, NextPartition, pc \notin {"disk", "halted"}, p <= Len(parts),
         call' = NoCall, UNCHANGED <<disk, flaky, machine, caller, d, parts>>
  PROVE  LoopInv' /\ ~Mounted'
<1>1. pc' = "partition" /\ p' = p + 1 /\ p \in Nat \ {0}
  BY DEF NextPartition, LoopInv
<1>2. p' \in Nat \ {0} /\ p' <= Len(parts) + 1
  <2> DEFINE S == Range(TableOf(machine[d]))
  <2>1. parts \in Seq(S)
    BY LoopIs
  <2> HIDE DEF S
  <2> QED BY <1>1, <2>1
<1>3. ~Mounted'
  BY <1>1 DEF Mounted
<1> QED BY <1>1, <1>2, <1>3 DEF LoopInv

LEMMA SkipPartitionRight ==
  ASSUME LoopInv, ConsoleInv, SkipPartition
  PROVE  LoopInv' /\ ConsoleInv' /\ ~Mounted' /\ call' = NoCall
<1>1. /\ UNCHANGED <<disk, flaky, machine, caller, d, parts, call, console>>
      /\ pc = "partition" /\ call = NoCall /\ p <= Len(parts) /\ NextPartition
      /\ Part.type # "exfat"
  BY DEF SkipPartition, At, fsVars, Part
<1>2. LoopInv' /\ ~Mounted' /\ pc' = "partition" /\ p' = p + 1
  BY <1>1, NextPartitionLoop DEF NextPartition
<1>3. AfterPartitions(parts, AfterDisks(machine)[d - 1])[(p + 1) - 1]
        = AfterPartitions(parts, AfterDisks(machine)[d - 1])[p - 1]
  BY <1>1, PrintedNext
<1>4. Clean' = Clean
  BY <1>1, CleanStays
<1> QED BY <1>1, <1>2, <1>3, <1>4 DEF ConsoleInv

LEMMA HelloAbsentRight ==
  ASSUME LoopInv, ConsoleInv, OpenedInv, HelloAbsent
  PROVE  LoopInv' /\ ConsoleInv' /\ ~Mounted' /\ call' = NoCall
<1>1. /\ UNCHANGED <<disk, flaky, machine, caller, d, parts, call, console>>
      /\ pc = "opened" /\ call = NoCall /\ At("opened") /\ NextPartition /\ ~reply.ok
  BY DEF HelloAbsent, At, fsVars
<1>2. Mounted /\ p <= Len(parts)
  BY <1>1 DEF Mounted, LoopInv
<1>3. LoopInv' /\ ~Mounted' /\ pc' = "partition" /\ p' = p + 1
  BY <1>1, <1>2, NextPartitionLoop DEF NextPartition
<1>4. Clean => Hello \notin DOMAIN Part.vol.entries
  <2> SUFFICES ASSUME Clean PROVE Hello \notin DOMAIN Part.vol.entries
    OBVIOUS
  <2>1. Trusted /\ fault = {} /\ path = Hello
    BY <1>1, <1>2, CleanIs
  <2> QED BY <1>1, <2>1 DEF OpenedInv, Vol, Part
<1>5. Clean => AfterPartitions(parts, AfterDisks(machine)[d - 1])[(p + 1) - 1]
                 = AfterPartitions(parts, AfterDisks(machine)[d - 1])[p - 1]
  BY <1>1, <1>2, <1>4, PrintedNext
<1>6. Clean' = Clean
  BY <1>1, CleanStays
<1> QED BY <1>1, <1>3, <1>5, <1>6 DEF ConsoleInv

\* On a clean machine a file that was asked for has a size.
LEMMA CleanSized ==
  ASSUME LoopInv, ConsoleInv, ReadDone, At("read"), Clean
  PROVE  reply.sized /\ reply.data = Wanted.data
         /\ Hello \in DOMAIN Vol.entries /\ path = Hello
<1>1. Mounted /\ pc \in {"opened", "read"}
  BY DEF Mounted, At
<1>2. Trusted /\ fault = {} /\ path = Hello /\ Sound(Vol)
  BY <1>1, CleanIs
<1>3. Hello \in DOMAIN Vol.entries
  BY <1>2 DEF ReadDone
<1>4. Chain = "whole"
  BY <1>2, <1>3 DEF Sound, Chain
<1> QED BY <1>2, <1>3, <1>4 DEF ReadDone

LEMMA ShowHelloRight ==
  ASSUME LoopInv, ConsoleInv, ReadDone, ShowHello
  PROVE  LoopInv' /\ ConsoleInv' /\ ~Mounted' /\ call' = NoCall
<1>1. /\ UNCHANGED <<disk, flaky, machine, caller, d, parts, call>>
      /\ pc = "read" /\ call = NoCall /\ At("read") /\ NextPartition
      /\ reply.sized => console' = console \o reply.data
  BY DEF ShowHello, At
<1>2. Mounted /\ p <= Len(parts) /\ Part.type = "exfat"
  BY <1>1 DEF Mounted, LoopInv
<1>3. LoopInv' /\ ~Mounted' /\ pc' = "partition" /\ p' = p + 1
  BY <1>1, <1>2, NextPartitionLoop DEF NextPartition
<1>4. Clean => /\ Hello \in DOMAIN Part.vol.entries
               /\ console' = console \o Part.vol.entries[Hello].data
  BY <1>1, CleanSized DEF Wanted, Vol, Part
<1>5. Clean => AfterPartitions(parts, AfterDisks(machine)[d - 1])[(p + 1) - 1]
                 = AfterPartitions(parts, AfterDisks(machine)[d - 1])[p - 1]
                     \o Part.vol.entries[Hello].data
  BY <1>1, <1>2, <1>4, PrintedNext
<1>6. Clean' = Clean
  BY <1>1, CleanStays
<1>7. Clean => console = AfterPartitions(parts, AfterDisks(machine)[d - 1])[p - 1]
  BY <1>1 DEF ConsoleInv
<1> QED BY <1>1, <1>3, <1>4, <1>5, <1>6, <1>7 DEF ConsoleInv

LEMMA PrintFaultsRight ==
  ASSUME LoopInv, ConsoleInv, ReadDone, PrintFaults
  PROVE  LoopInv' /\ ConsoleInv' /\ ~Mounted' /\ call' = NoCall
<1>1. /\ UNCHANGED <<disk, flaky, machine, caller, d, p, parts, path, call>>
      /\ pc = "read" /\ call = NoCall /\ At("read") /\ ~reply.sized /\ pc' = "fault"
  BY DEF PrintFaults, At, fsVars
<1>2. ~Mounted'
  BY <1>1 DEF Mounted
<1>3. LoopInv'
  BY <1>1, <1>2 DEF LoopInv
<1>4. ~Clean /\ Clean' = Clean
  BY <1>1, CleanSized, CleanStays
<1> QED BY <1>1, <1>2, <1>3, <1>4 DEF ConsoleInv

\* EXFAT_init: if nothing fails, the fields are those of the volume's boot sector.
LEMMA MountRight ==
  ASSUME LoopInv, ConsoleInv, Mount
  PROVE  /\ LoopInv' /\ MountInv' /\ OpenInv' /\ ReadInv' /\ OpenedInv' /\ ReadDone'
         /\ ReadExact' /\ ReadsInVolume' /\ ConsoleInv'
<1> DEFINE lba == Part.start
<1>1. /\ UNCHANGED <<disk, flaky, call, machine, caller, d, p, parts, path, console>>
      /\ pc = "partition" /\ call = NoCall /\ p <= Len(parts) /\ Part.type = "exfat"
      /\ pc' = "open" /\ lbas' = {lba}
  BY DEF Mount, At, Part
<1>2. PICK boot \in BootSectors(lba) \cup Stale :
        /\ \/ Readable({lba}) /\ boot \in BootSectors(lba) /\ fault' = {}
           \/ MayFail({lba}) /\ boot \in Stale /\ fault' = {"init"}
        /\ fs' = [start |-> lba, fat |-> boot.fat, heap |-> boot.heap, root |-> boot.root]
  BY DEF Mount, Part
<1>3. Part' = Part /\ Vol' = Vol /\ Mounted'
  BY <1>1 DEF Part, Vol, Mounted
<1>4. LoopInv'
  BY <1>1, <1>3 DEF LoopInv
<1>5. ASSUME Vol.searchable
      PROVE  /\ IsVolume(disk, Part) /\ lba \in Within(Part) /\ Readable({lba})
             /\ BootSectors(lba) = {BootOf(disk, Part)}
  <2>1. IsVolume(disk, Part)
    BY <1>1, <1>5, EntryIs
  <2>2. /\ lba \in Nat /\ Part.sectors \in Nat \ {0} /\ Within(Part) \subseteq DOMAIN disk
        /\ BootOf(disk, Part).t = "boot"
    BY <2>1 DEF IsVolume, IsPlaced
  <2>3. lba \in Within(Part)
    BY <2>2 DEF Within
  <2> QED BY <2>1, <2>2, <2>3 DEF Readable, BootSectors, BootOf
<1>6. MountInv'
  <2> SUFFICES ASSUME Trusted' PROVE fs' = Geometry(disk, Part)'
    BY DEF MountInv
  <2>1. Vol.searchable /\ fault' # {"init"}
    BY <1>3 DEF Trusted, Good
  <2>2. boot = BootOf(disk, Part)
    BY <1>2, <1>5, <2>1
  <2> QED BY <1>1, <1>2, <1>3, <2>2 DEF Geometry
<1>7. ReadsInVolume'
  <2> SUFFICES ASSUME Vol.searchable PROVE lbas' \subseteq Within(Part')
    BY <1>3 DEF ReadsInVolume, Part
  <2> QED BY <1>1, <1>3, <1>5
<1>8. ConsoleInv'
  <2>1. Clean' = Clean
    BY <1>1, CleanStays
  <2>2. ASSUME Clean PROVE fault' = {}
    <3>1. Vol.searchable /\ ~flaky
      <4>1. d <= Len(machine)
        BY <1>1 DEF LoopInv
      <4> QED BY <1>1, <2>2, <4>1, EntryIs, LoopIs DEF Clean, Sound
    <3> QED BY <1>2, <1>5, <3>1 DEF MayFail
  <2>3. Clean => console = AfterPartitions(parts, AfterDisks(machine)[d - 1])[p - 1]
    BY <1>1 DEF ConsoleInv
  <2> QED BY <1>1, <2>1, <2>2, <2>3 DEF ConsoleInv
<1>9. OpenInv' /\ ReadInv' /\ OpenedInv' /\ ReadDone' /\ ReadExact'
  BY <1>1 DEF OpenInv, ReadInv, OpenedInv, ReadDone, ReadExact, At, NoCall
<1> QED BY <1>4, <1>6, <1>7, <1>8, <1>9

\* Calls of kernel_main leave everything but the call as it is.
LEMMA CallBegins ==
  ASSUME LoopInv, MountInv, ReadsInVolume, ConsoleInv, Mounted, Mounted',
         UNCHANGED <<disk, flaky, fs, fault, lbas, machine, caller, d, p, parts, console>>,
         pc' \in {"opened", "read"}, path' \in caller.paths, path' # <<>>,
         pc # "read", call' # NoCall,
         \/ pc' = "opened" /\ call'.op = "open"
         \/ pc' = "read" /\ call'.op \in caller.reads
  PROVE  /\ LoopInv' /\ MountInv' /\ ReadsInVolume' /\ ConsoleInv'
         /\ OpenedInv' /\ ReadDone' /\ ReadExact'
         /\ Part' = Part /\ Vol' = Vol /\ Trusted' = Trusted
<1>1. Part' = Part /\ Vol' = Vol
  BY DEF Part, Vol
<1>2. Good' = Good /\ Trusted' = Trusted
  BY <1>1 DEF Good, Trusted
<1>3. pc \notin {"disk", "halted"}
  BY DEF Mounted
<1>4. LoopInv'
  BY <1>1, <1>3 DEF LoopInv
<1>5. MountInv'
  BY <1>1, <1>2 DEF MountInv, Geometry
<1>6. ReadsInVolume'
  BY <1>1 DEF ReadsInVolume, Part
<1>7. ConsoleInv'
  <2>1. Clean' = Clean
    BY CleanStays
  <2> QED BY <1>3, <2>1 DEF ConsoleInv
<1>8. OpenedInv' /\ ReadDone' /\ ReadExact'
  BY DEF OpenedInv, ReadDone, ReadExact, At
<1> QED BY <1>1, <1>2, <1>4, <1>5, <1>6, <1>7, <1>8

\* A volume in use whose boot sector was read.
LEMMA TrustedPlaced ==
  ASSUME LoopInv, MountInv, Trusted
  PROVE  Placed
BY PartIs DEF MountInv, Placed, Trusted, Good

\* EXFAT_open_file is called: the search begins at the root.
LEMMA OpenHelloRight ==
  ASSUME LoopInv, MountInv, ReadsInVolume, ConsoleInv, OpenHello
  PROVE  /\ LoopInv' /\ MountInv' /\ OpenInv' /\ ReadInv' /\ OpenedInv' /\ ReadDone'
         /\ ReadExact' /\ ReadsInVolume' /\ ConsoleInv'
<1>1. /\ UNCHANGED <<disk, flaky, fs, fault, lbas, machine, caller, d, p, parts, console>>
      /\ pc = "open" /\ pc' = "opened" /\ path' \in caller.paths /\ path' # <<>>
      /\ call' = [op |-> "open", pc |-> "read", path |-> path', cluster |-> fs.root,
                  buffer |-> [k \in 1 .. ClusterCells |-> Fresh], before |-> heap]
  BY DEF OpenHello, Open, At
<1>2. /\ call'.op = "open" /\ call'.pc = "read" /\ call'.path = path'
      /\ call'.cluster = fs.root /\ call' # NoCall
  <2>1. call'.op = "open"
    BY <1>1
  <2> QED BY <1>1, <2>1 DEF NoCall
<1>3. Mounted /\ Mounted'
  BY <1>1 DEF Mounted
<1>4. /\ LoopInv' /\ MountInv' /\ ReadsInVolume' /\ ConsoleInv'
      /\ OpenedInv' /\ ReadDone' /\ ReadExact'
      /\ Part' = Part /\ Vol' = Vol /\ Trusted' = Trusted
  BY <1>1, <1>2, <1>3, CallBegins
<1>5. OpenInv'
  <2> SUFFICES ASSUME Trusted PROVE OpenInv'
    BY <1>4 DEF OpenInv
  <2> DEFINE root == Vol.entries[<<>>]
  <2>1. Placed
    BY TrustedPlaced
  <2>2. <<>> \in DOMAIN Vol.entries /\ root.directory /\ root.first = fs.root
    BY <2>1, PlacedIs DEF Placed, IsVolume, Vol, Part
  <2>3. Len(root.clusters) \in Nat \ {0} /\ root.clusters[1] = fs.root
    BY <2>1, <2>2, DirectoryIs
  <2>4. IsSequence(path') /\ Len(path') \in Nat \ {0}
    <3>1. IsSequence(path')
      BY <1>1, CallersAssumption DEF LoopInv
    <3> DEFINE q == path'  S == Range(path')
    <3>2. q \in Seq(S) /\ q # <<>>
      BY <1>1, <3>1 DEF IsSequence
    <3> HIDE DEF q, S
    <3>3. Len(q) \in Nat \ {0}
      BY <3>2
    <3> QED BY <3>1, <3>3 DEF q
  <2>5. Prefix(0)' = <<>> /\ path' = SubSeq(path', 0 + 1, Len(path'))
    BY <2>4, WholePrefix DEF Prefix
  <2>6. Passed(Prefix(0), Prefix(0 + 1), 1)'
    BY DEF Passed
  <2>7. Searching(0, 1)'
    <3>1. /\ call'.path = SubSeq(path', 0 + 1, Len(path'))
          /\ Prefix(0)' \in DOMAIN Vol'.entries /\ Vol'.entries[Prefix(0)'].directory
          /\ 1 \in 1 .. Len(Vol'.entries[Prefix(0)'].clusters)
          /\ call'.cluster = Vol'.entries[Prefix(0)'].clusters[1]
          /\ call'.pc # "next" /\ call'.pc # "scan"
      BY <1>2, <1>4, <2>2, <2>3, <2>5
    <3> QED BY <2>6, <3>1 DEF Searching
  <2>8. 0 \in 0 .. Len(path') - 1 /\ 1 \in 1 .. Len(Vol'.entries[Prefix(0)'].clusters)
    BY <1>4, <2>3, <2>4, <2>5
  <2> QED BY <1>2, <2>7, <2>8 DEF OpenInv
<1>6. ReadInv'
  BY <1>1 DEF ReadInv
<1> QED BY <1>4, <1>5, <1>6

\* A read is called: it begins at the first cluster with nothing.
LEMMA ReadHelloRight ==
  ASSUME LoopInv, MountInv, OpenedInv, ReadsInVolume, ConsoleInv, ReadHello
  PROVE  /\ LoopInv' /\ MountInv' /\ OpenInv' /\ ReadInv' /\ OpenedInv' /\ ReadDone'
         /\ ReadExact' /\ ReadsInVolume' /\ ConsoleInv'
<1>1. /\ UNCHANGED <<disk, flaky, fs, fault, lbas, machine, caller, d, p, parts, path, console>>
      /\ pc = "opened" /\ pc' = "read" /\ At("opened") /\ reply.ok
  <2>1. PICK op \in caller.reads : Read(op, reply.file)
    BY DEF ReadHello
  <2> QED BY <2>1 DEF ReadHello, Read, At
<1>2. PICK op \in caller.reads :
        call' = [op |-> op, pc |-> "load", file |-> reply.file,
                 cluster |-> reply.file.first, data |-> <<>>, before |-> heap,
                 buffer |-> [k \in 1 .. ClusterCells |-> Fresh]]
  BY DEF ReadHello, Read
<1>3. op \in {"read_all", "read_file"}
  BY CallersAssumption DEF LoopInv
<1>4. /\ call'.op = op /\ call'.pc = "load" /\ call'.file = reply.file
      /\ call'.cluster = reply.file.first /\ call'.data = <<>> /\ call' # NoCall
  <2>1. call'.op = op
    BY <1>2
  <2> QED BY <1>2, <1>3, <2>1 DEF NoCall
<1>5. Mounted /\ Mounted' /\ path \in caller.paths /\ path # <<>>
  BY <1>1 DEF Mounted, LoopInv
<1>6. /\ LoopInv' /\ MountInv' /\ ReadsInVolume' /\ ConsoleInv'
      /\ OpenedInv' /\ ReadDone' /\ ReadExact'
      /\ Part' = Part /\ Vol' = Vol /\ Trusted' = Trusted
  BY <1>1, <1>4, <1>5, CallBegins
<1>7. Wanted' = Wanted /\ Chain' = Chain
  BY <1>1, <1>6 DEF Wanted, Chain
<1>8. ReadInv'
  <2> SUFFICES ASSUME Trusted PROVE ReadInv'
    BY <1>6 DEF ReadInv
  <2>1. Placed /\ path \in DOMAIN Vol.entries /\ Describes(reply.file, Wanted)
    BY <1>1, TrustedPlaced DEF OpenedInv
  <2>2. /\ IsFile(disk, Part, Wanted) /\ Wanted.length \in Nat
        /\ Len(Wanted.clusters) \in Nat /\ Chain = Wanted.chain
        /\ Wanted.clusters # <<>> =>
             Len(Wanted.clusters) # 0 /\ Wanted.clusters[1] = Wanted.first
    BY <2>1, WantedIs
  <2>3. IsSequence(<<>>) /\ Len(<<>>) = 0
    <3>1. <<>> \in Seq({})
      OBVIOUS
    <3> QED BY <3>1, SeqIs
  <2>4. Complete' <=> ~(0 < Wanted.length)
    BY <1>4, <2>1, <2>2, <2>3 DEF Complete, Describes
  <2>5. Len(Wanted.clusters) * ClusterCells \in Nat
    BY <2>2, ClusterCellsIs
  <2>6. Chain = "short" => 0 < Wanted.length
    BY <2>2, <2>5 DEF IsFile
  <2>7. 0 < Wanted.length => Wanted.clusters # <<>>
    <3> SUFFICES ASSUME 0 < Wanted.length, Wanted.clusters = <<>> PROVE FALSE
      OBVIOUS
    <3>1. Wanted.length <= Len(Wanted.clusters) * ClusterCells
      BY <2>2 DEF IsFile
    <3>2. Len(Wanted.clusters) * ClusterCells = 0
      <4>1. Len(Wanted.clusters) = 0
        OBVIOUS
      <4> QED BY <4>1, ClusterCellsIs
    <3> QED BY <2>2, <3>1, <3>2
  <2>8. 0 < Wanted.length => 1 \in 1 .. Len(Wanted.clusters) /\ ReadingAt(1)'
    <3> SUFFICES ASSUME 0 < Wanted.length
                 PROVE  1 \in 1 .. Len(Wanted.clusters) /\ ReadingAt(1)'
      OBVIOUS
    <3>1. 1 \in 1 .. Len(Wanted.clusters) /\ Wanted.clusters[1] = Wanted.first
      BY <2>2, <2>7
    <3>2. (1 - 1) * ClusterCells = 0
      BY ClusterCellsIs
    <3>3. call'.cluster = Wanted'.clusters[1]
      BY <1>4, <1>7, <2>1, <3>1 DEF Describes
    <3>4. Len(call'.data) = (IF call'.pc = "load" THEN 1 - 1 ELSE 1) * ClusterCells
      BY <1>4, <2>3, <3>2
    <3> QED BY <3>1, <3>3, <3>4 DEF ReadingAt
  <2>9. Describes(call.file, Wanted)'
    BY <1>4, <1>7, <2>1 DEF Describes
  <2>10. /\ IsSequence(call'.data) /\ Len(call'.data) <= Wanted'.length
         /\ \A j \in 1 .. Len(call'.data) : call'.data[j] = Wanted'.data[j]
    BY <1>4, <1>7, <2>2, <2>3
  <2>11. path' = path /\ call'.pc = "load"
    BY <1>1, <1>4
  <2> QED BY <1>6, <1>7, <2>1, <2>4, <2>6, <2>8, <2>9, <2>10, <2>11 DEF ReadInv
<1>9. OpenInv'
  BY <1>3, <1>4 DEF OpenInv
<1> QED BY <1>6, <1>8, <1>9

LEMMA InitRight == Init => VolumeInv
<1> SUFFICES ASSUME Init PROVE VolumeInv
  OBVIOUS
<1>1. HeapInv
  BY InitKeeps
<1>2. machine \in Machines /\ caller \in Callers /\ pc = "disk" /\ d = 1 /\ p = 1
      /\ disk = machine[1].sectors /\ flaky = machine[1].flaky /\ call = NoCall
      /\ console = <<>> /\ ~Mounted
  BY DEF Init, Mounted
<1>3. Len(machine) \in Nat
  BY <1>2, MachinesAssumption DEF IsSequence
<1>4. LoopInv
  BY <1>2, <1>3 DEF LoopInv
<1>5. ConsoleInv
  <2>1. AfterDisks(machine)[0] = <<>>
    <3>1. 0 \in 0 .. Len(machine)
      BY <1>3
    <3> QED BY <1>3, <3>1, DisksAre
  <2>2. d - 1 = 0
    BY <1>2
  <2> QED BY <1>2, <2>1, <2>2 DEF ConsoleInv
<1>6. MountInv /\ OpenInv /\ ReadInv /\ OpenedInv /\ ReadDone /\ ReadExact /\ ReadsInVolume
  BY <1>2 DEF MountInv, Trusted, Good, OpenInv, ReadInv, OpenedInv, ReadDone, ReadExact,
              ReadsInVolume, At, NoCall
<1> QED BY <1>1, <1>4, <1>5, <1>6 DEF VolumeInv

LEMMA VolumeStep == VolumeInv /\ [Next]_vars => VolumeInv'
<1> SUFFICES ASSUME VolumeInv, [Next]_vars PROVE VolumeInv'
  OBVIOUS
<1>1. /\ HeapInv /\ LoopInv /\ MountInv /\ OpenInv /\ ReadInv /\ OpenedInv /\ ReadDone
      /\ ReadExact /\ ReadsInVolume /\ ConsoleInv
  BY DEF VolumeInv
<1>2. HeapInv'
  BY <1>1, HeapStep
<1>3. CASE FsStep /\ UNCHANGED mainVars
  BY <1>3, FsStepRight
<1>4. CASE GetPartitions \/ NoPartitions \/ SkipPartition \/ HelloAbsent \/ ShowHello
             \/ PrintFaults \/ PartitionsDone \/ Halt
  <2>1. LoopInv' /\ ConsoleInv' /\ ~Mounted' /\ call' = NoCall
    BY <1>1, <1>4, GetPartitionsRight, NoPartitionsRight, SkipPartitionRight,
       HelloAbsentRight, ShowHelloRight, PrintFaultsRight, PartitionsDoneRight, HaltRight
  <2> QED BY <1>2, <2>1, NothingMounted DEF VolumeInv
<1>5. CASE Mount
  BY <1>1, <1>2, <1>5, MountRight DEF VolumeInv
<1>6. CASE OpenHello
  BY <1>1, <1>2, <1>6, OpenHelloRight DEF VolumeInv
<1>7. CASE ReadHello
  BY <1>1, <1>2, <1>7, ReadHelloRight DEF VolumeInv
<1>8. CASE UNCHANGED vars
  <2>1. UNCHANGED <<machine, caller, pc, d, p, parts, path, console, disk, flaky, fs, call,
                    reply, heap, fault, lbas>>
    BY <1>8 DEF vars, fsVars, mainVars
  <2>2. Part' = Part /\ Vol' = Vol /\ Good' = Good /\ Trusted' = Trusted /\ Mounted' = Mounted
    BY <2>1 DEF Part, Vol, Good, Trusted, Mounted
  <2>3. Wanted' = Wanted /\ Chain' = Chain /\ Complete' = Complete /\ Clean' = Clean
    BY <2>1, <2>2 DEF Wanted, Chain, Complete, Clean
  <2>4. LoopInv' /\ MountInv' /\ ConsoleInv'
    BY <1>1, <2>1, <2>2, <2>3 DEF LoopInv, MountInv, Geometry, ConsoleInv
  <2>5. OpenInv'
    <3>1. \A n : Prefix(n)' = Prefix(n)
      BY <2>1 DEF Prefix
    <3>2. ASSUME NEW n, NEW k, NEW m
          PROVE  Passed(Prefix(n), Prefix(n + 1), m)' = Passed(Prefix(n), Prefix(n + 1), m)
      BY <2>1, <2>2, <3>1 DEF Passed
    <3>3. ASSUME NEW n, NEW k PROVE Searching(n, k)' = Searching(n, k)
      BY <2>1, <2>2, <3>1, <3>2 DEF Searching
    <3> QED BY <1>1, <2>1, <2>2, <3>1, <3>3 DEF OpenInv
  <2>6. ReadInv'
    BY <1>1, <2>1, <2>2, <2>3 DEF ReadInv, ReadingAt, Describes
  <2>7. OpenedInv' /\ ReadDone' /\ ReadExact' /\ ReadsInVolume'
    BY <1>1, <2>1, <2>2, <2>3 DEF OpenedInv, Describes, ReadDone, ReadExact, ReadsInVolume,
                                  At
  <2> QED BY <1>2, <2>4, <2>5, <2>6, <2>7 DEF VolumeInv
<1> QED BY <1>3, <1>4, <1>5, <1>6, <1>7, <1>8 DEF Next

-----------------------------------------------------------------------------
(* What is found, read and printed                                         *)

\* The inductive invariant of what is found, read and printed.
THEOREM VolumeInvariance == Spec => []VolumeInv
BY InitRight, VolumeStep, PTL DEF Spec

\* OpenExact: EXFAT_open_file finds exactly the files that there are, for every path,
\* on every volume as ExFatVolume defines it: with names of characters of one byte.
THEOREM OpensExact == Spec => []OpenExact
<1>1. VolumeInv => OpenExact
  <2> SUFFICES ASSUME VolumeInv, At("opened"), Vol.searchable PROVE OpenExact
    BY DEF OpenExact
  <2>1. OpenedInv /\ Mounted
    BY DEF VolumeInv, Mounted, At
  <2> QED BY <2>1 DEF OpenExact, OpenedInv, Trusted, Good, Describes, Wanted
<1> QED BY <1>1, VolumeInvariance, PTL

\* ReadExact: EXFAT_read_file_ALL returns the whole file or NULL, and no function
\* returns wrong data while no read fails.
THEOREM ReadsExact == Spec => []ReadExact
<1>1. VolumeInv => ReadExact
  BY DEF VolumeInv
<1> QED BY <1>1, VolumeInvariance, PTL

\* ReadsInVolume: as long as no read fails, the driver reads inside its partition.
THEOREM StaysInVolume == Spec => []ReadsInVolume
<1>1. VolumeInv => ReadsInVolume
  BY DEF VolumeInv
<1> QED BY <1>1, VolumeInvariance, PTL

\* HelloPrinted: on sound volumes kernel_main does not fault, and prints every hello
\* file, in order and to the last byte.
THEOREM HellosPrinted == Spec => []HelloPrinted
<1>1. VolumeInv => HelloPrinted
  <2> SUFFICES ASSUME VolumeInv, Clean
               PROVE  /\ pc # "fault"
                      /\ pc = "halted" => console = AfterDisks(machine)[Len(machine)]
    BY DEF HelloPrinted, Clean
  <2>1. LoopInv /\ ConsoleInv
    BY DEF VolumeInv
  <2>2. pc = "halted" => console = AfterDisks(machine)[d - 1] /\ d = Len(machine) + 1
    BY <2>1 DEF ConsoleInv, LoopInv
  <2>3. pc = "halted" => d - 1 = Len(machine)
    BY <2>1, <2>2, LoopIs
  <2>4. pc # "fault"
    BY <2>1 DEF ConsoleInv
  <2> QED BY <2>2, <2>3, <2>4
<1> QED BY <1>1, VolumeInvariance, PTL
===============================================================================
