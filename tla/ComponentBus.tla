---------------------------- MODULE ComponentBus ----------------------------
(***************************************************************************)
(* The component bus (drivers/component_bus/common.c) over PCIe:           *)
(* component_bus_init keeps the devices that PCIE_get_devices found, and   *)
(* drivers ask for those of a class, a subclass and, with the EX form, a   *)
(* programming interface.  The answer is an array that grows while it is   *)
(* filled and is cut to its length at the end.                             *)
(*                                                                         *)
(* The class codes of the functions matter to nothing else, so they are    *)
(* chosen when the question is asked.                                      *)
(***************************************************************************)
EXTENDS Pcie

CONSTANTS
  Codes,        \* class codes [class, subclass, prog_if]
  FirstAnswer,  \* entries the answer starts with (16)
  AnswerGrows   \* entries it grows by (16)

ASSUME BusAssumption == {FirstAnswer, AnswerGrows} \subseteq Nat \ {0}

VARIABLE answer   \* the last question and its answer, or NoAnswer

NoAnswer == [asked |-> FALSE]
busVars  == <<vars, answer>>

\* An entry that was allocated and not written.
Unset == 0

\* Mutant: the array grows when it is more than full.
FullLate(a) == a.idx > Len(a.ret)

Full(a) == a.idx >= Len(a.ret)

\* ret_IDX entries are written; one past the end of the array is lost.
Put(a, dev) ==
  LET ret == IF Full(a) THEN a.ret \o [k \in 1 .. AnswerGrows |-> Unset] ELSE a.ret
  IN [idx |-> a.idx + 1, ret |-> [k \in DOMAIN ret |-> IF k = a.idx + 1 THEN dev ELSE ret[k]]]

NothingYet == [idx |-> 0, ret |-> [k \in 1 .. FirstAnswer |-> Unset]]

\* The array after the first n devices have been looked at, of which those in wanted
\* are put into it.
Filled(wanted) ==
  LET filled[n \in 0 .. Len(devices)] ==
        IF n = 0 THEN NothingYet
        ELSE IF n \in wanted THEN Put(filled[n - 1], n)
        ELSE filled[n - 1]
  IN filled

\* The filled array, cut to the devices in it where it has room for more.  An array
\* of none is kalloc(0), NULL.
Answer(wanted) ==
  LET a == Filled(wanted)[Len(devices)]
  IN IF Len(a.ret) > a.idx THEN SubSeq(a.ret, 1, a.idx) ELSE a.ret

\* Whether the function f has the codes that are asked for.
Matches(codes, want, ex, f) ==
  /\ codes[f].class = want.class /\ codes[f].subclass = want.subclass
  /\ ex => codes[f].prog_if = want.prog_if

Asks(codes, want, ex) ==
  /\ drv.pc = "done" /\ answer = NoAnswer
  /\ LET wanted == {n \in DOMAIN devices : Matches(codes, want, ex, devices[n].fn)}
     IN answer' = [asked |-> TRUE, codes |-> codes, want |-> want, ex |-> ex,
                   ret |-> Answer(wanted)]
  /\ UNCHANGED vars

\* component_bus_get_devices and component_bus_get_devicesEX.
GetDevices(codes, want)   == Asks(codes, want, FALSE)
GetDevicesEX(codes, want) == Asks(codes, want, TRUE)

BusInit == Init /\ answer = NoAnswer

BusNext ==
  \/ Next /\ UNCHANGED answer
  \/ \E codes \in [DOMAIN hw -> Codes], want \in Codes :
       GetDevices(codes, want) \/ GetDevicesEX(codes, want)

\* One thread runs the kernel; drivers ask when they start.
BusSpec == BusInit /\ [][BusNext]_busVars /\ WF_busVars(Next /\ UNCHANGED answer)

\* component_bus_get_devices and its EX form answer with exactly the functions that
\* are on the bus and have the codes asked for, each once and in bus order, whether
\* the array grew, was cut or was filled to the last entry.
Filtered ==
  LET asked(f) ==
        /\ hw[f] # <<>>
        /\ answer.codes[f].class = answer.want.class
        /\ answer.codes[f].subclass = answer.want.subclass
        /\ ~answer.ex \/ answer.codes[f].prog_if = answer.want.prog_if
      fn(i) == devices[answer.ret[i]].fn
  IN answer # NoAnswer =>
       /\ Range(answer.ret) \subseteq DOMAIN devices
       /\ {fn(i) : i \in DOMAIN answer.ret} = {f \in DOMAIN hw : asked(f)}
       /\ \A i, j \in DOMAIN answer.ret : i < j => fn(i) < fn(j)
=============================================================================
