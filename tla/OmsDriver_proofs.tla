-------------------------- MODULE OmsDriver_proofs --------------------------
(***************************************************************************)
(* Proofs about OmsDriver for every number of interfaces, ring size, chunk *)
(* and length of a transfer.  What OMS hears of a run needs completions    *)
(* that do not preempt the task level; what it hears of a backlog needs    *)
(* that or a removal notification that is always installed.                *)
(***************************************************************************)
EXTENDS OmsDriver, SequenceLemmas

(* A task-level drain is in progress; it discards what omdvStartMIDI2      *)
(* found; omdvAddDevices is on its way to the interfaces.                  *)
Draining == task.at \in {"drain", "move"}
Discarding == (Draining /\ task.then = "reset") \/ task.at = "reset"
Adding == task.at = "add" \/ (Draining /\ task.then = "add")

Valid(i) == iface[i].valid
Listening(i) == Valid(i) /\ hook[i]
NoPorts == \A i \in Ifaces : ~Valid(i)

(* Interfaces are valid only while the shim knows a class driver, and a    *)
(* stream is inside a run only on a valid one.                             *)
Knows == \A i \in Ifaces : IF Valid(i) THEN oms.table ELSE ~iface[i].inSysex

(* The drain at the end of a binding finds no interface yet, so the only   *)
(* drain that takes anything at task level is the one that discards.       *)
Underway ==
  /\ Adding => oms.table
  /\ Draining /\ task.then # "reset" => NoPorts
  /\ Draining /\ task.then = "reset" => ~task.deliver
  /\ task.at = "move" => Valid(task.i)

BaseInv == TypeOK /\ Knows /\ Underway

(* Behind the discarding drain, and from then until MIDI is started, the   *)
(* rings of the known interfaces are empty: nothing is stored in one, or   *)
(* it has a hook that drains it on the spot.                               *)
Kept(i) == Valid(i) /\ (hook[i] \/ ~Preempts)
EmptyBehind ==
  Draining /\ task.then = "reset" =>
    \A i \in Ifaces : i < task.i /\ Kept(i) => ring[i] = <<>>
EmptyRings ==
  task.at \in {"reset", "start"} => \A i \in Ifaces : Kept(i) => ring[i] = <<>>

(* While MIDI runs an interface that was known and hooked when it was      *)
(* started has its hook and an empty ring, until its driver leaves.        *)
ServedEmpty ==
  oms.started => \A i \in Ifaces :
    served[i] => IF Valid(i) THEN hook[i] /\ ring[i] = <<>> ELSE usb.leaving
LeavingIdle == usb.leaving => task.at = "idle"
RingInv == EmptyBehind /\ EmptyRings /\ ServedEmpty /\ LeavingIdle

(* Where the notification cannot fail, OMS has let go of a driver that     *)
(* leaves, and every known interface has its hook.                         *)
Told ==
  /\ oms.table => oms.alive
  /\ oms.alive => oms.notifier
  /\ usb.leaving => ~oms.table
  /\ \A i \in Ifaces : Valid(i) => hook[i]
ToldInv == ~NotifierMayFail => Told

(* While MIDI runs no ring holds anything of the discarded backlog.        *)
Current(packets) == \A k \in 1..Len(packets) : packets[k].age # "waiting"
Fresh(messages) == \A m \in messages : m.age # "waiting"
AgeInv ==
  /\ oms.started => \A i \in Ifaces : Current(ring[i])
  /\ out # {} => oms.started
  /\ Fresh(out)

(* While MIDI runs OMS has the start of every run a stream it asked for is *)
(* inside of, except for streams that are about to be reset.               *)
Begun(inSysex, started) == inSysex => started
RunsBegun ==
  oms.started /\ oms.rxRoutine =>
    \A i \in Ifaces :
      iface[i].ref = "on"
        => \/ Begun(iface[i].inSysex, run[i])
           \/ Discarding \/ (task.at = "streams" /\ task.i = i)
StreamsReset == task.at = "start" => \A i \in Ifaces : ~iface[i].inSysex
HasStart(messages) == \A m \in messages : m.tag = "mid" => m.run
RunInv == StreamsReset /\ RunsBegun /\ HasStart(out)

-----------------------------------------------------------------------------
(* The loop of oms_rx_drain.                                               *)

(* Each turn follows the one before: the recursion is well founded.        *)
TurnByTurn(after, start, packets, deliver) ==
  /\ after[0] = start
  /\ \A k \in 1..Len(packets) : after[k] = Drained(after[k - 1], packets[k], deliver)

LEMMA TurnsFollow ==
  ASSUME NEW start, NEW packets, Len(packets) \in Nat, NEW deliver
  PROVE  TurnByTurn(Turns(start, packets, deliver), start, packets, deliver)
<1> DEFINE Repeats(f, m) ==
             f = [k \in 0..m |-> IF k = 0 THEN start
                                 ELSE Drained(f[k - 1], packets[k], deliver)]
           S == {m \in Nat : \E f : Repeats(f, m)}
<1>1. 0 \in S
  <2>1. Repeats([k \in {0} |-> start], 0)
    OBVIOUS
  <2> QED
    BY <2>1
<1>2. ASSUME NEW m \in Nat, m \in S PROVE m + 1 \in S
  <2>1. PICK f : Repeats(f, m)
    BY <1>2
  <2> DEFINE g == [k \in 0..(m + 1) |-> IF k = m + 1 THEN Drained(f[m], packets[m + 1], deliver)
                                        ELSE f[k]]
  <2>2. \A k \in 0..(m + 1) :
          g[k] = IF k = 0 THEN start ELSE Drained(g[k - 1], packets[k], deliver)
    BY <2>1
  <2>3. Repeats(g, m + 1)
    BY <2>2
  <2> HIDE DEF Repeats, g
  <2> QED
    BY <2>3
<1>3. Len(packets) \in S
  <2> HIDE DEF S
  <2> QED
    BY <1>1, <1>2, SetInduction
<1>4. \E f : Repeats(f, Len(packets))
  BY <1>3
<1>5. Repeats(Turns(start, packets, deliver), Len(packets))
  BY <1>4 DEF Turns
<1> QED
  BY <1>5 DEF TurnByTurn

KindByKind(after, inRun, kinds) ==
  /\ after[0] = inRun
  /\ \A k \in 1..Len(kinds) : after[k] = InSysexAfter(after[k - 1], kinds[k])

LEMMA InsideFollows ==
  ASSUME NEW inRun, NEW kinds, Len(kinds) \in Nat
  PROVE  KindByKind(Inside(inRun, kinds), inRun, kinds)
<1> DEFINE Repeats(f, m) ==
             f = [k \in 0..m |-> IF k = 0 THEN inRun ELSE InSysexAfter(f[k - 1], kinds[k])]
           S == {m \in Nat : \E f : Repeats(f, m)}
<1>1. 0 \in S
  <2>1. Repeats([k \in {0} |-> inRun], 0)
    OBVIOUS
  <2> QED
    BY <2>1
<1>2. ASSUME NEW m \in Nat, m \in S PROVE m + 1 \in S
  <2>1. PICK f : Repeats(f, m)
    BY <1>2
  <2> DEFINE g == [k \in 0..(m + 1) |-> IF k = m + 1 THEN InSysexAfter(f[m], kinds[m + 1])
                                        ELSE f[k]]
  <2>2. \A k \in 0..(m + 1) :
          g[k] = IF k = 0 THEN inRun ELSE InSysexAfter(g[k - 1], kinds[k])
    BY <2>1
  <2>3. Repeats(g, m + 1)
    BY <2>2
  <2> HIDE DEF Repeats, g
  <2> QED
    BY <2>3
<1>3. Len(kinds) \in S
  <2> HIDE DEF S
  <2> QED
    BY <1>1, <1>2, SetInduction
<1>4. \E f : Repeats(f, Len(kinds))
  BY <1>3
<1>5. Repeats(Inside(inRun, kinds), Len(kinds))
  BY <1>4 DEF Inside
<1> QED
  BY <1>5 DEF KindByKind

(* What a turn leaves.                                                     *)
IfaceType == [valid : BOOLEAN, ref : RefNum, inSysex : BOOLEAN]
LoopType == [iface : IfaceType, run : BOOLEAN, out : SUBSET Message]
Given(st, deliver) == deliver /\ st.iface.ref = "on" /\ oms.rxRoutine

LEMMA TagTypes ==
  ASSUME NEW inSysex \in BOOLEAN, NEW kind \in Kinds
  PROVE  /\ Tag(inSysex, kind) \in {"none", "start", "mid", "end"}
         /\ InSysexAfter(inSysex, kind) \in BOOLEAN
         /\ Tag(inSysex, kind) = "mid" => inSysex
         /\ InSysexAfter(inSysex, kind) =>
              Tag(inSysex, kind) \in {"start", "mid"} \/ (Tag(inSysex, kind) = "none" /\ inSysex)
BY DEF Tag, InSysexAfter, Kinds

Turned(next, st, packet, deliver) ==
  LET tag == Tag(st.iface.inSysex, packet.kind)
      message == [kind |-> packet.kind, tag |-> tag, run |-> st.run, age |-> packet.age]
  IN  /\ next \in LoopType
      /\ next.iface.valid = st.iface.valid
      /\ next.iface.ref = "on" <=> st.iface.ref = "on"
      /\ next.iface.inSysex <=> InSysexAfter(st.iface.inSysex, packet.kind)
      /\ next.run <=> IF Given(st, deliver) /\ tag # "none" THEN tag # "end" ELSE st.run
      /\ next.out = IF Given(st, deliver) THEN st.out \cup {message} ELSE st.out

LEMMA TurnFields ==
  ASSUME NEW st \in LoopType, NEW packet \in Packet, NEW deliver \in BOOLEAN
  PROVE  Turned(Drained(st, packet, deliver), st, packet, deliver)
<1> DEFINE tag == Tag(st.iface.inSysex, packet.kind)
           message == [kind |-> packet.kind, tag |-> tag, run |-> st.run, age |-> packet.age]
<1>1. /\ st.iface \in IfaceType /\ st.run \in BOOLEAN /\ st.out \subseteq Message
      /\ packet.kind \in Kinds /\ packet.age \in Ages
  BY DEF LoopType, Packet
<1>2. st.iface.inSysex \in BOOLEAN /\ st.iface.ref \in RefNum /\ st.iface.valid \in BOOLEAN
  BY <1>1 DEF IfaceType
<1>3. tag \in {"none", "start", "mid", "end"}
  BY <1>1, <1>2, TagTypes
<1>4. message \in Message
  BY <1>1, <1>3 DEF Message
<1>5. PICK inside \in BOOLEAN : inside = InSysexAfter(st.iface.inSysex, packet.kind)
  BY <1>1, <1>2, TagTypes
<1>6. PICK begun \in BOOLEAN :
        begun = IF Given(st, deliver) /\ tag # "none" THEN tag # "end" ELSE st.run
  BY <1>1
<1>7. PICK out2 : out2 = IF Given(st, deliver) THEN st.out \cup {message} ELSE st.out
  OBVIOUS
<1>8. PICK ref \in RefNum : ref = IF st.iface.ref = "unset" THEN "off" ELSE st.iface.ref
  BY <1>2 DEF RefNum
<1>9. PICK port : port = [st.iface EXCEPT !.ref = ref, !.inSysex = inside]
  OBVIOUS
<1>10. [st.iface EXCEPT !.ref = IF @ = "unset" THEN "off" ELSE @,
                        !.inSysex = InSysexAfter(@, packet.kind)] = port
  BY <1>5, <1>8, <1>9
<1>11. Drained(st, packet, deliver) = [iface |-> port, run |-> begun, out |-> out2]
  BY <1>6, <1>7, <1>10 DEF Drained, Given
<1> HIDE DEF message, tag
<1>12. port \in IfaceType /\ port.valid = st.iface.valid /\ port.ref = ref /\ port.inSysex = inside
  BY <1>1, <1>5, <1>8, <1>9 DEF IfaceType
<1>13. out2 \subseteq Message
  BY <1>1, <1>4, <1>7
<1>14. PICK next : next = Drained(st, packet, deliver)
  OBVIOUS
<1>15. /\ next \in LoopType /\ next.iface = port /\ next.run = begun /\ next.out = out2
  BY <1>11, <1>12, <1>13, <1>14 DEF LoopType
<1>16. next.iface.ref = "on" <=> st.iface.ref = "on"
  BY <1>8, <1>12, <1>15
<1>17. next.iface.inSysex <=> InSysexAfter(st.iface.inSysex, packet.kind)
  BY <1>5, <1>12, <1>15
<1>18. next.run <=> IF Given(st, deliver) /\ tag # "none" THEN tag # "end" ELSE st.run
  BY <1>6, <1>15
<1>19. next.out = IF Given(st, deliver) THEN st.out \cup {message} ELSE st.out
  BY <1>7, <1>15
<1> QED
  BY <1>12, <1>14, <1>15, <1>16, <1>17, <1>18, <1>19 DEF message, tag, Turned

(* What holds after every turn: nothing is given that may not be, nothing  *)
(* turns older, and a stream inside a run of which OMS has the start gives *)
(* middle chunks of that run only.                                         *)
InRunBegun(st) == Begun(st.iface.inSysex, st.run)
LoopInv(st, start, packets, deliver) ==
  /\ st \in LoopType
  /\ st.iface.valid = start.iface.valid
  /\ st.iface.ref = "on" <=> start.iface.ref = "on"
  /\ ~Given(start, deliver) => st.out = {}
  /\ Current(packets) => Fresh(st.out)
  /\ Given(start, deliver) /\ InRunBegun(start) => InRunBegun(st) /\ HasStart(st.out)

LEMMA LoopTurn ==
  ASSUME NEW start, NEW packets \in Seq(Packet), NEW deliver \in BOOLEAN,
         NEW k \in 1..Len(packets), NEW st, LoopInv(st, start, packets, deliver)
  PROVE  LoopInv(Drained(st, packets[k], deliver), start, packets, deliver)
<1> DEFINE packet == packets[k]
           tag == Tag(st.iface.inSysex, packet.kind)
           message == [kind |-> packet.kind, tag |-> tag, run |-> st.run, age |-> packet.age]
<1>1. packet \in Packet /\ st \in LoopType
  BY ElementOfSeq DEF LoopInv
<1>2. PICK next : next = Drained(st, packet, deliver)
  OBVIOUS
<1>3. /\ next \in LoopType
      /\ next.iface.valid = st.iface.valid
      /\ next.iface.ref = "on" <=> st.iface.ref = "on"
      /\ next.iface.inSysex <=> InSysexAfter(st.iface.inSysex, packet.kind)
      /\ next.run <=> IF Given(st, deliver) /\ tag # "none" THEN tag # "end" ELSE st.run
      /\ next.out = IF Given(st, deliver) THEN st.out \cup {message} ELSE st.out
  <2>1. Turned(next, st, packet, deliver)
    BY <1>1, <1>2, TurnFields
  <2> QED
    BY <2>1 DEF Turned
<1>4. Given(st, deliver) <=> Given(start, deliver)
  BY DEF LoopInv, Given
<1>5. message.tag = tag /\ message.run = st.run /\ message.age = packet.age
  OBVIOUS
<1>6. st.iface.inSysex \in BOOLEAN /\ packet.kind \in Kinds
  BY <1>1 DEF LoopType, IfaceType, Packet
<1>7. /\ tag = "mid" => st.iface.inSysex
      /\ InSysexAfter(st.iface.inSysex, packet.kind) =>
           tag \in {"start", "mid"} \/ (tag = "none" /\ st.iface.inSysex)
  BY <1>6, TagTypes
<1> HIDE DEF message, tag
<1>8. ~Given(start, deliver) => next.out = {}
  BY <1>3, <1>4 DEF LoopInv
<1>9. Current(packets) => Fresh(next.out)
  BY <1>3, <1>5 DEF LoopInv, Current, Fresh
<1>10. ASSUME Given(start, deliver), InRunBegun(start)
       PROVE  InRunBegun(next) /\ HasStart(next.out)
  <2>1. InRunBegun(st) /\ HasStart(st.out)
    BY <1>10 DEF LoopInv
  <2>2. /\ next.run <=> IF tag # "none" THEN tag # "end" ELSE st.run
        /\ next.out = st.out \cup {message}
    BY <1>3, <1>4, <1>10
  <2>3. InRunBegun(next)
    BY <1>3, <1>7, <2>1, <2>2 DEF InRunBegun, Begun
  <2>4. message.tag = "mid" => message.run
    BY <1>5, <1>7, <2>1 DEF InRunBegun, Begun
  <2> QED
    BY <2>1, <2>2, <2>3, <2>4 DEF HasStart
<1>11. /\ next.iface.valid = start.iface.valid
       /\ next.iface.ref = "on" <=> start.iface.ref = "on"
  BY <1>3 DEF LoopInv
<1>12. LoopInv(next, start, packets, deliver)
  BY <1>3, <1>8, <1>9, <1>10, <1>11 DEF LoopInv
<1> QED
  BY <1>2, <1>12

LEMMA LoopEnds ==
  ASSUME NEW start \in LoopType, start.out = {}, NEW packets \in Seq(Packet),
         NEW deliver \in BOOLEAN
  PROVE  LoopInv(Turns(start, packets, deliver)[Len(packets)], start, packets, deliver)
<1> DEFINE after == Turns(start, packets, deliver)
           S == {k \in Nat : k <= Len(packets) => LoopInv(after[k], start, packets, deliver)}
<1>1. Len(packets) \in Nat
  BY LenProperties
<1>2. /\ after[0] = start
      /\ \A k \in 1..Len(packets) : after[k] = Drained(after[k - 1], packets[k], deliver)
  <2>1. TurnByTurn(Turns(start, packets, deliver), start, packets, deliver)
    BY <1>1, TurnsFollow
  <2> QED
    BY <2>1 DEF TurnByTurn
<1>3. 0 \in S
  <2>1. LoopInv(start, start, packets, deliver)
    BY DEF LoopInv, Fresh, HasStart
  <2> HIDE DEF after
  <2> QED
    BY <1>2, <2>1
<1>4. ASSUME NEW k \in Nat, k \in S PROVE k + 1 \in S
  <2>1. SUFFICES ASSUME k + 1 <= Len(packets)
                 PROVE  LoopInv(after[k + 1], start, packets, deliver)
    OBVIOUS
  <2>2. k + 1 \in 1..Len(packets) /\ LoopInv(after[k], start, packets, deliver)
    BY <1>1, <1>4, <2>1
  <2>3. after[k + 1] = Drained(after[k], packets[k + 1], deliver)
    BY <1>2, <2>2
  <2> QED
    BY <2>2, <2>3, LoopTurn
<1>5. Len(packets) \in S
  <2> HIDE DEF S
  <2> QED
    BY <1>1, <1>3, <1>4, SetInduction
<1> QED
  BY <1>1, <1>5

(* The position of the device after a transfer.                            *)
LEMMA InsideTypes ==
  ASSUME NEW inRun \in BOOLEAN, NEW kinds \in Seq(Kinds)
  PROVE  Inside(inRun, kinds)[Len(kinds)] \in BOOLEAN
<1> DEFINE after == Inside(inRun, kinds)
           S == {k \in Nat : k <= Len(kinds) => after[k] \in BOOLEAN}
<1>1. Len(kinds) \in Nat
  BY LenProperties
<1>2. /\ after[0] = inRun
      /\ \A k \in 1..Len(kinds) : after[k] = InSysexAfter(after[k - 1], kinds[k])
  <2>1. KindByKind(Inside(inRun, kinds), inRun, kinds)
    BY <1>1, InsideFollows
  <2> QED
    BY <2>1 DEF KindByKind
<1>3. 0 \in S
  BY <1>2
<1>4. ASSUME NEW k \in Nat, k \in S PROVE k + 1 \in S
  <2>1. SUFFICES ASSUME k + 1 <= Len(kinds)
                 PROVE  after[k + 1] \in BOOLEAN
    OBVIOUS
  <2>2. k + 1 \in 1..Len(kinds) /\ after[k] \in BOOLEAN
    BY <1>1, <1>4, <2>1
  <2>3. after[k + 1] = InSysexAfter(after[k], kinds[k + 1])
    BY <1>2, <2>2
  <2>4. kinds[k + 1] \in Kinds
    BY <2>2, ElementOfSeq
  <2> QED
    BY <2>2, <2>3, <2>4, TagTypes
<1>5. Len(kinds) \in S
  <2> HIDE DEF S
  <2> QED
    BY <1>1, <1>3, <1>4, SetInduction
<1> QED
  BY <1>1, <1>5

-----------------------------------------------------------------------------
(* Types, in every environment.                                            *)
UsbType == [loaded : BOOLEAN, leaving : BOOLEAN, count : 0..MaxInterfaces]
OmsType == [alive : BOOLEAN, table : BOOLEAN, notifier : BOOLEAN,
            started : BOOLEAN, rxRoutine : BOOLEAN]
TaskType == [at : {"idle", "drain", "move", "add", "discard", "reset", "start", "streams"},
             i : Ifaces, n : 0..Chunk, deliver : BOOLEAN,
             then : {"idle", "add", "discard", "reset"}]

LEMMA Types ==
  /\ TypeOK <=> /\ usb \in UsbType /\ hook \in [Ifaces -> BOOLEAN]
                /\ ring \in [Ifaces -> WaitingPackets] /\ over \in [Ifaces -> BOOLEAN]
                /\ source \in [Ifaces -> BOOLEAN] /\ oms \in OmsType
                /\ iface \in [Ifaces -> IfaceType] /\ task \in TaskType
                /\ run \in [Ifaces -> BOOLEAN] /\ out \subseteq Message
                /\ served \in [Ifaces -> BOOLEAN]
  /\ TypeOK' <=> /\ usb' \in UsbType /\ hook' \in [Ifaces -> BOOLEAN]
                 /\ ring' \in [Ifaces -> WaitingPackets] /\ over' \in [Ifaces -> BOOLEAN]
                 /\ source' \in [Ifaces -> BOOLEAN] /\ oms' \in OmsType
                 /\ iface' \in [Ifaces -> IfaceType] /\ task' \in TaskType
                 /\ run' \in [Ifaces -> BOOLEAN] /\ out' \subseteq Message
                 /\ served' \in [Ifaces -> BOOLEAN]
BY DEF TypeOK, UsbType, OmsType, TaskType, IfaceType

LEMMA IfaceZero == 0 \in Ifaces /\ Ifaces \subseteq Nat
BY SizesAssumption DEF Ifaces

LEMMA IfaceOrder ==
  ASSUME NEW i \in Ifaces, NEW j \in Ifaces
  PROVE  (i <= j => i < j \/ i = j) /\ (i < j + 1 => i <= j)
BY SizesAssumption DEF Ifaces

LEMMA IdleTyped == IdleTask \in TaskType
BY IfaceZero, SizesAssumption DEF IdleTask, TaskType

LEMMA DrainAllTyped ==
  ASSUME NEW deliver \in BOOLEAN, NEW then \in {"idle", "add", "discard", "reset"}
  PROVE  /\ DrainAll(deliver, then) \in TaskType
         /\ DrainAll(deliver, then).at = "drain"
         /\ DrainAll(deliver, then).i = 0
         /\ DrainAll(deliver, then).deliver <=> deliver
         /\ DrainAll(deliver, then).then = then
BY IfaceZero, SizesAssumption DEF DrainAll, TaskType

(* A task that waits at a step of an operation.                            *)
LEMMA AtTyped ==
  ASSUME NEW at \in {"idle", "add", "discard", "reset", "start", "streams"}
  PROVE  /\ [IdleTask EXCEPT !.at = at] \in TaskType
         /\ [IdleTask EXCEPT !.at = at].at = at
BY IdleTyped DEF TaskType

LEMMA NextRingTyped ==
  ASSUME task \in TaskType
  PROVE  /\ NextRing \in TaskType
         /\ IF task.i + 1 \in Ifaces
            THEN /\ NextRing.at = "drain" /\ NextRing.i = task.i + 1
                 /\ NextRing.deliver = task.deliver /\ NextRing.then = task.then
            ELSE NextRing.at = task.then
<1>1. CASE task.i + 1 \in Ifaces
  BY <1>1 DEF NextRing, TaskType
<1>2. CASE task.i + 1 \notin Ifaces
  <2>1. NextRing = [IdleTask EXCEPT !.at = task.then]
    BY <1>2 DEF NextRing
  <2>2. task.then \in {"idle", "add", "discard", "reset"}
    BY DEF TaskType
  <2> QED
    BY <1>2, <2>1, <2>2, AtTyped
<1> QED
  BY <1>1, <1>2

LEMMA WaitingIsSeq ==
  ASSUME NEW q \in WaitingPackets
  PROVE  q \in Seq(Packet) /\ Len(q) \in 0..RingPackets
<1>1. PICK n \in 0..RingPackets : q \in [1..n -> Packet]
  BY DEF WaitingPackets
<1>2. n \in Nat
  BY SizesAssumption
<1>3. q \in Seq(Packet)
  BY <1>1, <1>2
<1> QED
  BY <1>1, <1>2, <1>3, LenProperties

LEMMA SeqIsWaiting ==
  ASSUME NEW q \in Seq(Packet), Len(q) <= RingPackets
  PROVE  q \in WaitingPackets
<1>1. q \in [1..Len(q) -> Packet] /\ Len(q) \in 0..RingPackets
  BY LenProperties, SizesAssumption
<1> QED
  BY <1>1 DEF WaitingPackets

LEMMA EmptyIsWaiting == <<>> \in WaitingPackets
<1>1. <<>> \in Seq(Packet) /\ Len(<<>>) = 0
  OBVIOUS
<1>2. 0 <= RingPackets
  BY SizesAssumption
<1> QED
  BY <1>1, <1>2, SeqIsWaiting

(* Draining packets of a ring into a port.                                 *)
Port(i) == [iface |-> iface[i], run |-> run[i], out |-> {}]

LEMMA DrainSound ==
  ASSUME TypeOK, NEW i \in Ifaces, NEW packets \in Seq(Packet), NEW deliver \in BOOLEAN
  PROVE  LoopInv(DrainPackets(i, packets, deliver), Port(i), packets, deliver)
<1>1. Port(i) \in LoopType /\ Port(i).out = {}
  BY Types DEF Port, LoopType
<1> QED
  BY <1>1, LoopEnds DEF DrainPackets, Port

(* The first packets of a ring, and the others.                            *)
LEMMA Cut ==
  ASSUME NEW q \in Seq(Packet), NEW n \in Nat
  PROVE  /\ SubSeq(q, n + 1, Len(q)) \in Seq(Packet)
         /\ Len(SubSeq(q, n + 1, Len(q))) <= Len(q)
         /\ SubSeq(q, 1, Lesser(n, Len(q))) \in Seq(Packet)
<1>1. Len(q) \in Nat
  BY LenProperties
<1>2. Lesser(n, Len(q)) \in Nat /\ Lesser(n, Len(q)) <= Len(q)
  BY <1>1 DEF Lesser
<1> QED
  BY <1>1, <1>2

(* What a transfer adds to a ring.                                         *)
ArrivalAge == IF oms.started THEN "new" ELSE "waiting"
Stored(i, kinds) ==
  [k \in 1..Lesser(Len(kinds), Room(i)) |-> [kind |-> kinds[k], age |-> ArrivalAge]]

LEMMA TransferIsSeq ==
  ASSUME NEW inRun, NEW kinds \in Transfers(inRun)
  PROVE  kinds \in Seq(Kinds)
<1>1. PICK n \in 1..MaxRead : kinds \in [1..n -> Kinds]
  BY DEF Transfers
<1> QED
  BY <1>1, SizesAssumption

LEMMA StoredTyped ==
  ASSUME TypeOK, NEW i \in Ifaces, NEW kinds \in Seq(Kinds)
  PROVE  /\ ring[i] \o Stored(i, kinds) \in Seq(Packet)
         /\ ring[i] \o Stored(i, kinds) \in WaitingPackets
         /\ oms.started /\ Current(ring[i]) => Current(ring[i] \o Stored(i, kinds))
<1> DEFINE m == Lesser(Len(kinds), Room(i))
<1>1. ring[i] \in Seq(Packet) /\ Len(ring[i]) \in 0..RingPackets
  BY Types, WaitingIsSeq
<1>2. Len(kinds) \in Nat
  BY LenProperties
<1>3. Room(i) \in Nat /\ Len(ring[i]) + Room(i) = RingPackets
  BY <1>1, SizesAssumption DEF Room
<1>4. m \in Nat /\ m <= Len(kinds) /\ m <= Room(i)
  BY <1>2, <1>3 DEF Lesser
<1>5. ArrivalAge \in Ages
  BY DEF ArrivalAge, Ages
<1>6. \A k \in 1..m : [kind |-> kinds[k], age |-> ArrivalAge] \in Packet
  <2>1. \A k \in 1..m : kinds[k] \in Kinds
    BY <1>2, <1>4, ElementOfSeq
  <2> QED
    BY <1>5, <2>1 DEF Packet
<1>7. Stored(i, kinds) \in Seq(Packet) /\ Len(Stored(i, kinds)) = m
  <2>1. Stored(i, kinds) = [k \in 1..m |-> [kind |-> kinds[k], age |-> ArrivalAge]]
    BY DEF Stored
  <2>2. Stored(i, kinds) \in [1..m -> Packet]
    BY <1>6, <2>1
  <2> HIDE DEF m
  <2>3. Stored(i, kinds) \in Seq(Packet)
    BY <1>4, <2>2
  <2>4. DOMAIN Stored(i, kinds) = 1..m
    BY <2>2
  <2> QED
    BY <1>4, <2>3, <2>4, LenProperties
<1> HIDE DEF m
<1>8. /\ ring[i] \o Stored(i, kinds) \in Seq(Packet)
      /\ Len(ring[i] \o Stored(i, kinds)) = Len(ring[i]) + m
  BY <1>1, <1>7, ConcatProperties
<1>9. Len(ring[i]) + m <= RingPackets
  BY <1>1, <1>3, <1>4, SizesAssumption
<1>10. ring[i] \o Stored(i, kinds) \in WaitingPackets
  BY <1>8, <1>9, SeqIsWaiting
<1>11. ASSUME oms.started, Current(ring[i])
       PROVE  Current(ring[i] \o Stored(i, kinds))
  <2>1. \A k \in 1..m : Stored(i, kinds)[k].age # "waiting"
    BY <1>11 DEF Stored, ArrivalAge, m
  <2>2. ASSUME NEW k \in 1..(Len(ring[i]) + m)
        PROVE  (ring[i] \o Stored(i, kinds))[k].age # "waiting"
    <3>1. CASE k <= Len(ring[i])
      <4>1. (ring[i] \o Stored(i, kinds))[k] = ring[i][k] /\ k \in 1..Len(ring[i])
        BY <1>1, <1>4, <1>7, <2>2, <3>1, ConcatProperties
      <4> QED
        BY <1>11, <4>1 DEF Current
    <3>2. CASE k > Len(ring[i])
      <4>1. k - Len(ring[i]) \in 1..m
        BY <1>1, <1>4, <2>2, <3>2
      <4>2. ~(k <= Len(ring[i]))
        BY <1>1, <1>4, <2>2, <3>2
      <4>3. (ring[i] \o Stored(i, kinds))[k] = Stored(i, kinds)[k - Len(ring[i])]
        BY <1>1, <1>7, <2>2, <4>2, ConcatProperties
      <4> QED
        BY <2>1, <4>1, <4>3
    <3>3. k <= Len(ring[i]) \/ k > Len(ring[i])
      BY <1>1, <1>4
    <3> QED
      BY <3>1, <3>2, <3>3
  <2> QED
    BY <1>8, <2>2 DEF Current
<1> QED
  BY <1>8, <1>10, <1>11

LEMMA ResetFields ==
  ASSUME NEW r \in IfaceType
  PROVE  /\ ResetPort(r) \in IfaceType
         /\ ResetPort(r).valid = r.valid /\ ResetPort(r).ref = r.ref
         /\ ~ResetPort(r).inSysex
BY DEF ResetPort, IfaceType

LEMMA ZeroFields ==
  ZeroIface \in IfaceType /\ ~ZeroIface.valid /\ ZeroIface.ref = "unset" /\ ~ZeroIface.inSysex
BY DEF ZeroIface, IfaceType, RefNum

(* What a Bind leaves.                                                     *)
Bound(ports, started, then) ==
  /\ hook' \in [Ifaces -> BOOLEAN] /\ iface' \in [Ifaces -> IfaceType] /\ task' \in TaskType
  /\ task'.at = "drain" /\ task'.i = 0 /\ (task'.deliver <=> started) /\ task'.then = then
  /\ \A i \in Ifaces : /\ iface'[i].valid = ports[i].valid
                       /\ iface'[i].ref = ports[i].ref
                       /\ ~iface'[i].inSysex

LEMMA BindTyped ==
  ASSUME TypeOK, NEW ports \in [Ifaces -> IfaceType], NEW started \in BOOLEAN,
         NEW then \in {"idle", "add", "discard", "reset"}, Bind(ports, started, then)
  PROVE  Bound(ports, started, then)
<1>1. hook' \in [Ifaces -> BOOLEAN]
  BY Types DEF Bind, Hooked, Reported
<1>2. iface' = [i \in Ifaces |-> ResetPort(ports[i])] /\ task' = DrainAll(started, then)
  BY DEF Bind
<1>3. /\ iface' \in [Ifaces -> IfaceType]
      /\ \A i \in Ifaces : /\ iface'[i].valid = ports[i].valid
                           /\ iface'[i].ref = ports[i].ref
                           /\ ~iface'[i].inSysex
  BY <1>2, ResetFields
<1> QED
  BY <1>1, <1>2, <1>3, DrainAllTyped DEF Bound

LEMMA InitTyped ==
  ASSUME Init
  PROVE  TypeOK
<1>1. usb \in UsbType /\ oms \in OmsType
  BY SizesAssumption DEF Init, UsbType, OmsType, ZeroOms
<1>2. <<>> \in WaitingPackets
  BY EmptyIsWaiting
<1> QED
  BY <1>1, <1>2, Types, ZeroFields, IdleTyped DEF Init

LEMMA ReadTyped ==
  ASSUME TypeOK, NEW i \in Ifaces, NEW kinds \in Transfers(source[i]), ReadCompletes(i, kinds)
  PROVE  TypeOK'
<1> DEFINE waiting == ring[i] \o Stored(i, kinds)
           drain == DrainPackets(i, waiting, oms.started)
<1>1. kinds \in Seq(Kinds)
  BY TransferIsSeq
<1>2. waiting \in Seq(Packet) /\ waiting \in WaitingPackets
  BY <1>1, StoredTyped
<1>3. LoopInv(drain, Port(i), waiting, oms.started)
  <2>1. oms.started \in BOOLEAN
    BY Types DEF OmsType
  <2> HIDE DEF waiting
  <2> QED
    BY <1>2, <2>1, DrainSound
<1>4. drain.iface \in IfaceType /\ drain.run \in BOOLEAN /\ drain.out \subseteq Message
  BY <1>3 DEF LoopInv, LoopType
<1>5. <<>> \in WaitingPackets
  BY EmptyIsWaiting
<1>6. source' \in [Ifaces -> BOOLEAN]
  <2>1. Inside(source[i], kinds)[Len(kinds)] \in BOOLEAN
    BY <1>1, Types, InsideTypes
  <2> QED
    BY <2>1, Types DEF ReadCompletes
<1>7. /\ usb' = usb /\ hook' = hook /\ over' = over /\ oms' = oms /\ task' = task
      /\ served' = served
      /\ \/ /\ ring' = [ring EXCEPT ![i] = <<>>]
            /\ iface' = [iface EXCEPT ![i] = drain.iface]
            /\ run' = [run EXCEPT ![i] = drain.run]
            /\ out' = drain.out
         \/ /\ ring' = [ring EXCEPT ![i] = waiting]
            /\ iface' = iface /\ run' = run /\ out' = {}
  BY DEF ReadCompletes, Stored, ArrivalAge
<1> HIDE DEF waiting, drain
<1>8. ring' \in [Ifaces -> WaitingPackets]
  BY <1>2, <1>5, <1>7, Types
<1>9. iface' \in [Ifaces -> IfaceType] /\ run' \in [Ifaces -> BOOLEAN] /\ out' \subseteq Message
  BY <1>4, <1>7, Types
<1> QED
  BY <1>6, <1>7, <1>8, <1>9, Types

LEMMA LifeCycleTyped ==
  ASSUME TypeOK,
         \/ \E notifier, found \in BOOLEAN : OmsInit(notifier, found)
         \/ OmsDispose \/ NotifyAdd \/ NotifyRemove \/ AddDevices \/ AddInterfaces
  PROVE  TypeOK'
<1> DEFINE zero == [i \in Ifaces |-> ZeroIface]
<1>1. zero \in [Ifaces -> IfaceType]
  BY ZeroFields
<1>2. /\ usb \in UsbType /\ oms \in OmsType /\ task \in TaskType
      /\ hook \in [Ifaces -> BOOLEAN] /\ iface \in [Ifaces -> IfaceType]
      /\ oms.started \in BOOLEAN
  BY Types DEF OmsType
<1> HIDE DEF zero
<1>3. CASE \E notifier, found \in BOOLEAN : OmsInit(notifier, found)
  <2>1. PICK notifier, found \in BOOLEAN : OmsInit(notifier, found)
    BY <1>3
  <2>2. oms' \in OmsType
    BY <1>2, <2>1 DEF OmsInit, OmsType, UsbType
  <2>3. hook' \in [Ifaces -> BOOLEAN] /\ iface' \in [Ifaces -> IfaceType] /\ task' \in TaskType
    <3>1. CASE usb.loaded
      <4>1. Bind(zero, FALSE, "idle")
        BY <2>1, <3>1 DEF OmsInit, zero
      <4> QED
        BY <1>1, <4>1, BindTyped DEF Bound
    <3>2. CASE ~usb.loaded
      <4>1. iface' = zero /\ hook' = hook /\ task' = task
        BY <2>1, <3>2 DEF OmsInit, zero
      <4> QED
        BY <1>1, <1>2, <4>1
    <3> QED
      BY <3>1, <3>2
  <2> QED
    BY <2>1, <2>2, <2>3, Types DEF OmsInit
<1>4. CASE OmsDispose
  <2>1. hook' \in [Ifaces -> BOOLEAN]
    BY <1>2, <1>4 DEF OmsDispose
  <2>2. oms' \in OmsType /\ iface' = zero
    BY <1>4 DEF OmsDispose, ZeroOms, OmsType, zero
  <2> QED
    BY <1>1, <1>4, <2>1, <2>2, Types DEF OmsDispose
<1>5. CASE NotifyAdd
  <2>1. Bound(iface, oms.started, "idle")
    BY <1>2, <1>5, BindTyped DEF NotifyAdd
  <2>2. oms' \in OmsType
    BY <1>2, <1>5 DEF NotifyAdd, OmsType
  <2> QED
    BY <1>5, <2>1, <2>2, Types DEF NotifyAdd, Bound
<1>6. CASE NotifyRemove
  <2>1. usb' \in UsbType
    BY <1>2, <1>6 DEF NotifyRemove, UsbType
  <2>2. oms' \in OmsType /\ iface' \in [Ifaces -> IfaceType]
    BY <1>1, <1>2, <1>6 DEF NotifyRemove, OmsType, zero
  <2> QED
    BY <1>6, <2>1, <2>2, Types DEF NotifyRemove
<1>7. CASE AddDevices
  <2>1. CASE oms.table \/ ~usb.loaded
    <3>1. task' = [IdleTask EXCEPT !.at = "add"] /\ oms' = oms /\ hook' = hook /\ iface' = iface
      BY <1>7, <2>1 DEF AddDevices, EnsureDispatch
    <3> QED
      BY <1>7, <3>1, AtTyped, Types DEF AddDevices
  <2>2. CASE ~(oms.table \/ ~usb.loaded)
    <3>1. oms' = [oms EXCEPT !.table = TRUE] /\ Bind(iface, oms.started, "add")
      BY <1>7, <2>2 DEF AddDevices, EnsureDispatch
    <3>2. oms' \in OmsType /\ Bound(iface, oms.started, "add")
      BY <1>2, <3>1, BindTyped DEF OmsType
    <3> QED
      BY <1>7, <3>2, Types DEF AddDevices, Bound
  <2> QED
    BY <2>1, <2>2
<1>8. CASE AddInterfaces
  <2>1. \A i \in Ifaces : [iface[i] EXCEPT !.valid = @ \/ i \in Reported] \in IfaceType
    BY <1>2 DEF IfaceType, Reported
  <2>2. iface' \in [Ifaces -> IfaceType]
    BY <1>8, <2>1 DEF AddInterfaces
  <2>3. hook' \in [Ifaces -> BOOLEAN]
    BY <1>2, <1>8 DEF AddInterfaces, Hooked, Reported
  <2> QED
    BY <1>8, <2>2, <2>3, IdleTyped, Types DEF AddInterfaces
<1> QED
  BY <1>3, <1>4, <1>5, <1>6, <1>7, <1>8

(* What the start of MIDI makes of a ring.                                 *)
LEMMA AgedTyped ==
  ASSUME TypeOK, NEW i \in Ifaces
  PROVE  /\ Aged(i) \in WaitingPackets
         /\ ring[i] = <<>> => Aged(i) = <<>>
         /\ ring[i] = <<>> \/ ~Valid(i) => Current(Aged(i))
<1>1. ring[i] \in Seq(Packet) /\ Len(ring[i]) \in 0..RingPackets
  BY Types, WaitingIsSeq
<1>2. \A k \in 1..Len(ring[i]) : ring[i][k] \in Packet
  BY <1>1, ElementOfSeq
<1>3. PICK age \in Ages : age = IF Valid(i) THEN "waiting" ELSE "missed"
  BY DEF Ages
<1>4. Aged(i) = [k \in 1..Len(ring[i]) |-> [ring[i][k] EXCEPT !.age = age]]
  BY <1>3 DEF Aged, Valid
<1>5. \A p \in Packet : [p EXCEPT !.age = age] \in Packet /\ [p EXCEPT !.age = age].age = age
  BY DEF Packet
<1>6. Aged(i) \in [1..Len(ring[i]) -> Packet] /\ \A k \in 1..Len(ring[i]) : Aged(i)[k].age = age
  BY <1>2, <1>4, <1>5
<1>7. Aged(i) \in WaitingPackets
  BY <1>1, <1>6 DEF WaitingPackets
<1>8. ASSUME ring[i] = <<>>
      PROVE  Aged(i) = <<>>
  <2>1. 1..Len(ring[i]) = {}
    BY <1>8
  <2> QED
    BY <1>4, <2>1
<1>9. Len(Aged(i)) = Len(ring[i])
  BY <1>1, <1>6
<1>10. ring[i] = <<>> \/ ~Valid(i) => Current(Aged(i))
  <2>1. CASE ring[i] = <<>>
    BY <1>8, <2>1 DEF Current
  <2>2. CASE ~Valid(i)
    BY <1>3, <1>6, <1>9, <2>2 DEF Current
  <2> QED
    BY <2>1, <2>2
<1> QED
  BY <1>7, <1>8, <1>10

LEMMA StartStopTyped ==
  ASSUME TypeOK,
         StartMIDI2 \/ DiscardBacklog \/ ResetStreams \/ StartDelivery \/ StopMIDI
  PROVE  TypeOK'
<1>1. /\ oms \in OmsType /\ task \in TaskType /\ iface \in [Ifaces -> IfaceType]
      /\ ring \in [Ifaces -> WaitingPackets] /\ oms.started \in BOOLEAN
  BY Types DEF OmsType
<1>2. CASE StartMIDI2
  <2>1. CASE oms.table \/ ~usb.loaded
    <3>1. task' = [IdleTask EXCEPT !.at = "discard"] /\ oms' = oms /\ hook' = hook
          /\ iface' = iface
      BY <1>2, <2>1 DEF StartMIDI2, EnsureDispatch
    <3> QED
      BY <1>2, <3>1, AtTyped, Types DEF StartMIDI2
  <2>2. CASE ~(oms.table \/ ~usb.loaded)
    <3>1. oms' = [oms EXCEPT !.table = TRUE] /\ Bind(iface, oms.started, "discard")
      BY <1>2, <2>2 DEF StartMIDI2, EnsureDispatch
    <3>2. oms' \in OmsType /\ Bound(iface, oms.started, "discard")
      BY <1>1, <3>1, BindTyped DEF OmsType
    <3> QED
      BY <1>2, <3>2, Types DEF StartMIDI2, Bound
  <2> QED
    BY <2>1, <2>2
<1>3. CASE DiscardBacklog
  BY <1>3, DrainAllTyped, Types DEF DiscardBacklog
<1>4. CASE ResetStreams
  <2>1. iface' \in [Ifaces -> IfaceType]
    BY <1>1, <1>4, ResetFields DEF ResetStreams
  <2> QED
    BY <1>4, <2>1, AtTyped, Types DEF ResetStreams
<1>5. CASE StartDelivery
  <2>1. \A i \in Ifaces : Aged(i) \in WaitingPackets
    BY AgedTyped
  <2>2. ring' \in [Ifaces -> WaitingPackets]
    BY <1>5, <2>1 DEF StartDelivery
  <2>3. oms' \in OmsType /\ run' \in [Ifaces -> BOOLEAN]
    BY <1>1, <1>5 DEF StartDelivery, OmsType
  <2>4. served' \in [Ifaces -> BOOLEAN]
    <3>1. \A i \in Ifaces : (oms.table /\ iface[i].valid /\ hook[i]) \in BOOLEAN
      OBVIOUS
    <3>2. served' = [i \in Ifaces |-> oms.table /\ iface[i].valid /\ hook[i]]
      BY <1>5 DEF StartDelivery
    <3> QED
      BY <3>1, <3>2
  <2> QED
    BY <1>5, <2>2, <2>3, <2>4, IdleTyped, Types DEF StartDelivery
<1>6. CASE StopMIDI
  <2>1. oms' \in OmsType
    BY <1>1, <1>6 DEF StopMIDI, OmsType
  <2> QED
    BY <1>6, <2>1, Types DEF StopMIDI
<1> QED
  BY <1>2, <1>3, <1>4, <1>5, <1>6

LEMMA DrainTyped ==
  ASSUME TypeOK, DrainSkip \/ DrainDecide \/ DrainMove
  PROVE  TypeOK'
<1> PICK i : i = task.i
  OBVIOUS
<1>1. /\ task \in TaskType /\ i \in Ifaces /\ task.deliver \in BOOLEAN /\ task.n \in Nat
      /\ ring[i] \in Seq(Packet) /\ Len(ring[i]) \in 0..RingPackets
  <2>1. task \in TaskType /\ ring \in [Ifaces -> WaitingPackets]
    BY Types
  <2>2. i \in Ifaces /\ task.deliver \in BOOLEAN /\ task.n \in 0..Chunk
    BY <2>1 DEF TaskType
  <2>3. ring[i] \in WaitingPackets
    BY <2>1, <2>2
  <2> QED
    BY <2>1, <2>2, <2>3, WaitingIsSeq, SizesAssumption
<1>2. CASE DrainSkip
  BY <1>1, <1>2, NextRingTyped, Types DEF DrainSkip
<1>3. CASE DrainDecide
  <2>1. Lesser(Chunk, Len(ring[i])) \in 0..Chunk
    BY <1>1, SizesAssumption DEF Lesser
  <2>2. task' = [task EXCEPT !.at = "move", !.n = Lesser(Chunk, Len(ring[i]))]
    BY <1>3 DEF DrainDecide
  <2>3. task' \in TaskType
    BY <1>1, <2>1, <2>2 DEF TaskType
  <2> QED
    BY <1>3, <2>3, Types DEF DrainDecide
<1>4. CASE DrainMove
  <2> DEFINE taken == SubSeq(ring[i], 1, Lesser(task.n, Len(ring[i])))
             left == SubSeq(ring[i], task.n + 1, Len(ring[i]))
             drain == DrainPackets(i, taken, task.deliver)
  <2>1. taken \in Seq(Packet) /\ left \in Seq(Packet) /\ Len(left) <= Len(ring[i])
    BY <1>1, Cut
  <2>2. /\ ring' = [ring EXCEPT ![i] = left]
        /\ over' = [over EXCEPT ![i] = @ \/ task.n > Len(ring[i])]
        /\ iface' = [iface EXCEPT ![i] = drain.iface]
        /\ run' = [run EXCEPT ![i] = drain.run]
        /\ out' = drain.out
        /\ task' = [task EXCEPT !.at = "drain", !.n = 0]
        /\ usb' = usb /\ hook' = hook /\ source' = source /\ oms' = oms
        /\ served' = served
    BY <1>4 DEF DrainMove, Move
  <2> HIDE DEF taken, left
  <2>3. LoopInv(drain, Port(i), taken, task.deliver)
    BY <1>1, <2>1, DrainSound
  <2> HIDE DEF drain
  <2>4. drain.iface \in IfaceType /\ drain.run \in BOOLEAN /\ drain.out \subseteq Message
    BY <2>3 DEF LoopInv, LoopType
  <2>5. left \in WaitingPackets
    <3>1. Len(left) \in Nat /\ RingPackets \in Nat
      BY <2>1, LenProperties, SizesAssumption
    <3>2. Len(left) <= RingPackets
      BY <1>1, <2>1, <3>1
    <3> QED
      BY <2>1, <3>2, SeqIsWaiting
  <2>6. task' \in TaskType
    <3>1. 0 \in 0..Chunk
      BY SizesAssumption
    <3> QED
      BY <1>1, <2>2, <3>1 DEF TaskType
  <2>7. over' \in [Ifaces -> BOOLEAN]
    BY <2>2, Types
  <2>8. ring' \in [Ifaces -> WaitingPackets]
    BY <2>2, <2>5, Types
  <2>9. iface' \in [Ifaces -> IfaceType] /\ run' \in [Ifaces -> BOOLEAN] /\ out' \subseteq Message
    BY <2>2, <2>4, Types
  <2> QED
    BY <2>2, <2>6, <2>7, <2>8, <2>9, Types
<1> QED
  BY <1>2, <1>3, <1>4

LEMMA PortsAndUsbTyped ==
  ASSUME TypeOK,
         \/ \E i \in Ifaces : \E ref \in {"on", "off"} : SetPortReceiveRefNum(i, ref)
         \/ NewStreams \/ InterfaceAppears \/ DriverUnloads
  PROVE  TypeOK'
<1>1. usb \in UsbType /\ task \in TaskType /\ iface \in [Ifaces -> IfaceType]
  BY Types
<1>2. CASE \E i \in Ifaces : \E ref \in {"on", "off"} : SetPortReceiveRefNum(i, ref)
  <2>1. PICK i \in Ifaces, ref \in {"on", "off"} : SetPortReceiveRefNum(i, ref)
    BY <1>2
  <2>2. iface' \in [Ifaces -> IfaceType] /\ task' \in TaskType
    <3>1. iface[i] \in IfaceType
      BY <1>1
    <3>2. [iface[i] EXCEPT !.ref = ref] \in IfaceType
      BY <3>1 DEF IfaceType, RefNum
    <3>3. iface' = [iface EXCEPT ![i] = [iface[i] EXCEPT !.ref = ref]]
      BY <2>1 DEF SetPortReceiveRefNum
    <3>4. task' \in TaskType
      BY <2>1, IdleTyped DEF SetPortReceiveRefNum, TaskType
    <3> QED
      BY <1>1, <3>2, <3>3, <3>4
  <2> QED
    BY <2>1, <2>2, Types DEF SetPortReceiveRefNum
<1>3. CASE NewStreams
  <2>1. task.i \in Ifaces
    BY <1>1 DEF TaskType
  <2>2. iface' \in [Ifaces -> IfaceType]
    BY <1>1, <1>3, <2>1, ResetFields DEF NewStreams
  <2> QED
    BY <1>3, <2>2, IdleTyped, Types DEF NewStreams
<1>4. CASE InterfaceAppears
  <2>1. usb' \in UsbType
    <3>1. usb.count + 1 \in 0..MaxInterfaces
      BY <1>1, <1>4, SizesAssumption DEF InterfaceAppears, UsbType
    <3>2. usb' = [usb EXCEPT !.loaded = TRUE, !.count = usb.count + 1]
      BY <1>4 DEF InterfaceAppears
    <3> QED
      BY <1>1, <3>1, <3>2 DEF UsbType
  <2>2. source' \in [Ifaces -> BOOLEAN]
    BY <1>4, Types DEF InterfaceAppears
  <2> QED
    BY <1>4, <2>1, <2>2, Types DEF InterfaceAppears
<1>5. CASE DriverUnloads
  <2>1. usb' \in UsbType
    BY <1>5, SizesAssumption DEF DriverUnloads, UsbType
  <2> QED
    BY <1>5, <2>1, EmptyIsWaiting, Types DEF DriverUnloads
<1> QED
  BY <1>2, <1>3, <1>4, <1>5

(* Every variable keeps its type, whatever preempts what.                  *)
THEOREM OmsTypeCorrect == Spec => []TypeOK
<1>1. ASSUME TypeOK, [Next]_vars
      PROVE  TypeOK'
  <2>1. CASE Next
    <3>1. CASE \E i \in Ifaces : \E kinds \in Transfers(source[i]) : ReadCompletes(i, kinds)
      BY <1>1, <3>1, ReadTyped
    <3> QED
      BY <1>1, <2>1, <3>1, LifeCycleTyped, StartStopTyped, DrainTyped, PortsAndUsbTyped
      DEF Next
  <2>2. CASE UNCHANGED vars
    BY <1>1, <2>2, Types DEF vars
  <2> QED
    BY <1>1, <2>1, <2>2
<1> QED
  BY <1>1, InitTyped, PTL DEF Spec

-----------------------------------------------------------------------------
(* What each operation does to the parts the invariants are about.         *)
NoRuns == \A i \in Ifaces : ~iface[i].inSysex

LEMMA InitFacts ==
  ASSUME Init
  PROVE  NoPorts /\ NoRuns /\ ~oms.started /\ task.at = "idle" /\ out = {}
BY ZeroFields DEF Init, ZeroOms, IdleTask, NoPorts, NoRuns, Valid

LEMMA NoPortsStep ==
  ASSUME NoPorts', NoRuns', out' = {}
  PROVE  Knows' /\ EmptyBehind' /\ EmptyRings' /\ Fresh(out)' /\ RunInv'
<1>1. Knows' /\ EmptyBehind' /\ EmptyRings' /\ Fresh(out)'
  BY DEF Knows, NoPorts, NoRuns, EmptyBehind, EmptyRings, Kept, Fresh
<1>2. RunInv'
  BY DEF RunInv, NoRuns, StreamsReset, RunsBegun, Begun, HasStart
<1> QED
  BY <1>1, <1>2

LEMMA OmsInitFacts ==
  ASSUME TypeOK, NEW notifier \in BOOLEAN, NEW found \in BOOLEAN, OmsInit(notifier, found)
  PROVE  /\ NoPorts' /\ NoRuns' /\ out' = {}
         /\ task'.at = "idle" \/ (task'.at = "drain" /\ task'.then = "idle")
<1> DEFINE zero == [i \in Ifaces |-> ZeroIface]
<1>1. zero \in [Ifaces -> IfaceType] /\ \A i \in Ifaces : ~zero[i].valid /\ ~zero[i].inSysex
  BY ZeroFields
<1>2. out' = {} /\ task.at = "idle"
  BY DEF OmsInit, MayAct
<1>3. CASE usb.loaded
  <2>1. Bind(zero, FALSE, "idle")
    BY <1>3 DEF OmsInit
  <2> HIDE DEF zero
  <2>2. Bound(zero, FALSE, "idle")
    BY <1>1, <2>1, BindTyped
  <2> QED
    BY <1>1, <1>2, <2>2 DEF Bound, NoPorts, NoRuns, Valid
<1>4. CASE ~usb.loaded
  <2>1. iface' = zero /\ task' = task
    BY <1>4 DEF OmsInit
  <2> QED
    BY <1>1, <1>2, <2>1 DEF NoPorts, NoRuns, Valid
<1> QED
  BY <1>3, <1>4

(* Binding happens only where no interface is valid.                       *)
LEMMA BindFacts ==
  ASSUME BaseInv, ~oms.table, NEW then \in {"idle", "add", "discard"},
         oms' = [oms EXCEPT !.table = TRUE], Bind(iface, oms.started, then)
  PROVE  /\ NoPorts' /\ NoRuns' /\ task'.at = "drain" /\ task'.then = then
         /\ oms'.table /\ oms'.started = oms.started
         /\ oms'.alive = oms.alive /\ oms'.notifier = oms.notifier
<1>1. /\ TypeOK /\ iface \in [Ifaces -> IfaceType] /\ oms \in OmsType
      /\ oms.started \in BOOLEAN
  BY Types DEF BaseInv, OmsType
<1>2. Bound(iface, oms.started, then)
  BY <1>1, BindTyped
<1>3. \A i \in Ifaces : ~Valid(i)
  BY DEF BaseInv, Knows
<1>4. NoPorts' /\ NoRuns' /\ task'.at = "drain" /\ task'.then = then
  BY <1>2, <1>3 DEF Bound, NoPorts, NoRuns, Valid
<1>5. /\ oms'.table /\ oms'.started = oms.started
      /\ oms'.alive = oms.alive /\ oms'.notifier = oms.notifier
  BY <1>1 DEF OmsType
<1> QED
  BY <1>4, <1>5

LEMMA EnsureFacts ==
  ASSUME BaseInv, NEW then \in {"add", "discard"}, EnsureDispatch(then)
  PROVE  \/ /\ oms' = oms /\ hook' = hook /\ iface' = iface /\ task'.at = then
            /\ oms.table \/ ~usb.loaded
         \/ /\ NoPorts' /\ NoRuns' /\ task'.at = "drain" /\ task'.then = then
            /\ ~oms.table /\ oms'.table /\ oms'.started = oms.started
            /\ oms'.alive = oms.alive /\ oms'.notifier = oms.notifier
<1>1. CASE oms.table \/ ~usb.loaded
  BY <1>1, AtTyped DEF EnsureDispatch
<1>2. CASE ~(oms.table \/ ~usb.loaded)
  BY <1>2, BindFacts DEF EnsureDispatch
<1> QED
  BY <1>1, <1>2

LEMMA AddInterfacesFacts ==
  ASSUME TypeOK, AddInterfaces
  PROVE  /\ oms' = oms /\ ring' = ring /\ run' = run /\ out' = {}
         /\ usb' = usb /\ served' = served
         /\ task.at = "add" /\ task'.at = "idle"
         /\ \A i \in Ifaces : /\ Valid(i) => Valid(i)'
                              /\ hook[i] => hook'[i]
                              /\ (Valid(i) => hook[i]) => (Valid(i)' => hook'[i])
                              /\ iface'[i].inSysex = iface[i].inSysex
                              /\ iface'[i].ref = iface[i].ref
<1>1. iface \in [Ifaces -> IfaceType]
  BY Types
<1>2. \A i \in Ifaces : iface'[i] = [iface[i] EXCEPT !.valid = @ \/ i \in Reported]
  BY DEF AddInterfaces
<1>3. \A i \in Ifaces : /\ iface'[i].valid <=> iface[i].valid \/ i \in Reported
                        /\ iface'[i].inSysex = iface[i].inSysex
                        /\ iface'[i].ref = iface[i].ref
  BY <1>1, <1>2 DEF IfaceType
<1>4. \A i \in Ifaces : hook'[i] <=> i \in Reported \/ hook[i]
  BY DEF AddInterfaces, Hooked
<1> QED
  BY <1>3, <1>4 DEF AddInterfaces, IdleTask, Valid

LEMMA DiscardFacts ==
  ASSUME DiscardBacklog
  PROVE  /\ oms' = oms /\ hook' = hook /\ iface' = iface /\ ring' = ring /\ run' = run
         /\ out' = {}
         /\ task'.at = "drain" /\ task'.i = 0 /\ ~task'.deliver /\ task'.then = "reset"
BY DrainAllTyped DEF DiscardBacklog

LEMMA ResetStreamsFacts ==
  ASSUME BaseInv, ResetStreams
  PROVE  /\ oms' = oms /\ hook' = hook /\ ring' = ring /\ run' = run /\ out' = {}
         /\ task.at = "reset" /\ task'.at = "start" /\ NoRuns'
         /\ \A i \in Ifaces : Valid(i)' <=> Valid(i)
<1>1. iface \in [Ifaces -> IfaceType] /\ \A i \in Ifaces : ~Valid(i) => ~iface[i].inSysex
  BY Types DEF BaseInv, Knows
<1>2. \A i \in Ifaces : iface'[i] = IF Valid(i) THEN ResetPort(iface[i]) ELSE iface[i]
  BY DEF ResetStreams, Valid
<1>3. \A i \in Ifaces : ~iface'[i].inSysex /\ (Valid(i)' <=> Valid(i))
  BY <1>1, <1>2, ResetFields DEF Valid
<1> QED
  BY <1>3, AtTyped DEF ResetStreams, NoRuns

LEMMA StartDeliveryFacts ==
  ASSUME TypeOK, StartDelivery
  PROVE  /\ iface' = iface /\ hook' = hook /\ out' = {}
         /\ task.at = "start" /\ task'.at = "idle" /\ usb' = usb
         /\ oms'.table = oms.table /\ oms'.alive = oms.alive /\ oms'.notifier = oms.notifier
         /\ \A i \in Ifaces : /\ ring[i] = <<>> => ring'[i] = <<>>
                              /\ ring[i] = <<>> \/ ~Valid(i) => Current(ring'[i])
                              /\ served'[i] => Valid(i) /\ hook[i]
<1>1. oms'.table = oms.table /\ oms'.alive = oms.alive /\ oms'.notifier = oms.notifier
  BY Types DEF StartDelivery, OmsType
<1>2. \A i \in Ifaces : ring'[i] = Aged(i)
  BY DEF StartDelivery
<1>3. \A i \in Ifaces : /\ ring[i] = <<>> => ring'[i] = <<>>
                        /\ ring[i] = <<>> \/ ~Valid(i) => Current(ring'[i])
  BY <1>2, AgedTyped
<1>4. \A i \in Ifaces : served'[i] => Valid(i) /\ hook[i]
  BY DEF StartDelivery, Valid
<1> QED
  BY <1>1, <1>3, <1>4 DEF StartDelivery, IdleTask

LEMMA StopFacts ==
  ASSUME TypeOK, StopMIDI
  PROVE  /\ ~oms'.started /\ oms'.table = oms.table /\ iface' = iface /\ out' = {}
         /\ task'.at = "idle" /\ oms'.alive = oms.alive /\ oms'.notifier = oms.notifier
BY Types DEF StopMIDI, Alive, MayAct, OmsType

(* After the last ring the caller goes on, and every ring lies behind.     *)
LEMMA DrainSkipFacts ==
  ASSUME TypeOK, DrainSkip
  PROVE  /\ oms' = oms /\ hook' = hook /\ iface' = iface /\ ring' = ring /\ run' = run
         /\ out' = {} /\ task.at = "drain" /\ task.i \in Ifaces
         /\ oms.table /\ Valid(task.i) => ring[task.i] = <<>>
         /\ \/ /\ task'.at = "drain" /\ task'.i = task.i + 1
               /\ task'.deliver = task.deliver /\ task'.then = task.then
               /\ \A i \in Ifaces : i < task.i + 1 => i < task.i \/ i = task.i
            \/ /\ task'.at = task.then /\ task.then \in {"idle", "add", "discard", "reset"}
               /\ \A i \in Ifaces : i < task.i \/ i = task.i
<1>1. task \in TaskType /\ task.i \in Ifaces
  BY Types DEF TaskType
<1>2. task' = NextRing
  BY DEF DrainSkip
<1>3. CASE task.i + 1 \in Ifaces
  <2>1. \A i \in Ifaces : i < task.i + 1 => i < task.i \/ i = task.i
    BY <1>1, IfaceOrder
  <2> QED
    BY <1>1, <1>2, <1>3, <2>1, NextRingTyped DEF DrainSkip, Valid
<1>4. CASE task.i + 1 \notin Ifaces
  <2>1. \A i \in Ifaces : i <= task.i
    BY <1>1, <1>4, SizesAssumption DEF Ifaces
  <2>2. \A i \in Ifaces : i < task.i \/ i = task.i
    BY <1>1, <2>1, IfaceOrder
  <2>3. task.then \in {"idle", "add", "discard", "reset"}
    BY <1>1 DEF TaskType
  <2> QED
    BY <1>1, <1>2, <1>4, <2>2, <2>3, NextRingTyped DEF DrainSkip, Valid
<1> QED
  BY <1>3, <1>4

LEMMA DrainDecideFacts ==
  ASSUME TypeOK, DrainDecide
  PROVE  /\ oms' = oms /\ hook' = hook /\ iface' = iface /\ ring' = ring /\ run' = run
         /\ out' = {} /\ task.at = "drain" /\ Valid(task.i)
         /\ task'.at = "move" /\ task'.i = task.i /\ task'.deliver = task.deliver
         /\ task'.then = task.then
<1>1. task' = [task EXCEPT !.at = "move", !.n = Lesser(Chunk, Len(ring[task.i]))]
  BY DEF DrainDecide
<1>2. /\ task'.at = "move" /\ task'.i = task.i /\ task'.deliver = task.deliver
      /\ task'.then = task.then
  BY <1>1, Types DEF TaskType
<1> QED
  BY <1>2 DEF DrainDecide, Valid

LEMMA CurrentCut ==
  ASSUME NEW q \in Seq(Packet), NEW n \in Nat, Current(q)
  PROVE  Current(SubSeq(q, n + 1, Len(q)))
<1> DEFINE left == SubSeq(q, n + 1, Len(q))
<1>1. Len(q) \in Nat
  BY LenProperties
<1>2. SUFFICES ASSUME NEW k \in 1..Len(left)
               PROVE  left[k].age # "waiting"
  BY DEF Current
<1>3. left[k] = q[n + k] /\ n + k \in 1..Len(q)
  BY <1>1, <1>2
<1> QED
  BY <1>3 DEF Current

(* What is moved at task level is discarded.                               *)
LEMMA DrainMoveFacts ==
  ASSUME BaseInv, DrainMove
  PROVE  /\ oms' = oms /\ hook' = hook /\ out' = {}
         /\ task.at = "move" /\ task.then = "reset" /\ task.i \in Ifaces /\ Valid(task.i)
         /\ task'.at = "drain" /\ task'.i = task.i /\ ~task'.deliver /\ task'.then = "reset"
         /\ \A j \in Ifaces : /\ Valid(j)' <=> Valid(j)
                              /\ ~Valid(j) => iface'[j] = iface[j]
                              /\ ring[j] = <<>> => ring'[j] = <<>>
                              /\ Current(ring[j]) => Current(ring'[j])
<1> PICK i : i = task.i
  OBVIOUS
<1> DEFINE taken == SubSeq(ring[i], 1, Lesser(task.n, Len(ring[i])))
           left == SubSeq(ring[i], task.n + 1, Len(ring[i]))
           drain == DrainPackets(i, taken, task.deliver)
<1>1. /\ oms' = oms /\ hook' = hook /\ task.at = "move"
      /\ ring' = [ring EXCEPT ![i] = left]
      /\ iface' = [iface EXCEPT ![i] = drain.iface]
      /\ out' = drain.out
      /\ task' = [task EXCEPT !.at = "drain", !.n = 0]
  BY DEF DrainMove, Move
<1>2. /\ task \in TaskType /\ i \in Ifaces /\ task.deliver \in BOOLEAN /\ task.n \in Nat
      /\ ring \in [Ifaces -> WaitingPackets] /\ iface \in [Ifaces -> IfaceType]
  <2>1. task \in TaskType /\ ring \in [Ifaces -> WaitingPackets] /\ iface \in [Ifaces -> IfaceType]
    BY Types DEF BaseInv
  <2>2. i \in Ifaces /\ task.deliver \in BOOLEAN /\ task.n \in 0..Chunk
    BY <2>1 DEF TaskType
  <2> QED
    BY <2>1, <2>2, SizesAssumption
<1>3. taken \in Seq(Packet)
  BY <1>2, WaitingIsSeq, Cut
<1>4. Valid(i) /\ task.then = "reset" /\ ~task.deliver
  BY <1>1, <1>2 DEF BaseInv, Underway, Draining, NoPorts
<1>5. /\ ring[i] = <<>> => left = <<>>
      /\ Current(ring[i]) => Current(left)
  <2>1. ring[i] \in Seq(Packet)
    BY <1>2, WaitingIsSeq
  <2>2. Current(ring[i]) => Current(left)
    BY <1>2, <2>1, CurrentCut
  <2> QED
    BY <1>2, <2>2
<1> HIDE DEF taken, left
<1>6. LoopInv(drain, Port(i), taken, task.deliver)
  BY <1>2, <1>3, DrainSound DEF BaseInv
<1> HIDE DEF drain
<1>7. drain.out = {} /\ drain.iface.valid = iface[i].valid
  <2>1. ~Given(Port(i), task.deliver)
    BY <1>4 DEF Given
  <2> QED
    BY <1>6, <2>1 DEF LoopInv, Port
<1>8. /\ task'.at = "drain" /\ task'.i = task.i /\ task'.deliver = task.deliver
      /\ task'.then = task.then
  BY <1>1, <1>2 DEF TaskType
<1>9. \A j \in Ifaces : Valid(j)' <=> Valid(j)
  BY <1>1, <1>2, <1>7 DEF Valid
<1>10. \A j \in Ifaces : ~Valid(j) => iface'[j] = iface[j]
  BY <1>1, <1>2, <1>4
<1>11. \A j \in Ifaces : /\ ring[j] = <<>> => ring'[j] = <<>>
                         /\ Current(ring[j]) => Current(ring'[j])
  BY <1>1, <1>2, <1>5
<1> QED
  BY <1>1, <1>2, <1>4, <1>7, <1>8, <1>9, <1>10, <1>11

LEMMA RefNumFacts ==
  ASSUME TypeOK, NEW i \in Ifaces, NEW ref \in {"on", "off"}, SetPortReceiveRefNum(i, ref)
  PROVE  /\ oms' = oms /\ hook' = hook /\ ring' = ring /\ out' = {}
         /\ task.at = "idle" /\ task'.at = "streams" /\ task'.i = i
         /\ \A j \in Ifaces : /\ Valid(j)' <=> Valid(j)
                              /\ iface'[j].inSysex = iface[j].inSysex
                              /\ j # i => iface'[j] = iface[j] /\ run'[j] = run[j]
<1>1. iface \in [Ifaces -> IfaceType] /\ run \in [Ifaces -> BOOLEAN]
  BY Types
<1>2. /\ iface' = [iface EXCEPT ![i] = [iface[i] EXCEPT !.ref = ref]]
      /\ run' = [run EXCEPT ![i] = FALSE]
  BY DEF SetPortReceiveRefNum
<1>3. PICK port : port = [iface[i] EXCEPT !.ref = ref]
  OBVIOUS
<1>4. port.valid = iface[i].valid /\ port.inSysex = iface[i].inSysex
  BY <1>1, <1>3 DEF IfaceType
<1>5. \A j \in Ifaces : /\ Valid(j)' <=> Valid(j)
                        /\ iface'[j].inSysex = iface[j].inSysex
                        /\ j # i => iface'[j] = iface[j] /\ run'[j] = run[j]
  BY <1>1, <1>2, <1>3, <1>4 DEF Valid
<1>6. task'.at = "streams" /\ task'.i = i
  BY IdleTyped DEF SetPortReceiveRefNum, TaskType
<1> QED
  BY <1>5, <1>6 DEF SetPortReceiveRefNum, Alive, MayAct

LEMMA NewStreamsFacts ==
  ASSUME TypeOK, NewStreams
  PROVE  /\ oms' = oms /\ hook' = hook /\ ring' = ring /\ run' = run /\ out' = {}
         /\ task.at = "streams" /\ task'.at = "idle" /\ ~iface'[task.i].inSysex
         /\ \A j \in Ifaces : /\ Valid(j)' <=> Valid(j)
                              /\ j # task.i => iface'[j] = iface[j]
<1>1. iface \in [Ifaces -> IfaceType] /\ task.i \in Ifaces
  BY Types DEF TaskType
<1>2. iface' = [iface EXCEPT ![task.i] = ResetPort(iface[task.i])]
  BY DEF NewStreams
<1>3. \A j \in Ifaces : /\ Valid(j)' <=> Valid(j)
                        /\ j # task.i => iface'[j] = iface[j]
  BY <1>1, <1>2, ResetFields DEF Valid
<1>4. ~iface'[task.i].inSysex
  BY <1>1, <1>2, ResetFields
<1> QED
  BY <1>3, <1>4 DEF NewStreams, IdleTask

(* A transfer is drained on the spot where an interface listens, and stays *)
(* in the ring elsewhere.                                                  *)
ReadInto(i, waiting, drain) ==
  \/ /\ Listening(i) /\ LoopInv(drain, Port(i), waiting, oms.started)
     /\ oms.started /\ Current(ring[i]) => Current(waiting)
     /\ ring'[i] = <<>> /\ iface'[i] = drain.iface /\ run'[i] = drain.run /\ out' = drain.out
  \/ /\ ~Listening(i) /\ iface' = iface /\ run' = run /\ out' = {}
     /\ oms.started /\ Current(ring[i]) => Current(ring'[i])

LEMMA ReadFacts ==
  ASSUME BaseInv, NEW i \in Ifaces, NEW kinds \in Transfers(source[i]), ReadCompletes(i, kinds)
  PROVE  /\ oms' = oms /\ hook' = hook /\ task' = task /\ (Preempts \/ task.at = "idle")
         /\ \A j \in Ifaces : /\ Valid(j)' <=> Valid(j)
                              /\ j # i => /\ iface'[j] = iface[j] /\ run'[j] = run[j]
                                          /\ ring'[j] = ring[j]
         /\ \E waiting, drain : ReadInto(i, waiting, drain)
<1> DEFINE waiting == ring[i] \o Stored(i, kinds)
           drain == DrainPackets(i, waiting, oms.started)
<1>1. /\ iface \in [Ifaces -> IfaceType] /\ ring \in [Ifaces -> WaitingPackets]
      /\ run \in [Ifaces -> BOOLEAN] /\ oms.started \in BOOLEAN
  BY Types DEF BaseInv, OmsType
<1>2. kinds \in Seq(Kinds)
  BY TransferIsSeq
<1>3. waiting \in Seq(Packet) /\ (oms.started /\ Current(ring[i]) => Current(waiting))
  BY <1>2, StoredTyped DEF BaseInv
<1>4. /\ oms' = oms /\ hook' = hook /\ task' = task /\ (Preempts \/ task.at = "idle")
      /\ \/ /\ Listening(i)
            /\ ring' = [ring EXCEPT ![i] = <<>>]
            /\ iface' = [iface EXCEPT ![i] = drain.iface]
            /\ run' = [run EXCEPT ![i] = drain.run]
            /\ out' = drain.out
         \/ /\ ~Listening(i)
            /\ ring' = [ring EXCEPT ![i] = waiting]
            /\ iface' = iface /\ run' = run /\ out' = {}
  BY DEF ReadCompletes, Stored, ArrivalAge, BaseInv, Knows, Listening, Valid
<1> HIDE DEF waiting
<1>5. LoopInv(drain, Port(i), waiting, oms.started)
  BY <1>1, <1>3, DrainSound DEF BaseInv
<1> HIDE DEF drain
<1>6. drain.iface.valid = iface[i].valid
  BY <1>5 DEF LoopInv, Port
<1>7. \A j \in Ifaces : Valid(j)' <=> Valid(j)
  BY <1>1, <1>4, <1>6 DEF Valid
<1>8. \A j \in Ifaces : j # i => iface'[j] = iface[j] /\ run'[j] = run[j] /\ ring'[j] = ring[j]
  BY <1>1, <1>4
<1>9. CASE Listening(i)
  <2>1. ring'[i] = <<>> /\ iface'[i] = drain.iface /\ run'[i] = drain.run /\ out' = drain.out
    BY <1>1, <1>4, <1>9
  <2>2. ReadInto(i, waiting, drain)
    BY <1>3, <1>5, <1>9, <2>1 DEF ReadInto
  <2> QED
    BY <1>4, <1>7, <1>8, <2>2
<1>10. CASE ~Listening(i)
  <2>1. ReadInto(i, waiting, drain)
    BY <1>1, <1>3, <1>4, <1>10 DEF ReadInto
  <2> QED
    BY <1>4, <1>7, <1>8, <2>1
<1> QED
  BY <1>9, <1>10

-----------------------------------------------------------------------------
(* Every environment: ports and drains.                                    *)
BaseParts == Knows /\ Underway

LEMMA BaseInit ==
  ASSUME Init
  PROVE  BaseInv
<1>1. NoPorts /\ NoRuns /\ task.at = "idle"
  BY InitFacts
<1>2. Knows /\ Underway
  BY <1>1 DEF NoPorts, NoRuns, Knows, Underway, Draining, Adding
<1> QED
  BY <1>2, InitTyped DEF BaseInv

LEMMA BaseLifeCycle ==
  ASSUME BaseInv,
         \/ \E notifier, found \in BOOLEAN : OmsInit(notifier, found)
         \/ OmsDispose \/ NotifyAdd \/ NotifyRemove \/ AddDevices \/ AddInterfaces
  PROVE  BaseParts'
<1>1. CASE \E notifier, found \in BOOLEAN : OmsInit(notifier, found)
  <2>1. /\ NoPorts' /\ NoRuns' /\ out' = {}
        /\ task'.at = "idle" \/ (task'.at = "drain" /\ task'.then = "idle")
    BY <1>1, OmsInitFacts DEF BaseInv
  <2>2. Underway'
    BY <2>1 DEF Underway, Draining, Adding
  <2> QED
    BY <2>1, <2>2, NoPortsStep DEF BaseParts
<1>2. CASE OmsDispose
  <2>1. NoPorts' /\ NoRuns' /\ out' = {} /\ task'.at = "idle"
    BY <1>2, ZeroFields DEF OmsDispose, Alive, MayAct, NoPorts, NoRuns, Valid
  <2>2. Underway'
    BY <2>1 DEF Underway, Draining, Adding
  <2> QED
    BY <2>1, <2>2, NoPortsStep DEF BaseParts
<1>3. CASE NotifyAdd
  <2>1. NoPorts' /\ NoRuns' /\ out' = {} /\ task'.at = "drain" /\ task'.then = "idle"
    BY <1>3, BindFacts DEF NotifyAdd
  <2>2. Underway'
    BY <2>1 DEF Underway, Draining, Adding
  <2> QED
    BY <2>1, <2>2, NoPortsStep DEF BaseParts
<1>4. CASE NotifyRemove
  <2>1. task' = task /\ task.at = "idle" /\ out' = {}
    BY <1>4 DEF NotifyRemove, MayAct
  <2>2. Underway'
    BY <2>1 DEF Underway, Draining, Adding
  <2>3. CASE oms.notifier /\ oms.table
    <3>1. NoPorts' /\ NoRuns'
      BY <1>4, <2>3, ZeroFields DEF NotifyRemove, NoPorts, NoRuns, Valid
    <3> QED
      BY <2>1, <2>2, <3>1, NoPortsStep DEF BaseParts
  <2>4. CASE ~(oms.notifier /\ oms.table)
    <3>1. oms' = oms /\ iface' = iface
      BY <1>4, <2>4 DEF NotifyRemove
    <3> QED
      BY <2>2, <3>1 DEF BaseParts, BaseInv, Knows, Valid
  <2> QED
    BY <2>3, <2>4
<1>5. CASE AddDevices
  <2>1. EnsureDispatch("add") /\ (oms.table \/ usb.loaded) /\ out' = {}
    BY <1>5 DEF AddDevices
  <2>2. CASE /\ oms' = oms /\ hook' = hook /\ iface' = iface /\ task'.at = "add"
             /\ oms.table \/ ~usb.loaded
    BY <2>1, <2>2 DEF BaseParts, BaseInv, Knows, Underway, Draining, Adding, Valid
  <2>3. CASE /\ NoPorts' /\ NoRuns' /\ task'.at = "drain" /\ task'.then = "add"
             /\ oms'.table /\ oms'.started = oms.started
    <3>1. Underway'
      BY <2>3 DEF Underway, Draining, Adding
    <3> QED
      BY <2>1, <2>3, <3>1, NoPortsStep DEF BaseParts
  <2> QED
    BY <2>1, <2>2, <2>3, EnsureFacts
<1>6. CASE AddInterfaces
  <2>1. /\ oms' = oms /\ task.at = "add" /\ task'.at = "idle"
        /\ \A i \in Ifaces : (Valid(i) => Valid(i)') /\ iface'[i].inSysex = iface[i].inSysex
    BY <1>6, AddInterfacesFacts DEF BaseInv
  <2>2. Knows'
    BY <2>1 DEF BaseInv, Knows, Underway, Adding
  <2>3. Underway'
    BY <2>1 DEF Underway, Draining, Adding
  <2> QED
    BY <2>2, <2>3 DEF BaseParts
<1> QED
  BY <1>1, <1>2, <1>3, <1>4, <1>5, <1>6

LEMMA BaseStartStop ==
  ASSUME BaseInv,
         StartMIDI2 \/ DiscardBacklog \/ ResetStreams \/ StartDelivery \/ StopMIDI
  PROVE  BaseParts'
<1>1. CASE StartMIDI2
  <2>1. EnsureDispatch("discard") /\ out' = {}
    BY <1>1 DEF StartMIDI2
  <2>2. CASE oms' = oms /\ hook' = hook /\ iface' = iface /\ task'.at = "discard"
    BY <2>2 DEF BaseParts, BaseInv, Knows, Underway, Draining, Adding, Valid
  <2>3. CASE NoPorts' /\ NoRuns' /\ task'.at = "drain" /\ task'.then = "discard"
    <3>1. Underway'
      BY <2>3 DEF Underway, Draining, Adding
    <3> QED
      BY <2>1, <2>3, <3>1, NoPortsStep DEF BaseParts
  <2> QED
    BY <2>1, <2>2, <2>3, EnsureFacts
<1>2. CASE DiscardBacklog
  <2>1. /\ oms' = oms /\ iface' = iface /\ task'.at = "drain" /\ ~task'.deliver
        /\ task'.then = "reset"
    BY <1>2, DiscardFacts
  <2> QED
    BY <2>1 DEF BaseParts, BaseInv, Knows, Underway, Draining, Adding, Valid
<1>3. CASE ResetStreams
  <2>1. /\ oms' = oms /\ task'.at = "start" /\ NoRuns'
        /\ \A i \in Ifaces : Valid(i)' <=> Valid(i)
    BY <1>3, ResetStreamsFacts
  <2> QED
    BY <2>1 DEF BaseParts, BaseInv, Knows, Underway, Draining, Adding, NoRuns
<1>4. CASE StartDelivery
  <2>1. iface' = iface /\ oms'.table = oms.table /\ task'.at = "idle"
    BY <1>4, StartDeliveryFacts DEF BaseInv
  <2> QED
    BY <2>1 DEF BaseParts, BaseInv, Knows, Underway, Draining, Adding, Valid
<1>5. CASE StopMIDI
  <2>1. iface' = iface /\ oms'.table = oms.table /\ task'.at = "idle"
    BY <1>5, StopFacts DEF BaseInv
  <2> QED
    BY <2>1 DEF BaseParts, BaseInv, Knows, Underway, Draining, Adding, Valid
<1> QED
  BY <1>1, <1>2, <1>3, <1>4, <1>5

LEMMA BaseDrain ==
  ASSUME BaseInv, DrainSkip \/ DrainDecide \/ DrainMove
  PROVE  BaseParts'
<1>1. CASE DrainSkip
  <2>1. /\ oms' = oms /\ iface' = iface /\ task.at = "drain"
        /\ \/ /\ task'.at = "drain" /\ task'.deliver = task.deliver /\ task'.then = task.then
           \/ task'.at = task.then /\ task.then \in {"idle", "add", "discard", "reset"}
    BY <1>1, DrainSkipFacts DEF BaseInv
  <2>2. Knows'
    BY <2>1 DEF BaseInv, Knows, Valid
  <2>3. Underway'
    BY <2>1 DEF BaseInv, Underway, Draining, Adding, NoPorts, Valid
  <2> QED
    BY <2>2, <2>3 DEF BaseParts
<1>2. CASE DrainDecide
  <2>1. /\ oms' = oms /\ iface' = iface /\ task.at = "drain" /\ Valid(task.i)
        /\ task'.at = "move" /\ task'.i = task.i /\ task'.deliver = task.deliver
        /\ task'.then = task.then
    BY <1>2, DrainDecideFacts DEF BaseInv
  <2>2. Knows'
    BY <2>1 DEF BaseInv, Knows, Valid
  <2>3. Underway'
    BY <2>1 DEF BaseInv, Underway, Draining, Adding, NoPorts, Valid
  <2> QED
    BY <2>2, <2>3 DEF BaseParts
<1>3. CASE DrainMove
  <2>1. /\ oms' = oms /\ task'.at = "drain" /\ ~task'.deliver /\ task'.then = "reset"
        /\ \A j \in Ifaces : (Valid(j)' <=> Valid(j)) /\ (~Valid(j) => iface'[j] = iface[j])
    BY <1>3, DrainMoveFacts
  <2>2. Knows'
    BY <2>1 DEF BaseInv, Knows
  <2>3. Underway'
    BY <2>1 DEF Underway, Draining, Adding
  <2> QED
    BY <2>2, <2>3 DEF BaseParts
<1> QED
  BY <1>1, <1>2, <1>3

LEMMA BaseOthers ==
  ASSUME BaseInv,
         \/ \E i \in Ifaces : \E kinds \in Transfers(source[i]) : ReadCompletes(i, kinds)
         \/ \E i \in Ifaces : \E ref \in {"on", "off"} : SetPortReceiveRefNum(i, ref)
         \/ NewStreams \/ InterfaceAppears \/ DriverUnloads \/ UNCHANGED vars
  PROVE  BaseParts'
<1>1. ASSUME NEW i \in Ifaces, NEW kinds \in Transfers(source[i]), ReadCompletes(i, kinds)
      PROVE  BaseParts'
  <2>1. /\ oms' = oms /\ task' = task
        /\ \A j \in Ifaces : (Valid(j)' <=> Valid(j)) /\ (j # i => iface'[j] = iface[j])
        /\ \E waiting, drain : ReadInto(i, waiting, drain)
    BY <1>1, ReadFacts
  <2>2. ~Valid(i) => iface'[i] = iface[i]
    BY <2>1 DEF ReadInto, Listening
  <2>3. Knows'
    BY <2>1, <2>2 DEF BaseInv, Knows
  <2>4. task.i \in Ifaces
    BY Types DEF BaseInv, TaskType
  <2>5. Underway'
    BY <2>1, <2>4 DEF BaseInv, Underway, Draining, Adding, NoPorts, Valid
  <2> QED
    BY <2>3, <2>5 DEF BaseParts
<1>2. ASSUME NEW i \in Ifaces, NEW ref \in {"on", "off"}, SetPortReceiveRefNum(i, ref)
      PROVE  BaseParts'
  <2>1. /\ oms' = oms /\ task'.at = "streams"
        /\ \A j \in Ifaces : (Valid(j)' <=> Valid(j)) /\ iface'[j].inSysex = iface[j].inSysex
    BY <1>2, RefNumFacts DEF BaseInv
  <2> QED
    BY <2>1 DEF BaseParts, BaseInv, Knows, Underway, Draining, Adding
<1>3. CASE NewStreams
  <2>1. /\ oms' = oms /\ task'.at = "idle" /\ ~iface'[task.i].inSysex
        /\ \A j \in Ifaces : (Valid(j)' <=> Valid(j)) /\ (j # task.i => iface'[j] = iface[j])
    BY <1>3, NewStreamsFacts DEF BaseInv
  <2>2. Knows'
    BY <2>1 DEF BaseInv, Knows
  <2> QED
    BY <2>1, <2>2 DEF BaseParts, Underway, Draining, Adding
<1>4. CASE InterfaceAppears \/ DriverUnloads \/ UNCHANGED vars
  <2>1. oms' = oms /\ iface' = iface /\ task' = task
    BY <1>4 DEF InterfaceAppears, DriverUnloads, vars
  <2> QED
    BY <2>1 DEF BaseParts, BaseInv, Knows, Underway, Draining, Adding, NoPorts, Valid
<1> QED
  BY <1>1, <1>2, <1>3, <1>4

LEMMA BaseStep ==
  ASSUME BaseInv, TypeOK', [Next]_vars
  PROVE  BaseInv'
<1>1. BaseParts'
  BY BaseLifeCycle, BaseStartStop, BaseDrain, BaseOthers DEF Next
<1> QED
  BY <1>1 DEF BaseInv, BaseParts

-----------------------------------------------------------------------------
(* Rings: what omdvStartMIDI2 discards, and what it serves afterwards.     *)
LEMMA RingInit ==
  ASSUME Init
  PROVE  RingInv
<1>1. task.at = "idle" /\ ~oms.started
  BY InitFacts
<1> QED
  BY <1>1 DEF RingInv, EmptyBehind, EmptyRings, ServedEmpty, LeavingIdle, Draining

(* Served interfaces, where hooks stay and no ring fills.                  *)
LEMMA ServedSame ==
  ASSUME ServedEmpty, served' = served, usb' = usb, oms'.started => oms.started,
         \A i \in Ifaces : /\ Valid(i) => Valid(i)'
                           /\ Valid(i)' => Valid(i) \/ ~usb.leaving
                           /\ hook[i] => hook'[i]
                           /\ Listening(i) /\ ring[i] = <<>> => ring'[i] = <<>>
  PROVE  ServedEmpty'
<1>1. SUFFICES ASSUME oms.started, NEW i \in Ifaces, served[i]
               PROVE  IF Valid(i)' THEN hook'[i] /\ ring'[i] = <<>> ELSE usb'.leaving
  BY DEF ServedEmpty
<1>2. CASE Valid(i)
  BY <1>1, <1>2 DEF ServedEmpty, Listening
<1>3. CASE ~Valid(i)
  BY <1>1, <1>3 DEF ServedEmpty
<1> QED
  BY <1>2, <1>3

(* Before OMS knows a driver nothing has been served.                      *)
LEMMA ServedNone ==
  ASSUME BaseInv, RingInv, ~oms.table, ~usb.leaving, oms'.started = oms.started,
         served' = served
  PROVE  ServedEmpty'
<1>1. \A i \in Ifaces : ~Valid(i)
  BY DEF BaseInv, Knows
<1>2. oms.started => \A i \in Ifaces : ~served[i]
  BY <1>1 DEF RingInv, ServedEmpty
<1> QED
  BY <1>2 DEF ServedEmpty

(* Operations that neither drain nor start.                                *)
LEMMA RingElsewhere ==
  ASSUME ServedEmpty', task'.at \in {"idle", "add", "discard", "streams"},
         usb'.leaving => task'.at = "idle"
  PROVE  RingInv'
BY DEF RingInv, EmptyBehind, EmptyRings, LeavingIdle, Draining

(* A binding: its drain finds no interface.                                *)
LEMMA RingBound ==
  ASSUME ServedEmpty', NoPorts', ~usb'.leaving
  PROVE  RingInv'
BY DEF RingInv, EmptyBehind, EmptyRings, LeavingIdle, Kept, NoPorts

LEMMA RingEnsured ==
  ASSUME BaseInv, RingInv, NEW then \in {"add", "discard"}, EnsureDispatch(then),
         MayAct, usb' = usb, ring' = ring, served' = served
  PROVE  RingInv'
<1>1. ~usb.leaving /\ ~usb'.leaving
  BY DEF MayAct
<1>2. CASE oms' = oms /\ hook' = hook /\ iface' = iface /\ task'.at = then
  <2>1. ServedEmpty'
    BY <1>2, ServedSame DEF RingInv, Valid
  <2> QED
    BY <1>1, <1>2, <2>1, RingElsewhere
<1>3. CASE NoPorts' /\ ~oms.table /\ oms'.started = oms.started
  <2>1. ServedEmpty'
    BY <1>1, <1>3, ServedNone
  <2> QED
    BY <1>1, <1>3, <2>1, RingBound
<1> QED
  BY <1>2, <1>3, EnsureFacts

LEMMA RingLifeCycle ==
  ASSUME BaseInv, RingInv,
         \/ \E notifier, found \in BOOLEAN : OmsInit(notifier, found)
         \/ OmsDispose \/ NotifyAdd \/ NotifyRemove \/ AddDevices \/ AddInterfaces
  PROVE  RingInv'
<1>1. CASE \E notifier, found \in BOOLEAN : OmsInit(notifier, found)
  <2>1. NoPorts'
    BY <1>1, OmsInitFacts DEF BaseInv
  <2>2. ~oms'.started /\ ~usb'.leaving
    BY <1>1 DEF OmsInit, MayAct
  <2>3. ServedEmpty'
    BY <2>2 DEF ServedEmpty
  <2> QED
    BY <2>1, <2>2, <2>3, RingBound
<1>2. CASE OmsDispose
  <2>1. ~oms'.started /\ task'.at = "idle"
    BY <1>2 DEF OmsDispose, Alive, MayAct, ZeroOms
  <2>2. ServedEmpty'
    BY <2>1 DEF ServedEmpty
  <2> QED
    BY <2>1, <2>2, RingElsewhere
<1>3. CASE NotifyAdd
  <2>1. NoPorts' /\ oms'.started = oms.started
    BY <1>3, BindFacts DEF NotifyAdd
  <2>2. ~oms.table /\ ~usb.leaving /\ usb' = usb /\ served' = served
    BY <1>3 DEF NotifyAdd, Alive, MayAct
  <2>3. ServedEmpty'
    BY <2>1, <2>2, ServedNone
  <2> QED
    BY <2>1, <2>2, <2>3, RingBound
<1>4. CASE NotifyRemove
  <2>1. /\ task' = task /\ task.at = "idle" /\ ring' = ring /\ hook' = hook
        /\ served' = served
    BY <1>4 DEF NotifyRemove, MayAct
  <2>2. usb'.leaving
    BY <1>4, Types DEF NotifyRemove, BaseInv, UsbType
  <2>3. CASE oms.notifier /\ oms.table
    <3>1. NoPorts'
      BY <1>4, <2>3, ZeroFields DEF NotifyRemove, NoPorts, Valid
    <3>2. ServedEmpty'
      BY <2>2, <3>1 DEF ServedEmpty, NoPorts
    <3> QED
      BY <2>1, <3>2, RingElsewhere
  <2>4. CASE ~(oms.notifier /\ oms.table)
    <3>1. oms' = oms /\ iface' = iface
      BY <1>4, <2>4 DEF NotifyRemove
    <3>2. ServedEmpty'
      BY <2>1, <2>2, <3>1 DEF RingInv, ServedEmpty, Valid
    <3> QED
      BY <2>1, <3>2, RingElsewhere
  <2> QED
    BY <2>3, <2>4
<1>5. CASE AddDevices
  BY <1>5, RingEnsured DEF AddDevices, Alive
<1>6. CASE AddInterfaces
  <2>1. /\ oms' = oms /\ usb' = usb /\ served' = served /\ ring' = ring
        /\ task.at = "add" /\ task'.at = "idle"
        /\ \A i \in Ifaces : (Valid(i) => Valid(i)') /\ (hook[i] => hook'[i])
    BY <1>6, AddInterfacesFacts DEF BaseInv
  <2>2. ~usb.leaving
    BY <2>1 DEF RingInv, LeavingIdle
  <2>3. ServedEmpty'
    BY <2>1, <2>2, ServedSame DEF RingInv
  <2> QED
    BY <2>1, <2>3, RingElsewhere
<1> QED
  BY <1>1, <1>2, <1>3, <1>4, <1>5, <1>6

LEMMA RingStartStop ==
  ASSUME BaseInv, RingInv,
         StartMIDI2 \/ DiscardBacklog \/ ResetStreams \/ StartDelivery \/ StopMIDI
  PROVE  RingInv'
<1>1. CASE StartMIDI2
  BY <1>1, RingEnsured DEF StartMIDI2, Alive
<1>2. CASE DiscardBacklog
  <2>1. /\ oms' = oms /\ hook' = hook /\ iface' = iface /\ ring' = ring
        /\ task'.at = "drain" /\ task'.i = 0
    BY <1>2, DiscardFacts
  <2>2. usb' = usb /\ served' = served /\ task.at = "discard"
    BY <1>2 DEF DiscardBacklog
  <2>3. \A i \in Ifaces : ~(i < 0)
    BY IfaceZero
  <2>4. EmptyBehind' /\ EmptyRings'
    BY <2>1, <2>3 DEF EmptyBehind, EmptyRings
  <2>5. ServedEmpty'
    BY <2>1, <2>2, ServedSame DEF RingInv, Valid
  <2> QED
    BY <2>2, <2>4, <2>5 DEF RingInv, LeavingIdle
<1>3. CASE ResetStreams
  <2>1. /\ oms' = oms /\ hook' = hook /\ ring' = ring
        /\ task.at = "reset" /\ task'.at = "start"
        /\ \A i \in Ifaces : Valid(i)' <=> Valid(i)
    BY <1>3, ResetStreamsFacts
  <2>2. usb' = usb /\ served' = served
    BY <1>3 DEF ResetStreams
  <2>3. EmptyBehind' /\ EmptyRings'
    BY <2>1 DEF RingInv, EmptyBehind, EmptyRings, Kept, Draining
  <2>4. ServedEmpty'
    BY <2>1, <2>2, ServedSame DEF RingInv
  <2> QED
    BY <2>1, <2>2, <2>3, <2>4 DEF RingInv, LeavingIdle
<1>4. CASE StartDelivery
  <2>1. /\ iface' = iface /\ hook' = hook /\ task.at = "start" /\ task'.at = "idle"
        /\ \A i \in Ifaces : /\ ring[i] = <<>> => ring'[i] = <<>>
                             /\ served'[i] => Valid(i) /\ hook[i]
    BY <1>4, StartDeliveryFacts DEF BaseInv
  <2>2. \A i \in Ifaces : Valid(i)' <=> Valid(i)
    BY <2>1 DEF Valid
  <2>3. ServedEmpty'
    BY <2>1, <2>2 DEF RingInv, EmptyRings, Kept, ServedEmpty
  <2> QED
    BY <2>1, <2>3, RingElsewhere
<1>5. CASE StopMIDI
  <2>1. ~oms'.started /\ task'.at = "idle"
    BY <1>5, StopFacts DEF BaseInv
  <2>2. ServedEmpty'
    BY <2>1 DEF ServedEmpty
  <2> QED
    BY <2>1, <2>2, RingElsewhere
<1> QED
  BY <1>1, <1>2, <1>3, <1>4, <1>5

LEMMA RingDrain ==
  ASSUME BaseInv, RingInv, DrainSkip \/ DrainDecide \/ DrainMove
  PROVE  RingInv'
<1>1. usb' = usb /\ served' = served /\ task.at \in {"drain", "move"}
  BY DEF DrainSkip, DrainDecide, DrainMove, Move
<1>2. LeavingIdle'
  BY <1>1 DEF RingInv, LeavingIdle
<1>3. CASE DrainSkip
  <2>1. /\ oms' = oms /\ hook' = hook /\ iface' = iface /\ ring' = ring
        /\ task.at = "drain" /\ task.i \in Ifaces
        /\ oms.table /\ Valid(task.i) => ring[task.i] = <<>>
        /\ \/ /\ task'.at = "drain" /\ task'.i = task.i + 1 /\ task'.then = task.then
              /\ \A i \in Ifaces : i < task.i + 1 => i < task.i \/ i = task.i
           \/ /\ task'.at = task.then /\ task.then \in {"idle", "add", "discard", "reset"}
              /\ \A i \in Ifaces : i < task.i \/ i = task.i
    BY <1>3, DrainSkipFacts DEF BaseInv
  <2>2. Kept(task.i) => ring[task.i] = <<>>
    BY <2>1 DEF BaseInv, Knows, Kept
  <2>3. \A i \in Ifaces :
          task.then = "reset" /\ (i < task.i \/ i = task.i) /\ Kept(i) => ring[i] = <<>>
    BY <2>1, <2>2 DEF RingInv, EmptyBehind, Draining
  <2>4. \A i \in Ifaces : Kept(i)' <=> Kept(i)
    BY <2>1 DEF Kept, Valid
  <2>5. EmptyBehind'
    BY <2>1, <2>3, <2>4 DEF EmptyBehind, Draining
  <2>6. EmptyRings'
    BY <2>1, <2>3, <2>4 DEF EmptyRings
  <2>7. ServedEmpty'
    BY <1>1, <2>1, ServedSame DEF RingInv, Valid
  <2> QED
    BY <1>2, <2>5, <2>6, <2>7 DEF RingInv
<1>4. CASE DrainDecide
  <2>1. /\ oms' = oms /\ hook' = hook /\ iface' = iface /\ ring' = ring
        /\ task.at = "drain"
        /\ task'.at = "move" /\ task'.i = task.i /\ task'.then = task.then
    BY <1>4, DrainDecideFacts DEF BaseInv
  <2>2. EmptyBehind' /\ EmptyRings'
    BY <2>1 DEF RingInv, EmptyBehind, EmptyRings, Draining, Kept, Valid
  <2>3. ServedEmpty'
    BY <1>1, <2>1, ServedSame DEF RingInv, Valid
  <2> QED
    BY <1>2, <2>2, <2>3 DEF RingInv
<1>5. CASE DrainMove
  <2>1. /\ oms' = oms /\ hook' = hook
        /\ task.at = "move" /\ task.then = "reset"
        /\ task'.at = "drain" /\ task'.i = task.i /\ task'.then = "reset"
        /\ \A j \in Ifaces : /\ Valid(j)' <=> Valid(j)
                             /\ ring[j] = <<>> => ring'[j] = <<>>
    BY <1>5, DrainMoveFacts
  <2>2. EmptyBehind' /\ EmptyRings'
    BY <2>1 DEF RingInv, EmptyBehind, EmptyRings, Draining, Kept
  <2>3. ServedEmpty'
    BY <1>1, <2>1, ServedSame DEF RingInv
  <2> QED
    BY <1>2, <2>2, <2>3 DEF RingInv
<1> QED
  BY <1>3, <1>4, <1>5

LEMMA RingOthers ==
  ASSUME BaseInv, RingInv,
         \/ \E i \in Ifaces : \E kinds \in Transfers(source[i]) : ReadCompletes(i, kinds)
         \/ \E i \in Ifaces : \E ref \in {"on", "off"} : SetPortReceiveRefNum(i, ref)
         \/ NewStreams \/ InterfaceAppears \/ DriverUnloads \/ UNCHANGED vars
  PROVE  RingInv'
<1>1. ASSUME NEW i \in Ifaces, NEW kinds \in Transfers(source[i]), ReadCompletes(i, kinds)
      PROVE  RingInv'
  <2>1. /\ oms' = oms /\ hook' = hook /\ task' = task /\ (Preempts \/ task.at = "idle")
        /\ \A j \in Ifaces : (Valid(j)' <=> Valid(j)) /\ (j # i => ring'[j] = ring[j])
        /\ \E waiting, drain : ReadInto(i, waiting, drain)
    BY <1>1, ReadFacts
  <2>2. usb' = usb /\ served' = served
    BY <1>1 DEF ReadCompletes
  <2>3. \A j \in Ifaces : Listening(j) /\ ring[j] = <<>> => ring'[j] = <<>>
    BY <2>1 DEF ReadInto
  <2>4. ServedEmpty'
    BY <2>1, <2>2, <2>3, ServedSame DEF RingInv
  <2>5. CASE task.at = "idle"
    BY <2>1, <2>2, <2>4, <2>5, RingElsewhere
  <2>6. CASE Preempts
    <3>1. \A j \in Ifaces : (Kept(j)' <=> Kept(j)) /\ (Kept(j) => Listening(j))
      BY <2>1, <2>6 DEF Kept, Listening
    <3>2. EmptyBehind' /\ EmptyRings'
      BY <2>1, <2>3, <3>1 DEF RingInv, EmptyBehind, EmptyRings, Draining
    <3> QED
      BY <2>1, <2>2, <2>4, <3>2 DEF RingInv, LeavingIdle
  <2> QED
    BY <2>1, <2>5, <2>6
<1>2. ASSUME NEW i \in Ifaces, NEW ref \in {"on", "off"}, SetPortReceiveRefNum(i, ref)
      PROVE  RingInv'
  <2>1. /\ oms' = oms /\ hook' = hook /\ ring' = ring /\ task'.at = "streams"
        /\ \A j \in Ifaces : Valid(j)' <=> Valid(j)
    BY <1>2, RefNumFacts DEF BaseInv
  <2>2. usb' = usb /\ served' = served /\ ~usb.leaving
    BY <1>2 DEF SetPortReceiveRefNum, Alive, MayAct
  <2>3. ServedEmpty'
    BY <2>1, <2>2, ServedSame DEF RingInv
  <2> QED
    BY <2>1, <2>2, <2>3, RingElsewhere
<1>3. CASE NewStreams
  <2>1. /\ oms' = oms /\ hook' = hook /\ ring' = ring /\ task'.at = "idle"
        /\ \A j \in Ifaces : Valid(j)' <=> Valid(j)
    BY <1>3, NewStreamsFacts DEF BaseInv
  <2>2. usb' = usb /\ served' = served
    BY <1>3 DEF NewStreams
  <2>3. ServedEmpty'
    BY <2>1, <2>2, ServedSame DEF RingInv
  <2> QED
    BY <2>1, <2>3, RingElsewhere
<1>4. CASE InterfaceAppears
  <2>1. /\ oms' = oms /\ iface' = iface /\ hook' = hook /\ ring' = ring /\ served' = served
        /\ task' = task /\ task.at = "idle" /\ ~usb.leaving
    BY <1>4 DEF InterfaceAppears, MayAct
  <2>2. \A i \in Ifaces : Valid(i)' <=> Valid(i)
    BY <2>1 DEF Valid
  <2>3. ServedEmpty'
    BY <2>1, <2>2 DEF RingInv, ServedEmpty
  <2> QED
    BY <2>1, <2>3, RingElsewhere
<1>5. CASE DriverUnloads
  <2>1. task' = task /\ usb.leaving /\ \A i \in Ifaces : ~served'[i]
    BY <1>5 DEF DriverUnloads
  <2>2. ServedEmpty'
    BY <2>1 DEF ServedEmpty
  <2>3. task.at = "idle"
    BY <2>1 DEF RingInv, LeavingIdle
  <2> QED
    BY <2>1, <2>2, <2>3, RingElsewhere
<1>6. CASE UNCHANGED vars
  <2>1. /\ oms' = oms /\ iface' = iface /\ hook' = hook /\ ring' = ring /\ served' = served
        /\ task' = task /\ usb' = usb
    BY <1>6 DEF vars
  <2> QED
    BY <2>1 DEF RingInv, EmptyBehind, EmptyRings, ServedEmpty, LeavingIdle, Draining, Kept,
                Valid
<1> QED
  BY <1>1, <1>2, <1>3, <1>4, <1>5, <1>6

LEMMA RingStep ==
  ASSUME BaseInv, RingInv, [Next]_vars
  PROVE  RingInv'
BY RingLifeCycle, RingStartStop, RingDrain, RingOthers DEF Next

-----------------------------------------------------------------------------
(* What OMS is told of the driver.                                         *)
LEMMA ToldInit ==
  ASSUME Init
  PROVE  ToldInv
<1>1. ~oms.table /\ ~oms.alive /\ ~usb.leaving /\ NoPorts
  BY InitFacts DEF Init, ZeroOms
<1> QED
  BY <1>1 DEF ToldInv, Told, NoPorts

LEMMA ToldSame ==
  ASSUME ToldInv, oms'.table = oms.table, oms'.alive = oms.alive,
         oms'.notifier = oms.notifier, usb'.leaving => usb.leaving,
         \A i \in Ifaces : (Valid(i) => hook[i]) => (Valid(i)' => hook'[i])
  PROVE  ToldInv'
BY DEF ToldInv, Told

LEMMA ToldEnsured ==
  ASSUME BaseInv, ToldInv, NEW then \in {"add", "discard"}, EnsureDispatch(then),
         Alive, usb' = usb
  PROVE  ToldInv'
<1>1. oms.alive /\ ~usb.leaving
  BY DEF Alive, MayAct
<1>2. CASE oms' = oms /\ hook' = hook /\ iface' = iface
  <2>1. \A i \in Ifaces : (Valid(i) => hook[i]) => (Valid(i)' => hook'[i])
    BY <1>2 DEF Valid
  <2> QED
    BY <1>2, <2>1, ToldSame
<1>3. CASE NoPorts' /\ oms'.alive = oms.alive /\ oms'.notifier = oms.notifier
  BY <1>1, <1>3 DEF ToldInv, Told, NoPorts
<1> QED
  BY <1>2, <1>3, EnsureFacts

LEMMA ToldLifeCycle ==
  ASSUME BaseInv, ToldInv,
         \/ \E notifier, found \in BOOLEAN : OmsInit(notifier, found)
         \/ OmsDispose \/ NotifyAdd \/ NotifyRemove \/ AddDevices \/ AddInterfaces
  PROVE  ToldInv'
<1>1. CASE \E notifier, found \in BOOLEAN : OmsInit(notifier, found)
  <2>1. PICK notifier, found \in BOOLEAN : OmsInit(notifier, found)
    BY <1>1
  <2>2. NoPorts'
    BY <2>1, OmsInitFacts DEF BaseInv
  <2>3. oms'.alive /\ (~NotifierMayFail => oms'.notifier) /\ ~usb'.leaving
    BY <2>1 DEF OmsInit, MayAct
  <2> QED
    BY <2>2, <2>3 DEF ToldInv, Told, NoPorts
<1>2. CASE OmsDispose
  <2>1. NoPorts' /\ ~oms'.table /\ ~oms'.alive
    BY <1>2, ZeroFields DEF OmsDispose, ZeroOms, NoPorts, Valid
  <2> QED
    BY <2>1 DEF ToldInv, Told, NoPorts
<1>3. CASE NotifyAdd
  <2>1. NoPorts' /\ oms'.alive = oms.alive /\ oms'.notifier = oms.notifier
    BY <1>3, BindFacts DEF NotifyAdd
  <2>2. oms.alive /\ oms.notifier /\ ~usb'.leaving
    BY <1>3 DEF NotifyAdd, Alive, MayAct
  <2> QED
    BY <2>1, <2>2 DEF ToldInv, Told, NoPorts
<1>4. CASE NotifyRemove
  <2>1. CASE oms.notifier /\ oms.table
    <3>1. NoPorts'
      BY <1>4, <2>1, ZeroFields DEF NotifyRemove, NoPorts, Valid
    <3>2. ~oms'.table /\ oms'.alive = oms.alive /\ oms'.notifier = oms.notifier
      BY <1>4, <2>1, Types DEF NotifyRemove, BaseInv, OmsType
    <3> QED
      BY <3>1, <3>2 DEF ToldInv, Told, NoPorts
  <2>2. CASE ~(oms.notifier /\ oms.table)
    <3>1. oms' = oms /\ iface' = iface /\ hook' = hook
      BY <1>4, <2>2 DEF NotifyRemove
    <3> QED
      BY <2>2, <3>1 DEF ToldInv, Told, Valid
  <2> QED
    BY <2>1, <2>2
<1>5. CASE AddDevices
  BY <1>5, ToldEnsured DEF AddDevices
<1>6. CASE AddInterfaces
  BY <1>6, AddInterfacesFacts, ToldSame DEF BaseInv
<1> QED
  BY <1>1, <1>2, <1>3, <1>4, <1>5, <1>6

LEMMA ToldOthers ==
  ASSUME BaseInv, ToldInv,
         \/ StartMIDI2 \/ DiscardBacklog \/ ResetStreams \/ StartDelivery \/ StopMIDI
         \/ DrainSkip \/ DrainDecide \/ DrainMove
         \/ \E i \in Ifaces : \E kinds \in Transfers(source[i]) : ReadCompletes(i, kinds)
         \/ \E i \in Ifaces : \E ref \in {"on", "off"} : SetPortReceiveRefNum(i, ref)
         \/ NewStreams \/ InterfaceAppears \/ DriverUnloads \/ UNCHANGED vars
  PROVE  ToldInv'
<1>1. CASE StartMIDI2
  BY <1>1, ToldEnsured DEF StartMIDI2
<1>2. CASE DiscardBacklog \/ DrainSkip \/ DrainDecide \/ UNCHANGED vars
  <2>1. oms' = oms /\ usb' = usb /\ hook' = hook /\ iface' = iface
    BY <1>2 DEF DiscardBacklog, DrainSkip, DrainDecide, vars
  <2>2. \A i \in Ifaces : (Valid(i) => hook[i]) => (Valid(i)' => hook'[i])
    BY <2>1 DEF Valid
  <2> QED
    BY <2>1, <2>2, ToldSame
<1>3. CASE ResetStreams
  <2>1. usb' = usb
    BY <1>3 DEF ResetStreams
  <2> QED
    BY <1>3, <2>1, ResetStreamsFacts, ToldSame
<1>4. CASE StartDelivery
  <2>1. \A i \in Ifaces : (Valid(i) => hook[i]) => (Valid(i)' => hook'[i])
    BY <1>4 DEF StartDelivery, Valid
  <2> QED
    BY <1>4, <2>1, StartDeliveryFacts, ToldSame DEF BaseInv
<1>5. CASE StopMIDI
  <2>1. usb' = usb /\ \A i \in Ifaces : (Valid(i) => hook[i]) => (Valid(i)' => hook'[i])
    BY <1>5 DEF StopMIDI, Valid
  <2> QED
    BY <1>5, <2>1, StopFacts, ToldSame DEF BaseInv
<1>6. CASE DrainMove
  <2>1. usb' = usb
    BY <1>6 DEF DrainMove, Move
  <2> QED
    BY <1>6, <2>1, DrainMoveFacts, ToldSame
<1>7. ASSUME NEW i \in Ifaces, NEW kinds \in Transfers(source[i]), ReadCompletes(i, kinds)
      PROVE  ToldInv'
  <2>1. oms' = oms /\ hook' = hook /\ \A j \in Ifaces : Valid(j)' <=> Valid(j)
    BY <1>7, ReadFacts
  <2>2. usb' = usb
    BY <1>7 DEF ReadCompletes
  <2> QED
    BY <2>1, <2>2, ToldSame
<1>8. ASSUME NEW i \in Ifaces, NEW ref \in {"on", "off"}, SetPortReceiveRefNum(i, ref)
      PROVE  ToldInv'
  <2>1. oms' = oms /\ hook' = hook /\ \A j \in Ifaces : Valid(j)' <=> Valid(j)
    BY <1>8, RefNumFacts DEF BaseInv
  <2>2. usb' = usb
    BY <1>8 DEF SetPortReceiveRefNum
  <2> QED
    BY <2>1, <2>2, ToldSame
<1>9. CASE NewStreams
  <2>1. oms' = oms /\ hook' = hook /\ \A j \in Ifaces : Valid(j)' <=> Valid(j)
    BY <1>9, NewStreamsFacts DEF BaseInv
  <2>2. usb' = usb
    BY <1>9 DEF NewStreams
  <2> QED
    BY <2>1, <2>2, ToldSame
<1>10. CASE InterfaceAppears
  <2>1. oms' = oms /\ hook' = hook /\ iface' = iface
    BY <1>10 DEF InterfaceAppears
  <2>2. usb'.leaving = usb.leaving
    BY <1>10, Types DEF InterfaceAppears, BaseInv, UsbType
  <2>3. \A i \in Ifaces : (Valid(i) => hook[i]) => (Valid(i)' => hook'[i])
    BY <2>1 DEF Valid
  <2> QED
    BY <2>1, <2>2, <2>3, ToldSame
<1>11. CASE DriverUnloads
  <2>1. usb.leaving /\ ~usb'.leaving /\ oms' = oms /\ iface' = iface
    BY <1>11 DEF DriverUnloads
  <2>2. ~NotifierMayFail => \A i \in Ifaces : ~Valid(i)'
    BY <2>1 DEF ToldInv, Told, BaseInv, Knows, Valid
  <2> QED
    BY <2>1, <2>2 DEF ToldInv, Told
<1> QED
  BY <1>1, <1>2, <1>3, <1>4, <1>5, <1>6, <1>7, <1>8, <1>9, <1>10, <1>11

LEMMA ToldStep ==
  ASSUME BaseInv, ToldInv, [Next]_vars
  PROVE  ToldInv'
BY ToldLifeCycle, ToldOthers DEF Next

-----------------------------------------------------------------------------
(* Backlogs.                                                               *)
LEMMA AgeInit ==
  ASSUME Init
  PROVE  AgeInv
<1>1. ~oms.started /\ out = {}
  BY InitFacts
<1> QED
  BY <1>1 DEF AgeInv, Fresh

LEMMA AgeSame ==
  ASSUME AgeInv, out' = {},
         oms'.started => oms.started /\ \A i \in Ifaces : Current(ring[i]) => Current(ring'[i])
  PROVE  AgeInv'
BY DEF AgeInv, Fresh

(* Between the discarding drain and the start nothing comes to a known     *)
(* interface and stays.                                                    *)
LEMMA AgeStart ==
  ASSUME ~Preempts \/ ~NotifierMayFail, BaseInv, RingInv, ToldInv, StartDelivery
  PROVE  AgeInv'
<1>1. /\ out' = {} /\ task.at = "start"
      /\ \A i \in Ifaces : ring[i] = <<>> \/ ~Valid(i) => Current(ring'[i])
  BY StartDeliveryFacts DEF BaseInv
<1>2. \A i \in Ifaces : Valid(i) => Kept(i)
  BY DEF ToldInv, Told, Kept
<1>3. \A i \in Ifaces : Valid(i) => ring[i] = <<>>
  BY <1>1, <1>2 DEF RingInv, EmptyRings
<1>4. \A i \in Ifaces : Current(ring'[i])
  BY <1>1, <1>3
<1> QED
  BY <1>1, <1>4 DEF AgeInv, Fresh

LEMMA AgeRead ==
  ASSUME BaseInv, AgeInv,
         NEW i \in Ifaces, NEW kinds \in Transfers(source[i]), ReadCompletes(i, kinds)
  PROVE  AgeInv'
<1>1. /\ oms' = oms /\ \A j \in Ifaces : j # i => ring'[j] = ring[j]
      /\ \E waiting, drain : ReadInto(i, waiting, drain)
  BY ReadFacts
<1>2. PICK waiting, drain : ReadInto(i, waiting, drain)
  BY <1>1
<1>3. Current(<<>>)
  BY DEF Current
<1>4. oms.started => Current(ring'[i])
  BY <1>2, <1>3 DEF AgeInv, ReadInto
<1>5. oms.started => \A j \in Ifaces : Current(ring'[j])
  BY <1>1, <1>4 DEF AgeInv
<1>6. oms.started \/ ~Given(Port(i), oms.started)
  BY DEF Given
<1>7. (out' # {} => oms.started) /\ Fresh(out')
  <2>1. CASE ~Listening(i)
    BY <1>2, <2>1 DEF ReadInto, Fresh
  <2>2. CASE Listening(i)
    <3>1. /\ LoopInv(drain, Port(i), waiting, oms.started) /\ out' = drain.out
          /\ oms.started => Current(waiting)
      BY <1>2, <2>2 DEF ReadInto, AgeInv
    <3>2. CASE oms.started
      BY <3>1, <3>2 DEF LoopInv
    <3>3. CASE ~oms.started
      BY <1>6, <3>1, <3>3 DEF LoopInv, Fresh
    <3> QED
      BY <3>2, <3>3
  <2> QED
    BY <2>1, <2>2
<1> QED
  BY <1>1, <1>5, <1>7 DEF AgeInv

LEMMA AgeStep ==
  ASSUME ~Preempts \/ ~NotifierMayFail, BaseInv, RingInv, ToldInv, AgeInv, [Next]_vars
  PROVE  AgeInv'
<1>1. CASE StartDelivery
  BY <1>1, AgeStart
<1>2. ASSUME NEW i \in Ifaces, NEW kinds \in Transfers(source[i]), ReadCompletes(i, kinds)
      PROVE  AgeInv'
  BY <1>2, AgeRead
<1>3. CASE (\E notifier, found \in BOOLEAN : OmsInit(notifier, found)) \/ OmsDispose \/ StopMIDI
  <2>1. ~oms'.started /\ out' = {}
    <3>1. CASE \E notifier, found \in BOOLEAN : OmsInit(notifier, found)
      BY <3>1 DEF OmsInit
    <3>2. CASE OmsDispose
      BY <3>2 DEF OmsDispose, ZeroOms
    <3>3. CASE StopMIDI
      BY <3>3, StopFacts DEF BaseInv
    <3> QED
      BY <1>3, <3>1, <3>2, <3>3
  <2> QED
    BY <2>1, AgeSame
<1>4. CASE \/ NotifyAdd \/ NotifyRemove \/ AddDevices \/ AddInterfaces \/ StartMIDI2
           \/ DiscardBacklog \/ ResetStreams \/ DrainSkip \/ DrainDecide \/ NewStreams
           \/ \E i \in Ifaces : \E ref \in {"on", "off"} : SetPortReceiveRefNum(i, ref)
           \/ InterfaceAppears
  <2>1. ring' = ring /\ out' = {}
    BY <1>4
    DEF NotifyAdd, NotifyRemove, AddDevices, AddInterfaces, StartMIDI2, DiscardBacklog,
        ResetStreams, DrainSkip, DrainDecide, NewStreams, SetPortReceiveRefNum, InterfaceAppears
  <2>2. oms'.started = oms.started
    <3>1. CASE NotifyAdd
      BY <3>1, BindFacts DEF NotifyAdd
    <3>2. CASE NotifyRemove
      BY <3>2, Types DEF NotifyRemove, BaseInv, OmsType
    <3>3. CASE AddDevices \/ StartMIDI2
      BY <3>3, EnsureFacts DEF AddDevices, StartMIDI2
    <3> QED
      BY <1>4, <3>1, <3>2, <3>3
      DEF AddInterfaces, DiscardBacklog, ResetStreams, DrainSkip, DrainDecide, NewStreams,
          SetPortReceiveRefNum, InterfaceAppears
  <2> QED
    BY <2>1, <2>2, AgeSame
<1>5. CASE DrainMove
  BY <1>5, DrainMoveFacts, AgeSame
<1>6. CASE DriverUnloads
  <2>1. Current(<<>>)
    BY DEF Current
  <2>2. oms' = oms /\ out' = {} /\ \A i \in Ifaces : ring'[i] = <<>>
    BY <1>6 DEF DriverUnloads
  <2>3. \A i \in Ifaces : Current(ring'[i])
    BY <2>1, <2>2
  <2> QED
    BY <2>2, <2>3, AgeSame
<1>7. CASE UNCHANGED vars
  BY <1>7 DEF AgeInv, vars
<1> QED
  BY <1>1, <1>2, <1>3, <1>4, <1>5, <1>6, <1>7 DEF Next

-----------------------------------------------------------------------------
(* Completions that wait for the task level: runs.                         *)
LEMMA RunInit ==
  ASSUME Init
  PROVE  RunInv
<1>1. NoRuns /\ out = {}
  BY InitFacts
<1> QED
  BY <1>1 DEF NoRuns, RunInv, StreamsReset, RunsBegun, Begun, HasStart

(* Where the streams, the runs and what MIDI delivers stay.                *)
LEMMA RunSame ==
  ASSUME RunInv, out' = {}, task'.at # "start",
         oms'.started => oms.started, oms'.rxRoutine => oms.rxRoutine,
         Discarding => Discarding', task.at = "streams" => UNCHANGED task,
         \A i \in Ifaces :
           /\ iface'[i].inSysex = iface[i].inSysex /\ iface'[i].ref = iface[i].ref
           /\ run'[i] = run[i]
  PROVE  RunInv'
<1>1. StreamsReset' /\ HasStart(out)'
  BY DEF StreamsReset, HasStart
<1>2. RunsBegun'
  BY DEF RunInv, RunsBegun
<1> QED
  BY <1>1, <1>2 DEF RunInv

LEMMA RunLifeCycle ==
  ASSUME BaseInv, RunInv,
         \/ \E notifier, found \in BOOLEAN : OmsInit(notifier, found)
         \/ OmsDispose \/ NotifyAdd \/ NotifyRemove \/ AddDevices \/ AddInterfaces
  PROVE  RunInv'
<1>1. CASE \E notifier, found \in BOOLEAN : OmsInit(notifier, found)
  BY <1>1, OmsInitFacts, NoPortsStep DEF BaseInv
<1>2. CASE OmsDispose
  <2>1. NoPorts' /\ NoRuns' /\ out' = {}
    BY <1>2, ZeroFields DEF OmsDispose, NoPorts, NoRuns, Valid
  <2> QED
    BY <2>1, NoPortsStep
<1>3. CASE NotifyAdd
  <2>1. NoPorts' /\ NoRuns' /\ out' = {}
    BY <1>3, BindFacts DEF NotifyAdd
  <2> QED
    BY <2>1, NoPortsStep
<1>4. CASE NotifyRemove
  <2>1. task' = task /\ task.at = "idle" /\ out' = {} /\ run' = run
    BY <1>4 DEF NotifyRemove, MayAct
  <2>2. CASE oms.notifier /\ oms.table
    <3>1. NoPorts' /\ NoRuns'
      BY <1>4, <2>2, ZeroFields DEF NotifyRemove, NoPorts, NoRuns, Valid
    <3> QED
      BY <2>1, <3>1, NoPortsStep
  <2>3. CASE ~(oms.notifier /\ oms.table)
    <3>1. oms' = oms /\ iface' = iface
      BY <1>4, <2>3 DEF NotifyRemove
    <3> QED
      BY <2>1, <3>1, RunSame DEF Discarding, Draining
  <2> QED
    BY <2>2, <2>3
<1>5. CASE AddDevices
  <2>1. EnsureDispatch("add") /\ out' = {} /\ run' = run /\ task.at = "idle"
    BY <1>5 DEF AddDevices, Alive, MayAct
  <2>2. CASE /\ oms' = oms /\ hook' = hook /\ iface' = iface /\ task'.at = "add"
             /\ oms.table \/ ~usb.loaded
    BY <2>1, <2>2, RunSame DEF Discarding, Draining
  <2>3. CASE /\ NoPorts' /\ NoRuns' /\ task'.at = "drain" /\ task'.then = "add"
             /\ oms'.table /\ oms'.started = oms.started
    BY <2>1, <2>3, NoPortsStep
  <2> QED
    BY <2>1, <2>2, <2>3, EnsureFacts
<1>6. CASE AddInterfaces
  <2>1. /\ oms' = oms /\ run' = run /\ out' = {} /\ task.at = "add" /\ task'.at = "idle"
        /\ \A i \in Ifaces : /\ iface'[i].inSysex = iface[i].inSysex
                             /\ iface'[i].ref = iface[i].ref
    BY <1>6, AddInterfacesFacts DEF BaseInv
  <2> QED
    BY <2>1, RunSame DEF Discarding, Draining
<1> QED
  BY <1>1, <1>2, <1>3, <1>4, <1>5, <1>6

LEMMA RunStartStop ==
  ASSUME BaseInv, RunInv,
         StartMIDI2 \/ DiscardBacklog \/ ResetStreams \/ StartDelivery \/ StopMIDI
  PROVE  RunInv'
<1>1. CASE StartMIDI2
  <2>1. EnsureDispatch("discard") /\ out' = {} /\ run' = run /\ task.at = "idle"
    BY <1>1 DEF StartMIDI2, Alive, MayAct
  <2>2. CASE oms' = oms /\ hook' = hook /\ iface' = iface /\ task'.at = "discard"
    BY <2>1, <2>2, RunSame DEF Discarding, Draining
  <2>3. CASE NoPorts' /\ NoRuns' /\ task'.at = "drain" /\ task'.then = "discard"
    BY <2>1, <2>3, NoPortsStep
  <2> QED
    BY <2>1, <2>2, <2>3, EnsureFacts
<1>2. CASE DiscardBacklog
  <2>1. out' = {} /\ task'.at = "drain" /\ task'.then = "reset"
    BY <1>2, DiscardFacts
  <2> QED
    BY <2>1 DEF RunInv, StreamsReset, RunsBegun, HasStart, Discarding, Draining
<1>3. CASE ResetStreams
  <2>1. NoRuns' /\ out' = {}
    BY <1>3, ResetStreamsFacts
  <2> QED
    BY <2>1 DEF NoRuns, RunInv, StreamsReset, RunsBegun, Begun, HasStart
<1>4. CASE StartDelivery
  <2>1. iface' = iface /\ out' = {} /\ task.at = "start" /\ task'.at = "idle"
    BY <1>4, StartDeliveryFacts DEF BaseInv
  <2>2. NoRuns'
    BY <2>1 DEF NoRuns, RunInv, StreamsReset
  <2> QED
    BY <2>1, <2>2 DEF NoRuns, RunInv, StreamsReset, RunsBegun, Begun, HasStart
<1>5. CASE StopMIDI
  <2>1. ~oms'.started /\ out' = {} /\ task'.at = "idle"
    BY <1>5, StopFacts DEF BaseInv
  <2> QED
    BY <2>1 DEF RunInv, StreamsReset, RunsBegun, HasStart
<1> QED
  BY <1>1, <1>2, <1>3, <1>4, <1>5

LEMMA RunDrain ==
  ASSUME BaseInv, RunInv, DrainSkip \/ DrainDecide \/ DrainMove
  PROVE  RunInv'
<1>1. CASE DrainSkip
  <2>1. /\ oms' = oms /\ iface' = iface /\ run' = run /\ out' = {} /\ task.at = "drain"
        /\ \/ task'.at = "drain" /\ task'.then = task.then
           \/ task'.at = task.then /\ task.then \in {"idle", "add", "discard", "reset"}
    BY <1>1, DrainSkipFacts DEF BaseInv
  <2>2. Discarding => Discarding'
    BY <2>1 DEF Discarding, Draining
  <2>3. task'.at # "start" /\ task.at # "streams"
    BY <2>1
  <2> QED
    BY <2>1, <2>2, <2>3, RunSame
<1>2. CASE DrainDecide
  <2>1. /\ oms' = oms /\ iface' = iface /\ run' = run /\ out' = {} /\ task.at = "drain"
        /\ task'.at = "move" /\ task'.then = task.then
    BY <1>2, DrainDecideFacts DEF BaseInv
  <2>2. Discarding => Discarding'
    BY <2>1 DEF Discarding, Draining
  <2> QED
    BY <2>1, <2>2, RunSame
<1>3. CASE DrainMove
  <2>1. out' = {} /\ task'.at = "drain" /\ task'.then = "reset"
    BY <1>3, DrainMoveFacts
  <2> QED
    BY <2>1 DEF RunInv, StreamsReset, RunsBegun, HasStart, Discarding, Draining
<1> QED
  BY <1>1, <1>2, <1>3

LEMMA RunRead ==
  ASSUME Preempts = FALSE, BaseInv, RunInv,
         NEW i \in Ifaces, NEW kinds \in Transfers(source[i]), ReadCompletes(i, kinds)
  PROVE  RunInv'
<1>1. /\ oms' = oms /\ task' = task /\ task.at = "idle"
      /\ \A j \in Ifaces : j # i => iface'[j] = iface[j] /\ run'[j] = run[j]
      /\ \E waiting, drain : ReadInto(i, waiting, drain)
  BY ReadFacts
<1>2. PICK waiting, drain : ReadInto(i, waiting, drain)
  BY <1>1
<1>3. StreamsReset'
  BY <1>1 DEF StreamsReset
<1>4. CASE ~Listening(i)
  <2>1. iface' = iface /\ run' = run /\ out' = {}
    BY <1>2, <1>4 DEF ReadInto
  <2>2. task'.at # "start"
    BY <1>1
  <2> QED
    BY <1>1, <2>1, <2>2, RunSame DEF Discarding, Draining
<1>5. CASE Listening(i)
  <2>1. /\ LoopInv(drain, Port(i), waiting, oms.started)
        /\ iface'[i] = drain.iface /\ run'[i] = drain.run /\ out' = drain.out
    BY <1>2, <1>5 DEF ReadInto
  <2>2. /\ Port(i).iface = iface[i] /\ Port(i).run = run[i]
        /\ drain.iface.ref = "on" <=> iface[i].ref = "on"
    BY <2>1 DEF LoopInv, Port
  <2>3. Given(Port(i), oms.started) <=> oms.started /\ oms.rxRoutine /\ iface[i].ref = "on"
    BY <2>2 DEF Given
  <2>4. Given(Port(i), oms.started) => InRunBegun(Port(i))
    BY <1>1, <2>2, <2>3 DEF RunInv, RunsBegun, Discarding, Draining, InRunBegun
  <2>5. /\ Given(Port(i), oms.started) => InRunBegun(drain) /\ HasStart(drain.out)
        /\ ~Given(Port(i), oms.started) => drain.out = {}
    BY <2>1, <2>4 DEF LoopInv
  <2>6. HasStart(out')
    BY <2>1, <2>5 DEF HasStart
  <2>7. RunsBegun'
    <3>1. SUFFICES ASSUME oms.started, oms.rxRoutine, NEW j \in Ifaces, iface'[j].ref = "on"
                   PROVE  Begun(iface'[j].inSysex, run'[j])
      BY <1>1 DEF RunsBegun
    <3>2. CASE j = i
      BY <2>1, <2>2, <2>3, <2>5, <3>1, <3>2 DEF InRunBegun
    <3>3. CASE j # i
      BY <1>1, <3>1, <3>3 DEF RunInv, RunsBegun, Discarding, Draining
    <3> QED
      BY <3>2, <3>3
  <2> QED
    BY <1>3, <2>6, <2>7 DEF RunInv
<1> QED
  BY <1>4, <1>5

LEMMA RunOthers ==
  ASSUME BaseInv, RunInv,
         \/ \E i \in Ifaces : \E ref \in {"on", "off"} : SetPortReceiveRefNum(i, ref)
         \/ NewStreams \/ InterfaceAppears \/ DriverUnloads \/ UNCHANGED vars
  PROVE  RunInv'
<1>1. ASSUME NEW i \in Ifaces, NEW ref \in {"on", "off"}, SetPortReceiveRefNum(i, ref)
      PROVE  RunInv'
  <2>1. /\ oms' = oms /\ out' = {} /\ task.at = "idle" /\ task'.at = "streams" /\ task'.i = i
        /\ \A j \in Ifaces : j # i => iface'[j] = iface[j] /\ run'[j] = run[j]
    BY <1>1, RefNumFacts DEF BaseInv
  <2>2. RunsBegun'
    BY <2>1 DEF RunInv, RunsBegun, Discarding, Draining
  <2> QED
    BY <2>1, <2>2 DEF RunInv, StreamsReset, HasStart
<1>2. CASE NewStreams
  <2>1. /\ oms' = oms /\ run' = run /\ out' = {}
        /\ task.at = "streams" /\ task'.at = "idle" /\ ~iface'[task.i].inSysex
        /\ \A j \in Ifaces : j # task.i => iface'[j] = iface[j]
    BY <1>2, NewStreamsFacts DEF BaseInv
  <2>2. RunsBegun'
    BY <2>1 DEF RunInv, RunsBegun, Begun, Discarding, Draining
  <2> QED
    BY <2>1, <2>2 DEF RunInv, StreamsReset, HasStart
<1>3. CASE InterfaceAppears \/ DriverUnloads \/ UNCHANGED vars
  <2>1. oms' = oms /\ iface' = iface /\ task' = task /\ run' = run /\ (out' = {} \/ out' = out)
    BY <1>3 DEF InterfaceAppears, DriverUnloads, vars
  <2> QED
    BY <2>1 DEF RunInv, StreamsReset, RunsBegun, HasStart, Discarding, Draining
<1> QED
  BY <1>1, <1>2, <1>3

LEMMA RunStep ==
  ASSUME Preempts = FALSE, BaseInv, RunInv, [Next]_vars
  PROVE  RunInv'
BY RunLifeCycle, RunStartStop, RunDrain, RunRead, RunOthers DEF Next

-----------------------------------------------------------------------------
(* In every environment: interfaces are valid only while a class driver is *)
(* known, a stream is inside a run only on a valid interface, and the only *)
(* drain that takes anything at task level is the one of omdvStartMIDI2.   *)
THEOREM OmsBaseInvariant == Spec => []BaseInv
<1>1. Init => BaseInv
  BY BaseInit
<1>2. BaseInv /\ TypeOK' /\ [Next]_vars => BaseInv'
  BY BaseStep
<1> QED
  BY <1>1, <1>2, OmsTypeCorrect, PTL DEF Spec

(* In every environment: what omdvStartMIDI2 discarded stays discarded     *)
(* until it starts, and from then on the interfaces it knew and had hooks  *)
(* for keep an empty ring.                                                 *)
THEOREM OmsRingInvariant == Spec => []RingInv
<1>1. Init => RingInv
  BY RingInit
<1>2. BaseInv /\ RingInv /\ [Next]_vars => RingInv'
  BY RingStep
<1> QED
  BY <1>1, <1>2, OmsBaseInvariant, PTL DEF Spec

(* The start of MIDI and the push path of oms_rx_event after it leave      *)
(* nothing in the ring of an interface that was known and hooked, whatever *)
(* preempts what and whatever is added, gone or bound again meanwhile.     *)
THEOREM OmsNothingWaits == Spec => []NothingWaits
<1>1. RingInv => NothingWaits
  BY DEF RingInv, ServedEmpty, Valid, NothingWaits
<1> QED
  BY <1>1, OmsRingInvariant, PTL

(* Where the notification is always installed OMS lets go of a driver      *)
(* before it leaves, and every interface OMS knows has its hook.           *)
THEOREM OmsToldInvariant == Spec => []ToldInv
<1>1. Init => ToldInv
  BY ToldInit
<1>2. BaseInv /\ ToldInv /\ [Next]_vars => ToldInv'
  BY ToldStep
<1> QED
  BY <1>1, <1>2, OmsBaseInvariant, PTL DEF Spec

(* OMS is given nothing while MIDI is off, and never what waited in the    *)
(* ring of an interface it knew when MIDI was started (the drain without   *)
(* delivery in oms_start_midi2).  With completions that preempt the task   *)
(* level a driver OMS was not told about may still store between that      *)
(* drain and the start, in a ring that has no hook.                        *)
THEOREM OmsStartDiscards ==
  ASSUME ~Preempts \/ ~NotifierMayFail
  PROVE  Spec => []StartDiscards
<1>1. Init => AgeInv
  BY AgeInit
<1>2. BaseInv /\ RingInv /\ ToldInv /\ AgeInv /\ [Next]_vars => AgeInv'
  BY AgeStep
<1>3. AgeInv => StartDiscards
  BY DEF AgeInv, Fresh, StartDiscards
<1> QED
  BY <1>1, <1>2, <1>3, OmsBaseInvariant, OmsRingInvariant, OmsToldInvariant, PTL DEF Spec

(* While MIDI runs OMS has the start of every run a stream it asked for is *)
(* inside of, unless that stream is about to be reset.                     *)
THEOREM OmsRunInvariant ==
  ASSUME Preempts = FALSE
  PROVE  Spec => []RunInv
<1>1. Init => RunInv
  BY RunInit
<1>2. BaseInv /\ RunInv /\ [Next]_vars => RunInv'
  BY RunStep
<1> QED
  BY <1>1, <1>2, OmsBaseInvariant, PTL DEF Spec

(* A chunk tagged "middle" continues a run whose start OMS was given: what *)
(* oms_start_midi2 and omdvSetPortReceiveRefNum do to the streams suffices *)
(* for any number of ports and any transfer.                               *)
THEOREM OmsMidHasStart ==
  ASSUME Preempts = FALSE
  PROVE  Spec => []MidHasStart
<1>1. RunInv => MidHasStart
  BY DEF RunInv, HasStart, MidHasStart
<1> QED
  BY <1>1, OmsRunInvariant, PTL
=============================================================================
