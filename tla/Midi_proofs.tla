----------------------------- MODULE Midi_proofs -----------------------------
(***************************************************************************)
(* Proofs about the two paths of a MIDI message over a port's cable, for   *)
(* every queue size, cable and bound.                                      *)
(*                                                                         *)
(* MidiLink: no packet disappears uncounted, no accepted message is given  *)
(* up or reordered, the tags frame every SysEx run, and as long as the     *)
(* queue had room every byte sent arrives, in order.                       *)
(*                                                                         *)
(* OmsTx: a SysEx run that OMS hands over in pieces arrives whole and ends *)
(* once, and bytes of a run given up are counted and never join the next.  *)
(***************************************************************************)
EXTENDS MidiLink, OmsTx, MidiStream_proofs

EndCins == {CinSysExEnd1, CinSysExEnd2, CinSysExEnd3}

(* A message that arrived carries one to three bytes.                      *)
Heard == {message \in MessageType : Len(message.data) \in 1..3}

(* The first part of the invariant: types and the bookkeeping of drops.    *)
LinkBase ==
  /\ rx \in StreamType /\ rx.cable = Cable
  /\ wire \in Seq(WirePacket)
  /\ taken \in Seq(Heard) /\ Queue(rx) \in Seq(Heard)
  /\ sent \in Seq(Messages) /\ stray \in 0..MaxStray
  /\ rx.stats.packets = rx.stats.messages + rx.count + Outcomes(rx.stats)

-----------------------------------------------------------------------------
(* What feeding a packet does to the link.                                 *)
FedLink(buf) ==
  /\ rx' \in StreamType /\ rx'.cable = Cable
  /\ Queue(rx') \in Seq(Heard)
  /\ rx'.stats.packets = rx'.stats.messages + rx'.count + Outcomes(rx'.stats)
  /\ rx'.inSysex = IF NotOurs(rx, Decode(buf)) THEN rx.inSysex ELSE RxInSysex(rx, Decode(buf))
  /\ IF NotOurs(rx, Decode(buf))
     THEN Received' = Received /\ rx'.stats.full = rx.stats.full
     ELSE IF rx.count < QueueSize
     THEN Received' = Append(Received, Arrived(rx, buf)) /\ rx'.stats.full = rx.stats.full
     ELSE Received' = Received /\ rx'.stats.full = rx.stats.full + 1

LEMMA ReceivedIs ==
  ASSUME LinkBase
  PROVE  Received = taken \o Queue(rx) /\ Received \in Seq(Heard)
<1>1. taken \in Seq(Heard) /\ Queue(rx) \in Seq(Heard)
  BY DEF LinkBase
<1>2. Received = taken \o Queue(rx)
  BY DEF Received, Queue
<1> QED
  BY <1>1, <1>2, ConcatProperties

LEMMA ArrivedHeard ==
  ASSUME NEW s \in StreamType, NEW buf \in WirePacket, ~NotOurs(s, Decode(buf))
  PROVE  Arrived(s, buf) \in Heard
<1>1. Decode(buf).cin \notin {CinMisc, CinCableEvent}
  BY DEF NotOurs
<1>2. Carried(buf) \in MidiBytes /\ Len(Carried(buf)) \in 1..3
  BY <1>1, CarriedBounded
<1>3. RxTag(s, Decode(buf)) \in Tags
  BY TagTyped
<1> QED
  BY <1>2, <1>3 DEF Arrived, Heard, MessageType

LEMMA FeedEffect ==
  ASSUME LinkBase, NEW buf \in WirePacket, rx' = RxPacket(rx, buf), taken' = taken
  PROVE  FedLink(buf)
<1>1. /\ rx \in StreamType /\ rx.cable = Cable /\ Queue(rx) \in Seq(Heard) /\ taken \in Seq(Heard)
      /\ rx.stats.packets = rx.stats.messages + rx.count + Outcomes(rx.stats)
  BY DEF LinkBase
<1>2. PICK s : s = rx
  OBVIOUS
<1>3. PICK t : t = rx'
  OBVIOUS
<1>4. Fed(t, s, buf)
  BY <1>1, <1>2, <1>3, PacketEffect
<1>5. Received = taken \o Queue(s) /\ Received' = taken \o Queue(t)
  BY <1>2, <1>3 DEF Received, Queue
<1>6. s.stats \in StatsType /\ s.count \in Nat /\ t.stats \in StatsType /\ t.count \in Nat
  BY <1>1, <1>2, <1>4, QueueAssumption, StreamFields DEF Fed
<1>7. t.stats.packets = t.stats.messages + t.count + Outcomes(t.stats)
  <2>1. /\ t.stats.packets = s.stats.packets + 1 /\ t.stats.messages = s.stats.messages
        /\ Outcomes(t.stats) + t.count = Outcomes(s.stats) + s.count + 1
    <3>1. CASE NotOurs(s, Decode(buf))
      <4>1. t.count = s.count /\ Outcomes(t.stats) = Outcomes(s.stats) + 1
        BY <1>4, <3>1 DEF Fed
      <4>2. Outcomes(s.stats) \in Nat
        BY <1>6, StatsFields DEF Outcomes
      <4> QED
        BY <1>4, <1>6, <4>1, <4>2 DEF Fed
    <3>2. CASE ~NotOurs(s, Decode(buf))
      BY <1>4, <3>2 DEF Fed
    <3> QED
      BY <3>1, <3>2
  <2>2. /\ Outcomes(s.stats) \in Nat /\ Outcomes(t.stats) \in Nat
        /\ s.stats.packets \in Nat /\ s.stats.messages \in Nat /\ t.stats.messages \in Nat
    BY <1>6, StatsFields DEF Outcomes
  <2>3. s.stats.packets = s.stats.messages + s.count + Outcomes(s.stats)
    BY <1>1, <1>2
  <2> QED
    BY <1>6, <2>1, <2>2, <2>3
<1>8. CASE NotOurs(s, Decode(buf))
  <2>1. /\ t \in StreamType /\ t.cable = s.cable /\ t.inSysex = s.inSysex
        /\ Queue(t) = Queue(s) /\ t.stats.full = s.stats.full
    BY <1>4, <1>8 DEF Fed
  <2> QED
    BY <1>1, <1>2, <1>3, <1>5, <1>7, <1>8, <2>1 DEF FedLink
<1>9. CASE ~NotOurs(s, Decode(buf))
  <2>1. /\ t \in StreamType /\ t.cable = s.cable /\ t.inSysex = RxInSysex(s, Decode(buf))
        /\ Stored(t, s, Arrived(s, buf))
    BY <1>4, <1>9 DEF Fed
  <2>2. PICK message \in Heard : message = Arrived(s, buf)
    BY <1>1, <1>2, <1>9, ArrivedHeard
  <2>3. CASE s.count < QueueSize
    <3>1. Queue(t) = Append(Queue(s), message) /\ t.stats.full = s.stats.full
      BY <2>1, <2>2, <2>3 DEF Stored
    <3>2. Queue(t) \in Seq(Heard)
      BY <1>1, <1>2, <3>1, AppendProperties
    <3>3. taken \o Queue(t) = Append(taken \o Queue(s), message)
      <4>1. PICK q \in Seq(Heard) : q = Queue(s)
        BY <1>1, <1>2
      <4>2. PICK r \in Seq(Heard) : r = taken
        BY <1>1
      <4>3. r \o q \in Seq(Heard)
        BY ConcatProperties
      <4>4. Append(q, message) = q \o <<message>> /\ Append(r \o q, message) = (r \o q) \o <<message>>
        BY <4>3, AppendIsConcat
      <4>5. (r \o q) \o <<message>> = r \o (q \o <<message>>)
        <5>1. <<message>> \in Seq(Heard)
          OBVIOUS
        <5> QED
          BY <5>1, ConcatAssociative
      <4> QED
        BY <3>1, <4>1, <4>2, <4>4, <4>5
    <3> QED
      BY <1>1, <1>2, <1>3, <1>5, <1>7, <1>9, <2>1, <2>2, <2>3, <3>1, <3>2, <3>3 DEF FedLink
  <2>4. CASE ~(s.count < QueueSize)
    <3>1. Queue(t) = Queue(s) /\ t.stats.full = s.stats.full + 1
      BY <2>1, <2>4 DEF Stored
    <3> QED
      BY <1>1, <1>2, <1>3, <1>5, <1>7, <1>9, <2>1, <2>4, <3>1 DEF FedLink
  <2> QED
    BY <2>3, <2>4
<1> QED
  BY <1>8, <1>9

(* A message that is taken leaves the queue and is received all the same.  *)
LEMMA TakeEffect ==
  ASSUME LinkBase, Take
  PROVE  /\ rx' \in StreamType /\ rx'.cable = Cable /\ rx'.inSysex = rx.inSysex
         /\ Queue(rx') \in Seq(Heard) /\ taken' \in Seq(Heard)
         /\ rx'.stats.packets = rx'.stats.messages + rx'.count + Outcomes(rx'.stats)
         /\ rx'.stats.full = rx.stats.full
         /\ Received' = Received
<1>1. /\ rx \in StreamType /\ rx.cable = Cable /\ Queue(rx) \in Seq(Heard) /\ taken \in Seq(Heard)
      /\ rx.stats.packets = rx.stats.messages + rx.count + Outcomes(rx.stats)
  BY DEF LinkBase
<1>2. PICK s : s = rx
  OBVIOUS
<1>3. PICK t : t = RxTaken(s)
  OBVIOUS
<1>4. rx' = t /\ s.count > 0 /\ taken' = Append(taken, RxOldest(s))
  BY <1>2, <1>3 DEF Take
<1>5. PICK message \in MessageType : message = RxOldest(s)
  BY <1>1, <1>2, <1>4, QueueTaken
<1>6. t \in StreamType /\ Queue(s) = <<message>> \o Queue(t)
  BY <1>1, <1>2, <1>3, <1>4, <1>5, QueueTaken
<1>7. /\ <<message>> \in Seq(MessageType) /\ Len(<<message>>) = 1 /\ <<message>>[1] = message
      /\ Queue(t) \in Seq(MessageType) /\ Queue(s) \in Seq(Heard)
      /\ Len(Queue(t)) = t.count /\ Len(Queue(s)) = s.count
  BY <1>1, <1>2, <1>6, QueueTyped
<1>8. message \in Heard /\ Queue(t) \in Seq(Heard)
  <2>1. PICK q : q = Queue(t)
    OBVIOUS
  <2>2. PICK r : r = Queue(s)
    OBVIOUS
  <2>3. /\ r = <<message>> \o q /\ Len(r) = 1 + Len(q) /\ Len(q) \in Nat
        /\ \A i \in 1..(1 + Len(q)) : r[i] = IF i <= 1 THEN <<message>>[i] ELSE q[i - 1]
    <3>1. /\ Len(<<message>> \o q) = Len(<<message>>) + Len(q)
          /\ \A i \in 1..(Len(<<message>>) + Len(q)) :
               (<<message>> \o q)[i] = IF i <= Len(<<message>>) THEN <<message>>[i]
                                       ELSE q[i - Len(<<message>>)]
      BY <1>7, <2>1, ConcatProperties
    <3>2. Len(q) \in Nat
      BY <1>7, <2>1, LenProperties
    <3> QED
      BY <1>6, <1>7, <2>1, <2>2, <3>1, <3>2
  <2>4. \A i \in 1..Len(r) : r[i] \in Heard
    BY <1>7, <2>2, ElementOfSeq
  <2>5. message \in Heard
    <3>1. 1 \in 1..(1 + Len(q)) /\ 1 <= 1
      BY <2>3
    <3> QED
      BY <1>7, <2>3, <2>4, <3>1
  <2>6. ASSUME NEW i \in 1..Len(q) PROVE q[i] \in Heard
    <3>1. i + 1 \in 1..(1 + Len(q)) /\ ~(i + 1 <= 1) /\ (i + 1) - 1 = i
      BY <2>3
    <3> QED
      BY <2>3, <2>4, <3>1
  <2>7. q \in [1..Len(q) -> Heard]
    <3>1. q \in [1..Len(q) -> MessageType]
      BY <1>7, <2>1, LenProperties
    <3> QED
      BY <2>6, <3>1
  <2>8. q \in Seq(Heard)
    BY <2>3, <2>7, SeqDef
  <2> QED
    BY <2>1, <2>5, <2>8
<1>9. PICK more \in Seq(Heard) : more = Append(taken, message)
  BY <1>1, <1>8, AppendProperties
<1>10. taken' = more
  BY <1>4, <1>5, <1>9
<1>11. more \o Queue(t) = taken \o Queue(s)
  <2>1. PICK q \in Seq(Heard) : q = Queue(t)
    BY <1>8
  <2>2. PICK one \in Seq(Heard) : one = <<message>>
    <3>1. <<message>> \in Seq(Heard)
      BY <1>8
    <3> QED
      BY <3>1
  <2>3. more = taken \o one
    BY <1>1, <1>8, <1>9, <2>2, AppendIsConcat
  <2>4. (taken \o one) \o q = taken \o (one \o q)
    BY <1>1, ConcatAssociative, SMTT(30)
  <2> QED
    BY <1>6, <2>1, <2>2, <2>3, <2>4
<1>12. Received = taken \o Queue(s) /\ Received' = more \o Queue(t)
  BY <1>2, <1>4, <1>10 DEF Received, Queue
<1>13. s.stats \in StatsType /\ s.count \in Nat
  BY <1>1, <1>2, QueueAssumption, StreamFields
<1>14. t = [s EXCEPT !.head = (@ + 1) % QueueSize, !.count = @ - 1, !.stats.messages = @ + 1]
  BY <1>3 DEF RxTaken
<1>15. /\ t.cable = s.cable /\ t.inSysex = s.inSysex /\ t.count = s.count - 1
       /\ t.stats = [s.stats EXCEPT !.messages = @ + 1]
  BY <1>1, <1>2, <1>14 DEF StreamType
<1>16. /\ t.stats.packets = s.stats.packets /\ t.stats.messages = s.stats.messages + 1
       /\ t.stats.misc = s.stats.misc /\ t.stats.cable = s.stats.cable
       /\ t.stats.misroute = s.stats.misroute /\ t.stats.full = s.stats.full
  BY <1>13, <1>15 DEF StatsType
<1>17. t.stats.packets = t.stats.messages + t.count + Outcomes(t.stats)
  <2>1. s.stats.packets = s.stats.messages + s.count + Outcomes(s.stats)
    BY <1>1, <1>2
  <2>2. Outcomes(t.stats) = Outcomes(s.stats)
    BY <1>16 DEF Outcomes
  <2>3. s.stats.messages \in Nat /\ s.stats.packets \in Nat /\ Outcomes(s.stats) \in Nat
    BY <1>13, StatsFields, SMTT(30) DEF Outcomes
  <2>4. PICK m \in Nat, c \in Nat, o \in Nat :
          m = s.stats.messages /\ c = s.count /\ o = Outcomes(s.stats)
    BY <1>13, <2>3
  <2>5. /\ t.stats.packets = m + c + o /\ t.stats.messages = m + 1 /\ t.count = c - 1
        /\ Outcomes(t.stats) = o
    BY <1>15, <1>16, <2>1, <2>2, <2>4
  <2>6. m + c + o = (m + 1) + (c - 1) + o
    OBVIOUS
  <2> QED
    BY <2>5, <2>6
<1> QED
  BY <1>1, <1>2, <1>4, <1>6, <1>8, <1>9, <1>10, <1>11, <1>12, <1>15, <1>16, <1>17

-----------------------------------------------------------------------------
(* What is fed between two packets of a run is no packet of the stream, or *)
(* a clock tick.                                                           *)
IsTick(buf) == Decode(buf).cin = 5 /\ Carried(buf) = Tick

LEMMA StraysKnown ==
  ASSUME rx.cable = Cable, NEW buf \in StrayPackets
  PROVE  /\ buf \in WirePacket
         /\ NotOurs(rx, Decode(buf)) \/ IsTick(buf)
<1>0. /\ Cable \in 0..MaxCable /\ (Cable + 1) % 16 \in 0..MaxCable /\ (Cable + 1) % 16 # Cable
  BY LinkAssumption DEF MaxCable
<1>1. CASE buf = TickPacket
  <2>1. CinForStatus(\hF8) = 5
    BY DEF CinForStatus, ChannelVoice, SingleByte
  <2>2. Tick \in Seq(Byte) /\ Len(Tick) = 1 /\ Tick[1] = \hF8
    BY DEF Tick, Byte
  <2>3. 5 \in 0..15 /\ DataLength(5) = 1
    BY DEF DataLength, CinLengths
  <2>4. buf = Build(Cable, 5, Tick)
    BY <1>1, <2>1, <2>2 DEF TickPacket, Encode
  <2>5. PICK data \in Seq(Byte), cin \in 0..15 : data = Tick /\ cin = 5 /\ Len(data) = DataLength(cin)
    <3>1. Len(Tick) = DataLength(5)
      BY <2>2, <2>3
    <3> QED
      BY <2>2, <2>3, <3>1
  <2>6. buf = Build(Cable, cin, data)
    BY <2>4, <2>5
  <2>7. buf \in WirePacket /\ Decode(buf).cin = cin /\ Carried(buf) = data
    BY <1>0, <2>5, <2>6, BuildDecode
  <2> QED
    BY <2>5, <2>7 DEF IsTick
<1>2. CASE buf = Build(Cable, CinMisc, <<>>)
  <2>1. PICK cin \in 0..15 : cin = CinMisc /\ DataLength(cin) = 0
    <3>1. CinMisc \in 0..15 /\ DataLength(CinMisc) = 0
      BY DEF CinMisc, DataLength, CinLengths
    <3> QED
      BY <3>1
  <2>2. PICK data \in Seq(Byte) : data = <<>> /\ Len(data) = DataLength(cin)
    BY <2>1, EmptySeq
  <2>3. buf = Build(Cable, cin, data)
    BY <1>2, <2>1, <2>2
  <2>4. buf \in WirePacket /\ Decode(buf).cin = cin
    <3>1. Len(data) = DataLength(cin)
      BY <2>2
    <3>2. Cable \in 0..MaxCable
      BY <1>0
    <3>3. /\ Build(Cable, cin, data) \in WirePacket
          /\ Decode(Build(Cable, cin, data)).cin = cin
      BY <3>1, <3>2, BuildDecode, SMTT(30)
    <3> QED
      BY <2>3, <3>3
  <2> QED
    BY <2>1, <2>4 DEF NotOurs
<1>3. CASE buf = Build(Cable, CinCableEvent, <<1>>)
  <2>1. PICK cin \in 0..15 : cin = CinCableEvent /\ DataLength(cin) = 1
    <3>1. CinCableEvent \in 0..15 /\ DataLength(CinCableEvent) = 1
      BY DEF CinCableEvent, DataLength, CinLengths
    <3> QED
      BY <3>1
  <2>2. <<1>> \in Seq(Byte) /\ Len(<<1>>) = 1
    BY DEF Byte
  <2>3. buf = Build(Cable, cin, <<1>>)
    BY <1>3, <2>1
  <2>4. buf \in WirePacket /\ Decode(buf).cin = cin
    BY <1>0, <2>1, <2>2, <2>3, BuildDecode, ZenonT(40)
  <2> QED
    BY <2>1, <2>4 DEF NotOurs
<1>4. CASE buf = Build((Cable + 1) % 16, CinSysExStart, <<SOX, 1, 2>>)
  <2>1. PICK cin \in 0..15 : cin = CinSysExStart /\ DataLength(cin) = 3
    <3>1. CinSysExStart \in 0..15 /\ DataLength(CinSysExStart) = 3
      BY DEF CinSysExStart, DataLength, CinLengths
    <3> QED
      BY <3>1
  <2>2. <<SOX, 1, 2>> \in Seq(Byte) /\ Len(<<SOX, 1, 2>>) = 3
    BY DEF Byte, SOX
  <2>3. PICK other \in 0..MaxCable : other = (Cable + 1) % 16 /\ other # Cable
    BY <1>0
  <2>4. buf = Build(other, cin, <<SOX, 1, 2>>)
    BY <1>4, <2>1, <2>3
  <2>5. buf \in WirePacket /\ Decode(buf).cable = other
    BY <2>1, <2>2, <2>4, BuildDecode, ZenonT(40)
  <2> QED
    BY <2>3, <2>5 DEF NotOurs
<1> QED
  BY <1>1, <1>2, <1>3, <1>4 DEF StrayPackets

(* A message that is sent is cut into packets of this cable.               *)
LEMMA SendEffect ==
  ASSUME LinkBase, NEW msg \in Messages, Send(msg)
  PROVE  \E packets \in Seq(WirePacket) :
           /\ Cut(packets, Cable, msg) /\ msg \in Seq(Byte)
           /\ wire' = wire \o packets /\ wire' \in Seq(WirePacket)
           /\ sent' = Append(sent, msg) /\ sent' \in Seq(Messages)
           /\ Received' = Received
<1>1. wire \in Seq(WirePacket) /\ sent \in Seq(Messages)
  BY DEF LinkBase
<1>2. msg \in Seq(Byte) /\ Cable \in 0..MaxCable
  BY LinkAssumption
<1>3. PICK packets : packets = TxMessage(Cable, msg, MaxPackets)
  OBVIOUS
<1>4. /\ packets # <<>> /\ wire' = wire \o packets /\ sent' = Append(sent, msg)
      /\ rx' = rx /\ taken' = taken
  BY <1>3 DEF Send
<1>5. Cut(packets, Cable, msg)
  BY <1>2, <1>3, <1>4, MessageCut
<1>6. packets \in Seq(WirePacket)
  BY <1>2, <1>5, CutKeepsBytes
<1>7. wire \o packets \in Seq(WirePacket) /\ Append(sent, msg) \in Seq(Messages)
  BY <1>1, <1>6, ConcatProperties, AppendProperties
<1>8. Received' = Received
  BY <1>4 DEF Received
<1> QED
  BY <1>2, <1>4, <1>5, <1>6, <1>7, <1>8

(* The packet that is fed, and the rest of the wire.                       *)
LEMMA FeedSplits ==
  ASSUME LinkBase, Feed
  PROVE  /\ Head(wire) \in WirePacket /\ Len(wire) \in Nat \ {0} /\ wire[1] = Head(wire)
         /\ wire' \in Seq(WirePacket) /\ wire = <<Head(wire)>> \o wire'
         /\ Len(wire') = Len(wire) - 1
         /\ \A k \in 1..Len(wire') : wire'[k] = wire[k + 1]
         /\ FedLink(Head(wire))
<1>1. wire \in Seq(WirePacket) /\ wire # <<>> /\ wire' = Tail(wire)
  BY DEF LinkBase, Feed
<1>2. /\ Head(wire) \in WirePacket /\ Tail(wire) \in Seq(WirePacket) /\ Len(Tail(wire)) = Len(wire) - 1
      /\ \A k \in 1..Len(Tail(wire)) : Tail(wire)[k] = wire[k + 1]
  BY <1>1, HeadTailProperties
<1>3. Len(wire) \in Nat \ {0} /\ wire[1] = Head(wire)
  BY <1>1, EmptySeq
<1>4. wire = <<Head(wire)>> \o Tail(wire)
  <2>1. PICK n \in Nat \ {0} : n = Len(wire)
    BY <1>3
  <2>2. SubSeq(wire, 1, n) = wire /\ SubSeq(wire, 2, n) = Tail(wire)
    BY <1>1, <2>1, SubSeqFull, TailIsSubSeq
  <2>3. SubSeq(wire, 1, n) = <<wire[1]>> \o SubSeq(wire, 1 + 1, n)
    <3>1. 1 \in 1..Len(wire) /\ n \in 1..Len(wire)
      BY <2>1
    <3> QED
      BY <1>1, <3>1, SubSeqRecursiveFirst
  <2> QED
    BY <1>3, <2>2, <2>3
<1>5. FedLink(Head(wire))
  BY <1>2, FeedEffect DEF Feed
<1> QED
  BY <1>1, <1>2, <1>3, <1>4, <1>5

LEMMA StrayEffect ==
  ASSUME LinkBase, NEW buf \in StrayPackets, FeedStray(buf)
  PROVE  /\ FedLink(buf) /\ wire' = wire /\ sent' = sent /\ taken' = taken
         /\ stray' \in 0..MaxStray
         /\ buf \in WirePacket /\ (NotOurs(rx, Decode(buf)) \/ IsTick(buf))
<1>1. rx.cable = Cable /\ stray \in 0..MaxStray
  BY DEF LinkBase
<1>2. buf \in WirePacket /\ (NotOurs(rx, Decode(buf)) \/ IsTick(buf))
  BY <1>1, StraysKnown
<1>3. FedLink(buf)
  BY <1>2, FeedEffect DEF FeedStray
<1> QED
  BY <1>1, <1>2, <1>3, LinkAssumption DEF FeedStray

(* A stream at rest, as um9_rx_init leaves it.                             *)
LEMMA RxInitTyped ==
  ASSUME NEW cable \in 0..MaxCable
  PROVE  /\ RxInit(cable) \in StreamType
         /\ RxInit(cable).cable = cable /\ RxInit(cable).count = 0
         /\ RxInit(cable).inSysex = FALSE /\ RxInit(cable).stats = NoStats
<1>1. QueueSize \in Nat \ {0}
  BY QueueAssumption
<1>2. NoMessage \in MessageType
  <2>1. <<>> \in Seq(Byte) /\ Len(<<>>) = 0
    BY EmptySeq
  <2> QED
    BY <2>1 DEF NoMessage, MessageType, MidiBytes, Tags
<1>3. NoStats \in StatsType
  BY DEF NoStats, StatsType
<1>4. PICK pending \in [Places -> MessageType] : pending = [k \in 0..(QueueSize - 1) |-> NoMessage]
  <2>1. [k \in Places |-> NoMessage] \in [Places -> MessageType]
    BY <1>2
  <2> QED
    BY <2>1 DEF Places
<1>5. PICK s : s = [cable |-> cable, inSysex |-> FALSE, head |-> 0, count |-> 0,
                    pending |-> pending, stats |-> NoStats]
  OBVIOUS
<1>6. /\ s \in StreamType /\ s.cable = cable /\ s.count = 0
      /\ s.inSysex = FALSE /\ s.stats = NoStats
  <2>1. 0 \in Places /\ 0 \in 0..QueueSize
    BY <1>1 DEF Places
  <2> QED
    BY <1>1, <1>3, <1>5, <2>1 DEF StreamType
<1> QED
  BY <1>4, <1>5, <1>6 DEF RxInit

LEMMA LinkBaseInit ==
  Init => LinkBase /\ Queue(rx) = <<>> /\ Received = <<>> /\ wire = <<>> /\ sent = <<>>
          /\ ~rx.inSysex
<1> SUFFICES ASSUME Init
             PROVE  LinkBase /\ Queue(rx) = <<>> /\ Received = <<>> /\ wire = <<>> /\ sent = <<>>
                    /\ ~rx.inSysex
  OBVIOUS
<1>1. PICK s : s = rx
  OBVIOUS
<1>2. QueueSize \in Nat \ {0} /\ Cable \in 0..MaxCable /\ MaxStray \in Nat
  BY QueueAssumption, LinkAssumption
<1>7. /\ s \in StreamType /\ s.cable = Cable /\ s.inSysex = FALSE /\ s.count = 0 /\ s.stats = NoStats
  BY <1>1, <1>2, RxInitTyped DEF Init
<1>8. Queue(s) = <<>>
  <2>1. PICK q \in Seq(MessageType) : q = Queue(s) /\ Len(q) = 0
    BY <1>7, QueueTyped
  <2>2. q = <<>>
    BY <2>1, EmptySeq
  <2> QED
    BY <2>1, <2>2
<1>9. NoStats.packets = NoStats.messages + 0 + Outcomes(NoStats)
  BY DEF NoStats, Outcomes
<1>10. /\ <<>> \in Seq(WirePacket) /\ <<>> \in Seq(Heard) /\ <<>> \in Seq(Messages)
       /\ <<>> \o <<>> = <<>>
  BY EmptySeq, ConcatEmptySeq
<1>11. wire = <<>> /\ sent = <<>> /\ taken = <<>> /\ stray = 0
  BY DEF Init
<1>12. LinkBase
  BY <1>1, <1>2, <1>7, <1>8, <1>9, <1>10, <1>11 DEF LinkBase
<1>13. Received = <<>>
  <2>1. Received = taken \o Queue(rx)
    BY DEF Received, Queue
  <2> QED
    BY <1>1, <1>8, <1>10, <1>11, <2>1
<1> QED
  BY <1>1, <1>7, <1>8, <1>11, <1>12, <1>13

LEMMA LinkBaseStep == LinkBase /\ [Next]_vars => LinkBase'
<1> SUFFICES ASSUME LinkBase, [Next]_vars PROVE LinkBase'
  OBVIOUS
<1>1. /\ taken \in Seq(Heard) /\ wire \in Seq(WirePacket) /\ sent \in Seq(Messages)
      /\ stray \in 0..MaxStray
  BY DEF LinkBase
<1>2. ASSUME NEW msg \in Messages, Send(msg) PROVE LinkBase'
  <2>1. wire' \in Seq(WirePacket) /\ sent' \in Seq(Messages)
    BY <1>2, SendEffect
  <2> QED
    BY <1>2, <2>1 DEF Send, LinkBase, Queue
<1>3. CASE Feed
  <2>1. wire' \in Seq(WirePacket) /\ FedLink(Head(wire))
    BY <1>3, FeedSplits
  <2> QED
    BY <1>1, <1>3, <2>1 DEF Feed, FedLink, LinkBase, Queue
<1>4. CASE Take
  BY <1>1, <1>4, TakeEffect DEF Take, LinkBase, Queue
<1>5. ASSUME NEW buf \in StrayPackets, FeedStray(buf) PROVE LinkBase'
  <2>1. /\ FedLink(buf) /\ wire' = wire /\ sent' = sent /\ taken' = taken
        /\ stray' \in 0..MaxStray
    BY <1>5, StrayEffect
  <2> QED
    BY <1>1, <2>1 DEF FedLink, LinkBase, Queue
<1>6. CASE UNCHANGED vars
  BY <1>6 DEF vars, LinkBase, Queue
<1> QED
  BY <1>2, <1>3, <1>4, <1>5, <1>6 DEF Next

THEOREM LinkBaseInvariant == Spec => []LinkBase
<1>1. Init => LinkBase
  BY LinkBaseInit
<1> QED
  BY <1>1, LinkBaseStep, PTL DEF Spec

(* Nothing disappears uncounted: a packet fed became a message taken, a    *)
(* message waiting, or one count of a drop.                                *)
THEOREM LinkAllCounted == Spec => []AllCounted
<1>1. LinkBase => AllCounted
  <2> SUFFICES ASSUME LinkBase PROVE AllCounted
    OBVIOUS
  <2>1. /\ rx \in StreamType
        /\ rx.stats.packets = rx.stats.messages + rx.count + Outcomes(rx.stats)
    BY DEF LinkBase
  <2>2. rx.stats \in StatsType /\ rx.count \in Nat
    BY <2>1, QueueAssumption, StreamFields
  <2>3. PICK m \in Nat, c \in Nat, a \in Nat, b \in Nat, r \in Nat, f \in Nat :
          /\ m = rx.stats.messages /\ c = rx.count /\ a = rx.stats.misc /\ b = rx.stats.cable
          /\ r = rx.stats.misroute /\ f = rx.stats.full
    BY <2>2, StatsFields
  <2>4. rx.stats.packets = m + c + (a + b + r + f)
    BY <2>1, <2>3 DEF Outcomes
  <2>5. m + c + (a + b + r + f) = m + c + a + b + r + f
    OBVIOUS
  <2> QED
    BY <2>3, <2>4, <2>5 DEF AllCounted
<1> QED
  BY <1>1, LinkBaseInvariant, PTL

(* Types, of the messages in the queue and of those taken too.             *)
THEOREM LinkTypeCorrect == Spec => []TypeOK
<1>1. LinkBase => TypeOK
  <2> SUFFICES ASSUME LinkBase PROVE TypeOK
    OBVIOUS
  <2>1. /\ rx \in StreamType /\ rx.cable = Cable
        /\ wire \in Seq(WirePacket) /\ taken \in Seq(Heard)
        /\ sent \in Seq(Messages) /\ stray \in 0..MaxStray
    BY DEF LinkBase
  <2>2. /\ rx.inSysex \in BOOLEAN /\ rx.head \in 0..(QueueSize - 1) /\ rx.count \in 0..QueueSize
        /\ rx.pending \in [Places -> MessageType] /\ rx.stats \in StatsType
    BY <2>1, StreamFields DEF Places
  <2>3. DOMAIN rx.pending = 0..(QueueSize - 1)
    BY <2>2 DEF Places
  <2>4. ASSUME NEW k \in 0..(QueueSize - 1)
        PROVE  rx.pending[k].tag \in Tags /\ Len(rx.pending[k].data) \in 0..3
    <3>1. PICK message \in MessageType : message = rx.pending[k]
      BY <2>2 DEF Places
    <3>2. message.tag \in Tags /\ message.data \in Seq(Byte) /\ Len(message.data) <= 3
      BY DEF MessageType, MidiBytes
    <3>3. Len(message.data) \in Nat
      BY <3>2, LenProperties
    <3>4. Len(message.data) \in 0..3
      <4>1. PICK n \in Nat : n = Len(message.data)
        BY <3>3
      <4>2. n <= 3
        BY <3>2, <4>1
      <4>3. n \in 0..3
        BY <4>2
      <4> QED
        BY <4>1, <4>3
    <3> QED
      BY <3>1, <3>2, <3>4
  <2>5. \A stat \in DOMAIN NoStats : rx.stats[stat] \in Nat
    BY <2>2 DEF NoStats, StatsType
  <2>6. \A k \in 1..Len(wire) : wire[k] \in Seq(Byte) /\ Len(wire[k]) = 4
    <3>1. \A k \in 1..Len(wire) : wire[k] \in WirePacket
      BY <2>1, ElementOfSeq
    <3> QED
      BY <3>1 DEF WirePacket
  <2>7. \A k \in 1..Len(taken) : taken[k].tag \in Tags /\ Len(taken[k].data) \in 1..3
    <3>1. \A k \in 1..Len(taken) : taken[k] \in Heard
      BY <2>1, ElementOfSeq
    <3> QED
      BY <3>1 DEF Heard, MessageType
  <2> QED
    BY <2>1, <2>2, <2>3, <2>4, <2>5, <2>6, <2>7 DEF TypeOK
<1> QED
  BY <1>1, LinkBaseInvariant, PTL

-----------------------------------------------------------------------------
(* A sequence is a prefix of every longer one it begins.                   *)
LEMMA PrefixOfConcat ==
  ASSUME NEW T, NEW s \in Seq(T), NEW u \in Seq(T)
  PROVE  IsPrefix(s, s \o u)
<1>1. Len(s) \in Nat /\ Len(u) \in Nat /\ Len(s \o u) = Len(s) + Len(u)
  BY LenProperties, ConcatProperties
<1>2. SubSeq(s \o u, 1, Len(s)) = SubSeq(s, 1, Len(s))
  <2>1. CASE Len(s) = 0
    <3>1. SubSeq(s \o u, 1, 0) = <<>> /\ SubSeq(s, 1, 0) = <<>>
      BY SubSeqEmpty
    <3> QED
      BY <2>1, <3>1
  <2>2. CASE Len(s) # 0
    <3>1. 1 \in 1..Len(s) /\ Len(s) \in 1..Len(s)
      BY <1>1, <2>2
    <3> QED
      BY <3>1, SubSeqOfConcat1
  <2> QED
    BY <2>1, <2>2
<1> QED
  BY <1>1, <1>2 DEF IsPrefix

LEMMA PrefixOfItself ==
  ASSUME NEW T, NEW s \in Seq(T)
  PROVE  IsPrefix(s, s)
<1>1. <<>> \in Seq(T) /\ s \o <<>> = s
  BY EmptySeq, ConcatEmptySeq
<1>2. IsPrefix(s, s \o <<>>)
  BY <1>1, PrefixOfConcat
<1> QED
  BY <1>1, <1>2

LEMMA PrefixOfAppend ==
  ASSUME NEW T, NEW s \in Seq(T), NEW e \in T
  PROVE  IsPrefix(s, Append(s, e))
<1>1. <<e>> \in Seq(T) /\ Append(s, e) = s \o <<e>>
  BY AppendIsConcat
<1>2. IsPrefix(s, s \o <<e>>)
  BY <1>1, PrefixOfConcat
<1> QED
  BY <1>1, <1>2

(* Drop-new: no step gives up or reorders a message that was accepted.     *)
THEOREM LinkAcceptedStay == Spec => AcceptedStay
<1>1. LinkBase /\ [Next]_vars => [IsPrefix(Received, Received')]_vars
  <2> SUFFICES ASSUME LinkBase, Next PROVE IsPrefix(Received, Received')
    OBVIOUS
  <2>1. Received \in Seq(Heard) /\ rx \in StreamType
    BY ReceivedIs DEF LinkBase
  <2>2. Received' = Received => IsPrefix(Received, Received')
    BY <2>1, PrefixOfItself
  <2>3. ASSUME NEW buf \in WirePacket, FedLink(buf) PROVE IsPrefix(Received, Received')
    <3>1. CASE ~NotOurs(rx, Decode(buf)) /\ rx.count < QueueSize
      <4>1. Received' = Append(Received, Arrived(rx, buf))
        BY <2>3, <3>1 DEF FedLink
      <4>2. Arrived(rx, buf) \in Heard
        BY <2>1, <3>1, ArrivedHeard
      <4> QED
        BY <2>1, <4>1, <4>2, PrefixOfAppend
    <3>2. CASE NotOurs(rx, Decode(buf)) \/ ~(rx.count < QueueSize)
      BY <2>2, <2>3, <3>2 DEF FedLink
    <3> QED
      BY <3>1, <3>2
  <2>4. ASSUME NEW msg \in Messages, Send(msg) PROVE IsPrefix(Received, Received')
    BY <2>2, <2>4, SendEffect
  <2>5. CASE Feed
    BY <2>3, <2>5, FeedSplits
  <2>6. CASE Take
    BY <2>2, <2>6, TakeEffect
  <2>7. ASSUME NEW buf \in StrayPackets, FeedStray(buf) PROVE IsPrefix(Received, Received')
    BY <2>3, <2>7, StrayEffect
  <2> QED
    BY <2>4, <2>5, <2>6, <2>7 DEF Next
<1> QED
  BY <1>1, LinkBaseInvariant, PTL DEF Spec, AcceptedStay

-----------------------------------------------------------------------------
(* The bytes of messages, clock ticks taken out.                           *)
Payload(message) == IF NotTick(message) THEN message.data ELSE <<>>
Payloads(q) == [k \in 1..Len(q) |-> Payload(q[k])]
Bytes(q) == FlattenSeq(Payloads(q))

LEMMA PayloadsTyped ==
  ASSUME NEW q \in Seq(Heard)
  PROVE  /\ Payloads(q) \in Seq(Seq(Byte)) /\ Len(Payloads(q)) = Len(q)
         /\ \A k \in 1..Len(q) : Payloads(q)[k] = Payload(q[k])
<1>1. Len(q) \in Nat /\ \A k \in 1..Len(q) : q[k] \in Heard
  BY LenProperties, ElementOfSeq
<1>2. \A message \in Heard : Payload(message) \in Seq(Byte)
  BY EmptySeq DEF Payload, Heard, MessageType, MidiBytes
<1>3. Payloads(q) \in [1..Len(q) -> Seq(Byte)]
  BY <1>1, <1>2 DEF Payloads
<1>4. Payloads(q) \in Seq(Seq(Byte))
  BY <1>1, <1>3, SeqDef
<1> QED
  BY <1>1, <1>3, <1>4, LenProperties DEF Payloads

LEMMA BytesGrow ==
  ASSUME NEW q \in Seq(Heard), NEW message \in Heard
  PROVE  /\ Bytes(q) \in Seq(Byte) /\ Payload(message) \in Seq(Byte)
         /\ Bytes(Append(q, message)) = Bytes(q) \o Payload(message)
<1>1. Payload(message) \in Seq(Byte)
  BY EmptySeq DEF Payload, Heard, MessageType, MidiBytes
<1>2. PICK more \in Seq(Heard) : /\ more = Append(q, message) /\ Len(more) = Len(q) + 1
                                 /\ \A k \in 1..Len(q) : more[k] = q[k]
                                 /\ more[Len(q) + 1] = message
  BY AppendProperties
<1>3. PICK u \in Seq(Seq(Byte)) : /\ u = Payloads(q) /\ Len(u) = Len(q)
                                  /\ \A k \in 1..Len(q) : u[k] = Payload(q[k])
  BY PayloadsTyped
<1>4. PICK v \in Seq(Seq(Byte)) : /\ v = Payloads(more) /\ Len(v) = Len(q) + 1
                                  /\ \A k \in 1..(Len(q) + 1) : v[k] = Payload(more[k])
  BY <1>2, PayloadsTyped
<1>5. PICK n \in Nat : n = Len(q)
  BY LenProperties
<1>6. PICK w \in Seq(Seq(Byte)) : /\ w = Append(u, Payload(message)) /\ Len(w) = n + 1
                                  /\ \A k \in 1..n : w[k] = u[k]
                                  /\ w[n + 1] = Payload(message)
  <2>1. PICK w \in Seq(Seq(Byte)) : /\ w = Append(u, Payload(message)) /\ Len(w) = Len(u) + 1
                                    /\ \A k \in 1..Len(u) : w[k] = u[k]
                                    /\ w[Len(u) + 1] = Payload(message)
    BY <1>1, <1>3, AppendProperties, ZenonT(60)
  <2>2. Len(u) = n
    BY <1>3, <1>5
  <2> QED
    BY <2>1, <2>2
<1>7. ASSUME NEW k \in 1..(n + 1) PROVE v[k] = w[k]
  <2>1. CASE k = n + 1
    BY <1>2, <1>4, <1>5, <1>6, <2>1
  <2>2. CASE k # n + 1
    <3>1. k \in 1..n
      BY <2>2
    <3> QED
      BY <1>2, <1>3, <1>4, <1>5, <1>6, <3>1
  <2> QED
    BY <2>1, <2>2
<1>8. v = w
  <2>1. Len(v) = Len(w) /\ \A k \in 1..Len(v) : v[k] = w[k]
    BY <1>4, <1>5, <1>6, <1>7
  <2> QED
    BY <2>1, SeqEqual
<1>9. FlattenSeq(u) \in Seq(Byte) /\ FlattenSeq(w) = FlattenSeq(u) \o Payload(message)
  BY <1>1, <1>6, FlattenAppend
<1> QED
  BY <1>1, <1>2, <1>3, <1>4, <1>8, <1>9 DEF Bytes

LEMMA BytesReceivedIs == BytesReceived = Bytes(Received)
BY DEF BytesReceived, Bytes, Payloads, Payload

(* As long as nothing was dropped, the bytes received and those on the     *)
(* wire are those sent; and what is on the wire will be received.          *)
OurPackets == {buf \in WirePacket : Decode(buf).cable = Cable /\ Decode(buf).cin \in 2..15}
Deliverable == {buf \in OurPackets : Carried(buf) # Tick}

LinkKept ==
  /\ wire \in Seq(Deliverable)
  /\ rx.stats.full = 0 =>
       Bytes(Received) \o FlattenSeq(CarriedAll(wire)) = FlattenSeq(sent)

LEMMA CutDeliverable ==
  ASSUME NEW msg \in Seq(Byte), NEW packets, Cut(packets, Cable, msg)
  PROVE  packets \in Seq(OurPackets) /\ (msg # Tick => packets \in Seq(Deliverable))
<1>0. Len(Tick) = 1 /\ Last(Tick) # EOX
  BY DEF Tick, EOX, Last
<1>3. CinSysExStart \in 2..15 /\ EndCins \subseteq 2..15 /\ CinSysExEnd1 \in EndCins
  BY DEF EndCins, CinSysExStart, CinSysExEnd1, CinSysExEnd2, CinSysExEnd3
<1>4. DataLength(CinSysExStart) = 3
  BY DEF CinSysExStart, DataLength, CinLengths
<1>1. ASSUME Last(msg) = EOX /\ Len(msg) >= 2 /\ IsRunOf(packets, Cable, msg),
             NEW k \in 1..Len(packets)
      PROVE  packets[k] \in Deliverable
  <2> DEFINE n == Len(packets)
             rest == Len(msg) - 3 * (n - 1)
  <2>1. /\ packets \in Seq(WirePacket) /\ n \in Nat \ {0} /\ rest \in 1..3
        /\ Decode(packets[k]).cable = Cable
        /\ k \in 1..(n - 1) => Decode(packets[k]).cin = CinSysExStart
        /\ Decode(packets[n]).cin = EndCin(rest)
        /\ Carried(packets[n]) = SubSeq(msg, 3 * (n - 1) + 1, Len(msg))
    BY <1>1 DEF IsRunOf
  <2>2. PICK buf \in WirePacket : buf = packets[k]
    BY <2>1, ElementOfSeq
  <2>3. CASE k # n
    <3>1. k \in 1..(n - 1)
      BY <2>1, <2>3
    <3>2. Decode(buf).cin = CinSysExStart
      BY <2>1, <2>2, <3>1
    <3>3. Len(Carried(buf)) = 3
      BY <1>4, <3>2, CarriedTyped
    <3>4. Carried(buf) # Tick
      <4>1. Len(Carried(buf)) # 1 /\ Len(Tick) = 1
        BY <1>0, <3>3
      <4> QED
        BY <4>1, Zenon
    <3>5. Decode(buf).cable = Cable /\ Decode(buf).cin \in 2..15
      BY <1>3, <2>1, <2>2, <3>2
    <3> QED
      BY <2>2, <3>4, <3>5 DEF Deliverable, OurPackets
  <2>4. CASE k = n
    <3>1. EndCin(rest) \in EndCins
      BY <2>1, EndLength DEF EndCins
    <3> HIDE DEF rest
    <3>2. Decode(buf).cin \in 2..15
      BY <1>3, <2>1, <2>2, <2>4, <3>1
    <3>3. Last(Carried(buf)) = EOX
      <4>1. PICK m \in Nat : m = 3 * (n - 1) /\ Len(msg) - m \in 1..3 /\ Len(msg) \in Nat
        BY <2>1, LenProperties DEF rest
      <4>2. /\ m + 1 \in Int /\ Len(msg) \in Int /\ m + 1 <= Len(msg)
            /\ Len(msg) - (m + 1) + 1 \in 1..(Len(msg) - (m + 1) + 1)
            /\ (m + 1) + (Len(msg) - (m + 1) + 1) - 1 = Len(msg)
            /\ \A i \in (m + 1)..Len(msg) : i \in 1..Len(msg)
        BY <4>1
      <4>3. \A i \in (m + 1)..Len(msg) : msg[i] \in Byte
        BY <4>2, ElementOfSeq
      <4>4. /\ Len(SubSeq(msg, m + 1, Len(msg))) = Len(msg) - (m + 1) + 1
            /\ \A i \in 1..(Len(msg) - (m + 1) + 1) :
                 SubSeq(msg, m + 1, Len(msg))[i] = msg[(m + 1) + i - 1]
        BY <4>2, <4>3, SubSeqProperties
      <4>5. Last(SubSeq(msg, m + 1, Len(msg))) = msg[Len(msg)]
        BY <4>2, <4>4 DEF Last
      <4> QED
        BY <1>1, <2>1, <2>2, <2>4, <4>1, <4>5 DEF Last
    <3>4. Carried(buf) # Tick
      BY <1>0, <3>3
    <3> QED
      BY <2>1, <2>2, <3>2, <3>4 DEF Deliverable, OurPackets
  <2> QED
    BY <2>3, <2>4
<1>2. ASSUME IsOneOf(packets, Cable, msg), Decode(packets[1]).cin \in 2..15,
             NEW k \in 1..Len(packets)
      PROVE  packets[k] \in OurPackets /\ (msg # Tick => packets[k] \in Deliverable)
  <2>1. /\ packets \in Seq(WirePacket) /\ Len(packets) = 1
        /\ Decode(packets[1]).cable = Cable /\ Carried(packets[1]) = msg
    BY <1>2 DEF IsOneOf
  <2>2. packets[1] \in WirePacket
    <3>1. 1 \in 1..Len(packets)
      BY <2>1
    <3> QED
      BY <2>1, <3>1, ElementOfSeq
  <2>3. k = 1
    BY <2>1
  <2> QED
    BY <1>2, <2>1, <2>2, <2>3 DEF Deliverable, OurPackets
<1>5. \A k \in 1..Len(packets) :
        packets[k] \in OurPackets /\ (msg # Tick => packets[k] \in Deliverable)
  <2>1. CASE Last(msg) = EOX /\ Len(msg) >= 2 /\ IsRunOf(packets, Cable, msg)
    BY <1>1, <2>1 DEF Deliverable
  <2>2. CASE IsOneOf(packets, Cable, msg) /\ Decode(packets[1]).cin \in 2..15
    BY <1>2, <2>2
  <2>3. CASE IsOneOf(packets, Cable, msg) /\ Decode(packets[1]).cin = CinSysExEnd1
    BY <1>2, <1>3, <2>3
  <2> QED
    BY <2>1, <2>2, <2>3 DEF Cut
<1>6. packets \in Seq(WirePacket)
  BY CutKeepsBytes
<1>7. Len(packets) \in Nat /\ packets \in [1..Len(packets) -> WirePacket]
  BY <1>6, LenProperties
<1>8. packets \in Seq(OurPackets)
  <2>1. packets \in [1..Len(packets) -> OurPackets]
    BY <1>5, <1>7
  <2> QED
    BY <1>7, <2>1, SeqDef
<1>9. ASSUME msg # Tick PROVE packets \in Seq(Deliverable)
  <2>1. packets \in [1..Len(packets) -> Deliverable]
    BY <1>5, <1>7, <1>9
  <2> QED
    BY <1>7, <2>1, SeqDef
<1> QED
  BY <1>8, <1>9

LEMMA KeptInit == Init => LinkKept
<1> SUFFICES ASSUME Init PROVE LinkKept
  OBVIOUS
<1>1. Received = <<>> /\ wire = <<>> /\ sent = <<>>
  BY LinkBaseInit
<1>2. <<>> \in Seq(Heard) /\ <<>> \in Seq(WirePacket) /\ Len(<<>>) = 0
  BY EmptySeq
<1>3. Payloads(<<>>) = <<>>
  <2>1. PICK u \in Seq(Seq(Byte)) : u = Payloads(<<>>) /\ Len(u) = 0
    BY <1>2, PayloadsTyped
  <2>2. u = <<>>
    BY <2>1, EmptySeq
  <2> QED
    BY <2>1, <2>2
<1>4. CarriedAll(<<>>) = <<>>
  <2>1. PICK u \in Seq(Seq(Byte)) : u = CarriedAll(<<>>) /\ Len(u) = 0
    BY <1>2, CarriedAllTyped
  <2>2. u = <<>>
    BY <2>1, EmptySeq
  <2> QED
    BY <2>1, <2>2
<1>5. <<>> \o <<>> = <<>>
  BY EmptySeq, ConcatEmptySeq
<1>6. wire \in Seq(Deliverable)
  BY <1>1, EmptySeq
<1> QED
  BY <1>1, <1>3, <1>4, <1>5, <1>6, FlattenEmpty DEF LinkKept, Bytes

LEMMA KeptSend ==
  ASSUME LinkBase, LinkKept, Tick \notin Messages, NEW msg \in Messages, Send(msg)
  PROVE  LinkKept'
<1>1. PICK packets \in Seq(WirePacket) :
        /\ Cut(packets, Cable, msg) /\ msg \in Seq(Byte)
        /\ wire' = wire \o packets /\ sent' = Append(sent, msg) /\ Received' = Received
  BY SendEffect
<1>2. wire \in Seq(WirePacket) /\ sent \in Seq(Messages) /\ Received \in Seq(Heard)
  BY ReceivedIs DEF LinkBase
<1>3. packets \in Seq(Deliverable) /\ wire \in Seq(Deliverable)
  <2>1. msg # Tick
    OBVIOUS
  <2> QED
    BY <1>1, <2>1, CutDeliverable DEF LinkKept
<1>4. wire' \in Seq(Deliverable)
  BY <1>1, <1>3, ConcatProperties
<1>5. ASSUME rx.stats.full = 0
      PROVE  Bytes(Received) \o FlattenSeq(CarriedAll(wire')) = FlattenSeq(sent')
  <2>1. PICK b \in Seq(Byte) : b = Bytes(Received)
    <3>1. Bytes(Received) \in Seq(Byte)
      BY <1>2, PayloadsTyped, FlattenTyped DEF Bytes
    <3> QED
      BY <3>1
  <2>2. PICK c \in Seq(Seq(Byte)) : c = CarriedAll(wire)
    BY <1>2, CarriedAllTyped
  <2>3. PICK d \in Seq(Seq(Byte)) : d = CarriedAll(packets)
    BY CarriedAllTyped
  <2>4. CarriedAll(wire') = c \o d
    BY <1>1, <1>2, <2>2, <2>3, CarriedAllConcat
  <2>5. FlattenSeq(c \o d) = FlattenSeq(c) \o FlattenSeq(d)
    BY FlattenConcat
  <2>6. FlattenSeq(d) = msg
    BY <1>1, <2>3, CutKeepsBytes
  <2>7. FlattenSeq(c) \in Seq(Byte)
    BY FlattenTyped
  <2>8. b \o FlattenSeq(c) = FlattenSeq(sent)
    BY <1>5, <2>1, <2>2 DEF LinkKept
  <2>9. (b \o FlattenSeq(c)) \o msg = b \o (FlattenSeq(c) \o msg)
    BY <1>1, <2>7, ConcatAssociative, SMTT(30)
  <2>10. FlattenSeq(sent') = FlattenSeq(sent) \o msg
    <3>1. sent \in Seq(Seq(Byte))
      BY <1>2, LinkAssumption, SeqMonotonic
    <3> QED
      BY <1>1, <3>1, FlattenAppend
  <2> QED
    BY <2>1, <2>4, <2>5, <2>6, <2>8, <2>9, <2>10
<1>6. rx' = rx
  BY DEF Send
<1> QED
  BY <1>1, <1>4, <1>5, <1>6 DEF LinkKept

LEMMA KeptFeed ==
  ASSUME LinkBase, LinkKept, Feed
  PROVE  LinkKept'
<1>1. PICK buf \in WirePacket :
        /\ buf = Head(wire) /\ Len(wire) \in Nat \ {0} /\ wire[1] = buf
        /\ wire' \in Seq(WirePacket) /\ wire = <<buf>> \o wire'
        /\ Len(wire') = Len(wire) - 1
        /\ \A k \in 1..Len(wire') : wire'[k] = wire[k + 1]
        /\ FedLink(buf)
  BY FeedSplits
<1>2. Received \in Seq(Heard) /\ rx \in StreamType /\ rx.cable = Cable /\ sent' = sent
  BY ReceivedIs DEF LinkBase, Feed
<1>3. buf \in Deliverable /\ wire' \in Seq(Deliverable)
  <2>1. wire \in Seq(Deliverable) /\ wire # <<>> /\ wire' = Tail(wire)
    BY DEF LinkKept, Feed
  <2> QED
    BY <1>1, <2>1, HeadTailProperties
<1>4. ~NotOurs(rx, Decode(buf))
  BY <1>2, <1>3 DEF Deliverable, OurPackets, NotOurs, CinMisc, CinCableEvent
<1>6. rx.stats.full \in Nat
  BY <1>2, StreamFields, StatsFields
<1>7. ASSUME rx'.stats.full = 0
      PROVE  Bytes(Received') \o FlattenSeq(CarriedAll(wire')) = FlattenSeq(sent)
  <2>1. rx.count < QueueSize /\ Received' = Append(Received, Arrived(rx, buf)) /\ rx.stats.full = 0
    BY <1>1, <1>4, <1>6, <1>7 DEF FedLink
  <2>2. PICK message \in Heard : message = Arrived(rx, buf)
    BY <1>2, <1>4, ArrivedHeard
  <2>3. Payload(message) = Carried(buf)
    BY <1>3, <2>2 DEF Payload, NotTick, Deliverable, Arrived
  <2>4. PICK b \in Seq(Byte) : b = Bytes(Received)
    BY <1>2, <2>2, BytesGrow
  <2>5. PICK p \in Seq(Byte) : p = Carried(buf) /\ Bytes(Received') = b \o p
    BY <1>2, <2>1, <2>2, <2>3, <2>4, BytesGrow
  <2>6. PICK c \in Seq(Seq(Byte)) : c = CarriedAll(wire')
    BY <1>1, CarriedAllTyped
  <2>7. CarriedAll(wire) = <<p>> \o c
    <3>1. <<buf>> \in Seq(WirePacket) /\ Len(<<buf>>) = 1 /\ <<buf>>[1] = buf
      OBVIOUS
    <3>2. CarriedAll(<<buf>> \o wire') = CarriedAll(<<buf>>) \o c
      BY <1>1, <2>6, <3>1, CarriedAllConcat
    <3>3. CarriedAll(<<buf>>) = <<p>>
      <4>0. PICK one \in Seq(WirePacket) : one = <<buf>> /\ Len(one) = 1 /\ one[1] = buf
        BY <3>1
      <4>1. PICK u \in Seq(Seq(Byte)) : u = CarriedAll(<<buf>>) /\ Len(u) = 1 /\ u[1] = p
        <5>1. /\ CarriedAll(one) \in Seq(Seq(Byte)) /\ Len(CarriedAll(one)) = Len(one)
              /\ \A k \in 1..Len(one) : CarriedAll(one)[k] = Carried(one[k])
          BY CarriedAllTyped
        <5>2. CarriedAll(one)[1] = p
          <6>1. 1 \in 1..Len(one)
            BY <4>0
          <6>2. CarriedAll(one)[1] = Carried(one[1])
            BY <5>1, <6>1
          <6>3. Carried(one[1]) = p
            BY <2>5, <4>0
          <6> QED
            BY <6>2, <6>3
        <5> QED
          BY <4>0, <5>1, <5>2
      <4>2. <<p>> \in Seq(Seq(Byte)) /\ Len(<<p>>) = 1 /\ <<p>>[1] = p
        OBVIOUS
      <4>3. \A i \in 1..Len(u) : u[i] = <<p>>[i]
        BY <4>1, <4>2
      <4>4. u = <<p>>
        BY <4>1, <4>2, <4>3, SeqEqual
      <4> QED
        BY <4>1, <4>4
    <3> QED
      BY <1>1, <3>2, <3>3
  <2>8. FlattenSeq(<<p>> \o c) = p \o FlattenSeq(c)
    <3>1. <<p>> \in Seq(Seq(Byte))
      OBVIOUS
    <3>2. FlattenSeq(<<p>> \o c) = FlattenSeq(<<p>>) \o FlattenSeq(c)
      BY <3>1, FlattenConcat
    <3> QED
      BY <3>2, FlattenOne
  <2>9. FlattenSeq(c) \in Seq(Byte)
    BY FlattenTyped
  <2>10. b \o (p \o FlattenSeq(c)) = FlattenSeq(sent)
    BY <2>1, <2>4, <2>7, <2>8 DEF LinkKept
  <2>11. (b \o p) \o FlattenSeq(c) = b \o (p \o FlattenSeq(c))
    BY <2>9, ConcatAssociative, SMTT(30)
  <2> QED
    BY <2>5, <2>6, <2>10, <2>11
<1> QED
  BY <1>2, <1>3, <1>7 DEF LinkKept

LEMMA KeptStep == Tick \notin Messages /\ LinkBase /\ LinkKept /\ [Next]_vars => LinkKept'
<1> SUFFICES ASSUME Tick \notin Messages, LinkBase, LinkKept, [Next]_vars PROVE LinkKept'
  OBVIOUS
<1>0. Received \in Seq(Heard) /\ rx \in StreamType
  BY ReceivedIs DEF LinkBase
<1>1. ASSUME Received' = Received, rx'.stats.full = rx.stats.full, wire' = wire, sent' = sent
      PROVE  LinkKept'
  BY <1>1 DEF LinkKept
<1>2. ASSUME NEW msg \in Messages, Send(msg) PROVE LinkKept'
  BY <1>2, KeptSend
<1>3. CASE Feed
  BY <1>3, KeptFeed
<1>4. CASE Take
  <2>1. Received' = Received /\ rx'.stats.full = rx.stats.full
    BY <1>4, TakeEffect
  <2> QED
    BY <1>1, <1>4, <2>1 DEF Take
<1>5. ASSUME NEW buf \in StrayPackets, FeedStray(buf) PROVE LinkKept'
  <2>1. /\ FedLink(buf) /\ wire' = wire /\ sent' = sent /\ buf \in WirePacket
        /\ NotOurs(rx, Decode(buf)) \/ IsTick(buf)
    BY <1>5, StrayEffect
  <2>2. CASE NotOurs(rx, Decode(buf))
    BY <1>1, <2>1, <2>2 DEF FedLink
  <2>3. CASE ~NotOurs(rx, Decode(buf)) /\ rx.count < QueueSize
    <3>1. Received' = Append(Received, Arrived(rx, buf)) /\ rx'.stats.full = rx.stats.full
      BY <2>1, <2>3 DEF FedLink
    <3>2. PICK message \in Heard : message = Arrived(rx, buf)
      BY <1>0, <2>1, <2>3, ArrivedHeard
    <3>3. Payload(message) = <<>>
      BY <2>1, <2>3, <3>2 DEF Payload, NotTick, IsTick, Arrived
    <3>4. Bytes(Received') = Bytes(Received)
      <4>1. Bytes(Received') = Bytes(Received) \o Payload(message) /\ Bytes(Received) \in Seq(Byte)
        BY <1>0, <3>1, <3>2, BytesGrow
      <4> QED
        BY <3>3, <4>1, ConcatEmptySeq
    <3> QED
      BY <2>1, <3>1, <3>4 DEF LinkKept
  <2>4. CASE ~NotOurs(rx, Decode(buf)) /\ ~(rx.count < QueueSize)
    <3>1. rx'.stats.full = rx.stats.full + 1 /\ rx.stats.full \in Nat
      BY <1>0, <2>1, <2>4, StreamFields, StatsFields DEF FedLink
    <3>2. rx'.stats.full # 0
      BY <3>1
    <3> QED
      BY <2>1, <3>2 DEF LinkKept
  <2> QED
    BY <2>2, <2>3, <2>4
<1>6. CASE UNCHANGED vars
  <2>1. Received' = Received
    BY <1>6 DEF vars, Received
  <2> QED
    BY <1>1, <1>6, <2>1 DEF vars
<1> QED
  BY <1>2, <1>3, <1>4, <1>5, <1>6 DEF Next

(* "Keeping every byte": with room in the queue, what was received is what *)
(* was sent, in order, and all of it once the wire is empty.  The property *)
(* takes clock ticks out by their byte, so no tick is sent as a message.   *)
THEOREM LinkKeepsEveryByte ==
  ASSUME Tick \notin Messages
  PROVE  Spec => []KeepsEveryByte
<1>1. Init => LinkKept
  BY KeptInit
<1>2. LinkBase /\ LinkKept /\ [Next]_vars => LinkKept'
  BY KeptStep
<1>3. LinkBase /\ LinkKept => KeepsEveryByte
  <2> SUFFICES ASSUME LinkBase, LinkKept, rx.stats.full = 0
               PROVE  /\ IsPrefix(BytesReceived, FlattenSeq(sent))
                      /\ wire = <<>> => BytesReceived = FlattenSeq(sent)
    BY DEF KeepsEveryByte
  <2>1. wire \in Seq(WirePacket) /\ Received \in Seq(Heard)
    BY ReceivedIs DEF LinkBase
  <2>2. PICK b \in Seq(Byte) : b = BytesReceived
    <3>1. Bytes(Received) \in Seq(Byte)
      BY <2>1, PayloadsTyped, FlattenTyped DEF Bytes
    <3> QED
      BY <3>1, BytesReceivedIs
  <2>3. PICK c \in Seq(Byte) : c = FlattenSeq(CarriedAll(wire))
    BY <2>1, CarriedAllTyped, FlattenTyped
  <2>4. b \o c = FlattenSeq(sent)
    BY <2>2, <2>3, BytesReceivedIs DEF LinkKept
  <2>5. IsPrefix(b, b \o c)
    BY PrefixOfConcat
  <2>6. ASSUME wire = <<>> PROVE b = FlattenSeq(sent)
    <3>1. <<>> \in Seq(WirePacket) /\ Len(<<>>) = 0
      BY EmptySeq
    <3>2. PICK u \in Seq(Seq(Byte)) : u = CarriedAll(wire) /\ Len(u) = 0
      BY <2>6, <3>1, CarriedAllTyped
    <3>3. u = <<>>
      BY <3>2, EmptySeq
    <3>4. c = <<>>
      BY <2>3, <3>2, <3>3, FlattenEmpty
    <3> QED
      BY <2>4, <3>4, ConcatEmptySeq
  <2> QED
    BY <2>2, <2>4, <2>5, <2>6
<1> QED
  BY <1>1, <1>2, <1>3, LinkBaseInvariant, PTL DEF Spec

-----------------------------------------------------------------------------
(* The bytes of a message after its status are data bytes, but for the end *)
(* of a SysEx message: MIDI 1.0.                                           *)
DataBytesOnly(msg) ==
  \A k \in 2..Len(msg) : msg[k] < \h80 \/ (msg[1] = SOX /\ k = Len(msg) /\ msg[k] = EOX)

(* A packet as it may follow, inside a run or outside.                     *)
Opens(buf) == Decode(buf).cin = CinSysExStart

Framed(buf, inside) ==
  LET data == Carried(buf) IN
  \/ Opens(buf) /\ Last(data) # EOX /\ IF inside THEN data[1] < \h80 ELSE data[1] = SOX
  \/ Decode(buf).cin \in EndCins /\ Last(data) = EOX /\ (inside => data[1] # SOX)
  \/ /\ ~Opens(buf) /\ Decode(buf).cin \notin EndCins /\ ~inside
     /\ data[1] >= \h80 /\ data[1] # SOX /\ Last(data) # EOX

LEMMA FirstByte ==
  ASSUME NEW buf \in WirePacket, Len(Carried(buf)) \in 1..3
  PROVE  Decode(buf).data[1] = Carried(buf)[1]
<1>1. Len(Carried(buf)) = DataLength(Decode(buf).cin)
  BY CarriedTyped
<1>2. 1 \in 1..DataLength(Decode(buf).cin)
  BY <1>1
<1> QED
  BY <1>2, CarriedTyped

(* A framed packet gets the tag its bytes call for.                        *)
LEMMA FramedTag ==
  ASSUME NEW s \in StreamType, NEW buf \in WirePacket, Framed(buf, s.inSysex),
         Len(Carried(buf)) \in 1..3, Carried(buf) \in Seq(Byte)
  PROVE  /\ RxTag(s, Decode(buf)) = TagOf(Carried(buf))
         /\ RxInSysex(s, Decode(buf)) = Opens(buf)
<1>1. PICK d : d = Carried(buf)
  OBVIOUS
<1>2. PICK cin : cin = Decode(buf).cin
  OBVIOUS
<1>3. d[1] \in Nat /\ Decode(buf).data[1] = d[1]
  <2>1. 1 \in 1..Len(Carried(buf))
    OBVIOUS
  <2>2. Carried(buf)[1] \in Byte
    BY <2>1, ElementOfSeq
  <2>3. Carried(buf)[1] \in Nat
    <3>1. Byte \subseteq Nat
      BY DEF Byte
    <3> QED
      BY <2>2, <3>1
  <2>4. Decode(buf).data[1] = Carried(buf)[1]
    BY FirstByte
  <2> QED
    BY <1>1, <2>3, <2>4
<1>4. s.inSysex \in BOOLEAN
  BY StreamFields
<1>5. SOX # EOX /\ ~(SOX < \h80) /\ CinSysExStart \notin EndCins
  BY DEF SOX, EOX, EndCins, CinSysExStart, CinSysExEnd1, CinSysExEnd2, CinSysExEnd3
<1>6. /\ RxTag(s, Decode(buf)) =
            CASE cin = CinSysExStart -> IF s.inSysex THEN "mid" ELSE "start"
              [] cin \in EndCins -> IF ~s.inSysex /\ d[1] = SOX THEN "none" ELSE "end"
              [] OTHER -> "none"
      /\ RxInSysex(s, Decode(buf)) =
            CASE cin = CinSysExStart -> TRUE [] cin \in EndCins -> FALSE [] OTHER -> s.inSysex
  BY <1>2, <1>3 DEF RxTag, RxInSysex, EndCins
<1>7. TagOf(d) = IF d[1] = SOX THEN IF Last(d) = EOX THEN "none" ELSE "start"
                 ELSE IF Last(d) = EOX THEN "end" ELSE IF d[1] < \h80 THEN "mid" ELSE "none"
  BY DEF TagOf
<1>8. CASE cin = CinSysExStart
  <2>1. Last(d) # EOX /\ IF s.inSysex THEN d[1] < \h80 ELSE d[1] = SOX
    BY <1>1, <1>2, <1>5, <1>8 DEF Framed, Opens
  <2>2. RxTag(s, Decode(buf)) = (IF s.inSysex THEN "mid" ELSE "start")
        /\ RxInSysex(s, Decode(buf)) = TRUE
    BY <1>5, <1>6, <1>8
  <2>3. TagOf(d) = IF s.inSysex THEN "mid" ELSE "start"
    BY <1>4, <1>5, <1>7, <2>1
  <2> QED
    BY <1>1, <1>2, <1>8, <2>2, <2>3 DEF Opens
<1>9. CASE cin \in EndCins
  <2>1. Last(d) = EOX /\ (s.inSysex => d[1] # SOX) /\ cin # CinSysExStart
    BY <1>1, <1>2, <1>5, <1>9 DEF Framed, Opens
  <2>2. RxTag(s, Decode(buf)) = (IF ~s.inSysex /\ d[1] = SOX THEN "none" ELSE "end")
        /\ RxInSysex(s, Decode(buf)) = FALSE
    BY <1>6, <1>9, <2>1
  <2>3. TagOf(d) = IF ~s.inSysex /\ d[1] = SOX THEN "none" ELSE "end"
    BY <1>4, <1>5, <1>7, <2>1
  <2> QED
    BY <1>1, <1>2, <2>1, <2>2, <2>3 DEF Opens
<1>10. CASE cin # CinSysExStart /\ cin \notin EndCins
  <2>1. ~s.inSysex /\ d[1] >= \h80 /\ d[1] # SOX /\ Last(d) # EOX
    BY <1>1, <1>2, <1>10 DEF Framed, Opens
  <2>2. RxTag(s, Decode(buf)) = "none" /\ RxInSysex(s, Decode(buf)) = s.inSysex
    BY <1>6, <1>10
  <2>3. TagOf(d) = "none"
    BY <1>3, <1>7, <2>1
  <2>4. s.inSysex = FALSE
    BY <1>4, <2>1
  <2> QED
    BY <1>1, <1>2, <1>10, <2>2, <2>3, <2>4 DEF Opens
<1> QED
  BY <1>8, <1>9, <1>10

(* A tick is no part of a run, wherever it falls.                          *)
LEMMA TickTag ==
  ASSUME NEW s \in StreamType, NEW buf \in WirePacket, IsTick(buf)
  PROVE  /\ RxTag(s, Decode(buf)) = TagOf(Carried(buf))
         /\ RxInSysex(s, Decode(buf)) = s.inSysex
<1>1. Decode(buf).cin = 5 /\ Carried(buf) = Tick
  BY DEF IsTick
<1>2. TagOf(Tick) = "none"
  BY DEF TagOf, Tick, Last, SOX, EOX
<1>3. RxTag(s, Decode(buf)) = "none" /\ RxInSysex(s, Decode(buf)) = s.inSysex
  BY <1>1 DEF RxTag, RxInSysex, CinSysExStart, CinSysExEnd1, CinSysExEnd2, CinSysExEnd3
<1> QED
  BY <1>1, <1>2, <1>3

(* The first and the last byte of a chunk of a run.                        *)
LEMMA ChunkEnds ==
  ASSUME NEW msg \in Seq(Byte), NEW a \in 1..Len(msg), NEW b \in a..Len(msg)
  PROVE  SubSeq(msg, a, b)[1] = msg[a] /\ Last(SubSeq(msg, a, b)) = msg[b]
<1>1. /\ a \in Int /\ b \in Int /\ a <= b /\ b - a + 1 \in 1..(b - a + 1) /\ 1 \in 1..(b - a + 1)
      /\ a + (b - a + 1) - 1 = b /\ a + 1 - 1 = a
      /\ \A i \in a..b : i \in 1..Len(msg)
  BY LenProperties
<1>2. \A i \in a..b : msg[i] \in Byte
  BY <1>1, ElementOfSeq
<1>3. /\ Len(SubSeq(msg, a, b)) = b - a + 1
      /\ \A i \in 1..(b - a + 1) : SubSeq(msg, a, b)[i] = msg[a + i - 1]
  BY <1>1, <1>2, SubSeqProperties
<1> QED
  BY <1>1, <1>3 DEF Last

(* The packets of a message, one after the other, are framed.              *)
FramedFrom(packets, inside) ==
  \A k \in 1..Len(packets) :
    Framed(packets[k], IF k = 1 THEN inside ELSE Opens(packets[k - 1]))

LEMMA CutFramed ==
  ASSUME NEW msg \in Seq(Byte), NEW packets, Cut(packets, Cable, msg), DataBytesOnly(msg)
  PROVE  /\ FramedFrom(packets, FALSE) /\ Len(packets) \in Nat \ {0}
         /\ ~Opens(packets[Len(packets)])
<1>0. SOX # EOX /\ ~(SOX < \h80) /\ ~(EOX < \h80) /\ CinSysExStart \notin EndCins
  BY DEF SOX, EOX, EndCins, CinSysExStart, CinSysExEnd1, CinSysExEnd2, CinSysExEnd3
<1>1. CASE msg[1] = SOX /\ Last(msg) = EOX /\ Len(msg) >= 2 /\ IsRunOf(packets, Cable, msg)
  <2> DEFINE n == Len(packets)
             rest == Len(msg) - 3 * (n - 1)
  <2>1. /\ n \in Nat \ {0} /\ rest \in 1..3
        /\ \A k \in 1..(n - 1) : /\ Decode(packets[k]).cin = CinSysExStart
                                 /\ Carried(packets[k]) = SubSeq(msg, 3 * k - 2, 3 * k)
        /\ Decode(packets[n]).cin = EndCin(rest)
        /\ Carried(packets[n]) = SubSeq(msg, 3 * (n - 1) + 1, Len(msg))
    BY <1>1 DEF IsRunOf
  <2>2. PICK len \in Nat : len = Len(msg) /\ len >= 2 /\ msg[len] = EOX
    BY <1>1, LenProperties DEF Last
  <2>3. EndCin(rest) \in EndCins
    BY <2>1, EndLength DEF EndCins
  <2>4. len - 3 * (n - 1) \in 1..3
    BY <2>1, <2>2
  <2> HIDE DEF n, rest
  <2>5. \A i \in 2..(len - 1) : msg[i] < \h80
    BY <2>2 DEF DataBytesOnly
  <2>6. ASSUME NEW k \in 1..(n - 1)
        PROVE  /\ Opens(packets[k])
               /\ Framed(packets[k], IF k = 1 THEN FALSE ELSE Opens(packets[k - 1]))
    <3>1. /\ 3 * k - 2 \in 1..len /\ 3 * k \in (3 * k - 2)..len
          /\ 3 * k \in 2..(len - 1) /\ (k # 1 => 3 * k - 2 \in 2..(len - 1))
          /\ (k = 1 => 3 * k - 2 = 1)
          /\ (k # 1 => k - 1 \in 1..(n - 1))
      BY <2>1, <2>4
    <3>2. PICK d : d = Carried(packets[k]) /\ d[1] = msg[3 * k - 2] /\ Last(d) = msg[3 * k]
      BY <2>1, <2>2, <3>1, ChunkEnds
    <3>3. Opens(packets[k]) /\ (k # 1 => Opens(packets[k - 1]))
      BY <2>1, <3>1 DEF Opens
    <3>4. Last(d) # EOX /\ (k # 1 => d[1] < \h80)
      BY <1>0, <2>5, <3>1, <3>2
    <3>5. k = 1 => d[1] = SOX
      BY <1>1, <3>1, <3>2
    <3> QED
      BY <3>2, <3>3, <3>4, <3>5 DEF Framed
  <2>7. Framed(packets[n], IF n = 1 THEN FALSE ELSE Opens(packets[n - 1])) /\ ~Opens(packets[n])
    <3>1. /\ 3 * (n - 1) + 1 \in 1..len /\ len \in (3 * (n - 1) + 1)..len
          /\ (n # 1 => 3 * (n - 1) + 1 \in 2..len)
      BY <2>1, <2>4
    <3>2. PICK d : /\ d = Carried(packets[n]) /\ d[1] = msg[3 * (n - 1) + 1]
                   /\ Last(d) = EOX
      BY <2>1, <2>2, <3>1, ChunkEnds
    <3>3. ~Opens(packets[n]) /\ Decode(packets[n]).cin \in EndCins
      BY <1>0, <2>1, <2>3 DEF Opens
    <3>4. n # 1 => d[1] # SOX
      <4>1. \A i \in 2..len : msg[i] < \h80 \/ msg[i] = EOX
        BY <2>2 DEF DataBytesOnly
      <4> QED
        BY <1>0, <3>1, <3>2, <4>1
    <3> QED
      BY <3>2, <3>3, <3>4 DEF Framed
  <2>8. \A k \in 1..n : k \in 1..(n - 1) \/ k = n
    BY <2>1
  <2>9. \A k \in 1..n : Framed(packets[k], IF k = 1 THEN FALSE ELSE Opens(packets[k - 1]))
    BY <2>6, <2>7, <2>8
  <2> QED
    BY <2>1, <2>7, <2>9 DEF FramedFrom, n
<1>2. CASE IsOneOf(packets, Cable, msg) /\ Framed(packets[1], FALSE) /\ ~Opens(packets[1])
  <2>1. Len(packets) = 1
    BY <1>2 DEF IsOneOf
  <2>2. ASSUME NEW k \in 1..Len(packets)
        PROVE  Framed(packets[k], IF k = 1 THEN FALSE ELSE Opens(packets[k - 1]))
    <3>1. k = 1
      BY <2>1
    <3> QED
      BY <1>2, <3>1
  <2>3. FramedFrom(packets, FALSE)
    BY <2>2 DEF FramedFrom
  <2>4. Len(packets) \in Nat \ {0} /\ ~Opens(packets[Len(packets)])
    BY <1>2, <2>1
  <2> QED
    BY <2>3, <2>4
<1>3. CASE /\ msg = <<EOX>> /\ IsOneOf(packets, Cable, msg)
           /\ Decode(packets[1]).cin = CinSysExEnd1
  <2>1. Carried(packets[1]) = msg /\ Last(msg) = EOX
    BY <1>3 DEF IsOneOf, Last
  <2>2. ~Opens(packets[1]) /\ Decode(packets[1]).cin \in EndCins
    BY <1>0, <1>3 DEF Opens, EndCins
  <2>3. Framed(packets[1], FALSE)
    BY <2>1, <2>2 DEF Framed
  <2> QED
    BY <1>2, <1>3, <2>2, <2>3
<1>4. CASE /\ msg[1] >= \h80 /\ msg[1] \notin {SOX, EOX} /\ Len(msg) \in 1..3
           /\ IsOneOf(packets, Cable, msg)
           /\ Decode(packets[1]).cin \notin {CinSysExStart, CinSysExEnd1, CinSysExEnd2, CinSysExEnd3}
  <2>1. Carried(packets[1]) = msg
    BY <1>4 DEF IsOneOf
  <2>2. ~Opens(packets[1]) /\ Decode(packets[1]).cin \notin EndCins
    BY <1>4 DEF Opens, EndCins
  <2>3. Last(msg) # EOX
    <3>1. PICK len \in 1..3 : len = Len(msg)
      BY <1>4
    <3>2. len # 1 => msg[len] < \h80
      BY <1>4, <3>1 DEF DataBytesOnly
    <3>3. msg[len] # EOX
      BY <1>0, <1>4, <3>2
    <3> QED
      BY <3>1, <3>3 DEF Last
  <2>4. Framed(packets[1], FALSE)
    BY <1>4, <2>1, <2>2, <2>3 DEF Framed
  <2> QED
    BY <1>2, <1>4, <2>2, <2>4
<1> QED
  BY <1>1, <1>3, <1>4 DEF Cut

(* The tags received so far are right, and the wire will keep them right:  *)
(* each packet fits its place, and the last run on the wire is complete.   *)
Framing ==
  /\ \A k \in 1..Len(Received) : Received[k].tag = TagOf(Received[k].data)
  /\ FramedFrom(wire, rx.inSysex)
  /\ IF wire = <<>> THEN ~rx.inSysex ELSE ~Opens(wire[Len(wire)])
  /\ wire \in Seq(OurPackets)

LEMMA TagsStay ==
  ASSUME NEW q \in Seq(Heard), NEW message \in Heard, message.tag = TagOf(message.data),
         \A k \in 1..Len(q) : q[k].tag = TagOf(q[k].data)
  PROVE  \A k \in 1..Len(Append(q, message)) :
           Append(q, message)[k].tag = TagOf(Append(q, message)[k].data)
<1>1. PICK more \in Seq(Heard) : /\ more = Append(q, message) /\ Len(more) = Len(q) + 1
                                 /\ \A k \in 1..Len(q) : more[k] = q[k]
                                 /\ more[Len(q) + 1] = message
  BY AppendProperties, ZenonT(40)
<1>2. PICK n \in Nat : n = Len(q)
  BY LenProperties
<1>3. ASSUME NEW k \in 1..(n + 1) PROVE more[k].tag = TagOf(more[k].data)
  <2>1. CASE k = n + 1
    BY <1>1, <1>2, <2>1
  <2>2. CASE k # n + 1
    <3>1. k \in 1..n
      BY <2>2
    <3> QED
      BY <1>1, <1>2, <3>1
  <2> QED
    BY <2>1, <2>2
<1> QED
  BY <1>1, <1>2, <1>3

LEMMA FramingSend ==
  ASSUME LinkBase, Framing, NEW msg \in Messages, DataBytesOnly(msg), Send(msg)
  PROVE  Framing'
<1>1. PICK packets \in Seq(WirePacket) :
        /\ Cut(packets, Cable, msg) /\ msg \in Seq(Byte)
        /\ wire' = wire \o packets /\ Received' = Received
  BY SendEffect
<1>2. wire \in Seq(WirePacket) /\ rx' = rx /\ rx \in StreamType
  BY DEF LinkBase, Send
<1>3. FramedFrom(packets, FALSE) /\ ~Opens(packets[Len(packets)])
  BY <1>1, CutFramed
<1>4. PICK n \in Nat, m \in Nat \ {0} : n = Len(wire) /\ m = Len(packets)
  BY <1>1, <1>2, LenProperties, CutFramed
<1>5. PICK more : /\ more = wire' /\ Len(more) = n + m
                  /\ \A i \in 1..(n + m) : more[i] = IF i <= n THEN wire[i] ELSE packets[i - n]
  <2>1. /\ Len(wire \o packets) = Len(wire) + Len(packets)
        /\ \A i \in 1..(Len(wire) + Len(packets)) :
             (wire \o packets)[i] = IF i <= Len(wire) THEN wire[i] ELSE packets[i - Len(wire)]
    BY <1>2, ConcatProperties
  <2> QED
    BY <1>1, <1>4, <2>1
<1>6. n = 0 <=> wire = <<>>
  BY <1>2, <1>4, EmptySeq
<1>7. rx.inSysex \in BOOLEAN
  BY <1>2, StreamFields
<1>8. IF n = 0 THEN rx.inSysex = FALSE ELSE ~Opens(wire[n])
  BY <1>4, <1>6, <1>7 DEF Framing
<1>9. ASSUME NEW k \in 1..(n + m)
      PROVE  Framed(more[k], IF k = 1 THEN rx.inSysex ELSE Opens(more[k - 1]))
  <2>1. CASE k <= n
    <3>1. k \in 1..n /\ (k # 1 => k - 1 \in 1..(n + m) /\ k - 1 <= n)
      BY <2>1
    <3>2. more[k] = wire[k] /\ (k # 1 => more[k - 1] = wire[k - 1])
      BY <1>5, <2>1, <3>1
    <3>3. Framed(wire[k], IF k = 1 THEN rx.inSysex ELSE Opens(wire[k - 1]))
      BY <1>4, <3>1 DEF Framing, FramedFrom
    <3> QED
      BY <3>2, <3>3
  <2>2. CASE k = n + 1
    <3>1. more[k] = packets[1]
      <4>1. ~(k <= n) /\ k - n = 1
        BY <2>2
      <4> QED
        BY <1>5, <4>1
    <3>2. Framed(packets[1], FALSE)
      <4>1. 1 \in 1..m
        OBVIOUS
      <4> QED
        BY <1>3, <1>4, <4>1 DEF FramedFrom
    <3>3. CASE n = 0
      <4>1. k = 1 /\ rx.inSysex = FALSE
        BY <1>8, <2>2, <3>3
      <4> QED
        BY <3>1, <3>2, <4>1
    <3>4. CASE n # 0
      <4>1. k # 1 /\ k - 1 = n /\ n \in 1..(n + m) /\ n <= n
        BY <2>2, <3>4
      <4>2. more[k - 1] = wire[n] /\ ~Opens(wire[n])
        BY <1>5, <1>8, <3>4, <4>1
      <4>3. Opens(more[k - 1]) = FALSE
        BY <4>2 DEF Opens
      <4> QED
        BY <3>1, <3>2, <4>1, <4>3
    <3> QED
      BY <3>3, <3>4
  <2>3. CASE k > n + 1
    <3>1. k # 1 /\ k - n \in 1..m /\ k - n # 1 /\ ~(k <= n) /\ ~(k - 1 <= n)
          /\ k - 1 \in 1..(n + m) /\ (k - n) - 1 = (k - 1) - n
      BY <2>3
    <3>2. more[k] = packets[k - n] /\ more[k - 1] = packets[(k - n) - 1]
      BY <1>5, <3>1
    <3>3. Framed(packets[k - n], Opens(packets[(k - n) - 1]))
      BY <1>3, <1>4, <3>1 DEF FramedFrom
    <3> QED
      BY <3>1, <3>2, <3>3
  <2>4. k <= n \/ k = n + 1 \/ k > n + 1
    OBVIOUS
  <2> QED
    BY <2>1, <2>2, <2>3, <2>4
<1>10. more # <<>> /\ ~Opens(more[Len(more)])
  <2>1. Len(<<>>) = 0 /\ n + m # 0 /\ n + m \in 1..(n + m) /\ ~(n + m <= n) /\ (n + m) - n = m
    BY EmptySeq
  <2>2. more[n + m] = packets[m]
    BY <1>5, <2>1
  <2> QED
    BY <1>3, <1>4, <1>5, <2>1, <2>2
<1>11. wire' \in Seq(OurPackets)
  BY <1>1, CutDeliverable, ConcatProperties DEF Framing
<1>12. FramedFrom(more, rx.inSysex)
  BY <1>5, <1>9 DEF FramedFrom
<1> QED
  BY <1>1, <1>2, <1>5, <1>10, <1>11, <1>12 DEF Framing

LEMMA FramingFeed ==
  ASSUME LinkBase, Framing, Feed
  PROVE  Framing'
<1>1. PICK buf \in WirePacket :
        /\ buf = Head(wire) /\ Len(wire) \in Nat \ {0} /\ wire[1] = buf
        /\ wire' \in Seq(WirePacket) /\ Len(wire') = Len(wire) - 1
        /\ \A k \in 1..Len(wire') : wire'[k] = wire[k + 1]
        /\ FedLink(buf)
  BY FeedSplits
<1>2. Received \in Seq(Heard) /\ rx \in StreamType /\ rx.cable = Cable
  BY ReceivedIs DEF LinkBase
<1>3. buf \in OurPackets /\ wire' \in Seq(OurPackets)
  <2>1. wire \in Seq(OurPackets) /\ wire # <<>> /\ wire' = Tail(wire)
    BY DEF Framing, Feed
  <2> QED
    BY <1>1, <2>1, HeadTailProperties
<1>4. ~NotOurs(rx, Decode(buf)) /\ Decode(buf).cin \notin {CinMisc, CinCableEvent}
  BY <1>2, <1>3 DEF OurPackets, NotOurs, CinMisc, CinCableEvent
<1>5. Framed(buf, rx.inSysex)
  <2>1. 1 \in 1..Len(wire)
    BY <1>1
  <2> QED
    BY <1>1, <2>1 DEF Framing, FramedFrom
<1>6. RxTag(rx, Decode(buf)) = TagOf(Carried(buf)) /\ RxInSysex(rx, Decode(buf)) = Opens(buf)
  <2>1. Len(Carried(buf)) \in 1..3 /\ Carried(buf) \in Seq(Byte)
    BY <1>4, CarriedBounded, CarriedTyped
  <2> QED
    BY <1>2, <1>5, <2>1, FramedTag
<1>7. rx'.inSysex = Opens(buf)
  BY <1>1, <1>4, <1>6 DEF FedLink
<1>8. \A k \in 1..Len(Received') : Received'[k].tag = TagOf(Received'[k].data)
  <2>1. PICK message \in Heard : message = Arrived(rx, buf)
    BY <1>2, <1>4, ArrivedHeard
  <2>2. message.tag = TagOf(message.data)
    BY <1>6, <2>1 DEF Arrived
  <2>3. CASE rx.count < QueueSize
    <3>1. Received' = Append(Received, message)
      BY <1>1, <1>4, <2>1, <2>3 DEF FedLink
    <3> QED
      BY <1>2, <2>2, <3>1, TagsStay DEF Framing
  <2>4. CASE ~(rx.count < QueueSize)
    BY <1>1, <1>4, <2>4 DEF FedLink, Framing
  <2> QED
    BY <2>3, <2>4
<1>9. FramedFrom(wire', rx'.inSysex)
  <2>1. ASSUME NEW k \in 1..Len(wire')
        PROVE  Framed(wire'[k], IF k = 1 THEN Opens(buf) ELSE Opens(wire'[k - 1]))
    <3>1. k + 1 \in 1..Len(wire) /\ k + 1 # 1 /\ (k + 1) - 1 = k
          /\ (k # 1 => k - 1 \in 1..Len(wire') /\ (k - 1) + 1 = k)
      BY <1>1
    <3>2. Framed(wire[k + 1], Opens(wire[k]))
      BY <3>1 DEF Framing, FramedFrom
    <3>3. wire'[k] = wire[k + 1]
      BY <1>1
    <3>4. k # 1 => wire'[k - 1] = wire[k]
      BY <1>1, <3>1
    <3> QED
      BY <1>1, <3>2, <3>3, <3>4
  <2> QED
    BY <1>7, <2>1 DEF FramedFrom
<1>10. IF wire' = <<>> THEN ~rx'.inSysex ELSE ~Opens(wire'[Len(wire')])
  <2>1. wire # <<>> /\ ~Opens(wire[Len(wire)])
    BY DEF Feed, Framing
  <2>2. CASE wire' = <<>>
    <3>1. Len(wire) = 1
      <4>1. Len(wire') = 0
        BY <2>2, EmptySeq
      <4> QED
        BY <1>1, <4>1
    <3> QED
      BY <1>1, <1>7, <2>1, <2>2, <3>1
  <2>3. CASE wire' # <<>>
    <3>1. Len(wire') \in Nat \ {0}
      BY <1>1, <2>3, EmptySeq
    <3>2. Len(wire') \in 1..Len(wire') /\ Len(wire') + 1 = Len(wire)
      BY <1>1, <3>1
    <3>3. wire'[Len(wire')] = wire[Len(wire') + 1]
      BY <1>1, <3>2
    <3> QED
      BY <2>1, <2>3, <3>2, <3>3
  <2> QED
    BY <2>2, <2>3
<1> QED
  BY <1>3, <1>8, <1>9, <1>10 DEF Framing

LEMMA FramingStep ==
  (\A msg \in Messages : DataBytesOnly(msg)) /\ LinkBase /\ Framing /\ [Next]_vars => Framing'
<1> SUFFICES ASSUME \A msg \in Messages : DataBytesOnly(msg), LinkBase, Framing, [Next]_vars
             PROVE  Framing'
  OBVIOUS
<1>0. Received \in Seq(Heard) /\ rx \in StreamType
  BY ReceivedIs DEF LinkBase
<1>1. ASSUME \A k \in 1..Len(Received') : Received'[k].tag = TagOf(Received'[k].data),
             rx'.inSysex = rx.inSysex, wire' = wire
      PROVE  Framing'
  BY <1>1 DEF Framing
<1>2. ASSUME Received' = Received, rx'.inSysex = rx.inSysex, wire' = wire
      PROVE  Framing'
  BY <1>2 DEF Framing
<1>3. ASSUME NEW msg \in Messages, Send(msg) PROVE Framing'
  BY <1>3, FramingSend
<1>4. CASE Feed
  BY <1>4, FramingFeed
<1>5. CASE Take
  <2>1. Received' = Received /\ rx'.inSysex = rx.inSysex
    BY <1>5, TakeEffect
  <2> QED
    BY <1>2, <1>5, <2>1 DEF Take
<1>6. ASSUME NEW buf \in StrayPackets, FeedStray(buf) PROVE Framing'
  <2>1. /\ FedLink(buf) /\ wire' = wire /\ buf \in WirePacket
        /\ NotOurs(rx, Decode(buf)) \/ IsTick(buf)
    BY <1>6, StrayEffect
  <2>2. CASE NotOurs(rx, Decode(buf))
    BY <1>2, <2>1, <2>2 DEF FedLink
  <2>3. CASE ~NotOurs(rx, Decode(buf))
    <3>1. RxTag(rx, Decode(buf)) = TagOf(Carried(buf)) /\ rx'.inSysex = rx.inSysex
      BY <1>0, <2>1, <2>3, TickTag DEF FedLink
    <3>2. CASE rx.count < QueueSize
      <4>1. PICK message \in Heard : message = Arrived(rx, buf)
        BY <1>0, <2>1, <2>3, ArrivedHeard
      <4>2. Received' = Append(Received, message)
        BY <2>1, <2>3, <3>2, <4>1 DEF FedLink
      <4>3. message.tag = TagOf(message.data)
        BY <3>1, <4>1 DEF Arrived
      <4>4. \A k \in 1..Len(Received') : Received'[k].tag = TagOf(Received'[k].data)
        BY <1>0, <4>2, <4>3, TagsStay DEF Framing
      <4> QED
        BY <1>1, <2>1, <3>1, <4>4
    <3>3. CASE ~(rx.count < QueueSize)
      <4>1. Received' = Received
        BY <2>1, <2>3, <3>3 DEF FedLink
      <4> QED
        BY <1>2, <2>1, <3>1, <4>1
    <3> QED
      BY <3>2, <3>3
  <2> QED
    BY <2>2, <2>3
<1>7. CASE UNCHANGED vars
  <2>1. Received' = Received
    BY <1>7 DEF vars, Received
  <2> QED
    BY <1>2, <1>7, <2>1 DEF vars
<1> QED
  BY <1>3, <1>4, <1>5, <1>6, <1>7 DEF Next

(* The tags frame every SysEx run, whatever else arrives between its       *)
(* packets and whatever is dropped.                                        *)
THEOREM LinkTagsFrameRuns ==
  ASSUME \A msg \in Messages : DataBytesOnly(msg)
  PROVE  Spec => []TagsFrameRuns
<1>1. Init => Framing
  <2> SUFFICES ASSUME Init PROVE Framing
    OBVIOUS
  <2>1. Received = <<>> /\ wire = <<>> /\ ~rx.inSysex
    BY LinkBaseInit
  <2>2. Len(<<>>) = 0 /\ <<>> \in Seq(OurPackets)
    BY EmptySeq
  <2> QED
    BY <2>1, <2>2 DEF Framing, FramedFrom
<1>2. LinkBase /\ Framing /\ [Next]_vars => Framing'
  BY FramingStep
<1>3. Framing => TagsFrameRuns
  BY DEF Framing, TagsFrameRuns
<1> QED
  BY <1>1, <1>2, <1>3, LinkBaseInvariant, PTL DEF Spec

-----------------------------------------------------------------------------
(* The send hook.  The receive stream of its far end takes each message as *)
(* it arrives, so none waits there.                                        *)
Idle == {s \in StreamType : s.cable = PortCable /\ s.count = 0}

(* The carry and the far end, and how much of which run was given.         *)
TxBase ==
  /\ carry \in Seq(Byte) /\ Len(carry) <= 2 /\ malformed \in BOOLEAN
  /\ run \in Seq(Byte)
  /\ run # <<>> => Len(run) >= 2 /\ run[1] = SOX /\ run[Len(run)] = EOX
  /\ given \in 0..Len(run) /\ runs \in 0..MaxRuns
  /\ far \in Idle /\ heard \in Seq(Heard)

TxInv == TxBase /\ RunIsWhole /\ EndsOnce

(* One packet for this cable arrives: its bytes are heard unless they are  *)
(* a clock tick.                                                           *)
LEMMA OneArrives ==
  ASSUME NEW f \in Idle, NEW h \in Seq(Heard), NEW packet \in WirePacket,
         Decode(packet).cable = PortCable,
         Decode(packet).cin \notin {CinMisc, CinCableEvent}
  PROVE  \E g \in Idle : \E message \in Heard :
           /\ Arrives([far |-> f, heard |-> h], packet) =
                [far |-> g,
                 heard |-> IF Carried(packet) = <<\hF8>> THEN h ELSE Append(h, message)]
           /\ g.inSysex = RxInSysex(f, Decode(packet))
           /\ message.data = Carried(packet) /\ message.tag = RxTag(f, Decode(packet))
<1>1. f \in StreamType /\ f.cable = PortCable /\ f.count = 0 /\ f.count < QueueSize
  BY QueueAssumption DEF Idle
<1>2. Fed(RxPacket(f, packet), f, packet)
  BY <1>1, PacketEffect
<1>3. PICK fed : fed = RxPacket(f, packet)
  OBVIOUS
<1>4. PICK message : message = Arrived(f, packet)
  OBVIOUS
<1>5. ~NotOurs(f, Decode(packet))
  BY <1>1 DEF NotOurs
<1>6. /\ fed \in StreamType /\ fed.cable = PortCable
      /\ fed.inSysex = RxInSysex(f, Decode(packet)) /\ Stored(fed, f, message)
  BY <1>1, <1>2, <1>3, <1>4, <1>5 DEF Fed
<1>7. fed.count = 1 /\ Queue(fed) = Append(Queue(f), message)
  BY <1>1, <1>6 DEF Stored
<1>8. Queue(f) = <<>>
  <2>1. Queue(f) \in Seq(MessageType) /\ Len(Queue(f)) = 0
    BY <1>1, QueueTyped
  <2> QED
    BY <2>1, EmptySeq
<1>9. /\ message.data = Carried(packet) /\ message.tag = RxTag(f, Decode(packet))
      /\ message \in Heard
  <2>1. message.data = Carried(packet) /\ message.tag = RxTag(f, Decode(packet))
    BY <1>4 DEF Arrived
  <2>2. Carried(packet) \in MidiBytes /\ Len(Carried(packet)) \in 1..3
    BY CarriedBounded
  <2>3. RxTag(f, Decode(packet)) \in Tags
    BY <1>1, TagTyped
  <2>4. message = [data |-> Carried(packet), tag |-> RxTag(f, Decode(packet))]
    BY <1>4 DEF Arrived
  <2> QED
    BY <2>1, <2>2, <2>3, <2>4 DEF Heard, MessageType
<1>10. /\ RxTaken(fed) \in StreamType /\ RxOldest(fed) \in MessageType
       /\ Queue(fed) = <<RxOldest(fed)>> \o Queue(RxTaken(fed))
  <2>1. fed \in StreamType /\ fed.count > 0
    BY <1>6, <1>7
  <2> QED
    BY <2>1, QueueTaken
<1>11. RxTaken(fed).cable = fed.cable /\ RxTaken(fed).inSysex = fed.inSysex
       /\ RxTaken(fed).count = fed.count - 1
  BY <1>6 DEF RxTaken, StreamType
<1>12. RxTaken(fed) \in Idle
  BY <1>6, <1>7, <1>10, <1>11 DEF Idle
<1>13. RxOldest(fed) = message
  <2>1. PICK q : q = Queue(RxTaken(fed))
    OBVIOUS
  <2>2. q \in Seq(MessageType)
    BY <1>10, <2>1, QueueTyped
  <2>3. PICK oldest : oldest = RxOldest(fed)
    OBVIOUS
  <2>4. Append(<<>>, message) = <<oldest>> \o q
    BY <1>7, <1>8, <1>10, <2>1, <2>3
  <2>5. message \in MessageType /\ oldest \in MessageType
    BY <1>9, <1>10, <2>3 DEF Heard
  <2>6. (<<oldest>> \o q)[1] = oldest
    BY <2>2, <2>5
  <2>7. Append(<<>>, message)[1] = message
    BY <2>5
  <2> QED
    BY <2>3, <2>4, <2>6, <2>7
<1>14. PICK st : st = [far |-> f, heard |-> h]
  OBVIOUS
<1>15. st.far = f /\ st.heard = h
  BY <1>14
<1>16. Arrives(st, packet) =
         [far |-> RxTaken(fed), heard |-> IF Carried(packet) = <<\hF8>> THEN h ELSE Append(h, message)]
  BY <1>3, <1>9, <1>13, <1>15 DEF Arrives
<1>17. PICK g \in Idle : g = RxTaken(fed) /\ g.inSysex = RxInSysex(f, Decode(packet))
  BY <1>6, <1>11, <1>12
<1> QED
  BY <1>9, <1>14, <1>16, <1>17

(* What arrives, packet by packet: the recursion is well founded.          *)
Arrivals(after, start, packets, n) ==
  after = [k \in 0..n |-> IF k = 0 THEN start ELSE Arrives(after[k - 1], packets[k])]

LEMMA ArrivalsExist ==
  ASSUME NEW start, NEW packets, NEW n \in Nat
  PROVE  \E after : Arrivals(after, start, packets, n)
<1> DEFINE S == {m \in Nat : \E after : Arrivals(after, start, packets, m)}
<1>1. 0 \in S
  <2>1. Arrivals([k \in 0..0 |-> start], start, packets, 0)
    BY DEF Arrivals
  <2> QED
    BY <2>1
<1>2. ASSUME NEW m \in Nat, m \in S PROVE m + 1 \in S
  <2>1. PICK f : Arrivals(f, start, packets, m)
    BY <1>2
  <2> DEFINE g == [k \in 0..(m + 1) |->
                     IF k = m + 1 THEN Arrives(f[m], packets[m + 1]) ELSE f[k]]
  <2>2. ASSUME NEW k \in 0..(m + 1)
        PROVE  g[k] = IF k = 0 THEN start ELSE Arrives(g[k - 1], packets[k])
    <3>1. CASE k = m + 1
      <4>1. k # 0 /\ k - 1 = m /\ m \in 0..(m + 1) /\ m # m + 1
        BY <3>1
      <4>2. g[m] = f[m] /\ g[k] = Arrives(f[m], packets[k])
        BY <3>1, <4>1
      <4> QED
        BY <4>1, <4>2
    <3>2. CASE k # m + 1
      <4>1. k \in 0..m /\ (k # 0 => k - 1 \in 0..(m + 1) /\ k - 1 # m + 1)
        BY <3>2
      <4>2. f[k] = IF k = 0 THEN start ELSE Arrives(f[k - 1], packets[k])
        BY <2>1, <4>1 DEF Arrivals
      <4> QED
        BY <3>2, <4>1, <4>2
    <3> QED
      BY <3>1, <3>2
  <2>3. Arrivals(g, start, packets, m + 1)
    <3>1. g = [k \in 0..(m + 1) |-> g[k]]
      OBVIOUS
    <3> HIDE DEF g
    <3> QED
      BY <2>2, <3>1 DEF Arrivals
  <2> HIDE DEF g
  <2> QED
    BY <2>3
<1>3. n \in S
  <2> HIDE DEF S
  <2> QED
    BY <1>1, <1>2, SetInduction
<1> QED
  BY <1>3

LEMMA AllArriveIs ==
  ASSUME NEW start, NEW packets, Len(packets) \in Nat
  PROVE  \E after :
           /\ AllArrive(start, packets) = after[Len(packets)] /\ after[0] = start
           /\ \A k \in 1..Len(packets) : after[k] = Arrives(after[k - 1], packets[k])
<1> DEFINE after == CHOOSE after : Arrivals(after, start, packets, Len(packets))
<1>1. Arrivals(after, start, packets, Len(packets))
  BY ArrivalsExist
<1>2. AllArrive(start, packets) = after[Len(packets)]
  BY DEF AllArrive, Arrivals
<1> HIDE DEF after
<1>3. PICK n \in Nat : n = Len(packets)
  OBVIOUS
<1>4. after[0] = start
  BY <1>1, <1>3 DEF Arrivals
<1>5. ASSUME NEW k \in 1..n PROVE after[k] = Arrives(after[k - 1], packets[k])
  <2>1. k \in 0..n /\ k # 0
    OBVIOUS
  <2> QED
    BY <1>1, <1>3, <2>1 DEF Arrivals
<1> QED
  BY <1>2, <1>3, <1>4, <1>5

(* None, one and two packets: a call sends no more.                        *)
LEMMA NoneArrive ==
  ASSUME NEW start
  PROVE  AllArrive(start, <<>>) = start
<1>1. Len(<<>>) = 0
  OBVIOUS
<1> QED
  BY <1>1, AllArriveIs

LEMMA OneArrival ==
  ASSUME NEW start, NEW p
  PROVE  AllArrive(start, <<p>>) = Arrives(start, p)
<1>1. PICK s : s = <<p>>
  OBVIOUS
<1>2. Len(s) = 1 /\ s[1] = p
  BY <1>1
<1>3. PICK after : /\ AllArrive(start, s) = after[1] /\ after[0] = start
                   /\ after[1] = Arrives(after[1 - 1], s[1])
  <2>1. Len(s) \in Nat /\ 1 \in 1..1
    BY <1>2
  <2> QED
    BY <1>2, <2>1, AllArriveIs
<1> QED
  BY <1>1, <1>2, <1>3

LEMMA TwoArrivals ==
  ASSUME NEW start, NEW p, NEW q
  PROVE  AllArrive(start, <<p, q>>) = Arrives(Arrives(start, p), q)
<1>1. PICK s : s = <<p, q>>
  OBVIOUS
<1>2. Len(s) = 2 /\ s[1] = p /\ s[2] = q
  BY <1>1
<1>3. PICK after : /\ AllArrive(start, s) = after[2] /\ after[0] = start
                   /\ after[1] = Arrives(after[1 - 1], s[1])
                   /\ after[2] = Arrives(after[2 - 1], s[2])
  <2>1. Len(s) \in Nat /\ 1 \in 1..2 /\ 2 \in 1..2
    BY <1>2
  <2> QED
    BY <1>2, <2>1, AllArriveIs
<1> QED
  BY <1>1, <1>2, <1>3

-----------------------------------------------------------------------------
(* A packet of a run: three bytes of its middle, or one to three bytes at  *)
(* its end.                                                                *)
Middle(packet, data) ==
  /\ packet \in WirePacket /\ Decode(packet).cable = PortCable
  /\ Decode(packet).cin = CinSysExStart /\ Carried(packet) = data
  /\ data \in Seq(Byte) /\ Len(data) = 3

Final(packet, data) ==
  /\ packet \in WirePacket /\ Decode(packet).cable = PortCable
  /\ Decode(packet).cin \in EndCins /\ Carried(packet) = data
  /\ data \in Seq(Byte) /\ Len(data) \in 1..3

LEMMA BuiltMiddle ==
  ASSUME NEW data \in Seq(Byte), Len(data) = 3
  PROVE  Middle(Build(PortCable, CinSysExStart, data), data)
<1>1. CinSysExStart \in 0..15
  BY DEF CinSysExStart
<1>2. Len(data) = DataLength(CinSysExStart)
  BY <1>1, DataLengths
<1> QED
  BY <1>1, <1>2, BuildDecode, PortAssumption DEF Middle

LEMMA BuiltFinal ==
  ASSUME NEW data \in Seq(Byte), Len(data) \in 1..3
  PROVE  Final(Build(PortCable, EndCin(Len(data)), data), data)
<1>1. EndCin(Len(data)) \in EndCins /\ EndCin(Len(data)) \in 0..15
      /\ DataLength(EndCin(Len(data))) = Len(data)
  BY EndLength DEF EndCins
<1> QED
  BY <1>1, BuildDecode, PortAssumption DEF Final

(* What a call for a chunk sends and carries, by the bytes at hand.        *)
MiddleCut(call, bytes) ==
  \/ call.packets = <<>> /\ call.carry = bytes /\ Len(bytes) <= 2
  \/ \E p \in WirePacket, d, rest \in Seq(Byte) :
       /\ call.packets = <<p>> /\ Middle(p, d) /\ bytes = d \o rest
       /\ call.carry = rest /\ Len(rest) <= 2
  \/ \E p, q \in WirePacket, d, e \in Seq(Byte) :
       /\ call.packets = <<p, q>> /\ Middle(p, d) /\ Middle(q, e) /\ bytes = d \o e
       /\ call.carry = <<>>

EndCut(call, bytes) ==
  /\ call.carry = <<>>
  /\ \/ \E p \in WirePacket : call.packets = <<p>> /\ Final(p, bytes)
     \/ \E p, q \in WirePacket, d, e \in Seq(Byte) :
          /\ call.packets = <<p, q>> /\ Middle(p, d) /\ Final(q, e) /\ bytes = d \o e

(* Three, or six, bytes of a sequence and the others.                      *)
LEMMA Thirds ==
  ASSUME NEW bytes \in Seq(Byte)
  PROVE  /\ Len(bytes) >= 3 =>
              /\ SubSeq(bytes, 1, 3) \in Seq(Byte) /\ Len(SubSeq(bytes, 1, 3)) = 3
              /\ SubSeq(bytes, 4, Len(bytes)) \in Seq(Byte)
              /\ Len(SubSeq(bytes, 4, Len(bytes))) = Len(bytes) - 3
              /\ bytes = SubSeq(bytes, 1, 3) \o SubSeq(bytes, 4, Len(bytes))
         /\ SubSeq(bytes, Len(bytes) + 1, Len(bytes)) = <<>>
<1>1. PICK n \in Nat : n = Len(bytes)
  BY LenProperties
<1>2. CASE n >= 3
  <2>1. 3 \in 0..Len(bytes) /\ 3 + 1 = 4
    BY <1>1, <1>2
  <2>2. /\ SubSeq(bytes, 1, 3) \in Seq(Byte) /\ SubSeq(bytes, 4, Len(bytes)) \in Seq(Byte)
        /\ bytes = SubSeq(bytes, 1, 3) \o SubSeq(bytes, 4, Len(bytes))
    BY <2>1, CutInTwo
  <2>3. Len(SubSeq(bytes, 1, 3)) = 3 /\ Len(SubSeq(bytes, 4, n)) = n - 3
    BY <1>1, <1>2, SubSeqProperties
  <2>4. SubSeq(bytes, Len(bytes) + 1, Len(bytes)) = <<>>
    BY <1>1, SubSeqEmpty
  <2> QED
    BY <1>1, <2>2, <2>3, <2>4
<1>3. CASE ~(n >= 3)
  <2>1. SubSeq(bytes, Len(bytes) + 1, Len(bytes)) = <<>>
    BY <1>1, SubSeqEmpty
  <2> QED
    BY <1>1, <1>3, <2>1
<1> QED
  BY <1>2, <1>3

(* The whole triples of at most six bytes, as packets.                     *)
LEMMA TriplesBuilt ==
  ASSUME NEW bytes \in Seq(Byte)
  PROVE  LET middle(t) == [k \in 1..t |->
                             Build(PortCable, CinSysExStart, SubSeq(bytes, 3 * k - 2, 3 * k))]
         IN  /\ middle(0) = <<>>
             /\ middle(1) = <<Build(PortCable, CinSysExStart, SubSeq(bytes, 1, 3))>>
             /\ middle(2) = <<Build(PortCable, CinSysExStart, SubSeq(bytes, 1, 3)),
                              Build(PortCable, CinSysExStart, SubSeq(bytes, 4, 6))>>
<1> DEFINE B(k) == Build(PortCable, CinSysExStart, SubSeq(bytes, 3 * k - 2, 3 * k))
<1>1. B(1) = Build(PortCable, CinSysExStart, SubSeq(bytes, 1, 3))
      /\ B(2) = Build(PortCable, CinSysExStart, SubSeq(bytes, 4, 6))
  OBVIOUS
<1> HIDE DEF B
<1>2. [k \in 1..0 |-> B(k)] = <<>>
  OBVIOUS
<1>3. [k \in 1..1 |-> B(k)] = <<B(1)>>
  OBVIOUS
<1>4. [k \in 1..2 |-> B(k)] = <<B(1), B(2)>>
  OBVIOUS
<1> QED
  BY <1>1, <1>2, <1>3, <1>4 DEF B

LEMMA PairAppended ==
  ASSUME NEW T, NEW p \in T, NEW q \in T
  PROVE  Append(<<p>>, q) = <<p, q>>
<1>1. PICK s \in Seq(T) : s = <<p>> /\ Len(s) = 1 /\ s[1] = p
  <2>1. <<p>> \in Seq(T) /\ Len(<<p>>) = 1 /\ <<p>>[1] = p
    OBVIOUS
  <2> QED
    BY <2>1
<1>2. PICK more \in Seq(T) : more = <<p, q>> /\ Len(more) = 2 /\ more[1] = p /\ more[2] = q
  <2>1. /\ <<p, q>> \in Seq(T) /\ Len(<<p, q>>) = 2
        /\ <<p, q>>[1] = p /\ <<p, q>>[2] = q
    OBVIOUS
  <2> QED
    BY <2>1
<1>3. \A k \in 1..1 : more[k] = s[k]
  BY <1>1, <1>2
<1>4. Len(more) = Len(s) + 1 /\ more[Len(s) + 1] = q
  BY <1>1, <1>2
<1> QED
  BY <1>1, <1>2, <1>3, <1>4, LongerByOne

(* oms_tx_sysex_chunk on a chunk it does not refuse.                       *)
LEMMA ChunkCut ==
  ASSUME NEW old \in Seq(Byte), Len(old) <= 2, NEW mode,
         NEW data \in Seq(Byte), Len(data) \in 1..4, ~Refused(mode, data)
  PROVE  LET call == Chunk(old, mode, data)
             bytes == Kept(old, mode, data) \o data
         IN  /\ call.malformed = Broken(old, mode, data)
             /\ IF Ends(mode) THEN EndCut(call, bytes) ELSE MiddleCut(call, bytes)
<1>1. PICK kept \in Seq(Byte) : kept = Kept(old, mode, data) /\ Len(kept) <= 2
  <2>1. CASE Broken(old, mode, data)
    <3>1. Kept(old, mode, data) = <<>>
      BY <2>1 DEF Kept
    <3>2. <<>> \in Seq(Byte) /\ Len(<<>>) <= 2
      BY EmptySeq
    <3> QED
      BY <3>1, <3>2
  <2>2. CASE ~Broken(old, mode, data)
    <3>1. Kept(old, mode, data) = old
      BY <2>2 DEF Kept
    <3> QED
      BY <3>1
  <2> QED
    BY <2>1, <2>2
<1>2. PICK bytes \in Seq(Byte) : bytes = kept \o data /\ Len(bytes) \in 1..6
  <2>1. kept \o data \in Seq(Byte) /\ Len(kept \o data) = Len(kept) + Len(data)
    BY ConcatProperties
  <2>6. Len(kept) \in Nat
    BY LenProperties
  <2>7. PICK a : a = Len(kept) /\ a <= 2
    BY <1>1
  <2>2. a \in 0..2 /\ a = Len(kept)
    BY <2>6, <2>7
  <2>3. PICK b \in 1..4 : b = Len(data)
    OBVIOUS
  <2>8. a \in 0..2
    BY <2>2
  <2>4. a + b \in 1..6
    BY <2>8
  <2>5. Len(kept \o data) \in 1..6
    BY <2>1, <2>2, <2>3, <2>4
  <2> QED
    BY <2>1, <2>5
<1>3. PICK n \in 1..6 : n = Len(bytes)
  BY <1>2
<1>4. PICK t : t = Triples(mode, n)
  OBVIOUS
<1> DEFINE middle == [k \in 1..t |->
                        Build(PortCable, CinSysExStart, SubSeq(bytes, 3 * k - 2, 3 * k))]
           rest == SubSeq(bytes, 3 * t + 1, n)
           first == SubSeq(bytes, 1, 3)
           second == SubSeq(bytes, 4, n)
<1>5. Chunk(old, mode, data) =
        IF Ends(mode)
        THEN [carry |-> <<>>, malformed |-> Broken(old, mode, data),
              packets |-> Append(middle, Build(PortCable, EndCin(Len(rest)), rest))]
        ELSE [carry |-> rest, malformed |-> Broken(old, mode, data), packets |-> middle]
  BY <1>1, <1>2, <1>3, <1>4 DEF Chunk
<1>6. /\ t = 0 => middle = <<>>
      /\ t = 1 => middle = <<Build(PortCable, CinSysExStart, first)>>
      /\ t = 2 => middle = <<Build(PortCable, CinSysExStart, first),
                             Build(PortCable, CinSysExStart, SubSeq(bytes, 4, 6))>>
  BY TriplesBuilt
<1>7. /\ n >= 3 => /\ first \in Seq(Byte) /\ Len(first) = 3
                   /\ second \in Seq(Byte) /\ Len(second) = n - 3 /\ bytes = first \o second
      /\ SubSeq(bytes, n + 1, n) = <<>> /\ SubSeq(bytes, 1, n) = bytes
  BY <1>3, Thirds, SubSeqFull
<1>17. PICK l : l = Len(second) /\ (n >= 3 => l = n - 3)
  BY <1>7
<1>8. /\ t = 0 => rest = bytes
      /\ t = 1 => rest = second
      /\ t = 2 /\ n = 6 => rest = <<>>
  <2>1. CASE t = 0
    <3>1. 3 * 0 + 1 = 1
      OBVIOUS
    <3>2. rest = SubSeq(bytes, 1, n)
      BY <2>1, <3>1
    <3> QED
      BY <1>7, <2>1, <3>2
  <2>2. CASE t = 1
    <3>1. 3 * 1 + 1 = 4
      OBVIOUS
    <3> QED
      BY <2>2, <3>1
  <2>3. CASE t = 2 /\ n = 6
    <3>1. 3 * 2 + 1 = 6 + 1
      OBVIOUS
    <3>2. rest = SubSeq(bytes, n + 1, n)
      BY <2>3, <3>1
    <3> QED
      BY <1>7, <2>3, <3>2
  <2> QED
    BY <2>1, <2>2, <2>3
<1>9. n >= 3 => Middle(Build(PortCable, CinSysExStart, first), first)
  BY <1>7, BuiltMiddle
<1>10. PICK call : call = Chunk(old, mode, data)
  OBVIOUS
<1> HIDE DEF middle, rest, first, second
<1>11. CASE Ends(mode)
  <2>1. /\ call.carry = <<>> /\ call.malformed = Broken(old, mode, data)
        /\ call.packets = Append(middle, Build(PortCable, EndCin(Len(rest)), rest))
    BY <1>5, <1>10, <1>11
  <2>2. CASE n <= 3
    <3>1. t = 0
      BY <1>4, <1>11, <2>2 DEF Triples
    <3>2. rest = bytes /\ call.packets = <<Build(PortCable, EndCin(Len(bytes)), bytes)>>
      BY <1>6, <1>8, <2>1, <3>1
    <3>0. Len(bytes) \in 1..3
      BY <1>3, <2>2
    <3>3. Final(Build(PortCable, EndCin(Len(bytes)), bytes), bytes)
      BY <3>0, BuiltFinal
    <3>5. PICK p : p = Build(PortCable, EndCin(Len(bytes)), bytes)
      OBVIOUS
    <3>6. p \in WirePacket
      BY <3>3, <3>5 DEF Final
    <3>4. EndCut(call, bytes)
      BY <2>1, <3>2, <3>3, <3>5, <3>6 DEF EndCut
    <3> QED
      BY <1>1, <1>2, <1>10, <1>11, <2>1, <3>4
  <2>3. CASE n > 3
    <3>1. t = 1
      BY <1>4, <1>11, <2>3 DEF Triples
    <3>2. PICK p, q : /\ p = Build(PortCable, CinSysExStart, first)
                      /\ q = Build(PortCable, EndCin(Len(second)), second)
      OBVIOUS
    <3>9. p \in Seq(Byte) /\ q \in Seq(Byte)
      <4>1. second \in Seq(Byte) /\ Len(second) \in 1..3
        BY <1>7, <1>17, <2>3
      <4>2. Final(q, second) /\ Middle(p, first)
        BY <1>9, <2>3, <3>2, <4>1, BuiltFinal
      <4> QED
        BY <4>2 DEF Final, Middle, WirePacket
    <3>3. rest = second /\ call.packets = <<p, q>>
      <4>1. rest = second /\ middle = <<p>>
        BY <1>6, <1>8, <3>1, <3>2
      <4>2. call.packets = Append(<<p>>, q)
        BY <2>1, <3>2, <4>1
      <4> QED
        BY <3>9, <4>1, <4>2, PairAppended
    <3>4. second \in Seq(Byte) /\ Len(second) \in 1..3 /\ first \in Seq(Byte)
      <4>1. n - 3 \in 1..3 /\ n >= 3
        BY <2>3
      <4>2. l \in 1..3
        BY <1>17, <4>1
      <4> QED
        BY <1>7, <1>17, <4>1, <4>2
    <3>5. Middle(p, first) /\ Final(q, second)
      BY <1>9, <2>3, <3>2, <3>4, BuiltFinal
    <3>6. bytes = first \o second
      BY <1>7, <2>3
    <3>8. p \in WirePacket /\ q \in WirePacket
      BY <3>5 DEF Middle, Final
    <3>7. EndCut(call, bytes)
      BY <2>1, <3>3, <3>8, <3>4, <3>5, <3>6, ZenonT(20) DEF EndCut
    <3> QED
      BY <1>1, <1>2, <1>10, <1>11, <2>1, <3>7
  <2> QED
    BY <2>2, <2>3
<1>12. CASE ~Ends(mode)
  <2>1. /\ call.carry = rest /\ call.malformed = Broken(old, mode, data)
        /\ call.packets = middle
    BY <1>5, <1>10, <1>12
  <2>2. CASE n <= 2
    <3>1. t = 0
      BY <1>4, <1>12, <2>2 DEF Triples
    <3>2. MiddleCut(call, bytes)
      BY <1>3, <1>6, <1>8, <2>1, <2>2, <3>1 DEF MiddleCut
    <3> QED
      BY <1>1, <1>2, <1>10, <1>12, <2>1, <3>2
  <2>3. CASE n \in 3..5
    <3>1. t = 1
      BY <1>4, <1>12, <2>3 DEF Triples
    <3>2. PICK p : p = Build(PortCable, CinSysExStart, first)
      OBVIOUS
    <3>3. call.packets = <<p>> /\ call.carry = second
      BY <1>6, <1>8, <2>1, <3>1, <3>2
    <3>4. /\ first \in Seq(Byte) /\ second \in Seq(Byte) /\ Len(second) <= 2
          /\ bytes = first \o second /\ Middle(p, first)
      <4>1. n - 3 <= 2 /\ n >= 3
        BY <2>3
      <4>2. l <= 2
        BY <1>17, <4>1
      <4> QED
        BY <1>7, <1>9, <1>17, <3>2, <4>1, <4>2
    <3>6. p \in WirePacket
      BY <3>4 DEF Middle
    <3>5. MiddleCut(call, bytes)
      BY <3>6, <3>3, <3>4, ZenonT(20) DEF MiddleCut
    <3> QED
      BY <1>1, <1>2, <1>10, <1>12, <2>1, <3>5
  <2>4. CASE n = 6
    <3>1. t = 2
      BY <1>4, <1>12, <2>4 DEF Triples
    <3>2. PICK p, q : /\ p = Build(PortCable, CinSysExStart, first)
                      /\ q = Build(PortCable, CinSysExStart, second)
      OBVIOUS
    <3>3. call.packets = <<p, q>> /\ call.carry = <<>>
      BY <1>6, <1>8, <2>1, <2>4, <3>1, <3>2 DEF second
    <3>4. first \in Seq(Byte) /\ second \in Seq(Byte) /\ bytes = first \o second
          /\ Len(second) = 3
      <4>1. n - 3 = 3 /\ n >= 3
        BY <2>4
      <4>2. l = 3
        BY <1>17, <4>1
      <4> QED
        BY <1>7, <1>17, <4>1, <4>2
    <3>5. Middle(p, first) /\ Middle(q, second)
      BY <1>9, <2>4, <3>2, <3>4, BuiltMiddle
    <3>7. p \in WirePacket /\ q \in WirePacket
      BY <3>5 DEF Middle
    <3>6. MiddleCut(call, bytes)
      BY <3>7, <3>3, <3>4, <3>5, ZenonT(20) DEF MiddleCut
    <3> QED
      BY <1>1, <1>2, <1>10, <1>12, <2>1, <3>6
  <2> QED
    BY <2>2, <2>3, <2>4
<1> QED
  BY <1>11, <1>12

-----------------------------------------------------------------------------
(* The bytes of what was heard.                                            *)
BytesOf(h) == FlattenSeq([k \in 1..Len(h) |-> h[k].data])
NoEnd(h) == \A k \in 1..Len(h) : h[k].tag # "end"

LEMMA BytesAppended ==
  ASSUME NEW h \in Seq(Heard), NEW message \in Heard
  PROVE  /\ BytesOf(h) \in Seq(Byte)
         /\ BytesOf(Append(h, message)) = BytesOf(h) \o message.data
<1>1. PICK n \in Nat : n = Len(h)
  BY LenProperties
<1>2. \A k \in 1..n : h[k].data \in Seq(Byte)
  BY <1>1, ElementOfSeq DEF Heard, MessageType, MidiBytes
<1>3. message.data \in Seq(Byte)
  BY DEF Heard, MessageType, MidiBytes
<1>4. PICK R : R = Seq(Byte)
  OBVIOUS
<1>5. PICK seqs : seqs = [k \in 1..n |-> h[k].data]
  OBVIOUS
<1>6. PICK x \in R : x = message.data
  BY <1>3, <1>4
<1>7. seqs \in Seq(R) /\ Len(seqs) = n
  BY <1>2, <1>4, <1>5
<1>8. PICK longer : longer = Append(h, message)
  OBVIOUS
<1>9. /\ Len(longer) = n + 1 /\ longer[n + 1] = message
      /\ \A k \in 1..n : longer[k] = h[k]
  BY <1>1, <1>8, AppendProperties
<1>10. PICK more : more = [k \in 1..(n + 1) |-> longer[k].data]
  OBVIOUS
<1>11. more = Append(seqs, x)
  <2>1. more[n + 1] = x
    BY <1>6, <1>9, <1>10
  <2>2. \A k \in 1..n : more[k] = seqs[k] /\ more[k] \in R
    BY <1>2, <1>4, <1>5, <1>9, <1>10
  <2>3. \A k \in 1..(n + 1) : more[k] \in R
    <3> SUFFICES ASSUME NEW k \in 1..(n + 1) PROVE more[k] \in R
      OBVIOUS
    <3>1. k \in 1..n \/ k = n + 1
      OBVIOUS
    <3> QED
      BY <2>1, <2>2, <3>1
  <2>4. more \in Seq(R) /\ Len(more) = n + 1
    BY <1>10, <2>3
  <2> QED
    BY <1>7, <2>1, <2>2, <2>4, LongerByOne
<1>12. FlattenSeq(seqs) \in Seq(Byte) /\ FlattenSeq(Append(seqs, x)) = FlattenSeq(seqs) \o x
  BY <1>3, <1>4, <1>6, <1>7, FlattenAppend
<1>13. BytesOf(h) = FlattenSeq(seqs)
  BY <1>1, <1>5 DEF BytesOf
<1>14. BytesOf(longer) = FlattenSeq(more)
  BY <1>9, <1>10 DEF BytesOf
<1> QED
  BY <1>6, <1>8, <1>11, <1>12, <1>13, <1>14

LEMMA NoEndAppended ==
  ASSUME NEW h \in Seq(Heard), NEW message \in Heard
  PROVE  /\ Append(h, message) \in Seq(Heard)
         /\ NoEnd(h) => \A k \in 1..Len(Append(h, message)) :
                          Append(h, message)[k].tag = "end" =>
                            k = Len(Append(h, message)) /\ message.tag = "end"
<1>1. PICK n \in Nat : n = Len(h)
  BY LenProperties
<1>2. PICK longer : longer = Append(h, message)
  OBVIOUS
<1>3. /\ longer \in Seq(Heard) /\ Len(longer) = n + 1 /\ longer[n + 1] = message
      /\ \A k \in 1..n : longer[k] = h[k]
  BY <1>1, <1>2, AppendProperties
<1>4. ASSUME NoEnd(h), NEW k \in 1..(n + 1), longer[k].tag = "end"
      PROVE  k = n + 1 /\ message.tag = "end"
  <2>1. CASE k \in 1..n
    BY <1>1, <1>3, <1>4, <2>1 DEF NoEnd
  <2>2. CASE k \notin 1..n
    <3>1. k = n + 1
      BY <2>2
    <3> QED
      BY <1>3, <1>4, <3>1
  <2> QED
    BY <2>1, <2>2
<1> QED
  BY <1>2, <1>3, <1>4

LEMMA BytesTyped ==
  ASSUME NEW h \in Seq(Heard)
  PROVE  BytesOf(h) \in Seq(Byte)
<1>1. CASE h = <<>>
  <2>1. [k \in 1..Len(<<>>) |-> h[k].data] = <<>>
    OBVIOUS
  <2>2. BytesOf(h) = <<>>
    BY <1>1, <2>1, FlattenEmpty DEF BytesOf
  <2> QED
    BY <2>2, EmptySeq
<1>2. CASE h # <<>>
  <2>1. h[1] \in Heard
    BY <1>2, EmptySeq, ElementOfSeq
  <2> QED
    BY <2>1, BytesAppended
<1> QED
  BY <1>1, <1>2

(* A packet of the middle of a run arrives, and one of its end.            *)
HearsMiddle(st, p, g, more, d) ==
  /\ Arrives(st, p) = [far |-> g, heard |-> more]
  /\ BytesOf(more) = BytesOf(st.heard) \o d
  /\ NoEnd(st.heard) => NoEnd(more)

HearsEnd(st, p, g, more, d) ==
  /\ Arrives(st, p) = [far |-> g, heard |-> more] /\ ~g.inSysex
  /\ BytesOf(more) = BytesOf(st.heard) \o d
  /\ NoEnd(st.heard) => \A k \in 1..Len(more) : more[k].tag = "end" => k = Len(more)

LEMMA MiddleArrives ==
  ASSUME NEW f \in Idle, NEW h \in Seq(Heard), NEW p, NEW d, Middle(p, d)
  PROVE  \E g \in Idle, more \in Seq(Heard) :
           HearsMiddle([far |-> f, heard |-> h], p, g, more, d)
<1>1. /\ p \in WirePacket /\ Decode(p).cable = PortCable
      /\ Decode(p).cin = CinSysExStart /\ Carried(p) = d /\ Len(d) = 3
  BY DEF Middle
<1>2. CinSysExStart \notin {CinMisc, CinCableEvent}
  BY DEF CinSysExStart, CinMisc, CinCableEvent
<1>3. d # <<\hF8>>
  <2>1. Len(<<\hF8>>) = 1
    OBVIOUS
  <2> QED
    BY <1>1, <2>1
<1>4. RxTag(f, Decode(p)) # "end"
  BY <1>1 DEF RxTag, CinSysExStart, CinSysExEnd1, CinSysExEnd2, CinSysExEnd3
<1>5. PICK g \in Idle, message \in Heard :
        /\ Arrives([far |-> f, heard |-> h], p) =
             [far |-> g, heard |-> IF Carried(p) = <<\hF8>> THEN h ELSE Append(h, message)]
        /\ message.data = Carried(p) /\ message.tag = RxTag(f, Decode(p))
  <2>1. Decode(p).cin \notin {CinMisc, CinCableEvent}
    BY <1>1, <1>2
  <2> QED
    BY <1>1, <2>1, OneArrives, ZenonT(30)
<1>6. PICK more : more = Append(h, message)
  OBVIOUS
<1>7. more \in Seq(Heard) /\ (NoEnd(h) => NoEnd(more))
  BY <1>1, <1>4, <1>5, <1>6, NoEndAppended DEF NoEnd
<1>8. BytesOf(more) = BytesOf(h) \o d
  BY <1>1, <1>5, <1>6, BytesAppended
<1>9. Arrives([far |-> f, heard |-> h], p) = [far |-> g, heard |-> more]
  BY <1>1, <1>3, <1>5, <1>6
<1>10. [far |-> f, heard |-> h].heard = h
  OBVIOUS
<1>11. HearsMiddle([far |-> f, heard |-> h], p, g, more, d)
  BY <1>7, <1>8, <1>9, <1>10, Zenon DEF HearsMiddle
<1> QED
  BY <1>7, <1>11, Zenon

LEMMA FinalArrives ==
  ASSUME NEW f \in Idle, NEW h \in Seq(Heard), NEW p, NEW d, Final(p, d), d # <<\hF8>>
  PROVE  \E g \in Idle, more \in Seq(Heard) :
           HearsEnd([far |-> f, heard |-> h], p, g, more, d)
<1>1. /\ p \in WirePacket /\ Decode(p).cable = PortCable
      /\ Decode(p).cin \in EndCins /\ Carried(p) = d
  BY DEF Final
<1>2. Decode(p).cin \notin {CinMisc, CinCableEvent, CinSysExStart}
  BY <1>1 DEF EndCins, CinSysExStart, CinMisc, CinCableEvent, CinSysExEnd1, CinSysExEnd2, CinSysExEnd3
<1>4. RxInSysex(f, Decode(p)) = FALSE
  BY <1>1, <1>2 DEF RxInSysex, EndCins
<1>5. PICK g \in Idle, message \in Heard :
        /\ Arrives([far |-> f, heard |-> h], p) =
             [far |-> g, heard |-> IF Carried(p) = <<\hF8>> THEN h ELSE Append(h, message)]
        /\ g.inSysex = RxInSysex(f, Decode(p)) /\ message.data = Carried(p)
  <2>1. Decode(p).cin \notin {CinMisc, CinCableEvent}
    BY <1>2
  <2> QED
    BY <1>1, <2>1, OneArrives, ZenonT(30)
<1>6. PICK more : more = Append(h, message)
  OBVIOUS
<1>7. /\ more \in Seq(Heard)
      /\ NoEnd(h) => \A k \in 1..Len(more) : more[k].tag = "end" => k = Len(more)
  BY <1>6, NoEndAppended
<1>8. BytesOf(more) = BytesOf(h) \o d
  BY <1>1, <1>5, <1>6, BytesAppended
<1>9. Arrives([far |-> f, heard |-> h], p) = [far |-> g, heard |-> more] /\ ~g.inSysex
  BY <1>1, <1>4, <1>5, <1>6
<1>10. [far |-> f, heard |-> h].heard = h
  OBVIOUS
<1>11. HearsEnd([far |-> f, heard |-> h], p, g, more, d)
  BY <1>7, <1>8, <1>9, <1>10, Zenon DEF HearsEnd
<1> QED
  BY <1>7, <1>11, Zenon

(* What a call sends arrives: the bytes heard, and those carried after it, *)
(* are the bytes heard before and the bytes the call had at hand.          *)
HearsCall(st, call, g, more, bytes) ==
  /\ AllArrive(st, call.packets) = [far |-> g, heard |-> more]
  /\ BytesOf(more) \o call.carry = BytesOf(st.heard) \o bytes
  /\ NoEnd(st.heard) => NoEnd(more)

HearsLast(st, call, g, more, bytes) ==
  /\ AllArrive(st, call.packets) = [far |-> g, heard |-> more] /\ ~g.inSysex
  /\ BytesOf(more) = BytesOf(st.heard) \o bytes
  /\ NoEnd(st.heard) => \A k \in 1..Len(more) : more[k].tag = "end" => k = Len(more)

LEMMA MiddleCutArrives ==
  ASSUME NEW f \in Idle, NEW h \in Seq(Heard), NEW bytes \in Seq(Byte),
         NEW call, MiddleCut(call, bytes)
  PROVE  /\ \E g \in Idle, more \in Seq(Heard) :
              HearsCall([far |-> f, heard |-> h], call, g, more, bytes)
         /\ call.carry \in Seq(Byte) /\ Len(call.carry) <= 2
<1>0. BytesOf(h) \in Seq(Byte)
  BY BytesTyped
<1>6. PICK said \in Seq(Byte) : said = BytesOf(h)
  BY <1>0
<1>5. [far |-> f, heard |-> h].heard = h
  OBVIOUS
<1>4. PICK st : st = [far |-> f, heard |-> h] /\ st.heard = h
  BY <1>5
<1>1. CASE call.packets = <<>> /\ call.carry = bytes /\ Len(bytes) <= 2
  <2>1. AllArrive(st, <<>>) = st
    BY NoneArrive
  <2>2. HearsCall(st, call, f, h, bytes)
    BY <1>1, <1>4, <2>1, Zenon DEF HearsCall
  <2> QED
    BY <1>1, <1>4, <2>2
<1>2. CASE \E p \in WirePacket, d, rest \in Seq(Byte) :
             /\ call.packets = <<p>> /\ Middle(p, d) /\ bytes = d \o rest
             /\ call.carry = rest /\ Len(rest) <= 2
  <2>1. PICK p \in WirePacket, d \in Seq(Byte), rest \in Seq(Byte) :
          /\ call.packets = <<p>> /\ Middle(p, d) /\ bytes = d \o rest
          /\ call.carry = rest /\ Len(rest) <= 2
    BY <1>2
  <2>2. Middle(p, d)
    BY <2>1
  <2>3. PICK g \in Idle, more \in Seq(Heard) : HearsMiddle(st, p, g, more, d)
    BY <1>4, <2>2, MiddleArrives, Zenon
  <2>4. /\ Arrives(st, p) = [far |-> g, heard |-> more]
        /\ BytesOf(more) = BytesOf(h) \o d /\ (NoEnd(h) => NoEnd(more))
    BY <1>4, <2>3, Zenon DEF HearsMiddle
  <2>5. BytesOf(more) \o rest = BytesOf(h) \o bytes
    <3>1. (said \o d) \o rest = said \o (d \o rest)
      BY ConcatAssociative, SMTT(60)
    <3> QED
      BY <1>6, <2>1, <2>4, <3>1
  <2>6. AllArrive(st, <<p>>) = Arrives(st, p)
    BY OneArrival
  <2>7. HearsCall(st, call, g, more, bytes)
    BY <1>4, <2>1, <2>4, <2>5, <2>6, Zenon DEF HearsCall
  <2> QED
    BY <1>4, <2>1, <2>7
<1>3. CASE \E p, q \in WirePacket, d, e \in Seq(Byte) :
             /\ call.packets = <<p, q>> /\ Middle(p, d) /\ Middle(q, e) /\ bytes = d \o e
             /\ call.carry = <<>>
  <2>1. PICK p \in WirePacket, q \in WirePacket, d \in Seq(Byte), e \in Seq(Byte) :
          /\ call.packets = <<p, q>> /\ Middle(p, d) /\ Middle(q, e) /\ bytes = d \o e
          /\ call.carry = <<>>
    BY <1>3
  <2>2. Middle(p, d) /\ Middle(q, e)
    BY <2>1
  <2>3. PICK g \in Idle, some \in Seq(Heard) : HearsMiddle(st, p, g, some, d)
    BY <1>4, <2>2, MiddleArrives, Zenon
  <2>4. /\ Arrives(st, p) = [far |-> g, heard |-> some]
        /\ BytesOf(some) = BytesOf(h) \o d /\ (NoEnd(h) => NoEnd(some))
    BY <1>4, <2>3, Zenon DEF HearsMiddle
  <2>5. PICK su : su = [far |-> g, heard |-> some] /\ su.heard = some
    <3>1. [far |-> g, heard |-> some].heard = some
      OBVIOUS
    <3> QED
      BY <3>1
  <2>6. PICK i \in Idle, more \in Seq(Heard) : HearsMiddle(su, q, i, more, e)
    BY <2>2, <2>5, MiddleArrives, Zenon
  <2>7. /\ Arrives(su, q) = [far |-> i, heard |-> more]
        /\ BytesOf(more) = BytesOf(some) \o e /\ (NoEnd(some) => NoEnd(more))
    BY <2>5, <2>6, Zenon DEF HearsMiddle
  <2>8. BytesOf(more) \o <<>> = BytesOf(h) \o bytes
    <3>1. (said \o d) \o e = said \o (d \o e)
      BY ConcatAssociative, SMTT(60)
    <3>2. BytesOf(more) = BytesOf(h) \o bytes
      BY <1>6, <2>1, <2>4, <2>7, <3>1
    <3>3. BytesOf(more) \in Seq(Byte)
      BY BytesTyped
    <3> QED
      BY <3>2, <3>3, ConcatEmptySeq
  <2>9. AllArrive(st, <<p, q>>) = Arrives(Arrives(st, p), q)
    BY TwoArrivals
  <2>10. AllArrive(st, call.packets) = [far |-> i, heard |-> more]
    BY <2>1, <2>4, <2>5, <2>7, <2>9, Zenon
  <2>11. HearsCall(st, call, i, more, bytes)
    BY <1>4, <2>1, <2>4, <2>7, <2>8, <2>10, Zenon DEF HearsCall
  <2>12. call.carry \in Seq(Byte) /\ Len(call.carry) <= 2
    <3>1. <<>> \in Seq(Byte) /\ Len(<<>>) <= 2
      BY EmptySeq
    <3> QED
      BY <2>1, <3>1
  <2> QED
    BY <1>4, <2>11, <2>12
<1> QED
  BY <1>1, <1>2, <1>3, Zenon DEF MiddleCut

LEMMA EndCutArrives ==
  ASSUME NEW f \in Idle, NEW h \in Seq(Heard), NEW bytes \in Seq(Byte),
         bytes[Len(bytes)] # \hF8, NEW call, EndCut(call, bytes)
  PROVE  \E g \in Idle, more \in Seq(Heard) :
           HearsLast([far |-> f, heard |-> h], call, g, more, bytes)
<1>0. BytesOf(h) \in Seq(Byte)
  BY BytesTyped
<1>6. PICK said \in Seq(Byte) : said = BytesOf(h)
  BY <1>0
<1>5. [far |-> f, heard |-> h].heard = h
  OBVIOUS
<1>4. PICK st : st = [far |-> f, heard |-> h] /\ st.heard = h
  BY <1>5
<1>1. CASE \E p \in WirePacket : call.packets = <<p>> /\ Final(p, bytes)
  <2>1. PICK p \in WirePacket : call.packets = <<p>> /\ Final(p, bytes)
    BY <1>1
  <2>2. bytes # <<\hF8>>
    <3>1. Len(<<\hF8>>) = 1 /\ <<\hF8>>[1] = \hF8
      OBVIOUS
    <3>2. SUFFICES ASSUME bytes = <<\hF8>> PROVE FALSE
      OBVIOUS
    <3> QED
      BY <3>1, <3>2
  <2>3. Final(p, bytes)
    BY <2>1
  <2>4. PICK g \in Idle, more \in Seq(Heard) : HearsEnd(st, p, g, more, bytes)
    BY <1>4, <2>2, <2>3, FinalArrives, Zenon
  <2>5. AllArrive(st, <<p>>) = Arrives(st, p)
    BY OneArrival
  <2>6. HearsLast(st, call, g, more, bytes)
    BY <2>1, <2>4, <2>5, Zenon DEF HearsEnd, HearsLast
  <2> QED
    BY <1>4, <2>6
<1>2. CASE \E p, q \in WirePacket, d, e \in Seq(Byte) :
             /\ call.packets = <<p, q>> /\ Middle(p, d) /\ Final(q, e) /\ bytes = d \o e
  <2>1. PICK p \in WirePacket, q \in WirePacket, d \in Seq(Byte), e \in Seq(Byte) :
          /\ call.packets = <<p, q>> /\ Middle(p, d) /\ Final(q, e) /\ bytes = d \o e
    BY <1>2
  <2>2. Middle(p, d) /\ Final(q, e)
    BY <2>1
  <2>3. PICK g \in Idle, some \in Seq(Heard) : HearsMiddle(st, p, g, some, d)
    BY <1>4, <2>2, MiddleArrives, Zenon
  <2>4. /\ Arrives(st, p) = [far |-> g, heard |-> some]
        /\ BytesOf(some) = BytesOf(h) \o d /\ (NoEnd(h) => NoEnd(some))
    BY <1>4, <2>3, Zenon DEF HearsMiddle
  <2>5. PICK su : su = [far |-> g, heard |-> some] /\ su.heard = some
    <3>1. [far |-> g, heard |-> some].heard = some
      OBVIOUS
    <3> QED
      BY <3>1
  <2>6. e # <<\hF8>>
    <3>1. SUFFICES ASSUME e = <<\hF8>> PROVE FALSE
      OBVIOUS
    <3>2. Len(d) = 3
      BY <2>2 DEF Middle
    <3>3. Len(e) = 1 /\ e[1] = \hF8
      BY <3>1
    <3>4. PICK all : all = d \o e
      OBVIOUS
    <3>5. Len(all) = 4 /\ all[4] = \hF8
      <4>1. Len(all) = Len(d) + Len(e)
        BY <3>4, ConcatProperties
      <4>2. Len(all) = 4
        BY <3>2, <3>3, <4>1
      <4>3. all[4] = e[4 - Len(d)]
        <5>1. /\ Len(d \o e) = Len(d) + Len(e)
              /\ \A i \in 1..(Len(d) + Len(e)) :
                   (d \o e)[i] = IF i <= Len(d) THEN d[i] ELSE e[i - Len(d)]
          BY ConcatProperties
        <5>2. 4 \in 1..(Len(d) + Len(e)) /\ ~(4 <= Len(d))
          BY <3>2, <3>3
        <5> QED
          BY <3>4, <5>1, <5>2
      <4> QED
        BY <3>2, <3>3, <4>2, <4>3
    <3> QED
      BY <2>1, <3>4, <3>5
  <2>7. PICK i \in Idle, more \in Seq(Heard) : HearsEnd(su, q, i, more, e)
    BY <2>2, <2>5, <2>6, FinalArrives, Zenon
  <2>8. /\ Arrives(su, q) = [far |-> i, heard |-> more] /\ ~i.inSysex
        /\ BytesOf(more) = BytesOf(some) \o e
        /\ NoEnd(some) => \A k \in 1..Len(more) : more[k].tag = "end" => k = Len(more)
    BY <2>5, <2>7, Zenon DEF HearsEnd
  <2>9. BytesOf(more) = BytesOf(h) \o bytes
    <3>1. (said \o d) \o e = said \o (d \o e)
      BY ConcatAssociative, SMTT(60)
    <3> QED
      BY <1>6, <2>1, <2>4, <2>8, <3>1
  <2>10. AllArrive(st, <<p, q>>) = Arrives(Arrives(st, p), q)
    BY TwoArrivals
  <2>11. AllArrive(st, call.packets) = [far |-> i, heard |-> more]
    BY <2>1, <2>4, <2>5, <2>8, <2>10, Zenon
  <2>12. HearsLast(st, call, i, more, bytes)
    BY <1>4, <2>4, <2>8, <2>9, <2>11, Zenon DEF HearsLast
  <2> QED
    BY <1>4, <2>12
<1> QED
  BY <1>1, <1>2, Zenon DEF EndCut

-----------------------------------------------------------------------------
(* A run has the bytes F0, data bytes, F7.                                 *)
LEMMA RunTyped ==
  ASSUME NEW number \in Nat, NEW len \in Nat, len >= 2
  PROVE  /\ RunOf(number, len) \in Seq(Byte) /\ Len(RunOf(number, len)) = len
         /\ RunOf(number, len)[1] = SOX /\ RunOf(number, len)[len] = EOX
<1>1. PICK m \in Nat : m = len - 2
  OBVIOUS
<1>11. m + 1 + 1 = len /\ 1 \in 1..len /\ len \in 1..len /\ 1 <= m + 1 /\ ~(len <= m + 1)
       /\ len - (m + 1) = 1
  <2>1. len = m + 2
    BY <1>1
  <2>2. /\ m + 1 + 1 = m + 2 /\ 1 \in 1..(m + 2) /\ m + 2 \in 1..(m + 2)
        /\ 1 <= m + 1 /\ ~(m + 2 <= m + 1) /\ (m + 2) - (m + 1) = 1
    OBVIOUS
  <2> QED
    BY <2>1, <2>2, Zenon
<1>2. PICK body : body = [k \in 1..m |-> (16 * (number % 2) + k) % 128]
  BY Zenon
<1>3. \A k \in 1..m : (16 * (number % 2) + k) % 128 \in Byte
  <2> SUFFICES ASSUME NEW k \in 1..m PROVE (16 * (number % 2) + k) % 128 \in Byte
    OBVIOUS
  <2>1. PICK x \in Nat : x = 16 * (number % 2) + k
    OBVIOUS
  <2>2. x % 128 \in 0..127
    OBVIOUS
  <2>3. x % 128 \in 0..255
    BY <2>2
  <2> QED
    BY <2>1, <2>3 DEF Byte
<1>4. body \in Seq(Byte) /\ Len(body) = m
  <2>1. \A k \in 1..m : body[k] \in Byte
    BY <1>2, <1>3
  <2> HIDE DEF Byte
  <2> QED
    BY <1>2, <2>1
<1>5. SOX \in Byte /\ EOX \in Byte
  BY DEF SOX, EOX, Byte
<1>6. PICK a \in Seq(Byte) : a = <<SOX>> /\ Len(a) = 1 /\ a[1] = SOX
  <2>1. <<SOX>> \in Seq(Byte) /\ Len(<<SOX>>) = 1 /\ <<SOX>>[1] = SOX
    BY <1>5
  <2> QED
    BY <2>1
<1>7. PICK z \in Seq(Byte) : z = <<EOX>> /\ Len(z) = 1 /\ z[1] = EOX
  <2>1. <<EOX>> \in Seq(Byte) /\ Len(<<EOX>>) = 1 /\ <<EOX>>[1] = EOX
    BY <1>5
  <2> QED
    BY <2>1
<1>8. PICK front \in Seq(Byte) : front = a \o body /\ Len(front) = m + 1 /\ front[1] = SOX
  <2>1. a \o body \in Seq(Byte) /\ Len(a \o body) = Len(a) + Len(body)
        /\ \A i \in 1..(Len(a) + Len(body)) : i <= Len(a) => (a \o body)[i] = a[i]
    BY <1>4, ConcatProperties
  <2>2. 1 \in 1..(1 + m) /\ 1 + m = m + 1
    OBVIOUS
  <2>3. Len(a \o body) = m + 1 /\ (a \o body)[1] = SOX
    BY <1>4, <1>6, <2>1, <2>2
  <2> QED
    BY <2>1, <2>3
<1>9. /\ front \o z \in Seq(Byte) /\ Len(front \o z) = len
      /\ (front \o z)[1] = SOX /\ (front \o z)[len] = EOX
  <2>1. /\ front \o z \in Seq(Byte) /\ Len(front \o z) = Len(front) + Len(z)
        /\ \A i \in 1..(Len(front) + Len(z)) :
             (front \o z)[i] = IF i <= Len(front) THEN front[i] ELSE z[i - Len(front)]
    BY ConcatProperties
  <2>2. Len(front) + Len(z) = len
    BY <1>7, <1>8, <1>11
  <2>3. (front \o z)[1] = front[1]
    BY <1>8, <1>11, <2>1, <2>2
  <2>4. (front \o z)[len] = z[1]
    BY <1>8, <1>11, <2>1, <2>2
  <2> QED
    BY <1>7, <1>8, <2>1, <2>2, <2>3, <2>4
<1>10. RunOf(number, len) = front \o z
  BY <1>1, <1>2, <1>6, <1>7, <1>8 DEF RunOf
<1> QED
  BY <1>9, <1>10

(* A call for a chunk of a run.                                            *)
ChunkSent(mode, data, before) ==
  /\ malformed' = Broken(carry, mode, data)
  /\ carry' \in Seq(Byte) /\ Len(carry') <= 2
  /\ far' \in Idle /\ heard' \in Seq(Heard)
  /\ BytesOf(heard') \o carry' = BytesOf(before) \o (Kept(carry, mode, data) \o data)
  /\ IF Ends(mode)
     THEN /\ carry' = <<>> /\ ~far'.inSysex
          /\ NoEnd(before) => \A k \in 1..Len(heard') : heard'[k].tag = "end" => k = Len(heard')
     ELSE NoEnd(before) => NoEnd(heard')

LEMMA FarReset ==
  ASSUME NEW g \in Idle
  PROVE  [g EXCEPT !.stats = NoStats] \in Idle /\ [g EXCEPT !.stats = NoStats].inSysex = g.inSysex
<1>1. NoStats \in StatsType
  BY DEF NoStats, StatsType
<1> QED
  BY <1>1 DEF Idle, StreamType

LEMMA SendsEffect ==
  ASSUME NEW cont, NEW data, NEW before, Sends(cont, data, before),
         NEW g \in Idle, NEW more,
         AllArrive([far |-> far, heard |-> before], TxSend(carry, cont, data).packets) =
           [far |-> g, heard |-> more]
  PROVE  /\ carry' = TxSend(carry, cont, data).carry
         /\ malformed' = TxSend(carry, cont, data).malformed
         /\ far' \in Idle /\ far'.inSysex = g.inSysex /\ heard' = more
<1>1. [far |-> g, heard |-> more].far = g /\ [far |-> g, heard |-> more].heard = more
  OBVIOUS
<1>2. /\ carry' = TxSend(carry, cont, data).carry
      /\ malformed' = TxSend(carry, cont, data).malformed
      /\ far' = [[far |-> g, heard |-> more].far EXCEPT !.stats = NoStats]
      /\ heard' = [far |-> g, heard |-> more].heard
  BY Zenon DEF Sends
<1>3. far' = [g EXCEPT !.stats = NoStats]
  BY <1>1, <1>2
<1> QED
  BY <1>1, <1>2, <1>3, FarReset

LEMMA SendsChunk ==
  ASSUME NEW cont, NEW mode, NEW data \in Seq(Byte), NEW before \in Seq(Heard),
         carry \in Seq(Byte), Len(carry) <= 2, far \in Idle,
         Len(data) \in 1..4, ~Refused(mode, data),
         Ends(mode) => data[Len(data)] = EOX,
         TxSend(carry, cont, data) = Chunk(carry, mode, data), Sends(cont, data, before)
  PROVE  ChunkSent(mode, data, before)
<1>1. PICK call : call = Chunk(carry, mode, data)
  OBVIOUS
<1>2. PICK kept \in Seq(Byte) : kept = Kept(carry, mode, data)
  <2>1. <<>> \in Seq(Byte)
    BY EmptySeq
  <2> QED
    BY <2>1 DEF Kept
<1>3. PICK bytes \in Seq(Byte) : bytes = kept \o data
  <2>1. kept \o data \in Seq(Byte)
    BY ConcatProperties
  <2> QED
    BY <2>1
<1>4. /\ call.malformed = Broken(carry, mode, data)
      /\ IF Ends(mode) THEN EndCut(call, bytes) ELSE MiddleCut(call, bytes)
  BY <1>1, <1>2, <1>3, ChunkCut
<1>5. PICK st : st = [far |-> far, heard |-> before] /\ st.heard = before
  <2>1. [far |-> far, heard |-> before].heard = before
    OBVIOUS
  <2> QED
    BY <2>1
<1>6. CASE Ends(mode)
  <2>1. bytes[Len(bytes)] # \hF8
    <3>1. PICK a \in Nat : a = Len(kept)
      BY LenProperties
    <3>2. PICK b \in 1..4 : b = Len(data)
      OBVIOUS
    <3>3. /\ Len(kept \o data) = Len(kept) + Len(data)
          /\ \A i \in 1..(Len(kept) + Len(data)) :
               (kept \o data)[i] = IF i <= Len(kept) THEN kept[i] ELSE data[i - Len(kept)]
      BY ConcatProperties
    <3>4. a + b \in 1..(a + b) /\ ~(a + b <= a) /\ (a + b) - a = b
      OBVIOUS
    <3>5. bytes[Len(bytes)] = data[b]
      BY <1>3, <3>1, <3>2, <3>3, <3>4
    <3>6. data[b] = EOX
      BY <1>6, <3>2
    <3> QED
      BY <3>5, <3>6 DEF EOX
  <2>2. EndCut(call, bytes)
    BY <1>4, <1>6
  <2>3. PICK g \in Idle, more \in Seq(Heard) : HearsLast(st, call, g, more, bytes)
    BY <1>5, <2>1, <2>2, EndCutArrives, Zenon
  <2>4. /\ AllArrive(st, call.packets) = [far |-> g, heard |-> more] /\ ~g.inSysex
        /\ BytesOf(more) = BytesOf(before) \o bytes
        /\ NoEnd(before) => \A k \in 1..Len(more) : more[k].tag = "end" => k = Len(more)
    BY <1>5, <2>3, Zenon DEF HearsLast
  <2>5. /\ carry' = call.carry /\ malformed' = call.malformed
        /\ far' \in Idle /\ far'.inSysex = g.inSysex /\ heard' = more
    <3>1. Sends(cont, data, before) /\ call = TxSend(carry, cont, data)
      BY <1>1
    <3>2. AllArrive([far |-> far, heard |-> before], TxSend(carry, cont, data).packets) =
            [far |-> g, heard |-> more]
      BY <1>5, <2>4, <3>1
    <3>3. /\ carry' = TxSend(carry, cont, data).carry
          /\ malformed' = TxSend(carry, cont, data).malformed
          /\ far' \in Idle /\ far'.inSysex = g.inSysex /\ heard' = more
      BY <3>2, SendsEffect
    <3> QED
      BY <3>1, <3>3
  <2>6. call.carry = <<>>
    BY <2>2 DEF EndCut
  <2>7. <<>> \in Seq(Byte) /\ Len(<<>>) <= 2
    BY EmptySeq
  <2>8. BytesOf(more) \o <<>> = BytesOf(before) \o (Kept(carry, mode, data) \o data)
    <3>1. BytesOf(more) \in Seq(Byte)
      BY BytesTyped
    <3> QED
      BY <1>2, <1>3, <2>4, <3>1, ConcatEmptySeq
  <2> QED
    BY <1>4, <1>6, <2>4, <2>5, <2>6, <2>7, <2>8 DEF ChunkSent
<1>7. CASE ~Ends(mode)
  <2>1. MiddleCut(call, bytes)
    BY <1>4, <1>7
  <2>2. PICK g \in Idle, more \in Seq(Heard) : HearsCall(st, call, g, more, bytes)
    BY <1>5, <2>1, MiddleCutArrives, Zenon
  <2>3. call.carry \in Seq(Byte) /\ Len(call.carry) <= 2
    <3>1. before \in Seq(Heard) /\ far \in Idle
      OBVIOUS
    <3> QED
      BY <2>1, <3>1, MiddleCutArrives, Zenon
  <2>4. /\ AllArrive(st, call.packets) = [far |-> g, heard |-> more]
        /\ BytesOf(more) \o call.carry = BytesOf(before) \o bytes
        /\ NoEnd(before) => NoEnd(more)
    BY <1>5, <2>2, Zenon DEF HearsCall
  <2>5. /\ carry' = call.carry /\ malformed' = call.malformed
        /\ far' \in Idle /\ far'.inSysex = g.inSysex /\ heard' = more
    <3>1. Sends(cont, data, before) /\ call = TxSend(carry, cont, data)
      BY <1>1
    <3>2. AllArrive([far |-> far, heard |-> before], TxSend(carry, cont, data).packets) =
            [far |-> g, heard |-> more]
      BY <1>5, <2>4, <3>1
    <3>3. /\ carry' = TxSend(carry, cont, data).carry
          /\ malformed' = TxSend(carry, cont, data).malformed
          /\ far' \in Idle /\ far'.inSysex = g.inSysex /\ heard' = more
      BY <3>2, SendsEffect
    <3> QED
      BY <3>1, <3>3
  <2> QED
    BY <1>2, <1>3, <1>4, <1>7, <2>3, <2>4, <2>5 DEF ChunkSent
<1> QED
  BY <1>6, <1>7

-----------------------------------------------------------------------------
LEMMA NothingHeard == BytesOf(<<>>) = <<>> /\ NoEnd(<<>>) /\ <<>> \in Seq(Heard)
<1>1. [k \in 1..Len(<<>>) |-> (<<>>)[k].data] = <<>>
  OBVIOUS
<1>2. BytesOf(<<>>) = <<>>
  BY <1>1, FlattenEmpty DEF BytesOf
<1> QED
  BY <1>2, EmptySeq DEF NoEnd

LEMMA TxInitHolds == TxInit => TxInv
<1> SUFFICES ASSUME TxInit PROVE TxInv
  OBVIOUS
<1>1. far \in Idle
  <2>1. far = RxInit(PortCable)
    BY DEF TxInit
  <2> QED
    BY <2>1, RxInitTyped, PortAssumption DEF Idle
<1>2. /\ carry = <<>> /\ malformed = FALSE /\ run = <<>> /\ given = 0 /\ runs = 0
      /\ heard = <<>>
  BY DEF TxInit
<1>3. <<>> \in Seq(Byte) /\ Len(<<>>) = 0 /\ <<>> \in Seq(Heard)
  BY EmptySeq
<1>4. MaxRuns \in Nat
  BY PortAssumption
<1>5. TxBase
  <2>1. carry \in Seq(Byte) /\ Len(carry) <= 2 /\ malformed \in BOOLEAN
    <3>1. malformed \in BOOLEAN
      BY <1>2, <1>3, Zenon
    <3>2. Len(<<>>) <= 2
      OBVIOUS
    <3> QED
      BY <1>2, <1>3, <3>1, <3>2
  <2>2. run \in Seq(Byte) /\ run = <<>> /\ given \in 0..Len(run)
    BY <1>2, <1>3
  <2>3. runs \in 0..MaxRuns /\ heard \in Seq(Heard)
    BY <1>2, <1>3, <1>4
  <2> QED
    BY <1>1, <2>1, <2>2, <2>3, Zenon DEF TxBase
<1>6. RunIsWhole
  <2>1. BytesHeard = <<>>
    BY <1>2, NothingHeard DEF BytesHeard, BytesOf
  <2>2. SubSeq(<<>>, 1, 0) = <<>>
    BY SubSeqEmpty
  <2>3. (<<>>) \o (<<>>) = <<>>
    BY <1>3, ConcatEmptySeq
  <2> QED
    BY <1>2, <2>1, <2>2, <2>3 DEF RunIsWhole
<1>7. EndsOnce
  BY <1>2, <1>3 DEF EndsOnce
<1> QED
  BY <1>5, <1>6, <1>7 DEF TxInv

(* After a call for a chunk of the run.                                    *)
LEMMA ChunkKeeps ==
  ASSUME NEW mode, NEW data, NEW before, ChunkSent(mode, data, before), NoEnd(before),
         run' \in Seq(Byte), Len(run') >= 2, run'[1] = SOX, run'[Len(run')] = EOX,
         given' \in 0..Len(run'), runs' \in 0..MaxRuns,
         BytesOf(before) \o (Kept(carry, mode, data) \o data) = SubSeq(run', 1, given'),
         Ends(mode) <=> given' = Len(run')
  PROVE  TxInv'
<1>1. Broken(carry, mode, data) \in BOOLEAN
  BY Zenon DEF Broken, Starts
<1>2. TxBase'
  BY <1>1 DEF ChunkSent, TxBase
<1>3. RunIsWhole'
  <2>1. BytesHeard' = BytesOf(heard')
    BY DEF BytesHeard, BytesOf
  <2>2. BytesHeard' \o carry' = SubSeq(run', 1, given')
    BY <2>1 DEF ChunkSent
  <2>3. given' = Len(run') => carry' = <<>>
    BY DEF ChunkSent
  <2> QED
    BY <2>2, <2>3 DEF RunIsWhole
<1>4. EndsOnce'
  <2>1. CASE Ends(mode)
    <3>1. /\ given' = Len(run') /\ ~far'.inSysex
          /\ \A k \in 1..Len(heard') : heard'[k].tag = "end" => k = Len(heard')
      BY <2>1 DEF ChunkSent
    <3> QED
      BY <3>1 DEF EndsOnce
  <2>2. CASE ~Ends(mode)
    <3>1. \A k \in 1..Len(heard') : heard'[k].tag # "end"
      BY <2>2 DEF ChunkSent, NoEnd
    <3>2. given' # Len(run')
      BY <2>2
    <3>3. given' < Len(run')
      <4>1. PICK l \in Nat : l = Len(run')
        BY LenProperties
      <4>2. PICK g \in 0..l : g = given'
        BY <4>1
      <4>3. g # l => g < l
        OBVIOUS
      <4> QED
        BY <3>2, <4>1, <4>2, <4>3
    <3> QED
      BY <3>1, <3>3 DEF EndsOnce
  <2> QED
    BY <2>1, <2>2
<1> QED
  BY <1>2, <1>3, <1>4 DEF TxInv

(* A piece of a sequence, and what it makes longer.                        *)
LEMMA PieceGiven ==
  ASSUME NEW s \in Seq(Byte), NEW g \in Nat, NEW n \in Nat \ {0}, g + n <= Len(s)
  PROVE  /\ SubSeq(s, g + 1, g + n) \in Seq(Byte) /\ Len(SubSeq(s, g + 1, g + n)) = n
         /\ SubSeq(s, g + 1, g + n)[1] = s[g + 1] /\ SubSeq(s, g + 1, g + n)[n] = s[g + n]
         /\ SubSeq(s, 1, g) \in Seq(Byte)
         /\ SubSeq(s, 1, g) \o SubSeq(s, g + 1, g + n) = SubSeq(s, 1, g + n)
<1>1. PICK l \in Nat : l = Len(s)
  BY LenProperties
<1>2. /\ 1 \in 1..(l + 1) /\ g \in (1 - 1)..l /\ g + n \in g..l /\ g + n >= g + 1
      /\ (g + n) - (g + 1) + 1 = n /\ 1 \in 1..n /\ n \in 1..n
      /\ (g + 1) + 1 - 1 = g + 1 /\ (g + 1) + n - 1 = g + n
  BY <1>1
<1>3. \A i \in 1..l : s[i] \in Byte
  BY <1>1, ElementOfSeq
<1>4. /\ \A i \in (g + 1)..(g + n) : s[i] \in Byte
      /\ \A i \in 1..g : s[i] \in Byte
  BY <1>1, <1>3
<1>5. g + 1 \in Int /\ g + n \in Int /\ g \in Int /\ 1 \in Int
  OBVIOUS
<1>6. /\ SubSeq(s, g + 1, g + n) \in Seq(Byte)
      /\ Len(SubSeq(s, g + 1, g + n)) = IF g + 1 <= g + n THEN (g + n) - (g + 1) + 1 ELSE 0
      /\ \A i \in 1..((g + n) - (g + 1) + 1) : SubSeq(s, g + 1, g + n)[i] = s[(g + 1) + i - 1]
  BY <1>4, <1>5, SubSeqProperties
<1>7. SubSeq(s, 1, g) \in Seq(Byte)
  BY <1>4, <1>5, SubSeqProperties
<1>8. SubSeq(s, 1, g) \o SubSeq(s, g + 1, g + n) = SubSeq(s, 1, g + n)
  <2>1. 1 \in 1..(Len(s) + 1) /\ g \in (1 - 1)..Len(s) /\ g + n \in g..Len(s)
    BY <1>1, <1>2
  <2> QED
    BY <2>1, ConcatAdjacentSubSeq, Zenon
<1> QED
  BY <1>2, <1>6, <1>7, <1>8

-----------------------------------------------------------------------------
(* OMS begins a run.                                                       *)
LEMMA BeginRunKeeps ==
  ASSUME TxInv, NEW len \in 2..MaxRun, NEW n \in 1..4, n <= len, BeginRun(len, n)
  PROVE  TxInv' /\ (malformed' <=> carry # <<>>) /\ runs' # runs
<1>1. /\ carry \in Seq(Byte) /\ Len(carry) <= 2 /\ far \in Idle
      /\ runs \in Nat /\ MaxRuns \in Nat /\ runs < MaxRuns /\ runs' = runs + 1
  BY PortAssumption DEF TxInv, TxBase, BeginRun
<1>2. PICK bytes : bytes = RunOf(runs, len)
  OBVIOUS
<1>3. len \in Nat /\ len >= 2 /\ n \in Nat \ {0}
  BY PortAssumption
<1>4. bytes \in Seq(Byte) /\ Len(bytes) = len /\ bytes[1] = SOX /\ bytes[len] = EOX
  BY <1>1, <1>2, <1>3, RunTyped
<1>5. run' = bytes /\ given' = n
  BY <1>2 DEF BeginRun
<1>6. PICK data : data = SubSeq(bytes, 1, n)
  OBVIOUS
<1>7. data \in Seq(Byte) /\ Len(data) = n /\ data[1] = SOX /\ data[n] = bytes[n]
  <2>1. 0 + n <= Len(bytes) /\ 0 + 1 = 1 /\ 0 + n = n
    BY <1>3, <1>4
  <2> QED
    BY <1>3, <1>4, <1>6, <2>1, PieceGiven
<1>8. PICK mode : mode = IF n = len THEN "whole" ELSE "start"
  OBVIOUS
<1>9. n = len => data = bytes
  BY <1>4, <1>6, SubSeqFull
<1>10. Sends(IF n = len THEN "none" ELSE "start", data, <<>>)
  BY <1>2, <1>6, <1>9 DEF BeginRun
<1>11. TxSend(carry, IF n = len THEN "none" ELSE "start", data) = Chunk(carry, mode, data)
  <2>1. data # <<>>
    BY <1>3, <1>7
  <2>2. CASE n = len
    BY <1>7, <1>8, <2>1, <2>2 DEF TxSend
  <2>3. CASE n # len
    BY <1>8, <2>3 DEF TxSend
  <2> QED
    BY <2>2, <2>3
<1>12. /\ Starts(mode) /\ (Ends(mode) <=> n = len)
       /\ (Broken(carry, mode, data) <=> carry # <<>>)
  <2>1. data # <<>>
    BY <1>3, <1>7
  <2> QED
    BY <1>7, <1>8, <2>1 DEF Starts, Ends, Broken
<1>13. Ends(mode) => data[Len(data)] = EOX
  BY <1>4, <1>7, <1>12
<1>14. ~Refused(mode, data)
  <2>1. CASE n = len
    <3>1. Last(data) = EOX
      BY <1>4, <1>7, <2>1 DEF Last
    <3>2. Len(data) \in 1..4 /\ ~(Len(data) < 2)
      BY <1>3, <1>7, <2>1
    <3> QED
      BY <3>1, <3>2 DEF Refused
  <2>2. CASE n # len
    BY <1>7, <1>8, <2>2 DEF Refused
  <2> QED
    BY <2>1, <2>2
<1>15. ChunkSent(mode, data, <<>>)
  <2>1. Len(data) \in 1..4
    BY <1>7
  <2> QED
    BY <1>1, <1>7, <1>10, <1>11, <1>13, <1>14, <2>1, NothingHeard, SendsChunk
<1>16. BytesOf(<<>>) \o (Kept(carry, mode, data) \o data) = SubSeq(run', 1, given')
  <2>1. Kept(carry, mode, data) = <<>>
    BY <1>12 DEF Kept
  <2>2. <<>> \o data = data
    BY <1>7, ConcatEmptySeq
  <2> QED
    BY <1>5, <1>6, <2>1, <2>2, NothingHeard
<1>17. given' \in 0..Len(run') /\ (Ends(mode) <=> given' = Len(run'))
  BY <1>3, <1>4, <1>5, <1>12
<1>18. runs' \in 0..MaxRuns /\ runs' # runs
  BY <1>1
<1>19. malformed' <=> carry # <<>>
  BY <1>12, <1>15 DEF ChunkSent
<1>20. TxInv'
  BY <1>3, <1>4, <1>5, <1>15, <1>16, <1>17, <1>18, NothingHeard, ChunkKeeps
<1> QED
  BY <1>18, <1>19, <1>20

(* OMS sends more of it.                                                   *)
LEMMA ContinueRunKeeps ==
  ASSUME TxInv, NEW n \in 1..4, ContinueRun(n)
  PROVE  TxInv' /\ ~malformed' /\ runs' = runs
<1>1. /\ carry \in Seq(Byte) /\ Len(carry) <= 2 /\ far \in Idle /\ heard \in Seq(Heard)
      /\ run \in Seq(Byte) /\ runs \in 0..MaxRuns /\ given \in Nat
      /\ run # <<>> /\ Len(run) >= 2 /\ run[1] = SOX /\ run[Len(run)] = EOX
      /\ given + n <= Len(run)
  <2>1. PICK l : l = Len(run)
    OBVIOUS
  <2> QED
    BY <2>1 DEF TxInv, TxBase, ContinueRun
<1>2. run' = run /\ runs' = runs /\ given' = given + n
  BY DEF ContinueRun
<1>3. PICK data : data = SubSeq(run, given + 1, given + n)
  OBVIOUS
<1>4. /\ data \in Seq(Byte) /\ Len(data) = n /\ data[n] = run[given + n]
      /\ SubSeq(run, 1, given) \in Seq(Byte)
      /\ SubSeq(run, 1, given) \o data = SubSeq(run, 1, given + n)
  <2>1. n \in Nat \ {0}
    OBVIOUS
  <2> QED
    BY <1>1, <1>3, <2>1, PieceGiven
<1>5. PICK mode : mode = IF given + n = Len(run) THEN "end" ELSE "mid"
  OBVIOUS
<1>6. Sends(mode, data, heard)
  BY <1>3, <1>5 DEF ContinueRun
<1>7. TxSend(carry, mode, data) = Chunk(carry, mode, data)
  BY <1>5 DEF TxSend
<1>8. /\ ~Starts(mode) /\ (Ends(mode) <=> given + n = Len(run))
      /\ ~Broken(carry, mode, data) /\ Kept(carry, mode, data) = carry
  BY <1>5 DEF Starts, Ends, Broken, Kept
<1>9. Len(data) \in 1..4 /\ ~Refused(mode, data)
  BY <1>4, <1>5 DEF Refused
<1>10. Ends(mode) => data[Len(data)] = EOX
  BY <1>1, <1>4, <1>8
<1>11. ChunkSent(mode, data, heard)
  BY <1>1, <1>4, <1>6, <1>7, <1>9, <1>10, SendsChunk
<1>12. NoEnd(heard)
  <2>1. PICK l \in Nat : l = Len(run)
    BY <1>1, LenProperties
  <2>2. given # Len(run)
    BY <1>1, <2>1
  <2> QED
    BY <2>2 DEF TxInv, EndsOnce, NoEnd
<1>13. BytesOf(heard) \o (Kept(carry, mode, data) \o data) = SubSeq(run', 1, given')
  <2>1. BytesHeard = BytesOf(heard)
    BY DEF BytesHeard, BytesOf
  <2>2. BytesOf(heard) \o carry = SubSeq(run, 1, given)
    BY <2>1 DEF TxInv, RunIsWhole
  <2>3. PICK said \in Seq(Byte) : said = BytesOf(heard)
    BY <1>1, BytesTyped
  <2>4. (said \o carry) \o data = said \o (carry \o data)
    <3>1. carry \in Seq(Byte) /\ data \in Seq(Byte)
      BY <1>1, <1>4
    <3> QED
      BY <3>1, ConcatAssociative, SMTT(60)
  <2> QED
    BY <1>2, <1>4, <1>8, <2>2, <2>3, <2>4
<1>14. given' \in 0..Len(run') /\ (Ends(mode) <=> given' = Len(run'))
  <2>1. PICK l \in Nat : l = Len(run)
    BY <1>1, LenProperties
  <2>2. given + n \in 0..l
    BY <1>1, <2>1
  <2> QED
    BY <1>2, <1>8, <2>1, <2>2
<1>15. ~malformed'
  BY <1>8, <1>11 DEF ChunkSent
<1>16. TxInv'
  BY <1>1, <1>2, <1>11, <1>12, <1>13, <1>14, ChunkKeeps
<1> QED
  BY <1>2, <1>15, <1>16

(* A clock tick: one packet, which is no part of the run.                  *)
TickData == <<\hF8>>

LEMMA TickSent ==
  ASSUME NEW old
  PROVE  \E p \in WirePacket :
           /\ TxSend(old, "none", TickData) =
                [carry |-> old, malformed |-> FALSE, packets |-> <<p>>]
           /\ Decode(p).cable = PortCable /\ Decode(p).cin = 5 /\ Carried(p) = TickData
<1>1. /\ TickData \in Seq(Byte) /\ Len(TickData) = 1 /\ TickData[1] = \hF8
      /\ TickData # <<>>
  <2>1. 248 \in Byte
    BY DEF Byte
  <2> QED
    BY <2>1 DEF TickData
<1>2. \hF8 \in SingleByte /\ \hF8 \notin ChannelVoice /\ \hF8 \notin {\hF1, \hF3} /\ \hF8 # \hF2
  BY DEF SingleByte, ChannelVoice
<1>3. HasCin(\hF8) /\ NeedForStatus(\hF8) = 1 /\ CinForStatus(\hF8) = 5
  BY <1>2 DEF HasCin, NeedForStatus, CinForStatus
<1>4. \hF8 # SOX /\ \hF8 # EOX
  BY DEF SOX, EOX
<1>5. PICK p \in WirePacket : /\ p = Build(PortCable, 5, TickData) /\ Decode(p).cable = PortCable
                              /\ Decode(p).cin = 5 /\ Carried(p) = TickData
  <2>1. 5 \in 0..15 /\ Len(TickData) = DataLength(5)
    BY <1>1 DEF DataLength, CinLengths
  <2> HIDE DEF TickData
  <2>2. PICK b : b = Build(PortCable, 5, TickData)
    OBVIOUS
  <2>3. /\ b \in WirePacket /\ Decode(b).cable = PortCable
        /\ Decode(b).cin = 5 /\ Carried(b) = TickData
    BY <1>1, <2>1, <2>2, BuildDecode, PortAssumption
  <2> QED
    BY <2>2, <2>3
<1> HIDE DEF TickData
<1>6. PacketsOf(PortCable, TickData) = <<p>>
  BY <1>1, <1>3, <1>4, <1>5 DEF PacketsOf, Encode
<1>7. Sendable(PortCable, TickData)
  <2>1. PortCable <= MaxCable /\ PortCable \in 0..MaxCable
    BY PortAssumption DEF MaxCable
  <2>2. Encodable(PortCable, TickData)
    BY <1>1, <1>3, <2>1 DEF Encodable
  <2> QED
    BY <1>1, <1>4, <2>1, <2>2 DEF Sendable
<1>8. Len(<<p>>) = 1 /\ Len(<<p>>) <= 2
  OBVIOUS
<1>9. TxMessage(PortCable, TickData, 2) = <<p>>
  BY <1>6, <1>7, <1>8 DEF TxMessage
<1>10. TxSend(old, "none", TickData) = Message(old, TickData)
  BY <1>1, <1>4 DEF TxSend
<1>11. Len(TickData) \in 1..3
  BY <1>1
<1>12. Message(old, TickData) = [carry |-> old, malformed |-> FALSE, packets |-> <<p>>]
  BY <1>8, <1>9, <1>11 DEF Message
<1>14. TxSend(old, "none", TickData) = [carry |-> old, malformed |-> FALSE, packets |-> <<p>>]
  BY <1>10, <1>12, Zenon
<1> QED
  BY <1>5, <1>14, Zenon

LEMMA SendTickKeeps ==
  ASSUME TxInv, SendTick
  PROVE  TxInv' /\ ~malformed' /\ runs' = runs
<1>1. run' = run /\ given' = given /\ runs' = runs /\ Sends("none", TickData, heard)
  BY DEF SendTick, TickData
<1>2. far \in Idle /\ heard \in Seq(Heard)
  BY DEF TxInv, TxBase
<1>12. PICK call : call = TxSend(carry, "none", TickData)
  OBVIOUS
<1>13. PICK p \in WirePacket :
         /\ TxSend(carry, "none", TickData) =
              [carry |-> carry, malformed |-> FALSE, packets |-> <<p>>]
         /\ Decode(p).cable = PortCable /\ Decode(p).cin = 5 /\ Carried(p) = TickData
  BY TickSent, Zenon
<1>3. /\ call.carry = carry /\ call.malformed = FALSE /\ call.packets = <<p>>
      /\ Decode(p).cable = PortCable /\ Decode(p).cin = 5 /\ Carried(p) = TickData
  BY <1>12, <1>13
<1>4. 5 \notin {CinMisc, CinCableEvent, CinSysExStart, CinSysExEnd1, CinSysExEnd2, CinSysExEnd3}
  BY DEF CinMisc, CinCableEvent, CinSysExStart, CinSysExEnd1, CinSysExEnd2, CinSysExEnd3
<1>5. RxInSysex(far, Decode(p)) = far.inSysex
  BY <1>3, <1>4 DEF RxInSysex
<1>6. PICK g \in Idle, message \in Heard :
        /\ Arrives([far |-> far, heard |-> heard], p) =
             [far |-> g, heard |-> IF Carried(p) = <<\hF8>> THEN heard ELSE Append(heard, message)]
        /\ g.inSysex = RxInSysex(far, Decode(p))
  <2>1. Decode(p).cin \notin {CinMisc, CinCableEvent} /\ Decode(p).cable = PortCable
    BY <1>3, <1>4
  <2> QED
    BY <1>2, <2>1, OneArrives, ZenonT(30)
<1>7. AllArrive([far |-> far, heard |-> heard], call.packets) = [far |-> g, heard |-> heard]
  <2>1. Carried(p) = <<\hF8>>
    BY <1>3 DEF TickData
  <2>2. Arrives([far |-> far, heard |-> heard], p) = [far |-> g, heard |-> heard]
    BY <1>6, <2>1
  <2> QED
    BY <1>3, <2>2, OneArrival
<1>8. /\ carry' = carry /\ ~malformed' /\ malformed' = call.malformed
      /\ far' \in Idle /\ far'.inSysex = far.inSysex /\ heard' = heard
  <2>1. Sends("none", TickData, heard) /\ call = TxSend(carry, "none", TickData)
    BY <1>1, <1>12
  <2>2. AllArrive([far |-> far, heard |-> heard], TxSend(carry, "none", TickData).packets) =
          [far |-> g, heard |-> heard]
    BY <1>7, <2>1
  <2>3. /\ carry' = TxSend(carry, "none", TickData).carry
        /\ malformed' = TxSend(carry, "none", TickData).malformed
        /\ far' \in Idle /\ far'.inSysex = g.inSysex /\ heard' = heard
    BY <2>1, <2>2, SendsEffect
  <2> QED
    BY <1>3, <1>5, <1>6, <2>1, <2>3
<1>9. malformed' \in BOOLEAN
  BY <1>3, <1>8
<1>10. TxBase'
  BY <1>1, <1>2, <1>8, <1>9 DEF TxInv, TxBase
<1>11. RunIsWhole' /\ EndsOnce'
  <2>1. BytesHeard' = BytesHeard
    BY <1>8 DEF BytesHeard
  <2> QED
    BY <1>1, <1>8, <2>1 DEF TxInv, RunIsWhole, EndsOnce
<1> QED
  BY <1>1, <1>8, <1>10, <1>11 DEF TxInv

(* The port is reset.                                                      *)
LEMMA ResetPortKeeps ==
  ASSUME TxInv, ResetPort
  PROVE  TxInv' /\ ~malformed' /\ runs' = runs
<1>1. /\ carry' = <<>> /\ malformed' = FALSE /\ run' = <<>> /\ given' = 0 /\ heard' = <<>>
      /\ runs' = runs /\ far' = far
  BY DEF ResetPort
<1>2. <<>> \in Seq(Byte) /\ Len(<<>>) = 0 /\ <<>> \in Seq(Heard)
  BY EmptySeq
<1>3. far \in Idle /\ runs \in 0..MaxRuns
  BY DEF TxInv, TxBase
<1>4. TxBase'
  <2>1. carry' \in Seq(Byte) /\ Len(carry') <= 2 /\ malformed' \in BOOLEAN
    <3>1. malformed' \in BOOLEAN
      BY <1>1, <1>2, Zenon
    <3>2. Len(<<>>) <= 2
      OBVIOUS
    <3> QED
      BY <1>1, <1>2, <3>1, <3>2
  <2>2. run' \in Seq(Byte) /\ run' = <<>>
    BY <1>1, <1>2
  <2>4. given' \in 0..Len(run')
    <3>1. Len(run') = 0
      BY <1>1, <1>2
    <3>2. given' = 0
      BY <1>1
    <3> QED
      BY <3>1, <3>2
  <2>3. runs' \in 0..MaxRuns /\ heard' \in Seq(Heard) /\ far' \in Idle
    BY <1>1, <1>2, <1>3
  <2> QED
    BY <2>1, <2>2, <2>3, <2>4, Zenon DEF TxBase
<1>5. RunIsWhole'
  <2>1. BytesHeard' = BytesOf(heard')
    BY DEF BytesHeard, BytesOf
  <2>2. SubSeq(<<>>, 1, 0) = <<>>
    BY SubSeqEmpty
  <2>3. (<<>>) \o (<<>>) = <<>>
    BY <1>2, ConcatEmptySeq
  <2> QED
    BY <1>1, <2>1, <2>2, <2>3, NothingHeard DEF RunIsWhole
<1>6. EndsOnce'
  BY <1>1, <1>2 DEF EndsOnce
<1> QED
  BY <1>1, <1>4, <1>5, <1>6 DEF TxInv

(* The invariant, and the action property at the same time.                *)
LEMMA TxStep ==
  ASSUME TxInv, TxNext
  PROVE  TxInv' /\ (malformed' <=> carry # <<>> /\ runs' # runs)
<1>1. ASSUME NEW len \in 2..MaxRun, NEW n \in 1..4, n <= len, BeginRun(len, n)
      PROVE  TxInv' /\ (malformed' <=> carry # <<>> /\ runs' # runs)
  BY <1>1, BeginRunKeeps
<1>2. ASSUME NEW n \in 1..4, ContinueRun(n)
      PROVE  TxInv' /\ (malformed' <=> carry # <<>> /\ runs' # runs)
  BY <1>2, ContinueRunKeeps
<1>3. CASE SendTick
  BY <1>3, SendTickKeeps
<1>4. CASE ResetPort
  BY <1>4, ResetPortKeeps
<1> QED
  BY <1>1, <1>2, <1>3, <1>4 DEF TxNext

LEMMA TxInvariant == TxSpec => []TxInv
<1>1. TxInv /\ UNCHANGED txVars => TxInv'
  <2> SUFFICES ASSUME TxInv, UNCHANGED txVars PROVE TxInv'
    OBVIOUS
  <2>1. /\ carry' = carry /\ malformed' = malformed /\ run' = run /\ given' = given
        /\ runs' = runs /\ far' = far /\ heard' = heard
    BY DEF txVars
  <2> QED
    BY <2>1 DEF TxInv, TxBase, RunIsWhole, EndsOnce, BytesHeard
<1>2. TxInv /\ [TxNext]_txVars => TxInv'
  BY <1>1, TxStep
<1> QED
  BY <1>2, TxInitHolds, PTL DEF TxSpec

(* The send hook's state is well typed: it never carries more than two     *)
(* bytes from one call to the next, so the six bytes of the buffer in      *)
(* oms_tx_sysex_chunk are enough, whatever chunks OMS hands over.          *)
THEOREM TxTypeCorrect == TxSpec => []TxTypeOK
<1>1. TxInv => TxTypeOK
  <2> SUFFICES ASSUME TxInv PROVE TxTypeOK
    OBVIOUS
  <2>1. far.inSysex \in BOOLEAN /\ far.count = 0
    BY StreamFields DEF TxInv, TxBase, Idle
  <2>2. ASSUME NEW k \in 1..Len(heard)
        PROVE  heard[k].tag \in Tags /\ Len(heard[k].data) \in 1..3
    <3>1. heard[k] \in Heard
      BY ElementOfSeq DEF TxInv, TxBase
    <3> QED
      BY <3>1 DEF Heard, MessageType
  <2> QED
    BY <2>1, <2>2 DEF TxInv, TxBase, TxTypeOK
<1> QED
  BY <1>1, TxInvariant, PTL

(* Every run reaches the far end whole and in order, whatever chunks OMS   *)
(* cuts it into, and no byte of a run given up is in the next one.         *)
THEOREM RunsArriveWhole == TxSpec => []RunIsWhole
<1>1. TxInv => RunIsWhole
  BY DEF TxInv
<1> QED
  BY <1>1, TxInvariant, PTL

(* The far end hears the end of a run when, and only when, OMS has given   *)
(* all of it.                                                              *)
THEOREM RunsEndOnce == TxSpec => []EndsOnce
<1>1. TxInv => EndsOnce
  BY DEF TxInv
<1> QED
  BY <1>1, TxInvariant, PTL

(* A call is counted as malformed exactly when it gives up bytes carried   *)
(* from the run before.                                                    *)
THEOREM DropsAreCounted == TxSpec => DropIsCounted
<1>1. TxInv /\ [TxNext]_txVars => [malformed' <=> carry # <<>> /\ runs' # runs]_txVars
  BY TxStep
<1> QED
  BY <1>1, TxInvariant, PTL DEF TxSpec, DropIsCounted
====
