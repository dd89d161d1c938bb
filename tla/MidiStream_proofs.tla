------------------------- MODULE MidiStream_proofs -------------------------
(***************************************************************************)
(* Lemmas about the packet codec (Packets) and the stream converter        *)
(* (MidiStream), for every queue size, cable and message: that decoding    *)
(* undoes building, what a packet does to a receive stream, and that the   *)
(* packets of a SysEx run carry its bytes.                                 *)
(***************************************************************************)
EXTENDS MidiStream, SequenceLemmas

-----------------------------------------------------------------------------
(* The packet codec.                                                       *)

(* The MIDI bytes of a packet.                                             *)
Carried(buf) == SubSeq(Decode(buf).data, 1, Decode(buf).length)
WirePacket == {buf \in Seq(Byte) : Len(buf) = 4}

LEMMA TripleIsSeq ==
  ASSUME NEW T, NEW f \in [1..3 -> T]
  PROVE  f \in Seq(T) /\ Len(f) = 3
<1>1. f \in Seq(T)
  BY SeqDef
<1> QED
  BY <1>1, LenProperties

LEMMA DataLengths ==
  ASSUME NEW cin \in 0..15
  PROVE  /\ DataLength(cin) \in 0..3
         /\ cin \notin {CinMisc, CinCableEvent} => DataLength(cin) \in 1..3
         /\ DataLength(CinMisc) = 0 /\ DataLength(CinCableEvent) = 1
         /\ DataLength(CinSysExStart) = 3 /\ DataLength(CinSysExEnd1) = 1
         /\ DataLength(CinSysExEnd2) = 2 /\ DataLength(CinSysExEnd3) = 3
BY DEF DataLength, CinLengths, CinMisc, CinCableEvent, CinSysExStart, CinSysExEnd1,
       CinSysExEnd2, CinSysExEnd3

(* A received packet, whatever its bytes.                                  *)
LEMMA DecodeTyped ==
  ASSUME NEW buf \in WirePacket
  PROVE  /\ Decode(buf).cable \in 0..MaxCable
         /\ Decode(buf).cin \in 0..15
         /\ Decode(buf).length = DataLength(Decode(buf).cin)
         /\ Decode(buf).data \in Seq(Byte) /\ Len(Decode(buf).data) = 3
         /\ \A k \in 1..3 : Decode(buf).data[k] = buf[k + 1]
<1>1. buf \in Seq(Byte) /\ Len(buf) = 4
  BY DEF WirePacket
<1>2. \A i \in 1..4 : buf[i] \in Byte
  BY <1>1, ElementOfSeq
<1>3. buf[1] \div 16 \in 0..15 /\ buf[1] % 16 \in 0..15
  BY <1>2 DEF Byte
<1>4. /\ SubSeq(buf, 2, 4) \in Seq(Byte)
      /\ Len(SubSeq(buf, 2, 4)) = 3
      /\ \A i \in 1..3 : SubSeq(buf, 2, 4)[i] = buf[2 + i - 1]
  <2>1. \A i \in 2..4 : buf[i] \in Byte
    BY <1>2
  <2>2. /\ SubSeq(buf, 2, 4) \in Seq(Byte)
        /\ Len(SubSeq(buf, 2, 4)) = IF 2 <= 4 THEN 4 - 2 + 1 ELSE 0
        /\ \A i \in 1..(4 - 2 + 1) : SubSeq(buf, 2, 4)[i] = buf[2 + i - 1]
    BY <2>1, SubSeqProperties
  <2> QED
    BY <2>2
<1>5. \A k \in 1..3 : 2 + k - 1 = k + 1
  OBVIOUS
<1> QED
  BY <1>3, <1>4, <1>5 DEF Decode, MaxCable

(* The data of a packet that is no system event: one to three bytes.       *)
LEMMA CarriedTyped ==
  ASSUME NEW buf \in WirePacket
  PROVE  /\ Carried(buf) \in Seq(Byte)
         /\ Len(Carried(buf)) = DataLength(Decode(buf).cin)
         /\ \A k \in 1..DataLength(Decode(buf).cin) : Carried(buf)[k] = Decode(buf).data[k]
<1> DEFINE data == Decode(buf).data
           n == Decode(buf).length
<1>1. /\ data \in Seq(Byte) /\ Len(data) = 3 /\ n \in 0..3
      /\ n = DataLength(Decode(buf).cin)
  BY DecodeTyped, DataLengths
<1> HIDE DEF data, n
<1>2. \A i \in 1..n : data[i] \in Byte
  <2>1. \A i \in 1..Len(data) : data[i] \in Byte
    BY <1>1, ElementOfSeq
  <2> QED
    BY <1>1, <2>1
<1>3. /\ SubSeq(data, 1, n) \in Seq(Byte)
      /\ Len(SubSeq(data, 1, n)) = IF 1 <= n THEN n - 1 + 1 ELSE 0
      /\ \A i \in 1..(n - 1 + 1) : SubSeq(data, 1, n)[i] = data[1 + i - 1]
  BY <1>1, <1>2, SubSeqProperties
<1>4. n - 1 + 1 = n /\ \A i \in 1..n : 1 + i - 1 = i
  BY <1>1
<1>5. /\ SubSeq(data, 1, n) \in Seq(Byte) /\ Len(SubSeq(data, 1, n)) = n
      /\ \A i \in 1..n : SubSeq(data, 1, n)[i] = data[i]
  BY <1>1, <1>3, <1>4
<1> QED
  BY <1>1, <1>5 DEF Carried, data, n

(* Decoding undoes building.                                               *)
LEMMA BuildDecode ==
  ASSUME NEW cable \in 0..MaxCable, NEW cin \in 0..15, NEW data \in Seq(Byte),
         Len(data) = DataLength(cin)
  PROVE  /\ Build(cable, cin, data) \in WirePacket
         /\ Decode(Build(cable, cin, data)).cable = cable
         /\ Decode(Build(cable, cin, data)).cin = cin
         /\ Carried(Build(cable, cin, data)) = data
<1> DEFINE first == cable * 16 + cin
           rest == [k \in 1..3 |-> IF k <= Len(data) THEN data[k] ELSE 0]
           buf == <<first>> \o rest
<1>1. first \in Byte /\ first \div 16 = cable /\ first % 16 = cin
  BY DEF Byte, MaxCable
<1>2. Len(data) \in 0..3 /\ \A k \in 1..Len(data) : data[k] \in Byte
  BY DataLengths, ElementOfSeq
<1>3. rest \in [1..3 -> Byte]
  BY <1>2 DEF Byte
<1>4. rest \in Seq(Byte) /\ Len(rest) = 3
  BY <1>3, TripleIsSeq
<1>5. \A k \in 1..Len(data) : rest[k] = data[k]
  BY <1>2
<1> HIDE DEF first, rest
<1>6. <<first>> \in Seq(Byte) /\ Len(<<first>>) = 1 /\ <<first>>[1] = first
  BY <1>1
<1>7. /\ buf \in Seq(Byte) /\ Len(buf) = Len(<<first>>) + Len(rest)
      /\ \A i \in 1..(Len(<<first>>) + Len(rest)) :
           buf[i] = IF i <= Len(<<first>>) THEN <<first>>[i] ELSE rest[i - Len(<<first>>)]
  <2>1. <<first>> \in Seq(Byte) /\ rest \in Seq(Byte)
    BY <1>4, <1>6
  <2> QED
    BY <2>1, ConcatProperties
<1>8. Build(cable, cin, data) = buf
  BY DEF Build, first, rest
<1> HIDE DEF buf
<1>9. buf \in WirePacket /\ buf[1] = first /\ \A k \in 1..3 : buf[k + 1] = rest[k]
  BY <1>4, <1>6, <1>7 DEF WirePacket
<1>10. Decode(buf).cable = cable /\ Decode(buf).cin = cin
  BY <1>1, <1>9 DEF Decode
<1>11. \A k \in 1..Len(data) : Carried(buf)[k] = data[k]
  BY <1>2, <1>5, <1>9, <1>10, DecodeTyped, CarriedTyped
<1>12. Carried(buf) \in Seq(Byte) /\ Len(Carried(buf)) = Len(data)
  BY <1>9, <1>10, CarriedTyped
<1>13. Carried(buf) = data
  BY <1>11, <1>12, SeqEqual
<1> QED
  BY <1>8, <1>9, <1>10, <1>13

-----------------------------------------------------------------------------
(* The receive stream.                                                     *)
MidiBytes == {data \in Seq(Byte) : Len(data) <= 3}
MessageType == [data : MidiBytes, tag : Tags]
StatsType == [packets : Nat, messages : Nat, misc : Nat, cable : Nat,
              full : Nat, misroute : Nat, badStart : Nat, noEox : Nat]
Places == 0..(QueueSize - 1)
StreamType == [cable : 0..MaxCable, inSysex : BOOLEAN, head : Places,
               count : 0..QueueSize, pending : [Places -> MessageType], stats : StatsType]

(* The messages that wait, oldest first.                                   *)
Queue(s) == [k \in 1..s.count |-> s.pending[(s.head + k - 1) % QueueSize]]

(* Everything that became of the packets fed.                              *)
Outcomes(st) == st.misc + st.cable + st.misroute + st.full

(* A place in the queue, wrap-around included.                             *)
LEMMA Wraps ==
  ASSUME NEW h \in Places, NEW k \in 0..QueueSize
  PROVE  /\ (h + k) % QueueSize \in Places
         /\ (h + k) % QueueSize = IF h + k < QueueSize THEN h + k ELSE h + k - QueueSize
<1> DEFINE Q == QueueSize
<1>1. Q \in Nat \ {0}
  BY QueueAssumption
<1>2. \A x \in Nat, q \in Int, r \in 0..(Q - 1) : x = q * Q + r => x % Q = r
  <2> HIDE DEF Q
  <2> QED
    BY <1>1, SMT
<1>3. CASE h + k < Q
  <2>1. h + k \in Nat /\ h + k \in 0..(Q - 1) /\ h + k = 0 * Q + (h + k)
    BY <1>1, <1>3 DEF Places
  <2>2. (h + k) % Q = h + k
    BY <1>2, <2>1
  <2> QED
    BY <1>3, <2>1, <2>2 DEF Places
<1>4. CASE ~(h + k < Q)
  <2>1. h + k \in Nat /\ h + k - Q \in 0..(Q - 1) /\ h + k = 1 * Q + (h + k - Q)
    BY <1>1, <1>4 DEF Places
  <2>2. (h + k) % Q = h + k - Q
    BY <1>2, <2>1
  <2> QED
    BY <1>4, <2>1, <2>2 DEF Places
<1> QED
  BY <1>3, <1>4

LEMMA CarriedBounded ==
  ASSUME NEW buf \in WirePacket
  PROVE  /\ Carried(buf) \in MidiBytes
         /\ Decode(buf).cin \notin {CinMisc, CinCableEvent} => Len(Carried(buf)) \in 1..3
<1>1. PICK cin \in 0..15 : cin = Decode(buf).cin
  BY DecodeTyped
<1>2. DataLength(cin) \in 0..3 /\ (cin \notin {CinMisc, CinCableEvent} => DataLength(cin) \in 1..3)
  BY DataLengths
<1>3. Carried(buf) \in Seq(Byte) /\ Len(Carried(buf)) = DataLength(cin)
  BY <1>1, CarriedTyped
<1> QED
  BY <1>1, <1>2, <1>3 DEF MidiBytes

LEMMA StreamFields ==
  ASSUME NEW s \in StreamType
  PROVE  /\ s.cable \in 0..MaxCable /\ s.inSysex \in BOOLEAN /\ s.head \in Places
         /\ s.count \in 0..QueueSize /\ s.pending \in [Places -> MessageType]
         /\ s.stats \in StatsType
BY DEF StreamType

LEMMA QueueTyped ==
  ASSUME NEW s \in StreamType
  PROVE  Queue(s) \in Seq(MessageType) /\ Len(Queue(s)) = s.count
<1>1. s.count \in Nat
  BY QueueAssumption, StreamFields
<1>2. \A k \in 1..s.count : s.pending[(s.head + k - 1) % QueueSize] \in MessageType
  <2> TAKE k \in 1..s.count
  <2>1. k - 1 \in 0..QueueSize /\ s.head + (k - 1) = s.head + k - 1
    BY <1>1, QueueAssumption, StreamFields DEF Places
  <2>2. (s.head + (k - 1)) % QueueSize \in Places
    BY <2>1, Wraps, StreamFields
  <2> QED
    BY <2>1, <2>2, StreamFields
<1>3. Queue(s) \in [1..s.count -> MessageType]
  BY <1>2 DEF Queue
<1>4. Queue(s) \in Seq(MessageType)
  BY <1>1, <1>3, IsASeq
<1> QED
  BY <1>1, <1>3, <1>4, LenProperties

LEMMA QueueKept ==
  ASSUME NEW s, NEW t, t.head = s.head, t.count = s.count, t.pending = s.pending
  PROVE  Queue(t) = Queue(s)
BY DEF Queue

(* A message that is stored is the newest of the queue: its place is none  *)
(* of those in use.                                                        *)
LEMMA QueueGrows ==
  ASSUME NEW s \in StreamType, NEW t \in StreamType, NEW message \in MessageType,
         s.count < QueueSize, t.head = s.head, t.count = s.count + 1,
         t.pending = [s.pending EXCEPT ![(s.head + s.count) % QueueSize] = message]
  PROVE  Queue(t) = Append(Queue(s), message)
<1> DEFINE q == Append(Queue(s), message)
           Place(k) == (s.head + k) % QueueSize
<1>1. s.count \in Nat /\ QueueSize \in Nat \ {0} /\ s.head \in Places
  BY QueueAssumption, StreamFields
<1>2. /\ Queue(s) \in Seq(MessageType) /\ Len(Queue(s)) = s.count
      /\ Queue(t) \in Seq(MessageType) /\ Len(Queue(t)) = s.count + 1
  BY QueueTyped
<1>3. /\ q \in Seq(MessageType) /\ Len(q) = s.count + 1
      /\ \A k \in 1..s.count : q[k] = Queue(s)[k]
      /\ q[s.count + 1] = message
  BY <1>2, AppendProperties
<1>4. \A k \in 1..(s.count + 1) : Queue(t)[k] = t.pending[(s.head + k - 1) % QueueSize]
  BY DEF Queue
<1>5. \A k \in 1..s.count : Queue(s)[k] = s.pending[(s.head + k - 1) % QueueSize]
  BY DEF Queue
<1>6. \A k \in 0..s.count : Place(k) \in Places /\ (k # s.count => Place(k) # Place(s.count))
  <2> TAKE k \in 0..s.count
  <2>1. k \in 0..QueueSize /\ s.count \in 0..QueueSize
    BY <1>1
  <2>2. /\ Place(k) \in Places
        /\ Place(k) = IF s.head + k < QueueSize THEN s.head + k ELSE s.head + k - QueueSize
        /\ Place(s.count) = IF s.head + s.count < QueueSize THEN s.head + s.count
                                                        ELSE s.head + s.count - QueueSize
    BY <1>1, <2>1, Wraps
  <2> HIDE DEF Place
  <2>3. s.head \in 0..(QueueSize - 1)
    BY <1>1 DEF Places
  <2> QED
    BY <1>1, <2>2, <2>3
<1>7. t.pending = [s.pending EXCEPT ![Place(s.count)] = message] /\ s.pending \in [Places -> MessageType]
  BY StreamFields
<1> HIDE DEF q
<1>8. ASSUME NEW k \in 1..(s.count + 1) PROVE Queue(t)[k] = q[k]
  <2>1. k - 1 \in 0..s.count /\ s.head + k - 1 = s.head + (k - 1)
    BY <1>1 DEF Places
  <2>2. Queue(t)[k] = t.pending[Place(k - 1)]
    BY <1>4, <2>1
  <2>3. CASE k = s.count + 1
    <3>1. k - 1 = s.count /\ Place(s.count) \in Places
      BY <1>1, <1>6, <2>3
    <3> HIDE DEF Place
    <3> QED
      BY <1>3, <1>7, <2>2, <2>3, <3>1
  <2>4. CASE k # s.count + 1
    <3>1. k \in 1..s.count /\ k - 1 # s.count
      BY <1>1, <2>4
    <3>2. Queue(s)[k] = s.pending[Place(k - 1)]
      BY <1>5, <2>1, <3>1
    <3> HIDE DEF Place
    <3>3. Place(k - 1) # Place(s.count) /\ Place(k - 1) \in Places
      BY <1>6, <2>1, <3>1
    <3> QED
      BY <1>3, <1>7, <2>2, <3>1, <3>2, <3>3
  <2> QED
    BY <2>3, <2>4
<1>9. Queue(t) = q
  BY <1>2, <1>3, <1>8, SeqEqual
<1> QED
  BY <1>9 DEF q

(* um9_rx_message takes the oldest message and leaves the others.          *)
LEMMA QueueTaken ==
  ASSUME NEW s \in StreamType, s.count > 0
  PROVE  /\ RxTaken(s) \in StreamType
         /\ RxOldest(s) \in MessageType
         /\ Queue(s) = <<RxOldest(s)>> \o Queue(RxTaken(s))
<1>1. /\ s.count \in 1..QueueSize /\ QueueSize \in Nat \ {0} /\ s.head \in Places
      /\ s.pending \in [Places -> MessageType] /\ s.stats \in StatsType
  BY QueueAssumption, StreamFields
<1>2. PICK h \in Places : h = (s.head + 1) % QueueSize
  <2>1. 1 \in 0..QueueSize
    BY <1>1
  <2> QED
    BY <1>1, <2>1, Wraps
<1>3. h = IF s.head + 1 < QueueSize THEN s.head + 1 ELSE s.head + 1 - QueueSize
  <2>1. 1 \in 0..QueueSize
    BY <1>1
  <2> QED
    BY <1>1, <1>2, <2>1, Wraps
<1>4. PICK st \in StatsType : st = [s.stats EXCEPT !.messages = @ + 1]
  <2>1. [s.stats EXCEPT !.messages = @ + 1] \in StatsType
    BY <1>1 DEF StatsType
  <2> QED
    BY <2>1
<1>5. PICK t : t = RxTaken(s)
  OBVIOUS
<1>6. t = [s EXCEPT !.head = h, !.count = s.count - 1, !.stats = st]
  BY <1>2, <1>4, <1>5 DEF RxTaken
<1>7. /\ t \in StreamType /\ t.head = h /\ t.count = s.count - 1 /\ t.pending = s.pending
  <2>1. s.count - 1 \in 0..QueueSize
    BY <1>1
  <2> QED
    BY <1>6, <2>1 DEF StreamType
<1>8. RxOldest(s) \in MessageType
  BY <1>1 DEF RxOldest
<1> DEFINE one == <<RxOldest(s)>>
           q == one \o Queue(t)
<1>9. one \in Seq(MessageType) /\ Len(one) = 1 /\ one[1] = s.pending[s.head]
  BY <1>8 DEF RxOldest
<1>10. /\ Queue(s) \in Seq(MessageType) /\ Len(Queue(s)) = s.count
       /\ Queue(t) \in Seq(MessageType) /\ Len(Queue(t)) = s.count - 1
  BY <1>7, QueueTyped
<1> HIDE DEF one
<1>11. /\ q \in Seq(MessageType) /\ Len(q) = s.count
       /\ q[1] = s.pending[s.head]
       /\ \A k \in 2..s.count : q[k] = Queue(t)[k - 1]
  <2>1. one \in Seq(MessageType) /\ Queue(t) \in Seq(MessageType)
    BY <1>9, <1>10
  <2>2. /\ q \in Seq(MessageType) /\ Len(q) = Len(one) + Len(Queue(t))
        /\ \A i \in 1..(Len(one) + Len(Queue(t))) :
             q[i] = IF i <= Len(one) THEN one[i] ELSE Queue(t)[i - Len(one)]
    BY <2>1, ConcatProperties
  <2> HIDE DEF q
  <2>3. Len(one) = 1 /\ Len(Queue(t)) = s.count - 1 /\ Len(one) + Len(Queue(t)) = s.count
    BY <1>1, <1>9, <1>10
  <2>4. \A i \in 1..s.count : q[i] = IF i <= 1 THEN one[i] ELSE Queue(t)[i - 1]
    BY <2>2, <2>3
  <2> QED
    BY <1>1, <1>9, <2>2, <2>3, <2>4
<1>12. \A k \in 1..s.count : Queue(s)[k] = s.pending[(s.head + k - 1) % QueueSize]
  BY DEF Queue
<1>13. \A k \in 1..(s.count - 1) : Queue(t)[k] = s.pending[(h + k - 1) % QueueSize]
  BY <1>7 DEF Queue
<1> HIDE DEF q
<1>14. ASSUME NEW k \in 1..s.count PROVE Queue(s)[k] = q[k]
  <2>1. /\ k - 1 \in 0..QueueSize /\ s.head + k - 1 = s.head + (k - 1)
        /\ s.head \in 0..(QueueSize - 1) /\ h \in 0..(QueueSize - 1)
    BY <1>1 DEF Places
  <2>2. (s.head + (k - 1)) % QueueSize =
          IF s.head + (k - 1) < QueueSize THEN s.head + (k - 1) ELSE s.head + (k - 1) - QueueSize
    BY <1>1, <2>1, Wraps
  <2>3. CASE k = 1
    <3>1. (s.head + (k - 1)) % QueueSize = s.head
      BY <1>1, <2>1, <2>2, <2>3
    <3> QED
      BY <1>11, <1>12, <2>1, <2>3, <3>1
  <2>4. CASE k # 1
    <3>1. k \in 2..s.count /\ k - 1 \in 1..(s.count - 1) /\ k - 2 \in 0..QueueSize
          /\ h + (k - 1) - 1 = h + (k - 2)
      BY <1>1, <2>1, <2>4
    <3>2. (h + (k - 2)) % QueueSize =
            IF h + (k - 2) < QueueSize THEN h + (k - 2) ELSE h + (k - 2) - QueueSize
      BY <1>2, <3>1, Wraps
    <3>3. (h + (k - 2)) % QueueSize = (s.head + (k - 1)) % QueueSize
      BY <1>1, <1>3, <2>1, <2>2, <3>1, <3>2
    <3>4. Queue(t)[k - 1] = s.pending[(h + (k - 2)) % QueueSize]
      BY <1>13, <3>1
    <3>5. Queue(s)[k] = s.pending[(s.head + (k - 1)) % QueueSize]
      BY <1>12, <2>1
    <3> QED
      BY <1>11, <3>1, <3>3, <3>4, <3>5
  <2> QED
    BY <2>3, <2>4
<1>15. Queue(s) = q
  BY <1>10, <1>11, <1>14, SeqEqual
<1> QED
  BY <1>5, <1>7, <1>8, <1>15 DEF q, one

-----------------------------------------------------------------------------
(* What a packet does to a stream: counts.                                 *)
SameCounts(u, v) ==
  u.messages = v.messages /\ u.misc = v.misc /\ u.cable = v.cable /\ u.misroute = v.misroute

(* um9_rx_enqueue: the message is the newest, or the drop is counted.      *)
Stored(t, s, message) ==
  IF s.count < QueueSize
  THEN t.count = s.count + 1 /\ t.stats.full = s.stats.full
       /\ Queue(t) = Append(Queue(s), message)
  ELSE t.count = s.count /\ t.stats.full = s.stats.full + 1 /\ Queue(t) = Queue(s)

Enqueued(t, s, message) ==
  /\ t \in StreamType /\ t.cable = s.cable /\ t.inSysex = s.inSysex
  /\ t.stats.packets = s.stats.packets /\ SameCounts(t.stats, s.stats)
  /\ Stored(t, s, message)

LEMMA EnqueueEffect ==
  ASSUME NEW s \in StreamType, NEW message \in MessageType
  PROVE  Enqueued(RxEnqueue(s, message), s, message)
<1>1. /\ s.count \in 0..QueueSize /\ QueueSize \in Nat \ {0} /\ s.head \in Places
      /\ s.pending \in [Places -> MessageType] /\ s.stats \in StatsType
  BY QueueAssumption, StreamFields
<1>2. PICK t : t = RxEnqueue(s, message)
  OBVIOUS
<1>3. CASE s.count < QueueSize
  <2>1. PICK p \in Places : p = (s.head + s.count) % QueueSize
    BY <1>1, Wraps
  <2>2. PICK pending \in [Places -> MessageType] : pending = [s.pending EXCEPT ![p] = message]
    BY <1>1
  <2>3. t = [s EXCEPT !.pending = pending, !.count = s.count + 1]
    BY <1>1, <1>2, <1>3, <2>1, <2>2 DEF RxEnqueue
  <2>4. s.count + 1 \in 0..QueueSize
    BY <1>1, <1>3
  <2>5. /\ t \in StreamType /\ t.cable = s.cable /\ t.inSysex = s.inSysex /\ t.head = s.head
        /\ t.count = s.count + 1 /\ t.pending = pending /\ t.stats = s.stats
    BY <2>3, <2>4 DEF StreamType
  <2>6. Queue(t) = Append(Queue(s), message)
    BY <1>3, <2>1, <2>2, <2>5, QueueGrows
  <2> QED
    BY <1>2, <1>3, <2>5, <2>6 DEF Enqueued, Stored, SameCounts
<1>4. CASE ~(s.count < QueueSize)
  <2>1. PICK st \in StatsType : st = [s.stats EXCEPT !.full = @ + 1]
    <3>1. [s.stats EXCEPT !.full = @ + 1] \in StatsType
      BY <1>1 DEF StatsType
    <3> QED
      BY <3>1
  <2>2. /\ st.full = s.stats.full + 1 /\ st.packets = s.stats.packets
        /\ SameCounts(st, s.stats)
    BY <1>1, <2>1 DEF StatsType, SameCounts
  <2>3. t = [s EXCEPT !.stats = st]
    BY <1>1, <1>2, <1>4, <2>1 DEF RxEnqueue
  <2>4. /\ t \in StreamType /\ t.cable = s.cable /\ t.inSysex = s.inSysex /\ t.head = s.head
        /\ t.count = s.count /\ t.pending = s.pending /\ t.stats = st
    BY <2>3 DEF StreamType
  <2>5. Queue(t) = Queue(s)
    BY <2>4, QueueKept
  <2> QED
    BY <1>2, <1>4, <2>2, <2>4, <2>5 DEF Enqueued, Stored
<1> QED
  BY <1>3, <1>4

(* um9_rx_packet: every packet becomes a message or is counted as dropped. *)
Arrived(s, buf) == [data |-> Carried(buf), tag |-> RxTag(s, Decode(buf))]
NotOurs(s, pkt) == pkt.cable # s.cable \/ pkt.cin \in {CinMisc, CinCableEvent}

Fed(t, s, buf) ==
  /\ t \in StreamType /\ t.cable = s.cable
  /\ t.stats.packets = s.stats.packets + 1 /\ t.stats.messages = s.stats.messages
  /\ IF NotOurs(s, Decode(buf))
     THEN /\ t.inSysex = s.inSysex /\ t.count = s.count /\ Queue(t) = Queue(s)
          /\ t.stats.full = s.stats.full
          /\ Outcomes(t.stats) = Outcomes(s.stats) + 1
     ELSE /\ t.inSysex = RxInSysex(s, Decode(buf))
          /\ Stored(t, s, Arrived(s, buf))
          /\ Outcomes(t.stats) + t.count = Outcomes(s.stats) + s.count + 1

LEMMA StatsFields ==
  ASSUME NEW st \in StatsType
  PROVE  /\ st.packets \in Nat /\ st.messages \in Nat /\ st.misc \in Nat /\ st.cable \in Nat
         /\ st.full \in Nat /\ st.misroute \in Nat /\ st.badStart \in Nat /\ st.noEox \in Nat
BY DEF StatsType

(* One more packet in one of the counts of drops.                          *)
MoreBy(u, st) ==
  /\ u \in StatsType
  /\ u.packets = st.packets /\ u.messages = st.messages /\ u.full = st.full
  /\ Outcomes(u) = Outcomes(st) + 1

LEMMA OneMore ==
  ASSUME NEW st \in StatsType
  PROVE  /\ \E u \in StatsType : u = [st EXCEPT !.misroute = @ + 1] /\ MoreBy(u, st)
         /\ \E u \in StatsType : u = [st EXCEPT !.misc = @ + 1] /\ MoreBy(u, st)
         /\ \E u \in StatsType : u = [st EXCEPT !.cable = @ + 1] /\ MoreBy(u, st)
<1>1. PICK u : u = [st EXCEPT !.misroute = @ + 1]
  OBVIOUS
<1>2. PICK v : v = [st EXCEPT !.misc = @ + 1]
  OBVIOUS
<1>3. PICK w : w = [st EXCEPT !.cable = @ + 1]
  OBVIOUS
<1>4. MoreBy(u, st)
  BY <1>1, StatsFields DEF StatsType, MoreBy, Outcomes
<1>5. MoreBy(v, st)
  BY <1>2, StatsFields DEF StatsType, MoreBy, Outcomes
<1>6. MoreBy(w, st)
  BY <1>3, StatsFields DEF StatsType, MoreBy, Outcomes
<1>7. u \in StatsType /\ v \in StatsType /\ w \in StatsType
  BY <1>4, <1>5, <1>6 DEF MoreBy
<1> QED
  BY <1>1, <1>2, <1>3, <1>4, <1>5, <1>6, <1>7

(* Counting a malformed run: two more counts, no other.                    *)
LEMMA Suspects ==
  ASSUME NEW st \in StatsType, NEW a \in Nat, NEW b \in Nat
  PROVE  \E u \in StatsType :
           /\ u = [st EXCEPT !.badStart = @ + a, !.noEox = @ + b]
           /\ u.packets = st.packets /\ SameCounts(u, st) /\ u.full = st.full
<1>1. PICK x \in Nat : x = st.badStart + a
  BY StatsFields
<1>2. PICK y \in Nat : y = st.noEox + b
  BY StatsFields
<1>3. PICK v : v = [st EXCEPT !.badStart = x]
  OBVIOUS
<1>4. v \in StatsType /\ v.packets = st.packets /\ SameCounts(v, st) /\ v.full = st.full
  BY <1>3 DEF StatsType, SameCounts
<1>5. PICK u : u = [v EXCEPT !.noEox = y]
  OBVIOUS
<1>6. u \in StatsType /\ u.packets = v.packets /\ SameCounts(u, v) /\ u.full = v.full
  BY <1>4, <1>5 DEF StatsType, SameCounts
<1>7. u = [st EXCEPT !.badStart = @ + a, !.noEox = @ + b]
  BY <1>1, <1>2, <1>3, <1>5 DEF StatsType
<1> QED
  BY <1>4, <1>6, <1>7 DEF SameCounts

LEMMA TagTyped ==
  ASSUME NEW s \in StreamType, NEW pkt
  PROVE  RxTag(s, pkt) \in Tags /\ RxInSysex(s, pkt) \in BOOLEAN
<1>1. s.inSysex \in BOOLEAN
  BY StreamFields
<1> QED
  BY <1>1 DEF RxTag, RxInSysex, Tags, CinSysExStart, CinSysExEnd1, CinSysExEnd2, CinSysExEnd3

LEMMA AcceptEffect ==
  ASSUME NEW s \in StreamType, NEW buf \in WirePacket,
         Decode(buf).cin \notin {CinMisc, CinCableEvent}
  PROVE  LET t == RxAccept(s, Decode(buf)) IN
         /\ t \in StreamType /\ t.cable = s.cable
         /\ t.inSysex = RxInSysex(s, Decode(buf))
         /\ t.stats.packets = s.stats.packets /\ SameCounts(t.stats, s.stats)
         /\ Stored(t, s, Arrived(s, buf))
<1> DEFINE pkt == Decode(buf)
           data == SubSeq(pkt.data, 1, pkt.length)
           badStart == pkt.cin = CinSysExStart /\ ~s.inSysex /\ data[1] # SOX
           noEox == pkt.cin \in {CinSysExEnd1, CinSysExEnd2, CinSysExEnd3} /\ Last(data) # EOX
<1>1. s.stats \in StatsType /\ s.inSysex \in BOOLEAN
  BY StreamFields
<1>2. PICK a \in Nat : a = IF badStart THEN 1 ELSE 0
  OBVIOUS
<1>3. PICK b \in Nat : b = IF noEox THEN 1 ELSE 0
  OBVIOUS
<1>4. PICK inside \in BOOLEAN : inside = RxInSysex(s, pkt)
  BY TagTyped
<1>5. PICK message : message = [data |-> data, tag |-> RxTag(s, pkt)]
  OBVIOUS
<1>6. message \in MessageType /\ message = Arrived(s, buf)
  <2>1. data = Carried(buf)
    BY DEF Carried
  <2> HIDE DEF data, pkt
  <2>2. Carried(buf) \in MidiBytes
    BY CarriedBounded
  <2>3. RxTag(s, pkt) \in Tags
    BY TagTyped
  <2> QED
    BY <1>5, <2>1, <2>2, <2>3 DEF MessageType, Arrived, pkt
<1>7. PICK counted : counted = [s EXCEPT !.inSysex = inside,
                                         !.stats.badStart = @ + a, !.stats.noEox = @ + b]
  OBVIOUS
<1>8. RxAccept(s, Decode(buf)) = RxEnqueue(counted, message)
  BY <1>2, <1>3, <1>4, <1>5, <1>7 DEF RxAccept
<1> HIDE DEF pkt, data, badStart, noEox
<1>9. PICK st \in StatsType :
        /\ st = [s.stats EXCEPT !.badStart = @ + a, !.noEox = @ + b]
        /\ st.packets = s.stats.packets /\ SameCounts(st, s.stats) /\ st.full = s.stats.full
  BY <1>1, Suspects
<1>10. counted = [s EXCEPT !.inSysex = inside, !.stats = st]
  BY <1>7, <1>9 DEF StreamType
<1>11. /\ counted \in StreamType /\ counted.cable = s.cable /\ counted.inSysex = inside
       /\ counted.head = s.head /\ counted.count = s.count /\ counted.pending = s.pending
       /\ counted.stats = st
  BY <1>10 DEF StreamType
<1>12. Queue(counted) = Queue(s)
  BY <1>11, QueueKept
<1>13. PICK t : t = RxEnqueue(counted, message)
  OBVIOUS
<1>14. Enqueued(t, counted, message)
  BY <1>6, <1>11, <1>13, EnqueueEffect
<1>15. /\ t \in StreamType /\ t.cable = s.cable /\ t.inSysex = inside
       /\ t.stats.packets = s.stats.packets /\ SameCounts(t.stats, s.stats)
  BY <1>9, <1>11, <1>14 DEF Enqueued, SameCounts
<1>16. Stored(t, s, message)
  BY <1>9, <1>11, <1>12, <1>14 DEF Enqueued, Stored
<1> QED
  BY <1>4, <1>6, <1>8, <1>13, <1>15, <1>16 DEF pkt

LEMMA PacketEffect ==
  ASSUME NEW s \in StreamType, NEW buf \in WirePacket
  PROVE  Fed(RxPacket(s, buf), s, buf)
<1> DEFINE pkt == Decode(buf)
<1>1. s.stats \in StatsType /\ s.count \in Nat
  BY QueueAssumption, StreamFields
<1>2. PICK st \in StatsType :
        /\ st = [s.stats EXCEPT !.packets = @ + 1]
        /\ st.packets = s.stats.packets + 1 /\ SameCounts(st, s.stats) /\ st.full = s.stats.full
  <2>1. PICK u : u = [s.stats EXCEPT !.packets = @ + 1]
    OBVIOUS
  <2>2. u \in StatsType
    BY <1>1, <2>1 DEF StatsType
  <2>3. u.packets = s.stats.packets + 1 /\ SameCounts(u, s.stats) /\ u.full = s.stats.full
    BY <1>1, <2>1 DEF StatsType, SameCounts
  <2> QED
    BY <2>1, <2>2, <2>3
<1>3. PICK fed : fed = [s EXCEPT !.stats.packets = @ + 1]
  OBVIOUS
<1>4. fed = [s EXCEPT !.stats = st]
  BY <1>2, <1>3 DEF StreamType
<1>5. /\ fed \in StreamType /\ fed.cable = s.cable /\ fed.inSysex = s.inSysex
      /\ fed.head = s.head /\ fed.count = s.count /\ fed.pending = s.pending /\ fed.stats = st
  BY <1>4 DEF StreamType
<1>6. Queue(fed) = Queue(s)
  BY <1>5, QueueKept
<1>7. PICK t : t = RxPacket(s, buf)
  OBVIOUS
<1>8. CinMisc # CinCableEvent
  BY DEF CinMisc, CinCableEvent
<1>9. ASSUME NotOurs(s, pkt) PROVE Fed(t, s, buf)
  <2>1. PICK u \in StatsType :
          /\ t = [fed EXCEPT !.stats = u]
          /\ MoreBy(u, st)
    <3>1. CASE pkt.cable # s.cable
      <4>1. t = [fed EXCEPT !.stats.misroute = @ + 1]
        BY <1>3, <1>7, <3>1 DEF RxPacket
      <4>2. PICK u \in StatsType :
              /\ u = [st EXCEPT !.misroute = @ + 1]
              /\ MoreBy(u, st)
        BY <1>2, OneMore
      <4>3. t = [fed EXCEPT !.stats = u]
        BY <1>5, <4>1, <4>2 DEF StreamType
      <4> QED
        BY <4>2, <4>3
    <3>2. CASE pkt.cable = s.cable /\ pkt.cin = CinMisc
      <4>1. t = [fed EXCEPT !.stats.misc = @ + 1]
        BY <1>3, <1>7, <1>8, <3>2 DEF RxPacket
      <4>2. PICK u \in StatsType :
              /\ u = [st EXCEPT !.misc = @ + 1]
              /\ MoreBy(u, st)
        BY <1>2, OneMore
      <4>3. t = [fed EXCEPT !.stats = u]
        BY <1>5, <4>1, <4>2 DEF StreamType
      <4> QED
        BY <4>2, <4>3
    <3>3. CASE pkt.cable = s.cable /\ pkt.cin = CinCableEvent
      <4>1. t = [fed EXCEPT !.stats.cable = @ + 1]
        BY <1>3, <1>7, <1>8, <3>3 DEF RxPacket
      <4>2. PICK u \in StatsType :
              /\ u = [st EXCEPT !.cable = @ + 1]
              /\ MoreBy(u, st)
        BY <1>2, OneMore
      <4>3. t = [fed EXCEPT !.stats = u]
        BY <1>5, <4>1, <4>2 DEF StreamType
      <4> QED
        BY <4>2, <4>3
    <3> QED
      BY <1>9, <3>1, <3>2, <3>3 DEF NotOurs
  <2>2. /\ t \in StreamType /\ t.cable = s.cable /\ t.inSysex = s.inSysex
        /\ t.head = s.head /\ t.count = s.count /\ t.pending = s.pending /\ t.stats = u
    BY <1>5, <2>1 DEF StreamType
  <2>3. Queue(t) = Queue(s)
    BY <2>2, QueueKept
  <2>4. Outcomes(st) = Outcomes(s.stats)
    BY <1>2 DEF Outcomes, SameCounts
  <2> QED
    BY <1>2, <1>9, <2>1, <2>2, <2>3, <2>4 DEF Fed, SameCounts, MoreBy
<1>10. ASSUME ~NotOurs(s, pkt) PROVE Fed(t, s, buf)
  <2>1. pkt.cable = s.cable /\ pkt.cin # CinMisc /\ pkt.cin # CinCableEvent
    BY <1>10 DEF NotOurs
  <2>2. t = RxAccept(fed, pkt)
    BY <1>3, <1>7, <2>1 DEF RxPacket
  <2>3. /\ t \in StreamType /\ t.cable = s.cable
        /\ t.inSysex = RxInSysex(fed, pkt)
        /\ t.stats.packets = st.packets /\ SameCounts(t.stats, st)
        /\ Stored(t, fed, Arrived(fed, buf))
    BY <1>5, <2>1, <2>2, AcceptEffect
  <2>4. RxInSysex(fed, pkt) = RxInSysex(s, pkt) /\ Arrived(fed, buf) = Arrived(s, buf)
    BY <1>5 DEF RxInSysex, Arrived, RxTag
  <2>5. Stored(t, s, Arrived(s, buf))
    BY <1>2, <1>5, <1>6, <2>3, <2>4 DEF Stored
  <2>6. t.stats \in StatsType /\ t.count \in Nat
    BY <2>3, QueueAssumption, StreamFields
  <2>7. Outcomes(t.stats) + t.count = Outcomes(s.stats) + s.count + 1
    <3>1. /\ t.stats.misc = s.stats.misc /\ t.stats.cable = s.stats.cable
          /\ t.stats.misroute = s.stats.misroute
      BY <1>2, <2>3 DEF SameCounts
    <3>2. \/ t.count = s.count + 1 /\ t.stats.full = s.stats.full
          \/ t.count = s.count /\ t.stats.full = s.stats.full + 1
      BY <2>5 DEF Stored
    <3> QED
      BY <1>1, <2>6, <3>1, <3>2, StatsFields DEF Outcomes
  <2> QED
    BY <1>2, <1>10, <2>3, <2>4, <2>5, <2>7 DEF Fed, SameCounts
<1> QED
  BY <1>7, <1>9, <1>10

-----------------------------------------------------------------------------
(* What um9_tx_message cuts a message into.                                *)
CarriedAll(packets) == [k \in 1..Len(packets) |-> Carried(packets[k])]

LEMMA CarriedAllTyped ==
  ASSUME NEW packets \in Seq(WirePacket)
  PROVE  /\ CarriedAll(packets) \in Seq(Seq(Byte))
         /\ Len(CarriedAll(packets)) = Len(packets)
         /\ \A k \in 1..Len(packets) : CarriedAll(packets)[k] = Carried(packets[k])
<1>1. Len(packets) \in Nat /\ \A k \in 1..Len(packets) : packets[k] \in WirePacket
  BY LenProperties, ElementOfSeq
<1>2. CarriedAll(packets) \in [1..Len(packets) -> Seq(Byte)]
  BY <1>1, CarriedTyped DEF CarriedAll
<1>3. CarriedAll(packets) \in Seq(Seq(Byte))
  BY <1>1, <1>2, IsASeq
<1> QED
  BY <1>1, <1>2, <1>3, LenProperties DEF CarriedAll

LEMMA CarriedAllConcat ==
  ASSUME NEW p \in Seq(WirePacket), NEW q \in Seq(WirePacket)
  PROVE  CarriedAll(p \o q) = CarriedAll(p) \o CarriedAll(q)
<1> DEFINE u == CarriedAll(p \o q)
           v == CarriedAll(p) \o CarriedAll(q)
<1>1. /\ p \o q \in Seq(WirePacket) /\ Len(p \o q) = Len(p) + Len(q)
      /\ \A i \in 1..(Len(p) + Len(q)) : (p \o q)[i] = IF i <= Len(p) THEN p[i] ELSE q[i - Len(p)]
      /\ Len(p) \in Nat /\ Len(q) \in Nat
  BY ConcatProperties, LenProperties
<1>2. /\ u \in Seq(Seq(Byte)) /\ Len(u) = Len(p) + Len(q)
      /\ \A k \in 1..(Len(p) + Len(q)) : u[k] = Carried((p \o q)[k])
  BY <1>1, CarriedAllTyped
<1>3. /\ CarriedAll(p) \in Seq(Seq(Byte)) /\ Len(CarriedAll(p)) = Len(p)
      /\ CarriedAll(q) \in Seq(Seq(Byte)) /\ Len(CarriedAll(q)) = Len(q)
      /\ \A k \in 1..Len(p) : CarriedAll(p)[k] = Carried(p[k])
      /\ \A k \in 1..Len(q) : CarriedAll(q)[k] = Carried(q[k])
  BY CarriedAllTyped
<1>4. /\ v \in Seq(Seq(Byte)) /\ Len(v) = Len(p) + Len(q)
      /\ \A i \in 1..(Len(p) + Len(q)) :
           v[i] = IF i <= Len(p) THEN CarriedAll(p)[i] ELSE CarriedAll(q)[i - Len(p)]
  <2> DEFINE cp == CarriedAll(p)
             cq == CarriedAll(q)
  <2>1. cp \in Seq(Seq(Byte)) /\ cq \in Seq(Seq(Byte)) /\ Len(cp) = Len(p) /\ Len(cq) = Len(q)
    BY <1>3
  <2> HIDE DEF cp, cq
  <2>2. /\ cp \o cq \in Seq(Seq(Byte)) /\ Len(cp \o cq) = Len(cp) + Len(cq)
        /\ \A i \in 1..(Len(cp) + Len(cq)) :
             (cp \o cq)[i] = IF i <= Len(cp) THEN cp[i] ELSE cq[i - Len(cp)]
    BY <2>1, ConcatProperties
  <2>3. v = cp \o cq
    BY DEF cp, cq
  <2> HIDE DEF v
  <2> QED
    BY <2>1, <2>2, <2>3 DEF cp, cq
<1> HIDE DEF u, v
<1>5. ASSUME NEW i \in 1..(Len(p) + Len(q)) PROVE u[i] = v[i]
  <2>1. CASE i <= Len(p)
    <3>1. i \in 1..Len(p)
      BY <1>1, <2>1
    <3>2. u[i] = Carried(p[i])
      BY <1>1, <1>2, <2>1
    <3>3. v[i] = CarriedAll(p)[i]
      BY <1>4, <2>1
    <3> QED
      BY <1>3, <3>1, <3>2, <3>3
  <2>2. CASE ~(i <= Len(p))
    <3>1. i - Len(p) \in 1..Len(q)
      BY <1>1, <2>2
    <3>2. u[i] = Carried(q[i - Len(p)])
      BY <1>1, <1>2, <2>2
    <3>3. v[i] = CarriedAll(q)[i - Len(p)]
      BY <1>4, <2>2
    <3> QED
      BY <1>3, <3>1, <3>2, <3>3
  <2> QED
    BY <2>1, <2>2
<1>6. u = v
  BY <1>2, <1>4, <1>5, SeqEqual
<1> QED
  BY <1>6 DEF u, v

(* Three bytes a packet, one to three in the last.                         *)
LEMMA RunCount ==
  ASSUME NEW len \in Nat, len >= 2
  PROVE  /\ RunPacketCount(len) \in Nat \ {0}
         /\ len - 3 * (RunPacketCount(len) - 1) \in 1..3
         /\ RunPacketCount(len) = 1 => len \in 2..3
BY DEF RunPacketCount

LEMMA EndLength ==
  ASSUME NEW n \in 1..3
  PROVE  /\ EndCin(n) \in {CinSysExEnd1, CinSysExEnd2, CinSysExEnd3}
         /\ EndCin(n) \in 0..15 /\ DataLength(EndCin(n)) = n
BY DEF EndCin, CinSysExEnd1, CinSysExEnd2, CinSysExEnd3, DataLength, CinLengths

IsRunOf(packets, cable, msg) ==
  LET n == Len(packets)
      rest == Len(msg) - 3 * (n - 1)
  IN  /\ packets \in Seq(WirePacket) /\ n \in Nat \ {0} /\ rest \in 1..3
      /\ \A k \in 1..n : Decode(packets[k]).cable = cable
      /\ \A k \in 1..(n - 1) :
           /\ Decode(packets[k]).cin = CinSysExStart
           /\ Carried(packets[k]) = SubSeq(msg, 3 * k - 2, 3 * k)
      /\ Decode(packets[n]).cin = EndCin(rest)
      /\ Carried(packets[n]) = SubSeq(msg, 3 * (n - 1) + 1, Len(msg))

LEMMA RunCut ==
  ASSUME NEW cable \in 0..MaxCable, NEW msg \in Seq(Byte), Len(msg) >= 2
  PROVE  IsRunOf(RunPackets(cable, msg), cable, msg)
<1> DEFINE len == Len(msg)
           n == RunPacketCount(len)
           rest == len - 3 * (n - 1)
           packets == RunPackets(cable, msg)
<1>1. len \in Nat /\ len >= 2 /\ \A i \in 1..len : msg[i] \in Byte
  BY LenProperties, ElementOfSeq
<1>2. n \in Nat \ {0} /\ rest \in 1..3
  BY <1>1, RunCount
<1>3. packets = [k \in 1..n |->
         IF k < n THEN Build(cable, CinSysExStart, SubSeq(msg, 3 * k - 2, 3 * k))
         ELSE Build(cable, EndCin(rest), SubSeq(msg, len - rest + 1, len))]
  BY DEF RunPackets
<1> HIDE DEF n, packets, len
<1>4. ASSUME NEW k \in 1..n, k < n
      PROVE  /\ packets[k] \in WirePacket /\ Decode(packets[k]).cable = cable
             /\ Decode(packets[k]).cin = CinSysExStart
             /\ Carried(packets[k]) = SubSeq(msg, 3 * k - 2, 3 * k)
  <2> DEFINE data == SubSeq(msg, 3 * k - 2, 3 * k)
  <2>1. 3 * k - 2 \in Int /\ 3 * k \in Int /\ 3 * k - (3 * k - 2) + 1 = 3
        /\ \A i \in (3 * k - 2)..(3 * k) : i \in 1..len
    BY <1>1, <1>2, <1>4
  <2>2. \A i \in (3 * k - 2)..(3 * k) : msg[i] \in Byte
    BY <1>1, <2>1
  <2>3. data \in Seq(Byte) /\ Len(data) = 3
    <3>1. /\ SubSeq(msg, 3 * k - 2, 3 * k) \in Seq(Byte)
          /\ Len(SubSeq(msg, 3 * k - 2, 3 * k)) =
               IF 3 * k - 2 <= 3 * k THEN 3 * k - (3 * k - 2) + 1 ELSE 0
      BY <2>1, <2>2, SubSeqProperties
    <3> QED
      BY <2>1, <3>1
  <2>4. packets[k] = Build(cable, CinSysExStart, data)
    BY <1>3, <1>4
  <2> HIDE DEF data
  <2>5. CinSysExStart \in 0..15 /\ Len(data) = DataLength(CinSysExStart)
    BY <2>3, DataLengths DEF CinSysExStart
  <2>6. PICK cin \in 0..15 : cin = CinSysExStart
    BY <2>5
  <2>7. /\ Build(cable, cin, data) \in WirePacket
        /\ Decode(Build(cable, cin, data)).cable = cable
        /\ Decode(Build(cable, cin, data)).cin = cin
        /\ Carried(Build(cable, cin, data)) = data
    <3>1. Len(data) = DataLength(cin)
      BY <2>5, <2>6
    <3> QED
      BY <2>3, <3>1, BuildDecode
  <2> QED
    BY <2>4, <2>6, <2>7 DEF data
<1>5. /\ packets[n] \in WirePacket /\ Decode(packets[n]).cable = cable
      /\ Decode(packets[n]).cin = EndCin(rest)
      /\ Carried(packets[n]) = SubSeq(msg, len - rest + 1, len)
  <2> DEFINE data == SubSeq(msg, len - rest + 1, len)
  <2>0. 3 * (n - 1) \in Nat /\ rest <= len
    BY <1>1, <1>2
  <2> HIDE DEF rest
  <2>1. len - rest + 1 \in Int /\ len \in Int /\ len - (len - rest + 1) + 1 = rest
        /\ len - rest + 1 <= len
        /\ \A i \in (len - rest + 1)..len : i \in 1..len
    BY <1>1, <1>2, <2>0
  <2>2. \A i \in (len - rest + 1)..len : msg[i] \in Byte
    BY <1>1, <2>1
  <2>3. data \in Seq(Byte) /\ Len(data) = rest
    <3>1. /\ SubSeq(msg, len - rest + 1, len) \in Seq(Byte)
          /\ Len(SubSeq(msg, len - rest + 1, len)) =
               IF len - rest + 1 <= len THEN len - (len - rest + 1) + 1 ELSE 0
      BY <2>1, <2>2, SubSeqProperties
    <3> QED
      BY <2>1, <3>1
  <2>4. packets[n] = Build(cable, EndCin(rest), data)
    BY <1>2, <1>3
  <2> HIDE DEF data
  <2>5. EndCin(rest) \in 0..15 /\ Len(data) = DataLength(EndCin(rest))
    BY <1>2, <2>3, EndLength
  <2>6. /\ packets[n] \in WirePacket /\ Decode(packets[n]).cable = cable
        /\ Decode(packets[n]).cin = EndCin(rest) /\ Carried(packets[n]) = data
    BY <2>3, <2>4, <2>5, BuildDecode, SMTT(30)
  <2> QED
    BY <2>6 DEF data
<1>6. \A k \in 1..n : k < n \/ k = n
  BY <1>2
<1>7. packets \in Seq(WirePacket) /\ Len(packets) = n
  <2>1. packets \in [1..n -> WirePacket]
    BY <1>3, <1>4, <1>5, <1>6
  <2>2. packets \in Seq(WirePacket)
    BY <1>2, <2>1, IsASeq
  <2> QED
    BY <1>2, <2>1, <2>2, LenProperties
<1>8. len - rest + 1 = 3 * (n - 1) + 1
  BY <1>1, <1>2
<1>9. \A k \in 1..(n - 1) : k \in 1..n /\ k < n
  BY <1>2
<1>10. /\ \A k \in 1..n : Decode(packets[k]).cable = cable
       /\ \A k \in 1..(n - 1) : Decode(packets[k]).cin = CinSysExStart
                                /\ Carried(packets[k]) = SubSeq(msg, 3 * k - 2, 3 * k)
  BY <1>4, <1>5, <1>6, <1>9
<1> HIDE DEF rest
<1>11. IsRunOf(packets, cable, msg)
  BY <1>2, <1>5, <1>7, <1>8, <1>10 DEF IsRunOf, len, rest
<1> QED
  BY <1>11 DEF packets

(* The bytes of the first k chunks are the first 3k bytes of the message.  *)
LEMMA RunKeepsBytes ==
  ASSUME NEW cable, NEW msg \in Seq(Byte), NEW packets, IsRunOf(packets, cable, msg)
  PROVE  FlattenSeq(CarriedAll(packets)) = msg
<1> DEFINE n == Len(packets)
           len == Len(msg)
           ss == CarriedAll(packets)
<1>1. /\ packets \in Seq(WirePacket) /\ n \in Nat \ {0} /\ len - 3 * (n - 1) \in 1..3
      /\ \A k \in 1..(n - 1) : Carried(packets[k]) = SubSeq(msg, 3 * k - 2, 3 * k)
      /\ Carried(packets[n]) = SubSeq(msg, 3 * (n - 1) + 1, len)
  BY DEF IsRunOf
<1>2. len \in Nat
  BY LenProperties
<1>3. /\ ss \in Seq(Seq(Byte)) /\ Len(ss) = n
      /\ \A k \in 1..n : ss[k] = Carried(packets[k])
  BY <1>1, CarriedAllTyped
<1> HIDE DEF n, len, ss
<1>4. PICK f : Flattening(f, ss, n) /\ FlattenSeq(ss) = f[n]
  BY <1>3, FlattenSeqIs
<1> DEFINE S == {k \in Nat : k <= n - 1 => f[k] = SubSeq(msg, 1, 3 * k)}
<1>5. 0 \in S
  <2>1. SubSeq(msg, 1, 0) = <<>>
    BY SubSeqEmpty
  <2>2. 3 * 0 = 0
    OBVIOUS
  <2> QED
    BY <1>4, <2>1, <2>2 DEF Flattening
<1>6. ASSUME NEW k \in Nat, k \in S PROVE k + 1 \in S
  <2>1. SUFFICES ASSUME k + 1 <= n - 1 PROVE f[k + 1] = SubSeq(msg, 1, 3 * (k + 1))
    OBVIOUS
  <2>2. /\ k + 1 \in 1..n /\ k + 1 \in 1..(n - 1) /\ (k + 1) - 1 = k /\ k <= n - 1
        /\ 3 * (k + 1) - 2 = 3 * k + 1
        /\ 1 \in 1..(len + 1) /\ 3 * k \in 0..len /\ 3 * (k + 1) \in (3 * k)..len
        /\ 1 - 1 = 0
    BY <1>1, <1>2, <2>1 DEF n, len
  <2>3. f[k] = SubSeq(msg, 1, 3 * k)
    BY <1>6, <2>2
  <2>4. ss[k + 1] = SubSeq(msg, 3 * k + 1, 3 * (k + 1))
    BY <1>1, <1>3, <2>2 DEF n
  <2>5. f[k + 1] = f[k] \o ss[k + 1]
    BY <1>4, <2>2 DEF Flattening
  <2>6. SubSeq(msg, 1, 3 * k) \o SubSeq(msg, 3 * k + 1, 3 * (k + 1)) = SubSeq(msg, 1, 3 * (k + 1))
    BY <2>2, ConcatAdjacentSubSeq DEF len
  <2> QED
    BY <2>3, <2>4, <2>5, <2>6
<1>7. Nat \subseteq S
  <2> HIDE DEF S
  <2> QED
    BY <1>5, <1>6, SetInduction
<1>8. /\ n - 1 \in Nat /\ n - 1 <= n - 1 /\ n \in 1..n
      /\ 1 \in 1..(len + 1) /\ 3 * (n - 1) \in 0..len /\ len \in (3 * (n - 1))..len /\ 1 - 1 = 0
  BY <1>1, <1>2 DEF n, len
<1>9. f[n - 1] = SubSeq(msg, 1, 3 * (n - 1))
  BY <1>7, <1>8
<1>10. f[n] = f[n - 1] \o ss[n] /\ ss[n] = SubSeq(msg, 3 * (n - 1) + 1, len)
  BY <1>1, <1>3, <1>4, <1>8 DEF Flattening, n, len
<1>11. SubSeq(msg, 1, 3 * (n - 1)) \o SubSeq(msg, 3 * (n - 1) + 1, len) = SubSeq(msg, 1, len)
  BY <1>8, ConcatAdjacentSubSeq DEF len
<1>12. SubSeq(msg, 1, len) = msg
  BY SubSeqFull DEF len
<1> QED
  BY <1>4, <1>9, <1>10, <1>11, <1>12 DEF ss

(* Every message that is no SysEx run and can be encoded has the CIN of    *)
(* its status and the length that CIN stands for.                          *)
LEMMA EncodeCin ==
  ASSUME NEW status \in Byte, HasCin(status)
  PROVE  /\ CinForStatus(status) \in 2..15
         /\ CinForStatus(status) \notin {CinSysExStart, CinSysExEnd1, CinSysExEnd2, CinSysExEnd3}
         /\ DataLength(CinForStatus(status)) = NeedForStatus(status)
         /\ status >= \h80 /\ status \notin {SOX, EOX}
<1> DEFINE cin == CinForStatus(status)
<1>1. CASE status \in ChannelVoice
  <2>0. /\ status \notin {\hF1, \hF3} /\ status # \hF2 /\ status \notin SingleByte
        /\ status \div 16 \in 8..14
    BY <1>1 DEF ChannelVoice, SingleByte
  <2>1. cin = (status \div 16) + 1 /\ cin \in 9..15
    BY <1>1, <2>0 DEF CinForStatus
  <2>2. NeedForStatus(status) = IF cin \in {13, 14} THEN 2 ELSE 3
    BY <1>1, <2>0 DEF NeedForStatus, CinProgramChange, CinChannelPressure
  <2>3. DataLength(9) = 3 /\ DataLength(10) = 3 /\ DataLength(11) = 3 /\ DataLength(12) = 3
        /\ DataLength(13) = 2 /\ DataLength(14) = 2 /\ DataLength(15) = 3
    BY DEF DataLength, CinLengths
  <2>4. status >= \h80 /\ status \notin {SOX, EOX}
    BY <1>1 DEF ChannelVoice, SOX, EOX
  <2> HIDE DEF cin
  <2>5. cin = 9 \/ cin = 10 \/ cin = 11 \/ cin = 12 \/ cin = 13 \/ cin = 14 \/ cin = 15
    BY <2>1
  <2> QED
    BY <2>1, <2>2, <2>3, <2>4, <2>5
       DEF cin, CinSysExStart, CinSysExEnd1, CinSysExEnd2, CinSysExEnd3
<1>2. CASE status \notin ChannelVoice
  BY <1>2 DEF HasCin, CinForStatus, NeedForStatus, ChannelVoice, SingleByte, DataLength, CinLengths,
              SOX, EOX, CinSysExStart, CinSysExEnd1, CinSysExEnd2, CinSysExEnd3
<1> QED
  BY <1>1, <1>2

(* What leaves for a message: the packets of a run, the end of a run that  *)
(* was sent in parts, or one packet.                                       *)
IsOneOf(packets, cable, msg) ==
  /\ packets \in Seq(WirePacket) /\ Len(packets) = 1
  /\ Decode(packets[1]).cable = cable /\ Carried(packets[1]) = msg

Cut(packets, cable, msg) ==
  \/ /\ msg[1] = SOX /\ Last(msg) = EOX /\ Len(msg) >= 2 /\ IsRunOf(packets, cable, msg)
  \/ /\ msg = <<EOX>> /\ IsOneOf(packets, cable, msg)
     /\ Decode(packets[1]).cin = CinSysExEnd1
  \/ /\ msg[1] >= \h80 /\ msg[1] \notin {SOX, EOX} /\ Len(msg) \in 1..3
     /\ IsOneOf(packets, cable, msg) /\ Decode(packets[1]).cin \in 2..15
     /\ Decode(packets[1]).cin \notin {CinSysExStart, CinSysExEnd1, CinSysExEnd2, CinSysExEnd3}

LEMMA OnePacket ==
  ASSUME NEW cable \in 0..MaxCable, NEW cin \in 0..15, NEW msg \in Seq(Byte),
         Len(msg) = DataLength(cin)
  PROVE  /\ IsOneOf(<<Build(cable, cin, msg)>>, cable, msg)
         /\ Decode(<<Build(cable, cin, msg)>>[1]).cin = cin
<1>1. PICK buf \in WirePacket : buf = Build(cable, cin, msg) /\ Decode(buf).cable = cable
                                /\ Decode(buf).cin = cin /\ Carried(buf) = msg
  BY BuildDecode, SMTT(30)
<1>2. <<buf>> \in Seq(WirePacket) /\ Len(<<buf>>) = 1 /\ <<buf>>[1] = buf
  OBVIOUS
<1> QED
  BY <1>1, <1>2 DEF IsOneOf

LEMMA MessageCut ==
  ASSUME NEW cable \in 0..MaxCable, NEW msg \in Seq(Byte), NEW max,
         TxMessage(cable, msg, max) # <<>>
  PROVE  Cut(TxMessage(cable, msg, max), cable, msg)
<1> DEFINE packets == PacketsOf(cable, msg)
<1>1. Sendable(cable, msg) /\ TxMessage(cable, msg, max) = packets
  BY DEF TxMessage
<1>2. SOX # EOX
  BY DEF SOX, EOX
<1>3. CASE msg[1] = SOX /\ Len(msg) >= 2 /\ Last(msg) = EOX
  <2>1. packets = RunPackets(cable, msg)
    BY <1>3 DEF PacketsOf
  <2> QED
    BY <1>1, <1>3, <2>1, RunCut DEF Cut
<1>4. CASE msg = <<EOX>>
  <2>1. msg[1] = EOX /\ Len(msg) = 1
    BY <1>4
  <2>2. packets = <<Build(cable, CinSysExEnd1, msg)>>
    BY <1>2, <2>1 DEF PacketsOf
  <2>3. PICK cin \in 0..15 : cin = CinSysExEnd1 /\ Len(msg) = DataLength(cin)
    <3>1. CinSysExEnd1 \in 0..15 /\ DataLength(CinSysExEnd1) = 1
      BY DEF CinSysExEnd1, DataLength, CinLengths
    <3> QED
      BY <2>1, <3>1
  <2>4. IsOneOf(packets, cable, msg) /\ Decode(packets[1]).cin = CinSysExEnd1
    <3>1. packets = <<Build(cable, cin, msg)>>
      BY <2>2, <2>3
    <3> HIDE DEF packets
    <3>2. IsOneOf(packets, cable, msg) /\ Decode(packets[1]).cin = cin
      BY <2>3, <3>1, OnePacket
    <3> QED
      BY <2>3, <3>2
  <2> QED
    BY <1>1, <1>4, <2>4 DEF Cut
<1>5. CASE msg[1] \notin {SOX, EOX} /\ Encodable(cable, msg)
  <2>1. packets = <<Encode(cable, msg)>>
    BY <1>5 DEF PacketsOf
  <2>2. Len(msg) \in 1..3 /\ HasCin(msg[1]) /\ Len(msg) = NeedForStatus(msg[1])
    BY <1>5 DEF Encodable
  <2>3. PICK status \in Byte : status = msg[1]
    <3>1. \A i \in 1..Len(msg) : msg[i] \in Byte
      BY ElementOfSeq
    <3>2. 1 \in 1..Len(msg)
      BY <2>2
    <3> QED
      BY <3>1, <3>2
  <2>4. PICK cin : cin = CinForStatus(status)
    OBVIOUS
  <2>5. /\ cin \in 2..15 /\ cin \notin {CinSysExStart, CinSysExEnd1, CinSysExEnd2, CinSysExEnd3}
        /\ Len(msg) = DataLength(cin) /\ status >= \h80
    BY <2>2, <2>3, <2>4, EncodeCin
  <2>6. cin \in 0..15
    BY <2>5
  <2>7. packets = <<Build(cable, cin, msg)>>
    BY <2>1, <2>3, <2>4 DEF Encode
  <2>8. IsOneOf(packets, cable, msg) /\ Decode(packets[1]).cin = cin
    BY <2>5, <2>6, <2>7, OnePacket, SMTT(30)
  <2> HIDE DEF packets
  <2> QED
    BY <1>1, <1>5, <2>2, <2>3, <2>5, <2>8 DEF Cut
<1> QED
  BY <1>1, <1>3, <1>4, <1>5 DEF Sendable

(* The packets of a message carry its bytes, nothing else.                 *)
LEMMA CutKeepsBytes ==
  ASSUME NEW cable, NEW msg \in Seq(Byte), NEW packets, Cut(packets, cable, msg)
  PROVE  /\ packets \in Seq(WirePacket)
         /\ FlattenSeq(CarriedAll(packets)) = msg
<1>1. CASE IsRunOf(packets, cable, msg)
  BY <1>1, RunKeepsBytes DEF IsRunOf
<1>2. CASE IsOneOf(packets, cable, msg)
  <2>1. packets \in Seq(WirePacket) /\ Len(packets) = 1 /\ Carried(packets[1]) = msg
    BY <1>2 DEF IsOneOf
  <2>2. PICK u : u = CarriedAll(packets)
    OBVIOUS
  <2>3. u \in Seq(Seq(Byte)) /\ Len(u) = 1 /\ u[1] = msg
    BY <2>1, <2>2, CarriedAllTyped
  <2>4. <<msg>> \in Seq(Seq(Byte)) /\ Len(<<msg>>) = 1 /\ <<msg>>[1] = msg
    OBVIOUS
  <2>5. \A i \in 1..Len(u) : u[i] = <<msg>>[i]
    BY <2>3, <2>4
  <2>6. u = <<msg>>
    BY <2>3, <2>4, <2>5, SeqEqual
  <2> QED
    BY <2>1, <2>2, <2>6, FlattenOne
<1> QED
  BY <1>1, <1>2 DEF Cut
=============================================================================
