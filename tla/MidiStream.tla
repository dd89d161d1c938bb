----------------------------- MODULE MidiStream -----------------------------
(***************************************************************************)
(* The packet stream converter, core/midi_stream.c, as operators on one    *)
(* receive stream and one message to transmit.  The definitions marked as  *)
(* defective variants are no part of the model: put in the place of the    *)
(* definition below them, they must break a property of MidiLink.          *)
(***************************************************************************)
EXTENDS Packets, SequencesExt

CONSTANT QueueSize   \* UM9_RX_QUEUE (16)

ASSUME QueueAssumption == QueueSize \in Nat \ {0}

EOX == \hF7
SOX == \hF0

Tags == {"none", "start", "mid", "end"}
NoMessage == [data |-> <<>>, tag |-> "none"]
NoStats == [packets |-> 0, messages |-> 0, misc |-> 0, cable |-> 0,
            full |-> 0, misroute |-> 0, badStart |-> 0, noEox |-> 0]

(* um9_rx_init.                                                            *)
RxInit(cable) ==
  [cable |-> cable, inSysex |-> FALSE, head |-> 0, count |-> 0,
   pending |-> [k \in 0..(QueueSize - 1) |-> NoMessage], stats |-> NoStats]

(* um9_rx_enqueue: drop-new.                                               *)
RxEnqueueOneMore(s, message) ==                         \* defective variant
  IF s.count > QueueSize
  THEN [s EXCEPT !.stats.full = @ + 1]
  ELSE [s EXCEPT !.pending[(s.head + s.count) % QueueSize] = message,
                 !.count = @ + 1]

RxEnqueueUncounted(s, message) ==                       \* defective variant
  IF s.count >= QueueSize
  THEN s
  ELSE [s EXCEPT !.pending[(s.head + s.count) % QueueSize] = message,
                 !.count = @ + 1]

RxEnqueueFromZero(s, message) ==                        \* defective variant
  IF s.count >= QueueSize
  THEN [s EXCEPT !.stats.full = @ + 1]
  ELSE [s EXCEPT !.pending[s.count] = message, !.count = @ + 1]

RxEnqueue(s, message) ==
  IF s.count >= QueueSize
  THEN [s EXCEPT !.stats.full = @ + 1]
  ELSE [s EXCEPT !.pending[(s.head + s.count) % QueueSize] = message,
                 !.count = @ + 1]

(* The SysEx position of a packet, and the in_sysex flag after it.         *)
RxTag(s, pkt) ==
  CASE pkt.cin = CinSysExStart -> IF s.inSysex THEN "mid" ELSE "start"
    [] pkt.cin \in {CinSysExEnd1, CinSysExEnd2, CinSysExEnd3} ->
         IF ~s.inSysex /\ pkt.data[1] = SOX THEN "none" ELSE "end"
    [] OTHER -> "none"

RxInSysexUntilAnything(s, pkt) == pkt.cin = CinSysExStart  \* defective variant

RxInSysex(s, pkt) ==
  CASE pkt.cin = CinSysExStart -> TRUE
    [] pkt.cin \in {CinSysExEnd1, CinSysExEnd2, CinSysExEnd3} -> FALSE
    [] OTHER -> s.inSysex

(* um9_rx_packet, for one four-byte packet.                                *)
RxAccept(s, pkt) ==
  LET data == SubSeq(pkt.data, 1, pkt.length)
      badStart == pkt.cin = CinSysExStart /\ ~s.inSysex /\ data[1] # SOX
      noEox == pkt.cin \in {CinSysExEnd1, CinSysExEnd2, CinSysExEnd3} /\ Last(data) # EOX
      counted == [s EXCEPT !.inSysex = RxInSysex(s, pkt),
                           !.stats.badStart = @ + (IF badStart THEN 1 ELSE 0),
                           !.stats.noEox = @ + (IF noEox THEN 1 ELSE 0)]
  IN  RxEnqueue(counted, [data |-> data, tag |-> RxTag(s, pkt)])

RxPacket(s, buf) ==
  LET pkt == Decode(buf)
      fed == [s EXCEPT !.stats.packets = @ + 1]
  IN  CASE pkt.cable # s.cable -> [fed EXCEPT !.stats.misroute = @ + 1]
        [] pkt.cable = s.cable /\ pkt.cin = CinMisc -> [fed EXCEPT !.stats.misc = @ + 1]
        [] pkt.cable = s.cable /\ pkt.cin = CinCableEvent -> [fed EXCEPT !.stats.cable = @ + 1]
        [] OTHER -> RxAccept(fed, pkt)

(* um9_rx_message: the oldest message, and the stream without it.          *)
RxOldest(s) == s.pending[s.head]
RxTaken(s) ==
  [s EXCEPT !.head = (@ + 1) % QueueSize, !.count = @ - 1, !.stats.messages = @ + 1]

-----------------------------------------------------------------------------
(* A SysEx run as packets: three bytes each, one to three in the last.     *)
RunPacketCount(len) == IF len <= 3 THEN 1 ELSE 1 + ((len - 3) + 2) \div 3

RunPackets(cable, bytes) ==
  LET len == Len(bytes)
      n == RunPacketCount(len)
      rest == len - 3 * (n - 1)
  IN  [k \in 1..n |->
         IF k < n THEN Build(cable, CinSysExStart, SubSeq(bytes, 3 * k - 2, 3 * k))
         ELSE Build(cable, EndCin(rest), SubSeq(bytes, len - rest + 1, len))]

(* um9_tx_message: the packets of a message; none if it is malformed or    *)
(* needs more than max packets.                                            *)
Sendable(cable, msg) ==
  /\ cable <= MaxCable /\ msg # <<>>
  /\ \/ msg[1] = SOX /\ Len(msg) >= 2 /\ Last(msg) = EOX
     \/ msg = <<EOX>>
     \/ msg[1] \notin {SOX, EOX} /\ Encodable(cable, msg)

PacketsOf(cable, msg) ==
  IF msg[1] = SOX THEN RunPackets(cable, msg)
  ELSE IF msg[1] = EOX THEN <<Build(cable, CinSysExEnd1, msg)>>
  ELSE <<Encode(cable, msg)>>

TxMessage(cable, msg, max) ==
  IF Sendable(cable, msg) /\ Len(PacketsOf(cable, msg)) <= max
  THEN PacketsOf(cable, msg) ELSE <<>>
=============================================================================
