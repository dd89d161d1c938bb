------------------------------ MODULE MidiLink ------------------------------
(***************************************************************************)
(* A transmit stream and a receive stream of core/midi_stream.c at the two *)
(* ends of a cable: a client encodes messages, their packets arrive one by *)
(* one, with clock ticks and packets that are not ours between them, and a *)
(* client at the other end takes messages when it likes, so that the       *)
(* pending queue may fill up.                                              *)
(***************************************************************************)
EXTENDS MidiStream

CONSTANTS
  Cable,        \* the cable of both streams
  Messages,     \* the messages a client may send, as byte sequences
  MaxPackets,   \* the room a client gives um9_tx_message
  MaxSent,      \* bound on the messages sent
  MaxStray      \* bound on the other packets fed

ASSUME LinkAssumption ==
  /\ Cable \in 0..MaxCable
  /\ Messages \subseteq Seq(Byte)
  /\ MaxPackets \in Nat /\ MaxSent \in Nat /\ MaxStray \in Nat

VARIABLES
  rx,     \* the receive stream
  wire,   \* packets on their way
  sent,   \* the messages accepted for transmission
  taken,  \* what um9_rx_message returned
  stray   \* how many other packets were fed

vars == <<rx, wire, sent, taken, stray>>

Tick == <<\hF8>>
TickPacket == Encode(Cable, Tick)
StrayPackets ==
  {TickPacket, Build(Cable, CinMisc, <<>>), Build(Cable, CinCableEvent, <<1>>),
   Build((Cable + 1) % 16, CinSysExStart, <<SOX, 1, 2>>)}

Init ==
  /\ rx = RxInit(Cable)
  /\ wire = <<>> /\ sent = <<>> /\ taken = <<>>
  /\ stray = 0

Send(msg) ==
  /\ Len(sent) < MaxSent
  /\ LET packets == TxMessage(Cable, msg, MaxPackets) IN
     /\ packets # <<>>
     /\ wire' = wire \o packets
     /\ sent' = Append(sent, msg)
  /\ UNCHANGED <<rx, taken, stray>>

Feed ==
  /\ wire # <<>>
  /\ rx' = RxPacket(rx, Head(wire))
  /\ wire' = Tail(wire)
  /\ UNCHANGED <<sent, taken, stray>>

FeedStray(packet) ==
  /\ stray < MaxStray
  /\ rx' = RxPacket(rx, packet)
  /\ stray' = stray + 1
  /\ UNCHANGED <<wire, sent, taken>>

Take ==
  /\ rx.count > 0
  /\ taken' = Append(taken, RxOldest(rx))
  /\ rx' = RxTaken(rx)
  /\ UNCHANGED <<wire, sent, stray>>

Next ==
  \/ \E msg \in Messages : Send(msg)
  \/ Feed \/ Take
  \/ \E packet \in StrayPackets : FeedStray(packet)

Spec == Init /\ [][Next]_vars

-----------------------------------------------------------------------------
TypeOK ==
  /\ rx.cable = Cable /\ rx.inSysex \in BOOLEAN
  /\ rx.head \in 0..(QueueSize - 1) /\ rx.count \in 0..QueueSize
  /\ DOMAIN rx.pending = 0..(QueueSize - 1)
  /\ \A k \in 0..(QueueSize - 1) :
       rx.pending[k].tag \in Tags /\ Len(rx.pending[k].data) \in 0..3
  /\ \A stat \in DOMAIN NoStats : rx.stats[stat] \in Nat
  /\ \A k \in 1..Len(wire) : wire[k] \in Seq(Byte) /\ Len(wire[k]) = 4
  /\ \A k \in 1..Len(taken) : taken[k].tag \in Tags /\ Len(taken[k].data) \in 1..3
  /\ sent \in Seq(Messages) /\ stray \in 0..MaxStray

(* The messages received so far, those still in the queue included.        *)
Received ==
  taken \o [k \in 1..rx.count |-> rx.pending[(rx.head + k - 1) % QueueSize]]

(* The bytes received, clock ticks taken out.                              *)
NotTick(message) == message.data # Tick
BytesReceived ==
  FlattenSeq([k \in 1..Len(Received) |->
                IF NotTick(Received[k]) THEN Received[k].data ELSE <<>>])

(* "preserving the cable number and keeping every byte" (midi_stream.h):   *)
(* as long as the queue had room, the bytes received are those sent, in    *)
(* order, whatever was fed between two packets of a run.                   *)
KeepsEveryByte ==
  rx.stats.full = 0 =>
    /\ IsPrefix(BytesReceived, FlattenSeq(sent))
    /\ wire = <<>> => BytesReceived = FlattenSeq(sent)

(* The tag a chunk must have, by its bytes: a start has F0 and no F7, an   *)
(* end has F7 and no F0, a middle chunk has data bytes only.               *)
TagOf(data) ==
  IF data[1] = SOX THEN IF Last(data) = EOX THEN "none" ELSE "start"
  ELSE IF Last(data) = EOX THEN "end"
  ELSE IF data[1] < \h80 THEN "mid" ELSE "none"

(* "SysEx runs that must be cut at message boundaries with continuation    *)
(* markers" (midi_stream.h): every chunk carries the tag of its place in   *)
(* the run, with ticks inside the run and with messages dropped.           *)
TagsFrameRuns == \A k \in 1..Len(Received) : Received[k].tag = TagOf(Received[k].data)

(* Nothing disappears uncounted: each packet fed became a message taken, a *)
(* message waiting, or one count of a drop.                                *)
AllCounted ==
  LET st == rx.stats IN
  st.packets = st.messages + rx.count + st.misc + st.cable + st.misroute + st.full

(* Drop-new: a full queue, wrapped or not, never gives up or reorders a    *)
(* message it had accepted.                                                *)
AcceptedStay == [][IsPrefix(Received, Received')]_vars
=============================================================================
