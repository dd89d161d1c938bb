------------------------------ MODULE Packets ------------------------------
(***************************************************************************)
(* The USB-MIDI Event Packet codec, core/packets.c.  A packet on the wire  *)
(* is a sequence of four bytes: cable and code index number (CIN), then    *)
(* up to three bytes of MIDI data.                                         *)
(***************************************************************************)
EXTENDS Naturals, Sequences

Byte == 0..255
MaxCable == 15

(* Code index numbers, as core/packets.h names them.                       *)
CinMisc == 0
CinCableEvent == 1
CinSysExStart == 4
CinSysExEnd1 == 6
CinSysExEnd2 == 7
CinSysExEnd3 == 8
CinProgramChange == 13
CinChannelPressure == 14

(* um9_cin_lengths: bytes of MIDI data by CIN.                             *)
CinLengths == <<0, 1, 2, 3, 3, 1, 1, 2, 3, 3, 3, 3, 3, 2, 2, 3>>
DataLength(cin) == CinLengths[cin + 1]

Decode(buf) ==
  [cable |-> buf[1] \div 16, cin |-> buf[1] % 16,
   length |-> DataLength(buf[1] % 16), data |-> SubSeq(buf, 2, 4)]

(* um9_cin_for_status: the CIN of a status byte and the length of its      *)
(* message; SysEx and the undefined statuses have none.                    *)
ChannelVoice == \h80..\hEF
SingleByte == {\hF6} \cup \hF8..\hFF

HasCin(status) == status \in ChannelVoice \cup {\hF1, \hF2, \hF3} \cup SingleByte

CinForStatus(status) ==
  CASE status \in ChannelVoice -> (status \div 16) + 1
    [] status \in {\hF1, \hF3}  -> 2
    [] status = \hF2            -> 3
    [] status \in SingleByte    -> 5

NeedForStatus(status) ==
  CASE status \in ChannelVoice ->
         IF CinForStatus(status) \in {CinProgramChange, CinChannelPressure} THEN 2 ELSE 3
    [] status \in {\hF1, \hF3}  -> 2
    [] status = \hF2            -> 3
    [] status \in SingleByte    -> 1

(* um9_packet_encode accepts a whole message whose status has a CIN.       *)
Encodable(cable, msg) ==
  /\ cable \in 0..MaxCable
  /\ Len(msg) \in 1..3
  /\ HasCin(msg[1]) /\ Len(msg) = NeedForStatus(msg[1])

(* The four bytes of a packet; unused data bytes are zero.                 *)
Build(cable, cin, data) ==
  <<cable * 16 + cin>> \o [k \in 1..3 |-> IF k <= Len(data) THEN data[k] ELSE 0]

Encode(cable, msg) == Build(cable, CinForStatus(msg[1]), msg)

(* The CIN of the last packet of a SysEx run, by the bytes it carries.     *)
EndCinShort(len) ==                                     \* defective variant
  IF len <= 2 THEN CinSysExEnd1 ELSE CinSysExEnd2

EndCin(len) ==
  IF len <= 1 THEN CinSysExEnd1 ELSE IF len = 2 THEN CinSysExEnd2 ELSE CinSysExEnd3
=============================================================================
