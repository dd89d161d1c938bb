-------------------------------- MODULE OmsTx --------------------------------
(***************************************************************************)
(* The send hook of one port, oms/oms_tx.c, with OMS on one side and a     *)
(* receive stream (core/midi_stream.c) on the far end of the cable.        *)
(*                                                                         *)
(* OMS hands over a SysEx run as a start chunk, middle chunks and an end   *)
(* chunk of up to four bytes each, or whole in one packet; clock ticks may *)
(* come between two chunks, and a run may be given up for a new one.  The  *)
(* hook cuts the run into packets of three bytes, carrying up to two bytes *)
(* over in the port.  The transport seam is taken as a cable that delivers *)
(* each packet (the one of v0.1 drops them all).  The definitions marked   *)
(* as defective variants are no part of the model: put in the place of the *)
(* definition below them, they must break a property.                      *)
(***************************************************************************)
EXTENDS MidiStream

CONSTANTS
  PortCable,      \* the cable of the port
  MaxRun,         \* bound on the bytes of a run
  MaxRuns         \* bound on the runs OMS begins

ASSUME PortAssumption ==
  /\ PortCable \in 0..MaxCable
  /\ MaxRun \in Nat /\ MaxRun >= 2 /\ MaxRuns \in Nat

VARIABLES
  carry,      \* txCarry and txCarryLen of the port
  malformed,  \* the last call counted a malformed packet
  run,        \* the bytes of the run OMS is sending or has sent last
  given,      \* how many of them it has handed over
  runs,       \* how many runs it has begun
  far,        \* the receive stream at the far end
  heard       \* the chunks taken there since the run began, ticks left out

txVars == <<carry, malformed, run, given, runs, far, heard>>

(* A run: its data bytes, of seven bits, tell its number and their places. *)
RunOf(number, len) ==
  <<SOX>> \o [k \in 1..(len - 2) |-> (16 * (number % 2) + k) % 128] \o <<EOX>>

TxInit ==
  /\ carry = <<>> /\ malformed = FALSE
  /\ run = <<>> /\ given = 0 /\ runs = 0
  /\ far = RxInit(PortCable) /\ heard = <<>>

-----------------------------------------------------------------------------
(* oms_tx_sysex_chunk.  A start with a carry from a run given up, or       *)
(* without F0, drops the carry; what is no chunk is refused.               *)
Starts(mode) == mode \in {"start", "whole"}
EndsByBit(mode) == mode \in {"end", "mid", "whole"}     \* defective variant
Ends(mode) == mode \in {"end", "whole"}

BrokenByHead(old, mode, data) ==                        \* defective variant
  Starts(mode) /\ (data = <<>> \/ data[1] # SOX)

Broken(old, mode, data) ==
  Starts(mode) /\ (old # <<>> \/ data = <<>> \/ data[1] # SOX)

KeptAlways(old, mode, data) == old                      \* defective variant
Kept(old, mode, data) == IF Broken(old, mode, data) THEN <<>> ELSE old

Refused(mode, data) ==
  \/ mode = "whole" /\ (Len(data) < 2 \/ Last(data) # EOX)
  \/ Len(data) \notin 1..4

(* How many packets go out: all bytes at an end, else whole triples.       *)
TriplesLeaveThree(mode, len) == (len - 1) \div 3       \* defective variant
Triples(mode, len) == IF Ends(mode) THEN (len - 1) \div 3 ELSE len \div 3

(* The branch for more than six bytes in the buffer is left out: with at   *)
(* most two carried, as TxTypeOK says, and four given none is ever taken.  *)
Chunk(old, mode, data) ==
  LET bytes == Kept(old, mode, data) \o data
      triples == Triples(mode, Len(bytes))
      rest == SubSeq(bytes, 3 * triples + 1, Len(bytes))
      middle == [k \in 1..triples |->
                   Build(PortCable, CinSysExStart, SubSeq(bytes, 3 * k - 2, 3 * k))]
  IN  IF Refused(mode, data)
      THEN [carry |-> Kept(old, mode, data), malformed |-> TRUE, packets |-> <<>>]
      ELSE IF Ends(mode)
      THEN [carry |-> <<>>, malformed |-> Broken(old, mode, data),
            packets |-> Append(middle, Build(PortCable, EndCin(Len(rest)), rest))]
      ELSE [carry |-> rest, malformed |-> Broken(old, mode, data), packets |-> middle]

(* The branch of oms_tx_send for a packet without continuation flags that  *)
(* is no SysEx: one packet, and the carry stays.                           *)
Message(old, data) ==
  LET packets == IF Len(data) \in 1..3 THEN TxMessage(PortCable, data, 2) ELSE <<>>
  IN  [carry |-> old, malformed |-> Len(packets) # 1,
       packets |-> IF Len(packets) = 1 THEN packets ELSE <<>>]

(* oms_tx_send: a packet from OMS, with its continuation state.            *)
TxSend(old, cont, data) ==
  IF cont # "none" THEN Chunk(old, cont, data)
  ELSE IF data # <<>> /\ data[1] = SOX THEN Chunk(old, "whole", data)
  ELSE Message(old, data)

(* The far end takes each message as its packet arrives.                   *)
Arrives(st, packet) ==
  LET fed == RxPacket(st.far, packet) IN
  [far |-> RxTaken(fed),
   heard |-> IF RxOldest(fed).data = <<\hF8>> THEN st.heard
             ELSE Append(st.heard, RxOldest(fed))]

AllArrive(start, packets) ==
  LET after[k \in 0..Len(packets)] ==
        IF k = 0 THEN start ELSE Arrives(after[k - 1], packets[k])
  IN  after[Len(packets)]

Sends(cont, data, before) ==
  LET call == TxSend(carry, cont, data)
      end == AllArrive([far |-> far, heard |-> before], call.packets)
  IN  /\ carry' = call.carry /\ malformed' = call.malformed
      /\ far' = [end.far EXCEPT !.stats = NoStats] /\ heard' = end.heard

-----------------------------------------------------------------------------
(* OMS begins a run, whole or with its first bytes, even if the last one   *)
(* never ended.                                                            *)
BeginRun(len, n) ==
  /\ runs < MaxRuns
  /\ LET bytes == RunOf(runs, len) IN
     /\ IF n = len THEN Sends("none", bytes, <<>>)
        ELSE Sends("start", SubSeq(bytes, 1, n), <<>>)
     /\ run' = bytes
  /\ given' = n
  /\ runs' = runs + 1

ContinueRun(n) ==
  /\ run # <<>> /\ given + n <= Len(run)
  /\ Sends(IF given + n = Len(run) THEN "end" ELSE "mid",
           SubSeq(run, given + 1, given + n), heard)
  /\ given' = given + n
  /\ UNCHANGED <<run, runs>>

SendTick ==
  /\ Sends("none", <<\hF8>>, heard)
  /\ UNCHANGED <<run, given, runs>>

(* omdvStartMIDI2 and a new bind reset txCarryLen; OMS begins anew.        *)
ResetPort ==
  /\ carry' = <<>>
  /\ malformed' = FALSE
  /\ run' = <<>> /\ given' = 0 /\ heard' = <<>>
  /\ UNCHANGED <<runs, far>>

TxNext ==
  \/ \E len \in 2..MaxRun : \E n \in 1..4 : n <= len /\ BeginRun(len, n)
  \/ \E n \in 1..4 : ContinueRun(n)
  \/ SendTick
  \/ ResetPort

TxSpec == TxInit /\ [][TxNext]_txVars

-----------------------------------------------------------------------------
TxTypeOK ==
  /\ carry \in Seq(Byte) /\ Len(carry) <= 2
  /\ malformed \in BOOLEAN
  /\ run \in Seq(Byte) /\ given \in 0..Len(run) /\ runs \in 0..MaxRuns
  /\ far.inSysex \in BOOLEAN /\ far.count = 0
  /\ \A k \in 1..Len(heard) : heard[k].tag \in Tags /\ Len(heard[k].data) \in 1..3

BytesHeard == FlattenSeq([k \in 1..Len(heard) |-> heard[k].data])

(* A run reaches the far end as OMS cut it loose: at any time the bytes    *)
(* heard and the carry together are the bytes given, none of them of a run *)
(* given up before, and at the end of the run nothing is held back.        *)
RunIsWhole ==
  /\ BytesHeard \o carry = SubSeq(run, 1, given)
  /\ given = Len(run) => carry = <<>>

(* "the end packet always carries the trailing bytes" (header of           *)
(* oms_tx.c): the far end hears the end of a run when, and only when, OMS  *)
(* has given all of it, so a run never ends early or stays open.           *)
EndsOnce ==
  /\ far.inSysex /\ heard # <<>> => given < Len(run)
  /\ \A k \in 1..Len(heard) : heard[k].tag = "end" => k = Len(heard) /\ given = Len(run)

(* "Carry from a previous run ... malformed; reset and count" (oms_tx.c):  *)
(* a call is counted as malformed when, and only when, it begins a run and *)
(* bytes of the run before it were still carried and are given up.         *)
DropIsCounted == [][malformed' <=> carry # <<>> /\ runs' # runs]_txVars
=============================================================================
