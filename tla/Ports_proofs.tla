---------------------------- MODULE Ports_proofs ----------------------------
(***************************************************************************)
(* For every buffer and every set of limits: the descriptor walker stays   *)
(* inside the buffer and moves on, no array is written past its end, what  *)
(* is recorded is what the whole descriptors say, and the ports are those  *)
(* of the recorded endpoints.                                              *)
(***************************************************************************)
EXTENDS Topology, SequenceLemmas, FiniteSetTheorems

(* What the bounds rest on: the buffer is the caller's, the walker holds   *)
(* numbers, and a call begins with a fresh walker.                         *)
BufferOK == buf = NoCall \/ buf \in Buffers
FreshWhenIdle == at = "idle" => it = IterInit
IInv == BufferOK /\ it \in Iterator /\ FreshWhenIdle /\ InBounds

(* The two header bytes of a descriptor that is found lie in the buffer.   *)
LEMMA HeaderInside ==
  ASSUME IInv, Walks
  PROVE  /\ buf.len \in Nat /\ it.pos \in Nat
         /\ buf.memory[it.pos] \in 0..255
         /\ buf.memory[it.pos + 1] \in 0..255
<1>1. buf \in Buffers /\ buf.memory # NoBuffer
  BY DEF IInv, BufferOK, Walks, Finds, HasHeader, NoCall
<1>2. /\ buf.len \in Nat /\ buf.size \in Nat /\ buf.len <= buf.size
      /\ buf.memory \in [0..(buf.size - 1) -> 0..255]
  BY <1>1, BuffersAssumption
<1>3. it.pos \in Nat /\ buf.len - it.pos >= 2
  BY DEF IInv, Iterator, Walks, Finds, HasHeader
<1>4. it.pos \in 0..(buf.size - 1) /\ it.pos + 1 \in 0..(buf.size - 1)
  BY <1>2, <1>3
<1> QED
  BY <1>2, <1>3, <1>4

(* A descriptor that is found ends inside the buffer (um9_desc_iter_next). *)
LEMMA FoundInside ==
  ASSUME IInv, Walks
  PROVE  /\ Here \in Iterator
         /\ Here.pos <= buf.len
         /\ Here.off + Here.blen <= Here.pos
<1> DEFINE n == buf.memory[it.pos]
           t == buf.memory[it.pos + 1]
<1>1. buf.len \in Nat /\ it.pos \in Nat /\ n \in 0..255 /\ t \in 0..255
  BY HeaderInside
<1>2. n <= buf.len - it.pos
  BY DEF Walks, Finds, Fits
<1>3. it \in Iterator /\ it.err \in Errors
  BY DEF IInv, Iterator
<1>4. Here = [pos |-> it.pos + n, off |-> it.pos, blen |-> n, btype |-> t, err |-> it.err]
  BY <1>3 DEF Here, Found, Iterator
<1> HIDE DEF n, t
<1> QED
  BY <1>1, <1>2, <1>3, <1>4 DEF Iterator

LEMMA InitIInv == Init => IInv
BY DEF Init, IInv, BufferOK, FreshWhenIdle, IterInit, Iterator, Errors, InBounds, NoCall

(* The turns of the loop of um9_ms_parse that find a descriptor.           *)
LoopTurn ==
  \/ Device \/ FindMs \/ SkipBefore
  \/ LeaveMs \/ Endpoint \/ Header \/ InJack \/ OutJack \/ General \/ SkipInside

LEMMA LoopTurnMoves == LoopTurn => Walks /\ it' = Here /\ buf' = buf /\ at' # "idle"
BY DEF LoopTurn, Device, FindMs, SkipBefore, LeaveMs, Endpoint, Header, InJack, OutJack,
       General, SkipInside, Before, Inside, Moves, Walks

LEMMA StepIInv == IInv /\ [Next]_vars => IInv'
<1> SUFFICES ASSUME IInv, [Next]_vars PROVE IInv'
  OBVIOUS
<1>1. CASE LoopTurn
  <2>1. Walks /\ it' = Here /\ buf' = buf /\ at' # "idle"
    BY <1>1, LoopTurnMoves
  <2> QED
    BY <2>1, FoundInside DEF IInv, BufferOK, FreshWhenIdle, InBounds
<1>2. CASE WalkEnds
  <2>1. Verdict(buf, it) \in Errors
    BY DEF Verdict, IInv, Iterator, Errors
  <2>2. /\ it' = [it EXCEPT !.err = Verdict(buf, it)]
        /\ buf' = buf /\ at' # "idle"
    BY <1>2 DEF WalkEnds
  <2>3. it' \in Iterator /\ it'.pos = it.pos /\ it'.off = it.off /\ it'.blen = it.blen
    BY <2>1, <2>2 DEF IInv, Iterator
  <2> QED
    BY <2>2, <2>3 DEF IInv, BufferOK, FreshWhenIdle, InBounds
<1>3. CASE NextPort \/ NextEndpoint \/ Derived
  BY <1>3 DEF NextPort, NextEndpoint, Derived, HasJack, HasEndpoint, IInv, BufferOK,
              FreshWhenIdle, InBounds
<1>4. ASSUME NEW b \in Buffers, Parse(b) PROVE IInv'
  <2>1. b.len \in Nat
    BY BuffersAssumption
  <2>2. it = IterInit /\ it' = it /\ buf' = b /\ at' = "walk"
    BY <1>4 DEF Parse, IInv, FreshWhenIdle
  <2> QED
    BY <2>1, <2>2 DEF IInv, BufferOK, FreshWhenIdle, InBounds, IterInit
<1>5. CASE Return
  BY <1>5 DEF Return, IInv, BufferOK, FreshWhenIdle, IterInit, Iterator, Errors, InBounds, NoCall
<1>6. CASE UNCHANGED vars
  BY <1>6 DEF vars, IInv, BufferOK, FreshWhenIdle, InBounds
<1> QED
  BY <1>1, <1>2, <1>3, <1>4, <1>5, <1>6 DEF Next, Step, LoopTurn

(* "never dereferences beyond the supplied buffer" (descriptors.h), for    *)
(* every buffer a caller may own: no descriptor the parser looks at        *)
(* reaches past the length it was given.                                   *)
THEOREM PortsInBounds == Spec => []InBounds
<1>1. IInv => InBounds
  BY DEF IInv
<1> QED
  BY InitIInv, StepIInv, <1>1, PTL DEF Spec

(* A turn of the loop that finds a descriptor moves at least two bytes on, *)
(* so that the walk ends whatever lengths the device sent: the part of     *)
(* Terminates that needs no fairness.                                      *)
WalkAdvances == [][LoopTurn => it'.pos >= it.pos + 2 /\ it'.pos <= buf.len]_vars

THEOREM PortsWalkAdvances == Spec => WalkAdvances
<1>1. IInv /\ LoopTurn => it'.pos >= it.pos + 2 /\ it'.pos <= buf.len
  <2> SUFFICES ASSUME IInv, LoopTurn
               PROVE  it'.pos >= it.pos + 2 /\ it'.pos <= buf.len
    OBVIOUS
  <2>1. Walks /\ it' = Here
    BY LoopTurnMoves
  <2>2. it.pos \in Nat /\ buf.memory[it.pos] >= 2
    BY <2>1 DEF IInv, Iterator, Walks, Finds, LongEnough
  <2>3. Here.pos = it.pos + buf.memory[it.pos] /\ Here.pos \in Nat
    BY <2>1, FoundInside DEF Here, Found, IInv, Iterator
  <2>4. buf.memory[it.pos] \in Nat
    BY <2>1, HeaderInside
  <2> QED
    BY <2>1, <2>2, <2>3, <2>4, FoundInside
<1> QED
  BY InitIInv, StepIInv, <1>1, PTL DEF Spec, WalkAdvances

-----------------------------------------------------------------------------
(* The arrays of um9_ms_info and of the caller's ports.                    *)
Jack == [id : Octet, type : Octet, direction : {"in", "out"}, sources : Seq(Octet)]
BulkEndpoint == [ep : EndpointInForce, embedded : Seq(Octet)]
Port == [address : Octet, direction : {"in", "out"}, cable : Nat, jack : Octet]
Info == [found : BOOLEAN, vid : Short, pid : Short, number : Octet, alternate : Octet,
         declared : Octet, bcd : Short, total : Short,
         jacks : Seq(Jack), inJacks : Nat, outJacks : Nat, endpoints : Seq(BulkEndpoint)]

JacksFit(of) ==
  /\ Len(of.jacks) <= MaxJacks
  /\ of.inJacks + of.outJacks = Len(of.jacks)
  /\ \A k \in 1..Len(of.jacks) : Len(of.jacks[k].sources) <= MaxJackSources

EndpointsFit(of) ==
  /\ Len(of.endpoints) <= MaxEndpoints
  /\ \A k \in 1..Len(of.endpoints) : Len(of.endpoints[k].embedded) <= MaxEmbedded

InfoFits(of) == of \in Info /\ JacksFit(of) /\ EndpointsFit(of)
PortsFit == ports \in Seq(Port) /\ Len(ports) <= MaxPorts

(* What the parser writes, and the cursor of the loop that derives ports.  *)
Recorded == inMs \in BOOLEAN /\ ep \in EndpointInForce /\ InfoFits(info)
Deriving ==
  /\ at \in {"idle", "walk", "derive", "done"} /\ result \in 0..1
  /\ cursor \in [e : Nat \ {0}, i : Nat]
  /\ IF at = "derive" THEN PortsFit ELSE ports = Garbage \/ PortsFit

(* A byte, or a word, of the descriptor found.                             *)
LEMMA ByteIsOctet ==
  ASSUME IInv, Walks, NEW k \in Nat
  PROVE  Byte(k) \in Octet
<1>1. CASE k >= Here.blen
  BY <1>1 DEF Byte, U8, Octet
<1>2. CASE ~(k >= Here.blen)
  <2>1. buf \in Buffers /\ buf.memory # NoBuffer
    BY DEF IInv, BufferOK, Walks, Finds, HasHeader, NoCall
  <2>2. /\ buf.len \in Nat /\ buf.size \in Nat /\ buf.len <= buf.size
        /\ buf.memory \in [0..(buf.size - 1) -> 0..255]
    BY <2>1, BuffersAssumption
  <2>3. Here \in Iterator /\ Here.pos <= buf.len /\ Here.off + Here.blen <= Here.pos
    BY FoundInside
  <2>4. Here.off \in Nat /\ Here.blen \in Nat /\ Here.pos \in Nat
    BY <2>3 DEF Iterator
  <2>5. Here.off + k \in 0..(buf.size - 1)
    BY <1>2, <2>2, <2>3, <2>4
  <2>6. Byte(k) = buf.memory[Here.off + k]
    BY <1>2, <2>1 DEF Byte, U8
  <2> QED
    <3>1. PICK a \in 0..(buf.size - 1) : a = Here.off + k
      BY <2>5
    <3>2. buf.memory[a] \in Octet
      BY <2>2 DEF Octet
    <3> QED
      BY <2>6, <3>1, <3>2
<1> QED
  BY <1>1, <1>2

LEMMA WordInRange ==
  ASSUME IInv, Walks, NEW k \in Nat
  PROVE  Word(k) \in Short
<1>1. Byte(k) \in Octet /\ Byte(k + 1) \in Octet
  BY ByteIsOctet
<1>2. Here.blen \in Nat
  BY FoundInside DEF Iterator
<1>3. CASE buf.memory = NoBuffer \/ k + 1 >= Here.blen
  <2>1. Word(k) = 0
    BY <1>3 DEF Word, U16le
  <2> QED
    BY <2>1 DEF Short
<1>4. CASE ~(buf.memory = NoBuffer \/ k + 1 >= Here.blen)
  <2>1. Byte(k) = buf.memory[Here.off + k]
    BY <1>2, <1>4 DEF Byte, U8
  <2>2. Byte(k + 1) = buf.memory[Here.off + (k + 1)]
    BY <1>4 DEF Byte, U8
  <2>3. Here.off + (k + 1) = Here.off + k + 1
    BY FoundInside DEF Iterator
  <2>4. Word(k) = Byte(k) + 256 * Byte(k + 1)
    BY <1>4, <2>1, <2>2, <2>3 DEF Word, U16le
  <2> QED
    <3>1. PICK a \in Nat, b \in Nat :
            a = Byte(k) /\ b = Byte(k + 1) /\ a <= 255 /\ b <= 255
      <4>1. Octet \subseteq Nat /\ \A n \in Octet : n <= 255
        BY DEF Octet
      <4> QED
        BY <1>1, <4>1
    <3>2. a + 256 * b \in Short
      BY <3>1 DEF Short
    <3> QED
      BY <2>4, <3>1, <3>2
<1> QED
  BY <1>3, <1>4

(* The list a descriptor claims is recorded within the limit.              *)
LEMMA EntriesFit ==
  ASSUME IInv, Walks, NEW claimed \in Nat, NEW cap \in Nat, NEW region \in Nat,
         NEW from \in Nat
  PROVE  /\ Entries(claimed, cap, region, from) \in Seq(Octet)
         /\ Len(Entries(claimed, cap, region, from)) <= cap
<1>1. PICK n \in Nat : n = Lesser(Lesser(claimed, cap), region) /\ n <= cap
  BY DEF Lesser
<1>2. \A k \in 1..n : Byte(from + k - 1) \in Octet
  <2> SUFFICES ASSUME NEW k \in 1..n PROVE Byte(from + k - 1) \in Octet
    OBVIOUS
  <2>1. from + k - 1 \in Nat
    OBVIOUS
  <2> QED
    BY <2>1, ByteIsOctet
<1>3. Entries(claimed, cap, region, from) = [k \in 1..n |-> Byte(from + k - 1)]
  BY <1>1 DEF Entries
<1> QED
  BY <1>1, <1>2, <1>3

(* um9_ms_add_jack never writes past the jacks, and counts each one by its *)
(* direction.                                                              *)
LEMMA AddJackFits ==
  ASSUME IInv, Walks, InfoFits(info), NEW direction \in {"in", "out"},
         NEW sources \in Seq(Octet), Len(sources) <= MaxJackSources
  PROVE  InfoFits(AddJack(direction, sources))
<1>1. CASE Len(info.jacks) >= MaxJacks
  BY <1>1 DEF AddJack
<1>2. CASE ~(Len(info.jacks) >= MaxJacks)
  <2>1. PICK jack \in Jack : jack = [id |-> Byte(4), type |-> Byte(3),
                                     direction |-> direction, sources |-> sources]
    <3>1. Byte(4) \in Octet /\ Byte(3) \in Octet
      BY ByteIsOctet
    <3> QED
      BY <3>1 DEF Jack
  <2>2. Len(jack.sources) <= MaxJackSources
    BY <2>1
  <2>3. PICK jacks \in Seq(Jack) : jacks = info.jacks
    BY DEF InfoFits, Info
  <2>4. PICK more \in Seq(Jack) : /\ more = Append(jacks, jack) /\ Len(more) = Len(jacks) + 1
                                  /\ \A k \in 1..Len(jacks) : more[k] = jacks[k]
                                  /\ more[Len(jacks) + 1] = jack
    <3>1. Append(jacks, jack) \in Seq(Jack)
      OBVIOUS
    <3> QED
      BY <3>1, AppendProperties
  <2>5. PICK in \in Nat, out \in Nat :
          /\ in = info.inJacks + (IF direction = "in" THEN 1 ELSE 0)
          /\ out = info.outJacks + (IF direction = "out" THEN 1 ELSE 0)
          /\ in + out = Len(more)
    <3>1. info.inJacks \in Nat /\ info.outJacks \in Nat
          /\ info.inJacks + info.outJacks = Len(jacks)
      BY <2>3 DEF InfoFits, Info, JacksFit
    <3>2. PICK n \in Nat, a \in Nat, b \in Nat :
            n = Len(jacks) /\ a = info.inJacks /\ b = info.outJacks
      BY <3>1, LenProperties
    <3>3. Len(more) = n + 1 /\ a + b = n
      BY <2>4, <3>1, <3>2
    <3>4. CASE direction = "in"
      <4>1. a + 1 \in Nat /\ (a + 1) + b = n + 1
        BY <3>3
      <4>2. info.inJacks + (IF direction = "in" THEN 1 ELSE 0) = a + 1
            /\ info.outJacks + (IF direction = "out" THEN 1 ELSE 0) = b
        BY <3>2, <3>4
      <4> QED
        BY <3>3, <4>1, <4>2
    <3>5. CASE direction = "out"
      <4>1. b + 1 \in Nat /\ a + (b + 1) = n + 1
        BY <3>3
      <4>2. info.inJacks + (IF direction = "in" THEN 1 ELSE 0) = a
            /\ info.outJacks + (IF direction = "out" THEN 1 ELSE 0) = b + 1
        BY <3>2, <3>5
      <4> QED
        BY <3>3, <4>1, <4>2
    <3> QED
      BY <3>4, <3>5
  <2>6. AddJack(direction, sources) =
          [info EXCEPT !.jacks = more, !.inJacks = in, !.outJacks = out]
    BY <1>2, <2>1, <2>3, <2>4, <2>5 DEF AddJack, InfoFits, Info
  <2>7. PICK of \in Info : of = AddJack(direction, sources) /\ of.jacks = more
                           /\ of.inJacks = in /\ of.outJacks = out
                           /\ of.endpoints = info.endpoints
    BY <2>6 DEF InfoFits, Info
  <2>8. \A k \in 1..Len(more) : Len(more[k].sources) <= MaxJackSources
    <3> SUFFICES ASSUME NEW k \in 1..Len(more) PROVE Len(more[k].sources) <= MaxJackSources
      OBVIOUS
    <3>1. CASE k \in 1..Len(jacks)
      BY <2>3, <2>4, <3>1 DEF InfoFits, JacksFit
    <3>2. CASE k = Len(jacks) + 1
      BY <2>2, <2>4, <3>2
    <3> QED
      BY <2>4, <3>1, <3>2
  <2>9. Len(more) <= MaxJacks
    BY <1>2, <2>3, <2>4, CapsAssumption
  <2> QED
    BY <2>5, <2>7, <2>8, <2>9 DEF InfoFits, JacksFit, EndpointsFit
<1> QED
  BY <1>1, <1>2

(* um9_ms_add_endpoint never writes past the endpoints.                    *)
LEMMA AddEndpointFits ==
  ASSUME InfoFits(info), NEW one \in BulkEndpoint, Len(one.embedded) <= MaxEmbedded,
         Len(info.endpoints) < MaxEndpoints
  PROVE  InfoFits([info EXCEPT !.endpoints = Append(@, one)])
<1>1. PICK old \in Seq(BulkEndpoint) : old = info.endpoints
  BY DEF InfoFits, Info
<1>2. PICK more \in Seq(BulkEndpoint) : /\ more = Append(old, one) /\ Len(more) = Len(old) + 1
                                        /\ \A k \in 1..Len(old) : more[k] = old[k]
                                        /\ more[Len(old) + 1] = one
  <2>1. Append(old, one) \in Seq(BulkEndpoint)
    OBVIOUS
  <2> QED
    BY <2>1, AppendProperties
<1>3. PICK of \in Info : /\ of = [info EXCEPT !.endpoints = Append(@, one)]
                         /\ of.endpoints = more /\ of.jacks = info.jacks
                         /\ of.inJacks = info.inJacks /\ of.outJacks = info.outJacks
  <2> DEFINE new == [info EXCEPT !.endpoints = Append(@, one)]
  <2>1. new \in Info
    BY <1>1, <1>2 DEF Info, InfoFits
  <2>2. /\ new.jacks = info.jacks /\ new.inJacks = info.inJacks
        /\ new.outJacks = info.outJacks /\ new.endpoints = more
    BY <1>1, <1>2 DEF Info, InfoFits
  <2> HIDE DEF new
  <2> QED
    BY <2>1, <2>2 DEF new
<1>4. \A k \in 1..Len(more) : Len(more[k].embedded) <= MaxEmbedded
  <2> SUFFICES ASSUME NEW k \in 1..Len(more) PROVE Len(more[k].embedded) <= MaxEmbedded
    OBVIOUS
  <2>1. CASE k \in 1..Len(old)
    BY <1>1, <1>2, <2>1 DEF InfoFits, EndpointsFit
  <2>2. CASE k = Len(old) + 1
    BY <1>2, <2>2
  <2> QED
    BY <1>2, <2>1, <2>2
<1>5. Len(more) <= MaxEndpoints
  BY <1>1, <1>2, CapsAssumption
<1> QED
  BY <1>3, <1>4, <1>5 DEF InfoFits, JacksFit, EndpointsFit

(* The numbers of um9_ms_info are what the descriptors say.                *)
LEMMA NumbersFit ==
  ASSUME InfoFits(info), NEW a \in Short, NEW b \in Short,
         NEW x \in Octet, NEW y \in Octet, NEW z \in Octet
  PROVE  /\ InfoFits([info EXCEPT !.vid = a, !.pid = b])
         /\ InfoFits([info EXCEPT !.bcd = a, !.total = b])
         /\ InfoFits([info EXCEPT !.found = TRUE, !.number = x, !.alternate = y,
                                  !.declared = z])
<1>1. info \in Info /\ JacksFit(info) /\ EndpointsFit(info)
  BY DEF InfoFits
<1>2. PICK of \in Info : /\ of = [info EXCEPT !.vid = a, !.pid = b]
                         /\ of.jacks = info.jacks /\ of.inJacks = info.inJacks
                         /\ of.outJacks = info.outJacks /\ of.endpoints = info.endpoints
  <2> DEFINE new == [info EXCEPT !.vid = a, !.pid = b]
  <2>1. new \in Info
    BY <1>1 DEF Info
  <2>2. /\ new.jacks = info.jacks /\ new.inJacks = info.inJacks
        /\ new.outJacks = info.outJacks /\ new.endpoints = info.endpoints
    BY <1>1 DEF Info
  <2> HIDE DEF new
  <2> QED
    BY <2>1, <2>2 DEF new
<1>3. InfoFits(of)
  BY <1>1, <1>2 DEF InfoFits, JacksFit, EndpointsFit
<1>4. PICK head \in Info : /\ head = [info EXCEPT !.bcd = a, !.total = b]
                           /\ head.jacks = info.jacks /\ head.inJacks = info.inJacks
                           /\ head.outJacks = info.outJacks
                           /\ head.endpoints = info.endpoints
  <2> DEFINE new == [info EXCEPT !.bcd = a, !.total = b]
  <2>1. new \in Info
    BY <1>1 DEF Info
  <2>2. /\ new.jacks = info.jacks /\ new.inJacks = info.inJacks
        /\ new.outJacks = info.outJacks /\ new.endpoints = info.endpoints
    BY <1>1 DEF Info
  <2> HIDE DEF new
  <2> QED
    BY <2>1, <2>2 DEF new
<1>5. InfoFits(head)
  BY <1>1, <1>4 DEF InfoFits, JacksFit, EndpointsFit
<1>6. PICK ms \in Info : /\ ms = [info EXCEPT !.found = TRUE, !.number = x,
                                              !.alternate = y, !.declared = z]
                         /\ ms.jacks = info.jacks /\ ms.inJacks = info.inJacks
                         /\ ms.outJacks = info.outJacks /\ ms.endpoints = info.endpoints
  <2> DEFINE new == [info EXCEPT !.found = TRUE, !.number = x, !.alternate = y, !.declared = z]
  <2>1. new \in Info
    BY <1>1 DEF Info
  <2>2. /\ new.jacks = info.jacks /\ new.inJacks = info.inJacks
        /\ new.outJacks = info.outJacks /\ new.endpoints = info.endpoints
    BY <1>1 DEF Info
  <2> HIDE DEF new
  <2> QED
    BY <2>1, <2>2 DEF new
<1>7. InfoFits(ms)
  BY <1>1, <1>6 DEF InfoFits, JacksFit, EndpointsFit
<1> QED
  BY <1>2, <1>3, <1>4, <1>5, <1>6, <1>7

(* A turn of the loop of um9_ms_parse.                                     *)
LEMMA LoopRecords ==
  ASSUME IInv, Recorded, LoopTurn
  PROVE  Recorded'
<1>1. /\ Walks /\ InfoFits(info) /\ inMs \in BOOLEAN /\ ep \in EndpointInForce
  BY LoopTurnMoves DEF Recorded
<1>2. SUFFICES inMs' \in BOOLEAN /\ ep' \in EndpointInForce /\ InfoFits(info')
  BY DEF Recorded, InfoFits, JacksFit, EndpointsFit
<1>3. CASE Device
  <2>1. Word(8) \in Short /\ Word(10) \in Short /\ Byte(2) \in Octet
    BY <1>1, WordInRange, ByteIsOctet
  <2> QED
    BY <1>1, <1>3, <2>1, NumbersFit, Zenon DEF Device
<1>4. CASE FindMs
  <2>1. Word(8) \in Short /\ Byte(2) \in Octet /\ Byte(3) \in Octet /\ Byte(4) \in Octet
    BY <1>1, WordInRange, ByteIsOctet
  <2> QED
    BY <1>1, <1>4, <2>1, NumbersFit, Zenon DEF FindMs
<1>5. CASE SkipBefore \/ LeaveMs \/ SkipInside
  BY <1>1, <1>5 DEF SkipBefore, LeaveMs, SkipInside
<1>6. CASE Endpoint
  <2>1. Byte(2) \in Octet /\ Byte(3) \in Octet /\ Word(4) \in Short
    BY <1>1, WordInRange, ByteIsOctet
  <2> QED
    BY <1>1, <1>6, <2>1 DEF Endpoint, EndpointInForce
<1>7. CASE Header
  <2>1. Word(3) \in Short /\ Word(5) \in Short /\ Byte(2) \in Octet
    BY <1>1, WordInRange, ByteIsOctet
  <2> QED
    BY <1>1, <1>7, <2>1, NumbersFit, Zenon DEF Header
<1>8. CASE InJack
  <2>1. PICK none \in Seq(Octet) : none = <<>> /\ Len(none) <= MaxJackSources
    <3>1. <<>> \in Seq(Octet) /\ Len(<<>>) = 0
      OBVIOUS
    <3>2. 0 <= MaxJackSources
      BY CapsAssumption
    <3> QED
      BY <3>1, <3>2
  <2> QED
    BY <1>1, <1>8, <2>1, AddJackFits DEF InJack
<1>9. CASE OutJack
  <2>1. Here.blen \in Nat /\ Here.blen >= 9
    <3>1. Here.blen >= 9
      BY <1>9 DEF OutJack, IsOutJack
    <3>2. Here \in Iterator
      BY <1>1, FoundInside
    <3> QED
      BY <3>1, <3>2 DEF Iterator
  <2>2. Byte(5) \in Nat /\ Here.blen - 7 \in Nat /\ MaxJackSources \in Nat
    BY <1>1, <2>1, ByteIsOctet, CapsAssumption DEF Octet
  <2>3. PICK list \in Seq(Octet) : /\ list = Entries(Byte(5), MaxJackSources, Here.blen - 7, 6)
                                   /\ Len(list) <= MaxJackSources
    BY <1>1, <2>2, EntriesFit
  <2> QED
    BY <1>1, <1>9, <2>3, AddJackFits DEF OutJack
<1>10. CASE General
  <2>1. Here.blen \in Nat /\ Here.blen >= 5
    <3>1. Here.blen >= 5
      BY <1>10 DEF General, IsGeneral
    <3>2. Here \in Iterator
      BY <1>1, FoundInside
    <3> QED
      BY <3>1, <3>2 DEF Iterator
  <2>2. Byte(3) \in Nat /\ Here.blen - 4 \in Nat /\ MaxEmbedded \in Nat
    BY <1>1, <2>1, ByteIsOctet, CapsAssumption DEF Octet
  <2>3. PICK list \in Seq(Octet) : /\ list = Entries(Byte(3), MaxEmbedded, Here.blen - 4, 4)
                                   /\ Len(list) <= MaxEmbedded
    BY <1>1, <2>2, EntriesFit
  <2>4. PICK one \in BulkEndpoint : one = [ep |-> ep, embedded |-> list]
    BY <1>1 DEF BulkEndpoint
  <2>5. Len(one.embedded) <= MaxEmbedded
    BY <2>3, <2>4
  <2>6. inMs' = inMs /\ ep' = ep
    BY <1>10 DEF General
  <2>7. CASE Len(info.endpoints) >= MaxEndpoints
    BY <1>1, <1>10, <2>6, <2>7 DEF General
  <2>8. CASE ~(Len(info.endpoints) >= MaxEndpoints)
    <3>1. Len(info.endpoints) \in Nat
      BY <1>1, LenProperties DEF InfoFits, Info
    <3>2. Len(info.endpoints) < MaxEndpoints
      BY <2>8, <3>1, CapsAssumption
    <3>3. info' = [info EXCEPT !.endpoints = Append(@, one)]
      BY <1>10, <2>3, <2>4, <2>8 DEF General
    <3>4. InfoFits(info')
      BY <1>1, <2>5, <3>2, <3>3, AddEndpointFits
    <3> QED
      BY <1>1, <2>6, <3>4
  <2> QED
    BY <2>7, <2>8
<1> QED
  BY <1>3, <1>4, <1>5, <1>6, <1>7, <1>8, <1>9, <1>10 DEF LoopTurn

(* A turn leaves the ports alone, but for the last one, which empties      *)
(* them.                                                                   *)
LEMMA LoopDerives ==
  ASSUME Deriving, LoopTurn
  PROVE  Deriving'
<1>1. at = "walk" /\ cursor' = cursor /\ result' = result
      /\ \/ at' = "walk" /\ ports' = ports
         \/ at' = "derive" /\ ports' = <<>>
  BY DEF LoopTurn, Device, FindMs, SkipBefore, LeaveMs, Endpoint, Header, InJack, OutJack,
         General, SkipInside, Before, Inside, Moves, Walks
<1>2. <<>> \in Seq(Port) /\ Len(<<>>) <= MaxPorts
  <2>1. <<>> \in Seq(Port) /\ Len(<<>>) = 0
    OBVIOUS
  <2> QED
    BY <2>1, CapsAssumption
<1> QED
  BY <1>1, <1>2 DEF Deriving, PortsFit

(* um9_ports_from_ms stops at the last port that fits.                     *)
LEMMA NextPortFits ==
  ASSUME Recorded, Deriving, NextPort
  PROVE  Deriving'
<1>1. /\ at = "derive" /\ at' = at /\ result' = result
      /\ cursor.e <= Len(info.endpoints) /\ cursor.i < Len(Current.embedded)
      /\ Len(ports) < MaxPorts
  BY DEF NextPort, HasJack, HasEndpoint
<1>2. /\ ports \in Seq(Port) /\ result \in 0..1
      /\ cursor \in [e : Nat \ {0}, i : Nat]
  BY <1>1 DEF Deriving, PortsFit
<1>3. PICK e \in Nat \ {0}, i \in Nat : e = cursor.e /\ i = cursor.i
  BY <1>2
<1>4. PICK list \in Seq(BulkEndpoint) : list = info.endpoints /\ e <= Len(list)
  <2>1. info.endpoints \in Seq(BulkEndpoint)
    BY DEF Recorded, InfoFits, Info
  <2> QED
    BY <1>1, <1>3, <2>1
<1>5. PICK one \in BulkEndpoint : one = Current
  <2>1. e \in 1..Len(list)
    BY <1>4, LenProperties
  <2>2. list[e] \in BulkEndpoint
    BY <2>1, ElementOfSeq
  <2> QED
    BY <1>3, <1>4, <2>2 DEF Current
<1>6. one.embedded \in Seq(Octet) /\ one.ep.address \in Octet
  BY DEF BulkEndpoint, EndpointInForce
<1>7. one.embedded[i + 1] \in Octet
  <2>1. i < Len(one.embedded)
    BY <1>1, <1>3, <1>5
  <2>2. i + 1 \in 1..Len(one.embedded)
    BY <1>6, <2>1, LenProperties
  <2> QED
    BY <1>6, <2>2, ElementOfSeq
<1>8. PICK port \in Port :
        port = [address |-> one.ep.address, direction |-> Direction(one.ep.address),
                cable |-> i, jack |-> one.embedded[i + 1]]
  <2>1. Direction(one.ep.address) \in {"in", "out"}
    BY DEF Direction
  <2> QED
    BY <1>6, <1>7, <2>1 DEF Port
<1>9. ports' = Append(ports, port)
  BY <1>3, <1>5, <1>8 DEF NextPort
<1>10. ports' \in Seq(Port) /\ Len(ports') = Len(ports) + 1
  BY <1>2, <1>9, AppendProperties
<1>11. Len(ports') <= MaxPorts
  BY <1>1, <1>2, <1>10, CapsAssumption, LenProperties
<1>12. cursor' \in [e : Nat \ {0}, i : Nat]
  <2>1. cursor' = [cursor EXCEPT !.i = @ + 1]
    BY DEF NextPort
  <2> QED
    BY <1>2, <2>1
<1> QED
  BY <1>1, <1>2, <1>10, <1>11, <1>12 DEF Deriving, PortsFit

Types == Recorded /\ Deriving

LEMMA InitTypes == Init => Types
<1> SUFFICES ASSUME Init PROVE Types
  OBVIOUS
<1>1. 0 \in Octet /\ 0 \in Short
  BY DEF Octet, Short
<1>2. inMs \in BOOLEAN /\ ep \in EndpointInForce
  BY <1>1 DEF Init, NoEndpoint, EndpointInForce
<1>3. InfoFits(ZeroInfo)
  <2>1. <<>> \in Seq(Jack) /\ <<>> \in Seq(BulkEndpoint) /\ Len(<<>>) = 0
    OBVIOUS
  <2>2. ZeroInfo \in Info
    BY <1>1, <2>1 DEF ZeroInfo, Info
  <2>3. JacksFit(ZeroInfo) /\ EndpointsFit(ZeroInfo)
    BY <2>1, CapsAssumption DEF ZeroInfo, JacksFit, EndpointsFit
  <2> QED
    BY <2>2, <2>3 DEF InfoFits
<1>4. info = ZeroInfo
  BY DEF Init
<1> QED
  BY <1>2, <1>3, <1>4 DEF Init, Types, Recorded, Deriving

LEMMA StepTypes == IInv /\ Types /\ [Next]_vars => Types'
<1> SUFFICES ASSUME IInv, Types, [Next]_vars PROVE Types'
  OBVIOUS
<1> USE DEF Types
<1>1. CASE LoopTurn
  BY <1>1, LoopRecords, LoopDerives
<1>2. ASSUME UNCHANGED <<inMs, ep, info>> PROVE Recorded'
  BY <1>2 DEF Recorded, InfoFits, JacksFit, EndpointsFit
<1>3. CASE WalkEnds
  <2>1. UNCHANGED <<inMs, ep, info>> /\ UNCHANGED <<cursor, result>>
        /\ at = "walk"
        /\ \/ at' = "done" /\ ports' = ports
           \/ at' = "derive" /\ ports' = <<>>
    BY <1>3 DEF WalkEnds
  <2>2. <<>> \in Seq(Port) /\ Len(<<>>) <= MaxPorts
    <3>1. <<>> \in Seq(Port) /\ Len(<<>>) = 0
      OBVIOUS
    <3> QED
      BY <3>1, CapsAssumption
  <2> QED
    BY <1>2, <2>1, <2>2 DEF Deriving, PortsFit
<1>4. CASE NextPort
  <2>1. UNCHANGED <<inMs, ep, info>>
    BY <1>4 DEF NextPort
  <2> QED
    BY <1>2, <1>4, <2>1, NextPortFits
<1>5. CASE NextEndpoint
  <2>1. UNCHANGED <<inMs, ep, info>> /\ UNCHANGED <<ports, at, result>>
        /\ cursor' = [e |-> cursor.e + 1, i |-> 0]
    BY <1>5 DEF NextEndpoint
  <2>2. cursor' \in [e : Nat \ {0}, i : Nat]
    BY <2>1 DEF Deriving
  <2> QED
    BY <1>2, <2>1, <2>2 DEF Deriving, PortsFit
<1>6. CASE Derived
  <2>1. UNCHANGED <<inMs, ep, info>> /\ UNCHANGED <<ports, cursor>>
        /\ at = "derive" /\ at' = "done" /\ result' = 1
    BY <1>6 DEF Derived
  <2> QED
    BY <1>2, <2>1 DEF Deriving, PortsFit
<1>7. ASSUME NEW b \in Buffers, Parse(b) PROVE Types'
  <2>1. UNCHANGED <<inMs, ep, info>> /\ UNCHANGED <<ports, cursor, result>>
        /\ at = "idle" /\ at' = "walk"
    BY <1>7 DEF Parse
  <2> QED
    BY <1>2, <2>1 DEF Deriving, PortsFit
<1>8. CASE Return
  <2>1. Init'
    BY <1>8 DEF Return, Init
  <2> QED
    BY <2>1, InitTypes, PTL
<1>9. CASE UNCHANGED vars
  BY <1>2, <1>9 DEF vars, Deriving, PortsFit
<1> QED
  BY <1>1, <1>3, <1>4, <1>5, <1>6, <1>7, <1>8, <1>9 DEF Next, Step, LoopTurn

(* No array is written past its end, whatever a device sends and whatever  *)
(* the limits are: um9_ms_info and the caller's ports keep to their sizes, *)
(* each jack counted by its direction.                                     *)
THEOREM PortsTypeCorrect == Spec => []TypeOK
<1>1. IInv /\ Types => TypeOK
  <2> SUFFICES ASSUME IInv, Types PROVE TypeOK
    OBVIOUS
  <2>1. buf.len \in Nat
    BY BuffersAssumption DEF IInv, BufferOK, NoCall
  <2>2. info \in Info /\ JacksFit(info) /\ EndpointsFit(info)
    BY DEF Types, Recorded, InfoFits
  <2>3. ASSUME NEW k \in 1..Len(info.jacks)
        PROVE  info.jacks[k].id \in Octet /\ info.jacks[k].type \in Octet
    <3>1. info.jacks \in Seq(Jack)
      BY <2>2 DEF Info
    <3>2. info.jacks[k] \in Jack
      BY <2>3, <3>1, ElementOfSeq
    <3> QED
      BY <3>2 DEF Jack
  <2>4. ASSUME NEW k \in 1..Len(info.endpoints)
        PROVE  info.endpoints[k].ep \in EndpointInForce
    <3>1. info.endpoints \in Seq(BulkEndpoint)
      BY <2>2 DEF Info
    <3>2. info.endpoints[k] \in BulkEndpoint
      BY <2>4, <3>1, ElementOfSeq
    <3> QED
      BY <3>2 DEF BulkEndpoint
  <2>5. it \in Iterator /\ inMs \in BOOLEAN /\ ep \in EndpointInForce
    BY DEF IInv, Types, Recorded
  <2>6. /\ ports = Garbage \/ Len(ports) <= MaxPorts
        /\ at \in {"idle", "walk", "derive", "done"} /\ result \in 0..1
    BY DEF Types, Deriving, PortsFit
  <2> QED
    BY <2>1, <2>2, <2>3, <2>4, <2>5, <2>6 DEF TypeOK, JacksFit, EndpointsFit
<1> QED
  BY InitIInv, StepIInv, InitTypes, StepTypes, <1>1, PTL DEF Spec

-----------------------------------------------------------------------------
(* What um9_ports_from_ms has derived: all ports of the endpoints before   *)
(* the current one, and those of the first jacks of that one.              *)
Lists(n) == [k \in 1..n |-> PortsOf(info.endpoints[k])]
SoFar(e, i) == FlattenSeq(Lists(e - 1)) \o SubSeq(PortsOf(info.endpoints[e]), 1, i)
AtCursor ==
  /\ cursor.e <= Len(info.endpoints) + 1
  /\ IF cursor.e <= Len(info.endpoints) THEN cursor.i <= Len(Current.embedded)
     ELSE cursor.i = 0
  /\ ports = SoFar(cursor.e, cursor.i)

Mapped ==
  /\ at \in {"idle", "walk"} => ports = Garbage /\ cursor = [e |-> 1, i |-> 0]
  /\ at # "done" => result = 0
  /\ at = "derive" => AtCursor
  /\ MapsCables

(* The ports of an endpoint are what NextPort makes of its jacks.          *)
LEMMA PortsOfTyped ==
  ASSUME NEW one \in BulkEndpoint
  PROVE  /\ PortsOf(one) \in Seq(Port) /\ Len(PortsOf(one)) = Len(one.embedded)
         /\ \A i \in Nat : i < Len(one.embedded) =>
              PortsOf(one)[i + 1] =
                [address |-> one.ep.address, direction |-> Direction(one.ep.address),
                 cable |-> i, jack |-> one.embedded[i + 1]]
<1>1. PICK list \in Seq(Octet), a \in Octet : list = one.embedded /\ a = one.ep.address
  BY DEF BulkEndpoint, EndpointInForce
<1>2. PICK n \in Nat : n = Len(list) /\ \A k \in 1..n : list[k] \in Octet
  BY LenProperties, ElementOfSeq
<1>3. PICK dir \in {"in", "out"} : /\ dir = Direction(a)
                                   /\ dir = IF a < 128 THEN "out" ELSE "in"
  BY DEF Direction, Octet
<1>4. PortsOf(one) = [k \in 1..n |-> [address |-> a, direction |-> dir,
                                      cable |-> k - 1, jack |-> list[k]]]
  BY <1>1, <1>2, <1>3 DEF PortsOf
<1>5. ASSUME NEW k \in 1..n
      PROVE  [address |-> a, direction |-> dir, cable |-> k - 1, jack |-> list[k]] \in Port
  <2>1. k - 1 \in Nat /\ list[k] \in Octet
    BY <1>2
  <2> QED
    BY <2>1 DEF Port
<1>6. PortsOf(one) \in Seq(Port) /\ Len(PortsOf(one)) = n
  BY <1>4, <1>5
<1>7. ASSUME NEW i \in Nat, i < n
      PROVE  PortsOf(one)[i + 1] = [address |-> a, direction |-> dir, cable |-> i,
                                    jack |-> list[i + 1]]
  <2>1. i + 1 \in 1..n /\ (i + 1) - 1 = i
    BY <1>7
  <2> QED
    BY <1>4, <2>1
<1> QED
  BY <1>1, <1>2, <1>3, <1>6, <1>7

LEMMA ListsTyped ==
  ASSUME Recorded, NEW n \in 0..Len(info.endpoints)
  PROVE  /\ Lists(n) \in Seq(Seq(Port)) /\ Len(Lists(n)) = n
         /\ FlattenSeq(Lists(n)) \in Seq(Port)
         /\ \A k \in 1..n : info.endpoints[k] \in BulkEndpoint
                            /\ PortsOf(info.endpoints[k]) \in Seq(Port)
<1>1. info.endpoints \in Seq(BulkEndpoint)
  BY DEF Recorded, InfoFits, Info
<1>2. PICK m \in Nat : m = Len(info.endpoints)
                       /\ \A k \in 1..m : info.endpoints[k] \in BulkEndpoint
  BY <1>1, LenProperties, ElementOfSeq
<1>3. n \in Nat /\ \A k \in 1..n : k \in 1..m
  BY <1>2
<1>4. \A k \in 1..n : info.endpoints[k] \in BulkEndpoint
                      /\ PortsOf(info.endpoints[k]) \in Seq(Port)
  BY <1>2, <1>3, PortsOfTyped
<1>5. Lists(n) \in Seq(Seq(Port)) /\ Len(Lists(n)) = n
  BY <1>3, <1>4 DEF Lists
<1>6. FlattenSeq(Lists(n)) \in Seq(Port)
  BY <1>5, FlattenTyped
<1> QED
  BY <1>4, <1>5, <1>6

(* All ports of one more endpoint.                                         *)
LEMMA ListsGrow ==
  ASSUME Recorded, NEW e \in 1..Len(info.endpoints)
  PROVE  FlattenSeq(Lists(e)) = FlattenSeq(Lists(e - 1)) \o PortsOf(info.endpoints[e])
<1>1. PICK n \in Nat : n = Len(info.endpoints)
  BY LenProperties DEF Recorded, InfoFits, Info
<1>2. e - 1 \in 0..Len(info.endpoints) /\ e \in 0..Len(info.endpoints) /\ e \in 1..e
      /\ e - 1 \in Nat /\ (e - 1) + 1 = e
  BY <1>1
<1>3. PICK old \in Seq(Seq(Port)) : old = Lists(e - 1) /\ Len(old) = e - 1
  BY <1>2, ListsTyped
<1>4. PICK one \in Seq(Port) : one = PortsOf(info.endpoints[e])
  BY <1>2, ListsTyped
<1>5. PICK more \in Seq(Seq(Port)) : more = Lists(e) /\ Len(more) = e
  BY <1>2, ListsTyped
<1>6. \A k \in 1..Len(old) : more[k] = old[k]
  <2> SUFFICES ASSUME NEW k \in 1..(e - 1) PROVE more[k] = old[k]
    BY <1>3
  <2>1. k \in 1..e
    OBVIOUS
  <2> QED
    BY <1>3, <1>5, <2>1 DEF Lists
<1>7. Len(more) = Len(old) + 1 /\ more[Len(old) + 1] = one
  BY <1>2, <1>3, <1>4, <1>5 DEF Lists
<1>8. more = Append(old, one)
  BY <1>6, <1>7, LongerByOne
<1>9. FlattenSeq(Append(old, one)) = FlattenSeq(old) \o one
  BY FlattenAppend
<1> QED
  BY <1>3, <1>4, <1>5, <1>8, <1>9

(* What is derived is the front of the ports up to the current endpoint's, *)
(* and these are the front of all ports.                                   *)
LEMMA SoFarOfEndpoint ==
  ASSUME Recorded, NEW e \in 1..Len(info.endpoints),
         NEW i \in 0..Len(info.endpoints[e].embedded)
  PROVE  /\ SoFar(e, i) \in Seq(Port)
         /\ \E back \in Seq(Port) : FlattenSeq(Lists(e)) = SoFar(e, i) \o back
<1>1. e - 1 \in 0..Len(info.endpoints) /\ e \in 0..Len(info.endpoints) /\ e \in 1..e
  <2>1. Len(info.endpoints) \in Nat
    BY LenProperties DEF Recorded, InfoFits, Info
  <2> QED
    BY <2>1
<1>2. PICK before \in Seq(Port) : before = FlattenSeq(Lists(e - 1))
  BY <1>1, ListsTyped
<1>3. PICK one \in Seq(Port) : /\ one = PortsOf(info.endpoints[e])
                               /\ Len(one) = Len(info.endpoints[e].embedded)
  <2>1. info.endpoints[e] \in BulkEndpoint
    BY <1>1, ListsTyped
  <2> QED
    BY <2>1, PortsOfTyped
<1>4. /\ SubSeq(one, 1, i) \in Seq(Port) /\ SubSeq(one, i + 1, Len(one)) \in Seq(Port)
      /\ one = SubSeq(one, 1, i) \o SubSeq(one, i + 1, Len(one))
  <2>1. i \in 0..Len(one)
    BY <1>3
  <2> QED
    BY <2>1, CutInTwo
<1>5. PICK front \in Seq(Port), back \in Seq(Port) :
        front = SubSeq(one, 1, i) /\ one = front \o back
  BY <1>4
<1>6. before \o front \in Seq(Port)
  BY ConcatProperties
<1>7. (before \o front) \o back = before \o (front \o back)
  BY ConcatAssociative, SMTT(30)
<1>8. FlattenSeq(Lists(e)) = before \o one
  BY <1>2, <1>3, ListsGrow
<1>9. SoFar(e, i) = before \o front
  BY <1>2, <1>3, <1>5 DEF SoFar
<1> QED
  BY <1>5, <1>6, <1>7, <1>8, <1>9

LEMMA ListsAreFront ==
  ASSUME Recorded, NEW e \in 1..Len(info.endpoints)
  PROVE  \E later \in Seq(Port) : PortsOfAll = FlattenSeq(Lists(e)) \o later
<1>1. PICK n \in Nat : n = Len(info.endpoints) /\ e \in 1..n
  BY LenProperties DEF Recorded, InfoFits, Info
<1>2. e \in 0..n /\ n \in 0..n
  BY <1>1
<1>3. PICK all \in Seq(Seq(Port)) : all = Lists(n) /\ Len(all) = n
  BY <1>1, <1>2, ListsTyped
<1>4. /\ SubSeq(all, 1, e) \in Seq(Seq(Port))
      /\ SubSeq(all, e + 1, Len(all)) \in Seq(Seq(Port))
      /\ all = SubSeq(all, 1, e) \o SubSeq(all, e + 1, Len(all))
  <2>1. PICK R : R = Seq(Port)
    OBVIOUS
  <2>2. all \in Seq(R) /\ e \in 0..Len(all)
    BY <1>2, <1>3, <2>1
  <2>3. /\ SubSeq(all, 1, e) \in Seq(R) /\ SubSeq(all, e + 1, Len(all)) \in Seq(R)
        /\ all = SubSeq(all, 1, e) \o SubSeq(all, e + 1, Len(all))
    BY <2>2, CutInTwo, SMTT(30)
  <2> QED
    BY <2>1, <2>3
<1>5. PICK first \in Seq(Seq(Port)), rest \in Seq(Seq(Port)) :
        first = SubSeq(all, 1, e) /\ all = first \o rest
  BY <1>4
<1>6. first = Lists(e)
  <2>1. PICK mine \in Seq(Seq(Port)) : mine = Lists(e) /\ Len(mine) = e
    BY <1>1, <1>2, ListsTyped
  <2>2. Len(first) = e /\ \A k \in 1..e : first[k] = all[k]
    BY <1>2, <1>1, <1>3, <1>5
  <2>3. \A k \in 1..e : mine[k] = all[k]
    BY <1>1, <1>3, <2>1 DEF Lists
  <2> QED
    BY <2>1, <2>2, <2>3, SeqEqual
<1>7. PortsOfAll = FlattenSeq(all)
  BY <1>1, <1>3 DEF PortsOfAll, Lists
<1>8. FlattenSeq(rest) \in Seq(Port) /\ FlattenSeq(first \o rest) = FlattenSeq(first) \o FlattenSeq(rest)
  BY FlattenTyped, FlattenConcat
<1> QED
  BY <1>5, <1>6, <1>7, <1>8

LEMMA SoFarIsFront ==
  ASSUME Recorded, NEW e \in 1..Len(info.endpoints),
         NEW i \in 0..Len(info.endpoints[e].embedded)
  PROVE  /\ SoFar(e, i) \in Seq(Port)
         /\ \E tail \in Seq(Port) : PortsOfAll = SoFar(e, i) \o tail
<1>1. PICK sofar \in Seq(Port), back \in Seq(Port) :
        sofar = SoFar(e, i) /\ FlattenSeq(Lists(e)) = sofar \o back
  BY SoFarOfEndpoint
<1>2. PICK later \in Seq(Port) : PortsOfAll = FlattenSeq(Lists(e)) \o later
  BY ListsAreFront
<1>3. (sofar \o back) \o later = sofar \o (back \o later)
  BY ConcatAssociative, SMTT(60)
<1>4. back \o later \in Seq(Port)
  BY ConcatProperties
<1> QED
  BY <1>1, <1>2, <1>3, <1>4

(* Each step of um9_ports_from_ms stays at the cursor.                     *)
LEMMA MovedCursor ==
  ASSUME info' = info, NEW e \in Nat, NEW i \in Nat, cursor' = [e |-> e, i |-> i],
         e <= Len(info.endpoints) + 1,
         IF e <= Len(info.endpoints) THEN i <= Len(info.endpoints[e].embedded) ELSE i = 0,
         ports' = SoFar(e, i)
  PROVE  AtCursor'
<1>1. cursor'.e = e /\ cursor'.i = i
  OBVIOUS
<1>2. SoFar(cursor.e, cursor.i)' = SoFar(e, i)
  <2>1. SoFar(cursor.e, cursor.i)' = SoFar(cursor'.e, cursor'.i)
    BY DEF SoFar, Lists
  <2> QED
    BY <1>1, <2>1
<1>3. (Len(info.endpoints) + 1)' = Len(info.endpoints) + 1
      /\ Len(info.endpoints)' = Len(info.endpoints)
  OBVIOUS
<1>4. Len(Current.embedded)' = Len(info.endpoints[e].embedded)
  BY <1>1 DEF Current
<1> QED
  BY <1>1, <1>2, <1>3, <1>4 DEF AtCursor

LEMMA NextPortMaps ==
  ASSUME Types, AtCursor, NextPort
  PROVE  AtCursor'
<1>1. /\ info' = info /\ cursor.e <= Len(info.endpoints)
      /\ cursor.i < Len(Current.embedded)
      /\ cursor \in [e : Nat \ {0}, i : Nat] /\ Recorded
  BY DEF NextPort, HasJack, HasEndpoint, Types, Deriving
<1>2. PICK e \in Nat \ {0}, i \in Nat : e = cursor.e /\ i = cursor.i
  BY <1>1
<1>3. PICK n \in Nat : n = Len(info.endpoints) /\ e \in 1..n /\ n \in 0..n
  BY <1>1, <1>2, LenProperties DEF Recorded, InfoFits, Info
<1>4. PICK one \in BulkEndpoint : one = info.endpoints[e]
  BY <1>1, <1>3, ListsTyped
<1>5. PICK s \in Seq(Port) : s = PortsOf(one) /\ Len(s) = Len(one.embedded)
  BY PortsOfTyped
<1>6. i < Len(s) /\ Current = one
  BY <1>1, <1>2, <1>4, <1>5 DEF Current
<1>7. s[i + 1] = [address |-> one.ep.address, direction |-> Direction(one.ep.address),
                  cable |-> i, jack |-> one.embedded[i + 1]]
  BY <1>5, <1>6, PortsOfTyped
<1>8. ports' = Append(ports, s[i + 1])
  BY <1>2, <1>6, <1>7 DEF NextPort
<1>9. s[i + 1] \in Port
  <2>1. i + 1 \in 1..Len(s)
    BY <1>6, LenProperties
  <2> QED
    BY <2>1, ElementOfSeq
<1>10. PICK front \in Seq(Port) : /\ front = SubSeq(s, 1, i)
                                  /\ SubSeq(s, 1, i + 1) = Append(front, s[i + 1])
  BY <1>6, FrontGrows
<1>11. PICK before \in Seq(Port) : before = FlattenSeq(Lists(e - 1))
  <2>1. e - 1 \in 0..Len(info.endpoints)
    BY <1>3
  <2> QED
    BY <1>1, <2>1, ListsTyped
<1>12. ports = before \o front
  BY <1>2, <1>4, <1>5, <1>10, <1>11 DEF AtCursor, SoFar
<1>13. before \o Append(front, s[i + 1]) = Append(before \o front, s[i + 1])
  BY <1>9, ConcatSnoc
<1>14. ports' = SoFar(e, i + 1)
  BY <1>4, <1>5, <1>8, <1>10, <1>11, <1>12, <1>13 DEF SoFar
<1>15. cursor' = [e |-> e, i |-> i + 1]
  BY <1>1, <1>2 DEF NextPort
<1>16. i + 1 <= Len(one.embedded) /\ e <= n
  BY <1>3, <1>5, <1>6, LenProperties
<1>17. i + 1 <= Len(info.endpoints[e].embedded) /\ e <= Len(info.endpoints)
       /\ e <= Len(info.endpoints) + 1 /\ i + 1 \in Nat
  BY <1>3, <1>4, <1>16
<1> QED
  BY <1>1, <1>14, <1>15, <1>17, MovedCursor

LEMMA NextEndpointMaps ==
  ASSUME Types, AtCursor, NextEndpoint
  PROVE  AtCursor'
<1>1. /\ info' = info /\ ports' = ports /\ cursor.e <= Len(info.endpoints)
      /\ ~(cursor.i < Len(Current.embedded))
      /\ cursor' = [e |-> cursor.e + 1, i |-> 0]
      /\ cursor \in [e : Nat \ {0}, i : Nat] /\ Recorded
  BY DEF NextEndpoint, HasJack, HasEndpoint, Types, Deriving
<1>2. PICK e \in Nat \ {0}, i \in Nat : e = cursor.e /\ i = cursor.i
  BY <1>1
<1>3. PICK n \in Nat : n = Len(info.endpoints) /\ e \in 1..n /\ n \in 0..n
  BY <1>1, <1>2, LenProperties DEF Recorded, InfoFits, Info
<1>4. PICK one \in BulkEndpoint : one = info.endpoints[e]
  BY <1>1, <1>3, ListsTyped
<1>5. PICK s \in Seq(Port) : s = PortsOf(one) /\ Len(s) = Len(one.embedded)
  BY PortsOfTyped
<1>6. Current = one
  BY <1>2, <1>4 DEF Current
<1>7. i = Len(s)
  <2>1. i <= Len(s) /\ ~(i < Len(s))
    BY <1>1, <1>2, <1>5, <1>6 DEF AtCursor
  <2> QED
    BY <2>1, LenProperties
<1>8. ports = FlattenSeq(Lists(e - 1)) \o s
  <2>1. SubSeq(s, 1, i) = s
    BY <1>7, SubSeqFull
  <2> QED
    BY <1>2, <1>4, <1>5, <2>1 DEF AtCursor, SoFar
<1>9. PICK all \in Seq(Port) : all = FlattenSeq(Lists(e)) /\ ports = all
  <2>1. e \in 0..Len(info.endpoints)
    BY <1>3
  <2>2. FlattenSeq(Lists(e)) \in Seq(Port)
    BY <1>1, <2>1, ListsTyped
  <2>3. FlattenSeq(Lists(e)) = ports
    BY <1>1, <1>3, <1>4, <1>5, <1>8, ListsGrow
  <2> QED
    BY <2>2, <2>3
<1>10. SoFar(e + 1, 0) = all
  <2>1. SubSeq(PortsOf(info.endpoints[e + 1]), 1, 0) = <<>>
    BY SubSeqEmpty
  <2>2. (e + 1) - 1 = e
    OBVIOUS
  <2>3. all \o <<>> = all
    BY ConcatEmptySeq
  <2> QED
    BY <1>9, <2>1, <2>2, <2>3 DEF SoFar
<1>11. e + 1 <= Len(info.endpoints) => 0 <= Len(info.endpoints[e + 1].embedded)
  <2>1. SUFFICES ASSUME e + 1 <= n PROVE 0 <= Len(info.endpoints[e + 1].embedded)
    BY <1>3
  <2>2. e + 1 \in 1..n
    BY <2>1
  <2>3. info.endpoints[e + 1] \in BulkEndpoint
    BY <1>1, <1>3, <2>2, ListsTyped
  <2> QED
    BY <2>3, LenProperties DEF BulkEndpoint
<1>12. e + 1 \in Nat /\ e + 1 <= Len(info.endpoints) + 1 /\ 0 \in Nat
  BY <1>3
<1>13. cursor' = [e |-> e + 1, i |-> 0] /\ ports' = SoFar(e + 1, 0)
  BY <1>1, <1>2, <1>9, <1>10
<1> QED
  BY <1>1, <1>11, <1>12, <1>13, MovedCursor

(* ... and when it stops, all ports are derived, or as many as fit.        *)
LEMMA DerivedMaps ==
  ASSUME Types, AtCursor, Derived
  PROVE  ports = FirstOf(PortsOfAll, MaxPorts)
<1>1. /\ at = "derive" /\ cursor \in [e : Nat \ {0}, i : Nat] /\ Recorded
      /\ ports \in Seq(Port) /\ Len(ports) <= MaxPorts
  BY DEF Derived, Types, Deriving, PortsFit
<1>2. PICK e \in Nat \ {0}, i \in Nat : e = cursor.e /\ i = cursor.i
  BY <1>1
<1>3. PICK n \in Nat : n = Len(info.endpoints) /\ n \in 0..n
  BY <1>1, LenProperties DEF Recorded, InfoFits, Info
<1>4. CASE ~HasEndpoint
  <2>1. e = n + 1 /\ i = 0
    BY <1>1, <1>2, <1>3, <1>4 DEF HasEndpoint, AtCursor
  <2>2. PICK all \in Seq(Port) : all = FlattenSeq(Lists(n))
    BY <1>1, <1>3, ListsTyped
  <2>3. SubSeq(PortsOf(info.endpoints[e]), 1, 0) = <<>>
    BY SubSeqEmpty
  <2>4. e - 1 = n
    BY <2>1
  <2>5. all \o <<>> = all
    BY ConcatEmptySeq
  <2>6. ports = all
    BY <1>2, <2>1, <2>2, <2>3, <2>4, <2>5 DEF AtCursor, SoFar
  <2>7. PortsOfAll = all
    BY <1>3, <2>2 DEF PortsOfAll, Lists
  <2>8. Lesser(MaxPorts, Len(all)) = Len(all)
    BY <1>1, <2>6, CapsAssumption, LenProperties DEF Lesser
  <2> QED
    BY <2>6, <2>7, <2>8, SubSeqFull DEF FirstOf
<1>5. CASE HasJack /\ Len(ports) = MaxPorts
  <2>1. e \in 1..Len(info.endpoints) /\ i < Len(info.endpoints[e].embedded)
    BY <1>2, <1>3, <1>5 DEF HasJack, HasEndpoint, Current
  <2>2. i \in 0..Len(info.endpoints[e].embedded)
    <3>1. info.endpoints[e] \in BulkEndpoint
      BY <1>1, <1>3, <2>1, ListsTyped
    <3>2. Len(info.endpoints[e].embedded) \in Nat
      BY <3>1, LenProperties DEF BulkEndpoint
    <3> QED
      BY <2>1, <3>2
  <2>3. PICK sofar \in Seq(Port), tail \in Seq(Port) :
          sofar = ports /\ PortsOfAll = sofar \o tail
    <3>1. ports = SoFar(e, i)
      BY <1>2 DEF AtCursor
    <3> QED
      BY <1>1, <2>1, <2>2, <3>1, SoFarIsFront
  <2>4. Len(sofar \o tail) = Len(sofar) + Len(tail)
    BY ConcatProperties
  <2>5. Lesser(MaxPorts, Len(sofar \o tail)) = Len(sofar)
    <3>1. Len(sofar) \in Nat /\ Len(tail) \in Nat /\ Len(sofar) = MaxPorts
      BY <1>5, <2>3, LenProperties
    <3> QED
      BY <2>4, <3>1 DEF Lesser
  <2>6. SubSeq(sofar \o tail, 1, Len(sofar)) = sofar
    BY FrontOfConcat
  <2> QED
    BY <2>3, <2>5, <2>6 DEF FirstOf
<1> QED
  BY <1>4, <1>5 DEF Derived

LEMMA InitMapped == Init => Mapped
BY DEF Init, Mapped, MapsCables

LEMMA StepMapped == Types /\ Mapped /\ [Next]_vars => Mapped'
<1> SUFFICES ASSUME Types, Mapped, [Next]_vars PROVE Mapped'
  OBVIOUS
<1>1. ASSUME at = "walk", at' = "derive", ports' = <<>>, UNCHANGED <<info, cursor, result>>
      PROVE  Mapped'
  <2>1. cursor = [e |-> 1, i |-> 0] /\ result = 0
    BY <1>1 DEF Mapped
  <2>2. ports' = SoFar(1, 0)
    <3>1. SubSeq(PortsOf(info.endpoints[1]), 1, 0) = <<>>
      BY SubSeqEmpty
    <3>2. Lists(1 - 1) = <<>>
      BY DEF Lists
    <3>3. <<>> \o <<>> = <<>>
      OBVIOUS
    <3> QED
      BY <1>1, <3>1, <3>2, <3>3, FlattenEmpty DEF SoFar
  <2>3. PICK n \in Nat : n = Len(info.endpoints)
    BY LenProperties DEF Types, Recorded, InfoFits, Info
  <2>4. 1 <= Len(info.endpoints) => 0 <= Len(info.endpoints[1].embedded)
    <3>1. SUFFICES ASSUME 1 <= n PROVE 0 <= Len(info.endpoints[1].embedded)
      BY <2>3
    <3>2. n \in 0..Len(info.endpoints) /\ 1 \in 1..n
      BY <2>3, <3>1
    <3>3. info.endpoints[1] \in BulkEndpoint
      BY <3>2, ListsTyped DEF Types
    <3> QED
      BY <3>3, LenProperties DEF BulkEndpoint
  <2>5. 1 <= Len(info.endpoints) + 1 /\ 1 \in Nat /\ 0 \in Nat
    BY <2>3
  <2>6. AtCursor'
    BY <1>1, <2>1, <2>2, <2>4, <2>5, MovedCursor
  <2> QED
    BY <1>1, <2>1, <2>6 DEF Mapped, MapsCables
<1>2. CASE LoopTurn
  <2>1. at = "walk" /\ UNCHANGED <<cursor, result>>
        /\ \/ at' = "walk" /\ ports' = ports
           \/ at' = "derive" /\ ports' = <<>> /\ info' = info
    BY <1>2 DEF LoopTurn, Device, FindMs, SkipBefore, LeaveMs, Endpoint, Header, InJack,
                OutJack, General, SkipInside, Before, Inside, Moves, Walks
  <2>2. CASE at' = "walk" /\ ports' = ports
    BY <2>1, <2>2 DEF Mapped, MapsCables
  <2>3. CASE at' = "derive" /\ ports' = <<>> /\ info' = info
    BY <1>1, <2>1, <2>3
  <2> QED
    BY <2>1, <2>2, <2>3
<1>3. CASE WalkEnds
  <2>1. at = "walk" /\ UNCHANGED <<info, cursor, result>>
        /\ \/ at' = "done" /\ ports' = ports
           \/ at' = "derive" /\ ports' = <<>>
    BY <1>3 DEF WalkEnds
  <2>2. CASE at' = "done" /\ ports' = ports
    BY <2>1, <2>2 DEF Mapped, MapsCables
  <2>3. CASE at' = "derive" /\ ports' = <<>>
    BY <1>1, <2>1, <2>3
  <2> QED
    BY <2>1, <2>2, <2>3
<1>4. CASE NextPort \/ NextEndpoint
  <2>1. at = "derive" /\ at' = at /\ result' = result
    BY <1>4 DEF NextPort, NextEndpoint, HasJack, HasEndpoint
  <2>2. AtCursor'
    BY <1>4, <2>1, NextPortMaps, NextEndpointMaps DEF Mapped
  <2> QED
    BY <2>1, <2>2 DEF Mapped, MapsCables
<1>5. CASE Derived
  <2>1. at = "derive" /\ at' = "done" /\ result' = 1 /\ UNCHANGED <<info, ports>>
    BY <1>5 DEF Derived
  <2>2. ports = FirstOf(PortsOfAll, MaxPorts)
    BY <1>5, <2>1, DerivedMaps DEF Mapped
  <2>3. PortsOfAll' = PortsOfAll
    BY <2>1 DEF PortsOfAll
  <2>4. ports' = FirstOf(PortsOfAll, MaxPorts)'
    BY <2>1, <2>2, <2>3 DEF FirstOf
  <2> QED
    BY <2>1, <2>4 DEF Mapped, MapsCables
<1>6. ASSUME NEW b \in Buffers, Parse(b) PROVE Mapped'
  BY <1>6 DEF Parse, Mapped, MapsCables
<1>7. CASE Return
  <2>1. Init'
    BY <1>7 DEF Return, Init
  <2> QED
    BY <2>1, InitMapped, PTL
<1>8. CASE UNCHANGED vars
  <2>1. AtCursor' = AtCursor /\ PortsOfAll' = PortsOfAll
    BY <1>8 DEF vars, AtCursor, Current, SoFar, Lists, PortsOfAll
  <2>2. MapsCables'
    BY <1>8, <2>1 DEF vars, Mapped, MapsCables, FirstOf
  <2> QED
    BY <1>8, <2>1, <2>2 DEF vars, Mapped
<1> QED
  BY <1>2, <1>3, <1>4, <1>5, <1>6, <1>7, <1>8 DEF Next, Step, LoopTurn

(* "each embedded jack associated with a bulk endpoint is one logical      *)
(* port", "cable N = Nth embedded jack" (ports.h): for every buffer and    *)
(* every limit, an accepted one gives exactly the ports of the recorded    *)
(* endpoints in order, as many as fit, and a rejected one none.            *)
THEOREM PortsMapCables == Spec => []MapsCables
<1>1. Mapped => MapsCables
  BY DEF Mapped
<1> QED
  BY InitIInv, StepIInv, InitTypes, StepTypes, InitMapped, StepMapped, <1>1, PTL DEF Spec

-----------------------------------------------------------------------------
(* What the parser records.  Where whole descriptors start in a buffer:    *)
(* the recursion of the reference is well founded, for a descriptor moves  *)
(* it on by two bytes at least.                                            *)
Owned(b) ==
  /\ b.len \in Nat
  /\ b.memory # NoBuffer =>
       b.size \in Nat /\ b.len <= b.size /\ b.memory \in [0..(b.size - 1) -> 0..255]
Wholes(b) == {p \in 0..b.len : WholeAt(b, p)}

LEMMA BufferOwned == IInv => Owned(buf)
<1> SUFFICES ASSUME IInv PROVE Owned(buf)
  OBVIOUS
<1>1. CASE buf \in Buffers
  <2>1. PICK b \in Buffers : b = buf
    BY <1>1
  <2>2. Owned(b)
    BY BuffersAssumption DEF Owned
  <2> QED
    BY <2>1, <2>2
<1>2. CASE buf = NoCall
  <2>1. buf.len = 0 /\ buf.memory = NoBuffer
    BY <1>2 DEF NoCall
  <2> QED
    BY <2>1 DEF Owned
<1> QED
  BY <1>1, <1>2 DEF IInv, BufferOK

LEMMA WholeFits ==
  ASSUME NEW b, Owned(b), NEW p \in Nat, WholeAt(b, p)
  PROVE  \E n \in 2..255 : /\ n = b.memory[p] /\ p + n <= b.len /\ p + n \in 0..b.len
                           /\ b.len \in Nat /\ p \in 0..b.len /\ b.memory[p + 1] \in 0..255
                           /\ \A k \in 0..(n - 1) : b.memory[p + k] \in 0..255
<1>1. /\ b.memory # NoBuffer /\ p + 2 <= b.len /\ b.memory[p] >= 2
      /\ p + b.memory[p] <= b.len
  BY DEF WholeAt
<1>2. PICK len \in Nat, size \in Nat :
        /\ len = b.len /\ size = b.size /\ len <= size
        /\ b.memory \in [0..(size - 1) -> 0..255]
  BY <1>1 DEF Owned
<1>3. p \in 0..(size - 1) /\ p + 1 \in 0..(size - 1)
  BY <1>1, <1>2
<1>4. b.memory[p] \in 0..255 /\ b.memory[p + 1] \in 0..255
  BY <1>2, <1>3
<1>5. PICK n \in 2..255 : n = b.memory[p] /\ p + n <= len
  <2>1. PICK m \in 0..255 : m = b.memory[p]
    BY <1>4
  <2>2. m >= 2 /\ p + m <= len
    BY <1>1, <1>2, <2>1
  <2>3. m \in 2..255
    BY <2>2
  <2> QED
    BY <2>1, <2>2, <2>3
<1>6. ASSUME NEW k \in 0..(n - 1) PROVE b.memory[p + k] \in 0..255
  <2>1. p + k \in 0..(size - 1)
    BY <1>2, <1>5, SMTT(60)
  <2> QED
    BY <1>2, <2>1
<1>7. p + n \in 0..len /\ p \in 0..len
  BY <1>5
<1>8. /\ n = b.memory[p] /\ p + n <= b.len /\ p + n \in 0..b.len
      /\ b.len \in Nat /\ p \in 0..b.len
  BY <1>2, <1>5, <1>7
<1> QED
  BY <1>4, <1>6, <1>8, Zenon

(* One turn of the recursion, and all of it.                               *)
StartsHere(b, f, p) == IF WholeAt(b, p) THEN <<p>> \o f[p + b.memory[p]] ELSE <<>>

LEMMA StartsExist ==
  ASSUME NEW b, Owned(b)
  PROVE  \E f : f = [p \in 0..b.len |-> StartsHere(b, f, p)]
<1> DEFINE S == {m \in Nat : \E f : \A p \in 0..b.len : p + m > b.len => f[p] = StartsHere(b, f, p)}
<1>0. PICK len \in Nat : len = b.len
  BY DEF Owned
<1>1. 0 \in S
  <2>1. \A p \in 0..b.len : ~(p + 0 > b.len)
    BY <1>0
  <2> QED
    BY <2>1
<1>2. ASSUME NEW m \in Nat, m \in S PROVE m + 1 \in S
  <2>1. PICK f : \A p \in 0..len : p + m > len => f[p] = StartsHere(b, f, p)
    BY <1>0, <1>2
  <2> DEFINE g == [p \in 0..len |-> IF p + m = len THEN StartsHere(b, f, p) ELSE f[p]]
  <2>2. ASSUME NEW p \in 0..len, p + m >= len PROVE StartsHere(b, g, p) = StartsHere(b, f, p)
    <3>1. CASE WholeAt(b, p)
      <4>1. PICK n \in 2..255 : n = b.memory[p] /\ p + n \in 0..len
        <5>1. p \in Nat
          OBVIOUS
        <5> QED
          BY <1>0, <3>1, <5>1, WholeFits, ZenonT(60)
      <4>2. p + n + m # len
        BY <2>2
      <4>3. g[p + n] = f[p + n]
        BY <4>1, <4>2
      <4> HIDE DEF g
      <4> QED
        BY <3>1, <4>1, <4>3 DEF StartsHere
    <3>2. CASE ~WholeAt(b, p)
      BY <3>2 DEF StartsHere
    <3> QED
      BY <3>1, <3>2
  <2>3. ASSUME NEW p \in 0..len, p + (m + 1) > len PROVE g[p] = StartsHere(b, g, p)
    <3>1. p + m >= len
      BY <2>3
    <3>2. CASE p + m = len
      <4>1. g[p] = StartsHere(b, f, p)
        BY <3>2
      <4> HIDE DEF g
      <4> QED
        BY <2>2, <3>1, <4>1
    <3>3. CASE p + m # len
      <4>1. g[p] = f[p] /\ p + m > len
        BY <3>1, <3>3
      <4> HIDE DEF g
      <4> QED
        BY <2>1, <2>2, <3>1, <4>1
    <3> QED
      BY <3>2, <3>3
  <2> HIDE DEF g
  <2> QED
    BY <1>0, <2>3
<1>3. len + 1 \in S
  <2> HIDE DEF S
  <2> QED
    BY <1>1, <1>2, SetInduction
<1>4. PICK f : \A p \in 0..len : p + (len + 1) > len => f[p] = StartsHere(b, f, p)
  BY <1>0, <1>3
<1> DEFINE h == [p \in 0..len |-> f[p]]
<1>5. ASSUME NEW p \in 0..len PROVE h[p] = StartsHere(b, h, p)
  <2>1. f[p] = StartsHere(b, f, p) /\ h[p] = f[p]
    BY <1>4
  <2>2. ASSUME WholeAt(b, p) PROVE h[p + b.memory[p]] = f[p + b.memory[p]]
    <3>1. p + b.memory[p] \in 0..len
      <4>1. p \in Nat
        OBVIOUS
      <4>2. PICK n \in 2..255 : n = b.memory[p] /\ p + n \in 0..b.len
        BY <2>2, <4>1, WholeFits, ZenonT(60)
      <4> QED
        BY <1>0, <4>2
    <3> QED
      BY <3>1
  <2> HIDE DEF h
  <2> QED
    BY <2>1, <2>2 DEF StartsHere
<1>6. h = [p \in 0..len |-> h[p]]
  OBVIOUS
<1> HIDE DEF h
<1>7. h = [p \in 0..len |-> StartsHere(b, h, p)]
  BY <1>5, <1>6
<1> QED
  BY <1>0, <1>7

(* The descriptors from p on are the one at p, if it is whole, and those   *)
(* behind it.                                                              *)
LEMMA StartsFromIs ==
  ASSUME NEW b, Owned(b), NEW p \in 0..b.len
  PROVE  StartsFrom(b)[p] = StartsHere(b, StartsFrom(b), p)
<1> DEFINE f == CHOOSE f : f = [q \in 0..b.len |-> StartsHere(b, f, q)]
<1>1. f = [q \in 0..b.len |-> StartsHere(b, f, q)]
  BY StartsExist
<1>2. StartsFrom(b) = f
  BY DEF StartsFrom, StartsHere
<1> HIDE DEF f
<1>3. f[p] = StartsHere(b, f, p)
  BY <1>1
<1> QED
  BY <1>2, <1>3

LEMMA StartsTyped ==
  ASSUME NEW b, Owned(b), NEW p \in 0..b.len
  PROVE  StartsFrom(b)[p] \in Seq(Wholes(b))
<1> DEFINE S == {m \in Nat : \A q \in 0..b.len : q + m > b.len => StartsFrom(b)[q] \in Seq(Wholes(b))}
<1>0. PICK len \in Nat : len = b.len
  BY DEF Owned
<1>1. 0 \in S
  <2>1. \A q \in 0..b.len : ~(q + 0 > b.len)
    BY <1>0
  <2> QED
    BY <2>1
<1>2. ASSUME NEW m \in Nat, m \in S PROVE m + 1 \in S
  <2> SUFFICES ASSUME NEW q \in 0..len, q + (m + 1) > len
               PROVE  StartsFrom(b)[q] \in Seq(Wholes(b))
    BY <1>0
  <2>1. CASE WholeAt(b, q)
    <3>1. PICK n \in 2..255 : n = b.memory[q] /\ q + n \in 0..len
      <4>1. q \in Nat
        OBVIOUS
      <4> QED
        BY <1>0, <2>1, <4>1, WholeFits, ZenonT(60)
    <3>2. (q + n) + m > len
      OBVIOUS
    <3>3. StartsFrom(b)[q + n] \in Seq(Wholes(b))
      BY <1>0, <1>2, <3>1, <3>2
    <3>4. q \in Wholes(b)
      BY <1>0, <2>1 DEF Wholes
    <3>5. <<q>> \in Seq(Wholes(b))
      BY <3>4
    <3>6. StartsFrom(b)[q] = <<q>> \o StartsFrom(b)[q + n]
      BY <1>0, <2>1, <3>1, StartsFromIs DEF StartsHere
    <3> QED
      BY <3>3, <3>5, <3>6, ConcatProperties
  <2>2. CASE ~WholeAt(b, q)
    <3>1. StartsFrom(b)[q] = <<>>
      BY <1>0, <2>2, StartsFromIs DEF StartsHere
    <3> QED
      BY <3>1, EmptySeq
  <2> QED
    BY <2>1, <2>2
<1>3. len + 1 \in S
  <2> HIDE DEF S
  <2> QED
    BY <1>1, <1>2, SetInduction
<1>4. p + (len + 1) > len
  BY <1>0
<1> QED
  BY <1>0, <1>3, <1>4

(* A descriptor is a function from its offsets to bytes, the first being   *)
(* its size.                                                               *)
DescOf(n) == {x \in [0..(n - 1) -> Octet] : x[0] = n}
Desc == UNION {DescOf(n) : n \in 2..255}

LEMMA DescFields ==
  ASSUME NEW x \in Desc
  PROVE  Size(x) \in 2..255 /\ \A k \in 0..(Size(x) - 1) : x[k] \in Octet
<1>1. PICK n \in 2..255 : x \in [0..(n - 1) -> Octet] /\ x[0] = n
  <2>1. PICK n \in 2..255 : x \in DescOf(n)
    BY Zenon DEF Desc
  <2> QED
    BY <2>1 DEF DescOf
<1>2. Size(x) = n
  BY <1>1 DEF Size
<1>3. \A k \in 0..(n - 1) : x[k] \in Octet
  BY <1>1
<1> HIDE DEF Octet
<1> QED
  BY <1>2, <1>3

LEMMA DescriptorTyped ==
  ASSUME NEW b, Owned(b), NEW p \in Wholes(b)
  PROVE  /\ Descriptor(b, p) \in Desc
         /\ Size(Descriptor(b, p)) = b.memory[p] /\ Type(Descriptor(b, p)) = b.memory[p + 1]
         /\ \A k \in 0..(Size(Descriptor(b, p)) - 1) : Descriptor(b, p)[k] = b.memory[p + k]
<1>1. p \in Nat /\ WholeAt(b, p)
  BY DEF Wholes
<1>2. PICK n \in 2..255 :
        n = b.memory[p] /\ \A k \in 0..(n - 1) : b.memory[p + k] \in 0..255
  BY <1>1, WholeFits, ZenonT(60)
<1>3. PICK x : x = Descriptor(b, p)
  OBVIOUS
<1>4. x = [k \in 0..(n - 1) |-> b.memory[p + k]]
  BY <1>2, <1>3 DEF Descriptor
<1>5. x \in [0..(n - 1) -> Octet]
  BY <1>2, <1>4 DEF Octet
<1>6. 0 \in 0..(n - 1) /\ 1 \in 0..(n - 1) /\ p + 0 = p
  BY <1>1
<1>7. x[0] = n /\ x[1] = b.memory[p + 1]
  BY <1>2, <1>4, <1>6, SMTT(30)
<1>8. x \in Desc
  <2>1. x \in DescOf(n)
    BY <1>5, <1>7 DEF DescOf
  <2> QED
    BY <2>1, Zenon DEF Desc
<1> QED
  BY <1>2, <1>3, <1>4, <1>7, <1>8, ZenonT(60) DEF Size, Type

(* One more start, one more descriptor.                                    *)
LEMMA DescriptorsTyped ==
  ASSUME NEW b, Owned(b), NEW g \in Seq(Wholes(b))
  PROVE  DescriptorsAt(b, g) \in Seq(Desc) /\ Len(DescriptorsAt(b, g)) = Len(g)
<1>1. PICK n \in Nat : n = Len(g)
  BY LenProperties
<1>2. \A k \in 1..n : Descriptor(b, g[k]) \in Desc
  BY <1>1, ElementOfSeq, DescriptorTyped
<1>3. DescriptorsAt(b, g) = [k \in 1..n |-> Descriptor(b, g[k])]
  BY <1>1 DEF DescriptorsAt
<1> HIDE DEF Desc
<1> QED
  BY <1>1, <1>2, <1>3

LEMMA DescriptorsGrow ==
  ASSUME NEW b, Owned(b), NEW g \in Seq(Wholes(b)), NEW p \in Wholes(b)
  PROVE  /\ Append(g, p) \in Seq(Wholes(b))
         /\ DescriptorsAt(b, Append(g, p)) = Append(DescriptorsAt(b, g), Descriptor(b, p))
<1>1. PICK n \in Nat : n = Len(g)
  BY LenProperties
<1>2. PICK more \in Seq(Wholes(b)) :
        /\ more = Append(g, p) /\ Len(more) = n + 1
        /\ \A k \in 1..n : more[k] = g[k]
        /\ more[n + 1] = p
  BY <1>1, AppendProperties, ZenonT(40)
<1>3. PICK s \in Seq(Desc), t \in Seq(Desc) :
        /\ s = DescriptorsAt(b, g) /\ Len(s) = n
        /\ t = DescriptorsAt(b, more) /\ Len(t) = n + 1
  BY <1>1, <1>2, DescriptorsTyped
<1>4. \A k \in 1..n : t[k] = s[k]
  BY <1>1, <1>2, <1>3 DEF DescriptorsAt
<1>5. t[n + 1] = Descriptor(b, p)
  BY <1>2, <1>3 DEF DescriptorsAt
<1>6. Descriptor(b, p) \in Desc
  BY DescriptorTyped
<1>7. t = Append(s, Descriptor(b, p))
  BY <1>3, <1>4, <1>5, <1>6, LongerByOne
<1> QED
  BY <1>2, <1>3, <1>7

(* The end of the last of them.                                            *)
LEMMA EndGrows ==
  ASSUME NEW b, Owned(b), NEW g \in Seq(Wholes(b)), NEW p \in Wholes(b)
  PROVE  EndOf(b, Append(g, p)) = p + b.memory[p]
<1>1. PICK n \in Nat : n = Len(g)
  BY LenProperties
<1>2. PICK more \in Seq(Wholes(b)) :
        more = Append(g, p) /\ Len(more) = n + 1 /\ more[n + 1] = p
  BY <1>1, AppendProperties, ZenonT(40)
<1>3. more # <<>>
  BY <1>2, EmptySeq
<1> QED
  BY <1>2, <1>3 DEF EndOf

-----------------------------------------------------------------------------
(* The walker reads what the reference cuts out.                           *)
LEMMA HereWhole ==
  ASSUME IInv, it.err = "none"
  PROVE  /\ it.pos \in 0..buf.len
         /\ Finds(buf, it) <=> WholeAt(buf, it.pos)
<1>1. Owned(buf)
  BY BufferOwned
<1>2. PICK p \in Nat, len \in Nat : p = it.pos /\ len = buf.len /\ p <= len
  BY <1>1 DEF IInv, Iterator, InBounds, Owned
<1>3. CASE buf.memory = NoBuffer
  BY <1>2, <1>3 DEF Finds, HasHeader, WholeAt
<1>4. CASE buf.memory # NoBuffer /\ len - p >= 2
  <2>1. PICK size \in Nat : size = buf.size /\ len <= size /\ buf.memory \in [0..(size - 1) -> 0..255]
    BY <1>1, <1>2, <1>4 DEF Owned
  <2>2. p \in 0..(size - 1)
    BY <1>2, <1>4, <2>1
  <2>3. PICK n \in 0..255 : n = buf.memory[p]
    BY <2>1, <2>2
  <2>4. n <= len - p <=> p + n <= len
    OBVIOUS
  <2>5. p + 2 <= len /\ ~(p >= len)
    BY <1>4
  <2> QED
    BY <1>2, <1>4, <2>3, <2>4, <2>5 DEF Finds, AtEnd, HasHeader, LongEnough, Fits, WholeAt
<1>5. CASE ~(len - p >= 2)
  <2>1. ~(p + 2 <= len)
    BY <1>5
  <2> QED
    BY <1>2, <1>5, <2>1 DEF Finds, HasHeader, WholeAt
<1> QED
  BY <1>2, <1>3, <1>4, <1>5

LEMMA HereReads ==
  ASSUME IInv, Walks, NEW x, x = Descriptor(buf, it.pos)
  PROVE  /\ it.pos \in Wholes(buf) /\ x \in Desc
         /\ Here.blen = Size(x) /\ Here.btype = Type(x) /\ Here.pos = it.pos + Size(x)
         /\ it.err = "none" /\ Here.err = "none"
         /\ \A k \in Nat : Byte(k) = IF k < Size(x) THEN x[k] ELSE 0
         /\ \A k \in Nat : k + 1 < Size(x) => Word(k) = Pair(x, k)
<1>1. /\ it.pos \in Wholes(buf) /\ Owned(buf) /\ it.err = "none" /\ buf.memory # NoBuffer
      /\ WholeAt(buf, it.pos)
  <2>1. Finds(buf, it) /\ it.err = "none" /\ buf.memory # NoBuffer
    BY DEF Walks, Finds, HasHeader
  <2>2. it.pos \in 0..buf.len /\ WholeAt(buf, it.pos)
    BY <2>1, HereWhole
  <2> QED
    BY <2>1, <2>2, BufferOwned DEF Wholes
<1>2. /\ x \in Desc /\ Size(x) = buf.memory[it.pos] /\ Type(x) = buf.memory[it.pos + 1]
      /\ \A k \in 0..(Size(x) - 1) : x[k] = buf.memory[it.pos + k]
  BY <1>1, DescriptorTyped
<1>3. /\ Here.off = it.pos /\ Here.blen = Size(x) /\ Here.btype = Type(x)
      /\ Here.pos = it.pos + Size(x) /\ Here.err = "none"
  BY <1>1, <1>2, SMTT(60) DEF Here, Found
<1>4. PICK n \in 2..255, p \in Nat : n = Size(x) /\ p = it.pos
  <2>1. Size(x) \in 2..255
    BY <1>2, DescFields
  <2>2. it.pos \in Nat
    BY DEF IInv, Iterator
  <2> QED
    BY <2>1, <2>2
<1>5. ASSUME NEW k \in Nat PROVE Byte(k) = IF k < Size(x) THEN x[k] ELSE 0
  <2>1. CASE k < n
    <3>1. k \in 0..(n - 1) /\ ~(k >= n)
      BY <2>1
    <3>2. Byte(k) = buf.memory[p + k]
      BY <1>1, <1>3, <1>4, <3>1 DEF Byte, U8
    <3> QED
      BY <1>2, <1>4, <2>1, <3>1, <3>2
  <2>2. CASE ~(k < n)
    <3>1. k >= n
      BY <2>2
    <3> QED
      BY <1>3, <1>4, <2>2, <3>1 DEF Byte, U8
  <2> QED
    BY <2>1, <2>2
<1>6. ASSUME NEW k \in Nat, k + 1 < Size(x) PROVE Word(k) = Pair(x, k)
  <2>1. /\ k \in 0..(n - 1) /\ k + 1 \in 0..(n - 1) /\ ~(k + 1 >= n)
        /\ p + (k + 1) = p + k + 1
    BY <1>4, <1>6
  <2>2. Word(k) = buf.memory[p + k] + 256 * buf.memory[p + k + 1]
    BY <1>1, <1>3, <1>4, <2>1 DEF Word, U16le
  <2>3. x[k] = buf.memory[p + k] /\ x[k + 1] = buf.memory[p + k + 1]
    BY <1>2, <1>4, <2>1
  <2> QED
    BY <2>2, <2>3 DEF Pair
<1> QED
  BY <1>1, <1>2, <1>3, <1>5, <1>6

(* The kinds of descriptors are the same on both sides.                    *)
LEMMA HereKinds ==
  ASSUME IInv, Walks, NEW x, x = Descriptor(buf, it.pos)
  PROVE  /\ IsDevice <=> DescribesDevice(x)
         /\ IsMsInterface <=> DescribesMs(x)
         /\ Leaves <=> EndsMs(x)
         /\ IsEndpoint <=> DescribesEndpoint(x)
         /\ IsHeader <=> DescribesHeader(x)
         /\ IsInJack <=> DescribesIn(x)
         /\ IsOutJack <=> DescribesOut(x)
         /\ IsGeneral <=> DescribesGeneral(x) /\ ep.address # 0
<1>1. /\ Here.blen = Size(x) /\ Here.btype = Type(x) /\ x \in Desc
      /\ \A k \in Nat : Byte(k) = IF k < Size(x) THEN x[k] ELSE 0
  BY HereReads
<1>2. PICK n \in 2..255 : n = Size(x)
  BY <1>1, DescFields
<1>3. Leaves <=> EndsMs(x)
  BY <1>1 DEF Leaves, EndsMs
<1>4. IsDevice <=> DescribesDevice(x)
  BY <1>1 DEF IsDevice, DescribesDevice
<1>5. IsEndpoint <=> DescribesEndpoint(x)
  BY <1>1 DEF IsEndpoint, DescribesEndpoint
<1>6. n >= 5 => 2 \in Nat /\ Byte(2) = x[2] /\ Subtype = x[2]
  BY <1>1, <1>2 DEF Subtype
<1>7. n >= 9 => Byte(5) = x[5] /\ Byte(6) = x[6]
  BY <1>1, <1>2
<1>8. IsMsInterface <=> DescribesMs(x)
  BY <1>1, <1>2, <1>7 DEF IsMsInterface, DescribesMs
<1>9. n >= 7 => n >= 5
  OBVIOUS
<1>10. n >= 6 => n >= 5
  OBVIOUS
<1>11. n >= 9 => n >= 5
  OBVIOUS
<1>12. IsHeader <=> DescribesHeader(x)
  BY <1>1, <1>2, <1>6, <1>9 DEF IsHeader, DescribesHeader
<1>13. IsInJack <=> DescribesIn(x)
  BY <1>1, <1>2, <1>6, <1>10 DEF IsInJack, DescribesIn
<1>14. IsOutJack <=> DescribesOut(x)
  BY <1>1, <1>2, <1>6, <1>11 DEF IsOutJack, DescribesOut
<1>15. IsGeneral <=> DescribesGeneral(x) /\ ep.address # 0
  BY <1>1, <1>2, <1>6 DEF IsGeneral, DescribesGeneral
<1> QED
  BY <1>3, <1>4, <1>5, <1>8, <1>12, <1>13, <1>14, <1>15

(* A list that is cut to what is recorded and to what is there.            *)
Part(x, from, n) == [k \in 1..n |-> x[from + k - 1]]

LEMMA ListCut ==
  ASSUME NEW x \in Desc, NEW claimed \in Nat, NEW cap \in Nat, NEW from \in Nat,
         NEW last \in Nat, from <= last + 1, last < Size(x)
  PROVE  /\ ListIn(x, claimed, cap, from, last) \in Seq(Octet)
         /\ ListIn(x, claimed, cap, from, last) =
              Part(x, from, Lesser(Lesser(claimed, cap), last - from + 1))
<1>1. PICK m \in Nat : m = last - from + 1
  OBVIOUS
<1>2. PICK c \in Nat : c = Lesser(claimed, cap)
  BY DEF Lesser
<1>3. PICK n \in Nat : n = Lesser(c, m) /\ n <= m
  BY DEF Lesser
<1>4. ASSUME NEW k \in 1..m PROVE x[from + k - 1] \in Octet
  <2>1. PICK s \in 2..255 : s = Size(x)
    BY DescFields
  <2>2. from + k - 1 \in 0..(s - 1)
    BY <1>1, <2>1
  <2> QED
    BY <2>1, <2>2, DescFields
<1>5. PICK t : t = [k \in 1..m |-> x[from + k - 1]]
  BY Zenon
<1>6. /\ t \in Seq(Octet) /\ Len(t) = m
      /\ \A k \in 1..m : t[k] = x[from + k - 1]
  <2> HIDE DEF Octet
  <2> QED
    BY <1>4, <1>5
<1>7. /\ SubSeq(t, 1, n) \in Seq(Octet) /\ Len(SubSeq(t, 1, n)) = n
      /\ \A k \in 1..n : SubSeq(t, 1, n)[k] = t[k]
  <2>1. \A k \in 1..n : t[k] \in Octet
    BY <1>3, <1>4, <1>6
  <2>2. 1 \in Int /\ n \in Int /\ n - 1 + 1 = n /\ \A k \in 1..n : 1 + k - 1 = k
    OBVIOUS
  <2>3. /\ SubSeq(t, 1, n) \in Seq(Octet)
        /\ Len(SubSeq(t, 1, n)) = IF 1 <= n THEN n - 1 + 1 ELSE 0
        /\ \A k \in 1..(n - 1 + 1) : SubSeq(t, 1, n)[k] = t[1 + k - 1]
    BY <2>1, <2>2, SubSeqProperties
  <2> HIDE DEF Octet
  <2> QED
    BY <2>2, <2>3
<1>8. SubSeq(t, 1, n) = [k \in 1..n |-> x[from + k - 1]]
  <2>1. PICK u \in Seq(Octet) : u = SubSeq(t, 1, n)
    BY <1>7
  <2>2. u = [k \in 1..n |-> u[k]]
    BY <1>7, <2>1
  <2>3. \A k \in 1..n : u[k] = x[from + k - 1]
    BY <1>3, <1>6, <1>7, <2>1
  <2> QED
    BY <2>1, <2>2, <2>3
<1>9. ListIn(x, claimed, cap, from, last) = SubSeq(t, 1, n)
  BY <1>1, <1>2, <1>3, <1>5, <1>6 DEF ListIn, FirstOf
<1>10. SubSeq(t, 1, n) = Part(x, from, n)
  BY <1>8, Zenon DEF Part
<1>11. Lesser(Lesser(claimed, cap), last - from + 1) = n
  BY <1>1, <1>2, <1>3, Zenon
<1> QED
  BY <1>7, <1>9, <1>10, <1>11, Zenon

LEMMA EntriesAreList ==
  ASSUME IInv, Walks, NEW x, x = Descriptor(buf, it.pos),
         NEW claimed \in Nat, NEW cap \in Nat, NEW from \in Nat, NEW last \in Nat,
         NEW region, region = last - from + 1, from <= last + 1, last < Size(x)
  PROVE  Entries(claimed, cap, region, from) = ListIn(x, claimed, cap, from, last)
<1>1. x \in Desc /\ \A k \in Nat : Byte(k) = IF k < Size(x) THEN x[k] ELSE 0
  BY HereReads
<1>2. PICK m \in Nat : m = last - from + 1
  OBVIOUS
<1>3. PICK n \in Nat : n = Lesser(Lesser(claimed, cap), m) /\ n <= m
  BY DEF Lesser
<1>4. ASSUME NEW k \in 1..n PROVE Byte(from + k - 1) = x[from + k - 1]
  <2>1. PICK s \in 2..255 : s = Size(x)
    BY <1>1, DescFields
  <2>2. from + k - 1 \in Nat /\ from + k - 1 < s
    BY <1>2, <1>3, <2>1
  <2>3. PICK j \in Nat : j = from + k - 1 /\ j < s
    BY <2>2
  <2>4. Byte(j) = IF j < Size(x) THEN x[j] ELSE 0
    BY <1>1
  <2>5. Byte(j) = x[j]
    BY <2>1, <2>3, <2>4
  <2> QED
    BY <2>3, <2>5
<1>5. Entries(claimed, cap, region, from) = [k \in 1..n |-> Byte(from + k - 1)]
  <2>1. Entries(claimed, cap, m, from) = [k \in 1..n |-> Byte(from + k - 1)]
    BY <1>3, Zenon DEF Entries
  <2> QED
    BY <1>2, <2>1, Zenon
<1>6. ListIn(x, claimed, cap, from, last) = [k \in 1..n |-> x[from + k - 1]]
  <2>1. ListIn(x, claimed, cap, from, last) =
          Part(x, from, Lesser(Lesser(claimed, cap), last - from + 1))
    <3>1. x \in Desc /\ from <= last + 1 /\ last < Size(x)
      BY <1>1
    <3> QED
      BY <3>1, ListCut
  <2>2. Lesser(Lesser(claimed, cap), last - from + 1) = n
    BY <1>2, <1>3, Zenon
  <2> QED
    BY <2>1, <2>2, Zenon DEF Part
<1> QED
  BY <1>4, <1>5, <1>6

-----------------------------------------------------------------------------
(* The least and the greatest member of a set of numbers, 0 if it is       *)
(* empty.                                                                  *)
Least(I) == IF I # {} THEN Min(I) ELSE 0
Greatest(I) == IF I # {} THEN Max(I) ELSE 0

LEMMA LeastIs ==
  ASSUME NEW I \in SUBSET Nat, NEW e \in I, \A i \in I : e <= i
  PROVE  Least(I) = e
<1> DEFINE P(x) == \A y \in I : x =< y
<1>1. e \in I /\ P(e)
  OBVIOUS
<1>2. Min(I) = CHOOSE x \in I : P(x)
  BY DEF Min
<1>3. Min(I) \in I /\ P(Min(I))
  <2> HIDE DEF P
  <2> QED
    BY <1>1, <1>2
<1>4. PICK m \in I : m = Min(I) /\ \A y \in I : m <= y
  BY <1>3
<1>5. m \in Nat /\ e \in Nat /\ m <= e /\ e <= m
  BY <1>4
<1>6. m = e
  BY <1>5
<1> QED
  BY <1>4, <1>6 DEF Least

LEMMA GreatestIs ==
  ASSUME NEW I \in SUBSET Nat, NEW e \in I, \A i \in I : i <= e
  PROVE  Greatest(I) = e
<1> DEFINE P(x) == \A y \in I : x >= y
<1>1. e \in I /\ P(e)
  OBVIOUS
<1>2. Max(I) = CHOOSE x \in I : P(x)
  BY DEF Max
<1>3. Max(I) \in I /\ P(Max(I))
  <2> HIDE DEF P
  <2> QED
    BY <1>1, <1>2
<1>4. PICK m \in I : m = Max(I) /\ \A y \in I : m >= y
  BY <1>3
<1>5. m \in Nat /\ e \in Nat /\ m >= e /\ m <= e
  BY <1>4
<1>6. m = e
  BY <1>5
<1> QED
  BY <1>4, <1>6 DEF Greatest

LEMMA LeastExists ==
  ASSUME NEW I \in SUBSET Nat, I # {}
  PROVE  Least(I) \in I /\ \A i \in I : Least(I) <= i
<1> DEFINE R == OpToRel(<, Nat)
<1>1. IsWellFoundedOn(R, Nat)
  BY NatLessThanWellFounded
<1> HIDE DEF R
<1>2. PICK m \in I : \A k \in I : <<k, m>> \notin R
  BY <1>1, WFMin
<1>3. \A k \in I : m <= k
  <2> SUFFICES ASSUME NEW k \in I PROVE m <= k
    OBVIOUS
  <2>1. ~(k < m)
    BY <1>2 DEF R, OpToRel
  <2> QED
    BY <2>1
<1>4. Least(I) = m
  BY <1>3, LeastIs
<1> QED
  BY <1>3, <1>4

-----------------------------------------------------------------------------
(* What the loop has seen when it ends: it takes the last device           *)
(* descriptor before the interface and leaves what is behind the interface *)
(* unread.                                                                 *)
BeforeMs(all) == IF MsAt(all) = 0 THEN all ELSE SubSeq(all, 1, MsAt(all) - 1)
DeviceSeen(s) == SelectLastInSeq(s, DescribesDevice)
InfoSeen(all) ==
  LET before == BeforeMs(all)
      own == OfMs(all)
  IN  [found |-> MsAt(all) # 0,
       vid |-> WordOf(before, DeviceSeen(before), 8),
       pid |-> WordOf(before, DeviceSeen(before), 10),
       number |-> FieldOf(all, MsAt(all), 2),
       alternate |-> FieldOf(all, MsAt(all), 3),
       declared |-> FieldOf(all, MsAt(all), 4),
       bcd |-> WordOf(own, HeaderIn(own), 3),
       total |-> WordOf(own, HeaderIn(own), 5),
       jacks |-> JacksOf(own),
       inJacks |-> Facing(JacksOf(own), "in"),
       outJacks |-> Facing(JacksOf(own), "out"),
       endpoints |-> EndpointsOf(own)]
Readable(b, all) == ~Malformed(b) \/ MsEnded(all)

(* Where the MIDIStreaming interface is, and where its part ends.          *)
MsIn(s) == {i \in 1..Len(s) : DescribesMs(s[i])}
EndsIn(s) == {i \in (MsAt(s) + 1)..Len(s) : EndsMs(s[i])}

LEMMA MsAtIs ==
  ASSUME NEW s \in Seq(Desc)
  PROVE  /\ MsAt(s) \in 0..Len(s)
         /\ MsAt(s) # 0 => DescribesMs(s[MsAt(s)]) /\ \A i \in 1..(MsAt(s) - 1) : ~DescribesMs(s[i])
         /\ MsAt(s) = 0 => \A i \in 1..Len(s) : ~DescribesMs(s[i])
<1>1. PICK n \in Nat : n = Len(s)
  BY LenProperties
<1>2. MsAt(s) = Least(MsIn(s))
  BY DEF MsAt, SelectInSeq, MsIn, Least
<1>3. MsIn(s) \in SUBSET Nat
  BY <1>1 DEF MsIn
<1>4. CASE MsIn(s) = {}
  <2>1. MsAt(s) = 0
    BY <1>2, <1>4 DEF Least
  <2> QED
    BY <1>1, <1>4, <2>1 DEF MsIn
<1>5. CASE MsIn(s) # {}
  <2>1. PICK m \in MsIn(s) : m = MsAt(s) /\ \A i \in MsIn(s) : m <= i
    BY <1>2, <1>3, <1>5, LeastExists
  <2>2. m \in 1..n /\ DescribesMs(s[m])
    BY <1>1, <2>1 DEF MsIn
  <2>3. ASSUME NEW i \in 1..(m - 1) PROVE ~DescribesMs(s[i])
    <3>1. i \in 1..n /\ ~(m <= i)
      BY <2>2
    <3> QED
      BY <1>1, <2>1, <3>1 DEF MsIn
  <2>4. m # 0 /\ m \in 0..n
    BY <2>2
  <2> QED
    BY <1>1, <2>1, <2>2, <2>3, <2>4
<1> QED
  BY <1>4, <1>5

LEMMA MsAtFirst ==
  ASSUME NEW s \in Seq(Desc), NEW m \in 1..Len(s), DescribesMs(s[m]),
         \A i \in 1..(m - 1) : ~DescribesMs(s[i])
  PROVE  MsAt(s) = m
<1>1. PICK n \in Nat : n = Len(s) /\ m \in 1..n
  BY LenProperties
<1>2. MsAt(s) = Least(MsIn(s))
  BY DEF MsAt, SelectInSeq, MsIn, Least
<1>3. MsIn(s) \in SUBSET Nat /\ m \in MsIn(s)
  BY <1>1 DEF MsIn
<1>4. ASSUME NEW i \in MsIn(s) PROVE m <= i
  <2>1. i \in 1..n /\ DescribesMs(s[i])
    BY <1>1 DEF MsIn
  <2>2. ~(i \in 1..(m - 1))
    BY <2>1
  <2> QED
    BY <1>1, <2>1, <2>2
<1> QED
  BY <1>2, <1>3, <1>4, LeastIs

LEMMA MsAtNone ==
  ASSUME NEW s \in Seq(Desc), \A i \in 1..Len(s) : ~DescribesMs(s[i])
  PROVE  MsAt(s) = 0
<1>1. MsAt(s) = Least(MsIn(s))
  BY DEF MsAt, SelectInSeq, MsIn, Least
<1>2. MsIn(s) = {}
  BY DEF MsIn
<1> QED
  BY <1>1, <1>2 DEF Least

LEMMA EndAtIs ==
  ASSUME NEW s \in Seq(Desc)
  PROVE  /\ EndAt(s) # 0 => /\ EndAt(s) \in (MsAt(s) + 1)..Len(s) /\ EndsMs(s[EndAt(s)])
                            /\ \A i \in (MsAt(s) + 1)..(EndAt(s) - 1) : ~EndsMs(s[i])
         /\ EndAt(s) = 0 => \A i \in (MsAt(s) + 1)..Len(s) : ~EndsMs(s[i])
<1>1. PICK n \in Nat, a \in Nat : n = Len(s) /\ a = MsAt(s)
  BY LenProperties, MsAtIs
<1>2. EndAt(s) = Least(EndsIn(s))
  BY DEF EndAt, SelectInSubSeq, EndsIn, Least
<1>3. EndsIn(s) \in SUBSET Nat
  BY <1>1 DEF EndsIn
<1>4. CASE EndsIn(s) = {}
  <2>1. EndAt(s) = 0
    BY <1>2, <1>4 DEF Least
  <2> QED
    BY <1>4, <2>1 DEF EndsIn
<1>5. CASE EndsIn(s) # {}
  <2>1. PICK m \in EndsIn(s) : m = EndAt(s) /\ \A i \in EndsIn(s) : m <= i
    BY <1>2, <1>3, <1>5, LeastExists
  <2>2. m \in (a + 1)..n /\ EndsMs(s[m])
    BY <1>1, <2>1 DEF EndsIn
  <2>3. ASSUME NEW i \in (a + 1)..(m - 1) PROVE ~EndsMs(s[i])
    <3>1. i \in (a + 1)..n /\ ~(m <= i)
      BY <1>1, <2>2
    <3> QED
      BY <1>1, <2>1, <3>1 DEF EndsIn
  <2>4. m # 0
    BY <2>2
  <2> QED
    BY <1>1, <2>1, <2>2, <2>3, <2>4
<1> QED
  BY <1>4, <1>5

LEMMA EndAtFirst ==
  ASSUME NEW s \in Seq(Desc), NEW m \in (MsAt(s) + 1)..Len(s), EndsMs(s[m]),
         \A i \in (MsAt(s) + 1)..(m - 1) : ~EndsMs(s[i])
  PROVE  EndAt(s) = m
<1>1. PICK n \in Nat, a \in Nat : n = Len(s) /\ a = MsAt(s) /\ m \in (a + 1)..n
  BY LenProperties, MsAtIs
<1>2. EndAt(s) = Least(EndsIn(s))
  BY DEF EndAt, SelectInSubSeq, EndsIn, Least
<1>3. EndsIn(s) \in SUBSET Nat /\ m \in EndsIn(s)
  BY <1>1 DEF EndsIn
<1>4. ASSUME NEW i \in EndsIn(s) PROVE m <= i
  <2>1. i \in (a + 1)..n /\ EndsMs(s[i])
    BY <1>1 DEF EndsIn
  <2>2. ~(i \in (a + 1)..(m - 1))
    BY <1>1, <2>1
  <2> QED
    BY <1>1, <2>1, <2>2
<1> QED
  BY <1>2, <1>3, <1>4, LeastIs

LEMMA EndAtNone ==
  ASSUME NEW s \in Seq(Desc), \A i \in (MsAt(s) + 1)..Len(s) : ~EndsMs(s[i])
  PROVE  EndAt(s) = 0
<1>1. EndAt(s) = Least(EndsIn(s))
  BY DEF EndAt, SelectInSubSeq, EndsIn, Least
<1>2. EndsIn(s) = {}
  BY DEF EndsIn
<1> QED
  BY <1>1, <1>2 DEF Least

-----------------------------------------------------------------------------
(* One more element, and parts of two sequences that agree.                *)
LongerBy(v, w, x) ==
  /\ Len(v) = Len(w) + 1
  /\ \A k \in 1..Len(w) : v[k] = w[k]
  /\ v[Len(w) + 1] = x

LEMMA OneMore ==
  ASSUME NEW T, NEW w \in Seq(T), NEW x \in T
  PROVE  Append(w, x) \in Seq(T) /\ LongerBy(Append(w, x), w, x)
BY AppendProperties DEF LongerBy

LEMMA SubSeqAgrees ==
  ASSUME NEW T, NEW w \in Seq(T), NEW v \in Seq(T), Len(w) <= Len(v),
         \A k \in 1..Len(w) : v[k] = w[k], NEW a \in Nat \ {0}, NEW c \in Nat, c <= Len(w)
  PROVE  SubSeq(w, a, c) \in Seq(T) /\ SubSeq(v, a, c) = SubSeq(w, a, c)
<1>1. PICK n \in Nat, m \in Nat : n = Len(w) /\ m = Len(v) /\ n <= m
  BY LenProperties
<1>2. \A k \in a..c : w[k] \in T /\ v[k] \in T /\ v[k] = w[k]
  <2> SUFFICES ASSUME NEW k \in a..c PROVE w[k] \in T /\ v[k] \in T /\ v[k] = w[k]
    OBVIOUS
  <2>1. k \in 1..n /\ k \in 1..m
    BY <1>1
  <2> QED
    BY <1>1, <2>1, ElementOfSeq
<1>3. a \in Int /\ c \in Int
  OBVIOUS
<1>4. /\ SubSeq(w, a, c) \in Seq(T)
      /\ Len(SubSeq(w, a, c)) = IF a <= c THEN c - a + 1 ELSE 0
      /\ \A i \in 1..(c - a + 1) : SubSeq(w, a, c)[i] = w[a + i - 1]
  BY <1>2, <1>3, SubSeqProperties
<1>5. /\ SubSeq(v, a, c) \in Seq(T)
      /\ Len(SubSeq(v, a, c)) = IF a <= c THEN c - a + 1 ELSE 0
      /\ \A i \in 1..(c - a + 1) : SubSeq(v, a, c)[i] = v[a + i - 1]
  BY <1>2, <1>3, SubSeqProperties
<1>6. PICK s \in Seq(T), t \in Seq(T) : s = SubSeq(w, a, c) /\ t = SubSeq(v, a, c)
  BY <1>4, <1>5
<1>7. CASE a <= c
  <2>1. PICK l \in Nat : l = c - a + 1
    BY <1>7
  <2>2. Len(s) = l /\ Len(t) = l
    BY <1>4, <1>5, <1>6, <1>7, <2>1
  <2>3. ASSUME NEW i \in 1..l PROVE t[i] = s[i]
    <3>1. a + i - 1 \in a..c
      BY <2>1
    <3>2. v[a + i - 1] = w[a + i - 1]
      BY <1>2, <3>1
    <3> QED
      BY <1>4, <1>5, <1>6, <2>1, <3>2
  <2>4. t = s
    BY <2>2, <2>3, SeqEqual
  <2> QED
    BY <1>6, <2>4
<1>8. CASE ~(a <= c)
  <2>1. Len(s) = 0 /\ Len(t) = 0
    BY <1>4, <1>5, <1>6, <1>8
  <2>2. s = <<>> /\ t = <<>>
    BY <2>1, EmptySeq
  <2> QED
    BY <1>6, <2>2
<1> QED
  BY <1>7, <1>8

(* Whatever follows the part of the interface does not matter.             *)
LEMMA SameMs ==
  ASSUME NEW w \in Seq(Desc), NEW v \in Seq(Desc), Len(w) <= Len(v),
         \A k \in 1..Len(w) : v[k] = w[k], MsAt(w) # 0
  PROVE  /\ MsAt(v) = MsAt(w) /\ MsAt(w) \in 1..Len(w) /\ v[MsAt(v)] = w[MsAt(w)]
         /\ BeforeMs(v) = BeforeMs(w) /\ BeforeMs(w) \in Seq(Desc)
<1>1. PICK n \in Nat, l \in Nat : n = Len(w) /\ l = Len(v) /\ n <= l
  BY LenProperties
<1>2. PICK m \in 1..n : /\ m = MsAt(w) /\ DescribesMs(w[m])
                        /\ \A i \in 1..(m - 1) : ~DescribesMs(w[i])
  <2>1. PICK m \in 0..n : m = MsAt(w)
    BY <1>1, MsAtIs
  <2>2. m \in 1..n
    BY <2>1
  <2>3. DescribesMs(w[MsAt(w)]) /\ \A i \in 1..(MsAt(w) - 1) : ~DescribesMs(w[i])
    BY MsAtIs
  <2> QED
    BY <2>1, <2>2, <2>3
<1>3. m \in 1..l /\ v[m] = w[m]
  BY <1>1
<1>4. ASSUME NEW i \in 1..(m - 1) PROVE ~DescribesMs(v[i])
  <2>1. i \in 1..n
    OBVIOUS
  <2> QED
    BY <1>1, <1>2, <2>1
<1>5. MsAt(v) = m
  BY <1>1, <1>2, <1>3, <1>4, MsAtFirst
<1>6. 1 \in Nat \ {0} /\ m - 1 \in Nat /\ m - 1 <= Len(w)
  BY <1>1
<1>7. SubSeq(w, 1, m - 1) \in Seq(Desc) /\ SubSeq(v, 1, m - 1) = SubSeq(w, 1, m - 1)
  <2> HIDE DEF Desc
  <2> QED
    BY <1>6, SubSeqAgrees
<1>8. m # 0
  OBVIOUS
<1> QED
  BY <1>1, <1>2, <1>3, <1>5, <1>7, <1>8 DEF BeforeMs

LEMMA SameEnd ==
  ASSUME NEW w \in Seq(Desc), NEW v \in Seq(Desc), Len(w) <= Len(v),
         \A k \in 1..Len(w) : v[k] = w[k], MsAt(w) # 0, EndAt(w) # 0
  PROVE  EndAt(v) = EndAt(w) /\ OfMs(v) = OfMs(w)
<1>1. PICK n \in Nat, l \in Nat : n = Len(w) /\ l = Len(v) /\ n <= l
  BY LenProperties
<1>2. PICK m \in 1..n : m = MsAt(w) /\ m = MsAt(v)
  BY <1>1, SameMs
<1>3. PICK e \in (m + 1)..n : /\ e = EndAt(w) /\ EndsMs(w[e])
                              /\ \A i \in (m + 1)..(e - 1) : ~EndsMs(w[i])
  BY <1>1, <1>2, EndAtIs
<1>4. e \in (m + 1)..l /\ e \in 1..n /\ v[e] = w[e]
  BY <1>1
<1>5. ASSUME NEW i \in (m + 1)..(e - 1) PROVE ~EndsMs(v[i])
  <2>1. i \in 1..n
    OBVIOUS
  <2> QED
    BY <1>1, <1>3, <2>1
<1>6. EndAt(v) = e
  BY <1>1, <1>2, <1>3, <1>4, <1>5, EndAtFirst
<1>7. m + 1 \in Nat \ {0} /\ e - 1 \in Nat /\ e - 1 <= Len(w)
  BY <1>1
<1>8. SubSeq(v, m + 1, e - 1) = SubSeq(w, m + 1, e - 1)
  <2> HIDE DEF Desc
  <2> QED
    BY <1>7, SubSeqAgrees
<1>9. m # 0 /\ e # 0
  OBVIOUS
<1> QED
  BY <1>2, <1>3, <1>6, <1>8, <1>9 DEF OfMs

LEMMA SameInfo ==
  ASSUME NEW w \in Seq(Desc), NEW v \in Seq(Desc), Len(w) <= Len(v),
         \A k \in 1..Len(w) : v[k] = w[k], MsAt(w) # 0, EndAt(w) # 0
  PROVE  InfoSeen(v) = InfoSeen(w) /\ MsAt(v) # 0 /\ EndAt(v) # 0
<1>1. /\ MsAt(v) = MsAt(w) /\ v[MsAt(v)] = w[MsAt(w)] /\ BeforeMs(v) = BeforeMs(w)
      /\ EndAt(v) = EndAt(w) /\ OfMs(v) = OfMs(w)
  BY SameMs, SameEnd
<1> QED
  BY <1>1, Zenon DEF InfoSeen, FieldOf

(* One more descriptor, before the interface is found ...                  *)
LEMMA BeforeGrows ==
  ASSUME NEW w \in Seq(Desc), NEW x \in Desc, MsAt(w) = 0, ~DescribesMs(x)
  PROVE  /\ MsAt(Append(w, x)) = 0
         /\ BeforeMs(w) = w /\ BeforeMs(Append(w, x)) = Append(w, x)
         /\ OfMs(w) = <<>> /\ OfMs(Append(w, x)) = <<>>
<1>1. PICK n \in Nat : n = Len(w)
  BY LenProperties
<1>0. PICK v \in Seq(Desc) : v = Append(w, x) /\ LongerBy(v, w, x)
  BY OneMore
<1>2. /\ v = Append(w, x) /\ Len(v) = n + 1
      /\ \A k \in 1..n : v[k] = w[k]
      /\ v[n + 1] = x
  BY <1>1, <1>0 DEF LongerBy
<1>3. ASSUME NEW i \in 1..Len(v) PROVE ~DescribesMs(v[i])
  <2>1. i \in 1..n \/ i = n + 1
    BY <1>2
  <2> QED
    BY <1>1, <1>2, <2>1, MsAtIs
<1>4. MsAt(v) = 0
  BY <1>3, MsAtNone
<1> QED
  BY <1>2, <1>4, Zenon DEF BeforeMs, OfMs

LEMMA MsFound ==
  ASSUME NEW w \in Seq(Desc), NEW x \in Desc, MsAt(w) = 0, DescribesMs(x)
  PROVE  /\ MsAt(Append(w, x)) = Len(w) + 1 /\ Append(w, x)[Len(w) + 1] = x
         /\ EndAt(Append(w, x)) = 0
         /\ BeforeMs(w) = w /\ BeforeMs(Append(w, x)) = w
         /\ OfMs(w) = <<>> /\ OfMs(Append(w, x)) = <<>>
<1>1. PICK n \in Nat : n = Len(w)
  BY LenProperties
<1>0. PICK v \in Seq(Desc) : v = Append(w, x) /\ LongerBy(v, w, x)
  BY OneMore
<1>2. /\ v = Append(w, x) /\ Len(v) = n + 1
      /\ \A k \in 1..n : v[k] = w[k]
      /\ v[n + 1] = x
  BY <1>1, <1>0 DEF LongerBy
<1>3. \A i \in 1..((n + 1) - 1) : ~DescribesMs(v[i])
  <2> SUFFICES ASSUME NEW i \in 1..n PROVE ~DescribesMs(v[i])
    OBVIOUS
  <2> QED
    BY <1>1, <1>2, MsAtIs
<1>4. MsAt(v) = n + 1
  <2>1. n + 1 \in 1..Len(v)
    BY <1>2
  <2> QED
    BY <1>2, <1>3, <2>1, MsAtFirst
<1>5. EndAt(v) = 0
  <2>1. \A i \in (MsAt(v) + 1)..Len(v) : FALSE
    BY <1>2, <1>4
  <2> QED
    BY <2>1, EndAtNone
<1>6. SubSeq(v, 1, n) = w
  <2>1. SubSeq(w, 1, n) = w
    BY <1>1, SubSeqFull
  <2>2. 1 \in Nat \ {0} /\ n <= Len(w) /\ Len(w) <= Len(v)
    BY <1>1, <1>2
  <2>3. SubSeq(v, 1, n) = SubSeq(w, 1, n)
    BY <1>1, <1>2, <2>2, SubSeqAgrees
  <2> QED
    BY <2>1, <2>3
<1>7. SubSeq(v, (n + 1) + 1, Len(v)) = <<>>
  BY <1>2, SubSeqEmpty
<1>8. n + 1 # 0 /\ (n + 1) - 1 = n
  OBVIOUS
<1>9. BeforeMs(v) = w
  BY <1>4, <1>6, <1>8 DEF BeforeMs
<1>10. OfMs(v) = <<>>
  BY <1>4, <1>5, <1>7, <1>8 DEF OfMs
<1> QED
  BY <1>1, <1>2, <1>4, <1>5, <1>9, <1>10, Zenon DEF BeforeMs, OfMs

(* ... and behind it, as long as its part lasts, ...                       *)
LEMMA InsideGrows ==
  ASSUME NEW w \in Seq(Desc), NEW x \in Desc, MsAt(w) # 0, EndAt(w) = 0, ~EndsMs(x)
  PROVE  /\ EndAt(Append(w, x)) = 0
         /\ OfMs(w) \in Seq(Desc) /\ OfMs(Append(w, x)) = Append(OfMs(w), x)
<1>1. PICK n \in Nat : n = Len(w)
  BY LenProperties
<1>0. PICK v \in Seq(Desc) : v = Append(w, x) /\ LongerBy(v, w, x)
  BY OneMore
<1>2. /\ v = Append(w, x) /\ Len(v) = n + 1
      /\ \A k \in 1..n : v[k] = w[k]
      /\ v[n + 1] = x
  BY <1>1, <1>0 DEF LongerBy
<1>3. PICK m \in 1..n : m = MsAt(w) /\ m = MsAt(v)
  <2>1. Len(w) <= Len(v) /\ \A k \in 1..Len(w) : v[k] = w[k]
    BY <1>1, <1>2
  <2> QED
    BY <1>1, <2>1, SameMs
<1>4. ASSUME NEW i \in (m + 1)..(n + 1) PROVE ~EndsMs(v[i])
  <2>1. (i \in (m + 1)..n /\ i \in 1..n) \/ i = n + 1
    OBVIOUS
  <2> QED
    BY <1>1, <1>2, <1>3, <2>1, EndAtIs
<1>5. EndAt(v) = 0
  BY <1>2, <1>3, <1>4, EndAtNone
<1>6. OfMs(w) = SubSeq(w, m + 1, n) /\ OfMs(v) = SubSeq(v, m + 1, n + 1)
  <2>1. m # 0
    OBVIOUS
  <2> QED
    BY <1>1, <1>2, <1>3, <1>5, <2>1 DEF OfMs
<1>7. /\ SubSeq(w, m + 1, n) \in Seq(Desc)
      /\ SubSeq(v, m + 1, n) = SubSeq(w, m + 1, n)
  <2>1. m + 1 \in Nat \ {0} /\ n <= Len(w) /\ Len(w) <= Len(v)
    BY <1>1, <1>2
  <2> QED
    BY <1>1, <1>2, <2>1, SubSeqAgrees
<1>8. SubSeq(v, m + 1, n + 1) = SubSeq(v, m + 1, n) \o <<x>>
  <2>1. m + 1 \in 1..Len(v) /\ n + 1 \in 1..Len(v) /\ n + 1 \in (m + 1)..Len(v) /\ (n + 1) - 1 = n
    BY <1>2
  <2>2. SubSeq(v, m + 1, n + 1) = SubSeq(v, m + 1, (n + 1) - 1) \o <<v[n + 1]>>
    BY <2>1, SubSeqRecursiveSecond
  <2> QED
    BY <1>2, <2>1, <2>2
<1>9. Append(SubSeq(w, m + 1, n), x) = SubSeq(w, m + 1, n) \o <<x>>
  BY <1>7, AppendIsConcat
<1> QED
  BY <1>2, <1>5, <1>6, <1>7, <1>8, <1>9, Zenon

(* ... which the next interface, configuration or device ends.             *)
LEMMA InsideEnds ==
  ASSUME NEW w \in Seq(Desc), NEW x \in Desc, MsAt(w) # 0, EndAt(w) = 0, EndsMs(x)
  PROVE  EndAt(Append(w, x)) # 0 /\ OfMs(Append(w, x)) = OfMs(w)
<1>1. PICK n \in Nat : n = Len(w)
  BY LenProperties
<1>0. PICK v \in Seq(Desc) : v = Append(w, x) /\ LongerBy(v, w, x)
  BY OneMore
<1>2. /\ v = Append(w, x) /\ Len(v) = n + 1
      /\ \A k \in 1..n : v[k] = w[k]
      /\ v[n + 1] = x
  BY <1>1, <1>0 DEF LongerBy
<1>3. PICK m \in 1..n : m = MsAt(w) /\ m = MsAt(v)
  <2>1. Len(w) <= Len(v) /\ \A k \in 1..Len(w) : v[k] = w[k]
    BY <1>1, <1>2
  <2> QED
    BY <1>1, <2>1, SameMs
<1>4. ASSUME NEW i \in (m + 1)..((n + 1) - 1) PROVE ~EndsMs(v[i])
  <2>1. i \in (m + 1)..n /\ i \in 1..n
    OBVIOUS
  <2> QED
    BY <1>1, <1>2, <1>3, <2>1, EndAtIs
<1>5. EndAt(v) = n + 1
  <2>1. n + 1 \in (m + 1)..Len(v)
    BY <1>2
  <2> QED
    BY <1>2, <1>3, <1>4, <2>1, EndAtFirst
<1>6. OfMs(w) = SubSeq(w, m + 1, n) /\ OfMs(v) = SubSeq(v, m + 1, n)
  <2>1. m # 0 /\ n + 1 # 0 /\ (n + 1) - 1 = n
    OBVIOUS
  <2> QED
    BY <1>1, <1>2, <1>3, <1>5, <2>1 DEF OfMs
<1>7. SubSeq(v, m + 1, n) = SubSeq(w, m + 1, n)
  <2>1. m + 1 \in Nat \ {0} /\ n <= Len(w) /\ Len(w) <= Len(v)
    BY <1>1, <1>2
  <2> QED
    BY <1>1, <1>2, <2>1, SubSeqAgrees
<1>8. n + 1 # 0
  OBVIOUS
<1> QED
  BY <1>2, <1>5, <1>6, <1>7, <1>8

LEMMA GreatestExists ==
  ASSUME NEW n \in Nat, NEW I \in SUBSET (1..n)
  PROVE  Greatest(I) \in 0..n /\ (Greatest(I) # 0 => Greatest(I) \in I)
<1>1. CASE I = {}
  BY <1>1 DEF Greatest
<1>2. CASE I # {}
  <2> DEFINE D == {n - i : i \in I}
  <2>1. D \in SUBSET Nat /\ D # {}
    <3>1. \A i \in I : n - i \in Nat
      OBVIOUS
    <3>2. PICK i \in I : TRUE
      BY <1>2
    <3>3. n - i \in D
      OBVIOUS
    <3> QED
      BY <3>1, <3>3
  <2>2. PICK d \in D : \A e \in D : d <= e
    <3> HIDE DEF D
    <3> QED
      BY <2>1, LeastExists
  <2>3. PICK m \in I : d = n - m
    OBVIOUS
  <2>4. ASSUME NEW i \in I PROVE i <= m
    <3>1. n - i \in D
      OBVIOUS
    <3>2. n - m <= n - i
      BY <2>2, <2>3, <3>1
    <3> QED
      BY <3>2
  <2>5. Greatest(I) = m
    <3>1. I \in SUBSET Nat
      OBVIOUS
    <3> QED
      BY <2>4, <3>1, GreatestIs
  <2> HIDE DEF D
  <2> QED
    BY <2>5
<1> QED
  BY <1>1, <1>2

(* The last descriptor of a kind, when there is one more.                  *)
LEMMA DeviceGrows ==
  ASSUME NEW w \in Seq(Desc), NEW x \in Desc, NEW k
  PROVE  WordOf(Append(w, x), DeviceSeen(Append(w, x)), k) =
           IF DescribesDevice(x) THEN Pair(x, k) ELSE WordOf(w, DeviceSeen(w), k)
<1>1. PICK n \in Nat : n = Len(w)
  BY LenProperties
<1>0. PICK v \in Seq(Desc) : v = Append(w, x) /\ LongerBy(v, w, x)
  BY OneMore
<1>2. /\ v = Append(w, x) /\ Len(v) = n + 1
      /\ \A i \in 1..n : v[i] = w[i]
      /\ v[n + 1] = x
  BY <1>1, <1>0 DEF LongerBy
<1> DEFINE I == {i \in 1..Len(w) : DescribesDevice(w[i])}
           J == {i \in 1..Len(v) : DescribesDevice(v[i])}
<1>3. DeviceSeen(w) = Greatest(I) /\ DeviceSeen(v) = Greatest(J)
  BY DEF DeviceSeen, SelectLastInSeq, Greatest
<1>4. I \in SUBSET (1..n) /\ J \in SUBSET Nat
  BY <1>1, <1>2
<1>5. CASE DescribesDevice(x)
  <2>1. n + 1 \in J /\ \A i \in J : i <= n + 1
    BY <1>2, <1>5
  <2>2. DeviceSeen(v) = n + 1
    <3> HIDE DEF I, J
    <3> QED
      BY <1>3, <1>4, <2>1, GreatestIs
  <2>3. n + 1 # 0
    OBVIOUS
  <2> QED
    BY <1>2, <1>5, <2>2, <2>3 DEF WordOf
<1>6. CASE ~DescribesDevice(x)
  <2>1. J = I
    <3>1. ASSUME NEW i \in J PROVE i \in I
      <4>1. i \in 1..n \/ i = n + 1
        BY <1>2
      <4> QED
        BY <1>1, <1>2, <1>6, <4>1
    <3>2. ASSUME NEW i \in I PROVE i \in J
      <4>1. i \in 1..n /\ i \in 1..(n + 1)
        BY <1>1
      <4> QED
        BY <1>2, <4>1
    <3> QED
      BY <3>1, <3>2
  <2>2. PICK d \in 0..n : d = Greatest(I)
    <3> HIDE DEF I, J
    <3> QED
      BY <1>4, GreatestExists
  <2>3. DeviceSeen(v) = d /\ DeviceSeen(w) = d
    BY <1>3, <2>1, <2>2
  <2>4. d # 0 => v[d] = w[d]
    BY <1>2
  <2> HIDE DEF I, J
  <2> QED
    BY <1>2, <1>6, <2>3, <2>4 DEF WordOf
<1> QED
  BY <1>5, <1>6

LEMMA HeaderGrows ==
  ASSUME NEW w \in Seq(Desc), NEW x \in Desc, NEW k
  PROVE  WordOf(Append(w, x), HeaderIn(Append(w, x)), k) =
           IF DescribesHeader(x) THEN Pair(x, k) ELSE WordOf(w, HeaderIn(w), k)
<1>1. PICK n \in Nat : n = Len(w)
  BY LenProperties
<1>0. PICK v \in Seq(Desc) : v = Append(w, x) /\ LongerBy(v, w, x)
  BY OneMore
<1>2. /\ v = Append(w, x) /\ Len(v) = n + 1
      /\ \A i \in 1..n : v[i] = w[i]
      /\ v[n + 1] = x
  BY <1>1, <1>0 DEF LongerBy
<1> DEFINE I == {i \in 1..Len(w) : DescribesHeader(w[i])}
           J == {i \in 1..Len(v) : DescribesHeader(v[i])}
<1>3. HeaderIn(w) = Greatest(I) /\ HeaderIn(v) = Greatest(J)
  BY DEF HeaderIn, SelectLastInSeq, Greatest
<1>4. I \in SUBSET (1..n) /\ J \in SUBSET Nat
  BY <1>1, <1>2
<1>5. CASE DescribesHeader(x)
  <2>1. n + 1 \in J /\ \A i \in J : i <= n + 1
    BY <1>2, <1>5
  <2>2. HeaderIn(v) = n + 1
    <3> HIDE DEF I, J
    <3> QED
      BY <1>3, <1>4, <2>1, GreatestIs
  <2>3. n + 1 # 0
    OBVIOUS
  <2> QED
    BY <1>2, <1>5, <2>2, <2>3 DEF WordOf
<1>6. CASE ~DescribesHeader(x)
  <2>1. J = I
    <3>1. ASSUME NEW i \in J PROVE i \in I
      <4>1. i \in 1..n \/ i = n + 1
        BY <1>2
      <4> QED
        BY <1>1, <1>2, <1>6, <4>1
    <3>2. ASSUME NEW i \in I PROVE i \in J
      <4>1. i \in 1..n /\ i \in 1..(n + 1)
        BY <1>1
      <4> QED
        BY <1>2, <4>1
    <3> QED
      BY <3>1, <3>2
  <2>2. PICK d \in 0..n : d = Greatest(I)
    <3> HIDE DEF I, J
    <3> QED
      BY <1>4, GreatestExists
  <2>3. HeaderIn(v) = d /\ HeaderIn(w) = d
    BY <1>3, <2>1, <2>2
  <2>4. d # 0 => v[d] = w[d]
    BY <1>2
  <2> HIDE DEF I, J
  <2> QED
    BY <1>2, <1>6, <2>3, <2>4 DEF WordOf
<1> QED
  BY <1>5, <1>6

(* The endpoint in force before a descriptor.                              *)
EndpointsIn(s, k) == {i \in 1..(k - 1) : DescribesEndpoint(s[i])}
EndpointOf(x) == [address |-> x[2], attributes |-> x[3], packet |-> Pair(x, 4)]

LEMMA EndpointBeforeIs ==
  ASSUME NEW s, NEW k
  PROVE  EndpointBefore(s, k) = LET e == Greatest(EndpointsIn(s, k))
                                IN  IF e = 0 THEN NoEndpoint ELSE EndpointOf(s[e])
BY Zenon DEF EndpointBefore, SelectLastInSubSeq, Greatest, EndpointsIn, EndpointOf

LEMMA EndpointTyped ==
  ASSUME NEW x \in Desc, DescribesEndpoint(x)
  PROVE  EndpointOf(x) \in EndpointInForce
<1>0. PICK n \in 2..255 : n = Size(x)
  BY DescFields
<1>1. n = Size(x) /\ n >= 7 /\ \A k \in 0..(n - 1) : x[k] \in Octet
  BY <1>0, DescFields, Zenon DEF DescribesEndpoint
<1>2. 2 \in 0..(n - 1) /\ 3 \in 0..(n - 1) /\ 4 \in 0..(n - 1) /\ 5 \in 0..(n - 1)
  BY <1>1
<1>3. x[2] \in Octet /\ x[3] \in Octet /\ x[4] \in Octet /\ x[5] \in Octet
  BY <1>1, <1>2
<1>4. PICK a \in 0..255, b \in 0..255 : a = x[4] /\ b = x[5]
  BY <1>3, Zenon DEF Octet
<1>5. a + 256 * b \in Short
  BY DEF Short
<1>6. Pair(x, 4) = a + 256 * b
  <2>1. 4 + 1 = 5
    OBVIOUS
  <2> QED
    BY <1>4, <2>1, Zenon DEF Pair
<1>7. Pair(x, 4) \in Short
  BY <1>5, <1>6
<1> HIDE DEF Octet, Short
<1> QED
  BY <1>3, <1>7 DEF EndpointOf, EndpointInForce

LEMMA EndpointBeforeTyped ==
  ASSUME NEW s \in Seq(Desc), NEW k \in 1..(Len(s) + 1)
  PROVE  EndpointBefore(s, k) \in EndpointInForce
<1>1. PICK n \in Nat, m \in Nat : n = Len(s) /\ k = m + 1 /\ m <= n
  <2>1. PICK n \in Nat : n = Len(s)
    BY LenProperties
  <2>2. k - 1 \in Nat /\ k = (k - 1) + 1 /\ k - 1 <= n
    BY <2>1
  <2> QED
    BY <2>1, <2>2
<1>2. EndpointsIn(s, k) \in SUBSET (1..m)
  BY <1>1 DEF EndpointsIn
<1>3. PICK e \in 0..m : e = Greatest(EndpointsIn(s, k)) /\ (e # 0 => e \in EndpointsIn(s, k))
  BY <1>2, GreatestExists
<1>4. CASE e = 0
  <2>1. EndpointBefore(s, k) = NoEndpoint
    BY <1>3, <1>4, EndpointBeforeIs
  <2>2. 0 \in Octet /\ 0 \in Short
    BY DEF Octet, Short
  <2> QED
    BY <2>1, <2>2 DEF NoEndpoint, EndpointInForce
<1>5. CASE e # 0
  <2>1. DescribesEndpoint(s[e]) /\ e \in 1..n
    BY <1>1, <1>3, <1>5 DEF EndpointsIn
  <2>2. s[e] \in Desc
    BY <1>1, <2>1, ElementOfSeq
  <2>3. EndpointBefore(s, k) = EndpointOf(s[e])
    BY <1>3, <1>5, EndpointBeforeIs
  <2> QED
    BY <2>1, <2>2, <2>3, EndpointTyped
<1> QED
  BY <1>4, <1>5

LEMMA EndpointKept ==
  ASSUME NEW w \in Seq(Desc), NEW x \in Desc, NEW k \in 1..(Len(w) + 1)
  PROVE  EndpointBefore(Append(w, x), k) = EndpointBefore(w, k)
<1>1. PICK n \in Nat : n = Len(w) /\ k \in 1..(n + 1)
  BY LenProperties
<1>0. PICK v \in Seq(Desc) : v = Append(w, x) /\ LongerBy(v, w, x)
  BY OneMore
<1>2. /\ v = Append(w, x) /\ Len(v) = n + 1
      /\ \A i \in 1..n : v[i] = w[i]
      /\ v[n + 1] = x
  BY <1>1, <1>0 DEF LongerBy
<1>3. EndpointsIn(v, k) = EndpointsIn(w, k)
  <2>1. \A i \in 1..(k - 1) : v[i] = w[i]
    BY <1>1, <1>2
  <2> QED
    BY <2>1 DEF EndpointsIn
<1>4. EndpointsIn(w, k) \in SUBSET (1..n)
  BY <1>1 DEF EndpointsIn
<1>5. PICK e \in 0..n : e = Greatest(EndpointsIn(w, k))
  BY <1>4, GreatestExists
<1>6. e # 0 => v[e] = w[e]
  BY <1>2
<1>7. EndpointBefore(w, k) = IF e = 0 THEN NoEndpoint ELSE EndpointOf(w[e])
  BY <1>5, EndpointBeforeIs
<1>8. EndpointBefore(v, k) = IF e = 0 THEN NoEndpoint ELSE EndpointOf(v[e])
  BY <1>3, <1>5, EndpointBeforeIs
<1> QED
  BY <1>2, <1>6, <1>7, <1>8

LEMMA EndpointGrows ==
  ASSUME NEW w \in Seq(Desc), NEW x \in Desc
  PROVE  EndpointBefore(Append(w, x), Len(Append(w, x)) + 1) =
           IF DescribesEndpoint(x) THEN EndpointOf(x) ELSE EndpointBefore(w, Len(w) + 1)
<1>1. PICK n \in Nat : n = Len(w)
  BY LenProperties
<1>0. PICK v \in Seq(Desc) : v = Append(w, x) /\ LongerBy(v, w, x)
  BY OneMore
<1>2. /\ v = Append(w, x) /\ Len(v) = n + 1
      /\ \A i \in 1..n : v[i] = w[i]
      /\ v[n + 1] = x
  BY <1>1, <1>0 DEF LongerBy
<1>3. PICK k \in Nat : k = n + 2 /\ k = Len(v) + 1 /\ k - 1 = n + 1
  BY <1>2
<1>4. CASE DescribesEndpoint(x)
  <2>1. n + 1 \in EndpointsIn(v, k) /\ \A i \in EndpointsIn(v, k) : i <= n + 1
    BY <1>2, <1>3, <1>4 DEF EndpointsIn
  <2>2. EndpointsIn(v, k) \in SUBSET Nat
    BY <1>3 DEF EndpointsIn
  <2>3. Greatest(EndpointsIn(v, k)) = n + 1
    BY <2>1, <2>2, GreatestIs
  <2>4. n + 1 # 0
    OBVIOUS
  <2>5. EndpointBefore(v, k) = EndpointOf(x)
    BY <1>2, <2>3, <2>4, EndpointBeforeIs
  <2> QED
    BY <1>2, <1>3, <1>4, <2>5
<1>5. CASE ~DescribesEndpoint(x)
  <2>1. EndpointsIn(v, k) = EndpointsIn(v, n + 1)
    <3>1. ASSUME NEW i \in EndpointsIn(v, k) PROVE i \in EndpointsIn(v, n + 1)
      <4>1. i \in 1..(n + 1) /\ DescribesEndpoint(v[i])
        BY <1>3 DEF EndpointsIn
      <4>2. i # n + 1
        BY <1>2, <1>5, <4>1
      <4>3. i \in 1..((n + 1) - 1)
        BY <4>1, <4>2
      <4> QED
        BY <4>1, <4>3 DEF EndpointsIn
    <3>2. ASSUME NEW i \in EndpointsIn(v, n + 1) PROVE i \in EndpointsIn(v, k)
      <4>1. i \in 1..((n + 1) - 1) /\ DescribesEndpoint(v[i])
        BY DEF EndpointsIn
      <4>2. i \in 1..(k - 1)
        BY <1>3, <4>1
      <4> QED
        BY <4>1, <4>2 DEF EndpointsIn
    <3> QED
      BY <3>1, <3>2
  <2>2. EndpointBefore(v, k) = EndpointBefore(v, n + 1)
    BY <2>1, EndpointBeforeIs
  <2>3. EndpointBefore(v, n + 1) = EndpointBefore(w, n + 1)
    <3>1. n + 1 \in 1..(Len(w) + 1)
      BY <1>1
    <3> QED
      BY <1>2, <3>1, EndpointKept
  <2> QED
    BY <1>1, <1>2, <1>3, <1>5, <2>2, <2>3
<1> QED
  BY <1>4, <1>5

(* A bounded list that grows by at most one.                               *)
LEMMA FirstOfGrows ==
  ASSUME NEW T, NEW f \in Seq(T), NEW t \in Seq(T), Len(t) <= 1, NEW M \in Nat
  PROVE  /\ FirstOf(f, M) \in Seq(T)
         /\ FirstOf(f \o t, M) = IF Len(FirstOf(f, M)) >= M THEN FirstOf(f, M)
                                 ELSE FirstOf(f, M) \o t
<1>1. PICK n \in Nat, l \in 0..1 : n = Len(f) /\ l = Len(t)
  <2>1. PICK n \in Nat : n = Len(f)
    BY LenProperties
  <2>2. PICK l \in Nat : l = Len(t)
    BY LenProperties
  <2>3. l \in 0..1
    BY <2>2
  <2> QED
    BY <2>1, <2>2, <2>3
<1>2. PICK v \in Seq(T) : v = f \o t
  BY ConcatProperties
<1>3. Len(v) = n + l /\ \A k \in 1..n : v[k] = f[k]
  <2>1. Len(v) = Len(f) + Len(t) /\ \A i \in 1..(Len(f) + Len(t)) :
           v[i] = IF i <= Len(f) THEN f[i] ELSE t[i - Len(f)]
    BY <1>2, ConcatProperties
  <2>2. \A k \in 1..n : k \in 1..(n + l) /\ k <= n
    BY <1>1
  <2> QED
    BY <1>1, <2>1, <2>2
<1>4. CASE n >= M
  <2>1. Lesser(M, n) = M /\ Lesser(M, n + l) = M
    BY <1>1, <1>4 DEF Lesser
  <2>2. FirstOf(f, M) = SubSeq(f, 1, M) /\ FirstOf(v, M) = SubSeq(v, 1, M)
    BY <1>1, <1>3, <2>1 DEF FirstOf
  <2>3. SubSeq(f, 1, M) \in Seq(T) /\ SubSeq(v, 1, M) = SubSeq(f, 1, M)
    <3>1. Len(f) <= Len(v) /\ 1 \in Nat \ {0} /\ M <= Len(f)
      BY <1>1, <1>3, <1>4
    <3> QED
      BY <1>1, <1>2, <1>3, <3>1, SubSeqAgrees
  <2>4. Len(SubSeq(f, 1, M)) >= M
    <3>1. \A i \in 1..M : f[i] \in T
      <4>1. \A i \in 1..M : i \in 1..Len(f)
        BY <1>1, <1>4
      <4> QED
        BY <4>1, ElementOfSeq
    <3>2. 1 \in Int /\ M \in Int
      OBVIOUS
    <3>3. Len(SubSeq(f, 1, M)) = IF 1 <= M THEN M - 1 + 1 ELSE 0
      BY <3>1, <3>2, SubSeqProperties
    <3> QED
      BY <3>3
  <2> QED
    BY <1>2, <2>2, <2>3, <2>4
<1>5. CASE ~(n >= M)
  <2>1. Lesser(M, n) = n /\ Lesser(M, n + l) = n + l
    BY <1>1, <1>5 DEF Lesser
  <2>2. FirstOf(f, M) = SubSeq(f, 1, Len(f)) /\ FirstOf(v, M) = SubSeq(v, 1, Len(v))
    BY <1>1, <1>3, <2>1 DEF FirstOf
  <2>3. SubSeq(f, 1, Len(f)) = f /\ SubSeq(v, 1, Len(v)) = v
    BY SubSeqFull
  <2> QED
    BY <1>1, <1>2, <1>5, <2>2, <2>3
<1> QED
  BY <1>4, <1>5

(* What a descriptor adds to the jacks ...                                 *)
LEMMA JackInTyped ==
  ASSUME NEW x \in Desc, DescribesIn(x)
  PROVE  JackIn(x) \in Jack
<1>0. PICK n \in 2..255 : n = Size(x)
  BY DescFields
<1>1. n = Size(x) /\ n >= 6 /\ \A k \in 0..(n - 1) : x[k] \in Octet
  BY <1>0, DescFields, Zenon DEF DescribesIn
<1>2. 3 \in 0..(n - 1) /\ 4 \in 0..(n - 1)
  BY <1>1
<1>3. x[3] \in Octet /\ x[4] \in Octet /\ <<>> \in Seq(Octet)
  BY <1>1, <1>2
<1> HIDE DEF Octet
<1> QED
  BY <1>3 DEF JackIn, Jack

LEMMA JackOutTyped ==
  ASSUME NEW x \in Desc, DescribesOut(x)
  PROVE  /\ JackOut(x) \in Jack
         /\ x[5] \in Nat /\ 6 <= (Size(x) - 2) + 1 /\ Size(x) - 2 \in Nat /\ Size(x) - 2 < Size(x)
<1>0. PICK n \in 2..255 : n = Size(x)
  BY DescFields
<1>1. n = Size(x) /\ n >= 9 /\ \A k \in 0..(n - 1) : x[k] \in Octet
  BY <1>0, DescFields, Zenon DEF DescribesOut
<1>2. 3 \in 0..(n - 1) /\ 4 \in 0..(n - 1) /\ 5 \in 0..(n - 1)
  BY <1>1
<1>3. x[3] \in Octet /\ x[4] \in Octet /\ x[5] \in Octet
  BY <1>1, <1>2
<1>4. x[5] \in Nat
  BY <1>3 DEF Octet
<1>5. PICK l \in Nat : l = n - 2 /\ l < n /\ 6 <= l + 1
  BY <1>1
<1>6. l = Size(x) - 2 /\ l < Size(x)
  BY <1>1, <1>5
<1>7. ListIn(x, x[5], MaxJackSources, 6, l) \in Seq(Octet)
  BY <1>4, <1>5, <1>6, CapsAssumption, ListCut
<1>8. JackOut(x) \in Jack
  <2>1. ListIn(x, x[5], MaxJackSources, 6, Size(x) - 2) \in Seq(Octet)
    BY <1>6, <1>7
  <2> HIDE DEF Octet
  <2> QED
    BY <1>3, <2>1 DEF JackOut, Jack
<1> QED
  BY <1>4, <1>5, <1>6, <1>8

LEMMA JackOfTyped ==
  ASSUME NEW x \in Desc
  PROVE  JackOf(x) \in Seq(Jack) /\ Len(JackOf(x)) <= 1
<1>1. CASE DescribesIn(x)
  <2>1. PICK j \in Jack : j = JackIn(x)
    BY <1>1, JackInTyped
  <2>2. JackOf(x) = <<j>>
    BY <1>1, <2>1 DEF JackOf
  <2> QED
    BY <2>2
<1>2. CASE ~DescribesIn(x) /\ DescribesOut(x)
  <2>1. PICK j \in Jack : j = JackOut(x)
    BY <1>2, JackOutTyped
  <2>2. JackOf(x) = <<j>>
    BY <1>2, <2>1 DEF JackOf
  <2> QED
    BY <2>2
<1>3. CASE ~DescribesIn(x) /\ ~DescribesOut(x)
  <2>1. JackOf(x) = <<>>
    BY <1>3 DEF JackOf
  <2> QED
    BY <2>1
<1> QED
  BY <1>1, <1>2, <1>3

JackLists(s) == [k \in 1..Len(s) |-> JackOf(s[k])]

LEMMA JackListsGrow ==
  ASSUME NEW w \in Seq(Desc), NEW x \in Desc
  PROVE  /\ JackLists(w) \in Seq(Seq(Jack))
         /\ JackLists(Append(w, x)) = Append(JackLists(w), JackOf(x))
<1>1. PICK n \in Nat : n = Len(w)
  BY LenProperties
<1>0. PICK v \in Seq(Desc) : v = Append(w, x) /\ LongerBy(v, w, x)
  BY OneMore
<1>2. /\ v = Append(w, x) /\ Len(v) = n + 1
      /\ \A i \in 1..n : v[i] = w[i]
      /\ v[n + 1] = x
  BY <1>1, <1>0 DEF LongerBy
<1>3. (\A k \in 1..n : w[k] \in Desc) /\ \A k \in 1..(n + 1) : v[k] \in Desc
  BY <1>1, <1>2, ElementOfSeq
<1>4. PICK L : L = Seq(Jack)
  OBVIOUS
<1>5. (\A k \in 1..n : JackOf(w[k]) \in L) /\ \A k \in 1..(n + 1) : JackOf(v[k]) \in L
  BY <1>3, <1>4, JackOfTyped
<1>6. PICK s \in Seq(L) : /\ s = JackLists(w) /\ Len(s) = n
                          /\ \A k \in 1..n : s[k] = JackOf(w[k])
  <2>1. PICK s : s = JackLists(w)
    OBVIOUS
  <2>2. s = [k \in 1..n |-> JackOf(w[k])]
    BY <1>1, <2>1 DEF JackLists
  <2>3. s \in Seq(L) /\ Len(s) = n
    BY <1>5, <2>2
  <2>4. \A k \in 1..n : s[k] = JackOf(w[k])
    BY <2>2
  <2> QED
    BY <2>1, <2>3, <2>4
<1>7. PICK t \in Seq(L) : /\ t = JackLists(v) /\ Len(t) = n + 1
                          /\ \A k \in 1..(n + 1) : t[k] = JackOf(v[k])
  <2>1. PICK t : t = JackLists(v)
    OBVIOUS
  <2>2. t = [k \in 1..(n + 1) |-> JackOf(v[k])]
    BY <1>2, <2>1 DEF JackLists
  <2>3. t \in Seq(L) /\ Len(t) = n + 1
    BY <1>5, <2>2
  <2>4. \A k \in 1..(n + 1) : t[k] = JackOf(v[k])
    BY <2>2
  <2> QED
    BY <2>1, <2>3, <2>4
<1>8. \A k \in 1..n : t[k] = s[k]
  <2> SUFFICES ASSUME NEW k \in 1..n PROVE t[k] = s[k]
    OBVIOUS
  <2>1. k \in 1..(n + 1)
    OBVIOUS
  <2> QED
    BY <1>2, <1>6, <1>7, <2>1
<1>9. t[n + 1] = JackOf(x) /\ JackOf(x) \in L
  <2>1. n + 1 \in 1..(n + 1)
    OBVIOUS
  <2> QED
    BY <1>2, <1>4, <1>7, <2>1, JackOfTyped
<1>10. t = Append(s, JackOf(x))
  BY <1>6, <1>7, <1>8, <1>9, LongerByOne
<1> QED
  BY <1>2, <1>4, <1>6, <1>7, <1>10

(* ... is recorded as long as there is room.                               *)
LEMMA JacksGrow ==
  ASSUME NEW w \in Seq(Desc), NEW x \in Desc
  PROVE  /\ JacksOf(w) \in Seq(Jack)
         /\ JacksOf(Append(w, x)) = IF Len(JacksOf(w)) >= MaxJacks THEN JacksOf(w)
                                    ELSE JacksOf(w) \o JackOf(x)
<1>1. PICK f \in Seq(Jack), t \in Seq(Jack) :
        f = FlattenSeq(JackLists(w)) /\ t = JackOf(x) /\ Len(t) <= 1
  <2>1. FlattenSeq(JackLists(w)) \in Seq(Jack)
    BY JackListsGrow, FlattenTyped
  <2> QED
    BY <2>1, JackOfTyped
<1>2. FlattenSeq(JackLists(Append(w, x))) = f \o t
  BY <1>1, JackListsGrow, JackOfTyped, FlattenAppend
<1>3. JacksOf(w) = FirstOf(f, MaxJacks) /\ JacksOf(Append(w, x)) = FirstOf(f \o t, MaxJacks)
  BY <1>1, <1>2, Zenon DEF JacksOf, JackLists
<1>4. MaxJacks \in Nat
  BY CapsAssumption
<1>5. /\ FirstOf(f, MaxJacks) \in Seq(Jack)
      /\ FirstOf(f \o t, MaxJacks) = IF Len(FirstOf(f, MaxJacks)) >= MaxJacks THEN FirstOf(f, MaxJacks)
                                     ELSE FirstOf(f, MaxJacks) \o t
  BY <1>1, <1>4, FirstOfGrows
<1> QED
  BY <1>1, <1>3, <1>5

(* The jacks of a direction are counted.                                   *)
LEMMA FacingGrows ==
  ASSUME NEW s \in Seq(Jack), NEW j \in Jack, NEW d
  PROVE  /\ Facing(s, d) \in Nat
         /\ Facing(Append(s, j), d) = Facing(s, d) + IF j.direction = d THEN 1 ELSE 0
<1>1. PICK n \in Nat : n = Len(s)
  BY LenProperties
<1>0. PICK v \in Seq(Jack) : v = Append(s, j) /\ LongerBy(v, s, j)
  BY OneMore
<1>2. /\ v = Append(s, j) /\ Len(v) = n + 1
      /\ \A i \in 1..n : v[i] = s[i]
      /\ v[n + 1] = j
  BY <1>1, <1>0 DEF LongerBy
<1> DEFINE I == {k \in 1..Len(s) : s[k].direction = d}
           J == {k \in 1..Len(v) : v[k].direction = d}
<1>3. IsFiniteSet(I) /\ Cardinality(I) \in Nat /\ n + 1 \notin I
  <2>1. IsFiniteSet(1..n)
    BY FS_Interval
  <2>2. I \in SUBSET (1..n)
    BY <1>1
  <2>3. IsFiniteSet(I)
    <3> HIDE DEF I
    <3> QED
      BY <2>1, <2>2, FS_Subset
  <2>4. n + 1 \notin I
    BY <1>1
  <2> HIDE DEF I
  <2> QED
    BY <2>3, <2>4, FS_CardinalityType
<1>4. Facing(s, d) = Cardinality(I) /\ Facing(v, d) = Cardinality(J)
  BY DEF Facing
<1>5. CASE j.direction = d
  <2>1. J = I \cup {n + 1}
    <3>1. ASSUME NEW k \in J PROVE k \in I \cup {n + 1}
      <4>1. k \in 1..n \/ k = n + 1
        BY <1>2
      <4> QED
        BY <1>1, <1>2, <4>1
    <3>2. ASSUME NEW k \in I PROVE k \in J
      <4>1. k \in 1..n /\ k \in 1..(n + 1)
        BY <1>1
      <4> QED
        BY <1>2, <4>1
    <3>3. n + 1 \in J
      BY <1>2, <1>5
    <3> QED
      BY <3>1, <3>2, <3>3
  <2>2. Cardinality(J) = Cardinality(I) + 1
    <3> HIDE DEF I, J
    <3> QED
      BY <1>3, <2>1, FS_AddElement
  <2> HIDE DEF I, J
  <2> QED
    BY <1>2, <1>3, <1>4, <1>5, <2>2
<1>6. CASE j.direction # d
  <2>1. J = I
    <3>1. ASSUME NEW k \in J PROVE k \in I
      <4>1. k \in 1..n \/ k = n + 1
        BY <1>2
      <4> QED
        BY <1>1, <1>2, <1>6, <4>1
    <3>2. ASSUME NEW k \in I PROVE k \in J
      <4>1. k \in 1..n /\ k \in 1..(n + 1)
        BY <1>1
      <4> QED
        BY <1>2, <4>1
    <3> QED
      BY <3>1, <3>2
  <2> HIDE DEF I, J
  <2> QED
    BY <1>2, <1>3, <1>4, <1>6, <2>1
<1> QED
  BY <1>5, <1>6

-----------------------------------------------------------------------------
(* The same for endpoints.                                                 *)
LEMMA GeneralLists ==
  ASSUME NEW x \in Desc, DescribesGeneral(x)
  PROVE  /\ ListIn(x, x[3], MaxEmbedded, 4, Size(x) - 1) \in Seq(Octet)
         /\ x[3] \in Nat /\ 4 <= (Size(x) - 1) + 1 /\ Size(x) - 1 \in Nat /\ Size(x) - 1 < Size(x)
<1>0. PICK n \in 2..255 : n = Size(x)
  BY DescFields
<1>1. n = Size(x) /\ n >= 5 /\ \A k \in 0..(n - 1) : x[k] \in Octet
  BY <1>0, DescFields, Zenon DEF DescribesGeneral
<1>2. 3 \in 0..(n - 1)
  BY <1>1
<1>3. x[3] \in Octet
  BY <1>1, <1>2
<1>4. x[3] \in Nat
  BY <1>3 DEF Octet
<1>5. PICK l \in Nat : l = n - 1 /\ l < n /\ 4 <= l + 1
  BY <1>1
<1>6. l = Size(x) - 1 /\ l < Size(x)
  BY <1>1, <1>5
<1>7. ListIn(x, x[3], MaxEmbedded, 4, l) \in Seq(Octet)
  BY <1>4, <1>5, <1>6, CapsAssumption, ListCut
<1> QED
  BY <1>4, <1>5, <1>6, <1>7

LEMMA BulkOfTyped ==
  ASSUME NEW x \in Desc, NEW e \in EndpointInForce
  PROVE  BulkOf(x, e) \in Seq(BulkEndpoint) /\ Len(BulkOf(x, e)) <= 1
<1>1. CASE DescribesGeneral(x) /\ e.address # 0
  <2>1. ListIn(x, x[3], MaxEmbedded, 4, Size(x) - 1) \in Seq(Octet)
    BY <1>1, GeneralLists
  <2>2. PICK one \in BulkEndpoint :
          one = [ep |-> e, embedded |-> ListIn(x, x[3], MaxEmbedded, 4, Size(x) - 1)]
    BY <2>1 DEF BulkEndpoint
  <2>3. BulkOf(x, e) = <<one>>
    BY <1>1, <2>2 DEF BulkOf
  <2> QED
    BY <2>3
<1>2. CASE ~(DescribesGeneral(x) /\ e.address # 0)
  <2>1. BulkOf(x, e) = <<>>
    BY <1>2 DEF BulkOf
  <2> QED
    BY <2>1
<1> QED
  BY <1>1, <1>2

BulkLists(s) == [k \in 1..Len(s) |-> BulkOf(s[k], EndpointBefore(s, k))]

LEMMA BulkListsGrow ==
  ASSUME NEW w \in Seq(Desc), NEW x \in Desc
  PROVE  /\ BulkLists(w) \in Seq(Seq(BulkEndpoint))
         /\ BulkLists(Append(w, x)) =
              Append(BulkLists(w), BulkOf(x, EndpointBefore(w, Len(w) + 1)))
<1>1. PICK n \in Nat : n = Len(w)
  BY LenProperties
<1>0. PICK v \in Seq(Desc) : v = Append(w, x) /\ LongerBy(v, w, x)
  BY OneMore
<1>2. /\ v = Append(w, x) /\ Len(v) = n + 1
      /\ \A i \in 1..n : v[i] = w[i]
      /\ v[n + 1] = x
  BY <1>1, <1>0 DEF LongerBy
<1>3. (\A k \in 1..n : w[k] \in Desc) /\ \A k \in 1..(n + 1) : v[k] \in Desc
  BY <1>1, <1>2, ElementOfSeq
<1>4. PICK L : L = Seq(BulkEndpoint)
  OBVIOUS
<1>5. \A k \in 1..(n + 1) : /\ EndpointBefore(w, k) \in EndpointInForce
                            /\ EndpointBefore(v, k) = EndpointBefore(w, k)
  BY <1>1, <1>2, EndpointBeforeTyped, EndpointKept
<1>6. \A k \in 1..n : BulkOf(w[k], EndpointBefore(w, k)) \in L
  <2> SUFFICES ASSUME NEW k \in 1..n PROVE BulkOf(w[k], EndpointBefore(w, k)) \in L
    OBVIOUS
  <2>1. k \in 1..(n + 1)
    OBVIOUS
  <2> QED
    BY <1>3, <1>4, <1>5, <2>1, BulkOfTyped
<1>7. \A k \in 1..(n + 1) : BulkOf(v[k], EndpointBefore(v, k)) \in L
  BY <1>3, <1>4, <1>5, BulkOfTyped
<1>8. PICK s \in Seq(L) : /\ s = BulkLists(w) /\ Len(s) = n
                          /\ \A k \in 1..n : s[k] = BulkOf(w[k], EndpointBefore(w, k))
  <2>1. PICK s : s = BulkLists(w)
    OBVIOUS
  <2>2. s = [k \in 1..n |-> BulkOf(w[k], EndpointBefore(w, k))]
    BY <1>1, <2>1 DEF BulkLists
  <2>3. s \in Seq(L) /\ Len(s) = n
    BY <1>6, <2>2
  <2>4. \A k \in 1..n : s[k] = BulkOf(w[k], EndpointBefore(w, k))
    BY <2>2
  <2> QED
    BY <2>1, <2>3, <2>4
<1>9. PICK t \in Seq(L) : /\ t = BulkLists(v) /\ Len(t) = n + 1
                          /\ \A k \in 1..(n + 1) : t[k] = BulkOf(v[k], EndpointBefore(v, k))
  <2>1. PICK t : t = BulkLists(v)
    OBVIOUS
  <2>2. t = [k \in 1..(n + 1) |-> BulkOf(v[k], EndpointBefore(v, k))]
    BY <1>2, <2>1 DEF BulkLists
  <2>3. t \in Seq(L) /\ Len(t) = n + 1
    BY <1>7, <2>2
  <2>4. \A k \in 1..(n + 1) : t[k] = BulkOf(v[k], EndpointBefore(v, k))
    BY <2>2
  <2> QED
    BY <2>1, <2>3, <2>4
<1>10. \A k \in 1..n : t[k] = s[k]
  <2> SUFFICES ASSUME NEW k \in 1..n PROVE t[k] = s[k]
    OBVIOUS
  <2>1. k \in 1..(n + 1)
    OBVIOUS
  <2> QED
    BY <1>2, <1>5, <1>8, <1>9, <2>1
<1>11. PICK last \in L : last = BulkOf(x, EndpointBefore(w, n + 1)) /\ t[n + 1] = last
  <2>1. n + 1 \in 1..(n + 1)
    OBVIOUS
  <2> QED
    BY <1>2, <1>5, <1>7, <1>9, <2>1
<1>12. t = Append(s, last)
  BY <1>8, <1>9, <1>10, <1>11, LongerByOne
<1> QED
  BY <1>1, <1>2, <1>4, <1>8, <1>9, <1>11, <1>12

LEMMA EndpointsGrow ==
  ASSUME NEW w \in Seq(Desc), NEW x \in Desc
  PROVE  LET one == BulkOf(x, EndpointBefore(w, Len(w) + 1))
         IN  /\ EndpointsOf(w) \in Seq(BulkEndpoint)
             /\ EndpointsOf(Append(w, x)) =
                  IF Len(EndpointsOf(w)) >= MaxEndpoints THEN EndpointsOf(w)
                  ELSE EndpointsOf(w) \o one
<1>0. PICK e \in EndpointInForce : e = EndpointBefore(w, Len(w) + 1)
  <2>1. Len(w) + 1 \in 1..(Len(w) + 1)
    BY LenProperties
  <2> QED
    BY <2>1, EndpointBeforeTyped
<1>1. PICK f \in Seq(BulkEndpoint), t \in Seq(BulkEndpoint) :
        f = FlattenSeq(BulkLists(w)) /\ t = BulkOf(x, e) /\ Len(t) <= 1
  <2>1. FlattenSeq(BulkLists(w)) \in Seq(BulkEndpoint)
    BY BulkListsGrow, FlattenTyped
  <2> QED
    BY <2>1, BulkOfTyped
<1>2. FlattenSeq(BulkLists(Append(w, x))) = f \o t
  <2>1. BulkLists(w) \in Seq(Seq(BulkEndpoint)) /\ BulkLists(Append(w, x)) = Append(BulkLists(w), t)
    BY <1>0, <1>1, BulkListsGrow
  <2> QED
    BY <1>1, <2>1, FlattenAppend
<1>3. EndpointsOf(w) = FirstOf(f, MaxEndpoints) /\ EndpointsOf(Append(w, x)) = FirstOf(f \o t, MaxEndpoints)
  BY <1>1, <1>2, Zenon DEF EndpointsOf, BulkLists
<1>4. MaxEndpoints \in Nat
  BY CapsAssumption
<1>5. /\ FirstOf(f, MaxEndpoints) \in Seq(BulkEndpoint)
      /\ FirstOf(f \o t, MaxEndpoints) =
           IF Len(FirstOf(f, MaxEndpoints)) >= MaxEndpoints THEN FirstOf(f, MaxEndpoints)
           ELSE FirstOf(f, MaxEndpoints) \o t
  BY <1>1, <1>4, FirstOfGrows
<1> QED
  BY <1>0, <1>1, <1>3, <1>5

-----------------------------------------------------------------------------
(* um9_ms_info, field by field.                                            *)
MsInfo(found, vid, pid, number, alternate, declared, bcd, total, jacks, in, out, endpoints) ==
  [found |-> found, vid |-> vid, pid |-> pid, number |-> number,
   alternate |-> alternate, declared |-> declared, bcd |-> bcd, total |-> total,
   jacks |-> jacks, inJacks |-> in, outJacks |-> out, endpoints |-> endpoints]

SetDevice(r, x, y) == [r EXCEPT !.vid = x, !.pid = y]

LEMMA WithDevice ==
  ASSUME NEW a, NEW b, NEW c, NEW d, NEW e, NEW f,
         NEW g, NEW h, NEW i, NEW j, NEW k, NEW l, NEW x, NEW y
  PROVE  SetDevice(MsInfo(a, b, c, d, e, f, g, h, i, j, k, l), x, y) =
           MsInfo(a, x, y, d, e, f, g, h, i, j, k, l)
<1>1. PICK r : r = MsInfo(a, b, c, d, e, f, g, h, i, j, k, l)
  OBVIOUS
<1>2. r = [found |-> a, vid |-> b, pid |-> c, number |-> d, alternate |-> e, declared |-> f,
        bcd |-> g, total |-> h, jacks |-> i, inJacks |-> j, outJacks |-> k, endpoints |-> l]
  BY <1>1 DEF MsInfo
<1>3. PICK n : n = [r EXCEPT !.vid = x, !.pid = y]
  OBVIOUS
<1>4. n \in [found : {a}, vid : {x}, pid : {y}, number : {d}, alternate : {e}, declared : {f},
         bcd : {g}, total : {h}, jacks : {i}, inJacks : {j}, outJacks : {k}, endpoints : {l}]
  BY <1>2, <1>3
<1>5. n = [found |-> a, vid |-> x, pid |-> y, number |-> d, alternate |-> e, declared |-> f,
        bcd |-> g, total |-> h, jacks |-> i, inJacks |-> j, outJacks |-> k, endpoints |-> l]
  BY <1>4
<1> QED
  BY <1>1, <1>3, <1>5 DEF MsInfo, SetDevice

SetMs(r, t, x, y, z) == [r EXCEPT !.found = t, !.number = x, !.alternate = y, !.declared = z]

LEMMA WithMs ==
  ASSUME NEW a, NEW b, NEW c, NEW d, NEW e, NEW f,
         NEW g, NEW h, NEW i, NEW j, NEW k, NEW l, NEW t, NEW x, NEW y, NEW z
  PROVE  SetMs(MsInfo(a, b, c, d, e, f, g, h, i, j, k, l), t, x, y, z) =
           MsInfo(t, b, c, x, y, z, g, h, i, j, k, l)
<1>1. PICK r : r = MsInfo(a, b, c, d, e, f, g, h, i, j, k, l)
  OBVIOUS
<1>2. r = [found |-> a, vid |-> b, pid |-> c, number |-> d, alternate |-> e, declared |-> f,
        bcd |-> g, total |-> h, jacks |-> i, inJacks |-> j, outJacks |-> k, endpoints |-> l]
  BY <1>1 DEF MsInfo
<1>3. PICK n : n = [r EXCEPT !.found = t, !.number = x, !.alternate = y, !.declared = z]
  OBVIOUS
<1>4. n \in [found : {t}, vid : {b}, pid : {c}, number : {x}, alternate : {y}, declared : {z},
         bcd : {g}, total : {h}, jacks : {i}, inJacks : {j}, outJacks : {k}, endpoints : {l}]
  BY <1>2, <1>3
<1>5. n = [found |-> t, vid |-> b, pid |-> c, number |-> x, alternate |-> y, declared |-> z,
        bcd |-> g, total |-> h, jacks |-> i, inJacks |-> j, outJacks |-> k, endpoints |-> l]
  BY <1>4
<1> QED
  BY <1>1, <1>3, <1>5 DEF MsInfo, SetMs

SetHeader(r, x, y) == [r EXCEPT !.bcd = x, !.total = y]

LEMMA WithHeader ==
  ASSUME NEW a, NEW b, NEW c, NEW d, NEW e, NEW f,
         NEW g, NEW h, NEW i, NEW j, NEW k, NEW l, NEW x, NEW y
  PROVE  SetHeader(MsInfo(a, b, c, d, e, f, g, h, i, j, k, l), x, y) =
           MsInfo(a, b, c, d, e, f, x, y, i, j, k, l)
<1>1. PICK r : r = MsInfo(a, b, c, d, e, f, g, h, i, j, k, l)
  OBVIOUS
<1>2. r = [found |-> a, vid |-> b, pid |-> c, number |-> d, alternate |-> e, declared |-> f,
        bcd |-> g, total |-> h, jacks |-> i, inJacks |-> j, outJacks |-> k, endpoints |-> l]
  BY <1>1 DEF MsInfo
<1>3. PICK n : n = [r EXCEPT !.bcd = x, !.total = y]
  OBVIOUS
<1>4. n \in [found : {a}, vid : {b}, pid : {c}, number : {d}, alternate : {e}, declared : {f},
         bcd : {x}, total : {y}, jacks : {i}, inJacks : {j}, outJacks : {k}, endpoints : {l}]
  BY <1>2, <1>3
<1>5. n = [found |-> a, vid |-> b, pid |-> c, number |-> d, alternate |-> e, declared |-> f,
        bcd |-> x, total |-> y, jacks |-> i, inJacks |-> j, outJacks |-> k, endpoints |-> l]
  BY <1>4
<1> QED
  BY <1>1, <1>3, <1>5 DEF MsInfo, SetHeader

AddedJack(r, x, y, z) == [r EXCEPT !.jacks = Append(@, x), !.inJacks = @ + y, !.outJacks = @ + z]

LEMMA WithJack ==
  ASSUME NEW a, NEW b, NEW c, NEW d, NEW e, NEW f,
         NEW g, NEW h, NEW i, NEW j, NEW k, NEW l, NEW x, NEW y, NEW z
  PROVE  AddedJack(MsInfo(a, b, c, d, e, f, g, h, i, j, k, l), x, y, z) =
           MsInfo(a, b, c, d, e, f, g, h, Append(i, x), j + y, k + z, l)
<1>1. PICK r : r = MsInfo(a, b, c, d, e, f, g, h, i, j, k, l)
  OBVIOUS
<1>2. r = [found |-> a, vid |-> b, pid |-> c, number |-> d, alternate |-> e, declared |-> f,
        bcd |-> g, total |-> h, jacks |-> i, inJacks |-> j, outJacks |-> k, endpoints |-> l]
  BY <1>1 DEF MsInfo
<1>3. PICK n : n = [r EXCEPT !.jacks = Append(@, x), !.inJacks = @ + y, !.outJacks = @ + z]
  OBVIOUS
<1>4. n \in [found : {a}, vid : {b}, pid : {c}, number : {d}, alternate : {e}, declared : {f},
         bcd : {g}, total : {h}, jacks : {Append(i, x)}, inJacks : {j + y}, outJacks : {k + z}, endpoints : {l}]
  BY <1>2, <1>3
<1>5. n = [found |-> a, vid |-> b, pid |-> c, number |-> d, alternate |-> e, declared |-> f,
        bcd |-> g, total |-> h, jacks |-> Append(i, x), inJacks |-> j + y, outJacks |-> k + z, endpoints |-> l]
  BY <1>4
<1> QED
  BY <1>1, <1>3, <1>5 DEF MsInfo, AddedJack

AddedEndpoint(r, x) == [r EXCEPT !.endpoints = Append(@, x)]

LEMMA WithEndpoint ==
  ASSUME NEW a, NEW b, NEW c, NEW d, NEW e, NEW f,
         NEW g, NEW h, NEW i, NEW j, NEW k, NEW l, NEW x
  PROVE  AddedEndpoint(MsInfo(a, b, c, d, e, f, g, h, i, j, k, l), x) =
           MsInfo(a, b, c, d, e, f, g, h, i, j, k, Append(l, x))
<1>1. PICK r : r = MsInfo(a, b, c, d, e, f, g, h, i, j, k, l)
  OBVIOUS
<1>2. r = [found |-> a, vid |-> b, pid |-> c, number |-> d, alternate |-> e, declared |-> f,
        bcd |-> g, total |-> h, jacks |-> i, inJacks |-> j, outJacks |-> k, endpoints |-> l]
  BY <1>1 DEF MsInfo
<1>3. PICK n : n = [r EXCEPT !.endpoints = Append(@, x)]
  OBVIOUS
<1>4. n \in [found : {a}, vid : {b}, pid : {c}, number : {d}, alternate : {e}, declared : {f},
         bcd : {g}, total : {h}, jacks : {i}, inJacks : {j}, outJacks : {k}, endpoints : {Append(l, x)}]
  BY <1>2, <1>3
<1>5. n = [found |-> a, vid |-> b, pid |-> c, number |-> d, alternate |-> e, declared |-> f,
        bcd |-> g, total |-> h, jacks |-> i, inJacks |-> j, outJacks |-> k, endpoints |-> Append(l, x)]
  BY <1>4
<1> QED
  BY <1>1, <1>3, <1>5 DEF MsInfo, AddedEndpoint

(* What the reference reads off the interface's own part ...               *)
OwnInfo(found, vid, pid, number, alternate, declared, s) ==
  MsInfo(found, vid, pid, number, alternate, declared,
         WordOf(s, HeaderIn(s), 3), WordOf(s, HeaderIn(s), 5),
         JacksOf(s), Facing(JacksOf(s), "in"), Facing(JacksOf(s), "out"), EndpointsOf(s))

LEMMA InfoIs ==
  ASSUME NEW w
  PROVE  InfoSeen(w) = OwnInfo(MsAt(w) # 0,
                             WordOf(BeforeMs(w), DeviceSeen(BeforeMs(w)), 8),
                             WordOf(BeforeMs(w), DeviceSeen(BeforeMs(w)), 10),
                             FieldOf(w, MsAt(w), 2), FieldOf(w, MsAt(w), 3),
                             FieldOf(w, MsAt(w), 4), OfMs(w))
BY Zenon DEF InfoSeen, OwnInfo, MsInfo

(* ... is changed by one more descriptor there as by the turn of the loop  *)
(* that finds it: by a header, ...                                         *)
LEMMA OwnHeader ==
  ASSUME NEW s \in Seq(Desc), NEW x \in Desc, DescribesHeader(x), JackOf(x) = <<>>,
         BulkOf(x, EndpointBefore(s, Len(s) + 1)) = <<>>,
         NEW a, NEW b, NEW c, NEW d, NEW e, NEW f
  PROVE  OwnInfo(a, b, c, d, e, f, Append(s, x)) =
           SetHeader(OwnInfo(a, b, c, d, e, f, s), Pair(x, 3), Pair(x, 5))
<1>1. /\ WordOf(Append(s, x), HeaderIn(Append(s, x)), 3) = Pair(x, 3)
      /\ WordOf(Append(s, x), HeaderIn(Append(s, x)), 5) = Pair(x, 5)
  BY HeaderGrows
<1>2. JacksOf(Append(s, x)) = JacksOf(s)
  BY JacksGrow, ConcatEmptySeq
<1>3. EndpointsOf(Append(s, x)) = EndpointsOf(s)
  BY EndpointsGrow, ConcatEmptySeq
<1>4. OwnInfo(a, b, c, d, e, f, Append(s, x)) =
        MsInfo(a, b, c, d, e, f, Pair(x, 3), Pair(x, 5), JacksOf(s),
               Facing(JacksOf(s), "in"), Facing(JacksOf(s), "out"), EndpointsOf(s))
  BY <1>1, <1>2, <1>3 DEF OwnInfo
<1> QED
  BY <1>4, WithHeader DEF OwnInfo

(* ... by a jack, ...                                                      *)
LEMMA OwnJack ==
  ASSUME NEW s \in Seq(Desc), NEW x \in Desc, ~DescribesHeader(x),
         NEW jack \in Jack, JackOf(x) = <<jack>>,
         BulkOf(x, EndpointBefore(s, Len(s) + 1)) = <<>>,
         NEW a, NEW b, NEW c, NEW d, NEW e, NEW f
  PROVE  /\ Len(JacksOf(s)) >= MaxJacks =>
              OwnInfo(a, b, c, d, e, f, Append(s, x)) = OwnInfo(a, b, c, d, e, f, s)
         /\ ~(Len(JacksOf(s)) >= MaxJacks) =>
              OwnInfo(a, b, c, d, e, f, Append(s, x)) =
                AddedJack(OwnInfo(a, b, c, d, e, f, s), jack,
                          IF jack.direction = "in" THEN 1 ELSE 0,
                          IF jack.direction = "out" THEN 1 ELSE 0)
<1>1. /\ WordOf(Append(s, x), HeaderIn(Append(s, x)), 3) = WordOf(s, HeaderIn(s), 3)
      /\ WordOf(Append(s, x), HeaderIn(Append(s, x)), 5) = WordOf(s, HeaderIn(s), 5)
  BY HeaderGrows
<1>2. EndpointsOf(Append(s, x)) = EndpointsOf(s)
  BY EndpointsGrow, ConcatEmptySeq
<1>3. PICK jacks \in Seq(Jack) : jacks = JacksOf(s)
  BY JacksGrow
<1>4. CASE Len(jacks) >= MaxJacks
  <2>1. JacksOf(Append(s, x)) = jacks
    BY <1>3, <1>4, JacksGrow
  <2> QED
    BY <1>1, <1>2, <1>3, <1>4, <2>1 DEF OwnInfo
<1>5. CASE ~(Len(jacks) >= MaxJacks)
  <2>1. JacksOf(Append(s, x)) = Append(jacks, jack)
    <3>1. JacksOf(Append(s, x)) = jacks \o <<jack>>
      BY <1>3, <1>5, JacksGrow
    <3> QED
      BY <3>1, AppendIsConcat
  <2>2. /\ Facing(Append(jacks, jack), "in") =
             Facing(jacks, "in") + (IF jack.direction = "in" THEN 1 ELSE 0)
        /\ Facing(Append(jacks, jack), "out") =
             Facing(jacks, "out") + (IF jack.direction = "out" THEN 1 ELSE 0)
    BY FacingGrows
  <2>3. OwnInfo(a, b, c, d, e, f, Append(s, x)) =
          MsInfo(a, b, c, d, e, f, WordOf(s, HeaderIn(s), 3), WordOf(s, HeaderIn(s), 5),
                 Append(jacks, jack),
                 Facing(jacks, "in") + (IF jack.direction = "in" THEN 1 ELSE 0),
                 Facing(jacks, "out") + (IF jack.direction = "out" THEN 1 ELSE 0),
                 EndpointsOf(s))
    BY <1>1, <1>2, <2>1, <2>2, Zenon DEF OwnInfo
  <2>4. OwnInfo(a, b, c, d, e, f, s) =
          MsInfo(a, b, c, d, e, f, WordOf(s, HeaderIn(s), 3), WordOf(s, HeaderIn(s), 5),
                 jacks, Facing(jacks, "in"), Facing(jacks, "out"), EndpointsOf(s))
    BY <1>3, Zenon DEF OwnInfo
  <2>5. OwnInfo(a, b, c, d, e, f, Append(s, x)) =
          AddedJack(OwnInfo(a, b, c, d, e, f, s), jack,
                    IF jack.direction = "in" THEN 1 ELSE 0,
                    IF jack.direction = "out" THEN 1 ELSE 0)
    BY <2>3, <2>4, WithJack
  <2> QED
    BY <1>3, <1>5, <2>5
<1> QED
  BY <1>3, <1>4, <1>5

(* ... by a class-specific endpoint, ...                                   *)
LEMMA OwnGeneral ==
  ASSUME NEW s \in Seq(Desc), NEW x \in Desc, ~DescribesHeader(x), JackOf(x) = <<>>,
         NEW one \in BulkEndpoint, BulkOf(x, EndpointBefore(s, Len(s) + 1)) = <<one>>,
         NEW a, NEW b, NEW c, NEW d, NEW e, NEW f
  PROVE  /\ Len(EndpointsOf(s)) >= MaxEndpoints =>
              OwnInfo(a, b, c, d, e, f, Append(s, x)) = OwnInfo(a, b, c, d, e, f, s)
         /\ ~(Len(EndpointsOf(s)) >= MaxEndpoints) =>
              OwnInfo(a, b, c, d, e, f, Append(s, x)) =
                AddedEndpoint(OwnInfo(a, b, c, d, e, f, s), one)
<1>1. /\ WordOf(Append(s, x), HeaderIn(Append(s, x)), 3) = WordOf(s, HeaderIn(s), 3)
      /\ WordOf(Append(s, x), HeaderIn(Append(s, x)), 5) = WordOf(s, HeaderIn(s), 5)
  BY HeaderGrows
<1>2. JacksOf(Append(s, x)) = JacksOf(s)
  BY JacksGrow, ConcatEmptySeq
<1>3. PICK list \in Seq(BulkEndpoint) : list = EndpointsOf(s)
  BY EndpointsGrow
<1>4. CASE Len(list) >= MaxEndpoints
  <2>1. EndpointsOf(Append(s, x)) = list
    BY <1>3, <1>4, EndpointsGrow
  <2> QED
    BY <1>1, <1>2, <1>3, <1>4, <2>1 DEF OwnInfo
<1>5. CASE ~(Len(list) >= MaxEndpoints)
  <2>1. EndpointsOf(Append(s, x)) = Append(list, one)
    <3>1. EndpointsOf(Append(s, x)) = list \o <<one>>
      BY <1>3, <1>5, EndpointsGrow
    <3> QED
      BY <3>1, AppendIsConcat
  <2>2. OwnInfo(a, b, c, d, e, f, Append(s, x)) =
          MsInfo(a, b, c, d, e, f, WordOf(s, HeaderIn(s), 3), WordOf(s, HeaderIn(s), 5),
                 JacksOf(s), Facing(JacksOf(s), "in"), Facing(JacksOf(s), "out"),
                 Append(list, one))
    BY <1>1, <1>2, <2>1, Zenon DEF OwnInfo
  <2>3. OwnInfo(a, b, c, d, e, f, s) =
          MsInfo(a, b, c, d, e, f, WordOf(s, HeaderIn(s), 3), WordOf(s, HeaderIn(s), 5),
                 JacksOf(s), Facing(JacksOf(s), "in"), Facing(JacksOf(s), "out"), list)
    BY <1>3, Zenon DEF OwnInfo
  <2>4. OwnInfo(a, b, c, d, e, f, Append(s, x)) =
          AddedEndpoint(OwnInfo(a, b, c, d, e, f, s), one)
    BY <2>2, <2>3, WithEndpoint
  <2> QED
    BY <1>3, <1>5, <2>4
<1> QED
  BY <1>3, <1>4, <1>5

(* ... and by nothing else.                                                *)
LEMMA OwnOther ==
  ASSUME NEW s \in Seq(Desc), NEW x \in Desc, ~DescribesHeader(x), JackOf(x) = <<>>,
         BulkOf(x, EndpointBefore(s, Len(s) + 1)) = <<>>,
         NEW a, NEW b, NEW c, NEW d, NEW e, NEW f
  PROVE  OwnInfo(a, b, c, d, e, f, Append(s, x)) = OwnInfo(a, b, c, d, e, f, s)
<1>1. /\ WordOf(Append(s, x), HeaderIn(Append(s, x)), 3) = WordOf(s, HeaderIn(s), 3)
      /\ WordOf(Append(s, x), HeaderIn(Append(s, x)), 5) = WordOf(s, HeaderIn(s), 5)
  BY HeaderGrows
<1>2. JacksOf(Append(s, x)) = JacksOf(s)
  BY JacksGrow, ConcatEmptySeq
<1>3. EndpointsOf(Append(s, x)) = EndpointsOf(s)
  BY EndpointsGrow, ConcatEmptySeq
<1> QED
  BY <1>1, <1>2, <1>3 DEF OwnInfo

-----------------------------------------------------------------------------
(* A descriptor before the interface, and the interface.                   *)
LEMMA DeviceStep ==
  ASSUME NEW w \in Seq(Desc), NEW x \in Desc, MsAt(w) = 0, ~DescribesMs(x)
  PROVE  /\ DescribesDevice(x) =>
              InfoSeen(Append(w, x)) = SetDevice(InfoSeen(w), Pair(x, 8), Pair(x, 10))
         /\ ~DescribesDevice(x) => InfoSeen(Append(w, x)) = InfoSeen(w)
<1> DEFINE v == Append(w, x)
<1>1. /\ MsAt(v) = 0 /\ BeforeMs(w) = w /\ BeforeMs(v) = v /\ OfMs(w) = <<>> /\ OfMs(v) = <<>>
  BY BeforeGrows
<1>2. \A k : WordOf(v, DeviceSeen(v), k) =
               IF DescribesDevice(x) THEN Pair(x, k) ELSE WordOf(w, DeviceSeen(w), k)
  BY DeviceGrows
<1>3. \A k : FieldOf(w, 0, k) = 0 /\ FieldOf(v, 0, k) = 0
  BY DEF FieldOf
<1> HIDE DEF v
<1>0. PICK no : no = FALSE
  OBVIOUS
<1>4. InfoSeen(w) = OwnInfo(no, WordOf(w, DeviceSeen(w), 8), WordOf(w, DeviceSeen(w), 10),
                          0, 0, 0, <<>>)
  <2>1. (MsAt(w) # 0) = no
    BY <1>0
  <2> QED
    BY <1>1, <1>3, <2>1, InfoIs
<1>5. InfoSeen(v) = OwnInfo(no, WordOf(v, DeviceSeen(v), 8), WordOf(v, DeviceSeen(v), 10),
                          0, 0, 0, <<>>)
  <2>1. (MsAt(v) # 0) = no
    BY <1>0, <1>1
  <2> QED
    BY <1>1, <1>3, <2>1, InfoIs
<1>6. CASE DescribesDevice(x)
  <2>0. WordOf(v, DeviceSeen(v), 8) = Pair(x, 8) /\ WordOf(v, DeviceSeen(v), 10) = Pair(x, 10)
    BY <1>2, <1>6
  <2>1. InfoSeen(v) = OwnInfo(no, Pair(x, 8), Pair(x, 10), 0, 0, 0, <<>>)
    BY <1>5, <2>0
  <2>2. InfoSeen(v) = SetDevice(InfoSeen(w), Pair(x, 8), Pair(x, 10))
    BY <1>4, <2>1, WithDevice DEF OwnInfo
  <2> QED
    BY <1>6, <2>2 DEF v
<1>7. CASE ~DescribesDevice(x)
  <2>0. /\ WordOf(v, DeviceSeen(v), 8) = WordOf(w, DeviceSeen(w), 8)
        /\ WordOf(v, DeviceSeen(v), 10) = WordOf(w, DeviceSeen(w), 10)
    BY <1>2, <1>7
  <2>1. InfoSeen(v) = InfoSeen(w)
    BY <1>4, <1>5, <2>0
  <2> QED
    BY <1>7, <2>1 DEF v
<1> QED
  BY <1>6, <1>7

LEMMA FoundStep ==
  ASSUME NEW w \in Seq(Desc), NEW x \in Desc, MsAt(w) = 0, DescribesMs(x)
  PROVE  \E yes : yes = TRUE /\ InfoSeen(Append(w, x)) = SetMs(InfoSeen(w), yes, x[2], x[3], x[4])
<1> DEFINE v == Append(w, x)
<1>1. PICK m \in Nat \ {0} :
        /\ MsAt(v) = m /\ v[m] = x
        /\ BeforeMs(w) = w /\ BeforeMs(v) = w /\ OfMs(w) = <<>> /\ OfMs(v) = <<>>
  <2>1. Len(w) + 1 \in Nat \ {0}
    BY LenProperties
  <2> QED
    BY <2>1, MsFound
<1>2. \A k : FieldOf(w, 0, k) = 0 /\ FieldOf(v, m, k) = x[k]
  BY <1>1 DEF FieldOf
<1> HIDE DEF v
<1>0. PICK no, yes : no = FALSE /\ yes = TRUE
  OBVIOUS
<1>3. InfoSeen(w) = OwnInfo(no, WordOf(w, DeviceSeen(w), 8), WordOf(w, DeviceSeen(w), 10),
                          0, 0, 0, <<>>)
  <2>1. (MsAt(w) # 0) = no
    BY <1>0
  <2> QED
    BY <1>1, <1>2, <2>1, InfoIs
<1>4. InfoSeen(v) = OwnInfo(yes, WordOf(w, DeviceSeen(w), 8), WordOf(w, DeviceSeen(w), 10),
                          x[2], x[3], x[4], <<>>)
  <2>1. (MsAt(v) # 0) = yes
    BY <1>0, <1>1
  <2> QED
    BY <1>1, <1>2, <2>1, InfoIs
<1>5. InfoSeen(v) = SetMs(InfoSeen(w), yes, x[2], x[3], x[4])
  <2>1. PICK b, c, p, q, r : /\ b = WordOf(w, DeviceSeen(w), 8) /\ c = WordOf(w, DeviceSeen(w), 10)
                             /\ p = x[2] /\ q = x[3] /\ r = x[4]
    OBVIOUS
  <2>2. InfoSeen(w) = OwnInfo(no, b, c, 0, 0, 0, <<>>) /\ InfoSeen(v) = OwnInfo(yes, b, c, p, q, r, <<>>)
    BY <1>3, <1>4, <2>1
  <2>3. SetMs(OwnInfo(no, b, c, 0, 0, 0, <<>>), yes, p, q, r) = OwnInfo(yes, b, c, p, q, r, <<>>)
    <3>1. PICK g, h, i, j, k, l :
            /\ g = WordOf(<<>>, HeaderIn(<<>>), 3) /\ h = WordOf(<<>>, HeaderIn(<<>>), 5)
            /\ i = JacksOf(<<>>) /\ j = Facing(JacksOf(<<>>), "in")
            /\ k = Facing(JacksOf(<<>>), "out") /\ l = EndpointsOf(<<>>)
      OBVIOUS
    <3>2. /\ OwnInfo(no, b, c, 0, 0, 0, <<>>) = MsInfo(no, b, c, 0, 0, 0, g, h, i, j, k, l)
          /\ OwnInfo(yes, b, c, p, q, r, <<>>) = MsInfo(yes, b, c, p, q, r, g, h, i, j, k, l)
      BY <3>1 DEF OwnInfo
    <3>3. SetMs(MsInfo(no, b, c, 0, 0, 0, g, h, i, j, k, l), yes, p, q, r) =
            MsInfo(yes, b, c, p, q, r, g, h, i, j, k, l)
      BY WithMs
    <3> QED
      BY <3>2, <3>3
  <2> QED
    BY <2>1, <2>2, <2>3
<1> QED
  BY <1>0, <1>5 DEF v

(* A descriptor inside changes the part that is read off it only.          *)
LEMMA InsideStep ==
  ASSUME NEW w \in Seq(Desc), NEW x \in Desc, MsAt(w) # 0, EndAt(w) = 0, ~EndsMs(x)
  PROVE  \E a, b, c, d, e, f :
           /\ InfoSeen(w) = OwnInfo(a, b, c, d, e, f, OfMs(w))
           /\ InfoSeen(Append(w, x)) = OwnInfo(a, b, c, d, e, f, Append(OfMs(w), x))
<1> DEFINE v == Append(w, x)
<1>1. v \in Seq(Desc) /\ Len(w) <= Len(v) /\ \A k \in 1..Len(w) : v[k] = w[k]
  <2>1. v \in Seq(Desc) /\ LongerBy(v, w, x)
    BY OneMore
  <2>2. Len(w) \in Nat
    BY LenProperties
  <2> HIDE DEF v
  <2> QED
    BY <2>1, <2>2 DEF LongerBy
<1>2. OfMs(v) = Append(OfMs(w), x)
  BY InsideGrows
<1> HIDE DEF v
<1>3. MsAt(v) = MsAt(w) /\ v[MsAt(v)] = w[MsAt(w)] /\ BeforeMs(v) = BeforeMs(w)
  BY <1>1, SameMs
<1>4. \A k : FieldOf(v, MsAt(v), k) = FieldOf(w, MsAt(w), k)
  BY <1>3 DEF FieldOf
<1>5. PICK a, b, c, d, e, f :
        /\ a = (MsAt(w) # 0) /\ a = (MsAt(v) # 0)
        /\ b = WordOf(BeforeMs(w), DeviceSeen(BeforeMs(w)), 8)
        /\ c = WordOf(BeforeMs(w), DeviceSeen(BeforeMs(w)), 10)
        /\ d = FieldOf(w, MsAt(w), 2) /\ e = FieldOf(w, MsAt(w), 3) /\ f = FieldOf(w, MsAt(w), 4)
  BY <1>3
<1>6. InfoSeen(w) = OwnInfo(a, b, c, d, e, f, OfMs(w))
  BY <1>5, InfoIs
<1>7. InfoSeen(v) = OwnInfo(a, b, c, d, e, f, Append(OfMs(w), x))
  <2>1. /\ b = WordOf(BeforeMs(v), DeviceSeen(BeforeMs(v)), 8)
        /\ c = WordOf(BeforeMs(v), DeviceSeen(BeforeMs(v)), 10)
    BY <1>3, <1>5
  <2>2. d = FieldOf(v, MsAt(v), 2) /\ e = FieldOf(v, MsAt(v), 3) /\ f = FieldOf(v, MsAt(v), 4)
    BY <1>4, <1>5
  <2>3. InfoSeen(v) = OwnInfo(a, b, c, d, e, f, OfMs(v))
    BY <1>5, <2>1, <2>2, InfoIs
  <2> QED
    BY <1>2, <2>3
<1>8. InfoSeen(Append(w, x)) = OwnInfo(a, b, c, d, e, f, Append(OfMs(w), x))
  BY <1>7 DEF v
<1> QED
  BY <1>6, <1>8

(* Nothing is recorded of no descriptor.                                   *)
LEMMA NothingYet ==
  MsAt(<<>>) = 0 /\ OfMs(<<>>) = <<>> /\ EndpointBefore(<<>>, 1) = NoEndpoint /\ InfoSeen(<<>>) = ZeroInfo
<1>1. PICK s \in Seq(Desc) : s = <<>> /\ Len(s) = 0
  <2>1. <<>> \in Seq(Desc) /\ Len(<<>>) = 0
    BY EmptySeq
  <2> QED
    BY <2>1
<1>2. MsAt(s) = 0
  <2>1. \A i \in 1..Len(s) : ~DescribesMs(s[i])
    BY <1>1
  <2> QED
    BY <2>1, MsAtNone
<1>3. BeforeMs(s) = s /\ OfMs(s) = s
  BY <1>1, <1>2 DEF BeforeMs, OfMs
<1>4. DeviceSeen(s) = 0 /\ HeaderIn(s) = 0
  BY <1>1 DEF DeviceSeen, HeaderIn, SelectLastInSeq
<1>5. EndpointBefore(s, 1) = NoEndpoint
  BY <1>1 DEF EndpointBefore, SelectLastInSubSeq
<1>6. \A M \in Nat : FirstOf(<<>>, M) = <<>>
  <2> SUFFICES ASSUME NEW M \in Nat PROVE FirstOf(<<>>, M) = <<>>
    OBVIOUS
  <2>1. Lesser(M, 0) = 0 /\ Len(<<>>) = 0
    BY DEF Lesser
  <2> QED
    BY <2>1, SubSeqEmpty DEF FirstOf
<1>7. JacksOf(s) = <<>> /\ EndpointsOf(s) = <<>>
  <2>1. JackLists(s) = <<>> /\ BulkLists(s) = <<>>
    BY <1>1 DEF JackLists, BulkLists
  <2>2. FlattenSeq(JackLists(s)) = <<>> /\ FlattenSeq(BulkLists(s)) = <<>>
    BY <2>1, FlattenEmpty
  <2> QED
    BY <1>6, <2>2, CapsAssumption DEF JacksOf, EndpointsOf, JackLists, BulkLists
<1>8. ASSUME NEW d PROVE Facing(<<>>, d) = 0
  <2>1. {k \in 1..Len(<<>>) : <<>>[k].direction = d} = {}
    OBVIOUS
  <2> QED
    BY <2>1, FS_EmptySet DEF Facing
<1>9. InfoSeen(s) = MsInfo(FALSE, 0, 0, 0, 0, 0, 0, 0, <<>>, 0, 0, <<>>)
  <2>1. (MsAt(s) # 0) = FALSE
    BY <1>2
  <2>2. \A k : WordOf(s, 0, k) = 0 /\ FieldOf(s, 0, k) = 0
    BY DEF WordOf, FieldOf
  <2>3. InfoSeen(s) = OwnInfo(FALSE, 0, 0, 0, 0, 0, s)
    BY <1>2, <1>3, <1>4, <2>1, <2>2, InfoIs
  <2> QED
    BY <1>4, <1>7, <1>8, <2>2, <2>3 DEF OwnInfo
<1> QED
  BY <1>1, <1>2, <1>3, <1>5, <1>9 DEF ZeroInfo, MsInfo

-----------------------------------------------------------------------------
(* The walker stands at p behind the descriptors that start at g, ...      *)
Passed(b, g, p) == Starts(b) = g \o StartsFrom(b)[p] /\ EndOf(b, g) = p

(* ... and what is recorded is what the reference makes of those.          *)
Agrees(e, i, w) ==
  /\ MsAt(w) # 0 => EndAt(w) = 0
  /\ e = EndpointBefore(OfMs(w), Len(OfMs(w)) + 1)
  /\ i = InfoSeen(w)

LEMMA NothingPassed ==
  ASSUME NEW b, Owned(b)
  PROVE  /\ <<>> \in Seq(Wholes(b)) /\ Passed(b, <<>>, 0)
         /\ DescriptorsAt(b, <<>>) = <<>>
<1>1. 0 \in 0..b.len
  BY DEF Owned
<1>2. PICK s \in Seq(Wholes(b)) : s = StartsFrom(b)[0]
  BY <1>1, StartsTyped
<1>3. <<>> \o s = s
  BY ConcatEmptySeq
<1>4. EndOf(b, <<>>) = 0
  BY DEF EndOf
<1>5. DescriptorsAt(b, <<>>) = <<>>
  BY DEF DescriptorsAt
<1>6. <<>> \in Seq(Wholes(b))
  BY EmptySeq
<1> QED
  BY <1>2, <1>3, <1>4, <1>5, <1>6 DEF Passed, Starts

LEMMA OnePassed ==
  ASSUME NEW b, Owned(b), NEW g \in Seq(Wholes(b)), NEW p \in Wholes(b), Passed(b, g, p)
  PROVE  /\ Append(g, p) \in Seq(Wholes(b))
         /\ Passed(b, Append(g, p), p + b.memory[p])
         /\ \E rest \in Seq(Wholes(b)) : Starts(b) = Append(g, p) \o rest
<1>0. PICK W : W = Wholes(b)
  OBVIOUS
<1>1. p \in 0..b.len /\ p \in Nat /\ WholeAt(b, p)
  BY DEF Wholes, Owned
<1>2. PICK n \in 2..255 : n = b.memory[p] /\ p + n \in 0..b.len
  BY <1>1, WholeFits, ZenonT(60)
<1>3. PICK rest \in Seq(W) : rest = StartsFrom(b)[p + n]
  BY <1>0, <1>2, StartsTyped
<1>4. StartsFrom(b)[p] = <<p>> \o rest
  BY <1>1, <1>2, <1>3, StartsFromIs DEF StartsHere
<1>5. PICK one \in Seq(W) : one = <<p>>
  <2>1. <<p>> \in Seq(W)
    BY <1>0
  <2> QED
    BY <2>1
<1>6. PICK more \in Seq(W) : more = Append(g, p) /\ more = g \o one
  <2>1. Append(g, p) \in Seq(W)
    BY <1>0
  <2>2. Append(g, p) = g \o <<p>>
    BY <1>0, AppendIsConcat
  <2> QED
    BY <1>5, <2>1, <2>2
<1>7. (g \o one) \o rest = g \o (one \o rest)
  <2>1. PICK h \in Seq(W) : h = g
    BY <1>0
  <2>2. (h \o one) \o rest = h \o (one \o rest)
    BY ConcatAssociative
  <2> QED
    BY <2>1, <2>2
<1>8. Starts(b) = more \o rest
  BY <1>4, <1>5, <1>6, <1>7 DEF Passed
<1>9. EndOf(b, more) = p + n
  BY <1>2, <1>6, EndGrows
<1> QED
  BY <1>0, <1>2, <1>3, <1>6, <1>8, <1>9 DEF Passed

LEMMA AllPassed ==
  ASSUME NEW b, Owned(b), NEW g \in Seq(Wholes(b)), NEW p \in 0..b.len, ~WholeAt(b, p),
         Passed(b, g, p)
  PROVE  DescriptorsOf(b) = DescriptorsAt(b, g) /\ (Malformed(b) <=> p # b.len)
<1>1. StartsFrom(b)[p] = <<>>
  BY StartsFromIs DEF StartsHere
<1>2. g \o <<>> = g
  BY ConcatEmptySeq
<1>3. Starts(b) = g /\ EndOf(b, g) = p
  BY <1>1, <1>2 DEF Passed
<1> QED
  BY <1>3 DEF DescriptorsOf, Malformed

-----------------------------------------------------------------------------
(* The kinds of descriptors inside the interface exclude each other.       *)
LEMMA KindsApart ==
  ASSUME NEW x \in Desc
  PROVE  /\ DescribesEndpoint(x) =>
              ~DescribesHeader(x) /\ ~DescribesIn(x) /\ ~DescribesOut(x) /\ ~DescribesGeneral(x)
         /\ DescribesHeader(x) =>
              ~DescribesEndpoint(x) /\ ~DescribesIn(x) /\ ~DescribesOut(x) /\ ~DescribesGeneral(x)
         /\ DescribesIn(x) =>
              ~DescribesEndpoint(x) /\ ~DescribesHeader(x) /\ ~DescribesOut(x) /\ ~DescribesGeneral(x)
         /\ DescribesOut(x) =>
              ~DescribesEndpoint(x) /\ ~DescribesHeader(x) /\ ~DescribesIn(x) /\ ~DescribesGeneral(x)
         /\ DescribesGeneral(x) =>
              ~DescribesEndpoint(x) /\ ~DescribesHeader(x) /\ ~DescribesIn(x) /\ ~DescribesOut(x)
BY DEF DescribesEndpoint, DescribesHeader, DescribesIn, DescribesOut, DescribesGeneral,
       DtEndpoint, DtCsInterface, DtCsEndpoint

LEMMA Adds ==
  ASSUME NEW x \in Desc, NEW e
  PROVE  /\ ~DescribesIn(x) /\ ~DescribesOut(x) => JackOf(x) = <<>>
         /\ DescribesIn(x) => JackOf(x) = <<JackIn(x)>>
         /\ DescribesOut(x) => JackOf(x) = <<JackOut(x)>>
         /\ ~(DescribesGeneral(x) /\ e.address # 0) => BulkOf(x, e) = <<>>
         /\ DescribesGeneral(x) /\ e.address # 0 =>
              BulkOf(x, e) = <<[ep |-> e, embedded |-> ListIn(x, x[3], MaxEmbedded, 4, Size(x) - 1)]>>
BY KindsApart, Zenon DEF JackOf, BulkOf

-----------------------------------------------------------------------------
(* What is recorded goes on agreeing: with a descriptor before the         *)
(* interface, with the interface ...                                       *)
LEMMA BeforeAgrees ==
  ASSUME NEW w \in Seq(Desc), NEW x \in Desc, NEW e, NEW i, Agrees(e, i, w),
         MsAt(w) = 0, ~DescribesMs(x)
  PROVE  /\ MsAt(Append(w, x)) = 0
         /\ DescribesDevice(x) => Agrees(e, SetDevice(i, Pair(x, 8), Pair(x, 10)), Append(w, x))
         /\ ~DescribesDevice(x) => Agrees(e, i, Append(w, x))
<1>1. MsAt(Append(w, x)) = 0 /\ OfMs(w) = <<>> /\ OfMs(Append(w, x)) = <<>>
  BY BeforeGrows
<1>2. e = EndpointBefore(OfMs(Append(w, x)), Len(OfMs(Append(w, x))) + 1) /\ i = InfoSeen(w)
  BY <1>1 DEF Agrees
<1> QED
  BY <1>1, <1>2, DeviceStep DEF Agrees

LEMMA FoundAgrees ==
  ASSUME NEW w \in Seq(Desc), NEW x \in Desc, NEW e, NEW i, Agrees(e, i, w),
         MsAt(w) = 0, DescribesMs(x)
  PROVE  /\ MsAt(Append(w, x)) # 0
         /\ \E yes : yes = TRUE /\ Agrees(e, SetMs(i, yes, x[2], x[3], x[4]), Append(w, x))
<1>1. /\ MsAt(Append(w, x)) = Len(w) + 1 /\ EndAt(Append(w, x)) = 0
      /\ OfMs(w) = <<>> /\ OfMs(Append(w, x)) = <<>>
  BY MsFound
<1>2. Len(w) + 1 # 0
  BY LenProperties
<1>3. e = EndpointBefore(OfMs(Append(w, x)), Len(OfMs(Append(w, x))) + 1) /\ i = InfoSeen(w)
  BY <1>1 DEF Agrees
<1>4. PICK yes : yes = TRUE /\ InfoSeen(Append(w, x)) = SetMs(i, yes, x[2], x[3], x[4])
  BY <1>3, FoundStep
<1>5. Agrees(e, SetMs(i, yes, x[2], x[3], x[4]), Append(w, x))
  BY <1>1, <1>3, <1>4 DEF Agrees
<1> QED
  BY <1>1, <1>2, <1>4, <1>5

(* ... and with a descriptor of its part, of each kind.                    *)
LEMMA InsideAgrees ==
  ASSUME NEW w \in Seq(Desc), NEW x \in Desc, NEW e, NEW i, Agrees(e, i, w),
         MsAt(w) # 0, ~EndsMs(x)
  PROVE  /\ MsAt(Append(w, x)) # 0 /\ OfMs(w) \in Seq(Desc)
         /\ e = EndpointBefore(OfMs(w), Len(OfMs(w)) + 1)
         /\ DescribesEndpoint(x) => Agrees(EndpointOf(x), InfoSeen(Append(w, x)), Append(w, x))
         /\ ~DescribesEndpoint(x) => Agrees(e, InfoSeen(Append(w, x)), Append(w, x))
<1>1. EndAt(w) = 0 /\ e = EndpointBefore(OfMs(w), Len(OfMs(w)) + 1)
  BY DEF Agrees
<1>2. /\ EndAt(Append(w, x)) = 0 /\ OfMs(w) \in Seq(Desc)
      /\ OfMs(Append(w, x)) = Append(OfMs(w), x)
  BY <1>1, InsideGrows
<1>3. MsAt(Append(w, x)) # 0
  <2>1. PICK v \in Seq(Desc) : v = Append(w, x) /\ LongerBy(v, w, x)
    BY OneMore
  <2>2. PICK n \in Nat : n = Len(w)
    BY LenProperties
  <2>3. Len(w) <= Len(v) /\ \A k \in 1..Len(w) : v[k] = w[k]
    BY <2>1, <2>2 DEF LongerBy
  <2>4. MsAt(v) = MsAt(w)
    BY <2>3, SameMs
  <2> QED
    BY <2>1, <2>4
<1>4. PICK s \in Seq(Desc) : s = OfMs(w) /\ OfMs(Append(w, x)) = Append(s, x)
  BY <1>2
<1>5. EndpointBefore(Append(s, x), Len(Append(s, x)) + 1) =
        IF DescribesEndpoint(x) THEN EndpointOf(x) ELSE e
  BY <1>1, <1>4, EndpointGrows
<1> QED
  BY <1>1, <1>2, <1>3, <1>4, <1>5 DEF Agrees

LEMMA OtherRecords ==
  ASSUME NEW w \in Seq(Desc), NEW x \in Desc, NEW e, NEW i, Agrees(e, i, w),
         MsAt(w) # 0, ~EndsMs(x), ~DescribesHeader(x), ~DescribesIn(x), ~DescribesOut(x),
         ~(DescribesGeneral(x) /\ e.address # 0)
  PROVE  InfoSeen(Append(w, x)) = i
<1>1. PICK s \in Seq(Desc) : /\ s = OfMs(w) /\ e = EndpointBefore(s, Len(s) + 1)
                             /\ EndAt(w) = 0 /\ i = InfoSeen(w)
  BY InsideAgrees DEF Agrees
<1>2. PICK a, b, c, d, f, g : /\ i = OwnInfo(a, b, c, d, f, g, s)
                              /\ InfoSeen(Append(w, x)) = OwnInfo(a, b, c, d, f, g, Append(s, x))
  BY <1>1, InsideStep
<1>3. JackOf(x) = <<>> /\ BulkOf(x, EndpointBefore(s, Len(s) + 1)) = <<>>
  BY <1>1, Adds
<1> QED
  BY <1>2, <1>3, OwnOther

LEMMA HeaderRecords ==
  ASSUME NEW w \in Seq(Desc), NEW x \in Desc, NEW e, NEW i, Agrees(e, i, w),
         MsAt(w) # 0, ~EndsMs(x), DescribesHeader(x)
  PROVE  InfoSeen(Append(w, x)) = SetHeader(i, Pair(x, 3), Pair(x, 5))
<1>1. PICK s \in Seq(Desc) : /\ s = OfMs(w) /\ e = EndpointBefore(s, Len(s) + 1)
                             /\ EndAt(w) = 0 /\ i = InfoSeen(w)
  BY InsideAgrees DEF Agrees
<1>2. PICK a, b, c, d, f, g : /\ i = OwnInfo(a, b, c, d, f, g, s)
                              /\ InfoSeen(Append(w, x)) = OwnInfo(a, b, c, d, f, g, Append(s, x))
  BY <1>1, InsideStep
<1>3. JackOf(x) = <<>> /\ BulkOf(x, EndpointBefore(s, Len(s) + 1)) = <<>>
  BY <1>1, Adds, KindsApart
<1> QED
  BY <1>2, <1>3, OwnHeader

LEMMA JackRecords ==
  ASSUME NEW w \in Seq(Desc), NEW x \in Desc, NEW e, NEW i, Agrees(e, i, w),
         MsAt(w) # 0, ~EndsMs(x), DescribesIn(x) \/ DescribesOut(x), NEW jack \in Jack,
         JackOf(x) = <<jack>>
  PROVE  /\ Len(i.jacks) >= MaxJacks => InfoSeen(Append(w, x)) = i
         /\ ~(Len(i.jacks) >= MaxJacks) =>
              InfoSeen(Append(w, x)) = AddedJack(i, jack, IF jack.direction = "in" THEN 1 ELSE 0,
                                               IF jack.direction = "out" THEN 1 ELSE 0)
<1>1. PICK s \in Seq(Desc) : /\ s = OfMs(w) /\ e = EndpointBefore(s, Len(s) + 1)
                             /\ EndAt(w) = 0 /\ i = InfoSeen(w)
  BY InsideAgrees DEF Agrees
<1>2. PICK a, b, c, d, f, g : /\ i = OwnInfo(a, b, c, d, f, g, s)
                              /\ InfoSeen(Append(w, x)) = OwnInfo(a, b, c, d, f, g, Append(s, x))
  BY <1>1, InsideStep
<1>3. ~DescribesHeader(x) /\ BulkOf(x, EndpointBefore(s, Len(s) + 1)) = <<>>
  BY <1>1, Adds, KindsApart
<1>4. i.jacks = JacksOf(s)
  BY <1>2 DEF OwnInfo, MsInfo
<1> QED
  BY <1>2, <1>3, <1>4, OwnJack

LEMMA GeneralRecords ==
  ASSUME NEW w \in Seq(Desc), NEW x \in Desc, NEW e, NEW i, Agrees(e, i, w),
         MsAt(w) # 0, ~EndsMs(x), DescribesGeneral(x), NEW one \in BulkEndpoint,
         BulkOf(x, e) = <<one>>
  PROVE  /\ Len(i.endpoints) >= MaxEndpoints => InfoSeen(Append(w, x)) = i
         /\ ~(Len(i.endpoints) >= MaxEndpoints) =>
              InfoSeen(Append(w, x)) = AddedEndpoint(i, one)
<1>1. PICK s \in Seq(Desc) : /\ s = OfMs(w) /\ e = EndpointBefore(s, Len(s) + 1)
                             /\ EndAt(w) = 0 /\ i = InfoSeen(w)
  BY InsideAgrees DEF Agrees
<1>2. PICK a, b, c, d, f, g : /\ i = OwnInfo(a, b, c, d, f, g, s)
                              /\ InfoSeen(Append(w, x)) = OwnInfo(a, b, c, d, f, g, Append(s, x))
  BY <1>1, InsideStep
<1>3. ~DescribesHeader(x) /\ JackOf(x) = <<>> /\ BulkOf(x, EndpointBefore(s, Len(s) + 1)) = <<one>>
  BY <1>1, Adds, KindsApart
<1>4. i.endpoints = EndpointsOf(s)
  BY <1>2 DEF OwnInfo, MsInfo
<1> QED
  BY <1>2, <1>3, <1>4, OwnGeneral

(* The descriptor that ends the part decides: nothing behind it matters.   *)
LEMMA LeftAgrees ==
  ASSUME NEW w \in Seq(Desc), NEW x \in Desc, NEW e, NEW i, Agrees(e, i, w),
         MsAt(w) # 0, EndsMs(x), NEW rest \in Seq(Desc)
  PROVE  LET all == Append(w, x) \o rest
         IN  InfoSeen(all) = i /\ MsAt(all) # 0 /\ EndAt(all) # 0
<1>1. EndAt(w) = 0 /\ i = InfoSeen(w)
  BY DEF Agrees
<1>2. PICK v \in Seq(Desc) : v = Append(w, x) /\ LongerBy(v, w, x)
  BY OneMore
<1>3. EndAt(v) # 0 /\ OfMs(v) = OfMs(w)
  BY <1>1, <1>2, InsideEnds
<1>4. PICK n \in Nat : n = Len(w)
  BY LenProperties
<1>5. Len(w) <= Len(v) /\ \A k \in 1..Len(w) : v[k] = w[k]
  BY <1>2, <1>4 DEF LongerBy
<1>6. MsAt(v) = MsAt(w) /\ v[MsAt(v)] = w[MsAt(w)] /\ BeforeMs(v) = BeforeMs(w)
  BY <1>5, SameMs
<1>7. InfoSeen(v) = i
  BY <1>1, <1>3, <1>6, Zenon DEF InfoSeen, FieldOf
<1>8. PICK all \in Seq(Desc) : all = v \o rest
  BY ConcatProperties
<1>9. Len(v) <= Len(all) /\ \A k \in 1..Len(v) : all[k] = v[k]
  <2>1. PICK m \in Nat, l \in Nat : m = Len(v) /\ l = Len(rest)
    BY LenProperties
  <2>2. Len(all) = Len(v) + Len(rest) /\ \A k \in 1..(Len(v) + Len(rest)) :
           all[k] = IF k <= Len(v) THEN v[k] ELSE rest[k - Len(v)]
    BY <1>8, ConcatProperties
  <2> QED
    BY <2>1, <2>2
<1>10. InfoSeen(all) = InfoSeen(v) /\ MsAt(all) # 0 /\ EndAt(all) # 0
  BY <1>3, <1>6, <1>9, SameInfo
<1> QED
  BY <1>2, <1>7, <1>8, <1>10

-----------------------------------------------------------------------------
(* The descriptors of two stretches of a buffer, one behind the other.     *)
LEMMA DescriptorsJoin ==
  ASSUME NEW b, Owned(b), NEW g \in Seq(Wholes(b)), NEW r \in Seq(Wholes(b))
  PROVE  DescriptorsAt(b, g \o r) = DescriptorsAt(b, g) \o DescriptorsAt(b, r)
<1>0. PICK W : W = Wholes(b)
  OBVIOUS
<1>1. PICK n \in Nat, m \in Nat : n = Len(g) /\ m = Len(r)
  <2>1. PICK n \in Nat : n = Len(g)
    BY LenProperties
  <2>2. PICK m \in Nat : m = Len(r)
    BY LenProperties
  <2> QED
    BY <2>1, <2>2
<1>2. PICK j \in Seq(W) : /\ j = g \o r /\ Len(j) = n + m
                          /\ \A k \in 1..(n + m) : j[k] = IF k <= n THEN g[k] ELSE r[k - n]
  <2>1. PICK s \in Seq(W), t \in Seq(W) : s = g /\ t = r
    BY <1>0
  <2>2. /\ s \o t \in Seq(W) /\ Len(s \o t) = Len(s) + Len(t)
        /\ \A k \in 1..(Len(s) + Len(t)) : (s \o t)[k] = IF k <= Len(s) THEN s[k] ELSE t[k - Len(s)]
    BY ConcatProperties
  <2> QED
    BY <1>1, <2>1, <2>2
<1>3. PICK s \in Seq(Desc), t \in Seq(Desc), u \in Seq(Desc) :
        /\ s = DescriptorsAt(b, g) /\ Len(s) = n
        /\ t = DescriptorsAt(b, r) /\ Len(t) = m
        /\ u = DescriptorsAt(b, j) /\ Len(u) = n + m
  <2>1. DescriptorsAt(b, g) \in Seq(Desc) /\ Len(DescriptorsAt(b, g)) = n
    BY <1>1, DescriptorsTyped
  <2>2. DescriptorsAt(b, r) \in Seq(Desc) /\ Len(DescriptorsAt(b, r)) = m
    BY <1>1, DescriptorsTyped
  <2>3. DescriptorsAt(b, j) \in Seq(Desc) /\ Len(DescriptorsAt(b, j)) = n + m
    BY <1>0, <1>2, DescriptorsTyped
  <2> QED
    BY <2>1, <2>2, <2>3
<1>4. /\ \A k \in 1..n : s[k] = Descriptor(b, g[k])
      /\ \A k \in 1..m : t[k] = Descriptor(b, r[k])
      /\ \A k \in 1..(n + m) : u[k] = Descriptor(b, j[k])
  BY <1>1, <1>2, <1>3 DEF DescriptorsAt
<1>5. PICK v \in Seq(Desc) : /\ v = s \o t /\ Len(v) = n + m
                             /\ \A k \in 1..(n + m) : v[k] = IF k <= n THEN s[k] ELSE t[k - n]
  <2>1. /\ s \o t \in Seq(Desc) /\ Len(s \o t) = Len(s) + Len(t)
        /\ \A k \in 1..(Len(s) + Len(t)) : (s \o t)[k] = IF k <= Len(s) THEN s[k] ELSE t[k - Len(s)]
    BY ConcatProperties
  <2> QED
    BY <1>3, <2>1, ZenonT(60)
<1>6. ASSUME NEW k \in 1..(n + m) PROVE u[k] = v[k]
  <2>1. CASE k <= n
    <3>1. k \in 1..n /\ j[k] = g[k] /\ v[k] = s[k]
      BY <1>2, <1>5, <2>1, SMTT(60)
    <3> QED
      BY <1>4, <3>1
  <2>2. CASE ~(k <= n)
    <3>1. k - n \in 1..m /\ j[k] = r[k - n] /\ v[k] = t[k - n]
      BY <1>2, <1>5, <2>2, SMTT(30)
    <3> QED
      BY <1>4, <3>1
  <2> QED
    BY <2>1, <2>2
<1>7. u = v
  BY <1>3, <1>5, <1>6, SeqEqual
<1> QED
  BY <1>2, <1>3, <1>5, <1>7

-----------------------------------------------------------------------------
(* What the parser has recorded is what the reference makes of the         *)
(* descriptors it has passed.                                              *)
WalkedPast(g) ==
  /\ Passed(buf, g, it.pos)
  /\ inMs <=> MsAt(DescriptorsAt(buf, g)) # 0
  /\ Agrees(ep, info, DescriptorsAt(buf, g))

SeenWhole ==
  at = "done" =>
    LET all == DescriptorsOf(buf)
    IN  /\ result = 1 <=> Readable(buf, all)
        /\ info = InfoSeen(all)

Follows ==
  /\ at = "idle" => info = ZeroInfo /\ ~inMs /\ ep = NoEndpoint /\ result = 0
  /\ at = "walk" => /\ result = 0 /\ it.err = "none"
                    /\ \E g \in Seq(Wholes(buf)) : WalkedPast(g)
  /\ at = "derive" => /\ result = 0 /\ Readable(buf, DescriptorsOf(buf))
                      /\ info = InfoSeen(DescriptorsOf(buf))
  /\ SeenWhole

LEMMA InitFollows == Init => Follows
BY DEF Init, Follows, SeenWhole

(* A turn that stays in the loop: the reference has one descriptor more.   *)
LEMMA Turned ==
  ASSUME IInv, Walks, NEW g \in Seq(Wholes(buf)), Passed(buf, g, it.pos),
         at' = "walk", result' = 0, buf' = buf, it' = Here,
         inMs' <=> MsAt(Append(DescriptorsAt(buf, g), Descriptor(buf, it.pos))) # 0,
         Agrees(ep', info', Append(DescriptorsAt(buf, g), Descriptor(buf, it.pos)))
  PROVE  Follows'
<1>1. PICK x \in Desc : x = Descriptor(buf, it.pos) /\ Size(x) = buf.memory[it.pos]
  <2>1. PICK x : x = Descriptor(buf, it.pos)
    OBVIOUS
  <2>2. x \in Desc /\ it.pos \in Wholes(buf)
    BY <2>1, HereReads
  <2>3. Owned(buf)
    BY BufferOwned
  <2>4. Size(x) = buf.memory[it.pos]
    BY <2>1, <2>2, <2>3, DescriptorTyped
  <2> QED
    BY <2>1, <2>2, <2>4
<1>2. /\ it.pos \in Wholes(buf) /\ Here.pos = it.pos + buf.memory[it.pos] /\ Here.err = "none"
  BY <1>1, HereReads
<1>3. Owned(buf)
  BY BufferOwned
<1>4. PICK h \in Seq(Wholes(buf)) :
        /\ h = Append(g, it.pos) /\ Passed(buf, h, Here.pos)
        /\ DescriptorsAt(buf, h) = Append(DescriptorsAt(buf, g), Descriptor(buf, it.pos))
  <2>1. Append(g, it.pos) \in Seq(Wholes(buf)) /\ Passed(buf, Append(g, it.pos), Here.pos)
    BY <1>2, <1>3, OnePassed
  <2>2. DescriptorsAt(buf, Append(g, it.pos)) =
          Append(DescriptorsAt(buf, g), Descriptor(buf, it.pos))
    BY <1>2, <1>3, DescriptorsGrow
  <2> QED
    BY <2>1, <2>2
<1>5. /\ Passed(buf', h, it'.pos)
      /\ inMs' <=> MsAt(DescriptorsAt(buf', h)) # 0
      /\ Agrees(ep', info', DescriptorsAt(buf', h))
  BY <1>4
<1>6. WalkedPast(h)'
  BY <1>5 DEF WalkedPast
<1>7. h \in Seq(Wholes(buf'))
  BY <1>4
<1>8. it'.err = "none"
  BY <1>2
<1> QED
  BY <1>6, <1>7, <1>8 DEF Follows, SeenWhole

NewJack(d, s) == [id |-> Byte(4), type |-> Byte(3), direction |-> d, sources |-> s]

LEMMA AddJackAdds ==
  ASSUME NEW d, NEW s
  PROVE  /\ Len(info.jacks) >= MaxJacks => AddJack(d, s) = info
         /\ ~(Len(info.jacks) >= MaxJacks) =>
              AddJack(d, s) = AddedJack(info, NewJack(d, s), IF d = "in" THEN 1 ELSE 0,
                                        IF d = "out" THEN 1 ELSE 0)
BY Zenon DEF AddJack, AddedJack, NewJack

(* What um9_ms_add_jack records is what the reference says of the jack.    *)
LEMMA JackAgrees ==
  ASSUME NEW w \in Seq(Desc), NEW x \in Desc, Agrees(ep, info, w), MsAt(w) # 0, ~EndsMs(x),
         DescribesIn(x) \/ DescribesOut(x), NEW d \in {"in", "out"}, NEW s,
         NewJack(d, s) \in Jack, JackOf(x) = <<NewJack(d, s)>>,
         info' = AddJack(d, s), ep' = ep
  PROVE  Agrees(ep', info', Append(w, x))
<1>1. PICK jack \in Jack : jack = NewJack(d, s) /\ jack.direction = d
  BY DEF NewJack
<1>2. PICK y : y = IF d = "in" THEN 1 ELSE 0
  OBVIOUS
<1>3. PICK z : z = IF d = "out" THEN 1 ELSE 0
  OBVIOUS
<1>4. /\ Len(info.jacks) >= MaxJacks => info' = info
      /\ ~(Len(info.jacks) >= MaxJacks) => info' = AddedJack(info, jack, y, z)
  BY <1>1, <1>2, <1>3, AddJackAdds
<1>5. /\ Len(info.jacks) >= MaxJacks => InfoSeen(Append(w, x)) = info
      /\ ~(Len(info.jacks) >= MaxJacks) => InfoSeen(Append(w, x)) = AddedJack(info, jack, y, z)
  BY <1>1, <1>2, <1>3, JackRecords
<1>6. info' = InfoSeen(Append(w, x))
  BY <1>4, <1>5
<1>7. ~DescribesEndpoint(x)
  BY KindsApart
<1>8. Agrees(ep, InfoSeen(Append(w, x)), Append(w, x))
  BY <1>7, InsideAgrees
<1> QED
  BY <1>6, <1>8

(* um9_ms_parse records of a descriptor what the reference says of it.     *)
LEMMA LoopFollows ==
  ASSUME IInv, Types, Follows, LoopTurn
  PROVE  Follows'
<1>1. /\ Walks /\ at = "walk" /\ it' = Here /\ buf' = buf /\ result = 0 /\ result' = result
      /\ ~LeaveMs => at' = "walk"
  BY DEF LoopTurn, Device, FindMs, SkipBefore, LeaveMs, Endpoint, Header, InJack, OutJack,
         General, SkipInside, Before, Inside, Moves, Walks, Follows
<1>2. PICK g \in Seq(Wholes(buf)) : WalkedPast(g)
  BY <1>1 DEF Follows
<1>3. Owned(buf)
  BY BufferOwned
<1>4. PICK w \in Seq(Desc) : w = DescriptorsAt(buf, g)
  BY <1>3, DescriptorsTyped
<1>5. PICK x : x = Descriptor(buf, it.pos)
  OBVIOUS
<1>6. /\ x \in Desc /\ Here.blen = Size(x) /\ it.pos \in Wholes(buf) /\ Here.err = "none"
      /\ \A k \in Nat : Byte(k) = IF k < Size(x) THEN x[k] ELSE 0
      /\ \A k \in Nat : k + 1 < Size(x) => Word(k) = Pair(x, k)
  BY <1>1, <1>5, HereReads, SMTT(60)
<1>7. PICK n \in 2..255 : n = Size(x) /\ \A k \in 0..(n - 1) : x[k] \in Octet
  <2>1. x \in Desc
    BY <1>6
  <2>2. Size(x) \in 2..255 /\ \A k \in 0..(Size(x) - 1) : x[k] \in Octet
    BY <2>1, DescFields
  <2> QED
    BY <2>2, Zenon
<1>8. /\ \A k \in Nat : k < n => Byte(k) = x[k]
      /\ \A k \in Nat : k + 1 < n => Word(k) = Pair(x, k)
  BY <1>6, <1>7
<1>9. /\ Passed(buf, g, it.pos) /\ (inMs <=> MsAt(w) # 0) /\ Agrees(ep, info, w)
  BY <1>2, <1>4 DEF WalkedPast
<1>10. /\ IsDevice <=> DescribesDevice(x)
       /\ IsMsInterface <=> DescribesMs(x)
       /\ Leaves <=> EndsMs(x)
       /\ IsEndpoint <=> DescribesEndpoint(x)
       /\ IsHeader <=> DescribesHeader(x)
       /\ IsInJack <=> DescribesIn(x)
       /\ IsOutJack <=> DescribesOut(x)
       /\ IsGeneral <=> DescribesGeneral(x) /\ ep.address # 0
  BY <1>1, <1>5, HereKinds
<1>11. ASSUME at' = "walk", inMs' <=> MsAt(Append(w, x)) # 0, Agrees(ep', info', Append(w, x))
       PROVE  Follows'
  <2>1. result' = 0
    BY <1>1
  <2> QED
    BY <1>1, <1>4, <1>5, <1>9, <1>11, <2>1, Turned
<1>12. ep \in EndpointInForce
  BY DEF Types, Recorded
<1> HIDE DEF Desc, Octet, Short
<1>13. CASE Device
  <2>1. /\ ~inMs /\ ~inMs' /\ DescribesDevice(x) /\ ep' = ep /\ at' = "walk"
        /\ info' = SetDevice(info, Word(8), Word(10))
    BY <1>1, <1>10, <1>13 DEF Device, Before, SetDevice, Moves
  <2>2. ~DescribesMs(x) /\ n >= 18
    BY <1>7, <2>1 DEF DescribesDevice, DescribesMs, DtDevice, DtInterface
  <2>3. Word(8) = Pair(x, 8) /\ Word(10) = Pair(x, 10)
    BY <1>8, <2>2
  <2>4. MsAt(w) = 0
    BY <1>9, <2>1
  <2>5. MsAt(Append(w, x)) = 0
    BY <1>6, <1>9, <2>2, <2>4, BeforeAgrees
  <2>6. Agrees(ep, SetDevice(info, Pair(x, 8), Pair(x, 10)), Append(w, x))
    BY <1>6, <1>9, <2>1, <2>2, <2>4, BeforeAgrees
  <2> QED
    BY <1>11, <2>1, <2>3, <2>5, <2>6
<1>14. CASE SkipBefore
  <2>1. /\ ~inMs /\ ~inMs' /\ ~DescribesDevice(x) /\ ~DescribesMs(x)
        /\ ep' = ep /\ info' = info /\ at' = "walk"
    BY <1>1, <1>10, <1>14 DEF SkipBefore, Before, Moves
  <2>2. MsAt(w) = 0
    BY <1>9, <2>1
  <2>3. MsAt(Append(w, x)) = 0 /\ Agrees(ep, info, Append(w, x))
    BY <1>6, <1>9, <2>1, <2>2, BeforeAgrees
  <2> QED
    BY <1>11, <2>1, <2>3
<1>15. CASE FindMs
  <2>1. PICK yes : yes = TRUE
    OBVIOUS
  <2>2. /\ ~inMs /\ inMs' /\ DescribesMs(x) /\ ep' = ep /\ at' = "walk"
        /\ info' = SetMs(info, yes, Byte(2), Byte(3), Byte(4))
    BY <1>1, <1>10, <1>15, <2>1 DEF FindMs, Before, SetMs, Moves
  <2>3. n >= 9
    BY <1>7, <2>2 DEF DescribesMs
  <2>4. Byte(2) = x[2] /\ Byte(3) = x[3] /\ Byte(4) = x[4]
    BY <1>8, <2>3
  <2>5. MsAt(w) = 0
    BY <1>9, <2>2
  <2>6. /\ MsAt(Append(w, x)) # 0
        /\ \E y : y = TRUE /\ Agrees(ep, SetMs(info, y, x[2], x[3], x[4]), Append(w, x))
    BY <1>6, <1>9, <2>2, <2>5, FoundAgrees
  <2>7. Agrees(ep, SetMs(info, yes, x[2], x[3], x[4]), Append(w, x))
    BY <2>1, <2>6
  <2> QED
    BY <1>11, <2>2, <2>4, <2>6, <2>7
<1>16. ASSUME Inside, inMs' = inMs, at' = "walk", ~EndsMs(x), Agrees(ep', info', Append(w, x))
       PROVE  Follows'
  <2>1. MsAt(w) # 0
    BY <1>9, <1>16 DEF Inside
  <2>2. MsAt(Append(w, x)) # 0
    BY <1>6, <1>9, <1>16, <2>1, InsideAgrees
  <2>3. inMs' <=> MsAt(Append(w, x)) # 0
    BY <1>16, <2>2 DEF Inside
  <2> QED
    BY <1>11, <1>16, <2>3
<1>17. ASSUME Inside PROVE MsAt(w) # 0
  BY <1>9, <1>17 DEF Inside
<1>18. /\ DescribesEndpoint(x) \/ DescribesHeader(x) \/ DescribesIn(x) \/ DescribesOut(x)
            \/ DescribesGeneral(x) => ~EndsMs(x)
  BY DEF DescribesEndpoint, DescribesHeader, DescribesIn, DescribesOut, DescribesGeneral, EndsMs,
         DtDevice, DtConfig, DtInterface, DtEndpoint, DtCsInterface, DtCsEndpoint
<1>19. CASE Endpoint
  <2>1. /\ Inside /\ inMs' = inMs /\ DescribesEndpoint(x) /\ at' = "walk" /\ info' = info
        /\ ep' = [address |-> Byte(2), attributes |-> Byte(3), packet |-> Word(4)]
    BY <1>1, <1>10, <1>19 DEF Endpoint, Moves
  <2>2. n >= 7
    BY <1>7, <2>1 DEF DescribesEndpoint
  <2>3. Byte(2) = x[2] /\ Byte(3) = x[3] /\ Word(4) = Pair(x, 4)
    BY <1>8, <2>2
  <2>4. ep' = EndpointOf(x)
    BY <2>1, <2>3 DEF EndpointOf
  <2>5. MsAt(w) # 0 /\ ~EndsMs(x)
    BY <1>17, <1>18, <2>1
  <2>6. Agrees(EndpointOf(x), InfoSeen(Append(w, x)), Append(w, x))
    BY <1>6, <1>9, <2>1, <2>5, InsideAgrees
  <2>7. ~DescribesHeader(x) /\ ~DescribesIn(x) /\ ~DescribesOut(x) /\ ~DescribesGeneral(x)
    BY <1>6, <2>1, KindsApart
  <2>8. InfoSeen(Append(w, x)) = info
    BY <1>6, <1>9, <2>5, <2>7, OtherRecords
  <2> QED
    BY <1>16, <2>1, <2>4, <2>5, <2>6, <2>8
<1>20. CASE Header
  <2>1. /\ Inside /\ inMs' = inMs /\ DescribesHeader(x) /\ at' = "walk" /\ ep' = ep
        /\ info' = SetHeader(info, Word(3), Word(5))
    BY <1>1, <1>10, <1>20 DEF Header, SetHeader, Moves
  <2>2. n >= 7
    BY <1>7, <2>1 DEF DescribesHeader
  <2>3. Word(3) = Pair(x, 3) /\ Word(5) = Pair(x, 5)
    BY <1>8, <2>2
  <2>4. MsAt(w) # 0 /\ ~EndsMs(x) /\ ~DescribesEndpoint(x)
    BY <1>6, <1>17, <1>18, <2>1, KindsApart
  <2>5. Agrees(ep, InfoSeen(Append(w, x)), Append(w, x))
    BY <1>6, <1>9, <2>4, InsideAgrees
  <2>6. InfoSeen(Append(w, x)) = SetHeader(info, Pair(x, 3), Pair(x, 5))
    BY <1>6, <1>9, <2>1, <2>4, HeaderRecords
  <2> QED
    BY <1>16, <2>1, <2>3, <2>4, <2>5, <2>6
<1>21. CASE InJack
  <2>0. PICK d \in {"in", "out"} : d = "in"
    OBVIOUS
  <2>1. PICK s : d = "in" /\ s = <<>>
    BY <2>0
  <2>2. /\ Inside /\ inMs' = inMs /\ DescribesIn(x) /\ at' = "walk" /\ ep' = ep
        /\ info' = AddJack(d, s)
    BY <1>1, <1>10, <1>21, <2>1 DEF InJack, Moves
  <2>3. n >= 6
    BY <1>7, <2>2 DEF DescribesIn
  <2>4. Byte(4) = x[4] /\ Byte(3) = x[3]
    BY <1>8, <2>3
  <2>5. NewJack(d, s) = JackIn(x)
    BY <2>1, <2>4 DEF NewJack, JackIn
  <2>6. NewJack(d, s) \in Jack /\ JackOf(x) = <<NewJack(d, s)>>
    BY <1>6, <2>2, <2>5, JackInTyped, Adds
  <2>7. MsAt(w) # 0 /\ ~EndsMs(x)
    BY <1>17, <1>18, <2>2
  <2>8. Agrees(ep', info', Append(w, x))
    BY <1>6, <1>9, <2>2, <2>6, <2>7, JackAgrees
  <2> QED
    BY <1>16, <2>2, <2>7, <2>8
<1>22. CASE OutJack
  <2>0. PICK d \in {"in", "out"} : d = "out"
    OBVIOUS
  <2>1. PICK s : d = "out" /\ s = Entries(Byte(5), MaxJackSources, Here.blen - 7, 6)
    BY <2>0
  <2>2. /\ Inside /\ inMs' = inMs /\ DescribesOut(x) /\ at' = "walk" /\ ep' = ep
        /\ info' = AddJack(d, s)
    BY <1>1, <1>10, <1>22, <2>1 DEF OutJack, Moves
  <2>3. n >= 9
    BY <1>7, <2>2 DEF DescribesOut
  <2>4. Byte(4) = x[4] /\ Byte(3) = x[3] /\ Byte(5) = x[5]
    BY <1>8, <2>3
  <2>5. PICK c \in Nat, l \in Nat : /\ c = x[5] /\ l = Size(x) - 2 /\ 6 <= l + 1 /\ l < Size(x)
                                    /\ JackOut(x) \in Jack
    BY <1>6, <2>2, JackOutTyped
  <2>6. PICK region : region = l - 6 + 1 /\ region = Here.blen - 7
    BY <1>6, <1>7, <2>5
  <2>7. Entries(c, MaxJackSources, region, 6) = ListIn(x, c, MaxJackSources, 6, l)
    <3>1. PICK m \in Nat, f \in Nat : m = MaxJackSources /\ f = 6 /\ f <= l + 1 /\ region = l - f + 1
      BY <2>5, <2>6, CapsAssumption
    <3>2. l < Size(x)
      BY <2>5
    <3>3. Entries(c, m, region, f) = ListIn(x, c, m, f, l)
      BY <1>1, <1>5, <3>1, <3>2, EntriesAreList
    <3> QED
      BY <3>1, <3>3, Zenon
  <2>8. s = ListIn(x, x[5], MaxJackSources, 6, Size(x) - 2)
    BY <2>1, <2>4, <2>5, <2>6, <2>7
  <2>9. NewJack(d, s) = JackOut(x)
    BY <2>1, <2>4, <2>8, Zenon DEF NewJack, JackOut
  <2>10. NewJack(d, s) \in Jack /\ JackOf(x) = <<NewJack(d, s)>>
    BY <1>6, <2>2, <2>5, <2>9, Adds
  <2>11. MsAt(w) # 0 /\ ~EndsMs(x)
    BY <1>17, <1>18, <2>2
  <2>12. Agrees(ep', info', Append(w, x))
    BY <1>6, <1>9, <2>2, <2>10, <2>11, JackAgrees
  <2> QED
    BY <1>16, <2>2, <2>11, <2>12
<1>23. CASE General
  <2>1. PICK one : one = [ep |-> ep, embedded |-> Entries(Byte(3), MaxEmbedded, Here.blen - 4, 4)]
    OBVIOUS
  <2>2. /\ Inside /\ inMs' = inMs /\ DescribesGeneral(x) /\ ep.address # 0
        /\ at' = "walk" /\ ep' = ep
        /\ Len(info.endpoints) >= MaxEndpoints => info' = info
        /\ ~(Len(info.endpoints) >= MaxEndpoints) => info' = AddedEndpoint(info, one)
    BY <1>1, <1>10, <1>23, <2>1, Zenon DEF General, AddedEndpoint, Moves
  <2>3. n >= 5
    BY <1>7, <2>2 DEF DescribesGeneral
  <2>4. Byte(3) = x[3]
    BY <1>8, <2>3
  <2>5. PICK c \in Nat, l \in Nat : c = x[3] /\ l = Size(x) - 1 /\ 4 <= l + 1 /\ l < Size(x)
    BY <1>6, <2>2, GeneralLists
  <2>6. PICK region : region = l - 4 + 1 /\ region = Here.blen - 4
    BY <1>6, <1>7, <2>5
  <2>7. Entries(c, MaxEmbedded, region, 4) = ListIn(x, c, MaxEmbedded, 4, l)
    <3>1. PICK m \in Nat, f \in Nat : m = MaxEmbedded /\ f = 4 /\ f <= l + 1 /\ region = l - f + 1
      BY <2>5, <2>6, CapsAssumption
    <3>2. l < Size(x)
      BY <2>5
    <3>3. Entries(c, m, region, f) = ListIn(x, c, m, f, l)
      BY <1>1, <1>5, <3>1, <3>2, EntriesAreList
    <3> QED
      BY <3>1, <3>3, Zenon
  <2>8. PICK list : /\ list = ListIn(x, x[3], MaxEmbedded, 4, Size(x) - 1)
                    /\ list = Entries(Byte(3), MaxEmbedded, Here.blen - 4, 4)
    BY <2>4, <2>5, <2>6, <2>7
  <2>9. one \in BulkEndpoint
    <3>1. list \in Seq(Octet)
      BY <1>6, <2>2, <2>8, GeneralLists
    <3> QED
      BY <1>12, <2>1, <2>8, <3>1 DEF BulkEndpoint
  <2>10. BulkOf(x, ep) = <<one>>
    BY <1>6, <2>1, <2>2, <2>8, Adds
  <2>11. MsAt(w) # 0 /\ ~EndsMs(x) /\ ~DescribesEndpoint(x)
    BY <1>6, <1>17, <1>18, <2>2, KindsApart
  <2>12. Agrees(ep, InfoSeen(Append(w, x)), Append(w, x))
    BY <1>6, <1>9, <2>11, InsideAgrees
  <2>13. info' = InfoSeen(Append(w, x))
    BY <1>6, <1>9, <2>2, <2>9, <2>10, <2>11, GeneralRecords
  <2> QED
    BY <1>16, <2>2, <2>11, <2>12, <2>13
<1>24. CASE SkipInside
  <2>1. /\ Inside /\ inMs' = inMs /\ at' = "walk" /\ ep' = ep /\ info' = info
        /\ ~EndsMs(x) /\ ~DescribesEndpoint(x) /\ ~DescribesHeader(x) /\ ~DescribesIn(x)
        /\ ~DescribesOut(x) /\ ~(DescribesGeneral(x) /\ ep.address # 0)
    BY <1>1, <1>10, <1>24 DEF SkipInside, Moves
  <2>2. MsAt(w) # 0
    BY <1>17, <2>1
  <2>3. Agrees(ep, InfoSeen(Append(w, x)), Append(w, x))
    BY <1>6, <1>9, <2>1, <2>2, InsideAgrees
  <2>4. InfoSeen(Append(w, x)) = info
    BY <1>6, <1>9, <2>1, <2>2, OtherRecords
  <2> QED
    BY <1>16, <2>1, <2>3, <2>4
<1>25. CASE LeaveMs
  <2>1. /\ Inside /\ EndsMs(x) /\ at' = "derive" /\ info' = info
    BY <1>10, <1>25 DEF LeaveMs
  <2>2. MsAt(w) # 0
    BY <1>17, <2>1
  <2>3. PICK rest \in Seq(Wholes(buf)) : Starts(buf) = Append(g, it.pos) \o rest
    BY <1>3, <1>6, <1>9, OnePassed, ZenonT(60)
  <2>4. PICK h \in Seq(Wholes(buf)) : h = Append(g, it.pos) /\ DescriptorsAt(buf, h) = Append(w, x)
    BY <1>3, <1>4, <1>5, <1>6, DescriptorsGrow
  <2>5. DescriptorsOf(buf) = Append(w, x) \o DescriptorsAt(buf, rest)
    BY <1>3, <2>3, <2>4, DescriptorsJoin DEF DescriptorsOf
  <2>6. PICK r \in Seq(Desc) : r = DescriptorsAt(buf, rest)
    BY <1>3, DescriptorsTyped
  <2>7. /\ InfoSeen(Append(w, x) \o r) = info
        /\ MsAt(Append(w, x) \o r) # 0 /\ EndAt(Append(w, x) \o r) # 0
    BY <1>6, <1>9, <2>1, <2>2, LeftAgrees
  <2>8. Readable(buf, DescriptorsOf(buf)) /\ info = InfoSeen(DescriptorsOf(buf))
    BY <2>5, <2>6, <2>7 DEF Readable, MsEnded
  <2>9. Readable(buf', DescriptorsOf(buf')) /\ info' = InfoSeen(DescriptorsOf(buf'))
    BY <1>1, <2>1, <2>8
  <2> QED
    BY <1>1, <2>1, <2>9 DEF Follows, SeenWhole
<1> QED
  BY <1>13, <1>14, <1>15, <1>19, <1>20, <1>21, <1>22, <1>23, <1>24, <1>25 DEF LoopTurn

-----------------------------------------------------------------------------
(* The loop ends: at the end of the buffer, or at malformed bytes.         *)
LEMMA WalkEndsFollows ==
  ASSUME IInv, Follows, WalkEnds
  PROVE  Follows'
<1>1. /\ at = "walk" /\ ~Finds(buf, it) /\ result = 0 /\ it.err = "none"
      /\ UNCHANGED <<buf, info, result>> /\ it' = [it EXCEPT !.err = Verdict(buf, it)]
      /\ it'.err = "none" => at' = "derive"
      /\ it'.err # "none" => at' = "done"
  BY DEF WalkEnds, Follows
<1>2. PICK g \in Seq(Wholes(buf)) : WalkedPast(g)
  BY <1>1 DEF Follows
<1>3. Owned(buf)
  BY BufferOwned
<1>4. PICK w \in Seq(Desc) : w = DescriptorsAt(buf, g)
  BY <1>3, DescriptorsTyped
<1>5. Passed(buf, g, it.pos) /\ Agrees(ep, info, w)
  BY <1>2, <1>4 DEF WalkedPast
<1>6. it.pos \in 0..buf.len /\ ~WholeAt(buf, it.pos)
  BY <1>1, HereWhole
<1>7. DescriptorsOf(buf) = w /\ (Malformed(buf) <=> it.pos # buf.len)
  BY <1>3, <1>4, <1>5, <1>6, AllPassed
<1>8. info = InfoSeen(DescriptorsOf(buf)) /\ ~(MsAt(w) # 0 /\ EndAt(w) # 0)
  BY <1>5, <1>7 DEF Agrees
<1>9. Readable(buf, DescriptorsOf(buf)) <=> it.pos = buf.len
  BY <1>7, <1>8 DEF Readable, MsEnded
<1>10. it'.err = "none" <=> it.pos = buf.len
  <2>1. PICK len \in Nat, p \in Nat : len = buf.len /\ p = it.pos /\ p <= len
    BY <1>3, <1>6 DEF Owned
  <2>2. p >= len <=> p = len
    BY <2>1
  <2>3. Verdict(buf, it) = "none" <=> p = len
    BY <1>1, <2>1, <2>2 DEF Verdict, AtEnd
  <2>4. it'.err = Verdict(buf, it)
    BY <1>1 DEF IInv, Iterator
  <2> QED
    BY <2>1, <2>3, <2>4
<1>11. /\ Readable(buf', DescriptorsOf(buf')) <=> Readable(buf, DescriptorsOf(buf))
       /\ info' = InfoSeen(DescriptorsOf(buf'))
  BY <1>1, <1>8
<1> QED
  BY <1>1, <1>9, <1>10, <1>11 DEF Follows, SeenWhole

LEMMA StepFollows == IInv /\ Types /\ Follows /\ [Next]_vars => Follows'
<1> SUFFICES ASSUME IInv, Types, Follows, [Next]_vars PROVE Follows'
  OBVIOUS
<1>1. CASE LoopTurn
  BY <1>1, LoopFollows
<1>2. CASE WalkEnds
  BY <1>2, WalkEndsFollows
<1>3. ASSUME UNCHANGED <<buf, info>>, at = "derive", at' = "derive", result' = result
      PROVE  Follows'
  <2>1. Readable(buf', DescriptorsOf(buf')) /\ info' = InfoSeen(DescriptorsOf(buf'))
    BY <1>3 DEF Follows
  <2> QED
    BY <1>3, <2>1 DEF Follows, SeenWhole
<1>4. CASE NextPort \/ NextEndpoint
  <2>1. UNCHANGED <<buf, info>> /\ at = "derive" /\ at' = "derive" /\ result' = result
    BY <1>4 DEF NextPort, NextEndpoint, HasJack, HasEndpoint
  <2> QED
    BY <1>3, <2>1
<1>5. CASE Derived
  <2>1. UNCHANGED <<buf, info>> /\ at = "derive" /\ at' = "done" /\ result' = 1
    BY <1>5 DEF Derived
  <2>2. Readable(buf', DescriptorsOf(buf')) /\ info' = InfoSeen(DescriptorsOf(buf'))
    BY <2>1 DEF Follows
  <2> QED
    BY <2>1, <2>2 DEF Follows, SeenWhole
<1>6. ASSUME NEW b \in Buffers, Parse(b) PROVE Follows'
  <2>1. /\ at = "idle" /\ at' = "walk" /\ buf' = b
        /\ UNCHANGED <<it, inMs, ep, info, result>>
    BY <1>6 DEF Parse
  <2>2. /\ it = IterInit /\ info = ZeroInfo /\ ~inMs /\ ep = NoEndpoint /\ result = 0
    BY <2>1 DEF Follows, IInv, FreshWhenIdle
  <2>3. it.pos = 0 /\ it.err = "none"
    BY <2>2 DEF IterInit
  <2>4. Owned(b)
    BY BuffersAssumption DEF Owned
  <2>5. PICK g \in Seq(Wholes(b)) : g = <<>> /\ Passed(b, g, 0) /\ DescriptorsAt(b, g) = <<>>
    BY <2>4, NothingPassed
  <2>6. Agrees(ep, info, <<>>) /\ MsAt(<<>>) = 0
    <3>1. Len(<<>>) + 1 = 1
      BY EmptySeq
    <3> QED
      BY <2>2, <3>1, NothingYet DEF Agrees
  <2>7. WalkedPast(g)'
    <3>1. /\ Passed(buf', g, it'.pos)
          /\ inMs' <=> MsAt(DescriptorsAt(buf', g)) # 0
          /\ Agrees(ep', info', DescriptorsAt(buf', g))
      BY <2>1, <2>2, <2>3, <2>5, <2>6
    <3> QED
      BY <3>1 DEF WalkedPast
  <2>8. g \in Seq(Wholes(buf'))
    BY <2>1
  <2> QED
    BY <2>1, <2>2, <2>3, <2>7, <2>8 DEF Follows, SeenWhole
<1>7. CASE Return
  <2>1. Init'
    BY <1>7 DEF Return, Init
  <2> QED
    BY <2>1, InitFollows, PTL
<1>8. CASE UNCHANGED vars
  <2>1. UNCHANGED <<buf, it, inMs, ep, info, at, result>>
    BY <1>8 DEF vars
  <2>2. ASSUME NEW g \in Seq(Wholes(buf)), WalkedPast(g) PROVE WalkedPast(g)'
    <3>1. /\ Passed(buf', g, it'.pos)
          /\ inMs' <=> MsAt(DescriptorsAt(buf', g)) # 0
          /\ Agrees(ep', info', DescriptorsAt(buf', g))
      BY <2>1, <2>2 DEF WalkedPast
    <3> QED
      BY <3>1 DEF WalkedPast
  <2>3. Wholes(buf') = Wholes(buf)
    BY <2>1
  <2>4. at' = "derive" => Readable(buf', DescriptorsOf(buf')) /\ info' = InfoSeen(DescriptorsOf(buf'))
    BY <2>1 DEF Follows
  <2>5. at' = "walk" => \E g \in Seq(Wholes(buf')) : WalkedPast(g)'
    BY <2>1, <2>2, <2>3 DEF Follows
  <2>6. SeenWhole'
    BY <2>1 DEF Follows, SeenWhole
  <2> QED
    BY <2>1, <2>4, <2>5, <2>6 DEF Follows
<1> QED
  BY <1>1, <1>2, <1>4, <1>5, <1>6, <1>7, <1>8 DEF Next, Step, LoopTurn

(* What was seen is what ports.h says, but for the device.                 *)
LEMMA BeforeIsFront ==
  ASSUME NEW all \in Seq(Desc)
  PROVE  /\ Len(BeforeMs(all)) \in 0..Len(all)
         /\ \A k \in 1..Len(BeforeMs(all)) : BeforeMs(all)[k] = all[k]
         /\ Len(BeforeMs(all)) = IF MsAt(all) = 0 THEN Len(all) ELSE MsAt(all) - 1
<1>1. PICK n \in Nat, m \in Nat : n = Len(all) /\ m = MsAt(all) /\ m <= n
  BY LenProperties, MsAtIs
<1>2. CASE m = 0
  BY <1>1, <1>2 DEF BeforeMs
<1>3. CASE m # 0
  <2>1. BeforeMs(all) = SubSeq(all, 1, m - 1) /\ m - 1 \in 0..n
    BY <1>1, <1>3 DEF BeforeMs
  <2> HIDE DEF Desc
  <2> QED
    BY <1>1, <1>3, <2>1
<1> QED
  BY <1>2, <1>3

LEMMA SeenIsWith ==
  ASSUME NEW all \in Seq(Desc), NEW d, d = DeviceSeen(BeforeMs(all))
  PROVE  InfoSeen(all) = InfoWith(all, d) /\ d \in {0} \cup Devices(all)
<1> DEFINE before == BeforeMs(all)
           I == {k \in 1..Len(before) : DescribesDevice(before[k])}
<1>1. PICK n \in Nat, m \in Nat : n = Len(all) /\ m = Len(before) /\ m <= n
  BY LenProperties, BeforeIsFront
<1>2. \A k \in 1..m : before[k] = all[k]
  BY <1>1, BeforeIsFront
<1>3. d = Greatest(I) /\ I \in SUBSET (1..m)
  BY <1>1 DEF DeviceSeen, SelectLastInSeq, Greatest
<1>4. d \in 0..m /\ (d # 0 => d \in I)
  <2> HIDE DEF I
  <2> QED
    BY <1>3, GreatestExists
<1>5. d # 0 => d \in 1..m /\ d \in 1..n /\ DescribesDevice(all[d]) /\ before[d] = all[d]
  BY <1>1, <1>2, <1>4
<1> HIDE DEF before, I
<1>6. \A k : WordOf(before, d, k) = WordOf(all, d, k)
  BY <1>5 DEF WordOf
<1>7. InfoSeen(all) = InfoWith(all, d)
  <2>1. WordOf(before, d, 8) = WordOf(all, d, 8) /\ WordOf(before, d, 10) = WordOf(all, d, 10)
    BY <1>6
  <2> QED
    BY <2>1, Zenon DEF InfoSeen, InfoWith, before
<1>8. d \in {0} \cup Devices(all)
  BY <1>1, <1>5 DEF Devices
<1> QED
  BY <1>7, <1>8

LEMMA SeenIsFirst ==
  ASSUME NEW all \in Seq(Desc), OneDevice(all)
  PROVE  DeviceSeen(BeforeMs(all)) = DeviceIn(all)
<1> DEFINE before == BeforeMs(all)
           I == {k \in 1..Len(before) : DescribesDevice(before[k])}
<1>1. PICK n \in Nat, m \in Nat, a \in Nat :
        /\ n = Len(all) /\ m = Len(before) /\ a = MsAt(all)
        /\ m <= n /\ a <= n /\ (m = IF a = 0 THEN n ELSE a - 1)
  BY LenProperties, BeforeIsFront, MsAtIs
<1>2. \A k \in 1..m : before[k] = all[k]
  BY <1>1, BeforeIsFront
<1>3. DeviceSeen(before) = Greatest(I) /\ DeviceIn(all) = Least(Devices(all))
  BY DEF DeviceSeen, DeviceIn, Devices, SelectLastInSeq, SelectInSeq, Greatest, Least
<1>4. \A k : k \in I <=> k \in 1..m /\ DescribesDevice(all[k])
  BY <1>1, <1>2
<1>5. \A k : k \in Devices(all) <=> k \in 1..n /\ DescribesDevice(all[k])
  BY <1>1 DEF Devices
<1>6. \A k \in Devices(all) : k = DeviceIn(all) /\ (a # 0 => k < a)
  BY <1>1 DEF OneDevice
<1> HIDE DEF before, I
<1>7. I = Devices(all)
  <2>1. ASSUME NEW k \in I PROVE k \in Devices(all)
    BY <1>1, <1>4, <1>5
  <2>2. ASSUME NEW k \in Devices(all) PROVE k \in I
    <3>1. k \in 1..n /\ DescribesDevice(all[k]) /\ (a # 0 => k < a)
      BY <1>5, <1>6
    <3>2. k \in 1..m
      BY <1>1, <3>1
    <3> QED
      BY <1>4, <3>1, <3>2
  <2> QED
    BY <2>1, <2>2
<1>8. CASE Devices(all) = {}
  BY <1>3, <1>7, <1>8 DEF Greatest, Least, before
<1>9. CASE Devices(all) # {}
  <2>1. PICK d \in Devices(all) : TRUE
    BY <1>9
  <2>2. I \in SUBSET Nat /\ d \in I /\ \A k \in I : k = d
    BY <1>4, <1>6, <1>7, <2>1
  <2>3. \A k \in I : k <= d
    BY <2>2
  <2>4. Greatest(I) = d
    BY <2>2, <2>3, GreatestIs
  <2> QED
    BY <1>3, <1>6, <2>1, <2>4 DEF before
<1> QED
  BY <1>8, <1>9

LEMMA SeenTopology ==
  ASSUME IInv, SeenWhole
  PROVE  FindsTopology
<1> SUFFICES ASSUME at = "done" PROVE FindsTopology
  BY DEF FindsTopology
<1>1. Owned(buf)
  BY BufferOwned
<1>2. PICK all \in Seq(Desc) : all = DescriptorsOf(buf)
  <2>1. 0 \in 0..buf.len
    BY <1>1 DEF Owned
  <2>2. Starts(buf) \in Seq(Wholes(buf))
    BY <1>1, <2>1, StartsTyped, Zenon DEF Starts
  <2>3. DescriptorsAt(buf, Starts(buf)) \in Seq(Desc)
    BY <1>1, <2>2, DescriptorsTyped, Zenon
  <2> QED
    BY <2>3, Zenon DEF DescriptorsOf
<1>3. /\ result = 1 <=> ~Malformed(buf) \/ MsEnded(all)
      /\ info = InfoSeen(all)
  BY <1>2 DEF SeenWhole, Readable
<1>4. PICK d : d = DeviceSeen(BeforeMs(all))
  OBVIOUS
<1>5. info = InfoWith(all, d) /\ d \in {0} \cup Devices(all)
  BY <1>3, <1>4, SeenIsWith
<1>6. OneDevice(all) => info = InfoOf(all)
  BY <1>4, <1>5, SeenIsFirst DEF InfoOf
<1>7. \E e \in {0} \cup Devices(all) : info = InfoWith(all, e)
  BY <1>5
<1> QED
  BY <1>2, <1>3, <1>6, <1>7 DEF FindsTopology

(* The parser accepts every buffer without truncated or zero-length        *)
(* descriptors, no other one but those whose interface has ended, and      *)
(* records exactly what the whole descriptors of the first MIDIStreaming   *)
(* interface say: for every buffer a caller may own and every limit on     *)
(* what is recorded.                                                       *)
THEOREM PortsFindTopology == Spec => []FindsTopology
<1>1. IInv /\ Follows => FindsTopology
  BY SeenTopology DEF Follows
<1> QED
  BY InitIInv, StepIInv, InitTypes, StepTypes, InitFollows, StepFollows, <1>1, PTL DEF Spec
=============================================================================
