------------------------------ MODULE Topology ------------------------------
(***************************************************************************)
(* What core/ports.h says of a buffer, without a walker, flags or counts:  *)
(* cut the buffer into descriptors, take the ones that matter and say what *)
(* they mean.  The reference the parser of Ports is held against.          *)
(***************************************************************************)
EXTENDS Ports, SequencesExt

(* The whole descriptors at the front of a buffer: where they start, and   *)
(* each as a function from offsets to bytes.                               *)
WholeAt(b, p) ==
  /\ b.memory # NoBuffer /\ p + 2 <= b.len
  /\ b.memory[p] >= 2 /\ p + b.memory[p] <= b.len

StartsFrom(b) ==
  LET from[p \in 0..b.len] ==
        IF WholeAt(b, p) THEN <<p>> \o from[p + b.memory[p]] ELSE <<>>
  IN  from

Starts(b) == StartsFrom(b)[0]

Descriptor(b, p) == [k \in 0..(b.memory[p] - 1) |-> b.memory[p + k]]
DescriptorsAt(b, starts) == [k \in 1..Len(starts) |-> Descriptor(b, starts[k])]
DescriptorsOf(b) == DescriptorsAt(b, Starts(b))

(* Behind the last of them bytes are left that are none.                   *)
EndOf(b, starts) ==
  LET last == starts[Len(starts)]
  IN  IF starts = <<>> THEN 0 ELSE last + b.memory[last]
Malformed(b) == EndOf(b, Starts(b)) # b.len

-----------------------------------------------------------------------------
(* The descriptors that matter, by their layout in USB-MIDI 1.0.           *)
Size(x) == x[0]
Type(x) == x[1]
Pair(x, k) == x[k] + 256 * x[k + 1]

DescribesDevice(x) == Type(x) = DtDevice /\ Size(x) >= 18
DescribesMs(x) == Type(x) = DtInterface /\ Size(x) >= 9 /\ x[5] = 1 /\ x[6] = 3
EndsMs(x) == Type(x) \in {DtDevice, DtConfig, DtInterface}
DescribesEndpoint(x) == Type(x) = DtEndpoint /\ Size(x) >= 7
DescribesHeader(x) == Type(x) = DtCsInterface /\ Size(x) >= 7 /\ x[2] = 1
DescribesIn(x) == Type(x) = DtCsInterface /\ Size(x) >= 6 /\ x[2] = 2
DescribesOut(x) == Type(x) = DtCsInterface /\ Size(x) >= 9 /\ x[2] = 3
DescribesGeneral(x) == Type(x) = DtCsEndpoint /\ Size(x) >= 5 /\ x[2] = 1

(* The interface and its own part of the buffer.                           *)
MsAt(all) == SelectInSeq(all, DescribesMs)
EndAt(all) == SelectInSubSeq(all, MsAt(all) + 1, Len(all), EndsMs)
OfMs(all) ==
  IF MsAt(all) = 0 THEN <<>>
  ELSE SubSeq(all, MsAt(all) + 1, IF EndAt(all) = 0 THEN Len(all) ELSE EndAt(all) - 1)

(* Its part ends before the buffer does: the parser looks no further.      *)
MsEnded(all) == MsAt(all) # 0 /\ EndAt(all) # 0

(* The first n elements, and a list of as many entries as are claimed,     *)
(* recorded and there.                                                     *)
FirstOf(s, n) == SubSeq(s, 1, Lesser(n, Len(s)))
ListIn(x, claimed, cap, from, last) ==
  FirstOf([k \in 1..(last - from + 1) |-> x[from + k - 1]], Lesser(claimed, cap))

(* What one of the descriptors adds to the jacks.                          *)
JackIn(x) == [id |-> x[4], type |-> x[3], direction |-> "in", sources |-> <<>>]
JackOut(x) ==
  [id |-> x[4], type |-> x[3], direction |-> "out",
   sources |-> ListIn(x, x[5], MaxJackSources, 6, Size(x) - 2)]
JackOf(x) ==
  IF DescribesIn(x) THEN <<JackIn(x)>> ELSE IF DescribesOut(x) THEN <<JackOut(x)>> ELSE <<>>
JacksOf(own) == FirstOf(FlattenSeq([k \in 1..Len(own) |-> JackOf(own[k])]), MaxJacks)
Facing(jacks, direction) == Cardinality({k \in 1..Len(jacks) : jacks[k].direction = direction})

(* The endpoint a class-specific endpoint descriptor belongs to is the     *)
(* standard one last described before it.                                  *)
EndpointBefore(own, k) ==
  LET e == SelectLastInSubSeq(own, 1, k - 1, DescribesEndpoint)
  IN  IF e = 0 THEN NoEndpoint
      ELSE [address |-> own[e][2], attributes |-> own[e][3], packet |-> Pair(own[e], 4)]
BulkOf(x, endpoint) ==
  IF DescribesGeneral(x) /\ endpoint.address # 0
  THEN <<[ep |-> endpoint, embedded |-> ListIn(x, x[3], MaxEmbedded, 4, Size(x) - 1)]>>
  ELSE <<>>
EndpointsOf(own) ==
  FirstOf(FlattenSeq([k \in 1..Len(own) |-> BulkOf(own[k], EndpointBefore(own, k))]),
          MaxEndpoints)

(* A field of the k-th descriptor, 0 if there is none.                     *)
FieldOf(s, k, field) == IF k = 0 THEN 0 ELSE s[k][field]
WordOf(s, k, field) == IF k = 0 THEN 0 ELSE Pair(s[k], field)
DeviceIn(s) == SelectInSeq(s, DescribesDevice)
HeaderIn(s) == SelectLastInSeq(s, DescribesHeader)

(* What is said of the device comes from its d-th descriptor; that should  *)
(* be the first device descriptor in the buffer.                           *)
InfoWith(all, d) ==
  LET own == OfMs(all)
  IN  [found |-> MsAt(all) # 0,
       vid |-> WordOf(all, d, 8),
       pid |-> WordOf(all, d, 10),
       number |-> FieldOf(all, MsAt(all), 2),
       alternate |-> FieldOf(all, MsAt(all), 3),
       declared |-> FieldOf(all, MsAt(all), 4),
       bcd |-> WordOf(own, HeaderIn(own), 3),
       total |-> WordOf(own, HeaderIn(own), 5),
       jacks |-> JacksOf(own),
       inJacks |-> Facing(JacksOf(own), "in"),
       outJacks |-> Facing(JacksOf(own), "out"),
       endpoints |-> EndpointsOf(own)]

InfoOf(all) == InfoWith(all, DeviceIn(all))

(* None, or one and no other device descriptor, before the interface.      *)
Devices(all) == {k \in 1..Len(all) : DescribesDevice(all[k])}
OneDevice(all) ==
  \A k \in Devices(all) : k = DeviceIn(all) /\ (MsAt(all) # 0 => k < MsAt(all))

(* "cable N = Nth embedded jack of the endpoint" (ports.h).                *)
PortsOf(endpoint) ==
  [n \in 1..Len(endpoint.embedded) |->
     [address |-> endpoint.ep.address,
      direction |-> IF endpoint.ep.address < 128 THEN "out" ELSE "in",
      cable |-> n - 1, jack |-> endpoint.embedded[n]]]

-----------------------------------------------------------------------------
(* The parser accepts every buffer without truncated or zero-length        *)
(* descriptors, no other one but those whose interface has ended, and      *)
(* records exactly what the whole descriptors of the first MIDIStreaming   *)
(* interface say, lists that claim more entries than they hold cut to what *)
(* is there.  Vendor and product are those of one and the same device, and *)
(* of the right one if there is no choice.                                 *)
FindsTopology ==
  at = "done" =>
    LET all == DescriptorsOf(buf)
    IN  /\ ~Malformed(buf) => result = 1
        /\ result = 1 => ~Malformed(buf) \/ MsEnded(all)
        /\ \E d \in {0} \cup Devices(all) : info = InfoWith(all, d)
        /\ OneDevice(all) => info = InfoOf(all)

(* "each embedded jack associated with a bulk endpoint is one logical      *)
(* port" (ports.h): the ports are those of every recorded endpoint in      *)
(* order, as many as fit, and a buffer that is rejected leaves the         *)
(* caller's ports as they were.                                            *)
PortsOfAll == FlattenSeq([k \in 1..Len(info.endpoints) |-> PortsOf(info.endpoints[k])])

MapsCables ==
  at = "done" => ports = IF result = 1 THEN FirstOf(PortsOfAll, MaxPorts) ELSE Garbage
=============================================================================
