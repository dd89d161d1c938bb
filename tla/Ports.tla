------------------------------- MODULE Ports -------------------------------
(***************************************************************************)
(* The MIDIStreaming topology of a device and its logical ports,           *)
(* core/ports.c: um9_ports_parse with the two loops it calls.  A step is   *)
(* one turn of a loop: um9_desc_iter_next and what is done with the        *)
(* descriptor it finds, or one port derived.                               *)
(*                                                                         *)
(* Jacks, endpoints and ports, arrays with a count in the code, are        *)
(* sequences; the class and subclass of the interface, constant once one   *)
(* was found, and NULL results are left out.  The definitions marked as    *)
(* defective variants, here and in Descriptors, are no part of the model:  *)
(* put in the place of the definition below them, they must break a        *)
(* property.                                                               *)
(***************************************************************************)
EXTENDS Descriptors, Sequences

CONSTANTS
  Buffers,          \* what a caller may pass: memory and length
  MaxJacks,         \* UM9_MAX_JACKS (16)
  MaxJackSources,   \* UM9_MAX_JACK_SOURCES (8)
  MaxEndpoints,     \* UM9_MAX_ENDPOINTS (8)
  MaxEmbedded,      \* UM9_MAX_EMBEDDED_JACKS (16)
  MaxPorts          \* UM9_MAX_PORTS (32)

(* A caller owns the memory it names the length of.                        *)
ASSUME BuffersAssumption ==
  \A b \in Buffers :
    /\ b.len \in Nat
    /\ b.memory # NoBuffer =>
         /\ b.size \in Nat /\ b.len <= b.size
         /\ b.memory \in [0..(b.size - 1) -> 0..255]
ASSUME CapsAssumption ==
  /\ MaxJacks \in Nat /\ MaxJackSources \in Nat
  /\ MaxEndpoints \in Nat /\ MaxEmbedded \in Nat /\ MaxPorts \in Nat

VARIABLES
  buf,     \* the buffer being parsed
  it,      \* the walker
  inMs,    \* in_ms: the MIDIStreaming interface was found
  ep,      \* cur_ep_*: the endpoint descriptor in force
  info,    \* um9_ms_info
  ports,   \* um9_ports of the caller
  at,      \* where um9_ports_parse is
  cursor,  \* e and i: the endpoint and jack the next port is derived from
  result   \* what it returns

vars == <<buf, it, inMs, ep, info, ports, at, cursor, result>>

NoCall == [memory |-> NoBuffer, len |-> 0, size |-> 0]
NoEndpoint == [address |-> 0, attributes |-> 0, packet |-> 0]
ZeroInfo ==
  [found |-> FALSE, vid |-> 0, pid |-> 0, number |-> 0, alternate |-> 0,
   declared |-> 0, bcd |-> 0, total |-> 0,
   jacks |-> <<>>, inJacks |-> 0, outJacks |-> 0, endpoints |-> <<>>]
(* A result the caller has not initialised.                                *)
Garbage == <<[address |-> 0, direction |-> "none", cable |-> 0, jack |-> 0]>>

Init ==
  /\ buf = NoCall
  /\ it = IterInit
  /\ inMs = FALSE
  /\ ep = NoEndpoint
  /\ info = ZeroInfo
  /\ ports = Garbage
  /\ at = "idle"
  /\ cursor = [e |-> 1, i |-> 0]
  /\ result = 0

(* The call.                                                               *)
Parse(b) ==
  /\ at = "idle"
  /\ buf' = b
  /\ at' = "walk"
  /\ UNCHANGED <<it, inMs, ep, info, ports, cursor, result>>

Lesser(a, b) == IF a < b THEN a ELSE b

-----------------------------------------------------------------------------
(* The loop of um9_ms_parse.  Here is the walker at the descriptor found.  *)
Here == Found(buf, it)
Byte(k) == U8(buf, Here, k)
Word(k) == U16le(buf, Here, k)
Subtype == Byte(2)

Walks == at = "walk" /\ Finds(buf, it)
Before == Walks /\ ~inMs
Inside == Walks /\ inMs

Moves == it' = Here /\ UNCHANGED <<buf, ports, at, cursor, result>>

(* Before the MIDIStreaming interface: a device descriptor, the interface, *)
(* or anything else.                                                       *)
IsDevice == Here.btype = DtDevice /\ Here.blen >= 18
IsMsInterface == Here.btype = DtInterface /\ Here.blen >= 9 /\ Byte(5) = 1 /\ Byte(6) = 3

Device ==
  /\ Before /\ IsDevice
  /\ info' = [info EXCEPT !.vid = Word(8), !.pid = Word(10)]
  /\ Moves /\ UNCHANGED <<inMs, ep>>

FindMs ==
  /\ Before /\ ~IsDevice /\ IsMsInterface
  /\ inMs' = TRUE
  /\ info' = [info EXCEPT !.found = TRUE, !.number = Byte(2),
                          !.alternate = Byte(3), !.declared = Byte(4)]
  /\ Moves /\ UNCHANGED ep

SkipBefore ==
  /\ Before /\ ~IsDevice /\ ~IsMsInterface
  /\ Moves /\ UNCHANGED <<inMs, ep, info>>

(* Its descriptor set ends at the next interface, configuration or device. *)
(* The rest of the buffer is not looked at.                                *)
Leaves == Here.btype \in {DtInterface, DtConfig, DtDevice}

LeaveMs ==
  /\ Inside /\ Leaves
  /\ it' = Here
  /\ at' = "derive"
  /\ ports' = <<>>
  /\ UNCHANGED <<buf, inMs, ep, info, cursor, result>>

IsEndpoint == Here.btype = DtEndpoint /\ Here.blen >= 7
IsHeader == Here.btype = DtCsInterface /\ Subtype = 1 /\ Here.blen >= 7
IsInJack == Here.btype = DtCsInterface /\ Subtype = 2 /\ Here.blen >= 6
IsOutJack == Here.btype = DtCsInterface /\ Subtype = 3 /\ Here.blen >= 9
IsGeneral == Here.btype = DtCsEndpoint /\ Subtype = 1 /\ Here.blen >= 5 /\ ep.address # 0

Endpoint ==
  /\ Inside /\ IsEndpoint
  /\ ep' = [address |-> Byte(2), attributes |-> Byte(3), packet |-> Word(4)]
  /\ Moves /\ UNCHANGED <<inMs, info>>

Header ==
  /\ Inside /\ IsHeader
  /\ info' = [info EXCEPT !.bcd = Word(3), !.total = Word(5)]
  /\ Moves /\ UNCHANGED <<inMs, ep>>

(* The entries of a list a descriptor claims to hold: no more than can be  *)
(* recorded, and none that lie behind it.                                  *)
EntriesClaimed(claimed, cap, region, from) ==           \* defective variant
  [k \in 1..Lesser(claimed, cap) |-> Byte(from + k - 1)]
Entries(claimed, cap, region, from) ==
  [k \in 1..Lesser(Lesser(claimed, cap), region) |-> Byte(from + k - 1)]

(* um9_ms_add_jack, with what the caller fills in.                         *)
AddJackOneMore(direction, sources) ==                   \* defective variant
  IF Len(info.jacks) > MaxJacks THEN info
  ELSE [info EXCEPT
          !.jacks = Append(@, [id |-> Byte(4), type |-> Byte(3),
                               direction |-> direction, sources |-> sources]),
          !.inJacks = @ + IF direction = "in" THEN 1 ELSE 0,
          !.outJacks = @ + IF direction = "out" THEN 1 ELSE 0]

AddJack(direction, sources) ==
  IF Len(info.jacks) >= MaxJacks THEN info
  ELSE [info EXCEPT
          !.jacks = Append(@, [id |-> Byte(4), type |-> Byte(3),
                               direction |-> direction, sources |-> sources]),
          !.inJacks = @ + IF direction = "in" THEN 1 ELSE 0,
          !.outJacks = @ + IF direction = "out" THEN 1 ELSE 0]

InJack ==
  /\ Inside /\ IsInJack
  /\ info' = AddJack("in", <<>>)
  /\ Moves /\ UNCHANGED <<inMs, ep>>

OutJack ==
  /\ Inside /\ IsOutJack
  /\ info' = AddJack("out", Entries(Byte(5), MaxJackSources, Here.blen - 7, 6))
  /\ Moves /\ UNCHANGED <<inMs, ep>>

(* um9_ms_add_endpoint, with the embedded jacks.                           *)
General ==
  /\ Inside /\ IsGeneral
  /\ info' = IF Len(info.endpoints) >= MaxEndpoints THEN info
             ELSE [info EXCEPT !.endpoints = Append(@,
                     [ep |-> ep, embedded |-> Entries(Byte(3), MaxEmbedded, Here.blen - 4, 4)])]
  /\ Moves /\ UNCHANGED <<inMs, ep>>

SkipInside ==
  /\ Inside
  /\ ~Leaves /\ ~IsEndpoint /\ ~IsHeader /\ ~IsInJack /\ ~IsOutJack /\ ~IsGeneral
  /\ Moves /\ UNCHANGED <<inMs, ep, info>>

(* No descriptor: the end of the buffer, or malformed bytes, for which the *)
(* caller's ports are left alone.                                          *)
WalkEnds ==
  /\ at = "walk" /\ ~Finds(buf, it)
  /\ it' = [it EXCEPT !.err = Verdict(buf, it)]
  /\ IF it'.err = "none" THEN at' = "derive" /\ ports' = <<>>
     ELSE at' = "done" /\ UNCHANGED ports
  /\ UNCHANGED <<buf, inMs, ep, info, cursor, result>>

-----------------------------------------------------------------------------
(* um9_ports_from_ms: a port for each embedded jack of each endpoint, the  *)
(* cable number being the place of the jack in its list.                   *)
Direction(address) == IF address >= 128 THEN "in" ELSE "out"
Current == info.endpoints[cursor.e]
HasEndpoint == at = "derive" /\ cursor.e <= Len(info.endpoints)
HasJack == HasEndpoint /\ cursor.i < Len(Current.embedded)

NextPort ==
  /\ HasJack /\ Len(ports) < MaxPorts
  /\ ports' = Append(ports,
       [address |-> Current.ep.address, direction |-> Direction(Current.ep.address),
        cable |-> cursor.i, jack |-> Current.embedded[cursor.i + 1]])
  /\ cursor' = [cursor EXCEPT !.i = @ + 1]
  /\ UNCHANGED <<buf, it, inMs, ep, info, at, result>>

NextEndpointSameCable ==                                \* defective variant
  /\ HasEndpoint /\ ~HasJack
  /\ cursor' = [cursor EXCEPT !.e = @ + 1]
  /\ UNCHANGED <<buf, it, inMs, ep, info, ports, at, result>>

NextEndpoint ==
  /\ HasEndpoint /\ ~HasJack
  /\ cursor' = [e |-> cursor.e + 1, i |-> 0]
  /\ UNCHANGED <<buf, it, inMs, ep, info, ports, at, result>>

(* All ports are derived, or no more fit.                                  *)
Derived ==
  /\ at = "derive"
  /\ ~HasEndpoint \/ (HasJack /\ Len(ports) = MaxPorts)
  /\ at' = "done"
  /\ result' = 1
  /\ UNCHANGED <<buf, it, inMs, ep, info, ports, cursor>>

(* The call returns; the next one finds fresh results.                     *)
Return ==
  /\ at = "done"
  /\ buf' = NoCall /\ it' = IterInit /\ inMs' = FALSE /\ ep' = NoEndpoint
  /\ info' = ZeroInfo /\ ports' = Garbage /\ at' = "idle"
  /\ cursor' = [e |-> 1, i |-> 0] /\ result' = 0

Step ==
  \/ Device \/ FindMs \/ SkipBefore
  \/ LeaveMs \/ Endpoint \/ Header \/ InJack \/ OutJack \/ General \/ SkipInside
  \/ WalkEnds
  \/ NextPort \/ NextEndpoint \/ Derived

Next == Step \/ (\E b \in Buffers : Parse(b)) \/ Return

(* A call that was entered runs.                                           *)
Spec == Init /\ [][Next]_vars /\ WF_vars(Step)

-----------------------------------------------------------------------------
Octet == 0..255
Short == {n \in Nat : n < 256 * 256}
EndpointInForce == [address : Octet, attributes : Octet, packet : Short]

(* No array is written past its end, whatever a device sends.              *)
TypeOK ==
  /\ buf.len \in Nat
  /\ it \in Iterator
  /\ inMs \in BOOLEAN
  /\ ep \in EndpointInForce
  /\ \A k \in 1..Len(info.jacks) :
       /\ info.jacks[k].id \in Octet /\ info.jacks[k].type \in Octet
       /\ Len(info.jacks[k].sources) <= MaxJackSources
  /\ Len(info.jacks) <= MaxJacks
  /\ info.inJacks + info.outJacks = Len(info.jacks)
  /\ \A k \in 1..Len(info.endpoints) :
       /\ info.endpoints[k].ep \in EndpointInForce
       /\ Len(info.endpoints[k].embedded) <= MaxEmbedded
  /\ Len(info.endpoints) <= MaxEndpoints
  /\ ports = Garbage \/ Len(ports) <= MaxPorts
  /\ at \in {"idle", "walk", "derive", "done"}
  /\ result \in 0..1

(* "never dereferences beyond the supplied buffer" (descriptors.h): the    *)
(* walker and the descriptor it stands on stay inside the length the       *)
(* caller gave, whatever lengths the device put into it.                   *)
InBounds ==
  /\ it.pos <= buf.len
  /\ it.off + it.blen <= it.pos

(* "rejects zero-length ... descriptors" (descriptors.h): no buffer keeps  *)
(* the parser going for ever.                                              *)
Terminates == at = "walk" ~> at = "done"
=============================================================================
