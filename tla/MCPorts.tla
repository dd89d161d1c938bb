------------------------------ MODULE MCPorts ------------------------------
(* Instances of Ports for TLC: buffers put together from descriptors, good *)
(* and bad, as a device might send them.                                   *)
EXTENDS Topology

Dev(v) == <<18, 1, 0, 2, 0, 0, 0, 8, v, 1, v, 2, 0, 1, 0, 0, 0, 1>>
ShortDev == <<10, 1, 0, 2, 0, 0, 0, 8, 9, 9>>
Interface(n, sub) == <<9, 4, n, 0, 2, 1, sub, 0, 0>>
ShortMs == <<8, 4, 1, 0, 2, 1, 3, 0>>
MsInterface == Interface(1, 3)
Config == <<4, 2, 9, 9>>
Unknown == <<3, 11, 0>>

EpIn == <<7, 5, 129, 2, 64, 0, 0>>
EpOut == <<7, 5, 2, 2, 64, 1, 0>>
EpShort == <<6, 5, 130, 2, 64, 0>>
EpZero == <<7, 5, 0, 2, 64, 0, 0>>

HeaderDesc == <<7, 36, 1, 0, 1, 65, 1>>
HeaderShort == <<6, 36, 1, 0, 2, 65>>
InDesc == <<6, 36, 2, 1, 3, 0>>
InShort == <<5, 36, 2, 1, 9>>
OutDesc == <<9, 36, 3, 1, 4, 1, 3, 1, 0>>
OutClaims == <<9, 36, 3, 2, 5, 9, 4, 7, 0>>
OutMany == <<13, 36, 3, 2, 6, 3, 1, 1, 2, 1, 3, 1, 0>>
OutShort == <<8, 36, 3, 1, 9, 1, 3, 1>>

GeneralOne == <<5, 37, 1, 1, 3>>
GeneralMany == <<8, 37, 1, 4, 3, 5, 7, 9>>
GeneralClaims == <<5, 37, 1, 9, 6>>
GeneralShort == <<4, 37, 1, 1>>
CsOther == <<5, 37, 2, 1, 3>>

NoLength == <<0, 36>>
OneLength == <<1, 37, 1, 1>>
TooLong == <<12, 36, 2, 1, 8, 0>>

AnyDescriptor ==
  {Interface(2, 3), Config, Dev(9), Unknown, EpIn, EpOut, EpShort, EpZero,
   HeaderDesc, HeaderShort, InDesc, InShort, OutDesc, OutClaims, OutMany, OutShort,
   GeneralOne, GeneralMany, GeneralClaims, GeneralShort, CsOther,
   NoLength, OneLength, TooLong}
Typical == {EpIn, EpOut, InDesc, OutMany, GeneralOne, GeneralMany, GeneralClaims}

MCPrefixes == {<<>>, <<Dev(7)>>, <<Dev(7), Interface(0, 1), Dev(8)>>, <<ShortDev, ShortMs>>}

(* What follows the bytes in memory is not part of the buffer.             *)
Behind == 8
BufferOf(bytes, len) ==
  [memory |-> [k \in 0..(Len(bytes) + Behind - 1) |->
                 IF k < Len(bytes) THEN bytes[k + 1] ELSE 170],
   len |-> len, size |-> Len(bytes) + Behind]

(* Whole, or cut anywhere in the last descriptor.                          *)
Cuts(list) ==
  LET bytes == FlattenSeq(list)
  IN  {BufferOf(bytes, Len(bytes) - k) : k \in 0..(Len(list[Len(list)]) - 1)}

NullBuffers == {[memory |-> NoBuffer, len |-> n, size |-> 0] : n \in {0, 1, 9}}

(* Two devices, and a descriptor behind the end of the interface.          *)
TwoDevices ==
  UNION {Cuts(<<Dev(7), Dev(8), MsInterface, Config, x>>) : x \in AnyDescriptor}

AllBuffers ==
  NullBuffers
  \cup UNION {Cuts(pre \o <<MsInterface, x>>) : pre \in MCPrefixes, x \in AnyDescriptor}
  \cup UNION {Cuts(pre \o <<x>>) : pre \in MCPrefixes, x \in AnyDescriptor \cup {MsInterface}}
  \cup UNION {Cuts(<<MsInterface, x, y>>) : x \in AnyDescriptor, y \in AnyDescriptor}
  \cup TwoDevices
  \cup {BufferOf(MsInterface \o FlattenSeq(f), 9 + Len(FlattenSeq(f))) :
          f \in [1..4 -> Typical]}
=============================================================================
