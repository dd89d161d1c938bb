---------------------------- MODULE MCDocuments ----------------------------
(***************************************************************************)
(* Three statements the headers and documents of the repository make about *)
(* core/, none of which the code keeps.                                    *)
(***************************************************************************)
EXTENDS MCPorts
LOCAL Codec == INSTANCE Packets

(* "Returns 0 if ... the buffer is malformed" (um9_ms_parse in ports.h).   *)
RejectsMalformed == result = 1 => ~Malformed(buf)

(* "idVendor of the first device descriptor in the buffer (0 if none)",    *)
(* idProduct likewise (um9_ms_info in ports.h).                            *)
VendorIsFirst ==
  LET first == InfoOf(DescriptorsOf(buf))
  IN  info.vid = first.vid /\ info.pid = first.pid

(* "CIN=0x9: Note On" (docs/classic-usb-driver.md, the packet recorded     *)
(* from the Keystation): a Note On leaves in the packet the device itself  *)
(* uses for it.                                                            *)
NoteOn == <<\h90, 48, 80>>
NoteOnCin == Codec!Encode(0, NoteOn)[1] % 16 = 9

(* The three together, weakened as far as they can be: whatever buffer is  *)
(* parsed, at least one of them is true of the answer.  A buffer for which *)
(* this fails refutes each of them.                                        *)
CoreAsDocumented == at = "done" => RejectsMalformed \/ VendorIsFirst \/ NoteOnCin
=============================================================================
