---------------------------- MODULE Descriptors ----------------------------
(***************************************************************************)
(* The bounds-checked walker over a buffer of USB descriptors,             *)
(* core/descriptors.c.  A buffer is the memory a device filled, addressed  *)
(* from 0, and the length the walker was told; the memory may go on behind *)
(* that length.  The walker `it' is the record um9_desc_iter without the   *)
(* buffer, which it never changes.  Positions never pass the length        *)
(* (Ports!InBounds), so the unsigned differences of the code do not wrap.  *)
(***************************************************************************)
EXTENDS Integers

CONSTANT NoBuffer   \* the NULL pointer

DtDevice == 1
DtConfig == 2
DtInterface == 4
DtEndpoint == 5
DtCsInterface == 36
DtCsEndpoint == 37

Errors == {"none", "truncated", "zero"}
Iterator == [pos : Nat, off : Nat, blen : 0..255, btype : 0..255, err : Errors]

IterInit == [pos |-> 0, off |-> 0, blen |-> 0, btype |-> 0, err |-> "none"]

(* What lies at the scan position: a length byte and a type byte, ...      *)
AtEnd(b, it) == it.pos >= b.len
HasHeader(b, it) == b.memory # NoBuffer /\ b.len - it.pos >= 2

(* ... a length that covers at least these two, ...                        *)
LongEnoughAlways(b, it) == TRUE                         \* defective variant
LongEnough(b, it) == b.memory[it.pos] >= 2

(* ... and that ends inside the buffer.                                    *)
FitsAlways(b, it) == TRUE                               \* defective variant
Fits(b, it) == b.memory[it.pos] <= b.len - it.pos

(* um9_desc_iter_next finds a descriptor (and returns 1), ...              *)
Finds(b, it) ==
  /\ it.err = "none" /\ ~AtEnd(b, it)
  /\ HasHeader(b, it) /\ LongEnough(b, it) /\ Fits(b, it)

Found(b, it) ==
  [pos |-> it.pos + b.memory[it.pos], off |-> it.pos, blen |-> b.memory[it.pos],
   btype |-> b.memory[it.pos + 1], err |-> it.err]

(* ... or none (and returns 0), for good: at the end of the buffer, or at  *)
(* malformed bytes.                                                        *)
Verdict(b, it) ==
  IF it.err # "none" \/ AtEnd(b, it) THEN it.err
  ELSE IF HasHeader(b, it) /\ ~LongEnough(b, it) THEN "zero" ELSE "truncated"

(* Reading a byte, or two of them, of the descriptor found.                *)
U8(b, it, k) ==
  IF b.memory = NoBuffer \/ k >= it.blen THEN 0 ELSE b.memory[it.off + k]

U16le(b, it, k) ==
  IF b.memory = NoBuffer \/ k + 1 >= it.blen THEN 0
  ELSE b.memory[it.off + k] + 256 * b.memory[it.off + k + 1]
=============================================================================
