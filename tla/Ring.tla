-------------------------------- MODULE Ring --------------------------------
(***************************************************************************)
(* The resident receive ring, classic/ring.c.                              *)
(*                                                                         *)
(* One producer (the driver's read completion) and the clients that        *)
(* dequeue share two counters and a byte array.  The counters only grow,   *)
(* modulo the width of unsigned; a byte lives in slot counter & (size-1).  *)
(* The operations are not atomic: an operation computes how many bytes it  *)
(* will move, moves them one at a time through volatile accesses, and only *)
(* then publishes the new counter, and the other side may run between any  *)
(* two of these steps.  Each statement of the code reads at most one       *)
(* counter that another party writes, so one statement is one step.        *)
(*                                                                         *)
(* Every interleaving of the producer with the consumers is allowed here,  *)
(* which covers both placements the Classic USB stack may choose for the   *)
(* completion (secondary interrupt or task level).                         *)
(***************************************************************************)
EXTENDS Integers, Sequences

CONSTANTS Size,       \* capacity of the ring in bytes (4096 in the driver)
          Modulus,    \* the counters wrap here (2^32 for unsigned)
          Byte,       \* the values of a byte
          Consumers,  \* the contexts that call um9_ring_dequeue
          MaxCount,   \* bound on the bytes one enqueue offers
          MaxOut      \* bound on the bytes one dequeue asks for

(* Size is a power of two below 2^32: it divides Modulus, properly.        *)
ASSUME SizeAssumption ==
  /\ Size \in Nat \ {0}
  /\ Modulus \in Nat
  /\ \E k \in 2..Modulus : Modulus = k * Size

ASSUME RequestAssumption ==
  /\ MaxCount \in Nat
  /\ MaxOut \in Nat

VARIABLES
  head,   \* next byte to dequeue (written by the consumers)
  tail,   \* next byte to enqueue (written by the producer)
  buf,    \* the ring storage
  pn,     \* bytes the enqueue in progress stores, 0 when none is in progress
  pi,     \* of them, bytes already stored
  cn,     \* cn[c]: bytes the dequeue of c in progress moves, 0 when none
  dst,    \* dst[c]: the bytes it has copied out so far
  ret     \* ret[c]: what the last completed dequeue of c returned

vars == <<head, tail, buf, pn, pi, cn, dst, ret>>

Counter == 0..(Modulus - 1)
SlotId == 0..(Size - 1)

(* Unsigned addition and subtraction: the results wrap at Modulus.  (The   *)
(* definitions marked as defective variants are no part of the model: put  *)
(* in the place of the definition below them, they must break a property.) *)
AddUnwrapped(a, n) == a + n                            \* defective variant
Add(a, n) == IF a + n < Modulus THEN a + n ELSE (a + n) - Modulus
Sub(a, b) == IF a >= b THEN a - b ELSE (a + Modulus) - b

Lesser(a, b) == IF a < b THEN a ELSE b

(* counter & mask; and the slot i bytes on, the copy loops being split at  *)
(* the end of the storage.                                                 *)
Slot(ctr) == ctr % Size
SlotAfter(ctr, i) ==
  IF Slot(ctr) + i < Size THEN Slot(ctr) + i ELSE (Slot(ctr) + i) - Size

Used == Sub(tail, head)

Init ==
  /\ head = 0
  /\ tail = 0
  /\ buf \in [SlotId -> Byte]
  /\ pn = 0
  /\ pi = 0
  /\ cn = [c \in Consumers |-> 0]
  /\ dst = [c \in Consumers |-> <<>>]
  /\ ret = [c \in Consumers |-> <<>>]

-----------------------------------------------------------------------------
(* um9_ring_enqueue: decide how many of the count bytes fit.  With no room *)
(* the call returns 0 and changes nothing.                                 *)
EnqueueStartUnclamped(count) ==                         \* defective variant
  /\ pn = 0
  /\ pn' = count
  /\ pi' = 0
  /\ UNCHANGED <<head, tail, buf, cn, dst, ret>>

EnqueueStartOneMore(count) ==                           \* defective variant
  /\ pn = 0
  /\ pn' = Lesser(count, Sub(Size, Used) + 1)
  /\ pi' = 0
  /\ UNCHANGED <<head, tail, buf, cn, dst, ret>>

EnqueueStart(count) ==
  /\ pn = 0
  /\ pn' = Lesser(count, Sub(Size, Used))
  /\ pn' > 0
  /\ pi' = 0
  /\ UNCHANGED <<head, tail, buf, cn, dst, ret>>

(* One turn of a copy loop: ring[...] = src[...].                          *)
EnqueueByte(b) ==
  /\ pi < pn
  /\ buf' = [buf EXCEPT ![SlotAfter(tail, pi)] = b]
  /\ pi' = pi + 1
  /\ UNCHANGED <<head, tail, pn, cn, dst, ret>>

(* *tail = *tail + n, after the data stores.                               *)
EnqueuePublish ==
  /\ pn > 0
  /\ pi = pn
  /\ tail' = Add(tail, pn)
  /\ pn' = 0
  /\ pi' = 0
  /\ UNCHANGED <<head, buf, cn, dst, ret>>

(* um9_ring_dequeue: decide how many bytes to move, or return 0 when the   *)
(* ring is empty.                                                          *)
DequeueStartUnclamped(c, max) ==                        \* defective variant
  /\ cn[c] = 0
  /\ cn' = [cn EXCEPT ![c] = max]
  /\ dst' = [dst EXCEPT ![c] = <<>>]
  /\ UNCHANGED <<head, tail, buf, pn, pi, ret>>

DequeueStart(c, max) ==
  /\ cn[c] = 0
  /\ LET n == Lesser(max, Used)
     IN  /\ cn' = [cn EXCEPT ![c] = n]
         /\ ret' = IF n = 0 THEN [ret EXCEPT ![c] = <<>>] ELSE ret
  /\ dst' = [dst EXCEPT ![c] = <<>>]
  /\ UNCHANGED <<head, tail, buf, pn, pi>>

(* One turn of a copy loop: dst[...] = ring[...].                          *)
DequeueByte(c) ==
  /\ Len(dst[c]) < cn[c]
  /\ dst' = [dst EXCEPT ![c] = Append(@, buf[SlotAfter(head, Len(@))])]
  /\ UNCHANGED <<head, tail, buf, pn, pi, cn, ret>>

(* *head = *head + n, after the data reads; the call returns n.            *)
DequeuePublish(c) ==
  /\ cn[c] > 0
  /\ Len(dst[c]) = cn[c]
  /\ head' = Add(head, cn[c])
  /\ cn' = [cn EXCEPT ![c] = 0]
  /\ ret' = [ret EXCEPT ![c] = dst[c]]
  /\ dst' = [dst EXCEPT ![c] = <<>>]
  /\ UNCHANGED <<tail, buf, pn, pi>>

Produce ==
  \/ \E count \in 1..MaxCount : EnqueueStart(count)
  \/ \E b \in Byte : EnqueueByte(b)
  \/ EnqueuePublish

Consume(c) ==
  \/ \E max \in 1..MaxOut : DequeueStart(c, max)
  \/ DequeueByte(c)
  \/ DequeuePublish(c)

(* um9_ring_reset: its two stores are no operation of one side, so its     *)
(* caller sees to it that no enqueue and no dequeue is in progress.  The   *)
(* driver does the same two stores when it gives a slot to an interface.   *)
Reset ==
  /\ pn = 0
  /\ \A c \in Consumers : cn[c] = 0
  /\ head' = 0
  /\ tail' = 0
  /\ UNCHANGED <<buf, pn, pi, cn, dst, ret>>

Next == Produce \/ (\E c \in Consumers : Consume(c)) \/ Reset

Spec == Init /\ [][Next]_vars

-----------------------------------------------------------------------------
TypeOK ==
  /\ head \in Counter
  /\ tail \in Counter
  /\ buf \in [SlotId -> Byte]
  /\ pn \in 0..Size
  /\ pi \in 0..pn
  /\ cn \in [Consumers -> 0..Size]
  /\ dst \in [Consumers -> Seq(Byte)]
  /\ ret \in [Consumers -> Seq(Byte)]

(* "The used count is the plain difference (tail - head), which never      *)
(* exceeds size" (header of classic/ring.c), although the two counters     *)
(* wrap and each side works from an old value of the other's.              *)
UsedBounded == Used <= Size

(* The slots that hold accepted bytes nobody has been given yet, those a   *)
(* dequeue is still copying included.                                      *)
UnreadSlots == {SlotAfter(head, i) : i \in {j \in 0..(Size - 1) : j < Used}}

(* "unread data is never overwritten" (classic/ring.h): no step stores     *)
(* into a slot whose byte has been accepted and not yet handed over.       *)
UnreadKept ==
  [][\A s \in UnreadSlots : buf'[s] = buf[s]]_vars

(* The bytes in the ring, oldest first, and the queue they implement.      *)
Contents == [i \in 1..Used |-> buf[SlotAfter(head, i - 1)]]

Queue == INSTANCE RingQueue WITH Capacity <- Size, queue <- Contents, got <- ret

(* To its clients the ring is a FIFO queue with atomic operations: what a  *)
(* dequeue returns is exactly the oldest bytes, in order, each once.       *)
ImplementsQueue == Queue!Spec
=============================================================================
