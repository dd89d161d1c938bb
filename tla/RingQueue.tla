----------------------------- MODULE RingQueue -----------------------------
(***************************************************************************)
(* What the receive ring promises its two sides (classic/ring.h): a FIFO   *)
(* queue of at most Capacity bytes.  A producer operation appends a        *)
(* nonempty run of bytes that fits, or is dropped and changes nothing; a   *)
(* consumer operation takes a nonempty prefix, or finds the queue empty    *)
(* and returns nothing.  Both are atomic here.  Ring implements this       *)
(* specification with indices, slots and byte-by-byte copies.              *)
(***************************************************************************)
EXTENDS Naturals, Sequences

CONSTANTS Capacity,   \* bytes the queue can hold
          Byte,       \* the values of a byte
          Consumers   \* the clients that take bytes

VARIABLES queue,      \* the accepted bytes nobody has taken, oldest first
          got         \* got[c]: what the last completed dequeue of c returned

vars == <<queue, got>>

Init ==
  /\ queue = <<>>
  /\ got = [c \in Consumers |-> <<>>]

(* The queue accepts n more bytes; the bytes that do not fit are lost.     *)
Accept(n) ==
  /\ Len(queue) + n <= Capacity
  /\ \E data \in [1..n -> Byte] : queue' = queue \o data
  /\ UNCHANGED got

(* Client c takes the n oldest bytes.                                      *)
Take(c, n) ==
  /\ got' = [got EXCEPT ![c] = SubSeq(queue, 1, n)]
  /\ queue' = SubSeq(queue, n + 1, Len(queue))

(* Client c asks while nothing is queued.                                  *)
FindEmpty(c) ==
  /\ queue = <<>>
  /\ got' = [got EXCEPT ![c] = <<>>]
  /\ UNCHANGED queue

(* The queue is emptied between two operations.                            *)
Clear ==
  /\ queue' = <<>>
  /\ UNCHANGED got

Next ==
  \/ \E n \in 1..Capacity : Accept(n)
  \/ \E c \in Consumers : \E n \in 1..Len(queue) : Take(c, n)
  \/ \E c \in Consumers : FindEmpty(c)
  \/ Clear

Spec == Init /\ [][Next]_vars
=============================================================================
