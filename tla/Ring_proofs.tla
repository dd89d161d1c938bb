---------------------------- MODULE Ring_proofs ----------------------------
(***************************************************************************)
(* Proofs about Ring for every size, every counter width, every set of     *)
(* byte values and every request: with a single consumer the ring never    *)
(* holds more than Size bytes, never overwrites a byte it still owes the   *)
(* consumer, and implements the atomic queue of RingQueue.                 *)
(*                                                                         *)
(* The hypothesis SingleConsumer is what "single-producer/single-consumer" *)
(* in ring.c asks of its callers.                                          *)
(***************************************************************************)
EXTENDS Ring, SequenceTheorems, TLAPS

SingleConsumer == \A c, d \in Consumers : c = d

(* What an operation in progress relies on although the other side moves:  *)
(* the room the producer counted is still free, the bytes the consumer     *)
(* counted are still there, and those it has copied are the oldest ones.   *)
RoomStays == pn + Used <= Size
BytesStay == \A c \in Consumers : cn[c] <= Used
CopiedRight ==
  \A c \in Consumers :
    /\ Len(dst[c]) <= cn[c]
    /\ \A i \in 1..Len(dst[c]) : dst[c][i] = buf[SlotAfter(head, i - 1)]

IInv == TypeOK /\ UsedBounded /\ RoomStays /\ BytesStay /\ CopiedRight

-----------------------------------------------------------------------------
(* The remainder is the one number in 0..(S-1) that completes a multiple   *)
(* of S (counter & mask in ring.c, for a power of two).                    *)
LEMMA RemainderUnique ==
  ASSUME NEW S \in Nat \ {0}, NEW x \in Nat, NEW q \in Int,
         NEW r \in 0..(S - 1), x = q * S + r
  PROVE  x % S = r
BY SMT

(* The counters can count a full ring and one more: 2 * Size <= Modulus.   *)
LEMMA ModulusLarge == Size \in Nat \ {0} /\ Modulus \in Nat /\ 2 * Size <= Modulus
<1>1. PICK k \in 2..Modulus : Modulus = k * Size
  BY SizeAssumption
<1>2. k * Size >= 2 * Size
  BY <1>1, SizeAssumption, SMT
<1> QED
  BY <1>1, <1>2, SizeAssumption

(* A slot number is an index of the storage, from every counter value.     *)
LEMMA SlotInRange ==
  ASSUME NEW a \in Counter, NEW i \in 0..(Size - 1)
  PROVE  Slot(a) \in SlotId /\ SlotAfter(a, i) \in SlotId
BY ModulusLarge, SMT DEF Counter, SlotId, Slot, SlotAfter

(* Two bytes of one ringful never share a slot.                            *)
LEMMA SlotsDistinct ==
  ASSUME NEW a \in Counter, NEW i \in 0..(Size - 1), NEW j \in 0..(Size - 1),
         i # j
  PROVE  SlotAfter(a, i) # SlotAfter(a, j)
<1>1. Slot(a) \in SlotId
  BY ModulusLarge, SMT DEF Counter, SlotId, Slot
<1> QED
  BY <1>1, ModulusLarge, SMT DEF SlotId, SlotAfter

MultipleOfSize(m) == \E k \in Nat : m = k * Size

(* Moving by n, less any multiple of the size, moves the slot by n.        *)
LEMMA SlotOfSum ==
  ASSUME NEW a \in Nat, NEW n \in 0..Size, NEW m \in Nat, NEW x \in Nat,
         MultipleOfSize(m),
         x = (a + n) - m
  PROVE  Slot(x) = IF Slot(a) + n < Size THEN Slot(a) + n
                                         ELSE Slot(a) + n - Size
<1> DEFINE q == a \div Size
           r == a % Size
<1>1. Size \in Nat \ {0}
  BY ModulusLarge
<1>2. q \in Nat /\ r \in 0..(Size - 1) /\ a = q * Size + r /\ Slot(a) = r
  BY <1>1, SMT DEF Slot
<1> HIDE DEF q, r
<1>3. PICK k \in Nat : m = k * Size
  BY DEF MultipleOfSize
<1>4. CASE r + n < Size
  <2>1. PICK p \in Int : p * Size = q * Size - m
    <3>1. q - k \in Int /\ (q - k) * Size = q * Size - k * Size
      BY <1>1, <1>2, SMT
    <3> QED
      BY <1>3, <3>1
  <2>2. x = p * Size + (r + n) /\ r + n \in 0..(Size - 1)
    BY <1>1, <1>2, <1>4, <2>1
  <2>3. x % Size = r + n
    BY <1>1, <2>2, RemainderUnique
  <2> QED
    BY <1>2, <1>4, <2>3 DEF Slot
<1>5. CASE r + n >= Size
  <2>1. PICK p \in Int : p * Size = q * Size - m + Size
    <3>1. q - k + 1 \in Int /\ (q - k + 1) * Size = q * Size - k * Size + Size
      BY <1>1, <1>2, SMT
    <3> QED
      BY <1>3, <3>1
  <2>2. x = p * Size + (r + n - Size) /\ r + n - Size \in 0..(Size - 1)
    BY <1>1, <1>2, <1>5, <2>1
  <2>3. x % Size = r + n - Size
    BY <1>1, <2>2, RemainderUnique
  <2> QED
    BY <1>1, <1>2, <1>5, <2>3 DEF Slot
<1> QED
  BY <1>1, <1>2, <1>4, <1>5

(* Advancing a counter by n, wrap-around included, moves its slot by n.    *)
LEMMA SlotOfAdd ==
  ASSUME NEW a \in Counter, NEW n \in 0..Size
  PROVE  /\ Add(a, n) \in Counter
         /\ Slot(Add(a, n)) = IF Slot(a) + n < Size THEN Slot(a) + n
                                                   ELSE Slot(a) + n - Size
<1>1. PICK k \in 2..Modulus : Modulus = k * Size
  BY SizeAssumption
<1>2. Add(a, n) \in Counter
  BY ModulusLarge DEF Add, Counter
<1>3. MultipleOfSize(0) /\ MultipleOfSize(Modulus)
  BY <1>1, ModulusLarge DEF MultipleOfSize
<1>4. a \in Nat /\ Add(a, n) \in Nat
  BY <1>2, ModulusLarge DEF Counter
<1>5. CASE Add(a, n) = (a + n) - 0
  BY <1>2, <1>3, <1>4, <1>5, SlotOfSum, ModulusLarge
<1>6. CASE Add(a, n) = (a + n) - Modulus
  BY <1>2, <1>3, <1>4, <1>6, SlotOfSum, ModulusLarge
<1> QED
  BY <1>4, <1>5, <1>6, ModulusLarge DEF Add

(* The slot of a byte does not depend on the counter it is counted from.   *)
LEMMA SlotShift ==
  ASSUME NEW a \in Counter, NEW n \in 0..Size, NEW i \in Nat, n + i < Size
  PROVE  SlotAfter(Add(a, n), i) = SlotAfter(a, n + i)
<1>1. Slot(a) \in 0..(Size - 1)
  BY SlotInRange, ModulusLarge DEF SlotId
<1>2. n \in 0..(Size - 1) /\ i \in 0..(Size - 1) /\ Size \in Nat
  BY ModulusLarge
<1> DEFINE s == Slot(a)
<1> HIDE DEF s
<1>3. Slot(Add(a, n)) = IF s + n < Size THEN s + n ELSE s + n - Size
  BY <1>2, SlotOfAdd DEF s
<1> QED
  BY <1>1, <1>2, <1>3 DEF SlotAfter, s

(* Unsigned arithmetic on the counters of a ring that holds at most Size   *)
(* bytes: publishing n bytes adds n to the used count, taking n bytes      *)
(* subtracts n, and the tail is the head advanced by the used count.       *)
LEMMA CounterArithmetic ==
  ASSUME NEW h \in Counter, NEW t \in Counter, Sub(t, h) <= Size
  PROVE  /\ Sub(t, h) \in 0..Size
         /\ t = Add(h, Sub(t, h))
         /\ \A n \in 0..Size : Sub(t, h) + n <= Size => Sub(Add(t, n), h) = Sub(t, h) + n
         /\ \A n \in 0..Size : n <= Sub(t, h) => Sub(t, Add(h, n)) = Sub(t, h) - n
BY ModulusLarge DEF Counter, Add, Sub

(* Under the invariant the free space is computed without wrapping.        *)
LEMMA FreeSpace ==
  ASSUME IInv
  PROVE  Used \in 0..Size /\ Sub(Size, Used) = Size - Used
BY CounterArithmetic, ModulusLarge DEF IInv, TypeOK, UsedBounded, Used, Sub

(* The producer stores behind the unread bytes, never among them.          *)
LEMMA StoreMissesUnread ==
  ASSUME IInv, pi < pn, NEW i \in 0..(Size - 1), i < Used
  PROVE  SlotAfter(tail, pi) # SlotAfter(head, i) /\ SlotAfter(tail, pi) \in SlotId
<1>1. /\ head \in Counter /\ tail \in Counter
      /\ pi \in Nat /\ Used \in 0..Size /\ Used + pi < Size
  BY FreeSpace, ModulusLarge DEF IInv, TypeOK, RoomStays
<1>2. tail = Add(head, Used)
  BY <1>1, CounterArithmetic DEF Used
<1>3. SlotAfter(tail, pi) = SlotAfter(head, Used + pi)
  BY <1>1, <1>2, SlotShift
<1> QED
  BY <1>1, <1>3, SlotsDistinct, SlotInRange, ModulusLarge

-----------------------------------------------------------------------------
(* An empty ring satisfies the strengthened invariant.                     *)
LEMMA InitIInv == Init => IInv
<1> SUFFICES ASSUME Init PROVE IInv
  OBVIOUS
<1>1. Used = 0
  BY ModulusLarge DEF Init, Used, Sub
<1>2. TypeOK
  BY ModulusLarge DEF Init, TypeOK, Counter
<1> QED
  BY <1>1, <1>2, ModulusLarge
     DEF IInv, Init, UsedBounded, RoomStays, BytesStay, CopiedRight

(* Every step of the producer and of the one consumer preserves it: one    *)
(* case per action, and under it one per conjunct the action can disturb.  *)
LEMMA StepIInv == SingleConsumer /\ IInv /\ [Next]_vars => IInv'
<1> SUFFICES ASSUME SingleConsumer, IInv, [Next]_vars
             PROVE  IInv'
  OBVIOUS
<1>0. Used \in 0..Size /\ Sub(Size, Used) = Size - Used
  BY FreeSpace
<1> USE ModulusLarge
<1>1. ASSUME NEW count \in 1..MaxCount, EnqueueStart(count)
      PROVE  IInv'
  <2>1. pn' \in 0..Size /\ pn' + Used <= Size /\ pi' = 0
    BY <1>0, <1>1, RequestAssumption DEF EnqueueStart, Lesser
  <2> QED
    BY <1>1, <2>1 DEF EnqueueStart, IInv, TypeOK, UsedBounded, RoomStays,
                      BytesStay, CopiedRight, Used
<1>2. ASSUME NEW b \in Byte, EnqueueByte(b)
      PROVE  IInv'
  <2>1. TypeOK' /\ UsedBounded' /\ RoomStays' /\ BytesStay'
    <3>1. buf' \in [SlotId -> Byte]
      BY <1>2 DEF EnqueueByte, IInv, TypeOK
    <3> QED
      BY <1>2, <3>1 DEF EnqueueByte, IInv, TypeOK, UsedBounded, RoomStays, BytesStay, Used
  <2>2. ASSUME NEW c \in Consumers, NEW i \in 1..Len(dst[c])
        PROVE  buf'[SlotAfter(head, i - 1)] = buf[SlotAfter(head, i - 1)]
    <3>1. i - 1 \in 0..(Size - 1) /\ i - 1 < Used /\ head \in Counter
      BY <1>0 DEF IInv, TypeOK, BytesStay, CopiedRight
    <3>2. SlotAfter(tail, pi) # SlotAfter(head, i - 1)
      BY <1>2, <3>1, StoreMissesUnread DEF EnqueueByte
    <3>3. SlotAfter(head, i - 1) \in SlotId
      BY <3>1, SlotInRange
    <3> QED
      BY <1>2, <3>2, <3>3 DEF EnqueueByte, IInv, TypeOK
  <2> QED
    BY <1>2, <2>1, <2>2 DEF EnqueueByte, IInv, CopiedRight
<1>3. ASSUME EnqueuePublish
      PROVE  IInv'
  <2>1. tail' \in Counter /\ Used' = Used + pn
    BY <1>0, <1>3, SlotOfAdd, CounterArithmetic
       DEF EnqueuePublish, IInv, TypeOK, RoomStays, Used
  <2> QED
    BY <1>0, <1>3, <2>1
       DEF EnqueuePublish, IInv, TypeOK, UsedBounded, RoomStays, BytesStay, CopiedRight
<1>4. ASSUME NEW c \in Consumers, NEW max \in 1..MaxOut, DequeueStart(c, max)
      PROVE  IInv'
  <2>1. Lesser(max, Used) \in 0..Size /\ Lesser(max, Used) <= Used
    BY <1>0, RequestAssumption DEF Lesser
  <2>2. /\ cn' \in [Consumers -> 0..Size] /\ dst' \in [Consumers -> Seq(Byte)]
        /\ ret' \in [Consumers -> Seq(Byte)]
    BY <1>4, <2>1 DEF DequeueStart, IInv, TypeOK
  <2>3. BytesStay' /\ CopiedRight'
    BY <1>4, <2>1 DEF DequeueStart, IInv, TypeOK, BytesStay, CopiedRight, Used
  <2> QED
    BY <1>4, <2>2, <2>3 DEF DequeueStart, IInv, TypeOK, UsedBounded, RoomStays, Used
<1>5. ASSUME NEW c \in Consumers, DequeueByte(c)
      PROVE  IInv'
  <2> DEFINE i == Len(dst[c])
             b == buf[SlotAfter(head, i)]
  <2>1. i \in 0..(Size - 1) /\ head \in Counter /\ dst[c] \in Seq(Byte)
    BY <1>5 DEF DequeueByte, IInv, TypeOK
  <2>2. b \in Byte
    BY <2>1, SlotInRange DEF IInv, TypeOK
  <2>3. dst' = [dst EXCEPT ![c] = Append(dst[c], b)]
    BY <1>5 DEF DequeueByte
  <2> HIDE DEF b
  <2>4. TypeOK'
    BY <1>5, <2>1, <2>2, <2>3 DEF DequeueByte, IInv, TypeOK
  <2>5. CopiedRight'
    <3> SUFFICES ASSUME NEW d \in Consumers
                 PROVE  /\ Len(dst'[d]) <= cn[d]
                        /\ \A j \in 1..Len(dst'[d]) : dst'[d][j] = buf[SlotAfter(head, j - 1)]
      BY <1>5 DEF DequeueByte, CopiedRight
    <3>1. CASE d = c
      BY <1>5, <2>1, <2>2, <2>3, <3>1 DEF DequeueByte, IInv, TypeOK, CopiedRight, b
    <3>2. CASE d # c
      BY <2>3, <3>2 DEF IInv, TypeOK, CopiedRight
    <3> QED
      BY <3>1, <3>2
  <2> QED
    BY <1>5, <2>4, <2>5 DEF DequeueByte, IInv, UsedBounded, RoomStays, BytesStay, Used
<1>6. ASSUME NEW c \in Consumers, DequeuePublish(c)
      PROVE  IInv'
  <2>1. cn[c] \in 0..Size /\ cn[c] <= Used
    BY DEF IInv, TypeOK, BytesStay
  <2>2. head' \in Counter /\ Used' = Used - cn[c]
    BY <1>0, <1>6, <2>1, SlotOfAdd, CounterArithmetic
       DEF DequeuePublish, IInv, TypeOK, Used
  <2>3. /\ cn' = [d \in Consumers |-> 0] /\ dst' = [d \in Consumers |-> <<>>]
    BY <1>6 DEF DequeuePublish, IInv, TypeOK, SingleConsumer
  <2>4. ret' \in [Consumers -> Seq(Byte)]
    BY <1>6 DEF DequeuePublish, IInv, TypeOK
  <2>5. TypeOK'
    BY <1>6, <2>2, <2>3, <2>4 DEF DequeuePublish, IInv, TypeOK
  <2>6. UsedBounded' /\ RoomStays'
    BY <1>0, <1>6, <2>1, <2>2 DEF DequeuePublish, IInv, TypeOK, UsedBounded, RoomStays
  <2>7. BytesStay' /\ CopiedRight'
    BY <1>0, <2>1, <2>2, <2>3 DEF BytesStay, CopiedRight
  <2> QED
    BY <2>5, <2>6, <2>7 DEF IInv
<1>7. ASSUME Reset
      PROVE  IInv'
  <2>1. head' \in Counter /\ tail' \in Counter /\ Used' = 0
    BY <1>7 DEF Reset, Counter, Used, Sub
  <2>2. TypeOK' /\ UsedBounded' /\ RoomStays'
    BY <1>7, <2>1 DEF Reset, IInv, TypeOK, UsedBounded, RoomStays
  <2>3. BytesStay' /\ CopiedRight'
    <3>1. \A c \in Consumers : cn[c] = 0 /\ Len(dst[c]) = 0
      BY <1>7 DEF Reset, IInv, TypeOK, CopiedRight
    <3> QED
      BY <1>7, <2>1, <3>1 DEF Reset, BytesStay, CopiedRight
  <2> QED
    BY <2>2, <2>3 DEF IInv
<1>8. CASE UNCHANGED vars
  BY <1>8 DEF vars, IInv, TypeOK, UsedBounded, RoomStays, BytesStay, CopiedRight, Used
<1> QED
  BY <1>1, <1>2, <1>3, <1>4, <1>5, <1>6, <1>7, <1>8 DEF Next, Produce, Consume

(* The strengthened invariant holds in every reachable state.              *)
THEOREM RingInvariant == ASSUME SingleConsumer PROVE Spec => []IInv
<1>1. IInv /\ [Next]_vars => IInv'
  BY StepIInv
<1> QED
  BY <1>1, InitIInv, PTL DEF Spec

(* Every variable keeps to its type; in particular neither side ever       *)
(* counts more than Size bytes to move (um9_ring_enqueue, um9_ring_dequeue).*)
THEOREM RingTypeCorrect == ASSUME SingleConsumer PROVE Spec => []TypeOK
<1>1. IInv => TypeOK
  BY DEF IInv
<1> QED
  BY <1>1, RingInvariant, PTL

(* The used count never exceeds the size, although it is a difference of   *)
(* two wrapping counters (the index discipline in the header of ring.c).   *)
THEOREM RingNeverOverfull == ASSUME SingleConsumer PROVE Spec => []UsedBounded
<1>1. IInv => UsedBounded
  BY DEF IInv
<1> QED
  BY <1>1, RingInvariant, PTL

(* No step overwrites a byte that has been accepted and not handed over    *)
(* (the drop-new rule of ring.h).                                          *)
THEOREM RingUnreadKept == ASSUME SingleConsumer PROVE Spec => UnreadKept
<1>1. ASSUME IInv, [Next]_vars
      PROVE  [\A s \in UnreadSlots : buf'[s] = buf[s]]_vars
  <2> SUFFICES ASSUME Next, NEW s \in UnreadSlots
               PROVE  buf'[s] = buf[s]
    BY <1>1
  <2>1. CASE \E b \in Byte : EnqueueByte(b)
    <3>1. PICK i \in 0..(Size - 1) : i < Used /\ s = SlotAfter(head, i)
      BY DEF UnreadSlots
    <3>2. s # SlotAfter(tail, pi)
      BY <1>1, <2>1, <3>1, StoreMissesUnread DEF EnqueueByte
    <3>3. s \in SlotId
      BY <1>1, <3>1, SlotInRange DEF IInv, TypeOK
    <3> QED
      BY <1>1, <2>1, <3>2, <3>3 DEF EnqueueByte, IInv, TypeOK
  <2>2. CASE ~ \E b \in Byte : EnqueueByte(b)
    BY <2>2 DEF Next, Produce, Consume, EnqueueStart, EnqueuePublish,
                DequeueStart, DequeueByte, DequeuePublish, Reset
  <2> QED
    BY <2>1, <2>2
<1> QED
  BY <1>1, RingInvariant, PTL DEF Spec, UnreadKept

-----------------------------------------------------------------------------
(* The bytes of the ring form a sequence as long as the used count.        *)
LEMMA ContentsSeq ==
  ASSUME IInv
  PROVE  /\ Used \in 0..Size
         /\ Contents \in Seq(Byte)
         /\ Len(Contents) = Used
         /\ \A i \in 1..Used : Contents[i] = buf[SlotAfter(head, i - 1)]
<1>1. Used \in 0..Size
  BY FreeSpace
<1>2. ASSUME NEW i \in 1..Used
      PROVE  buf[SlotAfter(head, i - 1)] \in Byte
  <2>1. i - 1 \in 0..(Size - 1)
    BY <1>1, ModulusLarge
  <2> QED
    BY <2>1, SlotInRange DEF IInv, TypeOK
<1> QED
  BY <1>1, <1>2, ModulusLarge DEF Contents

(* A concatenation, element by element.                                    *)
LEMMA ConcatByElement ==
  ASSUME NEW S, NEW s \in Seq(S), NEW t \in Seq(S), NEW u \in Seq(S),
         Len(u) = Len(s) + Len(t),
         \A i \in 1..Len(s) : u[i] = s[i],
         \A i \in 1..Len(t) : u[Len(s) + i] = t[i]
  PROVE  u = s \o t
<1> DEFINE v == s \o t
<1>1. /\ v \in Seq(S) /\ Len(v) = Len(s) + Len(t)
      /\ \A i \in 1..(Len(s) + Len(t)) :
           v[i] = IF i <= Len(s) THEN s[i] ELSE t[i - Len(s)]
  BY ConcatProperties
<1>2. Len(s) \in Nat /\ Len(t) \in Nat
  OBVIOUS
<1> HIDE DEF v
<1>3. ASSUME NEW i \in 1..Len(u)
      PROVE  u[i] = v[i]
  <2>1. i \in 1..(Len(s) + Len(t)) /\ i \in Int
    BY <1>2
  <2>2. CASE i <= Len(s)
    BY <1>1, <1>2, <2>1, <2>2
  <2>3. CASE ~(i <= Len(s))
    <3>1. i - Len(s) \in 1..Len(t) /\ Len(s) + (i - Len(s)) = i
      BY <1>2, <2>1, <2>3
    <3>2. u[i] = t[i - Len(s)]
      BY <3>1
    <3> QED
      BY <1>1, <2>1, <2>3, <3>2
  <2> QED
    BY <2>2, <2>3
<1>4. u = v
  BY <1>1, <1>3, SeqEqual
<1> QED
  BY <1>4 DEF v

(* The end of a sequence, element by element.                              *)
LEMMA SuffixByElement ==
  ASSUME NEW S, NEW s \in Seq(S), NEW n \in 0..Len(s)
  PROVE  SubSeq(s, n + 1, Len(s)) = [i \in 1..(Len(s) - n) |-> s[i + n]]
<1>1. Len(s) \in Nat /\ n \in Nat
  OBVIOUS
<1>2. Len(s) - (n + 1) + 1 = Len(s) - n
  BY <1>1
<1> QED
  BY <1>1, <1>2, SMTT(30)

(* Publishing appends the bytes the producer has stored.                   *)
LEMMA PublishAccepts ==
  ASSUME IInv, EnqueuePublish
  PROVE  \E n \in 1..Size : Queue!Accept(n)
<1>1. /\ pn \in 1..Size /\ Used \in 0..Size /\ pn + Used <= Size
      /\ head \in Counter /\ tail \in Counter
  BY FreeSpace, ModulusLarge DEF IInv, TypeOK, RoomStays, EnqueuePublish
<1>2. head' = head /\ buf' = buf /\ ret' = ret /\ Used' = Used + pn
  BY <1>1, CounterArithmetic DEF EnqueuePublish, Used
<1>3. ASSUME NEW i \in 1..pn
      PROVE  /\ buf[SlotAfter(tail, i - 1)] \in Byte
             /\ SlotAfter(tail, i - 1) = SlotAfter(head, (Used + i) - 1)
  <2>1. tail = Add(head, Used)
    BY <1>1, CounterArithmetic DEF Used
  <2>2. /\ i - 1 \in Nat /\ Used + (i - 1) < Size /\ i - 1 \in 0..(Size - 1)
        /\ Used + (i - 1) = (Used + i) - 1
    BY <1>1, ModulusLarge
  <2>3. SlotAfter(Add(head, Used), i - 1) = SlotAfter(head, Used + (i - 1))
    BY <1>1, <2>2, SlotShift
  <2>4. SlotAfter(tail, i - 1) \in SlotId
    BY <1>1, <2>2, SlotInRange
  <2> QED
    BY <1>1, <2>1, <2>2, <2>3, <2>4 DEF IInv, TypeOK
<1>4. PICK data \in [1..pn -> Byte] :
        \A i \in 1..pn : data[i] = buf[SlotAfter(tail, i - 1)]
  <2>1. [i \in 1..pn |-> buf[SlotAfter(tail, i - 1)]] \in [1..pn -> Byte]
    BY <1>3
  <2> QED
    BY <2>1
<1>5. Contents' = Contents \o data
  <2>1. /\ data \in Seq(Byte) /\ Len(data) = pn
        /\ Contents \in Seq(Byte) /\ Len(Contents) = Used
    <3>1. pn \in Nat /\ data \in [1..pn -> Byte]
      BY <1>1, <1>4, ModulusLarge
    <3>2. data \in Seq(Byte) /\ Len(data) = pn
      BY <3>1
    <3> QED
      BY <3>2, ContentsSeq
  <2>2. Contents' = [i \in 1..(Used + pn) |-> buf[SlotAfter(head, i - 1)]]
    BY <1>2 DEF Contents
  <2>3. \A i \in 1..Used : Contents'[i] = Contents[i]
    BY <1>1, <2>2, ContentsSeq, ModulusLarge
  <2>4. \A i \in 1..pn : Contents'[Used + i] = data[i]
    BY <1>1, <1>3, <1>4, <2>2, ModulusLarge
  <2>5. Contents' \in Seq(Byte) /\ Len(Contents') = Used + pn
    <3>1. ASSUME NEW i \in 1..(Used + pn)
          PROVE  buf[SlotAfter(head, i - 1)] \in Byte
      <4>1. i - 1 \in 0..(Size - 1)
        BY <1>1, ModulusLarge
      <4> QED
        BY <1>1, <4>1, SlotInRange DEF IInv, TypeOK
    <3> QED
      BY <1>1, <2>2, <3>1, ModulusLarge
  <2> QED
    BY <2>1, <2>3, <2>4, <2>5, ConcatByElement
<1>6. Len(Contents) + pn <= Size
  BY <1>1, ContentsSeq, ModulusLarge
<1>7. Queue!Accept(pn)
  BY <1>2, <1>4, <1>5, <1>6 DEF Queue!Accept
<1> QED
  BY <1>1, <1>7

(* Publishing the head hands over exactly the oldest bytes.                *)
LEMMA PublishTakes ==
  ASSUME IInv, NEW c \in Consumers, DequeuePublish(c)
  PROVE  \E n \in 1..Len(Contents) : Queue!Take(c, n)
<1> DEFINE n == cn[c]
<1>1. /\ n \in 1..Size /\ Used \in 0..Size /\ n <= Used
      /\ head \in Counter /\ tail \in Counter /\ dst[c] \in Seq(Byte)
  BY FreeSpace, ModulusLarge DEF IInv, TypeOK, BytesStay, DequeuePublish
<1>2. head' = Add(head, n) /\ buf' = buf /\ Used' = Used - n
  BY <1>1, CounterArithmetic DEF DequeuePublish, Used
<1>3. dst[c] = SubSeq(Contents, 1, n)
  <2>1. Len(dst[c]) = n /\ \A i \in 1..n : dst[c][i] = Contents[i]
    BY <1>1, ContentsSeq DEF DequeuePublish, IInv, CopiedRight
  <2> QED
    BY <1>1, <2>1, ContentsSeq
<1>4. Contents' = SubSeq(Contents, n + 1, Used)
  <2>1. Contents' = [i \in 1..(Used - n) |-> buf[SlotAfter(head', i - 1)]]
    BY <1>2 DEF Contents
  <2>2. ASSUME NEW i \in 1..(Used - n)
        PROVE  buf[SlotAfter(head', i - 1)] = Contents[i + n]
    <3>1. /\ i - 1 \in Nat /\ n + (i - 1) < Size /\ i + n \in 1..Used
          /\ n \in 0..Size /\ n + (i - 1) = (i + n) - 1
      BY <1>1, ModulusLarge
    <3>2. SlotAfter(head', i - 1) = SlotAfter(head, n + (i - 1))
      BY <1>1, <1>2, <3>1, SlotShift
    <3> QED
      BY <3>1, <3>2, ContentsSeq
  <2>3. SubSeq(Contents, n + 1, Used) = [i \in 1..(Used - n) |-> Contents[i + n]]
    <3>1. Contents \in Seq(Byte) /\ Len(Contents) = Used /\ n \in 0..Len(Contents)
      BY <1>1, ContentsSeq
    <3>2. SubSeq(Contents, n + 1, Len(Contents))
            = [i \in 1..(Len(Contents) - n) |-> Contents[i + n]]
      BY <3>1, SuffixByElement
    <3> QED
      BY <3>1, <3>2, Zenon
  <2> QED
    BY <2>1, <2>2, <2>3, Zenon
<1>5. ret' = [ret EXCEPT ![c] = dst[c]]
  BY DEF DequeuePublish
<1>6. Queue!Take(c, n)
  BY <1>3, <1>4, <1>5, ContentsSeq DEF Queue!Take
<1> QED
  BY <1>1, <1>6, ContentsSeq

(* Every step of the ring is a step of the queue or leaves it unchanged:   *)
(* the operations take effect when they publish their counter, and a       *)
(* dequeue that returns 0 takes effect when it reads the counters.         *)
LEMMA StepRefines ==
  ASSUME SingleConsumer, IInv, [Next]_vars
  PROVE  [Queue!Next]_<<Contents, ret>>
<1> SUFFICES ASSUME Next
             PROVE  Queue!Next \/ UNCHANGED <<Contents, ret>>
  BY DEF vars, Contents, Used, Queue!vars
<1>1. ASSUME NEW count \in 1..MaxCount, EnqueueStart(count)
      PROVE  UNCHANGED <<Contents, ret>>
  BY <1>1 DEF EnqueueStart, Contents, Used
<1>2. ASSUME NEW b \in Byte, EnqueueByte(b)
      PROVE  UNCHANGED <<Contents, ret>>
  <2>1. ASSUME NEW i \in 1..Used
        PROVE  buf'[SlotAfter(head, i - 1)] = buf[SlotAfter(head, i - 1)]
    <3>1. i - 1 \in 0..(Size - 1) /\ i - 1 < Used
      BY FreeSpace, ModulusLarge
    <3>2. /\ SlotAfter(tail, pi) # SlotAfter(head, i - 1)
          /\ SlotAfter(head, i - 1) \in SlotId
      BY <1>2, <3>1, StoreMissesUnread, SlotInRange DEF EnqueueByte, IInv, TypeOK
    <3> QED
      BY <1>2, <3>2 DEF EnqueueByte, IInv, TypeOK
  <2>2. head' = head /\ Used' = Used /\ ret' = ret
    BY <1>2 DEF EnqueueByte, Used
  <2> QED
    BY <2>1, <2>2, Zenon DEF Contents
<1>3. CASE EnqueuePublish
  BY <1>3, PublishAccepts DEF Queue!Next
<1>4. ASSUME NEW c \in Consumers, NEW max \in 1..MaxOut, DequeueStart(c, max)
      PROVE  Queue!FindEmpty(c) \/ UNCHANGED <<Contents, ret>>
  <2>1. Contents' = Contents
    BY <1>4 DEF DequeueStart, Contents, Used
  <2>2. CASE Lesser(max, Used) = 0
    <3>1. Used = 0
      BY <2>2, FreeSpace, ModulusLarge, RequestAssumption DEF Lesser
    <3>2. Contents = <<>>
      BY <3>1, ContentsSeq
    <3>3. ret' = [ret EXCEPT ![c] = <<>>]
      BY <1>4, <2>2 DEF DequeueStart
    <3> QED
      BY <2>1, <3>2, <3>3 DEF Queue!FindEmpty
  <2>3. CASE Lesser(max, Used) # 0
    BY <1>4, <2>1, <2>3 DEF DequeueStart
  <2> QED
    BY <2>2, <2>3
<1>5. ASSUME NEW c \in Consumers, DequeueByte(c)
      PROVE  UNCHANGED <<Contents, ret>>
  BY <1>5 DEF DequeueByte, Contents, Used
<1>6. ASSUME NEW c \in Consumers, DequeuePublish(c)
      PROVE  \E n \in 1..Len(Contents) : Queue!Take(c, n)
  BY <1>6, PublishTakes
<1>7. ASSUME Reset
      PROVE  Queue!Clear
  <2>1. Used' = 0
    BY <1>7, ModulusLarge DEF Reset, Used, Sub
  <2>2. Contents' = <<>>
    BY <2>1 DEF Contents
  <2> QED
    BY <1>7, <2>2 DEF Reset, Queue!Clear
<1> QED
  BY <1>1, <1>2, <1>3, <1>4, <1>5, <1>6, <1>7
     DEF Next, Produce, Consume, Queue!Next

(* The ring implements the atomic queue: a client is given the accepted    *)
(* bytes in order, each exactly once (ring.h; the driver's DequeueBytes).  *)
THEOREM RingImplementsQueue == ASSUME SingleConsumer PROVE Spec => ImplementsQueue
<1>1. Init => Queue!Init
  <2> SUFFICES ASSUME Init PROVE Queue!Init
    OBVIOUS
  <2>1. Contents = <<>>
    <3>1. Used = 0
      BY ModulusLarge DEF Init, Used, Sub
    <3> QED
      BY <3>1, InitIInv, ContentsSeq
  <2> QED
    BY <2>1 DEF Init, Queue!Init
<1>2. IInv /\ [Next]_vars => [Queue!Next]_<<Contents, ret>>
  BY StepRefines
<1> QED
  BY <1>1, <1>2, RingInvariant, PTL DEF Spec, ImplementsQueue, Queue!Spec, Queue!vars
=============================================================================
