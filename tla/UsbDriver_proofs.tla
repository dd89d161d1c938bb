-------------------------- MODULE UsbDriver_proofs --------------------------
(***************************************************************************)
(* Proofs about UsbDriver for every set of interfaces, every number of     *)
(* slots and every nesting bound.                                          *)
(*                                                                         *)
(* At any moment one party has the parameter block of an instance: the     *)
(* USL, an activation of a driver procedure that goes on to use it, or     *)
(* nobody, and then the machine has stopped or is being removed.  That is  *)
(* what the inductive invariant says, slot by slot; what remains are the   *)
(* order of the frames, the progress of a notification and the blocks.     *)
(***************************************************************************)
EXTENDS UsbDriver, FiniteSetTheorems, SequenceTheorems, TLAPS

(* What the environment owes the driver: call tokens do not wrap, an abort *)
(* fails only when the read has gone with its pipe, and no task-level code *)
(* runs between the last notification and finalize.                        *)
Contract ==
  /\ MaxCalls + 1 < TokenModulus
  /\ AbortMayFail \subseteq {Reading}
  /\ GapOpen = FALSE

FramesOf(st) == {st[k] : k \in 1..Len(st)}
Frames == FramesOf(stack)

(* A frame of the machine of instance s; one that has made its USL call;   *)
(* one that is about to use the PB; and one that found no report of its    *)
(* call and must act on the answer itself.                                 *)
OnSlot(f, s) == f.proc # "Notify" /\ f.slot = s
Entered(f) == f.proc = "Initiate" /\ f.at # "enter"
Acts(f) == f.proc = "Completion" \/ (f.proc = "Initiate" /\ f.at = "enter")
Owes(f) ==
  /\ f.proc = "Initiate" /\ f.at = "returned"
  /\ f.err \in {"ok", "error"}
  /\ inst[f.slot].inFlight = f.token

FramesOn(s) == {f \in Frames : OnSlot(f, s)}
Notifies == {f \in Frames : f.proc = "Notify"}
HasCompletion(s) == \E f \in FramesOn(s) : f.proc = "Completion"

(* The order of frames: a notification is at the bottom; below a frame of  *)
(* an instance, its other frames have made their calls, each with a token  *)
(* of its own.                                                             *)
Below(f, g) ==
  /\ f.proc # "Notify"
  /\ g.proc # "Notify" /\ f.slot = g.slot =>
       Entered(g) /\ (Entered(f) => f.token # g.token)
Nested(st) == \A j, k \in 1..Len(st) : j < k => Below(st[j], st[k])

(* The activations of the machine of s that DepthCountsNesting counts.     *)
Open(st, s) ==
  {k \in 1..Len(st) : st[k].proc = "Initiate" /\ st[k].slot = s /\ st[k].at # "enter"}
Unit(b) == IF b THEN 1 ELSE 0

-----------------------------------------------------------------------------
(* The USL holds one call, the one the instance waits for, and no frame    *)
(* uses the PB meanwhile.                                                  *)
CallHeld(s) ==
  usl[s] # <<>> =>
    /\ Len(usl[s]) = 1 /\ s < count
    /\ inst[s].pending /\ ~inst[s].stopped
    /\ usl[s][1].stage = inst[s].stage /\ usl[s][1].iface = inst[s].iface
    /\ \A f \in FramesOn(s) : Entered(f) /\ ~Owes(f)

(* What each frame finds in its instance.                                  *)
InitiateFinds(f, r) ==
  /\ f.at = "enter" =>
       ~r.stopped /\ ~r.pending /\ r.inFlight = 0 /\ r.token <= MaxCalls
  /\ f.at # "enter" => f.token \in 1..r.token
  /\ f.at = "returned" => f.err # "none"
  /\ Owes(f) =>
       /\ ~r.stopped /\ r.pending
       /\ f.err = "ok" /\ ~HasCompletion(f.slot) => r.token <= MaxCalls

CompletionFinds(f, r) ==
  /\ ~r.stopped
  /\ f.status \in StatusOf(r.stage)
  /\ f.status # "error" => r.token <= MaxCalls

FramesFind(s) ==
  \A f \in FramesOn(s) :
    /\ s < count
    /\ f.proc = "Initiate" => InitiateFinds(f, inst[s])
    /\ f.proc = "Completion" => CompletionFinds(f, inst[s])

(* callToken and inFlightToken.                                            *)
Tokens(s) ==
  s < count =>
    /\ inst[s].iface \in Interfaces
    /\ inst[s].token <= MaxCalls + 1
    /\ inst[s].inFlight \in {0, inst[s].token}

(* Somebody has the PB, or the machine is at rest.                         *)
Driven(s) == \E f \in FramesOn(s) : Acts(f) \/ Owes(f)
AtRest(s) == ~inst[s].pending /\ (inst[s].stopped \/ inst[s].removing)
PipeGone(s) == \E f \in Notifies : f.slot = s /\ f.at = "clear"
Controlled(s) == s < count => usl[s] # <<>> \/ Driven(s) \/ PipeGone(s) \/ AtRest(s)

(* The stage says which resources the instance has.                        *)
FieldsFollowStage(s) ==
  s < count =>
    LET r == inst[s] IN
    /\ r.stopped => r.stage = "AllocRing"
    /\ ~r.stopped =>
         /\ r.ring <=> r.stage # "AllocRing"
         /\ r.pipe <=> r.stage \in {"AllocReadBuffer", Reading}
         /\ r.readBuffer <=> r.stage = Reading

(* An instance being removed has no push on its way, unless the pass of    *)
(* the notification has only just taken its hook.                          *)
Silent(s) ==
  inst[s].stage = Reading =>
    /\ usl[s] # <<>> => usl[s][1].aborted
    /\ \A f \in FramesOn(s) : f.proc = "Completion" => f.status # "ok"
BeingMarked(s) == \E f \in Notifies : f.slot = s /\ f.at \in {"hook", "test", "abort"}
RemovedIsSilent(s) == s < count /\ inst[s].removing => Silent(s) \/ BeingMarked(s)

FreeSlot(s) == s < count \/ ~inst[s].hook

DepthCounts(s) == s < count => inst[s].depth = Cardinality(Open(stack, s))

SlotInv(s) ==
  /\ CallHeld(s) /\ FramesFind(s) /\ Tokens(s) /\ Controlled(s)
  /\ FieldsFollowStage(s) /\ RemovedIsSilent(s) /\ FreeSlot(s) /\ DepthCounts(s)

(* How far a pass of USBMIDI9NotifyProc has come, and what it leaves.      *)
Marked(s) == inst[s].removing /\ ~inst[s].hook
Quiet(s) == ~inst[s].pending /\ usl[s] = <<>> /\ FramesOn(s) = {}

NotifyFinds(f) ==
  /\ expert.phase = "notifying"
  /\ f.slot <= count
  /\ \A s \in Slots : s < f.slot => Marked(s) /\ (f.busy \/ Quiet(s))
  /\ f.at # "mark" => f.slot < count /\ inst[f.slot].removing
  /\ f.at \notin {"mark", "hook"} => Marked(f.slot)
  /\ f.at = "clear" => usl[f.slot] = <<>> /\ FramesOn(f.slot) = {}
NotifyPass == \A f \in Notifies : NotifyFinds(f)

Drained ==
  expert.phase = "drained" => stack = <<>> /\ \A s \in Live : Marked(s) /\ Quiet(s)

(* The blocks of an instance: held in its two fields, or on their way to   *)
(* them.                                                                   *)
Handed(s) ==
  \/ \E f \in FramesOn(s) : f.proc = "Completion" /\ f.status = "ok"
  \/ ~HasCompletion(s) /\ \E f \in FramesOn(s) : Owes(f) /\ f.err = "ok"
RingsHeld == {s \in Live : inst[s].ring}
BuffersHeld == {s \in Live : inst[s].readBuffer}
BlocksHanded == {s \in Live : inst[s].stage \in AllocStage /\ Handed(s)}
HeapCounts ==
  heap = Cardinality(RingsHeld) + Cardinality(BuffersHeld) + Cardinality(BlocksHanded)

IInv ==
  /\ TypeOK
  /\ Nested(stack)
  /\ \A s \in Slots : SlotInv(s)
  /\ NotifyPass
  /\ Drained
  /\ HeapCounts

-----------------------------------------------------------------------------
(* Moving a set of numbers up by one keeps its cardinality.                *)
LEMMA ShiftCardinality ==
  ASSUME NEW n \in Nat, NEW A \in SUBSET (1..n)
  PROVE  /\ IsFiniteSet(A) /\ IsFiniteSet({k + 1 : k \in A})
         /\ Cardinality({k + 1 : k \in A}) = Cardinality(A)
         /\ Cardinality(A) \in Nat
<1> DEFINE B == {k + 1 : k \in A}
           f == [k \in A |-> k + 1]
<1>1. IsFiniteSet(A)
  <2>1. IsFiniteSet(1..n)
    BY FS_Interval
  <2> QED
    BY <2>1, FS_Subset
<1>2. f \in Bijection(A, B)
  <2>1. f \in [A -> B]
    OBVIOUS
  <2>2. \A j, k \in A : f[j] = f[k] => j = k
    BY A \subseteq Int
  <2>3. \A b \in B : \E k \in A : f[k] = b
    OBVIOUS
  <2> QED
    BY <2>1, <2>2, <2>3 DEF Bijection, Injection, Surjection, IsInjective
<1>3. ExistsBijection(A, B)
  BY <1>2 DEF ExistsBijection
<1> QED
  BY <1>1, <1>3, FS_Bijection, FS_CardinalityType

(* A frame pushed on a stack: the frames, their order and the number of    *)
(* open activations.                                                       *)
LEMMA PushFacts ==
  ASSUME NEW st \in Seq(Frame), NEW f \in Frame
  PROVE  LET new == <<f>> \o st IN
         /\ new \in Seq(Frame) /\ new # <<>> /\ Head(new) = f /\ Tail(new) = st
         /\ FramesOf(new) = {f} \cup FramesOf(st)
         /\ Nested(new) <=> Nested(st) /\ \A g \in FramesOf(st) : Below(f, g)
         /\ \A s : Cardinality(Open(new, s)) =
                     Cardinality(Open(st, s)) + Unit(f.slot = s /\ Entered(f))
<1> DEFINE new == <<f>> \o st
           n == Len(st)
<1>1. /\ n \in Nat /\ new \in Seq(Frame) /\ Len(new) = n + 1 /\ new[1] = f
      /\ \A k \in 1..n : new[k + 1] = st[k]
      /\ \A k \in 1..(n + 1) : k # 1 => new[k] = st[k - 1]
  OBVIOUS
<1>2. new # <<>> /\ Head(new) = f /\ Tail(new) = st
  <2>1. new # <<>> /\ Head(new) = f /\ Tail(new) \in Seq(Frame) /\ Len(Tail(new)) = n
        /\ \A k \in 1..n : Tail(new)[k] = st[k]
    BY <1>1
  <2> QED
    BY <2>1, SeqEqual
<1> HIDE DEF new, n
<1>3. FramesOf(new) = {f} \cup FramesOf(st)
  <2>1. \A k \in 1..(n + 1) : k = 1 \/ (k - 1 \in 1..n /\ new[k] = st[k - 1])
    BY <1>1
  <2>2. \A k \in 1..n : k + 1 \in 1..(n + 1) /\ new[k + 1] = st[k]
    BY <1>1
  <2>3. 1 \in 1..(n + 1)
    BY <1>1
  <2>4. ASSUME NEW g
        PROVE  g \in FramesOf(new) <=> g = f \/ g \in FramesOf(st)
    <3>1. g \in FramesOf(new) <=> \E k \in 1..(n + 1) : g = new[k]
      BY <1>1 DEF FramesOf
    <3>2. g \in FramesOf(st) <=> \E k \in 1..n : g = st[k]
      BY DEF FramesOf, n
    <3> QED
      BY <1>1, <2>1, <2>2, <2>3, <3>1, <3>2
  <2> QED
    BY <2>4
<1>4. Nested(new) <=> Nested(st) /\ \A g \in FramesOf(st) : Below(f, g)
  <2>1. ASSUME Nested(new)
        PROVE  Nested(st) /\ \A g \in FramesOf(st) : Below(f, g)
    <3>1. ASSUME NEW j \in 1..n, NEW k \in 1..n, j < k
          PROVE  Below(st[j], st[k])
      <4>1. j + 1 \in 1..(n + 1) /\ k + 1 \in 1..(n + 1) /\ j + 1 < k + 1
        BY <1>1, <3>1
      <4> QED
        BY <1>1, <2>1, <4>1 DEF Nested
    <3>2. ASSUME NEW k \in 1..n
          PROVE  Below(f, st[k])
      <4>1. 1 \in 1..(n + 1) /\ k + 1 \in 1..(n + 1) /\ 1 < k + 1
        BY <1>1
      <4> QED
        BY <1>1, <2>1, <4>1 DEF Nested
    <3> QED
      BY <3>1, <3>2 DEF Nested, FramesOf, n
  <2>2. ASSUME Nested(st), \A g \in FramesOf(st) : Below(f, g),
               NEW j \in 1..(n + 1), NEW k \in 1..(n + 1), j < k
        PROVE  Below(new[j], new[k])
    <3>1. k - 1 \in 1..n /\ new[k] = st[k - 1]
      BY <1>1, <2>2
    <3>2. CASE j = 1
      BY <1>1, <2>2, <3>1, <3>2 DEF FramesOf, n
    <3>3. CASE j # 1
      <4>1. j - 1 \in 1..n /\ new[j] = st[j - 1] /\ j - 1 < k - 1
        BY <1>1, <2>2, <3>3
      <4> QED
        BY <2>2, <3>1, <4>1 DEF Nested, n
    <3> QED
      BY <3>2, <3>3
  <2> QED
    BY <1>1, <2>1, <2>2 DEF Nested
<1>5. ASSUME NEW s
      PROVE  Cardinality(Open(new, s)) =
               Cardinality(Open(st, s)) + Unit(f.slot = s /\ Entered(f))
  <2> DEFINE A == Open(st, s)
             B == {k + 1 : k \in A}
  <2>1. A \in SUBSET (1..n)
    BY DEF Open, n
  <2>2. /\ IsFiniteSet(B) /\ Cardinality(B) = Cardinality(A) /\ Cardinality(A) \in Nat
    BY <1>1, <2>1, ShiftCardinality
  <2>3. 1 \notin B
    BY <1>1, <2>1
  <2>4. \A k \in 1..(n + 1) : k # 1 => (k \in Open(new, s) <=> k \in B)
    <3> SUFFICES ASSUME NEW k \in 1..(n + 1), k # 1
                 PROVE  k \in Open(new, s) <=> k \in B
      OBVIOUS
    <3>1. k - 1 \in 1..n /\ new[k] = st[k - 1] /\ k = (k - 1) + 1
      BY <1>1
    <3>2. k \in Open(new, s) <=> k - 1 \in A
      BY <1>1, <3>1 DEF Open, n
    <3>3. k \in B <=> k - 1 \in A
      BY <1>1, <2>1, <3>1
    <3> QED
      BY <3>2, <3>3
  <2>5. 1 \in Open(new, s) <=> f.slot = s /\ Entered(f)
    BY <1>1 DEF Open, Entered
  <2>6. Open(new, s) \subseteq 1..(n + 1) /\ B \subseteq 1..(n + 1)
    BY <1>1, <2>1 DEF Open
  <2> HIDE DEF A, B
  <2>7. CASE f.slot = s /\ Entered(f)
    <3>1. Open(new, s) = B \cup {1}
      BY <1>1, <2>4, <2>5, <2>6, <2>7
    <3>2. IsFiniteSet(Open(new, s)) /\ Cardinality(Open(new, s)) = Cardinality(B) + 1
      BY <2>2, <2>3, <3>1, FS_AddElement
    <3>3. Unit(f.slot = s /\ Entered(f)) = 1
      BY <2>7 DEF Unit
    <3> QED
      BY <2>2, <3>2, <3>3 DEF A
  <2>8. CASE ~(f.slot = s /\ Entered(f))
    <3>1. \A k \in 1..(n + 1) : k \in Open(new, s) <=> k \in B
      BY <2>3, <2>4, <2>5, <2>8
    <3>2. Open(new, s) = B
      BY <2>6, <3>1
    <3> QED
      BY <2>2, <2>8, <3>2 DEF Unit, A
  <2> QED
    BY <2>7, <2>8
<1> QED
  BY <1>1, <1>2, <1>3, <1>4, <1>5 DEF new

(* The number of open activations is a number.                             *)
LEMMA OpenNat ==
  ASSUME NEW st \in Seq(Frame), NEW s
  PROVE  Cardinality(Open(st, s)) \in Nat
<1>1. Len(st) \in Nat /\ Open(st, s) \in SUBSET (1..Len(st))
  BY DEF Open
<1> QED
  BY <1>1, ShiftCardinality

(* The running frame and those it preempted or was called from.            *)
LEMMA TopFacts ==
  ASSUME stack \in Seq(Frame), Nested(stack), stack # <<>>
  PROVE  /\ Top \in Frame /\ Return \in Seq(Frame)
         /\ Frames = {Top} \cup FramesOf(Return)
         /\ Nested(Return)
         /\ \A g \in FramesOf(Return) : g \in Frame /\ Below(Top, g)
         /\ \A s : Cardinality(Open(stack, s)) =
                     Cardinality(Open(Return, s)) + Unit(Top.slot = s /\ Entered(Top))
<1>1. /\ Top \in Frame /\ Return \in Seq(Frame)
      /\ Len(stack) \in Nat /\ Len(Return) = Len(stack) - 1
      /\ Top = stack[1] /\ \A k \in 1..Len(Return) : Return[k] = stack[k + 1]
  BY DEF Top, Return
<1>2. stack = <<Top>> \o Return
  <2>1. /\ <<Top>> \o Return \in Seq(Frame) /\ Len(<<Top>> \o Return) = Len(stack)
        /\ (<<Top>> \o Return)[1] = stack[1]
    BY <1>1
  <2>2. ASSUME NEW k \in 1..Len(stack), k # 1
        PROVE  (<<Top>> \o Return)[k] = stack[k]
    BY <1>1, <2>2
  <2> QED
    BY <2>1, <2>2, SeqEqual
<1>3. \A g \in FramesOf(Return) : g \in Frame
  BY <1>1 DEF FramesOf
<1> QED
  BY <1>1, <1>2, <1>3, PushFacts DEF Frames

(* The four things that happen to the stack: a procedure returns, goes on, *)
(* calls another one, or is preempted.                                     *)
LEMMA ReturnFacts ==
  ASSUME stack \in Seq(Frame), Nested(stack), stack # <<>>, stack' = Return
  PROVE  /\ stack' \in Seq(Frame) /\ Nested(stack)' /\ Frames' = FramesOf(Return)
         /\ \A s : Cardinality(Open(stack, s)') =
                     Cardinality(Open(stack, s)) - Unit(Top.slot = s /\ Entered(Top))
<1>1. Nested(stack)' /\ Frames' = FramesOf(Return)
  BY TopFacts DEF Nested, Frames, FramesOf
<1>2. ASSUME NEW s
      PROVE  Open(stack, s)' = Open(Return, s)
  BY DEF Open
<1> QED
  BY <1>1, <1>2, TopFacts, OpenNat DEF Unit

LEMMA ReplaceFacts ==
  ASSUME stack \in Seq(Frame), Nested(stack), stack # <<>>,
         NEW f \in Frame, stack' = Replace(f),
         \A g \in FramesOf(Return) : Below(f, g)
  PROVE  /\ stack' \in Seq(Frame) /\ Nested(stack)' /\ Frames' = {f} \cup FramesOf(Return)
         /\ \A s : Cardinality(Open(stack, s)') =
                     Cardinality(Open(stack, s)) - Unit(Top.slot = s /\ Entered(Top))
                                                + Unit(f.slot = s /\ Entered(f))
<1>1. stack' = <<f>> \o Return
  BY DEF Replace, Return
<1>2. Nested(stack)' <=> Nested(<<f>> \o Return)
  BY <1>1 DEF Nested
<1>3. Frames' = FramesOf(<<f>> \o Return)
  BY <1>1 DEF Frames, FramesOf
<1>4. ASSUME NEW s
      PROVE  Open(stack, s)' = Open(<<f>> \o Return, s)
  BY <1>1 DEF Open
<1> QED
  BY <1>1, <1>2, <1>3, <1>4, TopFacts, PushFacts, OpenNat DEF Unit

LEMMA CallFacts ==
  ASSUME stack \in Seq(Frame), Nested(stack), stack # <<>>,
         NEW c \in Frame, NEW f \in Frame, stack' = <<c>> \o Replace(f),
         \A g \in FramesOf(Return) : Below(f, g) /\ Below(c, g), Below(c, f)
  PROVE  /\ stack' \in Seq(Frame) /\ Nested(stack)'
         /\ Frames' = {c, f} \cup FramesOf(Return)
         /\ \A s : Cardinality(Open(stack, s)') =
                     Cardinality(Open(stack, s)) - Unit(Top.slot = s /\ Entered(Top))
                                                + Unit(f.slot = s /\ Entered(f))
                                                + Unit(c.slot = s /\ Entered(c))
<1> DEFINE mid == <<f>> \o Return
<1>1. /\ mid \in Seq(Frame) /\ Nested(mid) /\ FramesOf(mid) = {f} \cup FramesOf(Return)
      /\ \A s : Cardinality(Open(mid, s)) =
                  Cardinality(Open(Return, s)) + Unit(f.slot = s /\ Entered(f))
  BY TopFacts, PushFacts
<1>2. stack' = <<c>> \o mid
  BY DEF Replace, Return
<1> HIDE DEF mid
<1>3. Nested(stack)' <=> Nested(<<c>> \o mid)
  BY <1>2 DEF Nested
<1>4. Frames' = FramesOf(<<c>> \o mid)
  BY <1>2 DEF Frames, FramesOf
<1>5. ASSUME NEW s
      PROVE  Open(stack, s)' = Open(<<c>> \o mid, s)
  BY <1>2 DEF Open
<1>6. \A g \in FramesOf(mid) : Below(c, g)
  BY <1>1
<1>7. /\ <<c>> \o mid \in Seq(Frame) /\ Nested(<<c>> \o mid)
      /\ FramesOf(<<c>> \o mid) = {c} \cup FramesOf(mid)
      /\ \A s : Cardinality(Open(<<c>> \o mid, s)) =
                  Cardinality(Open(mid, s)) + Unit(c.slot = s /\ Entered(c))
  BY <1>1, <1>6, PushFacts
<1>8. ASSUME NEW s
      PROVE  Cardinality(Open(stack, s)') =
               Cardinality(Open(stack, s)) - Unit(Top.slot = s /\ Entered(Top))
                                          + Unit(f.slot = s /\ Entered(f))
                                          + Unit(c.slot = s /\ Entered(c))
  <2>1. /\ Cardinality(Open(Return, s)) \in Nat
        /\ Cardinality(Open(stack, s)) =
             Cardinality(Open(Return, s)) + Unit(Top.slot = s /\ Entered(Top))
    BY TopFacts, OpenNat
  <2> QED
    BY <1>1, <1>5, <1>7, <2>1 DEF Unit
<1>9. Frames' = {c, f} \cup FramesOf(Return)
  BY <1>1, <1>4, <1>7
<1> QED
  BY <1>2, <1>3, <1>7, <1>8, <1>9

LEMMA PreemptFacts ==
  ASSUME stack \in Seq(Frame), Nested(stack), NEW f \in Frame, stack' = Push(f),
         \A g \in Frames : Below(f, g)
  PROVE  /\ stack' \in Seq(Frame) /\ Nested(stack)' /\ Frames' = {f} \cup Frames
         /\ \A s : Cardinality(Open(stack, s)') =
                     Cardinality(Open(stack, s)) + Unit(f.slot = s /\ Entered(f))
<1>1. stack' = <<f>> \o stack
  BY DEF Push
<1>2. Nested(stack)' <=> Nested(<<f>> \o stack)
  BY <1>1 DEF Nested
<1>3. Frames' = FramesOf(<<f>> \o stack)
  BY <1>1 DEF Frames, FramesOf
<1>4. ASSUME NEW s
      PROVE  Open(stack, s)' = Open(<<f>> \o stack, s)
  BY <1>1 DEF Open
<1> QED
  BY <1>1, <1>2, <1>3, <1>4, PushFacts DEF Frames

-----------------------------------------------------------------------------
(* The stages in the order of the chain.                                   *)
LEMMA Stages ==
  /\ Stage = {"AllocRing", "ConfigureInterface", "FindBulkInPipe", "AllocReadBuffer", Reading}
  /\ StageAfter("AllocRing") = "ConfigureInterface"
  /\ StageAfter("ConfigureInterface") = "FindBulkInPipe"
  /\ StageAfter("FindBulkInPipe") = "AllocReadBuffer"
  /\ StageAfter("AllocReadBuffer") = Reading
<1>1. /\ Chain[1] = "AllocRing" /\ Chain[2] = "ConfigureInterface"
      /\ Chain[3] = "FindBulkInPipe" /\ Chain[4] = "AllocReadBuffer" /\ Chain[5] = Reading
  BY DEF Chain, Reading
<1>2. 1..5 = {1, 2, 3, 4, 5} /\ 2..5 = {2, 3, 4, 5}
  OBVIOUS
<1>3. Stage = {Chain[1], Chain[2], Chain[3], Chain[4], Chain[5]}
  BY <1>2 DEF Stage
<1>4. \A stage : \A j \in 2..5 :
        /\ Chain[j - 1] = stage
        /\ \A k \in 2..5 : Chain[k - 1] = stage => k = j
        => StageAfter(stage) = Chain[j]
  BY DEF StageAfter
<1>5. \A k \in 2..5 : /\ Chain[k - 1] = "AllocRing" => k = 2
                      /\ Chain[k - 1] = "ConfigureInterface" => k = 3
                      /\ Chain[k - 1] = "FindBulkInPipe" => k = 4
                      /\ Chain[k - 1] = "AllocReadBuffer" => k = 5
  BY <1>1, <1>2 DEF Reading
<1>6. Chain[2 - 1] = "AllocRing" /\ Chain[3 - 1] = "ConfigureInterface"
      /\ Chain[4 - 1] = "FindBulkInPipe" /\ Chain[5 - 1] = "AllocReadBuffer"
  BY <1>1
<1>7. 2 \in 2..5 /\ 3 \in 2..5 /\ 4 \in 2..5 /\ 5 \in 2..5
  OBVIOUS
<1> QED
  BY <1>1, <1>3, <1>4, <1>5, <1>6, <1>7

(* An instance that a step leaves alone keeps its part of the invariant.   *)
LEMMA OtherSlot ==
  ASSUME NEW x \in Slots, SlotInv(x),
         inst'[x] = inst[x], usl'[x] = usl[x], x < count <=> x < count',
         FramesOn(x)' = FramesOn(x),
         PipeGone(x) => PipeGone(x)', BeingMarked(x) => BeingMarked(x)',
         Cardinality(Open(stack, x)') = Cardinality(Open(stack, x))
  PROVE  SlotInv(x)' /\ (Handed(x)' <=> Handed(x))
<1>1. ASSUME NEW f \in FramesOn(x)
      PROVE  f.slot = x /\ (Owes(f)' <=> Owes(f))
  BY DEF FramesOn, OnSlot, Owes
<1>2. HasCompletion(x)' <=> HasCompletion(x)
  BY DEF HasCompletion
<1>3. CallHeld(x)'
  BY <1>1 DEF SlotInv, CallHeld
<1>4. FramesFind(x)'
  <2>1. ASSUME NEW f \in FramesOn(x), InitiateFinds(f, inst[x])
        PROVE  InitiateFinds(f, inst[x])'
    BY <1>1, <1>2, <2>1 DEF InitiateFinds
  <2> QED
    BY <2>1 DEF SlotInv, FramesFind, CompletionFinds
<1>5. Tokens(x)' /\ FieldsFollowStage(x)' /\ FreeSlot(x)' /\ DepthCounts(x)'
  BY DEF SlotInv, Tokens, FieldsFollowStage, FreeSlot, DepthCounts
<1>6. Controlled(x)'
  <2>1. Driven(x) => Driven(x)'
    BY <1>1 DEF Driven, Acts
  <2> QED
    BY <2>1 DEF SlotInv, Controlled, AtRest
<1>7. RemovedIsSilent(x)'
  BY DEF SlotInv, RemovedIsSilent, Silent
<1>8. Handed(x)' <=> Handed(x)
  BY <1>1, <1>2 DEF Handed
<1> QED
  BY <1>3, <1>4, <1>5, <1>6, <1>7, <1>8 DEF SlotInv

-----------------------------------------------------------------------------
(* A set that changes in one element at most.                              *)
LEMMA CardStep ==
  ASSUME NEW A, NEW B, NEW s, IsFiniteSet(A), \A x : x # s => (x \in B <=> x \in A)
  PROVE  /\ IsFiniteSet(B) /\ Cardinality(A) \in Nat /\ Cardinality(B) \in Nat
         /\ Cardinality(B) + Unit(s \in A) = Cardinality(A) + Unit(s \in B)
<1>1. Cardinality(A) \in Nat
  BY FS_CardinalityType
<1>2. CASE s \in A <=> s \in B
  <2>1. A = B
    BY <1>2
  <2> QED
    BY <1>1, <2>1
<1>3. CASE s \in A /\ s \notin B
  <2>1. B = A \ {s}
    BY <1>3
  <2>2. IsFiniteSet(B) /\ Cardinality(B) = Cardinality(A) - 1
    BY <1>3, <2>1, FS_RemoveElement
  <2> QED
    BY <1>1, <1>3, <2>2, FS_CardinalityType DEF Unit
<1>4. CASE s \notin A /\ s \in B
  <2>1. B = A \cup {s}
    BY <1>4
  <2>2. IsFiniteSet(B) /\ Cardinality(B) = Cardinality(A) + 1
    BY <1>4, <2>1, FS_AddElement
  <2> QED
    BY <1>1, <1>4, <2>2, FS_CardinalityType DEF Unit
<1> QED
  BY <1>2, <1>3, <1>4

(* The three sets that HeapCounts counts are finite.                       *)
LEMMA HeldFinite ==
  ASSUME TypeOK
  PROVE  IsFiniteSet(RingsHeld) /\ IsFiniteSet(BuffersHeld) /\ IsFiniteSet(BlocksHanded)
<1>1. IsFiniteSet(Slots)
  BY RegistryAssumption, FS_Interval DEF Slots
<1>2. RingsHeld \subseteq Slots /\ BuffersHeld \subseteq Slots /\ BlocksHanded \subseteq Slots
  BY DEF RingsHeld, BuffersHeld, BlocksHanded, Live
<1> QED
  BY <1>1, <1>2, FS_Subset

(* The blocks of one instance, and the heap after a step that touches only *)
(* that instance.                                                          *)
Owned(s) == Unit(s \in RingsHeld) + Unit(s \in BuffersHeld) + Unit(s \in BlocksHanded)

(* Blocks counted before and after a step, and one instance's share: the   *)
(* other blocks stay.                                                      *)
Balanced(x, x1, u, u1) ==
  x \in Nat /\ x1 \in Nat /\ u \in Nat /\ u1 \in Nat /\ x1 + u = x + u1

LEMMA BalanceSum ==
  ASSUME NEW x, NEW x1, NEW u, NEW u1, NEW y, NEW y1, NEW v, NEW v1,
         Balanced(x, x1, u, u1), Balanced(y, y1, v, v1)
  PROVE  Balanced(x + y, x1 + y1, u + v, u1 + v1)
BY DEF Balanced

LEMMA BalanceEnd ==
  ASSUME NEW x, NEW x1, NEW u, NEW u1, NEW h1 \in Nat,
         Balanced(x, x1, u, u1), h1 + u = x + u1
  PROVE  h1 = x1
BY DEF Balanced

LEMMA HeapStep ==
  ASSUME TypeOK, HeapCounts, heap' \in Nat, NEW s \in Slots,
         \A x \in Slots : x # s =>
           /\ inst'[x] = inst[x] /\ (x < count <=> x < count')
           /\ Handed(x)' <=> Handed(x),
         heap' + Owned(s) = heap + Owned(s)'
  PROVE  HeapCounts'
<1>1. /\ \A x : x # s => (x \in RingsHeld' <=> x \in RingsHeld)
      /\ \A x : x # s => (x \in BuffersHeld' <=> x \in BuffersHeld)
      /\ \A x : x # s => (x \in BlocksHanded' <=> x \in BlocksHanded)
  BY DEF RingsHeld, BuffersHeld, BlocksHanded, Live
<1> DEFINE R == Cardinality(RingsHeld)
           B == Cardinality(BuffersHeld)
           H == Cardinality(BlocksHanded)
           r == Unit(s \in RingsHeld)
           b == Unit(s \in BuffersHeld)
           h == Unit(s \in BlocksHanded)
<1>2. Balanced(R, R', r, r') /\ Balanced(B, B', b, b') /\ Balanced(H, H', h, h')
  BY <1>1, HeldFinite, CardStep DEF Unit, Balanced
<1>3. heap = (R + B) + H /\ heap' + ((r + b) + h) = heap + ((r' + b') + h')
  BY DEF HeapCounts, Owned
<1> HIDE DEF R, B, H, r, b, h
<1>4. Balanced(R + B, R' + B', r + b, r' + b')
  BY <1>2, BalanceSum
<1>5. Balanced((R + B) + H, (R' + B') + H', (r + b) + h, (r' + b') + h')
  BY <1>2, <1>4, BalanceSum
<1>6. heap' = (R' + B') + H'
  BY <1>3, <1>5, BalanceEnd
<1> QED
  BY <1>6 DEF HeapCounts, R, B, H

-----------------------------------------------------------------------------
(* A step of the machine of instance s changes that instance, its call, the *)
(* heap and frames of that machine, and nothing else.                      *)
StepOn(s, r, calls) ==
  /\ s \in Slots /\ r \in Instance /\ calls \in Seq(Call)
  /\ count' = count /\ expert' = expert /\ heap' \in Nat
  /\ inst' = [inst EXCEPT ![s] = r] /\ usl' = [usl EXCEPT ![s] = calls]
  /\ r.removing = inst[s].removing /\ r.hook = inst[s].hook
FramesStepOn(s) ==
  /\ stack' \in Seq(Frame) /\ Nested(stack)'
  /\ \A f : ~OnSlot(f, s) => (f \in Frames' <=> f \in Frames)
  /\ \A x : x # s => Cardinality(Open(stack, x)') = Cardinality(Open(stack, x))

(* What remains to show of it is the part of the invariant about s and its *)
(* share of the heap.                                                      *)
LEMMA MachineStep ==
  ASSUME IInv, NEW s, NEW r, NEW calls, StepOn(s, r, calls), FramesStepOn(s),
         FramesOn(s) # {} \/ usl[s] # <<>>,
         SlotInv(s)',
         heap' + Blocks(inst[s]) + Unit(inst[s].stage \in AllocStage /\ Handed(s))
           = heap + Blocks(r) + Unit(r.stage \in AllocStage /\ Handed(s)')
  PROVE  IInv'
<1> USE DEF StepOn, FramesStepOn
<1>1. /\ TypeOK /\ count \in Nat /\ s < count
      /\ inst'[s] = r /\ usl'[s] = calls
      /\ \A x \in Slots : x # s => inst'[x] = inst[x] /\ usl'[x] = usl[x]
  <2>1. s < count
    BY DEF IInv, SlotInv, CallHeld, FramesFind
  <2> QED
    BY <2>1 DEF IInv, TypeOK
<1>2. TypeOK'
  BY <1>1 DEF TypeOK
<1>3. Notifies' = Notifies /\ \A x : x # s => FramesOn(x)' = FramesOn(x)
  BY DEF Notifies, FramesOn, OnSlot
<1>4. ASSUME NEW x \in Slots, x # s
      PROVE  SlotInv(x)' /\ (Handed(x)' <=> Handed(x))
  <2>1. SlotInv(x)
    BY DEF IInv
  <2>2. PipeGone(x) => PipeGone(x)'
    BY <1>3 DEF PipeGone
  <2>3. BeingMarked(x) => BeingMarked(x)'
    BY <1>3 DEF BeingMarked
  <2> QED
    BY <1>1, <1>3, <1>4, <2>1, <2>2, <2>3, OtherSlot
<1>5. ASSUME NEW x \in Slots
      PROVE  (Marked(x)' <=> Marked(x)) /\ (Quiet(x) => x # s /\ Quiet(x)')
  <2>1. Marked(x)' <=> Marked(x)
    BY <1>1 DEF Marked
  <2>2. ~Quiet(s)
    BY DEF Quiet, FramesOn
  <2>3. x # s /\ Quiet(x) => Quiet(x)'
    BY <1>1, <1>3 DEF Quiet
  <2> QED
    BY <2>1, <2>2, <2>3
<1>6. NotifyPass'
  <2> SUFFICES ASSUME NEW f \in Notifies
               PROVE  NotifyFinds(f)'
    BY <1>3 DEF NotifyPass
  <2>1. NotifyFinds(f) /\ f \in Frame /\ f.proc = "Notify"
    <3>1. Frames \subseteq Frame
      BY <1>1 DEF Frames, FramesOf, TypeOK
    <3> QED
      BY <3>1 DEF IInv, NotifyPass, Notifies
  <2>2. f.slot \in Nat /\ (f.at # "mark" => f.slot \in Slots)
    BY <1>1, <2>1, RegistryAssumption DEF Frame, NotifyFinds, Slots, TypeOK
  <2>3. f.at = "clear" => f.slot # s
    BY <2>1 DEF NotifyFinds, FramesOn
  <2>4. f.at = "clear" => usl'[f.slot] = <<>> /\ FramesOn(f.slot)' = {}
    BY <1>1, <1>3, <2>1, <2>2, <2>3 DEF NotifyFinds
  <2>5. /\ f.at # "mark" => f.slot < count' /\ inst'[f.slot].removing
        /\ f.at \notin {"mark", "hook"} => Marked(f.slot)'
    BY <1>5, <2>1, <2>2 DEF NotifyFinds
  <2> QED
    BY <1>5, <2>1, <2>4, <2>5 DEF NotifyFinds
<1>7. Drained'
  BY <1>1, <1>5 DEF IInv, Drained, Live
<1>8. HeapCounts'
  <2>1. Owned(s) = Blocks(inst[s]) + Unit(inst[s].stage \in AllocStage /\ Handed(s))
    BY <1>1 DEF Owned, RingsHeld, BuffersHeld, BlocksHanded, Live, Blocks, Unit
  <2>2. Owned(s)' = Blocks(r) + Unit(r.stage \in AllocStage /\ Handed(s)')
    BY <1>1 DEF Owned, RingsHeld, BuffersHeld, BlocksHanded, Live, Blocks, Unit
  <2>3. heap \in Nat /\ Owned(s) \in Nat /\ Owned(s)' \in Nat
    BY <1>1 DEF TypeOK, Owned, Unit
  <2>4. heap' + Owned(s) = heap + Owned(s)'
    <3> DEFINE u == Unit(inst[s].stage \in AllocStage /\ Handed(s))
               v == Unit(r.stage \in AllocStage /\ Handed(s)')
    <3>1. u \in Nat /\ v \in Nat /\ Blocks(inst[s]) \in Nat /\ Blocks(r) \in Nat
      BY DEF Unit, Blocks
    <3>2. heap' + Blocks(inst[s]) + u = heap + Blocks(r) + v
      OBVIOUS
    <3>3. Owned(s) = Blocks(inst[s]) + u /\ Owned(s)' = Blocks(r) + v
      BY <2>1, <2>2
    <3> HIDE DEF u, v
    <3> QED
      BY <2>3, <3>1, <3>2, <3>3
  <2> QED
    BY <1>1, <1>4, <2>4, HeapStep DEF IInv
<1> QED
  BY <1>2, <1>4, <1>6, <1>7, <1>8 DEF IInv

(* What the running frame of a machine and those below it find.            *)
Lower(s) == {g \in FramesOf(Return) : OnSlot(g, s)}

LEMMA OnTop ==
  ASSUME IInv, stack # <<>>, NEW f, f = Top, f.proc # "Notify", NEW s, s = f.slot
  PROVE  /\ f \in Frame /\ s \in Slots /\ s < count /\ OnSlot(f, s)
         /\ count \in Nat /\ inst[s] \in Instance /\ usl[s] \in Seq(Call) /\ heap \in Nat
         /\ stack \in Seq(Frame) /\ Nested(stack)
         /\ Frames = {f} \cup FramesOf(Return) /\ FramesOn(s) = {f} \cup Lower(s)
         /\ \A g \in FramesOf(Return) : g \in Frame /\ Below(f, g)
         /\ \A g \in Lower(s) :
              /\ g \in Frame /\ g.proc = "Initiate" /\ g.at # "enter" /\ g.slot = s
              /\ g.token \in 1..inst[s].token /\ (g.at = "returned" => g.err # "none")
              /\ Entered(f) => g.token # f.token
         /\ f.proc = "Initiate" => InitiateFinds(f, inst[s])
         /\ f.proc = "Completion" => CompletionFinds(f, inst[s])
         /\ ~Entered(f) \/ Owes(f) => usl[s] = <<>>
<1>1. /\ TypeOK /\ stack \in Seq(Frame) /\ Nested(stack)
      /\ f \in Frame /\ Frames = {f} \cup FramesOf(Return)
      /\ \A g \in FramesOf(Return) : g \in Frame /\ Below(f, g)
  <2>1. TypeOK /\ stack \in Seq(Frame) /\ Nested(stack)
    BY DEF IInv, TypeOK
  <2> QED
    BY <2>1, TopFacts
<1>2. s \in Slots /\ OnSlot(f, s)
  BY <1>1 DEF Frame, OnSlot
<1>3. FramesOn(s) = {f} \cup Lower(s)
  BY <1>1, <1>2 DEF FramesOn, Lower
<1>4. /\ s < count
      /\ f.proc = "Initiate" => InitiateFinds(f, inst[s])
      /\ f.proc = "Completion" => CompletionFinds(f, inst[s])
      /\ \A g \in Lower(s) : g.proc = "Initiate" => InitiateFinds(g, inst[s])
  BY <1>2, <1>3 DEF IInv, SlotInv, FramesFind
<1>5. ASSUME NEW g \in Lower(s)
      PROVE  /\ g \in Frame /\ g.proc = "Initiate" /\ g.at # "enter" /\ g.slot = s
             /\ Entered(f) => g.token # f.token
  BY <1>1, <1>5 DEF Lower, OnSlot, Below, Entered
<1>6. ASSUME NEW g \in Lower(s)
      PROVE  g.token \in 1..inst[s].token /\ (g.at = "returned" => g.err # "none")
  BY <1>4, <1>5 DEF InitiateFinds
<1>7. ~Entered(f) \/ Owes(f) => usl[s] = <<>>
  BY <1>2, <1>3 DEF IInv, SlotInv, CallHeld
<1>8. count \in Nat /\ inst[s] \in Instance /\ usl[s] \in Seq(Call) /\ heap \in Nat
  BY <1>1, <1>2 DEF TypeOK
<1> QED
  BY <1>1, <1>2, <1>3, <1>4, <1>5, <1>6, <1>7, <1>8

(* The stack of a machine step: the running frame returns, goes on, or     *)
(* calls the completion routine.                                           *)
LEMMA ReturnStep ==
  ASSUME IInv, stack # <<>>, NEW f, f = Top, f.proc # "Notify", NEW s, s = f.slot,
         stack' = Return
  PROVE  /\ FramesStepOn(s) /\ FramesOn(s)' = Lower(s)
         /\ Cardinality(Open(stack, s)') = Cardinality(Open(stack, s)) - Unit(Entered(f))
<1>1. /\ stack \in Seq(Frame) /\ Nested(stack) /\ OnSlot(f, s)
      /\ Frames = {f} \cup FramesOf(Return)
  BY OnTop
<1>2. /\ stack' \in Seq(Frame) /\ Nested(stack)' /\ Frames' = FramesOf(Return)
      /\ \A x : Cardinality(Open(stack, x)') =
                  Cardinality(Open(stack, x)) - Unit(f.slot = x /\ Entered(f))
  BY <1>1, ReturnFacts
<1>3. FramesOn(s)' = Lower(s)
  BY <1>2 DEF FramesOn, Lower
<1> QED
  BY <1>1, <1>2, <1>3, OpenNat DEF FramesStepOn, Unit

LEMMA ReplaceStep ==
  ASSUME IInv, stack # <<>>, NEW f, f = Top, f.proc # "Notify", NEW s, s = f.slot,
         NEW n \in Frame, OnSlot(n, s), stack' = Replace(n),
         Entered(n) => \A g \in Lower(s) : n.token # g.token
  PROVE  /\ FramesStepOn(s) /\ FramesOn(s)' = {n} \cup Lower(s)
         /\ Cardinality(Open(stack, s)') =
              Cardinality(Open(stack, s)) - Unit(Entered(f)) + Unit(Entered(n))
<1>1. /\ stack \in Seq(Frame) /\ Nested(stack) /\ OnSlot(f, s)
      /\ Frames = {f} \cup FramesOf(Return)
      /\ \A g \in Lower(s) : Entered(g)
  BY OnTop DEF Entered
<1>2. \A g \in FramesOf(Return) : Below(n, g)
  BY <1>1 DEF Below, OnSlot, Lower
<1>3. /\ stack' \in Seq(Frame) /\ Nested(stack)' /\ Frames' = {n} \cup FramesOf(Return)
      /\ \A x : Cardinality(Open(stack, x)') =
                  Cardinality(Open(stack, x)) - Unit(f.slot = x /\ Entered(f))
                                             + Unit(n.slot = x /\ Entered(n))
  BY <1>1, <1>2, ReplaceFacts
<1>4. FramesOn(s)' = {n} \cup Lower(s)
  BY <1>3 DEF FramesOn, Lower
<1> QED
  BY <1>1, <1>3, <1>4, OpenNat DEF FramesStepOn, Unit, OnSlot

LEMMA CallStep ==
  ASSUME IInv, stack # <<>>, NEW f, f = Top, f.proc # "Notify", NEW s, s = f.slot,
         NEW c \in Frame, OnSlot(c, s), ~Entered(c), NEW n \in Frame, OnSlot(n, s), Entered(n),
         stack' = <<c>> \o Replace(n),
         \A g \in Lower(s) : n.token # g.token
  PROVE  /\ FramesStepOn(s) /\ FramesOn(s)' = {c, n} \cup Lower(s)
         /\ Cardinality(Open(stack, s)') =
              Cardinality(Open(stack, s)) - Unit(Entered(f)) + 1
<1>1. /\ stack \in Seq(Frame) /\ Nested(stack) /\ OnSlot(f, s)
      /\ Frames = {f} \cup FramesOf(Return)
      /\ \A g \in Lower(s) : Entered(g)
  BY OnTop DEF Entered
<1>2. Below(c, n) /\ \A g \in FramesOf(Return) : Below(n, g) /\ Below(c, g)
  BY <1>1 DEF Below, OnSlot, Lower
<1>3. /\ stack' \in Seq(Frame) /\ Nested(stack)' /\ Frames' = {c, n} \cup FramesOf(Return)
      /\ \A x : Cardinality(Open(stack, x)') =
                  Cardinality(Open(stack, x)) - Unit(f.slot = x /\ Entered(f))
                                             + Unit(n.slot = x /\ Entered(n))
                                             + Unit(c.slot = x /\ Entered(c))
  BY <1>1, <1>2, CallFacts
<1>4. FramesOn(s)' = {c, n} \cup Lower(s)
  BY <1>3 DEF FramesOn, Lower
<1> QED
  BY <1>1, <1>3, <1>4, OpenNat DEF FramesStepOn, Unit, OnSlot

-----------------------------------------------------------------------------
(* The steps of the machine, one lemma for each.                           *)
LEMMA InitiateRefusedStep ==
  ASSUME Contract, IInv, InitiateRefused
  PROVE  IInv'
<1> PICK f : f = Top
  OBVIOUS
<1> PICK s : s = f.slot
  OBVIOUS
<1> PICK r : r = Stop(inst[s])
  OBVIOUS
<1>1. /\ stack # <<>> /\ f.proc = "Initiate" /\ f.at = "enter"
      /\ inst' = [inst EXCEPT ![s] = r] /\ stack' = Return
      /\ count' = count /\ usl' = usl /\ heap' = heap /\ expert' = expert
  BY DEF InitiateRefused, Running, Top
<1>2. /\ f \in Frame /\ s \in Slots /\ s < count /\ OnSlot(f, s) /\ ~Entered(f)
      /\ inst[s] \in Instance /\ usl[s] = <<>> /\ usl[s] \in Seq(Call) /\ heap \in Nat
      /\ FramesOn(s) = {f} \cup Lower(s) /\ InitiateFinds(f, inst[s])
  BY <1>1, OnTop DEF Entered
<1>3. ASSUME NEW g \in Lower(s)
      PROVE  /\ g.proc = "Initiate" /\ g.at # "enter" /\ g.slot = s
             /\ g.token \in 1..inst[s].token /\ (g.at = "returned" => g.err # "none")
  BY <1>1, OnTop
<1>4. /\ r \in Instance /\ r.token = inst[s].token /\ r.inFlight = 0 /\ inst[s].inFlight = 0
      /\ r.removing = inst[s].removing /\ r.hook = inst[s].hook /\ r.iface = inst[s].iface
      /\ r.stage = "AllocRing" /\ r.stopped /\ ~r.pending /\ r.depth = inst[s].depth
      /\ r.ring = inst[s].ring /\ r.readBuffer = inst[s].readBuffer
  BY <1>1, <1>2, Stages DEF Stop, Instance, InitiateFinds
<1>5. StepOn(s, r, <<>>) /\ inst'[s] = r /\ usl'[s] = <<>>
  BY <1>1, <1>2, <1>4 DEF StepOn, IInv, TypeOK
<1>6. /\ FramesStepOn(s) /\ FramesOn(s)' = Lower(s)
      /\ Cardinality(Open(stack, s)') = Cardinality(Open(stack, s))
  BY <1>1, <1>2, ReturnStep, OnTop, OpenNat DEF Unit
<1>7. ASSUME NEW g \in Lower(s)
      PROVE  ~Owes(g) /\ ~Owes(g)'
  BY <1>3, <1>4, <1>5 DEF Owes
<1>8. SlotInv(s)'
  <2>1. CallHeld(s)'
    BY <1>5 DEF CallHeld
  <2>2. FramesFind(s)'
    BY <1>1, <1>2, <1>3, <1>4, <1>5, <1>6, <1>7 DEF FramesFind, InitiateFinds
  <2>3. Tokens(s)' /\ FreeSlot(s)' /\ FieldsFollowStage(s)'
    BY <1>1, <1>2, <1>4, <1>5 DEF IInv, SlotInv, Tokens, FreeSlot, FieldsFollowStage
  <2>4. Controlled(s)'
    BY <1>4, <1>5 DEF Controlled, AtRest
  <2>5. RemovedIsSilent(s)'
    BY <1>4, <1>5 DEF RemovedIsSilent, Silent, Reading
  <2>6. DepthCounts(s)'
    BY <1>1, <1>2, <1>4, <1>5, <1>6 DEF IInv, SlotInv, DepthCounts
  <2> QED
    BY <2>1, <2>2, <2>3, <2>4, <2>5, <2>6 DEF SlotInv
<1>9. ~Handed(s) /\ ~Handed(s)'
  BY <1>1, <1>2, <1>3, <1>6, <1>7 DEF Handed, HasCompletion, Owes
<1>10. heap' + Blocks(inst[s]) + Unit(inst[s].stage \in AllocStage /\ Handed(s))
         = heap + Blocks(r) + Unit(r.stage \in AllocStage /\ Handed(s)')
  BY <1>1, <1>2, <1>4, <1>9 DEF Blocks, Unit
<1> QED
  BY <1>2, <1>5, <1>6, <1>8, <1>10, MachineStep

(* The token of the next call does not wrap.                               *)
LEMMA NextToken ==
  ASSUME Contract, NEW t \in Nat, t <= MaxCalls
  PROVE  t + 1 \in 0..(TokenModulus - 1) /\ (t + 1) % TokenModulus = t + 1
<1>1. t + 1 \in Nat /\ TokenModulus \in Nat /\ t + 1 < TokenModulus
  BY BoundAssumption DEF Contract
<1>2. \A a, m \in Nat : a < m => a % m = a
  OBVIOUS
<1> QED
  BY <1>1, <1>2

(* A USL call is about to be made: the frame and the instance after it.    *)
LEMMA Issuing ==
  ASSUME Contract, IInv, MayIssue, NEW f, f = Top, NEW s, s = f.slot,
         NEW r, r = Issued(inst[s])
  PROVE  /\ stack # <<>> /\ f.proc = "Initiate" /\ f.at = "enter" /\ f \in Frame
         /\ s \in Slots /\ s < count /\ OnSlot(f, s) /\ ~Entered(f)
         /\ inst[s] \in Instance /\ usl[s] = <<>> /\ usl[s] \in Seq(Call) /\ heap \in Nat
         /\ FramesOn(s) = {f} \cup Lower(s)
         /\ r \in Instance /\ r.token = inst[s].token + 1 /\ r.inFlight = r.token
         /\ r.token <= MaxCalls + 1 /\ r.depth = inst[s].depth + 1
         /\ r.pending /\ ~r.stopped /\ ~r.removing
         /\ r.removing = inst[s].removing /\ r.hook = inst[s].hook
         /\ r.iface = inst[s].iface /\ r.stage = inst[s].stage
         /\ r.ring = inst[s].ring /\ r.pipe = inst[s].pipe /\ r.readBuffer = inst[s].readBuffer
         /\ ~Handed(s)
         /\ \A g \in Lower(s) :
              /\ g.proc = "Initiate" /\ g.at # "enter" /\ g.slot = s
              /\ g.token \in 1..inst[s].token /\ (g.at = "returned" => g.err # "none")
              /\ g.token # r.token
<1>1. /\ stack # <<>> /\ f.proc = "Initiate" /\ f.at = "enter"
      /\ ~inst[s].removing /\ inst[s].depth < MaxSyncDepth
  BY DEF MayIssue, Running, Top
<1>2. /\ f \in Frame /\ s \in Slots /\ s < count /\ OnSlot(f, s) /\ ~Entered(f)
      /\ inst[s] \in Instance /\ usl[s] = <<>> /\ usl[s] \in Seq(Call) /\ heap \in Nat
      /\ FramesOn(s) = {f} \cup Lower(s) /\ InitiateFinds(f, inst[s])
  BY <1>1, OnTop DEF Entered
<1>3. ASSUME NEW g \in Lower(s)
      PROVE  /\ g.proc = "Initiate" /\ g.at # "enter" /\ g.slot = s
             /\ g.token \in 1..inst[s].token /\ (g.at = "returned" => g.err # "none")
  BY <1>1, OnTop
<1>4. /\ inst[s].token \in Nat /\ inst[s].token <= MaxCalls /\ ~inst[s].stopped
      /\ inst[s].inFlight = 0 /\ inst[s].depth \in 0..MaxSyncDepth
  BY <1>1, <1>2 DEF InitiateFinds, Instance
<1>5. /\ inst[s].token + 1 \in 0..(TokenModulus - 1)
      /\ (inst[s].token + 1) % TokenModulus = inst[s].token + 1
      /\ inst[s].depth + 1 \in 0..MaxSyncDepth
  <2>1. /\ inst[s].token + 1 \in 0..(TokenModulus - 1)
        /\ (inst[s].token + 1) % TokenModulus = inst[s].token + 1
    BY <1>4, NextToken
  <2>2. inst[s].depth + 1 \in 0..MaxSyncDepth
    BY <1>1, <1>4, BoundAssumption
  <2> QED
    BY <2>1, <2>2
<1>6. /\ r \in Instance /\ r.token = inst[s].token + 1 /\ r.inFlight = r.token
      /\ r.token <= MaxCalls + 1 /\ r.depth = inst[s].depth + 1
      /\ r.pending /\ ~r.stopped /\ ~r.removing
      /\ r.removing = inst[s].removing /\ r.hook = inst[s].hook
      /\ r.iface = inst[s].iface /\ r.stage = inst[s].stage
      /\ r.ring = inst[s].ring /\ r.pipe = inst[s].pipe /\ r.readBuffer = inst[s].readBuffer
  <2>1. r = [inst[s] EXCEPT !.depth = @ + 1, !.token = inst[s].token + 1,
                            !.inFlight = inst[s].token + 1, !.pending = TRUE]
    BY <1>5 DEF Issued
  <2>2. inst[s].token + 1 \in 0..(TokenModulus - 1) /\ inst[s].depth + 1 \in 0..MaxSyncDepth
    BY <1>5
  <2>3. inst[s].token + 1 <= MaxCalls + 1
    BY <1>4, BoundAssumption
  <2>4. r \in Instance
    BY <1>2, <2>1, <2>2 DEF Instance
  <2> QED
    BY <1>1, <1>2, <1>4, <2>1, <2>3, <2>4 DEF Instance
<1>7. ~Handed(s)
  BY <1>1, <1>2, <1>3, <1>4 DEF Handed, HasCompletion, Owes
<1>8. \A g \in Lower(s) : g.token # r.token
  BY <1>3, <1>4, <1>6
<1> QED
  BY <1>1, <1>2, <1>3, <1>6, <1>7, <1>8

LEMMA AfterCallFacts ==
  ASSUME NEW f \in Frame, f = Top, f.proc = "Initiate", NEW r \in Instance,
         NEW before, Issued(before) = r,
         NEW err \in {"pending", "ok", "error"}
  PROVE  LET n == AfterCall(before, err) IN
         /\ n \in Frame /\ OnSlot(n, f.slot) /\ Entered(n) /\ n.proc = "Initiate"
         /\ n.at = "returned" /\ n.token = r.token /\ n.err = err /\ n.slot = f.slot
<1>1. AfterCall(before, err) = [f EXCEPT !.at = "returned", !.token = r.token, !.err = err]
  BY DEF AfterCall
<1>2. r.token \in 0..(TokenModulus - 1)
  BY DEF Instance
<1> QED
  BY <1>1, <1>2, ZenonT(30) DEF Frame, OnSlot, Entered

(* The parts of the invariant that hold whatever the USL answers.          *)
LEMMA IssuedSlot ==
  ASSUME Contract, IInv, MayIssue, NEW s, s = Top.slot, NEW r, r = Issued(inst[s]),
         inst'[s] = r, count' = count,
         Cardinality(Open(stack, s)') = Cardinality(Open(stack, s)) + 1
  PROVE  /\ Tokens(s)' /\ FreeSlot(s)' /\ FieldsFollowStage(s)'
         /\ RemovedIsSilent(s)' /\ DepthCounts(s)'
<1>1. /\ s \in Slots /\ s < count /\ inst[s] \in Instance
      /\ r \in Instance /\ r.token <= MaxCalls + 1 /\ r.inFlight = r.token
      /\ r.depth = inst[s].depth + 1 /\ ~r.stopped /\ ~r.removing
      /\ r.iface = inst[s].iface /\ r.stage = inst[s].stage
      /\ r.ring = inst[s].ring /\ r.pipe = inst[s].pipe /\ r.readBuffer = inst[s].readBuffer
      /\ ~inst[s].stopped
  <2>1. r.stopped = inst[s].stopped
    <3>1. s \in Slots /\ inst[s] \in Instance
      BY Issuing
    <3> QED
      BY <3>1 DEF Issued, Instance
  <2> QED
    BY <2>1, Issuing
<1>2. Tokens(s) /\ FieldsFollowStage(s) /\ DepthCounts(s)
  BY <1>1 DEF IInv, SlotInv
<1> QED
  BY <1>1, <1>2 DEF Tokens, FreeSlot, FieldsFollowStage, RemovedIsSilent, DepthCounts

LEMMA IssuePendingStep ==
  ASSUME Contract, IInv, IssuePending
  PROVE  IInv'
<1> PICK f : f = Top
  OBVIOUS
<1> PICK s : s = f.slot
  OBVIOUS
<1> PICK r : r = Issued(inst[s])
  OBVIOUS
<1> PICK n : n = AfterCall(inst[s], "pending")
  OBVIOUS
<1> PICK call : call = [stage |-> inst[s].stage, iface |-> inst[s].iface, aborted |-> FALSE]
  OBVIOUS
<1>1. /\ MayIssue /\ inst' = [inst EXCEPT ![s] = r] /\ stack' = Replace(n)
      /\ usl' = [usl EXCEPT ![s] = Append(usl[s], call)]
      /\ count' = count /\ heap' = heap /\ expert' = expert
  BY DEF IssuePending
<1>2. /\ stack # <<>> /\ f.proc = "Initiate" /\ f.at = "enter" /\ f \in Frame
      /\ s \in Slots /\ s < count /\ OnSlot(f, s) /\ ~Entered(f)
      /\ inst[s] \in Instance /\ usl[s] = <<>> /\ heap \in Nat
      /\ FramesOn(s) = {f} \cup Lower(s)
      /\ r \in Instance /\ r.token = inst[s].token + 1 /\ r.inFlight = r.token
      /\ r.pending /\ ~r.stopped /\ r.iface = inst[s].iface /\ r.stage = inst[s].stage
      /\ r.removing = inst[s].removing /\ r.hook = inst[s].hook
      /\ r.ring = inst[s].ring /\ r.readBuffer = inst[s].readBuffer /\ ~Handed(s)
  BY <1>1, Issuing
<1>3. ASSUME NEW g \in Lower(s)
      PROVE  /\ g.proc = "Initiate" /\ g.at # "enter" /\ g.slot = s
             /\ g.token \in 1..inst[s].token /\ (g.at = "returned" => g.err # "none")
             /\ g.token # r.token
  BY <1>1, Issuing
<1>4. /\ n \in Frame /\ OnSlot(n, s) /\ Entered(n) /\ n.proc = "Initiate" /\ n.slot = s
      /\ n.at = "returned" /\ n.token = r.token /\ n.err = "pending"
  BY <1>2, AfterCallFacts
<1>5. /\ FramesStepOn(s) /\ FramesOn(s)' = {n} \cup Lower(s)
      /\ Cardinality(Open(stack, s)') = Cardinality(Open(stack, s)) + 1
  BY <1>1, <1>2, <1>3, <1>4, ReplaceStep, OnTop, OpenNat DEF Unit
<1>6. /\ <<call>> \in Seq(Call) /\ <<call>> # <<>> /\ Len(<<call>>) = 1 /\ <<call>>[1] = call
      /\ Append(usl[s], call) = <<call>>
      /\ call.stage = r.stage /\ call.iface = r.iface
  <2>1. inst[s].iface \in Interfaces
    BY <1>2 DEF IInv, SlotInv, Tokens
  <2> QED
    BY <1>2, <2>1 DEF Call, Instance
<1>7. StepOn(s, r, <<call>>) /\ inst'[s] = r /\ usl'[s] = <<call>>
  BY <1>1, <1>2, <1>6 DEF StepOn, IInv, TypeOK
<1>8. ASSUME NEW g \in FramesOn(s)'
      PROVE  ~Owes(g)' /\ Entered(g)
  BY <1>2, <1>3, <1>4, <1>5, <1>7 DEF Owes, Entered
<1>9. SlotInv(s)'
  <2>1. CallHeld(s)'
    BY <1>1, <1>2, <1>6, <1>7, <1>8 DEF CallHeld
  <2>2. FramesFind(s)'
    BY <1>1, <1>2, <1>3, <1>4, <1>5, <1>7, <1>8 DEF FramesFind, InitiateFinds, Instance
  <2>3. Controlled(s)'
    BY <1>6, <1>7 DEF Controlled
  <2> QED
    BY <1>1, <1>5, <1>7, <2>1, <2>2, <2>3, IssuedSlot DEF SlotInv
<1>10. ~Handed(s)'
  BY <1>8 DEF Handed, HasCompletion, Entered
<1>11. heap' + Blocks(inst[s]) + Unit(inst[s].stage \in AllocStage /\ Handed(s))
         = heap + Blocks(r) + Unit(r.stage \in AllocStage /\ Handed(s)')
  BY <1>1, <1>2, <1>10 DEF Blocks, Unit
<1> QED
  BY <1>2, <1>5, <1>7, <1>9, <1>11, MachineStep

(* The USL refuses the call, or finishes it, without a completion.         *)
LEMMA IssueUnreportedStep ==
  ASSUME Contract, IInv, IssueError \/ IssueDone
  PROVE  IInv'
<1> PICK f : f = Top
  OBVIOUS
<1> PICK s : s = f.slot
  OBVIOUS
<1> PICK r : r = Issued(inst[s])
  OBVIOUS
<1> PICK err \in {"error", "ok"} :
      /\ MayIssue /\ inst' = [inst EXCEPT ![s] = r]
      /\ stack' = Replace(AfterCall(inst[s], err))
      /\ count' = count /\ usl' = usl /\ expert' = expert
      /\ heap' = heap + Unit(inst[s].stage \in AllocStage /\ err = "ok")
      /\ err = "ok" => inst[s].token < MaxCalls
  <2>1. CASE IssueError
    <3>1. /\ MayIssue /\ inst' = [inst EXCEPT ![s] = r]
          /\ stack' = Replace(AfterCall(inst[s], "error"))
          /\ count' = count /\ usl' = usl /\ expert' = expert /\ heap' = heap
      BY <2>1 DEF IssueError
    <3>2. heap' = heap + Unit(inst[s].stage \in AllocStage /\ "error" = "ok")
      BY <3>1 DEF Unit, IInv, TypeOK
    <3> QED
      BY <3>1, <3>2
  <2>2. CASE IssueDone
    <3>1. /\ MayIssue /\ inst' = [inst EXCEPT ![s] = r]
          /\ stack' = Replace(AfterCall(inst[s], "ok"))
          /\ count' = count /\ usl' = usl /\ expert' = expert
          /\ heap' = heap + BlockFor(inst[s].stage, "ok") /\ inst[s].token < MaxCalls
      BY <2>2 DEF IssueDone
    <3>2. heap' = heap + Unit(inst[s].stage \in AllocStage /\ "ok" = "ok")
      BY <3>1 DEF Unit, BlockFor
    <3> QED
      BY <3>1, <3>2
  <2> QED
    BY <2>1, <2>2
<1> PICK n : n = AfterCall(inst[s], err)
  OBVIOUS
<1>1. /\ stack # <<>> /\ f.proc = "Initiate" /\ f.at = "enter" /\ f \in Frame
      /\ s \in Slots /\ s < count /\ OnSlot(f, s) /\ ~Entered(f)
      /\ inst[s] \in Instance /\ usl[s] = <<>> /\ usl[s] \in Seq(Call) /\ heap \in Nat
      /\ FramesOn(s) = {f} \cup Lower(s)
      /\ r \in Instance /\ r.token = inst[s].token + 1 /\ r.inFlight = r.token
      /\ r.pending /\ ~r.stopped /\ r.stage = inst[s].stage
      /\ r.removing = inst[s].removing /\ r.hook = inst[s].hook
      /\ r.ring = inst[s].ring /\ r.readBuffer = inst[s].readBuffer /\ ~Handed(s)
  BY Issuing
<1>2. ASSUME NEW g \in Lower(s)
      PROVE  /\ g.proc = "Initiate" /\ g.at # "enter" /\ g.slot = s
             /\ g.token \in 1..inst[s].token /\ (g.at = "returned" => g.err # "none")
             /\ g.token # r.token
  BY Issuing
<1>3. /\ n \in Frame /\ OnSlot(n, s) /\ Entered(n) /\ n.proc = "Initiate" /\ n.slot = s
      /\ n.at = "returned" /\ n.token = r.token /\ n.err = err
  BY <1>1, AfterCallFacts
<1>4. /\ FramesStepOn(s) /\ FramesOn(s)' = {n} \cup Lower(s)
      /\ Cardinality(Open(stack, s)') = Cardinality(Open(stack, s)) + 1
  BY <1>1, <1>2, <1>3, ReplaceStep, OnTop, OpenNat DEF Unit
<1>5. StepOn(s, r, <<>>) /\ inst'[s] = r /\ usl'[s] = <<>>
  <2>1. heap' \in Nat
    BY <1>1 DEF Unit
  <2> QED
    BY <1>1, <2>1 DEF StepOn, IInv, TypeOK
<1>6. /\ Owes(n)' /\ ~HasCompletion(s)'
      /\ \A g \in Lower(s) : ~Owes(g)' /\ Entered(g)
  BY <1>1, <1>2, <1>3, <1>4, <1>5 DEF Owes, Entered, HasCompletion
<1>7. SlotInv(s)'
  <2>1. CallHeld(s)'
    BY <1>5 DEF CallHeld
  <2>2. FramesFind(s)'
    <3>1. err = "ok" => r.token <= MaxCalls
      <4>1. inst[s].token \in Nat
        BY <1>1 DEF Instance
      <4>2. err = "ok" => inst[s].token < MaxCalls
        OBVIOUS
      <4> QED
        BY <1>1, <4>1, <4>2, BoundAssumption
    <3>2. n.token \in 1..r.token
      BY <1>1, <1>3 DEF Instance
    <3>3. \A g \in Lower(s) : g.token \in 1..r.token
      BY <1>1, <1>2 DEF Instance
    <3> QED
      BY <1>1, <1>2, <1>3, <1>4, <1>5, <1>6, <3>1, <3>2, <3>3 DEF FramesFind, InitiateFinds
  <2>3. Controlled(s)'
    BY <1>4, <1>6 DEF Controlled, Driven
  <2> QED
    BY <1>4, <1>5, <2>1, <2>2, <2>3, IssuedSlot DEF SlotInv
<1>8. Handed(s)' <=> err = "ok"
  BY <1>3, <1>4, <1>6 DEF Handed, HasCompletion
<1>9. heap' + Blocks(inst[s]) + Unit(inst[s].stage \in AllocStage /\ Handed(s))
        = heap + Blocks(r) + Unit(r.stage \in AllocStage /\ Handed(s)')
  BY <1>1, <1>8 DEF Blocks, Unit
<1> QED
  BY <1>1, <1>4, <1>5, <1>7, <1>9, MachineStep

(* The USL runs the completion inside the call.                            *)
LEMMA IssueCompletesInsideStep ==
  ASSUME Contract, IInv, NEW status \in ReadStatus, NEW err \in {"ok", "pending"},
         IssueCompletesInside(status, err)
  PROVE  IInv'
<1> PICK f : f = Top
  OBVIOUS
<1> PICK s : s = f.slot
  OBVIOUS
<1> PICK r : r = Issued(inst[s])
  OBVIOUS
<1> PICK n : n = AfterCall(inst[s], err)
  OBVIOUS
<1> PICK c : c = Complete(s, f.level, status)
  OBVIOUS
<1>1. /\ MayIssue /\ inst' = [inst EXCEPT ![s] = r] /\ stack' = <<c>> \o Replace(n)
      /\ count' = count /\ usl' = usl /\ expert' = expert
      /\ heap' = heap + Unit(inst[s].stage \in AllocStage /\ status = "ok")
      /\ status \in StatusOf(inst[s].stage)
      /\ status # "error" => inst[s].token < MaxCalls
  BY DEF IssueCompletesInside, Answers, BlockFor, Unit
<1>2. /\ stack # <<>> /\ f.proc = "Initiate" /\ f.at = "enter" /\ f \in Frame
      /\ s \in Slots /\ s < count /\ OnSlot(f, s) /\ ~Entered(f)
      /\ inst[s] \in Instance /\ usl[s] = <<>> /\ usl[s] \in Seq(Call) /\ heap \in Nat
      /\ FramesOn(s) = {f} \cup Lower(s)
      /\ r \in Instance /\ r.token = inst[s].token + 1 /\ r.inFlight = r.token
      /\ r.pending /\ ~r.stopped /\ r.stage = inst[s].stage
      /\ r.removing = inst[s].removing /\ r.hook = inst[s].hook
      /\ r.ring = inst[s].ring /\ r.readBuffer = inst[s].readBuffer /\ ~Handed(s)
  BY <1>1, Issuing
<1>3. ASSUME NEW g \in Lower(s)
      PROVE  /\ g.proc = "Initiate" /\ g.at # "enter" /\ g.slot = s
             /\ g.token \in 1..inst[s].token /\ (g.at = "returned" => g.err # "none")
             /\ g.token # r.token
  BY <1>1, Issuing
<1>4. /\ n \in Frame /\ OnSlot(n, s) /\ Entered(n) /\ n.proc = "Initiate" /\ n.slot = s
      /\ n.at = "returned" /\ n.token = r.token /\ n.err = err
  BY <1>2, AfterCallFacts
<1>5. /\ c \in Frame /\ OnSlot(c, s) /\ ~Entered(c) /\ c.proc = "Completion" /\ c.slot = s
      /\ c.status = status
  BY <1>2 DEF Complete, Frame, OnSlot, Entered
<1>6. /\ FramesStepOn(s) /\ FramesOn(s)' = {c, n} \cup Lower(s)
      /\ Cardinality(Open(stack, s)') = Cardinality(Open(stack, s)) + 1
  <2>1. /\ FramesStepOn(s) /\ FramesOn(s)' = {c, n} \cup Lower(s)
        /\ Cardinality(Open(stack, s)') = Cardinality(Open(stack, s)) - Unit(Entered(f)) + 1
    <3>1. stack # <<>> /\ f.proc # "Notify" /\ stack' = <<c>> \o Replace(n)
      BY <1>1, <1>2
    <3>2. \A g \in Lower(s) : n.token # g.token
      BY <1>3, <1>4
    <3>3. n \in Frame /\ OnSlot(n, s) /\ Entered(n)
      BY <1>4
    <3>4. c \in Frame /\ OnSlot(c, s) /\ ~Entered(c)
      BY <1>5
    <3> QED
      BY <3>1, <3>2, <3>3, <3>4, CallStep
  <2>2. Cardinality(Open(stack, s)) \in Nat
    BY OpenNat DEF IInv, TypeOK
  <2> QED
    BY <1>2, <2>1, <2>2 DEF Unit
<1>7. StepOn(s, r, <<>>) /\ inst'[s] = r /\ usl'[s] = <<>>
  <2>1. heap' \in Nat
    BY <1>1, <1>2 DEF Unit
  <2> QED
    BY <1>1, <1>2, <2>1 DEF StepOn, IInv, TypeOK
<1>8. HasCompletion(s)' /\ \A g \in Lower(s) : ~Owes(g)'
  BY <1>2, <1>3, <1>5, <1>6, <1>7 DEF Owes, HasCompletion
<1>9. SlotInv(s)'
  <2>1. CallHeld(s)'
    BY <1>7 DEF CallHeld
  <2>2. FramesFind(s)'
    <3>1. CompletionFinds(c, r)
      BY <1>1, <1>2, <1>5, BoundAssumption, SMTT(30) DEF CompletionFinds, Instance
    <3>2. n.token \in 1..r.token /\ \A g \in Lower(s) : g.token \in 1..r.token
      BY <1>2, <1>3, <1>4 DEF Instance
    <3>3. InitiateFinds(n, r)' /\ \A g \in Lower(s) : InitiateFinds(g, r)'
      BY <1>2, <1>3, <1>4, <1>8, <3>2 DEF InitiateFinds
    <3> QED
      BY <1>1, <1>2, <1>3, <1>4, <1>5, <1>6, <1>7, <3>1, <3>3, SMTT(30)
      DEF FramesFind, CompletionFinds, InitiateFinds
  <2>3. Controlled(s)'
    BY <1>5, <1>6 DEF Controlled, Driven, Acts
  <2> QED
    BY <1>1, <1>6, <1>7, <2>1, <2>2, <2>3, IssuedSlot DEF SlotInv
<1>10. Handed(s)' <=> status = "ok"
  BY <1>3, <1>4, <1>5, <1>6, <1>8 DEF Handed
<1>11. heap' + Blocks(inst[s]) + Unit(inst[s].stage \in AllocStage /\ Handed(s))
         = heap + Blocks(r) + Unit(r.stage \in AllocStage /\ Handed(s)')
  BY <1>1, <1>2, <1>10 DEF Blocks, Unit
<1> QED
  BY <1>2, <1>6, <1>7, <1>9, <1>11, MachineStep

(* An activation that has made its call is one level of the nesting.       *)
LEMMA DepthPositive ==
  ASSUME IInv, stack # <<>>, NEW f, f = Top, Entered(f), NEW s, s = f.slot
  PROVE  /\ inst[s].depth = Cardinality(Open(stack, s))
         /\ inst[s].depth - 1 \in 0..MaxSyncDepth
<1>1. f.proc # "Notify"
  BY DEF Entered
<1>2. /\ stack \in Seq(Frame) /\ Nested(stack) /\ s \in Slots /\ s < count
      /\ inst[s] \in Instance
  BY <1>1, OnTop
<1>3. /\ Return \in Seq(Frame)
      /\ Cardinality(Open(stack, s)) =
           Cardinality(Open(Return, s)) + Unit(f.slot = s /\ Entered(f))
  BY <1>2, TopFacts
<1>4. Cardinality(Open(Return, s)) \in Nat
  BY <1>3, OpenNat
<1>5. inst[s].depth = Cardinality(Open(stack, s))
  BY <1>2 DEF IInv, SlotInv, DepthCounts
<1>6. inst[s].depth \in 0..MaxSyncDepth
  BY <1>2 DEF Instance
<1> QED
  BY <1>3, <1>4, <1>5, <1>6, BoundAssumption DEF Unit

LEMMA ReturnedStopStep ==
  ASSUME Contract, IInv, ReturnedStop
  PROVE  IInv'
<1> PICK f : f = Top
  OBVIOUS
<1> PICK s : s = f.slot
  OBVIOUS
<1> PICK r : r = LeaveInitiate(Stop(inst[s]))
  OBVIOUS
<1>1. /\ stack # <<>> /\ f.proc = "Initiate" /\ f.at = "returned" /\ f.err = "error"
      /\ inst[s].inFlight = f.token /\ Owes(f) /\ Entered(f)
      /\ inst' = [inst EXCEPT ![s] = r] /\ stack' = Return
      /\ count' = count /\ usl' = usl /\ heap' = heap /\ expert' = expert
  BY DEF ReturnedStop, InitiateReturned, Running, Unreported, Top, Owes, Entered
<1>2. /\ f \in Frame /\ s \in Slots /\ s < count /\ OnSlot(f, s)
      /\ inst[s] \in Instance /\ usl[s] = <<>> /\ usl[s] \in Seq(Call) /\ heap \in Nat
      /\ FramesOn(s) = {f} \cup Lower(s)
  BY <1>1, OnTop
<1>3. ASSUME NEW g \in Lower(s)
      PROVE  /\ g.proc = "Initiate" /\ g.at # "enter" /\ g.slot = s
             /\ g.token \in 1..inst[s].token /\ (g.at = "returned" => g.err # "none")
             /\ g.token # f.token
  BY <1>1, OnTop
<1>4. /\ inst[s].depth = Cardinality(Open(stack, s))
      /\ inst[s].depth - 1 \in 0..MaxSyncDepth
  BY <1>1, DepthPositive
<1>5. /\ r \in Instance /\ r.token = inst[s].token /\ r.inFlight = f.token
      /\ r.inFlight = inst[s].inFlight
      /\ r.removing = inst[s].removing /\ r.hook = inst[s].hook /\ r.iface = inst[s].iface
      /\ r.stage = "AllocRing" /\ r.stopped /\ ~r.pending /\ r.depth = inst[s].depth - 1
      /\ r.ring = inst[s].ring /\ r.readBuffer = inst[s].readBuffer
  BY <1>1, <1>2, <1>4, Stages, ZenonT(40) DEF Stop, LeaveInitiate, Instance
<1>6. StepOn(s, r, <<>>) /\ inst'[s] = r /\ usl'[s] = <<>>
  BY <1>1, <1>2, <1>5 DEF StepOn, IInv, TypeOK
<1>7. /\ FramesStepOn(s) /\ FramesOn(s)' = Lower(s)
      /\ Cardinality(Open(stack, s)') = Cardinality(Open(stack, s)) - 1
  BY <1>1, ReturnStep DEF Unit
<1>8. ASSUME NEW g \in Lower(s)
      PROVE  ~Owes(g) /\ ~Owes(g)'
  BY <1>1, <1>3, <1>5, <1>6 DEF Owes
<1>9. SlotInv(s)'
  <2>1. CallHeld(s)'
    BY <1>6 DEF CallHeld
  <2>2. FramesFind(s)'
    BY <1>1, <1>2, <1>3, <1>5, <1>6, <1>7, <1>8 DEF FramesFind, InitiateFinds
  <2>3. Tokens(s)' /\ FreeSlot(s)' /\ FieldsFollowStage(s)'
    BY <1>1, <1>2, <1>5, <1>6 DEF IInv, SlotInv, Tokens, FreeSlot, FieldsFollowStage
  <2>4. Controlled(s)'
    BY <1>5, <1>6 DEF Controlled, AtRest
  <2>5. RemovedIsSilent(s)'
    BY <1>5, <1>6 DEF RemovedIsSilent, Silent, Reading
  <2>6. DepthCounts(s)'
    BY <1>4, <1>5, <1>6, <1>7 DEF DepthCounts
  <2> QED
    BY <2>1, <2>2, <2>3, <2>4, <2>5, <2>6 DEF SlotInv
<1>10. ~Handed(s) /\ ~Handed(s)'
  BY <1>1, <1>2, <1>3, <1>7, <1>8 DEF Handed, HasCompletion
<1>11. heap' + Blocks(inst[s]) + Unit(inst[s].stage \in AllocStage /\ Handed(s))
         = heap + Blocks(r) + Unit(r.stage \in AllocStage /\ Handed(s)')
  BY <1>1, <1>2, <1>5, <1>10 DEF Blocks, Unit
<1> QED
  BY <1>2, <1>6, <1>7, <1>9, <1>11, MachineStep

LEMMA ReturnedDriveStep ==
  ASSUME Contract, IInv, ReturnedDrive
  PROVE  IInv'
<1> PICK f : f = Top
  OBVIOUS
<1> PICK s : s = f.slot
  OBVIOUS
<1> PICK r : r = [inst[s] EXCEPT !.pending = FALSE]
  OBVIOUS
<1> PICK status : status = IF inst[s].stage = Reading THEN "empty" ELSE "ok"
  OBVIOUS
<1> PICK c : c = Complete(s, f.level, status)
  OBVIOUS
<1> PICK n : n = [f EXCEPT !.at = "leave"]
  OBVIOUS
<1>1. /\ stack # <<>> /\ f.proc = "Initiate" /\ f.at = "returned" /\ f.err = "ok"
      /\ inst[s].inFlight = f.token /\ ~inst[s].stopped /\ Owes(f) /\ Entered(f)
      /\ inst' = [inst EXCEPT ![s].pending = FALSE] /\ stack' = <<c>> \o Replace(n)
      /\ count' = count /\ usl' = usl /\ heap' = heap /\ expert' = expert
  BY DEF ReturnedDrive, DriveNeeded, InitiateReturned, Running, Unreported, Top, Owes, Entered
<1>2. /\ f \in Frame /\ s \in Slots /\ s < count /\ OnSlot(f, s)
      /\ inst[s] \in Instance /\ usl[s] = <<>> /\ usl[s] \in Seq(Call) /\ heap \in Nat
      /\ FramesOn(s) = {f} \cup Lower(s) /\ InitiateFinds(f, inst[s])
  BY <1>1, OnTop
<1>3. ASSUME NEW g \in Lower(s)
      PROVE  /\ g.proc = "Initiate" /\ g.at # "enter" /\ g.slot = s
             /\ g.token \in 1..inst[s].token /\ (g.at = "returned" => g.err # "none")
             /\ g.token # f.token
  BY <1>1, OnTop
<1>4. /\ inst[s].depth = Cardinality(Open(stack, s))
      /\ inst[s].depth - 1 \in 0..MaxSyncDepth
  BY <1>1, DepthPositive
<1>5. ~HasCompletion(s) /\ inst[s].token <= MaxCalls
  <2>1. ~HasCompletion(s)
    BY <1>1, <1>2, <1>3 DEF HasCompletion
  <2> QED
    BY <1>1, <1>2, <2>1 DEF InitiateFinds
<1>6. /\ r \in Instance /\ r.token = inst[s].token /\ r.inFlight = f.token
      /\ r.inFlight = inst[s].inFlight
      /\ r.removing = inst[s].removing /\ r.hook = inst[s].hook /\ r.iface = inst[s].iface
      /\ r.stage = inst[s].stage /\ ~r.stopped /\ ~r.pending /\ r.depth = inst[s].depth
      /\ r.ring = inst[s].ring /\ r.pipe = inst[s].pipe /\ r.readBuffer = inst[s].readBuffer
  BY <1>1, <1>2 DEF Instance
<1>7. /\ c \in Frame /\ OnSlot(c, s) /\ ~Entered(c) /\ c.proc = "Completion" /\ c.slot = s
      /\ c.status = status /\ status \in StatusOf(r.stage)
      /\ (c.status = "ok" <=> r.stage # Reading)
  BY <1>2, <1>6 DEF Complete, Frame, OnSlot, Entered, StatusOf, ReadStatus
<1>8. /\ n \in Frame /\ OnSlot(n, s) /\ Entered(n) /\ n.proc = "Initiate" /\ n.slot = s
      /\ n.at = "leave" /\ n.token = f.token
  BY <1>1, <1>2 DEF Frame, OnSlot, Entered
<1>9. /\ FramesStepOn(s) /\ FramesOn(s)' = {c, n} \cup Lower(s)
      /\ Cardinality(Open(stack, s)') = Cardinality(Open(stack, s))
  <2>1. stack # <<>> /\ f.proc # "Notify" /\ stack' = <<c>> \o Replace(n)
    BY <1>1
  <2>2. \A g \in Lower(s) : n.token # g.token
    BY <1>3, <1>8
  <2>3. n \in Frame /\ OnSlot(n, s) /\ Entered(n)
    BY <1>8
  <2>4. c \in Frame /\ OnSlot(c, s) /\ ~Entered(c)
    BY <1>7
  <2>5. /\ FramesStepOn(s) /\ FramesOn(s)' = {c, n} \cup Lower(s)
        /\ Cardinality(Open(stack, s)') = Cardinality(Open(stack, s)) - Unit(Entered(f)) + 1
    BY <2>1, <2>2, <2>3, <2>4, CallStep, ZenonT(40)
  <2> QED
    BY <1>1, <1>2, <1>4, <2>5 DEF Unit, Instance
<1>10. StepOn(s, r, <<>>) /\ inst'[s] = r /\ usl'[s] = <<>>
  BY <1>1, <1>2, <1>6 DEF StepOn, IInv, TypeOK
<1>11. HasCompletion(s)' /\ ~Owes(n)' /\ \A g \in Lower(s) : ~Owes(g)'
  <2>1. HasCompletion(s)'
    BY <1>7, <1>9 DEF HasCompletion
  <2>2. ~Owes(n)'
    BY <1>8 DEF Owes
  <2>3. inst'[s].inFlight = f.token
    BY <1>6, <1>10
  <2>4. ASSUME NEW g \in Lower(s)
        PROVE  ~Owes(g)'
    BY <1>3, <2>3 DEF Owes
  <2> QED
    BY <2>1, <2>2, <2>4
<1>12. SlotInv(s)'
  <2>1. CallHeld(s)'
    BY <1>10 DEF CallHeld
  <2>2. FramesFind(s)'
    <3>1. CompletionFinds(c, r)
      BY <1>5, <1>6, <1>7 DEF CompletionFinds
    <3>2. n.token \in 1..r.token
      BY <1>1, <1>2, <1>6, <1>8 DEF InitiateFinds
    <3>3. InitiateFinds(n, r)' /\ \A g \in Lower(s) : InitiateFinds(g, r)'
      BY <1>3, <1>6, <1>8, <1>11, <3>2 DEF InitiateFinds
    <3> QED
      BY <1>1, <1>2, <1>3, <1>7, <1>8, <1>9, <1>10, <3>1, <3>3, ZenonT(40)
      DEF FramesFind, CompletionFinds, InitiateFinds
  <2>3. Tokens(s)' /\ FreeSlot(s)' /\ FieldsFollowStage(s)'
    BY <1>1, <1>2, <1>6, <1>10 DEF IInv, SlotInv, Tokens, FreeSlot, FieldsFollowStage
  <2>4. Controlled(s)'
    BY <1>7, <1>9 DEF Controlled, Driven, Acts
  <2>5. RemovedIsSilent(s)'
    BY <1>3, <1>7, <1>8, <1>9, <1>10 DEF RemovedIsSilent, Silent
  <2>6. DepthCounts(s)'
    BY <1>4, <1>6, <1>9, <1>10 DEF DepthCounts
  <2> QED
    BY <2>1, <2>2, <2>3, <2>4, <2>5, <2>6 DEF SlotInv
<1>13. Handed(s) /\ (Handed(s)' <=> r.stage # Reading)
  BY <1>1, <1>2, <1>3, <1>5, <1>7, <1>8, <1>9, <1>11 DEF Handed
<1>14. heap' + Blocks(inst[s]) + Unit(inst[s].stage \in AllocStage /\ Handed(s))
         = heap + Blocks(r) + Unit(r.stage \in AllocStage /\ Handed(s)')
  BY <1>1, <1>2, <1>6, <1>13 DEF Blocks, Unit, AllocStage, Reading
<1> QED
  BY <1>2, <1>9, <1>10, <1>12, <1>14, MachineStep

(* An activation that has nothing left to do returns.                      *)
LEMMA LeaveStep ==
  ASSUME Contract, IInv, ReturnedNothing \/ InitiateLeaves
  PROVE  IInv'
<1> PICK f : f = Top
  OBVIOUS
<1> PICK s : s = f.slot
  OBVIOUS
<1> PICK r : r = LeaveInitiate(inst[s])
  OBVIOUS
<1> PICK calls : calls = usl[s]
  OBVIOUS
<1>1. /\ stack # <<>> /\ f.proc = "Initiate" /\ Entered(f)
      /\ inst' = [inst EXCEPT ![s] = r] /\ stack' = Return
      /\ count' = count /\ usl' = usl /\ heap' = heap /\ expert' = expert
  BY DEF ReturnedNothing, InitiateLeaves, InitiateReturned, Running, Top, Entered
<1>2. /\ f \in Frame /\ s \in Slots /\ s < count /\ OnSlot(f, s)
      /\ inst[s] \in Instance /\ usl[s] \in Seq(Call) /\ heap \in Nat
      /\ FramesOn(s) = {f} \cup Lower(s) /\ InitiateFinds(f, inst[s])
  BY <1>1, OnTop
<1>3. ASSUME NEW g \in Lower(s)
      PROVE  /\ g.proc = "Initiate" /\ g.at # "enter" /\ g.slot = s
             /\ g.token \in 1..inst[s].token /\ (g.at = "returned" => g.err # "none")
  BY <1>1, OnTop
<1>4. /\ inst[s].depth = Cardinality(Open(stack, s))
      /\ inst[s].depth - 1 \in 0..MaxSyncDepth
  BY <1>1, DepthPositive
<1>5. ~Owes(f)
  <2>1. CASE f.at = "returned"
    <3>1. ~(f.err = "ok" /\ inst[s].inFlight = f.token /\ ~inst[s].stopped)
          /\ ~(f.err = "error" /\ inst[s].inFlight = f.token)
      BY <2>1 DEF ReturnedNothing, InitiateLeaves, DriveNeeded, Unreported, Top
    <3> QED
      BY <1>2, <3>1 DEF InitiateFinds, Owes
  <2> QED
    BY <2>1 DEF Owes
<1>6. /\ r \in Instance /\ r.token = inst[s].token /\ r.inFlight = inst[s].inFlight
      /\ r.removing = inst[s].removing /\ r.hook = inst[s].hook /\ r.iface = inst[s].iface
      /\ r.stage = inst[s].stage /\ r.stopped = inst[s].stopped
      /\ r.pending = inst[s].pending /\ r.depth = inst[s].depth - 1
      /\ r.ring = inst[s].ring /\ r.pipe = inst[s].pipe /\ r.readBuffer = inst[s].readBuffer
  BY <1>2, <1>4 DEF LeaveInitiate, Instance
<1>7. StepOn(s, r, calls) /\ inst'[s] = r /\ usl'[s] = usl[s]
  BY <1>1, <1>2, <1>6 DEF StepOn, IInv, TypeOK
<1>8. /\ FramesStepOn(s) /\ FramesOn(s)' = Lower(s)
      /\ Cardinality(Open(stack, s)') = Cardinality(Open(stack, s)) - 1
  BY <1>1, ReturnStep DEF Unit
<1>9. /\ \A g \in Lower(s) : Owes(g)' <=> Owes(g)
      /\ ~HasCompletion(s) /\ ~HasCompletion(s)'
  BY <1>1, <1>2, <1>3, <1>6, <1>7, <1>8 DEF Owes, HasCompletion
<1>10. Notifies' = Notifies
  BY <1>8 DEF FramesStepOn, Notifies, OnSlot
<1>11. SlotInv(s)'
  <2>1. CallHeld(s)'
    <3>1. CallHeld(s)
      BY <1>2 DEF IInv, SlotInv
    <3> QED
      BY <1>1, <1>2, <1>6, <1>7, <1>8, <1>9, <3>1 DEF CallHeld
  <2>2. FramesFind(s)'
    <3>1. ASSUME NEW g \in Lower(s)
          PROVE  InitiateFinds(g, r)'
      <4>1. InitiateFinds(g, inst[s])
        BY <1>2, <1>3 DEF IInv, SlotInv, FramesFind
      <4> QED
        BY <1>3, <1>6, <1>9, <4>1 DEF InitiateFinds
    <3> QED
      BY <1>1, <1>2, <1>3, <1>7, <1>8, <3>1 DEF FramesFind, InitiateFinds
  <2>3. Tokens(s)' /\ FreeSlot(s)' /\ FieldsFollowStage(s)'
    BY <1>1, <1>2, <1>6, <1>7 DEF IInv, SlotInv, Tokens, FreeSlot, FieldsFollowStage
  <2>4. Controlled(s)'
    <3>1. usl[s] # <<>> \/ Driven(s) \/ PipeGone(s) \/ AtRest(s)
      BY <1>2 DEF IInv, SlotInv, Controlled
    <3>2. Driven(s) => Driven(s)'
      BY <1>1, <1>2, <1>5, <1>8, <1>9 DEF Driven, Acts, Entered
    <3>3. PipeGone(s) => PipeGone(s)'
      BY <1>10 DEF PipeGone
    <3>4. AtRest(s) => AtRest(s)'
      BY <1>6, <1>7 DEF AtRest
    <3> QED
      BY <1>7, <3>1, <3>2, <3>3, <3>4 DEF Controlled
  <2>5. RemovedIsSilent(s)'
    <3>1. inst[s].removing => Silent(s) \/ BeingMarked(s)
      BY <1>2 DEF IInv, SlotInv, RemovedIsSilent
    <3>2. BeingMarked(s) => BeingMarked(s)'
      BY <1>10 DEF BeingMarked
    <3>3. Silent(s) => Silent(s)'
      BY <1>2, <1>6, <1>7, <1>8 DEF Silent
    <3> QED
      BY <1>6, <1>7, <3>1, <3>2, <3>3 DEF RemovedIsSilent
  <2>6. DepthCounts(s)'
    BY <1>4, <1>6, <1>7, <1>8 DEF DepthCounts
  <2> QED
    BY <2>1, <2>2, <2>3, <2>4, <2>5, <2>6 DEF SlotInv
<1>12. Handed(s)' <=> Handed(s)
  BY <1>1, <1>2, <1>3, <1>5, <1>8, <1>9 DEF Handed
<1>13. heap' + Blocks(inst[s]) + Unit(inst[s].stage \in AllocStage /\ Handed(s))
         = heap + Blocks(r) + Unit(r.stage \in AllocStage /\ Handed(s)')
  BY <1>1, <1>6, <1>12 DEF Blocks, Unit
<1> QED
  BY <1>2, <1>7, <1>8, <1>11, <1>13, MachineStep

(* What one completed call does to the instance.                           *)
LEMMA StoredFacts ==
  ASSUME NEW q \in Instance, NEW next \in Stage
  PROVE  LET r == GoTo(Store(q), next) IN
         /\ r \in Instance /\ r.inFlight = q.inFlight /\ r.token = q.token
         /\ r.depth = q.depth /\ r.removing = q.removing /\ r.hook = q.hook
         /\ r.iface = q.iface /\ r.pending = FALSE /\ r.stopped = FALSE /\ r.stage = next
         /\ r.ring <=> q.ring \/ q.stage = "AllocRing"
         /\ r.pipe <=> q.pipe \/ q.stage = "FindBulkInPipe"
         /\ r.readBuffer <=> q.readBuffer \/ q.stage = "AllocReadBuffer"
<1> DEFINE S(ring, pipe, buffer) ==
             [q EXCEPT !.ring = ring, !.pipe = pipe, !.readBuffer = buffer]
<1>1. PICK ring \in BOOLEAN, pipe \in BOOLEAN, buffer \in BOOLEAN :
        /\ Store(q) = S(ring, pipe, buffer)
        /\ ring <=> q.ring \/ q.stage = "AllocRing"
        /\ pipe <=> q.pipe \/ q.stage = "FindBulkInPipe"
        /\ buffer <=> q.readBuffer \/ q.stage = "AllocReadBuffer"
  <2>1. Store(q) = S(q.ring \/ q.stage = "AllocRing", q.pipe \/ q.stage = "FindBulkInPipe",
                     q.readBuffer \/ q.stage = "AllocReadBuffer")
    BY DEF Store
  <2> HIDE DEF S
  <2> QED
    BY <2>1
<1> PICK u : u = Store(q)
  OBVIOUS
<1> PICK r : r = GoTo(u, next)
  OBVIOUS
<1>2. /\ u \in Instance /\ u.inFlight = q.inFlight /\ u.token = q.token
      /\ u.depth = q.depth /\ u.removing = q.removing /\ u.hook = q.hook
      /\ u.iface = q.iface /\ u.ring = ring /\ u.pipe = pipe /\ u.readBuffer = buffer
  BY <1>1, ZenonT(40) DEF Instance
<1>3. /\ r \in Instance /\ r.inFlight = u.inFlight /\ r.token = u.token
      /\ r.depth = u.depth /\ r.removing = u.removing /\ r.hook = u.hook
      /\ r.iface = u.iface /\ r.pending = FALSE /\ r.stopped = FALSE /\ r.stage = next
      /\ r.ring = u.ring /\ r.pipe = u.pipe /\ r.readBuffer = u.readBuffer
  BY <1>2 DEF GoTo, Instance
<1>4. /\ r.ring <=> q.ring \/ q.stage = "AllocRing"
      /\ r.pipe <=> q.pipe \/ q.stage = "FindBulkInPipe"
      /\ r.readBuffer <=> q.readBuffer \/ q.stage = "AllocReadBuffer"
  BY <1>1, <1>2, <1>3
<1> QED
  BY <1>2, <1>3, <1>4

LEMMA AdvanceFacts ==
  ASSUME NEW q \in Instance, ~q.stopped, NEW status \in StatusOf(q.stage),
         q.ring <=> q.stage # "AllocRing",
         q.pipe <=> q.stage \in {"AllocReadBuffer", Reading},
         q.readBuffer <=> q.stage = Reading
  PROVE  LET r == Advance(q, status) IN
         /\ r \in Instance /\ r.inFlight = 0 /\ r.token = q.token /\ r.depth = q.depth
         /\ r.removing = q.removing /\ r.hook = q.hook /\ r.iface = q.iface /\ ~r.pending
         /\ r.stopped <=> status # "ok" /\ (q.stage # Reading \/ status = "error")
         /\ r.stopped => r.stage = "AllocRing"
         /\ ~r.stopped => /\ r.ring <=> r.stage # "AllocRing"
                          /\ r.pipe <=> r.stage \in {"AllocReadBuffer", Reading}
                          /\ r.readBuffer <=> r.stage = Reading
         /\ r.stage \in AllocStage => r.stopped \/ q.stage = "FindBulkInPipe"
         /\ Blocks(r) = Blocks(q) + Unit(q.stage \in AllocStage /\ status = "ok")
<1> DEFINE done == [q EXCEPT !.inFlight = 0]
           r == Advance(q, status)
<1>1. /\ done \in Instance /\ done.inFlight = 0 /\ done.token = q.token
      /\ done.depth = q.depth /\ done.removing = q.removing /\ done.hook = q.hook
      /\ done.iface = q.iface /\ done.stage = q.stage
      /\ done.ring = q.ring /\ done.pipe = q.pipe /\ done.readBuffer = q.readBuffer
  BY BoundAssumption DEF Instance
<1>2. q.stage \in Stage /\ r = IF q.stage = Reading
                               THEN IF status = "error" THEN Stop(done) ELSE GoTo(done, Reading)
                               ELSE IF status = "ok" THEN GoTo(Store(done), StageAfter(q.stage))
                                    ELSE Stop(done)
  BY DEF Advance, Instance
<1> HIDE DEF done, r
<1>3. CASE status # "ok" /\ (q.stage # Reading \/ status = "error")
  <2>1. r = [done EXCEPT !.stage = "AllocRing", !.stopped = TRUE, !.pending = FALSE]
    BY <1>2, <1>3 DEF Stop
  <2>2. /\ r \in Instance /\ r.inFlight = 0 /\ r.token = q.token /\ r.depth = q.depth
        /\ r.removing = q.removing /\ r.hook = q.hook /\ r.iface = q.iface
        /\ r.pending = FALSE /\ r.stopped = TRUE /\ r.stage = "AllocRing"
        /\ r.ring = q.ring /\ r.readBuffer = q.readBuffer
    BY <1>1, <2>1, Stages DEF Instance
  <2>3. Blocks(r) = Blocks(q) + Unit(q.stage \in AllocStage /\ status = "ok")
    BY <1>3, <2>2 DEF Blocks, Unit
  <2> QED
    BY <1>3, <2>2, <2>3 DEF r
<1>4. CASE q.stage = Reading /\ status # "error"
  <2>1. r = [done EXCEPT !.stage = Reading, !.stopped = FALSE, !.pending = FALSE]
    BY <1>2, <1>4 DEF GoTo
  <2>2. /\ r \in Instance /\ r.inFlight = 0 /\ r.token = q.token /\ r.depth = q.depth
        /\ r.removing = q.removing /\ r.hook = q.hook /\ r.iface = q.iface
        /\ r.pending = FALSE /\ r.stopped = FALSE /\ r.stage = q.stage
        /\ r.ring = q.ring /\ r.pipe = q.pipe /\ r.readBuffer = q.readBuffer
    BY <1>1, <1>4, <2>1, Stages DEF Instance
  <2>3. Blocks(r) = Blocks(q) + Unit(q.stage \in AllocStage /\ status = "ok")
    BY <1>4, <2>2 DEF Blocks, Unit, AllocStage, Reading
  <2> QED
    BY <1>4, <2>2, <2>3 DEF r, AllocStage, Reading
<1>5. CASE q.stage # Reading /\ status = "ok"
  <2> PICK next : next = StageAfter(q.stage)
    OBVIOUS
  <2>1. r = GoTo(Store(done), next)
    BY <1>2, <1>5
  <2>2. next \in Stage
    BY <1>2, <1>5, Stages
  <2>3. /\ r \in Instance /\ r.inFlight = 0 /\ r.token = q.token /\ r.depth = q.depth
        /\ r.removing = q.removing /\ r.hook = q.hook /\ r.iface = q.iface
        /\ r.pending = FALSE /\ r.stopped = FALSE /\ r.stage = next
        /\ r.ring <=> q.ring \/ q.stage = "AllocRing"
        /\ r.pipe <=> q.pipe \/ q.stage = "FindBulkInPipe"
        /\ r.readBuffer <=> q.readBuffer \/ q.stage = "AllocReadBuffer"
    <3>1. done \in Instance
      BY <1>1
    <3>2. /\ r \in Instance /\ r.inFlight = done.inFlight /\ r.token = done.token
          /\ r.depth = done.depth /\ r.removing = done.removing /\ r.hook = done.hook
          /\ r.iface = done.iface /\ r.pending = FALSE /\ r.stopped = FALSE /\ r.stage = next
          /\ r.ring <=> done.ring \/ done.stage = "AllocRing"
          /\ r.pipe <=> done.pipe \/ done.stage = "FindBulkInPipe"
          /\ r.readBuffer <=> done.readBuffer \/ done.stage = "AllocReadBuffer"
      BY <2>1, <2>2, <3>1, StoredFacts, ZenonT(40)
    <3> QED
      BY <1>1, <3>2
  <2>4. \/ q.stage = "AllocRing" /\ next = "ConfigureInterface"
        \/ q.stage = "ConfigureInterface" /\ next = "FindBulkInPipe"
        \/ q.stage = "FindBulkInPipe" /\ next = "AllocReadBuffer"
        \/ q.stage = "AllocReadBuffer" /\ next = Reading
    BY <1>2, <1>5, Stages
  <2>5. /\ r.ring <=> next # "AllocRing"
        /\ r.pipe <=> next \in {"AllocReadBuffer", Reading}
        /\ r.readBuffer <=> next = Reading
    BY <2>3, <2>4 DEF Reading
  <2>6. Blocks(r) = Blocks(q) + Unit(q.stage \in AllocStage /\ status = "ok")
    <3>1. Blocks(r) = Unit(next # "AllocRing") + Unit(next = Reading)
      BY <2>3, <2>5 DEF Blocks, Unit
    <3>2. Blocks(q) = Unit(q.stage # "AllocRing") + Unit(q.stage = Reading)
      BY DEF Blocks, Unit
    <3> QED
      BY <1>5, <2>4, <3>1, <3>2 DEF Unit, AllocStage, Reading
  <2>7. next \in AllocStage => q.stage = "FindBulkInPipe"
    BY <2>4 DEF AllocStage, Reading
  <2> QED
    BY <1>5, <2>3, <2>5, <2>6, <2>7 DEF r
<1> QED
  BY <1>3, <1>4, <1>5

LEMMA CompletionProcStep ==
  ASSUME Contract, IInv, CompletionProc
  PROVE  IInv'
<1> PICK f : f = Top
  OBVIOUS
<1> PICK s : s = f.slot
  OBVIOUS
<1> PICK r : r = Advance(inst[s], f.status)
  OBVIOUS
<1> PICK n : n = Initiate(s, f.level)
  OBVIOUS
<1>1. /\ stack # <<>> /\ f.proc = "Completion" /\ ~Entered(f)
      /\ inst' = [inst EXCEPT ![s] = r]
      /\ stack' = IF r.stopped \/ r.removing THEN Return ELSE Replace(n)
      /\ count' = count /\ usl' = usl /\ heap' = heap /\ expert' = expert
  BY DEF CompletionProc, Running, Top, Entered
<1>2. /\ f \in Frame /\ s \in Slots /\ s < count /\ OnSlot(f, s)
      /\ inst[s] \in Instance /\ usl[s] = <<>> /\ usl[s] \in Seq(Call) /\ heap \in Nat
      /\ FramesOn(s) = {f} \cup Lower(s) /\ CompletionFinds(f, inst[s])
  BY <1>1, OnTop
<1>3. ASSUME NEW g \in Lower(s)
      PROVE  /\ g.proc = "Initiate" /\ g.at # "enter" /\ g.slot = s
             /\ g.token \in 1..inst[s].token /\ (g.at = "returned" => g.err # "none")
  BY <1>1, OnTop
<1>4. /\ r \in Instance /\ r.inFlight = 0 /\ r.token = inst[s].token
      /\ r.depth = inst[s].depth /\ r.removing = inst[s].removing /\ r.hook = inst[s].hook
      /\ r.iface = inst[s].iface /\ ~r.pending
      /\ r.stopped <=> f.status # "ok" /\ (inst[s].stage # Reading \/ f.status = "error")
      /\ r.stopped => r.stage = "AllocRing"
      /\ ~r.stopped => /\ r.ring <=> r.stage # "AllocRing"
                       /\ r.pipe <=> r.stage \in {"AllocReadBuffer", Reading}
                       /\ r.readBuffer <=> r.stage = Reading
      /\ Blocks(r) = Blocks(inst[s]) + Unit(inst[s].stage \in AllocStage /\ f.status = "ok")
  <2>1. ~inst[s].stopped /\ f.status \in StatusOf(inst[s].stage)
    BY <1>2 DEF CompletionFinds
  <2>2. /\ inst[s].ring <=> inst[s].stage # "AllocRing"
        /\ inst[s].pipe <=> inst[s].stage \in {"AllocReadBuffer", Reading}
        /\ inst[s].readBuffer <=> inst[s].stage = Reading
    BY <1>2, <2>1 DEF IInv, SlotInv, FieldsFollowStage
  <2> QED
    BY <1>2, <2>1, <2>2, AdvanceFacts
<1>5. StepOn(s, r, <<>>) /\ inst'[s] = r /\ usl'[s] = <<>>
  BY <1>1, <1>2, <1>4 DEF StepOn, IInv, TypeOK
<1>6. /\ n \in Frame /\ OnSlot(n, s) /\ ~Entered(n) /\ n.proc = "Initiate" /\ n.slot = s
      /\ n.at = "enter"
  BY <1>2, BoundAssumption DEF Initiate, Frame, OnSlot, Entered
<1>7. /\ FramesStepOn(s)
      /\ Cardinality(Open(stack, s)') = Cardinality(Open(stack, s))
      /\ \/ /\ r.stopped \/ r.removing
            /\ FramesOn(s)' = Lower(s)
         \/ /\ ~r.stopped /\ ~r.removing
            /\ FramesOn(s)' = {n} \cup Lower(s)
  <2>1. Cardinality(Open(stack, s)) \in Nat
    BY OpenNat DEF IInv, TypeOK
  <2>2. CASE r.stopped \/ r.removing
    <3>1. stack' = Return /\ f.proc # "Notify"
      BY <1>1, <2>2
    <3>2. /\ FramesStepOn(s) /\ FramesOn(s)' = Lower(s)
          /\ Cardinality(Open(stack, s)') = Cardinality(Open(stack, s)) - Unit(Entered(f))
      BY <1>1, <3>1, ReturnStep
    <3> QED
      BY <1>1, <2>1, <2>2, <3>2 DEF Unit
  <2>3. CASE ~r.stopped /\ ~r.removing
    <3>1. stack' = Replace(n) /\ f.proc # "Notify"
      BY <1>1, <2>3
    <3>2. /\ FramesStepOn(s) /\ FramesOn(s)' = {n} \cup Lower(s)
          /\ Cardinality(Open(stack, s)') =
               Cardinality(Open(stack, s)) - Unit(Entered(f)) + Unit(Entered(n))
      BY <1>1, <1>6, <3>1, ReplaceStep
    <3> QED
      BY <1>1, <1>6, <2>1, <2>3, <3>2 DEF Unit
  <2> QED
    BY <2>2, <2>3
<1>8. ASSUME NEW g \in Lower(s)
      PROVE  ~Owes(g)'
  BY <1>3, <1>4, <1>5 DEF Owes
<1>9. ~Owes(n)'
  BY <1>6 DEF Owes
<1>10. SlotInv(s)'
  <2>1. CallHeld(s)'
    BY <1>5 DEF CallHeld
  <2>2. FramesFind(s)'
    <3>1. ~r.stopped => InitiateFinds(n, r)'
      <4>1. ~r.stopped => r.token <= MaxCalls
        BY <1>2, <1>4 DEF CompletionFinds
      <4> QED
        BY <1>4, <1>6, <1>9, <4>1 DEF InitiateFinds
    <3>2. \A g \in Lower(s) : InitiateFinds(g, r)'
      BY <1>3, <1>4, <1>8 DEF InitiateFinds
    <3> QED
      BY <1>1, <1>2, <1>3, <1>5, <1>6, <1>7, <3>1, <3>2 DEF FramesFind, InitiateFinds
  <2>3. Tokens(s)'
    BY <1>1, <1>2, <1>4, <1>5 DEF IInv, SlotInv, Tokens
  <2>4. FreeSlot(s)' /\ FieldsFollowStage(s)'
    BY <1>1, <1>2, <1>4, <1>5 DEF FreeSlot, FieldsFollowStage
  <2>5. Controlled(s)'
    BY <1>4, <1>5, <1>6, <1>7 DEF Controlled, Driven, Acts, AtRest
  <2>6. RemovedIsSilent(s)'
    BY <1>3, <1>5, <1>6, <1>7 DEF RemovedIsSilent, Silent
  <2>7. DepthCounts(s)'
    BY <1>2, <1>4, <1>5, <1>7 DEF IInv, SlotInv, DepthCounts
  <2> QED
    BY <2>1, <2>2, <2>3, <2>4, <2>5, <2>6, <2>7 DEF SlotInv
<1>11. (Handed(s) <=> f.status = "ok") /\ ~Handed(s)'
  <2>1. HasCompletion(s) /\ ~HasCompletion(s)'
    BY <1>1, <1>2, <1>3, <1>6, <1>7 DEF HasCompletion
  <2>2. (Handed(s) <=> f.status = "ok")
    BY <1>1, <1>2, <1>3, <2>1 DEF Handed
  <2>3. ~Handed(s)'
    BY <1>3, <1>6, <1>7, <1>8, <1>9 DEF Handed
  <2> QED
    BY <2>2, <2>3
<1>12. heap' + Blocks(inst[s]) + Unit(inst[s].stage \in AllocStage /\ Handed(s))
         = heap + Blocks(r) + Unit(r.stage \in AllocStage /\ Handed(s)')
  <2>1. /\ Unit(inst[s].stage \in AllocStage /\ f.status = "ok")
             = Unit(inst[s].stage \in AllocStage /\ Handed(s))
        /\ Unit(r.stage \in AllocStage /\ Handed(s)') = 0
    BY <1>11 DEF Unit
  <2>2. /\ Blocks(inst[s]) \in Nat /\ Unit(inst[s].stage \in AllocStage /\ f.status = "ok") \in Nat
    BY DEF Blocks, Unit
  <2> QED
    BY <1>1, <1>2, <1>4, <2>1, <2>2
<1> QED
  BY <1>2, <1>5, <1>7, <1>10, <1>12, MachineStep

LEMMA CallCompletesStep ==
  ASSUME Contract, IInv, NEW s \in Slots, NEW status \in ReadStatus, CallCompletes(s, status)
  PROVE  IInv'
<1> PICK call : call = Head(usl[s])
  OBVIOUS
<1> PICK r : r = inst[s]
  OBVIOUS
<1> PICK c : c = Complete(s, "interrupt", status)
  OBVIOUS
<1>1. /\ usl[s] # <<>> /\ usl' = [usl EXCEPT ![s] = Tail(usl[s])] /\ stack' = Push(c)
      /\ status \in IF call.aborted THEN {"error"} ELSE StatusOf(call.stage)
      /\ status # "error" => r.token < MaxCalls
      /\ heap' = heap + BlockFor(call.stage, status)
      /\ count' = count /\ inst' = inst /\ expert' = expert
  BY DEF CallCompletes, Answers
<1>2. /\ stack \in Seq(Frame) /\ Nested(stack) /\ r \in Instance /\ heap \in Nat
      /\ usl[s] \in Seq(Call) /\ usl \in [Slots -> Seq(Call)] /\ inst \in [Slots -> Instance]
      /\ SlotInv(s)
  BY DEF IInv, TypeOK
<1>3. /\ Len(usl[s]) = 1 /\ s < count /\ r.pending /\ ~r.stopped
      /\ usl[s][1].stage = r.stage /\ usl[s][1].iface = r.iface
      /\ \A f \in FramesOn(s) : Entered(f) /\ ~Owes(f)
  BY <1>1, <1>2 DEF SlotInv, CallHeld
<1>4. /\ Tail(usl[s]) = <<>> /\ call = usl[s][1] /\ call.stage = r.stage
      /\ <<>> \in Seq(Call)
  <2>1. Tail(usl[s]) \in Seq(Call) /\ Len(Tail(usl[s])) = 0 /\ call = usl[s][1]
    BY <1>1, <1>2, <1>3
  <2> QED
    BY <1>3, <2>1, EmptySeq
<1>5. status \in StatusOf(r.stage) /\ (call.aborted => status = "error")
  BY <1>1, <1>4 DEF StatusOf, ReadStatus
<1>6. /\ c \in Frame /\ OnSlot(c, s) /\ ~Entered(c) /\ c.proc = "Completion" /\ c.slot = s
      /\ c.status = status
  BY DEF Complete, Frame, OnSlot, Entered
<1>7. \A g \in Frames : Below(c, g)
  BY <1>3, <1>6 DEF Below, FramesOn, OnSlot
<1>8. /\ stack' \in Seq(Frame) /\ Nested(stack)' /\ Frames' = {c} \cup Frames
      /\ \A x : Cardinality(Open(stack, x)') =
                  Cardinality(Open(stack, x)) + Unit(c.slot = x /\ Entered(c))
  BY <1>1, <1>2, <1>6, <1>7, PreemptFacts
<1>9. \A x : Cardinality(Open(stack, x)') = Cardinality(Open(stack, x))
  <2>1. \A x : Cardinality(Open(stack, x)) \in Nat
    BY <1>2, OpenNat
  <2> QED
    BY <1>6, <1>8, <2>1 DEF Unit
<1>10. FramesStepOn(s) /\ FramesOn(s)' = {c} \cup FramesOn(s) /\ Notifies' = Notifies
  BY <1>6, <1>8, <1>9 DEF FramesStepOn, FramesOn, Notifies, OnSlot
<1>11. StepOn(s, r, <<>>) /\ inst'[s] = r /\ usl'[s] = <<>>
  <2>1. heap' \in Nat
    BY <1>1, <1>2 DEF BlockFor
  <2> QED
    BY <1>1, <1>2, <1>4, <2>1 DEF StepOn
<1>12. /\ HasCompletion(s)' /\ ~HasCompletion(s)
       /\ \A g \in FramesOn(s) : ~Owes(g)'
  <2>1. ASSUME NEW g \in FramesOn(s)
        PROVE  ~Owes(g)'
    BY <1>1, <1>3 DEF Owes
  <2> QED
    BY <1>3, <1>6, <1>10, <2>1 DEF HasCompletion, Entered
<1>13. SlotInv(s)'
  <2>1. CallHeld(s)'
    BY <1>11 DEF CallHeld
  <2>2. FramesFind(s)'
    <3>1. CompletionFinds(c, r)
      BY <1>1, <1>2, <1>3, <1>5, <1>6, BoundAssumption DEF CompletionFinds, Instance
    <3>2. ASSUME NEW g \in FramesOn(s)
          PROVE  InitiateFinds(g, r)'
      <4>1. InitiateFinds(g, r)
        BY <1>2, <1>3 DEF SlotInv, FramesFind, Entered
      <4> QED
        BY <1>12, <4>1 DEF InitiateFinds
    <3>3. ASSUME NEW g \in FramesOn(s)'
          PROVE  /\ s < count'
                 /\ (g.proc = "Initiate" => InitiateFinds(g, inst[s]))'
                 /\ (g.proc = "Completion" => CompletionFinds(g, inst[s]))'
      <4>1. CASE g = c
        BY <1>1, <1>3, <1>6, <1>11, <3>1, <4>1 DEF CompletionFinds
      <4>2. CASE g \in FramesOn(s)
        BY <1>1, <1>3, <1>11, <3>2, <4>2 DEF Entered, InitiateFinds
      <4> QED
        BY <1>10, <4>1, <4>2
    <3> QED
      BY <3>3 DEF FramesFind
  <2>3. Tokens(s)' /\ FreeSlot(s)' /\ FieldsFollowStage(s)'
    BY <1>1, <1>2 DEF SlotInv, Tokens, FreeSlot, FieldsFollowStage
  <2>4. Controlled(s)'
    BY <1>6, <1>10 DEF Controlled, Driven, Acts
  <2>5. RemovedIsSilent(s)'
    <3>1. Silent(s) => Silent(s)'
      BY <1>1, <1>3, <1>4, <1>5, <1>6, <1>10, <1>11 DEF Silent, Entered
    <3>2. BeingMarked(s) => BeingMarked(s)'
      BY <1>10 DEF BeingMarked
    <3> QED
      BY <1>1, <1>2, <3>1, <3>2 DEF SlotInv, RemovedIsSilent
  <2>6. DepthCounts(s)'
    BY <1>1, <1>2, <1>9 DEF SlotInv, DepthCounts
  <2> QED
    BY <2>1, <2>2, <2>3, <2>4, <2>5, <2>6 DEF SlotInv
<1>14. ~Handed(s) /\ (Handed(s)' <=> status = "ok")
  BY <1>3, <1>6, <1>10, <1>12 DEF Handed, Entered
<1>15. heap' + Blocks(inst[s]) + Unit(inst[s].stage \in AllocStage /\ Handed(s))
         = heap + Blocks(r) + Unit(r.stage \in AllocStage /\ Handed(s)')
  BY <1>1, <1>2, <1>4, <1>14, SMTT(30) DEF Blocks, Unit, BlockFor
<1> QED
  BY <1>1, <1>10, <1>11, <1>13, <1>15, MachineStep

-----------------------------------------------------------------------------
(* A notification that runs is alone on the stack: the machines are silent *)
(* while it looks at them.                                                 *)
LEMMA NotifyAlone ==
  ASSUME IInv, stack # <<>>, NEW n, n = Top, n.proc = "Notify"
  PROVE  /\ n \in Frame /\ stack \in Seq(Frame) /\ Nested(stack)
         /\ Return = <<>> /\ FramesOf(Return) = {} /\ Frames = {n} /\ Notifies = {n}
         /\ \A x : FramesOn(x) = {} /\ ~Handed(x)
         /\ NotifyFinds(n) /\ count \in Nat
<1>1. /\ stack \in Seq(Frame) /\ Nested(stack) /\ count \in Nat
      /\ n \in Frame /\ Return \in Seq(Frame) /\ Frames = {n} \cup FramesOf(Return)
      /\ \A g \in FramesOf(Return) : Below(n, g)
  <2>1. stack \in Seq(Frame) /\ Nested(stack) /\ count \in Nat
    BY DEF IInv, TypeOK
  <2> QED
    BY <2>1, TopFacts
<1>2. FramesOf(Return) = {}
  BY <1>1 DEF Below
<1>3. Return = <<>>
  <2>1. ASSUME Len(Return) \in Nat \ {0}
        PROVE  FALSE
    <3>1. 1 \in 1..Len(Return)
      BY <2>1
    <3>2. Return[1] \in FramesOf(Return)
      BY <3>1 DEF FramesOf
    <3> QED
      BY <1>2, <3>2
  <2> QED
    BY <1>1, <2>1, EmptySeq
<1>4. Frames = {n} /\ Notifies = {n}
  BY <1>1, <1>2 DEF Notifies
<1>5. ASSUME NEW x
      PROVE  FramesOn(x) = {} /\ ~Handed(x)
  BY <1>4 DEF FramesOn, OnSlot, Handed
<1> QED
  BY <1>1, <1>2, <1>3, <1>4, <1>5 DEF IInv, NotifyPass

(* A step of the pass that handles instance s and goes on to the frame m:  *)
(* r and calls are the instance and its call after the step.               *)
PassOn(n, s, r, calls, m) ==
  /\ stack # <<>> /\ n = Top /\ n.proc = "Notify"
  /\ s \in Slots /\ s = n.slot /\ s < count /\ r \in Instance /\ calls \in Seq(Call)
  /\ m \in Frame /\ m.proc = "Notify" /\ stack' = Replace(m)
  /\ inst' = [inst EXCEPT ![s] = r] /\ usl' = [usl EXCEPT ![s] = calls]
  /\ count' = count /\ heap' = heap /\ expert' = expert
  /\ r.stage = inst[s].stage /\ r.stopped = inst[s].stopped /\ r.iface = inst[s].iface
  /\ r.pipe = inst[s].pipe /\ r.ring = inst[s].ring /\ r.readBuffer = inst[s].readBuffer
  /\ r.token = inst[s].token /\ r.inFlight = inst[s].inFlight /\ r.depth = inst[s].depth
  /\ calls # <<>> => /\ Len(calls) = 1 /\ r.pending /\ ~r.stopped
                     /\ calls[1].stage = r.stage /\ calls[1].iface = r.iface
  /\ \/ calls # <<>>
     \/ m.slot = s /\ m.at = "clear"
     \/ ~r.pending
  /\ \/ (r.stage = Reading /\ calls # <<>>) => calls[1].aborted
     \/ m.slot = s /\ m.at \in {"hook", "test", "abort"}
  /\ r.removing
  /\ r.hook => m.slot = s /\ m.at = "hook" /\ inst[s].hook
  /\ n.busy => m.busy
  /\ \/ m.slot = s /\ (m.at = "clear" => calls = <<>>)
     \/ m.slot = s + 1 /\ m.at = "mark" /\ (m.busy \/ (~r.pending /\ calls = <<>>))

LEMMA PassStep ==
  ASSUME IInv, NEW n, NEW s, NEW r, NEW calls, NEW m, PassOn(n, s, r, calls, m)
  PROVE  IInv'
<1> USE DEF PassOn
<1>1. /\ n \in Frame /\ stack \in Seq(Frame) /\ Nested(stack) /\ FramesOf(Return) = {}
      /\ Frames = {n} /\ Notifies = {n}
      /\ \A x : FramesOn(x) = {} /\ ~Handed(x)
      /\ NotifyFinds(n) /\ count \in Nat
  BY NotifyAlone
<1>2. /\ inst'[s] = r /\ usl'[s] = calls
      /\ \A x \in Slots : x # s => inst'[x] = inst[x] /\ usl'[x] = usl[x]
      /\ SlotInv(s) /\ s \in Nat
  BY DEF IInv, TypeOK, Slots
<1>3. /\ stack' \in Seq(Frame) /\ Nested(stack)' /\ Frames' = {m}
      /\ \A x : Cardinality(Open(stack, x)') = Cardinality(Open(stack, x))
  <2>1. /\ stack' \in Seq(Frame) /\ Nested(stack)' /\ Frames' = {m} \cup FramesOf(Return)
        /\ \A x : Cardinality(Open(stack, x)') =
                    Cardinality(Open(stack, x)) - Unit(Top.slot = x /\ Entered(Top))
                                                + Unit(m.slot = x /\ Entered(m))
    BY <1>1, ReplaceFacts
  <2>2. \A x : Cardinality(Open(stack, x)) \in Nat
    BY <1>1, OpenNat
  <2>3. ~Entered(Top) /\ ~Entered(m)
    BY DEF Entered
  <2> QED
    BY <1>1, <2>1, <2>2, <2>3 DEF Unit
<1>4. Notifies' = {m} /\ \A x : FramesOn(x)' = {} /\ ~Handed(x)'
  BY <1>3 DEF Notifies, FramesOn, OnSlot, Handed
<1>5. TypeOK'
  BY <1>3 DEF IInv, TypeOK
<1>6. ASSUME NEW x \in Slots, x # s
      PROVE  SlotInv(x)'
  <2>1. SlotInv(x) /\ ~PipeGone(x) /\ ~BeingMarked(x)
    BY <1>1, <1>6 DEF IInv, PipeGone, BeingMarked
  <2> QED
    BY <1>1, <1>2, <1>3, <1>4, <1>6, <2>1, OtherSlot
<1>7. SlotInv(s)'
  <2>1. CallHeld(s)' /\ FramesFind(s)'
    BY <1>2, <1>4 DEF CallHeld, FramesFind
  <2>2. Tokens(s)' /\ FieldsFollowStage(s)' /\ FreeSlot(s)'
    BY <1>2 DEF SlotInv, Tokens, FieldsFollowStage, FreeSlot
  <2>3. DepthCounts(s)'
    BY <1>2, <1>3 DEF SlotInv, DepthCounts
  <2>4. Controlled(s)'
    BY <1>2, <1>4 DEF Controlled, PipeGone, AtRest
  <2>5. RemovedIsSilent(s)'
    BY <1>2, <1>4 DEF RemovedIsSilent, Silent, BeingMarked
  <2> QED
    BY <2>1, <2>2, <2>3, <2>4, <2>5 DEF SlotInv
<1>8. NotifyPass'
  <2>1. /\ inst'[s].removing /\ (~r.hook => Marked(s)')
        /\ (~r.pending /\ calls = <<>> => Quiet(s)')
    BY <1>2, <1>4 DEF Marked, Quiet
  <2>2. ASSUME NEW x \in Slots, x < s
        PROVE  Marked(x)' /\ (m.busy \/ Quiet(x)')
    <3>1. x # s /\ Marked(x) /\ (n.busy \/ Quiet(x))
      BY <1>1, <1>2, <2>2 DEF NotifyFinds, Slots
    <3> QED
      BY <1>2, <1>4, <3>1 DEF Marked, Quiet
  <2>3. NotifyFinds(m)'
    <3>1. expert'.phase = "notifying" /\ m.slot <= count'
      BY <1>1, <1>2 DEF NotifyFinds
    <3>2. \A x \in Slots : x < m.slot => Marked(x)' /\ (m.busy \/ Quiet(x)')
      BY <1>2, <2>1, <2>2 DEF Slots
    <3>3. /\ m.at # "mark" => m.slot < count' /\ inst'[m.slot].removing
          /\ m.at \notin {"mark", "hook"} => Marked(m.slot)'
      BY <2>1
    <3>4. m.at = "clear" => usl'[m.slot] = <<>> /\ FramesOn(m.slot)' = {}
      BY <1>2, <1>4
    <3> QED
      BY <3>1, <3>2, <3>3, <3>4 DEF NotifyFinds
  <2> QED
    BY <1>4, <2>3 DEF NotifyPass
<1>9. Drained'
  BY <1>1 DEF Drained, NotifyFinds
<1>10. HeapCounts'
  <2>1. RingsHeld' = RingsHeld /\ BuffersHeld' = BuffersHeld
    BY <1>2 DEF RingsHeld, BuffersHeld, Live
  <2>2. BlocksHanded' = {} /\ BlocksHanded = {}
    BY <1>1, <1>4 DEF BlocksHanded
  <2> QED
    BY <2>1, <2>2 DEF IInv, HeapCounts
<1> QED
  BY <1>3, <1>5, <1>6, <1>7, <1>8, <1>9, <1>10 DEF IInv

LEMMA NotifyMarkStep ==
  ASSUME Contract, IInv, NotifyMark
  PROVE  IInv'
<1> PICK n : n = Top
  OBVIOUS
<1> PICK s : s = n.slot
  OBVIOUS
<1> PICK r : r = [inst[s] EXCEPT !.removing = TRUE]
  OBVIOUS
<1> PICK m : m = [n EXCEPT !.at = "hook"]
  OBVIOUS
<1> PICK calls : calls = usl[s]
  OBVIOUS
<1>1. /\ stack # <<>> /\ n.proc = "Notify" /\ n.at = "mark" /\ s < count
      /\ inst' = [inst EXCEPT ![s].removing = TRUE]
      /\ stack' = Replace(m)
      /\ count' = count /\ usl' = usl /\ heap' = heap /\ expert' = expert
  BY DEF NotifyMark, Running, Top
<1>2. /\ n \in Frame /\ NotifyFinds(n) /\ FramesOn(s) = {} /\ Notifies = {n}
  BY <1>1, NotifyAlone
<1>3. /\ s \in Slots /\ inst[s] \in Instance /\ calls \in Seq(Call) /\ SlotInv(s)
      /\ inst \in [Slots -> Instance] /\ usl \in [Slots -> Seq(Call)]
  <2>1. s \in Nat /\ count \in 0..MaxInterfaces
    BY <1>1, <1>2 DEF Frame, IInv, TypeOK
  <2>2. s \in Slots
    BY <1>1, <2>1, RegistryAssumption DEF Slots
  <2> QED
    BY <2>2 DEF IInv, TypeOK
<1>4. m \in Frame /\ m.proc = "Notify" /\ m.slot = s /\ m.at = "hook" /\ m.busy = n.busy
  BY <1>1, <1>2 DEF Frame
<1>5. inst' = [inst EXCEPT ![s] = r] /\ usl' = [usl EXCEPT ![s] = calls]
  BY <1>1, <1>3 DEF Instance
<1>6. /\ r \in Instance /\ r.removing /\ r.hook = inst[s].hook /\ r.pending = inst[s].pending
      /\ r.stage = inst[s].stage /\ r.stopped = inst[s].stopped /\ r.iface = inst[s].iface
      /\ r.pipe = inst[s].pipe /\ r.ring = inst[s].ring /\ r.readBuffer = inst[s].readBuffer
      /\ r.token = inst[s].token /\ r.inFlight = inst[s].inFlight /\ r.depth = inst[s].depth
  BY <1>3, ZenonT(40) DEF Instance
<1>7. calls # <<>> => /\ Len(calls) = 1 /\ r.pending /\ ~r.stopped
                      /\ calls[1].stage = r.stage /\ calls[1].iface = r.iface
  BY <1>3, <1>6 DEF SlotInv, CallHeld
<1>8. calls # <<>> \/ ~r.pending
  <2>1. ~Driven(s) /\ ~PipeGone(s)
    BY <1>1, <1>2 DEF Driven, PipeGone
  <2> QED
    BY <1>1, <1>3, <1>6, <2>1 DEF SlotInv, Controlled, AtRest
<1>9. PassOn(n, s, r, calls, m)
  BY <1>1, <1>3, <1>4, <1>5, <1>6, <1>7, <1>8 DEF PassOn
<1> QED
  BY <1>9, PassStep

LEMMA NotifyUnhookStep ==
  ASSUME Contract, IInv, NotifyUnhook
  PROVE  IInv'
<1> PICK n : n = Top
  OBVIOUS
<1> PICK s : s = n.slot
  OBVIOUS
<1> PICK r : r = [inst[s] EXCEPT !.hook = FALSE]
  OBVIOUS
<1> PICK m : m = [n EXCEPT !.at = "test"]
  OBVIOUS
<1> PICK calls : calls = usl[s]
  OBVIOUS
<1>1. /\ stack # <<>> /\ n.proc = "Notify" /\ n.at = "hook"
      /\ inst' = [inst EXCEPT ![s].hook = FALSE]
      /\ stack' = Replace(m)
      /\ count' = count /\ usl' = usl /\ heap' = heap /\ expert' = expert
  BY DEF NotifyUnhook, Running, Top
<1>2. /\ n \in Frame /\ NotifyFinds(n) /\ FramesOn(s) = {} /\ Notifies = {n}
  BY <1>1, NotifyAlone
<1>3. /\ s \in Slots /\ s < count /\ inst[s].removing /\ inst[s] \in Instance /\ calls \in Seq(Call) /\ SlotInv(s)
      /\ inst \in [Slots -> Instance] /\ usl \in [Slots -> Seq(Call)]
  <2>1. s \in Nat /\ count \in 0..MaxInterfaces
    BY <1>1, <1>2 DEF Frame, IInv, TypeOK, NotifyFinds
  <2>2. s < count /\ inst[s].removing
    BY <1>1, <1>2 DEF NotifyFinds
  <2>3. s \in Slots
    BY <2>1, <2>2, RegistryAssumption DEF Slots
  <2> QED
    BY <2>2, <2>3 DEF IInv, TypeOK
<1>4. m \in Frame /\ m.proc = "Notify" /\ m.slot = s /\ m.at = "test" /\ m.busy = n.busy
  BY <1>1, <1>2 DEF Frame
<1>5. inst' = [inst EXCEPT ![s] = r] /\ usl' = [usl EXCEPT ![s] = calls]
  BY <1>1, <1>3 DEF Instance
<1>6. /\ r \in Instance /\ r.removing /\ ~r.hook /\ r.pending = inst[s].pending
      /\ r.stage = inst[s].stage /\ r.stopped = inst[s].stopped /\ r.iface = inst[s].iface
      /\ r.pipe = inst[s].pipe /\ r.ring = inst[s].ring /\ r.readBuffer = inst[s].readBuffer
      /\ r.token = inst[s].token /\ r.inFlight = inst[s].inFlight /\ r.depth = inst[s].depth
  BY <1>3, ZenonT(40) DEF Instance
<1>7. calls # <<>> => /\ Len(calls) = 1 /\ r.pending /\ ~r.stopped
                      /\ calls[1].stage = r.stage /\ calls[1].iface = r.iface
  BY <1>3, <1>6 DEF SlotInv, CallHeld
<1>8. calls # <<>> \/ ~r.pending
  <2>1. ~Driven(s) /\ ~PipeGone(s)
    BY <1>1, <1>2 DEF Driven, PipeGone
  <2> QED
    BY <1>1, <1>3, <1>6, <2>1 DEF SlotInv, Controlled, AtRest
<1>9. PassOn(n, s, r, calls, m)
  BY <1>1, <1>3, <1>4, <1>5, <1>6, <1>7, <1>8 DEF PassOn
<1> QED
  BY <1>9, PassStep

LEMMA NotifyTestStep ==
  ASSUME Contract, IInv, NotifyTest
  PROVE  IInv'
<1> PICK n : n = Top
  OBVIOUS
<1> PICK s : s = n.slot
  OBVIOUS
<1> PICK r : r = inst[s]
  OBVIOUS
<1> PICK m : m = IF r.pending /\ r.pipe THEN [n EXCEPT !.at = "abort"]
                 ELSE NotifyFrame(s + 1, n.busy \/ r.pending, "mark")
  OBVIOUS
<1> PICK calls : calls = usl[s]
  OBVIOUS
<1>1. /\ stack # <<>> /\ n.proc = "Notify" /\ n.at = "test" /\ stack' = Replace(m)
      /\ count' = count /\ inst' = inst /\ usl' = usl /\ heap' = heap /\ expert' = expert
  <2>1. /\ stack # <<>> /\ n.proc = "Notify" /\ n.at = "test"
        /\ count' = count /\ inst' = inst /\ usl' = usl /\ heap' = heap /\ expert' = expert
        /\ stack' = IF r.pending /\ r.pipe THEN Replace([n EXCEPT !.at = "abort"])
                    ELSE Replace(NotifyFrame(s + 1, n.busy \/ r.pending, "mark"))
    BY DEF NotifyTest, Running, Top, NextInstance
  <2> QED
    BY <2>1
<1>2. /\ n \in Frame /\ NotifyFinds(n) /\ FramesOn(s) = {} /\ Notifies = {n}
  BY <1>1, NotifyAlone
<1>3. /\ s \in Slots /\ s < count /\ count \in 0..MaxInterfaces /\ Marked(s)
      /\ r \in Instance /\ calls \in Seq(Call) /\ SlotInv(s)
      /\ inst \in [Slots -> Instance] /\ usl \in [Slots -> Seq(Call)]
  <2>1. s \in Nat /\ count \in 0..MaxInterfaces /\ s < count /\ Marked(s)
    BY <1>1, <1>2 DEF Frame, IInv, TypeOK, NotifyFinds
  <2>2. s \in Slots
    BY <1>1, <2>1, RegistryAssumption DEF Slots
  <2> QED
    BY <2>1, <2>2 DEF IInv, TypeOK
<1>4. inst' = [inst EXCEPT ![s] = r] /\ usl' = [usl EXCEPT ![s] = calls]
  BY <1>1, <1>3
<1>5. r.removing /\ ~r.hook
  BY <1>3 DEF Marked
<1>6. calls # <<>> => /\ Len(calls) = 1 /\ r.pending /\ ~r.stopped
                      /\ calls[1].stage = r.stage /\ calls[1].iface = r.iface
  BY <1>3 DEF SlotInv, CallHeld
<1>7. calls # <<>> \/ ~r.pending
  <2>1. ~Driven(s) /\ ~PipeGone(s)
    BY <1>1, <1>2 DEF Driven, PipeGone
  <2> QED
    BY <1>3, <2>1 DEF SlotInv, Controlled, AtRest
<1>8. CASE r.pending /\ r.pipe
  <2>1. m \in Frame /\ m.proc = "Notify" /\ m.slot = s /\ m.at = "abort" /\ m.busy = n.busy
    BY <1>1, <1>2, <1>8 DEF Frame
  <2>2. PassOn(n, s, r, calls, m)
    BY <1>1, <1>3, <1>4, <1>5, <1>6, <1>7, <2>1 DEF PassOn
  <2> QED
    BY <2>2, PassStep
<1>9. CASE ~(r.pending /\ r.pipe)
  <2>1. /\ m \in Frame /\ m.proc = "Notify" /\ m.slot = s + 1 /\ m.at = "mark"
        /\ (m.busy <=> n.busy \/ r.pending)
    <3>1. s + 1 \in 0..MaxInterfaces
      BY <1>3, RegistryAssumption DEF Slots
    <3> QED
      BY <1>1, <1>2, <1>3, <1>9, <3>1 DEF Frame, NotifyFrame, Instance
  <2>2. calls # <<>> => r.stage # Reading
    BY <1>3, <1>6, <1>9 DEF SlotInv, FieldsFollowStage
  <2>3. PassOn(n, s, r, calls, m)
    BY <1>1, <1>3, <1>4, <1>5, <1>6, <1>7, <2>1, <2>2 DEF PassOn
  <2> QED
    BY <2>3, PassStep
<1> QED
  BY <1>8, <1>9

LEMMA NotifyAbortStep ==
  ASSUME Contract, IInv, NotifyAbort \/ NotifyAbortFails
  PROVE  IInv'
<1> PICK n : n = Top
  OBVIOUS
<1> PICK s : s = n.slot
  OBVIOUS
<1> PICK r : r = inst[s]
  OBVIOUS
<1>1. /\ stack # <<>> /\ n.proc = "Notify" /\ n.at = "abort"
      /\ count' = count /\ inst' = inst /\ heap' = heap /\ expert' = expert
  BY DEF NotifyAbort, NotifyAbortFails, Running, Top
<1>2. /\ n \in Frame /\ NotifyFinds(n) /\ FramesOn(s) = {} /\ Notifies = {n}
  BY <1>1, NotifyAlone
<1>3. /\ s \in Slots /\ s < count /\ count \in 0..MaxInterfaces /\ Marked(s)
      /\ r \in Instance /\ usl[s] \in Seq(Call) /\ SlotInv(s)
      /\ inst \in [Slots -> Instance] /\ usl \in [Slots -> Seq(Call)]
  <2>1. s \in Nat /\ count \in 0..MaxInterfaces /\ s < count /\ Marked(s)
    BY <1>1, <1>2 DEF Frame, IInv, TypeOK, NotifyFinds
  <2>2. s \in Slots
    BY <1>1, <2>1, RegistryAssumption DEF Slots
  <2> QED
    BY <2>1, <2>2 DEF IInv, TypeOK
<1>4. inst' = [inst EXCEPT ![s] = r]
  BY <1>1, <1>3
<1>5. r.removing /\ ~r.hook
  BY <1>3 DEF Marked
<1>6. usl[s] # <<>> => /\ Len(usl[s]) = 1 /\ r.pending /\ ~r.stopped
                       /\ usl[s][1].stage = r.stage /\ usl[s][1].iface = r.iface
  BY <1>3 DEF SlotInv, CallHeld
<1>7. usl[s] # <<>> \/ ~r.pending
  <2>1. ~Driven(s) /\ ~PipeGone(s)
    BY <1>1, <1>2 DEF Driven, PipeGone
  <2> QED
    BY <1>3, <2>1 DEF SlotInv, Controlled, AtRest
<1>8. CASE NotifyAbort
  <2> PICK calls : calls = [k \in 1..Len(usl[s]) |-> AbortedCall(usl[s][k])]
    OBVIOUS
  <2> PICK m : m = NotifyFrame(s + 1, TRUE, "mark")
    OBVIOUS
  <2>1. usl' = [usl EXCEPT ![s] = calls] /\ stack' = Replace(m)
    BY <1>8 DEF NotifyAbort, NextInstance
  <2>2. /\ calls \in Seq(Call) /\ (calls # <<>> <=> usl[s] # <<>>)
        /\ calls # <<>> => /\ Len(calls) = 1 /\ calls[1].stage = usl[s][1].stage
                           /\ calls[1].iface = usl[s][1].iface
                           /\ (calls[1].stage = Reading => calls[1].aborted)
    <3>1. CASE usl[s] = <<>>
      BY <1>3, <3>1
    <3>2. CASE usl[s] # <<>>
      <4>1. 1..Len(usl[s]) = {1} /\ usl[s][1] \in Call /\ Len(usl[s]) = 1
        BY <1>3, <1>6, <3>2
      <4>2. /\ AbortedCall(usl[s][1]) \in Call
            /\ AbortedCall(usl[s][1]).stage = usl[s][1].stage
            /\ AbortedCall(usl[s][1]).iface = usl[s][1].iface
            /\ usl[s][1].stage = Reading => AbortedCall(usl[s][1]).aborted = TRUE
        BY <4>1 DEF AbortedCall, Call
      <4>3. \A k \in 1..Len(usl[s]) : AbortedCall(usl[s][k]) \in Call
        BY <4>1, <4>2
      <4>4. calls \in Seq(Call) /\ Len(calls) = 1 /\ calls[1] = AbortedCall(usl[s][1])
        BY <4>1, <4>3
      <4> QED
        BY <3>2, <4>2, <4>4
    <3> QED
      BY <3>1, <3>2
  <2>3. m \in Frame /\ m.proc = "Notify" /\ m.slot = s + 1 /\ m.at = "mark" /\ m.busy
    <3>1. s + 1 \in 0..MaxInterfaces
      BY <1>3, RegistryAssumption DEF Slots
    <3> QED
      BY <3>1 DEF Frame, NotifyFrame
  <2>4. calls # <<>> => /\ Len(calls) = 1 /\ r.pending /\ ~r.stopped
                        /\ calls[1].stage = r.stage /\ calls[1].iface = r.iface
    BY <1>6, <2>2
  <2>5. calls # <<>> \/ ~r.pending
    BY <1>7, <2>2
  <2>6. r.stage = Reading /\ calls # <<>> => calls[1].aborted
    BY <2>2, <2>4
  <2>7. PassOn(n, s, r, calls, m)
    BY <1>1, <1>3, <1>4, <1>5, <2>1, <2>2, <2>3, <2>4, <2>5, <2>6 DEF PassOn
  <2> QED
    BY <2>7, PassStep
<1>9. CASE NotifyAbortFails
  <2> PICK m : m = [n EXCEPT !.at = "clear"]
    OBVIOUS
  <2>1. /\ usl' = [usl EXCEPT ![s] = WithoutRead(usl[s])] /\ stack' = Replace(m)
        /\ r.stage = Reading
    BY <1>9 DEF NotifyAbortFails, Contract
  <2>2. WithoutRead(usl[s]) = <<>> /\ <<>> \in Seq(Call)
    <3>1. CASE usl[s] # <<>>
      <4>1. Tail(usl[s]) \in Seq(Call) /\ Len(Tail(usl[s])) = 0 /\ Head(usl[s]).stage = Reading
        BY <1>3, <1>6, <2>1, <3>1
      <4> QED
        BY <3>1, <4>1, EmptySeq DEF WithoutRead
    <3> QED
      BY <1>3, <3>1 DEF WithoutRead
  <2>3. m \in Frame /\ m.proc = "Notify" /\ m.slot = s /\ m.at = "clear" /\ m.busy = n.busy
    BY <1>1, <1>2 DEF Frame
  <2>4. usl' = [usl EXCEPT ![s] = <<>>]
    BY <2>1, <2>2
  <2>5. PassOn(n, s, r, <<>>, m)
    BY <1>1, <1>3, <1>4, <1>5, <2>1, <2>2, <2>3, <2>4 DEF PassOn
  <2> QED
    BY <2>5, PassStep
<1> QED
  BY <1>8, <1>9

LEMMA NotifyClearStep ==
  ASSUME Contract, IInv, NotifyClear
  PROVE  IInv'
<1> PICK n : n = Top
  OBVIOUS
<1> PICK s : s = n.slot
  OBVIOUS
<1> PICK r : r = [inst[s] EXCEPT !.pending = FALSE]
  OBVIOUS
<1> PICK m : m = NotifyFrame(s + 1, TRUE, "mark")
  OBVIOUS
<1>1. /\ stack # <<>> /\ n.proc = "Notify" /\ n.at = "clear"
      /\ inst' = [inst EXCEPT ![s].pending = FALSE] /\ stack' = Replace(m)
      /\ count' = count /\ usl' = usl /\ heap' = heap /\ expert' = expert
  BY DEF NotifyClear, Running, Top, NextInstance
<1>2. /\ n \in Frame /\ NotifyFinds(n)
  BY <1>1, NotifyAlone
<1>3. /\ s \in Slots /\ s < count /\ count \in 0..MaxInterfaces /\ Marked(s)
      /\ inst[s] \in Instance /\ usl[s] \in Seq(Call) /\ usl[s] = <<>>
      /\ inst \in [Slots -> Instance] /\ usl \in [Slots -> Seq(Call)]
  <2>1. s \in Nat /\ count \in 0..MaxInterfaces /\ s < count /\ Marked(s) /\ usl[s] = <<>>
    BY <1>1, <1>2 DEF Frame, IInv, TypeOK, NotifyFinds
  <2>2. s \in Slots
    BY <1>1, <2>1, RegistryAssumption DEF Slots
  <2> QED
    BY <2>1, <2>2 DEF IInv, TypeOK
<1>4. inst' = [inst EXCEPT ![s] = r] /\ usl' = [usl EXCEPT ![s] = <<>>]
  BY <1>1, <1>3
<1>5. m \in Frame /\ m.proc = "Notify" /\ m.slot = s + 1 /\ m.at = "mark" /\ m.busy
  <2>1. s + 1 \in 0..MaxInterfaces
    BY <1>3, RegistryAssumption DEF Slots
  <2> QED
    BY <2>1 DEF Frame, NotifyFrame
<1>6. /\ r \in Instance /\ r.removing /\ ~r.hook /\ ~r.pending
      /\ r.stage = inst[s].stage /\ r.stopped = inst[s].stopped /\ r.iface = inst[s].iface
      /\ r.pipe = inst[s].pipe /\ r.ring = inst[s].ring /\ r.readBuffer = inst[s].readBuffer
      /\ r.token = inst[s].token /\ r.inFlight = inst[s].inFlight /\ r.depth = inst[s].depth
  BY <1>3 DEF Instance, Marked
<1>7. PassOn(n, s, r, <<>>, m)
  BY <1>1, <1>3, <1>4, <1>5, <1>6 DEF PassOn
<1> QED
  BY <1>7, PassStep

(* With an empty stack nothing runs on any instance.                       *)
LEMMA IdleFacts ==
  ASSUME IInv, Idle
  PROVE  /\ Frames = {} /\ Notifies = {}
         /\ \A x : FramesOn(x) = {} /\ ~Handed(x) /\ ~PipeGone(x) /\ ~BeingMarked(x)
         /\ \A x : Open(stack, x) = {}
         /\ stack = <<>> /\ stack \in Seq(Frame) /\ Nested(stack) /\ count \in Nat
<1>1. stack = <<>> /\ stack \in Seq(Frame) /\ Nested(stack) /\ count \in Nat
  BY DEF Idle, IInv, TypeOK
<1>2. 1..Len(stack) = {}
  BY <1>1
<1>3. Frames = {} /\ \A x : Open(stack, x) = {}
  BY <1>2 DEF Frames, FramesOf, Open
<1>4. Notifies = {} /\ \A x : FramesOn(x) = {}
  BY <1>3 DEF Notifies, FramesOn
<1> QED
  BY <1>1, <1>3, <1>4 DEF Handed, PipeGone, BeingMarked

LEMMA NotifyReturnStep ==
  ASSUME Contract, IInv, NotifyReturn
  PROVE  IInv'
<1> PICK n : n = Top
  OBVIOUS
<1>1. /\ stack # <<>> /\ n.proc = "Notify" /\ n.at = "mark" /\ n.slot = count
      /\ expert' = (IF n.busy THEN expert ELSE [expert EXCEPT !.phase = "drained"])
      /\ stack' = Return
      /\ count' = count /\ inst' = inst /\ usl' = usl /\ heap' = heap
  BY DEF NotifyReturn, Running, Top
<1>2. /\ n \in Frame /\ stack \in Seq(Frame) /\ Nested(stack)
      /\ Return = <<>> /\ FramesOf(Return) = {} /\ Frames = {n} /\ Notifies = {n}
      /\ \A x : FramesOn(x) = {} /\ ~Handed(x)
      /\ NotifyFinds(n) /\ count \in Nat
  BY <1>1, NotifyAlone
<1>3. /\ stack' = <<>> /\ stack' \in Seq(Frame) /\ Nested(stack)' /\ Frames' = {}
      /\ \A x : Cardinality(Open(stack, x)') = Cardinality(Open(stack, x))
  <2>1. /\ stack' \in Seq(Frame) /\ Nested(stack)' /\ Frames' = FramesOf(Return)
        /\ \A x : Cardinality(Open(stack, x)') =
                    Cardinality(Open(stack, x)) - Unit(Top.slot = x /\ Entered(Top))
    BY <1>1, <1>2, ReturnFacts
  <2>2. \A x : Cardinality(Open(stack, x)) \in Nat
    BY <1>2, OpenNat
  <2>3. ~Entered(Top)
    BY <1>1 DEF Entered
  <2> QED
    BY <1>1, <1>2, <2>1, <2>2, <2>3 DEF Unit
<1>4. Notifies' = {} /\ \A x : FramesOn(x)' = {} /\ ~Handed(x)'
  BY <1>3 DEF Notifies, FramesOn, Handed
<1>5. TypeOK'
  <2>1. expert' \in [phase : {"idle", "announced", "notifying", "drained"},
                     iface : Interfaces \cup {NoInterface}]
    BY <1>1 DEF IInv, TypeOK
  <2> QED
    BY <1>1, <1>3, <2>1 DEF IInv, TypeOK
<1>6. ASSUME NEW x \in Slots
      PROVE  SlotInv(x)'
  <2>1. SlotInv(x) /\ ~PipeGone(x) /\ ~BeingMarked(x)
    BY <1>1, <1>2 DEF IInv, PipeGone, BeingMarked
  <2> QED
    BY <1>1, <1>2, <1>3, <1>4, <2>1, OtherSlot
<1>7. NotifyPass'
  BY <1>4 DEF NotifyPass
<1>8. Drained'
  <2>1. SUFFICES ASSUME expert'.phase = "drained"
                 PROVE  \A s \in Live : Marked(s)' /\ Quiet(s)'
    BY <1>1, <1>3 DEF Drained, Live
  <2>2. ~n.busy
    BY <1>1, <1>2, <2>1 DEF NotifyFinds
  <2> QED
    BY <1>1, <1>2, <1>4, <2>2 DEF NotifyFinds, Marked, Quiet, Live
<1>9. HeapCounts'
  <2>1. RingsHeld' = RingsHeld /\ BuffersHeld' = BuffersHeld
    BY <1>1 DEF RingsHeld, BuffersHeld, Live
  <2>2. BlocksHanded' = {} /\ BlocksHanded = {}
    BY <1>2, <1>4 DEF BlocksHanded
  <2> QED
    BY <1>1, <2>1, <2>2 DEF IInv, HeapCounts
<1> QED
  BY <1>3, <1>5, <1>6, <1>7, <1>8, <1>9 DEF IInv

LEMMA NotifyStep ==
  ASSUME Contract, IInv, Notify
  PROVE  IInv'
<1> PICK m : m = NotifyFrame(0, FALSE, "mark")
  OBVIOUS
<1>1. /\ Idle /\ expert.phase \in {"announced", "notifying"}
      /\ expert' = [expert EXCEPT !.phase = "notifying"] /\ stack' = Push(m)
      /\ count' = count /\ inst' = inst /\ usl' = usl /\ heap' = heap
  BY DEF Notify
<1>2. /\ Frames = {} /\ Notifies = {}
      /\ \A x : FramesOn(x) = {} /\ ~Handed(x) /\ ~PipeGone(x) /\ ~BeingMarked(x)
      /\ \A x : Open(stack, x) = {}
      /\ stack = <<>> /\ stack \in Seq(Frame) /\ Nested(stack) /\ count \in Nat
  BY <1>1, IdleFacts
<1>3. m \in Frame /\ m.proc = "Notify" /\ m.slot = 0 /\ m.at = "mark"
  BY RegistryAssumption DEF NotifyFrame, Frame
<1>4. /\ stack' \in Seq(Frame) /\ Nested(stack)' /\ Frames' = {m}
      /\ \A x : Cardinality(Open(stack, x)') = Cardinality(Open(stack, x))
  <2>1. /\ stack' \in Seq(Frame) /\ Nested(stack)' /\ Frames' = {m} \cup Frames
        /\ \A x : Cardinality(Open(stack, x)') =
                    Cardinality(Open(stack, x)) + Unit(m.slot = x /\ Entered(m))
    BY <1>1, <1>2, <1>3, PreemptFacts
  <2>2. \A x : Cardinality(Open(stack, x)) \in Nat
    BY <1>2, OpenNat
  <2>3. ~Entered(m)
    BY <1>3 DEF Entered
  <2> QED
    BY <1>2, <2>1, <2>2, <2>3 DEF Unit
<1>5. Notifies' = {m} /\ \A x : FramesOn(x)' = {} /\ ~Handed(x)'
  BY <1>3, <1>4 DEF Notifies, FramesOn, OnSlot, Handed
<1>6. TypeOK' /\ expert'.phase = "notifying"
  <2>1. expert' \in [phase : {"idle", "announced", "notifying", "drained"},
                     iface : Interfaces \cup {NoInterface}] /\ expert'.phase = "notifying"
    BY <1>1 DEF IInv, TypeOK
  <2> QED
    BY <1>1, <1>4, <2>1 DEF IInv, TypeOK
<1>7. ASSUME NEW x \in Slots
      PROVE  SlotInv(x)'
  <2>1. SlotInv(x) /\ ~PipeGone(x) /\ ~BeingMarked(x)
    BY <1>2 DEF IInv
  <2> QED
    BY <1>1, <1>2, <1>4, <1>5, <2>1, OtherSlot
<1>8. NotifyPass'
  <2>1. \A x \in Slots : ~(x < m.slot)
    <3>1. \A x \in Slots : ~(x < 0)
      BY RegistryAssumption DEF Slots
    <3>2. m.slot = 0
      BY <1>3
    <3> QED
      BY <3>1, <3>2
  <2>2. m.slot <= count'
    <3>1. count' \in Nat /\ 0 <= count'
      BY <1>1, <1>2
    <3>2. m.slot = 0
      BY <1>3
    <3> QED
      BY <3>1, <3>2
  <2>3. NotifyFinds(m)'
    BY <1>3, <1>6, <2>1, <2>2 DEF NotifyFinds
  <2> QED
    BY <1>5, <2>3 DEF NotifyPass
<1>9. Drained'
  BY <1>6 DEF Drained
<1>10. HeapCounts'
  <2>1. RingsHeld' = RingsHeld /\ BuffersHeld' = BuffersHeld
    BY <1>1 DEF RingsHeld, BuffersHeld, Live
  <2>2. BlocksHanded' = {} /\ BlocksHanded = {}
    BY <1>2, <1>5 DEF BlocksHanded
  <2> QED
    BY <1>1, <2>1, <2>2 DEF IInv, HeapCounts
<1> QED
  BY <1>4, <1>6, <1>7, <1>8, <1>9, <1>10 DEF IInv

-----------------------------------------------------------------------------
(* A new interface takes the first free slot: nothing of its last tenant   *)
(* is left there, the hook that nobody clears included.                    *)
LEMMA FreshFacts ==
  ASSUME NEW r \in Instance, NEW i \in Interfaces
  PROVE  LET q == Fresh(r, i) IN
         /\ q \in Instance /\ q.stage = "AllocRing" /\ q.iface = i
         /\ ~q.stopped /\ ~q.pending /\ ~q.removing /\ ~q.ring /\ ~q.pipe /\ ~q.readBuffer
         /\ q.token = 0 /\ q.inFlight = 0 /\ q.depth = 0 /\ (q.hook <=> r.hook)
<1>1. r.hook \in BOOLEAN /\ "AllocRing" \in Stage
  BY Stages DEF Instance
<1>2. 0 \in 0..(TokenModulus - 1) /\ 0 \in 0..MaxSyncDepth
  BY BoundAssumption
<1> QED
  BY <1>1, <1>2 DEF Fresh, NeverUsed, Instance

LEMMA InitializeInterfaceStep ==
  ASSUME Contract, IInv, NEW i \in Interfaces, InitializeInterface(i)
  PROVE  IInv'
<1> PICK s : s = count
  OBVIOUS
<1> PICK r : r = Fresh(inst[s], i)
  OBVIOUS
<1> PICK f : f = Initiate(s, "task")
  OBVIOUS
<1>1. /\ Idle /\ expert.phase # "drained" /\ count < MaxInterfaces
      /\ count' = count + 1 /\ inst' = [inst EXCEPT ![s] = r] /\ stack' = Push(f)
      /\ usl' = usl /\ heap' = heap /\ expert' = expert
  BY DEF InitializeInterface, MayRun, Contract
<1>2. /\ Frames = {} /\ Notifies = {}
      /\ \A x : FramesOn(x) = {} /\ ~Handed(x) /\ ~PipeGone(x) /\ ~BeingMarked(x)
      /\ \A x : Open(stack, x) = {}
      /\ stack = <<>> /\ stack \in Seq(Frame) /\ Nested(stack) /\ count \in Nat
  BY <1>1, IdleFacts
<1>3. /\ s \in Slots /\ s \in Nat /\ ~(s < count) /\ s < count' /\ count' \in 0..MaxInterfaces
      /\ \A x \in Slots : x # s => (x < count <=> x < count')
  BY <1>1, <1>2, RegistryAssumption DEF Slots
<1>4. /\ inst \in [Slots -> Instance] /\ inst[s] \in Instance /\ SlotInv(s)
      /\ usl \in [Slots -> Seq(Call)]
  BY <1>3 DEF IInv, TypeOK
<1>5. usl[s] = <<>> /\ ~inst[s].hook
  BY <1>3, <1>4 DEF SlotInv, CallHeld, FreeSlot
<1>6. /\ r \in Instance /\ r.stage = "AllocRing" /\ r.iface = i
      /\ ~r.stopped /\ ~r.pending /\ ~r.removing /\ ~r.ring /\ ~r.pipe /\ ~r.readBuffer
      /\ r.token = 0 /\ r.inFlight = 0 /\ r.depth = 0
  BY <1>4, FreshFacts
<1>7. f \in Frame /\ f.proc = "Initiate" /\ f.slot = s /\ f.at = "enter"
  <2>1. 0 \in 0..(TokenModulus - 1)
    BY BoundAssumption
  <2> QED
    BY <1>3, <2>1 DEF Initiate, Frame
<1>8. /\ stack' \in Seq(Frame) /\ Nested(stack)' /\ Frames' = {f}
      /\ \A x : Cardinality(Open(stack, x)') = Cardinality(Open(stack, x))
  <2>1. /\ stack' \in Seq(Frame) /\ Nested(stack)' /\ Frames' = {f} \cup Frames
        /\ \A x : Cardinality(Open(stack, x)') =
                    Cardinality(Open(stack, x)) + Unit(f.slot = x /\ Entered(f))
    BY <1>1, <1>2, <1>7, PreemptFacts
  <2>2. \A x : Cardinality(Open(stack, x)) \in Nat
    BY <1>2, OpenNat
  <2>3. ~Entered(f)
    BY <1>7 DEF Entered
  <2> QED
    BY <1>2, <2>1, <2>2, <2>3 DEF Unit
<1>9. /\ Notifies' = {} /\ FramesOn(s)' = {f} /\ \A x : x # s => FramesOn(x)' = {}
      /\ Acts(f) /\ ~Owes(f)' /\ ~Handed(s)'
  <2>1. Notifies' = {} /\ FramesOn(s)' = {f} /\ \A x : x # s => FramesOn(x)' = {}
    BY <1>7, <1>8 DEF Notifies, FramesOn, OnSlot
  <2>2. Acts(f) /\ ~Owes(f)'
    BY <1>7 DEF Acts, Owes
  <2> QED
    BY <1>7, <2>1, <2>2 DEF Handed
<1>10. /\ inst'[s] = r /\ usl'[s] = <<>>
       /\ \A x \in Slots : x # s => inst'[x] = inst[x] /\ usl'[x] = usl[x]
  BY <1>1, <1>3, <1>4, <1>5
<1>11. TypeOK'
  BY <1>1, <1>3, <1>4, <1>6, <1>8 DEF IInv, TypeOK
<1>12. ASSUME NEW x \in Slots, x # s
       PROVE  SlotInv(x)' /\ (Handed(x)' <=> Handed(x))
  <2>1. SlotInv(x) /\ ~PipeGone(x) /\ ~BeingMarked(x)
    BY <1>2 DEF IInv
  <2> QED
    BY <1>2, <1>3, <1>8, <1>9, <1>10, <1>12, <2>1, OtherSlot
<1>13. SlotInv(s)'
  <2>1. CallHeld(s)'
    BY <1>10 DEF CallHeld
  <2>2. FramesFind(s)'
    <3>1. InitiateFinds(f, inst[s])'
      BY <1>6, <1>7, <1>9, <1>10, BoundAssumption DEF InitiateFinds
    <3> QED
      BY <1>3, <1>7, <1>9, <3>1 DEF FramesFind
  <2>3. Tokens(s)'
    BY <1>6, <1>10, BoundAssumption DEF Tokens
  <2>4. Controlled(s)'
    BY <1>9 DEF Controlled, Driven, Acts
  <2>5. FieldsFollowStage(s)'
    BY <1>6, <1>10 DEF FieldsFollowStage, Reading
  <2>6. RemovedIsSilent(s)' /\ FreeSlot(s)'
    BY <1>3, <1>6, <1>10 DEF RemovedIsSilent, FreeSlot
  <2>7. DepthCounts(s)'
    BY <1>2, <1>6, <1>8, <1>10, FS_EmptySet DEF DepthCounts
  <2> QED
    BY <2>1, <2>2, <2>3, <2>4, <2>5, <2>6, <2>7 DEF SlotInv
<1>14. NotifyPass' /\ Drained'
  BY <1>1, <1>9 DEF NotifyPass, Drained
<1>15. HeapCounts'
  <2>1. s \notin RingsHeld /\ s \notin BuffersHeld /\ s \notin BlocksHanded
    BY <1>3 DEF RingsHeld, BuffersHeld, BlocksHanded, Live
  <2>2. s \notin RingsHeld' /\ s \notin BuffersHeld' /\ s \notin BlocksHanded'
    BY <1>6, <1>9, <1>10 DEF RingsHeld, BuffersHeld, BlocksHanded
  <2>3. Owned(s) = 0 /\ Owned(s)' = 0
    BY <2>1, <2>2 DEF Owned, Unit
  <2>4. heap \in Nat /\ heap' = heap /\ TypeOK /\ HeapCounts
    BY <1>1 DEF IInv, TypeOK
  <2>5. heap' + Owned(s) = heap + Owned(s)'
    BY <2>3, <2>4
  <2> QED
    BY <1>3, <1>10, <1>12, <2>4, <2>5, HeapStep
<1> QED
  BY <1>8, <1>11, <1>12, <1>13, <1>14, <1>15 DEF IInv

LEMMA SetEventCallbackStep ==
  ASSUME Contract, IInv, NEW s \in Slots, NEW hook \in BOOLEAN, SetEventCallback(s, hook)
  PROVE  IInv'
<1> PICK r : r = [inst[s] EXCEPT !.hook = hook]
  OBVIOUS
<1>1. /\ Idle /\ expert.phase # "drained" /\ s < count
      /\ inst' = [inst EXCEPT ![s].hook = hook]
      /\ count' = count /\ stack' = stack /\ usl' = usl /\ heap' = heap /\ expert' = expert
  BY DEF SetEventCallback, MayRun, Contract, Live
<1>2. /\ Frames = {} /\ Notifies = {}
      /\ \A x : FramesOn(x) = {} /\ ~Handed(x) /\ ~PipeGone(x) /\ ~BeingMarked(x)
      /\ stack \in Seq(Frame) /\ Nested(stack) /\ count \in Nat
  BY <1>1, IdleFacts
<1>3. /\ Frames' = Frames /\ Nested(stack)' /\ Notifies' = {}
      /\ \A x : FramesOn(x)' = {} /\ ~Handed(x)'
      /\ \A x : Open(stack, x)' = Open(stack, x)
  <2>1. /\ Frames' = Frames /\ Nested(stack)' /\ \A x : Open(stack, x)' = Open(stack, x)
    BY <1>1, <1>2 DEF Frames, FramesOf, Nested, Open
  <2>2. Notifies' = {} /\ \A x : FramesOn(x)' = {}
    BY <1>2, <2>1 DEF Notifies, FramesOn
  <2> QED
    BY <2>1, <2>2 DEF Handed
<1>4. /\ inst \in [Slots -> Instance] /\ inst[s] \in Instance /\ SlotInv(s)
      /\ usl \in [Slots -> Seq(Call)]
  BY DEF IInv, TypeOK
<1>5. /\ r \in Instance /\ r.removing = inst[s].removing /\ r.pending = inst[s].pending
      /\ r.stage = inst[s].stage /\ r.stopped = inst[s].stopped /\ r.iface = inst[s].iface
      /\ r.pipe = inst[s].pipe /\ r.ring = inst[s].ring /\ r.readBuffer = inst[s].readBuffer
      /\ r.token = inst[s].token /\ r.inFlight = inst[s].inFlight /\ r.depth = inst[s].depth
  BY <1>4 DEF Instance
<1>6. inst' = [inst EXCEPT ![s] = r]
  BY <1>1, <1>4 DEF Instance
<1>7. /\ inst'[s] = r /\ \A x \in Slots : x # s => inst'[x] = inst[x]
  BY <1>4, <1>6
<1>8. TypeOK'
  BY <1>1, <1>2, <1>4, <1>5, <1>6 DEF IInv, TypeOK
<1>9. ASSUME NEW x \in Slots, x # s
      PROVE  SlotInv(x)' /\ (Handed(x)' <=> Handed(x))
  <2>1. SlotInv(x) /\ ~PipeGone(x) /\ ~BeingMarked(x)
    BY <1>2 DEF IInv
  <2> QED
    BY <1>1, <1>2, <1>3, <1>7, <1>9, <2>1, OtherSlot
<1>10. SlotInv(s)'
  <2>1. CallHeld(s)' /\ FramesFind(s)'
    BY <1>1, <1>3, <1>4, <1>5, <1>7 DEF SlotInv, CallHeld, FramesFind
  <2>2. Tokens(s)' /\ FieldsFollowStage(s)' /\ FreeSlot(s)'
    BY <1>1, <1>4, <1>5, <1>7 DEF SlotInv, Tokens, FieldsFollowStage, FreeSlot
  <2>3. DepthCounts(s)'
    BY <1>1, <1>3, <1>4, <1>5, <1>7 DEF SlotInv, DepthCounts
  <2>4. Controlled(s)'
    <3>1. ~Driven(s) /\ ~PipeGone(s)
      BY <1>2 DEF Driven
    <3> QED
      BY <1>1, <1>4, <1>5, <1>7, <3>1 DEF SlotInv, Controlled, AtRest
  <2>5. RemovedIsSilent(s)'
    BY <1>1, <1>2, <1>3, <1>4, <1>5, <1>7 DEF SlotInv, RemovedIsSilent, Silent
  <2> QED
    BY <2>1, <2>2, <2>3, <2>4, <2>5 DEF SlotInv
<1>11. NotifyPass' /\ Drained'
  BY <1>1, <1>3 DEF NotifyPass, Drained
<1>12. HeapCounts'
  <2>1. RingsHeld' = RingsHeld /\ BuffersHeld' = BuffersHeld
    BY <1>1, <1>5, <1>7 DEF RingsHeld, BuffersHeld, Live
  <2>2. BlocksHanded' = {} /\ BlocksHanded = {}
    BY <1>2, <1>3 DEF BlocksHanded
  <2> QED
    BY <1>1, <2>1, <2>2 DEF IInv, HeapCounts
<1> QED
  BY <1>1, <1>2, <1>3, <1>8, <1>9, <1>10, <1>11, <1>12 DEF IInv

(* What the invariant says of the machines depends on all variables but    *)
(* the Expert's.                                                           *)
LEMMA SameMachines ==
  ASSUME IInv, count' = count, inst' = inst, usl' = usl, heap' = heap, stack' = stack
  PROVE  /\ Nested(stack)' /\ HeapCounts' /\ Frames' = Frames /\ Notifies' = Notifies
         /\ \A s \in Slots : SlotInv(s)' /\ FramesOn(s)' = FramesOn(s)
<1>1. /\ Nested(stack)' /\ Frames' = Frames /\ Notifies' = Notifies
      /\ \A x : FramesOn(x)' = FramesOn(x) /\ Open(stack, x)' = Open(stack, x)
  <2>1. Nested(stack)' /\ Frames' = Frames /\ \A x : Open(stack, x)' = Open(stack, x)
    BY DEF IInv, Nested, Frames, FramesOf, Open
  <2> QED
    BY <2>1 DEF Notifies, FramesOn
<1>2. ASSUME NEW x \in Slots
      PROVE  SlotInv(x)' /\ (Handed(x)' <=> Handed(x))
  <2>1. SlotInv(x) /\ (PipeGone(x) => PipeGone(x)') /\ (BeingMarked(x) => BeingMarked(x)')
    BY <1>1 DEF IInv, PipeGone, BeingMarked
  <2> QED
    BY <1>1, <2>1, OtherSlot
<1>3. HeapCounts'
  <2>1. RingsHeld' = RingsHeld /\ BuffersHeld' = BuffersHeld /\ BlocksHanded' = BlocksHanded
    BY <1>2 DEF RingsHeld, BuffersHeld, BlocksHanded, Live
  <2> QED
    BY <2>1 DEF IInv, HeapCounts
<1> QED
  BY <1>1, <1>2, <1>3

LEMMA UnplugStep ==
  ASSUME Contract, IInv, NEW i \in Interfaces, Unplug(i)
  PROVE  IInv'
<1>1. /\ expert.phase = "idle" /\ expert' = [phase |-> "announced", iface |-> i]
      /\ count' = count /\ inst' = inst /\ usl' = usl /\ heap' = heap /\ stack' = stack
  BY DEF Unplug
<1>2. /\ Nested(stack)' /\ HeapCounts' /\ Notifies' = Notifies /\ \A s \in Slots : SlotInv(s)'
  BY <1>1, SameMachines
<1>3. TypeOK'
  BY <1>1 DEF IInv, TypeOK
<1>4. Notifies = {}
  BY <1>1 DEF IInv, NotifyPass, NotifyFinds
<1>5. NotifyPass' /\ Drained'
  BY <1>1, <1>2, <1>4 DEF NotifyPass, Drained
<1> QED
  BY <1>2, <1>3, <1>5 DEF IInv

LEMMA StutterStep ==
  ASSUME IInv, UNCHANGED vars
  PROVE  IInv'
<1>1. /\ expert' = expert /\ count' = count /\ inst' = inst /\ usl' = usl
      /\ heap' = heap /\ stack' = stack
  BY DEF vars
<1>2. /\ Nested(stack)' /\ HeapCounts' /\ Frames' = Frames /\ Notifies' = Notifies
      /\ \A s \in Slots : SlotInv(s)' /\ FramesOn(s)' = FramesOn(s)
  BY <1>1, SameMachines
<1>3. TypeOK'
  BY <1>1 DEF IInv, TypeOK
<1>4. NotifyPass'
  <2>1. \A x : FramesOn(x)' = FramesOn(x)
    BY <1>2 DEF FramesOn
  <2>2. ASSUME NEW f, NotifyFinds(f)
        PROVE  NotifyFinds(f)'
    BY <1>1, <2>1, <2>2 DEF NotifyFinds, Marked, Quiet
  <2> QED
    BY <1>2, <2>2 DEF IInv, NotifyPass
<1>5. Drained'
  BY <1>1, <1>2 DEF IInv, Drained, Live, Marked, Quiet
<1> QED
  BY <1>2, <1>3, <1>4, <1>5 DEF IInv

(* The last element of a set of slots moves to s, or goes if it is s.      *)
LEMMA MoveStep ==
  ASSUME NEW A, NEW B, NEW s, NEW m, IsFiniteSet(A),
         \A x : x # s /\ x # m => (x \in B <=> x \in A),
         m \notin B, s # m => (s \in B <=> m \in A)
  PROVE  /\ Cardinality(A) \in Nat /\ Cardinality(B) \in Nat
         /\ Cardinality(B) + Unit(s \in A) = Cardinality(A)
<1> DEFINE C == A \ {m}
<1>1. /\ IsFiniteSet(C) /\ Cardinality(A) \in Nat /\ Cardinality(C) \in Nat
      /\ Cardinality(C) + Unit(m \in A) = Cardinality(A)
  <2>1. /\ IsFiniteSet(C) /\ Cardinality(A) \in Nat /\ Cardinality(C) \in Nat
        /\ Cardinality(C) + Unit(m \in A) = Cardinality(A) + Unit(m \in C)
    BY CardStep
  <2> QED
    BY <2>1 DEF Unit
<1>2. CASE s = m
  <2>1. B = C
    BY <1>2
  <2> QED
    BY <1>1, <1>2, <2>1
<1>3. CASE s # m
  <2>1. /\ Cardinality(B) \in Nat
        /\ Cardinality(B) + Unit(s \in C) = Cardinality(C) + Unit(s \in B)
    BY <1>1, CardStep, SMTT(30)
  <2>2. (s \in C <=> s \in A) /\ (s \in B <=> m \in A)
    BY <1>3
  <2> HIDE DEF C
  <2> QED
    BY <1>1, <2>1, <2>2 DEF Unit
<1> QED
  BY <1>2, <1>3

LEMMA DisposedFacts ==
  ASSUME NEW r \in Instance
  PROVE  Disposed(r) \in Instance /\ (Disposed(r).hook <=> r.hook)
<1>1. "AllocRing" \in Stage
  BY Stages
<1> QED
  BY <1>1 DEF Disposed, Instance

LEMMA FinalizeStep ==
  ASSUME Contract, IInv, Finalize
  PROVE  IInv'
<1> PICK s : s \in Live /\ DisposeInstance(s)
  BY DEF Finalize
<1> PICK m : m = count - 1
  OBVIOUS
<1> PICK r : r = IF s < m THEN inst[m] ELSE Disposed(inst[s])
  OBVIOUS
<1>1. /\ Idle /\ expert.phase = "drained" /\ s \in Slots /\ s < count
      /\ heap' = heap - Blocks(inst[s]) /\ count' = count - 1
      /\ inst' = [inst EXCEPT ![s] = r]
      /\ usl' = usl /\ stack' = stack /\ expert' = NoRemoval
  BY DEF Finalize, DisposeInstance, Live
<1>2. /\ Frames = {} /\ Notifies = {}
      /\ \A x : FramesOn(x) = {} /\ ~Handed(x) /\ ~PipeGone(x) /\ ~BeingMarked(x)
      /\ \A x : Open(stack, x) = {}
      /\ stack \in Seq(Frame) /\ Nested(stack) /\ count \in Nat
  BY <1>1, IdleFacts
<1>3. /\ Nested(stack)' /\ Notifies' = {}
      /\ \A x : FramesOn(x)' = {} /\ ~Handed(x)'
      /\ \A x : Open(stack, x)' = Open(stack, x)
  <2>1. /\ Frames' = Frames /\ Nested(stack)' /\ \A x : Open(stack, x)' = Open(stack, x)
    BY <1>1, <1>2 DEF Frames, FramesOf, Nested, Open
  <2>2. Notifies' = {} /\ \A x : FramesOn(x)' = {}
    BY <1>2, <2>1 DEF Notifies, FramesOn
  <2> QED
    BY <2>1, <2>2 DEF Handed
<1>4. /\ m \in Slots /\ m < count /\ count' = m /\ count' \in 0..MaxInterfaces
      /\ \A x \in Slots : x # m => (x < count <=> x < count')
      /\ s = m \/ s < m
  <2>1. count \in 0..MaxInterfaces /\ s \in Nat
    BY <1>1 DEF IInv, TypeOK, Slots
  <2> QED
    BY <1>1, <2>1, RegistryAssumption DEF Slots
<1>5. /\ inst \in [Slots -> Instance] /\ inst[s] \in Instance /\ inst[m] \in Instance
      /\ usl \in [Slots -> Seq(Call)] /\ heap \in Nat /\ SlotInv(m)
  BY <1>1, <1>4 DEF IInv, TypeOK
<1>6. \A x \in Slots : x < count => Marked(x) /\ Quiet(x)
  BY <1>1 DEF IInv, Drained, Live
<1>7. /\ r \in Instance /\ ~r.hook
      /\ s < m => r = inst[m]
  <2>1. CASE s < m
    BY <1>4, <1>5, <1>6, <2>1 DEF Marked
  <2>2. CASE ~(s < m)
    BY <1>1, <1>5, <1>6, <2>2, DisposedFacts DEF Marked
  <2> QED
    BY <2>1, <2>2
<1>8. /\ inst'[s] = r /\ \A x \in Slots : x # s => inst'[x] = inst[x]
  BY <1>1, <1>5
<1>9. ASSUME NEW x \in Slots, x # s, x # m
      PROVE  SlotInv(x)'
  <2>1. SlotInv(x)
    BY DEF IInv
  <2> QED
    BY <1>1, <1>2, <1>3, <1>4, <1>8, <1>9, <2>1, OtherSlot
<1>10. SlotInv(m)'
  <2>1. ~(m < count') /\ usl'[m] = <<>> /\ ~inst'[m].hook
    BY <1>1, <1>4, <1>6, <1>7, <1>8 DEF Marked, Quiet
  <2> QED
    BY <1>3, <2>1 DEF SlotInv, CallHeld, FramesFind, Tokens, Controlled, FieldsFollowStage,
                      RemovedIsSilent, FreeSlot, DepthCounts
<1>11. ASSUME s < m
       PROVE  SlotInv(s)'
  <2>1. /\ s < count' /\ usl'[s] = <<>> /\ inst'[s] = inst[m] /\ FramesOn(s)' = {}
        /\ Marked(m) /\ Quiet(m)
    BY <1>1, <1>3, <1>4, <1>6, <1>7, <1>8, <1>11 DEF Quiet
  <2>2. CallHeld(s)' /\ FramesFind(s)' /\ FreeSlot(s)'
    BY <2>1 DEF CallHeld, FramesFind, FreeSlot
  <2>3. Tokens(s)'
    BY <1>4, <1>5, <2>1 DEF SlotInv, Tokens
  <2>4. FieldsFollowStage(s)'
    BY <1>4, <1>5, <2>1 DEF SlotInv, FieldsFollowStage
  <2>5. Controlled(s)'
    BY <2>1 DEF Controlled, AtRest, Marked, Quiet
  <2>6. RemovedIsSilent(s)'
    BY <2>1 DEF RemovedIsSilent, Silent
  <2>7. DepthCounts(s)'
    BY <1>2, <1>3, <1>4, <1>5, <2>1 DEF SlotInv, DepthCounts
  <2> QED
    BY <2>2, <2>3, <2>4, <2>5, <2>6, <2>7 DEF SlotInv
<1>12. HeapCounts' /\ heap' \in Nat
  <2>1. IsFiniteSet(RingsHeld) /\ IsFiniteSet(BuffersHeld)
    BY HeldFinite DEF IInv
  <2>2. /\ \A x : x # s /\ x # m => (x \in RingsHeld' <=> x \in RingsHeld)
        /\ \A x : x # s /\ x # m => (x \in BuffersHeld' <=> x \in BuffersHeld)
    BY <1>4, <1>8 DEF RingsHeld, BuffersHeld, Live
  <2>3. m \notin RingsHeld' /\ m \notin BuffersHeld'
    BY <1>4 DEF RingsHeld, BuffersHeld, Live, Slots
  <2>4. s # m => (s \in RingsHeld' <=> m \in RingsHeld) /\ (s \in BuffersHeld' <=> m \in BuffersHeld)
    BY <1>1, <1>4, <1>7, <1>8 DEF RingsHeld, BuffersHeld, Live
  <2>5. /\ Cardinality(RingsHeld) \in Nat /\ Cardinality(RingsHeld') \in Nat
        /\ Cardinality(RingsHeld') + Unit(s \in RingsHeld) = Cardinality(RingsHeld)
    BY <2>1, <2>2, <2>3, <2>4, MoveStep
  <2>6. /\ Cardinality(BuffersHeld) \in Nat /\ Cardinality(BuffersHeld') \in Nat
        /\ Cardinality(BuffersHeld') + Unit(s \in BuffersHeld) = Cardinality(BuffersHeld)
    BY <2>1, <2>2, <2>3, <2>4, MoveStep
  <2>7. Blocks(inst[s]) = Unit(s \in RingsHeld) + Unit(s \in BuffersHeld)
    BY <1>1 DEF Blocks, Unit, RingsHeld, BuffersHeld, Live
  <2>8. BlocksHanded = {} /\ BlocksHanded' = {} /\ Cardinality({}) = 0
    BY <1>2, <1>3, FS_EmptySet DEF BlocksHanded
  <2>9. heap = Cardinality(RingsHeld) + Cardinality(BuffersHeld) + 0
    BY <2>8 DEF IInv, HeapCounts
  <2>10. heap' = Cardinality(RingsHeld') + Cardinality(BuffersHeld')
    <3>1. heap' = heap - (Unit(s \in RingsHeld) + Unit(s \in BuffersHeld))
      BY <1>1, <2>7
    <3>2. Unit(s \in RingsHeld) \in Nat /\ Unit(s \in BuffersHeld) \in Nat
      BY DEF Unit
    <3>3. heap = Cardinality(RingsHeld) + Cardinality(BuffersHeld)
      BY <2>5, <2>6, <2>9
    <3> QED
      BY <2>5, <2>6, <3>1, <3>2, <3>3
  <2> QED
    BY <2>5, <2>6, <2>8, <2>10 DEF HeapCounts
<1>13. TypeOK'
  <2>1. NoRemoval \in [phase : {"idle", "announced", "notifying", "drained"},
                       iface : Interfaces \cup {NoInterface}]
    BY DEF NoRemoval
  <2>2. inst' \in [Slots -> Instance]
    BY <1>1, <1>5, <1>7
  <2> QED
    BY <1>1, <1>2, <1>4, <1>5, <1>12, <2>1, <2>2 DEF TypeOK
<1>14. NotifyPass' /\ Drained'
  BY <1>1, <1>3 DEF NotifyPass, Drained, NoRemoval
<1>15. \A x \in Slots : SlotInv(x)'
  BY <1>4, <1>9, <1>10, <1>11
<1> QED
  BY <1>3, <1>12, <1>13, <1>14, <1>15 DEF IInv

LEMMA InitEstablishes ==
  ASSUME Init
  PROVE  IInv
<1>1. /\ count = 0 /\ usl = [s \in Slots |-> <<>>] /\ heap = 0 /\ stack = <<>>
      /\ inst = [s \in Slots |-> NeverUsed] /\ expert = NoRemoval
  BY DEF Init
<1>2. Frames = {} /\ Nested(stack) /\ Notifies = {} /\ \A x : FramesOn(x) = {}
  <2>1. 1..Len(stack) = {}
    BY <1>1
  <2>2. Frames = {} /\ Nested(stack)
    BY <2>1 DEF Frames, FramesOf, Nested
  <2> QED
    BY <2>2 DEF Notifies, FramesOn
<1>3. TypeOK
  <2>1. NeverUsed \in Instance
    <3>1. "AllocRing" \in Stage
      BY Stages
    <3>2. 0 \in 0..(TokenModulus - 1) /\ 0 \in 0..MaxSyncDepth
      BY BoundAssumption
    <3> QED
      BY <3>1, <3>2 DEF NeverUsed, Instance
  <2>2. 0 \in 0..MaxInterfaces
    BY RegistryAssumption
  <2>3. /\ <<>> \in Seq(Frame) /\ <<>> \in Seq(Call)
    OBVIOUS
  <2>4. NoRemoval \in [phase : {"idle", "announced", "notifying", "drained"},
                       iface : Interfaces \cup {NoInterface}]
    BY DEF NoRemoval
  <2> QED
    BY <1>1, <2>1, <2>2, <2>3, <2>4 DEF TypeOK
<1>4. ASSUME NEW s \in Slots
      PROVE  SlotInv(s)
  <2>1. ~(s < count) /\ usl[s] = <<>> /\ ~inst[s].hook
    BY <1>1 DEF Slots, NeverUsed
  <2> QED
    BY <1>2, <2>1 DEF SlotInv, CallHeld, FramesFind, Tokens, Controlled, FieldsFollowStage,
                      RemovedIsSilent, FreeSlot, DepthCounts
<1>5. NotifyPass /\ Drained
  BY <1>1, <1>2 DEF NotifyPass, Drained, NoRemoval
<1>6. HeapCounts
  <2>1. RingsHeld = {} /\ BuffersHeld = {} /\ BlocksHanded = {}
    BY <1>1 DEF RingsHeld, BuffersHeld, BlocksHanded, Live, Slots
  <2> QED
    BY <1>1, <2>1, FS_EmptySet DEF HeapCounts
<1> QED
  BY <1>2, <1>3, <1>4, <1>5, <1>6 DEF IInv

-----------------------------------------------------------------------------
LEMMA StepKeepsIInv == ASSUME Contract, IInv, [Next]_vars PROVE IInv'
<1>1. CASE CpuStep
  <2>1. CASE InitiateRefused
    BY <2>1, InitiateRefusedStep
  <2>2. CASE IssuePending
    BY <2>2, IssuePendingStep
  <2>3. CASE IssueError \/ IssueDone
    BY <2>3, IssueUnreportedStep
  <2>4. ASSUME NEW status \in ReadStatus, NEW err \in {"ok", "pending"},
               IssueCompletesInside(status, err)
        PROVE  IInv'
    BY <2>4, IssueCompletesInsideStep
  <2>5. CASE ReturnedStop
    BY <2>5, ReturnedStopStep
  <2>6. CASE ReturnedDrive
    BY <2>6, ReturnedDriveStep
  <2>7. CASE ReturnedNothing \/ InitiateLeaves
    BY <2>7, LeaveStep
  <2>8. CASE CompletionProc
    BY <2>8, CompletionProcStep
  <2>9. CASE NotifyMark \/ NotifyUnhook
    BY <2>9, NotifyMarkStep, NotifyUnhookStep
  <2>10. CASE NotifyTest
    BY <2>10, NotifyTestStep
  <2>11. CASE NotifyAbort \/ NotifyAbortFails
    BY <2>11, NotifyAbortStep
  <2>12. CASE NotifyClear
    BY <2>12, NotifyClearStep
  <2>13. CASE NotifyReturn
    BY <2>13, NotifyReturnStep
  <2> QED
    BY <1>1, <2>1, <2>2, <2>3, <2>4, <2>5, <2>6, <2>7, <2>8, <2>9, <2>10, <2>11, <2>12, <2>13
       DEF CpuStep
<1>2. ASSUME NEW s \in Slots, NEW status \in ReadStatus, CallCompletes(s, status)
      PROVE  IInv'
  BY <1>2, CallCompletesStep
<1>3. ASSUME NEW i \in Interfaces, InitializeInterface(i)
      PROVE  IInv'
  BY <1>3, InitializeInterfaceStep
<1>4. ASSUME NEW i \in Interfaces, Unplug(i)
      PROVE  IInv'
  BY <1>4, UnplugStep
<1>5. ASSUME NEW s \in Slots, NEW hook \in BOOLEAN, SetEventCallback(s, hook)
      PROVE  IInv'
  BY <1>5, SetEventCallbackStep
<1>6. CASE Notify
  BY <1>6, NotifyStep
<1>7. CASE Finalize
  BY <1>7, FinalizeStep
<1>8. CASE UNCHANGED vars
  BY <1>8, StutterStep
<1> QED
  BY <1>1, <1>2, <1>3, <1>4, <1>5, <1>6, <1>7, <1>8 DEF Next

(* The inductive invariant: at every moment one party, the USL, a frame of *)
(* the processor or nobody, has the parameter block of each instance.      *)
THEOREM UsbInvariant == ASSUME Contract PROVE Spec => []IInv
<1>1. Init => IInv
  BY InitEstablishes
<1>2. IInv /\ [Next]_vars => IInv'
  BY StepKeepsIInv
<1> QED
  BY <1>1, <1>2, PTL DEF Spec

(* Instances, calls and frames keep their types: neither the token nor the *)
(* nesting depth nor the count of slots ever leaves its range.             *)
THEOREM UsbTypeCorrect == ASSUME Contract PROVE Spec => []TypeOK
<1>1. IInv => TypeOK
  BY DEF IInv
<1> QED
  BY <1>1, UsbInvariant, PTL

(* The one PB of an instance is never submitted twice, and the call on it  *)
(* is the one the instance waits for (USBMIDI9InitiateTransaction,         *)
(* USBMIDI9CompletionProc, USBMIDI9DisposeInstance).                       *)
THEOREM UsbOneCall == ASSUME Contract PROVE Spec => []OneCallPerInstance
<1>1. ASSUME IInv, NEW s \in Slots, usl[s] # <<>>
      PROVE  /\ Len(usl[s]) = 1 /\ s < count /\ inst[s].pending
             /\ inst[s].iface = Head(usl[s]).iface /\ inst[s].stage = Head(usl[s]).stage
  <2>1. /\ Len(usl[s]) = 1 /\ s < count /\ inst[s].pending
        /\ usl[s][1].stage = inst[s].stage /\ usl[s][1].iface = inst[s].iface
    BY <1>1 DEF IInv, SlotInv, CallHeld
  <2>2. usl[s] \in Seq(Call)
    BY <1>1 DEF IInv, TypeOK
  <2>3. Head(usl[s]) = usl[s][1]
    BY <1>1, <2>2
  <2> QED
    BY <2>1, <2>3
<1>2. IInv => OneCallPerInstance
  BY <1>1 DEF OneCallPerInstance
<1> QED
  BY <1>2, UsbInvariant, PTL

(* "the machine can never wedge with kCompletionPending set and no         *)
(* completion in flight" (usb_driver.c), nor fall silent.                  *)
THEOREM UsbNeverWedged == ASSUME Contract PROVE Spec => []NeverWedged
<1>1. ASSUME IInv, Idle, NEW s \in Live
      PROVE  /\ inst[s].pending <=> usl[s] # <<>>
             /\ inst[s].pending \/ inst[s].stopped \/ inst[s].removing
  <2>1. s \in Slots /\ s < count /\ SlotInv(s)
    BY <1>1 DEF Live, IInv
  <2>2. ~Driven(s) /\ ~PipeGone(s)
    BY <1>1, IdleFacts DEF Driven
  <2>3. usl[s] # <<>> \/ AtRest(s)
    BY <2>1, <2>2 DEF SlotInv, Controlled
  <2>4. usl[s] # <<>> => inst[s].pending
    BY <2>1 DEF SlotInv, CallHeld
  <2>5. inst[s].pending \in BOOLEAN
    BY <1>1, <2>1 DEF IInv, TypeOK, Instance
  <2> QED
    BY <2>3, <2>4, <2>5 DEF AtRest
<1>2. IInv => NeverWedged
  BY <1>1 DEF NeverWedged
<1> QED
  BY <1>2, UsbInvariant, PTL

(* transDepth is the number of activations of the machine in progress, so  *)
(* the re-entrancy bound refuses nothing but a synchronous storm.          *)
THEOREM UsbDepthCounts == ASSUME Contract PROVE Spec => []DepthCountsNesting
<1>1. ASSUME IInv, NEW s \in Live
      PROVE  inst[s].depth = Cardinality(Open(stack, s))
  BY <1>1 DEF Live, IInv, SlotInv, DepthCounts
<1>2. IInv => DepthCountsNesting
  BY <1>1 DEF DepthCountsNesting, Open
<1> QED
  BY <1>2, UsbInvariant, PTL

(* Every block the USL handed out is in a field of one live instance when  *)
(* no driver code runs: finalize frees all there is to free, once.         *)
THEOREM UsbBlocksOwned == ASSUME Contract PROVE Spec => []BlocksOwned
<1>1. ASSUME IInv, Idle
      PROVE  heap = Cardinality(RingsHeld) + Cardinality(BuffersHeld)
  <2>1. BlocksHanded = {} /\ Cardinality({}) = 0
    BY <1>1, IdleFacts, FS_EmptySet DEF BlocksHanded
  <2>2. Cardinality(RingsHeld) \in Nat /\ Cardinality(BuffersHeld) \in Nat
    BY <1>1, HeldFinite, FS_CardinalityType DEF IInv
  <2> QED
    BY <1>1, <2>1, <2>2 DEF IInv, HeapCounts
<1>2. IInv => BlocksOwned
  BY <1>1 DEF BlocksOwned, RingsHeld, BuffersHeld
<1> QED
  BY <1>2, UsbInvariant, PTL

(* No order of completions, refusals and removals lets the read loop run   *)
(* without its pipe, its ring or its buffer.                               *)
THEOREM UsbReadsHaveBuffers == ASSUME Contract PROVE Spec => []ReadsHaveBuffers
<1>1. ASSUME IInv, NEW s \in Live, inst[s].stage = Reading
      PROVE  inst[s].ring /\ inst[s].pipe /\ inst[s].readBuffer
  <2>1. s \in Slots /\ s < count /\ FieldsFollowStage(s) /\ inst[s] \in Instance
    BY <1>1 DEF Live, IInv, SlotInv, TypeOK
  <2>2. inst[s].stopped \in BOOLEAN /\ inst[s].ring \in BOOLEAN /\ inst[s].pipe \in BOOLEAN
        /\ inst[s].readBuffer \in BOOLEAN
    BY <2>1 DEF Instance
  <2> QED
    BY <1>1, <2>1, <2>2 DEF FieldsFollowStage, Reading
<1>2. IInv => ReadsHaveBuffers
  BY <1>1 DEF ReadsHaveBuffers
<1> QED
  BY <1>2, UsbInvariant, PTL

(* "no pushes into a dying client": a completion that calls the event hook *)
(* of an instance the notification has marked came between the two         *)
(* statements that mark it and take its hook.                              *)
THEOREM UsbNoPush == ASSUME Contract PROVE Spec => []NoPushAfterUnhook
<1>1. ASSUME IInv, EventFires, inst[Top.slot].removing
      PROVE  AtTheHook(Top.slot)
  <2> PICK f : f = Top
    OBVIOUS
  <2> PICK s : s = f.slot
    OBVIOUS
  <2>1. /\ stack # <<>> /\ f.proc = "Completion" /\ f.status = "ok"
        /\ inst[s].stage = Reading /\ inst[s].hook
    BY <1>1 DEF EventFires, Running, Top
  <2>2. s \in Slots /\ s < count /\ f \in FramesOn(s)
    <3>1. /\ s \in Slots /\ s < count /\ OnSlot(f, s)
          /\ Frames = {f} \cup FramesOf(Return)
      BY <1>1, <2>1, OnTop
    <3> QED
      BY <3>1 DEF FramesOn
  <2>3. ~Silent(s)
    BY <2>1, <2>2 DEF Silent
  <2>4. BeingMarked(s)
    <3>1. RemovedIsSilent(s) /\ inst[s].removing
      BY <1>1, <2>2 DEF IInv, SlotInv
    <3> QED
      BY <2>2, <2>3, <3>1 DEF RemovedIsSilent
  <2>5. PICK g \in Notifies : g.slot = s /\ g.at \in {"hook", "test", "abort"}
    BY <2>4 DEF BeingMarked
  <2>6. g.at = "hook"
    BY <1>1, <2>1, <2>5 DEF IInv, NotifyPass, NotifyFinds, Marked
  <2> QED
    BY <2>5, <2>6 DEF AtTheHook, Notifies, Frames, FramesOf
<1>2. IInv => NoPushAfterUnhook
  BY <1>1 DEF NoPushAfterUnhook
<1> QED
  BY <1>2, UsbInvariant, PTL

(* "finalize runs only after every completion has drained": no instance is *)
(* disposed of, or moved, while the USL holds a call on any PB.            *)
THEOREM UsbFinalizeQuiet == ASSUME Contract PROVE Spec => FinalizeQuiet
<1>1. ASSUME IInv, Next, count' < count
      PROVE  \A s \in Live : usl[s] = <<>>
  <2>1. count \in Nat
    BY <1>1 DEF IInv, TypeOK
  <2>2. ASSUME count' = count \/ count' = count + 1
        PROVE  FALSE
    BY <1>1, <2>1, <2>2
  <2>3. Finalize
    <3>1. CpuStep => count' = count
      BY DEF CpuStep, InitiateRefused, IssuePending, IssueError, IssueDone,
             IssueCompletesInside, ReturnedStop, ReturnedDrive, ReturnedNothing,
             InitiateLeaves, CompletionProc, NotifyMark, NotifyUnhook, NotifyTest, NotifyAbort,
             NotifyAbortFails, NotifyClear, NotifyReturn
    <3> QED
      BY <1>1, <2>2, <3>1
         DEF Next, CallCompletes, InitializeInterface, Unplug, SetEventCallback, Notify
  <2>4. expert.phase = "drained"
    BY <2>3 DEF Finalize
  <2> QED
    BY <1>1, <2>4 DEF IInv, Drained, Quiet
<1>2. ASSUME IInv, [Next]_vars
      PROVE  [count' < count => \A s \in Live : usl[s] = <<>>]_vars
  BY <1>1, <1>2
<1> QED
  BY <1>2, UsbInvariant, PTL DEF Spec, FinalizeQuiet

-----------------------------------------------------------------------------
(* The list of interfaces the clients see, and the removal in progress.    *)
Pass == \E k \in 1..Len(stack) : stack[k].proc = "Notify"
View == [s \in 1..count |-> Interface(s)]
Removal == [phase |-> expert.phase, iface |-> expert.iface, pass |-> Pass]

SameView(q, r) == q.iface = r.iface /\ q.hook = r.hook /\ q.removing = r.removing

LEMMA PassFacts == Pass <=> Notifies # {}
BY DEF Pass, Notifies, Frames, FramesOf

LEMMA ViewFacts ==
  ASSUME TypeOK
  PROVE  /\ View \in Seq({Interface(s) : s \in 1..count}) /\ Len(View) = count
         /\ \A s \in 1..count : s - 1 \in Live /\ View[s] = Interface(s)
         /\ \A s \in Live : s + 1 \in 1..count
<1>1. count \in Nat /\ count <= MaxInterfaces
  BY DEF TypeOK
<1>2. \A s \in 1..count : s - 1 \in Live
  BY <1>1, RegistryAssumption DEF Live, Slots
<1>3. \A s \in Live : s + 1 \in 1..count
  BY <1>1, RegistryAssumption DEF Live, Slots
<1> QED
  BY <1>1, <1>2, <1>3 DEF View

(* Steps that change neither: nothing a client could see has happened.     *)
LEMMA Unseen ==
  ASSUME TypeOK, count' = count, expert' = expert, Pass' <=> Pass,
         \A x \in Slots : SameView(inst'[x], inst[x])
  PROVE  View' = View /\ Removal' = Removal
<1>1. \A s \in 1..count : s - 1 \in Slots
  BY ViewFacts DEF Live
<1>2. \A s \in 1..count : Interface(s)' = Interface(s)
  BY <1>1 DEF Interface, SameView
<1>3. View' = View
  BY <1>2 DEF View
<1>4. Removal' = Removal
  BY DEF Removal
<1> QED
  BY <1>3, <1>4

(* What the procedures of the machine leave alone.                         *)
LEMMA MachineKeepsView ==
  ASSUME NEW r \in Instance, NEW status
  PROVE  /\ SameView(Stop(r), r) /\ SameView(LeaveInitiate(r), r)
         /\ SameView(LeaveInitiate(Stop(r)), r) /\ SameView(Issued(r), r)
         /\ SameView([r EXCEPT !.pending = FALSE], r) /\ SameView(Advance(r, status), r)
<1>1. /\ SameView(Stop(r), r) /\ SameView(LeaveInitiate(r), r)
      /\ SameView(LeaveInitiate(Stop(r)), r)
      /\ SameView([r EXCEPT !.pending = FALSE], r)
  BY DEF SameView, Stop, LeaveInitiate, Instance
<1>2. SameView(Issued(r), r)
  BY DEF SameView, Issued, Instance
<1>3. SameView(Advance(r, status), r)
  BY DEF SameView, Advance, GoTo, Stop, Store, Instance
<1> QED
  BY <1>1, <1>2, <1>3

LEMMA MachineKeepsPass ==
  ASSUME IInv, IInv', stack # <<>>, Top.proc # "Notify",
         NEW f, f.proc # "Notify", NEW c, c.proc # "Notify",
         stack' = Return \/ stack' = Replace(f) \/ stack' = <<c>> \o Replace(f)
  PROVE  Pass' <=> Pass
<1>1. /\ stack \in Seq(Frame) /\ stack' \in Seq(Frame) /\ Return \in Seq(Frame)
      /\ Frames = {Top} \cup FramesOf(Return)
  <2>1. stack \in Seq(Frame) /\ stack' \in Seq(Frame) /\ Nested(stack)
    BY DEF IInv, TypeOK
  <2> QED
    BY <2>1, TopFacts
<1>2. ASSUME NEW g, NEW st \in Seq(Frame), <<g>> \o st \in Seq(Frame)
      PROVE  g \in Frame /\ FramesOf(<<g>> \o st) = {g} \cup FramesOf(st)
  <2>1. g \in Frame
    <3>1. Len(<<g>> \o st) \in Nat /\ 1 \in 1..Len(<<g>> \o st) /\ (<<g>> \o st)[1] = g
      BY <1>2
    <3> QED
      BY <1>2, <3>1
  <2> QED
    BY <2>1, PushFacts
<1>3. Frames' = FramesOf(Return) \/ Frames' = {f} \cup FramesOf(Return)
      \/ Frames' = {c, f} \cup FramesOf(Return)
  <2>1. Frames' = FramesOf(stack')
    BY DEF Frames, FramesOf
  <2>2. CASE stack' = Return
    BY <2>1, <2>2
  <2>3. CASE stack' = Replace(f)
    <3>1. stack' = <<f>> \o Return
      BY <2>3 DEF Replace, Return
    <3> QED
      BY <1>1, <1>2, <2>1, <3>1
  <2>4. CASE stack' = <<c>> \o Replace(f)
    <3> PICK mid : mid = <<f>> \o Return
      OBVIOUS
    <3>1. stack' = <<c>> \o mid
      BY <2>4 DEF Replace, Return
    <3>2. f \in Frame /\ mid \in Seq(Frame)
      <4>1. /\ Len(stack') \in Nat /\ 2 \in 1..Len(stack') /\ stack'[2] = f
        BY <1>1, <3>1
      <4>2. f \in Frame
        BY <1>1, <4>1
      <4> QED
        BY <1>1, <4>2
    <3>3. FramesOf(mid) = {f} \cup FramesOf(Return)
      BY <1>1, <1>2, <3>2
    <3>4. FramesOf(<<c>> \o mid) = {c} \cup FramesOf(mid)
      BY <1>1, <1>2, <3>1, <3>2
    <3> QED
      BY <2>1, <3>1, <3>3, <3>4
  <2> QED
    BY <2>2, <2>3, <2>4
<1>4. Notifies' = Notifies
  BY <1>1, <1>3 DEF Notifies
<1>5. (Pass' <=> Notifies' # {}) /\ (Pass <=> Notifies # {})
  BY PassFacts DEF Pass, Notifies, Frames, FramesOf
<1> QED
  BY <1>4, <1>5

LEMMA MachineUnseen ==
  ASSUME IInv, IInv',
         InitiateRefused \/ IssuePending \/ IssueError \/ IssueDone
           \/ ReturnedStop \/ ReturnedDrive \/ ReturnedNothing \/ InitiateLeaves
           \/ CompletionProc
           \/ \E status \in ReadStatus, err \in {"ok", "pending"} : IssueCompletesInside(status, err)
  PROVE  View' = View /\ Removal' = Removal
<1> PICK f : f = Top
  OBVIOUS
<1> PICK s : s = f.slot
  OBVIOUS
<1>1. /\ stack # <<>> /\ f.proc \in {"Initiate", "Completion"}
      /\ count' = count /\ expert' = expert
  BY DEF InitiateRefused, MayIssue, IssuePending, IssueError, IssueDone, IssueCompletesInside,
         InitiateReturned, ReturnedStop, ReturnedDrive, ReturnedNothing, InitiateLeaves,
         CompletionProc, Running, Top
<1>2. /\ f \in Frame /\ s \in Slots /\ inst[s] \in Instance /\ inst \in [Slots -> Instance]
      /\ TypeOK
  <2>1. f \in Frame /\ s \in Slots /\ inst[s] \in Instance
    BY <1>1, OnTop
  <2> QED
    BY <2>1 DEF IInv, TypeOK
<1>3. \E q : inst' = [inst EXCEPT ![s] = q] /\ SameView(q, inst[s])
  <2>1. /\ SameView(Stop(inst[s]), inst[s]) /\ SameView(LeaveInitiate(inst[s]), inst[s])
        /\ SameView(LeaveInitiate(Stop(inst[s])), inst[s]) /\ SameView(Issued(inst[s]), inst[s])
        /\ SameView([inst[s] EXCEPT !.pending = FALSE], inst[s])
        /\ SameView(Advance(inst[s], f.status), inst[s])
    BY <1>2, MachineKeepsView
  <2>2. CASE InitiateRefused
    BY <2>1, <2>2 DEF InitiateRefused, Top
  <2>3. CASE IssuePending \/ IssueError \/ IssueDone
    BY <2>1, <2>3 DEF IssuePending, IssueError, IssueDone, Top
  <2>4. CASE \E status \in ReadStatus, err \in {"ok", "pending"} : IssueCompletesInside(status, err)
    BY <2>1, <2>4 DEF IssueCompletesInside, Top
  <2>5. CASE ReturnedStop
    BY <2>1, <2>5 DEF ReturnedStop, Top
  <2>6. CASE ReturnedDrive
    BY <1>2, <2>1, <2>6 DEF ReturnedDrive, Top
  <2>7. CASE ReturnedNothing \/ InitiateLeaves
    BY <2>1, <2>7 DEF ReturnedNothing, InitiateLeaves, Top
  <2>8. CASE CompletionProc
    BY <2>1, <2>8 DEF CompletionProc, Top
  <2> QED
    BY <2>2, <2>3, <2>4, <2>5, <2>6, <2>7, <2>8
<1>4. \A x \in Slots : SameView(inst'[x], inst[x])
  <2> PICK q : inst' = [inst EXCEPT ![s] = q] /\ SameView(q, inst[s])
    BY <1>3
  <2> QED
    BY <1>2 DEF SameView
<1>5. \E n, c : /\ n.proc # "Notify" /\ c.proc # "Notify"
                /\ stack' = Return \/ stack' = Replace(n) \/ stack' = <<c>> \o Replace(n)
  <2>1. \A r, err : AfterCall(r, err).proc # "Notify"
    BY <1>1, <1>2 DEF AfterCall, Top, Frame
  <2>2. \A x, l, st : Complete(x, l, st).proc # "Notify" /\ Initiate(x, l).proc # "Notify"
    BY DEF Complete, Initiate
  <2>3. [f EXCEPT !.at = "leave"].proc # "Notify" /\ f.proc # "Notify"
    BY <1>1, <1>2 DEF Frame
  <2>4. CASE InitiateRefused \/ ReturnedStop \/ ReturnedNothing \/ InitiateLeaves
    BY <2>3, <2>4 DEF InitiateRefused, ReturnedStop, ReturnedNothing, InitiateLeaves
  <2>5. CASE IssuePending \/ IssueError \/ IssueDone
    BY <2>1, <2>5 DEF IssuePending, IssueError, IssueDone
  <2>6. CASE \E status \in ReadStatus, err \in {"ok", "pending"} : IssueCompletesInside(status, err)
    BY <2>1, <2>2, <2>6 DEF IssueCompletesInside
  <2>7. CASE ReturnedDrive
    <3> PICK c : c = Complete(s, f.level, IF inst[s].stage = Reading THEN "empty" ELSE "ok")
      OBVIOUS
    <3>1. stack' = <<c>> \o Replace([f EXCEPT !.at = "leave"])
      BY <2>7 DEF ReturnedDrive, Top
    <3>2. c.proc # "Notify"
      BY <2>2
    <3> QED
      BY <2>3, <3>1, <3>2
  <2>8. CASE CompletionProc
    BY <2>2, <2>3, <2>8 DEF CompletionProc
  <2> QED
    BY <2>4, <2>5, <2>6, <2>7, <2>8
<1>6. Pass' <=> Pass
  <2>1. Top.proc # "Notify"
    BY <1>1
  <2> QED
    BY <1>1, <1>5, <2>1, MachineKeepsPass
<1> QED
  BY <1>1, <1>2, <1>4, <1>6, Unseen

LEMMA CallCompletesUnseen ==
  ASSUME IInv, IInv', NEW s \in Slots, NEW status, CallCompletes(s, status)
  PROVE  View' = View /\ Removal' = Removal
<1> PICK f : f = Complete(s, "interrupt", status)
  OBVIOUS
<1>1. count' = count /\ expert' = expert /\ inst' = inst /\ stack' = <<f>> \o stack
  BY DEF CallCompletes, Push
<1>2. TypeOK /\ stack \in Seq(Frame) /\ stack' \in Seq(Frame)
  BY DEF IInv, TypeOK
<1>3. f \in Frame /\ f.proc # "Notify"
  <2>1. Len(stack') \in Nat /\ 1 \in 1..Len(stack') /\ stack'[1] = f
    BY <1>1, <1>2
  <2> QED
    BY <1>2, <2>1 DEF Complete
<1>4. FramesOf(stack') = {f} \cup FramesOf(stack)
  BY <1>1, <1>2, <1>3, PushFacts
<1>5. Notifies' = Notifies
  BY <1>3, <1>4 DEF Notifies, Frames, FramesOf
<1>6. (Pass' <=> Notifies' # {}) /\ (Pass <=> Notifies # {})
  BY PassFacts DEF Pass, Notifies, Frames, FramesOf
<1>7. \A x \in Slots : SameView(inst'[x], inst[x])
  BY <1>1 DEF SameView
<1> QED
  BY <1>1, <1>2, <1>5, <1>6, <1>7, Unseen

(* A pass of the notification goes on.                                     *)
LEMMA PassGoesOn ==
  ASSUME IInv, IInv', stack # <<>>, Top.proc = "Notify",
         NEW m, m.proc = "Notify", stack' = Replace(m)
  PROVE  Pass /\ Pass'
<1>1. stack \in Seq(Frame) /\ stack' \in Seq(Frame)
  BY DEF IInv, TypeOK
<1>2. 1 \in 1..Len(stack) /\ stack[1].proc = "Notify"
  BY <1>1 DEF Top
<1>3. 1 \in 1..Len(stack') /\ stack'[1].proc = "Notify"
  <2>1. Tail(stack) \in Seq(Frame)
    BY <1>1
  <2>2. stack' = <<m>> \o Tail(stack)
    BY DEF Replace
  <2> QED
    BY <2>1, <2>2
<1> QED
  BY <1>2, <1>3 DEF Pass

LEMMA NotifyUnseen ==
  ASSUME IInv, IInv', NotifyTest \/ NotifyAbort \/ NotifyAbortFails \/ NotifyClear
  PROVE  View' = View /\ Removal' = Removal
<1> PICK n : n = Top
  OBVIOUS
<1>1. stack # <<>> /\ n.proc = "Notify" /\ count' = count /\ expert' = expert
  BY DEF NotifyTest, NotifyAbort, NotifyAbortFails, NotifyClear, Running, Top
<1>2. n \in Frame /\ NotifyFinds(n) /\ n.slot \in Nat /\ TypeOK
  BY <1>1, NotifyAlone DEF Frame, IInv
<1>3. \E m : m.proc = "Notify" /\ stack' = Replace(m)
  <2>1. /\ [n EXCEPT !.at = "abort"].proc = "Notify" /\ [n EXCEPT !.at = "clear"].proc = "Notify"
        /\ \A i, busy, at : NotifyFrame(i, busy, at).proc = "Notify"
    BY <1>1, <1>2 DEF Frame, NotifyFrame
  <2>2. CASE NotifyTest
    <3>1. \/ stack' = Replace([n EXCEPT !.at = "abort"])
          \/ \E busy : stack' = Replace(NotifyFrame(n.slot + 1, busy, "mark"))
      BY <2>2 DEF NotifyTest, NextInstance
    <3> QED
      BY <2>1, <3>1
  <2>3. CASE NotifyAbort \/ NotifyClear
    <3>1. stack' = Replace(NotifyFrame(n.slot + 1, TRUE, "mark"))
      BY <2>3 DEF NotifyAbort, NotifyClear, NextInstance
    <3> QED
      BY <2>1, <3>1
  <2>4. CASE NotifyAbortFails
    BY <2>1, <2>4 DEF NotifyAbortFails
  <2> QED
    BY <2>2, <2>3, <2>4
<1>4. Pass' /\ Pass
  BY <1>1, <1>3, PassGoesOn
<1>5. \A x \in Slots : SameView(inst'[x], inst[x])
  <2>1. CASE NotifyTest \/ NotifyAbort \/ NotifyAbortFails
    BY <2>1 DEF NotifyTest, NotifyAbort, NotifyAbortFails, SameView
  <2>2. CASE NotifyClear
    <3>1. inst' = [inst EXCEPT ![n.slot].pending = FALSE]
      BY <2>2 DEF NotifyClear, Top
    <3> SUFFICES ASSUME NEW x \in Slots
                 PROVE  SameView(inst'[x], inst[x])
      OBVIOUS
    <3>2. inst[x] \in Instance /\ inst \in [Slots -> Instance]
      BY <1>2 DEF TypeOK
    <3>3. inst'[x] = inst[x] \/ inst'[x] = [inst[x] EXCEPT !.pending = FALSE]
      BY <3>1, <3>2
    <3> QED
      BY <3>2, <3>3, MachineKeepsView DEF SameView
  <2> QED
    BY <2>1, <2>2
<1> QED
  BY <1>1, <1>2, <1>4, <1>5, Unseen

(* Two records of the registry are equal if their fields are.              *)
LEMMA EqualSlots ==
  ASSUME NEW S, NEW T, NEW U, NEW p \in [iface : S, hook : T, removing : U],
         NEW q \in [iface : S, hook : T, removing : U],
         p.iface = q.iface, p.hook = q.hook, p.removing = q.removing
  PROVE  p = q
OBVIOUS

LEMMA EqualRemovals ==
  ASSUME NEW S, NEW T, NEW U, NEW p \in [phase : S, iface : T, pass : U],
         NEW q \in [phase : S, iface : T, pass : U],
         p.phase = q.phase, p.iface = q.iface, p.pass = q.pass
  PROVE  p = q
OBVIOUS

(* The records of the registry and what its actions make of them.          *)
SlotRecord(i, h, r) == [iface |-> i, hook |-> h, removing |-> r]
RemovalRecord(x, i, b) == [phase |-> x, iface |-> i, pass |-> b]
MarkSlot(x, b) == [x EXCEPT !.removing = b]
HookSlot(x, b) == [x EXCEPT !.hook = b]
Proceed(x, y, b) == [x EXCEPT !.phase = y, !.pass = b]

LEMMA SlotMarked ==
  ASSUME NEW i, NEW h, NEW r, NEW b
  PROVE  MarkSlot(SlotRecord(i, h, r), b) = SlotRecord(i, h, b)
<1> PICK p : p = MarkSlot(SlotRecord(i, h, r), b)
  OBVIOUS
<1> PICK q : q = SlotRecord(i, h, b)
  OBVIOUS
<1>1. /\ p \in [iface : {i}, hook : {h}, removing : {r, b}]
      /\ p.iface = i /\ p.hook = h /\ p.removing = b
  BY DEF MarkSlot, SlotRecord
<1>2. /\ q \in [iface : {i}, hook : {h}, removing : {r, b}]
      /\ q.iface = i /\ q.hook = h /\ q.removing = b
  BY DEF SlotRecord
<1>3. p = q
  BY <1>1, <1>2, EqualSlots
<1> QED
  BY <1>3

LEMMA SlotHooked ==
  ASSUME NEW i, NEW h, NEW r, NEW b
  PROVE  HookSlot(SlotRecord(i, h, r), b) = SlotRecord(i, b, r)
<1> PICK p : p = HookSlot(SlotRecord(i, h, r), b)
  OBVIOUS
<1> PICK q : q = SlotRecord(i, b, r)
  OBVIOUS
<1>1. /\ p \in [iface : {i}, hook : {h, b}, removing : {r}]
      /\ p.iface = i /\ p.hook = b /\ p.removing = r
  BY DEF HookSlot, SlotRecord
<1>2. /\ q \in [iface : {i}, hook : {h, b}, removing : {r}]
      /\ q.iface = i /\ q.hook = b /\ q.removing = r
  BY DEF SlotRecord
<1>3. p = q
  BY <1>1, <1>2, EqualSlots
<1> QED
  BY <1>3

LEMMA RemovalProceeds ==
  ASSUME NEW x, NEW i, NEW b, NEW y, NEW c
  PROVE  Proceed(RemovalRecord(x, i, b), y, c) = RemovalRecord(y, i, c)
<1> PICK p : p = Proceed(RemovalRecord(x, i, b), y, c)
  OBVIOUS
<1> PICK q : q = RemovalRecord(y, i, c)
  OBVIOUS
<1>1. /\ p \in [phase : {x, y}, iface : {i}, pass : {b, c}]
      /\ p.phase = y /\ p.iface = i /\ p.pass = c
  BY DEF Proceed, RemovalRecord
<1>2. /\ q \in [phase : {x, y}, iface : {i}, pass : {b, c}]
      /\ q.phase = y /\ q.iface = i /\ q.pass = c
  BY DEF RemovalRecord
<1>3. p = q
  BY <1>1, <1>2, EqualRemovals
<1> QED
  BY <1>3

LEMMA NotifyMarkMaps ==
  ASSUME IInv, IInv', NotifyMark
  PROVE  \E s \in 1..Len(View) :
           /\ Removal.pass
           /\ View' = [View EXCEPT ![s].removing = TRUE]
           /\ Removal' = Removal
<1> PICK n : n = Top
  OBVIOUS
<1> PICK s : s = n.slot
  OBVIOUS
<1>1. /\ stack # <<>> /\ n.proc = "Notify" /\ s < count /\ count' = count /\ expert' = expert
      /\ inst' = [inst EXCEPT ![s].removing = TRUE]
      /\ stack' = Replace([n EXCEPT !.at = "hook"])
  BY DEF NotifyMark, Running, Top
<1>2. n \in Frame /\ s \in Slots /\ TypeOK /\ count \in Nat /\ s + 1 \in 1..count
  <2>1. n \in Frame /\ s \in Nat /\ TypeOK /\ count \in 0..MaxInterfaces
    BY <1>1, NotifyAlone DEF Frame, IInv, TypeOK
  <2> QED
    BY <1>1, <2>1, RegistryAssumption DEF Slots
<1>3. Pass /\ Pass'
  <2>1. [n EXCEPT !.at = "hook"].proc = "Notify"
    BY <1>1, <1>2 DEF Frame
  <2> QED
    BY <1>1, <2>1, PassGoesOn
<1>4. Removal' = Removal /\ Removal.pass
  BY <1>1, <1>3 DEF Removal
<1>5. ASSUME NEW x \in Slots
      PROVE  /\ x # s => SameView(inst'[x], inst[x])
             /\ x = s => /\ inst'[x].iface = inst[x].iface
                         /\ inst'[x].removing = TRUE /\ inst'[x].hook = inst[x].hook
  <2>1. inst \in [Slots -> Instance] /\ inst[x] \in Instance
    BY <1>2 DEF TypeOK
  <2> QED
    BY <1>1, <1>2, <2>1 DEF SameView, Instance
<1>6. View' = [View EXCEPT ![s + 1].removing = TRUE]
  <2>1. \A k \in 1..count : k - 1 \in Slots /\ (k - 1 = s <=> k = s + 1)
    <3>1. \A k \in 1..count : k - 1 \in Slots
      BY <1>2, ViewFacts DEF Live
    <3>2. \A k \in 1..count : k - 1 = s <=> k = s + 1
      BY <1>2 DEF Slots
    <3> QED
      BY <3>1, <3>2
  <2>2. ASSUME NEW k \in 1..count, k # s + 1
        PROVE  Interface(k)' = Interface(k)
    BY <1>5, <2>1, <2>2 DEF Interface, SameView
  <2>5. PICK r : r = TRUE
    OBVIOUS
  <2>3. Interface(s + 1)' = MarkSlot(Interface(s + 1), r)
    <3>1. (s + 1) - 1 = s
      BY <1>2 DEF Slots
    <3>2. /\ inst'[s].iface = inst[s].iface /\ inst'[s].removing = TRUE
          /\ inst'[s].hook = inst[s].hook
      BY <1>2, <1>5
    <3>3. /\ Interface(s + 1) = SlotRecord(inst[s].iface, inst[s].hook, inst[s].removing)
          /\ Interface(s + 1)' = SlotRecord(inst'[s].iface, inst'[s].hook, inst'[s].removing)
      BY <3>1 DEF Interface, SlotRecord
    <3>4. /\ inst'[s].iface = inst[s].iface /\ inst'[s].removing = r
          /\ inst'[s].hook = inst[s].hook
      BY <2>5, <3>2
    <3>5. MarkSlot(SlotRecord(inst[s].iface, inst[s].hook, inst[s].removing), r)
            = SlotRecord(inst[s].iface, inst[s].hook, r)
      BY SlotMarked
    <3> QED
      BY <3>3, <3>4, <3>5
  <2>4. View' = [View EXCEPT ![s + 1] = MarkSlot(@, r)]
    BY <1>1, <1>2, <2>2, <2>3 DEF View
  <2> QED
    BY <2>4, <2>5 DEF MarkSlot
<1> QED
  BY <1>2, <1>4, <1>6, ViewFacts

LEMMA NotifyUnhookMaps ==
  ASSUME IInv, IInv', NotifyUnhook
  PROVE  \E s \in 1..Len(View) :
           /\ Removal.pass /\ View[s].removing
           /\ View' = [View EXCEPT ![s].hook = FALSE]
           /\ Removal' = Removal
<1> PICK n : n = Top
  OBVIOUS
<1> PICK s : s = n.slot
  OBVIOUS
<1>1. /\ stack # <<>> /\ n.proc = "Notify" /\ n.at = "hook"
      /\ count' = count /\ expert' = expert
      /\ inst' = [inst EXCEPT ![s].hook = FALSE]
      /\ stack' = Replace([n EXCEPT !.at = "test"])
  BY DEF NotifyUnhook, Running, Top
<1>2. /\ n \in Frame /\ s \in Slots /\ TypeOK /\ count \in Nat /\ s + 1 \in 1..count
      /\ inst[s].removing
  <2>1. n \in Frame /\ s \in Nat /\ TypeOK /\ count \in 0..MaxInterfaces
    BY <1>1, NotifyAlone DEF Frame, IInv, TypeOK
  <2>2. s < count /\ inst[s].removing
    BY <1>1, NotifyAlone DEF NotifyFinds
  <2> QED
    BY <2>1, <2>2, RegistryAssumption DEF Slots
<1>3. Pass /\ Pass'
  <2>1. [n EXCEPT !.at = "test"].proc = "Notify"
    BY <1>1, <1>2 DEF Frame
  <2> QED
    BY <1>1, <2>1, PassGoesOn
<1>4. Removal' = Removal /\ Removal.pass
  BY <1>1, <1>3 DEF Removal
<1>5. ASSUME NEW x \in Slots
      PROVE  /\ x # s => SameView(inst'[x], inst[x])
             /\ x = s => /\ inst'[x].iface = inst[x].iface
                         /\ inst'[x].removing = inst[x].removing /\ inst'[x].hook = FALSE
  <2>1. inst \in [Slots -> Instance] /\ inst[x] \in Instance
    BY <1>2 DEF TypeOK
  <2> QED
    BY <1>1, <1>2, <2>1 DEF SameView, Instance
<1>6. /\ (s + 1) - 1 = s
      /\ Interface(s + 1) = SlotRecord(inst[s].iface, inst[s].hook, inst[s].removing)
      /\ Interface(s + 1)' = SlotRecord(inst'[s].iface, inst'[s].hook, inst'[s].removing)
  <2>1. (s + 1) - 1 = s
    BY <1>2 DEF Slots
  <2> QED
    BY <2>1 DEF Interface, SlotRecord
<1>7. View[s + 1].removing
  <2>1. Interface(s + 1).removing
    BY <1>2, <1>6 DEF SlotRecord
  <2> QED
    BY <1>2, <2>1, ViewFacts
<1>8. View' = [View EXCEPT ![s + 1].hook = FALSE]
  <2>1. \A k \in 1..count : k - 1 \in Slots /\ (k - 1 = s <=> k = s + 1)
    <3>1. \A k \in 1..count : k - 1 \in Slots
      BY <1>2, ViewFacts DEF Live
    <3>2. \A k \in 1..count : k - 1 = s <=> k = s + 1
      BY <1>2 DEF Slots
    <3> QED
      BY <3>1, <3>2
  <2>2. ASSUME NEW k \in 1..count, k # s + 1
        PROVE  Interface(k)' = Interface(k)
    BY <1>5, <2>1, <2>2 DEF Interface, SameView
  <2> PICK f : f = FALSE
    OBVIOUS
  <2>3. Interface(s + 1)' = HookSlot(Interface(s + 1), f)
    <3>1. /\ inst'[s].iface = inst[s].iface /\ inst'[s].removing = inst[s].removing
          /\ inst'[s].hook = f
      BY <1>2, <1>5
    <3> QED
      BY <1>6, <3>1, SlotHooked
  <2>4. View' = [View EXCEPT ![s + 1] = HookSlot(@, f)]
    BY <1>1, <1>2, <2>2, <2>3 DEF View
  <2> QED
    BY <2>4 DEF HookSlot
<1> QED
  BY <1>2, <1>4, <1>7, <1>8, ViewFacts

LEMMA NotifyReturnMaps ==
  ASSUME IInv, IInv', NotifyReturn
  PROVE  Clients!NotifyReturn
<1> PICK n : n = Top
  OBVIOUS
<1>1. /\ stack # <<>> /\ n.proc = "Notify" /\ n.slot = count
      /\ count' = count /\ inst' = inst /\ stack' = Return
      /\ expert' = expert \/ expert' = [expert EXCEPT !.phase = "drained"]
  BY DEF NotifyReturn, Running, Top
<1>2. /\ Return = <<>> /\ Notifies = {n} /\ NotifyFinds(n) /\ TypeOK
  BY <1>1, NotifyAlone DEF IInv
<1>3. Pass /\ ~Pass'
  <2>1. Len(stack') = 0
    BY <1>1, <1>2
  <2> QED
    BY <1>2, <2>1, PassFacts DEF Pass
<1>4. \A s \in 1..Len(View) : View[s].removing /\ ~View[s].hook
  <2> SUFFICES ASSUME NEW s \in 1..count
               PROVE  Interface(s).removing /\ ~Interface(s).hook
    BY <1>2, ViewFacts
  <2>1. s - 1 \in Slots /\ s - 1 < count
    BY <1>2, ViewFacts DEF Live
  <2>2. Marked(s - 1)
    BY <1>1, <1>2, <2>1 DEF NotifyFinds
  <2> QED
    BY <2>2 DEF Marked, Interface
<1>5. View' = View
  BY <1>1 DEF View, Interface
<1>6. \E phase \in {"notifying", "drained"} :
        Removal' = [Removal EXCEPT !.phase = phase, !.pass = FALSE]
  <2>1. expert.phase = "notifying" /\ expert \in [phase : {"idle", "announced", "notifying", "drained"},
                                                  iface : Interfaces \cup {NoInterface}]
    BY <1>2 DEF NotifyFinds, TypeOK
  <2>2. /\ expert'.phase \in {"notifying", "drained"} /\ expert'.iface = expert.iface
    BY <1>1, <2>1
  <2>3. /\ Removal = RemovalRecord(expert.phase, expert.iface, Pass)
        /\ Removal' = RemovalRecord(expert'.phase, expert'.iface, Pass')
    BY DEF Removal, RemovalRecord
  <2> PICK b, c : b = Pass /\ c = FALSE
    OBVIOUS
  <2>4. Removal = RemovalRecord(expert.phase, expert.iface, b)
    BY <2>3
  <2>5. Removal' = RemovalRecord(expert'.phase, expert'.iface, c)
    <3>1. Pass' \in BOOLEAN /\ ~Pass'
      BY <1>3 DEF Pass
    <3>2. Pass' = c
      BY <3>1
    <3> QED
      BY <2>3, <3>2
  <2>6. Removal' = Proceed(Removal, expert'.phase, c)
    BY <2>2, <2>4, <2>5, RemovalProceeds
  <2>7. Removal' = Proceed(Removal, expert'.phase, FALSE)
    BY <2>6
  <2> QED
    BY <2>2, <2>7 DEF Proceed
<1> QED
  BY <1>3, <1>4, <1>5, <1>6 DEF Clients!NotifyReturn, View, Removal, Pass

LEMMA IdleView ==
  ASSUME IInv, Idle
  PROVE  /\ ~Pass /\ Pass \in BOOLEAN /\ ~Removal.pass /\ TypeOK
         /\ Removal.phase = expert.phase /\ Removal.iface = expert.iface
         /\ Removal = RemovalRecord(expert.phase, expert.iface, Pass)
<1>1. ~Pass /\ Pass \in BOOLEAN /\ TypeOK
  <2>1. ~Pass /\ TypeOK
    BY IdleFacts, PassFacts DEF IInv
  <2> QED
    BY <2>1 DEF Pass
<1>2. ~Removal.pass /\ Removal.phase = expert.phase /\ Removal.iface = expert.iface
  BY <1>1 DEF Removal
<1>3. Removal = RemovalRecord(expert.phase, expert.iface, Pass)
  BY DEF Removal, RemovalRecord
<1> QED
  BY <1>1, <1>2, <1>3

(* A sequence that agrees with another one and has one element more.       *)
HasLen(v, n) == v = [s \in 1..n |-> v[s]]
LEMMA AppendIs ==
  ASSUME NEW n \in Nat, NEW v, NEW w, NEW e, HasLen(v, n), HasLen(w, n + 1),
         \A s \in 1..n : w[s] = v[s], w[n + 1] = e
  PROVE  w = Append(v, e)
<1> DEFINE S == {v[s] : s \in 1..n} \cup {e}
<1>1. \A s \in 1..n : v[s] \in S
  OBVIOUS
<1>2. \A s \in 1..(n + 1) : w[s] \in S
  <2>1. \A s \in 1..(n + 1) : s \in 1..n \/ s = n + 1
    OBVIOUS
  <2> QED
    BY <1>1, <2>1
<1>3. e \in S
  OBVIOUS
<1> HIDE DEF S
<1>4. v \in Seq(S) /\ Len(v) = n
  <2>1. [s \in 1..n |-> v[s]] \in Seq(S) /\ Len([s \in 1..n |-> v[s]]) = n
    BY <1>1
  <2> QED
    BY <2>1 DEF HasLen
<1>5. w \in Seq(S) /\ Len(w) = n + 1
  <2>1. /\ [s \in 1..(n + 1) |-> w[s]] \in Seq(S)
        /\ Len([s \in 1..(n + 1) |-> w[s]]) = n + 1
    BY <1>2
  <2> QED
    BY <2>1 DEF HasLen
<1>6. /\ Append(v, e) \in Seq(S) /\ Len(Append(v, e)) = n + 1 /\ Append(v, e)[n + 1] = e
      /\ \A s \in 1..n : Append(v, e)[s] = v[s]
  BY <1>3, <1>4
<1>7. \A s \in 1..(n + 1) : w[s] = Append(v, e)[s]
  <2>1. \A s \in 1..(n + 1) : s \in 1..n \/ s = n + 1
    OBVIOUS
  <2> QED
    BY <1>6, <2>1
<1> QED
  BY <1>5, <1>6, <1>7, SeqEqual

LEMMA InitializeInterfaceMaps ==
  ASSUME IInv, IInv', NEW i \in Interfaces, InitializeInterface(i)
  PROVE  Clients!Plug(i)
<1> PICK r : r = Fresh(inst[count], i)
  OBVIOUS
<1> PICK f : f = Initiate(count, "task")
  OBVIOUS
<1>1. /\ Idle /\ (GapOpen \/ expert.phase # "drained") /\ i \notin Attached
      /\ count < MaxInterfaces /\ count' = count + 1 /\ expert' = expert
      /\ inst' = [inst EXCEPT ![count] = r] /\ stack' = <<f>> \o stack
  BY DEF InitializeInterface, MayRun, Push
<1>2. /\ ~Pass /\ ~Removal.pass /\ Removal.phase = expert.phase /\ TypeOK /\ TypeOK'
  BY <1>1, IdleView DEF IInv
<1>3. /\ View \in Seq({Interface(s) : s \in 1..count}) /\ Len(View) = count
      /\ \A s \in 1..count : s - 1 \in Live /\ View[s] = Interface(s)
      /\ \A s \in Live : s + 1 \in 1..count
  BY <1>2, ViewFacts
<1>4. count \in Nat /\ count \in Slots /\ inst \in [Slots -> Instance] /\ ~inst[count].hook
  <2>1. count \in Nat /\ count \in Slots /\ inst \in [Slots -> Instance]
    BY <1>1, <1>2, RegistryAssumption DEF TypeOK, Slots
  <2>2. ~inst[count].hook
    BY <2>1 DEF IInv, SlotInv, FreeSlot
  <2> QED
    BY <2>1, <2>2
<1>5. Clients!TaskLevel
  BY <1>1, <1>2 DEF Clients!TaskLevel, Removal, Pass
<1>6. i \notin Clients!Attached
  <2>1. ASSUME NEW s \in 1..count
        PROVE  View[s].iface \in Attached
    <3>1. s - 1 \in Live /\ View[s].iface = inst[s - 1].iface
      BY <1>3 DEF Interface
    <3> QED
      BY <3>1 DEF Attached
  <2>2. Clients!Attached = {View[s].iface : s \in 1..Len(View)}
    BY DEF Clients!Attached, View
  <2> QED
    BY <1>1, <1>3, <2>1, <2>2
<1>7. View' = Append(View, SlotRecord(i, FALSE, FALSE))
  <2> PICK n : n = count
    OBVIOUS
  <2>1. r.iface = i /\ r.hook = FALSE /\ r.removing = FALSE
    <3>1. inst[count] \in Instance
      BY <1>4
    <3>2. /\ r \in Instance /\ r.iface = i /\ ~r.removing /\ (r.hook <=> inst[count].hook)
      BY <3>1, FreshFacts
    <3> QED
      BY <1>4, <3>2 DEF Instance
  <2>2. Interface(n + 1)' = SlotRecord(i, FALSE, FALSE)
    <3>1. (n + 1) - 1 = n
      BY <1>4
    <3>2. inst'[n] = r
      BY <1>1, <1>4
    <3>3. Interface(n + 1)' = SlotRecord(inst'[n].iface, inst'[n].hook, inst'[n].removing)
      BY <3>1 DEF Interface, SlotRecord
    <3>4. SlotRecord(r.iface, r.hook, r.removing) = SlotRecord(i, FALSE, FALSE)
      BY <2>1
    <3> QED
      BY <3>2, <3>3, <3>4
  <2>3. ASSUME NEW s \in 1..n
        PROVE  Interface(s)' = Interface(s)
    <3>1. s - 1 \in Slots /\ s - 1 # count
      <4>1. s - 1 \in Live
        BY <1>3
      <4>2. s - 1 \in Slots /\ s - 1 < count
        BY <4>1 DEF Live
      <4> QED
        BY <1>4, <4>2
    <3> QED
      BY <1>1, <1>4, <3>1 DEF Interface
  <2>4. View' = [s \in 1..(n + 1) |-> Interface(s)'] /\ View = [s \in 1..n |-> Interface(s)]
    BY <1>1 DEF View
  <2> PICK e, v, w : e = SlotRecord(i, FALSE, FALSE) /\ v = View /\ w = View'
    OBVIOUS
  <2>5. n \in Nat /\ 1..n \subseteq 1..(n + 1) /\ n + 1 \in 1..(n + 1)
    BY <1>4
  <2>6. HasLen(v, n) /\ HasLen(w, n + 1)
    BY <2>4 DEF HasLen
  <2>7. (\A s \in 1..n : w[s] = v[s]) /\ w[n + 1] = e
    BY <2>2, <2>3, <2>4, <2>5
  <2>8. w = Append(v, e)
    BY <2>5, <2>6, <2>7, AppendIs, ZenonT(40)
  <2> QED
    BY <2>8
<1>8. Removal' = Removal
  <2>1. stack = <<>> /\ stack' = <<f>>
    BY <1>1 DEF Idle
  <2>2. f.proc = "Initiate"
    BY DEF Initiate
  <2>3. ~Pass'
    BY <2>1, <2>2 DEF Pass
  <2>4. Pass' <=> Pass
    BY <1>2, <2>3
  <2> QED
    BY <1>1, <2>4 DEF Removal
<1> QED
  BY <1>1, <1>3, <1>5, <1>6, <1>7, <1>8 DEF Clients!Plug, View, Removal, Pass, SlotRecord

LEMMA SetEventCallbackMaps ==
  ASSUME IInv, IInv', NEW s \in Slots, NEW hook \in BOOLEAN, SetEventCallback(s, hook)
  PROVE  /\ s + 1 \in 1..Len(View) /\ Clients!TaskLevel
         /\ Clients!SetHooks({s + 1}, hook) /\ Removal' = Removal
<1>1. /\ Idle /\ (GapOpen \/ expert.phase # "drained") /\ s \in Live
      /\ inst' = [inst EXCEPT ![s].hook = hook] /\ count' = count /\ expert' = expert
      /\ stack' = stack
  BY DEF SetEventCallback, MayRun
<1>2. ~Pass /\ ~Removal.pass /\ Removal.phase = expert.phase /\ TypeOK
  BY <1>1, IdleView
<1>3. /\ Len(View) = count /\ \A k \in 1..count : k - 1 \in Live /\ View[k] = Interface(k)
      /\ s + 1 \in 1..count /\ count \in Nat
  BY <1>1, <1>2, ViewFacts DEF TypeOK
<1>4. Clients!TaskLevel
  BY <1>1, <1>2 DEF Clients!TaskLevel, Removal, Pass
<1>5. Removal' = Removal
  BY <1>1 DEF Removal, Pass
<1>6. \A k \in 1..count : Interface(k)' = IF k = s + 1 THEN HookSlot(Interface(k), hook)
                                          ELSE Interface(k)
  <2> SUFFICES ASSUME NEW k \in 1..count
               PROVE  Interface(k)' = IF k = s + 1 THEN HookSlot(Interface(k), hook)
                                      ELSE Interface(k)
    OBVIOUS
  <2>1. k - 1 \in Slots /\ (k - 1 = s <=> k = s + 1)
    <3>1. k - 1 \in Slots
      BY <1>3 DEF Live
    <3>2. s \in Int /\ k \in Int
      BY DEF Slots
    <3> QED
      BY <3>1, <3>2
  <2>2. inst \in [Slots -> Instance] /\ inst[k - 1] \in Instance
    BY <1>2, <2>1 DEF TypeOK
  <2>3. CASE k = s + 1
    <3>1. /\ inst'[k - 1].iface = inst[k - 1].iface /\ inst'[k - 1].hook = hook
          /\ inst'[k - 1].removing = inst[k - 1].removing
      BY <1>1, <2>1, <2>2, <2>3 DEF Instance
    <3>2. /\ Interface(k) = SlotRecord(inst[k - 1].iface, inst[k - 1].hook, inst[k - 1].removing)
          /\ Interface(k)' = SlotRecord(inst'[k - 1].iface, inst'[k - 1].hook, inst'[k - 1].removing)
      BY DEF Interface, SlotRecord
    <3>3. Interface(k)' = HookSlot(Interface(k), hook)
      BY <3>1, <3>2, SlotHooked
    <3> QED
      BY <2>3, <3>3
  <2>4. CASE k # s + 1
    <3>1. inst'[k - 1] = inst[k - 1]
      BY <1>1, <2>1, <2>2, <2>4
    <3> QED
      BY <2>4, <3>1 DEF Interface
  <2> QED
    BY <2>3, <2>4
<1>7. View' = [k \in 1..Len(View) |-> IF k \in {s + 1} THEN HookSlot(View[k], hook) ELSE View[k]]
  <2>1. View' = [k \in 1..count |-> Interface(k)']
    BY <1>1 DEF View
  <2> QED
    BY <1>3, <1>6, <2>1
<1>8. Clients!SetHooks({s + 1}, hook)
  BY <1>7 DEF Clients!SetHooks, HookSlot, View
<1> QED
  BY <1>3, <1>4, <1>5, <1>8

LEMMA UnplugMaps ==
  ASSUME IInv, IInv', NEW i \in Interfaces, Unplug(i)
  PROVE  Clients!Unplug(i)
<1>1. /\ expert.phase = "idle" /\ i \in Attached
      /\ expert' = [phase |-> "announced", iface |-> i]
      /\ count' = count /\ inst' = inst /\ stack' = stack
  BY DEF Unplug
<1>2. ~Pass /\ ~Pass' /\ TypeOK
  <2>1. Notifies = {} /\ TypeOK
    BY <1>1 DEF IInv, NotifyPass, NotifyFinds
  <2>2. ~Pass
    BY <2>1, PassFacts
  <2> QED
    BY <1>1, <2>1, <2>2 DEF Pass
<1>3. i \in Clients!Attached
  <2> PICK s \in Live : i = inst[s].iface
    BY <1>1 DEF Attached
  <2>1. /\ s + 1 \in 1..count /\ Len(View) = count /\ View[s + 1] = Interface(s + 1)
        /\ (s + 1) - 1 = s
    BY <1>2, ViewFacts DEF Live, Slots
  <2>2. View[s + 1].iface = i
    BY <2>1 DEF Interface
  <2>3. Clients!Attached = {View[k].iface : k \in 1..Len(View)}
    BY DEF Clients!Attached, View
  <2> QED
    BY <2>1, <2>2, <2>3
<1>4. View' = View
  BY <1>1 DEF View, Interface
<1>5. Removal' = [phase |-> "announced", iface |-> i, pass |-> FALSE]
  <2>1. Pass' \in BOOLEAN /\ ~Pass'
    BY <1>2 DEF Pass
  <2>2. Pass' = FALSE
    BY <2>1
  <2>3. Removal' = [phase |-> expert'.phase, iface |-> expert'.iface, pass |-> Pass']
    BY DEF Removal
  <2> QED
    BY <1>1, <2>2, <2>3
<1>6. Removal.phase = "idle"
  BY <1>1 DEF Removal
<1> QED
  BY <1>3, <1>4, <1>5, <1>6 DEF Clients!Unplug, View, Removal, Pass

LEMMA Proceeding ==
  ASSUME NEW x, NEW i, NEW b, NEW y, NEW c,
         Removal = RemovalRecord(x, i, b), Removal' = RemovalRecord(y, i, c)
  PROVE  Removal' = Proceed(Removal, y, c)
BY RemovalProceeds

LEMMA NotifyMaps ==
  ASSUME IInv, IInv', Notify
  PROVE  Clients!Notify
<1> PICK m : m = NotifyFrame(0, FALSE, "mark")
  OBVIOUS
<1>1. /\ Idle /\ expert.phase \in {"announced", "notifying"}
      /\ expert' = [expert EXCEPT !.phase = "notifying"] /\ stack' = <<m>> \o stack
      /\ count' = count /\ inst' = inst
  BY DEF Notify, Push
<1>2. /\ ~Pass /\ Pass \in BOOLEAN /\ ~Removal.pass /\ TypeOK /\ Removal.phase = expert.phase
      /\ Removal = RemovalRecord(expert.phase, expert.iface, Pass)
  BY <1>1, IdleView
<1>3. Pass'
  <2>1. stack = <<>> /\ stack' = <<m>> /\ m.proc = "Notify"
    BY <1>1 DEF Idle, NotifyFrame
  <2>2. Len(stack') = 1 /\ stack'[1] = m
    BY <2>1
  <2>3. 1 \in 1..Len(stack')
    BY <2>2
  <2> QED
    BY <2>1, <2>2, <2>3 DEF Pass
<1>4. View' = View
  BY <1>1 DEF View, Interface
<1>5. Removal' = Proceed(Removal, "notifying", TRUE)
  <2> PICK b, c, y : b = Pass /\ c \in BOOLEAN /\ c = TRUE /\ y = "notifying"
    OBVIOUS
  <2>1. expert'.phase = "notifying" /\ expert'.iface = expert.iface
    BY <1>1, <1>2 DEF TypeOK
  <2>2. Pass' \in BOOLEAN /\ Pass'
    BY <1>3 DEF Pass
  <2>3. Pass' = c
    BY <2>2
  <2>4. Removal' = RemovalRecord(y, expert.iface, c)
    <3>1. Removal' = RemovalRecord(expert'.phase, expert'.iface, Pass')
      BY DEF Removal, RemovalRecord
    <3> QED
      BY <2>1, <2>3, <3>1
  <2>5. Removal = RemovalRecord(expert.phase, expert.iface, b)
    BY <1>2
  <2>6. Removal' = Proceed(Removal, y, c)
    BY <2>4, <2>5, Proceeding
  <2> QED
    BY <2>6
<1>6. Removal.phase \in {"announced", "notifying"}
  BY <1>1, <1>2
<1> QED
  BY <1>2, <1>4, <1>5, <1>6 DEF Clients!Notify, View, Removal, Pass, Proceed

LEMMA FinalizeMaps ==
  ASSUME IInv, IInv', Finalize
  PROVE  Clients!Finalize
<1> PICK s : s \in Live /\ inst[s].iface = expert.iface /\ DisposeInstance(s)
  BY DEF Finalize
<1> PICK m : m = count - 1
  OBVIOUS
<1>1. /\ Idle /\ expert.phase = "drained" /\ s \in Slots /\ s < count
      /\ count' = m /\ expert' = NoRemoval /\ stack' = stack
      /\ inst' = [inst EXCEPT ![s] = IF s < m THEN inst[m] ELSE Disposed(inst[s])]
  BY DEF Finalize, DisposeInstance, Live
<1>2. ~Pass /\ TypeOK /\ Removal.phase = expert.phase /\ Removal.iface = expert.iface
  BY <1>1, IdleView
<1>3. /\ Len(View) = count /\ s + 1 \in 1..count /\ count \in Nat \ {0} /\ m \in Nat
      /\ \A k \in 1..count : k - 1 \in Live /\ View[k] = Interface(k)
      /\ (s + 1) - 1 = s
  <2>1. /\ Len(View) = count
        /\ \A k \in 1..count : k - 1 \in Live /\ View[k] = Interface(k)
    BY <1>2, ViewFacts
  <2>2. count \in Nat /\ s \in Nat
    BY <1>1, <1>2, RegistryAssumption DEF TypeOK, Slots
  <2>3. s + 1 \in 1..count /\ count \in Nat \ {0} /\ m \in Nat /\ (s + 1) - 1 = s
    BY <1>1, <2>2
  <2> QED
    BY <2>1, <2>2, <2>3
<1>4. View[s + 1].iface = Removal.iface
  BY <1>2, <1>3 DEF Interface
<1>5. ASSUME NEW k \in 1..m
      PROVE  Interface(k)' = IF k = s + 1 THEN View[Len(View)] ELSE View[k]
  <2>1. inst \in [Slots -> Instance] /\ k \in 1..count /\ k - 1 \in Slots
    BY <1>2, <1>3 DEF TypeOK, Live
  <2>2. CASE k = s + 1
    <3>1. s < m /\ k - 1 = s /\ Len(View) - 1 = m /\ Len(View) \in 1..count
      BY <1>3, <2>2 DEF Slots
    <3>2. inst'[k - 1] = inst[m]
      BY <1>1, <2>1, <3>1
    <3>3. View[Len(View)] = Interface(Len(View))
      BY <1>3, <3>1
    <3>4. Interface(k)' = Interface(Len(View))
      BY <3>1, <3>2 DEF Interface
    <3> QED
      BY <2>2, <3>3, <3>4
  <2>3. CASE k # s + 1
    <3>1. k - 1 # s
      BY <1>1, <2>3 DEF Slots
    <3>2. inst'[k - 1] = inst[k - 1]
      BY <1>1, <2>1, <3>1
    <3> QED
      BY <1>3, <2>1, <2>3, <3>2 DEF Interface
  <2> QED
    BY <2>2, <2>3
<1>6. View' = Clients!Freed(s + 1)
  <2>1. View' = [k \in 1..m |-> Interface(k)']
    BY <1>1 DEF View
  <2>2. Len(View) - 1 = m
    BY <1>3
  <2>3. Clients!Freed(s + 1) = [k \in 1..(Len(View) - 1) |->
                                  IF k = s + 1 THEN View[Len(View)] ELSE View[k]]
    BY DEF Clients!Freed, View
  <2> QED
    BY <1>5, <2>1, <2>2, <2>3
<1>7. Removal' = Clients!NoRemoval
  <2>1. Pass' \in BOOLEAN /\ ~Pass'
    BY <1>1, <1>2 DEF Pass
  <2>2. Pass' = FALSE
    BY <2>1
  <2>3. Removal' = [phase |-> expert'.phase, iface |-> expert'.iface, pass |-> Pass']
    BY DEF Removal
  <2> QED
    BY <1>1, <2>2, <2>3 DEF Clients!NoRemoval, NoRemoval
<1> QED
  BY <1>1, <1>2, <1>3, <1>4, <1>6, <1>7 DEF Clients!Finalize, View, Removal, Pass

(* Each step of the driver is a step of the registry or hidden from it.    *)
LEMMA StepMaps ==
  ASSUME IInv, IInv', [Next]_vars
  PROVE  [Clients!RegistryNext]_<<View, Removal>>
<1>1. CASE CpuStep
  <2>1. CASE NotifyMark
    <3> PICK s \in 1..Len(View) :
           /\ Removal.pass
           /\ View' = [View EXCEPT ![s].removing = TRUE]
           /\ Removal' = Removal
      BY <2>1, NotifyMarkMaps
    <3>1. Clients!Mark(s)
      BY DEF Clients!Mark, View, Removal, Pass
    <3>2. \E k \in 1..Len(View) : Clients!Mark(k)
      BY <3>1
    <3> QED
      BY <3>2 DEF Clients!RegistryNext, Clients!RegistryStep, View
  <2>5. CASE NotifyUnhook
    <3> PICK s \in 1..Len(View) :
           /\ Removal.pass /\ View[s].removing
           /\ View' = [View EXCEPT ![s].hook = FALSE]
           /\ Removal' = Removal
      BY <2>5, NotifyUnhookMaps
    <3>1. Clients!Unhook(s)
      BY DEF Clients!Unhook, View, Removal, Pass
    <3>2. \E k \in 1..Len(View) : Clients!Unhook(k)
      BY <3>1
    <3> QED
      BY <3>2 DEF Clients!RegistryNext, Clients!RegistryStep, View
  <2>2. CASE NotifyReturn
    BY <2>2, NotifyReturnMaps DEF Clients!RegistryNext, Clients!RegistryStep
  <2>3. CASE NotifyTest \/ NotifyAbort \/ NotifyAbortFails \/ NotifyClear
    BY <2>3, NotifyUnseen
  <2>4. CASE InitiateRefused \/ IssuePending \/ IssueError \/ IssueDone
               \/ ReturnedStop \/ ReturnedDrive \/ ReturnedNothing \/ InitiateLeaves
               \/ CompletionProc
               \/ \E status \in ReadStatus, err \in {"ok", "pending"} :
                    IssueCompletesInside(status, err)
    BY <2>4, MachineUnseen
  <2> QED
    BY <1>1, <2>1, <2>2, <2>3, <2>4, <2>5 DEF CpuStep
<1>2. ASSUME NEW s \in Slots, NEW status \in ReadStatus, CallCompletes(s, status)
      PROVE  View' = View /\ Removal' = Removal
  BY <1>2, CallCompletesUnseen
<1>3. ASSUME NEW i \in Interfaces, InitializeInterface(i)
      PROVE  Clients!RegistryNext
  <2>1. Clients!Plug(i)
    BY <1>3, InitializeInterfaceMaps
  <2> QED
    BY <2>1 DEF Clients!RegistryNext, Clients!RegistryStep
<1>4. ASSUME NEW i \in Interfaces, Unplug(i)
      PROVE  Clients!RegistryNext
  <2>1. Clients!Unplug(i)
    BY <1>4, UnplugMaps
  <2> QED
    BY <2>1 DEF Clients!RegistryNext
<1>5. ASSUME NEW s \in Slots, NEW hook \in BOOLEAN, SetEventCallback(s, hook)
      PROVE  Clients!RegistryNext
  <2>1. /\ s + 1 \in 1..Len(View) /\ Clients!TaskLevel
        /\ Clients!SetHooks({s + 1}, hook) /\ Removal' = Removal
    BY <1>5, SetEventCallbackMaps
  <2>2. \E k \in 1..Len(View), h \in BOOLEAN :
          Clients!TaskLevel /\ Clients!SetHooks({k}, h) /\ Removal' = Removal
    BY <2>1
  <2> QED
    BY <2>2 DEF Clients!RegistryNext, View, Removal, Pass
<1>6. CASE Notify
  BY <1>6, NotifyMaps DEF Clients!RegistryNext, Clients!RegistryStep
<1>7. CASE Finalize
  BY <1>7, FinalizeMaps DEF Clients!RegistryNext, Clients!RegistryStep
<1>8. CASE UNCHANGED vars
  BY <1>8 DEF vars, View, Removal, Pass, Interface
<1> QED
  BY <1>1, <1>2, <1>3, <1>4, <1>5, <1>6, <1>7, <1>8 DEF Next

LEMMA InitMaps == ASSUME Init PROVE Clients!RegistryInit
<1>1. count = 0 /\ stack = <<>> /\ expert = NoRemoval
  BY DEF Init
<1>2. View = <<>>
  BY <1>1 DEF View
<1>3. Removal = Clients!NoRemoval
  <2>1. Pass = FALSE
    BY <1>1 DEF Pass
  <2>2. Removal = [phase |-> expert.phase, iface |-> expert.iface, pass |-> Pass]
    BY DEF Removal
  <2> QED
    BY <1>1, <2>1, <2>2 DEF Clients!NoRemoval, NoRemoval
<1> QED
  BY <1>2, <1>3 DEF Clients!RegistryInit, View, Removal, Pass

(* To its clients the driver is the list of Registry: a new interface has  *)
(* no hook, the compaction moves the last interface and nothing else, and  *)
(* finalize follows a pass that left no hook and nothing in flight.        *)
THEOREM UsbImplementsRegistry == ASSUME Contract PROVE Spec => ImplementsRegistry
<1>1. Init => Clients!RegistryInit
  BY InitMaps
<1>2. IInv /\ IInv' /\ [Next]_vars => [Clients!RegistryNext]_<<View, Removal>>
  BY StepMaps
<1>3. [Clients!RegistryNext]_<<View, Removal>> <=> [Clients!RegistryNext]_(Clients!registryVars)
  BY DEF View, Removal, Pass, Clients!registryVars
<1> QED
  BY <1>1, <1>2, <1>3, UsbInvariant, PTL DEF Spec, ImplementsRegistry, Clients!RegistrySpec
=============================================================================
