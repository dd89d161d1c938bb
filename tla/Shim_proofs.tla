---------------------------- MODULE Shim_proofs ----------------------------
(***************************************************************************)
(* Proofs about Shim for every set of interfaces and every size of the     *)
(* registry.  What the shim owns and what the Probe prints is proved for   *)
(* every environment; that hooks, table and records never lead anywhere    *)
(* they should not, for the environment of Environment.                    *)
(***************************************************************************)
EXTENDS Shim, SequenceTheorems, TLAPS

(* What the system owes the shim: the order of a removal leaves no gap for *)
(* task-level code, a driver whose hooks are out is found again, one that  *)
(* is leaving is not, and the notification can be installed.               *)
Environment ==
  /\ GapOpen = FALSE
  /\ LookupMayFail \subseteq {FALSE}
  /\ FindsLeaving = FALSE
  /\ NotifierMayFail = FALSE

(* The Probe remembers what it has printed.                                *)
ProbeKnows ==
  /\ probe.last # NoDriver => screen = probe.last
  /\ probe.last = NoDriver => screen \in {Blank, NoDriver}
  /\ probe.reported <=> screen = NoDriver

Own == TypeOK /\ ResourcesOwned /\ ProbeKnows

(* How far a removal is, and that it ends with no hook left.               *)
RemovalOrder ==
  /\ expert.phase = "idle" => expert.iface = NoInterface
  /\ expert.pass => expert.phase = "notifying"
  /\ expert.phase = "drained" => ~HooksOut

(* A live shim hears of removals; the interface its table came by is       *)
(* attached and stays; without a table it has no records.                  *)
Informed ==
  /\ oms.alive => oms.notifier
  /\ oms.ref # NoInterface => oms.alive /\ oms.ref \in Attached /\ oms.ref # expert.iface
  /\ oms.ref = NoInterface => studio = ZeroIfaces

(* Hooks are out by the table at hand, or by one just given up, and then   *)
(* the notification is on its way to take them.                            *)
HooksHaveReason ==
  HooksOut => /\ oms.alive
              /\ oms.ref # NoInterface \/ expert.phase = "announced" \/ expert.pass

IInv == Own /\ RemovalOrder /\ Informed /\ HooksHaveReason /\ EventsMatchStudio

-----------------------------------------------------------------------------
(* Operations on the registry.                                             *)

(* The registry as a sequence.                                             *)
LEMMA SlotsSeq ==
  ASSUME NEW q \in UNION {[1..n -> Slot] : n \in 0..MaxInterfaces}
  PROVE  /\ q \in Seq(Slot)
         /\ Len(q) \in 0..MaxInterfaces
         /\ \A s \in 1..Len(q) : q[s] \in Slot
<1>1. PICK n \in 0..MaxInterfaces : q \in [1..n -> Slot]
  OBVIOUS
<1>2. n \in Nat
  BY RegistryAssumption
<1>3. q \in Seq(Slot)
  BY <1>1, <1>2, IsASeq
<1>4. Len(q) = n
  BY <1>1, <1>2, <1>3, LenProperties
<1> QED
  BY <1>1, <1>3, <1>4

LEMMA SlotsAreSeq ==
  ASSUME RegistryTypeOK
  PROVE  /\ slots \in Seq(Slot)
         /\ Len(slots) \in 0..MaxInterfaces
         /\ \A s \in Present : slots[s] \in Slot
BY SlotsSeq DEF RegistryTypeOK, Present

LEMMA SeqIsSlots ==
  ASSUME NEW q \in Seq(Slot), Len(q) <= MaxInterfaces
  PROVE  q \in UNION {[1..n -> Slot] : n \in 0..MaxInterfaces}
<1>1. q \in [1..Len(q) -> Slot] /\ Len(q) \in Nat
  BY LenProperties
<1>2. Len(q) \in 0..MaxInterfaces
  BY <1>1, RegistryAssumption
<1> QED
  BY <1>1, <1>2

LEMMA FunctionIsSeq ==
  ASSUME NEW n \in Nat, NEW q \in [1..n -> Slot]
  PROVE  q \in Seq(Slot) /\ Len(q) = n
<1>1. q \in Seq(Slot)
  BY IsASeq
<1> QED
  BY <1>1, LenProperties

(* Attaching adds one unhooked slot at the end.                            *)
LEMMA Plugged ==
  ASSUME RegistryTypeOK, NEW i \in Interfaces, Plug(i)
  PROVE  /\ slots' \in Seq(Slot)
         /\ Len(slots') = Len(slots) + 1
         /\ Len(slots') <= MaxInterfaces
         /\ \A s \in Present : slots'[s] = slots[s]
         /\ ~slots'[Len(slots) + 1].hook
<1> DEFINE fresh == [iface |-> i, hook |-> FALSE, removing |-> FALSE]
<1>1. slots \in Seq(Slot) /\ Len(slots) \in Nat
  BY SlotsAreSeq, RegistryAssumption
<1>2. fresh \in Slot /\ ~fresh.hook
  BY DEF Slot
<1>3. slots' = Append(slots, fresh) /\ Len(slots) < MaxInterfaces
  BY DEF Plug
<1> HIDE DEF fresh
<1>4. /\ slots' \in Seq(Slot)
      /\ Len(slots') = Len(slots) + 1
      /\ \A s \in 1..Len(slots) : slots'[s] = slots[s]
      /\ slots'[Len(slots) + 1] = fresh
  BY <1>1, <1>2, <1>3, AppendProperties
<1> QED
  BY <1>1, <1>2, <1>3, <1>4, RegistryAssumption DEF Present

(* Setting hooks changes nothing else.                                     *)
Rehooked(hook) ==
  /\ slots' \in Seq(Slot)
  /\ Len(slots') = Len(slots)
  /\ \A s \in Present : /\ slots'[s].iface = slots[s].iface
                        /\ slots'[s].removing = slots[s].removing
                        /\ slots'[s].hook = hook

LEMMA HooksSet ==
  ASSUME RegistryTypeOK, NEW hook \in BOOLEAN, SetHooks(Present, hook)
  PROVE  Rehooked(hook)
<1> DEFINE q == [s \in 1..Len(slots) |-> [slots[s] EXCEPT !.hook = hook]]
<1>1. Len(slots) \in Nat /\ \A s \in 1..Len(slots) : slots[s] \in Slot
  BY SlotsAreSeq, RegistryAssumption DEF Present
<1>2. slots' = q
  BY DEF SetHooks, Present
<1>3. \A s \in 1..Len(slots) : [slots[s] EXCEPT !.hook = hook] \in Slot
  BY <1>1 DEF Slot
<1>4. q \in [1..Len(slots) -> Slot]
  BY <1>3
<1>5. slots' \in Seq(Slot) /\ Len(slots') = Len(slots)
  BY <1>1, <1>2, <1>4, FunctionIsSeq
<1>6. \A s \in 1..Len(slots) : /\ q[s].iface = slots[s].iface
                               /\ q[s].removing = slots[s].removing
                               /\ q[s].hook = hook
  BY <1>1 DEF Slot
<1> QED
  BY <1>2, <1>5, <1>6 DEF Rehooked, Present

(* A notification marks one instance, or takes its hook.                   *)
LEMMA Marked ==
  ASSUME RegistryTypeOK, NEW t \in 1..Len(slots), Mark(t) \/ Unhook(t)
  PROVE  /\ slots' \in Seq(Slot)
         /\ Len(slots') = Len(slots)
         /\ \A s \in Present : /\ slots'[s].iface = slots[s].iface
                               /\ slots'[s].hook => slots[s].hook
                               /\ slots[s].removing => slots'[s].removing
<1>1. /\ slots \in Seq(Slot) /\ Len(slots) \in Nat
      /\ slots \in [1..Len(slots) -> Slot]
      /\ \A s \in 1..Len(slots) : slots[s] \in Slot
  BY SlotsAreSeq, LenProperties, RegistryAssumption DEF Present
<1>2. PICK new \in Slot :
        /\ new.iface = slots[t].iface
        /\ new.hook => slots[t].hook
        /\ slots[t].removing => new.removing
        /\ slots' = [slots EXCEPT ![t] = new]
  <2>1. slots[t] \in Slot
    BY <1>1
  <2>2. CASE Mark(t)
    <3> PICK r : r = [slots[t] EXCEPT !.removing = TRUE]
      OBVIOUS
    <3>1. /\ r \in Slot /\ r.iface = slots[t].iface
          /\ r.hook = slots[t].hook /\ r.removing = TRUE
      BY <2>1 DEF Slot
    <3>2. slots' = [slots EXCEPT ![t] = r]
      BY <1>1, <2>2 DEF Mark
    <3> QED
      BY <3>1, <3>2
  <2>3. CASE Unhook(t)
    <3> PICK r : r = [slots[t] EXCEPT !.hook = FALSE]
      OBVIOUS
    <3>1. /\ r \in Slot /\ r.iface = slots[t].iface
          /\ r.hook = FALSE /\ r.removing = slots[t].removing
      BY <2>1 DEF Slot
    <3>2. slots' = [slots EXCEPT ![t] = r]
      BY <1>1, <2>3 DEF Unhook
    <3> QED
      BY <3>1, <3>2
  <2> QED
    BY <2>2, <2>3
<1>3. slots' \in [1..Len(slots) -> Slot]
  BY <1>1, <1>2
<1>4. slots' \in Seq(Slot) /\ Len(slots') = Len(slots)
  BY <1>1, <1>3, FunctionIsSeq
<1>5. \A s \in 1..Len(slots) : slots'[s] = IF s = t THEN new ELSE slots[s]
  BY <1>1, <1>2
<1> QED
  BY <1>2, <1>4, <1>5 DEF Present

(* Finalizing takes one interface away and keeps the other slots, the last *)
(* one at another index.                                                   *)
LEMMA Finalized ==
  ASSUME RegistryTypeOK, Finalize
  PROVE  /\ slots' \in Seq(Slot)
         /\ Len(slots') <= MaxInterfaces
         /\ \A k \in 1..Len(slots') : \E s \in Present : slots'[k] = slots[s]
         /\ \A s \in Present :
              slots[s].iface # expert.iface => \E k \in 1..Len(slots') : slots'[k] = slots[s]
<1> DEFINE n == Len(slots)
<1>1. n \in 0..MaxInterfaces /\ n \in Nat /\ \A s \in 1..n : slots[s] \in Slot
  BY SlotsAreSeq, RegistryAssumption DEF Present
<1>2. PICK t \in 1..n : slots[t].iface = expert.iface /\ slots' = Freed(t)
  BY DEF Finalize
<1>3. n \in 1..MaxInterfaces /\ n - 1 \in Nat
  BY <1>1, <1>2
<1>4. slots' = [k \in 1..(n - 1) |-> IF k = t THEN slots[n] ELSE slots[k]]
  BY <1>2 DEF Freed
<1> HIDE DEF n
<1>5. slots' \in [1..(n - 1) -> Slot]
  BY <1>1, <1>3, <1>4
<1>6. slots' \in Seq(Slot) /\ Len(slots') = n - 1
  BY <1>3, <1>5, FunctionIsSeq
<1>7. \A k \in 1..(n - 1) : slots'[k] = IF k = t THEN slots[n] ELSE slots[k]
  BY <1>4
<1>8. \A k \in 1..(n - 1) : \E s \in 1..n : slots'[k] = slots[s]
  BY <1>3, <1>7
<1>9. ASSUME NEW s \in 1..n, slots[s].iface # expert.iface
      PROVE  \E k \in 1..(n - 1) : slots'[k] = slots[s]
  <2>1. s # t
    BY <1>2, <1>9
  <2>2. CASE s = n
    BY <1>2, <1>3, <1>7, <2>1, <2>2
  <2>3. CASE s # n
    BY <1>3, <1>7, <2>1, <2>3
  <2> QED
    BY <2>2, <2>3
<1> QED
  BY <1>3, <1>6, <1>8, <1>9, RegistryAssumption DEF Present, n

(* A step of a client leaves the slots alone, or sets all their hooks.     *)
LEMMA ClientTypes ==
  ASSUME RegistryTypeOK, expert' = expert,
         slots' = slots \/ \E hook \in BOOLEAN : Rehooked(hook)
  PROVE  RegistryTypeOK'
<1>1. CASE slots' = slots
  BY <1>1 DEF RegistryTypeOK
<1>2. CASE \E hook \in BOOLEAN : Rehooked(hook)
  <2>1. slots' \in Seq(Slot) /\ Len(slots') <= MaxInterfaces
    BY <1>2, SlotsAreSeq, RegistryAssumption DEF Rehooked
  <2> QED
    BY <2>1, SeqIsSlots DEF RegistryTypeOK
<1> QED
  BY <1>1, <1>2

LEMMA Registered ==
  ASSUME RegistryTypeOK, NEW ref, RegisterCallbacks(ref)
  PROVE  IF ref = NoInterface THEN slots' = slots ELSE Rehooked(TRUE)
BY HooksSet DEF RegisterCallbacks

LEMMA TakenBack ==
  ASSUME RegistryTypeOK, TakeHooksBack
  PROVE  IF oms.ref = NoInterface THEN slots' = slots ELSE Rehooked(FALSE)
BY HooksSet DEF TakeHooksBack

(* What the driver and the Expert do by themselves keeps the registry.     *)
LEMMA StepTypes ==
  ASSUME RegistryTypeOK, RegistryStep
  PROVE  RegistryTypeOK'
<1>1. expert \in [phase : {"idle", "announced", "notifying", "drained"},
                  iface : Interfaces \cup {NoInterface}, pass : BOOLEAN]
  BY DEF RegistryTypeOK
<1>2. ASSUME NEW i \in Interfaces, Plug(i) PROVE RegistryTypeOK'
  <2>1. slots' \in Seq(Slot) /\ Len(slots') <= MaxInterfaces
    BY <1>2, Plugged
  <2> QED
    BY <1>1, <1>2, <2>1, SeqIsSlots DEF RegistryTypeOK, Plug
<1>3. CASE Notify
  BY <1>1, <1>3 DEF RegistryTypeOK, Notify
<1>4. ASSUME NEW s \in 1..Len(slots), Mark(s) \/ Unhook(s) PROVE RegistryTypeOK'
  <2>1. slots' \in Seq(Slot) /\ Len(slots') <= MaxInterfaces
    BY <1>4, Marked, SlotsAreSeq, RegistryAssumption
  <2> QED
    BY <1>1, <1>4, <2>1, SeqIsSlots DEF RegistryTypeOK, Mark, Unhook
<1>5. CASE NotifyReturn
  BY <1>1, <1>5 DEF RegistryTypeOK, NotifyReturn
<1>6. CASE Finalize
  <2>1. slots' \in Seq(Slot) /\ Len(slots') <= MaxInterfaces
    BY <1>6, Finalized
  <2> QED
    BY <1>6, <2>1, SeqIsSlots DEF RegistryTypeOK, Finalize, NoRemoval
<1> QED
  BY <1>2, <1>3, <1>4, <1>5, <1>6 DEF RegistryStep

-----------------------------------------------------------------------------
(* What is true in every environment.                                      *)

LEMMA UnitsBounded == \A b \in BOOLEAN : Units(b) \in {0, 1}
BY DEF Units

LEMMA InitOwn == Init => Own
<1> SUFFICES ASSUME Init PROVE Own
  OBVIOUS
<1>1. RegistryTypeOK
  <2>1. slots \in Seq(Slot) /\ Len(slots) <= MaxInterfaces
    BY RegistryAssumption, EmptySeq DEF Init, RegistryInit
  <2>2. expert \in [phase : {"idle", "announced", "notifying", "drained"},
                    iface : Interfaces \cup {NoInterface}, pass : BOOLEAN]
    BY DEF Init, RegistryInit, NoRemoval
  <2> QED
    BY <2>1, <2>2, SeqIsSlots DEF RegistryTypeOK
<1>2. oms \in [alive : BOOLEAN, ref : Refs, notifier : BOOLEAN,
               sendUpp : BOOLEAN, list : BOOLEAN]
  BY DEF Init, ZeroOms, Refs
<1>3. studio \in [Indices -> Refs]
  BY DEF Init, ZeroIfaces, Refs
<1>4. system \in [descriptors : 0..1, notifications : 0..1] /\ held \in BOOLEAN
  <2>1. system \in [descriptors : 0..1, notifications : 0..1]
    <3>1. system = [descriptors |-> 0, notifications |-> 0]
      BY DEF Init
    <3> QED
      BY <3>1
  <2>2. held \in BOOLEAN
    BY Zenon DEF Init
  <2> QED
    BY <2>1, <2>2
<1>5. /\ probe \in [at : {"poll", "delay", "quit"}, last : 0..NoDriver,
                    reported : BOOLEAN, printed : BOOLEAN]
      /\ screen \in 0..Blank
  BY RegistryAssumption DEF Init, NoDriver, Blank
<1>6. ResourcesOwned
  BY DEF Init, ResourcesOwned, ZeroOms, Units
<1>7. ProbeKnows
  BY RegistryAssumption DEF Init, ProbeKnows, NoDriver, Blank
<1> QED
  BY <1>1, <1>2, <1>3, <1>4, <1>5, <1>6, <1>7 DEF Own, TypeOK

(* Types of what only the shim, or only the Probe, changes.                *)
OmsType == [alive : BOOLEAN, ref : Refs, notifier : BOOLEAN, sendUpp : BOOLEAN, list : BOOLEAN]
ShimTypes ==
  /\ oms \in OmsType
  /\ studio \in [Indices -> Refs]
  /\ system \in [descriptors : 0..1, notifications : 0..1]
  /\ held \in BOOLEAN
ProbeTypes ==
  /\ probe \in [at : {"poll", "delay", "quit"}, last : 0..NoDriver,
                reported : BOOLEAN, printed : BOOLEAN]
  /\ screen \in 0..Blank

LEMMA OwnParts ==
  /\ Own <=> RegistryTypeOK /\ ShimTypes /\ ProbeTypes /\ ResourcesOwned /\ ProbeKnows
  /\ Own' <=> RegistryTypeOK' /\ ShimTypes' /\ ProbeTypes' /\ ResourcesOwned' /\ ProbeKnows'
BY DEF Own, TypeOK, OmsType, ShimTypes, ProbeTypes

(* A step of the shim leaves the Probe alone and the other way round.      *)
LEMMA ShimOwn ==
  ASSUME Own, UNCHANGED probeVars, RegistryTypeOK', ShimTypes', ResourcesOwned'
  PROVE  Own'
BY OwnParts DEF ProbeTypes, ProbeKnows, probeVars

LEMMA QuietOwn ==
  ASSUME Own, UNCHANGED shimVars, RegistryTypeOK'
  PROVE  ShimTypes' /\ ResourcesOwned'
BY OwnParts DEF ShimTypes, ResourcesOwned, shimVars

(* omdvInit gives back what it takes again.                                *)
LEMMA OmsInitOwn ==
  ASSUME Own, NEW ref \in Refs, NEW notifier \in BOOLEAN, NEW upp \in BOOLEAN,
         OmsInit(ref, notifier, upp)
  PROVE  Own'
<1>1. RegistryTypeOK /\ ShimTypes /\ ResourcesOwned
  BY OwnParts
<1>2. RegistryTypeOK'
  <2>1. IF ref = NoInterface THEN slots' = slots ELSE Rehooked(TRUE)
    BY <1>1, Registered DEF OmsInit
  <2>2. expert' = expert
    BY DEF OmsInit
  <2> QED
    BY <1>1, <2>1, <2>2, ClientTypes
<1>3. oms' = [alive |-> TRUE, ref |-> ref, notifier |-> notifier, sendUpp |-> upp, list |-> FALSE]
  BY DEF OmsInit, ZeroOms
<1>4. /\ oms' \in OmsType
      /\ oms'.sendUpp = upp /\ oms'.notifier = notifier
  BY <1>3 DEF OmsType
<1>5. /\ system'.descriptors = Units(upp) /\ system'.notifications = Units(notifier)
      /\ system' \in [descriptors : 0..1, notifications : 0..1]
  <2>1. /\ Units(upp) \in {0, 1} /\ Units(notifier) \in {0, 1}
        /\ Units(oms.sendUpp) \in {0, 1} /\ Units(oms.notifier) \in {0, 1}
    BY <1>1, UnitsBounded DEF ShimTypes, OmsType
  <2>2. /\ system.descriptors = Units(oms.sendUpp)
        /\ system.notifications = Units(oms.notifier)
    BY <1>1 DEF ResourcesOwned
  <2>3. system' =
       [descriptors |-> system.descriptors - Units(oms.sendUpp) + Units(upp),
        notifications |-> system.notifications - Units(oms.notifier) + Units(notifier)]
    BY DEF OmsInit
  <2> QED
    BY <2>1, <2>2, <2>3
<1>6. held' \in BOOLEAN /\ ~held'
  BY DEF OmsInit
<1>7. studio' \in [Indices -> Refs]
  BY DEF OmsInit, ZeroIfaces, Refs
<1>8. ShimTypes'
  BY <1>4, <1>5, <1>6, <1>7 DEF ShimTypes
<1>9. ResourcesOwned'
  <2>1. system'.descriptors = Units(oms'.sendUpp) /\ system'.notifications = Units(oms'.notifier)
    BY <1>4, <1>5
  <2> QED
    BY <1>6, <2>1 DEF ResourcesOwned, Units
<1>10. UNCHANGED probeVars
  BY DEF OmsInit
<1> QED
  BY <1>2, <1>8, <1>9, <1>10, ShimOwn

(* omdvDispose gives everything back.                                      *)
LEMMA OmsDisposeOwn ==
  ASSUME Own, OmsDispose
  PROVE  Own'
<1>1. RegistryTypeOK /\ ShimTypes /\ ResourcesOwned
  BY OwnParts
<1>2. RegistryTypeOK'
  <2>1. IF oms.ref = NoInterface THEN slots' = slots ELSE Rehooked(FALSE)
    BY <1>1, TakenBack DEF OmsDispose
  <2>2. expert' = expert
    BY DEF OmsDispose
  <2> QED
    BY <1>1, <2>1, <2>2, ClientTypes
<1>3. /\ oms' \in OmsType
      /\ oms'.sendUpp = FALSE /\ oms'.notifier = FALSE
  BY DEF OmsDispose, ZeroOms, OmsType, Refs
<1>4. system' = [descriptors |-> 0, notifications |-> 0]
  <2>1. Units(oms.sendUpp) \in {0, 1} /\ Units(oms.notifier) \in {0, 1}
    BY <1>1, UnitsBounded DEF ShimTypes, OmsType
  <2>2. /\ system.descriptors = Units(oms.sendUpp)
        /\ system.notifications = Units(oms.notifier)
    BY <1>1 DEF ResourcesOwned
  <2>3. system' = [descriptors |-> system.descriptors - Units(oms.sendUpp),
                   notifications |-> system.notifications - Units(oms.notifier)]
    BY DEF OmsDispose
  <2> QED
    BY <2>1, <2>2, <2>3
<1>5. system' \in [descriptors : 0..1, notifications : 0..1]
  BY <1>4
<1>6. held' \in BOOLEAN /\ ~held'
  BY DEF OmsDispose
<1>7. studio' \in [Indices -> Refs]
  BY DEF OmsDispose, ZeroIfaces, Refs
<1>8. ShimTypes'
  BY <1>3, <1>5, <1>6, <1>7 DEF ShimTypes
<1>9. ResourcesOwned'
  BY <1>3, <1>4, <1>6 DEF ResourcesOwned, Units
<1>10. UNCHANGED probeVars
  BY DEF OmsDispose
<1> QED
  BY <1>2, <1>8, <1>9, <1>10, ShimOwn

(* Steps that bind to a driver, or let go of it, own what they owned.      *)
LEMMA RebindOwn ==
  ASSUME Own, UNCHANGED <<system, held, probeVars>>, RegistryTypeOK',
         studio' \in [Indices -> Refs],
         NEW ref \in Refs, oms' = [oms EXCEPT !.ref = ref]
  PROVE  Own'
<1>1. ShimTypes /\ ResourcesOwned
  BY OwnParts
<1>2. /\ oms' \in OmsType
      /\ oms'.sendUpp = oms.sendUpp /\ oms'.notifier = oms.notifier /\ oms'.alive = oms.alive
  BY <1>1 DEF ShimTypes, OmsType
<1>3. ShimTypes'
  BY <1>1, <1>2 DEF ShimTypes
<1>4. ResourcesOwned'
  BY <1>1, <1>2 DEF ResourcesOwned
<1>5. UNCHANGED probeVars
  OBVIOUS
<1> QED
  BY <1>3, <1>4, <1>5, ShimOwn

LEMMA NotifyAddOwn ==
  ASSUME Own, NEW i \in Interfaces, NotifyAdd(i)
  PROVE  Own'
<1>1. RegistryTypeOK /\ ShimTypes
  BY OwnParts
<1>2. RegistryTypeOK'
  <2>1. IF i = NoInterface THEN slots' = slots ELSE Rehooked(TRUE)
    BY <1>1, Registered DEF NotifyAdd
  <2>2. expert' = expert
    BY DEF NotifyAdd
  <2> QED
    BY <1>1, <2>1, <2>2, ClientTypes
<1> QED
  BY <1>1, <1>2, RebindOwn DEF NotifyAdd, Refs, ShimTypes

LEMMA InterfaceGoesOwn ==
  ASSUME Own, NEW i \in Interfaces, InterfaceGoes(i)
  PROVE  Own'
<1>1. RegistryTypeOK /\ ShimTypes
  BY OwnParts
<1>2. RegistryTypeOK'
  BY <1>1 DEF InterfaceGoes, Unplug, RegistryTypeOK
<1>3. CASE Detaches(i)
  <2>1. studio' \in [Indices -> Refs]
    BY <1>3 DEF InterfaceGoes, ZeroIfaces, Refs
  <2>2. oms' = [oms EXCEPT !.ref = NoInterface] /\ UNCHANGED <<system, held, probeVars>>
    BY <1>3 DEF InterfaceGoes
  <2>3. NoInterface \in Refs
    BY DEF Refs
  <2> QED
    BY <1>2, <2>1, <2>2, <2>3, RebindOwn
<1>4. CASE ~Detaches(i)
  <2>1. UNCHANGED <<shimVars, probeVars>>
    BY <1>4 DEF InterfaceGoes, shimVars
  <2> QED
    BY <1>2, <2>1, QuietOwn, ShimOwn
<1> QED
  BY <1>3, <1>4

LEMMA AddDevicesOwn ==
  ASSUME Own, NEW ref \in Refs, AddDevices(ref)
  PROVE  Own'
<1>1. RegistryTypeOK /\ ShimTypes
  BY OwnParts
<1>2. RegistryTypeOK'
  <2>1. IF ref = NoInterface THEN slots' = slots ELSE Rehooked(TRUE)
    BY <1>1, Registered DEF AddDevices
  <2>2. expert' = expert
    BY DEF AddDevices
  <2> QED
    BY <1>1, <2>1, <2>2, ClientTypes
<1>3. Recorded \in [Indices -> Refs]
  <2>1. \A s \in Present : slots[s].iface \in Refs
    BY <1>1, SlotsAreSeq DEF Slot, Refs
  <2>2. \A s \in Indices : studio[s] \in Refs
    BY <1>1 DEF ShimTypes
  <2> QED
    BY <2>1, <2>2 DEF Recorded
<1>4. studio' \in [Indices -> Refs]
  BY <1>1, <1>3 DEF AddDevices, ShimTypes
<1> QED
  BY <1>2, <1>4, RebindOwn DEF AddDevices

LEMMA StartMIDI2Own ==
  ASSUME Own, NEW ref \in Refs, StartMIDI2(ref)
  PROVE  Own'
<1>1. RegistryTypeOK /\ ShimTypes
  BY OwnParts
<1>2. RegistryTypeOK'
  <2>1. slots' = slots \/ Rehooked(TRUE)
    BY <1>1, Registered DEF StartMIDI2
  <2>2. expert' = expert
    BY DEF StartMIDI2
  <2> QED
    BY <1>1, <2>1, <2>2, ClientTypes
<1> QED
  BY <1>1, <1>2, RebindOwn DEF StartMIDI2, ShimTypes

LEMMA SetInterfaceListOwn ==
  ASSUME Own, SetInterfaceList
  PROVE  Own'
<1>1. RegistryTypeOK /\ ShimTypes /\ ResourcesOwned
  BY OwnParts
<1>2. RegistryTypeOK'
  BY <1>1 DEF SetInterfaceList, RegistryTypeOK
<1>3. /\ oms' \in OmsType
      /\ oms'.sendUpp = oms.sendUpp /\ oms'.notifier = oms.notifier /\ oms'.alive = oms.alive
  BY <1>1 DEF SetInterfaceList, ShimTypes, OmsType
<1>4. studio' = studio /\ system' = system /\ held' = held /\ UNCHANGED probeVars
  BY DEF SetInterfaceList
<1>5. ShimTypes'
  BY <1>1, <1>3, <1>4 DEF ShimTypes
<1>6. ResourcesOwned'
  BY <1>1, <1>3, <1>4 DEF ResourcesOwned
<1> QED
  BY <1>2, <1>4, <1>5, <1>6, ShimOwn

LEMMA GetPortSendProcOwn ==
  ASSUME Own, NEW upp \in BOOLEAN, GetPortSendProc(upp)
  PROVE  Own'
<1>1. RegistryTypeOK /\ ShimTypes /\ ResourcesOwned
  BY OwnParts
<1>2. RegistryTypeOK'
  BY <1>1 DEF GetPortSendProc, RegistryTypeOK
<1>3. /\ oms' \in OmsType
      /\ oms'.sendUpp = upp /\ oms'.notifier = oms.notifier /\ oms'.alive = oms.alive
  BY <1>1 DEF GetPortSendProc, ShimTypes, OmsType
<1>4. studio' = studio /\ UNCHANGED probeVars
  BY DEF GetPortSendProc
<1>5. oms.alive /\ (oms.sendUpp => upp)
  BY DEF GetPortSendProc, Alive
<1>6. held' \in BOOLEAN /\ (held' => upp)
  BY DEF GetPortSendProc
<1>7. /\ system'.descriptors = Units(upp)
      /\ system'.notifications = system.notifications
      /\ system' \in [descriptors : 0..1, notifications : 0..1]
  <2>1. system' = [system EXCEPT !.descriptors = @ + Units(upp /\ ~oms.sendUpp)]
    BY DEF GetPortSendProc
  <2>2. system.descriptors = Units(oms.sendUpp)
    BY <1>1 DEF ResourcesOwned
  <2>3. oms.sendUpp \in BOOLEAN
    BY <1>1 DEF ShimTypes, OmsType
  <2>4. PICK more : more = Units(upp /\ ~oms.sendUpp)
    OBVIOUS
  <2>5. Units(oms.sendUpp) + more = Units(upp) /\ Units(upp) \in {0, 1} /\ more \in {0, 1}
    BY <1>5, <2>3, <2>4 DEF Units
  <2>6. system' = [system EXCEPT !.descriptors = @ + more]
    BY <2>1, <2>4
  <2>7. system \in [descriptors : 0..1, notifications : 0..1]
    BY <1>1 DEF ShimTypes
  <2> QED
    BY <2>2, <2>5, <2>6, <2>7
<1>8. ShimTypes'
  BY <1>1, <1>3, <1>4, <1>6, <1>7 DEF ShimTypes
<1>9. ResourcesOwned'
  BY <1>1, <1>3, <1>5, <1>6, <1>7 DEF ResourcesOwned
<1> QED
  BY <1>2, <1>4, <1>8, <1>9, ShimOwn

(* A poll prints exactly when the screen does not say what it found, and   *)
(* remembers what it has printed.                                          *)
LEMMA PollTells ==
  ASSUME Own, NEW found \in BOOLEAN, ProbePoll(found)
  PROVE  LET truth == IF found THEN Len(slots) ELSE NoDriver
         IN  /\ screen' = truth
             /\ probe'.printed <=> screen # truth
             /\ ProbeTypes' /\ ProbeKnows'
<1>1. RegistryTypeOK /\ ProbeTypes /\ ProbeKnows
  BY OwnParts
<1>2. /\ Len(slots) \in 0..MaxInterfaces
      /\ MaxInterfaces \in Nat /\ NoDriver = MaxInterfaces + 1 /\ Blank = MaxInterfaces + 2
  BY <1>1, SlotsAreSeq, RegistryAssumption DEF NoDriver, Blank
<1>3. /\ probe.last \in 0..NoDriver
      /\ probe.last # NoDriver => screen = probe.last
      /\ probe.last = NoDriver => screen \in {Blank, NoDriver}
      /\ probe.reported <=> screen = NoDriver
      /\ screen \in 0..Blank
  BY <1>1 DEF ProbeTypes, ProbeKnows
<1>4. PICK count : count = Len(slots)
  OBVIOUS
<1>5. CASE found
  <2>1. PICK news : news = (count # probe.last)
    OBVIOUS
  <2>2. news \in BOOLEAN /\ (news <=> count # probe.last)
    BY <2>1
  <2>3. /\ screen' = IF news THEN count ELSE screen
        /\ probe' = [at |-> "delay", reported |-> FALSE, printed |-> news, last |-> count]
    <3>1. PICK told : told = ~found
      OBVIOUS
    <3>2. told \in BOOLEAN /\ ~told
      BY <1>5, <3>1
    <3>3. told = FALSE
      BY <3>2
    <3> QED
      BY <1>4, <1>5, <2>1, <3>1, <3>3 DEF ProbePoll
  <2>4. screen' = count /\ (news <=> screen # count)
    BY <1>2, <1>3, <1>4, <2>2, <2>3
  <2>5. /\ probe'.at = "delay" /\ ~probe'.reported /\ probe'.reported \in BOOLEAN
        /\ probe'.printed = news /\ probe'.last = count
        /\ probe' \in [at : {"poll", "delay", "quit"}, last : 0..NoDriver,
                       reported : BOOLEAN, printed : BOOLEAN]
    BY <1>2, <1>4, <2>2, <2>3
  <2>6. ProbeTypes' /\ ProbeKnows'
    BY <1>2, <1>4, <2>4, <2>5 DEF ProbeTypes, ProbeKnows
  <2> QED
    BY <1>4, <1>5, <2>4, <2>5, <2>6
<1>6. CASE ~found
  <2>1. PICK news : news = ~probe.reported
    OBVIOUS
  <2>2. news \in BOOLEAN /\ (news <=> ~probe.reported)
    BY <2>1
  <2>3. /\ screen' = IF news THEN NoDriver ELSE screen
        /\ probe' = [at |-> "delay", reported |-> TRUE, printed |-> news, last |-> NoDriver]
    <3>1. PICK told : told = ~found
      OBVIOUS
    <3>2. told \in BOOLEAN /\ told
      BY <1>6, <3>1
    <3>3. told = TRUE
      BY <3>2
    <3> QED
      BY <1>6, <2>1, <3>1, <3>3 DEF ProbePoll
  <2>4. screen' = NoDriver /\ (news <=> screen # NoDriver)
    BY <1>3, <2>2, <2>3
  <2>5. /\ probe'.at = "delay" /\ probe'.reported /\ probe'.reported \in BOOLEAN
        /\ probe'.printed = news /\ probe'.last = NoDriver
        /\ probe' \in [at : {"poll", "delay", "quit"}, last : 0..NoDriver,
                       reported : BOOLEAN, printed : BOOLEAN]
    BY <1>2, <2>2, <2>3
  <2>6. ProbeTypes' /\ ProbeKnows'
    BY <1>2, <2>4, <2>5 DEF ProbeTypes, ProbeKnows
  <2> QED
    BY <1>6, <2>4, <2>5, <2>6
<1> QED
  BY <1>5, <1>6

LEMMA ProbePollOwn ==
  ASSUME Own, NEW found \in BOOLEAN, ProbePoll(found)
  PROVE  Own'
<1>1. ProbeTypes' /\ ProbeKnows'
  BY PollTells
<1>2. UNCHANGED <<slots, expert, shimVars>>
  BY DEF ProbePoll
<1>3. RegistryTypeOK'
  BY <1>2, OwnParts DEF RegistryTypeOK
<1>4. ShimTypes' /\ ResourcesOwned'
  BY <1>2, <1>3, QuietOwn
<1> QED
  BY <1>1, <1>3, <1>4, OwnParts

LEMMA ProbeWaitsOwn ==
  ASSUME Own, ProbeDelay \/ ProbeQuits
  PROVE  Own'
<1>1. ProbeTypes /\ ProbeKnows
  BY OwnParts
<1>2. UNCHANGED <<slots, expert, shimVars>> /\ screen' = screen
  BY DEF ProbeDelay, ProbeQuits
<1>3. RegistryTypeOK'
  BY <1>2, OwnParts DEF RegistryTypeOK
<1>4. ShimTypes' /\ ResourcesOwned'
  BY <1>2, <1>3, QuietOwn
<1>5. /\ probe' \in [at : {"poll", "delay", "quit"}, last : 0..NoDriver,
                     reported : BOOLEAN, printed : BOOLEAN]
      /\ probe'.last = probe.last /\ probe'.reported = probe.reported
  BY <1>1 DEF ProbeTypes, ProbeDelay, ProbeQuits
<1>6. ProbeTypes' /\ ProbeKnows'
  BY <1>1, <1>2, <1>5 DEF ProbeTypes, ProbeKnows
<1> QED
  BY <1>3, <1>4, <1>6, OwnParts

LEMMA StepOwn == Own /\ [Next]_vars => Own'
<1> SUFFICES ASSUME Own, [Next]_vars PROVE Own'
  OBVIOUS
<1>1. CASE DriverStep
  <2>1. RegistryTypeOK'
    BY <1>1, OwnParts, StepTypes DEF DriverStep
  <2> QED
    BY <1>1, <2>1, QuietOwn, ShimOwn DEF DriverStep
<1>2. CASE UNCHANGED vars
  <2>1. RegistryTypeOK' /\ UNCHANGED <<shimVars, probeVars>>
    BY <1>2, OwnParts DEF RegistryTypeOK, vars, shimVars, probeVars
  <2> QED
    BY <2>1, QuietOwn, ShimOwn
<1> QED
  BY <1>1, <1>2, OmsInitOwn, OmsDisposeOwn, NotifyAddOwn, InterfaceGoesOwn, AddDevicesOwn,
     StartMIDI2Own, SetInterfaceListOwn, GetPortSendProcOwn, ProbePollOwn, ProbeWaitsOwn
     DEF Next

(* Every variable keeps its type, in every environment.                    *)
THEOREM ShimTypeCorrect == Spec => []TypeOK
<1>1. Own => TypeOK
  BY DEF Own
<1> QED
  BY InitOwn, StepOwn, <1>1, PTL DEF Spec

(* "so repeated omdvInit never leaks" (oms_init): whichever of its steps   *)
(* fail and however often it is called, the system holds exactly what the  *)
(* shim can give back, and OMS never holds a send procedure that was freed *)
(* or never built.                                                         *)
THEOREM ShimResourcesOwned == Spec => []ResourcesOwned
<1>1. Own => ResourcesOwned
  BY DEF Own
<1> QED
  BY InitOwn, StepOwn, <1>1, PTL DEF Spec

(* "State transitions (no spamming)" (probe.c): whatever a poll finds, the *)
(* screen says it afterwards, and it was printed only if it was news, even *)
(* if lookups fail at any time.                                            *)
THEOREM ShimProbeTellsNews == Spec => ProbeTellsNews
<1>1. Own => \A found \in BOOLEAN :
               ProbePoll(found) =>
                 LET truth == IF found THEN Len(slots) ELSE NoDriver
                 IN  screen' = truth /\ (probe'.printed <=> screen # truth)
  BY PollTells
<1> QED
  BY InitOwn, StepOwn, <1>1, PTL DEF Spec, ProbeTellsNews

-----------------------------------------------------------------------------
(* Where hooks, table and records lead, in the environment of Environment. *)

(* A step that sets all hooks leaves the same interfaces attached; one     *)
(* that clears them leaves no hook.                                        *)
LEMMA RehookedView ==
  ASSUME RegistryTypeOK, NEW hook \in BOOLEAN, Rehooked(hook)
  PROVE  /\ Attached' = Attached /\ Present' = Present
         /\ HooksOut' <=> hook /\ slots # <<>>
<1>1. /\ slots \in Seq(Slot) /\ Len(slots) \in Nat
      /\ slots' \in Seq(Slot) /\ Len(slots') = Len(slots)
      /\ \A s \in Present : slots'[s].iface = slots[s].iface /\ slots'[s].hook = hook
  BY SlotsAreSeq, RegistryAssumption DEF Rehooked
<1>2. Present' = Present
  BY <1>1 DEF Present
<1>3. Attached' = {slots'[s].iface : s \in Present} /\ Attached = {slots[s].iface : s \in Present}
  BY <1>1 DEF Attached, Present
<1>4. Attached' = Attached
  BY <1>1, <1>3
<1>5. HooksOut' <=> \E s \in Present : slots'[s].hook
  BY <1>2 DEF HooksOut
<1>6. slots # <<>> <=> Present # {}
  BY <1>1, EmptySeq DEF Present
<1> QED
  BY <1>1, <1>2, <1>4, <1>5, <1>6

(* When a client may act, no removal is past its announcement unheard and  *)
(* none has drained; a binding in doubt means that no hook is out.         *)
LEMMA ActingClient ==
  ASSUME Environment, RemovalOrder, MayAct
  PROVE  ~expert.pass /\ expert.phase # "drained" /\ expert.phase # "announced"
BY DEF Environment, MayAct, TaskLevel

LEMMA Bound ==
  ASSUME RegistryTypeOK, Environment, NEW ref, Finds(ref)
  PROVE  IF ref = NoInterface
           THEN Locatable = {} \/ ~HooksOut
           ELSE ref \in Attached /\ ref # expert.iface
<1>1. Locatable = {i \in Attached : i # expert.iface}
  BY DEF Environment, Locatable
<1>2. HooksOut \in LookupMayFail => ~HooksOut
  BY DEF Environment
<1>3. NoInterface \notin Attached
  BY SlotsAreSeq, RegistryAssumption DEF Attached, Present, Slot
<1> QED
  BY <1>1, <1>2, <1>3 DEF Finds

(* The parts of IInv that a step of a client has to keep: neither the      *)
(* interfaces attached nor the removal change.                             *)
LEMMA ClientLeads ==
  ASSUME IInv, UNCHANGED expert, Attached' = Attached,
         oms'.alive => oms'.notifier,
         oms'.ref # NoInterface =>
           oms'.alive /\ oms'.ref \in Attached /\ oms'.ref # expert.iface,
         oms'.ref = NoInterface => studio' = ZeroIfaces,
         HooksOut' => /\ oms'.alive
                      /\ oms'.ref # NoInterface \/ expert.phase = "announced" \/ expert.pass,
         expert.phase = "drained" => ~HooksOut'
  PROVE  RemovalOrder' /\ Informed' /\ HooksHaveReason'
<1>1. RemovalOrder'
  BY DEF IInv, RemovalOrder
<1>2. Informed'
  BY DEF Informed
<1>3. HooksHaveReason'
  BY DEF HooksHaveReason
<1> QED
  BY <1>1, <1>2, <1>3

(* Steps that change neither the slots nor what they are matched with.     *)
LEMMA QuietLeads ==
  ASSUME IInv, UNCHANGED <<slots, expert, studio>>,
         oms'.alive = oms.alive, oms'.ref = oms.ref, oms'.notifier = oms.notifier
  PROVE  RemovalOrder' /\ Informed' /\ HooksHaveReason' /\ EventsMatchStudio'
<1>1. RemovalOrder'
  BY DEF IInv, RemovalOrder, HooksOut, Present
<1>2. Informed'
  BY DEF IInv, Informed, Attached
<1>3. HooksHaveReason'
  BY DEF IInv, HooksHaveReason, HooksOut, Present
<1>4. EventsMatchStudio'
  BY DEF IInv, EventsMatchStudio, Present
<1> QED
  BY <1>1, <1>2, <1>3, <1>4

(* Nothing is matched with an empty studio setup.                          *)
LEMMA NoRecords ==
  ASSUME RegistryTypeOK', studio' = ZeroIfaces
  PROVE  EventsMatchStudio'
<1>1. Present' \subseteq Indices
  <2>1. Len(slots') \in 0..MaxInterfaces
    BY SlotsSeq DEF RegistryTypeOK
  <2> QED
    BY <2>1, RegistryAssumption DEF Present, Indices
<1>2. \A s \in Present' : studio'[s] = NoInterface
  BY <1>1 DEF ZeroIfaces
<1> QED
  BY <1>2 DEF EventsMatchStudio

-----------------------------------------------------------------------------
(* One lemma per step.                                                     *)

LEMMA PlugLeads ==
  ASSUME Environment, IInv, Own', NEW i \in Interfaces, Plug(i), UNCHANGED <<oms, studio>>
  PROVE  IInv'
<1>1. RegistryTypeOK /\ TypeOK
  BY DEF IInv, Own, TypeOK
<1>2. /\ Len(slots) \in Nat /\ Len(slots') = Len(slots) + 1
      /\ \A s \in Present : slots'[s] = slots[s]
      /\ ~slots'[Len(slots) + 1].hook
  <2>1. Len(slots) \in Nat
    BY <1>1, SlotsAreSeq, RegistryAssumption
  <2> QED
    BY <1>1, <2>1, Plugged
<1>3. \A s \in Present' : s \in Present \/ s = Len(slots) + 1
  BY <1>2 DEF Present
<1>4. Present \subseteq Present' /\ Attached \subseteq Attached'
  BY <1>2 DEF Present, Attached
<1>5. HooksOut' => HooksOut
  BY <1>2, <1>3 DEF HooksOut
<1>6. expert' = expert /\ expert.phase # "drained"
  BY DEF Environment, Plug, TaskLevel
<1>7. RemovalOrder' /\ HooksHaveReason'
  BY <1>5, <1>6 DEF IInv, RemovalOrder, HooksHaveReason
<1>8. Informed'
  BY <1>4, <1>6 DEF IInv, Informed
<1>9. EventsMatchStudio'
  BY <1>2, <1>3 DEF IInv, EventsMatchStudio
<1> QED
  BY <1>7, <1>8, <1>9 DEF IInv

LEMMA NotifyLeads ==
  ASSUME IInv, Own', Notify, UNCHANGED <<oms, studio>>
  PROVE  IInv'
<1>1. slots' = slots /\ expert'.phase = "notifying" /\ expert'.pass /\ expert'.iface = expert.iface
  BY DEF Notify, IInv, Own, TypeOK, RegistryTypeOK
<1>2. RemovalOrder'
  BY <1>1 DEF RemovalOrder
<1>3. Informed'
  BY <1>1 DEF IInv, Informed, Attached
<1>4. HooksHaveReason'
  BY <1>1 DEF IInv, HooksHaveReason, HooksOut, Present
<1>5. EventsMatchStudio'
  BY <1>1 DEF IInv, EventsMatchStudio, Present
<1> QED
  BY <1>2, <1>3, <1>4, <1>5 DEF IInv

LEMMA MarkLeads ==
  ASSUME IInv, Own', NEW t \in 1..Len(slots), Mark(t) \/ Unhook(t), UNCHANGED <<oms, studio>>
  PROVE  IInv'
<1>1. RegistryTypeOK
  BY DEF IInv, Own, TypeOK
<1>2. /\ Len(slots') = Len(slots) /\ Len(slots) \in Nat
      /\ \A s \in Present : /\ slots'[s].iface = slots[s].iface
                            /\ slots'[s].hook => slots[s].hook
                            /\ slots[s].removing => slots'[s].removing
  BY <1>1, Marked, SlotsAreSeq, RegistryAssumption
<1>3. Present' = Present
  BY <1>2 DEF Present
<1>4. Attached' = Attached
  BY <1>2 DEF Present, Attached
<1>5. HooksOut' => HooksOut
  BY <1>2, <1>3 DEF HooksOut
<1>6. expert' = expert
  BY DEF Mark, Unhook
<1>7. RemovalOrder' /\ HooksHaveReason'
  BY <1>5, <1>6 DEF IInv, RemovalOrder, HooksHaveReason
<1>8. Informed'
  BY <1>4, <1>6 DEF IInv, Informed
<1>9. EventsMatchStudio'
  BY <1>2, <1>3 DEF IInv, EventsMatchStudio
<1> QED
  BY <1>7, <1>8, <1>9 DEF IInv

LEMMA NotifyReturnLeads ==
  ASSUME IInv, Own', NotifyReturn, UNCHANGED <<oms, studio>>
  PROVE  IInv'
<1>1. /\ slots' = slots /\ ~expert'.pass /\ expert'.phase \in {"notifying", "drained"}
      /\ expert'.iface = expert.iface
  BY DEF NotifyReturn, IInv, Own, TypeOK, RegistryTypeOK
<1>2. ~HooksOut
  BY DEF NotifyReturn, HooksOut, Present
<1>3. ~HooksOut'
  BY <1>1, <1>2 DEF HooksOut, Present
<1>4. RemovalOrder' /\ HooksHaveReason'
  BY <1>1, <1>3 DEF RemovalOrder, HooksHaveReason
<1>5. Informed'
  BY <1>1 DEF IInv, Informed, Attached
<1>6. EventsMatchStudio'
  BY <1>1 DEF IInv, EventsMatchStudio, Present
<1> QED
  BY <1>4, <1>5, <1>6 DEF IInv

LEMMA FinalizeLeads ==
  ASSUME IInv, Own', Finalize, UNCHANGED <<oms, studio>>
  PROVE  IInv'
<1>1. RegistryTypeOK
  BY DEF IInv, Own, TypeOK
<1>2. /\ \A k \in Present' : \E s \in Present : slots'[k] = slots[s]
      /\ \A s \in Present :
           slots[s].iface # expert.iface => \E k \in Present' : slots'[k] = slots[s]
  BY <1>1, Finalized DEF Present
<1>3. ~HooksOut
  BY DEF IInv, RemovalOrder, Finalize
<1>4. ~HooksOut'
  BY <1>2, <1>3 DEF HooksOut
<1>5. expert'.phase = "idle" /\ ~expert'.pass /\ expert'.iface = NoInterface
  BY DEF Finalize, NoRemoval
<1>6. RemovalOrder' /\ HooksHaveReason'
  BY <1>4, <1>5 DEF RemovalOrder, HooksHaveReason
<1>7. oms.ref # NoInterface => oms.ref \in Attached'
  BY <1>2 DEF IInv, Informed, Attached, Present
<1>8. Informed'
  BY <1>5, <1>7 DEF IInv, Informed
<1>9. EventsMatchStudio'
  BY <1>4 DEF EventsMatchStudio, HooksOut
<1> QED
  BY <1>6, <1>8, <1>9 DEF IInv

(* omdvInit: a lookup that finds nothing means that nothing is hooked, and *)
(* the studio setup starts empty.                                          *)
LEMMA OmsInitLeads ==
  ASSUME Environment, IInv, Own', NEW ref \in Refs, NEW notifier \in BOOLEAN,
         NEW upp \in BOOLEAN, OmsInit(ref, notifier, upp)
  PROVE  IInv'
<1>1. RegistryTypeOK /\ RegistryTypeOK'
  BY DEF IInv, Own, TypeOK
<1>2. ~expert.pass /\ expert.phase # "drained" /\ expert.phase # "announced"
  BY ActingClient DEF IInv, OmsInit
<1>3. expert' = expert /\ studio' = ZeroIfaces
  BY DEF OmsInit
<1>4. oms' = [alive |-> TRUE, ref |-> ref, notifier |-> notifier, sendUpp |-> upp, list |-> FALSE]
  BY DEF OmsInit, ZeroOms
<1>5. oms'.alive /\ oms'.notifier /\ oms'.ref = ref
  <2>1. notifier
    BY DEF OmsInit, Environment
  <2> QED
    BY <1>4, <2>1
<1>6. EventsMatchStudio'
  BY <1>1, <1>3, NoRecords
<1>7. CASE ref = NoInterface
  <2>1. slots' = slots
    BY <1>1, <1>7, Registered DEF OmsInit
  <2>2. Locatable = {} \/ ~HooksOut
    BY <1>1, <1>7, Bound DEF OmsInit
  <2>3. Locatable = {} => oms.ref = NoInterface
    BY DEF IInv, Informed, Environment, Locatable
  <2>4. ~HooksOut
    BY <1>2, <2>2, <2>3 DEF IInv, HooksHaveReason
  <2>5. ~HooksOut' /\ Attached' = Attached
    BY <2>1, <2>4 DEF HooksOut, Present, Attached
  <2>6. RemovalOrder' /\ Informed' /\ HooksHaveReason'
    BY <1>3, <1>5, <1>7, <2>5, ClientLeads
  <2> QED
    BY <1>6, <2>6 DEF IInv
<1>8. CASE ref # NoInterface
  <2>1. Rehooked(TRUE)
    BY <1>1, <1>8, Registered DEF OmsInit
  <2>2. Attached' = Attached
    BY <1>1, <2>1, RehookedView
  <2>3. ref \in Attached /\ ref # expert.iface
    BY <1>1, <1>8, Bound DEF OmsInit
  <2>4. RemovalOrder' /\ Informed' /\ HooksHaveReason'
    BY <1>2, <1>3, <1>5, <1>8, <2>2, <2>3, ClientLeads
  <2> QED
    BY <1>6, <2>4 DEF IInv
<1> QED
  BY <1>7, <1>8

(* omdvDispose: hooks that are out are out by the table at hand.           *)
LEMMA OmsDisposeLeads ==
  ASSUME Environment, IInv, Own', OmsDispose
  PROVE  IInv'
<1>1. RegistryTypeOK /\ RegistryTypeOK'
  BY DEF IInv, Own, TypeOK
<1>2. ~expert.pass /\ expert.phase # "drained" /\ expert.phase # "announced"
  BY ActingClient DEF IInv, OmsDispose, Alive
<1>3. expert' = expert /\ studio' = ZeroIfaces
  BY DEF OmsDispose
<1>4. ~oms'.alive /\ oms'.ref = NoInterface
  BY DEF OmsDispose, ZeroOms
<1>5. ~HooksOut' /\ Attached' = Attached
  <2>1. CASE oms.ref = NoInterface
    <3>1. slots' = slots /\ ~HooksOut
      BY <1>1, <1>2, <2>1, TakenBack DEF OmsDispose, IInv, HooksHaveReason
    <3> QED
      BY <3>1 DEF HooksOut, Present, Attached
  <2>2. CASE oms.ref # NoInterface
    <3>1. Rehooked(FALSE)
      BY <1>1, <2>2, TakenBack DEF OmsDispose
    <3> QED
      BY <1>1, <3>1, RehookedView
  <2> QED
    BY <2>1, <2>2
<1>6. RemovalOrder' /\ Informed' /\ HooksHaveReason'
  BY <1>3, <1>4, <1>5, ClientLeads
<1>7. EventsMatchStudio'
  BY <1>1, <1>3, NoRecords
<1> QED
  BY <1>6, <1>7 DEF IInv

(* Binding to an interface that stays, while there are no records.         *)
LEMMA BindLeads ==
  ASSUME Environment, IInv, Own', MayAct, oms.alive, oms.ref = NoInterface,
         NEW ref, Finds(ref), RegisterCallbacks(ref),
         oms'.alive, oms'.notifier = oms.notifier, oms'.ref = ref,
         UNCHANGED expert, ref = NoInterface => studio' = studio
  PROVE  RemovalOrder' /\ Informed' /\ HooksHaveReason'
<1>1. RegistryTypeOK
  BY DEF IInv, Own, TypeOK
<1>2. ~expert.pass /\ expert.phase # "drained" /\ expert.phase # "announced"
  BY ActingClient DEF IInv
<1>3. ~HooksOut /\ studio = ZeroIfaces /\ oms.notifier
  BY <1>2 DEF IInv, HooksHaveReason, Informed
<1>4. CASE ref = NoInterface
  <2>1. slots' = slots
    BY <1>1, <1>4, Registered
  <2>2. ~HooksOut' /\ Attached' = Attached
    BY <1>3, <2>1 DEF HooksOut, Present, Attached
  <2> QED
    BY <1>3, <1>4, <2>2, ClientLeads
<1>5. CASE ref # NoInterface
  <2>1. Rehooked(TRUE)
    BY <1>1, <1>5, Registered
  <2>2. Attached' = Attached
    BY <1>1, <2>1, RehookedView
  <2>3. ref \in Attached /\ ref # expert.iface
    BY <1>1, <1>5, Bound
  <2> QED
    BY <1>2, <1>3, <1>5, <2>2, <2>3, ClientLeads
<1> QED
  BY <1>4, <1>5

LEMMA NotifyAddLeads ==
  ASSUME Environment, IInv, Own', NEW i \in Interfaces, NotifyAdd(i)
  PROVE  IInv'
<1>1. RegistryTypeOK' /\ oms \in OmsType
  BY DEF IInv, Own, TypeOK, OmsType
<1>2. oms'.alive = oms.alive /\ oms'.notifier = oms.notifier /\ oms'.ref = i
  BY <1>1 DEF NotifyAdd, OmsType
<1>3. MayAct /\ oms.alive /\ oms.ref = NoInterface /\ Finds(i) /\ RegisterCallbacks(i)
      /\ expert' = expert /\ studio' = studio
  BY DEF NotifyAdd, Alive, Finds
<1>4. RemovalOrder' /\ Informed' /\ HooksHaveReason'
  BY <1>2, <1>3, BindLeads
<1>5. studio' = ZeroIfaces
  BY <1>3 DEF IInv, Informed
<1> QED
  BY <1>1, <1>4, <1>5, NoRecords DEF IInv

LEMMA StartMIDI2Leads ==
  ASSUME Environment, IInv, Own', NEW ref \in Refs, StartMIDI2(ref)
  PROVE  IInv'
<1>1. RegistryTypeOK' /\ oms \in OmsType
  BY DEF IInv, Own, TypeOK, OmsType
<1>2. oms'.alive = oms.alive /\ oms'.notifier = oms.notifier /\ oms'.ref = ref
  BY <1>1 DEF StartMIDI2, OmsType
<1>3. /\ MayAct /\ oms.alive /\ Ensures(ref)
      /\ expert' = expert /\ studio' = studio
  BY DEF StartMIDI2, Alive
<1>4. CASE oms.ref = NoInterface
  <2>1. Finds(ref) /\ RegisterCallbacks(ref)
    BY <1>3, <1>4 DEF StartMIDI2, Ensures
  <2>2. RemovalOrder' /\ Informed' /\ HooksHaveReason'
    BY <1>2, <1>3, <1>4, <2>1, BindLeads
  <2>3. studio' = ZeroIfaces
    BY <1>3, <1>4 DEF IInv, Informed
  <2> QED
    BY <1>1, <2>2, <2>3, NoRecords DEF IInv
<1>5. CASE oms.ref # NoInterface
  <2>1. slots' = slots /\ oms'.ref = oms.ref
    BY <1>2, <1>3, <1>5 DEF StartMIDI2, Ensures
  <2> QED
    BY <1>2, <1>3, <2>1, QuietLeads DEF IInv
<1> QED
  BY <1>4, <1>5

(* omdvAddDevices records every interface at the index it has now.         *)
LEMMA AddDevicesLeads ==
  ASSUME Environment, IInv, Own', NEW ref \in Refs, AddDevices(ref)
  PROVE  IInv'
<1>1. RegistryTypeOK /\ RegistryTypeOK' /\ oms \in OmsType
  BY DEF IInv, Own, TypeOK, OmsType
<1>2. oms'.alive = oms.alive /\ oms'.notifier = oms.notifier /\ oms'.ref = ref
  BY <1>1 DEF AddDevices, OmsType
<1>3. /\ MayAct /\ oms.alive /\ Ensures(ref) /\ RegisterCallbacks(ref) /\ expert' = expert
      /\ ref = NoInterface => studio' = studio
      /\ ref # NoInterface => studio' = Recorded
  BY DEF AddDevices, Alive
<1>4. ~expert.pass /\ expert.phase # "drained" /\ expert.phase # "announced"
  BY <1>3, ActingClient DEF IInv
<1>5. RemovalOrder' /\ Informed' /\ HooksHaveReason'
  <2>1. CASE oms.ref = NoInterface
    BY <1>2, <1>3, <2>1, BindLeads DEF Ensures
  <2>2. CASE oms.ref # NoInterface
    <3>1. ref = oms.ref
      BY <1>3, <2>2 DEF Ensures
    <3>2. Rehooked(TRUE)
      BY <1>1, <1>3, <2>2, <3>1, Registered
    <3>3. Attached' = Attached
      BY <1>1, <3>2, RehookedView
    <3>4. oms.notifier /\ ref \in Attached /\ ref # expert.iface
      BY <1>3, <2>2, <3>1 DEF IInv, Informed
    <3> QED
      BY <1>2, <1>3, <1>4, <2>2, <3>1, <3>3, <3>4, ClientLeads
  <2> QED
    BY <2>1, <2>2
<1>6. EventsMatchStudio'
  <2>1. CASE ref = NoInterface
    BY <1>2, <2>1 DEF EventsMatchStudio
  <2>2. CASE ref # NoInterface
    <3>1. Rehooked(TRUE)
      BY <1>1, <1>3, <2>2, Registered
    <3>2. Present' = Present /\ \A s \in Present : slots'[s].iface = slots[s].iface
      BY <1>1, <3>1, RehookedView DEF Rehooked
    <3>3. Present \subseteq Indices
      BY <1>1, SlotsAreSeq, RegistryAssumption DEF Present, Indices
    <3>4. \A s \in Present : studio'[s] = slots[s].iface
      BY <1>3, <2>2, <3>3 DEF Recorded
    <3> QED
      BY <3>2, <3>4 DEF EventsMatchStudio
  <2> QED
    BY <2>1, <2>2
<1> QED
  BY <1>5, <1>6 DEF IInv

(* A removal that is announced finds the table let go, or bound through    *)
(* another interface.                                                      *)
LEMMA InterfaceGoesLeads ==
  ASSUME IInv, Own', NEW i \in Interfaces, InterfaceGoes(i)
  PROVE  IInv'
<1>1. RegistryTypeOK' /\ oms \in OmsType
  BY DEF IInv, Own, TypeOK, OmsType
<1>2. /\ slots' = slots
      /\ expert'.phase = "announced" /\ expert'.iface = i /\ ~expert'.pass
  BY DEF InterfaceGoes, Unplug
<1>3. HooksOut' = HooksOut /\ Attached' = Attached /\ Present' = Present
  BY <1>2 DEF HooksOut, Present, Attached
<1>4. oms'.alive = oms.alive /\ oms'.notifier = oms.notifier
  BY <1>1 DEF InterfaceGoes, OmsType
<1>5. RemovalOrder'
  BY <1>2 DEF RemovalOrder
<1>6. HooksHaveReason'
  BY <1>2, <1>3, <1>4 DEF IInv, HooksHaveReason
<1>7. CASE Detaches(i)
  <2>1. oms'.ref = NoInterface /\ studio' = ZeroIfaces
    BY <1>1, <1>7 DEF InterfaceGoes, OmsType
  <2>2. Informed'
    BY <1>4, <2>1 DEF IInv, Informed
  <2>3. EventsMatchStudio'
    BY <2>1 DEF EventsMatchStudio
  <2> QED
    BY <1>5, <1>6, <2>2, <2>3 DEF IInv
<1>8. CASE ~Detaches(i)
  <2>1. oms' = oms /\ studio' = studio
    BY <1>8 DEF InterfaceGoes
  <2>2. oms.ref # NoInterface => oms.ref # i
    BY <1>8 DEF IInv, Informed, Detaches
  <2>3. Informed'
    BY <1>2, <1>3, <2>1, <2>2 DEF IInv, Informed
  <2>4. EventsMatchStudio'
    BY <1>2, <2>1 DEF IInv, EventsMatchStudio, Present
  <2> QED
    BY <1>5, <1>6, <2>3, <2>4 DEF IInv
<1> QED
  BY <1>7, <1>8

LEMMA InitLeads == Init => IInv
<1> SUFFICES ASSUME Init PROVE IInv
  OBVIOUS
<1>1. Own
  BY InitOwn
<1>2. slots = <<>> /\ expert = NoRemoval /\ oms = ZeroOms /\ studio = ZeroIfaces
  BY DEF Init, RegistryInit
<1>3. ~HooksOut
  BY <1>2, EmptySeq DEF HooksOut, Present
<1>4. RemovalOrder
  BY <1>2, <1>3 DEF RemovalOrder, NoRemoval
<1>5. ~oms.alive /\ oms.ref = NoInterface
  BY <1>2 DEF ZeroOms
<1>6. Informed /\ EventsMatchStudio
  BY <1>2, <1>5 DEF Informed, EventsMatchStudio
<1>7. HooksHaveReason
  BY <1>3 DEF HooksHaveReason
<1> QED
  BY <1>1, <1>4, <1>6, <1>7 DEF IInv

LEMMA StepLeads ==
  ASSUME Environment
  PROVE  IInv /\ [Next]_vars => IInv'
<1> SUFFICES ASSUME IInv, [Next]_vars PROVE IInv'
  OBVIOUS
<1>1. Own'
  BY StepOwn DEF IInv
<1>2. CASE DriverStep
  <2>1. UNCHANGED <<oms, studio>> /\ RegistryStep
    BY <1>2 DEF DriverStep, shimVars
  <2> QED
    BY <1>1, <2>1, PlugLeads, NotifyLeads, MarkLeads, NotifyReturnLeads, FinalizeLeads
       DEF RegistryStep
<1>3. CASE SetInterfaceList
  <2>1. /\ UNCHANGED <<slots, expert, studio>>
        /\ oms'.alive = oms.alive /\ oms'.ref = oms.ref /\ oms'.notifier = oms.notifier
    BY <1>3 DEF SetInterfaceList, IInv, Own, TypeOK
  <2> QED
    BY <1>1, <2>1, QuietLeads DEF IInv
<1>4. ASSUME NEW upp \in BOOLEAN, GetPortSendProc(upp) PROVE IInv'
  <2>1. /\ UNCHANGED <<slots, expert, studio>>
        /\ oms'.alive = oms.alive /\ oms'.ref = oms.ref /\ oms'.notifier = oms.notifier
    BY <1>4 DEF GetPortSendProc, IInv, Own, TypeOK
  <2> QED
    BY <1>1, <2>1, QuietLeads DEF IInv
<1>5. ASSUME UNCHANGED <<slots, expert, shimVars>> PROVE IInv'
  <2>1. UNCHANGED <<slots, expert, studio>> /\ oms' = oms
    BY <1>5 DEF shimVars
  <2> QED
    BY <1>1, <2>1, QuietLeads DEF IInv
<1>6. CASE (\E found \in BOOLEAN : ProbePoll(found)) \/ ProbeDelay \/ ProbeQuits
  BY <1>5, <1>6 DEF ProbePoll, ProbeDelay, ProbeQuits
<1>7. CASE UNCHANGED vars
  BY <1>5, <1>7 DEF vars, shimVars
<1> QED
  BY <1>1, <1>2, <1>3, <1>4, <1>6, <1>7, OmsInitLeads, OmsDisposeLeads, NotifyAddLeads,
     InterfaceGoesLeads, AddDevicesLeads, StartMIDI2Leads
     DEF Next

THEOREM ShimInvariant ==
  ASSUME Environment
  PROVE  Spec => []IInv
BY InitLeads, StepLeads, PTL DEF Spec

(* "so the class driver never calls into a fragment that is going away"    *)
(* (oms_dispose), for any number of interfaces in any order: while a hook  *)
(* is out the shim is alive.                                               *)
THEOREM ShimHooksLead ==
  ASSUME Environment
  PROVE  Spec => []HooksLeadToTheShim
<1>1. IInv => HooksLeadToTheShim
  BY DEF IInv, HooksHaveReason, HooksLeadToTheShim
<1> QED
  BY <1>1, ShimInvariant, PTL

(* "valid only while the class driver fragment is loaded" (oms_driver.h):  *)
(* the interface the table was found by is attached, so that the fragment  *)
(* has at least one.                                                       *)
THEOREM ShimTableLoaded ==
  ASSUME Environment
  PROVE  Spec => []TableLoaded
<1>1. IInv => TableLoaded
  BY EmptySeq DEF IInv, Informed, TableLoaded, Attached
<1> QED
  BY <1>1, ShimInvariant, PTL

(* Whatever indices the removals of other interfaces shuffle, an event of  *)
(* an interface that stays is not delivered under another one's record     *)
(* (oms_add_devices, oms_rx_drain).                                        *)
THEOREM ShimEventsMatch ==
  ASSUME Environment
  PROVE  Spec => []EventsMatchStudio
<1>1. IInv => EventsMatchStudio
  BY DEF IInv
<1> QED
  BY <1>1, ShimInvariant, PTL
=============================================================================
