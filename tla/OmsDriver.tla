----------------------------- MODULE OmsDriver -----------------------------
(***************************************************************************)
(* The OMS driver shim, oms/oms_driver.c and oms/oms_rx.c: its life cycle  *)
(* (the omdv messages and the USB notifications) and its receive path.     *)
(*                                                                         *)
(* Messages and notifications arrive at task level, one at a time.  The    *)
(* read completion of the class driver may preempt them: it stores what it *)
(* read in the ring of its interface and calls the event hook, which       *)
(* drains that ring on the spot.  Two task-level operations drain rings as *)
(* well: binding to a class driver and omdvStartMIDI2.                     *)
(*                                                                         *)
(* A ring is a sequence of Event Packets here (Ring shows what one         *)
(* consumer may rely on), but a task-level dequeue is two steps: it        *)
(* decides how many bytes to take, then moves them and publishes the head. *)
(* Transfers are whole packets, every interface has one cable, and one     *)
(* device with several interfaces comes and goes as a whole.  What a send  *)
(* procedure does is not part of this module, nor are the counters.  The   *)
(* definitions marked as defective variants are no part of the model: put  *)
(* in the place of the definition below them, they must break a property.  *)
(***************************************************************************)
EXTENDS Naturals, Sequences

CONSTANTS
  MaxInterfaces,    \* kUSBMIDI9OMSMaxInterfaces (8)
  RingPackets,      \* capacity of a ring in packets (1024)
  Chunk,            \* packets one dequeue asks for (16)
  MaxRead,          \* bound on the packets of one transfer
  Preempts,         \* do completions preempt the task level?
  NotifierMayFail   \* may USBInstallDeviceNotification fail?

ASSUME SizesAssumption ==
  /\ MaxInterfaces \in Nat \ {0}
  /\ RingPackets \in Nat \ {0}
  /\ Chunk \in Nat \ {0}
  /\ MaxRead \in Nat \ {0}
ASSUME ChoicesAssumption ==
  /\ Preempts \in BOOLEAN
  /\ NotifierMayFail \in BOOLEAN

VARIABLES
  usb,    \* the class driver: loaded or leaving, and its interface count
  hook,   \* hook[i]: the event hook of interface i is oms_rx_event
  ring,   \* ring[i]: the packets waiting in the ring of interface i
  over,   \* over[i]: the head of that ring has passed its tail
  source, \* source[i]: the device is inside a SysEx run on interface i
  oms,    \* g_oms: the scalar fields
  iface,  \* g_oms.ifaces: valid flag and the port of the one cable
  task,   \* the task-level operation in progress
  run,    \* run[i]: OMS was given the start of a run and not yet its end
  out,    \* what the last step handed to OMS
  served  \* served[i]: interface i was known and hooked when MIDI was last
          \* started, and its driver has been there since

vars == <<usb, hook, ring, over, source, oms, iface, task, run, out, served>>

Ifaces == 0..(MaxInterfaces - 1)
Reported == {i \in Ifaces : i < usb.count}

(* An Event Packet: a message that is no SysEx, a whole SysEx, the first   *)
(* packet of a longer SysEx run, one that continues it, or its end.        *)
(* age: "new" if it reached the ring while MIDI ran.  What came while MIDI *)
(* was off is "waiting"; when MIDI is started, whatever is in a ring is    *)
(* "waiting" if OMS knows the interface and "missed" if it does not.       *)
(* `age' and `served' are there for the properties; no step reads them.    *)
Kinds == {"whole", "short", "first", "more", "end"}
Ages == {"new", "waiting", "missed"}
Packet == [kind : Kinds, age : Ages]
WaitingPackets == UNION {[1..n -> Packet] : n \in 0..RingPackets}

(* omdvSetPortReceiveRefNum never came, asked for nothing, or asked.       *)
RefNum == {"unset", "off", "on"}
ZeroIface == [valid |-> FALSE, ref |-> "unset", inSysex |-> FALSE]
ZeroOms == [alive |-> FALSE, table |-> FALSE, notifier |-> FALSE, started |-> FALSE,
            rxRoutine |-> FALSE]
IdleTask == [at |-> "idle", i |-> 0, n |-> 0, deliver |-> FALSE, then |-> "idle"]

Init ==
  /\ usb = [loaded |-> FALSE, leaving |-> FALSE, count |-> 0]
  /\ hook = [i \in Ifaces |-> FALSE]
  /\ ring = [i \in Ifaces |-> <<>>]
  /\ over = [i \in Ifaces |-> FALSE]
  /\ source = [i \in Ifaces |-> FALSE]
  /\ oms = ZeroOms
  /\ iface = [i \in Ifaces |-> ZeroIface]
  /\ task = IdleTask
  /\ run = [i \in Ifaces |-> FALSE]
  /\ out = {}
  /\ served = [i \in Ifaces |-> FALSE]

-----------------------------------------------------------------------------
(* The receive stream of a port (core/midi_stream.c), as far as it tags    *)
(* the messages: um9_rx_packet and the flag in_sysex.                      *)
Tag(inSysex, kind) ==
  CASE kind \in {"first", "more"} -> IF inSysex THEN "mid" ELSE "start"
    [] kind = "end"               -> "end"
    [] kind = "short"             -> IF inSysex THEN "end" ELSE "none"
    [] kind = "whole"             -> "none"

InSysexAfter(inSysex, kind) ==
  kind \in {"first", "more"} \/ (kind = "whole" /\ inSysex)

(* One turn of the loop of oms_rx_drain: a port that nobody asked about    *)
(* starts as "do not deliver"; the message goes to OMS only while          *)
(* `deliver' holds, OMS wants the port and its receive routine was found.  *)
Drained(st, packet, deliver) ==
  LET tag == Tag(st.iface.inSysex, packet.kind)
      given == deliver /\ st.iface.ref = "on" /\ oms.rxRoutine
  IN  [iface |-> [st.iface EXCEPT
                    !.ref = IF @ = "unset" THEN "off" ELSE @,
                    !.inSysex = InSysexAfter(@, packet.kind)],
       run |-> IF given /\ tag # "none" THEN tag # "end" ELSE st.run,
       out |-> IF given
               THEN st.out \cup {[kind |-> packet.kind, tag |-> tag,
                                  run |-> st.run, age |-> packet.age]}
               ELSE st.out]

(* The loop: the port, the run and what OMS was given after each packet.   *)
Turns(start, packets, deliver) ==
  LET after[k \in 0..Len(packets)] ==
        IF k = 0 THEN start ELSE Drained(after[k - 1], packets[k], deliver)
  IN  after

DrainPackets(i, packets, deliver) ==
  Turns([iface |-> iface[i], run |-> run[i], out |-> {}], packets, deliver)[Len(packets)]

Lesser(a, b) == IF a < b THEN a ELSE b

-----------------------------------------------------------------------------
(* The packets um9_ring_enqueue still accepts.                             *)
RoomAlways(i) == RingPackets                            \* defective variant
Room(i) == RingPackets - Len(ring[i])

(* The device: a transfer of packets that continues its stream.  (A short  *)
(* message that is no SysEx may come inside a run.)                        *)
Follows(inRun, kind) == kind = "whole" \/ (inRun <=> kind \in {"more", "end"})

(* Is it inside a run, after each of these packets?                        *)
Inside(inRun, kinds) ==
  LET after[k \in 0..Len(kinds)] ==
        IF k = 0 THEN inRun ELSE InSysexAfter(after[k - 1], kinds[k])
  IN  after

Transfers(inRun) ==
  {kinds \in UNION {[1..n -> Kinds] : n \in 1..MaxRead} :
     \A k \in 1..Len(kinds) : Follows(Inside(inRun, kinds)[k - 1], kinds[k])}

(* The read completion of USBMIDI9CompletionProc with oms_rx_event inside: *)
(* the bytes that fit go to the ring, and the hook drains it to the last   *)
(* packet.  Nothing preempts it.  A ring whose head has passed its tail    *)
(* holds nothing that could be said: the model goes no further there.      *)
ReadCompletes(i, kinds) ==
  /\ Preempts \/ task.at = "idle"
  /\ usb.loaded /\ i \in Reported /\ ~over[i]
  /\ LET stored == [k \in 1..Lesser(Len(kinds), Room(i)) |->
                      [kind |-> kinds[k], age |-> IF oms.started THEN "new" ELSE "waiting"]]
         waiting == ring[i] \o stored
         drain == DrainPackets(i, waiting, oms.started)
     IN  IF hook[i] /\ oms.table /\ iface[i].valid
         THEN /\ ring' = [ring EXCEPT ![i] = <<>>]
              /\ iface' = [iface EXCEPT ![i] = drain.iface]
              /\ run' = [run EXCEPT ![i] = drain.run]
              /\ out' = drain.out
         ELSE /\ ring' = [ring EXCEPT ![i] = waiting]
              /\ UNCHANGED <<iface, run>>
              /\ out' = {}
  /\ source' = [source EXCEPT ![i] = Inside(@, kinds)[Len(kinds)]]
  /\ UNCHANGED <<usb, hook, over, oms, task, served>>

-----------------------------------------------------------------------------
(* Task level.  OMS sends no message between the removal notification and  *)
(* the unloading of the class driver.                                      *)
MayAct == task.at = "idle" /\ ~usb.leaving
Alive == MayAct /\ oms.alive

ResetPort(r) == [r EXCEPT !.inSysex = FALSE]

(* oms_register_callbacks: every interface the class driver reports.       *)
Hooked == [i \in Ifaces |-> i \in Reported \/ hook[i]]

DrainAll(deliver, then) ==
  [at |-> "drain", i |-> 0, n |-> 0, deliver |-> deliver, then |-> then]

(* oms_bind_dispatch, reached from every way to find a loaded driver: it   *)
(* ends with oms_rx_drain_all, and the caller goes on at `then'.  ports    *)
(* and started are the fields as the caller left them.                     *)
Bind(ports, started, then) ==
  /\ hook' = Hooked
  /\ iface' = [i \in Ifaces |-> ResetPort(ports[i])]
  /\ task' = DrainAll(started, then)

(* omdvInit: everything is zeroed, the notification installed, a driver    *)
(* that is already there is bound, and the receive routine of OMS looked   *)
(* up.  Without that routine nothing is delivered, but rings are drained.  *)
OmsInit(notifier, found) ==
  /\ MayAct
  /\ notifier \/ NotifierMayFail
  /\ oms' = [alive |-> TRUE, table |-> usb.loaded, notifier |-> notifier,
             started |-> FALSE, rxRoutine |-> found]
  /\ LET zero == [i \in Ifaces |-> ZeroIface]
     IN  IF usb.loaded THEN Bind(zero, FALSE, "idle")
         ELSE iface' = zero /\ UNCHANGED <<hook, task>>
  /\ out' = {}
  /\ UNCHANGED <<usb, ring, over, source, run, served>>

(* omdvDispose: take the hooks back, if a driver is known.                 *)
OmsDispose ==
  /\ Alive
  /\ hook' = IF oms.table THEN [i \in Ifaces |-> FALSE] ELSE hook
  /\ oms' = ZeroOms
  /\ iface' = [i \in Ifaces |-> ZeroIface]
  /\ out' = {}
  /\ UNCHANGED <<usb, ring, over, source, task, run, served>>

(* kNotifyAddDevice or kNotifyAddInterface: oms_attach_device.             *)
NotifyAdd ==
  /\ Alive /\ oms.notifier
  /\ usb.loaded /\ ~oms.table
  /\ oms' = [oms EXCEPT !.table = TRUE]
  /\ Bind(iface, oms.started, "idle")
  /\ out' = {}
  /\ UNCHANGED <<usb, ring, over, source, run, served>>

(* kNotifyRemoveDevice or kNotifyRemoveInterface: oms_detach, if OMS gets  *)
(* the notification and knows the device.                                  *)
NotifyRemove ==
  /\ MayAct
  /\ usb.loaded
  /\ usb' = [usb EXCEPT !.leaving = TRUE]
  /\ IF oms.notifier /\ oms.table
     THEN /\ oms' = [oms EXCEPT !.table = FALSE]
          /\ iface' = [i \in Ifaces |-> ZeroIface]
     ELSE UNCHANGED <<oms, iface>>
  /\ out' = {}
  /\ UNCHANGED <<hook, ring, over, source, task, run, served>>

(* oms_ensure_dispatch: bind if there is something to bind to, then go on. *)
EnsureDispatch(then) ==
  IF oms.table \/ ~usb.loaded
  THEN /\ task' = [IdleTask EXCEPT !.at = then]
       /\ UNCHANGED <<oms, hook, iface>>
  ELSE /\ oms' = [oms EXCEPT !.table = TRUE]
       /\ Bind(iface, oms.started, then)

(* omdvAddDevices.                                                         *)
AddDevices ==
  /\ Alive
  /\ oms.table \/ usb.loaded
  /\ EnsureDispatch("add")
  /\ out' = {}
  /\ UNCHANGED <<usb, ring, over, source, run, served>>

(* The rest of oms_add_devices: the hooks again, then one OMS device per   *)
(* interface.                                                              *)
AddInterfaces ==
  /\ task.at = "add"
  /\ hook' = Hooked
  /\ iface' = [i \in Ifaces |-> [iface[i] EXCEPT !.valid = @ \/ i \in Reported]]
  /\ task' = IdleTask
  /\ out' = {}
  /\ UNCHANGED <<usb, ring, over, source, oms, run, served>>

-----------------------------------------------------------------------------
(* omdvStartMIDI2: bind, discard what is in the rings, reset the streams,  *)
(* and start.                                                              *)
StartMIDI2 ==
  /\ Alive
  /\ EnsureDispatch("discard")
  /\ out' = {}
  /\ UNCHANGED <<usb, ring, over, source, run, served>>

DiscardNothing ==                                       \* defective variant
  /\ task.at = "discard"
  /\ task' = [IdleTask EXCEPT !.at = "reset"]
  /\ out' = {}
  /\ UNCHANGED <<usb, hook, ring, over, source, oms, iface, run, served>>

DiscardBacklog ==
  /\ task.at = "discard"
  /\ task' = DrainAll(FALSE, "reset")
  /\ out' = {}
  /\ UNCHANGED <<usb, hook, ring, over, source, oms, iface, run, served>>

ResetNothing ==                                         \* defective variant
  /\ task.at = "reset"
  /\ task' = [IdleTask EXCEPT !.at = "start"]
  /\ out' = {}
  /\ UNCHANGED <<usb, hook, ring, over, source, oms, iface, run, served>>

ResetStreams ==
  /\ task.at = "reset"
  /\ iface' = [i \in Ifaces |-> IF iface[i].valid THEN ResetPort(iface[i]) ELSE iface[i]]
  /\ task' = [IdleTask EXCEPT !.at = "start"]
  /\ out' = {}
  /\ UNCHANGED <<usb, hook, ring, over, source, oms, run, served>>

(* midiStarted is set.  (No run is in progress for OMS.)                   *)
Aged(i) ==
  [k \in 1..Len(ring[i]) |->
     [ring[i][k] EXCEPT !.age = IF iface[i].valid THEN "waiting" ELSE "missed"]]

StartDelivery ==
  /\ task.at = "start"
  /\ oms' = [oms EXCEPT !.started = TRUE]
  /\ ring' = [i \in Ifaces |-> Aged(i)]
  /\ served' = [i \in Ifaces |-> oms.table /\ iface[i].valid /\ hook[i]]
  /\ run' = [i \in Ifaces |-> FALSE]
  /\ task' = IdleTask
  /\ out' = {}
  /\ UNCHANGED <<usb, hook, over, source, iface>>

StopMIDI ==
  /\ Alive
  /\ oms' = [oms EXCEPT !.started = FALSE]
  /\ out' = {}
  /\ UNCHANGED <<usb, hook, ring, over, source, iface, task, run, served>>

-----------------------------------------------------------------------------
(* oms_rx_drain_all at task level, one ring after the other: skip a ring   *)
(* that is not ours or is empty, or decide how many packets to take.       *)
NextRing == IF task.i + 1 \in Ifaces THEN [task EXCEPT !.at = "drain", !.i = @ + 1]
            ELSE [IdleTask EXCEPT !.at = task.then]

DrainSkip ==
  /\ task.at = "drain"
  /\ ~(oms.table /\ iface[task.i].valid) \/ ring[task.i] = <<>>
  /\ task' = NextRing
  /\ out' = {}
  /\ UNCHANGED <<usb, hook, ring, over, source, oms, iface, run, served>>

DrainDecide ==
  /\ task.at = "drain"
  /\ oms.table /\ iface[task.i].valid /\ ring[task.i] # <<>>
  /\ task' = [task EXCEPT !.at = "move", !.n = Lesser(Chunk, Len(ring[task.i]))]
  /\ out' = {}
  /\ UNCHANGED <<usb, hook, ring, over, source, oms, iface, run, served>>

(* Move that many packets, publish the head, and decode them.              *)
Move(next) ==
  /\ task.at = "move"
  /\ LET i == task.i
         waiting == ring[i]
         drain == DrainPackets(i, SubSeq(waiting, 1, Lesser(task.n, Len(waiting))), task.deliver)
     IN  /\ ring' = [ring EXCEPT ![i] = SubSeq(waiting, task.n + 1, Len(waiting))]
         /\ over' = [over EXCEPT ![i] = @ \/ task.n > Len(waiting)]
         /\ iface' = [iface EXCEPT ![i] = drain.iface]
         /\ run' = [run EXCEPT ![i] = drain.run]
         /\ out' = drain.out
  /\ task' = next
  /\ UNCHANGED <<usb, hook, source, oms, served>>

DrainMoveOnce == Move(NextRing)                         \* defective variant
DrainMove == Move([task EXCEPT !.at = "drain", !.n = 0])

(* omdvSetPortReceiveRefNum: the refnum, then the new streams.  (OMS       *)
(* expects no continuation on a port it has just asked for.)               *)
SetPortReceiveRefNum(i, ref) ==
  /\ Alive
  /\ iface' = [iface EXCEPT ![i].ref = ref]
  /\ run' = [run EXCEPT ![i] = FALSE]
  /\ task' = [IdleTask EXCEPT !.at = "streams", !.i = i]
  /\ out' = {}
  /\ UNCHANGED <<usb, hook, ring, over, source, oms, served>>

NewStreams ==
  /\ task.at = "streams"
  /\ iface' = [iface EXCEPT ![task.i] = ResetPort(@)]
  /\ task' = IdleTask
  /\ out' = {}
  /\ UNCHANGED <<usb, hook, ring, over, source, oms, run, served>>

-----------------------------------------------------------------------------
(* The class driver comes with one interface or finds one more, each with  *)
(* an empty ring and no hook (UsbDriver), and goes.                        *)
InterfaceAppears ==
  /\ MayAct
  /\ usb.count < MaxInterfaces
  /\ usb' = [usb EXCEPT !.loaded = TRUE, !.count = @ + 1]
  /\ source' = [source EXCEPT ![usb.count] = FALSE]
  /\ out' = {}
  /\ UNCHANGED <<hook, ring, over, oms, iface, task, run, served>>

DriverUnloads ==
  /\ usb.leaving
  /\ usb' = [loaded |-> FALSE, leaving |-> FALSE, count |-> 0]
  /\ hook' = [i \in Ifaces |-> FALSE]
  /\ ring' = [i \in Ifaces |-> <<>>]
  /\ over' = [i \in Ifaces |-> FALSE]
  /\ served' = [i \in Ifaces |-> FALSE]
  /\ out' = {}
  /\ UNCHANGED <<source, oms, iface, task, run>>

Next ==
  \/ \E i \in Ifaces : \E kinds \in Transfers(source[i]) : ReadCompletes(i, kinds)
  \/ \E notifier, found \in BOOLEAN : OmsInit(notifier, found)
  \/ OmsDispose
  \/ NotifyAdd \/ NotifyRemove
  \/ AddDevices \/ AddInterfaces
  \/ StartMIDI2 \/ DiscardBacklog \/ ResetStreams \/ StartDelivery \/ StopMIDI
  \/ DrainSkip \/ DrainDecide \/ DrainMove
  \/ \E i \in Ifaces : \E ref \in {"on", "off"} : SetPortReceiveRefNum(i, ref)
  \/ NewStreams
  \/ InterfaceAppears \/ DriverUnloads

Spec == Init /\ [][Next]_vars

-----------------------------------------------------------------------------
Message == [kind : Kinds, tag : {"none", "start", "mid", "end"},
            run : BOOLEAN, age : Ages]

TypeOK ==
  /\ usb \in [loaded : BOOLEAN, leaving : BOOLEAN, count : 0..MaxInterfaces]
  /\ hook \in [Ifaces -> BOOLEAN]
  /\ ring \in [Ifaces -> WaitingPackets]
  /\ over \in [Ifaces -> BOOLEAN]
  /\ source \in [Ifaces -> BOOLEAN]
  /\ oms \in [alive : BOOLEAN, table : BOOLEAN, notifier : BOOLEAN,
             started : BOOLEAN, rxRoutine : BOOLEAN]
  /\ iface \in [Ifaces -> [valid : BOOLEAN, ref : RefNum, inSysex : BOOLEAN]]
  /\ task \in [at : {"idle", "drain", "move", "add", "discard", "reset", "start", "streams"},
               i : Ifaces, n : 0..Chunk, deliver : BOOLEAN,
               then : {"idle", "add", "discard", "reset"}]
  /\ run \in [Ifaces -> BOOLEAN]
  /\ out \in SUBSET Message
  /\ served \in [Ifaces -> BOOLEAN]

(* A chunk tagged "middle" always continues a run whose start OMS was      *)
(* given: neither stopping and starting MIDI in the middle of a run nor    *)
(* asking for a port there makes OMS hear a run it knows nothing of.       *)
MidHasStart == \A m \in out : m.tag = "mid" => m.run

(* "so no mid-SysEx continuation leaks across a stop/start" (comment of    *)
(* oms_start_midi2): every packet OMS is given of a SysEx run belongs to a *)
(* run whose first packet it was given.                                    *)
NoContinuationLeaks == \A m \in out : m.kind \in {"more", "end"} => m.run

(* "omdvStartMIDI2 discards any remaining backlog before it starts         *)
(* delivering" (comment of oms_rx_event): OMS is never given what reached  *)
(* a ring before MIDI was started.                                         *)
NoStaleDelivery == \A m \in out : m.age = "new"

(* What the code does do of it: OMS is given nothing while MIDI is off,    *)
(* and never what waited in the ring of an interface it knew when MIDI was *)
(* started, whatever devices are added, go and come back before and after. *)
StartDiscards == \A m \in out : oms.started /\ m.age # "waiting"

(* The start and the pushes after it leave nothing behind: while MIDI runs *)
(* no packet sits in the ring of an interface that was known and hooked    *)
(* when it was started.  (One that is added later may keep what it has     *)
(* until its next push.)                                                   *)
NothingWaits ==
  oms.started => \A i \in Ifaces : served[i] /\ iface[i].valid => hook[i] /\ ring[i] = <<>>

(* "which never exceeds size" (header of classic/ring.c): no dequeue moves *)
(* the head of a ring past its tail.                                       *)
RingIntact == \A i \in Ifaces : ~over[i]
=============================================================================
