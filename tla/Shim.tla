-------------------------------- MODULE Shim --------------------------------
(***************************************************************************)
(* The clients of the class driver at task level: the OMS driver shim      *)
(* (oms/oms_driver.c), with several interfaces that come and go one by     *)
(* one, and the Probe (probe/probe.c).  Both know the driver through its   *)
(* dispatch table, that is through Registry, which UsbDriver implements.   *)
(*                                                                         *)
(* The shim keeps what it may lose track of: the table of a fragment that  *)
(* can be unloaded, hooks that lead into the shim itself, records of       *)
(* interfaces by an index that others take over, a routine descriptor and  *)
(* a notification it must give back.  The Probe keeps no table, only what  *)
(* it has printed.                                                         *)
(*                                                                         *)
(* Messages, notifications and polls are one step each: task-level code    *)
(* runs to its end, and completions touch none of this state.  The receive *)
(* path, ports, streams and midiStarted are the subject of OmsDriver.  The *)
(* definitions marked as defective variants are no part of the model: put  *)
(* in the place of the definition below them, they must break a property.  *)
(***************************************************************************)
EXTENDS Registry

CONSTANTS
  LookupMayFail,    \* may the lookup of a loaded driver fail?  The set of
                    \* answers to "are hooks out?" for which it may
  FindsLeaving,     \* is an interface whose removal was announced found?
  NotifierMayFail   \* may USBInstallDeviceNotification fail?

ASSUME ShimAssumption ==
  /\ LookupMayFail \subseteq BOOLEAN
  /\ FindsLeaving \in BOOLEAN
  /\ NotifierMayFail \in BOOLEAN

VARIABLES
  oms,     \* g_oms: initialised, deviceRef (the table is bound through it),
           \* and whether notifierInstalled, sendUpp and interfaceList are set
  studio,  \* g_oms.ifaces: the interface recorded at an index, if valid
  system,  \* routine descriptors and notifications the system holds for us
  held,    \* OMS holds a send procedure of this driver
  probe,   \* USBMIDI9ProbeState, where main is, and if the last poll printed
  screen   \* what the last message of the Probe says

vars == <<slots, expert, oms, studio, system, held, probe, screen>>
shimVars == <<oms, studio, system, held>>
probeVars == <<probe, screen>>

Indices == 1..MaxInterfaces
Present == 1..Len(slots)
HooksOut == \E s \in Present : slots[s].hook

ZeroOms == [alive |-> FALSE, ref |-> NoInterface, notifier |-> FALSE,
            sendUpp |-> FALSE, list |-> FALSE]
ZeroIfaces == [s \in Indices |-> NoInterface]

(* Screen and lastCount: an interface count, or one of these.              *)
NoDriver == MaxInterfaces + 1       \* the message; 0xFFFFFFFF in lastCount
Blank == MaxInterfaces + 2          \* nothing printed yet

Init ==
  /\ RegistryInit
  /\ oms = ZeroOms
  /\ studio = ZeroIfaces
  /\ system = [descriptors |-> 0, notifications |-> 0]
  /\ held = FALSE
  /\ probe = [at |-> "poll", last |-> NoDriver, reported |-> FALSE, printed |-> FALSE]
  /\ screen = Blank

-----------------------------------------------------------------------------
(* The USB Manager tells its clients and then the class driver of an       *)
(* interface that goes; OMS sends nothing in between.                      *)
MayAct == TaskLevel /\ (GapOpen \/ expert.phase # "announced")
Alive == MayAct /\ oms.alive

(* Looking for the driver: any interface it serves will do, and a failing  *)
(* lookup (of the connection, or of the symbol) finds nothing.             *)
Locatable == {i \in Attached : FindsLeaving \/ i # expert.iface}
Finds(ref) ==
  \/ ref \in Locatable
  \/ ref = NoInterface /\ (Locatable = {} \/ HooksOut \in LookupMayFail)

(* oms_register_callbacks, after a lookup that found something.            *)
RegisterCallbacks(ref) ==
  IF ref = NoInterface THEN UNCHANGED slots ELSE SetHooks(Present, TRUE)

(* oms_ensure_dispatch: the table is there, or is looked for.              *)
Ensures(ref) == IF oms.ref # NoInterface THEN ref = oms.ref ELSE Finds(ref)

Units(b) == IF b THEN 1 ELSE 0

-----------------------------------------------------------------------------
(* omdvInit: give back what an earlier one took, zero everything, build    *)
(* the descriptor (or fail to), install the notification (or fail to), and *)
(* bind to a driver found through the synchronous callback or the walk.    *)
OmsInitLeaks(ref, notifier, upp) ==                     \* defective variant
  /\ MayAct /\ Finds(ref)
  /\ notifier \/ NotifierMayFail
  /\ oms' = [ZeroOms EXCEPT !.alive = TRUE, !.ref = ref, !.notifier = notifier,
                            !.sendUpp = upp]
  /\ system' = [descriptors |-> Units(upp),
                notifications |-> system.notifications + Units(notifier)]
  /\ studio' = ZeroIfaces
  /\ held' = FALSE
  /\ RegisterCallbacks(ref)
  /\ UNCHANGED <<expert, probeVars>>

OmsInit(ref, notifier, upp) ==
  /\ MayAct /\ Finds(ref)
  /\ notifier \/ NotifierMayFail
  /\ oms' = [ZeroOms EXCEPT !.alive = TRUE, !.ref = ref, !.notifier = notifier,
                            !.sendUpp = upp]
  /\ system' =
       [descriptors |-> system.descriptors - Units(oms.sendUpp) + Units(upp),
        notifications |-> system.notifications - Units(oms.notifier) + Units(notifier)]
  /\ studio' = ZeroIfaces
  /\ held' = FALSE
  /\ RegisterCallbacks(ref)
  /\ UNCHANGED <<expert, probeVars>>

(* omdvDispose: take the hooks back if the driver is known, and give back  *)
(* the rest.                                                               *)
TakeHooksBackNever == UNCHANGED slots                   \* defective variant
TakeHooksBack ==
  IF oms.ref = NoInterface THEN UNCHANGED slots ELSE SetHooks(Present, FALSE)

OmsDispose ==
  /\ Alive
  /\ TakeHooksBack
  /\ system' = [descriptors |-> system.descriptors - Units(oms.sendUpp),
                notifications |-> system.notifications - Units(oms.notifier)]
  /\ oms' = ZeroOms
  /\ studio' = ZeroIfaces
  /\ held' = FALSE
  /\ UNCHANGED <<expert, probeVars>>

(* kNotifyAddDevice or kNotifyAddInterface: oms_attach_device.  Nothing    *)
(* happens if a table is bound already.                                    *)
NotifyAdd(i) ==
  /\ Alive /\ oms.notifier
  /\ oms.ref = NoInterface
  /\ i \in Locatable
  /\ oms' = [oms EXCEPT !.ref = i]
  /\ RegisterCallbacks(i)
  /\ UNCHANGED <<expert, studio, system, held, probeVars>>

(* kNotifyRemoveDevice or kNotifyRemoveInterface, while the Expert begins  *)
(* a removal: oms_detach, if it is the interface the table came by.        *)
DetachesOthersOnly(i) == oms.notifier /\ oms.ref # i    \* defective variant
Detaches(i) == oms.notifier /\ oms.ref = i

InterfaceGoes(i) ==
  /\ Unplug(i)
  /\ IF Detaches(i)
     THEN oms' = [oms EXCEPT !.ref = NoInterface] /\ studio' = ZeroIfaces
     ELSE UNCHANGED <<oms, studio>>
  /\ UNCHANGED <<system, held, probeVars>>

-----------------------------------------------------------------------------
(* omdvAddDevices: the hooks again, then one record per index the driver   *)
(* reports; records above the count stay as they are.                      *)
RecordedOnce ==                                         \* defective variant
  [s \in Indices |-> IF s \in Present /\ studio[s] = NoInterface
                     THEN slots[s].iface ELSE studio[s]]
Recorded ==
  [s \in Indices |-> IF s \in Present THEN slots[s].iface ELSE studio[s]]

AddDevices(ref) ==
  /\ Alive /\ Ensures(ref)
  /\ oms' = [oms EXCEPT !.ref = ref]
  /\ RegisterCallbacks(ref)
  /\ studio' = IF ref = NoInterface THEN studio ELSE Recorded
  /\ UNCHANGED <<expert, system, held, probeVars>>

(* omdvStartMIDI2 looks for the driver as well.                            *)
StartMIDI2(ref) ==
  /\ Alive /\ Ensures(ref)
  /\ oms' = [oms EXCEPT !.ref = ref]
  /\ IF oms.ref = NoInterface THEN RegisterCallbacks(ref) ELSE UNCHANGED slots
  /\ UNCHANGED <<expert, studio, system, held, probeVars>>

(* omdvSetInterfaceList: the handle is remembered, never touched.          *)
SetInterfaceList ==
  /\ Alive
  /\ oms' = [oms EXCEPT !.list = TRUE]
  /\ UNCHANGED <<slots, expert, studio, system, held, probeVars>>

(* omdvGetPortSendProc: a descriptor that could not be built at init is    *)
(* tried again; OMS gets it, or an error.                                  *)
GetPortSendProcBuilds(upp) ==                           \* defective variant
  /\ Alive
  /\ oms' = [oms EXCEPT !.sendUpp = upp]
  /\ system' = [system EXCEPT !.descriptors = @ + Units(upp)]
  /\ held' = upp
  /\ UNCHANGED <<slots, expert, studio, probeVars>>

GetPortSendProc(upp) ==
  /\ Alive
  /\ oms.sendUpp => upp
  /\ oms' = [oms EXCEPT !.sendUpp = upp]
  /\ system' = [system EXCEPT !.descriptors = @ + Units(upp /\ ~oms.sendUpp)]
  /\ held' = upp
  /\ UNCHANGED <<slots, expert, studio, probeVars>>

-----------------------------------------------------------------------------
(* USBMIDI9ProbePoll: find the driver anew, print what has changed.  (The  *)
(* bytes it takes from the rings are the subject of Ring.)                 *)
Polls(found) ==
  /\ MayAct
  /\ probe.at = "poll"
  /\ IF found THEN Locatable # {} ELSE Finds(NoInterface)

ProbePollKeepsCount(found) ==                           \* defective variant
  /\ Polls(found)
  /\ LET news == IF found THEN Len(slots) # probe.last ELSE ~probe.reported
     IN  /\ screen' = IF news THEN (IF found THEN Len(slots) ELSE NoDriver) ELSE screen
         /\ probe' = [at |-> "delay", reported |-> ~found, printed |-> news,
                      last |-> IF found THEN Len(slots) ELSE probe.last]
  /\ UNCHANGED <<slots, expert, shimVars>>

ProbePoll(found) ==
  /\ Polls(found)
  /\ LET news == IF found THEN Len(slots) # probe.last ELSE ~probe.reported
     IN  /\ screen' = IF news THEN (IF found THEN Len(slots) ELSE NoDriver) ELSE screen
         /\ probe' = [at |-> "delay", reported |-> ~found, printed |-> news,
                      last |-> IF found THEN Len(slots) ELSE NoDriver]
  /\ UNCHANGED <<slots, expert, shimVars>>

(* main waits a quarter of a second and polls again, until the quit key.   *)
ProbeDelay ==
  /\ probe.at = "delay"
  /\ probe' = [probe EXCEPT !.at = "poll", !.printed = FALSE]
  /\ UNCHANGED <<slots, expert, shimVars, screen>>

ProbeQuits ==
  /\ probe.at = "poll"
  /\ probe' = [probe EXCEPT !.at = "quit"]
  /\ UNCHANGED <<slots, expert, shimVars, screen>>

-----------------------------------------------------------------------------
(* The class driver and the Expert go on by themselves.                    *)
DriverStep == RegistryStep /\ UNCHANGED <<shimVars, probeVars>>

Refs == Interfaces \cup {NoInterface}

Next ==
  \/ DriverStep
  \/ \E ref \in Refs, notifier \in BOOLEAN, upp \in BOOLEAN : OmsInit(ref, notifier, upp)
  \/ OmsDispose
  \/ \E i \in Interfaces : NotifyAdd(i) \/ InterfaceGoes(i)
  \/ \E ref \in Refs : AddDevices(ref) \/ StartMIDI2(ref)
  \/ SetInterfaceList
  \/ \E upp \in BOOLEAN : GetPortSendProc(upp)
  \/ \E found \in BOOLEAN : ProbePoll(found)
  \/ ProbeDelay \/ ProbeQuits

Spec == Init /\ [][Next]_vars

-----------------------------------------------------------------------------
TypeOK ==
  /\ RegistryTypeOK
  /\ oms \in [alive : BOOLEAN, ref : Refs, notifier : BOOLEAN,
              sendUpp : BOOLEAN, list : BOOLEAN]
  /\ studio \in [Indices -> Refs]
  /\ system \in [descriptors : 0..1, notifications : 0..1]
  /\ held \in BOOLEAN
  /\ probe \in [at : {"poll", "delay", "quit"}, last : 0..NoDriver,
                reported : BOOLEAN, printed : BOOLEAN]
  /\ screen \in 0..Blank

(* "unregister the push hook so the class driver never calls into a        *)
(* fragment that is going away" (oms_dispose): whatever interfaces came    *)
(* and went, and by whichever of them the table was found, no hook         *)
(* outlives the shim, even one set through a table given up since.         *)
HooksLeadToTheShim == HooksOut => oms.alive

(* "cached; valid only while the class driver fragment is loaded"          *)
(* (oms_driver.h): a fragment with no interface left is unloaded, and the  *)
(* shim, bound through one of several interfaces, has let go of the table  *)
(* by then.                                                                *)
TableLoaded == oms.ref # NoInterface => slots # <<>>

(* An event is delivered under the record of its index.  Indices shift and *)
(* records above a smaller count stay valid, yet an interface that can     *)
(* still push (hooked, and not told to go) never meets the record of       *)
(* another one (oms_add_devices, oms_rx_drain).                            *)
EventsMatchStudio ==
  oms.ref # NoInterface =>
    \A s \in Present :
      slots[s].hook /\ ~slots[s].removing /\ studio[s] # NoInterface
        => studio[s] = slots[s].iface

(* "so repeated omdvInit never leaks" (oms_init): the system holds exactly *)
(* the descriptor and the notification the shim can still give back, none  *)
(* once it was disposed of, and a send procedure OMS holds is allocated    *)
(* ("Never hand OMS a NULL proc", oms_get_port_send_proc).                 *)
ResourcesOwned ==
  /\ system.descriptors = Units(oms.sendUpp)
  /\ system.notifications = Units(oms.notifier)
  /\ held => oms.alive /\ oms.sendUpp

(* "State transitions (no spamming)" (probe.c): after a poll the screen    *)
(* says what the poll found, and the poll printed exactly if it had said   *)
(* something else: the driver gone and back, however many interfaces it    *)
(* has, is always told and told once.                                      *)
ProbeTellsNews ==
  [][\A found \in BOOLEAN :
       ProbePoll(found) =>
         LET truth == IF found THEN Len(slots) ELSE NoDriver
         IN  screen' = truth /\ (probe'.printed <=> screen # truth)]_vars
=============================================================================
