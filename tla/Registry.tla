------------------------------ MODULE Registry ------------------------------
(***************************************************************************)
(* What the class driver (classic/usb_driver.c) promises the clients of    *)
(* its dispatch table: a list of attached interfaces, addressed by index,  *)
(* each with an event hook that starts out clear; a removal that goes      *)
(* through every interface, takes its hook away and stops it, again and    *)
(* again until nothing is in flight; and only then the end of one          *)
(* interface, whose index the last one takes over.  UsbDriver implements   *)
(* this specification; Shim is written against it.                         *)
(***************************************************************************)
EXTENDS Naturals, Sequences

CONSTANTS
  Interfaces,     \* interface references the Expert may plug in
  NoInterface,    \* none of them
  MaxInterfaces,  \* kUSBMIDI9MaxInterfaces (8)
  GapOpen         \* may other task code run between the last
                  \* notification and finalize?

ASSUME RegistryAssumption ==
  /\ MaxInterfaces \in Nat \ {0}
  /\ NoInterface \notin Interfaces
  /\ GapOpen \in BOOLEAN

VARIABLES
  slots,   \* the attached interfaces in index order
  expert   \* the removal in progress: how far, of which interface, and
           \* whether a notification is being handled

registryVars == <<slots, expert>>

Slot == [iface : Interfaces, hook : BOOLEAN, removing : BOOLEAN]
NoRemoval == [phase |-> "idle", iface |-> NoInterface, pass |-> FALSE]
Attached == {slots[s].iface : s \in 1..Len(slots)}

RegistryInit ==
  /\ slots = <<>>
  /\ expert = NoRemoval

(* Task-level code does not interrupt a notification.                      *)
TaskLevel == ~expert.pass /\ (GapOpen \/ expert.phase # "drained")

(* An interface is attached at the next index, with a clear hook.          *)
Plug(i) ==
  /\ TaskLevel
  /\ i \notin Attached
  /\ Len(slots) < MaxInterfaces
  /\ slots' = Append(slots, [iface |-> i, hook |-> FALSE, removing |-> FALSE])
  /\ UNCHANGED expert

(* A client sets or clears the hooks of some indices.                      *)
SetHooks(which, hook) ==
  slots' = [s \in 1..Len(slots) |-> IF s \in which THEN [slots[s] EXCEPT !.hook = hook]
                                    ELSE slots[s]]

(* The Expert announces that an interface goes, ...                        *)
Unplug(i) ==
  /\ expert.phase = "idle"
  /\ i \in Attached
  /\ expert' = [phase |-> "announced", iface |-> i, pass |-> FALSE]
  /\ UNCHANGED slots

(* ... notifies the driver, which marks one instance after the other and   *)
(* takes its hook away ...                                                 *)
Notify ==
  /\ expert.phase \in {"announced", "notifying"}
  /\ ~expert.pass
  /\ expert' = [expert EXCEPT !.phase = "notifying", !.pass = TRUE]
  /\ UNCHANGED slots

Mark(s) ==
  /\ expert.pass
  /\ slots' = [slots EXCEPT ![s].removing = TRUE]
  /\ UNCHANGED expert

Unhook(s) ==
  /\ expert.pass
  /\ slots[s].removing
  /\ slots' = [slots EXCEPT ![s].hook = FALSE]
  /\ UNCHANGED expert

(* ... and answers "busy", or that everything has drained; ...             *)
NotifyReturn ==
  /\ expert.pass
  /\ \A s \in 1..Len(slots) : slots[s].removing /\ ~slots[s].hook
  /\ \E phase \in {"notifying", "drained"} :
       expert' = [expert EXCEPT !.phase = phase, !.pass = FALSE]
  /\ UNCHANGED slots

(* ... then it finalizes: the last interface takes over the freed index.   *)
Freed(s) ==
  [k \in 1..(Len(slots) - 1) |-> IF k = s THEN slots[Len(slots)] ELSE slots[k]]

Finalize ==
  /\ expert.phase = "drained"
  /\ \E s \in 1..Len(slots) : slots[s].iface = expert.iface /\ slots' = Freed(s)
  /\ expert' = NoRemoval

(* The driver and the Expert by themselves, without the clients.           *)
RegistryStep ==
  \/ \E i \in Interfaces : Plug(i)
  \/ Notify
  \/ \E s \in 1..Len(slots) : Mark(s) \/ Unhook(s)
  \/ NotifyReturn
  \/ Finalize

RegistryNext ==
  \/ RegistryStep
  \/ \E i \in Interfaces : Unplug(i)
  \/ \E s \in 1..Len(slots), hook \in BOOLEAN :
       TaskLevel /\ SetHooks({s}, hook) /\ UNCHANGED expert

RegistrySpec == RegistryInit /\ [][RegistryNext]_registryVars

RegistryTypeOK ==
  /\ slots \in UNION {[1..n -> Slot] : n \in 0..MaxInterfaces}
  /\ expert \in [phase : {"idle", "announced", "notifying", "drained"},
                 iface : Interfaces \cup {NoInterface}, pass : BOOLEAN]
=============================================================================
