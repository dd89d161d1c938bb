---------------------------- MODULE MCOmsStart -----------------------------
(***************************************************************************)
(* The receive path with a history of the two statements the comments of   *)
(* the shim make about the start of MIDI, neither of which the code keeps: *)
(* NoContinuationLeaks and NoStaleDelivery.                                *)
(***************************************************************************)
EXTENDS OmsDriver

VARIABLES
  cut,      \* cut[i]: the run the device is inside of on the known interface
            \* i began before MIDI was started
  leaked,   \* OMS was given the rest of such a run, received after the start
  played    \* OMS was given what was received before MIDI was started

StartInit ==
  /\ Init
  /\ cut = [i \in Ifaces |-> FALSE]
  /\ leaked = FALSE
  /\ played = FALSE

Ended == \E m \in out : m.kind = "end"

StartNext ==
  /\ Next
  /\ cut' = [i \in Ifaces |->
               /\ source'[i] /\ iface'[i].valid /\ ~Ended'
               /\ cut[i] \/ (~oms.started /\ oms.started')]
  /\ leaked' = (leaked \/ ((\E i \in Ifaces : cut[i]) /\ NoStaleDelivery' /\ ~NoContinuationLeaks'))
  /\ played' = (played \/ ~NoStaleDelivery')

StartSpec == StartInit /\ [][StartNext]_<<vars, cut, leaked, played>>

(* "omdvStartMIDI2 discards any remaining backlog before it starts         *)
(* delivering" (comment of oms_rx_event) and "so no mid-SysEx continuation *)
(* leaks across a stop/start" (comment of oms_start_midi2): at least one   *)
(* of the two is kept all along.  A behaviour in which this fails refutes  *)
(* both, each by a message of its own.                                     *)
StartAsDocumented == ~leaked \/ ~played
=============================================================================
