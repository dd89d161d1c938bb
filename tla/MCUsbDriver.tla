---------------------------- MODULE MCUsbDriver ----------------------------
(* Instances of UsbDriver for TLC: interfaces are interchangeable.         *)
EXTENDS UsbDriver, TLC

ReadAbortFails == {Reading}
AllocAbortFails == {"AllocReadBuffer"}
InterfaceSymmetry == Permutations(Interfaces)
=============================================================================
