------------------------------- MODULE MCShim -------------------------------
(* Instances of Shim for TLC: interfaces are interchangeable.              *)
EXTENDS Shim, TLC

InterfaceSymmetry == Permutations(Interfaces)
=============================================================================
