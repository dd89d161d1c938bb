------------------------------- MODULE MCRing -------------------------------
(* Instances of Ring for TLC.                                              *)
EXTENDS Ring

CONSTANTS client     \* the one context that dequeues

MCConsumers == {client}
=============================================================================
