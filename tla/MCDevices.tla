----------------------------- MODULE MCDevices ------------------------------
(* Constants for TLC: two devices with the identity key of the account, and  *)
(* one with a key of its own.                                               *)
EXTENDS Devices, TLC

CONSTANTS d1, d2, d3, k1, k2

MCKey == d1 :> k1 @@ d2 :> k1 @@ d3 :> k2
=============================================================================
