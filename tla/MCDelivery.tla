----------------------------- MODULE MCDelivery -----------------------------
(* Constants for TLC: an account at each of two relays that know each other; *)
(* B also pushes to A what it stores, so that an envelope for bob goes round *)
(* between the two.                                                         *)
EXTENDS Delivery, TLC

CONSTANTS A, B, alice, bob, phone, tablet, laptop, e1, e2

MCHome == alice :> A @@ bob :> B
MCOwner == phone :> alice @@ tablet :> alice @@ laptop :> bob
MCTo == e1 :> phone @@ e2 :> laptop
MCKnown == A :> <<B>> @@ B :> <<A>>
MCPeers == A :> <<>> @@ B :> <<A>>
=============================================================================
