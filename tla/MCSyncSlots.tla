---------------------------- MODULE MCSyncSlots -----------------------------
(***************************************************************************)
(* Clients for checking SyncSlots; they are interchangeable.               *)
(***************************************************************************)
EXTENDS SyncSlots, TLC

CONSTANTS c1, c2, c3

Symmetry == Permutations({c1, c2, c3})
=============================================================================
