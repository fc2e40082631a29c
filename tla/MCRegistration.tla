--------------------------- MODULE MCRegistration ---------------------------
(***************************************************************************)
(* Constants for checking Registration: three requests and a claim from    *)
(* elsewhere compete for one Blank ID; a3 sends no displayName, and nothing *)
(* tells a1 from a2.                                                       *)
(***************************************************************************)
EXTENDS Registration, TLC

CONSTANTS a1, a2, a3, o1

MCBlankID == {"x"}
MCIdOf == [c \in Claim |-> "x"]
Symmetry == Permutations({a1, a2})
=============================================================================
