------------------------------ MODULE MCLedger ------------------------------
(***************************************************************************)
(* Constants for checking Ledger: claims c1 and c2 (and c4, if given) want *)
(* Blank ID "x", claim c3 wants "y".                                       *)
(***************************************************************************)
EXTENDS Ledger

CONSTANTS c1, c2, c3, me, peer

MCBlankID == {"x", "y"}
MCBlankOf == [c \in Claim |-> IF c = c3 THEN "y" ELSE "x"]

\* What a peer may serve: its own first block, which commits c1; a second
\* block on top of it, which commits c2 too (the peer's index was stale); and
\* a block that rejects a collision on "x".
PeerHash(n) == [by |-> peer, round |-> n]
PeerBlock(i, n, p, res, cs) ==
    [index |-> i, hash |-> PeerHash(n), prev |-> p, result |-> res, claims |-> cs]

MCForeignBlock ==
    {PeerBlock(1, 1, GENESIS, "committed", {c1}),
     PeerBlock(2, 2, PeerHash(1), "committed", {c2}),
     PeerBlock(2, 3, PeerHash(1), "collision_rejected", {c1, c2})}
=============================================================================
