---------------------------- MODULE MCBlockSync -----------------------------
(***************************************************************************)
(* Constants for checking BlockSync: peer p1 made all its blocks, peer p2  *)
(* made the first of its own and took the others from p1.  A claim of this *)
(* relay's first block was forwarded to p1, which has it in its second.    *)
(***************************************************************************)
EXTENDS BlockSync

CONSTANTS p1, p2

MCPeerChain == [p \in Peer |-> [i \in Index |-> IF i = 1 THEN p ELSE p1]]
MCSameClaim == {<<<<THIS_RELAY_DOMAIN, 1>>, <<p1, 2>>>>}
=============================================================================
