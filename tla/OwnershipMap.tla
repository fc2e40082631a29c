---------------------------- MODULE OwnershipMap ----------------------------
(***************************************************************************)
(* What a relay promises of claims and of Blank ID ownership, whatever its *)
(* commit loop, its importing threads and its crashes do.  A claim that is *)
(* queued is decided at most once, and for a reason; a Blank ID is owned   *)
(* by at most one claim, only by a claim that was filed for it; and an     *)
(* owned ID never changes hands and never becomes free again.              *)
(*                                                                         *)
(* Ledger implements this specification, and so does the ledger as         *)
(* Registration sees it.                                                   *)
(***************************************************************************)
CONSTANTS Claim, BlankID, BlankOf, None

VARIABLES
    status,  \* of each claim: "absent", then "pending_consensus", then decided
    filed,   \* the claims filed as "committed" (ledger_claims)
    owner    \* the owning claim of each Blank ID, or None (ownership_index)

vars == <<status, filed, owner>>

Init == /\ status = [c \in Claim |-> "absent"]
        /\ filed = {}
        /\ owner = [b \in BlankID |-> None]

Waiting(c) == status[c] = "pending_consensus"

Queue(c) == /\ status[c] = "absent"
            /\ status' = [status EXCEPT ![c] = "pending_consensus"]
            /\ UNCHANGED <<filed, owner>>

\* A claim is too late: its Blank ID is owned.
Refuse(c) == /\ Waiting(c)
             /\ owner[BlankOf[c]] # None
             /\ status' = [status EXCEPT ![c] = "taken"]
             /\ UNCHANGED <<filed, owner>>

\* Claims that wait for one Blank ID, two at least, are all rejected.
Collide(S) ==
    /\ \E c, d \in S : c # d
    /\ \A c, d \in S : Waiting(c) /\ BlankOf[c] = BlankOf[d]
    /\ status' = [c \in Claim |-> IF c \in S THEN "collision_rejected" ELSE status[c]]
    /\ UNCHANGED <<filed, owner>>

\* A claim gets its block.
Commit(c) == /\ Waiting(c)
             /\ status' = [status EXCEPT ![c] = "committed"]
             /\ filed' = filed \cup {c}
             /\ UNCHANGED owner

\* A peer's block adds its claims to the ledger.
Import(S) == /\ filed' = filed \cup S
             /\ UNCHANGED <<status, owner>>

\* Owned IDs keep their owner; a free ID may be given to a claim filed for it.
Publish ==
    /\ owner' \in [BlankID -> filed \cup {None}]
    /\ \A b \in BlankID :
         /\ owner[b] # None => owner'[b] = owner[b]
         /\ owner'[b] # None => BlankOf[owner'[b]] = b
    /\ UNCHANGED <<status, filed>>

Next == \/ \E c \in Claim : Queue(c) \/ Refuse(c) \/ Commit(c)
        \/ \E S \in SUBSET Claim : Collide(S) \/ Import(S)
        \/ Publish

Spec == Init /\ [][Next]_vars
=============================================================================
