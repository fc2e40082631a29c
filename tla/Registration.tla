---------------------------- MODULE Registration ----------------------------
(***************************************************************************)
(* Registering a Blank ID: POST /api/register (register_user and           *)
(* reserve_blank_id in main.py), which writes two databases and asks two   *)
(* outside registries, each in a transaction or call of its own, on as     *)
(* many threads as there are requests.                                     *)
(*                                                                         *)
(* Each Attempt is one request, and its claim if it queues one; Other are  *)
(* the claims that reach the ledger past the handler, by submit_claim, by  *)
(* forward_claim or in a peer's block.  Of the ledger the module keeps the *)
(* steps of a round that others can see, the blocks imported beside it and *)
(* the rebuilds, and it implements OwnershipMap as Ledger does.  The hub's *)
(* reservation is left out, because register_user ignores its answer, and  *)
(* the backup registry is everybody's: any ID may have been announced.     *)
(***************************************************************************)
EXTENDS Naturals, FiniteSets

CONSTANTS
    Attempt,      \* the registration requests
    Other,        \* the claims that no registration request queues
    BlankID,      \* the Blank IDs
    IdOf,         \* the Blank ID each request or claim is for
    Nameless,     \* the requests without displayName, which is optional
    None,         \* nobody
    MaxExpiries,  \* bound on the reservations that pass 300 seconds of age
    MaxCrashes    \* bound on the crashes of the process

Claim == Attempt \cup Other

ASSUME AttemptAssumption == /\ IdOf \in [Claim -> BlankID]
                            /\ Nameless \subseteq Attempt
                            /\ Attempt \cap Other = {}
                            /\ None \notin Claim

ASSUME BoundAssumption == MaxExpiries \in Nat /\ MaxCrashes \in Nat

VARIABLES
    pc,         \* where each request's handler is
    reserved,   \* reserved_ids: the status of each Blank ID's row, or "none"
    aged,       \* the Blank IDs whose row was created 300 seconds ago or earlier
    claim,      \* status of each claim's row in pending_claims, or "absent"
    imported,   \* the claims committed in peers' blocks that were imported
    owner,      \* ownership_index
    loop,       \* the commit loop is to "read", to "file" a block or to "rebuild"
    chosen,     \* the claims that the round under way has read
    user,       \* users: the request that created the Blank ID's user
    device,     \* the requests whose primary device is in user_devices
    expiries, crashes

ledgerVars == <<claim, imported, owner, loop, chosen>>
vars == <<pc, reserved, aged, ledgerVars, user, device, expiries, crashes>>
bounds == <<expiries, crashes>>

PCs == {"idle", "reserve", "age", "drop", "lock", "lookup", "pending", "enqueue",
        "check", "create", "device", "complete", "publish", "done",
        "cleanup", "failed", "crashed"}

rowVars == <<reserved, aged>>

Init == /\ pc = [a \in Attempt |-> "idle"]
        /\ reserved = [b \in BlankID |-> "none"]
        /\ aged = {}
        /\ claim = [c \in Claim |-> "absent"]
        /\ imported = {}
        /\ owner = [b \in BlankID |-> None]
        /\ loop = "read" /\ chosen = {}
        /\ user = [b \in BlankID |-> None]
        /\ device = {}
        /\ expiries = 0
        /\ crashes = 0

GoTo(a, next) == pc' = [pc EXCEPT ![a] = next]

HasRow(b) == \E c \in Claim : IdOf[c] = b /\ claim[c] # "absent"

-----------------------------------------------------------------------------
(* The handler.  An exception leads to the cleanup, also one raised before *)
(* the handler has reserved anything.                                      *)

\* The relay is syncing or in join mode, or the ledger has an owner.
Refuse(a) ==
    /\ pc[a] = "idle"
    /\ GoTo(a, "cleanup")
    /\ UNCHANGED <<rowVars, ledgerVars, user, device, bounds>>

Start(a) ==
    /\ pc[a] = "idle"
    /\ owner[IdOf[a]] = None
    /\ GoTo(a, "reserve")
    /\ UNCHANGED <<rowVars, ledgerVars, user, device, bounds>>

\* reserve_blank_id reads the status of the Blank ID's row ...
ReadReservation(a) ==
    /\ pc[a] = "reserve"
    /\ GoTo(a, IF reserved[IdOf[a]] = "none" THEN "lock"
               ELSE IF reserved[IdOf[a]] = "completed" THEN "cleanup" ELSE "age")
    /\ UNCHANGED <<rowVars, ledgerVars, user, device, bounds>>

\* Mutant: the age is not looked at.
AnyAge(b) == TRUE
OldEnough(b) == b \in aged

\* ... and, in a query of its own, the row's age; a row gone by then has age 0.
ReadAge(a) ==
    /\ pc[a] = "age"
    /\ GoTo(a, IF OldEnough(IdOf[a]) THEN "drop" ELSE "cleanup")
    /\ UNCHANGED <<rowVars, ledgerVars, user, device, bounds>>

Delete(b) == /\ reserved' = [reserved EXCEPT ![b] = "none"]
             /\ aged' = aged \ {b}

\* The old row is deleted by Blank ID: whatever row is there by now goes.
DropReservation(a) ==
    /\ pc[a] = "drop"
    /\ Delete(IdOf[a])
    /\ GoTo(a, "lock")
    /\ UNCHANGED <<ledgerVars, user, device, bounds>>

\* Mutants: the status of the hub's table; the final status at once.
LockStatusHub == "reserved"
LockStatusFinal == "completed"
LockStatus == "pending"

\* blank_id is the primary key of reserved_ids: a second INSERT fails.
Lock(a) ==
    /\ pc[a] = "lock"
    /\ \/ /\ reserved[IdOf[a]] = "none"
          /\ reserved' = [reserved EXCEPT ![IdOf[a]] = LockStatus]
          /\ GoTo(a, "lookup")
       \/ /\ reserved[IdOf[a]] # "none"
          /\ GoTo(a, "cleanup")
          /\ UNCHANGED reserved
    /\ UNCHANGED <<aged, ledgerVars, user, device, bounds>>

\* lookup_blankid: some relay has announced the ID, this one included, or none
\* has, or the registry does not answer, which counts as not found.
Lookup(a) ==
    /\ pc[a] = "lookup"
    /\ GoTo(a, "pending") \/ GoTo(a, "cleanup")
    /\ UNCHANGED <<rowVars, ledgerVars, user, device, bounds>>

\* A row of any status for the Blank ID, whoever's, and no claim is queued: the
\* request registers on the strength of a claim that may come from elsewhere.
ReadPending(a) ==
    /\ pc[a] = "pending"
    /\ GoTo(a, IF HasRow(IdOf[a]) THEN "check" ELSE "enqueue")
    /\ UNCHANGED <<rowVars, ledgerVars, user, device, bounds>>

Enqueue(a) ==
    /\ pc[a] = "enqueue"
    /\ claim' = [claim EXCEPT ![a] = "pending_consensus"]
    /\ GoTo(a, "check")
    /\ UNCHANGED <<rowVars, imported, owner, loop, chosen, user, device, bounds>>

\* Is there a user?  If not, build one: displayName.strip() raises on None.
CheckUser(a) ==
    /\ pc[a] = "check"
    /\ GoTo(a, IF user[IdOf[a]] # None \/ a \in Nameless THEN "cleanup" ELSE "create")
    /\ UNCHANGED <<rowVars, ledgerVars, user, device, bounds>>

\* Mutant: users.blank_id not UNIQUE.
NameAlwaysFree(b) == TRUE
NameFree(b) == user[b] = None

\* users.blank_id is UNIQUE.  A flush that fails leaves the session unusable,
\* so the cleanup's own statement fails too and the reservation stays.
CreateUser(a) ==
    /\ pc[a] = "create"
    /\ \/ /\ NameFree(IdOf[a])
          /\ user' = [user EXCEPT ![IdOf[a]] = a]
          /\ GoTo(a, "device")
       \/ /\ ~ NameFree(IdOf[a])
          /\ GoTo(a, "failed")
          /\ UNCHANGED user
    /\ UNCHANGED <<rowVars, ledgerVars, device, bounds>>

\* device_id, the request's nonce, is UNIQUE too and may be another account's.
CreateDevice(a) ==
    /\ pc[a] = "device"
    /\ \/ device' = device \cup {a} /\ GoTo(a, "complete")
       \/ UNCHANGED device /\ GoTo(a, "failed")
    /\ UNCHANGED <<rowVars, ledgerVars, user, bounds>>

\* The UPDATE names the Blank ID only: it completes whatever reservation is
\* there, and none if another request's cleanup has deleted it.
Complete(a) ==
    /\ pc[a] = "complete"
    /\ reserved' = [reserved EXCEPT ![IdOf[a]] =
                      IF @ = "none" THEN "none" ELSE "completed"]
    /\ GoTo(a, "publish")
    /\ UNCHANGED <<aged, ledgerVars, user, device, bounds>>

\* publish_blankid, which may fail unnoticed.
Publish(a) ==
    /\ pc[a] = "publish"
    /\ GoTo(a, "done")
    /\ UNCHANGED <<rowVars, ledgerVars, user, device, bounds>>

\* The except branch deletes the Blank ID's reservation, whoever made it.
Cleanup(a) ==
    /\ pc[a] = "cleanup"
    /\ Delete(IdOf[a])
    /\ GoTo(a, "failed")
    /\ UNCHANGED <<ledgerVars, user, device, bounds>>

-----------------------------------------------------------------------------
(* The rest of the relay.                                                  *)

elsewhere == <<pc, rowVars, user, device, bounds>>

\* submit_claim and forward_claim, the latter without a look at the owner.
QueueOther(c) ==
    /\ claim[c] = "absent"
    /\ claim' = [claim EXCEPT ![c] = "pending_consensus"]
    /\ UNCHANGED <<elsewhere, imported, owner, loop, chosen>>

Pending(b) == {c \in Claim : IdOf[c] = b /\ claim[c] = "pending_consensus"}

\* commit_one_round over the pending claims of one Blank ID: its first claim is
\* refused if the ID has an owner ...
RoundRefuse(b) ==
    /\ loop = "read"
    /\ owner[b] # None
    /\ \E c \in Pending(b) : claim' = [claim EXCEPT ![c] = "taken"]
    /\ UNCHANGED <<elsewhere, imported, owner, loop, chosen>>

\* ... or else all that wait are read, and the votes are collected.
RoundRead(b) ==
    /\ loop = "read"
    /\ owner[b] = None
    /\ Pending(b) # {}
    /\ loop' = "file" /\ chosen' = Pending(b)
    /\ UNCHANGED <<elsewhere, claim, imported, owner>>

Collides == \E c, d \in chosen : c # d

Settle(S, status) == claim' = [c \in Claim |-> IF c \in S THEN status ELSE claim[c]]

\* Two claims in the ledger never have one client_claim_hash.
RoundFile ==
    /\ loop = "file"
    /\ chosen \cap imported = {}
    /\ Settle(chosen, IF Collides THEN "collision_rejected" ELSE "committed")
    /\ loop' = "rebuild" /\ chosen' = {}
    /\ UNCHANGED <<elsewhere, imported, owner>>

\* No quorum, or an exception: the next round reads again.
RoundDrop ==
    /\ loop = "file"
    /\ loop' = "read" /\ chosen' = {}
    /\ UNCHANGED <<elsewhere, claim, imported, owner>>

\* import_raw_block files a peer's block, with a claim this relay has not filed.
ImportClaim(c) ==
    /\ c \notin imported
    /\ claim[c] \notin {"committed", "collision_rejected"}
    /\ c \in Attempt => claim[c] # "absent"
    /\ imported' = imported \cup {c}
    /\ UNCHANGED <<elsewhere, claim, owner, loop, chosen>>

Committed(b) == {c \in Claim : IdOf[c] = b /\ (claim[c] = "committed" \/ c \in imported)}

\* Mutant: no filter on claim_status.
IndexedAnyClaim(b) ==
    IF HasRow(b) THEN CHOOSE c \in Claim : IdOf[c] = b /\ claim[c] # "absent" ELSE None
Indexed(b) == IF Committed(b) = {} THEN None ELSE CHOOSE c \in Committed(b) : TRUE

\* rebuild_ownership_index fails as a whole when two claims have committed an ID.
OneEach == \A b \in BlankID : \A c, d \in Committed(b) : c = d

\* The loop rebuilds after its block, and an importing thread after each of its
\* own, which may be a block about other Blank IDs: so at any time.
Rebuild ==
    /\ loop' \in {loop, IF loop = "rebuild" THEN "read" ELSE loop}
    /\ owner' = IF OneEach THEN [b \in BlankID |-> Indexed(b)] ELSE owner
    /\ UNCHANGED <<elsewhere, claim, imported, chosen>>

\* A row passes 300 seconds of age.
Expire(b) ==
    /\ expiries < MaxExpiries
    /\ expiries' = expiries + 1
    /\ reserved[b] # "none" /\ b \notin aged
    /\ aged' = aged \cup {b}
    /\ UNCHANGED <<pc, reserved, ledgerVars, user, device, crashes>>

\* The process dies: requests under way end where they are, with no cleanup, and
\* nothing rebuilds the index for a block that had been filed.
Crash ==
    /\ crashes < MaxCrashes
    /\ crashes' = crashes + 1
    /\ pc' = [a \in Attempt |-> IF pc[a] \in {"idle", "done", "failed"} THEN pc[a]
                                                                       ELSE "crashed"]
    /\ loop' = "read" /\ chosen' = {}
    /\ UNCHANGED <<rowVars, claim, imported, owner, user, device, expiries>>

Handler(a) == \/ Refuse(a) \/ Start(a) \/ ReadReservation(a) \/ ReadAge(a)
              \/ DropReservation(a) \/ Lock(a) \/ Lookup(a) \/ ReadPending(a) \/ Enqueue(a)
              \/ CheckUser(a) \/ CreateUser(a) \/ CreateDevice(a) \/ Complete(a)
              \/ Publish(a) \/ Cleanup(a)

Next == \/ \E a \in Attempt : Handler(a)
        \/ \E c \in Other : QueueOther(c)
        \/ \E b \in BlankID : RoundRefuse(b) \/ RoundRead(b) \/ Expire(b)
        \/ RoundFile \/ RoundDrop \/ Rebuild
        \/ \E c \in Claim : ImportClaim(c)
        \/ Crash

Spec == Init /\ [][Next]_vars

-----------------------------------------------------------------------------
(* Properties.                                                             *)

TypeOK ==
    /\ pc \in [Attempt -> PCs]
    /\ reserved \in [BlankID -> {"none", "pending", "completed"}]
    /\ aged \subseteq {b \in BlankID : reserved[b] # "none"}
    /\ claim \in [Claim -> {"absent", "pending_consensus", "taken", "committed",
                            "collision_rejected"}]
    /\ imported \subseteq Claim
    /\ owner \in [BlankID -> Claim \cup {None}]
    /\ loop \in {"read", "file", "rebuild"}
    /\ chosen \subseteq Claim
    /\ user \in [BlankID -> Attempt \cup {None}]
    /\ device \subseteq Attempt
    /\ expiries \in 0..MaxExpiries
    /\ crashes \in 0..MaxCrashes

\* A handler past the insert of its user.
Created(a) == pc[a] \in {"device", "complete", "publish", "done"}

HasClaim(b) == \E c \in Claim : IdOf[c] = b /\ claim[c] # "absent"

\* However requests for a Blank ID interleave, and however often its lock was
\* dropped under them, at most one of them is told it has registered the ID,
\* and the user and the primary device there are that request's.
OneWinner ==
    \A a \in Attempt : Created(a) =>
        /\ user[IdOf[a]] = a
        /\ pc[a] # "device" => a \in device
        /\ \A c \in Attempt : Created(c) /\ IdOf[c] = IdOf[a] => c = a

\* The two databases agree: nobody is a user without a claim for that Blank ID
\* in the ledger's queue or already decided there, whoever's that is, and
\* a reservation is completed only for a Blank ID that has its user and the
\* user's primary device.  A refused request or a cleanup never leaves less.
RecordsAgree ==
    \A b \in BlankID :
        /\ user[b] # None => HasClaim(b)
        /\ reserved[b] = "completed" => user[b] # None /\ user[b] \in device

\* While no request for the Blank ID has failed and no lock has expired.
Undisturbed(b) == /\ expiries = 0
                  /\ \A a \in Attempt : IdOf[a] = b => pc[a] # "failed"

\* The handler has the reservation.
Holds(a) == pc[a] \in {"lookup", "pending", "enqueue", "check", "create", "device",
                       "complete", "publish", "done"}

\* Until some request fails or a lock expires, the reservation keeps all other
\* requests for the Blank ID out.
LockExclusive ==
    \A a, c \in Attempt :
        Undisturbed(IdOf[a]) /\ IdOf[a] = IdOf[c] /\ Holds(a) /\ Holds(c) => a = c

\* And until then no other request's claim takes the Blank ID from the user who
\* registered it, also when a crash, a rebuild or a peer's block comes between.
\* The reservation gives no more: a claim from outside (submit_claim,
\* forward_claim, a peer's block) may own the ID of a user who was told that the
\* registration had succeeded.
NoRivalOwner ==
    \A b \in BlankID :
        Undisturbed(b) /\ owner[b] # None /\ user[b] # None =>
            owner[b] = user[b] \/ owner[b] \in Other

\* The ledger as the handlers see it keeps the promise that Ledger is shown to
\* keep, also when a crash comes between a block and the rebuilt index.
Ownership == INSTANCE OwnershipMap WITH
                 BlankOf <- IdOf, status <- claim,
                 filed <- UNION {Committed(b) : b \in BlankID}
OwnershipSpec == Ownership!Spec

\* What the comment "CRITICAL CLEANUP" promises: a registration that failed
\* leaves its Blank ID free, not owned by the claim it had queued.
NotBurned == \A a \in Attempt : pc[a] = "failed" => owner[IdOf[a]] # a
=============================================================================
