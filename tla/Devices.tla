------------------------------- MODULE Devices ------------------------------
(***************************************************************************)
(* The devices of one Blank ID and their prekey bundles, at the relay that *)
(* has its user row: linking a second device by a code, recovering the     *)
(* primary device by password, uploading prekeys, which claims the         *)
(* account's identity key, and deleting the account (main.py).  Each       *)
(* handler reads in queries of its own and commits once at its end, while  *)
(* other requests run on other threads.  One-time prekeys are left out.    *)
(***************************************************************************)
EXTENDS Naturals, Sequences

CONSTANTS
    Device,     \* the device ids that clients choose
    First,      \* the primary device that registration made
    Keys, Key,  \* identity keys, and the one each device holds
    None,       \* no device, no key
    AllowReuse, \* ALLOW_ID_REUSE_AFTER_DELETE
    Request,    \* bound on the requests under way at once
    MaxCodes    \* bound on the link codes that are issued

ASSUME DeviceAssumption == /\ First \in Device
                           /\ Key \in [Device -> Keys]
                           /\ None \notin Device \cup Keys
                           /\ AllowReuse \in BOOLEAN

ASSUME BoundAssumption == MaxCodes \in Nat

VARIABLES
    user,       \* the row in users: "active", "deleted" (is_deleted) or "gone"
    claim,      \* claimed_identity_key_base64
    rows,       \* the devices with a row in user_devices ...
    active,     \* ... those with is_active ...
    primary,    \* ... and those with is_primary
    linked_by,  \* linked_by_device_id
    link_code,  \* codes are numbered as they are issued; 0 is none
    bundle,     \* prekey_bundles by id: its device, and whose keys are in it
    req,        \* the requests under way: where they are and what they have read
    issued,     \* link codes so far
    raced,      \* has the key been claimed twice?
    crossed     \* has a handler written device rows that changed since it read?

devices == <<rows, active, primary, linked_by>>
vars == <<user, claim, devices, link_code, bundle, req, issued, raced, crossed>>

Free == [pc |-> "free", dev |-> None, from |-> None, rows |-> {}, key |-> None, id |-> 0]

Init == /\ user = "active"
        /\ claim = None
        /\ rows = {First} /\ active = {First} /\ primary = {First}
        /\ linked_by = [d \in Device |-> None]
        /\ link_code = [d \in Device |-> 0]
        /\ bundle = <<>>
        /\ req = [q \in Request |-> Free]
        /\ issued = 0 /\ raced = FALSE /\ crossed = FALSE

At(q, pc) == req[q].pc = pc
Become(q, r) == req' = [req EXCEPT ![q] = r]
Finish(q) == Become(q, Free)

\* Half of a handler that only reads.
ReadOnly == UNCHANGED <<user, claim, devices, link_code, bundle, issued, raced, crossed>>

-----------------------------------------------------------------------------
(* POST /api/devices/link/request and /api/devices/link/complete.          *)

\* The user is looked up, and the device, which must be active and is taken
\* for the primary one.
CodeRead(q, d) ==
    /\ At(q, "free") /\ user = "active" /\ d \in active
    /\ Become(q, [Free EXCEPT !.pc = "code", !.dev = d])
    /\ ReadOnly

CodeWrite(q) ==
    /\ At(q, "code")
    /\ issued < MaxCodes
    /\ issued' = issued + 1
    /\ link_code' = [link_code EXCEPT ![req[q].dev] = issued + 1]
    /\ Finish(q)
    /\ UNCHANGED <<user, claim, devices, bundle, raced, crossed>>

Issuer(p, c) == p \in primary /\ link_code[p] = c

\* The primary device is found by the code; neither link_code_expires_at nor
\* the user's row is looked at.
LinkRead(q, p, c, d) ==
    /\ At(q, "free") /\ Issuer(p, c)
    /\ Become(q, [Free EXCEPT !.pc = "link", !.dev = d, !.from = p])
    /\ ReadOnly

\* A device id that is taken ends the request, by a query or by UNIQUE.  The
\* code is cleared by row, whatever code the row has by now.
LinkWrite(q) ==
    /\ At(q, "link")
    /\ LET d == req[q].dev
           p == req[q].from IN
       /\ d \notin rows
       /\ rows' = rows \cup {d} /\ active' = active \cup {d}
       /\ linked_by' = [linked_by EXCEPT ![d] = p]
       /\ link_code' = [link_code EXCEPT ![p] = 0]
       /\ crossed' = (crossed \/ p \notin primary)
    /\ Finish(q)
    /\ UNCHANGED <<user, claim, primary, bundle, issued, raced>>

-----------------------------------------------------------------------------
(* POST /api/identity/recover-device.                                      *)

RecoverRead(q, d) ==
    /\ At(q, "free") /\ user = "active"
    /\ Become(q, [Free EXCEPT !.pc = "recover", !.dev = d, !.rows = rows])
    /\ ReadOnly

\* Mutant: the old primary device is switched off, its linked devices are not.
OldPrimary(q) == req[q].rows \cap primary
Old(q) == req[q].rows

\* The devices that were there, the linked ones too, are switched off, all
\* bundles are deleted and the new device is the primary one.  The claimed key
\* stays as it is.
RecoverWrite(q) ==
    /\ At(q, "recover")
    /\ LET d == req[q].dev IN
       /\ d \notin rows
       /\ rows' = rows \cup {d}
       /\ active' = (active \ Old(q)) \cup {d}
       /\ primary' = (primary \ Old(q)) \cup {d}
    /\ bundle' = <<>>
    /\ crossed' = (crossed \/ rows # req[q].rows)
    /\ Finish(q)
    /\ UNCHANGED <<user, claim, linked_by, link_code, issued, raced>>

-----------------------------------------------------------------------------
(* POST /api/prekeys/upload, by any device: is_active is not looked at.    *)

\* Mutant: the key is not compared.
AnyKey(d) == TRUE
KeyFits(d) == claim \in {None, Key[d]}

\* The claim is read with the user's row; a key that differs is a mismatch.
UploadRead(q, d) ==
    /\ At(q, "free") /\ user = "active" /\ KeyFits(d)
    /\ Become(q, [Free EXCEPT !.pc = "bundle", !.dev = d, !.key = claim])
    /\ ReadOnly

Bundles == 1..Len(bundle)
Own(d) == {i \in Bundles : bundle[i].dev = d}

BundleRead(q) ==
    /\ At(q, "bundle")
    /\ \/ \E i \in Own(req[q].dev) :
            Become(q, [req[q] EXCEPT !.pc = "write", !.id = i])
       \/ Own(req[q].dev) = {} /\ Become(q, [req[q] EXCEPT !.pc = "write", !.id = 0])
    /\ ReadOnly

\* An UPDATE or INSERT finds its row: the user's for a first claim, the
\* bundle's by the id that was read, and no bundle of the device for a new one.
Writable(q) == /\ req[q].key = None => user # "gone"
               /\ req[q].id \in Bundles \/ (req[q].id = 0 /\ Own(req[q].dev) = {})

\* The claim is written if none was read, over whatever is there by now.  The
\* ids of deleted bundles are used again, so that the row may be another's.
UploadWrite(q) ==
    /\ At(q, "write") /\ Writable(q)
    /\ LET d == req[q].dev IN
       /\ IF req[q].key = None
          THEN claim' = Key[d] /\ raced' = (raced \/ claim # None)
          ELSE UNCHANGED <<claim, raced>>
       /\ bundle' = IF req[q].id = 0 THEN Append(bundle, [dev |-> d, by |-> d])
                                     ELSE [bundle EXCEPT ![req[q].id].by = d]
    /\ Finish(q)
    /\ UNCHANGED <<user, devices, link_code, issued, crossed>>

-----------------------------------------------------------------------------

\* A request fails, or its relay restarts: nothing has been committed.
Fail(q) ==
    /\ ~ At(q, "free")
    /\ Finish(q)
    /\ ReadOnly

\* Mutant: a status of its own.
RemovedStatus == "removed"
Removed == IF AllowReuse THEN "gone" ELSE "deleted"

\* DELETE /api/users: the devices stay; the bundles go only with the row.
Delete ==
    /\ user # "gone"
    /\ user' = Removed
    /\ bundle' = IF AllowReuse THEN <<>> ELSE bundle
    /\ UNCHANGED <<claim, devices, link_code, req, issued, raced, crossed>>

Begin(q, d) == \/ CodeRead(q, d) \/ RecoverRead(q, d) \/ UploadRead(q, d)
               \/ \E p \in Device, c \in 1..issued : LinkRead(q, p, c, d)

Proceed(q) == CodeWrite(q) \/ LinkWrite(q) \/ RecoverWrite(q) \/ BundleRead(q)
                \/ UploadWrite(q) \/ Fail(q)

Next == \/ \E q \in Request : Proceed(q) \/ \E d \in Device : Begin(q, d)
        \/ Delete

Spec == Init /\ [][Next]_vars

-----------------------------------------------------------------------------
(* Properties.                                                             *)

TypeOK ==
    /\ user \in {"active", "deleted", "gone"}
    /\ claim \in Keys \cup {None}
    /\ rows \subseteq Device /\ active \subseteq rows /\ primary \subseteq rows
    /\ linked_by \in [Device -> Device \cup {None}]
    /\ link_code \in [Device -> 0..issued]
    /\ bundle \in Seq([dev : Device, by : Device])
    /\ req \in [Request -> [pc : {"free", "code", "link", "recover", "bundle", "write"},
                            dev : Device \cup {None}, from : Device \cup {None},
                            rows : SUBSET Device, key : Keys \cup {None}, id : Nat]]
    /\ issued \in 0..MaxCodes
    /\ raced \in BOOLEAN /\ crossed \in BOOLEAN

\* Unless two first uploads raced for the claim, senders are handed only keys
\* of the identity that the first upload claimed, whatever id of a deleted
\* bundle was used again - so that a device recovered with another key, which
\* the answer tells to upload its prekeys, never gets any in.
KeyPinned == ~ raced => \A i \in Bundles : Key[bundle[i].by] = claim

\* The Blank ID always has an active primary device, and unless a recovery and
\* another change of its devices ran into each other only one, which every
\* other active device was linked by: what an earlier primary device linked
\* does not outlive a recovery.
OneFamily ==
    /\ primary # {} /\ primary \subseteq active
    /\ ~ crossed => \E p \in Device : /\ primary = {p}
                                      /\ \A d \in active \ {p} : linked_by[d] = p
=============================================================================
