------------------------- MODULE RegistrationProofs -------------------------
(***************************************************************************)
(* Proofs about Registration, for any requests, Blank IDs and bounds.      *)
(***************************************************************************)
EXTENDS Registration, TLAPS

\* Every action keeps the types.
LEMMA TypeStep ==
    ASSUME TypeOK, [Next]_vars
    PROVE  TypeOK'
<1> USE AttemptAssumption, BoundAssumption DEF TypeOK, ledgerVars, bounds, GoTo, PCs,
        rowVars, Delete, OldEnough, elsewhere, Claim
<1>1. ASSUME NEW a \in Attempt, Refuse(a) \/ Start(a) \/ ReadReservation(a) \/ ReadAge(a)
      PROVE  TypeOK'
  BY <1>1 DEF Refuse, Start, ReadReservation, ReadAge
<1>2. ASSUME NEW a \in Attempt, DropReservation(a) \/ Lock(a) \/ Lookup(a)
      PROVE  TypeOK'
  BY <1>2 DEF DropReservation, Lock, Lookup, LockStatus
<1>3. ASSUME NEW a \in Attempt, ReadPending(a) \/ Enqueue(a) \/ CheckUser(a)
      PROVE  TypeOK'
  BY <1>3 DEF ReadPending, Enqueue, CheckUser
<1>4. ASSUME NEW a \in Attempt, CreateUser(a) \/ CreateDevice(a)
      PROVE  TypeOK'
  BY <1>4 DEF CreateUser, CreateDevice
<1>5. ASSUME NEW a \in Attempt, Complete(a) \/ Publish(a) \/ Cleanup(a)
      PROVE  TypeOK'
  BY <1>5 DEF Complete, Publish, Cleanup
<1>6. ASSUME NEW b \in BlankID, RoundRefuse(b) \/ RoundRead(b)
      PROVE  TypeOK'
  BY <1>6 DEF RoundRefuse, RoundRead, Pending
<1>7. CASE RoundFile \/ RoundDrop \/ Rebuild
  BY <1>7 DEF RoundFile, RoundDrop, Rebuild, Settle, Indexed, Committed
<1>8. ASSUME NEW b \in BlankID, Expire(b)
      PROVE  TypeOK'
  BY <1>8 DEF Expire
<1>9. CASE Crash
  BY <1>9 DEF Crash
<1>10. ASSUME NEW c \in Claim, (c \in Other /\ QueueOther(c)) \/ ImportClaim(c)
       PROVE  TypeOK'
  BY <1>10 DEF QueueOther, ImportClaim
<1>11. CASE UNCHANGED vars
  BY <1>11 DEF vars
<1> QED
  BY <1>1, <1>2, <1>3, <1>4, <1>5, <1>6, <1>7, <1>8, <1>9, <1>10, <1>11
  DEF Next, Handler, Claim

\* The tables and the handlers keep to the values the code writes.
THEOREM RegistrationTypes == Spec => []TypeOK
<1>1. Init => TypeOK
  BY BoundAssumption DEF Init, TypeOK, PCs
<1>2. TypeOK /\ [Next]_vars => TypeOK'
  BY TypeStep
<1> QED
  BY <1>1, <1>2, PTL DEF Spec

-----------------------------------------------------------------------------
(***************************************************************************)
(* Without any assumption on the reservation: what users.blank_id being    *)
(* UNIQUE and the order of the handler's steps give.                       *)
(***************************************************************************)

UserInv ==
    /\ \A a \in Attempt :
         /\ Created(a) => user[IdOf[a]] = a
         /\ pc[a] \in {"complete", "publish", "done"} => a \in device
         /\ pc[a] \in {"check", "create"} => HasRow(IdOf[a])
    /\ RecordsAgree

LEMMA UserInvStep ==
    ASSUME TypeOK, UserInv, [Next]_vars
    PROVE  UserInv'
<1> USE AttemptAssumption DEF TypeOK, UserInv, Created, RecordsAgree, HasClaim,
        HasRow, ledgerVars, bounds, GoTo, PCs, rowVars, Delete, elsewhere, Claim
<1>1. ASSUME NEW a \in Attempt, Refuse(a) \/ Start(a) \/ ReadReservation(a) \/ ReadAge(a)
      PROVE  UserInv'
  BY <1>1 DEF Refuse, Start, ReadReservation, ReadAge
<1>2. ASSUME NEW a \in Attempt, DropReservation(a) \/ Lock(a) \/ Lookup(a)
      PROVE  UserInv'
  BY <1>2 DEF DropReservation, Lock, Lookup, LockStatus
<1>3. ASSUME NEW a \in Attempt, ReadPending(a) \/ Enqueue(a) \/ CheckUser(a)
      PROVE  UserInv'
  BY <1>3 DEF ReadPending, Enqueue, CheckUser
<1>4. ASSUME NEW a \in Attempt, CreateUser(a) \/ CreateDevice(a)
      PROVE  UserInv'
  BY <1>4 DEF CreateUser, CreateDevice, NameFree
<1>5. ASSUME NEW a \in Attempt, Complete(a) \/ Publish(a) \/ Cleanup(a)
      PROVE  UserInv'
  BY <1>5 DEF Complete, Publish, Cleanup
<1>6. ASSUME NEW b \in BlankID, RoundRefuse(b) \/ RoundRead(b)
      PROVE  UserInv'
  BY <1>6 DEF RoundRefuse, RoundRead, Pending
<1>7. CASE RoundFile \/ RoundDrop \/ Rebuild
  BY <1>7 DEF RoundFile, RoundDrop, Rebuild, Settle
<1>8. ASSUME NEW b \in BlankID, Expire(b)
      PROVE  UserInv'
  BY <1>8 DEF Expire
<1>9. CASE Crash
  BY <1>9 DEF Crash
<1>10. ASSUME NEW c \in Claim, QueueOther(c) \/ ImportClaim(c)
       PROVE  UserInv'
  BY <1>10 DEF QueueOther, ImportClaim
<1>11. CASE UNCHANGED vars
  BY <1>11 DEF vars
<1> QED
  BY <1>1, <1>2, <1>3, <1>4, <1>5, <1>6, <1>7, <1>8, <1>9, <1>10, <1>11
  DEF Next, Handler, Claim

LEMMA UserInvariance == Spec => []UserInv
<1>1. Init => UserInv
  BY AttemptAssumption
  DEF Init, UserInv, Created, RecordsAgree
<1>2. TypeOK /\ UserInv /\ [Next]_vars => UserInv'
  BY UserInvStep
<1> QED
  BY <1>1, <1>2, RegistrationTypes, PTL DEF Spec

\* At most one request registers a Blank ID, and its user and device are there.
THEOREM OneWinnerTheorem == Spec => []OneWinner
<1>1. UserInv => OneWinner
  BY DEF UserInv, OneWinner, Created
<1> QED
  BY <1>1, UserInvariance, PTL

\* No user without a claim for its Blank ID, and no completed reservation
\* without its user and device.
THEOREM RecordsTheorem == Spec => []RecordsAgree
  BY UserInvariance, PTL DEF UserInv

-----------------------------------------------------------------------------
(***************************************************************************)
(* What the commit loop has read: until it files its block, nobody else    *)
(* settles the claims it has chosen.                                       *)
(***************************************************************************)

RoundInv ==
    /\ chosen = {} <=> loop # "file"
    /\ \A c \in chosen : claim[c] = "pending_consensus"
    /\ \A c, d \in chosen : IdOf[c] = IdOf[d]

LEMMA RoundInvStep ==
    ASSUME TypeOK, RoundInv, [Next]_vars
    PROVE  RoundInv'
<1> USE DEF TypeOK, RoundInv, ledgerVars, elsewhere, Claim
<1>1. ASSUME NEW a \in Attempt, Handler(a)
      PROVE  RoundInv'
  BY <1>1 DEF Handler, Refuse, Start, ReadReservation, ReadAge, DropReservation, Lock, Lookup,
              ReadPending, Enqueue, CheckUser, CreateUser, CreateDevice, Complete, Publish,
              Cleanup
<1>2. ASSUME NEW b \in BlankID, RoundRefuse(b) \/ RoundRead(b)
      PROVE  RoundInv'
  BY <1>2 DEF RoundRefuse, RoundRead, Pending
<1>3. CASE RoundFile \/ RoundDrop \/ Rebuild
  BY <1>3 DEF RoundFile, RoundDrop, Rebuild
<1>4. ASSUME NEW c \in Claim, QueueOther(c) \/ ImportClaim(c)
      PROVE  RoundInv'
  BY <1>4 DEF QueueOther, ImportClaim
<1>5. ASSUME NEW b \in BlankID, Expire(b)
      PROVE  RoundInv'
  BY <1>5 DEF Expire
<1>6. CASE Crash \/ UNCHANGED vars
  BY <1>6 DEF Crash, vars
<1> QED
  BY <1>1, <1>2, <1>3, <1>4, <1>5, <1>6 DEF Next

LEMMA RoundInvariance == Spec => []RoundInv
<1>1. Init => RoundInv
  BY DEF Init, RoundInv
<1>2. TypeOK /\ RoundInv /\ [Next]_vars => RoundInv'
  BY RoundInvStep
<1> QED
  BY <1>1, <1>2, RegistrationTypes, PTL DEF Spec

-----------------------------------------------------------------------------
(***************************************************************************)
(* What the reservation gives while nothing disturbs it: once a request    *)
(* has had the lock it leaves traces (a claim, a user), and while there is *)
(* such a request the reservation's row is there to refuse every other.    *)
(***************************************************************************)

Had(a) == Holds(a) \/ claim[a] # "absent" \/ user[IdOf[a]] = a

BeforeClaim == {"idle", "reserve", "age", "drop", "lock", "lookup", "pending", "enqueue"}

LockInv ==
    /\ \A a \in Attempt : pc[a] \in BeforeClaim => claim[a] = "absent"
    /\ \A a \in Attempt : claim[a] = "absent" => a \notin imported
    /\ expiries = 0 => aged = {}
    /\ expiries = 0 => \A a \in Attempt : pc[a] # "drop"
    /\ \A b \in BlankID : owner[b] # None => owner[b] \in Committed(b)
    /\ \A b \in BlankID : user[b] # None => IdOf[user[b]] = b
    /\ \A a \in Attempt : Undisturbed(IdOf[a]) /\ Had(a) => reserved[IdOf[a]] # "none"
    /\ \A a, c \in Attempt :
          Undisturbed(IdOf[a]) /\ IdOf[a] = IdOf[c] /\ Had(a) /\ Had(c) => a = c

LEMMA LockInvStep ==
    ASSUME TypeOK, RoundInv, LockInv, [Next]_vars
    PROVE  LockInv'
<1> USE AttemptAssumption, BoundAssumption
        DEF TypeOK, LockInv, Had, Holds, Undisturbed, ledgerVars, bounds, GoTo, PCs,
            rowVars, Delete, OldEnough, Committed, BeforeClaim, elsewhere, Claim
<1>1. ASSUME NEW a \in Attempt, Refuse(a) \/ Start(a)
      PROVE  LockInv'
  BY <1>1 DEF Refuse, Start
<1>2. ASSUME NEW a \in Attempt, ReadReservation(a) \/ ReadAge(a)
      PROVE  LockInv'
  BY <1>2 DEF ReadReservation, ReadAge
<1>3. ASSUME NEW a \in Attempt, DropReservation(a)
      PROVE  LockInv'
  BY <1>3 DEF DropReservation
<1>4. ASSUME NEW a \in Attempt, Lock(a)
      PROVE  LockInv'
  BY <1>4 DEF Lock, LockStatus
<1>5. ASSUME NEW a \in Attempt, Lookup(a) \/ ReadPending(a) \/ CheckUser(a)
      PROVE  LockInv'
  BY <1>5 DEF Lookup, ReadPending, CheckUser
<1>6. ASSUME NEW a \in Attempt, Enqueue(a)
      PROVE  LockInv'
  BY <1>6 DEF Enqueue
<1>7. ASSUME NEW a \in Attempt, CreateUser(a)
      PROVE  LockInv'
  BY <1>7 DEF CreateUser
<1>8. ASSUME NEW a \in Attempt, CreateDevice(a) \/ Publish(a)
      PROVE  LockInv'
  BY <1>8 DEF CreateDevice, Publish
<1>9. ASSUME NEW a \in Attempt, Complete(a)
      PROVE  LockInv'
  BY <1>9 DEF Complete
<1>10. ASSUME NEW a \in Attempt, Cleanup(a)
       PROVE  LockInv'
  BY <1>10 DEF Cleanup
<1>11. ASSUME NEW b \in BlankID, RoundRefuse(b) \/ RoundRead(b)
       PROVE  LockInv'
  BY <1>11 DEF RoundRefuse, RoundRead, Pending
<1>12. CASE RoundFile \/ RoundDrop
  BY <1>12 DEF RoundFile, RoundDrop, Settle, RoundInv
<1>16. CASE Rebuild
  BY <1>16 DEF Rebuild, Indexed
<1>17. ASSUME NEW c \in Claim, (c \in Other /\ QueueOther(c)) \/ ImportClaim(c)
       PROVE  LockInv'
  BY <1>17 DEF QueueOther, ImportClaim
<1>13. ASSUME NEW b \in BlankID, Expire(b)
       PROVE  LockInv'
  BY <1>13 DEF Expire
<1>14. CASE Crash
  BY <1>14 DEF Crash
<1>15. CASE UNCHANGED vars
  BY <1>15 DEF vars
<1> QED
  BY <1>1, <1>2, <1>3, <1>4, <1>5, <1>6, <1>7, <1>8, <1>9, <1>10, <1>11, <1>12,
     <1>13, <1>14, <1>15, <1>16, <1>17
  DEF Next, Handler, Claim

LEMMA LockInvariance == Spec => []LockInv
<1>1. Init => LockInv
  BY AttemptAssumption DEF Init, LockInv, Had, Holds, Claim
<1>2. TypeOK /\ RoundInv /\ LockInv /\ [Next]_vars => LockInv'
  BY LockInvStep
<1> QED
  BY <1>1, <1>2, RegistrationTypes, RoundInvariance, PTL DEF Spec

\* Until a request fails or a lock expires, one request at a time is inside.
THEOREM LockTheorem == Spec => []LockExclusive
<1>1. LockInv => LockExclusive
  BY DEF LockInv, LockExclusive, Had
<1> QED
  BY <1>1, LockInvariance, PTL

\* And until then no other request's claim owns the Blank ID of a user.
THEOREM OwnerTheorem == Spec => []NoRivalOwner
<1>1. TypeOK /\ LockInv => NoRivalOwner
  <2> SUFFICES ASSUME TypeOK, LockInv, NEW b \in BlankID, Undisturbed(b),
                      owner[b] # None, user[b] # None, owner[b] \notin Other
               PROVE  owner[b] = user[b]
    BY DEF NoRivalOwner
  <2>1. owner[b] \in Attempt /\ IdOf[owner[b]] = b /\ Had(owner[b])
    BY DEF TypeOK, LockInv, Had, Committed, Claim
  <2>2. user[b] \in Attempt /\ IdOf[user[b]] = b /\ Had(user[b])
    BY DEF TypeOK, LockInv, Had
  <2> QED
    BY <2>1, <2>2 DEF LockInv
<1> QED
  BY <1>1, LockInvariance, RegistrationTypes, PTL

-----------------------------------------------------------------------------
(***************************************************************************)
(* The ledger as the handlers see it implements OwnershipMap: every step   *)
(* of Registration is a step of it, or leaves claims and owners alone.     *)
(***************************************************************************)

Filed == UNION {Committed(b) : b \in BlankID}

LEMMA FiledClaims ==
    ASSUME TypeOK
    PROVE  Filed = {c \in Claim : claim[c] = "committed"} \cup imported
  BY AttemptAssumption DEF Filed, Committed, TypeOK

LEMMA FiledClaimsNext ==
    ASSUME TypeOK'
    PROVE  Filed' = {c \in Claim : claim'[c] = "committed"} \cup imported'
  BY AttemptAssumption DEF Filed, Committed, TypeOK

\* A handler's steps reach the ledger in one place only, the queue.
LEMMA HandlerStep ==
    ASSUME TypeOK, TypeOK', LockInv, NEW a \in Attempt, Handler(a)
    PROVE  \/ Ownership!Queue(a)
           \/ UNCHANGED <<claim, imported, owner>>
<1>1. CASE Enqueue(a)
  <2>1. claim[a] = "absent" /\ claim' = [claim EXCEPT ![a] = "pending_consensus"]
    BY <1>1 DEF Enqueue, LockInv, BeforeClaim
  <2>2. Filed' = Filed
    BY <1>1, <2>1, FiledClaims, FiledClaimsNext DEF TypeOK, Enqueue
  <2> QED
    BY <1>1, <2>1, <2>2 DEF Enqueue, Ownership!Queue, Filed
<1>2. CASE ~ Enqueue(a)
  BY <1>2 DEF Handler, Refuse, Start, ReadReservation, ReadAge, DropReservation, Lock,
              Lookup, ReadPending, CheckUser, CreateUser, CreateDevice, Complete,
              Publish, Cleanup, ledgerVars
<1> QED
  BY <1>1, <1>2

\* A claim from elsewhere is queued, or comes in a peer's block.
LEMMA OtherStep ==
    ASSUME TypeOK, TypeOK', NEW c \in Claim, QueueOther(c) \/ ImportClaim(c)
    PROVE  Ownership!Next
<1>1. CASE QueueOther(c)
  <2>1. Filed' = Filed
    BY <1>1, FiledClaims, FiledClaimsNext DEF TypeOK, QueueOther
  <2>2. Ownership!Queue(c)
    BY <1>1, <2>1 DEF QueueOther, Ownership!Queue, Filed
  <2> QED
    BY <2>2 DEF Ownership!Next
<1>2. CASE ImportClaim(c)
  <2>1. Filed' = Filed \cup {c}
    BY <1>2, FiledClaims, FiledClaimsNext DEF TypeOK, ImportClaim
  <2>2. Ownership!Import({c})
    BY <1>2, <2>1 DEF ImportClaim, Ownership!Import, Filed
  <2> QED
    BY <2>2 DEF Ownership!Next
<1> QED
  BY <1>1, <1>2

\* A round refuses one claim, files one, or rejects all that it has read.
LEMMA RefuseStep ==
    ASSUME TypeOK, TypeOK', NEW b \in BlankID, RoundRefuse(b)
    PROVE  Ownership!Next
<1> USE DEF TypeOK
<1>1. PICK c \in Pending(b) : claim' = [claim EXCEPT ![c] = "taken"]
  BY DEF RoundRefuse
<1>2. c \in Claim /\ IdOf[c] = b /\ claim[c] = "pending_consensus"
  BY DEF Pending
<1>3. Filed' = Filed
  BY <1>1, <1>2, FiledClaims, FiledClaimsNext DEF RoundRefuse
<1>4. Ownership!Refuse(c)
  BY <1>1, <1>2, <1>3 DEF RoundRefuse, Ownership!Refuse, Ownership!Waiting, Filed
<1> QED
  BY <1>2, <1>4 DEF Ownership!Next

LEMMA FileStep ==
    ASSUME TypeOK, TypeOK', RoundInv, RoundFile
    PROVE  Ownership!Next
<1> USE DEF TypeOK, RoundInv
<1>1. chosen # {} /\ chosen \subseteq Claim /\ imported' = imported /\ owner' = owner
  BY DEF RoundFile
<1>2. CASE Collides
  <2>1. claim' = [c \in Claim |-> IF c \in chosen THEN "collision_rejected" ELSE claim[c]]
    BY <1>2 DEF RoundFile, Settle
  <2>2. Filed' = Filed
    BY <1>1, <2>1, FiledClaims, FiledClaimsNext
  <2>3. Ownership!Collide(chosen)
    BY <1>1, <1>2, <2>1, <2>2 DEF Collides, Ownership!Collide, Ownership!Waiting, Filed
  <2> QED
    BY <1>1, <2>3 DEF Ownership!Next
<1>3. CASE ~ Collides
  <2>1. PICK c \in Claim : chosen = {c}
    BY <1>1, <1>3 DEF Collides
  <2>2. claim' = [claim EXCEPT ![c] = "committed"]
    BY <1>3, <2>1 DEF RoundFile, Settle
  <2>3. Filed' = Filed \cup {c}
    BY <1>1, <2>2, FiledClaims, FiledClaimsNext
  <2>4. Ownership!Commit(c)
    BY <1>1, <2>1, <2>2, <2>3 DEF Ownership!Commit, Ownership!Waiting, Filed
  <2> QED
    BY <2>4 DEF Ownership!Next
<1> QED
  BY <1>2, <1>3

\* The rebuilt index keeps every owner: the claim that owns an ID stays filed,
\* and the rebuild goes through only if no other claim is filed for that ID.
LEMMA RebuildStep ==
    ASSUME TypeOK, TypeOK', LockInv, Rebuild
    PROVE  Ownership!Publish
<1> USE AttemptAssumption
<1> USE DEF TypeOK
<1>1. /\ claim' = claim /\ imported' = imported
      /\ owner' = IF OneEach THEN [b \in BlankID |-> Indexed(b)] ELSE owner
  BY DEF Rebuild
<1>2. Filed' = Filed
  BY <1>1, FiledClaims, FiledClaimsNext
<1>3. \A b \in BlankID : owner[b] # None => owner[b] \in Committed(b)
  BY DEF LockInv
<1>4. ASSUME NEW b \in BlankID
      PROVE  /\ owner'[b] # None => owner'[b] \in Committed(b)
             /\ owner[b] # None => owner'[b] = owner[b]
  <2>1. CASE OneEach
    <3>1. owner'[b] = Indexed(b)
      BY <1>1, <2>1
    <3>2. \A a, c \in Committed(b) : a = c
      BY <2>1 DEF OneEach
    <3>3. Committed(b) # {} => Indexed(b) \in Committed(b)
      BY DEF Indexed
    <3>4. Committed(b) = {} => Indexed(b) = None
      BY DEF Indexed
    <3> QED
      BY <1>3, <3>1, <3>2, <3>3, <3>4
  <2>2. CASE ~ OneEach
    BY <1>1, <1>3, <2>2
  <2> QED
    BY <2>1, <2>2
<1>5. \A b \in BlankID : Committed(b) \subseteq Filed
                         /\ \A a \in Committed(b) : IdOf[a] = b
  BY DEF Filed, Committed
<1>6. owner' \in [BlankID -> Filed \cup {None}]
  BY <1>4, <1>5
<1> QED
  BY <1>1, <1>2, <1>4, <1>5, <1>6 DEF Ownership!Publish, Filed

LEMMA OwnershipStep ==
    ASSUME TypeOK, TypeOK', RoundInv, LockInv, [Next]_vars
    PROVE  [Ownership!Next]_(Ownership!vars)
<1>0. ASSUME UNCHANGED <<claim, imported, owner>>
      PROVE  UNCHANGED Ownership!vars
  BY <1>0, FiledClaims, FiledClaimsNext DEF Ownership!vars, Filed
<1>1. ASSUME NEW a \in Attempt, Handler(a)
      PROVE  [Ownership!Next]_(Ownership!vars)
  <2>1. CASE Ownership!Queue(a)
    BY <2>1 DEF Ownership!Next, Claim
  <2> QED
    BY <1>0, <1>1, <2>1, HandlerStep
<1>2. ASSUME NEW b \in BlankID, RoundRefuse(b)
      PROVE  [Ownership!Next]_(Ownership!vars)
  BY <1>2, RefuseStep
<1>3. CASE RoundFile
  BY <1>3, FileStep
<1>4. CASE Rebuild
  BY <1>4, RebuildStep DEF Ownership!Next
<1>5. ASSUME NEW c \in Claim, QueueOther(c) \/ ImportClaim(c)
      PROVE  [Ownership!Next]_(Ownership!vars)
  BY <1>5, OtherStep
<1>6. CASE \/ \E b \in BlankID : RoundRead(b) \/ Expire(b)
           \/ RoundDrop \/ Crash
           \/ UNCHANGED vars
  BY <1>0, <1>6 DEF RoundRead, Expire, RoundDrop, Crash, vars, ledgerVars
<1> QED
  BY <1>1, <1>2, <1>3, <1>4, <1>5, <1>6 DEF Next, Claim

\* Whatever the requests, the commit loop and the crashes do, claims are decided
\* once and for a reason, and an owned Blank ID keeps its owner.
THEOREM OwnershipTheorem == Spec => OwnershipSpec
<1>1. Init => Ownership!Init
  BY AttemptAssumption DEF Init, Ownership!Init, Committed
<1>2. TypeOK /\ TypeOK' /\ RoundInv /\ LockInv /\ [Next]_vars
        => [Ownership!Next]_(Ownership!vars)
  BY OwnershipStep
<1> QED
  BY <1>1, <1>2, RegistrationTypes, RoundInvariance, LockInvariance, PTL
  DEF Spec, OwnershipSpec, Ownership!Spec

\* And so it inherits what follows from OwnershipMap: an owner is for ever, and
\* so is the decision on a claim.
Map == INSTANCE OwnershipMapProofs WITH
           BlankOf <- IdOf, status <- claim, filed <- Filed

THEOREM DecisionsLast == Spec => Map!OwnerStays /\ Map!DecidedStays
<1> USE DEF Filed
<1>1. OwnershipSpec => Map!Spec
  <2>1. Ownership!Init => Map!Init
    BY DEF Ownership!Init, Map!Init
  <2>2. [Ownership!Next]_(Ownership!vars) => [Map!Next]_(Map!vars)
    BY DEF Ownership!Next, Ownership!vars, Ownership!Queue, Ownership!Refuse, Ownership!Commit,
           Ownership!Collide, Ownership!Import, Ownership!Publish, Ownership!Waiting,
           Map!Next, Map!vars, Map!Queue, Map!Refuse, Map!Commit, Map!Collide, Map!Import,
           Map!Publish, Map!Waiting
  <2> QED
    BY <2>1, <2>2, PTL DEF OwnershipSpec, Ownership!Spec, Map!Spec
<1>2. Map!Spec => Map!OwnerStays /\ Map!DecidedStays
  BY AttemptAssumption, Map!OwnerForEver, Map!DecidedForEver
<1> QED
  BY <1>1, <1>2, OwnershipTheorem
=============================================================================
