------------------------- MODULE OwnershipMapProofs -------------------------
(***************************************************************************)
(* What follows from OwnershipMap alone, and so holds of every system that *)
(* implements it, for any claims and Blank IDs.                            *)
(***************************************************************************)
EXTENDS OwnershipMap, TLAPS

Decided == {"taken", "collision_rejected", "committed"}

\* Every status has its reason on record, and so does every owner.
MapInv ==
    /\ status \in [Claim -> {"absent", "pending_consensus"} \cup Decided]
    /\ owner \in [BlankID -> filed \cup {None}]
    /\ \A b \in BlankID : owner[b] # None => BlankOf[owner[b]] = b
    /\ \A c \in Claim : status[c] = "taken" => owner[BlankOf[c]] # None
    /\ \A c \in Claim : status[c] = "committed" => c \in filed

LEMMA MapInvStep ==
    ASSUME BlankOf \in [Claim -> BlankID], MapInv, [Next]_vars
    PROVE  MapInv'
<1> USE DEF MapInv, Decided
<1>1. ASSUME NEW c \in Claim, Queue(c)
      PROVE  MapInv'
  BY <1>1 DEF Queue
<1>2. ASSUME NEW c \in Claim, Refuse(c)
      PROVE  MapInv'
  BY <1>2 DEF Refuse
<1>3. ASSUME NEW c \in Claim, Commit(c)
      PROVE  MapInv'
  BY <1>3 DEF Commit
<1>4. ASSUME NEW S \in SUBSET Claim, Collide(S)
      PROVE  MapInv'
  <2>1. \A c \in Claim : status'[c] \in {status[c], "collision_rejected"}
    BY <1>4 DEF Collide
  <2>2. status' \in [Claim -> {"absent", "pending_consensus"} \cup Decided]
    BY <1>4 DEF Collide
  <2> QED
    BY <1>4, <2>1, <2>2 DEF Collide
<1>5. ASSUME NEW S \in SUBSET Claim, Import(S)
      PROVE  MapInv'
  BY <1>5 DEF Import
<1>6. CASE Publish
  BY <1>6 DEF Publish
<1>7. CASE UNCHANGED vars
  BY <1>7 DEF vars
<1> QED
  BY <1>1, <1>2, <1>3, <1>4, <1>5, <1>6, <1>7 DEF Next

\* A taken claim has lost to an owner, a committed one is filed, and an owner is
\* filed for the very ID it owns.
THEOREM MapInvariance ==
    ASSUME BlankOf \in [Claim -> BlankID]
    PROVE  Spec => []MapInv
<1>1. Init => MapInv
  BY DEF Init, MapInv
<1>2. MapInv /\ [Next]_vars => MapInv'
  BY MapInvStep
<1> QED
  BY <1>1, <1>2, PTL DEF Spec

\* An owned Blank ID keeps its owner for ever.
OwnerStays == [][\A b \in BlankID : owner[b] # None => owner'[b] = owner[b]]_vars

THEOREM OwnerForEver == Spec => OwnerStays
<1>1. [Next]_vars => [\A b \in BlankID : owner[b] # None => owner'[b] = owner[b]]_vars
  BY DEF Next, vars, Queue, Refuse, Collide, Commit, Import, Publish
<1> QED
  BY <1>1, PTL DEF Spec, OwnerStays

\* A claim is decided once: no later step changes its status.
DecidedStays == [][\A c \in Claim : status[c] \in Decided => status'[c] = status[c]]_vars

LEMMA DecidedStep ==
    ASSUME MapInv, [Next]_vars, NEW c \in Claim, status[c] \in Decided
    PROVE  status'[c] = status[c]
<1> USE DEF MapInv, Decided, Waiting
<1>1. ASSUME NEW d \in Claim, Queue(d) \/ Refuse(d) \/ Commit(d)
      PROVE  status'[c] = status[c]
  BY <1>1 DEF Queue, Refuse, Commit
<1>2. ASSUME NEW S \in SUBSET Claim, Collide(S)
      PROVE  status'[c] = status[c]
  <2>1. c \notin S
    BY <1>2 DEF Collide
  <2> QED
    BY <1>2, <2>1 DEF Collide
<1> QED
  BY <1>1, <1>2 DEF Next, vars, Import, Publish

THEOREM DecidedForEver ==
    ASSUME BlankOf \in [Claim -> BlankID]
    PROVE  Spec => DecidedStays
<1>1. MapInv /\ [Next]_vars =>
        [\A c \in Claim : status[c] \in Decided => status'[c] = status[c]]_vars
  BY DecidedStep
<1> QED
  BY <1>1, MapInvariance, PTL DEF Spec, DecidedStays
=============================================================================
