---------------------------- MODULE LedgerProofs ----------------------------
(***************************************************************************)
(* Proofs about Ledger, for any claims, relays, quorum, peers' blocks and  *)
(* bounds.  Type correctness comes first, then the inductive invariant     *)
(* IInv, then the properties that follow from it.                          *)
(***************************************************************************)
EXTENDS Ledger, TLAPS, FiniteSetTheorems

\* Every action keeps the types.
LEMMA TypeStep ==
    ASSUME TypeOK, [Next]_vars
    PROVE  TypeOK'
<1> USE ClaimAssumption, RelayAssumption, ForeignAssumption, BoundAssumption
<1>1. ASSUME NEW c \in Claim, SubmitCheck(c) \/ RegisterCheck(c)
      PROVE  TypeOK'
  BY <1>1 DEF TypeOK, SubmitCheck, RegisterCheck, durable
<1>2. ASSUME NEW c \in Claim, RegisterPendingCheck(c)
      PROVE  TypeOK'
  BY <1>2 DEF TypeOK, RegisterPendingCheck, durable
<1>3. ASSUME NEW c \in Claim, InsertPending(c)
      PROVE  TypeOK'
  BY <1>3 DEF TypeOK, InsertPending, durable, NewStatus
<1>4. ASSUME NEW c \in Claim, ForwardClaim(c)
      PROVE  TypeOK'
  BY <1>4 DEF TypeOK, ForwardClaim, durable, NewStatus
<1>5. ASSUME NEW i \in VoteIndex, NEW r \in Relay, SubmitVote(i, r)
      PROVE  TypeOK'
  BY <1>5 DEF TypeOK, SubmitVote, durable
<1>6. CASE MarkTaken
  BY <1>6 DEF TypeOK, MarkTaken, durable, roundUnchanged, Taken
<1>7. CASE RoundRead
  <2>1. PICK first \in Claim :
          round' = [pc     |-> IF SameBlank(first) = {first} THEN "propose"
                                                            ELSE "publish",
                    claims |-> SameBlank(first),
                    result |-> IF SameBlank(first) = {first}
                               THEN "committed" ELSE "collision_rejected",
                    index  |-> headIdx + 1,
                    prev   |-> PrevHash,
                    hash   |-> [by |-> THIS_RELAY_DOMAIN, round |-> rounds + 1]]
    BY <1>7 DEF RoundRead
  <2>2. SameBlank(first) \subseteq Claim
    BY DEF SameBlank, Pending
  <2>3. [by |-> THIS_RELAY_DOMAIN, round |-> rounds + 1] \in Hash
    BY DEF TypeOK, Hash
  <2>4. headIdx + 1 \in Nat \ {0} /\ PrevHash \in Hash
    BY DEF TypeOK, PrevHash
  <2>5. round' \in [pc: {"idle", "publish", "propose", "vote", "decide", "rebuild"},
                    claims: SUBSET Claim,
                    result: {"committed", "collision_rejected"},
                    index: Nat \ {0}, prev: Hash, hash: Hash]
    BY <2>1, <2>2, <2>3, <2>4
  <2> QED
    BY <1>7, <2>5 DEF TypeOK, RoundRead, durable, roundUnchanged
<1>8. CASE RoundPublish
  BY <1>8 DEF TypeOK, RoundPublish, GoTo, roundUnchanged, RoundIDs
<1>9. CASE RoundPropose
  BY <1>9 DEF TypeOK, RoundPropose, GoTo, roundUnchanged, Proposed, Proposal
<1>10. CASE RoundVote
  BY <1>10 DEF TypeOK, RoundVote, GoTo, durable, roundUnchanged
<1>11. CASE RoundNoQuorum \/ RoundConflict
  BY <1>11 DEF TypeOK, RoundNoQuorum, RoundConflict, durable, roundUnchanged,
               NoRound, GENESIS, Hash
<1>12. CASE RoundFile
  <2>1. NewBlock \in Block
    BY DEF TypeOK, NewBlock, Block
  <2>2. row' \in [Claim -> {"absent", "pending_consensus", "taken",
                            "collision_rejected", "committed"}]
    BY <1>12 DEF TypeOK, RoundFile, Settled
  <2>3. proposals' \subseteq [hash: Hash, index: Nat \ {0},
                              status: {"proposed", "committed_locally"}]
    BY <1>12 DEF TypeOK, RoundFile, ProposedDone, Proposal
  <2>4. headIdx' \in Nat /\ headHash' \in Hash
    BY <1>12 DEF TypeOK, RoundFile
  <2>5. round' \in [pc: {"idle", "publish", "propose", "vote", "decide", "rebuild"},
                    claims: SUBSET Claim,
                    result: {"committed", "collision_rejected"},
                    index: Nat \ {0}, prev: Hash, hash: Hash]
    BY <1>12 DEF TypeOK, RoundFile, NoRound, IndexStep, GENESIS, Hash
  <2> QED
    BY <1>12, <2>1, <2>2, <2>3, <2>4, <2>5
    DEF TypeOK, RoundFile, roundUnchanged
<1>13. ASSUME Rebuild
       PROVE  owner' \in [BlankID -> Claim \cup {None}]
  <2>1. CommittedClaims \subseteq Claim
    BY DEF TypeOK, CommittedClaims, Block
  <2> QED
    BY <1>13, <2>1 DEF TypeOK, Rebuild, OwnerIndex
<1>14. CASE RoundRebuild
  BY <1>14, <1>13 DEF TypeOK, RoundRebuild, roundUnchanged, NoRound, GENESIS, Hash
<1>15. CASE RoundAbort
  BY <1>15 DEF TypeOK, RoundAbort, durable, NoRound, GENESIS, Hash
<1>16. ASSUME NEW t \in Importer, ImportRead(t)
       PROVE  TypeOK'
  BY <1>16 DEF TypeOK, ImportRead, importUnchanged
<1>17. ASSUME NEW t \in Importer, ImportFile(t)
       PROVE  TypeOK'
  <2>1. importer[t].blk \in ForeignBlock /\ importer[t].blk \in Block
    BY <1>17 DEF TypeOK, ImportFile
  <2>2. importer' \in [Importer -> [pc: {"idle"}, blk: {None}]
                             \cup [pc: {"file", "rebuild"}, blk: ForeignBlock]]
    BY <1>17, <2>1 DEF TypeOK, ImportFile, NoImport
  <2> QED
    BY <1>17, <2>1, <2>2 DEF TypeOK, ImportFile, importUnchanged
<1>18. ASSUME NEW t \in Importer, ImportRebuild(t)
       PROVE  TypeOK'
  BY <1>18, <1>13 DEF TypeOK, ImportRebuild, importUnchanged, NoImport
<1>19. CASE SyncCheck \/ SyncError
  <2>1. isSynced' \in BOOLEAN
    BY <1>19, Zenon DEF SyncCheck, SyncError
  <2>2. UNCHANGED <<row, receivedAt, intake, durable, votes, round, importer,
                    rounds>>
    BY <1>19, Zenon DEF SyncCheck, SyncError
  <2>3. faults' \in Nat
    BY <1>19 DEF TypeOK, SyncCheck, SyncError
  <2> QED
    BY <2>1, <2>2, <2>3 DEF TypeOK, durable
<1>20. CASE Crash
  BY <1>20 DEF TypeOK, Crash, durable, NoRound, NoImport, GENESIS, Hash
<1>21. CASE UNCHANGED vars
  BY <1>21 DEF TypeOK, vars
<1> QED
  BY <1>1, <1>2, <1>3, <1>4, <1>5, <1>6, <1>7, <1>8, <1>9, <1>10, <1>11, <1>12,
     <1>14, <1>15, <1>16, <1>17, <1>18, <1>19, <1>20, <1>21
  DEF Next, Intake, CommitLoop, Import

\* The tables, the head, the commit round and the importing threads keep to
\* the types the code gives them, for every instance.
THEOREM TypeCorrect == Spec => []TypeOK
<1>1. Init => TypeOK
  BY ClaimAssumption, RelayAssumption
  DEF Init, TypeOK, NoRound, NoImport, GENESIS, Hash
<1>2. TypeOK /\ [Next]_vars => TypeOK'
  BY TypeStep
<1> QED
  BY <1>1, <1>2, PTL DEF Spec

-----------------------------------------------------------------------------
(***************************************************************************)
(* The steps of the system as the invariants see them.  Eleven kinds are   *)
(* enough: most actions leave the tables that the invariants relate alone. *)
(***************************************************************************)

\* A row may enter pending_claims, a vote may arrive, a check may run.
Quiet == /\ UNCHANGED <<durable, round, rounds>>
         /\ votes \subseteq votes'
         /\ faults <= faults'
         /\ \/ UNCHANGED row
            \/ \E c \in Claim : /\ row[c] = "absent"
                                /\ row' = [row EXCEPT ![c] = "pending_consensus"]

\* The round ends without a block: no quorum, a conflict, an error, a crash.
RoundEnds == /\ round' = NoRound
             /\ round.pc = "rebuild" => faults < faults'
             /\ faults <= faults'
             /\ UNCHANGED <<row, durable, votes, rounds>>

\* A peer's block enters the ledger.
ForeignFiled ==
    /\ \E b \in ForeignBlock : ~ Conflicts(b) /\ blocks' = blocks \cup {b}
    /\ UNCHANGED <<row, owner, headIdx, headHash, proposals, announced, votes,
                   round, rounds, faults>>

\* An importing thread rebuilds the index.
ForeignRebuild ==
    /\ Rebuild
    /\ UNCHANGED <<row, blocks, headIdx, headHash, proposals, announced, votes,
                   round, rounds, faults>>

\* Row by row, a quiet step does nothing or takes a claim in.
LEMMA QuietRows ==
    ASSUME TypeOK, Quiet, NEW c \in Claim
    PROVE  row'[c] = row[c] \/ (row[c] = "absent" /\ row'[c] = "pending_consensus")
  BY DEF TypeOK, Quiet

LEMMA StepKinds ==
    ASSUME TypeOK, [Next]_vars
    PROVE  \/ Quiet \/ MarkTaken \/ RoundRead \/ RoundPublish \/ RoundPropose
           \/ RoundVote \/ RoundFile \/ RoundRebuild \/ RoundEnds
           \/ ForeignFiled \/ ForeignRebuild
<1> USE ClaimAssumption, RelayAssumption, ForeignAssumption, BoundAssumption
<1>1. ASSUME NEW c \in Claim,
             SubmitCheck(c) \/ RegisterCheck(c) \/ RegisterPendingCheck(c)
      PROVE  Quiet
  BY <1>1 DEF TypeOK, SubmitCheck, RegisterCheck, RegisterPendingCheck, Quiet, durable
<1>2. ASSUME NEW c \in Claim, InsertPending(c) \/ ForwardClaim(c)
      PROVE  Quiet
  BY <1>2 DEF TypeOK, InsertPending, ForwardClaim, Quiet, durable, NewStatus
<1>3. ASSUME NEW i \in VoteIndex, NEW r \in Relay, SubmitVote(i, r)
      PROVE  Quiet
  BY <1>3 DEF TypeOK, SubmitVote, Quiet, durable
<1>4. CASE RoundNoQuorum \/ RoundConflict
  BY <1>4 DEF TypeOK, RoundNoQuorum, RoundConflict, RoundEnds, roundUnchanged
<1>5. CASE RoundAbort \/ Crash
  BY <1>5 DEF TypeOK, RoundAbort, Crash, RoundEnds
<1>6. ASSUME NEW t \in Importer, ImportRead(t)
      PROVE  Quiet
  BY <1>6 DEF TypeOK, ImportRead, importUnchanged, Quiet, durable
<1>7. ASSUME NEW t \in Importer, ImportFile(t)
      PROVE  Quiet \/ ForeignFiled
  <2>1. importer[t].blk \in ForeignBlock
    BY <1>7 DEF TypeOK, ImportFile
  <2> QED
    BY <1>7, <2>1
    DEF TypeOK, ImportFile, importUnchanged, Quiet, ForeignFiled, durable
<1>8. ASSUME NEW t \in Importer, ImportRebuild(t)
      PROVE  ForeignRebuild
  BY <1>8 DEF ImportRebuild, importUnchanged, ForeignRebuild
<1>9. CASE SyncCheck \/ SyncError
  <2>1. UNCHANGED <<row, durable, votes, round, rounds>>
    BY <1>9, Zenon DEF SyncCheck, SyncError
  <2>2. faults <= faults'
    BY <1>9 DEF TypeOK, SyncCheck, SyncError
  <2> QED
    BY <2>1, <2>2 DEF Quiet
<1>10. CASE UNCHANGED vars
  BY <1>10 DEF TypeOK, vars, durable, Quiet
<1> QED
  BY <1>1, <1>2, <1>3, <1>4, <1>5, <1>6, <1>7, <1>8, <1>9, <1>10
  DEF Next, Intake, CommitLoop, Import

-----------------------------------------------------------------------------
(***************************************************************************)
(* The inductive invariant.  The properties lean on what a round under way *)
(* may assume: nobody else moves the head or settles its rows, and its     *)
(* hash is newer than all of the relay's blocks and proposals.             *)
(***************************************************************************)

Active == round.pc \in {"publish", "propose", "vote", "decide"}

RoundInv ==
    Active => /\ round.index = headIdx + 1
              /\ round.prev = headHash
              /\ round.hash = [by |-> THIS_RELAY_DOMAIN, round |-> rounds]
              /\ \A c \in round.claims : row[c] = "pending_consensus"
              /\ \A c, d \in round.claims : BlankOf[c] = BlankOf[d]
              /\ round.result = "committed" => \E c \in Claim : round.claims = {c}
              /\ round.result # "committed" => \E c, d \in round.claims : c # d

ClockInv ==
    /\ \A b \in blocks : Local(b) =>
          b.hash.round <= rounds /\ (Active => b.hash.round < rounds)
    /\ \A p \in proposals :
          /\ p.hash.by = THIS_RELAY_DOMAIN
          /\ p.hash.round <= rounds
          /\ round.pc \in {"publish", "propose"} => p.hash.round < rounds
          /\ round.pc \in {"vote", "decide"} /\ p.hash = round.hash => p = Proposed

\* IndexSound in terms of CommittedClaims.
IndexCommitted ==
    \A b \in BlankID : owner[b] # None =>
        owner[b] \in CommittedClaims /\ BlankOf[owner[b]] = b

\* While the relay is Pristine, the index is current whenever the loop is not
\* between a block and its rebuild, and the ID of a round under way is free.
UniqueInv ==
    Pristine => /\ NoTwoFor(CommittedClaims)
                /\ round.pc # "rebuild" =>
                      \A c \in CommittedClaims : owner[BlankOf[c]] = c
                /\ Active => \A c \in CommittedClaims, d \in round.claims :
                                BlankOf[c] # BlankOf[d]

IInv == /\ TypeOK
        /\ RoundInv
        /\ ClockInv
        /\ LocalChain
        /\ StatusMatchesLedger
        /\ ProposalMatchesBlock
        /\ IndexCommitted
        /\ TakenJustified
        /\ UniqueInv

LEMMA RoundInvStep ==
    ASSUME TypeOK, RoundInv, [Next]_vars
    PROVE  RoundInv'
<1> USE DEF RoundInv, Active
<1>1. CASE Quiet
  BY <1>1 DEF Quiet, durable, TypeOK
<1>2. CASE MarkTaken
  BY <1>2 DEF MarkTaken
<1>3. CASE RoundRead
  <2>1. PICK first \in Claim :
          /\ IsFirst(first)
          /\ round' = [pc     |-> IF SameBlank(first) = {first} THEN "propose"
                                                              ELSE "publish",
                      claims |-> SameBlank(first),
                      result |-> IF SameBlank(first) = {first}
                                 THEN "committed" ELSE "collision_rejected",
                      index  |-> headIdx + 1,
                      prev   |-> PrevHash,
                      hash   |-> [by |-> THIS_RELAY_DOMAIN, round |-> rounds + 1]]
    BY <1>3 DEF RoundRead
  <2>2. UNCHANGED <<row, headIdx, headHash>> /\ rounds' = rounds + 1
    BY <1>3 DEF RoundRead, durable
  <2>3. /\ \A c \in SameBlank(first) : row[c] = "pending_consensus"
        /\ \A c, d \in SameBlank(first) : BlankOf[c] = BlankOf[d]
        /\ first \in SameBlank(first)
    BY <2>1 DEF SameBlank, Pending, IsFirst
  <2>4. SameBlank(first) # {first} => \E c, d \in SameBlank(first) : c # d
    BY <2>3
  <2> QED
    BY <2>1, <2>2, <2>3, <2>4 DEF PrevHash
<1>4. CASE RoundPublish
  BY <1>4 DEF RoundPublish, GoTo, TypeOK
<1>5. CASE RoundPropose
  BY <1>5 DEF RoundPropose, GoTo, TypeOK
<1>6. CASE RoundVote
  BY <1>6 DEF RoundVote, GoTo, TypeOK, durable
<1>7. CASE RoundFile
  BY <1>7 DEF RoundFile, NoRound, IndexStep
<1>8. CASE RoundRebuild
  BY <1>8 DEF RoundRebuild, NoRound
<1>9. CASE RoundEnds
  BY <1>9 DEF RoundEnds, NoRound
<1>10. CASE ForeignFiled
  BY <1>10 DEF ForeignFiled
<1>11. CASE ForeignRebuild
  BY <1>11 DEF ForeignRebuild
<1> QED
  BY <1>1, <1>2, <1>3, <1>4, <1>5, <1>6, <1>7, <1>8, <1>9, <1>10, <1>11, StepKinds

\* The hash of a round is new: RoundRead takes a round number that no block or
\* proposal of the relay has yet.
LEMMA ClockInvStep ==
    ASSUME TypeOK, RoundInv, ClockInv, [Next]_vars
    PROVE  ClockInv'
<1> USE DEF ClockInv, Active
<1>1. CASE Quiet
  BY <1>1 DEF Quiet, durable, Local, Proposed, Proposal
<1>2. CASE MarkTaken
  BY <1>2 DEF MarkTaken, durable, Local
<1>3. CASE RoundRead
  <2>1. UNCHANGED <<blocks, proposals>> /\ rounds' = rounds + 1
    BY <1>3 DEF RoundRead, durable
  <2>2. round'.pc \in {"propose", "publish"}
    BY <1>3 DEF RoundRead
  <2>3. \A b \in blocks : b.hash.round \in Nat
    BY DEF TypeOK, Block, Hash
  <2>4. \A p \in proposals : p.hash.round \in Nat
    BY DEF TypeOK, Hash
  <2> QED
    BY <2>1, <2>2, <2>3, <2>4 DEF Local, TypeOK
<1>4. CASE RoundPublish
  BY <1>4 DEF RoundPublish, GoTo, Local, TypeOK
<1>5. CASE RoundPropose
  <2>1. /\ round.pc = "propose"
        /\ proposals' = proposals \cup {Proposed}
        /\ UNCHANGED <<blocks, rounds>>
        /\ round' = [round EXCEPT !.pc = "vote"]
    BY <1>5 DEF RoundPropose, GoTo
  <2>2. Proposed' = Proposed /\ round'.hash = round.hash
    BY <2>1 DEF Proposed, Proposal, TypeOK
  <2>3. /\ Proposed.hash.by = THIS_RELAY_DOMAIN
        /\ Proposed.hash.round = rounds
    BY <2>1 DEF Proposed, Proposal, RoundInv
  <2>4. \A p \in proposals : p.hash # round.hash
    BY <2>1 DEF RoundInv, TypeOK, Hash
  <2> QED
    BY <2>1, <2>2, <2>3, <2>4 DEF Local, TypeOK
<1>6. CASE RoundVote
  <2>1. /\ round.pc = "vote"
        /\ UNCHANGED <<blocks, proposals, rounds>>
        /\ round' = [round EXCEPT !.pc = "decide"]
    BY <1>6 DEF RoundVote, GoTo, durable
  <2>2. Proposed' = Proposed /\ round'.hash = round.hash
    BY <2>1 DEF Proposed, Proposal, TypeOK
  <2> QED
    BY <2>1, <2>2 DEF Local, TypeOK
<1>7. CASE RoundFile
  <2>1. /\ round.pc = "decide"
        /\ blocks' = blocks \cup {NewBlock}
        /\ proposals' = (proposals \ {Proposed}) \cup {ProposedDone}
        /\ rounds' = rounds
        /\ round'.pc = "rebuild"
    BY <1>7 DEF RoundFile, NoRound, IndexStep, roundUnchanged
  <2>2. /\ NewBlock.hash.round = rounds
        /\ ProposedDone.hash.by = THIS_RELAY_DOMAIN
        /\ ProposedDone.hash.round = rounds
    BY <2>1 DEF NewBlock, ProposedDone, Proposal, RoundInv
  <2> QED
    BY <2>1, <2>2 DEF Local, TypeOK
<1>8. CASE RoundRebuild
  BY <1>8 DEF RoundRebuild, NoRound, Local
<1>9. CASE RoundEnds
  BY <1>9 DEF RoundEnds, NoRound, durable, Local
<1>10. CASE ForeignFiled
  BY <1>10, ForeignAssumption DEF ForeignFiled, Local, Proposed, Proposal
<1>11. CASE ForeignRebuild
  BY <1>11 DEF ForeignRebuild, Local, Proposed, Proposal
<1> QED
  BY <1>1, <1>2, <1>3, <1>4, <1>5, <1>6, <1>7, <1>8, <1>9, <1>10, <1>11, StepKinds

\* Only RoundFile adds a block of this relay, and only it moves the head.
LEMMA LocalChainStep ==
    ASSUME TypeOK, RoundInv, LocalChain, [Next]_vars
    PROVE  LocalChain'
<1> USE DEF LocalChain, OwnBlocks
<1>1. ASSUME NEW h, NEW i, Linked(h, i), blocks \subseteq blocks'
      PROVE  Linked(h, i)'
  BY <1>1 DEF Linked, Local
<1>2. CASE RoundFile
  <2>1. /\ round.pc = "decide"
        /\ blocks' = blocks \cup {NewBlock}
        /\ headIdx' = round.index
        /\ headHash' = round.hash
    BY <1>2 DEF RoundFile
  <2>2. PICK nb : nb = NewBlock
    OBVIOUS
  <2>3. /\ nb.index = headIdx + 1
        /\ nb.hash = round.hash
        /\ nb.prev = headHash
        /\ Local(nb)
        /\ round.index = headIdx + 1
    BY <2>1, <2>2 DEF RoundInv, Active, NewBlock, Local
  <2>4. Linked(headHash, headIdx)'
    BY <2>1, <2>2, <2>3 DEF Linked, Local, TypeOK
  <2>5. Linked(nb.prev, nb.index - 1)
    BY <2>3 DEF TypeOK
  <2>6. Linked(nb.prev, nb.index - 1)'
    BY <2>1, <2>5, <1>1
  <2>7. OwnBlocks' = OwnBlocks \cup {nb}
    BY <2>1, <2>2, <2>3 DEF Local
  <2>8. {b.index : b \in OwnBlocks'} = {b.index : b \in OwnBlocks} \cup {nb.index}
    BY <2>7
  <2>9. 1..headIdx' = (1..headIdx) \cup {nb.index}
    BY <2>1, <2>3 DEF TypeOK
  <2> QED
    BY <2>1, <2>2, <2>4, <2>6, <2>7, <2>8, <2>9, <1>1
<1>3. CASE ForeignFiled
  <2>1. PICK b \in ForeignBlock : blocks' = blocks \cup {b}
    BY <1>3 DEF ForeignFiled
  <2>2. ~ Local(b)
    BY ForeignAssumption DEF Local
  <2>3. OwnBlocks' = OwnBlocks
    BY <2>1, <2>2 DEF Local
  <2> QED
    BY <1>3, <2>1, <2>3, <1>1 DEF ForeignFiled
<1>4. ASSUME UNCHANGED <<blocks, headIdx, headHash>>
      PROVE  LocalChain'
  <2>1. OwnBlocks' = OwnBlocks
    BY <1>4 DEF Local
  <2> QED
    BY <1>4, <2>1, <1>1
<1> QED
  BY <1>2, <1>3, <1>4, StepKinds
  DEF Quiet, MarkTaken, RoundRead, RoundPublish, RoundPropose, RoundVote,
      RoundRebuild, RoundEnds, ForeignRebuild, durable

\* Blocks come and statuses change in the same transaction.
LEMMA StatusStep ==
    ASSUME TypeOK, RoundInv, StatusMatchesLedger, [Next]_vars
    PROVE  StatusMatchesLedger'
<1> USE DEF StatusMatchesLedger
<1>1. CASE Quiet
  <2>1. UNCHANGED blocks
    BY <1>1 DEF Quiet, durable
  <2>2. \A c \in Claim :
           \/ row'[c] = row[c]
           \/ row[c] = "absent" /\ row'[c] = "pending_consensus"
    BY <1>1, QuietRows
  <2> QED
    BY <2>1, <2>2 DEF Local
<1>2. CASE MarkTaken
  <2>1. PICK first \in Claim : /\ row[first] = "pending_consensus"
                               /\ row' = [row EXCEPT ![first] = "taken"]
    BY <1>2 DEF MarkTaken, IsFirst, Pending, Taken
  <2>2. blocks' = blocks
    BY <1>2 DEF MarkTaken, durable
  <2> QED
    BY <2>1, <2>2 DEF TypeOK, Local
<1>3. CASE RoundFile
  <2>1. /\ round.pc = "decide"
        /\ blocks' = blocks \cup {NewBlock}
        /\ row' = [c \in Claim |-> IF c \in round.claims THEN round.result ELSE row[c]]
    BY <1>3 DEF RoundFile, Settled
  <2>2. /\ Local(NewBlock)
        /\ NewBlock.claims = round.claims
        /\ NewBlock.result = round.result
        /\ \A c \in round.claims : row[c] = "pending_consensus"
    BY <2>1 DEF RoundInv, Active, NewBlock, Local
  <2> SUFFICES ASSUME NEW c \in Claim, NEW s \in {"committed", "collision_rejected"}
               PROVE  row'[c] = s <=>
                        \E b \in blocks' : Local(b) /\ b.result = s /\ c \in b.claims
    BY DEF Local
  <2>3. CASE c \in round.claims
    BY <2>1, <2>2, <2>3
  <2>4. CASE c \notin round.claims
    BY <2>1, <2>2, <2>4
  <2> QED
    BY <2>3, <2>4
<1>4. CASE ForeignFiled
  BY <1>4, ForeignAssumption DEF ForeignFiled, Local
<1>5. ASSUME UNCHANGED <<row, blocks>>
      PROVE  StatusMatchesLedger'
  BY <1>5 DEF Local
<1> QED
  BY <1>1, <1>2, <1>3, <1>4, <1>5, StepKinds
  DEF RoundRead, RoundPublish, RoundPropose, RoundVote, RoundRebuild, RoundEnds,
      ForeignRebuild, durable

\* A round's block and its proposal's new status come in one transaction, and
\* the round's hash belongs to no earlier proposal.
LEMMA ProposalStep ==
    ASSUME TypeOK, RoundInv, ClockInv, ProposalMatchesBlock, [Next]_vars
    PROVE  ProposalMatchesBlock'
<1> USE DEF ProposalMatchesBlock
<1>1. CASE RoundPropose
  <2>1. /\ round.pc = "propose"
        /\ proposals' = proposals \cup {Proposed}
        /\ blocks' = blocks
    BY <1>1 DEF RoundPropose
  <2>2. /\ Proposed.status = "proposed"
        /\ Proposed.hash = round.hash
        /\ round.hash.by = THIS_RELAY_DOMAIN
        /\ round.hash.round = rounds
    BY <2>1 DEF Proposed, Proposal, RoundInv, Active
  <2>3. \A b \in blocks : b.hash # Proposed.hash
    BY <2>1, <2>2 DEF ClockInv, Active, Local, TypeOK
  <2> QED
    BY <2>1, <2>2, <2>3
<1>2. CASE RoundFile
  <2>1. /\ round.pc = "decide"
        /\ blocks' = blocks \cup {NewBlock}
        /\ proposals' = (proposals \ {Proposed}) \cup {ProposedDone}
        /\ NewBlock.hash = round.hash
        /\ ProposedDone.hash = round.hash
        /\ ProposedDone.status = "committed_locally"
    BY <1>2 DEF RoundFile, NewBlock, ProposedDone, Proposal
  <2>2. \A p \in proposals : p.hash = round.hash => p = Proposed
    BY <2>1 DEF ClockInv
  <2> QED
    BY <2>1, <2>2
<1>3. CASE ForeignFiled
  BY <1>3, ForeignAssumption DEF ForeignFiled, ClockInv
<1>4. ASSUME UNCHANGED <<proposals, blocks>>
      PROVE  ProposalMatchesBlock'
  BY <1>4
<1> QED
  BY <1>1, <1>2, <1>3, <1>4, StepKinds
  DEF Quiet, MarkTaken, RoundRead, RoundPublish, RoundVote, RoundRebuild,
      RoundEnds, ForeignRebuild, durable

-----------------------------------------------------------------------------
(***************************************************************************)
(* The ownership index.                                                    *)
(***************************************************************************)

LEMMA CommittedAreClaims ==
    ASSUME TypeOK
    PROVE  /\ CommittedClaims \subseteq Claim
           /\ None \notin CommittedClaims
  BY ClaimAssumption DEF TypeOK, CommittedClaims, Block

\* Blocks are only added, so committed claims stay committed.
LEMMA BlocksGrow ==
    ASSUME TypeOK, [Next]_vars
    PROVE  blocks \subseteq blocks' /\ CommittedClaims \subseteq CommittedClaims'
<1>1. blocks \subseteq blocks'
  BY StepKinds
  DEF Quiet, MarkTaken, RoundRead, RoundPublish, RoundPropose, RoundVote, RoundFile,
      RoundRebuild, RoundEnds, ForeignFiled, ForeignRebuild, durable
<1> QED
  BY <1>1 DEF CommittedClaims

\* The rows that rebuild_ownership_index writes.
LEMMA OwnerIndexRows ==
    ASSUME NEW S, NEW b \in BlankID
    PROVE  /\ OwnerIndex(S)[b] # None =>
                OwnerIndex(S)[b] \in S /\ BlankOf[OwnerIndex(S)[b]] = b
           /\ (\E c \in S : BlankOf[c] = b) =>
                OwnerIndex(S)[b] \in S /\ BlankOf[OwnerIndex(S)[b]] = b
<1>1. CASE \E c \in S : BlankOf[c] = b
  <2>1. OwnerIndex(S)[b] = CHOOSE c \in S : BlankOf[c] = b
    BY <1>1 DEF OwnerIndex
  <2> QED
    BY <1>1, <2>1
<1>2. CASE ~ \E c \in S : BlankOf[c] = b
  BY <1>2 DEF OwnerIndex
<1> QED
  BY <1>1, <1>2

\* A rebuild keeps every owner there is, names committed claims only, and is
\* complete unless two committed claims want one Blank ID.
LEMMA RebuildKeepsOwners ==
    ASSUME TypeOK, IndexCommitted, Rebuild
    PROVE  /\ owner' \in [BlankID -> CommittedClaims \cup {None}]
           /\ \A b \in BlankID :
                /\ owner[b] # None => owner'[b] = owner[b]
                /\ owner'[b] # None => BlankOf[owner'[b]] = b
           /\ NoTwoFor(CommittedClaims) =>
                \A c \in CommittedClaims : owner'[BlankOf[c]] = c
<1>1. CASE ~ NoTwoFor(CommittedClaims)
  BY <1>1 DEF Rebuild, IndexCommitted, TypeOK
<1>2. CASE NoTwoFor(CommittedClaims)
  <2> DEFINE S == CommittedClaims
  <2>1. owner' = OwnerIndex(S)
    BY <1>2 DEF Rebuild
  <2>2. \A c \in S : c \in Claim /\ BlankOf[c] \in BlankID
    BY CommittedAreClaims, ClaimAssumption
  <2>3. \A c \in S, d \in S : BlankOf[c] = BlankOf[d] => c = d
    BY <1>2 DEF NoTwoFor
  <2> HIDE DEF S
  <2>4. \A b \in BlankID : owner'[b] # None =>
           owner'[b] \in S /\ BlankOf[owner'[b]] = b
    BY <2>1, OwnerIndexRows
  <2>5. owner' \in [BlankID -> S \cup {None}]
    <3>1. owner' = [b \in BlankID |-> OwnerIndex(S)[b]]
      BY <2>1 DEF OwnerIndex
    <3> QED
      BY <2>1, <2>4, <3>1
  <2>6. \A c \in S : owner'[BlankOf[c]] = c
    <3> TAKE c \in S
    <3>1. /\ owner'[BlankOf[c]] \in S
          /\ BlankOf[owner'[BlankOf[c]]] = BlankOf[c]
      BY <2>1, <2>2, OwnerIndexRows
    <3> QED
      BY <2>3, <3>1
  <2>7. ASSUME NEW b \in BlankID, owner[b] # None
        PROVE  owner'[b] = owner[b]
    <3>1. owner[b] \in S /\ BlankOf[owner[b]] = b
      BY <2>7 DEF IndexCommitted, S
    <3> QED
      BY <2>6, <3>1
  <2> QED
    BY <1>2, <2>4, <2>5, <2>6, <2>7 DEF S
<1> QED
  BY <1>1, <1>2

\* Every step leaves the index alone or rebuilds it.
LEMMA OwnerSteps ==
    ASSUME TypeOK, [Next]_vars
    PROVE  \/ UNCHANGED owner
           \/ Rebuild /\ UNCHANGED <<row, blocks>>
  BY StepKinds
  DEF Quiet, MarkTaken, RoundRead, RoundPublish, RoundPropose, RoundVote, RoundFile,
      RoundRebuild, RoundEnds, ForeignFiled, ForeignRebuild, durable

LEMMA IndexCommittedStep ==
    ASSUME TypeOK, IndexCommitted, [Next]_vars
    PROVE  IndexCommitted'
<1>1. CASE UNCHANGED owner
  BY <1>1, BlocksGrow DEF IndexCommitted
<1>2. CASE Rebuild /\ UNCHANGED <<row, blocks>>
  <2>1. CommittedClaims' = CommittedClaims
    BY <1>2 DEF CommittedClaims
  <2> QED
    BY <1>2, <2>1, RebuildKeepsOwners DEF IndexCommitted
<1> QED
  BY <1>1, <1>2, OwnerSteps

\* An owner stays, so what made a row "taken" stays; a row is made "taken" only
\* on finding its Blank ID owned, and a claim that owns it while its row is
\* pending was filed by a peer.
LEMMA TakenStep ==
    ASSUME TypeOK, RoundInv, StatusMatchesLedger, IndexCommitted, TakenJustified,
           [Next]_vars
    PROVE  TakenJustified'
<1>1. \A b \in BlankID : owner[b] # None => owner'[b] = owner[b]
  BY OwnerSteps, RebuildKeepsOwners
<1>2. blocks \subseteq blocks'
  BY BlocksGrow
<1>3. ASSUME NEW c \in Claim, row'[c] = "taken", row[c] # "taken"
      PROVE  /\ owner[BlankOf[c]] # None
             /\ owner[BlankOf[c]] = c => \E b \in blocks : ~ Local(b) /\ c \in b.claims
  <2>1. MarkTaken
    <3>1. ~ RoundFile
      BY <1>3 DEF RoundFile, Settled, TypeOK
    <3>2. ~ Quiet
      BY <1>3, QuietRows
    <3> QED
      BY <1>3, <3>1, <3>2, StepKinds
      DEF RoundRead, RoundPublish, RoundPropose, RoundVote, RoundRebuild, RoundEnds,
          ForeignFiled, ForeignRebuild
  <2>2. PICK first \in Claim : /\ row[first] = "pending_consensus"
                               /\ owner[BlankOf[first]] # None
                               /\ row' = [row EXCEPT ![first] = "taken"]
    BY <2>1 DEF MarkTaken, IsFirst, Pending, Taken, Free
  <2>3. c = first
    BY <1>3, <2>2 DEF TypeOK
  <2>4. ASSUME owner[BlankOf[c]] = c
        PROVE  \E b \in blocks : ~ Local(b) /\ c \in b.claims
    <3>1. c \in CommittedClaims
      BY <2>4, <2>2, <2>3, ClaimAssumption DEF IndexCommitted
    <3>2. PICK b \in blocks : b.result = "committed" /\ c \in b.claims
      BY <3>1 DEF CommittedClaims
    <3>3. row[c] # "committed"
      BY <2>2, <2>3
    <3>4. ~ Local(b)
      BY <3>2, <3>3 DEF StatusMatchesLedger
    <3> QED
      BY <3>2, <3>4
  <2> QED
    BY <2>2, <2>3, <2>4
<1>4. ASSUME NEW c \in Claim, row'[c] = "taken"
      PROVE  /\ owner[BlankOf[c]] # None
             /\ owner[BlankOf[c]] = c => \E b \in blocks : ~ Local(b) /\ c \in b.claims
  BY <1>3, <1>4 DEF TakenJustified
<1> QED
  BY <1>1, <1>2, <1>4, ClaimAssumption DEF TakenJustified, Local

\* While the relay is Pristine its loop reads a current index: the only writer
\* of blocks is the loop itself, and it rebuilds before it reads again.
LEMMA UniqueInvStep ==
    ASSUME TypeOK, RoundInv, IndexCommitted, UniqueInv, [Next]_vars
    PROVE  UniqueInv'
<1> SUFFICES ASSUME Pristine'
             PROVE  /\ NoTwoFor(CommittedClaims')
                    /\ round'.pc # "rebuild" =>
                          \A c \in CommittedClaims' : owner'[BlankOf[c]] = c
                    /\ Active' => \A c \in CommittedClaims', d \in round'.claims :
                                    BlankOf[c] # BlankOf[d]
  BY DEF UniqueInv, NoTwoFor
<1>1. faults <= faults' /\ blocks \subseteq blocks'
  BY StepKinds, BlocksGrow
  DEF Quiet, MarkTaken, RoundRead, RoundPublish, RoundPropose, RoundVote, RoundFile,
      RoundRebuild, RoundEnds, ForeignFiled, ForeignRebuild, roundUnchanged, TypeOK
<1>2. Pristine
  BY <1>1 DEF Pristine, Local, TypeOK
<1>3. /\ NoTwoFor(CommittedClaims)
      /\ round.pc # "rebuild" => \A c \in CommittedClaims : owner[BlankOf[c]] = c
      /\ Active => \A c \in CommittedClaims, d \in round.claims :
                      BlankOf[c] # BlankOf[d]
  BY <1>2 DEF UniqueInv
<1> DEFINE Goal ==
      /\ NoTwoFor(CommittedClaims')
      /\ round'.pc # "rebuild" => \A c \in CommittedClaims' : owner'[BlankOf[c]] = c
      /\ Active' => \A c \in CommittedClaims', d \in round'.claims :
                      BlankOf[c] # BlankOf[d]
<1>4. ASSUME UNCHANGED blocks
      PROVE  CommittedClaims' = CommittedClaims
  BY <1>4 DEF CommittedClaims
<1>5. CASE Quiet \/ MarkTaken
  <2>1. UNCHANGED <<blocks, owner, round>>
    BY <1>5 DEF Quiet, MarkTaken, durable
  <2> QED
    BY <2>1, <1>3, <1>4 DEF Active
<1>6. CASE RoundRead
  <2>1. PICK first \in Claim :
          /\ owner[BlankOf[first]] = None
          /\ round'.claims = SameBlank(first)
          /\ round'.pc \in {"propose", "publish"}
    BY <1>6 DEF RoundRead, Free
  <2>2. UNCHANGED <<blocks, owner>> /\ round.pc = "idle"
    BY <1>6 DEF RoundRead, durable
  <2>3. \A c \in CommittedClaims : BlankOf[c] # BlankOf[first]
    BY <1>3, <2>1, <2>2, CommittedAreClaims
  <2>4. \A d \in SameBlank(first) : BlankOf[d] = BlankOf[first]
    BY DEF SameBlank
  <2> QED
    BY <1>3, <1>4, <2>1, <2>2, <2>3, <2>4
<1>7. CASE RoundPublish \/ RoundPropose \/ RoundVote
  <2>1. /\ UNCHANGED <<blocks, owner>>
        /\ Active
        /\ round'.claims = round.claims
        /\ round'.pc # "rebuild"
    BY <1>7
    DEF RoundPublish, RoundPropose, RoundVote, GoTo, durable, Active, TypeOK
  <2> QED
    BY <1>3, <1>4, <2>1 DEF Active
<1>8. CASE RoundFile
  <2>1. /\ round.pc = "decide"
        /\ blocks' = blocks \cup {NewBlock}
        /\ owner' = owner
        /\ round'.pc = "rebuild"
    BY <1>8 DEF RoundFile, NoRound, IndexStep
  <2>2. /\ CommittedClaims' \subseteq CommittedClaims \cup round.claims
        /\ round.result # "committed" => CommittedClaims' = CommittedClaims
    BY <2>1 DEF CommittedClaims, NewBlock
  <2>3. round.result = "committed" => \E c \in Claim : round.claims = {c}
    BY <2>1 DEF RoundInv, Active
  <2>4. \A c \in CommittedClaims, d \in round.claims : BlankOf[c] # BlankOf[d]
    BY <1>3, <2>1 DEF Active
  <2>5. NoTwoFor(CommittedClaims')
    BY <1>3, <2>2, <2>3, <2>4 DEF NoTwoFor
  <2> QED
    BY <2>1, <2>5 DEF Active
<1>9. CASE RoundRebuild \/ ForeignRebuild
  <2>1. /\ Rebuild
        /\ UNCHANGED blocks
        /\ round' = round \/ round' = NoRound
    BY <1>9 DEF RoundRebuild, ForeignRebuild
  <2>2. \A c \in CommittedClaims : owner'[BlankOf[c]] = c
    BY <1>3, <2>1, RebuildKeepsOwners
  <2> QED
    BY <1>3, <1>4, <2>1, <2>2 DEF Active, NoRound
<1>10. CASE RoundEnds
  <2>1. /\ round' = NoRound
        /\ UNCHANGED <<blocks, owner>>
        /\ round.pc # "rebuild"
    BY <1>10, <1>2 DEF RoundEnds, durable, Pristine, TypeOK
  <2> QED
    BY <1>3, <1>4, <2>1 DEF Active, NoRound
<1>11. CASE ForeignFiled
  <2>1. PICK b \in ForeignBlock : b \in blocks'
    BY <1>11 DEF ForeignFiled
  <2> QED
    BY <2>1, ForeignAssumption DEF Pristine, Local
<1> QED
  BY <1>5, <1>6, <1>7, <1>8, <1>9, <1>10, <1>11, StepKinds

-----------------------------------------------------------------------------
(***************************************************************************)
(* The theorems.                                                           *)
(***************************************************************************)

LEMMA Invariance == Spec => []IInv
<1>1. Init => IInv
  <2> SUFFICES ASSUME Init
               PROVE  IInv
    OBVIOUS
  <2>1. TypeOK
    BY ClaimAssumption, RelayAssumption DEF Init, TypeOK, NoRound, NoImport, GENESIS, Hash
  <2>2. CommittedClaims = {}
    BY DEF Init, CommittedClaims
  <2>3. LocalChain
    BY DEF Init, LocalChain, Linked, OwnBlocks
  <2> QED
    BY <2>1, <2>2, <2>3, ClaimAssumption
    DEF Init, IInv, RoundInv, ClockInv, Active, NoRound,
        StatusMatchesLedger, ProposalMatchesBlock, IndexCommitted, TakenJustified,
        UniqueInv, NoTwoFor
<1>2. TypeOK /\ IInv /\ [Next]_vars /\ TypeOK' => IInv'
  BY RoundInvStep, ClockInvStep, LocalChainStep, StatusStep, ProposalStep,
     IndexCommittedStep, TakenStep, UniqueInvStep
  DEF IInv
<1> QED
  BY <1>1, <1>2, TypeCorrect, PTL DEF Spec

\* The recorded head and the relay's own blocks form one chain from GENESIS.
THEOREM ChainTheorem == Spec => []LocalChain
  BY Invariance, PTL DEF IInv

\* A claim's status and the ledger never disagree about this relay's blocks.
THEOREM StatusTheorem == Spec => []StatusMatchesLedger
  BY Invariance, PTL DEF IInv

\* A proposal is marked exactly when its block is filed.
THEOREM ProposalTheorem == Spec => []ProposalMatchesBlock
  BY Invariance, PTL DEF IInv

\* The index names only claims committed for the Blank ID they own.
THEOREM IndexTheorem == Spec => []IndexSound
<1>1. IInv => IndexSound
  BY DEF IInv, IndexCommitted, IndexSound, CommittedClaims
<1> QED
  BY <1>1, Invariance, PTL

\* A claim is refused as "taken" only when its Blank ID is owned.
THEOREM TakenTheorem == Spec => []TakenJustified
  BY Invariance, PTL DEF IInv

\* Without failures and without imported blocks no Blank ID is committed twice.
THEOREM UniqueTheorem == Spec => []NoDoubleCommit
<1>1. IInv => NoDoubleCommit
  BY DEF IInv, UniqueInv, NoDoubleCommit
<1> QED
  BY <1>1, Invariance, PTL

\* Once a peer's block sits above the head, the relay never files again.
THEOREM WedgeTheorem == Spec => WedgedForever
<1>1. ASSUME IInv, [Next]_vars
      PROVE  [Wedged => UNCHANGED headIdx /\ Wedged']_vars
  <2> SUFFICES ASSUME Wedged
               PROVE  UNCHANGED headIdx /\ Wedged'
    OBVIOUS
  <2>1. ~ RoundFile
    <3> SUFFICES ASSUME RoundFile
                 PROVE  FALSE
      OBVIOUS
    <3>1. NewBlock.index = headIdx + 1 /\ ~ Conflicts(NewBlock)
      BY <1>1 DEF RoundFile, IInv, RoundInv, Active, NewBlock
    <3> QED
      BY <3>1 DEF Conflicts, Wedged
  <2>2. UNCHANGED headIdx
    BY <1>1, <2>1, StepKinds
    DEF IInv, Quiet, MarkTaken, RoundRead, RoundPublish, RoundPropose, RoundVote,
        RoundRebuild, RoundEnds, ForeignFiled, ForeignRebuild, durable
  <2>3. blocks \subseteq blocks'
    BY <1>1, BlocksGrow DEF IInv
  <2> QED
    BY <2>2, <2>3 DEF Wedged
<1> QED
  BY <1>1, Invariance, PTL DEF Spec, WedgedForever

\* Votes are never withdrawn, so a block keeps the quorum it was filed with.
THEOREM QuorumTheorem == Spec => []QuorumBacked
<1>1. Init => QuorumBacked
  BY DEF Init, QuorumBacked
<1>2. TypeOK /\ QuorumBacked /\ [Next]_vars => QuorumBacked'
  <2> SUFFICES ASSUME TypeOK, QuorumBacked, [Next]_vars
               PROVE  QuorumBacked'
    OBVIOUS
  <2>1. votes \subseteq votes'
    BY StepKinds
    DEF Quiet, MarkTaken, RoundRead, RoundPublish, RoundPropose, RoundVote,
        RoundFile, RoundRebuild, RoundEnds, ForeignFiled, ForeignRebuild
  <2>2. ASSUME NEW i, Cardinality(Voters(i)) >= QUORUM_SIZE
        PROVE  Cardinality(Voters(i)') >= QUORUM_SIZE
    <3>1. Voters(i) \subseteq Voters(i)' /\ Voters(i)' \subseteq Relay
      BY <2>1 DEF Voters
    <3>2. /\ IsFiniteSet(Voters(i)')
          /\ IsFiniteSet(Voters(i))
      BY <3>1, RelayAssumption, FS_Subset
    <3>3. Cardinality(Voters(i)) <= Cardinality(Voters(i)')
      BY <3>1, <3>2, FS_Subset
    <3>4. Cardinality(Voters(i)) \in Nat /\ Cardinality(Voters(i)') \in Nat
      BY <3>2, FS_CardinalityType
    <3> QED
      BY <2>2, <3>3, <3>4, RelayAssumption
  <2>3. ASSUME NEW b \in blocks', Local(b)
        PROVE  b \in blocks \/ Cardinality(Voters(b.index)) >= QUORUM_SIZE
    BY <2>3, StepKinds, ForeignAssumption
    DEF Quiet, MarkTaken, RoundRead, RoundPublish, RoundPropose, RoundVote,
        RoundFile, RoundRebuild, RoundEnds, ForeignFiled, ForeignRebuild, durable,
        NewBlock, Local, VoteCount
  <2> QED
    BY <2>2, <2>3 DEF QuorumBacked, Local
<1> QED
  BY <1>1, <1>2, TypeCorrect, PTL DEF Spec

\* Seen as OwnershipMap sees it, a step of this relay is a claim that is queued,
\* refused or decided, a block from a peer, a rebuild, or nothing.
LEMMA OwnershipStep ==
    ASSUME IInv, [Next]_vars
    PROVE  [Ownership!Next]_Ownership!vars
<1> USE DEF Ownership!Next, Ownership!vars, Ownership!Waiting
<1>1. TypeOK /\ RoundInv /\ IndexCommitted /\ CommittedClaims \subseteq Claim
  BY CommittedAreClaims DEF IInv
<1>2. ASSUME UNCHANGED blocks
      PROVE  UNCHANGED CommittedClaims
  BY <1>2 DEF CommittedClaims
<1>3. CASE UNCHANGED <<row, blocks, owner>>
  BY <1>2, <1>3
<1>4. CASE Quiet
  <2>1. CASE UNCHANGED row
    BY <1>3, <1>4, <2>1 DEF Quiet, durable
  <2>2. CASE row' # row
    <3>1. PICK c \in Claim : row[c] = "absent" /\ row' = [row EXCEPT ![c] = "pending_consensus"]
      BY <1>4, <2>2 DEF Quiet
    <3> QED
      BY <1>2, <1>4, <3>1 DEF Quiet, durable, Ownership!Queue
  <2> QED
    BY <2>1, <2>2
<1>5. CASE MarkTaken
  <2>1. PICK c \in Claim : /\ row[c] = "pending_consensus"
                           /\ owner[BlankOf[c]] # None
                           /\ row' = [row EXCEPT ![c] = "taken"]
    BY <1>5 DEF MarkTaken, IsFirst, Pending, Free, Taken
  <2>2. Ownership!Refuse(c)
    BY <1>2, <1>5, <2>1 DEF MarkTaken, durable, Ownership!Refuse
  <2> QED
    BY <2>2
<1>6. CASE RoundFile
  <2> DEFINE S == round.claims
  <2>1. /\ blocks' = blocks \cup {NewBlock}
        /\ row' = [c \in Claim |-> IF c \in S THEN round.result ELSE row[c]]
        /\ UNCHANGED owner
        /\ S \subseteq Claim
        /\ round.result \in {"committed", "collision_rejected"}
    BY <1>1, <1>6 DEF RoundFile, Settled, TypeOK
  <2>2. /\ \A c \in S : row[c] = "pending_consensus"
        /\ \A c, d \in S : BlankOf[c] = BlankOf[d]
        /\ round.result = "committed" => \E c \in Claim : S = {c}
        /\ round.result # "committed" => \E c, d \in S : c # d
    BY <1>1, <1>6 DEF RoundFile, RoundInv, Active
  <2>3. /\ NewBlock.claims = S
        /\ NewBlock.result = round.result
    BY DEF NewBlock
  <2>4. CASE round.result = "committed"
    <3>1. PICK c \in Claim : S = {c}
      BY <2>2, <2>4
    <3>2. CommittedClaims' = CommittedClaims \cup {c}
      BY <2>1, <2>3, <2>4, <3>1 DEF CommittedClaims
    <3>3. row' = [row EXCEPT ![c] = "committed"]
      BY <1>1, <2>1, <2>4, <3>1 DEF TypeOK
    <3> QED
      BY <2>1, <2>2, <3>1, <3>2, <3>3 DEF Ownership!Commit
  <2>5. CASE round.result # "committed"
    <3>1. CommittedClaims' = CommittedClaims
      BY <2>1, <2>3, <2>5 DEF CommittedClaims
    <3>2. Ownership!Collide(S)
      BY <2>1, <2>2, <2>5, <3>1 DEF Ownership!Collide
    <3> QED
      BY <2>1, <3>2
  <2> QED
    BY <2>4, <2>5
<1>7. CASE ForeignFiled
  <2>1. PICK b \in ForeignBlock : blocks' = blocks \cup {b}
    BY <1>7 DEF ForeignFiled
  <2> DEFINE S == IF b.result = "committed" THEN b.claims ELSE {}
  <2>2. S \subseteq Claim
    BY ForeignAssumption DEF Block
  <2>3. CommittedClaims' = CommittedClaims \cup S
    BY <2>1 DEF CommittedClaims
  <2>4. Ownership!Import(S)
    BY <1>7, <2>3 DEF ForeignFiled, Ownership!Import
  <2> QED
    BY <2>2, <2>4
<1>8. CASE RoundRebuild \/ ForeignRebuild
  <2>1. Rebuild /\ UNCHANGED <<row, blocks>>
    BY <1>8 DEF RoundRebuild, ForeignRebuild
  <2>2. Ownership!Publish
    BY <1>1, <1>2, <2>1, RebuildKeepsOwners DEF Ownership!Publish
  <2> QED
    BY <2>2
<1> QED
  BY <1>1, <1>3, <1>4, <1>5, <1>6, <1>7, <1>8, StepKinds
  DEF RoundRead, RoundPublish, RoundPropose, RoundVote, RoundEnds, durable

\* Ledger implements OwnershipMap: a claim is decided once and for a reason, and
\* an owned Blank ID keeps its owner for ever.
THEOREM Refinement == Spec => OwnershipSpec
<1>1. Init => Ownership!Init
  BY DEF Init, Ownership!Init, CommittedClaims
<1>2. IInv /\ [Next]_vars => [Ownership!Next]_Ownership!vars
  BY OwnershipStep
<1> QED
  BY <1>1, <1>2, Invariance, PTL DEF Spec, OwnershipSpec, Ownership!Spec

\* And so it inherits what follows from OwnershipMap: an owner is for ever, and
\* so is the decision on a claim.
Map == INSTANCE OwnershipMapProofs WITH status <- row, filed <- CommittedClaims

THEOREM DecisionsLast == Spec => Map!OwnerStays /\ Map!DecidedStays
<1>1. OwnershipSpec => Map!Spec
  <2>1. Ownership!Init => Map!Init
    BY DEF Ownership!Init, Map!Init
  <2>2. [Ownership!Next]_(Ownership!vars) => [Map!Next]_(Map!vars)
    BY DEF Ownership!Next, Ownership!vars, Ownership!Queue, Ownership!Refuse, Ownership!Commit,
           Ownership!Collide, Ownership!Import, Ownership!Publish, Ownership!Waiting,
           Map!Next, Map!vars, Map!Queue, Map!Refuse, Map!Commit, Map!Collide, Map!Import,
           Map!Publish, Map!Waiting
  <2> QED
    BY <2>1, <2>2, PTL DEF OwnershipSpec, Ownership!Spec, Map!Spec
<1>2. Map!Spec => Map!OwnerStays /\ Map!DecidedStays
  BY ClaimAssumption, Map!OwnerForEver, Map!DecidedForEver
<1> QED
  BY <1>1, <1>2, Refinement
=============================================================================
