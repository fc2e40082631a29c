------------------------------- MODULE Ledger -------------------------------
(***************************************************************************)
(* The identity ledger of one relay: the tables of identity_ledger.db and  *)
(* the threads that write them, one action per database transaction.       *)
(*                                                                         *)
(*  - request handlers take claims in (/ledger/claims/submit, /forward and *)
(*    /api/register), with the checks and the insert as separate steps;    *)
(*  - the commit loop turns pending claims into blocks, one transaction or *)
(*    network call per step;                                               *)
(*  - the sync loop and the admin routes import the blocks of peers;       *)
(*  - the sync checker sets is_synced;                                     *)
(*  - the process may crash, and a database call may fail, between steps.  *)
(*                                                                         *)
(* A claim stands for its client_claim_hash, which is unique, and a block  *)
(* hash for the relay that made it and that relay's round: every round     *)
(* hashes a fresh timestamp.                                               *)
(***************************************************************************)
EXTENDS Naturals, FiniteSets

CONSTANTS
    Claim,              \* the claims, named by client_claim_hash
    BlankID,            \* the Blank IDs
    BlankOf,            \* the Blank ID each claim asks for
    Relay,              \* relay domains
    THIS_RELAY_DOMAIN,  \* the relay modelled
    QUORUM_SIZE,        \* LEDGER_QUORUM_SIZE
    ForeignBlock,       \* the blocks peers may serve
    Importer,           \* the threads that import blocks
    Stamp,              \* received_at values
    VoteIndex,          \* the block indices relays vote on (bounds votes)
    None,               \* no claim, no relay
    MaxRounds,          \* bound on the rounds of the commit loop
    MaxFaults           \* bound on crashes and failed database calls

Hash == [by: Relay \cup {None}, round: Nat]

GENESIS == [by |-> None, round |-> 0]

Block == [index: Nat \ {0}, hash: Hash, prev: Hash,
          result: {"committed", "collision_rejected"}, claims: SUBSET Claim]

ASSUME ClaimAssumption == /\ BlankOf \in [Claim -> BlankID]
                          /\ None \notin Claim \cup Relay

ASSUME RelayAssumption == /\ THIS_RELAY_DOMAIN \in Relay
                          /\ IsFiniteSet(Relay)
                          /\ QUORUM_SIZE \in Nat

\* A peer's block is well formed and carries the peer's name.
ASSUME ForeignAssumption ==
    /\ ForeignBlock \subseteq Block
    /\ \A b \in ForeignBlock : b.hash.by # THIS_RELAY_DOMAIN

ASSUME BoundAssumption == /\ Stamp \subseteq Nat
                          /\ VoteIndex \subseteq Nat \ {0}
                          /\ MaxRounds \in Nat
                          /\ MaxFaults \in Nat

VARIABLES
    row,         \* status of each claim's pending_claims row, or "absent"
    receivedAt,  \* received_at of that row
    intake,      \* how far the handler that holds a claim has come
    blocks,      \* ledger_blocks with their ledger_claims
    owner,       \* ownership_index
    headIdx,     \* consensus_state: current_block_index
    headHash,    \* consensus_state: current_block_hash
    isSynced,    \* consensus_state: is_synced
    votes,       \* ledger_commit_signatures, <<block_index, relay_domain>>
    proposals,   \* ledger_proposals of this relay
    announced,   \* the Blank IDs the commit loop gave the backup registry
    round,       \* local variables of commit_one_round
    importer,    \* local variables of each import_raw_block
    rounds,      \* the clock: rounds started so far
    faults       \* crashes and failed calls so far

durable == <<blocks, owner, headIdx, headHash, proposals, announced>>
vars == <<row, receivedAt, intake, blocks, owner, headIdx, headHash, isSynced,
          votes, proposals, announced, round, importer, rounds, faults>>

-----------------------------------------------------------------------------
(* The tables as the queries see them.                                     *)

Pending == {c \in Claim : row[c] = "pending_consensus"}

LedgerClaims == UNION {b.claims : b \in blocks}

CommittedClaims == UNION {b.claims : b \in {x \in blocks : x.result = "committed"}}

\* Mutants of the owner check: any claim in the ledger counts; no check.
FreeInLedger(c) == \A d \in LedgerClaims : BlankOf[d] # BlankOf[c]
FreeUnread(c) == TRUE
Free(c) == owner[BlankOf[c]] = None

\* Mutant: block_index not UNIQUE.
ConflictsNoIndex(b) == \E x \in blocks : x.hash = b.hash \/ x.claims \cap b.claims # {}

\* The columns UNIQUE in ledger_blocks and ledger_claims refuse the block.
Conflicts(b) == \E x \in blocks : \/ x.index = b.index
                                  \/ x.hash = b.hash
                                  \/ x.claims \cap b.claims # {}

\* rebuild_ownership_index: two committed claims for one Blank ID make the
\* second INSERT fail, and the whole transaction is rolled back; the
\* "existing is None" test does not see the first one (autoflush is off).
OwnerIndex(S) ==
    [b \in BlankID |-> IF \E c \in S : BlankOf[c] = b
                       THEN CHOOSE c \in S : BlankOf[c] = b
                       ELSE None]

NoTwoFor(S) == \A c, d \in S : BlankOf[c] = BlankOf[d] => c = d

\* Mutant: the second INSERT replaces the first.
RebuildLastWins == owner' = OwnerIndex(CommittedClaims)
Rebuild == owner' = IF NoTwoFor(CommittedClaims) THEN OwnerIndex(CommittedClaims)
                                                 ELSE owner

-----------------------------------------------------------------------------
NoRound == [pc |-> "idle", claims |-> {}, result |-> "committed", index |-> 1,
            prev |-> GENESIS, hash |-> GENESIS]
NoImport == [pc |-> "idle", blk |-> None]

Init == /\ row = [c \in Claim |-> "absent"]
        /\ receivedAt = [c \in Claim |-> 0]
        /\ intake = [c \in Claim |-> "none"]
        /\ blocks = {}
        /\ owner = [b \in BlankID |-> None]
        /\ headIdx = 0
        /\ headHash = GENESIS
        /\ isSynced = TRUE
        /\ votes = {}
        /\ proposals = {}
        /\ announced = {}
        /\ round = NoRound
        /\ importer = [t \in Importer |-> NoImport]
        /\ rounds = 0
        /\ faults = 0

-----------------------------------------------------------------------------
(* Request handlers.                                                       *)

\* submit_claim up to the insert.  A request refused because the relay is
\* syncing or in join mode is this step not taken.
SubmitCheck(c) ==
    /\ isSynced
    /\ Free(c)
    /\ row[c] = "absent"
    /\ intake[c] = "none"
    /\ intake' = [intake EXCEPT ![c] = "row_checked"]
    /\ UNCHANGED <<row, receivedAt, durable, isSynced, votes, round, importer,
                   rounds, faults>>

\* register_user reads the index; the network calls that follow take time.
RegisterCheck(c) ==
    /\ Free(c)
    /\ row[c] = "absent"
    /\ intake[c] = "none"
    /\ intake' = [intake EXCEPT ![c] = "owner_checked"]
    /\ UNCHANGED <<row, receivedAt, durable, isSynced, votes, round, importer,
                   rounds, faults>>

\* register_user inserts only if no row, of whatever status, has the Blank ID.
RegisterPendingCheck(c) ==
    /\ intake[c] = "owner_checked"
    /\ intake' = [intake EXCEPT ![c] =
                    IF \E d \in Claim : BlankOf[d] = BlankOf[c] /\ row[d] # "absent"
                    THEN "none" ELSE "row_checked"]
    /\ UNCHANGED <<row, receivedAt, durable, isSynced, votes, round, importer,
                   rounds, faults>>

\* Mutant: another spelling than the commit loop's filter.
NewStatusShort == "pending"
NewStatus == "pending_consensus"

\* client_claim_hash is UNIQUE: an insert that comes second changes nothing.
InsertPending(c) ==
    /\ intake[c] = "row_checked"
    /\ intake' = [intake EXCEPT ![c] = "none"]
    /\ \/ /\ row[c] = "absent"
          /\ row' = [row EXCEPT ![c] = NewStatus]
          /\ \E s \in Stamp : receivedAt' = [receivedAt EXCEPT ![c] = s]
       \/ /\ row[c] # "absent"
          /\ UNCHANGED <<row, receivedAt>>
    /\ UNCHANGED <<durable, isSynced, votes, round, importer, rounds, faults>>

\* forward_claim reads neither is_synced nor the index; received_at is the
\* sender's claimedAt, so the row may enter before older ones.
ForwardClaim(c) ==
    /\ row[c] = "absent"
    /\ row' = [row EXCEPT ![c] = NewStatus]
    /\ \E s \in Stamp : receivedAt' = [receivedAt EXCEPT ![c] = s]
    /\ UNCHANGED <<intake, durable, isSynced, votes, round, importer, rounds,
                   faults>>

\* submit_vote: a vote names a block index and a relay, not a block.
SubmitVote(i, r) ==
    /\ votes' = votes \cup {<<i, r>>}
    /\ UNCHANGED <<row, receivedAt, intake, durable, isSynced, round, importer,
                   rounds, faults>>
-----------------------------------------------------------------------------
(* The commit loop: commit_one_round.                                      *)

roundUnchanged == <<intake, isSynced, importer, faults>>

\* The pending row that the ORDER BY puts first.  Rows with equal received_at
\* come in id order, which is left open.
IsFirst(c) == /\ c \in Pending
              /\ \A d \in Pending : receivedAt[c] <= receivedAt[d]

SameBlank(c) == {d \in Pending : BlankOf[d] = BlankOf[c]}

\* Mutant: the status change never committed.
TakenUnsaved(c) == row
Taken(c) == [row EXCEPT ![c] = "taken"]

\* The first row's Blank ID is owned: the row becomes "taken".
MarkTaken ==
    /\ round.pc = "idle"
    /\ isSynced
    /\ \E first \in Claim : /\ IsFirst(first)
                            /\ ~ Free(first)
                            /\ row' = Taken(first)
    /\ UNCHANGED <<receivedAt, durable, votes, round, rounds, roundUnchanged>>

\* Mutant: the default instead of the recorded hash.
PrevHashDefault == GENESIS
PrevHash == headHash

\* The reads of a round, up to its first write or network call.  Rows that
\* appear after the pending rows were read are not part of the round, and
\* nobody can tell a row inserted between two reads from one inserted after.
RoundRead ==
    /\ round.pc = "idle"
    /\ isSynced
    /\ rounds < MaxRounds
    /\ rounds' = rounds + 1
    /\ \E first \in Claim :
         /\ IsFirst(first)
         /\ Free(first)
         /\ round' = [pc     |-> IF SameBlank(first) = {first} THEN "propose"
                                                              ELSE "publish",
                      claims |-> SameBlank(first),
                      result |-> IF SameBlank(first) = {first}
                                 THEN "committed" ELSE "collision_rejected",
                      index  |-> headIdx + 1,
                      prev   |-> PrevHash,
                      hash   |-> [by |-> THIS_RELAY_DOMAIN, round |-> rounds + 1]]
    /\ UNCHANGED <<row, receivedAt, durable, votes, roundUnchanged>>

GoTo(pc) == round' = [round EXCEPT !.pc = pc]

RoundIDs == {BlankOf[c] : c \in round.claims}

\* Only a collision is announced, and before anything is written; a failed
\* call is ignored.
RoundPublish ==
    /\ round.pc = "publish"
    /\ \/ announced' = announced \cup RoundIDs
       \/ UNCHANGED announced
    /\ GoTo("propose")
    /\ UNCHANGED <<row, receivedAt, blocks, owner, headIdx, headHash, proposals,
                   votes, rounds, roundUnchanged>>

Proposal(status) == [hash |-> round.hash, index |-> round.index, status |-> status]

\* Mutant of Proposed: marked before the quorum is counted.
ProposedDone == Proposal("committed_locally")
Proposed == Proposal("proposed")

RoundPropose ==
    /\ round.pc = "propose"
    /\ proposals' = proposals \cup {Proposed}
    /\ GoTo("vote")
    /\ UNCHANGED <<row, receivedAt, blocks, owner, headIdx, headHash, announced,
                   votes, rounds, roundUnchanged>>

\* ensure_local_vote
RoundVote ==
    /\ round.pc = "vote"
    /\ votes' = votes \cup {<<round.index, THIS_RELAY_DOMAIN>>}
    /\ GoTo("decide")
    /\ UNCHANGED <<row, receivedAt, durable, rounds, roundUnchanged>>

Voters(i) == {r \in Relay : <<i, r>> \in votes}
\* Mutant: the local vote counted twice.
VoteCountPlusOwn(i) == Cardinality(Voters(i)) + 1
VoteCount(i) == Cardinality(Voters(i))

NewBlock == [index |-> round.index, hash |-> round.hash, prev |-> round.prev,
             result |-> round.result, claims |-> round.claims]

\* Too few votes: the round ends; its proposal and its vote stay.
RoundNoQuorum ==
    /\ round.pc = "decide"
    /\ VoteCount(round.index) < QUORUM_SIZE
    /\ round' = NoRound
    /\ UNCHANGED <<row, receivedAt, durable, votes, rounds, roundUnchanged>>

\* A block with this index, or one of these claims, was imported: the
\* transaction fails and commit_loop swallows the exception.
RoundConflict ==
    /\ round.pc = "decide"
    /\ VoteCount(round.index) >= QUORUM_SIZE
    /\ Conflicts(NewBlock)
    /\ round' = NoRound
    /\ UNCHANGED <<row, receivedAt, durable, votes, rounds, roundUnchanged>>

\* Mutant: the rows of a collision left pending.
SettledCommitOnly == [c \in Claim |->
    IF c \in round.claims /\ round.result = "committed" THEN round.result ELSE row[c]]
Settled == [c \in Claim |-> IF c \in round.claims THEN round.result ELSE row[c]]

\* Mutant: the call that rebuilds the index left out.
NoIndexStep == "idle"
IndexStep == "rebuild"

\* Block, ledger claims, row statuses, proposal status and head: one commit.
RoundFile ==
    /\ round.pc = "decide"
    /\ VoteCount(round.index) >= QUORUM_SIZE
    /\ ~ Conflicts(NewBlock)
    /\ blocks' = blocks \cup {NewBlock}
    /\ row' = Settled
    /\ proposals' = (proposals \ {Proposed}) \cup {ProposedDone}
    /\ headIdx' = round.index
    /\ headHash' = round.hash
    /\ round' = [NoRound EXCEPT !.pc = IndexStep]
    /\ UNCHANGED <<receivedAt, owner, announced, votes, rounds, roundUnchanged>>

RoundRebuild ==
    /\ round.pc = "rebuild"
    /\ Rebuild
    /\ round' = NoRound
    /\ UNCHANGED <<row, receivedAt, blocks, headIdx, headHash, proposals,
                   announced, votes, rounds, roundUnchanged>>

\* A database call of the round fails ("database is locked").
RoundAbort ==
    /\ round.pc # "idle"
    /\ faults < MaxFaults
    /\ faults' = faults + 1
    /\ round' = NoRound
    /\ UNCHANGED <<row, receivedAt, intake, durable, isSynced, votes, importer,
                   rounds>>

-----------------------------------------------------------------------------
(* Blocks from peers: import_raw_block, called by sync_missing_blocks_once *)
(* for each block of a peer and by /ledger/blocks/import.                  *)

importUnchanged == <<row, receivedAt, intake, headIdx, headHash, isSynced, votes,
                     proposals, announced, round, rounds>>

\* A block whose index is there already is left alone.
ImportRead(t) ==
    /\ importer[t].pc = "idle"
    /\ \E b \in ForeignBlock :
         /\ \A x \in blocks : x.index # b.index
         /\ importer' = [importer EXCEPT ![t] = [pc |-> "file", blk |-> b]]
    /\ UNCHANGED <<importUnchanged, blocks, owner, faults>>

\* Neither the hash nor the link to the previous block is checked, and the
\* head in consensus_state does not move.
ImportFile(t) ==
    /\ importer[t].pc = "file"
    /\ \/ /\ ~ Conflicts(importer[t].blk)
          /\ blocks' = blocks \cup {importer[t].blk}
          /\ importer' = [importer EXCEPT ![t].pc = "rebuild"]
       \/ /\ Conflicts(importer[t].blk)
          /\ importer' = [importer EXCEPT ![t] = NoImport]
          /\ UNCHANGED blocks
    /\ UNCHANGED <<importUnchanged, owner, faults>>

ImportRebuild(t) ==
    /\ importer[t].pc = "rebuild"
    /\ Rebuild
    /\ importer' = [importer EXCEPT ![t] = NoImport]
    /\ UNCHANGED <<importUnchanged, blocks, faults>>

-----------------------------------------------------------------------------
(* The sync checker, and faults.                                           *)

\* With no peer to answer the relay stays synced; with peers the outcome
\* depends on their heads, which are left open here.
SyncCheck ==
    /\ \/ isSynced' = TRUE
       \/ Relay # {THIS_RELAY_DOMAIN} /\ isSynced' = FALSE
    /\ UNCHANGED <<row, receivedAt, intake, durable, votes, round, importer,
                   rounds, faults>>

\* An exception in the check.
SyncError ==
    /\ faults < MaxFaults
    /\ faults' = faults + 1
    /\ isSynced' = FALSE
    /\ UNCHANGED <<row, receivedAt, intake, durable, votes, round, importer,
                   rounds>>

\* The process dies and is started again: the tables stay, every thread
\* starts anew, and nothing rebuilds the index.
Crash ==
    /\ faults < MaxFaults
    /\ faults' = faults + 1
    /\ round' = NoRound
    /\ importer' = [t \in Importer |-> NoImport]
    /\ intake' = [c \in Claim |-> "none"]
    /\ UNCHANGED <<row, receivedAt, durable, isSynced, votes, rounds>>

-----------------------------------------------------------------------------
Intake == \E c \in Claim : \/ SubmitCheck(c) \/ RegisterCheck(c)
                           \/ RegisterPendingCheck(c) \/ InsertPending(c)
                           \/ ForwardClaim(c)

CommitLoop == \/ MarkTaken \/ RoundRead \/ RoundPublish \/ RoundPropose
              \/ RoundVote \/ RoundNoQuorum \/ RoundConflict \/ RoundFile
              \/ RoundRebuild

Import == \E t \in Importer : ImportRead(t) \/ ImportFile(t) \/ ImportRebuild(t)

Next == \/ Intake
        \/ \E i \in VoteIndex, r \in Relay : SubmitVote(i, r)
        \/ CommitLoop
        \/ RoundAbort
        \/ Import
        \/ SyncCheck
        \/ SyncError
        \/ Crash

Spec == Init /\ [][Next]_vars

\* commit_loop and sync_checker_loop run for ever, each on a thread.
FairSpec == Spec /\ WF_vars(CommitLoop) /\ WF_vars(SyncCheck)
-----------------------------------------------------------------------------
(* Properties.                                                             *)

Local(b) == b.hash.by = THIS_RELAY_DOMAIN

\* Every table and every thread's locals stay in the ranges the models.py
\* columns and the code's own values give them.
TypeOK ==
    /\ row \in [Claim -> {"absent", "pending_consensus", "taken",
                          "collision_rejected", "committed"}]
    /\ receivedAt \in [Claim -> Nat]
    /\ intake \in [Claim -> {"none", "owner_checked", "row_checked"}]
    /\ blocks \subseteq Block
    /\ owner \in [BlankID -> Claim \cup {None}]
    /\ headIdx \in Nat
    /\ headHash \in Hash
    /\ isSynced \in BOOLEAN
    /\ votes \subseteq (Nat \ {0}) \X Relay
    /\ proposals \subseteq [hash: Hash, index: Nat \ {0},
                            status: {"proposed", "committed_locally"}]
    /\ announced \subseteq BlankID
    /\ round \in [pc: {"idle", "publish", "propose", "vote", "decide", "rebuild"},
                  claims: SUBSET Claim,
                  result: {"committed", "collision_rejected"},
                  index: Nat \ {0}, prev: Hash, hash: Hash]
    /\ importer \in [Importer -> [pc: {"idle"}, blk: {None}]
                            \cup [pc: {"file", "rebuild"}, blk: ForeignBlock]]
    /\ rounds \in Nat
    /\ faults \in Nat

\* The head that consensus_state records is this relay's last block, every block
\* it made links to its own block one index below, and its own blocks fill the
\* indices from 1 to the head, whatever was imported in between and wherever a
\* round was cut short.  (BlockSync relies on the last of its peers.)
Linked(h, i) == IF i = 0 THEN h = GENESIS
                ELSE \E x \in blocks : Local(x) /\ x.index = i /\ x.hash = h
OwnBlocks == {b \in blocks : Local(b)}
LocalChain == /\ Linked(headHash, headIdx)
              /\ \A b \in OwnBlocks : Linked(b.prev, b.index - 1)
              /\ {b.index : b \in OwnBlocks} = 1..headIdx

\* What a claim's status says is what the ledger holds: "committed" and
\* "collision_rejected" exactly for the claims of this relay's blocks with that
\* result, and a collision rejects every claim of its block.
StatusMatchesLedger ==
    \A c \in Claim, s \in {"committed", "collision_rejected"} :
        row[c] = s <=> \E b \in blocks : Local(b) /\ b.result = s /\ c \in b.claims

\* "taken" is never said of a claim whose Blank ID nobody owns: the ID has an
\* owner in the index, which is another claim unless a peer's block had filed
\* this very claim before the relay's own round came to it.
TakenJustified ==
    \A c \in Claim : row[c] = "taken" =>
        /\ owner[BlankOf[c]] # None
        /\ \/ owner[BlankOf[c]] # c
           \/ \E b \in blocks : ~ Local(b) /\ c \in b.claims

\* The index names only claims the ledger committed for that very Blank ID, at
\* every moment of the delete-and-refill that concurrent threads run.
\* (Proved in LedgerProofs; runs check the stronger OwnershipSpec.)
IndexSound ==
    \A b \in BlankID : owner[b] # None =>
        /\ \E x \in blocks : x.result = "committed" /\ owner[b] \in x.claims
        /\ BlankOf[owner[b]] = b

\* Every block this relay made had QUORUM_SIZE votes for its index.
QuorumBacked ==
    \A b \in blocks : Local(b) => Cardinality(Voters(b.index)) >= QUORUM_SIZE

\* A proposal is marked committed_locally exactly when its block is filed, so
\* no round that lost its quorum or its index leaves one so marked.
ProposalMatchesBlock ==
    \A p \in proposals :
        p.status = "committed_locally" <=> \E b \in blocks : b.hash = p.hash

\* While nothing failed and no peer's block came in, no Blank ID is committed
\* to two claims: the owner check of a round reads an index that is current.
Pristine == faults = 0 /\ \A b \in blocks : Local(b)
NoDoubleCommit == Pristine => NoTwoFor(CommittedClaims)

\* Once a peer's block sits at the index this relay would file next, its head
\* never moves again: importing does not advance consensus_state, and every
\* round runs into the UNIQUE index.
Wedged == \E b \in blocks : b.index = headIdx + 1
WedgedForever == [][Wedged => UNCHANGED headIdx /\ Wedged']_vars

\* The relay implements the promise of OwnershipMap: a claim is decided once and
\* for a reason, an owned Blank ID never changes hands, and only filed claims own.
Ownership == INSTANCE OwnershipMap WITH status <- row, filed <- CommittedClaims
OwnershipSpec == Ownership!Spec

\* Standing alone, the relay settles every pending claim.
ClaimResolved ==
    \A c \in Claim : (row[c] = "pending_consensus") ~> (row[c] # "pending_consensus")

\* Standing alone, a claim whose status is "committed" becomes its Blank ID's
\* owner in the index, unless something failed.
ClaimIndexed ==
    \A c \in Claim : (row[c] = "committed") ~> (owner[BlankOf[c]] = c \/ faults > 0)

\* What submit_claim tells a client, "Blank ID already committed in ledger",
\* is the whole protection of a committed ID: no ID is committed twice.
CommittedOnce == NoTwoFor(CommittedClaims)
=============================================================================
