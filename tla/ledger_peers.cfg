\* A relay with a peer, quorum 2: votes arrive, blocks are imported by two
\* threads beside the commit loop.
SPECIFICATION Spec
CONSTANTS
    c1 = c1
    c2 = c2
    c3 = c3
    me = me
    peer = peer
    None = None
    Claim = {c1, c2}
    BlankID <- MCBlankID
    BlankOf <- MCBlankOf
    Relay = {me, peer}
    THIS_RELAY_DOMAIN = me
    QUORUM_SIZE = 2
    ForeignBlock <- MCForeignBlock
    Importer = {1, 2}
    Stamp = {1}
    VoteIndex = {1}
    MaxRounds = 2
    MaxFaults = 1
INVARIANTS
    TakenJustified
    QuorumBacked
    ProposalMatchesBlock
PROPERTIES
    OwnershipSpec
    WedgedForever
