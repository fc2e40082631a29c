\* One relay without peers, quorum 1: the loop settles what is pending,
\* through one crash or failed database call.
SPECIFICATION FairSpec
CONSTANTS
    c1 = c1
    c2 = c2
    c3 = c3
    me = me
    peer = peer
    None = None
    Claim = {c1, c2, c3}
    BlankID <- MCBlankID
    BlankOf <- MCBlankOf
    Relay = {me}
    THIS_RELAY_DOMAIN = me
    QUORUM_SIZE = 1
    ForeignBlock = {}
    Importer = {}
    Stamp = {1, 2}
    VoteIndex = {}
    MaxRounds = 4
    MaxFaults = 1
INVARIANTS
    TypeOK
    LocalChain
    StatusMatchesLedger
    NoDoubleCommit
PROPERTIES
    ClaimResolved
    ClaimIndexed
