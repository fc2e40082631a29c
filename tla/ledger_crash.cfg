\* As ledger_standalone, asking whether an ID can be committed twice.
SPECIFICATION Spec
CONSTANTS
    c1 = c1
    c2 = c2
    c3 = c3
    me = me
    peer = peer
    None = None
    Claim = {c1, c2}
    BlankID <- MCBlankID
    BlankOf <- MCBlankOf
    Relay = {me}
    THIS_RELAY_DOMAIN = me
    QUORUM_SIZE = 1
    ForeignBlock = {}
    Importer = {}
    Stamp = {1}
    VoteIndex = {}
    MaxRounds = 2
    MaxFaults = 1
INVARIANT
    CommittedOnce
