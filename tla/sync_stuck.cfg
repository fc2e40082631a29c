\* Nothing fails but an import that meets its own claim: does the sync end?
SPECIFICATION FairSpec
CONSTANTS
    p1 = p1
    p2 = p2
    None = None
    Peer = {p1, p2}
    PeerChain <- MCPeerChain
    SameClaim <- MCSameClaim
    THIS_RELAY_DOMAIN = me
    SyncLoop = loop
    Join = {}
    Manual = {}
    AUTO_EXIT_JOIN_MODE_ON_SYNC = TRUE
    IS_JOIN_MODE = FALSE
    MaxIndex = 2
    MaxFaults = 0
PROPERTY
    SyncingEnds
