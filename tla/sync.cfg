\* The sync loop and a join at once, with peers whose ledgers differ and two
\* failures.
SPECIFICATION FairSpec
CONSTANTS
    p1 = p1
    p2 = p2
    None = None
    Peer = {p1, p2}
    PeerChain <- MCPeerChain
    SameClaim <- MCSameClaim
    THIS_RELAY_DOMAIN = me
    SyncLoop = loop
    Join = {join}
    Manual = {}
    AUTO_EXIT_JOIN_MODE_ON_SYNC = TRUE
    IS_JOIN_MODE = FALSE
    MaxIndex = 2
    MaxFaults = 2
INVARIANTS
    TypeOK
    NoGap
    SlotReturned
PROPERTIES
    BlocksGenuine
    SyncFlagClears
