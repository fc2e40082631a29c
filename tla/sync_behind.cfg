\* Nothing fails: is a relay that is not synced behind its peers?
SPECIFICATION Spec
CONSTANTS
    p1 = p1
    p2 = p2
    None = None
    Peer = {p1, p2}
    PeerChain <- MCPeerChain
    SameClaim = {}
    THIS_RELAY_DOMAIN = me
    SyncLoop = loop
    Join = {}
    Manual = {}
    AUTO_EXIT_JOIN_MODE_ON_SYNC = TRUE
    IS_JOIN_MODE = FALSE
    MaxIndex = 2
    MaxFaults = 0
INVARIANT
    NotSyncedMeansBehind
