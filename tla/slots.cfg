\* Three joining relays, two slots, two losses.
SPECIFICATION Spec
SYMMETRY Symmetry
CONSTANTS
    c1 = c1
    c2 = c2
    c3 = c3
    Client = {c1, c2, c3}
    MAX_SYNC_CLIENTS = 2
    MaxLosses = 2
INVARIANTS
    TypeOK
    CountExact
    NeverOverAdmits
