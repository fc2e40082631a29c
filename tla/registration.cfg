\* Requests race for one Blank ID while the ledger decides their claims and one
\* from elsewhere, with one lock that expires and one crash.
SPECIFICATION Spec
SYMMETRY Symmetry
CONSTANTS
    a1 = a1
    a2 = a2
    a3 = a3
    o1 = o1
    None = None
    Attempt = {a1, a2, a3}
    Other = {o1}
    BlankID <- MCBlankID
    IdOf <- MCIdOf
    Nameless = {a3}
    MaxExpiries = 1
    MaxCrashes = 1
INVARIANTS
    TypeOK
    OneWinner
    RecordsAgree
    LockExclusive
    NoRivalOwner
PROPERTIES
    OwnershipSpec
CHECK_DEADLOCK FALSE
