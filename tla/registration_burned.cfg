\* A registration that fails: is its Blank ID free again?
SPECIFICATION Spec
CONSTANTS
    a1 = a1
    a2 = a2
    a3 = a3
    o1 = o1
    None = None
    Attempt = {a1, a2}
    Other = {}
    BlankID <- MCBlankID
    IdOf <- MCIdOf
    Nameless = {a2}
    MaxExpiries = 0
    MaxCrashes = 0
INVARIANT
    NotBurned
CHECK_DEADLOCK FALSE
