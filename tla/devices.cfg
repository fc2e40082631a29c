SPECIFICATION Spec
CONSTANTS
    d1 = d1  d2 = d2  d3 = d3  k1 = k1  k2 = k2
    Device = {d1, d2, d3}
    First = d1
    Keys = {k1, k2}
    Key <- MCKey
    None = None
    AllowReuse = TRUE
    Request = {q1, q2}
    MaxCodes = 2
INVARIANTS TypeOK KeyPinned OneFamily
CHECK_DEADLOCK FALSE
