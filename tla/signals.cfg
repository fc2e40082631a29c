SPECIFICATION FairSpec
CONSTANTS
    s1 = s1  s2 = s2  s3 = s3
    Signal = {s1, s2, s3}
    BatchLimit = 2
    max_attempts = 2
    MaxFaults = 1
INVARIANTS TypeOK NotForgotten DuplicatesExplained
PROPERTIES SettledStays RetrySettles
CHECK_DEADLOCK FALSE
