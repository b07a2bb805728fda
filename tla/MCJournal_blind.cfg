\* A register that cannot be read at some opens, and no append cut short: nothing is
\* extended again.
SPECIFICATION Spec
CONSTANTS
    Digests = {d1, d2, d3}
    Anchor = anchor
    Other = other
    Torn = torn
    None = none
    Faults = {"crash", "extend", "rollback", "unreadable", "foreign"}
    MaxFaults = 4
SYMMETRY DigestSymmetry
CHECK_DEADLOCK FALSE
INVARIANT AtMostOnce
