\* Every failure but an unreadable register: short, lost and lingering writes too.
SPECIFICATION Spec
CONSTANTS
    Digests = {d1, d2, d3}
    Anchor = anchor
    Other = other
    Torn = torn
    None = none
    Faults = {"crash", "torn", "record", "extend", "rollback", "foreign"}
    MaxFaults = 4
SYMMETRY DigestSymmetry
CHECK_DEADLOCK FALSE
INVARIANT AckedIsMeasured
PROPERTY ImplementsLog
