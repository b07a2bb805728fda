\* A register that cannot be read once, at open.
SPECIFICATION Spec
CONSTANTS
    Digests = {d1, d2}
    Anchor = anchor
    Other = other
    Torn = torn
    None = none
    Faults = {"crash", "unreadable"}
    MaxFaults = 2

INVARIANT AckedIsMeasured
