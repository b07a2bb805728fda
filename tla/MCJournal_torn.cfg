\* A crash inside the append, and a later restart.
SPECIFICATION Spec
CONSTANTS
    Digests = {d1, d2}
    Anchor = anchor
    Other = other
    Torn = torn
    None = none
    Faults = {"crash", "torn"}
    MaxFaults = 2

INVARIANT DivergedMeansForeign
