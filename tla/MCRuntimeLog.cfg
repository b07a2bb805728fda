\* Crashes anywhere between two steps, failing extends and a foreign extender
\* (the failures the journal is written to survive), beside an attester.
SPECIFICATION LogSpec
CONSTANTS
    Digests = {d1, d2, d3}
    Anchor = anchor
    Other = other
    Torn = torn
    None = none
    EmptyBytes = emptyfile
    ZeroBytes = zerobytes
    Faults = {"crash", "extend", "foreign"}
    MaxFaults = 3
INVARIANTS
    TypeOK
    DivergedMeansForeign
    FileExplainsRegister
    CoveringListReplays
PROPERTIES
    RecordedIsSettled
    ListAfterQuoteReplays
CHECK_DEADLOCK FALSE
