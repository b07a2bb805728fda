\* Image pins of every kind against guests of every platform and claimed lists;
\* flat measurement, register and PCR pins, and the verdict fields.
SPECIFICATION Spec
CONSTANTS
    Digests = {"d1", "d2"}
    None = none
    EmptyBytes = "emptyfile"
    ZeroBytes = "zerobytes"
    Paravisor = "paravisor"
    PCRValues = {"p1", "p2"}
    Exchanges <- MCExchanges
INVARIANTS
    AcceptedIsPinnedImage
    AcceptedPCRsAreTrue
    AcceptedMeetsFlatPins
    AcceptedIsFresh
    ConformingGuestAccepted
