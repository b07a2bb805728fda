\* PCR pins in a policy for guests with and without a vTPM quote.
SPECIFICATION Spec
CONSTANTS
    Digests = {"d1", "d2"}
    None = none
    EmptyBytes = "emptyfile"
    ZeroBytes = "zerobytes"
    Paravisor = "paravisor"
    PCRValues = {"p1", "p2"}
    Exchanges <- MCFlatExchanges
INVARIANT MixedFleetKeepsWorking
