\* Two guests of the same image that extend, reboot and quote, and a sender who
\* mixes their evidence with each other's and with its own.
SPECIFICATION Spec
CONSTANTS
    Guests = {"g1", "g2"}
    Machine <- MCMachine
    PCRs = {0, 1}
    InitPCR = 1
    Width <- MCWidth
    Selections <- MCSelections
    Measurements = {"a"}
    Nonces <- MCNonces
    Forged <- MCForged
    Params <- MCParams
    Wrong = wrong
    None = none
    MaxExtends = 1
    MaxQuotes = 2
INVARIANTS
    MatchedNonceIsTheGuests
    PublishedPCRsWereHeld
    MatchedInitDataWasMeasured
    HonestEvidenceAccepted
