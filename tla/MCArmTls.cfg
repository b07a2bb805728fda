\* Two processes that share a cache directory, with every failure of disk,
\* network and machine; and certificates of every kind.
SPECIFICATION Spec
CONSTANTS
    Procs = {"p1", "p2"}
    URLs <- MCURLs
    Chips = {"c1"}
    Faults = {"fetch", "proxy", "disk", "crash", "power"}
    None = none
    Zero = zero
    Requests <- MCRequests
INVARIANTS
    HandedIsAnswer
    AcceptedBindsKey
    AcceptedMeetsPolicy
    RevokedNotAccepted
    HonestIsAccepted
    ListIsDelivered
