\* Every SVN against collateral that changes and is forged between fetches;
\* firmware logs as an attester may cut, reorder and pad them; expected values
\* of every width against the fields of a quote.
SPECIFICATION Spec
CONSTANTS
    Digests = {"e1", "e2"}
    None = none
    Short = short
    Width = 2
    Calls <- MCCalls
    Bodies <- MCBodies
INVARIANTS
    AcceptedTCBHolds
    UpgradeNeverHurts
    VerifiedLogIsBootLog
    AcceptedBindsWholeValue
PROPERTY FirmwareLogVerifies
