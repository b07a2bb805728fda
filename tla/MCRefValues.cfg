\* The operator acts twice: sets, flags, manifests and hand-written files.
SPECIFICATION Spec
CONSTANTS
    GuestsSeen <- MCGuests
    Documents <- MCDocuments
    Sets <- MCSets
    Flags <- MCFlags
    Manifests <- MCManifests
    PublicKeys = {"key1"}
    NotUTF8 = {"x-ff"}
    MaxActs = 2
    Digests = {"d1"}
    None = none
    EmptyBytes = emptyBytes
    ZeroBytes = zeroBytes
    ShortBytes = shortBytes
INVARIANTS
    WrittenIsEnforced
    RenderedReadsBack
    NoDriftMeansSameAdmissions
    FlatFormIsExact
    ManifestPinsAreTheImage
    OldReadersLoseNothing
