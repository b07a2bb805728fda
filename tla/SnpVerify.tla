----------------------------- MODULE SnpVerify -----------------------------
(***************************************************************************)
(* snp.VerifyReportContext: what decides whether an SEV-SNP report is      *)
(* believed (snp/snp.go), as operators on a report, its endorsement        *)
(* certificate and what the caller expects; the steps between which it     *)
(* waits for collateral are those of module ArmTls.                        *)
(*                                                                         *)
(* A report is what is true of it: which key signed it, if one did, on     *)
(* which chip, and the fields it carries.  A certificate says whether AMD  *)
(* issued it, and for which key.  go-sev-guest, which checks signatures    *)
(* and compares fields, is external.  An operator that may fail returns    *)
(* the set of its results, empty on error.                                 *)
(***************************************************************************)
EXTENDS KdsCache, Sequences

CONSTANT Zero       \* a block of zero bytes

MinReportVersion == 3
MaxReportVersion == 5

(* The widths, in blocks, of REPORTDATA and HOSTDATA. *)
DataWidth == 2
HostWidth == 2

Bundled == {"Milan", "Genoa"}       \* the product lines whose roots are built in

NoCert == [issued |-> FALSE, key |-> "none", line |-> "none", chip |-> "none",
           tcb |-> <<0, 0>>]

(* The certificate AMD serves under a URL. *)
Served(url) ==
    [issued |-> TRUE, key |-> url.path, line |-> url.line, chip |-> url.chip, tcb |-> url.tcb]

ASSUME NoneIsNoCertificate == \A url \in URLs : Served(url) # None

(* What a fetched body parses to. *)
Parsed(body) ==
    IF body.url = None \/ body.size # "whole" THEN NoCert ELSE Served(body.url)

-----------------------------------------------------------------------------
(* The line go-sev-guest derives from CPUID; "none" where a version 2      *)
(* report has no CPUID.  It does not know Zen4c.                           *)
reportLine(report) ==
    IF report.cpu \in Bundled \cup {"none"} THEN report.cpu ELSE "Unknown"

(* The line KDS serves a part's collateral under. *)
kdsProductLine(report) ==
    IF reportLine(report) # "Unknown" THEN {reportLine(report)}
    ELSE {"Genoa" : cpu \in {report.cpu} \cap {"Zen4c"}}

(* The URL a report's own fields name, where they do. *)
vcekURL(report) ==
    {[path |-> "vcek", line |-> line, chip |-> report.chip, tcb |-> report.tcb] :
        line \in IF report.cpu = "none" \/ report.chip = "masked" THEN {}
                 ELSE kdsProductLine(report)}

crlURL(line) == [path |-> "crl", line |-> line, chip |-> "none",
                  tcb |-> <<0, 0>>]

(* Which certificate, if any, has to be fetched before verification. *)
MustFetch(report, vcek, getter) ==
    vcek = None /\ report.signer = "vcek" /\ getter # "none"

(* VerifyEvidenceContext: offline, the certificate comes with the report. *)
AdmitsEvidence(vcek, getter) == vcek # None \/ getter # "none"

(* The head of VerifyReportContext. *)
AdmitsReport(report) ==
    /\ report.version \in MinReportVersion..MaxReportVersion
    /\ report.signer \in {"vcek", "vlek", "none"}

-----------------------------------------------------------------------------
(* The line whose roots replace go-sev-guest's choice; {} is none, and the *)
(* result is empty where the certificate must be read and cannot.          *)
vcekProductRoots(report, vcek) ==
    IF report.cpu = "none" \/ vcek = None \/ reportLine(report) \in Bundled THEN {{}}
    ELSE IF vcek.line = "none" THEN {}
    ELSE {{vcek.line} \cap Bundled}

(* The roots go-sev-guest anchors a chain to. *)
AnchorLine(report, vcek, roots) ==
    IF roots # {} THEN roots
    ELSE {IF report.cpu = "none" THEN vcek.line ELSE reportLine(report)} \cap Bundled

(* go-sev-guest's verify: the certificate supplied for the signing key     *)
(* chains to the roots, is of this chip (unless the host masks which) at   *)
(* this TCB, and its key signed the report.                                *)
LibraryVerifies(report, vcek, roots) ==
    /\ vcek # None
    /\ vcek.issued /\ vcek.key = report.signer
    /\ vcek.line \in AnchorLine(report, vcek, roots)
    /\ report.signer = "vcek" => report.chip \in {vcek.chip, "masked"}
    /\ vcek.tcb = report.tcb
    /\ report.signed

(* The hardware verification, up to revocation. *)
HardwareVerifies(report, vcek) ==
    /\ report.signer \in {"vcek", "vlek"}
    /\ \E roots \in IF report.signer = "vcek" THEN vcekProductRoots(report, vcek)
                    ELSE {{}} :
          LibraryVerifies(report, vcek, roots)

-----------------------------------------------------------------------------
pad(b, n) == [i \in 1..n |-> IF i <= Len(b) THEN b[i] ELSE Zero]

Padded(d, n) == IF d = None THEN None ELSE pad(d, n)

(* Mutant: the floor's components are passed on in the wrong order. *)
validateOptions_Swapped(params) ==
    {[reportData |-> Padded(params.ExpectedReportData, DataWidth),
      host |-> Padded(params.ExpectedInitDataHash, HostWidth),
      launch |-> params.ExpectedLaunchDigest, debug |-> params.AllowDebug,
      floor |-> <<params.MinTCB.tcb[2], params.MinTCB.tcb[1]>>]}

(* What the caller expects, as go-sev-guest takes it; refused where a      *)
(* value does not fit, and where the floor names an FMC, which cannot be   *)
(* enforced.                                                               *)
validateOptions(params) ==
    IF \/ params.ExpectedReportData # None /\ Len(params.ExpectedReportData) > DataWidth
       \/ params.ExpectedInitDataHash # None /\ Len(params.ExpectedInitDataHash) > HostWidth
       \/ params.ExpectedLaunchDigest = "short"
       \/ params.MinTCB.fmc
    THEN {}
    ELSE {[reportData |-> Padded(params.ExpectedReportData, DataWidth),
           host |-> Padded(params.ExpectedInitDataHash, HostWidth),
           launch |-> params.ExpectedLaunchDigest, debug |-> params.AllowDebug,
           floor |-> params.MinTCB.tcb]}

(* go-sev-guest's validate, under the options above: VMPL 0, and a debug   *)
(* guest only where it is allowed.                                         *)
LibraryValidates(report, o) ==
    /\ report.vmpl = 0
    /\ report.debug => o.debug
    /\ o.reportData # None => report.data = o.reportData
    /\ o.host # None => report.host = o.host
    /\ o.launch # None => report.launch = o.launch
    /\ \A i \in DOMAIN o.floor : report.tcb[i] >= o.floor[i]

(* The policy half of VerifyReportContext. *)
PolicyHolds(report, params) ==
    \E o \in validateOptions(params) : LibraryValidates(report, o)

=============================================================================
