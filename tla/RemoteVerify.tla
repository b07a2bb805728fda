---------------------------- MODULE RemoteVerify ----------------------------
(***************************************************************************)
(* remote.Client.VerifyEvidenceWithRuntimeLog: a relying party submits a   *)
(* peer's evidence to its attestation service and holds the answer to its  *)
(* own policy (remote/verify.go, remote/images.go).                        *)
(*                                                                         *)
(* The peer is a guest on real hardware and an attester that speaks for    *)
(* it: the attester picks the tag, the PCR selection it has quoted, the    *)
(* bank it sends along and the runtime list it claims.  The service checks *)
(* the signature honestly, but may be of another version than its client:  *)
(* it may leave a verdict field or a claim out.  guest is what is true of  *)
(* the hardware; the code sees evidence and resp only.                     *)
(***************************************************************************)
EXTENDS Binding

CONSTANTS
    Exchanges,  \* sets of guests, of policies and of claimed lists that meet
    PCRValues,  \* the values of vTPM registers told apart
    Paravisor   \* what Azure's paravisor commits as HOSTDATA

ASSUME NoneIsNoVerdict == None # "accepted"

(* Claimed lists hold references, and a measurer's extends are a sequence, *)
(* of whatever the guest had extended.                                     *)
ASSUME ListsAssumption ==
    \A x \in Exchanges :
        /\ x.lists \subseteq Seq(Refs)
        /\ \A g \in x.guests :
              /\ Len(g.extends) \in Nat
              /\ g.extends = [i \in 1..Len(g.extends) |-> g.extends[i]]

(* Hardware reports a launch digest, and no file hashes to zero. *)
ASSUME GuestsAssumption ==
    \A x \in Exchanges : \A g \in x.guests :
        /\ g.launch \notin {"", "malformed"}
        /\ g.file # ZeroBytes
        /\ HostData(g.file) # None

(* The paravisor's HOSTDATA is the hash of no file a policy pins. *)
ASSUME ParavisorIsNoPin ==
    \A x \in Exchanges : \A p \in x.policies : \A img \in p.Images :
        /\ Paravisor \notin {img.Anchor, img.LaunchFile}
        /\ img.LaunchFileDigest # HostData(Paravisor)

VARIABLES
    guest,      \* what is true of the peer
    evidence,   \* AttestationEvidence
    policy,     \* Policy
    claimed,    \* the peer's runtime extension list
    resp,       \* the service's VerifyResponse, None before it answered
    pc,         \* "start", "posted", "answered", "enforced" or "done"
    verdict     \* None, "accepted" or "refused"

input == <<guest, evidence, policy, claimed>>
vars == <<input, resp, pc, verdict>>

-----------------------------------------------------------------------------
(* What the hardware reports. *)

(* The bytes a guest's measurer and initrd folded into RTMR[3]. *)
GuestRTMR ==
    IF Family([tag |-> guest.tag, canonical |-> TRUE]) = "tdx"
    THEN [i \in 1..3 |->
             CASE i = 1 -> guest.kernel
               [] i = 2 -> guest.cmdline
               [] i = 3 -> FromDigestsSeeded(Seed(guest.file), guest.extends)]
    ELSE << >>

GuestInitData ==
    IF guest.tag = "az-snp" THEN HostData(Paravisor) ELSE HostData(guest.file)

(* The tags evidence of a guest verifies under: the silicon decides the    *)
(* family, and only an Azure guest has a vTPM to quote.                    *)
Claimable(g) ==
    {p \in PlatformType :
        /\ Family(p) = Family([tag |-> g.tag, canonical |-> TRUE])
        /\ p.tag \in {"az-snp", "az-tdx"} => g.tag = p.tag}

(* A quote over the selected registers, and a bank that may lie about the  *)
(* others: the quote's digest covers the selection alone.                  *)
Evidences(g) ==
    [Platform : Claimable(g), selection : SUBSET DOMAIN g.pcr,
     bank : [DOMAIN g.pcr -> PCRValues]]

HonestBank(ev, g) == \A i \in ev.selection : ev.bank[i] = g.pcr[i]

(* The service's answers.  A verdict field says "true" or "false" by what  *)
(* is true of the guest, or "nil" where the service was not asked or does  *)
(* not know the field.                                                     *)
Verdicts(asked, holds) ==
    {"nil"} \cup (IF asked THEN {IF holds THEN "true" ELSE "false"} ELSE {})

(* The claims of a verified quote; a service may omit the launch digest,   *)
(* and it publishes the PCR bank as the attester sent it.                  *)
ClaimSets ==
    [LaunchDigest : {guest.launch, "", "malformed"},
     RTMR : {GuestRTMR},
     InitData : {GuestInitData},
     PCR : {IF HasVTPMQuote(evidence.Platform) THEN evidence.bank ELSE << >>}]

Responses ==
    [SignatureValid : BOOLEAN,
     Platform : {NormalizePlatform(evidence.Platform),
                 [tag |-> "", canonical |-> TRUE],
                 [tag |-> "dstack", canonical |-> TRUE]},
     ReportDataMatch : Verdicts(policy.ExpectedReportData, guest.fresh),
     InitDataMatch : Verdicts(policy.ExpectedInitDataHash, guest.initData),
     Claims : ClaimSets]

-----------------------------------------------------------------------------
(* EnforceVerdict, for the parameters VerifyEvidenceWithRuntimeLog sends.  *)

(* Mutant: an absent verdict field counts as a match. *)
EnforceVerdict_NilPasses(r) ==
    /\ r.SignatureValid
    /\ policy.ExpectedReportData => r.ReportDataMatch # "false"
    /\ policy.ExpectedInitDataHash => r.InitDataMatch # "false"

EnforceVerdict(r) ==
    /\ r.SignatureValid
    /\ policy.ExpectedReportData => r.ReportDataMatch = "true"
    /\ policy.ExpectedInitDataHash => r.InitDataMatch = "true"

(* Mutant: the two tags are compared as spelled. *)
checkVerifiedPlatform_Raw(r) ==
    \/ r.Platform = [tag |-> "", canonical |-> TRUE]
    \/ evidence.Platform = r.Platform

checkVerifiedPlatform(r) ==
    \/ r.Platform = [tag |-> "", canonical |-> TRUE]
    \/ NormalizePlatform(evidence.Platform) = NormalizePlatform(r.Platform)

(* Mutant: the pinned value is looked up in the bank, quoted or not. *)
EnforcePCRs_Unquoted(r, pinned) ==
    \/ DOMAIN pinned = {}
    \/ /\ HasVTPMQuote(evidence.Platform)
       /\ \A i \in DOMAIN pinned :
             i \in DOMAIN r.Claims.PCR /\ r.Claims.PCR[i] = pinned[i]

EnforcePCRs(r, pinned) ==
    \/ DOMAIN pinned = {}
    \/ /\ HasVTPMQuote(evidence.Platform)
       /\ \A i \in DOMAIN pinned :
             /\ i \in evidence.selection
             /\ i \in DOMAIN r.Claims.PCR /\ r.Claims.PCR[i] = pinned[i]

EnforceRTMRs(r, pinned) ==
    \A i \in DOMAIN pinned :
        i \in DOMAIN r.Claims.RTMR /\ r.Claims.RTMR[i] = pinned[i]

(* launchDigest: the parsed launch measurement, if it parses. *)
launchDigest(r) == {d \in {r.Claims.LaunchDigest} : d \notin {"", "malformed"}}

EnforceLaunchMeasurement(r, allowed) ==
    IF r.Claims.LaunchDigest = "" THEN allowed = {}
    ELSE \E d \in launchDigest(r) : allowed # {} => d \in allowed

-----------------------------------------------------------------------------
(* EnforceImagesWithRuntimeLog. *)

checkLaunchBindingPins(images, family) ==
    \A img \in images :
        /\ \A f, g \in {"Anchor", "LaunchFile", "LaunchFileDigest"} :
              img[f] # None /\ img[g] # None => f = g
        /\ img.LaunchFile # EmptyBytes
        /\ img.LaunchFile # None => img.AcceptExtension = None
        /\ img.LaunchFileDigest # None =>
              CheckLaunchFileDigest(family, img.LaunchFileDigest)

(* matches is what the matcher returned, AcceptExtension the set of        *)
(* digests the hook accepts.                                               *)
enforceReplayedBinding(matches, accept) ==
    \E k \in matches :
        \A i \in 1..k : accept # None /\ claimed[i].digest \in accept

(* Mutant: the launch digest is pinned by any image, the rest by this one. *)
MatchesImage_Mixed(r, img) ==
    /\ launchDigest(r) \cap {other.Digest : other \in policy.Images} # {}
    /\ EnforceRTMRs(r, img.Registers)
    /\ img.Anchor # None => enforceReplayedBinding(
          MatchBindingPrefix(r, img.Anchor, claimed), img.AcceptExtension)
    /\ img.LaunchFile # None => VerifyBinding(r, img.LaunchFile, << >>)
    /\ img.LaunchFileDigest # None => enforceReplayedBinding(
          MatchLaunchFileDigestPrefix(r, img.LaunchFileDigest, claimed),
          img.AcceptExtension)

(* One turn of the loop over the images: the pin holds whole. *)
MatchesImage(r, img) ==
    /\ img.Digest \in launchDigest(r)
    /\ DOMAIN img.Registers # {} => /\ HasRegisters(evidence.Platform)
                                    /\ EnforceRTMRs(r, img.Registers)
    /\ img.Anchor # None => enforceReplayedBinding(
          MatchBindingPrefix(r, img.Anchor, claimed), img.AcceptExtension)
    /\ img.LaunchFile # None => VerifyBinding(r, img.LaunchFile, << >>)
    /\ img.LaunchFileDigest # None => enforceReplayedBinding(
          MatchLaunchFileDigestPrefix(r, img.LaunchFileDigest, claimed),
          img.AcceptExtension)

(* The loop returns on the first image that matches, so their order does   *)
(* not matter and images is a set.                                         *)
EnforceImagesWithRuntimeLog(r, images) ==
    \/ images = {}
    \/ /\ checkVerifiedPlatform(r)
       /\ checkLaunchBindingPins(images, Family(evidence.Platform))
       /\ \E img \in images : MatchesImage(r, img)

(* Mutant: register pins are dropped where the platform has none. *)
EnforcePinsWithRuntimeLog_SkipsRegisters(r) ==
    /\ checkVerifiedPlatform(r)
    /\ EnforcePCRs(r, policy.PCRs)
    /\ IF policy.Images # {}
       THEN EnforceImagesWithRuntimeLog(r, policy.Images)
       ELSE /\ EnforceLaunchMeasurement(r, policy.Measurements)
            /\ HasRegisters(evidence.Platform) => EnforceRTMRs(r, policy.Registers)

EnforcePinsWithRuntimeLog(r) ==
    /\ checkVerifiedPlatform(r)
    /\ EnforcePCRs(r, policy.PCRs)
    /\ IF policy.Images # {}
       THEN EnforceImagesWithRuntimeLog(r, policy.Images)
       ELSE /\ EnforceLaunchMeasurement(r, policy.Measurements)
            /\ IF HasRegisters(evidence.Platform)
               THEN EnforceRTMRs(r, policy.Registers)
               ELSE DOMAIN policy.Registers = {}

-----------------------------------------------------------------------------
Init ==
    /\ \E x \in Exchanges :
          guest \in x.guests /\ policy \in x.policies /\ claimed \in x.lists
    /\ evidence \in {ev \in Evidences(guest) : HonestBank(ev, guest)}
    /\ resp = None
    /\ pc = "start"
    /\ verdict = None

Refuse == pc' = "done" /\ verdict' = "refused"

(* The checks before the round trip. *)
Submit ==
    /\ pc = "start"
    /\ IF \/ Family(evidence.Platform) = ""
          \/ policy.MinTcb /\ Family(evidence.Platform) # "sev-snp"
       THEN Refuse
       ELSE pc' = "posted" /\ UNCHANGED verdict
    /\ UNCHANGED <<input, resp>>

(* The service answers 200. *)
Answer ==
    /\ pc = "posted"
    /\ resp' \in Responses
    /\ pc' = "answered"
    /\ UNCHANGED <<input, verdict>>

(* A transport failure, or a status that is no success: an error. *)
AnswerFails ==
    /\ pc = "posted"
    /\ Refuse
    /\ UNCHANGED <<input, resp>>

(* VerifyEnforced returns. *)
CheckVerdict ==
    /\ pc = "answered"
    /\ IF EnforceVerdict(resp) THEN pc' = "enforced" /\ UNCHANGED verdict
                               ELSE Refuse
    /\ UNCHANGED <<input, resp>>

CheckPins ==
    /\ pc = "enforced"
    /\ IF EnforcePinsWithRuntimeLog(resp)
       THEN pc' = "done" /\ verdict' = "accepted"
       ELSE Refuse
    /\ UNCHANGED <<input, resp>>

Done == pc = "done" /\ UNCHANGED vars

Next == Submit \/ Answer \/ AnswerFails \/ CheckVerdict \/ CheckPins \/ Done

Spec == Init /\ [][Next]_vars

-----------------------------------------------------------------------------
(* What is true of the guest, not of what was said about it. *)

Accepted == verdict = "accepted"

(* The guest was launched with these bytes, which its platform commits. *)
LaunchedWith(bytes) ==
    guest.tag # "az-snp" /\ guest.file = bytes /\ bytes # EmptyBytes

ExtendsOnly(accept) ==
    Family([tag |-> guest.tag, canonical |-> TRUE]) = "tdx" =>
        \A i \in 1..Len(guest.extends) :
            accept # None /\ guest.extends[i] \in accept

(* One pin describes the guest in every part. *)
GuestIs(img) ==
    /\ guest.launch = img.Digest
    /\ \A i \in DOMAIN img.Registers :
          i \in DOMAIN GuestRTMR /\ GuestRTMR[i] = img.Registers[i]
    /\ img.Anchor # None =>
          LaunchedWith(img.Anchor) /\ ExtendsOnly(img.AcceptExtension)
    /\ img.LaunchFile # None =>
          LaunchedWith(img.LaunchFile) /\ ExtendsOnly({})
    /\ img.LaunchFileDigest # None =>
          /\ LaunchedWith(guest.file) /\ ExtendsOnly(img.AcceptExtension)
          /\ img.LaunchFileDigest \in LaunchFileDigest(
                Family([tag |-> guest.tag, canonical |-> TRUE]), guest.file)

(* An accepted peer is, in launch digest, registers, launch binding and    *)
(* every workload it measured, what one single pinned image says: never    *)
(* the digest of one pin with the registers or anchor of another, whatever *)
(* list the attester claims (ImagePin, EnforceImagesWithRuntimeLog).       *)
AcceptedIsPinnedImage ==
    (Accepted /\ policy.Images # {}) => \E img \in policy.Images : GuestIs(img)

(* A pinned PCR of an accepted peer really has the pinned value, although  *)
(* the attester writes the bank the service publishes (EnforcePCRs).       *)
AcceptedPCRsAreTrue ==
    Accepted => \A i \in DOMAIN policy.PCRs : guest.pcr[i] = policy.PCRs[i]

(* Without image pins an accepted peer has a pinned launch measurement and *)
(* every pinned register, on a platform that has registers at all          *)
(* (EnforceLaunchMeasurement, EnforceRTMRs).                               *)
AcceptedMeetsFlatPins ==
    (Accepted /\ policy.Images = {}) =>
        /\ policy.Measurements # {} => guest.launch \in policy.Measurements
        /\ \A i \in DOMAIN policy.Registers :
              i \in DOMAIN GuestRTMR /\ GuestRTMR[i] = policy.Registers[i]

(* An accepted peer's evidence is signed, binds the report data and the    *)
(* init data the policy names, and met a TCB floor only if its platform    *)
(* has one; a service that ignores the field is not taken at its silence   *)
(* (EnforceVerdict, VerifyEvidenceWithRuntimeLog).                         *)
AcceptedIsFresh ==
    Accepted => /\ resp.SignatureValid
                /\ policy.ExpectedReportData => guest.fresh
                /\ policy.ExpectedInitDataHash => guest.initData
                /\ policy.MinTcb => guest.tag \in {"snp", "az-snp", "gcp-snp"}

(* The service answered in full, and the attester claimed the list its     *)
(* guest measured, possibly with entries recorded since.                   *)
AnsweredInFull ==
    /\ resp # None
    /\ resp.SignatureValid
    /\ resp.Platform = NormalizePlatform(evidence.Platform)
    /\ resp.Claims.LaunchDigest = guest.launch
    /\ policy.ExpectedReportData => resp.ReportDataMatch = "true"
    /\ policy.ExpectedInitDataHash => resp.InitDataMatch = "true"

HonestList ==
    /\ \A i \in 1..Len(claimed) : CanonicalEntry(claimed[i])
    /\ Len(guest.extends) <= Len(claimed)
    /\ \A i \in 1..Len(guest.extends) : guest.extends[i] = claimed[i].digest

WellFormedPins ==
    checkLaunchBindingPins(policy.Images, Family(evidence.Platform))

(* The guest is what the policy's image or flat pins say. *)
MeetsPins ==
    IF policy.Images # {} THEN \E img \in policy.Images : GuestIs(img)
    ELSE /\ policy.Measurements # {} => guest.launch \in policy.Measurements
         /\ \A i \in DOMAIN policy.Registers :
               i \in DOMAIN GuestRTMR /\ GuestRTMR[i] = policy.Registers[i]

QuotesPins ==
    DOMAIN policy.PCRs # {} =>
        /\ HasVTPMQuote(evidence.Platform)
        /\ DOMAIN policy.PCRs \subseteq evidence.selection
        /\ \A i \in DOMAIN policy.PCRs : guest.pcr[i] = policy.PCRs[i]

(* Failing closed is not failing always: a guest that is what the policy   *)
(* pins, quoted and answered for in full, is accepted although its list    *)
(* runs ahead of its quote (MatchBindingPrefix, EnforcePinsWithRuntimeLog).*)
ConformingGuestAccepted ==
    (pc = "done" /\ AnsweredInFull /\ HonestList /\ WellFormedPins
        /\ MeetsPins /\ QuotesPins)
    => Accepted

(* What the comment on Policy.PCRs says of evidence without a vTPM quote:  *)
(* "there is nothing for them to narrow, so a mixed fleet keeps working".  *)
MixedFleetKeepsWorking ==
    (pc = "done" /\ AnsweredInFull /\ HonestList /\ WellFormedPins
        /\ MeetsPins /\ ~HasVTPMQuote(evidence.Platform))
    => Accepted

=============================================================================
