------------------------------- MODULE ArmTls -------------------------------
(***************************************************************************)
(* Attested TLS: evidence in a certificate extension, made by the guest    *)
(* (armtls/evidence.go, MarshalExtension) and verified by its peers        *)
(* (UnmarshalExtension, VerifyCertOffline, VerifyCertWithService), through *)
(* the dispatch on the platform tag (teeverify) down to the SEV-SNP        *)
(* verifier, whose collateral comes from the cache that concurrent         *)
(* verifications share (module KdsCache).                                  *)
(*                                                                         *)
(* A quote is a hardware report (kind "report") or another family's or     *)
(* Azure's evidence, which modules TdxVerify and VTpm go into and which    *)
(* here is believed when genuine.  A digest stands for what was hashed.    *)
(* One extension value at most is under the OID in a certificate.          *)
(***************************************************************************)
EXTENDS SnpVerify, Platform

CONSTANTS
    Requests    \* Requests[s][p]: what process p may verify in scenario s

MaxRuntimeExtensions == 2   \* 256, scaled down

VARIABLES
    scenario,   \* which of the scenarios this is
    call        \* each process's verification

vars == <<cacheVars, scenario, call>>

-----------------------------------------------------------------------------
(* The wire. *)
wireTEEType(family) ==
    CASE family = "sev-snp" -> {1} [] family = "tdx" -> {2} [] OTHER -> {}

familyFromWire(v) == CASE v = 1 -> {"sev-snp"} [] v = 2 -> {"tdx"} [] OTHER -> {}

checkRuntimeExtensions(family, list) ==
    /\ Len(list) > 0 => family = "tdx"
    /\ Len(list) <= MaxRuntimeExtensions
    /\ \A i \in DOMAIN list : list[i].canonical

(* The raw report in a payload: the report itself, or an HCL envelope's. *)
NormalizeSEVSNPReport(payload) ==
    {[payload EXCEPT !.shape = "raw"] : s \in {payload.shape} \cap {"raw", "hcl-snp"}}

(* Mutant: an envelope is taken under the family the extension declares. *)
newAttestation_AnyFamily(family, payload, certChain) ==
    {[Family |-> family, Report |-> p, CertChain |-> certChain, list |-> << >>] :
        p \in IF payload.shape = "json" THEN {payload}
              ELSE NormalizeSEVSNPReport(payload)}

(* The attestation a payload means, for both directions: an envelope of    *)
(* the family declared, or a raw SEV-SNP report.                           *)
newAttestation(family, payload, certChain) ==
    {[Family |-> family, Report |-> p, CertChain |-> certChain, list |-> << >>] :
        p \in CASE wireTEEType(family) = {} -> {}
                [] payload.shape = "json" ->
                      {[payload EXCEPT !.env.Platform = NormalizePlatform(@)] :
                          q \in {payload.env.Platform} \cap
                                {t \in PlatformType : t.tag # "" /\ Family(t) = family}}
                [] payload.shape # "json" /\ family = "sev-snp" ->
                      NormalizeSEVSNPReport(payload)
                [] OTHER -> {}}

(* ExtractSNPReport: the report in either field of an SNP envelope. *)
ExtractSNPReport(env) ==
    CASE env.form = "attestation_report" -> {[shape |-> "raw", env |-> env]}
      [] env.form = "hcl_report" ->
            NormalizeSEVSNPReport([shape |-> "hcl-snp", env |-> env])
      [] OTHER -> {}

(* The event log would not fit a handshake record. *)
stripTDXEventlog(env) == [env EXCEPT !.eventlog = FALSE]

(* What the extension carries for evidence fresh from a service. *)
EvidenceForExtension(env) ==
    LET p == NormalizePlatform(env.Platform)
    IN  IF Family(p) = "" THEN {}
        ELSE IF HasVTPMQuote(p) \/ Family(p) = "tdx"
        THEN {[shape |-> "json",
               env |-> [IF HasVTPMQuote(p) THEN env ELSE stripTDXEventlog(env)
                           EXCEPT !.Platform = p]]}
        ELSE ExtractSNPReport(env)

(* The attestation a guest embeds, with its endorsement certificate. *)
NewAttestation(env) ==
    UNION {newAttestation(Family(env.Platform), pl,
                          IF pl.shape = "raw" THEN env.vcek ELSE None) :
              pl \in EvidenceForExtension(env)}

(* The extension value; a list is for TDX alone. *)
MarshalExtension(att) ==
    {[teeType |-> t, Report |-> att.Report, CertChain |-> att.CertChain,
      list |-> IF att.Family = "tdx" THEN att.list ELSE << >>, trailing |-> FALSE] :
        t \in IF att.Family = "tdx" /\ ~checkRuntimeExtensions("tdx", att.list) THEN {}
              ELSE wireTEEType(att.Family)}

(* Mutant: the list is checked and left behind. *)
UnmarshalExtension_NoList(ext) ==
    UNION {newAttestation(family, ext.Report, ext.CertChain) :
           family \in {f \in familyFromWire(ext.teeType) :
                          ~ext.trailing /\ checkRuntimeExtensions(f, ext.list)}}

(* An extension's attestation; what is not one is refused. *)
UnmarshalExtension(ext) ==
    UNION {{[att EXCEPT !.list = ext.list] :
               att \in newAttestation(family, ext.Report, ext.CertChain)} :
           family \in {f \in familyFromWire(ext.teeType) :
                          ~ext.trailing /\ checkRuntimeExtensions(f, ext.list)}}

(* The evidence as an envelope: the embedded one, or the raw report under  *)
(* the bare-metal tag with the certificate beside it.                      *)
Envelope(att) ==
    IF att.Report.shape = "json" THEN {att.Report.env}
    ELSE IF att.Family # "sev-snp" THEN {}
    ELSE {[Platform |-> [tag |-> "snp", canonical |-> TRUE],
           quote |-> att.Report.env.quote, form |-> "attestation_report",
           vcek |-> att.CertChain, eventlog |-> FALSE]}

-----------------------------------------------------------------------------
(* The binding. *)

(* SHA-384 of the marshalled key and the nonce. *)
ReportDataForKey(key, nonce) == <<[key |-> key, nonce |-> nonce]>>

(* The keys ARmTLS binds. *)
publicKeyFromCert(cert) == {cert.key} \ {"rsa"}

(* What the evidence must bind: the caller cannot ask for something else. *)
bindingAnchor(key, nonce, supplied) ==
    {ReportDataForKey(key, nonce) :
        s \in {supplied} \cap {None, ReportDataForKey(key, nonce)}}

ExtractAttestation(cert) ==
    IF cert.ext = None THEN {} ELSE UnmarshalExtension(cert.ext)

attestationAndKey(cert) ==
    {[att |-> att, key |-> key] :
        att \in ExtractAttestation(cert), key \in publicKeyFromCert(cert)}

(* What either way of verifying starts from. *)
Prepared(req) ==
    UNION {{[att |-> ak.att, env |-> env,
             params |-> [req.params EXCEPT !.ExpectedReportData = anchor]] :
               env \in Envelope(ak.att),
               anchor \in bindingAnchor(ak.key, req.nonce, req.params.ExpectedReportData)} :
           ak \in attestationAndKey(req.cert)}

-----------------------------------------------------------------------------
(* VerifyEnvelope: which verifier a tag is routed to. *)
VerifiesAs(env) ==
    LET tag == NormalizePlatform(env.Platform).tag
    IN  CASE tag \in {"snp", "gcp-snp"} -> "snp"
          [] tag \in {"tdx", "gcp-tdx", "az-snp", "az-tdx"} -> "other"
          [] OTHER -> "unsupported"

(* verifySNP: what it hands on is a report and, where there must be one,   *)
(* its certificate.                                                        *)
verifySNP(env, getter) ==
    env.quote.kind = "report" /\ AdmitsEvidence(env.vcek, getter) /\ AdmitsReport(env.quote)

(* What kind of evidence the other verifiers parse. *)
KindOf(env) ==
    CASE NormalizePlatform(env.Platform).tag = "az-snp" -> "vtpm-snp"
      [] NormalizePlatform(env.Platform).tag = "az-tdx" -> "vtpm-tdx"
      [] OTHER -> "tdx"

(* The TDX and Azure verifiers: genuine evidence that carries the expected *)
(* value, padded to the hardware field or byte for byte as the nonce.      *)
OtherVerifies(env, params) ==
    /\ env.quote.kind = KindOf(env)
    /\ env.quote.signed
    /\ env.quote.data = IF KindOf(env) = "tdx"
                        THEN pad(params.ExpectedReportData, DataWidth)
                        ELSE params.ExpectedReportData

(* VerifyWithService hands the client the envelope, the anchor and, on     *)
(* TDX, the list; the client does the rest (module RemoteVerify).          *)
Posted(r) ==
    [env |-> r.env, anchor |-> r.params.ExpectedReportData,
     claimed |-> IF r.att.Family = "tdx" THEN r.att.list ELSE << >>]

-----------------------------------------------------------------------------
(* What the requests are taken to be. *)

(* Parameters have their fields, and None is none of the values. *)
ParamsFit(req) ==
    LET hash == req.params.ExpectedInitDataHash
    IN  /\ DOMAIN req.params = {"ExpectedReportData", "ExpectedInitDataHash",
                                "ExpectedLaunchDigest", "AllowDebug", "MinTCB"}
        /\ req.params.MinTCB.tcb \in Nat \X Nat
        /\ hash # None => /\ hash \in Seq({hash[i] : i \in DOMAIN hash})
                          /\ pad(hash, HostWidth) # None
        /\ None \notin {ReportDataForKey(req.cert.key, req.nonce),
                         pad(ReportDataForKey(req.cert.key, req.nonce), DataWidth)}
        /\ None \notin {Posted(r) : r \in Prepared(req)}

(* Evidence has its fields, and of what kind it is tells the hardware. *)
EvidenceFits(req) ==
    req.cert.ext # None =>
        LET payload == req.cert.ext.Report
            quote == payload.env.quote
        IN  /\ DOMAIN payload = {"shape", "env"}
            /\ DOMAIN payload.env = {"Platform", "quote", "form", "vcek", "eventlog"}
            /\ quote.family = IF quote.kind \in {"report", "vtpm-snp"} THEN "sev-snp" ELSE "tdx"

(* A certificate that has to be fetched has a URL. *)
CollateralFits(req) ==
    \A r \in Prepared(req) :
        (/\ r.env.quote.kind = "report" /\ AdmitsReport(r.env.quote)
         /\ MustFetch(r.env.quote, r.env.vcek, req.opts.getter))
        => vcekURL(r.env.quote) \subseteq URLs

(* A certificate made with this package has the extension that comes of    *)
(* evidence whose kind is its platform's.                                  *)
MadeFits(req) ==
    LET made == req.cert.made
    IN  made # None =>
        /\ DOMAIN made = {"Platform", "quote", "form", "vcek", "eventlog"}
        /\ made.Platform \in PlatformType
        /\ made.quote.kind = IF Family(made.Platform) = "sev-snp" /\ ~HasVTPMQuote(made.Platform)
                             THEN "report" ELSE KindOf(made)
        /\ req.cert.ext # None
        /\ \E att \in NewAttestation(made) :
              req.cert.ext \in MarshalExtension([att EXCEPT !.list = req.cert.measured])

ASSUME CrlsAssumption == \A line \in Bundled : crlURL(line) \in URLs

ASSUME RequestsAssumption ==
    \A s \in DOMAIN Requests : \A p \in Procs : \A req \in Requests[s][p] :
        ParamsFit(req) /\ EvidenceFits(req) /\ CollateralFits(req) /\ MadeFits(req)

-----------------------------------------------------------------------------
(* One verification after another, by each process. *)
NoCall == [pc |-> "idle", req |-> None, platform |-> None, env |-> None, params |-> None,
           vcek |-> None, since |-> {}, failed |-> FALSE, res |-> None, posted |-> None]

Init ==
    /\ CacheInit
    /\ scenario \in DOMAIN Requests
    /\ call = [p \in Procs |-> NoCall]

Report(p) == call[p].env.quote
Getter(p) == call[p].req.opts.getter

Finish(p, res) == call' = [call EXCEPT ![p].pc = "done", ![p].res = res]

UNCHANGED_Cache == UNCHANGED cacheVars

(* The call up to the verifier, in one step: nothing in it waits. *)
Begin(p, req) ==
    /\ req.via = "offline"
    /\ LET New == [NoCall EXCEPT !.req = req, !.since = revoked]
           Refused == [New EXCEPT !.pc = "done", !.res = "refused"]
       IN  \/ /\ Prepared(req) = {}
              /\ call' = [call EXCEPT ![p] = Refused]
              /\ UNCHANGED_Cache
           \/ \E r \in Prepared(req) :
                LET Routed == [New EXCEPT !.env = r.env, !.params = r.params,
                                          !.platform = NormalizePlatform(r.env.Platform).tag]
                IN
                \/ /\ VerifiesAs(r.env) # "snp"
                   /\ call' = [call EXCEPT ![p] =
                         IF VerifiesAs(r.env) = "other" /\ OtherVerifies(r.env, r.params)
                         THEN [Routed EXCEPT !.pc = "done", !.res = "accepted"]
                         ELSE Refused]
                   /\ UNCHANGED_Cache
                \/ /\ VerifiesAs(r.env) = "snp"
                   /\ LET vcek == r.env.vcek
                          report == r.env.quote
                          admitted == verifySNP(r.env, req.opts.getter)
                          fetched == admitted /\ MustFetch(report, vcek, req.opts.getter)
                      IN
                      \/ /\ ~admitted \/ (fetched /\ vcekURL(report) = {})
                         /\ call' = [call EXCEPT ![p] = Refused]
                         /\ UNCHANGED_Cache
                      \/ /\ admitted /\ ~fetched
                         /\ call' = [call EXCEPT ![p] =
                                       [Routed EXCEPT !.pc = "verify", !.vcek = vcek]]
                         /\ UNCHANGED_Cache
                      \/ /\ fetched
                         /\ call' = [call EXCEPT ![p] = [Routed EXCEPT !.pc = "vcek"]]
                         /\ \E url \in vcekURL(report) :
                               GetContext(p, url, req.opts.getter = "caching")
                         /\ UNCHANGED <<revoked, proxied, dir>>

(* VerifyWithService. *)
BeginService(p, req) ==
    /\ req.via = "service"
    /\ \E posted \in IF Prepared(req) = {} THEN {None} ELSE {Posted(r) : r \in Prepared(req)} :
          call' = [call EXCEPT ![p] =
               [NoCall EXCEPT !.req = req, !.pc = "done", !.posted = posted,
                              !.res = IF posted = None THEN "refused" ELSE "posted"]]
    /\ UNCHANGED_Cache

(* fetchVCEK returns. *)
TakeVcek(p) ==
    /\ call[p].pc = "vcek" /\ get[p].pc = "return"
    /\ Return(p)
    /\ call' = [call EXCEPT ![p] =
          IF get[p].body = None
          THEN [@ EXCEPT !.pc = "done", !.res = "unavailable", !.failed = get[p].failed]
          ELSE [@ EXCEPT !.pc = "verify", !.vcek = Parsed(get[p].body)]]
    /\ UNCHANGED <<revoked, proxied, dir>>

(* go-sev-guest's verify up to the revocation list, which it fetches       *)
(* through the same getter or, given none, its own.                        *)
Verify(p) ==
    /\ call[p].pc = "verify"
    /\ \/ /\ ~HardwareVerifies(Report(p), call[p].vcek)
          /\ Finish(p, "refused")
          /\ UNCHANGED_Cache
       \/ /\ HardwareVerifies(Report(p), call[p].vcek)
          /\ ~call[p].req.opts.CheckRevocations
          /\ call' = [call EXCEPT ![p].pc = "validate"]
          /\ UNCHANGED_Cache
       \/ /\ HardwareVerifies(Report(p), call[p].vcek)
          /\ call[p].req.opts.CheckRevocations
          /\ call' = [call EXCEPT ![p].pc = "crl"]
          /\ GetContext(p, crlURL(call[p].vcek.line), Getter(p) = "caching")
          /\ UNCHANGED <<revoked, proxied, dir>>

(* The revocation list arrives: it must be AMD's and not name the chip. *)
TakeCrl(p) ==
    /\ call[p].pc = "crl" /\ get[p].pc = "return"
    /\ Return(p)
    /\ call' = [call EXCEPT ![p] =
          IF \/ get[p].body = None
             \/ get[p].body # None /\ get[p].body.url = None
             \/ get[p].body # None /\ call[p].vcek.chip \in get[p].body.revoked
          THEN [@ EXCEPT !.pc = "done", !.res = "refused", !.failed = get[p].failed]
          ELSE [@ EXCEPT !.pc = "validate"]]
    /\ UNCHANGED <<revoked, proxied, dir>>

(* The policy, and the checks VerifyOffline repeats on the result. *)
Validate(p) ==
    /\ call[p].pc = "validate"
    /\ Finish(p, IF /\ PolicyHolds(Report(p), call[p].params)
                    /\ call[p].params.ExpectedReportData # None
                 THEN "accepted" ELSE "refused")
    /\ UNCHANGED_Cache

(* The caller has the verdict, and may verify again. *)
End(p) ==
    /\ call[p].pc = "done"
    /\ call' = [call EXCEPT ![p] = NoCall]
    /\ UNCHANGED_Cache

Getting(p) == GetStep(p) /\ UNCHANGED call

CrashCall(p) == Crash(p) /\ call' = [call EXCEPT ![p] = NoCall]

PowerLossCalls == PowerLoss /\ call' = [p \in Procs |-> NoCall]

RevokeChip == \E chip \in Chips : Revoke(chip) /\ UNCHANGED call

Next ==
    /\ UNCHANGED scenario
    /\ \/ \E p \in Procs :
             \/ /\ call[p].pc = "idle"
                /\ \E req \in Requests[scenario][p] : Begin(p, req) \/ BeginService(p, req)
             \/ TakeVcek(p) \/ Verify(p) \/ TakeCrl(p) \/ Validate(p) \/ End(p)
             \/ Getting(p)
             \/ CrashCall(p)
       \/ PowerLossCalls
       \/ RevokeChip

Spec == Init /\ [][Next]_vars

-----------------------------------------------------------------------------
(* Properties. *)

Done(p, res) == call[p].pc = "done" /\ call[p].res = res

(* A peer that is accepted holds a key that genuine hardware of the family *)
(* its certificate declares committed to, in all of its report data and    *)
(* with the nonce of this connection if there is one: whatever shape,      *)
(* collateral or expectation came with it (VerifyOffline, bindingAnchor).  *)
AcceptedBindsKey ==
    \A p \in Procs : Done(p, "accepted") =>
        LET req == call[p].req
            quote == call[p].env.quote
            anchor == ReportDataForKey(req.cert.key, req.nonce)
        IN  /\ quote.signed
            /\ quote.data \in {anchor, pad(anchor, DataWidth)}
            /\ familyFromWire(req.cert.ext.teeType) = {quote.family}
            /\ Family([tag |-> call[p].platform, canonical |-> TRUE]) = quote.family

(* An accepted SEV-SNP peer is what the caller asked for: the values it    *)
(* expects are the report's to their last byte, every component of its TCB *)
(* meets the floor, it runs at VMPL 0, and it is a debug guest only where  *)
(* that is allowed (validateOptions).                                      *)
AcceptedMeetsPolicy ==
    \A p \in Procs : (Done(p, "accepted") /\ Report(p).kind = "report") =>
        LET params == call[p].req.params
            report == Report(p)
        IN  /\ report.vmpl = 0 /\ (report.debug => params.AllowDebug)
            /\ \A i \in 1..2 : report.tcb[i] >= params.MinTCB.tcb[i]
            /\ ~params.MinTCB.fmc
            /\ params.ExpectedLaunchDigest \in {None, report.launch}
            /\ params.ExpectedInitDataHash # None =>
                  report.host = params.ExpectedInitDataHash
                    \o [i \in 1..(HostWidth - Len(params.ExpectedInitDataHash)) |-> Zero]

(* A chip AMD had revoked when the call was made is not accepted by a call *)
(* that checks revocations, however long its certificate has been in the   *)
(* cache (NewCachingKDSGetter, Options.CheckRevocations).                  *)
RevokedNotAccepted ==
    \A p \in Procs :
        (Done(p, "accepted") /\ Report(p).kind = "report"
            /\ call[p].req.opts.CheckRevocations)
        => call[p].vcek.chip \notin call[p].since

(* The certificate AMD issued for the key that signed a report. *)
Endorses(vcek, quote) ==
    /\ vcek.issued /\ quote.signer \in {"vcek", "vlek"} /\ vcek.key = quote.signer
    /\ {vcek.line} = kdsProductLine(quote) /\ vcek.tcb = quote.tcb
    /\ quote.signer = "vcek" => quote.chip \in {vcek.chip, "masked"}

(* What a peer must be, and a verifier must have, for a certificate the    *)
(* peer made with this package to be worth accepting.  The roots of a      *)
(* VLEK are left to go-sev-guest, which has none for Zen4c.                *)
Deserves(req) ==
    LET quote == req.cert.made.quote
        vcek == req.cert.made.vcek
        anchor == ReportDataForKey(req.cert.key, req.nonce)
    IN  /\ req.cert.made # None /\ req.cert.key # "rsa"
        /\ req.params.ExpectedReportData \in {None, anchor}
        /\ quote.signed
        /\ quote.kind \in {"report", "tdx"} => quote.data = pad(anchor, DataWidth)
        /\ quote.kind \in {"vtpm-snp", "vtpm-tdx"} => quote.data = anchor
        /\ quote.kind = "report" =>
              /\ quote.version \in 3..5 /\ PolicyHolds(quote, req.params)
              /\ quote.cpu \in {"Milan", "Genoa", "Zen4c"}
              /\ quote.cpu = "Zen4c" => quote.signer = "vcek"
              /\ IF vcek # None THEN Endorses(vcek, quote)
                 ELSE /\ quote.signer = "vcek" /\ quote.chip # "masked"
                      /\ req.opts.getter # "none"

(* The chip whose key signed: the report may not say which. *)
PeerChip(made) == IF made.vcek # None THEN made.vcek.chip ELSE made.quote.chip

(* A revocation list the verifier asks for names the peer's key. *)
PeerRevoked(req) ==
    /\ req.opts.CheckRevocations /\ req.cert.made.quote.kind = "report"
    /\ PeerChip(req.cert.made) \in revoked

(* A certificate the guest made with this package from its service's       *)
(* answer is accepted by a peer that can have its collateral, on every     *)
(* platform and whatever the cache went through: disks that are full,      *)
(* processes that die, power losses, and calls for the same chip before a  *)
(* TCB update.  Only a service that does not answer stands in its way      *)
(* (NewAttestation, VerifyEnvelope, GetContext: "a failed write only costs *)
(* the next caller a fetch").                                              *)
HonestIsAccepted ==
    \A p \in Procs :
        (/\ call[p].pc = "done" /\ call[p].req.via = "offline"
         /\ call[p].req.cert.made # None /\ ~proxied /\ ~call[p].failed
         /\ Deserves(call[p].req) /\ ~PeerRevoked(call[p].req))
        => call[p].res = "accepted"

(* The list a measuring TDX guest embeds is the one the relying party's    *)
(* client is given to replay, and a guest without a register brings none:  *)
(* no honest certificate is refused for its list (MarshalExtension,        *)
(* UnmarshalExtension, VerifyWithService).                                 *)
ListIsDelivered ==
    \A p \in Procs :
        (/\ call[p].pc = "done" /\ call[p].req.via = "service"
         /\ call[p].req.cert.made # None /\ call[p].req.cert.key # "rsa"
         /\ call[p].req.params.ExpectedReportData = None)
        => /\ call[p].posted # None
           /\ call[p].posted.claimed =
                 IF Family(call[p].posted.env.Platform) = "tdx"
                 THEN call[p].req.cert.measured ELSE << >>
           /\ call[p].posted.env.quote = call[p].req.cert.made.quote
           /\ call[p].posted.anchor = ReportDataForKey(call[p].req.cert.key, call[p].req.nonce)

=============================================================================
