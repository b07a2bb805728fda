-------------------------------- MODULE VTpm --------------------------------
(***************************************************************************)
(* azsnp.VerifyEvidence and aztdx.VerifyEvidence with tpmcommon: evidence  *)
(* of an Azure guest, which is a hardware report, the HCL's runtime data   *)
(* that it binds, and a vTPM quote signed by the key in that data.         *)
(*                                                                         *)
(* The guests and their vTPMs are external: software extends registers and *)
(* asks for quotes, and whoever sends the evidence puts it together from   *)
(* the pieces of several guests and from pieces of its own.  What cannot   *)
(* be made up is a hardware report, and a signature by the attestation key *)
(* (AK) of a guest's vTPM over a statement that bears the TPM's magic.     *)
(* Hashes are injective: a digest is written as what was hashed, and a     *)
(* register's value as bytes that each name the extends they are of.       *)
(***************************************************************************)
EXTENDS Integers, Sequences, FiniteSetsExt, SequencesExt, Ordering

CONSTANTS
    Guests,         \* the genuine guests
    Machine,        \* Machine[g]: a guest's platform and launch digest
    PCRs,           \* 0..n, the registers of a vTPM
    InitPCR,        \* PCR[8], which holds the init data
    Measurements,   \* what software extends, and init data hashes
    Width,          \* Width[alg]: the bytes of a register in the bank of alg
    Selections,     \* the lists of banks and registers a quote may be asked for
    Nonces,         \* byte strings a quote may carry
    Forged,         \* what a sender makes up: runtime data, reports, signatures, banks
    Params,         \* what a caller may expect
    Wrong,          \* an expected hash of the wrong size
    None,
    MaxExtends, MaxQuotes   \* bounds on what the vTPMs do, over all guests

ASSUME NoneIsNoVerdict == None \notin BOOLEAN

(* No hardware report can be made up, and no statement of a TPM signed     *)
(* with a guest's key.                                                     *)
ASSUME ForgedAssumption ==
    /\ \A r \in Forged.reports : ~r.genuine
    /\ \A s \in Forged.signatures, g \in Guests : s.key = <<"AK", g>> => ~s.over.magic

ASSUME RegistersAssumption ==
    /\ PCRs \in SUBSET Nat /\ PCRs # {} /\ IsFiniteSet(PCRs)
    /\ "sha256" \in DOMAIN Width /\ \A alg \in DOMAIN Width : Width[alg] \in Nat \ {0}
    /\ \A sel \in Selections :
          sel \in Seq([alg : DOMAIN Width, regs : SUBSET PCRs])

ASSUME ParamsAssumption ==
    \A p \in Params :
        p = [ExpectedReportData |-> p.ExpectedReportData,
             ExpectedInitDataHash |-> p.ExpectedInitDataHash,
             ExpectedLaunchDigest |-> p.ExpectedLaunchDigest]

VARIABLES
    pcr,        \* pcr[g]: the registers of a guest's vTPM, alike in all its banks
    quoted,     \* what each vTPM signed: the nonce, the selection, the registers then
    extends,    \* registers extended so far
    params,     \* the caller's VerifyParams, None before the call
    res         \* the VerificationResult, None on error or before the end

vars == <<pcr, quoted, extends, params, res>>

-----------------------------------------------------------------------------
(* What a guest really has.  A register is the sequence of its extends.    *)
Zeros == [i \in PCRs |-> << >>]

(* The HCL's runtime data: the vTPM's keys as a JWK set. *)
VarData(g) ==
    [form |-> "jwk",
     keys |-> <<[kid |-> "HCLEkPub", rsa |-> TRUE, pub |-> <<"EK", g>>],
                [kid |-> "HCLAkPub", rsa |-> TRUE, pub |-> <<"AK", g>>]>>]

ReportType(platform) == IF platform = "az-snp" THEN 2 ELSE 4

HCL(g) == [whole |-> TRUE, reportType |-> ReportType(Machine[g].platform),
           varData |-> VarData(g)]

(* The hardware report: the HCL made it over the hash of its runtime data. *)
Report(g) == [genuine |-> TRUE, platform |-> Machine[g].platform,
              launch |-> Machine[g].launch, reportData |-> VarData(g)]

(* A register's value in a bank: as many bytes as the algorithm's digest. *)
Value(alg, history) ==
    [k \in 1..Width[alg] |-> [alg |-> alg, of |-> history, byte |-> k]]

(* Values of w bytes each, one after the other. *)
Joined(values, w) ==
    [b \in 1..(Len(values) * w) |-> values[1 + ((b - 1) \div w)][1 + ((b - 1) % w)]]

(* The bytes that one bank's selection puts under the digest. *)
Covered(bank, registers) ==
    Joined([k \in 1..Cardinality(bank.regs) |->
               Value(bank.alg, registers[Sorted(bank.regs)[k]])], Width[bank.alg])

(* A TPMS_ATTEST: one selection per PCR bank, and the digest over the      *)
(* values in all of them.  Nothing keeps software from asking for several  *)
(* banks, whose values differ in width.                                    *)
Message(q) ==
    [magic |-> TRUE, cut |-> "no", nonce |-> q.nonce, selections |-> q.selected,
     digest |-> FlattenSeq([k \in DOMAIN q.selected |-> Covered(q.selected[k], q.pcrs)])]

(* What the attester sends along: the registers of the SHA-256 bank. *)
Sha256Bank(q) == [i \in PCRs |-> Value("sha256", q.pcrs[i])]

Quote(g, q) ==
    [signature |-> [key |-> <<"AK", g>>, over |-> Message(q)],
     message |-> Message(q), pcrs |-> Sha256Bank(q)]

(* What the vTPMs can come to quote. *)
Registers == [PCRs -> Seq(Measurements)]

Quotes == [nonce : Nonces, selected : Selections, pcrs : Registers]

Bytes == [alg : DOMAIN Width, of : Seq(Measurements), byte : Nat]

Statements ==
    [magic : {TRUE}, cut : {"no"}, nonce : Nonces, selections : Selections,
     digest : Seq(Bytes)]

(* Neither a value of the wrong size nor an absent one is a real one. *)
ASSUME ValuesAssumption ==
    /\ Wrong \notin Measurements
    /\ \A g \in Guests : VarData(g) # None /\ <<"AK", g>> # None
    /\ None \notin [signature : [key : {<<"AK", g>> : g \in Guests}, over : Statements],
                    message : Statements, pcrs : [PCRs -> Seq(Bytes)]]

Evidence(g, q) ==
    [version |-> 1, oversize |-> {}, garbled |-> {}, hcl |-> HCL(g),
     report |-> Report(g), quote |-> Quote(g, q)]

-----------------------------------------------------------------------------
(* tpmcommon.  A step that can fail returns a set: empty, or its result.   *)

ParseHCLReport(hcl) == IF hcl.whole /\ hcl.varData # None THEN {hcl} ELSE {}

(* The first RSA key of the name decides, malformed (None) or not. *)
extractAKPubFromJWK(varData) ==
    LET named == {i \in DOMAIN varData.keys :
                     varData.keys[i].kid = "HCLAkPub" /\ varData.keys[i].rsa}
    IN  IF varData.form # "jwk" \/ named = {} THEN {}
        ELSE {varData.keys[Min(named)].pub} \ {None}

extractAKPubFromTPM2BPublic(varData) ==
    IF varData.form = "tpm2b" /\ varData.keys[1].rsa THEN {varData.keys[1].pub} \ {None}
    ELSE {}

ExtractAKPub(varData) ==
    IF extractAKPubFromJWK(varData) # {} THEN extractAKPubFromJWK(varData)
    ELSE extractAKPubFromTPM2BPublic(varData)

VerifyTPMSignature(signature, message, varData) ==
    \E pub \in ExtractAKPub(varData) : signature = [key |-> pub, over |-> message]

ExtractTPMNonce(message) ==
    IF message.magic /\ message.cut # "nonce" THEN {message.nonce} ELSE {}

(* Mutant: trailing nulls do not count. *)
VerifyTPMNonce_Padded(message, expected) ==
    \E nonce \in ExtractTPMNonce(message) :
        \/ IsPrefix(nonce, expected) /\ \A i \in (Len(nonce) + 1)..Len(expected) : expected[i] = 0
        \/ IsPrefix(expected, nonce) /\ \A i \in (Len(expected) + 1)..Len(nonce) : nonce[i] = 0

VerifyTPMNonce(message, expected) == expected \in ExtractTPMNonce(message)

CheckReportData(message, expected) ==
    IF expected = None THEN {None}
    ELSE IF VerifyTPMNonce(message, expected) THEN {TRUE} ELSE {}

(* The selected registers of every bank in turn and the signed digest.     *)
(* The bank's algorithm is skipped, the magic is not looked at here.       *)
parseQuoteInfo(message) ==
    IF message.cut # "no" THEN {}
    ELSE {[selected |-> FlattenSeq([k \in DOMAIN message.selections |->
                                       Sorted(message.selections[k].regs)]),
           digest |-> message.digest]}

(* The size every PCR sent along must have: 32 bytes. *)
Slot == Width["sha256"]

(* pcrs is a bank as sent, a function on 0..(n - 1) for some n.  Its       *)
(* selected slots, joined, are to be what was hashed.                      *)
VerifyTPMPCRs(message, pcrs) ==
    /\ DOMAIN pcrs # {}
    /\ \A i \in DOMAIN pcrs : pcrs[i] \in [1..Slot -> ToSet(pcrs[i])]
    /\ \E info \in parseQuoteInfo(message) :
          /\ ToSet(info.selected) \subseteq DOMAIN pcrs
          /\ Joined([k \in 1..Len(info.selected) |-> pcrs[info.selected[k]]], Slot)
                = info.digest

SignedPCRSelection(message) ==
    UNION {ToSet(info.selected) : info \in parseQuoteInfo(message)}

(* Mutant: the register is read whether it is signed or not. *)
CheckInitData_Unsigned(message, pcrs, expected) ==
    IF expected = None THEN {None}
    ELSE IF /\ expected # Wrong
            /\ InitPCR \in DOMAIN pcrs /\ pcrs[InitPCR] = Value("sha256", <<expected>>)
         THEN {TRUE} ELSE {}

CheckInitData(message, pcrs, expected) ==
    IF expected = None THEN {None}
    ELSE IF /\ expected # Wrong
            /\ InitPCR \in SignedPCRSelection(message)
            /\ InitPCR \in DOMAIN pcrs /\ pcrs[InitPCR] = Value("sha256", <<expected>>)
         THEN {TRUE} ELSE {}

(* Mutant: the report is not tied to the runtime data. *)
VerifyHCLVarDataBinding_Dropped(reportData, varData) == TRUE

VerifyHCLVarDataBinding(reportData, varData) == reportData = varData

stripTrailingNulls(b) ==
    SubSeq(b, 1, Max({0} \cup {i \in DOMAIN b : b[i] # 0}))

(* The vTPM's claims; without a nonce to extract, SignedData stays the     *)
(* hardware layer's.                                                       *)
ApplyTPMClaims(pcrs, message) ==
    [pcrs |-> [i \in SignedPCRSelection(message) \cap DOMAIN pcrs |-> pcrs[i]],
     nonce |-> ExtractTPMNonce(message),
     SignedData |-> {stripTrailingNulls(n) : n \in ExtractTPMNonce(message)}]

-----------------------------------------------------------------------------
(* azsnp and aztdx. *)

checkFieldSizes(e) == e.oversize = {}

(* The base64 and hex fields, the HCL report and the quote's presence. *)
decode(e, platform) ==
    IF e.garbled # {} \/ e.quote = None THEN {}
    ELSE {hcl \in ParseHCLReport(e.hcl) : hcl.reportType = ReportType(platform)}

(* Mutant: the hardware layer is to find the caller's nonce as well. *)
hwParams_All(p) == p

(* What the vTPM layer checks is not asked of the hardware layer. *)
hwParams(p) == [p EXCEPT !.ExpectedReportData = None, !.ExpectedInitDataHash = None]

(* snp.VerifyReport and tdx.VerifyQuoteBytes, as far as this depends on    *)
(* them: the report's own data is the hash of the runtime data and its     *)
(* init-data field is unset, so neither is what a caller expects.          *)
HardwareAccepts(report, p, platform) ==
    /\ report.genuine /\ report.platform = platform
    /\ p.ExpectedLaunchDigest # None => report.launch = p.ExpectedLaunchDigest
    /\ p.ExpectedReportData = None /\ p.ExpectedInitDataHash = None

VerifyEvidence(e, p, platform) ==
    UNION {{[report |-> e.report, tpm |-> ApplyTPMClaims(e.quote.pcrs, e.quote.message),
             ReportDataMatch |-> rd, InitDataMatch |-> id] :
               rd \in CheckReportData(e.quote.message, p.ExpectedReportData),
               id \in CheckInitData(e.quote.message, e.quote.pcrs, p.ExpectedInitDataHash)} :
        hcl \in {h \in decode(e, platform) :
            /\ e.version = 1 /\ checkFieldSizes(e)
            /\ VerifyTPMSignature(e.quote.signature, e.quote.message, h.varData)
            /\ VerifyTPMPCRs(e.quote.message, e.quote.pcrs)
            /\ HardwareAccepts(e.report, hwParams(p), platform)
            /\ VerifyHCLVarDataBinding(e.report.reportData, h.varData)}}

-----------------------------------------------------------------------------
Platforms == {"az-snp", "az-tdx"}

Made == UNION {{[guest |-> g, quote |-> q] : q \in quoted[g]} : g \in Guests}

(* The quotes a sender can send: any signature, over this or another       *)
(* statement, with any bank.                                               *)
Sendable ==
    LET genuine == {Quote(x.guest, x.quote).signature : x \in Made}
        pairs == {<<s, s.over>> : s \in genuine \cup Forged.signatures}
                   \cup {<<s, f.over>> : s \in genuine, f \in Forged.signatures}
    IN  {[signature |-> sm[1], message |-> sm[2], pcrs |-> b] :
            sm \in pairs, b \in Forged.banks \cup {Sha256Bank(x.quote) : x \in Made}}

Init ==
    /\ pcr = [g \in Guests |-> Zeros]
    /\ quoted = [g \in Guests |-> {}]
    /\ extends = 0
    /\ params = None
    /\ res = None

(* TPM2_PCR_Extend by the guest's software: init data, an image, anything. *)
Extend(g) ==
    /\ params = None /\ extends < MaxExtends
    /\ \E i \in PCRs, x \in Measurements : pcr' = [pcr EXCEPT ![g][i] = Append(@, x)]
    /\ extends' = extends + 1
    /\ UNCHANGED <<quoted, params, res>>

(* The guest starts over with the same vTPM keys. *)
Reboot(g) ==
    /\ params = None /\ pcr[g] # Zeros
    /\ pcr' = [pcr EXCEPT ![g] = Zeros]
    /\ UNCHANGED <<quoted, extends, params, res>>

(* TPM2_Quote by the guest's AK. *)
MakeQuote(g) ==
    /\ params = None
    /\ Cardinality(Made) < MaxQuotes
    /\ \E nonce \in Nonces, sel \in Selections :
          quoted' = [quoted EXCEPT ![g] =
                        @ \cup {[nonce |-> nonce, selected |-> sel, pcrs |-> pcr[g]]}]
    /\ UNCHANGED <<pcr, extends, params, res>>

(* The verifier is called with what somebody sent. *)
Verify(e, platform) ==
    /\ params = None
    /\ \E p \in Params :
          /\ params' = p
          /\ LET result == VerifyEvidence(e, p, platform)
             IN  res' = IF result = {} THEN None ELSE CHOOSE r \in result : TRUE
    /\ UNCHANGED <<pcr, quoted, extends>>

VerifyMixed ==
    \E q \in Sendable,
       hcl \in {HCL(g) : g \in Guests} \cup Forged.hcls,
       report \in {Report(g) : g \in Guests} \cup Forged.reports :
        Verify([version |-> 1, oversize |-> {}, garbled |-> {}, hcl |-> hcl,
                report |-> report, quote |-> q], report.platform)

(* Honest evidence, and what may become of it on the way. *)
Damaged(e) ==
    {e, [e EXCEPT !.version = 2], [e EXCEPT !.oversize = {"hcl_report"}],
     [e EXCEPT !.garbled = {"tpm_quote"}], [e EXCEPT !.hcl.whole = FALSE],
     [e EXCEPT !.hcl.varData = None], [e EXCEPT !.quote = None],
     [e EXCEPT !.quote.pcrs = << >>], [e EXCEPT !.quote.pcrs[0] = << >>]}

VerifyDamaged ==
    \E x \in Made, platform \in Platforms :
        \E e \in Damaged(Evidence(x.guest, x.quote)) : Verify(e, platform)

Returned == params # None /\ UNCHANGED vars

Next ==
    \/ \E g \in Guests : Extend(g) \/ Reboot(g) \/ MakeQuote(g)
    \/ VerifyMixed
    \/ VerifyDamaged
    \/ Returned

Spec == Init /\ [][Next]_vars

-----------------------------------------------------------------------------
(* The quotes made by the guest whose hardware signed the accepted report. *)
Reported == UNION {quoted[g] : g \in {x \in Guests : Report(x) = res.report}}

(* A nonce that matched was quoted, byte for byte, by the vTPM of the very *)
(* guest whose hardware report was accepted: no mixture of two guests'     *)
(* evidence, or of a guest's and invented pieces, is taken for it          *)
(* (VerifyTPMSignature, VerifyTPMNonce, VerifyHCLVarDataBinding).          *)
MatchedNonceIsTheGuests ==
    (res # None /\ res.ReportDataMatch = TRUE) =>
        \E q \in Reported : q.nonce = params.ExpectedReportData

(* The reported guest answered the accepted nonce with quotes of one bank  *)
(* only.  Without that the bytes under the digest can be cut into slots    *)
(* elsewhere than between registers, and the two properties below fail.    *)
OneBankQuoted ==
    \A q \in Reported : q.nonce \in res.tpm.nonce => Len(q.selected) = 1

(* Every register published beside a nonce held that value when that guest *)
(* quoted that nonce over one bank, of whatever algorithm and whatever     *)
(* values were sent along: a bank of another width is never accepted       *)
(* (VerifyTPMPCRs, ApplyTPMClaims: "only PCRs in the quote's signed        *)
(* selection").                                                            *)
PublishedPCRsWereHeld ==
    (res # None /\ res.tpm.nonce # {} /\ OneBankQuoted) =>
        \E q \in Reported :
            /\ res.tpm.nonce = {q.nonce}
            /\ \A i \in DOMAIN res.tpm.pcrs :
                  res.tpm.pcrs[i] = Value(q.selected[1].alg, q.pcrs[i])

(* Init data that matched beside a nonce was the first and only extend of  *)
(* PCR[8] when that guest quoted that nonce over one bank: not of another  *)
(* boot, another guest or an unsigned slot of the bank (CheckInitData).    *)
MatchedInitDataWasMeasured ==
    (res # None /\ res.InitDataMatch = TRUE /\ res.tpm.nonce # {} /\ OneBankQuoted) =>
        \E q \in Reported :
            /\ res.tpm.nonce = {q.nonce}
            /\ q.pcrs[InitPCR] = <<params.ExpectedInitDataHash>>

(* What a caller who knows the guest and its quote would expect of it. *)
Expectations(g, q, selected) ==
    {p \in Params :
        /\ p.ExpectedReportData \in {None, q.nonce}
        /\ p.ExpectedLaunchDigest \in {None, Machine[g].launch}
        /\ \/ p.ExpectedInitDataHash = None
           \/ /\ InitPCR \in selected
              /\ q.pcrs[InitPCR] = <<p.ExpectedInitDataHash>>}

(* A guest's own evidence, quoted over the SHA-256 bank as the attester    *)
(* does, is accepted by the callers whose expectations it meets and by no  *)
(* other, and says so: the nonce and the init data are looked for in the   *)
(* vTPM quote alone, never in the hardware report, which binds the AK, and *)
(* the launch digest still in the report (hwParams).                       *)
HonestEvidenceAccepted ==
    \A g \in Guests : \A q \in quoted[g] : \A regs \in SUBSET PCRs :
        q.selected = <<[alg |-> "sha256", regs |-> regs]>> =>
            \A p \in Params :
                LET results == VerifyEvidence(Evidence(g, q), p, Machine[g].platform)
                IN  /\ results # {} <=> p \in Expectations(g, q, regs)
                    /\ \A r \in results :
                          /\ r.ReportDataMatch = IF p.ExpectedReportData = None THEN None ELSE TRUE
                          /\ r.InitDataMatch = IF p.ExpectedInitDataHash = None THEN None ELSE TRUE
                          /\ r.tpm.pcrs = [i \in regs |-> Value("sha256", q.pcrs[i])]

=============================================================================
