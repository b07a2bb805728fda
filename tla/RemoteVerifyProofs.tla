------------------------- MODULE RemoteVerifyProofs -------------------------
(***************************************************************************)
(* What an accepted peer is, and that a conforming one is accepted, for    *)
(* every guest, policy, claimed list and answer of the service.            *)
(***************************************************************************)
EXTENDS RemoteVerify, SequenceTheorems, TLAPS

(* The exchange as it was when it began. *)
Begun ==
    /\ \E x \in Exchanges :
          guest \in x.guests /\ policy \in x.policies /\ claimed \in x.lists
    /\ evidence \in Evidences(guest)
    /\ HonestBank(evidence, guest)

(* What the checks before the round trip established. *)
Submitted ==
    /\ Family(evidence.Platform) # ""
    /\ policy.MinTcb => Family(evidence.Platform) = "sev-snp"

(* Each phase keeps what the ones before it checked, up to the verdict. *)
Checked ==
    /\ Begun
    /\ pc # "done" => ~Accepted
    /\ (pc \in {"posted", "answered", "enforced"} \/ Accepted) => Submitted
    /\ (pc \in {"answered", "enforced"} \/ Accepted) => resp \in Responses
    /\ (pc = "enforced" \/ Accepted) => EnforceVerdict(resp)
    /\ Accepted => EnforcePinsWithRuntimeLog(resp)

LEMMA InitChecked == Init => Checked
BY NoneIsNoVerdict DEF Init, Checked, Begun, Accepted

LEMMA NextChecked == Checked /\ [Next]_vars => Checked'
<1> SUFFICES ASSUME Checked, [Next]_vars PROVE Checked'
    OBVIOUS
<1>0. Begun' /\ UNCHANGED input
    BY DEF Checked, Begun, HonestBank, Evidences, Claimable, Next, Submit, Answer, AnswerFails,
           CheckVerdict, CheckPins, Done, vars, input
<1>1. UNCHANGED <<guest, evidence, policy, claimed>>
    BY <1>0 DEF input
<1>2. Submitted' <=> Submitted
    BY <1>1 DEF Submitted
<1>3. Responses' = Responses
    BY <1>1 DEF Responses, ClaimSets, GuestRTMR, GuestInitData
<1>4. resp' = resp => (EnforceVerdict(resp)' <=> EnforceVerdict(resp))
    BY <1>1 DEF EnforceVerdict
<1>5. resp' = resp => (EnforcePinsWithRuntimeLog(resp)' <=> EnforcePinsWithRuntimeLog(resp))
    BY <1>1 DEF EnforcePinsWithRuntimeLog, checkVerifiedPlatform, EnforcePCRs, EnforceRTMRs,
                EnforceLaunchMeasurement, EnforceImagesWithRuntimeLog, MatchesImage,
                enforceReplayedBinding, launchDigest
<1>6. CASE Submit
    BY <1>0, <1>2, <1>6 DEF Submit, Refuse, Checked, Accepted, Submitted
<1>7. CASE Answer
    BY <1>0, <1>2, <1>3, <1>7 DEF Answer, Checked, Accepted
<1>8. CASE AnswerFails
    BY <1>0, <1>8 DEF AnswerFails, Refuse, Checked, Accepted
<1>9. CASE CheckVerdict
    BY <1>0, <1>2, <1>3, <1>4, <1>9 DEF CheckVerdict, Refuse, Checked, Accepted
<1>10. CASE CheckPins
    BY <1>0, <1>2, <1>3, <1>4, <1>5, <1>10 DEF CheckPins, Refuse, Checked, Accepted
<1>11. CASE UNCHANGED vars
    BY <1>0, <1>2, <1>3, <1>4, <1>5, <1>11 DEF vars, Checked, Accepted
<1> QED BY <1>6, <1>7, <1>8, <1>9, <1>10, <1>11 DEF Next, Done

LEMMA AlwaysChecked == Spec => []Checked
BY InitChecked, NextChecked, PTL DEF Spec

-----------------------------------------------------------------------------
(* An accepted peer's evidence is fresh, and its floor was one its         *)
(* platform has, whatever fields the service left out.                     *)
THEOREM FreshnessHolds == Spec => []AcceptedIsFresh
<1>1. Checked => AcceptedIsFresh
    <2> SUFFICES ASSUME Checked, Accepted
                 PROVE  /\ resp.SignatureValid
                        /\ policy.ExpectedReportData => guest.fresh
                        /\ policy.ExpectedInitDataHash => guest.initData
                        /\ policy.MinTcb => guest.tag \in {"snp", "az-snp", "gcp-snp"}
        BY DEF AcceptedIsFresh
    <2>1. Submitted /\ resp \in Responses /\ EnforceVerdict(resp)
        BY DEF Checked
    <2>2. resp.SignatureValid
        BY <2>1 DEF EnforceVerdict
    <2>3. ASSUME policy.ExpectedReportData PROVE guest.fresh
        <3>1. resp.ReportDataMatch = "true"
              /\ resp.ReportDataMatch \in Verdicts(policy.ExpectedReportData, guest.fresh)
            BY <2>1, <2>3 DEF EnforceVerdict, Responses
        <3> QED BY <2>3, <3>1 DEF Verdicts
    <2>4. ASSUME policy.ExpectedInitDataHash PROVE guest.initData
        <3>1. resp.InitDataMatch = "true"
              /\ resp.InitDataMatch \in Verdicts(policy.ExpectedInitDataHash, guest.initData)
            BY <2>1, <2>4 DEF EnforceVerdict, Responses
        <3> QED BY <2>4, <3>1 DEF Verdicts
    <2>5. ASSUME policy.MinTcb PROVE guest.tag \in {"snp", "az-snp", "gcp-snp"}
        <3>1. Family(evidence.Platform) = Family([tag |-> guest.tag, canonical |-> TRUE])
            BY DEF Checked, Begun, Evidences, Claimable
        <3>2. Family([tag |-> guest.tag, canonical |-> TRUE]) = "sev-snp"
            BY <2>1, <2>5, <3>1 DEF Submitted
        <3> QED BY <3>2 DEF Family, NormalizePlatform
    <2> QED BY <2>2, <2>3, <2>4, <2>5
<1> QED BY <1>1, AlwaysChecked, PTL

(* A pinned PCR of an accepted peer has the pinned value although the bank *)
(* is the attester's own.                                                  *)
THEOREM PCRsAreTrue == Spec => []AcceptedPCRsAreTrue
<1>1. Checked => AcceptedPCRsAreTrue
    <2> SUFFICES ASSUME Checked, Accepted, NEW i \in DOMAIN policy.PCRs
                 PROVE  guest.pcr[i] = policy.PCRs[i]
        BY DEF AcceptedPCRsAreTrue
    <2>1. resp \in Responses /\ EnforcePCRs(resp, policy.PCRs)
        BY DEF Checked, EnforcePinsWithRuntimeLog
    <2>2. /\ HasVTPMQuote(evidence.Platform) /\ i \in evidence.selection
          /\ resp.Claims.PCR[i] = policy.PCRs[i]
        BY <2>1 DEF EnforcePCRs
    <2>3. resp.Claims.PCR = evidence.bank
        BY <2>1, <2>2 DEF Responses, ClaimSets
    <2>4. evidence.bank[i] = guest.pcr[i]
        BY <2>2 DEF Checked, Begun, HonestBank
    <2> QED BY <2>2, <2>3, <2>4
<1> QED BY <1>1, AlwaysChecked, PTL

(* Without images, an accepted peer has a pinned launch measurement and    *)
(* every pinned register.                                                  *)
THEOREM FlatPinsHold == Spec => []AcceptedMeetsFlatPins
<1>1. Checked => AcceptedMeetsFlatPins
    <2> SUFFICES ASSUME Checked, Accepted, policy.Images = {}
                 PROVE  /\ policy.Measurements # {} => guest.launch \in policy.Measurements
                        /\ \A i \in DOMAIN policy.Registers :
                              i \in DOMAIN GuestRTMR /\ GuestRTMR[i] = policy.Registers[i]
        BY DEF AcceptedMeetsFlatPins
    <2>1. /\ resp \in Responses
          /\ EnforceLaunchMeasurement(resp, policy.Measurements)
          /\ DOMAIN policy.Registers = {} \/ EnforceRTMRs(resp, policy.Registers)
        BY DEF Checked, EnforcePinsWithRuntimeLog
    <2>2. resp.Claims.RTMR = GuestRTMR /\ resp.Claims.LaunchDigest \in {guest.launch, "", "malformed"}
        BY <2>1 DEF Responses, ClaimSets
    <2>3. policy.Measurements # {} => guest.launch \in policy.Measurements
        BY <2>1, <2>2 DEF EnforceLaunchMeasurement, launchDigest
    <2>4. \A i \in DOMAIN policy.Registers :
              i \in DOMAIN GuestRTMR /\ GuestRTMR[i] = policy.Registers[i]
        BY <2>1, <2>2 DEF EnforceRTMRs
    <2> QED BY <2>3, <2>4
<1> QED BY <1>1, AlwaysChecked, PTL

-----------------------------------------------------------------------------
(* Two registers that fold one digest and then a list agree on both. *)
LEMMA FoldsAgree ==
    ASSUME NEW a, NEW b, NEW s, NEW t,
           Len(s) \in Nat, Len(t) \in Nat,
           FromDigestsSeeded(<<a>>, s) = FromDigestsSeeded(<<b>>, t)
    PROVE  a = b /\ Len(s) = Len(t) /\ \A i \in 1..Len(s) : s[i] = t[i]
<1> DEFINE f == [i \in 1..Len(s) |-> Event(s[i])]
           g == [i \in 1..Len(t) |-> Event(t[i])]
           E == {a, b} \cup {f[i] : i \in 1..Len(s)} \cup {g[i] : i \in 1..Len(t)}
           q == <<a>> \o f
<1>1. q = <<b>> \o g
    BY DEF FromDigestsSeeded
<1>2. /\ <<a>> \in Seq(E) /\ <<b>> \in Seq(E)
      /\ Len(<<a>>) = 1 /\ Len(<<b>>) = 1 /\ <<a>>[1] = a /\ <<b>>[1] = b
    OBVIOUS
<1>3. f \in Seq(E) /\ Len(f) = Len(s) /\ g \in Seq(E) /\ Len(g) = Len(t)
    <2>1. f \in [1..Len(s) -> E] /\ g \in [1..Len(t) -> E]
        OBVIOUS
    <2> HIDE DEF E
    <2> QED BY <2>1
<1> HIDE DEF E, f, g
<1>4. \A S : \A u, v \in Seq(S) :
            /\ Len(u \o v) = Len(u) + Len(v)
            /\ \A i \in 1..(Len(u) + Len(v)) :
                  (u \o v)[i] = IF i <= Len(u) THEN u[i] ELSE v[i - Len(u)]
    BY ConcatProperties
<1>5. ASSUME NEW c, NEW h, <<c>> \in Seq(E), Len(<<c>>) = 1, h \in Seq(E), q = <<c>> \o h
      PROVE  /\ Len(q) = 1 + Len(h)
             /\ \A i \in 1..(1 + Len(h)) : q[i] = IF i <= 1 THEN <<c>>[i] ELSE h[i - 1]
    <2> DEFINE u == <<c>>
    <2> HIDE DEF u, q
    <2>1. /\ Len(u \o h) = Len(u) + Len(h)
          /\ \A i \in 1..(Len(u) + Len(h)) :
                (u \o h)[i] = IF i <= Len(u) THEN u[i] ELSE h[i - Len(u)]
        BY <1>4, <1>5 DEF u
    <2> QED BY <1>5, <2>1 DEF u
<1>6. /\ Len(q) = 1 + Len(s) /\ Len(q) = 1 + Len(t)
      /\ \A i \in 1..(1 + Len(s)) : q[i] = IF i <= 1 THEN <<a>>[i] ELSE f[i - 1]
      /\ \A i \in 1..(1 + Len(t)) : q[i] = IF i <= 1 THEN <<b>>[i] ELSE g[i - 1]
    BY <1>1, <1>2, <1>3, <1>5
<1> HIDE DEF q
<1>7. Len(s) = Len(t) /\ a = b
    BY <1>2, <1>6
<1>8. ASSUME NEW i \in 1..Len(s) PROVE s[i] = t[i]
    <2>1. i + 1 \in 1..(1 + Len(s)) /\ ~(i + 1 <= 1) /\ (i + 1) - 1 = i
        OBVIOUS
    <2>2. q[i + 1] = f[i] /\ q[i + 1] = g[i]
        BY <1>6, <1>7, <2>1
    <2>3. Event(s[i]) = Event(t[i])
        BY <1>7, <2>2 DEF f, g
    <2> QED BY <2>3 DEF Event
<1> QED BY <1>7, <1>8

LEMMA FoldNothing ==
    ASSUME NEW a
    PROVE  FromDigestsSeeded(<<a>>, << >>) = <<a>>
BY DEF FromDigestsSeeded

(* The register of a launch digest alone. *)
LEMMA ExtendZero ==
    ASSUME NEW d
    PROVE  Extend(Zero, d) = <<d>>
BY DEF Extend, Zero

(* A digest of one width over some bytes is that record. *)
LEMMA DigestOf ==
    ASSUME NEW x
    PROVE  /\ [f \in {"sha384"} |-> x] = [sha384 |-> x]
           /\ [f \in {"sha256"} |-> x] = [sha256 |-> x]
OBVIOUS

-----------------------------------------------------------------------------
(* The guest's own family, whatever tag its attester wrote. *)
GuestFamily == Family([tag |-> guest.tag, canonical |-> TRUE])

(* The binding of an accepted result is the guest's own. *)
LEMMA BindingIsGuests ==
    ASSUME Checked, Accepted, NEW got \in Binding(resp)
    PROVE  /\ Family(resp.Platform) = GuestFamily
           /\ GuestFamily \in {"tdx", "sev-snp"}
           /\ GuestFamily = "tdx" =>
                 got = FromDigestsSeeded(<<[sha384 |-> guest.file]>>, guest.extends)
           /\ GuestFamily = "sev-snp" => got = GuestInitData
<1>1. /\ Submitted /\ resp \in Responses /\ checkVerifiedPlatform(resp)
      /\ Family(evidence.Platform) = GuestFamily
    BY DEF Checked, Begun, Evidences, Claimable, EnforcePinsWithRuntimeLog, GuestFamily
<1>2. /\ Family(resp.Platform) # ""
      /\ got \in IF HasRegisters(resp.Platform)
                 THEN {resp.Claims.RTMR[i] : i \in {3} \cap DOMAIN resp.Claims.RTMR}
                 ELSE {h \in {resp.Claims.InitData} : h # None /\ DOMAIN h = {"sha256"}}
    BY DEF Binding, checkBindingPlatform
<1>3. Family(resp.Platform) = Family(evidence.Platform)
    <2>1. resp.Platform \in {NormalizePlatform(evidence.Platform),
                            [tag |-> "", canonical |-> TRUE],
                            [tag |-> "dstack", canonical |-> TRUE]}
        BY <1>1 DEF Responses
    <2>2. resp.Platform.tag \in {evidence.Platform.tag, "", "dstack"}
        <3>1. CASE resp.Platform = NormalizePlatform(evidence.Platform)
            BY <3>1 DEF NormalizePlatform
        <3>2. CASE resp.Platform = [tag |-> "", canonical |-> TRUE]
            <4>1. \A x : [tag |-> x, canonical |-> TRUE].tag = x
                OBVIOUS
            <4> QED BY <3>2, <4>1, Zenon
        <3>3. CASE resp.Platform = [tag |-> "dstack", canonical |-> TRUE]
            BY <3>3
        <3> QED BY <2>1, <3>1, <3>2, <3>3, Zenon
    <2>3. resp.Platform.tag = evidence.Platform.tag
        BY <1>2, <2>2 DEF Family, NormalizePlatform
    <2> QED BY <2>3 DEF Family, NormalizePlatform
<1>4. resp.Claims.RTMR = GuestRTMR /\ resp.Claims.InitData = GuestInitData
    BY <1>1 DEF Responses, ClaimSets
<1>5. GuestFamily \in {"tdx", "sev-snp"}
    BY <1>1 DEF Submitted, GuestFamily, Family, NormalizePlatform
<1>6. ASSUME GuestFamily = "tdx"
      PROVE  got = FromDigestsSeeded(<<[sha384 |-> guest.file]>>, guest.extends)
    <2>1. got = GuestRTMR[3]
        BY <1>1, <1>2, <1>3, <1>4, <1>6 DEF HasRegisters
    <2>2. GuestRTMR[3] = FromDigestsSeeded(Seed(guest.file), guest.extends)
        BY <1>6 DEF GuestRTMR, GuestFamily
    <2>3. Seed(guest.file) = <<[sha384 |-> guest.file]>>
        BY ExtendZero DEF Seed
    <2> QED BY <2>1, <2>2, <2>3
<1>7. GuestFamily = "sev-snp" => got = GuestInitData
    BY <1>1, <1>2, <1>3, <1>4 DEF HasRegisters
<1> QED BY <1>1, <1>3, <1>5, <1>6, <1>7

(* A launch digest d that the binding was matched with is that of the      *)
(* guest's file, and the list L replayed over it is what the guest         *)
(* extended.                                                               *)
LEMMA DigestBinds ==
    ASSUME Checked, Accepted, NEW d, NEW L, Len(L) \in Nat,
           NEW got \in Binding(resp),
           NEW want \in bindingFromDigest(resp.Platform, d, << >>),
           GuestFamily = "tdx" => got = FromDigestsSeeded(want, L),
           GuestFamily = "sev-snp" => got = want /\ d # HostData(Paravisor)
    PROVE  /\ guest.tag # "az-snp" /\ guest.file # EmptyBytes
           /\ d \in LaunchFileDigest(GuestFamily, guest.file)
           /\ GuestFamily = "tdx" => /\ Len(guest.extends) = Len(L)
                                     /\ \A i \in 1..Len(L) : guest.extends[i] = L[i]
<1>1. /\ Family(resp.Platform) = GuestFamily
      /\ GuestFamily \in {"tdx", "sev-snp"}
      /\ GuestFamily = "tdx" =>
            got = FromDigestsSeeded(<<[sha384 |-> guest.file]>>, guest.extends)
      /\ GuestFamily = "sev-snp" => got = GuestInitData
    BY BindingIsGuests
<1>2. /\ CheckLaunchFileDigest(GuestFamily, d)
      /\ GuestFamily = "tdx" => want = <<d>>
      /\ GuestFamily = "sev-snp" => want = d
    BY <1>1, ExtendZero, FoldNothing DEF bindingFromDigest
<1>3. Len(guest.extends) \in Nat
    BY ListsAssumption DEF Checked, Begun
<1>4. CASE GuestFamily = "tdx"
    <2>1. FromDigestsSeeded(<<d>>, L) = FromDigestsSeeded(<<[sha384 |-> guest.file]>>, guest.extends)
        BY <1>1, <1>2, <1>4
    <2>2. /\ d = [sha384 |-> guest.file] /\ Len(L) = Len(guest.extends)
          /\ \A i \in 1..Len(L) : L[i] = guest.extends[i]
        BY <1>3, <2>1, FoldsAgree
    <2>3. guest.file # EmptyBytes
        BY <1>2, <1>4, <2>2 DEF CheckLaunchFileDigest, launchFileHash
    <2>4. d \in LaunchFileDigest(GuestFamily, guest.file)
        BY <1>4, <2>2, <2>3, DigestOf DEF LaunchFileDigest, launchFileHash
    <2>5. guest.tag # "az-snp"
        BY <1>4 DEF GuestFamily, Family, NormalizePlatform
    <2> QED BY <2>2, <2>3, <2>4, <2>5
<1>5. CASE GuestFamily = "sev-snp"
    <2>1. d = GuestInitData /\ d # HostData(Paravisor)
        BY <1>1, <1>2, <1>5
    <2>2. guest.tag # "az-snp" /\ d = [sha256 |-> guest.file]
        BY <2>1 DEF GuestInitData, HostData
    <2>3. guest.file # EmptyBytes
        BY <1>2, <1>5, <2>2 DEF CheckLaunchFileDigest, launchFileHash
    <2>4. d \in LaunchFileDigest(GuestFamily, guest.file)
        BY <1>5, <2>2, <2>3, DigestOf DEF LaunchFileDigest, launchFileHash
    <2> QED BY <1>5, <2>2, <2>3, <2>4
<1> QED BY <1>1, <1>4, <1>5

(* The replay of the claimed list over one launch digest. *)
LEMMA ReplayBinds ==
    ASSUME Checked, Accepted, NEW d, NEW expected, NEW accept,
           expected \subseteq bindingFromDigest(resp.Platform, d, << >>),
           enforceReplayedBinding(matchBindingPrefix(resp, claimed, expected), accept),
           GuestFamily = "sev-snp" => d # HostData(Paravisor)
    PROVE  /\ LaunchedWith(guest.file) /\ ExtendsOnly(accept)
           /\ d \in LaunchFileDigest(GuestFamily, guest.file)
<1>1. claimed \in Seq(Refs) /\ Len(claimed) \in Nat
    BY ListsAssumption DEF Checked, Begun
<1>2. PICK k \in matchBindingPrefix(resp, claimed, expected) :
            \A i \in 1..k : accept # None /\ claimed[i].digest \in accept
    BY DEF enforceReplayedBinding
<1>3. /\ \A i \in 1..Len(claimed) : CanonicalEntry(claimed[i])
      /\ \E got \in Binding(resp), want \in expected :
            IF HasRegisters(resp.Platform)
            THEN k \in 0..Len(claimed) /\ got = FromDigestsSeeded(want, Listed(claimed, k))
            ELSE k = 0 /\ got = want
    BY <1>2 DEF matchBindingPrefix
<1>4. PICK got \in Binding(resp), want \in expected :
            IF HasRegisters(resp.Platform)
            THEN k \in 0..Len(claimed) /\ got = FromDigestsSeeded(want, Listed(claimed, k))
            ELSE k = 0 /\ got = want
    BY <1>3
<1>5. HasRegisters(resp.Platform) <=> GuestFamily = "tdx"
    BY BindingIsGuests DEF HasRegisters
<1> DEFINE L == Listed(claimed, k)
<1>6. k \in 0..Len(claimed) /\ Len(L) = k
    BY <1>1, <1>4 DEF Listed
<1>7. \A i \in 1..k : L[i] = claimed[i].digest
    BY <1>1, <1>3, <1>6 DEF Listed, CanonicalEntry, CanonicalDigest
<1>8. /\ GuestFamily = "tdx" => got = FromDigestsSeeded(want, L)
      /\ GuestFamily = "sev-snp" => got = want
    BY <1>4, <1>5
<1> HIDE DEF L
<1>9. /\ guest.tag # "az-snp" /\ guest.file # EmptyBytes
      /\ d \in LaunchFileDigest(GuestFamily, guest.file)
      /\ GuestFamily = "tdx" => /\ Len(guest.extends) = Len(L)
                                /\ \A i \in 1..Len(L) : guest.extends[i] = L[i]
    <2>1. want \in bindingFromDigest(resp.Platform, d, << >>) /\ Len(L) \in Nat
        BY <1>1, <1>4, <1>6
    <2> QED BY <1>8, <2>1, DigestBinds
<1>10. ExtendsOnly(accept)
    BY <1>2, <1>6, <1>7, <1>9 DEF ExtendsOnly, GuestFamily
<1> QED BY <1>9, <1>10 DEF LaunchedWith

(* One file has one digest per family. *)
LEMMA DigestsDiffer ==
    ASSUME NEW x, NEW y, NEW family, NEW d \in LaunchFileDigest(family, x),
           d \in LaunchFileDigest(family, y)
    PROVE  x = y /\ x # EmptyBytes
<1>1. PICK h \in launchFileHash(family) : d = [f \in {h} |-> x] /\ x # EmptyBytes
    BY DEF LaunchFileDigest
<1>2. PICK g \in launchFileHash(family) : d = [f \in {g} |-> y]
    BY DEF LaunchFileDigest
<1>3. h = g
    BY DEF launchFileHash
<1>4. d[h] = x /\ d[g] = y
    BY <1>1, <1>2
<1> QED BY <1>1, <1>3, <1>4

(* What launcher bytes are expected as, by their digest. *)
LEMMA ExpectedOf ==
    ASSUME NEW p, NEW bytes, Family(p) \in {"tdx", "sev-snp"},
           expectedBinding(p, bytes, << >>) # {}
    PROVE  \E d \in LaunchFileDigest(Family(p), bytes) :
              /\ expectedBinding(p, bytes, << >>) = bindingFromDigest(p, d, << >>)
              /\ Family(p) = "sev-snp" => d = HostData(bytes)
<1> DEFINE D == LaunchFileDigest(Family(p), bytes)
<1>1. expectedBinding(p, bytes, << >>) = UNION {bindingFromDigest(p, d, << >>) : d \in D}
    BY DEF expectedBinding
<1>2. PICK h : launchFileHash(Family(p)) = {h} /\ (Family(p) = "sev-snp" => h = "sha256")
    BY DEF launchFileHash
<1>3. D \subseteq {[f \in {h} |-> bytes]}
    BY <1>2 DEF LaunchFileDigest
<1>4. D # {}
    BY <1>1
<1>5. D = {[f \in {h} |-> bytes]}
    BY <1>3, <1>4
<1> HIDE DEF D
<1>6. expectedBinding(p, bytes, << >>) = bindingFromDigest(p, [f \in {h} |-> bytes], << >>)
    BY <1>1, <1>5
<1>7. Family(p) = "sev-snp" => [f \in {h} |-> bytes] = HostData(bytes)
    BY <1>2, DigestOf DEF HostData
<1>8. [f \in {h} |-> bytes] \in LaunchFileDigest(Family(p), bytes)
    BY <1>5 DEF D
<1> QED BY <1>6, <1>7, <1>8

-----------------------------------------------------------------------------
(* An accepted peer is in every part what one pinned image says, whatever  *)
(* tag, bank and list its attester chose.  The argument: the result's      *)
(* binding is the guest's own (BindingIsGuests), a fold determines what    *)
(* was folded (FoldsAgree), so the replayed list is what the guest         *)
(* extended and the launch digest that of its file (ReplayBinds).          *)
THEOREM OneImageHolds == Spec => []AcceptedIsPinnedImage
<1>1. ASSUME Checked, Accepted, policy.Images # {}
      PROVE  \E img \in policy.Images : GuestIs(img)
    <2>1. PICK img \in policy.Images : MatchesImage(resp, img)
        BY <1>1 DEF Checked, EnforcePinsWithRuntimeLog, EnforceImagesWithRuntimeLog
    <2>2. /\ resp.Claims.RTMR = GuestRTMR
          /\ resp.Claims.LaunchDigest \in {guest.launch, "", "malformed"}
        BY <1>1 DEF Checked, Responses, ClaimSets
    <2>3. /\ Paravisor # img.Anchor /\ Paravisor # img.LaunchFile
          /\ img.LaunchFileDigest # HostData(Paravisor)
        BY <1>1, ParavisorIsNoPin DEF Checked, Begun
    <2>4. guest.launch = img.Digest
        BY <2>1, <2>2 DEF MatchesImage, launchDigest
    <2>5. \A i \in DOMAIN img.Registers :
              i \in DOMAIN GuestRTMR /\ GuestRTMR[i] = img.Registers[i]
        BY <2>1, <2>2 DEF MatchesImage, EnforceRTMRs
    <2>6. ASSUME NEW bytes, bytes # Paravisor, expectedBinding(resp.Platform, bytes, << >>) # {},
                 Binding(resp) # {}
          PROVE  \E d \in LaunchFileDigest(GuestFamily, bytes) :
                    /\ expectedBinding(resp.Platform, bytes, << >>)
                          = bindingFromDigest(resp.Platform, d, << >>)
                    /\ GuestFamily = "sev-snp" => d # HostData(Paravisor)
        <3>1. Family(resp.Platform) = GuestFamily /\ GuestFamily \in {"tdx", "sev-snp"}
            BY <1>1, <2>6, BindingIsGuests
        <3>2. HostData(bytes) # HostData(Paravisor)
            BY <2>6 DEF HostData
        <3> QED BY <2>6, <3>1, <3>2, ExpectedOf
    <2>7. ASSUME img.Anchor # None
          PROVE  LaunchedWith(img.Anchor) /\ ExtendsOnly(img.AcceptExtension)
        <3> DEFINE E == expectedBinding(resp.Platform, img.Anchor, << >>)
        <3>1. enforceReplayedBinding(matchBindingPrefix(resp, claimed, E), img.AcceptExtension)
            BY <2>1, <2>7 DEF MatchesImage, MatchBindingPrefix
        <3>2. E # {} /\ Binding(resp) # {}
            BY <3>1 DEF enforceReplayedBinding, matchBindingPrefix
        <3>3. PICK d \in LaunchFileDigest(GuestFamily, img.Anchor) :
                /\ E = bindingFromDigest(resp.Platform, d, << >>)
                /\ GuestFamily = "sev-snp" => d # HostData(Paravisor)
            BY <2>3, <2>6, <3>2
        <3> HIDE DEF E
        <3>4. /\ LaunchedWith(guest.file) /\ ExtendsOnly(img.AcceptExtension)
              /\ d \in LaunchFileDigest(GuestFamily, guest.file)
            BY <1>1, <3>1, <3>3, ReplayBinds
        <3>5. guest.file = img.Anchor
            BY <3>3, <3>4, DigestsDiffer
        <3> QED BY <3>4, <3>5
    <2>8. ASSUME img.LaunchFile # None
          PROVE  LaunchedWith(img.LaunchFile) /\ ExtendsOnly({})
        <3> DEFINE E == expectedBinding(resp.Platform, img.LaunchFile, << >>)
        <3>1. PICK got \in Binding(resp) : got \in E
            BY <2>1, <2>8 DEF MatchesImage, VerifyBinding
        <3>2. PICK d \in LaunchFileDigest(GuestFamily, img.LaunchFile) :
                /\ E = bindingFromDigest(resp.Platform, d, << >>)
                /\ GuestFamily = "sev-snp" => d # HostData(Paravisor)
            BY <2>3, <2>6, <3>1
        <3> HIDE DEF E
        <3>3. GuestFamily = "tdx" => got = FromDigestsSeeded(got, << >>)
            <4>1. Family(resp.Platform) = GuestFamily
                BY <1>1, BindingIsGuests
            <4>2. GuestFamily = "tdx" => got = <<d>>
                BY <3>1, <3>2, <4>1, ExtendZero, FoldNothing DEF bindingFromDigest
            <4> QED BY <4>2, FoldNothing
        <3>4. /\ guest.tag # "az-snp" /\ guest.file # EmptyBytes
              /\ d \in LaunchFileDigest(GuestFamily, guest.file)
              /\ GuestFamily = "tdx" => Len(guest.extends) = Len(<< >>)
            <4>1. Len(<< >>) \in Nat
                OBVIOUS
            <4> QED BY <1>1, <3>1, <3>2, <3>3, <4>1, DigestBinds
        <3>5. guest.file = img.LaunchFile
            BY <3>2, <3>4, DigestsDiffer
        <3>6. ExtendsOnly({})
            BY <3>4 DEF ExtendsOnly, GuestFamily
        <3> QED BY <3>4, <3>5, <3>6 DEF LaunchedWith
    <2>9. ASSUME img.LaunchFileDigest # None
          PROVE  /\ LaunchedWith(guest.file) /\ ExtendsOnly(img.AcceptExtension)
                 /\ img.LaunchFileDigest \in LaunchFileDigest(GuestFamily, guest.file)
        <3> DEFINE E == bindingFromDigest(resp.Platform, img.LaunchFileDigest, << >>)
        <3>1. enforceReplayedBinding(matchBindingPrefix(resp, claimed, E), img.AcceptExtension)
            BY <2>1, <2>9 DEF MatchesImage, MatchLaunchFileDigestPrefix
        <3> HIDE DEF E
        <3>2. E \subseteq bindingFromDigest(resp.Platform, img.LaunchFileDigest, << >>)
            BY DEF E
        <3> QED BY <1>1, <2>3, <3>1, <3>2, ReplayBinds
    <2>10. GuestIs(img)
        BY <2>4, <2>5, <2>7, <2>8, <2>9 DEF GuestIs, GuestFamily
    <2> QED BY <2>10
<1>2. Checked => AcceptedIsPinnedImage
    BY <1>1 DEF AcceptedIsPinnedImage
<1> QED BY <1>2, AlwaysChecked, PTL

-----------------------------------------------------------------------------
(* The other direction: why a verification refuses. *)

(* The service answered evidence that was fit to be sent. *)
Answered ==
    Begun /\ Submitted /\ resp \in Responses

(* A refusal after an answer names a check that the answer failed. *)
Explained ==
    /\ pc \in {"start", "posted"} => resp = None
    /\ (pc = "done" /\ ~Accepted) =>
          \/ resp = None
          \/ Answered /\ (EnforceVerdict(resp) => ~EnforcePinsWithRuntimeLog(resp))

LEMMA InitExplained == Init => Explained
BY DEF Init, Explained

LEMMA NextExplained == Checked /\ Explained /\ [Next]_vars => Explained'
<1> SUFFICES ASSUME Checked, Explained, [Next]_vars PROVE Explained'
    OBVIOUS
<1>0. Checked'
    BY NextChecked
<1>1. UNCHANGED <<guest, evidence, policy, claimed>>
    BY DEF Next, Submit, Answer, AnswerFails, CheckVerdict, CheckPins, Done, vars, input
<1>2. (Submitted' <=> Submitted) /\ (Begun' <=> Begun) /\ Begun
    BY <1>0, <1>1 DEF Submitted, Checked
<1>3. Responses' = Responses
    BY <1>1 DEF Responses, ClaimSets, GuestRTMR, GuestInitData
<1>4. resp' = resp => (EnforceVerdict(resp)' <=> EnforceVerdict(resp))
    BY <1>1 DEF EnforceVerdict
<1>5. resp' = resp => (EnforcePinsWithRuntimeLog(resp)' <=> EnforcePinsWithRuntimeLog(resp))
    BY <1>1 DEF EnforcePinsWithRuntimeLog, checkVerifiedPlatform, EnforcePCRs, EnforceRTMRs,
                EnforceLaunchMeasurement, EnforceImagesWithRuntimeLog, MatchesImage,
                enforceReplayedBinding, launchDigest
<1>6. CASE Submit
    BY <1>6 DEF Submit, Refuse, Explained, Accepted
<1>7. CASE Answer
    BY <1>7 DEF Answer, Explained, Accepted
<1>8. CASE AnswerFails
    BY <1>8 DEF AnswerFails, Refuse, Explained, Accepted
<1>9. CASE CheckVerdict
    <2>1. pc = "answered" /\ resp' = resp /\ pc' \in {"enforced", "done"}
          /\ (pc' = "done" => ~EnforceVerdict(resp))
        BY <1>9 DEF CheckVerdict, Refuse
    <2>2. Submitted /\ resp \in Responses
        BY <2>1 DEF Checked
    <2> QED BY <1>2, <1>3, <1>4, <2>1, <2>2 DEF Explained, Answered
<1>10. CASE CheckPins
    <2>1. pc = "enforced" /\ resp' = resp /\ pc' = "done"
          /\ (EnforcePinsWithRuntimeLog(resp) => verdict' = "accepted")
        BY <1>10 DEF CheckPins, Refuse
    <2>2. Submitted /\ resp \in Responses
        BY <2>1 DEF Checked
    <2> QED BY <1>2, <1>3, <1>5, <2>1, <2>2 DEF Explained, Answered, Accepted
<1>11. CASE UNCHANGED vars
    BY <1>2, <1>3, <1>4, <1>5, <1>11 DEF vars, Explained, Answered, Accepted
<1> QED BY <1>6, <1>7, <1>8, <1>9, <1>10, <1>11 DEF Next, Done

(* The binding in a full answer about a guest that has one. *)
LEMMA GuestsBinding ==
    ASSUME Answered, AnsweredInFull, guest.tag # "az-snp"
    PROVE  /\ Family(resp.Platform) = GuestFamily
           /\ Family(evidence.Platform) = GuestFamily
           /\ GuestFamily \in {"tdx", "sev-snp"}
           /\ checkBindingPlatform(resp.Platform)
           /\ GuestFamily = "tdx" => FromDigestsSeeded(<<[sha384 |-> guest.file]>>, guest.extends)
                                        \in Binding(resp)
           /\ GuestFamily = "sev-snp" => [sha256 |-> guest.file] \in Binding(resp)
<1>1. /\ evidence.Platform \in Claimable(guest)
      /\ Family(evidence.Platform) # ""
    BY DEF Answered, Begun, Evidences, Submitted
<1>2. Family(evidence.Platform) = GuestFamily /\ evidence.Platform.tag # "az-snp"
    BY <1>1 DEF Claimable, GuestFamily
<1>3. resp.Platform.tag = evidence.Platform.tag /\ resp.SignatureValid
    BY DEF AnsweredInFull, NormalizePlatform
<1>4. Family(resp.Platform) = GuestFamily
    BY <1>2, <1>3 DEF Family, NormalizePlatform
<1>5. GuestFamily \in {"tdx", "sev-snp"}
    BY <1>1, <1>2 DEF Family
<1>6. checkBindingPlatform(resp.Platform)
    <2>1. NormalizePlatform(resp.Platform).tag = evidence.Platform.tag
        BY <1>3 DEF NormalizePlatform
    <2> QED BY <1>2, <1>4, <1>5, <2>1 DEF checkBindingPlatform
<1>7. resp.Claims.RTMR = GuestRTMR /\ resp.Claims.InitData = GuestInitData
    BY DEF Answered, Responses, ClaimSets
<1>8. ASSUME GuestFamily = "tdx"
      PROVE  FromDigestsSeeded(<<[sha384 |-> guest.file]>>, guest.extends) \in Binding(resp)
    <2>1. 3 \in DOMAIN GuestRTMR /\ GuestRTMR[3] = FromDigestsSeeded(Seed(guest.file), guest.extends)
        BY <1>8 DEF GuestRTMR, GuestFamily
    <2>2. Seed(guest.file) = <<[sha384 |-> guest.file]>>
        BY ExtendZero DEF Seed
    <2>3. GuestRTMR[3] \in Binding(resp)
        BY <1>3, <1>4, <1>6, <1>7, <1>8, <2>1 DEF Binding, HasRegisters
    <2> QED BY <2>1, <2>2, <2>3
<1>9. ASSUME GuestFamily = "sev-snp"
      PROVE  [sha256 |-> guest.file] \in Binding(resp)
    <2>1. GuestInitData = HostData(guest.file) /\ HostData(guest.file) # None
        BY GuestsAssumption DEF GuestInitData, Answered, Begun
    <2>2. DOMAIN HostData(guest.file) = {"sha256"}
        BY DEF HostData
    <2>3. HostData(guest.file) \in Binding(resp)
        BY <1>3, <1>4, <1>6, <1>7, <1>9, <2>1, <2>2 DEF Binding, HasRegisters
    <2> QED BY <2>3 DEF HostData
<1> QED BY <1>2, <1>4, <1>5, <1>6, <1>8, <1>9

(* What the launch digest of the guest's own file makes a verifier expect. *)
LEMMA GuestsDigest ==
    ASSUME Answered, AnsweredInFull, LaunchedWith(guest.file),
           NEW d \in LaunchFileDigest(GuestFamily, guest.file)
    PROVE  /\ GuestFamily = "tdx" => d = [sha384 |-> guest.file]
           /\ GuestFamily = "sev-snp" => d = [sha256 |-> guest.file]
           /\ expectedBinding(resp.Platform, guest.file, << >>)
                 = bindingFromDigest(resp.Platform, d, << >>)
           /\ GuestFamily = "tdx" => bindingFromDigest(resp.Platform, d, << >>) = {<<d>>}
           /\ GuestFamily = "sev-snp" => bindingFromDigest(resp.Platform, d, << >>) = {d}
<1>1. /\ Family(resp.Platform) = GuestFamily /\ GuestFamily \in {"tdx", "sev-snp"}
      /\ checkBindingPlatform(resp.Platform)
    BY GuestsBinding DEF LaunchedWith
<1>2. guest.file \notin {EmptyBytes, ZeroBytes}
    BY GuestsAssumption DEF LaunchedWith, Answered, Begun
<1>3. PICK h : /\ launchFileHash(GuestFamily) = {h}
               /\ GuestFamily = "tdx" => h = "sha384"
               /\ GuestFamily = "sev-snp" => h = "sha256"
    BY <1>1 DEF launchFileHash
<1>4. LaunchFileDigest(GuestFamily, guest.file) = {[f \in {h} |-> guest.file]}
    BY <1>2, <1>3 DEF LaunchFileDigest
<1>5. d = [f \in {h} |-> guest.file]
    BY <1>4
<1>6. CheckLaunchFileDigest(GuestFamily, d)
    <2>1. DOMAIN d = {h} /\ d[h] = guest.file
        BY <1>5
    <2> QED BY <1>2, <1>3, <2>1 DEF CheckLaunchFileDigest
<1>7. expectedBinding(resp.Platform, guest.file, << >>) = bindingFromDigest(resp.Platform, d, << >>)
    <2>1. LaunchFileDigest(GuestFamily, guest.file) = {d}
        BY <1>4, <1>5
    <2> QED BY <1>1, <2>1 DEF expectedBinding
<1>8. GuestFamily = "tdx" => bindingFromDigest(resp.Platform, d, << >>) = {<<d>>}
    BY <1>1, <1>6, ExtendZero, FoldNothing DEF bindingFromDigest
<1>9. GuestFamily = "sev-snp" => bindingFromDigest(resp.Platform, d, << >>) = {d}
    BY <1>1, <1>6 DEF bindingFromDigest
<1>10. GuestFamily = "tdx" => d = [sha384 |-> guest.file]
    BY <1>3, <1>5, DigestOf
<1>11. GuestFamily = "sev-snp" => d = [sha256 |-> guest.file]
    BY <1>3, <1>5, DigestOf
<1> QED BY <1>7, <1>8, <1>9, <1>10, <1>11

(* An honest list replays over the digest of the guest's file, and what is *)
(* replayed is what the guest extended.                                    *)
LEMMA HonestReplay ==
    ASSUME Answered, AnsweredInFull, HonestList, LaunchedWith(guest.file),
           NEW d \in LaunchFileDigest(GuestFamily, guest.file),
           NEW accept, ExtendsOnly(accept)
    PROVE  enforceReplayedBinding(matchBindingPrefix(resp, claimed,
                bindingFromDigest(resp.Platform, d, << >>)), accept)
<1> DEFINE E == bindingFromDigest(resp.Platform, d, << >>)
           n == Len(guest.extends)
           g == FromDigestsSeeded(<<d>>, guest.extends)
           First(ks) == {k \in ks : \A j \in ks : k <= j}
<1>1. /\ Family(resp.Platform) = GuestFamily /\ GuestFamily \in {"tdx", "sev-snp"}
      /\ GuestFamily = "tdx" => FromDigestsSeeded(<<[sha384 |-> guest.file]>>, guest.extends)
                                   \in Binding(resp)
      /\ GuestFamily = "sev-snp" => [sha256 |-> guest.file] \in Binding(resp)
    BY GuestsBinding DEF LaunchedWith
<1>2. /\ GuestFamily = "tdx" => <<d>> \in E /\ g \in Binding(resp)
      /\ GuestFamily = "sev-snp" => d \in E /\ d \in Binding(resp)
    BY <1>1, GuestsDigest
<1>3. /\ n \in Nat /\ guest.extends = [i \in 1..n |-> guest.extends[i]]
      /\ Len(claimed) \in Nat /\ n <= Len(claimed)
      /\ \A i \in 1..n : guest.extends[i] = claimed[i].digest
      /\ \A i \in 1..Len(claimed) : CanonicalEntry(claimed[i])
    <2>1. /\ claimed \in Seq(Refs) /\ n \in Nat
          /\ guest.extends = [i \in 1..n |-> guest.extends[i]]
        BY ListsAssumption DEF Answered, Begun
    <2>2. Len(claimed) \in Nat
        BY <2>1
    <2> QED BY <2>1, <2>2 DEF HonestList
<1> HIDE DEF E
<1>4. CASE GuestFamily = "tdx"
    <2> DEFINE H(got, want) == {k \in 0..Len(claimed) :
                                   got = FromDigestsSeeded(want, Listed(claimed, k))}
    <2>1. matchBindingPrefix(resp, claimed, E)
             = UNION {First(H(got, want)) : got \in Binding(resp), want \in E}
        BY <1>1, <1>3, <1>4 DEF matchBindingPrefix, HasRegisters
    <2>2. Listed(claimed, n) = guest.extends
        <3>1. \A i \in 1..n : i \in 1..Len(claimed) /\ CanonicalDigest(claimed[i]) = guest.extends[i]
            BY <1>3 DEF CanonicalEntry, CanonicalDigest
        <3>2. [i \in 1..n |-> CanonicalDigest(claimed[i])] = [i \in 1..n |-> guest.extends[i]]
            BY <3>1
        <3> QED BY <1>3, <3>2 DEF Listed
    <2>3. n \in H(g, <<d>>)
        BY <1>3, <2>2
    <2>4. ASSUME NEW j \in H(g, <<d>>) PROVE n <= j
        <3>1. j \in Nat /\ FromDigestsSeeded(<<d>>, guest.extends)
                             = FromDigestsSeeded(<<d>>, Listed(claimed, j))
            BY <1>3, <2>4
        <3>2. Len(Listed(claimed, j)) = j
            BY <3>1 DEF Listed
        <3>3. n = j
            BY <1>3, <3>1, <3>2, FoldsAgree
        <3> QED BY <1>3, <3>3
    <2>5. n \in First(H(g, <<d>>))
        BY <2>3, <2>4
    <2> HIDE DEF First, H
    <2>6. n \in matchBindingPrefix(resp, claimed, E)
        BY <1>2, <1>4, <2>1, <2>5
    <2>7. \A i \in 1..n : accept # None /\ claimed[i].digest \in accept
        BY <1>3, <1>4 DEF ExtendsOnly, GuestFamily
    <2> QED BY <2>6, <2>7 DEF enforceReplayedBinding, E
<1>5. CASE GuestFamily = "sev-snp"
    <2> DEFINE H(got, want) == {k \in {0} : got = want}
    <2>1. matchBindingPrefix(resp, claimed, E)
             = UNION {First(H(got, want)) : got \in Binding(resp), want \in E}
        BY <1>1, <1>3, <1>5 DEF matchBindingPrefix, HasRegisters
    <2>2. 0 \in First(H(d, d))
        OBVIOUS
    <2> HIDE DEF First, H
    <2>3. 0 \in matchBindingPrefix(resp, claimed, E)
        BY <1>2, <1>5, <2>1, <2>2
    <2>4. \A i \in 1..0 : accept # None /\ claimed[i].digest \in accept
        OBVIOUS
    <2> QED BY <2>3, <2>4 DEF enforceReplayedBinding, E
<1> QED BY <1>1, <1>4, <1>5

(* A pin that describes the guest matches a full answer about it. *)
LEMMA PinMatches ==
    ASSUME Answered, AnsweredInFull, HonestList, NEW img, GuestIs(img)
    PROVE  MatchesImage(resp, img)
<1>1. /\ resp.Claims.RTMR = GuestRTMR /\ resp.Claims.LaunchDigest = guest.launch
      /\ guest.launch \notin {"", "malformed"}
    BY GuestsAssumption DEF Answered, Begun, Responses, ClaimSets, AnsweredInFull
<1>2. img.Digest \in launchDigest(resp)
    BY <1>1 DEF GuestIs, launchDigest
<1>3. Family(evidence.Platform) = GuestFamily
    BY DEF Answered, Begun, Evidences, Claimable, GuestFamily
<1>4. ASSUME DOMAIN img.Registers # {}
      PROVE  HasRegisters(evidence.Platform) /\ EnforceRTMRs(resp, img.Registers)
    <2>1. \A i \in DOMAIN img.Registers : i \in DOMAIN GuestRTMR /\ GuestRTMR[i] = img.Registers[i]
        BY DEF GuestIs
    <2>2. GuestFamily = "tdx"
        <3> SUFFICES ASSUME GuestFamily # "tdx" PROVE FALSE
            OBVIOUS
        <3>1. GuestRTMR = << >>
            BY DEF GuestRTMR, GuestFamily
        <3>2. DOMAIN GuestRTMR = {}
            BY <3>1
        <3> QED BY <1>4, <2>1, <3>2
    <2> QED BY <1>1, <1>3, <2>1, <2>2 DEF HasRegisters, EnforceRTMRs
<1>5. ASSUME LaunchedWith(guest.file)
      PROVE  \E d : d \in LaunchFileDigest(GuestFamily, guest.file)
    <2>1. GuestFamily \in {"tdx", "sev-snp"} /\ guest.file # EmptyBytes
        BY <1>5, GuestsBinding DEF LaunchedWith
    <2>2. \E h : h \in launchFileHash(GuestFamily)
        BY <2>1 DEF launchFileHash
    <2> QED BY <2>1, <2>2 DEF LaunchFileDigest
<1>6. ASSUME img.Anchor # None
      PROVE  enforceReplayedBinding(MatchBindingPrefix(resp, img.Anchor, claimed),
                                    img.AcceptExtension)
    <2>1. /\ LaunchedWith(guest.file) /\ guest.file = img.Anchor
          /\ ExtendsOnly(img.AcceptExtension)
        BY <1>6 DEF GuestIs, LaunchedWith
    <2>2. PICK d : d \in LaunchFileDigest(GuestFamily, guest.file)
        BY <1>5, <2>1
    <2>3. expectedBinding(resp.Platform, img.Anchor, << >>) = bindingFromDigest(resp.Platform, d, << >>)
        BY <2>1, <2>2, GuestsDigest
    <2>4. enforceReplayedBinding(matchBindingPrefix(resp, claimed,
              bindingFromDigest(resp.Platform, d, << >>)), img.AcceptExtension)
        BY <2>1, <2>2, HonestReplay
    <2> QED BY <2>3, <2>4 DEF MatchBindingPrefix
<1>7. ASSUME img.LaunchFile # None
      PROVE  VerifyBinding(resp, img.LaunchFile, << >>)
    <2>1. LaunchedWith(guest.file) /\ guest.file = img.LaunchFile /\ ExtendsOnly({})
        BY <1>7 DEF GuestIs, LaunchedWith
    <2>2. PICK d : d \in LaunchFileDigest(GuestFamily, guest.file)
        BY <1>5, <2>1
    <2>3. /\ GuestFamily = "tdx" => d = [sha384 |-> guest.file]
          /\ GuestFamily = "sev-snp" => d = [sha256 |-> guest.file]
          /\ GuestFamily = "tdx" => <<d>> \in expectedBinding(resp.Platform, img.LaunchFile, << >>)
          /\ GuestFamily = "sev-snp" => d \in expectedBinding(resp.Platform, img.LaunchFile, << >>)
        BY <2>1, <2>2, GuestsDigest
    <2>4. /\ GuestFamily \in {"tdx", "sev-snp"}
          /\ GuestFamily = "tdx" => FromDigestsSeeded(<<[sha384 |-> guest.file]>>, guest.extends)
                                       \in Binding(resp)
          /\ GuestFamily = "sev-snp" => [sha256 |-> guest.file] \in Binding(resp)
        BY <2>1, GuestsBinding DEF LaunchedWith
    <2>5. CASE GuestFamily = "tdx"
        <3>1. Len(guest.extends) \in Nat /\ guest.extends = [i \in 1..Len(guest.extends) |-> guest.extends[i]]
            BY ListsAssumption DEF Answered, Begun
        <3>2. Len(guest.extends) = 0
            <4>1. \A i \in 1..Len(guest.extends) : guest.extends[i] \in {}
                BY <2>1, <2>5 DEF ExtendsOnly, GuestFamily
            <4> QED BY <3>1, <4>1
        <3>3. guest.extends = << >>
            BY <3>1, <3>2
        <3>4. <<d>> \in Binding(resp)
            BY <2>3, <2>4, <2>5, <3>3, FoldNothing
        <3> QED BY <2>3, <2>5, <3>4 DEF VerifyBinding
    <2>6. CASE GuestFamily = "sev-snp"
        BY <2>3, <2>4, <2>6 DEF VerifyBinding
    <2> QED BY <2>4, <2>5, <2>6
<1>8. ASSUME img.LaunchFileDigest # None
      PROVE  enforceReplayedBinding(MatchLaunchFileDigestPrefix(resp, img.LaunchFileDigest, claimed),
                                    img.AcceptExtension)
    <2>1. /\ LaunchedWith(guest.file) /\ ExtendsOnly(img.AcceptExtension)
          /\ img.LaunchFileDigest \in LaunchFileDigest(GuestFamily, guest.file)
        BY <1>8 DEF GuestIs, GuestFamily
    <2> QED BY <2>1, HonestReplay DEF MatchLaunchFileDigestPrefix
<1> QED BY <1>2, <1>4, <1>6, <1>7, <1>8 DEF MatchesImage

(* A guest that is what the policy pins, quoted and answered for in full,  *)
(* is accepted, although its list runs ahead of its quote: the only        *)
(* refusals after an answer are failed checks (Explained), and each check  *)
(* holds of it.  The replay is found because a fold determines the length  *)
(* of what was folded (HonestReplay, EnforcePinsWithRuntimeLog).           *)
THEOREM ConformingAreAccepted == Spec => []ConformingGuestAccepted
<1>1. Checked /\ Explained => ConformingGuestAccepted
    <2> SUFFICES ASSUME Checked, Explained, pc = "done", AnsweredInFull, HonestList,
                        WellFormedPins, MeetsPins, QuotesPins, ~Accepted
                 PROVE  FALSE
        BY DEF ConformingGuestAccepted
    <2>1. Answered /\ (EnforceVerdict(resp) => ~EnforcePinsWithRuntimeLog(resp))
        BY DEF Explained, AnsweredInFull
    <2>2. EnforceVerdict(resp)
        BY DEF AnsweredInFull, EnforceVerdict
    <2>3. checkVerifiedPlatform(resp)
        BY DEF AnsweredInFull, checkVerifiedPlatform, NormalizePlatform
    <2>4. EnforcePCRs(resp, policy.PCRs)
        <3> SUFFICES ASSUME DOMAIN policy.PCRs # {}, NEW i \in DOMAIN policy.PCRs
                     PROVE  /\ HasVTPMQuote(evidence.Platform) /\ i \in evidence.selection
                            /\ i \in DOMAIN resp.Claims.PCR
                            /\ resp.Claims.PCR[i] = policy.PCRs[i]
            BY DEF EnforcePCRs, QuotesPins
        <3>1. /\ HasVTPMQuote(evidence.Platform) /\ i \in evidence.selection
              /\ guest.pcr[i] = policy.PCRs[i]
            BY DEF QuotesPins
        <3>2. resp.Claims.PCR = evidence.bank
            BY <2>1, <3>1 DEF Answered, Responses, ClaimSets
        <3>3. i \in DOMAIN evidence.bank
            BY <2>1, <3>1 DEF Answered, Begun, Evidences
        <3>4. evidence.bank[i] = guest.pcr[i]
            BY <2>1, <3>1 DEF Answered, Begun, HonestBank
        <3> QED BY <3>1, <3>2, <3>3, <3>4
    <2>5. CASE policy.Images # {}
        <3>1. \E img \in policy.Images : MatchesImage(resp, img)
            BY <2>1, <2>5, PinMatches DEF MeetsPins
        <3>2. EnforceImagesWithRuntimeLog(resp, policy.Images)
            BY <2>3, <3>1 DEF EnforceImagesWithRuntimeLog, WellFormedPins
        <3> QED BY <2>1, <2>2, <2>3, <2>4, <2>5, <3>2 DEF EnforcePinsWithRuntimeLog
    <2>6. CASE policy.Images = {}
        <3>1. /\ policy.Measurements # {} => guest.launch \in policy.Measurements
              /\ \A i \in DOMAIN policy.Registers :
                    i \in DOMAIN GuestRTMR /\ GuestRTMR[i] = policy.Registers[i]
            BY <2>6 DEF MeetsPins
        <3>2. /\ resp.Claims.RTMR = GuestRTMR /\ resp.Claims.LaunchDigest = guest.launch
              /\ guest.launch \notin {"", "malformed"}
            BY <2>1, GuestsAssumption DEF Answered, Begun, Responses, ClaimSets, AnsweredInFull
        <3>3. EnforceLaunchMeasurement(resp, policy.Measurements)
            BY <3>1, <3>2 DEF EnforceLaunchMeasurement, launchDigest
        <3>4. EnforceRTMRs(resp, policy.Registers)
            BY <3>1, <3>2 DEF EnforceRTMRs
        <3>5. ~HasRegisters(evidence.Platform) => DOMAIN policy.Registers = {}
            <4> SUFFICES ASSUME ~HasRegisters(evidence.Platform) PROVE DOMAIN policy.Registers = {}
                OBVIOUS
            <4>1. GuestRTMR = << >>
                BY <2>1 DEF Answered, Begun, Evidences, Claimable, HasRegisters, GuestRTMR
            <4>2. DOMAIN GuestRTMR = {}
                BY <4>1
            <4> QED BY <3>1, <4>2
        <3> QED BY <2>1, <2>2, <2>3, <2>4, <2>6, <3>3, <3>4, <3>5 DEF EnforcePinsWithRuntimeLog
    <2> QED BY <2>5, <2>6
<1>2. Init => Explained
    BY InitExplained
<1>3. Checked /\ Explained /\ [Next]_vars => Explained'
    BY NextExplained
<1> QED BY <1>1, <1>2, <1>3, AlwaysChecked, PTL DEF Spec

=============================================================================
