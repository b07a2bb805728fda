-------------------------- MODULE RefValuesProofs --------------------------
(***************************************************************************)
(* That what is written in a measurements file is what is enforced, reads  *)
(* back as it was rendered and is compared by what decides admission.      *)
(*                                                                         *)
(* Admission is first put in the terms of one guest and one image: Meets   *)
(* and WellBound say what the enforcer's loop checks (AdmitsSet).  Then    *)
(* reading and writing are put in the terms of one entry and one image:    *)
(* ReadsAs and ValidatesAs say what Parse returns.  The properties follow  *)
(* by comparing the two, part by part, for the sets and documents that the *)
(* invariant Known says are in the state.                                  *)
(***************************************************************************)
EXTENDS RefValues, OrderingProofs

-----------------------------------------------------------------------------
(* What the enforcer's operators say of a guest's honest evidence.  They    *)
(* are those of RemoteVerify, instantiated, and say what the same operators *)
(* say here.                                                                *)
LEMMA SameFamily ==
    ASSUME NEW g, NEW e, NEW p, NEW c, NEW platform
    PROVE  /\ Enforcer(g, e, p, c)!Family(platform) = Family(platform)
           /\ Enforcer(g, e, p, c)!NormalizePlatform(platform) = NormalizePlatform(platform)
           /\ Enforcer(g, e, p, c)!HasRegisters(platform) = HasRegisters(platform)
<1>1. Enforcer(g, e, p, c)!NormalizePlatform(platform) = NormalizePlatform(platform)
    BY DEF NormalizePlatform, Enforcer!NormalizePlatform
<1>2. Enforcer(g, e, p, c)!Family(platform) = Family(platform)
    BY <1>1 DEF Family, Enforcer!Family
<1>3. Enforcer(g, e, p, c)!HasRegisters(platform) = HasRegisters(platform)
    BY <1>2 DEF HasRegisters, Enforcer!HasRegisters
<1> QED BY <1>1, <1>2, <1>3

(* The binding the enforcer reads from a result is Binding's. *)
LEMMA SameBinding ==
    ASSUME NEW g, NEW e, NEW p, NEW c, NEW r
    PROVE  Enforcer(g, e, p, c)!Binding(r) = Binding(r)
<1>1. Enforcer(g, e, p, c)!checkBindingPlatform(r.Platform) <=> checkBindingPlatform(r.Platform)
    BY SameFamily DEF checkBindingPlatform, Enforcer!checkBindingPlatform
<1> QED BY <1>1, SameFamily DEF Binding, Enforcer!Binding

(* It hashes and checks launch files as here. *)
LEMMA SameDigest ==
    ASSUME NEW g, NEW e, NEW p, NEW c, NEW family, NEW x
    PROVE  /\ Enforcer(g, e, p, c)!LaunchFileDigest(family, x) = LaunchFileDigest(family, x)
           /\ Enforcer(g, e, p, c)!CheckLaunchFileDigest(family, x)
                 <=> CheckLaunchFileDigest(family, x)
<1>1. Enforcer(g, e, p, c)!launchFileHash(family) = launchFileHash(family)
    BY DEF launchFileHash, Enforcer!launchFileHash
<1> QED BY <1>1 DEF LaunchFileDigest, Enforcer!LaunchFileDigest, CheckLaunchFileDigest, Enforcer!CheckLaunchFileDigest

(* It folds registers and reads claimed lists as here. *)
LEMMA SameFold ==
    ASSUME NEW g, NEW e, NEW p, NEW c
    PROVE  /\ \A s, l : Enforcer(g, e, p, c)!FromDigestsSeeded(s, l) = FromDigestsSeeded(s, l)
           /\ \A d : Enforcer(g, e, p, c)!Extend(Enforcer(g, e, p, c)!Zero, d) = Extend(Zero, d)
           /\ \A x : Enforcer(g, e, p, c)!CanonicalDigest(x) = CanonicalDigest(x)
           /\ \A x : Enforcer(g, e, p, c)!CanonicalEntry(x) <=> CanonicalEntry(x)
           /\ \A l, k : Enforcer(g, e, p, c)!Listed(l, k) = Listed(l, k)
<1>1. \A s, l : Enforcer(g, e, p, c)!FromDigestsSeeded(s, l) = FromDigestsSeeded(s, l)
    BY DEF FromDigestsSeeded, Enforcer!FromDigestsSeeded, Event, Enforcer!Event
<1>2. \A d : Enforcer(g, e, p, c)!Extend(Enforcer(g, e, p, c)!Zero, d) = Extend(Zero, d)
    BY DEF Extend, Enforcer!Extend, Zero, Enforcer!Zero
<1>3. \A x : Enforcer(g, e, p, c)!CanonicalDigest(x) = CanonicalDigest(x)
    BY DEF CanonicalDigest, Enforcer!CanonicalDigest
<1>4. \A x : Enforcer(g, e, p, c)!CanonicalEntry(x) <=> CanonicalEntry(x)
    BY <1>3 DEF CanonicalEntry, Enforcer!CanonicalEntry
<1>5. \A l, k : Enforcer(g, e, p, c)!Listed(l, k) = Listed(l, k)
    BY <1>3 DEF Listed, Enforcer!Listed
<1> QED BY <1>1, <1>2, <1>3, <1>4, <1>5

(* It expects the bindings that are expected here. *)
LEMMA SameExpected ==
    ASSUME NEW g, NEW e, NEW p, NEW c, NEW platform, NEW l
    PROVE  /\ \A d : Enforcer(g, e, p, c)!bindingFromDigest(platform, d, l)
                       = bindingFromDigest(platform, d, l)
           /\ \A x : Enforcer(g, e, p, c)!expectedBinding(platform, x, l)
                       = expectedBinding(platform, x, l)
<1>1. Enforcer(g, e, p, c)!checkBindingPlatform(platform) <=> checkBindingPlatform(platform)
    BY SameFamily DEF checkBindingPlatform, Enforcer!checkBindingPlatform
<1>2. ASSUME NEW d
      PROVE  Enforcer(g, e, p, c)!bindingFromDigest(platform, d, l) = bindingFromDigest(platform, d, l)
    BY <1>1, SameFamily, SameDigest, SameFold DEF bindingFromDigest, Enforcer!bindingFromDigest
<1>3. ASSUME NEW x
      PROVE  Enforcer(g, e, p, c)!expectedBinding(platform, x, l) = expectedBinding(platform, x, l)
    BY <1>2, SameFamily, SameDigest DEF expectedBinding, Enforcer!expectedBinding
<1> QED BY <1>2, <1>3

(* Sets with the same members are equal. *)
LEMMA MembersEqual ==
    ASSUME NEW S, NEW T, \A x : x \in S <=> x \in T
    PROVE  S = T
OBVIOUS

(* Its matchers accept the prefixes that are accepted here. *)
LEMMA SameMatches ==
    ASSUME NEW g, NEW e, NEW p, NEW c, NEW r, NEW l
    PROVE  /\ \A x : Enforcer(g, e, p, c)!MatchBindingPrefix(r, x, l) = MatchBindingPrefix(r, x, l)
           /\ \A d : Enforcer(g, e, p, c)!MatchLaunchFileDigestPrefix(r, d, l)
                       = MatchLaunchFileDigestPrefix(r, d, l)
           /\ \A x : Enforcer(g, e, p, c)!VerifyBinding(r, x, l) <=> VerifyBinding(r, x, l)
<1>1. ASSUME NEW want
      PROVE  Enforcer(g, e, p, c)!matchBindingPrefix(r, l, want) = matchBindingPrefix(r, l, want)
    <2> DEFINE Theirs(got, w) ==
                  IF Enforcer(g, e, p, c)!HasRegisters(r.Platform)
                  THEN {k \in 0..Len(l) : got = Enforcer(g, e, p, c)!FromDigestsSeeded(
                                                   w, Enforcer(g, e, p, c)!Listed(l, k))}
                  ELSE {k \in {0} : got = w}
               Ours(got, w) ==
                  IF HasRegisters(r.Platform)
                  THEN {k \in 0..Len(l) : got = FromDigestsSeeded(w, Listed(l, k))}
                  ELSE {k \in {0} : got = w}
               First(ks) == {k \in ks : \A j \in ks : k <= j}
    <2>1. \A got, w : Theirs(got, w) = Ours(got, w)
        <3>1. Enforcer(g, e, p, c)!HasRegisters(r.Platform) = HasRegisters(r.Platform)
            BY SameFamily
        <3>2. ASSUME NEW w, NEW k
              PROVE  Enforcer(g, e, p, c)!FromDigestsSeeded(w, Enforcer(g, e, p, c)!Listed(l, k))
                       = FromDigestsSeeded(w, Listed(l, k))
            <4>1. Enforcer(g, e, p, c)!Listed(l, k) = Listed(l, k)
                BY SameFold
            <4> QED BY <4>1, SameFold
        <3> QED BY <3>1, <3>2, Zenon
    <2>2. /\ Enforcer(g, e, p, c)!Binding(r) = Binding(r)
          /\ (\E i \in 1..Len(l) : ~Enforcer(g, e, p, c)!CanonicalEntry(l[i]))
                <=> (\E i \in 1..Len(l) : ~CanonicalEntry(l[i]))
        BY SameBinding, SameFold
    <2>3. matchBindingPrefix(r, l, want) =
            IF \E i \in 1..Len(l) : ~CanonicalEntry(l[i]) THEN {}
            ELSE UNION {First(Ours(got, w)) : got \in Binding(r), w \in want}
        BY DEF matchBindingPrefix
    <2>4. Enforcer(g, e, p, c)!matchBindingPrefix(r, l, want) =
            IF \E i \in 1..Len(l) : ~Enforcer(g, e, p, c)!CanonicalEntry(l[i]) THEN {}
            ELSE UNION {First(Theirs(got, w)) : got \in Enforcer(g, e, p, c)!Binding(r), w \in want}
        BY DEF Enforcer!matchBindingPrefix
    <2> HIDE DEF Theirs, Ours
    <2>5. \A got, w : First(Theirs(got, w)) = First(Ours(got, w))
        BY <2>1
    <2> HIDE DEF First
    <2>6. \A k : k \in UNION {First(Theirs(got, w)) : got \in Binding(r), w \in want}
                   <=> k \in UNION {First(Ours(got, w)) : got \in Binding(r), w \in want}
        BY <2>5
    <2>7. UNION {First(Theirs(got, w)) : got \in Binding(r), w \in want}
            = UNION {First(Ours(got, w)) : got \in Binding(r), w \in want}
        BY <2>6, MembersEqual
    <2> DEFINE T == UNION {First(Theirs(got, w)) : got \in Binding(r), w \in want}
               O == UNION {First(Ours(got, w)) : got \in Binding(r), w \in want}
    <2>8. UNION {First(Theirs(got, w)) : got \in Enforcer(g, e, p, c)!Binding(r), w \in want} = T
        BY <2>2
    <2>9. T = O
        BY <2>7
    <2> HIDE DEF T, O
    <2>10. CASE \E i \in 1..Len(l) : ~CanonicalEntry(l[i])
        BY <2>2, <2>3, <2>4, <2>10
    <2>11. CASE ~\E i \in 1..Len(l) : ~CanonicalEntry(l[i])
        <3>1. matchBindingPrefix(r, l, want) = O
            BY <2>3, <2>11 DEF O
        <3>2. Enforcer(g, e, p, c)!matchBindingPrefix(r, l, want) = T
            <4>1. ~\E i \in 1..Len(l) : ~Enforcer(g, e, p, c)!CanonicalEntry(l[i])
                BY <2>2, <2>11
            <4>2. Enforcer(g, e, p, c)!matchBindingPrefix(r, l, want) =
                    UNION {First(Theirs(got, w)) :
                              got \in Enforcer(g, e, p, c)!Binding(r), w \in want}
                BY <2>4, <4>1
            <4> QED BY <2>8, <4>2
        <3> QED BY <2>9, <3>1, <3>2
    <2> QED BY <2>10, <2>11
<1>2. \A x : Enforcer(g, e, p, c)!VerifyBinding(r, x, l) <=> VerifyBinding(r, x, l)
    BY SameBinding, SameExpected DEF VerifyBinding, Enforcer!VerifyBinding
<1> QED BY <1>1, <1>2, SameExpected
        DEF MatchBindingPrefix, Enforcer!MatchBindingPrefix,
            MatchLaunchFileDigestPrefix, Enforcer!MatchLaunchFileDigestPrefix

-----------------------------------------------------------------------------
(* Admission, in the terms of a guest and of one image. *)

(* The family of the hardware a guest runs on. *)
FamilyOf(g) == Family(EvidenceOf(g).Platform)

(* The fields of a guest's evidence and verified result. *)
LEMMA ResultFields ==
    ASSUME NEW g
    PROVE  /\ EvidenceOf(g).Platform = [tag |-> g.tag, canonical |-> TRUE]
           /\ NormalizePlatform(EvidenceOf(g).Platform) = EvidenceOf(g).Platform
           /\ ResultOf(g).SignatureValid
           /\ ResultOf(g).Platform = EvidenceOf(g).Platform
           /\ ResultOf(g).Claims.LaunchDigest = g.launch
           /\ ResultOf(g).Claims.RTMR = Enforcer(g, EvidenceOf(g), NoPolicy, << >>)!GuestRTMR
           /\ ResultOf(g).Claims.InitData
                 = Enforcer(g, EvidenceOf(g), NoPolicy, << >>)!GuestInitData
<1>1. EvidenceOf(g).Platform = [tag |-> g.tag, canonical |-> TRUE]
    BY DEF EvidenceOf
<1>2. NormalizePlatform(EvidenceOf(g).Platform) = EvidenceOf(g).Platform
    BY <1>1 DEF NormalizePlatform
<1> QED BY <1>1, <1>2 DEF ResultOf

(* The registers and the init data of a guest. *)
LEMMA GuestReports ==
    ASSUME NEW g
    PROVE  /\ FamilyOf(g) = "tdx" =>
                 /\ DOMAIN RegistersOf(g) = 1..3
                 /\ RegistersOf(g)[3] = FromDigestsSeeded(<<[sha384 |-> g.file]>>, g.extends)
           /\ FamilyOf(g) # "tdx" => RegistersOf(g) = << >>
           /\ ResultOf(g).Claims.InitData =
                 IF g.tag = "az-snp" THEN HostData(EmptyBytes) ELSE HostData(g.file)
<1> DEFINE R == Enforcer(g, EvidenceOf(g), NoPolicy, << >>)!GuestRTMR
<1>1. RegistersOf(g) = R
    BY ResultFields DEF RegistersOf
<1>2. Enforcer(g, EvidenceOf(g), NoPolicy, << >>)!Family([tag |-> g.tag, canonical |-> TRUE])
        = FamilyOf(g)
    BY SameFamily, ResultFields DEF FamilyOf
<1>3. ASSUME FamilyOf(g) = "tdx"
      PROVE  DOMAIN R = 1..3 /\ R[3] = FromDigestsSeeded(<<[sha384 |-> g.file]>>, g.extends)
    <2>1. Enforcer(g, EvidenceOf(g), NoPolicy, << >>)!Seed(g.file) = <<[sha384 |-> g.file]>>
        BY DEF Enforcer!Seed, Enforcer!Extend, Enforcer!Zero
    <2>2. DOMAIN R = 1..3
        BY <1>2, <1>3 DEF Enforcer!GuestRTMR
    <2>3. R[3] = Enforcer(g, EvidenceOf(g), NoPolicy, << >>)!FromDigestsSeeded(
                    Enforcer(g, EvidenceOf(g), NoPolicy, << >>)!Seed(g.file), g.extends)
        BY <1>2, <1>3 DEF Enforcer!GuestRTMR
    <2>4. Enforcer(g, EvidenceOf(g), NoPolicy, << >>)!FromDigestsSeeded(
             Enforcer(g, EvidenceOf(g), NoPolicy, << >>)!Seed(g.file), g.extends)
            = FromDigestsSeeded(<<[sha384 |-> g.file]>>, g.extends)
        <3>1. \A s, l : Enforcer(g, EvidenceOf(g), NoPolicy, << >>)!FromDigestsSeeded(s, l)
                          = FromDigestsSeeded(s, l)
            BY DEF FromDigestsSeeded, Enforcer!FromDigestsSeeded, Event, Enforcer!Event
        <3> QED BY <2>1, <3>1
    <2> HIDE DEF R
    <2> QED BY <2>2, <2>3, <2>4
<1>4. FamilyOf(g) # "tdx" => R = << >>
    BY <1>2 DEF Enforcer!GuestRTMR
<1>5. ResultOf(g).Claims.InitData =
         IF g.tag = "az-snp" THEN HostData(EmptyBytes) ELSE HostData(g.file)
    BY ResultFields DEF Enforcer!GuestInitData, Enforcer!HostData, HostData
<1> HIDE DEF R
<1> QED BY <1>1, <1>3, <1>4, <1>5

(* A list replayed up to a match was all accepted. *)
Replayed(matches, accept, g) ==
    \E k \in matches : \A i \in 1..k : accept # None /\ ClaimsOf(g)[i].digest \in accept

(* Every pinned register is reported with the pinned value. *)
HoldsRegisters(pins, g) ==
    \A i \in DOMAIN pins : i \in DOMAIN RegistersOf(g) /\ RegistersOf(g)[i] = pins[i]

(* The guest is launched as a pin's binding says. *)
HoldsBinding(img, g) ==
    /\ img.Anchor # None => Replayed(
          MatchBindingPrefix(ResultOf(g), img.Anchor, ClaimsOf(g)), img.AcceptExtension, g)
    /\ img.LaunchFile # None => VerifyBinding(ResultOf(g), img.LaunchFile, << >>)
    /\ img.LaunchFileDigest # None => Replayed(
          MatchLaunchFileDigestPrefix(ResultOf(g), img.LaunchFileDigest, ClaimsOf(g)),
          img.AcceptExtension, g)

(* A guest meets an image pin in every part. *)
Meets(img, g) ==
    img.Digest = g.launch /\ HoldsRegisters(img.Registers, g) /\ HoldsBinding(img, g)

(* checkLaunchBindingPins of one image. *)
WellBound(img, family) ==
    /\ \A a, b \in {"Anchor", "LaunchFile", "LaunchFileDigest"} :
          img[a] # None /\ img[b] # None => a = b
    /\ img.LaunchFile # EmptyBytes
    /\ img.LaunchFile # None => img.AcceptExtension = None
    /\ img.LaunchFileDigest # None => CheckLaunchFileDigest(family, img.LaunchFileDigest)

(* Meeting a pin is what one turn of the enforcer's loop checks. *)
LEMMA MeetsIsMatches ==
    ASSUME NEW g \in GuestsSeen, NEW p, NEW img
    PROVE  Enforcer(g, EvidenceOf(g), p, ClaimsOf(g))!MatchesImage(ResultOf(g), img)
             <=> Meets(img, g)
<1> DEFINE e == EvidenceOf(g)
           c == ClaimsOf(g)
           r == ResultOf(g)
<1>1. Enforcer(g, e, p, c)!launchDigest(r) = {g.launch}
    BY ResultFields, SeenAssumption DEF Enforcer!launchDigest
<1>2. Enforcer(g, e, p, c)!HasRegisters(e.Platform) <=> FamilyOf(g) = "tdx"
    <2>1. Enforcer(g, e, p, c)!HasRegisters(e.Platform) = HasRegisters(e.Platform)
        BY SameFamily
    <2> QED BY <2>1 DEF HasRegisters, FamilyOf
<1>3. Enforcer(g, e, p, c)!EnforceRTMRs(r, img.Registers) <=> HoldsRegisters(img.Registers, g)
    BY DEF Enforcer!EnforceRTMRs, HoldsRegisters, RegistersOf
<1>4. HoldsRegisters(img.Registers, g) => (DOMAIN img.Registers # {} => FamilyOf(g) = "tdx")
    <2>1. FamilyOf(g) # "tdx" => RegistersOf(g) = << >>
        BY GuestReports
    <2>2. DOMAIN << >> = {}
        OBVIOUS
    <2>3. FamilyOf(g) # "tdx" => DOMAIN RegistersOf(g) = {}
        BY <2>1, <2>2, Zenon
    <2> QED BY <2>3 DEF HoldsRegisters
<1>5. \A m, a : Enforcer(g, e, p, c)!enforceReplayedBinding(m, a) <=> Replayed(m, a, g)
    BY DEF Enforcer!enforceReplayedBinding, Replayed
<1>6. /\ Enforcer(g, e, p, c)!MatchBindingPrefix(r, img.Anchor, c)
            = MatchBindingPrefix(r, img.Anchor, c)
      /\ Enforcer(g, e, p, c)!MatchLaunchFileDigestPrefix(r, img.LaunchFileDigest, c)
            = MatchLaunchFileDigestPrefix(r, img.LaunchFileDigest, c)
      /\ Enforcer(g, e, p, c)!VerifyBinding(r, img.LaunchFile, << >>)
            <=> VerifyBinding(r, img.LaunchFile, << >>)
    BY SameMatches
<1>7. DOMAIN img.Registers = {} => HoldsRegisters(img.Registers, g)
    BY DEF HoldsRegisters
<1>8. img.Digest \in {g.launch} <=> img.Digest = g.launch
    OBVIOUS
<1> HIDE DEF e, c, r
<1> QED BY <1>1, <1>2, <1>3, <1>4, <1>5, <1>6, <1>7, <1>8
        DEF Enforcer!MatchesImage, Meets, HoldsBinding, e, c, r

(* A policy of images admits a guest that meets one of them, if all are     *)
(* well bound for its family.                                               *)
LEMMA AdmitsImages ==
    ASSUME NEW g \in GuestsSeen, NEW S, S # {}
    PROVE  Admits([NoPolicy EXCEPT !.Images = S], g)
             <=> /\ \A img \in S : WellBound(img, FamilyOf(g))
                 /\ \E img \in S : Meets(img, g)
<1> DEFINE e == EvidenceOf(g)
           c == ClaimsOf(g)
           r == ResultOf(g)
           p == [NoPolicy EXCEPT !.Images = S]
<1>1. p.Images = S /\ DOMAIN p.PCRs = {}
    BY DEF NoPolicy
<1> HIDE DEF p, e, c, r
<1>2. Enforcer(g, e, p, c)!checkVerifiedPlatform(r)
    BY SameFamily, ResultFields DEF Enforcer!checkVerifiedPlatform, e, r
<1>3. Enforcer(g, e, p, c)!EnforcePCRs(r, p.PCRs)
    BY <1>1 DEF Enforcer!EnforcePCRs
<1>4. Enforcer(g, e, p, c)!checkLaunchBindingPins(S, Enforcer(g, e, p, c)!Family(e.Platform))
        <=> \A img \in S : WellBound(img, FamilyOf(g))
    <2>1. Enforcer(g, e, p, c)!Family(e.Platform) = FamilyOf(g)
        BY SameFamily DEF FamilyOf, e
    <2>2. ASSUME NEW img
          PROVE  Enforcer(g, e, p, c)!CheckLaunchFileDigest(FamilyOf(g), img.LaunchFileDigest)
                   <=> CheckLaunchFileDigest(FamilyOf(g), img.LaunchFileDigest)
        BY SameDigest
    <2> QED BY <2>1, <2>2 DEF Enforcer!checkLaunchBindingPins, WellBound
<1>5. \A img : Enforcer(g, e, p, c)!MatchesImage(r, img) <=> Meets(img, g)
    BY MeetsIsMatches DEF e, c, r
<1>6. Admits(p, g) <=> Enforcer(g, e, p, c)!EnforcePinsWithRuntimeLog(r)
    BY DEF Admits, e, c, r
<1>7. Enforcer(g, e, p, c)!EnforceImagesWithRuntimeLog(r, S)
        <=> /\ \A img \in S : WellBound(img, FamilyOf(g))
            /\ \E img \in S : Meets(img, g)
    BY <1>2, <1>4, <1>5 DEF Enforcer!EnforceImagesWithRuntimeLog
<1>8. Admits(p, g) <=> /\ \A img \in S : WellBound(img, FamilyOf(g))
                       /\ \E img \in S : Meets(img, g)
    BY <1>1, <1>2, <1>3, <1>6, <1>7 DEF Enforcer!EnforcePinsWithRuntimeLog
<1> QED BY <1>8 DEF p

(* A policy without images admits a guest with a listed digest and every    *)
(* pinned register.                                                         *)
LEMMA AdmitsFlat ==
    ASSUME NEW g \in GuestsSeen, NEW p, p.Images = {}, DOMAIN p.PCRs = {}
    PROVE  Admits(p, g) <=> /\ p.Measurements # {} => g.launch \in p.Measurements
                            /\ HoldsRegisters(p.Registers, g)
<1> DEFINE e == EvidenceOf(g)
           c == ClaimsOf(g)
           r == ResultOf(g)
<1>1. g.launch \notin {"", "malformed"}
    BY SeenAssumption
<1>2. Enforcer(g, e, p, c)!EnforceRTMRs(r, p.Registers) <=> HoldsRegisters(p.Registers, g)
    BY DEF Enforcer!EnforceRTMRs, HoldsRegisters, RegistersOf
<1>3. Enforcer(g, e, p, c)!EnforceLaunchMeasurement(r, p.Measurements)
        <=> (p.Measurements # {} => g.launch \in p.Measurements)
    BY <1>1, ResultFields DEF Enforcer!EnforceLaunchMeasurement, Enforcer!launchDigest
<1>4. Enforcer(g, e, p, c)!HasRegisters(e.Platform) <=> FamilyOf(g) = "tdx"
    <2>1. Enforcer(g, e, p, c)!HasRegisters(e.Platform) = HasRegisters(e.Platform)
        BY SameFamily
    <2> QED BY <2>1 DEF HasRegisters, FamilyOf
<1>5. FamilyOf(g) # "tdx" => (DOMAIN p.Registers = {} <=> HoldsRegisters(p.Registers, g))
    <2>1. FamilyOf(g) # "tdx" => RegistersOf(g) = << >>
        BY GuestReports
    <2>2. DOMAIN << >> = {}
        OBVIOUS
    <2>3. FamilyOf(g) # "tdx" => DOMAIN RegistersOf(g) = {}
        BY <2>1, <2>2, Zenon
    <2> QED BY <2>3 DEF HoldsRegisters
<1>6. Admits(p, g) <=> Enforcer(g, e, p, c)!EnforcePinsWithRuntimeLog(r)
    BY DEF Admits
<1> HIDE DEF e, c, r
<1>7. Enforcer(g, e, p, c)!checkVerifiedPlatform(r)
    BY SameFamily, ResultFields DEF Enforcer!checkVerifiedPlatform, e, r
<1>8. Enforcer(g, e, p, c)!EnforcePCRs(r, p.PCRs)
    BY DEF Enforcer!EnforcePCRs
<1> QED BY <1>2, <1>3, <1>4, <1>5, <1>6, <1>7, <1>8 DEF Enforcer!EnforcePinsWithRuntimeLog

(* The policies that a set and a flat form convert to. *)
LEMMA PolicyFields ==
    /\ \A rv : Policy(rv).Images = ToSet(rv.Images) /\ DOMAIN Policy(rv).PCRs = {}
              /\ Policy(rv).Measurements = {} /\ Policy(rv).Registers = NoRegisters
    /\ \A d, r : flatPolicy(d, r).Images = {} /\ DOMAIN flatPolicy(d, r).PCRs = {}
                /\ flatPolicy(d, r).Measurements = ToSet(d) /\ flatPolicy(d, r).Registers = r
<1>1. DOMAIN << >> = {}
    OBVIOUS
<1> QED BY <1>1 DEF Policy, flatPolicy, NoPolicy

(* A set of reference values admits a guest that meets one of its images,   *)
(* and any guest if it has none.                                            *)
LEMMA AdmitsSet ==
    ASSUME NEW g \in GuestsSeen, NEW rv
    PROVE  Admits(Policy(rv), g)
             <=> \/ ToSet(rv.Images) = {}
                 \/ /\ \A img \in ToSet(rv.Images) : WellBound(img, FamilyOf(g))
                    /\ \E img \in ToSet(rv.Images) : Meets(img, g)
<1>1. CASE ToSet(rv.Images) = {}
    <2>1. HoldsRegisters(NoRegisters, g)
        BY DEF HoldsRegisters, NoRegisters
    <2>2. Policy(rv).Images = {} /\ DOMAIN Policy(rv).PCRs = {}
          /\ Policy(rv).Measurements = {} /\ Policy(rv).Registers = NoRegisters
        BY <1>1, PolicyFields
    <2>3. Admits(Policy(rv), g)
        BY <2>1, <2>2, AdmitsFlat
    <2> QED BY <1>1, <2>3
<1>2. CASE ToSet(rv.Images) # {}
    BY <1>2, AdmitsImages DEF Policy
<1> QED BY <1>1, <1>2

(* The guests a flat form admits. *)
LEMMA AdmitsFlatSet ==
    ASSUME NEW g \in GuestsSeen, NEW d, NEW r
    PROVE  Admits(flatPolicy(d, r), g) <=> /\ ToSet(d) # {} => g.launch \in ToSet(d)
                                           /\ HoldsRegisters(r, g)
BY PolicyFields, AdmitsFlat

-----------------------------------------------------------------------------
(* The flat form. *)

(* An image without a binding. *)
LEMMA PlainMeets ==
    ASSUME NEW img, NEW g, NEW family,
           img.Anchor = None, img.LaunchFile = None, img.LaunchFileDigest = None
    PROVE  /\ Meets(img, g) <=> img.Digest = g.launch /\ HoldsRegisters(img.Registers, g)
           /\ WellBound(img, family)
<1>1. WellBound(img, family)
    BY NoneAssumption DEF WellBound
<1> QED BY <1>1 DEF Meets, HoldsBinding

(* Images of one list of registers and no bindings admit what the list of   *)
(* their digests and those registers admit.                                 *)
LEMMA UniformIsFlat ==
    ASSUME NEW g \in GuestsSeen, NEW rv, NEW d, NEW r,
           \A img \in ToSet(rv.Images) :
              /\ img.Anchor = None /\ img.LaunchFile = None /\ img.LaunchFileDigest = None
              /\ img.Registers = r,
           ToSet(d) = {img.Digest : img \in ToSet(rv.Images)},
           ToSet(rv.Images) = {} => DOMAIN r = {}
    PROVE  Admits(Policy(rv), g) <=> Admits(flatPolicy(d, r), g)
<1> DEFINE S == ToSet(rv.Images)
<1>1. \A img \in S : /\ WellBound(img, FamilyOf(g))
                     /\ Meets(img, g) <=> img.Digest = g.launch /\ HoldsRegisters(r, g)
    BY PlainMeets
<1>2. Admits(Policy(rv), g)
        <=> S = {} \/ ((\A img \in S : WellBound(img, FamilyOf(g))) /\ \E img \in S : Meets(img, g))
    BY AdmitsSet
<1>3. Admits(flatPolicy(d, r), g)
        <=> (ToSet(d) # {} => g.launch \in ToSet(d)) /\ HoldsRegisters(r, g)
    BY AdmitsFlatSet
<1>4. S = {} => HoldsRegisters(r, g)
    BY DEF HoldsRegisters
<1> HIDE DEF S
<1>5. ToSet(d) = {img.Digest : img \in S}
    BY DEF S
<1>6. (ToSet(d) = {} <=> S = {}) /\ (g.launch \in ToSet(d) <=> \E img \in S : img.Digest = g.launch)
    BY <1>5
<1> QED BY <1>1, <1>2, <1>3, <1>4, <1>6

(* A list that is not empty has elements. *)
LEMMA ListDomain ==
    ASSUME NEW s, IsList(s)
    PROVE  /\ Len(s) \in Nat /\ DOMAIN s = 1..Len(s)
           /\ s = << >> <=> DOMAIN s = {}
           /\ s = << >> <=> ToSet(s) = {}
<1>1. Len(s) \in Nat /\ s = [i \in 1..Len(s) |-> s[i]]
    BY DEF IsList
<1>2. DOMAIN s = 1..Len(s)
    BY <1>1
<1>3. s = << >> => DOMAIN s = {}
    <2>1. DOMAIN << >> = {}
        OBVIOUS
    <2> QED BY <2>1
<1>4. ASSUME DOMAIN s = {} PROVE s = << >>
    <2>1. Len(s) = 0
        BY <1>1, <1>2, <1>4
    <2>2. s = [i \in 1..0 |-> s[i]]
        BY <1>1, <2>1
    <2> QED BY <2>2
<1>5. ToSet(s) = {} <=> DOMAIN s = {}
    BY DEF ToSet
<1> QED BY <1>1, <1>2, <1>3, <1>4, <1>5

(* A uniform flat form admits the guests its set admits (Flatten). *)
LEMMA FlattenIsExact ==
    ASSUME NEW g \in GuestsSeen, NEW rv, IsList(rv.Images), Flatten(rv).uniform
    PROVE  Admits(Policy(rv), g)
             <=> Admits(flatPolicy(Flatten(rv).digests, Flatten(rv).rtmrs), g)
<1> DEFINE S == ToSet(rv.Images)
           r == Flatten(rv).rtmrs
<1>1. CommonRegisters(rv).uniform /\ ~HasLaunchBindings(rv) /\ r = CommonRegisters(rv).common
    BY DEF Flatten
<1>2. Flatten(rv).digests = [i \in DOMAIN rv.Images |-> rv.Images[i].Digest]
    BY DEF Flatten
<1>3. ToSet(Flatten(rv).digests) = {img.Digest : img \in S}
    BY <1>2 DEF ToSet
<1>4. \A img \in S : img.Anchor = None /\ img.LaunchFile = None /\ img.LaunchFileDigest = None
    BY <1>1 DEF HasLaunchBindings
<1>5. CASE rv.Images = << >>
    <2>1. S = {} /\ r = NoRegisters
        BY <1>1, <1>5, ListDomain DEF CommonRegisters
    <2>2. DOMAIN r = {}
        BY <2>1 DEF NoRegisters
    <2> HIDE DEF r
    <2> QED BY <1>3, <1>4, <2>1, <2>2, UniformIsFlat DEF r
<1>6. CASE rv.Images # << >>
    <2>1. S # {}
        BY <1>6, ListDomain
    <2>2. \A img \in S : img.Registers = r
        <3>1. \A img \in S : img.Registers = rv.Images[1].Registers
            BY <1>1, <1>6 DEF CommonRegisters
        <3>2. r = rv.Images[1].Registers
            BY <1>1, <1>6, <3>1 DEF CommonRegisters
        <3> QED BY <3>1, <3>2
    <2> HIDE DEF r
    <2> QED BY <1>3, <1>4, <2>1, <2>2, UniformIsFlat DEF r
<1> QED BY <1>5, <1>6

(* Once keeps every digest. *)
LEMMA OnceCovers ==
    ASSUME NEW d, IsList(d)
    PROVE  ToSet(Once(d)) = ToSet(d)
<1> DEFINE P == {i \in DOMAIN d : \A j \in DOMAIN d : d[j] = d[i] => i <= j}
<1>1. Len(d) \in Nat /\ DOMAIN d = 1..Len(d)
    BY ListDomain
<1>2. P \in SUBSET Nat /\ P \subseteq 1..Len(d)
    BY <1>1
<1>3. IsFiniteSet(P)
    <2>1. IsFiniteSet(1..Len(d))
        BY <1>1, FS_Interval
    <2> HIDE DEF P
    <2> QED BY <1>2, <2>1, FS_Subset
<1>4. Once(d) = Filtered(d, P)
    BY DEF Once
<1>5. ASSUME NEW j \in DOMAIN d PROVE \E i \in P : d[i] = d[j]
    <2> DEFINE T == {i \in DOMAIN d : d[i] = d[j]}
    <2>1. T \in SUBSET Nat /\ T # {}
        BY <1>1
    <2>2. PICK i \in T : \A y \in T : i <= y
        BY <2>1, LeastNatural
    <2>3. i \in P /\ d[i] = d[j]
        BY <2>2
    <2> QED BY <2>3
<1>6. P \subseteq DOMAIN d
    OBVIOUS
<1> HIDE DEF P
<1>7. /\ \A k \in DOMAIN Filtered(d, P) : \E i \in P : Filtered(d, P)[k] = d[i]
      /\ \A i \in P : \E k \in DOMAIN Filtered(d, P) : Filtered(d, P)[k] = d[i]
    BY <1>2, <1>3, FilteredElements
<1> QED BY <1>4, <1>5, <1>6, <1>7 DEF ToSet

(* Flags that became images admit the guests the flags admit (FromFlags). *)
LEMMA FlagsAreFlat ==
    ASSUME NEW g \in GuestsSeen, NEW d, NEW r, NEW family, IsList(d), d # << >>
    PROVE  Admits(Policy([FromFlags(d, r) EXCEPT !.Family = family]), g)
             <=> Admits(flatPolicy(d, r), g)
<1> DEFINE rv == [FromFlags(d, r) EXCEPT !.Family = family]
           S == ToSet(rv.Images)
           o == Once(d)
<1>1. rv.Images = [i \in DOMAIN o |-> PlainImage(imageNames[i], o[i], r)]
    BY DEF FromFlags
<1>2. S = {PlainImage(imageNames[i], o[i], r) : i \in DOMAIN o}
    BY <1>1 DEF ToSet
<1>3. ToSet(o) = ToSet(d) /\ ToSet(o) = {o[i] : i \in DOMAIN o}
    BY OnceCovers DEF ToSet
<1>4. ToSet(d) # {}
    BY ListDomain
<1> HIDE DEF o, rv
<1>5. \A img \in S : /\ img.Anchor = None /\ img.LaunchFile = None /\ img.LaunchFileDigest = None
                     /\ img.Registers = r
    BY <1>2 DEF PlainImage
<1>6. ToSet(d) = {img.Digest : img \in S}
    <2>1. \A i : PlainImage(imageNames[i], o[i], r).Digest = o[i]
        BY DEF PlainImage
    <2>2. ASSUME NEW x PROVE x \in {img.Digest : img \in S} <=> x \in {o[i] : i \in DOMAIN o}
        BY <1>2, <2>1
    <2> HIDE DEF S
    <2> QED BY <1>3, <2>2
<1>7. S # {}
    BY <1>4, <1>6
<1>8. Admits(Policy(rv), g) <=> Admits(flatPolicy(d, r), g)
    BY <1>5, <1>6, <1>7, UniformIsFlat
<1> QED BY <1>8 DEF rv

-----------------------------------------------------------------------------
(* What a measurements file is read as. *)

(* At most one of three. *)
LEMMA OneOfThree ==
    ASSUME NEW S \in SUBSET (1..3)
    PROVE  Cardinality(S) > 1 <=> \E i, j \in S : i # j
<1>1. IsFiniteSet(1..3)
    <2>1. 1 \in Int /\ 3 \in Int
        OBVIOUS
    <2> QED BY <2>1, FS_Interval
<1>2. IsFiniteSet(S) /\ Cardinality(S) \in Nat
    BY <1>1, FS_Subset, FS_CardinalityType
<1>3. ASSUME NEW i \in S, NEW j \in S, i # j PROVE Cardinality(S) > 1
    <2>1. {i, j} \subseteq S /\ {i} \subseteq {i, j} /\ {i} # {i, j}
        BY <1>3
    <2>2. Cardinality({i}) = 1 /\ IsFiniteSet({i, j})
        BY <1>2, <2>1, FS_Singleton, FS_Subset
    <2>3. /\ Cardinality({i}) <= Cardinality({i, j})
          /\ Cardinality({i}) = Cardinality({i, j}) => {i} = {i, j}
          /\ Cardinality({i, j}) <= Cardinality(S)
          /\ Cardinality({i, j}) \in Nat
        BY <1>2, <2>1, <2>2, FS_Subset, FS_CardinalityType
    <2> QED BY <1>2, <2>1, <2>2, <2>3
<1>4. ASSUME \A i, j \in S : i = j PROVE ~(Cardinality(S) > 1)
    <2>1. S = {} \/ \E x : S = {x}
        <3>1. ASSUME NEW x \in S PROVE S = {x}
            BY <1>4
        <3> QED BY <3>1
    <2>2. Cardinality(S) \in {0, 1}
        BY <2>1, FS_EmptySet, FS_Singleton
    <2> QED BY <2>2
<1> QED BY <1>3, <1>4

(* The launch binding of one pin. *)
Pinned(key, bytes, digest) ==
    [Anchor |-> key, LaunchFile |-> bytes, LaunchFileDigest |-> digest]

(* What bindingOf returns, by the fields that are there. *)
LEMMA BindingCases ==
    ASSUME NEW raws, NEW family
    PROVE  /\ (\E i, j \in 1..3 : i # j /\ raws[i] # None /\ raws[j] # None)
                 => bindingOf(raws, family) = {}
           /\ raws[1] # None /\ raws[2] = None /\ raws[3] = None
                 => bindingOf(raws, family) =
                      {Pinned(key, None, None) :
                          key \in {k \in launchBytes(raws[1]) : ParsePublicKeyPEM(k)}}
           /\ raws[1] = None /\ raws[2] # None /\ raws[3] = None
                 => bindingOf(raws, family) =
                      {Pinned(None, f, None) : f \in launchBytes(raws[2])}
           /\ raws[1] = None /\ raws[2] = None /\ raws[3] # None
                 => bindingOf(raws, family) =
                      {Pinned(None, None, d) :
                          d \in IF raws[3].kind = "string"
                                THEN ParseLaunchFileDigest(family, raws[3].text)
                                ELSE {}}
           /\ raws[1] = None /\ raws[2] = None /\ raws[3] = None
                 => bindingOf(raws, family) = {Pinned(None, None, None)}
<1> DEFINE set == {i \in 1..3 : raws[i] # None}
           keys == {[NoBinding EXCEPT !.Anchor = key] :
                       key \in {k \in launchBytes(raws[1]) : ParsePublicKeyPEM(k)}}
           files == {[NoBinding EXCEPT !.LaunchFile = f] : f \in launchBytes(raws[2])}
           digests == {[NoBinding EXCEPT !.LaunchFileDigest = d] :
                          d \in IF raws[3].kind = "string"
                                THEN ParseLaunchFileDigest(family, raws[3].text)
                                ELSE {}}
<1>1. bindingOf(raws, family) =
         IF Cardinality(set) > 1 THEN {}
         ELSE CASE 1 \in set -> keys [] 2 \in set -> files [] 3 \in set -> digests
                [] OTHER -> {NoBinding}
    BY DEF bindingOf
<1>2. set \in SUBSET (1..3)
    OBVIOUS
<1>3. Cardinality(set) > 1 <=> \E i, j \in 1..3 : i # j /\ raws[i] # None /\ raws[j] # None
    BY <1>2, OneOfThree
<1>4. 1 \in set <=> raws[1] # None
    OBVIOUS
<1>5. 2 \in set <=> raws[2] # None
    OBVIOUS
<1>6. 3 \in set <=> raws[3] # None
    OBVIOUS
<1>7. \A x : /\ [NoBinding EXCEPT !.Anchor = x] = Pinned(x, None, None)
             /\ [NoBinding EXCEPT !.LaunchFile = x] = Pinned(None, x, None)
             /\ [NoBinding EXCEPT !.LaunchFileDigest = x] = Pinned(None, None, x)
    BY DEF NoBinding, Pinned
<1>8. NoBinding = Pinned(None, None, None)
    BY DEF NoBinding, Pinned
<1>9. /\ keys = {Pinned(key, None, None) :
                   key \in {k \in launchBytes(raws[1]) : ParsePublicKeyPEM(k)}}
      /\ files = {Pinned(None, f, None) : f \in launchBytes(raws[2])}
      /\ digests = {Pinned(None, None, d) :
                       d \in IF raws[3].kind = "string"
                             THEN ParseLaunchFileDigest(family, raws[3].text)
                             ELSE {}}
    BY <1>7, Zenon
<1> HIDE DEF set, keys, files, digests
<1>11. ASSUME raws[1] # None, raws[2] = None, raws[3] = None PROVE bindingOf(raws, family) = keys
    <2>1. ~(Cardinality(set) > 1)
        BY <1>3, <1>11
    <2> QED BY <1>1, <1>4, <1>5, <1>6, <1>11, <2>1, Zenon
<1>12. ASSUME raws[1] = None, raws[2] # None, raws[3] = None PROVE bindingOf(raws, family) = files
    <2>1. ~(Cardinality(set) > 1)
        BY <1>3, <1>12
    <2> QED BY <1>1, <1>4, <1>5, <1>6, <1>12, <2>1, Zenon
<1>13. ASSUME raws[1] = None, raws[2] = None, raws[3] # None PROVE bindingOf(raws, family) = digests
    <2>1. ~(Cardinality(set) > 1)
        BY <1>3, <1>13
    <2> QED BY <1>1, <1>4, <1>5, <1>6, <1>13, <2>1, Zenon
<1>14. ASSUME raws[1] = None, raws[2] = None, raws[3] = None
       PROVE  bindingOf(raws, family) = {NoBinding}
    <2>1. ~(Cardinality(set) > 1)
        BY <1>3, <1>14
    <2> QED BY <1>1, <1>4, <1>5, <1>6, <1>14, <2>1, Zenon
<1>15. (\E i, j \in 1..3 : i # j /\ raws[i] # None /\ raws[j] # None)
          => bindingOf(raws, family) = {}
    BY <1>1, <1>3, Zenon
<1> QED BY <1>8, <1>9, <1>11, <1>12, <1>13, <1>14, <1>15

(* What the launch fields of an entry pin. *)
PinsAs(we, family, b) ==
    \/ /\ we.ApproverKey = None /\ we.LaunchFile = None /\ we.LaunchFileDigest = None
       /\ b = Pinned(None, None, None)
    \/ /\ we.ApproverKey # None /\ we.LaunchFile = None /\ we.LaunchFileDigest = None
       /\ we.ApproverKey.kind = "string" /\ we.ApproverKey.text # EmptyBytes
       /\ we.ApproverKey.text \in PublicKeys
       /\ b = Pinned(we.ApproverKey.text, None, None)
    \/ /\ we.ApproverKey = None /\ we.LaunchFile # None /\ we.LaunchFileDigest = None
       /\ we.LaunchFile.kind = "string" /\ we.LaunchFile.text # EmptyBytes
       /\ b = Pinned(None, we.LaunchFile.text, None)
    \/ /\ we.ApproverKey = None /\ we.LaunchFile = None /\ we.LaunchFileDigest # None
       /\ we.LaunchFileDigest.kind = "string" /\ we.LaunchFileDigest.text.form = "hex"
       /\ CheckLaunchFileDigest(family, we.LaunchFileDigest.text.of)
       /\ b = Pinned(None, None, we.LaunchFileDigest.text.of)

(* pinLaunchBinding returns exactly the binding PinsAs describes. *)
LEMMA PinnedAs ==
    ASSUME NEW we, NEW family, NEW b
    PROVE  b \in pinLaunchBinding(we, family) <=> PinsAs(we, family, b)
<1> DEFINE raws == <<we.ApproverKey, we.LaunchFile, we.LaunchFileDigest>>
<1>1. /\ raws[1] = we.ApproverKey /\ raws[2] = we.LaunchFile /\ raws[3] = we.LaunchFileDigest
    OBVIOUS
<1>2. pinLaunchBinding(we, family) =
         IF \E i \in 1..3 : isJSONNull(raws[i]) THEN {} ELSE bindingOf(raws, family)
    BY DEF pinLaunchBinding
<1> HIDE DEF raws
<1>3. \A i \in 1..3 : i = 1 \/ i = 2 \/ i = 3
    OBVIOUS
<1>4. (\E i \in 1..3 : isJSONNull(raws[i])) <=>
         isJSONNull(raws[1]) \/ isJSONNull(raws[2]) \/ isJSONNull(raws[3])
    BY <1>3
<1>5. \A raw : isJSONNull(raw) <=> raw # None /\ raw.kind = "null"
    BY DEF isJSONNull
<1>6. CASE raws[1] = None /\ raws[2] = None /\ raws[3] = None
    <2>1. pinLaunchBinding(we, family) = {Pinned(None, None, None)}
        BY <1>2, <1>4, <1>5, <1>6, BindingCases
    <2> QED BY <1>1, <1>6, <2>1 DEF PinsAs
<1>7. CASE raws[1] # None /\ raws[2] = None /\ raws[3] = None
    <2>1. bindingOf(raws, family) =
             {Pinned(key, None, None) :
                key \in {k \in launchBytes(raws[1]) : ParsePublicKeyPEM(k)}}
        BY <1>7, BindingCases
    <2>2. b \in bindingOf(raws, family) <=>
             /\ raws[1].kind = "string" /\ raws[1].text # EmptyBytes /\ raws[1].text \in PublicKeys
             /\ b = Pinned(raws[1].text, None, None)
        BY <2>1 DEF launchBytes, ParsePublicKeyPEM
    <2>3. b \in pinLaunchBinding(we, family) <=>
             ~(raws[1].kind = "null") /\ b \in bindingOf(raws, family)
        BY <1>2, <1>4, <1>5, <1>7
    <2> QED BY <1>1, <1>7, <2>2, <2>3 DEF PinsAs
<1>8. CASE raws[1] = None /\ raws[2] # None /\ raws[3] = None
    <2>1. bindingOf(raws, family) = {Pinned(None, f, None) : f \in launchBytes(raws[2])}
        BY <1>8, BindingCases
    <2>2. b \in bindingOf(raws, family) <=>
             /\ raws[2].kind = "string" /\ raws[2].text # EmptyBytes
             /\ b = Pinned(None, raws[2].text, None)
        BY <2>1 DEF launchBytes
    <2>3. b \in pinLaunchBinding(we, family) <=>
             ~(raws[2].kind = "null") /\ b \in bindingOf(raws, family)
        BY <1>2, <1>4, <1>5, <1>8
    <2> QED BY <1>1, <1>8, <2>2, <2>3 DEF PinsAs
<1>9. CASE raws[1] = None /\ raws[2] = None /\ raws[3] # None
    <2>1. bindingOf(raws, family) =
             {Pinned(None, None, d) : d \in IF raws[3].kind = "string"
                                            THEN ParseLaunchFileDigest(family, raws[3].text)
                                            ELSE {}}
        BY <1>9, BindingCases
    <2>2. \A d : d \in ParseLaunchFileDigest(family, raws[3].text) <=>
             raws[3].text.form = "hex" /\ d = raws[3].text.of /\ CheckLaunchFileDigest(family, d)
        BY DEF ParseLaunchFileDigest
    <2>3. b \in bindingOf(raws, family) <=>
             /\ raws[3].kind = "string" /\ raws[3].text.form = "hex"
             /\ CheckLaunchFileDigest(family, raws[3].text.of)
             /\ b = Pinned(None, None, raws[3].text.of)
        BY <2>1, <2>2
    <2>4. b \in pinLaunchBinding(we, family) <=>
             ~(raws[3].kind = "null") /\ b \in bindingOf(raws, family)
        BY <1>2, <1>4, <1>5, <1>9
    <2> QED BY <1>1, <1>9, <2>3, <2>4 DEF PinsAs
<1>10. CASE \E i, j \in 1..3 : i # j /\ raws[i] # None /\ raws[j] # None
    <2>1. pinLaunchBinding(we, family) = {}
        BY <1>2, <1>10, BindingCases
    <2>2. ~PinsAs(we, family, b)
        BY <1>1, <1>3, <1>10 DEF PinsAs
    <2> QED BY <2>1, <2>2
<1> QED BY <1>6, <1>7, <1>8, <1>9, <1>10

(* What an entry measures. *)
MeasuresAs(we, family, digest, regs) ==
    \/ /\ family = "sev-snp" /\ we.MRTD = None /\ we.RTMR = None /\ we.Measurement # None
       /\ we.Measurement.form = "hex" /\ digest = we.Measurement.of /\ regs = NoRegisters
    \/ /\ family = "tdx" /\ we.Measurement = None /\ we.MRTD # None
       /\ we.MRTD.form = "hex" /\ digest = we.MRTD.of /\ regs \in decodeRTMRs(we.RTMR)

(* An image as an entry reads: it never has a hook. *)
Image(name, digest, regs, b) ==
    [Name |-> name, Digest |-> digest, Registers |-> regs, Anchor |-> b.Anchor,
     LaunchFile |-> b.LaunchFile, LaunchFileDigest |-> b.LaunchFileDigest,
     AcceptExtension |-> None]

(* The image an entry reads as. *)
ReadsAs(we, family, img) ==
    /\ we.Name \notin {"", " "}
    /\ \E digest, regs, b : /\ MeasuresAs(we, family, digest, regs)
                            /\ PinsAs(we, family, b)
                            /\ img = Image(we.Name, digest, regs, b)

(* wireImage.validate returns exactly the image ReadsAs describes. *)
LEMMA ValidatedAs ==
    ASSUME NEW we, NEW family, NEW img
    PROVE  img \in validateImage(we, family) <=> ReadsAs(we, family, img)
<1> DEFINE snp == IF we.MRTD # None \/ we.RTMR # None \/ we.Measurement = None THEN {}
                  ELSE decodeRegister(we.Measurement) \X {NoRegisters}
           tdx == IF we.Measurement # None \/ we.MRTD = None THEN {}
                  ELSE decodeRegister(we.MRTD) \X decodeRTMRs(we.RTMR)
           measured == CASE family = "sev-snp" -> snp [] family = "tdx" -> tdx [] OTHER -> {}
           images == {Image(we.Name, p[1], p[2], b) :
                         p \in measured, b \in pinLaunchBinding(we, family)}
<1>1. validateImage(we, family) = IF we.Name \in {"", " "} THEN {} ELSE images
    BY DEF validateImage, Image
<1>2. /\ family = "sev-snp" => measured = snp
      /\ family = "tdx" => measured = tdx
      /\ family \notin {"sev-snp", "tdx"} => measured = {}
    BY Zenon
<1>3. \A p \in snp : MeasuresAs(we, "sev-snp", p[1], p[2])
    BY DEF MeasuresAs, decodeRegister
<1>4. \A p \in tdx : MeasuresAs(we, "tdx", p[1], p[2])
    BY DEF MeasuresAs, decodeRegister
<1>5. \A d, r : MeasuresAs(we, "sev-snp", d, r) => <<d, r>> \in snp
    BY DEF MeasuresAs, decodeRegister
<1>6. \A d, r : MeasuresAs(we, "tdx", d, r) => <<d, r>> \in tdx
    BY DEF MeasuresAs, decodeRegister
<1>7. \A d, r : MeasuresAs(we, family, d, r) => family \in {"sev-snp", "tdx"}
    BY DEF MeasuresAs
<1> HIDE DEF snp, tdx, measured
<1>8. img \in images <=> \E p \in measured, b \in pinLaunchBinding(we, family) :
                              img = Image(we.Name, p[1], p[2], b)
    OBVIOUS
<1> HIDE DEF images
<1>9. \A p \in measured : MeasuresAs(we, family, p[1], p[2])
    BY <1>2, <1>3, <1>4
<1>10. \A d, r : MeasuresAs(we, family, d, r) => <<d, r>> \in measured
    BY <1>2, <1>5, <1>6, <1>7
<1>11. \A d, r : <<d, r>>[1] = d /\ <<d, r>>[2] = r
    OBVIOUS
<1>12. ASSUME img \in validateImage(we, family)
       PROVE  /\ we.Name \notin {"", " "}
              /\ \E digest, regs, b : /\ MeasuresAs(we, family, digest, regs)
                                      /\ PinsAs(we, family, b)
                                      /\ img = Image(we.Name, digest, regs, b)
    <2>1. we.Name \notin {"", " "}
        BY <1>1, <1>12
    <2>2. PICK p \in measured, b \in pinLaunchBinding(we, family) :
             img = Image(we.Name, p[1], p[2], b)
        BY <1>1, <1>12, <1>8
    <2> QED BY <1>9, <2>1, <2>2, PinnedAs
<1>13. ASSUME we.Name \notin {"", " "}, NEW digest, NEW regs, NEW b,
              MeasuresAs(we, family, digest, regs), PinsAs(we, family, b),
              img = Image(we.Name, digest, regs, b)
       PROVE  img \in validateImage(we, family)
    <2> DEFINE p == <<digest, regs>>
    <2>1. p \in measured /\ b \in pinLaunchBinding(we, family)
        BY <1>10, <1>13, PinnedAs
    <2>2. img = Image(we.Name, p[1], p[2], b)
        BY <1>11, <1>13
    <2> HIDE DEF p
    <2> QED BY <1>1, <1>13, <1>8, <2>1, <2>2
<1> QED BY <1>12, <1>13 DEF ReadsAs

(* An array of registers pins register i-1 at position i. *)
LEMMA RegistersAs ==
    ASSUME NEW raw, raw # None => IsList(raw), NEW r \in decodeRTMRs(raw)
    PROVE  /\ r = [i \in DOMAIN r |-> r[i]]
           /\ DOMAIN r \subseteq 1..3
           /\ raw = None => r = NoRegisters
           /\ raw # None =>
                 \A j \in DOMAIN raw : raw[j] # None => j - 1 \in DOMAIN r
           /\ \A i \in DOMAIN r : /\ raw # None /\ i + 1 \in DOMAIN raw /\ raw[i + 1] # None
                                  /\ raw[i + 1].form # "badhex" /\ r[i] = raw[i + 1].of
<1>1. CASE raw = None \/ raw = << >>
    <2>1. r = NoRegisters
        BY <1>1 DEF decodeRTMRs
    <2>2. DOMAIN r = {} /\ r = [i \in DOMAIN r |-> r[i]]
        BY <2>1 DEF NoRegisters
    <2>3. raw = << >> => DOMAIN raw = {}
        OBVIOUS
    <2> QED BY <1>1, <2>1, <2>2, <2>3
<1>2. CASE ~(raw = None \/ raw = << >>)
    <2> DEFINE n == Len(raw)
               D == {i - 1 : i \in {j \in 1..n : raw[j] # None}}
    <2>1. n \in Nat /\ DOMAIN raw = 1..n
        BY <1>2, ListDomain
    <2>2. /\ ~(Len(raw) > maxRTMRs) /\ raw[1] = None
          /\ \A i \in 1..n : raw[i] # None => raw[i].form # "badhex"
          /\ r = [idx \in D |-> raw[idx + 1].of]
        BY <1>2 DEF decodeRTMRs
    <2>3. n <= 4
        BY <2>1, <2>2 DEF maxRTMRs
    <2>4. ASSUME NEW i \in D
          PROVE  i \in 1..3 /\ i + 1 \in 1..n /\ raw[i + 1] # None
        <3>1. PICK j \in 1..n : raw[j] # None /\ i = j - 1
            OBVIOUS
        <3>2. j # 1
            BY <2>2, <3>1
        <3> QED BY <2>1, <2>3, <3>1, <3>2
    <2>5. ASSUME NEW j \in 1..n, raw[j] # None PROVE j - 1 \in D
        BY <2>5
    <2> HIDE DEF D, n
    <2>6. DOMAIN r = D /\ r = [i \in DOMAIN r |-> r[i]] /\ \A i \in D : r[i] = raw[i + 1].of
        BY <2>2
    <2> QED BY <1>2, <2>1, <2>2, <2>4, <2>5, <2>6
<1> QED BY <1>1, <1>2

(* An RTMR array reads in one way. *)
LEMMA OneReading ==
    ASSUME NEW raw, NEW x \in decodeRTMRs(raw), NEW y \in decodeRTMRs(raw)
    PROVE  x = y
BY DEF decodeRTMRs

(* An entry is read as at most one image. *)
LEMMA OneImage ==
    ASSUME NEW we, NEW family,
           NEW x \in validateImage(we, family), NEW y \in validateImage(we, family)
    PROVE  x = y
<1>1. PICK d1, r1, b1 : /\ MeasuresAs(we, family, d1, r1) /\ PinsAs(we, family, b1)
                        /\ x = Image(we.Name, d1, r1, b1)
    <2>1. ReadsAs(we, family, x)
        BY ValidatedAs
    <2> QED BY <2>1 DEF ReadsAs
<1>2. PICK d2, r2, b2 : /\ MeasuresAs(we, family, d2, r2) /\ PinsAs(we, family, b2)
                        /\ y = Image(we.Name, d2, r2, b2)
    <2>1. ReadsAs(we, family, y)
        BY ValidatedAs
    <2> QED BY <2>1 DEF ReadsAs
<1>3. d1 = d2 /\ r1 = r2
    BY <1>1, <1>2, OneReading DEF MeasuresAs
<1>4. b1 = b2
    BY <1>1, <1>2 DEF PinsAs
<1> QED BY <1>1, <1>2, <1>3, <1>4

-----------------------------------------------------------------------------
(* What is written can be read, and what was read can be written. *)

(* What Formats asks of a pin, by the family. *)
LEMMA FormatsAs ==
    ASSUME NEW img, NEW family
    PROVE  Formats(img, family)
             <=> /\ img.Anchor \notin NotUTF8 /\ img.LaunchFile \notin NotUTF8
                 /\ img.LaunchFileDigest # None =>
                       CheckLaunchFileDigest(family, img.LaunchFileDigest)
                 /\ \/ family = "sev-snp" /\ DOMAIN img.Registers = {}
                    \/ /\ family = "tdx"
                       /\ \A i \in DOMAIN img.Registers :
                             0 < i /\ i < maxRTMRs /\ img.Registers[i] # ShortBytes
<1> DEFINE snp == DOMAIN img.Registers = {}
           tdx == \A i \in DOMAIN img.Registers :
                     0 < i /\ i < maxRTMRs /\ img.Registers[i] # ShortBytes
           regs == CASE family = "sev-snp" -> snp [] family = "tdx" -> tdx [] OTHER -> FALSE
<1>1. regs <=> (family = "sev-snp" /\ snp) \/ (family = "tdx" /\ tdx)
    <2> HIDE DEF snp, tdx
    <2>1. CASE family = "sev-snp"
        BY <2>1, Zenon
    <2>2. CASE family = "tdx"
        BY <2>2, Zenon
    <2>3. CASE family \notin {"sev-snp", "tdx"}
        BY <2>3, Zenon
    <2> QED BY <2>1, <2>2, <2>3
<1>2. Formats(img, family) <=>
         /\ {img.Anchor, img.LaunchFile} \cap NotUTF8 = {}
         /\ img.LaunchFileDigest # None => CheckLaunchFileDigest(family, img.LaunchFileDigest)
         /\ regs
    BY DEF Formats
<1> HIDE DEF regs
<1>3. {img.Anchor, img.LaunchFile} \cap NotUTF8 = {}
         <=> img.Anchor \notin NotUTF8 /\ img.LaunchFile \notin NotUTF8
    OBVIOUS
<1> QED BY <1>1, <1>2, <1>3

(* What an image must have to be read back: a name, values of their width,  *)
(* and at most one binding, of bytes that can be one.                       *)
Fit(img) ==
    /\ img.Name \notin {"", " "}
    /\ img.Digest # ShortBytes
    /\ img.Anchor # None => /\ img.LaunchFile = None /\ img.LaunchFileDigest = None
                            /\ img.Anchor # EmptyBytes /\ img.Anchor \in PublicKeys
    /\ img.LaunchFile # None => img.LaunchFileDigest = None /\ img.LaunchFile # EmptyBytes
    /\ img.LaunchFileDigest # None => img.LaunchFileDigest # ShortBytes

(* Text of a value of its width spells that value. *)
LEMMA TextOf ==
    ASSUME NEW t, IsText(t), t.form \in {"hex", "empty"}
    PROVE  /\ t.of # ShortBytes
           /\ hexText(t.of) # None
           /\ t.form = "hex" => hexText(t.of) = t
<1>1. CASE t.form = "hex"
    <2>1. t.of # ShortBytes /\ t = [form |-> "hex", of |-> t.of] /\ t # None
        BY <1>1 DEF IsText
    <2>2. hexText(t.of) = [form |-> "hex", of |-> t.of]
        BY <2>1 DEF hexText
    <2> QED BY <2>1, <2>2
<1>2. CASE t.form = "empty"
    BY <1>2, NoneAssumption DEF IsText
<1> QED BY <1>1, <1>2

(* A launch field that is a string is the one its text is written as. *)
LEMMA RawOf ==
    ASSUME NEW raw, raw # None, raw.kind = "string", IsRaw(raw)
    PROVE  raw.text # None /\ Raw(raw.text) = raw
BY DEF IsRaw, Raw

(* The image of an entry can be written again, and has no hook. *)
LEMMA LoadedImage ==
    ASSUME NEW we, IsEntry(we), NEW family, NEW img \in validateImage(we, family)
    PROVE  /\ IsImage(img) /\ Formats(img, family) /\ Fit(img)
           /\ img.AcceptExtension = None /\ img.Name = we.Name /\ img.Name \notin NotUTF8
<1>1. PICK digest, regs, b :
         /\ MeasuresAs(we, family, digest, regs) /\ PinsAs(we, family, b)
         /\ img = Image(we.Name, digest, regs, b)
    <2>1. ReadsAs(we, family, img)
        BY ValidatedAs
    <2> QED BY <2>1 DEF ReadsAs
<1>2. /\ img.Name = we.Name /\ img.Digest = digest /\ img.Registers = regs
      /\ img.Anchor = b.Anchor /\ img.LaunchFile = b.LaunchFile
      /\ img.LaunchFileDigest = b.LaunchFileDigest /\ img.AcceptExtension = None
    BY <1>1 DEF Image
<1>3. img = [Name |-> img.Name, Digest |-> img.Digest, Registers |-> img.Registers,
             Anchor |-> img.Anchor, LaunchFile |-> img.LaunchFile,
             LaunchFileDigest |-> img.LaunchFileDigest,
             AcceptExtension |-> img.AcceptExtension]
    BY <1>1, <1>2 DEF Image
<1>4. digest # ShortBytes /\ hexText(digest) # None
    BY <1>1, TextOf DEF MeasuresAs, IsEntry
<1>5. /\ family \in {"sev-snp", "tdx"}
      /\ regs = [i \in DOMAIN regs |-> regs[i]] /\ DOMAIN regs \subseteq 1..3
      /\ family = "sev-snp" => DOMAIN regs = {}
      /\ \A i \in DOMAIN regs : regs[i] # ShortBytes /\ hexText(regs[i]) # None
      /\ rtmrArray(regs) # None
    <2>1. CASE family = "sev-snp"
        <3>1. regs = NoRegisters
            BY <1>1, <2>1 DEF MeasuresAs
        <3>2. DOMAIN regs = {} /\ regs = [i \in DOMAIN regs |-> regs[i]]
            BY <3>1 DEF NoRegisters
        <3> QED BY <2>1, <3>1, <3>2, NoneAssumption
    <2>2. CASE family = "tdx"
        <3>1. regs \in decodeRTMRs(we.RTMR) /\ (we.RTMR # None => IsList(we.RTMR))
            BY <1>1, <2>2 DEF MeasuresAs, IsEntry
        <3>2. /\ regs = [i \in DOMAIN regs |-> regs[i]] /\ DOMAIN regs \subseteq 1..3
              /\ \A i \in DOMAIN regs :
                    /\ we.RTMR # None /\ i + 1 \in DOMAIN we.RTMR /\ we.RTMR[i + 1] # None
                    /\ we.RTMR[i + 1].form # "badhex" /\ regs[i] = we.RTMR[i + 1].of
            BY <3>1, RegistersAs
        <3>3. ASSUME NEW i \in DOMAIN regs PROVE regs[i] # ShortBytes /\ hexText(regs[i]) # None
            <4>1. IsText(we.RTMR[i + 1]) /\ we.RTMR[i + 1].form \in {"hex", "empty"}
                BY <3>2 DEF IsEntry, IsText
            <4> QED BY <3>2, <4>1, TextOf
        <3>4. rtmrArray(regs) # None
            <4>1. we.RTMR = None => regs = NoRegisters
                BY <3>1, RegistersAs
            <4>2. we.RTMR # None => rtmrArray(regs) # None
                BY <3>1 DEF IsEntry
            <4> QED BY <4>1, <4>2, NoneAssumption
        <3> QED BY <2>2, <3>2, <3>3, <3>4
    <2> QED BY <1>1, <2>1, <2>2 DEF MeasuresAs
<1>6. /\ b.Anchor # None => /\ b.LaunchFile = None /\ b.LaunchFileDigest = None
                            /\ b.Anchor # EmptyBytes /\ b.Anchor \in PublicKeys
                            /\ b.Anchor \notin NotUTF8 /\ Raw(b.Anchor) # None
      /\ b.LaunchFile # None => /\ b.LaunchFileDigest = None /\ b.LaunchFile # EmptyBytes
                                /\ b.LaunchFile \notin NotUTF8 /\ Raw(b.LaunchFile) # None
      /\ b.LaunchFileDigest # None =>
            /\ CheckLaunchFileDigest(family, b.LaunchFileDigest)
            /\ b.LaunchFileDigest # ShortBytes /\ hexText(b.LaunchFileDigest) # None
            /\ Raw(hexText(b.LaunchFileDigest)) # None
    <2>1. CASE we.ApproverKey = None /\ we.LaunchFile = None /\ we.LaunchFileDigest = None
        BY <1>1, <2>1 DEF PinsAs, Pinned
    <2>2. CASE we.ApproverKey # None
        <3>1. IsRaw(we.ApproverKey) /\ we.ApproverKey.text \notin NotUTF8
            BY <2>2 DEF IsEntry
        <3> QED BY <1>1, <2>2, <3>1, RawOf DEF PinsAs, Pinned
    <2>3. CASE we.LaunchFile # None
        <3>1. IsRaw(we.LaunchFile) /\ we.LaunchFile.text \notin NotUTF8
            BY <2>3 DEF IsEntry
        <3> QED BY <1>1, <2>3, <3>1, RawOf DEF PinsAs, Pinned
    <2>4. CASE we.LaunchFileDigest # None
        <3>1. /\ we.LaunchFileDigest.kind = "string" /\ we.LaunchFileDigest.text.form = "hex"
              /\ CheckLaunchFileDigest(family, we.LaunchFileDigest.text.of)
              /\ b = Pinned(None, None, we.LaunchFileDigest.text.of)
            BY <1>1, <2>4 DEF PinsAs
        <3>2. IsRaw(we.LaunchFileDigest) /\ IsText(we.LaunchFileDigest.text)
            BY <2>4, <3>1 DEF IsEntry
        <3>3. /\ hexText(we.LaunchFileDigest.text.of) = we.LaunchFileDigest.text
              /\ we.LaunchFileDigest.text.of # ShortBytes /\ we.LaunchFileDigest.text # None
              /\ Raw(we.LaunchFileDigest.text) = we.LaunchFileDigest
            BY <2>4, <3>1, <3>2, TextOf, RawOf
        <3> QED BY <2>4, <3>1, <3>3 DEF Pinned
    <2> QED BY <2>1, <2>2, <2>3, <2>4
<1>7. Fit(img)
    <2>1. we.Name \notin {"", " "}
        BY ValidatedAs DEF ReadsAs
    <2> QED BY <1>2, <1>4, <1>6, <2>1 DEF Fit
<1>8. Formats(img, family)
    <2>1. \A i \in DOMAIN img.Registers : 0 < i /\ i < maxRTMRs
        BY <1>2, <1>5 DEF maxRTMRs
    <2>2. img.Anchor \notin NotUTF8 /\ img.LaunchFile \notin NotUTF8
        BY <1>2, <1>6, NoneAssumption
    <2> QED BY <1>2, <1>5, <1>6, <2>1, <2>2, FormatsAs
<1>9. IsImage(img)
    BY <1>2, <1>3, <1>4, <1>5, <1>6 DEF IsImage
<1>10. we.Name \notin NotUTF8
    BY DEF IsEntry
<1> QED BY <1>2, <1>7, <1>8, <1>9, <1>10

(* The registers an image pins, written and read. *)
LEMMA RegistersReadBack ==
    ASSUME NEW img, IsImage(img), Formats(img, "tdx")
    PROVE  decodeRTMRs(formatImage(img, "tdx").RTMR) = {img.Registers}
<1> DEFINE regs == img.Registers
           raw == formatImage(img, "tdx").RTMR
<1>1. raw = IF DOMAIN regs = {} THEN None ELSE rtmrArray(regs)
    BY DEF formatImage
<1>2. /\ regs = [i \in DOMAIN regs |-> regs[i]] /\ DOMAIN regs \subseteq Int
      /\ \A i \in DOMAIN regs : hexText(regs[i]) # None
    BY DEF IsImage
<1>3. \A i \in DOMAIN regs : 0 < i /\ i < 4 /\ regs[i] # ShortBytes
    BY FormatsAs DEF maxRTMRs
<1> HIDE DEF regs, raw
<1>4. CASE DOMAIN regs = {}
    <2>1. raw = None
        BY <1>1, <1>4
    <2>2. regs = [i \in {} |-> Zero]
        BY <1>2, <1>4
    <2> QED BY <2>1, <2>2 DEF decodeRTMRs, NoRegisters, regs, raw
<1>5. CASE DOMAIN regs # {}
    <2>1. raw = [i \in 1..4 |-> IF i - 1 \in DOMAIN regs THEN hexText(regs[i - 1]) ELSE None]
        BY <1>1, <1>5 DEF rtmrArray, maxRTMRs
    <2>2. DOMAIN raw = 1..4 /\ Len(raw) = 4 /\ raw # << >>
        BY <2>1
    <2>3. \A i \in 1..4 : /\ i - 1 \in DOMAIN regs => raw[i] = hexText(regs[i - 1])
                          /\ i - 1 \notin DOMAIN regs => raw[i] = None
        BY <2>1
    <2>4. raw[1] = None
        <3>1. 0 \notin DOMAIN regs
            BY <1>3
        <3>2. 1 \in 1..4 /\ 1 - 1 = 0
            OBVIOUS
        <3> QED BY <2>3, <3>1, <3>2
    <2>5. \A v : hexText(v).of = v /\ (v # ShortBytes => hexText(v).form = "hex")
        BY DEF hexText
    <2>6. \A i \in 1..4 : raw[i] # None <=> i - 1 \in DOMAIN regs
        BY <1>2, <2>3
    <2>7. ~\E i \in 1..Len(raw) : raw[i] # None /\ raw[i].form = "badhex"
        <3>1. ASSUME NEW i \in 1..4, raw[i] # None PROVE raw[i].form = "hex"
            <4>1. i - 1 \in DOMAIN regs /\ raw[i] = hexText(regs[i - 1])
                BY <2>3, <2>6, <3>1
            <4> QED BY <1>3, <2>5, <4>1
        <3> QED BY <2>2, <3>1
    <2> DEFINE D == {i - 1 : i \in {j \in 1..Len(raw) : raw[j] # None}}
    <2>8. D = DOMAIN regs
        <3>1. ASSUME NEW i \in D PROVE i \in DOMAIN regs
            BY <2>2, <2>6
        <3>2. ASSUME NEW i \in DOMAIN regs PROVE i \in D
            <4>1. i + 1 \in 1..4 /\ (i + 1) - 1 = i
                BY <1>2, <1>3
            <4>2. raw[i + 1] # None
                BY <2>6, <4>1
            <4> QED BY <2>2, <4>1, <4>2
        <3> QED BY <3>1, <3>2
    <2>9. \A i \in DOMAIN regs : raw[i + 1].of = regs[i]
        <3>1. ASSUME NEW i \in DOMAIN regs PROVE raw[i + 1].of = regs[i]
            <4>1. i + 1 \in 1..4 /\ (i + 1) - 1 = i
                BY <1>2, <1>3
            <4>2. raw[i + 1] = hexText(regs[i])
                BY <2>3, <4>1
            <4> QED BY <2>5, <4>2
        <3> QED BY <3>1
    <2>10. raw # None
        BY <1>1, <1>5 DEF IsImage, regs
    <2>11. decodeRTMRs(raw) = {[idx \in D |-> raw[idx + 1].of]}
        BY <2>2, <2>4, <2>7, <2>10 DEF decodeRTMRs, maxRTMRs
    <2> HIDE DEF D
    <2>12. [idx \in D |-> raw[idx + 1].of] = regs
        BY <1>2, <2>8, <2>9
    <2> QED BY <2>11, <2>12 DEF regs, raw
<1> QED BY <1>4, <1>5

(* An image that was written is read as that image, or not at all; and an   *)
(* image that was read can be.                                              *)
LEMMA ImageReadsBack ==
    ASSUME NEW img, IsImage(img), NEW family, Formats(img, family), img.AcceptExtension = None
    PROVE  /\ \A x \in validateImage(formatImage(img, family), family) : x = img
           /\ Fit(img) => img \in validateImage(formatImage(img, family), family)
<1> DEFINE we == formatImage(img, family)
           bound == Pinned(img.Anchor, img.LaunchFile, img.LaunchFileDigest)
<1>1. /\ we.Name = img.Name
      /\ we.Measurement = IF family = "sev-snp" THEN hexText(img.Digest) ELSE None
      /\ we.MRTD = IF family = "tdx" THEN hexText(img.Digest) ELSE None
      /\ we.RTMR = IF DOMAIN img.Registers = {} THEN None ELSE rtmrArray(img.Registers)
      /\ we.ApproverKey = Raw(img.Anchor) /\ we.LaunchFile = Raw(img.LaunchFile)
      /\ we.LaunchFileDigest = IF img.LaunchFileDigest = None THEN None
                               ELSE Raw(hexText(img.LaunchFileDigest))
    BY DEF formatImage
<1>2. /\ hexText(img.Digest) # None
      /\ img.Anchor # None => Raw(img.Anchor) # None
      /\ img.LaunchFile # None => Raw(img.LaunchFile) # None
      /\ img.LaunchFileDigest # None =>
            hexText(img.LaunchFileDigest) # None /\ Raw(hexText(img.LaunchFileDigest)) # None
    BY DEF IsImage
<1>3. \A v : hexText(v).of = v /\ (hexText(v).form = "hex" <=> v # ShortBytes)
    BY DEF hexText
<1>4. /\ Raw(None) = None
      /\ \A t : t # None => Raw(t).kind = "string" /\ Raw(t).text = t
    BY DEF Raw
<1>5. family = "tdx" => decodeRTMRs(we.RTMR) = {img.Registers}
    BY RegistersReadBack
<1>6. family = "sev-snp" => we.RTMR = None /\ img.Registers = NoRegisters
    <2>1. family = "sev-snp" => DOMAIN img.Registers = {}
        BY FormatsAs
    <2>2. img.Registers = [i \in DOMAIN img.Registers |-> img.Registers[i]]
        BY DEF IsImage
    <2>3. DOMAIN img.Registers = {} => img.Registers = [i \in {} |-> Zero]
        BY <2>2
    <2> QED BY <1>1, <2>1, <2>3 DEF NoRegisters
<1>7. family \in {"sev-snp", "tdx"}
    BY FormatsAs
<1> HIDE DEF we
<1>8. \A digest, regs : MeasuresAs(we, family, digest, regs) =>
                           digest = img.Digest /\ regs = img.Registers
    BY <1>1, <1>3, <1>5, <1>6, <1>7 DEF MeasuresAs
<1>9. img.Digest # ShortBytes => MeasuresAs(we, family, img.Digest, img.Registers)
    BY <1>1, <1>2, <1>3, <1>5, <1>6, <1>7 DEF MeasuresAs
<1>10. /\ we.ApproverKey = None <=> img.Anchor = None
       /\ we.LaunchFile = None <=> img.LaunchFile = None
       /\ we.LaunchFileDigest = None <=> img.LaunchFileDigest = None
       /\ img.Anchor # None =>
             we.ApproverKey.kind = "string" /\ we.ApproverKey.text = img.Anchor
       /\ img.LaunchFile # None =>
             we.LaunchFile.kind = "string" /\ we.LaunchFile.text = img.LaunchFile
       /\ img.LaunchFileDigest # None =>
             /\ we.LaunchFileDigest.kind = "string"
             /\ we.LaunchFileDigest.text = hexText(img.LaunchFileDigest)
    BY <1>1, <1>2, <1>4
<1>11. \A b : PinsAs(we, family, b) => b = bound
    BY <1>3, <1>10 DEF PinsAs
<1>12. Fit(img) => PinsAs(we, family, bound)
    <2>1. img.LaunchFileDigest # None => CheckLaunchFileDigest(family, img.LaunchFileDigest)
        BY FormatsAs
    <2> QED BY <1>3, <1>10, <2>1 DEF PinsAs, Fit
<1>13. img = Image(img.Name, img.Digest, img.Registers, bound)
    <2>1. img = [Name |-> img.Name, Digest |-> img.Digest, Registers |-> img.Registers,
                 Anchor |-> img.Anchor, LaunchFile |-> img.LaunchFile,
                 LaunchFileDigest |-> img.LaunchFileDigest,
                 AcceptExtension |-> img.AcceptExtension]
        BY DEF IsImage
    <2>2. Image(img.Name, img.Digest, img.Registers, bound) =
             [Name |-> img.Name, Digest |-> img.Digest, Registers |-> img.Registers,
              Anchor |-> img.Anchor, LaunchFile |-> img.LaunchFile,
              LaunchFileDigest |-> img.LaunchFileDigest, AcceptExtension |-> None]
        BY DEF Image, Pinned
    <2> QED BY <2>1, <2>2
<1>14. ASSUME NEW x \in validateImage(we, family) PROVE x = img
    <2>1. ReadsAs(we, family, x)
        BY ValidatedAs
    <2>2. PICK digest, regs, b :
             /\ MeasuresAs(we, family, digest, regs) /\ PinsAs(we, family, b)
             /\ x = Image(we.Name, digest, regs, b)
        BY <2>1 DEF ReadsAs
    <2>3. digest = img.Digest /\ regs = img.Registers /\ b = bound
        BY <1>8, <1>11, <2>2
    <2> QED BY <1>1, <1>13, <2>2, <2>3
<1>15. ASSUME Fit(img) PROVE img \in validateImage(we, family)
    <2>1. /\ img.Digest # ShortBytes /\ we.Name \notin {"", " "} /\ we.Name = img.Name
        BY <1>1, <1>15 DEF Fit
    <2>2. ReadsAs(we, family, img)
        BY <1>9, <1>12, <1>13, <1>15, <2>1 DEF ReadsAs
    <2> QED BY <2>2, ValidatedAs
<1> QED BY <1>14, <1>15 DEF we

-----------------------------------------------------------------------------
(* What a document is read as. *)

(* No name twice and no tuple twice. *)
Distinct(images, n) ==
    \A i, j \in 1..n : i # j => /\ images[i].Name # images[j].Name
                                /\ tupleKey(images[i]) # tupleKey(images[j])

(* The set a document validates as. *)
ValidatesAs(f, allowEmpty, rv) ==
    /\ f.SchemaVersion \in {schemaVersion1, schemaVersion2}
    /\ ParseFamily(f.TEE) # ""
    /\ Len(f.Measurements) = 0 => allowEmpty
    /\ rv = [Family |-> ParseFamily(f.TEE), Images |-> rv.Images]
    /\ rv.Images = [i \in 1..Len(f.Measurements) |-> rv.Images[i]]
    /\ \A i \in 1..Len(f.Measurements) :
          rv.Images[i] \in validateImage(f.Measurements[i], ParseFamily(f.TEE))
    /\ Distinct(rv.Images, Len(f.Measurements))
    /\ checkLaunchFileSchema(f.SchemaVersion, rv)

(* wire.validate returns exactly the set ValidatesAs describes. *)
LEMMA SetValidatedAs ==
    ASSUME NEW f, NEW allowEmpty, NEW rv
    PROVE  rv \in validate(f, allowEmpty) <=> ValidatesAs(f, allowEmpty, rv)
<1> DEFINE family == ParseFamily(f.TEE)
           n == Len(f.Measurements)
           Entry(i) == validateImage(f.Measurements[i], family)
           chosen == [i \in 1..n |-> CHOOSE img \in Entry(i) : TRUE]
           set == [Family |-> family, Images |-> chosen]
           refused == \/ f.SchemaVersion \notin {schemaVersion1, schemaVersion2}
                      \/ family = ""
                      \/ n = 0 /\ ~allowEmpty
                      \/ \E i \in 1..n : Entry(i) = {}
           clash == \/ \E i, j \in 1..n : i # j /\
                          \/ set.Images[i].Name = set.Images[j].Name
                          \/ tupleKey(set.Images[i]) = tupleKey(set.Images[j])
                    \/ ~checkLaunchFileSchema(f.SchemaVersion, set)
<1>1. validate(f, allowEmpty) = IF refused THEN {} ELSE IF clash THEN {} ELSE {set}
    BY DEF validate
<1>2. set.Family = family /\ set.Images = chosen
    OBVIOUS
<1>3. \A i : \A x \in Entry(i), y \in Entry(i) : x = y
    BY OneImage
<1>4. \A i \in 1..n : Entry(i) # {} => chosen[i] \in Entry(i)
    <2> HIDE DEF Entry
    <2> QED OBVIOUS
<1>5. chosen = [i \in 1..n |-> chosen[i]]
    OBVIOUS
<1>6. clash <=> ~Distinct(chosen, n) \/ ~checkLaunchFileSchema(f.SchemaVersion, set)
    BY <1>2, Zenon DEF Distinct
<1>7. set = [Family |-> family, Images |-> chosen]
    OBVIOUS
<1> HIDE DEF chosen, set, clash
<1>8. ASSUME rv \in validate(f, allowEmpty) PROVE ValidatesAs(f, allowEmpty, rv)
    <2>1. ~refused /\ ~clash /\ rv = set
        BY <1>1, <1>8
    <2>2. \A i \in 1..n : chosen[i] \in Entry(i)
        BY <1>4, <2>1
    <2> QED BY <1>2, <1>5, <1>6, <1>7, <2>1, <2>2 DEF ValidatesAs
<1>9. ASSUME ValidatesAs(f, allowEmpty, rv) PROVE rv \in validate(f, allowEmpty)
    <2>1. /\ rv = [Family |-> family, Images |-> rv.Images]
          /\ rv.Images = [i \in 1..n |-> rv.Images[i]]
          /\ \A i \in 1..n : rv.Images[i] \in Entry(i)
          /\ Distinct(rv.Images, n) /\ checkLaunchFileSchema(f.SchemaVersion, rv)
        BY <1>9 DEF ValidatesAs
    <2>2. \A i \in 1..n : chosen[i] = rv.Images[i]
        <3> HIDE DEF Entry
        <3> QED BY <1>3, <1>4, <2>1
    <2>3. chosen = rv.Images
        BY <1>5, <2>1, <2>2
    <2>4. rv = set
        BY <1>7, <2>1, <2>3
    <2>5. ~clash
        BY <1>6, <2>1, <2>3, <2>4
    <2>6. ~refused
        BY <1>9, <2>1 DEF ValidatesAs
    <2> HIDE DEF refused
    <2> QED BY <1>1, <2>4, <2>5, <2>6
<1> QED BY <1>8, <1>9

(* A document validates as one set. *)
LEMMA OneSet ==
    ASSUME NEW f, NEW allowEmpty,
           NEW x \in validate(f, allowEmpty), NEW y \in validate(f, allowEmpty)
    PROVE  x = y
BY DEF validate

(* parse returns it where the syntax is clean. *)
LEMMA ParsedAs ==
    ASSUME NEW f, NEW allowEmpty, NEW rv
    PROVE  rv \in parse(f, allowEmpty) <=> f.syntax = "clean" /\ ValidatesAs(f, allowEmpty, rv)
BY SetValidatedAs DEF parse

(* A family that is written reads back as itself. *)
LEMMA FamilyReads ==
    /\ \A tee : ParseFamily(tee) \in {"sev-snp", "tdx", ""}
    /\ \A family \in {"sev-snp", "tdx", ""} :
          ParseFamily([tag |-> family, canonical |-> TRUE]) = family
<1>1. \A p : Family(p) \in {"sev-snp", "tdx", ""}
    BY DEF Family
<1>2. \A x : NormalizePlatform([tag |-> x, canonical |-> TRUE]).tag = x
    BY DEF NormalizePlatform
<1>3. Family([tag |-> "tdx", canonical |-> TRUE]) = "tdx"
    BY <1>2 DEF Family
<1>4. Family([tag |-> "", canonical |-> TRUE]) = ""
    <2>1. "" \notin {"snp", "az-snp", "gcp-snp"} /\ "" \notin {"tdx", "az-tdx", "gcp-tdx"}
        OBVIOUS
    <2> QED BY <1>2, <2>1, Zenon DEF Family
<1> QED BY <1>1, <1>2, <1>3, <1>4 DEF ParseFamily

(* What a loaded set is. *)
LEMMA LoadedSet ==
    ASSUME NEW f, IsDocument(f), NEW rv \in Parse(f)
    PROVE  /\ IsSet(rv) /\ NamesAreText(rv) /\ NoHooks(rv)
           /\ rv.Family = ParseFamily(f.TEE) /\ rv.Family \in {"sev-snp", "tdx"}
           /\ rv.Images # << >> /\ DOMAIN rv.Images = DOMAIN f.Measurements
           /\ \A i \in DOMAIN rv.Images :
                 /\ rv.Images[i] \in validateImage(f.Measurements[i], rv.Family)
                 /\ Formats(rv.Images[i], rv.Family) /\ Fit(rv.Images[i])
           /\ Distinct(rv.Images, Len(f.Measurements))
           /\ checkLaunchFileSchema(f.SchemaVersion, rv)
<1> DEFINE n == Len(f.Measurements)
<1>1. f.syntax = "clean" /\ ValidatesAs(f, FALSE, rv)
    BY ParsedAs DEF Parse
<1>2. /\ ParseFamily(f.TEE) # "" /\ n # 0
      /\ rv = [Family |-> ParseFamily(f.TEE), Images |-> rv.Images]
      /\ rv.Images = [i \in 1..n |-> rv.Images[i]]
      /\ \A i \in 1..n : rv.Images[i] \in validateImage(f.Measurements[i], ParseFamily(f.TEE))
      /\ Distinct(rv.Images, n) /\ checkLaunchFileSchema(f.SchemaVersion, rv)
    BY <1>1 DEF ValidatesAs
<1>3. n \in Nat /\ DOMAIN f.Measurements = 1..n /\ \A i \in 1..n : IsEntry(f.Measurements[i])
    BY ListDomain DEF IsDocument
<1>4. rv.Family = ParseFamily(f.TEE)
    <2>1. \A a, b : [Family |-> a, Images |-> b].Family = a
        OBVIOUS
    <2> QED BY <1>2, <2>1, Zenon
<1> HIDE DEF n
<1>5. DOMAIN rv.Images = 1..n /\ Len(rv.Images) = n
    <2> DEFINE s == rv.Images
    <2>1. s = [i \in 1..n |-> s[i]]
        BY <1>2
    <2> HIDE DEF s
    <2>2. DOMAIN s = 1..n /\ Len(s) = n
        BY <1>3, <2>1
    <2> QED BY <2>2 DEF s
<1>6. \A i \in 1..n :
         /\ IsImage(rv.Images[i]) /\ Formats(rv.Images[i], rv.Family) /\ Fit(rv.Images[i])
         /\ rv.Images[i].AcceptExtension = None /\ rv.Images[i].Name \notin NotUTF8
    BY <1>2, <1>3, <1>4, LoadedImage
<1>7. IsList(rv.Images)
    BY <1>2, <1>3, <1>5 DEF IsList
<1>8. rv.Images # << >>
    <2>1. 1 \in DOMAIN rv.Images
        <3>1. n # 0 /\ n \in Nat
            BY <1>2, <1>3, Zenon
        <3>2. 1 \in 1..n
            BY <3>1
        <3> QED BY <1>5, <3>2, Zenon
    <2> QED BY <1>7, <2>1, ListDomain
<1>9. NamesAreText(rv) /\ NoHooks(rv)
    BY <1>5, <1>6 DEF NamesAreText, NoHooks, ToSet
<1>10. IsSet(rv)
    BY <1>2, <1>4, <1>5, <1>6, <1>7, FamilyReads DEF IsSet
<1> QED BY <1>2, <1>3, <1>4, <1>5, <1>6, <1>8, <1>9, <1>10, FamilyReads DEF n

(* A set as it is written. *)
LEMMA WireFields ==
    ASSUME NEW rv, IsSet(rv), NEW version
    PROVE  /\ wire(rv, version).syntax = "clean"
           /\ wire(rv, version).SchemaVersion = version
           /\ ParseFamily(wire(rv, version).TEE) = rv.Family
           /\ Len(wire(rv, version).Measurements) = Len(rv.Images)
           /\ DOMAIN wire(rv, version).Measurements = 1..Len(rv.Images)
           /\ DOMAIN rv.Images = 1..Len(rv.Images) /\ Len(rv.Images) \in Nat
           /\ \A i \in DOMAIN rv.Images :
                 wire(rv, version).Measurements[i] = formatImage(rv.Images[i], rv.Family)
<1> DEFINE n == Len(rv.Images)
           es == [i \in DOMAIN rv.Images |-> formatImage(rv.Images[i], rv.Family)]
<1>1. /\ wire(rv, version).syntax = "clean"
      /\ wire(rv, version).SchemaVersion = version
      /\ wire(rv, version).TEE = [tag |-> rv.Family, canonical |-> TRUE]
      /\ wire(rv, version).Measurements = es
    BY DEF wire
<1>2. n \in Nat /\ DOMAIN rv.Images = 1..n
    BY ListDomain DEF IsSet
<1>3. ParseFamily(wire(rv, version).TEE) = rv.Family
    BY <1>1, FamilyReads DEF IsSet
<1>4. DOMAIN es = 1..n /\ Len(es) = n
    <2> HIDE DEF n
    <2> QED BY <1>2
<1> HIDE DEF n
<1>5. \A i \in DOMAIN rv.Images : es[i] = formatImage(rv.Images[i], rv.Family)
    OBVIOUS
<1> HIDE DEF es
<1> QED BY <1>1, <1>2, <1>3, <1>4, <1>5 DEF n

(* Every image of a set that Format writes can be put into an entry, and    *)
(* what Validate then makes of it is the set.                               *)
LEMMA WireReadsBack ==
    ASSUME NEW rv, IsSet(rv), NoHooks(rv), NEW version, NEW allowEmpty,
           \A img \in ToSet(rv.Images) : Formats(img, rv.Family),
           NEW x \in validate(wire(rv, version), allowEmpty)
    PROVE  x = rv
<1> DEFINE f == wire(rv, version)
           n == Len(rv.Images)
<1>1. ValidatesAs(f, allowEmpty, x)
    BY SetValidatedAs
<1>2. /\ ParseFamily(f.TEE) = rv.Family /\ Len(f.Measurements) = n
      /\ DOMAIN rv.Images = 1..n /\ n \in Nat
      /\ \A i \in 1..n : f.Measurements[i] = formatImage(rv.Images[i], rv.Family)
    BY WireFields
<1>3. /\ x = [Family |-> rv.Family, Images |-> x.Images]
      /\ x.Images = [i \in 1..n |-> x.Images[i]]
      /\ \A i \in 1..n : x.Images[i] \in validateImage(f.Measurements[i], rv.Family)
    BY <1>1, <1>2 DEF ValidatesAs
<1> HIDE DEF f, n
<1>4. ASSUME NEW i \in 1..n PROVE x.Images[i] = rv.Images[i]
    <2>1. IsImage(rv.Images[i]) /\ rv.Images[i] \in ToSet(rv.Images)
        BY <1>2 DEF IsSet, ToSet
    <2>2. Formats(rv.Images[i], rv.Family) /\ rv.Images[i].AcceptExtension = None
        BY <2>1 DEF NoHooks
    <2>3. x.Images[i] \in validateImage(formatImage(rv.Images[i], rv.Family), rv.Family)
        BY <1>2, <1>3
    <2> QED BY <2>1, <2>2, <2>3, ImageReadsBack
<1>5. rv.Images = [i \in 1..n |-> rv.Images[i]] /\ rv = [Family |-> rv.Family, Images |-> rv.Images]
    BY DEF IsSet, IsList, n
<1>6. x.Images = rv.Images
    BY <1>3, <1>4, <1>5
<1> QED BY <1>3, <1>5, <1>6

(* Marshalling replaces nothing in a document whose names are text. *)
LEMMA MarshalKeeps ==
    ASSUME NEW rv, IsSet(rv), NamesAreText(rv), NEW version
    PROVE  marshal(wire(rv, version)) = wire(rv, version)
<1> DEFINE f == wire(rv, version)
           Kept(we) == [we EXCEPT !.Name = IF @ \in NotUTF8 THEN "replaced" ELSE @]
           es == [i \in DOMAIN rv.Images |-> formatImage(rv.Images[i], rv.Family)]
<1>1. f = [syntax |-> "clean", SchemaVersion |-> version,
           TEE |-> [tag |-> rv.Family, canonical |-> TRUE], Measurements |-> es]
    BY DEF wire
<1>2. f.Measurements = es
    BY <1>1
<1>3. marshal(f) = [f EXCEPT !.Measurements = [i \in DOMAIN f.Measurements |-> Kept(f.Measurements[i])]]
    BY DEF marshal
<1>4. ASSUME NEW img, img.Name \notin NotUTF8, NEW family
      PROVE  Kept(formatImage(img, family)) = formatImage(img, family)
    <2> DEFINE we == formatImage(img, family)
    <2>1. we.Name = img.Name /\ "Name" \in DOMAIN we
        BY DEF formatImage
    <2>2. Kept(we) = [we EXCEPT !.Name = we.Name]
        BY <1>4, <2>1
    <2>3. [we EXCEPT !.Name = we.Name] = we
        BY DEF formatImage
    <2> QED BY <2>2, <2>3
<1>5. \A i \in DOMAIN rv.Images : rv.Images[i].Name \notin NotUTF8
    BY DEF NamesAreText, ToSet
<1>6. \A i \in DOMAIN rv.Images : es[i] = formatImage(rv.Images[i], rv.Family) /\ Kept(es[i]) = es[i]
    BY <1>4, <1>5
<1>7. DOMAIN es = DOMAIN rv.Images /\ es = [i \in DOMAIN es |-> es[i]]
    OBVIOUS
<1>10. [f EXCEPT !.Measurements = es] = f
    <2> HIDE DEF es
    <2> DEFINE tee == [tag |-> rv.Family, canonical |-> TRUE]
    <2>1. f = [syntax |-> "clean", SchemaVersion |-> version, TEE |-> tee, Measurements |-> es]
        BY <1>1
    <2> HIDE DEF tee, f
    <2> QED BY <2>1
<1> HIDE DEF f, es, Kept
<1>8. [i \in DOMAIN es |-> Kept(es[i])] = es
    BY <1>6, <1>7
<1>9. marshal(f) = [f EXCEPT !.Measurements = es]
    BY <1>2, <1>3, <1>8
<1> QED BY <1>9, <1>10 DEF f

(* ParseRendered of what Render wrote is the set. *)
LEMMA RenderReadsBack ==
    ASSUME NEW rv, IsSet(rv), NamesAreText(rv), NoHooks(rv), NEW f \in Render(rv)
    PROVE  ParseRendered(f) = {rv}
<1>1. CASE rv.Images = << >>
    <2>1. f = wire(rv, schemaVersion1) /\ validate(f, TRUE) # {}
        BY <1>1 DEF Render
    <2>2. \A img \in ToSet(rv.Images) : Formats(img, rv.Family)
        BY <1>1, ListDomain DEF IsSet
    <2>3. \A x \in validate(f, TRUE) : x = rv
        BY <2>1, <2>2, WireReadsBack
    <2>4. f.syntax = "clean"
        BY <2>1, WireFields
    <2>5. ParseRendered(f) = validate(f, TRUE)
        BY <2>4 DEF ParseRendered, parse
    <2> QED BY <2>1, <2>3, <2>5
<1>2. CASE rv.Images # << >>
    <2> DEFINE w == wire(rv, schemaVersionFor(rv))
    <2>1. /\ \A img \in ToSet(rv.Images) : Formats(img, rv.Family)
          /\ validate(w, FALSE) # {} /\ f = marshal(w)
        BY <1>2 DEF Render, Format
    <2>2. f = w
        BY <2>1, MarshalKeeps
    <2>3. PICK y : y \in validate(w, FALSE)
        BY <2>1
    <2>4. y = rv
        BY <2>1, <2>3, WireReadsBack
    <2>5. ValidatesAs(w, FALSE, rv)
        BY <2>3, <2>4, SetValidatedAs
    <2>6. ValidatesAs(w, TRUE, rv)
        BY <2>5 DEF ValidatesAs
    <2>7. rv \in validate(f, TRUE)
        BY <2>2, <2>6, SetValidatedAs
    <2>8. \A x \in validate(f, TRUE) : x = rv
        BY <2>7, OneSet
    <2>9. f.syntax = "clean"
        BY <2>2, WireFields
    <2>10. ParseRendered(f) = validate(f, TRUE)
        BY <2>9 DEF ParseRendered, parse
    <2> QED BY <2>7, <2>8, <2>10
<1> QED BY <1>1, <1>2

(* What was loaded can be rendered. *)
LEMMA LoadedRenders ==
    ASSUME NEW f, IsDocument(f), NEW rv \in Parse(f)
    PROVE  Render(rv) # {}
<1> DEFINE w == wire(rv, schemaVersionFor(rv))
           n == Len(f.Measurements)
<1>1. /\ IsSet(rv) /\ NoHooks(rv) /\ rv.Images # << >> /\ rv.Family \in {"sev-snp", "tdx"}
      /\ DOMAIN rv.Images = DOMAIN f.Measurements
      /\ \A i \in DOMAIN rv.Images : Formats(rv.Images[i], rv.Family) /\ Fit(rv.Images[i])
      /\ Distinct(rv.Images, n)
    BY LoadedSet
<1>2. Len(rv.Images) = n /\ n \in Nat /\ DOMAIN rv.Images = 1..n
    <2>1. DOMAIN rv.Images = 1..Len(rv.Images) /\ Len(rv.Images) \in Nat
        BY <1>1, WireFields
    <2>2. DOMAIN f.Measurements = 1..n /\ n \in Nat
        BY ListDomain DEF IsDocument
    <2>3. \A a, b \in Nat : 1..a = 1..b => a = b
        <3> SUFFICES ASSUME NEW a \in Nat, NEW b \in Nat, 1..a = 1..b PROVE a = b
            OBVIOUS
        <3>1. a >= 1 => a \in 1..b
            OBVIOUS
        <3>2. b >= 1 => b \in 1..a
            OBVIOUS
        <3> QED BY <3>1, <3>2
    <2> HIDE DEF n
    <2> QED BY <1>1, <2>1, <2>2, <2>3
<1>3. /\ w.SchemaVersion = schemaVersionFor(rv) /\ ParseFamily(w.TEE) = rv.Family
      /\ Len(w.Measurements) = n
      /\ \A i \in 1..n : w.Measurements[i] = formatImage(rv.Images[i], rv.Family)
    BY <1>1, <1>2, WireFields
<1> HIDE DEF n, w
<1>4. ASSUME NEW i \in 1..n
      PROVE  rv.Images[i] \in validateImage(w.Measurements[i], rv.Family)
    <2>1. IsImage(rv.Images[i]) /\ rv.Images[i].AcceptExtension = None
        BY <1>1, <1>2 DEF IsSet, NoHooks, ToSet
    <2> QED BY <1>1, <1>2, <1>3, <2>1, ImageReadsBack
<1>5. /\ schemaVersionFor(rv) \in {schemaVersion1, schemaVersion2}
      /\ checkLaunchFileSchema(schemaVersionFor(rv), rv)
    BY DEF schemaVersionFor, checkLaunchFileSchema
<1>6. rv = [Family |-> rv.Family, Images |-> rv.Images] /\ rv.Images = [i \in 1..n |-> rv.Images[i]]
    BY <1>1, <1>2 DEF IsSet, IsList
<1>7. n # 0
    <2>1. DOMAIN rv.Images # {}
        BY <1>1, ListDomain DEF IsSet
    <2> QED BY <1>2, <2>1
<1>8. ValidatesAs(w, FALSE, rv)
    BY <1>1, <1>3, <1>4, <1>5, <1>6, <1>7 DEF ValidatesAs
<1>9. validate(w, FALSE) # {}
    BY <1>8, SetValidatedAs
<1>10. \A img \in ToSet(rv.Images) : Formats(img, rv.Family)
    BY <1>1 DEF ToSet
<1> QED BY <1>1, <1>9, <1>10 DEF Render, Format, w

(* No pinning at all can be rendered too. *)
LEMMA UnpinnedRenders ==
    ASSUME NEW family \in {"sev-snp", "tdx"}, NEW rv, rv = [Family |-> family, Images |-> << >>]
    PROVE  /\ IsSet(rv) /\ NamesAreText(rv) /\ NoHooks(rv)
           /\ Render(rv) # {}
<1>1. rv.Family = family /\ rv.Images = << >>
    OBVIOUS
<1>2. IsList(rv.Images) /\ DOMAIN rv.Images = {} /\ Len(rv.Images) = 0
    BY <1>1 DEF IsList
<1>3. ToSet(rv.Images) = {}
    BY <1>2 DEF ToSet
<1>4. IsSet(rv)
    BY <1>1, <1>2 DEF IsSet
<1>5. NamesAreText(rv) /\ NoHooks(rv)
    BY <1>3 DEF NamesAreText, NoHooks
<1> DEFINE w == wire(rv, schemaVersion1)
<1>6. /\ w.SchemaVersion = schemaVersion1 /\ ParseFamily(w.TEE) = rv.Family
      /\ Len(w.Measurements) = 0
    BY <1>2, <1>4, WireFields
<1>7. ~pinsLaunchFile(rv)
    BY <1>3 DEF pinsLaunchFile
<1> HIDE DEF w
<1>8. 1..0 = {}
    OBVIOUS
<1>9. rv.Images = [i \in 1..0 |-> rv.Images[i]]
    BY <1>1
<1>10. ValidatesAs(w, TRUE, rv)
    <2>1. rv = [Family |-> ParseFamily(w.TEE), Images |-> rv.Images]
        BY <1>1, <1>6
    <2>2. Distinct(rv.Images, 0)
        BY <1>8 DEF Distinct
    <2> QED BY <1>1, <1>6, <1>7, <1>8, <1>9, <2>1, <2>2 DEF ValidatesAs, checkLaunchFileSchema
<1>11. validate(w, TRUE) # {}
    BY <1>10, SetValidatedAs
<1> QED BY <1>1, <1>4, <1>5, <1>11 DEF Render, w

-----------------------------------------------------------------------------
(* Sets that do not differ admit the same guests. *)

(* The tuple decides what an image admits, if no hook does. *)
LEMMA KeyDecides ==
    ASSUME NEW a, NEW b, tupleKey(a) = tupleKey(b),
           a.AcceptExtension = None, b.AcceptExtension = None, NEW g, NEW family
    PROVE  (Meets(a, g) <=> Meets(b, g)) /\ (WellBound(a, family) <=> WellBound(b, family))
<1>1. /\ a.Digest = b.Digest /\ a.Registers = b.Registers /\ a.Anchor = b.Anchor
      /\ a.LaunchFile = b.LaunchFile /\ a.LaunchFileDigest = b.LaunchFileDigest
    BY DEF tupleKey
<1>2. Meets(a, g) <=> Meets(b, g)
    BY <1>1 DEF Meets, HoldsBinding
<1>3. \A x \in {"Anchor", "LaunchFile", "LaunchFileDigest"} : a[x] = b[x]
    BY <1>1
<1>4. WellBound(a, family) <=> WellBound(b, family)
    BY <1>1, <1>3 DEF WellBound
<1> QED BY <1>2, <1>4

(* Sets without hooks whose Diff is empty admit the same guests (Diff). *)
LEMMA EqualKeysAdmitAlike ==
    ASSUME NEW p, NEW q, NoHooks(p), NoHooks(q), Diff(p, q) = [missing |-> {}, extra |-> {}],
           NEW g \in GuestsSeen
    PROVE  Admits(Policy(p), g) <=> Admits(Policy(q), g)
<1> DEFINE P == ToSet(p.Images)
           Q == ToSet(q.Images)
<1>1. /\ {img \in P : tupleKey(img) \notin {tupleKey(x) : x \in Q}} = {}
      /\ {img \in Q : tupleKey(img) \notin {tupleKey(x) : x \in P}} = {}
    <2> DEFINE M == {img \in P : tupleKey(img) \notin {tupleKey(x) : x \in Q}}
               E == {img \in Q : tupleKey(img) \notin {tupleKey(x) : x \in P}}
    <2>1. Diff(p, q) = [missing |-> M, extra |-> E]
        BY DEF Diff
    <2> HIDE DEF M, E
    <2>2. [missing |-> M, extra |-> E].missing = M /\ [missing |-> M, extra |-> E].extra = E
        OBVIOUS
    <2>3. M = {} /\ E = {}
        BY <2>1, <2>2
    <2> QED BY <2>3 DEF M, E
<1>2. /\ \A a \in P : \E b \in Q : tupleKey(a) = tupleKey(b)
      /\ \A b \in Q : \E a \in P : tupleKey(a) = tupleKey(b)
    <2> HIDE DEF P, Q
    <2> QED BY <1>1
<1>3. (\A a \in P : a.AcceptExtension = None) /\ (\A b \in Q : b.AcceptExtension = None)
    BY DEF NoHooks
<1>4. \A a \in P, b \in Q : tupleKey(a) = tupleKey(b) =>
         /\ Meets(a, g) <=> Meets(b, g)
         /\ WellBound(a, FamilyOf(g)) <=> WellBound(b, FamilyOf(g))
    BY <1>3, KeyDecides
<1>5. Admits(Policy(p), g)
         <=> P = {} \/ ((\A a \in P : WellBound(a, FamilyOf(g))) /\ \E a \in P : Meets(a, g))
    BY AdmitsSet
<1>6. Admits(Policy(q), g)
         <=> Q = {} \/ ((\A b \in Q : WellBound(b, FamilyOf(g))) /\ \E b \in Q : Meets(b, g))
    BY AdmitsSet
<1> HIDE DEF P, Q
<1> QED BY <1>2, <1>4, <1>5, <1>6

-----------------------------------------------------------------------------
(* What a reader without the launch file fields makes of a file that was    *)
(* loaded.                                                                  *)
LEMMA OldReaderReads ==
    ASSUME NEW f, IsDocument(f), NEW rv \in Parse(f), NEW old \in SchemaOneReader(f)
    PROVE  old = rv
<1> DEFINE Stripped(we) == [we EXCEPT !.LaunchFile = None, !.LaunchFileDigest = None]
           es == f.Measurements
<1>1. f.SchemaVersion = schemaVersion1
    BY DEF SchemaOneReader
<1>2. old \in Parse([f EXCEPT !.Measurements = [i \in DOMAIN @ |-> Stripped(@[i])]])
    BY <1>1 DEF SchemaOneReader
<1>3. /\ DOMAIN rv.Images = DOMAIN es /\ checkLaunchFileSchema(f.SchemaVersion, rv)
      /\ \A i \in DOMAIN es : rv.Images[i] \in validateImage(es[i], rv.Family)
    BY LoadedSet
<1>4. \A i \in DOMAIN es : rv.Images[i].LaunchFile = None /\ rv.Images[i].LaunchFileDigest = None
    BY <1>1, <1>3 DEF checkLaunchFileSchema, pinsLaunchFile, ToSet, schemaVersion1, schemaVersion2
<1>5. ASSUME NEW i \in DOMAIN es PROVE Stripped(es[i]) = es[i]
    <2>1. ReadsAs(es[i], rv.Family, rv.Images[i])
        BY <1>3, ValidatedAs
    <2>2. PICK digest, regs, b :
             PinsAs(es[i], rv.Family, b) /\ rv.Images[i] = Image(es[i].Name, digest, regs, b)
        BY <2>1 DEF ReadsAs
    <2>3. b.LaunchFile = None /\ b.LaunchFileDigest = None
        BY <1>4, <2>2 DEF Image
    <2>4. IsEntry(es[i])
        BY DEF IsDocument
    <2>5. es[i].LaunchFile = None
        <3>1. ASSUME es[i].LaunchFile # None PROVE FALSE
            <4>1. es[i].LaunchFile.kind = "string" /\ b.LaunchFile = es[i].LaunchFile.text
                BY <2>2, <3>1 DEF PinsAs, Pinned
            <4>2. IsRaw(es[i].LaunchFile)
                BY <2>4, <3>1 DEF IsEntry
            <4> QED BY <2>3, <3>1, <4>1, <4>2, RawOf
        <3> QED BY <3>1
    <2>6. es[i].LaunchFileDigest = None
        <3>1. ASSUME es[i].LaunchFileDigest # None PROVE FALSE
            <4>1. /\ es[i].LaunchFileDigest.kind = "string"
                  /\ b.LaunchFileDigest = es[i].LaunchFileDigest.text.of
                BY <2>2, <3>1 DEF PinsAs, Pinned
            <4>2. es[i].LaunchFileDigest.text.of # None
                BY <2>4, <3>1, <4>1 DEF IsEntry
            <4> QED BY <2>3, <4>1, <4>2
        <3> QED BY <3>1
    <2> DEFINE we == es[i]
    <2>7. /\ we = [Name |-> we.Name, Measurement |-> we.Measurement, MRTD |-> we.MRTD,
                   RTMR |-> we.RTMR, ApproverKey |-> we.ApproverKey,
                   LaunchFile |-> we.LaunchFile, LaunchFileDigest |-> we.LaunchFileDigest]
          /\ we.LaunchFile = None /\ we.LaunchFileDigest = None
        BY <2>4, <2>5, <2>6 DEF IsEntry
    <2> HIDE DEF we
    <2>8. Stripped(we) = we
        BY <2>7
    <2> QED BY <2>8 DEF we
<1>6. [f EXCEPT !.Measurements = [i \in DOMAIN @ |-> Stripped(@[i])]] = f
    <2>1. es = [i \in DOMAIN es |-> es[i]]
        BY ListDomain DEF IsDocument, IsList
    <2>2. [i \in DOMAIN es |-> Stripped(es[i])] = es
        <3> HIDE DEF Stripped, es
        <3> QED BY <1>5, <2>1
    <2>3. f = [syntax |-> f.syntax, SchemaVersion |-> f.SchemaVersion, TEE |-> f.TEE,
               Measurements |-> f.Measurements]
        BY DEF IsDocument
    <2>4. [f EXCEPT !.Measurements = f.Measurements] = f
        BY <2>3
    <2>5. [f EXCEPT !.Measurements = [i \in DOMAIN @ |-> Stripped(@[i])]]
            = [f EXCEPT !.Measurements = [i \in DOMAIN es |-> Stripped(es[i])]]
        BY <2>3
    <2> QED BY <2>2, <2>4, <2>5
<1>7. old \in Parse(f)
    BY <1>2, <1>6
<1>8. old \in validate(f, FALSE) /\ rv \in validate(f, FALSE)
    BY <1>7 DEF Parse, parse
<1> QED BY <1>8, OneSet

-----------------------------------------------------------------------------
(* How a guest is launched as an entry says. *)

(* A register that is one digest folded nothing else. *)
LEMMA OneFold ==
    ASSUME NEW a, NEW d, NEW s \in Seq(Digests)
    PROVE  FromDigestsSeeded(<<a>>, s) = <<d>> <=> a = d /\ s = << >>
<1> DEFINE h == [i \in 1..Len(s) |-> Event(s[i])]
           E == {a} \cup {Event(x) : x \in Digests}
<1>1. Len(s) \in Nat /\ \A i \in 1..Len(s) : s[i] \in Digests
    OBVIOUS
<1>2. <<a>> \in Seq(E) /\ Len(<<a>>) = 1
    OBVIOUS
<1>3. h \in Seq(E) /\ Len(h) = Len(s)
    <2>1. h \in [1..Len(s) -> E]
        BY <1>1
    <2> HIDE DEF E
    <2> QED BY <1>1, <2>1
<1>4. FromDigestsSeeded(<<a>>, s) = <<a>> \o h
    BY DEF FromDigestsSeeded
<1> HIDE DEF h, E
<1>5. Len(<<a>> \o h) = 1 + Len(s) /\ (<<a>> \o h)[1] = a
    BY <1>2, <1>3
<1>6. ASSUME <<a>> \o h = <<d>> PROVE a = d /\ s = << >>
    <2>1. Len(<<d>>) = 1 /\ <<d>>[1] = d
        OBVIOUS
    <2>2. Len(s) = 0 /\ a = d
        <3> DEFINE q == <<a>> \o h
                   o == <<d>>
        <3>1. Len(q) = 1 + Len(s) /\ q[1] = a /\ Len(o) = 1 /\ o[1] = d /\ q = o
            BY <1>5, <1>6, <2>1
        <3> HIDE DEF q, o
        <3>2. Len(q) = Len(o) /\ q[1] = o[1]
            BY <3>1
        <3>3. 1 + Len(s) = 1
            BY <3>1, <3>2
        <3>4. Len(s) = 0
            BY <1>1, <3>3
        <3>5. a = d
            BY <3>1, <3>2, Zenon
        <3> QED BY <3>4, <3>5
    <2> QED BY <2>2
<1>7. ASSUME a = d, s = << >> PROVE <<a>> \o h = <<d>>
    <2>1. h = << >>
        BY <1>7 DEF h
    <2> QED BY <1>7, <2>1
<1> QED BY <1>4, <1>6, <1>7

(* A digest of one width has the name of its hash as its domain. *)
LEMMA OneDigest ==
    ASSUME NEW x
    PROVE  /\ [f \in {"sha384"} |-> x] = [sha384 |-> x] /\ [f \in {"sha256"} |-> x] = [sha256 |-> x]
           /\ DOMAIN [sha384 |-> x] = {"sha384"} /\ DOMAIN [sha256 |-> x] = {"sha256"}
OBVIOUS

(* The guests compared are of a known family. *)
LEMMA SeenFamily ==
    ASSUME NEW g \in GuestsSeen
    PROVE  /\ FamilyOf(g) \in {"tdx", "sev-snp"}
           /\ g.tag = "az-snp" => FamilyOf(g) = "sev-snp"
           /\ checkBindingPlatform(EvidenceOf(g).Platform) <=> g.tag # "az-snp"
           /\ HasRegisters(EvidenceOf(g).Platform) <=> FamilyOf(g) = "tdx"
<1>1. FamilyOf(g) # "" /\ EvidenceOf(g).Platform.tag = g.tag
    <2>1. EvidenceOf(g).Platform = [tag |-> g.tag, canonical |-> TRUE]
        BY ResultFields
    <2>2. Family([tag |-> g.tag, canonical |-> TRUE]) # ""
        BY SeenAssumption
    <2>3. \A x : [tag |-> x, canonical |-> TRUE].tag = x
        OBVIOUS
    <2>4. EvidenceOf(g).Platform.tag = g.tag
        BY <2>1, <2>3, Zenon
    <2>5. FamilyOf(g) # ""
        BY <2>1, <2>2, Zenon DEF FamilyOf
    <2> QED BY <2>4, <2>5
<1>2. FamilyOf(g) \in {"tdx", "sev-snp"}
    BY <1>1 DEF FamilyOf, Family
<1>3. NormalizePlatform(EvidenceOf(g).Platform).tag = g.tag
    BY <1>1, ResultFields
<1>4. g.tag = "az-snp" => FamilyOf(g) = "sev-snp"
    BY <1>3 DEF FamilyOf, Family
<1> QED BY <1>1, <1>2, <1>3, <1>4 DEF checkBindingPlatform, HasRegisters, FamilyOf

(* What the verified result of a guest shows as its binding. *)
LEMMA BindingOfGuest ==
    ASSUME NEW g \in GuestsSeen
    PROVE  Binding(ResultOf(g)) =
             IF g.tag = "az-snp" THEN {}
             ELSE IF FamilyOf(g) = "tdx"
                  THEN {FromDigestsSeeded(<<[sha384 |-> g.file]>>, g.extends)}
                  ELSE {[sha256 |-> g.file]}
<1> DEFINE r == ResultOf(g)
<1>1. r.SignatureValid /\ r.Platform = EvidenceOf(g).Platform
    BY ResultFields
<1>2. r.Claims.RTMR = RegistersOf(g)
    BY DEF RegistersOf
<1> HIDE DEF r
<1>3. CASE g.tag = "az-snp"
    BY <1>1, <1>3, SeenFamily DEF Binding, r
<1>4. CASE g.tag # "az-snp" /\ FamilyOf(g) = "tdx"
    <2>1. 3 \in DOMAIN RegistersOf(g)
          /\ RegistersOf(g)[3] = FromDigestsSeeded(<<[sha384 |-> g.file]>>, g.extends)
        BY <1>4, GuestReports
    <2>2. Binding(r) = {r.Claims.RTMR[i] : i \in {3} \cap DOMAIN r.Claims.RTMR}
        BY <1>1, <1>4, SeenFamily DEF Binding
    <2>3. {3} \cap DOMAIN r.Claims.RTMR = {3}
        BY <1>2, <2>1
    <2>4. Binding(r) = {RegistersOf(g)[3]}
        BY <1>2, <2>2, <2>3
    <2> QED BY <1>4, <2>1, <2>4 DEF r
<1>5. CASE g.tag # "az-snp" /\ FamilyOf(g) # "tdx"
    <2>1. r.Claims.InitData = [sha256 |-> g.file] /\ [sha256 |-> g.file] # None
        BY <1>5, GuestReports, SeenAssumption DEF HostData, r
    <2>2. Binding(r) = {h \in {r.Claims.InitData} : h # None /\ DOMAIN h = {"sha256"}}
        BY <1>1, <1>5, SeenFamily DEF Binding
    <2>3. DOMAIN [sha256 |-> g.file] = {"sha256"}
        BY OneDigest
    <2>4. Binding(r) = {[sha256 |-> g.file]}
        BY <2>1, <2>2, <2>3
    <2> QED BY <1>5, <2>4 DEF r
<1> QED BY <1>3, <1>4, <1>5

(* A binding of one launch digest and no workload: the guest's file has     *)
(* that digest and it measured nothing since.                               *)
LaunchedAs(g, d) ==
    /\ g.tag # "az-snp" /\ d \in LaunchFileDigest(FamilyOf(g), g.file)
    /\ FamilyOf(g) = "tdx" => g.extends = << >>

(* The digests of a launch file, and the ones a family accepts. *)
LEMMA LaunchDigests ==
    ASSUME NEW x, NEW d
    PROVE  /\ d \in LaunchFileDigest("tdx", x) <=> x # EmptyBytes /\ d = [sha384 |-> x]
           /\ d \in LaunchFileDigest("sev-snp", x) <=> x # EmptyBytes /\ d = [sha256 |-> x]
           /\ CheckLaunchFileDigest("tdx", d) <=>
                 DOMAIN d = {"sha384"} /\ d["sha384"] \notin {ZeroBytes, EmptyBytes}
           /\ CheckLaunchFileDigest("sev-snp", d) <=>
                 DOMAIN d = {"sha256"} /\ d["sha256"] \notin {ZeroBytes, EmptyBytes}
<1>1. launchFileHash("tdx") = {"sha384"} /\ launchFileHash("sev-snp") = {"sha256"}
    BY DEF launchFileHash
<1> QED BY <1>1, OneDigest DEF LaunchFileDigest, CheckLaunchFileDigest

(* The binding expected for a launch digest, and who has it. *)
LEMMA ExpectedAs ==
    ASSUME NEW g \in GuestsSeen, NEW d
    PROVE  /\ \A want \in bindingFromDigest(ResultOf(g).Platform, d, << >>) :
                 want = IF FamilyOf(g) = "tdx" THEN <<d>> ELSE d
           /\ (\E got \in Binding(ResultOf(g)) :
                 got \in bindingFromDigest(ResultOf(g).Platform, d, << >>))
                <=> LaunchedAs(g, d)
<1> DEFINE p == ResultOf(g).Platform
           x == IF FamilyOf(g) = "tdx" THEN <<d>> ELSE d
<1>1. p = EvidenceOf(g).Platform /\ Family(p) = FamilyOf(g)
    BY ResultFields DEF FamilyOf
<1>2. FromDigestsSeeded(Extend(Zero, d), << >>) = <<d>>
    BY DEF FromDigestsSeeded, Extend, Zero
<1>3. bindingFromDigest(p, d, << >>) =
        IF g.tag = "az-snp" \/ ~CheckLaunchFileDigest(FamilyOf(g), d) THEN {} ELSE {x}
    <2>1. ~(Len(<< >>) > 0)
        OBVIOUS
    <2>2. checkBindingPlatform(p) <=> g.tag # "az-snp"
        BY <1>1, SeenFamily
    <2> HIDE DEF p
    <2> QED BY <1>1, <1>2, <2>1, <2>2 DEF bindingFromDigest
<1> HIDE DEF p, x
<1>4. \A want \in bindingFromDigest(p, d, << >>) : want = x
    BY <1>3
<1> DEFINE held == IF FamilyOf(g) = "tdx"
                   THEN FromDigestsSeeded(<<[sha384 |-> g.file]>>, g.extends)
                   ELSE [sha256 |-> g.file]
<1>5. Binding(ResultOf(g)) = IF g.tag = "az-snp" THEN {} ELSE {held}
    BY BindingOfGuest
<1>6. g.extends \in Seq(Digests) /\ g.file # ZeroBytes
    BY SeenAssumption
<1>7. FamilyOf(g) = "tdx" => (held = x <=> d = [sha384 |-> g.file] /\ g.extends = << >>)
    <2>1. ASSUME FamilyOf(g) = "tdx"
          PROVE  held = FromDigestsSeeded(<<[sha384 |-> g.file]>>, g.extends) /\ x = <<d>>
        BY <2>1 DEF x
    <2> HIDE DEF held
    <2> DEFINE a == [sha384 |-> g.file]
               l == g.extends
    <2> HIDE DEF a, l
    <2>2. FromDigestsSeeded(<<a>>, l) = <<d>> <=> a = d /\ l = << >>
        <3>1. l \in Seq(Digests)
            BY <1>6 DEF l
        <3> DEFINE One(y, z, s) == FromDigestsSeeded(<<y>>, s) = <<z>> <=> y = z /\ s = << >>
        <3>2. \A y, z : \A s \in Seq(Digests) : One(y, z, s)
            BY OneFold
        <3> HIDE DEF One
        <3>3. One(a, d, l)
            BY <3>1, <3>2, Zenon
        <3> QED BY <3>3, Zenon DEF One
    <2>3. FamilyOf(g) = "tdx" => held = FromDigestsSeeded(<<a>>, l)
        BY <2>1 DEF a, l
    <2> QED BY <2>1, <2>2, <2>3 DEF a, l
<1>8. FamilyOf(g) = "sev-snp" => (held = x <=> d = [sha256 |-> g.file])
    BY DEF x
<1> HIDE DEF held
<1>9. (\E got \in Binding(ResultOf(g)) : got \in bindingFromDigest(p, d, << >>))
         <=> g.tag # "az-snp" /\ CheckLaunchFileDigest(FamilyOf(g), d) /\ held = x
    BY <1>3, <1>5
<1>10. CASE FamilyOf(g) = "tdx"
    <2>1. d = [sha384 |-> g.file] =>
             (CheckLaunchFileDigest("tdx", d) <=> g.file # EmptyBytes)
        BY <1>6, LaunchDigests, OneDigest
    <2>2. d \in LaunchFileDigest("tdx", g.file) <=> g.file # EmptyBytes /\ d = [sha384 |-> g.file]
        BY LaunchDigests
    <2> QED BY <1>4, <1>7, <1>9, <1>10, <2>1, <2>2 DEF LaunchedAs, p, x
<1>11. CASE FamilyOf(g) = "sev-snp"
    <2>1. d = [sha256 |-> g.file] =>
             (CheckLaunchFileDigest("sev-snp", d) <=> g.file # EmptyBytes)
        BY <1>6, LaunchDigests, OneDigest
    <2>2. d \in LaunchFileDigest("sev-snp", g.file) <=> g.file # EmptyBytes /\ d = [sha256 |-> g.file]
        BY LaunchDigests
    <2> QED BY <1>4, <1>8, <1>9, <1>11, <2>1, <2>2 DEF LaunchedAs, p, x
<1> QED BY <1>10, <1>11, SeenFamily

(* The list a guest claims is one the matcher reads. *)
LEMMA ClaimsAreRead ==
    ASSUME NEW g \in GuestsSeen
    PROVE  /\ Len(ClaimsOf(g)) \in Nat
           /\ \A i \in 1..Len(ClaimsOf(g)) : CanonicalEntry(ClaimsOf(g)[i])
<1> DEFINE n == Len(g.extends)
<1>1. n \in Nat /\ \A i \in 1..n : g.extends[i] \in Digests
    <2>1. g.extends \in Seq(Digests)
        BY SeenAssumption
    <2> QED BY <2>1
<1> HIDE DEF n
<1>2. ClaimsOf(g) = [i \in 1..n |-> [form |-> "bare", digest |-> g.extends[i]]]
    BY DEF ClaimsOf, n
<1>3. Len(ClaimsOf(g)) = n /\ \A i \in 1..n :
        ClaimsOf(g)[i].form = "bare" /\ ClaimsOf(g)[i].digest = g.extends[i]
    BY <1>1, <1>2
<1>4. \A i \in 1..n : CanonicalEntry(ClaimsOf(g)[i])
    <2> SUFFICES ASSUME NEW i \in 1..n PROVE CanonicalEntry(ClaimsOf(g)[i])
        OBVIOUS
    <2> DEFINE c == ClaimsOf(g)[i]
    <2>1. c.form = "bare" /\ c.digest \in Digests
        BY <1>1, <1>3
    <2> HIDE DEF c
    <2>2. CanonicalEntry(c)
        BY <2>1, NoneIsNoDigest DEF CanonicalEntry, CanonicalDigest
    <2> QED BY <2>2 DEF c
<1> QED BY <1>1, <1>3, <1>4

(* A pin without a hook accepts no extension, so the binding must be the    *)
(* expected one itself.                                                     *)
LEMMA NoHookNoExtension ==
    ASSUME NEW g \in GuestsSeen, NEW S,
           FamilyOf(g) = "tdx" =>
              \A want \in S : FromDigestsSeeded(want, Listed(ClaimsOf(g), 0)) = want
    PROVE  Replayed(matchBindingPrefix(ResultOf(g), ClaimsOf(g), S), None, g)
             <=> \E got \in Binding(ResultOf(g)) : got \in S
<1> DEFINE r == ResultOf(g)
           c == ClaimsOf(g)
           Hits(got, w) ==
              IF HasRegisters(r.Platform)
              THEN {k \in 0..Len(c) : got = FromDigestsSeeded(w, Listed(c, k))}
              ELSE {k \in {0} : got = w}
           First(ks) == {k \in ks : \A j \in ks : k <= j}
           B == Binding(r)
           M == UNION {First(Hits(got, w)) : got \in B, w \in S}
<1>1. Len(c) \in Nat /\ ~\E i \in 1..Len(c) : ~CanonicalEntry(c[i])
    BY ClaimsAreRead
<1>2. matchBindingPrefix(r, c, S) = M
    BY <1>1 DEF matchBindingPrefix
<1>3. HasRegisters(r.Platform) <=> FamilyOf(g) = "tdx"
    BY SeenFamily, ResultFields
<1> HIDE DEF r, c
<1>4. \A got, w : Hits(got, w) \subseteq Nat
    BY <1>1
<1>5. \A got, w : w \in S => (0 \in Hits(got, w) <=> got = w)
    BY <1>1, <1>3 DEF c
<1> HIDE DEF Hits
<1>6. \A got, w : /\ First(Hits(got, w)) \subseteq Nat
                  /\ 0 \in First(Hits(got, w)) <=> 0 \in Hits(got, w)
    BY <1>4
<1> HIDE DEF First, B
<1>7. M \subseteq Nat /\ (0 \in M <=> \E got \in B : got \in S)
    BY <1>5, <1>6
<1> HIDE DEF M
<1>8. Replayed(M, None, g) <=> 0 \in M
    BY <1>7 DEF Replayed
<1> QED BY <1>2, <1>7, <1>8 DEF r, c, B

(* An empty prefix of the list leaves the register at the seed. *)
LEMMA FoldsNothing ==
    ASSUME NEW d, NEW c
    PROVE  FromDigestsSeeded(<<d>>, Listed(c, 0)) = <<d>>
<1>1. Listed(c, 0) = << >>
    BY DEF Listed
<1>2. FromDigestsSeeded(<<d>>, << >>) = <<d>>
    BY DEF FromDigestsSeeded
<1> QED BY <1>1, <1>2

(* What the three bindings of a pin without a hook ask of a guest. *)
LEMMA DigestBinds ==
    ASSUME NEW g \in GuestsSeen, NEW d
    PROVE  Replayed(MatchLaunchFileDigestPrefix(ResultOf(g), d, ClaimsOf(g)), None, g)
             <=> LaunchedAs(g, d)
<1> DEFINE S == bindingFromDigest(ResultOf(g).Platform, d, << >>)
<1>1. FamilyOf(g) = "tdx" =>
         \A want \in S : FromDigestsSeeded(want, Listed(ClaimsOf(g), 0)) = want
    BY ExpectedAs, FoldsNothing
<1>2. (\E got \in Binding(ResultOf(g)) : got \in S) <=> LaunchedAs(g, d)
    BY ExpectedAs
<1>3. MatchLaunchFileDigestPrefix(ResultOf(g), d, ClaimsOf(g))
        = matchBindingPrefix(ResultOf(g), ClaimsOf(g), S)
    BY DEF MatchLaunchFileDigestPrefix
<1> HIDE DEF S
<1>4. Replayed(matchBindingPrefix(ResultOf(g), ClaimsOf(g), S), None, g)
        <=> \E got \in Binding(ResultOf(g)) : got \in S
    BY <1>1, NoHookNoExtension
<1> QED BY <1>2, <1>3, <1>4

(* A pinned file or approver key binds the guests launched with its bytes. *)
LEMMA FileBinds ==
    ASSUME NEW g \in GuestsSeen, NEW x
    PROVE  /\ Replayed(MatchBindingPrefix(ResultOf(g), x, ClaimsOf(g)), None, g)
                 <=> BareLaunch(g, x) /\ x # EmptyBytes
           /\ VerifyBinding(ResultOf(g), x, << >>) <=> BareLaunch(g, x) /\ x # EmptyBytes
<1> DEFINE p == ResultOf(g).Platform
           S == expectedBinding(p, x, << >>)
           D == LaunchFileDigest(FamilyOf(g), x)
<1>1. Family(p) = FamilyOf(g)
    BY ResultFields DEF FamilyOf
<1>2. S = UNION {bindingFromDigest(p, d, << >>) : d \in D}
    BY <1>1 DEF expectedBinding
<1> HIDE DEF p, D
<1>3. \A want \in S : \E d \in D : want \in bindingFromDigest(p, d, << >>)
    BY <1>2
<1>4. FamilyOf(g) = "tdx" =>
         \A want \in S : FromDigestsSeeded(want, Listed(ClaimsOf(g), 0)) = want
    BY <1>3, ExpectedAs, FoldsNothing DEF p
<1>5. (\E got \in Binding(ResultOf(g)) : got \in S) <=> \E d \in D : LaunchedAs(g, d)
    <2> DEFINE Expects(d) == \E got \in Binding(ResultOf(g)) : got \in bindingFromDigest(p, d, << >>)
    <2>1. \A d : Expects(d) <=> LaunchedAs(g, d)
        BY ExpectedAs DEF p
    <2>2. (\E got \in Binding(ResultOf(g)) : got \in S) <=> \E d \in D : Expects(d)
        BY <1>2
    <2> HIDE DEF Expects
    <2> QED BY <2>1, <2>2
<1>6. (\E d \in D : LaunchedAs(g, d)) <=> BareLaunch(g, x) /\ x # EmptyBytes
    <2>1. BareLaunch(g, x) <=> /\ g.tag # "az-snp" /\ g.file = x
                               /\ FamilyOf(g) = "tdx" => g.extends = << >>
        BY SeenFamily DEF BareLaunch
    <2>2. CASE FamilyOf(g) = "tdx"
        <3>1. \A d : d \in D <=> x # EmptyBytes /\ d = [sha384 |-> x]
            BY <2>2, LaunchDigests DEF D
        <3>2. \A d : d \in LaunchFileDigest(FamilyOf(g), g.file)
                        <=> g.file # EmptyBytes /\ d = [sha384 |-> g.file]
            BY <2>2, LaunchDigests
        <3>3. \A y, z : [sha384 |-> y] = [sha384 |-> z] => y = z
            OBVIOUS
        <3> QED BY <2>1, <3>1, <3>2, <3>3, Zenon DEF LaunchedAs
    <2>3. CASE FamilyOf(g) = "sev-snp"
        <3>1. \A d : d \in D <=> x # EmptyBytes /\ d = [sha256 |-> x]
            BY <2>3, LaunchDigests DEF D
        <3>2. \A d : d \in LaunchFileDigest(FamilyOf(g), g.file)
                        <=> g.file # EmptyBytes /\ d = [sha256 |-> g.file]
            BY <2>3, LaunchDigests
        <3>3. \A y, z : [sha256 |-> y] = [sha256 |-> z] => y = z
            OBVIOUS
        <3> QED BY <2>1, <2>3, <3>1, <3>2, <3>3, Zenon DEF LaunchedAs
    <2> QED BY <2>2, <2>3, SeenFamily
<1>7. MatchBindingPrefix(ResultOf(g), x, ClaimsOf(g))
        = matchBindingPrefix(ResultOf(g), ClaimsOf(g), S)
    BY DEF MatchBindingPrefix, p
<1>8. VerifyBinding(ResultOf(g), x, << >>) <=> \E got \in Binding(ResultOf(g)) : got \in S
    BY DEF VerifyBinding, p
<1> HIDE DEF S
<1>9. Replayed(matchBindingPrefix(ResultOf(g), ClaimsOf(g), S), None, g)
        <=> \E got \in Binding(ResultOf(g)) : got \in S
    BY <1>4, NoHookNoExtension
<1> QED BY <1>5, <1>6, <1>7, <1>8, <1>9

-----------------------------------------------------------------------------
(* Everything an entry says is what its image asks of a guest. *)
LEMMA RegistersHold ==
    ASSUME NEW g \in GuestsSeen, NEW raw, raw # None => IsList(raw), NEW regs \in decodeRTMRs(raw)
    PROVE  HoldsRegisters(regs, g)
             <=> (raw # None => \A i \in DOMAIN raw : raw[i] # None =>
                    i - 1 \in DOMAIN RegistersOf(g) /\ RegistersOf(g)[i - 1] = raw[i].of)
<1>1. /\ DOMAIN regs \subseteq 1..3
      /\ raw = None => regs = NoRegisters
      /\ raw # None => \A j \in DOMAIN raw : raw[j] # None => j - 1 \in DOMAIN regs
      /\ \A i \in DOMAIN regs : /\ raw # None /\ i + 1 \in DOMAIN raw /\ raw[i + 1] # None
                                /\ regs[i] = raw[i + 1].of
    BY RegistersAs
<1>2. CASE raw = None
    <2>1. DOMAIN regs = {}
        BY <1>1, <1>2 DEF NoRegisters
    <2> QED BY <1>2, <2>1 DEF HoldsRegisters
<1>3. CASE raw # None
    <2>1. Len(raw) \in Nat /\ DOMAIN raw = 1..Len(raw)
        BY <1>3, ListDomain
    <2> DEFINE H(i) == i \in DOMAIN RegistersOf(g) /\ RegistersOf(g)[i] = regs[i]
               W(i) == i - 1 \in DOMAIN RegistersOf(g) /\ RegistersOf(g)[i - 1] = raw[i].of
    <2>2. ASSUME NEW i \in DOMAIN regs
          PROVE  i + 1 \in DOMAIN raw /\ raw[i + 1] # None /\ (W(i + 1) <=> H(i))
        <3>1. i \in Nat /\ (i + 1) - 1 = i
            BY <1>1
        <3> DEFINE j == i + 1
        <3>2. j \in DOMAIN raw /\ raw[j] # None /\ regs[i] = raw[j].of /\ j - 1 = i
            BY <1>1, <3>1
        <3> HIDE DEF j
        <3>3. j \in DOMAIN raw /\ raw[j] # None /\ (W(j) <=> H(i))
            BY <3>2
        <3> QED BY <3>3 DEF j
    <2>3. ASSUME NEW i \in DOMAIN raw, raw[i] # None
          PROVE  i - 1 \in DOMAIN regs /\ (W(i) <=> H(i - 1))
        <3> DEFINE j == i - 1
        <3>1. i \in Nat /\ j \in DOMAIN regs
            BY <1>1, <1>3, <2>1, <2>3
        <3>2. j + 1 = i
            BY <3>1
        <3> HIDE DEF j
        <3>3. W(j + 1) <=> H(j)
            BY <2>2, <3>1
        <3>4. W(i) <=> H(j)
            BY <3>2, <3>3
        <3> QED BY <3>1, <3>4 DEF j
    <2>4. HoldsRegisters(regs, g) <=> \A i \in DOMAIN regs : H(i)
        BY DEF HoldsRegisters
    <2>5. (\A i \in DOMAIN regs : H(i)) <=> (\A i \in DOMAIN raw : raw[i] # None => W(i))
        <3> HIDE DEF H, W
        <3> QED BY <2>2, <2>3
    <2> QED BY <1>3, <2>4, <2>5
<1> QED BY <1>2, <1>3

(* The two halves of EntryHolds. *)
MeasurementsHold(we, g) ==
    /\ \A text \in {we.Measurement, we.MRTD} \ {None} : text.of = g.launch
    /\ we.RTMR # None => \A i \in DOMAIN we.RTMR : we.RTMR[i] # None =>
          i - 1 \in DOMAIN RegistersOf(g) /\ RegistersOf(g)[i - 1] = we.RTMR[i].of

(* The launch binding that is written holds. *)
PinsHold(we, g) ==
    /\ \A raw \in {we.ApproverKey, we.LaunchFile} \ {None} : BareLaunch(g, raw.text)
    /\ we.LaunchFileDigest # None =>
          \E bytes \in {g.file} :
             /\ BareLaunch(g, bytes)
             /\ we.LaunchFileDigest.text.of \in
                   LaunchFileDigest(Family(EvidenceOf(g).Platform), bytes)

(* The measurements of an entry hold where its image's do. *)
LEMMA MeasuredHolds ==
    ASSUME NEW g \in GuestsSeen, NEW we, IsEntry(we), NEW family, NEW digest, NEW regs,
           MeasuresAs(we, family, digest, regs)
    PROVE  digest = g.launch /\ HoldsRegisters(regs, g) <=> MeasurementsHold(we, g)
<1> DEFINE Written == we.RTMR # None => \A i \in DOMAIN we.RTMR : we.RTMR[i] # None =>
                         /\ i - 1 \in DOMAIN RegistersOf(g)
                         /\ RegistersOf(g)[i - 1] = we.RTMR[i].of
<1>1. regs \in decodeRTMRs(we.RTMR)
    <2>1. decodeRTMRs(None) = {NoRegisters}
        BY DEF decodeRTMRs
    <2> QED BY <2>1 DEF MeasuresAs
<1>2. we.RTMR # None => IsList(we.RTMR)
    BY DEF IsEntry
<1> DEFINE raw == we.RTMR
<1>3. HoldsRegisters(regs, g) <=> Written
    <2>1. regs \in decodeRTMRs(raw) /\ (raw # None => IsList(raw))
        BY <1>1, <1>2
    <2> HIDE DEF raw
    <2>2. HoldsRegisters(regs, g)
             <=> (raw # None => \A i \in DOMAIN raw : raw[i] # None =>
                    i - 1 \in DOMAIN RegistersOf(g) /\ RegistersOf(g)[i - 1] = raw[i].of)
        BY <2>1, RegistersHold
    <2> QED BY <2>2 DEF raw
<1> HIDE DEF Written
<1>4. digest = g.launch <=> \A text \in {we.Measurement, we.MRTD} \ {None} : text.of = g.launch
    BY DEF MeasuresAs
<1> QED BY <1>3, <1>4 DEF Written, MeasurementsHold

(* The launch binding of an entry holds where its image's does. *)
LEMMA BindingHolds ==
    ASSUME NEW g \in GuestsSeen, NEW we, NEW family, NEW b, PinsAs(we, family, b), IsEntry(we),
           NEW img, img.Anchor = b.Anchor, img.LaunchFile = b.LaunchFile,
           img.LaunchFileDigest = b.LaunchFileDigest, img.AcceptExtension = None
    PROVE  HoldsBinding(img, g) <=> PinsHold(we, g)
<1>1. HoldsBinding(img, g)
        <=> /\ img.Anchor # None => BareLaunch(g, img.Anchor) /\ img.Anchor # EmptyBytes
            /\ img.LaunchFile # None => BareLaunch(g, img.LaunchFile) /\ img.LaunchFile # EmptyBytes
            /\ img.LaunchFileDigest # None => LaunchedAs(g, img.LaunchFileDigest)
    BY FileBinds, DigestBinds DEF HoldsBinding
<1>2. \A d : LaunchedAs(g, d) <=>
         \E bytes \in {g.file} : /\ BareLaunch(g, bytes)
                                 /\ d \in LaunchFileDigest(Family(EvidenceOf(g).Platform), bytes)
    BY SeenFamily DEF LaunchedAs, BareLaunch, FamilyOf
<1> DEFINE Wrote(d) == \E bytes \in {g.file} :
              /\ BareLaunch(g, bytes)
              /\ d \in LaunchFileDigest(Family(EvidenceOf(g).Platform), bytes)
<1> HIDE DEF Wrote
<1>3. \A d : LaunchedAs(g, d) <=> Wrote(d)
    BY <1>2 DEF Wrote
<1>4. \A a, f, d : /\ Pinned(a, f, d).Anchor = a /\ Pinned(a, f, d).LaunchFile = f
                   /\ Pinned(a, f, d).LaunchFileDigest = d
    BY DEF Pinned
<1>5. CASE we.ApproverKey = None /\ we.LaunchFile = None /\ we.LaunchFileDigest = None
    BY <1>1, <1>4, <1>5 DEF PinsAs, PinsHold
<1>6. CASE we.ApproverKey # None
    <2>1. /\ we.LaunchFile = None /\ we.LaunchFileDigest = None
          /\ we.ApproverKey.text # EmptyBytes /\ b = Pinned(we.ApproverKey.text, None, None)
          /\ we.ApproverKey.text # None
        BY <1>6 DEF PinsAs, IsEntry, IsRaw
    <2> QED BY <1>1, <1>4, <1>6, <2>1 DEF PinsHold
<1>7. CASE we.LaunchFile # None
    <2>1. /\ we.ApproverKey = None /\ we.LaunchFileDigest = None
          /\ we.LaunchFile.text # EmptyBytes /\ b = Pinned(None, we.LaunchFile.text, None)
          /\ we.LaunchFile.text # None
        BY <1>7 DEF PinsAs, IsEntry, IsRaw
    <2> QED BY <1>1, <1>4, <1>7, <2>1 DEF PinsHold
<1>8. CASE we.LaunchFileDigest # None
    <2>1. /\ we.ApproverKey = None /\ we.LaunchFile = None
          /\ b = Pinned(None, None, we.LaunchFileDigest.text.of)
          /\ we.LaunchFileDigest.text.of # None
        BY <1>8 DEF PinsAs, IsEntry
    <2>2. HoldsBinding(img, g) <=> Wrote(we.LaunchFileDigest.text.of)
        BY <1>1, <1>3, <1>4, <2>1
    <2> QED BY <1>8, <2>1, <2>2 DEF Wrote, PinsHold
<1> QED BY <1>5, <1>6, <1>7, <1>8

(* A guest meets the image of an entry where all of the entry holds. *)
LEMMA EntryMeets ==
    ASSUME NEW g \in GuestsSeen, NEW we, IsEntry(we), NEW family \in {"sev-snp", "tdx"},
           NEW img \in validateImage(we, family)
    PROVE  /\ Meets(img, g) <=> EntryHolds(we, g)
           /\ WellBound(img, FamilyOf(g)) <=> (we.LaunchFileDigest # None => FamilyOf(g) = family)
<1>1. PICK digest, regs, b : /\ MeasuresAs(we, family, digest, regs)
                             /\ PinsAs(we, family, b)
                             /\ img = Image(we.Name, digest, regs, b)
    <2>1. ReadsAs(we, family, img)
        BY ValidatedAs
    <2> QED BY <2>1 DEF ReadsAs
<1>2. /\ img.Digest = digest /\ img.Registers = regs /\ img.Anchor = b.Anchor
      /\ img.LaunchFile = b.LaunchFile /\ img.LaunchFileDigest = b.LaunchFileDigest
      /\ img.AcceptExtension = None
    BY <1>1 DEF Image
<1>3. Meets(img, g) <=> EntryHolds(we, g)
    <2>1. digest = g.launch /\ HoldsRegisters(regs, g) <=> MeasurementsHold(we, g)
        BY <1>1, MeasuredHolds
    <2>2. HoldsBinding(img, g) <=> PinsHold(we, g)
        BY <1>1, <1>2, BindingHolds
    <2>3. EntryHolds(we, g) <=> MeasurementsHold(we, g) /\ PinsHold(we, g)
        BY Zenon DEF EntryHolds, MeasurementsHold, PinsHold
    <2> QED BY <1>2, <2>1, <2>2, <2>3 DEF Meets
<1>4. \A x, f, d : /\ Pinned(x, f, d).Anchor = x /\ Pinned(x, f, d).LaunchFile = f
                   /\ Pinned(x, f, d).LaunchFileDigest = d
    BY DEF Pinned
<1>5. /\ img.Anchor # None => img.LaunchFile = None /\ img.LaunchFileDigest = None
      /\ img.LaunchFile # None => img.LaunchFileDigest = None
      /\ img.LaunchFile # EmptyBytes
      /\ img.LaunchFileDigest # None <=> we.LaunchFileDigest # None
      /\ img.LaunchFileDigest # None => CheckLaunchFileDigest(family, img.LaunchFileDigest)
    <2>1. CASE we.ApproverKey = None /\ we.LaunchFile = None /\ we.LaunchFileDigest = None
        BY <1>1, <1>2, <1>4, <2>1, NoneAssumption DEF PinsAs
    <2>2. CASE we.ApproverKey # None
        BY <1>1, <1>2, <1>4, <2>2, NoneAssumption DEF PinsAs
    <2>3. CASE we.LaunchFile # None
        BY <1>1, <1>2, <1>4, <2>3, NoneAssumption DEF PinsAs
    <2>4. CASE we.LaunchFileDigest # None
        BY <1>1, <1>2, <1>4, <2>4, NoneAssumption DEF PinsAs, IsEntry
    <2> QED BY <2>1, <2>2, <2>3, <2>4
<1>6. WellBound(img, FamilyOf(g))
        <=> (img.LaunchFileDigest # None => CheckLaunchFileDigest(FamilyOf(g), img.LaunchFileDigest))
    <2> DEFINE Of(k) == img[k]
    <2>1. Of("Anchor") = img.Anchor /\ Of("LaunchFile") = img.LaunchFile
          /\ Of("LaunchFileDigest") = img.LaunchFileDigest
        OBVIOUS
    <2>2. \A x, y \in {"Anchor", "LaunchFile", "LaunchFileDigest"} :
             Of(x) # None /\ Of(y) # None => x = y
        <3> HIDE DEF Of
        <3> QED BY <1>5, <2>1
    <2> QED BY <1>2, <1>5, <2>2 DEF WellBound
<1>7. img.LaunchFileDigest # None =>
         (CheckLaunchFileDigest(FamilyOf(g), img.LaunchFileDigest) <=> FamilyOf(g) = family)
    BY <1>5, LaunchDigests, SeenFamily
<1> QED BY <1>3, <1>5, <1>6, <1>7

(* WrittenIsEnforced, of any document and the set it loads as (Parse). *)
LEMMA LoadedEnforces ==
    ASSUME NEW f, IsDocument(f), NEW rv \in Parse(f), NEW g \in GuestsSeen
    PROVE  Admits(Policy(rv), g)
             <=> /\ \E i \in DOMAIN f.Measurements : EntryHolds(f.Measurements[i], g)
                 /\ (\E i \in DOMAIN f.Measurements : f.Measurements[i].LaunchFileDigest # None)
                       => Family(EvidenceOf(g).Platform) = ParseFamily(f.TEE)
<1> DEFINE es == f.Measurements
           ims == rv.Images
<1>1. /\ IsSet(rv) /\ rv.Family = ParseFamily(f.TEE) /\ rv.Family \in {"sev-snp", "tdx"}
      /\ ims # << >> /\ DOMAIN ims = DOMAIN es
      /\ \A i \in DOMAIN ims : ims[i] \in validateImage(es[i], rv.Family)
    BY LoadedSet
<1>2. \A i \in DOMAIN es : IsEntry(es[i])
    BY DEF IsDocument
<1> DEFINE M(i) == Meets(ims[i], g)
           H(i) == EntryHolds(es[i], g)
           W(i) == WellBound(ims[i], FamilyOf(g))
           L(i) == es[i].LaunchFileDigest # None
           same == FamilyOf(g) = rv.Family
<1>3. ASSUME NEW i \in DOMAIN es
      PROVE  (M(i) <=> H(i)) /\ (W(i) <=> (L(i) => same))
    <2>1. IsEntry(es[i]) /\ ims[i] \in validateImage(es[i], rv.Family)
        BY <1>1, <1>2
    <2> QED BY <1>1, <2>1, EntryMeets
<1>4. ToSet(ims) # {}
    BY <1>1, ListDomain DEF IsSet
<1>5. Admits(Policy(rv), g) <=> (\A i \in DOMAIN es : W(i)) /\ (\E i \in DOMAIN es : M(i))
    <2>1. ToSet(ims) = {ims[i] : i \in DOMAIN es}
        BY <1>1 DEF ToSet
    <2>2. Admits(Policy(rv), g)
             <=> \/ ToSet(ims) = {}
                 \/ /\ \A img \in ToSet(ims) : WellBound(img, FamilyOf(g))
                    /\ \E img \in ToSet(ims) : Meets(img, g)
        BY AdmitsSet
    <2> HIDE DEF ims, es
    <2>3. (\A img \in ToSet(ims) : WellBound(img, FamilyOf(g))) <=> \A i \in DOMAIN es : W(i)
        BY <2>1
    <2>4. (\E img \in ToSet(ims) : Meets(img, g)) <=> \E i \in DOMAIN es : M(i)
        BY <2>1
    <2> QED BY <1>4, <2>2, <2>3, <2>4
<1>6. Family(EvidenceOf(g).Platform) = ParseFamily(f.TEE) <=> same
    BY <1>1 DEF FamilyOf
<1> HIDE DEF M, W
<1>7. Admits(Policy(rv), g)
        <=> (\E i \in DOMAIN es : H(i)) /\ ((\E i \in DOMAIN es : L(i)) => same)
    <2> HIDE DEF H, L, es, same
    <2> QED BY <1>3, <1>5
<1> QED BY <1>6, <1>7

-----------------------------------------------------------------------------
(* Manifests. *)

(* What an identity loaded from a manifest is. *)
IsIdentity(id, family) ==
    /\ id.Family = family
    /\ DOMAIN id.Launch \in SUBSET Nat /\ IsFiniteSet(DOMAIN id.Launch) /\ DOMAIN id.Launch # {}
    /\ \A l \in DOMAIN id.Launch : hexText(id.Launch[l]) # None
    /\ id.RTMRs = [i \in DOMAIN id.RTMRs |-> id.RTMRs[i]]
    /\ DOMAIN id.RTMRs = IF family = "tdx" THEN {1, 2} ELSE {}
    /\ \A i \in DOMAIN id.RTMRs : hexText(id.RTMRs[i]) # None
    /\ rtmrArray(id.RTMRs) # None

(* loadSNPImageManifest returns one identity of the family. *)
LEMMA SNPIdentity ==
    ASSUME NEW m \in Manifests, NEW id \in loadSNPImageManifest(m)
    PROVE  /\ IsIdentity(id, "sev-snp") /\ id.RTMRs = NoRegisters
           /\ loadSNPImageManifest(m) = {id}
<1> DEFINE vs == m.SNPVariants
           smps == {vs[i].SMP : i \in 1..Len(vs)}
           Of(smp) == CHOOSE i \in 1..Len(vs) : vs[i].SMP = smp
           launch == [smp \in smps |-> vs[Of(smp)].SNPLaunchDigest.of]
           the == [Family |-> "sev-snp", Launch |-> launch, RTMRs |-> NoRegisters]
           bad == \/ ~Strict(m) \/ Len(vs) = 0
                  \/ Cardinality(smps) # Len(vs)
                  \/ \E i \in 1..Len(vs) :
                        \/ vs[i].SMP <= 0
                        \/ vs[i].Algorithm # "sha384"
                        \/ decodeRegister(vs[i].SNPLaunchDigest) = {}
<1>1. loadSNPImageManifest(m) = IF bad THEN {} ELSE {the}
    BY Zenon DEF loadSNPImageManifest
<1>2. /\ IsList(vs)
      /\ \A i \in DOMAIN vs : vs[i].SMP \in Int /\ IsText(vs[i].SNPLaunchDigest)
    BY ManifestsAssumption
<1>3. Len(vs) \in Nat /\ DOMAIN vs = 1..Len(vs)
    BY <1>2, ListDomain
<1>4. ~bad
    <2> HIDE DEF bad, the
    <2> QED BY <1>1
<1>5. \A i \in 1..Len(vs) : /\ vs[i].SMP \in Nat /\ IsText(vs[i].SNPLaunchDigest)
                            /\ vs[i].SNPLaunchDigest.form = "hex"
    <2> SUFFICES ASSUME NEW i \in 1..Len(vs)
                 PROVE  /\ vs[i].SMP \in Nat /\ IsText(vs[i].SNPLaunchDigest)
                        /\ vs[i].SNPLaunchDigest.form = "hex"
        OBVIOUS
    <2>1. vs[i].SMP \in Int /\ IsText(vs[i].SNPLaunchDigest)
        BY <1>2, <1>3
    <2>2. ~(vs[i].SMP <= 0) /\ decodeRegister(vs[i].SNPLaunchDigest) # {}
        BY <1>4
    <2> HIDE DEF vs, bad
    <2> QED BY <2>1, <2>2 DEF decodeRegister
<1>6. Len(vs) # 0
    BY <1>4
<1> HIDE DEF vs, bad
<1>7. smps \in SUBSET Nat /\ smps # {}
    BY <1>3, <1>5, <1>6
<1>8. IsFiniteSet(smps)
    <2>1. IsFiniteSet(1..Len(vs))
        BY <1>3, FS_Interval
    <2> DEFINE F == [i \in 1..Len(vs) |-> vs[i].SMP]
    <2>2. F \in [1..Len(vs) -> smps] /\ \A t \in smps : \E i \in 1..Len(vs) : F[i] = t
        OBVIOUS
    <2> HIDE DEF F, smps
    <2>3. F \in Surjection(1..Len(vs), smps)
        BY <2>2 DEF Surjection
    <2> QED BY <2>1, <2>3, FS_Surjection
<1>9. DOMAIN launch = smps /\ \A l \in smps : hexText(launch[l]) # None
    <2> SUFFICES ASSUME NEW l \in smps PROVE hexText(launch[l]) # None
        OBVIOUS
    <2>1. Of(l) \in 1..Len(vs)
        OBVIOUS
    <2> HIDE DEF Of
    <2>2. launch[l] = vs[Of(l)].SNPLaunchDigest.of
        OBVIOUS
    <2> DEFINE t == vs[Of(l)].SNPLaunchDigest
    <2>3. IsText(t) /\ t.form = "hex"
        BY <1>5, <2>1
    <2> HIDE DEF t
    <2>4. hexText(t.of) # None
        BY <2>3, TextOf
    <2> QED BY <2>2, <2>4 DEF t
<1>10. loadSNPImageManifest(m) = {the} /\ id = the
    BY <1>1, <1>4
<1> HIDE DEF launch, smps
<1>11. id.Family = "sev-snp" /\ id.Launch = launch /\ id.RTMRs = NoRegisters
    BY <1>10
<1>12. NoRegisters = [i \in DOMAIN NoRegisters |-> NoRegisters[i]] /\ DOMAIN NoRegisters = {}
    BY DEF NoRegisters
<1>13. rtmrArray(NoRegisters) # None
    BY NoneAssumption
<1> HIDE DEF the
<1> QED BY <1>7, <1>8, <1>9, <1>10, <1>11, <1>12, <1>13 DEF IsIdentity

(* loadTDXImageManifest returns one identity of the family. *)
LEMMA TDXIdentity ==
    ASSUME NEW m \in Manifests, NEW id \in loadTDXImageManifest(m)
    PROVE  IsIdentity(id, "tdx") /\ loadTDXImageManifest(m) = {id}
<1> DEFINE named == IF m.TDX # None THEN m.TDX ELSE m.flat
           launch == [l \in {0} |-> named["mrtd"].of]
           rtmrs == [i \in {1, 2} |-> named[IF i = 1 THEN "rtmr1" ELSE "rtmr2"].of]
           the == [Family |-> "tdx", Launch |-> launch, RTMRs |-> rtmrs]
           bad == \E k \in Registers : k \notin DOMAIN named \/ decodeRegister(named[k]) = {}
<1>1. loadTDXImageManifest(m) = tdxImagePins(named)
    BY DEF loadTDXImageManifest
<1>2. tdxImagePins(named) = IF bad THEN {} ELSE {the}
    BY Zenon DEF tdxImagePins
<1>3. ~bad
    <2> HIDE DEF bad, the, named
    <2> QED BY <1>1, <1>2
<1>4. \A k \in DOMAIN named : IsText(named[k])
    BY ManifestsAssumption
<1> HIDE DEF named
<1>5. \A k \in Registers : hexText(named[k].of) # None
    <2> SUFFICES ASSUME NEW k \in Registers PROVE hexText(named[k].of) # None
        OBVIOUS
    <2> DEFINE t == named[k]
    <2>1. IsText(t) /\ decodeRegister(t) # {}
        BY <1>3, <1>4
    <2> HIDE DEF t
    <2>2. t.form = "hex"
        BY <2>1 DEF decodeRegister
    <2>3. hexText(t.of) # None
        BY <2>1, <2>2, TextOf
    <2> QED BY <2>3 DEF t
<1>6. /\ DOMAIN launch = {0} /\ hexText(launch[0]) # None
      /\ DOMAIN rtmrs = {1, 2} /\ \A i \in {1, 2} : hexText(rtmrs[i]) # None
      /\ rtmrs = [i \in DOMAIN rtmrs |-> rtmrs[i]]
    BY <1>5 DEF Registers
<1>7. loadTDXImageManifest(m) = {the} /\ id = the
    BY <1>1, <1>2, <1>3
<1> HIDE DEF launch, rtmrs
<1>8. id.Family = "tdx" /\ id.Launch = launch /\ id.RTMRs = rtmrs
    BY <1>7
<1>9. rtmrArray(id.RTMRs) # None
    <2>1. id \in LoadImageManifest(m)
        BY <1>7 DEF LoadImageManifest
    <2> QED BY <2>1, ManifestsAssumption
<1>10. {0} \in SUBSET Nat /\ IsFiniteSet({0}) /\ {0} # {}
    <2>1. IsFiniteSet({0})
        BY FS_Singleton, Zenon
    <2> QED BY <2>1
<1> HIDE DEF the
<1> QED BY <1>6, <1>7, <1>8, <1>9, <1>10 DEF IsIdentity

(* The manifest of a family is one identity of it. *)
LEMMA ManifestIdentity ==
    ASSUME NEW m \in Manifests, NEW family, NEW id \in LoadImageManifestFor(m, family)
    PROVE  /\ family \in {"sev-snp", "tdx"} /\ IsIdentity(id, family)
           /\ LoadImageManifestFor(m, family) = {id}
<1>1. CASE family = "sev-snp"
    <2>1. LoadImageManifestFor(m, family) = loadSNPImageManifest(m)
        BY <1>1 DEF LoadImageManifestFor
    <2> QED BY <1>1, <2>1, SNPIdentity
<1>2. CASE family = "tdx"
    <2>1. LoadImageManifestFor(m, family) = loadTDXImageManifest(m)
        BY <1>2 DEF LoadImageManifestFor
    <2> QED BY <1>2, <2>1, TDXIdentity
<1>3. CASE family \notin {"sev-snp", "tdx"}
    <2>1. family # "sev-snp" /\ family # "tdx"
        BY <1>3
    <2>2. LoadImageManifestFor(m, family) = {}
        BY <2>1, Zenon DEF LoadImageManifestFor
    <2> QED BY <2>2
<1> QED BY <1>1, <1>2, <1>3

(* Its pins are the launch variants, each with all the registers. *)
PinsVariants(images, id) ==
    /\ \A i \in DOMAIN images : \E l \in DOMAIN id.Launch : \E name :
          images[i] = PlainImage(name, id.Launch[l], id.RTMRs)
    /\ \A l \in DOMAIN id.Launch : \E i \in DOMAIN images : \E name :
          images[i] = PlainImage(name, id.Launch[l], id.RTMRs)

(* FromImageManifest returns those pins. *)
LEMMA ManifestImages ==
    ASSUME NEW m \in Manifests, NEW family, NEW id \in LoadImageManifestFor(m, family),
           NEW images \in FromImageManifest(m, family)
    PROVE  IsList(images) /\ DOMAIN images # {} /\ PinsVariants(images, id)
<1> DEFINE D == DOMAIN id.Launch
           n == Cardinality(D)
           labels == Sorted(D)
           the == [i \in DOMAIN labels |->
                     PlainImage(imageNames[i], id.Launch[labels[i]], id.RTMRs)]
           Pins(x) == LET ls == Sorted(DOMAIN x.Launch)
                      IN  [i \in DOMAIN ls |->
                             PlainImage(imageNames[i], x.Launch[ls[i]], x.RTMRs)]
<1>1. LoadImageManifestFor(m, family) = {id} /\ IsIdentity(id, family)
    BY ManifestIdentity
<1>2. FromImageManifest(m, family) = {Pins(x) : x \in LoadImageManifestFor(m, family)}
    BY DEF FromImageManifest
<1>3. Pins(id) = the
    OBVIOUS
<1> HIDE DEF Pins
<1>4. images = the
    <2> HIDE DEF the
    <2> QED BY <1>1, <1>2, <1>3
<1>5. /\ n \in Nat /\ labels \in [1..n -> D]
      /\ \A x \in D : \E k \in 1..n : labels[k] = x
    BY <1>1, SortedLists DEF IsIdentity
<1>6. D # {}
    BY <1>1 DEF IsIdentity
<1> HIDE DEF n, labels
<1>7. DOMAIN images = 1..n /\ \A i \in 1..n :
         images[i] = PlainImage(imageNames[i], id.Launch[labels[i]], id.RTMRs)
    BY <1>4, <1>5
<1>8. images = [i \in 1..n |-> images[i]]
    BY <1>4, <1>5
<1> HIDE DEF the, D
<1>9. 1..n # {}
    BY <1>5, <1>6
<1>10. IsList(images)
    <2>1. Len(images) = n
        BY <1>5, <1>8
    <2> QED BY <1>5, <1>8, <2>1 DEF IsList
<1>11. \A i \in 1..n : labels[i] \in D
    BY <1>5
<1>12. ASSUME NEW i \in DOMAIN images
       PROVE  \E l \in D : \E name : images[i] = PlainImage(name, id.Launch[l], id.RTMRs)
    <2>1. i \in 1..n /\ labels[i] \in D
        BY <1>7, <1>11
    <2>2. images[i] = PlainImage(imageNames[i], id.Launch[labels[i]], id.RTMRs)
        BY <1>7, <2>1
    <2> QED BY <2>1, <2>2, Zenon
<1>13. ASSUME NEW l \in D
       PROVE  \E i \in DOMAIN images : \E name :
                 images[i] = PlainImage(name, id.Launch[l], id.RTMRs)
    <2>1. PICK k \in 1..n : labels[k] = l
        BY <1>5
    <2> QED BY <1>7, <2>1, Zenon
<1>14. PinsVariants(images, id)
    BY <1>12, <1>13 DEF D, PinsVariants
<1> QED BY <1>7, <1>9, <1>10, <1>14

(* Verification against an identity, in the terms of a guest. *)
IsTheImage(id, g) ==
    /\ FamilyOf(g) = id.Family
    /\ \E l \in DOMAIN id.Launch : id.Launch[l] = g.launch
    /\ HoldsRegisters(id.RTMRs, g)

(* ImageIdentity.Verify says that the guest is the image. *)
LEMMA VerifiesAs ==
    ASSUME NEW id, NEW g
    PROVE  VerifyIdentity(id, ResultOf(g)) <=> IsTheImage(id, g)
<1> DEFINE r == ResultOf(g)
<1>1. /\ r.SignatureValid /\ Family(r.Platform) = FamilyOf(g)
      /\ r.Claims.LaunchDigest = g.launch /\ r.Claims.RTMR = RegistersOf(g)
    BY ResultFields DEF FamilyOf, RegistersOf
<1> HIDE DEF r
<1>2. VerifyIdentity(id, r) <=> IsTheImage(id, g)
    BY <1>1 DEF VerifyIdentity, IsTheImage, HoldsRegisters
<1> QED BY <1>2 DEF r

(* The pins of a manifest admit the guests that are its image. *)
LEMMA ManifestAdmits ==
    ASSUME NEW m \in Manifests, NEW family, NEW id \in LoadImageManifestFor(m, family),
           NEW images \in FromImageManifest(m, family),
           NEW rv, rv.Images = images, NEW g \in GuestsSeen, FamilyOf(g) = family
    PROVE  IsTheImage(id, g) <=> Admits(Policy(rv), g)
<1>1. /\ IsList(images) /\ DOMAIN images # {}
      /\ \A i \in DOMAIN images : \E l \in DOMAIN id.Launch : \E name :
            images[i] = PlainImage(name, id.Launch[l], id.RTMRs)
      /\ \A l \in DOMAIN id.Launch : \E i \in DOMAIN images : \E name :
            images[i] = PlainImage(name, id.Launch[l], id.RTMRs)
    <2>1. IsList(images) /\ DOMAIN images # {} /\ PinsVariants(images, id)
        BY ManifestImages
    <2> QED BY <2>1 DEF PinsVariants
<1>2. id.Family = family
    BY ManifestIdentity DEF IsIdentity
<1>3. ASSUME NEW i \in DOMAIN images, NEW l \in DOMAIN id.Launch, NEW name,
             images[i] = PlainImage(name, id.Launch[l], id.RTMRs)
      PROVE  /\ WellBound(images[i], FamilyOf(g))
             /\ Meets(images[i], g) <=> id.Launch[l] = g.launch /\ HoldsRegisters(id.RTMRs, g)
    <2> DEFINE img == images[i]
               d == id.Launch[l]
               regs == id.RTMRs
    <2>1. img = PlainImage(name, d, regs)
        BY <1>3
    <2> HIDE DEF img, d, regs
    <2>2. /\ img.Anchor = None /\ img.LaunchFile = None /\ img.LaunchFileDigest = None
          /\ img.Digest = d /\ img.Registers = regs
        BY <2>1 DEF PlainImage
    <2>3. /\ WellBound(img, FamilyOf(g))
          /\ Meets(img, g) <=> img.Digest = g.launch /\ HoldsRegisters(img.Registers, g)
        BY <2>2, PlainMeets
    <2> QED BY <2>2, <2>3 DEF img, d, regs
<1>4. ToSet(images) = {images[i] : i \in DOMAIN images} /\ ToSet(images) # {}
    BY <1>1, ListDomain DEF ToSet
<1>5. \A img \in ToSet(images) : WellBound(img, FamilyOf(g))
    BY <1>1, <1>3, <1>4
<1>6. (\E img \in ToSet(images) : Meets(img, g)) <=> IsTheImage(id, g)
    <2>1. ASSUME NEW i \in DOMAIN images, Meets(images[i], g) PROVE IsTheImage(id, g)
        <3>1. PICK k \in DOMAIN id.Launch :
                 \E nm : images[i] = PlainImage(nm, id.Launch[k], id.RTMRs)
            BY <1>1
        <3> QED BY <1>2, <1>3, <2>1, <3>1 DEF IsTheImage
    <2>2. ASSUME IsTheImage(id, g) PROVE \E i \in DOMAIN images : Meets(images[i], g)
        <3>1. PICK l \in DOMAIN id.Launch : id.Launch[l] = g.launch
            BY <2>2 DEF IsTheImage
        <3>2. PICK i \in DOMAIN images :
                 \E nm : images[i] = PlainImage(nm, id.Launch[l], id.RTMRs)
            BY <1>1
        <3> QED BY <1>3, <2>2, <3>1, <3>2 DEF IsTheImage
    <2> QED BY <1>4, <2>1, <2>2
<1> QED BY <1>4, <1>5, <1>6, AdmitsSet

(* The identity a guest of the image shows is the image's own. *)
LEMMA ShownIdentity ==
    ASSUME NEW m \in Manifests, NEW family, NEW id \in LoadImageManifestFor(m, family),
           NEW g \in GuestsSeen, IsTheImage(id, g), NEW seen \in IdentityFromResult(ResultOf(g)),
           NEW h \in GuestsSeen
    PROVE  IsTheImage(seen, g) /\ (IsTheImage(seen, h) => IsTheImage(id, h))
<1> DEFINE r == ResultOf(g)
<1>1. /\ r.SignatureValid /\ Family(r.Platform) = FamilyOf(g)
      /\ r.Claims.LaunchDigest = g.launch /\ r.Claims.RTMR = RegistersOf(g)
    BY ResultFields DEF FamilyOf, RegistersOf
<1>2. /\ IsIdentity(id, family) /\ id.Family = family /\ FamilyOf(g) = family
      /\ family \in {"sev-snp", "tdx"}
    BY ManifestIdentity DEF IsIdentity, IsTheImage
<1> HIDE DEF r
<1> DEFINE launch == [l \in {0} |-> g.launch]
<1>3. /\ seen.Family = family /\ seen.Launch = launch
      /\ DOMAIN seen.RTMRs = DOMAIN id.RTMRs
      /\ \A i \in DOMAIN id.RTMRs : /\ i \in DOMAIN RegistersOf(g)
                                    /\ seen.RTMRs[i] = RegistersOf(g)[i]
    <2>1. seen \in IdentityFromResult(r)
        BY DEF r
    <2>2. r.Claims.LaunchDigest # ""
        BY <1>1, SeenAssumption
    <2>3. CASE family = "sev-snp"
        <3>1. IdentityFromResult(r) =
                {[Family |-> "sev-snp", Launch |-> launch, RTMRs |-> NoRegisters]}
            BY <1>1, <1>2, <2>2, <2>3 DEF IdentityFromResult
        <3> HIDE DEF launch
        <3>2. seen.Family = "sev-snp" /\ seen.Launch = launch /\ seen.RTMRs = NoRegisters
            BY <2>1, <3>1
        <3>3. DOMAIN id.RTMRs = {} /\ DOMAIN NoRegisters = {}
            BY <1>2, <2>3 DEF IsIdentity, NoRegisters
        <3> QED BY <2>3, <3>2, <3>3
    <2>4. CASE family = "tdx"
        <3> DEFINE regs == [i \in {1, 2} |-> r.Claims.RTMR[i]]
        <3>1. IdentityFromResult(r) =
                {[Family |-> "tdx", Launch |-> launch, RTMRs |-> regs] :
                    x \in IF {1, 2} \subseteq DOMAIN r.Claims.RTMR THEN {0} ELSE {}}
            BY <1>1, <1>2, <2>2, <2>4 DEF IdentityFromResult
        <3>2. DOMAIN regs = {1, 2} /\ \A i \in {1, 2} : regs[i] = RegistersOf(g)[i]
            BY <1>1
        <3> HIDE DEF launch, regs
        <3>3. /\ seen = [Family |-> "tdx", Launch |-> launch, RTMRs |-> regs]
              /\ {1, 2} \subseteq DOMAIN RegistersOf(g)
            BY <1>1, <2>1, <3>1
        <3>4. seen.Family = "tdx" /\ seen.Launch = launch /\ seen.RTMRs = regs
            BY <3>3
        <3>5. DOMAIN id.RTMRs = {1, 2}
            BY <1>2, <2>4 DEF IsIdentity
        <3> QED BY <2>4, <3>2, <3>3, <3>4, <3>5
    <2> QED BY <1>2, <2>3, <2>4
<1>4. DOMAIN seen.Launch = {0} /\ seen.Launch[0] = g.launch
    BY <1>3
<1> HIDE DEF launch
<1>5. IsTheImage(seen, g)
    BY <1>2, <1>3, <1>4 DEF IsTheImage, HoldsRegisters
<1>6. ASSUME IsTheImage(seen, h) PROVE IsTheImage(id, h)
    <2>1. FamilyOf(h) = id.Family /\ h.launch = g.launch
        BY <1>2, <1>3, <1>4, <1>6 DEF IsTheImage
    <2>2. HoldsRegisters(id.RTMRs, h)
        BY <1>3, <1>6 DEF IsTheImage, HoldsRegisters
    <2> QED BY <2>1, <2>2 DEF IsTheImage
<1> QED BY <1>5, <1>6

-----------------------------------------------------------------------------
(* What the operator's sources give is a set as Go types it. *)
LEMMA PlainIsImage ==
    ASSUME NEW name, NEW d, NEW r, hexText(d) # None, r = [i \in DOMAIN r |-> r[i]],
           DOMAIN r \subseteq Int, \A i \in DOMAIN r : hexText(r[i]) # None,
           rtmrArray(r) # None
    PROVE  IsImage(PlainImage(name, d, r))
<1> DEFINE img == PlainImage(name, d, r)
<1>1. /\ img = [Name |-> name, Digest |-> d, Registers |-> r, Anchor |-> None,
                LaunchFile |-> None, LaunchFileDigest |-> None, AcceptExtension |-> None]
    BY DEF PlainImage
<1> HIDE DEF img
<1>2. /\ img.Name = name /\ img.Digest = d /\ img.Registers = r /\ img.Anchor = None
      /\ img.LaunchFile = None /\ img.LaunchFileDigest = None /\ img.AcceptExtension = None
    BY <1>1
<1>3. img = [Name |-> img.Name, Digest |-> img.Digest, Registers |-> img.Registers,
             Anchor |-> img.Anchor, LaunchFile |-> img.LaunchFile,
             LaunchFileDigest |-> img.LaunchFileDigest,
             AcceptExtension |-> img.AcceptExtension]
    BY <1>1, <1>2
<1>4. None \notin {hexText(r[i]) : i \in DOMAIN r}
    OBVIOUS
<1>5. /\ img.Registers = [i \in DOMAIN img.Registers |-> img.Registers[i]]
      /\ DOMAIN img.Registers \subseteq Int
      /\ None \notin {hexText(img.Registers[i]) : i \in DOMAIN img.Registers}
    BY <1>2, <1>4, Zenon
<1>6. IsImage(img)
    BY <1>2, <1>3, <1>5 DEF IsImage
<1> QED BY <1>6 DEF img

(* The pins of a manifest are such a set. *)
LEMMA ManifestSet ==
    ASSUME NEW m \in Manifests, NEW family, NEW images \in FromImageManifest(m, family),
           NEW rv, rv = [Family |-> family, Images |-> images]
    PROVE  IsSet(rv)
<1>1. PICK id \in LoadImageManifestFor(m, family) : TRUE
    BY DEF FromImageManifest
<1>2. family \in {"sev-snp", "tdx"} /\ IsIdentity(id, family)
    BY ManifestIdentity
<1>3. IsList(images) /\ PinsVariants(images, id)
    BY ManifestImages
<1>4. ASSUME NEW i \in DOMAIN images PROVE IsImage(images[i])
    <2>1. PICK k \in DOMAIN id.Launch : \E nm : images[i] = PlainImage(nm, id.Launch[k], id.RTMRs)
        BY <1>3 DEF PinsVariants
    <2>2. PICK nm : images[i] = PlainImage(nm, id.Launch[k], id.RTMRs)
        BY <2>1
    <2> DEFINE d == id.Launch[k]
               r == id.RTMRs
    <2>3. /\ hexText(d) # None /\ r = [j \in DOMAIN r |-> r[j]]
          /\ \A j \in DOMAIN r : hexText(r[j]) # None
          /\ rtmrArray(r) # None
        BY <1>2 DEF IsIdentity
    <2>4. DOMAIN r \subseteq Int
        BY <1>2 DEF IsIdentity
    <2> HIDE DEF d, r
    <2>5. IsImage(PlainImage(nm, d, r))
        BY <2>3, <2>4, PlainIsImage
    <2> QED BY <2>2, <2>5 DEF d, r
<1>5. rv.Family = family /\ rv.Images = images
    OBVIOUS
<1> QED BY <1>2, <1>3, <1>4, <1>5 DEF IsSet

(* The positions of a list that a loop keeps. *)
LEMMA KeptOf ==
    ASSUME NEW raw, IsList(raw), NEW P \in SUBSET DOMAIN raw
    PROVE  /\ Len(Filtered(raw, P)) \in Nat
           /\ DOMAIN Filtered(raw, P) = 1..Len(Filtered(raw, P))
           /\ \A i \in DOMAIN Filtered(raw, P) : \E j \in P : Filtered(raw, P)[i] = raw[j]
<1>1. Len(raw) \in Nat /\ DOMAIN raw = 1..Len(raw)
    BY ListDomain
<1>2. P \in SUBSET Nat /\ IsFiniteSet(P)
    <2>1. IsFiniteSet(1..Len(raw))
        BY <1>1, FS_Interval
    <2> QED BY <1>1, <2>1, FS_Subset
<1> DEFINE n == Cardinality(P)
           k == Filtered(raw, P)
<1>3. /\ n \in Nat /\ DOMAIN k = 1..n
      /\ \A i \in DOMAIN k : \E j \in P : k[i] = raw[j]
    BY <1>2, FilteredElements
<1>4. k = [i \in 1..n |-> raw[Sorted(P)[i]]]
    BY DEF Filtered
<1> HIDE DEF k, n
<1>5. Len(k) = n
    BY <1>3, <1>4
<1> QED BY <1>3, <1>5 DEF k

(* The digests that are parsed from the flags can be written. *)
LEMMA FlagDigests ==
    ASSUME NEW fl \in Flags, NEW digests \in ParseHexMeasurementsList(fl.digests)
    PROVE  IsList(digests) /\ \A i \in DOMAIN digests : hexText(digests[i]) # None
<1> DEFINE raw == fl.digests
           P == {i \in DOMAIN raw : raw[i].form # "empty"}
           kept == Filtered(raw, P)
<1>1. IsList(raw) /\ \A i \in DOMAIN raw : IsText(raw[i])
    BY FlagsAssumption
<1>2. /\ Len(kept) \in Nat /\ DOMAIN kept = 1..Len(kept)
      /\ \A i \in DOMAIN kept : \E j \in DOMAIN raw : kept[i] = raw[j]
    <2>1. P \in SUBSET DOMAIN raw
        OBVIOUS
    <2> HIDE DEF P, raw
    <2> QED BY <1>1, <2>1, KeptOf
<1>3. ParseHexMeasurementsList(raw) =
        IF \E i \in DOMAIN kept : decodeRegister(kept[i]) = {} THEN {}
        ELSE {[i \in DOMAIN kept |-> kept[i].of]}
    BY DEF ParseHexMeasurementsList
<1>4. digests \in ParseHexMeasurementsList(raw)
    OBVIOUS
<1> HIDE DEF raw, kept
<1>5. /\ \A i \in DOMAIN kept : decodeRegister(kept[i]) # {}
      /\ digests = [i \in DOMAIN kept |-> kept[i].of]
    BY <1>3, <1>4
<1>6. \A i \in DOMAIN kept : hexText(kept[i].of) # None
    <2> SUFFICES ASSUME NEW i \in DOMAIN kept PROVE hexText(kept[i].of) # None
        OBVIOUS
    <2> DEFINE t == kept[i]
    <2>1. IsText(t) /\ decodeRegister(t) # {}
        BY <1>1, <1>2, <1>5
    <2> HIDE DEF t
    <2>2. hexText(t.of) # None
        BY <2>1, TextOf DEF decodeRegister
    <2> QED BY <2>2 DEF t
<1>7. Len(digests) = Len(kept)
    BY <1>2, <1>5
<1>8. IsList(digests)
    BY <1>2, <1>5, <1>7 DEF IsList
<1> QED BY <1>5, <1>6, <1>8

(* So can the register pins. *)
LEMMA FlagRegisters ==
    ASSUME NEW fl \in Flags, NEW rtmrs \in ParseRegisterPins(fl.rtmrs)
    PROVE  /\ rtmrs = [i \in DOMAIN rtmrs |-> rtmrs[i]] /\ DOMAIN rtmrs \subseteq Int
           /\ \A i \in DOMAIN rtmrs : hexText(rtmrs[i]) # None
           /\ rtmrArray(rtmrs) # None
<1> DEFINE raw == fl.rtmrs
           P == {i \in DOMAIN raw : raw[i].value.form # "empty"}
           kept == Filtered(raw, P)
           At(idx) == {i \in DOMAIN kept : kept[i].idx = idx}
           idxs == {kept[i].idx : i \in DOMAIN kept}
           bad == \E i \in DOMAIN kept : \/ kept[i].idx \notin {1, 2, 3}
                                         \/ Cardinality(At(kept[i].idx)) > 1
                                         \/ decodeRegister(kept[i].value) = {}
           the == [idx \in idxs |-> kept[CHOOSE i \in At(idx) : TRUE].value.of]
<1>1. IsList(raw) /\ \A i \in DOMAIN raw : IsText(raw[i].value)
    BY FlagsAssumption
<1>2. \A i \in DOMAIN kept : \E j \in DOMAIN raw : kept[i] = raw[j]
    <2>1. P \in SUBSET DOMAIN raw
        OBVIOUS
    <2> HIDE DEF P, raw
    <2> QED BY <1>1, <2>1, KeptOf
<1>3. ParseRegisterPins(raw) = IF bad THEN {} ELSE {the}
    BY Zenon DEF ParseRegisterPins
<1>4. rtmrArray(rtmrs) # None
    BY FlagsAssumption
<1>5. rtmrs \in ParseRegisterPins(raw)
    OBVIOUS
<1> HIDE DEF raw, kept
<1>6. ~bad /\ rtmrs = the
    <2> HIDE DEF bad, the
    <2> QED BY <1>3, <1>5
<1>7. \A i \in DOMAIN kept : kept[i].idx \in {1, 2, 3} /\ hexText(kept[i].value.of) # None
    <2> SUFFICES ASSUME NEW i \in DOMAIN kept
                 PROVE  kept[i].idx \in {1, 2, 3} /\ hexText(kept[i].value.of) # None
        OBVIOUS
    <2> DEFINE t == kept[i].value
    <2>1. IsText(t) /\ decodeRegister(t) # {} /\ kept[i].idx \in {1, 2, 3}
        BY <1>1, <1>2, <1>6
    <2> HIDE DEF t
    <2>2. hexText(t.of) # None
        BY <2>1, TextOf DEF decodeRegister
    <2> QED BY <2>1, <2>2 DEF t
<1>8. idxs \subseteq Int
    BY <1>7
<1>9. ASSUME NEW idx \in idxs PROVE hexText(the[idx]) # None
    <2> DEFINE j == CHOOSE i \in At(idx) : TRUE
    <2>1. j \in DOMAIN kept
        OBVIOUS
    <2>2. the[idx] = kept[j].value.of
        OBVIOUS
    <2> HIDE DEF j, the
    <2> QED BY <1>7, <2>1, <2>2
<1>10. DOMAIN the = idxs /\ the = [i \in DOMAIN the |-> the[i]]
    OBVIOUS
<1> HIDE DEF the, idxs
<1> QED BY <1>4, <1>6, <1>8, <1>9, <1>10

(* The images made of the flags are such a set. *)
LEMMA FlagsSet ==
    ASSUME NEW fl \in Flags, NEW family \in {"sev-snp", "tdx"},
           NEW digests \in ParseHexMeasurementsList(fl.digests),
           NEW rtmrs \in ParseRegisterPins(fl.rtmrs),
           NEW rv, rv = [FromFlags(digests, rtmrs) EXCEPT !.Family = family]
    PROVE  IsSet(rv)
<1> DEFINE P == {i \in DOMAIN digests :
                    \A j \in DOMAIN digests : digests[j] = digests[i] => i <= j}
           once == Filtered(digests, P)
           images == [i \in DOMAIN once |-> PlainImage(imageNames[i], once[i], rtmrs)]
<1>1. IsList(digests) /\ \A i \in DOMAIN digests : hexText(digests[i]) # None
    BY FlagDigests
<1>2. Once(digests) = once
    BY DEF Once
<1>3. rv.Family = family /\ rv.Images = images /\ rv = [Family |-> rv.Family, Images |-> rv.Images]
    <2>1. FromFlags(digests, rtmrs) = [Family |-> "", Images |-> images]
        BY <1>2 DEF FromFlags
    <2> HIDE DEF images
    <2>2. ASSUME NEW x, NEW y, NEW z
          PROVE  [[Family |-> x, Images |-> y] EXCEPT !.Family = z] = [Family |-> z, Images |-> y]
        OBVIOUS
    <2>3. rv = [Family |-> family, Images |-> images]
        <3> DEFINE o == FromFlags(digests, rtmrs)
                   e == ""
        <3>1. o = [Family |-> e, Images |-> images] /\ rv = [o EXCEPT !.Family = family]
            BY <2>1
        <3> HIDE DEF o, e
        <3>2. [[Family |-> e, Images |-> images] EXCEPT !.Family = family]
                = [Family |-> family, Images |-> images]
            BY <2>2
        <3> QED BY <3>1, <3>2
    <2>4. rv.Family = family /\ rv.Images = images
        BY <2>3
    <2> QED BY <2>3, <2>4
<1>4. /\ Len(once) \in Nat /\ DOMAIN once = 1..Len(once)
      /\ \A i \in DOMAIN once : \E j \in DOMAIN digests : once[i] = digests[j]
    <2>1. P \in SUBSET DOMAIN digests
        OBVIOUS
    <2> HIDE DEF P
    <2> QED BY <1>1, <2>1, KeptOf
<1> HIDE DEF once
<1>5. /\ rtmrs = [i \in DOMAIN rtmrs |-> rtmrs[i]] /\ DOMAIN rtmrs \subseteq Int
      /\ \A i \in DOMAIN rtmrs : hexText(rtmrs[i]) # None
      /\ rtmrArray(rtmrs) # None
    BY FlagRegisters
<1>6. ASSUME NEW i \in DOMAIN once PROVE IsImage(PlainImage(imageNames[i], once[i], rtmrs))
    <2> DEFINE d == once[i]
               name == imageNames[i]
    <2>1. hexText(d) # None
        BY <1>1, <1>4
    <2> HIDE DEF d, name
    <2>2. IsImage(PlainImage(name, d, rtmrs))
        BY <1>5, <2>1, PlainIsImage
    <2> QED BY <2>2 DEF d, name
<1>7. DOMAIN images = DOMAIN once /\ \A i \in DOMAIN images : IsImage(images[i])
    BY <1>6
<1>8. IsList(images)
    <2>1. images = [i \in 1..Len(once) |-> images[i]]
        BY <1>4
    <2> HIDE DEF images
    <2>2. Len(images) = Len(once)
        BY <1>4, <2>1
    <2> QED BY <1>4, <2>1, <2>2 DEF IsList
<1> HIDE DEF images
<1> QED BY <1>3, <1>7, <1>8 DEF IsSet

(* What Format puts into an entry is text. *)
LEMMA WrittenText ==
    ASSUME NEW v, hexText(v) # None
    PROVE  IsText(hexText(v)) /\ hexText(v).of = v
<1> DEFINE t == hexText(v)
<1>1. t = [form |-> IF v = ShortBytes THEN "badhex" ELSE "hex", of |-> v]
    BY DEF hexText
<1> HIDE DEF t
<1>2. t.of = v /\ t.form = (IF v = ShortBytes THEN "badhex" ELSE "hex")
    BY <1>1
<1>3. t = [form |-> t.form, of |-> t.of]
    BY <1>1, <1>2
<1>4. t # None
    BY DEF t
<1>5. IsText(t)
    BY <1>2, <1>3, <1>4 DEF IsText
<1> QED BY <1>2, <1>5 DEF t

(* What Format puts into a launch field is a string. *)
LEMMA WrittenRaw ==
    ASSUME NEW text, text # None
    PROVE  /\ IsRaw(Raw(text)) /\ Raw(text).kind = "string" /\ Raw(text).text = text
<1> DEFINE raw == Raw(text)
<1>1. raw = [kind |-> "string", text |-> text]
    BY DEF Raw
<1> HIDE DEF raw
<1>2. raw.kind = "string" /\ raw.text = text
    BY <1>1
<1>3. IsRaw(raw)
    BY <1>1, <1>2 DEF IsRaw
<1> QED BY <1>2, <1>3 DEF raw

(* What Format puts into the RTMR array is a list of text. *)
LEMMA WrittenRegisters ==
    ASSUME NEW img, IsImage(img), DOMAIN img.Registers # {}, Formats(img, "tdx")
    PROVE  /\ IsList(rtmrArray(img.Registers))
           /\ \A i \in DOMAIN rtmrArray(img.Registers) :
                 rtmrArray(img.Registers)[i] # None => IsText(rtmrArray(img.Registers)[i])
           /\ \A regs \in decodeRTMRs(rtmrArray(img.Registers)) : rtmrArray(regs) # None
<1> DEFINE regs == img.Registers
           a == rtmrArray(regs)
<1>1. a = [i \in 1..4 |-> IF i - 1 \in DOMAIN regs THEN hexText(regs[i - 1]) ELSE None]
    BY DEF rtmrArray, maxRTMRs
<1>2. \A i \in DOMAIN regs : hexText(regs[i]) # None
    BY DEF IsImage
<1>3. formatImage(img, "tdx").RTMR = a
    BY DEF formatImage
<1>4. decodeRTMRs(a) = {regs}
    BY <1>3, RegistersReadBack
<1>5. rtmrArray(regs) # None
    BY DEF IsImage
<1> HIDE DEF regs
<1>6. ASSUME NEW i \in 1..4, a[i] # None PROVE IsText(a[i])
    <2>1. i - 1 \in DOMAIN regs /\ a[i] = hexText(regs[i - 1])
        BY <1>1, <1>6
    <2> DEFINE v == regs[i - 1]
    <2>2. hexText(v) # None
        BY <1>2, <2>1
    <2> HIDE DEF v
    <2>3. IsText(hexText(v))
        BY <2>2, WrittenText
    <2> QED BY <2>1, <2>3 DEF v
<1>7. DOMAIN a = 1..4 /\ a = [i \in 1..4 |-> a[i]]
    BY <1>1
<1> HIDE DEF a
<1>8. Len(a) = 4
    BY <1>7
<1>9. IsList(a)
    BY <1>7, <1>8 DEF IsList
<1>10. \A i \in DOMAIN a : a[i] # None => IsText(a[i])
    BY <1>6, <1>7
<1>11. \A x \in decodeRTMRs(a) : rtmrArray(x) # None
    BY <1>4, <1>5 DEF a
<1> QED BY <1>9, <1>10, <1>11 DEF a, regs

(* What Format writes of an image is an entry. *)
LEMMA WrittenEntry ==
    ASSUME NEW img, IsImage(img), NEW family, Formats(img, family),
           NEW name, name \notin NotUTF8,
           NEW we, we = [formatImage(img, family) EXCEPT !.Name = name]
    PROVE  IsEntry(we)
<1> DEFINE e == formatImage(img, family)
           snp == IF family = "sev-snp" THEN hexText(img.Digest) ELSE None
           tdx == IF family = "tdx" THEN hexText(img.Digest) ELSE None
           rtmr == IF DOMAIN img.Registers = {} THEN None ELSE rtmrArray(img.Registers)
           key == Raw(img.Anchor)
           lf == Raw(img.LaunchFile)
           dig == IF img.LaunchFileDigest = None THEN None ELSE Raw(hexText(img.LaunchFileDigest))
<1>1. e = [Name |-> img.Name, Measurement |-> snp, MRTD |-> tdx, RTMR |-> rtmr,
           ApproverKey |-> key, LaunchFile |-> lf, LaunchFileDigest |-> dig]
    BY DEF formatImage
<1>2. snp # None => IsText(snp)
    BY WrittenText DEF IsImage
<1>3. tdx # None => IsText(tdx)
    BY WrittenText DEF IsImage
<1>4. rtmr # None =>
         /\ IsList(rtmr) /\ \A i \in DOMAIN rtmr : rtmr[i] # None => IsText(rtmr[i])
         /\ \A regs \in decodeRTMRs(rtmr) : rtmrArray(regs) # None
    <2>1. DOMAIN img.Registers # {} => family = "tdx"
        BY FormatsAs
    <2> QED BY <2>1, WrittenRegisters
<1>5. img.Anchor \notin NotUTF8 /\ img.LaunchFile \notin NotUTF8
    BY FormatsAs
<1>6. Raw(None) = None
    BY DEF Raw
<1>7. key # None => IsRaw(key) /\ key.text \notin NotUTF8
    BY <1>5, <1>6, WrittenRaw
<1>8. lf # None => IsRaw(lf) /\ lf.text \notin NotUTF8
    BY <1>5, <1>6, WrittenRaw
<1>9. dig # None =>
        IsRaw(dig) /\ (dig.kind = "string" => IsText(dig.text) /\ dig.text.of # None)
    <2> DEFINE d == img.LaunchFileDigest
    <2>1. CASE d = None
        BY <2>1
    <2>2. CASE d # None
        <3>1. hexText(d) # None
            BY <2>2 DEF IsImage
        <3>2. dig = Raw(hexText(d))
            BY <2>2
        <3> HIDE DEF d, dig
        <3>3. IsText(hexText(d)) /\ hexText(d).of = d
            BY <3>1, WrittenText
        <3>4. IsRaw(Raw(hexText(d))) /\ Raw(hexText(d)).text = hexText(d)
            BY <3>1, WrittenRaw
        <3> QED BY <2>2, <3>2, <3>3, <3>4
    <2> QED BY <2>1, <2>2
<1> HIDE DEF snp, tdx, rtmr, key, lf, dig
<1>10. we = [Name |-> name, Measurement |-> snp, MRTD |-> tdx, RTMR |-> rtmr,
             ApproverKey |-> key, LaunchFile |-> lf, LaunchFileDigest |-> dig]
    <2> DEFINE x == [Name |-> img.Name, Measurement |-> snp, MRTD |-> tdx, RTMR |-> rtmr,
                     ApproverKey |-> key, LaunchFile |-> lf, LaunchFileDigest |-> dig]
    <2>1. [x EXCEPT !.Name = name] =
            [Name |-> name, Measurement |-> snp, MRTD |-> tdx, RTMR |-> rtmr,
             ApproverKey |-> key, LaunchFile |-> lf, LaunchFileDigest |-> dig]
        OBVIOUS
    <2> HIDE DEF x, e
    <2>2. we = [e EXCEPT !.Name = name] /\ e = x
        BY <1>1 DEF x, e
    <2> QED BY <2>1, <2>2
<1>11. /\ we.Name = name /\ we.Measurement = snp /\ we.MRTD = tdx /\ we.RTMR = rtmr
       /\ we.ApproverKey = key /\ we.LaunchFile = lf /\ we.LaunchFileDigest = dig
    BY <1>10
<1>12. we = [Name |-> we.Name, Measurement |-> we.Measurement, MRTD |-> we.MRTD,
             RTMR |-> we.RTMR, ApproverKey |-> we.ApproverKey,
             LaunchFile |-> we.LaunchFile, LaunchFileDigest |-> we.LaunchFileDigest]
    BY <1>10, <1>11
<1>13. \A raw \in {we.ApproverKey, we.LaunchFile} \ {None} :
          IsRaw(raw) /\ raw.text \notin NotUTF8
    BY <1>7, <1>8, <1>11
<1>14. we.RTMR # None =>
          /\ IsList(we.RTMR)
          /\ \A i \in DOMAIN we.RTMR : we.RTMR[i] # None => IsText(we.RTMR[i])
          /\ \A regs \in decodeRTMRs(we.RTMR) : rtmrArray(regs) # None
    BY <1>4, <1>11, Zenon
<1> QED BY <1>2, <1>3, <1>9, <1>11, <1>12, <1>13, <1>14 DEF IsEntry

(* What Format writes is a document. *)
LEMMA FormatWrites ==
    ASSUME NEW rv, IsSet(rv), NEW f \in Format(rv)
    PROVE  IsDocument(f)
<1> DEFINE w == wire(rv, schemaVersionFor(rv))
           ms == w.Measurements
           Named(i) == [ms[i] EXCEPT !.Name = IF @ \in NotUTF8 THEN "replaced" ELSE @]
           es == [i \in DOMAIN ms |-> Named(i)]
<1>1. f = marshal(w) /\ \A img \in ToSet(rv.Images) : Formats(img, rv.Family)
    BY DEF Format
<1>2. marshal(w) = [w EXCEPT !.Measurements = es]
    BY DEF marshal
<1>3. /\ DOMAIN ms = 1..Len(rv.Images) /\ DOMAIN rv.Images = 1..Len(rv.Images)
      /\ Len(rv.Images) \in Nat
      /\ \A i \in DOMAIN rv.Images : ms[i] = formatImage(rv.Images[i], rv.Family)
    BY WireFields
<1>4. ASSUME NEW i \in DOMAIN ms PROVE IsEntry(Named(i))
    <2> DEFINE img == rv.Images[i]
               name == IF ms[i].Name \in NotUTF8 THEN "replaced" ELSE ms[i].Name
    <2>1. IsImage(img) /\ Formats(img, rv.Family) /\ ms[i] = formatImage(img, rv.Family)
        BY <1>1, <1>3 DEF IsSet, ToSet
    <2>2. name \notin NotUTF8
        BY DocumentsAssumption
    <2>3. Named(i) = [ms[i] EXCEPT !.Name = name]
        <3> DEFINE m == ms[i]
        <3>1. m = formatImage(img, rv.Family)
            BY <2>1
        <3> HIDE DEF m
        <3>2. [m EXCEPT !.Name = IF @ \in NotUTF8 THEN "replaced" ELSE @]
                = [m EXCEPT !.Name = IF m.Name \in NotUTF8 THEN "replaced" ELSE m.Name]
            BY <3>1 DEF formatImage
        <3> QED BY <3>2 DEF m
    <2> HIDE DEF img, name, Named, ms
    <2> QED BY <2>1, <2>2, <2>3, WrittenEntry
<1>5. DOMAIN es = 1..Len(rv.Images) /\ es = [i \in 1..Len(rv.Images) |-> es[i]]
      /\ \A i \in DOMAIN es : IsEntry(es[i])
    <2> HIDE DEF ms, Named
    <2> QED BY <1>3, <1>4
<1> HIDE DEF es
<1>6. IsList(es)
    <2>1. Len(es) = Len(rv.Images)
        BY <1>3, <1>5
    <2> QED BY <1>3, <1>5, <2>1 DEF IsList
<1> DEFINE tee == [tag |-> rv.Family, canonical |-> TRUE]
           body == [i \in DOMAIN rv.Images |-> formatImage(rv.Images[i], rv.Family)]
           v == schemaVersionFor(rv)
<1>7. w = [syntax |-> "clean", SchemaVersion |-> v, TEE |-> tee, Measurements |-> body]
    BY DEF wire
<1> HIDE DEF tee, body, v
<1>8. [[syntax |-> "clean", SchemaVersion |-> v, TEE |-> tee, Measurements |-> body]
         EXCEPT !.Measurements = es]
        = [syntax |-> "clean", SchemaVersion |-> v, TEE |-> tee, Measurements |-> es]
    OBVIOUS
<1> HIDE DEF w
<1>9. f = [syntax |-> "clean", SchemaVersion |-> v, TEE |-> tee, Measurements |-> es]
    BY <1>1, <1>2, <1>7, <1>8
<1>10. f.syntax = "clean" /\ f.SchemaVersion = v /\ f.TEE = tee /\ f.Measurements = es
    BY <1>9
<1> QED BY <1>5, <1>6, <1>9, <1>10 DEF IsDocument

-----------------------------------------------------------------------------
(* The inductive invariant: where the state came from. *)

(* What the operator wants is a set as Go types it. *)
WantedKnown == wanted # None => IsSet(wanted)

(* What is on disk is a document. *)
FileKnown == file # None => IsDocument(file)

(* A component enforces what it loaded, or a family and no pins. *)
EnforcedKnown ==
    /\ loadedFrom # None => IsDocument(loadedFrom) /\ enforced \in Parse(loadedFrom)
    /\ (loadedFrom = None /\ enforced # None) =>
          \E family \in {"sev-snp", "tdx"} : enforced = [Family |-> family, Images |-> << >>]

(* The last comparison is of what is wanted and enforced now. *)
DriftKnown ==
    drift # None => wanted # None /\ enforced # None /\ drift = Diff(wanted, enforced)

(* A set from flags is the images of those flags. *)
FlagsKnown ==
    source.kind = "flags" =>
        /\ IsList(source.digests)
        /\ \E family : wanted = [FromFlags(source.digests, source.rtmrs) EXCEPT !.Family = family]

(* A set from a manifest is the pins of that manifest. *)
ManifestKnown ==
    source.kind = "manifest" =>
        /\ source.manifest \in Manifests
        /\ \E family : \E images \in FromImageManifest(source.manifest, family) :
              wanted = [Family |-> family, Images |-> images]

(* All of them together. *)
Known ==
    /\ WantedKnown /\ FileKnown /\ EnforcedKnown /\ DriftKnown /\ FlagsKnown /\ ManifestKnown

(* What a component enforces is a set of its own making, and it can         *)
(* publish it.                                                              *)
LEMMA EnforcedSet ==
    ASSUME EnforcedKnown, enforced # None
    PROVE  /\ IsSet(enforced) /\ NamesAreText(enforced) /\ NoHooks(enforced)
           /\ Render(enforced) # {}
<1>1. CASE loadedFrom # None
    <2>1. IsDocument(loadedFrom) /\ enforced \in Parse(loadedFrom)
        BY <1>1 DEF EnforcedKnown
    <2> QED BY <2>1, LoadedSet, LoadedRenders
<1>2. CASE loadedFrom = None
    <2>1. PICK family \in {"sev-snp", "tdx"} : enforced = [Family |-> family, Images |-> << >>]
        BY <1>2 DEF EnforcedKnown
    <2> QED BY <2>1, UnpinnedRenders
<1> QED BY <1>1, <1>2

(* A set the operator comes to leaves what is on disk and enforced alone,   *)
(* and forgets the comparison.                                              *)
LEMMA WantKeeps ==
    ASSUME Known, NEW rv, IsSet(rv), NEW how, Want(rv, how)
    PROVE  WantedKnown' /\ FileKnown' /\ EnforcedKnown' /\ DriftKnown'
<1>1. /\ wanted' = rv /\ drift' = None
      /\ file' = file /\ enforced' = enforced /\ loadedFrom' = loadedFrom
    BY DEF Want
<1>2. WantedKnown'
    BY <1>1 DEF WantedKnown
<1>3. FileKnown'
    BY <1>1 DEF Known, FileKnown
<1>4. EnforcedKnown'
    BY <1>1 DEF Known, EnforcedKnown
<1>5. DriftKnown'
    BY <1>1 DEF DriftKnown
<1> QED BY <1>2, <1>3, <1>4, <1>5

(* Every action keeps the invariant. *)
LEMMA KnownStep ==
    ASSUME Known, [Next]_vars
    PROVE  Known'
<1>1. ASSUME NEW rv \in Sets, BuildSet(rv) PROVE Known'
    <2>1. IsSet(rv) /\ Want(rv, [kind |-> "set"])
        BY <1>1, SetsAssumption DEF BuildSet
    <2>2. WantedKnown' /\ FileKnown' /\ EnforcedKnown' /\ DriftKnown'
        BY <2>1, WantKeeps
    <2>3. source' = [kind |-> "set"]
        BY <2>1 DEF Want
    <2>4. FlagsKnown' /\ ManifestKnown'
        BY <2>3 DEF FlagsKnown, ManifestKnown
    <2> QED BY <2>2, <2>4 DEF Known
<1>2. ASSUME NEW fl \in Flags, NEW family \in {"sev-snp", "tdx"}, TakeFlags(fl, family)
      PROVE  Known'
    <2>1. PICK digests \in ParseHexMeasurementsList(fl.digests),
               rtmrs \in ParseRegisterPins(fl.rtmrs) :
            Want([FromFlags(digests, rtmrs) EXCEPT !.Family = family],
                 [kind |-> "flags", digests |-> digests, rtmrs |-> rtmrs])
        BY <1>2 DEF TakeFlags
    <2> DEFINE rv == [FromFlags(digests, rtmrs) EXCEPT !.Family = family]
               how == [kind |-> "flags", digests |-> digests, rtmrs |-> rtmrs]
    <2>2. Want(rv, how)
        BY <2>1
    <2>3. rv = [FromFlags(digests, rtmrs) EXCEPT !.Family = family]
        OBVIOUS
    <2>4. how.kind = "flags" /\ how.digests = digests /\ how.rtmrs = rtmrs
        OBVIOUS
    <2> HIDE DEF rv, how
    <2>5. IsSet(rv)
        BY <2>3, FlagsSet
    <2>6. WantedKnown' /\ FileKnown' /\ EnforcedKnown' /\ DriftKnown'
        BY <2>2, <2>5, WantKeeps
    <2>7. source' = how /\ wanted' = rv
        BY <2>2 DEF Want
    <2>8. IsList(digests)
        BY FlagDigests
    <2>9. FlagsKnown'
        BY <2>3, <2>4, <2>7, <2>8, Zenon DEF FlagsKnown
    <2>10. ManifestKnown'
        BY <2>4, <2>7 DEF ManifestKnown
    <2> QED BY <2>6, <2>9, <2>10 DEF Known
<1>3. ASSUME NEW m \in Manifests, TakeManifest(m) PROVE Known'
    <2>1. PICK family \in ToSet(ManifestFamilies(m)) :
             \E images \in FromImageManifest(m, family) :
                Want([Family |-> family, Images |-> images], [kind |-> "manifest", manifest |-> m])
        BY <1>3 DEF TakeManifest
    <2>2. PICK images \in FromImageManifest(m, family) :
             Want([Family |-> family, Images |-> images], [kind |-> "manifest", manifest |-> m])
        BY <2>1
    <2> DEFINE rv == [Family |-> family, Images |-> images]
               how == [kind |-> "manifest", manifest |-> m]
    <2>3. Want(rv, how)
        BY <2>2
    <2>4. rv = [Family |-> family, Images |-> images]
        OBVIOUS
    <2>5. how.kind = "manifest" /\ how.manifest = m
        OBVIOUS
    <2> HIDE DEF rv, how
    <2>6. IsSet(rv)
        BY <2>4, ManifestSet
    <2>7. WantedKnown' /\ FileKnown' /\ EnforcedKnown' /\ DriftKnown'
        BY <2>3, <2>6, WantKeeps
    <2>8. source' = how /\ wanted' = rv
        BY <2>3 DEF Want
    <2>9. ManifestKnown'
        BY <2>4, <2>5, <2>8, Zenon DEF ManifestKnown
    <2>10. FlagsKnown'
        BY <2>5, <2>8 DEF FlagsKnown
    <2> QED BY <2>7, <2>9, <2>10 DEF Known
<1>4. ASSUME WriteFile PROVE Known'
    <2>1. /\ wanted # None /\ \E f \in Format(wanted) : file' = f
          /\ UNCHANGED <<source, wanted, enforced, loadedFrom, drift>>
        BY <1>4 DEF WriteFile
    <2>2. FileKnown'
        BY <2>1, FormatWrites DEF Known, WantedKnown, FileKnown
    <2> QED BY <2>1, <2>2
            DEF Known, WantedKnown, EnforcedKnown, DriftKnown, FlagsKnown, ManifestKnown
<1>5. ASSUME NEW f \in Documents, EditFile(f) PROVE Known'
    <2>1. file' = f /\ UNCHANGED <<source, wanted, enforced, loadedFrom, drift>>
        BY <1>5 DEF EditFile
    <2>2. FileKnown'
        BY <2>1, DocumentsAssumption DEF FileKnown
    <2> QED BY <2>1, <2>2
            DEF Known, WantedKnown, EnforcedKnown, DriftKnown, FlagsKnown, ManifestKnown
<1>6. ASSUME Load PROVE Known'
    <2>1. /\ file # None /\ enforced' \in Parse(file) /\ loadedFrom' = file /\ drift' = None
          /\ UNCHANGED <<source, wanted, file>>
        BY <1>6 DEF Load
    <2>2. EnforcedKnown'
        BY <2>1 DEF Known, FileKnown, EnforcedKnown
    <2>3. DriftKnown'
        BY <2>1 DEF DriftKnown
    <2> QED BY <2>1, <2>2, <2>3 DEF Known, WantedKnown, FileKnown, FlagsKnown, ManifestKnown
<1>7. ASSUME NEW family \in {"sev-snp", "tdx"}, StartUnpinned(family) PROVE Known'
    <2>1. /\ enforced' = [Family |-> family, Images |-> << >>]
          /\ loadedFrom' = None /\ drift' = None /\ UNCHANGED <<source, wanted, file>>
        BY <1>7 DEF StartUnpinned
    <2>2. EnforcedKnown'
        BY <2>1, Zenon DEF EnforcedKnown
    <2>3. DriftKnown'
        BY <2>1 DEF DriftKnown
    <2> QED BY <2>1, <2>2, <2>3 DEF Known, WantedKnown, FileKnown, FlagsKnown, ManifestKnown
<1>8. ASSUME Compare PROVE Known'
    <2>1. /\ wanted # None /\ enforced # None
          /\ UNCHANGED <<source, wanted, file, enforced, loadedFrom>>
        BY <1>8 DEF Compare
    <2>2. PICK f \in Render(enforced) : \E got \in ParseRendered(f) : drift' = Diff(wanted, got)
        BY <1>8 DEF Compare
    <2>3. ParseRendered(f) = {enforced}
        BY <2>1, EnforcedSet, RenderReadsBack DEF Known
    <2>4. drift' = Diff(wanted, enforced)
        BY <2>2, <2>3
    <2>5. DriftKnown'
        BY <2>1, <2>4 DEF DriftKnown
    <2> QED BY <2>1, <2>5
            DEF Known, WantedKnown, FileKnown, EnforcedKnown, FlagsKnown, ManifestKnown
<1>9. ASSUME UNCHANGED vars PROVE Known'
    BY <1>9 DEF vars, Known, WantedKnown, FileKnown, EnforcedKnown, DriftKnown, FlagsKnown,
                ManifestKnown
<1> QED BY <1>1, <1>2, <1>3, <1>4, <1>5, <1>6, <1>7, <1>8, <1>9 DEF Next

(* The invariant holds: every set, file and comparison in the state came    *)
(* from a source the package reads, and the last comparison is still of     *)
(* what is wanted and enforced.                                             *)
THEOREM AlwaysKnown == Spec => []Known
<1>1. Init => Known
    <2> SUFFICES ASSUME Init PROVE Known
        OBVIOUS
    <2>1. /\ source.kind = "none" /\ wanted = None /\ file = None /\ enforced = None
          /\ loadedFrom = None /\ drift = None
        BY DEF Init
    <2> QED BY <2>1 DEF Known, WantedKnown, FileKnown, EnforcedKnown, DriftKnown, FlagsKnown,
                        ManifestKnown
<1>2. Known /\ [Next]_vars => Known'
    BY KnownStep
<1> QED BY <1>1, <1>2, PTL DEF Spec

-----------------------------------------------------------------------------
(* A component admits exactly the guests of which one entry of its file is  *)
(* true in every field that is written (Parse, EnforceImages).              *)
THEOREM WrittenIsAlwaysEnforced == Spec => []WrittenIsEnforced
<1>1. Known => WrittenIsEnforced
    <2> SUFFICES ASSUME Known, loadedFrom # None, NEW g \in GuestsSeen
                 PROVE  Admits(Policy(enforced), g)
                          <=> /\ \E i \in DOMAIN loadedFrom.Measurements :
                                    EntryHolds(loadedFrom.Measurements[i], g)
                              /\ (\E i \in DOMAIN loadedFrom.Measurements :
                                    loadedFrom.Measurements[i].LaunchFileDigest # None)
                                    => Family(EvidenceOf(g).Platform)
                                         = ParseFamily(loadedFrom.TEE)
        BY DEF WrittenIsEnforced
    <2>1. IsDocument(loadedFrom) /\ enforced \in Parse(loadedFrom)
        BY DEF Known, EnforcedKnown
    <2> QED BY <2>1, LoadedEnforces
<1> QED BY <1>1, AlwaysKnown, PTL

(* A set that can be rendered reads back as itself, and what a component    *)
(* loaded can be rendered (Format, Render, ParseRendered).                  *)
THEOREM RenderingReadsBack == Spec => []RenderedReadsBack
<1>1. Known => RenderedReadsBack
    <2> SUFFICES ASSUME Known PROVE RenderedReadsBack
        OBVIOUS
    <2>1. ASSUME NEW rv \in {wanted, enforced} \ {None}, NEW f \in Render(rv),
                 NamesAreText(rv), NoHooks(rv)
          PROVE  ParseRendered(f) = {rv}
        <3>1. IsSet(rv)
            BY <2>1, EnforcedSet DEF Known, WantedKnown
        <3> QED BY <2>1, <3>1, RenderReadsBack
    <2>2. enforced # None => Render(enforced) # {}
        BY EnforcedSet DEF Known
    <2> QED BY <2>1, <2>2 DEF RenderedReadsBack
<1> QED BY <1>1, AlwaysKnown, PTL

(* No drift means the same admissions, for a set without hooks (Diff,       *)
(* tupleKey).                                                               *)
THEOREM NoDriftSameAdmissions == Spec => []NoDriftMeansSameAdmissions
<1>1. Known => NoDriftMeansSameAdmissions
    <2> SUFFICES ASSUME Known, NoDrift, NoHooks(wanted), NEW g \in GuestsSeen
                 PROVE  Admits(Policy(wanted), g) <=> Admits(Policy(enforced), g)
        BY DEF NoDriftMeansSameAdmissions, SameAdmissions
    <2>1. drift # None /\ drift = [missing |-> {}, extra |-> {}]
        BY NoneAssumption DEF NoDrift
    <2>2. enforced # None /\ Diff(wanted, enforced) = [missing |-> {}, extra |-> {}]
        BY <2>1 DEF Known, DriftKnown
    <2>3. NoHooks(enforced)
        BY <2>2, EnforcedSet DEF Known
    <2> QED BY <2>2, <2>3, EqualKeysAdmitAlike
<1> QED BY <1>1, AlwaysKnown, PTL

(* A flat form that Flatten calls uniform is the set, and flags that became *)
(* images mean what they meant (Flatten, CommonRegisters, FromFlags).       *)
THEOREM FlatFormsAreExact == Spec => []FlatFormIsExact
<1>1. Known => FlatFormIsExact
    <2> SUFFICES ASSUME Known PROVE FlatFormIsExact
        OBVIOUS
    <2>1. ASSUME NEW rv \in {wanted, enforced} \ {None}, Flatten(rv).uniform
          PROVE  SameAdmissions(Policy(rv), flatPolicy(Flatten(rv).digests, Flatten(rv).rtmrs))
        <3>1. IsSet(rv)
            BY <2>1, EnforcedSet DEF Known, WantedKnown
        <3>2. IsList(rv.Images)
            BY <3>1 DEF IsSet
        <3> QED BY <2>1, <3>2, FlattenIsExact DEF SameAdmissions
    <2>2. ASSUME source.kind = "flags", source.digests # << >>
          PROVE  SameAdmissions(Policy(wanted), flatPolicy(source.digests, source.rtmrs))
        <3>1. IsList(source.digests)
            BY <2>2 DEF Known, FlagsKnown
        <3>2. PICK family :
                wanted = [FromFlags(source.digests, source.rtmrs) EXCEPT !.Family = family]
            BY <2>2 DEF Known, FlagsKnown
        <3> QED BY <2>2, <3>1, <3>2, FlagsAreFlat DEF SameAdmissions
    <2> QED BY <2>1, <2>2 DEF FlatFormIsExact
<1> QED BY <1>1, AlwaysKnown, PTL

(* The pins of a manifest admit the guests its identity verifies, and a     *)
(* guest's own identity verifies no more (FromImageManifest,                *)
(* ImageIdentity.Verify, IdentityFromResult).                               *)
THEOREM ManifestsPinTheImage == Spec => []ManifestPinsAreTheImage
<1>1. Known => ManifestPinsAreTheImage
    <2> SUFFICES ASSUME Known, source.kind = "manifest",
                        NEW id \in LoadImageManifestFor(source.manifest, wanted.Family),
                        NEW g \in GuestsSeen, FamilyOf(g) = wanted.Family
                 PROVE  /\ VerifyIdentity(id, ResultOf(g)) <=> Admits(Policy(wanted), g)
                        /\ VerifyIdentity(id, ResultOf(g)) =>
                              \A seen \in IdentityFromResult(ResultOf(g)) :
                                  /\ VerifyIdentity(seen, ResultOf(g))
                                  /\ \A h \in GuestsSeen : VerifyIdentity(seen, ResultOf(h))
                                                            => VerifyIdentity(id, ResultOf(h))
        BY DEF ManifestPinsAreTheImage, FamilyOf
    <2> DEFINE m == source.manifest
    <2>1. m \in Manifests
        BY DEF Known, ManifestKnown
    <2>2. PICK family : \E images \in FromImageManifest(m, family) :
             wanted = [Family |-> family, Images |-> images]
        BY DEF Known, ManifestKnown
    <2>3. PICK images \in FromImageManifest(m, family) :
             wanted = [Family |-> family, Images |-> images]
        BY <2>2
    <2>4. wanted.Family = family /\ wanted.Images = images
        BY <2>3
    <2>5. id \in LoadImageManifestFor(m, family) /\ FamilyOf(g) = family
        BY <2>4
    <2> HIDE DEF m
    <2>6. IsTheImage(id, g) <=> Admits(Policy(wanted), g)
        BY <2>1, <2>4, <2>5, ManifestAdmits
    <2>7. ASSUME IsTheImage(id, g), NEW seen \in IdentityFromResult(ResultOf(g)),
                 NEW h \in GuestsSeen
          PROVE  IsTheImage(seen, g) /\ (IsTheImage(seen, h) => IsTheImage(id, h))
        BY <2>1, <2>5, <2>7, ShownIdentity
    <2> QED BY <2>6, <2>7, VerifiesAs
<1> QED BY <1>1, AlwaysKnown, PTL

(* A reader of schema 1 refuses the file or admits the same guests          *)
(* (checkLaunchFileSchema, schemaVersionFor).                               *)
THEOREM OldReadersAgree == Spec => []OldReadersLoseNothing
<1>1. Known => OldReadersLoseNothing
    <2> SUFFICES ASSUME Known, loadedFrom # None, NEW rv \in SchemaOneReader(loadedFrom)
                 PROVE  SameAdmissions(Policy(rv), Policy(enforced))
        BY DEF OldReadersLoseNothing
    <2>1. IsDocument(loadedFrom) /\ enforced \in Parse(loadedFrom)
        BY DEF Known, EnforcedKnown
    <2>2. rv = enforced
        BY <2>1, OldReaderReads
    <2> QED BY <2>2 DEF SameAdmissions
<1> QED BY <1>1, AlwaysKnown, PTL

=============================================================================
