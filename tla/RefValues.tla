----------------------------- MODULE RefValues -----------------------------
(***************************************************************************)
(* Package refvalues: the reference values of a deployment on their way    *)
(* from the operator (a measurements file, flags, an image manifest) to    *)
(* the component that enforces them and back, as the document it publishes *)
(* of what it enforces.                                                    *)
(*                                                                         *)
(* What a set admits is not defined here: Admits runs the enforcement of   *)
(* RemoteVerify on the policy the set converts to.                         *)
(***************************************************************************)
EXTENDS Manifest, Integers, Ordering, SequencesExt

CONSTANTS
    GuestsSeen,     \* the guests admission is compared on
    Documents,      \* measurements files as an operator may write them
    Sets,           \* reference sets as a caller may build them
    Flags,          \* the flags' texts: [digests, rtmrs]
    Manifests,      \* image manifests
    PublicKeys,     \* bytes that are one PEM public key
    NotUTF8,        \* bytes and names that are not valid UTF-8
    MaxActs         \* bound on what the operator does in one behaviour

ASSUME MaxActsAssumption == MaxActs \in Nat

(* Guests are of a family the package knows, and what they measured can be  *)
(* claimed; no file hashes to zero.                                         *)
ASSUME SeenAssumption ==
    \A g \in GuestsSeen :
        /\ g.launch \notin {"", "malformed"}
        /\ Family([tag |-> g.tag, canonical |-> TRUE]) # ""
        /\ g.file # ZeroBytes /\ HostData(g.file) # None
        /\ g.extends \in Seq(Digests)

VARIABLES
    source,     \* how the operator came to wanted
    wanted,     \* the operator's ReferenceValues, None before
    file,       \* the measurements config on disk, None before
    enforced,   \* the component's ReferenceValues, None before it loaded any
    loadedFrom, \* the file enforced was loaded from, None for no pinning
    drift,      \* what the last comparison reported, None before
    acts        \* how often the operator changed its mind

vars == <<source, wanted, file, enforced, loadedFrom, drift, acts>>

schemaVersion1 == "1"
schemaVersion2 == "2"
maxRTMRs == 4

-----------------------------------------------------------------------------
(* A document is [syntax, SchemaVersion, TEE, Measurements].  A launch field *)
(* of an entry is a raw message: None where it is absent, or [kind, text].   *)

isJSONNull(raw) == raw # None /\ raw.kind = "null"

launchBytes(raw) ==
    IF raw.kind = "string" /\ raw.text # EmptyBytes THEN {raw.text} ELSE {}

ParsePublicKeyPEM(bytes) == bytes \in PublicKeys

ParseLaunchFileDigest(family, text) ==
    {d \in IF text.form = "hex" THEN {text.of} ELSE {} :
        CheckLaunchFileDigest(family, d)}

NoBinding == [Anchor |-> None, LaunchFile |-> None, LaunchFileDigest |-> None]

bindingOf(raws, family) ==
    LET set == {i \in 1..3 : raws[i] # None}
    IN  IF Cardinality(set) > 1 THEN {}
        ELSE CASE 1 \in set ->
                    {[NoBinding EXCEPT !.Anchor = key] :
                        key \in {k \in launchBytes(raws[1]) : ParsePublicKeyPEM(k)}}
               [] 2 \in set ->
                    {[NoBinding EXCEPT !.LaunchFile = f] : f \in launchBytes(raws[2])}
               [] 3 \in set ->
                    {[NoBinding EXCEPT !.LaunchFileDigest = d] :
                        d \in IF raws[3].kind = "string"
                              THEN ParseLaunchFileDigest(family, raws[3].text)
                              ELSE {}}
               [] OTHER -> {NoBinding}

(* Mutant: a field written as null is an absent one. *)
pinLaunchBinding_NullIsAbsent(we, family) ==
    LET raws == <<we.ApproverKey, we.LaunchFile, we.LaunchFileDigest>>
    IN  bindingOf([i \in 1..3 |-> IF isJSONNull(raws[i]) THEN None ELSE raws[i]], family)

(* At most one binding, and none that is null. *)
pinLaunchBinding(we, family) ==
    LET raws == <<we.ApproverKey, we.LaunchFile, we.LaunchFileDigest>>
    IN  IF \E i \in 1..3 : isJSONNull(raws[i]) THEN {} ELSE bindingOf(raws, family)

(* Position i of the array is RTMR[i-1]; null is no pin, "" pins zero. *)
decodeRTMRs(raw) ==
    IF raw = None \/ raw = << >> THEN {NoRegisters}
    ELSE IF \/ Len(raw) > maxRTMRs
            \/ raw[1] # None
            \/ \E i \in 1..Len(raw) : raw[i] # None /\ raw[i].form = "badhex"
         THEN {}
         ELSE {[idx \in {i - 1 : i \in {j \in 1..Len(raw) : raw[j] # None}} |->
                  raw[idx + 1].of]}

(* wireImage.validate *)
validateImage(we, family) ==
    LET measured ==
          CASE family = "sev-snp" ->
                 IF we.MRTD # None \/ we.RTMR # None \/ we.Measurement = None THEN {}
                 ELSE decodeRegister(we.Measurement) \X {NoRegisters}
            [] family = "tdx" ->
                 IF we.Measurement # None \/ we.MRTD = None THEN {}
                 ELSE decodeRegister(we.MRTD) \X decodeRTMRs(we.RTMR)
            [] OTHER -> {}
    IN  IF we.Name \in {"", " "} THEN {}
        ELSE {[Name |-> we.Name, Digest |-> p[1], Registers |-> p[2],
               Anchor |-> b.Anchor, LaunchFile |-> b.LaunchFile,
               LaunchFileDigest |-> b.LaunchFileDigest, AcceptExtension |-> None] :
                 p \in measured, b \in pinLaunchBinding(we, family)}

(* Mutant: two images that differ in the launch binding alone are one. *)
tupleKey_NoBinding(img) == <<img.Digest, img.Registers>>

tupleKey(img) ==
    <<img.Digest, img.Registers, img.Anchor, img.LaunchFile, img.LaunchFileDigest>>

pinsLaunchFile(rv) ==
    \E img \in ToSet(rv.Images) :
        img.LaunchFile # None \/ img.LaunchFileDigest # None

(* Mutant: any known version will do. *)
checkLaunchFileSchema_Any(version, rv) == version \in {schemaVersion1, schemaVersion2}

checkLaunchFileSchema(version, rv) ==
    pinsLaunchFile(rv) => version = schemaVersion2

(* wire.validate: every entry, no name twice, no tuple twice. *)
validate(f, allowEmpty) ==
    LET family == ParseFamily(f.TEE)
        Entry(i) == validateImage(f.Measurements[i], family)
        n == Len(f.Measurements)
        rv == [Family |-> family,
               Images |-> [i \in 1..n |-> CHOOSE img \in Entry(i) : TRUE]]
    IN  IF \/ f.SchemaVersion \notin {schemaVersion1, schemaVersion2}
           \/ family = ""
           \/ n = 0 /\ ~allowEmpty
           \/ \E i \in 1..n : Entry(i) = {}
        THEN {}
        ELSE IF \/ \E i, j \in 1..n : i # j /\
                      \/ rv.Images[i].Name = rv.Images[j].Name
                      \/ tupleKey(rv.Images[i]) = tupleKey(rv.Images[j])
                \/ ~checkLaunchFileSchema(f.SchemaVersion, rv)
             THEN {}
             ELSE {rv}

parse(f, allowEmpty) == IF f.syntax = "clean" THEN validate(f, allowEmpty) ELSE {}

Parse(f) == parse(f, FALSE)
ParseRendered(f) == parse(f, TRUE)

-----------------------------------------------------------------------------
(* Format and Render. *)

schemaVersionFor(rv) == IF pinsLaunchFile(rv) THEN schemaVersion2 ELSE schemaVersion1

Raw(text) == IF text = None THEN None ELSE [kind |-> "string", text |-> text]

(* A pin Format can put into an entry; jsonString refuses invalid UTF-8. *)
Formats(img, family) ==
    /\ {img.Anchor, img.LaunchFile} \cap NotUTF8 = {}
    /\ img.LaunchFileDigest # None =>
          CheckLaunchFileDigest(family, img.LaunchFileDigest)
    /\ CASE family = "sev-snp" -> DOMAIN img.Registers = {}
         [] family = "tdx" -> \A i \in DOMAIN img.Registers :
                                 /\ 0 < i /\ i < maxRTMRs
                                 /\ img.Registers[i] # ShortBytes
         [] OTHER -> FALSE

rtmrArray(regs) ==
    [i \in 1..maxRTMRs |-> IF i - 1 \in DOMAIN regs THEN hexText(regs[i - 1]) ELSE None]

formatImage(img, family) ==
    [Name |-> img.Name,
     Measurement |-> IF family = "sev-snp" THEN hexText(img.Digest) ELSE None,
     MRTD |-> IF family = "tdx" THEN hexText(img.Digest) ELSE None,
     RTMR |-> IF DOMAIN img.Registers = {} THEN None ELSE rtmrArray(img.Registers),
     ApproverKey |-> Raw(img.Anchor),
     LaunchFile |-> Raw(img.LaunchFile),
     LaunchFileDigest |-> IF img.LaunchFileDigest = None THEN None
                          ELSE Raw(hexText(img.LaunchFileDigest))]

(* json.MarshalIndent replaces a name that is not UTF-8. *)
marshal(f) ==
    [f EXCEPT !.Measurements =
        [i \in DOMAIN f.Measurements |->
            [f.Measurements[i] EXCEPT !.Name =
                IF @ \in NotUTF8 THEN "replaced" ELSE @]]]

wire(rv, version) ==
    [syntax |-> "clean", SchemaVersion |-> version,
     TEE |-> [tag |-> rv.Family, canonical |-> TRUE],
     Measurements |-> [i \in DOMAIN rv.Images |->
                         formatImage(rv.Images[i], rv.Family)]]

(* Mutant: pins no entry can carry are left out. *)
Format_DropsPins(rv) ==
    LET kept == [rv EXCEPT !.Images =
                   [i \in DOMAIN @ |->
                      IF Formats(@[i], rv.Family) THEN @[i]
                      ELSE [@[i] EXCEPT !.Registers = NoRegisters, !.Anchor = None,
                              !.LaunchFile = None, !.LaunchFileDigest = None]]]
        f == wire(kept, schemaVersionFor(kept))
    IN  IF validate(f, FALSE) = {} THEN {} ELSE {marshal(f)}

Format(rv) ==
    LET f == wire(rv, schemaVersionFor(rv))
    IN  IF \/ \E img \in ToSet(rv.Images) : ~Formats(img, rv.Family)
           \/ validate(f, FALSE) = {}
        THEN {} ELSE {marshal(f)}

Render(rv) ==
    IF rv.Images = << >>
    THEN {f \in {wire(rv, schemaVersion1)} : validate(f, TRUE) # {}}
    ELSE Format(rv)

(* The images one side pins and the other does not. *)
Diff(want, got) ==
    LET keys(rv) == {tupleKey(img) : img \in ToSet(rv.Images)}
        Only(a, b) == {img \in ToSet(a.Images) : tupleKey(img) \notin keys(b)}
    IN  [missing |-> Only(want, got), extra |-> Only(got, want)]

-----------------------------------------------------------------------------
(* The flat form. *)

HasLaunchBindings(rv) ==
    \E img \in ToSet(rv.Images) :
        img.Anchor # None \/ img.LaunchFile # None \/ img.LaunchFileDigest # None

(* [common, uniform] *)
CommonRegisters(rv) ==
    IF rv.Images = << >> THEN [common |-> NoRegisters, uniform |-> TRUE]
    ELSE LET first == rv.Images[1].Registers
             agree == \A img \in ToSet(rv.Images) : img.Registers = first
         IN  [common |-> IF agree THEN first ELSE NoRegisters, uniform |-> agree]

(* Mutant: only the registers decide whether the flat form is the set. *)
Flatten_RegistersOnly(rv) ==
    [digests |-> [i \in DOMAIN rv.Images |-> rv.Images[i].Digest],
     rtmrs |-> CommonRegisters(rv).common, uniform |-> CommonRegisters(rv).uniform]

Flatten(rv) ==
    [digests |-> [i \in DOMAIN rv.Images |-> rv.Images[i].Digest],
     rtmrs |-> CommonRegisters(rv).common,
     uniform |-> CommonRegisters(rv).uniform /\ ~HasLaunchBindings(rv)]

(* The digests and register pins of the flags: a blank entry is skipped. *)
ParseHexMeasurementsList(raw) ==
    LET kept == Filtered(raw, {i \in DOMAIN raw : raw[i].form # "empty"})
    IN  IF \E i \in DOMAIN kept : decodeRegister(kept[i]) = {} THEN {}
        ELSE {[i \in DOMAIN kept |-> kept[i].of]}

(* A pin is [idx, value]; idx is None where the text has no "<index>=". *)
ParseRegisterPins(raw) ==
    LET kept == Filtered(raw, {i \in DOMAIN raw : raw[i].value.form # "empty"})
        At(idx) == {i \in DOMAIN kept : kept[i].idx = idx}
    IN  IF \E i \in DOMAIN kept : \/ kept[i].idx \notin {1, 2, 3}
                                  \/ Cardinality(At(kept[i].idx)) > 1
                                  \/ decodeRegister(kept[i].value) = {}
        THEN {}
        ELSE {[idx \in {kept[i].idx : i \in DOMAIN kept} |->
                 kept[CHOOSE i \in At(idx) : TRUE].value.of]}

(* Names are placeholders; one per image the bounds allow. *)
imageNames == <<"image-1", "image-2", "image-3", "image-4">>

PlainImage(name, digest, registers) ==
    [Name |-> name, Digest |-> digest, Registers |-> registers, Anchor |-> None,
     LaunchFile |-> None, LaunchFileDigest |-> None, AcceptExtension |-> None]

(* Each digest where it comes first. *)
Once(digests) ==
    Filtered(digests, {i \in DOMAIN digests :
                          \A j \in DOMAIN digests : digests[j] = digests[i] => i <= j})

(* Every digest once, each with all the registers. *)
FromFlags(digests, rtmrs) ==
    [Family |-> "",
     Images |-> [i \in DOMAIN Once(digests) |->
                   PlainImage(imageNames[i], Once(digests)[i], rtmrs)]]

(* Mutant: the launch digest alone is pinned. *)
FromImageManifest_DigestOnly(m, family) ==
    {LET labels == Sorted(DOMAIN id.Launch)
     IN  [i \in DOMAIN labels |->
            PlainImage(imageNames[i], id.Launch[labels[i]], NoRegisters)] :
        id \in LoadImageManifestFor(m, family)}

(* One pin per launch variant, in the order of the vCPU counts. *)
FromImageManifest(m, family) ==
    {LET labels == Sorted(DOMAIN id.Launch)
     IN  [i \in DOMAIN labels |->
            PlainImage(imageNames[i], id.Launch[labels[i]], id.RTMRs)] :
        id \in LoadImageManifestFor(m, family)}

-----------------------------------------------------------------------------
(* The inputs, as JSON and Go type them. *)

(* None is no value that is written. *)
ASSUME NoneAssumption ==
    /\ None # EmptyBytes /\ None # hexText(Zero) /\ Zero # ShortBytes
    /\ None # [missing |-> {}, extra |-> {}] /\ None \notin NotUTF8
    /\ None # rtmrArray(NoRegisters)

IsList(s) == Len(s) \in Nat /\ s = [i \in 1..Len(s) |-> s[i]]

(* Text as it is spelled. *)
IsText(t) ==
    /\ t # None /\ t = [form |-> t.form, of |-> t.of]
    /\ t.form \in {"hex", "badhex", "empty"}
    /\ t.form = "hex" => t.of # ShortBytes
    /\ t.form = "empty" => t.of = Zero

(* A launch field that is a string: JSON text, which is UTF-8. *)
IsRaw(raw) ==
    raw.kind = "string" =>
        /\ raw = [kind |-> "string", text |-> raw.text]
        /\ raw.text # None

IsEntry(we) ==
    /\ we = [Name |-> we.Name, Measurement |-> we.Measurement, MRTD |-> we.MRTD,
             RTMR |-> we.RTMR, ApproverKey |-> we.ApproverKey,
             LaunchFile |-> we.LaunchFile, LaunchFileDigest |-> we.LaunchFileDigest]
    /\ we.Name \notin NotUTF8
    /\ we.Measurement # None => IsText(we.Measurement)
    /\ we.MRTD # None => IsText(we.MRTD)
    /\ we.RTMR # None =>
          /\ IsList(we.RTMR)
          /\ \A i \in DOMAIN we.RTMR : we.RTMR[i] # None => IsText(we.RTMR[i])
          /\ \A regs \in decodeRTMRs(we.RTMR) : rtmrArray(regs) # None
    /\ \A raw \in {we.ApproverKey, we.LaunchFile} \ {None} :
          IsRaw(raw) /\ raw.text \notin NotUTF8
    /\ we.LaunchFileDigest # None =>
          /\ IsRaw(we.LaunchFileDigest)
          /\ we.LaunchFileDigest.kind = "string" =>
                IsText(we.LaunchFileDigest.text) /\ we.LaunchFileDigest.text.of # None

IsDocument(f) ==
    /\ f = [syntax |-> f.syntax, SchemaVersion |-> f.SchemaVersion, TEE |-> f.TEE,
            Measurements |-> f.Measurements]
    /\ IsList(f.Measurements)
    /\ \A i \in DOMAIN f.Measurements : IsEntry(f.Measurements[i])

ASSUME DocumentsAssumption ==
    /\ \A f \in Documents : IsDocument(f)
    /\ "replaced" \notin NotUTF8

ASSUME FlagsAssumption ==
    \A fl \in Flags :
        /\ IsList(fl.digests) /\ \A i \in DOMAIN fl.digests : IsText(fl.digests[i])
        /\ IsList(fl.rtmrs) /\ \A i \in DOMAIN fl.rtmrs : IsText(fl.rtmrs[i].value)
        /\ \A regs \in ParseRegisterPins(fl.rtmrs) : rtmrArray(regs) # None

ASSUME ManifestsAssumption ==
    \A m \in Manifests :
        /\ \A id \in LoadImageManifest(m) : rtmrArray(id.RTMRs) # None
        /\ \A k \in DOMAIN m.flat : IsText(m.flat[k])
        /\ m.TDX # None => \A k \in DOMAIN m.TDX : IsText(m.TDX[k])
        /\ IsList(m.SNPVariants)
        /\ \A i \in DOMAIN m.SNPVariants :
              m.SNPVariants[i].SMP \in Int /\ IsText(m.SNPVariants[i].SNPLaunchDigest)

(* A set as Go types it; its values can be written. *)
IsImage(img) ==
    /\ img = [Name |-> img.Name, Digest |-> img.Digest, Registers |-> img.Registers,
              Anchor |-> img.Anchor, LaunchFile |-> img.LaunchFile,
              LaunchFileDigest |-> img.LaunchFileDigest,
              AcceptExtension |-> img.AcceptExtension]
    /\ img.Registers = [i \in DOMAIN img.Registers |-> img.Registers[i]]
    /\ DOMAIN img.Registers \subseteq Int
    /\ None \notin {hexText(img.Registers[i]) : i \in DOMAIN img.Registers}
    /\ rtmrArray(img.Registers) # None
    /\ hexText(img.Digest) # None
    /\ \A text \in {img.Anchor, img.LaunchFile} \ {None} : Raw(text) # None
    /\ img.LaunchFileDigest # None =>
          hexText(img.LaunchFileDigest) # None /\ Raw(hexText(img.LaunchFileDigest)) # None

IsSet(rv) ==
    /\ rv = [Family |-> rv.Family, Images |-> rv.Images]
    /\ rv.Family \in {"sev-snp", "tdx", ""}
    /\ IsList(rv.Images) /\ \A i \in DOMAIN rv.Images : IsImage(rv.Images[i])

ASSUME SetsAssumption == \A rv \in Sets : IsSet(rv)

-----------------------------------------------------------------------------
(* Enforcement, by RemoteVerify, of the policy a set converts to. *)

Enforcer(guest, evidence, policy, claimed) ==
    INSTANCE RemoteVerify WITH
        Exchanges <- {}, PCRValues <- {}, Paravisor <- EmptyBytes,
        resp <- None, pc <- "enforced", verdict <- None

NoPolicy ==
    [ExpectedReportData |-> FALSE, ExpectedInitDataHash |-> FALSE, MinTcb |-> FALSE,
     Images |-> {}, Measurements |-> {}, Registers |-> NoRegisters, PCRs |-> << >>]

Policy(rv) == [NoPolicy EXCEPT !.Images = ToSet(rv.Images)]

flatPolicy(digests, rtmrs) ==
    [NoPolicy EXCEPT !.Measurements = ToSet(digests), !.Registers = rtmrs]

(* The honest evidence of a guest, and the verified result of it. *)
EvidenceOf(g) == [Platform |-> [tag |-> g.tag, canonical |-> TRUE],
                  selection |-> {}, bank |-> << >>]

ResultOf(g) ==
    LET E == Enforcer(g, EvidenceOf(g), NoPolicy, << >>)!GuestRTMR
        I == Enforcer(g, EvidenceOf(g), NoPolicy, << >>)!GuestInitData
    IN  [SignatureValid |-> TRUE, Platform |-> EvidenceOf(g).Platform,
         Claims |-> [LaunchDigest |-> g.launch, RTMR |-> E, InitData |-> I,
                     PCR |-> << >>]]

(* The guest's own list of what it measured. *)
ClaimsOf(g) == [i \in 1..Len(g.extends) |-> [form |-> "bare", digest |-> g.extends[i]]]

Admits(policy, g) ==
    Enforcer(g, EvidenceOf(g), policy, ClaimsOf(g))!EnforcePinsWithRuntimeLog(ResultOf(g))

SameAdmissions(p, q) == \A g \in GuestsSeen : Admits(p, g) <=> Admits(q, g)

-----------------------------------------------------------------------------
Init ==
    /\ source = [kind |-> "none"]
    /\ wanted = None /\ file = None
    /\ enforced = None /\ loadedFrom = None
    /\ drift = None /\ acts = 0

Act == acts < MaxActs /\ acts' = acts + 1

Want(rv, how) ==
    /\ Act
    /\ wanted' = rv /\ source' = how /\ drift' = None
    /\ UNCHANGED <<file, enforced, loadedFrom>>

(* The operator's reference values, from code, flags or a manifest. *)
BuildSet(rv) == Want(rv, [kind |-> "set"])

TakeFlags(fl, family) ==
    \E digests \in ParseHexMeasurementsList(fl.digests),
       rtmrs \in ParseRegisterPins(fl.rtmrs) :
        Want([FromFlags(digests, rtmrs) EXCEPT !.Family = family],
             [kind |-> "flags", digests |-> digests, rtmrs |-> rtmrs])

TakeManifest(m) ==
    \E family \in ToSet(ManifestFamilies(m)) :
        \E images \in FromImageManifest(m, family) :
            Want([Family |-> family, Images |-> images],
                 [kind |-> "manifest", manifest |-> m])

(* The file, rendered from the set or written by hand. *)
WriteFile ==
    /\ wanted # None
    /\ \E f \in Format(wanted) : file' = f
    /\ UNCHANGED <<source, wanted, enforced, loadedFrom, drift, acts>>

EditFile(f) ==
    /\ Act
    /\ file' = f
    /\ UNCHANGED <<source, wanted, enforced, loadedFrom, drift>>

(* A component starts: with the file, which must load, or without pins. *)
Load ==
    /\ file # None
    /\ \E rv \in Parse(file) : enforced' = rv
    /\ loadedFrom' = file /\ drift' = None
    /\ UNCHANGED <<source, wanted, file, acts>>

StartUnpinned(family) ==
    /\ enforced' = [Family |-> family, Images |-> << >>]
    /\ loadedFrom' = None /\ drift' = None
    /\ UNCHANGED <<source, wanted, file, acts>>

(* The operator reads what the component publishes and compares. *)
Compare ==
    /\ wanted # None /\ enforced # None
    /\ \E f \in Render(enforced) :
          \E got \in ParseRendered(f) : drift' = Diff(wanted, got)
    /\ UNCHANGED <<source, wanted, file, enforced, loadedFrom, acts>>

Next ==
    \/ \E rv \in Sets : BuildSet(rv)
    \/ \E fl \in Flags, family \in {"sev-snp", "tdx"} : TakeFlags(fl, family)
    \/ \E m \in Manifests : TakeManifest(m)
    \/ WriteFile
    \/ \E f \in Documents : EditFile(f)
    \/ Load
    \/ \E family \in {"sev-snp", "tdx"} : StartUnpinned(family)
    \/ Compare

Spec == Init /\ [][Next]_vars

-----------------------------------------------------------------------------
(* Properties. *)

RegistersOf(g) == ResultOf(g).Claims.RTMR

(* The guest was launched with these bytes and extended nothing since. *)
BareLaunch(g, bytes) ==
    /\ g.tag # "az-snp" /\ g.file = bytes
    /\ HasRegisters(EvidenceOf(g).Platform) => g.extends = << >>

(* What an operator reads in one entry: everything written there holds. *)
EntryHolds(we, g) ==
    /\ \A text \in {we.Measurement, we.MRTD} \ {None} : text.of = g.launch
    /\ we.RTMR # None => \A i \in DOMAIN we.RTMR : we.RTMR[i] # None =>
          i - 1 \in DOMAIN RegistersOf(g) /\ RegistersOf(g)[i - 1] = we.RTMR[i].of
    /\ \A raw \in {we.ApproverKey, we.LaunchFile} \ {None} : BareLaunch(g, raw.text)
    /\ we.LaunchFileDigest # None =>
          \E bytes \in {g.file} :
             /\ BareLaunch(g, bytes)
             /\ we.LaunchFileDigest.text.of \in
                   LaunchFileDigest(Family(EvidenceOf(g).Platform), bytes)

(* A component admits exactly the guests for which everything one entry of  *)
(* its file says is true: a field that is written is never dropped, merged  *)
(* with another entry's, or read as another register's (Parse and           *)
(* EnforceImages together).  A launch file digest has its family's width    *)
(* and rules out guests of the other, whichever entry it is written in      *)
(* (checkLaunchBindingPins).                                                *)
WrittenIsEnforced ==
    loadedFrom # None => \A g \in GuestsSeen :
        LET entries == loadedFrom.Measurements
        IN  Admits(Policy(enforced), g)
              <=> /\ \E i \in DOMAIN entries : EntryHolds(entries[i], g)
                  /\ (\E i \in DOMAIN entries : entries[i].LaunchFileDigest # None)
                        => Family(EvidenceOf(g).Platform) = ParseFamily(loadedFrom.TEE)

NamesAreText(rv) == {img.Name : img \in ToSet(rv.Images)} \cap NotUTF8 = {}

(* No pin of a caller's own has the hook that judges runtime extensions.    *)
NoHooks(rv) == \A img \in ToSet(rv.Images) : img.AcceptExtension = None

(* A set that Format or Render accepts reads back as the same set, pin for  *)
(* pin, if its names are text and it has no hooks; and what a component     *)
(* loaded it can always publish (Format, Render, ParseRendered).            *)
RenderedReadsBack ==
    /\ \A rv \in {wanted, enforced} \ {None} : \A f \in Render(rv) :
          NamesAreText(rv) /\ NoHooks(rv) => ParseRendered(f) = {rv}
    /\ enforced # None => Render(enforced) # {}

NoDrift == drift = [missing |-> {}, extra |-> {}]

(* An empty Diff between what the operator wants and what a component       *)
(* publishes means that the component admits the guests the operator's own  *)
(* set admits, if that has no hooks (Diff, tupleKey).                       *)
NoDriftMeansSameAdmissions ==
    (NoDrift /\ NoHooks(wanted)) => SameAdmissions(Policy(wanted), Policy(enforced))

(* Where Flatten reports uniform, the flat policy admits exactly the guests *)
(* the set admits: no pin is lost without the caller being told.  Flags     *)
(* turned into images keep the meaning of the flat form too, unless they    *)
(* pin registers and no digest, which has no image form (Flatten,           *)
(* CommonRegisters, FromFlags).                                             *)
FlatFormIsExact ==
    /\ \A rv \in {wanted, enforced} \ {None} :
          LET flat == Flatten(rv)
          IN  flat.uniform =>
                SameAdmissions(Policy(rv), flatPolicy(flat.digests, flat.rtmrs))
    /\ (source.kind = "flags" /\ source.digests # << >>) =>
          SameAdmissions(Policy(wanted), flatPolicy(source.digests, source.rtmrs))

(* The pins of a manifest admit the guests of its family that the image's   *)
(* identity verifies, and an identity taken from such a guest's own result  *)
(* verifies no guest the manifest's does not (FromImageManifest,            *)
(* ImageIdentity.Verify, IdentityFromResult).                               *)
ManifestPinsAreTheImage ==
    source.kind = "manifest" =>
        \A id \in LoadImageManifestFor(source.manifest, wanted.Family) :
        \A g \in {h \in GuestsSeen : Family(EvidenceOf(h).Platform) = wanted.Family} :
            /\ VerifyIdentity(id, ResultOf(g)) <=> Admits(Policy(wanted), g)
            /\ VerifyIdentity(id, ResultOf(g)) =>
                  \A seen \in IdentityFromResult(ResultOf(g)) :
                      /\ VerifyIdentity(seen, ResultOf(g))
                      /\ \A h \in GuestsSeen : VerifyIdentity(seen, ResultOf(h))
                                                => VerifyIdentity(id, ResultOf(h))

(* A reader of schema 1, which has no launch file fields, either refuses a  *)
(* file or admits the guests this package's reader admits                   *)
(* (checkLaunchFileSchema, schemaVersionFor).                               *)
SchemaOneReader(f) ==
    IF f.SchemaVersion # schemaVersion1 THEN {}
    ELSE Parse([f EXCEPT !.Measurements =
                  [i \in DOMAIN @ |->
                     [@[i] EXCEPT !.LaunchFile = None, !.LaunchFileDigest = None]]])

OldReadersLoseNothing ==
    loadedFrom # None => \A rv \in SchemaOneReader(loadedFrom) :
        SameAdmissions(Policy(rv), Policy(enforced))

=============================================================================
