------------------------------ MODULE Manifest ------------------------------
(***************************************************************************)
(* Image manifests (runtimemeasure/manifest*.go) and the identity of a     *)
(* guest image (identity.go, result.go).                                   *)
(*                                                                         *)
(* A text in a JSON file is [form, of]: "hex" is the full-width lowercase  *)
(* spelling of the value of, "badhex" any other spelling, "empty" the      *)
(* empty string.  A file's syntax is "clean", or says which strictness it  *)
(* offends: a key named twice, a field the schema lacks, trailing data.    *)
(* A loader that may fail returns the set of its results, empty on error.  *)
(***************************************************************************)
EXTENDS Binding

CONSTANT ShortBytes     \* stands for a value of another width than 48 bytes

hexText(v) == [form |-> IF v = ShortBytes THEN "badhex" ELSE "hex", of |-> v]
emptyText == [form |-> "empty", of |-> Zero]

NoRegisters == [i \in {} |-> Zero]

(* teetypes.ParseFamily: a platform tag in any spelling, or "sev-snp"; "" is *)
(* an error.                                                                 *)
ParseFamily(tee) ==
    IF NormalizePlatform(tee).tag = "sev-snp" THEN "sev-snp" ELSE Family(tee)

decodeRegister(text) == IF text.form = "hex" THEN {text.of} ELSE {}

(* A manifest is [syntax, Version, Platform, flat, TDX, SNPVariants].  flat  *)
(* holds the registers named at the top level and TDX those under "tdx", or  *)
(* None; an identity is its family, its launch variants by label and its     *)
(* registers.                                                                *)
Registers == {"mrtd", "rtmr1", "rtmr2"}

Strict(m) == m.syntax \in {"clean", "unknown"}

(* The MRTD + RTMR[1] + RTMR[2] tuple, whole or not at all.  The label 0     *)
(* stands for no label.                                                      *)
tdxImagePins(named) ==
    IF \E k \in Registers :
          k \notin DOMAIN named \/ decodeRegister(named[k]) = {}
    THEN {}
    ELSE {[Family |-> "tdx", Launch |-> [l \in {0} |-> named["mrtd"].of],
           RTMRs |-> [i \in {1, 2} |->
                        named[IF i = 1 THEN "rtmr1" ELSE "rtmr2"].of]]}

(* A flat register beside the nested object is refused. *)
loadTDXImageManifest(m) ==
    IF ~Strict(m) \/ (m.TDX # None /\ DOMAIN m.flat \cap Registers # {}) THEN {}
    ELSE tdxImagePins(IF m.TDX # None THEN m.TDX ELSE m.flat)

(* The launch digest of every vCPU count. *)
loadSNPImageManifest(m) ==
    LET vs == m.SNPVariants
        smps == {vs[i].SMP : i \in 1..Len(vs)}
        Of(smp) == CHOOSE i \in 1..Len(vs) : vs[i].SMP = smp
    IN  IF \/ ~Strict(m) \/ Len(vs) = 0
           \/ Cardinality(smps) # Len(vs)
           \/ \E i \in 1..Len(vs) :
                 \/ vs[i].SMP <= 0
                 \/ vs[i].Algorithm # "sha384"
                 \/ decodeRegister(vs[i].SNPLaunchDigest) = {}
        THEN {}
        ELSE {[Family |-> "sev-snp",
               Launch |-> [smp \in smps |-> vs[Of(smp)].SNPLaunchDigest.of],
               RTMRs |-> NoRegisters]}

LoadImageManifest(m) ==
    IF loadTDXImageManifest(m) # {} THEN loadTDXImageManifest(m)
                                    ELSE loadSNPImageManifest(m)

LoadImageManifestFor(m, family) ==
    CASE family = "sev-snp" -> loadSNPImageManifest(m)
      [] family = "tdx" -> loadTDXImageManifest(m)
      [] OTHER -> {}

(* The families a manifest declares, TDX first; << >> is an error. *)
manifestSchemaVersion == 3

ManifestFamilies(m) ==
    IF m.Version # manifestSchemaVersion \/ m.syntax = "trailing" THEN << >>
    ELSE IF m.Platform = [tag |-> "multi", canonical |-> TRUE]
         THEN <<"tdx", "sev-snp">>
         ELSE IF ParseFamily(m.Platform) = "" THEN << >> ELSE <<ParseFamily(m.Platform)>>

(* ImageIdentity.Verify on a result: one pinned launch digest, and every     *)
(* pinned register.                                                          *)
VerifyIdentity(id, r) ==
    /\ r.SignatureValid
    /\ Family(r.Platform) = id.Family
    /\ r.Claims.LaunchDigest \in {id.Launch[l] : l \in DOMAIN id.Launch}
    /\ \A i \in DOMAIN id.RTMRs :
          i \in DOMAIN r.Claims.RTMR /\ r.Claims.RTMR[i] = id.RTMRs[i]

(* The identity a verified result shows.  The vCPU count behind an SNP       *)
(* digest is not known, so its variant has no label.                         *)
IdentityFromResult(r) ==
    IF ~r.SignatureValid \/ r.Claims.LaunchDigest = "" THEN {}
    ELSE CASE Family(r.Platform) = "sev-snp" ->
                {[Family |-> "sev-snp", Launch |-> [l \in {0} |-> r.Claims.LaunchDigest],
                  RTMRs |-> NoRegisters]}
           [] Family(r.Platform) = "tdx" ->
                {[Family |-> "tdx", Launch |-> [l \in {0} |-> r.Claims.LaunchDigest],
                  RTMRs |-> [i \in {1, 2} |-> r.Claims.RTMR[i]]] :
                    x \in IF {1, 2} \subseteq DOMAIN r.Claims.RTMR THEN {0} ELSE {}}
           [] OTHER -> {}

=============================================================================
