------------------------------ MODULE Binding ------------------------------
(***************************************************************************)
(* The verifier's side of runtime measurement: what a verified result says *)
(* a guest was launched with and measured since, and the comparison with   *)
(* what a policy expects (binding.go, launchfile.go).                      *)
(*                                                                         *)
(* A result r is a record with SignatureValid, Platform and Claims; the    *)
(* claims' RTMR is a function whose domain is the registers reported, and  *)
(* InitData a digest or None.  A digest is the record of what was hashed,  *)
(* so its field name is its width and the two families' never compare      *)
(* equal.  An operator that may fail returns the set of its results, empty *)
(* on error.                                                               *)
(***************************************************************************)
EXTENDS RuntimeMeasure, Platform

CONSTANTS
    EmptyBytes,     \* a file of no bytes
    ZeroBytes       \* stands for what would hash to an all-zero digest

ASSUME BytesDistinct == EmptyBytes # ZeroBytes

-----------------------------------------------------------------------------
(* The widths launchFileHash gives a family's digest: its hash, or none. *)
launchFileHash(family) ==
    CASE family = "tdx" -> {"sha384"}
      [] family = "sev-snp" -> {"sha256"}
      [] OTHER -> {}

LaunchFileDigest(family, bytes) ==
    {[f \in {h} |-> bytes] : h \in IF bytes = EmptyBytes THEN {}
                                   ELSE launchFileHash(family)}

CheckLaunchFileDigest(family, digest) ==
    \E h \in launchFileHash(family) :
        DOMAIN digest = {h} /\ digest[h] \notin {ZeroBytes, EmptyBytes}

-----------------------------------------------------------------------------
(* Platforms whose evidence carries a binding the launcher chose. *)
checkBindingPlatform(p) ==
    /\ Family(p) # ""
    /\ NormalizePlatform(p).tag # "az-snp"

(* The binding field of a verified result: RTMR[3], or HOSTDATA. *)
Binding(r) ==
    IF ~r.SignatureValid \/ ~checkBindingPlatform(r.Platform) THEN {}
    ELSE IF HasRegisters(r.Platform)
         THEN {r.Claims.RTMR[i] : i \in {3} \cap DOMAIN r.Claims.RTMR}
         ELSE {h \in {r.Claims.InitData} : h # None /\ DOMAIN h = {"sha256"}}

(* What Binding must equal for a launch file of this digest and these      *)
(* workloads.                                                              *)
bindingFromDigest(p, digest, workloadDigests) ==
    IF \/ ~checkBindingPlatform(p)
       \/ ~CheckLaunchFileDigest(Family(p), digest)
       \/ Family(p) = "sev-snp" /\ Len(workloadDigests) > 0
    THEN {}
    ELSE {IF Family(p) = "tdx"
          THEN FromDigestsSeeded(Extend(Zero, digest), workloadDigests)
          ELSE digest}

expectedBinding(p, anchor, workloadDigests) ==
    UNION {bindingFromDigest(p, d, workloadDigests) :
               d \in LaunchFileDigest(Family(p), anchor)}

(* The guest was launched with these bytes and measured these workloads. *)
VerifyBinding(r, anchor, workloadDigests) ==
    \E got \in Binding(r) :
        got \in expectedBinding(r.Platform, anchor, workloadDigests)

(* An entry of a claimed list is spelled as the digest it names. *)
CanonicalEntry(entry) ==
    entry.form = "bare" /\ CanonicalDigest(entry) # None

Listed(claimed, k) == [i \in 1..k |-> CanonicalDigest(claimed[i])]

(* Mutant: the whole claimed list must fold to the register. *)
matchBindingPrefix_WholeList(r, claimed, expected) ==
    IF \E i \in 1..Len(claimed) : ~CanonicalEntry(claimed[i]) THEN {}
    ELSE {k \in {IF HasRegisters(r.Platform) THEN Len(claimed) ELSE 0} :
            \E got \in Binding(r), want \in expected :
                IF HasRegisters(r.Platform)
                THEN got = FromDigestsSeeded(want, Listed(claimed, k))
                ELSE got = want}

(* The first k for which the binding is the expected one extended with the *)
(* first k claimed digests.                                                *)
matchBindingPrefix(r, claimed, expected) ==
    LET Hits(got, want) ==
          IF HasRegisters(r.Platform)
          THEN {k \in 0..Len(claimed) :
                   got = FromDigestsSeeded(want, Listed(claimed, k))}
          ELSE {k \in {0} : got = want}
        First(ks) == {k \in ks : \A j \in ks : k <= j}
    IN  IF \E i \in 1..Len(claimed) : ~CanonicalEntry(claimed[i]) THEN {}
        ELSE UNION {First(Hits(got, want)) :
                        got \in Binding(r), want \in expected}

MatchBindingPrefix(r, anchor, claimed) ==
    matchBindingPrefix(r, claimed, expectedBinding(r.Platform, anchor, << >>))

MatchLaunchFileDigestPrefix(r, digest, claimed) ==
    matchBindingPrefix(r, claimed, bindingFromDigest(r.Platform, digest, << >>))

=============================================================================
