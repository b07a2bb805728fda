--------------------------- MODULE RuntimeMeasure ---------------------------
(***************************************************************************)
(* The measurement conventions of package runtimemeasure: what a guest     *)
(* extends into its runtime measurement register, and what a verifier      *)
(* folds to compare with it.                                               *)
(*                                                                         *)
(* Hashing is symbolic.  SHA-384 is taken to be collision free, so a hash  *)
(* is the record of what was hashed and a register value, which is         *)
(* SHA384(SHA384(... (0 || e1) ...) || en), is the sequence <<e1, .., en>> *)
(* of the events folded in since boot: two folds are equal exactly when    *)
(* the sequences are.                                                      *)
(***************************************************************************)
EXTENDS Naturals, Sequences, FiniteSets

CONSTANTS
    Digests,    \* canonical "sha256:<64-hex>" image digests
    None        \* no value

ASSUME DigestsFinite == IsFiniteSet(Digests)
ASSUME NoneIsNoDigest == None \notin Digests

(* A register at guest boot. *)
Zero == << >>

Event(canonicalDigest) == [sha384 |-> canonicalDigest]

Extend(reg, event) == Append(reg, event)

(* The loop over Extend(reg, Event(d)), as the sequence it builds. *)
FromDigestsSeeded(seed, canonicalDigests) ==
    seed \o [i \in 1..Len(canonicalDigests) |-> Event(canonicalDigests[i])]

(* The register as it reads back on a guest launched with these anchor     *)
(* bytes and no workload extend.                                           *)
Seed(anchor) == Extend(Zero, [sha384 |-> anchor])

(* What a launcher commits as HOSTDATA for these anchor bytes. *)
HostData(anchor) == [sha256 |-> anchor]

-----------------------------------------------------------------------------
(* An image reference, by how it is spelled: a bare digest, "name@digest", *)
(* "@digest" with an empty name, or anything not pinned to a lowercase     *)
(* sha256 (a tag, another algorithm, uppercase or short hex).              *)
Refs == [form : {"bare", "pinned", "noname", "unpinned"}, digest : Digests]

(* The canonical digest of a reference, None where the code errors. *)
CanonicalDigest(ref) ==
    IF ref.form \in {"bare", "pinned"} THEN ref.digest ELSE None

-----------------------------------------------------------------------------
(* The digests whose event a register value folds in. *)
Held(reg) == {d \in Digests : \E i \in 1..Len(reg) : reg[i] = Event(d)}

=============================================================================
