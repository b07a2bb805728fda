------------------------------ MODULE Platform ------------------------------
(***************************************************************************)
(* teetypes.PlatformType and Family: which hardware a platform tag stands  *)
(* for, and what evidence from it carries.  A tag as spelled on the wire   *)
(* is [tag, canonical]: canonical is FALSE for a spelling that differs in  *)
(* case or surrounding space.                                              *)
(***************************************************************************)

Tags == {"snp", "tdx", "az-snp", "az-tdx", "gcp-snp", "gcp-tdx", "dstack", ""}

PlatformType == [tag : Tags, canonical : BOOLEAN]

NormalizePlatform(p) == [tag |-> p.tag, canonical |-> TRUE]

(* The family of a tag; "" is FamilyUnknown. *)
Family(p) ==
    LET tag == NormalizePlatform(p).tag
    IN  CASE tag \in {"snp", "az-snp", "gcp-snp"} -> "sev-snp"
          [] tag \in {"tdx", "az-tdx", "gcp-tdx"} -> "tdx"
          [] OTHER -> ""

HasVTPMQuote(p) == NormalizePlatform(p).tag \in {"az-snp", "az-tdx"}

HasRegisters(p) == Family(p) = "tdx"

=============================================================================
