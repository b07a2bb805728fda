----------------------------- MODULE MCJournal -----------------------------
(* Journal on small sets of digests, for TLC. *)
EXTENDS Journal, TLC

DigestSymmetry == Permutations(Digests)

=============================================================================
