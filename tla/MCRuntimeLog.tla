---------------------------- MODULE MCRuntimeLog ----------------------------
(* RuntimeLog on a small set of digests, for TLC. *)
EXTENDS RuntimeLog

=============================================================================
