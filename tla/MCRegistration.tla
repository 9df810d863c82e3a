---------------------------- MODULE MCRegistration ----------------------------
(* Small instances of Registration for TLC.  No symmetry: a liveness property  *)
(* is checked with the invariants.                                            *)
EXTENDS Registration
=============================================================================
