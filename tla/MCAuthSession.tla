---------------------------- MODULE MCAuthSession ----------------------------
(* Small instances of AuthSession for TLC. *)
EXTENDS AuthSession, TLC

Symmetry == Permutations(Users) \cup Permutations(Orgs) \cup Permutations(Requests)
=============================================================================
