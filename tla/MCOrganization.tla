--------------------------- MODULE MCOrganization ---------------------------
(* Organization for TLC: two overlapping requests, interchangeable names.    *)
EXTENDS Organization, TLC

Symmetry ==
    Permutations(Calls) \cup Permutations(Ids) \cup Permutations(Things)
        \cup Permutations(InvIds) \cup Permutations(Users) \cup Permutations(Names)
=============================================================================
