--------------------------- MODULE MCConversations ---------------------------
(* Conversations for TLC: two overlapping requests, interchangeable names.   *)
EXTENDS Conversations, TLC

Symmetry ==
    Permutations(Calls) \cup Permutations(LabelIds) \cup Permutations(Names) \cup Permutations(Members)
=============================================================================
