----------------------------- MODULE MCRoomHub -----------------------------
(* Small instances of RoomHub for TLC. *)
EXTENDS RoomHub

Symmetry == Permutations(Socks) \cup Permutations(Users)
MCMended == {"connect", "publish"}
=============================================================================
