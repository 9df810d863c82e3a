---------------------------- MODULE MCRoomSocket ----------------------------
(* Small instances of RoomSocket for TLC. *)
EXTENDS RoomSocket
=============================================================================
