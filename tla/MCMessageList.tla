---------------------------- MODULE MCMessageList ----------------------------
(* MessageList for TLC.                                                     *)
EXTENDS MessageList
=============================================================================
