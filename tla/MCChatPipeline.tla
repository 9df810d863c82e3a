--------------------------- MODULE MCChatPipeline ---------------------------
(* Small instances of ChatPipeline for TLC. *)
EXTENDS ChatPipeline
CONSTANTS m1, m2, m3

\* m1 is what handle_message pushes, which is not complete; m2 has a conversation
\* and is pushed once more; m3 is not a JSON object.
MCMaxPush == (m1 :> 1) @@ (m2 :> 2) @@ (m3 :> 1)
=============================================================================
