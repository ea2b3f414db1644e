-------------------------- MODULE MCVoiceChatClient --------------------------
(* VoiceChatClient on small instances. *)
EXTENDS VoiceChatClient
=============================================================================
