--------------------------- MODULE MCVoiceServer ---------------------------
(* VoiceServer on small instances. *)
EXTENDS VoiceServer
=============================================================================
