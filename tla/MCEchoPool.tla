----------------------------- MODULE MCEchoPool -----------------------------
(* EchoPool on small instances. *)
EXTENDS EchoPool
=============================================================================
