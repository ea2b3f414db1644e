------------------------- MODULE MCWebSocketServer -------------------------
(* WebSocketServer on small instances. *)
EXTENDS WebSocketServer
=============================================================================
