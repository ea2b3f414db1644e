-------------------------- MODULE MCWebSocketFrame --------------------------
(* WebSocketFrame at the borders between its three size encodings. *)
EXTENDS WebSocketFrame

MCSizes   == {0, 1, 2, 3, 4, 125, 126, 127, 255, 256, 257,
              65528, 65529, 65532, 65533, 65535, 65536, 65537, 104857600, 104857601}
=============================================================================
