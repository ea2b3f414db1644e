--------------------------- MODULE MCRoomManager ---------------------------
(* RoomManager on small instances: the clients are interchangeable. *)
EXTENDS RoomManager, TLC

Symmetry == Permutations(Ids)
=============================================================================
