---------------------------- MODULE MCRoomUplink -----------------------------
(* Small instances of RoomUplink: two rooms and one ordinary session.        *)
EXTENDS RoomUplink, TLC

CONSTANTS roomA, roomB, other

MCSessions == {roomA, roomB, other}
MCRooms == {roomA, roomB}
MCKinds == {"typed", "quote"}
MCSymmetry == Permutations(MCRooms)
=============================================================================
