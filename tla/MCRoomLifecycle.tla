--------------------------- MODULE MCRoomLifecycle ---------------------------
(* Small instances of RoomLifecycle.                                         *)
EXTENDS RoomLifecycle

CONSTANTS mention, never, m1, m2

MCRooms == {1, 2}
MCPasses == {1, 2}
MCInitial == {[policy |-> mention, model |-> m1]}
MCFaults == {"list", "resolve", "create", "select", "restore", "restart", "user"}
MCSelectFails == {"select"}
=============================================================================
