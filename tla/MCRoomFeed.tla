----------------------------- MODULE MCRoomFeed ------------------------------
(* Instances of RoomFeed for TLC.                                            *)
EXTENDS RoomFeed

MCMentions == {2, 3}
MCEverything == {"push", "page", "members", "open", "whoami", "resolve",
                 "throw"}
MCPush == {"push"}
=============================================================================
