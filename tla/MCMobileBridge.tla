---------------------------- MODULE MCMobileBridge ---------------------------
(* Small instances of MobileBridge: tickets and sockets as numbers, enough   *)
(* that a fresh one exists in every reachable state.                         *)
EXTENDS MobileBridge

CONSTANTS NTickets, NSockets, NAttempts, NRotations

MCTickets == 1..NTickets
MCSockets == 1..NSockets
MCAttempts == 1..NAttempts
MCRotations == 1..NRotations
(* Connects and reconnects by itself, or only on the user's command. *)
MCConfigs == {[connect |-> TRUE, reconnect |-> TRUE], [connect |-> FALSE, reconnect |-> FALSE]}
=============================================================================
