---------------------------- MODULE MCSupervisor -----------------------------
(* Instances of Supervisor for TLC.                                          *)
EXTENDS Supervisor

MCTwoRespawns == {"r1", "r2"}
MCAllCommands == {"start", "stop", "restart", "reload", "rebuild"}
MCAllFaults == {"early", "adopted", "signal", "owner", "fetch", "build"}
MCNoSignal == MCAllFaults \ {"signal"}
=============================================================================
