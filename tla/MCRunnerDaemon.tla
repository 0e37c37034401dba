--------------------------- MODULE MCRunnerDaemon ---------------------------
(***************************************************************************)
(* RunnerDaemon with all the states of models.py that a runner can report. *)
(***************************************************************************)
EXTENDS RunnerDaemon

AllPhases == <<"starting_vpn", "vpn_connected", "checking_vehicle",
               "running_operation", "collecting_result", "cleanup">>
=============================================================================
