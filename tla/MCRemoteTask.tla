---------------------------- MODULE MCRemoteTask ----------------------------
(***************************************************************************)
(* RemoteTask with two of the phases that a runner can report.             *)
(***************************************************************************)
EXTENDS RemoteTask

SomePhases == <<"starting_vpn", "running_operation">>
=============================================================================
