------------------------------ MODULE MCWorker ------------------------------
(***************************************************************************)
(* Worker with small sets of callers.                                      *)
(***************************************************************************)
EXTENDS Worker

CONSTANTS u1, u2, r1, r2, r3

Body(r, u, b, m) == [request |-> r, user |-> u, build |-> b, mode |-> m]

(* Two bodies compete for r1; r2 names a vehicle of the inventory, which     *)
(* sometimes is not found; r3 asks for a runner nobody knows.                *)
AllBodies == {Body(r1, u1, {"task"}, "known"),
              Body(r1, u2, {"task"}, "known"),
              Body(r2, u2, {"task", "error"}, "known"),
              Body(r3, u1, {"task"}, "unknown")}

(* The first and the last of the states of models.py that a runner reports.  *)
SomePhases == <<"starting_vpn", "cleanup">>
=============================================================================
