-------------------------- MODULE MCAudioSettings --------------------------
(* AudioSettings for model checking.  At first both branches have a vehicle   *)
(* n1; later b1 is gone and the vehicle of b2 has another address, or b1 no   *)
(* longer has the vehicle.  b1 has two aliases, its own name and a1, and b2   *)
(* none; B2 is another way to write b2.                                       *)
EXTENDS AudioSettings, TLC

CONSTANTS u1, u2, b1, b2, n1, ip1, ip2, a1, B2

Overlapping == (b1 :> (n1 :> ip1)) @@ (b2 :> (n1 :> ip2))
BranchGone == b2 :> (n1 :> ip1)
VehicleGone == (b1 :> (n1 :> None)) @@ (b2 :> (n1 :> ip2))

SomeNames == {b1, b2, a1, B2}
SomeFold == [name \in SomeNames |-> IF name = B2 THEN b2 ELSE name]
SomeAlias == [name \in SomeNames |-> IF name \in {a1, b1} THEN b1 ELSE None]

SomeInventories == {Overlapping, BranchGone, VehicleGone}

Symmetry == Permutations(Users)
=============================================================================
