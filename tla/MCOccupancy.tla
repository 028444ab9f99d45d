----------------------------- MODULE MCOccupancy ----------------------------
(* Instances of Occupancy for TLC.                                          *)
EXTENDS Occupancy, TLC

CONSTANTS t1, t2, t3

ThreeSizes == (t1 :> 1) @@ (t2 :> 1) @@ (t3 :> 2)
TwoSizes == (t1 :> 1) @@ (t2 :> 2)
=============================================================================
