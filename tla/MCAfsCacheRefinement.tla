------------------------ MODULE MCAfsCacheRefinement ------------------------
(* Instances of AfsCacheRefinement for TLC.                                *)
EXTENDS AfsCacheRefinement, TLC

CONSTANTS c1, c2, c3, t1, t2, t3, b1, b2

(* One descriptor on each of three machines.                               *)
HostOneEach == (t1 :> c1) @@ (t2 :> c2) @@ (t3 :> c3)

=============================================================================
