----------------------------- MODULE MCAfsCache -----------------------------
(* Instances of AfsCache for TLC.                                          *)
EXTENDS AfsCache, TLC

CONSTANTS c1, c2, t1, t2, b1, b2

(* One descriptor on each of two machines.                                 *)
HostOneEach == (t1 :> c1) @@ (t2 :> c2)

(* Two descriptors on one machine.                                         *)
HostShared == (t1 :> c1) @@ (t2 :> c1)

SymBlock == Permutations(Block)

=============================================================================
