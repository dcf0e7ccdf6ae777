--------------------------- MODULE MCAfsNamespace ---------------------------
(* Instances of AfsNamespace for TLC.                                      *)
EXTENDS AfsNamespace, TLC

CONSTANTS c1, c2

Machines == Permutations(Client)

(* A directory in the root, a file in it, and a name beside it.            *)
SmallTree == [p \in Path |-> IF p = "d/f" THEN "d" ELSE Root]

=============================================================================
