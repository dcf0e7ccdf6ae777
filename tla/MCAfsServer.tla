---------------------------- MODULE MCAfsServer ----------------------------
(* Instances of AfsServer for TLC.                                         *)
EXTENDS AfsServer, TLC

CONSTANTS h1, h2, h3, i1, i2, b1, b2

(* Images of different lengths.                                            *)
Uneven == {<<b1>>, <<b2, b2>>}

(* No time of a file, the time of one, and a later one.                    *)
AnyJunk == {-1, 2, 1000}

SymThreads == Permutations(Handler) \cup Permutations(Inode)

=============================================================================
