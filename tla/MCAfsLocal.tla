----------------------------- MODULE MCAfsLocal -----------------------------
(* Instances of AfsLocal for TLC.                                          *)
EXTENDS AfsLocal, TLC

CONSTANTS t1, t2, t3

Threads == Permutations(Thread)

(* The histories are never forgotten, and RestartIsSafe and                *)
(* OnlyWholeFilesAreStored ask for Undisturbed: nothing of them is lost by *)
(* not going on from other states.  The other two properties hold there    *)
(* as well, by LocalTypeCorrect and LeakIsOnePerCall of AfsLocalProofs.    *)
StillUndisturbed == Undisturbed

=============================================================================
