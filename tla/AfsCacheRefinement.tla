------------------------- MODULE AfsCacheRefinement -------------------------
(***************************************************************************)
(* AfsCache implements CloseToOpen, for one descriptor per machine, RPCs   *)
(* that neither fail nor are refused, and handlers of the file that do not *)
(* overlap.                                                                *)
(*                                                                         *)
(* The open takes effect when the server answers the RPC that decides it:  *)
(* the GETATTR whose time lets afs_OPEN keep the cached copy, or the FETCH. *)
(* The close of a written file takes effect when STORE opens the file: a   *)
(* client cannot see the server's copy empty before the write(), when no   *)
(* handler overlaps another.  This close is the client's RELEASE, which    *)
(* the kernel sends some time after the application's close() returned.    *)
(***************************************************************************)
EXTENDS AfsCache

(* The version that is published: while a STORE has the file truncated,    *)
(* that is the image it is about to write.                                 *)
Storing == {t \in Thread : Handled(t, "store", "write")}

Published == IF Storing = {} THEN file ELSE buf[CHOOSE t \in Storing : TRUE]

(* The reply on its way to t will let afs_OPEN keep the cached copy.       *)
Accepts(t) == Replied(t, "getattr") /\ reply[t].time <= stamp[host[t]]

(* The image t works on, as CloseToOpen sees it.                           *)
ViewOf(t) ==
  IF pc[t] = "open" \/ Accepts(t) THEN cache[host[t]]
  ELSE IF Replied(t, "fetch") THEN reply[t].data
  ELSE IF pc[t] = "install" \/ Waiting(t, "store") THEN buf[t]
  ELSE NoFile

(* The descriptors with modifications that are not stored.                 *)
WrittenBy ==
  {t \in Thread : \/ pc[t] = "open" /\ stamp[host[t]] = Modified
                  \/ Waiting(t, "store")}

Promise == INSTANCE CloseToOpen WITH
             Session <- Thread,
             Image   <- Data,
             Closed  <- NoFile,
             current <- Published,
             view    <- [t \in Thread |-> ViewOf(t)],
             written <- WrittenBy

(* Close-to-open consistency: every behaviour of the caching protocol is a *)
(* behaviour of CloseToOpen under the mapping above, as long as no handler *)
(* of the file overlaps another (the run overlap shows what server.cc,     *)
(* which takes no lock, does otherwise).                                   *)
ImplementsCloseToOpen ==
  Promise!AbsInit /\ [][Promise!AbsNext]_(Promise!absVars)

=============================================================================
