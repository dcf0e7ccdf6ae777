---------------------------- MODULE CloseToOpen ----------------------------
(***************************************************************************)
(* What an AFS-like file system promises the applications that share a     *)
(* file: a descriptor works on the version that was current at some        *)
(* instant of the open() call, nobody else sees what is written through it *)
(* until it is closed, and closing a descriptor that was written makes its *)
(* whole image the current version, at one instant of the close.           *)
(***************************************************************************)
EXTENDS Sequences

CONSTANTS
  Session,    (* descriptors                                               *)
  Image,      (* possible contents of the file                             *)
  Closed      (* not an image: the descriptor is closed                    *)

VARIABLES
  current,    (* the published version                                     *)
  view,       (* view[s]: the image s works on, or Closed                  *)
  written     (* the sessions that were written and are not closed         *)

absVars == <<current, view, written>>

AbsInit ==
  /\ current \in Image
  /\ view = [s \in Session |-> Closed]
  /\ written = {}

OpenSession(s) ==
  /\ view[s] = Closed
  /\ view' = [view EXCEPT ![s] = current]
  /\ UNCHANGED <<current, written>>

WriteSession(s) ==
  /\ view[s] # Closed
  /\ view'[s] \in Image
  /\ view' = [view EXCEPT ![s] = view'[s]]
  /\ written' = written \cup {s}
  /\ UNCHANGED current

(* A session that was only read leaves the current version alone.          *)
CloseSession(s) ==
  /\ view[s] # Closed
  /\ view' = [view EXCEPT ![s] = Closed]
  /\ written' = written \ {s}
  /\ current' = IF s \in written THEN view[s] ELSE current

AbsNext == \E s \in Session :
             OpenSession(s) \/ WriteSession(s) \/ CloseSession(s)

AbsSpec == AbsInit /\ [][AbsNext]_absVars

=============================================================================
