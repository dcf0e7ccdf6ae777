----------------------------- MODULE StampTable -----------------------------
(***************************************************************************)
(* What the client needs of its table of modified times: a value for each  *)
(* file, which changes only by a put() for that very file, and which a     *)
(* crash of the client takes away.                                         *)
(***************************************************************************)
CONSTANTS
  Key,        (* files                                                     *)
  Stamp,      (* times and flags                                           *)
  NotFound    (* what get() returns for a file that was never put          *)

VARIABLE table

TableInit == table = [k \in Key |-> NotFound]

PutStamp(k, v) == table' = [table EXCEPT ![k] = v]

Forget == table' = [k \in Key |-> NotFound]

TableNext == Forget \/ \E k \in Key, v \in Stamp : PutStamp(k, v)

TableSpec == TableInit /\ [][TableNext]_table

=============================================================================
