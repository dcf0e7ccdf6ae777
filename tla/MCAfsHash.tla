----------------------------- MODULE MCAfsHash -----------------------------
(* Instances of AfsHash for TLC.                                           *)
EXTENDS AfsHash

CONSTANTS t1, t2

Threads == Permutations(Thread)

(* Two keys that share a bucket, and one that does not.                    *)
TwoBuckets == [k \in Key |-> IF k = "c" THEN 2 ELSE 1]

(* Every update of one key, and a node before and beside it.               *)
SomePuts == {<<"a", "time">>, <<"a", "flag">>, <<"b", "flag">>, <<"c", "time">>}

(* A time, the flag, whose text is longer and begins with the time's, and  *)
(* what atol() makes of no text.                                           *)
Texts == [v \in Stored |-> CASE v = "time" -> <<"1">>
                            [] v = "flag" -> <<"1", "2">>
                            [] OTHER -> <<"0">>]

=============================================================================
