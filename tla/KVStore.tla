------------------------------ MODULE KVStore ------------------------------
(***************************************************************************)
(* What the database promises its client (src/include/Database.hpp): a map *)
(* from integer keys to values.  put overwrites, del removes, scan answers *)
(* with the keys of a closed interval that are present, and get is the     *)
(* scan of the interval [k, k] (Database.cpp:19-35).  The promise ends     *)
(* with the DB object: the next one, of this process or of a later one,    *)
(* starts empty, since no constructor reads a file.                        *)
(*                                                                         *)
(* `call' is the last call with its answer.  It makes a call that has no   *)
(* effect visible: without it, a lost put would look like a stutter.       *)
(***************************************************************************)
EXTENDS Integers, Functions

CONSTANTS Key,          \* the keys clients use, integers
          PutValue      \* the values clients put

VARIABLES kv,           \* the present keys, each with its value
          call          \* the last call and its answer

kvVars == <<kv, call>>

Init == /\ kv = [k \in {} |-> {}]
        /\ call = [op |-> "none"]

(* A map with k mapped to v, and the part of a map from lo to hi.          *)
Assigned(map, k, v) == [x \in DOMAIN map \cup {k} |-> IF x = k THEN v ELSE map[x]]

Between(map, lo, hi) == Restrict(map, {k \in DOMAIN map : lo <= k /\ k <= hi})

Put(k, v) ==
  /\ call' = [op |-> "put", key |-> k, value |-> v]
  /\ kv' = Assigned(kv, k, v)

Del(k) ==
  /\ call' = [op |-> "del", key |-> k]
  /\ kv' = Restrict(kv, DOMAIN kv \ {k})

Scan(lo, hi) ==
  /\ call' = [op |-> "scan", lo |-> lo, hi |-> hi, found |-> Between(kv, lo, hi)]
  /\ UNCHANGED kv

(* One DB object goes, however it goes, and a new one comes.               *)
Reopen ==
  /\ call' = [op |-> "open"]
  /\ kv' = [k \in {} |-> {}]

Next == \/ \E k \in Key, v \in PutValue : Put(k, v)
        \/ \E k \in Key : Del(k)
        \/ \E lo, hi \in Key : lo <= hi /\ Scan(lo, hi)
        \/ Reopen

Spec == Init /\ [][Next]_kvVars
=============================================================================
