----------------------------- MODULE IndexSpec -----------------------------
(***************************************************************************)
(* What the three hash maps promise: a set of keys that only grows, one    *)
(* key with every emplace, whatever is moved or rehashed on the way.       *)
(***************************************************************************)
CONSTANT Keys

VARIABLE keys

Init == keys = {}

Emplace(key) ==
  /\ key \notin keys
  /\ keys' = keys \cup {key}

Next == \E key \in Keys : Emplace(key)

Spec == Init /\ [][Next]_keys
=============================================================================
