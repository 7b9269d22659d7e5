----------------------------- MODULE CuckooMap -----------------------------
(***************************************************************************)
(* HashMapCuckoo (src/src/hashmap_cuckoo.hpp), with keys that a move       *)
(* copies, such as numbers.  A key has one bucket in each of two tables;   *)
(* an insertion takes the bucket and kicks its node out to the other       *)
(* table.  After MaxKicks kicks the node in hand has no place: the map is  *)
(* rehashed and the key that was to be inserted is tried again.            *)
(*                                                                         *)
(* One action is one kick, or one bucket that rehash takes a node from.    *)
(***************************************************************************)
EXTENDS Integers, FiniteSets

CONSTANTS
  Keys,
  NoKey,
  h1, h2,     \* the two hashes, [Keys -> Nat]
  Capacities, \* capacities a map is constructed with, powers of two
  Reserves,   \* arguments of reserve
  MaxKicks,   \* MAX_KICKS
  MaxKeys     \* bound: keys that are emplaced

ASSUME HashAssumption ==
  /\ h1 \in [Keys -> Nat] /\ h2 \in [Keys -> Nat]
  /\ NoKey \notin Keys
  /\ Capacities \subseteq Nat \ {0}
  /\ Reserves \subseteq Nat
  /\ MaxKicks \in Nat \ {0}

VARIABLES
  capacity, buckets1, buckets2, size, \* only the buckets with a node
  key,         \* the argument of emplace
  hand, in_buckets1, kicks, \* locals of emplace_no_rehash: its key and loop
  caller,      \* who called it: "emplace" or "rehash"
  old_buckets1, old_buckets2, old_capacity, i, table, \* locals of rehash
  pc           \* "idle", "kick" in emplace_no_rehash, "rehash"

map  == <<capacity, buckets1, buckets2, size>>
kick == <<hand, in_buckets1, kicks, caller>>
old  == <<old_buckets1, old_buckets2, old_capacity, i, table>>
vars == <<map, key, kick, old, pc>>

\* p after each turn of the loop; n turns are enough.
next_power_of_two(n) ==
  LET p[k \in 0 .. n] ==
        IF k = 0 THEN 1 ELSE IF p[k - 1] < n THEN 2 * p[k - 1] ELSE p[k - 1]
  IN  p[n]

\* A table after the optional in bucket b is assigned that of table t.
Store(t, b, k) == [c \in DOMAIN t \cup {b} |-> IF c = b THEN k ELSE t[c]]
Assign(t, b, u) ==
  IF b \in DOMAIN u THEN Store(t, b, u[b]) ELSE [c \in DOMAIN t \ {b} |-> t[c]]

Cleared(cap) ==
  /\ capacity' = cap
  /\ buckets1' = << >> /\ buckets2' = << >>
-----------------------------------------------------------------------------
(* Calls of emplace_no_rehash and of rehash.                               *)

InsertFor(who, k) ==
  /\ pc' = "kick"
  /\ caller' = who
  /\ hand' = k /\ in_buckets1' = TRUE /\ kicks' = 0

NotInserting == hand' = NoKey /\ in_buckets1' = TRUE /\ kicks' = 0 /\ caller' = "emplace"

\* Faulty variant: the nodes that are reinserted are counted again.
RestartedSize_Kept == size
RestartedSize == 0

\* The loop over the old buckets starts, with larger tables.
StartLoop ==
  /\ Cleared(2 * capacity)
  /\ size' = RestartedSize
  /\ i' = 0 /\ table' = 1
  /\ pc' = "rehash"
  /\ NotInserting

StartRehash ==
  /\ old_buckets1' = buckets1 /\ old_buckets2' = buckets2
  /\ old_capacity' = capacity
  /\ StartLoop

\* emplace returns; the locals of rehash are gone.
Idle == pc = "idle"
Return ==
  /\ pc' = "idle"
  /\ NotInserting
  /\ key' = NoKey
  /\ old_buckets1' = << >> /\ old_buckets2' = << >>
  /\ old_capacity' = 0 /\ i' = 0 /\ table' = 1

\* Faulty variant: the last bucket but one is the last.
NextBucket_ButLast ==
  IF table = 1 THEN table' = 2 /\ UNCHANGED i
               ELSE table' = 1 /\ i' = IF i + 2 >= old_capacity THEN old_capacity ELSE i + 1
\* The old bucket that rehash goes on with.
NextBucket ==
  IF table = 1 THEN table' = 2 /\ UNCHANGED i ELSE table' = 1 /\ i' = i + 1
-----------------------------------------------------------------------------
(* emplace.                                                                *)

Overloaded == (size + 1) * 10 >= capacity * 9

\* The caller has not emplaced the key before: emplace does not look for it.
Emplace(k) ==
  /\ Idle
  /\ key' = k
  /\ IF Overloaded
       THEN StartRehash
       ELSE InsertFor("emplace", k) /\ UNCHANGED <<map, old>>

\* Faulty variant: both tables are indexed by the first hash.
Bucket_OneHash == h1[hand] % capacity
Bucket == (IF in_buckets1 THEN h1[hand] ELSE h2[hand]) % capacity
Table == IF in_buckets1 THEN buckets1 ELSE buckets2

\* The key in hand is put into its bucket.
Put ==
  IF in_buckets1
    THEN buckets1' = Store(buckets1, Bucket, hand) /\ UNCHANGED buckets2
    ELSE buckets2' = Store(buckets2, Bucket, hand) /\ UNCHANGED buckets1

\* emplace_no_rehash works on references: what it has in hand at the end is
\* left in the old bucket, which is one of table 1 also for a node of table 2.
LeaveInOld == old_buckets1' = Store(old_buckets1, i, hand)

\* Faulty variant: a quarter of the kicks has to do.
MayKick_Few == 4 * kicks < MaxKicks
MayKick == kicks < MaxKicks

Place ==
  /\ pc = "kick" /\ MayKick
  /\ Bucket \notin DOMAIN Table
  /\ Put
  /\ size' = size + 1
  /\ IF caller = "emplace"
       THEN Return
       ELSE /\ pc' = "rehash" /\ NextBucket /\ LeaveInOld /\ NotInserting
            /\ UNCHANGED <<key, old_buckets2, old_capacity>>
  /\ UNCHANGED capacity

Kick ==
  /\ pc = "kick" /\ MayKick
  /\ Bucket \in DOMAIN Table
  /\ Put
  /\ hand' = Table[Bucket]
  /\ in_buckets1' = ~in_buckets1
  /\ kicks' = kicks + 1
  /\ UNCHANGED <<capacity, size, key, caller, old, pc>>

\* The key in hand has no place.  emplace rehashes, to try again with its
\* argument; rehash starts again.
GiveUp ==
  /\ pc = "kick" /\ ~MayKick
  /\ IF caller = "emplace"
       THEN StartRehash
       ELSE StartLoop /\ LeaveInOld /\ UNCHANGED <<old_buckets2, old_capacity>>
  /\ UNCHANGED key
-----------------------------------------------------------------------------
(* rehash.                                                                 *)

\* A node of the i-th bucket of table 1, then, assigned over it, of table 2.
TakeOld ==
  /\ pc = "rehash" /\ i < old_capacity
  /\ LET t == IF table = 1 THEN old_buckets1 ELSE old_buckets2
     IN  /\ old_buckets1' = Assign(old_buckets1, i, t)
         /\ IF i \in DOMAIN t
              THEN InsertFor("rehash", t[i]) /\ UNCHANGED <<i, table>>
              ELSE NextBucket /\ UNCHANGED <<pc, kick>>
  /\ UNCHANGED <<map, key, old_buckets2, old_capacity>>

\* emplace tries with its argument, the first time or again.
EndRehash ==
  /\ pc = "rehash" /\ i = old_capacity
  /\ InsertFor("emplace", key)
  /\ UNCHANGED <<map, key, old>>

\* size keeps its value, so that only an empty map may be reserved: reserve
\* drops the nodes.
Reserve(expected) ==
  /\ Idle
  /\ buckets1 = << >> /\ buckets2 = << >>
  /\ Cleared(next_power_of_two(IF expected = 0 THEN 1 ELSE (expected * 3) \div 2))
  /\ UNCHANGED <<size, key, kick, old, pc>>

find(k) ==
  \/ h1[k] % capacity \in DOMAIN buckets1 /\ buckets1[h1[k] % capacity] = k
  \/ h2[k] % capacity \in DOMAIN buckets2 /\ buckets2[h2[k] % capacity] = k

\* A lookup changes nothing; what it answers is FindExact.
Find == Idle /\ UNCHANGED vars
-----------------------------------------------------------------------------
Init ==
  /\ capacity \in Capacities
  /\ buckets1 = << >> /\ buckets2 = << >> /\ size = 0
  /\ key = NoKey
  /\ hand = NoKey /\ in_buckets1 = TRUE /\ kicks = 0 /\ caller = "emplace"
  /\ old_buckets1 = << >> /\ old_buckets2 = << >>
  /\ old_capacity = 0 /\ i = 0 /\ table = 1
  /\ pc = "idle"

\* The keys in the buckets of a table, from one on.
Nodes(t, from) == {t[b] : b \in {c \in DOMAIN t : c >= from}}
Stored == Nodes(buckets1, 0) \cup Nodes(buckets2, 0)

Next ==
  \/ \E k \in Keys \ Stored : Cardinality(Stored) < MaxKeys /\ Emplace(k)
  \/ Place \/ Kick \/ GiveUp
  \/ TakeOld \/ EndRehash
  \/ \E expected \in Reserves : Reserve(expected)
  \/ Find

Spec == Init /\ [][Next]_vars

-----------------------------------------------------------------------------
(* Properties.                                                             *)

\* Between two calls, find finds exactly the keys that are in the tables: no
\* node was kicked into a bucket of another hash or of an earlier capacity.
FindExact == Idle => \A k \in Keys : find(k) <=> k \in Stored

\* Wherever an insertion or a rehash was broken off, size counts the nodes in
\* the tables (emplace, rehash).
SizeExact ==
  size = Cardinality(DOMAIN buckets1) + Cardinality(DOMAIN buckets2)

\* The keys the map has been given and has not dropped: in the tables, in
\* hand, to be inserted after a rehash, and to be taken by it.
Held ==
  LET rehashing == pc = "rehash" \/ caller = "rehash"
      taken     == IF pc = "kick" THEN table ELSE table - 1
  IN  Stored \cup ({hand} \ {NoKey})
        \cup (IF rehashing
                THEN {key} \cup Nodes(old_buckets1, IF taken = 0 THEN i ELSE i + 1)
                           \cup Nodes(old_buckets2, IF taken = 2 THEN i + 1 ELSE i)
                ELSE {})

\* rehash never has to start again, which would insert what its references
\* left in the old buckets: what had a place has one in twice the buckets too,
\* and the kicks suffice to find it (rehash).
RehashSucceeds == caller = "rehash" => MayKick

\* No key that was given to emplace is dropped, by any kick or any rehash.
NothingLost == [][Held \subseteq Held']_vars

\* While the kicks suffice, none is: not by a kick, not by a rehash, and not
\* on the way from one to the other.
LostOnlyInGiveUp == [][Held \subseteq Held' \/ (pc = "kick" /\ ~MayKick)]_vars
=============================================================================
