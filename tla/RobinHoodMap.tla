---------------------------- MODULE RobinHoodMap ----------------------------
(***************************************************************************)
(* HashMapRobinhood (src/src/hashmap_robinhood.hpp).  A node keeps the     *)
(* length of the probe that placed it (PSL); an insertion displaces nodes  *)
(* with a smaller one, and find gives up at the first such node.  A        *)
(* displaced node goes on with the probe of the key that displaced it, not *)
(* with its own, so that PSL is not its distance from home.                *)
(*                                                                         *)
(* One action is one turn of the loop of emplace.  rehash calls emplace    *)
(* for every node, which may call rehash: calls is the stack of the calls  *)
(* still to be made, and each of them is made on the buckets as they are   *)
(* then.  A value travels with its key and is left out.                    *)
(***************************************************************************)
EXTENDS Integers, Sequences, FiniteSets

CONSTANTS
  Keys,
  NoKey,
  hash,       \* mix_hash(hasher(key)), [Keys -> Nat]
  Capacities, \* capacities a map is constructed with, powers of two
  Reserves,   \* arguments of reserve
  MaxKeys     \* bound: keys that are emplaced

ASSUME HashAssumption ==
  /\ hash \in [Keys -> Nat]
  /\ NoKey \notin Keys
  /\ Capacities \subseteq Nat \ {0}
  /\ Reserves \subseteq Nat

VARIABLES
  capacity, buckets, size, max_PSL, \* buckets: only those with a node
  calls,               \* calls of emplace to be made: [key, checked]
  cur_key, index, PSL  \* locals of the call of emplace in its loop

map  == <<capacity, buckets, size, max_PSL>>
loop == <<cur_key, index, PSL>>
vars == <<map, calls, loop>>

Node == [key : Keys, PSL : Nat]

Idle == calls = <<>> /\ cur_key = NoKey
InLoop == cur_key # NoKey

\* p after each turn of the loop; n turns are enough.
next_power_of_two(n) ==
  LET p[k \in 0 .. n] ==
        IF k = 0 THEN 1 ELSE IF p[k - 1] < n THEN 2 * p[k - 1] ELSE p[k - 1]
  IN  p[n]

\* The node in a bucket, empty or not.
Store(bucket, node) ==
  [b \in DOMAIN buckets \cup {bucket} |-> IF b = bucket THEN node ELSE buckets[b]]

\* The bucket looked at, in emplace and, for its p-th probe, in find.
Here == (index + PSL) % capacity
Probed(key, p) == (hash[key] + p) % capacity

Larger(a, b) == IF a < b THEN b ELSE a
-----------------------------------------------------------------------------
(* emplace and rehash.                                                     *)

\* The caller has not emplaced the key before: emplace does not look for it.
Emplace(key) ==
  /\ Idle
  /\ calls' = <<[key |-> key, checked |-> FALSE]>>
  /\ UNCHANGED <<map, loop>>

\* Faulty variant: the load factor is exceeded when the map is full.
Overloaded_Full == size > capacity
Overloaded == (size + 1) * 4 >= capacity * 3

\* The next call, before its loop: the load has not been tested yet and is
\* too high.
MustRehash == ~Head(calls).checked /\ Overloaded

\* The keys in the order in which rehash takes them from the buckets.
KeysInOrder ==
  LET upto[n \in 0 .. capacity] ==
        IF n = 0 THEN <<>>
        ELSE IF n - 1 \in DOMAIN buckets THEN Append(upto[n - 1], buckets[n - 1].key)
                                         ELSE upto[n - 1]
  IN  upto[capacity]

\* Faulty variant: the loop ends before the last node.
Reinserted_ButLast ==
  [i \in 1 .. Len(KeysInOrder) - 1 |-> [key |-> KeysInOrder[i], checked |-> FALSE]]
Reinserted ==
  [i \in DOMAIN KeysInOrder |-> [key |-> KeysInOrder[i], checked |-> FALSE]]

\* Faulty variant: the nodes that are reinserted are counted again.
RestartedSize_Kept == size
RestartedSize == 0

Rehash ==
  /\ calls # <<>> /\ ~InLoop
  /\ MustRehash
  /\ calls' = Reinserted \o <<[Head(calls) EXCEPT !.checked = TRUE]>> \o Tail(calls)
  /\ capacity' = 2 * capacity
  /\ size' = RestartedSize
  /\ max_PSL' = 0
  /\ buckets' = << >>
  /\ UNCHANGED loop

BeginLoop ==
  /\ calls # <<>> /\ ~InLoop
  /\ ~MustRehash
  /\ calls' = Tail(calls)
  /\ cur_key' = Head(calls).key
  /\ index' = hash[Head(calls).key] % capacity
  /\ PSL' = 0
  /\ UNCHANGED map

Place ==
  /\ InLoop
  /\ Here \notin DOMAIN buckets
  /\ buckets' = Store(Here, [key |-> cur_key, PSL |-> PSL])
  /\ size' = size + 1
  /\ max_PSL' = Larger(PSL, max_PSL)
  /\ cur_key' = NoKey /\ index' = 0 /\ PSL' = 0
  /\ UNCHANGED <<capacity, calls>>

\* Faulty variant: a node with an equal PSL is displaced as well.
Displaces_Equal == Here \in DOMAIN buckets /\ PSL >= buckets[Here].PSL
Displaces == Here \in DOMAIN buckets /\ PSL > buckets[Here].PSL

AfterSwap(node) == node.PSL + 1

\* index remains the home of the key that was emplaced.
Swap ==
  /\ InLoop
  /\ Displaces
  /\ buckets' = Store(Here, [key |-> cur_key, PSL |-> PSL])
  /\ cur_key' = buckets[Here].key
  /\ PSL' = AfterSwap(buckets[Here])
  /\ max_PSL' = Larger(AfterSwap(buckets[Here]), max_PSL)
  /\ UNCHANGED <<capacity, size, calls, index>>

Step ==
  /\ InLoop
  /\ Here \in DOMAIN buckets /\ ~Displaces
  /\ PSL' = PSL + 1
  /\ UNCHANGED <<map, calls, cur_key, index>>

\* size and max_PSL keep their values, so that only an empty map may be
\* reserved: reserve drops the nodes.
Reserve(expected) ==
  /\ Idle
  /\ buckets = << >>
  /\ capacity' = next_power_of_two((expected * 3) \div 2)
  /\ UNCHANGED <<buckets, size, max_PSL, calls, loop>>
-----------------------------------------------------------------------------
(* find.                                                                   *)

\* find comes to the p-th probe: none before it is empty or has a shorter PSL.
Reaches(key, p) ==
  \A q \in 0 .. p - 1 :
    /\ Probed(key, q) \in DOMAIN buckets
    /\ buckets[Probed(key, q)].PSL >= q

find(key) ==
  \E p \in 0 .. max_PSL :
    /\ Reaches(key, p)
    /\ Probed(key, p) \in DOMAIN buckets
    /\ buckets[Probed(key, p)].key = key

\* A lookup changes nothing; what it answers is FindExact.
Find == Idle /\ UNCHANGED vars
-----------------------------------------------------------------------------
Init ==
  /\ capacity \in Capacities
  /\ buckets = << >> /\ size = 0 /\ max_PSL = 0
  /\ calls = <<>>
  /\ cur_key = NoKey /\ index = 0 /\ PSL = 0

Stored == {buckets[b].key : b \in DOMAIN buckets}
Held == Stored \cup {calls[i].key : i \in DOMAIN calls} \cup ({cur_key} \ {NoKey})

Running == Rehash \/ BeginLoop \/ Place \/ Swap \/ Step

Next ==
  \/ \E key \in Keys \ Stored : Cardinality(Stored) < MaxKeys /\ Emplace(key)
  \/ \E expected \in Reserves : Reserve(expected)
  \/ Find
  \/ Running

Spec == Init /\ [][Next]_vars
-----------------------------------------------------------------------------
(* Properties.                                                             *)

\* Between two calls, find finds exactly the keys that are in the map, though
\* it gives up at the first node with a shorter PSL and after max_PSL probes,
\* and though a displaced node's PSL is not its distance from home (find).
FindExact == Idle => \A key \in Keys : find(key) <=> key \in Stored

\* size counts the nodes, and no key is there twice, in a bucket, in the hand or in
\* a call still to be made, at any point of displacements and rehashes (emplace,
\* rehash).  That none is dropped is ImplementsIndex.
SizeExact ==
  size + Len(calls) + (IF InLoop THEN 1 ELSE 0) = Cardinality(Held)

\* The loop of emplace ends: while a key looks for a bucket there is one, and
\* no probe comes around to its first bucket again, not even one that goes on
\* with a displaced node.
ProbeEnds ==
  InLoop => Cardinality(DOMAIN buckets) < capacity /\ PSL < capacity

\* The map is a growing set (IndexSpec), through every displacement and rehash.
Index == INSTANCE IndexSpec WITH keys <- Held
ImplementsIndex == Index!Spec

=============================================================================
