---------------------------- MODULE HopscotchMap ----------------------------
(***************************************************************************)
(* HashMapHopscotch (src/src/hashmap_hopscotch.hpp).  A node lies within   *)
(* the neighbourhood of its home, and hop_info of the home says where.     *)
(* emplace takes the first free bucket and brings it nearer by moving      *)
(* nodes into it; when that fails, or the neighbourhood is full, it        *)
(* rehashes and starts again.                                              *)
(*                                                                         *)
(* One action is one turn of the loop that moves nodes, or what comes      *)
(* before or after it.  calls is the stack of the calls of emplace that    *)
(* rehash has still to make, and of the one that called rehash.            *)
(***************************************************************************)
EXTENDS Integers, Sequences, FiniteSets

CONSTANTS
  Keys,
  NoKey,
  hash,       \* hasher(key), [Keys -> Nat]
  Capacities, \* capacities a map is constructed with, powers of two
  Reserves,   \* arguments of reserve
  MaxKeys     \* bound: keys that are emplaced

ASSUME HashAssumption ==
  /\ hash \in [Keys -> Nat]
  /\ NoKey \notin Keys
  /\ Capacities \subseteq Nat \ {0}
  /\ Reserves \subseteq Nat

VARIABLES
  capacity, neighbours, size,
  buckets,     \* only those with a node
  hop_info,    \* of each bucket, the distances of its nodes: the bits set
  calls,       \* calls of emplace to be made: [key, checked]
  cur_key, free \* of the call in its loop: its key and the free bucket j

map  == <<capacity, neighbours, size, buckets, hop_info>>
loop == <<cur_key, free>>
vars == <<map, calls, loop>>

Idle == calls = <<>> /\ cur_key = NoKey
InLoop == cur_key # NoKey

\* p after each turn of the loop; n turns are enough.
next_power_of_two(n) ==
  LET p[k \in 0 .. n] ==
        IF k = 0 THEN 1 ELSE IF p[k - 1] < n THEN 2 * p[k - 1] ELSE p[k - 1]
  IN  p[n]

compute_neighborhood(cap) ==
  CASE cap < 2048    -> 4
    [] cap >= 2048 /\ cap < 2 ^ 14    -> 8
    [] cap >= 2 ^ 14 /\ cap < 2 ^ 18  -> 16
    [] cap >= 2 ^ 18 /\ cap < 2 ^ 22  -> 32
    [] OTHER         -> 64

Home(key) == hash[key] % capacity
Distance(from, to) == (to - from) % capacity
-----------------------------------------------------------------------------
(* rehash.                                                                 *)

\* The keys in the order in which rehash takes them from the buckets.
KeysInOrder ==
  LET upto[n \in 0 .. capacity] ==
        IF n = 0 THEN <<>>
        ELSE IF n - 1 \in DOMAIN buckets THEN Append(upto[n - 1], buckets[n - 1])
                                         ELSE upto[n - 1]
  IN  upto[capacity]

Reinserted ==
  [i \in DOMAIN KeysInOrder |-> [key |-> KeysInOrder[i], checked |-> FALSE]]

\* An empty map with cap buckets.
Cleared(cap) ==
  /\ capacity' = cap
  /\ neighbours' = compute_neighborhood(cap)
  /\ buckets' = << >>
  /\ hop_info' = [b \in 0 .. cap - 1 |-> {}]

\* Faulty variant: 16 buckets are never exceeded.
Grown_Capped == IF capacity < 16 THEN 2 * capacity ELSE capacity
Grown == 2 * capacity

\* The nodes are emplaced again before the remaining calls.
RehashBefore(remaining) ==
  /\ calls' = Reinserted \o remaining
  /\ Cleared(Grown)
  /\ size' = 0
-----------------------------------------------------------------------------
(* emplace, up to its loop.                                                *)

\* The caller has not emplaced the key before: emplace does not look for it.
Emplace(key) ==
  /\ Idle
  /\ calls' = <<[key |-> key, checked |-> FALSE]>>
  /\ UNCHANGED <<map, loop>>

AtCall == calls # <<>> /\ ~InLoop

\* The next call has not tested the load yet, and it is too high.
Overloaded == ~Head(calls).checked /\ (size + 1) * 4 >= capacity * 3

Full(home) == hop_info[home] = 0 .. neighbours - 1

RehashLoad ==
  /\ AtCall /\ Overloaded
  /\ RehashBefore(<<[Head(calls) EXCEPT !.checked = TRUE]>> \o Tail(calls))
  /\ UNCHANGED loop

\* The call starts again after the rehash.
RehashFull ==
  /\ AtCall /\ ~Overloaded
  /\ Full(Home(Head(calls).key))
  /\ RehashBefore(<<[Head(calls) EXCEPT !.checked = FALSE]>> \o Tail(calls))
  /\ UNCHANGED loop

\* The first free bucket from the home on.
FirstFree(home) ==
  CHOOSE b \in 0 .. capacity - 1 :
    /\ b \notin DOMAIN buckets
    /\ \A c \in 0 .. capacity - 1 :
         Distance(home, c) < Distance(home, b) => c \in DOMAIN buckets

FindFree ==
  /\ AtCall /\ ~Overloaded
  /\ ~Full(Home(Head(calls).key))
  /\ calls' = Tail(calls)
  /\ cur_key' = Head(calls).key
  /\ free' = FirstFree(Home(Head(calls).key))
  /\ UNCHANGED map
-----------------------------------------------------------------------------
(* The loop of emplace.                                                    *)

Near == Distance(Home(cur_key), free) < neighbours

\* Of the bucket offset places before the free one, the node at this bit.
MoveHome(m) == (free - m.offset) % capacity
MoveFrom(m) == (free - m.offset + m.bit) % capacity

\* The node stays in its neighbourhood, and comes from before the free bucket.
Allowed(m) ==
  /\ m.bit \in hop_info[MoveHome(m)]
  /\ Distance(MoveFrom(m), free) < neighbours

Moves ==
  {m \in [offset : 1 .. neighbours - 1, bit : 0 .. neighbours - 1] : Allowed(m)}

\* The largest offset is tried first, and of its bits the smallest.
FirstMove ==
  CHOOSE m \in Moves :
    \A n \in Moves : n.offset < m.offset \/ (n.offset = m.offset /\ n.bit >= m.bit)

\* Faulty variant: the old bit is not removed.
Moved_KeepsBit(hops, m) == hops \cup {Distance(MoveHome(m), free)}
Moved(hops, m) == (hops \ {m.bit}) \cup {Distance(MoveHome(m), free)}

Displace ==
  /\ InLoop /\ ~Near
  /\ Moves # {}
  /\ LET m == FirstMove
         y == MoveFrom(m)
     IN  /\ buckets' = [b \in (DOMAIN buckets \cup {free}) \ {y} |->
                          IF b = free THEN buckets[y] ELSE buckets[b]]
         /\ hop_info' = [hop_info EXCEPT ![MoveHome(m)] = Moved(@, m)]
         /\ free' = y
  /\ UNCHANGED <<capacity, neighbours, size, calls, cur_key>>

\* Faulty variant: the call does not start again after the rehash.
Retried_Not == <<>>
Retried == <<[key |-> cur_key, checked |-> FALSE]>>

RehashStuck ==
  /\ InLoop /\ ~Near
  /\ Moves = {}
  /\ RehashBefore(Retried \o calls)
  /\ cur_key' = NoKey /\ free' = 0

Place ==
  /\ InLoop /\ Near
  /\ buckets' = [b \in DOMAIN buckets \cup {free} |->
                   IF b = free THEN cur_key ELSE buckets[b]]
  /\ hop_info' = [hop_info EXCEPT ![Home(cur_key)] =
                    @ \cup {Distance(Home(cur_key), free)}]
  /\ size' = size + 1
  /\ cur_key' = NoKey /\ free' = 0
  /\ UNCHANGED <<capacity, neighbours, calls>>
-----------------------------------------------------------------------------
(* reserve and find.                                                       *)

\* size keeps its value, so that only an empty map may be reserved: reserve
\* drops the nodes.
Reserve(expected) ==
  /\ Idle
  /\ buckets = << >>
  /\ Cleared(next_power_of_two((expected * 3) \div 2))
  /\ UNCHANGED <<size, calls, loop>>

\* Faulty variant: the last bit is not looked at.
find_ButLast(key) ==
  \E bit \in hop_info[Home(key)] \ {neighbours - 1} :
    LET j == (Home(key) + bit) % capacity
    IN  j \in DOMAIN buckets /\ buckets[j] = key
find(key) ==
  \E bit \in hop_info[Home(key)] :
    LET j == (Home(key) + bit) % capacity
    IN  j \in DOMAIN buckets /\ buckets[j] = key

\* A lookup changes nothing; what it answers is FindExact.
Find == Idle /\ UNCHANGED vars
-----------------------------------------------------------------------------
Init ==
  /\ capacity \in Capacities
  /\ neighbours = compute_neighborhood(capacity)
  /\ buckets = << >>
  /\ hop_info = [b \in 0 .. capacity - 1 |-> {}]
  /\ size = 0
  /\ calls = <<>>
  /\ cur_key = NoKey /\ free = 0

Stored == {buckets[b] : b \in DOMAIN buckets}
Held == Stored \cup {calls[i].key : i \in DOMAIN calls} \cup ({cur_key} \ {NoKey})

Running ==
  RehashLoad \/ RehashFull \/ FindFree \/ Displace \/ RehashStuck \/ Place

Next ==
  \/ \E key \in Keys \ Stored : Cardinality(Stored) < MaxKeys /\ Emplace(key)
  \/ \E expected \in Reserves : Reserve(expected)
  \/ Find
  \/ Running

Spec == Init /\ [][Next]_vars

\* emplace is sequential code: once called it runs on.
FairSpec == Spec /\ WF_vars(Running)
-----------------------------------------------------------------------------
(* Properties.                                                             *)

\* After every move of a node, in the middle of emplace too: the bits of a
\* bucket are set for exactly the nodes whose home it is (emplace).
HopExact ==
  \A b \in 0 .. capacity - 1 : \A d \in 0 .. neighbours - 1 :
    LET j == (b + d) % capacity
    IN  d \in hop_info[b] <=> d < capacity /\ j \in DOMAIN buckets /\ Home(buckets[j]) = b

\* Between two calls, find finds exactly the keys that are in the map, though
\* it looks at no bucket but those whose bits are set (find).
FindExact == Idle => \A key \in Keys : find(key) <=> key \in Stored

\* The map is a growing set (IndexSpec), through every move and rehash.
Index == INSTANCE IndexSpec WITH keys <- Held
ImplementsIndex == Index!Spec

\* Every call of emplace returns, though it may rehash and start again, if
\* no more keys than a neighbourhood holds share all bits of their hash.
EmplaceReturns == ~Idle ~> Idle
=============================================================================
