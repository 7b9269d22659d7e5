-------------------------- MODULE HashMaps_proofs --------------------------
(***************************************************************************)
(* Proofs about the three hash maps for any keys, any hash and any         *)
(* sequence of emplace and reserve: find is exact in each.  RobinHoodMap   *)
(* and HopscotchMap implement IndexSpec, so that no key is lost or counted *)
(* twice, and in the first every probe ends; CuckooMap loses keys only     *)
(* where an insertion gives up.                                            *)
(***************************************************************************)
EXTENDS RobinHoodMap, FiniteSetTheorems, SequenceTheorems, WellFoundedInduction, TLAPS

-----------------------------------------------------------------------------
(* The inductive invariant.                                                *)

Call == [key : Keys, checked : BOOLEAN]

Types ==
  /\ capacity \in Nat \ {0}
  /\ DOMAIN buckets \subseteq 0 .. capacity - 1
  /\ buckets \in [DOMAIN buckets -> Node]
  /\ size \in Nat /\ max_PSL \in Nat
  /\ calls \in Seq(Call)
  /\ cur_key \in Keys \cup {NoKey}
  /\ index \in 0 .. capacity - 1
  /\ PSL \in Nat
  /\ ~InLoop => index = 0 /\ PSL = 0

InHand == IF InLoop THEN 1 ELSE 0

\* There is room for every call that will not test the load any more.
LoadInv ==
  /\ size = Cardinality(DOMAIN buckets)
  /\ InLoop => size < capacity
  /\ \A i \in DOMAIN calls : calls[i].checked => size + InHand + i <= capacity

\* A probe from bucket home on, on which key k lies after p steps, meets only
\* nodes that do not end it.
ReachesFrom(home, p) ==
  \A q \in 0 .. p - 1 :
    /\ (home + q) % capacity \in DOMAIN buckets
    /\ buckets[(home + q) % capacity].PSL >= q

\* The bucket is one that find probes for the key, at the d-th probe, d <= p.
Found(key, bucket, p) ==
  \E d \in 0 .. p : Probed(key, d) = bucket /\ Reaches(key, d)

StoredFound == \A b \in DOMAIN buckets : Found(buckets[b].key, b, buckets[b].PSL)

\* The key in hand goes on from where the key before it was, or has still to
\* come there: all buckets up to there are taken by nodes it does not displace.
\* Swap does not count the PSL of the node it puts down; the node that it takes
\* up will end further away.
InHandFound(t) ==
  /\ PSL <= t
  /\ ReachesFrom(index, t)
  /\ Found(cur_key, (index + t) % capacity, t)
  /\ \A b \in DOMAIN buckets : buckets[b].PSL <= max_PSL \/ buckets[b].PSL < t

HandFound == InLoop => \E t \in Nat : InHandFound(t)

MaxCovers == ~InLoop => \A b \in DOMAIN buckets : buckets[b].PSL <= max_PSL

IInv ==
  /\ Types
  /\ LoadInv
  /\ StoredFound
  /\ HandFound
  /\ MaxCovers
  /\ IsFiniteSet(Held)
  /\ SizeExact
-----------------------------------------------------------------------------
(* Remainders.                                                             *)

LEMMA ModType ==
  ASSUME NEW x \in Nat, NEW c \in Nat \ {0}
  PROVE  x % c \in 0 .. c - 1
OBVIOUS

LEMMA ProductGrows ==
  ASSUME NEW c \in Nat \ {0}, NEW p \in Nat, NEW q \in Nat, p < q
  PROVE  c * p + c <= c * q /\ c * p \in Nat /\ c * q \in Nat
<1>1. PICK d \in Nat : q = p + 1 + d
  <2>1. q - p - 1 \in Nat /\ q = p + 1 + (q - p - 1)
    OBVIOUS
  <2> QED BY <2>1
<1>2. c * (p + 1 + d) = c * p + c + c * d /\ c * d \in Nat /\ c * p \in Nat
  OBVIOUS
<1> QED
  BY <1>1, <1>2

LEMMA ModIs ==
  ASSUME NEW c \in Nat \ {0}, NEW q \in Nat, NEW r \in 0 .. c - 1
  PROVE  (c * q + r) % c = r
<1> DEFINE x == c * q + r
<1>1. c * q \in Nat /\ x \in Nat /\ x = c * q + r
  OBVIOUS
<1> HIDE DEF x
<1>2. /\ x = c * (x \div c) + (x % c)
      /\ x \div c \in Nat /\ x % c \in 0 .. c - 1
  BY <1>1
<1>3. PICK p \in Nat, s \in 0 .. c - 1 : p = x \div c /\ s = x % c
  BY <1>2
<1>4. c * q + r = c * p + s /\ c * p \in Nat
  BY <1>1, <1>2, <1>3
<1>5. ~(p < q)
  BY <1>1, <1>4, ProductGrows
<1>6. ~(q < p)
  BY <1>1, <1>4, ProductGrows
<1>7. p = q
  BY <1>5, <1>6
<1>8. s = r
  BY <1>1, <1>4, <1>7
<1> QED
  BY <1>3, <1>8 DEF x

LEMMA ModNext ==
  ASSUME NEW x \in Nat, NEW c \in Nat \ {0}
  PROVE  (x + 1) % c = IF (x % c) + 1 = c THEN 0 ELSE (x % c) + 1
<1>1. PICK q \in Nat, r \in 0 .. c - 1 : x = c * q + r
  <2>1. x = c * (x \div c) + (x % c) /\ x \div c \in Nat /\ x % c \in 0 .. c - 1
    OBVIOUS
  <2> QED BY <2>1
<1>2. x % c = r
  BY <1>1, ModIs
<1>3. CASE r + 1 = c
  <2>1. c * (q + 1) = c * q + c /\ c * q \in Nat /\ q + 1 \in Nat /\ 0 \in 0 .. c - 1
    OBVIOUS
  <2>2. x + 1 = c * (q + 1) + 0
    BY <1>1, <1>3, <2>1
  <2>3. (c * (q + 1) + 0) % c = 0
    BY <2>1, ModIs
  <2> QED BY <1>2, <1>3, <2>2, <2>3
<1>4. CASE r + 1 # c
  <2>1. r + 1 \in 0 .. c - 1 /\ c * q \in Nat
    BY <1>4
  <2>2. x + 1 = c * q + (r + 1)
    BY <1>1, <2>1
  <2>3. (c * q + (r + 1)) % c = r + 1
    BY <2>1, ModIs
  <2> QED BY <1>2, <1>4, <2>2, <2>3
<1> QED
  BY <1>3, <1>4

LEMMA ModAll ==
  ASSUME NEW c \in Nat \ {0}, NEW h \in 0 .. c - 1, NEW b \in 0 .. c - 1
  PROVE  \E j \in 0 .. c - 1 : (h + j) % c = b
<1>1. CASE h <= b
  <2>1. b - h \in 0 .. c - 1 /\ h + (b - h) = c * 0 + b
    BY <1>1
  <2>2. (c * 0 + b) % c = b
    BY ModIs
  <2> QED BY <2>1, <2>2
<1>2. CASE b < h
  <2>1. b - h + c \in 0 .. c - 1 /\ h + (b - h + c) = c * 1 + b
    BY <1>2
  <2>2. (c * 1 + b) % c = b
    BY ModIs
  <2> QED BY <2>1, <2>2
<1> QED
  BY <1>1, <1>2
-----------------------------------------------------------------------------
(* Probes.                                                                 *)

\* Nodes are only added, or replaced by nodes further from where they began.
NodesGrow ==
  /\ capacity' = capacity
  /\ DOMAIN buckets \subseteq DOMAIN buckets'
  /\ \A b \in DOMAIN buckets : buckets'[b].PSL \in Nat /\ buckets'[b].PSL >= buckets[b].PSL

LEMMA ReachesKept ==
  ASSUME Types, NodesGrow, NEW h \in Nat, NEW p \in Nat, ReachesFrom(h, p)
  PROVE  ReachesFrom(h, p)'
<1> SUFFICES ASSUME NEW q \in 0 .. p - 1
             PROVE  /\ (h + q) % capacity \in DOMAIN buckets'
                    /\ buckets'[(h + q) % capacity].PSL >= q
  BY DEF ReachesFrom, NodesGrow
<1>1. PICK b : b = (h + q) % capacity
  OBVIOUS
<1>2. b \in DOMAIN buckets /\ buckets[b].PSL >= q
  BY <1>1 DEF ReachesFrom
<1>3. buckets[b].PSL \in Nat /\ q \in Nat
  BY <1>2 DEF Types, Node
<1>4. b \in DOMAIN buckets' /\ buckets'[b].PSL \in Nat /\ buckets'[b].PSL >= buckets[b].PSL
  BY <1>2 DEF NodesGrow
<1> QED
  BY <1>1, <1>2, <1>3, <1>4

LEMMA ReachesIs ==
  ASSUME NEW key, NEW d
  PROVE  Reaches(key, d) <=> ReachesFrom(hash[key], d)
BY DEF Reaches, ReachesFrom, Probed

LEMMA HashType == \A key \in Keys : hash[key] \in Nat
  BY HashAssumption

LEMMA FoundKept ==
  ASSUME Types, NodesGrow, NEW key \in Keys, NEW b, NEW p \in Nat, NEW r \in Nat, p <= r,
         Found(key, b, p)
  PROVE  Found(key, b, r)'
<1>1. PICK d \in 0 .. p : Probed(key, d) = b /\ Reaches(key, d)
  BY DEF Found
<1>2. d \in Nat /\ d \in 0 .. r
  BY <1>1
<1>3. ReachesFrom(hash[key], d)'
  BY <1>1, <1>2, HashType, ReachesIs, ReachesKept
<1>4. Reaches(key, d)'
  BY <1>3 DEF Reaches, ReachesFrom, Probed
<1>5. Probed(key, d)' = b
  BY <1>1 DEF Probed, NodesGrow
<1> QED
  BY <1>2, <1>4, <1>5 DEF Found

\* One probe further.
LEMMA ReachesNext ==
  ASSUME NEW h, NEW p \in Nat, ReachesFrom(h, p),
         (h + p) % capacity \in DOMAIN buckets, buckets[(h + p) % capacity].PSL >= p
  PROVE  ReachesFrom(h, p + 1)
<1>1. \A q \in 0 .. (p + 1) - 1 : q \in 0 .. p - 1 \/ q = p
  OBVIOUS
<1> QED
  BY <1>1 DEF ReachesFrom

\* From the bucket of a probe to the next bucket.
LEMMA FoundNext ==
  ASSUME Types, NEW key \in Keys, NEW x \in Nat, NEW p \in Nat, NEW r \in Nat, p <= r,
         Found(key, x % capacity, p),
         x % capacity \in DOMAIN buckets, buckets[x % capacity].PSL >= p
  PROVE  Found(key, (x + 1) % capacity, r + 1)
<1>1. PICK d \in 0 .. p : Probed(key, d) = x % capacity /\ Reaches(key, d)
  BY DEF Found
<1>2. PICK h \in Nat : h = hash[key]
  BY HashType
<1>3. d \in Nat /\ d + 1 \in 0 .. r + 1 /\ d <= p
  BY <1>1
<1>4. (h + d) % capacity = x % capacity /\ ReachesFrom(h, d)
  BY <1>1, <1>2, ReachesIs DEF Probed
<1>5. buckets[x % capacity].PSL \in Nat
  BY DEF Types, Node
<1>6. ReachesFrom(h, d + 1)
  <2>1. buckets[x % capacity].PSL >= d
    BY <1>3, <1>5
  <2> QED BY <1>3, <1>4, <2>1, ReachesNext
<1>7. (h + (d + 1)) % capacity = (x + 1) % capacity
  <2>1. h + d \in Nat /\ h + (d + 1) = (h + d) + 1 /\ capacity \in Nat \ {0}
    BY <1>3, SMTT(30) DEF Types
  <2>2. ((h + d) + 1) % capacity = IF ((h + d) % capacity) + 1 = capacity THEN 0 ELSE ((h + d) % capacity) + 1
    BY <2>1, ModNext
  <2>3. (x + 1) % capacity = IF (x % capacity) + 1 = capacity THEN 0 ELSE (x % capacity) + 1
    BY <2>1, ModNext
  <2> QED BY <1>4, <2>1, <2>2, <2>3
<1>8. Probed(key, d + 1) = (x + 1) % capacity /\ Reaches(key, d + 1)
  BY <1>2, <1>6, <1>7, ReachesIs DEF Probed
<1> QED
  BY <1>3, <1>8 DEF Found

\* A probe comes to a bucket that is free before it has gone round.
LEMMA ProbeIsShort ==
  ASSUME Types, Cardinality(DOMAIN buckets) < capacity,
         NEW p \in Nat, ReachesFrom(index, p)
  PROVE  p < capacity
<1> SUFFICES ASSUME p >= capacity PROVE FALSE
  BY DEF Types
<1>1. capacity \in Nat \ {0} /\ index \in 0 .. capacity - 1
  BY DEF Types
<1>2. ASSUME NEW b \in 0 .. capacity - 1 PROVE b \in DOMAIN buckets
  <2>1. PICK j \in 0 .. capacity - 1 : (index + j) % capacity = b
    BY <1>1, ModAll
  <2>2. j \in 0 .. p - 1
    BY <1>1, <2>1
  <2> QED BY <2>1, <2>2 DEF ReachesFrom
<1>3. DOMAIN buckets = 0 .. capacity - 1
  BY <1>2 DEF Types
<1>4. Cardinality(0 .. capacity - 1) = capacity
  <2>1. 0 \in Int /\ capacity - 1 \in Int /\ ~(0 > capacity - 1) /\ (capacity - 1) - 0 + 1 = capacity
    BY <1>1
  <2> QED BY <2>1, FS_Interval
<1> QED
  BY <1>1, <1>3, <1>4
-----------------------------------------------------------------------------
(* What the loops of rehash and next_power_of_two compute.                 *)

LEMMA LeastNat ==
  ASSUME NEW T, T \subseteq Nat, T # {}
  PROVE  \E m \in T : \A k \in T : m <= k
<1> DEFINE R == OpToRel(<, Nat)
<1>1. IsWellFoundedOn(R, Nat)
  BY NatLessThanWellFounded
<1>2. \A x, y \in Nat : <<y, x>> \in R <=> y < x
  BY DEF OpToRel
<1> HIDE DEF R
<1>3. PICK m \in T : \A k \in T : ~(<<k, m>> \in R)
  BY <1>1, WFMin
<1>4. \A k \in T : ~(k < m) /\ k \in Nat /\ m \in Nat
  BY <1>2, <1>3
<1>5. \A k \in T : m <= k
  BY <1>4
<1> QED
  BY <1>5

LEMMA Induction ==
  ASSUME NEW T, 0 \in T, \A n \in Nat : n \in T => n + 1 \in T
  PROVE  \A n \in Nat : n \in T
<1> SUFFICES ASSUME NEW n \in Nat, n \notin T PROVE FALSE
  OBVIOUS
<1> DEFINE U == { k \in Nat : k \notin T }
<1>1. PICK m \in U : \A k \in U : m <= k
  BY LeastNat
<1>2. m # 0 /\ m \in Nat
  BY <1>1
<1>3. m - 1 \in Nat /\ ~(m <= m - 1)
  BY <1>2
<1>4. m - 1 \in T
  BY <1>1, <1>3
<1>5. (m - 1) + 1 \in T
  BY <1>3, <1>4
<1>6. (m - 1) + 1 = m
  BY <1>2
<1> QED
  BY <1>5, <1>6

\* ks is a function of the buckets that have a node, f[k] are its values in the
\* first k buckets.
GatherStep(ks, f, k) ==
  IF k = 0 THEN <<>>
  ELSE IF k - 1 \in DOMAIN ks THEN Append(f[k - 1], ks[k - 1]) ELSE f[k - 1]
Gathers(ks, f, n) == f = [k \in 0 .. n |-> GatherStep(ks, f, k)]

LEMMA GathersExist == ASSUME NEW ks PROVE \A n \in Nat : \E f : Gathers(ks, f, n)
<1> DEFINE T == { n \in Nat : \E f : Gathers(ks, f, n) }
<1>1. 0 \in T
  <2> DEFINE g == [k \in 0 .. 0 |-> <<>>]
  <2>1. g = [k \in 0 .. 0 |-> GatherStep(ks, g, k)]
    BY DEF GatherStep
  <2> HIDE DEF g
  <2> QED BY <2>1 DEF Gathers
<1>2. ASSUME NEW n \in Nat, n \in T PROVE n + 1 \in T
  <2>1. PICK f : Gathers(ks, f, n)
    BY <1>2
  <2>2. \A k \in 0 .. n : f[k] = GatherStep(ks, f, k)
    BY <2>1 DEF Gathers
  <2>3. PICK g : g = [k \in 0 .. n + 1 |-> IF k = n + 1 THEN GatherStep(ks, f, k) ELSE f[k]]
    OBVIOUS
  <2>4. ASSUME NEW k \in 0 .. n + 1 PROVE g[k] = GatherStep(ks, g, k)
    <3>1. k # 0 => g[k - 1] = f[k - 1]
      BY <2>3
    <3>2. GatherStep(ks, f, k) = GatherStep(ks, g, k)
      BY <3>1 DEF GatherStep
    <3>3. CASE k = n + 1
      BY <2>3, <3>2, <3>3
    <3>4. CASE k # n + 1
      <4>1. k \in 0 .. n
        BY <3>4
      <4> QED BY <2>2, <2>3, <3>2, <3>4, <4>1
    <3> QED BY <3>3, <3>4
  <2>5. g = [k \in 0 .. n + 1 |-> GatherStep(ks, g, k)]
    <3>1. g = [k \in 0 .. n + 1 |-> g[k]]
      BY <2>3
    <3> QED BY <2>4, <3>1
  <2> QED BY <2>5 DEF Gathers
<1> HIDE DEF T
<1>3. \A n \in Nat : n \in T
  BY <1>1, <1>2, Induction
<1> QED
  BY <1>3 DEF T

\* Buckets 0 .. k - 1 that have a node, and their values.
Taken(ks, k) == { b \in DOMAIN ks : b < k }
HoldsTaken(ks, s, k) ==
  /\ s \in Seq(Keys)
  /\ IsFiniteSet(Taken(ks, k)) /\ Len(s) = Cardinality(Taken(ks, k))
  /\ \A key : (\E i \in DOMAIN s : s[i] = key) <=> (\E b \in Taken(ks, k) : ks[b] = key)

LEMMA TakenNext ==
  ASSUME NEW ks, DOMAIN ks \subseteq Nat, NEW k \in Nat
  PROVE  Taken(ks, k + 1) = IF k \in DOMAIN ks THEN Taken(ks, k) \cup {k} ELSE Taken(ks, k)
<1>1. \A b \in DOMAIN ks : b \in Int /\ ((b < k + 1) <=> (b < k \/ b = k))
  OBVIOUS
<1> QED
  BY <1>1 DEF Taken

LEMMA HoldsNext ==
  ASSUME NEW ks, DOMAIN ks \subseteq Nat, \A b \in DOMAIN ks : ks[b] \in Keys,
         NEW k \in Nat, NEW s, HoldsTaken(ks, s, k)
  PROVE  HoldsTaken(ks, IF k \in DOMAIN ks THEN Append(s, ks[k]) ELSE s, k + 1)
<1>1. CASE k \notin DOMAIN ks
  <2>1. Taken(ks, k + 1) = Taken(ks, k)
    BY <1>1, TakenNext
  <2> QED BY <1>1, <2>1 DEF HoldsTaken
<1>2. CASE k \in DOMAIN ks
  <2>1. Taken(ks, k + 1) = Taken(ks, k) \cup {k} /\ k \notin Taken(ks, k)
    BY <1>2, TakenNext DEF Taken
  <2>2. /\ IsFiniteSet(Taken(ks, k)) /\ s \in Seq(Keys)
        /\ Len(s) = Cardinality(Taken(ks, k)) /\ Len(s) \in Nat
    BY DEF HoldsTaken
  <2>3. IsFiniteSet(Taken(ks, k + 1)) /\ Cardinality(Taken(ks, k + 1)) = Cardinality(Taken(ks, k)) + 1
    BY <2>1, <2>2, FS_AddElement
  <2>4. PICK x \in Keys : x = ks[k]
    BY <1>2
  <2>5. PICK t : t = Append(s, x)
    OBVIOUS
  <2>6. /\ t \in Seq(Keys) /\ Len(t) = Len(s) + 1 /\ DOMAIN t = 1 .. Len(s) + 1
        /\ DOMAIN s = 1 .. Len(s)
        /\ t[Len(s) + 1] = x
        /\ \A i \in 1 .. Len(s) : t[i] = s[i]
    BY <2>2, <2>4, <2>5
  <2>7. ASSUME NEW key
        PROVE  (\E i \in DOMAIN t : t[i] = key) <=> (\E b \in Taken(ks, k + 1) : ks[b] = key)
    <3>1. (\E i \in DOMAIN t : t[i] = key) <=> (\E i \in DOMAIN s : s[i] = key) \/ key = x
      <4>1. DOMAIN t = DOMAIN s \cup {Len(s) + 1}
        BY <2>2, <2>6
      <4> QED BY <2>6, <4>1
    <3>2. (\E i \in DOMAIN s : s[i] = key) <=> (\E b \in Taken(ks, k) : ks[b] = key)
      BY DEF HoldsTaken
    <3> QED BY <2>1, <2>4, <3>1, <3>2
  <2>8. HoldsTaken(ks, t, k + 1)
    BY <2>2, <2>3, <2>6, <2>7 DEF HoldsTaken
  <2> QED BY <1>2, <2>4, <2>5, <2>8
<1> QED
  BY <1>1, <1>2

LEMMA GathersTaken ==
  ASSUME NEW ks, DOMAIN ks \subseteq Nat, \A b \in DOMAIN ks : ks[b] \in Keys,
         NEW n \in Nat, NEW f, Gathers(ks, f, n)
  PROVE  HoldsTaken(ks, f[n], n)
<1> DEFINE T == { k \in Nat : k <= n => HoldsTaken(ks, f[k], k) }
<1>1. \A k \in 0 .. n : f[k] = GatherStep(ks, f, k)
  BY DEF Gathers
<1>2. 0 \in T
  <2>1. f[0] = <<>>
    BY <1>1 DEF GatherStep
  <2>2. Taken(ks, 0) = {}
    BY DEF Taken
  <2>3. Cardinality({}) = 0 /\ IsFiniteSet({})
    BY FS_EmptySet
  <2>4. PICK e \in Seq(Keys) : e = <<>> /\ Len(e) = 0 /\ DOMAIN e = {}
    <3>1. <<>> \in Seq(Keys) /\ Len(<<>>) = 0
      BY EmptySeq
    <3>2. \A i \in DOMAIN <<>> : FALSE
      OBVIOUS
    <3> QED BY <3>1, <3>2
  <2>5. HoldsTaken(ks, e, 0)
    BY <2>2, <2>3, <2>4 DEF HoldsTaken
  <2> QED BY <2>1, <2>4, <2>5
<1>3. ASSUME NEW k \in Nat, k \in T PROVE k + 1 \in T
  <2> SUFFICES ASSUME k + 1 <= n PROVE HoldsTaken(ks, f[k + 1], k + 1)
    OBVIOUS
  <2>1. HoldsTaken(ks, f[k], k) /\ k + 1 \in 0 .. n /\ (k + 1) - 1 = k /\ k + 1 # 0
    BY <1>3
  <2>2. f[k + 1] = IF k \in DOMAIN ks THEN Append(f[k], ks[k]) ELSE f[k]
    BY <1>1, <2>1 DEF GatherStep
  <2> QED BY <2>1, <2>2, HoldsNext
<1> HIDE DEF T
<1>4. n \in T
  BY <1>2, <1>3, Induction
<1> QED
  BY <1>4 DEF T

\* Every node below n is taken once.
KeysBelow(ks, n) == DOMAIN ks \subseteq 0 .. n - 1 /\ \A b \in DOMAIN ks : ks[b] \in Keys

\* s is the values of ks, one for every bucket.
Lists(s, ks) ==
  /\ s \in Seq(Keys) /\ Len(s) = Cardinality(DOMAIN ks)
  /\ {s[i] : i \in DOMAIN s} = {ks[b] : b \in DOMAIN ks}

LEMMA AllTaken ==
  ASSUME NEW n \in Nat, NEW ks, KeysBelow(ks, n), NEW f, Gathers(ks, f, n), NEW s, s = f[n]
  PROVE  Lists(s, ks)
<1>2. HoldsTaken(ks, s, n)
  <2>1. DOMAIN ks \subseteq Nat /\ \A b \in DOMAIN ks : ks[b] \in Keys
    BY DEF KeysBelow
  <2> QED BY <2>1, GathersTaken
<1>3. Taken(ks, n) = DOMAIN ks
  <2>1. \A b \in DOMAIN ks : b < n
    BY DEF KeysBelow
  <2> QED BY <2>1 DEF Taken
<1>4. {s[i] : i \in DOMAIN s} = {ks[b] : b \in DOMAIN ks}
  BY <1>2, <1>3 DEF HoldsTaken
<1> QED
  BY <1>2, <1>3, <1>4 DEF HoldsTaken, Lists

\* rehash takes every node once.
LEMMA KeysInOrderIs ==
  ASSUME Types
  PROVE  /\ KeysInOrder \in Seq(Keys)
         /\ Len(KeysInOrder) = Cardinality(DOMAIN buckets)
         /\ {KeysInOrder[i] : i \in DOMAIN KeysInOrder} = Stored
<1> DEFINE UpTo(f) ==
             f = [n \in 0 .. capacity |->
                    IF n = 0 THEN <<>>
                    ELSE IF n - 1 \in DOMAIN buckets THEN Append(f[n - 1], buckets[n - 1].key)
                                                     ELSE f[n - 1]]
           g == CHOOSE f : UpTo(f)
<1>1. PICK n \in Nat : n = capacity
  BY DEF Types
<1>2. PICK ks : ks = [b \in DOMAIN buckets |-> buckets[b].key]
  OBVIOUS
<1>3. DOMAIN ks = DOMAIN buckets /\ \A b \in DOMAIN ks : ks[b] = buckets[b].key /\ ks[b] \in Keys
  BY <1>2 DEF Types, Node
<1>4. \A f : UpTo(f) <=> Gathers(ks, f, n)
  BY <1>1, <1>3 DEF Gathers, GatherStep
<1>5. KeysInOrder = g[n]
  BY <1>1 DEF KeysInOrder
<1> HIDE DEF UpTo
<1>6. UpTo(g)
  BY <1>4, GathersExist
<1> HIDE DEF g
<1>7. Gathers(ks, g, n)
  BY <1>4, <1>6
<1>8. KeysBelow(ks, n)
  BY <1>1, <1>3 DEF Types, KeysBelow
<1>9. {ks[b] : b \in DOMAIN ks} = Stored
  BY <1>3 DEF Stored
<1>10. PICK h, s : h = g /\ Gathers(ks, h, n) /\ s = h[n]
  BY <1>7
<1>11. Lists(s, ks)
  BY <1>8, <1>10, AllTaken
<1>12. KeysInOrder = s
  BY <1>5, <1>10
<1> QED
  BY <1>3, <1>9, <1>11, <1>12 DEF Lists

\* p after k turns of the loop of next_power_of_two.
DoubleStep(p, n, k) ==
  IF k = 0 THEN 1 ELSE IF p[k - 1] < n THEN 2 * p[k - 1] ELSE p[k - 1]
Doubles(p, n, m) == p = [k \in 0 .. m |-> DoubleStep(p, n, k)]

LEMMA DoublesExist == ASSUME NEW n PROVE \A m \in Nat : \E p : Doubles(p, n, m)
<1> DEFINE T == { m \in Nat : \E p : Doubles(p, n, m) }
<1>1. 0 \in T
  <2> DEFINE g == [k \in 0 .. 0 |-> 1]
  <2>1. g = [k \in 0 .. 0 |-> DoubleStep(g, n, k)]
    <3>1. \A k \in 0 .. 0 : DoubleStep(g, n, k) = 1
      BY DEF DoubleStep
    <3> QED BY <3>1
  <2> HIDE DEF g
  <2> QED BY <2>1 DEF Doubles
<1>2. ASSUME NEW m \in Nat, m \in T PROVE m + 1 \in T
  <2>1. PICK p : Doubles(p, n, m)
    BY <1>2
  <2>2. \A k \in 0 .. m : p[k] = DoubleStep(p, n, k)
    BY <2>1 DEF Doubles
  <2>3. PICK g : g = [k \in 0 .. m + 1 |-> IF k = m + 1 THEN DoubleStep(p, n, k) ELSE p[k]]
    OBVIOUS
  <2>4. ASSUME NEW k \in 0 .. m + 1 PROVE g[k] = DoubleStep(g, n, k)
    <3>1. k # 0 => g[k - 1] = p[k - 1]
      BY <2>3
    <3>2. DoubleStep(p, n, k) = DoubleStep(g, n, k)
      BY <3>1 DEF DoubleStep
    <3>3. CASE k = m + 1
      BY <2>3, <3>2, <3>3
    <3>4. CASE k # m + 1
      <4>1. k \in 0 .. m
        BY <3>4
      <4> QED BY <2>2, <2>3, <3>2, <3>4, <4>1
    <3> QED BY <3>3, <3>4
  <2>5. g = [k \in 0 .. m + 1 |-> DoubleStep(g, n, k)]
    <3>1. g = [k \in 0 .. m + 1 |-> g[k]]
      BY <2>3
    <3> QED BY <2>4, <3>1
  <2> QED BY <2>5 DEF Doubles
<1> HIDE DEF T
<1>3. \A m \in Nat : m \in T
  BY <1>1, <1>2, Induction
<1> QED
  BY <1>3 DEF T

LEMMA PowerType ==
  ASSUME NEW n \in Nat
  PROVE  next_power_of_two(n) \in Nat \ {0}
<1> DEFINE p == CHOOSE p : Doubles(p, n, n)
           T == { k \in Nat : k <= n => p[k] \in Nat \ {0} }
<1>1. Doubles(p, n, n)
  BY DoublesExist
<1>2. next_power_of_two(n) = p[n]
  BY DEF next_power_of_two, Doubles, DoubleStep
<1> HIDE DEF p
<1>3. \A k \in 0 .. n : p[k] = DoubleStep(p, n, k)
  BY <1>1 DEF Doubles
<1>4. 0 \in T
  <2>1. p[0] = 1
    BY <1>3 DEF DoubleStep
  <2> QED BY <2>1
<1>5. ASSUME NEW k \in Nat, k \in T PROVE k + 1 \in T
  <2> SUFFICES ASSUME k + 1 <= n PROVE p[k + 1] \in Nat \ {0}
    OBVIOUS
  <2>1. p[k] \in Nat \ {0} /\ k + 1 \in 0 .. n /\ (k + 1) - 1 = k /\ k + 1 # 0
    BY <1>5
  <2>2. p[k + 1] = IF p[k] < n THEN 2 * p[k] ELSE p[k]
    BY <1>3, <2>1 DEF DoubleStep
  <2> QED BY <2>1, <2>2
<1> HIDE DEF T
<1>6. n \in T
  BY <1>4, <1>5, Induction
<1> QED
  BY <1>2, <1>6 DEF T
-----------------------------------------------------------------------------
(* The steps.                                                              *)

LEMMA HereIs ==
  ASSUME Types
  PROVE  Here \in 0 .. capacity - 1 /\ index + PSL \in Nat /\ Here = (index + PSL) % capacity
<1>1. index + PSL \in Nat /\ capacity \in Nat \ {0}
  BY DEF Types
<1> QED
  BY <1>1, ModType DEF Here

\* A node is put into a bucket.
Stores(h, node) ==
  /\ DOMAIN buckets' = DOMAIN buckets \cup {h}
  /\ buckets' \in [DOMAIN buckets' -> Node]
  /\ buckets'[h] = node
  /\ \A b \in DOMAIN buckets : b # h => buckets'[b] = buckets[b]

LEMMA StoreIs ==
  ASSUME Types, NEW h \in 0 .. capacity - 1, NEW node \in Node, buckets' = Store(h, node)
  PROVE  Stores(h, node)
<1>1. \A b \in DOMAIN buckets : buckets[b] \in Node
  BY DEF Types
<1> QED
  BY <1>1 DEF Stores, Store

LEMMA HandNode ==
  ASSUME Types, InLoop
  PROVE  [key |-> cur_key, PSL |-> PSL] \in Node
BY DEF Types, InLoop, Node

\* Keys that wait in a call, and the key in hand.
Waiting == {calls[i].key : i \in DOMAIN calls}
Hand == {cur_key} \ {NoKey}

LEMMA HeldIs == Held = Stored \cup Waiting \cup Hand
  BY DEF Held, Waiting, Hand

LEMMA NodeType ==
  ASSUME Types, NEW b \in DOMAIN buckets
  PROVE  /\ buckets[b] \in Node /\ buckets[b].key \in Keys /\ buckets[b].PSL \in Nat
         /\ b \in 0 .. capacity - 1
BY DEF Types, Node

LEMMA BucketsFinite == Types => IsFiniteSet(DOMAIN buckets) /\ Cardinality(DOMAIN buckets) <= capacity
<1> SUFFICES ASSUME Types
             PROVE  IsFiniteSet(DOMAIN buckets) /\ Cardinality(DOMAIN buckets) <= capacity
  OBVIOUS
<1>1. capacity \in Nat \ {0} /\ DOMAIN buckets \subseteq 0 .. capacity - 1
  BY DEF Types
<1>2. 0 \in Int /\ capacity - 1 \in Int /\ ~(0 > capacity - 1) /\ (capacity - 1) - 0 + 1 = capacity
  BY <1>1
<1>3. IsFiniteSet(0 .. capacity - 1) /\ Cardinality(0 .. capacity - 1) = capacity
  BY <1>2, FS_Interval
<1> QED
  BY <1>1, <1>3, FS_Subset

LEMMA InitInv == Init => IInv
<1> SUFFICES ASSUME Init PROVE IInv
  OBVIOUS
<1>1. /\ capacity \in Nat \ {0} /\ DOMAIN buckets = {} /\ size = 0 /\ max_PSL = 0
      /\ calls = <<>> /\ DOMAIN calls = {} /\ Len(calls) = 0 /\ calls \in Seq(Call)
      /\ ~InLoop /\ cur_key = NoKey /\ index = 0 /\ PSL = 0
  <2>1. DOMAIN buckets = {} /\ DOMAIN calls = {} /\ calls = <<>>
    BY DEF Init
  <2>2. calls \in Seq(Call) /\ Len(calls) = 0
    BY <2>1, EmptySeq
  <2> QED BY <2>1, <2>2, HashAssumption DEF Init, InLoop
<1>2. Types
  <2>1. buckets \in [DOMAIN buckets -> Node]
    BY DEF Init
  <2> QED BY <1>1, <2>1 DEF Types
<1>3. Cardinality({}) = 0 /\ IsFiniteSet({})
  BY FS_EmptySet
<1>4. Held = {}
  BY <1>1, HeldIs DEF Stored, Waiting, Hand
<1> QED
  BY <1>1, <1>2, <1>3, <1>4 DEF IInv, LoadInv, StoredFound, HandFound, MaxCovers, SizeExact

LEMMA EmplaceInv ==
  ASSUME IInv, NEW key \in Keys \ Stored, Emplace(key)
  PROVE  IInv' /\ key \notin Held /\ Held' = Held \cup {key}
<1>1. PICK c \in Call : c = [key |-> key, checked |-> FALSE]
  BY DEF Call
<1>2. /\ calls' = <<c>> /\ calls = <<>> /\ cur_key = NoKey /\ cur_key' = NoKey
      /\ UNCHANGED <<capacity, buckets, size, max_PSL, cur_key, index, PSL>>
  BY <1>1 DEF Emplace, Idle, map, loop
<1>3. /\ calls' \in Seq(Call) /\ Len(calls') = 1 /\ DOMAIN calls' = {1} /\ calls'[1] = c
      /\ Len(calls) = 0 /\ DOMAIN calls = {}
  BY <1>1, <1>2
<1>4. ~InLoop /\ ~InLoop'
  BY <1>2 DEF InLoop
<1>5. Types'
  BY <1>2, <1>3, <1>4 DEF IInv, Types, Node
<1>6. Held = Stored /\ Held' = Stored \cup {key} /\ key \notin Stored
  <2>1. Waiting = {} /\ Hand = {} /\ Waiting' = {key} /\ Hand' = {} /\ Stored' = Stored
    BY <1>1, <1>2, <1>3 DEF Waiting, Hand, Stored
  <2>2. Held' = Stored' \cup Waiting' \cup Hand'
    BY DEF Held, Waiting, Hand, Stored
  <2> QED BY <2>1, <2>2, HeldIs
<1>7. IsFiniteSet(Held') /\ Cardinality(Held') = Cardinality(Held) + 1
  BY <1>6, FS_AddElement DEF IInv
<1>8. LoadInv'
  BY <1>1, <1>2, <1>3, <1>4 DEF IInv, LoadInv, InHand
<1>9. StoredFound' /\ MaxCovers' /\ HandFound'
  BY <1>2, <1>4 DEF IInv, StoredFound, MaxCovers, HandFound, Found, Probed, Reaches
<1>10. SizeExact'
  <2>1. size + 0 + 0 = Cardinality(Held) /\ size \in Nat
    BY <1>3, <1>4 DEF IInv, SizeExact, Types
  <2> QED BY <1>2, <1>3, <1>4, <1>7, <2>1 DEF SizeExact
<1> QED
  BY <1>5, <1>6, <1>7, <1>8, <1>9, <1>10 DEF IInv

\* The calls that rehash puts before the one that goes on after it.
LEMMA ReinsertedIs ==
  ASSUME Types
  PROVE  /\ Reinserted \in Seq(Call) /\ Len(Reinserted) = Cardinality(DOMAIN buckets)
         /\ \A i \in DOMAIN Reinserted : ~Reinserted[i].checked
         /\ {Reinserted[i].key : i \in DOMAIN Reinserted} = Stored
<1>1. PICK K \in Seq(Keys) : K = KeysInOrder
  BY KeysInOrderIs
<1>2. Len(K) = Cardinality(DOMAIN buckets) /\ {K[i] : i \in DOMAIN K} = Stored
  BY <1>1, KeysInOrderIs
<1>3. Len(K) \in Nat /\ DOMAIN K = 1 .. Len(K) /\ \A i \in 1 .. Len(K) : K[i] \in Keys
  BY <1>1, LenProperties
<1>4. PICK R : R = [i \in 1 .. Len(K) |-> [key |-> K[i], checked |-> FALSE]]
  OBVIOUS
<1>5. Reinserted = R
  BY <1>1, <1>3, <1>4 DEF Reinserted
<1>6. /\ R \in [1 .. Len(K) -> Call]
      /\ \A i \in 1 .. Len(K) : R[i].key = K[i] /\ ~R[i].checked
  BY <1>3, <1>4 DEF Call
<1>7. R \in Seq(Call) /\ Len(R) = Len(K) /\ DOMAIN R = 1 .. Len(K)
  BY <1>3, <1>6
<1>8. {R[i].key : i \in DOMAIN R} = {K[i] : i \in DOMAIN K}
  BY <1>3, <1>6, <1>7
<1> QED
  BY <1>2, <1>5, <1>6, <1>7, <1>8

LEMMA ThreeParts ==
  ASSUME NEW S, NEW R \in Seq(S), NEW h \in S, NEW T \in Seq(S),
         NEW m \in Nat, m = Len(R), NEW k \in Nat, k = Len(T),
         NEW c, c = R \o <<h>> \o T
  PROVE  /\ c \in Seq(S) /\ Len(c) = m + 1 + k /\ DOMAIN c = 1 .. m + 1 + k
         /\ \A i \in 1 .. m : c[i] = R[i]
         /\ c[m + 1] = h
         /\ \A i \in 1 .. k : c[m + 1 + i] = T[i]
<1>1. PICK one \in Seq(S) : one = <<h>> /\ Len(one) = 1 /\ one[1] = h
  <2>1. <<h>> \in Seq(S) /\ Len(<<h>>) = 1 /\ <<h>>[1] = h
    OBVIOUS
  <2> QED BY <2>1
<1>2. /\ R \o one \in Seq(S) /\ Len(R \o one) = Len(R) + Len(one)
      /\ \A i \in 1 .. Len(R) + Len(one) :
           (R \o one)[i] = IF i <= Len(R) THEN R[i] ELSE one[i - Len(R)]
  BY ConcatProperties
<1>3. PICK u \in Seq(S) : u = R \o one
  BY <1>2
<1>4. /\ Len(u) = m + 1
      /\ \A i \in 1 .. m + 1 : u[i] = IF i <= m THEN R[i] ELSE one[i - m]
  BY <1>1, <1>2, <1>3
<1>5. (\A i \in 1 .. m : u[i] = R[i]) /\ u[m + 1] = h
  <2>1. m + 1 \in 1 .. m + 1 /\ ~(m + 1 <= m) /\ (m + 1) - m = 1
    OBVIOUS
  <2> QED BY <1>1, <1>4, <2>1
<1>6. /\ u \o T \in Seq(S) /\ Len(u \o T) = Len(u) + Len(T)
      /\ \A i \in 1 .. Len(u) + Len(T) :
           (u \o T)[i] = IF i <= Len(u) THEN u[i] ELSE T[i - Len(u)]
  BY ConcatProperties
<1>7. c = u \o T
  BY <1>1, <1>3
<1>8. /\ c \in Seq(S) /\ Len(c) = m + 1 + k
      /\ \A i \in 1 .. m + 1 + k : c[i] = IF i <= m + 1 THEN u[i] ELSE T[i - (m + 1)]
  BY <1>4, <1>6, <1>7
<1>9. DOMAIN c = 1 .. m + 1 + k
  BY <1>8, LenProperties
<1>10. ASSUME NEW i \in 1 .. k PROVE c[m + 1 + i] = T[i]
  <2>1. PICK j : j = m + 1 + i
    OBVIOUS
  <2>2. j \in 1 .. m + 1 + k /\ ~(j <= m + 1) /\ j - (m + 1) = i
    BY <2>1
  <2> QED BY <1>8, <2>1, <2>2
<1>11. (\A i \in 1 .. m : c[i] = R[i]) /\ c[m + 1] = h
  <2>1. \A i \in 1 .. m + 1 : c[i] = u[i]
    BY <1>8
  <2>2. m + 1 \in 1 .. m + 1 /\ \A i \in 1 .. m : i \in 1 .. m + 1
    OBVIOUS
  <2> QED BY <1>5, <2>1, <2>2
<1> QED
  BY <1>8, <1>9, <1>10, <1>11

LEMMA RehashInv ==
  ASSUME IInv, Rehash
  PROVE  IInv' /\ Held' = Held
<1>1. /\ calls # <<>> /\ ~InLoop /\ MustRehash
      /\ calls' = Reinserted \o <<[Head(calls) EXCEPT !.checked = TRUE]>> \o Tail(calls)
      /\ capacity' = 2 * capacity /\ size' = 0 /\ max_PSL' = 0 /\ buckets' = << >>
      /\ UNCHANGED <<cur_key, index, PSL>>
  BY DEF Rehash, RestartedSize, loop
<1>2. /\ Types /\ calls \in Seq(Call) /\ ~InLoop'
      /\ capacity \in Nat \ {0} /\ size \in Nat
      /\ size = Cardinality(DOMAIN buckets) /\ size <= capacity
  BY <1>1, BucketsFinite DEF IInv, Types, LoadInv, InLoop
<1>3. PICK R \in Seq(Call) : R = Reinserted
  BY <1>2, ReinsertedIs
<1>4. /\ Len(R) = size /\ DOMAIN R = 1 .. size
      /\ \A i \in 1 .. size : R[i] \in Call /\ ~R[i].checked
      /\ {R[i].key : i \in 1 .. size} = Stored
  BY <1>2, <1>3, ReinsertedIs
<1>5. PICK n \in Nat : n = Len(calls) /\ n >= 1
  BY <1>1, <1>2
<1>6. PICK h \in Call : h = [Head(calls) EXCEPT !.checked = TRUE] /\ h.key = calls[1].key
  <2>1. Head(calls) = calls[1] /\ calls[1] \in Call
    BY <1>1, <1>2, <1>5
  <2>2. PICK d \in Call : d = Head(calls)
    BY <2>1
  <2>3. [d EXCEPT !.checked = TRUE] \in Call /\ [d EXCEPT !.checked = TRUE].key = d.key
    BY <2>2 DEF Call
  <2> QED BY <2>1, <2>2, <2>3
<1>7. PICK T \in Seq(Call) : T = Tail(calls)
  BY <1>1, <1>2, HeadTailProperties
<1>8. Len(T) = n - 1 /\ \A i \in 1 .. n - 1 : T[i] = calls[i + 1]
  BY <1>1, <1>2, <1>5, <1>7, HeadTailProperties
<1>9. PICK c : c = R \o <<h>> \o T
  OBVIOUS
<1>10. /\ c \in Seq(Call) /\ Len(c) = size + n /\ DOMAIN c = 1 .. size + n
       /\ \A i \in 1 .. size : c[i] = R[i]
       /\ c[size + 1] = h
       /\ \A i \in 1 .. n - 1 : c[size + 1 + i] = T[i]
  <2>1. PICK m \in Nat, k \in Nat : m = size /\ k = n - 1 /\ m + 1 + k = size + n
    <3>1. size \in Nat /\ n - 1 \in Nat /\ size + 1 + (n - 1) = size + n
      BY <1>2, <1>5
    <3> QED BY <3>1
  <2>2. m = Len(R) /\ k = Len(T)
    BY <1>4, <1>8, <2>1
  <2>3. /\ c \in Seq(Call) /\ Len(c) = m + 1 + k /\ DOMAIN c = 1 .. m + 1 + k
        /\ \A i \in 1 .. m : c[i] = R[i]
        /\ c[m + 1] = h
        /\ \A i \in 1 .. k : c[m + 1 + i] = T[i]
    BY <1>6, <1>9, <2>2, ThreeParts
  <2> QED BY <2>1, <2>3
<1>11. calls' = c
  BY <1>1, <1>3, <1>6, <1>7, <1>9
<1>12. Types'
  <2>1. 2 * capacity \in Nat \ {0} /\ DOMAIN buckets' = {}
    BY <1>1, <1>2
  <2>2. buckets' \in [DOMAIN buckets' -> Node]
    BY <1>1
  <2>3. index = 0 /\ PSL = 0 /\ cur_key \in Keys \cup {NoKey}
    BY <1>1, <1>2 DEF Types
  <2>4. index' \in 0 .. capacity' - 1
    BY <1>1, <2>1, <2>3
  <2>5. calls' \in Seq(Call)
    BY <1>10, <1>11
  <2> QED BY <1>1, <2>1, <2>2, <2>3, <2>4, <2>5 DEF Types
<1>13. ASSUME NEW i \in 1 .. size + n
       PROVE  \/ i <= size /\ c[i] = R[i]
              \/ i = size + 1 /\ c[i] = h
              \/ \E j \in 2 .. n : i = size + j /\ c[i] = calls[j]
  <2>1. CASE i > size + 1
    <3>1. PICK j : j = i - size - 1
      OBVIOUS
    <3>2. /\ j \in 1 .. n - 1 /\ i = size + 1 + j /\ j + 1 \in 2 .. n
          /\ i = size + (j + 1)
      BY <1>2, <1>5, <2>1, <3>1, SMTT(30)
    <3> QED BY <1>8, <1>10, <3>2
  <2> QED BY <1>2, <1>10, <2>1, SMTT(30)
<1>14. LoadInv'
  <2>1. 0 = Cardinality(DOMAIN buckets')
    BY <1>1, FS_EmptySet
  <2>2. ASSUME NEW i \in 1 .. size + n, c[i].checked PROVE 0 + 0 + i <= 2 * capacity
    <3>1. CASE i <= size + 1
      BY <1>2, <3>1
    <3>2. CASE ~(i <= size + 1)
      <4>1. PICK j \in 2 .. n : i = size + j /\ c[i] = calls[j]
        BY <1>2, <1>13, <3>2, SMTT(30)
      <4>2. j \in DOMAIN calls /\ calls[j].checked
        BY <1>2, <1>5, <2>2, <4>1
      <4>3. size + 0 + j <= capacity
        BY <1>1, <4>2 DEF IInv, LoadInv, InHand
      <4> QED BY <1>2, <4>1, <4>3
    <3> QED BY <3>1, <3>2
  <2> QED BY <1>1, <1>2, <1>10, <1>11, <2>1, <2>2 DEF LoadInv, InHand
<1>15. Held' = Held
  <2>1. Stored' = {} /\ Hand' = Hand
    BY <1>1 DEF Stored, Hand
  <2>2. Waiting' = {c[i].key : i \in 1 .. size + n}
    BY <1>10, <1>11 DEF Waiting
  <2>3. Waiting = {calls[i].key : i \in 1 .. n}
    BY <1>2, <1>5 DEF Waiting
  <2>4. ASSUME NEW i \in 1 .. size + n PROVE c[i].key \in Stored \cup Waiting
    <3>1. CASE i <= size /\ c[i] = R[i]
      BY <1>2, <1>4, <3>1
    <3>2. CASE c[i] = h
      BY <1>5, <1>6, <2>3, <3>2
    <3>3. ASSUME NEW j \in 2 .. n, c[i] = calls[j] PROVE c[i].key \in Waiting
      BY <1>5, <2>3, <3>3
    <3> QED BY <1>13, <3>1, <3>2, <3>3
  <2>5. ASSUME NEW i \in 1 .. size PROVE R[i].key \in Waiting'
    BY <1>2, <1>5, <1>10, <2>2
  <2>6. ASSUME NEW i \in 1 .. n PROVE calls[i].key \in Waiting'
    <3>1. CASE i = 1
      <4>1. size + 1 \in 1 .. size + n
        BY <1>2, <1>5
      <4>2. PICK j \in 1 .. size + n : j = size + 1
        BY <4>1
      <4>3. c[j].key \in Waiting'
        BY <2>2
      <4>4. c[j].key = calls[i].key
        BY <1>6, <1>10, <3>1, <4>2
      <4> QED BY <4>3, <4>4
    <3>2. CASE i # 1
      <4>1. PICK j : j = i - 1
        OBVIOUS
      <4>2. j \in 1 .. n - 1 /\ j + 1 = i /\ size + 1 + j \in 1 .. size + n
        BY <1>2, <1>5, <3>2, <4>1
      <4>3. c[size + 1 + j] = calls[i]
        BY <1>8, <1>10, <4>2
      <4> QED BY <2>2, <4>2, <4>3
    <3> QED BY <3>1, <3>2
  <2>7. Waiting' = Stored \cup Waiting
    <3>1. Waiting' \subseteq Stored \cup Waiting
      BY <2>2, <2>4
    <3>2. Stored \subseteq Waiting'
      <4>1. PICK W : W = Waiting'
        OBVIOUS
      <4>2. \A x \in Stored : \E i \in 1 .. size : R[i].key = x
        BY <1>4
      <4>3. \A x \in Stored : x \in W
        BY <2>5, <4>1, <4>2
      <4> QED BY <4>1, <4>3
    <3>3. Waiting \subseteq Waiting'
      <4>1. PICK W : W = Waiting'
        OBVIOUS
      <4>2. \A x \in Waiting : \E i \in 1 .. n : calls[i].key = x
        BY <2>3
      <4>3. \A x \in Waiting : x \in W
        BY <2>6, <4>1, <4>2
      <4> QED BY <4>1, <4>3
    <3> QED BY <3>1, <3>2, <3>3
  <2>8. Held' = Stored' \cup Waiting' \cup Hand'
    BY DEF Held, Waiting, Hand, Stored
  <2> QED BY <2>1, <2>7, <2>8, HeldIs
<1>16. SizeExact'
  <2>1. size + n + 0 = Cardinality(Held)
    BY <1>1, <1>5 DEF IInv, SizeExact
  <2>2. Len(calls') = size + n
    BY <1>10, <1>11
  <2>3. 0 + (size + n) + 0 = size + n + 0
    BY <1>2, <1>5
  <2> QED BY <1>1, <1>2, <1>15, <2>1, <2>2, <2>3 DEF SizeExact
<1>17. StoredFound' /\ HandFound' /\ MaxCovers'
  BY <1>1, <1>2 DEF StoredFound, HandFound, MaxCovers
<1> QED
  BY <1>12, <1>14, <1>15, <1>16, <1>17 DEF IInv

LEMMA BeginLoopInv ==
  ASSUME IInv, BeginLoop
  PROVE  IInv' /\ Held' = Held
<1>1. /\ calls # <<>> /\ ~InLoop /\ ~MustRehash
      /\ calls' = Tail(calls)
      /\ cur_key' = Head(calls).key /\ index' = hash[Head(calls).key] % capacity /\ PSL' = 0
      /\ UNCHANGED <<capacity, buckets, size, max_PSL>>
  BY DEF BeginLoop, map
<1>2. /\ Types /\ calls \in Seq(Call) /\ cur_key = NoKey
      /\ capacity \in Nat \ {0} /\ size \in Nat /\ NoKey \notin Keys
      /\ size = Cardinality(DOMAIN buckets)
  BY <1>1, HashAssumption DEF IInv, Types, LoadInv, InLoop
<1>3. PICK n \in Nat : n = Len(calls) /\ n >= 1 /\ DOMAIN calls = 1 .. n
  <2>1. Len(calls) \in Nat /\ Len(calls) >= 1 /\ DOMAIN calls = 1 .. Len(calls)
    BY <1>1, <1>2
  <2> QED BY <2>1
<1>4. PICK h \in Call : h = Head(calls) /\ h = calls[1]
  BY <1>1, <1>2, <1>3
<1>5. PICK key \in Keys : key = h.key /\ cur_key' = key
  BY <1>1, <1>4 DEF Call
<1>6. PICK T \in Seq(Call) : T = Tail(calls)
  BY <1>1, <1>2, HeadTailProperties
<1>7. Len(T) = n - 1 /\ DOMAIN T = 1 .. n - 1 /\ \A i \in 1 .. n - 1 : T[i] = calls[i + 1]
  <2>1. Len(T) = n - 1 /\ \A i \in 1 .. n - 1 : T[i] = calls[i + 1]
    BY <1>1, <1>2, <1>3, <1>6, HeadTailProperties
  <2> QED BY <2>1
<1>8. calls' = T /\ InLoop'
  BY <1>1, <1>2, <1>5, <1>6 DEF InLoop
<1>9. hash[key] \in Nat /\ index' = hash[key] % capacity /\ index' \in 0 .. capacity - 1
  <2>1. hash[key] \in Nat /\ index' = hash[key] % capacity
    BY <1>1, <1>4, <1>5, HashType
  <2> QED BY <1>2, <2>1, ModType
<1>10. Types'
  BY <1>1, <1>2, <1>5, <1>8, <1>9 DEF Types
<1>11. size < capacity
  <2>1. CASE h.checked
    <3>1. 1 \in DOMAIN calls /\ calls[1].checked
      BY <1>3, <1>4, <2>1
    <3>2. size + 0 + 1 <= capacity
      BY <1>1, <3>1 DEF IInv, LoadInv, InHand
    <3> QED BY <1>2, <3>2
  <2>2. CASE ~h.checked
    <3>1. ~((size + 1) * 4 >= capacity * 3)
      BY <1>1, <1>4, <2>2 DEF MustRehash, Overloaded
    <3> QED BY <1>2, <3>1
  <2> QED BY <2>1, <2>2
<1>12. LoadInv'
  <2>1. ASSUME NEW i \in 1 .. n - 1, T[i].checked PROVE size + 1 + i <= capacity
    <3>1. i + 1 \in DOMAIN calls /\ calls[i + 1].checked
      BY <1>3, <1>7, <2>1
    <3>2. size + 0 + (i + 1) <= capacity
      BY <1>1, <3>1 DEF IInv, LoadInv, InHand
    <3> QED BY <1>2, <3>2
  <2> QED BY <1>1, <1>2, <1>7, <1>8, <1>11, <2>1 DEF LoadInv, InHand
<1>13. Held' = Held
  <2>1. Stored' = Stored /\ Hand' = {key} /\ Hand = {}
    BY <1>1, <1>2, <1>5 DEF Stored, Hand
  <2>2. Waiting' = {T[i].key : i \in 1 .. n - 1}
    BY <1>7, <1>8 DEF Waiting
  <2>3. Waiting = {calls[i].key : i \in 1 .. n}
    BY <1>3 DEF Waiting
  <2>4. Waiting = {T[i].key : i \in 1 .. n - 1} \cup {key}
    <3>1. ASSUME NEW i \in 1 .. n - 1 PROVE T[i].key \in Waiting
      <4>1. i + 1 \in 1 .. n /\ T[i].key = calls[i + 1].key
        BY <1>7
      <4> QED BY <2>3, <4>1
    <3>2. key \in Waiting
      BY <1>3, <1>4, <1>5, <2>3
    <3>3. ASSUME NEW i \in 1 .. n, i # 1 PROVE calls[i].key \in {T[j].key : j \in 1 .. n - 1}
      <4>1. PICK j : j = i - 1
        OBVIOUS
      <4>2. j \in 1 .. n - 1 /\ j + 1 = i
        BY <3>3, <4>1
      <4> QED BY <1>7, <4>2
    <3>4. calls[1].key = key
      BY <1>4, <1>5
    <3> QED BY <2>3, <3>1, <3>2, <3>3, <3>4
  <2>5. Held' = Stored' \cup Waiting' \cup Hand'
    BY DEF Held, Waiting, Hand, Stored
  <2> QED BY <2>1, <2>2, <2>4, <2>5, HeldIs
<1>14. SizeExact'
  <2>1. size + n + 0 = Cardinality(Held)
    BY <1>1, <1>3 DEF IInv, SizeExact
  <2>2. Len(calls') = n - 1
    BY <1>7, <1>8
  <2>3. size + (n - 1) + 1 = size + n + 0
    BY <1>2, <1>3
  <2> QED BY <1>1, <1>8, <1>13, <2>1, <2>2, <2>3 DEF SizeExact
<1>15. StoredFound'
  BY <1>1 DEF IInv, StoredFound, Found, Probed, Reaches
<1>16. MaxCovers'
  BY <1>8 DEF MaxCovers
<1>17. HandFound'
  <2>1. ReachesFrom(index, 0)'
    BY DEF ReachesFrom
  <2>2. Found(cur_key, (index + 0) % capacity, 0)'
    <3>1. PICK x \in Nat : x = index'
      BY <1>9, <1>2
    <3>2. (x + 0) % capacity = x /\ (hash[key] + 0) % capacity = x
      <4>1. x + 0 = capacity * 0 + x /\ x \in 0 .. capacity - 1
        BY <1>2, <1>9, <3>1
      <4>2. (capacity * 0 + x) % capacity = x
        BY <1>2, <4>1, ModIs
      <4>3. hash[key] + 0 = hash[key]
        BY <1>9
      <4> QED BY <1>9, <3>1, <4>1, <4>2, <4>3
    <3>3. Probed(key, 0)' = x
      BY <1>1, <3>2 DEF Probed
    <3>4. Reaches(key, 0)'
      BY DEF Reaches
    <3> QED BY <1>1, <1>5, <3>1, <3>2, <3>3, <3>4 DEF Found
  <2>3. \A b \in DOMAIN buckets' : buckets'[b].PSL <= max_PSL'
    BY <1>1 DEF IInv, MaxCovers
  <2>4. InHandFound(0)'
    BY <1>1, <2>1, <2>2, <2>3 DEF InHandFound
  <2> QED BY <2>4 DEF HandFound
<1> QED
  BY <1>10, <1>12, <1>13, <1>14, <1>15, <1>16, <1>17 DEF IInv

\* The bucket looked at is taken, as long as the key in hand has not come to where
\* it may be placed.
LEMMA HandBucket ==
  ASSUME Types, InLoop, NEW t \in Nat, InHandFound(t), PSL < t
  PROVE  Here \in DOMAIN buckets /\ buckets[Here].PSL >= PSL
<1>1. PSL \in 0 .. t - 1
  BY DEF Types
<1> QED
  BY <1>1 DEF InHandFound, ReachesFrom, Here

\* A key that is placed, or put down, is where it is found.
LEMMA PutDown ==
  ASSUME Types, InLoop, StoredFound, NEW t \in Nat, InHandFound(t), PSL = t,
         Stores(Here, [key |-> cur_key, PSL |-> PSL]), NodesGrow
  PROVE  StoredFound'
<1>1. PICK h : h = Here
  OBVIOUS
<1>2. PICK k \in Keys : k = cur_key
  BY DEF Types, InLoop
<1>3. /\ DOMAIN buckets' = DOMAIN buckets \cup {h} /\ buckets'[h] = [key |-> k, PSL |-> t]
      /\ \A b \in DOMAIN buckets : b # h => buckets'[b] = buckets[b]
  BY <1>1, <1>2 DEF Stores
<1>4. ASSUME NEW b \in DOMAIN buckets'
      PROVE  \E x, p : x = buckets'[b].key /\ p = buckets'[b].PSL /\ Found(x, b, p)'
  <2>1. CASE b = h
    <3>1. Found(k, h, t)
      BY <1>1, <1>2 DEF InHandFound, Here
    <3>2. Found(k, h, t)'
      BY <3>1, FoundKept
    <3>3. buckets'[b].key = k /\ buckets'[b].PSL = t
      BY <1>3, <2>1
    <3> QED BY <2>1, <3>2, <3>3
  <2>2. CASE b # h
    <3>1. b \in DOMAIN buckets /\ buckets'[b] = buckets[b]
      BY <1>3, <2>2
    <3>2. PICK x \in Keys, p \in Nat : x = buckets[b].key /\ p = buckets[b].PSL
      BY <3>1, NodeType
    <3>3. Found(x, b, p)
      BY <3>1, <3>2 DEF StoredFound
    <3>4. Found(x, b, p)'
      BY <3>3, FoundKept
    <3> QED BY <3>1, <3>2, <3>4
  <2> QED BY <2>1, <2>2
<1> QED
  BY <1>4 DEF StoredFound, Found

LEMMA PlaceInv ==
  ASSUME IInv, Place
  PROVE  IInv' /\ Held' = Held
<1>1. /\ InLoop /\ Here \notin DOMAIN buckets
      /\ buckets' = Store(Here, [key |-> cur_key, PSL |-> PSL])
      /\ size' = size + 1 /\ max_PSL' = Larger(PSL, max_PSL)
      /\ cur_key' = NoKey /\ index' = 0 /\ PSL' = 0
      /\ UNCHANGED <<capacity, calls>>
  BY DEF Place
<1>2. /\ Types /\ ~InLoop' /\ cur_key \in Keys /\ cur_key # NoKey
      /\ capacity \in Nat \ {0} /\ size \in Nat /\ PSL \in Nat /\ max_PSL \in Nat
      /\ size = Cardinality(DOMAIN buckets) /\ size < capacity
      /\ IsFiniteSet(DOMAIN buckets)
  BY <1>1, BucketsFinite DEF IInv, Types, LoadInv, InLoop
<1>3. PICK h \in 0 .. capacity - 1 : h = Here
  BY <1>2, HereIs
<1>4. PICK node \in Node : node = [key |-> cur_key, PSL |-> PSL]
  BY <1>1, <1>2, HandNode
<1>5. Stores(h, node)
  BY <1>1, <1>2, <1>3, <1>4, StoreIs
<1>6. PICK t \in Nat : InHandFound(t)
  BY <1>1 DEF IInv, HandFound
<1>7. PSL = t
  <2>1. ~(PSL < t)
    BY <1>1, <1>2, <1>6, HandBucket
  <2> QED BY <1>2, <1>6, <2>1 DEF InHandFound
<1>8. NodesGrow
  BY <1>1, <1>2, <1>3, <1>5, NodeType DEF NodesGrow, Stores
<1>9. max_PSL' \in Nat /\ max_PSL' >= PSL /\ max_PSL' >= max_PSL
  BY <1>1, <1>2 DEF Larger
<1>10. Types'
  <2>1. DOMAIN buckets' \subseteq 0 .. capacity' - 1 /\ buckets' \in [DOMAIN buckets' -> Node]
    BY <1>1, <1>2, <1>3, <1>5 DEF Stores, Types
  <2> QED BY <1>1, <1>2, <1>9, <2>1 DEF Types
<1>11. StoredFound'
  BY <1>1, <1>2, <1>3, <1>4, <1>5, <1>6, <1>7, <1>8, PutDown DEF IInv
<1>12. MaxCovers'
  <2>1. ASSUME NEW b \in DOMAIN buckets' PROVE buckets'[b].PSL <= max_PSL'
    <3>1. CASE b = h
      BY <1>2, <1>4, <1>5, <1>9, <3>1 DEF Stores
    <3>2. CASE b # h
      <4>1. b \in DOMAIN buckets /\ buckets'[b] = buckets[b]
        BY <1>5, <3>2 DEF Stores
      <4>2. buckets[b].PSL \in Nat
        BY <1>2, <4>1, NodeType
      <4>3. buckets[b].PSL <= max_PSL \/ buckets[b].PSL < PSL
        BY <1>6, <1>7, <4>1 DEF InHandFound
      <4> QED BY <1>2, <1>9, <4>1, <4>2, <4>3
    <3> QED BY <3>1, <3>2
  <2> QED BY <2>1 DEF MaxCovers
<1>13. HandFound'
  BY <1>2 DEF HandFound
<1>14. Cardinality(DOMAIN buckets') = size + 1
  <2>1. DOMAIN buckets' = DOMAIN buckets \cup {h} /\ h \notin DOMAIN buckets
    BY <1>1, <1>3, <1>5 DEF Stores
  <2> QED BY <1>2, <2>1, FS_AddElement
<1>15. LoadInv'
  <2>1. ASSUME NEW i \in DOMAIN calls, calls[i].checked PROVE size + 1 + 0 + i <= capacity
    <3>1. size + 1 + i <= capacity
      BY <1>1, <2>1 DEF IInv, LoadInv, InHand
    <3>2. i \in Nat
      BY <1>2, LenProperties DEF Types
    <3> QED BY <1>2, <3>1, <3>2
  <2> QED BY <1>1, <1>2, <1>14, <2>1 DEF LoadInv, InHand
<1>16. Held' = Held
  <2>1. Stored' = Stored \cup {cur_key}
    <3>1. ASSUME NEW b \in DOMAIN buckets PROVE buckets'[b].key = buckets[b].key /\ b \in DOMAIN buckets'
      BY <1>1, <1>3, <1>5 DEF Stores
    <3>2. h \in DOMAIN buckets' /\ buckets'[h].key = cur_key
      BY <1>4, <1>5 DEF Stores
    <3>3. DOMAIN buckets' = DOMAIN buckets \cup {h}
      BY <1>5 DEF Stores
    <3> QED BY <3>1, <3>2, <3>3 DEF Stored
  <2>2. Waiting' = Waiting /\ Hand' = {} /\ Hand = {cur_key}
    BY <1>1, <1>2 DEF Waiting, Hand
  <2>3. Held' = Stored' \cup Waiting' \cup Hand'
    BY DEF Held, Waiting, Hand, Stored
  <2> QED BY <2>1, <2>2, <2>3, HeldIs
<1>17. SizeExact'
  <2>1. size + Len(calls) + 1 = Cardinality(Held)
    BY <1>1 DEF IInv, SizeExact
  <2>2. Len(calls) \in Nat
    BY <1>2, LenProperties DEF Types
  <2>3. size + 1 + Len(calls) + 0 = size + Len(calls) + 1
    BY <1>2, <2>2
  <2> QED BY <1>1, <1>2, <1>16, <2>1, <2>3 DEF SizeExact
<1> QED
  BY <1>10, <1>11, <1>12, <1>13, <1>15, <1>16, <1>17 DEF IInv

LEMMA SwapInv ==
  ASSUME IInv, Swap
  PROVE  IInv' /\ Held' = Held
<1>1. /\ InLoop /\ Displaces
      /\ buckets' = Store(Here, [key |-> cur_key, PSL |-> PSL])
      /\ cur_key' = buckets[Here].key /\ PSL' = AfterSwap(buckets[Here])
      /\ max_PSL' = Larger(AfterSwap(buckets[Here]), max_PSL)
      /\ UNCHANGED <<capacity, size, calls, index>>
  BY DEF Swap
<1>2. /\ Types /\ cur_key \in Keys /\ cur_key # NoKey /\ NoKey \notin Keys
      /\ capacity \in Nat \ {0} /\ size \in Nat /\ PSL \in Nat /\ max_PSL \in Nat
      /\ index \in Nat /\ index \in 0 .. capacity - 1
      /\ size = Cardinality(DOMAIN buckets) /\ size < capacity
  BY <1>1, HashAssumption DEF IInv, Types, LoadInv, InLoop
<1>3. PICK h \in 0 .. capacity - 1 : h = Here
  BY <1>2, HereIs
<1>4. PICK node \in Node : node = [key |-> cur_key, PSL |-> PSL]
  BY <1>1, <1>2, HandNode
<1>5. Stores(h, node)
  BY <1>1, <1>2, <1>3, <1>4, StoreIs
<1>6. PICK t \in Nat : InHandFound(t)
  BY <1>1 DEF IInv, HandFound
<1>7. PICK x \in Keys, q \in Nat : x = buckets[h].key /\ q = buckets[h].PSL
  BY <1>1, <1>2, <1>3, NodeType DEF Displaces
<1>8. h \in DOMAIN buckets /\ PSL > q
  BY <1>1, <1>3, <1>7 DEF Displaces
<1>9. PSL = t
  <2>1. PSL < t => q >= PSL
    BY <1>1, <1>2, <1>3, <1>6, <1>7, HandBucket
  <2> QED BY <1>2, <1>6, <1>8, <2>1 DEF InHandFound
<1>10. cur_key' = x /\ PSL' = q + 1 /\ max_PSL' \in Nat /\ max_PSL' >= max_PSL /\ InLoop'
  BY <1>1, <1>2, <1>3, <1>7 DEF AfterSwap, Larger, InLoop
<1>11. buckets'[h].key = cur_key /\ buckets'[h].PSL = t /\ DOMAIN buckets' = DOMAIN buckets
  BY <1>4, <1>5, <1>8, <1>9 DEF Stores
<1>12. NodesGrow
  <2>1. ASSUME NEW b \in DOMAIN buckets
        PROVE  buckets'[b].PSL \in Nat /\ buckets'[b].PSL >= buckets[b].PSL
    <3>1. CASE b = h
      BY <1>2, <1>7, <1>8, <1>9, <1>11, <3>1
    <3>2. CASE b # h
      BY <1>2, <1>5, <3>2, NodeType DEF Stores
    <3> QED BY <3>1, <3>2
  <2> QED BY <1>1, <1>11, <2>1 DEF NodesGrow
<1>13. Types'
  <2>1. DOMAIN buckets' \subseteq 0 .. capacity' - 1 /\ buckets' \in [DOMAIN buckets' -> Node]
    BY <1>1, <1>2, <1>5, <1>11 DEF Stores, Types
  <2> QED BY <1>1, <1>2, <1>10, <2>1 DEF Types
<1>14. StoredFound'
  BY <1>1, <1>2, <1>3, <1>4, <1>5, <1>6, <1>9, <1>12, PutDown DEF IInv
<1>15. HandFound'
  <2>1. ReachesFrom(index, t)'
    <3>1. PICK home \in Nat : home = index
      BY <1>2
    <3>2. ReachesFrom(home, t)'
      BY <1>2, <1>6, <1>12, <3>1, ReachesKept DEF InHandFound
    <3> QED BY <1>1, <3>1, <3>2 DEF ReachesFrom
  <2>2. PICK z \in Nat : z = index + t
    BY <1>2
  <2>3. h = z % capacity /\ z % capacity \in DOMAIN buckets
    BY <1>3, <1>8, <1>9, <2>2 DEF Here
  <2>4. ReachesFrom(index, t + 1)'
    <3>1. \A p \in 0 .. (t + 1) - 1 : p \in 0 .. t - 1 \/ p = t
      OBVIOUS
    <3>2. \A p \in 0 .. t - 1 : /\ (index + p) % capacity \in DOMAIN buckets'
                                /\ buckets'[(index + p) % capacity].PSL >= p
      BY <1>1, <2>1 DEF ReachesFrom
    <3>3. (index + t) % capacity \in DOMAIN buckets' /\ buckets'[(index + t) % capacity].PSL >= t
      BY <1>8, <1>11, <2>2, <2>3
    <3> QED BY <1>1, <3>1, <3>2, <3>3 DEF ReachesFrom
  <2>5. Found(x, (z + 1) % capacity, q + 1)
    <3>1. Found(x, z % capacity, q)
      BY <1>7, <1>8, <2>3 DEF IInv, StoredFound
    <3>2. buckets[z % capacity].PSL >= q /\ q <= q
      BY <1>7, <2>3
    <3> QED BY <1>2, <2>3, <3>1, <3>2, FoundNext
  <2>6. Found(x, (z + 1) % capacity, t + 1)'
    <3>1. q + 1 \in Nat /\ t + 1 \in Nat /\ q + 1 <= t + 1
      BY <1>8, <1>9
    <3>2. PICK w : w = (z + 1) % capacity
      OBVIOUS
    <3>3. Found(x, w, t + 1)'
      BY <1>2, <1>12, <2>5, <3>1, <3>2, FoundKept
    <3> QED BY <1>1, <3>2, <3>3 DEF Found
  <2>7. z + 1 = index + (t + 1)
    BY <1>2, <2>2
  <2>8. ASSUME NEW b \in DOMAIN buckets'
        PROVE  buckets'[b].PSL <= max_PSL' \/ buckets'[b].PSL < t + 1
    <3>1. CASE b = h
      BY <1>11, <3>1
    <3>2. CASE b # h
      <4>1. b \in DOMAIN buckets /\ buckets'[b] = buckets[b]
        BY <1>5, <1>11, <3>2 DEF Stores
      <4>2. buckets[b].PSL \in Nat
        BY <1>2, <4>1, NodeType
      <4>3. buckets[b].PSL <= max_PSL \/ buckets[b].PSL < t
        BY <1>6, <4>1 DEF InHandFound
      <4> QED BY <1>2, <1>10, <4>1, <4>2, <4>3
    <3> QED BY <3>1, <3>2
  <2>9. PSL' <= t + 1 /\ t + 1 \in Nat
    BY <1>8, <1>9, <1>10
  <2>10. Found(cur_key, (index + (t + 1)) % capacity, t + 1)'
    BY <1>1, <1>10, <2>6, <2>7 DEF Found
  <2>11. InHandFound(t + 1)'
    BY <2>4, <2>8, <2>9, <2>10 DEF InHandFound
  <2> QED BY <2>9, <2>11 DEF HandFound
<1>16. MaxCovers'
  BY <1>10 DEF MaxCovers
<1>17. LoadInv'
  BY <1>1, <1>2, <1>10, <1>11 DEF IInv, LoadInv, InHand
<1>18. Held' = Held
  <2>1. Stored \cup {cur_key} = Stored' \cup {x}
    <3>1. ASSUME NEW b \in DOMAIN buckets, b # h PROVE buckets'[b].key = buckets[b].key
      BY <1>5, <3>1 DEF Stores
    <3> QED BY <1>7, <1>8, <1>11, <3>1 DEF Stored
  <2>2. Waiting' = Waiting /\ Hand' = {x} /\ Hand = {cur_key}
    BY <1>1, <1>2, <1>10 DEF Waiting, Hand
  <2>3. Held' = Stored' \cup Waiting' \cup Hand'
    BY DEF Held, Waiting, Hand, Stored
  <2> QED BY <2>1, <2>2, <2>3, HeldIs
<1>19. SizeExact'
  BY <1>1, <1>10, <1>18 DEF IInv, SizeExact
<1> QED
  BY <1>13, <1>14, <1>15, <1>16, <1>17, <1>18, <1>19 DEF IInv

LEMMA StepInv ==
  ASSUME IInv, Step
  PROVE  IInv' /\ Held' = Held
<1>1. /\ InLoop /\ Here \in DOMAIN buckets /\ ~Displaces
      /\ PSL' = PSL + 1
      /\ UNCHANGED <<capacity, buckets, size, max_PSL, calls, cur_key, index>>
  BY DEF Step, map
<1>2. /\ Types /\ cur_key \in Keys /\ InLoop'
      /\ capacity \in Nat \ {0} /\ PSL \in Nat /\ index \in Nat /\ max_PSL \in Nat
  BY <1>1 DEF IInv, Types, InLoop
<1>3. Held' = Held
  BY <1>1 DEF Held, Stored
<1>4. Types' /\ LoadInv' /\ MaxCovers' /\ SizeExact'
  BY <1>1, <1>2, <1>3 DEF IInv, Types, LoadInv, InHand, MaxCovers, SizeExact, InLoop
<1>5. StoredFound'
  BY <1>1 DEF IInv, StoredFound, Found, Probed, Reaches
<1>6. PICK t \in Nat : InHandFound(t)
  BY <1>1 DEF IInv, HandFound
<1>7. PICK k \in Keys, home \in Nat : k = cur_key /\ home = index
  BY <1>2
<1>8. ASSUME NEW s \in Nat, InHandFound(s), PSL + 1 <= s PROVE HandFound'
  <2>1. InHandFound(s)'
    BY <1>1, <1>8 DEF InHandFound, ReachesFrom, Found, Probed, Reaches
  <2> QED BY <2>1 DEF HandFound
<1>9. ASSUME PSL < t PROVE HandFound'
  <2>1. PSL + 1 <= t
    BY <1>2, <1>9
  <2> QED BY <1>6, <1>8, <2>1
<1>10. ASSUME PSL = t PROVE HandFound'
  <2>1. PICK z \in Nat : z = home + t
    OBVIOUS
  <2>2. z % capacity \in DOMAIN buckets /\ buckets[z % capacity].PSL \in Nat
    BY <1>1, <1>2, <1>7, <1>10, <2>1, NodeType DEF Here
  <2>3. buckets[z % capacity].PSL >= t
    BY <1>1, <1>2, <1>7, <1>10, <2>1, <2>2 DEF Displaces, Here
  <2>4. ReachesFrom(home, t + 1)
    <3>1. ReachesFrom(home, t)
      BY <1>6, <1>7 DEF InHandFound
    <3>2. (home + t) % capacity \in DOMAIN buckets /\ buckets[(home + t) % capacity].PSL >= t
      BY <2>1, <2>2, <2>3
    <3> QED BY <3>1, <3>2, ReachesNext
  <2>5. Found(k, (z + 1) % capacity, t + 1)
    <3>1. Found(k, z % capacity, t) /\ t <= t
      BY <1>6, <1>7, <2>1 DEF InHandFound
    <3> QED BY <1>2, <2>2, <2>3, <3>1, FoundNext
  <2>6. z + 1 = home + (t + 1) /\ t + 1 \in Nat
    BY <2>1
  <2>7. \A b \in DOMAIN buckets : buckets[b].PSL <= max_PSL \/ buckets[b].PSL < t + 1
    <3>1. \A b \in DOMAIN buckets : buckets[b].PSL \in Nat
      BY <1>2, NodeType
    <3> QED BY <1>6, <3>1 DEF InHandFound
  <2>8. PICK s \in Nat : s = t + 1
    BY <2>6
  <2>9. ReachesFrom(index, s) /\ Found(cur_key, (index + s) % capacity, s)
    BY <1>7, <2>4, <2>5, <2>6, <2>8
  <2>10. PSL <= s /\ PSL + 1 <= s
    BY <1>10, <2>8
  <2>11. InHandFound(s)
    BY <2>7, <2>8, <2>9, <2>10 DEF InHandFound
  <2> QED BY <1>8, <2>10, <2>11
<1>11. PSL <= t
  BY <1>6 DEF InHandFound
<1>12. PSL < t \/ PSL = t
  BY <1>2, <1>11
<1>13. HandFound'
  BY <1>9, <1>10, <1>12
<1>14. IsFiniteSet(Held)'
  BY <1>3 DEF IInv
<1> QED
  BY <1>3, <1>4, <1>5, <1>13, <1>14 DEF IInv

LEMMA ReserveInv ==
  ASSUME IInv, NEW expected \in Reserves, Reserve(expected)
  PROVE  IInv' /\ Held' = Held
<1>1. /\ calls = <<>> /\ cur_key = NoKey /\ buckets = << >>
      /\ capacity' = next_power_of_two((expected * 3) \div 2)
      /\ UNCHANGED <<buckets, size, max_PSL, calls, cur_key, index, PSL>>
  BY DEF Reserve, Idle, loop
<1>2. capacity' \in Nat \ {0}
  <2>1. (expected * 3) \div 2 \in Nat
    BY HashAssumption
  <2> QED BY <1>1, <2>1, PowerType
<1>3. ~InLoop /\ ~InLoop' /\ index = 0 /\ PSL = 0 /\ DOMAIN buckets = {} /\ DOMAIN calls = {}
  BY <1>1 DEF InLoop, IInv, Types
<1>4. Held' = Held
  BY <1>1 DEF Held, Stored
<1>5. Types'
  BY <1>1, <1>2, <1>3 DEF IInv, Types, InLoop
<1>6. LoadInv' /\ StoredFound' /\ HandFound' /\ MaxCovers'
  BY <1>1, <1>3 DEF IInv, LoadInv, StoredFound, HandFound, MaxCovers
<1>7. SizeExact'
  BY <1>1, <1>3, <1>4 DEF IInv, SizeExact
<1> QED
  BY <1>4, <1>5, <1>6, <1>7 DEF IInv

LEMMA UnchangedInv == IInv /\ UNCHANGED vars => IInv' /\ Held' = Held
<1> SUFFICES ASSUME IInv, UNCHANGED vars PROVE IInv' /\ Held' = Held
  OBVIOUS
<1>1. UNCHANGED <<capacity, buckets, size, max_PSL, calls, cur_key, index, PSL>>
  BY DEF vars, map, loop
<1>2. Held' = Held
  BY <1>1 DEF Held, Stored
<1>3. Types' /\ LoadInv' /\ MaxCovers' /\ SizeExact'
  BY <1>1, <1>2 DEF IInv, Types, LoadInv, InHand, MaxCovers, SizeExact, InLoop
<1>4. StoredFound' /\ HandFound'
  BY <1>1 DEF IInv, StoredFound, HandFound, InHandFound, ReachesFrom, Found, Probed, Reaches, InLoop
<1> QED
  BY <1>2, <1>3, <1>4 DEF IInv

LEMMA RunningInv == IInv /\ Running => IInv' /\ Held' = Held
  BY RehashInv, BeginLoopInv, PlaceInv, SwapInv, StepInv DEF Running

LEMMA InvStep == IInv /\ [Next]_vars => IInv'
  BY EmplaceInv, ReserveInv, RunningInv, UnchangedInv DEF Next, Find

\* The invariant holds in every state.
THEOREM Invariant == Spec => []IInv
  BY InitInv, InvStep, PTL DEF Spec
-----------------------------------------------------------------------------
(* What follows.                                                           *)

\* size counts the nodes, and no displacement or rehash leaves a key in two places
\* (emplace, rehash).
THEOREM SizeIsExact == Spec => []SizeExact
<1>1. IInv => SizeExact
  BY DEF IInv
<1> QED
  BY <1>1, Invariant, PTL

\* Between two calls find finds the keys that are stored and no other, although it
\* gives up at the first shorter probe and after max_PSL steps.
THEOREM FindIsExact == Spec => []FindExact
<1>1. IInv => FindExact
  <2> SUFFICES ASSUME IInv, Idle, NEW key \in Keys PROVE find(key) <=> key \in Stored
    BY DEF FindExact
  <2>1. ASSUME find(key) PROVE key \in Stored
    BY <2>1 DEF find, Stored
  <2>2. ASSUME key \in Stored PROVE find(key)
    <3>1. PICK b \in DOMAIN buckets : buckets[b].key = key
      BY <2>2 DEF Stored
    <3>2. Found(key, b, buckets[b].PSL)
      BY <3>1 DEF IInv, StoredFound
    <3>3. PICK d \in 0 .. buckets[b].PSL : Probed(key, d) = b /\ Reaches(key, d)
      BY <3>2 DEF Found
    <3>4. buckets[b].PSL \in Nat /\ buckets[b].PSL <= max_PSL /\ max_PSL \in Nat
      BY <3>1, NodeType DEF IInv, MaxCovers, Idle, InLoop, Types
    <3>5. d \in 0 .. max_PSL
      BY <3>3, <3>4
    <3> QED BY <3>1, <3>3, <3>5 DEF find
  <2> QED BY <2>1, <2>2
<1> QED
  BY <1>1, Invariant, PTL

\* While a key looks for a bucket there is one free, and no probe goes round.
THEOREM EveryProbeEnds == Spec => []ProbeEnds
<1>1. IInv => ProbeEnds
  <2> SUFFICES ASSUME IInv, InLoop
               PROVE  Cardinality(DOMAIN buckets) < capacity /\ PSL < capacity
    BY DEF ProbeEnds
  <2>1. Cardinality(DOMAIN buckets) < capacity
    BY DEF IInv, LoadInv
  <2>2. PICK t \in Nat : InHandFound(t)
    BY DEF IInv, HandFound
  <2>3. t < capacity
    BY <2>1, <2>2, ProbeIsShort DEF InHandFound, IInv
  <2>4. PSL <= t /\ PSL \in Nat /\ capacity \in Nat
    BY <2>2 DEF InHandFound, IInv, Types
  <2> QED BY <2>1, <2>3, <2>4
<1> QED
  BY <1>1, Invariant, PTL

LEMMA IndexStep == IInv /\ [Next]_vars => [Index!Next]_Held
<1> SUFFICES ASSUME IInv, [Next]_vars PROVE Index!Next \/ Held' = Held
  OBVIOUS
<1>1. ASSUME NEW key \in Keys \ Stored, Emplace(key) PROVE Index!Next
  BY <1>1, EmplaceInv DEF Index!Next, Index!Emplace
<1>2. CASE \E expected \in Reserves : Reserve(expected)
  BY <1>2, ReserveInv
<1>3. CASE Find \/ UNCHANGED vars
  BY <1>3, UnchangedInv DEF Find
<1>4. CASE Running
  BY <1>4, RunningInv
<1> QED
  BY <1>1, <1>2, <1>3, <1>4 DEF Next

\* The map implements IndexSpec: through every displacement and rehash it is a set
\* that grows by one key with every emplace.
THEOREM IndexIsImplemented == Spec => ImplementsIndex
<1>1. Init => Index!Init
  <2> SUFFICES ASSUME Init PROVE Held = {}
    BY DEF Index!Init
  <2>1. DOMAIN buckets = {} /\ DOMAIN calls = {} /\ cur_key = NoKey
    BY DEF Init
  <2> QED BY <2>1 DEF Held, Stored
<1> QED
  BY <1>1, IndexStep, Invariant, PTL DEF Spec, ImplementsIndex, Index!Spec
-----------------------------------------------------------------------------
(* Hopscotch hashing.  The two modules name alike what is alike in the     *)
(* maps: the variables that they share, and LoadInv, Call, Waiting and     *)
(* Hand, are those of either map.                                          *)

VARIABLES neighbours, hop_info, free

Hop == INSTANCE HopscotchMap

HopTypes ==
  /\ capacity \in Nat \ {0} /\ neighbours \in Nat \ {0}
  /\ DOMAIN buckets \subseteq 0 .. capacity - 1
  /\ \A b \in DOMAIN buckets : buckets[b] \in Keys
  /\ hop_info \in [0 .. capacity - 1 -> SUBSET (0 .. neighbours - 1)]
  /\ size \in Nat
  /\ calls \in Seq(Call)
  /\ cur_key \in Keys \cup {NoKey}
  /\ InLoop => free \in 0 .. capacity - 1 /\ free \notin DOMAIN buckets

\* Every node lies in the neighbourhood of its home.
NodesNear == \A b \in DOMAIN buckets : Hop!Distance(Hop!Home(buckets[b]), b) < neighbours

HopInv == HopTypes /\ LoadInv /\ Hop!HopExact /\ NodesNear

LEMMA DistanceIs ==
  ASSUME NEW c \in Nat \ {0}, NEW a \in 0 .. c - 1, NEW b \in 0 .. c - 1
  PROVE  (b - a) % c = IF a <= b THEN b - a ELSE b - a + c
OBVIOUS

LEMMA BeyondIs ==
  ASSUME NEW c \in Nat \ {0}, NEW a \in 0 .. c - 1, NEW d \in 0 .. c - 1
  PROVE  (a + d) % c = IF a + d < c THEN a + d ELSE a + d - c
OBVIOUS

LEMMA BackAndForth ==
  ASSUME NEW c \in Nat \ {0}, NEW f \in 0 .. c - 1, NEW o \in 0 .. c - 1, NEW d \in 0 .. c - 1
  PROVE  (f - o + d) % c = (((f - o) % c) + d) % c
OBVIOUS

\* The bucket at the distance of b from a is b, and nothing nearer is.
LEMMA DistanceBeyond ==
  ASSUME NEW c \in Nat \ {0}, NEW a \in 0 .. c - 1, NEW b \in 0 .. c - 1
  PROVE  (b - a) % c \in 0 .. c - 1 /\ (a + ((b - a) % c)) % c = b
<1>1. PICK d : d = (b - a) % c
  OBVIOUS
<1>2. d = IF a <= b THEN b - a ELSE b - a + c
  BY <1>1, DistanceIs
<1>3. d \in 0 .. c - 1
  BY <1>2
<1>4. (a + d) % c = b
  BY <1>2, <1>3, BeyondIs
<1> QED
  BY <1>1, <1>3, <1>4

LEMMA BeyondDistance ==
  ASSUME NEW c \in Nat \ {0}, NEW a \in 0 .. c - 1, NEW d \in 0 .. c - 1
  PROVE  (a + d) % c \in 0 .. c - 1 /\ (((a + d) % c) - a) % c = d
<1>1. PICK b : b = (a + d) % c
  OBVIOUS
<1>2. b = IF a + d < c THEN a + d ELSE a + d - c
  BY <1>1, BeyondIs
<1>3. b \in 0 .. c - 1
  BY <1>2
<1>4. (b - a) % c = d
  BY <1>2, <1>3, DistanceIs
<1> QED
  BY <1>1, <1>3, <1>4

LEMMA HomeIs ==
  ASSUME HopTypes, NEW key \in Keys
  PROVE  Hop!Home(key) \in 0 .. capacity - 1
<1>1. hash[key] \in Nat /\ capacity \in Nat \ {0}
  BY HashType DEF HopTypes
<1> QED
  BY <1>1, ModType DEF Hop!Home

LEMMA WidthType == ASSUME NEW cap \in Nat PROVE Hop!compute_neighborhood(cap) \in Nat \ {0}
  BY DEF Hop!compute_neighborhood

LEMMA HopPowerIs == ASSUME NEW n PROVE Hop!next_power_of_two(n) = next_power_of_two(n)
  BY DEF Hop!next_power_of_two, next_power_of_two

\* A map that has been cleared.
LEMMA ClearedInv ==
  ASSUME NEW cap \in Nat \ {0}, Hop!Cleared(cap), size' = 0, calls' \in Seq(Call), cur_key' = NoKey,
         \A i \in DOMAIN calls' : calls'[i].checked => i <= cap
  PROVE  HopInv' /\ Hop!Stored' = {}
<1>1. /\ capacity' = cap /\ neighbours' \in Nat \ {0} /\ buckets' = << >> /\ DOMAIN buckets' = {}
      /\ hop_info' = [b \in 0 .. cap - 1 |-> {}]
      /\ ~InLoop'
  BY WidthType DEF Hop!Cleared, InLoop
<1>2. HopTypes'
  BY <1>1 DEF HopTypes
<1>3. LoadInv'
  <2>1. size' = Cardinality(DOMAIN buckets')
    BY <1>1, FS_EmptySet
  <2>2. ASSUME NEW i \in DOMAIN calls', calls'[i].checked PROVE size' + 0 + i <= capacity'
    <3>1. i \in Nat /\ i <= cap
      BY <2>2
    <3> QED BY <1>1, <3>1
  <2> QED BY <1>1, <2>1, <2>2 DEF LoadInv, InHand
<1>4. Hop!HopExact'
  BY <1>1 DEF Hop!HopExact
<1>5. NodesNear' /\ Hop!Stored' = {}
  BY <1>1 DEF NodesNear, Hop!Stored
<1> QED
  BY <1>2, <1>3, <1>4, <1>5 DEF HopInv

LEMMA HopReinserted ==
  ASSUME HopTypes
  PROVE  /\ Hop!Reinserted \in Seq(Call) /\ Len(Hop!Reinserted) = Cardinality(DOMAIN buckets)
         /\ \A i \in DOMAIN Hop!Reinserted : ~Hop!Reinserted[i].checked
         /\ {Hop!Reinserted[i].key : i \in DOMAIN Hop!Reinserted} = Hop!Stored
<1> DEFINE UpTo(f) ==
             f = [n \in 0 .. capacity |->
                    IF n = 0 THEN <<>>
                    ELSE IF n - 1 \in DOMAIN buckets THEN Append(f[n - 1], buckets[n - 1])
                                                     ELSE f[n - 1]]
           g == CHOOSE f : UpTo(f)
<1>1. PICK n, ks : n = capacity /\ ks = buckets
  OBVIOUS
<1>2. n \in Nat /\ KeysBelow(ks, n)
  BY <1>1 DEF HopTypes, KeysBelow
<1>3. \A f : UpTo(f) <=> Gathers(ks, f, n)
  BY <1>1 DEF Gathers, GatherStep
<1>4. Hop!KeysInOrder = g[n]
  BY <1>1 DEF Hop!KeysInOrder
<1> HIDE DEF UpTo
<1>5. UpTo(g)
  BY <1>2, <1>3, GathersExist
<1> HIDE DEF g
<1>6. PICK h, K : h = g /\ Gathers(ks, h, n) /\ K = h[n]
  BY <1>3, <1>5
<1>7. Lists(K, ks)
  BY <1>2, <1>6, AllTaken
<1>8. Hop!KeysInOrder = K
  BY <1>4, <1>6
<1>9. K \in Seq(Keys) /\ Len(K) = Cardinality(DOMAIN buckets) /\ {K[i] : i \in DOMAIN K} = Hop!Stored
  BY <1>1, <1>7 DEF Lists, Hop!Stored
<1>10. Len(K) \in Nat /\ DOMAIN K = 1 .. Len(K) /\ \A i \in 1 .. Len(K) : K[i] \in Keys
  BY <1>9, LenProperties
<1>11. PICK R : R = [i \in 1 .. Len(K) |-> [key |-> K[i], checked |-> FALSE]]
  OBVIOUS
<1>12. Hop!Reinserted = R
  BY <1>8, <1>10, <1>11 DEF Hop!Reinserted
<1>13. /\ R \in [1 .. Len(K) -> Call]
       /\ \A i \in 1 .. Len(K) : R[i].key = K[i] /\ ~R[i].checked
  BY <1>10, <1>11 DEF Call
<1>14. R \in Seq(Call) /\ Len(R) = Len(K) /\ DOMAIN R = 1 .. Len(K)
  BY <1>10, <1>13
<1>15. {R[i].key : i \in DOMAIN R} = {K[i] : i \in DOMAIN K}
  BY <1>10, <1>13, <1>14
<1> QED
  BY <1>9, <1>12, <1>13, <1>14, <1>15

\* rehash, whatever call it makes at the end.
LEMMA HopRehashed ==
  ASSUME HopTypes, LoadInv, NEW rest \in Seq(Call), Hop!RehashBefore(rest), cur_key' = NoKey,
         \A i \in DOMAIN rest : rest[i].checked => size + i <= 2 * capacity
  PROVE  /\ HopInv' /\ Hop!Stored' = {}
         /\ \A k : k \in Waiting' <=> k \in Hop!Stored \/ \E i \in DOMAIN rest : rest[i].key = k
<1>1. PICK R \in Seq(Call) : R = Hop!Reinserted
  BY HopReinserted
<1>2. PICK c : c = R \o rest
  OBVIOUS
<1>3. calls' = c /\ Hop!Cleared(2 * capacity) /\ size' = 0
  BY <1>1, <1>2 DEF Hop!RehashBefore, Hop!Grown
<1>4. PICK m \in Nat : m = Len(R) /\ m = size
  BY <1>1, HopReinserted DEF LoadInv, HopTypes
<1>5. PICK n \in Nat : n = Len(rest)
  OBVIOUS
<1>6. /\ c \in Seq(Call) /\ DOMAIN c = 1 .. m + n
      /\ \A i \in 1 .. m + n : c[i] = IF i <= m THEN R[i] ELSE rest[i - m]
  <2>1. /\ R \o rest \in Seq(Call) /\ Len(R \o rest) = Len(R) + Len(rest)
        /\ \A i \in 1 .. Len(R) + Len(rest) :
             (R \o rest)[i] = IF i <= Len(R) THEN R[i] ELSE rest[i - Len(R)]
    BY ConcatProperties
  <2>2. Len(c) = m + n /\ c \in Seq(Call)
    BY <1>2, <1>4, <1>5, <2>1
  <2>3. DOMAIN c = 1 .. m + n
    BY <2>2, LenProperties
  <2> QED BY <1>2, <1>4, <1>5, <2>1, <2>2, <2>3
<1>7. DOMAIN R = 1 .. m /\ DOMAIN rest = 1 .. n
  BY <1>4, <1>5, LenProperties
<1>8. /\ \A i \in DOMAIN R : ~R[i].checked
      /\ {R[i].key : i \in DOMAIN R} = Hop!Stored
  BY <1>1, HopReinserted
<1>9. PICK cap \in Nat \ {0} : cap = 2 * capacity
  BY DEF HopTypes
<1>10. ASSUME NEW i \in 1 .. m + n, c[i].checked PROVE i <= cap
  <2>1. ~(i <= m)
    <3> SUFFICES ASSUME i <= m PROVE FALSE
      OBVIOUS
    <3>1. i \in 1 .. m /\ c[i] = R[i]
      BY <1>6
    <3> QED BY <1>7, <1>8, <1>10, <3>1
  <2>2. PICK j : j = i - m
    OBVIOUS
  <2>3. j \in 1 .. n /\ c[i] = rest[j] /\ i = m + j
    BY <1>6, <2>1, <2>2
  <2>4. size + j <= cap
    BY <1>7, <1>9, <1>10, <2>3
  <2> QED BY <1>4, <2>3, <2>4
<1>11. HopInv' /\ Hop!Stored' = {}
  BY <1>3, <1>6, <1>9, <1>10, ClearedInv
<1>12. ASSUME NEW k
       PROVE  k \in Waiting' <=> k \in Hop!Stored \/ \E i \in DOMAIN rest : rest[i].key = k
  <2>1. k \in Waiting' <=> \E i \in 1 .. m + n : c[i].key = k
    BY <1>3, <1>6 DEF Waiting
  <2>2. k \in Hop!Stored <=> \E i \in 1 .. m : R[i].key = k
    BY <1>7, <1>8
  <2>3. ASSUME NEW i \in 1 .. m + n
        PROVE  (\E j \in 1 .. m : R[j].key = c[i].key) \/ (\E j \in 1 .. n : rest[j].key = c[i].key)
    <3>1. CASE i <= m
      BY <1>6, <3>1
    <3>2. CASE ~(i <= m)
      <4>1. PICK j : j = i - m
        OBVIOUS
      <4>2. j \in 1 .. n /\ c[i] = rest[j]
        BY <1>6, <3>2, <4>1
      <4> QED BY <4>2
    <3> QED BY <3>1, <3>2
  <2>4. \A j \in 1 .. m : j \in 1 .. m + n /\ c[j] = R[j]
    BY <1>6
  <2>5. ASSUME NEW j \in 1 .. n PROVE \E i \in 1 .. m + n : c[i] = rest[j]
    <3>1. PICK i : i = m + j
      OBVIOUS
    <3>2. i \in 1 .. m + n /\ ~(i <= m) /\ i - m = j
      BY <3>1
    <3> QED BY <1>6, <3>2
  <2> QED BY <1>7, <2>1, <2>2, <2>3, <2>4, <2>5
<1> QED
  BY <1>11, <1>12

LEMMA HopHeldIs == Hop!Held = Hop!Stored \cup Waiting \cup Hand
  BY DEF Hop!Held, Waiting, Hand

\* The first call with its flag set, before the others.
RestOf(flag) == <<[Head(calls) EXCEPT !.checked = flag]>> \o Tail(calls)

LEMMA RestIs ==
  ASSUME calls \in Seq(Call), calls # <<>>, NEW flag \in BOOLEAN,
         NEW rest, rest = RestOf(flag)
  PROVE  /\ rest \in Seq(Call) /\ DOMAIN rest = DOMAIN calls
         /\ \A i \in DOMAIN calls : rest[i].key = calls[i].key
         /\ \A i \in DOMAIN calls : i # 1 => rest[i] = calls[i]
         /\ rest[1].checked = flag
<1>1. PICK n \in Nat : n = Len(calls) /\ n >= 1 /\ DOMAIN calls = 1 .. n
  <2>1. Len(calls) \in Nat /\ Len(calls) >= 1 /\ DOMAIN calls = 1 .. Len(calls)
    OBVIOUS
  <2> QED BY <2>1
<1>2. PICK h \in Call : h = [Head(calls) EXCEPT !.checked = flag] /\ h.key = calls[1].key /\ h.checked = flag
  <2>1. Head(calls) = calls[1] /\ calls[1] \in Call
    BY <1>1
  <2>2. PICK d \in Call : d = Head(calls)
    BY <2>1
  <2>3. /\ [d EXCEPT !.checked = flag] \in Call /\ [d EXCEPT !.checked = flag].key = d.key
        /\ [d EXCEPT !.checked = flag].checked = flag
    BY <2>2 DEF Call
  <2> QED BY <2>1, <2>2, <2>3
<1>3. PICK T \in Seq(Call) : T = Tail(calls)
  BY HeadTailProperties
<1>4. Len(T) = n - 1 /\ \A i \in 1 .. n - 1 : T[i] = calls[i + 1]
  BY <1>1, <1>3, HeadTailProperties
<1>5. PICK one \in Seq(Call) : one = <<h>> /\ Len(one) = 1 /\ one[1] = h
  <2>1. <<h>> \in Seq(Call) /\ Len(<<h>>) = 1 /\ <<h>>[1] = h
    OBVIOUS
  <2> QED BY <2>1
<1>6. /\ one \o T \in Seq(Call) /\ Len(one \o T) = Len(one) + Len(T)
      /\ \A i \in 1 .. Len(one) + Len(T) :
           (one \o T)[i] = IF i <= Len(one) THEN one[i] ELSE T[i - Len(one)]
  BY ConcatProperties
<1>7. rest = one \o T
  BY <1>2, <1>3, <1>5 DEF RestOf
<1>8. 1 + (n - 1) = n
  BY <1>1
<1>9. /\ rest \in Seq(Call) /\ Len(rest) = n
      /\ \A i \in 1 .. n : rest[i] = IF i <= 1 THEN one[i] ELSE T[i - 1]
  BY <1>4, <1>5, <1>6, <1>7, <1>8
<1>10. DOMAIN rest = 1 .. n
  BY <1>9, LenProperties
<1>11. rest[1] = h
  BY <1>1, <1>5, <1>9
<1>12. ASSUME NEW i \in 1 .. n, i # 1 PROVE rest[i] = calls[i]
  <2>1. PICK j : j = i - 1
    OBVIOUS
  <2>2. j \in 1 .. n - 1 /\ j + 1 = i /\ ~(i <= 1)
    BY <1>12, <2>1
  <2> QED BY <1>4, <1>9, <2>1, <2>2
<1> QED
  BY <1>1, <1>2, <1>9, <1>10, <1>11, <1>12

LEMMA HopInitInv == Hop!Init => HopInv /\ Hop!Held = {}
<1> SUFFICES ASSUME Hop!Init PROVE HopInv /\ Hop!Held = {}
  OBVIOUS
<1>1. /\ capacity \in Nat \ {0} /\ neighbours \in Nat \ {0} /\ DOMAIN buckets = {} /\ size = 0
      /\ hop_info = [b \in 0 .. capacity - 1 |-> {}]
      /\ calls = <<>> /\ DOMAIN calls = {} /\ calls \in Seq(Call)
      /\ ~InLoop /\ cur_key = NoKey
  <2>1. DOMAIN buckets = {} /\ DOMAIN calls = {} /\ calls = <<>>
    BY DEF Hop!Init
  <2>2. calls \in Seq(Call)
    BY <2>1, EmptySeq
  <2> QED BY <2>1, <2>2, HashAssumption, WidthType DEF Hop!Init, InLoop
<1>2. HopTypes
  BY <1>1 DEF HopTypes
<1>3. Cardinality({}) = 0
  BY FS_EmptySet
<1>4. LoadInv /\ Hop!HopExact /\ NodesNear
  BY <1>1, <1>3 DEF LoadInv, Hop!HopExact, NodesNear
<1>5. Hop!Held = {}
  BY <1>1, HopHeldIs DEF Hop!Stored, Waiting, Hand
<1> QED
  BY <1>2, <1>4, <1>5 DEF HopInv

LEMMA HopEmplaceInv ==
  ASSUME HopInv, NEW key \in Keys \ Hop!Stored, Hop!Emplace(key)
  PROVE  HopInv' /\ key \notin Hop!Held /\ Hop!Held' = Hop!Held \cup {key}
<1>1. PICK c \in Call : c = [key |-> key, checked |-> FALSE]
  BY DEF Call
<1>2. /\ calls' = <<c>> /\ calls = <<>> /\ cur_key = NoKey /\ cur_key' = NoKey
      /\ UNCHANGED <<capacity, neighbours, buckets, size, hop_info, free>>
  BY <1>1 DEF Hop!Emplace, Hop!Idle, Hop!map, Hop!loop
<1>3. calls' \in Seq(Call) /\ DOMAIN calls' = {1} /\ calls'[1] = c /\ DOMAIN calls = {}
  BY <1>1, <1>2
<1>4. ~InLoop /\ ~InLoop'
  BY <1>2 DEF InLoop
<1>5. HopTypes'
  BY <1>2, <1>3, <1>4 DEF HopInv, HopTypes
<1>6. Hop!Held = Hop!Stored /\ Hop!Held' = Hop!Stored \cup {key} /\ key \notin Hop!Stored
  <2>1. Waiting = {} /\ Hand = {} /\ Waiting' = {key} /\ Hand' = {} /\ Hop!Stored' = Hop!Stored
    BY <1>1, <1>2, <1>3 DEF Waiting, Hand, Hop!Stored
  <2>2. Hop!Held' = Hop!Stored' \cup Waiting' \cup Hand'
    BY DEF Hop!Held, Waiting, Hand
  <2> QED BY <2>1, <2>2, HopHeldIs
<1>7. LoadInv'
  BY <1>1, <1>2, <1>3, <1>4 DEF HopInv, LoadInv, InHand
<1>8. Hop!HopExact' /\ NodesNear'
  BY <1>2 DEF HopInv, Hop!HopExact, NodesNear, Hop!Home, Hop!Distance
<1> QED
  BY <1>5, <1>6, <1>7, <1>8 DEF HopInv

LEMMA SizeBelow == HopTypes /\ LoadInv => size <= capacity
<1> SUFFICES ASSUME HopTypes, LoadInv PROVE size <= capacity
  OBVIOUS
<1>1. PICK c \in Nat \ {0} : c = capacity
  BY DEF HopTypes
<1>2. IsFiniteSet(0 .. c - 1) /\ Cardinality(0 .. c - 1) = c
  <2>1. 0 \in Int /\ c - 1 \in Int /\ ~(0 > c - 1) /\ (c - 1) - 0 + 1 = c
    OBVIOUS
  <2> QED BY <2>1, FS_Interval
<1>3. Cardinality(DOMAIN buckets) <= Cardinality(0 .. c - 1)
  BY <1>1, <1>2, FS_Subset DEF HopTypes
<1> QED
  BY <1>1, <1>2, <1>3 DEF LoadInv

\* rehash within emplace, before its loop: no call is lost.
LEMMA RehashCallInv ==
  ASSUME HopInv, Hop!AtCall, NEW flag \in BOOLEAN, UNCHANGED Hop!loop,
         Hop!RehashBefore(RestOf(flag))
  PROVE  HopInv' /\ Hop!Held' = Hop!Held
<1>1. HopTypes /\ LoadInv /\ calls \in Seq(Call) /\ calls # <<>> /\ cur_key = NoKey /\ cur_key' = NoKey
  BY DEF HopInv, HopTypes, Hop!AtCall, Hop!InLoop, Hop!loop
<1>2. PICK rest : rest = RestOf(flag)
  OBVIOUS
<1>3. /\ rest \in Seq(Call) /\ DOMAIN rest = DOMAIN calls
      /\ \A i \in DOMAIN calls : rest[i].key = calls[i].key
      /\ \A i \in DOMAIN calls : i # 1 => rest[i] = calls[i]
  BY <1>1, <1>2, RestIs
<1>4. ASSUME NEW i \in DOMAIN rest, rest[i].checked PROVE size + i <= 2 * capacity
  <2>1. size <= capacity /\ size \in Nat /\ capacity \in Nat \ {0}
    BY <1>1, SizeBelow DEF HopTypes
  <2>2. CASE i = 1
    BY <2>1, <2>2
  <2>3. CASE i # 1
    <3>1. i \in DOMAIN calls /\ calls[i].checked /\ i \in Nat
      BY <1>1, <1>3, <1>4, <2>3
    <3>2. size + 0 + i <= capacity
      BY <1>1, <3>1 DEF LoadInv, InHand, InLoop
    <3> QED BY <2>1, <3>1, <3>2
  <2> QED BY <2>2, <2>3
<1>5. /\ HopInv' /\ Hop!Stored' = {}
      /\ \A k : k \in Waiting' <=> k \in Hop!Stored \/ \E i \in DOMAIN rest : rest[i].key = k
  BY <1>1, <1>2, <1>3, <1>4, HopRehashed
<1>6. \A k : k \in Waiting <=> \E i \in DOMAIN rest : rest[i].key = k
  BY <1>3 DEF Waiting
<1>7. Hop!Held' = Hop!Stored' \cup Waiting' \cup Hand'
  BY DEF Hop!Held, Waiting, Hand
<1>8. Hand = {} /\ Hand' = {}
  BY <1>1 DEF Hand
<1>9. Waiting' = Hop!Stored \cup Waiting
  BY <1>5, <1>6
<1> QED
  BY <1>5, <1>7, <1>8, <1>9, HopHeldIs

LEMMA HopRehashInv == ASSUME HopInv, Hop!RehashLoad \/ Hop!RehashFull PROVE HopInv' /\ Hop!Held' = Hop!Held
<1>1. CASE Hop!RehashLoad
  <2>1. TRUE \in BOOLEAN
    OBVIOUS
  <2> QED BY <1>1, <2>1, RehashCallInv DEF Hop!RehashLoad, RestOf
<1>2. CASE Hop!RehashFull
  <2>1. FALSE \in BOOLEAN
    OBVIOUS
  <2> QED BY <1>2, <2>1, RehashCallInv DEF Hop!RehashFull, RestOf
<1> QED
  BY <1>1, <1>2

\* There is a free bucket, and a first one.
LEMMA FirstFreeIs ==
  ASSUME HopTypes, LoadInv, size < capacity, NEW home \in 0 .. capacity - 1
  PROVE  Hop!FirstFree(home) \in 0 .. capacity - 1 /\ Hop!FirstFree(home) \notin DOMAIN buckets
<1>1. PICK c \in Nat \ {0} : c = capacity
  BY DEF HopTypes
<1>2. PICK b \in 0 .. c - 1 : b \notin DOMAIN buckets
  <2> SUFFICES ASSUME \A b \in 0 .. c - 1 : b \in DOMAIN buckets PROVE FALSE
    OBVIOUS
  <2>1. DOMAIN buckets = 0 .. c - 1
    BY <1>1 DEF HopTypes
  <2>2. 0 \in Int /\ c - 1 \in Int /\ ~(0 > c - 1) /\ (c - 1) - 0 + 1 = c
    OBVIOUS
  <2>3. Cardinality(0 .. c - 1) = c
    BY <2>2, FS_Interval
  <2> QED BY <1>1, <2>1, <2>3 DEF LoadInv
<1>3. PICK T : T = {Hop!Distance(home, x) : x \in {y \in 0 .. c - 1 : y \notin DOMAIN buckets}}
  OBVIOUS
<1>4. \A x \in 0 .. c - 1 : Hop!Distance(home, x) \in 0 .. c - 1
  BY <1>1, DistanceBeyond DEF Hop!Distance
<1>5. T \subseteq Nat /\ T # {}
  BY <1>2, <1>3, <1>4
<1>6. PICK t \in T : \A k \in T : t <= k
  BY <1>5, LeastNat
<1>7. PICK x \in 0 .. c - 1 : x \notin DOMAIN buckets /\ Hop!Distance(home, x) = t
  BY <1>3
<1>8. ASSUME NEW y \in 0 .. c - 1, Hop!Distance(home, y) < t PROVE y \in DOMAIN buckets
  <2> SUFFICES ASSUME y \notin DOMAIN buckets PROVE FALSE
    OBVIOUS
  <2>1. Hop!Distance(home, y) \in T
    BY <1>3
  <2>2. t <= Hop!Distance(home, y) /\ t \in Nat /\ Hop!Distance(home, y) \in Nat
    BY <1>4, <1>5, <1>6, <2>1
  <2> QED BY <1>8, <2>2
<1>9. \E z \in 0 .. capacity - 1 :
        /\ z \notin DOMAIN buckets
        /\ \A y \in 0 .. capacity - 1 :
             Hop!Distance(home, y) < Hop!Distance(home, z) => y \in DOMAIN buckets
  BY <1>1, <1>7, <1>8
<1> QED
  BY <1>9 DEF Hop!FirstFree

LEMMA FindFreeInv ==
  ASSUME HopInv, Hop!FindFree
  PROVE  HopInv' /\ Hop!Held' = Hop!Held
<1>1. /\ calls # <<>> /\ cur_key = NoKey /\ ~Hop!Overloaded
      /\ calls' = Tail(calls)
      /\ cur_key' = Head(calls).key
      /\ free' = Hop!FirstFree(Hop!Home(Head(calls).key))
      /\ UNCHANGED <<capacity, neighbours, buckets, size, hop_info>>
  BY DEF Hop!FindFree, Hop!AtCall, Hop!InLoop, Hop!map
<1>2. /\ HopTypes /\ LoadInv /\ calls \in Seq(Call)
      /\ capacity \in Nat \ {0} /\ size \in Nat /\ NoKey \notin Keys
  BY HashAssumption DEF HopInv, HopTypes
<1>3. PICK n \in Nat : n = Len(calls) /\ n >= 1 /\ DOMAIN calls = 1 .. n
  <2>1. Len(calls) \in Nat /\ Len(calls) >= 1 /\ DOMAIN calls = 1 .. Len(calls)
    BY <1>1, <1>2
  <2> QED BY <2>1
<1>4. PICK h \in Call : h = Head(calls) /\ h = calls[1]
  BY <1>1, <1>2, <1>3
<1>5. PICK key \in Keys : key = h.key /\ cur_key' = key
  BY <1>1, <1>4 DEF Call
<1>6. PICK T \in Seq(Call) : T = Tail(calls)
  BY <1>1, <1>2, HeadTailProperties
<1>7. Len(T) = n - 1 /\ DOMAIN T = 1 .. n - 1 /\ \A i \in 1 .. n - 1 : T[i] = calls[i + 1]
  <2>1. Len(T) = n - 1 /\ \A i \in 1 .. n - 1 : T[i] = calls[i + 1]
    BY <1>1, <1>2, <1>3, <1>6, HeadTailProperties
  <2> QED BY <2>1
<1>8. calls' = T /\ ~InLoop /\ InLoop'
  BY <1>1, <1>2, <1>5, <1>6 DEF InLoop
<1>9. size < capacity
  <2>1. CASE h.checked
    <3>1. 1 \in DOMAIN calls /\ calls[1].checked
      BY <1>3, <1>4, <2>1
    <3>2. size + 0 + 1 <= capacity
      BY <1>2, <1>8, <3>1 DEF LoadInv, InHand
    <3> QED BY <1>2, <3>2
  <2>2. CASE ~h.checked
    <3>1. ~((size + 1) * 4 >= capacity * 3)
      BY <1>1, <1>4, <2>2 DEF Hop!Overloaded
    <3> QED BY <1>2, <3>1
  <2> QED BY <2>1, <2>2
<1>10. free' \in 0 .. capacity - 1 /\ free' \notin DOMAIN buckets
  <2>1. Hop!Home(key) \in 0 .. capacity - 1
    BY <1>2, HomeIs
  <2> QED BY <1>1, <1>2, <1>4, <1>5, <1>9, <2>1, FirstFreeIs
<1>11. HopTypes'
  BY <1>1, <1>2, <1>5, <1>8, <1>10 DEF HopTypes
<1>12. LoadInv'
  <2>1. ASSUME NEW i \in 1 .. n - 1, T[i].checked PROVE size + 1 + i <= capacity
    <3>1. i + 1 \in DOMAIN calls /\ calls[i + 1].checked
      BY <1>3, <1>7, <2>1
    <3>2. size + 0 + (i + 1) <= capacity
      BY <1>2, <1>8, <3>1 DEF LoadInv, InHand
    <3> QED BY <1>2, <3>2
  <2> QED BY <1>1, <1>2, <1>7, <1>8, <1>9, <2>1 DEF LoadInv, InHand
<1>13. Hop!Held' = Hop!Held
  <2>1. Hop!Stored' = Hop!Stored /\ Hand' = {key} /\ Hand = {}
    BY <1>1, <1>2, <1>5 DEF Hop!Stored, Hand
  <2>2. \A k : k \in Waiting' <=> \E i \in 1 .. n - 1 : T[i].key = k
    BY <1>7, <1>8 DEF Waiting
  <2>3. \A k : k \in Waiting <=> \E i \in 1 .. n : calls[i].key = k
    BY <1>3 DEF Waiting
  <2>4. ASSUME NEW i \in 1 .. n - 1 PROVE T[i].key \in Waiting
    <3>1. i + 1 \in 1 .. n /\ T[i].key = calls[i + 1].key
      BY <1>7
    <3> QED BY <2>3, <3>1
  <2>5. key \in Waiting
    BY <1>3, <1>4, <1>5, <2>3
  <2>6. ASSUME NEW i \in 1 .. n PROVE calls[i].key \in Waiting' \/ calls[i].key = key
    <3>1. CASE i = 1
      BY <1>4, <1>5, <3>1
    <3>2. CASE i # 1
      <4>1. PICK j : j = i - 1
        OBVIOUS
      <4>2. j \in 1 .. n - 1 /\ j + 1 = i
        BY <3>2, <4>1
      <4> QED BY <1>7, <2>2, <4>2
    <3> QED BY <3>1, <3>2
  <2>7. Waiting = Waiting' \cup {key}
    BY <2>2, <2>3, <2>4, <2>5, <2>6
  <2>8. Hop!Held' = Hop!Stored' \cup Waiting' \cup Hand'
    BY DEF Hop!Held, Waiting, Hand
  <2> QED BY <2>1, <2>7, <2>8, HopHeldIs
<1>14. Hop!HopExact' /\ NodesNear'
  BY <1>1 DEF HopInv, Hop!HopExact, NodesNear, Hop!Home, Hop!Distance
<1> QED
  BY <1>11, <1>12, <1>13, <1>14 DEF HopInv

\* The key in hand waits again, before the calls that waited.
Retries(rest, h) ==
  /\ rest \in Seq(Call)
  /\ \A i \in DOMAIN rest : rest[i] = IF i = 1 THEN h ELSE calls[i - 1]
  /\ \A i \in DOMAIN rest : i # 1 => i - 1 \in DOMAIN calls
  /\ \A k : (\E i \in DOMAIN rest : rest[i].key = k) <=> k = h.key \/ k \in Waiting

LEMMA RetryIs ==
  ASSUME calls \in Seq(Call), NEW h \in Call, NEW rest, rest = <<h>> \o calls
  PROVE  Retries(rest, h)
<1>1. PICK n \in Nat : n = Len(calls) /\ DOMAIN calls = 1 .. n
  <2>1. Len(calls) \in Nat /\ DOMAIN calls = 1 .. Len(calls)
    OBVIOUS
  <2> QED BY <2>1
<1>2. PICK one \in Seq(Call) : one = <<h>> /\ Len(one) = 1 /\ one[1] = h
  <2>1. <<h>> \in Seq(Call) /\ Len(<<h>>) = 1 /\ <<h>>[1] = h
    OBVIOUS
  <2> QED BY <2>1
<1>3. /\ one \o calls \in Seq(Call) /\ Len(one \o calls) = Len(one) + Len(calls)
      /\ \A i \in 1 .. Len(one) + Len(calls) :
           (one \o calls)[i] = IF i <= Len(one) THEN one[i] ELSE calls[i - Len(one)]
  BY ConcatProperties
<1>4. /\ rest \in Seq(Call) /\ Len(rest) = 1 + n
      /\ \A i \in 1 .. 1 + n : rest[i] = IF i <= 1 THEN one[i] ELSE calls[i - 1]
  BY <1>1, <1>2, <1>3
<1>5. DOMAIN rest = 1 .. 1 + n
  BY <1>4, LenProperties
<1>6. ASSUME NEW i \in DOMAIN rest PROVE rest[i] = IF i = 1 THEN h ELSE calls[i - 1]
  BY <1>2, <1>4, <1>5
<1>7. ASSUME NEW i \in DOMAIN rest, i # 1 PROVE i - 1 \in DOMAIN calls
  BY <1>1, <1>5, <1>7
<1>8. ASSUME NEW k
      PROVE  (\E i \in DOMAIN rest : rest[i].key = k) <=> k = h.key \/ k \in Waiting
  <2>1. ASSUME NEW i \in DOMAIN calls PROVE \E j \in DOMAIN rest : rest[j] = calls[i]
    <3>1. PICK j : j = i + 1
      OBVIOUS
    <3>2. j \in DOMAIN rest /\ j # 1 /\ j - 1 = i
      BY <1>1, <1>5, <3>1
    <3> QED BY <1>6, <3>2
  <2>2. 1 \in DOMAIN rest /\ rest[1] = h
    BY <1>5, <1>6
  <2>3. ASSUME NEW i \in DOMAIN rest PROVE rest[i] = h \/ \E j \in DOMAIN calls : rest[i] = calls[j]
    BY <1>6, <1>7
  <2>4. k \in Waiting <=> \E j \in DOMAIN calls : calls[j].key = k
    BY DEF Waiting
  <2> QED BY <2>1, <2>2, <2>3, <2>4
<1> QED
  BY <1>4, <1>6, <1>7, <1>8 DEF Retries

LEMMA RehashStuckInv ==
  ASSUME HopInv, Hop!RehashStuck
  PROVE  HopInv' /\ Hop!Held' = Hop!Held
<1>1. /\ HopTypes /\ LoadInv /\ calls \in Seq(Call) /\ InLoop
      /\ cur_key \in Keys /\ cur_key # NoKey /\ cur_key' = NoKey
  BY DEF HopInv, HopTypes, Hop!RehashStuck, Hop!InLoop, InLoop
<1>2. PICK h \in Call : h = [key |-> cur_key, checked |-> FALSE]
  BY <1>1 DEF Call
<1>3. PICK rest : rest = <<h>> \o calls
  OBVIOUS
<1>4. /\ rest \in Seq(Call)
      /\ \A i \in DOMAIN rest : rest[i] = IF i = 1 THEN h ELSE calls[i - 1]
      /\ \A i \in DOMAIN rest : i # 1 => i - 1 \in DOMAIN calls
      /\ \A k : (\E i \in DOMAIN rest : rest[i].key = k) <=> k = h.key \/ k \in Waiting
  <2>1. Retries(rest, h)
    BY <1>1, <1>3, RetryIs
  <2> QED BY <2>1 DEF Retries
<1>5. Hop!RehashBefore(rest)
  BY <1>2, <1>3 DEF Hop!RehashStuck, Hop!Retried
<1>6. ASSUME NEW i \in DOMAIN rest, rest[i].checked PROVE size + i <= 2 * capacity
  <2>1. i # 1
    BY <1>2, <1>4, <1>6
  <2>2. i - 1 \in DOMAIN calls /\ calls[i - 1].checked
    BY <1>4, <1>6, <2>1
  <2>3. PICK j : j = i - 1
    OBVIOUS
  <2>4. size + 1 + j <= capacity /\ i \in Nat
    BY <1>1, <1>4, <2>2, <2>3, LenProperties DEF LoadInv, InHand
  <2> QED BY <1>1, <2>3, <2>4 DEF HopTypes
<1>7. /\ HopInv' /\ Hop!Stored' = {}
      /\ \A k : k \in Waiting' <=> k \in Hop!Stored \/ \E i \in DOMAIN rest : rest[i].key = k
  BY <1>1, <1>4, <1>5, <1>6, HopRehashed
<1>8. Waiting' = Hop!Stored \cup Waiting \cup {cur_key}
  BY <1>2, <1>4, <1>7
<1>9. Hand = {cur_key} /\ Hand' = {}
  BY <1>1 DEF Hand
<1>10. Hop!Held' = Hop!Stored' \cup Waiting' \cup Hand'
  BY DEF Hop!Held, Waiting, Hand
<1> QED
  BY <1>7, <1>8, <1>9, <1>10, HopHeldIs

LEMMA HopReserveInv ==
  ASSUME HopInv, NEW expected \in Reserves, Hop!Reserve(expected)
  PROVE  HopInv' /\ Hop!Held' = Hop!Held
<1>1. /\ calls = <<>> /\ cur_key = NoKey /\ DOMAIN buckets = {}
      /\ UNCHANGED <<size, calls, cur_key, free>>
  BY DEF Hop!Reserve, Hop!Idle, Hop!loop
<1>2. PICK cap \in Nat \ {0} : Hop!Cleared(cap)
  <2>1. (expected * 3) \div 2 \in Nat
    BY HashAssumption
  <2>2. Hop!next_power_of_two((expected * 3) \div 2) \in Nat \ {0}
    BY <2>1, HopPowerIs, PowerType
  <2> QED BY <2>2 DEF Hop!Reserve
<1>3. size' = 0
  BY <1>1, FS_EmptySet DEF HopInv, LoadInv
<1>4. calls' \in Seq(Call) /\ DOMAIN calls' = {} /\ cur_key' = NoKey /\ DOMAIN calls = {}
  BY <1>1 DEF HopInv, HopTypes
<1>5. HopInv' /\ Hop!Stored' = {}
  BY <1>2, <1>3, <1>4, ClearedInv
<1>6. Hop!Stored = {} /\ Waiting = {} /\ Waiting' = {} /\ Hand = {} /\ Hand' = {}
  BY <1>1, <1>4 DEF Hop!Stored, Waiting, Hand
<1>7. Hop!Held' = Hop!Stored' \cup Waiting' \cup Hand'
  BY DEF Hop!Held, Waiting, Hand
<1> QED
  BY <1>5, <1>6, <1>7, HopHeldIs

LEMMA HopUnchangedInv == HopInv /\ UNCHANGED Hop!vars => HopInv' /\ Hop!Held' = Hop!Held
<1> SUFFICES ASSUME HopInv, UNCHANGED Hop!vars PROVE HopInv' /\ Hop!Held' = Hop!Held
  OBVIOUS
<1>1. UNCHANGED <<capacity, neighbours, size, buckets, hop_info, calls, cur_key, free>>
  BY DEF Hop!vars, Hop!map, Hop!loop
<1>2. Hop!Held' = Hop!Held
  BY <1>1 DEF Hop!Held, Hop!Stored
<1>3. HopTypes' /\ LoadInv'
  BY <1>1 DEF HopInv, HopTypes, LoadInv, InHand, InLoop
<1>4. Hop!HopExact' /\ NodesNear'
  BY <1>1 DEF HopInv, Hop!HopExact, NodesNear, Hop!Home, Hop!Distance
<1> QED
  BY <1>2, <1>3, <1>4 DEF HopInv

LEMMA FirstMoveIs ==
  ASSUME HopTypes, Hop!Moves # {}
  PROVE  Hop!FirstMove \in Hop!Moves
<1>1. PICK w \in Nat \ {0} : w = neighbours
  BY DEF HopTypes
<1>2. PICK M : M = Hop!Moves
  OBVIOUS
<1>3. M # {} /\ \A m \in M : m.offset \in 1 .. w - 1 /\ m.bit \in 0 .. w - 1
  BY <1>1, <1>2 DEF Hop!Moves
<1>4. PICK A : A = {w - m.offset : m \in M}
  OBVIOUS
<1>5. A \subseteq Nat /\ A # {}
  BY <1>3, <1>4
<1>6. PICK a \in A : \A k \in A : a <= k
  BY <1>5, LeastNat
<1>7. PICK B : B = {m.bit : m \in {n \in M : w - n.offset = a}}
  OBVIOUS
<1>8. B \subseteq Nat /\ B # {}
  BY <1>3, <1>4, <1>7
<1>9. PICK b \in B : \A k \in B : b <= k
  BY <1>8, LeastNat
<1>10. PICK m \in M : w - m.offset = a /\ m.bit = b
  BY <1>7
<1>11. ASSUME NEW n \in M PROVE n.offset < m.offset \/ (n.offset = m.offset /\ n.bit >= m.bit)
  <2>1. a <= w - n.offset
    BY <1>4, <1>6
  <2>2. n.offset \in Int /\ m.offset \in Int /\ n.bit \in Int /\ m.bit \in Int /\ w \in Int
    BY <1>3
  <2>3. n.offset <= m.offset
    BY <1>10, <2>1, <2>2
  <2>4. ASSUME n.offset = m.offset PROVE n.bit >= m.bit
    <3>1. n.bit \in B
      BY <1>7, <1>10, <2>4
    <3>2. b <= n.bit
      BY <1>9, <3>1
    <3> QED BY <1>10, <2>2, <3>2
  <2> QED BY <2>2, <2>3, <2>4
<1>12. \E x \in Hop!Moves :
         \A n \in Hop!Moves : n.offset < x.offset \/ (n.offset = x.offset /\ n.bit >= x.bit)
  BY <1>2, <1>11
<1> QED
  BY <1>12 DEF Hop!FirstMove

\* The move that Displace makes: of the node in bucket y, whose home is h, from the
\* distance d to the free bucket f at the distance o.
LEMMA MoveIs ==
  ASSUME HopInv, InLoop, ~Hop!Near, NEW m \in Hop!Moves,
         NEW f, f = free, NEW h, h = Hop!MoveHome(m), NEW y, y = Hop!MoveFrom(m),
         NEW d, d = m.bit, NEW o, o = Hop!Distance(h, f)
  PROVE  /\ neighbours < capacity
         /\ h \in 0 .. capacity - 1 /\ d \in 0 .. neighbours - 1 /\ o \in 0 .. neighbours - 1
         /\ d \in 0 .. capacity - 1 /\ o \in 0 .. capacity - 1
         /\ y = (h + d) % capacity /\ f = (h + o) % capacity
         /\ y \in DOMAIN buckets /\ f \notin DOMAIN buckets /\ y # f /\ d # o
         /\ f \in 0 .. capacity - 1
         /\ Hop!Home(buckets[y]) = h
<1>1. PICK c \in Nat \ {0}, w \in Nat \ {0} : c = capacity /\ w = neighbours
  BY DEF HopInv, HopTypes
<1>2. PICK k \in Keys : k = cur_key
  BY DEF HopInv, HopTypes, InLoop
<1>3. f \in 0 .. c - 1 /\ f \notin DOMAIN buckets
  BY <1>1 DEF HopInv, HopTypes
<1>4. w < c
  <2>1. PICK x \in 0 .. c - 1 : x = Hop!Home(k)
    BY <1>1, HomeIs DEF HopInv
  <2>2. (f - x) % c \in 0 .. c - 1
    BY <1>3, <2>1, DistanceBeyond
  <2>3. PICK s : s = (f - x) % c
    OBVIOUS
  <2>4. ~(s < w)
    BY <1>1, <1>2, <2>1, <2>3 DEF Hop!Near, Hop!Distance
  <2> QED BY <2>2, <2>3, <2>4
<1>5. PICK p : p = m.offset
  OBVIOUS
<1>6. p \in 1 .. w - 1 /\ d \in 0 .. w - 1 /\ Hop!Allowed(m)
  BY <1>1, <1>5 DEF Hop!Moves
<1>7. p \in 0 .. c - 1 /\ d \in 0 .. c - 1
  BY <1>4, <1>6
<1>8. h = (f - p) % c /\ h = IF p <= f THEN f - p ELSE f - p + c
  BY <1>1, <1>3, <1>5, <1>7, DistanceIs DEF Hop!MoveHome
<1>9. h \in 0 .. c - 1
  BY <1>3, <1>7, <1>8
<1>10. o = p
  <2>1. o = (f - h) % c
    BY <1>1 DEF Hop!Distance
  <2>2. (f - h) % c = IF h <= f THEN f - h ELSE f - h + c
    BY <1>3, <1>9, DistanceIs
  <2> QED BY <1>3, <1>6, <1>7, <1>8, <2>1, <2>2
<1>11. f = (h + o) % c
  <2>1. o = (f - h) % c
    BY <1>1 DEF Hop!Distance
  <2>2. (h + ((f - h) % c)) % c = f
    BY <1>3, <1>9, DistanceBeyond
  <2> QED BY <2>1, <2>2
<1>12. y = (h + d) % c
  <2>1. y = (f - p + d) % c
    BY <1>1, <1>5 DEF Hop!MoveFrom
  <2>2. (f - p + d) % c = (((f - p) % c) + d) % c
    BY <1>3, <1>7, BackAndForth
  <2> QED BY <1>8, <2>1, <2>2
<1>13. d \in hop_info[h]
  BY <1>6 DEF Hop!Allowed
<1>14. y \in DOMAIN buckets /\ Hop!Home(buckets[y]) = h
  BY <1>1, <1>6, <1>9, <1>12, <1>13 DEF HopInv, Hop!HopExact
<1>15. y # f /\ d # o
  BY <1>3, <1>11, <1>12, <1>14
<1>16. o \in 0 .. w - 1 /\ o \in 0 .. c - 1
  BY <1>6, <1>7, <1>10
<1> QED
  BY <1>1, <1>3, <1>4, <1>6, <1>7, <1>9, <1>11, <1>12, <1>14, <1>15, <1>16

LEMMA DisplaceInv ==
  ASSUME HopInv, Hop!Displace
  PROVE  HopInv' /\ Hop!Held' = Hop!Held
<1>1. /\ InLoop /\ ~Hop!Near /\ Hop!Moves # {}
      /\ UNCHANGED <<capacity, neighbours, size, calls, cur_key>>
      /\ HopTypes /\ LoadInv /\ Hop!HopExact /\ NodesNear
  BY DEF Hop!Displace, Hop!InLoop, InLoop, HopInv
<1>2. PICK m \in Hop!Moves : m = Hop!FirstMove
  BY <1>1, FirstMoveIs
<1>3. PICK f, h, y, d : f = free /\ h = Hop!MoveHome(m) /\ y = Hop!MoveFrom(m) /\ d = m.bit
  OBVIOUS
<1>4. PICK o : o = Hop!Distance(h, f)
  OBVIOUS
<1>5. PICK c \in Nat \ {0}, w \in Nat \ {0} : c = capacity /\ w = neighbours
  BY <1>1 DEF HopTypes
<1>6. /\ w < c
      /\ h \in 0 .. c - 1 /\ d \in 0 .. w - 1 /\ o \in 0 .. w - 1
      /\ d \in 0 .. c - 1 /\ o \in 0 .. c - 1
      /\ y = (h + d) % c /\ f = (h + o) % c
      /\ y \in DOMAIN buckets /\ f \notin DOMAIN buckets /\ y # f /\ d # o
      /\ f \in 0 .. c - 1
      /\ Hop!Home(buckets[y]) = h
  BY <1>1, <1>3, <1>4, <1>5, MoveIs
<1>7. /\ buckets' = [b \in (DOMAIN buckets \cup {f}) \ {y} |->
                       IF b = f THEN buckets[y] ELSE buckets[b]]
      /\ hop_info' = [hop_info EXCEPT ![h] = (hop_info[h] \ {d}) \cup {o}]
      /\ free' = y
  BY <1>2, <1>3, <1>4 DEF Hop!Displace, Hop!Moved
<1>8. /\ DOMAIN buckets' = (DOMAIN buckets \cup {f}) \ {y}
      /\ buckets'[f] = buckets[y]
      /\ \A b \in DOMAIN buckets' : b # f => b \in DOMAIN buckets /\ buckets'[b] = buckets[b]
      /\ \A b \in DOMAIN buckets : b # y => b \in DOMAIN buckets' /\ b # f
  BY <1>6, <1>7
<1>9. /\ hop_info \in [0 .. c - 1 -> SUBSET (0 .. w - 1)]
      /\ hop_info'[h] = (hop_info[h] \ {d}) \cup {o}
      /\ \A b \in 0 .. c - 1 : b # h => hop_info'[b] = hop_info[b]
  BY <1>1, <1>5, <1>6, <1>7 DEF HopTypes
<1>10. \A k : Hop!Home(k)' = Hop!Home(k)
  BY <1>1 DEF Hop!Home
<1>11. HopTypes'
  <2>1. hop_info' \in [0 .. c - 1 -> SUBSET (0 .. w - 1)]
    BY <1>6, <1>7, <1>9
  <2>2. DOMAIN buckets' \subseteq 0 .. c - 1 /\ \A b \in DOMAIN buckets' : buckets'[b] \in Keys
    BY <1>1, <1>5, <1>6, <1>8 DEF HopTypes
  <2>3. free' \in 0 .. c - 1 /\ free' \notin DOMAIN buckets'
    BY <1>1, <1>5, <1>6, <1>7, <1>8 DEF HopTypes
  <2> QED BY <1>1, <1>5, <2>1, <2>2, <2>3 DEF HopTypes
<1>12. LoadInv'
  <2>1. IsFiniteSet(DOMAIN buckets)
    <3>1. DOMAIN buckets \subseteq 0 .. c - 1
      BY <1>1, <1>5 DEF HopTypes
    <3>2. IsFiniteSet(0 .. c - 1)
      BY FS_Interval
    <3> QED BY <3>1, <3>2, FS_Subset
  <2>2. PICK S : S = DOMAIN buckets \ {y}
    OBVIOUS
  <2>3. IsFiniteSet(S) /\ Cardinality(S) = Cardinality(DOMAIN buckets) - 1
    BY <1>6, <2>1, <2>2, FS_RemoveElement
  <2>4. f \notin S /\ DOMAIN buckets' = S \cup {f}
    BY <1>6, <1>8, <2>2
  <2>5. Cardinality(DOMAIN buckets') = Cardinality(S) + 1
    BY <2>3, <2>4, FS_AddElement
  <2>6. Cardinality(DOMAIN buckets) = size /\ size \in Nat
    BY <1>1 DEF LoadInv, HopTypes
  <2>7. Cardinality(DOMAIN buckets') = size
    BY <2>3, <2>5, <2>6
  <2>8. InLoop'
    BY <1>1 DEF InLoop
  <2> QED BY <1>1, <2>7, <2>8 DEF LoadInv, InHand
<1>13. ASSUME NEW b \in 0 .. c - 1, NEW e \in 0 .. w - 1, NEW j, j = (b + e) % c
       PROVE  e \in hop_info'[b] <=> e < c /\ j \in DOMAIN buckets' /\ Hop!Home(buckets'[j]) = b
  <2>1. e \in hop_info[b] <=> e < c /\ j \in DOMAIN buckets /\ Hop!Home(buckets[j]) = b
    BY <1>1, <1>5, <1>13 DEF Hop!HopExact
  <2>2. e \in 0 .. c - 1 /\ e < c
    BY <1>6
  <2>3. CASE b # h
    <3>1. hop_info'[b] = hop_info[b]
      BY <1>9, <2>3
    <3>2. CASE j = f
      BY <1>6, <1>8, <2>1, <2>3, <3>1, <3>2
    <3>3. CASE j = y
      BY <1>6, <1>8, <2>1, <2>3, <3>1, <3>3
    <3>4. CASE j # f /\ j # y
      BY <1>8, <2>1, <2>2, <3>1, <3>4
    <3> QED BY <3>2, <3>3, <3>4
  <2>4. CASE b = h /\ e = o
    <3>1. j = f
      BY <1>6, <1>13, <2>4
    <3> QED BY <1>6, <1>8, <1>9, <2>2, <2>4, <3>1
  <2>5. CASE b = h /\ e = d
    <3>1. j = y
      BY <1>6, <1>13, <2>5
    <3> QED BY <1>6, <1>8, <1>9, <2>5, <3>1
  <2>6. CASE b = h /\ e # o /\ e # d
    <3>1. (j - h) % c = e
      BY <1>6, <1>13, <2>2, <2>6, BeyondDistance
    <3>2. (f - h) % c = o /\ (y - h) % c = d
      BY <1>6, BeyondDistance
    <3>3. j # f /\ j # y
      BY <2>6, <3>1, <3>2
    <3>4. e \in hop_info'[b] <=> e \in hop_info[b]
      BY <1>9, <2>6
    <3> QED BY <1>8, <2>1, <2>2, <3>3, <3>4
  <2> QED BY <2>3, <2>4, <2>5, <2>6
<1>14. Hop!HopExact'
  <2>1. capacity' = c /\ neighbours' = w /\ capacity = c
    BY <1>1, <1>5
  <2>2. ASSUME NEW b \in 0 .. c - 1, NEW e \in 0 .. w - 1
        PROVE  e \in hop_info'[b] <=> /\ e < c /\ (b + e) % c \in DOMAIN buckets'
                                      /\ hash[buckets'[(b + e) % c]] % c = b
    BY <1>13, <2>1 DEF Hop!Home
  <2> QED BY <2>1, <2>2 DEF Hop!HopExact, Hop!Home
<1>15. NodesNear'
  <2>1. ASSUME NEW b \in DOMAIN buckets'
        PROVE  (b - Hop!Home(buckets'[b])) % c < w
    <3>1. CASE b = f
      <4>1. (f - h) % c = o
        BY <1>6, BeyondDistance
      <4> QED BY <1>6, <1>8, <3>1, <4>1
    <3>2. CASE b # f
      BY <1>1, <1>5, <1>8, <3>2 DEF NodesNear, Hop!Distance
    <3> QED BY <3>1, <3>2
  <2> QED BY <1>1, <1>5, <1>10, <2>1 DEF NodesNear, Hop!Distance, Hop!Home
<1>16. Hop!Held' = Hop!Held
  <2>1. Hop!Stored' = Hop!Stored
    <3>1. \A k : k \in Hop!Stored <=> \E b \in DOMAIN buckets : buckets[b] = k
      BY DEF Hop!Stored
    <3>2. \A k : k \in Hop!Stored' <=> \E b \in DOMAIN buckets' : buckets'[b] = k
      BY DEF Hop!Stored
    <3>3. ASSUME NEW b \in DOMAIN buckets PROVE \E a \in DOMAIN buckets' : buckets'[a] = buckets[b]
      <4>1. CASE b = y
        BY <1>6, <1>8, <4>1
      <4>2. CASE b # y
        BY <1>8, <4>2
      <4> QED BY <4>1, <4>2
    <3>4. ASSUME NEW b \in DOMAIN buckets' PROVE \E a \in DOMAIN buckets : buckets[a] = buckets'[b]
      BY <1>6, <1>8
    <3> QED BY <3>1, <3>2, <3>3, <3>4
  <2>2. Waiting' = Waiting /\ Hand' = Hand
    BY <1>1 DEF Waiting, Hand
  <2>3. Hop!Held' = Hop!Stored' \cup Waiting' \cup Hand'
    BY DEF Hop!Held, Waiting, Hand
  <2> QED BY <2>1, <2>2, <2>3, HopHeldIs
<1> QED
  BY <1>11, <1>12, <1>14, <1>15, <1>16 DEF HopInv

LEMMA HopPlaceInv ==
  ASSUME HopInv, Hop!Place
  PROVE  HopInv' /\ Hop!Held' = Hop!Held
<1>1. /\ InLoop /\ Hop!Near /\ HopTypes /\ LoadInv /\ Hop!HopExact /\ NodesNear
      /\ cur_key' = NoKey /\ ~InLoop' /\ size' = size + 1
      /\ UNCHANGED <<capacity, neighbours, calls>>
  BY DEF Hop!Place, Hop!InLoop, InLoop, HopInv
<1>2. PICK k, f, h : k = cur_key /\ f = free /\ h = Hop!Home(k)
  OBVIOUS
<1>3. PICK o : o = Hop!Distance(h, f)
  OBVIOUS
<1>4. PICK c \in Nat \ {0}, w \in Nat \ {0} : c = capacity /\ w = neighbours
  BY <1>1 DEF HopTypes
<1>5. k \in Keys /\ k # NoKey /\ f \in 0 .. c - 1 /\ f \notin DOMAIN buckets
  BY <1>1, <1>2, <1>4 DEF HopTypes, InLoop
<1>6. h \in 0 .. c - 1
  BY <1>1, <1>2, <1>4, <1>5, HomeIs
<1>7. o = (f - h) % c /\ o \in 0 .. c - 1 /\ (h + o) % c = f
  <2>1. o = (f - h) % c
    BY <1>3, <1>4 DEF Hop!Distance
  <2> QED BY <1>5, <1>6, <2>1, DistanceBeyond
<1>8. o < w
  BY <1>1, <1>2, <1>3, <1>4 DEF Hop!Near
<1>9. /\ buckets' = [b \in DOMAIN buckets \cup {f} |-> IF b = f THEN k ELSE buckets[b]]
      /\ hop_info' = [hop_info EXCEPT ![h] = hop_info[h] \cup {o}]
  BY <1>2, <1>3 DEF Hop!Place
<1>10. /\ DOMAIN buckets' = DOMAIN buckets \cup {f}
       /\ buckets'[f] = k
       /\ \A b \in DOMAIN buckets : b # f /\ buckets'[b] = buckets[b]
  BY <1>5, <1>9
<1>11. /\ hop_info \in [0 .. c - 1 -> SUBSET (0 .. w - 1)]
       /\ hop_info'[h] = hop_info[h] \cup {o}
       /\ \A b \in 0 .. c - 1 : b # h => hop_info'[b] = hop_info[b]
  BY <1>1, <1>4, <1>6, <1>9 DEF HopTypes
<1>12. capacity' = c /\ neighbours' = w /\ capacity = c
  BY <1>1, <1>4
<1>13. HopTypes'
  <2>1. hop_info' \in [0 .. c - 1 -> SUBSET (0 .. w - 1)]
    <3>1. o \in 0 .. w - 1
      BY <1>7, <1>8
    <3> QED BY <1>6, <1>9, <1>11, <3>1
  <2>2. DOMAIN buckets' \subseteq 0 .. c - 1 /\ \A b \in DOMAIN buckets' : buckets'[b] \in Keys
    BY <1>1, <1>4, <1>5, <1>10 DEF HopTypes
  <2> QED BY <1>1, <1>4, <2>1, <2>2 DEF HopTypes
<1>14. LoadInv'
  <2>1. IsFiniteSet(DOMAIN buckets)
    <3>1. DOMAIN buckets \subseteq 0 .. c - 1
      BY <1>1, <1>4 DEF HopTypes
    <3>2. IsFiniteSet(0 .. c - 1)
      BY FS_Interval
    <3> QED BY <3>1, <3>2, FS_Subset
  <2>2. Cardinality(DOMAIN buckets') = Cardinality(DOMAIN buckets) + 1
    BY <1>5, <1>10, <2>1, FS_AddElement
  <2>3. size \in Nat /\ size = Cardinality(DOMAIN buckets)
    BY <1>1 DEF HopTypes, LoadInv
  <2>4. ASSUME NEW i \in DOMAIN calls, calls[i].checked PROVE size + 1 + 0 + i <= capacity
    <3>1. size + 1 + i <= capacity
      BY <1>1, <2>4 DEF LoadInv, InHand
    <3>2. i \in Nat
      BY <1>1, LenProperties DEF HopTypes
    <3> QED BY <2>3, <3>1, <3>2
  <2> QED BY <1>1, <2>2, <2>3, <2>4 DEF LoadInv, InHand
<1>15. ASSUME NEW b \in 0 .. c - 1, NEW e \in 0 .. w - 1, NEW j, j = (b + e) % c
       PROVE  e \in hop_info'[b] <=> e < c /\ j \in DOMAIN buckets' /\ Hop!Home(buckets'[j]) = b
  <2>1. e \in hop_info[b] <=> e < c /\ j \in DOMAIN buckets /\ Hop!Home(buckets[j]) = b
    BY <1>1, <1>4, <1>15 DEF Hop!HopExact
  <2>2. e \in hop_info'[b] <=> e \in hop_info[b] \/ (b = h /\ e = o)
    BY <1>11
  <2>3. CASE ~(e < c)
    BY <1>7, <2>1, <2>2, <2>3
  <2>4. CASE e < c /\ j = f
    <3>1. e \in 0 .. c - 1
      BY <2>4
    <3>2. (j - b) % c = e
      BY <1>15, <3>1, BeyondDistance
    <3>3. b = h => e = o
      BY <1>7, <2>4, <3>2
    <3>4. Hop!Home(buckets'[j]) = h
      BY <1>2, <1>10, <2>4
    <3> QED BY <1>5, <1>10, <2>1, <2>2, <2>4, <3>3, <3>4
  <2>5. CASE e < c /\ j # f
    <3>1. ~(b = h /\ e = o)
      BY <1>7, <1>15, <2>5
    <3>2. j \in DOMAIN buckets' <=> j \in DOMAIN buckets
      BY <1>10, <2>5
    <3>3. j \in DOMAIN buckets => buckets'[j] = buckets[j]
      BY <1>10
    <3> QED BY <2>1, <2>2, <3>1, <3>2, <3>3
  <2> QED BY <2>3, <2>4, <2>5
<1>16. Hop!HopExact'
  <2>1. ASSUME NEW b \in 0 .. c - 1, NEW e \in 0 .. w - 1
        PROVE  e \in hop_info'[b] <=> /\ e < c /\ (b + e) % c \in DOMAIN buckets'
                                      /\ hash[buckets'[(b + e) % c]] % c = b
    BY <1>12, <1>15 DEF Hop!Home
  <2> QED BY <1>12, <2>1 DEF Hop!HopExact, Hop!Home
<1>17. NodesNear'
  <2>1. ASSUME NEW b \in DOMAIN buckets'
        PROVE  (b - (hash[buckets'[b]] % c)) % c < w
    <3>1. CASE b = f
      BY <1>2, <1>7, <1>8, <1>10, <1>12, <3>1 DEF Hop!Home
    <3>2. CASE b # f
      BY <1>1, <1>10, <1>12, <3>2 DEF NodesNear, Hop!Distance, Hop!Home
    <3> QED BY <3>1, <3>2
  <2> QED BY <1>12, <2>1 DEF NodesNear, Hop!Distance, Hop!Home
<1>18. Hop!Held' = Hop!Held
  <2>1. ASSUME NEW x PROVE x \in Hop!Stored' <=> x \in Hop!Stored \/ x = k
    <3>1. x \in Hop!Stored <=> \E b \in DOMAIN buckets : buckets[b] = x
      BY DEF Hop!Stored
    <3>2. x \in Hop!Stored' <=> \E b \in DOMAIN buckets' : buckets'[b] = x
      BY DEF Hop!Stored
    <3> QED BY <1>10, <3>1, <3>2
  <2>2. Waiting' = Waiting /\ Hand = {k} /\ Hand' = {}
    BY <1>1, <1>2, <1>5 DEF Waiting, Hand
  <2>3. Hop!Held' = Hop!Stored' \cup Waiting' \cup Hand'
    BY DEF Hop!Held, Waiting, Hand
  <2> QED BY <2>1, <2>2, <2>3, HopHeldIs
<1> QED
  BY <1>13, <1>14, <1>16, <1>17, <1>18 DEF HopInv

LEMMA HopRunningInv == HopInv /\ Hop!Running => HopInv' /\ Hop!Held' = Hop!Held
<1> SUFFICES ASSUME HopInv, Hop!Running PROVE HopInv' /\ Hop!Held' = Hop!Held
  OBVIOUS
<1>1. CASE Hop!RehashLoad \/ Hop!RehashFull
  BY <1>1, HopRehashInv
<1>2. CASE Hop!FindFree
  BY <1>2, FindFreeInv
<1>3. CASE Hop!Displace
  BY <1>3, DisplaceInv
<1>4. CASE Hop!RehashStuck
  BY <1>4, RehashStuckInv
<1>5. CASE Hop!Place
  BY <1>5, HopPlaceInv
<1> QED
  BY <1>1, <1>2, <1>3, <1>4, <1>5 DEF Hop!Running

LEMMA HopStep ==
  ASSUME HopInv, [Hop!Next]_(Hop!vars)
  PROVE  HopInv' /\ (Hop!Held' = Hop!Held \/ Hop!Index!Next)
<1>1. ASSUME NEW key \in Keys \ Hop!Stored, Hop!Emplace(key) PROVE HopInv' /\ Hop!Index!Next
  BY <1>1, HopEmplaceInv DEF Hop!Index!Next, Hop!Index!Emplace
<1>2. CASE \E expected \in Reserves : Hop!Reserve(expected)
  BY <1>2, HopReserveInv
<1>3. CASE Hop!Find \/ UNCHANGED Hop!vars
  BY <1>3, HopUnchangedInv DEF Hop!Find
<1>4. CASE Hop!Running
  BY <1>4, HopRunningInv
<1> QED
  BY <1>1, <1>2, <1>3, <1>4 DEF Hop!Next

LEMMA HopInvariant == Hop!Spec => []HopInv
<1>1. HopInv /\ [Hop!Next]_(Hop!vars) => HopInv'
  BY HopStep
<1> QED
  BY <1>1, HopInitInv, PTL DEF Hop!Spec

\* Through every move of a node, in the middle of emplace too, the bits of a bucket
\* are set for exactly the nodes whose home it is.
THEOREM HopBitsAreExact == Hop!Spec => []Hop!HopExact
<1>1. HopInv => Hop!HopExact
  BY DEF HopInv
<1> QED
  BY <1>1, HopInvariant, PTL

\* A node has its home within reach of the bits, and find, which looks nowhere else,
\* finds a key exactly when it is stored.
THEOREM HopFindIsExact == Hop!Spec => []Hop!FindExact
<1>1. HopInv => Hop!FindExact
  <2> SUFFICES ASSUME HopInv, NEW key \in Keys PROVE Hop!find(key) <=> key \in Hop!Stored
    BY DEF Hop!FindExact
  <2>1. PICK c \in Nat \ {0}, w \in Nat \ {0} : c = capacity /\ w = neighbours
    BY DEF HopInv, HopTypes
  <2>2. PICK h \in 0 .. c - 1 : h = Hop!Home(key)
    BY <2>1, HomeIs DEF HopInv
  <2>3. Hop!find(key) <=> \E e \in hop_info[h] : (h + e) % c \in DOMAIN buckets /\ buckets[(h + e) % c] = key
    BY <2>1, <2>2 DEF Hop!find
  <2>4. key \in Hop!Stored <=> \E b \in DOMAIN buckets : buckets[b] = key
    BY DEF Hop!Stored
  <2>5. ASSUME NEW b \in DOMAIN buckets, buckets[b] = key
        PROVE  \E e \in hop_info[h] : (h + e) % c = b
    <3>1. PICK e : e = (b - h) % c
      OBVIOUS
    <3>2. b \in 0 .. c - 1
      BY <2>1 DEF HopInv, HopTypes
    <3>3. e \in 0 .. c - 1 /\ (h + e) % c = b
      BY <3>1, <3>2, DistanceBeyond
    <3>4. e < w
      BY <2>1, <2>2, <2>5, <3>1 DEF HopInv, NodesNear, Hop!Distance
    <3>5. e \in 0 .. w - 1 /\ e < c
      BY <3>3, <3>4
    <3>6. e \in hop_info[h]
      BY <2>1, <2>2, <2>5, <3>3, <3>5 DEF HopInv, Hop!HopExact
    <3> QED BY <3>3, <3>6
  <2> QED BY <2>3, <2>4, <2>5
<1> QED
  BY <1>1, HopInvariant, PTL

\* The map implements IndexSpec: moves, rehashes and calls that start again neither
\* lose a key nor add one.
THEOREM HopIndexIsImplemented == Hop!Spec => Hop!ImplementsIndex
<1>1. Hop!Init => Hop!Index!Init
  BY HopInitInv DEF Hop!Index!Init
<1>2. HopInv /\ [Hop!Next]_(Hop!vars) => [Hop!Index!Next]_(Hop!Held)
  BY HopStep
<1> QED
  BY <1>1, <1>2, HopInvariant, PTL DEF Hop!Spec, Hop!ImplementsIndex, Hop!Index!Spec
-----------------------------------------------------------------------------
(* Cuckoo hashing.  Of what can happen only an insertion that gives up     *)
(* loses a key, whatever was kicked or rehashed before.                    *)

CONSTANTS h1, h2, MaxKicks

VARIABLES buckets1, buckets2, key, hand, in_buckets1, kicks, caller,
          old_buckets1, old_buckets2, old_capacity, i, table, pc

Cuckoo == INSTANCE CuckooMap

\* Every node of the table t lies where its hash hs says.
TableOK(t, hs, cap) ==
  /\ DOMAIN t \subseteq 0 .. cap - 1
  /\ \A b \in DOMAIN t : t[b] \in Keys /\ hs[t[b]] % cap = b

\* A table that rehash takes nodes from, what it left in it included.
OldOK(t, cap) ==
  /\ DOMAIN t \subseteq 0 .. cap - 1
  /\ \A b \in DOMAIN t : t[b] \in Keys

TablesOK ==
  /\ capacity \in Nat \ {0} /\ size \in Nat
  /\ TableOK(buckets1, h1, capacity) /\ TableOK(buckets2, h2, capacity)

\* rehash is at a bucket of the old tables, or after the last.
RehashOK ==
  /\ old_capacity \in Nat
  /\ OldOK(old_buckets1, old_capacity) /\ OldOK(old_buckets2, old_capacity)
  /\ i \in 0 .. old_capacity /\ table \in {1, 2}

\* There is a key in hand within emplace_no_rehash, and one to be inserted
\* until emplace returns.
CallsOK ==
  /\ pc \in {"idle", "kick", "rehash"} /\ caller \in {"emplace", "rehash"}
  /\ IF pc = "kick" THEN hand \in Keys ELSE hand = NoKey /\ caller = "emplace"
  /\ pc # "idle" => key \in Keys
  /\ caller = "rehash" => i < old_capacity

CuckooInv == TablesOK /\ RehashOK /\ CallsOK /\ Cuckoo!SizeExact

LEMMA CuckooSizeIs ==
  Cuckoo!SizeExact <=> size = Cardinality(DOMAIN buckets1) + Cardinality(DOMAIN buckets2)
BY DEF Cuckoo!SizeExact, Cuckoo!Cardinality, Cardinality

LEMMA NodesIs ==
  ASSUME NEW t, NEW n, NEW k
  PROVE  k \in Cuckoo!Nodes(t, n) <=> \E b \in DOMAIN t : b >= n /\ t[b] = k
BY DEF Cuckoo!Nodes

LEMMA EmptyTable ==
  ASSUME NEW hs, NEW cap, NEW t, t = << >>
  PROVE  TableOK(t, hs, cap) /\ OldOK(t, cap) /\ DOMAIN t = {} /\ \A n : Cuckoo!Nodes(t, n) = {}
<1>1. DOMAIN t = {}
  OBVIOUS
<1> QED
  BY <1>1 DEF TableOK, OldOK, Cuckoo!Nodes

LEMMA TableFinite ==
  ASSUME NEW t, NEW cap \in Nat, DOMAIN t \subseteq 0 .. cap - 1
  PROVE  IsFiniteSet(DOMAIN t) /\ Cardinality(DOMAIN t) \in Nat
<1>1. IsFiniteSet(0 .. cap - 1)
  BY FS_Interval
<1>2. IsFiniteSet(DOMAIN t)
  BY <1>1, FS_Subset
<1> QED
  BY <1>2, FS_CardinalityType

\* A key is put into its bucket: the bucket was free, or its node comes out.
Placed(t, u, k, b) ==
  /\ b \in DOMAIN t => DOMAIN u = DOMAIN t
  /\ b \notin DOMAIN t => Cardinality(DOMAIN u) = Cardinality(DOMAIN t) + 1
  /\ \A x : x \in Cuckoo!Nodes(t, 0) \/ x = k
              => x \in Cuckoo!Nodes(u, 0) \/ (b \in DOMAIN t /\ x = t[b])

LEMMA KeyStored ==
  ASSUME NEW hs \in [Keys -> Nat], NEW cap \in Nat \ {0}, NEW t, TableOK(t, hs, cap),
         NEW k \in Keys, NEW b, b = hs[k] % cap, NEW u, u = Cuckoo!Store(t, b, k)
  PROVE  b \in 0 .. cap - 1 /\ TableOK(u, hs, cap) /\ Placed(t, u, k, b)
<1>1. b \in 0 .. cap - 1
  <2>1. hs[k] \in Nat
    OBVIOUS
  <2> QED BY <2>1, ModType
<1>2. /\ DOMAIN u = DOMAIN t \cup {b} /\ u[b] = k
      /\ \A c \in DOMAIN t : c # b => u[c] = t[c]
  BY DEF Cuckoo!Store
<1>3. TableOK(u, hs, cap)
  BY <1>1, <1>2 DEF TableOK
<1>4. ASSUME b \notin DOMAIN t PROVE Cardinality(DOMAIN u) = Cardinality(DOMAIN t) + 1
  <2>1. IsFiniteSet(DOMAIN t)
    BY TableFinite DEF TableOK
  <2> QED BY <1>2, <1>4, <2>1, FS_AddElement
<1>5. ASSUME NEW x, x \in Cuckoo!Nodes(t, 0) \/ x = k
      PROVE  x \in Cuckoo!Nodes(u, 0) \/ (b \in DOMAIN t /\ x = t[b])
  <2>1. CASE x = k
    <3>1. b >= 0 /\ b \in DOMAIN u /\ u[b] = x
      BY <1>1, <1>2, <2>1
    <3> QED BY <3>1, NodesIs
  <2>2. CASE x \in Cuckoo!Nodes(t, 0)
    <3>1. PICK c \in DOMAIN t : c >= 0 /\ t[c] = x
      BY <2>2, NodesIs
    <3>2. CASE c = b
      BY <3>1, <3>2
    <3>3. CASE c # b
      <4>1. c \in DOMAIN u /\ u[c] = x
        BY <1>2, <3>1, <3>3
      <4> QED BY <3>1, <4>1, NodesIs
    <3> QED BY <3>2, <3>3
  <2> QED BY <1>5, <2>1, <2>2
<1>6. Placed(t, u, k, b)
  BY <1>2, <1>4, <1>5 DEF Placed
<1> QED
  BY <1>1, <1>3, <1>6

\* Put, whichever table the key in hand goes into.
LEMMA PutInv ==
  ASSUME Cuckoo!HashAssumption, CuckooInv, pc = "kick", Cuckoo!Put, capacity' = capacity,
         NEW t, t = Cuckoo!Table, NEW b, b = Cuckoo!Bucket
  PROVE  /\ TableOK(buckets1', h1, capacity) /\ TableOK(buckets2', h2, capacity)
         /\ b \in DOMAIN t =>
              /\ DOMAIN buckets1' = DOMAIN buckets1 /\ DOMAIN buckets2' = DOMAIN buckets2
              /\ t[b] \in Keys
         /\ b \notin DOMAIN t => Cardinality(DOMAIN buckets1') + Cardinality(DOMAIN buckets2') = size + 1
         /\ \A x : x \in Cuckoo!Stored \/ x = hand
                     => x \in Cuckoo!Stored' \/ (b \in DOMAIN t /\ x = t[b])
<1>1. /\ hand \in Keys /\ capacity \in Nat \ {0} /\ size \in Nat
      /\ TableOK(buckets1, h1, capacity) /\ TableOK(buckets2, h2, capacity)
      /\ size = Cardinality(DOMAIN buckets1) + Cardinality(DOMAIN buckets2)
  <2>1. hand \in Keys
    BY DEF CuckooInv, CallsOK
  <2>2. size = Cardinality(DOMAIN buckets1) + Cardinality(DOMAIN buckets2)
    BY CuckooSizeIs DEF CuckooInv
  <2> QED BY <2>1, <2>2 DEF CuckooInv, TablesOK
<1>0. PICK c \in Nat \ {0} : c = capacity
  BY <1>1
<1>2. Cardinality(DOMAIN buckets1) \in Nat /\ Cardinality(DOMAIN buckets2) \in Nat
  <2>1. DOMAIN buckets1 \subseteq 0 .. capacity - 1 /\ DOMAIN buckets2 \subseteq 0 .. capacity - 1
    BY <1>1 DEF TableOK
  <2> QED BY <1>1, <2>1, TableFinite
<1>3. Cuckoo!Stored = Cuckoo!Nodes(buckets1, 0) \cup Cuckoo!Nodes(buckets2, 0)
  BY DEF Cuckoo!Stored
<1>4. Cuckoo!Stored' = Cuckoo!Nodes(buckets1', 0) \cup Cuckoo!Nodes(buckets2', 0)
  BY DEF Cuckoo!Stored, Cuckoo!Nodes
<1>5. CASE in_buckets1
  <2>0. PICK u : u = buckets1'
    OBVIOUS
  <2>1. PICK k \in Keys : k = hand
    BY <1>1
  <2>2. /\ t = buckets1 /\ b = h1[k] % capacity /\ u = Cuckoo!Store(t, b, k)
        /\ buckets2' = buckets2
    BY <1>5, <2>0, <2>1 DEF Cuckoo!Put, Cuckoo!Table, Cuckoo!Bucket
  <2>3. TableOK(u, h1, capacity) /\ Placed(t, u, k, b)
    <3>1. h1 \in [Keys -> Nat]
      BY DEF Cuckoo!HashAssumption
    <3>2. TableOK(t, h1, c) /\ b = h1[k] % c
      BY <1>0, <1>1, <2>2
    <3> QED BY <1>0, <2>2, <3>1, <3>2, KeyStored
  <2>4. b \in DOMAIN t => t[b] \in Keys
    BY <1>1, <2>2 DEF TableOK
  <2> QED BY <1>1, <1>2, <1>3, <1>4, <2>0, <2>1, <2>2, <2>3, <2>4 DEF Placed
<1>6. CASE ~in_buckets1
  <2>0. PICK u : u = buckets2'
    OBVIOUS
  <2>1. PICK k \in Keys : k = hand
    BY <1>1
  <2>2. /\ t = buckets2 /\ b = h2[k] % capacity /\ u = Cuckoo!Store(t, b, k)
        /\ buckets1' = buckets1
    BY <1>6, <2>0, <2>1 DEF Cuckoo!Put, Cuckoo!Table, Cuckoo!Bucket
  <2>3. TableOK(u, h2, capacity) /\ Placed(t, u, k, b)
    <3>1. h2 \in [Keys -> Nat]
      BY DEF Cuckoo!HashAssumption
    <3>2. TableOK(t, h2, c) /\ b = h2[k] % c
      BY <1>0, <1>1, <2>2
    <3> QED BY <1>0, <2>2, <3>1, <3>2, KeyStored
  <2>4. b \in DOMAIN t => t[b] \in Keys
    BY <1>1, <2>2 DEF TableOK
  <2> QED BY <1>1, <1>2, <1>3, <1>4, <2>0, <2>1, <2>2, <2>3, <2>4 DEF Placed
<1> QED
  BY <1>5, <1>6

\* What rehash has still to insert: the nodes of the buckets after the one that it
\* has taken a node from, and the key of the call.
Left ==
  {key} \cup Cuckoo!Nodes(old_buckets1, IF pc = "kick" \/ table = 2 THEN i + 1 ELSE i)
        \cup Cuckoo!Nodes(old_buckets2, IF pc = "kick" /\ table = 2 THEN i + 1 ELSE i)

InHandOrLeft ==
  ({hand} \ {NoKey}) \cup (IF pc = "rehash" \/ caller = "rehash" THEN Left ELSE {})

LEMMA CuckooHeldIs ==
  RehashOK => Cuckoo!Held = Cuckoo!Stored \cup InHandOrLeft
<1> SUFFICES ASSUME RehashOK PROVE Cuckoo!Held = Cuckoo!Stored \cup InHandOrLeft
  OBVIOUS
<1>1. table \in {1, 2}
  BY DEF RehashOK
<1>2. PICK taken : taken = IF pc = "kick" THEN table ELSE table - 1
  OBVIOUS
<1>3. /\ (IF taken = 0 THEN i ELSE i + 1) = (IF pc = "kick" \/ table = 2 THEN i + 1 ELSE i)
      /\ (IF taken = 2 THEN i + 1 ELSE i) = (IF pc = "kick" /\ table = 2 THEN i + 1 ELSE i)
  BY <1>1, <1>2
<1> QED
  BY <1>2, <1>3 DEF Cuckoo!Held, InHandOrLeft, Left

LEMMA CuckooHeldNext ==
  RehashOK' => Cuckoo!Held' = Cuckoo!Stored' \cup InHandOrLeft'
<1> DEFINE Apart == Cuckoo!Held = Cuckoo!Stored \cup InHandOrLeft
<1>1. RehashOK => Apart
  BY CuckooHeldIs
<1> HIDE DEF Apart
<1>2. RehashOK' => Apart'
  BY <1>1, PTL
<1> QED
  BY <1>2 DEF Apart

\* The loop over the old buckets starts, and the map is empty.
LEMMA StartLoopInv ==
  ASSUME TablesOK, Cuckoo!StartLoop, key' \in Keys, old_capacity' \in Nat,
         OldOK(old_buckets1', old_capacity'), OldOK(old_buckets2', old_capacity')
  PROVE  CuckooInv'
<1>1. /\ capacity' \in Nat \ {0} /\ size' = 0 /\ i' = 0 /\ table' = 1 /\ pc' = "rehash"
      /\ hand' = NoKey /\ caller' = "emplace" /\ buckets1' = << >> /\ buckets2' = << >>
  BY DEF TablesOK, Cuckoo!StartLoop, Cuckoo!Cleared, Cuckoo!NotInserting, Cuckoo!RestartedSize
<1>2. /\ TableOK(buckets1', h1, capacity') /\ DOMAIN buckets1' = {}
      /\ TableOK(buckets2', h2, capacity') /\ DOMAIN buckets2' = {}
  BY <1>1, EmptyTable
<1>3. TablesOK'
  BY <1>1, <1>2 DEF TablesOK, TableOK
<1>4. RehashOK'
  BY <1>1 DEF RehashOK, OldOK
<1>5. CallsOK'
  BY <1>1 DEF CallsOK
<1>6. Cuckoo!SizeExact'
  <2>1. size' = Cardinality(DOMAIN buckets1') + Cardinality(DOMAIN buckets2')
    BY <1>1, <1>2, FS_EmptySet
  <2> QED BY <2>1 DEF Cuckoo!SizeExact, Cuckoo!Cardinality, Cardinality
<1> QED
  BY <1>3, <1>4, <1>5, <1>6 DEF CuckooInv

LEMMA StartRehashInv ==
  ASSUME TablesOK, Cuckoo!StartRehash, key' \in Keys
  PROVE  CuckooInv' /\ Cuckoo!Stored \cup {key'} \subseteq Cuckoo!Held'
<1>1. /\ old_buckets1' = buckets1 /\ old_buckets2' = buckets2 /\ old_capacity' = capacity
      /\ Cuckoo!StartLoop /\ i' = 0 /\ table' = 1 /\ pc' = "rehash"
  BY DEF Cuckoo!StartRehash, Cuckoo!StartLoop
<1>2. old_capacity' \in Nat /\ OldOK(old_buckets1', old_capacity') /\ OldOK(old_buckets2', old_capacity')
  BY <1>1 DEF TablesOK, TableOK, OldOK
<1>3. CuckooInv'
  BY <1>1, <1>2, StartLoopInv
<1>4. Cuckoo!Held' = Cuckoo!Stored' \cup InHandOrLeft'
  BY <1>3, CuckooHeldNext DEF CuckooInv
<1>5. InHandOrLeft' = ({hand'} \ {NoKey}) \cup Left'
  BY <1>1 DEF InHandOrLeft
<1>6. Left' = {key'} \cup Cuckoo!Nodes(buckets1, 0) \cup Cuckoo!Nodes(buckets2, 0)
  BY <1>1 DEF Left, Cuckoo!Nodes
<1> QED
  BY <1>3, <1>4, <1>5, <1>6 DEF Cuckoo!Stored

LEMMA CuckooEmplaceInv ==
  ASSUME Cuckoo!HashAssumption, CuckooInv, NEW k \in Keys, Cuckoo!Emplace(k)
  PROVE  CuckooInv' /\ Cuckoo!Held \cup {k} \subseteq Cuckoo!Held'
<1>1. pc = "idle" /\ hand = NoKey /\ caller = "emplace" /\ key' = k /\ k # NoKey
  BY DEF CuckooInv, CallsOK, Cuckoo!Emplace, Cuckoo!Idle, Cuckoo!HashAssumption
<1>2. Cuckoo!Held = Cuckoo!Stored
  BY <1>1, CuckooHeldIs DEF CuckooInv, InHandOrLeft
<1>3. CASE Cuckoo!Overloaded
  <2>1. Cuckoo!StartRehash
    BY <1>3 DEF Cuckoo!Emplace
  <2> QED BY <1>1, <1>2, <2>1, StartRehashInv DEF CuckooInv
<1>4. CASE ~Cuckoo!Overloaded
  <2>1. /\ pc' = "kick" /\ caller' = "emplace" /\ hand' = k
        /\ UNCHANGED <<capacity, buckets1, buckets2, size, old_buckets1, old_buckets2, old_capacity, i, table>>
    BY <1>4 DEF Cuckoo!Emplace, Cuckoo!InsertFor, Cuckoo!map, Cuckoo!old
  <2>2. TablesOK' /\ RehashOK'
    BY <2>1 DEF CuckooInv, TablesOK, TableOK, RehashOK, OldOK
  <2>3. CallsOK'
    BY <1>1, <2>1 DEF CallsOK
  <2>4. Cuckoo!SizeExact' /\ Cuckoo!Stored' = Cuckoo!Stored
    BY <2>1 DEF CuckooInv, Cuckoo!SizeExact, Cuckoo!Stored, Cuckoo!Nodes
  <2>5. Cuckoo!Held' = Cuckoo!Stored \cup {k}
    BY <1>1, <2>1, <2>2, <2>4, CuckooHeldNext DEF InHandOrLeft
  <2> QED BY <1>2, <2>2, <2>3, <2>4, <2>5 DEF CuckooInv
<1> QED
  BY <1>3, <1>4

\* What becomes of the tables and of the key in hand, in Place.
LEMMA PlacePut ==
  ASSUME Cuckoo!HashAssumption, CuckooInv, Cuckoo!Place
  PROVE  /\ TablesOK' /\ Cuckoo!SizeExact'
         /\ Cuckoo!Stored \cup {hand} \subseteq Cuckoo!Stored'
<1>1. /\ pc = "kick" /\ Cuckoo!Put /\ capacity' = capacity /\ size' = size + 1
      /\ Cuckoo!Bucket \notin DOMAIN Cuckoo!Table
  BY DEF Cuckoo!Place
<1>2. PICK t, b : t = Cuckoo!Table /\ b = Cuckoo!Bucket
  OBVIOUS
<1>3. /\ TableOK(buckets1', h1, capacity) /\ TableOK(buckets2', h2, capacity)
      /\ Cardinality(DOMAIN buckets1') + Cardinality(DOMAIN buckets2') = size + 1
      /\ \A x : x \in Cuckoo!Stored \/ x = hand => x \in Cuckoo!Stored'
  BY <1>1, <1>2, PutInv
<1>4. TablesOK'
  BY <1>1, <1>3 DEF CuckooInv, TablesOK, TableOK
<1>5. Cuckoo!SizeExact'
  BY <1>1, <1>3 DEF Cuckoo!SizeExact, Cuckoo!Cardinality, Cardinality
<1> QED
  BY <1>3, <1>4, <1>5

LEMMA CuckooPlaceInv ==
  ASSUME Cuckoo!HashAssumption, CuckooInv, Cuckoo!Place
  PROVE  CuckooInv' /\ Cuckoo!Held \subseteq Cuckoo!Held'
<1>1. /\ TablesOK' /\ Cuckoo!SizeExact'
      /\ Cuckoo!Stored \cup {hand} \subseteq Cuckoo!Stored'
  BY PlacePut
<1>2. /\ pc = "kick" /\ caller \in {"emplace", "rehash"} /\ key \in Keys
      /\ caller = "rehash" => i < old_capacity
  BY DEF Cuckoo!Place, CuckooInv, CallsOK
<1>3. /\ old_capacity \in Nat /\ i \in 0 .. old_capacity /\ table \in {1, 2}
      /\ OldOK(old_buckets1, old_capacity) /\ OldOK(old_buckets2, old_capacity)
      /\ hand \in Keys
  BY <1>2 DEF CuckooInv, RehashOK, CallsOK
<1>4. CASE caller = "emplace"
  <2>1. /\ pc' = "idle" /\ hand' = NoKey /\ caller' = "emplace"
        /\ old_buckets1' = << >> /\ old_buckets2' = << >> /\ old_capacity' = 0 /\ i' = 0 /\ table' = 1
    BY <1>4 DEF Cuckoo!Place, Cuckoo!Return, Cuckoo!NotInserting
  <2>2. OldOK(old_buckets1', old_capacity') /\ OldOK(old_buckets2', old_capacity')
    BY <2>1, EmptyTable
  <2>3. RehashOK'
    BY <2>1, <2>2 DEF RehashOK, OldOK
  <2>4. CallsOK'
    BY <2>1 DEF CallsOK
  <2>5. Cuckoo!Held \subseteq Cuckoo!Held'
    <3>1. InHandOrLeft \subseteq {hand}
      BY <1>2, <1>4 DEF InHandOrLeft
    <3>2. Cuckoo!Held = Cuckoo!Stored \cup InHandOrLeft
      BY CuckooHeldIs DEF CuckooInv
    <3>3. Cuckoo!Stored' \subseteq Cuckoo!Held'
      BY <2>3, CuckooHeldNext
    <3> QED BY <1>1, <3>1, <3>2, <3>3
  <2> QED BY <1>1, <2>3, <2>4, <2>5 DEF CuckooInv
<1>5. CASE caller = "rehash"
  <2>1. /\ pc' = "rehash" /\ hand' = NoKey /\ caller' = "emplace"
        /\ Cuckoo!NextBucket /\ old_buckets1' = Cuckoo!Store(old_buckets1, i, hand)
        /\ UNCHANGED <<key, old_buckets2, old_capacity>>
    BY <1>5 DEF Cuckoo!Place, Cuckoo!LeaveInOld, Cuckoo!NotInserting
  <2>2. i' \in 0 .. old_capacity /\ table' \in {1, 2}
    BY <1>2, <1>3, <1>5, <2>1 DEF Cuckoo!NextBucket
  <2>3. OldOK(old_buckets1', old_capacity)
    BY <1>2, <1>3, <1>5, <2>1 DEF OldOK, Cuckoo!Store
  <2>4. RehashOK'
    BY <1>3, <2>1, <2>2, <2>3 DEF RehashOK, OldOK
  <2>5. CallsOK'
    BY <1>2, <2>1 DEF CallsOK
  <2>6. Left \subseteq Left'
    <3>1. Cuckoo!Nodes(old_buckets1, i + 1) \subseteq Cuckoo!Nodes(old_buckets1', i + 1)
      BY <1>3, <2>1 DEF Cuckoo!Nodes, Cuckoo!Store, OldOK
    <3>2. CASE table = 1
      BY <1>2, <2>1, <3>1, <3>2 DEF Left, Cuckoo!NextBucket, Cuckoo!Nodes
    <3>3. CASE table = 2
      BY <1>2, <2>1, <3>1, <3>3 DEF Left, Cuckoo!NextBucket, Cuckoo!Nodes
    <3> QED BY <1>3, <3>2, <3>3
  <2>7. Cuckoo!Held \subseteq Cuckoo!Held'
    <3>1. InHandOrLeft \subseteq {hand} \cup Left
      BY DEF InHandOrLeft
    <3>2. Cuckoo!Held = Cuckoo!Stored \cup InHandOrLeft
      BY CuckooHeldIs DEF CuckooInv
    <3>3. Left' \subseteq InHandOrLeft'
      BY <2>1 DEF InHandOrLeft
    <3>4. Cuckoo!Held' = Cuckoo!Stored' \cup InHandOrLeft'
      BY <2>4, CuckooHeldNext
    <3> QED BY <1>1, <2>6, <3>1, <3>2, <3>3, <3>4
  <2> QED BY <1>1, <2>4, <2>5, <2>7 DEF CuckooInv
<1> QED
  BY <1>2, <1>4, <1>5

LEMMA KickInv ==
  ASSUME Cuckoo!HashAssumption, CuckooInv, Cuckoo!Kick
  PROVE  CuckooInv' /\ Cuckoo!Held \subseteq Cuckoo!Held'
<1>1. PICK t, b : t = Cuckoo!Table /\ b = Cuckoo!Bucket
  OBVIOUS
<1>2. /\ pc = "kick" /\ Cuckoo!Put /\ b \in DOMAIN t /\ hand' = t[b]
      /\ UNCHANGED <<capacity, size, key, caller, pc>>
      /\ UNCHANGED <<old_buckets1, old_buckets2, old_capacity, i, table>>
  BY <1>1 DEF Cuckoo!Kick, Cuckoo!old
<1>3. /\ TableOK(buckets1', h1, capacity) /\ TableOK(buckets2', h2, capacity)
      /\ DOMAIN buckets1' = DOMAIN buckets1 /\ DOMAIN buckets2' = DOMAIN buckets2
      /\ hand' \in Keys
      /\ \A x : x \in Cuckoo!Stored \/ x = hand => x \in Cuckoo!Stored' \/ x = hand'
  BY <1>1, <1>2, PutInv
<1>4. TablesOK' /\ RehashOK' /\ CallsOK'
  BY <1>2, <1>3 DEF CuckooInv, TablesOK, TableOK, RehashOK, OldOK, CallsOK
<1>5. Cuckoo!SizeExact'
  <2>1. size = Cardinality(DOMAIN buckets1) + Cardinality(DOMAIN buckets2)
    BY CuckooSizeIs DEF CuckooInv
  <2>2. size' = Cardinality(DOMAIN buckets1') + Cardinality(DOMAIN buckets2')
    BY <1>2, <1>3, <2>1
  <2> QED BY <2>2 DEF Cuckoo!SizeExact, Cuckoo!Cardinality, Cardinality
<1>6. Cuckoo!Held \subseteq Cuckoo!Held'
  <2>1. Cuckoo!Held = Cuckoo!Stored \cup InHandOrLeft
    BY CuckooHeldIs DEF CuckooInv
  <2>2. Cuckoo!Held' = Cuckoo!Stored' \cup InHandOrLeft'
    BY <1>4, CuckooHeldNext
  <2>3. Left' = Left
    BY <1>2 DEF Left, Cuckoo!Nodes
  <2>4. hand' # NoKey
    BY <1>3 DEF Cuckoo!HashAssumption
  <2> QED BY <1>2, <1>3, <2>1, <2>2, <2>3, <2>4 DEF InHandOrLeft
<1> QED
  BY <1>4, <1>5, <1>6 DEF CuckooInv

\* Nothing is said of the keys held: the one in hand is dropped.
LEMMA GiveUpInv == ASSUME CuckooInv, Cuckoo!GiveUp PROVE CuckooInv'
<1>1. /\ pc = "kick" /\ key' = key /\ key \in Keys /\ hand \in Keys
      /\ caller \in {"emplace", "rehash"} /\ (caller = "rehash" => i < old_capacity)
      /\ TablesOK /\ RehashOK
  BY DEF Cuckoo!GiveUp, CuckooInv, CallsOK
<1>2. CASE caller = "emplace"
  <2>1. Cuckoo!StartRehash
    BY <1>2 DEF Cuckoo!GiveUp
  <2> QED BY <1>1, <2>1, StartRehashInv
<1>3. CASE caller = "rehash"
  <2>1. /\ Cuckoo!StartLoop /\ old_buckets1' = Cuckoo!Store(old_buckets1, i, hand)
        /\ UNCHANGED <<old_buckets2, old_capacity>>
    BY <1>3 DEF Cuckoo!GiveUp, Cuckoo!LeaveInOld
  <2>2. old_capacity \in Nat /\ OldOK(old_buckets1', old_capacity) /\ OldOK(old_buckets2', old_capacity)
    BY <1>1, <1>3, <2>1 DEF RehashOK, OldOK, Cuckoo!Store
  <2>3. /\ key' \in Keys /\ old_capacity' \in Nat
        /\ OldOK(old_buckets1', old_capacity') /\ OldOK(old_buckets2', old_capacity')
    BY <1>1, <2>1, <2>2
  <2> QED BY <1>1, <2>1, <2>3, StartLoopInv
<1> QED
  BY <1>1, <1>2, <1>3

LEMMA TakeOldInv ==
  ASSUME Cuckoo!HashAssumption, CuckooInv, Cuckoo!TakeOld
  PROVE  CuckooInv' /\ Cuckoo!Held \subseteq Cuckoo!Held'
<1>1. PICK t : t = IF table = 1 THEN old_buckets1 ELSE old_buckets2
  OBVIOUS
<1>2. PICK j : j = i
  OBVIOUS
<1>3. /\ pc = "rehash" /\ j < old_capacity
      /\ old_buckets1' = Cuckoo!Assign(old_buckets1, j, t)
      /\ IF j \in DOMAIN t
           THEN Cuckoo!InsertFor("rehash", t[j]) /\ UNCHANGED <<i, table>>
           ELSE Cuckoo!NextBucket /\ UNCHANGED <<pc, hand, in_buckets1, kicks, caller>>
      /\ UNCHANGED <<capacity, buckets1, buckets2, size, key, old_buckets2, old_capacity>>
  BY <1>1, <1>2 DEF Cuckoo!TakeOld, Cuckoo!map, Cuckoo!kick
<1>4. /\ old_capacity \in Nat /\ j \in 0 .. old_capacity /\ table \in {1, 2}
      /\ OldOK(old_buckets1, old_capacity) /\ OldOK(old_buckets2, old_capacity)
      /\ key \in Keys /\ hand = NoKey /\ caller = "emplace"
  BY <1>2, <1>3 DEF CuckooInv, RehashOK, CallsOK
<1>5. OldOK(t, old_capacity)
  BY <1>1, <1>4
<1>6. /\ DOMAIN old_buckets1' \subseteq DOMAIN old_buckets1 \cup {j}
      /\ \A c \in DOMAIN old_buckets1 : c # j => c \in DOMAIN old_buckets1' /\ old_buckets1'[c] = old_buckets1[c]
      /\ OldOK(old_buckets1', old_capacity)
  <2>1. CASE j \in DOMAIN t
    BY <1>3, <1>4, <1>5, <2>1 DEF OldOK, Cuckoo!Assign, Cuckoo!Store
  <2>2. CASE j \notin DOMAIN t
    BY <1>3, <1>4, <1>5, <2>2 DEF OldOK, Cuckoo!Assign
  <2> QED BY <2>1, <2>2
<1>7. TablesOK' /\ Cuckoo!SizeExact' /\ Cuckoo!Stored' = Cuckoo!Stored
  BY <1>3 DEF CuckooInv, TablesOK, TableOK, Cuckoo!SizeExact, Cuckoo!Stored, Cuckoo!Nodes
<1>8. Cuckoo!Nodes(old_buckets1, j + 1) \subseteq Cuckoo!Nodes(old_buckets1', j + 1)
  BY <1>4, <1>6 DEF Cuckoo!Nodes, OldOK
<1>9. Cuckoo!Held = Cuckoo!Stored \cup InHandOrLeft
  BY CuckooHeldIs DEF CuckooInv
<1>10. InHandOrLeft = Left
  BY <1>3, <1>4 DEF InHandOrLeft
<1>11. CASE j \in DOMAIN t
  <2>1. /\ pc' = "kick" /\ caller' = "rehash" /\ hand' = t[j] /\ i' = j /\ table' = table
        /\ hand' \in Keys
    BY <1>2, <1>3, <1>5, <1>11 DEF Cuckoo!InsertFor, OldOK
  <2>2. RehashOK' /\ CallsOK'
    BY <1>3, <1>4, <1>6, <2>1 DEF RehashOK, CallsOK, OldOK
  <2>3. Cuckoo!Held' = Cuckoo!Stored' \cup InHandOrLeft'
    BY <2>2, CuckooHeldNext
  <2>4. InHandOrLeft' = {hand'} \cup Left'
    <3>1. hand' # NoKey
      BY <2>1 DEF Cuckoo!HashAssumption
    <3> QED BY <2>1, <3>1 DEF InHandOrLeft
  <2>5. \A c \in DOMAIN t : c >= j => c = j \/ c >= j + 1
    BY <1>4, <1>5 DEF OldOK
  <2>6. Left \subseteq {hand'} \cup Left'
    <3>1. CASE table = 1
      <4>1. Cuckoo!Nodes(old_buckets1, j) \subseteq {hand'} \cup Cuckoo!Nodes(old_buckets1, j + 1)
        BY <1>1, <2>1, <2>5, <3>1 DEF Cuckoo!Nodes
      <4>2. Left = {key} \cup Cuckoo!Nodes(old_buckets1, j) \cup Cuckoo!Nodes(old_buckets2, j)
        BY <1>2, <1>3, <3>1 DEF Left
      <4>3. Left' = {key} \cup Cuckoo!Nodes(old_buckets1', j + 1) \cup Cuckoo!Nodes(old_buckets2, j)
        BY <1>3, <2>1, <3>1 DEF Left, Cuckoo!Nodes
      <4> QED BY <1>8, <4>1, <4>2, <4>3
    <3>2. CASE table = 2
      <4>1. Cuckoo!Nodes(old_buckets2, j) \subseteq {hand'} \cup Cuckoo!Nodes(old_buckets2, j + 1)
        BY <1>1, <2>1, <2>5, <3>2 DEF Cuckoo!Nodes
      <4>2. Left = {key} \cup Cuckoo!Nodes(old_buckets1, j + 1) \cup Cuckoo!Nodes(old_buckets2, j)
        BY <1>2, <1>3, <3>2 DEF Left
      <4>3. Left' = {key} \cup Cuckoo!Nodes(old_buckets1', j + 1) \cup Cuckoo!Nodes(old_buckets2, j + 1)
        BY <1>3, <2>1, <3>2 DEF Left, Cuckoo!Nodes
      <4> QED BY <1>8, <4>1, <4>2, <4>3
    <3> QED BY <1>4, <3>1, <3>2
  <2> QED BY <1>7, <1>9, <1>10, <2>2, <2>3, <2>4, <2>6 DEF CuckooInv
<1>12. CASE j \notin DOMAIN t
  <2>1. /\ pc' = "rehash" /\ caller' = "emplace" /\ hand' = NoKey
        /\ IF table = 1 THEN table' = 2 /\ i' = j ELSE table' = 1 /\ i' = j + 1
    BY <1>2, <1>3, <1>4, <1>12 DEF Cuckoo!NextBucket
  <2>2. RehashOK' /\ CallsOK'
    BY <1>3, <1>4, <1>6, <2>1 DEF RehashOK, CallsOK, OldOK
  <2>3. Cuckoo!Held' = Cuckoo!Stored' \cup InHandOrLeft'
    BY <2>2, CuckooHeldNext
  <2>4. InHandOrLeft' = Left'
    BY <2>1 DEF InHandOrLeft
  <2>5. \A c \in DOMAIN t : c >= j => c >= j + 1
    BY <1>4, <1>5, <1>12 DEF OldOK
  <2>6. Left \subseteq Left'
    <3>1. CASE table = 1
      <4>1. Cuckoo!Nodes(old_buckets1, j) \subseteq Cuckoo!Nodes(old_buckets1, j + 1)
        BY <1>1, <2>5, <3>1 DEF Cuckoo!Nodes
      <4>2. Left = {key} \cup Cuckoo!Nodes(old_buckets1, j) \cup Cuckoo!Nodes(old_buckets2, j)
        BY <1>2, <1>3, <3>1 DEF Left
      <4>3. Left' = {key} \cup Cuckoo!Nodes(old_buckets1', j + 1) \cup Cuckoo!Nodes(old_buckets2, j)
        BY <1>3, <2>1, <3>1 DEF Left, Cuckoo!Nodes
      <4> QED BY <1>8, <4>1, <4>2, <4>3
    <3>2. CASE table = 2
      <4>1. Cuckoo!Nodes(old_buckets2, j) \subseteq Cuckoo!Nodes(old_buckets2, j + 1)
        BY <1>1, <2>5, <3>2 DEF Cuckoo!Nodes
      <4>2. Left = {key} \cup Cuckoo!Nodes(old_buckets1, j + 1) \cup Cuckoo!Nodes(old_buckets2, j)
        BY <1>2, <1>3, <3>2 DEF Left
      <4>3. Left' = {key} \cup Cuckoo!Nodes(old_buckets1', j + 1) \cup Cuckoo!Nodes(old_buckets2, j + 1)
        BY <1>3, <2>1, <3>2 DEF Left, Cuckoo!Nodes
      <4> QED BY <1>8, <4>1, <4>2, <4>3
    <3> QED BY <1>4, <3>1, <3>2
  <2> QED BY <1>7, <1>9, <1>10, <2>2, <2>3, <2>4, <2>6 DEF CuckooInv
<1> QED
  BY <1>11, <1>12

LEMMA EndRehashInv ==
  ASSUME Cuckoo!HashAssumption, CuckooInv, Cuckoo!EndRehash
  PROVE  CuckooInv' /\ Cuckoo!Held \subseteq Cuckoo!Held'
<1>1. /\ pc = "rehash" /\ i = old_capacity
      /\ pc' = "kick" /\ caller' = "emplace" /\ hand' = key
      /\ UNCHANGED <<capacity, buckets1, buckets2, size, key>>
      /\ UNCHANGED <<old_buckets1, old_buckets2, old_capacity, i, table>>
  BY DEF Cuckoo!EndRehash, Cuckoo!InsertFor, Cuckoo!map, Cuckoo!old
<1>2. /\ key \in Keys /\ key # NoKey /\ hand = NoKey /\ table \in {1, 2} /\ old_capacity \in Nat
      /\ OldOK(old_buckets1, old_capacity) /\ OldOK(old_buckets2, old_capacity)
  BY <1>1 DEF CuckooInv, CallsOK, RehashOK, Cuckoo!HashAssumption
<1>3. TablesOK' /\ Cuckoo!SizeExact' /\ Cuckoo!Stored' = Cuckoo!Stored
  BY <1>1 DEF CuckooInv, TablesOK, TableOK, Cuckoo!SizeExact, Cuckoo!Stored, Cuckoo!Nodes
<1>4. RehashOK'
  BY <1>1 DEF CuckooInv, RehashOK, OldOK
<1>5. CallsOK'
  BY <1>1, <1>2 DEF CallsOK
<1>6. Left = {key}
  <2>1. ASSUME NEW t, OldOK(t, old_capacity), NEW n \in {i, i + 1} PROVE Cuckoo!Nodes(t, n) = {}
    BY <1>1, <1>2, <2>1 DEF OldOK, Cuckoo!Nodes
  <2> QED BY <1>2, <2>1 DEF Left
<1>7. Cuckoo!Held = Cuckoo!Stored \cup InHandOrLeft
  BY CuckooHeldIs DEF CuckooInv
<1>8. Cuckoo!Held' = Cuckoo!Stored' \cup InHandOrLeft'
  BY <1>4, CuckooHeldNext
<1>9. InHandOrLeft = {key} /\ InHandOrLeft' = {key}
  BY <1>1, <1>2, <1>6 DEF InHandOrLeft
<1> QED
  BY <1>3, <1>4, <1>5, <1>7, <1>8, <1>9 DEF CuckooInv

LEMMA CuckooPowerIs == ASSUME NEW n PROVE Cuckoo!next_power_of_two(n) = next_power_of_two(n)
  BY DEF Cuckoo!next_power_of_two, next_power_of_two

LEMMA CuckooReserveInv ==
  ASSUME Cuckoo!HashAssumption, CuckooInv, NEW expected \in Reserves, Cuckoo!Reserve(expected)
  PROVE  CuckooInv' /\ Cuckoo!Held \subseteq Cuckoo!Held'
<1>1. PICK n : n = IF expected = 0 THEN 1 ELSE (expected * 3) \div 2
  OBVIOUS
<1>2. /\ pc = "idle" /\ buckets1 = << >> /\ buckets2 = << >>
      /\ capacity' = Cuckoo!next_power_of_two(n) /\ buckets1' = << >> /\ buckets2' = << >>
      /\ UNCHANGED <<size, key, hand, in_buckets1, kicks, caller, pc>>
      /\ UNCHANGED <<old_buckets1, old_buckets2, old_capacity, i, table>>
  BY <1>1 DEF Cuckoo!Reserve, Cuckoo!Idle, Cuckoo!Cleared, Cuckoo!kick, Cuckoo!old
<1>3. n \in Nat
  <2>1. expected \in Nat
    BY DEF Cuckoo!HashAssumption
  <2> QED BY <1>1, <2>1
<1>4. capacity' \in Nat \ {0}
  BY <1>2, <1>3, CuckooPowerIs, PowerType
<1>5. TableOK(buckets1', h1, capacity') /\ TableOK(buckets2', h2, capacity')
  BY <1>2, EmptyTable
<1>6. TablesOK'
  BY <1>2, <1>4, <1>5 DEF CuckooInv, TablesOK, TableOK
<1>7. RehashOK' /\ CallsOK'
  BY <1>2 DEF CuckooInv, RehashOK, OldOK, CallsOK
<1>8. Cuckoo!SizeExact' /\ Cuckoo!Stored' = Cuckoo!Stored
  BY <1>2 DEF CuckooInv, Cuckoo!SizeExact, Cuckoo!Stored, Cuckoo!Nodes
<1>9. Cuckoo!Held' = Cuckoo!Held
  BY <1>2, <1>8 DEF Cuckoo!Held, Cuckoo!Nodes
<1> QED
  BY <1>6, <1>7, <1>8, <1>9 DEF CuckooInv

LEMMA CuckooUnchangedInv ==
  CuckooInv /\ UNCHANGED Cuckoo!vars => CuckooInv' /\ Cuckoo!Held \subseteq Cuckoo!Held'
<1> SUFFICES ASSUME CuckooInv, UNCHANGED Cuckoo!vars
             PROVE  CuckooInv' /\ Cuckoo!Held \subseteq Cuckoo!Held'
  OBVIOUS
<1>1. /\ UNCHANGED <<capacity, buckets1, buckets2, size, key, hand, in_buckets1, kicks, caller, pc>>
      /\ UNCHANGED <<old_buckets1, old_buckets2, old_capacity, i, table>>
  BY DEF Cuckoo!vars, Cuckoo!map, Cuckoo!kick, Cuckoo!old
<1>2. TablesOK' /\ RehashOK' /\ CallsOK'
  BY <1>1 DEF CuckooInv, TablesOK, TableOK, RehashOK, OldOK, CallsOK
<1>3. Cuckoo!SizeExact' /\ Cuckoo!Held' = Cuckoo!Held
  BY <1>1 DEF CuckooInv, Cuckoo!SizeExact, Cuckoo!Held, Cuckoo!Stored, Cuckoo!Nodes
<1> QED
  BY <1>2, <1>3 DEF CuckooInv

LEMMA CuckooInitInv ==
  ASSUME Cuckoo!HashAssumption
  PROVE  Cuckoo!Init => CuckooInv
<1> SUFFICES ASSUME Cuckoo!Init PROVE CuckooInv
  OBVIOUS
<1>1. /\ capacity \in Nat \ {0} /\ size = 0 /\ buckets1 = << >> /\ buckets2 = << >>
      /\ hand = NoKey /\ caller = "emplace" /\ pc = "idle"
      /\ old_buckets1 = << >> /\ old_buckets2 = << >> /\ old_capacity = 0 /\ i = 0 /\ table = 1
  BY DEF Cuckoo!Init, Cuckoo!HashAssumption
<1>2. /\ TableOK(buckets1, h1, capacity) /\ DOMAIN buckets1 = {}
      /\ TableOK(buckets2, h2, capacity) /\ DOMAIN buckets2 = {}
      /\ OldOK(old_buckets1, old_capacity) /\ OldOK(old_buckets2, old_capacity)
  BY <1>1, EmptyTable
<1>3. TablesOK /\ RehashOK /\ CallsOK
  BY <1>1, <1>2 DEF TablesOK, RehashOK, CallsOK
<1>4. Cuckoo!SizeExact
  <2>1. size = Cardinality(DOMAIN buckets1) + Cardinality(DOMAIN buckets2)
    BY <1>1, <1>2, FS_EmptySet
  <2> QED BY <2>1, CuckooSizeIs
<1> QED
  BY <1>3, <1>4 DEF CuckooInv

LEMMA CuckooStep ==
  ASSUME Cuckoo!HashAssumption, CuckooInv, [Cuckoo!Next]_(Cuckoo!vars)
  PROVE  /\ CuckooInv'
         /\ Cuckoo!Held \subseteq Cuckoo!Held' \/ (pc = "kick" /\ ~Cuckoo!MayKick)
<1>1. ASSUME NEW k \in Keys \ Cuckoo!Stored, Cuckoo!Emplace(k)
      PROVE  CuckooInv' /\ Cuckoo!Held \subseteq Cuckoo!Held'
  BY <1>1, CuckooEmplaceInv
<1>2. CASE Cuckoo!Place
  BY <1>2, CuckooPlaceInv
<1>3. CASE Cuckoo!Kick
  BY <1>3, KickInv
<1>4. CASE Cuckoo!GiveUp
  BY <1>4, GiveUpInv DEF Cuckoo!GiveUp
<1>5. CASE Cuckoo!TakeOld
  BY <1>5, TakeOldInv
<1>6. CASE Cuckoo!EndRehash
  BY <1>6, EndRehashInv
<1>7. CASE \E expected \in Reserves : Cuckoo!Reserve(expected)
  BY <1>7, CuckooReserveInv
<1>8. CASE Cuckoo!Find \/ UNCHANGED Cuckoo!vars
  BY <1>8, CuckooUnchangedInv DEF Cuckoo!Find
<1> QED
  BY <1>1, <1>2, <1>3, <1>4, <1>5, <1>6, <1>7, <1>8 DEF Cuckoo!Next

LEMMA CuckooInvariant ==
  ASSUME Cuckoo!HashAssumption
  PROVE  Cuckoo!Spec => []CuckooInv
<1>1. CuckooInv /\ [Cuckoo!Next]_(Cuckoo!vars) => CuckooInv'
  BY CuckooStep
<1>2. Cuckoo!Init => CuckooInv
  BY CuckooInitInv
<1> QED
  BY <1>1, <1>2, PTL DEF Cuckoo!Spec

\* Wherever an insertion or a rehash was broken off, size counts the nodes in the
\* tables.
THEOREM CuckooSizeIsExact ==
  ASSUME Cuckoo!HashAssumption
  PROVE  Cuckoo!Spec => []Cuckoo!SizeExact
<1>1. CuckooInv => Cuckoo!SizeExact
  BY DEF CuckooInv
<1> QED
  BY <1>1, CuckooInvariant, PTL

\* Whatever was kicked between the tables or taken over by a rehash, a node lies where
\* one of its hashes says, so that find finds exactly what is stored.
THEOREM CuckooFindIsExact ==
  ASSUME Cuckoo!HashAssumption
  PROVE  Cuckoo!Spec => []Cuckoo!FindExact
<1>1. CuckooInv => Cuckoo!FindExact
  <2> SUFFICES ASSUME CuckooInv, NEW k \in Keys PROVE Cuckoo!find(k) <=> k \in Cuckoo!Stored
    BY DEF Cuckoo!FindExact
  <2>1. PICK c \in Nat \ {0} : c = capacity
    BY DEF CuckooInv, TablesOK
  <2>2. TableOK(buckets1, h1, c) /\ TableOK(buckets2, h2, c)
    BY <2>1 DEF CuckooInv, TablesOK
  <2>3. k \in Cuckoo!Stored <=> k \in Cuckoo!Nodes(buckets1, 0) \/ k \in Cuckoo!Nodes(buckets2, 0)
    BY DEF Cuckoo!Stored
  <2>4. ASSUME NEW t, NEW hs, TableOK(t, hs, c)
        PROVE  k \in Cuckoo!Nodes(t, 0) <=> hs[k] % c \in DOMAIN t /\ t[hs[k] % c] = k
    <3>1. \A b \in DOMAIN t : b >= 0
      BY <2>4 DEF TableOK
    <3>2. \A b \in DOMAIN t : t[b] = k => b = hs[k] % c
      BY <2>4 DEF TableOK
    <3> QED BY <3>1, <3>2, NodesIs
  <2> QED BY <2>1, <2>2, <2>3, <2>4 DEF Cuckoo!find
<1> QED
  BY <1>1, CuckooInvariant, PTL

\* A key is lost in one place only, where an insertion gives up: not by a kick, not by
\* a rehash, and not on the way from one to the other.
THEOREM CuckooLosesOnlyInGiveUp ==
  ASSUME Cuckoo!HashAssumption
  PROVE  Cuckoo!Spec => Cuckoo!LostOnlyInGiveUp
<1>1. CuckooInv /\ [Cuckoo!Next]_(Cuckoo!vars)
        => [Cuckoo!Held \subseteq Cuckoo!Held' \/ (pc = "kick" /\ ~Cuckoo!MayKick)]_(Cuckoo!vars)
  BY CuckooStep
<1> QED
  BY <1>1, CuckooInvariant, PTL DEF Cuckoo!Spec, Cuckoo!LostOnlyInGiveUp
=============================================================================
