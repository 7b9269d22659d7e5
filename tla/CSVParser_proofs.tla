-------------------------- MODULE CSVParser_proofs --------------------------
(***************************************************************************)
(* Proof that the chunks a text comes in make no difference to CSVParser,  *)
(* for texts and chunks of any length and both configurations: the parser  *)
(* is where CSVSpec is after the characters it has used, and those it has  *)
(* put off (a carriage return or an escape at the end of a chunk) come     *)
(* before the rest of the chunk.                                           *)
(***************************************************************************)
EXTENDS CSVParser, SequenceTheorems, WellFoundedInduction, TLAPS

Fields == Seq(Chars)

\* What CSVSpec may be after a part of a text.
State ==
  [escape : {"quote", "backslash"}, has_trailing_comma : BOOLEAN,
   mode : {"out", "in", "esc", "cr"}, field : Fields, fresh : BOOLEAN,
   ended : BOOLEAN, record : Seq(Fields), records : Seq(Seq(Fields)), ok : BOOLEAN]

Read(s, c) == Whole!ReadChar(s, c)
Fold(s, w) == Whole!ReadText(s, w)

-----------------------------------------------------------------------------
(* Induction.                                                              *)

\* Every set of naturals has a least element, so that induction holds.
LEMMA LeastNat ==
  ASSUME NEW T, T \subseteq Nat, T # {}
  PROVE  \E m \in T : \A k \in T : m <= k
<1> DEFINE R == OpToRel(<, Nat)
<1>1. IsWellFoundedOn(R, Nat)
  BY NatLessThanWellFounded
<1>2. \A x, y \in Nat : <<y, x>> \in R <=> y < x
  BY DEF OpToRel
<1> HIDE DEF R
<1>3. PICK m \in T : \A k \in T : ~(<<k, m>> \in R)
  BY <1>1, WFMin
<1>4. \A k \in T : ~(k < m) /\ k \in Nat /\ m \in Nat
  BY <1>2, <1>3
<1>5. \A k \in T : m <= k
  BY <1>4
<1> QED
  BY <1>5

LEMMA Induction ==
  ASSUME NEW T, 0 \in T, \A n \in Nat : n \in T => n + 1 \in T
  PROVE  \A n \in Nat : n \in T
<1> SUFFICES ASSUME NEW n \in Nat, n \notin T PROVE FALSE
  OBVIOUS
<1> DEFINE U == { k \in Nat : k \notin T }
<1>1. PICK m \in U : \A k \in U : m <= k
  BY LeastNat
<1>2. m # 0 /\ m \in Nat
  BY <1>1
<1>3. m - 1 \in Nat /\ ~(m <= m - 1)
  BY <1>2
<1>4. m - 1 \in T
  BY <1>1, <1>3
<1>5. (m - 1) + 1 \in T
  BY <1>3, <1>4
<1>6. (m - 1) + 1 = m
  BY <1>2
<1> QED
  BY <1>5, <1>6

-----------------------------------------------------------------------------
(* Reading one text after the other.                                       *)

\* The recursive function in FoldLeft, for a text of n characters.
Folds(h, s, w, n) ==
  h = [d \in SUBSET (1 .. n) |->
         IF d = {} THEN s ELSE Read(h[d \ {Whole!Max(d)}], w[Whole!Max(d)])]

LEMMA LastIsMax ==
  ASSUME NEW n \in Nat, NEW d \in SUBSET (1 .. n + 1), n + 1 \in d
  PROVE  Whole!Max(d) = n + 1
<1>1. \A y \in d : n + 1 >= y
  OBVIOUS
<1>2. \A x \in d : (\A y \in d : x >= y) => x = n + 1
  OBVIOUS
<1> QED
  BY <1>1, <1>2 DEF Whole!Max

LEMMA FoldsExist ==
  ASSUME NEW s, NEW w
  PROVE  \A n \in Nat : \E h : Folds(h, s, w, n)
<1> DEFINE T == { n \in Nat : \E h : Folds(h, s, w, n) }
<1>1. 0 \in T
  <2> DEFINE h == [d \in SUBSET (1 .. 0) |-> s]
  <2>1. 1 .. 0 = {}
    OBVIOUS
  <2>2. \A d \in SUBSET (1 .. 0) : d = {}
    BY <2>1
  <2>3. Folds(h, s, w, 0)
    BY <2>2 DEF Folds
  <2> QED BY <2>3
<1>2. ASSUME NEW n \in Nat, n \in T PROVE n + 1 \in T
  <2>1. PICK h : Folds(h, s, w, n)
    BY <1>2
  <2> DEFINE g == [d \in SUBSET (1 .. n + 1) |->
                     IF n + 1 \in d THEN Read(h[d \ {n + 1}], w[n + 1]) ELSE h[d]]
  <2>2. PICK gg : gg = g
    OBVIOUS
  <2>3. ASSUME NEW d \in SUBSET (1 .. n + 1)
        PROVE  gg[d] = IF d = {} THEN s ELSE Read(gg[d \ {Whole!Max(d)}], w[Whole!Max(d)])
    <3>1. CASE n + 1 \in d
      <4>1. Whole!Max(d) = n + 1
        BY <3>1, LastIsMax
      <4>2. d \ {n + 1} \in SUBSET (1 .. n + 1) /\ n + 1 \notin d \ {n + 1}
        OBVIOUS
      <4>3. gg[d \ {n + 1}] = h[d \ {n + 1}]
        BY <2>2, <4>2
      <4>4. gg[d] = Read(h[d \ {n + 1}], w[n + 1])
        BY <2>2, <3>1
      <4>5. d # {}
        BY <3>1
      <4> QED BY <4>1, <4>3, <4>4, <4>5
    <3>2. CASE n + 1 \notin d
      <4>1. d \in SUBSET (1 .. n)
        BY <3>2
      <4>2. gg[d] = h[d]
        BY <2>2, <3>2
      <4>3. PICK e : e = d \ {Whole!Max(d)}
        OBVIOUS
      <4>4. e \in SUBSET (1 .. n + 1) /\ n + 1 \notin e
        BY <3>2, <4>3
      <4>5. gg[e] = h[e]
        BY <2>2, <4>4
      <4>6. h[d] = IF d = {} THEN s ELSE Read(h[d \ {Whole!Max(d)}], w[Whole!Max(d)])
        BY <2>1, <4>1 DEF Folds
      <4> QED BY <4>2, <4>3, <4>5, <4>6
    <3> QED BY <3>1, <3>2
  <2>4. gg = [d \in SUBSET (1 .. n + 1) |-> gg[d]]
    BY <2>2
  <2>5. gg = [d \in SUBSET (1 .. n + 1) |->
                IF d = {} THEN s ELSE Read(gg[d \ {Whole!Max(d)}], w[Whole!Max(d)])]
    BY <2>3, <2>4
  <2>6. Folds(gg, s, w, n + 1)
    BY <2>5 DEF Folds
  <2>7. \E f : Folds(f, s, w, n + 1)
    BY <2>6
  <2> HIDE DEF g
  <2> QED BY <2>7
<1> HIDE DEF T
<1>3. \A n \in Nat : n \in T
  BY <1>1, <1>2, Induction
<1> QED
  BY <1>3 DEF T

\* The recursive function in ReadText is one of these.
LEMMA FoldIs ==
  ASSUME NEW s, NEW n \in Nat, NEW w, DOMAIN w = 1 .. n
  PROVE  \E h : Folds(h, s, w, n) /\ Fold(s, w) = h[1 .. n]
<1> DEFINE h == CHOOSE f : Folds(f, s, w, n)
<1>1. Folds(h, s, w, n)
  BY FoldsExist
<1>2. Fold(s, w) = h[1 .. n]
  BY DEF Fold, Folds, Whole!ReadText, Whole!FoldLeft, Whole!MapThenFoldSet, Read
<1> QED
  BY <1>1, <1>2

LEMMA FoldsAgree ==
  ASSUME NEW s, NEW n \in Nat, NEW m \in Nat, NEW v, NEW w, NEW g, NEW h, n <= m,
         Folds(g, s, v, n), Folds(h, s, w, m), \A i \in 1 .. n : v[i] = w[i]
  PROVE  g[1 .. n] = h[1 .. n]
<1> DEFINE T == { k \in Nat : k <= n => \A d \in SUBSET (1 .. k) : g[d] = h[d] }
<1>1. /\ \A d \in SUBSET (1 .. n) :
           g[d] = IF d = {} THEN s ELSE Read(g[d \ {Whole!Max(d)}], v[Whole!Max(d)])
      /\ \A d \in SUBSET (1 .. m) :
           h[d] = IF d = {} THEN s ELSE Read(h[d \ {Whole!Max(d)}], w[Whole!Max(d)])
  BY DEF Folds
<1>2. 1 .. n \subseteq 1 .. m
  OBVIOUS
<1>3. 0 \in T
  <2>1. \A d \in SUBSET (1 .. 0) : d = {} /\ d \in SUBSET (1 .. n) /\ d \in SUBSET (1 .. m)
    OBVIOUS
  <2> QED BY <1>1, <2>1
<1>4. ASSUME NEW k \in Nat, k \in T PROVE k + 1 \in T
  <2> SUFFICES ASSUME k + 1 <= n, NEW d \in SUBSET (1 .. k + 1) PROVE g[d] = h[d]
    OBVIOUS
  <2>1. \A e \in SUBSET (1 .. k) : g[e] = h[e]
    BY <1>4
  <2>2. CASE k + 1 \notin d
    <3>1. d \in SUBSET (1 .. k)
      BY <2>2
    <3> QED BY <2>1, <3>1
  <2>3. CASE k + 1 \in d
    <3>1. Whole!Max(d) = k + 1
      BY <2>3, LastIsMax
    <3>2. d \in SUBSET (1 .. n) /\ d \in SUBSET (1 .. m) /\ d # {}
      BY <1>2, <2>3
    <3>3. d \ {k + 1} \in SUBSET (1 .. k)
      OBVIOUS
    <3>4. v[k + 1] = w[k + 1]
      OBVIOUS
    <3>5. g[d] = Read(g[d \ {k + 1}], v[k + 1]) /\ h[d] = Read(h[d \ {k + 1}], w[k + 1])
      BY <1>1, <3>1, <3>2
    <3> QED BY <2>1, <3>3, <3>4, <3>5
  <2> QED BY <2>2, <2>3
<1> HIDE DEF T
<1>5. n \in T
  BY <1>3, <1>4, Induction
<1>6. \A d \in SUBSET (1 .. n) : g[d] = h[d]
  BY <1>5 DEF T
<1> QED
  BY <1>6

LEMMA SplitLast ==
  ASSUME NEW u \in Seq(Chars), NEW n \in Nat, Len(u) = n + 1
  PROVE  \E f \in Seq(Chars), c \in Chars : u = Append(f, c) /\ Len(f) = n
<1> DEFINE g == [i \in 1 .. n |-> u[i]]
<1>1. \A i \in 1 .. n + 1 : u[i] \in Chars
  BY LenProperties
<1>2. g \in [1 .. n -> Chars]
  BY <1>1
<1>3. g \in Seq(Chars)
  BY <1>2, SeqDef
<1>4. PICK f \in Seq(Chars) : f = g
  BY <1>3
<1>5. Len(f) = n /\ \A i \in 1 .. n : f[i] = u[i]
  BY <1>4
<1>6. PICK c \in Chars : c = u[n + 1]
  BY <1>1
<1>7. u = Append(f, c)
  BY <1>5, <1>6, SeqEqual
<1> QED
  BY <1>5, <1>7

LEMMA FoldEmpty ==
  ASSUME NEW s
  PROVE  Fold(s, <<>>) = s
<1>1. PICK w : w = << >>
  OBVIOUS
<1>2. DOMAIN w = 1 .. 0
  BY <1>1
<1>3. PICK h : Folds(h, s, w, 0) /\ Fold(s, w) = h[1 .. 0]
  BY <1>2, FoldIs
<1>4. 1 .. 0 \in SUBSET (1 .. 0) /\ 1 .. 0 = {}
  OBVIOUS
<1> QED
  BY <1>1, <1>3, <1>4 DEF Folds

\* The last character is read in the state after the others.
LEMMA FoldLast ==
  ASSUME NEW s, NEW v \in Seq(Chars), NEW c \in Chars
  PROVE  Fold(s, Append(v, c)) = Read(Fold(s, v), c)
<1>1. PICK n \in Nat, w \in Seq(Chars) : n = Len(v) /\ w = Append(v, c)
  <2>1. Len(v) \in Nat /\ Append(v, c) \in Seq(Chars)
    OBVIOUS
  <2> QED BY <2>1
<1>2. /\ DOMAIN v = 1 .. n /\ DOMAIN w = 1 .. n + 1 /\ w[n + 1] = c
      /\ \A i \in 1 .. n : v[i] = w[i]
  BY <1>1
<1>3. PICK g : Folds(g, s, v, n) /\ Fold(s, v) = g[1 .. n]
  BY <1>2, FoldIs
<1>4. PICK h : Folds(h, s, w, n + 1) /\ Fold(s, w) = h[1 .. n + 1]
  BY <1>2, FoldIs
<1>5. g[1 .. n] = h[1 .. n]
  <2>1. n <= n + 1 /\ n + 1 \in Nat
    OBVIOUS
  <2> QED BY <1>2, <1>3, <1>4, <2>1, FoldsAgree
<1>6. h[1 .. n + 1] = Read(h[1 .. n], c)
  <2>1. PICK d : d = 1 .. n + 1
    OBVIOUS
  <2>2. d \in SUBSET (1 .. n + 1) /\ n + 1 \in d /\ d # {} /\ d \ {n + 1} = 1 .. n
    BY <1>1, <2>1
  <2>3. Whole!Max(d) = n + 1
    BY <2>2, LastIsMax
  <2>4. h[d] = IF d = {} THEN s ELSE Read(h[d \ {Whole!Max(d)}], w[Whole!Max(d)])
    BY <1>4, <2>2 DEF Folds
  <2> QED BY <1>2, <2>1, <2>2, <2>3, <2>4
<1> QED
  BY <1>1, <1>3, <1>4, <1>5, <1>6

LEMMA FoldConcat ==
  ASSUME NEW s, NEW v \in Seq(Chars), NEW w \in Seq(Chars)
  PROVE  Fold(s, v \o w) = Fold(Fold(s, v), w)
<1> DEFINE T == { n \in Nat : \A u \in Seq(Chars) :
                    Len(u) = n => Fold(s, v \o u) = Fold(Fold(s, v), u) }
<1>1. 0 \in T
  <2> SUFFICES ASSUME NEW u \in Seq(Chars), Len(u) = 0
               PROVE  Fold(s, v \o u) = Fold(Fold(s, v), u)
    OBVIOUS
  <2>1. u = <<>> /\ v \o u = v
    OBVIOUS
  <2> QED BY <2>1, FoldEmpty
<1>2. ASSUME NEW n \in Nat, n \in T PROVE n + 1 \in T
  <2> SUFFICES ASSUME NEW u \in Seq(Chars), Len(u) = n + 1
               PROVE  Fold(s, v \o u) = Fold(Fold(s, v), u)
    OBVIOUS
  <2>1. PICK f \in Seq(Chars), c \in Chars : u = Append(f, c) /\ Len(f) = n
    BY SplitLast
  <2>2. v \o u = Append(v \o f, c) /\ v \o f \in Seq(Chars)
    BY <2>1
  <2>3. Fold(s, v \o u) = Read(Fold(s, v \o f), c)
    BY <2>2, FoldLast
  <2>4. Fold(s, v \o f) = Fold(Fold(s, v), f)
    BY <1>2, <2>1
  <2>5. Fold(Fold(s, v), u) = Read(Fold(Fold(s, v), f), c)
    BY <2>1, FoldLast
  <2> QED BY <2>3, <2>4, <2>5
<1> HIDE DEF T
<1>3. Len(w) \in T
  BY <1>1, <1>2, Induction
<1> QED
  BY <1>3 DEF T

\* The first character is read first.
LEMMA FoldFirst ==
  ASSUME NEW s, NEW c \in Chars, NEW w \in Seq(Chars)
  PROVE  Fold(s, <<c>> \o w) = Fold(Read(s, c), w)
<1>1. PICK e \in Seq(Chars), v \in Seq(Chars) : e = <<>> /\ v = <<c>>
  <2>1. <<>> \in Seq(Chars) /\ <<c>> \in Seq(Chars)
    BY EmptySeq
  <2> QED BY <2>1
<1>2. v = Append(e, c)
  BY <1>1
<1>3. Fold(s, v) = Read(s, c)
  <2>1. Fold(s, Append(e, c)) = Read(Fold(s, e), c)
    BY <1>1, FoldLast
  <2>2. Fold(s, e) = s
    BY <1>1, FoldEmpty
  <2> QED BY <1>2, <2>1, <2>2
<1>4. Fold(s, v \o w) = Fold(Fold(s, v), w)
  BY FoldConcat
<1> QED
  BY <1>1, <1>3, <1>4

\* A text that is refused stays refused, whatever follows.
LEMMA FoldRefused ==
  ASSUME NEW s, ~s.ok, NEW w \in Seq(Chars)
  PROVE  Fold(s, w) = s
<1> DEFINE T == { n \in Nat : \A u \in Seq(Chars) : Len(u) = n => Fold(s, u) = s }
<1>1. 0 \in T
  <2>1. \A u \in Seq(Chars) : Len(u) = 0 => u = <<>>
    OBVIOUS
  <2> QED BY <2>1, FoldEmpty
<1>2. ASSUME NEW n \in Nat, n \in T PROVE n + 1 \in T
  <2> SUFFICES ASSUME NEW u \in Seq(Chars), Len(u) = n + 1 PROVE Fold(s, u) = s
    OBVIOUS
  <2>1. PICK f \in Seq(Chars), c \in Chars : u = Append(f, c) /\ Len(f) = n
    BY SplitLast
  <2>2. Fold(s, u) = Read(s, c)
    BY <1>2, <2>1, FoldLast
  <2>3. Read(s, c) = s
    BY DEF Read, Whole!ReadChar
  <2> QED BY <2>2, <2>3
<1> HIDE DEF T
<1>3. Len(w) \in T
  BY <1>1, <1>2, Induction
<1> QED
  BY <1>3 DEF T
-----------------------------------------------------------------------------
(* The calls of on_field.                                                  *)

\* f[i] is what the first i sequences of ss are, one after the other.
Flattens(f, ss, n) ==
  f = [i \in 1 .. n |-> IF i = 1 THEN ss[i] ELSE f[i - 1] \o ss[i]]

LEMMA FlattenExists ==
  ASSUME NEW ss
  PROVE  \A n \in Nat : \E f : Flattens(f, ss, n)
<1> DEFINE T == { n \in Nat : \E f : Flattens(f, ss, n) }
<1>1. 0 \in T
  <2>1. Flattens([i \in {} |-> 0], ss, 0)
    BY DEF Flattens
  <2> QED BY <2>1
<1>2. ASSUME NEW n \in Nat, n \in T PROVE n + 1 \in T
  <2>1. PICK f : Flattens(f, ss, n)
    BY <1>2
  <2> DEFINE last == IF n = 0 THEN ss[1] ELSE f[n] \o ss[n + 1]
             g == [i \in 1 .. n + 1 |-> IF i = n + 1 THEN last ELSE f[i]]
  <2>2. \A i \in 1 .. n : f[i] = IF i = 1 THEN ss[i] ELSE f[i - 1] \o ss[i]
    BY <2>1 DEF Flattens
  <2>3. ASSUME NEW i \in 1 .. n + 1
        PROVE  g[i] = IF i = 1 THEN ss[i] ELSE g[i - 1] \o ss[i]
    <3>1. CASE i = n + 1 /\ n = 0
      BY <3>1
    <3>2. CASE i = n + 1 /\ n # 0
      <4>1. g[i - 1] = f[n] /\ i # 1
        BY <3>2
      <4> QED BY <3>2, <4>1
    <3>3. CASE i # n + 1
      <4>1. i \in 1 .. n /\ g[i] = f[i]
        BY <3>3
      <4>2. i # 1 => g[i - 1] = f[i - 1]
        BY <4>1
      <4> QED BY <2>2, <4>1, <4>2
    <3> QED BY <3>1, <3>2, <3>3
  <2>4. g = [i \in 1 .. n + 1 |-> IF i = 1 THEN ss[i] ELSE g[i - 1] \o ss[i]]
    <3>1. PICK gg : gg = g
      OBVIOUS
    <3>2. gg = [i \in 1 .. n + 1 |-> gg[i]]
      BY <3>1
    <3>3. \A i \in 1 .. n + 1 : gg[i] = IF i = 1 THEN ss[i] ELSE gg[i - 1] \o ss[i]
      BY <2>3, <3>1
    <3>4. gg = [i \in 1 .. n + 1 |-> IF i = 1 THEN ss[i] ELSE gg[i - 1] \o ss[i]]
      BY <3>2, <3>3
    <3> QED BY <3>1, <3>4
  <2>5. Flattens(g, ss, n + 1)
    BY <2>4 DEF Flattens
  <2> QED BY <2>5
<1> HIDE DEF T
<1>3. \A n \in Nat : n \in T
  BY <1>1, <1>2, Induction
<1> QED
  BY <1>3 DEF T

\* The recursive function in FlattenSeq is one of these.
LEMMA FlattenIs ==
  ASSUME NEW ss, Len(ss) \in Nat, Len(ss) # 0
  PROVE  \E f : Flattens(f, ss, Len(ss)) /\ FlattenSeq(ss) = f[Len(ss)]
<1> DEFINE f == CHOOSE h : Flattens(h, ss, Len(ss))
<1>1. Flattens(f, ss, Len(ss))
  BY FlattenExists
<1>2. FlattenSeq(ss) = f[Len(ss)]
  BY DEF FlattenSeq, Flattens
<1> QED
  BY <1>1, <1>2

LEMMA FlattenUnique ==
  ASSUME NEW r, NEW s, NEW f, NEW g, NEW n \in Nat, NEW m \in Nat, NEW k \in Nat,
         Flattens(f, r, n), Flattens(g, s, m), k <= n, k <= m,
         \A i \in 1 .. k : r[i] = s[i]
  PROVE  \A i \in 1 .. k : f[i] = g[i]
<1> DEFINE T == { i \in Nat : i \in 1 .. k => f[i] = g[i] }
<1>1. \A i \in 1 .. n : f[i] = IF i = 1 THEN r[i] ELSE f[i - 1] \o r[i]
  BY DEF Flattens
<1>2. \A i \in 1 .. m : g[i] = IF i = 1 THEN s[i] ELSE g[i - 1] \o s[i]
  BY DEF Flattens
<1>3. 0 \in T
  OBVIOUS
<1>4. ASSUME NEW i \in Nat, i \in T PROVE i + 1 \in T
  <2> SUFFICES ASSUME i + 1 \in 1 .. k PROVE f[i + 1] = g[i + 1]
    OBVIOUS
  <2>1. i + 1 \in 1 .. n /\ i + 1 \in 1 .. m /\ (i + 1) - 1 = i
    OBVIOUS
  <2>2. r[i + 1] = s[i + 1]
    OBVIOUS
  <2>3. CASE i = 0
    BY <1>1, <1>2, <2>1, <2>2, <2>3
  <2>4. CASE i # 0
    <3>1. f[i] = g[i]
      BY <1>4, <2>4
    <3>2. /\ f[i + 1] = f[(i + 1) - 1] \o r[i + 1]
          /\ g[i + 1] = g[(i + 1) - 1] \o s[i + 1]
      <4>1. i + 1 # 1
        BY <2>4
      <4> QED BY <1>1, <1>2, <2>1, <4>1
    <3> QED BY <2>1, <2>2, <3>1, <3>2
  <2> QED BY <2>3, <2>4
<1> HIDE DEF T
<1>5. \A i \in Nat : i \in T
  BY <1>3, <1>4, Induction
<1> QED
  BY <1>5 DEF T

LEMMA FlattenLonger ==
  ASSUME NEW s, NEW t, NEW n \in Nat, n # 0, Len(s) = n, Len(t) = n + 1,
         \A i \in 1 .. n : t[i] = s[i]
  PROVE  FlattenSeq(t) = FlattenSeq(s) \o t[n + 1]
<1>1. /\ n + 1 \in Nat /\ n <= n /\ n <= n + 1 /\ n \in 1 .. n
      /\ n + 1 \in 1 .. n + 1 /\ n + 1 # 0 /\ n + 1 # 1 /\ (n + 1) - 1 = n
  OBVIOUS
<1>2. PICK f : Flattens(f, s, n) /\ FlattenSeq(s) = f[n]
  BY <1>1, FlattenIs
<1>3. PICK g : Flattens(g, t, n + 1) /\ FlattenSeq(t) = g[n + 1]
  BY <1>1, FlattenIs
<1>4. \A i \in 1 .. n : f[i] = g[i]
  BY <1>1, <1>2, <1>3, FlattenUnique, SMTT(30)
<1>5. g[n + 1] = g[(n + 1) - 1] \o t[n + 1]
  BY <1>1, <1>3 DEF Flattens
<1> QED
  BY <1>1, <1>2, <1>3, <1>4, <1>5

\* What sequences of sequences are, one after the other, is a sequence.
LEMMA FlattenType ==
  ASSUME NEW S, NEW ss \in Seq(Seq(S))
  PROVE  FlattenSeq(ss) \in Seq(S)
<1>1. Len(ss) \in Nat /\ \A i \in 1 .. Len(ss) : ss[i] \in Seq(S)
  OBVIOUS
<1>2. CASE Len(ss) = 0
  <2>1. FlattenSeq(ss) = ss /\ ss = <<>>
    BY <1>2 DEF FlattenSeq
  <2> QED BY <2>1
<1>3. CASE Len(ss) # 0
  <2>1. PICK f : Flattens(f, ss, Len(ss)) /\ FlattenSeq(ss) = f[Len(ss)]
    BY <1>1, <1>3, FlattenIs
  <2>2. \A i \in 1 .. Len(ss) : f[i] = IF i = 1 THEN ss[i] ELSE f[i - 1] \o ss[i]
    BY <2>1 DEF Flattens
  <2> DEFINE T == { i \in Nat : i \in 1 .. Len(ss) => f[i] \in Seq(S) }
  <2>3. 0 \in T
    OBVIOUS
  <2>4. ASSUME NEW i \in Nat, i \in T PROVE i + 1 \in T
    <3> SUFFICES ASSUME i + 1 \in 1 .. Len(ss) PROVE f[i + 1] \in Seq(S)
      OBVIOUS
    <3>1. ss[i + 1] \in Seq(S) /\ (i + 1) - 1 = i
      BY <1>1
    <3>2. CASE i = 0
      BY <2>2, <3>1, <3>2
    <3>3. CASE i # 0
      <4>1. f[i] \in Seq(S)
        BY <1>1, <2>4, <3>3
      <4>2. f[i + 1] = f[(i + 1) - 1] \o ss[i + 1]
        <5>1. i + 1 # 1
          BY <3>3
        <5> QED BY <2>2, <5>1
      <4> QED BY <3>1, <4>1, <4>2
    <3> QED BY <3>2, <3>3
  <2> HIDE DEF T
  <2>5. \A i \in Nat : i \in T
    BY <2>3, <2>4, Induction
  <2>6. f[Len(ss)] \in Seq(S)
    BY <1>1, <1>3, <2>5 DEF T
  <2> QED BY <2>1, <2>6
<1> QED
  BY <1>2, <1>3

Call == [row : Nat, col : Nat, text : Fields]

\* The calls for one record.
Row(r, record) == [k \in DOMAIN record |-> [row |-> r, col |-> k - 1, text |-> record[k]]]

Rows(records) == [r \in DOMAIN records |-> Row(r - 1, records[r])]

LEMMA CallsAreRows ==
  ASSUME NEW records
  PROVE  CallsFor(records) = FlattenSeq(Rows(records))
BY DEF CallsFor, Rows, Row

LEMMA RowType ==
  ASSUME NEW r \in Nat, NEW record \in Seq(Fields)
  PROVE  Row(r, record) \in Seq(Call) /\ Len(Row(r, record)) = Len(record)
<1>1. DOMAIN record = 1 .. Len(record) /\ Len(record) \in Nat
  BY LenProperties
<1>2. ASSUME NEW k \in 1 .. Len(record)
      PROVE  [row |-> r, col |-> k - 1, text |-> record[k]] \in Call
  <2>1. record[k] \in Fields /\ k - 1 \in Nat
    BY <1>1
  <2> QED BY <2>1 DEF Call
<1>3. Row(r, record) \in [1 .. Len(record) -> Call]
  BY <1>1, <1>2 DEF Row
<1>4. Row(r, record) \in Seq(Call)
  BY <1>1, <1>3, SeqDef
<1>5. DOMAIN Row(r, record) = 1 .. Len(record)
  BY <1>1 DEF Row
<1> QED
  BY <1>1, <1>4, <1>5, LenProperties

LEMMA RowAppend ==
  ASSUME NEW r \in Nat, NEW record \in Seq(Fields), NEW f \in Fields
  PROVE  Row(r, Append(record, f))
           = Append(Row(r, record), [row |-> r, col |-> Len(record), text |-> f])
<1>1. PICK more \in Seq(Fields) : more = Append(record, f)
  <2>1. Append(record, f) \in Seq(Fields)
    OBVIOUS
  <2> QED BY <2>1
<1>2. PICK n \in Nat : n = Len(record)
  OBVIOUS
<1>3. Len(more) = n + 1 /\ more[n + 1] = f /\ \A k \in 1 .. n : more[k] = record[k]
  BY <1>1, <1>2
<1>4. PICK v \in Seq(Call), c \in Call : v = Row(r, record) /\ c = [row |-> r, col |-> n, text |-> f]
  <2>1. Row(r, record) \in Seq(Call)
    BY RowType
  <2>2. [row |-> r, col |-> n, text |-> f] \in Call
    BY DEF Call
  <2> QED BY <2>1, <2>2
<1>5. Len(v) = n
  BY <1>2, <1>4, RowType
<1>6. PICK w \in Seq(Call) : w = Row(r, more)
  <2>1. Row(r, more) \in Seq(Call)
    BY RowType
  <2> QED BY <2>1
<1>7. Len(w) = n + 1
  BY <1>3, <1>6, RowType
<1>8. DOMAIN more = 1 .. n + 1 /\ DOMAIN record = 1 .. n
  BY <1>2, <1>3, LenProperties
<1>9. ASSUME NEW k \in 1 .. n + 1 PROVE w[k] = Append(v, c)[k]
  <2>1. w[k] = [row |-> r, col |-> k - 1, text |-> more[k]]
    BY <1>6, <1>8 DEF Row
  <2>2. CASE k = n + 1
    <3>1. Append(v, c)[k] = c /\ k - 1 = n
      BY <1>5, <2>2
    <3> QED BY <1>3, <1>4, <2>1, <2>2, <3>1
  <2>3. CASE k # n + 1
    <3>1. k \in 1 .. n
      BY <2>3
    <3>2. Append(v, c)[k] = v[k]
      BY <1>5, <3>1
    <3>3. v[k] = [row |-> r, col |-> k - 1, text |-> record[k]]
      BY <1>4, <1>8, <3>1 DEF Row
    <3> QED BY <1>3, <2>1, <3>1, <3>2, <3>3
  <2> QED BY <2>2, <2>3
<1>10. Append(v, c) \in Seq(Call) /\ Len(Append(v, c)) = n + 1
  BY <1>5
<1>11. w = Append(v, c)
  BY <1>7, <1>9, <1>10, SeqEqual
<1> QED
  BY <1>1, <1>2, <1>4, <1>6, <1>11

LEMMA RowsType ==
  ASSUME NEW records \in Seq(Seq(Fields))
  PROVE  Rows(records) \in Seq(Seq(Call)) /\ Len(Rows(records)) = Len(records)
<1>1. DOMAIN records = 1 .. Len(records) /\ Len(records) \in Nat
  BY LenProperties
<1>2. ASSUME NEW r \in 1 .. Len(records) PROVE Row(r - 1, records[r]) \in Seq(Call)
  <2>1. records[r] \in Seq(Fields) /\ r - 1 \in Nat
    BY <1>1
  <2> QED BY <2>1, RowType
<1>3. Rows(records) \in [1 .. Len(records) -> Seq(Call)]
  BY <1>1, <1>2 DEF Rows
<1>4. Rows(records) \in Seq(Seq(Call))
  <2>0. PICK X : X = Seq(Call)
    OBVIOUS
  <2>1. PICK n \in Nat : n = Len(records)
    BY <1>1
  <2>2. Rows(records) \in [1 .. n -> X]
    BY <1>3, <2>0, <2>1
  <2>3. Rows(records) \in Seq(X)
    BY <2>2, SeqDef
  <2> QED BY <2>0, <2>3
<1>5. DOMAIN Rows(records) = 1 .. Len(records)
  BY <1>1 DEF Rows
<1> QED
  BY <1>1, <1>4, <1>5, LenProperties

LEMMA CallsType ==
  ASSUME NEW records \in Seq(Seq(Fields))
  PROVE  CallsFor(records) \in Seq(Call)
BY RowsType, FlattenType, CallsAreRows

LEMMA NoCalls == CallsFor(<<>>) = <<>>
<1>1. PICK e \in Seq(Seq(Fields)) : e = <<>>
  BY EmptySeq
<1>2. PICK rows \in Seq(Seq(Call)) : rows = Rows(e) /\ Len(rows) = 0
  BY <1>1, RowsType
<1>3. rows = <<>>
  BY <1>2
<1>4. FlattenSeq(rows) = rows
  BY <1>2 DEF FlattenSeq
<1> QED
  BY <1>1, <1>2, <1>3, <1>4, CallsAreRows

LEMMA CallsAppend ==
  ASSUME NEW records \in Seq(Seq(Fields)), NEW record \in Seq(Fields)
  PROVE  CallsFor(Append(records, record)) = CallsFor(records) \o Row(Len(records), record)
<1>1. PICK more \in Seq(Seq(Fields)), n \in Nat : more = Append(records, record) /\ n = Len(records)
  <2>1. Append(records, record) \in Seq(Seq(Fields)) /\ Len(records) \in Nat
    OBVIOUS
  <2> QED BY <2>1
<1>2. Len(more) = n + 1 /\ more[n + 1] = record /\ \A r \in 1 .. n : more[r] = records[r]
  BY <1>1
<1>3. PICK s, t : s = Rows(records) /\ t = Rows(more)
  OBVIOUS
<1>4. Len(s) = n /\ Len(t) = n + 1
  BY <1>1, <1>2, <1>3, RowsType
<1>5. DOMAIN records = 1 .. n /\ DOMAIN more = 1 .. n + 1
  BY <1>1, <1>2, LenProperties
<1>6. \A r \in 1 .. n : t[r] = s[r]
  BY <1>2, <1>3, <1>5 DEF Rows
<1>7. t[n + 1] = Row(n, record)
  <2>1. n + 1 \in DOMAIN more /\ (n + 1) - 1 = n
    BY <1>5
  <2>2. t[n + 1] = Row((n + 1) - 1, more[n + 1])
    BY <1>3, <2>1 DEF Rows
  <2> QED BY <1>2, <2>1, <2>2
<1>8. CASE n = 0
  <2>1. records = <<>>
    BY <1>1, <1>8, EmptySeq
  <2>2. PICK row \in Seq(Call) : row = Row(n, record)
    BY RowType
  <2>3. FlattenSeq(t) = t[1]
    <3>1. PICK f : Flattens(f, t, 1) /\ FlattenSeq(t) = f[1]
      <4>1. Len(t) = 1 /\ 1 \in Nat /\ 1 # 0
        BY <1>4, <1>8
      <4> QED BY <4>1, FlattenIs
    <3>2. f[1] = t[1]
      BY <3>1 DEF Flattens
    <3> QED BY <3>1, <3>2
  <2>4. <<>> \o row = row
    BY <2>2
  <2>5. FlattenSeq(t) = row
    BY <1>7, <1>8, <2>2, <2>3
  <2> QED BY <1>1, <1>3, <2>1, <2>2, <2>4, <2>5, NoCalls, CallsAreRows
<1>9. CASE n # 0
  <2>1. FlattenSeq(t) = FlattenSeq(s) \o t[n + 1]
    BY <1>4, <1>6, <1>9, FlattenLonger
  <2> QED BY <1>1, <1>3, <1>7, <2>1, CallsAreRows
<1> QED
  BY <1>8, <1>9
-----------------------------------------------------------------------------
(* The invariant.                                                          *)

Start0 == Whole!Start(escape, has_trailing_comma)

\* A carriage return or an escape that has been read and not used.
Pending == IF newlining THEN <<"cr">> ELSE IF escaping THEN <<escape>> ELSE <<>>
Left == Pending \o rest

\* After a carriage return at the end of a chunk, after_field_sep keeps its value.
\* Then an empty record would not lack its comma, but has no column.
Stale(s) ==
  /\ after_field_sep /\ ~s.fresh /\ s.ended
  /\ s.records # <<>> /\ num_cols # 0

\* The parser is in the state s of CSVSpec, what is pending aside.
Same(s) ==
  /\ s \in State /\ s.ok
  /\ s.escape = escape /\ s.has_trailing_comma = has_trailing_comma
  /\ s.mode = (IF quoted THEN "in" ELSE "out")
  /\ s.field = current_field
  /\ row_idx = Len(s.records) /\ col_idx = Len(s.record)
  /\ after_first_row <=> s.records # <<>>
  /\ s.records # <<>> => num_cols = Len(s.records[1])
  /\ fields = CallsFor(s.records) \o Row(row_idx, s.record)
  /\ after_record_sep <=> s.ended
  /\ s.ended => s.record = <<>>
  /\ s.fresh => s.record # <<>> /\ s.field = <<>>
  /\ quoted => ~s.ended /\ ~s.fresh
  /\ has_trailing_comma => (after_field_sep <=> s.fresh) \/ Stale(s)

\* What is left of the chunk brings s to where the whole text brings the start; in
\* finish, to the same records.
Leads(s) ==
  IF call = "closing"
    THEN /\ Fold(s, Left).ok = Whole!ReadAll(Start0, text).ok
         /\ Fold(s, Left).ok =>
              Fold(s, Left).records = Whole!ReadAll(Start0, text).records
    ELSE Fold(s, Left) = Fold(Start0, text)

Types ==
  /\ escape \in {"quote", "backslash"} /\ has_trailing_comma \in BOOLEAN
  /\ quoted \in BOOLEAN /\ escaping \in BOOLEAN /\ newlining \in BOOLEAN
  /\ after_field_sep \in BOOLEAN /\ after_record_sep \in BOOLEAN
  /\ after_first_row \in BOOLEAN
  /\ call \in {"none", "execute", "closing", "over"}
  /\ rest \in Seq(Chars) /\ text \in Seq(Chars)

PendingOK ==
  /\ escaping => quoted /\ ~newlining
  /\ newlining => ~quoted

CallsOK ==
  /\ call = "none" => rest = <<>>
  /\ call = "execute" /\ (escaping \/ newlining) => rest # <<>>
  /\ call = "closing" =>
       /\ ~quoted
       /\ rest # <<>> => rest = <<"lf">> /\ ~newlining
       /\ rest = <<>> => newlining \/ after_record_sep
  /\ call # "over" => error = "Ok"

IInv ==
  /\ Types
  /\ PendingOK
  /\ CallsOK
  /\ call # "over" => \E s : Same(s) /\ Leads(s)
  /\ ChunkingInvisible

\* The state of CSVSpec after the next characters, whatever follows them.
LEMMA LeftType == Types => Left \in Seq(Chars) /\ Pending \in Seq(Chars)
<1> SUFFICES ASSUME Types PROVE Left \in Seq(Chars) /\ Pending \in Seq(Chars)
  OBVIOUS
<1>1. Pending \in Seq(Chars)
  <2>1. escape \in Chars /\ "cr" \in Chars
    BY DEF Types, Chars
  <2> QED BY <2>1, EmptySeq DEF Pending
<1>2. rest \in Seq(Chars)
  BY DEF Types
<1> QED
  BY <1>1, <1>2, ConcatProperties DEF Left

\* ReadAll of a text that is refused before its end.
LEMMA Refuses ==
  ASSUME Types, NEW s, Leads(s), ~Fold(s, Left).ok
  PROVE  ~Whole!ReadAll(Start0, text).ok
<1>1. CASE call = "closing"
  BY <1>1 DEF Leads
<1>2. CASE call # "closing"
  <2>1. ~Fold(Start0, text).ok
    BY <1>2 DEF Leads
  <2> QED BY <2>1 DEF Fold, Whole!ReadAll, Whole!End
<1> QED
  BY <1>1, <1>2

LEMMA InitInv == Init => IInv
<1> SUFFICES ASSUME Init PROVE IInv
  OBVIOUS
<1>1. Types /\ PendingOK /\ CallsOK /\ ChunkingInvisible
  BY EmptySeq DEF Init, Types, PendingOK, CallsOK, ChunkingInvisible
<1>2. Left = <<>> /\ text = <<>> /\ call = "none"
  <2>1. Pending = <<>> /\ rest = <<>>
    BY DEF Init, Pending
  <2>2. <<>> \o rest = rest
    BY <1>1, ConcatEmptySeq DEF Types
  <2> QED BY <2>1, <2>2 DEF Init, Left
<1>3. Leads(Start0)
  BY <1>2 DEF Leads
<1>4. Same(Start0)
  <2>1. PICK e \in Fields, r \in Seq(Fields), q \in Seq(Seq(Fields)) : e = <<>> /\ r = <<>> /\ q = <<>>
    <3>1. <<>> \in Fields /\ <<>> \in Seq(Fields) /\ <<>> \in Seq(Seq(Fields))
      BY EmptySeq DEF Fields
    <3> QED BY <3>1
  <2>2. Len(r) = 0 /\ Len(q) = 0
    BY <2>1
  <2>3. PICK s : s = Start0
    OBVIOUS
  <2>4. /\ s \in State /\ s.ok /\ s.mode = "out" /\ s.field = e /\ s.record = r /\ s.records = q
        /\ ~s.fresh /\ ~s.ended /\ s.escape = escape /\ s.has_trailing_comma = has_trailing_comma
    BY <1>1, <2>1, <2>3 DEF Start0, Whole!Start, State, Types
  <2>5. CallsFor(q) \o Row(0, r) = <<>>
    <3>1. CallsFor(q) = <<>>
      BY <2>1, NoCalls
    <3>2. Row(0, r) \in Seq(Call)
      BY RowType
    <3>3. Len(Row(0, r)) = 0
      BY <2>2, RowType
    <3>4. Row(0, r) = <<>>
      BY <3>2, <3>3, EmptySeq
    <3>5. <<>> \o <<>> = <<>>
      BY ConcatEmptySeq, EmptySeq
    <3> QED BY <3>1, <3>4, <3>5
  <2>6. s.records = <<>> /\ s.record = <<>> /\ s.field = <<>>
    BY <2>1, <2>4
  <2>7. /\ row_idx = 0 /\ col_idx = 0 /\ ~after_first_row /\ ~quoted
        /\ ~after_field_sep /\ ~after_record_sep
        /\ current_field = <<>> /\ fields = <<>>
    BY DEF Init
  <2>8. row_idx = Len(s.records) /\ col_idx = Len(s.record)
    BY <2>2, <2>4, <2>7
  <2>9. fields = CallsFor(s.records) \o Row(row_idx, s.record)
    BY <2>4, <2>5, <2>7
  <2>10. after_first_row <=> s.records # <<>>
    BY <2>6, <2>7
  <2>11. s.field = current_field /\ s.mode = (IF quoted THEN "in" ELSE "out")
    BY <2>4, <2>6, <2>7
  <2>12. after_record_sep <=> s.ended
    BY <2>4, <2>7
  <2>13. has_trailing_comma => (after_field_sep <=> s.fresh) \/ Stale(s)
    BY <2>4, <2>7
  <2>14. Same(s)
    BY <2>4, <2>6, <2>7, <2>8, <2>9, <2>10, <2>11, <2>12, <2>13 DEF Same
  <2> QED BY <2>3, <2>14
<1> QED
  BY <1>1, <1>3, <1>4 DEF IInv
-----------------------------------------------------------------------------
(* What the steps have in common.                                          *)

LEMMA SplitFirst ==
  ASSUME NEW u \in Seq(Chars), u # <<>>
  PROVE  \E c \in Chars, w \in Seq(Chars) : u = <<c>> \o w /\ Head(u) = c /\ Tail(u) = w
<1>1. Head(u) \in Chars /\ Tail(u) \in Seq(Chars)
  OBVIOUS
<1>2. u = <<Head(u)>> \o Tail(u)
  OBVIOUS
<1> QED
  BY <1>1, <1>2

\* The unread rest begins with what is pending.
LEMMA NothingPending ==
  ASSUME Types, ~newlining, ~escaping
  PROVE  Left = rest
<1>1. Pending = <<>> /\ rest \in Seq(Chars)
  BY DEF Pending, Types
<1> QED
  BY <1>1, ConcatEmptySeq DEF Left

\* A step that leads on to the same state.
LEMMA LeadsOn ==
  ASSUME NEW s, NEW t, Leads(s), Fold(t, Left') = Fold(s, Left),
         UNCHANGED <<config, text>>, call' = "closing" <=> call = "closing"
  PROVE  Leads(t)'
BY DEF Leads, config, Start0

\* A turn that reads one character.
LEMMA LeadsOnRead ==
  ASSUME Types, Types', InLoop, NEW s, Leads(s), NEW t, t = Read(s, Head(rest)),
         rest' = Tail(rest), UNCHANGED <<config, suspended, call, text>>
  PROVE  Leads(t)'
<1>1. ~newlining /\ ~escaping /\ rest # <<>> /\ rest \in Seq(Chars)
  BY DEF InLoop, Types
<1>2. PICK c \in Chars, w \in Seq(Chars) : rest = <<c>> \o w /\ Head(rest) = c /\ Tail(rest) = w
  BY <1>1, SplitFirst
<1>3. Left = <<c>> \o w
  BY <1>1, <1>2, NothingPending
<1>4. Left' = w
  <2>1. Pending' = <<>> /\ rest' = w
    BY <1>1, <1>2 DEF Pending, suspended
  <2>2. <<>> \o w = w
    BY ConcatEmptySeq
  <2> QED BY <2>1, <2>2 DEF Left
<1>5. Fold(s, Left) = Fold(t, Left')
  BY <1>2, <1>3, <1>4, FoldFirst
<1> QED
  BY <1>5, LeadsOn

\* The parser has found what the whole text is refused for.
LEMMA FailInv ==
  ASSUME Types, NEW s, Leads(s), ~Fold(s, Left).ok, Types', PendingOK', CallsOK',
         call' = "over", error' # "Ok", UNCHANGED <<config, text>>
  PROVE  IInv'
<1>1. ~Whole!ReadAll(Start0, text).ok
  BY Refuses
<1>2. ~Whole!ReadAll(Start0, text)'.ok
  BY <1>1 DEF Start0, config
<1> QED
  BY <1>2 DEF IInv, ChunkingInvisible, Start0

LEMMA GoesOn ==
  ASSUME Types', PendingOK', CallsOK', call' # "over", NEW t, Same(t)', Leads(t)'
  PROVE  IInv'
BY DEF IInv, ChunkingInvisible
-----------------------------------------------------------------------------
(* The steps.                                                              *)

\* finish has execute read a line feed at most.
LEMMA ClosingReads ==
  ASSUME CallsOK, InLoop, call = "closing"
  PROVE  Head(rest) = "lf" /\ Tail(rest) = <<>> /\ ~quoted
<1>1. PICK r : r = <<"lf">>
  OBVIOUS
<1>2. Head(r) = "lf" /\ Tail(r) = <<>>
  BY <1>1
<1>3. rest = r /\ ~quoted
  BY <1>1 DEF CallsOK, InLoop
<1> QED
  BY <1>2, <1>3

\* A character that is added to the field.
LEMMA SameAdded ==
  ASSUME NEW s, Same(s), NEW c \in Chars, NEW m, m = (IF quoted THEN "in" ELSE "out"),
         NEW t, t = Whole!AddToField(s, c, m),
         Push(c), ~after_record_sep', has_trailing_comma => ~after_field_sep',
         UNCHANGED <<config, position, quoted, fields>>
  PROVE  Same(t)'
<1>1. /\ t \in State /\ t.ok /\ t.mode = m /\ t.field = Append(s.field, c)
      /\ ~t.fresh /\ ~t.ended /\ t.record = s.record /\ t.records = s.records
      /\ t.escape = s.escape /\ t.has_trailing_comma = s.has_trailing_comma
  <2>1. s \in State /\ s.ok /\ m \in {"in", "out"}
    BY DEF Same
  <2>2. Append(s.field, c) \in Fields
    BY <2>1 DEF State, Fields
  <2> QED BY <2>1, <2>2 DEF Whole!AddToField, State
<1> QED
  BY <1>1 DEF Same, Push, config, position

LEMMA ReadPlainInv == IInv /\ ReadPlain => IInv'
<1> SUFFICES ASSUME IInv, ReadPlain PROVE IInv'
  OBVIOUS
<1>1. Types /\ PendingOK /\ CallsOK /\ InLoop /\ rest # <<>> /\ rest \in Seq(Chars)
  BY DEF IInv, Types, ReadPlain, InLoop
<1>2. PICK s : Same(s) /\ Leads(s)
  BY <1>1 DEF IInv, InLoop, Running
<1>3. PICK c \in Chars, w \in Seq(Chars) : Head(rest) = c /\ Tail(rest) = w
  BY <1>1, SplitFirst
<1>4. PICK m : m = (IF quoted THEN "in" ELSE "out")
  OBVIOUS
<1>5. PICK t : t = Whole!AddToField(s, c, m)
  OBVIOUS
<1>6. t = Read(s, c)
  <2>1. s.ok /\ s.mode = m /\ s.escape = escape /\ escape \in {"quote", "backslash"}
    BY <1>1, <1>2, <1>4 DEF Same, Types
  <2>2. CASE quoted
    <3>1. c # escape /\ c # "quote"
      BY <1>1, <1>3, <2>1, <2>2 DEF ReadPlain, Plain, Types
    <3>2. Whole!ReadIn(s, c) = t
      BY <1>4, <1>5, <2>1, <2>2, <3>1 DEF Whole!ReadIn
    <3> QED BY <1>4, <2>1, <2>2, <3>2 DEF Read, Whole!ReadChar, Whole!ReadAny
  <2>3. CASE ~quoted
    <3>1. c \in {"x", "backslash"}
      BY <1>3, <2>3 DEF ReadPlain, Plain
    <3>2. Whole!ReadOut(s, c) = t
      BY <1>4, <1>5, <2>3, <3>1 DEF Whole!ReadOut
    <3> QED BY <1>4, <2>1, <2>3, <3>2 DEF Read, Whole!ReadChar, Whole!ReadAny
  <2> QED BY <2>2, <2>3
<1>7. rest' = w /\ Push(c) /\ NoSeparator
  BY <1>3 DEF ReadPlain
<1>8. UNCHANGED <<config, position, quoted, suspended, call, error, fields, text>>
  BY DEF ReadPlain
<1>9. Types'
  BY <1>1, <1>7, <1>8 DEF Types, config, position, suspended, NoSeparator
<1>10. call = "execute"
  BY <1>1, ClosingReads DEF InLoop, Running, ReadPlain, Plain
<1>11. PendingOK' /\ CallsOK' /\ call' # "over"
  BY <1>1, <1>8, <1>10 DEF PendingOK, CallsOK, suspended, InLoop
<1>12. Same(t)'
  BY <1>2, <1>4, <1>5, <1>7, <1>8, SameAdded DEF NoSeparator
<1>13. Leads(t)'
  BY <1>1, <1>2, <1>3, <1>6, <1>7, <1>8, <1>9, LeadsOnRead
<1> QED
  BY <1>9, <1>11, <1>12, <1>13, GoesOn
\* The calls of on_field are extended by one, and regrouped when a record ends.
LEMMA EmittedField ==
  ASSUME NEW records \in Seq(Seq(Fields)), NEW record \in Seq(Fields), NEW f \in Fields,
         NEW n, n = Len(records)
  PROVE  Append(CallsFor(records) \o Row(n, record), [row |-> n, col |-> Len(record), text |-> f])
           = CallsFor(records) \o Row(n, Append(record, f))
<1>1. n \in Nat
  OBVIOUS
<1>2. PICK u \in Seq(Call) : u = CallsFor(records)
  BY CallsType
<1>3. PICK v \in Seq(Call) : v = Row(n, record)
  BY <1>1, RowType
<1>4. PICK c \in Call : c = [row |-> n, col |-> Len(record), text |-> f]
  <2>1. Len(record) \in Nat
    OBVIOUS
  <2>2. [row |-> n, col |-> Len(record), text |-> f] \in Call
    BY <1>1, <2>1 DEF Call
  <2> QED BY <2>2
<1>5. Append(u \o v, c) = u \o Append(v, c)
  <2>1. PICK w \in Seq(Call) : w = <<c>>
    <3>1. c \in Call
      BY <1>4
    <3>2. <<c>> \in Seq(Call)
      BY <3>1
    <3> QED BY <3>2
  <2>2. u \o v \in Seq(Call)
    OBVIOUS
  <2>3. Append(u \o v, c) = (u \o v) \o w
    BY <2>1, <2>2, AppendIsConcat
  <2>4. Append(v, c) = v \o w
    BY <2>1, AppendIsConcat
  <2>5. (u \o v) \o w = u \o (v \o w)
    BY ConcatAssociative, SMTT(30)
  <2> QED BY <2>3, <2>4, <2>5
<1>6. Row(n, Append(record, f)) = Append(v, c)
  BY <1>1, <1>3, <1>4, RowAppend
<1> QED
  BY <1>2, <1>3, <1>4, <1>5, <1>6

LEMMA EndedRecord ==
  ASSUME NEW records \in Seq(Seq(Fields)), NEW record \in Seq(Fields), NEW n, n = Len(records)
  PROVE  CallsFor(Append(records, record)) \o Row(n + 1, <<>>)
           = CallsFor(records) \o Row(n, record)
<1>1. n \in Nat /\ n + 1 \in Nat
  OBVIOUS
<1>2. PICK u \in Seq(Call) : u = CallsFor(Append(records, record))
  <2>1. Append(records, record) \in Seq(Seq(Fields))
    OBVIOUS
  <2> QED BY <2>1, CallsType
<1>3. Row(n + 1, <<>>) = <<>>
  <2>1. PICK e \in Seq(Fields) : e = <<>>
    BY EmptySeq
  <2>2. PICK v \in Seq(Call) : v = Row(n + 1, e) /\ Len(v) = Len(e)
    BY <1>1, RowType
  <2>3. Len(v) = 0
    BY <2>1, <2>2
  <2>4. v = <<>>
    BY <2>3, EmptySeq
  <2> QED BY <2>1, <2>2, <2>4
<1>4. u \o <<>> = u
  BY ConcatEmptySeq
<1>5. u = CallsFor(records) \o Row(n, record)
  BY <1>2, CallsAppend
<1> QED
  BY <1>2, <1>3, <1>4, <1>5

LEMMA LongerRecord ==
  ASSUME NEW record \in Seq(Fields), NEW f \in Fields
  PROVE  \E r \in Seq(Fields) : r = Append(record, f) /\ Len(r) = Len(record) + 1 /\ r # <<>>
<1>1. PICK r \in Seq(Fields) : r = Append(record, f)
  <2>1. Append(record, f) \in Seq(Fields)
    OBVIOUS
  <2> QED BY <2>1
<1>2. Len(r) = Len(record) + 1 /\ Len(record) \in Nat
  BY <1>1
<1>3. r # <<>>
  BY <1>2, EmptySeq
<1> QED
  BY <1>1, <1>2, <1>3

LEMMA SameComma ==
  ASSUME NEW s, Same(s), ~quoted, NEW t, t = Read(s, ","),
         Emit, col_idx' = col_idx + 1, after_field_sep' = TRUE, after_record_sep' = FALSE,
         UNCHANGED <<config, row_idx, num_cols, after_first_row, quoted>>
  PROVE  Same(t)'
<1>1. /\ s \in State /\ s.ok /\ s.mode = "out" /\ s.records \in Seq(Seq(Fields))
      /\ s.record \in Seq(Fields) /\ s.field \in Fields
  BY DEF Same, State
<1>2. t = [s EXCEPT !.mode = "out", !.field = <<>>, !.fresh = TRUE,
                    !.ended = FALSE, !.record = Append(@, s.field)]
  BY <1>1 DEF Read, Whole!ReadChar, Whole!ReadAny, Whole!ReadOut
<1>3. PICK r \in Seq(Fields) : r = Append(s.record, s.field)
                               /\ Len(r) = Len(s.record) + 1 /\ r # <<>>
  BY <1>1, LongerRecord
<1>4. Len(r) = Len(s.record) + 1 /\ r # <<>>
  BY <1>3
<1>5. PICK e \in Fields : e = <<>>
  BY EmptySeq DEF Fields
<1>6. /\ t \in State /\ t.ok /\ t.mode = "out" /\ t.field = e
      /\ t.fresh /\ ~t.ended /\ t.record = r /\ t.records = s.records
      /\ t.escape = s.escape /\ t.has_trailing_comma = s.has_trailing_comma
  BY <1>1, <1>2, <1>3, <1>5 DEF State
<1>7. fields' = CallsFor(t.records) \o Row(row_idx', t.record)
  <2>1. row_idx = Len(s.records) /\ col_idx = Len(s.record) /\ s.field = current_field
    BY DEF Same
  <2>2. PICK n : n = Len(s.records)
    OBVIOUS
  <2>3. Append(CallsFor(s.records) \o Row(n, s.record),
               [row |-> n, col |-> Len(s.record), text |-> s.field])
          = CallsFor(s.records) \o Row(n, Append(s.record, s.field))
    BY <1>1, <2>2, EmittedField
  <2>4. fields = CallsFor(s.records) \o Row(n, s.record)
    BY <2>1, <2>2 DEF Same
  <2>5. fields' = Append(fields, [row |-> n, col |-> Len(s.record), text |-> s.field])
    BY <2>1, <2>2 DEF Emit
  <2> QED BY <1>3, <1>6, <2>1, <2>2, <2>3, <2>4, <2>5
<1>8. current_field' = e
  BY <1>5 DEF Emit
<1> QED
  BY <1>4, <1>5, <1>6, <1>7, <1>8 DEF Same, config

LEMMA ReadCommaInv == IInv /\ ReadComma => IInv'
<1> SUFFICES ASSUME IInv, ReadComma PROVE IInv'
  OBVIOUS
<1>1. Types /\ PendingOK /\ CallsOK /\ InLoop /\ rest # <<>> /\ rest \in Seq(Chars)
  BY DEF IInv, Types, ReadComma, InLoop
<1>2. PICK s : Same(s) /\ Leads(s)
  BY <1>1 DEF IInv, InLoop, Running
<1>3. PICK w \in Seq(Chars) : Head(rest) = "," /\ Tail(rest) = w /\ rest' = w
  BY <1>1, SplitFirst DEF ReadComma
<1>4. PICK t : t = Read(s, ",")
  OBVIOUS
<1>5. UNCHANGED <<config, row_idx, num_cols, after_first_row, quoted, suspended,
                  call, error, text>>
  BY DEF ReadComma
<1>6. Types'
  BY <1>1, <1>3, <1>5 DEF Types, config, suspended, ReadComma
<1>7. call = "execute"
  BY <1>1, ClosingReads DEF InLoop, Running, ReadComma
<1>8. PendingOK' /\ CallsOK' /\ call' # "over"
  BY <1>1, <1>5, <1>7 DEF PendingOK, CallsOK, suspended, InLoop
<1>9. Same(t)'
  BY <1>2, <1>4, <1>5, SameComma DEF ReadComma
<1>10. Leads(t)'
  BY <1>1, <1>2, <1>3, <1>4, <1>5, <1>6, LeadsOnRead
<1> QED
  BY <1>6, <1>8, <1>9, <1>10, GoesOn

LEMMA ReadQuoteInv == IInv /\ ReadQuote => IInv'
<1> SUFFICES ASSUME IInv, ReadQuote PROVE IInv'
  OBVIOUS
<1>1. Types /\ PendingOK /\ CallsOK /\ InLoop /\ rest # <<>> /\ rest \in Seq(Chars)
  BY DEF IInv, Types, ReadQuote, InLoop
<1>2. PICK s : Same(s) /\ Leads(s)
  BY <1>1 DEF IInv, InLoop, Running
<1>3. PICK w \in Seq(Chars) : Head(rest) = "quote" /\ Tail(rest) = w /\ rest' = w
  BY <1>1, SplitFirst DEF ReadQuote
<1>4. PICK t : t = Read(s, "quote")
  OBVIOUS
<1>5. UNCHANGED <<config, current_field, position, suspended, call, error, fields, text>>
  BY DEF ReadQuote
<1>6. Types'
  BY <1>1, <1>3, <1>5 DEF Types, config, position, suspended, ReadQuote, NoSeparator
<1>7. call = "execute"
  BY <1>1, ClosingReads DEF InLoop, Running, ReadQuote
<1>8. PendingOK' /\ CallsOK' /\ call' # "over"
  BY <1>1, <1>5, <1>7 DEF PendingOK, CallsOK, suspended, InLoop
<1>9. Same(t)'
  <2>1. PICK m : m = IF quoted THEN "out" ELSE "in"
    OBVIOUS
  <2>2. s \in State /\ s.ok /\ (quoted => ~s.fresh /\ ~s.ended /\ s.escape # "quote")
    BY <1>2 DEF Same, ReadQuote
  <2>3. t = [s EXCEPT !.mode = m, !.fresh = FALSE, !.ended = FALSE]
    <3>1. CASE quoted
      <4>1. s.mode = "in" /\ s.escape # "quote"
        BY <1>2, <2>2, <3>1 DEF Same
      <4>2. t = [s EXCEPT !.mode = "out"]
        BY <1>4, <2>2, <4>1 DEF Read, Whole!ReadChar, Whole!ReadAny, Whole!ReadIn
      <4>3. s.fresh = FALSE /\ s.ended = FALSE
        BY <2>2, <3>1 DEF State
      <4> QED BY <2>1, <2>2, <3>1, <4>2, <4>3 DEF State
    <3>2. CASE ~quoted
      <4>1. s.mode = "out"
        BY <1>2, <3>2 DEF Same
      <4> QED BY <1>4, <2>1, <2>2, <3>2, <4>1 DEF Read, Whole!ReadChar, Whole!ReadAny, Whole!ReadOut
    <3> QED BY <3>1, <3>2
  <2>4. /\ t \in State /\ t.ok /\ t.mode = m /\ t.field = s.field
        /\ ~t.fresh /\ ~t.ended /\ t.record = s.record /\ t.records = s.records
        /\ t.escape = s.escape /\ t.has_trailing_comma = s.has_trailing_comma
    BY <2>1, <2>2, <2>3 DEF State
  <2>5. m = IF quoted' THEN "in" ELSE "out"
    BY <2>1 DEF ReadQuote
  <2>6. ~after_field_sep' /\ ~after_record_sep'
    BY DEF ReadQuote, NoSeparator
  <2> QED BY <1>2, <1>5, <2>4, <2>5, <2>6 DEF Same, config, position
<1>10. Leads(t)'
  BY <1>1, <1>2, <1>3, <1>4, <1>5, <1>6, LeadsOnRead
<1> QED
  BY <1>6, <1>8, <1>9, <1>10, GoesOn

\* Outside quotes it does not matter in which mode a character finds the parser.
LEMMA ReadOutSetsMode ==
  ASSUME NEW s \in State, NEW t \in State, NEW m, t = [s EXCEPT !.mode = m], NEW c \in Chars
  PROVE  Whole!ReadOut(s, c) = Whole!ReadOut(t, c)
<1>1. /\ t.escape = s.escape /\ t.has_trailing_comma = s.has_trailing_comma
      /\ t.field = s.field /\ t.fresh = s.fresh /\ t.ended = s.ended
      /\ t.record = s.record /\ t.records = s.records /\ t.ok = s.ok
  BY DEF State
<1>2. ASSUME NEW a PROVE Whole!EndRecord(s, a) = Whole!EndRecord(t, a)
  <2>1. ASSUME NEW r
        PROVE  [s EXCEPT !.mode = a, !.field = <<>>, !.fresh = FALSE, !.ended = TRUE,
                         !.record = <<>>, !.records = Append(@, r)]
                 = [t EXCEPT !.mode = a, !.field = <<>>, !.fresh = FALSE, !.ended = TRUE,
                             !.record = <<>>, !.records = Append(@, r)]
    BY <1>1 DEF State
  <2>2. [s EXCEPT !.mode = a, !.ok = FALSE] = [t EXCEPT !.mode = a, !.ok = FALSE]
    BY <1>1 DEF State
  <2> QED BY <1>1, <2>1, <2>2 DEF Whole!EndRecord
<1>3. CASE c \in {"lf", "cr"}
  BY <1>2, <1>3 DEF Whole!ReadOut
<1>4. CASE c = ","
  <2>1. [s EXCEPT !.mode = "out", !.field = <<>>, !.fresh = TRUE,
                  !.ended = FALSE, !.record = Append(@, s.field)]
          = [t EXCEPT !.mode = "out", !.field = <<>>, !.fresh = TRUE,
                      !.ended = FALSE, !.record = Append(@, t.field)]
    BY <1>1 DEF State
  <2> QED BY <1>4, <2>1 DEF Whole!ReadOut
<1>5. CASE c = "quote"
  <2>1. [s EXCEPT !.mode = "in", !.fresh = FALSE, !.ended = FALSE]
          = [t EXCEPT !.mode = "in", !.fresh = FALSE, !.ended = FALSE]
    BY <1>1 DEF State
  <2> QED BY <1>5, <2>1 DEF Whole!ReadOut
<1>6. CASE c \in {"x", "backslash"}
  <2>1. Whole!AddToField(s, c, "out") = Whole!AddToField(t, c, "out")
    BY <1>1 DEF State, Whole!AddToField
  <2> QED BY <1>6, <2>1 DEF Whole!ReadOut
<1> QED
  BY <1>3, <1>4, <1>5, <1>6 DEF Chars

\* The character after an escape decides what the escape was.
LEMMA AfterEscapeSame ==
  ASSUME Types, quoted, NEW s, Same(s), NEW u \in Seq(Chars), u # <<>>, AfterEscape(u),
         ~after_record_sep', has_trailing_comma => ~after_field_sep',
         UNCHANGED <<config, position, fields>>
  PROVE  /\ \E t : Same(t)' /\ Fold(t, rest') = Fold(s, <<escape>> \o u)
         /\ rest' \in Seq(Chars) /\ quoted' \in BOOLEAN
<1>1. PICK c \in Chars, w \in Seq(Chars) : u = <<c>> \o w /\ Head(u) = c /\ Tail(u) = w
  BY SplitFirst
<1>2. /\ s \in State /\ s.ok /\ s.mode = "in" /\ ~s.fresh /\ ~s.ended
      /\ s.escape = escape /\ escape \in {"quote", "backslash"}
  BY DEF Same, Types
<1>3. PICK e : e = [s EXCEPT !.mode = "esc"]
  OBVIOUS
<1>4. e \in State /\ e.ok /\ e.mode = "esc" /\ e.escape = escape
  BY <1>2, <1>3 DEF State
<1>5. Fold(s, <<escape>> \o u) = Fold(Read(e, c), w)
  <2>1. PICK a \in Chars : a = escape
    BY <1>2 DEF Chars
  <2>2. Read(s, a) = e
    BY <1>2, <1>3, <2>1 DEF Read, Whole!ReadChar, Whole!ReadAny, Whole!ReadIn
  <2>3. Fold(s, <<a>> \o u) = Fold(e, u)
    BY <2>2, FoldFirst
  <2>4. Fold(e, <<c>> \o w) = Fold(Read(e, c), w)
    BY FoldFirst
  <2> QED BY <1>1, <2>1, <2>3, <2>4
<1>6. ASSUME c \in {"quote", escape}
      PROVE  \E t : Same(t)' /\ Fold(t, rest') = Fold(Read(e, c), w)
  <2>1. PICK t : t = Whole!AddToField(s, c, "in")
    OBVIOUS
  <2>2. Read(e, c) = t
    <3>1. Read(e, c) = Whole!AddToField(e, c, "in")
      BY <1>4, <1>6 DEF Read, Whole!ReadChar, Whole!ReadAny
    <3>2. Whole!AddToField(e, c, "in") = t
      BY <1>2, <1>3, <1>4, <2>1 DEF Whole!AddToField, State
    <3> QED BY <3>1, <3>2
  <2>3. Push(c) /\ rest' = w /\ UNCHANGED quoted
    BY <1>1, <1>6 DEF AfterEscape
  <2>4. Same(t)'
    BY <2>1, <2>3, SameAdded
  <2> QED BY <2>2, <2>3, <2>4
<1>7. ASSUME c \notin {"quote", escape}, escape = "quote"
      PROVE  \E t : Same(t)' /\ Fold(t, rest') = Fold(Read(e, c), w)
  <2>1. PICK t : t = [s EXCEPT !.mode = "out"]
    OBVIOUS
  <2>2. /\ t \in State /\ t.ok /\ t.mode = "out" /\ t.field = s.field /\ t.fresh = s.fresh
        /\ t.ended = s.ended /\ t.record = s.record /\ t.records = s.records
        /\ t.escape = s.escape /\ t.has_trailing_comma = s.has_trailing_comma
    BY <1>2, <2>1 DEF State
  <2>3. quoted' = FALSE /\ rest' = u /\ UNCHANGED current_field
    BY <1>1, <1>7 DEF AfterEscape
  <2>4. Same(t)'
    BY <1>2, <2>2, <2>3 DEF Same, config, position
  <2>5. Read(e, c) = Read(t, c)
    <3>1. Read(e, c) = Whole!ReadOut(e, c)
      BY <1>4, <1>7 DEF Read, Whole!ReadChar, Whole!ReadAny
    <3>2. Read(t, c) = Whole!ReadOut(t, c)
      BY <2>2 DEF Read, Whole!ReadChar, Whole!ReadAny
    <3>3. e = [t EXCEPT !.mode = "esc"]
      BY <1>2, <1>3, <2>1 DEF State
    <3>4. Whole!ReadOut(t, c) = Whole!ReadOut(e, c)
      BY <1>4, <2>2, <3>3, ReadOutSetsMode
    <3> QED BY <3>1, <3>2, <3>4
  <2>6. Fold(t, rest') = Fold(Read(t, c), w)
    BY <1>1, <2>3, FoldFirst
  <2> QED BY <2>4, <2>5, <2>6
<1>8. ASSUME c \notin {"quote", escape}, escape # "quote"
      PROVE  \E t : Same(t)' /\ Fold(t, rest') = Fold(Read(e, c), w)
  <2>1. PICK a \in Chars : a = escape
    BY <1>2 DEF Chars
  <2>2. PICK t : t = Whole!AddToField(s, a, "in")
    OBVIOUS
  <2>3. Push(a) /\ rest' = u /\ UNCHANGED quoted
    BY <1>1, <1>8, <2>1 DEF AfterEscape
  <2>4. Same(t)'
    BY <2>2, <2>3, SameAdded
  <2>5. Read(e, c) = Read(t, c)
    <3>1. Whole!AddToField(e, a, "in") = t
      BY <1>2, <1>3, <1>4, <2>2 DEF Whole!AddToField, State
    <3>2. Read(e, c) = Whole!ReadIn(t, c)
      BY <1>4, <1>8, <2>1, <3>1 DEF Read, Whole!ReadChar, Whole!ReadAny
    <3>3. t.ok /\ t.mode = "in"
      BY <1>2, <2>2 DEF Whole!AddToField, State
    <3> QED BY <3>2, <3>3 DEF Read, Whole!ReadChar, Whole!ReadAny
  <2>6. Fold(t, rest') = Fold(Read(t, c), w)
    BY <1>1, <2>3, FoldFirst
  <2> QED BY <2>4, <2>5, <2>6
<1>9. rest' \in Seq(Chars) /\ quoted' \in BOOLEAN
  BY <1>1 DEF AfterEscape, Types
<1> QED
  BY <1>5, <1>6, <1>7, <1>8, <1>9

LEMMA ReadEscapeInv == IInv /\ ReadEscape => IInv'
<1> SUFFICES ASSUME IInv, ReadEscape PROVE IInv'
  OBVIOUS
<1>1. /\ Types /\ PendingOK /\ CallsOK /\ InLoop /\ rest # <<>> /\ rest \in Seq(Chars)
      /\ quoted /\ Head(rest) = escape /\ ~newlining /\ ~escaping
  BY DEF IInv, Types, ReadEscape, AtEscape, InLoop
<1>2. PICK s : Same(s) /\ Leads(s)
  BY <1>1 DEF IInv, InLoop, Running
<1>3. PICK u \in Seq(Chars) : rest = <<escape>> \o u /\ Tail(rest) = u
  BY <1>1, SplitFirst
<1>4. u # <<>>
  <2>1. Len(rest) > 1 /\ Len(Tail(rest)) = Len(rest) - 1
    BY <1>1 DEF ReadEscape
  <2>2. Len(u) > 0
    BY <1>1, <1>3, <2>1
  <2> QED BY <2>2
<1>5. UNCHANGED <<config, position, suspended, call, error, fields, text>>
  BY DEF ReadEscape
<1>6. ~after_record_sep' /\ ~after_field_sep'
  BY DEF ReadEscape, NoSeparator
<1>7. /\ \E t : Same(t)' /\ Fold(t, rest') = Fold(s, <<escape>> \o u)
      /\ rest' \in Seq(Chars) /\ quoted' \in BOOLEAN
  BY <1>1, <1>2, <1>3, <1>4, <1>5, <1>6, AfterEscapeSame DEF ReadEscape
<1>8. PICK t : Same(t)' /\ Fold(t, rest') = Fold(s, rest)
  BY <1>3, <1>7
<1>9. Types'
  BY <1>1, <1>5, <1>7 DEF Types, config, position, suspended, ReadEscape, NoSeparator
<1>10. call = "execute"
  BY <1>1, ClosingReads DEF InLoop, Running
<1>11. PendingOK' /\ CallsOK' /\ call' # "over"
  BY <1>1, <1>5, <1>10 DEF PendingOK, CallsOK, suspended
<1>12. Left = rest
  BY <1>1, NothingPending
<1>13. Left' = rest'
  <2>1. Pending' = <<>>
    BY <1>1, <1>5 DEF Pending, suspended
  <2>2. <<>> \o rest' = rest'
    BY <1>7, ConcatEmptySeq
  <2> QED BY <2>1, <2>2 DEF Left
<1>14. Leads(t)'
  BY <1>2, <1>5, <1>8, <1>12, <1>13, LeadsOn
<1> QED
  BY <1>8, <1>9, <1>11, <1>14, GoesOn

LEMMA ResumeEscapingInv == IInv /\ ResumeEscaping => IInv'
<1> SUFFICES ASSUME IInv, ResumeEscaping PROVE IInv'
  OBVIOUS
<1>1. /\ Types /\ PendingOK /\ CallsOK /\ Running /\ escaping /\ rest \in Seq(Chars)
  BY DEF IInv, Types, ResumeEscaping
<1>2. PICK s : Same(s) /\ Leads(s)
  BY <1>1 DEF IInv, Running
<1>3. quoted /\ ~newlining /\ call = "execute" /\ rest # <<>>
  BY <1>1 DEF PendingOK, CallsOK, Running
<1>4. UNCHANGED <<config, position, separators, newlining, call, error, fields, text>>
  BY DEF ResumeEscaping
<1>5. ~after_record_sep' /\ (has_trailing_comma => ~after_field_sep')
  BY <1>2, <1>3, <1>4 DEF Same, Stale, separators
<1>6. /\ \E t : Same(t)' /\ Fold(t, rest') = Fold(s, <<escape>> \o rest)
      /\ rest' \in Seq(Chars) /\ quoted' \in BOOLEAN
  BY <1>1, <1>2, <1>3, <1>4, <1>5, AfterEscapeSame DEF ResumeEscaping
<1>7. PICK t : Same(t)' /\ Fold(t, rest') = Fold(s, <<escape>> \o rest)
  BY <1>6
<1>8. escaping' = FALSE
  BY DEF ResumeEscaping
<1>9. Types'
  BY <1>1, <1>4, <1>6, <1>8 DEF Types, config, position, separators
<1>10. PendingOK' /\ CallsOK' /\ call' # "over"
  BY <1>1, <1>3, <1>4, <1>8 DEF PendingOK, CallsOK
<1>11. Left = <<escape>> \o rest
  BY <1>1, <1>3 DEF Left, Pending
<1>12. Left' = rest'
  <2>1. Pending' = <<>>
    BY <1>3, <1>4, <1>8 DEF Pending
  <2>2. <<>> \o rest' = rest'
    BY <1>6, ConcatEmptySeq
  <2> QED BY <2>1, <2>2 DEF Left
<1>13. Leads(t)'
  BY <1>2, <1>4, <1>7, <1>11, <1>12, LeadsOn
<1> QED
  BY <1>7, <1>9, <1>10, <1>13, GoesOn

LEMMA SuspendEscapingInv == IInv /\ SuspendEscaping => IInv'
<1> SUFFICES ASSUME IInv, SuspendEscaping PROVE IInv'
  OBVIOUS
<1>1. /\ Types /\ PendingOK /\ CallsOK /\ InLoop /\ rest # <<>> /\ rest \in Seq(Chars)
      /\ quoted /\ Head(rest) = escape /\ ~newlining /\ ~escaping /\ Len(rest) = 1
  BY DEF IInv, Types, SuspendEscaping, AtEscape, InLoop
<1>2. PICK s : Same(s) /\ Leads(s)
  BY <1>1 DEF IInv, InLoop, Running
<1>3. call = "execute"
  BY <1>1, ClosingReads DEF InLoop, Running
<1>4. escaping' = TRUE /\ rest' = <<>> /\ call' = "none" /\ UNCHANGED <<current_field, error>>
  BY <1>3 DEF SuspendEscaping, Suspend, Return
<1>5. UNCHANGED <<config, position, quoted, separators, newlining, fields, text>>
  BY DEF SuspendEscaping
<1>6. Types'
  <2>1. rest' \in Seq(Chars) /\ escaping' \in BOOLEAN /\ call' \in {"none", "execute", "closing", "over"}
    BY <1>4, EmptySeq
  <2> QED BY <1>1, <1>5, <2>1 DEF Types, config, position, separators
<1>7. PendingOK' /\ CallsOK' /\ call' # "over"
  BY <1>1, <1>3, <1>4, <1>5 DEF PendingOK, CallsOK
<1>8. Same(s)'
  BY <1>2, <1>4, <1>5 DEF Same, Stale, config, position, separators
<1>9. Left' = Left
  <2>1. Left = rest
    BY <1>1, NothingPending
  <2>2. rest = <<escape>>
    BY <1>1
  <2>3. Pending' = <<escape>>
    BY <1>1, <1>4, <1>5 DEF Pending, config
  <2>4. PICK a \in Chars : a = escape
    BY <1>1 DEF Chars, Types
  <2>5. <<a>> \o <<>> = <<a>>
    OBVIOUS
  <2> QED BY <1>4, <2>1, <2>2, <2>3, <2>4, <2>5 DEF Left
<1>10. Leads(s)'
  BY <1>2, <1>3, <1>4, <1>5, <1>9, LeadsOn
<1> QED
  BY <1>6, <1>7, <1>8, <1>10, GoesOn

\* What the end of a record does to the state of CSVSpec.
Ended(s, m, t, record) ==
  /\ record = (IF s.has_trailing_comma THEN s.record ELSE Append(s.record, s.field))
  /\ s.has_trailing_comma => s.fresh
  /\ s.records # <<>> => Len(record) = Len(s.records[1])
  /\ t = [s EXCEPT !.mode = m, !.field = <<>>, !.fresh = FALSE, !.ended = TRUE,
                   !.record = <<>>, !.records = Append(@, record)]

LEMMA EndsWell ==
  ASSUME NEW s \in State, s.ok, NEW m \in {"out", "cr"}, NEW t, t = Whole!EndRecord(s, m), t.ok
  PROVE  \E record \in Seq(Fields) : Ended(s, m, t, record)
<1>1. PICK record \in Seq(Fields) :
        record = IF s.has_trailing_comma THEN s.record ELSE Append(s.record, s.field)
  <2>1. s.record \in Seq(Fields) /\ s.field \in Fields
    BY DEF State
  <2>2. PICK r \in Seq(Fields) : r = Append(s.record, s.field)
    BY <2>1, LongerRecord
  <2> QED BY <2>1, <2>2
<1>2. ASSUME ~((s.has_trailing_comma => s.fresh) /\ (s.records = <<>> \/ Len(record) = Len(s.records[1])))
      PROVE  FALSE
  <2>1. t = [s EXCEPT !.mode = m, !.ok = FALSE]
    BY <1>1, <1>2 DEF Whole!EndRecord
  <2>2. t.ok = FALSE
    BY <2>1 DEF State
  <2> QED BY <2>2
<1>3. t = [s EXCEPT !.mode = m, !.field = <<>>, !.fresh = FALSE, !.ended = TRUE,
                    !.record = <<>>, !.records = Append(@, record)]
  BY <1>1, <1>2 DEF Whole!EndRecord
<1> QED
  BY <1>1, <1>2, <1>3 DEF Ended

\* The parser refuses a record exactly if CSVSpec does.
LEMMA RecordErrorSame ==
  ASSUME Types, NEW s, Same(s), NEW m \in {"out", "cr"}, NEW t, t = Whole!EndRecord(s, m)
  PROVE  RecordError = "Ok" <=> t.ok
<1>1. /\ s \in State /\ s.ok /\ s.has_trailing_comma = has_trailing_comma
      /\ s.record \in Seq(Fields) /\ s.field \in Fields /\ has_trailing_comma \in BOOLEAN
  BY DEF Same, State, Types
<1>2. PICK record : record = IF s.has_trailing_comma THEN s.record ELSE Append(s.record, s.field)
  OBVIOUS
<1>3. Columns = Len(record)
  <2>1. PICK r \in Seq(Fields) : r = Append(s.record, s.field) /\ Len(r) = Len(s.record) + 1
    BY <1>1, LongerRecord
  <2>2. col_idx = Len(s.record)
    BY DEF Same
  <2> QED BY <1>1, <1>2, <2>1, <2>2 DEF Columns
<1>4. t.ok <=> (s.has_trailing_comma => s.fresh) /\ (s.records = <<>> \/ Len(record) = Len(s.records[1]))
  <2>1. CASE (s.has_trailing_comma => s.fresh) /\ (s.records = <<>> \/ Len(record) = Len(s.records[1]))
    <3>1. t = [s EXCEPT !.mode = m, !.field = <<>>, !.fresh = FALSE, !.ended = TRUE,
                        !.record = <<>>, !.records = Append(@, record)]
      BY <1>2, <2>1 DEF Whole!EndRecord
    <3> QED BY <1>1, <2>1, <3>1 DEF State
  <2>2. CASE ~((s.has_trailing_comma => s.fresh) /\ (s.records = <<>> \/ Len(record) = Len(s.records[1])))
    <3>1. t = [s EXCEPT !.mode = m, !.ok = FALSE]
      BY <1>2, <2>2 DEF Whole!EndRecord
    <3>2. t.ok = FALSE
      BY <1>1, <3>1 DEF State
    <3> QED BY <2>2, <3>2
  <2> QED BY <2>1, <2>2
<1>5. RecordError = "Ok" <=> (has_trailing_comma => after_field_sep) /\ (after_first_row => Columns = num_cols)
  BY DEF RecordError
<1>6. (after_first_row => Columns = num_cols) <=> s.records = <<>> \/ Len(record) = Len(s.records[1])
  BY <1>3 DEF Same
<1>7. CASE Stale(s) /\ has_trailing_comma
  <2>1. s.record = <<>> /\ num_cols # 0 /\ s.records # <<>> /\ ~s.fresh
    BY <1>7 DEF Same, Stale
  <2>2. Len(record) = 0
    BY <1>1, <1>2, <1>7, <2>1
  <2>3. RecordError # "Ok"
    BY <1>3, <1>5, <2>1, <2>2 DEF Same
  <2> QED BY <1>1, <1>4, <1>7, <2>1, <2>3
<1>8. CASE ~Stale(s) \/ ~has_trailing_comma
  <2>1. has_trailing_comma => (after_field_sep <=> s.fresh)
    BY <1>8 DEF Same
  <2> QED BY <1>1, <1>4, <1>5, <1>6, <2>1
<1> QED
  BY <1>7, <1>8

\* The end of a record, in the loop or after a resumption.
LEMMA SameEnded ==
  ASSUME Types, NEW s, Same(s), ~quoted, NEW left, EndRecord(left), RecordError = "Ok",
         NEW t, t = Whole!EndRecord(s, "out"),
         after_field_sep' = FALSE \/ UNCHANGED after_field_sep, after_record_sep' = TRUE,
         UNCHANGED <<config, quoted>>
  PROVE  Same(t)'
<1>1. /\ s \in State /\ s.ok /\ s.has_trailing_comma = has_trailing_comma
      /\ s.record \in Seq(Fields) /\ s.field \in Fields /\ has_trailing_comma \in BOOLEAN
      /\ s.records \in Seq(Seq(Fields))
  BY DEF Same, State, Types
<1>2. t.ok
  BY RecordErrorSame
<1>3. PICK record \in Seq(Fields) :
        /\ record = (IF s.has_trailing_comma THEN s.record ELSE Append(s.record, s.field))
        /\ s.has_trailing_comma => s.fresh
        /\ s.records # <<>> => Len(record) = Len(s.records[1])
        /\ t = [s EXCEPT !.mode = "out", !.field = <<>>, !.fresh = FALSE, !.ended = TRUE,
                         !.record = <<>>, !.records = Append(@, record)]
  <2>1. PICK record \in Seq(Fields) : Ended(s, "out", t, record)
    BY <1>1, <1>2, EndsWell
  <2> QED BY <2>1 DEF Ended
<1>4. PICK e \in Fields, r \in Seq(Fields), records \in Seq(Seq(Fields)) :
        e = <<>> /\ r = <<>> /\ records = Append(s.records, record)
  <2>1. <<>> \in Fields /\ <<>> \in Seq(Fields)
    BY EmptySeq DEF Fields
  <2>2. Append(s.records, record) \in Seq(Seq(Fields))
    BY <1>1, <1>3
  <2> QED BY <2>1, <2>2
<1>5. /\ t \in State /\ t.mode = "out" /\ t.field = e /\ ~t.fresh /\ t.ended
      /\ t.record = r /\ t.records = records
      /\ t.escape = s.escape /\ t.has_trailing_comma = s.has_trailing_comma
  BY <1>1, <1>3, <1>4 DEF State
<1>6. PICK n \in Nat : n = Len(s.records)
  BY <1>1
<1>7. Len(records) = n + 1 /\ records # <<>> /\ Len(r) = 0
  <2>1. Len(records) = n + 1 /\ Len(r) = 0
    BY <1>1, <1>3, <1>4, <1>6
  <2> QED BY <1>6, <2>1
<1>8. Columns = Len(record)
  <2>1. PICK q \in Seq(Fields) : q = Append(s.record, s.field) /\ Len(q) = Len(s.record) + 1
    BY <1>1, LongerRecord
  <2>2. col_idx = Len(s.record)
    BY DEF Same
  <2> QED BY <1>1, <1>3, <2>1, <2>2 DEF Columns
<1>9. records[1] = IF n = 0 THEN record ELSE s.records[1]
  BY <1>1, <1>3, <1>4, <1>6
<1>10. num_cols' = Len(records[1])
  <2>1. num_cols' = Len(record)
    BY <1>8 DEF EndRecord
  <2>2. n # 0 => s.records # <<>>
    BY <1>6
  <2> QED BY <1>3, <1>9, <2>1, <2>2
<1>11. /\ after_first_row' = TRUE /\ col_idx' = 0 /\ row_idx' = n + 1
  BY <1>6 DEF EndRecord, Same
<1>12. fields' = CallsFor(s.records) \o Row(n, record) /\ current_field' = e
  <2>1. fields = CallsFor(s.records) \o Row(n, s.record) /\ current_field = s.field
    BY <1>6 DEF Same
  <2>2. CASE has_trailing_comma
    <3>1. UNCHANGED <<fields, current_field>>
      BY <2>2 DEF EndRecord
    <3>2. s.field = e
      BY <1>1, <1>3, <1>4, <2>2 DEF Same
    <3> QED BY <1>1, <1>3, <2>1, <2>2, <3>1, <3>2
  <2>3. CASE ~has_trailing_comma
    <3>1. Emit
      BY <2>3 DEF EndRecord
    <3>2. fields' = Append(fields, [row |-> n, col |-> Len(s.record), text |-> s.field])
      BY <1>6, <2>1, <3>1 DEF Emit, Same
    <3>3. Append(CallsFor(s.records) \o Row(n, s.record),
                 [row |-> n, col |-> Len(s.record), text |-> s.field])
            = CallsFor(s.records) \o Row(n, Append(s.record, s.field))
      BY <1>1, <1>6, EmittedField, ZenonT(30)
    <3>4. record = Append(s.record, s.field)
      BY <1>1, <1>3, <2>3
    <3> QED BY <1>4, <2>1, <3>1, <3>2, <3>3, <3>4 DEF Emit
  <2> QED BY <2>2, <2>3
<1>13. fields' = CallsFor(records) \o Row(row_idx', r)
  <2>1. CallsFor(Append(s.records, record)) \o Row(n + 1, <<>>) = CallsFor(s.records) \o Row(n, record)
    BY <1>1, <1>6, EndedRecord
  <2> QED BY <1>4, <1>11, <1>12, <2>1
<1>14. has_trailing_comma' => (after_field_sep' <=> t.fresh) \/ Stale(t)'
  <2> SUFFICES ASSUME has_trailing_comma, after_field_sep' PROVE Stale(t)'
    BY <1>5 DEF config
  <2>1. s.fresh /\ record # <<>>
    BY <1>1, <1>3 DEF Same
  <2>2. Len(record) # 0
    BY <2>1
  <2> QED BY <1>5, <1>7, <1>8, <2>2 DEF Stale, EndRecord
<1> QED
  BY <1>2, <1>4, <1>5, <1>7, <1>10, <1>11, <1>12, <1>13, <1>14 DEF Same, config

\* What is left after the carriage return of a separator: a line feed is part of
\* the separator, and before any other character nothing has happened.
LEMMA AfterCarriageReturn ==
  ASSUME NEW s \in State, s.ok, s.mode = "out", NEW u \in Seq(Chars), u # <<>>,
         NEW t \in State, t = Whole!EndRecord(s, "out"), t.ok
  PROVE  Fold(s, <<"cr">> \o u) = Fold(t, WithoutLineFeed(u))
<1>1. PICK c \in Chars, w \in Seq(Chars) : u = <<c>> \o w /\ Head(u) = c /\ Tail(u) = w
  BY SplitFirst
<1>2. PICK e : e = Whole!EndRecord(s, "cr")
  OBVIOUS
<1>3. t.mode = "out" /\ e = [t EXCEPT !.mode = "cr"]
  <2>1. PICK record : record = IF s.has_trailing_comma THEN s.record ELSE Append(s.record, s.field)
    OBVIOUS
  <2>2. CASE (s.has_trailing_comma => s.fresh) /\ (s.records = <<>> \/ Len(record) = Len(s.records[1]))
    <3>1. ASSUME NEW m
          PROVE  Whole!EndRecord(s, m)
                   = [s EXCEPT !.mode = m, !.field = <<>>, !.fresh = FALSE, !.ended = TRUE,
                               !.record = <<>>, !.records = Append(@, record)]
      BY <2>1, <2>2 DEF Whole!EndRecord
    <3>2. t = [s EXCEPT !.mode = "out", !.field = <<>>, !.fresh = FALSE, !.ended = TRUE,
                               !.record = <<>>, !.records = Append(@, record)]
      BY <3>1
    <3>3. e = [s EXCEPT !.mode = "cr", !.field = <<>>, !.fresh = FALSE, !.ended = TRUE,
                               !.record = <<>>, !.records = Append(@, record)]
      BY <1>2, <3>1
    <3> QED BY <3>2, <3>3 DEF State
  <2>3. CASE ~((s.has_trailing_comma => s.fresh) /\ (s.records = <<>> \/ Len(record) = Len(s.records[1])))
    <3>1. t = [s EXCEPT !.mode = "out", !.ok = FALSE]
      BY <2>1, <2>3 DEF Whole!EndRecord
    <3> QED BY <3>1 DEF State
  <2> QED BY <2>2, <2>3
<1>4. e \in State /\ e.ok /\ e.mode = "cr"
  BY <1>3 DEF State
<1>5. Read(s, "cr") = e
  BY <1>2 DEF Read, Whole!ReadChar, Whole!ReadAny, Whole!ReadOut
<1>6. Fold(s, <<"cr">> \o u) = Fold(Read(e, c), w)
  <2>1. PICK r \in Chars : r = "cr"
    BY DEF Chars
  <2>2. Fold(s, <<r>> \o u) = Fold(e, u)
    BY <1>5, <2>1, FoldFirst
  <2>3. Fold(e, <<c>> \o w) = Fold(Read(e, c), w)
    BY FoldFirst
  <2> QED BY <1>1, <2>1, <2>2, <2>3
<1>7. CASE c = "lf"
  <2>1. Read(e, c) = [e EXCEPT !.mode = "out"]
    BY <1>4, <1>7 DEF Read, Whole!ReadChar, Whole!ReadAny
  <2>2. [e EXCEPT !.mode = "out"] = t
    BY <1>3 DEF State
  <2>3. WithoutLineFeed(u) = w
    BY <1>1, <1>7 DEF WithoutLineFeed
  <2> QED BY <1>6, <2>1, <2>2, <2>3
<1>8. CASE c # "lf"
  <2>1. Read(e, c) = Whole!ReadOut(e, c)
    BY <1>4, <1>8 DEF Read, Whole!ReadChar, Whole!ReadAny
  <2>2. Read(t, c) = Whole!ReadOut(t, c)
    BY <1>3 DEF Read, Whole!ReadChar, Whole!ReadAny
  <2>3. Whole!ReadOut(t, c) = Whole!ReadOut(e, c)
    BY <1>3, <1>4, ReadOutSetsMode
  <2>4. WithoutLineFeed(u) = u
    BY <1>1, <1>8 DEF WithoutLineFeed
  <2>5. Fold(t, u) = Fold(Read(t, c), w)
    BY <1>1, FoldFirst
  <2> QED BY <1>6, <2>1, <2>2, <2>3, <2>4, <2>5
<1> QED
  BY <1>7, <1>8

LEMMA WithoutLineFeedType ==
  ASSUME NEW u \in Seq(Chars)
  PROVE  WithoutLineFeed(u) \in Seq(Chars)
<1>1. u # <<>> => Tail(u) \in Seq(Chars)
  OBVIOUS
<1> QED
  BY <1>1 DEF WithoutLineFeed

\* A carriage return that ends the text, or after which the record is refused.
LEMMA CarriageReturn ==
  ASSUME NEW s \in State, s.ok, s.mode = "out", NEW t, t = Whole!EndRecord(s, "out")
  PROVE  /\ t \in State /\ Read(s, "lf") = t
         /\ Read(s, "cr").ok = t.ok /\ Read(s, "cr").records = t.records
<1>1. PICK record : record = IF s.has_trailing_comma THEN s.record ELSE Append(s.record, s.field)
  OBVIOUS
<1>2. record \in Seq(Fields) /\ Append(s.records, record) \in Seq(Seq(Fields))
  <2>1. PICK r \in Seq(Fields) : r = Append(s.record, s.field)
    <3>1. s.record \in Seq(Fields) /\ s.field \in Fields
      BY DEF State
    <3> QED BY <3>1, LongerRecord
  <2>2. record \in Seq(Fields) /\ s.records \in Seq(Seq(Fields))
    BY <1>1, <2>1 DEF State
  <2>3. Append(s.records, record) \in Seq(Seq(Fields))
    BY <2>2
  <2> QED BY <2>2, <2>3
<1>3. Read(s, "lf") = t /\ Read(s, "cr") = Whole!EndRecord(s, "cr")
  BY DEF Read, Whole!ReadChar, Whole!ReadAny, Whole!ReadOut
<1>4. PICK e \in Fields, q \in Seq(Fields) : e = <<>> /\ q = <<>>
  BY EmptySeq DEF Fields
<1>5. CASE (s.has_trailing_comma => s.fresh) /\ (s.records = <<>> \/ Len(record) = Len(s.records[1]))
  <2>1. ASSUME NEW m
        PROVE  Whole!EndRecord(s, m)
                 = [s EXCEPT !.mode = m, !.field = <<>>, !.fresh = FALSE, !.ended = TRUE,
                             !.record = <<>>, !.records = Append(@, record)]
    BY <1>1, <1>5 DEF Whole!EndRecord
  <2>2. t = [s EXCEPT !.mode = "out", !.field = e, !.fresh = FALSE, !.ended = TRUE,
                             !.record = q, !.records = Append(@, record)]
    BY <1>4, <2>1
  <2>3. Read(s, "cr") = [s EXCEPT !.mode = "cr", !.field = e, !.fresh = FALSE, !.ended = TRUE,
                             !.record = q, !.records = Append(@, record)]
    BY <1>3, <1>4, <2>1
  <2> QED BY <1>2, <1>3, <2>2, <2>3 DEF State
<1>6. CASE ~((s.has_trailing_comma => s.fresh) /\ (s.records = <<>> \/ Len(record) = Len(s.records[1])))
  <2>1. ASSUME NEW m
        PROVE  Whole!EndRecord(s, m) = [s EXCEPT !.mode = m, !.ok = FALSE]
    BY <1>1, <1>6 DEF Whole!EndRecord
  <2>2. t = [s EXCEPT !.mode = "out", !.ok = FALSE]
    BY <2>1
  <2>3. Read(s, "cr") = [s EXCEPT !.mode = "cr", !.ok = FALSE]
    BY <1>3, <2>1
  <2> QED BY <1>3, <2>2, <2>3 DEF State
<1> QED
  BY <1>5, <1>6

\* A record separator is read to its end, or the record is refused at it.
LEMMA SeparatorInv ==
  ASSUME Types, PendingOK, CallsOK, Running, ~quoted, ~escaping,
         NEW s, Same(s), Leads(s), NEW t, t = Whole!EndRecord(s, "out"),
         NEW c \in {"cr", "lf"}, NEW u \in Seq(Chars), Left = <<c>> \o u,
         NEW left \in Seq(Chars), EndRecord(left),
         RecordError = "Ok" => /\ after_field_sep' = FALSE \/ UNCHANGED after_field_sep
                               /\ after_record_sep' = TRUE
                               /\ newlining' = FALSE
                               /\ IF call = "closing" THEN u = <<>> /\ left = <<>>
                                  ELSE Fold(s, Left) = Fold(t, left),
         RecordError # "Ok" => UNCHANGED <<separators, newlining>>,
         UNCHANGED <<config, quoted, escaping, text>>
  PROVE  IInv'
<1>1. s \in State /\ s.ok /\ s.mode = "out" /\ c \in Chars
  BY DEF Same, Chars
<1>2. /\ t \in State /\ Read(s, "lf") = t
      /\ Read(s, "cr").ok = t.ok /\ Read(s, "cr").records = t.records
  BY <1>1, CarriageReturn
<1>3. Read(s, c).ok = t.ok /\ Read(s, c).records = t.records
  BY <1>2
<1>4. Fold(s, Left) = Fold(Read(s, c), u)
  BY <1>1, FoldFirst
<1>5. CASE RecordError # "Ok"
  <2>1. ~t.ok
    BY <1>5, RecordErrorSame
  <2>2. PICK r : r = Read(s, c)
    OBVIOUS
  <2>3. Fold(r, u) = r
    BY <1>3, <2>1, <2>2, FoldRefused
  <2>4. ~Fold(s, Left).ok
    BY <1>3, <1>4, <2>1, <2>2, <2>3
  <2>5. call' = "over" /\ error' # "Ok" /\ UNCHANGED <<position, rest, fields, current_field>>
    BY <1>5 DEF EndRecord, Fail
  <2>6. Types'
    BY <1>5, <2>5 DEF Types, config, separators, position
  <2>7. PendingOK' /\ CallsOK'
    BY <1>5, <2>5 DEF PendingOK, CallsOK
  <2> QED BY <2>4, <2>5, <2>6, <2>7, FailInv
<1>6. CASE RecordError = "Ok"
  <2>1. rest' = left /\ after_first_row' = TRUE /\ UNCHANGED <<call, error>>
    BY <1>6 DEF EndRecord
  <2>2. Types'
    BY <1>6, <2>1 DEF Types, config
  <2>3. PendingOK'
    BY <1>6 DEF PendingOK
  <2>4. CallsOK' /\ call' # "over"
    BY <1>6, <2>1 DEF CallsOK, Running
  <2>5. Same(t)'
    BY <1>6, SameEnded
  <2>6. Left' = left
    <3>1. Pending' = <<>>
      BY <1>6 DEF Pending
    <3>2. <<>> \o left = left
      BY ConcatEmptySeq
    <3> QED BY <2>1, <3>1, <3>2 DEF Left
  <2>7. CASE call # "closing"
    <3>1. Fold(t, Left') = Fold(s, Left)
      BY <1>6, <2>6, <2>7
    <3>2. Leads(t)'
      BY <2>1, <2>7, <3>1, LeadsOn
    <3> QED BY <2>2, <2>3, <2>4, <2>5, <3>2, GoesOn
  <2>8. CASE call = "closing"
    <3>1. Fold(t, <<>>) = t /\ Fold(Read(s, c), <<>>) = Read(s, c)
      BY FoldEmpty
    <3>2. Fold(s, Left).ok = Fold(t, left).ok /\ Fold(s, Left).records = Fold(t, left).records
      BY <1>3, <1>4, <1>6, <2>8, <3>1
    <3>3. PICK whole : whole = Whole!ReadAll(Start0, text)
      OBVIOUS
    <3>4. whole = Whole!ReadAll(Start0, text)'
      BY <3>3 DEF Start0, config
    <3>5. Fold(t, left).ok = whole.ok /\ (Fold(t, left).ok => Fold(t, left).records = whole.records)
      BY <2>8, <3>2, <3>3 DEF Leads
    <3>6. Leads(t)'
      BY <2>1, <2>6, <2>8, <3>4, <3>5 DEF Leads
    <3> QED BY <2>2, <2>3, <2>4, <2>5, <3>6, GoesOn
  <2> QED BY <2>7, <2>8
<1> QED
  BY <1>5, <1>6

LEMMA ReadSeparatorInv == IInv /\ ReadSeparator => IInv'
<1> SUFFICES ASSUME IInv, ReadSeparator PROVE IInv'
  OBVIOUS
<1>1. /\ Types /\ PendingOK /\ CallsOK /\ InLoop /\ Running /\ rest # <<>> /\ rest \in Seq(Chars)
      /\ ~quoted /\ ~newlining /\ ~escaping
  BY DEF IInv, Types, ReadSeparator, InLoop
<1>2. PICK s : Same(s) /\ Leads(s)
  BY <1>1 DEF IInv, Running
<1>3. PICK c \in Chars, w \in Seq(Chars) : rest = <<c>> \o w /\ Head(rest) = c /\ Tail(rest) = w
  BY <1>1, SplitFirst
<1>4. c \in {"cr", "lf"}
  BY <1>3 DEF ReadSeparator
<1>5. PICK left : left = IF c = "cr" THEN WithoutLineFeed(w) ELSE w
  OBVIOUS
<1>6. left \in Seq(Chars) /\ EndRecord(left)
  BY <1>3, <1>5, WithoutLineFeedType DEF ReadSeparator
<1>7. PICK t : t = Whole!EndRecord(s, "out")
  OBVIOUS
<1>8. Left = <<c>> \o w
  BY <1>1, <1>3, NothingPending
<1>9. s \in State /\ s.ok /\ s.mode = "out"
  BY <1>1, <1>2 DEF Same
<1>10. t \in State /\ Read(s, "lf") = t
  BY <1>7, <1>9, CarriageReturn
<1>11. UNCHANGED <<config, quoted, suspended, text>>
  BY DEF ReadSeparator
<1>12. ASSUME RecordError = "Ok", call # "closing" PROVE Fold(s, Left) = Fold(t, left)
  <2>1. CASE c = "lf"
    BY <1>5, <1>8, <1>10, <2>1, FoldFirst DEF Chars
  <2>2. CASE c = "cr"
    <3>1. Len(rest) # 1
      BY <1>1, <1>3, <2>2 DEF ReadSeparator, CutInSeparator
    <3>2. w # <<>>
      <4> SUFFICES ASSUME w = <<>> PROVE FALSE
        OBVIOUS
      <4>1. Len(rest) = 1
        BY <1>3
      <4> QED BY <3>1, <4>1
    <3>3. t.ok
      BY <1>1, <1>2, <1>7, <1>12, RecordErrorSame
    <3> QED BY <1>5, <1>7, <1>8, <1>9, <1>10, <2>2, <3>2, <3>3, AfterCarriageReturn
  <2> QED BY <1>4, <2>1, <2>2
<1>13. ASSUME call = "closing" PROVE w = <<>> /\ left = <<>>
  BY <1>1, <1>3, <1>5, <1>13, ClosingReads
<1>14. RecordError = "Ok" => /\ after_field_sep' = FALSE \/ UNCHANGED after_field_sep
                             /\ after_record_sep' = TRUE
                             /\ newlining' = FALSE
                             /\ IF call = "closing" THEN w = <<>> /\ left = <<>>
                                ELSE Fold(s, Left) = Fold(t, left)
  <2>1. newlining' = FALSE
    BY <1>1, <1>11 DEF Types, suspended
  <2> QED BY <1>12, <1>13, <2>1 DEF ReadSeparator
<1>15. RecordError # "Ok" => UNCHANGED <<separators, newlining>>
  BY <1>11 DEF ReadSeparator, suspended
<1>16. UNCHANGED <<config, quoted, escaping, text>>
  BY <1>11 DEF suspended
<1> QED
  BY <1>1, <1>2, <1>3, <1>4, <1>6, <1>7, <1>8, <1>14, <1>15, <1>16, SeparatorInv

LEMMA ResumeNewliningInv == IInv /\ ResumeNewlining => IInv'
<1> SUFFICES ASSUME IInv, ResumeNewlining PROVE IInv'
  OBVIOUS
<1>1. /\ Types /\ PendingOK /\ CallsOK /\ Running /\ rest \in Seq(Chars)
      /\ newlining /\ ~quoted /\ ~escaping
  BY DEF IInv, Types, ResumeNewlining, PendingOK
<1>2. PICK s : Same(s) /\ Leads(s)
  BY <1>1 DEF IInv, Running
<1>3. PICK left : left = WithoutLineFeed(rest)
  OBVIOUS
<1>4. left \in Seq(Chars) /\ EndRecord(left)
  BY <1>1, <1>3, WithoutLineFeedType DEF ResumeNewlining
<1>5. PICK t : t = Whole!EndRecord(s, "out")
  OBVIOUS
<1>6. Left = <<"cr">> \o rest
  BY <1>1 DEF Left, Pending
<1>7. s \in State /\ s.ok /\ s.mode = "out"
  BY <1>1, <1>2 DEF Same
<1>8. t \in State
  BY <1>5, <1>7, CarriageReturn
<1>9. UNCHANGED <<config, quoted, after_field_sep, escaping, text>>
  BY DEF ResumeNewlining
<1>10. ASSUME RecordError = "Ok", call # "closing" PROVE Fold(s, Left) = Fold(t, left)
  <2>1. rest # <<>>
    BY <1>1, <1>10 DEF CallsOK, Running
  <2>2. t.ok
    BY <1>1, <1>2, <1>5, <1>10, RecordErrorSame
  <2> QED BY <1>1, <1>3, <1>5, <1>6, <1>7, <1>8, <2>1, <2>2, AfterCarriageReturn
<1>11. ASSUME call = "closing" PROVE rest = <<>> /\ left = <<>>
  BY <1>1, <1>3, <1>11 DEF CallsOK, WithoutLineFeed
<1>12. RecordError = "Ok" => /\ after_field_sep' = FALSE \/ UNCHANGED after_field_sep
                             /\ after_record_sep' = TRUE
                             /\ newlining' = FALSE
                             /\ IF call = "closing" THEN rest = <<>> /\ left = <<>>
                                ELSE Fold(s, Left) = Fold(t, left)
  BY <1>9, <1>10, <1>11 DEF ResumeNewlining
<1>13. RecordError # "Ok" => UNCHANGED <<separators, newlining>>
  BY <1>9 DEF ResumeNewlining, separators
<1> QED
  BY <1>1, <1>2, <1>4, <1>5, <1>6, <1>9, <1>12, <1>13, SeparatorInv

LEMMA SuspendNewliningInv == IInv /\ SuspendNewlining => IInv'
<1> SUFFICES ASSUME IInv, SuspendNewlining PROVE IInv'
  OBVIOUS
<1>1. /\ Types /\ PendingOK /\ CallsOK /\ InLoop /\ rest # <<>> /\ rest \in Seq(Chars)
      /\ ~quoted /\ Head(rest) = "cr" /\ ~newlining /\ ~escaping /\ Len(rest) = 1
  BY DEF IInv, Types, SuspendNewlining, CutInSeparator, InLoop
<1>2. PICK s : Same(s) /\ Leads(s)
  BY <1>1 DEF IInv, InLoop, Running
<1>3. call = "execute"
  BY <1>1, ClosingReads DEF InLoop, Running
<1>4. newlining' = TRUE /\ rest' = <<>> /\ call' = "none" /\ UNCHANGED error
  BY <1>3 DEF SuspendNewlining, Return
<1>5. UNCHANGED <<config, current_field, position, quoted, separators, escaping, fields, text>>
  BY DEF SuspendNewlining
<1>6. Types'
  <2>1. rest' \in Seq(Chars) /\ newlining' \in BOOLEAN /\ call' \in {"none", "execute", "closing", "over"}
    BY <1>4, EmptySeq
  <2> QED BY <1>1, <1>5, <2>1 DEF Types, config, position, separators
<1>7. PendingOK' /\ CallsOK' /\ call' # "over"
  BY <1>1, <1>3, <1>4, <1>5 DEF PendingOK, CallsOK
<1>8. Same(s)'
  BY <1>2, <1>4, <1>5 DEF Same, Stale, config, position, separators
<1>9. Left' = Left
  <2>1. Left = rest
    BY <1>1, NothingPending
  <2>2. rest = <<"cr">>
    BY <1>1
  <2>3. Pending' = <<"cr">>
    BY <1>4 DEF Pending
  <2>4. <<"cr">> \o <<>> = <<"cr">>
    OBVIOUS
  <2> QED BY <1>4, <2>1, <2>2, <2>3, <2>4 DEF Left
<1>10. Leads(s)'
  BY <1>2, <1>3, <1>4, <1>5, <1>9, LeadsOn
<1> QED
  BY <1>6, <1>7, <1>8, <1>10, GoesOn

\* The whole text is accepted, with the records that the parser has read.
LEMMA AcceptInv ==
  ASSUME NEW s, Same(s), s.ended, Whole!ReadAll(Start0, text).ok,
         Whole!ReadAll(Start0, text).records = s.records,
         Types', PendingOK', CallsOK', call' = "over", error' = "Ok",
         UNCHANGED <<config, text, fields>>
  PROVE  IInv'
<1>1. s.records \in Seq(Seq(Fields)) /\ s.record = <<>> /\ row_idx = Len(s.records)
      /\ fields = CallsFor(s.records) \o Row(row_idx, s.record)
  BY DEF Same, State
<1>2. PICK n \in Nat : n = row_idx
  BY <1>1
<1>3. Row(n, <<>>) = <<>>
  <2>1. PICK e \in Seq(Fields) : e = <<>>
    BY EmptySeq
  <2>2. PICK v \in Seq(Call) : v = Row(n, e) /\ Len(v) = Len(e)
    BY <1>2, RowType
  <2>3. Len(v) = 0
    BY <2>1, <2>2
  <2>4. v = <<>>
    BY <2>3, EmptySeq
  <2> QED BY <2>1, <2>2, <2>4
<1>4. fields = CallsFor(s.records)
  <2>1. PICK u \in Seq(Call) : u = CallsFor(s.records)
    BY <1>1, CallsType
  <2>2. u \o <<>> = u
    BY ConcatEmptySeq
  <2> QED BY <1>1, <1>2, <1>3, <2>1, <2>2
<1>5. PICK whole : whole = Whole!ReadAll(Start0, text)
  OBVIOUS
<1>6. whole = Whole!ReadAll(Start0, text)'
  BY <1>5 DEF Start0, config
<1> QED
  BY <1>4, <1>5, <1>6 DEF IInv, ChunkingInvisible, Start0

LEMMA EndOfChunkInv == IInv /\ EndOfChunk => IInv'
<1> SUFFICES ASSUME IInv, EndOfChunk PROVE IInv'
  OBVIOUS
<1>1. /\ Types /\ PendingOK /\ CallsOK /\ Running /\ rest = <<>> /\ ~newlining /\ ~escaping
  BY DEF IInv, EndOfChunk
<1>2. PICK s : Same(s) /\ Leads(s)
  BY <1>1 DEF IInv, Running
<1>3. UNCHANGED <<config, current_field, position, quoted, separators, suspended,
                  rest, fields, text, error>>
  BY DEF EndOfChunk, Return
<1>4. call' = IF call = "closing" THEN "over" ELSE "none"
  BY DEF EndOfChunk, Return
<1>5. Types'
  BY <1>1, <1>3, <1>4 DEF Types, config, position, separators, suspended
<1>6. PendingOK' /\ CallsOK'
  BY <1>1, <1>3, <1>4 DEF PendingOK, CallsOK, suspended, Running
<1>7. CASE call = "closing"
  <2>1. s.ended /\ s.ok /\ error = "Ok"
    BY <1>1, <1>2, <1>7 DEF Same, CallsOK
  <2>2. Left = <<>>
    BY <1>1, NothingPending
  <2>3. Fold(s, Left) = s
    BY <2>2, FoldEmpty
  <2>4. PICK whole : whole = Whole!ReadAll(Start0, text)
    OBVIOUS
  <2>5. whole.ok /\ whole.records = s.records
    BY <1>2, <1>7, <2>1, <2>3, <2>4 DEF Leads
  <2> QED BY <1>2, <1>3, <1>4, <1>5, <1>6, <1>7, <2>1, <2>4, <2>5, AcceptInv
<1>8. CASE call # "closing"
  <2>1. Same(s)'
    BY <1>2, <1>3 DEF Same, Stale, config, position, separators
  <2>2. Left' = Left
    BY <1>3 DEF Left, Pending, config, suspended
  <2>3. Leads(s)'
    BY <1>2, <1>3, <1>4, <1>8, <2>2, LeadsOn
  <2> QED BY <1>4, <1>5, <1>6, <1>8, <2>1, <2>3, GoesOn
<1> QED
  BY <1>7, <1>8

LEMMA FinishInv == IInv /\ Finish => IInv'
<1> SUFFICES ASSUME IInv, Finish PROVE IInv'
  OBVIOUS
<1>1. /\ Types /\ PendingOK /\ CallsOK /\ call = "none" /\ rest = <<>> /\ error = "Ok"
  BY DEF IInv, Finish, CallsOK
<1>2. PICK s : Same(s) /\ Leads(s)
  BY <1>1 DEF IInv
<1>3. UNCHANGED <<config, current_field, position, quoted, separators, suspended, fields, text>>
  BY DEF Finish
<1>4. s \in State /\ s.ok /\ Fold(s, Left) = Fold(Start0, text)
  BY <1>1, <1>2 DEF Same, Leads
<1>5. PICK a : a = Fold(s, Left)
  OBVIOUS
<1>6. Whole!ReadAll(Start0, text) = Whole!End(a)
  BY <1>4, <1>5 DEF Whole!ReadAll, Fold
<1>7. Left = Pending
  <2>1. Pending \in Seq(Chars)
    BY <1>1, LeftType
  <2>2. Pending \o <<>> = Pending
    BY <2>1, ConcatEmptySeq
  <2> QED BY <1>1, <2>2 DEF Left
<1>8. ASSUME NEW c \in Chars PROVE Fold(s, <<c>>) = Read(s, c)
  <2>1. PICK e \in Seq(Chars) : e = <<>>
    BY EmptySeq
  <2>2. <<c>> \o e = <<c>>
    BY <2>1
  <2>3. Fold(s, <<c>> \o e) = Fold(Read(s, c), e)
    BY FoldFirst
  <2> QED BY <2>1, <2>2, <2>3, FoldEmpty
<1>9. CASE quoted
  <2>1. call' = "over" /\ error' = "QuoteNotClosed" /\ UNCHANGED rest
    BY <1>9 DEF Finish, Fail
  <2>2. Types' /\ PendingOK' /\ CallsOK'
    BY <1>1, <1>3, <2>1 DEF Types, PendingOK, CallsOK, config, position, separators, suspended
  <2>3. ~a.ended /\ a.mode \in {"in", "esc"}
    <3>1. s.mode = "in" /\ ~s.ended /\ s.escape = escape /\ ~newlining
      BY <1>1, <1>2, <1>9 DEF Same, PendingOK
    <3>2. CASE escaping
      <4>1. PICK c \in Chars : c = escape
        BY <1>1 DEF Types, Chars
      <4>2. a = Read(s, c)
        BY <1>5, <1>7, <1>8, <3>1, <3>2, <4>1 DEF Pending
      <4>3. a = [s EXCEPT !.mode = "esc"]
        BY <1>4, <3>1, <4>1, <4>2 DEF Read, Whole!ReadChar, Whole!ReadAny, Whole!ReadIn
      <4> QED BY <1>4, <3>1, <4>3 DEF State
    <3>3. CASE ~escaping
      <4>1. a = s
        BY <1>5, <1>7, <3>1, <3>3, FoldEmpty DEF Pending
      <4> QED BY <3>1, <4>1
    <3> QED BY <3>2, <3>3
  <2>4. ~Whole!End(a).ok
    <3>1. CASE ~a.ok
      BY <3>1 DEF Whole!End
    <3>2. CASE a.ok
      <4>1. Whole!End(a) = [a EXCEPT !.ok = FALSE]
        BY <2>3, <3>2 DEF Whole!End
      <4>2. PICK e : e = [s EXCEPT !.mode = "esc"]
        OBVIOUS
      <4> QED BY <4>1
    <3> QED BY <3>1, <3>2
  <2>5. PICK whole : whole = Whole!ReadAll(Start0, text)
    OBVIOUS
  <2>6. whole = Whole!ReadAll(Start0, text)'
    BY <1>3, <2>5 DEF Start0, config
  <2>7. ~whole.ok
    BY <1>6, <2>4, <2>5
  <2> QED BY <2>1, <2>2, <2>6, <2>7 DEF IInv, ChunkingInvisible, Start0
<1>10. CASE ~quoted /\ Closing
  <2>1. call' = "closing" /\ rest' = (IF newlining THEN <<>> ELSE <<"lf">>) /\ UNCHANGED error
    BY <1>10 DEF Finish
  <2>2. s.mode = "out" /\ ~escaping
    BY <1>1, <1>2, <1>10 DEF Same, PendingOK
  <2>3. PICK t : t = Whole!EndRecord(s, "out")
    OBVIOUS
  <2>4. /\ t \in State /\ Read(s, "lf") = t
        /\ Read(s, "cr").ok = t.ok /\ Read(s, "cr").records = t.records
    BY <1>4, <2>2, <2>3, CarriageReturn
  <2>5. Types'
    <3>1. <<"lf">> \in Seq(Chars) /\ <<>> \in Seq(Chars)
      BY EmptySeq DEF Chars
    <3>2. rest' \in Seq(Chars) /\ call' \in {"none", "execute", "closing", "over"}
      BY <2>1, <3>1
    <3> QED BY <1>1, <1>3, <3>2 DEF Types, config, position, separators, suspended
  <2>6. PendingOK' /\ CallsOK' /\ call' # "over"
    BY <1>1, <1>3, <1>10, <2>1 DEF PendingOK, CallsOK, Closing, suspended, separators
  <2>7. Same(s)'
    BY <1>2, <1>3 DEF Same, Stale, config, position, separators
  <2>8. PICK whole : whole = Whole!ReadAll(Start0, text)
    OBVIOUS
  <2>9. whole = Whole!ReadAll(Start0, text)'
    BY <1>3, <2>8 DEF Start0, config
  <2>10. Fold(s, Left').ok = whole.ok /\ (Fold(s, Left').ok => Fold(s, Left').records = whole.records)
    <3>1. CASE newlining
      <4>1. Left' = <<"cr">> \o <<>> /\ <<"cr">> \o <<>> = <<"cr">>
        BY <1>3, <2>1, <3>1 DEF Left, Pending, suspended
      <4>2. a = Read(s, "cr")
        BY <1>5, <1>7, <1>8, <3>1 DEF Pending, Chars
      <4>3. Fold(s, Left') = a
        BY <1>8, <4>1, <4>2 DEF Chars
      <4>4. Whole!End(a) = a
        <5>1. CASE ~a.ok
          BY <5>1 DEF Whole!End
        <5>2. CASE a.ok
          <6>1. a = Whole!EndRecord(s, "cr")
            BY <1>4, <2>2, <4>2 DEF Read, Whole!ReadChar, Whole!ReadAny, Whole!ReadOut
          <6>2. PICK record \in Seq(Fields) : Ended(s, "cr", a, record)
            BY <1>4, <5>2, <6>1, EndsWell
          <6>3. a.ended = TRUE
            BY <1>4, <6>2 DEF Ended, State
          <6> QED BY <6>3 DEF Whole!End
        <5> QED BY <5>1, <5>2
      <4> QED BY <1>6, <2>8, <4>3, <4>4
    <3>2. CASE ~newlining
      <4>1. ~s.ended
        BY <1>2, <1>10, <3>2 DEF Same, Closing
      <4>2. a = s
        BY <1>5, <1>7, <2>2, <3>2, FoldEmpty DEF Pending
      <4>3. whole = t
        BY <1>4, <1>6, <2>2, <2>3, <2>8, <4>1, <4>2 DEF Whole!End
      <4>4. Left' = <<>> \o <<"lf">> /\ <<>> \o <<"lf">> = <<"lf">>
        BY <1>3, <2>1, <2>2, <3>2 DEF Left, Pending, suspended
      <4>5. Fold(s, Left') = t
        BY <1>8, <2>4, <4>4 DEF Chars
      <4> QED BY <4>3, <4>5
    <3> QED BY <3>1, <3>2
  <2>11. Leads(s)'
    BY <2>1, <2>9, <2>10 DEF Leads
  <2> QED BY <2>5, <2>6, <2>7, <2>11, GoesOn
<1>11. CASE ~quoted /\ ~Closing
  <2>1. call' = "over" /\ UNCHANGED <<rest, error>>
    BY <1>11 DEF Finish
  <2>2. Types' /\ PendingOK' /\ CallsOK'
    BY <1>1, <1>3, <2>1 DEF Types, PendingOK, CallsOK, config, position, separators, suspended
  <2>3. s.ended /\ ~newlining /\ ~escaping
    BY <1>1, <1>2, <1>11 DEF Same, Closing, PendingOK
  <2>4. a = s
    BY <1>5, <1>7, <2>3, FoldEmpty DEF Pending
  <2>5. Whole!End(a) = s
    BY <2>3, <2>4 DEF Whole!End
  <2> QED BY <1>1, <1>2, <1>3, <1>4, <1>6, <2>1, <2>2, <2>3, <2>5, AcceptInv
<1> QED
  BY <1>9, <1>10, <1>11

LEMMA ExecuteInv ==
  ASSUME IInv, NEW n \in 1 .. MaxChunk, NEW chunk \in [1 .. n -> Chars], Execute(chunk)
  PROVE  IInv'
<1>1. chunk \in Seq(Chars) /\ chunk # <<>>
  <2>1. n \in Nat /\ n # 0
    BY BoundsAssumption
  <2>2. chunk \in Seq(Chars)
    BY <2>1, SeqDef
  <2>3. Len(chunk) = n
    BY <2>1, <2>2, LenProperties
  <2> QED BY <2>1, <2>2, <2>3
<1>2. Types /\ PendingOK /\ CallsOK /\ call = "none" /\ rest = <<>>
  BY DEF IInv, Execute, CallsOK
<1>3. PICK s : Same(s) /\ Leads(s)
  BY <1>2 DEF IInv
<1>4. call' = "execute" /\ rest' = chunk /\ text' = text \o chunk
  BY DEF Execute
<1>5. UNCHANGED <<config, current_field, position, quoted, separators, suspended, error, fields>>
  BY DEF Execute
<1>6. Types'
  <2>1. text' \in Seq(Chars) /\ rest' \in Seq(Chars)
    BY <1>1, <1>2, <1>4 DEF Types
  <2> QED BY <1>2, <1>4, <1>5, <2>1 DEF Types, config, position, separators, suspended
<1>7. PendingOK' /\ CallsOK' /\ call' # "over"
  BY <1>1, <1>2, <1>4, <1>5 DEF PendingOK, CallsOK, suspended
<1>8. Same(s)'
  BY <1>3, <1>5 DEF Same, Stale, config, position, separators
<1>9. PICK p \in Seq(Chars), w \in Seq(Chars) : p = Pending /\ w = text
  BY <1>2, LeftType DEF Types
<1>10. Left = p /\ Left' = p \o chunk
  <2>1. p \o <<>> = p
    BY ConcatEmptySeq
  <2>2. Pending' = Pending
    BY <1>5 DEF Pending, suspended, config
  <2> QED BY <1>2, <1>4, <1>9, <2>1, <2>2 DEF Left
<1>11. PICK b : b = Start0
  OBVIOUS
<1>12. b = Start0'
  BY <1>5, <1>11 DEF Start0, config
<1>13. Fold(s, p) = Fold(b, w)
  BY <1>2, <1>3, <1>9, <1>10, <1>11 DEF Leads
<1>14. Fold(s, p \o chunk) = Fold(b, w \o chunk)
  BY <1>1, <1>13, FoldConcat
<1>15. Leads(s)'
  BY <1>4, <1>9, <1>10, <1>12, <1>14 DEF Leads
<1> QED
  BY <1>6, <1>7, <1>8, <1>15, GoesOn

LEMMA StutterInv == IInv /\ UNCHANGED vars => IInv'
<1> SUFFICES ASSUME IInv, UNCHANGED vars PROVE IInv'
  OBVIOUS
<1>1. UNCHANGED <<config, current_field, position, quoted, separators, suspended,
                  call, rest, error, fields, text>>
  BY DEF vars
<1>2. Types' /\ PendingOK' /\ CallsOK'
  BY <1>1 DEF IInv, Types, PendingOK, CallsOK, config, position, separators, suspended
<1>3. ChunkingInvisible'
  BY <1>1 DEF IInv, ChunkingInvisible, config
<1>4. ASSUME call # "over" PROVE IInv'
  <2>1. PICK s : Same(s) /\ Leads(s)
    BY <1>4 DEF IInv
  <2>2. Same(s)'
    BY <1>1, <2>1 DEF Same, Stale, config, position, separators
  <2>3. Left' = Left
    BY <1>1 DEF Left, Pending, suspended, config
  <2>4. Leads(s)'
    BY <1>1, <2>1, <2>3, LeadsOn
  <2> QED BY <1>1, <1>2, <1>4, <2>2, <2>4, GoesOn
<1> QED
  BY <1>1, <1>2, <1>3, <1>4 DEF IInv

\* The parser is always where CSVSpec is after the characters it has used, those
\* it has put off coming first in what is left (execute, finish).
THEOREM Invariant == Spec => []IInv
<1>1. IInv /\ [Next]_vars => IInv'
  <2> SUFFICES ASSUME IInv, [Next]_vars PROVE IInv'
    OBVIOUS
  <2>1. CASE \E n \in 1 .. MaxChunk :
               /\ Len(text) + n <= MaxText
               /\ \E chunk \in [1 .. n -> Chars] : Execute(chunk)
    BY <2>1, ExecuteInv
  <2>2. CASE ResumeEscaping
    BY <2>2, ResumeEscapingInv
  <2>3. CASE ResumeNewlining
    BY <2>3, ResumeNewliningInv
  <2>4. CASE ReadPlain
    BY <2>4, ReadPlainInv
  <2>5. CASE ReadComma
    BY <2>5, ReadCommaInv
  <2>6. CASE ReadSeparator
    BY <2>6, ReadSeparatorInv
  <2>7. CASE ReadQuote
    BY <2>7, ReadQuoteInv
  <2>8. CASE ReadEscape
    BY <2>8, ReadEscapeInv
  <2>9. CASE SuspendNewlining
    BY <2>9, SuspendNewliningInv
  <2>10. CASE SuspendEscaping
    BY <2>10, SuspendEscapingInv
  <2>11. CASE EndOfChunk
    BY <2>11, EndOfChunkInv
  <2>12. CASE Finish
    BY <2>12, FinishInv
  <2>13. CASE Over \/ UNCHANGED vars
    BY <2>13, StutterInv DEF Over
  <2> QED BY <2>1, <2>2, <2>3, <2>4, <2>5, <2>6, <2>7, <2>8, <2>9, <2>10, <2>11, <2>12,
             <2>13 DEF Next, Turn
<1> QED
  BY InitInv, <1>1, PTL DEF Spec

\* However the text was cut into chunks, the parser accepts it exactly if it is
\* accepted as a whole, and has handed out the same fields (execute, finish).
THEOREM ChunksDoNotMatter == Spec => []ChunkingInvisible
<1>1. IInv => ChunkingInvisible
  BY DEF IInv
<1> QED
  BY Invariant, <1>1, PTL
=============================================================================
