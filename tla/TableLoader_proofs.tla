------------------------- MODULE TableLoader_proofs -------------------------
(***************************************************************************)
(* Proofs about TableLoader, for pages and bytes of any size, any types,   *)
(* statements and files, and any calls: the types of its state, the pages  *)
(* that ColumnInserter writes, and that from_csv implements TableSpec.     *)
(*                                                                         *)
(* The parts that the argument rests on come first: the records chosen as  *)
(* a list that grows row by row; statements, by induction over their       *)
(* height; bytes and bits; the InnerTable as the list of its records; the  *)
(* bitmap of a statement as the set of rows that it accepts; pages as the  *)
(* list of the values inserted.                                            *)
(***************************************************************************)
EXTENDS TableLoader, Pages_proofs
-----------------------------------------------------------------------------
(* The records that a filter chooses.                                      *)

\* The function in Chosen: what is chosen from the first n records.
Chooses(chosen, records, f) ==
  chosen = [n \in 0 .. Len(records) |->
              IF n = 0 THEN <<>>
              ELSE IF Accepted(f, records[n]) THEN Append(chosen[n - 1], records[n])
              ELSE chosen[n - 1]]

ChosenFrom(records, f) == CHOOSE chosen : Chooses(chosen, records, f)

\* What is chosen from all records is what is chosen from the last prefix.
LEMMA ChosenIs ==
  ASSUME NEW records, NEW f
  PROVE  Tables!Chosen(records, f) = ChosenFrom(records, f)[Len(records)]
BY DEF Tables!Chosen, ChosenFrom, Chooses

\* The recursion of Chosen has a solution.
LEMMA ChosenExists ==
  ASSUME NEW records, Len(records) \in Nat, NEW f
  PROVE  \E g : Chooses(g, records, f)
<1> PICK N \in Nat : N = Len(records)
  OBVIOUS
<1> DEFINE body(g, n) == IF n = 0 THEN <<>>
                         ELSE IF Accepted(f, records[n]) THEN Append(g[n - 1], records[n])
                         ELSE g[n - 1]
           T == { k \in Nat : \E g : \A n \in 0 .. N : n < k => g[n] = body(g, n) }
<1>1. 0 \in T
  OBVIOUS
<1>2. ASSUME NEW k \in Nat, k \in T
      PROVE  k + 1 \in T
  <2>1. PICK g : \A n \in 0 .. N : n < k => g[n] = body(g, n)
    BY <1>2
  <2>2. PICK h : h = [n \in 0 .. N |-> body(g, n)]
    OBVIOUS
  <2>3. ASSUME NEW n \in 0 .. N, n < k + 1
        PROVE  h[n] = body(h, n)
    <3>1. CASE n = 0
      BY <2>2, <3>1
    <3>2. CASE n # 0
      <4>1. n - 1 \in 0 .. N /\ n - 1 < k
        BY <2>3, <3>2
      <4>2. h[n - 1] = g[n - 1]
        BY <2>1, <2>2, <4>1
      <4>3. h[n] = body(g, n)
        BY <2>2
      <4> QED BY <4>2, <4>3
    <3> QED BY <3>1, <3>2
  <2> HIDE DEF body
  <2> QED BY <2>3
<1> HIDE DEF T
<1>3. N + 1 \in T
  BY <1>1, <1>2, Induction
<1>4. PICK g : \A n \in 0 .. N : g[n] = body(g, n)
  <2>1. PICK g : \A n \in 0 .. N : n < N + 1 => g[n] = body(g, n)
    BY <1>3 DEF T
  <2> QED BY <2>1
<1>5. PICK h : h = [n \in 0 .. N |-> body(g, n)]
  OBVIOUS
<1>6. ASSUME NEW n \in 0 .. N PROVE h[n] = body(h, n)
  <2>1. h[n] = body(g, n)
    BY <1>5
  <2>2. n # 0 => n - 1 \in 0 .. N
    OBVIOUS
  <2>3. n # 0 => h[n - 1] = g[n - 1]
    BY <1>4, <1>5, <2>2
  <2> QED BY <2>1, <2>3
<1>7. h = [n \in 0 .. N |-> h[n]]
  BY <1>5
<1> HIDE DEF body
<1>8. h = [n \in 0 .. N |-> body(h, n)]
  BY <1>6, <1>7
<1>9. Chooses(h, records, f)
  BY <1>8 DEF body, Chooses
<1> QED
  BY <1>9

\* A record more: it is chosen if the filter accepts it.
LEMMA ChosenSteps ==
  ASSUME NEW records, Len(records) \in Nat, NEW f
  PROVE  /\ ChosenFrom(records, f)[0] = <<>>
         /\ \A n \in 0 .. Len(records) - 1 :
              ChosenFrom(records, f)[n + 1] =
                IF Accepted(f, records[n + 1])
                  THEN Append(ChosenFrom(records, f)[n], records[n + 1])
                  ELSE ChosenFrom(records, f)[n]
<1> PICK N \in Nat : N = Len(records)
  OBVIOUS
<1>1. \E g : Chooses(g, records, f)
  BY ChosenExists
<1>3. PICK c : c = ChosenFrom(records, f)
  OBVIOUS
<1>4. Chooses(c, records, f)
  BY <1>1, <1>3 DEF ChosenFrom
<1>5. c[0] = <<>>
  <2>1. 0 \in 0 .. N
    OBVIOUS
  <2> QED BY <1>4, <2>1 DEF Chooses
<1>6. ASSUME NEW n \in 0 .. N - 1
      PROVE  c[n + 1] = IF Accepted(f, records[n + 1]) THEN Append(c[n], records[n + 1]) ELSE c[n]
  <2>1. n + 1 \in 0 .. N /\ n + 1 # 0 /\ (n + 1) - 1 = n
    OBVIOUS
  <2> QED BY <1>4, <2>1 DEF Chooses
<1> QED
  BY <1>3, <1>5, <1>6

\* Records of a value per column.
AreRecords(s) == IsSequence(s) /\ \A k \in DOMAIN s : s[k] = [c \in Columns |-> s[k][c]]

ColumnOf(s, c) == [k \in 1 .. Len(s) |-> s[k][c]]

\* A record more, a value more in each of its columns.
LEMMA ColumnGrows ==
  ASSUME NEW s, IsSequence(s), NEW record, NEW c
  PROVE  /\ IsSequence(ColumnOf(s, c)) /\ Len(ColumnOf(s, c)) = Len(s)
         /\ ColumnOf(<<>>, c) = <<>>
         /\ ColumnOf(Append(s, record), c) = Append(ColumnOf(s, c), record[c])
<1>1. PICK S : s \in Seq(S)
  BY DEF IsSequence
<1>2. PICK N \in Nat : N = Len(s)
  BY <1>1
<1>3. ASSUME NEW t, Len(t) \in Nat
      PROVE  IsSequence(ColumnOf(t, c)) /\ Len(ColumnOf(t, c)) = Len(t)
  <2> DEFINE f == ColumnOf(t, c)
             V == { t[k][c] : k \in 1 .. Len(t) }
  <2>1. f \in [1 .. Len(t) -> V]
    BY DEF ColumnOf
  <2> HIDE DEF f, V
  <2>2. f \in Seq(V) /\ Len(f) = Len(t)
    BY <1>3, <2>1
  <2> QED BY <2>2 DEF IsSequence, f
<1>4. ColumnOf(<<>>, c) = <<>>
  <2>1. Len(<<>>) = 0 /\ 1 .. 0 = {}
    OBVIOUS
  <2>2. PICK e : e = <<>>
    OBVIOUS
  <2>3. ColumnOf(e, c) = [k \in {} |-> e[k][c]]
    BY <2>1, <2>2 DEF ColumnOf
  <2> QED BY <2>2, <2>3
<1>5. PICK t, a, b : t = Append(s, record) /\ a = ColumnOf(t, c) /\ b = Append(ColumnOf(s, c), record[c])
  OBVIOUS
<1>6. /\ Len(t) = N + 1 /\ t[N + 1] = record
      /\ \A k \in 1 .. N : t[k] = s[k]
  BY <1>1, <1>2, <1>5
<1>7. PICK v : v = ColumnOf(s, c)
  OBVIOUS
<1>8. IsSequence(v) /\ Len(v) = N /\ IsSequence(a) /\ Len(a) = N + 1
  <2>1. IsSequence(v) /\ Len(v) = N
    BY <1>2, <1>3, <1>7
  <2>2. IsSequence(a) /\ Len(a) = Len(t)
    <3>1. Len(t) \in Nat
      BY <1>6
    <3> QED BY <1>3, <1>5, <3>1
  <2> QED BY <1>6, <2>1, <2>2
<1>9. /\ Len(b) = N + 1 /\ IsSequence(b) /\ b[N + 1] = record[c]
      /\ \A k \in 1 .. N : b[k] = v[k]
  <2>1. PICK V : v \in Seq(V)
    BY <1>8 DEF IsSequence
  <2>2. v \in Seq(V \cup {record[c]}) /\ b = Append(v, record[c])
    BY <1>5, <1>7, <2>1
  <2>3. b \in Seq(V \cup {record[c]})
    BY <2>2
  <2> QED BY <1>8, <2>2, <2>3 DEF IsSequence
<1>10. ASSUME NEW k \in 1 .. N + 1 PROVE a[k] = b[k]
  <2>1. a[k] = t[k][c]
    BY <1>5, <1>6 DEF ColumnOf
  <2>2. CASE k = N + 1
    BY <1>6, <1>9, <2>1, <2>2
  <2>3. CASE k \in 1 .. N
    <3>1. v[k] = s[k][c]
      BY <1>2, <1>7, <2>3 DEF ColumnOf
    <3> QED BY <1>6, <1>9, <2>1, <2>3, <3>1
  <2> QED BY <2>2, <2>3
<1>11. a = b
  <2>1. PICK A : a \in Seq(A)
    BY <1>8 DEF IsSequence
  <2>2. PICK B : b \in Seq(B)
    BY <1>9 DEF IsSequence
  <2>3. a = [k \in 1 .. N + 1 |-> a[k]] /\ b = [k \in 1 .. N + 1 |-> b[k]]
    BY <1>8, <1>9, <2>1, <2>2
  <2> QED BY <1>10, <2>3
<1> QED
  BY <1>2, <1>3, <1>4, <1>5, <1>11

\* Rows are counted from 0.
Rows(records, f, n) == { i \in 0 .. n - 1 : Accepted(f, records[i + 1]) }

\* How many records are accepted, row by row.
LEMMA OneMoreRow ==
  ASSUME NEW records, NEW f, NEW n \in Nat
  PROVE  /\ IsFiniteSet(Rows(records, f, n)) /\ Cardinality(Rows(records, f, n)) \in Nat
         /\ Cardinality(Rows(records, f, n + 1)) =
              Cardinality(Rows(records, f, n)) + (IF Accepted(f, records[n + 1]) THEN 1 ELSE 0)
<1> DEFINE A(m) == Rows(records, f, m)
<1>1. IsFiniteSet(A(n)) /\ Cardinality(A(n)) \in Nat
  <2>1. 0 \in Int /\ n - 1 \in Int
    OBVIOUS
  <2>2. IsFiniteSet(0 .. n - 1) /\ A(n) \subseteq 0 .. n - 1
    BY <2>1, FS_Interval DEF Rows
  <2> QED BY <2>2, FS_Subset, FS_CardinalityType
<1>2. A(n + 1) = IF Accepted(f, records[n + 1]) THEN A(n) \cup {n} ELSE A(n)
  <2>1. \A j : j \in 0 .. (n + 1) - 1 <=> j \in 0 .. n - 1 \/ j = n
    OBVIOUS
  <2> QED BY <2>1 DEF Rows
<1>3. n \notin A(n)
  BY DEF Rows
<1> HIDE DEF A
<1>4. Cardinality(A(n) \cup {n}) = Cardinality(A(n)) + 1
  BY <1>1, <1>3, FS_AddElement
<1>5. Cardinality(A(n + 1)) = Cardinality(A(n)) + (IF Accepted(f, records[n + 1]) THEN 1 ELSE 0)
  BY <1>1, <1>2, <1>4
<1> QED
  BY <1>1, <1>5 DEF A

\* What is chosen are records, and as many as there are rows of them.
LEMMA ChosenRecords ==
  ASSUME NEW records, AreRecords(records), NEW f, NEW n \in 0 .. Len(records)
  PROVE  /\ AreRecords(ChosenFrom(records, f)[n])
         /\ Len(ChosenFrom(records, f)[n]) = Cardinality(Rows(records, f, n))
<1>1. PICK N \in Nat : N = Len(records) /\ DOMAIN records = 1 .. N
  BY DEF AreRecords, IsSequence
<1>2. PICK c : c = ChosenFrom(records, f)
  OBVIOUS
<1> DEFINE T == { m \in Nat : m <= N =>
                    AreRecords(c[m]) /\ Len(c[m]) = Cardinality(Rows(records, f, m)) }
<1>3. 0 \in T
  <2>1. c[0] = <<>>
    BY <1>1, <1>2, ChosenSteps
  <2>2. AreRecords(<<>>) /\ Len(<<>>) = 0
    BY DEF AreRecords, IsSequence
  <2>3. Rows(records, f, 0) = {}
    BY DEF Rows
  <2> QED BY <2>1, <2>2, <2>3, FS_EmptySet
<1>4. ASSUME NEW m \in Nat, m \in T PROVE m + 1 \in T
  <2> SUFFICES ASSUME m + 1 <= N
               PROVE  AreRecords(c[m + 1]) /\ Len(c[m + 1]) = Cardinality(Rows(records, f, m + 1))
    OBVIOUS
  <2>1. AreRecords(c[m]) /\ Len(c[m]) = Cardinality(Rows(records, f, m))
    BY <1>4
  <2>2. m \in 0 .. N - 1 /\ m + 1 \in 1 .. N
    OBVIOUS
  <2>3. PICK r : r = records[m + 1] /\ r = [d \in Columns |-> r[d]]
    BY <1>1, <2>2 DEF AreRecords
  <2>4. c[m + 1] = IF Accepted(f, r) THEN Append(c[m], r) ELSE c[m]
    <3>1. c[m + 1] = IF Accepted(f, records[m + 1]) THEN Append(c[m], records[m + 1]) ELSE c[m]
      BY <1>1, <1>2, <2>2, ChosenSteps
    <3> QED BY <2>3, <3>1
  <2>5. PICK s : s = c[m]
    OBVIOUS
  <2>6. PICK t : t = Append(s, r)
    OBVIOUS
  <2>7. IsSequence(s) /\ \A k \in DOMAIN s : s[k] = [d \in Columns |-> s[k][d]]
    BY <2>1, <2>5 DEF AreRecords
  <2>8. IsSequence(t) /\ Len(t) = Len(s) + 1 /\ Len(s) \in Nat
    <3>1. PICK S : s \in Seq(S)
      BY <2>7 DEF IsSequence
    <3> QED BY <2>6, <2>7, <3>1, SequenceLaws
  <2>9. ASSUME NEW k \in DOMAIN t PROVE t[k] = [d \in Columns |-> t[k][d]]
    <3>1. t[k] = r \/ (k \in DOMAIN s /\ t[k] = s[k])
      BY <2>6, <2>7, AppendMembers
    <3>2. CASE t[k] = r
      BY <2>3, <3>2
    <3>3. CASE k \in DOMAIN s /\ t[k] = s[k]
      BY <2>7, <3>3
    <3> QED BY <3>1, <3>2, <3>3
  <2>10. AreRecords(t)
    BY <2>8, <2>9 DEF AreRecords
  <2>11. Cardinality(Rows(records, f, m + 1)) =
           Cardinality(Rows(records, f, m)) + (IF Accepted(f, r) THEN 1 ELSE 0)
         /\ Cardinality(Rows(records, f, m)) \in Nat
    BY <2>3, OneMoreRow
  <2>12. CASE Accepted(f, r)
    BY <2>1, <2>4, <2>5, <2>6, <2>8, <2>10, <2>11, <2>12
  <2>13. CASE ~Accepted(f, r)
    BY <2>1, <2>4, <2>5, <2>11, <2>13
  <2> QED BY <2>12, <2>13
<1> HIDE DEF T
<1>5. n \in Nat /\ n <= N
  BY <1>1
<1>6. n \in T
  BY <1>3, <1>4, <1>5, Induction
<1> QED
  BY <1>2, <1>5, <1>6 DEF T
-----------------------------------------------------------------------------
(* Statements.                                                             *)

Operations == {"AND", "OR", "NOT"}

\* The recursive functions in EvalRecord and EvalColumns.
EvaluatesRecord(e, record) ==
  e = [s \in Statements |->
        CASE s.kind = "AND" -> e[s.left] /\ e[s.right]
          [] s.kind = "OR"  -> e[s.left] \/ e[s.right]
          [] s.kind = "NOT" -> ~e[s.left]
          [] OTHER          -> CompareRecord(s, record)]

EvaluatesColumns(e, columns) ==
  e = [s \in Statements |->
        CASE s.kind = "AND" -> bitmap_and(e[s.left], e[s.right])
          [] s.kind = "OR"  -> bitmap_or(e[s.left], e[s.right])
          [] s.kind = "NOT" -> bitmap_not(e[s.left])
          [] OTHER          -> EvalComparison(s, columns)]

\* A function with an equation for every statement, from the equations of its
\* operands.
LEMMA StatementInduction ==
  ASSUME NEW T, \A s \in Statements :
           (s.kind \in Operations => s.left \in T) /\ (s.kind \in {"AND", "OR"} => s.right \in T)
             => s \in T
  PROVE  \A s \in Statements : s \in T
<1>1. PICK height \in [Statements -> 0 .. Cardinality(Statements)] :
       \A s \in Statements :
         /\ s.kind \in {"AND", "OR", "NOT"} =>
              s.left \in Statements /\ height[s.left] < height[s]
         /\ s.kind \in {"AND", "OR"} =>
              s.right \in Statements /\ height[s.right] < height[s]
  BY StatementAssumption
<1>2. \A s \in Statements : height[s] \in Nat
  BY <1>1
<1> SUFFICES ASSUME NEW s \in Statements, s \notin T PROVE FALSE
  OBVIOUS
<1> DEFINE U == { height[t] : t \in { x \in Statements : x \notin T } }
<1>3. U \subseteq Nat /\ U # {}
  BY <1>2
<1>4. PICK m \in U : \A k \in U : m <= k
  BY <1>3, LeastNat
<1>5. PICK t \in Statements : t \notin T /\ m = height[t]
  BY <1>4
<1>6. ASSUME NEW x \in Statements, height[x] < height[t] PROVE x \in T
  <2> SUFFICES ASSUME x \notin T PROVE FALSE
    OBVIOUS
  <2>1. height[x] \in U
    OBVIOUS
  <2> HIDE DEF U
  <2>2. m <= height[x] /\ m = height[t] /\ height[x] \in Nat /\ height[t] \in Nat
    BY <1>2, <1>4, <1>5, <2>1
  <2> QED BY <1>6, <2>2
<1>7. t \in T
  BY <1>1, <1>5, <1>6 DEF Operations
<1> QED
  BY <1>5, <1>7

\* The recursions of the two evaluations have solutions, as operands are below
\* their operations.
LEMMA RecordEvaluates ==
  ASSUME NEW record
  PROVE  \E e : EvaluatesRecord(e, record)
<1>1. PICK height \in [Statements -> 0 .. Cardinality(Statements)] :
       \A s \in Statements :
         /\ s.kind \in {"AND", "OR", "NOT"} =>
              s.left \in Statements /\ height[s.left] < height[s]
         /\ s.kind \in {"AND", "OR"} =>
              s.right \in Statements /\ height[s.right] < height[s]
  BY StatementAssumption
<1>2. PICK M \in Nat : M = Cardinality(Statements)
  BY StatementAssumption, FS_CardinalityType
<1>3. \A s \in Statements : height[s] \in Nat /\ height[s] < M + 1
  BY <1>1, <1>2
<1> DEFINE body(e, s) ==
        CASE s.kind = "AND" -> e[s.left] /\ e[s.right]
          [] s.kind = "OR"  -> e[s.left] \/ e[s.right]
          [] s.kind = "NOT" -> ~e[s.left]
          [] OTHER          -> CompareRecord(s, record)
           T == { n \in Nat : \E e : \A s \in Statements : height[s] < n => e[s] = body(e, s) }
<1>4. ASSUME NEW e, NEW h, NEW s \in Statements,
             \A x \in Statements : height[x] < height[s] => e[x] = h[x]
      PROVE  body(e, s) = body(h, s)
  <2>1. s.kind \in {"AND", "OR", "NOT"} => e[s.left] = h[s.left]
    BY <1>1, <1>4
  <2>2. s.kind \in {"AND", "OR"} => e[s.right] = h[s.right]
    BY <1>1, <1>4
  <2> QED BY <2>1, <2>2
<1> HIDE DEF body
<1>5. 0 \in T
  BY <1>3
<1>6. ASSUME NEW n \in Nat, n \in T PROVE n + 1 \in T
  <2>1. PICK e : \A s \in Statements : height[s] < n => e[s] = body(e, s)
    BY <1>6
  <2>2. PICK h : h = [s \in Statements |-> body(e, s)]
    OBVIOUS
  <2>3. ASSUME NEW s \in Statements, height[s] < n + 1 PROVE h[s] = body(h, s)
    <3>1. ASSUME NEW x \in Statements, height[x] < height[s] PROVE e[x] = h[x]
      <4>1. height[x] < n
        BY <1>3, <2>3, <3>1
      <4> QED BY <2>1, <2>2, <4>1
    <3>2. body(e, s) = body(h, s)
      BY <1>4, <3>1
    <3> QED BY <2>2, <3>2
  <2> QED BY <2>3
<1> HIDE DEF T
<1>7. M + 1 \in T
  BY <1>5, <1>6, Induction
<1>8. PICK e : \A s \in Statements : height[s] < M + 1 => e[s] = body(e, s)
  BY <1>7 DEF T
<1>9. PICK h : h = [s \in Statements |-> e[s]]
  OBVIOUS
<1>10. ASSUME NEW s \in Statements PROVE h[s] = body(h, s)
  <2>1. h[s] = body(e, s)
    BY <1>3, <1>8, <1>9
  <2>2. body(e, s) = body(h, s)
    BY <1>4, <1>9
  <2> QED BY <2>1, <2>2
<1>11. h = [s \in Statements |-> h[s]]
  BY <1>9
<1>12. h = [s \in Statements |-> body(h, s)]
  BY <1>10, <1>11
<1>13. EvaluatesRecord(h, record)
  BY <1>12 DEF body, EvaluatesRecord
<1> QED
  BY <1>13
LEMMA ColumnsEvaluate ==
  ASSUME NEW columns
  PROVE  \E e : EvaluatesColumns(e, columns)
<1>1. PICK height \in [Statements -> 0 .. Cardinality(Statements)] :
       \A s \in Statements :
         /\ s.kind \in {"AND", "OR", "NOT"} =>
              s.left \in Statements /\ height[s.left] < height[s]
         /\ s.kind \in {"AND", "OR"} =>
              s.right \in Statements /\ height[s.right] < height[s]
  BY StatementAssumption
<1>2. PICK M \in Nat : M = Cardinality(Statements)
  BY StatementAssumption, FS_CardinalityType
<1>3. \A s \in Statements : height[s] \in Nat /\ height[s] < M + 1
  BY <1>1, <1>2
<1> DEFINE body(e, s) ==
        CASE s.kind = "AND" -> bitmap_and(e[s.left], e[s.right])
          [] s.kind = "OR"  -> bitmap_or(e[s.left], e[s.right])
          [] s.kind = "NOT" -> bitmap_not(e[s.left])
          [] OTHER          -> EvalComparison(s, columns)
           T == { n \in Nat : \E e : \A s \in Statements : height[s] < n => e[s] = body(e, s) }
<1>4. ASSUME NEW e, NEW h, NEW s \in Statements,
             \A x \in Statements : height[x] < height[s] => e[x] = h[x]
      PROVE  body(e, s) = body(h, s)
  <2>1. s.kind \in {"AND", "OR", "NOT"} => e[s.left] = h[s.left]
    BY <1>1, <1>4
  <2>2. s.kind \in {"AND", "OR"} => e[s.right] = h[s.right]
    BY <1>1, <1>4
  <2> QED BY <2>1, <2>2
<1> HIDE DEF body
<1>5. 0 \in T
  BY <1>3
<1>6. ASSUME NEW n \in Nat, n \in T PROVE n + 1 \in T
  <2>1. PICK e : \A s \in Statements : height[s] < n => e[s] = body(e, s)
    BY <1>6
  <2>2. PICK h : h = [s \in Statements |-> body(e, s)]
    OBVIOUS
  <2>3. ASSUME NEW s \in Statements, height[s] < n + 1 PROVE h[s] = body(h, s)
    <3>1. ASSUME NEW x \in Statements, height[x] < height[s] PROVE e[x] = h[x]
      <4>1. height[x] < n
        BY <1>3, <2>3, <3>1
      <4> QED BY <2>1, <2>2, <4>1
    <3>2. body(e, s) = body(h, s)
      BY <1>4, <3>1
    <3> QED BY <2>2, <3>2
  <2> QED BY <2>3
<1> HIDE DEF T
<1>7. M + 1 \in T
  BY <1>5, <1>6, Induction
<1>8. PICK e : \A s \in Statements : height[s] < M + 1 => e[s] = body(e, s)
  BY <1>7 DEF T
<1>9. PICK h : h = [s \in Statements |-> e[s]]
  OBVIOUS
<1>10. ASSUME NEW s \in Statements PROVE h[s] = body(h, s)
  <2>1. h[s] = body(e, s)
    BY <1>3, <1>8, <1>9
  <2>2. body(e, s) = body(h, s)
    BY <1>4, <1>9
  <2> QED BY <2>1, <2>2
<1>11. h = [s \in Statements |-> h[s]]
  BY <1>9
<1>12. h = [s \in Statements |-> body(h, s)]
  BY <1>10, <1>11
<1>13. EvaluatesColumns(h, columns)
  BY <1>12 DEF body, EvaluatesColumns
<1> QED
  BY <1>13

\* The value of a statement, from the values of its operands.
LEMMA RecordSteps ==
  ASSUME NEW record, NEW s \in Statements
  PROVE  EvalRecord(s, record) =
           CASE s.kind = "AND" -> EvalRecord(s.left, record) /\ EvalRecord(s.right, record)
             [] s.kind = "OR"  -> EvalRecord(s.left, record) \/ EvalRecord(s.right, record)
             [] s.kind = "NOT" -> ~EvalRecord(s.left, record)
             [] OTHER          -> CompareRecord(s, record)
<1>1. PICK e : e = CHOOSE x : EvaluatesRecord(x, record)
  OBVIOUS
<1>2. EvaluatesRecord(e, record)
  BY <1>1, RecordEvaluates
<1>3. ASSUME NEW x PROVE EvalRecord(x, record) = e[x]
  BY <1>1 DEF EvalRecord, EvaluatesRecord
<1> QED
  BY <1>2, <1>3 DEF EvaluatesRecord

\* What they compute at a statement, from its operands.
LEMMA ColumnsSteps ==
  ASSUME NEW columns, NEW s \in Statements
  PROVE  EvalColumns(s, columns) =
           CASE s.kind = "AND" -> bitmap_and(EvalColumns(s.left, columns), EvalColumns(s.right, columns))
             [] s.kind = "OR"  -> bitmap_or(EvalColumns(s.left, columns), EvalColumns(s.right, columns))
             [] s.kind = "NOT" -> bitmap_not(EvalColumns(s.left, columns))
             [] OTHER          -> EvalComparison(s, columns)
<1>1. PICK e : e = CHOOSE x : EvaluatesColumns(x, columns)
  OBVIOUS
<1>2. EvaluatesColumns(e, columns)
  BY <1>1, ColumnsEvaluate
<1>3. ASSUME NEW x PROVE EvalColumns(x, columns) = e[x]
  BY <1>1 DEF EvalColumns, EvaluatesColumns
<1> QED
  BY <1>2, <1>3 DEF EvaluatesColumns
-----------------------------------------------------------------------------
(* Bytes and bits.                                                         *)

\* A number and its place in a byte.
LEMMA Remainder ==
  ASSUME NEW n \in Nat
  PROVE  /\ n % ByteBits \in 0 .. ByteBits - 1 /\ n \div ByteBits \in Nat
         /\ n = ByteBits * (n \div ByteBits) + (n % ByteBits)
<1>1. PICK B \in Nat \ {0} : B = ByteBits
  BY PageSizes
<1>2. n % B \in 0 .. B - 1 /\ n \div B \in Nat
  OBVIOUS
<1>3. n = B * (n \div B) + (n % B)
  OBVIOUS
<1> QED
  BY <1>1, <1>2, <1>3

\* A bit has one place.
LEMMA PlaceIsOne ==
  ASSUME NEW q \in Nat, NEW b \in 0 .. ByteBits - 1
  PROVE  /\ q * ByteBits + b \in Nat
         /\ (q * ByteBits + b) \div ByteBits = q /\ (q * ByteBits + b) % ByteBits = b
<1>1. PICK B \in Nat \ {0} : B = ByteBits
  BY PageSizes
<1>2. PICK n \in Nat : n = q * B + b
  BY <1>1
<1>3. PICK p \in Nat, r \in 0 .. B - 1 : p = n \div B /\ r = n % B /\ n = B * p + r
  BY <1>1, Remainder
<1>4. p = q
  <2>1. ASSUME NEW d \in Nat, p = q + 1 + d PROVE FALSE
    <3>1. B * (q + 1 + d) = q * B + B + B * d /\ B * d \in Nat
      OBVIOUS
    <3> QED BY <1>1, <1>2, <1>3, <2>1, <3>1
  <2>2. ASSUME NEW d \in Nat, q = p + 1 + d PROVE FALSE
    <3>1. (p + 1 + d) * B = B * p + B + B * d /\ B * d \in Nat
      OBVIOUS
    <3> QED BY <1>1, <1>2, <1>3, <2>2, <3>1
  <2>3. p < q => q - p - 1 \in Nat /\ q = p + 1 + (q - p - 1)
    OBVIOUS
  <2>4. q < p => p - q - 1 \in Nat /\ p = q + 1 + (p - q - 1)
    OBVIOUS
  <2> QED BY <2>1, <2>2, <2>3, <2>4
<1>5. r = b
  BY <1>1, <1>2, <1>3, <1>4
<1> QED
  BY <1>1, <1>2, <1>3, <1>4, <1>5

\* A bitmap of n bits: whole bytes, and perhaps a part of one.
LEMMA BytesAre ==
  ASSUME NEW n \in Nat
  PROVE  /\ Bytes(n) = n \div ByteBits + (IF n % ByteBits = 0 THEN 0 ELSE 1)
         /\ Bytes(n) \in Nat
<1>1. PICK B \in Nat \ {0} : B = ByteBits
  BY PageSizes
<1>2. PICK q \in Nat, m \in 0 .. B - 1 : q = n \div B /\ m = n % B /\ n = B * q + m
  BY <1>1, Remainder
<1>3. CASE m = 0
  <2>1. n + B - 1 = q * B + (B - 1) /\ B - 1 \in 0 .. B - 1
    BY <1>2, <1>3
  <2>2. (n + B - 1) \div B = q
    BY <1>1, <2>1, PlaceIsOne
  <2> QED BY <1>1, <1>2, <1>3, <2>2 DEF Bytes
<1>4. CASE m # 0
  <2>1. n + B - 1 = (q + 1) * B + (m - 1) /\ m - 1 \in 0 .. B - 1 /\ q + 1 \in Nat
    BY <1>2, <1>4
  <2>2. (n + B - 1) \div B = q + 1
    BY <1>1, <2>1, PlaceIsOne
  <2> QED BY <1>1, <1>2, <1>4, <2>2 DEF Bytes
<1> QED
  BY <1>3, <1>4

\* The byte of a row is one of the bitmap.
LEMMA RowInBytes ==
  ASSUME NEW n \in Nat, NEW i \in 0 .. n - 1
  PROVE  i \div ByteBits \in Nat /\ i \div ByteBits + 1 \in 1 .. Bytes(n)
<1>1. PICK B \in Nat \ {0} : B = ByteBits
  BY PageSizes
<1>2. PICK q \in Nat, m \in 0 .. B - 1 : q = n \div B /\ m = n % B /\ n = B * q + m
  BY <1>1, Remainder
<1>3. PICK p \in Nat, r \in 0 .. B - 1 : p = i \div B /\ r = i % B /\ i = B * p + r
  BY <1>1, Remainder
<1>4. Bytes(n) = q + (IF m = 0 THEN 0 ELSE 1)
  BY <1>1, <1>2, BytesAre
<1>5. p <= q
  <2>1. ASSUME NEW d \in Nat, p = q + 1 + d PROVE FALSE
    <3>1. B * (q + 1 + d) = B * q + B + B * d /\ B * d \in Nat
      OBVIOUS
    <3> QED BY <1>2, <1>3, <2>1, <3>1
  <2>4. q < p => p - q - 1 \in Nat /\ p = q + 1 + (p - q - 1)
    OBVIOUS
  <2> QED BY <2>1, <2>4
<1>6. p = q => r < m
  BY <1>2, <1>3
<1> QED
  BY <1>1, <1>3, <1>4, <1>5, <1>6
-----------------------------------------------------------------------------
(* Bitmaps of rows.                                                        *)

BitmapOK(bitmap, n) ==
  bitmap \in Seq(SUBSET (0 .. ByteBits - 1)) /\ Len(bitmap) = Bytes(n)

Bit(bitmap, i) == i % ByteBits \in bitmap[i \div ByteBits + 1]

\* The bit of a new row, which leaves the others alone.
LEMMA PushBitOK ==
  ASSUME NEW bitmap, NEW n \in Nat, BitmapOK(bitmap, n), NEW set \in BOOLEAN,
         NEW new, new = PushBit(bitmap, n, set)
  PROVE  /\ BitmapOK(new, n + 1)
         /\ \A i \in 0 .. n - 1 : Bit(new, i) <=> Bit(bitmap, i)
         /\ Bit(new, n) <=> set
<1>1. PICK B \in Nat \ {0} : B = ByteBits
  BY PageSizes
<1>2. PICK q \in Nat, m \in 0 .. B - 1 : q = n \div B /\ m = n % B /\ n = B * q + m
  BY <1>1, Remainder
<1> DEFINE S == SUBSET (0 .. B - 1)
<1>3. /\ bitmap \in Seq(S) /\ Len(bitmap) = q + (IF m = 0 THEN 0 ELSE 1)
  BY <1>1, <1>2, BytesAre DEF BitmapOK
<1>4. Bytes(n + 1) = q + 1
  BY <1>1, <1>2, BytesOfRows
<1>5. ASSUME NEW i \in 0 .. n - 1
      PROVE  /\ i \div B + 1 \in 1 .. Len(bitmap)
             /\ i \div B = q => i % B # m
  <2>1. i \div B + 1 \in 1 .. Len(bitmap)
    BY <1>1, RowInBytes DEF BitmapOK
  <2>2. i = B * (i \div B) + (i % B)
    BY <1>1, Remainder
  <2>3. i # n
    OBVIOUS
  <2>4. i \div B = q /\ i % B = m => i = B * q + m
    BY <2>2
  <2> QED BY <1>2, <2>1, <2>3, <2>4
<1>6. CASE m = 0
  <2>1. q + 1 > Len(bitmap)
    BY <1>3, <1>6
  <2>2. PICK x : x = IF set THEN {0} ELSE {}
    OBVIOUS
  <2>3. new = Append(bitmap, x) /\ x \in S
    BY <1>1, <1>2, <2>1, <2>2 DEF PushBit
  <2> HIDE DEF S
  <2>4. /\ new \in Seq(S) /\ Len(new) = q + 1 /\ new[q + 1] = x
        /\ \A j \in 1 .. Len(bitmap) : new[j] = bitmap[j]
    BY <1>3, <1>6, <2>3
  <2>5. BitmapOK(new, n + 1)
    BY <1>1, <1>4, <2>4 DEF BitmapOK, S
  <2>6. \A i \in 0 .. n - 1 : Bit(new, i) <=> Bit(bitmap, i)
    BY <1>1, <1>5, <2>4 DEF Bit
  <2>7. Bit(new, n) <=> set
    <3>1. n % ByteBits = 0 /\ new[n \div ByteBits + 1] = x
      BY <1>1, <1>2, <1>6, <2>4
    <3>2. 0 \in x <=> set
      BY <2>2
    <3> QED BY <3>1, <3>2 DEF Bit
  <2> QED BY <2>5, <2>6, <2>7
<1>7. CASE m # 0
  <2>1. ~(q + 1 > Len(bitmap)) /\ Len(bitmap) = q + 1
    BY <1>3, <1>7
  <2>2. PICK o : o = bitmap[q + 1]
    OBVIOUS
  <2>3. PICK x : x = IF set THEN o \cup {m} ELSE o \ {m}
    OBVIOUS
  <2>4. q + 1 \in 1 .. Len(bitmap)
    BY <2>1
  <2>5. o \in S
    BY <1>3, <2>2, <2>4
  <2>6. new = [bitmap EXCEPT ![q + 1] = x]
    BY <1>1, <1>2, <2>1, <2>2, <2>3 DEF PushBit
  <2>7. x \in S
    BY <2>3, <2>5
  <2> HIDE DEF S
  <2>8. /\ new \in Seq(S) /\ Len(new) = q + 1 /\ new[q + 1] = x
        /\ \A j \in 1 .. Len(bitmap) : j # q + 1 => new[j] = bitmap[j]
    BY <1>3, <2>1, <2>4, <2>6, <2>7
  <2>9. BitmapOK(new, n + 1)
    BY <1>1, <1>4, <2>8 DEF BitmapOK, S
  <2>10. ASSUME NEW i \in 0 .. n - 1
         PROVE  Bit(new, i) <=> Bit(bitmap, i)
    <3>1. CASE i \div B = q
      <4>1. i % B \in x <=> i % B \in o
        BY <1>5, <2>3, <3>1
      <4>2. new[i \div B + 1] = x /\ bitmap[i \div B + 1] = o
        BY <2>2, <2>8, <3>1
      <4> QED BY <1>1, <4>1, <4>2 DEF Bit
    <3>2. CASE i \div B # q
      <4>1. i \div B \in Nat
        BY <1>1, FullBytes
      <4>2. i \div B + 1 \in 1 .. Len(bitmap) /\ i \div B + 1 # q + 1
        <5>1. PICK j \in Nat : j = i \div B
          BY <4>1
        <5>2. j + 1 # q + 1
          BY <3>2, <5>1
        <5> QED BY <1>5, <5>1, <5>2
      <4>3. new[i \div B + 1] = bitmap[i \div B + 1]
        BY <2>8, <4>2
      <4> QED BY <1>1, <4>3 DEF Bit
    <3> QED BY <3>1, <3>2
  <2>11. Bit(new, n) <=> set
    <3>1. n % ByteBits = m /\ new[n \div ByteBits + 1] = x
      BY <1>1, <1>2, <2>8
    <3>2. m \in x <=> set
      BY <2>3
    <3> QED BY <3>1, <3>2 DEF Bit
  <2> QED BY <2>9, <2>10, <2>11
<1> QED
  BY <1>6, <1>7
-----------------------------------------------------------------------------
(* The InnerTable.                                                         *)

IsColumn(col) ==
  col = [data |-> col.data, offsets |-> col.offsets, bitmap |-> col.bitmap, row |-> col.row]

\* The value of a row.
RowValue(type, col, i) ==
  IF ~Bit(col.bitmap, i) THEN Null
  ELSE IF type = "INT32" THEN col.data[i + 1] ELSE get_string(col, i)

\* A column of so many rows; the last of its strings ends with the data, and only
\* rows without a bit are null.
Loaded(type, col, n) ==
  /\ IsColumn(col)
  /\ ColumnOK(type, col)
  /\ col.row = n
  /\ type # "INT32" => Len(col.data) = IF n = 0 THEN 0 ELSE col.offsets[n]
  /\ \A i \in 0 .. n - 1 : Bit(col.bitmap, i) => RowValue(type, col, i) # Null

\* push_back, of either type.
Pushed(type, col, v) ==
  IF type = "INT32" THEN push_back(col, v) ELSE push_back_string(col, v)

\* The value of a new row, which leaves the others alone.
LEMMA PushInt ==
  ASSUME NEW n \in Nat, NEW col, Loaded("INT32", col, n), NEW v, v \in Int \/ v = Null,
         NEW new, new = Pushed("INT32", col, v)
  PROVE  /\ Loaded("INT32", new, n + 1)
         /\ RowValue("INT32", new, n) = v
         /\ \A i \in 0 .. n - 1 : RowValue("INT32", new, i) = RowValue("INT32", col, i)
<1>1. PICK d, o, b, r : col = [data |-> d, offsets |-> o, bitmap |-> b, row |-> r]
  BY DEF Loaded, IsColumn
<1>2. d \in Seq(Int) /\ Len(d) = n /\ o = <<>> /\ r = n /\ BitmapOK(b, n)
  BY <1>1 DEF Loaded, ColumnOK, IntColumnOK, BitmapOK
<1>3. PICK set, x, c : set \in BOOLEAN /\ set = (v # Null) /\ x = (IF v = Null THEN 0 ELSE v) /\ c = PushBit(b, n, set)
  OBVIOUS
<1>4. new = [data |-> Append(d, x), offsets |-> o, bitmap |-> c, row |-> n + 1]
  BY <1>1, <1>2, <1>3 DEF Pushed, push_back
<1>5. x \in Int
  BY <1>3
<1>6. PICK e : e = Append(d, x)
  OBVIOUS
<1>7. /\ e \in Seq(Int) /\ Len(e) = n + 1 /\ e[n + 1] = x
      /\ \A j \in 1 .. n : e[j] = d[j]
  BY <1>2, <1>5, <1>6
<1>8. /\ BitmapOK(c, n + 1)
      /\ \A i \in 0 .. n - 1 : Bit(c, i) <=> Bit(b, i)
      /\ Bit(c, n) <=> set
  BY <1>2, <1>3, PushBitOK
<1>9. new.data = e /\ new.offsets = <<>> /\ new.bitmap = c /\ new.row = n + 1 /\ IsColumn(new)
      /\ DOMAIN new = {"data", "offsets", "bitmap", "row"}
  BY <1>2, <1>4, <1>6 DEF IsColumn
<1>10. n + 1 \in Nat
  OBVIOUS
<1>11. RowValue("INT32", new, n) = v
  BY <1>3, <1>7, <1>8, <1>9 DEF RowValue
<1>12. ASSUME NEW i \in 0 .. n - 1
       PROVE  RowValue("INT32", new, i) = RowValue("INT32", col, i)
  <2>1. col.data = d /\ col.bitmap = b /\ i + 1 \in 1 .. n
    BY <1>1
  <2> QED BY <1>7, <1>8, <1>9, <2>1 DEF RowValue
<1>13. ASSUME NEW i \in 0 .. n, Bit(new.bitmap, i) PROVE RowValue("INT32", new, i) # Null
  <2>1. CASE i = n
    BY <1>3, <1>8, <1>9, <1>11, <1>13, <2>1
  <2>2. CASE i \in 0 .. n - 1
    <3>1. Bit(b, i) /\ col.bitmap = b
      BY <1>1, <1>8, <1>9, <1>13, <2>2
    <3>2. RowValue("INT32", col, i) # Null
      BY <2>2, <3>1 DEF Loaded
    <3> QED BY <1>12, <2>2, <3>2
  <2>3. i = n \/ i \in 0 .. n - 1
    OBVIOUS
  <2> QED BY <2>1, <2>2, <2>3
<1>14. Loaded("INT32", new, n + 1)
  <2>1. \A i \in 0 .. (n + 1) - 1 : i \in 0 .. n
    OBVIOUS
  <2> QED BY <1>7, <1>8, <1>9, <1>10, <1>13, <2>1 DEF Loaded, ColumnOK, IntColumnOK, BitmapOK
<1> QED
  BY <1>11, <1>12, <1>14

LEMMA PushString ==
  ASSUME NEW n \in Nat, NEW col, Loaded("VARCHAR", col, n), NEW v, v \in Seq(Int) \/ v = Null,
         NEW new, new = Pushed("VARCHAR", col, v)
  PROVE  /\ Loaded("VARCHAR", new, n + 1)
         /\ RowValue("VARCHAR", new, n) = v
         /\ \A i \in 0 .. n - 1 : RowValue("VARCHAR", new, i) = RowValue("VARCHAR", col, i)
<1>1. PICK d, o, b, r : col = [data |-> d, offsets |-> o, bitmap |-> b, row |-> r]
  BY DEF Loaded, IsColumn
<1>2. /\ d \in Seq(Int) /\ o \in Seq(Nat) /\ Len(o) = n /\ r = n /\ BitmapOK(b, n)
      /\ \A k \in 1 .. n : o[k] <= Len(d) /\ \A l \in k .. n : o[k] <= o[l]
      /\ Len(d) = IF n = 0 THEN 0 ELSE o[n]
  BY <1>1 DEF Loaded, ColumnOK, StringColumnOK, BitmapOK
<1>3. PICK set, x, c : set \in BOOLEAN /\ set = (v # Null) /\ x = (IF v = Null THEN <<>> ELSE v) /\ c = PushBit(b, n, set)
  OBVIOUS
<1>4. x \in Seq(Int)
  BY <1>3
<1>5. PICK D \in Nat, X \in Nat : D = Len(d) /\ X = Len(x)
  BY <1>2, <1>4
<1>6. PICK e, p : e = d \o x /\ p = Append(o, D + X)
  OBVIOUS
<1>7. new = [data |-> e, offsets |-> p, bitmap |-> c, row |-> n + 1]
  BY <1>1, <1>2, <1>3, <1>5, <1>6 DEF Pushed, push_back_string
<1>8. /\ e \in Seq(Int) /\ Len(e) = D + X
      /\ p \in Seq(Nat) /\ Len(p) = n + 1 /\ p[n + 1] = D + X
      /\ \A k \in 1 .. n : p[k] = o[k]
  <2>6. d \in Seq(Int) /\ e = d \o x
    BY <1>2, <1>6
  <2>1. e \in Seq(Int) /\ Len(e) = D + X
    BY <1>4, <1>5, <2>6
  <2>2. D + X \in Nat /\ o \in Seq(Nat) /\ Len(o) = n
    BY <1>2
  <2>3. PICK z \in Nat : z = D + X
    BY <2>2
  <2>4. p = Append(o, z)
    BY <1>6, <2>3
  <2>5. /\ p \in Seq(Nat) /\ Len(p) = n + 1 /\ p[n + 1] = z
        /\ \A k \in 1 .. n : p[k] = o[k]
    BY <2>2, <2>4
  <2> QED BY <2>1, <2>3, <2>5
<1>9. /\ BitmapOK(c, n + 1)
      /\ \A i \in 0 .. n - 1 : Bit(c, i) <=> Bit(b, i)
      /\ Bit(c, n) <=> set
  <2>1. BitmapOK(b, n) /\ set \in BOOLEAN /\ c = PushBit(b, n, set)
    BY <1>2, <1>3
  <2> QED BY <2>1, PushBitOK
<1>10. new.data = e /\ new.offsets = p /\ new.bitmap = c /\ new.row = n + 1 /\ IsColumn(new)
       /\ DOMAIN new = {"data", "offsets", "bitmap", "row"}
  BY <1>7 DEF IsColumn
<1>11. ASSUME NEW k \in 1 .. n + 1
       PROVE  p[k] <= D + X /\ \A l \in k .. n + 1 : p[k] <= p[l]
  <2>1. CASE k = n + 1
    <3>1. \A l \in k .. n + 1 : l = k
      BY <2>1
    <3> QED BY <1>8, <2>1, <3>1
  <2>2. CASE k \in 1 .. n
    <3>1. p[k] = o[k] /\ o[k] \in Nat /\ o[k] <= D
      <4>1. o \in Seq(Nat) /\ Len(o) = n /\ o[k] <= Len(d)
        BY <1>2, <2>2
      <4> QED BY <1>5, <1>8, <2>2, <4>1
    <3>2. p[k] <= D + X
      BY <3>1
    <3>3. ASSUME NEW l \in k .. n + 1 PROVE p[k] <= p[l]
      <4>1. CASE l = n + 1
        BY <1>8, <3>2, <4>1
      <4>2. CASE l \in k .. n
        <5>1. l \in 1 .. n /\ o[k] <= o[l]
          BY <1>2, <2>2, <4>2
        <5> QED BY <1>8, <3>1, <5>1
      <4>3. l = n + 1 \/ l \in k .. n
        BY <2>2
      <4> QED BY <4>1, <4>2, <4>3
    <3> QED BY <3>2, <3>3
  <2>3. k = n + 1 \/ k \in 1 .. n
    OBVIOUS
  <2> QED BY <2>1, <2>2, <2>3
<1>12. n + 1 \in Nat
  OBVIOUS
<1>14. \A lo \in Nat \ {0}, hi \in Nat : hi <= D => SubSeq(e, lo, hi) = SubSeq(d, lo, hi)
  BY <1>2, <1>4, <1>5, <1>6, SubSeqOfConcat
<1>15. SubSeq(e, D + 1, D + X) = x
  BY <1>2, <1>4, <1>5, <1>6, SubSeqOfConcat
<1>16. ASSUME NEW i \in 0 .. n - 1
       PROVE  RowValue("VARCHAR", new, i) = RowValue("VARCHAR", col, i)
  <2>1. col.data = d /\ col.offsets = o /\ col.bitmap = b /\ i + 1 \in 1 .. n /\ (i # 0 => i \in 1 .. n)
    BY <1>1
  <2>2. PICK lo, hi : lo = (IF i = 0 THEN 0 ELSE o[i]) + 1 /\ hi = o[i + 1]
    OBVIOUS
  <2>3. lo \in Nat \ {0} /\ hi \in Nat /\ hi <= D
    BY <1>2, <1>5, <2>1, <2>2
  <2>4. lo = (IF i = 0 THEN 0 ELSE p[i]) + 1 /\ hi = p[i + 1]
    BY <1>8, <2>1, <2>2
  <2>5. get_string(new, i) = SubSeq(e, lo, hi) /\ get_string(col, i) = SubSeq(d, lo, hi)
    BY <1>10, <2>1, <2>2, <2>4 DEF get_string
  <2> QED BY <1>9, <1>10, <1>14, <2>1, <2>3, <2>5 DEF RowValue
<1>17. RowValue("VARCHAR", new, n) = v
  <2>1. CASE v = Null
    BY <1>3, <1>9, <1>10, <2>1 DEF RowValue
  <2>2. CASE v # Null
    <3> SUFFICES get_string(new, n) = v
      BY <1>3, <1>9, <1>10, <2>2 DEF RowValue
    <3>1. (IF n = 0 THEN 0 ELSE p[n]) + 1 = D + 1
      <4>1. n # 0 => p[n] = o[n]
        BY <1>8
      <4> QED BY <1>2, <1>5, <4>1
    <3>2. get_string(new, n) = SubSeq(e, D + 1, D + X)
      BY <1>8, <1>10, <3>1 DEF get_string
    <3> QED BY <1>3, <1>15, <2>2, <3>2
  <2> QED BY <2>1, <2>2
<1>18. ASSUME NEW i \in 0 .. n, Bit(new.bitmap, i) PROVE RowValue("VARCHAR", new, i) # Null
  <2>1. CASE i = n
    BY <1>3, <1>9, <1>10, <1>17, <1>18, <2>1
  <2>2. CASE i \in 0 .. n - 1
    <3>1. Bit(b, i) /\ col.bitmap = b
      BY <1>1, <1>9, <1>10, <1>18, <2>2
    <3>2. RowValue("VARCHAR", col, i) # Null
      BY <2>2, <3>1 DEF Loaded
    <3> QED BY <1>16, <2>2, <3>2
  <2>3. i = n \/ i \in 0 .. n - 1
    OBVIOUS
  <2> QED BY <2>1, <2>2, <2>3
<1>19. Loaded("VARCHAR", new, n + 1)
  <2>1. StringColumnOK(new)
    BY <1>8, <1>10, <1>11 DEF StringColumnOK
  <2>2. n + 1 # 0 /\ Len(new.data) = new.offsets[n + 1]
    BY <1>8, <1>10
  <2>3. \A i \in 0 .. (n + 1) - 1 : i \in 0 .. n
    OBVIOUS
  <2> QED BY <1>9, <1>10, <1>12, <1>18, <2>1, <2>2, <2>3 DEF Loaded, ColumnOK, BitmapOK
<1> QED
  BY <1>16, <1>17, <1>19

LEMMA ColumnTypes ==
  /\ \A c \in Columns : Types[c] \in DataTypes
  /\ Columns = 1 .. Len(Types) /\ Len(Types) \in Nat /\ 1 \in Columns
BY LoaderAssumption DEF Columns

\* The same of either type.
LEMMA PushOK ==
  ASSUME NEW type \in DataTypes, NEW n \in Nat, NEW col, Loaded(type, col, n),
         NEW v \in ValuesOf(type) \cup {Null}, NEW new, new = Pushed(type, col, v)
  PROVE  /\ Loaded(type, new, n + 1)
         /\ RowValue(type, new, n) = v
         /\ \A i \in 0 .. n - 1 : RowValue(type, new, i) = RowValue(type, col, i)
<1>1. CASE type = "INT32"
  <2>1. v \in Int \/ v = Null
    BY <1>1 DEF ValuesOf
  <2> QED BY <1>1, <2>1, PushInt
<1>2. CASE type = "VARCHAR"
  <2>1. v \in Seq(Int) \/ v = Null
    BY <1>2 DEF ValuesOf
  <2> QED BY <1>2, <2>1, PushString
<1> QED
  BY <1>1, <1>2 DEF DataTypes

\* get, of a row that exists.
LEMMA GetOK ==
  ASSUME NEW c \in Columns, NEW n \in Nat, NEW col, Loaded(Types[c], col, n),
         NEW i \in 0 .. n - 1
  PROVE  /\ get(c, col, i) \in ValuesOf(Types[c])
         /\ RowValue(Types[c], col, i) = IF is_not_null(col, i) THEN get(c, col, i) ELSE Null
<1>1. RowValue(Types[c], col, i) = IF is_not_null(col, i) THEN get(c, col, i) ELSE Null
  BY DEF RowValue, is_not_null, get, Bit
<1>2. CASE Types[c] = "INT32"
  <2>1. col.data \in Seq(Int) /\ Len(col.data) = n
    BY <1>2 DEF Loaded, ColumnOK, IntColumnOK
  <2>2. i + 1 \in 1 .. n
    OBVIOUS
  <2>3. get(c, col, i) \in Int
    BY <1>2, <2>1, <2>2 DEF get
  <2> QED BY <1>1, <1>2, <2>3 DEF ValuesOf
<1>3. CASE Types[c] # "INT32"
  <2>1. PICK d, o : d = col.data /\ o = col.offsets
    OBVIOUS
  <2>2. /\ d \in Seq(Int) /\ o \in Seq(Nat) /\ Len(o) = n
        /\ \A k \in 1 .. n : o[k] <= Len(d)
    BY <1>3, <2>1 DEF Loaded, ColumnOK, StringColumnOK
  <2>3. i + 1 \in 1 .. n /\ (i # 0 => i \in 1 .. n)
    OBVIOUS
  <2>4. PICK lo, hi : lo = (IF i = 0 THEN 0 ELSE o[i]) + 1 /\ hi = o[i + 1]
    OBVIOUS
  <2>5. lo \in Nat /\ lo >= 1 /\ hi \in Nat /\ hi <= Len(d)
    BY <2>2, <2>3, <2>4
  <2>6. \A k \in lo .. hi : d[k] \in Int
    BY <2>2, <2>5
  <2>7. SubSeq(d, lo, hi) \in Seq(Int)
    BY <2>5, <2>6, SubSeqProperties
  <2> QED BY <1>1, <1>3, <2>1, <2>4, <2>7 DEF get, get_string, ValuesOf
<1> QED
  BY <1>2, <1>3

TableLoaded(t) ==
  /\ t = [rows |-> t.rows, columns |-> t.columns]
  /\ t.rows \in Nat
  /\ t.columns = [c \in Columns |-> t.columns[c]]
  /\ \A c \in Columns : Loaded(Types[c], t.columns[c], t.rows)

LEMMA EmptyTable == TableLoaded(NewTable) /\ TableRecords(NewTable) = <<>>
<1>1. ASSUME NEW type
      PROVE  Loaded(type, NewColumn, 0)
  <2>1. /\ IsColumn(NewColumn)
        /\ NewColumn.data = <<>> /\ NewColumn.offsets = <<>>
        /\ NewColumn.bitmap = <<>> /\ NewColumn.row = 0
        /\ DOMAIN NewColumn = {"data", "offsets", "bitmap", "row"}
    BY DEF NewColumn, IsColumn
  <2>2. /\ <<>> \in Seq(Int) /\ <<>> \in Seq(Nat) /\ Len(<<>>) = 0
        /\ <<>> \in Seq(SUBSET (0 .. ByteBits - 1))
    OBVIOUS
  <2>3. \A k \in 1 .. 0 : FALSE
    OBVIOUS
  <2>4. IntColumnOK(NewColumn) /\ StringColumnOK(NewColumn)
    BY <2>1, <2>2, <2>3 DEF IntColumnOK, StringColumnOK
  <2>5. 0 \in Nat
    OBVIOUS
  <2> QED
    BY <2>1, <2>2, <2>4, <2>5, NoBytes DEF Loaded, ColumnOK
<1>2. /\ NewTable.rows = 0
      /\ NewTable = [rows |-> NewTable.rows, columns |-> NewTable.columns]
      /\ NewTable.columns = [c \in Columns |-> NewTable.columns[c]]
      /\ \A c \in Columns : NewTable.columns[c] = NewColumn
  BY DEF NewTable
<1>3. TableRecords(NewTable) = <<>>
  <2>1. 1 .. 0 = {}
    OBVIOUS
  <2>2. PICK t : t = NewTable
    OBVIOUS
  <2>3. TableRecords(t) = [r \in {} |-> [c \in Columns |->
           IF is_not_null(t.columns[c], r - 1) THEN get(c, t.columns[c], r - 1) ELSE Null]]
    BY <1>2, <2>1, <2>2 DEF TableRecords
  <2> QED BY <2>2, <2>3
<1> QED
  BY <1>1, <1>2, <1>3 DEF TableLoaded

\* A table as the list of its records.
LEMMA RecordsAre ==
  ASSUME NEW t, TableLoaded(t)
  PROVE  /\ AreRecords(TableRecords(t)) /\ Len(TableRecords(t)) = t.rows
         /\ \A r \in 1 .. t.rows : \A c \in Columns :
              TableRecords(t)[r][c] = RowValue(Types[c], t.columns[c], r - 1)
<1>1. PICK s : s = TableRecords(t)
  OBVIOUS
<1>2. PICK n \in Nat : n = t.rows
  BY DEF TableLoaded
<1>3. s = [r \in 1 .. n |-> [c \in Columns |->
             IF is_not_null(t.columns[c], r - 1) THEN get(c, t.columns[c], r - 1) ELSE Null]]
  BY <1>1, <1>2 DEF TableRecords
<1>4. \A r \in 1 .. n : s[r] = [c \in Columns |-> s[r][c]]
  BY <1>3
<1>5. s = [r \in 1 .. n |-> s[r]]
  BY <1>3
<1>6. IsSequence(s) /\ Len(s) = n /\ DOMAIN s = 1 .. n
  <2> DEFINE V == { s[r] : r \in 1 .. n }
  <2>1. \A r \in 1 .. n : s[r] \in V
    OBVIOUS
  <2> HIDE DEF V
  <2>2. s \in [1 .. n -> V]
    BY <1>5, <2>1
  <2>3. s \in Seq(V) /\ Len(s) = n
    BY <2>2
  <2> QED BY <2>3 DEF IsSequence
<1>7. ASSUME NEW r \in 1 .. n, NEW c \in Columns
      PROVE  s[r][c] = RowValue(Types[c], t.columns[c], r - 1)
  <2>1. s[r][c] = IF is_not_null(t.columns[c], r - 1) THEN get(c, t.columns[c], r - 1) ELSE Null
    BY <1>3
  <2>2. r - 1 \in 0 .. n - 1 /\ Loaded(Types[c], t.columns[c], n)
    BY <1>2 DEF TableLoaded
  <2> QED BY <2>1, <2>2, GetOK
<1> QED
  BY <1>1, <1>2, <1>4, <1>6, <1>7 DEF AreRecords

\* add_record.
LEMMA AddRecordOK ==
  ASSUME TableLoaded(table), NEW record, add_record(record),
         \A c \in Columns : record[c] \in ValuesOf(Types[c]) \cup {Null}
  PROVE  /\ TableLoaded(table')
         /\ TableRecords(table') = Append(TableRecords(table), [c \in Columns |-> record[c]])
<1>1. /\ table' = [rows |-> table'.rows, columns |-> table'.columns]
      /\ table'.rows = table.rows + 1
      /\ table'.columns = [c \in Columns |-> table'.columns[c]]
      /\ \A c \in Columns :
           table'.columns[c] = Pushed(Types[c], table.columns[c], record[c])
  BY DEF add_record, Pushed
<1>2. PICK n \in Nat : n = table.rows
  BY DEF TableLoaded
<1>3. ASSUME NEW c \in Columns
      PROVE  /\ Loaded(Types[c], table'.columns[c], n + 1)
             /\ RowValue(Types[c], table'.columns[c], n) = record[c]
             /\ \A i \in 0 .. n - 1 : RowValue(Types[c], table'.columns[c], i)
                                        = RowValue(Types[c], table.columns[c], i)
  BY <1>1, <1>2, PushOK, ColumnTypes DEF TableLoaded
<1>4. TableLoaded(table')
  <2>1. n + 1 \in Nat /\ table'.rows = n + 1
    BY <1>1, <1>2
  <2> QED BY <1>1, <1>3, <2>1 DEF TableLoaded
<1>5. PICK new, t, a, b, x : new = table' /\ t = TableRecords(table)
        /\ a = TableRecords(new) /\ x = [c \in Columns |-> record[c]] /\ b = Append(t, x)
  OBVIOUS
<1>6. /\ AreRecords(t) /\ Len(t) = n
      /\ \A r \in 1 .. n : \A c \in Columns : t[r][c] = RowValue(Types[c], table.columns[c], r - 1)
  BY <1>2, <1>5, RecordsAre
<1>7. /\ AreRecords(a) /\ Len(a) = n + 1
      /\ \A r \in 1 .. n + 1 : \A c \in Columns : a[r][c] = RowValue(Types[c], new.columns[c], r - 1)
  BY <1>1, <1>2, <1>4, <1>5, RecordsAre
<1>8. PICK S : t \in Seq(S)
  BY <1>6 DEF AreRecords, IsSequence
<1>9. t \in Seq(S \cup {x}) /\ x \in S \cup {x}
  BY <1>8
<1>10. /\ Len(b) = n + 1 /\ b[n + 1] = x /\ b = [r \in 1 .. n + 1 |-> b[r]]
       /\ \A r \in 1 .. n : b[r] = t[r]
  BY <1>5, <1>6, <1>9
<1>11. ASSUME NEW r \in 1 .. n + 1 PROVE a[r] = b[r]
  <2>1. r \in DOMAIN a
    <3>1. PICK A : a \in Seq(A)
      BY <1>7 DEF AreRecords, IsSequence
    <3> QED BY <1>7, <3>1
  <2>2. a[r] = [c \in Columns |-> a[r][c]]
    BY <1>7, <2>1 DEF AreRecords
  <2>3. CASE r = n + 1
    <3>1. \A c \in Columns : a[r][c] = record[c]
      <4>1. r - 1 = n
        BY <2>3
      <4> QED BY <1>3, <1>5, <1>7, <2>3, <4>1
    <3> QED BY <1>5, <1>10, <2>2, <2>3, <3>1
  <2>4. CASE r \in 1 .. n
    <3>1. r - 1 \in 0 .. n - 1 /\ r \in DOMAIN t
      BY <1>6, <1>8, <2>4
    <3>2. \A c \in Columns : a[r][c] = t[r][c]
      BY <1>3, <1>5, <1>6, <1>7, <2>4, <3>1
    <3>3. t[r] = [c \in Columns |-> t[r][c]]
      BY <1>6, <3>1 DEF AreRecords
    <3> QED BY <1>10, <2>2, <2>4, <3>2, <3>3
  <2>5. r = n + 1 \/ r \in 1 .. n
    OBVIOUS
  <2> QED BY <2>3, <2>4, <2>5
<1>12. a = [r \in 1 .. n + 1 |-> a[r]]
  <2>1. PICK A : a \in Seq(A)
    BY <1>7 DEF AreRecords, IsSequence
  <2> QED BY <1>7, <2>1
<1>13. a = b
  BY <1>10, <1>11, <1>12
<1> QED
  BY <1>4, <1>5, <1>13
-----------------------------------------------------------------------------
(* The bitmap of a statement.                                              *)

\* The recursive function in FlattenSeq.
Flattens(flatten, seqs) ==
  flatten = [i \in 1 .. Len(seqs) |-> IF i = 1 THEN seqs[i] ELSE flatten[i - 1] \o seqs[i]]

\* A sequence that is cut into slices, with the places of the cuts.
Slices(out, P, e, seqs) ==
  /\ e[0] = 0 /\ e[P] = Len(out)
  /\ \A t \in 0 .. P : e[t] \in Nat /\ e[t] <= Len(out)
  /\ \A t \in 1 .. P : e[t - 1] <= e[t]
  /\ Len(seqs) = P
  /\ \A t \in 1 .. P : seqs[t] = SubSeq(out, e[t - 1] + 1, e[t])

\* Slices that meet, flattened, are the whole.
LEMMA FlattenSlices ==
  ASSUME NEW out, IsSequence(out), NEW P \in Nat \ {0}, NEW e, NEW seqs, Slices(out, P, e, seqs)
  PROVE  FlattenSeq(seqs) = out
<1> PICK S : out \in Seq(S)
  BY DEF IsSequence
<1>0. /\ e[0] = 0 /\ e[P] = Len(out)
      /\ \A t \in 0 .. P : e[t] \in Nat /\ e[t] <= Len(out)
      /\ \A t \in 1 .. P : e[t - 1] <= e[t]
      /\ Len(seqs) = P
      /\ \A t \in 1 .. P : seqs[t] = SubSeq(out, e[t - 1] + 1, e[t])
  BY DEF Slices
<1> USE <1>0
<1> DEFINE First(n) == SubSeq(out, 1, n)
<1>1. ASSUME NEW t \in 2 .. P
      PROVE  First(e[t - 1]) \o seqs[t] = First(e[t])
  <2>1. t \in 1 .. P /\ t \in 0 .. P /\ t - 1 \in 0 .. P
    OBVIOUS
  <2>2. PICK a \in Nat, b \in Nat : a = e[t - 1] /\ b = e[t] /\ a <= b /\ b <= Len(out)
    BY <2>1
  <2>3. SubSeq(out, 1, a) \o SubSeq(out, a + 1, b) = SubSeq(out, 1, b)
    BY <2>2, SubSeqJoin
  <2> QED BY <2>1, <2>2, <2>3
<1>2. seqs[1] = First(e[1])
  <2>1. 1 \in 1 .. P /\ 1 - 1 = 0
    OBVIOUS
  <2>2. e[1 - 1] = 0 /\ e[1 - 1] + 1 = 1
    BY <2>1
  <2>3. seqs[1] = SubSeq(out, e[1 - 1] + 1, e[1])
    BY <2>1
  <2> QED BY <2>2, <2>3
<1> HIDE DEF First
<1>3. \E g : Flattens(g, seqs)
  <2>1. PICK g : g = [i \in 1 .. P |-> First(e[i])]
    OBVIOUS
  <2>2. ASSUME NEW i \in 1 .. P
        PROVE  g[i] = IF i = 1 THEN seqs[i] ELSE g[i - 1] \o seqs[i]
    <3>1. g[i] = First(e[i])
      BY <2>1
    <3>2. CASE i = 1
      BY <1>2, <3>1, <3>2
    <3>3. CASE i # 1
      <4>1. i \in 2 .. P /\ i - 1 \in 1 .. P
        BY <3>3
      <4>2. g[i - 1] = First(e[i - 1])
        BY <2>1, <4>1
      <4> QED BY <1>1, <3>1, <3>3, <4>1, <4>2
    <3> QED BY <3>2, <3>3
  <2>3. g = [i \in 1 .. P |-> g[i]]
    BY <2>1
  <2>4. g = [i \in 1 .. P |-> IF i = 1 THEN seqs[i] ELSE g[i - 1] \o seqs[i]]
    BY <2>2, <2>3
  <2>5. Flattens(g, seqs)
    BY <2>4 DEF Flattens
  <2> QED BY <2>5
<1>4. PICK h : h = CHOOSE g : Flattens(g, seqs)
  OBVIOUS
<1>5. Flattens(h, seqs)
  BY <1>3, <1>4
<1>6. FlattenSeq(seqs) = h[P]
  <2>1. Len(seqs) # 0
    OBVIOUS
  <2>2. FlattenSeq(seqs) = h[Len(seqs)]
    BY <1>4, <2>1 DEF FlattenSeq, Flattens
  <2> QED BY <2>2
<1> DEFINE T == { n \in Nat : n + 1 <= P => h[n + 1] = First(e[n + 1]) }
<1>7. \A i \in 1 .. P : h[i] = IF i = 1 THEN seqs[i] ELSE h[i - 1] \o seqs[i]
  BY <1>5 DEF Flattens
<1>8. 0 \in T
  <2>1. 1 \in 1 .. P
    OBVIOUS
  <2> QED BY <1>2, <1>7, <2>1
<1>9. ASSUME NEW n \in Nat, n \in T PROVE n + 1 \in T
  <2> SUFFICES ASSUME n + 1 + 1 <= P PROVE h[n + 1 + 1] = First(e[n + 1 + 1])
    OBVIOUS
  <2>1. PICK t \in 2 .. P : t = n + 1 + 1
    OBVIOUS
  <2>2. t - 1 = n + 1 /\ t \in 1 .. P /\ t # 1
    BY <2>1
  <2>3. h[t - 1] = First(e[t - 1])
    BY <1>9, <2>2
  <2>4. h[t] = h[t - 1] \o seqs[t]
    BY <1>7, <2>2
  <2>5. h[t] = First(e[t])
    BY <1>1, <2>3, <2>4
  <2> QED BY <2>1, <2>5
<1> HIDE DEF T
<1>10. P - 1 \in Nat /\ (P - 1) + 1 = P
  OBVIOUS
<1>11. P - 1 \in T
  BY <1>8, <1>9, <1>10, Induction
<1>12. h[P] = First(Len(out))
  BY <1>10, <1>11 DEF T
<1>13. SubSeq(out, 1, Len(out)) = out
  OBVIOUS
<1> QED
  BY <1>6, <1>12, <1>13 DEF First

\* The slices of the threads meet, and are the whole.
LEMMA SlicesMeet ==
  ASSUME NEW n \in Nat
  PROVE  /\ begin_idx(0, n) = 0 /\ begin_idx(PoolThreads, n) = n
         /\ \A t \in 0 .. PoolThreads : begin_idx(t, n) \in Nat /\ begin_idx(t, n) <= n
         /\ \A t \in 1 .. PoolThreads : begin_idx(t - 1, n) <= begin_idx(t, n)
<1>1. PICK P \in Nat \ {0} : P = PoolThreads
  BY LoaderAssumption
<1>2. PICK q \in Nat, m \in 0 .. P - 1 : q = n \div P /\ m = n % P /\ n = P * q + m
  <2>1. n \div P \in Nat /\ n % P \in 0 .. P - 1 /\ n = P * (n \div P) + (n % P)
    OBVIOUS
  <2> QED BY <2>1
<1> DEFINE Begin(t) == t * q + (IF t < m THEN t ELSE m)
<1>3. ASSUME NEW t PROVE begin_idx(t, n) = Begin(t)
  BY <1>1, <1>2 DEF begin_idx
<1>4. Begin(0) = 0
  BY <1>2
<1>5. Begin(P) = n
  BY <1>2
<1>6. ASSUME NEW t \in 0 .. P PROVE Begin(t) \in Nat /\ Begin(t) <= n
  <2>1. PICK d \in Nat : P = t + d
    <3>1. P - t \in Nat /\ P = t + (P - t)
      OBVIOUS
    <3> QED BY <3>1
  <2>2. (t + d) * q = t * q + d * q /\ t * q \in Nat /\ d * q \in Nat
    BY <1>2
  <2>3. P * q = t * q + d * q
    BY <2>1, <2>2
  <2>4. PICK x \in Nat, y \in Nat : x = t * q /\ y = d * q
    BY <2>2
  <2> QED BY <1>2, <2>3, <2>4
<1>7. ASSUME NEW t \in 1 .. P PROVE Begin(t - 1) <= Begin(t)
  <2>1. (t - 1) * q + q = t * q /\ (t - 1) * q \in Nat
    <3>1. PICK u \in Nat : u = t - 1 /\ t = u + 1
      OBVIOUS
    <3>2. \A x \in Nat : u * x + x = (u + 1) * x /\ u * x \in Nat
      OBVIOUS
    <3> QED BY <3>1, <3>2
  <2>2. PICK x \in Nat, y \in Nat : x = (t - 1) * q /\ y = t * q /\ y = x + q
    BY <1>2, <2>1
  <2> QED BY <1>2, <2>2
<1> QED
  BY <1>1, <1>3, <1>4, <1>5, <1>6, <1>7

\* The bits of some rows are kept.
Kept(bitmap, n, keep) ==
  [k \in 1 .. Bytes(n) |-> { b \in bitmap[k] : (k - 1) * ByteBits + b \in keep }]

\* The rows of a bitmap that are kept: below n, and in a set.
LEMMA KeptBits ==
  ASSUME NEW bitmap, NEW n \in Nat, BitmapOK(bitmap, n), NEW keep
  PROVE  /\ BitmapOK(Kept(bitmap, n, keep), n)
         /\ \A i \in 0 .. n - 1 :
              Bit(Kept(bitmap, n, keep), i) <=> Bit(bitmap, i) /\ i \in keep
<1>1. PICK B \in Nat \ {0} : B = ByteBits
  BY PageSizes
<1>2. PICK out : out = Kept(bitmap, n, keep)
  OBVIOUS
<1>3. PICK N \in Nat : N = Bytes(n)
  BY BytesAre
<1>4. bitmap \in Seq(SUBSET (0 .. B - 1)) /\ Len(bitmap) = N
  BY <1>1, <1>3 DEF BitmapOK
<1>5. out = [k \in 1 .. N |-> { b \in bitmap[k] : (k - 1) * B + b \in keep }]
  BY <1>1, <1>2, <1>3 DEF Kept
<1>6. ASSUME NEW k \in 1 .. N PROVE out[k] \in SUBSET (0 .. B - 1)
  <2>1. bitmap[k] \in SUBSET (0 .. B - 1)
    BY <1>4
  <2> QED BY <1>5, <2>1
<1>7. BitmapOK(out, n)
  <2> DEFINE S == SUBSET (0 .. B - 1)
  <2>1. out = [k \in 1 .. N |-> out[k]]
    BY <1>5
  <2>2. \A k \in 1 .. N : out[k] \in S
    BY <1>6
  <2> HIDE DEF S
  <2>3. out \in [1 .. N -> S]
    BY <2>1, <2>2
  <2>4. out \in Seq(S) /\ Len(out) = N
    BY <2>3
  <2> QED BY <1>1, <1>3, <2>4 DEF BitmapOK, S
<1>8. ASSUME NEW i \in 0 .. n - 1
      PROVE  Bit(out, i) <=> Bit(bitmap, i) /\ i \in keep
  <2>1. PICK q \in Nat, m \in 0 .. B - 1 : q = i \div B /\ m = i % B /\ i = B * q + m
    BY <1>1, Remainder
  <2>2. q + 1 \in 1 .. N
    BY <1>1, <1>3, <2>1, RowInBytes
  <2>3. ((q + 1) - 1) * B + m = i
    BY <2>1
  <2>4. m \in out[q + 1] <=> m \in bitmap[q + 1] /\ ((q + 1) - 1) * B + m \in keep
    BY <1>5, <2>2
  <2> QED BY <1>1, <2>1, <2>3, <2>4 DEF Bit
<1> QED
  BY <1>2, <1>7, <1>8

\* The slices of a comparison make up the bitmap of the rows that pass it.
LEMMA CompareIntsIs ==
  ASSUME NEW col, NEW n \in Nat, Loaded("INT32", col, n), NEW op, NEW rhs
  PROVE  CompareInts(col, op, rhs) =
           Kept(col.bitmap, n, { i \in 0 .. n - 1 : IntTest(op, col.data[i + 1], rhs) })
<1>1. PICK B \in Nat \ {0} : B = ByteBits
  BY PageSizes
<1>2. PICK N \in Nat : N = Bytes(n)
  BY BytesAre
<1>3. PICK P \in Nat \ {0} : P = PoolThreads
  BY LoaderAssumption
<1>4. PICK bitmap, data : bitmap = col.bitmap /\ data = col.data
  OBVIOUS
<1>5. BitmapOK(bitmap, n) /\ bitmap \in Seq(SUBSET (0 .. B - 1)) /\ Len(bitmap) = N /\ col.row = n
  BY <1>1, <1>2, <1>4 DEF Loaded, ColumnOK, BitmapOK
<1>6. PICK keep : keep = { i \in 0 .. n - 1 : IntTest(op, data[i + 1], rhs) }
  OBVIOUS
<1>7. PICK out : out = Kept(bitmap, n, keep)
  OBVIOUS
<1> DEFINE S == SUBSET (0 .. ByteBits - 1)
<1>8. out \in Seq(S) /\ Len(out) = N
  BY <1>2, <1>5, <1>7, KeptBits DEF BitmapOK
<1>9. out = [k \in 1 .. N |-> { b \in bitmap[k] : (k - 1) * B + b \in keep }]
  BY <1>1, <1>2, <1>7 DEF Kept
<1>10. PICK e : e = [t \in 0 .. P |-> begin_idx(t, N)]
  OBVIOUS
<1>11. /\ e[0] = 0 /\ e[P] = N
       /\ \A t \in 0 .. P : e[t] \in Nat /\ e[t] <= N
       /\ \A t \in 1 .. P : e[t - 1] <= e[t]
  <2>1. \A t \in 0 .. P : e[t] = begin_idx(t, N)
    BY <1>10
  <2>2. 0 \in 0 .. P /\ P \in 0 .. P /\ \A t \in 1 .. P : t - 1 \in 0 .. P /\ t \in 0 .. P
    OBVIOUS
  <2>3. /\ begin_idx(0, N) = 0 /\ begin_idx(P, N) = N
        /\ \A t \in 0 .. P : begin_idx(t, N) \in Nat /\ begin_idx(t, N) <= N
        /\ \A t \in 1 .. P : begin_idx(t - 1, N) <= begin_idx(t, N)
    BY <1>3, SlicesMeet
  <2> QED BY <2>1, <2>2, <2>3
<1>12. PICK seqs : seqs = [t \in 1 .. P |-> SliceCompare(col, op, rhs, begin_idx(t - 1, N), begin_idx(t, N))]
  OBVIOUS
<1>13. Len(seqs) = P
  BY <1>12
<1>14. ASSUME NEW t \in 1 .. P
       PROVE  seqs[t] = SubSeq(out, e[t - 1] + 1, e[t])
  <2>1. t \in 0 .. P /\ t - 1 \in 0 .. P
    OBVIOUS
  <2>2. PICK first \in Nat, last \in Nat :
          first = e[t - 1] /\ last = e[t] /\ first <= last /\ last <= N
    BY <1>11, <2>1
  <2>3. seqs[t] = SliceCompare(col, op, rhs, first, last)
    BY <1>10, <1>12, <2>1, <2>2
  <2>4. PICK size : size = (IF last * B < n THEN last * B ELSE n) - first * B
    OBVIOUS
  <2>5. seqs[t] = [j \in 1 .. last - first |->
           { b \in bitmap[first + j] :
               /\ (j - 1) * B + b < size
               /\ IntTest(op, data[(first + j - 1) * B + b + 1], rhs) }]
    BY <1>1, <1>4, <1>5, <2>3, <2>4 DEF SliceCompare
  <2>6. SubSeq(out, first + 1, last) = [j \in 1 .. last - first |-> out[first + j]]
    <3>1. out \in Seq(S) /\ first + 1 \in Nat /\ last \in Nat
      BY <1>8
    <3> HIDE DEF S
    <3>2. SubSeq(out, first + 1, last) = [j \in 1 .. 1 + last - (first + 1) |-> out[j + (first + 1) - 1]]
      BY <3>1
    <3>3. 1 + last - (first + 1) = last - first /\ \A j \in 1 .. last - first : j + (first + 1) - 1 = first + j
      OBVIOUS
    <3> QED BY <3>2, <3>3
  <2>7. ASSUME NEW j \in 1 .. last - first
        PROVE  out[first + j] = { b \in bitmap[first + j] :
                 /\ (j - 1) * B + b < size
                 /\ IntTest(op, data[(first + j - 1) * B + b + 1], rhs) }
    <3>1. PICK k \in 1 .. N : k = first + j /\ k <= last
      BY <2>2
    <3>2. bitmap[k] \in SUBSET (0 .. B - 1)
      BY <1>5
    <3>3. ASSUME NEW b \in 0 .. B - 1
          PROVE  (j - 1) * B + b < size <=> (k - 1) * B + b \in 0 .. n - 1
      <4>1. (j - 1) * B + first * B = (k - 1) * B /\ (j - 1) * B \in Nat /\ first * B \in Nat
        <5>1. PICK u \in Nat : u = j - 1
          OBVIOUS
        <5>2. k - 1 = u + first
          BY <3>1, <5>1
        <5>3. u * B + first * B = (u + first) * B /\ u * B \in Nat /\ first * B \in Nat
          OBVIOUS
        <5> QED BY <5>1, <5>2, <5>3
      <4>2. (k - 1) * B + b < last * B /\ last * B \in Nat
        <5>1. PICK d \in Nat, u \in Nat : last = u + 1 + d /\ k - 1 = u
          <6>1. last - k \in Nat /\ k - 1 \in Nat /\ last = (k - 1) + 1 + (last - k)
            BY <3>1
          <6> QED BY <6>1
        <5>2. (u + 1 + d) * B = u * B + B + d * B /\ u * B \in Nat /\ d * B \in Nat
          OBVIOUS
        <5> QED BY <5>1, <5>2
      <4>3. PICK x \in Nat, y \in Nat, z \in Nat :
              x = (j - 1) * B /\ y = first * B /\ z = last * B /\ x + y = (k - 1) * B
        BY <4>1, <4>2
      <4> QED BY <2>4, <4>2, <4>3
    <3>4. \A b \in bitmap[k] :
            (k - 1) * B + b \in keep <=>
              /\ (j - 1) * B + b < size
              /\ IntTest(op, data[(k - 1) * B + b + 1], rhs)
      BY <1>6, <3>2, <3>3
    <3>5. out[k] = { b \in bitmap[k] : (k - 1) * B + b \in keep }
      BY <1>9
    <3>6. first + j - 1 = k - 1
      BY <3>1
    <3> QED BY <3>1, <3>4, <3>5, <3>6
  <2>8. PICK s : s = seqs[t]
    OBVIOUS
  <2>9. ASSUME NEW j \in 1 .. last - first PROVE s[j] = out[first + j]
    <3>1. s[j] = { b \in bitmap[first + j] :
                     /\ (j - 1) * B + b < size
                     /\ IntTest(op, data[(first + j - 1) * B + b + 1], rhs) }
      BY <2>5, <2>8
    <3> QED BY <2>7, <3>1
  <2>10. s = [j \in 1 .. last - first |-> s[j]]
    BY <2>5, <2>8
  <2>11. s = SubSeq(out, first + 1, last)
    BY <2>6, <2>9, <2>10
  <2> QED BY <2>2, <2>8, <2>11
<1>15. FlattenSeq(seqs) = out
  <2> HIDE DEF S
  <2>1. Len(out) = N
    BY <1>8
  <2>2. Slices(out, P, e, seqs)
    BY <1>11, <1>13, <1>14, <2>1 DEF Slices
  <2>3. IsSequence(out)
    BY <1>8 DEF IsSequence
  <2> QED BY <1>3, <2>2, <2>3, FlattenSlices
<1>16. CompareInts(col, op, rhs) = FlattenSeq(seqs)
  BY <1>2, <1>3, <1>5, <1>12 DEF CompareInts
<1> QED
  BY <1>4, <1>6, <1>7, <1>15, <1>16

\* The comparison of strings, likewise.
LEMMA CompareStringsIs ==
  ASSUME NEW col, NEW n \in Nat, Loaded("VARCHAR", col, n), NEW op, NEW rhs
  PROVE  CompareStrings(col, op, rhs) =
           Kept(col.bitmap, n, { i \in 0 .. n - 1 : StringTest(op, get_string(col, i), rhs) })
<1>1. PICK B \in Nat \ {0} : B = ByteBits
  BY PageSizes
<1>2. PICK N \in Nat : N = Bytes(n)
  BY BytesAre
<1>3. PICK bitmap : bitmap = col.bitmap
  OBVIOUS
<1>4. bitmap \in Seq(SUBSET (0 .. B - 1)) /\ Len(bitmap) = N /\ col.row = n
  BY <1>1, <1>2, <1>3 DEF Loaded, ColumnOK
<1>5. PICK keep : keep = { i \in 0 .. n - 1 : StringTest(op, get_string(col, i), rhs) }
  OBVIOUS
<1>6. PICK out, strings : out = Kept(bitmap, n, keep) /\ strings = CompareStrings(col, op, rhs)
  OBVIOUS
<1>7. out = [k \in 1 .. N |-> { b \in bitmap[k] : (k - 1) * B + b \in keep }]
  BY <1>1, <1>2, <1>6 DEF Kept
<1>8. DOMAIN bitmap = 1 .. N
  BY <1>4
<1>9. strings = [k \in 1 .. N |->
        { b \in bitmap[k] : /\ (k - 1) * B + b < n
                            /\ StringTest(op, get_string(col, (k - 1) * B + b), rhs) }]
  BY <1>1, <1>3, <1>4, <1>6, <1>8 DEF CompareStrings
<1>10. ASSUME NEW k \in 1 .. N PROVE out[k] = strings[k]
  <2>1. bitmap[k] \in SUBSET (0 .. B - 1)
    BY <1>4
  <2>2. ASSUME NEW b \in 0 .. B - 1 PROVE (k - 1) * B + b \in Nat
    <3>1. PICK u \in Nat : u = k - 1
      OBVIOUS
    <3>2. \A x \in Nat : u * x \in Nat
      OBVIOUS
    <3> QED BY <3>1, <3>2
  <2>3. \A b \in bitmap[k] : (k - 1) * B + b \in keep <=>
          /\ (k - 1) * B + b < n
          /\ StringTest(op, get_string(col, (k - 1) * B + b), rhs)
    <3>1. ASSUME NEW b \in bitmap[k]
          PROVE  (k - 1) * B + b \in keep <=>
                   /\ (k - 1) * B + b < n
                   /\ StringTest(op, get_string(col, (k - 1) * B + b), rhs)
      <4>1. PICK i \in Nat : i = (k - 1) * B + b
        BY <2>1, <2>2
      <4>2. i \in 0 .. n - 1 <=> i < n
        OBVIOUS
      <4> QED BY <1>5, <4>1, <4>2
    <3> QED BY <3>1
  <2> QED BY <1>7, <1>9, <2>3
<1>11. out = strings
  BY <1>7, <1>9, <1>10
<1> QED
  BY <1>3, <1>5, <1>6, <1>11

\* Negated, a bitmap of rows is one of the other rows.
LEMMA Negated ==
  ASSUME NEW bitmap, NEW n \in Nat, BitmapOK(bitmap, n)
  PROVE  /\ BitmapOK(bitmap_not(bitmap), n)
         /\ \A i \in 0 .. n - 1 : Bit(bitmap_not(bitmap), i) <=> ~Bit(bitmap, i)
<1>1. PICK out : out = bitmap_not(bitmap)
  OBVIOUS
<1>2. PICK N \in Nat : N = Bytes(n)
  BY BytesAre
<1> DEFINE All == 0 .. ByteBits - 1
           S   == SUBSET All
<1>3. bitmap \in Seq(S) /\ Len(bitmap) = N
  BY <1>2 DEF BitmapOK
<1>4. DOMAIN bitmap = 1 .. N
  BY <1>3
<1>5. out = [k \in 1 .. N |-> All \ bitmap[k]]
  BY <1>1, <1>4 DEF bitmap_not
<1>6. \A k \in 1 .. N : out[k] \in S
  BY <1>5
<1>7. \A i \in 0 .. n - 1 : i % ByteBits \in All /\ i \div ByteBits + 1 \in 1 .. N
  BY <1>2, Remainder, RowInBytes
<1>8. \A i \in 0 .. n - 1 : Bit(out, i) <=> ~Bit(bitmap, i)
  BY <1>5, <1>7 DEF Bit
<1> HIDE DEF All, S
<1>9. out \in [1 .. N -> S]
  BY <1>5, <1>6
<1>10. out \in Seq(S) /\ Len(out) = N
  BY <1>9
<1>11. BitmapOK(out, n)
  BY <1>2, <1>10 DEF BitmapOK, S, All
<1> QED
  BY <1>1, <1>8, <1>11

\* And, or.
LEMMA Joined ==
  ASSUME NEW lhs, NEW rhs, NEW n \in Nat, BitmapOK(lhs, n), BitmapOK(rhs, n)
  PROVE  /\ BitmapOK(bitmap_and(lhs, rhs), n) /\ BitmapOK(bitmap_or(lhs, rhs), n)
         /\ \A i \in 0 .. n - 1 :
              /\ Bit(bitmap_and(lhs, rhs), i) <=> Bit(lhs, i) /\ Bit(rhs, i)
              /\ Bit(bitmap_or(lhs, rhs), i) <=> Bit(lhs, i) \/ Bit(rhs, i)
<1>1. PICK a, o : a = bitmap_and(lhs, rhs) /\ o = bitmap_or(lhs, rhs)
  OBVIOUS
<1>2. PICK N \in Nat : N = Bytes(n)
  BY BytesAre
<1> DEFINE S == SUBSET (0 .. ByteBits - 1)
<1>3. lhs \in Seq(S) /\ Len(lhs) = N /\ rhs \in Seq(S) /\ Len(rhs) = N
  BY <1>2 DEF BitmapOK
<1>4. DOMAIN lhs = 1 .. N /\ \A k \in 1 .. N : lhs[k] \in S /\ rhs[k] \in S
  BY <1>3
<1>5. a = [k \in 1 .. N |-> lhs[k] \cap rhs[k]] /\ o = [k \in 1 .. N |-> lhs[k] \cup rhs[k]]
  BY <1>1, <1>4 DEF bitmap_and, bitmap_or
<1>6. \A k \in 1 .. N : a[k] \in S /\ o[k] \in S
  BY <1>4, <1>5
<1>7. \A i \in 0 .. n - 1 : i \div ByteBits + 1 \in 1 .. N
  BY <1>2, RowInBytes
<1>8. \A i \in 0 .. n - 1 : /\ Bit(a, i) <=> Bit(lhs, i) /\ Bit(rhs, i)
                            /\ Bit(o, i) <=> Bit(lhs, i) \/ Bit(rhs, i)
  BY <1>5, <1>7 DEF Bit
<1> HIDE DEF S
<1>9. a \in [1 .. N -> S] /\ o \in [1 .. N -> S]
  BY <1>5, <1>6
<1>10. a \in Seq(S) /\ Len(a) = N /\ o \in Seq(S) /\ Len(o) = N
  BY <1>9
<1>11. BitmapOK(a, n) /\ BitmapOK(o, n)
  BY <1>2, <1>10 DEF BitmapOK, S
<1> QED
  BY <1>1, <1>8, <1>11

\* A bitmap of the rows whose records pass a statement.
Marks(bitmap, s, t) ==
  /\ BitmapOK(bitmap, t.rows)
  /\ \A i \in 0 .. t.rows - 1 : Bit(bitmap, i) <=> EvalRecord(s, TableRecords(t)[i + 1])

\* A comparison marks the rows whose records pass it: NULLs do not, but for
\* IS_NULL.
LEMMA ComparisonMarks ==
  ASSUME NEW t, TableLoaded(t), NEW s \in Statements, s.kind \notin Operations
  PROVE  Marks(EvalComparison(s, t.columns), s, t)
<1>1. PICK n \in Nat : n = t.rows
  BY DEF TableLoaded
<1>2. /\ s.column \in Columns
      /\ Types[s.column] = "INT32" /\ s.op \notin {"IS_NULL", "IS_NOT_NULL"} =>
           ToInt32(s.value) = s.value
  BY StatementAssumption DEF Operations
<1>3. PICK c \in Columns : c = s.column
  BY <1>2
<1>4. PICK type \in DataTypes : type = Types[c]
  BY ColumnTypes
<1>5. PICK col : col = t.columns[c]
  OBVIOUS
<1>6. Loaded(type, col, n) /\ BitmapOK(col.bitmap, n)
  BY <1>1, <1>4, <1>5 DEF TableLoaded, Loaded, ColumnOK, BitmapOK
<1>7. PICK records : records = TableRecords(t)
  OBVIOUS
<1>8. \A i \in 0 .. n - 1 : records[i + 1][c] = RowValue(type, col, i)
  <2>1. \A r \in 1 .. n : records[r][c] = RowValue(type, col, r - 1)
    BY <1>1, <1>4, <1>5, <1>7, RecordsAre
  <2>2. \A i \in 0 .. n - 1 : i + 1 \in 1 .. n /\ (i + 1) - 1 = i
    OBVIOUS
  <2> QED BY <2>1, <2>2
<1>9. \A i \in 0 .. n - 1 : Bit(col.bitmap, i) <=> RowValue(type, col, i) # Null
  BY <1>6 DEF Loaded, RowValue
<1>10. \A record : EvalRecord(s, record) <=> CompareRecord(s, record)
  <2>1. s.kind # "AND" /\ s.kind # "OR" /\ s.kind # "NOT"
    BY DEF Operations
  <2> QED BY <2>1, RecordSteps
<1>11. PICK bitmap : bitmap = EvalComparison(s, t.columns)
  OBVIOUS
<1>12. CASE s.op = "IS_NULL"
  <2>1. bitmap = bitmap_not(col.bitmap)
    BY <1>3, <1>5, <1>11, <1>12 DEF EvalComparison
  <2>2. BitmapOK(bitmap, n) /\ \A i \in 0 .. n - 1 : Bit(bitmap, i) <=> ~Bit(col.bitmap, i)
    BY <1>6, <2>1, Negated
  <2>3. \A i \in 0 .. n - 1 : CompareRecord(s, records[i + 1]) <=> RowValue(type, col, i) = Null
    BY <1>3, <1>8, <1>12 DEF CompareRecord
  <2> QED BY <1>1, <1>7, <1>9, <1>10, <1>11, <2>2, <2>3 DEF Marks
<1>13. CASE s.op = "IS_NOT_NULL"
  <2>1. bitmap = col.bitmap
    BY <1>3, <1>5, <1>11, <1>13 DEF EvalComparison
  <2>3. \A i \in 0 .. n - 1 : CompareRecord(s, records[i + 1]) <=> RowValue(type, col, i) # Null
    BY <1>3, <1>8, <1>13 DEF CompareRecord
  <2> QED BY <1>1, <1>6, <1>7, <1>9, <1>10, <1>11, <2>1, <2>3 DEF Marks
<1>14. CASE s.op \notin {"IS_NULL", "IS_NOT_NULL"} /\ type = "INT32"
  <2>1. PICK keep : keep = { i \in 0 .. n - 1 : IntTest(s.op, col.data[i + 1], s.value) }
    OBVIOUS
  <2>2. bitmap = CompareInts(col, s.op, s.value)
    BY <1>2, <1>3, <1>4, <1>5, <1>11, <1>14 DEF EvalComparison
  <2>3. bitmap = Kept(col.bitmap, n, keep)
    BY <1>6, <1>14, <2>1, <2>2, CompareIntsIs
  <2>4. /\ BitmapOK(bitmap, n)
        /\ \A i \in 0 .. n - 1 : Bit(bitmap, i) <=> Bit(col.bitmap, i) /\ i \in keep
    BY <1>6, <2>3, KeptBits
  <2>5. ASSUME NEW i \in 0 .. n - 1
        PROVE  CompareRecord(s, records[i + 1]) <=> Bit(col.bitmap, i) /\ i \in keep
    <3>1. PICK v : v = RowValue(type, col, i)
      OBVIOUS
    <3>2. CompareRecord(s, records[i + 1]) <=> v # Null /\ IntTest(s.op, v, s.value)
      BY <1>3, <1>4, <1>8, <1>14, <3>1 DEF CompareRecord
    <3>3. Bit(col.bitmap, i) => v = col.data[i + 1]
      BY <1>14, <3>1 DEF RowValue
    <3>4. i \in keep <=> IntTest(s.op, col.data[i + 1], s.value)
      BY <2>1
    <3> QED BY <1>9, <3>1, <3>2, <3>3, <3>4
  <2> QED BY <1>1, <1>7, <1>10, <1>11, <2>4, <2>5 DEF Marks
<1>15. CASE s.op \notin {"IS_NULL", "IS_NOT_NULL"} /\ type = "VARCHAR"
  <2>1. PICK keep : keep = { i \in 0 .. n - 1 : StringTest(s.op, get_string(col, i), s.value) }
    OBVIOUS
  <2>2. bitmap = CompareStrings(col, s.op, s.value)
    BY <1>2, <1>3, <1>4, <1>5, <1>11, <1>15 DEF EvalComparison
  <2>3. bitmap = Kept(col.bitmap, n, keep)
    BY <1>6, <1>15, <2>1, <2>2, CompareStringsIs
  <2>4. /\ BitmapOK(bitmap, n)
        /\ \A i \in 0 .. n - 1 : Bit(bitmap, i) <=> Bit(col.bitmap, i) /\ i \in keep
    BY <1>6, <2>3, KeptBits
  <2>5. ASSUME NEW i \in 0 .. n - 1
        PROVE  CompareRecord(s, records[i + 1]) <=> Bit(col.bitmap, i) /\ i \in keep
    <3>1. PICK v : v = RowValue(type, col, i)
      OBVIOUS
    <3>2. CompareRecord(s, records[i + 1]) <=> v # Null /\ StringTest(s.op, v, s.value)
      BY <1>3, <1>4, <1>8, <1>15, <3>1 DEF CompareRecord
    <3>3. Bit(col.bitmap, i) => v = get_string(col, i)
      BY <1>15, <3>1 DEF RowValue
    <3>4. i \in keep <=> StringTest(s.op, get_string(col, i), s.value)
      BY <2>1
    <3> QED BY <1>9, <3>1, <3>2, <3>3, <3>4
  <2> QED BY <1>1, <1>7, <1>10, <1>11, <2>4, <2>5 DEF Marks
<1> QED
  BY <1>12, <1>13, <1>14, <1>15 DEF DataTypes

\* The two evaluations of a statement, over columns and over records, agree.
LEMMA StatementMarks ==
  ASSUME NEW t, TableLoaded(t)
  PROVE  \A s \in Statements : Marks(EvalColumns(s, t.columns), s, t)
<1> DEFINE T == { s \in Statements : Marks(EvalColumns(s, t.columns), s, t) }
<1>1. PICK columns : columns = t.columns
  OBVIOUS
<1>2. PICK n \in Nat : n = t.rows
  BY DEF TableLoaded
<1>3. ASSUME NEW s \in Statements,
             s.kind \in Operations => s.left \in T, s.kind \in {"AND", "OR"} => s.right \in T
      PROVE  s \in T
  <2>1. s.kind \in Operations => s.left \in Statements /\ Marks(EvalColumns(s.left, columns), s.left, t)
    BY <1>1, <1>3
  <2>2. s.kind \in {"AND", "OR"} => s.right \in Statements /\ Marks(EvalColumns(s.right, columns), s.right, t)
    BY <1>1, <1>3
  <2>3. CASE s.kind \notin Operations
    <3>1. EvalColumns(s, columns) = EvalComparison(s, columns)
      BY <2>3, ColumnsSteps DEF Operations
    <3> QED BY <1>1, <2>3, <3>1, ComparisonMarks
  <2>4. CASE s.kind = "NOT"
    <3>1. EvalColumns(s, columns) = bitmap_not(EvalColumns(s.left, columns))
      BY <2>4, ColumnsSteps
    <3>2. \A record : EvalRecord(s, record) <=> ~EvalRecord(s.left, record)
      BY <2>4, RecordSteps
    <3>3. Marks(EvalColumns(s.left, columns), s.left, t)
      BY <2>1, <2>4 DEF Operations
    <3>4. Marks(EvalColumns(s, columns), s, t)
      BY <1>2, <3>1, <3>2, <3>3, Negated DEF Marks
    <3> QED BY <1>1, <3>4
  <2>5. CASE s.kind = "AND"
    <3>1. EvalColumns(s, columns) = bitmap_and(EvalColumns(s.left, columns), EvalColumns(s.right, columns))
      BY <2>5, ColumnsSteps
    <3>2. \A record : EvalRecord(s, record) <=> EvalRecord(s.left, record) /\ EvalRecord(s.right, record)
      BY <2>5, RecordSteps
    <3>3. Marks(EvalColumns(s.left, columns), s.left, t) /\ Marks(EvalColumns(s.right, columns), s.right, t)
      BY <2>1, <2>2, <2>5 DEF Operations
    <3>4. Marks(EvalColumns(s, columns), s, t)
      BY <1>2, <3>1, <3>2, <3>3, Joined DEF Marks
    <3> QED BY <1>1, <3>4
  <2>6. CASE s.kind = "OR"
    <3>1. EvalColumns(s, columns) = bitmap_or(EvalColumns(s.left, columns), EvalColumns(s.right, columns))
      BY <2>6, ColumnsSteps
    <3>2. \A record : EvalRecord(s, record) <=> EvalRecord(s.left, record) \/ EvalRecord(s.right, record)
      BY <2>6, RecordSteps
    <3>3. Marks(EvalColumns(s.left, columns), s.left, t) /\ Marks(EvalColumns(s.right, columns), s.right, t)
      BY <2>1, <2>2, <2>6 DEF Operations
    <3>4. Marks(EvalColumns(s, columns), s, t)
      BY <1>2, <3>1, <3>2, <3>3, Joined DEF Marks
    <3> QED BY <1>1, <3>4
  <2> QED BY <2>3, <2>4, <2>5, <2>6 DEF Operations
<1> HIDE DEF T
<1>4. \A s \in Statements : s \in T
  BY <1>3, StatementInduction
<1> QED
  BY <1>4 DEF T
-----------------------------------------------------------------------------
(* ColumnInserter: what a reader finds in its pages are the values that    *)
(* have been inserted, but for those of the page that is being written.    *)

InserterOK(type, w, done) ==
  /\ WriterOK(type, w)
  /\ Consistent(Int, type, w)
  /\ \E u : Reads(type, w.pages, u) /\ done = u \o Written(type, w)

\* An inserter that has inserted nothing.
LEMMA NothingInserted ==
  ASSUME NEW type \in DataTypes
  PROVE  InserterOK(type, NewWriter, <<>>)
<1>1. VectorsOK(Int, type, TRUE, NewWriter, <<>>)
  BY NothingWritten
<1>2. Consistent(Int, type, NewWriter) /\ ~ShortBitmap(NewWriter.pages)
  BY <1>1 DEF VectorsOK
<1>3. \E u : Reads(type, NewWriter.pages, u) /\ <<>> = u \o Written(type, NewWriter)
  BY <1>1, <1>2 DEF VectorsOK
<1> QED
  BY <1>2, <1>3, EmptyWriter DEF InserterOK

\* A page that is full is written out.
LEMMA SaveReads ==
  ASSUME NEW type \in DataTypes, NEW w, NEW done, InserterOK(type, w, done), w.rows # 0,
         NEW n, n = SaveInserted(w)
  PROVE  InserterOK(type, n, done) /\ n.rows = 0 /\ IsSequence(done)
<1>1. WriterOK(type, w) /\ Consistent(Int, type, w) /\ w.rows \in Nat /\ IsSequence(w.pages)
  BY DEF InserterOK, WriterOK, PagesOK
<1>2. PICK u : Reads(type, w.pages, u) /\ done = u \o Written(type, w)
  BY DEF InserterOK
<1>3. PICK p : p = PageOf(w, Bytes(w.rows))
  OBVIOUS
<1>4. /\ p.rows = w.rows /\ p.items = w.items /\ p.chars = w.chars /\ p.bytes = Bytes(w.rows)
      /\ p.bits = { b \in w.bits : b < Bytes(w.rows) * ByteBits }
  BY <1>3 DEF PageOf
<1>5. /\ n.pages = Append(w.pages, p) /\ n.rows = 0 /\ n.items = <<>> /\ n.chars = <<>>
      /\ n.bits = w.bits
  <2>1. PICK g, r, i, c, t, y :
          w = [pages |-> g, rows |-> r, items |-> i, chars |-> c, bits |-> t, bytes |-> y]
    BY <1>1 DEF WriterOK, IsWriter
  <2>2. PICK a, e, z : a = Append(g, p) /\ e = <<>> /\ z = 0
    OBVIOUS
  <2>3. n = [w EXCEPT !.pages = a, !.rows = z, !.items = e, !.chars = e]
    BY <1>3, <2>1, <2>2 DEF SaveInserted
  <2>4. n = [pages |-> a, rows |-> z, items |-> e, chars |-> e, bits |-> t, bytes |-> y]
    BY <2>1, <2>3
  <2> QED BY <2>1, <2>2, <2>4
<1>6. WriterOK(type, n)
  BY <1>1, SaveOK
<1>7. \A j \in 0 .. w.rows - 1 : j \in p.bits <=> j \in w.bits
  <2>4. PICK r \in Nat : r = w.rows
    BY <1>1
  <2>5. Bytes(r) \in Nat /\ r <= ByteBits * Bytes(r)
    BY BytesOfRows
  <2>6. ByteBits \in Nat \ {0}
    BY PageSizes
  <2>1. PICK B \in Nat \ {0}, N \in Nat : B = ByteBits /\ N = Bytes(w.rows) /\ w.rows <= B * N
    BY <2>4, <2>5, <2>6
  <2>2. B * N = N * B /\ B * N \in Nat
    OBVIOUS
  <2>3. \A j \in 0 .. w.rows - 1 : j < N * B
    BY <1>1, <2>1, <2>2
  <2> QED BY <1>4, <2>1, <2>3
<1>8. Consistent(Int, type, p) /\ Written(type, p) = Written(type, w)
  BY <1>1, <1>4, <1>7, SameRowsWritten
<1>9. IsText(p)
  <2>1. DataEnd(type, w) \in Nat /\ DataEnd(type, w) >= 4
    BY <1>1, ConsistentLengths, EndOfData
  <2>2. Bytes(w.rows) \in Nat /\ DataEnd(type, w) + Bytes(w.rows) <= PageSize
    BY <1>1, BytesOfRows DEF WriterOK
  <2>3. Bytes(w.rows) <= PageSize - 4
    BY <2>1, <2>2, PageSizes
  <2>4. w.rows < 65534
    BY <1>1, <2>3, RowsAreNoHeader
  <2> QED BY <1>1, <1>4, <2>4 DEF IsText, LongHeader, RestHeader
<1>10. Reads(type, n.pages, done) /\ IsSequence(done)
  <2>1. p.bytes = Bytes(p.rows)
    BY <1>4
  <2>2. Reads(type, Append(w.pages, p), u \o Written(type, p))
    BY <1>1, <1>2, <1>8, <1>9, <2>1, ReadsOnePage
  <2> QED BY <1>2, <1>5, <1>8, <2>2 DEF Reads
<1>11. Consistent(Int, type, n)
  <2>1. DataBits(n, 0) = 0
    <3>1. { j \in 0 .. 0 - 1 : j \in n.bits } = {}
      OBVIOUS
    <3> QED BY <3>1, FS_EmptySet DEF DataBits
  <2>2. <<>> \in Seq(Int) /\ <<>> \in Seq(Nat) /\ Len(<<>>) = 0
    OBVIOUS
  <2>3. \A k \in 1 .. Len(n.items) : FALSE
    BY <1>5, <2>2
  <2>4. n.rows \in Nat /\ DataBits(n, n.rows) = Len(n.items)
    BY <1>5, <2>1, <2>2
  <2> QED BY <1>5, <2>2, <2>3, <2>4 DEF Consistent
<1>12. done = done \o Written(type, n)
  <2>1. Written(type, n) = <<>>
    BY <1>5, WrittenNothing
  <2> QED BY <1>10, <2>1, SequenceLaws, ZenonT(30)
<1> QED
  BY <1>5, <1>6, <1>10, <1>11, <1>12 DEF InserterOK

\* Nothing is on the page.
LEMMA PageIsEmpty ==
  ASSUME NEW type \in DataTypes, NEW w, NEW done, InserterOK(type, w, done), w.rows = 0
  PROVE  Reads(type, w.pages, done) /\ IsSequence(done)
<1>1. PICK u : Reads(type, w.pages, u) /\ done = u \o Written(type, w)
  BY DEF InserterOK
<1>2. Written(type, w) = <<>> /\ IsSequence(u)
  BY <1>1, WrittenNothing DEF Reads
<1>3. u \o <<>> = u
  BY <1>2, SequenceLaws, ZenonT(30)
<1> QED
  BY <1>1, <1>2, <1>3

\* Before a value, if there is no room.
LEMMA RoomReads ==
  ASSUME NEW type \in DataTypes, NEW w, NEW done, InserterOK(type, w, done),
         NEW extra \in Nat, extra + 5 <= PageSize, NEW room, room = Room(type, w, extra)
  PROVE  /\ InserterOK(type, room, done)
         /\ DataEnd(type, room) + extra + room.rows \div ByteBits + 1 <= PageSize
<1>1. WriterOK(type, w)
  BY DEF InserterOK
<1>2. DataEnd(type, room) + extra + room.rows \div ByteBits + 1 <= PageSize
  BY <1>1, RoomOK
<1>3. CASE PageFull(type, w, extra)
  <2>1. w.rows # 0
    <3> SUFFICES ASSUME w.rows = 0 PROVE FALSE
      OBVIOUS
    <3>1. DataEnd(type, w) = 4 /\ w.rows \div ByteBits = 0
      <4>1. DataEnd(type, w) = 4
        BY <1>1, DataEndType DEF WriterOK
      <4> QED BY <4>1, PageSizes
    <3> QED BY <1>3, <3>1, PageSizes DEF PageFull
  <2> QED BY <1>2, <1>3, <2>1, SaveReads DEF Room
<1>4. CASE ~PageFull(type, w, extra)
  BY <1>2, <1>4 DEF Room
<1> QED
  BY <1>3, <1>4

\* One more row on the page.
LEMMA RowReads ==
  ASSUME NEW type \in DataTypes, NEW w, NEW done, InserterOK(type, w, done), NEW n, NEW v,
         WriterOK(type, n), n.pages = w.pages, Consistent(Int, type, n),
         Written(type, n) = Append(Written(type, w), v)
  PROVE  InserterOK(type, n, Append(done, v))
<1>1. PICK u : Reads(type, w.pages, u) /\ done = u \o Written(type, w)
  BY DEF InserterOK
<1>2. IsSequence(u) /\ IsSequence(Written(type, w))
  BY <1>1, WrittenType DEF Reads, InserterOK
<1>3. u \o Append(Written(type, w), v) = Append(u \o Written(type, w), v)
  BY <1>2, SequenceLaws
<1> QED
  BY <1>1, <1>3 DEF InserterOK

\* A number, a short string.
LEMMA ShortReads ==
  ASSUME NEW type \in DataTypes, NEW w, NEW done, InserterOK(type, w, done),
         NEW v \in ValuesOf(type), ~(type = "VARCHAR" /\ IsLong(v))
  PROVE  InserterOK(type, InsertShort(type, w, v), Append(done, v))
<1>1. PICK extra : extra = ExtraBytes(type, v)
  OBVIOUS
<1>2. extra \in Nat /\ extra + 5 <= PageSize
  <2>1. CASE type = "INT32"
    BY <1>1, <2>1, PageSizes DEF ExtraBytes, ItemBytes
  <2>2. CASE type = "VARCHAR"
    <3>1. v \in Seq(Int) /\ Len(v) <= PageSize - 7
      BY <2>2, PageSizes DEF ValuesOf, IsLong
    <3>2. extra = 2 + Len(v) /\ Len(v) \in Nat
      BY <1>1, <2>2, <3>1 DEF ExtraBytes, ItemBytes
    <3> QED BY <3>1, <3>2, PageSizes
  <2> QED BY <2>1, <2>2 DEF DataTypes
<1>3. PICK room : room = Room(type, w, extra)
  OBVIOUS
<1>4. /\ InserterOK(type, room, done)
      /\ DataEnd(type, room) + extra + room.rows \div ByteBits + 1 <= PageSize
  BY <1>2, <1>3, RoomReads
<1>5. PICK n, bits : bits = room.bits \cup {room.rows} /\ n = AddValue(type, [room EXCEPT !.bits = bits], v)
  OBVIOUS
<1>6. n = InsertShort(type, w, v)
  <2>1. InsertShort(type, w, v) = AddValue(type, [room EXCEPT !.bits = room.bits \cup {room.rows}], v)
    BY <1>1, <1>3 DEF InsertShort, Room
  <2> QED BY <1>5, <2>1
<1>7. WriterOK(type, room) /\ Consistent(Int, type, room)
  BY <1>4 DEF InserterOK
<1>8. WriterOK(type, n)
  <2>1. WriterOK(type, InsertShort(type, w, v))
    BY InsertShortOK DEF InserterOK
  <2> QED BY <1>6, <2>1
<1>9. n.pages = room.pages /\ Added(type, n, room, v)
  <2>1. PICK g, r, i, c, t, y :
          room = [pages |-> g, rows |-> r, items |-> i, chars |-> c, bits |-> t, bytes |-> y]
    BY <1>7 DEF WriterOK, IsWriter
  <2>2. PICK m : m = [pages |-> g, rows |-> r, items |-> i, chars |-> c, bits |-> bits, bytes |-> y]
    OBVIOUS
  <2>3. m = [room EXCEPT !.bits = bits]
    BY <2>1, <2>2
  <2>4. bits = t \cup {r} /\ r \in Nat
    BY <1>5, <1>7, <2>1 DEF WriterOK
  <2>5. r \in bits /\ \A j \in 0 .. r - 1 : j \in bits <=> j \in t
    BY <2>4
  <2>6. CASE type = "INT32"
    <3>1. n = [m EXCEPT !.rows = @ + 1, !.items = Append(@, v)]
      BY <1>5, <2>3, <2>6 DEF AddValue
    <3>2. n = [pages |-> g, rows |-> r + 1, items |-> Append(i, v), chars |-> c,
               bits |-> bits, bytes |-> y]
      BY <2>2, <3>1
    <3> QED BY <2>1, <2>5, <2>6, <3>2 DEF Added
  <2>7. CASE type = "VARCHAR"
    <3>1. n = [m EXCEPT !.rows = @ + 1, !.chars = @ \o v, !.items = Append(@, Len(m.chars) + Len(v))]
      BY <1>5, <2>3, <2>7 DEF AddValue
    <3>2. PICK z, a : z = c \o v /\ a = Append(i, Len(c) + Len(v))
      OBVIOUS
    <3>3. n = [pages |-> g, rows |-> r + 1, items |-> a, chars |-> z, bits |-> bits, bytes |-> y]
      BY <2>2, <3>1, <3>2
    <3>4. n.pages = g /\ n.rows = r + 1 /\ n.items = a /\ n.chars = z /\ n.bits = bits
      BY <3>3
    <3>5. room.pages = g /\ room.rows = r /\ room.items = i /\ room.chars = c /\ room.bits = t
      BY <2>1
    <3> QED BY <2>5, <2>7, <3>2, <3>4, <3>5 DEF Added
  <2> QED BY <2>6, <2>7 DEF DataTypes
<1>10. ValueIn(Int, type, v)
  BY DEF ValuesOf, ValueIn
<1>11. Consistent(Int, type, n) /\ Written(type, n) = Append(Written(type, room), v)
  BY <1>7, <1>9, <1>10, AddedValue
<1> QED
  BY <1>4, <1>6, <1>8, <1>9, <1>11, RowReads

\* A NULL.
LEMMA NullReads ==
  ASSUME NEW type \in DataTypes, NEW w, NEW done, InserterOK(type, w, done)
  PROVE  InserterOK(type, InsertNull(type, w), Append(done, Null))
<1>1. PICK room : room = Room(type, w, 0)
  OBVIOUS
<1>2. InserterOK(type, room, done)
  BY <1>1, PageSizes, RoomReads
<1>3. PICK n : n = InsertNull(type, w)
  OBVIOUS
<1>4. WriterOK(type, n)
  BY <1>3, InsertNullOK DEF InserterOK
<1>5. WriterOK(type, room) /\ Consistent(Int, type, room)
  BY <1>2 DEF InserterOK
<1>6. /\ n.pages = room.pages /\ n.rows = room.rows + 1 /\ n.items = room.items /\ n.chars = room.chars
      /\ n.bits = room.bits \ {room.rows} /\ room.rows \in Nat
  <2>1. PICK g, r, i, c, t, y :
          room = [pages |-> g, rows |-> r, items |-> i, chars |-> c, bits |-> t, bytes |-> y]
    BY <1>5 DEF WriterOK, IsWriter
  <2>2. PICK bits, next : bits = t \ {r} /\ next = r + 1
    OBVIOUS
  <2>6. n = [room EXCEPT !.bits = room.bits \ {room.rows}, !.rows = room.rows + 1]
    BY <1>1, <1>3 DEF InsertNull, Room
  <2>3. n = [room EXCEPT !.bits = bits, !.rows = next]
    BY <2>1, <2>2, <2>6
  <2>4. n = [pages |-> g, rows |-> next, items |-> i, chars |-> c, bits |-> bits, bytes |-> y]
    BY <2>1, <2>3
  <2>5. room.rows \in Nat
    BY <1>5 DEF WriterOK
  <2> QED BY <2>1, <2>2, <2>4, <2>5
<1>7. room.rows \notin n.bits /\ \A j \in 0 .. room.rows - 1 : j \in n.bits <=> j \in room.bits
  BY <1>6
<1>8. Consistent(Int, type, n) /\ Written(type, n) = Append(Written(type, room), Null)
  BY <1>5, <1>6, <1>7, AddedNull
<1> QED
  BY <1>2, <1>3, <1>4, <1>6, <1>8, RowReads

\* A long string, over pages of its own.
LEMMA LongReads ==
  ASSUME NEW w, NEW done, InserterOK("VARCHAR", w, done), NEW s \in Seq(Int), IsLong(s)
  PROVE  InserterOK("VARCHAR", InsertLong(w, s), Append(done, s))
<1> DEFINE type == "VARCHAR"
<1>1. PICK saved : saved = IF w.rows > 0 THEN SaveInserted(w) ELSE w
  OBVIOUS
<1>2. w.rows \in Nat
  BY DEF InserterOK, WriterOK
<1>3. InserterOK(type, saved, done) /\ saved.rows = 0
  <2>1. type \in DataTypes
    BY DEF DataTypes
  <2>2. CASE w.rows > 0
    BY <1>1, <1>2, <2>1, <2>2, SaveReads
  <2>3. CASE w.rows = 0
    BY <1>1, <2>3
  <2> QED BY <1>2, <2>2, <2>3
<1>4. PICK n : n = InsertLong(w, s)
  OBVIOUS
<1>5. WriterOK(type, n)
  BY <1>4, InsertLongOK DEF InserterOK
<1>6. WriterOK(type, saved) /\ Consistent(Int, type, saved) /\ IsSequence(saved.pages)
  BY <1>3 DEF InserterOK, WriterOK, PagesOK
<1>7. /\ n.pages = saved.pages \o LongPages(s) /\ n.rows = 0 /\ n.items = saved.items
      /\ n.chars = saved.chars /\ n.bits = saved.bits
  <2>1. PICK g, r, i, c, t, y :
          saved = [pages |-> g, rows |-> r, items |-> i, chars |-> c, bits |-> t, bytes |-> y]
    BY <1>6 DEF WriterOK, IsWriter
  <2>2. PICK a : a = g \o LongPages(s)
    OBVIOUS
  <2>5. n = [saved EXCEPT !.pages = saved.pages \o LongPages(s)]
    BY <1>1, <1>4 DEF InsertLong
  <2>3. n = [saved EXCEPT !.pages = a]
    BY <2>1, <2>2, <2>5
  <2>4. n = [pages |-> a, rows |-> r, items |-> i, chars |-> c, bits |-> t, bytes |-> y]
    BY <2>1, <2>3
  <2> QED BY <1>3, <2>1, <2>2, <2>4
<1>8. s # <<>>
  BY PageSizes DEF IsLong
<1>9. Reads(type, saved.pages, done) /\ IsSequence(done)
  BY <1>3, PageIsEmpty DEF DataTypes
<1>10. Reads(type, n.pages, Append(done, s))
  BY <1>6, <1>7, <1>8, <1>9, ReadsLongString
<1>11. Consistent(Int, type, n)
  BY <1>3, <1>6, <1>7, SameRowsWritten
<1>12. Append(done, s) = Append(done, s) \o Written(type, n)
  <2>1. Written(type, n) = <<>>
    BY <1>7, WrittenNothing
  <2>2. IsSequence(Append(done, s))
    BY <1>9, SequenceLaws
  <2> QED BY <2>1, <2>2, SequenceLaws, ZenonT(30)
<1> QED
  BY <1>4, <1>5, <1>10, <1>11, <1>12 DEF InserterOK

\* insert, of either kind.
LEMMA InsertReads ==
  ASSUME NEW type \in DataTypes, NEW w, NEW done, InserterOK(type, w, done),
         NEW v \in ValuesOf(type)
  PROVE  InserterOK(type, Insert(type, w, v), Append(done, v))
<1>1. CASE type = "VARCHAR" /\ IsLong(v)
  <2>1. v \in Seq(Int)
    BY <1>1 DEF ValuesOf
  <2> QED BY <1>1, <2>1, LongReads DEF Insert
<1>2. CASE ~(type = "VARCHAR" /\ IsLong(v))
  <2>1. Insert(type, w, v) = InsertShort(type, w, v)
    BY <1>2 DEF Insert
  <2> QED BY <1>2, <2>1, ShortReads
<1> QED
  BY <1>1, <1>2

\* The last page is written out.
LEMMA FinalizeReads ==
  ASSUME NEW type \in DataTypes, NEW w, NEW done, InserterOK(type, w, done)
  PROVE  InserterOK(type, Finalize(w), done) /\ Finalize(w).rows = 0
BY SaveReads DEF Finalize

\* A page written out is read, whatever is written after it.
LEMMA InsertedIsRead ==
  ASSUME NEW type \in DataTypes, NEW w, NEW done, InserterOK(type, w, done), w.rows = 0
  PROVE  IsSequence(done) /\ \A junk : from_columnar(type, w.pages, junk) = done
<1>1. Reads(type, w.pages, done) /\ IsSequence(done)
  BY PageIsEmpty
<1>2. IsSequence(w.pages)
  BY DEF InserterOK, WriterOK, PagesOK
<1> QED
  BY <1>1, <1>2, ReadIs DEF Reads
-----------------------------------------------------------------------------
(* The inductive invariant: what the table holds is the first part of the  *)
(* file, what a column thread has inserted are the values of its column in *)
(* the rows it has passed, and what is returned and cached reads as the    *)
(* records chosen.                                                         *)

\* How many records of the file are in the table.
RowsRead == IF ~Header THEN field[1] - 1 ELSE IF field[1] = 1 THEN 0 ELSE field[1] - 2

CallOK ==
  /\ files \in [Paths -> Contents]
  /\ phase \in {"idle", "lookup", "parse", "eval", "convert", "done", "failed"}
  /\ path \in Paths /\ filter \in Filters
  /\ field \in (Nat \ {0}) \X Columns
  /\ ret_rows \in Nat
  /\ calls \in 0 .. MaxCalls /\ rewrites \in 0 .. MaxRewrites

\* The fields of the record that is being read.
FieldsOK ==
  IF IsHeader THEN last_record = <<>>
  ELSE /\ IsSequence(last_record)
       /\ Len(last_record) = field[2] - 1
       /\ \A j \in 1 .. field[2] - 1 :
            /\ last_record[j] \in ValuesOf(Types[j]) \cup {Null}
            /\ last_record[j] = Value(files[path][field[1]][j])
            /\ files[path][field[1]][j] # Bad

ParseOK ==
  phase = "parse" =>
    /\ table_cache[path] = <<>>
    /\ field[1] <= Len(files[path]) + 1
    /\ table.rows = RowsRead
    /\ \A r \in 1 .. table.rows : TableRecords(table)[r] = FileRecords(files[path])[r]
    /\ \A r \in 1 .. field[1] - 1 : \A c \in Columns :
         files[path][r][c] = Bad => Header /\ r = 1
    /\ FieldsOK

TablesOK ==
  /\ TableLoaded(table)
  /\ table_cache = [p \in Paths |-> table_cache[p]]
  /\ \A p \in Paths : table_cache[p] # <<>> => TableLoaded(table_cache[p][1])
  /\ phase \in {"eval", "convert"} => table_cache[path] # <<>> /\ table_cache[path][1] = table

WritersOK ==
  /\ at = [c \in Columns |-> at[c]]
  /\ writers = [c \in Columns |-> writers[c]]
  /\ \A c \in Columns : at[c] \in Nat /\ WriterOK(Types[c], writers[c])

\* A bitmap of the records that a filter accepts.
Selects(bitmap, t, f) ==
  /\ BitmapOK(bitmap, t.rows)
  /\ \A i \in 0 .. t.rows - 1 : Bit(bitmap, i) <=> Accepted(f, TableRecords(t)[i + 1])

\* The writer of a column at row i of a table: all rows, and the end, are passed
\* at one more than there are.
ColumnDone(c, w, i, t, f, count) ==
  /\ i <= t.rows + 1
  /\ InserterOK(Types[c], w,
       ColumnOf(ChosenFrom(TableRecords(t), f)[IF i <= t.rows THEN i ELSE t.rows], c))
  /\ i = t.rows + 1 => w.rows = 0 /\ count = Cardinality(Rows(TableRecords(t), f, t.rows))

ConvertOK ==
  phase = "convert" =>
    /\ Selects(results, table, filter)
    /\ \A c \in Columns : ColumnDone(c, writers[c], at[c], table, filter, ret_rows)

ResultOK(r) == \A c \in Columns : PagesOK(Types[c], r.columns[c])

\* A result that reads as the records chosen.
Answers(r, records, f) ==
  LET chosen == ChosenFrom(records, f)[Len(records)]
  IN  /\ r.num_rows = Len(chosen)
      /\ \A c \in Columns : from_columnar(Types[c], r.columns[c], {}) = ColumnOf(chosen, c)

ResultsOK ==
  /\ ResultOK(ret)
  /\ result_cache = [p \in Paths |-> result_cache[p]]
  /\ \A p \in Paths : result_cache[p] # <<>> =>
       /\ ResultOK(result_cache[p][1])
       /\ table_cache[p] # <<>>
       /\ Answers(result_cache[p][1], TableRecords(table_cache[p][1]), NoFilter)

IInv == CallOK /\ ParseOK /\ TablesOK /\ WritersOK /\ ConvertOK /\ ResultsOK

LEMMA InitInvariant == Init => IInv
<1> SUFFICES ASSUME Init PROVE IInv
  OBVIOUS
<1>1. CallOK
  <2>1. path \in Paths /\ filter \in Filters /\ MaxCalls \in Nat /\ MaxRewrites \in Nat
    BY LoaderAssumption DEF Init
  <2>2. <<1, 1>> \in (Nat \ {0}) \X Columns
    BY ColumnTypes
  <2> QED BY <2>1, <2>2 DEF Init, CallOK
<1>2. ParseOK
  BY DEF Init, ParseOK
<1>3. TablesOK
  BY EmptyTable DEF Init, TablesOK
<1>4. WritersOK
  BY EmptyWriter DEF Init, WritersOK
<1>5. ConvertOK
  BY DEF Init, ConvertOK
<1>6. ResultsOK
  <2>1. \A c \in Columns : PagesOK(Types[c], <<>>)
    BY DEF PagesOK, IsSequence
  <2> QED BY <2>1 DEF Init, ResultsOK, ResultOK
<1> QED
  BY <1>1, <1>2, <1>3, <1>4, <1>5, <1>6 DEF IInv

LEMMA LoadedTable ==
  ASSUME NEW t, TableLoaded(t)
  PROVE  TableOK(t)
<1>1. /\ DOMAIN t = {"rows", "columns"} /\ t.rows \in Nat /\ DOMAIN t.columns = Columns
  BY DEF TableLoaded
<1>2. \A c \in Columns : ColumnOK(Types[c], t.columns[c]) /\ t.columns[c].row = t.rows
  BY DEF TableLoaded, Loaded
<1> QED
  BY <1>1, <1>2 DEF TableOK

\* The types follow.
LEMMA InvariantTypes == IInv => TypeOK
<1> SUFFICES ASSUME IInv PROVE TypeOK
  OBVIOUS
<1>1. CallOK
  BY DEF IInv
<1>2. /\ DOMAIN table_cache = Paths /\ DOMAIN result_cache = Paths
      /\ at \in [Columns -> Nat]
  <2>1. table_cache = [p \in Paths |-> table_cache[p]]
    BY DEF IInv, TablesOK
  <2>2. result_cache = [p \in Paths |-> result_cache[p]]
    BY DEF IInv, ResultsOK
  <2>3. at = [c \in Columns |-> at[c]] /\ \A c \in Columns : at[c] \in Nat
    BY DEF IInv, WritersOK
  <2> QED BY <2>1, <2>2, <2>3
<1>3. TableOK(table) /\ \A p \in Paths : table_cache[p] = <<>> \/ TableOK(table_cache[p][1])
  BY LoadedTable DEF IInv, TablesOK
<1>4. phase = "convert" => Len(results) = Bytes(table.rows)
  BY DEF IInv, ConvertOK, Selects, BitmapOK
<1>5. phase = "parse" /\ ~IsHeader => Len(last_record) = field[2] - 1
  BY DEF IInv, ParseOK, FieldsOK
<1> QED
  BY <1>1, <1>2, <1>3, <1>4, <1>5 DEF TypeOK, CallOK

\* Where the records of a file are in it.
Skipped(content) == IF Header /\ Len(content) # 0 THEN 1 ELSE 0

LEMMA FileRecordsAre ==
  ASSUME NEW content \in Contents
  PROVE  /\ Len(content) \in Nat /\ DOMAIN content = 1 .. Len(content)
         /\ FileRecords(content) =
              [r \in 1 .. Len(content) - Skipped(content) |->
                 [c \in Columns |-> Value(content[r + Skipped(content)][c])]]
<1>1. PICK N \in Nat : N = Len(content) /\ content = [r \in 1 .. N |-> content[r]]
  BY LoaderAssumption
<1>2. PICK S : content \in Seq(S)
  <2> DEFINE V == { content[r] : r \in 1 .. N }
  <2>1. \A r \in 1 .. N : content[r] \in V
    OBVIOUS
  <2> HIDE DEF V
  <2>2. content \in [1 .. N -> V]
    BY <1>1, <2>1
  <2>3. content \in Seq(V)
    BY <2>2
  <2> QED BY <2>3
<1>3. CASE Header /\ N # 0
  <2>1. content # <<>>
    BY <1>1, <1>3
  <2>2. PICK body : body = Tail(content)
    OBVIOUS
  <2>3. DOMAIN body = 1 .. N - 1 /\ \A r \in 1 .. N - 1 : body[r] = content[r + 1]
    BY <1>1, <1>2, <2>1, <2>2
  <2>4. FileRecords(content) = [r \in 1 .. N - 1 |-> [c \in Columns |-> Value(body[r][c])]]
    BY <1>3, <2>1, <2>2, <2>3 DEF FileRecords
  <2>5. FileRecords(content) = [r \in 1 .. N - 1 |-> [c \in Columns |-> Value(content[r + 1][c])]]
    BY <2>3, <2>4
  <2>6. Skipped(content) = 1
    BY <1>1, <1>3 DEF Skipped
  <2> QED BY <1>1, <2>5, <2>6
<1>4. CASE ~(Header /\ N # 0)
  <2>1. Header => content = <<>>
    BY <1>1, <1>2, <1>4
  <2>2. DOMAIN content = 1 .. N
    BY <1>1
  <2>3. FileRecords(content) = [r \in 1 .. N |-> [c \in Columns |-> Value(content[r][c])]]
    BY <2>1, <2>2 DEF FileRecords
  <2>4. Skipped(content) = 0 /\ N - 0 = N /\ \A r \in 1 .. N : r + 0 = r
    BY <1>1, <1>4 DEF Skipped
  <2>5. [r \in 1 .. N |-> [c \in Columns |-> Value(content[r][c])]]
          = [r \in 1 .. N |-> [c \in Columns |-> Value(content[r + 0][c])]]
    BY <2>4
  <2> QED BY <1>1, <2>2, <2>3, <2>4, <2>5
<1> QED
  BY <1>3, <1>4

\* A record of a result; Decoded is that of ret.
DecodedFrom(x, r) ==
  [c \in Columns |->
     LET values == from_columnar(Types[c], x.columns[c], {})
     IN  IF Len(values) = x.num_rows THEN values[r] ELSE Bad]

\* What a reader of the pages finds in a result are the records chosen.
LEMMA AnswersRead ==
  ASSUME NEW x, NEW records, AreRecords(records), NEW f, Answers(x, records, f)
  PROVE  [r \in 1 .. x.num_rows |-> DecodedFrom(x, r)] = Tables!Chosen(records, f)
<1>1. Len(records) \in Nat
  BY DEF AreRecords, IsSequence
<1>2. PICK s : s = ChosenFrom(records, f)[Len(records)]
  OBVIOUS
<1>3. AreRecords(s) /\ s = Tables!Chosen(records, f)
  <2>1. Len(records) \in 0 .. Len(records)
    BY <1>1
  <2> QED BY <1>2, <2>1, ChosenIs, ChosenRecords
<1>4. PICK n \in Nat : n = Len(s) /\ s = [r \in 1 .. n |-> s[r]] /\ DOMAIN s = 1 .. n
  <2>1. PICK S : s \in Seq(S)
    BY <1>3 DEF AreRecords, IsSequence
  <2> QED BY <2>1
<1>5. x.num_rows = n /\ \A c \in Columns : from_columnar(Types[c], x.columns[c], {}) = ColumnOf(s, c)
  BY <1>2, <1>4 DEF Answers
<1>6. ASSUME NEW r \in 1 .. n PROVE DecodedFrom(x, r) = s[r]
  <2>1. ASSUME NEW c \in Columns
        PROVE  /\ Len(ColumnOf(s, c)) = n /\ ColumnOf(s, c)[r] = s[r][c]
    <3>1. Len(ColumnOf(s, c)) = n
      BY <1>3, <1>4, ColumnGrows DEF AreRecords
    <3> QED BY <1>4, <3>1 DEF ColumnOf
  <2>2. DecodedFrom(x, r) = [c \in Columns |-> s[r][c]]
    BY <1>5, <2>1 DEF DecodedFrom
  <2>3. s[r] = [c \in Columns |-> s[r][c]]
    BY <1>3, <1>4 DEF AreRecords
  <2> QED BY <2>2, <2>3
<1> QED
  BY <1>3, <1>4, <1>5, <1>6
-----------------------------------------------------------------------------
(* The file is read.                                                       *)

\* The value of a field that is neither of the header nor malformed.
LEMMA FieldValue ==
  ASSUME IInv, Unread, Text # Bad, ~IsHeader
  PROVE  Value(Text) \in ValuesOf(Types[field[2]]) \cup {Null}
<1> DEFINE content == files[path]
<1>1. content \in Contents /\ field[1] \in Nat \ {0} /\ field[2] \in Columns
      /\ field[1] <= Len(content)
  BY DEF IInv, CallOK, Unread
<1>2. Len(content) \in Nat /\ DOMAIN content = 1 .. Len(content)
  BY <1>1, FileRecordsAre
<1>3. field[1] \in DOMAIN content
  BY <1>1, <1>2
<1>4. content[field[1]][field[2]] \in ValuesOf(Types[field[2]]) \cup {Empty, Bad}
  BY <1>1, <1>3, LoaderAssumption DEF IsHeader
<1> QED
  BY <1>4 DEF Text, Value

\* A field of the header is passed over.
LEMMA HeaderField ==
  ASSUME IInv, on_field, IsHeader
  PROVE  ParseOK' /\ TablesOK'
<1>1. /\ phase = "parse" /\ phase' = "parse"
      /\ field[1] \in Nat \ {0} /\ field[2] \in Columns /\ field[1] <= Len(files[path])
  BY DEF IInv, CallOK, on_field, Unread
<1>2. Len(files[path]) \in Nat
  BY FileRecordsAre DEF IInv, CallOK
<1>3. UNCHANGED <<last_record, table, files, path, table_cache>> /\ last_record = <<>>
  BY <1>1 DEF IInv, ParseOK, FieldsOK, on_field, callVars
<1>4. TablesOK'
  BY <1>1, <1>3 DEF IInv, TablesOK
<1>5. /\ table_cache[path] = <<>> /\ table.rows = RowsRead
      /\ \A r \in 1 .. table.rows : TableRecords(table)[r] = FileRecords(files[path])[r]
      /\ \A r \in 1 .. field[1] - 1 : \A c \in Columns :
           files[path][r][c] = Bad => Header /\ r = 1
  BY <1>1 DEF IInv, ParseOK
<1>6. Header /\ field[1] = 1
  BY DEF IsHeader
<1>7. \/ field' = <<1, field[2] + 1>>
      \/ field' = <<2, 1>>
  BY <1>6 DEF on_field, NextField
<1>8. CASE field' = <<1, field[2] + 1>>
  <2>1. field'[1] = 1
    BY <1>8
  <2>2. RowsRead' = RowsRead /\ IsHeader'
    BY <1>6, <2>1 DEF RowsRead, IsHeader
  <2>3. FieldsOK'
    BY <1>3, <2>2 DEF FieldsOK
  <2> QED BY <1>1, <1>2, <1>3, <1>4, <1>5, <1>6, <2>1, <2>2, <2>3 DEF ParseOK
<1>9. CASE field' = <<2, 1>>
  <2>1. field'[1] = 2 /\ field'[2] = 1
    BY <1>9
  <2>2. RowsRead' = RowsRead /\ ~IsHeader'
    BY <1>6, <2>1 DEF RowsRead, IsHeader
  <2>3. FieldsOK'
    <3>1. IsSequence(<<>>) /\ Len(<<>>) = 0
      BY DEF IsSequence
    <3>2. IsSequence(last_record') /\ Len(last_record') = 0
      BY <1>3, <3>1
    <3> QED BY <2>1, <2>2, <3>2 DEF FieldsOK
  <2>4. \A r \in 1 .. field'[1] - 1 : r = 1
    BY <2>1
  <2>5. field'[1] <= Len(files[path]) + 1
    BY <1>1, <1>2, <1>6, <2>1
  <2> QED BY <1>1, <1>3, <1>4, <1>5, <1>6, <2>2, <2>3, <2>4, <2>5 DEF ParseOK
<1> QED
  BY <1>4, <1>7, <1>8, <1>9

\* A field joins its record.
LEMMA FieldJoins ==
  ASSUME IInv, on_field, ~IsHeader, NEW record, record = Append(last_record, Value(Text))
  PROVE  /\ IsSequence(record) /\ Len(record) = field[2]
         /\ \A j \in 1 .. field[2] :
              /\ record[j] \in ValuesOf(Types[j]) \cup {Null}
              /\ record[j] = Value(files[path][field[1]][j])
              /\ files[path][field[1]][j] # Bad
<1>1. PICK k \in Columns : k = field[2]
  BY DEF IInv, CallOK
<1>2. k \in Nat /\ k >= 1
  BY ColumnTypes
<1>3. /\ IsSequence(last_record) /\ Len(last_record) = k - 1
      /\ \A j \in 1 .. k - 1 :
           /\ last_record[j] \in ValuesOf(Types[j]) \cup {Null}
           /\ last_record[j] = Value(files[path][field[1]][j])
           /\ files[path][field[1]][j] # Bad
  BY <1>1 DEF IInv, ParseOK, FieldsOK, on_field, Unread
<1>4. PICK v : v = Value(Text)
  OBVIOUS
<1>5. /\ Text # Bad /\ Text = files[path][field[1]][k]
      /\ v \in ValuesOf(Types[k]) \cup {Null}
  BY <1>1, <1>4, FieldValue DEF on_field, EndsParse, Text
<1>6. PICK S : last_record \in Seq(S)
  BY <1>3 DEF IsSequence
<1>7. PICK l : l = last_record
  OBVIOUS
<1>8. l \in Seq(S \cup {v}) /\ record = Append(l, v) /\ v \in S \cup {v} /\ Len(l) = k - 1
  BY <1>3, <1>4, <1>6, <1>7
<1>9. /\ record \in Seq(S \cup {v}) /\ Len(record) = k /\ record[k] = v
      /\ \A j \in 1 .. k - 1 : record[j] = l[j]
  BY <1>2, <1>8
<1>10. ASSUME NEW j \in 1 .. k
       PROVE  /\ record[j] \in ValuesOf(Types[j]) \cup {Null}
              /\ record[j] = Value(files[path][field[1]][j])
              /\ files[path][field[1]][j] # Bad
  <2>1. CASE j = k
    BY <1>4, <1>5, <1>9, <2>1
  <2>2. CASE j # k
    <3>1. j \in 1 .. k - 1
      BY <1>2, <2>2
    <3> QED BY <1>3, <1>7, <1>9, <3>1
  <2> QED BY <2>1, <2>2
<1> QED
  BY <1>1, <1>9, <1>10 DEF IsSequence

\* The last field of a record: the record joins the table.
LEMMA RecordJoins ==
  ASSUME IInv, on_field, ~IsHeader, field[2] = Len(Types)
  PROVE  ParseOK' /\ TablesOK'
<1>1. PICK record : record = Append(last_record, Value(Text))
  OBVIOUS
<1>2. add_record(record) /\ last_record' = <<>> /\ UNCHANGED <<files, path, table_cache>>
  BY <1>1 DEF on_field, AfterRecord, callVars
<1>3. PICK content \in Contents, n \in Nat \ {0} : content = files[path] /\ n = field[1]
  BY DEF IInv, CallOK
<1>4. phase = "parse" /\ phase' = "parse" /\ n <= Len(content)
  BY <1>3 DEF on_field, Unread
<1>5. Len(content) \in Nat
  BY FileRecordsAre
<1>6. \A c \in Columns : /\ record[c] \in ValuesOf(Types[c]) \cup {Null}
                         /\ record[c] = Value(content[n][c])
                         /\ content[n][c] # Bad
  BY <1>1, <1>3, ColumnTypes, FieldJoins
<1>7. field'[1] = n + 1 /\ field'[2] = 1
  <2>1. field' = <<n + 1, 1>>
    <3>1. Len(Types) \in Nat /\ ~(field[2] < Len(Types))
      BY ColumnTypes
    <3> QED BY <1>3, <3>1 DEF on_field, NextField
  <2> QED BY <2>1
<1>8. /\ table_cache[path] = <<>> /\ table.rows = RowsRead
      /\ \A r \in 1 .. table.rows : TableRecords(table)[r] = FileRecords(content)[r]
      /\ \A r \in 1 .. n - 1 : \A c \in Columns : content[r][c] = Bad => Header /\ r = 1
  BY <1>3, <1>4 DEF IInv, ParseOK
<1>9. TableLoaded(table)
  BY DEF IInv, TablesOK
<1>10. PICK x : x = [c \in Columns |-> record[c]]
  OBVIOUS
<1>11. TableLoaded(table') /\ TableRecords(table') = Append(TableRecords(table), x)
  BY <1>2, <1>6, <1>9, <1>10, AddRecordOK
<1>12. TablesOK'
  BY <1>2, <1>4, <1>11 DEF IInv, TablesOK
<1>13. PICK m \in Nat : m = table.rows
  BY <1>9 DEF TableLoaded
<1>14. m = (IF Header THEN n - 2 ELSE n - 1) /\ table'.rows = m + 1 /\ RowsRead' = m + 1
  <2>1. m = IF Header THEN n - 2 ELSE n - 1
    BY <1>3, <1>8, <1>13 DEF RowsRead, IsHeader
  <2>2. table'.rows = m + 1
    BY <1>2, <1>13 DEF add_record
  <2>3. RowsRead' = m + 1
    BY <1>3, <1>7, <2>1 DEF RowsRead
  <2> QED BY <2>1, <2>2, <2>3
<1>15. ASSUME NEW r \in 1 .. m + 1 PROVE TableRecords(table')[r] = FileRecords(content)[r]
  <2>1. PICK t : t = TableRecords(table)
    OBVIOUS
  <2>2. AreRecords(t) /\ Len(t) = m
    BY <1>9, <1>13, <2>1, RecordsAre
  <2>3. PICK S : t \in Seq(S)
    BY <2>2 DEF AreRecords, IsSequence
  <2>4. t \in Seq(S \cup {x})
    BY <2>3
  <2>5. Append(t, x)[m + 1] = x /\ \A k \in 1 .. m : Append(t, x)[k] = t[k]
    BY <2>2, <2>4
  <2>6. CASE r = m + 1
    <3>1. Skipped(content) = (IF Header THEN 1 ELSE 0) /\ r + Skipped(content) = n
      BY <1>4, <1>5, <1>14, <2>6 DEF Skipped
    <3>2. r \in 1 .. Len(content) - Skipped(content)
      BY <1>4, <1>5, <2>6, <3>1
    <3>3. FileRecords(content)[r] = [c \in Columns |-> Value(content[n][c])]
      BY <3>1, <3>2, FileRecordsAre
    <3>4. x = [c \in Columns |-> Value(content[n][c])]
      BY <1>6, <1>10
    <3> QED BY <1>11, <2>1, <2>5, <2>6, <3>3, <3>4
  <2>7. CASE r \in 1 .. m
    BY <1>8, <1>11, <1>13, <2>1, <2>5, <2>7
  <2>8. r = m + 1 \/ r \in 1 .. m
    OBVIOUS
  <2> QED BY <2>6, <2>7, <2>8
<1>16. \A r \in 1 .. (n + 1) - 1 : \A c \in Columns : content[r][c] = Bad => Header /\ r = 1
  <2>1. \A r \in 1 .. (n + 1) - 1 : r = n \/ r \in 1 .. n - 1
    OBVIOUS
  <2> QED BY <1>6, <1>8, <2>1
<1>17. FieldsOK'
  <2>1. IsSequence(<<>>) /\ Len(<<>>) = 0
    BY DEF IsSequence
  <2>2. IsSequence(last_record') /\ Len(last_record') = 0
    BY <1>2, <2>1
  <2>3. ~IsHeader'
    BY <1>7 DEF IsHeader
  <2> QED BY <1>7, <2>2, <2>3 DEF FieldsOK
<1>18. ParseOK'
  <2>1. n + 1 <= Len(content) + 1
    BY <1>4, <1>5
  <2>2. \A r \in 1 .. table'.rows : TableRecords(table')[r] = FileRecords(content)[r]
    BY <1>14, <1>15
  <2>3. files'[path'] = content /\ table_cache'[path'] = <<>>
    BY <1>2, <1>3, <1>8
  <2>4. table'.rows = RowsRead'
    BY <1>14
  <2> QED BY <1>7, <1>16, <1>17, <2>1, <2>2, <2>3, <2>4 DEF ParseOK
<1> QED
  BY <1>12, <1>18

\* Another field of a record.
LEMMA FieldKept ==
  ASSUME IInv, on_field, ~IsHeader, field[2] # Len(Types)
  PROVE  ParseOK' /\ TablesOK'
<1>1. PICK record : record = Append(last_record, Value(Text))
  OBVIOUS
<1>2. last_record' = record /\ UNCHANGED <<files, path, table, table_cache>>
  BY <1>1 DEF on_field, callVars
<1>3. phase = "parse" /\ phase' = "parse"
  BY DEF on_field, Unread
<1>4. TablesOK'
  BY <1>2, <1>3 DEF IInv, TablesOK
<1>5. PICK n \in Nat \ {0}, k \in Columns : n = field[1] /\ k = field[2]
  BY DEF IInv, CallOK
<1>6. field'[1] = n /\ field'[2] = k + 1 /\ k \in Nat
  <2>1. k \in Nat /\ k < Len(Types)
    BY <1>5, ColumnTypes
  <2>2. field' = <<n, k + 1>>
    BY <1>5, <2>1 DEF on_field, NextField
  <2> QED BY <2>1, <2>2
<1>7. ~IsHeader' /\ RowsRead' = RowsRead
  BY <1>5, <1>6 DEF IsHeader, RowsRead
<1>8. FieldsOK'
  <2>1. (k + 1) - 1 = k
    BY <1>6
  <2>2. /\ IsSequence(record) /\ Len(record) = k
        /\ \A j \in 1 .. k :
              /\ record[j] \in ValuesOf(Types[j]) \cup {Null}
              /\ record[j] = Value(files[path][n][j])
              /\ files[path][n][j] # Bad
    BY <1>1, <1>5, FieldJoins
  <2>3. files'[path'] = files[path]
    BY <1>2
  <2> QED BY <1>2, <1>6, <1>7, <2>1, <2>2, <2>3 DEF FieldsOK
<1>9. ParseOK'
  BY <1>2, <1>3, <1>5, <1>6, <1>7, <1>8 DEF IInv, ParseOK
<1> QED
  BY <1>4, <1>9

\* A field.
LEMMA FieldInvariant ==
  ASSUME IInv, on_field
  PROVE  IInv'
<1>1. ParseOK' /\ TablesOK'
  BY HeaderField, RecordJoins, FieldKept
<1>2. CallOK'
  <2>1. field[1] \in Nat \ {0} /\ field[2] \in Columns
    BY DEF IInv, CallOK
  <2>2. field' \in (Nat \ {0}) \X Columns
    <3>1. Len(Types) \in Nat /\ Columns = 1 .. Len(Types) /\ 1 \in Columns
      BY ColumnTypes
    <3>2. \/ field' = <<field[1], field[2] + 1>> /\ field[2] < Len(Types)
          \/ field' = <<field[1] + 1, 1>>
      BY DEF on_field, NextField
    <3> QED BY <2>1, <3>1, <3>2
  <2> QED BY <2>2 DEF IInv, CallOK, on_field, callVars, convertVars
<1>3. WritersOK' /\ ConvertOK'
  BY DEF IInv, WritersOK, ConvertOK, on_field, Unread, convertVars
<1>4. ResultsOK'
  BY DEF IInv, ResultsOK, on_field
<1> QED
  BY <1>1, <1>2, <1>3, <1>4 DEF IInv

\* At the end of the file, the table holds its records.
LEMMA FileIsRead ==
  ASSUME IInv, EndOfFile
  PROVE  /\ TableRecords(table) = FileRecords(files[path])
         /\ WellFormedFile(files[path])
         /\ path \in Paths /\ table_cache[path] = <<>>
<1>1. PICK content \in Contents, n \in Nat \ {0} : content = files[path] /\ n = field[1]
  BY DEF IInv, CallOK
<1>2. PICK N \in Nat : N = Len(content) /\ DOMAIN content = 1 .. N
  BY FileRecordsAre
<1>3. phase = "parse" /\ ~(n <= N) /\ n <= N + 1
  BY <1>1, <1>2 DEF EndOfFile, Unread, IInv, ParseOK
<1>4. n = N + 1
  BY <1>3
<1>5. /\ table_cache[path] = <<>> /\ table.rows = RowsRead
      /\ \A r \in 1 .. table.rows : TableRecords(table)[r] = FileRecords(content)[r]
      /\ \A r \in 1 .. N : \A c \in Columns : content[r][c] = Bad => Header /\ r = 1
  <2>1. (N + 1) - 1 = N
    OBVIOUS
  <2> QED BY <1>1, <1>3, <1>4, <2>1 DEF IInv, ParseOK
<1>6. PICK m \in Nat : m = table.rows
  BY DEF IInv, TablesOK, TableLoaded
<1>7. m = N - Skipped(content)
  <2>1. Skipped(content) = IF Header /\ N # 0 THEN 1 ELSE 0
    BY <1>2 DEF Skipped
  <2>2. m = IF ~Header THEN n - 1 ELSE IF n = 1 THEN 0 ELSE n - 2
    <3>1. field[1] = n /\ m = RowsRead
      BY <1>1, <1>5, <1>6
    <3> QED BY <3>1 DEF RowsRead
  <2> QED BY <1>4, <2>1, <2>2
<1>8. PICK a, b : a = TableRecords(table) /\ b = FileRecords(content)
  OBVIOUS
<1>9. a = [r \in 1 .. m |-> a[r]]
  BY <1>6, <1>8 DEF TableRecords
<1>10. b = [r \in 1 .. m |-> b[r]]
  <2>1. b = [r \in 1 .. m |-> [c \in Columns |-> Value(content[r + Skipped(content)][c])]]
    BY <1>2, <1>7, <1>8, FileRecordsAre
  <2> QED BY <2>1
<1>11. a = b
  BY <1>5, <1>6, <1>8, <1>9, <1>10
<1>12. WellFormedFile(content)
  BY <1>2, <1>5 DEF WellFormedFile
<1> QED
  BY <1>1, <1>5, <1>8, <1>11, <1>12 DEF IInv, CallOK

LEMMA EndOfFileInvariant ==
  ASSUME IInv, EndOfFile
  PROVE  IInv'
<1>1. path \in Paths /\ table_cache[path] = <<>> /\ path' = path /\ phase' = "eval"
  BY FileIsRead DEF EndOfFile, callVars
<1>2. CallOK' /\ ParseOK' /\ WritersOK' /\ ConvertOK'
  BY DEF IInv, CallOK, ParseOK, WritersOK, ConvertOK, EndOfFile, callVars, parseVars, convertVars
<1>3. TableLoaded(table) /\ table' = table
  BY DEF IInv, TablesOK, EndOfFile
<1>4. /\ table_cache' = [p \in Paths |-> table_cache'[p]]
      /\ \A p \in Paths : table_cache'[p] = IF p = path THEN <<table>> ELSE table_cache[p]
  BY <1>1 DEF IInv, TablesOK, EndOfFile
<1>5. <<table>> # <<>> /\ <<table>>[1] = table
  OBVIOUS
<1>6. TablesOK'
  <2>1. \A p \in Paths : table_cache'[p] # <<>> => TableLoaded(table_cache'[p][1])
    BY <1>3, <1>4, <1>5 DEF IInv, TablesOK
  <2>2. table_cache'[path] # <<>> /\ table_cache'[path][1] = table
    BY <1>1, <1>4, <1>5
  <2> QED BY <1>1, <1>3, <1>4, <2>1, <2>2 DEF TablesOK
<1>7. ResultsOK'
  <2>1. UNCHANGED <<ret, result_cache>>
    BY DEF EndOfFile
  <2>2. \A p \in Paths : result_cache[p] # <<>> => p # path
    BY <1>1 DEF IInv, ResultsOK
  <2> QED BY <1>4, <2>1, <2>2 DEF IInv, ResultsOK
<1> QED
  BY <1>2, <1>6, <1>7 DEF IInv
-----------------------------------------------------------------------------
(* The rows are selected and converted.                                    *)

LEMMA FunctionIsSequence ==
  ASSUME NEW N \in Nat, NEW S, NEW b \in [1 .. N -> S]
  PROVE  b \in Seq(S) /\ Len(b) = N
OBVIOUS

\* The bitmap of a filter, or of none.
LEMMA FilterSelects ==
  ASSUME NEW t, TableLoaded(t), NEW f \in Filters, NEW bitmap,
         bitmap = IF f = NoFilter THEN [j \in 1 .. Bytes(t.rows) |-> 0 .. ByteBits - 1]
                  ELSE EvalColumns(f, t.columns)
  PROVE  Selects(bitmap, t, f)
<1>1. PICK n \in Nat : n = t.rows
  BY DEF TableLoaded
<1>2. CASE f = NoFilter
  <2>1. PICK N \in Nat : N = Bytes(n)
    BY BytesAre
  <2> DEFINE All == 0 .. ByteBits - 1
             S   == SUBSET All
  <2>2. bitmap = [j \in 1 .. N |-> All] /\ All \in S
    BY <1>1, <1>2, <2>1
  <2>3. ASSUME NEW i \in 0 .. n - 1 PROVE i % ByteBits \in All /\ i \div ByteBits + 1 \in 1 .. N
    <3>1. i \in Nat
      OBVIOUS
    <3>2. i % ByteBits \in All
      BY <3>1, Remainder
    <3>3. i \div ByteBits + 1 \in 1 .. N
      BY <2>1, RowInBytes
    <3> QED BY <3>2, <3>3
  <2>4. \A i \in 0 .. n - 1 : Bit(bitmap, i)
    BY <2>2, <2>3 DEF Bit
  <2> HIDE DEF All, S
  <2>5. bitmap \in [1 .. N -> S] /\ DOMAIN bitmap = 1 .. N
    BY <2>2
  <2>6. bitmap \in Seq(S) /\ Len(bitmap) = N
    <3>1. PICK b : b = bitmap
      OBVIOUS
    <3>2. b \in [1 .. N -> S]
      BY <2>5, <3>1
    <3>3. b \in Seq(S) /\ Len(b) = N
      BY <3>2, FunctionIsSequence
    <3> QED BY <3>1, <3>3
  <2>7. BitmapOK(bitmap, n)
    BY <2>1, <2>6 DEF BitmapOK, S, All
  <2> QED BY <1>1, <1>2, <2>4, <2>7 DEF Selects, Accepted
<1>3. CASE f # NoFilter
  <2>1. f \in Statements
    BY <1>3, LoaderAssumption
  <2>2. bitmap = EvalColumns(f, t.columns)
    BY <1>3
  <2>3. Marks(bitmap, f, t)
    BY <2>1, <2>2, StatementMarks
  <2> QED BY <1>3, <2>3 DEF Marks, Selects, Accepted
<1> QED
  BY <1>2, <1>3

\* The rows are selected.
LEMMA EvalInvariant ==
  ASSUME IInv, Eval
  PROVE  IInv'
<1>1. phase = "eval" /\ phase' = "convert" /\ UNCHANGED <<table, table_cache, path, filter>>
  BY DEF Eval, callVars
<1>2. CallOK' /\ ParseOK' /\ TablesOK' /\ ResultsOK'
  BY <1>1 DEF IInv, CallOK, ParseOK, TablesOK, ResultsOK, Eval, callVars, parseVars
<1>3. /\ writers' = [c \in Columns |-> NewWriter] /\ at' = [c \in Columns |-> 0]
  BY DEF Eval
<1>4. WritersOK'
  <2>1. 0 \in Nat
    OBVIOUS
  <2> QED BY <1>3, <2>1, EmptyWriter DEF WritersOK
<1>5. PICK t, f : t = table /\ f = filter
  OBVIOUS
<1>6. TableLoaded(t) /\ t.rows \in Nat
  BY <1>5 DEF IInv, TablesOK, TableLoaded
<1>7. Selects(results', t, f)
  <2>1. f \in Filters
    BY <1>5 DEF IInv, CallOK
  <2>2. results' = IF f = NoFilter THEN [j \in 1 .. Bytes(t.rows) |-> 0 .. ByteBits - 1]
                   ELSE EvalColumns(f, t.columns)
    BY <1>5 DEF Eval
  <2> QED BY <1>6, <2>1, <2>2, FilterSelects
<1>8. ASSUME NEW c \in Columns PROVE ColumnDone(c, NewWriter, 0, t, f, ret_rows')
  <2>1. PICK records : records = TableRecords(t)
    OBVIOUS
  <2>2. Len(records) = t.rows
    BY <1>6, <2>1, RecordsAre
  <2>3. ChosenFrom(records, f)[0] = <<>>
    BY <1>6, <2>2, ChosenSteps
  <2>4. ColumnOf(<<>>, c) = <<>>
    <3>1. IsSequence(<<>>)
      BY DEF IsSequence
    <3> QED BY <3>1, ColumnGrows
  <2>5. InserterOK(Types[c], NewWriter, <<>>)
    BY ColumnTypes, NothingInserted
  <2>6. 0 <= t.rows /\ 0 <= t.rows + 1 /\ 0 # t.rows + 1
    BY <1>6
  <2> QED BY <2>1, <2>3, <2>4, <2>5, <2>6 DEF ColumnDone
<1>9. ConvertOK'
  <2>1. \A c \in Columns : writers'[c] = NewWriter /\ at'[c] = 0
    BY <1>3
  <2> QED BY <1>1, <1>5, <1>7, <1>8, <2>1 DEF ConvertOK
<1> QED
  BY <1>2, <1>4, <1>9 DEF IInv

\* The value of a row goes into its column, if the row is selected.
LEMMA RowDone ==
  ASSUME NEW c \in Columns, NEW w, NEW i \in Nat, NEW t, NEW f, NEW count,
         TableLoaded(t), ColumnDone(c, w, i, t, f, count), i < t.rows, NEW bitmap,
         Selects(bitmap, t, f), NEW n,
         n = IF ~Bit(bitmap, i) THEN w
             ELSE IF is_not_null(t.columns[c], i)
               THEN Insert(Types[c], w, get(c, t.columns[c], i))
             ELSE InsertNull(Types[c], w)
  PROVE  ColumnDone(c, n, i + 1, t, f, count)
<1>1. PICK N \in Nat : N = t.rows
  BY DEF TableLoaded
<1>2. PICK type \in DataTypes : type = Types[c]
  BY ColumnTypes
<1>3. PICK records : records = TableRecords(t)
  OBVIOUS
<1>4. AreRecords(records) /\ Len(records) = N
  BY <1>1, <1>3, RecordsAre
<1>5. PICK s, x, next : s = ChosenFrom(records, f)[i] /\ x = records[i + 1] /\ next = ChosenFrom(records, f)[i + 1]
  OBVIOUS
<1>6. i \in 0 .. N - 1 /\ i + 1 \in 1 .. N /\ i \in 0 .. N
  BY <1>1
<1>7. AreRecords(s) /\ IsSequence(s)
  <2>1. i \in 0 .. Len(records)
    BY <1>4, <1>6
  <2>2. AreRecords(ChosenFrom(records, f)[i])
    BY <1>4, <2>1, ChosenRecords
  <2> QED BY <1>5, <2>2 DEF AreRecords
<1>8. next = IF Accepted(f, x) THEN Append(s, x) ELSE s
  BY <1>1, <1>4, <1>5, <1>6, ChosenSteps
<1>9. PICK done : done = ColumnOf(s, c)
  OBVIOUS
<1>10. InserterOK(type, w, done)
  <2>1. i <= t.rows
    BY <1>1, <1>6
  <2> QED BY <1>2, <1>3, <1>5, <1>9, <2>1 DEF ColumnDone
<1>11. ColumnOf(Append(s, x), c) = Append(done, x[c])
  BY <1>7, <1>9, ColumnGrows
<1>12. Bit(bitmap, i) <=> Accepted(f, x)
  BY <1>1, <1>3, <1>5, <1>6 DEF Selects
<1>13. PICK col : col = t.columns[c] /\ Loaded(type, col, N)
  BY <1>1, <1>2 DEF TableLoaded
<1>14. x[c] = RowValue(type, col, i)
  <2>1. records[i + 1][c] = RowValue(type, col, (i + 1) - 1)
    BY <1>1, <1>2, <1>3, <1>6, <1>13, RecordsAre
  <2>2. (i + 1) - 1 = i
    OBVIOUS
  <2> QED BY <1>5, <2>1, <2>2
<1>15. /\ get(c, col, i) \in ValuesOf(type)
       /\ x[c] = IF is_not_null(col, i) THEN get(c, col, i) ELSE Null
  BY <1>2, <1>6, <1>13, <1>14, GetOK
<1>16. InserterOK(type, n, ColumnOf(next, c))
  <2>1. CASE ~Bit(bitmap, i)
    <3>1. n = w /\ next = s
      BY <1>8, <1>12, <2>1
    <3> QED BY <1>9, <1>10, <3>1
  <2>2. CASE Bit(bitmap, i) /\ is_not_null(col, i)
    <3>1. n = Insert(type, w, x[c]) /\ ColumnOf(next, c) = Append(done, x[c]) /\ x[c] \in ValuesOf(type)
      BY <1>2, <1>8, <1>11, <1>12, <1>13, <1>15, <2>2
    <3> QED BY <1>10, <3>1, InsertReads
  <2>3. CASE Bit(bitmap, i) /\ ~is_not_null(col, i)
    <3>1. n = InsertNull(type, w) /\ ColumnOf(next, c) = Append(done, Null)
      BY <1>2, <1>8, <1>11, <1>12, <1>13, <1>15, <2>3
    <3> QED BY <1>10, <3>1, NullReads
  <2> QED BY <2>1, <2>2, <2>3
<1>17. i + 1 <= t.rows /\ i + 1 <= t.rows + 1 /\ i + 1 # t.rows + 1
  BY <1>1, <1>6
<1> QED
  BY <1>2, <1>3, <1>5, <1>16, <1>17 DEF ColumnDone

\* A row of a column.
LEMMA ConvertInvariant ==
  ASSUME IInv, NEW c \in Columns, ConvertRow(c)
  PROVE  IInv'
<1>1. CallOK' /\ ParseOK' /\ TablesOK' /\ ResultsOK'
  BY DEF IInv, CallOK, ParseOK, TablesOK, ResultsOK, ConvertRow, callVars, parseVars
<1>2. PICK t, f, i : t = table /\ f = filter /\ i = at[c]
  OBVIOUS
<1>3. /\ at' = [at EXCEPT ![c] = i + 1] /\ i \in Nat /\ i < t.rows
      /\ phase = "convert" /\ phase' = "convert"
      /\ UNCHANGED <<table, filter, results, ret_rows>>
  BY <1>2 DEF IInv, WritersOK, ConvertRow, callVars
<1>4. PICK n : n = writers'[c]
  OBVIOUS
<1>5. /\ writers' = [writers EXCEPT ![c] = n]
      /\ n = IF ~Bit(results, i) THEN writers[c]
             ELSE IF is_not_null(t.columns[c], i)
               THEN Insert(Types[c], writers[c], get(c, t.columns[c], i))
             ELSE InsertNull(Types[c], writers[c])
  BY <1>2, <1>4 DEF IInv, WritersOK, ConvertRow, Selected, Bit
<1>6. TableLoaded(t) /\ Selects(results, t, f) /\ ColumnDone(c, writers[c], i, t, f, ret_rows)
  BY <1>2, <1>3 DEF IInv, TablesOK, ConvertOK
<1>7. ColumnDone(c, n, i + 1, t, f, ret_rows)
  BY <1>3, <1>5, <1>6, RowDone
<1>8. /\ at' = [d \in Columns |-> at'[d]] /\ writers' = [d \in Columns |-> writers'[d]]
      /\ \A d \in Columns : /\ at'[d] = IF d = c THEN i + 1 ELSE at[d]
                            /\ writers'[d] = IF d = c THEN n ELSE writers[d]
  BY <1>3, <1>5 DEF IInv, WritersOK
<1>9. WritersOK'
  <2>1. WriterOK(Types[c], n) /\ i + 1 \in Nat
    BY <1>3, <1>7 DEF ColumnDone, InserterOK
  <2> QED BY <1>8, <2>1 DEF IInv, WritersOK
<1>10. ConvertOK'
  <2>1. \A d \in Columns : ColumnDone(d, writers[d], at[d], t, f, ret_rows)
    BY <1>2, <1>3 DEF IInv, ConvertOK
  <2>2. \A d \in Columns : ColumnDone(d, writers'[d], at'[d], t, f, ret_rows)
    BY <1>7, <1>8, <2>1
  <2> QED BY <1>2, <1>3, <1>6, <2>2 DEF ConvertOK
<1> QED
  BY <1>1, <1>9, <1>10 DEF IInv

\* The end of a column.
LEMMA EndInvariant ==
  ASSUME IInv, NEW c \in Columns, EndColumn(c)
  PROVE  IInv'
<1>2. PICK t, f, i : t = table /\ f = filter /\ i = at[c]
  OBVIOUS
<1>3. /\ at' = [at EXCEPT ![c] = i + 1] /\ i = t.rows /\ writers' = [writers EXCEPT ![c] = Finalize(writers[c])]
      /\ phase = "convert" /\ phase' = "convert"
      /\ UNCHANGED <<table, filter, results>>
      /\ ret_rows' = Cardinality({ k \in 0 .. t.rows - 1 : Selected(k) })
  BY <1>2 DEF EndColumn, callVars
<1>4. /\ TableLoaded(t) /\ Selects(results, t, f)
      /\ \A d \in Columns : ColumnDone(d, writers[d], at[d], t, f, ret_rows)
  BY <1>2, <1>3 DEF IInv, TablesOK, ConvertOK
<1>5. PICK N \in Nat : N = t.rows
  BY <1>4 DEF TableLoaded
<1>6. ret_rows' = Cardinality(Rows(TableRecords(t), f, N)) /\ ret_rows' \in Nat
  <2>1. \A k \in 0 .. N - 1 : Selected(k) <=> Accepted(f, TableRecords(t)[k + 1])
    BY <1>4, <1>5 DEF Selects, Selected, Bit
  <2>2. { k \in 0 .. N - 1 : Selected(k) } = Rows(TableRecords(t), f, N)
    BY <2>1 DEF Rows
  <2>3. Cardinality(Rows(TableRecords(t), f, N)) \in Nat
    BY OneMoreRow
  <2> QED BY <1>3, <1>5, <2>2, <2>3
<1>7. CallOK' /\ ParseOK' /\ TablesOK' /\ ResultsOK'
  BY <1>6 DEF IInv, CallOK, ParseOK, TablesOK, ResultsOK, EndColumn, callVars, parseVars
<1>8. PICK n : n = Finalize(writers[c])
  OBVIOUS
<1>9. /\ at' = [d \in Columns |-> at'[d]] /\ writers' = [d \in Columns |-> writers'[d]]
      /\ \A d \in Columns : /\ at'[d] = IF d = c THEN N + 1 ELSE at[d]
                            /\ writers'[d] = IF d = c THEN n ELSE writers[d]
  BY <1>3, <1>5, <1>8 DEF IInv, WritersOK
<1>10. ColumnDone(c, n, N + 1, t, f, ret_rows')
  <2>1. PICK done : done = ColumnOf(ChosenFrom(TableRecords(t), f)[N], c)
    OBVIOUS
  <2>2. i = N /\ N <= N /\ ColumnDone(c, writers[c], i, t, f, ret_rows)
    <3>1. i = N
      BY <1>3, <1>5
    <3>2. ColumnDone(c, writers[c], at[c], t, f, ret_rows)
      BY <1>4
    <3> QED BY <1>2, <3>1, <3>2
  <2>3. InserterOK(Types[c], writers[c], done)
    BY <1>5, <2>1, <2>2 DEF ColumnDone
  <2>4. InserterOK(Types[c], n, done) /\ n.rows = 0
    BY <1>8, <2>3, ColumnTypes, FinalizeReads
  <2>5. N + 1 <= N + 1 /\ ~(N + 1 <= N)
    OBVIOUS
  <2> QED BY <1>5, <1>6, <2>1, <2>4, <2>5 DEF ColumnDone
<1>11. WritersOK'
  <2>1. WriterOK(Types[c], n) /\ N + 1 \in Nat
    BY <1>10 DEF ColumnDone, InserterOK
  <2> QED BY <1>9, <2>1 DEF IInv, WritersOK
<1>12. ConvertOK'
  <2>1. ASSUME NEW d \in Columns PROVE ColumnDone(d, writers'[d], at'[d], t, f, ret_rows')
    <3>1. CASE d = c
      BY <1>9, <1>10, <3>1
    <3>2. CASE d # c
      <4>1. ColumnDone(d, writers[d], at[d], t, f, ret_rows)
        BY <1>4
      <4>2. ColumnDone(d, writers[d], at[d], t, f, ret_rows')
        BY <1>5, <1>6, <4>1 DEF ColumnDone
      <4> QED BY <1>9, <3>2, <4>2
    <3> QED BY <3>1, <3>2
  <2> QED BY <1>2, <1>3, <1>4, <2>1 DEF ConvertOK
<1> QED
  BY <1>7, <1>11, <1>12 DEF IInv

\* What is returned are the rows that the filter accepts.
LEMMA ReturnAnswers ==
  ASSUME IInv, Return
  PROVE  /\ Answers(ret', TableRecords(table), filter) /\ ResultOK(ret')
         /\ path \in Paths /\ table_cache[path] # <<>> /\ table_cache[path][1] = table
<1>1. phase = "convert"
  BY DEF Return
<1>2. PICK t, f : t = table /\ f = filter
  OBVIOUS
<1>3. TableLoaded(t) /\ \A c \in Columns : ColumnDone(c, writers[c], at[c], t, f, ret_rows)
  BY <1>1, <1>2 DEF IInv, TablesOK, ConvertOK
<1>4. PICK N \in Nat : N = t.rows
  BY <1>3 DEF TableLoaded
<1>5. \A c \in Columns : at[c] = N + 1
  <2>1. \A c \in Columns : at[c] > N /\ at[c] <= N + 1 /\ at[c] \in Nat
    BY <1>2, <1>3, <1>4 DEF Return, ColumnDone, IInv, WritersOK
  <2> QED BY <2>1
<1>6. PICK records, s : records = TableRecords(t) /\ s = ChosenFrom(records, f)[N]
  OBVIOUS
<1>7. AreRecords(records) /\ Len(records) = N
  BY <1>3, <1>4, <1>6, RecordsAre
<1>8. Len(s) = Cardinality(Rows(records, f, N))
  <2>1. N \in 0 .. Len(records)
    BY <1>7
  <2> QED BY <1>6, <1>7, <2>1, ChosenRecords
<1>9. ASSUME NEW c \in Columns
      PROVE  /\ InserterOK(Types[c], writers[c], ColumnOf(s, c)) /\ writers[c].rows = 0
             /\ ret_rows = Len(s)
  <2>1. ~(N + 1 <= N)
    OBVIOUS
  <2> QED BY <1>3, <1>4, <1>5, <1>6, <1>8, <2>1 DEF ColumnDone
<1>10. \A c \in Columns : from_columnar(Types[c], writers[c].pages, {}) = ColumnOf(s, c)
  BY <1>9, ColumnTypes, InsertedIsRead
<1>11. ret'.num_rows = ret_rows /\ \A c \in Columns : ret'.columns[c] = writers[c].pages
  BY DEF Return
<1>12. ret_rows = Len(s)
  BY <1>9, ColumnTypes
<1>13. Answers(ret', records, f)
  BY <1>6, <1>7, <1>10, <1>11, <1>12 DEF Answers
<1>14. ResultOK(ret')
  BY <1>11 DEF IInv, WritersOK, WriterOK, ResultOK
<1> QED
  BY <1>1, <1>2, <1>6, <1>13, <1>14 DEF IInv, CallOK, TablesOK

\* The end of the call.
LEMMA ReturnInvariant ==
  ASSUME IInv, Return
  PROVE  IInv'
<1>1. CallOK' /\ ParseOK' /\ TablesOK' /\ WritersOK' /\ ConvertOK'
  BY DEF IInv, CallOK, ParseOK, TablesOK, WritersOK, ConvertOK, Return, callVars, parseVars, convertVars
<1>2. /\ Answers(ret', TableRecords(table), filter) /\ ResultOK(ret')
      /\ path \in Paths /\ table_cache[path] # <<>> /\ table_cache[path][1] = table
  BY ReturnAnswers
<1>3. result_cache' = [p \in Paths |-> result_cache'[p]]
  BY DEF IInv, ResultsOK, Return
<1>4. UNCHANGED table_cache
  BY DEF Return
<1>5. ASSUME NEW p \in Paths, result_cache'[p] # <<>>
      PROVE  /\ ResultOK(result_cache'[p][1])
             /\ table_cache[p] # <<>>
             /\ Answers(result_cache'[p][1], TableRecords(table_cache[p][1]), NoFilter)
  <2>1. \/ result_cache'[p] = result_cache[p]
        \/ p = path /\ filter = NoFilter /\ result_cache'[p] = <<ret'>>
    BY DEF IInv, ResultsOK, Return
  <2>2. CASE result_cache'[p] = result_cache[p]
    BY <1>5, <2>2 DEF IInv, ResultsOK
  <2>3. CASE p = path /\ filter = NoFilter /\ result_cache'[p] = <<ret'>>
    <3>1. result_cache'[p][1] = ret'
      BY <2>3
    <3> QED BY <1>2, <2>3, <3>1
  <2> QED BY <2>1, <2>2, <2>3
<1>6. ResultsOK'
  BY <1>2, <1>3, <1>4, <1>5 DEF ResultsOK
<1> QED
  BY <1>1, <1>6 DEF IInv

\* What is copied from the cache.
LEMMA CachedAnswers ==
  ASSUME IInv, CopyResult
  PROVE  /\ path \in Paths /\ filter = NoFilter /\ ResultOK(ret') /\ table_cache[path] # <<>>
         /\ Answers(ret', TableRecords(table_cache[path][1]), filter)
<1>1. path \in Paths
  BY DEF IInv, CallOK
<1>2. CachedResult(path, filter) # <<>> /\ ret' = CachedResult(path, filter)[1]
  BY DEF CopyResult
<1>3. filter = NoFilter /\ result_cache[path] # <<>> /\ ret' = result_cache[path][1]
  BY <1>2 DEF CachedResult
<1> QED
  BY <1>1, <1>3 DEF IInv, ResultsOK

\* The beginning of a call: from either cache, or from the file.
LEMMA LookupInvariant ==
  ASSUME IInv, CopyResult \/ UseTable \/ OpenFile
  PROVE  IInv'
<1>1. path \in Paths /\ phase = "lookup" /\ UNCHANGED <<path, files, table_cache>>
  BY DEF IInv, CallOK, CopyResult, UseTable, OpenFile, callVars
<1>2. WritersOK' /\ ConvertOK'
  BY DEF IInv, WritersOK, ConvertOK, CopyResult, UseTable, OpenFile, callVars, convertVars
<1>3. CallOK'
  <2>1. field' \in (Nat \ {0}) \X Columns
    <3>1. CASE OpenFile
      <4>1. field' = <<1, 1>> /\ 1 \in Columns
        BY <3>1, ColumnTypes DEF OpenFile
      <4> QED BY <4>1
    <3>2. CASE CopyResult \/ UseTable
      BY <3>2 DEF CopyResult, UseTable, parseVars, IInv, CallOK
    <3> QED BY <3>1, <3>2
  <2> QED BY <2>1 DEF IInv, CallOK, CopyResult, UseTable, OpenFile, callVars, convertVars
<1>4. TablesOK'
  <2>1. CASE OpenFile
    BY <1>1, <2>1, EmptyTable DEF OpenFile, IInv, TablesOK
  <2>2. CASE UseTable
    BY <1>1, <2>2 DEF UseTable, IInv, TablesOK
  <2>3. CASE CopyResult
    BY <1>1, <2>3 DEF CopyResult, IInv, TablesOK
  <2> QED BY <2>1, <2>2, <2>3
<1>5. ParseOK'
  <2>1. CASE OpenFile
    <3>1. /\ field' = <<1, 1>> /\ last_record' = <<>> /\ table_cache[path] = <<>>
          /\ table' = NewTable
      BY <2>1 DEF OpenFile
    <3>2. field'[1] = 1 /\ field'[2] = 1
      BY <3>1
    <3>3. NewTable.rows = 0
      BY DEF NewTable
    <3>4. Len(files[path]) \in Nat
      BY FileRecordsAre DEF IInv, CallOK
    <3>5. RowsRead' = 0
      BY <3>2 DEF RowsRead
    <3>6. FieldsOK'
      <4>1. IsSequence(<<>>) /\ Len(<<>>) = 0
        BY DEF IsSequence
      <4>2. IsSequence(last_record') /\ Len(last_record') = 0
        BY <3>1, <4>1
      <4> QED BY <3>1, <3>2, <4>2 DEF FieldsOK
    <3>7. 1 <= Len(files[path]) + 1 /\ (\A r \in 1 .. 1 - 1 : FALSE) /\ (\A r \in 1 .. 0 : FALSE)
      BY <3>4
    <3> QED BY <1>1, <3>1, <3>2, <3>3, <3>5, <3>6, <3>7 DEF ParseOK
  <2>2. CASE CopyResult \/ UseTable
    BY <2>2 DEF ParseOK, CopyResult, UseTable
  <2> QED BY <2>1, <2>2
<1>6. ResultsOK'
  <2>1. ResultOK(ret')
    <3>1. CASE CopyResult
      BY <3>1, CachedAnswers
    <3>2. CASE UseTable \/ OpenFile
      BY <3>2 DEF UseTable, OpenFile, IInv, ResultsOK
    <3> QED BY <3>1, <3>2
  <2>2. result_cache' = result_cache
    BY DEF CopyResult, UseTable, OpenFile
  <2> QED BY <1>1, <2>1, <2>2 DEF IInv, ResultsOK
<1> QED
  BY <1>2, <1>3, <1>4, <1>5, <1>6 DEF IInv

\* The steps between two calls, and the error.
LEMMA OtherInvariant ==
  ASSUME IInv,
         \/ Rewrite \/ ParseError \/ UNCHANGED vars
         \/ \E p \in Paths, f \in Filters : Call(p, f)
  PROVE  IInv'
<1>1. UNCHANGED <<table, table_cache, result_cache, ret, writers, at, field, ret_rows>>
  BY DEF Rewrite, ParseError, Call, vars, callVars, parseVars, convertVars
<1>2. \/ phase' \notin {"parse", "eval", "convert"}
      \/ UNCHANGED <<phase, path, filter, files, last_record, results>>
  BY DEF Rewrite, ParseError, Call, vars, callVars, parseVars, convertVars
<1>3. CallOK'
  <2>0. MaxCalls \in Nat /\ MaxRewrites \in Nat
    BY LoaderAssumption
  <2>1. CASE Rewrite
    <3>1. files' \in [Paths -> Contents] /\ rewrites' \in 0 .. MaxRewrites
      BY <2>0, <2>1 DEF Rewrite, IInv, CallOK
    <3> QED BY <1>1, <2>1, <3>1 DEF Rewrite, callVars, IInv, CallOK
  <2>2. CASE ParseError \/ UNCHANGED vars
    BY <1>1, <2>2 DEF IInv, CallOK, ParseError, vars, callVars
  <2>3. CASE \E p \in Paths, f \in Filters : Call(p, f)
    <3> PICK p \in Paths, f \in Filters : Call(p, f)
      BY <2>3
    <3>1. /\ path' = p /\ filter' = f /\ UNCHANGED <<files, rewrites>> /\ phase' = "lookup"
          /\ calls' = calls + 1 /\ calls < MaxCalls
      BY DEF Call
    <3>2. calls' \in 0 .. MaxCalls
      BY <2>0, <3>1 DEF IInv, CallOK
    <3> QED BY <1>1, <3>1, <3>2 DEF IInv, CallOK
  <2> QED BY <2>1, <2>2, <2>3
<1>4. ParseOK'
  <2>1. CASE phase' # "parse"
    BY <2>1 DEF ParseOK
  <2>2. CASE UNCHANGED <<phase, path, filter, files, last_record, results>>
    BY <1>1, <2>2 DEF IInv, ParseOK, RowsRead, FieldsOK, IsHeader
  <2> QED BY <1>2, <2>1, <2>2
<1>5. TablesOK'
  BY <1>1, <1>2 DEF IInv, TablesOK
<1>6. WritersOK' /\ ResultsOK'
  BY <1>1 DEF IInv, WritersOK, ResultsOK
<1>7. ConvertOK'
  BY <1>1, <1>2 DEF IInv, ConvertOK
<1> QED
  BY <1>3, <1>4, <1>5, <1>6, <1>7 DEF IInv

\* In every state: what the table holds is the first part of the file, what the
\* column threads have inserted are the values of the rows selected so far, and
\* what is returned and cached reads as the records chosen.
THEOREM Invariant == Spec => []IInv
<1>1. IInv /\ [Next]_vars => IInv'
  BY FieldInvariant, EvalInvariant, ConvertInvariant, EndInvariant, ReturnInvariant,
     EndOfFileInvariant, LookupInvariant, OtherInvariant DEF Next
<1> QED
  BY InitInvariant, <1>1, PTL DEF Spec

\* The columns of every InnerTable, in the making or cached, have its rows, with
\* a bit for every row and offsets that ascend within the data, and the bitmap
\* that the rows are selected by has a bit for every row of the table.
THEOREM TypesAreKept == Spec => []TypeOK
  BY Invariant, InvariantTypes, PTL

\* However long the values and wherever the nulls are, ColumnInserter never lets
\* the data of a page run into its bitmap, gives the bitmap a bit for every row,
\* and writes no page of short values that a reader would take for a part of a
\* long string; and what is returned, from the caches or not, are such pages.
THEOREM PagesAlwaysFit == Spec => []PagesFit
<1>1. IInv => PagesFit
  BY DEF IInv, WritersOK, WriterOK, ResultsOK, ResultOK, PagesOK, PagesFit
<1> QED
  BY Invariant, <1>1, PTL
-----------------------------------------------------------------------------
(* from_csv implements TableSpec.                                          *)

Running == {"lookup", "parse", "eval", "convert"}

LEMMA TablesInit == Init => Tables!Init
<1> SUFFICES ASSUME Init PROVE Tables!Init
  OBVIOUS
<1>1. path \in Paths /\ filter \in Filters /\ phase = "idle" /\ files \in [Paths -> Contents]
  BY LoaderAssumption DEF Init
<1>2. \A p \in Paths : table_cache[p] = <<>>
  BY DEF Init
<1> QED
  BY <1>1, <1>2 DEF Tables!Init

\* Steps inside a call.
LEMMA TablesStutter ==
  ASSUME UNCHANGED <<files, table_cache, path, filter>>,
         \/ phase \in Running /\ phase' \in Running
         \/ UNCHANGED <<phase, ret>>
  PROVE  UNCHANGED Tables!vars
<1>1. CASE phase \in Running /\ phase' \in Running
  BY <1>1 DEF Tables!vars, Running
<1>2. CASE UNCHANGED <<phase, ret>>
  BY <1>2 DEF Tables!vars, Decoded
<1> QED
  BY <1>1, <1>2

\* A result that reads as the records chosen is the answer.
LEMMA TablesAnswer ==
  ASSUME phase \in Running, phase' = "done", UNCHANGED <<files, table_cache, path, filter>>,
         path \in Paths, table_cache[path] # <<>>, TableLoaded(table_cache[path][1]),
         Answers(ret', TableRecords(table_cache[path][1]), filter)
  PROVE  Tables!Answer
<1>1. PICK records : records = TableRecords(table_cache[path][1])
  OBVIOUS
<1>2. [r \in 1 .. ret'.num_rows |-> DecodedFrom(ret', r)] = Tables!Chosen(records, filter)
  BY <1>1, RecordsAre, AnswersRead
<1>3. (\A r : Decoded(r)' = DecodedFrom(ret', r))
  BY DEF Decoded, DecodedFrom
<1>4. [r \in 1 .. ret'.num_rows |-> Decoded(r)'] = Tables!Chosen(records, filter)
  BY <1>2, <1>3
<1>5. [p \in Paths |-> IF table_cache[p] = <<>> THEN <<>>
                       ELSE <<TableRecords(table_cache[p][1])>>][path] = <<records>>
  BY <1>1
<1> QED
  BY <1>4, <1>5 DEF Tables!Answer, Running

LEMMA TablesReturn ==
  ASSUME IInv, Return \/ CopyResult
  PROVE  Tables!Answer
<1>1. phase \in Running /\ phase' = "done" /\ UNCHANGED <<files, table_cache, path, filter>>
  BY DEF Return, CopyResult, callVars, Running
<1>2. /\ path \in Paths /\ table_cache[path] # <<>>
      /\ Answers(ret', TableRecords(table_cache[path][1]), filter)
  BY ReturnAnswers, CachedAnswers
<1>3. TableLoaded(table_cache[path][1])
  BY <1>2 DEF IInv, TablesOK
<1> QED
  BY <1>1, <1>2, <1>3, TablesAnswer

\* The records are known once the file has been read as a whole.
LEMMA TablesRead ==
  ASSUME IInv, EndOfFile
  PROVE  Tables!Read
<1>1. /\ TableRecords(table) = FileRecords(files[path])
      /\ WellFormedFile(files[path])
      /\ path \in Paths /\ table_cache[path] = <<>>
  BY FileIsRead
<1>2. /\ phase \in Running /\ phase' \in Running /\ phase' # "done" /\ phase # "done"
      /\ UNCHANGED <<files, path, filter>>
  BY DEF EndOfFile, callVars, Running
<1>3. \A p \in Paths : table_cache'[p] = IF p = path THEN <<table>> ELSE table_cache[p]
  BY DEF IInv, TablesOK, EndOfFile
<1>4. PICK k, n : /\ k = [p \in Paths |-> IF table_cache[p] = <<>> THEN <<>>
                                          ELSE <<TableRecords(table_cache[p][1])>>]
                  /\ n = [p \in Paths |-> IF table_cache'[p] = <<>> THEN <<>>
                                          ELSE <<TableRecords(table_cache'[p][1])>>]
  OBVIOUS
<1>5. k[path] = <<>> /\ n = [k EXCEPT ![path] = <<FileRecords(files[path])>>]
  <2>1. table_cache'[path] # <<>> /\ table_cache'[path][1] = table
    BY <1>1, <1>3
  <2>2. n[path] = <<FileRecords(files[path])>>
    BY <1>1, <1>4, <2>1
  <2>3. \A p \in Paths : p # path => n[p] = k[p]
    BY <1>3, <1>4
  <2> QED BY <1>1, <1>4, <2>2, <2>3
<1> QED
  BY <1>1, <1>2, <1>4, <1>5 DEF Tables!Read, Running

\* A file with a field that is not a number is not kept.
LEMMA TablesFail ==
  ASSUME IInv, ParseError
  PROVE  Tables!Fail
<1>1. /\ phase = "parse" /\ phase' = "failed" /\ UNCHANGED <<files, table_cache, path, filter>>
      /\ path \in Paths /\ table_cache[path] = <<>>
  BY DEF ParseError, Unread, callVars, IInv, CallOK, ParseOK
<1>2. ~WellFormedFile(files[path])
  <2>1. PICK content \in Contents, n \in Nat \ {0}, c \in Columns :
          content = files[path] /\ n = field[1] /\ c = field[2]
    BY DEF IInv, CallOK
  <2>2. n \in DOMAIN content
    BY <2>1, FileRecordsAre DEF ParseError, Unread
  <2>3. content[n][c] = Bad /\ ~(Header /\ n = 1)
    BY <2>1 DEF ParseError, EndsParse, Text, IsHeader
  <2> QED BY <2>1, <2>2, <2>3 DEF WellFormedFile
<1> QED
  BY <1>1, <1>2 DEF Tables!Fail

LEMMA TablesCall ==
  ASSUME NEW p \in Paths, NEW f \in Filters, Call(p, f)
  PROVE  Tables!Call
BY DEF Call, Tables!Call

LEMMA TablesRewrite ==
  ASSUME IInv, Rewrite
  PROVE  Tables!Rewrite
<1>1. files' \in [Paths -> Contents]
  BY DEF Rewrite, IInv, CallOK
<1>2. /\ phase \in {"idle", "done", "failed"}
      /\ UNCHANGED <<table_cache, phase, path, filter, ret>>
  BY DEF Rewrite, callVars
<1>3. UNCHANGED (IF phase = "done" THEN [r \in 1 .. ret.num_rows |-> Decoded(r)] ELSE <<>>)
  BY <1>2 DEF Decoded
<1> QED
  BY <1>1, <1>2, <1>3 DEF Tables!Rewrite

\* Every step is one of TableSpec, or leaves what TableSpec sees alone.
LEMMA TablesStep ==
  ASSUME IInv, [Next]_vars
  PROVE  [Tables!Next]_(Tables!vars)
<1>1. CASE Return \/ CopyResult
  BY <1>1, TablesReturn DEF Tables!Next
<1>2. CASE EndOfFile
  BY <1>2, TablesRead DEF Tables!Next
<1>3. CASE ParseError
  BY <1>3, TablesFail DEF Tables!Next
<1>4. CASE \E p \in Paths, f \in Filters : Call(p, f)
  BY <1>4, TablesCall DEF Tables!Next
<1>5. CASE Rewrite
  BY <1>5, TablesRewrite DEF Tables!Next
<1>6. CASE UseTable \/ OpenFile \/ on_field \/ Eval
  <2>1. phase \in Running /\ phase' \in Running /\ UNCHANGED <<files, table_cache, path, filter>>
    BY <1>6 DEF UseTable, OpenFile, on_field, Unread, Eval, callVars, Running
  <2> QED BY <2>1, TablesStutter
<1>7. CASE \E c \in Columns : ConvertRow(c) \/ EndColumn(c)
  <2>1. phase \in Running /\ phase' \in Running /\ UNCHANGED <<files, table_cache, path, filter>>
    BY <1>7 DEF ConvertRow, EndColumn, callVars, Running
  <2> QED BY <2>1, TablesStutter
<1>8. CASE UNCHANGED vars
  <2>1. UNCHANGED <<files, table_cache, path, filter, phase, ret>>
    BY <1>8 DEF vars, callVars
  <2> QED BY <2>1, TablesStutter
<1> QED
  BY <1>1, <1>2, <1>3, <1>4, <1>5, <1>6, <1>7, <1>8 DEF Next

\* Whichever of the two caches answers, whatever has been filtered before and
\* whatever has become of the file, from_csv answers a call with the records of
\* the one version that was read of its path which the statement accepts, record
\* by record and in the order of the file: parser, columns, bitmaps cut into
\* slices, column threads and pages included.
THEOREM TablesAreImplemented == Spec => ImplementsTables
<1>1. IInv /\ [Next]_vars => [Tables!Next]_(Tables!vars)
  BY TablesStep
<1> QED
  BY Invariant, TablesInit, <1>1, PTL DEF Spec, ImplementsTables, Tables!Spec
=============================================================================
