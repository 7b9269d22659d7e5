------------------------ MODULE PlanExecutor_proofs ------------------------
(***************************************************************************)
(* Proofs about PlanExecutor for any plans, page sizes and numbers of      *)
(* threads.  First: the recursion stays inside the plan, and the threads   *)
(* of materialize divide the columns of the answer among themselves, so    *)
(* that every column has exactly one writer.  Then: an intermediate column *)
(* gives back what was inserted, and a column that was not copied what its *)
(* base table has; references to strings stay inside the base tables; and  *)
(* the answer is read back as the result of the root.  Last: references    *)
(* lead to the strings they were made for, a scan lists the rows of its    *)
(* table and a join the pairs of rows with equal keys, so that every       *)
(* result has the rows that its node of the plan denotes.                  *)
(***************************************************************************)
EXTENDS PlanExecutor, Pages_proofs

-----------------------------------------------------------------------------
(* The division of the columns.                                            *)

LEMMA TimesMonotone ==
  ASSUME NEW a \in Nat, NEW b \in Nat, NEW q \in Nat, a <= b
  PROVE  a * q \in Nat /\ b * q \in Nat /\ a * q <= b * q
<1>1. PICK d \in Nat : b = a + d
  <2>1. b - a \in Nat /\ b = a + (b - a)
    OBVIOUS
  <2> QED
    BY <2>1
<1>2. d * q \in Nat /\ a * q \in Nat /\ (a + d) * q = a * q + d * q
  OBVIOUS
<1> QED
  BY <1>1, <1>2

LEMMA Quotient ==
  ASSUME NEW n \in Nat, NEW d \in Nat \ {0}
  PROVE  /\ n \div d \in Nat
         /\ (n \div d) * d \in Nat /\ (n \div d) * d <= n
         /\ n < (n \div d) * d + d
OBVIOUS

LEMMA Counts == NumThreads \in Nat /\ NumThreads >= 1
  BY PlansAssumption

\* The columns of a thread are a range inside the answer.
LEMMA RangeOfThread ==
  ASSUME NEW N \in Nat, NEW tid \in Threads
  PROVE  /\ StartColumn(tid, N) \in Nat /\ EndColumn(tid, N) \in Nat
         /\ StartColumn(tid, N) <= EndColumn(tid, N) /\ EndColumn(tid, N) <= N
<1> DEFINE q == N \div NumThreads
<1>1. tid \in Nat /\ tid <= NumThreads - 1 /\ NumThreads - 1 \in Nat
  BY Counts DEF Threads
<1>2. q \in Nat /\ q * NumThreads <= N
  BY Counts, Quotient
<1>3. ColumnsPerThread(N) = q
  BY DEF ColumnsPerThread
<1> HIDE DEF q
<1>4. tid * q \in Nat /\ tid * q <= NumThreads * q
  BY <1>1, <1>2, Counts, TimesMonotone
<1>5. NumThreads * q <= N
  BY <1>2, Counts
<1>6. StartColumn(tid, N) = tid * q
  BY <1>3 DEF StartColumn
<1>7. EndColumn(tid, N) = IF tid = NumThreads - 1 THEN N ELSE tid * q + q
  BY <1>3, <1>6 DEF EndColumn
<1> DEFINE start == tid * q
<1>8. start \in Nat /\ start <= N
  <2>1. NumThreads * q \in Nat
    BY <1>2, Counts
  <2> QED
    BY <1>4, <1>5, <2>1
<1>9. tid # NumThreads - 1 => tid * q + q <= N
  <2> SUFFICES ASSUME tid # NumThreads - 1 PROVE tid * q + q <= N
    OBVIOUS
  <2>1. tid + 1 \in Nat /\ tid + 1 <= NumThreads /\ (tid + 1) * q = tid * q + q
    BY <1>1, <1>2, Counts
  <2>2. (tid + 1) * q \in Nat /\ (tid + 1) * q <= NumThreads * q /\ NumThreads * q \in Nat
    BY <1>2, <2>1, Counts, TimesMonotone
  <2> QED BY <1>4, <1>5, <2>1, <2>2
<1> HIDE DEF start
<1> QED
  BY <1>2, <1>6, <1>7, <1>8, <1>9 DEF start

\* A column is in the range of the thread that its quotient names, where the last
\* thread stands for all quotients that are too large ...
LEMMA OwnerHas ==
  ASSUME NEW N \in Nat, NEW c \in 0 .. N - 1
  PROVE  \E tid \in Threads : /\ c \in ThreadColumns(tid, N)
                              /\ tid * ColumnsPerThread(N) <= c
                              /\ tid # NumThreads - 1 => c < (tid + 1) * ColumnsPerThread(N)
<1> DEFINE q == ColumnsPerThread(N)
           last == NumThreads - 1
<1>1. q \in Nat
  BY Counts, Quotient DEF ColumnsPerThread
<1>2. last \in Threads /\ last \in Nat /\ c \in Nat /\ c < N
  BY Counts DEF Threads
<1>3. last * q \in Nat
  BY <1>1, <1>2
<1>4. CASE last * q <= c
  <2>1. StartColumn(last, N) = last * q /\ EndColumn(last, N) = N
    BY DEF StartColumn, EndColumn
  <2> HIDE DEF q, last
  <2>2. c \in StartColumn(last, N) .. EndColumn(last, N) - 1
    BY <1>2, <1>3, <1>4, <2>1
  <2> QED
    BY <1>2, <1>4, <2>2 DEF ThreadColumns, q, last
<1>5. CASE c < last * q
  <2>1. q # 0
    BY <1>1, <1>2, <1>5
  <2> DEFINE k == c \div q
  <2>2. k \in Nat /\ k * q \in Nat /\ k * q <= c /\ c < k * q + q
    BY <1>1, <1>2, <2>1, Quotient
  <2> HIDE DEF k, q, last
  <2>3. k < last
    <3>1. SUFFICES ASSUME last <= k PROVE FALSE
      BY <1>2, <2>2
    <3>2. last * q <= k * q
      BY <1>1, <1>2, <2>2, <3>1, TimesMonotone
    <3> QED
      BY <1>2, <1>3, <1>5, <2>2, <3>2
  <2>4. k \in Threads /\ k # NumThreads - 1
    BY <1>2, <2>2, <2>3 DEF Threads, last
  <2>5. (k + 1) * q = k * q + q
    BY <1>1, <2>2
  <2>6. StartColumn(k, N) = k * q /\ EndColumn(k, N) = k * q + q
    BY <2>4 DEF StartColumn, EndColumn, q
  <2>7. c \in StartColumn(k, N) .. EndColumn(k, N) - 1
    BY <1>1, <1>2, <2>2, <2>6
  <2> QED
    BY <2>2, <2>4, <2>5, <2>7 DEF ThreadColumns, q
<1> HIDE DEF q, last
<1> QED
  BY <1>2, <1>3, <1>4, <1>5

\* ... and in no other range.
LEMMA OneOwner ==
  ASSUME NEW N \in Nat, NEW c \in 0 .. N - 1
  PROVE  \E tid \in Threads : \A other \in Threads :
           (c \in ThreadColumns(other, N)) = (other = tid)
<1> DEFINE q == ColumnsPerThread(N)
<1>1. q \in Nat /\ c \in Nat
  BY Counts, Quotient DEF ColumnsPerThread
<1>2. PICK tid \in Threads : /\ c \in ThreadColumns(tid, N)
                             /\ tid * q <= c
                             /\ tid # NumThreads - 1 => c < (tid + 1) * q
  BY OwnerHas
<1> SUFFICES ASSUME NEW other \in Threads, other # tid
             PROVE  c \notin ThreadColumns(other, N)
  BY <1>2
<1>3. /\ tid \in Nat /\ other \in Nat /\ tid + 1 \in Nat /\ other + 1 \in Nat
      /\ tid <= NumThreads - 1 /\ other <= NumThreads - 1
  BY Counts DEF Threads
<1>4. StartColumn(other, N) = other * q
  BY DEF StartColumn
<1>5. other # NumThreads - 1 => EndColumn(other, N) = other * q + q
  BY DEF StartColumn, EndColumn
<1>6. EndColumn(other, N) \in Int
  BY RangeOfThread
<1> HIDE DEF q
<1>7. CASE tid < other
  <2>1. c < (tid + 1) * q
    BY <1>2, <1>3, <1>7, Counts
  <2>2. (tid + 1) * q <= other * q /\ other * q \in Nat /\ (tid + 1) * q \in Nat
    BY <1>1, <1>3, <1>7, TimesMonotone
  <2>3. ~(other * q <= c)
    BY <1>1, <2>1, <2>2
  <2> QED
    BY <1>1, <1>4, <1>6, <2>2, <2>3 DEF ThreadColumns
<1>8. CASE other < tid
  <2>1. (other + 1) * q <= tid * q /\ tid * q \in Nat /\ other * q \in Nat
    BY <1>1, <1>3, <1>8, TimesMonotone
  <2>2. (other + 1) * q = other * q + q
    BY <1>1, <1>3
  <2>3. EndColumn(other, N) = other * q + q
    BY <1>3, <1>5, <1>8, Counts
  <2>4. EndColumn(other, N) <= c
    BY <1>1, <1>2, <2>1, <2>2, <2>3
  <2> QED
    BY <1>1, <1>4, <1>6, <2>1, <2>4 DEF ThreadColumns
<1> QED
  BY <1>3, <1>7, <1>8
-----------------------------------------------------------------------------
(* The inductive invariant.                                                *)

\* A call of execute_impl is for a node of the plan.
FrameOK(frame) ==
  /\ frame = [node |-> frame.node, results |-> frame.results]
  /\ frame.node + 1 \in DOMAIN plan.nodes

\* Until the root returns there is a call to go on with, and no thread.
CallsOK ==
  /\ IsSequence(stack) /\ stack # <<>>
  /\ \A k \in DOMAIN stack : FrameOK(stack[k])
  /\ next = <<>>

ThreadsInRange ==
  /\ next = [tid \in Threads |-> next[tid]]
  /\ \A tid \in Threads :
       next[tid] \in StartColumn(tid, Len(columns)) .. EndColumn(tid, Len(columns))

IInv ==
  /\ plan \in Plans
  /\ phase \in {"execute", "materialize", "done"}
  /\ phase = "execute" => CallsOK
  /\ IsSequence(columns)
  /\ next = <<>> \/ ThreadsInRange
-----------------------------------------------------------------------------
(* Calls and returns.                                                      *)

LEMMA FamilyIsSequence ==
  ASSUME NEW n \in Nat, NEW f, f = [x \in 1 .. n |-> f[x]]
  PROVE  IsSequence(f)
<1> DEFINE S == { f[x] : x \in 1 .. n }
<1>1. f \in [1 .. n -> S]
  OBVIOUS
<1>2. f \in Seq(S)
  BY <1>1
<1> QED
  BY <1>2 DEF IsSequence

\* The node of a call, its attributes and its children are those of the plan.
LEMMA NodeOfPlan ==
  ASSUME plan \in Plans, NEW n, n + 1 \in DOMAIN plan.nodes
  PROVE  /\ Node(n).output_attrs \in Seq(Nat \X DataTypes)
         /\ ~IsScan(Node(n)) => /\ Node(n).left + 1 \in DOMAIN plan.nodes
                                /\ Node(n).right + 1 \in DOMAIN plan.nodes
<1>1. PICK m : m = n + 1
  OBVIOUS
<1>2. /\ DOMAIN plan.nodes = 1 .. Len(plan.nodes) /\ Len(plan.nodes) \in Nat
      /\ WellFormed(plan, m) /\ m \in 1 .. Len(plan.nodes)
  BY <1>1, PlansAssumption
<1>3. PICK node : node = plan.nodes[m] /\ node = Node(n)
  BY <1>1 DEF Node
<1>4. node.output_attrs \in Seq(Nat \X DataTypes)
  BY <1>2, <1>3 DEF WellFormed
<1>5. ASSUME ~IsScan(node)
      PROVE  node.left + 1 \in DOMAIN plan.nodes /\ node.right + 1 \in DOMAIN plan.nodes
  <2>1. {node.left, node.right} \subseteq 0 .. m - 2
    BY <1>2, <1>3, <1>5 DEF WellFormed
  <2>2. m \in Nat /\ m <= Len(plan.nodes) /\ node.left \in 0 .. m - 2 /\ node.right \in 0 .. m - 2
    BY <1>2, <2>1
  <2> QED BY <1>2, <2>2
<1> QED
  BY <1>3, <1>4, <1>5

LEMMA TopOK ==
  ASSUME CallsOK
  PROVE  /\ Len(stack) \in Nat \ {0} /\ DOMAIN stack = 1 .. Len(stack)
         /\ FrameOK(Top)
<1>1. PICK S : stack \in Seq(S)
  BY DEF CallsOK, IsSequence
<1>2. Len(stack) \in Nat /\ DOMAIN stack = 1 .. Len(stack) /\ Len(stack) # 0
  BY <1>1 DEF CallsOK
<1> QED
  BY <1>2 DEF CallsOK, Top

\* A column per attribute makes a result.
LEMMA ResultIsSequence ==
  ASSUME plan \in Plans, CallsOK, NEW f,
         f = [a \in DOMAIN Here.output_attrs |-> f[a]]
  PROVE  IsSequence(f)
<1>1. Here.output_attrs \in Seq(Nat \X DataTypes)
  BY TopOK, NodeOfPlan DEF Here, FrameOK
<1> DEFINE attrs == Here.output_attrs
<1>2. f = [a \in DOMAIN attrs |-> f[a]]
  OBVIOUS
<1>3. attrs \in Seq(Nat \X DataTypes)
  BY <1>1
<1> HIDE DEF attrs
<1>4. Len(attrs) \in Nat /\ DOMAIN attrs = 1 .. Len(attrs)
  BY <1>3
<1> QED
  BY <1>2, <1>4, FamilyIsSequence

LEMMA FrontOf ==
  ASSUME NEW S, NEW s \in Seq(S), NEW m \in Nat, Len(s) = m + 1
  PROVE  /\ Front(s) \in Seq(S) /\ Len(Front(s)) = m
         /\ \A k \in 1 .. m : Front(s)[k] = s[k]
<1>1. Len(s) - 1 = m
  OBVIOUS
<1>2. Front(s) = SubSeq(s, 1, m)
  BY <1>1 DEF Front
<1>3. /\ SubSeq(s, 1, m) \in Seq(S) /\ Len(SubSeq(s, 1, m)) = m
      /\ \A k \in 1 .. m : SubSeq(s, 1, m)[k] = s[k]
  OBVIOUS
<1> QED
  BY <1>2, <1>3

LEMMA ReturnInv ==
  ASSUME IInv, phase = "execute", NEW result, IsSequence(result),
         Return(result), UNCHANGED <<plan, next>>
  PROVE  IInv'
<1>1. /\ CallsOK /\ next = <<>> /\ plan \in Plans
      /\ Len(stack) \in Nat \ {0} /\ DOMAIN stack = 1 .. Len(stack)
  BY TopOK DEF IInv, CallsOK
<1>2. CASE Len(stack) = 1
  <2>1. phase' = "materialize" /\ columns' = result /\ next' = <<>> /\ plan' = plan
    BY <1>1, <1>2 DEF Return
  <2> QED
    BY <1>1, <2>1 DEF IInv, IsSequence
<1>3. CASE Len(stack) # 1
  <2> DEFINE m == Len(stack) - 1
  <2>1. PICK S : stack \in Seq(S)
    BY <1>1 DEF CallsOK, IsSequence
  <2>2. m \in Nat \ {0} /\ m < Len(stack) /\ Len(stack) = m + 1
    BY <1>1, <1>3
  <2>3. /\ Front(stack) \in Seq(S) /\ Len(Front(stack)) = m
        /\ \A k \in 1 .. m : Front(stack)[k] = stack[k]
    <3> HIDE DEF m
    <3> QED
      BY <2>1, <2>2, FrontOf
  <2> DEFINE frame == [Front(stack)[m] EXCEPT !.results = Append(@, result)]
             calls == [Front(stack) EXCEPT ![m] = frame]
  <2>4. stack' = calls /\ phase' = "execute" /\ columns' = columns
    BY <1>3 DEF Return
  <2>5. FrameOK(stack[m])
    BY <1>1, <2>2 DEF CallsOK
  <2>6. frame = [node |-> stack[m].node, results |-> Append(stack[m].results, result)]
    <3>1. Front(stack)[m] = stack[m]
      BY <2>2, <2>3
    <3>2. PICK n, r : stack[m] = [node |-> n, results |-> r]
      BY <2>5 DEF FrameOK
    <3> QED
      BY <3>1, <3>2
  <2> HIDE DEF frame, m
  <2>7. DOMAIN calls = 1 .. m /\ \A k \in 1 .. m : calls[k] = IF k = m THEN frame ELSE stack[k]
    BY <2>2, <2>3
  <2>8. calls = [k \in 1 .. m |-> calls[k]]
    BY <2>7
  <2> HIDE DEF calls
  <2>9. IsSequence(calls) /\ calls # <<>>
    BY <2>2, <2>7, <2>8, FamilyIsSequence
  <2>10. ASSUME NEW k \in 1 .. m
         PROVE  FrameOK(calls[k])
    <3>1. CASE k = m
      BY <2>5, <2>6, <2>7, <3>1 DEF FrameOK
    <3>2. CASE k # m
      BY <1>1, <2>2, <2>7, <3>2 DEF CallsOK
    <3> QED
      BY <3>1, <3>2
  <2>11. CallsOK'
    BY <1>1, <2>4, <2>7, <2>9, <2>10 DEF CallsOK, FrameOK, IsSequence
  <2> QED
    BY <1>1, <2>4, <2>11 DEF IInv, IsSequence
<1> QED
  BY <1>2, <1>3

-----------------------------------------------------------------------------
(* The invariant holds.                                                    *)

LEMMA InitInv == Init => IInv
<1> SUFFICES ASSUME Init PROVE IInv
  OBVIOUS
<1> DEFINE frame == [node |-> plan.root, results |-> <<>>]
<1>1. /\ plan \in Plans /\ phase = "execute" /\ columns = <<>> /\ next = <<>>
      /\ stack = <<frame>>
  BY DEF Init
<1>2. plan.root + 1 \in DOMAIN plan.nodes
  BY <1>1, PlansAssumption
<1>3. frame = [node |-> frame.node, results |-> frame.results] /\ frame.node = plan.root
  OBVIOUS
<1> HIDE DEF frame
<1>4. <<frame>> \in Seq({frame}) /\ DOMAIN <<frame>> = {1} /\ <<frame>>[1] = frame
      /\ <<frame>> # <<>> /\ <<>> \in Seq({frame})
  OBVIOUS
<1>5. IsSequence(stack) /\ IsSequence(columns)
  BY <1>1, <1>4 DEF IsSequence
<1>6. CallsOK
  BY <1>1, <1>2, <1>3, <1>4, <1>5 DEF CallsOK, FrameOK
<1> QED
  BY <1>1, <1>5, <1>6 DEF IInv

LEMMA CallChildInv ==
  ASSUME IInv, CallChild
  PROVE  IInv'
<1>1. /\ CallsOK /\ phase = "execute" /\ plan \in Plans /\ ~IsScan(Here)
      /\ next = <<>> /\ FrameOK(Top)
  BY TopOK DEF IInv, CallChild, CallsOK
<1> DEFINE child == IF Top.results = <<>> THEN Here.left ELSE Here.right
           frame == [node |-> child, results |-> <<>>]
<1>2. child + 1 \in DOMAIN plan.nodes
  <2>1. /\ Here.left + 1 \in DOMAIN plan.nodes
        /\ Here.right + 1 \in DOMAIN plan.nodes
    BY <1>1, NodeOfPlan DEF Here, FrameOK
  <2> QED
    BY <2>1
<1>3. /\ stack' = Append(stack, frame)
      /\ UNCHANGED <<plan, phase, columns, next>>
  BY DEF CallChild
<1>4. frame = [node |-> frame.node, results |-> frame.results] /\ frame.node = child
  OBVIOUS
<1> HIDE DEF frame, child
<1>5. PICK S : stack \in Seq(S)
  BY <1>1 DEF CallsOK, IsSequence
<1>6. /\ stack' \in Seq(S \cup {frame}) /\ stack' # <<>>
      /\ \A k \in DOMAIN stack' : stack'[k] = frame \/ (k \in DOMAIN stack /\ stack'[k] = stack[k])
  <2>1. Append(stack, frame) \in Seq(S \cup {frame}) /\ Append(stack, frame) # <<>>
    BY <1>5
  <2>2. ASSUME NEW k \in DOMAIN Append(stack, frame)
        PROVE  \/ Append(stack, frame)[k] = frame
               \/ k \in DOMAIN stack /\ Append(stack, frame)[k] = stack[k]
    BY <1>5
  <2> QED
    BY <1>3, <2>1, <2>2
<1>7. \A k \in DOMAIN stack' : FrameOK(stack'[k])
  BY <1>1, <1>2, <1>3, <1>4, <1>6 DEF CallsOK, FrameOK
<1>8. CallsOK'
  BY <1>1, <1>3, <1>6, <1>7 DEF CallsOK, FrameOK, IsSequence
<1> QED
  BY <1>1, <1>3, <1>8 DEF IInv, IsSequence

LEMMA ScanInv ==
  ASSUME IInv, execute_scan
  PROVE  IInv'
<1>1. CallsOK /\ phase = "execute" /\ plan \in Plans
  BY DEF IInv, execute_scan
<1> DEFINE result == my_copy(Here)
<1>2. IsSequence(result)
  <2>1. result = [a \in DOMAIN Here.output_attrs |-> result[a]]
    BY DEF my_copy
  <2> HIDE DEF result
  <2> QED
    BY <1>1, <2>1, ResultIsSequence
<1>3. Return(result) /\ UNCHANGED <<plan, next>>
  BY DEF execute_scan
<1> HIDE DEF result
<1> QED
  BY <1>1, <1>2, <1>3, ReturnInv

LEMMA FinishJoinInv ==
  ASSUME IInv, FinishJoin
  PROVE  IInv'
<1>1. CallsOK /\ phase = "execute" /\ plan \in Plans
  BY DEF IInv, FinishJoin
<1> DEFINE result == JoinResult(Top.results[1], Top.results[2], Here.output_attrs, output')
<1>2. IsSequence(result)
  <2>1. result = [a \in DOMAIN Here.output_attrs |-> result[a]]
    BY DEF JoinResult
  <2> HIDE DEF result
  <2> QED
    BY <1>1, <2>1, ResultIsSequence
<1>3. Return(result) /\ UNCHANGED <<plan, next>>
  BY DEF FinishJoin
<1> HIDE DEF result
<1> QED
  BY <1>1, <1>2, <1>3, ReturnInv

LEMMA ColumnCount ==
  ASSUME IsSequence(columns)
  PROVE  Len(columns) \in Nat
<1>1. PICK S : columns \in Seq(S)
  BY DEF IsSequence
<1> QED
  BY <1>1

LEMMA StartThreadsInv ==
  ASSUME IInv, StartThreads
  PROVE  IInv'
<1> DEFINE N == Len(columns)
<1>1. /\ N \in Nat /\ plan' = plan /\ phase' = phase /\ phase = "materialize"
      /\ columns' = columns /\ next' = [tid \in Threads |-> StartColumn(tid, N)]
  BY ColumnCount DEF StartThreads, IInv
<1> HIDE DEF N
<1>2. ASSUME NEW tid \in Threads
      PROVE  next'[tid] \in StartColumn(tid, N) .. EndColumn(tid, N)
  BY <1>1, RangeOfThread
<1>3. ThreadsInRange'
  BY <1>1, <1>2 DEF ThreadsInRange, N
<1> QED
  BY <1>1, <1>3 DEF IInv, IsSequence

LEMMA MaterializeInv ==
  ASSUME IInv, next # <<>>, NEW tid \in Threads, MaterializeColumn(tid)
  PROVE  IInv'
<1> DEFINE N == Len(columns)
<1>1. /\ N \in Nat /\ plan' = plan /\ phase' = phase /\ phase = "materialize"
      /\ columns' = columns /\ next' = [next EXCEPT ![tid] = @ + 1]
      /\ next[tid] < EndColumn(tid, N) /\ ThreadsInRange
  BY ColumnCount DEF MaterializeColumn, IInv
<1>2. \A t \in Threads : next[t] \in StartColumn(t, N) .. EndColumn(t, N)
  BY <1>1 DEF ThreadsInRange
<1>3. next = [t \in Threads |-> next[t]]
  BY <1>1 DEF ThreadsInRange
<1> HIDE DEF N
<1>4. ASSUME NEW t \in Threads
      PROVE  next'[t] \in StartColumn(t, N) .. EndColumn(t, N)
  <2>1. StartColumn(t, N) \in Nat /\ EndColumn(t, N) \in Nat
    BY <1>1, RangeOfThread
  <2>2. next'[t] = IF t = tid THEN next[t] + 1 ELSE next[t]
    BY <1>1, <1>3
  <2> QED
    BY <1>1, <1>2, <2>1, <2>2
<1>5. next' = [t \in Threads |-> next'[t]]
  BY <1>1, <1>3
<1>6. ThreadsInRange'
  BY <1>1, <1>4, <1>5 DEF ThreadsInRange, N
<1> QED
  BY <1>1, <1>6 DEF IInv, IsSequence

LEMMA InvStep == IInv /\ [Next]_vars => IInv'
<1> SUFFICES ASSUME IInv, [Next]_vars PROVE IInv'
  OBVIOUS
<1>1. CASE execute_scan
  BY <1>1, ScanInv
<1>2. CASE CallChild
  BY <1>2, CallChildInv
<1>3. CASE BeginJoin
  BY <1>3 DEF BeginJoin, IInv, CallsOK, FrameOK, ThreadsInRange, IsSequence
<1>4. CASE FinishJoin
  BY <1>4, FinishJoinInv
<1>5. CASE StartThreads
  BY <1>5, StartThreadsInv
<1>6. CASE JoinThreads
  BY <1>6 DEF JoinThreads, IInv, ThreadsInRange, IsSequence
<1>7. CASE next # <<>> /\ \E tid \in Threads : MaterializeColumn(tid)
  BY <1>7, MaterializeInv
<1>8. CASE UNCHANGED vars
  BY <1>8 DEF vars, IInv, CallsOK, FrameOK, ThreadsInRange, IsSequence
<1> QED
  BY <1>1, <1>2, <1>3, <1>4, <1>5, <1>6, <1>7, <1>8 DEF Next

\* The recursion and the threads stay inside the plan and the answer.
THEOREM Invariant == Spec => []IInv
  BY InitInv, InvStep, PTL DEF Spec

\* Every column of an answer is in the range of exactly one thread of materialize,
\* and every thread stays in its range, whatever the numbers of columns and threads.
THEOREM ColumnsHaveOneWriter == Spec => []OneWriter
<1>1. IInv => OneWriter
  <2> SUFFICES ASSUME IInv, next # <<>> PROVE OneWriter
    BY DEF OneWriter
  <2>1. Len(columns) \in Nat /\ ThreadsInRange
    BY ColumnCount DEF IInv
  <2>2. \A c \in 0 .. Len(columns) - 1 : \E tid \in Threads : \A other \in Threads :
          (c \in ThreadColumns(other, Len(columns))) = (other = tid)
    BY <2>1, OneOwner
  <2> QED
    BY <2>1, <2>2 DEF OneWriter, ThreadsInRange
<1> QED
  BY <1>1, Invariant, PTL
-----------------------------------------------------------------------------
(* Pages of equally many items.                                            *)

LEMMA SizeOfPages == PageValues \in Nat \ {0}
  BY PlansAssumption

\* Item i of page k is row r.
RowAt(N, r, k, i) == r \div N + 1 = k /\ (r % N) + 1 = i /\ r + 1 = (k - 1) * N + i

\* Row r of m pages, of which the last has l items and the others N.
LEMMA RowOfPages ==
  ASSUME NEW N \in Nat \ {0}, NEW m \in Nat \ {0}, NEW l \in 1 .. N,
         NEW r \in Nat, r < (m - 1) * N + l
  PROVE  \E k \in 1 .. m, i \in 1 .. N : RowAt(N, r, k, i) /\ (k = m => i <= l)
<1>1. PICK q \in Nat, b \in Nat : q = r \div N /\ b = r % N /\ r = N * q + b /\ b < N
  OBVIOUS
<1>2. N * q = q * N /\ q * N \in Nat /\ (m - 1) * N \in Nat
  OBVIOUS
<1>3. q < m
  <2> SUFFICES ASSUME m <= q PROVE FALSE
    OBVIOUS
  <2>1. m * N \in Nat /\ m * N <= q * N
    BY TimesMonotone
  <2>2. m * N = (m - 1) * N + N
    OBVIOUS
  <2> QED BY <1>1, <1>2, <2>1, <2>2
<1>4. q = m - 1 => b < l
  BY <1>1, <1>2
<1> DEFINE k == q + 1
           i == b + 1
<1>5. k \in 1 .. m /\ i \in 1 .. N /\ k - 1 = q
  BY <1>1, <1>3
<1>6. r \div N + 1 = k /\ (r % N) + 1 = i
  BY <1>1
<1>7. r + 1 = (k - 1) * N + i
  BY <1>1, <1>2, <1>5
<1>8. k = m => i <= l
  BY <1>1, <1>4
<1> HIDE DEF k, i
<1>9. RowAt(N, r, k, i)
  BY <1>6, <1>7 DEF RowAt
<1> QED
  BY <1>5, <1>8, <1>9

LEMMA CollectsAre ==
  ASSUME NEW values, IsSequence(values)
  PROVE  ColumnOf(values) = Fold(Collecting(PageValues), NewColumn, values)
<1> DEFINE n == Len(values)
           o == Collecting(PageValues)
           Collects(h) == h = [d \in SUBSET (1 .. n) |->
                                 IF d = {} THEN NewColumn
                                 ELSE InsertValue(h[d \ {Max(d)}], values[Max(d)])]
           r == CHOOSE h : Collects(h)
<1>1. n \in Nat /\ DOMAIN values = 1 .. n
  BY DEF IsSequence
<1>2. \A a, x : Step(o, a, x) = InsertValue(a, x)
  <2> TAKE a, x
  <2>1. Step(o, a, x) = [a EXCEPT !.num_rows = @ + 1, !.pages = Collect(PageValues, @, x)]
    BY DEF Step, Collecting
  <2>2. Collect(PageValues, a.pages, x) = AddToPages(a.pages, x)
    BY DEF AddToPages, Collect, Full
  <2>3. InsertValue(a, x) = [a EXCEPT !.num_rows = @ + 1, !.pages = AddToPages(@, x)]
    BY DEF InsertValue
  <2> QED BY <2>1, <2>2, <2>3
<1> HIDE DEF o, n
<1>3. PICK h : Folds(h, o, NewColumn, values, n)
  BY <1>1, FoldsExist
<1>4. Collects(h)
  BY <1>2, <1>3 DEF Folds
<1>5. Collects(r)
  BY <1>4
<1>6. ColumnOf(values) = r[1 .. n]
  BY <1>1 DEF ColumnOf, FoldLeft, MapThenFoldSet
<1> HIDE DEF r
<1>7. Folds(r, o, NewColumn, values, n)
  BY <1>2, <1>5 DEF Folds
<1> QED
  BY <1>1, <1>6, <1>7, FoldIs DEF n, o

\* Pages P of N items hold the values, the last page those that are left over.
Holds(N, P, values) ==
  LET m == Len(P)
  IN  /\ IsSequence(P) /\ \A k \in DOMAIN P : IsSequence(P[k])
      /\ IF P = <<>> THEN Len(values) = 0
         ELSE /\ \A k \in 1 .. m - 1 : Len(P[k]) = N
              /\ Len(P[m]) \in 1 .. N
              /\ Len(values) = (m - 1) * N + Len(P[m])
              /\ \A k \in 1 .. m : \A i \in 1 .. Len(P[k]) :
                   values[(k - 1) * N + i] = P[k][i]

LEMMA HeldAt ==
  ASSUME NEW N \in Nat \ {0}, NEW P, NEW values, IsSequence(values), Holds(N, P, values),
         NEW r \in Nat, r < Len(values)
  PROVE  \E k \in DOMAIN P, i \in 1 .. N :
           RowAt(N, r, k, i) /\ i \in 1 .. Len(P[k]) /\ P[k][i] = values[r + 1]
<1>1. PICK S : P \in Seq(S)
  BY DEF Holds, IsSequence
<1>2. PICK m \in Nat : m = Len(P) /\ DOMAIN P = 1 .. m
  BY <1>1
<1>3. Len(values) \in Nat
  BY DEF IsSequence
<1>4. P # <<>> /\ m # 0
  <2>1. Len(values) # 0
    BY <1>3
  <2>2. P # <<>>
    BY <2>1 DEF Holds
  <2> QED BY <1>1, <1>2, <2>2, EmptySeq
<1>5. /\ \A k \in 1 .. m - 1 : Len(P[k]) = N
      /\ Len(P[m]) \in 1 .. N
      /\ Len(values) = (m - 1) * N + Len(P[m])
      /\ \A k \in 1 .. m : \A i \in 1 .. Len(P[k]) :
           values[(k - 1) * N + i] = P[k][i]
  BY <1>2, <1>4 DEF Holds
<1>6. PICK l \in 1 .. N : l = Len(P[m])
  BY <1>5
<1>7. r < (m - 1) * N + l
  BY <1>5, <1>6
<1>8. PICK k \in 1 .. m, i \in 1 .. N : RowAt(N, r, k, i) /\ (k = m => i <= l)
  BY <1>4, <1>7, RowOfPages
<1>9. i \in 1 .. Len(P[k])
  <2>1. CASE k = m
    BY <1>6, <1>8, <2>1
  <2>2. CASE k # m
    <3>1. k \in 1 .. m - 1
      BY <2>2
    <3> QED BY <1>5, <3>1
  <2> QED BY <2>1, <2>2
<1>10. values[(k - 1) * N + i] = P[k][i]
  BY <1>5, <1>9
<1> QED
  BY <1>2, <1>8, <1>9, <1>10 DEF RowAt

\* One more value, on the last page or on a new one.
LEMMA HoldsMore ==
  ASSUME NEW N \in Nat \ {0}, NEW P, NEW values, IsSequence(values), Holds(N, P, values), NEW v,
         NEW Q, Q = IF P = <<>> \/ Len(P[Len(P)]) >= N
                      THEN Append(P, <<v>>) ELSE [P EXCEPT ![Len(P)] = Append(@, v)]
  PROVE  Holds(N, Q, Append(values, v))
<1>1. PICK S : P \in Seq(S)
  BY DEF Holds, IsSequence
<1>2. PICK m \in Nat : m = Len(P) /\ DOMAIN P = 1 .. m
  BY <1>1
<1>3. PICK V : values \in Seq(V)
  BY DEF IsSequence
<1>4. PICK n \in Nat : n = Len(values)
  BY <1>3
<1>5. PICK more : more = Append(values, v)
  OBVIOUS
<1>6. /\ IsSequence(more) /\ Len(more) = n + 1 /\ more[n + 1] = v
      /\ \A i \in 1 .. n : more[i] = values[i]
  <2>1. IsSequence(more)
    BY <1>5, SequenceLaws
  <2>2. Len(more) = n + 1 /\ more[n + 1] = v /\ \A i \in 1 .. n : more[i] = values[i]
    BY <1>3, <1>4, <1>5
  <2> QED BY <2>1, <2>2
<1>7. PICK one : one = <<v>> /\ IsSequence(one) /\ Len(one) = 1 /\ one[1] = v
  <2>1. <<v>> \in Seq({v}) /\ Len(<<v>>) = 1 /\ <<v>>[1] = v
    OBVIOUS
  <2> QED BY <2>1 DEF IsSequence
<1>8. \A k \in DOMAIN P : IsSequence(P[k])
  BY DEF Holds
<1>9. CASE P = <<>>
  <2>1. n = 0 /\ m = 0
    BY <1>2, <1>4, <1>9 DEF Holds
  <2>2. Q = Append(P, one)
    BY <1>7, <1>9
  <2>3. IsSequence(Q) /\ Len(Q) = 1 /\ DOMAIN Q = 1 .. 1 /\ Q[1] = one
    <3>1. IsSequence(Q)
      BY <2>2, SequenceLaws DEF Holds
    <3>2. Q = <<one>>
      BY <1>9, <2>2
    <3>3. Len(Q) = 1
      BY ONLY <3>2
    <3>4. DOMAIN Q = 1 .. 1
      BY ONLY <3>2
    <3>5. Q[1] = one
      BY ONLY <3>2
    <3> QED BY <3>1, <3>3, <3>4, <3>5
  <2>4. Q # <<>>
    BY <2>3
  <2>5. Len(more) = (1 - 1) * N + Len(Q[1])
    <3>1. PICK z : z = (1 - 1) * N
      OBVIOUS
    <3>2. z = 0
      BY <3>1
    <3>3. Len(Q[1]) = 1
      BY <1>7, <2>3
    <3>4. Len(more) = 1
      BY <1>6, <2>1
    <3>5. Len(more) = z + Len(Q[1])
      BY <3>2, <3>3, <3>4
    <3> QED BY <3>1, <3>5
  <2>6. ASSUME NEW k \in 1 .. 1, NEW i \in 1 .. Len(Q[k])
        PROVE  more[(k - 1) * N + i] = Q[k][i]
    <3>1. k = 1 /\ Q[k] = one
      BY <2>3
    <3>2. i = 1
      <4>1. Len(Q[k]) = 1
        BY <1>7, <3>1
      <4>2. i \in 1 .. 1
        BY <2>6, <4>1
      <4> QED BY <4>2
    <3>3. (k - 1) * N + i = 1
      <4>1. k - 1 = 0 /\ 0 * N = 0
        BY <3>1
      <4> QED BY <3>2, <4>1
    <3> QED BY <1>6, <1>7, <2>1, <3>1, <3>2, <3>3
  <2>7. \A k \in 1 .. 1 - 1 : FALSE
    OBVIOUS
  <2>8. \A k \in DOMAIN Q : IsSequence(Q[k])
    <3> TAKE k \in DOMAIN Q
    <3>1. k = 1
      BY <2>3
    <3> QED BY <1>7, <2>3, <3>1
  <2>9. Len(Q[1]) \in 1 .. N
    BY <1>7, <2>3
  <2>10. Holds(N, Q, more)
    BY <2>3, <2>4, <2>5, <2>6, <2>7, <2>8, <2>9 DEF Holds
  <2> QED BY <1>5, <2>10
<1> SUFFICES ASSUME P # <<>> PROVE Holds(N, Q, more)
  BY <1>5, <1>9
<1>10. /\ m \in Nat \ {0}
       /\ \A k \in 1 .. m - 1 : Len(P[k]) = N
       /\ Len(P[m]) \in 1 .. N
       /\ n = (m - 1) * N + Len(P[m])
       /\ \A k \in 1 .. m : \A i \in 1 .. Len(P[k]) : values[(k - 1) * N + i] = P[k][i]
  <2>1. m # 0
    BY <1>1, <1>2, EmptySeq
  <2> QED BY <1>2, <1>4, <2>1 DEF Holds
\* The rows before page k.
<1>11. PICK base : base = [k \in 1 .. m + 1 |-> (k - 1) * N]
  OBVIOUS
<1>12. /\ \A k \in 1 .. m : base[k] \in Nat /\ (k < m => base[k] + N <= base[m])
       /\ base[m + 1] = base[m] + N
  <2>1. ASSUME NEW k \in 1 .. m PROVE base[k] \in Nat /\ (k < m => base[k] + N <= base[m])
    <3>1. k - 1 \in Nat /\ m - 1 \in Nat /\ k \in Nat /\ m \in 1 .. m
      BY <1>10
    <3>2. (k - 1) * N \in Nat /\ (k - 1) * N + N = k * N
      BY <3>1
    <3>3. k < m => k * N <= (m - 1) * N
      BY <3>1, TimesMonotone
    <3>4. base[k] = (k - 1) * N /\ base[m] = (m - 1) * N
      BY <1>11, <3>1
    <3> QED BY <3>2, <3>3, <3>4
  <2>2. base[m + 1] = base[m] + N
    <3>1. m \in 1 .. m + 1 /\ m + 1 \in 1 .. m + 1 /\ m + 1 - 1 = m
      BY <1>10
    <3>2. base[m + 1] = m * N /\ base[m] = (m - 1) * N
      BY <1>11, <3>1
    <3>3. m * N = (m - 1) * N + N
      OBVIOUS
    <3> QED BY <3>2, <3>3
  <2> QED BY <2>1, <2>2
<1>13. PICK a \in Nat : a = base[m]
  BY <1>10, <1>12
<1>14. PICK l \in 1 .. N : l = Len(P[m])
  BY <1>10
<1>15. n = a + l
  <2>1. m \in 1 .. m + 1
    BY <1>10
  <2>2. a = (m - 1) * N
    BY <1>11, <1>13, <2>1
  <2> QED BY <1>10, <1>14, <2>2
\* The value of an item is among those that were there.
<1>16. ASSUME NEW k \in 1 .. m, NEW i \in 1 .. Len(P[k])
       PROVE  more[base[k] + i] = P[k][i]
  <2>1. base[k] + i \in 1 .. n
    <3>1. CASE k = m
      BY <1>13, <1>14, <1>15, <3>1, SMTT(30)
    <3>2. CASE k # m
      <4>1. k \in 1 .. m - 1 /\ k < m
        BY <3>2
      <4>2. Len(P[k]) = N /\ base[k] \in Nat /\ base[k] + N <= a
        BY <1>10, <1>12, <1>13, <4>1
      <4> QED BY <1>15, <4>2, SMTT(30)
    <3> QED BY <3>1, <3>2
  <2>2. base[k] = (k - 1) * N
    BY <1>11
  <2> QED BY <1>6, <1>10, <2>1, <2>2
<1>17. CASE l >= N
  <2>1. Q = Append(P, one)
    BY <1>2, <1>7, <1>14, <1>17
  <2>2. /\ IsSequence(Q) /\ Len(Q) = m + 1 /\ DOMAIN Q = 1 .. m + 1 /\ Q[m + 1] = one
        /\ \A k \in 1 .. m : Q[k] = P[k]
    <3>1. IsSequence(Q)
      BY <2>1, SequenceLaws DEF Holds
    <3>2. /\ Len(Q) = m + 1 /\ DOMAIN Q = 1 .. m + 1 /\ Q[m + 1] = one
          /\ \A k \in 1 .. m : Q[k] = P[k]
      <4>1. /\ Append(P, one) \in Seq(S \cup {one}) /\ Len(Append(P, one)) = m + 1
            /\ Append(P, one)[m + 1] = one
        BY <1>1, <1>2
      <4>2. \A k \in 1 .. m : Append(P, one)[k] = P[k]
        BY <1>1, <1>2
      <4> QED BY <2>1, <4>1, <4>2
    <3> QED BY <3>1, <3>2
  <2>3. l = N /\ n = base[m + 1]
    BY <1>12, <1>13, <1>15, <1>17
  <2>4. \A k \in 1 .. m + 1 - 1 : Len(Q[k]) = N
    <3> TAKE k \in 1 .. m + 1 - 1
    <3>1. k \in 1 .. m /\ (k = m \/ k \in 1 .. m - 1)
      OBVIOUS
    <3> QED BY <1>10, <1>14, <2>2, <2>3, <3>1
  <2>5. Len(more) = (m + 1 - 1) * N + Len(Q[m + 1])
    <3>1. base[m + 1] = (m + 1 - 1) * N
      BY <1>11
    <3> QED BY <1>6, <1>7, <2>2, <2>3, <3>1
  <2>6. ASSUME NEW k \in 1 .. m + 1, NEW i \in 1 .. Len(Q[k])
        PROVE  more[(k - 1) * N + i] = Q[k][i]
    <3>1. base[k] = (k - 1) * N
      BY <1>11
    <3>2. CASE k = m + 1
      <4>2. Q[k] = one
        BY <2>2, <3>2
      <4>3. Len(Q[k]) = 1 /\ Q[k][1] = v
        BY <1>7, <4>2
      <4>5. i \in 1 .. 1
        BY <2>6, <4>3
      <4>4. i = 1
        BY <4>5
      <4>1. i = 1 /\ Q[k][i] = v
        BY <4>3, <4>4
      <4> QED BY <1>6, <2>3, <3>1, <3>2, <4>1
    <3>3. CASE k # m + 1
      <4>1. k \in 1 .. m /\ Q[k] = P[k]
        BY <2>2, <3>3
      <4> QED BY <1>16, <2>6, <3>1, <4>1
    <3> QED BY <3>2, <3>3
  <2>7. \A k \in DOMAIN Q : IsSequence(Q[k])
    <3> TAKE k \in DOMAIN Q
    <3>1. k = m + 1 \/ k \in 1 .. m
      BY <2>2
    <3> QED BY <1>2, <1>7, <1>8, <2>2, <3>1
  <2>8. Q # <<>> /\ Len(Q[m + 1]) \in 1 .. N
    BY <1>7, <2>2
  <2>9. PICK M \in Nat : M = m + 1
    OBVIOUS
  <2>10. /\ M = Len(Q) /\ IsSequence(Q) /\ Q # <<>> /\ Len(Q[M]) \in 1 .. N
         /\ \A k \in 1 .. M - 1 : Len(Q[k]) = N
         /\ Len(more) = (M - 1) * N + Len(Q[M])
    <3>1. M = Len(Q) /\ IsSequence(Q) /\ Q # <<>> /\ Len(Q[M]) \in 1 .. N
      BY <2>2, <2>8, <2>9
    <3>4. m + 1 - 1 = m /\ M - 1 = m
      BY <2>9
    <3>5. \A k \in 1 .. m : Len(Q[k]) = N
      BY <2>4, <3>4
    <3>2. \A k \in 1 .. M - 1 : Len(Q[k]) = N
      BY <3>4, <3>5
    <3>6. PICK z : z = m * N
      OBVIOUS
    <3>7. Len(more) = z + Len(Q[M])
      BY <2>5, <2>9, <3>4, <3>6
    <3>8. z = (M - 1) * N
      BY <3>4, <3>6
    <3>3. Len(more) = (M - 1) * N + Len(Q[M])
      BY <3>7, <3>8
    <3> QED BY <3>1, <3>2, <3>3
  <2>11. \A k \in 1 .. M : \A i \in 1 .. Len(Q[k]) : more[(k - 1) * N + i] = Q[k][i]
    BY <2>6, <2>9
  <2> QED BY <2>7, <2>10, <2>11 DEF Holds
<1>18. CASE l < N
  <2>1. PICK last : last = Append(P[m], v)
    OBVIOUS
  <2>2. Q = [P EXCEPT ![m] = last]
    BY <1>2, <1>14, <1>18, <2>1
  <2>3. PICK b, U : b = P[m] /\ b \in Seq(U) /\ Len(b) = l
    <3>1. IsSequence(P[m])
      BY <1>2, <1>8, <1>10, SMTT(30)
    <3> QED BY <1>14, <3>1 DEF IsSequence
  <2>4. /\ IsSequence(last) /\ Len(last) = l + 1 /\ last[l + 1] = v
        /\ \A i \in 1 .. l : last[i] = b[i]
    <3>1. last = Append(b, v)
      BY <2>1, <2>3
    <3>2. last \in Seq(U \cup {v})
      BY <2>3, <3>1
    <3>3. Len(last) = l + 1 /\ last[l + 1] = v /\ \A i \in 1 .. l : last[i] = b[i]
      BY <2>3, <3>1
    <3> QED BY <3>2, <3>3 DEF IsSequence
  <2>5. m \in 1 .. Len(P)
    BY <1>2, <1>10
  <2>6. /\ Len(Q) = m /\ DOMAIN Q = 1 .. m /\ Q[m] = last /\ IsSequence(Q)
        /\ \A k \in 1 .. m : k # m => Q[k] = P[k]
    <3>4. PICK T : T = S \cup {last}
      OBVIOUS
    <3>1. P \in Seq(T) /\ last \in T
      BY <1>1, <3>4
    <3>2. Q \in Seq(T) /\ Len(Q) = Len(P)
      <4>1. [P EXCEPT ![m] = last] \in Seq(T)
        BY <2>5, <3>1, ExceptSeq
      <4>2. Len([P EXCEPT ![m] = last]) = Len(P)
        BY <2>5, <3>1, ExceptSeq
      <4> QED BY <2>2, <4>1, <4>2
    <3>3. \A k \in 1 .. m : Q[k] = IF k = m THEN last ELSE P[k]
      BY <1>2, <2>2
    <3>5. IsSequence(Q)
      BY <3>2 DEF IsSequence
    <3>6. Len(Q) = m /\ DOMAIN Q = 1 .. m
      BY <1>2, <3>2
    <3>7. m \in 1 .. m
      BY <1>2, <2>5
    <3>8. Q[m] = last /\ \A k \in 1 .. m : k # m => Q[k] = P[k]
      BY <3>3, <3>7
    <3> QED BY <3>5, <3>6, <3>8
  <2>7. \A k \in 1 .. m - 1 : Len(Q[k]) = N
    <3> TAKE k \in 1 .. m - 1
    <3>1. k \in 1 .. m /\ k # m
      OBVIOUS
    <3> QED BY <1>10, <2>6, <3>1
  <2>8. Len(more) = (m - 1) * N + Len(Q[m]) /\ Len(Q[m]) \in 1 .. N
    <3>1. (m - 1) * N = a
      BY <1>10, <1>11, <1>13
    <3>2. Len(Q[m]) = l + 1 /\ Len(more) = a + l + 1
      BY <1>6, <1>15, <2>4, <2>6
    <3>3. l + 1 \in 1 .. N /\ a + l + 1 = a + (l + 1)
      BY <1>18
    <3> QED BY <3>1, <3>2, <3>3
  <2>9. ASSUME NEW k \in 1 .. m, NEW i \in 1 .. Len(Q[k])
        PROVE  more[(k - 1) * N + i] = Q[k][i]
    <3>1. base[k] = (k - 1) * N
      BY <1>11
    <3>2. CASE k = m /\ i = l + 1
      <4>1. Q[k][i] = v
        BY <2>4, <2>6, <3>2
      <4>2. base[k] + i = n + 1
        <5>1. base[k] = a
          BY <1>13, <3>2
        <5>2. i = l + 1
          BY <3>2
        <5>3. a + (l + 1) = a + l + 1
          OBVIOUS
        <5> QED BY <1>15, <5>1, <5>2, <5>3
      <4> QED BY <1>6, <3>1, <4>1, <4>2
    <3>3. CASE k = m /\ i # l + 1
      <4>1. i \in 1 .. l
        BY <2>4, <2>6, <2>9, <3>3
      <4>2. Q[k][i] = P[k][i] /\ i \in 1 .. Len(P[k])
        BY <1>14, <2>3, <2>4, <2>6, <3>3, <4>1
      <4> QED BY <1>16, <3>1, <4>2
    <3>4. CASE k # m
      <4>1. Q[k] = P[k]
        BY <2>6, <3>4
      <4> QED BY <1>16, <2>9, <3>1, <4>1
    <3> QED BY <3>2, <3>3, <3>4
  <2>10. \A k \in DOMAIN Q : IsSequence(Q[k])
    <3> TAKE k \in DOMAIN Q
    <3>1. k \in 1 .. m
      BY <2>6
    <3> QED BY <1>2, <1>8, <2>4, <2>6, <3>1
  <2>11. Q # <<>>
    BY <1>10, <2>6
  <2> QED BY <2>6, <2>7, <2>8, <2>9, <2>10, <2>11 DEF Holds
<1> QED
  BY <1>17, <1>18

\* The size of the first page can stand for that of all but the last.
LEMMA HoldsFirst ==
  ASSUME NEW N \in Nat \ {0}, NEW P, P # <<>>, NEW values, Holds(N, P, values)
  PROVE  Len(P[1]) \in Nat \ {0} /\ Holds(Len(P[1]), P, values)
<1>1. PICK S : P \in Seq(S)
  BY DEF Holds, IsSequence
<1>2. PICK m \in Nat \ {0} : m = Len(P) /\ DOMAIN P = 1 .. m
  <2>1. Len(P) \in Nat \ {0}
    BY <1>1, EmptySeq
  <2> QED BY <1>1, <2>1
<1>3. /\ \A k \in 1 .. m - 1 : Len(P[k]) = N
      /\ Len(P[m]) \in 1 .. N
      /\ Len(values) = (m - 1) * N + Len(P[m])
      /\ \A k \in 1 .. m : \A i \in 1 .. Len(P[k]) : values[(k - 1) * N + i] = P[k][i]
  BY <1>2 DEF Holds
<1>4. CASE m = 1
  <2>1. PICK l \in Nat \ {0} : l = Len(P[1])
    BY <1>3, <1>4
  <2>2. (1 - 1) * N = 0 /\ (1 - 1) * l = 0
    OBVIOUS
  <2>3. Len(values) = (1 - 1) * l + Len(P[1])
    BY <1>3, <1>4, <2>2
  <2>4. ASSUME NEW k \in 1 .. 1, NEW i \in 1 .. Len(P[k])
        PROVE  values[(k - 1) * l + i] = P[k][i]
    <3>1. k = 1 /\ values[(k - 1) * N + i] = P[k][i]
      BY <1>3, <1>4
    <3>2. (k - 1) * N = (k - 1) * l
      BY <2>2, <3>1
    <3> QED BY <3>1, <3>2
  <2>5. \A k \in 1 .. 1 - 1 : FALSE
    OBVIOUS
  <2>6. Len(P[1]) \in 1 .. l
    BY <2>1
  <2>7. IsSequence(P) /\ \A k \in DOMAIN P : IsSequence(P[k])
    BY DEF Holds
  <2>8. Holds(l, P, values)
    BY <1>2, <1>4, <2>3, <2>4, <2>5, <2>6, <2>7 DEF Holds
  <2> QED BY <2>1, <2>8
<1>5. CASE m # 1
  <2>1. 1 \in 1 .. m - 1
    BY <1>2, <1>5
  <2> QED BY <1>3, <2>1
<1> QED
  BY <1>4, <1>5

\* A column whose values were inserted one by one.
Collected(column, done) ==
  /\ column = [num_rows |-> Len(done), has_nulls |-> TRUE, pages |-> column.pages,
               orig_col |-> <<>>]
  /\ Holds(PageValues, column.pages, done)

LEMMA CollectedNothing == Collected(NewColumn, <<>>)
<1>1. Len(<<>>) = 0 /\ DOMAIN <<>> = {} /\ <<>> \in Seq({})
  OBVIOUS
<1>2. Holds(PageValues, <<>>, <<>>)
  BY <1>1 DEF Holds, IsSequence
<1> QED
  BY <1>1, <1>2 DEF Collected, NewColumn

LEMMA CollectedMore ==
  ASSUME NEW column, NEW done, IsSequence(done), Collected(column, done), NEW v
  PROVE  Collected(InsertValue(column, v), Append(done, v))
<1>1. PICK P : P = column.pages
  OBVIOUS
<1>2. PICK n : n = Len(done)
  OBVIOUS
<1>3. column = [num_rows |-> n, has_nulls |-> TRUE, pages |-> P, orig_col |-> <<>>]
  BY <1>1, <1>2 DEF Collected
<1>4. PICK Q : Q = IF P = <<>> \/ Len(P[Len(P)]) >= PageValues
                     THEN Append(P, <<v>>) ELSE [P EXCEPT ![Len(P)] = Append(@, v)]
  OBVIOUS
<1>5. Holds(PageValues, Q, Append(done, v))
  BY <1>1, <1>4, HoldsMore, SizeOfPages DEF Collected
<1>6. InsertValue(column, v)
        = [num_rows |-> n + 1, has_nulls |-> TRUE, pages |-> Q, orig_col |-> <<>>]
  <2>1. AddToPages(P, v) = Q
    BY <1>4 DEF AddToPages, Full, Last
  <2>2. InsertValue(column, v) = [column EXCEPT !.num_rows = @ + 1, !.pages = Q]
    BY <1>1, <2>1 DEF InsertValue
  <2> QED BY <1>3, <2>2
<1>7. Len(Append(done, v)) = n + 1
  BY <1>2 DEF IsSequence
<1> QED
  BY <1>5, <1>6, <1>7 DEF Collected

LEMMA ColumnOfCollects ==
  ASSUME NEW values, IsSequence(values)
  PROVE  Collected(ColumnOf(values), values)
<1>1. PICK V : values \in Seq(V)
  BY DEF IsSequence
<1>2. PICK N \in Nat : N = Len(values) /\ DOMAIN values = 1 .. N
  BY <1>1
<1>3. PICK o : o = Collecting(PageValues)
  OBVIOUS
<1> DEFINE first(n) == SubSeq(values, 1, n)
           T == { n \in Nat : n <= N => Collected(Fold(o, NewColumn, first(n)), first(n)) }
<1>4. 0 \in T
  <2>1. first(0) = <<>>
    OBVIOUS
  <2>2. Fold(o, NewColumn, <<>>) = NewColumn
    BY FoldEmpty
  <2> QED BY <2>1, <2>2, CollectedNothing
<1>5. ASSUME NEW n \in Nat, n \in T
      PROVE  n + 1 \in T
  <2> SUFFICES ASSUME n + 1 <= N
               PROVE  Collected(Fold(o, NewColumn, first(n + 1)), first(n + 1))
    OBVIOUS
  <2>1. first(n + 1) = Append(first(n), values[n + 1]) /\ first(n) \in Seq(V)
    BY <1>1, <1>2, FirstPages
  <2>2. Collected(Fold(o, NewColumn, first(n)), first(n))
    BY <1>5
  <2>3. PICK v : v = values[n + 1]
    OBVIOUS
  <2>4. PICK c : c = Fold(o, NewColumn, first(n))
    OBVIOUS
  <2> HIDE DEF first
  <2>5. Fold(o, NewColumn, Append(first(n), v)) = Step(o, c, v)
    BY <2>1, <2>4, FoldLast
  <2>6. Step(o, c, v) = InsertValue(c, v)
    <3>1. Step(o, c, v) = [c EXCEPT !.num_rows = @ + 1, !.pages = Collect(PageValues, @, v)]
      BY <1>3 DEF Step, Collecting
    <3>2. Collect(PageValues, c.pages, v) = AddToPages(c.pages, v)
      BY DEF AddToPages, Collect, Full
    <3> QED BY <3>1, <3>2 DEF InsertValue
  <2>7. IsSequence(first(n))
    BY <2>1 DEF IsSequence
  <2>8. Collected(InsertValue(c, v), Append(first(n), v))
    BY <2>2, <2>4, <2>7, CollectedMore
  <2> QED BY <2>1, <2>3, <2>5, <2>6, <2>8
<1>6. N \in T
  <2> HIDE DEF T
  <2> QED BY <1>4, <1>5, Induction
<1>7. first(N) = values
  BY <1>1, <1>2, SubSeqFull
<1>8. Collected(Fold(o, NewColumn, values), values)
  <2> HIDE DEF first
  <2>1. Collected(Fold(o, NewColumn, first(N)), first(N))
    BY <1>6
  <2> QED BY <1>7, <2>1
<1> QED
  BY <1>3, <1>8, CollectsAre

\* An intermediate result is read as it was written.
LEMMA ColumnOfExact ==
  ASSUME NEW values, IsSequence(values), NEW column, column = ColumnOf(values)
  PROVE  /\ column.num_rows = Len(values) /\ column.has_nulls = TRUE
         /\ \A r \in 0 .. Len(values) - 1 : get_value(column, r) = values[r + 1]
<1>1. PICK P : P = column.pages
  OBVIOUS
<1>2. /\ column = [num_rows |-> Len(values), has_nulls |-> TRUE, pages |-> P, orig_col |-> <<>>]
      /\ Holds(PageValues, P, values)
  BY <1>1, ColumnOfCollects DEF Collected
<1>3. Len(values) \in Nat
  BY DEF IsSequence
<1>4. ASSUME NEW r \in 0 .. Len(values) - 1
      PROVE  get_value(column, r) = values[r + 1]
  <2>1. r \in Nat /\ r < Len(values)
    BY <1>3
  <2>2. PICK k \in DOMAIN P, i \in 1 .. PageValues :
           RowAt(PageValues, r, k, i) /\ i \in 1 .. Len(P[k]) /\ P[k][i] = values[r + 1]
    BY <1>2, <2>1, SizeOfPages, HeldAt
  <2>3. get_value(column, r) = P[r \div PageValues + 1][(r % PageValues) + 1]
    BY <1>2 DEF get_value
  <2> QED BY <2>2, <2>3 DEF RowAt
<1>5. column.num_rows = Len(values) /\ column.has_nulls = TRUE
  BY <1>2
<1> QED
  BY <1>4, <1>5
-----------------------------------------------------------------------------
(* A column of integers without nulls, which is read where it lies.        *)

\* A page with n integers, and no null, takes no more.
FullAt(n) == HeaderBytes + n * 4 + 4 + n \div ByteBits + 1 > PageSize

FirstFull(N) == N \in Nat \ {0} /\ FullAt(N) /\ \A n \in Nat : n < N => ~FullAt(n)

LEMMA SomePageIsFull == \E N : FirstFull(N)
<1> DEFINE T == { n \in Nat : FullAt(n) }
<1>1. PICK B \in Nat \ {0} : B = ByteBits
  BY PageSizes
<1>2. PageSize \in T
  <2>1. PICK p \in Nat : p = PageSize
    BY PageSizes
  <2>2. p \div B \in Nat
    BY Division
  <2> QED BY <1>1, <2>1, <2>2 DEF FullAt, HeaderBytes
<1>3. PICK N \in T : \A k \in T : N <= k
  BY <1>2, LeastNat
<1>4. ~FullAt(0)
  <2>1. 0 \div B = 0
    OBVIOUS
  <2> QED BY <1>1, <2>1, PageSizes DEF FullAt, HeaderBytes
<1>5. N \in Nat /\ FullAt(N) /\ \A k \in Nat : FullAt(k) => N <= k
  BY <1>3
<1>6. N # 0
  BY <1>4, <1>5
<1>7. \A n \in Nat : n < N => ~FullAt(n)
  BY <1>5
<1> QED
  BY <1>5, <1>6, <1>7 DEF FirstFull

ItemsOf(pages) == [k \in DOMAIN pages |-> pages[k].items]

LEMMA ItemsOfPages ==
  ASSUME NEW pages, IsSequence(pages)
  PROVE  /\ IsSequence(ItemsOf(pages)) /\ DOMAIN ItemsOf(pages) = DOMAIN pages
         /\ \A p : ItemsOf(Append(pages, p)) = Append(ItemsOf(pages), p.items)
<1>1. PICK S : pages \in Seq(S)
  BY DEF IsSequence
<1>2. PICK n \in Nat : n = Len(pages) /\ DOMAIN pages = 1 .. n
  BY <1>1
<1>3. PICK f : f = ItemsOf(pages)
  OBVIOUS
<1>4. f = [k \in 1 .. n |-> f[k]] /\ \A k \in 1 .. n : f[k] = pages[k].items
  BY <1>2, <1>3 DEF ItemsOf
<1>5. PICK T : f \in Seq(T)
  BY <1>4, FamilyIsSequence DEF IsSequence
<1>6. Len(f) = n
  BY <1>4, <1>5
<1>7. ASSUME NEW p
      PROVE  ItemsOf(Append(pages, p)) = Append(f, p.items)
  <2>1. PICK q : q = Append(pages, p)
    OBVIOUS
  <2>2. DOMAIN q = 1 .. n + 1 /\ q[n + 1] = p /\ \A k \in 1 .. n : q[k] = pages[k]
    BY <1>1, <1>2, <2>1
  <2>3. PICK x : x = p.items
    OBVIOUS
  <2>4. PICK g : g = Append(f, x)
    OBVIOUS
  <2>5. f \in Seq(T \cup {x}) /\ x \in T \cup {x}
    BY <1>5
  <2>6. g \in Seq(T \cup {x}) /\ Len(g) = n + 1 /\ g[n + 1] = x /\ \A k \in 1 .. n : g[k] = f[k]
    BY <1>6, <2>4, <2>5, AppendProperties
  <2>7. PICK h : h = ItemsOf(q)
    OBVIOUS
  <2>8. h = [k \in 1 .. n + 1 |-> q[k].items]
    BY <2>2, <2>7 DEF ItemsOf
  <2>9. \A k \in 1 .. n + 1 : q[k].items = g[k]
    <3> TAKE k \in 1 .. n + 1
    <3>1. CASE k = n + 1
      BY <2>2, <2>3, <2>6, <3>1
    <3>2. CASE k # n + 1
      <4>1. k \in 1 .. n
        BY <3>2
      <4> QED BY <1>4, <2>2, <2>6, <4>1
    <3> QED BY <3>1, <3>2
  <2>10. g = [k \in 1 .. n + 1 |-> g[k]]
    BY <2>6
  <2>11. h = g
    BY <2>8, <2>9, <2>10
  <2> QED BY <2>1, <2>3, <2>4, <2>7, <2>11
<1> QED
  BY <1>2, <1>3, <1>4, <1>5, <1>7 DEF IsSequence

ItemPages(w) == IF w.rows = 0 THEN ItemsOf(w.pages) ELSE Append(ItemsOf(w.pages), w.items)

\* As long as there is no null, all pages but the last have N values.
IntsOK(N, w, done) ==
  /\ w.rows = 0 => w.pages = <<>>
  /\ ~HasNulls(w.pages) /\ Len(w.items) = w.rows
       => w.rows <= N /\ Holds(N, ItemPages(w), done)

\* There are no more items than rows.
LEMMA ItemsAreRows ==
  ASSUME NEW S, NEW type, NEW w, Consistent(S, type, w)
  PROVE  Len(w.items) \in Nat /\ w.rows \in Nat /\ Len(w.items) <= w.rows
<1>1. w.rows \in Nat /\ DataBits(w, w.rows) = Len(w.items)
  BY DEF Consistent
<1>2. PICK n \in Nat : n = w.rows
  BY <1>1
<1>3. IsFiniteSet(0 .. n - 1) /\ Cardinality(0 .. n - 1) = n
  <2>1. 0 \in Int /\ n - 1 \in Int
    OBVIOUS
  <2>2. /\ IsFiniteSet(0 .. n - 1)
        /\ Cardinality(0 .. n - 1) = IF 0 > n - 1 THEN 0 ELSE (n - 1) - 0 + 1
    BY <2>1, FS_Interval
  <2> QED BY <2>2
<1>4. { j \in 0 .. n - 1 : j \in w.bits } \subseteq 0 .. n - 1
  OBVIOUS
<1>5. DataBits(w, n) <= n /\ DataBits(w, n) \in Nat
  BY <1>3, <1>4, FS_Subset, BitsBefore DEF DataBits
<1> QED
  BY <1>1, <1>2, <1>5

LEMMA NullsOneMore ==
  ASSUME NEW a, IsSequence(a), NEW p
  PROVE  HasNulls(Append(a, p)) <=> HasNulls(a) \/ Len(p.items) < p.rows
BY AppendMembers DEF HasNulls

\* The writer with no page begun, after its page is written out.
LEMMA SavedWriter ==
  ASSUME NEW w, NEW n, n = SaveVectors(w)
  PROVE  /\ n.pages = Append(w.pages, PageOf(w, w.bytes))
         /\ n.rows = 0 /\ n.items = <<>> /\ IsWriter(n)
<1>1. PICK a : a = Append(w.pages, PageOf(w, w.bytes))
  OBVIOUS
<1>2. PICK e, z, b : e = <<>> /\ z = 0 /\ b = {}
  OBVIOUS
<1>3. NewWriter = [pages |-> e, rows |-> z, items |-> e, chars |-> e, bits |-> b, bytes |-> z]
  BY <1>2 DEF NewWriter
<1>4. n = [NewWriter EXCEPT !.pages = a]
  BY <1>1 DEF SaveVectors
<1>5. n = [pages |-> a, rows |-> z, items |-> e, chars |-> e, bits |-> b, bytes |-> z]
  BY <1>3, <1>4
<1> QED
  BY <1>1, <1>2, <1>5 DEF IsWriter

LEMMA PutNullInts ==
  ASSUME NEW S, NEW N, NEW w, NEW done, VectorsOK(S, "INT32", TRUE, w, done)
  PROVE  IntsOK(N, PutNull("INT32", w, TRUE), Append(done, Null))
<1>1. PICK u : u = SpaceFor("INT32", w, 0)
  OBVIOUS
<1>2. PICK n : n = [unset_bitmap(u, TRUE) EXCEPT !.rows = @ + 1]
  OBVIOUS
<1>3. PutNull("INT32", w, TRUE) = n
  BY <1>1, <1>2 DEF PutNull, SpaceFor
<1>4. VectorsOK(S, "INT32", TRUE, u, done)
  <2>1. "INT32" \in DataTypes /\ TRUE \in BOOLEAN /\ 0 \in Nat /\ 0 + 5 <= PageSize
    BY PageSizes DEF DataTypes
  <2> QED BY <1>1, <2>1, SpaceOK
<1>5. IsWriter(u) /\ Consistent(S, "INT32", u)
  BY <1>4 DEF VectorsOK
<1>6. n.rows = u.rows + 1 /\ n.items = u.items
  <2>1. PICK g, r, i, c, t, y :
          u = [pages |-> g, rows |-> r, items |-> i, chars |-> c, bits |-> t, bytes |-> y]
    BY <1>5 DEF IsWriter
  <2>2. PICK m : m = unset_bitmap(u, TRUE)
    OBVIOUS
  <2>3. PICK z : m = [pages |-> g, rows |-> r, items |-> i, chars |-> c, bits |-> t, bytes |-> z]
    <3>1. CASE u.bytes <= u.rows \div ByteBits
      BY <2>1, <2>2, <3>1 DEF unset_bitmap, grow_bitmap
    <3>2. CASE ~(u.bytes <= u.rows \div ByteBits)
      BY <2>1, <2>2, <3>2 DEF unset_bitmap, grow_bitmap
    <3> QED BY <3>1, <3>2
  <2>4. n = [m EXCEPT !.rows = @ + 1]
    BY <1>2, <2>2
  <2>5. n = [pages |-> g, rows |-> r + 1, items |-> i, chars |-> c, bits |-> t, bytes |-> z]
    BY <2>3, <2>4
  <2> QED BY <2>1, <2>5
<1>7. Len(u.items) \in Nat /\ u.rows \in Nat /\ Len(u.items) <= u.rows
  BY <1>5, ItemsAreRows
<1>8. n.rows # 0 /\ Len(n.items) # n.rows
  BY <1>6, <1>7
<1> QED
  BY <1>3, <1>8 DEF IntsOK

LEMMA PutIntInts ==
  ASSUME NEW S, NEW N, FirstFull(N), NEW w, NEW done, IsSequence(done),
         VectorsOK(S, "INT32", TRUE, w, done), IntsOK(N, w, done), NEW v
  PROVE  IntsOK(N, PutInt(w, v), Append(done, v))
<1>1. PICK u : u = SpaceFor("INT32", w, 4)
  OBVIOUS
<1>2. PICK n : n = AddValue("INT32", set_bitmap(u), v)
  OBVIOUS
<1>3. PutInt(w, v) = n
  BY <1>1, <1>2 DEF PutInt, SpaceFor
<1>4. IsWriter(w) /\ Consistent(S, "INT32", w) /\ IsSequence(w.pages) /\ (w.rows = 0 => w.items = <<>>)
  BY DEF VectorsOK
<1>5. PICK l \in Nat, r \in Nat : l = Len(w.items) /\ r = w.rows /\ l <= r
  BY <1>4, ItemsAreRows
<1>6. N \in Nat \ {0} /\ FullAt(N) /\ \A k \in Nat : k < N => ~FullAt(k)
  BY DEF FirstFull
<1>7. l = r => (PageFull("INT32", w, 4) <=> FullAt(r))
  <2>1. w.chars = <<>> /\ Len(w.chars) = 0
    <3>1. w.chars = <<>>
      BY <1>4 DEF Consistent
    <3> QED BY <3>1
  <2>2. DataEnd("INT32", w) = HeaderBytes + l * 4
    BY <1>5, <2>1 DEF DataEnd, ItemBytes, HeaderBytes
  <2> QED BY <1>5, <2>2 DEF PageFull, FullAt
<1>8. IsWriter(u)
  BY <1>1, <1>4, SavedWriter DEF SpaceFor
<1>9. n.pages = u.pages /\ n.rows = u.rows + 1 /\ n.items = Append(u.items, v)
  <2>1. ValueSet("INT32", n, u, v)
    BY <1>2, <1>8, AddedWriter DEF DataTypes
  <2> QED BY <2>1 DEF ValueSet
<1>10. PICK one : one = <<v>>
  OBVIOUS
<1>11. Append(<<>>, v) = one
  BY <1>10
<1>12. IsSequence(ItemsOf(w.pages))
  BY <1>4, ItemsOfPages
<1>13. CASE PageFull("INT32", w, 4)
  <2>1. u = SaveVectors(w)
    BY <1>1, <1>13 DEF SpaceFor
  <2>2. PICK p : p = PageOf(w, w.bytes) /\ p.items = w.items /\ p.rows = w.rows
    <3>1. PageOf(w, w.bytes).items = w.items /\ PageOf(w, w.bytes).rows = w.rows
      BY DEF PageOf
    <3> QED BY <3>1
  <2>3. u.pages = Append(w.pages, p) /\ u.rows = 0 /\ u.items = <<>>
    BY <2>1, <2>2, SavedWriter
  <2>4. n.rows = 1 /\ n.items = one /\ n.pages = Append(w.pages, p)
    BY <1>9, <1>11, <2>3
  <2> SUFFICES ASSUME ~HasNulls(n.pages)
               PROVE  1 <= N /\ Holds(N, ItemPages(n), Append(done, v))
    BY <1>3, <2>4 DEF IntsOK
  <2>5. ~HasNulls(w.pages) /\ ~(l < r)
    BY <1>4, <1>5, <2>2, <2>4, NullsOneMore
  <2>6. l = r /\ r <= N /\ Holds(N, ItemPages(w), done)
    BY <1>5, <2>5 DEF IntsOK
  <2>7. r = N
    BY <1>5, <1>6, <1>7, <1>13, <2>6
  <2>8. PICK P : P = ItemPages(w) /\ P = Append(ItemsOf(w.pages), w.items)
    BY <1>5, <1>6, <2>7 DEF ItemPages
  <2>9. ItemPages(n) = Append(P, one)
    <3>1. ItemPages(n) = Append(ItemsOf(n.pages), n.items)
      BY <2>4 DEF ItemPages
    <3>2. ItemsOf(n.pages) = Append(ItemsOf(w.pages), w.items)
      BY <1>4, <2>2, <2>4, ItemsOfPages
    <3> QED BY <2>4, <2>8, <3>1, <3>2
  <2>10. P # <<>> /\ Len(P[Len(P)]) >= N
    <3>1. P[Len(P)] = w.items /\ P # <<>>
      BY <1>12, <2>8 DEF IsSequence
    <3> QED BY <1>5, <1>6, <2>6, <2>7, <3>1
  <2>11. Holds(N, Append(P, one), Append(done, v))
    BY <1>6, <1>10, <2>6, <2>8, <2>10, HoldsMore
  <2> QED BY <1>6, <2>9, <2>11
<1>14. CASE ~PageFull("INT32", w, 4)
  <2>1. u = w
    BY <1>1, <1>14 DEF SpaceFor
  <2>2. n.pages = w.pages /\ n.rows = r + 1 /\ n.items = Append(w.items, v) /\ n.rows # 0
    BY <1>5, <1>9, <2>1
  <2>3. Len(n.items) = l + 1
    <3>1. IsSequence(w.items)
      BY <1>4 DEF Consistent, IsSequence
    <3> QED BY <1>5, <2>2, <3>1 DEF IsSequence
  <2> SUFFICES ASSUME ~HasNulls(w.pages), l + 1 = r + 1
               PROVE  r + 1 <= N /\ Holds(N, ItemPages(n), Append(done, v))
    BY <1>3, <2>2, <2>3 DEF IntsOK
  <2>4. l = r /\ r <= N /\ Holds(N, ItemPages(w), done)
    <3>1. l = r
      BY <1>5
    <3> QED BY <1>5, <3>1 DEF IntsOK
  <2>5. r < N
    BY <1>5, <1>6, <1>7, <1>14, <2>4
  <2>6. PICK P : P = ItemPages(w)
    OBVIOUS
  <2>7. ItemPages(n) = Append(ItemsOf(w.pages), n.items)
    BY <2>2 DEF ItemPages
  <2>8. CASE r = 0
    <3>1. w.items = <<>> /\ w.pages = <<>>
      BY <1>4, <1>5, <2>8 DEF IntsOK
    <3>2. P = <<>>
      <4>1. P = ItemsOf(w.pages)
        BY <1>5, <2>6, <2>8 DEF ItemPages
      <4>2. PICK T : P \in Seq(T)
        BY <1>12, <4>1 DEF IsSequence
      <4>3. DOMAIN P = DOMAIN w.pages
        BY <1>4, <4>1, ItemsOfPages
      <4>4. DOMAIN P = {}
        BY <3>1, <4>3
      <4>5. Len(P) \in Nat /\ DOMAIN P = 1 .. Len(P)
        BY <4>2
      <4>6. Len(P) = 0
        BY <4>4, <4>5
      <4> QED BY <4>2, <4>6, EmptySeq
    <3>3. ItemsOf(w.pages) = P
      BY <1>5, <2>6, <2>8 DEF ItemPages
    <3>4. ItemPages(n) = Append(P, one)
      BY <1>11, <2>2, <2>7, <3>1, <3>3
    <3>5. Holds(N, Append(P, one), Append(done, v))
      BY <1>6, <1>10, <2>4, <2>6, <3>2, HoldsMore
    <3>6. r + 1 <= N
      BY <1>5, <1>6, <2>5
    <3> QED BY <3>4, <3>5, <3>6
  <2>9. CASE r # 0
    <3>1. P = Append(ItemsOf(w.pages), w.items)
      BY <1>5, <2>6, <2>9 DEF ItemPages
    <3>2. /\ P # <<>> /\ P[Len(P)] = w.items
          /\ [P EXCEPT ![Len(P)] = Append(w.items, v)] = Append(ItemsOf(w.pages), Append(w.items, v))
      <4>1. PICK T : ItemsOf(w.pages) \in Seq(T)
        BY <1>12 DEF IsSequence
      <4>2. P # <<>> /\ P[Len(P)] = w.items /\ Len(P) = Len(ItemsOf(w.pages)) + 1
        BY <3>1, <4>1
      <4>3. PICK g, x, y : g = ItemsOf(w.pages) /\ x = w.items /\ y = Append(w.items, v)
        OBVIOUS
      <4>4. [Append(g, x) EXCEPT ![Len(g) + 1] = y] = Append(g, y)
        <5>1. g \in Seq(T)
          BY <4>1, <4>3
        <5> QED BY <5>1, ReplaceLast
      <4> QED BY <3>1, <4>2, <4>3, <4>4
    <3>3. ~(Len(P[Len(P)]) >= N)
      <4>1. Len(P[Len(P)]) = r
        BY <1>5, <2>4, <3>2
      <4>2. ~(r >= N)
        BY <1>5, <1>6, <2>5
      <4> QED BY <4>1, <4>2
    <3>4. PICK Q : Q = [P EXCEPT ![Len(P)] = Append(@, v)]
      OBVIOUS
    <3>5. Q = ItemPages(n)
      BY <2>2, <2>7, <3>2, <3>4
    <3>6. Holds(N, Q, Append(done, v))
      BY <1>6, <2>4, <2>6, <3>2, <3>3, <3>4, HoldsMore
    <3>7. r + 1 <= N
      BY <1>5, <1>6, <2>5
    <3> QED BY <3>5, <3>6, <3>7
  <2> QED BY <2>8, <2>9
<1> QED
  BY <1>13, <1>14

LEMMA PutInts ==
  ASSUME NEW S, NEW N, FirstFull(N), NEW w, NEW done, IsSequence(done),
         VectorsOK(S, "INT32", TRUE, w, done), IntsOK(N, w, done), NEW v
  PROVE  IntsOK(N, Put("INT32", w, v, TRUE), Append(done, v))
<1>1. CASE v = Null
  <2>1. Put("INT32", w, v, TRUE) = PutNull("INT32", w, TRUE)
    BY <1>1 DEF Put
  <2> QED BY <1>1, <2>1, PutNullInts
<1>2. CASE v # Null
  <2>1. Put("INT32", w, v, TRUE) = PutInt(w, v)
    BY <1>2 DEF Put
  <2> QED BY <2>1, PutIntInts
<1> QED
  BY <1>1, <1>2

IntsSoFar(S, N, w, done) == VectorsOK(S, "INT32", TRUE, w, done) /\ IntsOK(N, w, done)

LEMMA IntsWritten ==
  ASSUME NEW S, NEW values, IsSequence(values),
         \A i \in DOMAIN values : values[i] = Null \/ values[i] \in S,
         NEW pages, pages = WriteColumn("INT32", values, TRUE), ~HasNulls(pages)
  PROVE  \E N \in Nat \ {0} : Holds(N, ItemsOf(pages), values)
<1>1. PICK V : values \in Seq(V)
  BY DEF IsSequence
<1>2. PICK M \in Nat : M = Len(values) /\ DOMAIN values = 1 .. M
  BY <1>1
<1>3. PICK o : o = Putting("INT32", TRUE)
  OBVIOUS
<1>4. PICK N : FirstFull(N)
  BY SomePageIsFull
<1>5. "INT32" \in DataTypes /\ TRUE \in BOOLEAN
  BY DEF DataTypes
<1> DEFINE first(n) == SubSeq(values, 1, n)
           T == { n \in Nat : n <= M => IntsSoFar(S, N, Fold(o, NewWriter, first(n)), first(n)) }
<1>6. 0 \in T
  <2>1. first(0) = <<>>
    OBVIOUS
  <2>2. Fold(o, NewWriter, <<>>) = NewWriter
    BY FoldEmpty
  <2>3. VectorsOK(S, "INT32", TRUE, NewWriter, <<>>)
    BY <1>5, NothingWritten
  <2>4. IntsOK(N, NewWriter, <<>>)
    <3>1. NewWriter.rows = 0 /\ NewWriter.pages = <<>>
      BY DEF NewWriter
    <3>2. DOMAIN <<>> = {} /\ Len(<<>>) = 0 /\ <<>> \in Seq({})
      OBVIOUS
    <3>3. ItemsOf(<<>>) = <<>>
      BY <3>2 DEF ItemsOf
    <3>4. ItemPages(NewWriter) = <<>>
      BY <3>1, <3>3 DEF ItemPages
    <3>5. Holds(N, <<>>, <<>>)
      BY <3>2 DEF Holds, IsSequence
    <3>6. 0 <= N
      BY <1>4 DEF FirstFull
    <3> QED BY <3>1, <3>4, <3>5, <3>6 DEF IntsOK
  <2> QED BY <2>1, <2>2, <2>3, <2>4 DEF IntsSoFar
<1>7. ASSUME NEW n \in Nat, n \in T
      PROVE  n + 1 \in T
  <2> SUFFICES ASSUME n + 1 <= M
               PROVE  IntsSoFar(S, N, Fold(o, NewWriter, first(n + 1)), first(n + 1))
    OBVIOUS
  <2>1. first(n + 1) = Append(first(n), values[n + 1]) /\ first(n) \in Seq(V)
    BY <1>1, <1>2, FirstPages
  <2>2. IntsSoFar(S, N, Fold(o, NewWriter, first(n)), first(n))
    BY <1>7
  <2>3. n + 1 \in DOMAIN values
    BY <1>2
  <2>4. PICK v : v = values[n + 1] /\ (v = Null \/ v \in S)
    BY <2>3
  <2>5. PICK w : w = Fold(o, NewWriter, first(n))
    OBVIOUS
  <2> HIDE DEF first
  <2>6. Fold(o, NewWriter, Append(first(n), v)) = Step(o, w, v)
    BY <2>1, <2>5, FoldLast
  <2>7. Step(o, w, v) = Put("INT32", w, v, TRUE)
    BY <1>3 DEF Step, Putting
  <2>8. VectorsOK(S, "INT32", TRUE, Put("INT32", w, v, TRUE), Append(first(n), v))
    <3>1. v = Null \/ ValueIn(S, "INT32", v)
      BY <2>4 DEF ValueIn
    <3> QED BY <1>5, <2>2, <2>5, <3>1, PutOK DEF IntsSoFar
  <2>9. IsSequence(first(n))
    BY <2>1 DEF IsSequence
  <2>10. IntsOK(N, Put("INT32", w, v, TRUE), Append(first(n), v))
    BY <1>4, <2>2, <2>5, <2>9, PutInts DEF IntsSoFar
  <2> QED BY <2>1, <2>4, <2>6, <2>7, <2>8, <2>10 DEF IntsSoFar
<1>8. M \in T
  <2> HIDE DEF T
  <2> QED BY <1>6, <1>7, Induction
<1>9. first(M) = values
  BY <1>1, <1>2, SubSeqFull
<1>10. PICK w : w = Fold(o, NewWriter, values)
  OBVIOUS
<1>11. IntsSoFar(S, N, w, values)
  <2> HIDE DEF first
  <2>1. IntsSoFar(S, N, Fold(o, NewWriter, first(M)), first(M))
    BY <1>8
  <2> QED BY <1>9, <1>10, <2>1
<1> HIDE DEF T, first
<1>12. FoldLeft(LAMBDA u, v : Put("INT32", u, v, TRUE), NewWriter, values) = w
  BY <1>3, <1>10, PutsAre
<1>13. PICK e : e = IF w.rows # 0 THEN SaveVectors(w) ELSE w
  OBVIOUS
<1>14. pages = e.pages
  BY <1>12, <1>13 DEF WriteColumn
<1>15. Consistent(S, "INT32", w) /\ IsSequence(w.pages) /\ (w.rows = 0 => w.items = <<>>)
  BY <1>11 DEF IntsSoFar, VectorsOK
<1>16. N \in Nat \ {0}
  BY <1>4 DEF FirstFull
<1>17. CASE w.rows = 0
  <2>1. pages = w.pages /\ Len(w.items) = w.rows
    <3>1. Len(<<>>) = 0
      OBVIOUS
    <3> QED BY <1>13, <1>14, <1>15, <1>17, <3>1
  <2>2. Holds(N, ItemPages(w), values)
    BY <1>11, <2>1 DEF IntsSoFar, IntsOK
  <2>3. ItemPages(w) = ItemsOf(pages)
    BY <1>17, <2>1 DEF ItemPages
  <2> QED BY <1>16, <2>2, <2>3
<1>18. CASE w.rows # 0
  <2>1. PICK p : p = PageOf(w, w.bytes)
    OBVIOUS
  <2>2. p.items = w.items /\ p.rows = w.rows
    BY <2>1 DEF PageOf
  <2>3. pages = Append(w.pages, p)
    BY <1>13, <1>14, <1>18, <2>1, SavedWriter
  <2>4. ~HasNulls(w.pages) /\ ~(Len(w.items) < w.rows)
    BY <1>15, <2>2, <2>3, NullsOneMore
  <2>5. Len(w.items) = w.rows
    BY <1>15, <2>4, ItemsAreRows
  <2>6. Holds(N, ItemPages(w), values)
    BY <1>11, <2>4, <2>5 DEF IntsSoFar, IntsOK
  <2>7. ItemPages(w) = ItemsOf(pages)
    BY <1>15, <1>18, <2>2, <2>3, ItemsOfPages DEF ItemPages
  <2> QED BY <1>16, <2>6, <2>7
<1> QED
  BY <1>17, <1>18

LEMMA NotLess ==
  ASSUME NEW a \in Nat, NEW b \in Nat, a <= b, ~(a < b)
  PROVE  a = b
OBVIOUS

LEMMA PagesWritten ==
  ASSUME NEW S, NEW type \in DataTypes, NEW grows \in BOOLEAN, NEW values, IsSequence(values),
         \A i \in DOMAIN values : values[i] = Null \/ ValueIn(S, type, values[i])
  PROVE  /\ IsSequence(WriteColumn(type, values, grows))
         /\ \A k \in DOMAIN WriteColumn(type, values, grows) :
              PageShape(S, type, WriteColumn(type, values, grows)[k])
         /\ grows => ~ShortBitmap(WriteColumn(type, values, grows))
BY WriteReads

ValuesIn(S, type, values) ==
  \A i \in DOMAIN values : values[i] = Null \/ ValueIn(S, type, values[i])

LEMMA PagesReadBack ==
  ASSUME NEW S, NEW type \in DataTypes, NEW grows \in BOOLEAN, NEW values, IsSequence(values),
         ValuesIn(S, type, values), ~ShortBitmap(WriteColumn(type, values, grows))
  PROVE  \A junk : from_columnar(type, WriteColumn(type, values, grows), junk) = values
BY WriteReads DEF ValuesIn

\* A column of integers that was not copied is read as it was written.
LEMMA OrigColumnExact ==
  ASSUME NEW values, IsSequence(values),
         NEW pages, pages = WriteColumn("INT32", values, TRUE), ~HasNulls(pages),
         NEW column, column.has_nulls = FALSE, column.orig_col = pages,
         NEW r \in 0 .. Len(values) - 1
  PROVE  get_value(column, r) = values[r + 1]
<1>1. PICK S : \A i \in DOMAIN values : values[i] \in S
  BY DEF IsSequence
<1>2. PICK P : P = ItemsOf(pages)
  OBVIOUS
<1>3. PICK N \in Nat \ {0} : Holds(N, P, values)
  BY <1>1, <1>2, IntsWritten
<1>4. r \in Nat /\ r < Len(values)
  BY DEF IsSequence
<1>5. P # <<>>
  <2>1. Len(values) # 0
    BY <1>4
  <2> QED BY <1>3, <2>1 DEF Holds
<1>6. PICK L \in Nat \ {0} : L = Len(P[1]) /\ Holds(L, P, values)
  BY <1>3, <1>5, HoldsFirst
<1>7. PICK k \in DOMAIN P, p \in 1 .. L : RowAt(L, r, k, p) /\ P[k][p] = values[r + 1]
  BY <1>4, <1>6, HeldAt
<1>8. "INT32" \in DataTypes /\ TRUE \in BOOLEAN /\ \A i \in DOMAIN values : ValueIn(S, "INT32", values[i])
  BY <1>1 DEF DataTypes, ValueIn
<1>9. IsSequence(pages) /\ \A j \in DOMAIN pages : PageShape(S, "INT32", pages[j])
  <2>1. \A i \in DOMAIN values : values[i] = Null \/ ValueIn(S, "INT32", values[i])
    BY <1>8
  <2> QED BY <1>8, <2>1, PagesWritten
<1>10. DOMAIN P = DOMAIN pages /\ \A j \in DOMAIN pages : P[j] = pages[j].items
  BY <1>2 DEF ItemsOf
<1>11. 1 \in DOMAIN pages
  <2>1. PICK U : P \in Seq(U)
    BY <1>3 DEF Holds, IsSequence
  <2>2. Len(P) \in Nat /\ DOMAIN P = 1 .. Len(P)
    BY <2>1
  <2>3. Len(P) # 0
    BY <1>5, <2>1, EmptySeq
  <2>4. PICK m \in Nat : m = Len(P) /\ m # 0 /\ DOMAIN P = 1 .. m
    BY <2>2, <2>3
  <2>5. 1 \in DOMAIN P
    BY <2>4
  <2> QED BY <1>10, <2>5
<1>12. pages[1].rows = L
  <2>1. Consistent(S, "INT32", pages[1])
    BY <1>9, <1>11 DEF PageShape
  <2>2. /\ Len(pages[1].items) \in Nat /\ pages[1].rows \in Nat
        /\ Len(pages[1].items) <= pages[1].rows
    BY <2>1, ItemsAreRows
  <2>3. ~(Len(pages[1].items) < pages[1].rows)
    BY <1>11 DEF HasNulls
  <2>4. Len(pages[1].items) = L
    BY <1>6, <1>10, <1>11
  <2>5. PICK a \in Nat : a = pages[1].rows
    BY <2>2
  <2>6. L <= a /\ ~(L < a) /\ L \in Nat
    BY <2>2, <2>3, <2>4, <2>5
  <2> QED BY <2>5, <2>6, NotLess
<1>13. get_value(column, r) = pages[r \div L + 1].items[(r % L) + 1]
  BY <1>12 DEF get_value
<1> QED
  BY <1>7, <1>10, <1>13 DEF RowAt
-----------------------------------------------------------------------------
(* Sequences of sequences, one after the other.                            *)

\* f[i] is what the first i sequences of ss are, one after the other.
Flat(f, ss, n) ==
  f = [i \in 1 .. n |-> IF i = 1 THEN ss[i] ELSE f[i - 1] \o ss[i]]

LEMMA FlatExists ==
  ASSUME NEW ss
  PROVE  \A n \in Nat : \E f : Flat(f, ss, n)
<1> DEFINE T == { n \in Nat : \E f : Flat(f, ss, n) }
<1>1. 0 \in T
  <2>1. Flat([i \in {} |-> 0], ss, 0)
    BY DEF Flat
  <2> QED BY <2>1
<1>2. ASSUME NEW n \in Nat, n \in T PROVE n + 1 \in T
  <2>1. PICK f : Flat(f, ss, n)
    BY <1>2
  <2> DEFINE last == IF n = 0 THEN ss[1] ELSE f[n] \o ss[n + 1]
             g == [i \in 1 .. n + 1 |-> IF i = n + 1 THEN last ELSE f[i]]
  <2>2. \A i \in 1 .. n : f[i] = IF i = 1 THEN ss[i] ELSE f[i - 1] \o ss[i]
    BY <2>1 DEF Flat
  <2>3. ASSUME NEW i \in 1 .. n + 1
        PROVE  g[i] = IF i = 1 THEN ss[i] ELSE g[i - 1] \o ss[i]
    <3>1. CASE i = n + 1 /\ n = 0
      BY <3>1
    <3>2. CASE i = n + 1 /\ n # 0
      <4>1. g[i - 1] = f[n] /\ i # 1
        BY <3>2
      <4> QED BY <3>2, <4>1
    <3>3. CASE i # n + 1
      <4>1. i \in 1 .. n /\ g[i] = f[i]
        BY <3>3
      <4>2. i # 1 => g[i - 1] = f[i - 1]
        BY <4>1
      <4> QED BY <2>2, <4>1, <4>2
    <3> QED BY <3>1, <3>2, <3>3
  <2>4. g = [i \in 1 .. n + 1 |-> IF i = 1 THEN ss[i] ELSE g[i - 1] \o ss[i]]
    <3>1. PICK gg : gg = g
      OBVIOUS
    <3>2. gg = [i \in 1 .. n + 1 |-> gg[i]]
      BY <3>1
    <3>3. \A i \in 1 .. n + 1 : gg[i] = IF i = 1 THEN ss[i] ELSE gg[i - 1] \o ss[i]
      BY <2>3, <3>1
    <3>4. gg = [i \in 1 .. n + 1 |-> IF i = 1 THEN ss[i] ELSE gg[i - 1] \o ss[i]]
      BY <3>2, <3>3
    <3> QED BY <3>1, <3>4
  <2>5. Flat(g, ss, n + 1)
    BY <2>4 DEF Flat
  <2> QED BY <2>5
<1> HIDE DEF T
<1>3. \A n \in Nat : n \in T
  BY <1>1, <1>2, Induction
<1> QED
  BY <1>3 DEF T

\* The recursive function in FlattenSeq is one of these.
LEMMA FlatIs ==
  ASSUME NEW ss, Len(ss) \in Nat, Len(ss) # 0
  PROVE  \E f : Flat(f, ss, Len(ss)) /\ FlattenSeq(ss) = f[Len(ss)]
<1> DEFINE f == CHOOSE h : Flat(h, ss, Len(ss))
<1>1. Flat(f, ss, Len(ss))
  BY FlatExists
<1>2. FlattenSeq(ss) = f[Len(ss)]
  BY DEF FlattenSeq, Flat
<1> QED
  BY <1>1, <1>2

\* What sequences of sequences are, one after the other, is a sequence.
LEMMA FlatType ==
  ASSUME NEW S, NEW ss \in Seq(Seq(S))
  PROVE  FlattenSeq(ss) \in Seq(S)
<1>1. Len(ss) \in Nat /\ \A i \in 1 .. Len(ss) : ss[i] \in Seq(S)
  OBVIOUS
<1>2. CASE Len(ss) = 0
  <2>1. FlattenSeq(ss) = ss /\ ss = <<>>
    BY <1>2 DEF FlattenSeq
  <2> QED BY <2>1
<1>3. CASE Len(ss) # 0
  <2>1. PICK f : Flat(f, ss, Len(ss)) /\ FlattenSeq(ss) = f[Len(ss)]
    BY <1>1, <1>3, FlatIs
  <2>2. \A i \in 1 .. Len(ss) : f[i] = IF i = 1 THEN ss[i] ELSE f[i - 1] \o ss[i]
    BY <2>1 DEF Flat
  <2> DEFINE T == { i \in Nat : i \in 1 .. Len(ss) => f[i] \in Seq(S) }
  <2>3. 0 \in T
    OBVIOUS
  <2>4. ASSUME NEW i \in Nat, i \in T PROVE i + 1 \in T
    <3> SUFFICES ASSUME i + 1 \in 1 .. Len(ss) PROVE f[i + 1] \in Seq(S)
      OBVIOUS
    <3>1. ss[i + 1] \in Seq(S) /\ (i + 1) - 1 = i
      BY <1>1
    <3>2. CASE i = 0
      BY <2>2, <3>1, <3>2
    <3>3. CASE i # 0
      <4>1. f[i] \in Seq(S)
        BY <1>1, <2>4, <3>3
      <4>2. f[i + 1] = f[(i + 1) - 1] \o ss[i + 1]
        <5>1. i + 1 # 1
          BY <3>3
        <5> QED BY <2>2, <5>1
      <4> QED BY <3>1, <4>1, <4>2
    <3> QED BY <3>2, <3>3
  <2> HIDE DEF T
  <2>5. \A i \in Nat : i \in T
    BY <2>3, <2>4, Induction
  <2>6. f[Len(ss)] \in Seq(S)
    BY <1>1, <1>3, <2>5 DEF T
  <2> QED BY <2>1, <2>6
<1> QED
  BY <1>2, <1>3

-----------------------------------------------------------------------------
(* The pages of base tables, and references to their strings.              *)

AttrsOf(q, n) == q.nodes[n + 1].output_attrs

InputsOK(q, in) ==
  in = [t \in DOMAIN q.tables |-> to_columnar(q.tables[t].types, q.tables[t].rows)]

PagesOf(in, t, c) == in[t + 1].columns[c + 1].pages

\* Column c of table t.
IsColumn(q, t, c) == /\ t \in Nat /\ t + 1 \in DOMAIN q.tables
                     /\ c \in Nat /\ c + 1 \in DOMAIN q.tables[t + 1].types

TypeOf(q, t, c) == q.tables[t + 1].types[c + 1]

\* The pages have the values of the table, which are read from them.
StoredAs(type, pages, values) ==
  /\ type \in DataTypes /\ IsSequence(values)
  /\ \A i \in DOMAIN values : values[i] = Null \/ ValueIn(Int, type, values[i])
  /\ pages = WriteColumn(type, values, TRUE)
  /\ IsSequence(pages) /\ \A k \in DOMAIN pages : PageShape(Int, type, pages[k])
  /\ ~ShortBitmap(pages)
  /\ \A junk : from_columnar(type, pages, junk) = values

\* The values of column c of table t.
ColumnValues(q, t, c) ==
  [r \in DOMAIN q.tables[t + 1].rows |-> q.tables[t + 1].rows[r][c + 1]]

LEMMA InputColumn ==
  ASSUME NEW q \in Plans, NEW in, InputsOK(q, in), NEW t, NEW c, IsColumn(q, t, c)
  PROVE  \E values : /\ StoredAs(TypeOf(q, t, c), PagesOf(in, t, c), values)
                     /\ Len(values) \in Nat /\ in[t + 1].num_rows = Len(values)
                     /\ values = ColumnValues(q, t, c)
<1>1. PICK table : table = q.tables[t + 1]
  OBVIOUS
<1>2. TypedTable(table)
  BY <1>1, PlansAssumption DEF IsColumn
<1>3. PICK j : j = c + 1 /\ j \in DOMAIN table.types
  BY <1>1 DEF IsColumn
<1>4. PICK type : type = TypeOf(q, t, c) /\ type = table.types[j]
  BY <1>1, <1>3 DEF TypeOf
<1>5. PICK n \in Nat : n = Len(table.rows) /\ DOMAIN table.rows = 1 .. n
  BY <1>2 DEF TypedTable
<1>6. type \in DataTypes
  BY <1>2, <1>3, <1>4 DEF TypedTable
<1>7. PICK values : values = [r \in DOMAIN table.rows |-> table.rows[r][j]]
  OBVIOUS
<1>8. values = [r \in 1 .. n |-> values[r]] /\ \A r \in 1 .. n : values[r] = table.rows[r][j]
  BY <1>5, <1>7
<1>9. IsSequence(values)
  BY <1>8, FamilyIsSequence
<1>10. Len(values) = n
  BY <1>8, <1>9 DEF IsSequence
<1>11. \A i \in DOMAIN values : values[i] = Null \/ ValueIn(Int, type, values[i])
  <2> TAKE i \in DOMAIN values
  <2>1. i \in DOMAIN table.rows /\ values[i] = table.rows[i][j]
    BY <1>5, <1>8
  <2>2. values[i] = Null \/ values[i] \in ValuesOf(type)
    BY <1>2, <1>3, <1>4, <2>1 DEF TypedTable
  <2> QED BY <2>2 DEF ValuesOf, ValueIn
<1>12. PICK col : col = to_columnar(table.types, table.rows) /\ in[t + 1] = col
  BY <1>1 DEF InputsOK, IsColumn
<1>13. PICK pages : pages = PagesOf(in, t, c) /\ pages = col.columns[j].pages
  BY <1>3, <1>12 DEF PagesOf
<1>14. col.num_rows = n /\ pages = WriteColumn(type, values, TRUE)
  <2>1. col.num_rows = n
    BY <1>5, <1>12 DEF to_columnar
  <2>2. col.columns[j].pages
          = WriteColumn(table.types[j], [r \in DOMAIN table.rows |-> table.rows[r][j]], TRUE)
    <3> DEFINE pagesOf(d) ==
                 WriteColumn(table.types[d], [r \in DOMAIN table.rows |-> table.rows[r][d]], TRUE)
    <3>1. col = [num_rows |-> Len(table.rows),
                 columns  |-> [d \in DOMAIN table.types |->
                                 [type |-> table.types[d], pages |-> pagesOf(d)]]]
      BY <1>12 DEF to_columnar
    <3> HIDE DEF pagesOf
    <3>2. col.columns[j].pages = pagesOf(j)
      BY <1>3, <3>1
    <3> QED BY <3>2 DEF pagesOf
  <2> QED BY <1>4, <1>7, <1>13, <2>1, <2>2
<1>15. TRUE \in BOOLEAN
  OBVIOUS
<1>16. /\ IsSequence(pages) /\ \A k \in DOMAIN pages : PageShape(Int, type, pages[k])
       /\ ~ShortBitmap(pages)
  BY <1>6, <1>9, <1>11, <1>14, <1>15, PagesWritten
<1>17. \A junk : from_columnar(type, pages, junk) = values
  <2>1. ValuesIn(Int, type, values)
    BY <1>11 DEF ValuesIn
  <2>2. PICK g \in BOOLEAN : g = TRUE
    OBVIOUS
  <2>3. pages = WriteColumn(type, values, g)
    BY <1>14, <2>2
  <2>4. ~ShortBitmap(WriteColumn(type, values, g))
    BY <1>16, <2>3
  <2>5. \A junk : from_columnar(type, WriteColumn(type, values, g), junk) = values
    BY <1>6, <1>9, <2>1, <2>4, PagesReadBack
  <2> QED BY <2>3, <2>5
<1>18. StoredAs(type, pages, values)
  BY <1>6, <1>9, <1>11, <1>14, <1>16, <1>17 DEF StoredAs
<1>19. values = ColumnValues(q, t, c)
  BY <1>1, <1>3, <1>7 DEF ColumnValues
<1> QED
  BY <1>4, <1>5, <1>10, <1>12, <1>13, <1>14, <1>18, <1>19

\* A reference to a string of a base table: to a page where a string begins.
GoodRep(q, in, rep) ==
  \E t, c, k, o \in Nat :
    /\ IsColumn(q, t, c) /\ TypeOf(q, t, c) = "VARCHAR"
    /\ k + 1 \in DOMAIN PagesOf(in, t, c) /\ PagesOf(in, t, c)[k + 1].rows # RestHeader
    /\ rep = [table |-> t, column |-> c, page |-> k, offset |-> o]

RepOrNull(q, in, v) == v = Null \/ GoodRep(q, in, v)

References(q, in) ==
  {Null} \cup { rep \in [table : Nat, column : Nat, page : Nat, offset : Nat] : GoodRep(q, in, rep) }

LEMMA ReferencesAre ==
  ASSUME NEW q, NEW in, NEW v
  PROVE  v \in References(q, in) <=> RepOrNull(q, in, v)
BY DEF References, RepOrNull, GoodRep

LEMMA Addressable ==
  ASSUME NEW t \in Nat, NEW m \in Nat, t < m
  PROVE  t % m = t
OBVIOUS

\* The number of a page of strings fits the bits it has in a reference.
LEMMA PageNumberFits ==
  ASSUME NEW q \in Plans, NEW in, InputsOK(q, in), NEW t, NEW c, IsColumn(q, t, c),
         TypeOf(q, t, c) = "VARCHAR",
         NEW k \in Nat, k + 1 \in DOMAIN PagesOf(in, t, c)
  PROVE  k % PageIds = k
<1>1. PICK table : table = q.tables[t + 1] /\ c + 1 \in DOMAIN table.types
  BY DEF IsColumn
<1>2. PICK pages : pages = PagesOf(in, t, c)
  OBVIOUS
<1>3. PICK S : pages \in Seq(S)
  <2>1. PICK values : StoredAs("VARCHAR", pages, values)
    BY <1>2, InputColumn
  <2> QED BY <2>1 DEF StoredAs, IsSequence
<1>4. PagesAddressable(table) /\ table.types[c + 1] = "VARCHAR"
  BY <1>1, PlansAssumption DEF IsColumn, TypeOf
<1>5. pages = to_columnar(table.types, table.rows).columns[c + 1].pages
  BY <1>1, <1>2 DEF InputsOK, PagesOf, IsColumn
<1>6. Len(pages) <= PageIds
  BY <1>1, <1>4, <1>5 DEF PagesAddressable
<1>7. k + 1 <= Len(pages) /\ Len(pages) \in Nat
  BY <1>2, <1>3
<1>8. PageIds \in Nat
  BY PlansAssumption
<1>9. k < PageIds
  BY <1>6, <1>7, <1>8
<1> QED
  BY <1>8, <1>9, Addressable

LEMMA ReferencesOfPage ==
  ASSUME NEW q \in Plans, NEW in, InputsOK(q, in), NEW t, NEW c, IsColumn(q, t, c),
         TypeOf(q, t, c) = "VARCHAR", t < TableIds, c < ColumnIds,
         NEW k \in Nat, k + 1 \in DOMAIN PagesOf(in, t, c)
  PROVE  PageValuesOf("VARCHAR", t, c, k, PagesOf(in, t, c)[k + 1]) \in Seq(References(q, in))
<1>1. PICK p : p = PagesOf(in, t, c)[k + 1]
  OBVIOUS
<1>2. PICK T : T = References(q, in)
  OBVIOUS
<1>3. PICK values : StoredAs("VARCHAR", PagesOf(in, t, c), values)
  BY InputColumn
<1>4. PageShape(Int, "VARCHAR", p) /\ ~(IsText(p) /\ p.bytes < Bytes(p.rows))
  BY <1>1, <1>3 DEF StoredAs, ShortBitmap
<1>5. /\ t \in Nat /\ c \in Nat /\ t % TableIds = t /\ c % ColumnIds = c
      /\ k % PageIds = k
  <2>1. t \in Nat /\ c \in Nat /\ TableIds \in Nat /\ ColumnIds \in Nat
    BY PlansAssumption DEF IsColumn
  <2>2. t % TableIds = t /\ c % ColumnIds = c
    BY <2>1, Addressable
  <2> QED BY <2>1, <2>2, PageNumberFits
<1>6. ASSUME NEW o \in Nat, p.rows # RestHeader
      PROVE  StringRef(t, c, k, o) \in T
  <2>1. StringRef(t, c, k, o) = [table |-> t, column |-> c, page |-> k, offset |-> o]
    BY <1>5 DEF StringRef
  <2>2. GoodRep(q, in, StringRef(t, c, k, o))
    BY <1>1, <1>5, <1>6, <2>1 DEF GoodRep
  <2> QED BY <1>2, <2>2, ReferencesAre DEF RepOrNull
<1>7. CASE p.rows = LongHeader
  <2>1. PageValuesOf("VARCHAR", t, c, k, p) = <<StringRef(t, c, k, 0)>>
    BY <1>7 DEF PageValuesOf, LongHeader, RestHeader
  <2>2. p.rows # RestHeader
    BY <1>7 DEF LongHeader, RestHeader
  <2>3. StringRef(t, c, k, 0) \in T
    BY <1>6, <2>2
  <2>4. PICK x \in T : x = StringRef(t, c, k, 0)
    BY <2>3
  <2>5. <<x>> \in Seq(T)
    OBVIOUS
  <2> QED BY <1>1, <1>2, <2>1, <2>4, <2>5
<1>8. CASE p.rows = RestHeader
  <2>1. PageValuesOf("VARCHAR", t, c, k, p) = <<>>
    BY <1>8 DEF PageValuesOf, LongHeader, RestHeader
  <2>2. <<>> \in Seq(T)
    OBVIOUS
  <2> QED BY <1>1, <1>2, <2>1, <2>2
<1>9. CASE IsText(p)
  <2>1. p.rows # LongHeader /\ p.rows # RestHeader
    BY <1>9 DEF IsText
  <2>2. Consistent(Int, "VARCHAR", p) /\ p.bytes = Bytes(p.rows) /\ p.rows \in Nat
    <3>1. Consistent(Int, "VARCHAR", p) /\ p.bytes \in Nat /\ p.bytes <= Bytes(p.rows)
      BY <1>4, <1>9 DEF PageShape
    <3>2. p.rows \in Nat
      BY <3>1 DEF Consistent
    <3>3. Bytes(p.rows) \in Nat
      BY <3>2, BytesOfRows
    <3>4. ~(p.bytes < Bytes(p.rows))
      BY <1>4, <1>9
    <3> QED BY <3>1, <3>2, <3>3, <3>4, NotLess
  <2>3. PICK items \in Seq(Nat) : items = p.items
    <3>1. "VARCHAR" # "INT32"
      OBVIOUS
    <3> QED BY <2>2, <3>1 DEF Consistent
  <2> DEFINE value(i) == IF ~get_bitmap(p, i - 1, {}) THEN Null
                         ELSE LET j == DataIndex(p, i - 1, {})
                              IN  IF "VARCHAR" = "INT32" THEN Item(p, j) ELSE RefAt(t, c, k, p, j)
  <2>4. PageValuesOf("VARCHAR", t, c, k, p) = [i \in 1 .. p.rows |-> value(i)]
    BY <2>1 DEF PageValuesOf
  <2>5. ASSUME NEW i \in 1 .. p.rows
        PROVE  value(i) \in T
    <3>1. i - 1 \in 0 .. p.rows - 1
      BY <2>2
    <3>2. PICK j : j = DataIndex(p, i - 1, {})
      OBVIOUS
    <3>3. /\ get_bitmap(p, i - 1, {}) <=> i - 1 \in p.bits
          /\ j = DataBits(p, i - 1) /\ DataBits(p, i - 1) \in Nat
          /\ Len(p.items) \in Nat
          /\ i - 1 \in p.bits => DataBits(p, i - 1) < Len(p.items)
      BY <2>2, <3>1, <3>2, BitmapExact
    <3>4. CASE ~get_bitmap(p, i - 1, {})
      BY <1>2, <3>4 DEF References
    <3>5. CASE get_bitmap(p, i - 1, {})
      <4>1. j \in Nat /\ j < Len(items)
        BY <2>3, <3>3, <3>5
      <4>2. PICK o \in Nat : o = IF j = 0 THEN 0 ELSE p.items[j]
        <5>1. CASE j = 0
          BY <5>1
        <5>2. CASE j # 0
          <6>1. j \in 1 .. Len(items)
            BY <4>1, <5>2
          <6> QED BY <2>3, <5>2, <6>1
        <5> QED BY <5>1, <5>2
      <4>3. RefAt(t, c, k, p, j) = StringRef(t, c, k, o)
        BY <4>2 DEF RefAt
      <4>4. value(i) = RefAt(t, c, k, p, j)
        BY <3>2, <3>5
      <4>5. StringRef(t, c, k, o) \in T
        BY <1>6, <2>1
      <4> QED BY <4>3, <4>4, <4>5
    <3> QED BY <3>4, <3>5
  <2> HIDE DEF value
  <2>6. [i \in 1 .. p.rows |-> value(i)] \in [1 .. p.rows -> T]
    BY <2>5
  <2>7. [i \in 1 .. p.rows |-> value(i)] \in Seq(T)
    BY <2>2, <2>6, SeqDef
  <2> QED BY <1>1, <1>2, <2>4, <2>7
<1> QED
  BY <1>7, <1>8, <1>9 DEF IsText
-----------------------------------------------------------------------------
(* Columns of intermediate results.                                        *)

\* A column of n rows: its strings are references, and one that was not copied is
\* read from its pages as get_value reads it.
GoodColumn(q, in, type, column, n) ==
  /\ n \in Nat /\ column.num_rows = n
  /\ column.has_nulls \in BOOLEAN
  /\ type = "VARCHAR" => \A r \in 0 .. n - 1 : RepOrNull(q, in, get_value(column, r))
  /\ ~column.has_nulls =>
       /\ type = "INT32" /\ IsSequence(column.orig_col)
       /\ \A junk : from_columnar("INT32", column.orig_col, junk)
                      = [r \in 1 .. n |-> get_value(column, r - 1)]

LEMMA CollectedColumn ==
  ASSUME NEW q, NEW in, NEW type, NEW n \in Nat, NEW f, f = [r \in 1 .. n |-> f[r]],
         type = "VARCHAR" => \A r \in 1 .. n : RepOrNull(q, in, f[r])
  PROVE  GoodColumn(q, in, type, ColumnOf(f), n)
<1>1. IsSequence(f)
  BY FamilyIsSequence
<1>2. Len(f) = n
  BY <1>1 DEF IsSequence
<1>3. PICK column : column = ColumnOf(f)
  OBVIOUS
<1>4. /\ column.num_rows = n /\ column.has_nulls = TRUE
      /\ \A r \in 0 .. n - 1 : get_value(column, r) = f[r + 1]
  BY <1>1, <1>2, <1>3, ColumnOfExact
<1>5. ASSUME type = "VARCHAR", NEW r \in 0 .. n - 1
      PROVE  RepOrNull(q, in, get_value(column, r))
  <2>1. r + 1 \in 1 .. n
    OBVIOUS
  <2> QED BY <1>4, <1>5, <2>1
<1> QED
  BY <1>3, <1>4, <1>5 DEF GoodColumn

LEMMA CopyColumnOK ==
  ASSUME plan \in Plans, InputsOK(plan, inputs), NEW t, NEW c, IsColumn(plan, t, c),
         NEW type, type = TypeOf(plan, t, c),
         type = "VARCHAR" => t < TableIds /\ c < ColumnIds
  PROVE  GoodColumn(plan, inputs, type, CopyColumn(type, t, c), inputs[t + 1].num_rows)
<1>1. PICK stored : /\ StoredAs(type, PagesOf(inputs, t, c), stored)
                    /\ Len(stored) \in Nat /\ inputs[t + 1].num_rows = Len(stored)
  BY InputColumn
<1>2. PICK n \in Nat : n = Len(stored) /\ n = inputs[t + 1].num_rows
  BY <1>1
<1>3. PICK pages : pages = PagesOf(inputs, t, c) /\ pages = inputs[t + 1].columns[c + 1].pages
  BY DEF PagesOf
<1>4. PICK column : column = CopyColumn(type, t, c)
  OBVIOUS
<1>5. CASE type = "INT32" /\ ~HasNulls(pages)
  <2>1. column = [num_rows |-> n, has_nulls |-> FALSE, pages |-> <<>>, orig_col |-> pages]
    BY <1>2, <1>3, <1>4, <1>5 DEF CopyColumn
  <2>2. column.num_rows = n /\ column.has_nulls = FALSE /\ column.orig_col = pages
    BY <2>1
  <2>3. /\ IsSequence(stored) /\ pages = WriteColumn("INT32", stored, TRUE) /\ IsSequence(pages)
        /\ \A junk : from_columnar("INT32", pages, junk) = stored
    BY <1>1, <1>3, <1>5 DEF StoredAs
  <2>4. ASSUME NEW r \in 0 .. n - 1
        PROVE  get_value(column, r) = stored[r + 1]
    BY <1>2, <1>5, <2>2, <2>3, OrigColumnExact
  <2>5. stored = [r \in 1 .. n |-> get_value(column, r - 1)]
    <3>1. stored = [r \in 1 .. n |-> stored[r]]
      <4>1. PICK S : stored \in Seq(S)
        BY <2>3 DEF IsSequence
      <4>2. stored = [r \in 1 .. Len(stored) |-> stored[r]]
        BY <4>1
      <4> QED BY <1>2, <4>2
    <3>2. \A r \in 1 .. n : r - 1 \in 0 .. n - 1 /\ (r - 1) + 1 = r
      OBVIOUS
    <3>3. \A r \in 1 .. n : stored[r] = get_value(column, r - 1)
      BY <2>4, <3>2
    <3> QED BY <3>1, <3>3
  <2>6. type # "VARCHAR"
    BY <1>5
  <2> QED BY <1>2, <1>4, <1>5, <2>2, <2>3, <2>5, <2>6 DEF GoodColumn
<1>6. CASE ~(type = "INT32" /\ ~HasNulls(pages))
  <2> DEFINE parts == [k \in DOMAIN pages |-> PageValuesOf(type, t, c, k - 1, pages[k])]
  <2>1. PICK values : values = FlattenSeq(parts)
    OBVIOUS
  <2>2. PICK f : f = [r \in 1 .. n |-> IF r <= Len(values) THEN values[r] ELSE Null]
    OBVIOUS
  <2>3. column = ColumnOf(f)
    BY <1>2, <1>3, <1>4, <1>6, <2>1, <2>2 DEF CopyColumn
  <2>4. f = [r \in 1 .. n |-> f[r]]
    BY <2>2
  <2>5. ASSUME type = "VARCHAR"
        PROVE  \A r \in 1 .. n : RepOrNull(plan, inputs, f[r])
    <3>1. PICK T : T = References(plan, inputs)
      OBVIOUS
    <3>2. PICK m \in Nat : DOMAIN pages = 1 .. m
      <4>1. IsSequence(pages)
        BY <1>1, <1>3 DEF StoredAs
      <4>2. PICK S : pages \in Seq(S)
        BY <4>1 DEF IsSequence
      <4>3. Len(pages) \in Nat /\ DOMAIN pages = 1 .. Len(pages)
        BY <4>2
      <4> QED BY <4>3
    <3>3. ASSUME NEW k \in 1 .. m
          PROVE  parts[k] \in Seq(T)
      <4>1. PICK j \in Nat : k = j + 1 /\ j = k - 1
        <5>1. k - 1 \in Nat /\ k = (k - 1) + 1
          OBVIOUS
        <5> QED BY <5>1
      <4>2. PageValuesOf("VARCHAR", t, c, j, PagesOf(inputs, t, c)[j + 1]) \in Seq(References(plan, inputs))
        BY <1>3, <2>5, <3>2, <4>1, ReferencesOfPage
      <4>3. parts[k] = PageValuesOf("VARCHAR", t, c, j, pages[k])
        BY <2>5, <3>2, <4>1
      <4> QED BY <1>3, <3>1, <4>1, <4>2, <4>3
    <3>4. parts = [k \in 1 .. m |-> parts[k]]
      BY <3>2
    <3> HIDE DEF parts
    <3>5. parts \in Seq(Seq(T))
      <4>1. parts \in [1 .. m -> Seq(T)]
        BY <3>3, <3>4
      <4> QED BY <4>1, SeqDef
    <3>6. values \in Seq(T)
      BY <2>1, <3>5, FlatType
    <3>7. ASSUME NEW r \in 1 .. n
          PROVE  f[r] \in T
      <4>1. CASE r <= Len(values)
        <5>1. r \in 1 .. Len(values)
          BY <3>6, <4>1
        <5> QED BY <2>2, <3>6, <4>1, <5>1
      <4>2. CASE ~(r <= Len(values))
        BY <2>2, <3>1, <4>2 DEF References
      <4> QED BY <4>1, <4>2
    <3> QED BY <3>1, <3>7, ReferencesAre
  <2> HIDE DEF parts
  <2>6. GoodColumn(plan, inputs, type, ColumnOf(f), n)
    BY <2>4, <2>5, CollectedColumn
  <2> QED BY <1>2, <1>4, <2>3, <2>6
<1> QED
  BY <1>5, <1>6
-----------------------------------------------------------------------------
(* The strings that references lead to.                                    *)

\* string_from_rep, with the inputs as a parameter.
StringOf(in, rep) ==
  LET pages == PagesOf(in, rep.table, rep.column)
      first == rep.page + 1
  IN  IF pages[first].rows = LongHeader THEN LongString(pages, first)
                                        ELSE ShortString(pages[first], rep.offset)

Characters == Int \cup {Unwritten}

LEMMA LongStringType ==
  ASSUME NEW S, NEW pages, IsSequence(pages), \A k \in DOMAIN pages : pages[k].chars \in Seq(S),
         NEW first \in DOMAIN pages
  PROVE  LongString(pages, first) \in Seq(S)
<1>1. PICK Q : pages \in Seq(Q)
  BY DEF IsSequence
<1>2. PICK m \in Nat : m = Len(pages) /\ DOMAIN pages = 1 .. m
  BY <1>1
<1> DEFINE isEnd(k) == /\ k = Len(pages) + 1 \/ IsText(pages[k])
                       /\ \A l \in first .. k - 1 : ~IsText(pages[l])
           T == { k \in first .. m + 1 : k = m + 1 \/ IsText(pages[k]) }
<1>3. T \subseteq Nat /\ m + 1 \in T
  BY <1>2
<1>4. PICK e \in T : \A k \in T : e <= k
  <2> HIDE DEF T
  <2> QED BY <1>3, LeastNat
<1>5. e \in first .. m + 1 /\ isEnd(e)
  <2>1. e \in first .. m + 1 /\ (e = m + 1 \/ IsText(pages[e]))
    BY <1>4
  <2>2. ASSUME NEW l \in first .. e - 1, IsText(pages[l])
        PROVE  FALSE
    <3>1. l \in first .. m + 1 /\ ~(e <= l)
      BY <1>2, <2>1, <2>2
    <3>2. l \in T
      BY <2>2, <3>1
    <3> QED BY <1>4, <3>1, <3>2
  <2> QED BY <1>2, <2>1, <2>2
<1>6. PICK end : end = CHOOSE k \in first .. Len(pages) + 1 : isEnd(k)
  OBVIOUS
<1>7. end \in first .. m + 1
  <2>1. \E k \in first .. Len(pages) + 1 : isEnd(k)
    BY <1>2, <1>5
  <2> HIDE DEF isEnd
  <2> QED BY <1>2, <1>6, <2>1
<1> DEFINE parts == [k \in 1 .. end - first |-> pages[first + k - 1].chars]
<1>8. LongString(pages, first) = FlattenSeq(parts)
  BY <1>6 DEF LongString
<1>9. parts \in Seq(Seq(S))
  <2>1. ASSUME NEW k \in 1 .. end - first
        PROVE  pages[first + k - 1].chars \in Seq(S)
    <3>1. first + k - 1 \in 1 .. m
      BY <1>2, <1>7
    <3> QED BY <1>2, <3>1
  <2>2. end - first \in Nat
    BY <1>2, <1>7
  <2>3. parts \in [1 .. end - first -> Seq(S)]
    BY <2>1
  <2> HIDE DEF parts
  <2> QED BY <2>2, <2>3, SeqDef
<1> HIDE DEF parts
<1> QED
  BY <1>8, <1>9, FlatType

LEMMA ShortStringType ==
  ASSUME NEW p, PageShape(Int, "VARCHAR", p), IsText(p), NEW start \in Nat
  PROVE  ShortString(p, start) \in Seq(Characters)
<1>1. /\ p.rows \in Nat /\ p.chars \in Seq(Int) /\ p.items \in Seq(Nat)
      /\ \A k \in 1 .. Len(p.items) : p.items[k] <= Len(p.chars)
  BY DEF PageShape, Consistent
<1>2. Seq(Int) \subseteq Seq(Characters)
  <2>1. Int \subseteq Characters
    BY DEF Characters
  <2> QED BY <2>1
<1> DEFINE later == { k \in DOMAIN p.items : p.items[k] > start }
<1>3. CASE p.items = <<>>
  BY <1>3 DEF ShortString
<1>4. CASE p.items # <<>> /\ later # {}
  <2>1. later \subseteq Nat
    BY <1>1
  <2>2. \E k \in later : \A l \in later : k <= l
    <3> HIDE DEF later
    <3> QED BY <1>4, <2>1, LeastNat
  <2>3. PICK e : e = CHOOSE k \in later : \A l \in later : k <= l
    OBVIOUS
  <2>4. e \in later
    <3> HIDE DEF later
    <3> QED BY <2>2, <2>3
  <2>5. PICK hi \in Nat : hi = p.items[e] /\ hi <= Len(p.chars)
    <3>1. e \in 1 .. Len(p.items)
      BY <1>1, <2>4
    <3>2. p.items[e] \in Nat /\ p.items[e] <= Len(p.chars)
      BY <1>1, <3>1
    <3> QED BY <3>2
  <2>6. ShortString(p, start) = SubSeq(p.chars, start + 1, hi)
    BY <1>4, <2>3, <2>5 DEF ShortString
  <2>7. SubSeq(p.chars, start + 1, hi) \in Seq(Int)
    BY <1>1, <2>5, SubSeqProperties
  <2> QED BY <1>2, <2>6, <2>7
<1>5. CASE p.items # <<>> /\ later = {}
  <2>1. PICK n \in Int : n = PageSize - Bytes(p.rows) - DataEnd("VARCHAR", p)
    <3>1. Bytes(p.rows) \in Nat
      BY <1>1, BytesOfRows
    <3>2. DataEnd("VARCHAR", p) \in Nat
      <4>1. Len(p.items) \in Nat /\ Len(p.chars) \in Nat
        BY <1>1
      <4> QED BY <4>1, EndOfData
    <3> QED BY <3>1, <3>2, PageSizes
  <2>2. ShortString(p, start) = [k \in 1 .. n |-> Unwritten]
    BY <1>5, <2>1 DEF ShortString
  <2>3. PICK m \in Nat : 1 .. n = 1 .. m
    <3>1. CASE n >= 0
      BY <3>1
    <3>2. CASE n < 0
      <4>1. 1 .. n = 1 .. 0
        BY <3>2
      <4> QED BY <4>1
    <3> QED BY <3>1, <3>2
  <2>4. [k \in 1 .. n |-> Unwritten] \in [1 .. m -> Characters]
    BY <2>3 DEF Characters
  <2>5. [k \in 1 .. n |-> Unwritten] \in Seq(Characters)
    BY <2>4, SeqDef
  <2> QED BY <2>2, <2>5
<1> QED
  BY <1>3, <1>4, <1>5

LEMMA StringOfType ==
  ASSUME NEW q \in Plans, NEW in, InputsOK(q, in), NEW rep, GoodRep(q, in, rep)
  PROVE  StringOf(in, rep) \in Seq(Characters)
<1>1. PICK t \in Nat, c \in Nat, k \in Nat, o \in Nat :
        /\ IsColumn(q, t, c) /\ TypeOf(q, t, c) = "VARCHAR"
        /\ k + 1 \in DOMAIN PagesOf(in, t, c) /\ PagesOf(in, t, c)[k + 1].rows # RestHeader
        /\ rep = [table |-> t, column |-> c, page |-> k, offset |-> o]
  BY DEF GoodRep
<1>2. PICK values : StoredAs("VARCHAR", PagesOf(in, t, c), values)
  BY <1>1, InputColumn
<1>3. PICK pages : pages = PagesOf(in, t, c)
  OBVIOUS
<1>4. IsSequence(pages) /\ \A l \in DOMAIN pages : PageShape(Int, "VARCHAR", pages[l])
  BY <1>2, <1>3 DEF StoredAs
<1>5. rep.table = t /\ rep.column = c /\ rep.page = k /\ rep.offset = o
  BY <1>1
<1>6. StringOf(in, rep) = IF pages[k + 1].rows = LongHeader THEN LongString(pages, k + 1)
                                                          ELSE ShortString(pages[k + 1], o)
  BY <1>3, <1>5 DEF StringOf
<1>7. CASE pages[k + 1].rows = LongHeader
  <2>1. \A l \in DOMAIN pages : pages[l].chars \in Seq(Int)
    BY <1>4 DEF PageShape
  <2>2. LongString(pages, k + 1) \in Seq(Int)
    BY <1>1, <1>3, <1>4, <2>1, LongStringType
  <2>3. Int \subseteq Characters
    BY DEF Characters
  <2>4. Seq(Int) \subseteq Seq(Characters)
    BY <2>3
  <2> QED BY <1>6, <1>7, <2>2, <2>4
<1>8. CASE pages[k + 1].rows # LongHeader
  <2>1. IsText(pages[k + 1])
    BY <1>1, <1>3, <1>8 DEF IsText
  <2>2. ShortString(pages[k + 1], o) \in Seq(Characters)
    BY <1>1, <1>3, <1>4, <2>1, ShortStringType
  <2> QED BY <1>6, <1>8, <2>2
<1> QED
  BY <1>7, <1>8
-----------------------------------------------------------------------------
(* What materialize writes for a column.                                   *)

\* Values and MaterializedPages, with the inputs as a parameter.
ResolveIn(in, type, v) == IF v = Null \/ type = "INT32" THEN v ELSE StringOf(in, v)

ValuesFor(in, type, column) ==
  [r \in 1 .. column.num_rows |-> ResolveIn(in, type, get_value(column, r - 1))]

PagesFor(in, type, column) ==
  IF column.has_nulls THEN WriteColumn(type, ValuesFor(in, type, column), FALSE)
                      ELSE column.orig_col

LEMMA MaterializedAre ==
  ASSUME NEW type, NEW column
  PROVE  /\ Values(type, column) = ValuesFor(inputs, type, column)
         /\ MaterializedPages(type, column) = PagesFor(inputs, type, column)
<1>1. \A rep : string_from_rep(rep) = StringOf(inputs, rep)
  BY DEF string_from_rep, StringOf, PagesOf
<1>2. \A v : Resolve(type, v) = ResolveIn(inputs, type, v)
  BY <1>1 DEF Resolve, ResolveIn
<1>3. Values(type, column) = ValuesFor(inputs, type, column)
  BY <1>2 DEF Values, ValuesFor
<1> QED
  BY <1>3 DEF MaterializedPages, PagesFor

\* Pages from which the column is read back, if their bitmaps are long enough.
ExactPages(in, type, column, pages) ==
  /\ IsSequence(pages)
  /\ ShortBitmap(pages) \/ \A junk : from_columnar(type, pages, junk) = ValuesFor(in, type, column)

LEMMA PagesForExact ==
  ASSUME NEW q \in Plans, NEW in, InputsOK(q, in), NEW type \in DataTypes, NEW column, NEW n,
         GoodColumn(q, in, type, column, n)
  PROVE  ExactPages(in, type, column, PagesFor(in, type, column))
<1>1. n \in Nat /\ column.num_rows = n /\ column.has_nulls \in BOOLEAN
  BY DEF GoodColumn
<1>2. PICK values : values = ValuesFor(in, type, column)
  OBVIOUS
<1>3. values = [r \in 1 .. n |-> ResolveIn(in, type, get_value(column, r - 1))]
  BY <1>1, <1>2 DEF ValuesFor
<1>4. CASE ~column.has_nulls
  <2>1. /\ type = "INT32" /\ IsSequence(column.orig_col)
        /\ \A junk : from_columnar("INT32", column.orig_col, junk)
                       = [r \in 1 .. n |-> get_value(column, r - 1)]
    BY <1>4 DEF GoodColumn
  <2>2. values = [r \in 1 .. n |-> get_value(column, r - 1)]
    BY <1>3, <2>1 DEF ResolveIn
  <2>3. PagesFor(in, type, column) = column.orig_col
    BY <1>4 DEF PagesFor
  <2> QED BY <1>2, <2>1, <2>2, <2>3 DEF ExactPages
<1>5. CASE column.has_nulls
  <2>1. IsSequence(values)
    <3>1. values = [r \in 1 .. n |-> values[r]]
      BY <1>3
    <3> QED BY <1>1, <3>1, FamilyIsSequence
  <2>2. PICK S : ValuesIn(S, type, values)
    <3>1. CASE type = "INT32"
      <4>1. ValuesIn({ values[r] : r \in 1 .. n }, type, values)
        BY <1>3, <3>1 DEF ValuesIn, ValueIn
      <4> QED BY <4>1
    <3>2. CASE type = "VARCHAR"
      <4>1. ASSUME NEW r \in 1 .. n, values[r] # Null
            PROVE  values[r] \in Seq(Characters)
        <5>1. PICK v : v = get_value(column, r - 1)
          OBVIOUS
        <5>2. r - 1 \in 0 .. n - 1
          BY <1>1
        <5>3. RepOrNull(q, in, v)
          BY <3>2, <5>1, <5>2 DEF GoodColumn
        <5>4. values[r] = ResolveIn(in, type, v)
          BY <1>3, <5>1
        <5>5. v # Null
          BY <4>1, <5>4 DEF ResolveIn
        <5>6. values[r] = StringOf(in, v)
          BY <3>2, <5>4, <5>5 DEF ResolveIn
        <5>7. GoodRep(q, in, v)
          BY <5>3, <5>5 DEF RepOrNull
        <5> QED BY <5>6, <5>7, StringOfType
      <4>2. ValuesIn(Characters, type, values)
        BY <1>3, <3>2, <4>1 DEF ValuesIn, ValueIn
      <4> QED BY <4>2
    <3> QED BY <3>1, <3>2 DEF DataTypes
  <2>3. PagesFor(in, type, column) = WriteColumn(type, values, FALSE)
    BY <1>2, <1>5 DEF PagesFor
  <2>4. FALSE \in BOOLEAN
    OBVIOUS
  <2>5. PICK grows \in BOOLEAN : grows = FALSE
    BY <2>4
  <2>6. IsSequence(WriteColumn(type, values, grows))
    BY <2>1, <2>2, PagesWritten DEF ValuesIn
  <2>7. ~ShortBitmap(WriteColumn(type, values, grows)) =>
          \A junk : from_columnar(type, WriteColumn(type, values, grows), junk) = values
    BY <2>1, <2>2, PagesReadBack
  <2> QED BY <1>2, <2>3, <2>5, <2>6, <2>7 DEF ExactPages
<1> QED
  BY <1>1, <1>4, <1>5
-----------------------------------------------------------------------------
(* Results of scans and joins.                                             *)

\* A result of node n: its columns are good, and equally long.
ResultOK(q, in, n, result) ==
  /\ result = [a \in DOMAIN AttrsOf(q, n) |-> result[a]]
  /\ \E m \in Nat : \A a \in DOMAIN AttrsOf(q, n) :
       GoodColumn(q, in, AttrsOf(q, n)[a][2], result[a], m)

LEMMA ScanOK ==
  ASSUME plan \in Plans, InputsOK(plan, inputs),
         NEW n, n + 1 \in DOMAIN plan.nodes, IsScan(Node(n))
  PROVE  ResultOK(plan, inputs, n, my_copy(Node(n)))
<1>1. PICK node : node = Node(n) /\ node = plan.nodes[n + 1]
  BY DEF Node
<1>2. WellFormed(plan, n + 1)
  BY PlansAssumption
<1>3. PICK attrs : attrs = AttrsOf(plan, n) /\ attrs = node.output_attrs
  BY <1>1 DEF AttrsOf
<1>4. attrs \in Seq(Nat \X DataTypes)
  BY <1>1, <1>3, NodeOfPlan
<1>5. PICK t : t = node.table
  OBVIOUS
<1>6. /\ t \in Nat /\ t + 1 \in DOMAIN plan.tables
      /\ \A a \in DOMAIN attrs : /\ attrs[a][1] + 1 \in DOMAIN plan.tables[t + 1].types
                                 /\ plan.tables[t + 1].types[attrs[a][1] + 1] = attrs[a][2]
                                 /\ attrs[a][2] = "VARCHAR" => t < TableIds /\ attrs[a][1] < ColumnIds
  BY <1>1, <1>2, <1>3, <1>5 DEF WellFormed, StringsAddressable
<1>7. PICK m \in Nat : m = inputs[t + 1].num_rows
  <2>1. inputs[t + 1] = to_columnar(plan.tables[t + 1].types, plan.tables[t + 1].rows)
    BY <1>6 DEF InputsOK
  <2>2. inputs[t + 1].num_rows = Len(plan.tables[t + 1].rows)
    BY <2>1 DEF to_columnar
  <2>3. Len(plan.tables[t + 1].rows) \in Nat
    BY <1>6, PlansAssumption DEF TypedTable
  <2> QED BY <2>2, <2>3
<1> DEFINE copy == [a \in DOMAIN attrs |-> CopyColumn(attrs[a][2], t, attrs[a][1])]
<1>8. my_copy(Node(n)) = copy
  BY <1>1, <1>3, <1>5 DEF my_copy
<1>9. ASSUME NEW a \in DOMAIN attrs
      PROVE  GoodColumn(plan, inputs, attrs[a][2], copy[a], m)
  <2>1. PICK c, type : c = attrs[a][1] /\ type = attrs[a][2]
    OBVIOUS
  <2>2. c \in Nat
    BY <1>4, <2>1
  <2>3. IsColumn(plan, t, c) /\ type = TypeOf(plan, t, c)
    BY <1>6, <2>1, <2>2 DEF IsColumn, TypeOf
  <2>4. type = "VARCHAR" => t < TableIds /\ c < ColumnIds
    BY <1>6, <2>1
  <2>5. GoodColumn(plan, inputs, type, CopyColumn(type, t, c), inputs[t + 1].num_rows)
    BY <2>3, <2>4, CopyColumnOK
  <2> QED BY <1>7, <2>1, <2>5
<1>10. copy = [a \in DOMAIN attrs |-> copy[a]]
  OBVIOUS
<1> HIDE DEF copy
<1> QED
  BY <1>3, <1>8, <1>9, <1>10 DEF ResultOK

\* A pair of rows of results of m1 and m2 rows.
PairOf(pair, m1, m2) == pair[1] \in 0 .. m1 - 1 /\ pair[2] \in 0 .. m2 - 1

LEMMA JoinOK ==
  ASSUME NEW q \in Plans, NEW in, NEW n, n + 1 \in DOMAIN q.nodes,
         NEW node, node = q.nodes[n + 1], ~IsScan(node),
         NEW left, NEW m1 \in Nat, left = [a \in DOMAIN AttrsOf(q, node.left) |-> left[a]],
         \A a \in DOMAIN left : GoodColumn(q, in, AttrsOf(q, node.left)[a][2], left[a], m1),
         NEW right, NEW m2 \in Nat, right = [a \in DOMAIN AttrsOf(q, node.right) |-> right[a]],
         \A a \in DOMAIN right : GoodColumn(q, in, AttrsOf(q, node.right)[a][2], right[a], m2),
         NEW pairs, NEW m \in Nat, DOMAIN pairs = 1 .. m,
         \A k \in 1 .. m : PairOf(pairs[k], m1, m2)
  PROVE  ResultOK(q, in, n, JoinResult(left, right, node.output_attrs, pairs))
<1>1. PICK l : l = n + 1 /\ l \in DOMAIN q.nodes /\ WellFormed(q, l) /\ node = q.nodes[l]
  BY PlansAssumption
<1>2. PICK attrs : attrs = AttrsOf(q, n) /\ attrs = node.output_attrs
  BY DEF AttrsOf
<1>3. PICK lefts, rights : lefts = AttrsOf(q, node.left) /\ rights = AttrsOf(q, node.right)
  OBVIOUS
<1>4. /\ attrs \in Seq(Nat \X DataTypes)
      /\ {node.left, node.right} \subseteq 0 .. l - 2
      /\ \A a \in DOMAIN attrs : /\ attrs[a][1] < Len(lefts \o rights)
                                 /\ (lefts \o rights)[attrs[a][1] + 1][2] = attrs[a][2]
  BY <1>1, <1>2, <1>3 DEF WellFormed, AttrsOf
<1>5. lefts \in Seq(Nat \X DataTypes) /\ rights \in Seq(Nat \X DataTypes)
  <2>1. /\ DOMAIN q.nodes = 1 .. Len(q.nodes) /\ Len(q.nodes) \in Nat
        /\ \A k \in DOMAIN q.nodes : WellFormed(q, k)
    BY PlansAssumption
  <2>2. node.left + 1 \in DOMAIN q.nodes /\ node.right + 1 \in DOMAIN q.nodes
    <3>1. node.left \in 0 .. l - 2 /\ node.right \in 0 .. l - 2
      BY <1>4
    <3> QED BY <1>1, <2>1, <3>1, SMTT(30)
  <2>3. WellFormed(q, node.left + 1) /\ WellFormed(q, node.right + 1)
    BY <2>1, <2>2
  <2> QED BY <1>3, <2>3 DEF WellFormed, AttrsOf
<1>6. PICK ll \in Nat, lr \in Nat : /\ ll = Len(lefts) /\ lr = Len(rights)
                                    /\ DOMAIN lefts = 1 .. ll /\ DOMAIN rights = 1 .. lr
  <2>1. Len(lefts) \in Nat /\ DOMAIN lefts = 1 .. Len(lefts)
    BY <1>5
  <2>2. Len(rights) \in Nat /\ DOMAIN rights = 1 .. Len(rights)
    BY <1>5
  <2> QED BY <2>1, <2>2
<1>7. DOMAIN left = 1 .. ll /\ DOMAIN right = 1 .. lr
  BY <1>3, <1>6
<1>8. Len(left) = ll
  <2>1. left = [a \in 1 .. ll |-> left[a]]
    BY <1>3, <1>6
  <2>2. IsSequence(left)
    BY <2>1, FamilyIsSequence
  <2>3. PICK S : left \in Seq(S)
    BY <2>2 DEF IsSequence
  <2> QED BY <1>7, <2>3
<1> DEFINE values(a) == [k \in DOMAIN pairs |-> OutputValue(left, right, attrs[a][1], pairs[k])]
           result == [a \in DOMAIN attrs |-> ColumnOf(values(a))]
<1>9. JoinResult(left, right, node.output_attrs, pairs) = result
  BY <1>2 DEF JoinResult
<1>10. ASSUME NEW a \in DOMAIN attrs
       PROVE  GoodColumn(q, in, attrs[a][2], result[a], m)
  <2>1. PICK idx \in Nat : idx = attrs[a][1]
    BY <1>4
  <2>2. PICK type : type = attrs[a][2]
    OBVIOUS
  <2>3. idx < Len(lefts \o rights) /\ (lefts \o rights)[idx + 1][2] = type
    BY <1>4, <2>1, <2>2
  <2>4. /\ Len(lefts \o rights) = ll + lr
        /\ \A i \in 1 .. ll + lr :
             (lefts \o rights)[i] = IF i <= ll THEN lefts[i] ELSE rights[i - ll]
    BY <1>5, <1>6, ConcatProperties
  <2>5. PICK f : f = [k \in 1 .. m |-> OutputValue(left, right, idx, pairs[k])]
    OBVIOUS
  <2>6. result[a] = ColumnOf(f)
    BY <2>1, <2>5
  <2>7. ASSUME type = "VARCHAR", NEW k \in 1 .. m
        PROVE  RepOrNull(q, in, f[k])
    <3>1. PairOf(pairs[k], m1, m2)
      OBVIOUS
    <3>2. f[k] = IF idx < ll THEN get_value(left[idx + 1], pairs[k][1])
                             ELSE get_value(right[idx - ll + 1], pairs[k][2])
      BY <1>8, <2>5 DEF OutputValue
    <3>3. CASE idx < ll
      <4>1. idx + 1 \in 1 .. ll /\ idx + 1 \in 1 .. ll + lr
        BY <3>3
      <4>2. lefts[idx + 1][2] = "VARCHAR"
        BY <2>3, <2>4, <2>7, <4>1
      <4>3. GoodColumn(q, in, "VARCHAR", left[idx + 1], m1)
        BY <1>3, <1>7, <4>1, <4>2
      <4> QED BY <3>1, <3>2, <3>3, <4>3 DEF GoodColumn, PairOf
    <3>4. CASE ~(idx < ll)
      <4>1. PICK j \in 1 .. lr : j = idx - ll + 1 /\ j = idx + 1 - ll
        <5>1. idx < ll + lr
          BY <2>3, <2>4
        <5>2. idx - ll + 1 \in 1 .. lr /\ idx - ll + 1 = idx + 1 - ll
          BY <3>4, <5>1
        <5> QED BY <5>2
      <4>2. idx + 1 \in 1 .. ll + lr /\ ~(idx + 1 <= ll)
        BY <3>4, <4>1
      <4>3. rights[j][2] = "VARCHAR"
        <5>1. (lefts \o rights)[idx + 1] = rights[j]
          BY <2>4, <4>1, <4>2, SMTT(30)
        <5> QED BY <2>3, <2>7, <5>1
      <4>4. GoodColumn(q, in, "VARCHAR", right[j], m2)
        BY <1>3, <1>7, <4>1, <4>3
      <4>5. f[k] = get_value(right[j], pairs[k][2])
        BY <3>2, <3>4, <4>1
      <4> QED BY <3>1, <4>4, <4>5 DEF GoodColumn, PairOf
    <3> QED BY <3>3, <3>4
  <2>8. f = [k \in 1 .. m |-> f[k]]
    BY <2>5
  <2>9. GoodColumn(q, in, type, ColumnOf(f), m)
    BY <2>7, <2>8, CollectedColumn
  <2> QED BY <2>2, <2>6, <2>9
<1>11. result = [a \in DOMAIN attrs |-> result[a]]
  OBVIOUS
<1> HIDE DEF result
<1> QED
  BY <1>2, <1>9, <1>10, <1>11 DEF ResultOK
-----------------------------------------------------------------------------
(* Calls and their results.                                                *)

NodeOf(q, n) == q.nodes[n + 1]

\* The child whose result a call waits for.
Awaited(q, frame) ==
  IF frame.results = <<>> THEN NodeOf(q, frame.node).left ELSE NodeOf(q, frame.node).right

\* A call has results of its children, the left one first.
CallOK(q, in, frame) ==
  /\ frame = [node |-> frame.node, results |-> frame.results]
  /\ frame.node + 1 \in DOMAIN q.nodes
  /\ IsSequence(frame.results)
  /\ frame.results # <<>> => Len(frame.results) \in 1 .. 2 /\ ~IsScan(NodeOf(q, frame.node))
  /\ frame.results # <<>> =>
       ResultOK(q, in, NodeOf(q, frame.node).left, frame.results[1])
  /\ Len(frame.results) = 2 =>
       ResultOK(q, in, NodeOf(q, frame.node).right, frame.results[2])

\* A call that waits for the next one, which is for the child that is its turn.
Calls(q, frame, called) ==
  /\ ~IsScan(NodeOf(q, frame.node)) /\ Len(frame.results) # 2
  /\ called.node = Awaited(q, frame)

CallsMatch(q, in, calls) ==
  /\ IsSequence(calls) /\ calls # <<>> /\ calls[1].node = q.root
  /\ \A k \in DOMAIN calls : CallOK(q, in, calls[k])
  /\ \A k \in DOMAIN calls : k + 1 \in DOMAIN calls => Calls(q, calls[k], calls[k + 1])

KeysOf(column) == [r \in 1 .. column.num_rows |-> get_value(column, r - 1)]

\* The join that runs is that of the innermost call, on its two results.
JoinRuns(q, frame, j) ==
  /\ ~IsScan(NodeOf(q, frame.node)) /\ Len(frame.results) = 2
  /\ j.left = KeysOf(frame.results[1][NodeOf(q, frame.node).left_attr + 1])
  /\ j.right = KeysOf(frame.results[2][NodeOf(q, frame.node).right_attr + 1])

\* Column c of the answer has been written.
WrittenOut(nxt, n, c) == nxt # <<>> /\ \E tid \in Threads : c - 1 \in StartColumn(tid, n) .. nxt[tid] - 1

RowsOfAnswer(cols) == IF cols = <<>> THEN 0 ELSE cols[1].num_rows

\* The table that is returned has the pages of the columns written so far.
AnswerOK(q, in, cols, nxt, table) ==
  /\ ResultOK(q, in, q.root, cols)
  /\ table = [num_rows |-> RowsOfAnswer(cols), columns |-> table.columns]
  /\ table.columns = [c \in DOMAIN cols |-> table.columns[c]]
  /\ \A c \in DOMAIN cols :
       table.columns[c] = IF WrittenOut(nxt, Len(cols), c)
                            THEN PagesFor(in, AttrsOf(q, q.root)[c][2], cols[c]) ELSE <<>>

Finished(nxt, n) == nxt # <<>> /\ \A tid \in Threads : nxt[tid] >= EndColumn(tid, n)

ResultsInv ==
  /\ IInv
  /\ InputsOK(plan, inputs)
  /\ phase = "execute" => CallsMatch(plan, inputs, stack)
  /\ status = "running" => phase = "execute" /\ JoinRuns(plan, Top, job)
  /\ phase # "execute" => AnswerOK(plan, inputs, columns, next, ret)
  /\ phase = "done" => Finished(next, Len(columns))

LEMMA InitResults == Init => ResultsInv
<1> SUFFICES ASSUME Init PROVE ResultsInv
  OBVIOUS
<1>1. PICK frame : frame = [node |-> plan.root, results |-> <<>>]
  OBVIOUS
<1>2. /\ plan \in Plans /\ phase = "execute" /\ status = "idle" /\ stack = <<frame>>
      /\ InputsOK(plan, inputs)
  BY <1>1 DEF Init, InputsOK
<1>3. frame.node = plan.root /\ frame.results = <<>> /\ frame.node + 1 \in DOMAIN plan.nodes
  <2>1. plan.root + 1 \in DOMAIN plan.nodes
    BY <1>2, PlansAssumption
  <2> QED BY <1>1, <2>1
<1>4. /\ stack \in Seq({frame}) /\ DOMAIN stack = {1} /\ stack[1] = frame /\ stack # <<>>
      /\ <<>> \in Seq({}) /\ Len(<<>>) = 0
  BY <1>2
<1>5. IsSequence(stack) /\ IsSequence(<<>>)
  BY <1>4 DEF IsSequence
<1>6. CallOK(plan, inputs, frame)
  <2>1. frame = [node |-> frame.node, results |-> frame.results]
    BY <1>1
  <2>2. PICK results : results = frame.results /\ results = <<>>
    BY <1>3
  <2>3. Len(results) # 2 /\ IsSequence(results)
    BY <1>4, <1>5, <2>2
  <2> QED BY <1>3, <2>1, <2>2, <2>3 DEF CallOK
<1>7. CallsMatch(plan, inputs, stack)
  BY <1>3, <1>4, <1>5, <1>6 DEF CallsMatch
<1> QED
  BY <1>2, <1>7, InitInv DEF ResultsInv

LEMMA ResultAdded ==
  ASSUME NEW q, NEW in, NEW frame, CallOK(q, in, frame),
         ~IsScan(NodeOf(q, frame.node)), Len(frame.results) # 2,
         NEW result, ResultOK(q, in, Awaited(q, frame), result),
         NEW f, f = [node |-> frame.node, results |-> Append(frame.results, result)]
  PROVE  CallOK(q, in, f)
<1>1. PICK r : r = frame.results
  OBVIOUS
<1>2. PICK n : n = frame.node
  OBVIOUS
<1>3. /\ IsSequence(r) /\ n + 1 \in DOMAIN q.nodes
      /\ r # <<>> => Len(r) \in 1 .. 2
      /\ r # <<>> => ResultOK(q, in, NodeOf(q, n).left, r[1])
  BY <1>1, <1>2 DEF CallOK
<1>4. PICK more : more = Append(r, result)
  OBVIOUS
<1>5. f.node = n /\ f.results = more /\ f = [node |-> f.node, results |-> f.results]
  BY <1>1, <1>2, <1>4
<1>6. IsSequence(more) /\ more # <<>>
  <2>1. PICK S : r \in Seq(S)
    BY <1>3 DEF IsSequence
  <2>2. r \in Seq(S \cup {result})
    BY <2>1
  <2>3. more \in Seq(S \cup {result}) /\ more # <<>>
    BY <1>4, <2>2, AppendProperties
  <2> QED BY <2>3 DEF IsSequence
<1>7. CASE r = <<>>
  <2>1. more = <<result>>
    BY <1>4, <1>7
  <2>2. Len(more) = 1 /\ more[1] = result
    BY <2>1
  <2>3. ResultOK(q, in, NodeOf(q, n).left, more[1])
    BY <1>1, <1>2, <1>7, <2>2 DEF Awaited
  <2>4. Len(more) \in 1 .. 2 /\ Len(more) # 2
    BY <2>2
  <2> QED BY <1>2, <1>3, <1>5, <1>6, <2>3, <2>4 DEF CallOK
<1>8. CASE r # <<>>
  <2>1. Len(r) = 1
    BY <1>1, <1>3, <1>8
  <2>2. PICK S : r \in Seq(S)
    BY <1>3 DEF IsSequence
  <2>3. r \in Seq(S \cup {result})
    BY <2>2
  <2>4. 1 \in 1 .. Len(r) /\ Len(r) + 1 = 2
    BY <2>1
  <2>5. Len(more) = 2 /\ more[1] = r[1] /\ more[2] = result
    BY <1>4, <2>3, <2>4, AppendProperties
  <2>6. ResultOK(q, in, NodeOf(q, n).left, more[1])
    BY <1>3, <1>8, <2>5
  <2>7. ResultOK(q, in, NodeOf(q, n).right, more[2])
    BY <1>1, <1>2, <1>8, <2>5 DEF Awaited
  <2>8. Len(more) \in 1 .. 2
    BY <2>5
  <2> QED BY <1>2, <1>3, <1>5, <1>6, <2>6, <2>7, <2>8 DEF CallOK
<1> QED
  BY <1>7, <1>8

LEMMA TopCall ==
  ASSUME ResultsInv, phase = "execute"
  PROVE  /\ IInv /\ CallsOK /\ plan \in Plans /\ InputsOK(plan, inputs) /\ next = <<>>
         /\ CallsMatch(plan, inputs, stack)
         /\ Len(stack) \in Nat \ {0} /\ DOMAIN stack = 1 .. Len(stack)
         /\ Top = stack[Len(stack)] /\ CallOK(plan, inputs, Top)
         /\ Here = NodeOf(plan, Top.node)
<1>1. IInv /\ CallsOK /\ plan \in Plans /\ next = <<>> /\ InputsOK(plan, inputs)
  BY DEF ResultsInv, IInv, CallsOK
<1>2. CallsMatch(plan, inputs, stack)
  BY DEF ResultsInv
<1>3. Len(stack) \in Nat \ {0} /\ DOMAIN stack = 1 .. Len(stack)
  BY <1>1, TopOK
<1>4. Len(stack) \in DOMAIN stack
  BY <1>3
<1>5. CallOK(plan, inputs, stack[Len(stack)])
  BY <1>2, <1>4 DEF CallsMatch
<1> QED
  BY <1>1, <1>2, <1>3, <1>5 DEF Top, Here, Node, NodeOf

LEMMA ReturnResults ==
  ASSUME ResultsInv, phase = "execute", NEW result, ResultOK(plan, inputs, Top.node, result),
         Return(result), UNCHANGED <<plan, inputs, next>>, status' # "running", IInv'
  PROVE  ResultsInv'
<1>1. /\ plan \in Plans /\ InputsOK(plan, inputs) /\ next = <<>>
      /\ CallsMatch(plan, inputs, stack)
      /\ Len(stack) \in Nat \ {0} /\ DOMAIN stack = 1 .. Len(stack)
      /\ Top = stack[Len(stack)]
  BY TopCall
<1>2. plan' = plan /\ inputs' = inputs /\ next' = <<>>
  BY <1>1
<1>3. CASE Len(stack) = 1
  <2>1. ResultOK(plan, inputs, plan.root, result)
    BY <1>1, <1>3 DEF CallsMatch
  <2>2. phase' = "materialize" /\ columns' = result
    BY <1>3 DEF Return
  <2>3. ret' = [num_rows |-> RowsOfAnswer(result), columns |-> [c \in DOMAIN result |-> <<>>]]
    BY <1>3 DEF Return, RowsOfAnswer
  <2>4. PICK none : none = [c \in DOMAIN result |-> <<>>]
    OBVIOUS
  <2>5. PICK rows : rows = RowsOfAnswer(result)
    OBVIOUS
  <2>6. ret' = [num_rows |-> rows, columns |-> none]
    BY <2>3, <2>4, <2>5
  <2>7. ret'.columns = none /\ ret' = [num_rows |-> rows, columns |-> ret'.columns]
    BY <2>6
  <2>8. none = [c \in DOMAIN result |-> none[c]] /\ \A c \in DOMAIN result : none[c] = <<>>
    BY <2>4
  <2>9. \A n, c : ~WrittenOut(<<>>, n, c)
    BY DEF WrittenOut
  <2>10. AnswerOK(plan, inputs, result, <<>>, ret')
    BY <2>1, <2>5, <2>7, <2>8, <2>9 DEF AnswerOK
  <2>11. AnswerOK(plan, inputs, columns, next, ret)'
    BY <1>2, <2>2, <2>10
  <2>12. InputsOK(plan, inputs)'
    BY <1>1, <1>2
  <2> QED BY <2>2, <2>11, <2>12 DEF ResultsInv
<1>4. CASE Len(stack) # 1
  <2>1. PICK m \in Nat \ {0} : Len(stack) = m + 1 /\ Len(stack) - 1 = m
    <3>1. Len(stack) - 1 \in Nat \ {0} /\ Len(stack) = (Len(stack) - 1) + 1
      BY <1>1, <1>4
    <3> QED BY <3>1
  <2>2. PICK S : stack \in Seq(S)
    BY <1>1 DEF CallsMatch, IsSequence
  <2>3. PICK front : front = Front(stack)
    OBVIOUS
  <2>4. front \in Seq(S) /\ Len(front) = m /\ \A k \in 1 .. m : front[k] = stack[k]
    BY <2>1, <2>2, <2>3, FrontOf
  <2>5. m \in DOMAIN stack /\ m + 1 \in DOMAIN stack
    BY <1>1, <2>1
  <2>6. CallOK(plan, inputs, stack[m]) /\ Calls(plan, stack[m], Top)
    BY <1>1, <2>1, <2>5 DEF CallsMatch
  <2>7. PICK n, r : stack[m] = [node |-> n, results |-> r]
    BY <2>6 DEF CallOK
  <2>8. PICK frame : frame = [node |-> n, results |-> Append(r, result)]
    OBVIOUS
  <2>9. CallOK(plan, inputs, frame) /\ frame.node = stack[m].node
    <3>1. ResultOK(plan, inputs, Awaited(plan, stack[m]), result)
      BY <2>6 DEF Calls
    <3>2. frame = [node |-> stack[m].node, results |-> Append(stack[m].results, result)]
      BY <2>7, <2>8
    <3>3. CallOK(plan, inputs, frame)
      BY <2>6, <3>1, <3>2, ResultAdded DEF Calls
    <3> QED BY <3>2, <3>3
  <2>10. PICK calls : calls = [front EXCEPT ![m] = frame]
    OBVIOUS
  <2>11. stack' = calls /\ phase' = "execute"
    <3>1. stack' = [front EXCEPT ![m].results = Append(@, result)] /\ phase' = "execute"
      BY <1>4, <2>1, <2>3 DEF Return
    <3>2. front[m] = stack[m]
      BY <2>4
    <3>3. [front[m] EXCEPT !.results = Append(@, result)] = frame
      BY <2>7, <2>8, <3>2, SMTT(30)
    <3> QED BY <2>10, <3>1, <3>3
  <2>12. /\ DOMAIN calls = 1 .. m
         /\ \A k \in 1 .. m : calls[k] = IF k = m THEN frame ELSE stack[k]
    BY <2>4, <2>10
  <2>13. calls = [k \in 1 .. m |-> calls[k]]
    <3>1. front = [k \in 1 .. Len(front) |-> front[k]]
      BY <2>4
    <3>2. front = [k \in 1 .. m |-> front[k]]
      BY <2>4, <3>1
    <3> QED BY <2>10, <3>2
  <2>14. IsSequence(calls) /\ calls # <<>> /\ calls[1].node = plan.root
    <3>1. IsSequence(calls) /\ calls # <<>>
      BY <2>12, <2>13, FamilyIsSequence
    <3>2. 1 \in 1 .. m
      OBVIOUS
    <3>3. calls[1].node = stack[1].node
      BY <2>9, <2>12, <3>2
    <3> QED BY <1>1, <3>1, <3>3 DEF CallsMatch
  <2>15. ASSUME NEW k \in 1 .. m
         PROVE  CallOK(plan, inputs, calls[k])
    <3>1. k \in DOMAIN stack
      BY <1>1, <2>1
    <3>2. CallOK(plan, inputs, stack[k])
      BY <1>1, <3>1 DEF CallsMatch
    <3> QED BY <2>9, <2>12, <3>2
  <2>16. ASSUME NEW k \in 1 .. m, k + 1 \in 1 .. m
         PROVE  Calls(plan, calls[k], calls[k + 1])
    <3>1. k \in DOMAIN stack /\ k + 1 \in DOMAIN stack /\ k # m
      BY <1>1, <2>1, <2>16
    <3>2. Calls(plan, stack[k], stack[k + 1])
      BY <1>1, <3>1 DEF CallsMatch
    <3>3. calls[k] = stack[k] /\ calls[k + 1].node = stack[k + 1].node
      BY <2>9, <2>12, <2>16, <3>1
    <3> QED BY <3>2, <3>3 DEF Calls
  <2>17. CallsMatch(plan, inputs, calls)
    BY <2>12, <2>14, <2>15, <2>16 DEF CallsMatch
  <2>18. CallsMatch(plan, inputs, stack)' /\ InputsOK(plan, inputs)'
    BY <1>1, <1>2, <2>11, <2>17
  <2> QED BY <2>11, <2>18 DEF ResultsInv
<1> QED
  BY <1>3, <1>4
-----------------------------------------------------------------------------
(* The steps of execute_impl.                                              *)

LEMMA ScanResults ==
  ASSUME ResultsInv, execute_scan, IInv'
  PROVE  ResultsInv'
<1>1. phase = "execute" /\ IsScan(Here)
  BY DEF execute_scan
<1>2. /\ plan \in Plans /\ InputsOK(plan, inputs) /\ CallOK(plan, inputs, Top)
      /\ Here = NodeOf(plan, Top.node)
  BY <1>1, TopCall
<1>3. PICK result : result = my_copy(Here)
  OBVIOUS
<1>4. Return(result) /\ UNCHANGED <<plan, inputs, next>> /\ status' = status
  BY <1>3 DEF execute_scan, joinVars
<1>5. ResultOK(plan, inputs, Top.node, result)
  <2>1. PICK n : n = Top.node /\ n + 1 \in DOMAIN plan.nodes
    BY <1>2 DEF CallOK
  <2>2. Here = Node(n)
    BY <2>1 DEF Here
  <2> QED BY <1>1, <1>2, <1>3, <2>1, <2>2, ScanOK
<1>6. status # "running"
  BY <1>1, <1>2 DEF ResultsInv, JoinRuns
<1> QED
  BY <1>1, <1>4, <1>5, <1>6, ReturnResults

LEMMA CallResults ==
  ASSUME ResultsInv, CallChild, IInv'
  PROVE  ResultsInv'
<1>1. phase = "execute" /\ ~IsScan(Here) /\ Len(Top.results) < 2
  BY DEF CallChild
<1>2. /\ plan \in Plans /\ InputsOK(plan, inputs) /\ CallOK(plan, inputs, Top)
      /\ Here = NodeOf(plan, Top.node)
      /\ CallsMatch(plan, inputs, stack)
      /\ Len(stack) \in Nat \ {0} /\ DOMAIN stack = 1 .. Len(stack)
      /\ Top = stack[Len(stack)]
  BY <1>1, TopCall
<1>3. PICK child : child = IF Top.results = <<>> THEN Here.left ELSE Here.right
  OBVIOUS
<1>4. child = Awaited(plan, Top)
  BY <1>2, <1>3 DEF Awaited
<1>5. PICK frame : frame = [node |-> child, results |-> <<>>]
  OBVIOUS
<1>6. /\ stack' = Append(stack, frame) /\ phase' = phase
      /\ plan' = plan /\ inputs' = inputs /\ status' = status
  BY <1>3, <1>5 DEF CallChild, joinVars
<1>7. status # "running"
  BY <1>1, <1>2 DEF ResultsInv, JoinRuns
<1>8. child + 1 \in DOMAIN plan.nodes
  <2>1. PICK n : n = Top.node /\ n + 1 \in DOMAIN plan.nodes
    BY <1>2 DEF CallOK
  <2>2. Here = Node(n)
    BY <2>1 DEF Here
  <2>3. Here.left + 1 \in DOMAIN plan.nodes /\ Here.right + 1 \in DOMAIN plan.nodes
    BY <1>1, <1>2, <2>1, <2>2, NodeOfPlan
  <2> QED BY <1>3, <2>3
<1>9. CallOK(plan, inputs, frame)
  <2>1. frame.node = child /\ frame.results = <<>> /\ frame = [node |-> frame.node, results |-> frame.results]
    BY <1>5
  <2>2. PICK results : results = frame.results /\ results = <<>>
    BY <2>1
  <2>3. Len(results) # 2 /\ IsSequence(results)
    <3>1. results \in Seq({}) /\ Len(results) = 0
      BY <2>2
    <3> QED BY <3>1 DEF IsSequence
  <2> QED BY <1>8, <2>1, <2>2, <2>3 DEF CallOK
<1>10. PICK S : stack \in Seq(S)
  BY <1>2 DEF CallsMatch, IsSequence
<1>11. PICK N \in Nat \ {0} : N = Len(stack) /\ DOMAIN stack = 1 .. N
  BY <1>2
<1>12. PICK calls : calls = Append(stack, frame)
  OBVIOUS
<1>13. /\ IsSequence(calls) /\ calls # <<>> /\ DOMAIN calls = 1 .. N + 1
       /\ \A k \in 1 .. N : calls[k] = stack[k]
       /\ calls[N + 1] = frame
  <2>1. stack \in Seq(S \cup {frame})
    BY <1>10
  <2>2. /\ calls \in Seq(S \cup {frame}) /\ calls # <<>> /\ Len(calls) = N + 1
        /\ \A k \in 1 .. N : calls[k] = stack[k]
        /\ calls[N + 1] = frame
    BY <1>11, <1>12, <2>1, AppendProperties
  <2>3. DOMAIN calls = 1 .. N + 1
    BY <2>2
  <2> QED BY <2>2, <2>3 DEF IsSequence
<1>14. ASSUME NEW k \in 1 .. N + 1
       PROVE  CallOK(plan, inputs, calls[k])
  <2>1. CASE k = N + 1
    BY <1>9, <1>13, <2>1
  <2>2. CASE k # N + 1
    <3>1. k \in 1 .. N
      BY <2>2
    <3> QED BY <1>2, <1>11, <1>13, <3>1 DEF CallsMatch
  <2> QED BY <2>1, <2>2
<1>15. ASSUME NEW k \in 1 .. N + 1, k + 1 \in 1 .. N + 1
       PROVE  Calls(plan, calls[k], calls[k + 1])
  <2>1. k \in 1 .. N
    BY <1>15
  <2>2. CASE k = N
    <3>1. frame.node = child
      BY <1>5
    <3>2. calls[k] = Top /\ calls[k + 1] = frame
      BY <1>2, <1>11, <1>13, <2>1, <2>2
    <3>3. PICK top : top = Top
      OBVIOUS
    <3>4. ~IsScan(NodeOf(plan, top.node)) /\ child = Awaited(plan, top)
      BY <1>1, <1>2, <1>4, <3>3
    <3>5. Len(top.results) # 2
      BY <1>1, <3>3
    <3>6. Calls(plan, top, frame)
      BY <3>1, <3>4, <3>5 DEF Calls
    <3> QED BY <3>2, <3>3, <3>6
  <2>3. CASE k # N
    <3>1. k + 1 \in 1 .. N
      BY <2>1, <2>3
    <3>2. calls[k] = stack[k] /\ calls[k + 1] = stack[k + 1]
      BY <1>13, <2>1, <3>1
    <3>3. Calls(plan, stack[k], stack[k + 1])
      BY <1>2, <1>11, <2>1, <3>1 DEF CallsMatch
    <3> QED BY <3>2, <3>3
  <2> QED BY <2>2, <2>3
<1>16. CallsMatch(plan, inputs, calls)
  <2>1. calls[1].node = plan.root
    <3>1. 1 \in 1 .. N
      OBVIOUS
    <3> QED BY <1>2, <1>13, <3>1 DEF CallsMatch
  <2> QED BY <1>13, <1>14, <1>15, <2>1 DEF CallsMatch
<1>17. CallsMatch(plan, inputs, stack)' /\ InputsOK(plan, inputs)'
  BY <1>2, <1>6, <1>12, <1>16
<1> QED
  BY <1>1, <1>6, <1>7, <1>17 DEF ResultsInv

LEMMA BeginResults ==
  ASSUME ResultsInv, BeginJoin, IInv'
  PROVE  ResultsInv'
<1>1. phase = "execute" /\ ~IsScan(Here) /\ Len(Top.results) = 2
  BY DEF BeginJoin
<1>2. InputsOK(plan, inputs) /\ CallsMatch(plan, inputs, stack) /\ Here = NodeOf(plan, Top.node)
  BY <1>1, TopCall
<1>3. /\ stack' = stack /\ phase' = phase /\ plan' = plan /\ inputs' = inputs
      /\ job'.left = KeyColumn(Top.results[1], Here.left_attr)
      /\ job'.right = KeyColumn(Top.results[2], Here.right_attr)
  BY DEF BeginJoin
<1>4. PICK top : top = Top
  OBVIOUS
<1>5. Top' = top
  BY <1>3, <1>4 DEF Top
<1>6. JoinRuns(plan, top, job')
  BY <1>1, <1>2, <1>3, <1>4 DEF JoinRuns, KeyColumn, KeysOf
<1>7. JoinRuns(plan, Top, job)'
  BY <1>3, <1>5, <1>6
<1>8. CallsMatch(plan, inputs, stack)' /\ InputsOK(plan, inputs)'
  BY <1>2, <1>3
<1> QED
  BY <1>1, <1>3, <1>7, <1>8 DEF ResultsInv

\* The output of a join is a sequence of pairs of rows.
LEMMA JoinedPairs ==
  ASSUME NEW j, NEW m1 \in Nat, NEW m2 \in Nat, Len(j.left) = m1, Len(j.right) = m2,
         NEW pairs, pairs \in SetToSeqs(Join!Matches(j))
  PROVE  \E m \in Nat : DOMAIN pairs = 1 .. m /\ \A k \in 1 .. m : PairOf(pairs[k], m1, m2)
<1>1. PICK M : M = Join!Matches(j)
  OBVIOUS
<1>2. M \subseteq (0 .. m1 - 1) \X (0 .. m2 - 1)
  BY <1>1 DEF Join!Matches, Join!Rows
<1>3. IsFiniteSet(M)
  <2>1. IsFiniteSet(0 .. m1 - 1) /\ IsFiniteSet(0 .. m2 - 1)
    BY FS_Interval
  <2>2. IsFiniteSet((0 .. m1 - 1) \X (0 .. m2 - 1))
    BY <2>1, FS_Product
  <2> QED BY <1>2, <2>2, FS_Subset
<1>4. Cardinality(M) \in Nat
  BY <1>3, FS_CardinalityType
<1>5. pairs \in [1 .. Cardinality(M) -> M]
  BY <1>1 DEF SetToSeqs
<1>6. ASSUME NEW k \in 1 .. Cardinality(M)
      PROVE  PairOf(pairs[k], m1, m2)
  <2>1. pairs[k] \in (0 .. m1 - 1) \X (0 .. m2 - 1)
    BY <1>2, <1>5
  <2> QED BY <2>1 DEF PairOf
<1> QED
  BY <1>4, <1>5, <1>6

\* A key column is as long as its result.
LEMMA KeysOfResult ==
  ASSUME NEW q, NEW in, NEW type, NEW column, NEW m, GoodColumn(q, in, type, column, m)
  PROVE  Len(KeysOf(column)) = m
<1>1. m \in Nat /\ column.num_rows = m
  BY DEF GoodColumn
<1>2. PICK f : f = [r \in 1 .. m |-> get_value(column, r - 1)]
  OBVIOUS
<1>3. f = [r \in 1 .. m |-> f[r]] /\ DOMAIN f = 1 .. m
  BY <1>2
<1>4. IsSequence(f)
  BY <1>1, <1>3, FamilyIsSequence
<1>5. PICK S : f \in Seq(S)
  BY <1>4 DEF IsSequence
<1>6. Len(f) = m
  BY <1>1, <1>3, <1>5
<1> QED
  BY <1>1, <1>2, <1>6 DEF KeysOf

LEMMA FinishResults ==
  ASSUME ResultsInv, FinishJoin, IInv'
  PROVE  ResultsInv'
<1>1. phase = "execute" /\ status = "running" /\ output' \in SetToSeqs(Join!Matches(job))
  BY DEF FinishJoin
<1>2. /\ plan \in Plans /\ InputsOK(plan, inputs) /\ CallOK(plan, inputs, Top)
      /\ Here = NodeOf(plan, Top.node)
  BY <1>1, TopCall
<1>3. JoinRuns(plan, Top, job)
  BY <1>1 DEF ResultsInv
<1>4. PICK n : n = Top.node /\ n + 1 \in DOMAIN plan.nodes
  BY <1>2 DEF CallOK
<1>5. PICK node : node = Here /\ node = plan.nodes[n + 1] /\ node = NodeOf(plan, n)
  BY <1>2, <1>4 DEF NodeOf
<1>6. PICK left, right : left = Top.results[1] /\ right = Top.results[2]
  OBVIOUS
<1>7. /\ ~IsScan(node) /\ Len(Top.results) = 2
      /\ job.left = KeysOf(left[node.left_attr + 1])
      /\ job.right = KeysOf(right[node.right_attr + 1])
  BY <1>3, <1>4, <1>5, <1>6 DEF JoinRuns
<1>8. /\ ResultOK(plan, inputs, node.left, left)
      /\ ResultOK(plan, inputs, node.right, right)
  <2>1. Top.results # <<>>
    <3>1. Len(<<>>) # 2
      OBVIOUS
    <3> QED BY <1>7, <3>1
  <2> QED BY <1>2, <1>4, <1>5, <1>6, <1>7, <2>1 DEF CallOK
<1>9. PICK m1 \in Nat : \A a \in DOMAIN AttrsOf(plan, node.left) :
        GoodColumn(plan, inputs, AttrsOf(plan, node.left)[a][2], left[a], m1)
  BY <1>8 DEF ResultOK
<1>10. PICK m2 \in Nat : \A a \in DOMAIN AttrsOf(plan, node.right) :
         GoodColumn(plan, inputs, AttrsOf(plan, node.right)[a][2], right[a], m2)
  BY <1>8 DEF ResultOK
<1>11. /\ left = [a \in DOMAIN AttrsOf(plan, node.left) |-> left[a]]
       /\ right = [a \in DOMAIN AttrsOf(plan, node.right) |-> right[a]]
  BY <1>8 DEF ResultOK
<1>12. /\ node.left_attr + 1 \in DOMAIN AttrsOf(plan, node.left)
       /\ node.right_attr + 1 \in DOMAIN AttrsOf(plan, node.right)
  <2>1. PICK l : l = n + 1 /\ l \in DOMAIN plan.nodes /\ node = plan.nodes[l]
    BY <1>4, <1>5
  <2>2. /\ \A k \in DOMAIN plan.nodes : WellFormed(plan, k)
        /\ DOMAIN plan.nodes = 1 .. Len(plan.nodes) /\ Len(plan.nodes) \in Nat
    BY <1>2, PlansAssumption
  <2>3. /\ {node.left, node.right} \subseteq 0 .. l - 2
        /\ node.left_attr \in 0 .. Len(AttrsOf(plan, node.left)) - 1
        /\ node.right_attr \in 0 .. Len(AttrsOf(plan, node.right)) - 1
    BY <1>7, <2>1, <2>2 DEF WellFormed, AttrsOf
  <2>4. node.left + 1 \in DOMAIN plan.nodes /\ node.right + 1 \in DOMAIN plan.nodes
    <3>1. node.left \in 0 .. l - 2 /\ node.right \in 0 .. l - 2
      BY <2>3
    <3> QED BY <2>1, <2>2, <3>1
  <2>5. WellFormed(plan, node.left + 1) /\ WellFormed(plan, node.right + 1)
    BY <2>2, <2>4
  <2>6. /\ AttrsOf(plan, node.left) \in Seq(Nat \X DataTypes)
        /\ AttrsOf(plan, node.right) \in Seq(Nat \X DataTypes)
    BY <2>5 DEF WellFormed, AttrsOf
  <2>7. PICK lefts \in Seq(Nat \X DataTypes), rights \in Seq(Nat \X DataTypes) :
          lefts = AttrsOf(plan, node.left) /\ rights = AttrsOf(plan, node.right)
    BY <2>6
  <2>8. node.left_attr + 1 \in DOMAIN lefts
    BY <2>3, <2>7
  <2>9. node.right_attr + 1 \in DOMAIN rights
    BY <2>3, <2>7
  <2> QED BY <2>7, <2>8, <2>9
<1>13. Len(job.left) = m1
  BY <1>7, <1>9, <1>12, KeysOfResult
<1>14. Len(job.right) = m2
  BY <1>7, <1>10, <1>12, KeysOfResult
<1>15. PICK pairs : pairs = output'
  OBVIOUS
<1>16. PICK m \in Nat : DOMAIN pairs = 1 .. m /\ \A k \in 1 .. m : PairOf(pairs[k], m1, m2)
  BY <1>1, <1>13, <1>14, <1>15, JoinedPairs
<1>17. PICK result : result = JoinResult(left, right, node.output_attrs, pairs)
  OBVIOUS
<1>18. ResultOK(plan, inputs, n, result)
  <2>1. \A a \in DOMAIN left : GoodColumn(plan, inputs, AttrsOf(plan, node.left)[a][2], left[a], m1)
    BY <1>9, <1>11
  <2>2. \A a \in DOMAIN right : GoodColumn(plan, inputs, AttrsOf(plan, node.right)[a][2], right[a], m2)
    BY <1>10, <1>11
  <2> QED BY <1>2, <1>4, <1>5, <1>7, <1>11, <1>16, <1>17, <2>1, <2>2, JoinOK
<1>19. Return(result) /\ UNCHANGED <<plan, inputs, next>> /\ status' = "done"
  <2>1. Join!Finish
    BY DEF FinishJoin
  <2>2. status' = "done"
    BY <2>1 DEF Join!Finish
  <2> QED BY <1>5, <1>6, <1>15, <1>17, <2>2 DEF FinishJoin
<1> QED
  BY <1>1, <1>4, <1>18, <1>19, ReturnResults
-----------------------------------------------------------------------------
(* The steps of materialize.                                               *)

LEMMA ColumnsOfAnswer ==
  ASSUME ResultsInv, phase # "execute"
  PROVE  /\ plan \in Plans /\ InputsOK(plan, inputs)
         /\ AnswerOK(plan, inputs, columns, next, ret)
         /\ Len(columns) \in Nat /\ DOMAIN columns = 1 .. Len(columns)
         /\ DOMAIN columns = DOMAIN AttrsOf(plan, plan.root)
         /\ AttrsOf(plan, plan.root) \in Seq(Nat \X DataTypes)
         /\ \E m \in Nat : \A c \in DOMAIN columns :
              GoodColumn(plan, inputs, AttrsOf(plan, plan.root)[c][2], columns[c], m)
<1>1. /\ plan \in Plans /\ InputsOK(plan, inputs) /\ IsSequence(columns)
      /\ AnswerOK(plan, inputs, columns, next, ret)
  BY DEF ResultsInv, IInv
<1>2. ResultOK(plan, inputs, plan.root, columns)
  BY <1>1 DEF AnswerOK
<1>3. DOMAIN columns = DOMAIN AttrsOf(plan, plan.root)
  BY <1>2 DEF ResultOK
<1>4. \E m \in Nat : \A c \in DOMAIN columns :
        GoodColumn(plan, inputs, AttrsOf(plan, plan.root)[c][2], columns[c], m)
  BY <1>2, <1>3 DEF ResultOK
<1>5. PICK S : columns \in Seq(S)
  BY <1>1 DEF IsSequence
<1>6. Len(columns) \in Nat /\ DOMAIN columns = 1 .. Len(columns)
  BY <1>5
<1>7. AttrsOf(plan, plan.root) \in Seq(Nat \X DataTypes)
  <2>1. PICK n : n = plan.root /\ n + 1 \in DOMAIN plan.nodes
    BY <1>1, PlansAssumption
  <2>2. Node(n).output_attrs \in Seq(Nat \X DataTypes)
    BY <1>1, <2>1, NodeOfPlan
  <2> QED BY <2>1, <2>2 DEF Node, AttrsOf
<1> QED
  BY <1>1, <1>3, <1>4, <1>6, <1>7

LEMMA StartResults ==
  ASSUME ResultsInv, StartThreads, IInv'
  PROVE  ResultsInv'
<1>1. /\ phase = "materialize" /\ next = <<>>
      /\ UNCHANGED <<plan, inputs, status, phase, columns, ret>>
  BY DEF StartThreads, joinVars
<1>2. PICK N \in Nat : N = Len(columns)
  BY <1>1, ColumnsOfAnswer
<1>3. PICK nxt : nxt = [tid \in Threads |-> StartColumn(tid, N)]
  OBVIOUS
<1>4. next' = nxt
  BY <1>2, <1>3 DEF StartThreads
<1>5. AnswerOK(plan, inputs, columns, next, ret)
  BY <1>1, ColumnsOfAnswer
<1>6. \A c : ~WrittenOut(nxt, N, c) \/ c \notin DOMAIN columns
  <2> SUFFICES ASSUME NEW c \in DOMAIN columns, NEW tid \in Threads,
                      c - 1 \in StartColumn(tid, N) .. nxt[tid] - 1
               PROVE  FALSE
    BY DEF WrittenOut
  <2>1. c \in Nat
    BY <1>1, ColumnsOfAnswer
  <2>2. nxt[tid] = StartColumn(tid, N) /\ StartColumn(tid, N) \in Nat
    BY <1>2, <1>3, RangeOfThread
  <2> QED BY <2>1, <2>2
<1>7. \A c : ~WrittenOut(next, N, c)
  BY <1>1 DEF WrittenOut
<1>8. AnswerOK(plan, inputs, columns, nxt, ret)
  BY <1>2, <1>5, <1>6, <1>7 DEF AnswerOK
<1>9. AnswerOK(plan, inputs, columns, next, ret)' /\ InputsOK(plan, inputs)'
  BY <1>1, <1>4, <1>8, ColumnsOfAnswer
<1>10. status # "running"
  BY <1>1 DEF ResultsInv
<1> QED
  BY <1>1, <1>9, <1>10 DEF ResultsInv

LEMMA WriteResults ==
  ASSUME ResultsInv, next # <<>>, NEW tid \in Threads, MaterializeColumn(tid), IInv'
  PROVE  ResultsInv'
<1>1. /\ phase = "materialize" /\ next[tid] < EndColumn(tid, Len(columns))
      /\ next' = [next EXCEPT ![tid] = @ + 1]
      /\ UNCHANGED <<plan, inputs, status, phase, columns>>
      /\ ThreadsInRange
  BY DEF MaterializeColumn, joinVars, ResultsInv, IInv
<1>2. /\ plan \in Plans /\ InputsOK(plan, inputs) /\ AnswerOK(plan, inputs, columns, next, ret)
      /\ DOMAIN columns = 1 .. Len(columns)
      /\ DOMAIN columns = DOMAIN AttrsOf(plan, plan.root)
      /\ AttrsOf(plan, plan.root) \in Seq(Nat \X DataTypes)
  BY <1>1, ColumnsOfAnswer
<1>3. PICK N \in Nat : N = Len(columns)
  BY <1>1, ColumnsOfAnswer
<1>4. PICK attrs : attrs = AttrsOf(plan, plan.root)
  OBVIOUS
<1>5. \A t \in Threads : /\ StartColumn(t, N) \in Nat /\ EndColumn(t, N) \in Nat
                         /\ next[t] \in StartColumn(t, N) .. EndColumn(t, N)
                         /\ EndColumn(t, N) <= N
  <2>1. \A t \in Threads : StartColumn(t, N) \in Nat /\ EndColumn(t, N) \in Nat /\ EndColumn(t, N) <= N
    BY <1>3, RangeOfThread
  <2> QED BY <1>1, <1>3, <2>1 DEF ThreadsInRange
<1>6. PICK c \in 1 .. N : c = next[tid] + 1 /\ c - 1 = next[tid] /\ c - 1 \in 0 .. N - 1
  <2>1. next[tid] \in Nat /\ next[tid] < N
    BY <1>1, <1>3, <1>5
  <2>2. next[tid] + 1 \in 1 .. N
    BY <2>1
  <2> QED BY <2>1, <2>2
<1>7. PICK nxt : nxt = [next EXCEPT ![tid] = @ + 1]
  OBVIOUS
<1>8. \A t \in Threads : nxt[t] = IF t = tid THEN c ELSE next[t]
  BY <1>1, <1>6, <1>7 DEF ThreadsInRange
<1>9. nxt # <<>>
  <2>1. tid \in DOMAIN nxt /\ tid \in DOMAIN next
    BY <1>1, <1>7 DEF ThreadsInRange
  <2>2. DOMAIN nxt = DOMAIN next /\ DOMAIN next = Threads
    BY <1>1, <1>7 DEF ThreadsInRange
  <2>3. DOMAIN <<>> = {}
    OBVIOUS
  <2> QED BY <2>1, <2>3
<1>10. ~WrittenOut(next, N, c)
  <2> SUFFICES ASSUME NEW t \in Threads, c - 1 \in StartColumn(t, N) .. next[t] - 1
               PROVE  FALSE
    BY DEF WrittenOut
  <2>1. c - 1 \in ThreadColumns(t, N)
    BY <1>5 DEF ThreadColumns
  <2>2. c - 1 \in ThreadColumns(tid, N)
    BY <1>1, <1>3, <1>5, <1>6 DEF ThreadColumns
  <2>3. t = tid
    BY <1>6, <2>1, <2>2, OneOwner
  <2> QED BY <1>5, <1>6, <2>3
<1>11. WrittenOut(nxt, N, c)
  <2>1. c - 1 \in StartColumn(tid, N) .. nxt[tid] - 1
    BY <1>5, <1>6, <1>8
  <2> QED BY <1>9, <2>1 DEF WrittenOut
<1>12. ASSUME NEW d \in 1 .. N, d # c
       PROVE  WrittenOut(nxt, N, d) <=> WrittenOut(next, N, d)
  <2>1. ASSUME NEW t \in Threads
        PROVE  d - 1 \in StartColumn(t, N) .. nxt[t] - 1 <=> d - 1 \in StartColumn(t, N) .. next[t] - 1
    <3>1. CASE t = tid
      <4>1. nxt[t] = c /\ next[t] = c - 1 /\ StartColumn(t, N) \in Nat
        BY <1>5, <1>6, <1>8, <3>1
      <4>2. d \in Nat /\ c \in Nat /\ d # c
        BY <1>12
      <4> QED BY <4>1, <4>2
    <3>2. CASE t # tid
      BY <1>8, <3>2
    <3> QED BY <3>1, <3>2
  <2> QED BY <1>9, <2>1 DEF WrittenOut
<1>13. PICK rows, old : ret = [num_rows |-> rows, columns |-> old] /\ rows = RowsOfAnswer(columns)
  BY <1>2 DEF AnswerOK
<1>14. /\ ResultOK(plan, inputs, plan.root, columns)
       /\ old = [d \in DOMAIN columns |-> old[d]]
       /\ \A d \in 1 .. N : old[d] = IF WrittenOut(next, N, d)
                                       THEN PagesFor(inputs, attrs[d][2], columns[d]) ELSE <<>>
  BY <1>2, <1>3, <1>4, <1>13 DEF AnswerOK
<1>15. PICK pages : pages = PagesFor(inputs, attrs[c][2], columns[c])
  OBVIOUS
<1>16. IsSequence(pages)
  <2>1. attrs[c] \in Nat \X DataTypes
    BY <1>2, <1>3, <1>4, <1>6
  <2>2. PICK type \in DataTypes : type = attrs[c][2]
    BY <2>1
  <2>3. PICK m : GoodColumn(plan, inputs, attrs[c][2], columns[c], m)
    BY <1>1, <1>2, <1>3, <1>4, <1>6, ColumnsOfAnswer
  <2>4. ExactPages(inputs, type, columns[c], PagesFor(inputs, type, columns[c]))
    BY <1>2, <2>2, <2>3, PagesForExact
  <2> QED BY <1>15, <2>2, <2>4 DEF ExactPages
<1>17. MaterializedPages(Types[c], columns[c]) = pages
  <2>1. Types[c] = attrs[c][2]
    BY <1>2, <1>3, <1>4, <1>6 DEF Types, AttrsOf, Node
  <2> QED BY <1>15, <2>1, MaterializedAre
<1>18. PICK new : new = [old EXCEPT ![c] = pages]
  OBVIOUS
<1>19. ret' = [num_rows |-> rows, columns |-> new]
  <2>1. old[c] = <<>>
    BY <1>6, <1>10, <1>14
  <2>2. <<>> \o pages = pages
    <3>1. PICK S : pages \in Seq(S)
      BY <1>16 DEF IsSequence
    <3> QED BY <3>1, ConcatEmptySeq
  <2>3. ret' = [ret EXCEPT !.columns[c] = @ \o pages]
    <3>1. ret' = [ret EXCEPT !.columns[next[tid] + 1] =
                    @ \o MaterializedPages(Types[next[tid] + 1], columns[next[tid] + 1])]
      BY DEF MaterializeColumn
    <3> QED BY <1>6, <1>17, <3>1
  <2>4. ret.columns[c] \o pages = pages
    BY <1>13, <2>1, <2>2
  <2>5. ret' = [ret EXCEPT !.columns[c] = pages]
    BY <2>3, <2>4
  <2> QED BY <1>13, <1>18, <2>5
<1>20. ret'.columns = new /\ ret' = [num_rows |-> rows, columns |-> ret'.columns]
  BY <1>19
<1>21. new = [d \in DOMAIN columns |-> new[d]]
  BY <1>14, <1>18
<1>22. ASSUME NEW d \in 1 .. N
       PROVE  new[d] = IF WrittenOut(nxt, N, d) THEN PagesFor(inputs, attrs[d][2], columns[d]) ELSE <<>>
  <2>1. CASE d = c
    <3>1. new[c] = pages
      BY <1>2, <1>3, <1>6, <1>14, <1>18
    <3> QED BY <1>11, <1>15, <2>1, <3>1
  <2>2. CASE d # c
    <3>1. new[d] = old[d]
      BY <1>2, <1>3, <1>14, <1>18, <2>2
    <3> QED BY <1>12, <1>14, <2>2, <3>1
  <2> QED BY <2>1, <2>2
<1>23. AnswerOK(plan, inputs, columns, nxt, ret')
  BY <1>2, <1>3, <1>4, <1>13, <1>14, <1>20, <1>21, <1>22 DEF AnswerOK
<1>24. AnswerOK(plan, inputs, columns, next, ret)' /\ InputsOK(plan, inputs)'
  BY <1>1, <1>2, <1>7, <1>23
<1>25. status # "running"
  BY <1>1 DEF ResultsInv
<1> QED
  BY <1>1, <1>24, <1>25 DEF ResultsInv

LEMMA JoinThreadsResults ==
  ASSUME ResultsInv, JoinThreads, IInv'
  PROVE  ResultsInv'
<1>1. /\ phase = "materialize" /\ phase' = "done" /\ UNCHANGED <<plan, inputs, status, columns, next, ret>>
      /\ Finished(next, Len(columns))
  BY DEF JoinThreads, joinVars, Finished
<1>2. AnswerOK(plan, inputs, columns, next, ret) /\ InputsOK(plan, inputs)
  BY <1>1, ColumnsOfAnswer
<1>3. /\ AnswerOK(plan, inputs, columns, next, ret)' /\ InputsOK(plan, inputs)'
      /\ Finished(next, Len(columns))'
  BY <1>1, <1>2
<1>4. status # "running"
  BY <1>1 DEF ResultsInv
<1> QED
  BY <1>1, <1>3, <1>4 DEF ResultsInv
-----------------------------------------------------------------------------
(* The answer.                                                             *)

LEMMA ResultsStep == ResultsInv /\ [Next]_vars => ResultsInv'
<1> SUFFICES ASSUME ResultsInv, [Next]_vars PROVE ResultsInv'
  OBVIOUS
<1>1. IInv'
  BY InvStep DEF ResultsInv
<1>2. CASE execute_scan
  BY <1>1, <1>2, ScanResults
<1>3. CASE CallChild
  BY <1>1, <1>3, CallResults
<1>4. CASE BeginJoin
  BY <1>1, <1>4, BeginResults
<1>5. CASE FinishJoin
  BY <1>1, <1>5, FinishResults
<1>6. CASE StartThreads
  BY <1>1, <1>6, StartResults
<1>7. CASE JoinThreads
  BY <1>1, <1>7, JoinThreadsResults
<1>8. CASE next # <<>> /\ \E tid \in Threads : MaterializeColumn(tid)
  BY <1>1, <1>8, WriteResults
<1>9. CASE UNCHANGED vars
  <2>1. UNCHANGED <<plan, inputs, stack, status, job, phase, columns, next, ret>>
    BY <1>9 DEF vars, joinVars
  <2>2. Top' = Top
    BY <2>1 DEF Top
  <2>3. /\ InputsOK(plan, inputs)' <=> InputsOK(plan, inputs)
        /\ CallsMatch(plan, inputs, stack)' <=> CallsMatch(plan, inputs, stack)
        /\ JoinRuns(plan, Top, job)' <=> JoinRuns(plan, Top, job)
        /\ AnswerOK(plan, inputs, columns, next, ret)' <=> AnswerOK(plan, inputs, columns, next, ret)
        /\ Finished(next, Len(columns))' <=> Finished(next, Len(columns))
    BY <2>1, <2>2
  <2> QED BY <1>1, <2>1, <2>3 DEF ResultsInv
<1> QED
  BY <1>2, <1>3, <1>4, <1>5, <1>6, <1>7, <1>8, <1>9 DEF Next

LEMMA AnswerExact == ResultsInv => ResultExact
<1> SUFFICES ASSUME ResultsInv, phase = "done", NEW c \in DOMAIN columns
             PROVE  /\ ret.num_rows = columns[c].num_rows
                    /\ ShortBitmap(ret.columns[c]) \/ ReadsBack(c)
  BY DEF ResultExact
<1>1. /\ plan \in Plans /\ InputsOK(plan, inputs) /\ AnswerOK(plan, inputs, columns, next, ret)
      /\ DOMAIN columns = 1 .. Len(columns)
      /\ DOMAIN columns = DOMAIN AttrsOf(plan, plan.root)
      /\ AttrsOf(plan, plan.root) \in Seq(Nat \X DataTypes)
      /\ \E m \in Nat : \A d \in DOMAIN columns :
              GoodColumn(plan, inputs, AttrsOf(plan, plan.root)[d][2], columns[d], m)
  BY ColumnsOfAnswer
<1>2. PICK N \in Nat : N = Len(columns)
  BY ColumnsOfAnswer
<1>3. PICK attrs : attrs = AttrsOf(plan, plan.root)
  OBVIOUS
<1>4. PICK m \in Nat : \A d \in DOMAIN columns : GoodColumn(plan, inputs, attrs[d][2], columns[d], m)
  BY <1>1, <1>3
<1>5. c \in 1 .. N /\ 1 \in 1 .. N
  BY <1>1, <1>2
<1>6. PICK type \in DataTypes : type = attrs[c][2]
  <2>1. attrs[c] \in Nat \X DataTypes
    BY <1>1, <1>3
  <2>2. attrs[c][2] \in DataTypes
    BY <2>1
  <2> QED BY <2>2
<1>7. GoodColumn(plan, inputs, type, columns[c], m)
  BY <1>4, <1>6
<1>8. ret.num_rows = columns[c].num_rows
  <2>1. columns[1].num_rows = m /\ columns[c].num_rows = m
    BY <1>1, <1>2, <1>4, <1>5 DEF GoodColumn
  <2>2. columns # <<>>
    <3>1. DOMAIN <<>> = {}
      OBVIOUS
    <3> QED BY <3>1
  <2>3. PICK rows, pages : ret = [num_rows |-> rows, columns |-> pages] /\ rows = RowsOfAnswer(columns)
    BY <1>1 DEF AnswerOK
  <2> QED BY <2>1, <2>2, <2>3 DEF RowsOfAnswer
<1>9. WrittenOut(next, N, c)
  <2>1. c - 1 \in 0 .. N - 1
    BY <1>5
  <2>2. PICK tid \in Threads : c - 1 \in ThreadColumns(tid, N)
    BY <2>1, OwnerHas
  <2>3. Finished(next, N)
    BY <1>2 DEF ResultsInv
  <2>4. IInv
    BY DEF ResultsInv
  <2>5. next # <<>> /\ next[tid] >= EndColumn(tid, N) /\ ThreadsInRange
    BY <2>3, <2>4 DEF Finished, IInv
  <2>6. /\ StartColumn(tid, N) \in Nat /\ EndColumn(tid, N) \in Nat
        /\ next[tid] \in StartColumn(tid, N) .. EndColumn(tid, N)
    BY <1>2, <2>5, RangeOfThread DEF ThreadsInRange
  <2>7. next[tid] = EndColumn(tid, N)
    BY <2>5, <2>6
  <2> QED BY <2>2, <2>5, <2>7 DEF WrittenOut, ThreadColumns
<1>10. PICK pages : pages = PagesFor(inputs, type, columns[c])
  OBVIOUS
<1>11. ret.columns[c] = pages
  BY <1>1, <1>2, <1>3, <1>6, <1>9, <1>10 DEF AnswerOK
<1>12. ExactPages(inputs, type, columns[c], pages)
  BY <1>1, <1>7, <1>10, PagesForExact
<1>13. Types[c] = type
  BY <1>3, <1>6 DEF Types, AttrsOf, Node
<1>14. Values(Types[c], columns[c]) = ValuesFor(inputs, type, columns[c])
  BY <1>13, MaterializedAre
<1>15. ShortBitmap(ret.columns[c]) \/ ReadsBack(c)
  BY <1>11, <1>12, <1>13, <1>14 DEF ExactPages, ReadsBack
<1> QED
  BY <1>8, <1>15

\* The calls, the join that runs and the table that is returned agree with one
\* another: every result is that of the child whose turn it was, and has as many
\* references to strings and key values as its node says.
THEOREM ResultsInvariant == Spec => []ResultsInv
  BY InitResults, ResultsStep, PTL DEF Spec

\* Every column of the answer has as many rows as the answer, and is read back from
\* its pages, value by value, as the column of the root: whatever the plan, the
\* sizes of pages and the number of threads, and whether the column was copied or
\* is that of a base table; but for the bitmaps that unset_bitmap leaves too short.
THEOREM ResultIsExact == Spec => []ResultExact
  BY ResultsInvariant, AnswerExact, PTL
-----------------------------------------------------------------------------
(* Pages of strings: where they begin, and where the long ones go on.      *)

\* The end offsets of a page never fall.
Rising(items) == \A k, l \in DOMAIN items : k <= l => items[k] <= items[l]

\* The other pages of a long string come right after its first page.
TextPages(pages) ==
  \A k \in DOMAIN pages :
    /\ IsText(pages[k]) => Rising(pages[k].items)
    /\ pages[k].rows = RestHeader => k # 1 /\ ~IsText(pages[k - 1])

LEMMA TextPagesAppend ==
  ASSUME NEW a, IsSequence(a), TextPages(a), NEW p, IsText(p), Rising(p.items)
  PROVE  TextPages(Append(a, p))
<1>1. PICK S : a \in Seq(S)
  BY DEF IsSequence
<1>2. PICK n \in Nat : n = Len(a) /\ DOMAIN a = 1 .. n
  BY <1>1
<1>3. PICK b : b = Append(a, p)
  OBVIOUS
<1>4. DOMAIN b = 1 .. n + 1 /\ b[n + 1] = p /\ \A k \in 1 .. n : b[k] = a[k]
  BY <1>1, <1>2, <1>3
<1>5. p.rows # RestHeader
  BY DEF IsText
<1>6. ASSUME NEW k \in 1 .. n + 1
      PROVE  /\ IsText(b[k]) => Rising(b[k].items)
             /\ b[k].rows = RestHeader => k # 1 /\ ~IsText(b[k - 1])
  <2>1. CASE k = n + 1
    BY <1>4, <1>5, <2>1
  <2>2. CASE k # n + 1
    <3>1. k \in 1 .. n /\ b[k] = a[k]
      BY <1>4, <2>2
    <3>2. k # 1 => b[k - 1] = a[k - 1]
      BY <1>4, <3>1
    <3> QED BY <1>2, <3>1, <3>2 DEF TextPages
  <2> QED BY <2>1, <2>2
<1> QED
  BY <1>3, <1>4, <1>6 DEF TextPages

LEMMA LongPagesAre ==
  ASSUME NEW s \in Seq(Int), s # <<>>
  PROVE  \E K \in Nat \ {0} :
           /\ DOMAIN LongPages(s) = 1 .. K
           /\ \A k \in 1 .. K : LongPages(s)[k].rows = IF k = 1 THEN LongHeader ELSE RestHeader
<1> DEFINE B == PieceBytes
           K == (Len(s) + B - 1) \div B
<1>1. B \in Nat \ {0}
  BY PageSizes DEF PieceBytes, HeaderBytes
<1>2. PICK n \in Nat \ {0} : n = Len(s)
  BY EmptySeq
<1> HIDE DEF B
<1>3. K \in Nat \ {0}
  BY <1>1, <1>2, Pieces
<1>4. /\ DOMAIN LongPages(s) = 1 .. K
      /\ \A k \in 1 .. K : LongPages(s)[k].rows = IF k = 1 THEN LongHeader ELSE RestHeader
  BY DEF LongPages, B
<1> QED
  BY <1>3, <1>4

LEMMA TextPagesLong ==
  ASSUME NEW a, IsSequence(a), TextPages(a), NEW s \in Seq(Int), s # <<>>
  PROVE  TextPages(a \o LongPages(s))
<1>1. PICK L : L = LongPages(s)
  OBVIOUS
<1>2. PICK K \in Nat \ {0} :
        /\ DOMAIN L = 1 .. K
        /\ \A k \in 1 .. K : L[k].rows = IF k = 1 THEN LongHeader ELSE RestHeader
  BY <1>1, LongPagesAre
<1>3. \A k \in 1 .. K : ~IsText(L[k])
  BY <1>2 DEF IsText
<1>4. PICK S, T : a \in Seq(S) /\ L \in Seq(T)
  BY <1>1, LongPagesShape DEF IsSequence
<1>5. PICK n \in Nat : n = Len(a) /\ DOMAIN a = 1 .. n /\ Len(L) = K
  BY <1>2, <1>4
<1>6. PICK b : b = a \o L
  OBVIOUS
<1>7. /\ DOMAIN b = 1 .. n + K
      /\ \A k \in 1 .. n : b[k] = a[k]
      /\ \A k \in 1 .. n + K : k > n => k - n \in 1 .. K /\ b[k] = L[k - n]
  <2>1. a \in Seq(S \cup T) /\ L \in Seq(S \cup T)
    BY <1>4
  <2>2. /\ DOMAIN b = 1 .. n + K
        /\ \A k \in 1 .. n + K : b[k] = IF k <= n THEN a[k] ELSE L[k - n]
    <3>1. /\ Len(a \o L) = n + K
          /\ \A k \in 1 .. n + K : (a \o L)[k] = IF k <= n THEN a[k] ELSE L[k - n]
      BY <1>5, <2>1, ConcatProperties
    <3>2. a \o L \in Seq(S \cup T)
      BY <2>1
    <3>3. DOMAIN b = 1 .. Len(a \o L)
      BY <1>6, <3>2
    <3> QED BY <1>6, <3>1, <3>3
  <2>3. \A k \in 1 .. n : k \in 1 .. n + K /\ k <= n
    OBVIOUS
  <2>4. \A k \in 1 .. n + K : k > n => k - n \in 1 .. K /\ ~(k <= n)
    OBVIOUS
  <2> QED BY <2>2, <2>3, <2>4
<1>8. ASSUME NEW k \in 1 .. n + K
      PROVE  /\ IsText(b[k]) => Rising(b[k].items)
             /\ b[k].rows = RestHeader => k # 1 /\ ~IsText(b[k - 1])
  <2>1. CASE k <= n
    <3>1. k \in 1 .. n /\ b[k] = a[k]
      BY <1>7, <2>1
    <3>2. k # 1 => b[k - 1] = a[k - 1]
      BY <1>7, <3>1
    <3> QED BY <1>5, <3>1, <3>2 DEF TextPages
  <2>2. CASE k > n
    <3>1. PICK l \in 1 .. K : l = k - n /\ b[k] = L[l]
      BY <1>7, <2>2
    <3>2. ~IsText(b[k])
      BY <1>3, <3>1
    <3>3. ASSUME b[k].rows = RestHeader
          PROVE  k # 1 /\ ~IsText(b[k - 1])
      <4>1. l # 1
        BY <1>2, <3>1, <3>3 DEF RestHeader, LongHeader
      <4>2. k - 1 \in 1 .. n + K /\ k - 1 > n /\ k # 1 /\ l - 1 \in 1 .. K /\ (k - 1) - n = l - 1
        BY <3>1, <4>1
      <4>3. b[k - 1] = L[l - 1]
        BY <1>7, <4>2
      <4> QED BY <1>3, <4>2, <4>3
    <3> QED BY <3>2, <3>3
  <2> QED BY <2>1, <2>2
<1> QED
  BY <1>1, <1>6, <1>7, <1>8 DEF TextPages

\* The pages so far, and the one that is being written.
TextSoFar(w, done) ==
  VectorsOK(Int, "VARCHAR", TRUE, w, done) /\ TextPages(w.pages) /\ Rising(w.items)

LEMMA SavedText ==
  ASSUME NEW w, NEW done, TextSoFar(w, done)
  PROVE  TextSoFar(SaveVectors(w), done)
<1>1. PICK n : n = SaveVectors(w)
  OBVIOUS
<1>2. PICK p : p = PageOf(w, w.bytes)
  OBVIOUS
<1>3. n.pages = Append(w.pages, p) /\ n.items = <<>>
  BY <1>1, <1>2, SavedWriter
<1>4. p.rows = w.rows /\ p.items = w.items
  BY <1>2 DEF PageOf
<1>5. VectorsOK(Int, "VARCHAR", TRUE, w, done)
  BY DEF TextSoFar
<1>6. VectorsOK(Int, "VARCHAR", TRUE, n, done)
  <2>1. "VARCHAR" \in DataTypes /\ TRUE \in BOOLEAN
    BY DEF DataTypes
  <2> QED BY <1>1, <1>5, <2>1, SaveVectorsOK
<1>7. IsText(p)
  <2>1. /\ w.rows \in Nat /\ Consistent(Int, "VARCHAR", w)
        /\ DataEnd("VARCHAR", w) + Bytes(w.rows) <= PageSize
    BY <1>5 DEF VectorsOK, Consistent
  <2>2. DataEnd("VARCHAR", w) \in Nat /\ DataEnd("VARCHAR", w) >= 4
    BY <2>1, ConsistentLengths, EndOfData
  <2>3. Bytes(w.rows) \in Nat
    BY <2>1, BytesOfRows
  <2>4. Bytes(w.rows) <= PageSize - 4
    BY <2>1, <2>2, <2>3, PageSizes
  <2>5. w.rows < 65534
    BY <2>1, <2>4, RowsAreNoHeader
  <2> QED BY <1>4, <2>1, <2>5 DEF IsText, LongHeader, RestHeader
<1>8. TextPages(n.pages)
  <2>1. IsSequence(w.pages) /\ TextPages(w.pages) /\ Rising(p.items)
    BY <1>4, <1>5 DEF TextSoFar, VectorsOK
  <2> QED BY <1>3, <1>7, <2>1, TextPagesAppend
<1>9. Rising(n.items)
  <2>1. DOMAIN <<>> = {}
    OBVIOUS
  <2> QED BY <1>3, <2>1 DEF Rising
<1> QED
  BY <1>1, <1>6, <1>8, <1>9 DEF TextSoFar

LEMMA RisingMore ==
  ASSUME NEW items \in Seq(Nat), Rising(items), NEW e \in Nat,
         \A k \in 1 .. Len(items) : items[k] <= e
  PROVE  Rising(Append(items, e))
<1>1. PICK n \in Nat : n = Len(items) /\ DOMAIN items = 1 .. n
  OBVIOUS
<1>2. PICK b : b = Append(items, e)
  OBVIOUS
<1>3. DOMAIN b = 1 .. n + 1 /\ b[n + 1] = e /\ \A k \in 1 .. n : b[k] = items[k]
  BY <1>1, <1>2
<1>4. ASSUME NEW k \in 1 .. n + 1, NEW l \in 1 .. n + 1, k <= l
      PROVE  b[k] <= b[l]
  <2>1. CASE k = n + 1
    <3>1. l = n + 1
      BY <1>4, <2>1
    <3> QED BY <1>3, <2>1, <3>1
  <2>2. CASE k # n + 1 /\ l = n + 1
    <3>1. k \in 1 .. n
      BY <2>2
    <3> QED BY <1>1, <1>3, <2>2, <3>1
  <2>3. CASE k # n + 1 /\ l # n + 1
    <3>1. k \in 1 .. n /\ l \in 1 .. n
      BY <2>3
    <3> QED BY <1>1, <1>3, <1>4, <3>1 DEF Rising
  <2> QED BY <2>1, <2>2, <2>3
<1> QED
  BY <1>2, <1>3, <1>4 DEF Rising

LEMMA PutText ==
  ASSUME NEW w, NEW done, TextSoFar(w, done), NEW v, v = Null \/ v \in Seq(Int)
  PROVE  TextSoFar(Put("VARCHAR", w, v, TRUE), Append(done, v))
<1>1. PICK n : n = Put("VARCHAR", w, v, TRUE)
  OBVIOUS
<1>2. "VARCHAR" \in DataTypes /\ TRUE \in BOOLEAN /\ "VARCHAR" # "INT32"
  BY DEF DataTypes
<1>3. VectorsOK(Int, "VARCHAR", TRUE, w, done)
  BY DEF TextSoFar
<1>4. VectorsOK(Int, "VARCHAR", TRUE, n, Append(done, v))
  <2>1. v = Null \/ ValueIn(Int, "VARCHAR", v)
    BY DEF ValueIn
  <2> QED BY <1>1, <1>2, <1>3, <2>1, PutOK
<1>5. ASSUME NEW extra, NEW u, u = SpaceFor("VARCHAR", w, extra)
      PROVE  TextSoFar(u, done)
  BY <1>5, SavedText DEF SpaceFor
<1>6. CASE v = Null
  <2>1. PICK u : u = SpaceFor("VARCHAR", w, 0)
    OBVIOUS
  <2>2. n = [unset_bitmap(u, TRUE) EXCEPT !.rows = @ + 1]
    BY <1>1, <1>6, <2>1 DEF Put, PutNull, SpaceFor
  <2>3. TextSoFar(u, done)
    BY <1>5, <2>1
  <2>4. IsWriter(u)
    BY <2>3 DEF TextSoFar, VectorsOK
  <2>5. n.pages = u.pages /\ n.items = u.items
    <3>1. PICK g, r, i, c, t, y :
            u = [pages |-> g, rows |-> r, items |-> i, chars |-> c, bits |-> t, bytes |-> y]
      BY <2>4 DEF IsWriter
    <3>2. PICK m : m = unset_bitmap(u, TRUE)
      OBVIOUS
    <3>3. PICK z : m = [pages |-> g, rows |-> r, items |-> i, chars |-> c, bits |-> t, bytes |-> z]
      <4>1. CASE u.bytes <= u.rows \div ByteBits
        BY <3>1, <3>2, <4>1 DEF unset_bitmap, grow_bitmap
      <4>2. CASE ~(u.bytes <= u.rows \div ByteBits)
        BY <3>1, <3>2, <4>2 DEF unset_bitmap, grow_bitmap
      <4> QED BY <4>1, <4>2
    <3>4. n = [m EXCEPT !.rows = @ + 1]
      BY <2>2, <3>2
    <3>5. n = [pages |-> g, rows |-> r + 1, items |-> i, chars |-> c, bits |-> t, bytes |-> z]
      BY <3>3, <3>4
    <3> QED BY <3>1, <3>5
  <2> QED BY <1>1, <1>4, <2>3, <2>5 DEF TextSoFar
<1>7. CASE v # Null /\ IsLong(v)
  <2>1. v \in Seq(Int) /\ v # <<>>
    <3>1. v \in Seq(Int) /\ Len(v) > PageSize - 7
      BY <1>7 DEF IsLong
    <3>2. Len(v) \in Nat /\ Len(v) > 0
      BY <3>1, PageSizes
    <3> QED BY <3>1, <3>2
  <2>2. PICK u : u = IF w.rows > 0 THEN SaveVectors(w) ELSE w
    OBVIOUS
  <2>3. TextSoFar(u, done)
    BY <2>2, SavedText
  <2>4. n = [u EXCEPT !.pages = @ \o LongPages(v)]
    BY <1>1, <1>2, <1>7, <2>2 DEF Put, PutString
  <2>5. IsWriter(u) /\ IsSequence(u.pages)
    BY <2>3 DEF TextSoFar, VectorsOK
  <2>6. PICK g : g = u.pages \o LongPages(v)
    OBVIOUS
  <2>7. n.pages = g /\ n.items = u.items
    BY <2>4, <2>5, <2>6 DEF IsWriter
  <2>8. TextPages(g)
    BY <2>1, <2>3, <2>5, <2>6, TextPagesLong DEF TextSoFar
  <2> QED BY <1>1, <1>4, <2>3, <2>7, <2>8 DEF TextSoFar
<1>8. CASE v # Null /\ ~IsLong(v)
  <2>1. PICK u : u = SpaceFor("VARCHAR", w, 2 + Len(v))
    OBVIOUS
  <2>2. n = AddValue("VARCHAR", set_bitmap(u), v)
    BY <1>1, <1>2, <1>8, <2>1 DEF Put, PutString, SpaceFor
  <2>3. TextSoFar(u, done)
    BY <1>5, <2>1
  <2>4. IsWriter(u) /\ Consistent(Int, "VARCHAR", u)
    BY <2>3 DEF TextSoFar, VectorsOK
  <2>5. ValueSet("VARCHAR", n, u, v)
    BY <1>2, <2>2, <2>4, AddedWriter
  <2>6. n.pages = u.pages /\ n.items = Append(u.items, Len(u.chars) + Len(v))
    BY <1>2, <2>5 DEF ValueSet
  <2>7. PICK items \in Seq(Nat), e \in Nat :
          /\ items = u.items /\ e = Len(u.chars) + Len(v)
          /\ \A k \in 1 .. Len(items) : items[k] <= e
    <3>1. /\ u.items \in Seq(Nat) /\ u.chars \in Seq(Int)
          /\ \A k \in 1 .. Len(u.items) : u.items[k] <= Len(u.chars)
      BY <1>2, <2>4 DEF Consistent
    <3>2. PICK items \in Seq(Nat) : items = u.items
      BY <3>1
    <3>3. PICK a \in Nat, b \in Nat : a = Len(u.chars) /\ b = Len(v)
      BY <1>8, <3>1
    <3>4. \A k \in 1 .. Len(items) : items[k] \in Nat /\ items[k] <= a
      BY <3>1, <3>2, <3>3
    <3>5. \A k \in 1 .. Len(items) : items[k] <= a + b
      BY <3>4
    <3>6. a + b \in Nat /\ a + b = Len(u.chars) + Len(v)
      BY <3>3
    <3> QED BY <3>2, <3>5, <3>6
  <2>8. Rising(n.items)
    BY <2>3, <2>6, <2>7, RisingMore DEF TextSoFar
  <2>9. TextPages(n.pages)
    BY <2>3, <2>6 DEF TextSoFar
  <2> QED BY <1>1, <1>4, <2>8, <2>9 DEF TextSoFar
<1> QED
  BY <1>6, <1>7, <1>8

LEMMA TextWritten ==
  ASSUME NEW values, IsSequence(values),
         \A i \in DOMAIN values : values[i] = Null \/ values[i] \in Seq(Int)
  PROVE  TextPages(WriteColumn("VARCHAR", values, TRUE))
<1>1. PICK V : values \in Seq(V)
  BY DEF IsSequence
<1>2. PICK M \in Nat : M = Len(values) /\ DOMAIN values = 1 .. M
  BY <1>1
<1>3. PICK o : o = Putting("VARCHAR", TRUE)
  OBVIOUS
<1>4. "VARCHAR" \in DataTypes /\ TRUE \in BOOLEAN
  BY DEF DataTypes
<1> DEFINE first(n) == SubSeq(values, 1, n)
           T == { n \in Nat : n <= M => TextSoFar(Fold(o, NewWriter, first(n)), first(n)) }
<1>5. 0 \in T
  <2>1. first(0) = <<>>
    OBVIOUS
  <2>2. Fold(o, NewWriter, <<>>) = NewWriter
    BY FoldEmpty
  <2>3. VectorsOK(Int, "VARCHAR", TRUE, NewWriter, <<>>)
    BY <1>4, NothingWritten
  <2>4. TextPages(NewWriter.pages) /\ Rising(NewWriter.items)
    <3>1. NewWriter.items = <<>> /\ NewWriter.pages = <<>>
      BY DEF NewWriter
    <3>2. DOMAIN <<>> = {}
      OBVIOUS
    <3> QED BY <3>1, <3>2 DEF TextPages, Rising
  <2> QED BY <2>1, <2>2, <2>3, <2>4 DEF TextSoFar
<1>6. ASSUME NEW n \in Nat, n \in T
      PROVE  n + 1 \in T
  <2> SUFFICES ASSUME n + 1 <= M
               PROVE  TextSoFar(Fold(o, NewWriter, first(n + 1)), first(n + 1))
    OBVIOUS
  <2>1. first(n + 1) = Append(first(n), values[n + 1]) /\ first(n) \in Seq(V)
    BY <1>1, <1>2, FirstPages
  <2>2. TextSoFar(Fold(o, NewWriter, first(n)), first(n))
    BY <1>6
  <2>3. n + 1 \in DOMAIN values
    BY <1>2
  <2>4. PICK v : v = values[n + 1] /\ (v = Null \/ v \in Seq(Int))
    BY <2>3
  <2>5. PICK w : w = Fold(o, NewWriter, first(n))
    OBVIOUS
  <2> HIDE DEF first
  <2>6. Fold(o, NewWriter, Append(first(n), v)) = Step(o, w, v)
    BY <2>1, <2>5, FoldLast
  <2>7. Step(o, w, v) = Put("VARCHAR", w, v, TRUE)
    BY <1>3 DEF Step, Putting
  <2>8. TextSoFar(Put("VARCHAR", w, v, TRUE), Append(first(n), v))
    BY <2>2, <2>4, <2>5, PutText
  <2> QED BY <2>1, <2>4, <2>6, <2>7, <2>8
<1>7. M \in T
  <2> HIDE DEF T
  <2> QED BY <1>5, <1>6, Induction
<1>8. first(M) = values
  BY <1>1, <1>2, SubSeqFull
<1>9. PICK w : w = Fold(o, NewWriter, values)
  OBVIOUS
<1>10. TextSoFar(w, values)
  <2> HIDE DEF first
  <2>1. TextSoFar(Fold(o, NewWriter, first(M)), first(M))
    BY <1>7
  <2> QED BY <1>8, <1>9, <2>1
<1> HIDE DEF T, first
<1>11. FoldLeft(LAMBDA u, v : Put("VARCHAR", u, v, TRUE), NewWriter, values) = w
  BY <1>3, <1>9, PutsAre
<1>12. PICK e : e = IF w.rows # 0 THEN SaveVectors(w) ELSE w
  OBVIOUS
<1>13. WriteColumn("VARCHAR", values, TRUE) = e.pages
  BY <1>11, <1>12 DEF WriteColumn
<1>14. TextSoFar(e, values)
  BY <1>10, <1>12, SavedText
<1> QED
  BY <1>13, <1>14 DEF TextSoFar
-----------------------------------------------------------------------------
(* The strings that were written, and where they are found again.          *)

LEMMA FlatNothing == FlattenSeq(<<>>) = <<>>
<1>1. PICK e : e = <<>> /\ Len(e) = 0
  OBVIOUS
<1>2. FlattenSeq(e) = e
  BY <1>1 DEF FlattenSeq
<1> QED
  BY <1>1, <1>2

\* One more sequence comes after the others.
LEMMA FlatMore ==
  ASSUME NEW S, NEW ss \in Seq(Seq(S)), NEW x \in Seq(S)
  PROVE  FlattenSeq(Append(ss, x)) = FlattenSeq(ss) \o x
<1>1. PICK n \in Nat : n = Len(ss)
  OBVIOUS
<1>2. PICK tt : tt = Append(ss, x)
  OBVIOUS
<1>3. /\ Len(tt) = n + 1 /\ tt[n + 1] = x
      /\ \A i \in 1 .. n : tt[i] = ss[i]
  BY <1>1, <1>2
<1>4. PICK g : Flat(g, tt, n + 1) /\ FlattenSeq(tt) = g[n + 1]
  <2>1. Len(tt) \in Nat /\ Len(tt) # 0
    BY <1>3
  <2> QED BY <1>3, <2>1, FlatIs
<1>5. \A i \in 1 .. n + 1 : g[i] = IF i = 1 THEN tt[i] ELSE g[i - 1] \o tt[i]
  BY <1>4 DEF Flat
<1>6. CASE n = 0
  <2>1. ss = <<>>
    <3>1. Len(ss) = 0
      BY <1>1, <1>6
    <3> QED BY <3>1, EmptySeq
  <2>2. g[n + 1] = x
    BY <1>3, <1>5, <1>6
  <2>3. <<>> \o x = x
    BY ConcatEmptySeq
  <2> QED BY <1>2, <1>4, <2>1, <2>2, <2>3, FlatNothing
<1>7. CASE n # 0
  <2>1. PICK f : Flat(f, ss, n) /\ FlattenSeq(ss) = f[n]
    BY <1>1, <1>7, FlatIs
  <2>2. \A i \in 1 .. n : f[i] = IF i = 1 THEN ss[i] ELSE f[i - 1] \o ss[i]
    BY <2>1 DEF Flat
  <2> DEFINE T == { i \in Nat : i \in 1 .. n => f[i] = g[i] }
  <2>3. 0 \in T
    OBVIOUS
  <2>4. ASSUME NEW i \in Nat, i \in T PROVE i + 1 \in T
    <3> SUFFICES ASSUME i + 1 \in 1 .. n PROVE f[i + 1] = g[i + 1]
      OBVIOUS
    <3>1. ss[i + 1] = tt[i + 1] /\ i + 1 \in 1 .. n + 1
      BY <1>3
    <3>2. CASE i = 0
      BY <1>5, <2>2, <3>1, <3>2
    <3>3. CASE i # 0
      <4>1. i \in 1 .. n
        BY <3>3
      <4>2. f[i] = g[i]
        BY <2>4, <4>1
      <4>3. f[i + 1] = f[i] \o ss[i + 1]
        <5>1. i + 1 # 1 /\ (i + 1) - 1 = i
          BY <3>3
        <5> QED BY <2>2, <5>1
      <4>4. g[i + 1] = g[i] \o tt[i + 1]
        <5>1. i + 1 # 1 /\ (i + 1) - 1 = i
          BY <3>3
        <5> QED BY <1>5, <3>1, <5>1
      <4> QED BY <3>1, <4>2, <4>3, <4>4
    <3> QED BY <3>2, <3>3
  <2> HIDE DEF T
  <2>5. \A i \in Nat : i \in T
    BY <2>3, <2>4, Induction
  <2>6. f[n] = g[n]
    BY <1>7, <2>5 DEF T
  <2>7. g[n + 1] = g[n] \o x
    <3>1. n + 1 # 1 /\ (n + 1) - 1 = n /\ n + 1 \in 1 .. n + 1
      BY <1>7
    <3> QED BY <1>3, <1>5, <3>1
  <2> QED BY <1>2, <1>4, <2>1, <2>6, <2>7
<1> QED
  BY <1>6, <1>7

\* The characters on pages j to e.
CharsOf(pages, j, e) == FlattenSeq([k \in 1 .. e + 1 - j |-> pages[j + k - 1].chars])

LEMMA CharsMore ==
  ASSUME NEW pages, NEW n \in Nat, \A k \in 1 .. n : pages[k].chars \in Seq(Int),
         NEW j \in 1 .. n, NEW e \in j .. n
  PROVE  /\ CharsOf(pages, j, j) = pages[j].chars
         /\ e + 1 <= n => CharsOf(pages, j, e + 1) = CharsOf(pages, j, e) \o pages[e + 1].chars
<1> DEFINE parts(a) == [k \in 1 .. a |-> pages[j + k - 1].chars]
<1>1. ASSUME NEW a \in Nat, j + a - 1 <= n
      PROVE  parts(a) \in Seq(Seq(Int))
  <2>1. ASSUME NEW k \in 1 .. a
        PROVE  pages[j + k - 1].chars \in Seq(Int)
    <3>1. j + k - 1 \in 1 .. n
      BY <1>1
    <3> QED BY <3>1
  <2>2. parts(a) \in [1 .. a -> Seq(Int)]
    BY <2>1
  <2> HIDE DEF parts
  <2> QED BY <2>2, SeqDef
<1>2. ASSUME NEW a \in Nat, j + a <= n
      PROVE  FlattenSeq(parts(a + 1)) = FlattenSeq(parts(a)) \o pages[j + a].chars
  <2>1. j + a \in 1 .. n /\ j + a - 1 <= n
    BY <1>2
  <2>2. PICK ss \in Seq(Seq(Int)), x \in Seq(Int) : ss = parts(a) /\ x = pages[j + a].chars
    <3> HIDE DEF parts
    <3> QED BY <1>1, <2>1
  <2>3. DOMAIN ss = 1 .. a /\ Len(ss) = a /\ \A k \in 1 .. a : ss[k] = pages[j + k - 1].chars
    <3>1. DOMAIN ss = 1 .. a /\ \A k \in 1 .. a : ss[k] = pages[j + k - 1].chars
      BY <2>2
    <3> QED BY <3>1
  <2>4. PICK tt : tt = Append(ss, x)
    OBVIOUS
  <2>5. tt \in Seq(Seq(Int)) /\ Len(tt) = a + 1 /\ tt[a + 1] = x /\ \A k \in 1 .. a : tt[k] = ss[k]
    BY <2>3, <2>4
  <2>6. tt = [k \in 1 .. a + 1 |-> tt[k]]
    BY <2>5
  <2>7. ASSUME NEW k \in 1 .. a + 1
        PROVE  tt[k] = pages[j + k - 1].chars
    <3>1. CASE k = a + 1
      <4>1. j + k - 1 = j + a
        BY <3>1
      <4> QED BY <2>2, <2>5, <3>1, <4>1
    <3>2. CASE k # a + 1
      <4>1. k \in 1 .. a
        BY <3>2
      <4> QED BY <2>3, <2>5, <4>1
    <3> QED BY <3>1, <3>2
  <2>8. tt = parts(a + 1)
    BY <2>6, <2>7
  <2>9. FlattenSeq(tt) = FlattenSeq(ss) \o x
    BY <2>4, FlatMore
  <2> HIDE DEF parts
  <2> QED BY <2>2, <2>8, <2>9
<1>3. \A b \in Int : CharsOf(pages, j, b) = FlattenSeq(parts(b + 1 - j))
  BY DEF CharsOf
<1>4. parts(0) = <<>>
  <2>1. 1 .. 0 = {}
    OBVIOUS
  <2>2. DOMAIN parts(0) = {} /\ parts(0) \in Seq(Seq(Int))
    <3>1. j + 0 - 1 <= n
      OBVIOUS
    <3> QED BY <1>1, <2>1, <3>1
  <2> HIDE DEF parts
  <2> QED BY <2>2
<1> HIDE DEF parts
<1>5. CharsOf(pages, j, j) = pages[j].chars
  <2>1. FlattenSeq(parts(0 + 1)) = FlattenSeq(parts(0)) \o pages[j + 0].chars
    BY <1>2
  <2>2. j + 1 - j = 0 + 1 /\ j + 0 = j /\ j \in Int
    OBVIOUS
  <2>3. <<>> \o pages[j].chars = pages[j].chars
    BY ConcatEmptySeq
  <2> QED BY <1>3, <1>4, <2>1, <2>2, <2>3, FlatNothing
<1>6. ASSUME e + 1 <= n
      PROVE  CharsOf(pages, j, e + 1) = CharsOf(pages, j, e) \o pages[e + 1].chars
  <2>1. PICK a \in Nat : a = e + 1 - j
    <3>1. e + 1 - j \in Nat
      OBVIOUS
    <3> QED BY <3>1
  <2>2. (e + 1) + 1 - j = a + 1 /\ j + a = e + 1 /\ e \in Int /\ e + 1 \in Int
    BY <2>1
  <2>3. FlattenSeq(parts(a + 1)) = FlattenSeq(parts(a)) \o pages[e + 1].chars
    BY <1>2, <1>6, <2>2
  <2>4. CharsOf(pages, j, e + 1) = FlattenSeq(parts(a + 1)) /\ CharsOf(pages, j, e) = FlattenSeq(parts(a))
    BY <1>3, <2>1, <2>2
  <2> QED BY <2>3, <2>4
<1> QED
  BY <1>5, <1>6

\* A long string goes up to the next page of short ones.
LEMMA LongStringIs ==
  ASSUME NEW pages, NEW n \in Nat, Len(pages) = n, NEW j \in 1 .. n, NEW e \in j .. n,
         \A l \in j .. e : ~IsText(pages[l]), e = n \/ IsText(pages[e + 1])
  PROVE  LongString(pages, j) = CharsOf(pages, j, e)
<1> DEFINE isEnd(k) == /\ k = Len(pages) + 1 \/ IsText(pages[k])
                       /\ \A l \in j .. k - 1 : ~IsText(pages[l])
<1>1. e + 1 \in j .. Len(pages) + 1 /\ isEnd(e + 1)
  OBVIOUS
<1>2. ASSUME NEW k \in j .. Len(pages) + 1, isEnd(k)
      PROVE  k = e + 1
  <2>1. CASE k <= e
    <3>1. k \in j .. e /\ k # n + 1
      BY <2>1
    <3> QED BY <1>2, <3>1
  <2>2. CASE k > e + 1
    <3>1. e + 1 \in j .. k - 1 /\ e # n
      BY <2>2
    <3> QED BY <1>2, <3>1
  <2> QED BY <2>1, <2>2
<1>3. PICK end : end = CHOOSE k \in j .. Len(pages) + 1 : isEnd(k)
  OBVIOUS
<1>4. LongString(pages, j) = FlattenSeq([k \in 1 .. end - j |-> pages[j + k - 1].chars])
  BY <1>3 DEF LongString
<1> HIDE DEF isEnd
<1>5. end = e + 1
  BY <1>1, <1>2, <1>3
<1> QED
  BY <1>4, <1>5 DEF CharsOf

\* The string of an item that is not empty ends at the first end offset past its
\* beginning.
LEMMA ShortStringIs ==
  ASSUME NEW p, Consistent(Int, "VARCHAR", p), Rising(p.items), NEW d \in Nat, d < Len(p.items),
         NEW o, o = IF d = 0 THEN 0 ELSE p.items[d], StringAt(p, d) # <<>>
  PROVE  ShortString(p, o) = StringAt(p, d)
<1>1. PICK items \in Seq(Nat), chars \in Seq(Int) : items = p.items /\ chars = p.chars
  <2>1. "VARCHAR" # "INT32"
    OBVIOUS
  <2> QED BY <2>1 DEF Consistent
<1>2. PICK n \in Nat : n = Len(items) /\ DOMAIN items = 1 .. n
  OBVIOUS
<1>3. d + 1 \in 1 .. n /\ (d # 0 => d \in 1 .. n)
  BY <1>1, <1>2
<1>4. PICK hi \in Nat : hi = items[d + 1] /\ o \in Nat
  BY <1>1, <1>2, <1>3
<1>5. StringAt(p, d) = SubSeq(chars, o + 1, hi)
  BY <1>1, <1>4 DEF StringAt
<1>6. hi > o
  <2>1. CASE hi < o + 1
    <3>1. o + 1 \in Int /\ hi \in Int
      BY <1>4
    <3>2. SubSeq(chars, o + 1, hi) = <<>>
      BY <2>1, <3>1, SubSeqEmpty
    <3> QED BY <1>5, <3>2
  <2> QED BY <1>4, <2>1
<1> DEFINE later == { k \in DOMAIN items : items[k] > o }
           isFirst(k) == \A l \in later : k <= l
<1>7. d + 1 \in later
  BY <1>2, <1>3, <1>4, <1>6
<1>8. ASSUME NEW l \in later
      PROVE  d + 1 <= l
  <2>1. l \in 1 .. n /\ items[l] > o /\ items[l] \in Nat
    BY <1>2
  <2>2. CASE l <= d
    <3>1. d \in 1 .. n /\ d # 0 /\ o = items[d]
      BY <1>1, <1>2, <1>3, <2>1, <2>2
    <3>2. items[l] <= items[d]
      BY <1>1, <1>2, <2>1, <2>2, <3>1 DEF Rising
    <3> QED BY <1>4, <2>1, <3>1, <3>2
  <2> QED BY <2>1, <2>2
<1>9. ASSUME NEW k \in later, isFirst(k)
      PROVE  k = d + 1
  <2>1. k \in Nat /\ k <= d + 1 /\ d + 1 <= k
    BY <1>2, <1>7, <1>8, <1>9
  <2> QED BY <2>1
<1>10. isFirst(d + 1)
  BY <1>8
<1>11. PICK first : first = CHOOSE k \in later : isFirst(k)
  OBVIOUS
<1>12. first = d + 1
  <2> HIDE DEF later, isFirst
  <2> QED BY <1>7, <1>9, <1>10, <1>11
<1>13. items # <<>> /\ later # {}
  <2>1. Len(items) # 0
    BY <1>2, <1>3
  <2>2. items # <<>>
    BY <2>1, EmptySeq
  <2> HIDE DEF later
  <2> QED BY <1>7, <2>2
<1>14. ShortString(p, o) = SubSeq(chars, o + 1, items[first])
  BY <1>1, <1>11, <1>13 DEF ShortString
<1> HIDE DEF later
<1> QED
  BY <1>4, <1>5, <1>12, <1>14

ConcatFacts(a, b, n, m) ==
  /\ IsSequence(a \o b) /\ Len(a \o b) = n + m
  /\ \A i \in 1 .. n : (a \o b)[i] = a[i]
  /\ \A i \in 1 .. m : (a \o b)[n + i] = b[i]

LEMMA ConcatAt ==
  ASSUME NEW a, IsSequence(a), NEW b, IsSequence(b), NEW n \in Nat, n = Len(a), NEW m \in Nat, m = Len(b)
  PROVE  ConcatFacts(a, b, n, m)
<1>1. PICK S, T : a \in Seq(S) /\ b \in Seq(T)
  BY DEF IsSequence
<1>2. a \in Seq(S \cup T) /\ b \in Seq(S \cup T)
  BY <1>1
<1>3. /\ a \o b \in Seq(S \cup T) /\ Len(a \o b) = n + m
      /\ \A i \in 1 .. n + m : (a \o b)[i] = IF i <= n THEN a[i] ELSE b[i - n]
  BY <1>2, ConcatProperties
<1>4. \A i \in 1 .. n : i \in 1 .. n + m /\ i <= n
  OBVIOUS
<1>5. \A i \in 1 .. m : n + i \in 1 .. n + m /\ ~(n + i <= n) /\ (n + i) - n = i
  OBVIOUS
<1> QED
  BY <1>3, <1>4, <1>5 DEF IsSequence, ConcatFacts

AppendFacts(a, x, n) ==
  /\ IsSequence(Append(a, x)) /\ Len(Append(a, x)) = n + 1
  /\ Append(a, x)[n + 1] = x
  /\ \A i \in 1 .. n : Append(a, x)[i] = a[i]

LEMMA AppendAt ==
  ASSUME NEW a, IsSequence(a), NEW n \in Nat, n = Len(a), NEW x
  PROVE  AppendFacts(a, x, n)
<1>1. PICK S : a \in Seq(S)
  BY DEF IsSequence
<1>2. PICK T : T = S \cup {x}
  OBVIOUS
<1>3. a \in Seq(T) /\ x \in T
  BY <1>1, <1>2
<1>4. Append(a, x) \in Seq(T)
  BY <1>3
<1>5. /\ Len(Append(a, x)) = Len(a) + 1 /\ Append(a, x)[Len(a) + 1] = x
      /\ \A i \in 1 .. Len(a) : Append(a, x)[i] = a[i]
  BY <1>3, AppendProperties
<1> QED
  BY <1>4, <1>5 DEF IsSequence, AppendFacts

LEMMA LengthOf ==
  ASSUME NEW a, IsSequence(a)
  PROVE  Len(a) \in Nat /\ DOMAIN a = 1 .. Len(a) /\ a = [i \in 1 .. Len(a) |-> a[i]]
<1>1. PICK S : a \in Seq(S)
  BY DEF IsSequence
<1> QED
  BY <1>1

\* The rows of a page of short strings, and the values of the intermediate column.
LEMMA TextEntries ==
  ASSUME NEW p, Consistent(Int, "VARCHAR", p), p.bytes = Bytes(p.rows), IsText(p), Rising(p.items),
         NEW t, NEW c, NEW k, NEW values, values = PageValuesOf("VARCHAR", t, c, k, p)
  PROVE  /\ p.rows \in Nat /\ IsSequence(values) /\ Len(values) = p.rows
         /\ \A i \in 1 .. p.rows :
              \/ values[i] = Null /\ Written("VARCHAR", p)[i] = Null
              \/ \E o \in Nat : /\ values[i] = StringRef(t, c, k, o)
                                /\ Written("VARCHAR", p)[i] # <<>> =>
                                     ShortString(p, o) = Written("VARCHAR", p)[i]
<1>1. p.rows # LongHeader /\ p.rows # RestHeader
  BY DEF IsText
<1>2. PICK n \in Nat : n = p.rows
  BY DEF Consistent
<1>3. PICK items \in Seq(Nat) : items = p.items
  <2>1. "VARCHAR" # "INT32"
    OBVIOUS
  <2> QED BY <2>1 DEF Consistent
<1> DEFINE value(i) == IF ~get_bitmap(p, i - 1, {}) THEN Null
                       ELSE LET j == DataIndex(p, i - 1, {})
                            IN  IF "VARCHAR" = "INT32" THEN Item(p, j) ELSE RefAt(t, c, k, p, j)
<1>4. values = [i \in 1 .. n |-> value(i)]
  BY <1>1, <1>2 DEF PageValuesOf
<1>5. ASSUME NEW i \in 1 .. n
      PROVE  \/ value(i) = Null /\ Written("VARCHAR", p)[i] = Null
             \/ \E o \in Nat : /\ value(i) = StringRef(t, c, k, o)
                               /\ Written("VARCHAR", p)[i] # <<>> =>
                                    ShortString(p, o) = Written("VARCHAR", p)[i]
  <2>1. i - 1 \in 0 .. p.rows - 1
    BY <1>2
  <2>2. PICK d : d = DataIndex(p, i - 1, {})
    OBVIOUS
  <2>3. /\ get_bitmap(p, i - 1, {}) <=> i - 1 \in p.bits
        /\ d = DataBits(p, i - 1) /\ DataBits(p, i - 1) \in Nat
        /\ Len(p.items) \in Nat
        /\ i - 1 \in p.bits => DataBits(p, i - 1) < Len(p.items)
    BY <2>1, <2>2, BitmapExact
  <2>4. Written("VARCHAR", p)[i] = WrittenRow("VARCHAR", p, i - 1)
    BY <1>2 DEF Written
  <2>5. CASE ~get_bitmap(p, i - 1, {})
    BY <2>3, <2>4, <2>5 DEF WrittenRow
  <2>6. CASE get_bitmap(p, i - 1, {})
    <3>1. d \in Nat /\ d < Len(items)
      BY <1>3, <2>3, <2>6
    <3>2. PICK o \in Nat : o = IF d = 0 THEN 0 ELSE p.items[d]
      <4>1. CASE d = 0
        BY <4>1
      <4>2. CASE d # 0
        <5>1. d \in 1 .. Len(items)
          BY <3>1, <4>2
        <5> QED BY <1>3, <4>2, <5>1
      <4> QED BY <4>1, <4>2
    <3>3. value(i) = StringRef(t, c, k, o)
      <4>1. value(i) = RefAt(t, c, k, p, d)
        BY <2>2, <2>6
      <4> QED BY <3>2, <4>1 DEF RefAt
    <3>4. Written("VARCHAR", p)[i] = StringAt(p, d)
      BY <2>3, <2>4, <2>6 DEF WrittenRow
    <3>5. StringAt(p, d) # <<>> => ShortString(p, o) = StringAt(p, d)
      BY <1>3, <3>1, <3>2, ShortStringIs
    <3> HIDE DEF value
    <3> QED BY <3>2, <3>3, <3>4, <3>5
  <2> QED BY <2>5, <2>6
<1> HIDE DEF value
<1>6. values = [i \in 1 .. n |-> values[i]] /\ \A i \in 1 .. n : values[i] = value(i)
  BY <1>4
<1>7. IsSequence(values)
  BY <1>6, FamilyIsSequence
<1>8. Len(values) = n
  <2>1. DOMAIN values = 1 .. n
    BY <1>4
  <2> QED BY <1>7, <2>1, LengthOf
<1> QED
  BY <1>2, <1>5, <1>6, <1>7, <1>8

\* Value v of the column stands for s, of which the rest is perhaps still to come,
\* if it is the last one of the first k pages.
Entry(pages, t, c, k, v, s, last) ==
  \/ v = Null /\ s = Null
  \/ \E j \in 1 .. k, o \in Nat :
       /\ IsText(pages[j]) /\ v = StringRef(t, c, j - 1, o)
       /\ s # <<>> => ShortString(pages[j], o) = s
  \/ \E j \in 1 .. k : \E e \in j .. k :
       /\ pages[j].rows = LongHeader /\ v = StringRef(t, c, j - 1, 0)
       /\ s = CharsOf(pages, j, e)
       /\ \A l \in j .. e : ~IsText(pages[l])
       /\ IF e < k THEN IsText(pages[e + 1]) ELSE last

\* The last string goes on, up to page k.
GoesOn(pages, t, c, k, v, s) ==
  \E j \in 1 .. k :
    /\ pages[j].rows = LongHeader /\ v = StringRef(t, c, j - 1, 0)
    /\ s = CharsOf(pages, j, k)
    /\ \A l \in j .. k : ~IsText(pages[l])

\* found are the values of the column for the first k pages, read is what is read there.
WalkOK(pages, t, c, k, found, read) ==
  /\ IsSequence(found) /\ IsSequence(read) /\ Len(found) = Len(read)
  /\ \A r \in 1 .. Len(read) : Entry(pages, t, c, k, found[r], read[r], r = Len(read))
  /\ k # 0 /\ ~IsText(pages[k]) =>
       /\ Len(read) # 0
       /\ GoesOn(pages, t, c, k, found[Len(read)], read[Len(read)])

\* The pages of a column of strings, without two long strings one after the other.
TextColumn(pages, n) ==
  /\ IsSequence(pages) /\ Len(pages) = n /\ n \in Nat
  /\ TextPages(pages)
  /\ \A k \in 1 .. n : PageShape(Int, "VARCHAR", pages[k])
  /\ \A k \in 1 .. n : IsText(pages[k]) => pages[k].bytes = Bytes(pages[k].rows)
  /\ \A k \in 2 .. n : pages[k].rows = LongHeader => IsText(pages[k - 1])

LEMMA EntryKept ==
  ASSUME NEW pages, NEW t, NEW c, NEW k \in Nat, NEW v, NEW s, NEW last,
         Entry(pages, t, c, k, v, s, last), NEW more,
         IsText(pages[k + 1]) \/ (k # 0 => IsText(pages[k])) \/ ~last
  PROVE  Entry(pages, t, c, k + 1, v, s, more)
<1>1. CASE v = Null /\ s = Null
  BY <1>1 DEF Entry
<1>2. ASSUME NEW j \in 1 .. k, NEW o \in Nat,
             IsText(pages[j]), v = StringRef(t, c, j - 1, o),
             s # <<>> => ShortString(pages[j], o) = s
      PROVE  Entry(pages, t, c, k + 1, v, s, more)
  <2>1. j \in 1 .. k + 1
    OBVIOUS
  <2> QED BY <1>2, <2>1 DEF Entry
<1>3. ASSUME NEW j \in 1 .. k, NEW e \in j .. k,
             pages[j].rows = LongHeader, v = StringRef(t, c, j - 1, 0),
             s = CharsOf(pages, j, e), \A l \in j .. e : ~IsText(pages[l]),
             IF e < k THEN IsText(pages[e + 1]) ELSE last
      PROVE  Entry(pages, t, c, k + 1, v, s, more)
  <2>1. j \in 1 .. k + 1 /\ e \in j .. k + 1 /\ e < k + 1
    OBVIOUS
  <2>2. IsText(pages[e + 1])
    <3>1. CASE e < k
      BY <1>3, <3>1
    <3>2. CASE e = k
      <4>1. e \in j .. e /\ k # 0 /\ last
        BY <1>3, <3>2
      <4>2. ~IsText(pages[k])
        BY <1>3, <3>2, <4>1
      <4> QED BY <3>2, <4>1, <4>2
    <3> QED BY <3>1, <3>2
  <2> QED BY <1>3, <2>1, <2>2 DEF Entry
<1> QED
  BY <1>1, <1>2, <1>3 DEF Entry

LEMMA WalkText ==
  ASSUME NEW n, NEW pages, TextColumn(pages, n), NEW t, NEW c, NEW k \in Nat, k + 1 \in 1 .. n,
         NEW found, NEW read, WalkOK(pages, t, c, k, found, read), IsText(pages[k + 1])
  PROVE  WalkOK(pages, t, c, k + 1, found \o PageValuesOf("VARCHAR", t, c, k, pages[k + 1]),
                read \o Written("VARCHAR", pages[k + 1]))
<1>1. PICK p : p = pages[k + 1]
  OBVIOUS
<1>2. PICK values, written : /\ values = PageValuesOf("VARCHAR", t, c, k, p)
                             /\ written = Written("VARCHAR", p)
  OBVIOUS
<1>3. /\ Consistent(Int, "VARCHAR", p) /\ p.bytes = Bytes(p.rows) /\ IsText(p) /\ Rising(p.items)
  <2>1. k + 1 \in DOMAIN pages
    BY LengthOf DEF TextColumn
  <2> QED BY <1>1, <2>1 DEF TextColumn, TextPages, PageShape
<1>4. PICK m \in Nat : /\ m = p.rows /\ IsSequence(values) /\ Len(values) = m
                       /\ IsSequence(written) /\ Len(written) = m
  BY <1>2, <1>3, TextEntries, WrittenType
<1>5. ASSUME NEW i \in 1 .. m, NEW more
      PROVE  Entry(pages, t, c, k + 1, values[i], written[i], more)
  <2>1. \/ values[i] = Null /\ written[i] = Null
        \/ \E o \in Nat : /\ values[i] = StringRef(t, c, k, o)
                          /\ written[i] # <<>> => ShortString(p, o) = written[i]
    BY <1>2, <1>3, <1>4, TextEntries
  <2>2. k + 1 \in 1 .. k + 1 /\ (k + 1) - 1 = k
    OBVIOUS
  <2>3. CASE values[i] = Null /\ written[i] = Null
    BY <2>3 DEF Entry
  <2>4. CASE \E o \in Nat : /\ values[i] = StringRef(t, c, k, o)
                            /\ written[i] # <<>> => ShortString(p, o) = written[i]
    BY <1>1, <1>3, <2>2, <2>4 DEF Entry
  <2> QED BY <2>1, <2>3, <2>4
<1>6. PICK l \in Nat : /\ l = Len(read) /\ l = Len(found)
                       /\ IsSequence(found) /\ IsSequence(read)
  BY LengthOf DEF WalkOK
<1>7. PICK f, g : f = found \o values /\ g = read \o written
  OBVIOUS
<1>8. /\ IsSequence(f) /\ Len(f) = l + m
      /\ \A i \in 1 .. l : f[i] = found[i]
      /\ \A i \in 1 .. m : f[l + i] = values[i]
  <2>1. PICK a, b : a = found /\ b = values
    OBVIOUS
  <2>2. f = a \o b
    BY <1>7, <2>1
  <2>3. IsSequence(a) /\ IsSequence(b) /\ l = Len(a) /\ m = Len(b)
    BY <1>4, <1>6, <2>1
  <2>4. ConcatFacts(a, b, l, m)
    BY <2>3, ConcatAt
  <2> QED BY <2>1, <2>2, <2>4 DEF ConcatFacts
<1>9. /\ IsSequence(g) /\ Len(g) = l + m
      /\ \A i \in 1 .. l : g[i] = read[i]
      /\ \A i \in 1 .. m : g[l + i] = written[i]
  <2>1. PICK a, b : a = read /\ b = written
    OBVIOUS
  <2>2. g = a \o b
    BY <1>7, <2>1
  <2>3. IsSequence(a) /\ IsSequence(b) /\ l = Len(a) /\ m = Len(b)
    BY <1>4, <1>6, <2>1
  <2>4. ConcatFacts(a, b, l, m)
    BY <2>3, ConcatAt
  <2> QED BY <2>1, <2>2, <2>4 DEF ConcatFacts
<1>10. ASSUME NEW r \in 1 .. l + m, NEW more
       PROVE  Entry(pages, t, c, k + 1, f[r], g[r], more)
  <2>1. CASE r <= l
    <3>1. r \in 1 .. l
      BY <2>1
    <3>2. Entry(pages, t, c, k, found[r], read[r], r = l)
      BY <1>6, <3>1 DEF WalkOK
    <3>3. f[r] = found[r] /\ g[r] = read[r]
      BY <1>8, <1>9, <3>1
    <3>4. PICK last : last = (r = l)
      OBVIOUS
    <3>5. Entry(pages, t, c, k, found[r], read[r], last)
      BY <3>2, <3>4
    <3>6. Entry(pages, t, c, k + 1, found[r], read[r], more)
      BY <3>5, EntryKept
    <3> QED BY <3>3, <3>6
  <2>2. CASE r > l
    <3>1. PICK i \in 1 .. m : r = l + i
      <4>1. r - l \in 1 .. m /\ r = l + (r - l)
        BY <2>2
      <4> QED BY <4>1
    <3>2. f[r] = values[i] /\ g[r] = written[i]
      BY <1>8, <1>9, <3>1
    <3> QED BY <1>5, <3>2
  <2> QED BY <2>1, <2>2
<1>11. WalkOK(pages, t, c, k + 1, f, g)
  <2>1. \A r \in 1 .. Len(g) : Entry(pages, t, c, k + 1, f[r], g[r], r = Len(g))
    BY <1>9, <1>10
  <2> QED BY <1>8, <1>9, <2>1 DEF WalkOK
<1> QED
  BY <1>1, <1>2, <1>7, <1>11

LEMMA WalkLong ==
  ASSUME NEW n, NEW pages, TextColumn(pages, n), NEW t, NEW c, NEW k \in Nat, k + 1 \in 1 .. n,
         NEW found, NEW read, WalkOK(pages, t, c, k, found, read), pages[k + 1].rows = LongHeader
  PROVE  WalkOK(pages, t, c, k + 1, Append(found, StringRef(t, c, k, 0)),
                Append(read, pages[k + 1].chars))
<1>1. PICK x, y : x = StringRef(t, c, k, 0) /\ y = pages[k + 1].chars
  OBVIOUS
<1>2. k # 0 => IsText(pages[k])
  <2>1. k # 0 => k + 1 \in 2 .. n /\ (k + 1) - 1 = k
    OBVIOUS
  <2> QED BY <2>1 DEF TextColumn
<1>3. ~IsText(pages[k + 1])
  BY DEF IsText
<1>4. CharsOf(pages, k + 1, k + 1) = y
  <2>1. n \in Nat /\ \A l \in 1 .. n : pages[l].chars \in Seq(Int)
    BY DEF TextColumn, PageShape
  <2>2. k + 1 \in (k + 1) .. n
    OBVIOUS
  <2>3. PICK j \in 1 .. n : j = k + 1
    OBVIOUS
  <2>4. CharsOf(pages, j, j) = pages[j].chars
    BY <2>1, <2>2, <2>3, CharsMore
  <2> QED BY <1>1, <2>3, <2>4
<1>5. GoesOn(pages, t, c, k + 1, x, y)
  <2>1. k + 1 \in 1 .. k + 1 /\ (k + 1) - 1 = k /\ \A l \in (k + 1) .. k + 1 : l = k + 1
    OBVIOUS
  <2> QED BY <1>1, <1>3, <1>4, <2>1 DEF GoesOn
<1>6. Entry(pages, t, c, k + 1, x, y, TRUE)
  <2>1. k + 1 \in 1 .. k + 1 /\ (k + 1) - 1 = k /\ k + 1 \in (k + 1) .. k + 1 /\ ~(k + 1 < k + 1)
        /\ \A l \in (k + 1) .. k + 1 : l = k + 1
    OBVIOUS
  <2> QED BY <1>1, <1>3, <1>4, <2>1 DEF Entry
<1>7. PICK l \in Nat : /\ l = Len(read) /\ l = Len(found)
                       /\ IsSequence(found) /\ IsSequence(read)
  BY LengthOf DEF WalkOK
<1>8. PICK f, g : f = Append(found, x) /\ g = Append(read, y)
  OBVIOUS
<1>9. IsSequence(f) /\ Len(f) = l + 1 /\ f[l + 1] = x /\ \A i \in 1 .. l : f[i] = found[i]
  <2>1. PICK a : a = found
    OBVIOUS
  <2>2. AppendFacts(a, x, l)
    BY <1>7, <2>1, AppendAt
  <2> QED BY <1>8, <2>1, <2>2 DEF AppendFacts
<1>10. IsSequence(g) /\ Len(g) = l + 1 /\ g[l + 1] = y /\ \A i \in 1 .. l : g[i] = read[i]
  <2>1. PICK a : a = read
    OBVIOUS
  <2>2. AppendFacts(a, y, l)
    BY <1>7, <2>1, AppendAt
  <2> QED BY <1>8, <2>1, <2>2 DEF AppendFacts
<1>11. ASSUME NEW r \in 1 .. l + 1
       PROVE  Entry(pages, t, c, k + 1, f[r], g[r], r = l + 1)
  <2>1. CASE r <= l
    <3>1. r \in 1 .. l
      BY <2>1
    <3>2. Entry(pages, t, c, k, found[r], read[r], r = l)
      BY <1>7, <3>1 DEF WalkOK
    <3>3. f[r] = found[r] /\ g[r] = read[r]
      BY <1>9, <1>10, <3>1
    <3>4. PICK last, more : last = (r = l) /\ more = (r = l + 1)
      OBVIOUS
    <3>5. Entry(pages, t, c, k, found[r], read[r], last)
      BY <3>2, <3>4
    <3>6. Entry(pages, t, c, k + 1, found[r], read[r], more)
      BY <1>2, <3>5, EntryKept
    <3> QED BY <3>3, <3>4, <3>6
  <2>2. CASE r = l + 1
    BY <1>6, <1>9, <1>10, <2>2
  <2> QED BY <2>1, <2>2
<1>12. WalkOK(pages, t, c, k + 1, f, g)
  <2>1. Len(g) # 0 /\ GoesOn(pages, t, c, k + 1, f[Len(g)], g[Len(g)])
    BY <1>5, <1>9, <1>10
  <2> QED BY <1>9, <1>10, <1>11, <2>1 DEF WalkOK
<1> QED
  BY <1>1, <1>8, <1>12

LEMMA WalkRest ==
  ASSUME NEW n, NEW pages, TextColumn(pages, n), NEW t, NEW c, NEW k \in Nat, k + 1 \in 1 .. n,
         NEW found, NEW read, WalkOK(pages, t, c, k, found, read), pages[k + 1].rows = RestHeader
  PROVE  WalkOK(pages, t, c, k + 1, found, [read EXCEPT ![Len(read)] = @ \o pages[k + 1].chars])
<1>1. k # 0 /\ ~IsText(pages[k])
  <2>1. k + 1 \in DOMAIN pages /\ (k + 1) - 1 = k
    BY LengthOf DEF TextColumn
  <2> QED BY <2>1 DEF TextColumn, TextPages
<1>2. ~IsText(pages[k + 1])
  BY DEF IsText
<1>3. PICK l \in Nat \ {0} : /\ l = Len(read) /\ l = Len(found)
                             /\ IsSequence(found) /\ IsSequence(read)
  BY <1>1, LengthOf DEF WalkOK
<1>4. GoesOn(pages, t, c, k, found[l], read[l])
  BY <1>1, <1>3 DEF WalkOK
<1>5. PICK j \in 1 .. k : /\ pages[j].rows = LongHeader /\ found[l] = StringRef(t, c, j - 1, 0)
                          /\ read[l] = CharsOf(pages, j, k)
                          /\ \A i \in j .. k : ~IsText(pages[i])
  BY <1>4 DEF GoesOn
<1>6. PICK y : y = read[l] \o pages[k + 1].chars
  OBVIOUS
<1>7. y = CharsOf(pages, j, k + 1)
  <2>1. n \in Nat /\ \A i \in 1 .. n : pages[i].chars \in Seq(Int)
    BY DEF TextColumn, PageShape
  <2>2. j \in 1 .. n /\ k \in j .. n /\ k + 1 <= n
    BY <2>1
  <2>3. CharsOf(pages, j, k + 1) = CharsOf(pages, j, k) \o pages[k + 1].chars
    BY <2>1, <2>2, CharsMore
  <2> QED BY <1>5, <1>6, <2>3
<1>8. j \in 1 .. k + 1 /\ \A i \in j .. k + 1 : ~IsText(pages[i])
  <2>1. \A i \in j .. k + 1 : i \in j .. k \/ i = k + 1
    OBVIOUS
  <2> QED BY <1>2, <1>5, <2>1
<1>9. GoesOn(pages, t, c, k + 1, found[l], y)
  BY <1>5, <1>7, <1>8 DEF GoesOn
<1>10. Entry(pages, t, c, k + 1, found[l], y, TRUE)
  <2>1. k + 1 \in j .. k + 1 /\ ~(k + 1 < k + 1)
    OBVIOUS
  <2> QED BY <1>5, <1>7, <1>8, <2>1 DEF Entry
<1>11. PICK g : g = [read EXCEPT ![l] = y]
  OBVIOUS
<1>12. IsSequence(g) /\ Len(g) = l /\ g[l] = y /\ \A i \in 1 .. l : i # l => g[i] = read[i]
  <2>1. DOMAIN read = 1 .. l /\ read = [i \in 1 .. l |-> read[i]]
    BY <1>3, LengthOf
  <2>6. PICK h : h = read
    OBVIOUS
  <2>7. g = [i \in 1 .. l |-> IF i = l THEN y ELSE h[i]]
    BY <1>11, <2>1, <2>6
  <2>8. g[l] = y /\ \A i \in 1 .. l : i # l => g[i] = read[i]
    BY <2>6, <2>7
  <2>2. g = [i \in 1 .. l |-> g[i]] /\ g[l] = y /\ \A i \in 1 .. l : i # l => g[i] = read[i]
    BY <2>7, <2>8
  <2>3. IsSequence(g)
    BY <2>2, FamilyIsSequence
  <2>4. DOMAIN g = 1 .. l
    BY <1>11, <2>1
  <2>5. Len(g) = l
    BY <2>3, <2>4, LengthOf
  <2> QED BY <2>2, <2>3, <2>5
<1>13. ASSUME NEW r \in 1 .. l
       PROVE  Entry(pages, t, c, k + 1, found[r], g[r], r = l)
  <2>1. CASE r = l
    BY <1>10, <1>12, <2>1
  <2>2. CASE r # l
    <3>1. Entry(pages, t, c, k, found[r], read[r], r = l)
      BY <1>3 DEF WalkOK
    <3>2. PICK last : last = (r = l)
      OBVIOUS
    <3>3. Entry(pages, t, c, k, found[r], read[r], last) /\ ~last
      BY <2>2, <3>1, <3>2
    <3>4. Entry(pages, t, c, k + 1, found[r], read[r], last)
      BY <3>3, EntryKept
    <3> QED BY <1>12, <2>2, <3>2, <3>4
  <2> QED BY <2>1, <2>2
<1>14. WalkOK(pages, t, c, k + 1, found, g)
  BY <1>3, <1>9, <1>12, <1>13 DEF WalkOK
<1> QED
  BY <1>3, <1>6, <1>11, <1>14

LEMMA WalkStart ==
  ASSUME NEW pages, NEW t, NEW c
  PROVE  WalkOK(pages, t, c, 0, <<>>, <<>>)
<1>1. PICK e : e = <<>>
  OBVIOUS
<1>2. IsSequence(e) /\ Len(e) = 0
  <2>1. e \in Seq({})
    BY <1>1
  <2> QED BY <1>1, <2>1 DEF IsSequence
<1>3. 1 .. 0 = {}
  OBVIOUS
<1>4. WalkOK(pages, t, c, 0, e, e)
  BY <1>2, <1>3 DEF WalkOK
<1> QED
  BY <1>1, <1>4

\* One more page of a column of strings.
LEMMA WalkMore ==
  ASSUME NEW n, NEW pages, TextColumn(pages, n), NEW t, NEW c, NEW k \in Nat, k + 1 \in 1 .. n,
         NEW found, NEW read, WalkOK(pages, t, c, k, found, read)
  PROVE  WalkOK(pages, t, c, k + 1, found \o PageValuesOf("VARCHAR", t, c, k, pages[k + 1]),
                ReadPage("VARCHAR", read, pages[k + 1], {}))
<1>1. PICK p : p = pages[k + 1]
  OBVIOUS
<1>2. PICK S : found \in Seq(S)
  BY DEF WalkOK, IsSequence
<1>3. CASE IsText(p)
  <2>1. Consistent(Int, "VARCHAR", p) /\ p.bytes = Bytes(p.rows)
    BY <1>1, <1>3 DEF TextColumn, PageShape
  <2>2. "VARCHAR" \in DataTypes
    BY DEF DataTypes
  <2>3. ReadPage("VARCHAR", read, p, {}) = read \o Written("VARCHAR", p)
    BY <1>3, <2>1, <2>2, ReadsWritten
  <2> QED BY <1>1, <1>3, <2>3, WalkText
<1>4. CASE p.rows = LongHeader
  <2>1. PageValuesOf("VARCHAR", t, c, k, p) = <<StringRef(t, c, k, 0)>>
    BY <1>4 DEF PageValuesOf, LongHeader, RestHeader
  <2>2. PICK x : x = StringRef(t, c, k, 0)
    OBVIOUS
  <2>3. found \o <<x>> = Append(found, x)
    <3>1. found \in Seq(S \cup {x}) /\ x \in S \cup {x}
      BY <1>2
    <3> QED BY <3>1, AppendIsConcat
  <2>4. ReadPage("VARCHAR", read, p, {}) = Append(read, p.chars)
    BY <1>4, ReadsFirst
  <2>5. WalkOK(pages, t, c, k + 1, Append(found, StringRef(t, c, k, 0)), Append(read, p.chars))
    BY <1>1, <1>4, WalkLong
  <2> QED BY <1>1, <2>1, <2>2, <2>3, <2>4, <2>5
<1>5. CASE p.rows = RestHeader
  <2>1. p.rows # LongHeader
    BY <1>5 DEF LongHeader, RestHeader
  <2>2. PageValuesOf("VARCHAR", t, c, k, p) = <<>>
    BY <1>5, <2>1 DEF PageValuesOf
  <2>3. found \o <<>> = found
    BY <1>2, ConcatEmptySeq
  <2>4. ReadPage("VARCHAR", read, p, {}) = [read EXCEPT ![Len(read)] = @ \o p.chars]
    BY <1>5, <2>1 DEF ReadPage
  <2>5. WalkOK(pages, t, c, k + 1, found, [read EXCEPT ![Len(read)] = @ \o p.chars])
    BY <1>1, <1>5, WalkRest
  <2> QED BY <1>1, <2>2, <2>3, <2>4, <2>5
<1> QED
  BY <1>3, <1>4, <1>5 DEF IsText

\* What my_copy finds on the pages, page by page.
PartsOf(type, pages, t, c) ==
  [k \in DOMAIN pages |-> PageValuesOf(type, t, c, k - 1, pages[k])]

LEMMA PartsMore ==
  ASSUME NEW T, NEW parts \in Seq(Seq(T)), NEW k \in Nat, k + 1 <= Len(parts)
  PROVE  FlattenSeq(SubSeq(parts, 1, k + 1)) = FlattenSeq(SubSeq(parts, 1, k)) \o parts[k + 1]
<1>1. SubSeq(parts, 1, k + 1) = Append(SubSeq(parts, 1, k), parts[k + 1])
      /\ SubSeq(parts, 1, k) \in Seq(Seq(T))
  BY FirstPages
<1>2. k + 1 \in 1 .. Len(parts)
  OBVIOUS
<1>3. parts[k + 1] \in Seq(T)
  BY <1>2, ElementOfSeq
<1>4. PICK ss, x : ss = SubSeq(parts, 1, k) /\ x = parts[k + 1]
  OBVIOUS
<1>5. FlattenSeq(Append(ss, x)) = FlattenSeq(ss) \o x
  BY <1>1, <1>3, <1>4, FlatMore
<1> QED
  BY <1>1, <1>4, <1>5

LEMMA ReadMore ==
  ASSUME NEW type, NEW pages, IsSequence(pages), NEW k \in Nat, k + 1 <= Len(pages)
  PROVE  Fold(Reading(type, {}), <<>>, SubSeq(pages, 1, k + 1))
           = ReadPage(type, Fold(Reading(type, {}), <<>>, SubSeq(pages, 1, k)), pages[k + 1], {})
<1>1. PICK S : pages \in Seq(S)
  BY DEF IsSequence
<1>2. SubSeq(pages, 1, k + 1) = Append(SubSeq(pages, 1, k), pages[k + 1])
      /\ SubSeq(pages, 1, k) \in Seq(S)
  BY <1>1, FirstPages
<1>3. PICK first, p, o : first = SubSeq(pages, 1, k) /\ p = pages[k + 1] /\ o = Reading(type, {})
  OBVIOUS
<1>6. IsSequence(first)
  BY <1>2, <1>3 DEF IsSequence
<1>4. Fold(o, <<>>, Append(first, p)) = Step(o, Fold(o, <<>>, first), p)
  BY <1>6, FoldOneMore
<1>5. Step(o, Fold(o, <<>>, first), p) = ReadPage(type, Fold(o, <<>>, first), p, {})
  BY <1>3 DEF Step, Reading
<1> QED
  BY <1>2, <1>3, <1>4, <1>5

LEMMA WalkAll ==
  ASSUME NEW n, NEW pages, TextColumn(pages, n), NEW t, NEW c,
         NEW T, NEW parts \in Seq(Seq(T)), parts = PartsOf("VARCHAR", pages, t, c)
  PROVE  WalkOK(pages, t, c, n, FlattenSeq(parts), from_columnar("VARCHAR", pages, {}))
<1>1. n \in Nat /\ n = Len(pages) /\ DOMAIN pages = 1 .. n /\ IsSequence(pages)
  BY LengthOf DEF TextColumn
<1>2. Len(parts) = n /\ \A k \in 1 .. n : parts[k] = PageValuesOf("VARCHAR", t, c, k - 1, pages[k])
  <2>1. DOMAIN parts = 1 .. n
    BY <1>1 DEF PartsOf
  <2>2. \A k \in 1 .. n : parts[k] = PageValuesOf("VARCHAR", t, c, k - 1, pages[k])
    BY <1>1 DEF PartsOf
  <2>3. Len(parts) \in Nat /\ DOMAIN parts = 1 .. Len(parts)
    OBVIOUS
  <2>4. PICK seq : seq = parts
    OBVIOUS
  <2>5. IsSequence(seq)
    BY <2>4 DEF IsSequence
  <2>6. Len(seq) = n
    BY <1>1, <2>1, <2>4, <2>5 DEF IsSequence
  <2> QED BY <2>2, <2>4, <2>6
<1> DEFINE F(k) == FlattenSeq(SubSeq(parts, 1, k))
           R(k) == Fold(Reading("VARCHAR", {}), <<>>, SubSeq(pages, 1, k))
           U == { k \in Nat : k <= n => WalkOK(pages, t, c, k, F(k), R(k)) }
<1>3. 0 \in U
  <2>1. SubSeq(parts, 1, 0) = <<>> /\ SubSeq(pages, 1, 0) = <<>>
    BY SubSeqEmpty
  <2>2. F(0) = <<>> /\ R(0) = <<>>
    BY <2>1, FlatNothing, FoldEmpty
  <2> HIDE DEF F, R
  <2> QED BY <2>2, WalkStart
<1>4. ASSUME NEW k \in Nat, k \in U PROVE k + 1 \in U
  <2> SUFFICES ASSUME k + 1 <= n PROVE WalkOK(pages, t, c, k + 1, F(k + 1), R(k + 1))
    OBVIOUS
  <2>1. k + 1 \in 1 .. n /\ (k + 1) - 1 = k
    BY <1>1
  <2>2. WalkOK(pages, t, c, k, F(k), R(k))
    <3>1. k <= n
      BY <1>1
    <3> QED BY <1>4, <3>1
  <2>3. F(k + 1) = F(k) \o PageValuesOf("VARCHAR", t, c, k, pages[k + 1])
    <3>1. F(k + 1) = F(k) \o parts[k + 1]
      BY <1>2, PartsMore
    <3>2. parts[k + 1] = PageValuesOf("VARCHAR", t, c, k, pages[k + 1])
      BY <1>2, <2>1
    <3> QED BY <3>1, <3>2
  <2>4. R(k + 1) = ReadPage("VARCHAR", R(k), pages[k + 1], {})
    BY <1>1, ReadMore
  <2>5. PICK f, r : f = F(k) /\ r = R(k)
    OBVIOUS
  <2>6. WalkOK(pages, t, c, k + 1, f \o PageValuesOf("VARCHAR", t, c, k, pages[k + 1]),
               ReadPage("VARCHAR", r, pages[k + 1], {}))
    BY <2>1, <2>2, <2>5, WalkMore
  <2> HIDE DEF F, R
  <2> QED BY <2>3, <2>4, <2>5, <2>6
<1>5. \A k \in Nat : k \in U
  <2> HIDE DEF U
  <2> QED BY <1>3, <1>4, Induction
<1>6. WalkOK(pages, t, c, n, F(n), R(n))
  BY <1>1, <1>5
<1>7. SubSeq(parts, 1, n) = parts /\ SubSeq(pages, 1, n) = pages
  <2>1. SubSeq(parts, 1, n) = parts
    BY <1>2, SubSeqFull
  <2>2. PICK S : pages \in Seq(S)
    BY <1>1 DEF IsSequence
  <2> QED BY <1>1, <2>1, <2>2, SubSeqFull
<1>8. from_columnar("VARCHAR", pages, {}) = R(n)
  BY <1>1, <1>7, ReadIs
<1> QED
  BY <1>6, <1>7, <1>8

\* A value that my_copy has found leads to what is read from the pages.
LEMMA ReferenceLeads ==
  ASSUME NEW q \in Plans, NEW in, InputsOK(q, in), NEW t, NEW c, IsColumn(q, t, c),
         TypeOf(q, t, c) = "VARCHAR", t < TableIds, c < ColumnIds,
         NEW n, NEW pages, TextColumn(pages, n), PagesOf(in, t, c) = pages,
         NEW found, NEW read, WalkOK(pages, t, c, n, found, read),
         NEW r \in 1 .. Len(read), read[r] # <<>>
  PROVE  ResolveIn(in, "VARCHAR", found[r]) = read[r]
<1>1. n \in Nat /\ Len(pages) = n
  BY DEF TextColumn
<1>2. t \in Nat /\ c \in Nat /\ t % TableIds = t /\ c % ColumnIds = c
  <2>1. t \in Nat /\ c \in Nat /\ TableIds \in Nat /\ ColumnIds \in Nat
    BY PlansAssumption DEF IsColumn
  <2> QED BY <2>1, Addressable
<1>3. PICK v, s, last : v = found[r] /\ s = read[r] /\ last = (r = Len(read))
  OBVIOUS
<1>4. Entry(pages, t, c, n, v, s, last)
  <2>1. Entry(pages, t, c, n, found[r], read[r], r = Len(read))
    BY DEF WalkOK
  <2> QED BY <1>3, <2>1
<1>5. ASSUME NEW j \in 1 .. n, NEW o \in Nat, v = StringRef(t, c, j - 1, o)
      PROVE  /\ v # Null
             /\ StringOf(in, v) = IF pages[j].rows = LongHeader THEN LongString(pages, j)
                                                                ELSE ShortString(pages[j], o)
  <2>1. PICK k \in Nat : k = j - 1 /\ k + 1 = j
    <3>1. j - 1 \in Nat /\ (j - 1) + 1 = j
      BY <1>1
    <3> QED BY <3>1
  <2>2. v = [table |-> t, column |-> c, page |-> k, offset |-> o]
    <3>1. PICK S : pages \in Seq(S)
      BY DEF TextColumn, IsSequence
    <3>2. DOMAIN pages = 1 .. n
      BY <1>1, <3>1
    <3>3. k % PageIds = k
      BY <2>1, <3>2, PageNumberFits
    <3> QED BY <1>2, <1>5, <2>1, <3>3 DEF StringRef
  <2>3. v \in [table : Nat, column : Nat, page : Nat, offset : Nat]
    BY <1>2, <2>2
  <2>4. v # Null
    BY <2>3, PlansAssumption
  <2>5. v.table = t /\ v.column = c /\ v.page = k /\ v.offset = o
    BY <2>2
  <2> QED BY <2>1, <2>4, <2>5 DEF StringOf
<1>6. CASE v = Null /\ s = Null
  BY <1>3, <1>6 DEF ResolveIn
<1>7. CASE \E j \in 1 .. n, o \in Nat :
             /\ IsText(pages[j]) /\ v = StringRef(t, c, j - 1, o)
             /\ s # <<>> => ShortString(pages[j], o) = s
  <2>1. PICK j \in 1 .. n, o \in Nat :
          /\ IsText(pages[j]) /\ v = StringRef(t, c, j - 1, o)
          /\ s # <<>> => ShortString(pages[j], o) = s
    BY <1>7
  <2>2. pages[j].rows # LongHeader
    BY <2>1 DEF IsText
  <2>3. v # Null /\ StringOf(in, v) = s
    BY <1>3, <1>5, <2>1, <2>2
  <2> QED BY <1>3, <2>3 DEF ResolveIn
<1>8. CASE \E j \in 1 .. n : \E e \in j .. n :
             /\ pages[j].rows = LongHeader /\ v = StringRef(t, c, j - 1, 0)
             /\ s = CharsOf(pages, j, e)
             /\ \A l \in j .. e : ~IsText(pages[l])
             /\ IF e < n THEN IsText(pages[e + 1]) ELSE last
  <2>1. PICK j \in 1 .. n : \E e \in j .. n :
             /\ pages[j].rows = LongHeader /\ v = StringRef(t, c, j - 1, 0)
             /\ s = CharsOf(pages, j, e)
             /\ \A l \in j .. e : ~IsText(pages[l])
             /\ IF e < n THEN IsText(pages[e + 1]) ELSE last
    BY <1>8
  <2>2. PICK e \in j .. n :
             /\ pages[j].rows = LongHeader /\ v = StringRef(t, c, j - 1, 0)
             /\ s = CharsOf(pages, j, e)
             /\ \A l \in j .. e : ~IsText(pages[l])
             /\ IF e < n THEN IsText(pages[e + 1]) ELSE last
    BY <2>1
  <2>3. e = n \/ IsText(pages[e + 1])
    BY <1>1, <2>2
  <2>4. LongString(pages, j) = s
    BY <1>1, <2>2, <2>3, LongStringIs
  <2>5. v # Null /\ StringOf(in, v) = s
    BY <1>5, <2>2, <2>4
  <2> QED BY <1>3, <2>5 DEF ResolveIn
<1> QED
  BY <1>4, <1>6, <1>7, <1>8 DEF Entry
-----------------------------------------------------------------------------
(* Columns of base tables are scanned as they are.                         *)

\* LongNeighbours, with the inputs as a parameter.
NeighboursIn(in) ==
  \E t \in DOMAIN in : \E c \in DOMAIN in[t].columns :
    LET pages == in[t].columns[c].pages
    IN  \E k \in 2 .. Len(pages) : pages[k].rows = LongHeader /\ ~IsText(pages[k - 1])

\* EmptyStrings, with the plan as a parameter.
EmptiesOf(q) ==
  \E t \in DOMAIN q.tables :
    LET table == q.tables[t]
    IN  \E r \in DOMAIN table.rows, c \in DOMAIN table.types :
          table.types[c] = "VARCHAR" /\ table.rows[r][c] = <<>>

LEMMA TextColumnOf ==
  ASSUME NEW q \in Plans, NEW in, InputsOK(q, in), NEW t, NEW c, IsColumn(q, t, c),
         TypeOf(q, t, c) = "VARCHAR", ~NeighboursIn(in)
  PROVE  TextColumn(PagesOf(in, t, c), Len(PagesOf(in, t, c)))
<1>1. PICK pages : pages = PagesOf(in, t, c)
  OBVIOUS
<1>2. PICK stored : StoredAs("VARCHAR", pages, stored)
  BY <1>1, InputColumn
<1>3. /\ IsSequence(pages) /\ \A k \in DOMAIN pages : PageShape(Int, "VARCHAR", pages[k])
      /\ ~ShortBitmap(pages)
  BY <1>2 DEF StoredAs
<1>4. PICK n \in Nat : n = Len(pages) /\ DOMAIN pages = 1 .. n
  BY <1>3, LengthOf
<1>5. TextPages(pages)
  <2>1. /\ IsSequence(stored) /\ pages = WriteColumn("VARCHAR", stored, TRUE)
        /\ \A i \in DOMAIN stored : stored[i] = Null \/ stored[i] \in Seq(Int)
    BY <1>2 DEF StoredAs, ValueIn
  <2> QED BY <2>1, TextWritten
<1>6. ASSUME NEW k \in 1 .. n, IsText(pages[k])
      PROVE  pages[k].bytes = Bytes(pages[k].rows)
  <2>1. PICK p : p = pages[k]
    OBVIOUS
  <2>2. p.rows \in Nat /\ p.bytes \in Nat /\ p.bytes <= Bytes(p.rows)
    BY <1>3, <1>4, <1>6, <2>1 DEF PageShape, Consistent
  <2>3. ~(p.bytes < Bytes(p.rows))
    BY <1>3, <1>4, <1>6, <2>1 DEF ShortBitmap
  <2> QED BY <2>1, <2>2, <2>3, BytesOfRows, NotLess
<1>7. ASSUME NEW k \in 2 .. n, pages[k].rows = LongHeader
      PROVE  IsText(pages[k - 1])
  <2>1. t + 1 \in DOMAIN in /\ c + 1 \in DOMAIN in[t + 1].columns
    BY DEF InputsOK, IsColumn, to_columnar
  <2> QED BY <1>1, <1>4, <1>7, <2>1 DEF NeighboursIn, PagesOf
<1> QED
  BY <1>1, <1>3, <1>4, <1>5, <1>6, <1>7 DEF TextColumn

\* Integers are found as they are read.
LEMMA IntegersFound ==
  ASSUME NEW pages, IsSequence(pages),
         \A k \in DOMAIN pages : Consistent(Int, "INT32", pages[k]) /\ IsText(pages[k])
                                 /\ pages[k].bytes = Bytes(pages[k].rows),
         NEW t, NEW c
  PROVE  FlattenSeq(PartsOf("INT32", pages, t, c)) = from_columnar("INT32", pages, {})
<1>1. PICK n \in Nat : n = Len(pages) /\ DOMAIN pages = 1 .. n
  BY LengthOf
<1>2. PICK parts : parts = PartsOf("INT32", pages, t, c)
  OBVIOUS
<1>3. ASSUME NEW k \in 1 .. n
      PROVE  parts[k] = Written("INT32", pages[k])
  <2>1. PICK p : p = pages[k]
    OBVIOUS
  <2>2. Consistent(Int, "INT32", p) /\ p.bytes = Bytes(p.rows) /\ p.rows # LongHeader /\ p.rows # RestHeader
    BY <1>1, <2>1 DEF IsText
  <2>3. ASSUME NEW i \in 1 .. p.rows
        PROVE  (IF ~get_bitmap(p, i - 1, {}) THEN Null ELSE Item(p, DataIndex(p, i - 1, {})))
                 = WrittenRow("INT32", p, i - 1)
    <3>1. i - 1 \in 0 .. p.rows - 1
      BY <2>2 DEF Consistent
    <3>2. PICK d : d = DataIndex(p, i - 1, {})
      OBVIOUS
    <3>3. /\ get_bitmap(p, i - 1, {}) <=> i - 1 \in p.bits
          /\ d = DataBits(p, i - 1)
          /\ i - 1 \in p.bits => d < Len(p.items)
      BY <2>2, <3>1, <3>2, BitmapExact
    <3> QED BY <3>2, <3>3 DEF WrittenRow, Item
  <2>4. parts[k] = [i \in 1 .. p.rows |->
                      IF ~get_bitmap(p, i - 1, {}) THEN Null ELSE Item(p, DataIndex(p, i - 1, {}))]
    <3>1. parts[k] = PageValuesOf("INT32", t, c, k - 1, p)
      BY <1>1, <1>2, <2>1 DEF PartsOf
    <3> QED BY <2>2, <3>1 DEF PageValuesOf
  <2> QED BY <2>1, <2>3, <2>4 DEF Written
<1>4. ASSUME NEW k \in 1 .. n
      PROVE  IsSequence(parts[k])
  BY <1>1, <1>3, WrittenType
<1> DEFINE T == UNION { { parts[k][i] : i \in DOMAIN parts[k] } : k \in 1 .. n }
<1>5. ASSUME NEW k \in 1 .. n
      PROVE  parts[k] \in Seq(T)
  <2>1. PICK part : part = parts[k] /\ IsSequence(part)
    BY <1>4
  <2>2. Len(part) \in Nat /\ DOMAIN part = 1 .. Len(part) /\ part = [i \in 1 .. Len(part) |-> part[i]]
    BY <2>1, LengthOf
  <2>3. \A i \in 1 .. Len(part) : part[i] \in T
    BY <2>1, <2>2
  <2> HIDE DEF T
  <2>4. part \in [1 .. Len(part) -> T]
    BY <2>2, <2>3
  <2>5. part \in Seq(T)
    BY <2>2, <2>4, SeqDef
  <2> QED BY <2>1, <2>5
<1> HIDE DEF T
<1>6. parts \in Seq(Seq(T)) /\ Len(parts) = n
  <2>1. parts = [k \in 1 .. n |-> parts[k]]
    BY <1>1, <1>2 DEF PartsOf
  <2>2. parts \in [1 .. n -> Seq(T)]
    BY <1>5, <2>1
  <2>3. parts \in Seq(Seq(T))
    BY <2>2, SeqDef
  <2>4. DOMAIN parts = 1 .. n
    BY <2>1
  <2> QED BY <2>3, <2>4
<1> DEFINE F(k) == FlattenSeq(SubSeq(parts, 1, k))
           R(k) == Fold(Reading("INT32", {}), <<>>, SubSeq(pages, 1, k))
           U == { k \in Nat : k <= n => F(k) = R(k) }
<1>7. 0 \in U
  <2>1. SubSeq(parts, 1, 0) = <<>> /\ SubSeq(pages, 1, 0) = <<>>
    BY SubSeqEmpty
  <2>2. F(0) = <<>> /\ R(0) = <<>>
    BY <2>1, FlatNothing, FoldEmpty
  <2> HIDE DEF F, R
  <2> QED BY <2>2
<1>8. ASSUME NEW k \in Nat, k \in U PROVE k + 1 \in U
  <2> SUFFICES ASSUME k + 1 <= n PROVE F(k + 1) = R(k + 1)
    OBVIOUS
  <2>1. k + 1 \in 1 .. n /\ k <= n
    BY <1>1
  <2>2. F(k) = R(k)
    BY <1>8, <2>1
  <2>3. F(k + 1) = F(k) \o parts[k + 1]
    BY <1>6, PartsMore
  <2>4. R(k + 1) = ReadPage("INT32", R(k), pages[k + 1], {})
    BY <1>1, ReadMore
  <2>5. PICK r, p : r = R(k) /\ p = pages[k + 1]
    OBVIOUS
  <2>6. Consistent(Int, "INT32", p) /\ IsText(p) /\ p.bytes = Bytes(p.rows)
    BY <1>1, <2>1, <2>5
  <2>7. "INT32" \in DataTypes
    BY DEF DataTypes
  <2>8. ReadPage("INT32", r, p, {}) = r \o Written("INT32", p)
    BY <2>6, <2>7, ReadsWritten
  <2>9. parts[k + 1] = Written("INT32", p)
    BY <1>3, <2>1, <2>5
  <2> HIDE DEF F, R
  <2> QED BY <2>2, <2>3, <2>4, <2>5, <2>8, <2>9
<1>9. \A k \in Nat : k \in U
  <2> HIDE DEF U
  <2> QED BY <1>7, <1>8, Induction
<1>10. F(n) = R(n)
  BY <1>1, <1>9
<1>11. SubSeq(parts, 1, n) = parts /\ SubSeq(pages, 1, n) = pages
  <2>1. SubSeq(parts, 1, n) = parts
    BY <1>6, SubSeqFull
  <2>2. PICK S : pages \in Seq(S)
    BY DEF IsSequence
  <2> QED BY <1>1, <2>1, <2>2, SubSeqFull
<1>12. from_columnar("INT32", pages, {}) = R(n)
  BY <1>11, ReadIs
<1> QED
  BY <1>2, <1>10, <1>11, <1>12

\* The strings of all columns can be found: none is empty, and no long one follows
\* another.
Findable(q, in) == ~NeighboursIn(in) /\ ~EmptiesOf(q)

LEMMA FoundInPages ==
  ASSUME NEW q \in Plans, NEW in, InputsOK(q, in), Findable(q, in), NEW t, NEW c, IsColumn(q, t, c),
         NEW type, type = TypeOf(q, t, c),
         type = "VARCHAR" => t < TableIds /\ c < ColumnIds,
         NEW found, found = FlattenSeq(PartsOf(type, PagesOf(in, t, c), t, c)),
         NEW stored, stored = ColumnValues(q, t, c)
  PROVE  /\ Len(found) = Len(stored)
         /\ \A r \in 1 .. Len(stored) : ResolveIn(in, type, found[r]) = stored[r]
<1>1. PICK pages : pages = PagesOf(in, t, c)
  OBVIOUS
<1>2. StoredAs(type, pages, stored)
  BY <1>1, InputColumn
<1>3. /\ type \in DataTypes /\ IsSequence(stored)
      /\ IsSequence(pages) /\ \A k \in DOMAIN pages : PageShape(Int, type, pages[k])
      /\ ~ShortBitmap(pages) /\ from_columnar(type, pages, {}) = stored
  BY <1>2 DEF StoredAs
<1>4. PICK n \in Nat : n = Len(pages) /\ DOMAIN pages = 1 .. n
  BY <1>3, LengthOf
<1>5. PICK parts : parts = PartsOf(type, pages, t, c)
  OBVIOUS
<1>6. CASE type = "INT32"
  <2>1. ASSUME NEW k \in DOMAIN pages
        PROVE  Consistent(Int, "INT32", pages[k]) /\ IsText(pages[k])
               /\ pages[k].bytes = Bytes(pages[k].rows)
    <3>1. PICK p : p = pages[k]
      OBVIOUS
    <3>2. IsText(p) /\ Consistent(Int, "INT32", p) /\ p.bytes \in Nat /\ p.bytes <= Bytes(p.rows)
      BY <1>3, <1>6, <2>1, <3>1 DEF PageShape
    <3>3. p.rows \in Nat /\ ~(p.bytes < Bytes(p.rows))
      BY <1>3, <2>1, <3>1, <3>2 DEF Consistent, ShortBitmap
    <3>4. p.bytes = Bytes(p.rows)
      BY <3>2, <3>3, BytesOfRows, NotLess
    <3> QED BY <3>1, <3>2, <3>4
  <2>2. FlattenSeq(PartsOf("INT32", pages, t, c)) = from_columnar("INT32", pages, {})
    BY <1>3, <2>1, IntegersFound
  <2>3. found = stored
    BY <1>1, <1>3, <1>6, <2>2
  <2> QED BY <1>6, <2>3 DEF ResolveIn
<1>7. CASE type = "VARCHAR"
  <2>1. TextColumn(pages, n)
    BY <1>1, <1>4, <1>7, TextColumnOf DEF Findable
  <2>2. PICK T : T = References(q, in)
    OBVIOUS
  <2>3. ASSUME NEW k \in 1 .. n
        PROVE  parts[k] \in Seq(T)
    <3>1. PICK j \in Nat : k = j + 1 /\ j = k - 1
      <4>1. k - 1 \in Nat /\ k = (k - 1) + 1
        OBVIOUS
      <4> QED BY <4>1
    <3>2. PageValuesOf("VARCHAR", t, c, j, PagesOf(in, t, c)[j + 1]) \in Seq(References(q, in))
      BY <1>1, <1>4, <1>7, <3>1, ReferencesOfPage
    <3>3. parts[k] = PageValuesOf("VARCHAR", t, c, j, pages[k])
      BY <1>4, <1>5, <1>7, <3>1 DEF PartsOf
    <3> QED BY <1>1, <2>2, <3>1, <3>2, <3>3
  <2>4. parts \in Seq(Seq(T))
    <3>1. parts = [k \in 1 .. n |-> parts[k]]
      BY <1>4, <1>5 DEF PartsOf
    <3>2. parts \in [1 .. n -> Seq(T)]
      BY <2>3, <3>1
    <3> QED BY <3>2, SeqDef
  <2>5. WalkOK(pages, t, c, n, FlattenSeq(parts), from_columnar("VARCHAR", pages, {}))
    BY <1>5, <1>7, <2>1, <2>4, WalkAll
  <2>6. WalkOK(pages, t, c, n, found, stored)
    BY <1>1, <1>3, <1>5, <1>7, <2>5
  <2>7. ASSUME NEW r \in 1 .. Len(stored)
        PROVE  stored[r] # <<>>
    <3>1. PICK table : table = q.tables[t + 1] /\ t + 1 \in DOMAIN q.tables
      BY DEF IsColumn
    <3>2. r \in DOMAIN stored
      BY <1>3, LengthOf
    <3>3. r \in DOMAIN table.rows /\ stored[r] = table.rows[r][c + 1]
      BY <3>1, <3>2 DEF ColumnValues
    <3>4. c + 1 \in DOMAIN table.types /\ table.types[c + 1] = "VARCHAR"
      BY <1>7, <3>1 DEF IsColumn, TypeOf
    <3> QED BY <3>1, <3>3, <3>4 DEF Findable, EmptiesOf
  <2>8. TypeOf(q, t, c) = "VARCHAR" /\ t < TableIds /\ c < ColumnIds /\ PagesOf(in, t, c) = pages
    BY <1>1, <1>7
  <2>9. ASSUME NEW r \in 1 .. Len(stored)
        PROVE  ResolveIn(in, "VARCHAR", found[r]) = stored[r]
    <3>1. stored[r] # <<>>
      BY <2>7
    <3> QED BY <2>1, <2>6, <2>8, <3>1, ReferenceLeads
  <2> QED BY <1>7, <2>6, <2>9 DEF WalkOK
<1> QED
  BY <1>3, <1>6, <1>7 DEF DataTypes

LEMMA CopyColumnExact ==
  ASSUME plan \in Plans, InputsOK(plan, inputs), Findable(plan, inputs),
         NEW t, NEW c, IsColumn(plan, t, c),
         NEW type, type = TypeOf(plan, t, c),
         type = "VARCHAR" => t < TableIds /\ c < ColumnIds,
         NEW n, n = inputs[t + 1].num_rows
  PROVE  /\ CopyColumn(type, t, c).num_rows = n
         /\ \A r \in 1 .. n : ResolveIn(inputs, type, get_value(CopyColumn(type, t, c), r - 1))
                                = ColumnValues(plan, t, c)[r]
<1>1. PICK stored : /\ StoredAs(type, PagesOf(inputs, t, c), stored)
                    /\ Len(stored) \in Nat /\ inputs[t + 1].num_rows = Len(stored)
                    /\ stored = ColumnValues(plan, t, c)
  BY InputColumn
<1>2. n \in Nat /\ n = Len(stored)
  BY <1>1
<1>3. PICK pages : pages = PagesOf(inputs, t, c) /\ pages = inputs[t + 1].columns[c + 1].pages
  BY DEF PagesOf
<1>4. PICK column : column = CopyColumn(type, t, c)
  OBVIOUS
<1>5. CASE type = "INT32" /\ ~HasNulls(pages)
  <2>1. column = [num_rows |-> n, has_nulls |-> FALSE, pages |-> <<>>, orig_col |-> pages]
    BY <1>3, <1>4, <1>5 DEF CopyColumn
  <2>2. column.num_rows = n /\ column.has_nulls = FALSE /\ column.orig_col = pages
    BY <2>1
  <2>3. /\ IsSequence(stored) /\ pages = WriteColumn("INT32", stored, TRUE)
    BY <1>1, <1>3, <1>5 DEF StoredAs
  <2>4. ASSUME NEW r \in 1 .. n
        PROVE  get_value(column, r - 1) = stored[r]
    <3>1. PICK i \in 0 .. Len(stored) - 1 : i = r - 1 /\ i + 1 = r
      <4>1. r - 1 \in 0 .. Len(stored) - 1 /\ (r - 1) + 1 = r
        BY <1>2
      <4> QED BY <4>1
    <3>2. get_value(column, i) = stored[i + 1]
      BY <1>5, <2>2, <2>3, OrigColumnExact
    <3> QED BY <3>1, <3>2
  <2> QED BY <1>1, <1>4, <1>5, <2>2, <2>4 DEF ResolveIn
<1>6. CASE ~(type = "INT32" /\ ~HasNulls(pages))
  <2>1. PICK values : values = FlattenSeq(PartsOf(type, pages, t, c))
    OBVIOUS
  <2>2. PICK f : f = [r \in 1 .. n |-> IF r <= Len(values) THEN values[r] ELSE Null]
    OBVIOUS
  <2>3. column = ColumnOf(f)
    BY <1>3, <1>4, <1>6, <2>1, <2>2 DEF CopyColumn, PartsOf
  <2>4. f = [r \in 1 .. n |-> f[r]]
    BY <2>2
  <2>5. IsSequence(f)
    BY <1>2, <2>4, FamilyIsSequence
  <2>6. Len(f) = n
    <3>1. DOMAIN f = 1 .. n
      BY <2>4
    <3> QED BY <1>2, <2>5, <3>1, LengthOf
  <2>7. column.num_rows = n /\ \A i \in 0 .. n - 1 : get_value(column, i) = f[i + 1]
    <3>1. /\ column.num_rows = Len(f)
          /\ \A i \in 0 .. Len(f) - 1 : get_value(column, i) = f[i + 1]
      BY <2>3, <2>5, ColumnOfExact
    <3> QED BY <2>6, <3>1
  <2>8. /\ Len(values) = n
        /\ \A r \in 1 .. n : ResolveIn(inputs, type, values[r]) = stored[r]
    <3>1. values = FlattenSeq(PartsOf(type, PagesOf(inputs, t, c), t, c))
      BY <1>3, <2>1
    <3>2. /\ Len(values) = Len(stored)
          /\ \A r \in 1 .. Len(stored) : ResolveIn(inputs, type, values[r]) = stored[r]
      BY <1>1, <3>1, FoundInPages
    <3> QED BY <1>2, <3>2
  <2>9. ASSUME NEW r \in 1 .. n
        PROVE  ResolveIn(inputs, type, get_value(column, r - 1)) = stored[r]
    <3>1. r - 1 \in 0 .. n - 1 /\ (r - 1) + 1 = r /\ r <= n
      BY <1>2
    <3>2. get_value(column, r - 1) = f[r]
      BY <2>7, <3>1
    <3>3. f[r] = values[r]
      BY <2>2, <2>8, <3>1
    <3> QED BY <2>8, <3>2, <3>3
  <2> QED BY <1>1, <1>4, <2>7, <2>9
<1> QED
  BY <1>5, <1>6
-----------------------------------------------------------------------------
(* What the nodes of a plan denote.                                        *)

\* The two cases of Denotation.
ScanRows(q, node) ==
  LET table == q.tables[node.table + 1].rows
  IN  [r \in DOMAIN table |->
         [a \in DOMAIN node.output_attrs |-> table[r][node.output_attrs[a][1] + 1]]]

EqualKeys(node, left, right, pair) ==
  /\ left[pair[1]][node.left_attr + 1] # Null
  /\ left[pair[1]][node.left_attr + 1] = right[pair[2]][node.right_attr + 1]

JoinRows(node, left, right) ==
  [pair \in { p \in (DOMAIN left) \X (DOMAIN right) : EqualKeys(node, left, right, p) } |->
     [a \in DOMAIN node.output_attrs |->
        (left[pair[1]] \o right[pair[2]])[node.output_attrs[a][1] + 1]]]

RowsAt(q, f, n) ==
  IF IsScan(NodeOf(q, n)) THEN ScanRows(q, NodeOf(q, n))
  ELSE JoinRows(NodeOf(q, n), f[NodeOf(q, n).left], f[NodeOf(q, n).right])

\* f has the rows of the first N nodes.
DenotesFirst(q, f, N) == f = [n \in 0 .. N - 1 |-> RowsAt(q, f, n)]

Denotes(q, f) == DenotesFirst(q, f, Len(q.nodes))

\* Children come before their parents.
LEMMA ChildrenBefore ==
  ASSUME NEW q \in Plans, NEW n \in Nat, n < Len(q.nodes)
  PROVE  /\ NodeOf(q, n).output_attrs \in Seq(Nat \X DataTypes)
         /\ ~IsScan(NodeOf(q, n)) => NodeOf(q, n).left \in 0 .. n - 1 /\ NodeOf(q, n).right \in 0 .. n - 1
<1>1. PICK l : l = n + 1
  OBVIOUS
<1>2. /\ l \in DOMAIN q.nodes /\ WellFormed(q, l)
  BY <1>1, PlansAssumption
<1>3. l - 2 = n - 1
  BY <1>1
<1>4. PICK node : node = NodeOf(q, n) /\ node = q.nodes[l]
  BY <1>1 DEF NodeOf
<1>5. ~IsScan(node) => {node.left, node.right} \subseteq 0 .. n - 1
  BY <1>2, <1>3, <1>4 DEF WellFormed
<1>6. node.output_attrs \in Seq(Nat \X DataTypes)
  BY <1>2, <1>4 DEF WellFormed
<1> QED
  BY <1>4, <1>5, <1>6

LEMMA DenotationExists ==
  ASSUME NEW q \in Plans
  PROVE  \E f : Denotes(q, f)
<1>1. PICK L \in Nat : L = Len(q.nodes)
  BY PlansAssumption
<1> DEFINE U == { N \in Nat : N <= L => \E f : DenotesFirst(q, f, N) }
<1>2. 0 \in U
  <2>1. PICK f : f = [n \in 0 .. 0 - 1 |-> 0]
    OBVIOUS
  <2>2. 0 .. 0 - 1 = {}
    OBVIOUS
  <2>3. f = [n \in 0 .. 0 - 1 |-> RowsAt(q, f, n)]
    BY <2>1, <2>2
  <2> QED BY <2>3 DEF DenotesFirst
<1>3. ASSUME NEW N \in Nat, N \in U PROVE N + 1 \in U
  <2> SUFFICES ASSUME N + 1 <= L PROVE \E f : DenotesFirst(q, f, N + 1)
    OBVIOUS
  <2>1. PICK f : DenotesFirst(q, f, N)
    BY <1>3
  <2>2. \A n \in 0 .. N - 1 : f[n] = RowsAt(q, f, n)
    BY <2>1 DEF DenotesFirst
  <2>3. PICK last : last = RowsAt(q, f, N)
    OBVIOUS
  <2>4. PICK g : g = [n \in 0 .. (N + 1) - 1 |-> IF n = N THEN last ELSE f[n]]
    OBVIOUS
  <2>5. ASSUME NEW n \in 0 .. (N + 1) - 1
        PROVE  g[n] = RowsAt(q, g, n)
    <3>1. g[n] = RowsAt(q, f, n)
      <4>1. CASE n = N
        BY <2>3, <2>4, <4>1
      <4>2. CASE n # N
        <5>1. n \in 0 .. N - 1
          BY <4>2
        <5> QED BY <2>2, <2>4, <4>2, <5>1
      <4> QED BY <4>1, <4>2
    <3>2. n \in Nat /\ n < Len(q.nodes) /\ n <= N
      BY <1>1
    <3>3. PICK node : node = NodeOf(q, n)
      OBVIOUS
    <3>4. ~IsScan(node) => node.left \in 0 .. n - 1 /\ node.right \in 0 .. n - 1
      BY <3>2, <3>3, ChildrenBefore
    <3>5. \A i \in 0 .. n - 1 : g[i] = f[i]
      <4>1. \A i \in 0 .. n - 1 : i \in 0 .. (N + 1) - 1 /\ i # N
        BY <3>2
      <4> QED BY <2>4, <4>1
    <3>6. ~IsScan(node) => g[node.left] = f[node.left] /\ g[node.right] = f[node.right]
      BY <3>4, <3>5
    <3>7. RowsAt(q, g, n) = RowsAt(q, f, n)
      BY <3>3, <3>6 DEF RowsAt
    <3> QED BY <3>1, <3>7
  <2>6. g = [n \in 0 .. (N + 1) - 1 |-> g[n]]
    BY <2>4
  <2>7. g = [n \in 0 .. (N + 1) - 1 |-> RowsAt(q, g, n)]
    BY <2>5, <2>6
  <2> QED BY <2>7 DEF DenotesFirst
<1>4. \A N \in Nat : N \in U
  <2> HIDE DEF U
  <2> QED BY <1>2, <1>3, Induction
<1>5. \E f : DenotesFirst(q, f, L)
  BY <1>1, <1>4
<1> QED
  BY <1>1, <1>5 DEF Denotes

LEMMA DenotationIs ==
  ASSUME plan \in Plans
  PROVE  Denotes(plan, Denotation)
<1> DEFINE body(f, n) ==
      LET node == Node(n)
          attr(a) == node.output_attrs[a][1] + 1
      IN  IF IsScan(node)
            THEN LET table == plan.tables[node.table + 1].rows
                 IN  [r \in DOMAIN table |->
                        [a \in DOMAIN node.output_attrs |-> table[r][attr(a)]]]
            ELSE LET left  == f[node.left]
                     right == f[node.right]
                     key(pair) == <<left[pair[1]][node.left_attr + 1],
                                    right[pair[2]][node.right_attr + 1]>>
                 IN  [pair \in { p \in (DOMAIN left) \X (DOMAIN right) :
                                    key(p)[1] # Null /\ key(p)[1] = key(p)[2] } |->
                        LET row == left[pair[1]] \o right[pair[2]]
                        IN  [a \in DOMAIN node.output_attrs |-> row[attr(a)]]]
<1>1. Denotation = CHOOSE f : f = [n \in 0 .. Len(plan.nodes) - 1 |-> body(f, n)]
  BY DEF Denotation
<1>2. ASSUME NEW f, NEW n
      PROVE  body(f, n) = RowsAt(plan, f, n)
  BY DEF RowsAt, ScanRows, JoinRows, EqualKeys, NodeOf, Node
<1>3. PICK f : Denotes(plan, f)
  BY DenotationExists
<1> HIDE DEF body
<1>4. f = [n \in 0 .. Len(plan.nodes) - 1 |-> body(f, n)]
  BY <1>2, <1>3 DEF Denotes, DenotesFirst
<1>5. PICK D : D = Denotation
  OBVIOUS
<1>6. D = [n \in 0 .. Len(plan.nodes) - 1 |-> body(D, n)]
  BY <1>1, <1>4, <1>5
<1>7. Denotes(plan, D)
  BY <1>2, <1>6 DEF Denotes, DenotesFirst
<1> QED
  BY <1>5, <1>7
-----------------------------------------------------------------------------
(* Results that list the rows of their nodes.                              *)

\* h takes 1 .. m to D, one to one and onto.
Numbers(h, m, D) ==
  /\ h = [k \in 1 .. m |-> h[k]]
  /\ \A k \in 1 .. m : h[k] \in D
  /\ \A k, l \in 1 .. m : h[k] = h[l] => k = l
  /\ \A d \in D : \E k \in 1 .. m : h[k] = d

\* Row k of the result is row h[k] of the family.
ListsBy(in, attrs, result, rows, m, h) ==
  /\ m \in Nat /\ Numbers(h, m, DOMAIN rows)
  /\ \A a \in DOMAIN attrs :
       /\ result[a].num_rows = m
       /\ \A k \in 1 .. m :
            ResolveIn(in, attrs[a][2], get_value(result[a], k - 1)) = rows[h[k]][a]

Lists(in, attrs, result, rows) ==
  /\ DOMAIN result = DOMAIN attrs
  /\ \E m, h : ListsBy(in, attrs, result, rows, m, h)

LEMMA NumbersSame ==
  ASSUME NEW m \in Nat, NEW S, S \subseteq 1 .. m, NEW T, NEW h,
         \A k \in S : h[k] \in T,
         \A k, l \in S : h[k] = h[l] => k = l,
         \A d \in T : \E k \in S : h[k] = d
  PROVE  Cardinality(S) = Cardinality(T)
<1>1. IsFiniteSet(S)
  <2>1. IsFiniteSet(1 .. m)
    BY FS_Interval
  <2> QED BY <2>1, FS_Subset
<1>2. PICK g : g = [k \in S |-> h[k]]
  OBVIOUS
<1>3. g \in [S -> T] /\ \A k \in S : g[k] = h[k]
  BY <1>2
<1>4. g \in Injection(S, T)
  BY <1>2, <1>3 DEF Injection, IsInjective
<1>5. g \in Surjection(S, T)
  BY <1>3 DEF Surjection
<1>6. ExistsBijection(S, T)
  BY <1>4, <1>5 DEF Bijection, ExistsBijection
<1> QED
  BY <1>1, <1>6, FS_Bijection

\* Families whose members are numbered alike have the same rows.
LEMMA NumberedRows ==
  ASSUME NEW m \in Nat, NEW f, f = [k \in 1 .. m |-> f[k]], NEW g,
         NEW h, Numbers(h, m, DOMAIN g), \A k \in 1 .. m : f[k] = g[h[k]]
  PROVE  SameRows(f, g)
<1>1. DOMAIN f = 1 .. m
  OBVIOUS
<1>2. Cardinality(1 .. m) = Cardinality(DOMAIN g)
  <2>1. PICK S : S = 1 .. m
    OBVIOUS
  <2>2. Cardinality(S) = Cardinality(DOMAIN g)
    BY <2>1, NumbersSame DEF Numbers
  <2> QED BY <2>1, <2>2
<1>3. ASSUME NEW k \in 1 .. m
      PROVE  Cardinality({ l \in 1 .. m : f[l] = f[k] }) = Cardinality({ d \in DOMAIN g : g[d] = f[k] })
  <2>1. PICK S, T : S = { l \in 1 .. m : f[l] = f[k] } /\ T = { d \in DOMAIN g : g[d] = f[k] }
    OBVIOUS
  <2>2. S \subseteq 1 .. m
    BY <2>1
  <2>3. \A l \in S : h[l] \in T
    BY <2>1 DEF Numbers
  <2>4. \A i, l \in S : h[i] = h[l] => i = l
    BY <2>2 DEF Numbers
  <2>5. \A d \in T : \E l \in S : h[l] = d
    <3> TAKE d \in T
    <3>1. d \in DOMAIN g /\ g[d] = f[k]
      BY <2>1
    <3>2. PICK l \in 1 .. m : h[l] = d
      BY <3>1 DEF Numbers
    <3>3. l \in S
      BY <2>1, <3>1, <3>2
    <3> QED BY <3>2, <3>3
  <2>6. Cardinality(S) = Cardinality(T)
    BY <2>2, <2>3, <2>4, <2>5, NumbersSame
  <2> QED BY <2>1, <2>6
<1> QED
  BY <1>1, <1>2, <1>3 DEF SameRows

\* A scan lists the rows of its table in their order.
LEMMA ScanLists ==
  ASSUME plan \in Plans, InputsOK(plan, inputs), Findable(plan, inputs),
         NEW n \in Nat, n < Len(plan.nodes), IsScan(NodeOf(plan, n))
  PROVE  Lists(inputs, AttrsOf(plan, n), my_copy(NodeOf(plan, n)), ScanRows(plan, NodeOf(plan, n)))
<1>1. PICK node : node = NodeOf(plan, n) /\ node = plan.nodes[n + 1]
  BY DEF NodeOf
<1>2. n + 1 \in DOMAIN plan.nodes /\ WellFormed(plan, n + 1)
  BY PlansAssumption
<1>3. PICK attrs : attrs = AttrsOf(plan, n) /\ attrs = node.output_attrs
  BY <1>1 DEF AttrsOf
<1>4. attrs \in Seq(Nat \X DataTypes)
  BY <1>1, <1>3, ChildrenBefore
<1>5. PICK t : t = node.table
  OBVIOUS
<1>6. /\ t \in Nat /\ t + 1 \in DOMAIN plan.tables
      /\ \A a \in DOMAIN attrs : /\ attrs[a][1] + 1 \in DOMAIN plan.tables[t + 1].types
                                 /\ plan.tables[t + 1].types[attrs[a][1] + 1] = attrs[a][2]
                                 /\ attrs[a][2] = "VARCHAR" => t < TableIds /\ attrs[a][1] < ColumnIds
  BY <1>1, <1>2, <1>3, <1>5 DEF WellFormed, StringsAddressable
<1>7. PICK table : table = plan.tables[t + 1].rows
  OBVIOUS
<1>8. PICK m \in Nat : m = inputs[t + 1].num_rows /\ DOMAIN table = 1 .. m
  <2>1. inputs[t + 1] = to_columnar(plan.tables[t + 1].types, plan.tables[t + 1].rows)
    BY <1>6 DEF InputsOK
  <2>2. inputs[t + 1].num_rows = Len(plan.tables[t + 1].rows)
    BY <2>1 DEF to_columnar
  <2>3. /\ Len(plan.tables[t + 1].rows) \in Nat
        /\ DOMAIN plan.tables[t + 1].rows = 1 .. Len(plan.tables[t + 1].rows)
    BY <1>6, PlansAssumption DEF TypedTable
  <2> QED BY <1>7, <2>2, <2>3
<1>9. PICK copy : copy = [a \in DOMAIN attrs |-> CopyColumn(attrs[a][2], t, attrs[a][1])]
  OBVIOUS
<1>10. my_copy(node) = copy
  BY <1>3, <1>5, <1>9 DEF my_copy
<1>11. PICK rows : rows = ScanRows(plan, node)
  OBVIOUS
<1>12. rows = [r \in 1 .. m |-> [a \in DOMAIN attrs |-> table[r][attrs[a][1] + 1]]]
  BY <1>3, <1>5, <1>7, <1>8, <1>11 DEF ScanRows
<1>13. ASSUME NEW a \in DOMAIN attrs
       PROVE  /\ copy[a].num_rows = m
              /\ \A r \in 1 .. m : ResolveIn(inputs, attrs[a][2], get_value(copy[a], r - 1)) = rows[r][a]
  <2>1. PICK c, type : c = attrs[a][1] /\ type = attrs[a][2]
    OBVIOUS
  <2>2. c \in Nat
    BY <1>4, <2>1
  <2>3. IsColumn(plan, t, c) /\ type = TypeOf(plan, t, c)
    BY <1>6, <2>1, <2>2 DEF IsColumn, TypeOf
  <2>4. type = "VARCHAR" => t < TableIds /\ c < ColumnIds
    BY <1>6, <2>1
  <2>5. PICK column : column = CopyColumn(type, t, c)
    OBVIOUS
  <2>6. /\ column.num_rows = m
        /\ \A r \in 1 .. m : ResolveIn(inputs, type, get_value(column, r - 1)) = ColumnValues(plan, t, c)[r]
    BY <1>8, <2>3, <2>4, <2>5, CopyColumnExact
  <2>7. \A r \in 1 .. m : ColumnValues(plan, t, c)[r] = rows[r][a]
    BY <1>7, <1>8, <1>12, <2>1 DEF ColumnValues
  <2>8. copy[a] = column
    BY <1>9, <2>1, <2>5
  <2> QED BY <2>1, <2>6, <2>7, <2>8
<1>14. PICK h : h = [k \in 1 .. m |-> k]
  OBVIOUS
<1>15. Numbers(h, m, DOMAIN rows)
  BY <1>12, <1>14 DEF Numbers
<1>16. ListsBy(inputs, attrs, copy, rows, m, h)
  BY <1>13, <1>14, <1>15 DEF ListsBy
<1>17. DOMAIN copy = DOMAIN attrs
  BY <1>9
<1>18. Lists(inputs, attrs, copy, rows)
  BY <1>16, <1>17 DEF Lists
<1> QED
  BY <1>1, <1>3, <1>10, <1>11, <1>18

\* The key of a row of the result is that of the row it is numbered with.
KeysFound(keys, rows, key, m, h) ==
  /\ Len(keys) = m
  /\ \A p \in 0 .. m - 1 : p + 1 \in 1 .. m /\ keys[p + 1] = rows[h[p + 1]][key]

LEMMA KeysListed ==
  ASSUME NEW in, NEW attrs, NEW result, NEW rows, NEW m, NEW h, ListsBy(in, attrs, result, rows, m, h),
         NEW key \in DOMAIN attrs, attrs[key][2] = "INT32"
  PROVE  KeysFound(KeysOf(result[key]), rows, key, m, h)
<1>1. /\ m \in Nat /\ result[key].num_rows = m
      /\ \A k \in 1 .. m : ResolveIn(in, "INT32", get_value(result[key], k - 1)) = rows[h[k]][key]
  BY DEF ListsBy
<1>2. \A k \in 1 .. m : get_value(result[key], k - 1) = rows[h[k]][key]
  BY <1>1 DEF ResolveIn
<1>3. PICK keys : keys = KeysOf(result[key])
  OBVIOUS
<1>4. keys = [r \in 1 .. m |-> get_value(result[key], r - 1)]
  BY <1>1, <1>3 DEF KeysOf
<1>5. keys = [r \in 1 .. m |-> keys[r]] /\ DOMAIN keys = 1 .. m /\ \A r \in 1 .. m : keys[r] = rows[h[r]][key]
  BY <1>2, <1>4
<1>6. IsSequence(keys)
  BY <1>1, <1>5, FamilyIsSequence
<1>7. Len(keys) = m
  BY <1>1, <1>5, <1>6, LengthOf
<1>8. \A p \in 0 .. m - 1 : p + 1 \in 1 .. m
  BY <1>1
<1> QED
  BY <1>3, <1>5, <1>7, <1>8 DEF KeysFound

\* The rows of the children that a pair of row numbers stands for.
Joined(hl, hr, pair) == <<hl[pair[1] + 1], hr[pair[2] + 1]>>

PairsOf(j, pairs) ==
  pairs \in SetToSeqs(Join!Matches(j)) /\ Join!Enumerates(pairs, Join!Matches(j))

PairsAre(node, fl, fr, m1, m2, hl, hr, pairs) ==
  \E m \in Nat : /\ DOMAIN pairs = 1 .. m
                 /\ Numbers([k \in DOMAIN pairs |-> Joined(hl, hr, pairs[k])], m,
                            DOMAIN JoinRows(node, fl, fr))
                 /\ \A k \in 1 .. m : PairOf(pairs[k], m1, m2)

\* The pairs of a join number the rows that its node denotes.
LEMMA PairsNumber ==
  ASSUME NEW node, NEW fl, NEW m1 \in Nat, NEW hl, Numbers(hl, m1, DOMAIN fl),
         NEW fr, NEW m2 \in Nat, NEW hr, Numbers(hr, m2, DOMAIN fr),
         NEW j, KeysFound(j.left, fl, node.left_attr + 1, m1, hl),
         KeysFound(j.right, fr, node.right_attr + 1, m2, hr),
         NEW pairs, PairsOf(j, pairs)
  PROVE  PairsAre(node, fl, fr, m1, m2, hl, hr, pairs)
<1>17. PICK H : H = [k \in DOMAIN pairs |-> Joined(hl, hr, pairs[k])]
  OBVIOUS
<1>1. PICK M : M = Join!Matches(j)
  OBVIOUS
<1>2. PICK D : D = { p \in (DOMAIN fl) \X (DOMAIN fr) : EqualKeys(node, fl, fr, p) }
  OBVIOUS
<1>3. DOMAIN JoinRows(node, fl, fr) = D
  BY <1>2 DEF JoinRows
<1>4. M \subseteq (0 .. m1 - 1) \X (0 .. m2 - 1)
  BY <1>1 DEF Join!Matches, Join!Rows, KeysFound
<1>5. IsFiniteSet(M)
  <2>1. IsFiniteSet(0 .. m1 - 1) /\ IsFiniteSet(0 .. m2 - 1)
    <3>1. PICK a \in Int, b \in Int : a = m1 - 1 /\ b = m2 - 1
      OBVIOUS
    <3>2. IsFiniteSet(0 .. a) /\ IsFiniteSet(0 .. b)
      BY FS_Interval
    <3> QED BY <3>1, <3>2
  <2>2. IsFiniteSet((0 .. m1 - 1) \X (0 .. m2 - 1))
    BY <2>1, FS_Product
  <2> QED BY <1>4, <2>2, FS_Subset
<1>6. PICK m \in Nat : m = Cardinality(M)
  BY <1>5, FS_CardinalityType
<1>7. pairs \in [1 .. m -> M] /\ \A k, l \in 1 .. m : pairs[k] = pairs[l] => k = l
  BY <1>1, <1>6 DEF SetToSeqs, PairsOf
<1>8. \A p \in M : \E k \in 1 .. m : pairs[k] = p
  <2>1. { pairs[k] : k \in DOMAIN pairs } = M
    BY <1>1 DEF Join!Enumerates, PairsOf
  <2> QED BY <1>7, <2>1
<1>9. ASSUME NEW x \in 0 .. m1 - 1, NEW y \in 0 .. m2 - 1
      PROVE  <<x, y>> \in M <=> Joined(hl, hr, <<x, y>>) \in D
  <2>1. x + 1 \in 1 .. m1 /\ y + 1 \in 1 .. m2
    OBVIOUS
  <2>2. PICK d, e : d = hl[x + 1] /\ e = hr[y + 1]
    OBVIOUS
  <2>3. d \in DOMAIN fl /\ e \in DOMAIN fr
    BY <2>1, <2>2 DEF Numbers
  <2>4. j.left[x + 1] = fl[d][node.left_attr + 1] /\ j.right[y + 1] = fr[e][node.right_attr + 1]
    BY <2>2 DEF KeysFound
  <2>5. <<x, y>> \in M <=> j.left[x + 1] # Null /\ j.left[x + 1] = j.right[y + 1]
    <3>1. Len(j.left) = m1 /\ Len(j.right) = m2
      BY DEF KeysFound
    <3> QED BY <1>1, <3>1 DEF Join!Matches, Join!Rows, Join!get_value
  <2>6. Joined(hl, hr, <<x, y>>) = <<d, e>>
    BY <2>2 DEF Joined
  <2>7. <<d, e>> \in D <=> EqualKeys(node, fl, fr, <<d, e>>)
    BY <1>2, <2>3
  <2>8. EqualKeys(node, fl, fr, <<d, e>>)
          <=> /\ fl[d][node.left_attr + 1] # Null
              /\ fl[d][node.left_attr + 1] = fr[e][node.right_attr + 1]
    BY DEF EqualKeys
  <2> QED BY <2>4, <2>5, <2>6, <2>7, <2>8
<1>10. ASSUME NEW p \in M
       PROVE  /\ p[1] \in 0 .. m1 - 1 /\ p[2] \in 0 .. m2 - 1 /\ p = <<p[1], p[2]>>
              /\ p[1] + 1 \in 1 .. m1 /\ p[2] + 1 \in 1 .. m2
  <2>1. p \in (0 .. m1 - 1) \X (0 .. m2 - 1)
    BY <1>4
  <2>2. p[1] \in 0 .. m1 - 1 /\ p[2] \in 0 .. m2 - 1 /\ p = <<p[1], p[2]>>
    BY <2>1
  <2> QED BY <2>2
<1>11. H = [k \in 1 .. m |-> H[k]] /\ \A k \in 1 .. m : H[k] = Joined(hl, hr, pairs[k])
  BY <1>7, <1>17
<1>12. ASSUME NEW k \in 1 .. m
       PROVE  H[k] \in D /\ PairOf(pairs[k], m1, m2)
  <2>1. PICK p \in M : p = pairs[k]
    BY <1>7
  <2>2. Joined(hl, hr, p) \in D
    BY <1>9, <1>10, <2>1
  <2> QED BY <1>10, <1>11, <2>1, <2>2 DEF PairOf
<1>13. ASSUME NEW k \in 1 .. m, NEW l \in 1 .. m, H[k] = H[l]
       PROVE  k = l
  <2>1. PICK p \in M, r \in M : p = pairs[k] /\ r = pairs[l]
    BY <1>7
  <2>2. Joined(hl, hr, p) = Joined(hl, hr, r)
    BY <1>11, <1>13, <2>1
  <2>3. hl[p[1] + 1] = hl[r[1] + 1] /\ hr[p[2] + 1] = hr[r[2] + 1]
    BY <2>2 DEF Joined
  <2>4. /\ p[1] \in Int /\ p[2] \in Int /\ r[1] \in Int /\ r[2] \in Int
        /\ p[1] + 1 \in 1 .. m1 /\ p[2] + 1 \in 1 .. m2 /\ r[1] + 1 \in 1 .. m1 /\ r[2] + 1 \in 1 .. m2
        /\ p = <<p[1], p[2]>> /\ r = <<r[1], r[2]>>
    BY <1>10
  <2>5. p[1] + 1 = r[1] + 1 /\ p[2] + 1 = r[2] + 1
    BY <2>3, <2>4 DEF Numbers
  <2>6. p[1] = r[1] /\ p[2] = r[2]
    BY <2>4, <2>5
  <2>7. p = r
    BY <2>4, <2>6
  <2> QED BY <1>7, <2>1, <2>7
<1>14. ASSUME NEW d \in D
       PROVE  \E k \in 1 .. m : H[k] = d
  <2>1. d[1] \in DOMAIN fl /\ d[2] \in DOMAIN fr /\ d = <<d[1], d[2]>>
    BY <1>2
  <2>2. PICK i \in 1 .. m1 : hl[i] = d[1]
    BY <2>1 DEF Numbers
  <2>3. PICK l \in 1 .. m2 : hr[l] = d[2]
    BY <2>1 DEF Numbers
  <2>4. PICK x \in 0 .. m1 - 1, y \in 0 .. m2 - 1 : i = x + 1 /\ l = y + 1
    <3>1. i - 1 \in 0 .. m1 - 1 /\ i = (i - 1) + 1 /\ l - 1 \in 0 .. m2 - 1 /\ l = (l - 1) + 1
      OBVIOUS
    <3> QED BY <3>1
  <2>5. Joined(hl, hr, <<x, y>>) = d
    BY <2>1, <2>2, <2>3, <2>4 DEF Joined
  <2>6. <<x, y>> \in M
    BY <1>9, <2>5
  <2>7. PICK k \in 1 .. m : pairs[k] = <<x, y>>
    BY <1>8, <2>6
  <2> QED BY <1>11, <2>5, <2>7
<1>15. DOMAIN pairs = 1 .. m
  BY <1>7
<1>16. Numbers(H, m, D)
  BY <1>11, <1>12, <1>13, <1>14 DEF Numbers
<1> QED
  BY <1>3, <1>12, <1>15, <1>16, <1>17 DEF PairsAre

\* Every row of a family has the attributes of its node.
RowsHave(rows, attrs) ==
  \A x \in DOMAIN rows : rows[x] = [a \in DOMAIN attrs |-> rows[x][a]]

LEMMA NextIn ==
  ASSUME NEW m \in Nat, NEW x \in 0 .. m - 1
  PROVE  x + 1 \in 1 .. m /\ (x + 1) - 1 = x
OBVIOUS

\* A child of a join, its result and the rows that this lists.
ListedChild(in, attrs, result, rows, m, h) ==
  /\ attrs \in Seq(Nat \X DataTypes)
  /\ result = [a \in DOMAIN attrs |-> result[a]]
  /\ RowsHave(rows, attrs)
  /\ ListsBy(in, attrs, result, rows, m, h)

OutputIs(in, type, left, right, idx, pair, fl, fr, d) ==
  ResolveIn(in, type, OutputValue(left, right, idx, pair)) = (fl[d[1]] \o fr[d[2]])[idx + 1]

\* A column of the output leads to what the rows of the children have there.
LEMMA OutputLeads ==
  ASSUME NEW in, NEW lefts, NEW left, NEW fl, NEW m1, NEW hl, ListedChild(in, lefts, left, fl, m1, hl),
         NEW rights, NEW right, NEW fr, NEW m2, NEW hr, ListedChild(in, rights, right, fr, m2, hr),
         NEW idx \in Nat, idx < Len(lefts \o rights),
         NEW type, (lefts \o rights)[idx + 1][2] = type,
         NEW pair, PairOf(pair, m1, m2)
  PROVE  OutputIs(in, type, left, right, idx, pair, fl, fr, Joined(hl, hr, pair))
<1>17. /\ lefts \in Seq(Nat \X DataTypes) /\ left = [a \in DOMAIN lefts |-> left[a]]
       /\ RowsHave(fl, lefts) /\ ListsBy(in, lefts, left, fl, m1, hl)
  BY DEF ListedChild
<1>18. /\ rights \in Seq(Nat \X DataTypes) /\ right = [a \in DOMAIN rights |-> right[a]]
       /\ RowsHave(fr, rights) /\ ListsBy(in, rights, right, fr, m2, hr)
  BY DEF ListedChild
<1>1. PICK ll \in Nat, lr \in Nat : /\ ll = Len(lefts) /\ lr = Len(rights)
                                    /\ DOMAIN lefts = 1 .. ll /\ DOMAIN rights = 1 .. lr
  <2>1. Len(lefts) \in Nat /\ DOMAIN lefts = 1 .. Len(lefts)
    BY <1>17
  <2>2. Len(rights) \in Nat /\ DOMAIN rights = 1 .. Len(rights)
    BY <1>18
  <2> QED BY <2>1, <2>2
<1>2. m1 \in Nat /\ m2 \in Nat
  BY <1>17, <1>18 DEF ListsBy
<1>3. PICK p1 \in 0 .. m1 - 1, p2 \in 0 .. m2 - 1 : p1 = pair[1] /\ p2 = pair[2]
  BY DEF PairOf
<1>4. PICK i \in 1 .. m1, j \in 1 .. m2 : i = p1 + 1 /\ j = p2 + 1 /\ i - 1 = p1 /\ j - 1 = p2
  <2>1. PICK a \in Nat, b \in Nat : a = m1 /\ b = m2
    BY <1>2
  <2>2. PICK x \in 0 .. a - 1, y \in 0 .. b - 1 : x = p1 /\ y = p2
    BY <1>3, <2>1
  <2>3. x + 1 \in 1 .. a /\ y + 1 \in 1 .. b /\ (x + 1) - 1 = x /\ (y + 1) - 1 = y
    BY NextIn
  <2> QED BY <2>1, <2>2, <2>3
<1>5. PICK r, s : r = fl[hl[i]] /\ s = fr[hr[j]]
  OBVIOUS
<1>6. fl[Joined(hl, hr, pair)[1]] = r /\ fr[Joined(hl, hr, pair)[2]] = s
  BY <1>3, <1>4, <1>5 DEF Joined
<1>7. hl[i] \in DOMAIN fl /\ hr[j] \in DOMAIN fr
  BY <1>17, <1>18 DEF ListsBy, Numbers
<1>8. r = [a \in 1 .. ll |-> r[a]] /\ s = [a \in 1 .. lr |-> s[a]]
  BY <1>1, <1>5, <1>7, <1>17, <1>18 DEF RowsHave
<1>9. IsSequence(r) /\ IsSequence(s)
  BY <1>8, FamilyIsSequence
<1>10. Len(r) = ll /\ Len(s) = lr
  <2>1. DOMAIN r = 1 .. ll /\ DOMAIN s = 1 .. lr
    BY <1>8
  <2>2. Len(r) \in Nat /\ DOMAIN r = 1 .. Len(r)
    BY <1>9, LengthOf
  <2>3. Len(s) \in Nat /\ DOMAIN s = 1 .. Len(s)
    BY <1>9, LengthOf
  <2>4. Len(r) = ll
    BY <2>1, <2>2
  <2>5. Len(s) = lr
    BY <2>1, <2>3
  <2> QED BY <2>4, <2>5
<1>11. ConcatFacts(r, s, ll, lr)
  BY <1>9, <1>10, ConcatAt
<1>12. Len(left) = ll
  <2>1. left = [a \in 1 .. ll |-> left[a]] /\ DOMAIN left = 1 .. ll
    BY <1>1, <1>17
  <2>2. IsSequence(left)
    BY <2>1, FamilyIsSequence
  <2> QED BY <2>1, <2>2, LengthOf
<1>13. /\ Len(lefts \o rights) = ll + lr
       /\ \A b \in 1 .. ll + lr :
            (lefts \o rights)[b] = IF b <= ll THEN lefts[b] ELSE rights[b - ll]
  BY <1>1, <1>17, <1>18, ConcatProperties
<1>14. PICK v : v = OutputValue(left, right, idx, pair)
  OBVIOUS
<1>15. CASE idx < ll
  <2>1. PICK a \in 1 .. ll : a = idx + 1
    <3>1. idx + 1 \in 1 .. ll
      BY <1>15
    <3> QED BY <3>1
  <2>2. v = get_value(left[a], p1)
    BY <1>3, <1>12, <1>14, <1>15, <2>1 DEF OutputValue
  <2>3. lefts[a][2] = type
    <3>1. a \in 1 .. ll + lr /\ a <= ll
      BY <2>1
    <3> QED BY <1>13, <2>1, <3>1
  <2>4. ResolveIn(in, lefts[a][2], get_value(left[a], i - 1)) = fl[hl[i]][a]
    BY <1>1, <1>4, <1>17, <2>1 DEF ListsBy
  <2>5. ResolveIn(in, type, v) = r[a]
    BY <1>4, <1>5, <2>2, <2>3, <2>4
  <2>6. (r \o s)[a] = r[a]
    BY <1>11, <2>1 DEF ConcatFacts
  <2> QED BY <1>6, <1>14, <2>1, <2>5, <2>6 DEF OutputIs
<1>16. CASE ~(idx < ll)
  <2>1. PICK a \in 1 .. lr : a = idx - ll + 1 /\ a = idx + 1 - ll /\ ll + a = idx + 1
    <3>1. idx < ll + lr
      BY <1>13
    <3>2. idx - ll + 1 \in 1 .. lr /\ idx - ll + 1 = idx + 1 - ll /\ ll + (idx - ll + 1) = idx + 1
      BY <1>16, <3>1
    <3> QED BY <3>2
  <2>2. v = get_value(right[a], p2)
    BY <1>3, <1>12, <1>14, <1>16, <2>1 DEF OutputValue
  <2>3. rights[a][2] = type
    <3>1. ll + a \in 1 .. ll + lr /\ ~(ll + a <= ll) /\ (ll + a) - ll = a
      OBVIOUS
    <3>2. (lefts \o rights)[ll + a] = rights[a]
      BY <1>13, <3>1
    <3> QED BY <2>1, <3>2
  <2>4. ResolveIn(in, rights[a][2], get_value(right[a], j - 1)) = fr[hr[j]][a]
    BY <1>1, <1>4, <1>18, <2>1 DEF ListsBy
  <2>5. ResolveIn(in, type, v) = s[a]
    BY <1>4, <1>5, <2>2, <2>3, <2>4
  <2>6. (r \o s)[ll + a] = s[a]
    BY <1>11, <2>1 DEF ConcatFacts
  <2> QED BY <1>6, <1>14, <2>1, <2>5, <2>6 DEF OutputIs
<1> QED
  BY <1>15, <1>16 DEF OutputIs

\* A join lists the pairs of rows with equal keys in the order of its output.
LEMMA JoinLists ==
  ASSUME NEW q \in Plans, NEW in, NEW n \in Nat, n < Len(q.nodes),
         NEW node, node = NodeOf(q, n), ~IsScan(node),
         NEW lefts, lefts = AttrsOf(q, node.left), NEW rights, rights = AttrsOf(q, node.right),
         NEW left, left = [a \in DOMAIN lefts |-> left[a]],
         NEW right, right = [a \in DOMAIN rights |-> right[a]],
         NEW fl, RowsHave(fl, lefts), Lists(in, lefts, left, fl),
         NEW fr, RowsHave(fr, rights), Lists(in, rights, right, fr),
         NEW j, j.left = KeysOf(left[node.left_attr + 1]), j.right = KeysOf(right[node.right_attr + 1]),
         NEW pairs, pairs \in SetToSeqs(Join!Matches(j)), Join!Enumerates(pairs, Join!Matches(j))
  PROVE  Lists(in, AttrsOf(q, n), JoinResult(left, right, node.output_attrs, pairs),
               JoinRows(node, fl, fr))
<1>1. PICK m1, hl : ListsBy(in, lefts, left, fl, m1, hl)
  BY DEF Lists
<1>2. PICK m2, hr : ListsBy(in, rights, right, fr, m2, hr)
  BY DEF Lists
<1>3. m1 \in Nat /\ m2 \in Nat /\ Numbers(hl, m1, DOMAIN fl) /\ Numbers(hr, m2, DOMAIN fr)
  BY <1>1, <1>2 DEF ListsBy
<1>4. PICK attrs : attrs = AttrsOf(q, n) /\ attrs = node.output_attrs
  BY DEF AttrsOf, NodeOf
<1>5. PICK l : l = n + 1 /\ l \in DOMAIN q.nodes /\ WellFormed(q, l) /\ node = q.nodes[l] /\ l - 2 = n - 1
  BY PlansAssumption DEF NodeOf
<1>6. attrs \in Seq(Nat \X DataTypes) /\ node.left \in 0 .. n - 1 /\ node.right \in 0 .. n - 1
  BY <1>4, ChildrenBefore
<1>7. lefts \in Seq(Nat \X DataTypes) /\ rights \in Seq(Nat \X DataTypes)
  <2>1. /\ node.left \in Nat /\ node.left < Len(q.nodes)
        /\ node.right \in Nat /\ node.right < Len(q.nodes)
    BY <1>6, PlansAssumption
  <2>2. PICK a \in Nat, b \in Nat : a = node.left /\ b = node.right /\ a < Len(q.nodes) /\ b < Len(q.nodes)
    BY <2>1
  <2>3. NodeOf(q, a).output_attrs \in Seq(Nat \X DataTypes)
    BY <2>2, ChildrenBefore
  <2>4. NodeOf(q, b).output_attrs \in Seq(Nat \X DataTypes)
    BY <2>2, ChildrenBefore
  <2> QED BY <2>2, <2>3, <2>4 DEF AttrsOf, NodeOf
<1>8. /\ node.left_attr \in 0 .. Len(lefts) - 1 /\ node.right_attr \in 0 .. Len(rights) - 1
      /\ lefts[node.left_attr + 1][2] = "INT32" /\ rights[node.right_attr + 1][2] = "INT32"
      /\ \A a \in DOMAIN attrs : /\ attrs[a][1] < Len(lefts \o rights)
                                 /\ (lefts \o rights)[attrs[a][1] + 1][2] = attrs[a][2]
  BY <1>4, <1>5 DEF WellFormed, AttrsOf
<1>9. node.left_attr + 1 \in DOMAIN lefts /\ node.right_attr + 1 \in DOMAIN rights
  <2>1. node.left_attr + 1 \in DOMAIN lefts
    BY <1>7, <1>8
  <2>2. node.right_attr + 1 \in DOMAIN rights
    BY <1>7, <1>8
  <2> QED BY <2>1, <2>2
<1>10. KeysFound(j.left, fl, node.left_attr + 1, m1, hl)
  <2>1. PICK key \in DOMAIN lefts : key = node.left_attr + 1
    BY <1>9
  <2>2. KeysFound(KeysOf(left[key]), fl, key, m1, hl)
    BY <1>1, <1>8, <2>1, KeysListed
  <2> QED BY <2>1, <2>2
<1>11. KeysFound(j.right, fr, node.right_attr + 1, m2, hr)
  <2>1. PICK key \in DOMAIN rights : key = node.right_attr + 1
    BY <1>9
  <2>2. KeysFound(KeysOf(right[key]), fr, key, m2, hr)
    BY <1>2, <1>8, <2>1, KeysListed
  <2> QED BY <2>1, <2>2
<1>12. PICK H : H = [k \in DOMAIN pairs |-> Joined(hl, hr, pairs[k])]
  OBVIOUS
<1>21. ListedChild(in, lefts, left, fl, m1, hl) /\ ListedChild(in, rights, right, fr, m2, hr)
  BY <1>1, <1>2, <1>7 DEF ListedChild
<1>13. PICK rows : rows = JoinRows(node, fl, fr)
  OBVIOUS
<1>14. PICK m \in Nat : /\ DOMAIN pairs = 1 .. m /\ Numbers(H, m, DOMAIN rows)
                        /\ \A k \in 1 .. m : PairOf(pairs[k], m1, m2)
  <2>1. PICK some : some = node
    OBVIOUS
  <2>2. KeysFound(j.left, fl, some.left_attr + 1, m1, hl) /\ KeysFound(j.right, fr, some.right_attr + 1, m2, hr)
    BY <1>10, <1>11, <2>1
  <2>3. PairsOf(j, pairs)
    BY DEF PairsOf
  <2>4. PairsAre(some, fl, fr, m1, m2, hl, hr, pairs)
    BY <1>3, <2>2, <2>3, PairsNumber
  <2> QED BY <1>12, <1>13, <2>1, <2>4 DEF PairsAre
<1> DEFINE values(a) == [k \in DOMAIN pairs |-> OutputValue(left, right, attrs[a][1], pairs[k])]
<1>15. PICK result : result = [a \in DOMAIN attrs |-> ColumnOf(values(a))]
  OBVIOUS
<1>16. JoinResult(left, right, node.output_attrs, pairs) = result
  BY <1>4, <1>15 DEF JoinResult
<1>17. ASSUME NEW a \in DOMAIN attrs
       PROVE  /\ result[a].num_rows = m
              /\ \A k \in 1 .. m :
                   ResolveIn(in, attrs[a][2], get_value(result[a], k - 1)) = rows[H[k]][a]
  <2>1. PICK idx \in Nat : idx = attrs[a][1]
    BY <1>6
  <2>10. PICK type : type = attrs[a][2]
    OBVIOUS
  <2>2. PICK f : f = [k \in 1 .. m |-> OutputValue(left, right, idx, pairs[k])]
    OBVIOUS
  <2>3. result[a] = ColumnOf(f)
    BY <1>14, <1>15, <2>1, <2>2
  <2>4. f = [k \in 1 .. m |-> f[k]] /\ DOMAIN f = 1 .. m
    BY <2>2
  <2>5. IsSequence(f)
    BY <2>4, FamilyIsSequence
  <2>6. Len(f) = m
    BY <2>4, <2>5, LengthOf
  <2>7. PICK column : column = ColumnOf(f)
    OBVIOUS
  <2>8. column.num_rows = m /\ \A i \in 0 .. m - 1 : get_value(column, i) = f[i + 1]
    <3>1. /\ column.num_rows = Len(f)
          /\ \A i \in 0 .. Len(f) - 1 : get_value(column, i) = f[i + 1]
      BY <2>5, <2>7, ColumnOfExact
    <3> QED BY <2>6, <3>1
  <2>9. ASSUME NEW k \in 1 .. m
        PROVE  ResolveIn(in, type, get_value(column, k - 1)) = rows[H[k]][a]
    <3>1. k - 1 \in 0 .. m - 1 /\ (k - 1) + 1 = k
      OBVIOUS
    <3>2. get_value(column, k - 1) = OutputValue(left, right, idx, pairs[k])
      BY <2>2, <2>8, <3>1
    <3>3. PICK pair : pair = pairs[k] /\ PairOf(pair, m1, m2)
      BY <1>14
    <3>4. idx < Len(lefts \o rights) /\ (lefts \o rights)[idx + 1][2] = type
      BY <1>8, <2>1, <2>10
    <3>5. OutputIs(in, type, left, right, idx, pair, fl, fr, Joined(hl, hr, pair))
      BY <1>21, <3>3, <3>4, OutputLeads
    <3>6. H[k] = Joined(hl, hr, pair)
      BY <1>12, <1>14, <3>3
    <3>7. H[k] \in DOMAIN rows
      BY <1>14 DEF Numbers
    <3>8. PICK d : d = H[k]
      OBVIOUS
    <3>9. rows[d] = [b \in DOMAIN attrs |-> (fl[d[1]] \o fr[d[2]])[attrs[b][1] + 1]]
      BY <1>4, <1>13, <3>7, <3>8 DEF JoinRows
    <3>10. rows[d][a] = (fl[d[1]] \o fr[d[2]])[idx + 1]
      BY <2>1, <3>9
    <3> QED BY <3>2, <3>3, <3>5, <3>6, <3>8, <3>10 DEF OutputIs
  <2> QED BY <2>10, <2>3, <2>7, <2>8, <2>9
<1>18. ListsBy(in, attrs, result, rows, m, H)
  BY <1>14, <1>17 DEF ListsBy
<1>19. DOMAIN result = DOMAIN attrs
  BY <1>15
<1>20. Lists(in, attrs, result, rows)
  BY <1>18, <1>19 DEF Lists
<1> QED
  BY <1>4, <1>13, <1>16, <1>20
-----------------------------------------------------------------------------
(* Every result lists the rows of its node.                                *)

\* The rows of a node have its attributes.
LEMMA RowsAreTyped ==
  ASSUME NEW q \in Plans, NEW f, Denotes(q, f), NEW n \in Nat, n < Len(q.nodes)
  PROVE  RowsHave(f[n], AttrsOf(q, n))
<1>1. f[n] = RowsAt(q, f, n)
  <2>1. Len(q.nodes) \in Nat
    BY PlansAssumption
  <2>2. n \in 0 .. Len(q.nodes) - 1
    BY <2>1
  <2> QED BY <2>2 DEF Denotes, DenotesFirst
<1>2. PICK node : node = NodeOf(q, n)
  OBVIOUS
<1>3. PICK attrs : attrs = AttrsOf(q, n) /\ attrs = node.output_attrs
  BY <1>2 DEF AttrsOf, NodeOf
<1>4. PICK rows : rows = f[n]
  OBVIOUS
<1>5. CASE IsScan(node)
  <2>1. rows = ScanRows(q, node)
    BY <1>1, <1>2, <1>4, <1>5 DEF RowsAt
  <2>2. ASSUME NEW x \in DOMAIN rows
        PROVE  rows[x] = [a \in DOMAIN attrs |-> rows[x][a]]
    <3>1. rows[x] = [a \in DOMAIN attrs |-> q.tables[node.table + 1].rows[x][attrs[a][1] + 1]]
      BY <1>3, <2>1 DEF ScanRows
    <3> QED BY <3>1
  <2> QED BY <1>3, <1>4, <2>2 DEF RowsHave
<1>6. CASE ~IsScan(node)
  <2>1. PICK left, right : rows = JoinRows(node, left, right)
    BY <1>1, <1>2, <1>4, <1>6 DEF RowsAt
  <2>2. ASSUME NEW x \in DOMAIN rows
        PROVE  rows[x] = [a \in DOMAIN attrs |-> rows[x][a]]
    <3>1. rows[x] = [a \in DOMAIN attrs |-> (left[x[1]] \o right[x[2]])[attrs[a][1] + 1]]
      BY <1>3, <2>1 DEF JoinRows
    <3> QED BY <3>1
  <2> QED BY <1>3, <1>4, <2>2 DEF RowsHave
<1> QED
  BY <1>5, <1>6

\* What a result lists is what its node denotes.
LEMMA ListedRows ==
  ASSUME NEW attrs, NEW result, NEW rows, Lists(inputs, attrs, result, rows),
         RowsHave(rows, attrs), result # <<>>, NEW node, node.output_attrs = attrs,
         1 \in DOMAIN result
  PROVE  SameRows(RowsOf(node, result), rows)
<1>1. PICK m, h : ListsBy(inputs, attrs, result, rows, m, h)
  BY DEF Lists
<1>2. /\ m \in Nat /\ Numbers(h, m, DOMAIN rows)
      /\ \A a \in DOMAIN attrs :
           /\ result[a].num_rows = m
           /\ \A k \in 1 .. m :
                ResolveIn(inputs, attrs[a][2], get_value(result[a], k - 1)) = rows[h[k]][a]
  BY <1>1 DEF ListsBy
<1>3. DOMAIN result = DOMAIN attrs
  BY DEF Lists
<1>4. result[1].num_rows = m
  BY <1>2, <1>3
<1>5. PICK f : f = RowsOf(node, result)
  OBVIOUS
<1> DEFINE values == [a \in DOMAIN result |-> Values(node.output_attrs[a][2], result[a])]
<1>6. f = [r \in 1 .. m |-> [a \in DOMAIN result |-> values[a][r]]]
  BY <1>4, <1>5 DEF RowsOf
<1>7. ASSUME NEW a \in DOMAIN result, NEW r \in 1 .. m
      PROVE  values[a][r] = rows[h[r]][a]
  <2>1. PICK type, column : type = attrs[a][2] /\ column = result[a]
    OBVIOUS
  <2>2. values[a] = ValuesFor(inputs, type, column)
    BY <2>1, MaterializedAre
  <2>3. column.num_rows = m
    BY <1>2, <1>3, <2>1
  <2>4. values[a][r] = ResolveIn(inputs, type, get_value(column, r - 1))
    BY <2>2, <2>3 DEF ValuesFor
  <2> QED BY <1>2, <1>3, <2>1, <2>4
<1>8. ASSUME NEW r \in 1 .. m
      PROVE  f[r] = rows[h[r]]
  <2>1. f[r] = [a \in DOMAIN result |-> values[a][r]]
    BY <1>6
  <2>2. h[r] \in DOMAIN rows
    BY <1>2 DEF Numbers
  <2>3. rows[h[r]] = [a \in DOMAIN attrs |-> rows[h[r]][a]]
    BY <2>2 DEF RowsHave
  <2> QED BY <1>3, <1>7, <2>1, <2>3
<1> HIDE DEF values
<1>9. f = [r \in 1 .. m |-> f[r]]
  BY <1>6
<1> QED
  BY <1>2, <1>5, <1>8, <1>9, NumberedRows

LEMMA ListedRepresents ==
  ASSUME plan \in Plans, NEW n \in Nat, n < Len(plan.nodes), NEW result,
         Lists(inputs, AttrsOf(plan, n), result, Denotation[n]),
         result = [a \in DOMAIN AttrsOf(plan, n) |-> result[a]]
  PROVE  Represents(n, result)
<1>1. PICK attrs : attrs = AttrsOf(plan, n) /\ attrs = Node(n).output_attrs /\ attrs = NodeOf(plan, n).output_attrs
  BY DEF AttrsOf, Node, NodeOf
<1>2. PICK rows : rows = Denotation[n]
  OBVIOUS
<1>3. Lists(inputs, attrs, result, rows) /\ DOMAIN result = DOMAIN attrs
  BY <1>1, <1>2 DEF Lists
<1>4. \A a, b \in DOMAIN result : result[a].num_rows = result[b].num_rows
  <2>1. PICK m, h : ListsBy(inputs, attrs, result, rows, m, h)
    BY <1>3 DEF Lists
  <2> QED BY <1>3, <2>1 DEF ListsBy
<1>5. RowsHave(rows, attrs)
  <2>1. PICK D : D = Denotation
    OBVIOUS
  <2>2. Denotes(plan, D)
    BY <2>1, DenotationIs
  <2>3. RowsHave(D[n], AttrsOf(plan, n))
    BY <2>2, RowsAreTyped
  <2> QED BY <1>1, <1>2, <2>1, <2>3
<1>6. ASSUME result # <<>>
      PROVE  1 \in DOMAIN result
  <2>1. attrs \in Seq(Nat \X DataTypes)
    BY <1>1, ChildrenBefore
  <2>2. PICK l \in Nat : l = Len(attrs) /\ DOMAIN attrs = 1 .. l
    BY <2>1
  <2>3. result = [a \in 1 .. l |-> result[a]]
    BY <1>1, <2>2
  <2>4. l # 0
    <3> SUFFICES ASSUME l = 0 PROVE FALSE
      OBVIOUS
    <3>1. DOMAIN result = {} /\ IsSequence(result)
      <4>1. DOMAIN result = 1 .. 0 /\ 1 .. 0 = {}
        BY <2>3
      <4> QED BY <2>3, <4>1, FamilyIsSequence
    <3>2. Len(result) = 0
      <4>1. Len(result) \in Nat /\ DOMAIN result = 1 .. Len(result)
        BY <3>1, LengthOf
      <4> QED BY <3>1, <4>1
    <3> QED BY <1>6, <3>1, <3>2, EmptySeq DEF IsSequence
  <2> QED BY <1>3, <2>2, <2>4
<1>7. result # <<>> => SameRows(RowsOf(Node(n), result), rows)
  <2>1. PICK node : node = Node(n) /\ node.output_attrs = attrs
    BY <1>1
  <2> QED BY <1>3, <1>5, <1>6, <2>1, ListedRows
<1> QED
  BY <1>1, <1>2, <1>3, <1>4, <1>7 DEF Represents
-----------------------------------------------------------------------------
(* Every call has the rows of its children.                                *)

\* The node that result i of a call of n is of.
ChildOf(q, n, i) == IF i = 1 THEN NodeOf(q, n).left ELSE NodeOf(q, n).right

\* D has the rows of every node; result lists those of n.
NodeListed(q, in, D, n, result) ==
  Findable(q, in) => Lists(in, AttrsOf(q, n), result, D[n])

CallListed(q, in, D, frame) ==
  /\ frame.node \in 0 .. Len(q.nodes) - 1
  /\ \A i \in DOMAIN frame.results :
       NodeListed(q, in, D, ChildOf(q, frame.node, i), frame.results[i])

ListedInv ==
  /\ ResultsInv
  /\ phase # "execute" => stack = <<>>
  /\ \A k \in DOMAIN stack : CallListed(plan, inputs, Denotation, stack[k])
  /\ phase # "execute" => NodeListed(plan, inputs, Denotation, plan.root, columns)

LEMMA InitListed == Init => ListedInv
<1> SUFFICES ASSUME Init PROVE ListedInv
  OBVIOUS
<1>1. ResultsInv /\ phase = "execute" /\ plan \in Plans
  BY InitResults DEF Init
<1>2. PICK frame : frame = [node |-> plan.root, results |-> <<>>]
  OBVIOUS
<1>3. stack = <<frame>> /\ frame.node = plan.root /\ frame.results = <<>>
  BY <1>2 DEF Init
<1>4. plan.root \in 0 .. Len(plan.nodes) - 1
  BY <1>1, PlansAssumption
<1>5. CallListed(plan, inputs, Denotation, frame)
  <2>1. DOMAIN <<>> = {}
    OBVIOUS
  <2> QED BY <1>3, <1>4, <2>1 DEF CallListed
<1>6. \A k \in DOMAIN stack : stack[k] = frame
  BY <1>3
<1> QED
  BY <1>1, <1>5, <1>6 DEF ListedInv

\* The rows of the nodes are those of the plan, which stays.
LEMMA DenotationStays ==
  ASSUME plan' = plan
  PROVE  Denotation' = Denotation
BY DEF Denotation, Node

\* A result goes to the call that waits for it.
ReturnedTo(result, m, frame) ==
  /\ Len(stack) = m + 1 /\ DOMAIN stack = 1 .. m + 1 /\ Top = stack[m + 1]
  /\ stack' = [k \in 1 .. m |-> IF k = m THEN frame ELSE stack[k]]
  /\ frame = [node |-> stack[m].node, results |-> Append(stack[m].results, result)]
  /\ CallOK(plan, inputs, stack[m]) /\ Calls(plan, stack[m], Top)

LEMMA ReturnsTo ==
  ASSUME ResultsInv, phase = "execute", NEW result, Return(result), Len(stack) # 1
  PROVE  \E m \in Nat \ {0} : \E frame : ReturnedTo(result, m, frame) /\ phase' = "execute"
<1>1. /\ CallsMatch(plan, inputs, stack)
      /\ Len(stack) \in Nat \ {0} /\ DOMAIN stack = 1 .. Len(stack)
      /\ Top = stack[Len(stack)]
  BY TopCall
<1>2. PICK m \in Nat \ {0} : Len(stack) = m + 1 /\ Len(stack) - 1 = m
  <2>1. Len(stack) - 1 \in Nat \ {0} /\ Len(stack) = (Len(stack) - 1) + 1
    BY <1>1
  <2> QED BY <2>1
<1>3. PICK S : stack \in Seq(S)
  BY <1>1 DEF CallsMatch, IsSequence
<1>4. PICK front : front = Front(stack)
  OBVIOUS
<1>5. front \in Seq(S) /\ Len(front) = m /\ \A k \in 1 .. m : front[k] = stack[k]
  BY <1>2, <1>3, <1>4, FrontOf
<1>6. m \in DOMAIN stack /\ m + 1 \in DOMAIN stack
  BY <1>1, <1>2
<1>7. CallOK(plan, inputs, stack[m]) /\ Calls(plan, stack[m], Top)
  BY <1>1, <1>2, <1>6 DEF CallsMatch
<1>8. PICK n, r : stack[m] = [node |-> n, results |-> r]
  BY <1>7 DEF CallOK
<1>9. PICK frame : frame = [node |-> n, results |-> Append(r, result)]
  OBVIOUS
<1>10. stack' = [front EXCEPT ![m] = frame] /\ phase' = "execute"
  <2>1. stack' = [front EXCEPT ![m].results = Append(@, result)] /\ phase' = "execute"
    BY <1>2, <1>4 DEF Return
  <2>2. front[m] = stack[m]
    BY <1>5
  <2>3. [front[m] EXCEPT !.results = Append(@, result)] = frame
    BY <1>8, <1>9, <2>2, SMTT(30)
  <2> QED BY <2>1, <2>3
<1>11. front = [k \in 1 .. m |-> front[k]]
  <2>1. front = [k \in 1 .. Len(front) |-> front[k]]
    BY <1>5
  <2> QED BY <1>5, <2>1
<1>12. [front EXCEPT ![m] = frame] = [k \in 1 .. m |-> IF k = m THEN frame ELSE stack[k]]
  BY <1>5, <1>11
<1>13. frame = [node |-> stack[m].node, results |-> Append(stack[m].results, result)]
  BY <1>8, <1>9
<1>14. stack' = [k \in 1 .. m |-> IF k = m THEN frame ELSE stack[k]] /\ phase' = "execute"
  BY <1>10, <1>12
<1>15. Len(stack) = m + 1 /\ DOMAIN stack = 1 .. m + 1 /\ Top = stack[m + 1]
  BY <1>1, <1>2
<1>16. ReturnedTo(result, m, frame)
  BY <1>7, <1>13, <1>14, <1>15 DEF ReturnedTo
<1> QED
  BY <1>14, <1>16

\* The result that comes is that of the child that was called.
LEMMA ListedAdded ==
  ASSUME NEW q, NEW in, NEW D, NEW frame, CallOK(q, in, frame), CallListed(q, in, D, frame),
         Len(frame.results) # 2, NEW result, NodeListed(q, in, D, Awaited(q, frame), result),
         NEW f, f = [node |-> frame.node, results |-> Append(frame.results, result)]
  PROVE  CallListed(q, in, D, f)
<1>1. PICK r : r = frame.results
  OBVIOUS
<1>2. PICK n : n = frame.node
  OBVIOUS
<1>3. /\ IsSequence(r) /\ n \in 0 .. Len(q.nodes) - 1
      /\ r # <<>> => Len(r) \in 1 .. 2
      /\ \A i \in DOMAIN r : NodeListed(q, in, D, ChildOf(q, n, i), r[i])
  BY <1>1, <1>2 DEF CallOK, CallListed
<1>4. PICK more : more = Append(r, result)
  OBVIOUS
<1>5. f.node = n /\ f.results = more
  BY <1>1, <1>2, <1>4
<1>6. PICK l \in {0, 1} : l = Len(r) /\ (l = 0 <=> r = <<>>) /\ DOMAIN r = 1 .. l
  <2>1. DOMAIN r = 1 .. Len(r)
    BY <1>3, LengthOf
  <2>2. CASE r = <<>>
    <3>1. Len(r) = 0
      BY <2>2
    <3> QED BY <2>1, <2>2, <3>1
  <2>3. CASE r # <<>>
    <3>1. Len(r) = 1
      BY <1>1, <1>3, <2>3
    <3> QED BY <2>1, <2>3, <3>1
  <2> QED BY <2>2, <2>3
<1>7. /\ DOMAIN more = 1 .. l + 1
      /\ \A i \in 1 .. l : more[i] = r[i]
      /\ more[l + 1] = result
  <2>1. PICK S : r \in Seq(S)
    BY <1>3 DEF IsSequence
  <2>2. r \in Seq(S \cup {result})
    BY <2>1
  <2>3. /\ more \in Seq(S \cup {result}) /\ Len(more) = l + 1
        /\ \A i \in 1 .. l : more[i] = r[i]
        /\ more[l + 1] = result
    BY <1>4, <1>6, <2>2, AppendProperties
  <2>4. DOMAIN more = 1 .. Len(more)
    BY <2>3
  <2> QED BY <2>3, <2>4
<1>8. Awaited(q, frame) = ChildOf(q, n, l + 1)
  <2>1. l = 0 <=> l + 1 = 1
    BY <1>6
  <2> QED BY <1>1, <1>2, <1>6, <2>1 DEF Awaited, ChildOf
<1>9. ASSUME NEW i \in 1 .. l + 1
      PROVE  NodeListed(q, in, D, ChildOf(q, n, i), more[i])
  <2>1. CASE i = l + 1
    BY <1>7, <1>8, <2>1
  <2>2. CASE i # l + 1
    <3>1. i \in 1 .. l
      BY <1>6, <2>2
    <3> QED BY <1>3, <1>6, <1>7, <3>1
  <2> QED BY <2>1, <2>2
<1> QED
  BY <1>3, <1>5, <1>7, <1>9 DEF CallListed

LEMMA ReturnListed ==
  ASSUME ListedInv, phase = "execute", NEW result,
         NodeListed(plan, inputs, Denotation, Top.node, result),
         Return(result), UNCHANGED <<plan, inputs>>, ResultsInv'
  PROVE  ListedInv'
<1>1. PICK D : D = Denotation
  OBVIOUS
<1>2. Denotation' = D /\ plan' = plan /\ inputs' = inputs
  BY <1>1, DenotationStays
<1>3. /\ ResultsInv /\ CallsMatch(plan, inputs, stack)
      /\ Len(stack) \in Nat \ {0} /\ DOMAIN stack = 1 .. Len(stack) /\ Top = stack[Len(stack)]
  BY TopCall DEF ListedInv
<1>4. \A k \in DOMAIN stack : CallListed(plan, inputs, D, stack[k])
  BY <1>1 DEF ListedInv
<1>5. CASE Len(stack) = 1
  <2>1. NodeListed(plan, inputs, D, plan.root, result)
    BY <1>1, <1>3, <1>5 DEF CallsMatch
  <2>2. stack' = <<>> /\ phase' = "materialize" /\ columns' = result
    BY <1>5 DEF Return
  <2>3. NodeListed(plan, inputs, Denotation, plan.root, columns)'
    BY <1>2, <2>1, <2>2
  <2>4. DOMAIN stack' = {}
    BY <2>2
  <2> QED BY <2>2, <2>3, <2>4 DEF ListedInv
<1>6. CASE Len(stack) # 1
  <2>1. PICK m \in Nat \ {0} : \E frame : ReturnedTo(result, m, frame) /\ phase' = "execute"
    BY <1>3, <1>6, ReturnsTo
  <2>2. PICK frame : ReturnedTo(result, m, frame) /\ phase' = "execute"
    BY <2>1
  <2>3. m \in DOMAIN stack
    BY <2>2 DEF ReturnedTo
  <2>4. PICK waiting : waiting = stack[m]
    OBVIOUS
  <2>5. /\ CallOK(plan, inputs, waiting) /\ Len(waiting.results) # 2
        /\ Top.node = Awaited(plan, waiting)
        /\ frame = [node |-> waiting.node, results |-> Append(waiting.results, result)]
    BY <2>2, <2>4 DEF ReturnedTo, Calls
  <2>6. CallListed(plan, inputs, D, waiting)
    BY <1>4, <2>3, <2>4
  <2>7. NodeListed(plan, inputs, D, Awaited(plan, waiting), result)
    BY <1>1, <2>5
  <2>8. CallListed(plan, inputs, D, frame)
    BY <2>5, <2>6, <2>7, ListedAdded
  <2>9. ASSUME NEW k \in DOMAIN stack'
        PROVE  CallListed(plan, inputs, D, stack'[k])
    <3>1. /\ k \in 1 .. m /\ k \in DOMAIN stack
          /\ stack'[k] = IF k = m THEN frame ELSE stack[k]
      BY <2>2 DEF ReturnedTo
    <3> QED BY <1>4, <2>8, <3>1
  <2> QED BY <1>2, <2>2, <2>9 DEF ListedInv
<1> QED
  BY <1>5, <1>6

LEMMA ScanListed ==
  ASSUME ListedInv, execute_scan, ResultsInv'
  PROVE  ListedInv'
<1>1. phase = "execute" /\ IsScan(Here) /\ Return(my_copy(Here)) /\ UNCHANGED <<plan, inputs>>
  BY DEF execute_scan
<1>2. /\ plan \in Plans /\ InputsOK(plan, inputs) /\ Here = NodeOf(plan, Top.node)
      /\ Len(stack) \in Nat \ {0} /\ DOMAIN stack = 1 .. Len(stack) /\ Top = stack[Len(stack)]
  BY <1>1, TopCall DEF ListedInv
<1>3. PICK n \in Nat : n = Top.node /\ n < Len(plan.nodes) /\ n \in 0 .. Len(plan.nodes) - 1
  <2>1. Len(stack) \in DOMAIN stack
    BY <1>2
  <2>2. Top.node \in 0 .. Len(plan.nodes) - 1
    BY <1>2, <2>1 DEF ListedInv, CallListed
  <2>3. Len(plan.nodes) \in Nat
    BY <1>2, PlansAssumption
  <2> QED BY <2>2, <2>3
<1>4. PICK D : D = Denotation
  OBVIOUS
<1>5. D[n] = ScanRows(plan, NodeOf(plan, n))
  <2>1. Denotes(plan, D)
    BY <1>2, <1>4, DenotationIs
  <2>2. D[n] = RowsAt(plan, D, n)
    BY <1>3, <2>1 DEF Denotes, DenotesFirst
  <2> QED BY <1>1, <1>2, <1>3, <2>2 DEF RowsAt
<1>6. NodeListed(plan, inputs, D, n, my_copy(NodeOf(plan, n)))
  <2> SUFFICES ASSUME Findable(plan, inputs)
               PROVE  Lists(inputs, AttrsOf(plan, n), my_copy(NodeOf(plan, n)), D[n])
    BY DEF NodeListed
  <2> QED BY <1>1, <1>2, <1>3, <1>5, ScanLists
<1>7. NodeListed(plan, inputs, Denotation, Top.node, my_copy(Here))
  BY <1>2, <1>3, <1>4, <1>6
<1> QED
  BY <1>1, <1>7, ReturnListed

LEMMA FinishListed ==
  ASSUME ListedInv, FinishJoin, ResultsInv'
  PROVE  ListedInv'
<1>1. /\ phase = "execute" /\ status = "running" /\ output' \in SetToSeqs(Join!Matches(job))
      /\ Join!Finish /\ UNCHANGED <<plan, inputs>>
      /\ Return(JoinResult(Top.results[1], Top.results[2], Here.output_attrs, output'))
  BY DEF FinishJoin
<1>2. /\ plan \in Plans /\ InputsOK(plan, inputs) /\ Here = NodeOf(plan, Top.node)
      /\ Len(stack) \in Nat \ {0} /\ DOMAIN stack = 1 .. Len(stack) /\ Top = stack[Len(stack)]
      /\ CallOK(plan, inputs, Top)
  BY <1>1, TopCall DEF ListedInv
<1>3. Len(plan.nodes) \in Nat
  BY <1>2, PlansAssumption
<1>4. PICK D : D = Denotation
  OBVIOUS
<1>5. CallListed(plan, inputs, D, Top)
  <2>1. Len(stack) \in DOMAIN stack
    BY <1>2
  <2> QED BY <1>2, <1>4, <2>1 DEF ListedInv
<1>6. PICK n \in Nat : n = Top.node /\ n < Len(plan.nodes) /\ n \in 0 .. Len(plan.nodes) - 1
  BY <1>3, <1>5 DEF CallListed
<1>7. PICK node : node = NodeOf(plan, n) /\ node = Here
  BY <1>2, <1>6
<1>8. PICK left, right : left = Top.results[1] /\ right = Top.results[2]
  OBVIOUS
<1>9. /\ ~IsScan(node) /\ Len(Top.results) = 2
      /\ job.left = KeysOf(left[node.left_attr + 1])
      /\ job.right = KeysOf(right[node.right_attr + 1])
  <2>1. JoinRuns(plan, Top, job)
    BY <1>1 DEF ListedInv, ResultsInv
  <2> QED BY <1>6, <1>7, <1>8, <2>1 DEF JoinRuns
<1>10. PICK lefts, rights : lefts = AttrsOf(plan, node.left) /\ rights = AttrsOf(plan, node.right)
  OBVIOUS
<1>11. /\ left = [a \in DOMAIN lefts |-> left[a]]
       /\ right = [a \in DOMAIN rights |-> right[a]]
  <2>1. Top.results # <<>>
    <3>1. Len(<<>>) # 2
      OBVIOUS
    <3> QED BY <1>9, <3>1
  <2>2. /\ ResultOK(plan, inputs, node.left, left)
        /\ ResultOK(plan, inputs, node.right, right)
    BY <1>2, <1>6, <1>7, <1>8, <1>9, <2>1 DEF CallOK
  <2> QED BY <1>10, <2>2 DEF ResultOK
<1>12. node.left \in 0 .. n - 1 /\ node.right \in 0 .. n - 1
  BY <1>2, <1>6, <1>7, <1>9, ChildrenBefore
<1>13. Denotes(plan, D)
  BY <1>2, <1>4, DenotationIs
<1>14. PICK fl, fr : fl = D[node.left] /\ fr = D[node.right]
  OBVIOUS
<1>15. D[n] = JoinRows(node, fl, fr)
  <2>1. D[n] = RowsAt(plan, D, n)
    BY <1>6, <1>13 DEF Denotes, DenotesFirst
  <2> QED BY <1>7, <1>9, <1>14, <2>1 DEF RowsAt
<1>16. RowsHave(fl, lefts) /\ RowsHave(fr, rights)
  <2>1. PICK a \in Nat, b \in Nat : a = node.left /\ b = node.right /\ a < Len(plan.nodes) /\ b < Len(plan.nodes)
    BY <1>3, <1>6, <1>12
  <2>2. RowsHave(D[a], AttrsOf(plan, a))
    BY <1>2, <1>13, <2>1, RowsAreTyped
  <2>3. RowsHave(D[b], AttrsOf(plan, b))
    BY <1>2, <1>13, <2>1, RowsAreTyped
  <2> QED BY <1>10, <1>14, <2>1, <2>2, <2>3
<1>17. ASSUME Findable(plan, inputs)
       PROVE  Lists(inputs, lefts, left, fl) /\ Lists(inputs, rights, right, fr)
  <2>1. PICK r : r = Top.results
    OBVIOUS
  <2>2. 1 \in DOMAIN r /\ 2 \in DOMAIN r
    <3>1. IsSequence(r) /\ Len(r) = 2
      BY <1>2, <1>9, <2>1 DEF CallOK
    <3>2. DOMAIN r = 1 .. 2
      BY <3>1, LengthOf
    <3> QED BY <3>2
  <2>3. /\ NodeListed(plan, inputs, D, ChildOf(plan, n, 1), r[1])
        /\ NodeListed(plan, inputs, D, ChildOf(plan, n, 2), r[2])
    BY <1>5, <1>6, <2>1, <2>2 DEF CallListed
  <2>4. ChildOf(plan, n, 1) = node.left /\ ChildOf(plan, n, 2) = node.right
    BY <1>7 DEF ChildOf
  <2> QED BY <1>8, <1>10, <1>14, <1>17, <2>1, <2>3, <2>4 DEF NodeListed
<1>18. PICK pairs : pairs = output'
  OBVIOUS
<1>19. PairsOf(job, pairs)
  BY <1>1, <1>18 DEF PairsOf, Join!Finish
<1>20. PICK result : result = JoinResult(left, right, node.output_attrs, pairs)
  OBVIOUS
<1>21. NodeListed(plan, inputs, D, n, result)
  <2> SUFFICES ASSUME Findable(plan, inputs)
               PROVE  Lists(inputs, AttrsOf(plan, n), result, D[n])
    BY DEF NodeListed
  <2>1. Lists(inputs, AttrsOf(plan, n), JoinResult(left, right, node.output_attrs, pairs),
              JoinRows(node, fl, fr))
    BY <1>2, <1>6, <1>7, <1>9, <1>10, <1>11, <1>16, <1>17, <1>19, JoinLists DEF PairsOf
  <2> QED BY <1>15, <1>20, <2>1
<1>22. NodeListed(plan, inputs, Denotation, Top.node, result) /\ Return(result)
  BY <1>1, <1>4, <1>6, <1>7, <1>8, <1>18, <1>20, <1>21
<1> QED
  BY <1>1, <1>22, ReturnListed

LEMMA ChildListed ==
  ASSUME ListedInv, CallChild, ResultsInv'
  PROVE  ListedInv'
<1>1. /\ phase = "execute" /\ ~IsScan(Here) /\ UNCHANGED <<plan, inputs, phase, columns>>
  BY DEF CallChild
<1>2. /\ plan \in Plans /\ Here = NodeOf(plan, Top.node)
      /\ CallsMatch(plan, inputs, stack)
      /\ Len(stack) \in Nat \ {0} /\ DOMAIN stack = 1 .. Len(stack) /\ Top = stack[Len(stack)]
  BY <1>1, TopCall DEF ListedInv
<1>3. PICK child : child = IF Top.results = <<>> THEN Here.left ELSE Here.right
  OBVIOUS
<1>4. PICK frame : frame = [node |-> child, results |-> <<>>]
  OBVIOUS
<1>5. stack' = Append(stack, frame)
  BY <1>3, <1>4 DEF CallChild
<1>6. PICK D : D = Denotation
  OBVIOUS
<1>7. \A k \in DOMAIN stack : CallListed(plan, inputs, D, stack[k])
  BY <1>6 DEF ListedInv
<1>8. CallListed(plan, inputs, D, frame)
  <2>1. Len(plan.nodes) \in Nat
    BY <1>2, PlansAssumption
  <2>2. Len(stack) \in DOMAIN stack
    BY <1>2
  <2>3. PICK n \in Nat : n = Top.node /\ n < Len(plan.nodes)
    BY <1>2, <1>7, <2>1, <2>2 DEF CallListed
  <2>4. Here.left \in 0 .. n - 1 /\ Here.right \in 0 .. n - 1
    BY <1>1, <1>2, <2>3, ChildrenBefore
  <2>5. child \in 0 .. Len(plan.nodes) - 1
    BY <1>3, <2>1, <2>3, <2>4
  <2>6. frame.node = child /\ frame.results = <<>> /\ DOMAIN <<>> = {}
    BY <1>4
  <2> QED BY <2>5, <2>6 DEF CallListed
<1>9. PICK N \in Nat : N = Len(stack) /\ DOMAIN stack = 1 .. N
  BY <1>2
<1>10. /\ DOMAIN stack' = 1 .. N + 1
       /\ \A k \in 1 .. N : stack'[k] = stack[k]
       /\ stack'[N + 1] = frame
  <2>1. PICK S : stack \in Seq(S)
    BY <1>2 DEF CallsMatch, IsSequence
  <2>2. stack \in Seq(S \cup {frame})
    BY <2>1
  <2>3. PICK calls : calls = Append(stack, frame)
    OBVIOUS
  <2>4. /\ calls \in Seq(S \cup {frame}) /\ Len(calls) = N + 1
        /\ \A k \in 1 .. N : calls[k] = stack[k]
        /\ calls[N + 1] = frame
    BY <1>9, <2>2, <2>3, AppendProperties
  <2>5. DOMAIN calls = 1 .. N + 1
    BY <2>4
  <2> QED BY <1>5, <2>3, <2>4, <2>5
<1>11. ASSUME NEW k \in DOMAIN stack'
       PROVE  CallListed(plan, inputs, D, stack'[k])
  <2>1. k = N + 1 \/ k \in 1 .. N
    BY <1>10
  <2> QED BY <1>7, <1>8, <1>9, <1>10, <2>1
<1>12. Denotation' = D /\ plan' = plan /\ inputs' = inputs /\ phase' = "execute"
  BY <1>1, <1>6, DenotationStays
<1> QED
  BY <1>11, <1>12 DEF ListedInv

\* The other steps leave the calls and the columns alone.
LEMMA OthersListed ==
  ASSUME ListedInv, UNCHANGED <<plan, inputs, stack, columns>>,
         phase' = phase \/ phase # "execute", ResultsInv'
  PROVE  ListedInv'
<1>1. PICK D : D = Denotation
  OBVIOUS
<1>2. Denotation' = D
  BY <1>1, DenotationStays
<1>3. phase' # "execute" => phase # "execute"
  OBVIOUS
<1>4. /\ \A k \in DOMAIN stack : CallListed(plan, inputs, D, stack[k])
      /\ phase # "execute" => stack = <<>> /\ NodeListed(plan, inputs, D, plan.root, columns)
  BY <1>1 DEF ListedInv
<1> QED
  BY <1>2, <1>3, <1>4 DEF ListedInv

LEMMA ListedStep == ListedInv /\ [Next]_vars => ListedInv'
<1> SUFFICES ASSUME ListedInv, [Next]_vars PROVE ListedInv'
  OBVIOUS
<1>1. ResultsInv'
  BY ResultsStep DEF ListedInv
<1>2. CASE execute_scan
  BY <1>1, <1>2, ScanListed
<1>3. CASE CallChild
  BY <1>1, <1>3, ChildListed
<1>4. CASE FinishJoin
  BY <1>1, <1>4, FinishListed
<1>5. CASE BeginJoin
  BY <1>1, <1>5, OthersListed DEF BeginJoin
<1>6. CASE StartThreads
  BY <1>1, <1>6, OthersListed DEF StartThreads
<1>7. CASE JoinThreads
  BY <1>1, <1>7, OthersListed DEF JoinThreads
<1>8. CASE next # <<>> /\ \E tid \in Threads : MaterializeColumn(tid)
  BY <1>1, <1>8, OthersListed DEF MaterializeColumn
<1>9. CASE UNCHANGED vars
  BY <1>1, <1>9, OthersListed DEF vars
<1> QED
  BY <1>2, <1>3, <1>4, <1>5, <1>6, <1>7, <1>8, <1>9 DEF Next

LEMMA ListedExact == ListedInv => IntermediateExact
<1> SUFFICES ASSUME ListedInv, ~LongNeighbours, ~EmptyStrings
             PROVE  /\ \A k \in DOMAIN stack : \A i \in DOMAIN stack[k].results :
                         Represents(IF i = 1 THEN Node(stack[k].node).left
                                             ELSE Node(stack[k].node).right, stack[k].results[i])
                    /\ phase = "materialize" => Represents(plan.root, columns)
  BY DEF IntermediateExact
<1>1. Findable(plan, inputs)
  BY DEF Findable, NeighboursIn, EmptiesOf, LongNeighbours, EmptyStrings
<1>2. ResultsInv /\ plan \in Plans
  BY DEF ListedInv, ResultsInv, IInv
<1>3. Len(plan.nodes) \in Nat
  BY <1>2, PlansAssumption
<1>4. ASSUME NEW k \in DOMAIN stack, NEW i \in DOMAIN stack[k].results
      PROVE  Represents(IF i = 1 THEN Node(stack[k].node).left ELSE Node(stack[k].node).right,
                        stack[k].results[i])
  <2>1. phase = "execute"
    <3>1. DOMAIN <<>> = {}
      OBVIOUS
    <3> QED BY <3>1 DEF ListedInv
  <2>2. PICK frame : frame = stack[k]
    OBVIOUS
  <2>3. CallOK(plan, inputs, frame) /\ CallListed(plan, inputs, Denotation, frame)
    BY <1>2, <2>1, <2>2, TopCall DEF CallsMatch, ListedInv
  <2>4. PICK n \in Nat : n = frame.node /\ n < Len(plan.nodes)
    BY <1>3, <2>3 DEF CallListed
  <2>5. PICK node : node = NodeOf(plan, n) /\ node = Node(n)
    BY DEF NodeOf, Node
  <2>6. PICK r : r = frame.results
    OBVIOUS
  <2>7. IsSequence(r) /\ i \in DOMAIN r
    BY <2>2, <2>3, <2>6 DEF CallOK
  <2>8. DOMAIN r = 1 .. Len(r) /\ Len(r) \in Nat
    BY <2>7, LengthOf
  <2>9. r # <<>>
    <3>1. DOMAIN <<>> = {}
      OBVIOUS
    <3> QED BY <2>7, <3>1
  <2>10. Len(r) \in 1 .. 2 /\ ~IsScan(node)
    BY <2>3, <2>4, <2>5, <2>6, <2>9 DEF CallOK
  <2>11. PICK child : child = ChildOf(plan, n, i)
    OBVIOUS
  <2>12. ResultOK(plan, inputs, child, r[i])
    <3>1. CASE i = 1
      BY <2>3, <2>4, <2>6, <2>9, <2>11, <3>1 DEF CallOK, ChildOf
    <3>2. CASE i # 1
      <4>1. i = 2 /\ Len(r) = 2
        BY <2>7, <2>8, <2>10, <3>2
      <4> QED BY <2>3, <2>4, <2>6, <2>11, <4>1 DEF CallOK, ChildOf
    <3> QED BY <3>1, <3>2
  <2>13. child \in Nat /\ child < Len(plan.nodes)
    <3>1. node.left \in 0 .. n - 1 /\ node.right \in 0 .. n - 1
      BY <1>2, <2>4, <2>5, <2>10, ChildrenBefore
    <3>2. child \in 0 .. n - 1
      BY <2>5, <2>11, <3>1 DEF ChildOf
    <3> QED BY <1>3, <2>4, <3>2
  <2>14. PICK result : result = r[i]
    OBVIOUS
  <2>15. NodeListed(plan, inputs, Denotation, child, result)
    BY <2>3, <2>4, <2>6, <2>7, <2>11, <2>14 DEF CallListed
  <2>16. result = [a \in DOMAIN AttrsOf(plan, child) |-> result[a]]
    BY <2>12, <2>14 DEF ResultOK
  <2>17. Represents(child, result)
    BY <1>1, <1>2, <2>13, <2>15, <2>16, ListedRepresents DEF NodeListed
  <2>18. child = IF i = 1 THEN Node(stack[k].node).left ELSE Node(stack[k].node).right
    BY <2>2, <2>4, <2>5, <2>11 DEF ChildOf
  <2> QED BY <2>2, <2>6, <2>14, <2>17, <2>18
<1>5. ASSUME phase = "materialize"
      PROVE  Represents(plan.root, columns)
  <2>1. PICK n \in Nat : n = plan.root /\ n < Len(plan.nodes)
    <3>1. plan.root \in 0 .. Len(plan.nodes) - 1
      BY <1>2, PlansAssumption
    <3> QED BY <1>3, <3>1
  <2>2. AnswerOK(plan, inputs, columns, next, ret)
    BY <1>2, <1>5, ColumnsOfAnswer
  <2>3. columns = [a \in DOMAIN AttrsOf(plan, n) |-> columns[a]]
    BY <2>1, <2>2 DEF AnswerOK, ResultOK
  <2>4. Lists(inputs, AttrsOf(plan, n), columns, Denotation[n])
    BY <1>1, <1>5, <2>1 DEF ListedInv, NodeListed
  <2>5. PICK result : result = columns
    OBVIOUS
  <2>6. Represents(n, result)
    BY <1>2, <2>1, <2>3, <2>4, <2>5, ListedRepresents
  <2> QED BY <2>1, <2>5, <2>6
<1> QED
  BY <1>4, <1>5

\* Every intermediate result, and the result of the root, has the rows that its node
\* of the plan denotes, each as often, in whatever order the joins put them out and
\* however the strings lie in the pages of the base tables: for any plan over tables
\* without empty strings and without two long strings one after the other.
THEOREM IntermediateIsExact == Spec => []IntermediateExact
<1>1. Spec => []ListedInv
  BY InitListed, ListedStep, PTL DEF Spec
<1> QED
  BY <1>1, ListedExact, PTL
=============================================================================
