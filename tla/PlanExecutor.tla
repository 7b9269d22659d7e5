---------------------------- MODULE PlanExecutor ----------------------------
(***************************************************************************)
(* execute (src/src/execute.cpp): a plan is a tree of scans and hash joins *)
(* over base tables.  The recursion of execute_impl leaves intermediate    *)
(* results of column_t (src/include/column_store_utils.hpp) behind:        *)
(* pages of 8-byte values, where a string is a reference to the page of    *)
(* the base table that holds it, and an integer column without nulls is    *)
(* not copied at all.  materialize writes the last of them as pages of a   *)
(* ColumnarTable, with threads that share out the columns.                 *)
(*                                                                         *)
(* One join is a step of JoinSpec, which ParallelJoin implements: its      *)
(* output comes in any order.                                              *)
(***************************************************************************)
EXTENDS Pages

CONSTANTS
  Plans,       \* [tables, nodes, root]; a table is [types, rows]
  PageValues,  \* ELEMENTS_PER_PAGE
  ColumnIds,   \* columns that a string reference can tell apart: 8
  TableIds,    \* tables that it can tell apart: 32
  PageIds,     \* pages of a column that it can tell apart: 2^20
  NumThreads,  \* NUM_THREADS of materialize
  Unwritten    \* a character that nobody wrote

\* Nodes, tables and columns have the numbers of the code, from 0 on.
IsScan(node) == node.kind = "SCAN"

\* What the comment on str_rep says of table and column numbers, for every
\* column of strings that is scanned.
StringsAddressable(node) ==
  /\ node.table < TableIds
  /\ \A a \in DOMAIN node.output_attrs :
       node.output_attrs[a][2] = "VARCHAR" => node.output_attrs[a][1] < ColumnIds

\* Every attribute names a column of the inputs, with the type it has there, and the
\* children of a join have been made before it, as new_join_node needs their numbers.
\* Keys are integers: the hash table of the join has keys of int32_t.
WellFormed(q, n) ==
  LET node   == q.nodes[n]
      out(m) == q.nodes[m + 1].output_attrs
  IN  /\ node.output_attrs \in Seq(Nat \X DataTypes)
      /\ IF IsScan(node)
           THEN /\ node.table \in Nat /\ node.table + 1 \in DOMAIN q.tables
                /\ \A a \in DOMAIN node.output_attrs :
                     LET attr  == node.output_attrs[a]
                         types == q.tables[node.table + 1].types
                     IN  attr[1] + 1 \in DOMAIN types /\ types[attr[1] + 1] = attr[2]
                /\ StringsAddressable(node)
           ELSE /\ {node.left, node.right} \subseteq 0 .. n - 2
                /\ node.left_attr \in 0 .. Len(out(node.left)) - 1
                /\ node.right_attr \in 0 .. Len(out(node.right)) - 1
                /\ out(node.left)[node.left_attr + 1][2] = "INT32"
                /\ out(node.right)[node.right_attr + 1][2] = "INT32"
                /\ \A a \in DOMAIN node.output_attrs :
                     LET attr  == node.output_attrs[a]
                         attrs == out(node.left) \o out(node.right)
                     IN  attr[1] < Len(attrs) /\ attrs[attr[1] + 1][2] = attr[2]

TypedTable(table) ==
  /\ table.types \in Seq(DataTypes)
  /\ Len(table.rows) \in Nat /\ DOMAIN table.rows = 1 .. Len(table.rows)
  /\ \A r \in DOMAIN table.rows, c \in DOMAIN table.types :
       table.rows[r][c] = Null \/ table.rows[r][c] \in ValuesOf(table.types[c])

\* What the comment on str_rep says of page numbers.
PagesAddressable(table) ==
  LET columns == to_columnar(table.types, table.rows).columns
  IN  \A c \in DOMAIN table.types : table.types[c] = "VARCHAR" => Len(columns[c].pages) <= PageIds

\* A value_t tells a null from a reference by its kind.
ASSUME PlansAssumption ==
  /\ PageValues \in Nat \ {0} /\ NumThreads \in Nat \ {0}
  /\ ColumnIds \in Nat /\ TableIds \in Nat /\ PageIds \in Nat
  /\ Null \notin [table : Nat, column : Nat, page : Nat, offset : Nat]
  /\ \A q \in Plans :
       /\ Len(q.nodes) \in Nat /\ DOMAIN q.nodes = 1 .. Len(q.nodes)
       /\ q.root \in 0 .. Len(q.nodes) - 1
       /\ \A n \in DOMAIN q.nodes : WellFormed(q, n)
       /\ \A t \in DOMAIN q.tables : TypedTable(q.tables[t]) /\ PagesAddressable(q.tables[t])

VARIABLES
  plan,
  inputs,  \* plan.inputs, as pages
  stack,   \* calls of execute_impl: [node, results of the children so far]
  status, job, output, \* the join that runs, see JoinSpec
  phase,   \* "execute", "materialize" or "done"
  columns, \* the ExecuteResult of the root
  next,    \* per thread of materialize its loop index
  ret      \* the ColumnarTable returned

joinVars == <<status, job, output>>
vars == <<plan, inputs, stack, joinVars, phase, columns, next, ret>>

Join == INSTANCE JoinSpec WITH
  Jobs <- [left : Seq(Int \cup {Null}), right : Seq(Int \cup {Null}), build_left : BOOLEAN]
-----------------------------------------------------------------------------
(* column_t.                                                               *)

NewColumn == [num_rows |-> 0, has_nulls |-> TRUE, pages |-> <<>>, orig_col |-> <<>>]

Full(page) == Len(page) >= PageValues

AddToPages(pages, v) ==
  IF pages = <<>> \/ Full(Last(pages)) THEN Append(pages, <<v>>)
                                       ELSE [pages EXCEPT ![Len(pages)] = Append(@, v)]

InsertValue(column, v) ==
  [column EXCEPT !.num_rows = @ + 1, !.pages = AddToPages(@, v)]

ColumnOf(values) == FoldLeft(InsertValue, NewColumn, values)

get_value(column, row) ==
  IF column.has_nulls
    THEN column.pages[row \div PageValues + 1][(row % PageValues) + 1]
    ELSE LET rows_in_page == column.orig_col[1].rows
         IN  column.orig_col[row \div rows_in_page + 1].items[(row % rows_in_page) + 1]
-----------------------------------------------------------------------------
(* Scans: my_copy.                                                         *)

StringRef(t, c, page, offset) ==
  [table |-> t % TableIds, column |-> c % ColumnIds, page |-> page % PageIds, offset |-> offset]

\* Row i of a short page as a value: the reference names the place where the
\* string begins.
\* Faulty variant: where it ends.
RefAt_End(t, c, page, p, k) == StringRef(t, c, page, p.items[k + 1])
RefAt(t, c, page, p, k) == StringRef(t, c, page, IF k = 0 THEN 0 ELSE p.items[k])

\* The bitmaps of base tables are complete: no byte of them is junk.
PageValuesOf(type, t, c, page, p) ==
  CASE p.rows = LongHeader /\ type = "VARCHAR" -> <<StringRef(t, c, page, 0)>>
    [] p.rows = RestHeader /\ type = "VARCHAR" -> <<>>
    [] OTHER ->
         [i \in 1 .. p.rows |->
            IF ~get_bitmap(p, i - 1, {}) THEN Null
            ELSE LET k == DataIndex(p, i - 1, {})
                 IN  IF type = "INT32" THEN Item(p, k) ELSE RefAt(t, c, page, p, k)]

HasNulls(pages) == \E k \in DOMAIN pages : Len(pages[k].items) < pages[k].rows

CopyColumn(type, t, c) ==
  LET pages == inputs[t + 1].columns[c + 1].pages
  IN  IF type = "INT32" /\ ~HasNulls(pages)
        THEN [num_rows |-> inputs[t + 1].num_rows, has_nulls |-> FALSE,
              pages |-> <<>>, orig_col |-> pages]
        ELSE LET values == FlattenSeq([k \in DOMAIN pages |->
                             PageValuesOf(type, t, c, k - 1, pages[k])])
             IN  ColumnOf([r \in 1 .. inputs[t + 1].num_rows |->
                             IF r <= Len(values) THEN values[r] ELSE Null])

my_copy(node) ==
  [a \in DOMAIN node.output_attrs |->
     CopyColumn(node.output_attrs[a][2], node.table, node.output_attrs[a][1])]
-----------------------------------------------------------------------------
(* The end of a string reference: string_from_rep.                         *)

\* A long string is collected from its first page up to a page of short ones.
LongString(pages, first) ==
  LET end == CHOOSE k \in first .. Len(pages) + 1 :
               /\ k = Len(pages) + 1 \/ IsText(pages[k])
               /\ \A l \in first .. k - 1 : ~IsText(pages[l])
  IN  FlattenSeq([k \in 1 .. end - first |-> pages[first + k - 1].chars])

\* The string ends at the first end offset past its beginning; without any, at
\* the bitmap.
ShortString(p, start) ==
  LET later == { k \in DOMAIN p.items : p.items[k] > start }
  IN  IF p.items = <<>> THEN <<>>
      ELSE IF later # {}
        THEN SubSeq(p.chars, start + 1, p.items[CHOOSE k \in later : \A l \in later : k <= l])
        ELSE [k \in 1 .. PageSize - Bytes(p.rows) - DataEnd("VARCHAR", p) |-> Unwritten]

string_from_rep(rep) ==
  LET pages == inputs[rep.table + 1].columns[rep.column + 1].pages
      first == rep.page + 1
  IN  IF pages[first].rows = LongHeader THEN LongString(pages, first)
                                        ELSE ShortString(pages[first], rep.offset)
-----------------------------------------------------------------------------
(* execute_impl.                                                           *)

Top == stack[Len(stack)]
Node(n) == plan.nodes[n + 1]
Here == Node(Top.node)

\* The caller gets the result; the caller of the first call is execute.
Return(result) ==
  IF Len(stack) = 1
    THEN /\ stack' = <<>>
         /\ phase' = "materialize"
         /\ columns' = result
         /\ ret' = [num_rows |-> IF result = <<>> THEN 0 ELSE result[1].num_rows,
                    columns  |-> [c \in DOMAIN result |-> <<>>]]
    ELSE /\ stack' = [Front(stack) EXCEPT ![Len(stack) - 1].results = Append(@, result)]
         /\ UNCHANGED <<phase, columns, ret>>

execute_scan ==
  /\ phase = "execute"
  /\ IsScan(Here)
  /\ Return(my_copy(Here))
  /\ UNCHANGED <<plan, inputs, joinVars, next>>

\* execute_hash_join calls execute_impl for its left child, then for its right.
CallChild ==
  /\ phase = "execute"
  /\ ~IsScan(Here)
  /\ Len(Top.results) < 2
  /\ LET child == IF Top.results = <<>> THEN Here.left ELSE Here.right
     IN  stack' = Append(stack, [node |-> child, results |-> <<>>])
  /\ UNCHANGED <<plan, inputs, joinVars, phase, columns, next, ret>>

KeyColumn(result, attr) ==
  [r \in 1 .. result[attr + 1].num_rows |-> get_value(result[attr + 1], r - 1)]

BeginJoin ==
  /\ phase = "execute"
  /\ ~IsScan(Here)
  /\ Len(Top.results) = 2
  /\ job' = [left       |-> KeyColumn(Top.results[1], Here.left_attr),
             right      |-> KeyColumn(Top.results[2], Here.right_attr),
             build_left |-> Here.build_left]
  /\ Join!Begin
  /\ UNCHANGED <<plan, inputs, stack, phase, columns, next, ret>>

\* The value of output attribute idx, for a pair of rows.
OutputValue(left, right, idx, pair) ==
  IF idx < Len(left) THEN get_value(left[idx + 1], pair[1])
                     ELSE get_value(right[idx - Len(left) + 1], pair[2])

JoinResult(left, right, attrs, pairs) ==
  [a \in DOMAIN attrs |->
     ColumnOf([k \in DOMAIN pairs |-> OutputValue(left, right, attrs[a][1], pairs[k])])]

FinishJoin ==
  /\ phase = "execute"
  /\ status = "running"
  /\ output' \in SetToSeqs(Join!Matches(job))
  /\ Join!Finish
  /\ Return(JoinResult(Top.results[1], Top.results[2], Here.output_attrs, output'))
  /\ UNCHANGED <<plan, inputs, next>>
-----------------------------------------------------------------------------
(* materialize.                                                            *)

Threads == 0 .. NumThreads - 1

ColumnsPerThread(num_cols) == num_cols \div NumThreads

\* Columns start .. end - 1 are those of thread tid.
StartColumn(tid, num_cols) == tid * ColumnsPerThread(num_cols)

\* Faulty variant: no thread takes what the division leaves over.
EndColumn_Floor(tid, num_cols) == StartColumn(tid, num_cols) + ColumnsPerThread(num_cols)
EndColumn(tid, num_cols) ==
  IF tid = NumThreads - 1 THEN num_cols
  ELSE StartColumn(tid, num_cols) + ColumnsPerThread(num_cols)

ThreadColumns(tid, num_cols) == StartColumn(tid, num_cols) .. EndColumn(tid, num_cols) - 1

Types == [c \in DOMAIN columns |-> Node(plan.root).output_attrs[c][2]]

\* A value with its string, if it refers to one.
Resolve(type, v) == IF v = Null \/ type = "INT32" THEN v ELSE string_from_rep(v)

Values(type, column) ==
  [r \in 1 .. column.num_rows |-> Resolve(type, get_value(column, r - 1))]

\* Its unset_bitmap does not make the bitmap longer.
MaterializedPages(type, column) ==
  IF column.has_nulls THEN WriteColumn(type, Values(type, column), FALSE)
                      ELSE column.orig_col

MaterializeColumn(tid) ==
  /\ phase = "materialize"
  /\ next[tid] < EndColumn(tid, Len(columns))
  /\ LET c == next[tid] + 1
     IN  ret' = [ret EXCEPT !.columns[c] = @ \o MaterializedPages(Types[c], columns[c])]
  /\ next' = [next EXCEPT ![tid] = @ + 1]
  /\ UNCHANGED <<plan, inputs, stack, joinVars, phase, columns>>

StartThreads ==
  /\ phase = "materialize"
  /\ next = <<>>
  /\ next' = [tid \in Threads |-> StartColumn(tid, Len(columns))]
  /\ UNCHANGED <<plan, inputs, stack, joinVars, phase, columns, ret>>

JoinThreads ==
  /\ phase = "materialize"
  /\ next # <<>>
  /\ \A tid \in Threads : next[tid] >= EndColumn(tid, Len(columns))
  /\ phase' = "done"
  /\ UNCHANGED <<plan, inputs, stack, joinVars, columns, next, ret>>

Init ==
  /\ plan \in Plans
  /\ inputs = [t \in DOMAIN plan.tables |->
                 to_columnar(plan.tables[t].types, plan.tables[t].rows)]
  /\ stack = <<[node |-> plan.root, results |-> <<>>]>>
  /\ status = "idle"
  /\ job = [left |-> <<>>, right |-> <<>>, build_left |-> TRUE]
  /\ output = <<>>
  /\ phase = "execute"
  /\ columns = <<>>
  /\ next = <<>>
  /\ ret = [num_rows |-> 0, columns |-> <<>>]

Next ==
  \/ execute_scan \/ CallChild \/ BeginJoin \/ FinishJoin
  \/ StartThreads \/ JoinThreads
  \/ next # <<>> /\ \E tid \in Threads : MaterializeColumn(tid)

Spec == Init /\ [][Next]_vars
-----------------------------------------------------------------------------
(* Properties.                                                             *)

\* What a node of the plan denotes: its rows, as a family over any index set.
\* A scan picks columns; a join takes every pair of rows with equal keys.
Denotation ==
  LET rows[n \in 0 .. Len(plan.nodes) - 1] ==
        LET node == Node(n)
            attr(a) == node.output_attrs[a][1] + 1
        IN  IF IsScan(node)
              THEN LET table == plan.tables[node.table + 1].rows
                   IN  [r \in DOMAIN table |->
                          [a \in DOMAIN node.output_attrs |-> table[r][attr(a)]]]
              ELSE LET left  == rows[node.left]
                       right == rows[node.right]
                       key(pair) == <<left[pair[1]][node.left_attr + 1],
                                      right[pair[2]][node.right_attr + 1]>>
                   IN  [pair \in { q \in (DOMAIN left) \X (DOMAIN right) :
                                      key(q)[1] # Null /\ key(q)[1] = key(q)[2] } |->
                          LET row == left[pair[1]] \o right[pair[2]]
                          IN  [a \in DOMAIN node.output_attrs |-> row[attr(a)]]]
  IN  rows

\* Two families have the same members, each equally often.
SameRows(f, g) ==
  /\ Cardinality(DOMAIN f) = Cardinality(DOMAIN g)
  /\ \A k \in DOMAIN f :
       Cardinality({ l \in DOMAIN f : f[l] = f[k] })
         = Cardinality({ l \in DOMAIN g : g[l] = f[k] })

RowsOf(node, result) ==
  LET values == [a \in DOMAIN result |-> Values(node.output_attrs[a][2], result[a])]
  IN  [r \in 1 .. result[1].num_rows |-> [a \in DOMAIN result |-> values[a][r]]]

\* A result without columns has no rows to compare.
Represents(n, result) ==
  /\ DOMAIN result = DOMAIN Node(n).output_attrs
  /\ \A a, b \in DOMAIN result : result[a].num_rows = result[b].num_rows
  /\ result # <<>> => SameRows(RowsOf(Node(n), result), Denotation[n])

\* Two long strings follow each other in a column of strings that is scanned.
LongNeighbours ==
  \E t \in DOMAIN inputs : \E c \in DOMAIN inputs[t].columns :
    LET pages == inputs[t].columns[c].pages
    IN  \E k \in 2 .. Len(pages) : pages[k].rows = LongHeader /\ ~IsText(pages[k - 1])

\* A string without characters: its reference, which is the offset of its beginning,
\* is that of the string after it.  TableParser makes nulls of empty fields.
EmptyStrings ==
  \E t \in DOMAIN plan.tables :
    LET table == plan.tables[t]
    IN  \E r \in DOMAIN table.rows, c \in DOMAIN table.types :
          table.types[c] = "VARCHAR" /\ table.rows[r][c] = <<>>

\* Every intermediate result has the rows of its node: references lead to the
\* strings they stand for, and columns that were not copied are read at the rows
\* of their pages.  string_from_rep does not stop at the next long string.
IntermediateExact ==
  ~LongNeighbours /\ ~EmptyStrings =>
    /\ \A k \in DOMAIN stack : \A i \in DOMAIN stack[k].results :
         Represents(IF i = 1 THEN Node(stack[k].node).left ELSE Node(stack[k].node).right,
                    stack[k].results[i])
    /\ phase = "materialize" => Represents(plan.root, columns)

\* Every column of the answer is in the range of one thread, and of no other, and
\* every thread stays in its range: nobody reads or writes pages of a column that
\* another thread appends to.
OneWriter ==
  next # <<>> =>
    /\ \A tid \in Threads :
         next[tid] \in StartColumn(tid, Len(columns)) .. EndColumn(tid, Len(columns))
    /\ \A c \in 0 .. Len(columns) - 1 : \E tid \in Threads : \A other \in Threads :
         (c \in ThreadColumns(other, Len(columns))) = (other = tid)

\* What is read back from the pages, whatever the bytes are that nobody wrote.
ReadsBack(c) ==
  \A junk \in SUBSET (0 .. ByteBits - 1) :
    from_columnar(Types[c], ret.columns[c], junk) = Values(Types[c], columns[c])

\* The columns of the answer are read back as the columns of the root, but for
\* those where unset_bitmap has left a bitmap too short.
ResultExact ==
  phase = "done" =>
    \A c \in DOMAIN columns :
      /\ ret.num_rows = columns[c].num_rows
      /\ ShortBitmap(ret.columns[c]) \/ ReadsBack(c)

\* src/tests/columnar_utils_tests.cpp:54 calls it harmless to unset a bit that
\* the bitmap does not have: every column of the answer is read back.
ResultReadsBack == phase = "done" => \A c \in DOMAIN columns : ReadsBack(c)

\* src/include/columnar_utils.hpp:158 has a long string collected from the page of
\* its beginning and any continuation pages after that: the result has the strings
\* of the tables, wherever these are.
LongStringsApart == phase = "materialize" => Represents(plan.root, columns)
=============================================================================
