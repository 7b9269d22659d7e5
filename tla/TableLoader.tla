---------------------------- MODULE TableLoader ----------------------------
(***************************************************************************)
(* Table::from_csv (src/src/build_table.cpp): the fields of a file, as     *)
(* CSVParser delivers them, become an InnerTable, which is cached; the     *)
(* filter is evaluated over the columns of the InnerTable into a bitmap of *)
(* rows (src/src/statement.cpp, src/include/inner_column.h); the rows left *)
(* become the pages of a ColumnarTable, every column by a thread of its    *)
(* own, which is cached too if there is no filter.                         *)
(*                                                                         *)
(* FilterThreadPool cuts the bytes of a bitmap into one slice per thread;  *)
(* the slices of one evaluation are a single step here, as they read what  *)
(* nobody writes and write bytes of their own.                             *)
(***************************************************************************)
EXTENDS Pages

CONSTANTS
  Paths,
  Types,       \* the types of the attributes
  Contents,    \* what a file may hold: records of fields
  Empty, Bad,  \* a field without characters, and one that ends the parse
  Header,      \* whether the first record is skipped
  Statements,  \* the statements and their parts
  Filters,     \* the statements, and NoFilter, that may filter a call
  NoFilter,
  LikeMatch,   \* pairs <<string, pattern>> that RE2 matches
  IntRange,    \* 2^32
  PoolThreads, \* 12
  MaxCalls, MaxRewrites \* bounds

Columns == DOMAIN Types

\* static_cast<int32_t> of a 64-bit literal.
ToInt32(x) == ((x + IntRange \div 2) % IntRange) - IntRange \div 2

\* A file is a sequence of records with a field per attribute.  That is for the
\* caller to see to: on_field takes the type of a column without comparing its
\* number with the attributes, and CSVParser knows only whether a record has as
\* many fields as the first.  Bad stands for a field of numbers that is none, and,
\* in any column, for a field in whose place CSVParser reports an error; what
\* follows it in the file is not read.  (No error is put in the header: it would
\* end the call as one in the first field after it does.)
ASSUME LoaderAssumption ==
  /\ Paths # {} /\ MaxCalls \in Nat /\ MaxRewrites \in Nat
  /\ Types \in Seq(DataTypes) /\ Types # <<>>
  /\ \A content \in Contents :
       Len(content) \in Nat /\ content = [r \in 1 .. Len(content) |-> content[r]]
  /\ \A content \in Contents : \A r \in DOMAIN content :
       /\ Len(content[r]) = Len(Types)
       /\ (Header /\ r = 1) \/ \A c \in Columns : content[r][c] \in ValuesOf(Types[c]) \cup {Empty, Bad}
  /\ NoFilter \in Filters /\ Filters \subseteq Statements \cup {NoFilter}
  /\ PoolThreads \in Nat \ {0}

\* A statement is a tree, an operation above its operands.  The literals that
\* integers are compared with are integers of 32 bits: the evaluation over
\* columns casts them, the one over records does not.
ASSUME StatementAssumption ==
  /\ IsFiniteSet(Statements)
  /\ \E height \in [Statements -> 0 .. Cardinality(Statements)] :
       \A s \in Statements :
         /\ s.kind \in {"AND", "OR", "NOT"} =>
              s.left \in Statements /\ height[s.left] < height[s]
         /\ s.kind \in {"AND", "OR"} =>
              s.right \in Statements /\ height[s.right] < height[s]
  /\ \A s \in Statements :
       s.kind \notin {"AND", "OR", "NOT"} =>
         /\ s.column \in Columns
         /\ Types[s.column] = "INT32" /\ s.op \notin {"IS_NULL", "IS_NOT_NULL"} =>
              ToInt32(s.value) = s.value

VARIABLES
  files,        \* on disk
  table_cache, result_cache, \* per path <<>> or <<the table>>
  phase,        \* "idle", "lookup", "parse", "eval", "convert", "done", "failed"
  path, filter, \* of the call
  field,        \* <<row, column>> of the next field
  last_record,
  table,        \* full_table, then the InnerTable of the call
  results,      \* the bitmap of the rows that the filter accepts
  writers, at,  \* per column its inserter and its loop index
  ret_rows,     \* the atomic result of the column threads
  ret,          \* the ColumnarTable returned
  calls, rewrites

callVars    == <<path, filter, calls>>
parseVars   == <<field, last_record>>
convertVars == <<writers, at, ret_rows>>
vars == <<files, table_cache, result_cache, phase, callVars, parseVars, table,
          results, convertVars, ret, rewrites>>
-----------------------------------------------------------------------------
(* InnerColumn: a value per row, null or not, and a bitmap.                *)

NewColumn ==
  [data |-> <<>>, offsets |-> <<>>, \* of strings: where they end
   bitmap |-> <<>>, row |-> 0]      \* rows so far
NewTable == [rows |-> 0, columns |-> [c \in Columns |-> NewColumn]]

\* bitmap_push_back for row i.
PushBit(bitmap, i, not_null) ==
  IF i \div ByteBits + 1 > Len(bitmap)
    THEN Append(bitmap, IF not_null THEN {0} ELSE {})
    ELSE [bitmap EXCEPT ![i \div ByteBits + 1] =
            IF not_null THEN @ \cup {i % ByteBits} ELSE @ \ {i % ByteBits}]

\* A null takes a place among the integers, of value 0.
push_back(col, v) ==
  [col EXCEPT !.data   = Append(@, IF v = Null THEN 0 ELSE v),
              !.row    = @ + 1,
              !.bitmap = PushBit(@, col.row, v # Null)]

push_back_string(col, v) ==
  LET chars == IF v = Null THEN <<>> ELSE v
  IN  [col EXCEPT !.data    = @ \o chars,
                  !.offsets = Append(@, Len(col.data) + Len(chars)),
                  !.row     = @ + 1,
                  !.bitmap  = PushBit(@, col.row, v # Null)]

is_not_null(col, i) == i % ByteBits \in col.bitmap[i \div ByteBits + 1]

get_string(col, i) ==
  SubSeq(col.data, (IF i = 0 THEN 0 ELSE col.offsets[i]) + 1, col.offsets[i + 1])

get(c, col, i) == IF Types[c] = "INT32" THEN col.data[i + 1] ELSE get_string(col, i)
-----------------------------------------------------------------------------
(* The values a comparison compares.                                       *)

IntTest(op, v, rhs) ==
  CASE op = "EQ"  -> v = rhs  [] op = "NEQ" -> v # rhs
    [] op = "LT"  -> v < rhs  [] op = "GT"  -> v > rhs
    [] op = "LEQ" -> v <= rhs [] op = "GEQ" -> v >= rhs

\* a < b for strings: b goes on, or has a larger character, where they part.
StringLess(a, b) ==
  \E i \in 1 .. Len(b) :
    /\ i <= Len(a) + 1
    /\ \A j \in 1 .. i - 1 : a[j] = b[j]
    /\ i <= Len(a) => a[i] < b[i]

StringTest(op, v, rhs) ==
  CASE op = "EQ"  -> v = rhs                 [] op = "NEQ" -> v # rhs
    [] op = "LT"  -> StringLess(v, rhs)      [] op = "GT"  -> StringLess(rhs, v)
    [] op = "LEQ" -> ~StringLess(rhs, v)     [] op = "GEQ" -> ~StringLess(v, rhs)
    [] op = "LIKE"     -> <<v, rhs>> \in LikeMatch
    [] op = "NOT_LIKE" -> <<v, rhs>> \notin LikeMatch
-----------------------------------------------------------------------------
(* Statement::eval over columns: a bitmap of the rows.                     *)

\* First byte of the slice of thread t of a loop over n bytes.
begin_idx(t, n) ==
  t * (n \div PoolThreads)
    + (IF t < n % PoolThreads THEN t ELSE n % PoolThreads)

\* One slice of a comparison of integers: the data, the bitmap and the output
\* are addressed from the first byte of the slice, size is the rows in it.
\* Faulty variant: the last slice is taken to be full of rows of its own.
SliceCompare_FromZero(col, op, rhs, first, last) ==
  LET size == IF last * ByteBits < col.row THEN last * ByteBits ELSE col.row
  IN  [j \in 1 .. last - first |->
         { b \in col.bitmap[first + j] :
             /\ (j - 1) * ByteBits + b < size
             /\ (first + j - 1) * ByteBits + b < col.row
             /\ IntTest(op, col.data[(j - 1) * ByteBits + b + 1], rhs) }]
SliceCompare(col, op, rhs, first, last) ==
  LET size == (IF last * ByteBits < col.row THEN last * ByteBits ELSE col.row)
                - first * ByteBits
  IN  [j \in 1 .. last - first |->
         { b \in col.bitmap[first + j] :
             /\ (j - 1) * ByteBits + b < size
             /\ IntTest(op, col.data[(first + j - 1) * ByteBits + b + 1], rhs) }]

\* less, greater, ... of InnerColumn<T>.
CompareInts(col, op, rhs) ==
  FlattenSeq([t \in 1 .. PoolThreads |->
    LET n == Bytes(col.row)
    IN  SliceCompare(col, op, rhs, begin_idx(t - 1, n), begin_idx(t, n))])

\* less, ..., like, not_like of InnerColumn<std::string>.  They slice the bytes as
\* CompareInts does; each slice reads by the index of the row, and the slices
\* together are every byte once, so the whole column is written here.
CompareStrings(col, op, rhs) ==
  [j \in DOMAIN col.bitmap |->
     { b \in col.bitmap[j] :
         LET i == (j - 1) * ByteBits + b
         IN  i < col.row /\ StringTest(op, get_string(col, i), rhs) }]

\* Bits past the last row are flipped too.
bitmap_not(bitmap) == [j \in DOMAIN bitmap |-> (0 .. ByteBits - 1) \ bitmap[j]]

bitmap_and(lhs, rhs) == [j \in DOMAIN lhs |-> lhs[j] \cap rhs[j]]

bitmap_or(lhs, rhs) == [j \in DOMAIN lhs |-> lhs[j] \cup rhs[j]]

\* Comparison::eval.
EvalComparison(s, columns) ==
  LET col == columns[s.column]
  IN  CASE s.op = "IS_NULL"     -> bitmap_not(col.bitmap)
        [] s.op = "IS_NOT_NULL" -> col.bitmap
        [] Types[s.column] = "INT32" /\ s.op \notin {"IS_NULL", "IS_NOT_NULL"} ->
             CompareInts(col, s.op, ToInt32(s.value))
        [] Types[s.column] = "VARCHAR" /\ s.op \notin {"IS_NULL", "IS_NOT_NULL"} ->
             CompareStrings(col, s.op, s.value)

\* LogicalOperation::eval.
EvalColumns(statement, columns) ==
  LET eval[s \in Statements] ==
        CASE s.kind = "AND" -> bitmap_and(eval[s.left], eval[s.right])
          [] s.kind = "OR"  -> bitmap_or(eval[s.left], eval[s.right])
          [] s.kind = "NOT" -> bitmap_not(eval[s.left])
          [] OTHER          -> EvalComparison(s, columns)
  IN  eval[statement]
-----------------------------------------------------------------------------
(* Statement::eval over a record.                                          *)

CompareRecord(s, record) ==
  LET v == record[s.column]
  IN  CASE s.op = "IS_NULL"     -> v = Null
        [] s.op = "IS_NOT_NULL" -> v # Null
        [] OTHER -> /\ v # Null
                    /\ IF Types[s.column] = "INT32" THEN IntTest(s.op, v, s.value)
                                                    ELSE StringTest(s.op, v, s.value)

EvalRecord(statement, record) ==
  LET eval[s \in Statements] ==
        CASE s.kind = "AND" -> eval[s.left] /\ eval[s.right]
          [] s.kind = "OR"  -> eval[s.left] \/ eval[s.right]
          [] s.kind = "NOT" -> ~eval[s.left]
          [] OTHER          -> CompareRecord(s, record)
  IN  eval[statement]
-----------------------------------------------------------------------------
(* The call.                                                               *)

Rewrite ==
  /\ phase \in {"idle", "done", "failed"}
  /\ rewrites < MaxRewrites
  /\ rewrites' = rewrites + 1
  /\ \E p \in Paths, content \in Contents : files' = [files EXCEPT ![p] = content]
  /\ UNCHANGED <<table_cache, result_cache, phase, callVars, parseVars, table,
                 results, convertVars, ret>>

\* Faulty variant: a filtered call is answered from the cache of results, too.
CachedResult_AnyFilter(p, f) == result_cache[p]
CachedResult(p, f) == IF f = NoFilter THEN result_cache[p] ELSE <<>>

Call(p, f) ==
  /\ phase \in {"idle", "done", "failed"}
  /\ calls < MaxCalls
  /\ calls' = calls + 1
  /\ path' = p
  /\ filter' = f
  /\ phase' = "lookup"
  /\ UNCHANGED <<files, table_cache, result_cache, parseVars, table, results,
                 convertVars, ret, rewrites>>

\* A cached result is copied, page by page.
CopyResult ==
  /\ phase = "lookup"
  /\ CachedResult(path, filter) # <<>>
  /\ ret' = CachedResult(path, filter)[1]
  /\ phase' = "done"
  /\ UNCHANGED <<files, table_cache, result_cache, callVars, parseVars, table,
                 results, convertVars, rewrites>>

UseTable ==
  /\ phase = "lookup"
  /\ CachedResult(path, filter) = <<>>
  /\ table_cache[path] # <<>>
  /\ table' = table_cache[path][1]
  /\ phase' = "eval"
  /\ UNCHANGED <<files, table_cache, result_cache, callVars, parseVars, results,
                 convertVars, ret, rewrites>>

OpenFile ==
  /\ phase = "lookup"
  /\ CachedResult(path, filter) = <<>>
  /\ table_cache[path] = <<>>
  /\ table' = NewTable
  /\ field' = <<1, 1>>
  /\ last_record' = <<>>
  /\ phase' = "parse"
  /\ UNCHANGED <<files, table_cache, result_cache, callVars, results, convertVars,
                 ret, rewrites>>

Unread == phase = "parse" /\ field[1] <= Len(files[path])

Text == files[path][field[1]][field[2]]

IsHeader == Header /\ field[1] = 1

Value(text) == IF text = Empty THEN Null ELSE text

NextField ==
  IF field[2] < Len(Types) THEN <<field[1], field[2] + 1>> ELSE <<field[1] + 1, 1>>

\* add_record: one value to every column.
add_record(record) ==
  table' = [rows    |-> table.rows + 1,
            columns |-> [c \in Columns |->
              IF Types[c] = "INT32" THEN push_back(table.columns[c], record[c])
                                    ELSE push_back_string(table.columns[c], record[c])]]

\* std::stoi does not accept the field, or the parser reports an error.
EndsParse == Text = Bad /\ ~IsHeader

\* TableParser::on_field.
\* Faulty variant: the record is not cleared after it has been added.
AfterRecord_Kept(record) == record
AfterRecord(record) == <<>>

on_field ==
  /\ Unread
  /\ ~EndsParse
  /\ field' = NextField
  /\ IF IsHeader
       THEN UNCHANGED <<last_record, table>>
       ELSE LET record == Append(last_record, Value(Text))
            IN  IF field[2] = Len(Types)
                  THEN add_record(record) /\ last_record' = AfterRecord(record)
                  ELSE last_record' = record /\ UNCHANGED table
  /\ UNCHANGED <<files, table_cache, result_cache, phase, callVars, results,
                 convertVars, ret, rewrites>>

\* "parse integer error" or "CSV parse error" ends the call, and full_table
\* goes with it.
ParseError ==
  /\ Unread
  /\ EndsParse
  /\ phase' = "failed"
  /\ UNCHANGED <<files, table_cache, result_cache, callVars, parseVars, table,
                 results, convertVars, ret, rewrites>>

EndOfFile ==
  /\ phase = "parse"
  /\ ~Unread
  /\ table_cache' = [table_cache EXCEPT ![path] = <<table>>]
  /\ phase' = "eval"
  /\ UNCHANGED <<files, result_cache, callVars, parseVars, table, results,
                 convertVars, ret, rewrites>>

Eval ==
  /\ phase = "eval"
  /\ results' = IF filter = NoFilter
                  THEN [j \in 1 .. Bytes(table.rows) |-> 0 .. ByteBits - 1]
                  ELSE EvalColumns(filter, table.columns)
  /\ writers' = [c \in Columns |-> NewWriter]
  /\ at' = [c \in Columns |-> 0]
  /\ phase' = "convert"
  /\ UNCHANGED <<files, table_cache, result_cache, callVars, parseVars, table,
                 ret_rows, ret, rewrites>>

Selected(i) == i % ByteBits \in results[i \div ByteBits + 1]

\* One row of the loop of from_inner_to_column.
ConvertRow(c) ==
  /\ phase = "convert"
  /\ at[c] < table.rows
  /\ LET col == table.columns[c]
         i   == at[c]
     IN  writers' = [writers EXCEPT ![c] =
           IF ~Selected(i) THEN @
           ELSE IF is_not_null(col, i) THEN Insert(Types[c], @, get(c, col, i))
           ELSE InsertNull(Types[c], @)]
  /\ at' = [at EXCEPT ![c] = @ + 1]
  /\ UNCHANGED <<files, table_cache, result_cache, phase, callVars, parseVars,
                 table, results, ret_rows, ret, rewrites>>

\* finalize; and the count of rows, stored by every thread.
EndColumn(c) ==
  /\ phase = "convert"
  /\ at[c] = table.rows
  /\ writers' = [writers EXCEPT ![c] = Finalize(@)]
  /\ at' = [at EXCEPT ![c] = @ + 1]
  /\ ret_rows' = Cardinality({ i \in 0 .. table.rows - 1 : Selected(i) })
  /\ UNCHANGED <<files, table_cache, result_cache, phase, callVars, parseVars,
                 table, results, ret, rewrites>>

Return ==
  /\ phase = "convert"
  /\ \A c \in Columns : at[c] > table.rows
  /\ ret' = [num_rows |-> ret_rows, columns |-> [c \in Columns |-> writers[c].pages]]
  /\ result_cache' = IF filter = NoFilter /\ result_cache[path] = <<>>
                       THEN [result_cache EXCEPT ![path] = <<ret'>>]
                       ELSE result_cache
  /\ phase' = "done"
  /\ UNCHANGED <<files, table_cache, callVars, parseVars, table, results,
                 convertVars, rewrites>>

Init ==
  /\ files \in [Paths -> Contents]
  /\ table_cache = [p \in Paths |-> <<>>]
  /\ result_cache = [p \in Paths |-> <<>>]
  /\ phase = "idle"
  /\ path = CHOOSE p \in Paths : TRUE
  /\ filter = NoFilter
  /\ field = <<1, 1>>
  /\ last_record = <<>>
  /\ table = NewTable
  /\ results = <<>>
  /\ writers = [c \in Columns |-> NewWriter]
  /\ at = [c \in Columns |-> 0]
  /\ ret_rows = 0
  /\ ret = [num_rows |-> 0, columns |-> [c \in Columns |-> <<>>]]
  /\ calls = 0
  /\ rewrites = 0

Next ==
  \/ Rewrite
  \/ \E p \in Paths, f \in Filters : Call(p, f)
  \/ CopyResult \/ UseTable \/ OpenFile
  \/ on_field \/ ParseError \/ EndOfFile \/ Eval
  \/ \E c \in Columns : ConvertRow(c) \/ EndColumn(c)
  \/ Return

Spec == Init /\ [][Next]_vars
-----------------------------------------------------------------------------
(* Properties.                                                             *)

\* A record of values that a reader of the pages finds; a column that is not as
\* long as the table has none.
Decoded(r) ==
  [c \in Columns |->
     LET values == from_columnar(Types[c], ret.columns[c], {})
     IN  IF Len(values) = ret.num_rows THEN values[r] ELSE Bad]

IntColumnOK(col) ==
  /\ col.data \in Seq(Int)
  /\ Len(col.data) = col.row
  /\ col.offsets = <<>>

StringColumnOK(col) ==
  /\ col.data \in Seq(Int)
  /\ col.offsets \in Seq(Nat)
  /\ Len(col.offsets) = col.row
  /\ \A k \in 1 .. col.row :
       /\ col.offsets[k] <= Len(col.data)
       /\ \A l \in k .. col.row : col.offsets[k] <= col.offsets[l]

ColumnOK(type, col) ==
  /\ DOMAIN col = {"data", "offsets", "bitmap", "row"}
  /\ col.row \in Nat
  /\ col.bitmap \in Seq(SUBSET (0 .. ByteBits - 1))
  /\ Len(col.bitmap) = Bytes(col.row)
  /\ IF type = "INT32" THEN IntColumnOK(col) ELSE StringColumnOK(col)

\* An InnerTable: all columns have its rows.
TableOK(t) ==
  /\ DOMAIN t = {"rows", "columns"}
  /\ t.rows \in Nat
  /\ DOMAIN t.columns = Columns
  /\ \A c \in Columns : ColumnOK(Types[c], t.columns[c]) /\ t.columns[c].row = t.rows

\* The types of the variables; the bitmap of results has a bit for every row, and
\* the offsets of a string column ascend within its data.
TypeOK ==
  /\ files \in [Paths -> Contents]
  /\ DOMAIN table_cache = Paths
  /\ \A p \in Paths : table_cache[p] = <<>> \/ TableOK(table_cache[p][1])
  /\ DOMAIN result_cache = Paths
  /\ phase \in {"idle", "lookup", "parse", "eval", "convert", "done", "failed"}
  /\ path \in Paths /\ filter \in Filters
  /\ field \in (Nat \ {0}) \X Columns
  /\ phase = "parse" /\ ~IsHeader => Len(last_record) = field[2] - 1
  /\ TableOK(table)
  /\ phase = "convert" => Len(results) = Bytes(table.rows)
  /\ at \in [Columns -> Nat]
  /\ ret_rows \in Nat
  /\ calls \in 0 .. MaxCalls /\ rewrites \in 0 .. MaxRewrites

\* The pages that are written, and those of the result, keep their data clear of
\* their bitmap, have a bit for every row, and are not taken for a long string
\* (ColumnInserter).
PagesFit ==
  /\ \A c \in Columns : \A k \in DOMAIN writers[c].pages :
       PageFits(Types[c], writers[c].pages[k])
  /\ \A c \in Columns : \A k \in DOMAIN ret.columns[c] :
       PageFits(Types[c], ret.columns[c][k])

\* The records of a file, and of an InnerTable.
FileRecords(content) ==
  LET body == IF Header /\ content # <<>> THEN Tail(content) ELSE content
  IN  [r \in DOMAIN body |-> [c \in Columns |-> Value(body[r][c])]]

TableRecords(t) ==
  [r \in 1 .. t.rows |-> [c \in Columns |->
     IF is_not_null(t.columns[c], r - 1) THEN get(c, t.columns[c], r - 1) ELSE Null]]

WellFormedFile(content) ==
  \A r \in DOMAIN content : \A c \in Columns :
    content[r][c] = Bad => Header /\ r = 1

Accepted(f, record) == f = NoFilter \/ EvalRecord(f, record)

\* from_csv implements TableSpec: whichever of the caches answers, whatever has
\* been filtered before and whatever has become of the file, a path has one
\* version, and its rows are those for which the filter holds record by record.
Tables == INSTANCE TableSpec WITH
  known  <- [p \in Paths |-> IF table_cache[p] = <<>> THEN <<>>
                             ELSE <<TableRecords(table_cache[p][1])>>],
  call   <- [path |-> path, filter |-> filter],
  status <- IF phase \in {"lookup", "parse", "eval", "convert"} THEN "running" ELSE phase,
  answer <- IF phase = "done"
              THEN [r \in 1 .. ret.num_rows |-> Decoded(r)]
              ELSE <<>>,
  Records <- FileRecords, WellFormed <- WellFormedFile, Accepts <- Accepted

ImplementsTables == Tables!Spec
=============================================================================
