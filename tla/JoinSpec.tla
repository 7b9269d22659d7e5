------------------------------ MODULE JoinSpec ------------------------------
(***************************************************************************)
(* What a hash join promises, without threads, partitions or a hash table: *)
(* a job names two key columns, and the output lists every pair of rows    *)
(* with equal non-null keys exactly once, in an order left open.           *)
(***************************************************************************)
EXTENDS Integers, Sequences, FiniteSets

CONSTANTS
  Null,   \* the null value of a column
  Jobs    \* the joins that may be asked for: [left, right, build_left]

VARIABLES
  status, \* "idle", "running" or "done"
  job,    \* the join being executed, or the last one
  output  \* the pairs <<left row, right row>> of the finished join

vars == <<status, job, output>>

\* Rows are numbered from 0, as in the code; columns are sequences.
get_value(column, row) == column[row + 1]

Rows(column) == 0 .. Len(column) - 1

Matches(j) ==
  { pair \in Rows(j.left) \X Rows(j.right) :
      /\ get_value(j.left, pair[1]) # Null
      /\ get_value(j.left, pair[1]) = get_value(j.right, pair[2]) }

\* s lists the elements of S, each of them once.
Enumerates(s, S) ==
  /\ Len(s) = Cardinality(S)
  /\ { s[i] : i \in DOMAIN s } = S

Init ==
  /\ status = "idle"
  /\ job \in Jobs
  /\ output = <<>>

Begin ==
  /\ status # "running"
  /\ status' = "running"
  /\ job' \in Jobs
  /\ output' = <<>>

Finish ==
  /\ status = "running"
  /\ status' = "done"
  /\ Enumerates(output', Matches(job))
  /\ UNCHANGED job

Next == Begin \/ Finish

Spec == Init /\ [][Next]_vars
=============================================================================
