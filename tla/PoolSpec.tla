------------------------------ MODULE PoolSpec ------------------------------
(***************************************************************************)
(* What FilterThreadPool::run promises its caller: between the call and    *)
(* its return, the function is applied to every index below num_tasks once *)
(* and to no other; between two calls it is applied to none.               *)
(***************************************************************************)
EXTENDS Integers

CONSTANT MaxTasks \* bound on num_tasks

VARIABLES
  busy,      \* a call of run is in progress
  num_tasks, \* of the current call, or the last
  calls      \* how often the function has been applied to each index

vars == <<busy, num_tasks, calls>>

Indices == 0 .. MaxTasks - 1

Init ==
  /\ busy = FALSE
  /\ num_tasks = 0
  /\ calls = [k \in Indices |-> 0]

Run ==
  /\ ~busy
  /\ busy' = TRUE
  /\ num_tasks' \in 0 .. MaxTasks
  /\ calls' = [k \in Indices |-> 0]

Apply(k) ==
  /\ busy
  /\ k < num_tasks
  /\ calls[k] = 0
  /\ calls' = [calls EXCEPT ![k] = 1]
  /\ UNCHANGED <<busy, num_tasks>>

Return ==
  /\ busy
  /\ \A k \in Indices : k < num_tasks => calls[k] = 1
  /\ busy' = FALSE
  /\ UNCHANGED <<num_tasks, calls>>

Next == Run \/ Return \/ \E k \in Indices : Apply(k)

Spec == Init /\ [][Next]_vars
=============================================================================
