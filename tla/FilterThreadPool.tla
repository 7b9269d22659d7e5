-------------------------- MODULE FilterThreadPool --------------------------
(***************************************************************************)
(* FilterThreadPool of src/include/inner_column.h: a fixed set of workers, *)
(* each with a mutex and a condition variable of its own that it shares    *)
(* with the caller; run hands every worker a slice of 0..num_tasks-1 and   *)
(* waits for the workers one after the other.                              *)
(*                                                                         *)
(* A critical section that another thread cannot observe half-way is one   *)
(* action, enabled when the mutex is free.  A worker keeps its mutex while *)
(* it runs its slice (pc "slice" and "work"); waiting on a condition       *)
(* variable releases the mutex in the same step.  notify_one on a variable *)
(* nobody waits on is lost; wake-ups may also be spurious.                 *)
(***************************************************************************)
EXTENDS Integers

CONSTANTS
  NumThreads,  \* threads.size(), 12 for filter_tp
  MaxTasks,    \* bound on num_tasks
  MaxRuns,     \* bound: calls of run
  MaxSpurious  \* bound: spurious wake-ups

ASSUME PoolAssumption ==
  /\ NumThreads \in Nat \ {0}
  /\ MaxTasks \in Nat
  /\ MaxRuns \in Nat
  /\ MaxSpurious \in Nat

Workers == 0 .. NumThreads - 1
Indices == 0 .. MaxTasks - 1

VARIABLES
  has_function, finished, destructed, \* the flag of each worker
  num_tasks,       \* the member run writes without a lock, like function
  pc,              \* of each worker
  next, end,       \* per worker: the rest of its slice is next .. end - 1
  caller,          \* pc of the thread that owns the pool
  i,               \* the caller's loop variable
  calls,           \* history: how often each index was given to the function
  runs, spurious   \* counters for the bounds

flags      == <<has_function, finished, destructed>>
workerVars == <<pc, next, end>>
callerVars == <<caller, i>>
bounds     == <<runs, spurious>>
vars == <<flags, num_tasks, workerVars, callerVars, calls, bounds>>
-----------------------------------------------------------------------------
\* Faulty variant: slices of equal size, rounded up.
begin_idx_Ceil(t) == t * ((num_tasks + NumThreads - 1) \div NumThreads)

\* thread_id * base + min(thread_id, rem)
begin_idx(t) ==
  LET base == num_tasks \div NumThreads
      rem  == num_tasks % NumThreads
  IN  t * base + (IF t < rem THEN t ELSE rem)

\* Worker t holds its mutex between two steps.
Locked(t) == pc[t] \in {"slice", "work"}

\* The condition worker t waits for, apart from destructed.
Ready(t) == has_function[t] /\ ~finished[t]

\* cv.notify_one by the caller: only the worker can be waiting then.
NotifyWorker(t) ==
  pc' = [pc EXCEPT ![t] = IF @ = "wait" THEN "top" ELSE @]

\* On to the next worker in a loop of the caller, or to what follows the loop.
NextWorker(following) ==
  IF i + 1 < NumThreads THEN i' = i + 1 /\ UNCHANGED caller
                        ELSE i' = 0 /\ caller' = following
-----------------------------------------------------------------------------
(* run_loop.                                                               *)

\* Lock, test the predicate: leave, take up the function, or wait.
Top(t) ==
  /\ pc[t] = "top"
  /\ pc' = [pc EXCEPT ![t] = IF destructed[t] THEN "exit"
                             ELSE IF Ready(t) THEN "slice" ELSE "wait"]
  /\ UNCHANGED <<flags, num_tasks, next, end, callerVars, calls, bounds>>

\* begin_idx(t) and begin_idx(t + 1), read while holding the worker's mutex,
\* which does not protect num_tasks.
Slice(t) ==
  /\ pc[t] = "slice"
  /\ next' = [next EXCEPT ![t] = begin_idx(t)]
  /\ end' = [end EXCEPT ![t] = begin_idx(t + 1)]
  /\ pc' = [pc EXCEPT ![t] = "work"]
  /\ UNCHANGED <<flags, num_tasks, callerVars, calls, bounds>>

\* function(begin, end), one index at a time.
Work(t) ==
  /\ pc[t] = "work"
  /\ next[t] < end[t]
  /\ calls' = [calls EXCEPT ![next[t]] = @ + 1]
  /\ next' = [next EXCEPT ![t] = @ + 1]
  /\ UNCHANGED <<flags, num_tasks, pc, end, callerVars, bounds>>

\* finished = true, unlock.
Finish(t) ==
  /\ pc[t] = "work"
  /\ next[t] >= end[t]
  /\ finished' = [finished EXCEPT ![t] = TRUE]
  /\ pc' = [pc EXCEPT ![t] = "notify"]
  /\ UNCHANGED <<has_function, destructed, num_tasks, next, end, callerVars,
                 calls, bounds>>

\* Faulty variant: nobody is notified.
WakeCaller_Never(t) == UNCHANGED caller
\* notify_one after the unlock: the only other thread on this variable is the
\* caller, if it waits for this worker.
WakeCaller(t) == caller' = IF caller = "asleep" /\ i = t THEN "await" ELSE caller

Notify(t) ==
  /\ pc[t] = "notify"
  /\ pc' = [pc EXCEPT ![t] = "top"]
  /\ WakeCaller(t)
  /\ UNCHANGED <<flags, num_tasks, next, end, i, calls, bounds>>

Worker(t) == Top(t) \/ Slice(t) \/ Work(t) \/ Finish(t) \/ Notify(t)
-----------------------------------------------------------------------------
(* The owner of the pool: constructor, run, destructor.                    *)

\* Thread t starts to run while the constructor goes on.
Spawn ==
  /\ caller = "spawn"
  /\ pc' = [pc EXCEPT ![i] = "top"]
  /\ NextWorker("idle")
  /\ UNCHANGED <<flags, num_tasks, next, end, calls, bounds>>

\* run: function and num_tasks are written without a lock.
Run(n) ==
  /\ caller = "idle"
  /\ runs < MaxRuns
  /\ runs' = runs + 1
  /\ num_tasks' = n
  /\ calls' = [k \in Indices |-> 0]
  /\ caller' = "arm"
  /\ UNCHANGED <<flags, workerVars, i, spurious>>

\* Faulty variant: finished keeps its value from the run before.
ArmFlags_KeepFinished ==
  /\ has_function' = [has_function EXCEPT ![i] = TRUE]
  /\ UNCHANGED finished
ArmFlags ==
  /\ has_function' = [has_function EXCEPT ![i] = TRUE]
  /\ finished' = [finished EXCEPT ![i] = FALSE]

\* First loop of run: the flags of worker i, under its mutex.
Arm ==
  /\ caller = "arm"
  /\ ~Locked(i)
  /\ ArmFlags
  /\ NextWorker("signal")
  /\ UNCHANGED <<destructed, num_tasks, workerVars, calls, bounds>>

\* Second loop of run.
Signal ==
  /\ caller = "signal"
  /\ NotifyWorker(i)
  /\ NextWorker("await")
  /\ UNCHANGED <<flags, num_tasks, next, end, calls, bounds>>

\* Faulty variant: the caller waits for the first worker only.
AfterAwait_First == i' = 0 /\ caller' = "idle"
AfterAwait == NextWorker("idle")

\* Third loop of run: lock, and wait until worker i has finished.
Await ==
  /\ caller = "await"
  /\ ~Locked(i)
  /\ IF finished[i] THEN AfterAwait ELSE caller' = "asleep" /\ UNCHANGED i
  /\ UNCHANGED <<flags, num_tasks, workerVars, calls, bounds>>

\* The destructor, entered when the program ends and no run is in progress.
Destroy ==
  /\ caller = "idle"
  /\ caller' = "mark"
  /\ UNCHANGED <<flags, num_tasks, workerVars, i, calls, bounds>>

Mark ==
  /\ caller = "mark"
  /\ ~Locked(i)
  /\ destructed' = [destructed EXCEPT ![i] = TRUE]
  /\ NextWorker("release")
  /\ UNCHANGED <<has_function, finished, num_tasks, workerVars, calls, bounds>>

\* Faulty variant: the destructor joins without having notified.
ReleaseWorker_Silent(t) == UNCHANGED pc
ReleaseWorker(t) == NotifyWorker(t)

Release ==
  /\ caller = "release"
  /\ ReleaseWorker(i)
  /\ NextWorker("join")
  /\ UNCHANGED <<flags, num_tasks, next, end, calls, bounds>>

Join ==
  /\ caller = "join"
  /\ pc[i] = "exit"
  /\ NextWorker("gone")
  /\ UNCHANGED <<flags, num_tasks, workerVars, calls, bounds>>

Caller == Spawn \/ Arm \/ Signal \/ Await \/ Mark \/ Release \/ Join
-----------------------------------------------------------------------------
\* A waiting thread may wake up without having been notified.
SpuriousWorker(t) ==
  /\ pc[t] = "wait"
  /\ pc' = [pc EXCEPT ![t] = "top"]
  /\ UNCHANGED <<next, end, callerVars>>

SpuriousCaller ==
  /\ caller = "asleep"
  /\ caller' = "await"
  /\ UNCHANGED <<workerVars, i>>

Spurious ==
  /\ spurious < MaxSpurious
  /\ spurious' = spurious + 1
  /\ SpuriousCaller \/ \E t \in Workers : SpuriousWorker(t)
  /\ UNCHANGED <<flags, num_tasks, calls, runs>>

Gone == caller = "gone" /\ UNCHANGED vars

Init ==
  /\ has_function = [t \in Workers |-> FALSE]
  /\ finished = [t \in Workers |-> FALSE]
  /\ destructed = [t \in Workers |-> FALSE]
  /\ num_tasks = 0
  /\ pc = [t \in Workers |-> "unborn"]
  /\ next = [t \in Workers |-> 0]
  /\ end = [t \in Workers |-> 0]
  /\ caller = "spawn"
  /\ i = 0
  /\ calls = [k \in Indices |-> 0]
  /\ runs = 0
  /\ spurious = 0

Next ==
  \/ \E t \in Workers : Worker(t)
  \/ Caller
  \/ \E n \in 0 .. MaxTasks : Run(n)
  \/ Destroy
  \/ Spurious
  \/ Gone

Spec == Init /\ [][Next]_vars

\* The operating system schedules runnable threads, and a free mutex is
\* granted: it is contended by one worker and the caller only.  When and
\* whether run or the destructor is called is not assumed.
FairSpec ==
  /\ Spec
  /\ WF_vars(Caller)
  /\ \A t \in Workers : WF_vars(Worker(t))
-----------------------------------------------------------------------------
(* Properties.                                                             *)

TypeOK ==
  /\ has_function \in [Workers -> BOOLEAN]
  /\ finished \in [Workers -> BOOLEAN]
  /\ destructed \in [Workers -> BOOLEAN]
  /\ num_tasks \in 0 .. MaxTasks
  /\ pc \in [Workers -> {"unborn", "top", "wait", "slice", "work", "notify", "exit"}]
  /\ next \in [Workers -> 0 .. MaxTasks]
  /\ end \in [Workers -> 0 .. MaxTasks]
  /\ caller \in {"spawn", "idle", "arm", "signal", "await", "asleep", "mark",
                 "release", "join", "gone"}
  /\ i \in Workers
  /\ calls \in [Indices -> Nat]
  /\ runs \in 0 .. MaxRuns
  /\ spurious \in 0 .. MaxSpurious

Busy == caller \in {"arm", "signal", "await", "asleep"}

\* function and num_tasks are written without a lock: never while a worker is
\* using them, nor while one could start to (it would run a stale function, or
\* a slice of the wrong size).
ConfigWrittenAlone ==
  [][runs' # runs =>
       \A t \in Workers : ~Locked(t) /\ ~(pc[t] # "unborn" /\ Ready(t))]_vars

\* No wake-up is lost: when the caller sleeps on worker i's condition variable,
\* that worker is still on its way to its notify_one; and a worker never sleeps
\* once the caller has gone past notifying it and it has something to do.
NoLostWakeup ==
  /\ caller = "asleep" => \/ pc[i] \in {"slice", "work", "notify"}
                          \/ pc[i] = "top" /\ Ready(i)
  /\ \A t \in Workers :
       pc[t] = "wait" /\ Ready(t) => \/ caller = "arm"
                                     \/ caller = "signal" /\ i <= t
  /\ \A t \in Workers :
       pc[t] = "wait" /\ destructed[t] => \/ caller = "mark"
                                          \/ caller = "release" /\ i <= t

Pool == INSTANCE PoolSpec WITH busy <- Busy

\* run applies the function to each index once before it returns, and to none
\* after (the slices tile 0..num_tasks-1, nobody runs twice, nobody is left).
ImplementsPool == Pool!Spec

\* run and the destructor return: every worker that is needed wakes up, sees
\* its flag and wakes the caller, or ends.
CallsReturn ==
  /\ caller = "arm" ~> caller = "idle"
  /\ caller = "mark" ~> caller = "gone"
=============================================================================
