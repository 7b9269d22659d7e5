---------------------- MODULE FilterThreadPool_proofs ----------------------
(***************************************************************************)
(* Proofs about FilterThreadPool for any number of workers, tasks and      *)
(* runs: its types, that run never writes the configuration under a        *)
(* worker's eyes, that no wake-up is lost, and that the pool implements    *)
(* PoolSpec: the slices tile the tasks and every worker serves its own     *)
(* exactly once per call.                                                  *)
(***************************************************************************)
EXTENDS FilterThreadPool, WellFoundedInduction, TLAPS

-----------------------------------------------------------------------------
(* The inductive invariant.                                                *)

\* A worker holds its mutex between two steps only to serve a call of run.
LockedIsReady == \A t \in Workers : Locked(t) => Ready(t)

\* Who may have something to do, by the progress of the caller's loops.
ReadyOnlyInRun ==
  \A t \in Workers : Ready(t) =>
    \/ caller = "arm" /\ t < i
    \/ caller = "signal"
    \/ caller \in {"await", "asleep"} /\ t >= i

\* Workers that the first loop of run has passed have their function.
ArmedAfterArm ==
  \A t \in Workers :
    (caller = "arm" /\ t < i) \/ caller \in {"signal", "await", "asleep"} => has_function[t]

\* A loop of the caller begins with the first worker.
LoopsFromZero == caller = "idle" => i = 0

\* Workers exist from the constructor on, and leave only for the destructor.
Lifetime ==
  \A t \in Workers :
    /\ pc[t] = "unborn" => caller = "spawn" /\ i <= t
    /\ pc[t] = "exit" => destructed[t]
    /\ destructed[t] => caller \in {"mark", "release", "join", "gone"}

IInv ==
  /\ TypeOK
  /\ LockedIsReady
  /\ ReadyOnlyInRun
  /\ ArmedAfterArm
  /\ LoopsFromZero
  /\ Lifetime
  /\ NoLostWakeup
-----------------------------------------------------------------------------
(* Types.                                                                  *)

\* The slice boundaries of run_loop are indices, or one past the last.
LEMMA SliceBounds ==
  ASSUME num_tasks \in 0 .. MaxTasks, NEW t \in 0 .. NumThreads
  PROVE  begin_idx(t) \in 0 .. MaxTasks
<1> DEFINE base == num_tasks \div NumThreads
           rem  == num_tasks % NumThreads
<1>1. /\ NumThreads \in Nat \ {0} /\ MaxTasks \in Nat /\ num_tasks \in Nat
      /\ num_tasks <= MaxTasks
  BY PoolAssumption
<1>2. /\ base \in Nat /\ rem \in 0 .. NumThreads - 1
      /\ num_tasks = NumThreads * base + rem
  BY <1>1
<1> HIDE DEF base, rem
<1>3. /\ t * base \in Nat
      /\ t * base <= NumThreads * base
  BY <1>1, <1>2
<1>4. begin_idx(t) = t * base + (IF t < rem THEN t ELSE rem)
  BY DEF begin_idx, base, rem
<1> QED
  BY <1>1, <1>2, <1>3, <1>4

\* Every step keeps the types: a worker stays inside its slice and the caller
\* inside its loops.
LEMMA TypeStep == TypeOK /\ [Next]_vars => TypeOK'
<1> SUFFICES ASSUME TypeOK, [Next]_vars PROVE TypeOK'
  OBVIOUS
<1> USE PoolAssumption DEF TypeOK, Workers, Indices, flags, workerVars, callerVars, bounds
<1>1. ASSUME NEW t \in Workers, Worker(t) PROVE TypeOK'
  <2>1. CASE Top(t) BY <2>1 DEF Top
  <2>2. CASE Slice(t)
    <3>1. begin_idx(t) \in 0 .. MaxTasks /\ begin_idx(t + 1) \in 0 .. MaxTasks
      BY SliceBounds
    <3> QED BY <2>2, <3>1 DEF Slice
  <2>3. CASE Work(t) BY <2>3, SMTT(30) DEF Work
  <2>4. CASE Finish(t) BY <2>4 DEF Finish
  <2>5. CASE Notify(t) BY <2>5 DEF Notify, WakeCaller
  <2> QED BY <1>1, <2>1, <2>2, <2>3, <2>4, <2>5 DEF Worker
<1>2. CASE Caller
  <2> USE DEF NextWorker
  <2>1. CASE Spawn BY <2>1, SMTT(30) DEF Spawn
  <2>2. CASE Arm BY <2>2 DEF Arm, ArmFlags
  <2>3. CASE Signal BY <2>3 DEF Signal, NotifyWorker
  <2>4. CASE Await BY <2>4, SMTT(30) DEF Await, AfterAwait
  <2>5. CASE Mark BY <2>5, SMTT(30) DEF Mark
  <2>6. CASE Release BY <2>6, SMTT(30) DEF Release, ReleaseWorker, NotifyWorker
  <2>7. CASE Join BY <2>7, SMTT(30) DEF Join
  <2> QED BY <1>2, <2>1, <2>2, <2>3, <2>4, <2>5, <2>6, <2>7 DEF Caller
<1>3. ASSUME NEW n \in 0 .. MaxTasks, Run(n) PROVE TypeOK'
  BY <1>3 DEF Run
<1>4. CASE Destroy BY <1>4 DEF Destroy
<1>5. CASE Spurious BY <1>5, SMTT(30) DEF Spurious, SpuriousWorker, SpuriousCaller
<1>6. CASE UNCHANGED vars BY <1>6 DEF vars
<1> QED
  BY <1>1, <1>2, <1>3, <1>4, <1>5, <1>6 DEF Next, Gone

\* The pool's variables keep their types, for any number of workers and tasks;
\* in particular no worker is handed an index outside 0..num_tasks-1's bound.
THEOREM TypeCorrect == Spec => []TypeOK
<1>1. Init => TypeOK
  BY PoolAssumption DEF Init, TypeOK, Workers, Indices
<1> QED
  BY <1>1, TypeStep, PTL DEF Spec
-----------------------------------------------------------------------------
(* Wake-ups.                                                               *)

LEMMA InitInv == Init => IInv
<1> SUFFICES ASSUME Init PROVE IInv
  OBVIOUS
<1>1. TypeOK
  BY PoolAssumption DEF Init, TypeOK, Workers, Indices
<1>2. /\ LockedIsReady /\ ReadyOnlyInRun /\ ArmedAfterArm /\ LoopsFromZero
      /\ Lifetime /\ NoLostWakeup
  BY PoolAssumption DEF Init, Workers, LockedIsReady, ReadyOnlyInRun, ArmedAfterArm,
                       LoopsFromZero, Lifetime, NoLostWakeup, Locked, Ready
<1> QED
  BY <1>1, <1>2 DEF IInv

\* The steps of the workers.
LEMMA WorkerInv ==
  ASSUME IInv, TypeOK', NEW w \in Workers, Worker(w)
  PROVE  IInv'
<1> USE PoolAssumption DEF IInv, TypeOK, Workers, flags, workerVars, callerVars, bounds,
        LockedIsReady, ReadyOnlyInRun, ArmedAfterArm, LoopsFromZero, Lifetime,
        NoLostWakeup, Locked, Ready
<1>1. CASE Top(w) BY <1>1, SMTT(30) DEF Top
<1>2. CASE Slice(w) BY <1>2, SMTT(30) DEF Slice
<1>3. CASE Work(w) BY <1>3, SMTT(30) DEF Work
<1>4. CASE Finish(w) BY <1>4, SMTT(30) DEF Finish
<1>5. CASE Notify(w) BY <1>5, SMTT(30) DEF Notify, WakeCaller
<1> QED
  BY <1>1, <1>2, <1>3, <1>4, <1>5 DEF Worker

\* The steps of the thread that owns the pool, once run or the destructor is called.
LEMMA CallerInv ==
  ASSUME IInv, TypeOK', Caller
  PROVE  IInv'
<1> USE PoolAssumption DEF IInv, TypeOK, Workers, flags, workerVars, callerVars, bounds,
        LockedIsReady, ReadyOnlyInRun, ArmedAfterArm, LoopsFromZero, Lifetime,
        NoLostWakeup, Locked, Ready,
        NextWorker
<1>1. CASE Spawn BY <1>1, SMTT(30) DEF Spawn
<1>2. CASE Arm
  <2>1. /\ has_function' = [has_function EXCEPT ![i] = TRUE]
        /\ finished' = [finished EXCEPT ![i] = FALSE]
        /\ UNCHANGED <<destructed, pc>>
        /\ caller = "arm" /\ ~Locked(i)
        /\ \/ i + 1 < NumThreads /\ i' = i + 1 /\ caller' = "arm"
           \/ i + 1 = NumThreads /\ i' = 0 /\ caller' = "signal"
    BY <1>2 DEF Arm, ArmFlags
  <2>2. LockedIsReady' BY <2>1
  <2>3. ReadyOnlyInRun' BY <2>1
  <2>4. ArmedAfterArm'
    <3> SUFFICES ASSUME NEW t \in Workers,
                        (caller' = "arm" /\ t < i') \/ caller' \in {"signal", "await", "asleep"}
                 PROVE  has_function'[t]
      BY Zenon DEF ArmedAfterArm
    <3>1. t <= i BY <2>1
    <3>2. CASE t = i BY <2>1, <3>2
    <3>3. CASE t < i BY <2>1, <3>3
    <3> QED BY <3>1, <3>2, <3>3
  <2>5. Lifetime' BY <2>1
  <2>6. LoopsFromZero' BY <2>1
  <2>7. NoLostWakeup'
    <3>1. \A t \in Workers : ~destructed'[t] BY <2>1
    <3>2. \A t \in Workers : caller' = "arm" \/ (caller' = "signal" /\ i' <= t)
      <4>1. CASE caller' = "arm" BY <4>1
      <4>2. CASE i' = 0 /\ caller' = "signal"
        <5>1. \A t \in Workers : 0 <= t OBVIOUS
        <5> QED BY <4>2, <5>1, Zenon
      <4> QED BY <2>1, <4>1, <4>2
    <3>3. caller' # "asleep" BY <2>1
    <3> QED BY <3>1, <3>2, <3>3
  <2> QED BY <2>2, <2>3, <2>4, <2>5, <2>6, <2>7
<1>3. CASE Signal BY <1>3, SMTT(30) DEF Signal, NotifyWorker
<1>4. CASE Await BY <1>4, SMTT(30) DEF Await, AfterAwait
<1>5. CASE Mark BY <1>5, SMTT(30) DEF Mark
<1>6. CASE Release BY <1>6, SMTT(30) DEF Release, ReleaseWorker, NotifyWorker
<1>7. CASE Join BY <1>7, SMTT(30) DEF Join
<1> QED
  BY <1>1, <1>2, <1>3, <1>4, <1>5, <1>6, <1>7 DEF Caller

LEMMA InvStep == IInv /\ [Next]_vars => IInv'
<1> SUFFICES ASSUME IInv, [Next]_vars PROVE IInv'
  OBVIOUS
<1>1. TypeOK'
  BY TypeStep DEF IInv
<1>2. ASSUME NEW w \in Workers, Worker(w) PROVE IInv'
  BY <1>1, <1>2, WorkerInv
<1>3. CASE Caller
  BY <1>1, <1>3, CallerInv
<1> USE PoolAssumption DEF IInv, Workers, flags, workerVars, callerVars, bounds,
        LockedIsReady, ReadyOnlyInRun, ArmedAfterArm, LoopsFromZero, Lifetime,
        NoLostWakeup, Locked, Ready
<1>4. ASSUME NEW n \in 0 .. MaxTasks, Run(n) PROVE IInv'
  BY <1>1, <1>4, SMTT(30) DEF Run, TypeOK
<1>5. CASE Destroy
  BY <1>1, <1>5, SMTT(30) DEF Destroy, TypeOK
<1>6. CASE Spurious
  BY <1>1, <1>6, SMTT(30) DEF Spurious, SpuriousWorker, SpuriousCaller, TypeOK
<1>7. CASE UNCHANGED vars
  BY <1>1, <1>7, SMTT(30) DEF vars
<1> QED
  BY <1>2, <1>3, <1>4, <1>5, <1>6, <1>7 DEF Next, Gone

\* The invariant holds in every state.
THEOREM Invariant == Spec => []IInv
  BY InitInv, InvStep, PTL DEF Spec

\* No notify_one of run, run_loop or the destructor is ever lost on a thread
\* that still needs it, whatever the number of workers and of calls.
THEOREM NoWakeupIsLost == Spec => []NoLostWakeup
<1>1. IInv => NoLostWakeup
  BY DEF IInv
<1> QED
  BY <1>1, Invariant, PTL

\* run writes function and num_tasks, without a lock, only while no worker uses
\* them or could begin to.
THEOREM ConfigurationIsWrittenAlone == Spec => ConfigWrittenAlone
<1> DEFINE Alone == runs' # runs =>
             \A t \in Workers : ~Locked(t) /\ ~(pc[t] # "unborn" /\ Ready(t))
<1>1. IInv /\ [Next]_vars => [Alone]_vars
  <2> SUFFICES ASSUME IInv, Next, runs' # runs PROVE Alone
    BY DEF vars, bounds
  <2>1. PICK n \in 0 .. MaxTasks : Run(n)
    BY DEF Next, Worker, Top, Slice, Work, Finish, Notify, Caller, Spawn, Arm, Signal, Await,
           Mark, Release, Join, Destroy, Spurious, Gone, vars, bounds
  <2>2. \A t \in Workers : ~Ready(t)
    BY <2>1 DEF IInv, ReadyOnlyInRun, Run
  <2> QED
    BY <2>2 DEF IInv, LockedIsReady
<1> QED
  BY <1>1, Invariant, PTL DEF Spec, ConfigWrittenAlone
-----------------------------------------------------------------------------
(* Slices: what the workers have done of a call of run.                    *)

LEMMA Least ==
  ASSUME NEW T, T \subseteq Nat, T # {}
  PROVE  \E m \in T : \A k \in T : m <= k
<1> DEFINE R == OpToRel(<, Nat)
<1>1. IsWellFoundedOn(R, Nat)
  BY NatLessThanWellFounded
<1>2. \A x, y \in Nat : <<y, x>> \in R <=> y < x
  BY DEF OpToRel
<1> HIDE DEF R
<1>3. PICK m \in T : \A k \in T : ~(<<k, m>> \in R)
  BY <1>1, WFMin
<1>4. \A k \in T : ~(k < m) /\ k \in Nat /\ m \in Nat
  BY <1>2, <1>3
<1>5. \A k \in T : m <= k
  BY <1>4
<1> QED
  BY <1>5

SliceOf(t) == begin_idx(t) .. begin_idx(t + 1) - 1

\* The slices of the workers follow one another and cover 0 .. num_tasks - 1.
Tiled ==
  /\ begin_idx(0) = 0
  /\ begin_idx(NumThreads) = num_tasks
  /\ \A t \in 0 .. NumThreads : begin_idx(t) \in 0 .. num_tasks
  /\ \A t, u \in 0 .. NumThreads : t <= u => begin_idx(t) <= begin_idx(u)

LEMMA TilesRun == num_tasks \in 0 .. MaxTasks => Tiled
<1> SUFFICES ASSUME num_tasks \in 0 .. MaxTasks PROVE Tiled
  OBVIOUS
<1> DEFINE base == num_tasks \div NumThreads
           rem  == num_tasks % NumThreads
           least(t) == IF t < rem THEN t ELSE rem
<1>1. /\ NumThreads \in Nat \ {0} /\ num_tasks \in Nat
      /\ base \in Nat /\ rem \in 0 .. NumThreads - 1
      /\ num_tasks = NumThreads * base + rem
  BY PoolAssumption
<1>2. ASSUME NEW t \in 0 .. NumThreads PROVE begin_idx(t) = t * base + least(t)
  BY DEF begin_idx
<1> HIDE DEF base, rem
<1>3. ASSUME NEW t \in 0 .. NumThreads, NEW u \in 0 .. NumThreads, t <= u
      PROVE  begin_idx(t) <= begin_idx(u)
  <2>1. t * base \in Nat /\ u * base \in Nat /\ t * base <= u * base
    BY <1>1, <1>3
  <2>2. least(t) \in Nat /\ least(u) \in Nat /\ least(t) <= least(u)
    BY <1>1, <1>3
  <2>3. PICK a \in Nat, b \in Nat, c \in Nat, d \in Nat :
          a = t * base /\ b = u * base /\ c = least(t) /\ d = least(u)
    BY <2>1, <2>2
  <2>4. begin_idx(t) = a + c /\ begin_idx(u) = b + d /\ a <= b /\ c <= d
    BY <1>2, <2>1, <2>2, <2>3
  <2> QED BY <2>4
<1>4. begin_idx(0) = 0
  <2>1. 0 * base = 0 /\ least(0) = 0
    BY <1>1
  <2> QED BY <1>1, <1>2, <2>1
<1>5. begin_idx(NumThreads) = num_tasks
  <2>1. least(NumThreads) = rem
    BY <1>1
  <2> QED BY <1>1, <1>2, <2>1
<1>6. ASSUME NEW t \in 0 .. NumThreads PROVE begin_idx(t) \in 0 .. num_tasks
  <2>1. begin_idx(t) \in Nat
    <3>1. t * base \in Nat /\ least(t) \in Nat
      BY <1>1
    <3> QED BY <1>2, <3>1
  <2>2. begin_idx(t) <= num_tasks
    BY <1>1, <1>3, <1>5
  <2> QED BY <1>1, <2>1, <2>2
<1> QED
  BY <1>3, <1>4, <1>5, <1>6 DEF Tiled

LEMMA Tiles == TypeOK => Tiled
  BY TilesRun DEF TypeOK

\* Every task is in the slice of a worker ...
LEMMA TaskInSlice ==
  ASSUME Tiled, num_tasks \in Nat, NEW k \in Nat, k < num_tasks
  PROVE  \E t \in Workers : k \in SliceOf(t)
<1> DEFINE T == { t \in 0 .. NumThreads : k < begin_idx(t) }
<1>1. NumThreads \in T /\ T \subseteq Nat
  BY PoolAssumption DEF Tiled
<1>2. PICK m \in T : \A t \in T : m <= t
  BY <1>1, Least
<1>3. m # 0 /\ m \in 1 .. NumThreads
  <2>1. m \in 0 .. NumThreads /\ m # 0
    BY <1>2, PoolAssumption DEF Tiled
  <2> QED BY <2>1, PoolAssumption
<1>4. m - 1 \in Workers /\ m - 1 \in 0 .. NumThreads /\ ~(m <= m - 1) /\ (m - 1) + 1 = m
  BY <1>3, PoolAssumption DEF Workers
<1>5. ~(k < begin_idx(m - 1))
  BY <1>2, <1>4
<1>6. begin_idx(m - 1) \in Nat /\ begin_idx(m) \in Nat /\ k < begin_idx(m)
  BY <1>2, <1>3, <1>4 DEF Tiled
<1>7. k \in begin_idx(m - 1) .. begin_idx((m - 1) + 1) - 1
  BY <1>4, <1>5, <1>6
<1> QED
  BY <1>4, <1>7 DEF SliceOf

\* ... and of one only.
LEMMA SlicesApart ==
  ASSUME Tiled, num_tasks \in Nat, NEW t \in Workers, NEW u \in Workers, t # u, NEW k \in SliceOf(t)
  PROVE  k \notin SliceOf(u)
<1>1. /\ t \in 0 .. NumThreads /\ t + 1 \in 0 .. NumThreads
      /\ u \in 0 .. NumThreads /\ u + 1 \in 0 .. NumThreads
      /\ t \in Nat /\ u \in Nat
  BY PoolAssumption DEF Workers
<1>2. /\ begin_idx(t) \in Nat /\ begin_idx(t + 1) \in Nat
      /\ begin_idx(u) \in Nat /\ begin_idx(u + 1) \in Nat
  BY <1>1 DEF Tiled
<1>3. CASE t + 1 <= u
  <2>1. begin_idx(t + 1) <= begin_idx(u)
    BY <1>1, <1>3 DEF Tiled
  <2> QED BY <1>2, <2>1 DEF SliceOf
<1>4. CASE u + 1 <= t
  <2>1. begin_idx(u + 1) <= begin_idx(t)
    BY <1>1, <1>4 DEF Tiled
  <2> QED BY <1>2, <2>1 DEF SliceOf
<1> QED
  BY <1>1, <1>3, <1>4

\* The tasks of worker t have not been begun, are all done, or are done up to
\* the worker's next one.
Untouched(t) == \A k \in SliceOf(t) : calls[k] = 0
Served(t) == \A k \in SliceOf(t) : calls[k] = 1
Serving(t) ==
  /\ next[t] \in begin_idx(t) .. begin_idx(t + 1)
  /\ end[t] = begin_idx(t + 1)
  /\ \A k \in SliceOf(t) : calls[k] = IF k < next[t] THEN 1 ELSE 0

\* Worker t has its slice of the call still before it.
Waiting(t) == Ready(t) \/ (caller = "arm" /\ i <= t)

SliceState(t) ==
  /\ pc[t] = "work" => Serving(t)
  /\ pc[t] # "work" /\ Waiting(t) => Untouched(t)
  /\ ~Waiting(t) => Served(t)

SliceInv == Busy => \A t \in Workers : SliceState(t)

\* A step that neither begins nor ends the service of a slice.
Frame ==
  /\ Busy' => Busy
  /\ UNCHANGED <<num_tasks, calls, next, end>>
  /\ \A t \in Workers : (pc'[t] = "work") <=> (pc[t] = "work")
  /\ Busy' => \A t \in Workers : Waiting(t)' <=> Waiting(t)

LEMMA FrameKeepsSlices == SliceInv /\ Frame => SliceInv'
<1> SUFFICES ASSUME SliceInv, Frame, Busy', NEW t \in Workers PROVE SliceState(t)'
  BY DEF SliceInv
<1>1. SliceState(t)
  BY DEF SliceInv, Frame
<1>2. /\ begin_idx(t)' = begin_idx(t) /\ begin_idx(t + 1)' = begin_idx(t + 1)
      /\ SliceOf(t)' = SliceOf(t)
  BY DEF Frame, begin_idx, SliceOf
<1>3. /\ Untouched(t)' <=> Untouched(t)
      /\ Served(t)' <=> Served(t)
  BY <1>2 DEF Frame, Untouched, Served
<1>4. Serving(t)' <=> Serving(t)
  BY <1>2 DEF Frame, Serving
<1>5. /\ (Waiting(t)' <=> Waiting(t))
      /\ (pc'[t] = "work") <=> (pc[t] = "work")
  BY DEF Frame
<1> QED
  BY <1>1, <1>3, <1>4, <1>5 DEF SliceState

LEMMA FrameSteps ==
  ASSUME IInv,
         \/ UNCHANGED vars
         \/ Caller \/ Destroy \/ Spurious
         \/ \E w \in Workers : Top(w) \/ Notify(w)
  PROVE  Frame
<1> USE PoolAssumption DEF IInv, TypeOK, Workers, flags, workerVars, callerVars, bounds,
        Frame, Waiting, Ready, Busy
<1>1. CASE UNCHANGED vars
  BY <1>1 DEF vars
<1>2. CASE Caller
  <2> USE DEF NextWorker
  <2>1. CASE Spawn
    <3>1. ~Busy' /\ UNCHANGED <<num_tasks, calls, next, end>>
      BY <2>1 DEF Spawn
    <3>2. ASSUME NEW t \in Workers PROVE (pc'[t] = "work") <=> (pc[t] = "work")
      <4>1. pc[i] # "work"
        <5>1. ~Ready(i)
          BY <2>1 DEF Spawn, ReadyOnlyInRun
        <5> QED BY <5>1 DEF LockedIsReady, Locked
      <4> QED BY <2>1, <4>1 DEF Spawn
    <3> HIDE DEF Waiting, Workers, Busy, IInv, NextWorker
    <3> QED BY <3>1, <3>2, Zenon
  <2>2. CASE Arm
    <3>1. /\ UNCHANGED <<num_tasks, calls, next, end, pc>>
          /\ Busy
      BY <2>2 DEF Arm
    <3>2. ASSUME NEW t \in Workers PROVE Waiting(t)' <=> Waiting(t)
      <4>1. CASE t = i BY <2>2, <4>1 DEF Arm, ArmFlags
      <4>2. CASE t < i BY <2>2, <4>2 DEF Arm, ArmFlags
      <4>3. CASE t > i BY <2>2, <4>3 DEF Arm, ArmFlags
      <4> QED BY <4>1, <4>2, <4>3
    <3>3. \A t \in Workers : Waiting(t)' <=> Waiting(t)
      BY <3>2, Zenon
    <3>4. \A t \in Workers : (pc'[t] = "work") <=> (pc[t] = "work")
      BY <3>1
    <3> HIDE DEF Waiting, Workers, Busy, IInv
    <3> QED BY <3>1, <3>3, <3>4, Zenon
  <2>3. CASE Signal BY <2>3, SMTT(30) DEF Signal, NotifyWorker
  <2>4. CASE Await BY <2>4, SMTT(30) DEF Await, AfterAwait
  <2>5. CASE Mark BY <2>5, SMTT(30) DEF Mark
  <2>6. CASE Release BY <2>6, SMTT(30) DEF Release, ReleaseWorker, NotifyWorker
  <2>7. CASE Join BY <2>7, SMTT(30) DEF Join
  <2> QED BY <1>2, <2>1, <2>2, <2>3, <2>4, <2>5, <2>6, <2>7 DEF Caller
<1>3. CASE Destroy
  BY <1>3 DEF Destroy
<1>4. CASE Spurious
  BY <1>4, SMTT(30) DEF Spurious, SpuriousWorker, SpuriousCaller
<1>5. ASSUME NEW w \in Workers, Top(w) PROVE Frame
  BY <1>5, SMTT(30) DEF Top
<1>6. ASSUME NEW w \in Workers, Notify(w) PROVE Frame
  BY <1>6, SMTT(30) DEF Notify, WakeCaller
<1> QED
  BY <1>1, <1>2, <1>3, <1>4, <1>5, <1>6

\* A new call: nobody is serving the one before, and nothing is done of this one.
LEMMA RunSlices ==
  ASSUME IInv, TypeOK', NEW n \in 0 .. MaxTasks, Run(n)
  PROVE  SliceInv'
<1> SUFFICES ASSUME NEW t \in Workers PROVE SliceState(t)'
  BY DEF SliceInv
<1>1. /\ caller = "idle" /\ i = 0 /\ caller' = "arm" /\ i' = 0 /\ 0 <= t
      /\ num_tasks' \in 0 .. MaxTasks
  BY PoolAssumption DEF Run, IInv, LoopsFromZero, callerVars, Workers, TypeOK
<1>2. pc'[t] # "work"
  BY <1>1 DEF Run, IInv, LockedIsReady, ReadyOnlyInRun, Locked, workerVars
<1>3. Waiting(t)'
  BY <1>1 DEF Waiting
<1>4. Untouched(t)'
  <2>1. Tiled'
    BY Tiles, PTL
  <2>2. t \in 0 .. NumThreads /\ t + 1 \in 0 .. NumThreads
    BY PoolAssumption DEF Workers
  <2>3. /\ begin_idx(t)' \in 0 .. num_tasks' /\ begin_idx(t + 1)' \in 0 .. num_tasks'
    BY <2>1, <2>2 DEF Tiled
  <2>4. SliceOf(t)' \subseteq Indices
    BY <1>1, <2>3, PoolAssumption DEF SliceOf, Indices
  <2> QED BY <2>4 DEF Untouched, Run
<1> QED
  BY <1>2, <1>3, <1>4 DEF SliceState

\* A worker that reads its boundaries has not begun its slice.
LEMMA SliceSlices ==
  ASSUME IInv, SliceInv, Tiled, NEW w \in Workers, Slice(w)
  PROVE  SliceInv'
<1> SUFFICES ASSUME Busy', NEW t \in Workers PROVE SliceState(t)'
  BY DEF SliceInv
<1>1. /\ SliceState(t)
      /\ UNCHANGED <<has_function, finished, num_tasks, caller, i, calls>>
  BY DEF SliceInv, Slice, flags, callerVars, Busy
<1>2. /\ begin_idx(t)' = begin_idx(t) /\ begin_idx(t + 1)' = begin_idx(t + 1)
      /\ SliceOf(t)' = SliceOf(t)
  BY <1>1 DEF begin_idx, SliceOf
<1>3. /\ Untouched(t)' <=> Untouched(t)
      /\ Served(t)' <=> Served(t)
      /\ Waiting(t)' <=> Waiting(t)
  BY <1>1, <1>2 DEF Untouched, Served, Waiting, Ready
<1>4. CASE t # w
  <2>1. pc'[t] = pc[t] /\ next'[t] = next[t] /\ end'[t] = end[t]
    BY <1>4 DEF Slice, IInv, TypeOK
  <2>2. Serving(t)' <=> Serving(t)
    BY <1>1, <1>2, <2>1 DEF Serving
  <2> QED BY <1>1, <1>3, <2>1, <2>2 DEF SliceState
<1>5. CASE t = w
  <2>1. Waiting(t) /\ pc[t] # "work"
    BY <1>5 DEF Slice, IInv, LockedIsReady, Locked, Waiting
  <2>2. Untouched(t)
    BY <1>1, <2>1 DEF SliceState
  <2>3. /\ pc'[t] = "work" /\ next'[t] = begin_idx(t) /\ end'[t] = begin_idx(t + 1)
    BY <1>5 DEF Slice, IInv, TypeOK
  <2>4. t \in 0 .. NumThreads /\ t + 1 \in 0 .. NumThreads /\ t <= t + 1
    BY PoolAssumption DEF Workers
  <2>5. begin_idx(t) \in Nat /\ begin_idx(t + 1) \in Nat /\ begin_idx(t) <= begin_idx(t + 1)
    BY <2>4 DEF Tiled
  <2>6. \A k \in SliceOf(t) : ~(k < begin_idx(t))
    BY <2>5 DEF SliceOf
  <2>7. Serving(t)'
    BY <1>1, <1>2, <2>2, <2>3, <2>5, <2>6 DEF Serving, Untouched
  <2> QED BY <1>3, <2>1, <2>3, <2>7 DEF SliceState
<1> QED
  BY <1>4, <1>5

\* A worker's call of the function for one task is in its own slice only.
LEMMA WorkSlices ==
  ASSUME IInv, SliceInv, Tiled, NEW w \in Workers, Work(w)
  PROVE  SliceInv'
<1> SUFFICES ASSUME Busy', NEW t \in Workers PROVE SliceState(t)'
  BY DEF SliceInv
<1>1. /\ SliceState(t) /\ SliceState(w)
      /\ UNCHANGED <<has_function, finished, num_tasks, caller, i, pc, end>>
      /\ pc[w] = "work"
  BY DEF SliceInv, Work, flags, callerVars, Busy
<1>2. /\ begin_idx(t)' = begin_idx(t) /\ begin_idx(t + 1)' = begin_idx(t + 1)
      /\ SliceOf(t)' = SliceOf(t)
  BY <1>1 DEF begin_idx, SliceOf
<1>3. Waiting(t)' <=> Waiting(t)
  BY <1>1 DEF Waiting, Ready
<1>4. /\ w \in 0 .. NumThreads /\ w + 1 \in 0 .. NumThreads
      /\ num_tasks \in Nat
  BY PoolAssumption DEF Workers, IInv, TypeOK
<1>5. /\ begin_idx(w) \in Nat /\ begin_idx(w + 1) \in 0 .. num_tasks
  BY <1>4 DEF Tiled
<1>6. /\ Serving(w)
      /\ next[w] \in SliceOf(w) /\ next[w] \in Indices /\ next[w] \in Nat
      /\ next[w] < begin_idx(w + 1)
  <2>1. Serving(w)
    BY <1>1 DEF SliceState
  <2>2. next[w] \in begin_idx(w) .. begin_idx(w + 1) /\ next[w] < begin_idx(w + 1)
    BY <2>1 DEF Serving, Work
  <2> QED BY <1>4, <1>5, <2>1, <2>2, PoolAssumption, SMTT(30) DEF SliceOf, Indices, IInv, TypeOK
<1>7. /\ calls' = [calls EXCEPT ![next[w]] = calls[next[w]] + 1]
      /\ next' = [next EXCEPT ![w] = next[w] + 1]
      /\ calls \in [Indices -> Nat] /\ next \in [Workers -> 0 .. MaxTasks]
  BY DEF Work, IInv, TypeOK
<1>8. CASE t # w
  <2>1. next'[t] = next[t]
    BY <1>7, <1>8
  <2>2. \A k \in SliceOf(t) : k # next[w]
    BY <1>4, <1>6, <1>8, SlicesApart
  <2>3. \A k \in SliceOf(t) : calls'[k] = calls[k]
    BY <1>6, <1>7, <2>2
  <2>4. /\ Untouched(t)' <=> Untouched(t)
        /\ Served(t)' <=> Served(t)
    BY <1>2, <2>3 DEF Untouched, Served
  <2>5. Serving(t)' <=> Serving(t)
    BY <1>1, <1>2, <2>1, <2>3 DEF Serving
  <2> QED BY <1>1, <1>3, <2>4, <2>5 DEF SliceState
<1>9. CASE t = w
  <2>1. next'[t] = next[w] + 1 /\ calls'[next[w]] = calls[next[w]] + 1
    BY <1>6, <1>7, <1>9
  <2>2. calls[next[w]] = 0
    BY <1>6 DEF Serving
  <2>3. ASSUME NEW k \in SliceOf(w) PROVE calls'[k] = IF k < next[w] + 1 THEN 1 ELSE 0
    <3>1. CASE k = next[w]
      BY <1>6, <2>1, <2>2, <3>1
    <3>2. CASE k # next[w]
      <4>1. k \in Int /\ ((k < next[w] + 1) <=> (k < next[w]))
        BY <1>5, <1>6, <3>2 DEF SliceOf
      <4>2. calls'[k] = calls[k]
        BY <1>6, <1>7, <3>2
      <4>3. calls[k] = IF k < next[w] THEN 1 ELSE 0
        BY <1>6 DEF Serving
      <4> QED BY <4>1, <4>2, <4>3
    <3> QED BY <3>1, <3>2
  <2>4. next[w] + 1 \in begin_idx(w) .. begin_idx(w + 1)
    BY <1>5, <1>6 DEF SliceOf
  <2>5. end[w] = begin_idx(w + 1)
    BY <1>6 DEF Serving
  <2>6. Serving(t)'
    BY <1>1, <1>2, <1>9, <2>1, <2>3, <2>4, <2>5 DEF Serving
  <2>7. Waiting(t)
    BY <1>1, <1>9 DEF IInv, LockedIsReady, Locked, Waiting
  <2> QED BY <1>1, <1>3, <1>9, <2>6, <2>7 DEF SliceState
<1> QED
  BY <1>8, <1>9

\* A worker that has finished has served its whole slice.
LEMMA FinishSlices ==
  ASSUME IInv, SliceInv, Tiled, NEW w \in Workers, Finish(w)
  PROVE  SliceInv'
<1> SUFFICES ASSUME Busy', NEW t \in Workers PROVE SliceState(t)'
  BY DEF SliceInv
<1>1. /\ SliceState(t)
      /\ UNCHANGED <<has_function, num_tasks, caller, i, next, end, calls>>
      /\ pc[w] = "work" /\ next[w] >= end[w]
  BY DEF SliceInv, Finish, callerVars, Busy
<1>2. /\ begin_idx(t)' = begin_idx(t) /\ begin_idx(t + 1)' = begin_idx(t + 1)
      /\ SliceOf(t)' = SliceOf(t)
  BY <1>1 DEF begin_idx, SliceOf
<1>3. /\ Untouched(t)' <=> Untouched(t)
      /\ Served(t)' <=> Served(t)
      /\ Serving(t)' <=> Serving(t)
  <2>1. Untouched(t)' <=> Untouched(t)
    BY <1>1, <1>2 DEF Untouched
  <2>2. Served(t)' <=> Served(t)
    BY <1>1, <1>2 DEF Served
  <2>3. Serving(t)' <=> Serving(t)
    BY <1>1, <1>2 DEF Serving
  <2> QED BY <2>1, <2>2, <2>3
<1>4. CASE t # w
  <2>1. pc'[t] = pc[t] /\ finished'[t] = finished[t]
    BY <1>4 DEF Finish, IInv, TypeOK
  <2>2. Waiting(t)' <=> Waiting(t)
    BY <1>1, <2>1 DEF Waiting, Ready
  <2> QED BY <1>1, <1>3, <2>1, <2>2 DEF SliceState
<1>5. CASE t = w
  <2>1. t \in 0 .. NumThreads /\ t + 1 \in 0 .. NumThreads
    BY PoolAssumption DEF Workers
  <2>2. begin_idx(t) \in Nat /\ begin_idx(t + 1) \in Nat
    BY <2>1 DEF Tiled
  <2>3. Serving(t)
    BY <1>1, <1>5 DEF SliceState
  <2>4. \A k \in SliceOf(t) : k < next[t]
    BY <1>1, <1>5, <2>2, <2>3 DEF Serving, SliceOf
  <2>5. Served(t)
    BY <2>3, <2>4 DEF Serving, Served
  <2>6. Ready(t)
    BY <1>1, <1>5 DEF IInv, LockedIsReady, Locked
  <2>7. ~(caller = "arm" /\ i <= t)
    BY <2>6, PoolAssumption DEF IInv, ReadyOnlyInRun, TypeOK, Workers
  <2>8. pc'[t] = "notify" /\ finished'[t]
    BY <1>5 DEF Finish, IInv, TypeOK
  <2>9. ~Waiting(t)'
    BY <1>1, <2>7, <2>8 DEF Waiting, Ready
  <2> QED BY <1>3, <2>5, <2>8, <2>9 DEF SliceState
<1> QED
  BY <1>4, <1>5

LEMMA SliceStep == IInv /\ SliceInv /\ [Next]_vars => SliceInv'
<1> SUFFICES ASSUME IInv, SliceInv, [Next]_vars PROVE SliceInv'
  OBVIOUS
<1>1. TypeOK' /\ Tiled
  BY TypeStep, TilesRun DEF IInv, TypeOK
<1>2. ASSUME NEW w \in Workers, Worker(w) PROVE SliceInv'
  BY <1>1, <1>2, SliceSlices, WorkSlices, FinishSlices, FrameSteps, FrameKeepsSlices DEF Worker
<1>3. ASSUME NEW n \in 0 .. MaxTasks, Run(n) PROVE SliceInv'
  BY <1>1, <1>3, RunSlices
<1>4. CASE Caller \/ Destroy \/ Spurious \/ UNCHANGED vars
  BY <1>4, FrameSteps, FrameKeepsSlices
<1> QED
  BY <1>2, <1>3, <1>4 DEF Next, Gone

\* Throughout a call of run, a worker that is still to serve its slice has not
\* touched it, one that serves it has done it up to its next task, and one that
\* has finished has done all of it, every task once.
THEOREM SliceInvariant == Spec => []SliceInv
<1>1. Init => SliceInv
  BY DEF Init, SliceInv, Busy
<1> QED
  BY <1>1, Invariant, SliceStep, PTL DEF Spec
-----------------------------------------------------------------------------
(* The pool implements PoolSpec.                                           *)

LEMMA InitPool == Init => Pool!Init
  BY DEF Init, Pool!Init, Busy, Indices, Pool!Indices

LEMMA RunPool ==
  ASSUME IInv, TypeOK', NEW n \in 0 .. MaxTasks, Run(n)
  PROVE  Pool!Run
BY DEF Run, Pool!Run, Busy, Indices, Pool!Indices, TypeOK

LEMMA WorkPool ==
  ASSUME IInv, SliceInv, Tiled, NEW w \in Workers, Work(w)
  PROVE  \E k \in Indices : Pool!Apply(k)
<1>1. Ready(w) /\ pc[w] = "work"
  BY DEF Work, IInv, LockedIsReady, Locked
<1>2. Busy /\ UNCHANGED <<caller, num_tasks>>
  BY <1>1 DEF IInv, ReadyOnlyInRun, Busy, Work, callerVars
<1>3. Serving(w) /\ next[w] < end[w]
  BY <1>1, <1>2 DEF SliceInv, SliceState, Work
<1>4. /\ w \in 0 .. NumThreads /\ w + 1 \in 0 .. NumThreads
      /\ num_tasks \in Nat
  BY PoolAssumption DEF Workers, IInv, TypeOK
<1>5. /\ begin_idx(w) \in Nat /\ begin_idx(w + 1) \in 0 .. num_tasks
  BY <1>4 DEF Tiled
<1>6. /\ next[w] \in SliceOf(w) /\ next[w] \in Indices /\ next[w] \in Nat
      /\ next[w] < num_tasks
  BY <1>3, <1>4, <1>5, PoolAssumption DEF Serving, SliceOf, Indices, IInv, TypeOK
<1>7. calls[next[w]] = 0
  BY <1>3, <1>6 DEF Serving
<1>8. calls' = [calls EXCEPT ![next[w]] = 1]
  BY <1>7 DEF Work
<1>9. Busy' <=> Busy
  BY <1>2 DEF Busy
<1>10. Pool!Apply(next[w])
  BY <1>2, <1>6, <1>7, <1>8, <1>9 DEF Pool!Apply, Busy
<1> QED
  BY <1>6, <1>10

\* When run returns the caller has seen every worker finish.
LEMMA ReturnPool ==
  ASSUME IInv, SliceInv, Tiled, Await, Busy, ~Busy'
  PROVE  Pool!Return
<1>1. /\ caller = "await" /\ i + 1 >= NumThreads /\ finished[i]
      /\ UNCHANGED <<num_tasks, calls>>
  <2>1. caller = "await" /\ UNCHANGED <<num_tasks, calls>>
    BY DEF Await
  <2>2. finished[i]
    BY <2>1 DEF Await, Busy
  <2>3. ~(i + 1 < NumThreads)
    BY <2>1, <2>2 DEF Await, AfterAwait, NextWorker, Busy
  <2>4. i + 1 \in Int /\ NumThreads \in Int
    BY PoolAssumption DEF IInv, TypeOK, Workers
  <2> QED BY <2>1, <2>2, <2>3, <2>4
<1>2. ASSUME NEW t \in Workers PROVE Served(t)
  <2>1. ~Ready(t)
    <3>1. CASE t = i BY <1>1, <3>1 DEF Ready
    <3>2. CASE t # i
      BY <1>1, <3>2, PoolAssumption DEF IInv, ReadyOnlyInRun, Workers, TypeOK
    <3> QED BY <3>1, <3>2
  <2>2. ~Waiting(t)
    BY <1>1, <2>1 DEF Waiting
  <2> QED BY <2>2 DEF SliceInv, SliceState
<1>3. ASSUME NEW k \in Indices, k < num_tasks PROVE calls[k] = 1
  <2>1. num_tasks \in Nat /\ k \in Nat
    BY PoolAssumption DEF IInv, TypeOK, Indices
  <2>2. PICK t \in Workers : k \in SliceOf(t)
    BY <1>3, <2>1, TaskInSlice
  <2> QED BY <1>2, <2>2 DEF Served
<1> QED
  BY <1>1, <1>3 DEF Pool!Return, Pool!Indices, Indices, Busy

\* No other step is visible to the owner of the pool.
LEMMA StutterPool ==
  ASSUME IInv, ~(Await /\ Busy /\ ~Busy'),
         \/ UNCHANGED vars
         \/ Caller \/ Destroy \/ Spurious
         \/ \E w \in Workers : Top(w) \/ Slice(w) \/ Finish(w) \/ Notify(w)
  PROVE  UNCHANGED Pool!vars
<1> USE PoolAssumption DEF Pool!vars, Busy, callerVars, NextWorker
<1>1. CASE UNCHANGED vars
  BY <1>1 DEF vars
<1>2. CASE Caller
  <2>1. CASE Spawn BY <2>1 DEF Spawn
  <2>2. CASE Arm BY <2>2 DEF Arm
  <2>3. CASE Signal BY <2>3 DEF Signal
  <2>4. CASE Await BY <2>4 DEF Await, AfterAwait
  <2>5. CASE Mark BY <2>5 DEF Mark
  <2>6. CASE Release BY <2>6 DEF Release
  <2>7. CASE Join BY <2>7 DEF Join
  <2> QED BY <1>2, <2>1, <2>2, <2>3, <2>4, <2>5, <2>6, <2>7 DEF Caller
<1>3. CASE Destroy
  BY <1>3 DEF Destroy
<1>4. CASE Spurious
  BY <1>4 DEF Spurious, SpuriousWorker, SpuriousCaller
<1>5. ASSUME NEW w \in Workers, Top(w) \/ Slice(w) \/ Finish(w) \/ Notify(w)
      PROVE  UNCHANGED Pool!vars
  BY <1>5 DEF Top, Slice, Finish, Notify, WakeCaller
<1> QED
  BY <1>1, <1>2, <1>3, <1>4, <1>5

LEMMA PoolStep == IInv /\ SliceInv /\ [Next]_vars => [Pool!Next]_(Pool!vars)
<1> SUFFICES ASSUME IInv, SliceInv, [Next]_vars PROVE [Pool!Next]_(Pool!vars)
  OBVIOUS
<1>1. TypeOK' /\ Tiled
  BY TypeStep, TilesRun DEF IInv, TypeOK
<1>2. ASSUME NEW w \in Workers, Work(w) PROVE Pool!Next
  BY <1>1, <1>2, WorkPool DEF Pool!Next, Pool!Indices, Indices
<1>3. ASSUME NEW n \in 0 .. MaxTasks, Run(n) PROVE Pool!Next
  BY <1>1, <1>3, RunPool DEF Pool!Next
<1>4. CASE Await /\ Busy /\ ~Busy'
  BY <1>1, <1>4, ReturnPool DEF Pool!Next
<1> QED
  BY <1>2, <1>3, <1>4, StutterPool DEF Next, Worker, Gone

\* The pool implements PoolSpec: a call of run applies the function to every
\* index below num_tasks exactly once before it returns, and to no other index
\* and at no other time.
THEOREM PoolIsImplemented == Spec => ImplementsPool
  BY InitPool, PoolStep, Invariant, SliceInvariant, PTL
     DEF Spec, ImplementsPool, Pool!Spec
=============================================================================
