---------------------------- MODULE ParallelPool ----------------------------
(***************************************************************************)
(* The worker pool of the inference engine (kernel/ai/parallel_inference.c):*)
(* parallel_for publishes one work descriptor, which lives in its own stack *)
(* frame, takes part in the work itself, waits for the items and for the    *)
(* workers, and clears the descriptor.                                      *)
(*                                                                          *)
(* Task 0 is the caller, tasks 1.. are the workers ever created.  One step  *)
(* is one access to a shared atomic, one call of the work function, or the  *)
(* code between two of them; the barriers in the code make the accesses     *)
(* sequentially consistent.                                                 *)
(***************************************************************************)
EXTENDS Integers, FiniteSets

CONSTANTS PARALLEL_MAX_THREADS,
          MAX_WORKERS,     \* bound: workers ever created
          ThreadCounts,    \* arguments of parallel_init, parallel_set_num_threads
          Totals, Chunks,  \* arguments of parallel_for
          Modes,           \* arguments of parallel_set_deterministic
          MAX_TOTAL,
          MAX_CALLS,       \* bound: calls of parallel_for
          MAX_CONFIGS,     \* bound: calls that configure a running pool
          CREATE_FAILS,    \* task_create may fail
          OWN_CPU,         \* the workers run on other CPUs; if FALSE they share the
                           \* caller's and, of lower priority, are never dispatched
          EARLY_START      \* a worker may start before its creator registers it

ASSUME PoolAssumption ==
  /\ PARALLEL_MAX_THREADS \in Nat \ {0} /\ MAX_WORKERS \in Nat
  /\ ThreadCounts \subseteq Int /\ Chunks \subseteq Int /\ Modes \subseteq BOOLEAN
  /\ MAX_TOTAL \in Nat /\ Totals \subseteq 0..MAX_TOTAL
  /\ MAX_CALLS \in Nat /\ MAX_CONFIGS \in Nat
  /\ CREATE_FAILS \in BOOLEAN /\ OWN_CPU \in BOOLEAN /\ EARLY_START \in BOOLEAN

Caller  == 0
Workers == 1..MAX_WORKERS
Tasks   == {Caller} \cup Workers
Threads == 0..(PARALLEL_MAX_THREADS - 1)
\* Every item a thread can be led to, those past the end of the work included.
Items   == 0..(PARALLEL_MAX_THREADS * (MAX_TOTAL + 1))

VARIABLES pool,         \* g_pool and g_pool_initialized
          workerTask,   \* g_worker_tasks
          deterministic,
          work,         \* the descriptor in the caller's frame
          task,         \* where each task is, and its locals
          spawn,        \* parallel_init: the loop's index
          hits,         \* how often each item of this call was executed
          created, calls, configs

pool_vars == <<pool, workerTask, deterministic, work, task, spawn, hits, created, calls, configs>>
config == <<workerTask, deterministic, spawn, created, calls, configs>>

MainPcs == {"idle", "spawn", "register", "publish", "signal", "waitItems",
            "waitWorkers", "clear", "forget"}
WorkerPcs == {"none", "start", "top", "idle", "awake", "fetch", "done", "drain", "dead"}
WorkPcs == {"begin", "take", "run", "add"}

PoolTypeOK ==
  /\ pool \in [initialized : BOOLEAN, shutdown : BOOLEAN, numThreads : 0..PARALLEL_MAX_THREADS,
               hasWork : BOOLEAN, available : BOOLEAN, done : 0..MAX_WORKERS]
  /\ workerTask \in [Threads -> 0..MAX_WORKERS] /\ deterministic \in BOOLEAN
  /\ work.total \in 0..MAX_TOTAL /\ work.next \in Nat /\ work.completed \in Nat
  /\ task \in [Tasks -> [pc : MainPcs \cup WorkerPcs \cup WorkPcs, tid : Threads,
                         lo : Items, hi : Items]]
  /\ hits \in [Items -> Nat]

PoolInit ==
  /\ pool = [initialized |-> FALSE, shutdown |-> FALSE, numThreads |-> 0,
             hasWork |-> FALSE, available |-> FALSE, done |-> 0]
  /\ workerTask = [i \in Threads |-> 0] /\ deterministic = FALSE
  /\ work = [total |-> 0, chunk |-> 1, next |-> 0, completed |-> 0]
  /\ task = [t \in Tasks |-> [pc |-> IF t = Caller THEN "idle" ELSE "none",
                              tid |-> 0, lo |-> 0, hi |-> 0]]
  /\ spawn = 1 /\ hits = [i \in Items |-> 0]
  /\ created = 0 /\ calls = 0 /\ configs = 0

\* Mutant: only the lower end is checked.
ClampLow(n) == IF n < 1 THEN 1 ELSE n

Clamp(n) == IF n < 1 THEN 1 ELSE IF n > PARALLEL_MAX_THREADS THEN PARALLEL_MAX_THREADS ELSE n
At(t, pc)   == task[t].pc = pc
Goes(t, pc) == task' = [task EXCEPT ![t].pc = pc]

-----------------------------------------------------------------------------
(* Creating and configuring the pool.                                      *)

parallel_init(n) ==
  /\ ~pool.initialized
  /\ pool' = [pool EXCEPT !.numThreads = Clamp(n), !.shutdown = FALSE, !.hasWork = FALSE,
                          !.available = FALSE, !.done = 0]
  /\ spawn' = 1 /\ Goes(Caller, "spawn")
  /\ UNCHANGED <<workerTask, deterministic, work, hits, created, calls>>

\* The loop creates the next worker; a failure ends it and shuts the pool down.
Spawn ==
  /\ At(Caller, "spawn") /\ spawn < pool.numThreads
  /\ \/ /\ created < MAX_WORKERS /\ created' = created + 1
        /\ task' = [task EXCEPT ![created'].pc = "start", ![Caller].pc = "register"]
        /\ UNCHANGED pool
     \/ /\ CREATE_FAILS
        /\ pool' = [pool EXCEPT !.shutdown = TRUE, !.numThreads = spawn, !.initialized = TRUE]
        /\ Goes(Caller, "idle") /\ UNCHANGED created
  /\ UNCHANGED <<workerTask, deterministic, work, spawn, hits, calls, configs>>

Register ==
  /\ At(Caller, "register")
  /\ workerTask' = [workerTask EXCEPT ![spawn] = created]
  /\ spawn' = spawn + 1 /\ Goes(Caller, "spawn")
  /\ UNCHANGED <<pool, deterministic, work, hits, created, calls, configs>>

Spawned ==
  /\ At(Caller, "spawn") /\ spawn = pool.numThreads
  /\ pool' = [pool EXCEPT !.initialized = TRUE] /\ Goes(Caller, "idle")
  /\ UNCHANGED <<config, work, hits>>

parallel_set_num_threads(n) ==
  \/ parallel_init(n)
  \/ /\ pool.initialized /\ pool' = [pool EXCEPT !.numThreads = Clamp(n)]
     /\ UNCHANGED <<workerTask, deterministic, work, task, spawn, hits, created, calls>>

parallel_shutdown ==
  /\ pool.initialized /\ pool' = [pool EXCEPT !.shutdown = TRUE, !.initialized = FALSE]
  /\ UNCHANGED <<workerTask, deterministic, work, task, spawn, hits, created, calls>>

parallel_set_deterministic(b) ==
  /\ deterministic' = b /\ UNCHANGED <<pool, workerTask, work, task, spawn, hits, created, calls>>

\* The first parallel_init is free; MAX_CONFIGS bounds the calls after it.
Configure ==
  /\ At(Caller, "idle")
  /\ configs' = IF created = 0 /\ ~pool.initialized THEN configs ELSE configs + 1
  /\ configs' <= MAX_CONFIGS
  /\ \/ \E n \in ThreadCounts : parallel_init(n) \/ parallel_set_num_threads(n)
     \/ parallel_shutdown
     \/ \E b \in Modes \ {deterministic} : parallel_set_deterministic(b)

-----------------------------------------------------------------------------
(* The work, taken by the caller and by the workers alike.                 *)

\* The range of a thread in deterministic mode.
FixedRange(t) ==
  LET per  == work.total \div pool.numThreads
      rest == work.total % pool.numThreads
      lo   == t * per + (IF t < rest THEN t ELSE rest)
  IN <<lo, lo + per + (IF t < rest THEN 1 ELSE 0)>>

\* A chunk size of -1 marks deterministic mode.
Begin(t) ==
  /\ At(t, "begin")
  /\ task' = IF work.chunk = -1
             THEN LET r == FixedRange(task[t].tid)
                  IN [task EXCEPT ![t].lo = r[1], ![t].hi = r[2], ![t].pc = "run"]
             ELSE [task EXCEPT ![t].pc = "take"]
  /\ UNCHANGED <<pool, work, hits, config>>

AfterWork(t) == IF t = Caller THEN "waitItems" ELSE "done"

\* Mutant: the last chunk runs past the end.
TakeUncut(t) ==
  /\ At(t, "take")
  /\ work' = [work EXCEPT !.next = @ + work.chunk]
  /\ task' = IF work.next >= work.total THEN [task EXCEPT ![t].pc = AfterWork(t)]
             ELSE [task EXCEPT ![t].pc = "run", ![t].lo = work.next, ![t].hi = work'.next]
  /\ UNCHANGED <<pool, hits, config>>

\* atomic_add_return on next_item; the last chunk is cut at the end.
Take(t) ==
  /\ At(t, "take")
  /\ work' = [work EXCEPT !.next = @ + work.chunk]
  /\ task' = IF work.next >= work.total THEN [task EXCEPT ![t].pc = AfterWork(t)]
             ELSE [task EXCEPT ![t].pc = "run", ![t].lo = work.next,
                               ![t].hi = IF work'.next > work.total THEN work.total ELSE work'.next]
  /\ UNCHANGED <<pool, hits, config>>

Mine(t) == task[t].lo..(task[t].hi - 1)

Run(t) ==
  /\ At(t, "run")
  /\ hits' = [i \in Items |-> IF i \in Mine(t) THEN hits[i] + 1 ELSE hits[i]]
  /\ Goes(t, "add")
  /\ UNCHANGED <<pool, work, config>>

Add(t) ==
  /\ At(t, "add")
  /\ work' = [work EXCEPT !.completed = @ + Cardinality(Mine(t))]
  /\ task' = [task EXCEPT ![t].pc = IF work.chunk = -1 THEN AfterWork(t) ELSE "take",
                          ![t].lo = 0, ![t].hi = 0]
  /\ UNCHANGED <<pool, hits, config>>

Working(t) == Begin(t) \/ Take(t) \/ Run(t) \/ Add(t)

-----------------------------------------------------------------------------
(* The caller: parallel_for.                                               *)

\* Without a pool, or with one thread, the caller does everything at once.
Sequential(total) ==
  /\ hits' = [i \in Items |-> IF i < total THEN 1 ELSE 0]
  /\ UNCHANGED <<pool, work, task>>

ChunkSize(total, chunk) ==
  IF deterministic THEN -1
  ELSE IF chunk > 0 THEN chunk ELSE total \div pool.numThreads + 1

\* The descriptor is made and the counter of workers reset.
Prepare(total, chunk) ==
  /\ work' = [total |-> total, chunk |-> ChunkSize(total, chunk), next |-> 0, completed |-> 0]
  /\ hits' = [i \in Items |-> 0]
  /\ pool' = [pool EXCEPT !.done = 0]
  /\ Goes(Caller, "publish")

parallel_for(total, chunk) ==
  /\ At(Caller, "idle") /\ calls < MAX_CALLS /\ calls' = calls + 1
  /\ IF ~pool.initialized \/ pool.numThreads <= 1 THEN Sequential(total) ELSE Prepare(total, chunk)
  /\ UNCHANGED <<workerTask, deterministic, spawn, created, configs>>

Publish ==
  /\ At(Caller, "publish") /\ pool' = [pool EXCEPT !.hasWork = TRUE] /\ Goes(Caller, "signal")
  /\ UNCHANGED <<work, hits, config>>

Signal ==
  /\ At(Caller, "signal") /\ pool' = [pool EXCEPT !.available = TRUE] /\ Goes(Caller, "begin")
  /\ UNCHANGED <<work, hits, config>>

WaitItems ==
  /\ At(Caller, "waitItems") /\ work.completed >= work.total /\ Goes(Caller, "waitWorkers")
  /\ UNCHANGED <<pool, work, hits, config>>

\* Mutant: the caller waits for one worker too few.
WorkersDoneButOne == pool.done >= pool.numThreads - 2

WorkersDone == pool.done >= pool.numThreads - 1

WaitWorkers ==
  /\ At(Caller, "waitWorkers") /\ WorkersDone /\ Goes(Caller, "clear")
  /\ UNCHANGED <<pool, work, hits, config>>

Clear ==
  /\ At(Caller, "clear") /\ pool' = [pool EXCEPT !.available = FALSE] /\ Goes(Caller, "forget")
  /\ UNCHANGED <<work, hits, config>>

\* The last step; parallel_for returns and its frame is gone.
Forget ==
  /\ At(Caller, "forget") /\ pool' = [pool EXCEPT !.hasWork = FALSE] /\ Goes(Caller, "idle")
  /\ UNCHANGED <<work, hits, config>>

CallerStep == Spawn \/ Register \/ Spawned \/ Working(Caller) \/ Publish \/ Signal \/ WaitItems
                \/ WaitWorkers \/ Clear \/ Forget

-----------------------------------------------------------------------------
(* A worker: worker_thread_entry.                                          *)

\* It looks for itself in g_worker_tasks and gives up if it is not there yet.
Start(w) ==
  /\ At(w, "start") /\ (EARLY_START \/ ~At(Caller, "register"))
  /\ LET mine == {i \in Threads \ {0} : workerTask[i] = w} IN
       \/ mine = {} /\ Goes(w, "dead")
       \/ \E i \in mine : task' = [task EXCEPT ![w].tid = i, ![w].pc = "top"]
  /\ UNCHANGED <<pool, work, hits, config>>

Top(w) ==
  /\ At(w, "top") /\ Goes(w, IF pool.shutdown THEN "dead" ELSE "idle")
  /\ UNCHANGED <<pool, work, hits, config>>

\* The waiting loop ends.
Wake(w) ==
  /\ At(w, "idle") /\ (pool.available \/ pool.shutdown) /\ Goes(w, "awake")
  /\ UNCHANGED <<pool, work, hits, config>>

Check(w) ==
  /\ At(w, "awake")
  /\ Goes(w, IF pool.shutdown THEN "dead" ELSE IF pool.available THEN "fetch" ELSE "top")
  /\ UNCHANGED <<pool, work, hits, config>>

\* From here until it is done the worker uses the caller's descriptor.
FetchWork(w) ==
  /\ At(w, "fetch") /\ Goes(w, IF pool.hasWork THEN "begin" ELSE "top")
  /\ UNCHANGED <<pool, work, hits, config>>

\* It counts itself done and lets go of the descriptor.
Finish(w) ==
  /\ At(w, "done") /\ pool' = [pool EXCEPT !.done = @ + 1] /\ Goes(w, "drain")
  /\ UNCHANGED <<work, hits, config>>

\* It waits for the descriptor to be cleared before it looks for new work.
Drain(w) ==
  /\ At(w, "drain") /\ (~pool.available \/ pool.shutdown) /\ Goes(w, "top")
  /\ UNCHANGED <<pool, work, hits, config>>

WorkerStep(w) == OWN_CPU /\ (Start(w) \/ Top(w) \/ Wake(w) \/ Check(w) \/ FetchWork(w)
                               \/ Working(w) \/ Finish(w) \/ Drain(w))

-----------------------------------------------------------------------------
PoolNext ==
  \/ Configure
  \/ \E total \in Totals, chunk \in Chunks : parallel_for(total, chunk)
  \/ CallerStep
  \/ \E w \in Workers : WorkerStep(w)

PoolSpec == PoolInit /\ [][PoolNext]_pool_vars

\* A task that runs, runs on.
PoolFairSpec == PoolSpec /\ WF_pool_vars(CallerStep) /\ \A w \in Workers : WF_pool_vars(WorkerStep(w))

-----------------------------------------------------------------------------
(* Properties.                                                             *)

InCall == task[Caller].pc \notin {"idle", "spawn", "register"}

\* A worker uses the descriptor only while its frame exists: parallel_for
\* waits "for all worker threads to finish" (parallel_inference.c:451).
NoStaleWork == \A w \in Workers : task[w].pc \in WorkPcs => InCall

\* When a parallel_for with a pool returns (parallel_inference.c:446) every item has been executed once, and no other.
OnceEach ==
  [][InCall /\ task'[Caller].pc = "idle" =>
       \A i \in Items : hits'[i] = IF i < work.total THEN 1 ELSE 0]_pool_vars

\* Every parallel_for returns (parallel_inference.c:447 and 453 wait for others).
CallReturns == InCall ~> ~InCall
=============================================================================
