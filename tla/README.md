# POTTS in TLA+

POTTS is a header-only C++20 library: typed tasks connected into a dependency
graph by edges, run by a thread pool.  This directory holds TLA+ models of its
run-time behaviour, TLC configurations that check them on small instances, and
proofs, for every value of the constants, of each invariant, action property
and refinement that a passing run checks.  What is left to TLC alone is
liveness.

## 1. Inventory

| part | state | operations |
|---|---|---|
| `ThreadPool` | job queue, atomic counter of queued and executing jobs, shutdown flag, three mutexes, two condition variables, worker threads | `add_task`, `clear_queued_tasks`, `run`, `wait`, destructor; the worker loop and `execute_task`; getters |
| `ThreadPoolExecutor` | the pool, created by the first `run`; the vector of tasks | `add_task`, `run`, `cancel`, `wait`, move, destruction |
| `Task`, `ITask` | atomic state, result, callable, a mutex and a condition variable; names and times | `run`, `wait`, `get_result`, `set_callable`, getters |
| `IEdge`, `Edge` | data, atomic retrievable flag, a mutex and a condition variable | `set_data`, `wait_until_retrievable`, `get_data` |
| `Node`, `INode` | inward edge slots (some null), outward edge, reachability | `add_inward_edge`, `set_reachability` (alone, or with a shared marker), `operator<` |
| `Helper` | none | `compute_reachability` over a list of tasks |
| `Metafunctions` | none, compile time only | type lists: duplicates, void markers, filtering of void inputs, prototypes of callables |

How they interact.  `ThreadPoolExecutor::run` computes the reachability of all
tasks (each node recurses into the owners of its inward edges), sorts the tasks
by it, submits one job per task to the pool and starts the workers.  A worker
pops a job, `Task::run` blocks *that worker* until every inward edge is
retrievable, calls the callable with the data of the edges, stores the result,
makes its out edge retrievable (which wakes the tasks that depend on it) and
wakes a thread in `Task::wait`.  The worker then discounts the job; whoever
takes the counter to zero calls `on_complete_` and wakes the threads in
`ThreadPool::wait`.  Jobs and the callback may call back into the pool.

What is hard, and what correctness means:

* Pool: queue and counter are changed in separate steps under different
  protection; `notify_one` runs with no lock held; the shutdown flag is read
  without a lock; the callback runs with a mutex held.  No job may be lost, run
  twice or left in the queue with all workers asleep; `wait` must return, and
  only when everything is done and the callback is over; the destructor must
  return.
* Edges and tasks: data and flag are separate, the state of a task is set
  outside its mutex, there are several sleepers per edge.  Every callable must
  get the finished results of the tasks it depends on, every sleeper must wake.
* Executor: tasks block workers.  If blocked tasks could fill all the workers
  while what they wait for is queued or was cancelled, `wait` would hang: the
  order of submission is what prevents it, for tasks that were added in time.
* Several executors: a move hands over a pool at work and destroys another one;
  pools may wait for each other's tasks.
* Types: which slot an edge goes to, which inputs become arguments and of which
  type is computed by the compiler from the signature.  Two computations (of
  the indices fetched, of the callable's parameters) must agree.
* Graph: recursion over a graph that may have cycles and values left by an
  earlier computation, then an unstable sort by depth only.  The order must be
  topological.

## 2. Modules and plan

| module | models | composes |
|---|---|---|
| `JobPool` | abstract pool: FIFO queue, bounded concurrency, clear, wait, shutdown | |
| `ThreadPool` | `ThreadPool.h`, lock by lock | implements `JobPool` |
| `Reachability` | `Node.h` (graph half), `Helper.h`, the sort | |
| `Dataflow` | abstract task graph: a task starts after what it depends on, and completes once | |
| `TaskGraph` | the tasks, their edges, depth and sort: what `Task`, `Executor` and `Executors` share | |
| `Task` | `Task.h`, `ITask.h`, `Edge.h`, `IEdge.h`, `Node.h` (data half) | `TaskGraph`; implements `Dataflow` |
| `Executor` | `ThreadPoolExecutor.h` and blocked tasks, one executor | `TaskGraph`; instantiates `JobPool` as its pool, implements `Dataflow` |
| `Executors` | `ThreadPoolExecutor.h`, several executors, moves | `TaskGraph`; each of its pools is shown to be used as a `JobPool` |
| `Signatures` | `Metafunctions.h`, the typed slots of `Node.h`, the callable and arguments of `Task.h` | |
| `MC*` | instances for TLC | |

| proofs | of | rest on |
|---|---|---|
| `ThreadPoolProofs` | the invariant of `ThreadPool` and what follows from it | `ThreadPool` |
| `JobPoolProofs` | that `ThreadPool` implements `JobPool`; the callback of a batch | `ThreadPoolProofs` |
| `ReachabilityProofs` | recursion, depths and sort | `Reachability` |
| `TaskGraphProofs` | `Depth` exists and increases along edges; sorted vectors | `TaskGraph` |
| `TaskProofs` | the invariant of `Task`, `Value` exists, `Dataflow` is implemented | `Task`, `TaskGraphProofs` |
| `ExecutorProofs` | the invariant of `Executor`, `Dataflow` is implemented | `Executor`, `TaskGraphProofs` |
| `ExecutorsProofs` | the invariant of `Executors`, its pools are used as `JobPool`s | `Executors`, `TaskGraphProofs` |
| `SignaturesProofs` | the folds agree, arguments are typed | `Signatures` |

So the pool is shown to implement `JobPool`, and the executor is checked over
`JobPool` instead of over the 15 program points of each real worker.  Likewise
`Task` shows that edges with mutexes and condition variables implement
`Dataflow`, and `Executor` treats the wait for an edge as one guard.

Models and proofs were made in the order pool, graph, tasks, executor,
signatures, several executors.  Nothing of that plan is left.

How the proofs go.  Each component's module defines an inductive invariant, a
conjunction of named parts (`PoolInv`, `ReachabilityInv`, `TaskInv`,
`ExecutorInv`, `ExecutorsInv`; `SigInv` is in `SignaturesProofs`).  A run of TLC
checks the first five, types included.  The proof module shows that `Init`
implies it and that every action preserves it, one part at a time, and derives
the properties.  Recursive definitions over the graph (`Depth`, `Value`) are
recursive functions; that they exist is proved once by induction on a rank (in
the form of the least counterexample, since the induction theorems of the
library cannot be used).  Only model-checked, because liveness under fairness
is beyond the prover: `JobEventuallyRuns`, `WaitReturns`, `DestructorReturns`,
`TasksComplete`, `ComputationEnds`, `CallsReturn`.

## 3. ThreadPool

One action is what a thread does between two points where another thread can
see or disturb it.  A worker `w` has a program counter `wpc[w]`; any thread
inside a method of the pool has one in `call`.

| code | actions |
|---|---|
| `add_task` | `AddBegin` `AddLock` (worker_mtx_) `AddEnqueue` (tasks_mtx_, emplace) `AddCount` (fetch_add, unlock) `AddNotify` |
| `clear_queued_tasks` | `ClearBegin` `ClearCount` (lock, fetch_sub) `ClearEmpty` |
| `wait` | `WaitBegin` `WaitReturn` or `WaitEval` (predicate under wait_mtx_) `WaitBlock` |
| `run`, `spawn_thread` | `RunBegin` `Spawn` `RunEnd` |
| destructor | `DestroyBegin` `DestroyFlag` `DestroyNotify` `DestroyJoin` |
| worker loop | `WorkerLeave` `WorkerLock` `WorkerEval` `WorkerBlock` `SpuriousWakeup` |
| `execute_task` | `WorkerPop` `WorkerFinish` `WorkerDiscount` `WorkerLoad` `WorkerCallback` `WorkerNotify` |

A job is a model value; it and the callback may call `add_task`,
`clear_queued_tasks` themselves.  `submitted`, `done`,
`cleared`, `late` and `callbacks` are history variables and guard nothing, but
for the bound that each job is submitted once.

| run | shows |
|---|---|
| `pool_safety` | 3 workers, 2 clients, 3 jobs, every method called by clients, jobs and callback, spurious wakeups, destruction at any time: all the safety properties and that each step is one of `JobPool` |
| `pool_batch` | jobs submitted before `run` have the callback called once |
| `pool_liveness` | 2 workers, 2 clients: submitted jobs run, `wait` and the destructor return |
| `pool_cancel` | one client and jobs that clear: `wait` still returns, since a job that clears is itself counted and notifies when it ends |
| `pool_clear_while_waiting` | violation, see section 9 |

Bounds.  Three workers and three jobs give a worker in each of: asleep, on its
way to sleep, in a job; two clients let any two methods overlap.  Two jobs and
two workers suffice for liveness, where a lost wakeup needs one job and one
sleeper more than there are wakers.  Workers and jobs are interchangeable
(symmetry, in safety runs only).

Fairness.  Weak fairness of each worker, of each thread inside a method and of
`Main` inside `run` and the destructor: a thread the system schedules.  Nobody
is made to call a method.  `pool_cancel` and the violation assume strong
fairness: a client may call `clear_queued_tasks` for ever, and `std::mutex`
does not promise that others get the mutex in between.  For the violation
that only makes the result stronger.

### Proofs

From `PoolAssumption` alone, so for any finite sets of workers and clients, any
jobs, any thread count and either callback setting:

* `PoolInvariant`: `Spec => []PoolInv`; `TypeCorrect`, `CountIsRight` and
  `LateStartsBounded` are parts of it;
* `NoJobIsLost`: a submitted job is in exactly one place, once;
* `NoWakeupIsLost`: while a worker sleeps, every queued job has a worker on its
  way to the queue or a notification still to come;
* `WaitIsRight`: when `wait` returns every job accepted by then is done or was
  cleared;
* `WaitIsAfterCallback`: `wait` never returns between the `fetch_sub` that
  empties the pool and the end of the callback;
* `PoolImplementsJobPool`: every step is one of `JobPool` or a stutter;
* `CallbackOncePerBatch`: `on_complete_` is called once for a batch.  That is
  proved from `Batch` (in `JobPoolProofs`: there is a callback, everything is
  submitted before `run`, and nothing that executes calls the pool), which is
  how `pool_batch` is configured; otherwise the code promises no such thing.

The argument.  The counter is to equal the queued jobs plus those in hand, but
both are changed in two steps, so that is false between the steps.  `Pending`
is the queue as whoever takes `tasks_mtx_` next will find it, and
`CountAccountsForWork` counts it instead.  That is inductive only together
with `OwnershipInv`: who owns a mutex follows from where the threads are, so
that at most one thread is between the two steps.  With the counter at 0, nothing
is pending or in hand, and by `NoJobLostOrDuplicated` all that `wait` was to wait
for is done or cleared.  `NoStarvedJob` needs one fact more, for the step in which
the first worker falls asleep: between its look at the queue and its sleep
nothing is queued (`BlockedOnEmptyInv`), since `add_task` holds `worker_mtx_` while it
enqueues; from then on each job brings a pending notification with it, and each
notification that is used up turns a sleeper into a worker on its way.
`LateStartInv` is the reason for `AtMostOneLateStart`: a worker past its wait with
the flag down has taken no late job.  `DestructorInv` is what the refinement needs:
the flag is up exactly while the destructor runs, and no worker is left at its end.

`JobEventuallyRuns`, `WaitReturns` and `DestructorReturns` are only model-checked.

## 4. Reachability

The recursion of `set_reachability` is a stack of frames (node, next slot,
largest value seen); `ComputeNext`, `Visit`, `Leave`, `ComputeEnd` are its
steps and those of `compute_reachability`; `SingleBegin` is the overload
without a marker.  `Connect` is `add_inward_edge` between computations and may
build any graph, cycles included.  `Sort` yields any permutation that
`operator<` allows, as `std::sort` may.  Values are naturals: depths are
bounded by the number of nodes, so the widths of `int` and `size_t` do not
matter.

`reach_compute` checks one root, two nodes with one slot and one with two
(every chain, a diamond, self-loops and longer cycles), two computations, so
that the second starts with the values of the first on a changed graph, lists
that leave nodes out or hold a null.  `IsDepth` and `Dependencies` are stated
over chains of edges, independently of the algorithm.  Fairness: the one thread
that computes goes on.

`Node.h:206` says that nodes
without dependencies have reachability 0; a node with slots that are all null
has 1.  The order is topological all the same.

### Proofs

From `GraphAssumption` alone (finitely many nodes), for any graph, any lists and
any number of computations, `ReachabilityProofs` proves `ReachabilityInvariant`
and from it

* on graphs with cycles too: `RecursionBounded` (the stack is never deeper than
  there are nodes, plus one) and `NodesAreEvaluatedOnce`;
* on graphs without: `ReachabilityIsTheDepth` and `SortIsTopological`.

The first two rest on `MarkerInv`: each call but the outermost is of a marked
node of its own, so the calls are no more than the nodes.  For the others, nodes
that are marked and not on the stack (`Settled`) are `Consistent`: all they need is
among them, and each has one more than the largest value of these.  A marked node
that is met again while on the stack would read a value too early; `CallsInv` says
that the stack is a chain of edges, so it would close a cycle.  That
consistent values are the lengths of longest chains needs induction over the
graph, and so does that they grow along dependencies: it is one lemma
(`SourceExists`), that without cycles every set of nodes has one that needs no
other of them, by taking a node with a minimal set of dependencies.
`reach_compute` checks `ReachabilityInv`.  `ComputationEnds` is only model-checked.

## 5. Task

Each task is run by a thread of its own, and again after its callable has
thrown or, for the tasks in `RerunFinished`, after it has finished.  Waiter
threads call `wait` and then `get_result`; reader threads read an inward edge
once `is_retrievable` has said yes.  The variables
`task` and `edge` are the members of the objects, `run` and `outside` are the
threads.

| code | actions |
|---|---|
| `set_callable` | `set_callable` |
| `run()` up to the call | `RunBegin` `RunAgain`; per slot `EdgeSkip`, or `EdgeLook` and `EdgeBlock` (`wait_until_retrievable`); `SetRunning`; `Fetch` per argument |
| the call | `Invoke` `StoreResult` (`result_` is assigned without a lock: `Torn` in between) or `InvokeVoid`; `Throw`; `CallEmpty` (no callable set: `std::function` throws) |
| `run()` after it | `SetEndTime`; `SetData` `StoreData` (`data_` is assigned without a lock: `Torn` in between) or `SetDataVoid`; `Mark` `NotifyAll` (`set_as_retrievable`); `SetComplete` `NotifyOne` |
| `wait` | `WaitBegin` `WaitLook` `WaitBlock` `WaitAnswer` (the state is read a second time) |
| reads | `get_result` `is_retrievable` `get_inward_edge_value` |

A result is the pair of the task and its arguments, so it tells which values
went into it; `Value` is the same computed from the graph alone.  Void tasks
have no result and their slots give no argument.  Times are the number of the
run that set them, since all that matters of them is that both are set, by the
same run.

| run | shows |
|---|---|
| `task_diamond` | a diamond with a null slot and a void task, a waiter, a polling reader, a spurious wakeup; the root has no callable at first and throws, the last task throws or is run again after it has finished: callables get finished results, only the results and times of runs that succeeded are ever seen (but for a `get_result` during a rerun), no wakeup is lost, everything ends |
| `task_two_waiters` | violation, see section 9 |

Bounds.  Two sleepers per edge, a task with slots of all kinds and a two-step
dependency are in the diamond.  Each task may run twice (`MaxReruns` = 1): the
root so that its dependents and theirs wait while it fails, the last one so that
what a first run fetched could reach the second, and so that a thread waits for
it while it runs again.  One spurious wakeup hits every place where a thread can
sleep.

Fairness.  Each task's thread and each waiting thread is scheduled (weak
fairness); spurious wakeups being bounded, the mutexes are free again
eventually.  Nobody is made to throw, to call `set_callable` or to run a task
again: `TasksComplete` and `WaitReturns` except what is `Stalled` behind a
callable that has thrown.  A system in which something is stalled stops, so
deadlock is not checked; these two properties say what must not stop.

An exception that leaves `run()` on a thread of a `ThreadPool` ends the program;
retries are for programs that call `run()` themselves.  Memory is sequentially
consistent: that `state_` is stored relaxed is not modelled.  `Dataflow` lets a
task fail and start again, and `Task` implements it.

### Proofs

For any finite graph without cycles and any waiters, readers, failures, reruns
and spurious wakeups, `TaskProofs` proves

* `TaskInvariant`: `Spec => []TaskInv`, which `task_diamond` checks too;
* `NoWakeupOfATaskIsLost`: whoever sleeps on an edge that is retrievable, or on a
  task that is finished, has a notification under way.  `task_two_waiters` shows
  that this is false with two threads that wait for one task; `NoLostWakeup` says
  it for edges with any number of sleepers and for tasks that have one waiter
  (`OnlyWaiter`);
* `DurationIsOfOneRun`;
* `CallablesGetResults` and `ReadersGetResults`: under `NobodyFetchesTorn` (no task is
  run again after it has finished while another fetches its data), callables,
  and whoever reads an edge, see finished results.  The hypothesis holds in
  `task_diamond`.  Without it the code is wrong: `data_` is assigned while others
  read it, see section 9.  `result_` is unprotected in the same way, and the
  hypothesis does not help: a waiter that calls `get_result` after `wait` sees the
  final value, or, if the program runs that finished task again (`Overwritten`),
  possibly `Torn`.  `task_diamond` reaches that state;
* `TaskImplementsDataflow`;
* `ValueIsWellDefined`: the result of a task computed from the graph alone exists,
  so that the two theorems on results are about something.

The argument.  `EdgesInv` and `SleepersInv` say where the threads are that hold or
wait for the mutex of an edge, and that a thread that sleeps on a retrievable
edge is in the way of a `notify_all` to come, since the flag is set under that
mutex.  `WaitsInv` is the same for `Task::wait`: `state_` is set without `mtx_`, but
`run()` locks it before it notifies, so a thread that saw the old state sleeps by
then.  `ProgressInv` ties program counter, flag, state and times of a task.
`ResultsInv` says that data on its way (fetched, returned, stored, read) are
`Value`s.  Without it `ArgsAreResults` is not inductive: a callable gets what was
fetched many steps before.  `TasksComplete` and `WaitReturns` are only
model-checked.

## 6. Executor

`add_task`, `RunBegin` (create the pool, compute, sort), `Submit`, `RunEnd`,
`cancel`, `WaitBegin`, `WaitReturn`, `DestroyBegin`, `DestroyEnd` are the
executor, on its one thread `Main` (the class has no locks; it is not used by
two threads at once).  `JobStart`, `Enter`, `Publish`, `JobEnd` are a worker.
Pool steps are those of `JobPool`.  A job is a task and the number of the call
of `run()`, since `tasks_to_run_` is never emptied.

`exec_diamond`: four tasks added in any order or in part, up to two calls of
`run()` (overlapping too), one worker and then two, cancel by `Main` and by
callables at any moment, destruction at any time.  One worker is the hardest case for tasks
that block workers; the second `run()` has two.  Deadlock is not checked: a
program stops for good after destruction, or when it waits for a task that will
never run.

`Missing(j)` is what `Task::run` of a job still blocks on, whichever call of
`run()` submits it.  The order of submission only protects tasks that were
submitted together, so the properties ask that what is missing was `InTime`:
submitted by the same `run()` as the job that needs it, one that no `cancel()`
came in the middle of (`interrupted`, a history variable).  That is what the note of
`add_task` asks for ("Tasks should be added before calling run()",
`ThreadPoolExecutor.h:74`), and neither half can be left out, for the code blocks
for ever in these cases, which the model has and the run reaches:

* late dependency: with one worker per run, add b and c, which both need a, and run: b
  blocks the worker, c is queued.  Add a and run: the second worker takes c and
  blocks too, and a's job lies behind them.  Or add b, run, add a, run, cancel:
  a's job is dropped and b is left blocked;
* interrupted run: in a second `run()` workers are alive during the submission.  A
  callable that cancels then drops a task whose dependents are submitted
  afterwards, and they block if the first run has not published it.

Under `InTime`, `BlockedOnStarted` says that a worker blocks only on a task which
another worker is running, `NoOrphan` that a task is not dropped without those
that still wait for it.  `CallsReturn` (`wait` and the destructor return) is for
states in which all that any job waits for was in time (`Supplied`).

Fairness.  `Main` finishes the call it is in: for `wait` and the destructor
that is `WaitReturns` of `pool_cancel` and `DestructorReturns` of
`pool_liveness`.  An open pool starts a queued job if a worker is idle: that is
`JobEventuallyRuns`.  A pool being destroyed need not.  Workers go on with
their jobs.

`exec_second_run` is a violation, see section 9.

Assumed: no task is added twice, and graphs have no cycles (`NoCycle`: each task
has a rank above those it depends on).  A task on a cycle waits for itself, so
that its worker, and `wait`, block for ever; `Task`, `Executor` and `Executors` are
about programs that have none (`Reachability` allows them).

### Proofs

For any finite graph without cycles, any number of workers, calls of `run()` and
callables that cancel, `ExecutorProofs` proves

* `ExecutorInvariant`: `Spec => []ExecutorInv`, which `exec_diamond` checks too;
* `WorkersBlockOnStarted`: a worker that waits for a task submitted with its own, in
  a `run()` that `cancel()` did not interrupt, waits for one that a worker is
  running, whatever the number of workers;
* `CancelLeavesNoOrphan`: of the tasks of such a `run()`, `cancel()` never drops one
  and leaves another that waits for it;
* `FirstRunIsInOrder`: until `run()` is called again, tasks execute after all they
  depend on;
* `ExecutorImplementsDataflow`.

The argument.  `OrderInv`: while `run()` submits, the vector is sorted by depth
and what it has submitted is what lies before `next`; so jobs are queued in the
order of round and depth, and no queued job is before a started one.  Depth
increases along edges (`DepthIncreases` of `TaskGraphProofs`), so what a started
task needs of its own round cannot be queued.  `CancelInv`: what was cleared was
queued behind all that has started, and with all that follows it, unless the
round is `interrupted`, when the rest of the vector is still to come.  So what a
job misses of its own round is neither queued before it nor cleared, and not done
(`EdgesInv`: it would be retrievable): a worker has it.  `CallsReturn` is only
model-checked.

## 7. Several executors

`Executors` gives every executor its members (`life`, `pool_`, `tasks_to_run_`)
and every pool an identity, because a move passes the pointer on.  `MoveBegin`
and `MoveEnd` are the move assignment and, on an executor that does not exist
yet, the move constructor: the pointer changes hands, the old pool of the target
is shut down and joined, then the vector follows.  In between callables run and
may cancel; one that cancels the executor being moved to may find either pool
(`Reached`), since `pool_` is read without synchronisation.  `owner` is a history
variable: the executor that answers for a job, by submission or by a move.

`exec_moves`: a chain of three tasks spread over two executors with one worker
per call of `run()`, two pools, two moves, `run`, `cancel`, `wait` and
destruction in any order.  Two moves on two executors give moves onto executors
at work, out of idle ones, there and back, and move construction.
`EverythingHasOneOwner`: a working pool belongs to the one executor that answers
for all its jobs, and no two executors would submit the same task.
`WaitCoversMoves`: a `wait` that returns has covered what was moved in.
`PoolsAreJobPools`: every step is for every pool a step that `JobPool` (hence
`ThreadPool`) has.

Callables may cancel any executor at any time, and `clear_queued_tasks` notifies
nobody.  So `wait` is not one guard here: it looks (`WaitReturn`, `WaitBlock`), and
sleeps until the worker that discounts the last job wakes it (`JobEnd`), or
`WaitSpurious`.  If a callable of pool x cancels y while `Main` sleeps in the wait
for y, and no worker of y has a job, nothing wakes it; the history `main.unheard`
marks that wait.  `SleeperIsWoken`: it is the only one that sleeps on when all is
over.  It takes a second pool: a callable of y itself is counted in y, and notifies
when it ends.

`CallsReturn`: but for an `unheard` wait, neither `wait` nor a move nor a destructor
blocks for ever.  The reason it holds is that each pool starts its tasks in the
order of their depth in the whole graph: in a circle of pools that wait for each
other depths would have to fall all the way round.  It is conditional
(`Supplied`): everything an unfinished job needs is published or itself
unfinished, and each `run()` has a pool of its own.  Neither is guaranteed by the
code: `cancel()` on one executor, or its destruction, may drop a task that a
running task of another one waits for, and a dependency that is added after a
first `run()` is queued behind the tasks that block all workers on it.

Deadlock is not checked: programs stop, and wait for what they cancelled.
Fairness is that of `Executor`, per pool; a `wait` that
sleeps is not given any, and nobody makes a wakeup spurious.  Not modelled: moving an executor into
itself.

### Proofs

For any executors, finite graph without cycles, number of workers per run, runs
and moves, `ExecutorsProofs` proves `ExecutorsInvariant` (`ExecutorsInv`, which
`exec_moves` checks too), `PoolsHaveOneOwner`, `WaitIsRightAfterMoves`,
`OnlyCancelIsUnheard` (`SleeperIsWoken`) and `PoolsUsedAsJobPools`.  All that is asked of the constants besides types is that
`None` is neither an executor nor the number of a pool.

The argument.  `PointersInv`: pools are made one by one and never made again, an
open pool is the pool of one executor, and workers are those of the runs so
far; so the next pool number is free.  `CallInv` covers the time within a move,
when the old pool of the target is nobody's and closing.  `VectorsInv`: no task
is in two vectors.  `JobsInv`: the jobs of a `run()` at work are those of its vector up to
`next`, all in one pool, so the next one is new to every pool; the executor of a
pool answers for all its unfinished jobs; and whatever an executor answers for is
over or in its pool.  That last part is what makes `WaitCoversMoves` true of
jobs that changed hands in the middle of their execution.  `SleeperIsWoken` is
inductive with these: while a wait sleeps `Main` cannot move or submit, so the
pool it waits for stays that of its executor, and it becomes idle by the end of a
job, which notifies, or by a cancel, which sets `unheard`.  `CallsReturn` is
only model-checked: its argument (depths would have to fall all the way round a
circle of pools) is about liveness.

## 8. Signatures

`Signatures` follows one task type from its declaration.  `Filter` is one step
of the folds of `remove_voids` and `integer_sequence_void_filter`; once
`Compiled`, the program may call `AddByType`, `AddByIndex`, `set_callable` and
`run_impl`, each with a guard that says whether the call compiles.  A callable is a record of what the traits can see of it: its
kind, value category, nullness, return type, parameters and defaults.  Pointers to
members are none: they have traits, but `std::function` needs the object as one
argument more, so a task cannot hold one.

`sig_tasks`: every task type with up to three inputs, void ones included, and
functors of every parameter list with and without a default argument, function
pointers and `std::function`s that may be null or lvalues, a generic lambda;
edges are added by type and by index in any order.  Three inputs are enough
for two that are alike with another between them, and for a void in front of,
between and behind others.  Deadlock is not checked where a program may have
nothing left to call.

### Proofs

`SignaturesProofs` proves, from `SignatureAssumption` alone, so for all types,
all lists of inputs and all callables:

* `FiltersAgree`: the slots arguments are fetched from and the parameters of
  the callable, two unrelated folds in the code, agree in order and type;
* `ArgumentsAreTyped`: a callable that `set_callable` accepted is only invoked
  with values of exactly its parameters' types;
* `LookupIsUnambiguous`: an edge read by type is the one last added by type.

They follow from one inductive invariant (`SigInv`): the types kept
so far are as many as the indices kept so far, each index is one already looked
at, and the type at that index is the type kept.  `TypeOK` is part of it; it is
proved and no run checks it.  The `TypeOK`s of the other components and
`AtMostOneLateStart` of `ThreadPool` are parts or consequences of the invariants TLC
checks.

## 9. Disagreements between code and documentation

* `ThreadPool::clear_queued_tasks` lowers the counter to 0 without waking
  `wait` (`pool_clear_while_waiting`): a thread in `wait` hangs if another one
  clears the queue.
* `Task::run` wakes one thread in `Task::wait`, not all (`task_two_waiters`).
* In a second `ThreadPoolExecutor::run` a task does not wait for what it
  depends on (`exec_second_run`): the flags of the edges are never reset.

The models were written from the code where it departs from its comments in
further places.  No run is devoted to these:

* `ThreadPool::wait` is "safe to call from any thread" (`ThreadPool.h:154`); in
  a job it waits for that job.  Jobs do not call it in the runs.
* Reachability is the longest chain, not the "unique reachable nodes" of
  `INode.h:70-73`.
* `Node::get_inward_edge_value` "waits for the edge to be retrievable"
  (`Node.h:118`, `Node.h:139`); it reads at once.
* `Task::wait` returns the state "after completion" (`Task.h:123`); it may
  return `Running` if the task is run again, and may return before `run()` has
  locked `mtx_` and notified, so that destroying the task then is not safe.
* `Edge::set_data` is "thread-safe" (`Edge.h:57`); in a second run it assigns
  `data_` while dependents may read it.
* `Task::get_result` is to be called "after wait() returns to ensure result is
  ready" (`Task.h:173`); it copies `result_` (`Task.h:175-178`), which `run()` assigns
  (`Task.h:94`, `Task.h:97`), with no lock on either side.  If the task is run again
  the copy may be of a half-assigned value.
* `ThreadPoolExecutor::cancel` "does not affect tasks currently running"
  (`ThreadPoolExecutor.h:117`).  It leaves one that is blocked on a task it drops
  blocked for ever, if that task was added after the first `run()`, or belongs to
  another executor; without `cancel` such tasks may block as well (section 6).
* `ThreadPoolExecutor::wait` of one executor may sleep for ever after a callable of
  another one has cancelled it: the first point of this section, reached through
  the executors (section 7).
* Each `run()` of an executor adds `thread_count_` workers (`ThreadPool.h:143`
  wants one call), and where `hardware_concurrency()` is 0 there are none and
  `wait` blocks for ever: `CallsReturn` of `Executor` needs `ThreadCount` > 0.
* `has_required_prototype2` accepts callables with further parameters
  (`Metafunctions.h:172`) and is an error for `noexcept` callables, generic
  lambdas and function pointers passed as lvalues (`Metafunctions.h:143`).

## 10. Not modelled

Names and descriptions (nothing sets them), the read-only getters of
`ThreadPool`, jobs that throw in a pool (the program terminates), the check
for null of `ThreadPool::add_task` (`ThreadPool.h:99-105`: an early return that changes
nothing, and that null pointers to members bypass), null task
pointers (undefined behaviour in the sort), moving an executor into itself,
graphs with cycles in `Task` and `Executor` (tasks on a cycle block for ever),
the relaxed memory order of `state_` as such, `has_required_prototype` (unused;
`has_required_prototype2` is modelled), tests and build files.  The comments at
`ITask.h:100-106` and `Task.h:76-77` list the steps of `run()` in another order
than the code; the models follow the code.

## 11. Faulty variants

Each component module has definitions marked as faulty variants: one action or
helper with one plausible mistake.  No behaviour of the model uses them.  Put
in place of the original, each makes the property it was written for fail.

## 12. Running

    tlc -config MCThreadPool_safety.cfg MCThreadPool
    tlapm ThreadPoolProofs.tla        (the same for JobPoolProofs, ReachabilityProofs,
                                       TaskGraphProofs, TaskProofs, ExecutorProofs,
                                       ExecutorsProofs, SignaturesProofs)

`PROJECT.json` lists the runs, the lines of source each definition stands for,
the hazards of the code and the properties that cover them.
