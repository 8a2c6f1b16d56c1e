------------------------------ MODULE Executors ------------------------------
(***************************************************************************)
(* Several ThreadPoolExecutors in one program: executors are moved and     *)
(* destroyed while their pools work, and tasks depend on tasks that were   *)
(* given to another executor.  One thread, Main, owns them all; callables  *)
(* may cancel any of them.                                                 *)
(*                                                                         *)
(* A pool is an object of its own here, that its executor points to, since *)
(* a move passes the pointer on.  What it does is what JobPool promises.   *)
(* A job is one submission of a task: <<task, round>>, where the round     *)
(* counts the calls of run() of all executors.                             *)
(***************************************************************************)
EXTENDS TaskGraph

CONSTANTS Executors,    (* the executors of the program                     *)
          ThreadCount,  (* hardware_concurrency()                           *)
          MaxRounds,    (* bound on the calls of run(), so also on the pools*)
          MaxMoves,     (* bound on the number of moves                     *)
          TaskCancels   (* may a callable call cancel()?                    *)

ASSUME ExecutorsAssumption ==
  /\ None \notin Executors \cup (1 .. MaxRounds)
  /\ ThreadCount \in Nat
  /\ MaxRounds \in Nat /\ MaxMoves \in Nat
  /\ TaskCancels \in BOOLEAN

VARIABLES
  executor,        (* the members of each executor, and whether it exists   *)
  main,            (* the call Main is in: its name, the executor, the one  *)
                   (* moved from, the old pool of a move, the position in   *)
                   (* the vector; and, as history, whether a cancel() that  *)
                   (* nobody notifies it of has emptied the pool of its wait*)
  pool,            (* the pools, numbered in the order they are made        *)
  rounds,          (* how often run() has been called                       *)
  moves,           (* how many moves have begun                             *)
  entered,         (* the running jobs past the wait for their edges        *)
  published,       (* the running jobs past set_out_edge_data               *)
  is_retrievable_, (* the tasks whose out edge is retrievable               *)
  owner            (* history: the executor that answers for each job: the  *)
                   (* one it was submitted to, or the one moved to          *)

edges == <<entered, published, is_retrievable_>>
vars == <<executor, main, pool, rounds, moves, edges, owner>>

Pools == 1 .. MaxRounds
Jobs == Tasks \X (1 .. MaxRounds)
Task(j) == j[1]

NoExecutor == [life |-> "unborn", pool_ |-> None, tasks_to_run_ |-> <<>>]
NoPool == [phase |-> "unborn", workers |-> 0, batches |-> 0, pending |-> <<>>,
           running |-> {}, done |-> {}, cleared |-> {}]
Idle == [op |-> "idle", this |-> None, other |-> None, old |-> None, next |-> 1,
         unheard |-> FALSE]

Init ==
  /\ executor = [e \in Executors |-> NoExecutor]
  /\ main = Idle
  /\ pool = [p \in Pools |-> NoPool]
  /\ rounds = 0
  /\ moves = 0
  /\ entered = {} /\ published = {} /\ is_retrievable_ = {}
  /\ owner = [j \in Jobs |-> None]

Live(e) == executor[e].life = "live"
PoolOf(e) == executor[e].pool_
Queued(p) == Range(pool[p].pending)
Unfinished(p) == Queued(p) \cup pool[p].running

(* Main is blocked on the condition variable of the pool, in wait().        *)
Asleep(p) == main.op = "asleep" /\ PoolOf(main.this) = p

(* The next pool made. *)
Unborn == {p \in Pools : pool[p].phase = "unborn"}
NewPool == CHOOSE p \in Unborn : \A q \in Unborn : p <= q

------------------------------------------------------------------------------
(* Faulty variants of actions below. *)

(* The move exchanges the pools. *)
MoveBeginSwaps(e, other) ==
  /\ main.op = "idle" /\ executor[e].life # "gone" /\ Live(other) /\ e # other
  /\ moves < MaxMoves /\ moves' = moves + 1
  /\ executor' = [executor EXCEPT ![e].life = "live",
                                  ![e].pool_ = PoolOf(other),
                                  ![other].pool_ = PoolOf(e)]
  /\ main' = [Idle EXCEPT !.op = "move", !.this = e, !.other = other]
  /\ owner' = [j \in Jobs |-> IF owner[j] = other THEN e
                              ELSE IF owner[j] = e THEN None ELSE owner[j]]
  /\ UNCHANGED <<pool, rounds, edges>>

(* The move leaves the pool with the executor moved from. *)
MoveBeginCopies(e, other) ==
  /\ main.op = "idle" /\ executor[e].life # "gone" /\ Live(other) /\ e # other
  /\ moves < MaxMoves /\ moves' = moves + 1
  /\ executor' = [executor EXCEPT ![e].life = "live"]
  /\ main' = [Idle EXCEPT !.op = "move", !.this = e, !.other = other]
  /\ owner' = [j \in Jobs |-> IF owner[j] = other THEN e
                              ELSE IF owner[j] = e THEN None ELSE owner[j]]
  /\ UNCHANGED <<pool, rounds, edges>>

(* The old pool of the target is detached from its threads, not joined. *)
MoveEndDetaches ==
  /\ main.op = "move"
  /\ pool' = IF main.old = None THEN pool
             ELSE [pool EXCEPT ![main.old].phase = "gone"]
  /\ executor' = [executor EXCEPT
       ![main.this].tasks_to_run_ = executor[main.other].tasks_to_run_,
       ![main.other].tasks_to_run_ = <<>>]
  /\ main' = Idle
  /\ UNCHANGED <<rounds, moves, edges, owner>>

(* The worker discounts its job, which is still executing. *)
JobEndEarly(p, j) ==
  /\ j \in pool[p].running \cap published
  /\ pool' = [pool EXCEPT ![p].running = @ \ {j}, ![p].done = @ \cup {j}]
  /\ UNCHANGED <<executor, main, rounds, moves, edges, owner>>

(* The worker notifies nobody when it has discounted the last job. *)
JobEndSilent(p, j) ==
  /\ j \in pool[p].running \cap published
  /\ pool' = [pool EXCEPT ![p].running = @ \ {j}, ![p].done = @ \cup {j}]
  /\ entered' = entered \ {j}
  /\ published' = published \ {j}
  /\ UNCHANGED <<executor, main, rounds, moves, is_retrievable_, owner>>

(* The workers take the jobs in any order. *)
JobStartAnywhere(p) ==
  /\ pool[p].phase \in {"open", "closing"}
  /\ Cardinality(pool[p].running) < pool[p].workers
  /\ \E i \in DOMAIN pool[p].pending :
       pool' = [pool EXCEPT
         ![p].running = @ \cup {pool[p].pending[i]},
         ![p].pending = SubSeq(@, 1, i - 1) \o SubSeq(@, i + 1, Len(@))]
  /\ UNCHANGED <<executor, main, rounds, moves, edges, owner>>

------------------------------------------------------------------------------
(* ThreadPoolExecutor, on Main. *)

(* The default constructor: no pool, no tasks. *)
Construct(e) ==
  /\ main.op = "idle" /\ executor[e].life = "unborn"
  /\ executor' = [executor EXCEPT ![e].life = "live"]
  /\ UNCHANGED <<main, pool, rounds, moves, edges, owner>>

(* A task is added once, and then goes where its executor is moved. *)
add_task(e, t) ==
  /\ main.op = "idle" /\ Live(e)
  /\ \A f \in Executors : t \notin Range(executor[f].tasks_to_run_)
  /\ executor' = [executor EXCEPT ![e].tasks_to_run_ = Append(@, t)]
  /\ UNCHANGED <<main, pool, rounds, moves, edges, owner>>

(* run(): make a pool unless there is one, compute reachability, sort. *)
RunBegin(e) ==
  /\ main.op = "idle" /\ Live(e)
  /\ rounds < MaxRounds /\ rounds' = rounds + 1
  /\ \E p \in Pools :
       /\ p = IF PoolOf(e) = None THEN NewPool ELSE PoolOf(e)
       /\ pool' = [pool EXCEPT ![p].phase = "open", ![p].batches = @ + 1]
       /\ \E sorted \in Sorted(executor[e].tasks_to_run_) :
            executor' = [executor EXCEPT ![e].pool_ = p,
                                         ![e].tasks_to_run_ = sorted]
  /\ main' = [Idle EXCEPT !.op = "submit", !.this = e]
  /\ UNCHANGED <<moves, edges, owner>>

Submit ==
  /\ main.op = "submit"
  /\ main.next <= Len(executor[main.this].tasks_to_run_)
  /\ LET job == <<executor[main.this].tasks_to_run_[main.next], rounds>>
     IN  /\ pool' = [pool EXCEPT ![PoolOf(main.this)].pending = Append(@, job)]
         /\ owner' = [owner EXCEPT ![job] = main.this]
  /\ main' = [main EXCEPT !.next = @ + 1]
  /\ UNCHANGED <<executor, rounds, moves, edges>>

RunEnd ==
  /\ main.op = "submit"
  /\ main.next > Len(executor[main.this].tasks_to_run_)
  /\ pool' = [pool EXCEPT ![PoolOf(main.this)].workers = @ + ThreadCount]
  /\ main' = Idle
  /\ UNCHANGED <<executor, rounds, moves, edges, owner>>

(* The pools a call of cancel on e may reach.  A callable that cancels an   *)
(* executor while Main moves into it may find either pointer.               *)
Reached(e) ==
  {PoolOf(e)} \cup (IF main.op = "move" /\ main.this = e THEN {main.old} ELSE {})

(* cancel(), by Main or at any time by the callable of a running job; it    *)
(* does nothing when there is no pool.  clear_queued_tasks notifies nobody, *)
(* so a wait() that sleeps is left asleep when it drops the last job: the   *)
(* callable is then one of another pool, for its own job is counted in its  *)
(* own.                                                                     *)
cancel(e) ==
  /\ Live(e)
  /\ main.op = "idle" \/ (TaskCancels /\ entered \ published # {})
  /\ \E p \in Reached(e) \ {None} :
       /\ pool' = [pool EXCEPT ![p].cleared = @ \cup Queued(p), ![p].pending = <<>>]
       /\ main' = [main EXCEPT !.unheard =
                     @ \/ (Asleep(p) /\ pool[p].running = {})]
  /\ UNCHANGED <<executor, rounds, moves, edges, owner>>

(* wait() returns at once when there is no pool. *)
WaitBegin(e) ==
  /\ main.op = "idle" /\ Live(e) /\ PoolOf(e) # None
  /\ main' = [Idle EXCEPT !.op = "wait", !.this = e]
  /\ UNCHANGED <<executor, pool, rounds, moves, edges, owner>>

(* ThreadPool::wait looks at the counter: it returns, or falls asleep ...   *)
WaitReturn ==
  /\ main.op = "wait"
  /\ Unfinished(PoolOf(main.this)) = {}
  /\ main' = Idle
  /\ UNCHANGED <<executor, pool, rounds, moves, edges, owner>>

WaitBlock ==
  /\ main.op = "wait"
  /\ Unfinished(PoolOf(main.this)) # {}
  /\ main' = [main EXCEPT !.op = "asleep"]
  /\ UNCHANGED <<executor, pool, rounds, moves, edges, owner>>

(* ... until a worker notifies it, or without a reason.                     *)
Woken == [main EXCEPT !.op = "wait", !.unheard = FALSE]
WaitSpurious ==
  /\ main.op = "asleep"
  /\ main' = Woken
  /\ UNCHANGED <<executor, pool, rounds, moves, edges, owner>>

(* Move assignment, and move construction if e does not exist yet.  The     *)
(* pointer changes hands first, and the pool e had before is destroyed ...  *)
MoveBegin(e, other) ==
  /\ main.op = "idle" /\ executor[e].life # "gone" /\ Live(other) /\ e # other
  /\ moves < MaxMoves /\ moves' = moves + 1
  /\ executor' = [executor EXCEPT ![e].life = "live",
                                  ![e].pool_ = PoolOf(other),
                                  ![other].pool_ = None]
  /\ pool' = IF PoolOf(e) = None THEN pool
             ELSE [pool EXCEPT ![PoolOf(e)].phase = "closing"]
  /\ main' = [Idle EXCEPT !.op = "move", !.this = e, !.other = other,
                          !.old = PoolOf(e)]
  /\ owner' = [j \in Jobs |-> IF owner[j] = other THEN e
                              ELSE IF owner[j] = e THEN None ELSE owner[j]]
  /\ UNCHANGED <<rounds, edges>>

(* ... which joins its workers; then the vector follows. *)
MoveEnd ==
  /\ main.op = "move"
  /\ main.old # None => pool[main.old].running = {}
  /\ pool' = IF main.old = None THEN pool
             ELSE [pool EXCEPT ![main.old].phase = "gone"]
  /\ executor' = [executor EXCEPT
       ![main.this].tasks_to_run_ = executor[main.other].tasks_to_run_,
       ![main.other].tasks_to_run_ = <<>>]
  /\ main' = Idle
  /\ UNCHANGED <<rounds, moves, edges, owner>>

(* ~ThreadPoolExecutor destroys the pool, if any, which joins its workers. *)
DestroyBegin(e) ==
  /\ main.op = "idle" /\ Live(e)
  /\ pool' = IF PoolOf(e) = None THEN pool
             ELSE [pool EXCEPT ![PoolOf(e)].phase = "closing"]
  /\ main' = [Idle EXCEPT !.op = "destroy", !.this = e]
  /\ UNCHANGED <<executor, rounds, moves, edges, owner>>

DestroyEnd ==
  /\ main.op = "destroy"
  /\ PoolOf(main.this) # None => pool[PoolOf(main.this)].running = {}
  /\ pool' = IF PoolOf(main.this) = None THEN pool
             ELSE [pool EXCEPT ![PoolOf(main.this)].phase = "gone"]
  /\ executor' = [executor EXCEPT ![main.this] = [NoExecutor EXCEPT !.life = "gone"]]
  /\ main' = Idle
  /\ UNCHANGED <<rounds, moves, edges, owner>>

------------------------------------------------------------------------------
(* The workers of the pools, and the Task::run they call. *)

(* A pool that is closing may still start jobs, but need not. *)
JobStart(p) ==
  /\ pool[p].phase \in {"open", "closing"}
  /\ Cardinality(pool[p].running) < pool[p].workers
  /\ pool[p].pending # <<>>
  /\ pool' = [pool EXCEPT ![p].running = @ \cup {Head(pool[p].pending)},
                          ![p].pending = Tail(@)]
  /\ UNCHANGED <<executor, main, rounds, moves, edges, owner>>

Enter(p, j) ==
  /\ j \in pool[p].running \ entered
  /\ DependsOn[Task(j)] \subseteq is_retrievable_
  /\ entered' = entered \cup {j}
  /\ UNCHANGED <<executor, main, pool, rounds, moves, published,
                 is_retrievable_, owner>>

Publish(p, j) ==
  /\ j \in (pool[p].running \cap entered) \ published
  /\ published' = published \cup {j}
  /\ is_retrievable_' = is_retrievable_ \cup {Task(j)}
  /\ UNCHANGED <<executor, main, pool, rounds, moves, entered, owner>>

(* The worker discounts its job, and notifies wait() after the last one.    *)
JobEnd(p, j) ==
  /\ j \in pool[p].running \cap published
  /\ pool' = [pool EXCEPT ![p].running = @ \ {j}, ![p].done = @ \cup {j}]
  /\ main' = IF Asleep(p) /\ Unfinished(p) = {j} THEN Woken ELSE main
  /\ entered' = entered \ {j}
  /\ published' = published \ {j}
  /\ UNCHANGED <<executor, rounds, moves, is_retrievable_, owner>>

TaskStep(p, j) == Enter(p, j) \/ Publish(p, j) \/ JobEnd(p, j)

MainStep ==
  Submit \/ RunEnd \/ WaitReturn \/ WaitBlock \/ MoveEnd \/ DestroyEnd

Next ==
  \/ \E e \in Executors :
       \/ Construct(e) \/ RunBegin(e) \/ cancel(e) \/ WaitBegin(e)
       \/ DestroyBegin(e)
       \/ \E t \in Tasks : add_task(e, t)
       \/ \E other \in Executors : MoveBegin(e, other)
  \/ MainStep
  \/ WaitSpurious
  \/ \E p \in Pools : JobStart(p) \/ \E j \in Jobs : TaskStep(p, j)

Spec == Init /\ [][Next]_vars

(* Main goes on with the call it is in unless it sleeps, an open pool gives *)
(* its oldest job to an idle worker, and a worker goes on with its job.     *)
FairSpec ==
  /\ Spec
  /\ WF_vars(MainStep)
  /\ \A p \in Pools : WF_vars(JobStart(p) /\ pool[p].phase = "open")
  /\ \A p \in Pools : \A j \in Jobs : WF_vars(TaskStep(p, j))

------------------------------------------------------------------------------
(* Properties. *)

ExecutorOK(e) ==
  /\ DOMAIN executor[e] = DOMAIN NoExecutor
  /\ executor[e].life \in {"unborn", "live", "gone"}
  /\ executor[e].pool_ \in Pools \cup {None}
  /\ executor[e].tasks_to_run_ \in Seq(Tasks)
  /\ ~Live(e) => PoolOf(e) = None /\ executor[e].tasks_to_run_ = <<>>
MainOK ==
  /\ DOMAIN main = DOMAIN Idle
  /\ main.op \in {"idle", "submit", "wait", "asleep", "move", "destroy"}
  /\ {main.this, main.other} \subseteq Executors \cup {None}
  /\ main.old \in Pools \cup {None}
  /\ main.next \in Nat \ {0}
  /\ main.unheard \in BOOLEAN
PoolOK(p) ==
  /\ DOMAIN pool[p] = DOMAIN NoPool
  /\ pool[p].phase \in {"unborn", "open", "closing", "gone"}
  /\ pool[p].workers \in Nat /\ pool[p].batches \in Nat
  /\ pool[p].pending \in Seq(Jobs)
  /\ pool[p].running \cup pool[p].done \cup pool[p].cleared \subseteq Jobs
  /\ IsFiniteSet(pool[p].running)
TypeOK ==
  /\ DOMAIN executor = Executors
  /\ \A e \in Executors : ExecutorOK(e)
  /\ MainOK
  /\ DOMAIN pool = Pools
  /\ \A p \in Pools : PoolOK(p)
  /\ rounds \in 0 .. MaxRounds
  /\ published \subseteq entered
  /\ \A j \in entered : \E p \in Pools : j \in pool[p].running
  /\ owner \in [Jobs -> Executors \cup {None}]

(* However executors are moved, every pool that works belongs to one        *)
(* executor, whose wait, cancel and destructor reach it; the executor that  *)
(* answers for a job is the one that has the pool with the job; and no task *)
(* is in the vectors of two executors, where the run of one would submit    *)
(* what the other is to run.  A pool that no longer exists has no job in    *)
(* execution.                                                               *)
EverythingHasOneOwner ==
  /\ \A e, f \in Executors : e # f =>
       /\ PoolOf(e) = PoolOf(f) => PoolOf(e) = None
       /\ Range(executor[e].tasks_to_run_)
            \cap Range(executor[f].tasks_to_run_) = {}
  /\ \A p \in Pools :
       /\ pool[p].phase = "open" =>
            \E e \in Executors :
              PoolOf(e) = p /\ \A j \in Unfinished(p) : owner[j] = e
       /\ pool[p].phase = "gone" => pool[p].running = {}

(* When wait() returns, all jobs its executor answers for are done or       *)
(* cancelled, the jobs moved to it included.                                *)
WaitCoversMoves ==
  [][WaitReturn =>
       \A j \in Jobs :
         owner[j] = main.this =>
           \E p \in Pools : j \in pool[p].done \cup pool[p].cleared]_vars

(* No wait() sleeps on when everything it waits for is over, whoever moved  *)
(* the pool to its executor, cancelled it or runs its jobs; but for one     *)
(* case, in which the code does sleep on: a callable of another pool has    *)
(* cancelled the last jobs, while no worker had any.                        *)
SleeperIsWoken ==
  main.op = "asleep" /\ Unfinished(PoolOf(main.this)) = {} => main.unheard

(* Every pool is used as a job pool is meant to be, whoever points to it.   *)
JobPoolOf(p) == INSTANCE JobPool WITH
  Threads <- {"main"}, Capacity <- MaxRounds * ThreadCount,
  pending <- pool[p].pending, running <- pool[p].running,
  done <- pool[p].done, cleared <- pool[p].cleared,
  waiting <- IF main.op \in {"wait", "asleep"} /\ PoolOf(main.this) = p
             THEN {"main"} ELSE {},
  phase <- IF pool[p].phase = "unborn" THEN "open" ELSE pool[p].phase
PoolsAreJobPools ==
  /\ \A p \in Pools : JobPoolOf(p)!Init
  /\ [][\A p \in Pools :
           JobPoolOf(p)!Next \/ UNCHANGED JobPoolOf(p)!vars]_vars

(* The invariant behind these, which is inductive.                          *)

(* A call is one on an executor that exists, and run() and wait() have a    *)
(* pool.  Only a move holds on to a pool that no executor has any more, and *)
(* only a wait that sleeps can have missed a cancel.                        *)
CallInv ==
  /\ main.op # "idle" => main.this \in Executors /\ Live(main.this)
  /\ main.op \in {"submit", "wait", "asleep"} => PoolOf(main.this) # None
  /\ main.op = "move" => /\ main.other \in Executors \ {main.this}
                         /\ Live(main.other) /\ PoolOf(main.other) = None
  /\ main.op # "move" => main.old = None
  /\ main.old # None => pool[main.old].phase = "closing"
  /\ main.unheard => main.op = "asleep"

(* The pools are made one by one; those that work, and no others, belong to *)
(* an executor; and each run() has added workers to one of them.            *)
BeingDestroyed(e) == main.op = "destroy" /\ main.this = e
PointerOK(p) ==
  /\ p > rounds => pool[p].phase = "unborn"
  /\ pool[p].phase = "unborn" => pool[p] = NoPool
  /\ pool[p].phase = "open" => \E e \in Executors : PoolOf(e) = p
  /\ pool[p].phase = "gone" => pool[p].running = {}
  /\ \A e \in Executors :
       PoolOf(e) = p =>
         /\ pool[p].phase = IF BeingDestroyed(e) THEN "closing" ELSE "open"
         /\ \A f \in Executors \ {e} : PoolOf(f) # p
  /\ pool[p].workers <= rounds * ThreadCount
  /\ main.op = "submit" /\ PoolOf(main.this) = p =>
       pool[p].workers + ThreadCount <= rounds * ThreadCount
PointersInv == \A p \in Pools : PointerOK(p)

(* No task is in two vectors, or twice in one.                              *)
VectorsInv ==
  \A e \in Executors :
    /\ Distinct(executor[e].tasks_to_run_)
    /\ \A f \in Executors \ {e} :
         Range(executor[e].tasks_to_run_) \cap Range(executor[f].tasks_to_run_) = {}

(* A run() submits jobs that no pool has.  The executor that answers for a  *)
(* job is the one that has the pool it is unfinished in, and an executor    *)
(* answers for no job that is neither over nor in its pool.                 *)
Over(p) == pool[p].done \cup pool[p].cleared
SubmittedNow(j) ==
  \E i \in 1 .. main.next - 1 : executor[main.this].tasks_to_run_[i] = Task(j)
JobsOK(p) ==
  /\ \A j \in Unfinished(p) \cup Over(p) :
       /\ j[2] <= rounds
       /\ main.op = "submit" /\ j[2] = rounds =>
            PoolOf(main.this) = p /\ SubmittedNow(j)
  /\ \A e \in Executors : PoolOf(e) = p => \A j \in Unfinished(p) : owner[j] = e
AnswersOK(e) ==
  executor[e].life # "gone" =>
    \A j \in Jobs :
      owner[j] = e =>
        \E p \in Pools : j \in Over(p) \/ (PoolOf(e) = p /\ j \in Unfinished(p))
JobsInv ==
  /\ \A p \in Pools : JobsOK(p)
  /\ \A e \in Executors : AnswersOK(e)

ExecutorsInv ==
  /\ TypeOK /\ CallInv /\ PointersInv /\ VectorsInv /\ JobsInv
  /\ SleeperIsWoken

(* Every unfinished job needs only what has been published or will be: it   *)
(* is unfinished itself, in a pool that works or in one that is closing.    *)
(* Each run() had a pool of its own.                                        *)
Supplied ==
  /\ \A p \in Pools : pool[p].batches <= 1
  /\ LET all == UNION {Unfinished(p) : p \in {q \in Pools : pool[q].phase # "gone"}}
     IN  \A j \in all : DependsOn[Task(j)]
                          \subseteq is_retrievable_ \cup {Task(i) : i \in all}

(* wait(), the move and the destructor return, with one worker per pool and *)
(* tasks that depend on tasks in other pools: each pool starts its jobs in  *)
(* the order of their depth in the whole graph, so there is no circle of    *)
(* pools waiting for each other, not even when one of them is closing and   *)
(* drops what it has not started.  But for a wait() of which a callable of  *)
(* another pool has cancelled all that was left: that may never return.     *)
CallsReturn == []<>(main.op = "idle" \/ ~Supplied \/ main.unheard)
=============================================================================
