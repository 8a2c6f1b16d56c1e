------------------------------ MODULE Executor ------------------------------
(***************************************************************************)
(* ThreadPoolExecutor over the pool JobPool promises and tasks that block  *)
(* a worker until the tasks they depend on have published their results.   *)
(* One thread, Main, owns the executor; running tasks may cancel it.       *)
(* A job is one submission of a task: <<task, round>>, where the round     *)
(* counts the calls of run().                                              *)
(***************************************************************************)
EXTENDS TaskGraph

CONSTANTS ThreadCount,  (* hardware_concurrency(), 0 if it does not know    *)
          MaxRounds,    (* bound on the calls of run()                      *)
          TaskCancels,  (* may a callable call cancel()?                    *)
          OverlappingRuns, (* is run() called again before all is done?     *)
          Main          (* the thread that owns the executor                *)

ASSUME ExecutorAssumption ==
  /\ ThreadCount \in Nat
  /\ MaxRounds \in Nat
  /\ TaskCancels \in BOOLEAN
  /\ OverlappingRuns \in BOOLEAN

VARIABLES
  tasks_to_run_,   (* the vector of added tasks                             *)
  pool_,           (* does the executor have a pool?                        *)
  main,            (* where Main is in its call                             *)
  next,            (* the position in the vector run() submits next         *)
  round,           (* how often run() has been called                       *)
  workers,         (* threads the pool has spawned                          *)
  pending,         (* the jobs queued in the pool, oldest first             *)
  running,         (* the jobs in the hands of a worker                     *)
  done,            (* the jobs that have returned                           *)
  cleared,         (* the jobs cancelled                                    *)
  waiting,         (* {Main} inside wait(), else {}                         *)
  phase,           (* "open", "closing" while the pool is destroyed, "gone" *)
  entered,         (* the running jobs past the wait for their edges        *)
  published,       (* the running jobs past set_out_edge_data               *)
  is_retrievable_, (* the tasks whose out edge is retrievable               *)
  interrupted      (* the rounds of which cancel() dropped jobs before      *)
                   (* run() had submitted them all (no part of the code)    *)

executor == <<tasks_to_run_, pool_, main, next, round, workers>>
pool == <<pending, running, done, cleared, waiting, phase>>
edges == <<entered, published, is_retrievable_>>
vars == <<executor, pool, edges, interrupted>>

Jobs == Tasks \X (1 .. MaxRounds)
Task(j) == j[1]

Pool == INSTANCE JobPool WITH
          Threads <- {Main}, Capacity <- MaxRounds * ThreadCount

Init ==
  /\ Pool!Init
  /\ tasks_to_run_ = <<>>
  /\ pool_ = FALSE
  /\ main = "idle"
  /\ next = 1
  /\ round = 0
  /\ workers = 0
  /\ entered = {}
  /\ published = {}
  /\ is_retrievable_ = {}
  /\ interrupted = {}

------------------------------------------------------------------------------
(* ThreadPoolExecutor, on Main. *)

Call(from, to) == main = from /\ main' = to

add_task(t) ==
  /\ Call("idle", "idle")
  /\ t \notin Range(tasks_to_run_)
  /\ tasks_to_run_' = Append(tasks_to_run_, t)
  /\ UNCHANGED <<pool_, next, round, workers, pool, edges, interrupted>>

(* run(): create the pool unless there is one, compute reachability, sort. *)
RunBegin ==
  /\ Call("idle", "submit")
  /\ round < MaxRounds
  /\ OverlappingRuns \/ (pending = <<>> /\ running = {})
  /\ round' = round + 1
  /\ pool_' = TRUE
  /\ tasks_to_run_' \in Sorted(tasks_to_run_)
  /\ next' = 1
  /\ UNCHANGED <<workers, pool, edges, interrupted>>

Submit ==
  /\ Call("submit", "submit")
  /\ next <= Len(tasks_to_run_)
  /\ Pool!Submit(<<tasks_to_run_[next], round>>)
  /\ next' = next + 1
  /\ UNCHANGED <<tasks_to_run_, pool_, round, workers, edges, interrupted>>

(* pool_->run() spawns its threads, at every call of run(). *)
RunEnd ==
  /\ Call("submit", "idle")
  /\ next > Len(tasks_to_run_)
  /\ workers' = workers + ThreadCount
  /\ UNCHANGED <<tasks_to_run_, pool_, next, round, pool, edges, interrupted>>

(* cancel() by Main, or at any time by the callable of a running task. *)
cancel ==
  /\ pool_
  /\ main = "idle" \/ (TaskCancels /\ entered \ published # {})
  /\ Pool!Clear
  /\ interrupted' = interrupted \cup
       {r \in {round} : main = "submit" /\ \E j \in Pool!QueuedJobs : j[2] = r}
  /\ UNCHANGED <<executor, edges>>

(* wait() returns at once when there is no pool. *)
WaitBegin ==
  /\ Call("idle", "wait")
  /\ pool_
  /\ Pool!Wait(Main)
  /\ UNCHANGED <<tasks_to_run_, pool_, next, round, workers, edges, interrupted>>

WaitReturn ==
  /\ Call("wait", "idle")
  /\ Pool!Return(Main)
  /\ UNCHANGED <<tasks_to_run_, pool_, next, round, workers, edges, interrupted>>

(* ~ThreadPoolExecutor destroys the pool, if any, which joins its workers. *)
DestroyBegin ==
  /\ Call("idle", "destroy")
  /\ Pool!Shutdown
  /\ UNCHANGED <<tasks_to_run_, pool_, next, round, workers, edges, interrupted>>

DestroyEnd ==
  /\ Call("destroy", "gone")
  /\ Pool!Vanish
  /\ UNCHANGED <<tasks_to_run_, pool_, next, round, workers, edges, interrupted>>

------------------------------------------------------------------------------
(* A worker and the Task::run it calls. *)

JobStart ==
  /\ Cardinality(running) < workers
  /\ Pool!Start
  /\ UNCHANGED <<executor, edges, interrupted>>

(* Faulty variant of Enter: only the first edge is waited for. *)
EnterFirstEdge(j) ==
  /\ j \in running \ entered
  /\ Inputs[Task(j)] # <<>> =>
       Head(Inputs[Task(j)]) \in is_retrievable_ \cup {None}
  /\ entered' = entered \cup {j}
  /\ UNCHANGED <<executor, pool, published, is_retrievable_, interrupted>>

(* The task has waited for all its edges and calls its callable. *)
Enter(j) ==
  /\ j \in running \ entered
  /\ DependsOn[Task(j)] \subseteq is_retrievable_
  /\ entered' = entered \cup {j}
  /\ UNCHANGED <<executor, pool, published, is_retrievable_, interrupted>>

(* The callable has returned and the out edge is made retrievable. *)
Publish(j) ==
  /\ j \in entered \ published
  /\ published' = published \cup {j}
  /\ is_retrievable_' = is_retrievable_ \cup {Task(j)}
  /\ UNCHANGED <<executor, pool, entered, interrupted>>

(* Faulty variant of JobEnd: the job is discounted and still executing. *)
JobEndEarly(j) ==
  /\ j \in published
  /\ Pool!Finish(j)
  /\ UNCHANGED <<executor, edges, interrupted>>

(* Task::run returns and the worker discounts the job. *)
JobEnd(j) ==
  /\ j \in published
  /\ Pool!Finish(j)
  /\ entered' = entered \ {j}
  /\ published' = published \ {j}
  /\ UNCHANGED <<executor, is_retrievable_, interrupted>>

TaskStep(j) == Enter(j) \/ Publish(j) \/ JobEnd(j)

MainStep == Submit \/ RunEnd \/ WaitReturn \/ DestroyEnd

Next ==
  \/ \E t \in Tasks : add_task(t)
  \/ RunBegin
  \/ cancel
  \/ WaitBegin
  \/ DestroyBegin
  \/ MainStep
  \/ JobStart
  \/ \E j \in Jobs : TaskStep(j)

Spec == Init /\ [][Next]_vars

(* Main goes on with the call it is in, an open pool gives the oldest job   *)
(* to an idle worker, and every worker goes on with its job.  Nobody is     *)
(* made to call a method, and a pool being destroyed starts nothing more    *)
(* that it need not.                                                        *)
FairSpec ==
  /\ Spec
  /\ WF_vars(MainStep)
  /\ WF_vars(JobStart /\ phase = "open")
  /\ \A j \in Jobs : WF_vars(TaskStep(j))

------------------------------------------------------------------------------
(* Properties. *)

TypeOK ==
  /\ tasks_to_run_ \in Seq(Tasks)
  /\ main \in {"idle", "submit", "wait", "destroy", "gone"}
  /\ next \in 1 .. Len(tasks_to_run_) + 1
  /\ round \in 0 .. MaxRounds
  /\ workers \in Nat
  /\ pending \in Seq(Jobs)
  /\ running \cup done \cup cleared \subseteq Jobs
  /\ waiting = (IF main = "wait" THEN {Main} ELSE {})
  /\ published \subseteq entered
  /\ entered \subseteq running
  /\ interrupted \subseteq 1 .. MaxRounds

(* The order of jobs: by round, and within a round by depth.                *)
NotAfter(i, j) ==
  i[2] < j[2] \/ (i[2] = j[2] /\ Depth[Task(i)] <= Depth[Task(j)])

InOrder(jobs) ==
  \A i, k \in DOMAIN jobs : i < k => NotAfter(jobs[i], jobs[k])

(* Jobs are submitted in that order, so they are queued and start in it.  A *)
(* vector has no task twice; while run() submits it, it is sorted and the   *)
(* jobs of this round are those of its tasks before next.                   *)
OrderInv ==
  /\ Distinct(tasks_to_run_)
  /\ main = "submit" =>
       /\ round > 0
       /\ \A i, k \in DOMAIN tasks_to_run_ :
            i < k => Depth[tasks_to_run_[i]] <= Depth[tasks_to_run_[k]]
       /\ \A j \in Pool!Known :
            j[2] = round => \E i \in 1 .. next - 1 : tasks_to_run_[i] = Task(j)
  /\ \A j \in Pool!Known : j[2] <= round
  /\ InOrder(pending)
  /\ \A i \in running \cup done : \A j \in Pool!QueuedJobs : NotAfter(i, j)

(* An edge is retrievable when a job has published it, and a callable is    *)
(* called when all the edges of its task are.                               *)
EdgesInv ==
  /\ is_retrievable_ = {Task(j) : j \in published \cup done}
  /\ \A j \in entered : DependsOn[Task(j)] \subseteq is_retrievable_

(* The tasks Task::run of this job still has to wait for, whichever call of *)
(* run() submits them.                                                      *)
Missing(j) == DependsOn[Task(j)] \ is_retrievable_

(* p was submitted by the run() that submitted j, as add_task asks for, and *)
(* no cancel() came in the middle of that.  Otherwise j may block for ever: *)
(* a job of p submitted later may wait for a worker behind blocked ones, or *)
(* be dropped.                                                              *)
InTime(p, j) == <<p, j[2]>> \in Pool!Known /\ j[2] \notin interrupted

(* A worker that blocks on the edge of a task that was added in time blocks *)
(* on a task another worker is running: it is neither queued behind blocked *)
(* workers nor dropped, whatever the number of workers, and whatever is run *)
(* again and cancelled.                                                     *)
BlockedOnStarted ==
  \A j \in running : \A p \in Missing(j) :
    InTime(p, j) => <<p, j[2]>> \in running

(* cancel() drops no task that was added in time and leaves one that still  *)
(* waits for it, or will.                                                   *)
NoOrphan ==
  \A j \in Pool!QueuedJobs \cup running : \A p \in Missing(j) :
    InTime(p, j) => <<p, j[2]>> \in Pool!QueuedJobs \cup running

(* What a cancel() has dropped was needed by nothing it has left.           *)
Needs(j) == {<<p, j[2]>> : p \in DependsOn[Task(j)]}
CancelInv ==
  /\ \A j \in Pool!QueuedJobs \cup running :
       j[2] \notin interrupted => Needs(j) \cap cleared = {}
  /\ main = "submit" /\ round \notin interrupted => \A j \in cleared : j[2] < round

(* The invariant of the executor as a whole, which the proofs rest on.      *)
ExecutorInv == TypeOK /\ OrderInv /\ EdgesInv /\ CancelInv

(* A task runs for the first time after all the tasks it depends on. *)
DF == INSTANCE Dataflow WITH
        status <- [t \in Tasks |->
                     IF t \in is_retrievable_ THEN "Complete"
                     ELSE IF \E j \in entered : Task(j) = t THEN "Running"
                     ELSE "Incomplete"]
ImplementsDataflow == DF!Spec

(* What ThreadPoolExecutor::run says: a task executes only after the tasks  *)
(* it depends on, if they were submitted with it, completed.                *)
DependenciesFirst ==
  \A j \in entered : Needs(j) \cap Pool!Known \subseteq done \cup published

(* Whatever an unfinished job still has to wait for was added in time.      *)
Supplied ==
  \A j \in Pool!QueuedJobs \cup running : \A p \in Missing(j) : InTime(p, j)

(* wait() returns, even with one worker and after cancel(), if every job    *)
(* has what it waits for submitted with it; so does the destructor, although*)
(* it drops what is still queued.  Not so when a dependency was added after *)
(* a run() that has submitted the task (or never), or lost to a cancel() in *)
(* the middle of run(): there the code may block for ever.                  *)
CallsReturn ==
  /\ (main = "wait" /\ Supplied) ~> (main = "idle")
  /\ (main = "destroy" /\ Supplied) ~> (main = "gone")
=============================================================================
