----------------------------- MODULE ThreadPool -----------------------------
(***************************************************************************)
(* potts::ThreadPool (src/src/Executor/ThreadPool.h): worker threads, the  *)
(* client threads that call the pool's methods, and the calls that running *)
(* jobs and the on_complete callback make back into the pool.              *)
(*                                                                         *)
(* One action is what a thread does between two points where another       *)
(* thread can see or disturb it: taking a mutex, touching a field that     *)
(* others read without that mutex, blocking on or notifying a condition    *)
(* variable.  A mutex is None or the thread that holds it.  The threads    *)
(* blocked on worker_cv_ are those with wpc "asleep", the ones blocked on  *)
(* wait_cv_ those with call "wait_blocked".                                *)
(***************************************************************************)
EXTENDS Integers, Sequences, FiniteSets

CONSTANTS Workers,      (* all threads that run() may ever spawn            *)
          ThreadCount,  (* thread_count_: how many one run() spawns         *)
          Clients,      (* threads of the program using the pool            *)
          Main,         (* the client that calls run() and destroys the pool*)
          Jobs,         (* the callables handed to add_task, each once      *)
          None,         (* no thread, no job                                *)
          ClientCalls,  (* the methods clients call: "add" "clear" "wait"   *)
          JobCalls,     (* those a job or the callback calls on its pool    *)
          LateSubmit,   (* may clients submit during and after run()?       *)
          HasCallback,  (* was an on_complete_ given?                       *)
          Spurious      (* do condition variables wake up spuriously?       *)

Threads == Clients \cup Workers
Calls == {"add", "clear", "wait"}

ASSUME PoolAssumption ==
  /\ IsFiniteSet(Workers) /\ IsFiniteSet(Clients)
  /\ ThreadCount \in Nat
  /\ Workers \cap Clients = {}
  /\ Main \in Clients
  /\ None \notin Threads \cup Jobs
  /\ ClientCalls \subseteq Calls
  /\ JobCalls \subseteq Calls
  /\ LateSubmit \in BOOLEAN
  /\ HasCallback \in BOOLEAN
  /\ Spurious \in BOOLEAN

VARIABLES
  tasks_,              (* the queue of pending jobs                         *)
  active_task_count_,  (* the atomic counter                                *)
  is_shutting_down_,   (* the shutdown flag, a plain bool                   *)
  worker_mtx_,         (* owner of each mutex; tasks_mtx_ is a shared_mutex *)
  tasks_mtx_,          (* whose readers hold it within one step only        *)
  wait_mtx_,
  wpc,                 (* where each worker is in its loop                  *)
  held,                (* task_to_do of a worker: the job it executes       *)
  call,                (* where each thread is in the pool method it called *)
  arg,                 (* the job a thread is submitting                    *)
  toSpawn,             (* threads run() has still to spawn                  *)
  submitted,           (* history: jobs handed to add_task                  *)
  done,                (* history: jobs whose callable has returned         *)
  cleared,             (* history: jobs dropped by clear_queued_tasks       *)
  late,                (* history: jobs a worker took since the shutdown    *)
  callbacks            (* history: completed calls of on_complete_          *)

queue == <<tasks_, active_task_count_>>
locks == <<worker_mtx_, tasks_mtx_, wait_mtx_>>
threads == <<wpc, held, toSpawn>>
calls == <<call, arg>>
history == <<submitted, done, cleared, late, callbacks>>
vars == <<queue, is_shutting_down_, locks, threads, calls, history>>

WorkerStates ==
  {"unborn", "loop", "relock", "eval", "block", "asleep", "check", "body",
   "discount", "load", "callback", "notify", "exited"}
AddStates == {"add_lock", "add_enqueue", "add_count", "add_notify"}
WaitStates == {"wait_lock", "wait_block", "wait_blocked"}
DestructorStates == {"dtor_flag", "dtor_notify", "dtor_join", "gone"}
CallStates == {"none", "clear_lock", "clear_empty", "run_spawn"}
                \cup AddStates \cup WaitStates \cup DestructorStates

Init ==
  /\ tasks_ = <<>>
  /\ active_task_count_ = 0
  /\ is_shutting_down_ = FALSE
  /\ worker_mtx_ = None
  /\ tasks_mtx_ = None
  /\ wait_mtx_ = None
  /\ wpc = [w \in Workers |-> "unborn"]
  /\ held = [w \in Workers |-> None]
  /\ call = [t \in Threads |-> "none"]
  /\ arg = [t \in Threads |-> None]
  /\ toSpawn = 0
  /\ submitted = {}
  /\ done = {}
  /\ cleared = {}
  /\ late = [w \in Workers |-> 0]
  /\ callbacks = 0

------------------------------------------------------------------------------
(* Helpers. *)

QueuedJobs == {tasks_[i] : i \in DOMAIN tasks_}

empty == tasks_ = <<>>
(* Faulty variant of is_idle: looks at the queue instead of the counter. *)
is_idle_queue_only == empty
is_idle == active_task_count_ = 0

Unborn == {w \in Workers : wpc[w] = "unborn"}
Asleep == {w \in Workers : wpc[w] = "asleep"}
Running == \E w \in Workers : wpc[w] # "unborn"

(* Who may call a method now.  A client calls one method at a time and none *)
(* once the destructor has begun; a worker calls from inside a job or the   *)
(* callback.                                                                *)
MayCall(t, op) ==
  /\ call[t] = "none"
  /\ \/ t \in Clients /\ op \in ClientCalls /\ call[Main] \notin DestructorStates
     \/ t \in Workers /\ op \in JobCalls /\ wpc[t] \in {"body", "callback"}

Call(t, from, to) ==
  /\ call[t] = from
  /\ call' = [call EXCEPT ![t] = to]

Go(w, from, to) ==
  /\ wpc[w] = from
  /\ call[w] = "none"
  /\ wpc' = [wpc EXCEPT ![w] = to]

------------------------------------------------------------------------------
(* Faulty variants.  No behaviour of the model uses them: each is an action *)
(* (or operator) below with one mistake a change to the code could make,    *)
(* and replaces it to show that a property notices.                         *)

(* add_task does not take worker_mtx_. *)
AddLockSkipped(t) ==
  /\ Call(t, "add_lock", "add_enqueue")
  /\ UNCHANGED <<queue, is_shutting_down_, locks, threads, arg, history>>

(* add_task notifies only when the queue was empty. *)
AddNotifyIfWasEmpty(t) ==
  /\ Call(t, "add_notify", "none")
  /\ \/ (Asleep = {} \/ Len(tasks_) > 1) /\ UNCHANGED wpc
     \/ Len(tasks_) <= 1 /\ \E w \in Asleep : wpc' = [wpc EXCEPT ![w] = "relock"]
  /\ UNCHANGED <<queue, is_shutting_down_, locks, held, toSpawn, arg, history>>

(* clear_queued_tasks resets the counter instead of subtracting. *)
ClearCountReset(t) ==
  /\ Call(t, "clear_lock", "clear_empty")
  /\ tasks_mtx_ = None
  /\ tasks_mtx_' = t
  /\ active_task_count_' = 0
  /\ cleared' = cleared \cup QueuedJobs
  /\ UNCHANGED <<tasks_, is_shutting_down_, worker_mtx_, wait_mtx_, threads,
                 arg, submitted, done, late, callbacks>>

(* The destructor sets the flag without worker_mtx_. *)
DestroyFlagUnlocked ==
  /\ Call(Main, "dtor_flag", "dtor_notify")
  /\ is_shutting_down_' = TRUE
  /\ UNCHANGED <<queue, locks, threads, arg, history>>

(* A worker that finds the queue non-empty does not look at the flag. *)
WorkerEvalQueueFirst(w) ==
  /\ tasks_mtx_ = None
  /\ \/ is_shutting_down_ /\ empty /\ Go(w, "eval", "exited") /\ worker_mtx_' = None
     \/ ~empty /\ Go(w, "eval", "check") /\ worker_mtx_' = None
     \/ ~is_shutting_down_ /\ empty /\ Go(w, "eval", "block") /\ UNCHANGED worker_mtx_
  /\ UNCHANGED <<queue, is_shutting_down_, tasks_mtx_, wait_mtx_, held,
                 toSpawn, calls, history>>

(* execute_task does not pop the job it takes. *)
WorkerPopForgotten(w) ==
  /\ tasks_mtx_ = None
  /\ ~empty
  /\ Go(w, "check", "body")
  /\ held' = [held EXCEPT ![w] = Head(tasks_)]
  /\ UNCHANGED <<queue, is_shutting_down_, locks, toSpawn, calls, history>>

(* execute_task takes the newest job. *)
WorkerPopNewest(w) ==
  /\ tasks_mtx_ = None
  /\ IF empty
     THEN Go(w, "check", "loop") /\ UNCHANGED <<tasks_, held>>
     ELSE /\ Go(w, "check", "body")
          /\ held' = [held EXCEPT ![w] = tasks_[Len(tasks_)]]
          /\ tasks_' = SubSeq(tasks_, 1, Len(tasks_) - 1)
  /\ UNCHANGED <<active_task_count_, is_shutting_down_, locks, toSpawn,
                 calls, history>>

(* execute_task discounts its job before it takes wait_mtx_. *)
WorkerDiscountUnlocked(w) ==
  /\ Go(w, "discount", "load")
  /\ active_task_count_' = active_task_count_ - 1
  /\ UNCHANGED <<tasks_, is_shutting_down_, locks, held, toSpawn, calls,
                 history>>

(* The waiters are notified only when there is a callback. *)
WorkerLoadNotifyInCallback(w) ==
  /\ \/ is_idle /\ HasCallback /\ Go(w, "load", "callback") /\ UNCHANGED wait_mtx_
     \/ ~(is_idle /\ HasCallback) /\ Go(w, "load", "loop") /\ wait_mtx_' = None
  /\ UNCHANGED <<queue, is_shutting_down_, worker_mtx_, tasks_mtx_, held,
                 toSpawn, calls, history>>

(* notify_one instead of notify_all on wait_cv_. *)
WorkerNotifyOne(w) ==
  /\ wpc[w] = "notify"
  /\ wpc' = [wpc EXCEPT ![w] = "loop"]
  /\ \/ \A t \in Threads : call[t] # "wait_blocked" /\ UNCHANGED call
     \/ \E t \in Threads : Call(t, "wait_blocked", "wait_lock")
  /\ wait_mtx_' = None
  /\ UNCHANGED <<queue, is_shutting_down_, worker_mtx_, tasks_mtx_, held,
                 toSpawn, arg, history>>

------------------------------------------------------------------------------
(* add_task: queue the job and count it under worker_mtx_ and tasks_mtx_,   *)
(* then notify one worker with no lock held.                                *)

AddBegin(t, j) ==
  /\ MayCall(t, "add")
  /\ t \in Clients => LateSubmit \/ (~Running /\ call[Main] # "run_spawn")
  /\ j \notin submitted
  /\ call' = [call EXCEPT ![t] = "add_lock"]
  /\ arg' = [arg EXCEPT ![t] = j]
  /\ submitted' = submitted \cup {j}
  /\ UNCHANGED <<queue, is_shutting_down_, locks, threads, done, cleared,
                 late, callbacks>>

AddLock(t) ==
  /\ Call(t, "add_lock", "add_enqueue")
  /\ worker_mtx_ = None
  /\ worker_mtx_' = t
  /\ UNCHANGED <<queue, is_shutting_down_, tasks_mtx_, wait_mtx_, threads,
                 arg, history>>

AddEnqueue(t) ==
  /\ Call(t, "add_enqueue", "add_count")
  /\ tasks_mtx_ = None
  /\ tasks_mtx_' = t
  /\ tasks_' = Append(tasks_, arg[t])
  /\ UNCHANGED <<active_task_count_, is_shutting_down_, worker_mtx_,
                 wait_mtx_, threads, arg, history>>

(* fetch_add, then both locks are released. *)
AddCount(t) ==
  /\ Call(t, "add_count", "add_notify")
  /\ active_task_count_' = active_task_count_ + 1
  /\ tasks_mtx_' = None
  /\ worker_mtx_' = None
  /\ arg' = [arg EXCEPT ![t] = None]
  /\ UNCHANGED <<tasks_, is_shutting_down_, wait_mtx_, threads, history>>

(* worker_cv_.notify_one(): some sleeper wakes up, if there is one. *)
AddNotify(t) ==
  /\ Call(t, "add_notify", "none")
  /\ \/ Asleep = {} /\ UNCHANGED wpc
     \/ \E w \in Asleep : wpc' = [wpc EXCEPT ![w] = "relock"]
  /\ UNCHANGED <<queue, is_shutting_down_, locks, held, toSpawn, arg, history>>

------------------------------------------------------------------------------
(* clear_queued_tasks: the counter falls first, then the queue is emptied,  *)
(* both under tasks_mtx_.  Nobody is notified.                              *)

ClearBegin(t) ==
  /\ MayCall(t, "clear")
  /\ call' = [call EXCEPT ![t] = "clear_lock"]
  /\ UNCHANGED <<queue, is_shutting_down_, locks, threads, arg, history>>

ClearCount(t) ==
  /\ Call(t, "clear_lock", "clear_empty")
  /\ tasks_mtx_ = None
  /\ tasks_mtx_' = t
  /\ active_task_count_' = active_task_count_ - Len(tasks_)
  /\ cleared' = cleared \cup QueuedJobs
  /\ UNCHANGED <<tasks_, is_shutting_down_, worker_mtx_, wait_mtx_, threads,
                 arg, submitted, done, late, callbacks>>

ClearEmpty(t) ==
  /\ Call(t, "clear_empty", "none")
  /\ tasks_' = <<>>
  /\ tasks_mtx_' = None
  /\ UNCHANGED <<active_task_count_, is_shutting_down_, worker_mtx_,
                 wait_mtx_, threads, arg, history>>

------------------------------------------------------------------------------
(* wait: block on wait_cv_ under wait_mtx_ until the counter reads zero.    *)
(* Main calls it after run() only: nobody else could start the workers.     *)

WaitBegin(t) ==
  /\ MayCall(t, "wait")
  /\ t = Main => Running
  /\ call' = [call EXCEPT ![t] = "wait_lock"]
  /\ UNCHANGED <<queue, is_shutting_down_, locks, threads, arg, history>>

(* Takes wait_mtx_ and finds the predicate true: wait returns. *)
WaitReturn(t) ==
  /\ Call(t, "wait_lock", "none")
  /\ wait_mtx_ = None
  /\ is_idle
  /\ UNCHANGED <<queue, is_shutting_down_, locks, threads, arg, history>>

(* Takes wait_mtx_ and finds the predicate false ... *)
WaitEval(t) ==
  /\ Call(t, "wait_lock", "wait_block")
  /\ wait_mtx_ = None
  /\ ~is_idle
  /\ wait_mtx_' = t
  /\ UNCHANGED <<queue, is_shutting_down_, worker_mtx_, tasks_mtx_, threads,
                 arg, history>>

(* ... then blocks on wait_cv_ and releases wait_mtx_ in one step. *)
WaitBlock(t) ==
  /\ Call(t, "wait_block", "wait_blocked")
  /\ wait_mtx_' = None
  /\ UNCHANGED <<queue, is_shutting_down_, worker_mtx_, tasks_mtx_, threads,
                 arg, history>>

------------------------------------------------------------------------------
(* run: spawns thread_count_ workers, one after the other.                  *)

RunBegin ==
  /\ call[Main] = "none"
  /\ Cardinality(Unborn) >= ThreadCount
  /\ LateSubmit \/ \A c \in Clients : call[c] \notin AddStates
  /\ call' = [call EXCEPT ![Main] = "run_spawn"]
  /\ toSpawn' = ThreadCount
  /\ UNCHANGED <<queue, is_shutting_down_, locks, wpc, held, arg, history>>

Spawn(w) ==
  /\ call[Main] = "run_spawn"
  /\ toSpawn > 0
  /\ wpc[w] = "unborn"
  /\ wpc' = [wpc EXCEPT ![w] = "loop"]
  /\ toSpawn' = toSpawn - 1
  /\ UNCHANGED <<queue, is_shutting_down_, locks, held, calls, history>>

RunEnd ==
  /\ toSpawn = 0
  /\ Call(Main, "run_spawn", "none")
  /\ UNCHANGED <<queue, is_shutting_down_, locks, threads, arg, history>>

------------------------------------------------------------------------------
(* The destructor, called by Main when no other client uses the pool: set   *)
(* the flag under worker_mtx_, notify every worker, join them.              *)

DestroyBegin ==
  /\ \A c \in Clients : call[c] = "none"
  /\ call' = [call EXCEPT ![Main] = "dtor_flag"]
  /\ UNCHANGED <<queue, is_shutting_down_, locks, threads, arg, history>>

DestroyFlag ==
  /\ Call(Main, "dtor_flag", "dtor_notify")
  /\ worker_mtx_ = None
  /\ is_shutting_down_' = TRUE
  /\ UNCHANGED <<queue, locks, threads, arg, history>>

DestroyNotify ==
  /\ Call(Main, "dtor_notify", "dtor_join")
  /\ wpc' = [w \in Workers |-> IF w \in Asleep THEN "relock" ELSE wpc[w]]
  /\ UNCHANGED <<queue, is_shutting_down_, locks, held, toSpawn, arg, history>>

DestroyJoin ==
  /\ Call(Main, "dtor_join", "gone")
  /\ \A w \in Workers : wpc[w] \in {"unborn", "exited"}
  /\ UNCHANGED <<queue, is_shutting_down_, locks, threads, arg, history>>

------------------------------------------------------------------------------
(* The worker loop of spawn_thread and execute_task.                        *)
(*                                                                          *)
(* is_shutting_down_ is read twice without worker_mtx_, at the head of the  *)
(* loop and after the wait, while the destructor may be writing it: a data  *)
(* race.  The outcomes a build can produce are the old value and the new    *)
(* one, so at these two reads a worker may leave when the flag is set and   *)
(* may always go on as if it were not.                                      *)

WorkerLeave(w) ==
  /\ is_shutting_down_
  /\ \/ Go(w, "loop", "exited")
     \/ Go(w, "check", "exited")
  /\ UNCHANGED <<queue, is_shutting_down_, locks, held, toSpawn, calls,
                 history>>

(* Takes worker_mtx_, on the way into worker_cv_.wait or back from it. *)
WorkerLock(w) ==
  /\ \/ Go(w, "loop", "eval")
     \/ Go(w, "relock", "eval")
  /\ worker_mtx_ = None
  /\ worker_mtx_' = w
  /\ UNCHANGED <<queue, is_shutting_down_, tasks_mtx_, wait_mtx_, held,
                 toSpawn, calls, history>>

(* The predicate !empty() || is_shutting_down_, read under worker_mtx_.  If *)
(* it finds the flag set, so does the check that follows and the worker     *)
(* returns.                                                                 *)
WorkerEval(w) ==
  /\ tasks_mtx_ = None
  /\ \/ is_shutting_down_ /\ Go(w, "eval", "exited") /\ worker_mtx_' = None
     \/ ~is_shutting_down_ /\ ~empty /\ Go(w, "eval", "check") /\ worker_mtx_' = None
     \/ ~is_shutting_down_ /\ empty /\ Go(w, "eval", "block") /\ UNCHANGED worker_mtx_
  /\ UNCHANGED <<queue, is_shutting_down_, tasks_mtx_, wait_mtx_, held,
                 toSpawn, calls, history>>

WorkerBlock(w) ==
  /\ Go(w, "block", "asleep")
  /\ worker_mtx_' = None
  /\ UNCHANGED <<queue, is_shutting_down_, tasks_mtx_, wait_mtx_, held,
                 toSpawn, calls, history>>

(* execute_task takes the oldest job; the queue may be empty again. *)
WorkerPop(w) ==
  /\ tasks_mtx_ = None
  /\ IF empty
     THEN /\ Go(w, "check", "loop")
          /\ UNCHANGED <<tasks_, held, late>>
     ELSE /\ Go(w, "check", "body")
          /\ held' = [held EXCEPT ![w] = Head(tasks_)]
          /\ tasks_' = Tail(tasks_)
          /\ late' = [late EXCEPT ![w] = IF is_shutting_down_ THEN @ + 1 ELSE @]
  /\ UNCHANGED <<active_task_count_, is_shutting_down_, locks, toSpawn,
                 calls, submitted, done, cleared, callbacks>>

(* task_to_do() returns. *)
WorkerFinish(w) ==
  /\ Go(w, "body", "discount")
  /\ done' = done \cup {held[w]}
  /\ held' = [held EXCEPT ![w] = None]
  /\ UNCHANGED <<queue, is_shutting_down_, locks, toSpawn, calls, submitted,
                 cleared, late, callbacks>>

WorkerDiscount(w) ==
  /\ Go(w, "discount", "load")
  /\ wait_mtx_ = None
  /\ wait_mtx_' = w
  /\ active_task_count_' = active_task_count_ - 1
  /\ UNCHANGED <<tasks_, is_shutting_down_, worker_mtx_, tasks_mtx_, held,
                 toSpawn, calls, history>>

(* The counter is loaded again: others may have moved it since fetch_sub. *)
WorkerLoad(w) ==
  /\ \/ is_idle /\ HasCallback /\ Go(w, "load", "callback") /\ UNCHANGED wait_mtx_
     \/ is_idle /\ ~HasCallback /\ Go(w, "load", "notify") /\ UNCHANGED wait_mtx_
     \/ ~is_idle /\ Go(w, "load", "loop") /\ wait_mtx_' = None
  /\ UNCHANGED <<queue, is_shutting_down_, worker_mtx_, tasks_mtx_, held,
                 toSpawn, calls, history>>

(* on_complete_() returns. *)
WorkerCallback(w) ==
  /\ Go(w, "callback", "notify")
  /\ callbacks' = callbacks + 1
  /\ UNCHANGED <<queue, is_shutting_down_, locks, held, toSpawn, calls,
                 submitted, done, cleared, late>>

(* wait_cv_.notify_all(), and wait_mtx_ is released. *)
WorkerNotify(w) ==
  /\ wpc[w] = "notify"
  /\ wpc' = [wpc EXCEPT ![w] = "loop"]
  /\ call' = [t \in Threads |->
                IF call[t] = "wait_blocked" THEN "wait_lock" ELSE call[t]]
  /\ wait_mtx_' = None
  /\ UNCHANGED <<queue, is_shutting_down_, worker_mtx_, tasks_mtx_, held,
                 toSpawn, arg, history>>

(* Either condition variable may wake a thread up for no reason. *)
SpuriousWakeup ==
  /\ Spurious
  /\ \/ \E w \in Asleep : wpc' = [wpc EXCEPT ![w] = "relock"] /\ UNCHANGED call
     \/ \E t \in Threads : Call(t, "wait_blocked", "wait_lock") /\ UNCHANGED wpc
  /\ UNCHANGED <<queue, is_shutting_down_, locks, held, toSpawn, arg, history>>

(* The pool has been destroyed and the program goes on without it. *)
Destroyed == call[Main] = "gone" /\ UNCHANGED vars

------------------------------------------------------------------------------

CallBegin(t) == (\E j \in Jobs : AddBegin(t, j)) \/ ClearBegin(t) \/ WaitBegin(t)

CallStep(t) ==
  \/ AddLock(t) \/ AddEnqueue(t) \/ AddCount(t) \/ AddNotify(t)
  \/ ClearCount(t) \/ ClearEmpty(t)
  \/ WaitReturn(t) \/ WaitEval(t) \/ WaitBlock(t)

MainStep ==
  \/ \E w \in Workers : Spawn(w)
  \/ RunEnd
  \/ DestroyFlag \/ DestroyNotify \/ DestroyJoin

WorkerStep(w) ==
  \/ WorkerLeave(w) \/ WorkerLock(w) \/ WorkerEval(w) \/ WorkerBlock(w)
  \/ WorkerPop(w) \/ WorkerFinish(w) \/ WorkerDiscount(w) \/ WorkerLoad(w)
  \/ WorkerCallback(w) \/ WorkerNotify(w)

Next ==
  \/ \E t \in Threads : CallBegin(t) \/ CallStep(t)
  \/ RunBegin \/ DestroyBegin \/ MainStep
  \/ \E w \in Workers : WorkerStep(w)
  \/ SpuriousWakeup
  \/ Destroyed

Spec == Init /\ [][Next]_vars

(* A thread that can take its next step eventually does: threads are        *)
(* scheduled, jobs and the callback return, and a mutex that stays free is  *)
(* granted.  Nobody is obliged to begin a call.                             *)
Fairness ==
  /\ \A w \in Workers : WF_vars(WorkerStep(w))
  /\ \A t \in Threads : WF_vars(CallStep(t))
  /\ WF_vars(MainStep)

FairSpec == Spec /\ Fairness

(* The same for threads that are granted a mutex that is free again and     *)
(* again, which std::mutex does not promise: for runs in which a client may *)
(* call clear_queued_tasks for ever.                                        *)
StrongFairness ==
  /\ \A w \in Workers : SF_vars(WorkerStep(w))
  /\ \A t \in Threads : SF_vars(CallStep(t))
  /\ SF_vars(MainStep)

StrongFairSpec == Spec /\ StrongFairness

------------------------------------------------------------------------------
(* What the state means. *)

(* The queue as seen by whoever takes tasks_mtx_ next: a job counts from    *)
(* fetch_add on, a cleared one is gone from fetch_sub on.                   *)
Pending ==
  IF \E t \in Threads : call[t] = "add_count"
  THEN SubSeq(tasks_, 1, Len(tasks_) - 1)
  ELSE IF \E t \in Threads : call[t] = "clear_empty" THEN <<>> ELSE tasks_

PendingJobs == {Pending[i] : i \in DOMAIN Pending}

(* Workers whose job is taken from the queue and not yet discounted. *)
Busy == {w \in Workers : wpc[w] \in {"body", "discount"}}

(* Workers that look at the queue again before they sleep. *)
Seeking == {w \in Workers : wpc[w] \in {"loop", "relock", "eval", "check"}}

(* Threads that have queued a job and have still to notify a worker. *)
Notifying == {t \in Threads : call[t] \in {"add_count", "add_notify"}}

(* Workers between their fetch_sub and the end of what follows from it. *)
Completing == {w \in Workers : wpc[w] \in {"load", "callback", "notify"}}

(* Jobs handed to an add_task that has not counted them, jobs in execution. *)
Arriving == {arg[t] : t \in Threads} \ {None}
InHand == {held[w] : w \in Workers} \ {None}

(* A step in which a call of wait by t returns. *)
WaitReturned(t) == call[t] = "wait_lock" /\ call'[t] = "none"

------------------------------------------------------------------------------
(* Safety. *)

(* Every variable has its type; in particular the counter never goes below  *)
(* zero, which the atomic<int> of active_task_count_ would allow.           *)
TypeOK ==
  /\ tasks_ \in Seq(Jobs)
  /\ active_task_count_ \in Nat
  /\ is_shutting_down_ \in BOOLEAN
  /\ worker_mtx_ \in Threads \cup {None}
  /\ tasks_mtx_ \in Threads \cup {None}
  /\ wait_mtx_ \in Threads \cup {None}
  /\ wpc \in [Workers -> WorkerStates]
  /\ held \in [Workers -> Jobs \cup {None}]
  /\ call \in [Threads -> CallStates]
  /\ arg \in [Threads -> Jobs \cup {None}]
  /\ toSpawn \in Nat
  /\ submitted \subseteq Jobs
  /\ done \subseteq Jobs
  /\ cleared \subseteq Jobs
  /\ late \in [Workers -> Nat]
  /\ callbacks \in Nat

(* Who owns each mutex follows from where the threads are, and a worker is  *)
(* inside a pool method only while its job or the callback runs.            *)
OwnershipInv ==
  /\ \A t \in Threads :
       /\ worker_mtx_ = t <=>
            \/ call[t] \in {"add_enqueue", "add_count"}
            \/ t \in Workers /\ wpc[t] \in {"eval", "block"}
       /\ tasks_mtx_ = t <=> call[t] \in {"add_count", "clear_empty"}
       /\ wait_mtx_ = t <=>
            \/ call[t] = "wait_block"
            \/ t \in Workers /\ wpc[t] \in {"load", "callback", "notify"}
       /\ arg[t] # None <=> call[t] \in {"add_lock", "add_enqueue", "add_count"}
       /\ t # Main => call[t] \notin DestructorStates \cup {"run_spawn"}
  /\ \A w \in Workers :
       /\ held[w] # None <=> wpc[w] = "body"
       /\ call[w] # "none" => wpc[w] \in {"body", "callback"}
       /\ call[w] = "wait_block" => wpc[w] = "body"
  /\ \A t \in Threads : call[t] = "add_count" =>
       tasks_ # <<>> /\ tasks_[Len(tasks_)] = arg[t]

(* active_task_count_ is the number of queued jobs plus the number of jobs  *)
(* taken and not discounted, at every point where somebody may read it,     *)
(* although add_task and clear_queued_tasks change queue and counter in two *)
(* steps and execute_task pops under one mutex and discounts under another. *)
CountAccountsForWork ==
  active_task_count_ = Len(Pending) + Cardinality(Busy)

(* A submitted job is in exactly one place, once: on its way in, queued, in *)
(* the hands of one worker, done, or cleared.                               *)
NoJobLostOrDuplicated ==
  LET place == <<Arriving, PendingJobs, InHand, done, cleared>>
  IN /\ submitted = UNION {place[i] : i \in DOMAIN place}
     /\ \A i, k \in DOMAIN place : i # k => place[i] \cap place[k] = {}
     /\ \A i, k \in DOMAIN Pending : Pending[i] = Pending[k] => i = k
     /\ \A t, u \in Threads : arg[t] = arg[u] /\ arg[t] # None => t = u
     /\ \A v, w \in Workers : held[v] = held[w] /\ held[v] # None => v = w

(* No wakeup of a worker is lost: while some worker sleeps, each queued job *)
(* has a worker on its way to look at the queue or an add_task that has     *)
(* still to notify.                                                         *)
NoStarvedJob ==
  Asleep # {} /\ ~is_shutting_down_ =>
    Len(tasks_) <= Cardinality(Seeking) + Cardinality(Notifying)

(* Why NoStarvedJob holds when the first worker falls asleep: between the   *)
(* look at the queue and the sleep nothing is queued.                       *)
BlockedOnEmptyInv == \A w \in Workers : wpc[w] = "block" => empty

(* The destructor has set the flag when it is past dtor_flag, nobody else's *)
(* call is open while it runs, and no worker is left when it has ended.     *)
DestructorInv ==
  /\ is_shutting_down_ <=> call[Main] \in DestructorStates \ {"dtor_flag"}
  /\ call[Main] \in DestructorStates => \A c \in Clients \ {Main} : call[c] = "none"
  /\ call[Main] = "gone" => \A w \in Workers : wpc[w] \in {"unborn", "exited"}

(* Why AtMostOneLateStart holds: past the wait with the flag down, a worker *)
(* has taken no late job.                                                   *)
LateStartInv ==
  \A w \in Workers :
    /\ late[w] <= 1
    /\ wpc[w] = "check" \/ ~is_shutting_down_ => late[w] = 0

(* The invariant of the pool as a whole, which the proofs rest on. *)
PoolInv ==
  /\ TypeOK
  /\ OwnershipInv
  /\ CountAccountsForWork
  /\ NoJobLostOrDuplicated
  /\ NoStarvedJob
  /\ BlockedOnEmptyInv
  /\ DestructorInv
  /\ LateStartInv

(* The destructor stops the pool: each worker takes at most one more job    *)
(* once the flag is set, however long the queue is.                         *)
AtMostOneLateStart == \A w \in Workers : late[w] <= 1

(* A batch submitted before run() has on_complete_ called once, and the     *)
(* call is over whenever all the workers have left execute_task again.      *)
OnCompleteOncePerBatch ==
  /\ callbacks <= 1
  /\ done # {} /\ done = submitted /\ Busy = {} /\ Completing = {} => callbacks = 1

(* When wait returns, every job accepted by then is done or was cleared. *)
WaitReturnsWhenDrained ==
  [][\A t \in Threads : WaitReturned(t) => submitted \ Arriving \subseteq done \cup cleared]_vars

(* When wait returns, no worker is between taking the counter to zero and   *)
(* the end of on_complete_: the callback never overlaps what follows wait.  *)
WaitOutlastsCallback ==
  [][\A t \in Threads : WaitReturned(t) => Completing = {}]_vars

(* The pool implements the abstract one. *)
JP == INSTANCE JobPool WITH
        Capacity <- Cardinality(Workers),
        pending <- Pending,
        running <- InHand,
        waiting <- {t \in Threads : call[t] \in WaitStates},
        phase <- IF call[Main] = "gone" THEN "gone"
                 ELSE IF is_shutting_down_ THEN "closing" ELSE "open"
ImplementsJobPool == JP!Spec

------------------------------------------------------------------------------
(* Liveness. *)

(* A submitted job is executed or cleared once run() has started a worker,  *)
(* unless the pool is destroyed first.                                      *)
JobEventuallyRuns ==
  \A j \in Jobs :
    (j \in submitted /\ Running) ~> (j \in done \cup cleared \/ is_shutting_down_)

(* A call of wait returns. *)
WaitReturns ==
  \A t \in Threads : (call[t] \in WaitStates /\ Running) ~> (call[t] = "none")

(* The destructor returns, whatever is queued. *)
DestructorReturns == (call[Main] = "dtor_flag") ~> (call[Main] = "gone")
==============================================================================
