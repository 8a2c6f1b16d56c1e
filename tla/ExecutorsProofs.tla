--------------------------- MODULE ExecutorsProofs ---------------------------
(***************************************************************************)
(* Proofs about Executors, for any acyclic graph, any number of executors, *)
(* of calls of run() and of moves.                                         *)
(***************************************************************************)
EXTENDS Executors, TaskGraphProofs

(* What the proofs use of the constants. *)
LEMMA Constants ==
  /\ None \notin Executors /\ None \notin Pools /\ None \notin Tasks
  /\ ThreadCount \in Nat /\ MaxRounds \in Nat
  /\ Pools = 1 .. MaxRounds
  /\ Jobs = Tasks \X Pools
BY ExecutorsAssumption, TaskGraphAssumption DEF Pools, Jobs

(* A pool that run() makes is the first that has not been made.             *)
LEMMA NewPoolIsNext ==
  ASSUME TypeOK, PointersInv, rounds < MaxRounds
  PROVE  NewPool \in Unborn /\ NewPool <= rounds + 1
<1>1. rounds + 1 \in Unborn /\ Unborn \in SUBSET Nat
  BY Constants DEF TypeOK, PointersInv, PointerOK, Unborn
<1>2. PICK p \in Unborn : \A q \in Unborn : p <= q
  BY <1>1, LeastNumber
<1>3. NewPool \in Unborn /\ \A q \in Unborn : NewPool <= q
  BY <1>2 DEF NewPool
<1>. QED
  BY <1>1, <1>3

(* The types, of what a step leaves alone. *)
ExecutorTypes == DOMAIN executor = Executors /\ \A e \in Executors : ExecutorOK(e)
PoolTypes == DOMAIN pool = Pools /\ \A p \in Pools : PoolOK(p)
EdgeTypes ==
  /\ published \subseteq entered
  /\ \A j \in entered : \E p \in Pools : j \in pool[p].running
OwnerTypes == owner \in [Jobs -> Executors \cup {None}]

(* What a step leaves alone keeps its type. *)
LEMMA SameTypes ==
  ASSUME TypeOK
  PROVE  /\ executor' = executor => ExecutorTypes'
         /\ main' = main => MainOK'
         /\ pool' = pool => PoolTypes'
         /\ rounds' = rounds => rounds' \in 0 .. MaxRounds
         /\ /\ UNCHANGED <<entered, published>>
            /\ \A p \in Pools : pool[p].running \subseteq pool'[p].running
            => EdgeTypes'
         /\ owner' = owner => OwnerTypes'
<1>1. ASSUME executor' = executor PROVE ExecutorTypes'
  BY <1>1 DEF TypeOK, ExecutorOK, ExecutorTypes, Live, PoolOf
<1>2. ASSUME pool' = pool PROVE PoolTypes'
  BY <1>2 DEF TypeOK, PoolOK, PoolTypes
<1>3. ASSUME main' = main PROVE MainOK'
  BY <1>3 DEF TypeOK, MainOK
<1>. QED
  BY <1>1, <1>2, <1>3 DEF TypeOK, EdgeTypes, OwnerTypes

(* One pool changes; what becomes of its members. *)
OnlyPool(p) == DOMAIN pool' = DOMAIN pool /\ \A q \in Pools \ {p} : pool'[q] = pool[q]
Phase(p, phase) == DOMAIN pool'[p] = DOMAIN pool[p] /\ pool'[p].phase = phase
Workers(p, workers, batches) ==
  pool'[p].workers = workers /\ pool'[p].batches = batches
Work(p, pending, running, done, cleared) ==
  /\ pool'[p].pending = pending
  /\ pool'[p].running = running
  /\ pool'[p].done = done
  /\ pool'[p].cleared = cleared

(* A pool is shut down, or disappears. *)
LEMMA SetPhase ==
  ASSUME TypeOK, NEW p \in Pools, NEW phase,
         pool' = [pool EXCEPT ![p].phase = phase]
  PROVE  /\ OnlyPool(p)
         /\ Phase(p, phase)
         /\ Workers(p, pool[p].workers, pool[p].batches)
         /\ Work(p, pool[p].pending, pool[p].running,
                 pool[p].done, pool[p].cleared)
<1>1. DOMAIN pool = Pools /\ DOMAIN pool[p] = DOMAIN NoPool
  BY DEF TypeOK, PoolOK
<1>2. OnlyPool(p) /\ pool'[p] = [pool[p] EXCEPT !.phase = phase]
  BY <1>1 DEF OnlyPool
<1>. QED
  BY <1>1, <1>2 DEF Phase, Workers, Work, NoPool

(* run() makes a pool, or uses the one there is, ... *)
LEMMA OpenPool ==
  ASSUME TypeOK, NEW p \in Pools,
         pool' = [pool EXCEPT ![p].phase = "open", ![p].batches = @ + 1]
  PROVE  /\ OnlyPool(p)
         /\ Phase(p, "open")
         /\ Workers(p, pool[p].workers, pool[p].batches + 1)
         /\ Work(p, pool[p].pending, pool[p].running,
                 pool[p].done, pool[p].cleared)
<1>1. DOMAIN pool = Pools /\ DOMAIN pool[p] = DOMAIN NoPool
  BY DEF TypeOK, PoolOK
<1>2. OnlyPool(p) /\ pool'[p] = [pool[p] EXCEPT !.phase = "open", !.batches = @ + 1]
  BY <1>1 DEF OnlyPool
<1>. QED
  BY <1>1, <1>2 DEF Phase, Workers, Work, NoPool

(* ... adds jobs to it, ... *)
LEMMA AddJob ==
  ASSUME TypeOK, NEW p \in Pools, NEW j,
         pool' = [pool EXCEPT ![p].pending = Append(@, j)]
  PROVE  /\ OnlyPool(p)
         /\ Phase(p, pool[p].phase)
         /\ Workers(p, pool[p].workers, pool[p].batches)
         /\ Work(p, Append(pool[p].pending, j), pool[p].running,
                 pool[p].done, pool[p].cleared)
<1>1. DOMAIN pool = Pools /\ DOMAIN pool[p] = DOMAIN NoPool
  BY DEF TypeOK, PoolOK
<1>2. OnlyPool(p) /\ pool'[p] = [pool[p] EXCEPT !.pending = Append(@, j)]
  BY <1>1 DEF OnlyPool
<1>. QED
  BY <1>1, <1>2 DEF Phase, Workers, Work, NoPool

(* ... and workers. *)
LEMMA AddWorkers ==
  ASSUME TypeOK, NEW p \in Pools,
         pool' = [pool EXCEPT ![p].workers = @ + ThreadCount]
  PROVE  /\ OnlyPool(p)
         /\ Phase(p, pool[p].phase)
         /\ Workers(p, pool[p].workers + ThreadCount, pool[p].batches)
         /\ Work(p, pool[p].pending, pool[p].running,
                 pool[p].done, pool[p].cleared)
<1>1. DOMAIN pool = Pools /\ DOMAIN pool[p] = DOMAIN NoPool
  BY DEF TypeOK, PoolOK
<1>2. OnlyPool(p) /\ pool'[p] = [pool[p] EXCEPT !.workers = @ + ThreadCount]
  BY <1>1 DEF OnlyPool
<1>. QED
  BY <1>1, <1>2 DEF Phase, Workers, Work, NoPool

(* cancel() clears the queue. *)
LEMMA ClearJobs ==
  ASSUME TypeOK, NEW p \in Pools,
         pool' = [pool EXCEPT ![p].cleared = @ \cup Queued(p), ![p].pending = <<>>]
  PROVE  /\ OnlyPool(p)
         /\ Phase(p, pool[p].phase)
         /\ Workers(p, pool[p].workers, pool[p].batches)
         /\ Work(p, <<>>, pool[p].running,
                 pool[p].done, pool[p].cleared \cup Queued(p))
<1>1. DOMAIN pool = Pools /\ DOMAIN pool[p] = DOMAIN NoPool
  BY DEF TypeOK, PoolOK
<1>2. OnlyPool(p) /\ pool'[p] = [pool[p] EXCEPT !.cleared = @ \cup Queued(p), !.pending = <<>>]
  BY <1>1 DEF OnlyPool
<1>. QED
  BY <1>1, <1>2 DEF Phase, Workers, Work, NoPool

(* A worker takes the oldest job, ... *)
LEMMA StartJob ==
  ASSUME TypeOK, NEW p \in Pools,
         pool' = [pool EXCEPT ![p].running = @ \cup {Head(pool[p].pending)}, ![p].pending = Tail(@)]
  PROVE  /\ OnlyPool(p)
         /\ Phase(p, pool[p].phase)
         /\ Workers(p, pool[p].workers, pool[p].batches)
         /\ Work(p, Tail(pool[p].pending), pool[p].running \cup {Head(pool[p].pending)},
                 pool[p].done, pool[p].cleared)
<1>1. DOMAIN pool = Pools /\ DOMAIN pool[p] = DOMAIN NoPool
  BY DEF TypeOK, PoolOK
<1>2. OnlyPool(p) /\ pool'[p] = [pool[p] EXCEPT !.running = @ \cup {Head(pool[p].pending)}, !.pending = Tail(@)]
  BY <1>1 DEF OnlyPool
<1>. QED
  BY <1>1, <1>2 DEF Phase, Workers, Work, NoPool

(* ... and is through with it. *)
LEMMA EndJob ==
  ASSUME TypeOK, NEW p \in Pools, NEW j,
         pool' = [pool EXCEPT ![p].running = @ \ {j}, ![p].done = @ \cup {j}]
  PROVE  /\ OnlyPool(p)
         /\ Phase(p, pool[p].phase)
         /\ Workers(p, pool[p].workers, pool[p].batches)
         /\ Work(p, pool[p].pending, pool[p].running \ {j},
                 pool[p].done \cup {j}, pool[p].cleared)
<1>1. DOMAIN pool = Pools /\ DOMAIN pool[p] = DOMAIN NoPool
  BY DEF TypeOK, PoolOK
<1>2. OnlyPool(p) /\ pool'[p] = [pool[p] EXCEPT !.running = @ \ {j}, !.done = @ \cup {j}]
  BY <1>1 DEF OnlyPool
<1>. QED
  BY <1>1, <1>2 DEF Phase, Workers, Work, NoPool

(* A pool whose new members have the right types. *)
LEMMA PoolStaysOK ==
  ASSUME TypeOK, NEW p \in Pools, OnlyPool(p), PoolOK(p)'
  PROVE  PoolTypes'
<1>1. ASSUME NEW q \in Pools \ {p} PROVE PoolOK(q)'
  BY <1>1 DEF TypeOK, PoolOK, OnlyPool
<1>. QED
  BY <1>1 DEF PoolTypes, OnlyPool, TypeOK

(* What TypeOK says of a pool. *)
LEMMA PoolIsOK ==
  ASSUME TypeOK, NEW p \in Pools
  PROVE  /\ pool[p].phase \in {"unborn", "open", "closing", "gone"}
         /\ pool[p].workers \in Nat /\ pool[p].batches \in Nat
         /\ pool[p].pending \in Seq(Jobs)
         /\ pool[p].running \in SUBSET Jobs /\ IsFiniteSet(pool[p].running)
         /\ pool[p].done \in SUBSET Jobs /\ pool[p].cleared \in SUBSET Jobs
         /\ Queued(p) \in SUBSET Jobs
BY DEF TypeOK, PoolOK, Queued, Range

(* The pool a call of cancel clears has been made and has not disappeared.  *)
LEMMA ReachedPool ==
  ASSUME TypeOK, CallInv, PointersInv, NEW e \in Executors,
         NEW p \in Reached(e) \ {None}
  PROVE  p \in Pools /\ pool[p].phase \in {"open", "closing"}
<1>1. CASE p = PoolOf(e)
  BY <1>1 DEF TypeOK, ExecutorOK, PoolOf, PointersInv, PointerOK
<1>2. CASE p = main.old
  BY <1>2 DEF TypeOK, MainOK, CallInv
<1>. QED
  BY <1>1, <1>2 DEF Reached

(* What Submit submits is a job. *)
LEMMA SubmittedJob ==
  ASSUME TypeOK, CallInv, PointersInv, Submit
  PROVE  <<executor[main.this].tasks_to_run_[main.next], rounds>> \in Jobs
<1>1. main.this \in Executors /\ PoolOf(main.this) \in Pools
  BY DEF Submit, CallInv, TypeOK, ExecutorOK, PoolOf
<1>2. executor[main.this].tasks_to_run_[main.next] \in Tasks
  BY <1>1 DEF Submit, TypeOK, ExecutorOK, MainOK
<1>3. rounds \in Pools
  <2>1. pool[PoolOf(main.this)].phase = "open"
    BY <1>1, Constants DEF Submit, PointersInv, PointerOK, BeingDestroyed
  <2>2. ~ PoolOf(main.this) > rounds
    BY <1>1, <2>1 DEF PointersInv, PointerOK
  <2>. QED
    BY <1>1, <2>2, Constants DEF TypeOK
<1>. QED
  BY <1>2, <1>3, Constants

(* A step that leaves Main in the call it is in; in wait() Main may fall    *)
(* asleep and wake up.                                                      *)
Waiting(op) == op \in {"wait", "asleep"}
SameCall ==
  /\ DOMAIN main' = DOMAIN main
  /\ main'.this = main.this /\ main'.other = main.other
  /\ main'.old = main.old /\ main'.next = main.next
  /\ main'.op = main.op \/ (Waiting(main.op) /\ Waiting(main'.op))
  /\ main'.unheard \in BOOLEAN
  /\ main'.unheard => main'.op = "asleep"

(* The workers and cancel leave Main in its call, as the sleep in wait()    *)
(* does.                                                                    *)
LEMMA SameCallSteps ==
  ASSUME TypeOK, CallInv
  PROVE  /\ main' = main => SameCall
         /\ \A e : cancel(e) => SameCall
         /\ \A p, j : JobEnd(p, j) => SameCall
         /\ WaitBlock \/ WaitSpurious => SameCall
<1> USE DEF SameCall, Waiting
<1>1. /\ DOMAIN main = {"op", "this", "other", "old", "next", "unheard"}
      /\ main.unheard \in BOOLEAN
      /\ main.unheard => main.op = "asleep"
  BY DEF TypeOK, MainOK, Idle, CallInv
<1>2. main' = main => SameCall
  BY <1>1
<1>3. main.op = "asleep" /\ main' = Woken => SameCall
  BY <1>1 DEF Woken
<1>4. WaitBlock => SameCall
  BY <1>1 DEF WaitBlock
<1>5. ASSUME NEW e, cancel(e) PROVE SameCall
  <2>1. PICK p : main' = [main EXCEPT !.unheard =
                            @ \/ (Asleep(p) /\ pool[p].running = {})]
    BY <1>5 DEF cancel
  <2>2. /\ DOMAIN main' = DOMAIN main /\ main'.op = main.op
        /\ main'.this = main.this /\ main'.other = main.other
        /\ main'.old = main.old /\ main'.next = main.next
        /\ main'.unheard = (main.unheard \/ (Asleep(p) /\ pool[p].running = {}))
    BY <1>1, <2>1
  <2>3. main'.unheard \in BOOLEAN /\ (main'.unheard => main.op = "asleep")
    BY <1>1, <2>2 DEF Asleep
  <2>. QED
    BY <2>2, <2>3
<1>6. ASSUME NEW p, NEW j, JobEnd(p, j) PROVE SameCall
  BY <1>2, <1>3, <1>6 DEF JobEnd, Asleep
<1>. QED
  BY <1>2, <1>3, <1>4, <1>5, <1>6 DEF WaitSpurious

(* Every step keeps the types of the pools. *)
LEMMA PoolTypesStep ==
  ASSUME TypeOK, CallInv, PointersInv, [Next]_vars
  PROVE  PoolTypes'
<1>1. ASSUME NEW p \in Pools, NEW phase \in {"open", "closing", "gone"},
             pool' = [pool EXCEPT ![p].phase = phase]
      PROVE  PoolTypes'
  <2>1. OnlyPool(p) /\ PoolOK(p)'
    BY <1>1, SetPhase, PoolIsOK DEF TypeOK, PoolOK, Phase, Workers, Work
  <2>. QED
    BY <2>1, PoolStaysOK
<1>2. ASSUME NEW e \in Executors, RunBegin(e) PROVE PoolTypes'
  <2>1. PICK p \in Pools : pool' = [pool EXCEPT ![p].phase = "open", ![p].batches = @ + 1]
    BY <1>2 DEF RunBegin
  <2>2. OnlyPool(p) /\ PoolOK(p)'
    <3>1. /\ OnlyPool(p)
          /\ Phase(p, "open")
          /\ Workers(p, pool[p].workers, pool[p].batches + 1)
          /\ Work(p, pool[p].pending, pool[p].running,
                  pool[p].done, pool[p].cleared)
      BY <2>1, OpenPool
    <3>2. PoolOK(p)
      BY PoolIsOK DEF TypeOK
    <3>. QED
      BY <3>1, <3>2 DEF PoolOK, Phase, Workers, Work
  <2>. QED
    BY <2>2, PoolStaysOK
<1>3. ASSUME NEW e \in Executors, cancel(e) PROVE PoolTypes'
  <2>1. PICK p \in Reached(e) \ {None} :
          pool' = [pool EXCEPT ![p].cleared = @ \cup Queued(p), ![p].pending = <<>>]
    BY <1>3 DEF cancel
  <2>2. p \in Pools /\ <<>> \in Seq(Jobs) /\ pool[p].cleared \cup Queued(p) \in SUBSET Jobs
    BY <2>1, ReachedPool, PoolIsOK
  <2>3. OnlyPool(p) /\ PoolOK(p)'
    <3>1. /\ OnlyPool(p)
          /\ Phase(p, pool[p].phase)
          /\ Workers(p, pool[p].workers, pool[p].batches)
          /\ Work(p, <<>>, pool[p].running,
                  pool[p].done, pool[p].cleared \cup Queued(p))
      BY <2>1, <2>2, ClearJobs
    <3>2. PoolOK(p)
      BY <2>2, PoolIsOK DEF TypeOK
    <3>. QED
      BY <2>1, <2>2, <3>1, <3>2 DEF PoolOK, Phase, Workers, Work
  <2>. QED
    BY <2>2, <2>3, PoolStaysOK
<1>4. ASSUME Submit PROVE PoolTypes'
  <2>1. PICK p \in Pools, job \in Jobs : pool' = [pool EXCEPT ![p].pending = Append(@, job)]
    BY <1>4, SubmittedJob DEF Submit, CallInv, TypeOK, ExecutorOK, PoolOf
  <2>2. Append(pool[p].pending, job) \in Seq(Jobs)
    BY AppendProperties, PoolIsOK
  <2>3. OnlyPool(p) /\ PoolOK(p)'
    <3>1. /\ OnlyPool(p)
          /\ Phase(p, pool[p].phase)
          /\ Workers(p, pool[p].workers, pool[p].batches)
          /\ Work(p, Append(pool[p].pending, job), pool[p].running,
                  pool[p].done, pool[p].cleared)
      BY <2>1, AddJob
    <3>2. PoolOK(p)
      BY <2>1, PoolIsOK DEF TypeOK
    <3>. QED
      BY <2>2, <3>1, <3>2 DEF PoolOK, Phase, Workers, Work
  <2>. QED
    BY <2>1, <2>3, PoolStaysOK
<1>5. ASSUME RunEnd PROVE PoolTypes'
  <2>1. PICK p \in Pools : pool' = [pool EXCEPT ![p].workers = @ + ThreadCount]
    BY <1>5 DEF RunEnd, CallInv, TypeOK, ExecutorOK, PoolOf
  <2>2. pool[p].workers + ThreadCount \in Nat
    BY <2>1, PoolIsOK, Constants
  <2>3. OnlyPool(p) /\ PoolOK(p)'
    <3>1. /\ OnlyPool(p)
          /\ Phase(p, pool[p].phase)
          /\ Workers(p, pool[p].workers + ThreadCount, pool[p].batches)
          /\ Work(p, pool[p].pending, pool[p].running,
                  pool[p].done, pool[p].cleared)
      BY <2>1, AddWorkers
    <3>2. PoolOK(p)
      BY <2>1, PoolIsOK DEF TypeOK
    <3>. QED
      BY <2>1, <2>2, <3>1, <3>2 DEF PoolOK, Phase, Workers, Work
  <2>. QED
    BY <2>1, <2>3, PoolStaysOK
<1>6. ASSUME NEW p \in Pools, JobStart(p) PROVE PoolTypes'
  <2>1. Head(pool[p].pending) \in Jobs /\ Tail(pool[p].pending) \in Seq(Jobs)
    BY <1>6, HeadTailProperties, PoolIsOK DEF JobStart
  <2>2. IsFiniteSet(pool[p].running \cup {Head(pool[p].pending)})
    BY FS_AddElement, PoolIsOK
  <2>3. pool' = [pool EXCEPT ![p].running = @ \cup {Head(pool[p].pending)},
                             ![p].pending = Tail(@)]
    BY <1>6 DEF JobStart
  <2>4. OnlyPool(p) /\ PoolOK(p)'
    <3>1. /\ OnlyPool(p)
          /\ Phase(p, pool[p].phase)
          /\ Workers(p, pool[p].workers, pool[p].batches)
          /\ Work(p, Tail(pool[p].pending), pool[p].running \cup {Head(pool[p].pending)},
                  pool[p].done, pool[p].cleared)
      BY <2>3, StartJob
    <3>2. PoolOK(p)
      BY PoolIsOK DEF TypeOK
    <3>. QED
      BY <2>1, <2>2, <2>3, <3>1, <3>2 DEF PoolOK, Phase, Workers, Work
  <2>. QED
    BY <2>4, PoolStaysOK
<1>7. ASSUME NEW p \in Pools, NEW j \in Jobs, JobEnd(p, j) PROVE PoolTypes'
  <2>1. pool' = [pool EXCEPT ![p].running = @ \ {j}, ![p].done = @ \cup {j}]
    BY <1>7 DEF JobEnd
  <2>2. IsFiniteSet(pool[p].running \ {j})
    BY FS_Subset, PoolIsOK
  <2>3. OnlyPool(p) /\ PoolOK(p)'
    <3>1. /\ OnlyPool(p)
          /\ Phase(p, pool[p].phase)
          /\ Workers(p, pool[p].workers, pool[p].batches)
          /\ Work(p, pool[p].pending, pool[p].running \ {j},
                  pool[p].done \cup {j}, pool[p].cleared)
      BY <2>1, EndJob
    <3>2. PoolOK(p)
      BY PoolIsOK DEF TypeOK
    <3>. QED
      BY <2>1, <2>2, <3>1, <3>2 DEF PoolOK, Phase, Workers, Work
  <2>. QED
    BY <2>3, PoolStaysOK
<1>8. ASSUME pool' = pool PROVE PoolTypes'
  BY <1>8, SameTypes
<1>9. ASSUME NEW e \in Executors, NEW other \in Executors, MoveBegin(e, other)
      PROVE PoolTypes'
  <2>1. PoolOf(e) \in Pools \cup {None}
    BY DEF TypeOK, ExecutorOK, PoolOf
  <2>. QED
    BY <1>1, <1>8, <1>9, <2>1 DEF MoveBegin
<1>10. ASSUME NEW e \in Executors, DestroyBegin(e) PROVE PoolTypes'
  <2>1. PoolOf(e) \in Pools \cup {None}
    BY DEF TypeOK, ExecutorOK, PoolOf
  <2>. QED
    BY <1>1, <1>8, <1>10, <2>1 DEF DestroyBegin
<1>11. ASSUME MoveEnd PROVE PoolTypes'
  BY <1>1, <1>8, <1>11 DEF MoveEnd, TypeOK, MainOK
<1>12. ASSUME DestroyEnd PROVE PoolTypes'
  <2>1. PoolOf(main.this) \in Pools \cup {None}
    BY <1>12 DEF TypeOK, ExecutorOK, PoolOf, CallInv, DestroyEnd
  <2>. QED
    BY <1>1, <1>8, <1>12, <2>1 DEF DestroyEnd
<1>. QED
  BY <1>2, <1>3, <1>4, <1>5, <1>6, <1>7, <1>8, <1>9, <1>10, <1>11, <1>12
  DEF Next, MainStep, TaskStep, Construct, add_task, WaitBegin, WaitReturn,
      WaitBlock, WaitSpurious, Enter, Publish, vars

(* Every step keeps the types of the executors, ... *)
LEMMA ExecutorTypesStep ==
  ASSUME TypeOK, CallInv, PointersInv, [Next]_vars
  PROVE  ExecutorTypes'
<1> USE Constants DEF TypeOK, ExecutorOK, ExecutorTypes, Live, PoolOf, NoExecutor
<1>1. ASSUME NEW e \in Executors, Construct(e) PROVE ExecutorTypes'
  BY <1>1 DEF Construct
<1>2. ASSUME NEW e \in Executors, NEW t \in Tasks, add_task(e, t) PROVE ExecutorTypes'
  BY <1>2, AppendProperties DEF add_task
<1>3. ASSUME NEW e \in Executors, RunBegin(e) PROVE ExecutorTypes'
  <2>1. PICK p \in Pools, sorted \in Sorted(executor[e].tasks_to_run_) :
          executor' = [executor EXCEPT ![e].pool_ = p, ![e].tasks_to_run_ = sorted]
    BY <1>3 DEF RunBegin
  <2>2. sorted \in Seq(Tasks)
    BY SortedVector
  <2>. QED
    BY <1>3, <2>1, <2>2 DEF RunBegin
<1>4. ASSUME NEW e \in Executors, NEW other \in Executors, MoveBegin(e, other)
      PROVE  ExecutorTypes'
  <2>1. \A f \in Executors : ExecutorOK(f)'
    BY <1>4 DEF MoveBegin
  <2>. QED
    BY <1>4, <2>1 DEF MoveBegin
<1>5. ASSUME MoveEnd PROVE ExecutorTypes'
  <2>1. /\ main.this \in Executors /\ Live(main.this)
        /\ main.other \in Executors /\ Live(main.other)
    BY <1>5 DEF MoveEnd, CallInv
  <2>. QED
    BY <1>5, <2>1 DEF MoveEnd
<1>6. ASSUME DestroyEnd PROVE ExecutorTypes'
  BY <1>6 DEF DestroyEnd, CallInv
<1>7. ASSUME executor' = executor PROVE ExecutorTypes'
  BY <1>7, SameTypes
<1>. QED
  BY <1>1, <1>2, <1>3, <1>4, <1>5, <1>6, <1>7
  DEF Next, MainStep, TaskStep, WaitBegin, WaitReturn, WaitBlock, WaitSpurious,
      Submit, RunEnd, cancel, DestroyBegin, JobStart, JobEnd, Enter, Publish, vars

(* ... of the call Main is in, ... *)
LEMMA MainOKStep ==
  ASSUME TypeOK, CallInv, PointersInv, [Next]_vars
  PROVE  MainOK' /\ rounds' \in 0 .. MaxRounds
<1>1. MainOK /\ rounds \in 0 .. MaxRounds /\ None \notin Executors
  BY Constants DEF TypeOK
<1>2. \A e \in Executors : PoolOf(e) \in Pools \cup {None}
  BY DEF TypeOK, ExecutorOK, PoolOf
<1>3. ASSUME SameCall, rounds' = rounds PROVE MainOK' /\ rounds' \in 0 .. MaxRounds
  BY <1>1, <1>3 DEF MainOK, SameCall, Waiting
<1>4. ASSUME NEW e \in Executors, RunBegin(e) PROVE MainOK' /\ rounds' \in 0 .. MaxRounds
  BY <1>1, <1>4, Constants DEF RunBegin, MainOK, Idle
<1>5. ASSUME NEW e \in Executors, NEW op \in {"wait", "destroy"},
             main' = [Idle EXCEPT !.op = op, !.this = e], rounds' = rounds
      PROVE  MainOK' /\ rounds' \in 0 .. MaxRounds
  BY <1>1, <1>5 DEF MainOK, Idle
<1>6. ASSUME NEW e \in Executors, NEW other \in Executors, MoveBegin(e, other)
      PROVE  MainOK' /\ rounds' \in 0 .. MaxRounds
  BY <1>1, <1>2, <1>6 DEF MoveBegin, MainOK, Idle
<1>7. CASE main' = Idle /\ rounds' = rounds
  BY <1>1, <1>7 DEF MainOK, Idle
<1>8. CASE Submit
  BY <1>1, <1>8 DEF Submit, MainOK, Idle
<1>. QED
  BY <1>3, <1>4, <1>5, <1>6, <1>7, <1>8, SameCallSteps
  DEF Next, MainStep, TaskStep, Construct, add_task, WaitBegin, WaitReturn,
      WaitBlock, WaitSpurious, RunEnd, cancel, MoveEnd, DestroyBegin, DestroyEnd, JobStart, JobEnd, Enter, Publish,
      vars, edges

(* ... of the running jobs and of who answers for them.                     *)
LEMMA EdgeTypesStep ==
  ASSUME TypeOK, CallInv, PointersInv, [Next]_vars
  PROVE  EdgeTypes' /\ OwnerTypes'
<1> USE DEF edges
<1>1. ASSUME UNCHANGED <<entered, published>>,
             \A p \in Pools : pool[p].running \subseteq pool'[p].running
      PROVE  EdgeTypes'
  BY <1>1, SameTypes
<1>2. ASSUME UNCHANGED <<entered, published>>, NEW p \in Pools, NEW phase,
             pool' = [pool EXCEPT ![p].phase = phase]
      PROVE  EdgeTypes'
  BY <1>1, <1>2, SetPhase DEF OnlyPool, Work
<1>3. ASSUME NEW e \in Executors, RunBegin(e) PROVE EdgeTypes'
  <2>1. PICK p \in Pools : pool' = [pool EXCEPT ![p].phase = "open", ![p].batches = @ + 1]
    BY <1>3 DEF RunBegin
  <2>. QED
    BY <1>1, <1>3, <2>1, OpenPool DEF OnlyPool, Work, RunBegin
<1>4. ASSUME NEW e \in Executors, cancel(e) PROVE EdgeTypes'
  <2>1. PICK p \in Reached(e) \ {None} :
          pool' = [pool EXCEPT ![p].cleared = @ \cup Queued(p), ![p].pending = <<>>]
    BY <1>4 DEF cancel
  <2>2. p \in Pools
    BY <2>1, ReachedPool
  <2>. QED
    BY <1>1, <1>4, <2>1, <2>2, ClearJobs DEF OnlyPool, Work, cancel
<1>5. ASSUME Submit PROVE EdgeTypes'
  <2>1. PICK p \in Pools, job \in Jobs : pool' = [pool EXCEPT ![p].pending = Append(@, job)]
    BY <1>5, SubmittedJob DEF Submit, CallInv, TypeOK, ExecutorOK, PoolOf
  <2>. QED
    BY <1>1, <1>5, <2>1, AddJob DEF OnlyPool, Work, Submit
<1>6. ASSUME RunEnd PROVE EdgeTypes'
  <2>1. PICK p \in Pools : pool' = [pool EXCEPT ![p].workers = @ + ThreadCount]
    BY <1>6 DEF RunEnd, CallInv, TypeOK, ExecutorOK, PoolOf
  <2>. QED
    BY <1>1, <1>6, <2>1, AddWorkers DEF OnlyPool, Work, RunEnd
<1>7. ASSUME NEW p \in Pools, JobStart(p) PROVE EdgeTypes'
  <2>1. pool' = [pool EXCEPT ![p].running = @ \cup {Head(pool[p].pending)},
                             ![p].pending = Tail(@)]
    BY <1>7 DEF JobStart
  <2>. QED
    BY <1>1, <1>7, <2>1, StartJob DEF OnlyPool, Work, JobStart
<1>8. ASSUME NEW p \in Pools, NEW j \in Jobs, JobEnd(p, j) PROVE EdgeTypes'
  <2>1. pool' = [pool EXCEPT ![p].running = @ \ {j}, ![p].done = @ \cup {j}]
    BY <1>8 DEF JobEnd
  <2>2. \A q \in Pools : pool[q].running \ {j} \subseteq pool'[q].running
    BY <2>1, EndJob DEF OnlyPool, Work
  <2>. QED
    BY <1>8, <2>2 DEF JobEnd, TypeOK, EdgeTypes
<1>9. ASSUME NEW p \in Pools, NEW j \in Jobs, Enter(p, j) PROVE EdgeTypes'
  BY <1>9 DEF Enter, TypeOK, EdgeTypes
<1>10. ASSUME NEW p \in Pools, NEW j \in Jobs, Publish(p, j) PROVE EdgeTypes'
  BY <1>10 DEF Publish, TypeOK, EdgeTypes
<1>11. ASSUME NEW e \in Executors, NEW other \in Executors, MoveBegin(e, other)
       PROVE  EdgeTypes' /\ OwnerTypes'
  <2>1. PoolOf(e) \in Pools \cup {None}
    BY DEF TypeOK, ExecutorOK, PoolOf
  <2>2. OwnerTypes'
    BY <1>11 DEF MoveBegin, TypeOK, OwnerTypes
  <2>. QED
    BY <1>1, <1>2, <1>11, <2>1, <2>2 DEF MoveBegin
<1>12. ASSUME NEW e \in Executors, DestroyBegin(e) PROVE EdgeTypes'
  <2>1. PoolOf(e) \in Pools \cup {None}
    BY DEF TypeOK, ExecutorOK, PoolOf
  <2>. QED
    BY <1>1, <1>2, <1>12, <2>1 DEF DestroyBegin
<1>13. ASSUME MoveEnd PROVE EdgeTypes'
  BY <1>1, <1>2, <1>13 DEF MoveEnd, TypeOK, MainOK
<1>14. ASSUME DestroyEnd PROVE EdgeTypes'
  <2>1. PoolOf(main.this) \in Pools \cup {None}
    BY <1>14 DEF TypeOK, ExecutorOK, PoolOf, CallInv, DestroyEnd
  <2>. QED
    BY <1>1, <1>2, <1>14, <2>1 DEF DestroyEnd
<1>15. ASSUME UNCHANGED <<entered, published, pool>> PROVE EdgeTypes'
  BY <1>1, <1>15
<1>16. ASSUME Submit PROVE OwnerTypes'
  <2>1. main.this \in Executors /\ owner \in [Jobs -> Executors \cup {None}]
    BY <1>16 DEF Submit, CallInv, TypeOK
  <2>. QED
    BY <1>16, <2>1 DEF Submit, OwnerTypes
<1>17. ASSUME owner' = owner PROVE OwnerTypes'
  BY <1>17, SameTypes
<1>. QED
  BY <1>3, <1>4, <1>5, <1>6, <1>7, <1>8, <1>9, <1>10, <1>11, <1>12, <1>13,
     <1>14, <1>15, <1>16, <1>17
  DEF Next, MainStep, TaskStep, Construct, add_task, WaitBegin, WaitReturn,
      WaitBlock, WaitSpurious, RunBegin, RunEnd, cancel, MoveEnd, DestroyBegin, DestroyEnd, JobStart,
      JobEnd, Enter, Publish, vars

(* Every step keeps the types. *)
LEMMA TypeOKStep ==
  ASSUME TypeOK, CallInv, PointersInv, [Next]_vars
  PROVE  TypeOK'
BY PoolTypesStep, ExecutorTypesStep, MainOKStep, EdgeTypesStep
DEF TypeOK, PoolTypes, ExecutorTypes, EdgeTypes, OwnerTypes

------------------------------------------------------------------------------
(* What the workers and cancel do: jobs get nearer to their end, and no pool *)
(* is made, shut down or given to another executor.  A wait() that falls   *)
(* asleep or wakes up does not even move a job.                            *)
Progress ==
  \A q \in Pools :
    /\ Unfinished(q)' \subseteq Unfinished(q)
    /\ Over(q) \subseteq Over(q)'
    /\ Unfinished(q)' \cup Over(q)' = Unfinished(q) \cup Over(q)
SamePhases ==
  \A q \in Pools :
    /\ pool'[q].phase = pool[q].phase
    /\ pool'[q].workers = pool[q].workers
    /\ pool[q].phase = "unborn" => pool'[q] = pool[q]
    /\ pool[q].phase = "gone" => pool'[q].running \subseteq pool[q].running
Quiet ==
  /\ UNCHANGED <<executor, rounds, owner>>
  /\ SameCall
  /\ SamePhases
  /\ Progress

(* What a step leaves of the pools it does not change, and of the one it    *)
(* changes.                                                                *)
LEMMA OnePoolQuiet ==
  ASSUME TypeOK, NEW p \in Pools, OnlyPool(p),
         pool'[p].phase = pool[p].phase, pool'[p].workers = pool[p].workers,
         pool[p].phase # "unborn",
         pool[p].phase = "gone" => pool'[p].running \subseteq pool[p].running,
         Unfinished(p)' \subseteq Unfinished(p),
         Over(p) \subseteq Over(p)',
         Unfinished(p)' \cup Over(p)' = Unfinished(p) \cup Over(p)
  PROVE  SamePhases /\ Progress
<1>1. ASSUME NEW q \in Pools \ {p}
      PROVE  /\ pool'[q] = pool[q]
             /\ Unfinished(q)' = Unfinished(q) /\ Over(q)' = Over(q)
  BY <1>1 DEF OnlyPool, Unfinished, Queued, Over
<1>2. SamePhases
  BY <1>1 DEF SamePhases
<1>3. Progress
  BY <1>1 DEF Progress
<1>. QED
  BY <1>2, <1>3

(* A pool in which a job executes has been made. *)
LEMMA RunningInPool ==
  ASSUME PointersInv, NEW p \in Pools, NEW j \in pool[p].running
  PROVE  pool[p].phase # "unborn"
BY DEF PointersInv, PointerOK, NoPool

(* The workers and cancel are quiet in this sense, ... *)
LEMMA QuietSteps ==
  ASSUME TypeOK, CallInv, PointersInv
  PROVE  /\ \A e \in Executors : cancel(e) => Quiet
         /\ \A p \in Pools : JobStart(p) => Quiet
         /\ \A p \in Pools, j \in Jobs : TaskStep(p, j) => Quiet
         /\ WaitBlock \/ WaitSpurious => Quiet
         /\ UNCHANGED vars => Quiet
<1>1. ASSUME NEW e \in Executors, cancel(e) PROVE Quiet
  <2>1. PICK p \in Reached(e) \ {None} :
          pool' = [pool EXCEPT ![p].cleared = @ \cup Queued(p), ![p].pending = <<>>]
    BY <1>1 DEF cancel
  <2>2. p \in Pools /\ pool[p].phase \in {"open", "closing"}
    BY <2>1, ReachedPool
  <2>3. /\ OnlyPool(p)
        /\ Phase(p, pool[p].phase)
        /\ Workers(p, pool[p].workers, pool[p].batches)
        /\ Work(p, <<>>, pool[p].running, pool[p].done, pool[p].cleared \cup Queued(p))
    BY <2>1, <2>2, ClearJobs
  <2>4. Queued(p)' = {}
    BY <2>3 DEF Queued, Work, Range
  <2>5. /\ Unfinished(p)' = pool[p].running
        /\ Over(p)' = Over(p) \cup Queued(p)
        /\ Unfinished(p) = Queued(p) \cup pool[p].running
    BY <2>3, <2>4 DEF Unfinished, Over, Work
  <2>6. /\ Unfinished(p)' \subseteq Unfinished(p)
        /\ Over(p) \subseteq Over(p)'
        /\ Unfinished(p)' \cup Over(p)' = Unfinished(p) \cup Over(p)
    BY <2>5
  <2>7. SamePhases /\ Progress
    BY <2>2, <2>3, <2>6, OnePoolQuiet DEF Phase, Workers
  <2>. QED
    BY <1>1, <2>7, SameCallSteps DEF cancel, Quiet
<1>2. ASSUME NEW p \in Pools, JobStart(p) PROVE Quiet
  <2>1. pool' = [pool EXCEPT ![p].running = @ \cup {Head(pool[p].pending)},
                             ![p].pending = Tail(@)]
    BY <1>2 DEF JobStart
  <2>2. /\ OnlyPool(p)
        /\ Phase(p, pool[p].phase)
        /\ Workers(p, pool[p].workers, pool[p].batches)
        /\ Work(p, Tail(pool[p].pending), pool[p].running \cup {Head(pool[p].pending)},
                pool[p].done, pool[p].cleared)
    BY <2>1, StartJob
  <2>3. Queued(p) = Queued(p)' \cup {Head(pool[p].pending)}
    <3>1. pool[p].pending \in Seq(Jobs) /\ pool[p].pending # <<>>
      BY <1>2, PoolIsOK DEF JobStart
    <3>. QED
      BY <2>2, <3>1, RangeOfTail DEF Queued, Work
  <2>4. Unfinished(p)' = Unfinished(p) /\ Over(p)' = Over(p)
    BY <2>2, <2>3 DEF Unfinished, Over, Work
  <2>5. pool[p].phase \in {"open", "closing"}
    BY <1>2 DEF JobStart
  <2>6. SamePhases /\ Progress
    BY <2>2, <2>4, <2>5, OnePoolQuiet DEF Phase, Workers
  <2>. QED
    BY <1>2, <2>6, SameCallSteps DEF JobStart, Quiet
<1>3. ASSUME NEW p \in Pools, NEW j \in Jobs, JobEnd(p, j) PROVE Quiet
  <2>1. pool' = [pool EXCEPT ![p].running = @ \ {j}, ![p].done = @ \cup {j}]
        /\ j \in pool[p].running
    BY <1>3 DEF JobEnd
  <2>2. /\ OnlyPool(p)
        /\ Phase(p, pool[p].phase)
        /\ Workers(p, pool[p].workers, pool[p].batches)
        /\ Work(p, pool[p].pending, pool[p].running \ {j},
                pool[p].done \cup {j}, pool[p].cleared)
    BY <2>1, EndJob
  <2>3. /\ Queued(p)' = Queued(p)
        /\ Unfinished(p)' = Queued(p) \cup (pool[p].running \ {j})
        /\ Over(p)' = Over(p) \cup {j}
    BY <2>2 DEF Unfinished, Over, Work, Queued
  <2>4. /\ Unfinished(p)' \subseteq Unfinished(p)
        /\ Over(p) \subseteq Over(p)'
        /\ Unfinished(p)' \cup Over(p)' = Unfinished(p) \cup Over(p)
    BY <2>1, <2>3 DEF Unfinished
  <2>5. SamePhases /\ Progress
    BY <2>1, <2>2, <2>4, OnePoolQuiet, RunningInPool DEF Phase, Workers, Work
  <2>. QED
    BY <1>3, <2>5, SameCallSteps DEF JobEnd, Quiet
<1>4. ASSUME UNCHANGED <<executor, pool, rounds, owner>>, SameCall PROVE Quiet
  BY <1>4 DEF Quiet, SamePhases, Progress, Unfinished, Queued, Over
<1>. QED
  BY <1>1, <1>2, <1>3, <1>4, SameCallSteps
  DEF TaskStep, Enter, Publish, WaitBlock, WaitSpurious, vars

(* ... and what is quiet keeps the invariant. *)
LEMMA QuietKeeps ==
  ASSUME TypeOK, CallInv, PointersInv, VectorsInv, JobsInv, Quiet
  PROVE  CallInv' /\ PointersInv' /\ VectorsInv' /\ JobsInv'
<1>1. /\ UNCHANGED <<executor, rounds, owner>>
      /\ main'.this = main.this /\ main'.other = main.other
      /\ main'.old = main.old /\ main'.next = main.next
      /\ main'.op = main.op \/ (Waiting(main.op) /\ Waiting(main'.op))
      /\ main'.unheard => main'.op = "asleep"
  BY DEF Quiet, SameCall
<1> USE DEF Waiting
<1>2. CallInv'
  BY <1>1 DEF Quiet, SamePhases, CallInv, Live, PoolOf, TypeOK, MainOK
<1>3. VectorsInv'
  BY <1>1 DEF VectorsInv
<1>4. \A e \in Executors : PoolOf(e)' = PoolOf(e) /\ PoolOf(e) \in Pools \cup {None}
  BY <1>1 DEF PoolOf, TypeOK, ExecutorOK
<1>5. PoolOf(main.this)' = PoolOf(main.this) /\ \A j : SubmittedNow(j)' = SubmittedNow(j)
  BY <1>1 DEF PoolOf, SubmittedNow
<1>6. PointersInv'
  <2> SUFFICES ASSUME NEW p \in Pools PROVE PointerOK(p)'
    BY DEF PointersInv
  <2>1. PointerOK(p)
    BY DEF PointersInv
  <2>2. /\ pool'[p].phase = pool[p].phase
        /\ pool'[p].workers = pool[p].workers
        /\ pool[p].phase = "unborn" => pool'[p] = pool[p]
        /\ pool[p].phase = "gone" => pool'[p].running \subseteq pool[p].running
    BY DEF Quiet, SamePhases
  <2>. QED
    BY <1>1, <1>4, <1>5, <2>1, <2>2 DEF PointerOK, BeingDestroyed
<1>7. JobsInv'
  <2>1. \A q \in Pools :
          /\ Unfinished(q)' \subseteq Unfinished(q)
          /\ Over(q) \subseteq Over(q)'
          /\ Unfinished(q)' \cup Over(q)' = Unfinished(q) \cup Over(q)
    BY DEF Quiet, Progress
  <2>. QED
    BY <1>1, <1>4, <1>5, <2>1 DEF JobsInv, JobsOK, AnswersOK
<1>. QED
  BY <1>2, <1>3, <1>6, <1>7

------------------------------------------------------------------------------
(* What Main does leaves the jobs where they are, but for Submit. *)
SameWork ==
  \A q \in Pools :
    /\ Unfinished(q)' = Unfinished(q) /\ Over(q)' = Over(q)
    /\ pool'[q].running = pool[q].running

(* A pool whose jobs stay, and all others, have the same jobs as before. *)
LEMMA SameWorkSteps ==
  ASSUME TypeOK, NEW p \in Pools, OnlyPool(p),
         Work(p, pool[p].pending, pool[p].running, pool[p].done, pool[p].cleared)
  PROVE  SameWork
BY DEF OnlyPool, Work, SameWork, Unfinished, Queued, Over

(* The round of a job is a number. *)
LEMMA JobNumbers ==
  ASSUME TypeOK, NEW p \in Pools
  PROVE  /\ Unfinished(p) \subseteq Jobs /\ Over(p) \subseteq Jobs
         /\ \A j \in Jobs : j[2] \in Nat
BY PoolIsOK, Constants DEF Unfinished, Over

(* A further run() may bring ThreadCount further workers. *)
LEMMA WorkersOfRounds ==
  ASSUME TypeOK
  PROVE  /\ rounds \in Nat /\ rounds * ThreadCount \in Nat
         /\ (rounds + 1) * ThreadCount = rounds * ThreadCount + ThreadCount
BY Constants DEF TypeOK

(* Members of the executors. *)
LEMMA Members ==
  ASSUME TypeOK, NEW e \in Executors
  PROVE  /\ PoolOf(e) \in Pools \cup {None}
         /\ executor[e].tasks_to_run_ \in Seq(Tasks)
BY DEF TypeOK, ExecutorOK, PoolOf

(* A new executor has no pool, tasks or jobs. *)
LEMMA ConstructKeeps ==
  ASSUME ExecutorsInv, NEW e \in Executors, Construct(e)
  PROVE  CallInv' /\ PointersInv' /\ VectorsInv' /\ JobsInv'
<1> USE DEF ExecutorsInv
<1>1. /\ executor' = [executor EXCEPT ![e].life = "live"]
      /\ UNCHANGED <<main, pool, rounds, owner>>
      /\ main.op = "idle" /\ executor[e].life = "unborn"
  BY DEF Construct
<1>2. \A f \in Executors :
        /\ PoolOf(f)' = PoolOf(f)
        /\ executor'[f].tasks_to_run_ = executor[f].tasks_to_run_
        /\ executor'[f].life = "gone" <=> executor[f].life = "gone"
  BY <1>1 DEF TypeOK, ExecutorOK, PoolOf, NoExecutor
<1>3. CallInv'
  BY <1>1, <1>2 DEF CallInv
<1>4. PointersInv'
  BY <1>1, <1>2 DEF PointersInv, PointerOK, BeingDestroyed
<1>5. VectorsInv'
  BY <1>2 DEF VectorsInv
<1>6. JobsInv'
  BY <1>1, <1>2 DEF JobsInv, JobsOK, AnswersOK, Unfinished, Queued, Over
<1>. QED
  BY <1>3, <1>4, <1>5, <1>6

(* add_task adds a task that is in no vector. *)
LEMMA AddTaskKeeps ==
  ASSUME ExecutorsInv, NEW e \in Executors, NEW t \in Tasks, add_task(e, t)
  PROVE  CallInv' /\ PointersInv' /\ VectorsInv' /\ JobsInv'
<1> USE DEF ExecutorsInv
<1>1. /\ executor' = [executor EXCEPT ![e].tasks_to_run_ = Append(@, t)]
      /\ UNCHANGED <<main, pool, rounds, owner>>
      /\ main.op = "idle"
      /\ \A f \in Executors : t \notin Range(executor[f].tasks_to_run_)
  BY DEF add_task
<1>2. \A f \in Executors :
        /\ PoolOf(f)' = PoolOf(f)
        /\ executor'[f].life = executor[f].life
        /\ executor'[f].tasks_to_run_ =
             IF f = e THEN Append(executor[f].tasks_to_run_, t)
             ELSE executor[f].tasks_to_run_
  BY <1>1 DEF TypeOK, ExecutorOK, PoolOf, NoExecutor
<1>3. CallInv'
  BY <1>1 DEF CallInv
<1>4. PointersInv'
  BY <1>1, <1>2 DEF PointersInv, PointerOK, BeingDestroyed
<1>5. VectorsInv'
  <2>1. /\ Distinct(Append(executor[e].tasks_to_run_, t))
        /\ Range(Append(executor[e].tasks_to_run_, t)) = Range(executor[e].tasks_to_run_) \cup {t}
    BY <1>1, Members, DistinctAppend, RangeOfAppend DEF VectorsInv
  <2>. QED
    BY <1>1, <1>2, <2>1 DEF VectorsInv
<1>6. JobsInv'
  BY <1>1, <1>2 DEF JobsInv, JobsOK, AnswersOK, Unfinished, Queued, Over
<1>. QED
  BY <1>3, <1>4, <1>5, <1>6

(* run() takes the pool of the executor or makes one. *)
LEMMA RunBeginKeeps ==
  ASSUME ExecutorsInv, NEW e \in Executors, RunBegin(e)
  PROVE  CallInv' /\ PointersInv' /\ VectorsInv' /\ JobsInv'
<1> USE DEF ExecutorsInv
<1>1. PICK p \in Pools, sorted \in Sorted(executor[e].tasks_to_run_) :
        /\ p = IF PoolOf(e) = None THEN NewPool ELSE PoolOf(e)
        /\ pool' = [pool EXCEPT ![p].phase = "open", ![p].batches = @ + 1]
        /\ executor' = [executor EXCEPT ![e].pool_ = p, ![e].tasks_to_run_ = sorted]
  BY DEF RunBegin
<1>2. /\ main.op = "idle" /\ Live(e) /\ rounds < MaxRounds /\ rounds' = rounds + 1
      /\ main' = [Idle EXCEPT !.op = "submit", !.this = e] /\ owner' = owner
  BY DEF RunBegin
<1>3. /\ main'.op = "submit" /\ main'.this = e /\ main'.old = None
      /\ main'.next = 1 /\ main'.unheard = FALSE
  BY <1>2 DEF Idle
<1>4. /\ OnlyPool(p)
      /\ pool'[p].phase = "open" /\ pool'[p].workers = pool[p].workers
      /\ Work(p, pool[p].pending, pool[p].running, pool[p].done, pool[p].cleared)
  BY <1>1, OpenPool DEF Phase, Workers
<1>5. SameWork
  BY <1>4, SameWorkSteps
<1>6. \A f \in Executors :
        /\ PoolOf(f)' = IF f = e THEN p ELSE PoolOf(f)
        /\ executor'[f].life = executor[f].life
        /\ executor'[f].tasks_to_run_ =
             IF f = e THEN sorted ELSE executor[f].tasks_to_run_
  BY <1>1 DEF TypeOK, ExecutorOK, PoolOf, NoExecutor
<1>7. /\ p <= rounds + 1
      /\ \A f \in Executors : PoolOf(f) = p => f = e
      /\ PoolOf(e) # p => PoolOf(e) = None /\ pool[p].phase = "unborn"
  <2>1. CASE PoolOf(e) = None
    <3>1. p \in Unborn /\ p <= rounds + 1
      BY <1>1, <1>2, <2>1, NewPoolIsNext
    <3>2. pool[p].phase = "unborn"
      BY <3>1 DEF Unborn
    <3>3. \A f \in Executors : PoolOf(f) # p
      BY <3>2 DEF PointersInv, PointerOK
    <3>. QED
      BY <2>1, <3>1, <3>2, <3>3
  <2>2. CASE PoolOf(e) # None
    <3>1. PoolOf(e) = p /\ pool[p].phase = "open"
      BY <1>1, <1>2, <2>2 DEF PointersInv, PointerOK, BeingDestroyed
    <3>2. \A f \in Executors : PoolOf(f) = p => f = e
      BY <3>1 DEF PointersInv, PointerOK
    <3>3. p <= rounds
      BY <3>1, Constants DEF PointersInv, PointerOK, TypeOK
    <3>. QED
      BY <3>1, <3>2, <3>3, Constants DEF TypeOK
  <2>. QED
    BY <2>1, <2>2
<1>8. CallInv'
  BY <1>2, <1>3, <1>6, Constants DEF CallInv, Live
<1>9. PointersInv'
  <2>1. ASSUME NEW q \in Pools \ {p} PROVE PointerOK(q)'
    <3>1. PointerOK(q) /\ pool'[q] = pool[q]
      BY <1>4 DEF PointersInv, OnlyPool
    <3>2. q > rounds' => q > rounds
      BY <1>2, Constants DEF TypeOK
    <3>3. pool[q].workers <= rounds' * ThreadCount
      BY <1>2, <3>1, PoolIsOK, WorkersOfRounds, Constants DEF PointerOK
    <3>4. \A f \in Executors : PoolOf(f) = q => f # e
      BY <1>7, Constants
    <3>5. PoolOf(main.this)' # q
      BY <1>3, <1>6
    <3>. QED
      BY <1>2, <1>3, <1>6, <3>1, <3>2, <3>3, <3>4, <3>5 DEF PointerOK, BeingDestroyed
  <2>2. PointerOK(p)'
    <3>1. ~ p > rounds'
      BY <1>2, <1>7, Constants DEF TypeOK
    <3>2. /\ pool[p].workers <= rounds' * ThreadCount
          /\ pool[p].workers + ThreadCount <= rounds' * ThreadCount
      BY <1>2, PoolIsOK, WorkersOfRounds, Constants DEF PointersInv, PointerOK
    <3>. QED
      BY <1>3, <1>4, <1>6, <1>7, <3>1, <3>2 DEF PointerOK, BeingDestroyed
  <2>. QED
    BY <2>1, <2>2 DEF PointersInv
<1>10. VectorsInv'
  <2>1. Distinct(sorted) /\ Range(sorted) = Range(executor[e].tasks_to_run_)
    BY Members, SortedVector DEF VectorsInv
  <2>. QED
    BY <1>6, <2>1 DEF VectorsInv
<1>11. JobsInv'
  <2>1. ASSUME NEW q \in Pools PROVE JobsOK(q)'
    <3>1. JobsOK(q) /\ Unfinished(q)' = Unfinished(q) /\ Over(q)' = Over(q)
      BY <1>5 DEF SameWork, JobsInv
    <3>2. ASSUME NEW j \in Unfinished(q) \cup Over(q) PROVE j[2] <= rounds' /\ j[2] # rounds'
      BY <1>2, <3>1, <3>2, JobNumbers, WorkersOfRounds DEF JobsOK
    <3>3. ASSUME NEW f \in Executors, PoolOf(f)' = q PROVE \A j \in Unfinished(q) : owner[j] = f
      <4>1. CASE PoolOf(f) = q
        BY <3>1, <4>1 DEF JobsOK
      <4>2. CASE PoolOf(f) # q
        <5>1. f = e /\ q = p /\ pool[q].phase = "unborn"
          BY <1>6, <1>7, <3>3, <4>2
        <5>2. pool[q] = NoPool
          BY <5>1 DEF PointersInv, PointerOK
        <5>3. Unfinished(q) = {}
          BY <5>2 DEF Unfinished, Queued, NoPool, Range
        <5>. QED
          BY <5>3
      <4>. QED
        BY <4>1, <4>2
    <3>. QED
      BY <1>2, <3>1, <3>2, <3>3 DEF JobsOK
  <2>2. ASSUME NEW f \in Executors PROVE AnswersOK(f)'
    <3>1. AnswersOK(f) /\ \A q \in Pools : PoolOf(f) = q => PoolOf(f)' = q
      BY <1>6, <1>7, Constants DEF JobsInv
    <3>2. \A q \in Pools : Unfinished(q)' = Unfinished(q) /\ Over(q)' = Over(q)
      BY <1>5 DEF SameWork
    <3>. QED
      BY <1>2, <1>6, <3>1, <3>2 DEF AnswersOK
  <2>. QED
    BY <2>1, <2>2 DEF JobsInv
<1>. QED
  BY <1>8, <1>9, <1>10, <1>11

(* The job that is submitted is new. *)
LEMMA NewJob ==
  ASSUME ExecutorsInv, Submit, NEW q \in Pools
  PROVE  <<executor[main.this].tasks_to_run_[main.next], rounds>>
           \notin Unfinished(q) \cup Over(q)
<1> USE DEF ExecutorsInv
<1> DEFINE list == executor[main.this].tasks_to_run_
           job == <<list[main.next], rounds>>
<1>1. main.this \in Executors /\ main.op = "submit" /\ main.next \in 1 .. Len(list)
  BY DEF Submit, CallInv, TypeOK, MainOK
<1>2. list \in Seq(Tasks) /\ Distinct(list)
  BY <1>1, Members DEF VectorsInv
<1>3. job[2] = rounds /\ Task(job) = list[main.next]
  BY DEF Task
<1>4. ASSUME job \in Unfinished(q) \cup Over(q)
      PROVE  \E i \in 1 .. main.next - 1 : list[i] = list[main.next]
  <2>1. SubmittedNow(job)
    BY <1>1, <1>3, <1>4 DEF JobsInv, JobsOK
  <2>. QED
    BY <1>3, <2>1 DEF SubmittedNow
<1> HIDE DEF list, job
<1>5. \A i \in 1 .. main.next - 1 : i \in DOMAIN list /\ main.next \in DOMAIN list /\ i # main.next
  BY <1>1, <1>2
<1>6. job \notin Unfinished(q) \cup Over(q)
  BY <1>2, <1>4, <1>5 DEF Distinct
<1>. QED
  BY <1>6 DEF list, job

(* Submit appends a job that no pool has. *)
LEMMA SubmitKeeps ==
  ASSUME ExecutorsInv, Submit
  PROVE  CallInv' /\ PointersInv' /\ VectorsInv' /\ JobsInv'
<1> USE DEF ExecutorsInv
<1>1. PICK e \in Executors, p \in Pools :
        e = main.this /\ p = PoolOf(e) /\ Live(e)
  BY Members DEF Submit, CallInv
<1>2. PICK t \in Tasks : t = executor[e].tasks_to_run_[main.next]
  BY <1>1 DEF Submit, TypeOK, ExecutorOK, MainOK
<1>3. rounds \in Pools /\ <<t, rounds>> \in Jobs
  BY <1>1, <1>2, SubmittedJob, Constants
<1>4. PICK job \in Jobs : job = <<t, rounds>>
  BY <1>3
<1>5. /\ main.op = "submit" /\ main.next \in DOMAIN executor[e].tasks_to_run_
      /\ pool' = [pool EXCEPT ![p].pending = Append(@, job)]
      /\ owner' = [owner EXCEPT ![job] = e]
      /\ main' = [main EXCEPT !.next = @ + 1]
      /\ UNCHANGED <<executor, rounds>>
  BY <1>1, <1>2, <1>4, Members DEF Submit, TypeOK, MainOK
<1>6. /\ main'.op = "submit" /\ main'.this = e /\ main'.other = main.other
      /\ main'.old = main.old /\ main'.next = main.next + 1 /\ main.next \in Nat \ {0}
      /\ main'.unheard = FALSE
  BY <1>1, <1>5 DEF TypeOK, MainOK, CallInv, Idle
<1>7. /\ OnlyPool(p) /\ Phase(p, pool[p].phase)
      /\ Workers(p, pool[p].workers, pool[p].batches)
      /\ Work(p, Append(pool[p].pending, job), pool[p].running, pool[p].done, pool[p].cleared)
  BY <1>5, AddJob
<1>8. \A q \in Pools :
        /\ pool'[q].phase = pool[q].phase
        /\ pool'[q].workers = pool[q].workers
        /\ pool'[q].running = pool[q].running
        /\ q # p => pool'[q] = pool[q]
  BY <1>7 DEF OnlyPool, Phase, Workers, Work
<1>9. \A q \in Pools :
        /\ Unfinished(q)' = IF q = p THEN Unfinished(q) \cup {job} ELSE Unfinished(q)
        /\ Over(q)' = Over(q)
  <2>1. Range(Append(pool[p].pending, job)) = Range(pool[p].pending) \cup {job}
    BY PoolIsOK, RangeOfAppend
  <2>2. Unfinished(p)' = Unfinished(p) \cup {job} /\ Over(p)' = Over(p)
    BY <1>7, <2>1 DEF Work, Unfinished, Queued, Over
  <2>3. \A q \in Pools \ {p} : Unfinished(q)' = Unfinished(q) /\ Over(q)' = Over(q)
    BY <1>8 DEF Unfinished, Queued, Over
  <2>. QED
    BY <2>2, <2>3
<1>10. \A f \in Executors : PoolOf(f)' = PoolOf(f)
  BY <1>5 DEF PoolOf
<1>11. \A q \in Pools : job \notin Unfinished(q) \cup Over(q)
  BY <1>1, <1>2, <1>4, NewJob
<1>12. CallInv'
  <2>1. PoolOf(e)' # None
    BY <1>1, <1>10, Constants
  <2>2. main.old = None
    BY <1>5 DEF CallInv
  <2>. QED
    BY <1>1, <1>5, <1>6, <2>1, <2>2 DEF CallInv, Live
<1>13. PointersInv'
  <2> SUFFICES ASSUME NEW q \in Pools PROVE PointerOK(q)'
    BY DEF PointersInv
  <2>1. PointerOK(q) /\ pool[p].phase = "open"
    BY <1>1, <1>5 DEF PointersInv, PointerOK, BeingDestroyed
  <2>. QED
    BY <1>1, <1>5, <1>6, <1>8, <1>10, <2>1 DEF PointerOK, BeingDestroyed
<1>14. VectorsInv'
  BY <1>5 DEF VectorsInv
<1>15. JobsInv'
  <2>1. ASSUME NEW q \in Pools PROVE JobsOK(q)'
    <3>1. JobsOK(q)
      BY DEF JobsInv
    <3>2. ASSUME NEW j, SubmittedNow(j) PROVE SubmittedNow(j)'
      BY <1>1, <1>5, <1>6, <3>2 DEF SubmittedNow
    <3>3. SubmittedNow(job)'
      BY <1>1, <1>2, <1>4, <1>5, <1>6 DEF SubmittedNow, Task
    <3>4. job[2] = rounds
      BY <1>4
    <3>5. ASSUME NEW j \in (Unfinished(q) \cup Over(q))'
          PROVE  /\ j[2] <= rounds'
                 /\ j[2] = rounds' => PoolOf(main.this)' = q /\ SubmittedNow(j)'
      <4>1. CASE j \in Unfinished(q) \cup Over(q)
        BY <1>1, <1>5, <1>6, <1>10, <3>1, <3>2, <4>1 DEF JobsOK
      <4>2. CASE j = job /\ q = p
        BY <1>1, <1>3, <1>5, <1>6, <1>10, <3>3, <3>4, <4>2, Constants
      <4>. QED
        BY <1>9, <3>5, <4>1, <4>2
    <3>6. ASSUME NEW f \in Executors, PoolOf(f)' = q, NEW j \in Unfinished(q)'
          PROVE  owner'[j] = f
      <4>1. CASE j \in Unfinished(q)
        <5>1. owner[j] = f /\ j # job
          BY <1>10, <1>11, <3>1, <3>6, <4>1 DEF JobsOK
        <5>2. j \in Jobs
          BY <4>1, JobNumbers
        <5>. QED
          BY <1>5, <5>1, <5>2 DEF TypeOK
      <4>2. CASE j = job /\ q = p
        <5>1. f = e
          BY <1>1, <1>10, <3>6, <4>2 DEF PointersInv, PointerOK
        <5>. QED
          BY <1>5, <4>2, <5>1 DEF TypeOK
      <4>. QED
        BY <1>9, <3>6, <4>1, <4>2
    <3>. QED
      BY <3>5, <3>6 DEF JobsOK
  <2>2. ASSUME NEW f \in Executors PROVE AnswersOK(f)'
    <3> SUFFICES ASSUME executor'[f].life # "gone", NEW j \in Jobs, owner'[j] = f
                 PROVE  \E q \in Pools : \/ j \in Over(q)'
                                         \/ PoolOf(f)' = q /\ j \in Unfinished(q)'
      BY DEF AnswersOK
    <3>1. CASE j = job
      <4>1. f = e
        BY <1>5, <3>1 DEF TypeOK
      <4>. QED
        BY <1>1, <1>9, <1>10, <3>1, <4>1
    <3>2. CASE j # job
      <4>1. owner[j] = f
        BY <1>5, <3>2 DEF TypeOK
      <4>2. PICK q \in Pools : j \in Over(q) \/ (PoolOf(f) = q /\ j \in Unfinished(q))
        BY <1>5, <4>1 DEF JobsInv, AnswersOK
      <4>. QED
        BY <1>9, <1>10, <4>2
    <3>. QED
      BY <3>1, <3>2
  <2>. QED
    BY <2>1, <2>2 DEF JobsInv
<1>. QED
  BY <1>12, <1>13, <1>14, <1>15

(* The workers of a run() are added when its jobs are in the queue. *)
LEMMA RunEndKeeps ==
  ASSUME ExecutorsInv, RunEnd
  PROVE  CallInv' /\ PointersInv' /\ VectorsInv' /\ JobsInv'
<1> USE DEF ExecutorsInv
<1>1. PICK e \in Executors, p \in Pools :
        e = main.this /\ p = PoolOf(e) /\ Live(e)
  BY Members DEF RunEnd, CallInv
<1>2. /\ main.op = "submit"
      /\ pool' = [pool EXCEPT ![p].workers = @ + ThreadCount]
      /\ main' = Idle
      /\ UNCHANGED <<executor, rounds, owner>>
  BY <1>1 DEF RunEnd
<1>3. main'.op = "idle" /\ main'.old = None /\ main'.unheard = FALSE
  BY <1>2 DEF Idle
<1>4. /\ OnlyPool(p) /\ Phase(p, pool[p].phase)
      /\ pool'[p].workers = pool[p].workers + ThreadCount
      /\ Work(p, pool[p].pending, pool[p].running, pool[p].done, pool[p].cleared)
  BY <1>2, AddWorkers DEF Workers
<1>5. SameWork
  BY <1>4, SameWorkSteps
<1>6. \A f \in Executors : PoolOf(f)' = PoolOf(f)
  BY <1>2 DEF PoolOf
<1>7. CallInv'
  BY <1>3 DEF CallInv
<1>8. PointersInv'
  <2> SUFFICES ASSUME NEW q \in Pools PROVE PointerOK(q)'
    BY DEF PointersInv
  <2>1. PointerOK(q) /\ PointerOK(p) /\ pool[p].phase = "open"
    BY <1>1, <1>2 DEF PointersInv, PointerOK, BeingDestroyed
  <2>2. CASE q = p
    BY <1>1, <1>2, <1>3, <1>4, <1>6, <2>1, <2>2 DEF PointerOK, BeingDestroyed, Phase
  <2>3. CASE q # p
    <3>1. pool'[q] = pool[q]
      BY <1>4, <2>3 DEF OnlyPool
    <3>. QED
      BY <1>2, <1>3, <1>6, <2>1, <3>1 DEF PointerOK, BeingDestroyed
  <2>. QED
    BY <2>2, <2>3
<1>9. VectorsInv'
  BY <1>2 DEF VectorsInv
<1>10. JobsInv'
  BY <1>2, <1>3, <1>5, <1>6 DEF JobsInv, JobsOK, AnswersOK, SameWork
<1>. QED
  BY <1>7, <1>8, <1>9, <1>10

(* wait() changes nothing but where Main is. *)
LEMMA WaitKeeps ==
  ASSUME ExecutorsInv, (\E e \in Executors : WaitBegin(e)) \/ WaitReturn
  PROVE  CallInv' /\ PointersInv' /\ VectorsInv' /\ JobsInv'
<1> USE DEF ExecutorsInv
<1>1. /\ UNCHANGED <<executor, pool, rounds, owner>>
      /\ main.op \in {"idle", "wait"} /\ main'.op \in {"idle", "wait"}
      /\ main'.old = None /\ main'.unheard = FALSE
      /\ main'.op # "idle" =>
           main'.this \in Executors /\ Live(main'.this) /\ PoolOf(main'.this) # None
  <2>1. ASSUME NEW e \in Executors, WaitBegin(e)
        PROVE  /\ main'.op = "wait" /\ main'.this = e /\ main'.old = None
               /\ main'.unheard = FALSE
               /\ Live(e) /\ PoolOf(e) # None /\ main.op = "idle"
               /\ UNCHANGED <<executor, pool, rounds, owner>>
    BY <2>1 DEF WaitBegin, Idle
  <2>2. ASSUME WaitReturn
        PROVE  /\ main'.op = "idle" /\ main'.old = None /\ main.op = "wait"
               /\ main'.unheard = FALSE
               /\ UNCHANGED <<executor, pool, rounds, owner>>
    BY <2>2 DEF WaitReturn, Idle
  <2>. QED
    BY <2>1, <2>2 DEF Live, PoolOf
<1>2. \A f \in Executors : PoolOf(f)' = PoolOf(f)
  BY <1>1 DEF PoolOf
<1>3. CallInv'
  BY <1>1 DEF CallInv, Live, PoolOf
<1>4. PointersInv'
  BY <1>1, <1>2 DEF PointersInv, PointerOK, BeingDestroyed
<1>5. VectorsInv'
  BY <1>1 DEF VectorsInv
<1>6. JobsInv'
  BY <1>1, <1>2 DEF JobsInv, JobsOK, AnswersOK, Unfinished, Queued, Over
<1>. QED
  BY <1>3, <1>4, <1>5, <1>6

(* A pool, if there is one, is shut down or disappears. *)
LEMMA PhaseChange ==
  ASSUME TypeOK, NEW x \in Pools \cup {None}, NEW phase,
         pool' = IF x = None THEN pool ELSE [pool EXCEPT ![x].phase = phase]
  PROVE  /\ SameWork
         /\ \A q \in Pools : /\ pool'[q].phase = IF q = x THEN phase ELSE pool[q].phase
                             /\ pool'[q].workers = pool[q].workers
                             /\ q # x => pool'[q] = pool[q]
<1>1. CASE x = None
  <2>1. pool' = pool /\ x \notin Pools
    BY <1>1, Constants
  <2>. QED
    BY <2>1 DEF SameWork, Unfinished, Queued, Over
<1>2. CASE x # None
  <2>1. PICK p \in Pools : p = x
    BY <1>2
  <2>2. /\ OnlyPool(p) /\ Phase(p, phase)
        /\ Workers(p, pool[p].workers, pool[p].batches)
        /\ Work(p, pool[p].pending, pool[p].running, pool[p].done, pool[p].cleared)
    BY <1>2, <2>1, SetPhase
  <2>3. SameWork
    BY <2>2, SameWorkSteps
  <2>. QED
    BY <2>1, <2>2, <2>3 DEF OnlyPool, Phase, Workers
<1>. QED
  BY <1>1, <1>2

(* A move gives the pool and the jobs of one executor to another one, and   *)
(* nobody has the pool that one had.                                       *)
LEMMA MoveBeginKeeps ==
  ASSUME ExecutorsInv, NEW e \in Executors, NEW other \in Executors, MoveBegin(e, other)
  PROVE  CallInv' /\ PointersInv' /\ VectorsInv' /\ JobsInv'
<1> USE DEF ExecutorsInv
<1>1. /\ main.op = "idle" /\ executor[e].life # "gone" /\ Live(other) /\ e # other
      /\ rounds' = rounds
  BY DEF MoveBegin
<1>2. \A f \in Executors :
        /\ PoolOf(f)' = IF f = e THEN PoolOf(other)
                        ELSE IF f = other THEN None ELSE PoolOf(f)
        /\ executor'[f].tasks_to_run_ = executor[f].tasks_to_run_
        /\ executor'[f].life = IF f = e THEN "live" ELSE executor[f].life
  BY <1>1 DEF MoveBegin, TypeOK, ExecutorOK, PoolOf, NoExecutor
<1>3. PICK x \in Pools \cup {None} : x = PoolOf(e)
  BY Members
<1>4. /\ main'.op = "move" /\ main'.this = e /\ main'.other = other
      /\ main'.old = x /\ main'.unheard = FALSE
  BY <1>3 DEF MoveBegin, Idle
<1>5. pool' = IF x = None THEN pool ELSE [pool EXCEPT ![x].phase = "closing"]
  BY <1>3 DEF MoveBegin
<1>6. /\ SameWork
      /\ \A q \in Pools : /\ pool'[q].phase = IF q = x THEN "closing" ELSE pool[q].phase
                          /\ pool'[q].workers = pool[q].workers
                          /\ q # x => pool'[q] = pool[q]
  BY <1>5, PhaseChange
<1>7. \A j \in Jobs : owner'[j] = IF owner[j] = other THEN e
                                  ELSE IF owner[j] = e THEN None ELSE owner[j]
  BY DEF MoveBegin
<1>8. CallInv'
  BY <1>1, <1>2, <1>4, <1>6, Constants DEF CallInv, Live
<1>9. PointersInv'
  <2> SUFFICES ASSUME NEW q \in Pools PROVE PointerOK(q)'
    BY DEF PointersInv
  <2>1. /\ PointerOK(q) /\ None # q /\ \A f \in Executors : ~ BeingDestroyed(f)
        /\ \A f \in Executors : ~ BeingDestroyed(f)'
    BY <1>1, <1>4, Constants DEF PointersInv, BeingDestroyed
  <2>2. CASE q = x
    <3>1. pool[q].phase = "open" /\ \A f \in Executors \ {e} : PoolOf(f) # q
      BY <1>3, <2>1, <2>2 DEF PointerOK
    <3>. QED
      BY <1>1, <1>2, <1>4, <1>6, <2>1, <2>2, <3>1 DEF PointerOK
  <2>3. CASE q # x
    <3>1. \A f, g \in Executors : PoolOf(f) = q /\ PoolOf(g) = q => f = g
      BY <2>1 DEF PointerOK
    <3>2. pool[q].phase = "open" => \E f \in Executors : PoolOf(f)' = q
      BY <1>2, <1>3, <2>1, <2>3 DEF PointerOK
    <3>3. ASSUME NEW f \in Executors, PoolOf(f)' = q
          PROVE  pool[q].phase = "open" /\ \A g \in Executors \ {f} : PoolOf(g)' # q
      BY <1>1, <1>2, <2>1, <3>1, <3>3 DEF PointerOK
    <3>. QED
      BY <1>1, <1>4, <1>6, <2>1, <2>3, <3>2, <3>3 DEF PointerOK
  <2>. QED
    BY <2>2, <2>3
<1>10. VectorsInv'
  BY <1>2 DEF VectorsInv
<1>11. JobsInv'
  <2>1. ASSUME NEW q \in Pools PROVE JobsOK(q)'
    <3>1. /\ JobsOK(q) /\ Unfinished(q)' = Unfinished(q) /\ Over(q)' = Over(q)
          /\ Unfinished(q) \subseteq Jobs /\ None # q
      BY <1>6, JobNumbers, Constants DEF SameWork, JobsInv
    <3>2. ASSUME NEW f \in Executors, PoolOf(f)' = q, NEW j \in Unfinished(q)
          PROVE  owner'[j] = f
      BY <1>1, <1>2, <1>7, <3>1, <3>2 DEF JobsOK
    <3>. QED
      BY <1>1, <1>4, <3>1, <3>2 DEF JobsOK
  <2>2. ASSUME NEW f \in Executors PROVE AnswersOK(f)'
    <3> SUFFICES ASSUME executor'[f].life # "gone", NEW j \in Jobs, owner'[j] = f
                 PROVE  \E q \in Pools : \/ j \in Over(q)'
                                         \/ PoolOf(f)' = q /\ j \in Unfinished(q)'
      BY DEF AnswersOK
    <3>1. \A q \in Pools : Unfinished(q)' = Unfinished(q) /\ Over(q)' = Over(q)
      BY <1>6 DEF SameWork
    <3>2. PICK g \in Executors : g = (IF f = e THEN other ELSE f)
      OBVIOUS
    <3>3. /\ owner[j] = g /\ f # other /\ executor[g].life # "gone"
          /\ PoolOf(f)' = PoolOf(g)
      BY <1>1, <1>2, <1>7, <3>2, Constants DEF Live
    <3>4. PICK q \in Pools : j \in Over(q) \/ (PoolOf(g) = q /\ j \in Unfinished(q))
      BY <3>3 DEF JobsInv, AnswersOK
    <3>. QED
      BY <3>1, <3>3, <3>4
  <2>. QED
    BY <2>1, <2>2 DEF JobsInv
<1>. QED
  BY <1>8, <1>9, <1>10, <1>11

(* The move ends when that pool has gone; the vector follows. *)
LEMMA MoveEndKeeps ==
  ASSUME ExecutorsInv, MoveEnd
  PROVE  CallInv' /\ PointersInv' /\ VectorsInv' /\ JobsInv'
<1> USE DEF ExecutorsInv
<1>1. PICK e \in Executors, other \in Executors, x \in Pools \cup {None} :
        e = main.this /\ other = main.other /\ x = main.old /\ e # other
  BY DEF MoveEnd, CallInv, TypeOK, MainOK
<1>2. /\ main.op = "move" /\ main' = Idle /\ UNCHANGED <<rounds, owner>>
      /\ pool' = IF x = None THEN pool ELSE [pool EXCEPT ![x].phase = "gone"]
      /\ x # None => pool[x].running = {} /\ pool[x].phase = "closing"
  BY <1>1 DEF MoveEnd, CallInv
<1>3. main'.op = "idle" /\ main'.old = None /\ main'.unheard = FALSE
  BY <1>2 DEF Idle
<1>4. \A f \in Executors :
        /\ PoolOf(f)' = PoolOf(f)
        /\ executor'[f].life = executor[f].life
        /\ executor'[f].tasks_to_run_ =
             IF f = e THEN executor[other].tasks_to_run_
             ELSE IF f = other THEN <<>> ELSE executor[f].tasks_to_run_
  BY <1>1 DEF MoveEnd, TypeOK, ExecutorOK, PoolOf, NoExecutor
<1>5. /\ SameWork
      /\ \A q \in Pools : /\ pool'[q].phase = IF q = x THEN "gone" ELSE pool[q].phase
                          /\ pool'[q].workers = pool[q].workers
                          /\ q # x => pool'[q] = pool[q]
  BY <1>2, PhaseChange
<1>6. CallInv'
  BY <1>3 DEF CallInv
<1>7. PointersInv'
  <2> SUFFICES ASSUME NEW q \in Pools PROVE PointerOK(q)'
    BY DEF PointersInv
  <2>1. PointerOK(q) /\ q # None
    BY Constants DEF PointersInv
  <2>2. CASE q = x
    <3>1. pool[q].phase = "closing" /\ pool[q].running = {}
      BY <1>2, <2>1, <2>2
    <3>2. \A f \in Executors : PoolOf(f) # q
      BY <1>2, <2>1, <3>1 DEF PointerOK, BeingDestroyed
    <3>3. pool'[q].running = {} /\ pool'[q].phase = "gone" /\ pool'[q].workers = pool[q].workers
      BY <1>5, <2>2, <3>1 DEF SameWork
    <3>. QED
      BY <1>2, <1>3, <1>4, <2>1, <3>1, <3>2, <3>3 DEF PointerOK
  <2>3. CASE q # x
    BY <1>2, <1>3, <1>4, <1>5, <2>1, <2>3 DEF PointerOK, BeingDestroyed
  <2>. QED
    BY <2>2, <2>3
<1>8. VectorsInv'
  <2>1. Distinct(<<>>) /\ Range(<<>>) = {}
    BY DEF Distinct, Range
  <2>2. ASSUME NEW f \in Executors
        PROVE  Distinct(executor'[f].tasks_to_run_)
    BY <1>4, <2>1 DEF VectorsInv
  <2>3. ASSUME NEW f \in Executors, NEW g \in Executors \ {f}
        PROVE  Range(executor'[f].tasks_to_run_) \cap Range(executor'[g].tasks_to_run_) = {}
    <3> DEFINE From(h) == IF h = e THEN other ELSE h
    <3>1. CASE f = other \/ g = other
      BY <1>1, <1>4, <2>1, <3>1
    <3>2. CASE f # other /\ g # other
      <4>1. From(f) # From(g) /\ From(f) \in Executors /\ From(g) \in Executors
        BY <1>1, <3>2
      <4>2. /\ executor'[f].tasks_to_run_ = executor[From(f)].tasks_to_run_
            /\ executor'[g].tasks_to_run_ = executor[From(g)].tasks_to_run_
        BY <1>4, <3>2
      <4> HIDE DEF From
      <4>. QED
        BY <4>1, <4>2 DEF VectorsInv
    <3>. QED
      BY <3>1, <3>2
  <2>. QED
    BY <2>2, <2>3 DEF VectorsInv
<1>9. JobsInv'
  BY <1>2, <1>3, <1>4, <1>5 DEF JobsInv, JobsOK, AnswersOK, SameWork
<1>. QED
  BY <1>6, <1>7, <1>8, <1>9

(* The destructor shuts the pool down ... *)
LEMMA DestroyBeginKeeps ==
  ASSUME ExecutorsInv, NEW e \in Executors, DestroyBegin(e)
  PROVE  CallInv' /\ PointersInv' /\ VectorsInv' /\ JobsInv'
<1> USE DEF ExecutorsInv
<1>1. PICK x \in Pools \cup {None} : x = PoolOf(e)
  BY Members
<1>2. /\ main.op = "idle" /\ Live(e) /\ UNCHANGED <<executor, rounds, owner>>
      /\ pool' = IF x = None THEN pool ELSE [pool EXCEPT ![x].phase = "closing"]
  BY <1>1 DEF DestroyBegin
<1>3. /\ main'.op = "destroy" /\ main'.this = e /\ main'.old = None
      /\ main'.unheard = FALSE
  BY DEF DestroyBegin, Idle
<1>4. \A f \in Executors : PoolOf(f)' = PoolOf(f)
  BY <1>2 DEF PoolOf
<1>5. /\ SameWork
      /\ \A q \in Pools : /\ pool'[q].phase = IF q = x THEN "closing" ELSE pool[q].phase
                          /\ pool'[q].workers = pool[q].workers
                          /\ q # x => pool'[q] = pool[q]
  BY <1>2, PhaseChange
<1>6. CallInv'
  BY <1>2, <1>3 DEF CallInv, Live
<1>7. PointersInv'
  <2> SUFFICES ASSUME NEW q \in Pools PROVE PointerOK(q)'
    BY DEF PointersInv
  <2>1. PointerOK(q) /\ q # None
    BY Constants DEF PointersInv
  <2>2. CASE q = x
    <3>1. pool[q].phase = "open" /\ \A f \in Executors \ {e} : PoolOf(f) # q
      BY <1>1, <1>2, <2>1, <2>2 DEF PointerOK, BeingDestroyed
    <3>. QED
      BY <1>2, <1>3, <1>4, <1>5, <2>1, <2>2, <3>1 DEF PointerOK, BeingDestroyed
  <2>3. CASE q # x
    <3>1. PoolOf(e) # q
      BY <1>1, <2>3
    <3>. QED
      BY <1>2, <1>3, <1>4, <1>5, <2>1, <2>3, <3>1 DEF PointerOK, BeingDestroyed
  <2>. QED
    BY <2>2, <2>3
<1>8. VectorsInv'
  BY <1>2 DEF VectorsInv
<1>9. JobsInv'
  BY <1>2, <1>3, <1>4, <1>5 DEF JobsInv, JobsOK, AnswersOK, SameWork
<1>. QED
  BY <1>6, <1>7, <1>8, <1>9

(* ... and ends when it has gone. *)
LEMMA DestroyEndKeeps ==
  ASSUME ExecutorsInv, DestroyEnd
  PROVE  CallInv' /\ PointersInv' /\ VectorsInv' /\ JobsInv'
<1> USE DEF ExecutorsInv
<1>1. PICK e \in Executors, x \in Pools \cup {None} : e = main.this /\ x = PoolOf(e)
  BY Members DEF DestroyEnd, CallInv
<1>2. /\ main.op = "destroy" /\ main' = Idle /\ UNCHANGED <<rounds, owner>>
      /\ pool' = IF x = None THEN pool ELSE [pool EXCEPT ![x].phase = "gone"]
      /\ x # None => pool[x].running = {}
      /\ executor' = [executor EXCEPT ![e] = [NoExecutor EXCEPT !.life = "gone"]]
  BY <1>1 DEF DestroyEnd
<1>3. main'.op = "idle" /\ main'.old = None /\ main'.unheard = FALSE
  BY <1>2 DEF Idle
<1>4. \A f \in Executors :
        /\ PoolOf(f)' = IF f = e THEN None ELSE PoolOf(f)
        /\ executor'[f].life = IF f = e THEN "gone" ELSE executor[f].life
        /\ executor'[f].tasks_to_run_ =
             IF f = e THEN <<>> ELSE executor[f].tasks_to_run_
  BY <1>2 DEF TypeOK, ExecutorOK, PoolOf, NoExecutor
<1>5. /\ SameWork
      /\ \A q \in Pools : /\ pool'[q].phase = IF q = x THEN "gone" ELSE pool[q].phase
                          /\ pool'[q].workers = pool[q].workers
                          /\ q # x => pool'[q] = pool[q]
  BY <1>2, PhaseChange
<1>6. CallInv'
  BY <1>3 DEF CallInv
<1>7. PointersInv'
  <2> SUFFICES ASSUME NEW q \in Pools PROVE PointerOK(q)'
    BY DEF PointersInv
  <2>1. PointerOK(q) /\ q # None
    BY Constants DEF PointersInv
  <2>2. CASE q = x
    <3>1. pool[q].phase = "closing" /\ \A f \in Executors \ {e} : PoolOf(f) # q
      BY <1>1, <1>2, <2>1, <2>2 DEF PointerOK, BeingDestroyed
    <3>2. pool'[q].running = {} /\ pool'[q].phase = "gone" /\ pool'[q].workers = pool[q].workers
      BY <1>2, <1>5, <2>1, <2>2 DEF SameWork
    <3>. QED
      BY <1>2, <1>3, <1>4, <2>1, <3>1, <3>2 DEF PointerOK
  <2>3. CASE q # x
    <3>1. PoolOf(e) # q
      BY <1>1, <2>3
    <3>2. \A f \in Executors : BeingDestroyed(f) => f = e
      BY <1>1 DEF BeingDestroyed
    <3>. QED
      BY <1>2, <1>3, <1>4, <1>5, <2>1, <2>3, <3>1, <3>2 DEF PointerOK, BeingDestroyed
  <2>. QED
    BY <2>2, <2>3
<1>8. VectorsInv'
  <2>1. Distinct(<<>>) /\ Range(<<>>) = {}
    BY DEF Distinct, Range
  <2>. QED
    BY <1>4, <2>1 DEF VectorsInv
<1>9. JobsInv'
  <2>1. \A q \in Pools : None # q
    BY Constants
  <2>. QED
    BY <1>2, <1>3, <1>4, <1>5, <2>1 DEF JobsInv, JobsOK, AnswersOK, SameWork
<1>. QED
  BY <1>6, <1>7, <1>8, <1>9

------------------------------------------------------------------------------
(* The invariant. *)

(* A wait() sleeps on only while its pool has a job, or because it cannot    *)
(* have heard of the cancel that dropped the last one.                     *)
LEMMA SleeperStep ==
  ASSUME TypeOK, CallInv, PointersInv, SleeperIsWoken, [Next]_vars
  PROVE  SleeperIsWoken'
<1>1. ASSUME main'.op # "asleep" PROVE SleeperIsWoken'
  BY <1>1 DEF SleeperIsWoken
<1>2. ASSUME UNCHANGED <<executor, main>>,
             \A p \in Pools : Unfinished(p)' = Unfinished(p)
      PROVE  SleeperIsWoken'
  <2> SUFFICES ASSUME main.op = "asleep", Unfinished(PoolOf(main.this))' = {}
               PROVE  main.unheard
    BY <1>2 DEF SleeperIsWoken
  <2>1. PoolOf(main.this) \in Pools /\ PoolOf(main.this)' = PoolOf(main.this)
    BY <1>2, Constants DEF CallInv, TypeOK, ExecutorOK, PoolOf
  <2>. QED
    BY <1>2, <2>1 DEF SleeperIsWoken, Unfinished, Queued, PoolOf
<1>3. ASSUME NEW e \in Executors, cancel(e) PROVE SleeperIsWoken'
  <2>0. main'.op = main.op
    BY <1>3 DEF cancel, TypeOK, MainOK, Idle
  <2> SUFFICES ASSUME main.op = "asleep", Unfinished(PoolOf(main.this))' = {}
               PROVE  main'.unheard
    BY <2>0 DEF SleeperIsWoken
  <2>1. PICK p \in Reached(e) \ {None} :
          /\ pool' = [pool EXCEPT ![p].cleared = @ \cup Queued(p), ![p].pending = <<>>]
          /\ main' = [main EXCEPT !.unheard =
                        @ \/ (Asleep(p) /\ pool[p].running = {})]
          /\ executor' = executor
    BY <1>3 DEF cancel
  <2>2. p \in Pools
    BY <2>1, ReachedPool
  <2>3. /\ OnlyPool(p)
        /\ Work(p, <<>>, pool[p].running, pool[p].done, pool[p].cleared \cup Queued(p))
    BY <2>1, <2>2, ClearJobs
  <2>4. /\ main'.this = main.this
        /\ main'.unheard = (main.unheard \/ (Asleep(p) /\ pool[p].running = {}))
    BY <2>1 DEF TypeOK, MainOK, Idle
  <2>5. PICK q \in Pools : q = PoolOf(main.this) /\ q = PoolOf(main.this)'
    BY <2>1, <2>4, Constants DEF CallInv, TypeOK, ExecutorOK, PoolOf
  <2>6. Unfinished(q)' = {}
    BY <2>5
  <2>7. CASE q = p
    <3>1. Unfinished(q)' = Queued(q)' \cup pool'[q].running
      BY DEF Unfinished
    <3>2. pool[p].running = {}
      BY <2>3, <2>6, <2>7, <3>1 DEF Work
    <3>. QED
      BY <2>4, <2>5, <2>7, <3>2 DEF Asleep
  <2>8. CASE q # p
    <3>1. Unfinished(q) = {}
      BY <2>3, <2>6, <2>8 DEF OnlyPool, Unfinished, Queued
    <3>2. main.unheard
      BY <2>5, <3>1 DEF SleeperIsWoken
    <3>. QED
      BY <2>4, <3>2
  <2>. QED
    BY <2>7, <2>8
<1>4. ASSUME NEW p \in Pools, JobStart(p) PROVE SleeperIsWoken'
  <2>1. pool' = [pool EXCEPT ![p].running = @ \cup {Head(pool[p].pending)},
                             ![p].pending = Tail(@)]
        /\ pool[p].pending \in Seq(Jobs) /\ pool[p].pending # <<>>
    BY <1>4, PoolIsOK DEF JobStart
  <2>2. /\ OnlyPool(p)
        /\ Work(p, Tail(pool[p].pending), pool[p].running \cup {Head(pool[p].pending)},
                pool[p].done, pool[p].cleared)
    BY <2>1, StartJob
  <2>3. Range(pool[p].pending) = Range(Tail(pool[p].pending)) \cup {Head(pool[p].pending)}
    BY <2>1, RangeOfTail
  <2>4. \A q \in Pools : Unfinished(q)' = Unfinished(q)
    BY <2>2, <2>3 DEF OnlyPool, Work, Unfinished, Queued
  <2>. QED
    BY <1>2, <1>4, <2>4 DEF JobStart
<1>5. ASSUME NEW p \in Pools, NEW j \in Jobs, JobEnd(p, j) PROVE SleeperIsWoken'
  <2> SUFFICES ASSUME main'.op = "asleep", Unfinished(PoolOf(main.this))' = {}
               PROVE  main'.unheard
    BY <1>1, <1>5, SameCallSteps DEF SleeperIsWoken, SameCall
  <2>1. /\ pool' = [pool EXCEPT ![p].running = @ \ {j}, ![p].done = @ \cup {j}]
        /\ executor' = executor
        /\ j \in pool[p].running
    BY <1>5 DEF JobEnd
  <2>2. main' = main /\ ~ (Asleep(p) /\ Unfinished(p) = {j})
    BY <1>5 DEF JobEnd, Woken, TypeOK, MainOK, Idle
  <2>3. /\ OnlyPool(p)
        /\ Work(p, pool[p].pending, pool[p].running \ {j},
                pool[p].done \cup {j}, pool[p].cleared)
    BY <2>1, EndJob
  <2>4. PICK q \in Pools : q = PoolOf(main.this) /\ q = PoolOf(main.this)'
    BY <2>1, <2>2, Constants DEF CallInv, TypeOK, ExecutorOK, PoolOf
  <2>5. Unfinished(q)' = {}
    BY <2>2, <2>4
  <2>6. CASE q = p
    <3>1. Unfinished(p)' = Queued(p) \cup (pool[p].running \ {j})
      BY <2>3 DEF Unfinished, Queued, Work
    <3>2. Unfinished(p) = {j}
      BY <2>1, <2>5, <2>6, <3>1 DEF Unfinished
    <3>. QED
      BY <2>2, <2>4, <2>6, <3>2 DEF Asleep
  <2>7. CASE q # p
    <3>1. Unfinished(q) = {}
      BY <2>3, <2>5, <2>7 DEF OnlyPool, Unfinished, Queued
    <3>. QED
      BY <2>2, <2>4, <3>1 DEF SleeperIsWoken
  <2>. QED
    BY <2>6, <2>7
<1>6. ASSUME UNCHANGED <<executor, main, pool>> PROVE SleeperIsWoken'
  <2>1. \A p \in Pools : Unfinished(p)' = Unfinished(p)
    BY <1>6 DEF Unfinished, Queued
  <2>. QED
    BY <1>2, <1>6, <2>1
<1>7. WaitBlock => SleeperIsWoken'
  BY DEF WaitBlock, SleeperIsWoken, Unfinished, Queued, PoolOf, TypeOK, MainOK, Idle
<1>8. MainStep \/ WaitSpurious => WaitBlock \/ main'.op # "asleep"
  <2>1. main' = Idle => main'.op # "asleep"
    BY DEF Idle
  <2>2. Submit => main'.op # "asleep"
    BY DEF Submit, TypeOK, MainOK, Idle
  <2>3. WaitSpurious => main'.op # "asleep"
    BY DEF WaitSpurious, Woken, TypeOK, MainOK, Idle
  <2>. QED
    BY <2>1, <2>2, <2>3 DEF MainStep, RunEnd, WaitReturn, MoveEnd, DestroyEnd
<1>9. ASSUME NEW e \in Executors,
             \/ Construct(e) \/ RunBegin(e) \/ WaitBegin(e) \/ DestroyBegin(e)
             \/ \E t \in Tasks : add_task(e, t)
             \/ \E other \in Executors : MoveBegin(e, other)
      PROVE  main'.op # "asleep"
  BY <1>9 DEF Construct, RunBegin, WaitBegin, DestroyBegin, add_task, MoveBegin, Idle
<1>. QED
  BY <1>1, <1>3, <1>4, <1>5, <1>6, <1>7, <1>8, <1>9
  DEF Next, TaskStep, Enter, Publish, vars

(* At first there is no executor, no pool and no job. *)
LEMMA InitExecutorsInv == Init => ExecutorsInv
<1> SUFFICES ASSUME Init PROVE ExecutorsInv
  OBVIOUS
<1>1. /\ executor = [e \in Executors |-> NoExecutor] /\ main = Idle
      /\ pool = [p \in Pools |-> NoPool] /\ rounds = 0
      /\ entered = {} /\ published = {} /\ owner = [j \in Jobs |-> None]
  BY DEF Init
<1>2. \A e \in Executors : /\ executor[e] = NoExecutor /\ PoolOf(e) = None
                           /\ executor[e].tasks_to_run_ = <<>>
  BY <1>1 DEF PoolOf, NoExecutor
<1>3. \A p \in Pools : /\ pool[p] = NoPool
                       /\ Unfinished(p) = {} /\ Over(p) = {}
  BY <1>1 DEF NoPool, Unfinished, Queued, Over, Range
<1>4. TypeOK
  <2>1. <<>> \in Seq(Jobs) /\ <<>> \in Seq(Tasks) /\ IsFiniteSet({})
    BY FS_EmptySet
  <2>2. \A e \in Executors : ExecutorOK(e)
    <3>1. \A e \in Executors : /\ DOMAIN executor[e] = DOMAIN NoExecutor
                               /\ executor[e].life = "unborn"
                               /\ executor[e].pool_ = None
      BY <1>2 DEF NoExecutor
    <3>. QED
      BY <1>2, <2>1, <3>1 DEF ExecutorOK
  <2>3. \A p \in Pools : PoolOK(p)
    <3>1. \A p \in Pools :
            /\ DOMAIN pool[p] = DOMAIN NoPool /\ pool[p].phase = "unborn"
            /\ pool[p].workers = 0 /\ pool[p].batches = 0 /\ pool[p].pending = <<>>
            /\ pool[p].running = {} /\ pool[p].done = {} /\ pool[p].cleared = {}
      BY <1>3 DEF NoPool
    <3>2. ASSUME NEW p \in Pools PROVE PoolOK(p)
      <4>1. pool[p].running \cup pool[p].done \cup pool[p].cleared \subseteq Jobs
        BY <3>1
      <4>2. /\ DOMAIN pool[p] = DOMAIN NoPool
            /\ pool[p].phase \in {"unborn", "open", "closing", "gone"}
            /\ pool[p].workers \in Nat /\ pool[p].batches \in Nat
        BY <3>1
      <4>3. pool[p].pending \in Seq(Jobs) /\ IsFiniteSet(pool[p].running)
        BY <2>1, <3>1
      <4>. QED
        BY <4>1, <4>2, <4>3 DEF PoolOK
    <3>. QED
      BY <3>2
  <2>4. MainOK
    BY <1>1 DEF MainOK, Idle
  <2>. QED
    BY <1>1, <2>2, <2>3, <2>4, Constants DEF TypeOK
<1>5. CallInv
  BY <1>1 DEF CallInv, Idle
<1>6. PointersInv
  BY <1>1, <1>2, <1>3, Constants DEF PointersInv, PointerOK, NoPool, Idle
<1>7. VectorsInv
  BY <1>2 DEF VectorsInv, Distinct, Range
<1>8. JobsInv
  BY <1>1, <1>2, <1>3, Constants DEF JobsInv, JobsOK, AnswersOK
<1>9. SleeperIsWoken
  BY <1>1 DEF SleeperIsWoken, Idle
<1>. QED
  BY <1>4, <1>5, <1>6, <1>7, <1>8, <1>9 DEF ExecutorsInv

(* The invariant holds in every reachable state, for any acyclic graph of   *)
(* tasks and whatever is run, moved, cancelled and destroyed.              *)
THEOREM ExecutorsInvariant == Spec => []ExecutorsInv
<1>1. ExecutorsInv /\ [Next]_vars => ExecutorsInv'
  <2> SUFFICES ASSUME ExecutorsInv, [Next]_vars PROVE ExecutorsInv'
    OBVIOUS
  <2>1. TypeOK'
    BY TypeOKStep DEF ExecutorsInv
  <2>2. CallInv' /\ PointersInv' /\ VectorsInv' /\ JobsInv'
    <3>1. Quiet => CallInv' /\ PointersInv' /\ VectorsInv' /\ JobsInv'
      BY QuietKeeps DEF ExecutorsInv
    <3>2. /\ \A e \in Executors : cancel(e) => Quiet
          /\ \A p \in Pools : JobStart(p) => Quiet
          /\ \A p \in Pools, j \in Jobs : TaskStep(p, j) => Quiet
          /\ WaitBlock \/ WaitSpurious => Quiet
          /\ UNCHANGED vars => Quiet
      BY QuietSteps DEF ExecutorsInv
    <3>. QED
      BY <3>1, <3>2, ConstructKeeps, AddTaskKeeps, RunBeginKeeps, SubmitKeeps,
         RunEndKeeps, WaitKeeps, MoveBeginKeeps, MoveEndKeeps, DestroyBeginKeeps,
         DestroyEndKeeps
      DEF Next, MainStep
  <2>3. SleeperIsWoken'
    BY SleeperStep DEF ExecutorsInv
  <2>. QED
    BY <2>1, <2>2, <2>3 DEF ExecutorsInv
<1>. QED
  BY <1>1, InitExecutorsInv, PTL DEF Spec

(* A wait() that sleeps on while its executor has nothing left to do has    *)
(* missed a cancel() from the callable of another pool, and nothing else.  *)
THEOREM OnlyCancelIsUnheard == Spec => []SleeperIsWoken
<1>1. ExecutorsInv => SleeperIsWoken
  BY DEF ExecutorsInv
<1>. QED
  BY <1>1, ExecutorsInvariant, PTL

(* A working pool has one executor, which answers for all its jobs, and no  *)
(* two executors have a task or a pool in common.                          *)
THEOREM PoolsHaveOneOwner == Spec => []EverythingHasOneOwner
<1>1. ExecutorsInv => EverythingHasOneOwner
  <2> SUFFICES ASSUME ExecutorsInv PROVE EverythingHasOneOwner
    OBVIOUS
  <2> USE DEF ExecutorsInv
  <2>1. ASSUME NEW e \in Executors, NEW f \in Executors, e # f
        PROVE  /\ PoolOf(e) = PoolOf(f) => PoolOf(e) = None
               /\ Range(executor[e].tasks_to_run_)
                    \cap Range(executor[f].tasks_to_run_) = {}
    BY <2>1, Members DEF PointersInv, PointerOK, VectorsInv
  <2>2. ASSUME NEW p \in Pools
        PROVE  /\ pool[p].phase = "open" =>
                    \E e \in Executors :
                      PoolOf(e) = p /\ \A j \in Unfinished(p) : owner[j] = e
               /\ pool[p].phase = "gone" => pool[p].running = {}
    BY DEF PointersInv, PointerOK, JobsInv, JobsOK
  <2>. QED
    BY <2>1, <2>2 DEF EverythingHasOneOwner
<1>. QED
  BY <1>1, ExecutorsInvariant, PTL

(* A wait() that returns has covered all the jobs its executor answers for, *)
(* those of executors that were moved to it included.                      *)
THEOREM WaitIsRightAfterMoves == Spec => WaitCoversMoves
<1>1. ExecutorsInv /\ [Next]_vars =>
        (WaitReturn => \A j \in Jobs :
           owner[j] = main.this =>
             \E p \in Pools : j \in pool[p].done \cup pool[p].cleared)
  <2> SUFFICES ASSUME ExecutorsInv, WaitReturn,
                      NEW j \in Jobs, owner[j] = main.this
               PROVE  \E p \in Pools : j \in pool[p].done \cup pool[p].cleared
    OBVIOUS
  <2> USE DEF ExecutorsInv
  <2>1. /\ main.this \in Executors /\ Live(main.this)
        /\ Unfinished(PoolOf(main.this)) = {}
    BY DEF WaitReturn, CallInv
  <2>2. PICK p \in Pools : \/ j \in Over(p)
                           \/ PoolOf(main.this) = p /\ j \in Unfinished(p)
    BY <2>1 DEF JobsInv, AnswersOK, Live
  <2>. QED
    BY <2>1, <2>2 DEF Over
<1>. QED
  BY <1>1, ExecutorsInvariant, PTL DEF Spec, WaitCoversMoves

------------------------------------------------------------------------------
(* Every pool is used as JobPool allows. *)

(* Pools not made yet are as JobPool begins. *)
LEMMA JobPoolsBegin == Init => \A p \in Pools : JobPoolOf(p)!Init
<1> SUFFICES ASSUME Init, NEW p \in Pools PROVE JobPoolOf(p)!Init
  OBVIOUS
<1>1. pool[p] = NoPool /\ main.op = "idle"
  BY DEF Init, Idle
<1>. QED
  BY <1>1 DEF JobPoolOf!Init, NoPool

(* What JobPool sees of a pool: the jobs, the phase once it is made, and     *)
(* whether Main waits for it.                                              *)
SameJobs(p) ==
  /\ pool'[p].pending = pool[p].pending /\ pool'[p].running = pool[p].running
  /\ pool'[p].done = pool[p].done /\ pool'[p].cleared = pool[p].cleared
PhaseOf(p) == IF pool[p].phase = "unborn" THEN "open" ELSE pool[p].phase
WaitsFor(p) ==
  IF main.op \in {"wait", "asleep"} /\ PoolOf(main.this) = p THEN {"main"} ELSE {}

JobPoolStep(p) == JobPoolOf(p)!Next \/ UNCHANGED JobPoolOf(p)!vars

(* A pool that looks the same to JobPool has made no step, ... *)
LEMMA JobPoolStutters ==
  ASSUME NEW p \in Pools, SameJobs(p), PhaseOf(p)' = PhaseOf(p), WaitsFor(p)' = WaitsFor(p)
  PROVE  JobPoolStep(p)
BY DEF SameJobs, PhaseOf, WaitsFor, JobPoolStep, JobPoolOf!vars

(* ... in particular one that is the same. *)
LEMMA OtherPoolStutters ==
  ASSUME NEW p \in Pools, pool'[p] = pool[p], WaitsFor(p)' = WaitsFor(p)
  PROVE  JobPoolStep(p)
BY JobPoolStutters DEF SameJobs, PhaseOf

(* Outside wait() no pool is waited for. *)
LEMMA NobodyWaits ==
  ASSUME ~ Waiting(main.op), ~ Waiting(main'.op), NEW p
  PROVE  WaitsFor(p) = {} /\ WaitsFor(p)' = {}
BY DEF WaitsFor, Waiting

(* Who waits depends on the executors and on the call Main is in. *)
LEMMA SameWaits ==
  ASSUME executor' = executor, SameCall, NEW p
  PROVE  WaitsFor(p)' = WaitsFor(p)
BY DEF WaitsFor, PoolOf, SameCall, Waiting

(* A pool that is shut down was open. *)
LEMMA ShutdownStep ==
  ASSUME TypeOK, NEW x \in Pools \cup {None},
         pool' = IF x = None THEN pool ELSE [pool EXCEPT ![x].phase = "closing"],
         x # None => pool[x].phase = "open",
         ~ Waiting(main.op), ~ Waiting(main'.op), NEW p \in Pools
  PROVE  JobPoolStep(p)
<1>1. WaitsFor(p) = {} /\ WaitsFor(p)' = {}
  BY NobodyWaits
<1>2. CASE p # x
  <2>1. pool'[p] = pool[p]
    BY <1>2, PhaseChange
  <2>. QED
    BY <1>1, <2>1, OtherPoolStutters
<1>3. CASE p = x
  <2>1. /\ Phase(p, "closing")
        /\ Work(p, pool[p].pending, pool[p].running, pool[p].done, pool[p].cleared)
        /\ pool[p].phase = "open"
    BY <1>3, SetPhase, Constants
  <2>2. SameJobs(p) /\ PhaseOf(p) = "open" /\ PhaseOf(p)' = "closing"
    BY <2>1 DEF SameJobs, PhaseOf, Phase, Work
  <2>3. JobPoolOf(p)!Shutdown
    BY <1>1, <2>2 DEF SameJobs, PhaseOf, WaitsFor, JobPoolOf!Shutdown
  <2>. QED
    BY <2>3 DEF JobPoolStep, JobPoolOf!Next
<1>. QED
  BY <1>2, <1>3

(* A pool disappears when nothing executes in it. *)
LEMMA VanishStep ==
  ASSUME TypeOK, NEW x \in Pools \cup {None},
         pool' = IF x = None THEN pool ELSE [pool EXCEPT ![x].phase = "gone"],
         x # None => pool[x].phase = "closing" /\ pool[x].running = {},
         ~ Waiting(main.op), ~ Waiting(main'.op), NEW p \in Pools
  PROVE  JobPoolStep(p)
<1>1. WaitsFor(p) = {} /\ WaitsFor(p)' = {}
  BY NobodyWaits
<1>2. CASE p # x
  <2>1. pool'[p] = pool[p]
    BY <1>2, PhaseChange
  <2>. QED
    BY <1>1, <2>1, OtherPoolStutters
<1>3. CASE p = x
  <2>1. /\ Phase(p, "gone")
        /\ Work(p, pool[p].pending, pool[p].running, pool[p].done, pool[p].cleared)
        /\ pool[p].phase = "closing" /\ pool[p].running = {}
    BY <1>3, SetPhase, Constants
  <2>2. SameJobs(p) /\ PhaseOf(p) = "closing" /\ PhaseOf(p)' = "gone"
    BY <2>1 DEF SameJobs, PhaseOf, Phase, Work
  <2>3. JobPoolOf(p)!Vanish
    BY <1>1, <2>1, <2>2 DEF SameJobs, PhaseOf, WaitsFor, JobPoolOf!Vanish
  <2>. QED
    BY <2>3 DEF JobPoolStep, JobPoolOf!Next
<1>. QED
  BY <1>2, <1>3

(* cancel() clears the queue of one pool. *)
LEMMA CancelStep ==
  ASSUME ExecutorsInv, NEW e \in Executors, cancel(e), NEW p \in Pools
  PROVE  JobPoolStep(p)
<1> USE DEF ExecutorsInv
<1>1. PICK x \in Reached(e) \ {None} :
        pool' = [pool EXCEPT ![x].cleared = @ \cup Queued(x), ![x].pending = <<>>]
  BY DEF cancel
<1>2. WaitsFor(p)' = WaitsFor(p)
  BY SameWaits, SameCallSteps DEF cancel
<1>3. x \in Pools /\ pool[x].phase \in {"open", "closing"}
  BY <1>1, ReachedPool
<1>4. /\ OnlyPool(x) /\ Phase(x, pool[x].phase)
      /\ Work(x, <<>>, pool[x].running, pool[x].done, pool[x].cleared \cup Queued(x))
  BY <1>1, <1>3, ClearJobs
<1>5. CASE p # x
  BY <1>2, <1>4, <1>5, OtherPoolStutters DEF OnlyPool
<1>6. CASE p = x
  <2>1. JobPoolOf(p)!QueuedJobs = Queued(p)
    BY DEF JobPoolOf!QueuedJobs, Queued, Range
  <2>2. PhaseOf(p)' = PhaseOf(p) /\ PhaseOf(p) # "gone"
    BY <1>3, <1>4, <1>6 DEF PhaseOf, Phase
  <2>3. JobPoolOf(p)!Clear
    BY <1>2, <1>4, <1>6, <2>1, <2>2 DEF JobPoolOf!Clear, Work, PhaseOf, WaitsFor
  <2>. QED
    BY <2>3 DEF JobPoolStep, JobPoolOf!Next
<1>. QED
  BY <1>5, <1>6

(* A worker takes the oldest job, and no more execute than run() made workers. *)
LEMMA StartStep ==
  ASSUME ExecutorsInv, NEW x \in Pools, JobStart(x), NEW p \in Pools
  PROVE  JobPoolStep(p)
<1> USE DEF ExecutorsInv
<1>1. /\ pool' = [pool EXCEPT ![x].running = @ \cup {Head(pool[x].pending)},
                              ![x].pending = Tail(@)]
      /\ pool[x].phase \in {"open", "closing"} /\ pool[x].pending # <<>>
      /\ Cardinality(pool[x].running) < pool[x].workers
  BY DEF JobStart
<1>2. WaitsFor(p)' = WaitsFor(p)
  BY SameWaits, SameCallSteps DEF JobStart
<1>3. /\ OnlyPool(x) /\ Phase(x, pool[x].phase)
      /\ Work(x, Tail(pool[x].pending), pool[x].running \cup {Head(pool[x].pending)},
              pool[x].done, pool[x].cleared)
  BY <1>1, StartJob
<1>4. CASE p # x
  BY <1>2, <1>3, <1>4, OtherPoolStutters DEF OnlyPool
<1>5. CASE p = x
  <2>1. PhaseOf(p)' = PhaseOf(p) /\ PhaseOf(p) # "gone"
    BY <1>1, <1>3, <1>5 DEF PhaseOf, Phase
  <2>2. Cardinality(pool[p].running) < MaxRounds * ThreadCount
    <3>1. Cardinality(pool[p].running) \in Nat
      BY PoolIsOK, FS_CardinalityType
    <3>2. pool[p].workers <= rounds * ThreadCount
      BY DEF PointersInv, PointerOK
    <3>3. rounds * ThreadCount <= MaxRounds * ThreadCount
      BY Constants DEF TypeOK
    <3>4. rounds * ThreadCount \in Nat /\ MaxRounds * ThreadCount \in Nat
      BY Constants DEF TypeOK
    <3>5. pool[p].workers \in Nat
      BY PoolIsOK
    <3>. QED
      BY <1>1, <1>5, <3>1, <3>2, <3>3, <3>4, <3>5
  <2>3. JobPoolOf(p)!Cardinality(pool[p].running) = Cardinality(pool[p].running)
    BY DEF JobPoolOf!Cardinality, Cardinality
  <2>4. JobPoolOf(p)!Start
    BY <1>1, <1>2, <1>3, <1>5, <2>1, <2>2, <2>3
    DEF JobPoolOf!Start, Work, PhaseOf, WaitsFor
  <2>. QED
    BY <2>4 DEF JobPoolStep, JobPoolOf!Next
<1>. QED
  BY <1>4, <1>5

(* A job that ends was executing. *)
LEMMA EndStep ==
  ASSUME ExecutorsInv, NEW x \in Pools, NEW j \in Jobs, JobEnd(x, j), NEW p \in Pools
  PROVE  JobPoolStep(p)
<1> USE DEF ExecutorsInv
<1>1. /\ pool' = [pool EXCEPT ![x].running = @ \ {j}, ![x].done = @ \cup {j}]
      /\ j \in pool[x].running
  BY DEF JobEnd
<1>2. WaitsFor(p)' = WaitsFor(p)
  BY SameWaits, SameCallSteps DEF JobEnd
<1>3. /\ OnlyPool(x) /\ Phase(x, pool[x].phase)
      /\ Work(x, pool[x].pending, pool[x].running \ {j}, pool[x].done \cup {j},
              pool[x].cleared)
  BY <1>1, EndJob
<1>4. CASE p # x
  BY <1>2, <1>3, <1>4, OtherPoolStutters DEF OnlyPool
<1>5. CASE p = x
  <2>1. PhaseOf(p)' = PhaseOf(p)
    BY <1>3, <1>5 DEF PhaseOf, Phase
  <2>2. JobPoolOf(p)!Finish(j)
    BY <1>1, <1>2, <1>3, <1>5, <2>1 DEF JobPoolOf!Finish, Work, PhaseOf, WaitsFor
  <2>. QED
    BY <2>2 DEF JobPoolStep, JobPoolOf!Next
<1>. QED
  BY <1>4, <1>5

(* What run() submits goes to the end of the queue, and is new. *)
LEMMA SubmitStep ==
  ASSUME ExecutorsInv, Submit, NEW p \in Pools
  PROVE  JobPoolStep(p)
<1> USE DEF ExecutorsInv
<1>1. PICK x \in Pools, job \in Jobs :
        /\ x = PoolOf(main.this)
        /\ job = <<executor[main.this].tasks_to_run_[main.next], rounds>>
        /\ pool' = [pool EXCEPT ![x].pending = Append(@, job)]
  BY SubmittedJob, Members DEF Submit, CallInv
<1>2. WaitsFor(p) = {} /\ WaitsFor(p)' = {}
  BY NobodyWaits DEF Submit, TypeOK, MainOK, Idle, Waiting
<1>3. /\ OnlyPool(x) /\ Phase(x, pool[x].phase)
      /\ Work(x, Append(pool[x].pending, job), pool[x].running, pool[x].done,
              pool[x].cleared)
  BY <1>1, AddJob
<1>4. CASE p # x
  BY <1>2, <1>3, <1>4, OtherPoolStutters DEF OnlyPool
<1>5. CASE p = x
  <2>1. main.this \in Executors /\ main.op = "submit"
    BY DEF Submit, CallInv
  <2>2. pool[p].phase = "open"
    BY <1>1, <1>5, <2>1 DEF PointersInv, PointerOK, BeingDestroyed
  <2>3. PhaseOf(p)' = PhaseOf(p) /\ PhaseOf(p) # "gone"
    BY <1>3, <1>5, <2>2 DEF PhaseOf, Phase
  <2>4. job \notin Unfinished(p) \cup Over(p)
    BY <1>1, NewJob
  <2>5. JobPoolOf(p)!Known = Unfinished(p) \cup Over(p)
    BY DEF JobPoolOf!Known, JobPoolOf!QueuedJobs, Unfinished, Over, Queued, Range
  <2>6. JobPoolOf(p)!Submit(job)
    BY <1>2, <1>3, <1>5, <2>3, <2>4, <2>5
    DEF JobPoolOf!Submit, Work, PhaseOf, WaitsFor
  <2>. QED
    BY <2>6 DEF JobPoolStep, JobPoolOf!Next
<1>. QED
  BY <1>4, <1>5

(* A queue in which nothing is queued is empty. *)
LEMMA NothingQueued ==
  ASSUME NEW S, NEW queue \in Seq(S), Range(queue) = {}
  PROVE  queue = <<>>
<1>1. \A i \in DOMAIN queue : queue[i] \in Range(queue)
  BY DEF Range
<1>2. Len(queue) \in Nat /\ DOMAIN queue = 1 .. Len(queue)
  BY LenProperties
<1>3. 1 \notin DOMAIN queue
  BY <1>1
<1>4. Len(queue) = 0
  BY <1>2, <1>3
<1>. QED
  BY <1>4, EmptySeq

(* wait() begins at a pool that works and returns when it has nothing left. *)
LEMMA WaitStep ==
  ASSUME ExecutorsInv, NEW p \in Pools,
         (\E e \in Executors : WaitBegin(e)) \/ WaitReturn
  PROVE  JobPoolStep(p)
<1> USE DEF ExecutorsInv
<1>1. SameJobs(p) /\ PhaseOf(p)' = PhaseOf(p) /\ executor' = executor
  BY DEF WaitBegin, WaitReturn, SameJobs, PhaseOf
<1>2. ASSUME NEW e \in Executors, WaitBegin(e) PROVE JobPoolStep(p)
  <2>1. main.op = "idle" /\ main'.op = "wait" /\ main'.this = e
    BY <1>2 DEF WaitBegin, Idle
  <2>2. CASE PoolOf(e) # p
    <3>1. WaitsFor(p)' = WaitsFor(p)
      BY <1>1, <2>1, <2>2 DEF WaitsFor, PoolOf
    <3>. QED
      BY <1>1, <3>1, JobPoolStutters
  <2>3. CASE PoolOf(e) = p
    <3>1. WaitsFor(p) = {} /\ WaitsFor(p)' = {"main"}
      BY <1>1, <2>1, <2>3 DEF WaitsFor, PoolOf
    <3>2. pool[p].phase = "open"
      BY <2>1, <2>3 DEF PointersInv, PointerOK, BeingDestroyed
    <3>3. JobPoolOf(p)!Wait("main")
      BY <1>1, <3>1, <3>2 DEF JobPoolOf!Wait, SameJobs, PhaseOf, WaitsFor
    <3>. QED
      BY <3>3 DEF JobPoolStep, JobPoolOf!Next
  <2>. QED
    BY <2>2, <2>3
<1>3. ASSUME WaitReturn PROVE JobPoolStep(p)
  <2>1. main.op = "wait" /\ main'.op = "idle" /\ Unfinished(PoolOf(main.this)) = {}
    BY <1>3 DEF WaitReturn, Idle
  <2>2. CASE PoolOf(main.this) # p
    <3>1. WaitsFor(p)' = WaitsFor(p)
      BY <2>1, <2>2 DEF WaitsFor
    <3>. QED
      BY <1>1, <3>1, JobPoolStutters
  <2>3. CASE PoolOf(main.this) = p
    <3>1. WaitsFor(p) = {"main"} /\ WaitsFor(p)' = {}
      BY <2>1, <2>3 DEF WaitsFor
    <3>2. pool[p].running = {} /\ pool[p].pending = <<>>
      <4>1. Queued(p) = {} /\ pool[p].running = {} /\ pool[p].pending \in Seq(Jobs)
        BY <2>1, <2>3, PoolIsOK DEF Unfinished
      <4>2. pool[p].pending = <<>>
        BY <4>1, NothingQueued DEF Queued
      <4>. QED
        BY <4>1, <4>2
    <3>3. JobPoolOf(p)!Return("main")
      BY <1>1, <3>1, <3>2 DEF JobPoolOf!Return, SameJobs, PhaseOf, WaitsFor
    <3>. QED
      BY <3>3 DEF JobPoolStep, JobPoolOf!Next
  <2>. QED
    BY <2>2, <2>3
<1>. QED
  BY <1>2, <1>3

(* So every step is one of JobPool for every pool. *)
LEMMA AllStepsAreJobPools ==
  ASSUME ExecutorsInv, [Next]_vars, NEW p \in Pools
  PROVE  JobPoolStep(p)
<1> USE DEF ExecutorsInv, Waiting
<1>1. \A e \in Executors : PoolOf(e) \in Pools \cup {None}
  BY Members
<1>2. ASSUME UNCHANGED <<executor, pool>>, SameCall PROVE JobPoolStep(p)
  BY <1>2, SameWaits, OtherPoolStutters
<1>3. ASSUME NEW e \in Executors, Construct(e) PROVE JobPoolStep(p)
  <2>1. pool'[p] = pool[p] /\ main.op = "idle" /\ main'.op = "idle"
    BY <1>3 DEF Construct
  <2>. QED
    BY <2>1, NobodyWaits, OtherPoolStutters
<1>4. ASSUME NEW e \in Executors, NEW t \in Tasks, add_task(e, t) PROVE JobPoolStep(p)
  <2>1. pool'[p] = pool[p] /\ main.op = "idle" /\ main'.op = "idle"
    BY <1>4 DEF add_task
  <2>. QED
    BY <2>1, NobodyWaits, OtherPoolStutters
<1>5. ASSUME NEW e \in Executors, RunBegin(e) PROVE JobPoolStep(p)
  <2>1. main.op = "idle" /\ main'.op = "submit"
    BY <1>5 DEF RunBegin, Idle
  <2>2. PICK x \in Pools :
          /\ pool' = [pool EXCEPT ![x].phase = "open", ![x].batches = @ + 1]
          /\ pool[x].phase \in {"unborn", "open"}
    <3>1. PICK x \in Pools :
            /\ x = IF PoolOf(e) = None THEN NewPool ELSE PoolOf(e)
            /\ pool' = [pool EXCEPT ![x].phase = "open", ![x].batches = @ + 1]
      BY <1>5 DEF RunBegin
    <3>2. CASE PoolOf(e) = None
      BY <1>5, <3>1, <3>2, NewPoolIsNext DEF RunBegin, Unborn
    <3>3. CASE PoolOf(e) # None
      BY <2>1, <3>1, <3>3 DEF PointersInv, PointerOK, BeingDestroyed
    <3>. QED
      BY <3>1, <3>2, <3>3
  <2>3. /\ OnlyPool(x) /\ Phase(x, "open")
        /\ Work(x, pool[x].pending, pool[x].running, pool[x].done, pool[x].cleared)
    BY <2>2, OpenPool
  <2>4. CASE p = x
    <3>1. SameJobs(p) /\ PhaseOf(p)' = PhaseOf(p)
      BY <2>2, <2>3, <2>4 DEF SameJobs, PhaseOf, Phase, Work
    <3>. QED
      BY <2>1, <3>1, NobodyWaits, JobPoolStutters
  <2>5. CASE p # x
    BY <2>1, <2>3, <2>5, NobodyWaits, OtherPoolStutters DEF OnlyPool
  <2>. QED
    BY <2>4, <2>5
<1>6. ASSUME RunEnd PROVE JobPoolStep(p)
  <2>1. main.op = "submit" /\ main'.op = "idle"
    BY <1>6 DEF RunEnd, Idle
  <2>2. PICK x \in Pools : pool' = [pool EXCEPT ![x].workers = @ + ThreadCount]
    BY <1>1, <1>6 DEF RunEnd, CallInv
  <2>3. /\ OnlyPool(x) /\ Phase(x, pool[x].phase)
        /\ Work(x, pool[x].pending, pool[x].running, pool[x].done, pool[x].cleared)
    BY <2>2, AddWorkers
  <2>4. SameJobs(p) /\ PhaseOf(p)' = PhaseOf(p)
    BY <2>3 DEF OnlyPool, SameJobs, PhaseOf, Phase, Work
  <2>. QED
    BY <2>1, <2>4, NobodyWaits, JobPoolStutters
<1>7. ASSUME NEW e \in Executors, NEW other \in Executors, MoveBegin(e, other)
      PROVE  JobPoolStep(p)
  <2>1. PICK x \in Pools \cup {None} : x = PoolOf(e)
    BY <1>1
  <2>2. /\ main.op = "idle" /\ main'.op = "move"
        /\ pool' = IF x = None THEN pool ELSE [pool EXCEPT ![x].phase = "closing"]
    BY <1>7, <2>1 DEF MoveBegin, Idle
  <2>3. x # None => pool[x].phase = "open"
    BY <2>1, <2>2 DEF PointersInv, PointerOK, BeingDestroyed
  <2>. QED
    BY <2>2, <2>3, ShutdownStep
<1>8. ASSUME NEW e \in Executors, DestroyBegin(e) PROVE JobPoolStep(p)
  <2>1. PICK x \in Pools \cup {None} : x = PoolOf(e)
    BY <1>1
  <2>2. /\ main.op = "idle" /\ main'.op = "destroy"
        /\ pool' = IF x = None THEN pool ELSE [pool EXCEPT ![x].phase = "closing"]
    BY <1>8, <2>1 DEF DestroyBegin, Idle
  <2>3. x # None => pool[x].phase = "open"
    BY <2>1, <2>2 DEF PointersInv, PointerOK, BeingDestroyed
  <2>. QED
    BY <2>2, <2>3, ShutdownStep
<1>9. ASSUME MoveEnd PROVE JobPoolStep(p)
  <2>1. PICK x \in Pools \cup {None} : x = main.old
    BY DEF TypeOK, MainOK
  <2>2. /\ main.op = "move" /\ main'.op = "idle"
        /\ pool' = IF x = None THEN pool ELSE [pool EXCEPT ![x].phase = "gone"]
        /\ x # None => pool[x].phase = "closing" /\ pool[x].running = {}
    BY <1>9, <2>1 DEF MoveEnd, CallInv, Idle
  <2>. QED
    BY <2>2, VanishStep
<1>10. ASSUME DestroyEnd PROVE JobPoolStep(p)
  <2>1. PICK x \in Pools \cup {None} : x = PoolOf(main.this)
    BY <1>1, <1>10 DEF DestroyEnd, CallInv
  <2>2. /\ main.op = "destroy" /\ main'.op = "idle" /\ main.this \in Executors
        /\ pool' = IF x = None THEN pool ELSE [pool EXCEPT ![x].phase = "gone"]
        /\ x # None => pool[x].running = {}
    BY <1>10, <2>1 DEF DestroyEnd, CallInv, Idle
  <2>3. x # None => pool[x].phase = "closing"
    BY <2>1, <2>2 DEF PointersInv, PointerOK, BeingDestroyed
  <2>. QED
    BY <2>2, <2>3, VanishStep
<1>. QED
  BY <1>2, <1>3, <1>4, <1>5, <1>6, <1>7, <1>8, <1>9, <1>10, CancelStep,
     StartStep, EndStep, SubmitStep, WaitStep, SameCallSteps
  DEF Next, MainStep, TaskStep, WaitBlock, WaitSpurious, Enter, Publish, vars

(* Whoever points to a pool, each step of the program is for it a step that *)
(* JobPool, and with it ThreadPool, has.                                    *)
THEOREM PoolsUsedAsJobPools == Spec => PoolsAreJobPools
<1>1. Init => \A p \in Pools : JobPoolOf(p)!Init
  BY JobPoolsBegin
<1>2. ExecutorsInv /\ [Next]_vars =>
        \A p \in Pools : JobPoolOf(p)!Next \/ UNCHANGED JobPoolOf(p)!vars
  BY AllStepsAreJobPools DEF JobPoolStep
<1>. QED
  BY <1>1, <1>2, ExecutorsInvariant, PTL DEF Spec, PoolsAreJobPools
=============================================================================
