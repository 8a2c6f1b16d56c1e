--------------------------- MODULE JobPoolProofs ----------------------------
(***************************************************************************)
(* ThreadPool implements JobPool, for any number of workers, clients and   *)
(* jobs; and a batch has its callback called once.                         *)
(***************************************************************************)
EXTENDS ThreadPoolProofs

USE PoolAssumption

(* What the mapping of ImplementsJobPool makes of a state.                  *)
Waiting == {t \in Threads : call[t] \in WaitStates}
Phase == IF call[Main] = "gone" THEN "gone"
         ELSE IF is_shutting_down_ THEN "closing" ELSE "open"
abstract == <<Pending, InHand, done, cleared, Waiting, Phase>>

AbstractStep == JP!Next \/ UNCHANGED abstract

(* Nobody is inside a method of a pool that is gone, and no worker in its   *)
(* loop.                                                                    *)
LEMMA NobodyInsideWhenGone ==
  ASSUME PoolInv, call[Main] = "gone"
  PROVE  /\ \A t \in Threads : t # Main => call[t] = "none"
         /\ \A w \in Workers : wpc[w] \in {"unborn", "exited"}
BY DEF PoolInv, DestructorInv, OwnershipInv, DestructorStates, Threads

(* A step that moves no job, opens and ends no call of wait and no destructor. *)
LEMMA Stutters ==
  ASSUME JobsKept, is_shutting_down_' = is_shutting_down_,
         call'[Main] = "gone" <=> call[Main] = "gone",
         \A t \in Threads : call'[t] \in WaitStates <=> call[t] \in WaitStates
  PROVE  UNCHANGED abstract
<1>1. Phase' = Phase
  BY DEF Phase
<1>2. Waiting' = Waiting
  BY DEF Waiting
<1>. QED
  BY <1>1, <1>2, KeptPlaces DEF JobsKept, abstract

(* A worker that is not executing leaves room for one more job.             *)
LEMMA RoomForOneMore ==
  ASSUME PoolInv, NEW w \in Workers, held[w] = None
  PROVE  Cardinality(InHand) < Cardinality(Workers)
<1> DEFINE others == Workers \ {w}
           image == {held[v] : v \in others}
           f == [v \in others |-> held[v]]
<1>1. /\ IsFiniteSet(others) /\ Cardinality(others) = Cardinality(Workers) - 1
      /\ Cardinality(Workers) \in Nat
  <2>1. IsFiniteSet(Workers)
    BY DEF PoolAssumption
  <2>. QED
    BY <2>1, FS_RemoveElement, FS_CardinalityType
<1>2. f \in Surjection(others, image)
  BY DEF Surjection
<1>3. IsFiniteSet(image) /\ Cardinality(image) <= Cardinality(others)
  <2> HIDE DEF f, image, others
  <2>. QED
    BY <1>1, <1>2, FS_Surjection
<1>4. InHand \subseteq image
  BY DEF InHand
<1>5. IsFiniteSet(InHand) /\ Cardinality(InHand) <= Cardinality(image)
  <2> HIDE DEF image
  <2>. QED
    BY <1>3, <1>4, FS_Subset
<1>6. Cardinality(InHand) \in Nat /\ Cardinality(image) \in Nat
  <2> HIDE DEF image
  <2>. QED
    BY <1>3, <1>5, FS_CardinalityType
<1>7. Cardinality(others) \in Nat
  BY <1>1, FS_CardinalityType
<1> HIDE DEF image, others
<1>. QED
  BY <1>1, <1>3, <1>5, <1>6, <1>7

(* Every step of the pool is one of JobPool or changes nothing it sees:     *)
(* add_task submits when it counts, clear_queued_tasks clears when it       *)
(* discounts, a job starts when it is popped and finishes when it returns.  *)
LEMMA StepRefines == PoolInv /\ [Next]_vars => AbstractStep
<1> SUFFICES ASSUME PoolInv, [Next]_vars PROVE AbstractStep
  OBVIOUS
<1> USE DEF PoolInv, TypeOK, queue, locks, threads, calls, history, Threads,
            WaitStates, PoolAssumption
<1>1. ASSUME NEW t \in Threads, NEW j \in Jobs, AddBegin(t, j) PROVE AbstractStep
  <2>1. UNCHANGED <<Pending, InHand>>
    BY <1>1, AddBeginMoves
  <2>2. UNCHANGED <<done, cleared, Phase, Waiting>>
    BY <1>1 DEF AddBegin, MayCall, Phase, Waiting
  <2>. QED
    BY <2>1, <2>2 DEF AbstractStep, abstract
<1>2. ASSUME NEW t \in Threads, ClearBegin(t) PROVE AbstractStep
  BY <1>2, Stutters DEF ClearBegin, MayCall, JobsKept, AbstractStep
<1>3. ASSUME NEW t \in Threads, WaitBegin(t) PROVE AbstractStep
  <2>1. UNCHANGED <<Pending, InHand>>
    <3>1. JobsKept
      BY <1>3 DEF WaitBegin, MayCall, JobsKept
    <3>. QED
      BY <3>1, KeptPlaces
  <2>2. UNCHANGED <<done, cleared, Phase>> /\ Phase # "gone"
    BY <1>3, NobodyInsideWhenGone DEF WaitBegin, MayCall, Phase, DestructorStates
  <2>3. t \notin Waiting /\ Waiting' = Waiting \cup {t}
    BY <1>3 DEF WaitBegin, MayCall, Waiting
  <2>4. JP!Wait(t)
    BY <2>1, <2>2, <2>3 DEF JP!Wait, Waiting, Phase
  <2>. QED
    BY <2>4 DEF AbstractStep, JP!Next
<1>4. ASSUME NEW t \in Threads, AddLock(t) PROVE AbstractStep
  BY <1>4, Stutters DEF AddLock, Call, JobsKept, AbstractStep
<1>5. ASSUME NEW t \in Threads, AddEnqueue(t) PROVE AbstractStep
  <2>1. UNCHANGED <<Pending, InHand>>
    BY <1>5, AddEnqueueMoves
  <2>2. UNCHANGED <<done, cleared, Phase, Waiting>>
    BY <1>5 DEF AddEnqueue, Call, Phase, Waiting
  <2>. QED
    BY <2>1, <2>2 DEF AbstractStep, abstract
<1>6. ASSUME NEW t \in Threads, AddCount(t) PROVE AbstractStep
  <2>1. /\ arg[t] \in Jobs /\ arg[t] \in Arriving
        /\ Pending' = Append(Pending, arg[t]) /\ InHand' = InHand
    BY <1>6, AddCountMoves
  <2>2. UNCHANGED <<done, cleared, Phase, Waiting>>
    BY <1>6 DEF AddCount, Call, Phase, Waiting
  <2>3. Phase # "gone"
    BY <1>6, NobodyInsideWhenGone DEF AddCount, Call, Phase
  <2>4. arg[t] \notin PendingJobs \cup InHand \cup done \cup cleared
    BY <2>1, PlacesSpelled DEF PlacesInv, OnePlace
  <2>5. JP!Submit(arg[t])
    BY <2>1, <2>2, <2>3, <2>4
       DEF JP!Submit, JP!Known, JP!QueuedJobs, PendingJobs, Waiting, Phase
  <2>. QED
    BY <2>1, <2>5 DEF AbstractStep, JP!Next
<1>7. ASSUME NEW t \in Threads, AddNotify(t) PROVE AbstractStep
  BY <1>7, Stutters DEF AddNotify, Call, Asleep, JobsKept, AbstractStep
<1>8. ASSUME NEW t \in Threads, ClearCount(t) PROVE AbstractStep
  <2>1. cleared' = cleared \cup PendingJobs /\ Pending' = <<>> /\ InHand' = InHand
    BY <1>8, ClearCountMoves
  <2>2. UNCHANGED <<done, Phase, Waiting>>
    BY <1>8 DEF ClearCount, Call, Phase, Waiting
  <2>3. Phase # "gone"
    BY <1>8, NobodyInsideWhenGone DEF ClearCount, Call, Phase
  <2>4. JP!Clear
    BY <2>1, <2>2, <2>3 DEF JP!Clear, JP!QueuedJobs, PendingJobs, Waiting, Phase
  <2>. QED
    BY <2>4 DEF AbstractStep, JP!Next
<1>9. ASSUME NEW t \in Threads, ClearEmpty(t) PROVE AbstractStep
  <2>1. UNCHANGED <<Pending, InHand>>
    BY <1>9, ClearEmptyMoves
  <2>2. UNCHANGED <<done, cleared, Phase, Waiting>>
    BY <1>9 DEF ClearEmpty, Call, Phase, Waiting
  <2>. QED
    BY <2>1, <2>2 DEF AbstractStep, abstract
<1>10. ASSUME NEW t \in Threads, WaitReturn(t) PROVE AbstractStep
  <2>1. UNCHANGED <<Pending, InHand>>
    <3>1. JobsKept
      BY <1>10 DEF WaitReturn, Call, JobsKept
    <3>. QED
      BY <3>1, KeptPlaces
  <2>2. UNCHANGED <<done, cleared, Phase>>
    BY <1>10 DEF WaitReturn, Call, Phase
  <2>3. t \in Waiting /\ Waiting' = Waiting \ {t}
    BY <1>10 DEF WaitReturn, Call, Waiting
  <2>4. PendingJobs = {} /\ InHand = {}
    BY <1>10, IdleMeansDrained DEF WaitReturn
  <2>5. Pending = <<>>
    <3>1. Pending \in Seq(Jobs)
      BY PendingIsSeq
    <3>2. Pending # <<>> => 1 \in DOMAIN Pending
      BY <3>1
    <3>. QED
      BY <2>4, <3>2 DEF PendingJobs
  <2>6. JP!Return(t)
    BY <2>1, <2>2, <2>3, <2>4, <2>5 DEF JP!Return, Waiting, Phase
  <2>. QED
    BY <2>6 DEF AbstractStep, JP!Next
<1>11. ASSUME NEW t \in Threads, WaitEval(t) PROVE AbstractStep
  BY <1>11, Stutters DEF WaitEval, Call, JobsKept, AbstractStep
<1>12. ASSUME NEW t \in Threads, WaitBlock(t) PROVE AbstractStep
  BY <1>12, Stutters DEF WaitBlock, Call, JobsKept, AbstractStep
<1>13. CASE RunBegin
  BY <1>13, Stutters DEF RunBegin, JobsKept, AbstractStep
<1>14. ASSUME NEW w \in Workers, Spawn(w) PROVE AbstractStep
  BY <1>14, Stutters DEF Spawn, JobsKept, AbstractStep
<1>15. CASE RunEnd
  BY <1>15, Stutters DEF RunEnd, Call, JobsKept, AbstractStep
<1>16. CASE DestroyBegin
  <2>1. /\ call'[Main] # "gone" /\ call[Main] # "gone"
        /\ \A t \in Threads : call'[t] \in WaitStates <=> call[t] \in WaitStates
    BY <1>16 DEF DestroyBegin
  <2>2. JobsKept
    BY <1>16 DEF DestroyBegin, JobsKept
  <2>3. is_shutting_down_' = is_shutting_down_
    BY <1>16 DEF DestroyBegin
  <2>. QED
    BY <2>1, <2>2, <2>3, Stutters DEF AbstractStep
<1>17. CASE DestroyFlag
  <2>1. UNCHANGED <<Pending, InHand>>
    <3>1. JobsKept
      BY <1>17 DEF DestroyFlag, Call, JobsKept
    <3>. QED
      BY <3>1, KeptPlaces
  <2>2. UNCHANGED <<done, cleared, Waiting>>
    BY <1>17 DEF DestroyFlag, Call, Waiting
  <2>3. Phase = "open" /\ Phase' = "closing"
    BY <1>17 DEF DestroyFlag, Call, Phase, DestructorInv
  <2>4. JP!Shutdown
    BY <2>1, <2>2, <2>3 DEF JP!Shutdown, Waiting, Phase
  <2>. QED
    BY <2>4 DEF AbstractStep, JP!Next
<1>18. CASE DestroyNotify
  BY <1>18, Stutters DEF DestroyNotify, Call, Asleep, JobsKept, AbstractStep
<1>19. CASE DestroyJoin
  <2>1. UNCHANGED <<Pending, InHand>>
    <3>1. JobsKept
      BY <1>19 DEF DestroyJoin, Call, JobsKept
    <3>. QED
      BY <3>1, KeptPlaces
  <2>2. UNCHANGED <<done, cleared, Waiting>>
    BY <1>19 DEF DestroyJoin, Call, Waiting
  <2>3. Phase = "closing" /\ Phase' = "gone"
    BY <1>19 DEF DestroyJoin, Call, Phase, DestructorInv, DestructorStates
  <2>4. InHand = {}
    BY <1>19 DEF DestroyJoin, InHand, OwnershipInv
  <2>5. JP!Vanish
    BY <2>1, <2>2, <2>3, <2>4 DEF JP!Vanish, Waiting, Phase
  <2>. QED
    BY <2>5 DEF AbstractStep, JP!Next
<1>20. ASSUME NEW w \in Workers, WorkerLeave(w) PROVE AbstractStep
  BY <1>20, Stutters DEF WorkerLeave, Go, JobsKept, AbstractStep
<1>21. ASSUME NEW w \in Workers, WorkerLock(w) PROVE AbstractStep
  BY <1>21, Stutters DEF WorkerLock, Go, JobsKept, AbstractStep
<1>22. ASSUME NEW w \in Workers, WorkerEval(w) PROVE AbstractStep
  BY <1>22, Stutters DEF WorkerEval, Go, empty, JobsKept, AbstractStep
<1>23. ASSUME NEW w \in Workers, WorkerBlock(w) PROVE AbstractStep
  BY <1>23, Stutters DEF WorkerBlock, Go, JobsKept, AbstractStep
<1>24. ASSUME NEW w \in Workers, WorkerPop(w) PROVE AbstractStep
  <2>1. CASE empty
    BY <1>24, <2>1, Stutters DEF WorkerPop, Go, JobsKept, AbstractStep
  <2>2. CASE ~empty
    <3>1. /\ Pending # <<>> /\ held[w] = None /\ Pending' = Tail(Pending)
          /\ InHand' = InHand \cup {Head(Pending)}
      BY <1>24, <2>2, PopMoves
    <3>2. UNCHANGED <<done, cleared, Phase, Waiting>>
      BY <1>24 DEF WorkerPop, Go, Phase, Waiting
    <3>3. Phase # "gone"
      BY <1>24, <2>2, NobodyInsideWhenGone DEF WorkerPop, Go, Phase
    <3>4. Cardinality(InHand) < Cardinality(Workers)
      BY <3>1, RoomForOneMore
    <3>5. JP!Start
      <4>1. JP!Cardinality(InHand) = Cardinality(InHand)
        BY DEF JP!Cardinality, Cardinality
      <4>. QED
        BY <3>1, <3>2, <3>3, <3>4, <4>1, Zenon DEF JP!Start, Waiting, Phase
    <3>. QED
      BY <3>5 DEF AbstractStep, JP!Next
  <2>. QED
    BY <2>1, <2>2
<1>25. ASSUME NEW w \in Workers, WorkerFinish(w) PROVE AbstractStep
  <2>1. /\ held[w] \in Jobs /\ held[w] \in InHand
        /\ InHand' = InHand \ {held[w]} /\ Pending' = Pending
    BY <1>25, FinishMoves
  <2>2. done' = done \cup {held[w]} /\ UNCHANGED <<cleared, Phase, Waiting>>
    BY <1>25 DEF WorkerFinish, Go, Phase, Waiting
  <2>3. JP!Finish(held[w])
    BY <2>1, <2>2 DEF JP!Finish, Waiting, Phase
  <2>. QED
    BY <2>1, <2>3 DEF AbstractStep, JP!Next
<1>26. ASSUME NEW w \in Workers, WorkerDiscount(w) PROVE AbstractStep
  BY <1>26, Stutters DEF WorkerDiscount, Go, JobsKept, AbstractStep
<1>27. ASSUME NEW w \in Workers, WorkerLoad(w) PROVE AbstractStep
  BY <1>27, Stutters DEF WorkerLoad, Go, JobsKept, AbstractStep
<1>28. ASSUME NEW w \in Workers, WorkerCallback(w) PROVE AbstractStep
  BY <1>28, Stutters DEF WorkerCallback, Go, JobsKept, AbstractStep
<1>29. ASSUME NEW w \in Workers, WorkerNotify(w) PROVE AbstractStep
  <2>1. /\ call'[Main] = "gone" <=> call[Main] = "gone"
        /\ \A t \in Threads : call'[t] \in WaitStates <=> call[t] \in WaitStates
    BY <1>29 DEF WorkerNotify
  <2>2. JobsKept
    BY <1>29 DEF WorkerNotify, JobsKept
  <2>3. is_shutting_down_' = is_shutting_down_
    BY <1>29 DEF WorkerNotify
  <2>. QED
    BY <2>1, <2>2, <2>3, Stutters DEF AbstractStep
<1>30. CASE SpuriousWakeup
  <2>1. /\ call'[Main] = "gone" <=> call[Main] = "gone"
        /\ \A t \in Threads : call'[t] \in WaitStates <=> call[t] \in WaitStates
    BY <1>30 DEF SpuriousWakeup, Call, Asleep
  <2>2. JobsKept
    BY <1>30 DEF SpuriousWakeup, Call, Asleep, JobsKept
  <2>3. is_shutting_down_' = is_shutting_down_
    BY <1>30 DEF SpuriousWakeup, Call, Asleep
  <2>. QED
    BY <2>1, <2>2, <2>3, Stutters DEF AbstractStep
<1>31. CASE UNCHANGED vars
  BY <1>31, Stutters DEF vars, JobsKept, AbstractStep
<1>. QED
  BY <1>1, <1>2, <1>3, <1>4, <1>5, <1>6, <1>7, <1>8, <1>9, <1>10, <1>11,
     <1>12, <1>13, <1>14, <1>15, <1>16, <1>17, <1>18, <1>19, <1>20, <1>21,
     <1>22, <1>23, <1>24, <1>25, <1>26, <1>27, <1>28, <1>29, <1>30, <1>31
     DEF Next, CallBegin, CallStep, MainStep, WorkerStep, Destroyed

(* What the pool's users see is JobPool: jobs start in the order they were  *)
(* accepted, never more than there are workers, each once; clear drops what *)
(* has not started; wait returns when nothing is queued or executing.       *)
THEOREM PoolImplementsJobPool == Spec => ImplementsJobPool
<1>1. Init => JP!Init
  <2> SUFFICES ASSUME Init PROVE JP!Init
    OBVIOUS
  <2>1. Pending = <<>> /\ InHand = {} /\ done = {} /\ cleared = {}
    BY DEF Init, Pending, InHand
  <2>2. Waiting = {}
    BY DEF Init, Waiting, WaitStates
  <2>3. Phase = "open"
    BY DEF Init, Phase, Threads, PoolAssumption
  <2>. QED
    BY <2>1, <2>2, <2>3, Zenon DEF JP!Init, Waiting, Phase
<1>2. PoolInv /\ [Next]_vars => [JP!Next]_(JP!vars)
  BY StepRefines DEF AbstractStep, abstract, JP!vars, Waiting, Phase
<1>. QED
  BY <1>1, <1>2, PoolInvariant, PTL DEF Spec, ImplementsJobPool, JP!Spec

------------------------------------------------------------------------------
(* The completion callback of a batch. *)

(* The pool is given a callback, everything is submitted before run(), and  *)
(* neither jobs nor the callback call the pool.                             *)
Batch == ~LateSubmit /\ HasCallback /\ JobCalls = {} /\ "clear" \notin ClientCalls

(* Nothing is submitted once workers run; before, nothing is done.          *)
BatchClosedInv ==
  /\ \A w \in Workers : call[w] = "none"
  /\ \A t \in Threads : call[t] \notin {"clear_lock", "clear_empty"}
  /\ cleared = {}
  /\ Running \/ call[Main] = "run_spawn" => \A t \in Threads : call[t] \notin AddStates
  /\ ~Running => done = {}
  /\ done = {} => \A w \in Workers : wpc[w] \notin {"discount", "load", "callback", "notify"}

(* The callback has been called or is about to be by the one worker that    *)
(* took the counter to zero, and by nobody before that.                     *)
BatchCallbackInv ==
  /\ done = {} => callbacks = 0
  /\ active_task_count_ > 0 =>
       /\ callbacks = 0
       /\ \A w \in Workers : wpc[w] \notin {"callback", "notify"}
  /\ active_task_count_ = 0 /\ done # {} =>
       \/ callbacks = 0 /\ \E w \in Workers : wpc[w] \in {"load", "callback"}
       \/ callbacks = 1 /\ \A w \in Workers : wpc[w] \notin {"load", "callback"}

(* A busy worker is counted.                                                *)
LEMMA BusyMeansCounted ==
  ASSUME PoolInv, NEW w \in Busy PROVE active_task_count_ > 0
<1>1. Cardinality(Busy) > 0
  BY BusyIsFinite, FS_EmptySet
<1>2. Len(Pending) \in Nat
  BY PendingIsSeq DEF PoolInv
<1>. QED
  BY <1>1, <1>2, BusyIsFinite DEF PoolInv, CountAccountsForWork

(* Every step keeps a batch closed. *)
LEMMA BatchClosedStep == PoolInv /\ Batch /\ BatchClosedInv /\ [Next]_vars => BatchClosedInv'
<1> SUFFICES ASSUME PoolInv /\ Batch /\ BatchClosedInv, [Next]_vars PROVE BatchClosedInv'
  OBVIOUS
<1> USE DEF PoolInv, TypeOK, OwnershipInv, BatchClosedInv, queue, locks, threads,
            calls, history, Threads, AddStates, Running, Batch, PoolAssumption
<1>1. ASSUME NEW t \in Threads, NEW j \in Jobs, AddBegin(t, j) PROVE BatchClosedInv'
  BY <1>1 DEF AddBegin, MayCall
<1>2. ASSUME NEW t \in Threads, ClearBegin(t) PROVE BatchClosedInv'
  BY <1>2 DEF ClearBegin, MayCall
<1>3. ASSUME NEW t \in Threads, WaitBegin(t) PROVE BatchClosedInv'
  BY <1>3 DEF WaitBegin, MayCall
<1>4. ASSUME NEW t \in Threads, AddLock(t) PROVE BatchClosedInv'
  BY <1>4 DEF AddLock, Call
<1>5. ASSUME NEW t \in Threads, AddEnqueue(t) PROVE BatchClosedInv'
  BY <1>5 DEF AddEnqueue, Call
<1>6. ASSUME NEW t \in Threads, AddCount(t) PROVE BatchClosedInv'
  BY <1>6 DEF AddCount, Call
<1>7. ASSUME NEW t \in Threads, AddNotify(t) PROVE BatchClosedInv'
  BY <1>7 DEF AddNotify, Call, Asleep
<1>8. ASSUME NEW t \in Threads, ClearCount(t) PROVE BatchClosedInv'
  BY <1>8 DEF ClearCount, Call
<1>9. ASSUME NEW t \in Threads, ClearEmpty(t) PROVE BatchClosedInv'
  BY <1>9 DEF ClearEmpty, Call
<1>10. ASSUME NEW t \in Threads, WaitReturn(t) PROVE BatchClosedInv'
  BY <1>10 DEF WaitReturn, Call
<1>11. ASSUME NEW t \in Threads, WaitEval(t) PROVE BatchClosedInv'
  BY <1>11 DEF WaitEval, Call
<1>12. ASSUME NEW t \in Threads, WaitBlock(t) PROVE BatchClosedInv'
  BY <1>12 DEF WaitBlock, Call
<1>13. CASE RunBegin
  BY <1>13 DEF RunBegin
<1>14. ASSUME NEW w \in Workers, Spawn(w) PROVE BatchClosedInv'
  BY <1>14 DEF Spawn
<1>15. CASE RunEnd
  BY <1>15 DEF RunEnd, Call
<1>16. CASE DestroyBegin
  BY <1>16 DEF DestroyBegin
<1>17. CASE DestroyFlag
  BY <1>17 DEF DestroyFlag, Call
<1>18. CASE DestroyNotify
  BY <1>18 DEF DestroyNotify, Call, Asleep
<1>19. CASE DestroyJoin
  BY <1>19 DEF DestroyJoin, Call
<1>20. ASSUME NEW w \in Workers, WorkerLeave(w) PROVE BatchClosedInv'
  BY <1>20 DEF WorkerLeave, Go
<1>21. ASSUME NEW w \in Workers, WorkerLock(w) PROVE BatchClosedInv'
  BY <1>21 DEF WorkerLock, Go
<1>22. ASSUME NEW w \in Workers, WorkerEval(w) PROVE BatchClosedInv'
  BY <1>22 DEF WorkerEval, Go, empty
<1>23. ASSUME NEW w \in Workers, WorkerBlock(w) PROVE BatchClosedInv'
  BY <1>23 DEF WorkerBlock, Go
<1>24. ASSUME NEW w \in Workers, WorkerPop(w) PROVE BatchClosedInv'
  BY <1>24 DEF WorkerPop, Go, empty
<1>25. ASSUME NEW w \in Workers, WorkerFinish(w) PROVE BatchClosedInv'
  BY <1>25 DEF WorkerFinish, Go
<1>26. ASSUME NEW w \in Workers, WorkerDiscount(w) PROVE BatchClosedInv'
  BY <1>26 DEF WorkerDiscount, Go
<1>27. ASSUME NEW w \in Workers, WorkerLoad(w) PROVE BatchClosedInv'
  BY <1>27 DEF WorkerLoad, Go
<1>28. ASSUME NEW w \in Workers, WorkerCallback(w) PROVE BatchClosedInv'
  BY <1>28 DEF WorkerCallback, Go
<1>29. ASSUME NEW w \in Workers, WorkerNotify(w) PROVE BatchClosedInv'
  BY <1>29 DEF WorkerNotify
<1>30. CASE SpuriousWakeup
  BY <1>30 DEF SpuriousWakeup, Call, Asleep
<1>31. CASE UNCHANGED vars
  BY <1>31 DEF vars
<1>. QED
  BY <1>1, <1>2, <1>3, <1>4, <1>5, <1>6, <1>7, <1>8, <1>9, <1>10, <1>11,
     <1>12, <1>13, <1>14, <1>15, <1>16, <1>17, <1>18, <1>19, <1>20, <1>21,
     <1>22, <1>23, <1>24, <1>25, <1>26, <1>27, <1>28, <1>29, <1>30, <1>31
     DEF Next, CallBegin, CallStep, MainStep, WorkerStep, Destroyed

(* Every step keeps the callback with the worker that took the counter to   *)
(* zero.                                                                    *)
LEMMA BatchCallbackStep == PoolInv /\ Batch /\ BatchClosedInv /\ BatchCallbackInv /\ [Next]_vars => BatchCallbackInv'
<1> SUFFICES ASSUME PoolInv /\ Batch /\ BatchClosedInv /\ BatchCallbackInv, [Next]_vars PROVE BatchCallbackInv'
  OBVIOUS
<1> USE DEF PoolInv, TypeOK, BatchCallbackInv, queue, locks, threads,
            calls, history, Threads
<1>1. ASSUME NEW t \in Threads, NEW j \in Jobs, AddBegin(t, j) PROVE BatchCallbackInv'
  BY <1>1 DEF AddBegin, MayCall
<1>2. ASSUME NEW t \in Threads, ClearBegin(t) PROVE BatchCallbackInv'
  BY <1>2 DEF ClearBegin, MayCall
<1>3. ASSUME NEW t \in Threads, WaitBegin(t) PROVE BatchCallbackInv'
  BY <1>3 DEF WaitBegin, MayCall
<1>4. ASSUME NEW t \in Threads, AddLock(t) PROVE BatchCallbackInv'
  BY <1>4 DEF AddLock, Call
<1>5. ASSUME NEW t \in Threads, AddEnqueue(t) PROVE BatchCallbackInv'
  BY <1>5 DEF AddEnqueue, Call
<1>6. ASSUME NEW t \in Threads, AddCount(t) PROVE BatchCallbackInv'
  <2>1. ~Running
    BY <1>6 DEF AddCount, Call, BatchClosedInv, AddStates
  <2>2. done = {} /\ callbacks = 0
    BY <2>1 DEF BatchClosedInv
  <2>. QED
    BY <1>6, <2>2 DEF AddCount, BatchClosedInv
<1>7. ASSUME NEW t \in Threads, AddNotify(t) PROVE BatchCallbackInv'
  BY <1>7 DEF AddNotify, Call, Asleep
<1>8. ASSUME NEW t \in Threads, ClearCount(t) PROVE BatchCallbackInv'
  BY <1>8 DEF ClearCount, Call, BatchClosedInv
<1>9. ASSUME NEW t \in Threads, ClearEmpty(t) PROVE BatchCallbackInv'
  BY <1>9 DEF ClearEmpty, Call
<1>10. ASSUME NEW t \in Threads, WaitReturn(t) PROVE BatchCallbackInv'
  BY <1>10 DEF WaitReturn, Call
<1>11. ASSUME NEW t \in Threads, WaitEval(t) PROVE BatchCallbackInv'
  BY <1>11 DEF WaitEval, Call
<1>12. ASSUME NEW t \in Threads, WaitBlock(t) PROVE BatchCallbackInv'
  BY <1>12 DEF WaitBlock, Call
<1>13. CASE RunBegin
  BY <1>13 DEF RunBegin
<1>14. ASSUME NEW w \in Workers, Spawn(w) PROVE BatchCallbackInv'
  BY <1>14 DEF Spawn
<1>15. CASE RunEnd
  BY <1>15 DEF RunEnd, Call
<1>16. CASE DestroyBegin
  BY <1>16 DEF DestroyBegin
<1>17. CASE DestroyFlag
  BY <1>17 DEF DestroyFlag, Call
<1>18. CASE DestroyNotify
  BY <1>18 DEF DestroyNotify, Call, Asleep
<1>19. CASE DestroyJoin
  BY <1>19 DEF DestroyJoin, Call
<1>20. ASSUME NEW w \in Workers, WorkerLeave(w) PROVE BatchCallbackInv'
  BY <1>20 DEF WorkerLeave, Go
<1>21. ASSUME NEW w \in Workers, WorkerLock(w) PROVE BatchCallbackInv'
  BY <1>21 DEF WorkerLock, Go
<1>22. ASSUME NEW w \in Workers, WorkerEval(w) PROVE BatchCallbackInv'
  BY <1>22 DEF WorkerEval, Go, empty
<1>23. ASSUME NEW w \in Workers, WorkerBlock(w) PROVE BatchCallbackInv'
  BY <1>23 DEF WorkerBlock, Go
<1>24. ASSUME NEW w \in Workers, WorkerPop(w) PROVE BatchCallbackInv'
  BY <1>24 DEF WorkerPop, Go, empty
<1>25. ASSUME NEW w \in Workers, WorkerFinish(w) PROVE BatchCallbackInv'
  <2>1. w \in Busy
    BY <1>25 DEF WorkerFinish, Go, Busy
  <2>2. active_task_count_ > 0
    BY <2>1, BusyMeansCounted
  <2>3. UNCHANGED <<active_task_count_, callbacks>> /\ done' # {}
    BY <1>25 DEF WorkerFinish
  <2>4. \A v \in Workers : wpc'[v] \in {"load", "callback", "notify"} <=> wpc[v] \in {"load", "callback", "notify"}
    BY <1>25 DEF WorkerFinish, Go
  <2>. QED
    BY <1>25, <2>2, <2>3 DEF WorkerFinish, Go
<1>26. ASSUME NEW w \in Workers, WorkerDiscount(w) PROVE BatchCallbackInv'
  <2>1. w \in Busy
    BY <1>26 DEF WorkerDiscount, Go, Busy
  <2>2. active_task_count_ > 0
    BY <2>1, BusyMeansCounted
  <2>3. callbacks = 0 /\ \A v \in Workers : wpc[v] \notin {"callback", "notify"}
    BY <2>2
  <2>4. /\ UNCHANGED <<done, callbacks>> /\ wpc'[w] = "load" /\ done # {}
        /\ \A v \in Workers : wpc'[v] \notin {"callback", "notify"}
    BY <1>26, <2>3 DEF WorkerDiscount, Go, BatchClosedInv
  <2>. QED
    BY <2>3, <2>4
<1>27. ASSUME NEW w \in Workers, WorkerLoad(w) PROVE BatchCallbackInv'
  <2>1. done # {} /\ UNCHANGED <<done, callbacks, active_task_count_>>
    BY <1>27 DEF WorkerLoad, Go, BatchClosedInv
  <2>2. CASE is_idle
    <3>1. wpc' = [wpc EXCEPT ![w] = "callback"] /\ wpc[w] = "load"
      BY <1>27, <2>2 DEF WorkerLoad, Go, Batch
    <3>2. active_task_count_ = 0
      BY <2>2 DEF is_idle
    <3>. QED
      BY <2>1, <3>1, <3>2
  <2>3. CASE ~is_idle
    <3>1. active_task_count_ > 0
      BY <2>3 DEF is_idle
    <3>. QED
      BY <1>27, <2>1, <2>3, <3>1 DEF WorkerLoad, Go
  <2>. QED
    BY <2>2, <2>3
<1>28. ASSUME NEW w \in Workers, WorkerCallback(w) PROVE BatchCallbackInv'
  <2>1. \A v \in Workers \ {w} : wpc[v] \notin {"load", "callback", "notify"}
    BY <1>28 DEF WorkerCallback, Go, OwnershipInv
  <2>2. done # {} /\ active_task_count_ = 0 /\ callbacks = 0
    BY <1>28 DEF WorkerCallback, Go, BatchClosedInv
  <2>3. callbacks' = 1 /\ UNCHANGED <<done, active_task_count_>>
    BY <1>28, <2>2 DEF WorkerCallback
  <2>4. \A v \in Workers : wpc'[v] \notin {"load", "callback"}
    BY <1>28, <2>1 DEF WorkerCallback, Go
  <2>. QED
    BY <2>2, <2>3, <2>4
<1>29. ASSUME NEW w \in Workers, WorkerNotify(w) PROVE BatchCallbackInv'
  BY <1>29 DEF WorkerNotify
<1>30. CASE SpuriousWakeup
  BY <1>30 DEF SpuriousWakeup, Call, Asleep
<1>31. CASE UNCHANGED vars
  BY <1>31 DEF vars
<1>. QED
  BY <1>1, <1>2, <1>3, <1>4, <1>5, <1>6, <1>7, <1>8, <1>9, <1>10, <1>11,
     <1>12, <1>13, <1>14, <1>15, <1>16, <1>17, <1>18, <1>19, <1>20, <1>21,
     <1>22, <1>23, <1>24, <1>25, <1>26, <1>27, <1>28, <1>29, <1>30, <1>31
     DEF Next, CallBegin, CallStep, MainStep, WorkerStep, Destroyed

(* In every state with no worker at work on it, a batch that is done has    *)
(* had its callback called exactly once: execute_task discounts and looks   *)
(* at the counter under one hold of wait_mtx_.                              *)
THEOREM CallbackOncePerBatch ==
  ASSUME Batch PROVE Spec => []OnCompleteOncePerBatch
<1> DEFINE Inv == BatchClosedInv /\ BatchCallbackInv
<1>1. Init => Inv
  BY DEF Init, BatchClosedInv, BatchCallbackInv, Running, Threads, AddStates
<1>2. PoolInv /\ Inv /\ [Next]_vars => Inv'
  BY BatchClosedStep, BatchCallbackStep
<1>3. PoolInv /\ Inv => OnCompleteOncePerBatch
  <2> SUFFICES ASSUME PoolInv, Inv PROVE OnCompleteOncePerBatch
    OBVIOUS
  <2>1. callbacks \in Nat /\ active_task_count_ \in Nat
    BY DEF PoolInv, TypeOK
  <2>2. callbacks <= 1
    BY <2>1 DEF BatchCallbackInv
  <2>3. ASSUME done # {}, done = submitted, Busy = {}, Completing = {} PROVE callbacks = 1
    <3>1. PendingJobs = {}
      BY <2>3, PlacesSpelled DEF PoolInv, PlacesInv, OnePlace
    <3>2. Pending \in Seq(Jobs)
      BY PendingIsSeq DEF PoolInv
    <3>3. Pending # <<>> => 1 \in DOMAIN Pending
      BY <3>2
    <3>4. Len(Pending) = 0
      BY <3>1, <3>3 DEF PendingJobs
    <3>5. active_task_count_ = 0
      BY <2>3, <3>4, FS_EmptySet DEF PoolInv, CountAccountsForWork
    <3>. QED
      BY <2>3, <3>5 DEF BatchCallbackInv, Completing
  <2>. QED
    BY <2>2, <2>3 DEF OnCompleteOncePerBatch
<1>. QED
  BY <1>1, <1>2, <1>3, PoolInvariant, PTL DEF Spec
=============================================================================
