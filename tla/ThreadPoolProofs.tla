-------------------------- MODULE ThreadPoolProofs --------------------------
(***************************************************************************)
(* Proofs about ThreadPool, for any number of workers, clients and jobs:   *)
(* PoolInv is inductive, hence the types, the ownership of the mutexes and *)
(* the agreement of active_task_count_ with queue and workers hold in      *)
(* every reachable state, no job is lost or duplicated and no wakeup of a  *)
(* worker lost; wait returns only when everything is done.                 *)
(***************************************************************************)
EXTENDS ThreadPool, FiniteSetTheorems, SequenceTheorems, TLAPS

USE PoolAssumption

(* The number of busy workers is a number. *)
LEMMA BusyIsFinite == IsFiniteSet(Busy) /\ Cardinality(Busy) \in Nat
<1>1. Busy \subseteq Workers
  BY DEF Busy
<1>. QED
  BY <1>1, FS_Subset, FS_CardinalityType DEF PoolAssumption

(* A queue without its newest job is one shorter. *)
LEMMA LenOfFront ==
  ASSUME NEW S, NEW s \in Seq(S), s # <<>>
  PROVE  Len(SubSeq(s, 1, Len(s) - 1)) = Len(s) - 1
<1>1. Len(s) - 1 \in Int /\ 1 \in Int /\ Len(s) \in Nat /\ Len(s) > 0
  OBVIOUS
<1>2. \A i \in 1 .. Len(s) - 1 : s[i] \in S
  OBVIOUS
<1>3. Len(SubSeq(s, 1, Len(s) - 1)) =
        IF 1 <= Len(s) - 1 THEN (Len(s) - 1) - 1 + 1 ELSE 0
  BY <1>1, <1>2, SubSeqProperties
<1> DEFINE n == Len(s)
           k == Len(SubSeq(s, 1, Len(s) - 1))
<1>4. n \in Nat /\ n > 0 /\ k = IF 1 <= n - 1 THEN (n - 1) - 1 + 1 ELSE 0
  BY <1>1, <1>3
<1> HIDE DEF n, k
<1>5. k = n - 1
  BY <1>4
<1>. QED
  BY <1>5 DEF n, k

(* A queue is the one without its newest job and that job.                  *)
LEMMA FrontAndLast ==
  ASSUME NEW S, NEW s \in Seq(S), s # <<>>
  PROVE  Append(SubSeq(s, 1, Len(s) - 1), s[Len(s)]) = s
<1> DEFINE n == Len(s)
           f == SubSeq(s, 1, n - 1)
           new == Append(f, s[n])
<1>1. n \in Nat /\ n > 0 /\ s[n] \in S
  OBVIOUS
<1>2. f \in Seq(S) /\ Len(f) = n - 1 /\ \A i \in 1 .. n - 1 : f[i] = s[i]
  BY <1>1, LenOfFront
<1>3. new \in Seq(S) /\ Len(new) = n /\ new[n] = s[n] /\ \A i \in 1 .. n - 1 : new[i] = s[i]
  BY <1>1, <1>2, AppendProperties
<1>4. \A i \in 1 .. n : i \in 1 .. n - 1 \/ i = n
  BY <1>1
<1> HIDE DEF new
<1>5. \A i \in 1 .. n : new[i] = s[i]
  BY <1>3, <1>4
<1>6. new = s
  BY <1>3, <1>5, SeqEqual
<1>. QED
  BY <1>6 DEF new

(* Taking the newest job off a queue undoes appending it. *)
LEMMA FrontOfAppend ==
  ASSUME NEW S, NEW s \in Seq(S), NEW e \in S
  PROVE  SubSeq(Append(s, e), 1, Len(Append(s, e)) - 1) = s
BY AppendProperties

(* When nobody holds tasks_mtx_ the queue is what it seems. *)
LEMMA PendingWhenFree ==
  ASSUME OwnershipInv, tasks_mtx_ = None
  PROVE  Pending = tasks_
BY DEF OwnershipInv, Pending, PoolAssumption

(* The queue others see is a sequence of jobs. *)
LEMMA PendingIsSeq == TypeOK => Pending \in Seq(Jobs)
<1> SUFFICES ASSUME TypeOK PROVE Pending \in Seq(Jobs)
  OBVIOUS
<1>1. SubSeq(tasks_, 1, Len(tasks_) - 1) \in Seq(Jobs)
  <2>1. \A i \in 1 .. Len(tasks_) - 1 : tasks_[i] \in Jobs
    BY DEF TypeOK
  <2>2. Len(tasks_) - 1 \in Int /\ 1 \in Int
    BY DEF TypeOK
  <2>. QED
    BY <2>1, <2>2, SubSeqProperties
<1>. QED
  BY <1>1 DEF Pending, TypeOK

(* A counter at zero means that no job is queued or in execution. *)
LEMMA IdleMeansDrained ==
  ASSUME PoolInv, is_idle
  PROVE  PendingJobs = {} /\ InHand = {}
<1>1. Pending \in Seq(Jobs) /\ Len(Pending) \in Nat
  BY PendingIsSeq DEF PoolInv
<1>2. Len(Pending) = 0 /\ Cardinality(Busy) = 0
  BY <1>1, BusyIsFinite DEF PoolInv, CountAccountsForWork, is_idle
<1>3. PendingJobs = {}
  BY <1>1, <1>2 DEF PendingJobs
<1>4. Busy = {}
  BY <1>2, BusyIsFinite, FS_EmptySet
<1>5. InHand = {}
  BY <1>4 DEF InHand, Busy, PoolInv, OwnershipInv
<1>. QED
  BY <1>3, <1>5

(* A step that keeps queue, counter, holders of tasks_mtx_ and busy workers *)
(* keeps the count right.                                                   *)
LEMMA CountUndisturbed ==
  ASSUME CountAccountsForWork,
         tasks_' = tasks_,
         active_task_count_' = active_task_count_,
         \A t \in Threads : /\ call'[t] = "add_count" <=> call[t] = "add_count"
                            /\ call'[t] = "clear_empty" <=> call[t] = "clear_empty",
         \A w \in Workers : wpc'[w] \in {"body", "discount"} <=> wpc[w] \in {"body", "discount"}
  PROVE  CountAccountsForWork'
<1>1. Pending' = Pending
  BY DEF Pending
<1>2. Busy' = Busy
  BY DEF Busy
<1>. QED
  BY <1>1, <1>2 DEF CountAccountsForWork

------------------------------------------------------------------------------
(* Every step keeps the types.  Only the two steps that lower the counter   *)
(* need more than the types themselves: it covers what they subtract.       *)
LEMMA TypeOKStep == PoolInv /\ [Next]_vars => TypeOK'
<1> SUFFICES ASSUME PoolInv, [Next]_vars PROVE TypeOK'
  OBVIOUS
<1> USE DEF PoolInv, TypeOK, queue, locks, threads, calls, history,
            WorkerStates, CallStates, AddStates,
            WaitStates, DestructorStates
<1>1. ASSUME NEW t \in Threads, NEW j \in Jobs, AddBegin(t, j) PROVE TypeOK'
  BY <1>1 DEF AddBegin, MayCall, Threads
<1>2. ASSUME NEW t \in Threads, ClearBegin(t) PROVE TypeOK'
  BY <1>2 DEF ClearBegin, MayCall, Threads
<1>3. ASSUME NEW t \in Threads, WaitBegin(t) PROVE TypeOK'
  BY <1>3 DEF WaitBegin, MayCall, Threads
<1>4. ASSUME NEW t \in Threads, AddLock(t) PROVE TypeOK'
  BY <1>4 DEF AddLock, Call, Threads
<1>5. ASSUME NEW t \in Threads, AddEnqueue(t) PROVE TypeOK'
  <2>1. arg[t] \in Jobs
    BY <1>5 DEF AddEnqueue, Call, OwnershipInv
  <2>2. tasks_' \in Seq(Jobs)
    BY <1>5, <2>1 DEF AddEnqueue
  <2>. QED
    BY <1>5, <2>2 DEF AddEnqueue, Call, Threads
<1>6. ASSUME NEW t \in Threads, AddCount(t) PROVE TypeOK'
  BY <1>6 DEF AddCount, Call, Threads
<1>7. ASSUME NEW t \in Threads, AddNotify(t) PROVE TypeOK'
  BY <1>7 DEF AddNotify, Call, Asleep, Threads
<1>8. ASSUME NEW t \in Threads, ClearCount(t) PROVE TypeOK'
  <2>1. active_task_count_ = Len(tasks_) + Cardinality(Busy)
    BY <1>8, PendingWhenFree DEF ClearCount, CountAccountsForWork
  <2>2. active_task_count_' \in Nat
    BY <1>8, <2>1, BusyIsFinite DEF ClearCount
  <2>3. cleared' \subseteq Jobs
    BY <1>8 DEF ClearCount, QueuedJobs
  <2>. QED
    BY <1>8, <2>2, <2>3 DEF ClearCount, Call
<1>9. ASSUME NEW t \in Threads, ClearEmpty(t) PROVE TypeOK'
  BY <1>9 DEF ClearEmpty, Call, Threads
<1>10. ASSUME NEW t \in Threads, WaitReturn(t) PROVE TypeOK'
  BY <1>10 DEF WaitReturn, Call, Threads
<1>11. ASSUME NEW t \in Threads, WaitEval(t) PROVE TypeOK'
  BY <1>11 DEF WaitEval, Call, Threads
<1>12. ASSUME NEW t \in Threads, WaitBlock(t) PROVE TypeOK'
  BY <1>12 DEF WaitBlock, Call, Threads
<1>13. CASE RunBegin
  BY <1>13 DEF RunBegin, Threads
<1>14. ASSUME NEW w \in Workers, Spawn(w) PROVE TypeOK'
  BY <1>14 DEF Spawn, Threads
<1>15. CASE RunEnd
  BY <1>15 DEF RunEnd, Call, Threads
<1>16. CASE DestroyBegin
  BY <1>16 DEF DestroyBegin, Threads
<1>17. CASE DestroyFlag
  BY <1>17 DEF DestroyFlag, Call, Threads
<1>18. CASE DestroyNotify
  BY <1>18 DEF DestroyNotify, Call, Asleep, Threads
<1>19. CASE DestroyJoin
  BY <1>19 DEF DestroyJoin, Call, Threads
<1>20. ASSUME NEW w \in Workers, WorkerLeave(w) PROVE TypeOK'
  BY <1>20 DEF WorkerLeave, Go, Threads
<1>21. ASSUME NEW w \in Workers, WorkerLock(w) PROVE TypeOK'
  BY <1>21 DEF WorkerLock, Go, Threads
<1>22. ASSUME NEW w \in Workers, WorkerEval(w) PROVE TypeOK'
  BY <1>22 DEF WorkerEval, Go, empty, Threads
<1>23. ASSUME NEW w \in Workers, WorkerBlock(w) PROVE TypeOK'
  BY <1>23 DEF WorkerBlock, Go, Threads
<1>24. ASSUME NEW w \in Workers, WorkerPop(w) PROVE TypeOK'
  <2>1. CASE empty
    BY <1>24, <2>1 DEF WorkerPop, Go, empty, Threads
  <2>2. CASE ~empty
    <3>1. Head(tasks_) \in Jobs /\ Tail(tasks_) \in Seq(Jobs)
      BY <2>2, HeadTailProperties DEF empty
    <3>2. held' \in [Workers -> Jobs \cup {None}]
      BY <1>24, <2>2, <3>1 DEF WorkerPop
    <3>3. (IF is_shutting_down_ THEN late[w] + 1 ELSE late[w]) \in Nat
      OBVIOUS
    <3>4. late' \in [Workers -> Nat]
      BY <1>24, <2>2, <3>3 DEF WorkerPop
    <3>. QED
      BY <1>24, <2>2, <3>1, <3>2, <3>4 DEF WorkerPop, Go, Threads
  <2>. QED
    BY <2>1, <2>2
<1>25. ASSUME NEW w \in Workers, WorkerFinish(w) PROVE TypeOK'
  <2>1. held[w] \in Jobs
    BY <1>25 DEF WorkerFinish, Go, OwnershipInv
  <2>. QED
    BY <1>25, <2>1 DEF WorkerFinish, Go, Threads
<1>26. ASSUME NEW w \in Workers, WorkerDiscount(w) PROVE TypeOK'
  <2>1. w \in Busy
    BY <1>26 DEF WorkerDiscount, Go, Busy
  <2>2. Cardinality(Busy) > 0
    BY <2>1, BusyIsFinite, FS_EmptySet
  <2>3. Len(Pending) \in Nat
    BY DEF Pending
  <2>4. active_task_count_' \in Nat
    BY <1>26, <2>2, <2>3, BusyIsFinite DEF WorkerDiscount, CountAccountsForWork
  <2>. QED
    BY <1>26, <2>4 DEF WorkerDiscount, Go, Threads
<1>27. ASSUME NEW w \in Workers, WorkerLoad(w) PROVE TypeOK'
  BY <1>27 DEF WorkerLoad, Go, Threads
<1>28. ASSUME NEW w \in Workers, WorkerCallback(w) PROVE TypeOK'
  BY <1>28 DEF WorkerCallback, Go, Threads
<1>29. ASSUME NEW w \in Workers, WorkerNotify(w) PROVE TypeOK'
  BY <1>29 DEF WorkerNotify, Threads
<1>30. CASE SpuriousWakeup
  BY <1>30 DEF SpuriousWakeup, Call, Asleep, Threads
<1>31. CASE UNCHANGED vars
  BY <1>31 DEF vars, Threads
<1>. QED
  BY <1>1, <1>2, <1>3, <1>4, <1>5, <1>6, <1>7, <1>8, <1>9, <1>10, <1>11,
     <1>12, <1>13, <1>14, <1>15, <1>16, <1>17, <1>18, <1>19, <1>20, <1>21,
     <1>22, <1>23, <1>24, <1>25, <1>26, <1>27, <1>28, <1>29, <1>30, <1>31
     DEF Next, CallBegin, CallStep, MainStep, WorkerStep, Destroyed

------------------------------------------------------------------------------
(* Every step keeps the owners of the mutexes where the threads say they are. *)
LEMMA OwnershipStep == PoolInv /\ [Next]_vars => OwnershipInv'
<1> SUFFICES ASSUME PoolInv, [Next]_vars PROVE OwnershipInv'
  OBVIOUS
<1> USE SMTT(60) DEF PoolInv, TypeOK, OwnershipInv, queue, locks, threads,
                     calls, history, Threads,
                     DestructorStates, PoolAssumption
<1>1. ASSUME NEW t \in Threads, NEW j \in Jobs, AddBegin(t, j) PROVE OwnershipInv'
  BY <1>1 DEF AddBegin, MayCall
<1>2. ASSUME NEW t \in Threads, ClearBegin(t) PROVE OwnershipInv'
  BY <1>2 DEF ClearBegin, MayCall
<1>3. ASSUME NEW t \in Threads, WaitBegin(t) PROVE OwnershipInv'
  BY <1>3 DEF WaitBegin, MayCall
<1>4. ASSUME NEW t \in Threads, AddLock(t) PROVE OwnershipInv'
  BY <1>4 DEF AddLock, Call
<1>5. ASSUME NEW t \in Threads, AddEnqueue(t) PROVE OwnershipInv'
  BY <1>5 DEF AddEnqueue, Call
<1>6. ASSUME NEW t \in Threads, AddCount(t) PROVE OwnershipInv'
  BY <1>6 DEF AddCount, Call
<1>7. ASSUME NEW t \in Threads, AddNotify(t) PROVE OwnershipInv'
  BY <1>7 DEF AddNotify, Call, Asleep
<1>8. ASSUME NEW t \in Threads, ClearCount(t) PROVE OwnershipInv'
  BY <1>8 DEF ClearCount, Call
<1>9. ASSUME NEW t \in Threads, ClearEmpty(t) PROVE OwnershipInv'
  BY <1>9 DEF ClearEmpty, Call
<1>10. ASSUME NEW t \in Threads, WaitReturn(t) PROVE OwnershipInv'
  BY <1>10 DEF WaitReturn, Call
<1>11. ASSUME NEW t \in Threads, WaitEval(t) PROVE OwnershipInv'
  BY <1>11 DEF WaitEval, Call
<1>12. ASSUME NEW t \in Threads, WaitBlock(t) PROVE OwnershipInv'
  BY <1>12 DEF WaitBlock, Call
<1>13. CASE RunBegin
  BY <1>13 DEF RunBegin
<1>14. ASSUME NEW w \in Workers, Spawn(w) PROVE OwnershipInv'
  BY <1>14 DEF Spawn
<1>15. CASE RunEnd
  BY <1>15 DEF RunEnd, Call
<1>16. CASE DestroyBegin
  BY <1>16 DEF DestroyBegin
<1>17. CASE DestroyFlag
  BY <1>17 DEF DestroyFlag, Call
<1>18. CASE DestroyNotify
  BY <1>18 DEF DestroyNotify, Call, Asleep
<1>19. CASE DestroyJoin
  BY <1>19 DEF DestroyJoin, Call
<1>20. ASSUME NEW w \in Workers, WorkerLeave(w) PROVE OwnershipInv'
  BY <1>20 DEF WorkerLeave, Go
<1>21. ASSUME NEW w \in Workers, WorkerLock(w) PROVE OwnershipInv'
  BY <1>21 DEF WorkerLock, Go
<1>22. ASSUME NEW w \in Workers, WorkerEval(w) PROVE OwnershipInv'
  BY <1>22 DEF WorkerEval, Go, empty
<1>23. ASSUME NEW w \in Workers, WorkerBlock(w) PROVE OwnershipInv'
  BY <1>23 DEF WorkerBlock, Go
<1>24. ASSUME NEW w \in Workers, WorkerPop(w) PROVE OwnershipInv'
  BY <1>24 DEF WorkerPop, Go, empty
<1>25. ASSUME NEW w \in Workers, WorkerFinish(w) PROVE OwnershipInv'
  BY <1>25 DEF WorkerFinish, Go
<1>26. ASSUME NEW w \in Workers, WorkerDiscount(w) PROVE OwnershipInv'
  BY <1>26 DEF WorkerDiscount, Go
<1>27. ASSUME NEW w \in Workers, WorkerLoad(w) PROVE OwnershipInv'
  BY <1>27 DEF WorkerLoad, Go
<1>28. ASSUME NEW w \in Workers, WorkerCallback(w) PROVE OwnershipInv'
  BY <1>28 DEF WorkerCallback, Go
<1>29. ASSUME NEW w \in Workers, WorkerNotify(w) PROVE OwnershipInv'
  BY <1>29 DEF WorkerNotify
<1>30. CASE SpuriousWakeup
  BY <1>30 DEF SpuriousWakeup, Call, Asleep
<1>31. CASE UNCHANGED vars
  BY <1>31 DEF vars
<1>. QED
  BY <1>1, <1>2, <1>3, <1>4, <1>5, <1>6, <1>7, <1>8, <1>9, <1>10, <1>11,
     <1>12, <1>13, <1>14, <1>15, <1>16, <1>17, <1>18, <1>19, <1>20, <1>21,
     <1>22, <1>23, <1>24, <1>25, <1>26, <1>27, <1>28, <1>29, <1>30, <1>31
     DEF Next, CallBegin, CallStep, MainStep, WorkerStep, Destroyed

------------------------------------------------------------------------------
(* Every step keeps the counter equal to what is queued and in execution. *)
LEMMA CountStep == PoolInv /\ [Next]_vars => CountAccountsForWork'
<1> SUFFICES ASSUME PoolInv, [Next]_vars PROVE CountAccountsForWork'
  OBVIOUS
<1> USE DEF PoolInv, TypeOK, queue, locks, threads, calls, history, Threads
<1>1. ASSUME NEW t \in Threads, NEW j \in Jobs, AddBegin(t, j) PROVE CountAccountsForWork'
  BY <1>1, CountUndisturbed DEF AddBegin, MayCall
<1>2. ASSUME NEW t \in Threads, ClearBegin(t) PROVE CountAccountsForWork'
  BY <1>2, CountUndisturbed DEF ClearBegin, MayCall
<1>3. ASSUME NEW t \in Threads, WaitBegin(t) PROVE CountAccountsForWork'
  BY <1>3, CountUndisturbed DEF WaitBegin, MayCall
<1>4. ASSUME NEW t \in Threads, AddLock(t) PROVE CountAccountsForWork'
  BY <1>4, CountUndisturbed DEF AddLock, Call
<1>5. ASSUME NEW t \in Threads, AddEnqueue(t) PROVE CountAccountsForWork'
  <2>1. Pending = tasks_
    BY <1>5, PendingWhenFree DEF AddEnqueue
  <2>2. Pending' = SubSeq(tasks_', 1, Len(tasks_') - 1)
    BY <1>5 DEF AddEnqueue, Call, Pending
  <2>3. Len(Pending') = Len(Pending)
    BY <1>5, <2>1, <2>2 DEF AddEnqueue
  <2>4. Busy' = Busy
    BY <1>5 DEF AddEnqueue, Busy
  <2>. QED
    BY <1>5, <2>3, <2>4 DEF AddEnqueue, CountAccountsForWork
<1>6. ASSUME NEW t \in Threads, AddCount(t) PROVE CountAccountsForWork'
  <2>1. Pending = SubSeq(tasks_, 1, Len(tasks_) - 1) /\ tasks_ # <<>>
    BY <1>6 DEF AddCount, Call, Pending, OwnershipInv
  <2>2. \A u \in Threads : call'[u] \notin {"add_count", "clear_empty"}
    BY <1>6 DEF AddCount, Call, OwnershipInv
  <2>3. Pending' = tasks_
    BY <1>6, <2>2 DEF AddCount, Pending
  <2>4. Len(tasks_) \in Nat /\ Len(tasks_) > 0
    BY <2>1
  <2>5. Len(Pending) = Len(tasks_) - 1
    BY <2>1, LenOfFront
  <2>6. Len(Pending') = Len(Pending) + 1
    BY <2>3, <2>4, <2>5
  <2>7. Busy' = Busy
    BY <1>6 DEF AddCount, Busy
  <2>. QED
    BY <1>6, <2>4, <2>5, <2>6, <2>7, BusyIsFinite DEF AddCount, CountAccountsForWork
<1>7. ASSUME NEW t \in Threads, AddNotify(t) PROVE CountAccountsForWork'
  BY <1>7, CountUndisturbed DEF AddNotify, Call, Asleep
<1>8. ASSUME NEW t \in Threads, ClearCount(t) PROVE CountAccountsForWork'
  <2>1. Pending = tasks_
    BY <1>8, PendingWhenFree DEF ClearCount
  <2>2. \A u \in Threads : call'[u] # "add_count"
    BY <1>8 DEF ClearCount, Call, OwnershipInv, PoolAssumption
  <2>3. call'[t] = "clear_empty"
    BY <1>8 DEF ClearCount, Call
  <2>4. Pending' = <<>>
    BY <2>2, <2>3 DEF Pending
  <2>5. Busy' = Busy
    BY <1>8 DEF ClearCount, Busy
  <2>. QED
    BY <1>8, <2>1, <2>4, <2>5, BusyIsFinite DEF ClearCount, CountAccountsForWork
<1>9. ASSUME NEW t \in Threads, ClearEmpty(t) PROVE CountAccountsForWork'
  <2>1. \A u \in Threads : call[u] # "add_count" /\ call'[u] \notin {"add_count", "clear_empty"}
    BY <1>9 DEF ClearEmpty, Call, OwnershipInv
  <2>2. Pending = <<>> /\ Pending' = <<>>
    BY <1>9, <2>1 DEF ClearEmpty, Call, Pending
  <2>3. Busy' = Busy
    BY <1>9 DEF ClearEmpty, Busy
  <2>. QED
    BY <1>9, <2>2, <2>3 DEF ClearEmpty, CountAccountsForWork
<1>10. ASSUME NEW t \in Threads, WaitReturn(t) PROVE CountAccountsForWork'
  BY <1>10, CountUndisturbed DEF WaitReturn, Call
<1>11. ASSUME NEW t \in Threads, WaitEval(t) PROVE CountAccountsForWork'
  BY <1>11, CountUndisturbed DEF WaitEval, Call
<1>12. ASSUME NEW t \in Threads, WaitBlock(t) PROVE CountAccountsForWork'
  BY <1>12, CountUndisturbed DEF WaitBlock, Call
<1>13. CASE RunBegin
  BY <1>13, CountUndisturbed DEF RunBegin
<1>14. ASSUME NEW w \in Workers, Spawn(w) PROVE CountAccountsForWork'
  BY <1>14, CountUndisturbed DEF Spawn
<1>15. CASE RunEnd
  BY <1>15, CountUndisturbed DEF RunEnd, Call
<1>16. CASE DestroyBegin
  BY <1>16, CountUndisturbed DEF DestroyBegin
<1>17. CASE DestroyFlag
  BY <1>17, CountUndisturbed DEF DestroyFlag, Call
<1>18. CASE DestroyNotify
  BY <1>18, CountUndisturbed DEF DestroyNotify, Call, Asleep
<1>19. CASE DestroyJoin
  BY <1>19, CountUndisturbed DEF DestroyJoin, Call
<1>20. ASSUME NEW w \in Workers, WorkerLeave(w) PROVE CountAccountsForWork'
  BY <1>20, CountUndisturbed DEF WorkerLeave, Go
<1>21. ASSUME NEW w \in Workers, WorkerLock(w) PROVE CountAccountsForWork'
  BY <1>21, CountUndisturbed DEF WorkerLock, Go
<1>22. ASSUME NEW w \in Workers, WorkerEval(w) PROVE CountAccountsForWork'
  BY <1>22, CountUndisturbed DEF WorkerEval, Go, empty
<1>23. ASSUME NEW w \in Workers, WorkerBlock(w) PROVE CountAccountsForWork'
  BY <1>23, CountUndisturbed DEF WorkerBlock, Go
<1>24. ASSUME NEW w \in Workers, WorkerPop(w) PROVE CountAccountsForWork'
  <2>1. CASE empty
    BY <1>24, <2>1, CountUndisturbed DEF WorkerPop, Go
  <2>2. CASE ~empty
    <3>1. Pending = tasks_
      BY <1>24, PendingWhenFree DEF WorkerPop
    <3>2. Pending' = Tail(tasks_)
      BY <1>24, <2>2 DEF WorkerPop, Pending, OwnershipInv, PoolAssumption
    <3>3. Len(Pending') = Len(Pending) - 1
      BY <2>2, <3>1, <3>2 DEF empty
    <3>4. Busy' = Busy \cup {w} /\ w \notin Busy
      BY <1>24, <2>2 DEF WorkerPop, Go, Busy
    <3>5. Cardinality(Busy') = Cardinality(Busy) + 1
      BY <3>4, BusyIsFinite, FS_AddElement
    <3>. QED
      BY <1>24, <2>2, <3>1, <3>3, <3>5, BusyIsFinite DEF WorkerPop, CountAccountsForWork
  <2>. QED
    BY <2>1, <2>2
<1>25. ASSUME NEW w \in Workers, WorkerFinish(w) PROVE CountAccountsForWork'
  BY <1>25, CountUndisturbed DEF WorkerFinish, Go
<1>26. ASSUME NEW w \in Workers, WorkerDiscount(w) PROVE CountAccountsForWork'
  <2>1. Pending' = Pending
    BY <1>26 DEF WorkerDiscount, Pending
  <2>2. Busy' = Busy \ {w} /\ w \in Busy
    BY <1>26 DEF WorkerDiscount, Go, Busy
  <2>3. Cardinality(Busy') = Cardinality(Busy) - 1
    BY <2>2, BusyIsFinite, FS_RemoveElement
  <2>4. Len(Pending) \in Nat
    BY DEF Pending
  <2>. QED
    BY <1>26, <2>1, <2>3, <2>4, BusyIsFinite DEF WorkerDiscount, CountAccountsForWork
<1>27. ASSUME NEW w \in Workers, WorkerLoad(w) PROVE CountAccountsForWork'
  BY <1>27, CountUndisturbed DEF WorkerLoad, Go
<1>28. ASSUME NEW w \in Workers, WorkerCallback(w) PROVE CountAccountsForWork'
  BY <1>28, CountUndisturbed DEF WorkerCallback, Go
<1>29. ASSUME NEW w \in Workers, WorkerNotify(w) PROVE CountAccountsForWork'
  BY <1>29, CountUndisturbed DEF WorkerNotify
<1>30. CASE SpuriousWakeup
  BY <1>30, CountUndisturbed DEF SpuriousWakeup, Call, Asleep
<1>31. CASE UNCHANGED vars
  BY <1>31, CountUndisturbed DEF vars
<1>. QED
  BY <1>1, <1>2, <1>3, <1>4, <1>5, <1>6, <1>7, <1>8, <1>9, <1>10, <1>11,
     <1>12, <1>13, <1>14, <1>15, <1>16, <1>17, <1>18, <1>19, <1>20, <1>21,
     <1>22, <1>23, <1>24, <1>25, <1>26, <1>27, <1>28, <1>29, <1>30, <1>31
     DEF Next, CallBegin, CallStep, MainStep, WorkerStep, Destroyed

------------------------------------------------------------------------------
(* Every step keeps each job in one place. *)

(* The first two conjuncts of NoJobLostOrDuplicated, spelled out.           *)
OnePlace(s, a, p, h, d, c) ==
  /\ s = a \cup p \cup h \cup d \cup c
  /\ a \cap (p \cup h \cup d \cup c) = {}
  /\ p \cap (h \cup d \cup c) = {}
  /\ h \cap (d \cup c) = {}
  /\ d \cap c = {}

(* No element occurs twice.                                                 *)
Different(s) == \A i, k \in DOMAIN s : s[i] = s[k] => i = k

(* Spelling them out changes nothing.                                       *)
LEMMA FivePlaces ==
  ASSUME NEW s, NEW a, NEW p, NEW h, NEW d, NEW c
  PROVE  (LET place == <<a, p, h, d, c>>
          IN  /\ s = UNION {place[i] : i \in DOMAIN place}
              /\ \A i, k \in DOMAIN place : i # k => place[i] \cap place[k] = {})
         <=> OnePlace(s, a, p, h, d, c)
<1> DEFINE place == <<a, p, h, d, c>>
<1>1. /\ DOMAIN place = 1 .. 5
      /\ place[1] = a /\ place[2] = p /\ place[3] = h /\ place[4] = d /\ place[5] = c
  OBVIOUS
<1> HIDE DEF place
<1>2. \A i : i \in 1 .. 5 <=> i = 1 \/ i = 2 \/ i = 3 \/ i = 4 \/ i = 5
  OBVIOUS
<1>3. UNION {place[i] : i \in 1 .. 5} = a \cup p \cup h \cup d \cup c
  BY <1>1, <1>2
<1>4. (\A i, k \in 1 .. 5 : i # k => place[i] \cap place[k] = {}) <=>
        /\ a \cap p = {} /\ a \cap h = {} /\ a \cap d = {} /\ a \cap c = {}
        /\ p \cap h = {} /\ p \cap d = {} /\ p \cap c = {}
        /\ h \cap d = {} /\ h \cap c = {}
        /\ d \cap c = {}
  BY <1>1, <1>2
<1>. QED
  BY <1>1, <1>3, <1>4 DEF OnePlace, place

(* A queue without repetition has none without its oldest job, which is not *)
(* among the others, ...                                                    *)
LEMMA DifferentTail ==
  ASSUME NEW S, NEW s \in Seq(S), s # <<>>, Different(s)
  PROVE  /\ Different(Tail(s))
         /\ {Tail(s)[i] : i \in DOMAIN Tail(s)} = {s[i] : i \in DOMAIN s} \ {Head(s)}
         /\ Head(s) \in {s[i] : i \in DOMAIN s}
<1> DEFINE n == Len(s)
           new == Tail(s)
<1>1. /\ n \in Nat /\ n > 0 /\ DOMAIN s = 1 .. n /\ DOMAIN new = 1 .. n - 1
      /\ Head(s) = s[1] /\ \A i \in 1 .. n - 1 : new[i] = s[i + 1]
  BY HeadTailProperties
<1> HIDE DEF n, new
<1>2. \A i \in 1 .. n - 1 : i + 1 \in 1 .. n /\ i + 1 # 1
  BY <1>1
<1>3. \A i \in 1 .. n : i = 1 \/ (i - 1 \in 1 .. n - 1 /\ (i - 1) + 1 = i)
  BY <1>1
<1>4. 1 \in 1 .. n
  BY <1>1
<1>5. \A i, k \in 1 .. n : s[i] = s[k] => i = k
  BY <1>1 DEF Different
<1>6. \A i, k \in 1 .. n - 1 : new[i] = new[k] => i = k
  <2> SUFFICES ASSUME NEW i \in 1 .. n - 1, NEW k \in 1 .. n - 1, new[i] = new[k]
               PROVE  i = k
    OBVIOUS
  <2>1. i + 1 = k + 1
    BY <1>1, <1>2, <1>5
  <2>. QED
    BY <2>1
<1>7. {new[i] : i \in 1 .. n - 1} \subseteq {s[i] : i \in 1 .. n} \ {s[1]}
  BY <1>1, <1>2, <1>4, <1>5
<1>8. {s[i] : i \in 1 .. n} \ {s[1]} \subseteq {new[i] : i \in 1 .. n - 1}
  <2> SUFFICES ASSUME NEW i \in 1 .. n, i # 1 PROVE s[i] \in {new[k] : k \in 1 .. n - 1}
    OBVIOUS
  <2>1. i - 1 \in 1 .. n - 1 /\ new[i - 1] = s[i]
    BY <1>1, <1>3
  <2>. QED
    BY <2>1
<1>9. Different(new)
  BY <1>1, <1>6 DEF Different
<1>10. {new[i] : i \in DOMAIN new} = {s[i] : i \in DOMAIN s} \ {Head(s)}
  BY <1>1, <1>7, <1>8
<1>11. Head(s) \in {s[i] : i \in DOMAIN s}
  BY <1>1, <1>4
<1>. QED
  BY <1>9, <1>10, <1>11 DEF new

(* ... and none when a new job joins it.                                    *)
LEMMA DifferentAppend ==
  ASSUME NEW S, NEW s \in Seq(S), Different(s),
         NEW e \in S, e \notin {s[i] : i \in DOMAIN s}
  PROVE  /\ Different(Append(s, e))
         /\ {Append(s, e)[i] : i \in DOMAIN Append(s, e)} = {s[i] : i \in DOMAIN s} \cup {e}
<1> DEFINE n == Len(s)
           new == Append(s, e)
<1>1. /\ n \in Nat /\ DOMAIN s = 1 .. n /\ DOMAIN new = 1 .. n + 1
      /\ new[n + 1] = e /\ \A i \in 1 .. n : new[i] = s[i]
  BY AppendProperties
<1> HIDE DEF n, new
<1>2. \A i : i \in 1 .. n + 1 <=> i \in 1 .. n \/ i = n + 1
  BY <1>1
<1>3. \A i \in 1 .. n : s[i] # e
  BY <1>1
<1>4. \A i, k \in 1 .. n : s[i] = s[k] => i = k
  BY <1>1 DEF Different
<1>5. \A i, k \in 1 .. n + 1 : new[i] = new[k] => i = k
  BY <1>1, <1>2, <1>3, <1>4
<1>6. {new[i] : i \in 1 .. n + 1} = {s[i] : i \in 1 .. n} \cup {e}
  BY <1>1, <1>2
<1>. QED
  BY <1>1, <1>5, <1>6 DEF Different, new

(* A step that moves no job; what the others do to jobs follows.            *)
JobsKept ==
  /\ UNCHANGED <<submitted, tasks_, done, cleared, arg, held>>
  /\ \A t \in Threads : /\ call'[t] = "add_count" <=> call[t] = "add_count"
                        /\ call'[t] = "clear_empty" <=> call[t] = "clear_empty"

(* Such a step leaves every job where it is.                                *)
LEMMA KeptPlaces ==
  ASSUME JobsKept PROVE UNCHANGED <<Pending, PendingJobs, Arriving, InHand>>
<1>1. Pending' = Pending
  BY DEF JobsKept, Pending
<1>. QED
  BY <1>1 DEF JobsKept, PendingJobs, Arriving, InHand

(* A submitted job arrives.                                                 *)
LEMMA AddBeginMoves ==
  ASSUME PoolInv, NEW t \in Threads, NEW j \in Jobs, AddBegin(t, j)
  PROVE  /\ Arriving' = Arriving \cup {j} /\ arg[t] = None
         /\ UNCHANGED <<Pending, PendingJobs, InHand>>
<1> USE DEF PoolInv, TypeOK, queue, locks, threads
<1>1. arg[t] = None
  BY DEF AddBegin, MayCall, OwnershipInv
<1>2. Pending' = Pending
  BY DEF AddBegin, MayCall, Pending
<1>3. Arriving' = Arriving \cup {j}
  BY <1>1 DEF AddBegin, Arriving, PoolAssumption
<1>. QED
  BY <1>1, <1>2, <1>3 DEF AddBegin, PendingJobs, InHand

(* In the queue it is still arriving ...                                    *)
LEMMA AddEnqueueMoves ==
  ASSUME PoolInv, NEW t \in Threads, AddEnqueue(t)
  PROVE  UNCHANGED <<Pending, PendingJobs, Arriving, InHand>>
<1> USE DEF PoolInv, TypeOK, locks, threads, history
<1>1. Pending = tasks_
  BY PendingWhenFree DEF AddEnqueue
<1>2. arg[t] \in Jobs /\ tasks_' = Append(tasks_, arg[t])
  BY DEF AddEnqueue, Call, OwnershipInv
<1>3. Pending' = SubSeq(tasks_', 1, Len(tasks_') - 1)
  BY DEF AddEnqueue, Call, Pending
<1>4. Pending' = Pending
  BY <1>1, <1>2, <1>3, FrontOfAppend
<1>. QED
  BY <1>4 DEF AddEnqueue, PendingJobs, Arriving, InHand

(* ... until it is counted.                                                 *)
LEMMA AddCountMoves ==
  ASSUME PoolInv, NEW t \in Threads, AddCount(t)
  PROVE  /\ arg[t] \in Jobs \cap Arriving
         /\ Pending' = Append(Pending, arg[t])
         /\ Arriving' = Arriving \ {arg[t]}
         /\ InHand' = InHand
<1> USE DEF PoolInv, TypeOK, locks, threads, history
<1>1. Pending = SubSeq(tasks_, 1, Len(tasks_) - 1) /\ tasks_ # <<>>
  BY DEF AddCount, Call, Pending, OwnershipInv
<1>2. \A u \in Threads : call'[u] \notin {"add_count", "clear_empty"}
  BY DEF AddCount, Call, OwnershipInv
<1>3. Pending' = tasks_
  BY <1>2 DEF AddCount, Pending
<1>4. tasks_[Len(tasks_)] = arg[t]
  BY DEF AddCount, Call, OwnershipInv
<1>5. Pending' = Append(Pending, arg[t])
  BY <1>1, <1>3, <1>4, FrontAndLast
<1>6. arg[t] \in Jobs
  BY DEF AddCount, Call, OwnershipInv
<1>7. \A u \in Threads : arg[u] = arg[t] => u = t
  BY <1>6 DEF NoJobLostOrDuplicated, PoolAssumption
<1>8. Arriving' = Arriving \ {arg[t]} /\ arg[t] \in Arriving
  BY <1>6, <1>7 DEF AddCount, Arriving, PoolAssumption
<1>. QED
  BY <1>5, <1>6, <1>8 DEF AddCount, InHand

(* A cleared queue is as good as empty before it is emptied.                *)
LEMMA ClearCountMoves ==
  ASSUME PoolInv, NEW t \in Threads, ClearCount(t)
  PROVE  /\ cleared' = cleared \cup PendingJobs
         /\ Pending' = <<>>
         /\ UNCHANGED <<Arriving, InHand>>
<1> USE DEF PoolInv, TypeOK, threads
<1>1. PendingJobs = QueuedJobs
  BY PendingWhenFree DEF ClearCount, PendingJobs, QueuedJobs
<1>2. \A u \in Threads : call'[u] # "add_count"
  BY DEF ClearCount, Call, OwnershipInv, PoolAssumption
<1>3. call'[t] = "clear_empty"
  BY DEF ClearCount, Call
<1>4. Pending' = <<>>
  BY <1>2, <1>3 DEF Pending
<1>. QED
  BY <1>1, <1>4 DEF ClearCount, Arriving, InHand

(* Emptying it changes nothing any more.                                    *)
LEMMA ClearEmptyMoves ==
  ASSUME PoolInv, NEW t \in Threads, ClearEmpty(t)
  PROVE  UNCHANGED <<Pending, PendingJobs, Arriving, InHand>>
<1> USE DEF PoolInv, TypeOK, threads, history
<1>1. \A u \in Threads : call[u] # "add_count" /\ call'[u] # "add_count"
  BY DEF ClearEmpty, Call, OwnershipInv
<1>2. Pending = <<>> /\ Pending' = <<>>
  BY <1>1 DEF ClearEmpty, Call, Pending
<1>. QED
  BY <1>2 DEF ClearEmpty, PendingJobs, Arriving, InHand

(* A worker with nothing in its hands takes the oldest job, ...             *)
LEMMA PopMoves ==
  ASSUME PoolInv, NEW w \in Workers, WorkerPop(w), ~empty
  PROVE  /\ Pending # <<>> /\ held[w] = None
         /\ Pending' = Tail(Pending)
         /\ held' = [held EXCEPT ![w] = Head(Pending)]
         /\ InHand' = InHand \cup {Head(Pending)}
         /\ Head(Pending) \in Jobs
         /\ Arriving' = Arriving
<1> USE DEF PoolInv, TypeOK, locks, calls
<1>1. Pending = tasks_
  BY PendingWhenFree DEF WorkerPop
<1>2. Pending' = Tail(tasks_)
  BY DEF WorkerPop, Pending, OwnershipInv, PoolAssumption
<1>3. Head(tasks_) \in Jobs
  BY DEF empty
<1>4. held[w] = None
  BY DEF WorkerPop, Go, OwnershipInv
<1>5. held' = [held EXCEPT ![w] = Head(tasks_)]
  BY DEF WorkerPop
<1>6. InHand' = InHand \cup {Head(tasks_)}
  BY <1>3, <1>4, <1>5 DEF InHand, PoolAssumption
<1>. QED
  BY <1>1, <1>2, <1>3, <1>4, <1>5, <1>6 DEF WorkerPop, Arriving, empty

(* ... and puts it down when it has finished it.                            *)
LEMMA FinishMoves ==
  ASSUME PoolInv, NEW w \in Workers, WorkerFinish(w)
  PROVE  /\ held[w] \in Jobs \cap InHand
         /\ InHand' = InHand \ {held[w]}
         /\ UNCHANGED <<Pending, PendingJobs, Arriving>>
<1> USE DEF PoolInv, TypeOK, queue, locks, calls
<1>1. held[w] \in Jobs
  BY DEF WorkerFinish, Go, OwnershipInv
<1>2. \A v \in Workers : held[v] = held[w] => v = w
  BY <1>1 DEF NoJobLostOrDuplicated, PoolAssumption
<1>3. InHand' = InHand \ {held[w]} /\ held[w] \in InHand
  BY <1>1, <1>2 DEF WorkerFinish, InHand, PoolAssumption
<1>4. Pending' = Pending
  BY DEF WorkerFinish, Pending
<1>. QED
  BY <1>1, <1>3, <1>4 DEF WorkerFinish, PendingJobs, Arriving

(* The steps that move jobs.                                                *)
JobsMoved ==
  \/ \E t \in Threads : \/ \E j \in Jobs : AddBegin(t, j)
                        \/ AddEnqueue(t) \/ AddCount(t)
                        \/ ClearCount(t) \/ ClearEmpty(t)
  \/ \E w \in Workers : (WorkerPop(w) /\ ~empty) \/ WorkerFinish(w)

(* There are no others.                                                     *)
LEMMA KeptOrMoved == PoolInv /\ [Next]_vars => JobsKept \/ JobsMoved
<1> SUFFICES ASSUME PoolInv, [Next]_vars, ~JobsMoved PROVE JobsKept
  OBVIOUS
<1> USE DEF PoolInv, TypeOK, queue, locks, threads, calls, history, Threads, JobsKept
<1>1. ASSUME NEW t \in Threads, NEW j \in Jobs, AddBegin(t, j) PROVE JobsKept
  BY <1>1 DEF JobsMoved
<1>2. ASSUME NEW t \in Threads, ClearBegin(t) PROVE JobsKept
  BY <1>2 DEF ClearBegin, MayCall
<1>3. ASSUME NEW t \in Threads, WaitBegin(t) PROVE JobsKept
  BY <1>3 DEF WaitBegin, MayCall
<1>4. ASSUME NEW t \in Threads, AddLock(t) PROVE JobsKept
  BY <1>4 DEF AddLock, Call
<1>5. ASSUME NEW t \in Threads, AddEnqueue(t) PROVE JobsKept
  BY <1>5 DEF JobsMoved
<1>6. ASSUME NEW t \in Threads, AddCount(t) PROVE JobsKept
  BY <1>6 DEF JobsMoved
<1>7. ASSUME NEW t \in Threads, AddNotify(t) PROVE JobsKept
  BY <1>7 DEF AddNotify, Call, Asleep
<1>8. ASSUME NEW t \in Threads, ClearCount(t) PROVE JobsKept
  BY <1>8 DEF JobsMoved
<1>9. ASSUME NEW t \in Threads, ClearEmpty(t) PROVE JobsKept
  BY <1>9 DEF JobsMoved
<1>10. ASSUME NEW t \in Threads, WaitReturn(t) PROVE JobsKept
  BY <1>10 DEF WaitReturn, Call
<1>11. ASSUME NEW t \in Threads, WaitEval(t) PROVE JobsKept
  BY <1>11 DEF WaitEval, Call
<1>12. ASSUME NEW t \in Threads, WaitBlock(t) PROVE JobsKept
  BY <1>12 DEF WaitBlock, Call
<1>13. CASE RunBegin
  BY <1>13 DEF RunBegin
<1>14. ASSUME NEW w \in Workers, Spawn(w) PROVE JobsKept
  BY <1>14 DEF Spawn
<1>15. CASE RunEnd
  BY <1>15 DEF RunEnd, Call
<1>16. CASE DestroyBegin
  BY <1>16 DEF DestroyBegin
<1>17. CASE DestroyFlag
  BY <1>17 DEF DestroyFlag, Call
<1>18. CASE DestroyNotify
  BY <1>18 DEF DestroyNotify, Call, Asleep
<1>19. CASE DestroyJoin
  BY <1>19 DEF DestroyJoin, Call
<1>20. ASSUME NEW w \in Workers, WorkerLeave(w) PROVE JobsKept
  BY <1>20 DEF WorkerLeave, Go
<1>21. ASSUME NEW w \in Workers, WorkerLock(w) PROVE JobsKept
  BY <1>21 DEF WorkerLock, Go
<1>22. ASSUME NEW w \in Workers, WorkerEval(w) PROVE JobsKept
  BY <1>22 DEF WorkerEval, Go, empty
<1>23. ASSUME NEW w \in Workers, WorkerBlock(w) PROVE JobsKept
  BY <1>23 DEF WorkerBlock, Go
<1>24. ASSUME NEW w \in Workers, WorkerPop(w) PROVE JobsKept
  BY <1>24 DEF WorkerPop, Go, JobsMoved
<1>25. ASSUME NEW w \in Workers, WorkerFinish(w) PROVE JobsKept
  BY <1>25 DEF JobsMoved
<1>26. ASSUME NEW w \in Workers, WorkerDiscount(w) PROVE JobsKept
  BY <1>26 DEF WorkerDiscount, Go
<1>27. ASSUME NEW w \in Workers, WorkerLoad(w) PROVE JobsKept
  BY <1>27 DEF WorkerLoad, Go
<1>28. ASSUME NEW w \in Workers, WorkerCallback(w) PROVE JobsKept
  BY <1>28 DEF WorkerCallback, Go
<1>29. ASSUME NEW w \in Workers, WorkerNotify(w) PROVE JobsKept
  BY <1>29 DEF WorkerNotify
<1>30. CASE SpuriousWakeup
  BY <1>30 DEF SpuriousWakeup, Call, Asleep
<1>31. CASE UNCHANGED vars
  BY <1>31 DEF vars
<1>. QED
  BY <1>1, <1>2, <1>3, <1>4, <1>5, <1>6, <1>7, <1>8, <1>9, <1>10, <1>11,
     <1>12, <1>13, <1>14, <1>15, <1>16, <1>17, <1>18, <1>19, <1>20, <1>21,
     <1>22, <1>23, <1>24, <1>25, <1>26, <1>27, <1>28, <1>29, <1>30, <1>31
     DEF Next, CallBegin, CallStep, MainStep, WorkerStep, Destroyed


(* NoJobLostOrDuplicated in two parts: each job is in one place, ...        *)
PlacesInv == OnePlace(submitted, Arriving, PendingJobs, InHand, done, cleared)

(* ... and there only once.                                                 *)
OnceInv ==
  /\ Different(Pending)
  /\ \A t, u \in Threads : arg[t] = arg[u] /\ arg[t] # None => t = u
  /\ \A v, w \in Workers : held[v] = held[w] /\ held[v] # None => v = w

(* The two parts are the whole.                                             *)
LEMMA PlacesSpelled == NoJobLostOrDuplicated <=> PlacesInv /\ OnceInv
<1> DEFINE place == <<Arriving, PendingJobs, InHand, done, cleared>>
           A == /\ submitted = UNION {place[i] : i \in DOMAIN place}
                /\ \A i, k \in DOMAIN place : i # k => place[i] \cap place[k] = {}
<1>1. A <=> PlacesInv
  BY FivePlaces DEF PlacesInv
<1>2. NoJobLostOrDuplicated <=> A /\ OnceInv
  <2> HIDE DEF place
  <2>. QED
    BY DEF NoJobLostOrDuplicated, OnceInv, Different, place
<1>. QED
  BY <1>1, <1>2

(* Every step keeps each job in one place.                                  *)
LEMMA PlacedStep == PoolInv /\ [Next]_vars => NoJobLostOrDuplicated'
<1>1. NoJobLostOrDuplicated' <=> (PlacesInv /\ OnceInv)'
  BY PlacesSpelled, PTL
<1> SUFFICES ASSUME PoolInv, [Next]_vars PROVE PlacesInv' /\ OnceInv'
  BY <1>1
<1>2. /\ PlacesInv /\ OnceInv
      /\ Pending \in Seq(Jobs)
      /\ arg \in [Threads -> Jobs \cup {None}]
      /\ held \in [Workers -> Jobs \cup {None}]
  BY PlacesSpelled, PendingIsSeq DEF PoolInv, TypeOK
<1> USE DEF PlacesInv, OnePlace
<1>3. CASE JobsKept
  BY <1>2, <1>3, KeptPlaces DEF JobsKept, OnceInv
<1>4. ASSUME NEW t \in Threads, NEW j \in Jobs, AddBegin(t, j)
      PROVE  PlacesInv' /\ OnceInv'
  <2>1. /\ j \notin submitted /\ submitted' = submitted \cup {j}
        /\ UNCHANGED <<done, cleared, held>>
        /\ arg' = [arg EXCEPT ![t] = j]
    BY <1>4 DEF AddBegin, history, threads
  <2>2. \A u \in Threads : arg[u] # j
    BY <1>2, <2>1 DEF Arriving, PoolAssumption
  <2>. QED
    BY <1>2, <1>4, <2>1, <2>2, AddBeginMoves DEF OnceInv
<1>5. ASSUME NEW t \in Threads, AddEnqueue(t) PROVE PlacesInv' /\ OnceInv'
  <2>1. UNCHANGED <<submitted, done, cleared, arg, held>>
    BY <1>5 DEF AddEnqueue, history, threads
  <2>. QED
    BY <1>2, <1>5, <2>1, AddEnqueueMoves DEF OnceInv
<1>6. ASSUME NEW t \in Threads, AddCount(t) PROVE PlacesInv' /\ OnceInv'
  <2>1. UNCHANGED <<submitted, done, cleared, held>> /\ arg' = [arg EXCEPT ![t] = None]
    BY <1>6 DEF AddCount, history, threads
  <2>2. /\ arg[t] \in Jobs /\ arg[t] \in Arriving /\ InHand' = InHand
        /\ Pending' = Append(Pending, arg[t]) /\ Arriving' = Arriving \ {arg[t]}
    BY <1>6, AddCountMoves
  <2>3. arg[t] \notin PendingJobs
    BY <1>2, <2>2
  <2>4. PendingJobs' = PendingJobs \cup {arg[t]} /\ Different(Pending')
    BY <1>2, <2>2, <2>3, DifferentAppend DEF OnceInv, PendingJobs
  <2>5. OnceInv'
    BY <1>2, <2>1, <2>4 DEF OnceInv
  <2>6. PlacesInv'
    BY <1>2, <2>1, <2>2, <2>4
  <2>. QED
    BY <2>5, <2>6
<1>7. ASSUME NEW t \in Threads, ClearCount(t) PROVE PlacesInv' /\ OnceInv'
  <2>1. UNCHANGED <<submitted, done, arg, held>>
    BY <1>7 DEF ClearCount, threads
  <2>2. cleared' = cleared \cup PendingJobs /\ Pending' = <<>> /\ UNCHANGED <<Arriving, InHand>>
    BY <1>7, ClearCountMoves
  <2>3. PendingJobs' = {} /\ Different(Pending')
    BY <2>2 DEF PendingJobs, Different
  <2>. QED
    BY <1>2, <2>1, <2>2, <2>3 DEF OnceInv
<1>8. ASSUME NEW t \in Threads, ClearEmpty(t) PROVE PlacesInv' /\ OnceInv'
  <2>1. UNCHANGED <<submitted, done, cleared, arg, held>>
    BY <1>8 DEF ClearEmpty, history, threads
  <2>. QED
    BY <1>2, <1>8, <2>1, ClearEmptyMoves DEF OnceInv
<1>9. ASSUME NEW w \in Workers, WorkerPop(w), ~empty PROVE PlacesInv' /\ OnceInv'
  <2>1. UNCHANGED <<submitted, done, cleared, arg>>
    BY <1>9 DEF WorkerPop, calls
  <2>2. /\ Pending # <<>> /\ Pending' = Tail(Pending) /\ held[w] = None
        /\ held' = [held EXCEPT ![w] = Head(Pending)]
        /\ InHand' = InHand \cup {Head(Pending)} /\ Arriving' = Arriving
    BY <1>9, PopMoves
  <2>3. /\ PendingJobs' = PendingJobs \ {Head(Pending)} /\ Head(Pending) \in PendingJobs
        /\ Different(Pending')
    <3>0. Pending \in Seq(Jobs) /\ Pending # <<>> /\ Different(Pending)
      BY <1>2, <2>2 DEF OnceInv
    <3>1. /\ Different(Tail(Pending))
          /\ {Tail(Pending)[i] : i \in DOMAIN Tail(Pending)}
               = {Pending[i] : i \in DOMAIN Pending} \ {Head(Pending)}
          /\ Head(Pending) \in {Pending[i] : i \in DOMAIN Pending}
      BY <3>0, DifferentTail, Zenon
    <3>. QED
      BY <2>2, <3>1, Zenon DEF PendingJobs
  <2>4. \A v \in Workers : held[v] # Head(Pending)
    <3>1. Head(Pending) # None
      BY <1>2, <2>2 DEF PoolAssumption
    <3>. QED
      BY <1>2, <2>3, <3>1 DEF InHand
  <2>5. OnceInv'
    <3>1. \A v \in Workers : held'[v] = IF v = w THEN Head(Pending) ELSE held[v]
      BY <1>2, <2>2
    <3>. QED
      BY <1>2, <2>1, <2>3, <2>4, <3>1 DEF OnceInv
  <2>6. PlacesInv'
    BY <1>2, <2>1, <2>2, <2>3
  <2>. QED
    BY <2>5, <2>6
<1>10. ASSUME NEW w \in Workers, WorkerFinish(w) PROVE PlacesInv' /\ OnceInv'
  <2>1. /\ UNCHANGED <<submitted, cleared, arg>> /\ done' = done \cup {held[w]}
        /\ held' = [held EXCEPT ![w] = None]
    BY <1>10 DEF WorkerFinish, calls
  <2>2. OnceInv'
    BY <1>2, <1>10, <2>1, FinishMoves DEF OnceInv
  <2>3. PlacesInv'
    BY <1>2, <1>10, <2>1, FinishMoves
  <2>. QED
    BY <2>2, <2>3
<1>. QED
  BY <1>3, <1>4, <1>5, <1>6, <1>7, <1>8, <1>9, <1>10, KeptOrMoved DEF JobsMoved

------------------------------------------------------------------------------
(* Every step keeps a worker on the way to each queued job. *)

(* The counts in NoStarvedJob are numbers.                                  *)
LEMMA SeekersAreFinite ==
  /\ IsFiniteSet(Seeking) /\ Cardinality(Seeking) \in Nat
  /\ IsFiniteSet(Notifying) /\ Cardinality(Notifying) \in Nat
<1>1. Seeking \subseteq Workers /\ Notifying \subseteq Threads
  BY DEF Seeking, Notifying
<1>2. IsFiniteSet(Threads)
  BY FS_Union DEF Threads, PoolAssumption
<1>. QED
  BY <1>1, <1>2, FS_Subset, FS_CardinalityType DEF PoolAssumption

(* Nothing queued, nobody less on the way and nobody new asleep.            *)
LEMMA StarvedUndisturbed ==
  ASSUME TypeOK, TypeOK', NoStarvedJob,
         Len(tasks_') <= Len(tasks_),
         Seeking \subseteq Seeking', Notifying \subseteq Notifying',
         Asleep' # {} /\ ~is_shutting_down_' => Asleep # {} /\ ~is_shutting_down_
  PROVE  NoStarvedJob'
<1>1. (IsFiniteSet(Seeking) /\ Cardinality(Seeking) \in Nat /\ IsFiniteSet(Notifying) /\ Cardinality(Notifying) \in Nat)'
  BY SeekersAreFinite, PTL
<1>2. Cardinality(Seeking) <= Cardinality(Seeking') /\ Cardinality(Notifying) <= Cardinality(Notifying')
  BY <1>1, FS_Subset
<1>3. Len(tasks_) \in Nat /\ Len(tasks_') \in Nat
  BY DEF TypeOK
<1>. QED
  BY <1>1, <1>2, <1>3, SeekersAreFinite DEF NoStarvedJob

(* Nothing is starved by an empty queue.                                    *)
LEMMA NothingQueued == ASSUME tasks_' = <<>> PROVE NoStarvedJob'
<1>1. (IsFiniteSet(Seeking) /\ Cardinality(Seeking) \in Nat /\ IsFiniteSet(Notifying) /\ Cardinality(Notifying) \in Nat)'
  BY SeekersAreFinite, PTL
<1>2. Len(tasks_') = 0
  OBVIOUS
<1>. QED
  BY <1>1, <1>2 DEF NoStarvedJob

(* Whoever takes a job has looked, who queues one notifies, and nobody falls *)
(* asleep over a queued job.                                                *)
LEMMA StarvedStep == PoolInv /\ [Next]_vars => NoStarvedJob'
<1> SUFFICES ASSUME PoolInv, [Next]_vars PROVE NoStarvedJob'
  OBVIOUS
<1>0. TypeOK'
  BY TypeOKStep
<1> USE <1>0 DEF PoolInv, TypeOK, queue, locks, threads, calls, history, Threads
<1>1. ASSUME NEW t \in Threads, NEW j \in Jobs, AddBegin(t, j) PROVE NoStarvedJob'
  BY <1>1, StarvedUndisturbed DEF AddBegin, MayCall, Asleep, Seeking, Notifying
<1>2. ASSUME NEW t \in Threads, ClearBegin(t) PROVE NoStarvedJob'
  BY <1>2, StarvedUndisturbed DEF ClearBegin, MayCall, Asleep, Seeking, Notifying
<1>3. ASSUME NEW t \in Threads, WaitBegin(t) PROVE NoStarvedJob'
  BY <1>3, StarvedUndisturbed DEF WaitBegin, MayCall, Asleep, Seeking, Notifying
<1>4. ASSUME NEW t \in Threads, AddLock(t) PROVE NoStarvedJob'
  BY <1>4, StarvedUndisturbed DEF AddLock, Call, Asleep, Seeking, Notifying
<1>5. ASSUME NEW t \in Threads, AddEnqueue(t) PROVE NoStarvedJob'
  <2>1. /\ Asleep' = Asleep /\ is_shutting_down_' = is_shutting_down_ /\ Seeking' = Seeking
        /\ t \in Threads /\ t \notin Notifying /\ Notifying' = Notifying \cup {t}
    BY <1>5 DEF AddEnqueue, Call, Asleep, Seeking, Notifying
  <2>2. Cardinality(Notifying') = Cardinality(Notifying) + 1
    BY <2>1, SeekersAreFinite, FS_AddElement
  <2>3. Len(tasks_') = Len(tasks_) + 1
    BY <1>5 DEF AddEnqueue, Call
  <2>. QED
    BY <2>1, <2>2, <2>3, SeekersAreFinite DEF NoStarvedJob
<1>6. ASSUME NEW t \in Threads, AddCount(t) PROVE NoStarvedJob'
  BY <1>6, StarvedUndisturbed DEF AddCount, Call, Asleep, Seeking, Notifying
<1>7. ASSUME NEW t \in Threads, AddNotify(t) PROVE NoStarvedJob'
  <2>1. /\ tasks_' = tasks_ /\ is_shutting_down_' = is_shutting_down_
        /\ t \in Notifying /\ Notifying' = Notifying \ {t}
    BY <1>7 DEF AddNotify, Call, Notifying
  <2>2. CASE wpc' = wpc /\ Asleep = {}
    BY <2>2 DEF NoStarvedJob, Asleep
  <2>3. ASSUME NEW w \in Asleep, wpc' = [wpc EXCEPT ![w] = "relock"] PROVE NoStarvedJob'
    <3>1. w \notin Seeking /\ Seeking' = Seeking \cup {w}
      BY <2>3 DEF Seeking, Asleep
    <3>2. Cardinality(Seeking') = Cardinality(Seeking) + 1
      BY <3>1, SeekersAreFinite, FS_AddElement
    <3>3. Cardinality(Notifying') = Cardinality(Notifying) - 1
      BY <2>1, SeekersAreFinite, FS_RemoveElement
    <3>. QED
      BY <2>1, <2>3, <3>2, <3>3, SeekersAreFinite DEF NoStarvedJob
  <2>. QED
    BY <1>7, <2>2, <2>3 DEF AddNotify
<1>8. ASSUME NEW t \in Threads, ClearCount(t) PROVE NoStarvedJob'
  BY <1>8, StarvedUndisturbed DEF ClearCount, Call, Asleep, Seeking, Notifying
<1>9. ASSUME NEW t \in Threads, ClearEmpty(t) PROVE NoStarvedJob'
  BY <1>9, NothingQueued DEF ClearEmpty
<1>10. ASSUME NEW t \in Threads, WaitReturn(t) PROVE NoStarvedJob'
  BY <1>10, StarvedUndisturbed DEF WaitReturn, Call, Asleep, Seeking, Notifying
<1>11. ASSUME NEW t \in Threads, WaitEval(t) PROVE NoStarvedJob'
  BY <1>11, StarvedUndisturbed DEF WaitEval, Call, Asleep, Seeking, Notifying
<1>12. ASSUME NEW t \in Threads, WaitBlock(t) PROVE NoStarvedJob'
  BY <1>12, StarvedUndisturbed DEF WaitBlock, Call, Asleep, Seeking, Notifying
<1>13. CASE RunBegin
  BY <1>13, StarvedUndisturbed DEF RunBegin, Asleep, Seeking, Notifying
<1>14. ASSUME NEW w \in Workers, Spawn(w) PROVE NoStarvedJob'
  BY <1>14, StarvedUndisturbed DEF Spawn, Asleep, Seeking, Notifying
<1>15. CASE RunEnd
  BY <1>15, StarvedUndisturbed DEF RunEnd, Call, Asleep, Seeking, Notifying
<1>16. CASE DestroyBegin
  BY <1>16, StarvedUndisturbed DEF DestroyBegin, Asleep, Seeking, Notifying
<1>17. CASE DestroyFlag
  BY <1>17 DEF DestroyFlag, NoStarvedJob
<1>18. CASE DestroyNotify
  BY <1>18, StarvedUndisturbed DEF DestroyNotify, Call, Asleep, Seeking, Notifying
<1>19. CASE DestroyJoin
  BY <1>19, StarvedUndisturbed DEF DestroyJoin, Call, Asleep, Seeking, Notifying
<1>20. ASSUME NEW w \in Workers, WorkerLeave(w) PROVE NoStarvedJob'
  BY <1>20 DEF WorkerLeave, NoStarvedJob
<1>21. ASSUME NEW w \in Workers, WorkerLock(w) PROVE NoStarvedJob'
  BY <1>21, StarvedUndisturbed DEF WorkerLock, Go, Asleep, Seeking, Notifying
<1>22. ASSUME NEW w \in Workers, WorkerEval(w) PROVE NoStarvedJob'
  <2>1. CASE is_shutting_down_
    BY <1>22, <2>1 DEF WorkerEval, NoStarvedJob
  <2>2. CASE empty
    BY <1>22, <2>2, NothingQueued DEF WorkerEval, empty
  <2>3. CASE ~is_shutting_down_ /\ ~empty
    BY <1>22, <2>3, StarvedUndisturbed DEF WorkerEval, Go, Asleep, Seeking, Notifying
  <2>. QED
    BY <2>1, <2>2, <2>3
<1>23. ASSUME NEW w \in Workers, WorkerBlock(w) PROVE NoStarvedJob'
  <2>1. tasks_' = <<>>
    BY <1>23 DEF WorkerBlock, Go, BlockedOnEmptyInv, empty
  <2>. QED
    BY <2>1, NothingQueued
<1>24. ASSUME NEW w \in Workers, WorkerPop(w) PROVE NoStarvedJob'
  <2>1. CASE empty
    BY <1>24, <2>1, StarvedUndisturbed DEF WorkerPop, Go, Asleep, Seeking, Notifying
  <2>2. CASE ~empty
    <3>1. /\ Asleep' = Asleep /\ is_shutting_down_' = is_shutting_down_ /\ Notifying' = Notifying
          /\ w \in Seeking /\ Seeking' = Seeking \ {w}
      BY <1>24, <2>2 DEF WorkerPop, Go, Asleep, Seeking, Notifying
    <3>2. Cardinality(Seeking') = Cardinality(Seeking) - 1
      BY <3>1, SeekersAreFinite, FS_RemoveElement
    <3>3. Len(tasks_') = Len(tasks_) - 1
      BY <1>24, <2>2, HeadTailProperties DEF WorkerPop, empty
    <3>. QED
      BY <3>1, <3>2, <3>3, SeekersAreFinite DEF NoStarvedJob
  <2>. QED
    BY <2>1, <2>2
<1>25. ASSUME NEW w \in Workers, WorkerFinish(w) PROVE NoStarvedJob'
  BY <1>25, StarvedUndisturbed DEF WorkerFinish, Go, Asleep, Seeking, Notifying
<1>26. ASSUME NEW w \in Workers, WorkerDiscount(w) PROVE NoStarvedJob'
  BY <1>26, StarvedUndisturbed DEF WorkerDiscount, Go, Asleep, Seeking, Notifying
<1>27. ASSUME NEW w \in Workers, WorkerLoad(w) PROVE NoStarvedJob'
  BY <1>27, StarvedUndisturbed DEF WorkerLoad, Go, Asleep, Seeking, Notifying
<1>28. ASSUME NEW w \in Workers, WorkerCallback(w) PROVE NoStarvedJob'
  BY <1>28, StarvedUndisturbed DEF WorkerCallback, Go, Asleep, Seeking, Notifying
<1>29. ASSUME NEW w \in Workers, WorkerNotify(w) PROVE NoStarvedJob'
  BY <1>29, StarvedUndisturbed DEF WorkerNotify, Asleep, Seeking, Notifying
<1>30. CASE SpuriousWakeup
  BY <1>30, StarvedUndisturbed DEF SpuriousWakeup, Call, Asleep, Seeking, Notifying
<1>31. CASE UNCHANGED vars
  BY <1>31, StarvedUndisturbed DEF vars, Asleep, Seeking, Notifying
<1>. QED
  BY <1>1, <1>2, <1>3, <1>4, <1>5, <1>6, <1>7, <1>8, <1>9, <1>10, <1>11,
     <1>12, <1>13, <1>14, <1>15, <1>16, <1>17, <1>18, <1>19, <1>20, <1>21,
     <1>22, <1>23, <1>24, <1>25, <1>26, <1>27, <1>28, <1>29, <1>30, <1>31
     DEF Next, CallBegin, CallStep, MainStep, WorkerStep, Destroyed

------------------------------------------------------------------------------
(* Every step keeps the destructor alone with the workers. *)
LEMMA DestructorStep == PoolInv /\ [Next]_vars => DestructorInv'
<1> SUFFICES ASSUME PoolInv, [Next]_vars PROVE DestructorInv'
  OBVIOUS
<1> USE DEF PoolInv, TypeOK, OwnershipInv, DestructorInv, queue, locks, threads,
            calls, history, Threads, DestructorStates, PoolAssumption
<1>1. ASSUME NEW t \in Threads, NEW j \in Jobs, AddBegin(t, j) PROVE DestructorInv'
  BY <1>1 DEF AddBegin, MayCall
<1>2. ASSUME NEW t \in Threads, ClearBegin(t) PROVE DestructorInv'
  BY <1>2 DEF ClearBegin, MayCall
<1>3. ASSUME NEW t \in Threads, WaitBegin(t) PROVE DestructorInv'
  BY <1>3 DEF WaitBegin, MayCall
<1>4. ASSUME NEW t \in Threads, AddLock(t) PROVE DestructorInv'
  BY <1>4 DEF AddLock, Call
<1>5. ASSUME NEW t \in Threads, AddEnqueue(t) PROVE DestructorInv'
  BY <1>5 DEF AddEnqueue, Call
<1>6. ASSUME NEW t \in Threads, AddCount(t) PROVE DestructorInv'
  BY <1>6 DEF AddCount, Call
<1>7. ASSUME NEW t \in Threads, AddNotify(t) PROVE DestructorInv'
  BY <1>7 DEF AddNotify, Call, Asleep
<1>8. ASSUME NEW t \in Threads, ClearCount(t) PROVE DestructorInv'
  BY <1>8 DEF ClearCount, Call
<1>9. ASSUME NEW t \in Threads, ClearEmpty(t) PROVE DestructorInv'
  BY <1>9 DEF ClearEmpty, Call
<1>10. ASSUME NEW t \in Threads, WaitReturn(t) PROVE DestructorInv'
  BY <1>10 DEF WaitReturn, Call
<1>11. ASSUME NEW t \in Threads, WaitEval(t) PROVE DestructorInv'
  BY <1>11 DEF WaitEval, Call
<1>12. ASSUME NEW t \in Threads, WaitBlock(t) PROVE DestructorInv'
  BY <1>12 DEF WaitBlock, Call
<1>13. CASE RunBegin
  BY <1>13 DEF RunBegin
<1>14. ASSUME NEW w \in Workers, Spawn(w) PROVE DestructorInv'
  BY <1>14 DEF Spawn
<1>15. CASE RunEnd
  BY <1>15 DEF RunEnd, Call
<1>16. CASE DestroyBegin
  BY <1>16 DEF DestroyBegin
<1>17. CASE DestroyFlag
  BY <1>17 DEF DestroyFlag, Call
<1>18. CASE DestroyNotify
  BY <1>18 DEF DestroyNotify, Call, Asleep
<1>19. CASE DestroyJoin
  BY <1>19 DEF DestroyJoin, Call
<1>20. ASSUME NEW w \in Workers, WorkerLeave(w) PROVE DestructorInv'
  BY <1>20 DEF WorkerLeave, Go
<1>21. ASSUME NEW w \in Workers, WorkerLock(w) PROVE DestructorInv'
  BY <1>21 DEF WorkerLock, Go
<1>22. ASSUME NEW w \in Workers, WorkerEval(w) PROVE DestructorInv'
  BY <1>22 DEF WorkerEval, Go, empty
<1>23. ASSUME NEW w \in Workers, WorkerBlock(w) PROVE DestructorInv'
  BY <1>23 DEF WorkerBlock, Go
<1>24. ASSUME NEW w \in Workers, WorkerPop(w) PROVE DestructorInv'
  BY <1>24 DEF WorkerPop, Go, empty
<1>25. ASSUME NEW w \in Workers, WorkerFinish(w) PROVE DestructorInv'
  BY <1>25 DEF WorkerFinish, Go
<1>26. ASSUME NEW w \in Workers, WorkerDiscount(w) PROVE DestructorInv'
  BY <1>26 DEF WorkerDiscount, Go
<1>27. ASSUME NEW w \in Workers, WorkerLoad(w) PROVE DestructorInv'
  BY <1>27 DEF WorkerLoad, Go
<1>28. ASSUME NEW w \in Workers, WorkerCallback(w) PROVE DestructorInv'
  BY <1>28 DEF WorkerCallback, Go
<1>29. ASSUME NEW w \in Workers, WorkerNotify(w) PROVE DestructorInv'
  BY <1>29 DEF WorkerNotify
<1>30. CASE SpuriousWakeup
  BY <1>30 DEF SpuriousWakeup, Call, Asleep
<1>31. CASE UNCHANGED vars
  BY <1>31 DEF vars
<1>. QED
  BY <1>1, <1>2, <1>3, <1>4, <1>5, <1>6, <1>7, <1>8, <1>9, <1>10, <1>11,
     <1>12, <1>13, <1>14, <1>15, <1>16, <1>17, <1>18, <1>19, <1>20, <1>21,
     <1>22, <1>23, <1>24, <1>25, <1>26, <1>27, <1>28, <1>29, <1>30, <1>31
     DEF Next, CallBegin, CallStep, MainStep, WorkerStep, Destroyed

(* Every step keeps the queue empty while a worker is about to sleep: it has *)
(* worker_mtx_, without which nothing is queued.                             *)
LEMMA BlockedStep == PoolInv /\ [Next]_vars => BlockedOnEmptyInv'
<1> SUFFICES ASSUME PoolInv, [Next]_vars PROVE BlockedOnEmptyInv'
  OBVIOUS
<1> USE DEF PoolInv, TypeOK, OwnershipInv, BlockedOnEmptyInv, empty, queue, locks,
            threads, calls, history, Threads
<1>1. ASSUME NEW t \in Threads, NEW j \in Jobs, AddBegin(t, j) PROVE BlockedOnEmptyInv'
  BY <1>1 DEF AddBegin, MayCall
<1>2. ASSUME NEW t \in Threads, ClearBegin(t) PROVE BlockedOnEmptyInv'
  BY <1>2 DEF ClearBegin, MayCall
<1>3. ASSUME NEW t \in Threads, WaitBegin(t) PROVE BlockedOnEmptyInv'
  BY <1>3 DEF WaitBegin, MayCall
<1>4. ASSUME NEW t \in Threads, AddLock(t) PROVE BlockedOnEmptyInv'
  BY <1>4 DEF AddLock, Call
<1>5. ASSUME NEW t \in Threads, AddEnqueue(t) PROVE BlockedOnEmptyInv'
  BY <1>5 DEF AddEnqueue, Call
<1>6. ASSUME NEW t \in Threads, AddCount(t) PROVE BlockedOnEmptyInv'
  BY <1>6 DEF AddCount, Call
<1>7. ASSUME NEW t \in Threads, AddNotify(t) PROVE BlockedOnEmptyInv'
  BY <1>7 DEF AddNotify, Call, Asleep
<1>8. ASSUME NEW t \in Threads, ClearCount(t) PROVE BlockedOnEmptyInv'
  BY <1>8 DEF ClearCount, Call
<1>9. ASSUME NEW t \in Threads, ClearEmpty(t) PROVE BlockedOnEmptyInv'
  BY <1>9 DEF ClearEmpty, Call
<1>10. ASSUME NEW t \in Threads, WaitReturn(t) PROVE BlockedOnEmptyInv'
  BY <1>10 DEF WaitReturn, Call
<1>11. ASSUME NEW t \in Threads, WaitEval(t) PROVE BlockedOnEmptyInv'
  BY <1>11 DEF WaitEval, Call
<1>12. ASSUME NEW t \in Threads, WaitBlock(t) PROVE BlockedOnEmptyInv'
  BY <1>12 DEF WaitBlock, Call
<1>13. CASE RunBegin
  BY <1>13 DEF RunBegin
<1>14. ASSUME NEW w \in Workers, Spawn(w) PROVE BlockedOnEmptyInv'
  BY <1>14 DEF Spawn
<1>15. CASE RunEnd
  BY <1>15 DEF RunEnd, Call
<1>16. CASE DestroyBegin
  BY <1>16 DEF DestroyBegin
<1>17. CASE DestroyFlag
  BY <1>17 DEF DestroyFlag, Call
<1>18. CASE DestroyNotify
  BY <1>18 DEF DestroyNotify, Call, Asleep
<1>19. CASE DestroyJoin
  BY <1>19 DEF DestroyJoin, Call
<1>20. ASSUME NEW w \in Workers, WorkerLeave(w) PROVE BlockedOnEmptyInv'
  BY <1>20 DEF WorkerLeave, Go
<1>21. ASSUME NEW w \in Workers, WorkerLock(w) PROVE BlockedOnEmptyInv'
  BY <1>21 DEF WorkerLock, Go
<1>22. ASSUME NEW w \in Workers, WorkerEval(w) PROVE BlockedOnEmptyInv'
  BY <1>22 DEF WorkerEval, Go, empty
<1>23. ASSUME NEW w \in Workers, WorkerBlock(w) PROVE BlockedOnEmptyInv'
  BY <1>23 DEF WorkerBlock, Go
<1>24. ASSUME NEW w \in Workers, WorkerPop(w) PROVE BlockedOnEmptyInv'
  BY <1>24 DEF WorkerPop, Go, empty
<1>25. ASSUME NEW w \in Workers, WorkerFinish(w) PROVE BlockedOnEmptyInv'
  BY <1>25 DEF WorkerFinish, Go
<1>26. ASSUME NEW w \in Workers, WorkerDiscount(w) PROVE BlockedOnEmptyInv'
  BY <1>26 DEF WorkerDiscount, Go
<1>27. ASSUME NEW w \in Workers, WorkerLoad(w) PROVE BlockedOnEmptyInv'
  BY <1>27 DEF WorkerLoad, Go
<1>28. ASSUME NEW w \in Workers, WorkerCallback(w) PROVE BlockedOnEmptyInv'
  BY <1>28 DEF WorkerCallback, Go
<1>29. ASSUME NEW w \in Workers, WorkerNotify(w) PROVE BlockedOnEmptyInv'
  BY <1>29 DEF WorkerNotify
<1>30. CASE SpuriousWakeup
  BY <1>30 DEF SpuriousWakeup, Call, Asleep
<1>31. CASE UNCHANGED vars
  BY <1>31 DEF vars
<1>. QED
  BY <1>1, <1>2, <1>3, <1>4, <1>5, <1>6, <1>7, <1>8, <1>9, <1>10, <1>11,
     <1>12, <1>13, <1>14, <1>15, <1>16, <1>17, <1>18, <1>19, <1>20, <1>21,
     <1>22, <1>23, <1>24, <1>25, <1>26, <1>27, <1>28, <1>29, <1>30, <1>31
     DEF Next, CallBegin, CallStep, MainStep, WorkerStep, Destroyed

------------------------------------------------------------------------------
(* Every step keeps late starts within bounds. *)
LEMMA LateStartStep == PoolInv /\ [Next]_vars => LateStartInv'
<1> SUFFICES ASSUME PoolInv, [Next]_vars PROVE LateStartInv'
  OBVIOUS
<1> USE DEF PoolInv, TypeOK, LateStartInv, queue, locks, threads, calls, history
<1>1. ASSUME NEW t \in Threads, NEW j \in Jobs, AddBegin(t, j) PROVE LateStartInv'
  BY <1>1 DEF AddBegin, MayCall
<1>2. ASSUME NEW t \in Threads, ClearBegin(t) PROVE LateStartInv'
  BY <1>2 DEF ClearBegin, MayCall
<1>3. ASSUME NEW t \in Threads, WaitBegin(t) PROVE LateStartInv'
  BY <1>3 DEF WaitBegin, MayCall
<1>4. ASSUME NEW t \in Threads, AddLock(t) PROVE LateStartInv'
  BY <1>4 DEF AddLock, Call
<1>5. ASSUME NEW t \in Threads, AddEnqueue(t) PROVE LateStartInv'
  BY <1>5 DEF AddEnqueue, Call
<1>6. ASSUME NEW t \in Threads, AddCount(t) PROVE LateStartInv'
  BY <1>6 DEF AddCount, Call
<1>7. ASSUME NEW t \in Threads, AddNotify(t) PROVE LateStartInv'
  BY <1>7 DEF AddNotify, Call, Asleep
<1>8. ASSUME NEW t \in Threads, ClearCount(t) PROVE LateStartInv'
  BY <1>8 DEF ClearCount, Call
<1>9. ASSUME NEW t \in Threads, ClearEmpty(t) PROVE LateStartInv'
  BY <1>9 DEF ClearEmpty, Call
<1>10. ASSUME NEW t \in Threads, WaitReturn(t) PROVE LateStartInv'
  BY <1>10 DEF WaitReturn, Call
<1>11. ASSUME NEW t \in Threads, WaitEval(t) PROVE LateStartInv'
  BY <1>11 DEF WaitEval, Call
<1>12. ASSUME NEW t \in Threads, WaitBlock(t) PROVE LateStartInv'
  BY <1>12 DEF WaitBlock, Call
<1>13. CASE RunBegin
  BY <1>13 DEF RunBegin
<1>14. ASSUME NEW w \in Workers, Spawn(w) PROVE LateStartInv'
  BY <1>14 DEF Spawn
<1>15. CASE RunEnd
  BY <1>15 DEF RunEnd, Call
<1>16. CASE DestroyBegin
  BY <1>16 DEF DestroyBegin
<1>17. CASE DestroyFlag
  BY <1>17 DEF DestroyFlag, Call
<1>18. CASE DestroyNotify
  BY <1>18 DEF DestroyNotify, Call, Asleep
<1>19. CASE DestroyJoin
  BY <1>19 DEF DestroyJoin, Call
<1>20. ASSUME NEW w \in Workers, WorkerLeave(w) PROVE LateStartInv'
  BY <1>20 DEF WorkerLeave, Go
<1>21. ASSUME NEW w \in Workers, WorkerLock(w) PROVE LateStartInv'
  BY <1>21 DEF WorkerLock, Go
<1>22. ASSUME NEW w \in Workers, WorkerEval(w) PROVE LateStartInv'
  BY <1>22 DEF WorkerEval, Go, empty
<1>23. ASSUME NEW w \in Workers, WorkerBlock(w) PROVE LateStartInv'
  BY <1>23 DEF WorkerBlock, Go
<1>24. ASSUME NEW w \in Workers, WorkerPop(w) PROVE LateStartInv'
  <2>1. CASE empty
    BY <1>24, <2>1 DEF WorkerPop, Go, empty
  <2>2. CASE ~empty
    <3>1. late[w] = 0 /\ wpc' = [wpc EXCEPT ![w] = "body"]
      BY <1>24, <2>2 DEF WorkerPop, Go
    <3>2. CASE is_shutting_down_
      BY <1>24, <2>2, <3>1, <3>2 DEF WorkerPop
    <3>3. CASE ~is_shutting_down_
      BY <1>24, <2>2, <3>1, <3>3 DEF WorkerPop
    <3>. QED
      BY <3>2, <3>3
  <2>. QED
    BY <2>1, <2>2
<1>25. ASSUME NEW w \in Workers, WorkerFinish(w) PROVE LateStartInv'
  BY <1>25 DEF WorkerFinish, Go
<1>26. ASSUME NEW w \in Workers, WorkerDiscount(w) PROVE LateStartInv'
  BY <1>26 DEF WorkerDiscount, Go
<1>27. ASSUME NEW w \in Workers, WorkerLoad(w) PROVE LateStartInv'
  BY <1>27 DEF WorkerLoad, Go
<1>28. ASSUME NEW w \in Workers, WorkerCallback(w) PROVE LateStartInv'
  BY <1>28 DEF WorkerCallback, Go
<1>29. ASSUME NEW w \in Workers, WorkerNotify(w) PROVE LateStartInv'
  BY <1>29 DEF WorkerNotify
<1>30. CASE SpuriousWakeup
  BY <1>30 DEF SpuriousWakeup, Call, Asleep
<1>31. CASE UNCHANGED vars
  BY <1>31 DEF vars
<1>. QED
  BY <1>1, <1>2, <1>3, <1>4, <1>5, <1>6, <1>7, <1>8, <1>9, <1>10, <1>11,
     <1>12, <1>13, <1>14, <1>15, <1>16, <1>17, <1>18, <1>19, <1>20, <1>21,
     <1>22, <1>23, <1>24, <1>25, <1>26, <1>27, <1>28, <1>29, <1>30, <1>31
     DEF Next, CallBegin, CallStep, MainStep, WorkerStep, Destroyed

------------------------------------------------------------------------------
(* The initial state. *)
LEMMA InitPoolInv == Init => PoolInv
<1> SUFFICES ASSUME Init PROVE PoolInv
  OBVIOUS
<1>1. TypeOK
  <2>1. tasks_ \in Seq(Jobs)
    BY DEF Init
  <2>2. wpc \in [Workers -> WorkerStates] /\ call \in [Threads -> CallStates]
    BY DEF Init, WorkerStates, CallStates
  <2>. QED
    BY <2>1, <2>2 DEF Init, TypeOK
<1>2. OwnershipInv
  BY DEF Init, OwnershipInv, Threads, DestructorStates, PoolAssumption
<1>3. CountAccountsForWork
  <2>1. Busy = {}
    BY DEF Init, Busy
  <2>2. Pending = <<>>
    BY DEF Init, Pending
  <2>. QED
    BY <2>1, <2>2, FS_EmptySet DEF Init, CountAccountsForWork
<1>4. NoJobLostOrDuplicated
  <2>1. Pending = <<>> /\ Arriving = {} /\ InHand = {} /\ PendingJobs = {}
    BY DEF Init, Pending, Arriving, InHand, PendingJobs
  <2>2. PlacesInv /\ OnceInv
    BY <2>1 DEF Init, PlacesInv, OnePlace, OnceInv, Different
  <2>. QED
    BY <2>2, PlacesSpelled
<1>5. LateStartInv
  BY DEF Init, LateStartInv
<1>6. NoStarvedJob /\ BlockedOnEmptyInv
  BY DEF Init, NoStarvedJob, Asleep, BlockedOnEmptyInv
<1>7. DestructorInv
  BY DEF Init, DestructorInv, DestructorStates, Threads, PoolAssumption
<1>. QED
  BY <1>1, <1>2, <1>3, <1>4, <1>5, <1>6, <1>7 DEF PoolInv

------------------------------------------------------------------------------
(* The theorems. *)

(* PoolInv is inductive.                                                    *)
LEMMA PoolInvStep == PoolInv /\ [Next]_vars => PoolInv'
BY TypeOKStep, OwnershipStep, CountStep, PlacedStep, LateStartStep,
   StarvedStep, BlockedStep, DestructorStep DEF PoolInv

(* In every reachable state of every pool the types are right, each mutex   *)
(* belongs to the thread whose position says so, the counter accounts for   *)
(* the queued and the executing jobs, each job is in one place, and no      *)
(* queued job is left to workers that are all asleep.                       *)
THEOREM PoolInvariant == Spec => []PoolInv
BY InitPoolInv, PoolInvStep, PTL DEF Spec

(* active_task_count_ never goes below zero, and every variable has its type. *)
THEOREM TypeCorrect == Spec => []TypeOK
BY PoolInvariant, PTL DEF PoolInv

(* The counter wait and is_idle look at never misses a job nor counts one   *)
(* that is gone.                                                            *)
THEOREM CountIsRight == Spec => []CountAccountsForWork
BY PoolInvariant, PTL DEF PoolInv

(* A submitted job is in one place, once: no interleaving of add_task,      *)
(* clear_queued_tasks and execute_task loses or duplicates it.              *)
THEOREM NoJobIsLost == Spec => []NoJobLostOrDuplicated
BY PoolInvariant, PTL DEF PoolInv

(* add_task's notify_one after it has released its locks is never too early *)
(* nor too late: while a worker sleeps each queued job has somebody on the  *)
(* way to it.                                                               *)
THEOREM NoWakeupIsLost == Spec => []NoStarvedJob
BY PoolInvariant, PTL DEF PoolInv

(* After the destructor has set the flag no worker starts a second job. *)
THEOREM LateStartsBounded == Spec => []AtMostOneLateStart
<1>1. PoolInv => AtMostOneLateStart
  BY DEF PoolInv, LateStartInv, AtMostOneLateStart
<1>. QED
  BY <1>1, PoolInvariant, PTL

(* A call of wait returns in one way: it holds wait_mtx_ and the counter is *)
(* zero.                                                                    *)
LEMMA OnlyIdleReturns ==
  ASSUME PoolInv, [Next]_vars, NEW t \in Threads, WaitReturned(t)
  PROVE  is_idle /\ wait_mtx_ = None
<1> USE DEF PoolInv, TypeOK, WaitReturned, threads, calls
<1>1. ASSUME NEW u \in Threads, NEW j \in Jobs, AddBegin(u, j) PROVE is_idle /\ wait_mtx_ = None
  BY <1>1 DEF AddBegin, MayCall
<1>2. ASSUME NEW u \in Threads, ClearBegin(u) PROVE is_idle /\ wait_mtx_ = None
  BY <1>2 DEF ClearBegin, MayCall
<1>3. ASSUME NEW u \in Threads, WaitBegin(u) PROVE is_idle /\ wait_mtx_ = None
  BY <1>3 DEF WaitBegin, MayCall
<1>4. ASSUME NEW u \in Threads, AddLock(u) PROVE is_idle /\ wait_mtx_ = None
  BY <1>4 DEF AddLock, Call
<1>5. ASSUME NEW u \in Threads, AddEnqueue(u) PROVE is_idle /\ wait_mtx_ = None
  BY <1>5 DEF AddEnqueue, Call
<1>6. ASSUME NEW u \in Threads, AddCount(u) PROVE is_idle /\ wait_mtx_ = None
  BY <1>6 DEF AddCount, Call
<1>7. ASSUME NEW u \in Threads, AddNotify(u) PROVE is_idle /\ wait_mtx_ = None
  BY <1>7 DEF AddNotify, Call, Asleep
<1>8. ASSUME NEW u \in Threads, ClearCount(u) PROVE is_idle /\ wait_mtx_ = None
  BY <1>8 DEF ClearCount, Call
<1>9. ASSUME NEW u \in Threads, ClearEmpty(u) PROVE is_idle /\ wait_mtx_ = None
  BY <1>9 DEF ClearEmpty, Call
<1>10. ASSUME NEW u \in Threads, WaitReturn(u) PROVE is_idle /\ wait_mtx_ = None
  BY <1>10 DEF WaitReturn, Call
<1>11. ASSUME NEW u \in Threads, WaitEval(u) PROVE is_idle /\ wait_mtx_ = None
  BY <1>11 DEF WaitEval, Call
<1>12. ASSUME NEW u \in Threads, WaitBlock(u) PROVE is_idle /\ wait_mtx_ = None
  BY <1>12 DEF WaitBlock, Call
<1>13. CASE RunBegin
  BY <1>13 DEF RunBegin
<1>14. ASSUME NEW w \in Workers, Spawn(w) PROVE is_idle /\ wait_mtx_ = None
  BY <1>14 DEF Spawn
<1>15. CASE RunEnd
  BY <1>15 DEF RunEnd, Call
<1>16. CASE DestroyBegin
  BY <1>16 DEF DestroyBegin
<1>17. CASE DestroyFlag
  BY <1>17 DEF DestroyFlag, Call
<1>18. CASE DestroyNotify
  BY <1>18 DEF DestroyNotify, Call, Asleep
<1>19. CASE DestroyJoin
  BY <1>19 DEF DestroyJoin, Call
<1>20. ASSUME NEW w \in Workers, WorkerLeave(w) PROVE is_idle /\ wait_mtx_ = None
  BY <1>20 DEF WorkerLeave, Go
<1>21. ASSUME NEW w \in Workers, WorkerLock(w) PROVE is_idle /\ wait_mtx_ = None
  BY <1>21 DEF WorkerLock, Go
<1>22. ASSUME NEW w \in Workers, WorkerEval(w) PROVE is_idle /\ wait_mtx_ = None
  BY <1>22 DEF WorkerEval, Go, empty
<1>23. ASSUME NEW w \in Workers, WorkerBlock(w) PROVE is_idle /\ wait_mtx_ = None
  BY <1>23 DEF WorkerBlock, Go
<1>24. ASSUME NEW w \in Workers, WorkerPop(w) PROVE is_idle /\ wait_mtx_ = None
  BY <1>24 DEF WorkerPop, Go, empty
<1>25. ASSUME NEW w \in Workers, WorkerFinish(w) PROVE is_idle /\ wait_mtx_ = None
  BY <1>25 DEF WorkerFinish, Go
<1>26. ASSUME NEW w \in Workers, WorkerDiscount(w) PROVE is_idle /\ wait_mtx_ = None
  BY <1>26 DEF WorkerDiscount, Go
<1>27. ASSUME NEW w \in Workers, WorkerLoad(w) PROVE is_idle /\ wait_mtx_ = None
  BY <1>27 DEF WorkerLoad, Go
<1>28. ASSUME NEW w \in Workers, WorkerCallback(w) PROVE is_idle /\ wait_mtx_ = None
  BY <1>28 DEF WorkerCallback, Go
<1>29. ASSUME NEW w \in Workers, WorkerNotify(w) PROVE is_idle /\ wait_mtx_ = None
  BY <1>29 DEF WorkerNotify
<1>30. CASE SpuriousWakeup
  BY <1>30 DEF SpuriousWakeup, Call, Asleep
<1>31. CASE UNCHANGED vars
  BY <1>31 DEF vars
<1>. QED
  BY <1>1, <1>2, <1>3, <1>4, <1>5, <1>6, <1>7, <1>8, <1>9, <1>10, <1>11,
     <1>12, <1>13, <1>14, <1>15, <1>16, <1>17, <1>18, <1>19, <1>20, <1>21,
     <1>22, <1>23, <1>24, <1>25, <1>26, <1>27, <1>28, <1>29, <1>30, <1>31
     DEF Next, CallBegin, CallStep, MainStep, WorkerStep, Destroyed
(* Whoever returns from wait finds every job that was accepted done or      *)
(* cleared: the counter reads zero, so no job is queued or in execution,    *)
(* and every job is somewhere.                                              *)
THEOREM WaitIsRight == Spec => WaitReturnsWhenDrained
<1>1. ASSUME PoolInv, NEW t \in Threads, is_idle
      PROVE  submitted \ Arriving \subseteq done \cup cleared
  BY <1>1, IdleMeansDrained, PlacesSpelled DEF PoolInv, PlacesInv, OnePlace
<1>2. PoolInv /\ [Next]_vars => [\A t \in Threads : WaitReturned(t) =>
                                   submitted \ Arriving \subseteq done \cup cleared]_vars
  BY <1>1, OnlyIdleReturns
<1>. QED
  BY <1>2, PoolInvariant, PTL DEF Spec, WaitReturnsWhenDrained

(* Whoever returns from wait finds no worker between its fetch_sub and its  *)
(* last notification: all of that happens under wait_mtx_.                  *)
THEOREM WaitIsAfterCallback == Spec => WaitOutlastsCallback
<1>1. ASSUME PoolInv, NEW t \in Threads, wait_mtx_ = None
      PROVE  Completing = {}
  BY <1>1 DEF PoolInv, OwnershipInv, Completing, Threads, PoolAssumption
<1>2. PoolInv /\ [Next]_vars => [\A t \in Threads : WaitReturned(t) => Completing = {}]_vars
  BY <1>1, OnlyIdleReturns
<1>. QED
  BY <1>2, PoolInvariant, PTL DEF Spec, WaitOutlastsCallback
=============================================================================
