--------------------------- MODULE ExecutorProofs ---------------------------
(***************************************************************************)
(* Proofs about Executor, for any acyclic graph, any number of workers and *)
(* of calls of run().                                                      *)
(***************************************************************************)
EXTENDS Executor, TaskGraphProofs

USE TaskGraphAssumption, ExecutorAssumption

(* A queue in order stays in order when a job joins it that is not before  *)
(* any of them, ...                                                        *)
LEMMA InOrderAppend ==
  ASSUME NEW s \in Seq(Jobs), InOrder(s),
         NEW j \in Jobs, \A i \in DOMAIN s : NotAfter(s[i], j)
  PROVE  InOrder(Append(s, j))
<1> DEFINE n == Len(s)
           new == Append(s, j)
<1>1. n \in Nat /\ DOMAIN s = 1 .. n /\ DOMAIN new = 1 .. n + 1
  OBVIOUS
<1>2. new[n + 1] = j /\ \A i \in 1 .. n : new[i] = s[i]
  BY AppendProperties
<1> HIDE DEF n, new
<1>3. \A i, k \in 1 .. n : i < k => NotAfter(s[i], s[k])
  BY <1>1 DEF InOrder
<1>4. \A i \in 1 .. n + 1 : i \in 1 .. n \/ i = n + 1
  BY <1>1
<1>5. \A i, k \in 1 .. n + 1 : i < k => i \in 1 .. n
  BY <1>1
<1>6. \A i \in 1 .. n : NotAfter(s[i], j)
  BY <1>1
<1> HIDE DEF NotAfter
<1>7. \A i, k \in 1 .. n + 1 : i < k => NotAfter(new[i], new[k])
  BY <1>2, <1>3, <1>4, <1>5, <1>6
<1>. QED
  BY <1>1, <1>7 DEF InOrder, new

(* ... and when its first job leaves, which is before all the others.      *)
LEMMA InOrderTail ==
  ASSUME NEW s \in Seq(Jobs), InOrder(s), s # <<>>
  PROVE  /\ InOrder(Tail(s))
         /\ \A j \in Range(Tail(s)) : NotAfter(Head(s), j)
<1> DEFINE n == Len(s)
           new == Tail(s)
<1>1. /\ n \in Nat /\ n > 0 /\ DOMAIN s = 1 .. n /\ DOMAIN new = 1 .. n - 1
      /\ Head(s) = s[1]
  BY HeadTailProperties
<1>2. \A i \in 1 .. n - 1 : new[i] = s[i + 1]
  BY HeadTailProperties
<1> HIDE DEF n, new
<1>3. \A i, k \in 1 .. n : i < k => NotAfter(s[i], s[k])
  BY <1>1 DEF InOrder
<1>4. \A i \in 1 .. n - 1 : i + 1 \in 1 .. n /\ 1 \in 1 .. n /\ 1 < i + 1
  BY <1>1
<1>5. \A i, k \in 1 .. n - 1 : i < k => i + 1 < k + 1
  BY <1>1
<1>6. \A i, k \in 1 .. n - 1 : i < k => NotAfter(new[i], new[k])
  BY <1>2, <1>3, <1>4, <1>5
<1>7. \A i \in 1 .. n - 1 : NotAfter(s[1], new[i])
  BY <1>2, <1>3, <1>4
<1>8. InOrder(new)
  BY <1>1, <1>6 DEF InOrder
<1>9. \A j \in Range(new) : NotAfter(s[1], j)
  BY <1>1, <1>7 DEF Range
<1>. QED
  BY <1>1, <1>8, <1>9 DEF new

(* A new executor has no jobs and no tasks.                                *)
LEMMA InitExecutorInv == Init => ExecutorInv
BY DEF Init, Pool!Init, ExecutorInv, TypeOK, OrderInv, EdgesInv, CancelInv,
       Pool!Known, Pool!QueuedJobs, Distinct, InOrder

(* Every step keeps the types. *)
LEMMA TypeOKStep == ExecutorInv /\ [Next]_vars => TypeOK'
<1> SUFFICES ASSUME ExecutorInv, [Next]_vars PROVE TypeOK'
  OBVIOUS
<1> USE DEF ExecutorInv, TypeOK, executor, pool, edges, Call
<1>1. ASSUME NEW t \in Tasks, add_task(t) PROVE TypeOK'
  BY <1>1, AppendProperties DEF add_task
<1>2. CASE RunBegin
  <2>1. /\ tasks_to_run_' \in Seq(Tasks)
        /\ Len(tasks_to_run_') = Len(tasks_to_run_)
    BY <1>2, SortedVector DEF RunBegin
  <2>. QED
    BY <1>2, <2>1 DEF RunBegin
<1>3. CASE cancel
  <2>1. cleared' \subseteq Jobs
    BY <1>3 DEF cancel, Pool!Clear, Pool!QueuedJobs
  <2>2. interrupted' \subseteq 1 .. MaxRounds
    <3>1. main = "submit" => round \in 1 .. MaxRounds
      BY DEF OrderInv
    <3>. QED
      BY <1>3, <3>1 DEF cancel
  <2>. QED
    BY <1>3, <2>1, <2>2 DEF cancel, Pool!Clear
<1>4. CASE WaitBegin
  BY <1>4 DEF WaitBegin, Pool!Wait
<1>5. CASE DestroyBegin
  BY <1>5 DEF DestroyBegin, Pool!Shutdown
<1>6. CASE Submit
  <2>1. <<tasks_to_run_[next], round>> \in Jobs
    BY <1>6 DEF Submit, Jobs, OrderInv
  <2>2. pending' \in Seq(Jobs)
    BY <1>6, <2>1, AppendProperties DEF Submit, Pool!Submit
  <2>. QED
    BY <1>6, <2>2 DEF Submit, Pool!Submit
<1>7. CASE RunEnd
  BY <1>7 DEF RunEnd
<1>8. CASE WaitReturn
  BY <1>8 DEF WaitReturn, Pool!Return
<1>9. CASE DestroyEnd
  BY <1>9 DEF DestroyEnd, Pool!Vanish
<1>10. CASE JobStart
  <2>1. Head(pending) \in Jobs /\ Tail(pending) \in Seq(Jobs)
    BY <1>10, HeadTailProperties DEF JobStart, Pool!Start
  <2>. QED
    BY <1>10, <2>1 DEF JobStart, Pool!Start
<1>11. ASSUME NEW j \in Jobs, Enter(j) PROVE TypeOK'
  BY <1>11 DEF Enter
<1>12. ASSUME NEW j \in Jobs, Publish(j) PROVE TypeOK'
  BY <1>12 DEF Publish
<1>13. ASSUME NEW j \in Jobs, JobEnd(j) PROVE TypeOK'
  BY <1>13 DEF JobEnd, Pool!Finish
<1>14. CASE UNCHANGED vars
  BY <1>14 DEF vars
<1>. QED
  BY <1>1, <1>2, <1>3, <1>4, <1>5, <1>6, <1>7, <1>8, <1>9, <1>10, <1>11,
     <1>12, <1>13, <1>14 DEF Next, MainStep, TaskStep

------------------------------------------------------------------------------
(* Every step keeps the jobs in their order. *)

(* A step that submits, drops and starts nothing and leaves the vector as  *)
(* it is.                                                                  *)
LEMMA OrderUndisturbed ==
  ASSUME OrderInv,
         UNCHANGED <<tasks_to_run_, next, round, pending, cleared>>,
         running' \cup done' = running \cup done,
         main' = "submit" => main = "submit"
  PROVE  OrderInv'
<1>1. Pool!Known' = Pool!Known /\ Pool!QueuedJobs' = Pool!QueuedJobs
  BY DEF Pool!Known, Pool!QueuedJobs
<1>. QED
  BY <1>1 DEF OrderInv

(* Every step keeps the jobs in the order of run and depth: run() sorts    *)
(* before it submits, and the pool is a queue.                             *)
LEMMA OrderStep == ExecutorInv /\ NoCycle /\ [Next]_vars => OrderInv'
<1> SUFFICES ASSUME ExecutorInv, NoCycle, [Next]_vars PROVE OrderInv'
  OBVIOUS
<1>0. Depth \in [Tasks -> Nat]
  BY DepthIncreases
<1> USE DEF ExecutorInv, TypeOK, executor, pool, edges, Call
<1>1. ASSUME NEW t \in Tasks, add_task(t) PROVE OrderInv'
  <2>1. Pool!Known' = Pool!Known /\ Pool!QueuedJobs' = Pool!QueuedJobs
    BY <1>1 DEF add_task, Pool!Known, Pool!QueuedJobs
  <2>2. Distinct(tasks_to_run_')
    BY <1>1, DistinctAppend DEF add_task, OrderInv
  <2>. QED
    BY <1>1, <2>1, <2>2 DEF add_task, OrderInv
<1>2. CASE RunBegin
  <2>1. Pool!Known' = Pool!Known /\ Pool!QueuedJobs' = Pool!QueuedJobs
    BY <1>2 DEF RunBegin, Pool!Known, Pool!QueuedJobs
  <2>2. /\ Distinct(tasks_to_run_')
        /\ \A i, k \in DOMAIN tasks_to_run_' :
             i < k => Depth[tasks_to_run_'[i]] <= Depth[tasks_to_run_'[k]]
    BY <1>2, SortedVector DEF RunBegin, OrderInv
  <2>3. \A j \in Pool!Known : j[2] < round' /\ j[2] <= round'
    <3>1. Pool!Known \subseteq Jobs
      BY DEF Pool!Known, Pool!QueuedJobs
    <3>. QED
      BY <1>2, <3>1 DEF RunBegin, OrderInv, Jobs
  <2>. QED
    BY <1>2, <2>1, <2>2, <2>3 DEF RunBegin, OrderInv
<1>3. CASE cancel
  <2>1. Pool!Known' = Pool!Known /\ Pool!QueuedJobs' = {} /\ InOrder(pending')
    BY <1>3 DEF cancel, Pool!Clear, Pool!Known, Pool!QueuedJobs, InOrder
  <2>2. UNCHANGED <<tasks_to_run_, main, next, round, running, done>>
    BY <1>3 DEF cancel, Pool!Clear
  <2>. QED
    BY <2>1, <2>2 DEF OrderInv
<1>4. CASE WaitBegin
  BY <1>4, OrderUndisturbed DEF WaitBegin, Pool!Wait
<1>5. CASE DestroyBegin
  BY <1>5, OrderUndisturbed DEF DestroyBegin, Pool!Shutdown
<1>6. CASE Submit
  <2> DEFINE new == <<tasks_to_run_[next], round>>
  <2>1. new \in Jobs /\ new[1] = tasks_to_run_[next] /\ new[2] = round
    BY <1>6 DEF Submit, Jobs, OrderInv
  <2>2. pending' = Append(pending, new)
    BY <1>6 DEF Submit, Pool!Submit
  <2> HIDE DEF new
  <2>3. Pool!QueuedJobs' = Pool!QueuedJobs \cup {new}
    <3>1. pending \in Seq(Jobs)
      OBVIOUS
    <3>2. Range(Append(pending, new)) = Range(pending) \cup {new}
      BY <2>1, <3>1, RangeOfAppend
    <3>. QED
      BY <2>2, <3>2 DEF Pool!QueuedJobs, Range
  <2>4. Pool!Known' = Pool!Known \cup {new}
    BY <1>6, <2>3 DEF Submit, Pool!Submit, Pool!Known
  <2>5. \A j \in Pool!Known : NotAfter(j, new)
    <3> SUFFICES ASSUME NEW j \in Pool!Known, j[2] = round
                 PROVE  Depth[j[1]] <= Depth[new[1]]
      <4>1. Pool!Known \subseteq Jobs
        BY DEF Pool!Known, Pool!QueuedJobs
      <4>2. \A j \in Pool!Known : j[2] <= round /\ j[2] \in Nat
        BY <4>1 DEF OrderInv, Jobs
      <4>. QED
        BY <2>1, <4>2 DEF NotAfter, Task
    <3>1. PICK i \in 1 .. next - 1 : tasks_to_run_[i] = j[1]
      BY <1>6 DEF Submit, OrderInv, Task
    <3>2. i \in DOMAIN tasks_to_run_ /\ next \in DOMAIN tasks_to_run_ /\ i < next
      BY <1>6 DEF Submit
    <3>. QED
      BY <1>6, <2>1, <3>1, <3>2 DEF Submit, OrderInv
  <2>6. InOrder(pending')
    <3>1. \A i \in DOMAIN pending : NotAfter(pending[i], new)
      BY <2>5 DEF Pool!Known, Pool!QueuedJobs
    <3>. QED
      BY <2>1, <2>2, <3>1, InOrderAppend DEF OrderInv
  <2>7. \A i \in running' \cup done' : \A j \in Pool!QueuedJobs' : NotAfter(i, j)
    BY <1>6, <2>3, <2>5 DEF Submit, Pool!Submit, Pool!Known, OrderInv
  <2>8. \A j \in Pool!Known' : j[2] <= round'
    BY <1>6, <2>1, <2>4 DEF Submit, OrderInv
  <2>9. \A j \in Pool!Known' : j[2] = round' =>
          \E i \in 1 .. next' - 1 : tasks_to_run_'[i] = Task(j)
    <3> SUFFICES ASSUME NEW j \in Pool!Known', j[2] = round
                 PROVE  \E i \in 1 .. next : tasks_to_run_[i] = Task(j)
      BY <1>6 DEF Submit
    <3>1. CASE j = new
      <4>1. next \in 1 .. next
        OBVIOUS
      <4>. QED
        BY <2>1, <3>1, <4>1 DEF Task
    <3>2. CASE j # new
      BY <1>6, <2>4, <3>2 DEF Submit, OrderInv
    <3>. QED
      BY <3>1, <3>2
  <2>. QED
    BY <1>6, <2>6, <2>7, <2>8, <2>9 DEF Submit, OrderInv
<1>7. CASE RunEnd
  BY <1>7, OrderUndisturbed DEF RunEnd
<1>8. CASE WaitReturn
  BY <1>8, OrderUndisturbed DEF WaitReturn, Pool!Return
<1>9. CASE DestroyEnd
  BY <1>9, OrderUndisturbed DEF DestroyEnd, Pool!Vanish
<1>10. CASE JobStart
  <2>1. /\ pending # <<>> /\ pending' = Tail(pending)
        /\ running' = running \cup {Head(pending)}
        /\ UNCHANGED <<tasks_to_run_, next, round, main, done, cleared>>
    BY <1>10 DEF JobStart, Pool!Start
  <2>3. Pool!QueuedJobs = Pool!QueuedJobs' \cup {Head(pending)}
    BY <2>1, RangeOfTail DEF Pool!QueuedJobs, Range
  <2>4. Pool!Known' = Pool!Known
    BY <2>1, <2>3 DEF Pool!Known
  <2>5. /\ InOrder(pending')
        /\ \A j \in Pool!QueuedJobs' : NotAfter(Head(pending), j)
    BY <2>1, InOrderTail DEF OrderInv, Pool!QueuedJobs, Range
  <2>. QED
    BY <2>1, <2>3, <2>4, <2>5 DEF OrderInv
<1>11. ASSUME NEW j \in Jobs, Enter(j) PROVE OrderInv'
  BY <1>11, OrderUndisturbed DEF Enter
<1>12. ASSUME NEW j \in Jobs, Publish(j) PROVE OrderInv'
  BY <1>12, OrderUndisturbed DEF Publish
<1>13. ASSUME NEW j \in Jobs, JobEnd(j) PROVE OrderInv'
  BY <1>13, OrderUndisturbed DEF JobEnd, Pool!Finish
<1>14. CASE UNCHANGED vars
  BY <1>14, OrderUndisturbed DEF vars
<1>. QED
  BY <1>1, <1>2, <1>3, <1>4, <1>5, <1>6, <1>7, <1>8, <1>9, <1>10, <1>11,
     <1>12, <1>13, <1>14 DEF Next, MainStep, TaskStep

------------------------------------------------------------------------------
(* Every step keeps the edges in agreement with the jobs. *)
LEMMA EdgesStep == ExecutorInv /\ [Next]_vars => EdgesInv'
<1> SUFFICES ASSUME ExecutorInv, [Next]_vars PROVE EdgesInv'
  OBVIOUS
<1> USE DEF ExecutorInv, EdgesInv, executor, pool, edges
<1>1. ASSUME NEW t \in Tasks, add_task(t) PROVE EdgesInv'
  BY <1>1 DEF add_task
<1>2. CASE RunBegin
  BY <1>2 DEF RunBegin
<1>3. CASE cancel
  BY <1>3 DEF cancel, Pool!Clear
<1>4. CASE WaitBegin
  BY <1>4 DEF WaitBegin, Pool!Wait
<1>5. CASE DestroyBegin
  BY <1>5 DEF DestroyBegin, Pool!Shutdown
<1>6. CASE Submit
  BY <1>6 DEF Submit, Pool!Submit
<1>7. CASE RunEnd
  BY <1>7 DEF RunEnd
<1>8. CASE WaitReturn
  BY <1>8 DEF WaitReturn, Pool!Return
<1>9. CASE DestroyEnd
  BY <1>9 DEF DestroyEnd, Pool!Vanish
<1>10. CASE JobStart
  BY <1>10 DEF JobStart, Pool!Start
<1>11. ASSUME NEW j \in Jobs, Enter(j) PROVE EdgesInv'
  BY <1>11 DEF Enter
<1>12. ASSUME NEW j \in Jobs, Publish(j) PROVE EdgesInv'
  <2>1. is_retrievable_' = {Task(i) : i \in published' \cup done'}
    BY <1>12 DEF Publish
  <2>2. is_retrievable_ \subseteq is_retrievable_'
    BY <1>12 DEF Publish
  <2>. QED
    BY <1>12, <2>1, <2>2 DEF Publish
<1>13. ASSUME NEW j \in Jobs, JobEnd(j) PROVE EdgesInv'
  <2>1. published' \cup done' = published \cup done
    BY <1>13 DEF JobEnd, Pool!Finish
  <2>. QED
    BY <1>13, <2>1 DEF JobEnd
<1>14. CASE UNCHANGED vars
  BY <1>14 DEF vars
<1>. QED
  BY <1>1, <1>2, <1>3, <1>4, <1>5, <1>6, <1>7, <1>8, <1>9, <1>10, <1>11,
     <1>12, <1>13, <1>14 DEF Next, MainStep, TaskStep

------------------------------------------------------------------------------
(* A worker that blocks on an edge blocks on a task that has started: it    *)
(* follows from the order of the jobs.  What has returned had all it needs  *)
(* started, too.                                                            *)
LEMMA NeedsHaveStarted ==
  ASSUME ExecutorInv, NoCycle, NEW j \in running \cup done
  PROVE  Needs(j) \cap Pool!QueuedJobs = {}
<1>1. j \in Jobs /\ j[1] \in Tasks /\ j[2] \in Nat
  BY DEF ExecutorInv, TypeOK, Jobs
<1> SUFFICES ASSUME NEW p \in DependsOn[j[1]], <<p, j[2]>> \in Pool!QueuedJobs
             PROVE  FALSE
  BY DEF Needs, Task
<1>2. NotAfter(j, <<p, j[2]>>)
  BY DEF ExecutorInv, OrderInv
<1>3. Depth[j[1]] <= Depth[p]
  BY <1>1, <1>2 DEF NotAfter, Task
<1>4. p \in Tasks
  BY <1>1, DependsOnTasks
<1>5. Depth[p] < Depth[j[1]] /\ Depth[p] \in Nat /\ Depth[j[1]] \in Nat
  BY <1>1, <1>4, DepthIncreases
<1>. QED
  BY <1>3, <1>5

------------------------------------------------------------------------------
(* What a cancel() has dropped was needed by nothing it has left.           *)

(* A step that submits and cancels nothing.                                *)
LEMMA CancelUndisturbed ==
  ASSUME CancelInv,
         (Pool!QueuedJobs \cup running)' \subseteq Pool!QueuedJobs \cup running,
         UNCHANGED <<cleared, round, interrupted>>,
         main' = "submit" => main = "submit"
  PROVE  CancelInv'
<1>1. \A j : Needs(j)' = Needs(j)
  BY DEF Needs, Task
<1>. QED
  BY <1>1 DEF CancelInv

(* Every step keeps it: what the queue drops is needed only by jobs of the *)
(* queue, which comes after all that has started.                          *)
LEMMA CancelStep == ExecutorInv /\ NoCycle /\ [Next]_vars => CancelInv'
<1> SUFFICES ASSUME ExecutorInv, NoCycle, [Next]_vars PROVE CancelInv'
  OBVIOUS
<1>0. CancelInv
  BY DEF ExecutorInv
<1> USE DEF executor, pool, edges, Call, Pool!Known, Pool!QueuedJobs
<1>1. ASSUME NEW t \in Tasks, add_task(t) PROVE CancelInv'
  BY <1>0, <1>1, CancelUndisturbed DEF add_task
<1>2. CASE RunBegin
  <2>1. \A j \in cleared : j[2] < round'
    <3>1. \A j \in cleared : j[2] \in Nat /\ j[2] <= round
      BY DEF ExecutorInv, TypeOK, OrderInv, Jobs
    <3>. QED
      BY <1>2, <3>1 DEF RunBegin, ExecutorInv, TypeOK
  <2>. QED
    BY <1>0, <1>2, <2>1 DEF RunBegin, CancelInv, Needs, Task
<1>3. CASE cancel
  <2>1. main' = main /\ round' = round /\ interrupted \subseteq interrupted'
    BY <1>3 DEF cancel
  <2>2. cleared' = cleared \cup Pool!QueuedJobs /\ running' = running /\ done' = done
    BY <1>3 DEF cancel, Pool!Clear
  <2>3. (Pool!QueuedJobs \cup running)' \subseteq running
    BY <1>3, <2>2 DEF cancel, Pool!Clear
  <2>4. ASSUME NEW j \in (Pool!QueuedJobs \cup running)', j[2] \notin interrupted'
        PROVE  Needs(j) \cap cleared' = {}
    BY <1>0, <2>1, <2>2, <2>3, <2>4, NeedsHaveStarted DEF CancelInv
  <2>5. ASSUME main = "submit", round \notin interrupted', NEW j \in cleared'
        PROVE  j[2] < round
    <3>1. CASE j \in cleared
      BY <1>0, <2>1, <2>5, <3>1 DEF CancelInv
    <3>2. CASE j \in Pool!QueuedJobs
      <4>1. j[2] # round
        BY <1>3, <2>5, <3>2 DEF cancel
      <4>2. j[2] \in Nat /\ j[2] <= round /\ round \in Nat
        BY <3>2 DEF ExecutorInv, TypeOK, OrderInv, Jobs
      <4>. QED
        BY <4>1, <4>2
    <3>. QED
      BY <2>2, <2>5, <3>1, <3>2
  <2>6. \A j : Needs(j)' = Needs(j)
    BY DEF Needs, Task
  <2>. QED
    BY <2>1, <2>4, <2>5, <2>6 DEF CancelInv
<1>4. CASE WaitBegin
  BY <1>0, <1>4, CancelUndisturbed DEF WaitBegin, Pool!Wait
<1>5. CASE DestroyBegin
  BY <1>0, <1>5, CancelUndisturbed DEF DestroyBegin, Pool!Shutdown
<1>6. CASE Submit
  <2> DEFINE new == <<tasks_to_run_[next], round>>
  <2>1. new \in Jobs /\ new[2] = round /\ round \in Nat
    BY <1>6 DEF Submit, Jobs, ExecutorInv, TypeOK, OrderInv
  <2>2. (Pool!QueuedJobs \cup running)' = Pool!QueuedJobs \cup running \cup {new}
    <3>1. pending \in Seq(Jobs) /\ pending' = Append(pending, new)
      BY <1>6 DEF Submit, Pool!Submit, ExecutorInv, TypeOK
    <3> HIDE DEF new
    <3>2. Range(pending') = Range(pending) \cup {new}
      BY <2>1, <3>1, RangeOfAppend
    <3>. QED
      BY <1>6, <3>2 DEF Submit, Pool!Submit, Range
  <2>3. round \notin interrupted => \A j \in cleared : j[2] \in Nat /\ j[2] < round
    BY <1>0, <1>6 DEF Submit, CancelInv, ExecutorInv, TypeOK, Jobs
  <2>4. round \notin interrupted => Needs(new) \cap cleared = {}
    <3>1. \A j \in Needs(new) : j[2] = round
      BY DEF Needs
    <3> HIDE DEF new
    <3>2. ASSUME round \notin interrupted, NEW j \in Needs(new), j \in cleared
          PROVE  FALSE
      <4>1. j[2] = round /\ j[2] \in Nat /\ j[2] < round
        BY <2>3, <3>1, <3>2
      <4>. QED
        BY <2>1, <4>1
    <3>. QED
      BY <3>2
  <2>5. cleared' = cleared /\ round' = round /\ interrupted' = interrupted
    BY <1>6 DEF Submit, Pool!Submit
  <2>6. \A j : Needs(j)' = Needs(j)
    BY DEF Needs, Task
  <2> HIDE DEF new
  <2>. QED
    BY <1>0, <2>1, <2>2, <2>3, <2>4, <2>5, <2>6 DEF CancelInv
<1>7. CASE RunEnd
  BY <1>0, <1>7, CancelUndisturbed DEF RunEnd
<1>8. CASE WaitReturn
  BY <1>0, <1>8, CancelUndisturbed DEF WaitReturn, Pool!Return
<1>9. CASE DestroyEnd
  BY <1>0, <1>9, CancelUndisturbed DEF DestroyEnd, Pool!Vanish
<1>10. CASE JobStart
  <2>1. pending \in Seq(Jobs) /\ pending # <<>> /\ pending' = Tail(pending)
    BY <1>10 DEF JobStart, Pool!Start, ExecutorInv, TypeOK
  <2>2. Range(pending) = Range(pending') \cup {Head(pending)}
    BY <2>1, RangeOfTail
  <2>3. (Pool!QueuedJobs \cup running)' = Pool!QueuedJobs \cup running
    BY <1>10, <2>2 DEF JobStart, Pool!Start, Range
  <2>. QED
    BY <1>0, <1>10, <2>3, CancelUndisturbed DEF JobStart, Pool!Start
<1>11. ASSUME NEW j \in Jobs, Enter(j) PROVE CancelInv'
  BY <1>0, <1>11, CancelUndisturbed DEF Enter
<1>12. ASSUME NEW j \in Jobs, Publish(j) PROVE CancelInv'
  BY <1>0, <1>12, CancelUndisturbed DEF Publish
<1>13. ASSUME NEW j \in Jobs, JobEnd(j) PROVE CancelInv'
  <2>1. (Pool!QueuedJobs \cup running)' \subseteq Pool!QueuedJobs \cup running
    BY <1>13 DEF JobEnd, Pool!Finish
  <2>. QED
    BY <1>0, <1>13, <2>1, CancelUndisturbed DEF JobEnd, Pool!Finish
<1>14. CASE UNCHANGED vars
  BY <1>0, <1>14, CancelUndisturbed DEF vars
<1>. QED
  BY <1>1, <1>2, <1>3, <1>4, <1>5, <1>6, <1>7, <1>8, <1>9, <1>10, <1>11,
     <1>12, <1>13, <1>14 DEF Next, MainStep, TaskStep

------------------------------------------------------------------------------
(* The invariant of the executor holds in every reachable state. *)
THEOREM ExecutorInvariant == Spec => []ExecutorInv
<1>1. Init => ExecutorInv
  BY InitExecutorInv
<1>2. ExecutorInv /\ [Next]_vars => ExecutorInv'
  BY TypeOKStep, OrderStep, EdgesStep, CancelStep, NoCycle DEF ExecutorInv
<1>. QED
  BY <1>1, <1>2, PTL DEF Spec

(* What a job still waits for, if it was added in time, has not been        *)
(* cancelled and has not returned, so it is queued or running.              *)
LEMMA MissingIsUnfinished ==
  ASSUME ExecutorInv, NEW j \in Pool!QueuedJobs \cup running,
         NEW p \in Missing(j), InTime(p, j)
  PROVE  <<p, j[2]>> \in (Pool!QueuedJobs \cup running) \cap Needs(j)
<1>1. <<p, j[2]>> \in Needs(j)
  BY DEF Missing, Needs
<1>2. <<p, j[2]>> \notin cleared
  BY <1>1 DEF ExecutorInv, CancelInv, InTime, Pool!Known
<1>3. <<p, j[2]>> \notin done
  BY DEF ExecutorInv, EdgesInv, Missing, Task
<1>. QED
  BY <1>1, <1>2, <1>3 DEF InTime, Pool!Known

(* A worker that blocks in Task::run on a task that was submitted with its  *)
(* own blocks on one that a worker runs, for any graph, number of workers   *)
(* and of overlapping calls of run(), and whenever cancel() is called       *)
(* except in the middle of that run(): the order ThreadPoolExecutor::run    *)
(* submits in keeps such tasks from being queued behind those that wait for *)
(* them.  It says nothing of a task that waits for one added later.         *)
THEOREM WorkersBlockOnStarted == Spec => []BlockedOnStarted
<1>1. ExecutorInv => BlockedOnStarted
  <2> SUFFICES ASSUME ExecutorInv, NEW j \in running,
                      NEW p \in Missing(j), InTime(p, j)
               PROVE  <<p, j[2]>> \in running
    BY DEF BlockedOnStarted
  <2>1. <<p, j[2]>> \in (Pool!QueuedJobs \cup running) \cap Needs(j)
    BY MissingIsUnfinished
  <2>2. <<p, j[2]>> \notin Pool!QueuedJobs
    BY <2>1, NeedsHaveStarted, NoCycle
  <2>. QED
    BY <2>1, <2>2
<1>. QED
  BY <1>1, ExecutorInvariant, PTL

(* cancel() drops with a task all the queued tasks that depend on it and    *)
(* leaves none in a worker that waits for it, if the task was submitted with*)
(* them by a run() that cancel() did not interrupt.                         *)
THEOREM CancelLeavesNoOrphan == Spec => []NoOrphan
<1>1. ExecutorInv => NoOrphan
  BY MissingIsUnfinished DEF NoOrphan
<1>. QED
  BY <1>1, ExecutorInvariant, PTL

------------------------------------------------------------------------------
(* The executor implements Dataflow. *)

(* What the mapping of ImplementsDataflow makes of a task.                 *)
Status(t) ==
  IF t \in is_retrievable_ THEN "Complete"
  ELSE IF \E j \in entered : Task(j) = t THEN "Running"
  ELSE "Incomplete"
DFStatus == [t \in Tasks |-> Status(t)]

(* A step that enters, publishes and ends no job.                          *)
LEMMA StatusUndisturbed ==
  ASSUME UNCHANGED <<is_retrievable_, entered>>
  PROVE  DFStatus' = DFStatus
BY DEF DFStatus, Status

(* The first callable of a task to be called starts it; a later one        *)
(* changes nothing.                                                        *)
LEMMA EnterRefines ==
  ASSUME ExecutorInv, NEW j \in Jobs, Enter(j)
  PROVE  DF!Next \/ DFStatus' = DFStatus
<1> DEFINE t == Task(j)
<1>1. t \in Tasks /\ is_retrievable_' = is_retrievable_ /\ entered' = entered \cup {j}
  BY DEF Enter, Jobs, Task
<1>2. \A u \in Tasks \ {t} : Status(u)' = Status(u)
  BY <1>1 DEF Status
<1>3. CASE Status(t) = "Incomplete"
  <2>1. Status(t)' = "Running"
    BY <1>1, <1>3 DEF Status
  <2>2. \A p \in DependsOn[t] : p \in Tasks /\ Status(p) = "Complete"
    BY <1>1, DependsOnTasks DEF Enter, Status
  <2>3. DF!Start(t)
    BY <1>1, <1>2, <1>3, <2>1, <2>2 DEF DF!Start, Status
  <2>. QED
    BY <1>1, <2>3 DEF DF!Next
<1>4. CASE Status(t) # "Incomplete"
  <2>1. Status(t)' = Status(t)
    BY <1>1, <1>4 DEF Status
  <2>. QED
    BY <1>2, <2>1 DEF DFStatus
<1>. QED
  BY <1>3, <1>4

(* The first publication completes a task.                                 *)
LEMMA PublishRefines ==
  ASSUME ExecutorInv, NEW j \in Jobs, Publish(j)
  PROVE  DF!Next \/ DFStatus' = DFStatus
<1> DEFINE t == Task(j)
<1>1. /\ t \in Tasks /\ j \in entered /\ entered' = entered
      /\ is_retrievable_' = is_retrievable_ \cup {t}
  BY DEF Publish, Jobs, Task
<1>2. \A u \in Tasks \ {t} : Status(u)' = Status(u)
  BY <1>1 DEF Status
<1>3. Status(t)' = "Complete"
  BY <1>1 DEF Status
<1>4. CASE t \in is_retrievable_
  <2>1. Status(t)' = Status(t)
    BY <1>3, <1>4 DEF Status
  <2>. QED
    BY <1>2, <2>1 DEF DFStatus
<1>5. CASE t \notin is_retrievable_
  <2>1. Status(t) = "Running"
    BY <1>1, <1>5 DEF Status
  <2>2. DF!Finish(t)
    BY <1>1, <1>2, <1>3, <2>1 DEF DF!Finish, Status
  <2>. QED
    BY <1>1, <2>2 DEF DF!Next
<1>. QED
  BY <1>4, <1>5

(* When a job ends its task has been completed already.                    *)
LEMMA JobEndRefines ==
  ASSUME ExecutorInv, NEW j \in Jobs, JobEnd(j)
  PROVE  DFStatus' = DFStatus
<1>1. /\ Task(j) \in is_retrievable_ /\ entered' = entered \ {j}
      /\ is_retrievable_' = is_retrievable_
  BY DEF JobEnd, ExecutorInv, EdgesInv, edges
<1>. QED
  BY <1>1 DEF DFStatus, Status

(* A task starts for the first time when all it depends on has published,  *)
(* and completes once, whatever the executor's calls, the pool and the     *)
(* cancelling do: ThreadPoolExecutor with Task::run implements Dataflow.   *)
THEOREM ExecutorImplementsDataflow == Spec => ImplementsDataflow
<1>1. Init => DF!Init
  BY DEF Init, DF!Init
<1>2. ExecutorInv /\ [Next]_vars => DF!Next \/ DFStatus' = DFStatus
  <2> SUFFICES ASSUME ExecutorInv, [Next]_vars PROVE DF!Next \/ DFStatus' = DFStatus
    OBVIOUS
  <2>1. ASSUME NEW j \in Jobs, TaskStep(j) PROVE DF!Next \/ DFStatus' = DFStatus
    BY <2>1, EnterRefines, PublishRefines, JobEndRefines DEF TaskStep
  <2>2. ASSUME ~ \E j \in Jobs : TaskStep(j) PROVE UNCHANGED <<is_retrievable_, entered>>
    BY <2>2 DEF Next, MainStep, add_task, RunBegin, cancel, WaitBegin, DestroyBegin,
                Submit, RunEnd, WaitReturn, DestroyEnd, JobStart, edges, vars
  <2>. QED
    BY <2>1, <2>2, StatusUndisturbed
<1>3. ExecutorInv /\ [Next]_vars => [DF!Next]_(DFStatus)
  BY <1>2
<1>. QED
  BY <1>1, <1>3, ExecutorInvariant, PTL DEF Spec, ImplementsDataflow, DF!Spec, DFStatus, Status

------------------------------------------------------------------------------
(* As long as run() has been called at most once, a task executes only      *)
(* after the tasks it depends on.                                           *)
FirstRunInOrder == round <= 1 => DependenciesFirst

(* ThreadPoolExecutor::run keeps its promise about the order of execution   *)
(* until it is called again (then it may not: the edges stay retrievable).  *)
THEOREM FirstRunIsInOrder == Spec => []FirstRunInOrder
<1>1. ExecutorInv => FirstRunInOrder
  <2> SUFFICES ASSUME ExecutorInv, round <= 1, NEW j \in entered,
                      NEW p \in DependsOn[Task(j)]
               PROVE  <<p, j[2]>> \in done \cup published
    BY DEF FirstRunInOrder, DependenciesFirst, Needs
  <2>1. \A i \in entered \cup published \cup done : i \in Jobs /\ i[2] <= round
    BY DEF ExecutorInv, TypeOK, OrderInv, Pool!Known
  <2>2. \A i \in entered \cup published \cup done : i = <<i[1], 1>> /\ i[2] = 1
    BY <2>1 DEF Jobs, ExecutorInv, TypeOK
  <2>3. PICK i \in published \cup done : Task(i) = p
    BY DEF ExecutorInv, EdgesInv
  <2>. QED
    BY <2>2, <2>3 DEF Task
<1>. QED
  BY <1>1, ExecutorInvariant, PTL
=============================================================================
