----------------------------- MODULE TaskProofs -----------------------------
(***************************************************************************)
(* Proofs about Task, for any acyclic graph and any number of threads.     *)
(***************************************************************************)
EXTENDS Task, TaskGraphProofs

(* A slot of a task holds None or the edge of a task it depends on.        *)
LEMMA InputIsEdge ==
  ASSUME NEW t \in Tasks
  PROVE  /\ Len(Inputs[t]) \in Nat /\ DOMAIN Inputs[t] = 1 .. Len(Inputs[t])
         /\ DependsOn[t] \subseteq Tasks
         /\ \A i \in 1 .. Len(Inputs[t]) :
              /\ Inputs[t][i] \in Tasks \cup {None}
              /\ Inputs[t][i] # None => Inputs[t][i] \in DependsOn[t]
         /\ \A p \in DependsOn[t] :
              \E i \in 1 .. Len(Inputs[t]) : Inputs[t][i] = p
<1>1. Inputs[t] \in Seq(Tasks \cup {None})
  BY TaskGraphAssumption
<1>. QED
  BY <1>1 DEF DependsOn, Range


(* The constants, but for the graph. *)
LEMMA Constants ==
  /\ None \notin Tasks /\ None \notin Waiters
  /\ Tasks \cap Waiters = {} /\ Readers \cap (Tasks \cup Waiters) = {}
  /\ WaitsFor \in [Waiters -> Tasks]
  /\ MaxReruns \in Nat /\ MaxSpurious \in Nat
BY TaskAssumption, TaskGraphAssumption

(* The members of the records. *)
LEMMA Shapes ==
  /\ \A t : DOMAIN NewTask(t) = {"state_", "start_time_", "end_time_", "callable_", "result_", "mtx_"}
  /\ DOMAIN NewEdge = {"data_", "is_retrievable_", "mtx_"}
  /\ DOMAIN NewRun = {"pc", "slot", "args", "number"}
  /\ DOMAIN NewOutside = {"pc", "answer", "got"}
BY DEF NewTask, NewEdge, NewRun, NewOutside

(* Arguments are a sequence, of what has been appended. *)
LEMMA ArgsAppend ==
  /\ <<>> \in Seq(Range(<<>>))
  /\ \A args, v : args \in Seq(Range(args)) =>
       Append(args, v) \in Seq(Range(Append(args, v)))
<1>1. ASSUME NEW args, NEW v, args \in Seq(Range(args))
      PROVE  Append(args, v) \in Seq(Range(Append(args, v)))
  <2> DEFINE S == Range(args) \cup {v}
  <2>1. args \in Seq(S)
    BY <1>1
  <2>2. Range(Append(args, v)) = S
    BY <2>1, RangeOfAppend
  <2>. QED
    BY <2>1, <2>2, AppendProperties
<1>. QED
  BY <1>1

(* Every step keeps the types: the members of the tasks, ... *)
LEMMA TaskOKStep ==
  ASSUME TypeOK, [Next]_vars
  PROVE  DOMAIN task' = Tasks /\ \A u \in Tasks : TaskOK(u)'
<1> DEFINE Goal == DOMAIN task' = Tasks /\ \A u \in Tasks : TaskOK(u)'
<1> USE Shapes, Constants DEF TypeOK, TaskOK
<1>1. ASSUME NEW t \in Tasks, SetRunning(t) PROVE Goal
  <2>1. run[t].number \in Runs
    BY <1>1, Constants DEF RunOK, Runs
  <2>. QED
    BY <1>1, <2>1 DEF SetRunning
<1>2. ASSUME NEW t \in Tasks, Invoke(t) \/ StoreResult(t) PROVE Goal
  BY <1>2 DEF Invoke, StoreResult, Go
<1>3. ASSUME NEW t \in Tasks, SetEndTime(t) PROVE Goal
  <2>1. run[t].number \in Runs
    BY <1>3, Constants DEF RunOK, Runs
  <2>. QED
    BY <1>3, <2>1 DEF SetEndTime, Go
<1>4. ASSUME NEW t \in Tasks, SetComplete(t) PROVE Goal
  BY <1>4 DEF SetComplete, Go, set_state
<1>5. ASSUME NEW t \in Tasks, set_callable(t) PROVE Goal
  <2>1. task'[t].callable_ = TRUE
    BY <1>5 DEF set_callable
  <2>2. \A u \in Tasks \ {t} : task'[u] = task[u]
    BY <1>5 DEF set_callable
  <2>3. /\ DOMAIN task' = Tasks /\ DOMAIN task'[t] = DOMAIN task[t]
        /\ task'[t].state_ = task[t].state_
        /\ task'[t].start_time_ = task[t].start_time_
        /\ task'[t].end_time_ = task[t].end_time_
        /\ task'[t].mtx_ = task[t].mtx_
    BY <1>5 DEF set_callable
  <2>. QED
    BY <2>1, <2>2, <2>3
<1>6. ASSUME NEW w \in Waiters, WaitLook(w) PROVE Goal
  BY <1>6 DEF WaitLook, OutsideGo, get_state
<1>7. ASSUME NEW w \in Waiters, WaitBlock(w) PROVE Goal
  BY <1>7 DEF WaitBlock, OutsideGo
<1>8. ASSUME NEW w \in Waiters, WaitAnswer(w) PROVE Goal
  BY <1>8 DEF WaitAnswer, get_state
<1>9. CASE UNCHANGED task
  BY <1>9
<1>. QED
  BY <1>1, <1>2, <1>3, <1>4, <1>5, <1>6, <1>7, <1>8, <1>9
  DEF Next, RunStep, WaitStep, AllReturned, vars, RunBegin, RunAgain,
        EdgeSkip, EdgeLook, EdgeBlock, EdgeSpurious, Fetch, InvokeVoid,
        Throw, CallEmpty, SetData, StoreData, SetDataVoid, Mark, NotifyAll,
        NotifyOne, WaitBegin, WaitSpurious, get_result, is_retrievable,
        get_inward_edge_value, Begin, Go, OutsideGo

(* ... of the edges, ... *)
LEMMA EdgeOKStep ==
  ASSUME TypeOK, [Next]_vars
  PROVE  DOMAIN edge' = Tasks /\ \A u \in Tasks : EdgeOK(u)'
<1> DEFINE Goal == DOMAIN edge' = Tasks /\ \A u \in Tasks : EdgeOK(u)'
<1> USE Shapes, Constants DEF TypeOK, EdgeOK
<1>1. ASSUME NEW t \in Tasks, EdgeLook(t) PROVE Goal
  <2>1. CASE edge' = [edge EXCEPT ![Edge(t)].mtx_ = t]
    BY <2>1
  <2>2. CASE UNCHANGED edge
    BY <2>2
  <2>. QED
    BY <1>1, <2>1, <2>2 DEF EdgeLook
<1>2. ASSUME NEW t \in Tasks, EdgeBlock(t) PROVE Goal
  BY <1>2 DEF EdgeBlock, Go
<1>3. ASSUME NEW t \in Tasks, SetData(t) PROVE Goal
  BY <1>3 DEF SetData, Go
<1>4. ASSUME NEW t \in Tasks, StoreData(t) PROVE Goal
  BY <1>4 DEF StoreData, Go
<1>5. ASSUME NEW t \in Tasks, Mark(t) PROVE Goal
  BY <1>5 DEF Mark, Go
<1>6. CASE UNCHANGED edge
  BY <1>6
<1>. QED
  BY <1>1, <1>2, <1>3, <1>4, <1>5, <1>6
  DEF Next, RunStep, WaitStep, AllReturned, vars, RunBegin, RunAgain,
        EdgeSkip, EdgeSpurious, SetRunning, Fetch, Invoke, StoreResult,
        InvokeVoid, Throw, CallEmpty, SetEndTime, SetDataVoid, NotifyAll,
        SetComplete, NotifyOne, set_callable, WaitBegin, WaitLook, WaitBlock,
        WaitSpurious, WaitAnswer, get_result, is_retrievable,
        get_inward_edge_value, Begin, Go, OutsideGo, set_state

(* ... what the threads outside know ... *)
LEMMA OutsideOKStep ==
  ASSUME TypeOK, [Next]_vars
  PROVE  /\ DOMAIN outside' = Waiters \cup Readers
         /\ \A x \in Waiters \cup Readers : OutsideOK(x)'
<1> DEFINE Goal == /\ DOMAIN outside' = Waiters \cup Readers
                   /\ \A x \in Waiters \cup Readers : OutsideOK(x)'
<1> USE Shapes, Constants DEF TypeOK, OutsideOK, OutsideStates
<1>1. ASSUME NEW t \in Tasks, NotifyOne(t) PROVE Goal
  <2>1. \/ UNCHANGED outside
        \/ \E w \in Waiters : /\ outside[w].pc = "blocked"
                            /\ outside' = [outside EXCEPT ![w].pc = "enter"]
    BY <1>1 DEF NotifyOne, OutsideGo, TaskSleepers
  <2>2. CASE UNCHANGED outside
    BY <2>2
  <2>3. ASSUME NEW w \in Waiters, outside' = [outside EXCEPT ![w].pc = "enter"]
        PROVE  Goal
    BY <2>3
  <2>. QED
    BY <2>1, <2>2, <2>3
<1>2. ASSUME NEW w \in Waiters, WaitBegin(w) PROVE Goal
  BY <1>2 DEF WaitBegin, OutsideGo
<1>3. ASSUME NEW w \in Waiters, WaitLook(w) PROVE Goal
  BY <1>3 DEF WaitLook, OutsideGo
<1>4. ASSUME NEW w \in Waiters, WaitBlock(w) PROVE Goal
  BY <1>4 DEF WaitBlock, OutsideGo
<1>5. ASSUME NEW w \in Waiters, WaitSpurious(w) PROVE Goal
  BY <1>5 DEF WaitSpurious, OutsideGo
<1>6. ASSUME NEW w \in Waiters, WaitAnswer(w) PROVE Goal
  BY <1>6 DEF WaitAnswer, get_state
<1>7. ASSUME NEW w \in Waiters, get_result(w) PROVE Goal
  BY <1>7 DEF get_result
<1>8. ASSUME NEW r \in Readers, is_retrievable(r) PROVE Goal
  BY <1>8 DEF is_retrievable, OutsideGo
<1>9. ASSUME NEW r \in Readers, get_inward_edge_value(r) PROVE Goal
  BY <1>9 DEF get_inward_edge_value, EdgeValue
<1>10. CASE UNCHANGED outside
  BY <1>10
<1>. QED
  BY <1>1, <1>2, <1>3, <1>4, <1>5, <1>6, <1>7, <1>8, <1>9, <1>10
  DEF Next, RunStep, WaitStep, AllReturned, vars, RunBegin, RunAgain,
        EdgeSkip, EdgeLook, EdgeBlock, EdgeSpurious, SetRunning, Fetch,
        Invoke, StoreResult, InvokeVoid, Throw, CallEmpty, SetEndTime, SetData,
        StoreData, SetDataVoid, Mark, NotifyAll, SetComplete, set_callable,
        Begin, Go, set_state

(* ... and what the threads of the tasks know. *)
LEMMA RunOKStep ==
  ASSUME TypeOK, [Next]_vars
  PROVE  DOMAIN run' = Tasks /\ \A u \in Tasks : RunOK(u)'
<1> DEFINE Goal == DOMAIN run' = Tasks /\ \A u \in Tasks : RunOK(u)'
<1> USE Shapes, Constants DEF TypeOK, RunOK, RunStates
<1>1. ASSUME NEW t \in Tasks, RunBegin(t) PROVE Goal
  <2>1. /\ Len(Inputs[t]) \in Nat /\ <<>> \in Seq(Range(<<>>))
        /\ run[t].number + 1 \in Runs \ {0}
    BY <1>1, InputIsEdge, ArgsAppend DEF RunBegin, Runs
  <2>. QED
    BY <1>1, <2>1 DEF RunBegin, Begin, NoArguments
<1>2. ASSUME NEW t \in Tasks, RunAgain(t) PROVE Goal
  <2>1. /\ run[t].number <= MaxReruns /\ Len(Inputs[t]) \in Nat /\ <<>> \in Seq(Range(<<>>))
        /\ run[t].number + 1 \in Runs \ {0}
    BY <1>2, InputIsEdge, ArgsAppend DEF RunAgain, Runs
  <2>. QED
    BY <1>2, <2>1 DEF RunAgain, Begin, NoArguments
<1>3. ASSUME NEW t \in Tasks, EdgeSkip(t) PROVE Goal
  <2>1. run[t].slot \in 1 .. Len(Inputs[t]) /\ Len(Inputs[t]) \in Nat
    BY <1>3, InputIsEdge DEF EdgeSkip, HasSlot
  <2>. QED
    BY <1>3, <2>1 DEF EdgeSkip
<1>4. ASSUME NEW t \in Tasks, EdgeLook(t) PROVE Goal
  <2>1. /\ run[t].slot \in 1 .. Len(Inputs[t]) /\ Len(Inputs[t]) \in Nat
        /\ run[t].pc = "edge"
    BY <1>4, InputIsEdge DEF EdgeLook, HasSlot
  <2>2. CASE run' = [run EXCEPT ![t].slot = @ + 1]
    BY <2>1, <2>2
  <2>3. CASE run' = [run EXCEPT ![t].pc = "edge_block"]
    BY <1>4, <2>3 DEF EdgeLook
  <2>4. \/ run' = [run EXCEPT ![t].slot = @ + 1]
        \/ run' = [run EXCEPT ![t].pc = "edge_block"]
    BY <1>4 DEF EdgeLook
  <2>. QED
    BY <2>2, <2>3, <2>4
<1>5. ASSUME NEW t \in Tasks, EdgeBlock(t) PROVE Goal
  BY <1>5 DEF EdgeBlock, Go
<1>6. ASSUME NEW t \in Tasks, EdgeSpurious(t) PROVE Goal
  BY <1>6 DEF EdgeSpurious, Go
<1>7. ASSUME NEW t \in Tasks, SetRunning(t) PROVE Goal
  BY <1>7 DEF SetRunning
<1>8. ASSUME NEW t \in Tasks, Fetch(t) PROVE Goal
  <2> DEFINE args == run[t].args
             next == IF Edge(t) \in VoidTasks THEN args
                     ELSE Append(args, EdgeValue(Edge(t)))
  <2>1. next \in Seq(Range(next))
    BY ArgsAppend
  <2>2. /\ \A u \in Tasks \ {t} : run'[u] = run[u]
        /\ DOMAIN run' = Tasks /\ DOMAIN run'[t] = DOMAIN run[t]
        /\ run'[t].pc = run[t].pc /\ run'[t].number = run[t].number
        /\ run'[t].slot = run[t].slot + 1 /\ run'[t].args = next
    BY <1>8 DEF Fetch
  <2> HIDE DEF next
  <2>3. /\ run[t].slot \in 1 .. Len(Inputs[t]) /\ Len(Inputs[t]) \in Nat
        /\ run[t].pc = "fetch"
    BY <1>8, InputIsEdge DEF Fetch, HasSlot
  <2>4. run'[t].slot \in 1 .. Len(Inputs[t]) + 1
    BY <2>2, <2>3
  <2>5. run'[t].args \in Seq(Range(run'[t].args))
    BY <2>1, <2>2
  <2>6. RunOK(t)'
    BY <2>2, <2>3, <2>4, <2>5
  <2>. QED
    BY <2>2, <2>6
<1>9. ASSUME NEW t \in Tasks, Invoke(t) \/ StoreResult(t) PROVE Goal
  <2>1. CASE Invoke(t)
    BY <2>1 DEF Invoke, Go
  <2>2. CASE StoreResult(t)
    BY <2>2 DEF StoreResult, Go
  <2>. QED
    BY <1>9, <2>1, <2>2
<1>10. ASSUME NEW t \in Tasks, InvokeVoid(t) PROVE Goal
  BY <1>10 DEF InvokeVoid, Go
<1>11. ASSUME NEW t \in Tasks, Throw(t) PROVE Goal
  BY <1>11 DEF Throw, Go
<1>12. ASSUME NEW t \in Tasks, CallEmpty(t) PROVE Goal
  BY <1>12 DEF CallEmpty, Go
<1>13. ASSUME NEW t \in Tasks, SetEndTime(t) PROVE Goal
  BY <1>13 DEF SetEndTime, Go
<1>14. ASSUME NEW t \in Tasks, SetData(t) PROVE Goal
  BY <1>14 DEF SetData, Go
<1>15. ASSUME NEW t \in Tasks, StoreData(t) PROVE Goal
  BY <1>15 DEF StoreData, Go
<1>16. ASSUME NEW t \in Tasks, SetDataVoid(t) PROVE Goal
  BY <1>16 DEF SetDataVoid, Go
<1>17. ASSUME NEW t \in Tasks, Mark(t) PROVE Goal
  BY <1>17 DEF Mark, Go
<1>18. ASSUME NEW t \in Tasks, NotifyAll(t) PROVE Goal
  <2>1. /\ DOMAIN run' = Tasks
        /\ \A u \in Tasks : \/ run'[u] = run[u]
                            \/ /\ u = t \/ run[u].pc = "edge_blocked"
                               /\ run'[u] = [run[u] EXCEPT !.pc = IF u = t THEN "complete" ELSE "edge"]
    BY <1>18 DEF NotifyAll, EdgeSleepers
  <2>. QED
    BY <1>18, <2>1 DEF NotifyAll
<1>19. ASSUME NEW t \in Tasks, SetComplete(t) PROVE Goal
  BY <1>19 DEF SetComplete, Go, set_state
<1>20. ASSUME NEW t \in Tasks, NotifyOne(t) PROVE Goal
  BY <1>20 DEF NotifyOne, Go, OutsideGo
<1>21. CASE UNCHANGED run
  BY <1>21
<1>. QED
  BY <1>1, <1>2, <1>3, <1>4, <1>5, <1>6, <1>7, <1>8, <1>9, <1>10, <1>11,
        <1>12, <1>13, <1>14, <1>15, <1>16, <1>17, <1>18, <1>19, <1>20, <1>21
  DEF Next, RunStep, WaitStep, AllReturned, vars, set_callable, WaitBegin,
        WaitLook, WaitBlock, WaitSpurious, WaitAnswer, get_result,
        is_retrievable, get_inward_edge_value, OutsideGo

(* All the types. *)
LEMMA TypeOKStep == TypeOK /\ [Next]_vars => TypeOK'
<1> SUFFICES ASSUME TypeOK, [Next]_vars PROVE TypeOK'
  OBVIOUS
<1>1. spurious' \in 0 .. MaxSpurious
  <2>1. CASE UNCHANGED spurious
    BY <2>1 DEF TypeOK
  <2>2. ASSUME NEW t \in Tasks, EdgeSpurious(t) PROVE spurious' \in 0 .. MaxSpurious
    BY <2>2, Constants DEF TypeOK, EdgeSpurious
  <2>3. ASSUME NEW w \in Waiters, WaitSpurious(w) PROVE spurious' \in 0 .. MaxSpurious
    BY <2>3, Constants DEF TypeOK, WaitSpurious
  <2>. QED
    BY <2>1, <2>2, <2>3
    DEF Next, RunStep, WaitStep, AllReturned, vars, RunBegin, RunAgain,
          EdgeSkip, EdgeLook, EdgeBlock, SetRunning, Fetch, Invoke,
          StoreResult, InvokeVoid, Throw, CallEmpty, SetEndTime, SetData, StoreData,
          SetDataVoid, Mark, NotifyAll, SetComplete, NotifyOne,
          set_callable, WaitBegin, WaitLook, WaitBlock, WaitAnswer,
          get_result, is_retrievable, get_inward_edge_value, Begin
<1>. QED
  BY <1>1, TaskOKStep, EdgeOKStep, OutsideOKStep, RunOKStep DEF TypeOK

(* The steps of a thread past its edges disturb no other thread at its:    *)
(* they take no mutex, and set a flag only whose mutex nobody holds.       *)
PastEdges(t) ==
  /\ run[t].pc \notin BeforeRunning \cup {"idle"}
  /\ run'[t].pc \notin BeforeRunning \cup {"idle"}
  /\ \A u \in Tasks : u # t => run'[u] = run[u]
  /\ \A p \in Tasks :
       /\ edge'[p].mtx_ = edge[p].mtx_
       /\ edge[p].is_retrievable_ => edge'[p].is_retrievable_
       /\ edge[p].mtx_ # None => edge'[p].is_retrievable_ = edge[p].is_retrievable_
  /\ run[t].pc # "notify_all"
  /\ run'[t].pc # "notify_all" =>
       \A p \in Tasks : edge'[p].is_retrievable_ = edge[p].is_retrievable_
  /\ \A p \in Tasks :
       p # t => edge'[p].is_retrievable_ = edge[p].is_retrievable_

(* These are those steps, ... *)
LEMMA PastEdgesSteps ==
  ASSUME TypeOK, NEW t \in Tasks,
         \/ Fetch(t) \/ Invoke(t) \/ StoreResult(t) \/ InvokeVoid(t)
         \/ Throw(t) \/ CallEmpty(t) \/ SetEndTime(t) \/ SetData(t) \/ StoreData(t)
         \/ SetDataVoid(t) \/ Mark(t) \/ SetComplete(t) \/ NotifyOne(t)
  PROVE  PastEdges(t)
<1> USE Shapes DEF TypeOK, RunOK, EdgeOK, PastEdges, BeforeRunning
<1>1. CASE Fetch(t)
  BY <1>1 DEF Fetch, EdgeValue
<1>2. CASE Invoke(t) \/ StoreResult(t)
  BY <1>2 DEF Invoke, StoreResult, Go
<1>3. CASE InvokeVoid(t)
  BY <1>3 DEF InvokeVoid, Go
<1>4. CASE Throw(t)
  BY <1>4 DEF Throw, Go
<1>5. CASE CallEmpty(t)
  BY <1>5 DEF CallEmpty, Go
<1>6. CASE SetEndTime(t)
  BY <1>6 DEF SetEndTime, Go
<1>7. CASE SetData(t)
  BY <1>7 DEF SetData, Go
<1>8. CASE StoreData(t)
  BY <1>8 DEF StoreData, Go
<1>9. CASE SetDataVoid(t)
  BY <1>9 DEF SetDataVoid, Go
<1>10. CASE Mark(t)
  BY <1>10 DEF Mark, Go
<1>11. CASE SetComplete(t)
  BY <1>11 DEF SetComplete, Go, set_state
<1>12. CASE NotifyOne(t)
  BY <1>12 DEF NotifyOne, Go, OutsideGo
<1>. QED
  BY <1>1, <1>2, <1>3, <1>4, <1>5, <1>6, <1>7, <1>8, <1>9, <1>10, <1>11, <1>12

(* ... and they keep EdgesInv. *)
LEMMA PastEdgesKeeps ==
  ASSUME TypeOK, TypeOK', EdgesInv, NEW t \in Tasks, PastEdges(t)
  PROVE  EdgesInv'
<1> USE Constants
<1> SUFFICES ASSUME NEW u \in Tasks PROVE (BlockOK(u) /\ HolderOK(u) /\ PassedOK(u))'
  BY DEF EdgesInv
<1>1. BlockOK(u) /\ HolderOK(u) /\ PassedOK(u)
  BY DEF EdgesInv
<1>2. ASSUME NEW v \in Tasks, run[v].pc \in BeforeRunning PROVE run'[v] = run[v]
  BY <1>2 DEF PastEdges
<1>3. HolderOK(u)'
  <2> DEFINE v == edge[u].mtx_
  <2>1. CASE v # None
    <3>1. v \in Tasks /\ edge'[u].mtx_ = v /\ run[v].pc = "edge_block" /\ Edge(v) = u
      BY <1>1, <2>1 DEF HolderOK, PastEdges, TypeOK, EdgeOK
    <3>2. run'[v] = run[v]
      BY <1>2, <3>1 DEF BeforeRunning
    <3>. QED
      BY <3>1, <3>2 DEF HolderOK, Edge
  <2>2. CASE v = None
    BY <2>2 DEF HolderOK, PastEdges
  <2>. QED
    BY <2>1, <2>2
<1>4. CASE run'[u].pc \in BeforeRunning
  <2>1. run'[u] = run[u]
    BY <1>4 DEF PastEdges
  <2>2. \A i \in 1 .. Len(Inputs[u]) :
          Inputs[u][i] # None => /\ Inputs[u][i] \in Tasks
                                 /\ edge[Inputs[u][i]].is_retrievable_ =>
                                      edge'[Inputs[u][i]].is_retrievable_
    BY InputIsEdge DEF PastEdges
  <2>3. 1 .. run[u].slot - 1 \subseteq 1 .. Len(Inputs[u])
    BY InputIsEdge DEF TypeOK, RunOK
  <2>4. PassedOK(u)'
    BY <1>1, <1>4, <2>1, <2>2, <2>3 DEF PassedOK
  <2>5. run[u].slot \in Nat \ {0} /\ Len(Inputs[u]) \in Nat
    BY InputIsEdge DEF TypeOK, RunOK
  <2>6. CASE run[u].pc = "edge_block"
    <3>1. Edge(u) \in Tasks
      BY <1>1, <2>5, <2>6, InputIsEdge DEF BlockOK, Edge, HasSlot
    <3>2. edge[Edge(u)].mtx_ = u /\ ~edge[Edge(u)].is_retrievable_
      BY <1>1, <2>6 DEF BlockOK
    <3>3. edge'[Edge(u)].mtx_ = u /\ ~edge'[Edge(u)].is_retrievable_
      BY <3>1, <3>2 DEF PastEdges
    <3>. QED
      BY <1>1, <1>3, <2>1, <2>4, <3>3 DEF BlockOK, Edge, HasSlot
  <2>7. CASE run[u].pc # "edge_block"
    BY <1>1, <1>3, <2>1, <2>4, <2>7 DEF BlockOK, Edge, HasSlot
  <2>. QED
    BY <2>6, <2>7
<1>5. CASE run'[u].pc \notin BeforeRunning
  <2>1. BlockOK(u)'
    BY <1>5 DEF BlockOK, BeforeRunning
  <2>2. run'[u].pc # "idle" => run[u].pc \notin BeforeRunning \cup {"idle"}
    BY <1>5 DEF PastEdges
  <2>3. PassedOK(u)'
    BY <1>1, <1>5, <2>2, InputIsEdge DEF PassedOK, PastEdges
  <2>. QED
    BY <1>3, <2>1, <2>3
<1>. QED
  BY <1>4, <1>5

(* A step of a thread that neither holds nor takes a mutex disturbs no     *)
(* other.                                                                  *)
LEMMA OwnStepKeeps ==
  ASSUME TypeOK, EdgesInv, NEW t \in Tasks, UNCHANGED edge,
         \A u \in Tasks : u # t => run'[u] = run[u],
         run[t].pc # "edge_block", BlockOK(t)', PassedOK(t)'
  PROVE  EdgesInv'
<1> SUFFICES ASSUME NEW u \in Tasks PROVE (BlockOK(u) /\ HolderOK(u) /\ PassedOK(u))'
  BY DEF EdgesInv
<1>1. BlockOK(u) /\ HolderOK(u) /\ PassedOK(u)
  BY DEF EdgesInv
<1>2. HolderOK(u)'
  BY <1>1 DEF HolderOK, Edge, TypeOK, EdgeOK
<1>3. u # t => BlockOK(u)' /\ PassedOK(u)'
  BY <1>1 DEF BlockOK, PassedOK, Edge, HasSlot
<1>. QED
  BY <1>2, <1>3

(* Every step keeps EdgesInv. *)
LEMMA EdgesInvStep ==
  ASSUME TypeOK, TypeOK', EdgesInv, [Next]_vars
  PROVE  EdgesInv'
<1> USE Shapes, Constants
<1>1. ASSUME NEW t \in Tasks, RunBegin(t) \/ RunAgain(t) PROVE EdgesInv'
  <2>1. /\ run[t].pc # "edge_block" /\ UNCHANGED edge
        /\ run'[t].pc = "edge" /\ run'[t].slot = 1 /\ run'[t].args = <<>>
        /\ \A u \in Tasks : u # t => run'[u] = run[u]
    BY <1>1 DEF RunBegin, RunAgain, Begin, NoArguments, TypeOK, RunOK
  <2>2. BlockOK(t)' /\ PassedOK(t)'
    BY <2>1 DEF BlockOK, PassedOK, BeforeRunning
  <2>. QED
    BY <2>1, <2>2, OwnStepKeeps
<1>2. ASSUME NEW t \in Tasks, HasSlot(t), run[t].pc = "edge", UNCHANGED edge,
             run' = [run EXCEPT ![t].slot = @ + 1],
             Edge(t) # None => edge[Edge(t)].is_retrievable_
      PROVE  EdgesInv'
  <2>1. /\ run'[t].pc = "edge" /\ run'[t].slot = run[t].slot + 1
        /\ run'[t].args = run[t].args
        /\ \A u \in Tasks : u # t => run'[u] = run[u]
    BY <1>2 DEF TypeOK, RunOK
  <2>2. PassedOK(t) /\ run[t].slot \in Nat \ {0}
    BY InputIsEdge DEF EdgesInv, TypeOK, RunOK
  <2>3. \A i \in 1 .. run[t].slot : i \in 1 .. run[t].slot - 1 \/ i = run[t].slot
    BY <2>2
  <2>4. BlockOK(t)'
    BY <2>1 DEF BlockOK
  <2>5. \A i \in 1 .. run[t].slot :
          Inputs[t][i] # None => edge[Inputs[t][i]].is_retrievable_
    BY <1>2, <2>2, <2>3 DEF PassedOK, BeforeRunning, Edge
  <2>6. 1 .. run'[t].slot - 1 = 1 .. run[t].slot
    BY <2>1, <2>2
  <2>7. PassedOK(t)'
    BY <1>2, <2>1, <2>2, <2>5, <2>6 DEF PassedOK, BeforeRunning
  <2>. QED
    BY <1>2, <2>1, <2>4, <2>7, OwnStepKeeps
<1>3. ASSUME NEW t \in Tasks, EdgeSkip(t) PROVE EdgesInv'
  BY <1>2, <1>3 DEF EdgeSkip
<1>4. ASSUME NEW t \in Tasks, EdgeLook(t) PROVE EdgesInv'
  <2>1. CASE UNCHANGED edge /\ run' = [run EXCEPT ![t].slot = @ + 1] /\ edge[Edge(t)].is_retrievable_
    BY <1>2, <1>4, <2>1 DEF EdgeLook
  <2>2. CASE /\ ~edge[Edge(t)].is_retrievable_
             /\ run' = [run EXCEPT ![t].pc = "edge_block"]
             /\ edge' = [edge EXCEPT ![Edge(t)].mtx_ = t]
    <3> DEFINE p == Edge(t)
    <3>1. /\ HasSlot(t) /\ p # None /\ p \in Tasks /\ edge[p].mtx_ = None
          /\ run[t].pc = "edge"
      BY <1>4, InputIsEdge DEF EdgeLook, HasSlot, Edge, TypeOK, RunOK
    <3>2. /\ run'[t].pc = "edge_block" /\ run'[t].slot = run[t].slot
          /\ run'[t].args = run[t].args
          /\ \A u \in Tasks : u # t => run'[u] = run[u]
      BY <2>2 DEF TypeOK, RunOK
    <3>3. /\ edge'[p].mtx_ = t
          /\ \A q \in Tasks : q # p => edge'[q] = edge[q]
          /\ \A q \in Tasks : edge'[q].is_retrievable_ = edge[q].is_retrievable_
      BY <2>2, <3>1 DEF TypeOK, EdgeOK
    <3> SUFFICES ASSUME NEW u \in Tasks
                 PROVE  (BlockOK(u) /\ HolderOK(u) /\ PassedOK(u))'
      BY DEF EdgesInv
    <3>4. BlockOK(u) /\ HolderOK(u) /\ PassedOK(u) /\ PassedOK(t)
      BY DEF EdgesInv
    <3> HIDE DEF p
    <3>5. BlockOK(u)'
      <4>1. CASE u = t
        BY <2>2, <3>1, <3>2, <3>3, <4>1 DEF BlockOK, p, HasSlot, Edge
      <4>2. CASE u # t /\ run[u].pc = "edge_block"
        <5>1. Edge(u) \in Tasks /\ edge[Edge(u)].mtx_ = u
          BY <3>4, <4>2, InputIsEdge DEF BlockOK, HasSlot, Edge, TypeOK, RunOK
        <5>2. Edge(u) # p
          BY <3>1, <5>1
        <5>. QED
          BY <3>2, <3>3, <3>4, <4>2, <5>1, <5>2 DEF BlockOK, HasSlot, Edge
      <4>3. CASE u # t /\ run[u].pc # "edge_block"
        BY <3>2, <3>4, <4>3 DEF BlockOK, HasSlot, Edge
      <4>. QED
        BY <4>1, <4>2, <4>3
    <3>6. HolderOK(u)'
      <4>1. CASE u = p
        BY <3>2, <3>3, <4>1 DEF HolderOK, Edge, p
      <4>2. CASE u # p
        BY <3>1, <3>2, <3>3, <3>4, <4>2 DEF HolderOK, Edge, TypeOK, EdgeOK
      <4>. QED
        BY <4>1, <4>2
    <3>7. PassedOK(u)'
      <4>1. \A i \in 1 .. Len(Inputs[u]) : Inputs[u][i] # None => Inputs[u][i] \in Tasks
        BY InputIsEdge
      <4>2. 1 .. run[u].slot - 1 \subseteq 1 .. Len(Inputs[u]) /\ run'[u].slot = run[u].slot
        BY <3>2, InputIsEdge DEF TypeOK, RunOK
      <4>3. run[u].pc \in BeforeRunning <=> run'[u].pc \in BeforeRunning
        BY <3>1, <3>2 DEF BeforeRunning
      <4>4. run[u].pc = "idle" <=> run'[u].pc = "idle"
        BY <3>1, <3>2
      <4>5. run'[u].args = run[u].args
        BY <3>2
      <4>6. \A q \in DependsOn[u] : edge'[q].is_retrievable_ = edge[q].is_retrievable_
        BY <3>3, InputIsEdge
      <4>. QED
        BY <3>3, <3>4, <4>1, <4>2, <4>3, <4>4, <4>5, <4>6 DEF PassedOK
    <3>. QED
      BY <3>5, <3>6, <3>7
  <2>. QED
    BY <1>4, <2>1, <2>2 DEF EdgeLook
<1>5. ASSUME NEW t \in Tasks, EdgeBlock(t) PROVE EdgesInv'
  <2> DEFINE p == Edge(t)
  <2>1. run[t].pc = "edge_block"
    BY <1>5 DEF EdgeBlock, Go
  <2>2. p \in Tasks /\ HasSlot(t) /\ p # None /\ edge[p].mtx_ = t
    BY <2>1, InputIsEdge DEF HasSlot, Edge, TypeOK, RunOK, EdgesInv, BlockOK
  <2>3. /\ run'[t].pc = "edge_blocked" /\ run'[t].slot = run[t].slot
        /\ run'[t].args = run[t].args
        /\ \A u \in Tasks : u # t => run'[u] = run[u]
    BY <1>5 DEF EdgeBlock, Go, TypeOK, RunOK
  <2>4. /\ edge'[p].mtx_ = None
        /\ \A q \in Tasks : q # p => edge'[q] = edge[q]
        /\ \A q \in Tasks : edge'[q].is_retrievable_ = edge[q].is_retrievable_
    BY <1>5, <2>2 DEF EdgeBlock, TypeOK, EdgeOK
  <2> SUFFICES ASSUME NEW u \in Tasks
               PROVE  (BlockOK(u) /\ HolderOK(u) /\ PassedOK(u))'
    BY DEF EdgesInv
  <2>5. BlockOK(u) /\ HolderOK(u) /\ PassedOK(u) /\ PassedOK(t)
    BY DEF EdgesInv
  <2> HIDE DEF p
  <2>6. BlockOK(u)'
    <3>1. CASE u = t
      BY <2>2, <2>3, <3>1 DEF BlockOK, p, HasSlot, Edge
    <3>2. CASE u # t /\ run[u].pc = "edge_block"
      <4>1. Edge(u) \in Tasks /\ edge[Edge(u)].mtx_ = u
        BY <2>5, <3>2, InputIsEdge DEF BlockOK, HasSlot, Edge, TypeOK, RunOK
      <4>2. Edge(u) # p
        BY <2>2, <3>2, <4>1
      <4>. QED
        BY <2>3, <2>4, <2>5, <3>2, <4>1, <4>2 DEF BlockOK, HasSlot, Edge
    <3>3. CASE u # t /\ run[u].pc # "edge_block"
      BY <2>3, <2>5, <3>3 DEF BlockOK, HasSlot, Edge
    <3>. QED
      BY <3>1, <3>2, <3>3
  <2>7. HolderOK(u)'
    <3>1. CASE u = p
      BY <2>4, <3>1 DEF HolderOK
    <3>2. CASE u # p
      <4>1. edge[u].mtx_ # None => edge[u].mtx_ # t
        BY <2>5, <3>2 DEF HolderOK, p
      <4>. QED
        BY <2>3, <2>4, <2>5, <3>2, <4>1 DEF HolderOK, Edge, TypeOK, EdgeOK
    <3>. QED
      BY <3>1, <3>2
  <2>8. PassedOK(u)'
    <3>1. \A i \in 1 .. Len(Inputs[u]) : Inputs[u][i] # None => Inputs[u][i] \in Tasks
      BY InputIsEdge
    <3>2. 1 .. run[u].slot - 1 \subseteq 1 .. Len(Inputs[u]) /\ run'[u].slot = run[u].slot
      <4>1. run[u].slot \in 1 .. Len(Inputs[u]) + 1 /\ Len(Inputs[u]) \in Nat
        BY InputIsEdge DEF TypeOK, RunOK
      <4>. QED
        BY <2>3, <4>1
    <3>3. run[u].pc \in BeforeRunning <=> run'[u].pc \in BeforeRunning
      BY <2>1, <2>3 DEF BeforeRunning
    <3>4. run[u].pc = "idle" <=> run'[u].pc = "idle"
      BY <2>1, <2>3
    <3>5. run'[u].args = run[u].args
      BY <2>3
    <3>6. \A q \in DependsOn[u] : edge'[q].is_retrievable_ = edge[q].is_retrievable_
      BY <2>4, InputIsEdge
    <3>. QED
      BY <2>4, <2>5, <3>1, <3>2, <3>3, <3>4, <3>5, <3>6 DEF PassedOK
  <2>. QED
    BY <2>6, <2>7, <2>8
<1>6. ASSUME NEW t \in Tasks, EdgeSpurious(t) PROVE EdgesInv'
  <2>1. /\ run[t].pc = "edge_blocked" /\ UNCHANGED edge
        /\ run'[t].pc = "edge" /\ run'[t].slot = run[t].slot
        /\ run'[t].args = run[t].args
        /\ \A u \in Tasks : u # t => run'[u] = run[u]
    BY <1>6 DEF EdgeSpurious, Go, TypeOK, RunOK
  <2>2. BlockOK(t)'
    BY <2>1 DEF BlockOK
  <2>3. PassedOK(t)'
    BY <2>1 DEF EdgesInv, PassedOK, BeforeRunning
  <2>. QED
    BY <2>1, <2>2, <2>3, OwnStepKeeps
<1>7. ASSUME NEW t \in Tasks, SetRunning(t) PROVE EdgesInv'
  <2>1. /\ run[t].pc = "edge" /\ ~HasSlot(t) /\ UNCHANGED edge
        /\ run'[t].pc = "fetch"
        /\ \A u \in Tasks : u # t => run'[u] = run[u]
    BY <1>7 DEF SetRunning, TypeOK, RunOK
  <2>2. BlockOK(t)'
    BY <2>1 DEF BlockOK
  <2>3. run[t].slot - 1 = Len(Inputs[t])
    BY <2>1, InputIsEdge DEF HasSlot, TypeOK, RunOK
  <2>4. \A i \in 1 .. Len(Inputs[t]) :
          Inputs[t][i] # None => edge[Inputs[t][i]].is_retrievable_
    BY <2>1, <2>3 DEF EdgesInv, PassedOK, BeforeRunning
  <2>5. \A p \in DependsOn[t] : p # None /\ edge[p].is_retrievable_
    BY <2>4, InputIsEdge
  <2>6. PassedOK(t)'
    BY <2>1, <2>5 DEF PassedOK, BeforeRunning
  <2>. QED
    BY <2>1, <2>2, <2>6, OwnStepKeeps
<1>8. ASSUME NEW t \in Tasks, NotifyAll(t) PROVE EdgesInv'
  <2>1. /\ run[t].pc = "notify_all" /\ UNCHANGED edge /\ run'[t].pc = "complete"
        /\ \A u \in Tasks : u # t =>
             \/ run'[u] = run[u]
             \/ /\ run[u].pc = "edge_blocked" /\ run'[u].pc = "edge"
                /\ run'[u].slot = run[u].slot /\ run'[u].args = run[u].args
    BY <1>8 DEF NotifyAll, EdgeSleepers, TypeOK, RunOK
  <2> SUFFICES ASSUME NEW u \in Tasks
               PROVE  (BlockOK(u) /\ HolderOK(u) /\ PassedOK(u))'
    BY DEF EdgesInv
  <2>2. BlockOK(u) /\ HolderOK(u) /\ PassedOK(u)
    BY DEF EdgesInv
  <2>3. BlockOK(u)'
    BY <2>1, <2>2 DEF BlockOK, HasSlot, Edge
  <2>4. HolderOK(u)'
    <3>1. \A v \in Tasks : run[v].pc = "edge_block" => run'[v] = run[v]
      BY <2>1
    <3>. QED
      BY <2>1, <2>2, <3>1 DEF HolderOK, Edge, TypeOK, EdgeOK
  <2>5. PassedOK(u)'
    BY <2>1, <2>2 DEF PassedOK, BeforeRunning
  <2>. QED
    BY <2>3, <2>4, <2>5
<1>9. CASE UNCHANGED <<run, edge>>
  BY <1>9 DEF EdgesInv, BlockOK, HolderOK, PassedOK, HasSlot, Edge
<1>10. ASSUME NEW t \in Tasks, PastEdges(t) PROVE EdgesInv'
  BY <1>10, PastEdgesKeeps
<1>. QED
  BY <1>1, <1>3, <1>4, <1>5, <1>6, <1>7, <1>8, <1>9, <1>10, PastEdgesSteps
  DEF Next, RunStep, WaitStep, AllReturned, vars, set_callable, WaitBegin,
        WaitLook, WaitBlock, WaitSpurious, WaitAnswer, get_result,
        is_retrievable, get_inward_edge_value

(* What a step leaves alone of the progress of a task. *)
SameProgress(u) ==
  /\ run'[u].pc = run[u].pc \/ {run[u].pc, run'[u].pc} \subseteq BeforeRunning
  /\ run'[u].number = run[u].number
  /\ task'[u].state_ = task[u].state_
  /\ task'[u].start_time_ = task[u].start_time_
  /\ task'[u].end_time_ = task[u].end_time_
  /\ edge'[u].is_retrievable_ = edge[u].is_retrievable_

(* Its progress is then still consistent. *)
LEMMA SameProgressKeeps ==
  ASSUME NEW u, ProgressOK(u), SameProgress(u)
  PROVE  ProgressOK(u)'
<1>1. CASE run'[u].pc = run[u].pc
  BY <1>1 DEF ProgressOK, SameProgress, HasDuration, Overwritten, Started, Timed, Marked
<1>2. CASE {run[u].pc, run'[u].pc} \subseteq BeforeRunning
  <2>1. ~Started(u) /\ ~Started(u)'
    BY <1>2 DEF BeforeRunning, Started, Timed, Marked
  <2>. QED
    BY <2>1 DEF ProgressOK, SameProgress, HasDuration, Overwritten, Started, Timed
<1>. QED
  BY <1>1, <1>2 DEF SameProgress

(* Every step keeps ProgressInv: it changes the progress of one task only. *)
LEMMA ProgressInvStep ==
  ASSUME TypeOK, ProgressInv, [Next]_vars
  PROVE  ProgressInv'
<1> DEFINE Only(t) == /\ ProgressOK(t)'
                      /\ \A u \in Tasks : u # t => SameProgress(u)
           All == \A u \in Tasks : SameProgress(u)
<1>1. ASSUME NEW t \in Tasks, Only(t) PROVE ProgressInv'
  BY <1>1, SameProgressKeeps DEF ProgressInv
<1>2. ASSUME All PROVE ProgressInv'
  BY <1>2, SameProgressKeeps DEF ProgressInv
<1>3. \A u \in Tasks : ProgressOK(u)
  BY DEF ProgressInv
<1> USE Shapes, Constants DEF TypeOK, TaskOK, EdgeOK, RunOK
<1>4. ASSUME NEW t \in Tasks, RunBegin(t) PROVE Only(t)
  <2>1. ProgressOK(t)'
    BY <1>4, <1>3 DEF RunBegin, Begin, NoArguments, ProgressOK,
          HasDuration, Overwritten, Started, Timed, Marked, Runs
  <2>2. \A u \in Tasks : u # t => SameProgress(u)
    BY <1>4 DEF RunBegin, Begin, NoArguments, SameProgress
  <2>. QED
    BY <2>1, <2>2
<1>5. ASSUME NEW t \in Tasks, RunAgain(t) PROVE Only(t)
  <2>1. ProgressOK(t)'
    BY <1>5, <1>3 DEF RunAgain, Begin, NoArguments, ProgressOK,
          HasDuration, Overwritten, Started, Timed, Marked, Runs
  <2>2. \A u \in Tasks : u # t => SameProgress(u)
    BY <1>5 DEF RunAgain, Begin, NoArguments, SameProgress
  <2>. QED
    BY <2>1, <2>2
<1>6. ASSUME NEW t \in Tasks, SetRunning(t) PROVE Only(t)
  <2>1. ProgressOK(t)'
    BY <1>6, <1>3 DEF SetRunning, ProgressOK, HasDuration, Overwritten, Started, Timed,
          Marked, Runs
  <2>2. \A u \in Tasks : u # t => SameProgress(u)
    BY <1>6 DEF SetRunning, SameProgress
  <2>. QED
    BY <2>1, <2>2
<1>7. ASSUME NEW t \in Tasks, Fetch(t) PROVE Only(t)
  <2>1. ProgressOK(t)'
    BY <1>7, <1>3 DEF Fetch, EdgeValue, ProgressOK, HasDuration, Overwritten, Started,
          Timed, Marked, Runs
  <2>2. \A u \in Tasks : u # t => SameProgress(u)
    BY <1>7 DEF Fetch, EdgeValue, SameProgress
  <2>. QED
    BY <2>1, <2>2
<1>8. ASSUME NEW t \in Tasks, Invoke(t) \/ StoreResult(t) PROVE Only(t)
  <2>1. ProgressOK(t)'
    <3>1. CASE Invoke(t)
      BY <3>1, <1>3 DEF Invoke, Go, ProgressOK, HasDuration, Overwritten,
            Started, Timed, Marked, Runs
    <3>2. CASE StoreResult(t)
      BY <3>2, <1>3 DEF StoreResult, Go, ProgressOK, HasDuration, Overwritten,
            Started, Timed, Marked, Runs
    <3>. QED
      BY <1>8, <3>1, <3>2
  <2>2. \A u \in Tasks : u # t => SameProgress(u)
    BY <1>8 DEF Invoke, StoreResult, Go, SameProgress
  <2>. QED
    BY <2>1, <2>2
<1>9. ASSUME NEW t \in Tasks, InvokeVoid(t) PROVE Only(t)
  <2>1. ProgressOK(t)'
    BY <1>9, <1>3 DEF InvokeVoid, Go, ProgressOK, HasDuration, Overwritten, Started,
          Timed, Marked, Runs
  <2>2. \A u \in Tasks : u # t => SameProgress(u)
    BY <1>9 DEF InvokeVoid, Go, SameProgress
  <2>. QED
    BY <2>1, <2>2
<1>10. ASSUME NEW t \in Tasks, Throw(t) PROVE Only(t)
  <2>1. ProgressOK(t)'
    BY <1>10, <1>3 DEF Throw, Go, ProgressOK, HasDuration, Overwritten, Started, Timed,
          Marked, Runs
  <2>2. \A u \in Tasks : u # t => SameProgress(u)
    BY <1>10 DEF Throw, Go, SameProgress
  <2>. QED
    BY <2>1, <2>2
<1>11. ASSUME NEW t \in Tasks, CallEmpty(t) PROVE Only(t)
  <2>1. ProgressOK(t)'
    BY <1>11, <1>3 DEF CallEmpty, Go, ProgressOK, HasDuration, Overwritten, Started,
          Timed, Marked, Runs
  <2>2. \A u \in Tasks : u # t => SameProgress(u)
    BY <1>11 DEF CallEmpty, Go, SameProgress
  <2>. QED
    BY <2>1, <2>2
<1>12. ASSUME NEW t \in Tasks, SetEndTime(t) PROVE Only(t)
  <2>1. ProgressOK(t)'
    BY <1>12, <1>3 DEF SetEndTime, Go, ProgressOK, HasDuration, Overwritten, Started,
          Timed, Marked, Runs
  <2>2. \A u \in Tasks : u # t => SameProgress(u)
    BY <1>12 DEF SetEndTime, Go, SameProgress
  <2>. QED
    BY <2>1, <2>2
<1>13. ASSUME NEW t \in Tasks, SetData(t) PROVE Only(t)
  <2>1. ProgressOK(t)'
    BY <1>13, <1>3 DEF SetData, Go, ProgressOK, HasDuration, Overwritten, Started,
          Timed, Marked, Runs
  <2>2. \A u \in Tasks : u # t => SameProgress(u)
    BY <1>13 DEF SetData, Go, SameProgress
  <2>. QED
    BY <2>1, <2>2
<1>14. ASSUME NEW t \in Tasks, StoreData(t) PROVE Only(t)
  <2>1. ProgressOK(t)'
    BY <1>14, <1>3 DEF StoreData, Go, ProgressOK, HasDuration, Overwritten, Started,
          Timed, Marked, Runs
  <2>2. \A u \in Tasks : u # t => SameProgress(u)
    BY <1>14 DEF StoreData, Go, SameProgress
  <2>. QED
    BY <2>1, <2>2
<1>15. ASSUME NEW t \in Tasks, SetDataVoid(t) PROVE Only(t)
  <2>1. ProgressOK(t)'
    BY <1>15, <1>3 DEF SetDataVoid, Go, ProgressOK, HasDuration, Overwritten, Started,
          Timed, Marked, Runs
  <2>2. \A u \in Tasks : u # t => SameProgress(u)
    BY <1>15 DEF SetDataVoid, Go, SameProgress
  <2>. QED
    BY <2>1, <2>2
<1>16. ASSUME NEW t \in Tasks, Mark(t) PROVE Only(t)
  <2>1. ProgressOK(t)'
    BY <1>16, <1>3 DEF Mark, Go, ProgressOK, HasDuration, Overwritten, Started, Timed,
          Marked, Runs
  <2>2. \A u \in Tasks : u # t => SameProgress(u)
    BY <1>16 DEF Mark, Go, SameProgress
  <2>. QED
    BY <2>1, <2>2
<1>17. ASSUME NEW t \in Tasks, NotifyAll(t) PROVE Only(t)
  <2>1. ProgressOK(t)'
    BY <1>17, <1>3 DEF NotifyAll, ProgressOK, HasDuration, Overwritten, Started, Timed,
          Marked, Runs
  <2>2. \A u \in Tasks : u # t => SameProgress(u)
    BY <1>17 DEF NotifyAll, SameProgress, EdgeSleepers, BeforeRunning
  <2>. QED
    BY <2>1, <2>2
<1>18. ASSUME NEW t \in Tasks, SetComplete(t) PROVE Only(t)
  <2>1. ProgressOK(t)'
    BY <1>18, <1>3 DEF SetComplete, Go, set_state, ProgressOK,
          HasDuration, Overwritten, Started, Timed, Marked, Runs
  <2>2. \A u \in Tasks : u # t => SameProgress(u)
    BY <1>18 DEF SetComplete, Go, set_state, SameProgress
  <2>. QED
    BY <2>1, <2>2
<1>19. ASSUME NEW t \in Tasks, NotifyOne(t) PROVE Only(t)
  <2>1. ProgressOK(t)'
    BY <1>19, <1>3 DEF NotifyOne, Go, OutsideGo, ProgressOK, HasDuration, Overwritten,
          Started, Timed, Marked, Runs
  <2>2. \A u \in Tasks : u # t => SameProgress(u)
    BY <1>19 DEF NotifyOne, Go, OutsideGo, SameProgress
  <2>. QED
    BY <2>1, <2>2
<1>20. ASSUME NEW t \in Tasks, EdgeSkip(t) PROVE All
  BY <1>20 DEF EdgeSkip, SameProgress, BeforeRunning
<1>21. ASSUME NEW t \in Tasks, EdgeLook(t) PROVE All
  <2>1. \/ run' = [run EXCEPT ![t].slot = @ + 1]
        \/ run' = [run EXCEPT ![t].pc = "edge_block"]
    BY <1>21 DEF EdgeLook
  <2>2. \A u \in Tasks :
          /\ run'[u].pc = run[u].pc \/ {run[u].pc, run'[u].pc} \subseteq BeforeRunning
          /\ run'[u].number = run[u].number
    <3>1. run[t].pc = "edge"
      BY <1>21 DEF EdgeLook
    <3>2. CASE run' = [run EXCEPT ![t].slot = @ + 1]
      BY <3>2
    <3>3. CASE run' = [run EXCEPT ![t].pc = "edge_block"]
      BY <3>1, <3>3 DEF BeforeRunning
    <3>. QED
      BY <2>1, <3>2, <3>3
  <2>3. UNCHANGED edge \/ edge' = [edge EXCEPT ![Edge(t)].mtx_ = t]
    BY <1>21 DEF EdgeLook
  <2>4. \A u \in Tasks : edge'[u].is_retrievable_ = edge[u].is_retrievable_
    BY <2>3
  <2>. QED
    BY <1>21, <2>2, <2>4 DEF EdgeLook, SameProgress
<1>22. ASSUME NEW t \in Tasks, EdgeBlock(t) PROVE All
  BY <1>22 DEF EdgeBlock, Go, SameProgress, BeforeRunning
<1>23. ASSUME NEW t \in Tasks, EdgeSpurious(t) PROVE All
  BY <1>23 DEF EdgeSpurious, Go, SameProgress, BeforeRunning
<1>24. ASSUME NEW t \in Tasks, set_callable(t) PROVE All
  BY <1>24 DEF set_callable, SameProgress
<1>25. ASSUME NEW w \in Waiters, WaitLook(w) PROVE All
  BY <1>25 DEF WaitLook, OutsideGo, get_state, SameProgress
<1>26. ASSUME NEW w \in Waiters, WaitBlock(w) PROVE All
  BY <1>26 DEF WaitBlock, OutsideGo, SameProgress
<1>27. ASSUME NEW w \in Waiters, WaitAnswer(w) PROVE All
  BY <1>27 DEF WaitAnswer, get_state, SameProgress
<1>28. ASSUME UNCHANGED <<task, edge, run>> PROVE All
  <2>1. task' = task /\ edge' = edge /\ run' = run
    BY <1>28
  <2> SUFFICES ASSUME NEW u \in Tasks PROVE SameProgress(u)
    OBVIOUS
  <2>. QED
    BY <2>1 DEF SameProgress
<1> HIDE DEF Only, All
<1>. QED
  BY <1>1, <1>2, <1>4, <1>5, <1>6, <1>7, <1>8, <1>9, <1>10, <1>11, <1>12,
        <1>13, <1>14, <1>15, <1>16, <1>17, <1>18, <1>19, <1>20, <1>21,
        <1>22, <1>23, <1>24, <1>25, <1>26, <1>27, <1>28
  DEF Next, RunStep, WaitStep, AllReturned, vars, WaitBegin, WaitSpurious,
        get_result, is_retrievable, get_inward_edge_value

(* Who a reader reads from. *)
LEMMA ReadFromTask ==
  ASSUME NEW r \in Readers
  PROVE  /\ ReadFrom(r) \in Tasks
         /\ Reads[r][1] \in Tasks /\ ReadFrom(r) \in DependsOn[Reads[r][1]]
<1>1. Reads[r][1] \in Tasks /\ Inputs[Reads[r][1]][Reads[r][2]] # None
      /\ Reads[r][2] \in DOMAIN Inputs[Reads[r][1]]
  BY TaskAssumption
<1>. QED
  BY <1>1, InputIsEdge DEF ReadFrom

(* The steps of the tasks that do not matter to those who wait for them. *)
SameWaits ==
  /\ outside' = outside
  /\ \A t \in Tasks :
       /\ task'[t].mtx_ = task[t].mtx_
       /\ task'[t].state_ = "Complete" => task[t].state_ = "Complete"
       /\ run[t].pc = "notify_one" => run'[t].pc = "notify_one"
       /\ edge[t].is_retrievable_ => edge'[t].is_retrievable_

(* They keep WaitsInv, ... *)
LEMMA SameWaitsKeeps ==
  ASSUME TypeOK, WaitsInv, SameWaits
  PROVE  WaitsInv'
<1>1. \A w \in Waiters : WaitsFor[w] \in Tasks
  BY Constants
<1>2. \A w \in Waiters : WaiterOK(w)'
  BY <1>1 DEF WaitsInv, WaiterOK, SameWaits, get_state
<1>3. \A t \in Tasks : OwnerOK(t)'
  BY DEF WaitsInv, OwnerOK, SameWaits
<1>4. \A r \in Readers : ReaderOK(r)'
  BY ReadFromTask DEF WaitsInv, ReaderOK, SameWaits, ReadFrom
<1>. QED
  BY <1>2, <1>3, <1>4 DEF WaitsInv

(* ... and are all but set the state Complete and notify. *)
LEMMA SameWaitsSteps ==
  ASSUME TypeOK, NEW t \in Tasks,
         \/ RunBegin(t) \/ RunAgain(t) \/ EdgeSkip(t) \/ EdgeLook(t)
         \/ EdgeBlock(t) \/ EdgeSpurious(t) \/ SetRunning(t) \/ Fetch(t)
         \/ Invoke(t) \/ StoreResult(t) \/ InvokeVoid(t) \/ Throw(t) \/ CallEmpty(t)
         \/ SetEndTime(t) \/ SetData(t) \/ StoreData(t) \/ SetDataVoid(t)
         \/ Mark(t) \/ NotifyAll(t) \/ set_callable(t)
  PROVE  SameWaits
<1> USE Shapes DEF TypeOK, TaskOK, EdgeOK, RunOK, SameWaits
<1>1. CASE RunBegin(t)
  BY <1>1 DEF RunBegin, Begin, NoArguments
<1>2. CASE RunAgain(t)
  BY <1>2 DEF RunAgain, Begin, NoArguments
<1>3. CASE EdgeSkip(t)
  BY <1>3 DEF EdgeSkip
<1>4. CASE EdgeLook(t)
  BY <1>4 DEF EdgeLook
<1>5. CASE EdgeBlock(t)
  BY <1>5 DEF EdgeBlock, Go
<1>6. CASE EdgeSpurious(t)
  BY <1>6 DEF EdgeSpurious, Go
<1>7. CASE SetRunning(t)
  BY <1>7 DEF SetRunning
<1>8. CASE Fetch(t)
  BY <1>8 DEF Fetch, EdgeValue
<1>9. CASE Invoke(t) \/ StoreResult(t)
  BY <1>9 DEF Invoke, StoreResult, Go
<1>10. CASE InvokeVoid(t)
  BY <1>10 DEF InvokeVoid, Go
<1>11. CASE Throw(t)
  BY <1>11 DEF Throw, Go
<1>12. CASE CallEmpty(t)
  BY <1>12 DEF CallEmpty, Go
<1>13. CASE SetEndTime(t)
  BY <1>13 DEF SetEndTime, Go
<1>14. CASE SetData(t)
  BY <1>14 DEF SetData, Go
<1>15. CASE StoreData(t)
  BY <1>15 DEF StoreData, Go
<1>16. CASE SetDataVoid(t)
  BY <1>16 DEF SetDataVoid, Go
<1>17. CASE Mark(t)
  BY <1>17 DEF Mark, Go
<1>18. CASE NotifyAll(t)
  BY <1>18 DEF NotifyAll, EdgeSleepers
<1>19. CASE set_callable(t)
  BY <1>19 DEF set_callable
<1>. QED
  BY <1>1, <1>2, <1>3, <1>4, <1>5, <1>6, <1>7, <1>8, <1>9, <1>10, <1>11,
        <1>12, <1>13, <1>14, <1>15, <1>16, <1>17, <1>18, <1>19

(* Every step keeps WaitsInv. *)
LEMMA WaitsInvStep ==
  ASSUME TypeOK, TypeOK', ProgressInv, WaitsInv, [Next]_vars
  PROVE  WaitsInv'
<1> USE Shapes, Constants
<1>1. \A w \in Waiters : WaitsFor[w] \in Tasks /\ WaiterOK(w)
  BY DEF WaitsInv
<1>2. \A t \in Tasks : OwnerOK(t)
  BY DEF WaitsInv
<1>3. \A r \in Readers : ReaderOK(r) /\ ReadFrom(r) \in Tasks
  BY ReadFromTask DEF WaitsInv
<1>4. ASSUME NEW t \in Tasks, SetComplete(t) PROVE WaitsInv'
  <2>1. /\ outside' = outside /\ edge' = edge
        /\ run'[t].pc = "notify_one"
        /\ \A u \in Tasks : /\ u # t => run'[u] = run[u] /\ task'[u] = task[u]
                           /\ task'[u].mtx_ = task[u].mtx_
    BY <1>4 DEF SetComplete, Go, set_state, TypeOK, TaskOK, RunOK
  <2>2. \A w \in Waiters : WaiterOK(w)'
    BY <1>1, <2>1 DEF WaiterOK, get_state
  <2>3. \A u \in Tasks : OwnerOK(u)'
    BY <1>2, <2>1 DEF OwnerOK
  <2>4. \A r \in Readers : ReaderOK(r)'
    BY <1>3, <2>1 DEF ReaderOK, ReadFrom
  <2>. QED
    BY <2>2, <2>3, <2>4 DEF WaitsInv
<1>5. ASSUME NEW t \in Tasks, NotifyOne(t) PROVE WaitsInv'
  <2>1. /\ edge' = edge /\ task' = task /\ task[t].mtx_ = None
        /\ \A u \in Tasks : u # t => run'[u] = run[u]
    BY <1>5 DEF NotifyOne, Go, TypeOK, RunOK
  <2>2. \A x \in Waiters \cup Readers : outside'[x] = outside[x] \/
          /\ x \in Waiters /\ outside[x].pc = "blocked" /\ WaitsFor[x] = t
          /\ outside'[x].pc = "enter"
    BY <1>5 DEF NotifyOne, OutsideGo, TaskSleepers, TypeOK, OutsideOK
  <2>3. ASSUME NEW w \in Waiters, WaitsFor[w] = t, OnlyWaiter(w), outside[w].pc = "blocked"
        PROVE  outside'[w].pc = "enter"
    <3>1. TaskSleepers(t) = {w}
      BY <2>3 DEF TaskSleepers, OnlyWaiter
    <3>. QED
      BY <1>5, <3>1 DEF NotifyOne, OutsideGo, TypeOK, OutsideOK
  <2>4. \A w \in Waiters : WaiterOK(w)'
    <3> SUFFICES ASSUME NEW w \in Waiters PROVE WaiterOK(w)'
      OBVIOUS
    <3>1. CASE WaitsFor[w] = t
      <4>1. outside[w].pc # "block"
        BY <1>1, <2>1, <3>1 DEF WaiterOK
      <4>. QED
        BY <1>1, <2>1, <2>2, <2>3, <3>1, <4>1 DEF WaiterOK, get_state,
              OnlyWaiter
    <3>2. CASE WaitsFor[w] # t
      BY <1>1, <2>1, <2>2, <3>2 DEF WaiterOK, get_state, OnlyWaiter
    <3>. QED
      BY <3>1, <3>2
  <2>5. \A u \in Tasks : OwnerOK(u)'
    BY <1>2, <2>1, <2>2 DEF OwnerOK, TypeOK, TaskOK
  <2>6. \A r \in Readers : ReaderOK(r)'
    BY <1>3, <2>1, <2>2 DEF ReaderOK, ReadFrom
  <2>. QED
    BY <2>4, <2>5, <2>6 DEF WaitsInv
<1>6. ASSUME NEW w \in Waiters, WaitLook(w) PROVE WaitsInv'
  <2> DEFINE p == WaitsFor[w]
  <2>1. /\ edge' = edge /\ run' = run /\ task[p].mtx_ = None
        /\ task'[p].mtx_ = w
        /\ \A u \in Tasks : u # p => task'[u] = task[u]
        /\ \A u \in Tasks : task'[u].state_ = task[u].state_
    BY <1>1, <1>6 DEF WaitLook, TypeOK, TaskOK
  <2>2. /\ \A x \in Waiters \cup Readers : x # w => outside'[x] = outside[x]
        /\ \/ outside'[w].pc = "answer" /\ task[p].state_ = "Complete"
           \/ outside'[w].pc = "block" /\ task[p].state_ # "Complete"
    BY <1>6 DEF WaitLook, OutsideGo, get_state, TypeOK, OutsideOK
  <2>3. task[p].state_ = "Complete" => edge[p].is_retrievable_
    BY <1>1 DEF ProgressInv, ProgressOK
  <2>4. \A v \in Waiters : WaiterOK(v)'
    <3> SUFFICES ASSUME NEW v \in Waiters PROVE WaiterOK(v)'
      OBVIOUS
    <3>1. CASE v = w
      BY <1>1, <2>1, <2>2, <2>3, <3>1 DEF WaiterOK, get_state, OnlyWaiter
    <3>2. CASE v # w
      BY <1>1, <2>1, <2>2, <3>2 DEF WaiterOK, get_state, OnlyWaiter
    <3>. QED
      BY <3>1, <3>2
  <2>5. \A u \in Tasks : OwnerOK(u)'
    <3> SUFFICES ASSUME NEW u \in Tasks PROVE OwnerOK(u)'
      OBVIOUS
    <3>1. CASE u = p
      BY <2>1, <2>2, <3>1 DEF OwnerOK
    <3>2. CASE u # p
      <4>1. task[u].mtx_ # None => task[u].mtx_ # w /\ task[u].mtx_ \in Waiters
        BY <1>2, <3>2 DEF OwnerOK, TypeOK, TaskOK
      <4>. QED
        BY <1>2, <2>1, <2>2, <3>2, <4>1 DEF OwnerOK
    <3>. QED
      BY <3>1, <3>2
  <2>6. \A r \in Readers : ReaderOK(r)'
    BY <1>3, <2>1, <2>2 DEF ReaderOK, ReadFrom
  <2>. QED
    BY <2>4, <2>5, <2>6 DEF WaitsInv
<1>7. ASSUME NEW w \in Waiters, WaitBlock(w) PROVE WaitsInv'
  <2> DEFINE p == WaitsFor[w]
  <2>1. /\ edge' = edge /\ run' = run /\ outside[w].pc = "block"
        /\ task'[p].mtx_ = None
        /\ \A u \in Tasks : u # p => task'[u] = task[u]
        /\ \A u \in Tasks : task'[u].state_ = task[u].state_
    BY <1>1, <1>7 DEF WaitBlock, OutsideGo, TypeOK, TaskOK
  <2>2. /\ \A x \in Waiters \cup Readers : x # w => outside'[x] = outside[x]
        /\ outside'[w].pc = "blocked"
    BY <1>7 DEF WaitBlock, OutsideGo, TypeOK, OutsideOK
  <2>3. task[p].mtx_ = w
    BY <1>1, <2>1 DEF WaiterOK
  <2>4. \A v \in Waiters : WaiterOK(v)'
    <3> SUFFICES ASSUME NEW v \in Waiters PROVE WaiterOK(v)'
      OBVIOUS
    <3>1. CASE v = w
      BY <1>1, <2>1, <2>2, <3>1 DEF WaiterOK, get_state, OnlyWaiter
    <3>2. CASE v # w
      BY <1>1, <2>1, <2>2, <2>3, <3>2 DEF WaiterOK, get_state, OnlyWaiter
    <3>. QED
      BY <3>1, <3>2
  <2>5. \A u \in Tasks : OwnerOK(u)'
    <3> SUFFICES ASSUME NEW u \in Tasks PROVE OwnerOK(u)'
      OBVIOUS
    <3>1. CASE u = p
      BY <2>1, <3>1 DEF OwnerOK
    <3>2. CASE u # p
      <4>1. task[u].mtx_ # None => task[u].mtx_ # w /\ task[u].mtx_ \in Waiters
        BY <1>2, <3>2 DEF OwnerOK, TypeOK, TaskOK
      <4>. QED
        BY <1>2, <2>1, <2>2, <3>2, <4>1 DEF OwnerOK
    <3>. QED
      BY <3>1, <3>2
  <2>6. \A r \in Readers : ReaderOK(r)'
    BY <1>3, <2>1, <2>2 DEF ReaderOK, ReadFrom
  <2>. QED
    BY <2>4, <2>5, <2>6 DEF WaitsInv
<1>8. ASSUME NEW w \in Waiters, WaitAnswer(w) PROVE WaitsInv'
  <2> DEFINE p == WaitsFor[w]
  <2>1. /\ edge' = edge /\ run' = run /\ outside[w].pc = "answer"
        /\ task'[p].mtx_ = None
        /\ \A u \in Tasks : u # p => task'[u] = task[u]
        /\ \A u \in Tasks : task'[u].state_ = task[u].state_
    BY <1>1, <1>8 DEF WaitAnswer, OutsideGo, TypeOK, TaskOK
  <2>2. /\ \A x \in Waiters \cup Readers : x # w => outside'[x] = outside[x]
        /\ outside'[w].pc = "read"
    BY <1>8 DEF WaitAnswer, OutsideGo, TypeOK, OutsideOK
  <2>3. task[p].mtx_ = w
    BY <1>1, <2>1 DEF WaiterOK
  <2>4. \A v \in Waiters : WaiterOK(v)'
    <3> SUFFICES ASSUME NEW v \in Waiters PROVE WaiterOK(v)'
      OBVIOUS
    <3>1. CASE v = w
      BY <1>1, <2>1, <2>2, <3>1 DEF WaiterOK, get_state, OnlyWaiter
    <3>2. CASE v # w
      BY <1>1, <2>1, <2>2, <2>3, <3>2 DEF WaiterOK, get_state, OnlyWaiter
    <3>. QED
      BY <3>1, <3>2
  <2>5. \A u \in Tasks : OwnerOK(u)'
    <3> SUFFICES ASSUME NEW u \in Tasks PROVE OwnerOK(u)'
      OBVIOUS
    <3>1. CASE u = p
      BY <2>1, <3>1 DEF OwnerOK
    <3>2. CASE u # p
      <4>1. task[u].mtx_ # None => task[u].mtx_ # w /\ task[u].mtx_ \in Waiters
        BY <1>2, <3>2 DEF OwnerOK, TypeOK, TaskOK
      <4>. QED
        BY <1>2, <2>1, <2>2, <3>2, <4>1 DEF OwnerOK
    <3>. QED
      BY <3>1, <3>2
  <2>6. \A r \in Readers : ReaderOK(r)'
    BY <1>3, <2>1, <2>2 DEF ReaderOK, ReadFrom
  <2>. QED
    BY <2>4, <2>5, <2>6 DEF WaitsInv
<1>9. ASSUME UNCHANGED <<task, edge, run>>, NEW w \in Waiters,
             \A x \in Waiters \cup Readers : x # w => outside'[x] = outside[x],
             \/ outside[w].pc \in {"idle", "blocked"} /\ outside'[w].pc = "enter"
             \/ outside[w].pc = "read" /\ outside'[w].pc = "returned"
      PROVE  WaitsInv'
  <2>1. \A v \in Waiters : WaiterOK(v)'
    <3> SUFFICES ASSUME NEW v \in Waiters PROVE WaiterOK(v)'
      OBVIOUS
    <3>. QED
      BY <1>1, <1>9 DEF WaiterOK, get_state, OnlyWaiter
  <2>2. \A u \in Tasks : OwnerOK(u)'
    <3> SUFFICES ASSUME NEW u \in Tasks PROVE OwnerOK(u)'
      OBVIOUS
    <3>. QED
      BY <1>2, <1>9 DEF OwnerOK, TypeOK, TaskOK
  <2>3. \A r \in Readers : ReaderOK(r)'
    BY <1>3, <1>9 DEF ReaderOK, ReadFrom
  <2>. QED
    BY <2>1, <2>2, <2>3 DEF WaitsInv
<1>10. ASSUME NEW w \in Waiters, WaitBegin(w) \/ WaitSpurious(w) \/ get_result(w)
       PROVE  WaitsInv'
  BY <1>9, <1>10
  DEF WaitBegin, WaitSpurious, get_result, OutsideGo, TypeOK, OutsideOK
<1>11. ASSUME NEW r \in Readers, is_retrievable(r) \/ get_inward_edge_value(r)
       PROVE  WaitsInv'
  <2>1. /\ UNCHANGED <<task, edge, run>>
        /\ \A x \in Waiters \cup Readers : x # r => outside'[x] = outside[x]
        /\ edge[ReadFrom(r)].is_retrievable_ \/ outside[r].pc = "read"
    BY <1>11
    DEF is_retrievable, get_inward_edge_value, OutsideGo, TypeOK, OutsideOK
  <2>2. \A v \in Waiters : WaiterOK(v)'
    BY <1>1, <2>1 DEF WaiterOK, get_state, OnlyWaiter
  <2>3. \A u \in Tasks : OwnerOK(u)'
    BY <1>2, <2>1 DEF OwnerOK, TypeOK, TaskOK
  <2>4. \A x \in Readers : ReaderOK(x)'
    BY <1>3, <2>1 DEF ReaderOK, ReadFrom
  <2>. QED
    BY <2>2, <2>3, <2>4 DEF WaitsInv
<1>12. ASSUME SameWaits PROVE WaitsInv'
  BY <1>12, SameWaitsKeeps
<1>13. CASE UNCHANGED vars
  BY <1>12, <1>13 DEF SameWaits, vars
<1>. QED
  BY <1>4, <1>5, <1>6, <1>7, <1>8, <1>10, <1>11, <1>12, <1>13, SameWaitsSteps
  DEF Next, RunStep, WaitStep, AllReturned

(* The edge phase of run() sets no flag, and puts none to sleep on an edge  *)
(* that has its flag set.                                                  *)
AtEdges(t) ==
  /\ \A p \in Tasks : edge'[p].is_retrievable_ = edge[p].is_retrievable_
  /\ \A u \in Tasks : u # t => run'[u] = run[u]
  /\ run[t].pc # "notify_all"
  /\ run'[t].pc = "edge_blocked" =>
       Edge(t)' = Edge(t) /\ Edge(t) \in Tasks /\ ~edge[Edge(t)].is_retrievable_

(* These are its steps. *)
LEMMA AtEdgesSteps ==
  ASSUME TypeOK, EdgesInv, NEW t \in Tasks,
         \/ RunBegin(t) \/ RunAgain(t) \/ EdgeSkip(t) \/ EdgeLook(t)
         \/ EdgeBlock(t) \/ EdgeSpurious(t) \/ SetRunning(t)
  PROVE  AtEdges(t)
<1> USE Shapes DEF TypeOK, EdgeOK, RunOK
<1>1. CASE RunBegin(t) \/ RunAgain(t)
  BY <1>1 DEF RunBegin, RunAgain, Begin, AtEdges
<1>2. CASE EdgeSkip(t)
  BY <1>2 DEF EdgeSkip, AtEdges
<1>3. CASE EdgeLook(t)
  <2>1. /\ run[t].pc = "edge"
        /\ \/ run' = [run EXCEPT ![t].slot = @ + 1]
           \/ run' = [run EXCEPT ![t].pc = "edge_block"]
    BY <1>3 DEF EdgeLook
  <2>2. UNCHANGED edge \/ edge' = [edge EXCEPT ![Edge(t)].mtx_ = t]
    BY <1>3 DEF EdgeLook
  <2>3. \A p \in Tasks : edge'[p].is_retrievable_ = edge[p].is_retrievable_
    BY <2>2
  <2>4. \A u \in Tasks : u # t => run'[u] = run[u]
    BY <2>1
  <2>5. run'[t].pc # "edge_blocked"
    BY <2>1
  <2>. QED
    BY <2>1, <2>3, <2>4, <2>5 DEF AtEdges
<1>4. CASE EdgeBlock(t)
  <2>1. run[t].pc = "edge_block"
    BY <1>4 DEF EdgeBlock, Go
  <2>2. Edge(t) \in Tasks /\ ~edge[Edge(t)].is_retrievable_
    BY <2>1, InputIsEdge DEF HasSlot, Edge, EdgesInv, BlockOK
  <2>3. run'[t].slot = run[t].slot
    BY <1>4 DEF EdgeBlock, Go
  <2>. QED
    BY <1>4, <2>2, <2>3 DEF EdgeBlock, Go, AtEdges, Edge
<1>5. CASE EdgeSpurious(t)
  BY <1>5 DEF EdgeSpurious, Go, AtEdges
<1>6. CASE SetRunning(t)
  BY <1>6 DEF SetRunning, AtEdges
<1>. QED
  BY <1>1, <1>2, <1>3, <1>4, <1>5, <1>6

(* Every step keeps SleepersInv: the flag is set by a step that goes to     *)
(* notify_all, and left by one that wakes all the sleepers.                *)
LEMMA SleepersInvStep ==
  ASSUME TypeOK, EdgesInv, SleepersInv, [Next]_vars
  PROVE  SleepersInv'
<1> USE Shapes
<1>1. \A u \in Tasks : SleeperOK(u)
  BY DEF SleepersInv
<1>2. ASSUME NEW u \in Tasks, run[u].pc = "edge_blocked" PROVE Edge(u) \in Tasks
  BY <1>2, InputIsEdge DEF EdgesInv, BlockOK, Edge, HasSlot, TypeOK, RunOK
<1>3. ASSUME NEW t \in Tasks, AtEdges(t) PROVE SleepersInv'
  <2> SUFFICES ASSUME NEW u \in Tasks PROVE SleeperOK(u)'
    BY DEF SleepersInv
  <2>1. CASE u = t
    BY <1>3, <2>1 DEF SleeperOK, AtEdges
  <2>2. CASE u # t
    BY <1>1, <1>2, <1>3, <2>2 DEF SleeperOK, AtEdges, Edge
  <2>. QED
    BY <2>1, <2>2
<1>4. ASSUME NEW t \in Tasks, PastEdges(t) PROVE SleepersInv'
  <2> SUFFICES ASSUME NEW u \in Tasks PROVE SleeperOK(u)'
    BY DEF SleepersInv
  <2>1. CASE u = t
    BY <1>4, <2>1 DEF SleeperOK, PastEdges, BeforeRunning
  <2>2. CASE u # t
    BY <1>1, <1>2, <1>4, <2>2 DEF SleeperOK, PastEdges, Edge
  <2>. QED
    BY <2>1, <2>2
<1>5. ASSUME NEW t \in Tasks, NotifyAll(t) PROVE SleepersInv'
  <2>1. /\ UNCHANGED edge /\ run[t].pc = "notify_all"
        /\ \A u \in Tasks : u # t =>
             IF run[u].pc = "edge_blocked" /\ Edge(u) = t THEN run'[u].pc = "edge"
             ELSE run'[u] = run[u]
        /\ run'[t].pc = "complete"
    BY <1>5 DEF NotifyAll, EdgeSleepers, TypeOK, RunOK
  <2> SUFFICES ASSUME NEW u \in Tasks, run'[u].pc = "edge_blocked",
                      edge'[Edge(u)'].is_retrievable_
               PROVE  run'[Edge(u)'].pc = "notify_all"
    BY DEF SleepersInv, SleeperOK
  <2>2. u # t /\ run'[u] = run[u]
    BY <2>1
  <2>3. run[u].pc = "edge_blocked" /\ Edge(u)' = Edge(u) /\ Edge(u) # t
    BY <2>1, <2>2 DEF Edge
  <2>4. run[Edge(u)].pc = "notify_all" /\ Edge(u) \in Tasks
    BY <1>1, <1>2, <2>1, <2>3 DEF SleeperOK
  <2>. QED
    BY <2>1, <2>3, <2>4
<1>6. CASE UNCHANGED <<run, edge>>
  BY <1>1, <1>6 DEF SleepersInv, SleeperOK, Edge
<1>. QED
  BY <1>3, <1>4, <1>5, <1>6, AtEdgesSteps, PastEdgesSteps
  DEF Next, RunStep, WaitStep, AllReturned, vars, set_callable, WaitBegin,
        WaitLook, WaitBlock, WaitSpurious, WaitAnswer, get_result,
        is_retrievable, get_inward_edge_value

(* The initial state has all the parts of the invariant. *)
LEMMA InitTaskInv == Init => TypeOK /\ EdgesInv /\ SleepersInv /\ WaitsInv /\ ProgressInv
<1> SUFFICES ASSUME Init
             PROVE  TypeOK /\ EdgesInv /\ SleepersInv /\ WaitsInv /\ ProgressInv
  OBVIOUS
<1> USE Constants DEF Init
<1>1. TypeOK
  <2>1. \A t \in Tasks : TaskOK(t)
    <3> SUFFICES ASSUME NEW t \in Tasks PROVE TaskOK(t)
      OBVIOUS
    <3>1. task[t] = NewTask(t) /\ 0 \in Runs
      BY DEF Runs
    <3>2. /\ NewTask(t).state_ = "Incomplete" /\ NewTask(t).mtx_ = None
          /\ NewTask(t).start_time_ = 0 /\ NewTask(t).end_time_ = 0
      BY DEF NewTask, InitialState
    <3>3. NewTask(t).callable_ = (t \notin NotSet)
      BY Zenon DEF NewTask
    <3>. QED
      BY <3>1, <3>2, <3>3 DEF TaskOK
  <2>2. \A t \in Tasks : EdgeOK(t)
    BY DEF EdgeOK, NewEdge
  <2>3. \A t \in Tasks : RunOK(t)
    <3>1. 0 \in Runs /\ <<>> \in Seq(Range(<<>>))
      BY ArgsAppend DEF Runs
    <3>2. \A t \in Tasks : 1 \in 1 .. Len(Inputs[t]) + 1
      BY InputIsEdge
    <3>. QED
      BY <3>1, <3>2 DEF RunOK, NewRun, RunStates
  <2>4. \A x \in Waiters \cup Readers : OutsideOK(x)
    BY DEF OutsideOK, NewOutside, OutsideStates
  <2>. QED
    BY <2>1, <2>2, <2>3, <2>4 DEF TypeOK
<1>2. EdgesInv
  BY DEF EdgesInv, BlockOK, HolderOK, PassedOK, BeforeRunning, NewRun, NewEdge
<1>3. SleepersInv
  BY DEF SleepersInv, SleeperOK, NewRun
<1>4. WaitsInv
  BY DEF WaitsInv, WaiterOK, OwnerOK, ReaderOK, NewOutside, NewTask
<1>5. ProgressInv
  BY DEF ProgressInv, ProgressOK, Overwritten, Started, Timed, Marked, NewRun, NewEdge,
        NewTask, InitialState
<1>. QED
  BY <1>1, <1>2, <1>3, <1>4, <1>5

(* The types and what is true of the mutexes, the sleepers, the waiters and *)
(* the progress of each run, in every reachable state.                     *)
THEOREM TaskProtocol ==
  Spec => [](TypeOK /\ EdgesInv /\ SleepersInv /\ WaitsInv /\ ProgressInv)
<1>1. /\ TypeOK /\ EdgesInv /\ SleepersInv /\ WaitsInv /\ ProgressInv
      /\ [Next]_vars
      => (TypeOK /\ EdgesInv /\ SleepersInv /\ WaitsInv /\ ProgressInv)'
  BY TypeOKStep, EdgesInvStep, SleepersInvStep, WaitsInvStep, ProgressInvStep
<1>. QED
  BY <1>1, InitTaskInv, PTL DEF Spec

(* run() notifies whoever sleeps: the flag is stored under the mutex of the *)
(* edge and the lock guard in front of notify_one waits for a waiter that   *)
(* has seen the old state.                                                 *)
THEOREM NoWakeupOfATaskIsLost == Spec => []NoLostWakeup
<1>1. TypeOK /\ SleepersInv /\ WaitsInv => NoLostWakeup
  <2> SUFFICES ASSUME TypeOK, SleepersInv, WaitsInv, NEW t \in Tasks
               PROVE  /\ EdgeSleepers(t) # {} /\ edge[t].is_retrievable_ =>
                           run[t].pc = "notify_all"
                      /\ task[t].state_ = "Complete"
                           /\ (\E w \in TaskSleepers(t) : OnlyWaiter(w)) =>
                             run[t].pc = "notify_one"
    BY DEF NoLostWakeup
  <2>1. ASSUME NEW u \in EdgeSleepers(t), edge[t].is_retrievable_
        PROVE  run[t].pc = "notify_all"
    BY <2>1 DEF EdgeSleepers, SleepersInv, SleeperOK
  <2>2. ASSUME NEW w \in TaskSleepers(t), OnlyWaiter(w), task[t].state_ = "Complete"
        PROVE  run[t].pc = "notify_one"
    BY <2>2 DEF TaskSleepers, WaitsInv, WaiterOK, get_state
  <2>. QED
    BY <2>1, <2>2
<1>. QED
  BY <1>1, TaskProtocol, PTL

(* get_duration of a complete task, and of one that a callable depends on, *)
(* is the duration of one run.                                             *)
THEOREM DurationIsOfOneRun == Spec => []DurationsAreKnown
<1>1. TypeOK /\ EdgesInv /\ ProgressInv => DurationsAreKnown
  <2> SUFFICES ASSUME TypeOK, EdgesInv, ProgressInv PROVE DurationsAreKnown
    OBVIOUS
  <2>1. \A t \in Tasks : get_state(t) = "Complete" => HasDuration(t)
    BY DEF ProgressInv, ProgressOK, get_state
  <2>2. ASSUME NEW t \in Tasks, run[t].pc = "fetch",
               NEW p \in DependsOn[t] \ RerunFinished
        PROVE  HasDuration(p)
    <3>1. p \in Tasks /\ edge[p].is_retrievable_
      BY <2>2, InputIsEdge DEF EdgesInv, PassedOK, BeforeRunning
    <3>2. Marked(p)
      BY <2>2, <3>1 DEF ProgressInv, ProgressOK, Overwritten
    <3>3. task[p].start_time_ = run[p].number /\ task[p].end_time_ = run[p].number
      BY <3>1, <3>2 DEF ProgressInv, ProgressOK, Started, Timed
    <3>4. run[p].number # 0
      BY <3>1, <3>2 DEF TypeOK, RunOK, Marked
    <3>. QED
      BY <3>3, <3>4 DEF HasDuration
  <2>. QED
    BY <2>1, <2>2 DEF DurationsAreKnown
<1>. QED
  BY <1>1, TaskProtocol, PTL

(* The status of a task by which Task implements Dataflow: every step      *)
(* changes that of one task or of none.                                    *)
SameStatus(u) == StatusOf(u)' = StatusOf(u)

(* What the steps of a thread make of the status of its task. *)
LEMMA StatusSteps ==
  ASSUME TypeOK, EdgesInv, [Next]_vars
  PROVE  \/ \A u \in Tasks : SameStatus(u)
         \/ \E t \in Tasks :
              /\ \A u \in Tasks : u # t => SameStatus(u)
              /\ \/ /\ StatusOf(t) = "Incomplete" /\ StatusOf(t)' = "Running"
                    /\ \A p \in DependsOn[t] : StatusOf(p) = "Complete"
                 \/ StatusOf(t) = "Running" /\ StatusOf(t)' = "Complete"
                 \/ StatusOf(t) = "Running" /\ StatusOf(t)' = "Incomplete"
<1> DEFINE All == \A u \in Tasks : SameStatus(u)
           One(t) == /\ \A u \in Tasks : u # t => SameStatus(u)
                     /\ \/ /\ StatusOf(t) = "Incomplete" /\ StatusOf(t)' = "Running"
                           /\ \A p \in DependsOn[t] : StatusOf(p) = "Complete"
                        \/ StatusOf(t) = "Running" /\ StatusOf(t)' = "Complete"
                        \/ StatusOf(t) = "Running" /\ StatusOf(t)' = "Incomplete"
<1> SUFFICES All \/ \E t \in Tasks : One(t)
  OBVIOUS
<1> USE Shapes DEF TypeOK, RunOK, EdgeOK, SameStatus, StatusOf
<1>1. ASSUME NEW t \in Tasks, RunBegin(t) PROVE All
  BY <1>1 DEF RunBegin, Begin, NoArguments
<1>2. ASSUME NEW t \in Tasks, RunAgain(t) PROVE All
  BY <1>2 DEF RunAgain, Begin, NoArguments
<1>3. ASSUME NEW t \in Tasks, EdgeSkip(t) PROVE All
  BY <1>3 DEF EdgeSkip
<1>4. ASSUME NEW t \in Tasks, EdgeBlock(t) PROVE All
  BY <1>4 DEF EdgeBlock, Go
<1>5. ASSUME NEW t \in Tasks, EdgeSpurious(t) PROVE All
  BY <1>5 DEF EdgeSpurious, Go
<1>6. ASSUME NEW t \in Tasks, Fetch(t) PROVE All
  BY <1>6 DEF Fetch, EdgeValue
<1>7. ASSUME NEW t \in Tasks, Invoke(t) \/ StoreResult(t) PROVE All
  BY <1>7 DEF Invoke, StoreResult, Go
<1>8. ASSUME NEW t \in Tasks, InvokeVoid(t) PROVE All
  BY <1>8 DEF InvokeVoid, Go
<1>9. ASSUME NEW t \in Tasks, SetEndTime(t) PROVE All
  BY <1>9 DEF SetEndTime, Go
<1>10. ASSUME NEW t \in Tasks, SetData(t) PROVE All
  BY <1>10 DEF SetData, Go
<1>11. ASSUME NEW t \in Tasks, StoreData(t) PROVE All
  BY <1>11 DEF StoreData, Go
<1>12. ASSUME NEW t \in Tasks, SetDataVoid(t) PROVE All
  BY <1>12 DEF SetDataVoid, Go
<1>13. ASSUME NEW t \in Tasks, NotifyAll(t) PROVE All
  BY <1>13 DEF NotifyAll, EdgeSleepers
<1>14. ASSUME NEW t \in Tasks, SetComplete(t) PROVE All
  BY <1>14 DEF SetComplete, Go, set_state
<1>15. ASSUME NEW t \in Tasks, NotifyOne(t) PROVE All
  BY <1>15 DEF NotifyOne, Go, OutsideGo
<1>16. ASSUME NEW t \in Tasks, EdgeLook(t) PROVE All
  <2>1. /\ run[t].pc = "edge"
        /\ \/ run' = [run EXCEPT ![t].slot = @ + 1]
           \/ run' = [run EXCEPT ![t].pc = "edge_block"]
    BY <1>16 DEF EdgeLook
  <2>2. UNCHANGED edge \/ edge' = [edge EXCEPT ![Edge(t)].mtx_ = t]
    BY <1>16 DEF EdgeLook
  <2>3. \A p \in Tasks : edge'[p].is_retrievable_ = edge[p].is_retrievable_
    BY <2>2
  <2>4. \A u \in Tasks :
          run'[u].pc = run[u].pc \/ {run[u].pc, run'[u].pc} \subseteq BeforeRunning
    <3>1. CASE run' = [run EXCEPT ![t].slot = @ + 1]
      BY <3>1
    <3>2. CASE run' = [run EXCEPT ![t].pc = "edge_block"]
      BY <2>1, <3>2 DEF BeforeRunning
    <3>. QED
      BY <2>1, <3>1, <3>2
  <2>. QED
    BY <2>3, <2>4 DEF BeforeRunning
<1>17. ASSUME NEW t \in Tasks, SetRunning(t) PROVE All \/ One(t)
  <2>1. /\ run[t].pc = "edge" /\ ~HasSlot(t) /\ UNCHANGED edge
        /\ run'[t].pc = "fetch"
        /\ \A u \in Tasks : u # t => run'[u] = run[u]
    BY <1>17 DEF SetRunning
  <2>2. run[t].slot - 1 = Len(Inputs[t])
    BY <2>1, InputIsEdge DEF HasSlot
  <2>3. \A i \in 1 .. Len(Inputs[t]) :
          Inputs[t][i] # None => edge[Inputs[t][i]].is_retrievable_
    BY <2>1, <2>2 DEF EdgesInv, PassedOK, BeforeRunning
  <2>4. \A p \in DependsOn[t] : edge[p].is_retrievable_
    <3> SUFFICES ASSUME NEW p \in DependsOn[t] PROVE edge[p].is_retrievable_
      OBVIOUS
    <3>1. PICK i \in 1 .. Len(Inputs[t]) : Inputs[t][i] = p
      BY InputIsEdge
    <3>2. p # None
      BY InputIsEdge, Constants
    <3>. QED
      BY <2>3, <3>1, <3>2
  <2>5. CASE edge[t].is_retrievable_
    BY <2>1, <2>5
  <2>6. CASE ~edge[t].is_retrievable_
    BY <2>1, <2>4, <2>6
  <2>. QED
    BY <2>5, <2>6
<1>18. ASSUME NEW t \in Tasks, Throw(t) PROVE All \/ One(t)
  BY <1>18 DEF Throw, Go
<1>19. ASSUME NEW t \in Tasks, CallEmpty(t) PROVE All \/ One(t)
  BY <1>19 DEF CallEmpty, Go
<1>20. ASSUME NEW t \in Tasks, Mark(t) PROVE All \/ One(t)
  BY <1>20 DEF Mark, Go
<1>21. CASE UNCHANGED <<run, edge>>
  BY <1>21
<1> HIDE DEF All, One
<1>. QED
  BY <1>1, <1>2, <1>3, <1>4, <1>5, <1>6, <1>7, <1>8, <1>9, <1>10, <1>11,
        <1>12, <1>13, <1>14, <1>15, <1>16, <1>17, <1>18, <1>19, <1>20, <1>21
  DEF Next, RunStep, WaitStep, AllReturned, vars, set_callable, WaitBegin,
        WaitLook, WaitBlock, WaitSpurious, WaitAnswer, get_result,
        is_retrievable, get_inward_edge_value

(* Task implements Dataflow: no run starts before everything it depends on *)
(* is published, and none is unpublished again.                            *)
THEOREM TaskImplementsDataflow == Spec => ImplementsDataflow
<1>1. Init => DF!Init
  BY DEF Init, DF!Init, StatusOf, NewEdge, NewRun
<1>2. TypeOK /\ EdgesInv /\ [Next]_vars => [DF!Next]_([t \in Tasks |-> StatusOf(t)])
  <2> SUFFICES ASSUME TypeOK, EdgesInv, [Next]_vars
               PROVE  [DF!Next]_([t \in Tasks |-> StatusOf(t)])
    OBVIOUS
  <2> DEFINE status == [t \in Tasks |-> StatusOf(t)]
  <2>1. CASE \A u \in Tasks : SameStatus(u)
    <3>1. status' = status
      BY <2>1 DEF SameStatus
    <3>. QED
      BY <3>1
  <2>2. ASSUME NEW t \in Tasks, \A u \in Tasks : u # t => SameStatus(u),
               \/ /\ StatusOf(t) = "Incomplete" /\ StatusOf(t)' = "Running"
                  /\ \A p \in DependsOn[t] : StatusOf(p) = "Complete"
               \/ StatusOf(t) = "Running" /\ StatusOf(t)' = "Complete"
               \/ StatusOf(t) = "Running" /\ StatusOf(t)' = "Incomplete"
        PROVE  DF!Next
    <3>1. status' = [status EXCEPT ![t] = StatusOf(t)']
      BY <2>2 DEF SameStatus
    <3>2. \A p \in Tasks : status[p] = StatusOf(p)
      OBVIOUS
    <3>3. DependsOn[t] \subseteq Tasks
      BY InputIsEdge
    <3>4. DF!Start(t) \/ DF!Finish(t) \/ DF!Fail(t)
      BY <2>2, <3>1, <3>2, <3>3 DEF DF!Start, DF!Finish, DF!Fail
    <3>. QED
      BY <3>4 DEF DF!Next
  <2> HIDE DEF status
  <2>. QED
    BY <2>1, <2>2, StatusSteps
<1>. QED
  BY <1>1, <1>2, TaskProtocol, PTL DEF Spec, ImplementsDataflow, DF!Spec

(* What the definitions of Arguments and Value say, with f for the function *)
(* they define.                                                            *)
NextArguments(value, t, f, n) ==
  IF n = 0 THEN <<>>
  ELSE IF Inputs[t][n] \in VoidTasks THEN f[n - 1]
  ELSE Append(f[n - 1], IF Inputs[t][n] = None THEN None ELSE value[Inputs[t][n]])
ValueOf(f, t) ==
  IF t \in VoidTasks THEN None ELSE <<t, Arguments(f, t)[Len(Inputs[t])]>>

(* Arguments is well defined: by induction on the number of the slot. *)
LEMMA ArgumentsExist ==
  ASSUME NEW t \in Tasks, NEW value
  PROVE  \E f : f = [n \in 0 .. Len(Inputs[t]) |-> NextArguments(value, t, f, n)]
<1> DEFINE N == Len(Inputs[t])
<1>1. N \in Nat
  BY InputIsEdge
<1> HIDE DEF N
<1> DEFINE Good(f, m) == \A n \in 0 .. N : n < m => f[n] = NextArguments(value, t, f, n)
           S == {m \in Nat : \E f : Good(f, m)}
<1>2. 0 \in S
  <2>1. Good(<<>>, 0)
    BY <1>1
  <2>. QED
    BY <2>1
<1>3. ASSUME NEW m \in Nat, m \in S PROVE m + 1 \in S
  <2>1. PICK f : Good(f, m)
    BY <1>3
  <2> DEFINE g == [n \in 0 .. N |-> NextArguments(value, t, f, n)]
  <2>2. ASSUME NEW n \in 0 .. N, n < m + 1 PROVE g[n] = NextArguments(value, t, g, n)
    <3>1. CASE n = 0
      BY <3>1 DEF NextArguments
    <3>2. CASE n # 0
      <4>1. n - 1 \in 0 .. N /\ n - 1 < m
        BY <1>1, <2>2, <3>2
      <4>2. g[n - 1] = f[n - 1]
        BY <2>1, <4>1
      <4>. QED
        BY <4>2 DEF NextArguments
    <3>. QED
      BY <3>1, <3>2
  <2> HIDE DEF g
  <2>3. Good(g, m + 1)
    BY <2>2
  <2>. QED
    BY <2>3
<1> HIDE DEF S
<1>4. N + 1 \in S
  BY <1>1, <1>2, <1>3, InductionOnNat
<1>5. PICK f : Good(f, N + 1)
  BY <1>4 DEF S
<1> DEFINE g == [n \in 0 .. N |-> f[n]]
<1>6. ASSUME NEW n \in 0 .. N PROVE g[n] = NextArguments(value, t, g, n)
  <2>1. f[n] = NextArguments(value, t, f, n)
    BY <1>1, <1>5
  <2>2. CASE n = 0
    BY <2>1, <2>2 DEF NextArguments
  <2>3. CASE n # 0
    <3>1. n - 1 \in 0 .. N
      BY <1>1, <2>3
    <3>. QED
      BY <2>1, <3>1 DEF NextArguments
  <2>. QED
    BY <2>2, <2>3
<1>7. g = [n \in 0 .. N |-> NextArguments(value, t, g, n)]
  BY <1>6
<1>. QED
  BY <1>7 DEF N

(* So it satisfies its own recursive definition. *)
LEMMA ArgumentsAre ==
  ASSUME NEW t \in Tasks, NEW value
  PROVE  /\ Arguments(value, t)[0] = <<>>
         /\ \A n \in 1 .. Len(Inputs[t]) :
              Arguments(value, t)[n] =
                IF Inputs[t][n] \in VoidTasks THEN Arguments(value, t)[n - 1]
                ELSE Append(Arguments(value, t)[n - 1],
                            IF Inputs[t][n] = None THEN None ELSE value[Inputs[t][n]])
<1> DEFINE N == Len(Inputs[t])
           A == Arguments(value, t)
<1>1. N \in Nat
  BY InputIsEdge
<1>2. PICK f : f = [n \in 0 .. N |-> NextArguments(value, t, f, n)]
  BY ArgumentsExist
<1>3. A = CHOOSE g : g = [n \in 0 .. N |-> NextArguments(value, t, g, n)]
  BY DEF Arguments, NextArguments
<1>4. A = [n \in 0 .. N |-> NextArguments(value, t, A, n)]
  BY <1>2, <1>3
<1> HIDE DEF A, N
<1>5. A[0] = <<>>
  BY <1>1, <1>4 DEF NextArguments
<1>6. ASSUME NEW n \in 1 .. N
      PROVE  A[n] = IF Inputs[t][n] \in VoidTasks THEN A[n - 1]
                    ELSE Append(A[n - 1], IF Inputs[t][n] = None THEN None
                                          ELSE value[Inputs[t][n]])
  <2>1. n \in 0 .. N /\ n # 0
    BY <1>1
  <2>2. A[n] = NextArguments(value, t, A, n)
    BY <1>4, <2>1
  <2>. QED
    BY <2>1, <2>2 DEF NextArguments
<1>. QED
  BY <1>5, <1>6 DEF A, N

(* The arguments are determined by the values of the tasks depended on. *)
LEMMA ArgumentsDepend ==
  ASSUME NEW t \in Tasks, NEW f, NEW g, \A p \in DependsOn[t] : f[p] = g[p]
  PROVE  Arguments(f, t)[Len(Inputs[t])] = Arguments(g, t)[Len(Inputs[t])]
<1> DEFINE N == Len(Inputs[t])
           F == Arguments(f, t)
           G == Arguments(g, t)
           S == {n \in Nat : n \in 0 .. N => F[n] = G[n]}
<1>1. N \in Nat
  BY InputIsEdge
<1>2. 0 \in S
  BY ArgumentsAre
<1>3. ASSUME NEW n \in Nat, n \in S PROVE n + 1 \in S
  <2> SUFFICES ASSUME n + 1 \in 0 .. N PROVE F[n + 1] = G[n + 1]
    OBVIOUS
  <2>1. n \in 0 .. N /\ n + 1 \in 1 .. N /\ (n + 1) - 1 = n
    BY <1>1
  <2>2. F[n] = G[n]
    BY <1>3, <2>1
  <2> DEFINE i == Inputs[t][n + 1]
  <2>3. i # None => f[i] = g[i]
    BY <2>1, InputIsEdge
  <2>4. F[n + 1] = IF i \in VoidTasks THEN F[n]
                   ELSE Append(F[n], IF i = None THEN None ELSE f[i])
    BY <2>1, ArgumentsAre
  <2>5. G[n + 1] = IF i \in VoidTasks THEN G[n]
                   ELSE Append(G[n], IF i = None THEN None ELSE g[i])
    BY <2>1, ArgumentsAre
  <2> HIDE DEF F, G, i
  <2>. QED
    BY <2>2, <2>3, <2>4, <2>5
<1> HIDE DEF S
<1>4. N \in S
  BY <1>1, <1>2, <1>3, InductionOnNat
<1>. QED
  BY <1>1, <1>4 DEF S

(* Value is well defined on a graph without cycles: by induction on the    *)
(* rank, as for Depth.                                                     *)
LEMMA ValueExists == \E f : f = [t \in Tasks |-> ValueOf(f, t)]
<1> DEFINE N == Cardinality(Tasks)
<1>1. N \in Nat
  BY FS_CardinalityType, TaskGraphAssumption
<1>2. PICK rank \in [Tasks -> 0 .. N] :
        \A t \in Tasks : \A p \in DependsOn[t] : rank[p] < rank[t]
  BY NoCycle
<1> HIDE DEF N
<1> DEFINE Good(f, n) == \A t \in Tasks : rank[t] < n => f[t] = ValueOf(f, t)
           S == {n \in Nat : \E f : Good(f, n)}
<1>3. 0 \in S
  <2>1. \A t \in Tasks : ~(rank[t] < 0)
    BY <1>1
  <2>2. Good(<<>>, 0)
    BY <2>1
  <2> HIDE DEF Good
  <2>. QED
    BY <2>2
<1>4. ASSUME NEW n \in Nat, n \in S PROVE n + 1 \in S
  <2>1. PICK f : Good(f, n)
    BY <1>4
  <2> DEFINE g == [t \in Tasks |-> ValueOf(f, t)]
  <2>2. ASSUME NEW t \in Tasks, rank[t] < n + 1 PROVE g[t] = ValueOf(g, t)
    <3>1. ASSUME NEW p \in DependsOn[t] PROVE g[p] = f[p]
      <4>1. p \in Tasks
        BY InputIsEdge
      <4>2. rank[p] \in Nat /\ rank[t] \in Nat /\ rank[p] < rank[t]
        BY <1>1, <1>2, <4>1
      <4>3. rank[p] < n
        BY <2>2, <4>2
      <4>. QED
        BY <2>1, <4>1, <4>3
    <3> HIDE DEF g
    <3>2. ValueOf(f, t) = ValueOf(g, t)
      BY <3>1, ArgumentsDepend DEF ValueOf
    <3>. QED
      BY <3>2 DEF g
  <2> HIDE DEF g
  <2>3. Good(g, n + 1)
    BY <2>2
  <2> HIDE DEF Good
  <2>. QED
    BY <2>3
<1> HIDE DEF S
<1>5. N + 1 \in S
  BY <1>1, <1>3, <1>4, InductionOnNat
<1>6. PICK f : Good(f, N + 1)
  BY <1>5 DEF S
<1> DEFINE g == [t \in Tasks |-> ValueOf(f, t)]
<1>7. \A t \in Tasks : g[t] = f[t]
  BY <1>1, <1>2, <1>6
<1>8. \A t \in Tasks : ValueOf(f, t) = ValueOf(g, t)
  <2> HIDE DEF g
  <2> SUFFICES ASSUME NEW t \in Tasks PROVE ValueOf(f, t) = ValueOf(g, t)
    OBVIOUS
  <2>1. \A p \in DependsOn[t] : f[p] = g[p]
    BY <1>7, InputIsEdge
  <2>. QED
    BY <2>1, ArgumentsDepend DEF ValueOf
<1>9. g = [t \in Tasks |-> ValueOf(g, t)]
  BY <1>8
<1>. QED
  BY <1>9

(* The value of every task is what its callable makes of the values of the *)
(* tasks it depends on.                                                    *)
THEOREM ValueIsWellDefined == \A t \in Tasks : Value[t] = ValueOf(Value, t)
<1>1. PICK f : f = [t \in Tasks |-> ValueOf(f, t)]
  BY ValueExists
<1>2. Value = CHOOSE g : g = [t \in Tasks |-> ValueOf(g, t)]
  BY DEF Value, ValueOf
<1>3. Value = [t \in Tasks |-> ValueOf(Value, t)]
  BY <1>1, <1>2
<1>. QED
  BY <1>3

(* What a step leaves alone of the results of a task; a thread that waits  *)
(* for edges, or has thrown, has no arguments that matter.                 *)
SameResult(u) ==
  /\ \/ run'[u] = run[u]
     \/ run[u].pc # "assign" /\ run'[u].pc \in BeforeRunning \cup {"thrown"}
  /\ task'[u].result_ = task[u].result_
  /\ edge'[u].data_ = edge[u].data_
  /\ edge'[u].is_retrievable_ = edge[u].is_retrievable_

(* Its results are then still final. *)
LEMMA SameResultKeeps ==
  ASSUME NEW u, ResultOK(u), SameResult(u)
  PROVE  ResultOK(u)'
<1>1. CASE run'[u] = run[u]
  BY <1>1 DEF ResultOK, SameResult, Called, Marked
<1>2. CASE run[u].pc # "assign" /\ run'[u].pc \in BeforeRunning \cup {"thrown"}
  <2>1. ~Called(u)' /\ ~Marked(u)' /\ run'[u].pc \notin {"fetch", "assign", "mark"}
    BY <1>2 DEF Called, Marked, BeforeRunning
  <2>. QED
    BY <1>2, <2>1 DEF ResultOK, SameResult
<1>. QED
  BY <1>1, <1>2 DEF SameResult

(* These steps leave the results of all tasks alone. *)
LEMMA SameResultSteps ==
  ASSUME TypeOK, NEW t \in Tasks,
         \/ RunBegin(t) \/ RunAgain(t) \/ EdgeSkip(t) \/ EdgeLook(t)
         \/ EdgeBlock(t) \/ EdgeSpurious(t) \/ Throw(t) \/ CallEmpty(t)
         \/ set_callable(t)
  PROVE  (\A u \in Tasks : SameResult(u)) /\ UNCHANGED outside
<1> USE Shapes DEF TypeOK, TaskOK, EdgeOK, RunOK, SameResult, BeforeRunning
<1>1. CASE RunBegin(t)
  BY <1>1 DEF RunBegin, Begin, NoArguments
<1>2. CASE RunAgain(t)
  BY <1>2 DEF RunAgain, Begin, NoArguments
<1>3. CASE EdgeSkip(t)
  BY <1>3 DEF EdgeSkip
<1>4. CASE EdgeBlock(t)
  BY <1>4 DEF EdgeBlock, Go
<1>5. CASE EdgeSpurious(t)
  BY <1>5 DEF EdgeSpurious, Go
<1>6. CASE Throw(t)
  BY <1>6 DEF Throw, Go
<1>7. CASE CallEmpty(t)
  BY <1>7 DEF CallEmpty, Go
<1>8. CASE EdgeLook(t)
  <2>1. /\ run[t].pc = "edge"
        /\ \/ run' = [run EXCEPT ![t].slot = @ + 1]
           \/ run' = [run EXCEPT ![t].pc = "edge_block"]
    BY <1>8 DEF EdgeLook
  <2>2. UNCHANGED edge \/ edge' = [edge EXCEPT ![Edge(t)].mtx_ = t]
    BY <1>8 DEF EdgeLook
  <2>3. \A u \in Tasks : /\ edge'[u].is_retrievable_ = edge[u].is_retrievable_
                       /\ edge'[u].data_ = edge[u].data_
    BY <2>2
  <2>4. \A u \in Tasks :
          \/ run'[u] = run[u]
          \/ run[u].pc # "assign" /\ run'[u].pc \in BeforeRunning
    <3>1. CASE run' = [run EXCEPT ![t].slot = @ + 1]
      BY <2>1, <3>1
    <3>2. CASE run' = [run EXCEPT ![t].pc = "edge_block"]
      BY <2>1, <3>2
    <3>. QED
      BY <2>1, <3>1, <3>2
  <2>. QED
    BY <1>8, <2>3, <2>4 DEF EdgeLook
<1>9. CASE set_callable(t)
  BY <1>9 DEF set_callable
<1>. QED
  BY <1>1, <1>2, <1>3, <1>4, <1>5, <1>6, <1>7, <1>8, <1>9

(* A task that may have been overwritten stays one: runs are only added.    *)
LEMMA OverwrittenStays ==
  ASSUME TypeOK, [Next]_vars
  PROVE  \A u \in Tasks : Overwritten(u) => Overwritten(u)'
<1> DEFINE Grows == \A u \in Tasks : run'[u].number >= run[u].number
           Same == \A u \in Tasks : run'[u].number = run[u].number
<1> USE Shapes DEF TypeOK, RunOK
<1>1. \A u \in Tasks : run[u].number \in Nat
  BY Constants DEF Runs
<1>2. ASSUME Same PROVE Grows
  BY <1>1, <1>2
<1>3. ASSUME NEW t \in Tasks, RunBegin(t) \/ RunAgain(t) PROVE Grows
  BY <1>1, <1>3 DEF RunBegin, RunAgain, Begin, NoArguments
<1>4. ASSUME NEW t \in Tasks, EdgeSkip(t) \/ SetRunning(t) \/ Fetch(t) PROVE Same
  <2>1. CASE EdgeSkip(t)
    BY <2>1 DEF EdgeSkip
  <2>2. CASE SetRunning(t)
    BY <2>2 DEF SetRunning
  <2>3. CASE Fetch(t)
    BY <2>3 DEF Fetch
  <2>. QED
    BY <1>4, <2>1, <2>2, <2>3
<1>5. ASSUME NEW t \in Tasks, EdgeLook(t) PROVE Same
  <2>1. \/ run' = [run EXCEPT ![t].slot = @ + 1]
        \/ run' = [run EXCEPT ![t].pc = "edge_block"]
    BY <1>5 DEF EdgeLook
  <2>2. CASE run' = [run EXCEPT ![t].slot = @ + 1]
    BY <2>2
  <2>3. CASE run' = [run EXCEPT ![t].pc = "edge_block"]
    BY <2>3
  <2>. QED
    BY <2>1, <2>2, <2>3
<1>6. ASSUME NEW t \in Tasks, NEW from, NEW to, Go(t, from, to) PROVE Same
  BY <1>6 DEF Go
<1>7. ASSUME NEW t \in Tasks, NotifyAll(t) PROVE Same
  BY <1>7 DEF NotifyAll
<1>8. ASSUME UNCHANGED run PROVE Same
  BY <1>8
<1> HIDE DEF Same, Grows
<1>9. Grows
  BY <1>2, <1>3, <1>4, <1>5, <1>6, <1>7, <1>8
  DEF Next, RunStep, WaitStep, AllReturned, vars, EdgeBlock, EdgeSpurious,
        Invoke, StoreResult, InvokeVoid, Throw, CallEmpty, SetEndTime,
        SetData, StoreData, SetDataVoid, Mark, SetComplete, NotifyOne,
        set_callable, WaitBegin, WaitLook, WaitBlock, WaitSpurious,
        WaitAnswer, get_result, is_retrievable, get_inward_edge_value
<1>10. \A u \in Tasks : run'[u].number \in Nat
  BY RunOKStep, Constants DEF Runs
<1>. QED
  BY <1>1, <1>9, <1>10 DEF Grows, Overwritten

(* What a thread fetches is final: it has passed the edge, and whoever set  *)
(* the flag is past the assignment and not run again.                      *)
LEMMA FetchedIsFinal ==
  ASSUME TypeOK, ProgressInv, \A u \in Tasks : ResultOK(u),
         NEW p \in Tasks, p \notin RerunFinished, edge[p].is_retrievable_
  PROVE  edge[p].data_ = Value[p]
BY DEF ProgressInv, ProgressOK, Overwritten, ResultOK

(* Every step keeps ResultsInv. *)
LEMMA ResultsInvStep ==
  ASSUME TypeOK, EdgesInv, WaitsInv, ProgressInv, ResultsInv, [Next]_vars
  PROVE  ResultsInv'
<1> SUFFICES ASSUME NobodyFetchesTorn PROVE ResultsInv'
  BY DEF ResultsInv, NobodyFetchesTorn
<1>1. /\ \A u \in Tasks : ResultOK(u)
      /\ \A w \in Waiters : GotResultOK(w)
      /\ \A r \in Readers : GotDataOK(r)
  BY DEF ResultsInv
<1> DEFINE Results == \A u \in Tasks : ResultOK(u)'
           Got == /\ \A w \in Waiters : GotResultOK(w)'
                  /\ \A r \in Readers : GotDataOK(r)'
           Only(t) == /\ ResultOK(t)'
                      /\ \A u \in Tasks : u # t => SameResult(u)
                      /\ UNCHANGED outside
<1>2. ASSUME Results, Got PROVE ResultsInv'
  BY <1>2 DEF ResultsInv, NobodyFetchesTorn
<1>25. /\ \A u \in Tasks : Overwritten(u) => Overwritten(u)'
       /\ \A w \in Waiters : WaitsFor[w] \in Tasks
  BY OverwrittenStays, Constants
<1>26. ASSUME NEW x \in Waiters \cup Readers,
             outside'[x] = outside[x] \/ outside'[x].pc # "returned"
      PROVE  /\ x \in Waiters => GotResultOK(x)'
             /\ x \in Readers => GotDataOK(x)'
  BY <1>1, <1>25, <1>26
  DEF GotResultOK, GotResult, GotDataOK, Returned, ReadFrom
<1>3. ASSUME UNCHANGED outside PROVE Got
  BY <1>3, <1>26
<1>4. ASSUME NEW t \in Tasks, Only(t) PROVE ResultsInv'
  <2>1. Results
    BY <1>1, <1>4, SameResultKeeps
  <2>2. Got
    BY <1>3, <1>4
  <2>. QED
    BY <1>2, <2>1, <2>2
<1>5. ASSUME \A u \in Tasks : SameResult(u), UNCHANGED outside PROVE ResultsInv'
  <2>1. Results
    BY <1>1, <1>5, SameResultKeeps
  <2>2. Got
    BY <1>3, <1>5
  <2>. QED
    BY <1>2, <2>1, <2>2
<1>6. \A u \in Tasks : Value[u] = ValueOf(Value, u)
  BY ValueIsWellDefined
<1>7. ASSUME NEW t \in Tasks, SetRunning(t) PROVE ResultsInv'
  <2>1. /\ run[t].pc = "edge" /\ run'[t].pc = "fetch"
        /\ run'[t].slot = 1 /\ run'[t].args = run[t].args
        /\ edge' = edge /\ outside' = outside
        /\ \A u \in Tasks : u # t => run'[u] = run[u]
        /\ \A u \in Tasks : task'[u].result_ = task[u].result_
    BY <1>7, Shapes DEF SetRunning, TypeOK, TaskOK, RunOK
  <2>2. run[t].args = <<>>
    BY <2>1 DEF EdgesInv, PassedOK, BeforeRunning
  <2>3. run'[t].args = Arguments(Value, t)[run'[t].slot - 1]
    BY <2>1, <2>2, ArgumentsAre
  <2>4. ResultOK(t)'
    BY <1>1, <2>1, <2>3 DEF ResultOK, Called, Marked
  <2>. QED
    BY <1>4, <2>1, <2>4 DEF SameResult
<1>8. ASSUME NEW t \in Tasks, Fetch(t) PROVE ResultsInv'
  <2> DEFINE i == run[t].slot
             p == Inputs[t][i]
             args == run[t].args
  <2>1. /\ run[t].pc = "fetch" /\ run'[t].pc = "fetch"
        /\ run'[t].slot = i + 1
        /\ run'[t].args = IF p \in VoidTasks THEN args ELSE Append(args, EdgeValue(p))
        /\ edge' = edge /\ outside' = outside /\ task' = task
        /\ \A u \in Tasks : u # t => run'[u] = run[u]
    BY <1>8, Shapes DEF Fetch, TypeOK, TaskOK, RunOK, Edge
  <2>2. i \in 1 .. Len(Inputs[t])
    BY <1>8, InputIsEdge DEF Fetch, HasSlot, TypeOK, RunOK
  <2>3. args = Arguments(Value, t)[i - 1]
    BY <1>1, <2>1 DEF ResultOK
  <2>4. EdgeValue(p) = IF p = None THEN None ELSE Value[p]
    <3>1. CASE p = None
      BY <3>1 DEF EdgeValue
    <3>2. CASE p # None
      <4>1. p \in Tasks /\ p \in DependsOn[t]
        BY <2>2, <3>2, InputIsEdge, Constants
      <4>2. edge[p].is_retrievable_ /\ p \notin RerunFinished
        BY <2>1, <4>1 DEF EdgesInv, PassedOK, BeforeRunning, NobodyFetchesTorn
      <4>3. edge[p].data_ = Value[p]
        BY <1>1, <4>1, <4>2, FetchedIsFinal
      <4>. QED
        BY <3>2, <4>3 DEF EdgeValue
    <3>. QED
      BY <3>1, <3>2
  <2>5. Arguments(Value, t)[i] =
          IF p \in VoidTasks THEN args ELSE Append(args, EdgeValue(p))
    BY <2>2, <2>3, <2>4, ArgumentsAre
  <2>6. run'[t].slot - 1 = i
    BY <2>1, <2>2
  <2>7. run'[t].args = Arguments(Value, t)[run'[t].slot - 1]
    BY <2>1, <2>5, <2>6
  <2> HIDE DEF i, p, args
  <2>8. ResultOK(t)'
    BY <1>1, <2>1, <2>7 DEF ResultOK, Called, Marked
  <2>. QED
    BY <1>4, <2>1, <2>8 DEF SameResult
<1>9. ASSUME NEW t \in Tasks, Invoke(t) PROVE ResultsInv'
  <2>1. /\ run[t].pc = "fetch" /\ ~HasSlot(t) /\ t \notin VoidTasks
        /\ run'[t].pc = "assign" /\ run'[t].args = run[t].args
        /\ task'[t].result_ = Torn
        /\ edge' = edge /\ outside' = outside
        /\ \A u \in Tasks : u # t => run'[u] = run[u] /\ task'[u] = task[u]
    BY <1>9, Shapes DEF Invoke, Go, TypeOK, TaskOK, RunOK
  <2>2. run[t].slot - 1 = Len(Inputs[t])
    <3>1. run[t].slot \in 1 .. Len(Inputs[t]) + 1 /\ Len(Inputs[t]) \in Nat
      BY InputIsEdge DEF TypeOK, RunOK
    <3>. QED
      BY <2>1, <3>1 DEF HasSlot
  <2>3. run[t].args = Arguments(Value, t)[Len(Inputs[t])]
    BY <1>1, <2>1, <2>2 DEF ResultOK
  <2>4. ResultOK(t)'
    BY <2>1, <2>3 DEF ResultOK, Called, Marked
  <2>. QED
    BY <1>4, <2>1, <2>4 DEF SameResult
<1>27. ASSUME NEW t \in Tasks, StoreResult(t) PROVE ResultsInv'
  <2>1. /\ run[t].pc = "assign" /\ run'[t].pc = "end"
        /\ task'[t].result_ = <<t, run[t].args>>
        /\ edge' = edge /\ outside' = outside
        /\ \A u \in Tasks : u # t => run'[u] = run[u] /\ task'[u] = task[u]
    BY <1>27, Shapes DEF StoreResult, Go, TypeOK, TaskOK, RunOK
  <2>2. /\ t \notin VoidTasks
        /\ run[t].args = Arguments(Value, t)[Len(Inputs[t])]
    BY <1>1, <2>1 DEF ResultOK
  <2>3. task'[t].result_ = Value[t]
    BY <1>6, <2>1, <2>2 DEF ValueOf
  <2>4. ResultOK(t)'
    BY <2>1, <2>2, <2>3 DEF ResultOK, Called, Marked
  <2>. QED
    BY <1>4, <2>1, <2>4 DEF SameResult
<1>10. ASSUME NEW t \in Tasks, InvokeVoid(t) PROVE ResultsInv'
  <2>1. /\ run[t].pc = "fetch" /\ t \in VoidTasks
        /\ run'[t].pc = "end"
        /\ edge' = edge /\ outside' = outside /\ task' = task
        /\ \A u \in Tasks : u # t => run'[u] = run[u]
    BY <1>10, Shapes DEF InvokeVoid, Go, TypeOK, RunOK
  <2>2. task[t].result_ = Value[t]
    BY <1>1, <1>6, <2>1 DEF ResultOK, ValueOf
  <2>3. ResultOK(t)'
    BY <1>1, <2>1, <2>2 DEF ResultOK, Called, Marked
  <2>. QED
    BY <1>4, <2>1, <2>3 DEF SameResult
<1>11. ASSUME NEW t \in Tasks, SetEndTime(t) PROVE ResultsInv'
  <2>1. /\ run[t].pc = "end" /\ run'[t].pc = "publish"
        /\ outside' = outside
        /\ \A u \in Tasks : u # t => run'[u] = run[u] /\ edge'[u] = edge[u]
        /\ \A u \in Tasks : task'[u].result_ = task[u].result_
        /\ edge' = edge
    BY <1>11, Shapes DEF SetEndTime, Go, TypeOK, TaskOK, EdgeOK, RunOK
  <2>2. ResultOK(t)'
    BY <1>1, <2>1 DEF ResultOK, Called, Marked, ValueOf
  <2>. QED
    BY <1>4, <2>1, <2>2 DEF SameResult
<1>12. ASSUME NEW t \in Tasks, SetData(t) PROVE ResultsInv'
  <2>1. /\ run[t].pc = "publish" /\ run'[t].pc = "store"
        /\ outside' = outside
        /\ \A u \in Tasks : u # t => run'[u] = run[u] /\ edge'[u] = edge[u]
        /\ \A u \in Tasks : task'[u].result_ = task[u].result_
        /\ t \notin VoidTasks
        /\ edge'[t].is_retrievable_ = edge[t].is_retrievable_
    BY <1>12, Shapes DEF SetData, Go, TypeOK, TaskOK, EdgeOK, RunOK
  <2>2. ResultOK(t)'
    BY <1>1, <2>1 DEF ResultOK, Called, Marked, ValueOf
  <2>. QED
    BY <1>4, <2>1, <2>2 DEF SameResult
<1>13. ASSUME NEW t \in Tasks, StoreData(t) PROVE ResultsInv'
  <2>1. /\ run[t].pc = "store" /\ run'[t].pc = "mark"
        /\ outside' = outside
        /\ \A u \in Tasks : u # t => run'[u] = run[u] /\ edge'[u] = edge[u]
        /\ \A u \in Tasks : task'[u].result_ = task[u].result_
        /\ edge'[t].data_ = task[t].result_
        /\ edge'[t].is_retrievable_ = edge[t].is_retrievable_
    BY <1>13, Shapes DEF StoreData, Go, TypeOK, TaskOK, EdgeOK, RunOK
  <2>2. ResultOK(t)'
    BY <1>1, <2>1 DEF ResultOK, Called, Marked, ValueOf
  <2>. QED
    BY <1>4, <2>1, <2>2 DEF SameResult
<1>14. ASSUME NEW t \in Tasks, SetDataVoid(t) PROVE ResultsInv'
  <2>1. /\ run[t].pc = "publish" /\ run'[t].pc = "mark"
        /\ outside' = outside
        /\ \A u \in Tasks : u # t => run'[u] = run[u] /\ edge'[u] = edge[u]
        /\ \A u \in Tasks : task'[u].result_ = task[u].result_
        /\ edge' = edge
        /\ t \in VoidTasks
    BY <1>14, Shapes DEF SetDataVoid, Go, TypeOK, TaskOK, EdgeOK, RunOK
  <2>2. ResultOK(t)'
    BY <1>1, <2>1, <1>6 DEF ResultOK, Called, Marked, ValueOf
  <2>. QED
    BY <1>4, <2>1, <2>2 DEF SameResult
<1>15. ASSUME NEW t \in Tasks, Mark(t) PROVE ResultsInv'
  <2>1. /\ run[t].pc = "mark" /\ run'[t].pc = "notify_all"
        /\ outside' = outside
        /\ \A u \in Tasks : u # t => run'[u] = run[u] /\ edge'[u] = edge[u]
        /\ \A u \in Tasks : task'[u].result_ = task[u].result_
        /\ edge'[t].data_ = edge[t].data_
    BY <1>15, Shapes DEF Mark, Go, TypeOK, TaskOK, EdgeOK, RunOK
  <2>2. ResultOK(t)'
    BY <1>1, <2>1 DEF ResultOK, Called, Marked, ValueOf
  <2>. QED
    BY <1>4, <2>1, <2>2 DEF SameResult
<1>16. ASSUME NEW t \in Tasks, SetComplete(t) PROVE ResultsInv'
  <2>1. /\ run[t].pc = "complete" /\ run'[t].pc = "notify_one"
        /\ outside' = outside
        /\ \A u \in Tasks : u # t => run'[u] = run[u] /\ edge'[u] = edge[u]
        /\ \A u \in Tasks : task'[u].result_ = task[u].result_
        /\ edge' = edge
    BY <1>16, Shapes DEF SetComplete, Go, set_state, TypeOK, TaskOK,
          EdgeOK, RunOK
  <2>2. ResultOK(t)'
    BY <1>1, <2>1 DEF ResultOK, Called, Marked, ValueOf
  <2>. QED
    BY <1>4, <2>1, <2>2 DEF SameResult
<1>17. ASSUME NEW t \in Tasks, NotifyAll(t) PROVE ResultsInv'
  <2>1. /\ run[t].pc = "notify_all" /\ run'[t].pc = "complete"
        /\ outside' = outside /\ edge' = edge /\ task' = task
        /\ \A u \in Tasks : u # t => \/ run'[u] = run[u]
                                      \/ /\ run[u].pc = "edge_blocked"
                                         /\ run'[u].pc = "edge"
    BY <1>17, Shapes DEF NotifyAll, EdgeSleepers, TypeOK, RunOK
  <2>2. ResultOK(t)'
    BY <1>1, <2>1 DEF ResultOK, Called, Marked
  <2>. QED
    BY <1>4, <2>1, <2>2 DEF SameResult, BeforeRunning
<1>18. ASSUME NEW t \in Tasks, NotifyOne(t) PROVE ResultsInv'
  <2>1. /\ run[t].pc = "notify_one" /\ run'[t].pc = "finished"
        /\ edge' = edge /\ task' = task
        /\ \A u \in Tasks : u # t => run'[u] = run[u]
        /\ \A x \in Waiters \cup Readers :
             outside'[x] = outside[x] \/ outside'[x].pc = "enter"
    BY <1>18, Shapes
    DEF NotifyOne, Go, OutsideGo, TaskSleepers, TypeOK, RunOK, OutsideOK
  <2>2. ResultOK(t)'
    BY <1>1, <2>1 DEF ResultOK, Called, Marked
  <2>3. \A u \in Tasks : u # t => SameResult(u)
    BY <2>1 DEF SameResult
  <2>4. Results
    BY <1>1, <2>2, <2>3, SameResultKeeps
  <2>5. Got
    BY <1>26, <2>1
  <2>. QED
    BY <1>2, <2>4, <2>5
<1>19. ASSUME \A u \in Tasks : SameResult(u),
             \A x \in Waiters \cup Readers :
               outside'[x] = outside[x] \/ outside'[x].pc # "returned"
      PROVE  ResultsInv'
  <2>1. Results
    BY <1>1, <1>19, SameResultKeeps
  <2>2. Got
    BY <1>26, <1>19
  <2>. QED
    BY <1>2, <2>1, <2>2
<1>20. ASSUME NEW w \in Waiters,
             WaitBegin(w) \/ WaitLook(w) \/ WaitBlock(w) \/ WaitSpurious(w) \/ WaitAnswer(w)
      PROVE  ResultsInv'
  <2>1. \A u \in Tasks : SameResult(u)
    BY <1>20, Shapes, Constants
    DEF WaitBegin, WaitLook, WaitBlock, WaitSpurious, WaitAnswer, SameResult,
        TypeOK, TaskOK
  <2>2. \A x \in Waiters \cup Readers :
          outside'[x] = outside[x] \/ outside'[x].pc # "returned"
    BY <1>20, Shapes
    DEF WaitBegin, WaitLook, WaitBlock, WaitSpurious, WaitAnswer, OutsideGo,
        TypeOK, OutsideOK
  <2>. QED
    BY <1>19, <2>1, <2>2
<1>21. ASSUME NEW r \in Readers, is_retrievable(r) PROVE ResultsInv'
  <2>1. \A u \in Tasks : SameResult(u)
    BY <1>21 DEF is_retrievable, SameResult
  <2>2. \A x \in Waiters \cup Readers :
          outside'[x] = outside[x] \/ outside'[x].pc # "returned"
    BY <1>21, Shapes DEF is_retrievable, OutsideGo, TypeOK, OutsideOK
  <2>. QED
    BY <1>19, <2>1, <2>2
<1>22. ASSUME NEW w \in Waiters, get_result(w) PROVE ResultsInv'
  <2>1. /\ outside[w].pc = "read" /\ outside'[w].got = task[WaitsFor[w]].result_
        /\ UNCHANGED <<task, edge, run>>
        /\ \A x \in Waiters \cup Readers : x # w => outside'[x] = outside[x]
    BY <1>22, Shapes DEF get_result, TypeOK, OutsideOK
  <2>2. edge[WaitsFor[w]].is_retrievable_ /\ WaitsFor[w] \in Tasks
    BY <2>1, Constants DEF WaitsInv, WaiterOK
  <2>3. ASSUME run[WaitsFor[w]].pc = "assign" PROVE GotResultOK(w)'
    <3>1. outside'[w].got = Torn
      BY <1>1, <2>1, <2>2, <2>3 DEF ResultOK
    <3>2. Overwritten(WaitsFor[w])
      BY <2>2, <2>3 DEF ProgressInv, ProgressOK, Marked
    <3>. QED
      BY <1>25, <2>2, <3>1, <3>2 DEF GotResultOK, GotResult
  <2>6. ASSUME run[WaitsFor[w]].pc # "assign" PROVE GotResultOK(w)'
    BY <1>1, <2>1, <2>2, <2>6 DEF ResultOK, GotResultOK, GotResult
  <2>7. GotResultOK(w)'
    BY <2>3, <2>6
  <2>4. Results
    BY <1>1, <2>1, SameResultKeeps DEF SameResult
  <2>5. Got
    BY <1>26, <2>1, <2>7, Constants
  <2>. QED
    BY <1>2, <2>4, <2>5
<1>23. ASSUME NEW r \in Readers, get_inward_edge_value(r) PROVE ResultsInv'
  <2> DEFINE p == ReadFrom(r)
  <2>1. /\ outside[r].pc = "read" /\ outside'[r].got = EdgeValue(p)
        /\ UNCHANGED <<task, edge, run>>
        /\ \A x \in Waiters \cup Readers : x # r => outside'[x] = outside[x]
    BY <1>23, Shapes DEF get_inward_edge_value, TypeOK, OutsideOK
  <2>2. /\ edge[p].is_retrievable_ /\ p \in Tasks /\ p # None
        /\ p \notin RerunFinished
    BY <2>1, ReadFromTask, Constants DEF WaitsInv, ReaderOK, NobodyFetchesTorn
  <2>3. edge[p].data_ = Value[p]
    BY <1>1, <2>2, FetchedIsFinal
  <2>4. GotDataOK(r)'
    BY <2>1, <2>2, <2>3 DEF GotDataOK, EdgeValue, ReadFrom
  <2>5. Results
    BY <1>1, <2>1, SameResultKeeps DEF SameResult
  <2>6. Got
    BY <1>26, <2>1, <2>4, Constants
  <2>. QED
    BY <1>2, <2>5, <2>6
<1>24. CASE UNCHANGED vars
  BY <1>5, <1>24 DEF SameResult, vars
<1> HIDE DEF Results, Got, Only
<1>. QED
  BY <1>5, <1>7, <1>8, <1>9, <1>10, <1>11, <1>12, <1>13, <1>14, <1>15,
        <1>16, <1>17, <1>18, <1>20, <1>21, <1>22, <1>23, <1>24,
        <1>27, SameResultSteps
  DEF Next, RunStep, WaitStep, AllReturned

(* The invariant holds in every reachable state. *)
THEOREM TaskInvariant == Spec => []TaskInv
<1>1. Init => ResultsInv
  <2> SUFFICES ASSUME Init PROVE ResultsInv
    OBVIOUS
  <2>1. \A t \in Tasks : ResultOK(t)
    BY DEF Init, ResultOK, Called, Marked, NewTask, NewEdge, NewRun
  <2>2. \A x \in Waiters \cup Readers : ~Returned(x)
    BY DEF Init, Returned, NewOutside
  <2>. QED
    BY <2>1, <2>2 DEF ResultsInv, GotResultOK, GotDataOK
<1>2. TaskInv /\ [Next]_vars => TaskInv'
  BY TypeOKStep, EdgesInvStep, SleepersInvStep, WaitsInvStep, ProgressInvStep,
     ResultsInvStep
  DEF TaskInv
<1>3. Init => TaskInv
  BY <1>1, InitTaskInv DEF TaskInv
<1>. QED
  BY <1>2, <1>3, PTL DEF Spec

(* Whatever threads run the tasks, in whatever order, and however often     *)
(* callables have thrown and were run again, every callable is called with  *)
(* the final results of what it depends on; provided no task whose data     *)
(* another one fetches is run again after it has finished.                  *)
THEOREM CallablesGetResults ==
  ASSUME NobodyFetchesTorn
  PROVE  Spec => []ArgsAreResults
<1>1. TaskInv => ArgsAreResults
  <2> SUFFICES ASSUME TaskInv, NEW t \in Tasks, Called(t)
               PROVE  /\ \A p \in DependsOn[t] : edge[p].is_retrievable_
                      /\ task[t].result_ = Value[t]
    BY DEF ArgsAreResults
  <2>1. \A p \in DependsOn[t] : edge[p].is_retrievable_
    BY DEF TaskInv, EdgesInv, PassedOK, BeforeRunning, Called
  <2>2. task[t].result_ = Value[t]
    BY NobodyFetchesTorn DEF TaskInv, ResultsInv, ResultOK
  <2>. QED
    BY <2>1, <2>2
<1>. QED
  BY <1>1, TaskInvariant, PTL

(* And so does whoever reads a result after wait, or the data of an edge    *)
(* that has been seen to be retrievable, without a lock; except that        *)
(* get_result may read a result that is being assigned when the program     *)
(* runs the task again after it has finished, for nothing locks result_.    *)
THEOREM ReadersGetResults ==
  ASSUME NobodyFetchesTorn
  PROVE  Spec => []ReadsAreResults
<1>1. TaskInv => ReadsAreResults
  <2> SUFFICES ASSUME TaskInv PROVE ReadsAreResults
    OBVIOUS
  <2>1. ASSUME NEW w \in Waiters, Returned(w)
        PROVE  /\ GotResult(w, WaitsFor[w])
               /\ edge[WaitsFor[w]].is_retrievable_
    BY <2>1, NobodyFetchesTorn
    DEF TaskInv, ResultsInv, GotResultOK, WaitsInv, WaiterOK, Returned
  <2>2. ASSUME NEW r \in Readers, Returned(r)
        PROVE  outside[r].got = Value[ReadFrom(r)]
    BY <2>2, NobodyFetchesTorn DEF TaskInv, ResultsInv, GotDataOK
  <2>. QED
    BY <2>1, <2>2 DEF ReadsAreResults
<1>. QED
  BY <1>1, TaskInvariant, PTL
=============================================================================
