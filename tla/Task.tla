-------------------------------- MODULE Task --------------------------------
(***************************************************************************)
(* Task::run and Task::wait with the edges between tasks: IEdge, Edge and  *)
(* the parts of Node that connect them.  Each task is run by a thread of   *)
(* its own, once, or again after its callable has thrown or (if the        *)
(* program does that) after it has finished.  Other threads wait for tasks *)
(* and read their results, or read inward edges.                           *)
(*                                                                         *)
(* There are two mutexes and two condition variables per task: the ones of *)
(* its out edge, for the tasks that depend on it, and its own, for         *)
(* Task::wait.  A mutex held within one step only does not appear; one     *)
(* that a thread holds from one step to the next is None or that thread.   *)
(***************************************************************************)
EXTENDS TaskGraph

CONSTANTS Waiters,     (* the threads that call Task::wait                  *)
          Readers,     (* the threads that read an inward edge of a task    *)
          VoidTasks,   (* the tasks that return void                        *)
          WaitsFor,    (* WaitsFor[w]: the task w waits for                 *)
          Reads,       (* Reads[r]: the task and the slot r reads           *)
          MayThrow,    (* the tasks whose callable may throw                *)
          NotSet,      (* the tasks set_callable has not been called on yet *)
          RerunFinished, (* the tasks that are run again after they finished   *)
          MaxReruns,   (* bound on how often a task is run again            *)
          MaxSpurious, (* bound on the number of spurious wakeups           *)
          Torn         (* what may be read from an object being assigned    *)

ASSUME TaskAssumption ==
  /\ Tasks \cap Waiters = {} /\ Readers \cap (Tasks \cup Waiters) = {}
  /\ None \notin Waiters
  /\ VoidTasks \subseteq Tasks /\ MayThrow \subseteq Tasks /\ NotSet \subseteq Tasks
  /\ WaitsFor \in [Waiters -> Tasks]
  /\ \A r \in Readers : /\ Reads[r][1] \in Tasks
                          /\ Reads[r][2] \in DOMAIN Inputs[Reads[r][1]]
                          /\ Inputs[Reads[r][1]][Reads[r][2]] # None
  /\ RerunFinished \subseteq Tasks
  /\ MaxReruns \in Nat /\ MaxSpurious \in Nat

VARIABLES
  task,     (* the members of ITask and Task.  Times are the number of the  *)
            (* run that set them, 0 if none has.                            *)
  edge,     (* the members of the out edge of each task                     *)
  run,      (* each task's thread: where it is in run(), the inward edge it *)
            (* looks at, the arguments fetched so far, the number of the run*)
  outside,  (* each other thread: where it is, what wait returned, what     *)
            (* value it read                                                *)
  spurious  (* how many spurious wakeups have happened                      *)

vars == <<task, edge, run, outside, spurious>>

RunStates == {"idle", "edge", "edge_block", "edge_blocked", "fetch", "assign",
              "end", "publish", "store", "mark", "notify_all", "complete",
              "notify_one", "finished", "thrown"}
OutsideStates == {"idle", "enter", "block", "blocked", "answer", "read",
                  "returned"}

(* The value-initialised state_.  Faulty variant: an indeterminate one, as  *)
(* std::atomic has before C++20.                                            *)
IndeterminateState == None
InitialState == "Incomplete"

NewTask(t) ==
  [state_ |-> InitialState, start_time_ |-> 0, end_time_ |-> 0,
   callable_ |-> t \notin NotSet, result_ |-> None, mtx_ |-> None]
NewEdge == [data_ |-> None, is_retrievable_ |-> FALSE, mtx_ |-> None]
NewRun == [pc |-> "idle", slot |-> 1, args |-> <<>>, number |-> 0]
NewOutside == [pc |-> "idle", answer |-> None, got |-> None]

Init ==
  /\ task = [t \in Tasks |-> NewTask(t)]
  /\ edge = [t \in Tasks |-> NewEdge]
  /\ run = [t \in Tasks |-> NewRun]
  /\ outside = [x \in Waiters \cup Readers |-> NewOutside]
  /\ spurious = 0

get_state(t) == task[t].state_
set_state(t, state) == task' = [task EXCEPT ![t].state_ = state]

Go(t, from, to) == run[t].pc = from /\ run' = [run EXCEPT ![t].pc = to]
OutsideGo(x, from, to) ==
  outside[x].pc = from /\ outside' = [outside EXCEPT ![x].pc = to]

(* get_inward_edges: the edge a thread looks at.                            *)
Edge(t) == Inputs[t][run[t].slot]
HasSlot(t) == run[t].slot <= Len(Inputs[t])

(* get_inward_edge_value: the data, or a value-initialised object.          *)
EdgeValue(p) == IF p = None THEN None ELSE edge[p].data_

(* Threads asleep on the condition variable of an out edge, and of a task. *)
EdgeSleepers(p) == {t \in Tasks : run[t].pc = "edge_blocked" /\ Edge(t) = p}
TaskSleepers(t) ==
  {w \in Waiters : outside[w].pc = "blocked" /\ WaitsFor[w] = t}

------------------------------------------------------------------------------
(* Faulty variants: actions below with one mistake each, for the runs that  *)
(* show that the properties notice.                                         *)

(* set_as_retrievable stores the flag without the mutex. *)
MarkUnlocked(t) ==
  /\ Go(t, "mark", "notify_all")
  /\ edge' = [edge EXCEPT ![t].is_retrievable_ = TRUE]
  /\ UNCHANGED <<task, outside, spurious>>

(* set_as_retrievable wakes one dependent task only. *)
NotifyAllOne(t) ==
  /\ run[t].pc = "notify_all"
  /\ \/ EdgeSleepers(t) = {} /\ run' = [run EXCEPT ![t].pc = "complete"]
     \/ \E u \in EdgeSleepers(t) :
          run' = [run EXCEPT ![t].pc = "complete", ![u].pc = "edge"]
  /\ UNCHANGED <<task, edge, outside, spurious>>

(* The loop over the edges ends at a null edge instead of skipping it. *)
EdgeSkipEnds(t) ==
  /\ run[t].pc = "edge" /\ HasSlot(t) /\ Edge(t) = None
  /\ run' = [run EXCEPT ![t].slot = Len(Inputs[t]) + 1]
  /\ UNCHANGED <<task, edge, outside, spurious>>

(* The end time is recorded when there is something to publish only. *)
SetEndTimeUnlessVoid(t) ==
  /\ Go(t, "end", "publish")
  /\ task' = IF t \in VoidTasks THEN task
             ELSE [task EXCEPT ![t].end_time_ = run[t].number]
  /\ UNCHANGED <<edge, outside, spurious>>

(* The task is complete before its out edge is. *)
StoreDataCompletes(t) ==
  /\ Go(t, "store", "mark")
  /\ edge' = [edge EXCEPT ![t].data_ = task[t].result_]
  /\ set_state(t, "Complete")
  /\ UNCHANGED <<outside, spurious>>

(* run() notifies without taking mtx_. *)
NotifyUnlocked(t) ==
  /\ run[t].pc = "notify_one"
  /\ run' = [run EXCEPT ![t].pc = "finished"]
  /\ \/ TaskSleepers(t) = {} /\ UNCHANGED outside
     \/ \E w \in TaskSleepers(t) : OutsideGo(w, "blocked", "enter")
  /\ UNCHANGED <<task, edge, spurious>>

(* A second run() goes on with the arguments the first one has fetched. *)
ArgumentsKept(t) == run[t].args

------------------------------------------------------------------------------
(* Task::set_callable, to be called before run().  callable_ says whether   *)
(* there is one.                                                            *)
set_callable(t) ==
  /\ run[t].pc \in {"idle", "thrown"}
  /\ ~task[t].callable_
  /\ task' = [task EXCEPT ![t].callable_ = TRUE]
  /\ UNCHANGED <<edge, run, outside, spurious>>

------------------------------------------------------------------------------
(* Task::run. *)

NoArguments(t) == <<>>

Begin(t) ==
  /\ run' = [run EXCEPT ![t].pc = "edge", ![t].slot = 1,
                        ![t].args = NoArguments(t), ![t].number = @ + 1]
  /\ UNCHANGED <<task, edge, outside, spurious>>

RunBegin(t) == run[t].pc = "idle" /\ Begin(t)

(* run() once more: nothing of the task or of its edge has been reset. *)
RunAgain(t) ==
  /\ run[t].pc = "thrown" \/ (t \in RerunFinished /\ run[t].pc = "finished")
  /\ run[t].number <= MaxReruns
  /\ Begin(t)

(* A null edge is not waited for. *)
EdgeSkip(t) ==
  /\ run[t].pc = "edge" /\ HasSlot(t) /\ Edge(t) = None
  /\ run' = [run EXCEPT ![t].slot = @ + 1]
  /\ UNCHANGED <<task, edge, outside, spurious>>

(* wait_until_retrievable takes the mutex of the edge and looks at the      *)
(* flag; it lets go at once, or holds on until it blocks.                   *)
EdgeLook(t) ==
  /\ run[t].pc = "edge" /\ HasSlot(t) /\ Edge(t) # None
  /\ edge[Edge(t)].mtx_ = None
  /\ \/ /\ edge[Edge(t)].is_retrievable_
        /\ run' = [run EXCEPT ![t].slot = @ + 1]
        /\ UNCHANGED edge
     \/ /\ ~edge[Edge(t)].is_retrievable_
        /\ run' = [run EXCEPT ![t].pc = "edge_block"]
        /\ edge' = [edge EXCEPT ![Edge(t)].mtx_ = t]
  /\ UNCHANGED <<task, outside, spurious>>

(* The condition variable: release the mutex and fall asleep in one step. *)
EdgeBlock(t) ==
  /\ Go(t, "edge_block", "edge_blocked")
  /\ edge' = [edge EXCEPT ![Edge(t)].mtx_ = None]
  /\ UNCHANGED <<task, outside, spurious>>

EdgeSpurious(t) ==
  /\ spurious < MaxSpurious
  /\ Go(t, "edge_blocked", "edge")
  /\ spurious' = spurious + 1
  /\ UNCHANGED <<task, edge, outside>>

(* All edges waited for: the task is running, from now on. *)
SetRunning(t) ==
  /\ run[t].pc = "edge" /\ ~HasSlot(t)
  /\ run' = [run EXCEPT ![t].pc = "fetch", ![t].slot = 1]
  /\ task' = [task EXCEPT ![t].state_ = "Running",
                          ![t].start_time_ = run[t].number]
  /\ UNCHANGED <<edge, outside, spurious>>

(* One argument: the data of the edge, a value-initialised object for a     *)
(* null edge, and none at all for the edge of a void task.                  *)
Fetch(t) ==
  /\ run[t].pc = "fetch" /\ HasSlot(t)
  /\ run' = [run EXCEPT ![t].slot = @ + 1,
                        ![t].args = IF Edge(t) \in VoidTasks THEN @
                                    ELSE Append(@, EdgeValue(Edge(t)))]
  /\ UNCHANGED <<task, edge, outside, spurious>>

(* The callable returns, and its result is assigned to result_, with no     *)
(* mutex held: until that is done, result_ is neither the old nor the new   *)
(* value.                                                                   *)
Invoke(t) ==
  /\ t \notin VoidTasks /\ task[t].callable_
  /\ ~HasSlot(t) /\ Go(t, "fetch", "assign")
  /\ task' = [task EXCEPT ![t].result_ = Torn]
  /\ UNCHANGED <<edge, outside, spurious>>

(* The result is a value of its own for each list of arguments.             *)
StoreResult(t) ==
  /\ Go(t, "assign", "end")
  /\ task' = [task EXCEPT ![t].result_ = <<t, run[t].args>>]
  /\ UNCHANGED <<edge, outside, spurious>>

(* Task<void(...)>: there is no result to store. *)
InvokeVoid(t) ==
  /\ t \in VoidTasks /\ task[t].callable_
  /\ ~HasSlot(t) /\ Go(t, "fetch", "end")
  /\ UNCHANGED <<task, edge, outside, spurious>>

(* The callable throws and the exception leaves run(): nothing of what      *)
(* follows the call happens, and state_ stays Running.                      *)
Throw(t) ==
  /\ t \in MayThrow /\ task[t].callable_
  /\ ~HasSlot(t) /\ Go(t, "fetch", "thrown")
  /\ UNCHANGED <<task, edge, outside, spurious>>

(* An empty std::function throws std::bad_function_call. *)
CallEmpty(t) ==
  /\ ~task[t].callable_
  /\ ~HasSlot(t) /\ Go(t, "fetch", "thrown")
  /\ UNCHANGED <<task, edge, outside, spurious>>

SetEndTime(t) ==
  /\ Go(t, "end", "publish")
  /\ task' = [task EXCEPT ![t].end_time_ = run[t].number]
  /\ UNCHANGED <<edge, outside, spurious>>

(* Edge::set_data assigns the data with no mutex held: whoever reads it in  *)
(* between gets neither the old nor the new value.                          *)
SetData(t) ==
  /\ t \notin VoidTasks
  /\ Go(t, "publish", "store")
  /\ edge' = [edge EXCEPT ![t].data_ = Torn]
  /\ UNCHANGED <<task, outside, spurious>>

StoreData(t) ==
  /\ Go(t, "store", "mark")
  /\ edge' = [edge EXCEPT ![t].data_ = task[t].result_]
  /\ UNCHANGED <<task, outside, spurious>>

(* Edge<void>::set_data has no data to store. *)
SetDataVoid(t) ==
  /\ t \in VoidTasks
  /\ Go(t, "publish", "mark")
  /\ UNCHANGED <<task, edge, outside, spurious>>

(* set_as_retrievable: the flag under the mutex, then the notification. *)
Mark(t) ==
  /\ Go(t, "mark", "notify_all")
  /\ edge[t].mtx_ = None
  /\ edge' = [edge EXCEPT ![t].is_retrievable_ = TRUE]
  /\ UNCHANGED <<task, outside, spurious>>

NotifyAll(t) ==
  /\ run[t].pc = "notify_all"
  /\ run' = [u \in Tasks |->
               IF u = t THEN [run[u] EXCEPT !.pc = "complete"]
               ELSE IF u \in EdgeSleepers(t) THEN [run[u] EXCEPT !.pc = "edge"]
               ELSE run[u]]
  /\ UNCHANGED <<task, edge, outside, spurious>>

(* The state is set before the mutex is taken. *)
SetComplete(t) ==
  /\ Go(t, "complete", "notify_one")
  /\ set_state(t, "Complete")
  /\ UNCHANGED <<edge, outside, spurious>>

(* The lock guard, notify_one and the end of run(). *)
NotifyOne(t) ==
  /\ Go(t, "notify_one", "finished")
  /\ task[t].mtx_ = None
  /\ \/ TaskSleepers(t) = {} /\ UNCHANGED outside
     \/ \E w \in TaskSleepers(t) : OutsideGo(w, "blocked", "enter")
  /\ UNCHANGED <<task, edge, spurious>>

RunStep(t) ==
  \/ RunBegin(t) \/ EdgeSkip(t) \/ EdgeLook(t) \/ EdgeBlock(t) \/ SetRunning(t)
  \/ Fetch(t) \/ Invoke(t) \/ StoreResult(t) \/ InvokeVoid(t) \/ CallEmpty(t)
  \/ SetEndTime(t) \/ SetData(t) \/ StoreData(t) \/ SetDataVoid(t) \/ Mark(t)
  \/ NotifyAll(t) \/ SetComplete(t) \/ NotifyOne(t)

------------------------------------------------------------------------------
(* Task::wait, followed by get_result. *)

WaitBegin(w) ==
  /\ OutsideGo(w, "idle", "enter")
  /\ UNCHANGED <<task, edge, run, spurious>>

(* The predicate, under mtx_. *)
WaitLook(w) ==
  /\ task[WaitsFor[w]].mtx_ = None
  /\ \/ /\ get_state(WaitsFor[w]) = "Complete"
        /\ OutsideGo(w, "enter", "answer")
     \/ /\ get_state(WaitsFor[w]) # "Complete"
        /\ OutsideGo(w, "enter", "block")
  /\ task' = [task EXCEPT ![WaitsFor[w]].mtx_ = w]
  /\ UNCHANGED <<edge, run, spurious>>

WaitBlock(w) ==
  /\ OutsideGo(w, "block", "blocked")
  /\ task' = [task EXCEPT ![WaitsFor[w]].mtx_ = None]
  /\ UNCHANGED <<edge, run, spurious>>

WaitSpurious(w) ==
  /\ spurious < MaxSpurious
  /\ OutsideGo(w, "blocked", "enter")
  /\ spurious' = spurious + 1
  /\ UNCHANGED <<task, edge, run>>

(* The state is read again for the answer; then mtx_ is released. *)
WaitAnswer(w) ==
  /\ outside[w].pc = "answer"
  /\ outside' = [outside EXCEPT ![w].pc = "read",
                                ![w].answer = get_state(WaitsFor[w])]
  /\ task' = [task EXCEPT ![WaitsFor[w]].mtx_ = None]
  /\ UNCHANGED <<edge, run, spurious>>

(* get_result copies result_ with no mutex held either.                     *)
get_result(w) ==
  /\ w \in Waiters /\ outside[w].pc = "read"
  /\ outside' = [outside EXCEPT ![w].pc = "returned",
                                ![w].got = task[WaitsFor[w]].result_]
  /\ UNCHANGED <<task, edge, run, spurious>>

WaitStep(w) == WaitLook(w) \/ WaitBlock(w) \/ WaitAnswer(w) \/ get_result(w)

------------------------------------------------------------------------------
(* Threads that read an inward edge of a task with get_inward_edge_value or *)
(* get_data, which wait for nothing.                                        *)

ReadFrom(r) == Inputs[Reads[r][1]][Reads[r][2]]

(* get_inward_edge_value neither waits nor asks: its caller has to poll     *)
(* is_retrievable() until it says yes.                                      *)
is_retrievable(r) ==
  /\ edge[ReadFrom(r)].is_retrievable_
  /\ OutsideGo(r, "idle", "read")
  /\ UNCHANGED <<task, edge, run, spurious>>

get_inward_edge_value(r) ==
  /\ r \in Readers /\ outside[r].pc = "read"
  /\ outside' = [outside EXCEPT ![r].pc = "returned",
                                ![r].got = EdgeValue(ReadFrom(r))]
  /\ UNCHANGED <<task, edge, run, spurious>>

(* Every run() is over and every wait returned: the program goes on. *)
AllReturned ==
  /\ \A t \in Tasks : run[t].pc = "finished"
  /\ \A x \in Waiters \cup Readers : outside[x].pc \in {"idle", "returned"}
  /\ UNCHANGED vars

Next ==
  \/ \E t \in Tasks : RunStep(t) \/ Throw(t) \/ RunAgain(t)
                     \/ EdgeSpurious(t) \/ set_callable(t)
  \/ \E w \in Waiters : WaitBegin(w) \/ WaitStep(w) \/ WaitSpurious(w)
  \/ \E r \in Readers : is_retrievable(r) \/ get_inward_edge_value(r)
  \/ AllReturned

Spec == Init /\ [][Next]_vars

(* Each task is run by a thread that is scheduled, and a thread in wait is  *)
(* scheduled too.  Nobody is made to call wait or set_callable, to read an  *)
(* edge, to throw or to run a task again.                                   *)
FairSpec ==
  /\ Spec
  /\ \A t \in Tasks : WF_vars(RunStep(t))
  /\ \A w \in Waiters : WF_vars(WaitStep(w))

------------------------------------------------------------------------------
(* Properties. *)

(* What a task is called with, given the values of the tasks it depends on: *)
(* one argument for each slot, in their order, but none for a void task.    *)
Arguments(value, t) ==
  LET first[n \in 0 .. Len(Inputs[t])] ==
        IF n = 0 THEN <<>>
        ELSE IF Inputs[t][n] \in VoidTasks THEN first[n - 1]
        ELSE Append(first[n - 1], IF Inputs[t][n] = None THEN None
                                  ELSE value[Inputs[t][n]])
  IN  first

(* What each task computes, from the graph alone. *)
Value[t \in Tasks] ==
  IF t \in VoidTasks THEN None
  ELSE <<t, Arguments(Value, t)[Len(Inputs[t])]>>

(* The task cannot go on before a callable that has thrown is run again.    *)
Stalled[t \in Tasks] ==
  \/ run[t].pc = "thrown"
  \/ \E p \in DependsOn[t] : ~edge[p].is_retrievable_ /\ Stalled[p]

(* A task whose callable has been called in this run, and has returned.     *)
Called(t) == run[t].pc \in {"end", "publish", "store", "mark", "notify_all",
                            "complete", "notify_one", "finished"}
Returned(x) == outside[x].pc = "returned"

Runs == 0 .. MaxReruns + 1
BeforeRunning == {"edge", "edge_block", "edge_blocked"}

TaskOK(t) ==
  /\ DOMAIN task[t] = DOMAIN NewTask(t)
  /\ task[t].state_ \in {"Incomplete", "Running", "Complete"}
  /\ task[t].start_time_ \in Runs /\ task[t].end_time_ \in Runs
  /\ task[t].callable_ \in BOOLEAN
  /\ task[t].mtx_ \in Waiters \cup {None}
EdgeOK(t) ==
  /\ DOMAIN edge[t] = DOMAIN NewEdge
  /\ edge[t].is_retrievable_ \in BOOLEAN
  /\ edge[t].mtx_ \in Tasks \cup {None}
RunOK(t) ==
  /\ DOMAIN run[t] = DOMAIN NewRun
  /\ run[t].pc \in RunStates
  /\ run[t].slot \in 1 .. Len(Inputs[t]) + 1
  /\ run[t].args \in Seq(Range(run[t].args))
  /\ run[t].number \in Runs
  /\ run[t].pc = "idle" <=> run[t].number = 0
OutsideOK(x) ==
  /\ DOMAIN outside[x] = DOMAIN NewOutside
  /\ outside[x].pc \in OutsideStates
  /\ outside[x].answer \in {None, "Running", "Complete"}
TypeOK ==
  /\ DOMAIN task = Tasks /\ DOMAIN edge = Tasks /\ DOMAIN run = Tasks
  /\ \A t \in Tasks : TaskOK(t) /\ EdgeOK(t) /\ RunOK(t)
  /\ DOMAIN outside = Waiters \cup Readers
  /\ \A x \in Waiters \cup Readers : OutsideOK(x)
  /\ spurious \in 0 .. MaxSpurious

(* No wakeup is lost: whoever sleeps on an out edge that is retrievable is  *)
(* about to be notified, and so is whoever sleeps on a complete task if it  *)
(* is the only one to wait for it.                                          *)
OnlyWaiter(w) == \A v \in Waiters : WaitsFor[v] = WaitsFor[w] => v = w
NoLostWakeup ==
  \A t \in Tasks :
    /\ EdgeSleepers(t) # {} /\ edge[t].is_retrievable_ => run[t].pc = "notify_all"
    /\ task[t].state_ = "Complete" /\ (\E w \in TaskSleepers(t) : OnlyWaiter(w)) =>
         run[t].pc = "notify_one"

(* A callable gets the finished results of the tasks it depends on, in the  *)
(* order of its slots and without the void ones, however the threads that   *)
(* run those tasks are scheduled and whatever had to be run again.          *)
ArgsAreResults ==
  \A t \in Tasks :
    Called(t) =>
      /\ \A p \in DependsOn[t] : edge[p].is_retrievable_
      /\ task[t].result_ = Value[t]

(* Whoever sees a task Complete can ask for its duration, and so can a      *)
(* callable for what it depends on, unless that is run again meanwhile:     *)
(* both times are set, and by the same run.                                 *)
HasDuration(t) ==
  task[t].end_time_ # 0 /\ task[t].start_time_ = task[t].end_time_
DurationsAreKnown ==
  /\ \A t \in Tasks : get_state(t) = "Complete" => HasDuration(t)
  /\ \A t \in Tasks : run[t].pc = "fetch" =>
       \A p \in DependsOn[t] \ RerunFinished : HasDuration(p)

(* Whoever comes back from Task::wait, or has seen an edge retrievable,     *)
(* reads the final value, with no lock and no further wait; after wait the  *)
(* tasks that depend on the task need not block either.  Only get_result of *)
(* a task that the program runs again after it has finished may read what   *)
(* that run is just assigning.                                              *)
Overwritten(t) == t \in RerunFinished /\ run[t].number > 1
GotResult(w, t) ==
  \/ outside[w].got = Value[t]
  \/ outside[w].got = Torn /\ Overwritten(t)
ReadsAreResults ==
  /\ \A w \in Waiters :
       Returned(w) => /\ GotResult(w, WaitsFor[w])
                      /\ edge[WaitsFor[w]].is_retrievable_
  /\ \A r \in Readers : Returned(r) => outside[r].got = Value[ReadFrom(r)]

(* The invariant behind these, which is inductive.                          *)

(* A mutex held over a step belongs to a thread about to block or to answer,*)
(* which has found the flag not set, or the state Complete.  Everybody else *)
(* is past the edges that are retrievable, and past none that is not.       *)
BlockOK(t) ==
  /\ run[t].pc \in {"edge_block", "edge_blocked"} => HasSlot(t) /\ Edge(t) # None
  /\ run[t].pc = "edge_block" =>
       edge[Edge(t)].mtx_ = t /\ ~edge[Edge(t)].is_retrievable_
HolderOK(p) ==
  edge[p].mtx_ # None => LET t == edge[p].mtx_
                         IN  run[t].pc = "edge_block" /\ Edge(t) = p
PassedOK(t) ==
  /\ run[t].pc \in BeforeRunning =>
       /\ run[t].args = <<>>
       /\ \A i \in 1 .. run[t].slot - 1 :
            Inputs[t][i] # None => edge[Inputs[t][i]].is_retrievable_
  /\ run[t].pc \notin BeforeRunning \cup {"idle"} =>
       \A p \in DependsOn[t] : edge[p].is_retrievable_
EdgesInv == \A t \in Tasks : BlockOK(t) /\ HolderOK(t) /\ PassedOK(t)

(* Whoever sleeps on an edge that is retrievable is about to be notified.   *)
SleeperOK(t) ==
  run[t].pc = "edge_blocked" /\ edge[Edge(t)].is_retrievable_ =>
    run[Edge(t)].pc = "notify_all"
SleepersInv == \A t \in Tasks : SleeperOK(t)

WaiterOK(w) ==
  /\ outside[w].pc \in {"block", "answer"} => task[WaitsFor[w]].mtx_ = w
  /\ outside[w].pc \in {"block", "blocked"} /\ OnlyWaiter(w)
       /\ get_state(WaitsFor[w]) = "Complete" => run[WaitsFor[w]].pc = "notify_one"
  /\ outside[w].pc \in {"answer", "read", "returned"} =>
       edge[WaitsFor[w]].is_retrievable_
OwnerOK(t) ==
  task[t].mtx_ # None => LET w == task[t].mtx_
                         IN  outside[w].pc \in {"block", "answer"} /\ WaitsFor[w] = t
ReaderOK(r) ==
  outside[r].pc \in {"read", "returned"} => edge[ReadFrom(r)].is_retrievable_
WaitsInv ==
  /\ \A w \in Waiters : WaiterOK(w)
  /\ \A t \in Tasks : OwnerOK(t)
  /\ \A r \in Readers : ReaderOK(r)

(* How far a run has come is what state_, the times and the flag say, until *)
(* the next run of the task overwrites the state and the start time first.  *)
Marked(t) == run[t].pc \in {"notify_all", "complete", "notify_one", "finished"}
Timed(t) == Marked(t) \/ run[t].pc \in {"publish", "store", "mark"}
Started(t) == Timed(t) \/ run[t].pc \in {"fetch", "assign", "end", "thrown"}
ProgressOK(t) ==
  /\ Started(t) => /\ task[t].start_time_ = run[t].number
                   /\ task[t].state_ = IF run[t].pc \in {"notify_one", "finished"}
                                       THEN "Complete" ELSE "Running"
  /\ Timed(t) => task[t].end_time_ = run[t].number
  /\ Marked(t) => edge[t].is_retrievable_
  /\ edge[t].is_retrievable_ => /\ Marked(t) \/ Overwritten(t)
                                /\ task[t].state_ # "Incomplete"
  /\ task[t].state_ = "Complete" => edge[t].is_retrievable_ /\ HasDuration(t)
ProgressInv == \A t \in Tasks : ProgressOK(t)

(* Unless a task whose data another one fetches is run again after it has   *)
(* finished, what has been fetched, computed and published is final.        *)
NobodyFetchesTorn == \A t \in Tasks : DependsOn[t] \cap RerunFinished = {}
ResultOK(t) ==
  /\ run[t].pc = "fetch" => run[t].args = Arguments(Value, t)[run[t].slot - 1]
  /\ run[t].pc = "assign" =>
       /\ t \notin VoidTasks /\ task[t].result_ = Torn
       /\ run[t].args = Arguments(Value, t)[Len(Inputs[t])]
  /\ Called(t) \/ (edge[t].is_retrievable_ /\ run[t].pc # "assign") =>
       task[t].result_ = Value[t]
  /\ Marked(t) \/ run[t].pc = "mark" => edge[t].data_ = Value[t]
  /\ t \in VoidTasks => task[t].result_ = None /\ edge[t].data_ = None
GotResultOK(w) == Returned(w) => GotResult(w, WaitsFor[w])
GotDataOK(r) == Returned(r) => outside[r].got = Value[ReadFrom(r)]
ResultsInv ==
  NobodyFetchesTorn =>
    /\ \A t \in Tasks : ResultOK(t)
    /\ \A w \in Waiters : GotResultOK(w)
    /\ \A r \in Readers : GotDataOK(r)

TaskInv ==
  /\ TypeOK /\ EdgesInv /\ SleepersInv
  /\ WaitsInv /\ ProgressInv /\ ResultsInv

(* A task starts when the tasks it depends on have published their results, *)
(* and succeeds once: run() implements Dataflow.                            *)
StatusOf(t) ==
  IF edge[t].is_retrievable_ THEN "Complete"
  ELSE IF run[t].pc \in {"fetch", "assign", "end", "publish", "store", "mark"}
       THEN "Running"
  ELSE "Incomplete"
DF == INSTANCE Dataflow WITH status <- [t \in Tasks |-> StatusOf(t)]
ImplementsDataflow == DF!Spec

(* Every run() comes to its end, when the graph has no cycle, but for those *)
(* that need the result of a callable that has thrown and is not run again. *)
TasksComplete ==
  \A t \in Tasks : []<>(run[t].pc = "finished" \/ Stalled[t])

(* A call of Task::wait returns, with the same exception. *)
WaitReturns ==
  \A w \in Waiters :
    []<>(outside[w].pc \in {"idle", "returned"} \/ Stalled[WaitsFor[w]])
=============================================================================
