------------------------------ MODULE Dataflow ------------------------------
(***************************************************************************)
(* What POTTS promises about a task graph, with no threads, queues, edges  *)
(* or flags: a task starts when everything it depends on is complete, and  *)
(* completes once.  A task whose callable throws may start again.  A task  *)
(* need not ever start: it may never be submitted, or be cancelled.  Task  *)
(* and Executor implement it.                                              *)
(***************************************************************************)
CONSTANTS Tasks,          (* the tasks of the program                      *)
          DependsOn       (* DependsOn[t]: the tasks t has an edge from    *)

VARIABLE status           (* the lifecycle of each task                    *)

Init == status = [t \in Tasks |-> "Incomplete"]

Start(t) ==
  /\ status[t] = "Incomplete"
  /\ \A p \in DependsOn[t] : status[p] = "Complete"
  /\ status' = [status EXCEPT ![t] = "Running"]

Finish(t) ==
  /\ status[t] = "Running"
  /\ status' = [status EXCEPT ![t] = "Complete"]

Fail(t) ==
  /\ status[t] = "Running"
  /\ status' = [status EXCEPT ![t] = "Incomplete"]

Next == \E t \in Tasks : Start(t) \/ Finish(t) \/ Fail(t)

Spec == Init /\ [][Next]_status
=============================================================================
