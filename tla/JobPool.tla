------------------------------- MODULE JobPool -------------------------------
(***************************************************************************)
(* What potts::ThreadPool promises to the program that uses it, with no    *)
(* locks, condition variables or counters: a FIFO queue of jobs, a bounded *)
(* number of jobs in execution, a clear that drops what has not started,   *)
(* a wait that returns only when nothing is queued or executing, and a     *)
(* shutdown that lets executing jobs end.  ThreadPool implements it.       *)
(***************************************************************************)
EXTENDS Naturals, Sequences, FiniteSets

CONSTANTS Jobs,      (* the callables handed to add_task                   *)
          Threads,   (* everybody who may call wait                        *)
          Capacity   (* how many jobs may execute at the same time         *)

VARIABLES pending,   (* jobs accepted and not started, oldest first        *)
          running,   (* jobs in execution                                  *)
          done,      (* jobs whose callable has returned                   *)
          cleared,   (* jobs dropped by clear_queued_tasks                 *)
          waiting,   (* threads inside wait                                *)
          phase      (* "open", then "closing", then "gone"                *)

vars == <<pending, running, done, cleared, waiting, phase>>

QueuedJobs == {pending[i] : i \in DOMAIN pending}
Known == QueuedJobs \cup running \cup done \cup cleared

Init ==
  /\ pending = <<>>
  /\ running = {}
  /\ done = {}
  /\ cleared = {}
  /\ waiting = {}
  /\ phase = "open"

(* A new job goes to the end of the queue. *)
Submit(j) ==
  /\ phase # "gone"
  /\ j \notin Known
  /\ pending' = Append(pending, j)
  /\ UNCHANGED <<running, done, cleared, waiting, phase>>

(* The oldest queued job starts; at most Capacity jobs execute at once. *)
Start ==
  /\ phase # "gone"
  /\ pending # <<>>
  /\ Cardinality(running) < Capacity
  /\ running' = running \cup {Head(pending)}
  /\ pending' = Tail(pending)
  /\ UNCHANGED <<done, cleared, waiting, phase>>

Finish(j) ==
  /\ j \in running
  /\ running' = running \ {j}
  /\ done' = done \cup {j}
  /\ UNCHANGED <<pending, cleared, waiting, phase>>

(* Every queued job is dropped, and no executing one. *)
Clear ==
  /\ phase # "gone"
  /\ cleared' = cleared \cup QueuedJobs
  /\ pending' = <<>>
  /\ UNCHANGED <<running, done, waiting, phase>>

Wait(t) ==
  /\ phase # "gone"
  /\ t \notin waiting
  /\ waiting' = waiting \cup {t}
  /\ UNCHANGED <<pending, running, done, cleared, phase>>

(* The promise of wait: no accepted job is queued or executing. *)
Return(t) ==
  /\ t \in waiting
  /\ pending = <<>>
  /\ running = {}
  /\ waiting' = waiting \ {t}
  /\ UNCHANGED <<pending, running, done, cleared, phase>>

Shutdown ==
  /\ phase = "open"
  /\ phase' = "closing"
  /\ UNCHANGED <<pending, running, done, cleared, waiting>>

(* The pool disappears only when no job executes; queued jobs go with it. *)
Vanish ==
  /\ phase = "closing"
  /\ running = {}
  /\ phase' = "gone"
  /\ UNCHANGED <<pending, running, done, cleared, waiting>>

Next ==
  \/ \E j \in Jobs : Submit(j) \/ Finish(j)
  \/ Start
  \/ Clear
  \/ \E t \in Threads : Wait(t) \/ Return(t)
  \/ Shutdown
  \/ Vanish

Spec == Init /\ [][Next]_vars
==============================================================================
