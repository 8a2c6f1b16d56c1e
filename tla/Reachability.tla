---------------------------- MODULE Reachability ----------------------------
(***************************************************************************)
(* The dependency graph of POTTS and the order an executor derives from    *)
(* it: Node::set_reachability, compute_reachability and the std::sort in   *)
(* ThreadPoolExecutor::run.  All of it runs on one thread.  The recursion  *)
(* of set_reachability is an explicit stack, so that graphs with cycles,   *)
(* values left over from an earlier computation and the order in which     *)
(* nodes are visited are all part of the model.                            *)
(***************************************************************************)
EXTENDS Naturals, Sequences, FiniteSets

CONSTANTS Nodes,       (* the nodes (tasks) of the program                 *)
          Arity,       (* Arity[n]: number of InwardTs; 0 is Node<OutwardT>*)
          TaskLists,   (* the vectors compute_reachability may be given    *)
          MaxComputations, (* bound on the number of computations          *)
          None         (* a null edge or task pointer                      *)

ASSUME GraphAssumption ==
  /\ IsFiniteSet(Nodes)
  /\ Arity \in [Nodes -> Nat]
  /\ None \notin Nodes
  /\ TaskLists \subseteq Seq(Nodes \cup {None})
  /\ MaxComputations \in Nat

VARIABLES
  in_edges_,       (* in_edges_[n][i]: owner of the edge in slot i, or None *)
  reachability_,   (* the member of each node, 0 until computed             *)
  traverse_marker, (* nodes visited in the current computation              *)
  stack,           (* calls of set_reachability in progress, innermost last *)
  todo,            (* tasks compute_reachability has still to look at       *)
  tasks,           (* the vector being computed, later sorted               *)
  phase,           (* "building", "computing", "computed" or "sorted"       *)
  computations,    (* how many computations have begun                      *)
  returned         (* history: nodes whose call in this computation is over *)

vars == <<in_edges_, reachability_, traverse_marker, stack, todo, tasks,
          phase, computations, returned>>

Init ==
  /\ in_edges_ = [n \in Nodes |-> [i \in 1 .. Arity[n] |-> None]]
  /\ reachability_ = [n \in Nodes |-> 0]
  /\ traverse_marker = {}
  /\ stack = <<>>
  /\ todo = <<>>
  /\ tasks = <<>>
  /\ phase = "building"
  /\ computations = 0
  /\ returned = {}

(* A root node, Node<OutwardT>, has no reachability_: it answers 0. *)
IsRoot(n) == Arity[n] = 0
get_reachability(n) == IF IsRoot(n) THEN 0 ELSE reachability_[n]

Larger(a, b) == IF a > b THEN a ELSE b

(* One call: the node, the slot it looks at, the largest value it has seen. *)
(* Faulty variant: the first slot has index 0.                              *)
FrameFromZero(n) == [node |-> n, slot |-> 0, best |-> 0]
Frame(n) == [node |-> n, slot |-> 1, best |-> 0]
Top == stack[Len(stack)]
Under == SubSeq(stack, 1, Len(stack) - 1)

(* The call goes on to its next slot with one more value seen.              *)
(* Faulty variant: a slot that contributes nothing is looked at again.      *)
SeenStuckOnNull(f, value) ==
  [f EXCEPT !.slot = IF value = 0 THEN @ ELSE @ + 1, !.best = Larger(@, value)]
Seen(f, value) == [f EXCEPT !.slot = @ + 1, !.best = Larger(@, value)]

(* A call with the marker on m: nothing if m is marked, otherwise mark it   *)
(* and, unless m is a root, look at its slots.  Faulty variants: m is       *)
(* visited although it is marked; only the calls in progress count.         *)
PushesMarked(m) == ~IsRoot(m)
PushesOffStack(m) ==
  ~IsRoot(m) /\ \A i \in DOMAIN stack : stack[i].node # m
Pushes(m) == m \notin traverse_marker /\ ~IsRoot(m)

(* All that the call does on a root, and the first thing on another node.   *)
Mark(m) == traverse_marker' = traverse_marker \cup {m}

(* The marked nodes once a computation is over: its marker is a local       *)
(* variable and the next one starts empty.  Faulty variant: it is a static. *)
MarkerKept == traverse_marker
NoMarker == {}

(* operator<: n may stand after m in a sorted vector.                       *)
(* Faulty variant: the comparison is reversed.                              *)
NotAfterReversed(m, n) == get_reachability(m) >= get_reachability(n)
NotAfter(m, n) == get_reachability(m) <= get_reachability(n)

------------------------------------------------------------------------------
(* add_inward_edge: the slot may be empty or hold an edge already.  The     *)
(* next computation is given its vector anew.                               *)
Connect(n, i, m) ==
  /\ phase # "computing"
  /\ in_edges_[n][i] # m
  /\ in_edges_' = [in_edges_ EXCEPT ![n][i] = m]
  /\ phase' = "building"
  /\ tasks' = <<>>
  /\ UNCHANGED <<reachability_, traverse_marker, stack, todo, computations,
                 returned>>

(* compute_reachability starts: a new marker for the whole list. *)
ComputeBegin(list) ==
  /\ phase # "computing"
  /\ computations < MaxComputations
  /\ computations' = computations + 1
  /\ phase' = "computing"
  /\ tasks' = list
  /\ todo' = list
  /\ UNCHANGED <<in_edges_, reachability_, traverse_marker, stack, returned>>

(* set_reachability() on one node that is not a root: its own new marker,   *)
(* in which the node itself is not marked.                                  *)
SingleBegin(n) ==
  /\ phase # "computing"
  /\ ~IsRoot(n)
  /\ computations < MaxComputations
  /\ computations' = computations + 1
  /\ phase' = "computing"
  /\ tasks' = <<n>>
  /\ todo' = <<>>
  /\ stack' = <<Frame(n)>>
  /\ UNCHANGED <<in_edges_, reachability_, traverse_marker, returned>>

(* The next task of the list; null pointers are skipped. *)
ComputeNext ==
  /\ phase = "computing"
  /\ stack = <<>>
  /\ todo # <<>>
  /\ todo' = Tail(todo)
  /\ LET t == Head(todo)
     IN  \/ t = None /\ UNCHANGED <<traverse_marker, stack>>
         \/ /\ t # None
            /\ Mark(t)
            /\ stack' = IF Pushes(t) THEN <<Frame(t)>> ELSE <<>>
  /\ UNCHANGED <<in_edges_, reachability_, tasks, phase, computations,
                 returned>>

(* The innermost call looks at a slot.  A null edge counts 0; the owner of  *)
(* an edge is called and then asked.                                        *)
Visit ==
  /\ stack # <<>>
  /\ Top.slot <= Arity[Top.node]
  /\ LET m == in_edges_[Top.node][Top.slot]
     IN  \/ /\ m = None
            /\ stack' = Append(Under, Seen(Top, 0))
            /\ UNCHANGED traverse_marker
         \/ /\ m # None
            /\ Mark(m)
            /\ stack' = IF Pushes(m) THEN Append(stack, Frame(m))
                        ELSE Append(Under, Seen(Top, get_reachability(m)))
  /\ UNCHANGED <<in_edges_, reachability_, todo, tasks, phase, computations,
                 returned>>

(* All slots seen: store the maximum plus one and return to the caller,     *)
(* which asks for the value.                                                *)
Leave ==
  /\ stack # <<>>
  /\ Top.slot > Arity[Top.node]
  /\ reachability_' = [reachability_ EXCEPT ![Top.node] = Top.best + 1]
  /\ stack' = IF Under = <<>> THEN <<>>
              ELSE [Under EXCEPT ![Len(Under)] = Seen(@, Top.best + 1)]
  /\ returned' = returned \cup {Top.node}
  /\ UNCHANGED <<in_edges_, traverse_marker, todo, tasks, phase,
                 computations>>

(* The outermost call returns and its marker is gone. *)
ComputeEnd ==
  /\ phase = "computing"
  /\ stack = <<>>
  /\ todo = <<>>
  /\ phase' = "computed"
  /\ traverse_marker' = NoMarker
  /\ returned' = {}
  /\ UNCHANGED <<in_edges_, reachability_, stack, todo, tasks, computations>>

(* std::sort: any permutation in which no element is smaller than one       *)
(* before it; elements that compare equal come in any order.                *)
SortedOrders ==
  {[i \in DOMAIN tasks |-> tasks[p[i]]] : p \in
     {p \in [DOMAIN tasks -> DOMAIN tasks] :
        \A i, k \in DOMAIN tasks :
          i < k => p[i] # p[k] /\ NotAfter(tasks[p[i]], tasks[p[k]])}}

Sort ==
  /\ phase = "computed"
  /\ \A i \in DOMAIN tasks : tasks[i] # None
  /\ phase' = "sorted"
  /\ tasks' \in SortedOrders
  /\ UNCHANGED <<in_edges_, reachability_, traverse_marker, stack, todo,
                 computations, returned>>

ComputeStep == ComputeNext \/ Visit \/ Leave \/ ComputeEnd

Next ==
  \/ \E n, m \in Nodes : \E i \in 1 .. Arity[n] : Connect(n, i, m)
  \/ \E list \in TaskLists : ComputeBegin(list)
  \/ \E n \in Nodes : SingleBegin(n)
  \/ ComputeStep
  \/ Sort

Spec == Init /\ [][Next]_vars
FairSpec == Spec /\ WF_vars(ComputeStep)

------------------------------------------------------------------------------
(* Reference definitions, independent of the algorithm. *)

Providers(n) == {in_edges_[n][i] : i \in 1 .. Arity[n]} \ {None}

(* Chains of dependencies without repetition: each node provides for the    *)
(* one after it.                                                            *)
Chains ==
  UNION {{c \in [1 .. k -> Nodes] :
            /\ \A i \in 1 .. k - 1 : c[i] \in Providers(c[i + 1])
            /\ \A i, j \in 1 .. k : i # j => c[i] # c[j]} :
           k \in 1 .. Cardinality(Nodes)}

ChainsTo(n) == {c \in Chains : c[Len(c)] = n}

(* All nodes n depends on, directly or through others (and n on a cycle). *)
Dependencies(n) ==
  {c[1] : c \in UNION {ChainsTo(m) : m \in Providers(n)}}

(* No chain can be closed to a cycle: no node is among its dependencies.    *)
Acyclic == \A c \in Chains : c[Len(c)] \notin Providers(c[1])

(* The longest chain that ends in n, in edges; a chain from a node with     *)
(* inputs that are all unconnected counts one more than from a root.        *)
IsDepth(n, d) ==
  LET Length(c) == IF Arity[c[1]] = 0 THEN Len(c) - 1 ELSE Len(c)
  IN  /\ \E c \in ChainsTo(n) : Length(c) = d
      /\ \A c \in ChainsTo(n) : Length(c) <= d

(* The nodes the last computation was asked about, with what they need. *)
Listed == {tasks[i] : i \in DOMAIN tasks} \ {None}
Covered == Listed \cup UNION {Dependencies(n) : n \in Listed}

------------------------------------------------------------------------------
(* Properties. *)

TypeOK ==
  /\ \A n \in Nodes : in_edges_[n] \in [1 .. Arity[n] -> Nodes \cup {None}]
  /\ reachability_ \in [Nodes -> Nat]
  /\ traverse_marker \subseteq Nodes
  /\ returned \subseteq Nodes
  /\ stack \in Seq([node : Nodes, slot : Nat \ {0}, best : Nat])
  /\ todo \in Seq(Nodes \cup {None})
  /\ tasks \in Seq(Nodes \cup {None})
  /\ phase \in {"building", "computing", "computed", "sorted"}

(* A computation leaves nothing behind on the way, and nothing of one is    *)
(* there when none is going on.                                             *)
QuietInv ==
  phase # "computing" =>
    stack = <<>> /\ todo = <<>> /\ traverse_marker = {} /\ returned = {}

(* Each call but the outermost is of a node of its own that is marked and   *)
(* has not returned before.  The node set_reachability() was called on is   *)
(* not marked, but then no task is left to be looked at.                    *)
MarkerInv ==
  /\ \A i \in 2 .. Len(stack) :
       /\ stack[i].node \in traverse_marker \ returned
       /\ \A k \in 2 .. Len(stack) : i # k => stack[i].node # stack[k].node
  /\ stack # <<>> /\ todo # <<>> => stack[1].node \in traverse_marker
  /\ stack # <<>> \/ todo # <<>> => returned \subseteq traverse_marker

(* Each call was made for the slot the one outside it looks at.             *)
CallsInv ==
  /\ \A i \in 1 .. Len(stack) :
       /\ ~IsRoot(stack[i].node)
       /\ stack[i].slot <= Arity[stack[i].node] + 1
  /\ \A i \in 1 .. Len(stack) - 1 :
       /\ stack[i].slot <= Arity[stack[i].node]
       /\ stack[i + 1].node = in_edges_[stack[i].node][stack[i].slot]

OnStack == {stack[i].node : i \in 1 .. Len(stack)}
Settled == (traverse_marker \cup returned) \ OnStack
SeenBy(f) == {in_edges_[f.node][i] : i \in 1 .. f.slot - 1} \ {None}

IsLargestOf(value, nodes) ==
  /\ value = 0 \/ \E m \in nodes : value = get_reachability(m)
  /\ \A m \in nodes : get_reachability(m) <= value

(* A set of nodes that agree with the nodes they need, all of them in it.   *)
Consistent(nodes) ==
  \A n \in nodes :
    /\ Providers(n) \subseteq nodes
    /\ ~IsRoot(n) => /\ reachability_[n] > 0
                     /\ IsLargestOf(reachability_[n] - 1, Providers(n))

(* Nodes that are done agree with each other, a call knows the largest      *)
(* value of the slots it has seen, and no listed node is forgotten; unless  *)
(* there is a cycle.                                                        *)
ComputingOK ==
  /\ Consistent(Settled)
  /\ \A i \in 1 .. Len(stack) :
       /\ SeenBy(stack[i]) \subseteq Settled
       /\ IsLargestOf(stack[i].best, SeenBy(stack[i]))
  /\ Listed \subseteq
       Settled \cup OnStack \cup {todo[i] : i \in 1 .. Len(todo)}

ComputedOK ==
  \E nodes \in SUBSET Nodes : Listed \subseteq nodes /\ Consistent(nodes)

ValuesInv ==
  \/ phase = "building"
  \/ phase = "computing" /\ ComputingOK
  \/ phase \in {"computed", "sorted"} /\ ComputedOK
  \/ ~Acyclic

SortedInv ==
  phase = "sorted" =>
    \A i, k \in DOMAIN tasks :
      tasks[i] # None /\ (i < k => NotAfter(tasks[i], tasks[k]))

(* The inductive invariant. *)
ReachabilityInv ==
  TypeOK /\ QuietInv /\ MarkerInv /\ CallsInv /\ ValuesInv /\ SortedInv

(* A computation on a graph without cycles leaves every node it covers with *)
(* the length of its longest chain of dependencies, in whatever order the   *)
(* tasks were listed and whatever values an earlier computation left.       *)
ReachabilityIsDepth ==
  phase = "computed" /\ Acyclic =>
    \A n \in Covered : IsDepth(n, get_reachability(n))

(* After the sort no task stands before one it depends on, not even through *)
(* tasks that are not in the vector.                                        *)
SortedIsTopological ==
  phase = "sorted" /\ Acyclic =>
    \A i, k \in DOMAIN tasks : i < k => tasks[k] \notin Dependencies(tasks[i])

(* The recursion is at most one call per node deep, plus the call           *)
(* set_reachability() makes on an unmarked node, on cyclic graphs too.      *)
RecursionIsBounded ==
  /\ Len(stack) <= Cardinality(Nodes) + 1
  /\ \A i, k \in 2 .. Len(stack) : i # k => stack[i].node # stack[k].node

(* Within a computation a node whose call has returned keeps its value, on  *)
(* cyclic graphs too: shared dependencies are evaluated once.  Only the     *)
(* node set_reachability() was called on, which is not marked, may be met   *)
(* again on a cycle.                                                        *)
EvaluatedOnce ==
  [][\A n \in returned :
       reachability_'[n] # reachability_[n] => stack[1].node = n]_vars

(* A computation comes to its end, on every graph. *)
ComputationEnds == (phase = "computing") ~> (phase = "computed")
=============================================================================
