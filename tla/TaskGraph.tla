------------------------------ MODULE TaskGraph ------------------------------
(***************************************************************************)
(* The tasks of a program and their inward edges, what set_reachability    *)
(* leaves on them if there is no cycle (Reachability shows that it does),  *)
(* and the orders in which an executor may submit them.                    *)
(***************************************************************************)
EXTENDS Naturals, Sequences, FiniteSets, Functions

CONSTANTS Tasks,        (* the tasks of the program                         *)
          Inputs,       (* Inputs[t][i]: owner of the edge in slot i, or None*)
          None          (* no edge                                          *)

ASSUME TaskGraphAssumption ==
  /\ IsFiniteSet(Tasks)
  /\ None \notin Tasks
  /\ Inputs \in [Tasks -> Seq(Tasks \cup {None})]

DependsOn == [t \in Tasks |-> Range(Inputs[t]) \ {None}]

(* No task depends on itself, be it through others: each has a rank above   *)
(* the ranks of the tasks it depends on.                                    *)
ASSUME NoCycle ==
  \E rank \in [Tasks -> 0 .. Cardinality(Tasks)] :
    \A t \in Tasks : \A p \in DependsOn[t] : rank[p] < rank[t]

Depth[t \in Tasks] ==
  IF Inputs[t] = <<>> THEN 0
  ELSE LET depths == {0} \cup {Depth[p] : p \in DependsOn[t]}
       IN  1 + CHOOSE d \in depths : \A e \in depths : e <= d

(* A vector with no task in it twice.                                       *)
Distinct(list) == \A i, k \in DOMAIN list : i # k => list[i] # list[k]

(* The vectors std::sort may leave.  Faulty variants: none is made, or the  *)
(* order is reversed.                                                       *)
Permuted(list) ==
  {[i \in DOMAIN list |-> list[p[i]]] : p \in
     {p \in [DOMAIN list -> DOMAIN list] :
        \A i, k \in DOMAIN list : i < k => p[i] # p[k]}}

SortedNot(list) == {list}
SortedReversed(list) ==
  {s \in Permuted(list) :
     \A i, k \in DOMAIN s : i < k => Depth[s[i]] >= Depth[s[k]]}
Sorted(list) ==
  {s \in Permuted(list) :
     \A i, k \in DOMAIN s : i < k => Depth[s[i]] <= Depth[s[k]]}
=============================================================================
