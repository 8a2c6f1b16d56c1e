--------------------------- MODULE TaskGraphProofs ---------------------------
(***************************************************************************)
(* Proofs about TaskGraph, for any acyclic graph: the recursive function   *)
(* Depth exists and grows along the edges, and what std::sort leaves.      *)
(* Induction over numbers is a lemma about sets here: the theorems of the  *)
(* library that take the induction hypothesis as an operator cannot be     *)
(* used, but the well-founded order of finite sets can.                    *)
(***************************************************************************)
EXTENDS TaskGraph, FiniteSetTheorems, SequenceTheorems, TLAPS

(* A set of numbers has a least element: of the intervals 0 .. n, one      *)
(* contains no other.                                                      *)
LEMMA LeastNumber ==
  ASSUME NEW T \in SUBSET Nat, T # {}
  PROVE  \E m \in T : \A n \in T : m <= n
<1> DEFINE Below == {0 .. n : n \in T}
<1>1. IsWellFoundedOn(StrictSubsetOrdering(Nat), FiniteSubsetsOf(Nat))
  BY FS_StrictSubsetOrderingWellFounded
<1>2. Below \subseteq FiniteSubsetsOf(Nat) /\ Below # {}
  <2>1. ASSUME NEW n \in T PROVE 0 .. n \in FiniteSubsetsOf(Nat)
    <3>1. IsFiniteSet(0 .. n)
      BY FS_Interval
    <3>2. 0 .. n \in SUBSET Nat
      OBVIOUS
    <3>. QED
      BY <3>1, <3>2 DEF FiniteSubsetsOf
  <2>. QED
    BY <2>1
<1> HIDE DEF Below
<1>3. PICK b \in Below : \A c \in Below : ~ (<<c, b>> \in StrictSubsetOrdering(Nat))
  BY <1>1, <1>2, WFMin
<1>4. PICK m \in T : b = 0 .. m
  BY DEF Below
<1>5. ASSUME NEW n \in T, ~(m <= n) PROVE FALSE
  <2>1. 0 .. n \in Below
    BY DEF Below
  <2>2. <<0 .. n, 0 .. m>> \in StrictSubsetOrdering(Nat)
    <3>1. m \in Nat /\ n \in Nat /\ n < m
      BY <1>5
    <3>2. 0 .. n \in SUBSET Nat /\ 0 .. m \in SUBSET Nat /\ 0 .. n \subseteq 0 .. m
      BY <3>1
    <3>3. m \in 0 .. m /\ m \notin 0 .. n
      BY <3>1
    <3>4. 0 .. n # 0 .. m
      BY <3>3
    <3>. QED
      BY <3>2, <3>4 DEF StrictSubsetOrdering
  <2>. QED
    BY <1>3, <1>4, <2>1, <2>2
<1>. QED
  BY <1>5

(* Induction: a set with 0, and with n + 1 whenever it has n, has all      *)
(* numbers.                                                                *)
LEMMA InductionOnNat ==
  ASSUME NEW S, 0 \in S, \A n \in Nat : n \in S => n + 1 \in S
  PROVE  Nat \subseteq S
<1> DEFINE T == Nat \ S
<1>1. SUFFICES ASSUME T # {} PROVE FALSE
  OBVIOUS
<1>2. PICK m \in T : \A n \in T : m <= n
  BY <1>1, LeastNumber
<1>3. m # 0 /\ m \in Nat
  BY <1>2
<1>4. m - 1 \in Nat /\ m - 1 \notin T
  BY <1>2, <1>3
<1>. QED
  BY <1>2, <1>3, <1>4

(* A finite set of numbers has a largest element.                          *)
LEMMA LargestNumber ==
  ASSUME NEW T \in SUBSET Nat, IsFiniteSet(T), T # {}
  PROVE  \E m \in T : \A n \in T : n <= m
<1> DEFINE HasMax(U) == \E m \in U : \A n \in U : n <= m
           S == {k \in Nat : \A U \in SUBSET Nat :
                   IsFiniteSet(U) /\ Cardinality(U) = k /\ U # {} => HasMax(U)}
<1>1. 0 \in S
  BY FS_EmptySet
<1>2. ASSUME NEW k \in Nat, k \in S PROVE k + 1 \in S
  <2> SUFFICES ASSUME NEW U \in SUBSET Nat, IsFiniteSet(U), Cardinality(U) = k + 1, U # {}
               PROVE  HasMax(U)
    OBVIOUS
  <2>1. PICK x \in U : TRUE
    OBVIOUS
  <2> DEFINE V == U \ {x}
  <2>2. IsFiniteSet(V) /\ Cardinality(V) = Cardinality(U) - 1
    BY FS_RemoveElement
  <2> HIDE DEF V
  <2>3. CASE V = {}
    BY <2>3 DEF V
  <2>4. CASE V # {}
    <3>1. PICK m \in V : \A n \in V : n <= m
      BY <1>2, <2>2, <2>4 DEF V
    <3> USE DEF V
    <3>2. CASE x <= m
      BY <3>1, <3>2
    <3>3. CASE m < x
      <4>1. \A n \in V : n <= x
        BY <3>1, <3>3
      <4>. QED
        BY <4>1
    <3>. QED
      BY <3>2, <3>3
  <2>. QED
    BY <2>3, <2>4
<1> HIDE DEF S
<1>3. Nat \subseteq S
  BY <1>1, <1>2, InductionOnNat
<1>4. Cardinality(T) \in S
  BY <1>3, FS_CardinalityType
<1>. QED
  BY <1>4 DEF S

(* What the definition of Depth says of t, with f for Depth. *)
Largest(S) == CHOOSE d \in S : \A e \in S : e <= d
DepthOf(f, t) ==
  IF Inputs[t] = <<>> THEN 0
  ELSE 1 + Largest({0} \cup {f[p] : p \in DependsOn[t]})

(* A task depends on finitely many tasks, on none if it has no inputs.     *)
LEMMA DependsOnTasks ==
  ASSUME TaskGraphAssumption, NEW t \in Tasks
  PROVE  /\ DependsOn[t] \subseteq Tasks
         /\ IsFiniteSet(DependsOn[t])
         /\ Inputs[t] = <<>> => DependsOn[t] = {}
<1>1. Inputs[t] \in Seq(Tasks \cup {None})
  BY DEF TaskGraphAssumption
<1>2. DependsOn[t] = Range(Inputs[t]) \ {None}
  BY DEF DependsOn
<1>3. DependsOn[t] \subseteq Tasks
  BY <1>1, <1>2 DEF Range
<1>4. IsFiniteSet(DependsOn[t])
  BY <1>3, FS_Subset DEF TaskGraphAssumption
<1>5. Inputs[t] = <<>> => DependsOn[t] = {}
  BY <1>2 DEF Range
<1>. QED
  BY <1>3, <1>4, <1>5

(* A task is one deeper than any task it depends on.                       *)
LEMMA DepthOfBounds ==
  ASSUME TaskGraphAssumption, NEW t \in Tasks,
         NEW f, \A p \in DependsOn[t] : f[p] \in Nat
  PROVE  /\ DepthOf(f, t) \in Nat
         /\ \A p \in DependsOn[t] : f[p] < DepthOf(f, t)
<1> DEFINE D == DependsOn[t]
           image == {f[p] : p \in D}
           depths == {0} \cup image
<1>1. D \subseteq Tasks /\ IsFiniteSet(D)
  BY DependsOnTasks
<1>2. CASE Inputs[t] = <<>>
  BY <1>2, DependsOnTasks DEF DepthOf
<1>3. CASE Inputs[t] # <<>>
  <2>1. IsFiniteSet(image)
    <3> DEFINE g == [p \in D |-> f[p]]
    <3>1. g \in Surjection(D, image)
      BY DEF Surjection
    <3> HIDE DEF g, image, D
    <3>. QED
      BY <1>1, <3>1, FS_Surjection
  <2>2. image \subseteq Nat
    BY <1>1
  <2> HIDE DEF image
  <2>3. IsFiniteSet(depths)
    <3>1. IsFiniteSet(image \cup {0}) /\ depths = image \cup {0}
      BY <2>1, FS_AddElement
    <3>. QED
      BY <3>1
  <2>4. depths \in SUBSET Nat /\ depths # {}
    BY <2>2
  <2> HIDE DEF depths
  <2>5. \E d \in depths : \A e \in depths : e <= d
    BY <2>3, <2>4, LargestNumber
  <2> DEFINE m == CHOOSE d \in depths : \A e \in depths : e <= d
  <2>6. m \in depths /\ \A e \in depths : e <= m
    BY <2>5
  <2>7. DepthOf(f, t) = 1 + m
    BY <1>3 DEF DepthOf, Largest, depths, image
  <2> HIDE DEF m
  <2>8. \A p \in D : f[p] \in depths
    BY DEF depths, image
  <2>. QED
    BY <1>1, <2>4, <2>6, <2>7, <2>8
<1>. QED
  BY <1>2, <1>3

(* The depth of a task is determined by those of the tasks it depends on.  *)
LEMMA DepthOfDepends ==
  ASSUME NEW t \in Tasks, NEW f, NEW g, \A p \in DependsOn[t] : f[p] = g[p]
  PROVE  DepthOf(f, t) = DepthOf(g, t)
<1>1. {f[p] : p \in DependsOn[t]} = {g[p] : p \in DependsOn[t]}
  OBVIOUS
<1>. QED
  BY <1>1 DEF DepthOf

(* A function that satisfies the definition of Depth exists: by induction  *)
(* on the rank, one that satisfies it for the tasks below each rank does.  *)
LEMMA DepthExists ==
  ASSUME TaskGraphAssumption, NoCycle
  PROVE  \E f \in [Tasks -> Nat] : f = [t \in Tasks |-> DepthOf(f, t)]
<1> DEFINE N == Cardinality(Tasks)
<1>1. N \in Nat
  BY FS_CardinalityType DEF TaskGraphAssumption
<1>2. PICK rank \in [Tasks -> 0 .. N] :
        \A t \in Tasks : \A p \in DependsOn[t] : rank[p] < rank[t]
  BY DEF NoCycle
<1> HIDE DEF N
<1> DEFINE Good(f, n) == \A t \in Tasks : rank[t] < n => f[t] = DepthOf(f, t)
           S == {n \in Nat : \E f \in [Tasks -> Nat] : Good(f, n)}
<1>3. 0 \in S
  <2>1. [t \in Tasks |-> 0] \in [Tasks -> Nat]
    OBVIOUS
  <2>2. \A t \in Tasks : ~(rank[t] < 0)
    BY <1>1
  <2>3. Good([t \in Tasks |-> 0], 0)
    BY <2>2
  <2> HIDE DEF Good
  <2>. QED
    BY <2>1, <2>3
<1>4. ASSUME NEW n \in Nat, n \in S PROVE n + 1 \in S
  <2>1. PICK f \in [Tasks -> Nat] : Good(f, n)
    BY <1>4
  <2> DEFINE g == [t \in Tasks |-> DepthOf(f, t)]
  <2>2. g \in [Tasks -> Nat]
    BY DepthOfBounds, DependsOnTasks
  <2>3. ASSUME NEW t \in Tasks, rank[t] < n + 1 PROVE g[t] = DepthOf(g, t)
    <3>1. ASSUME NEW p \in DependsOn[t] PROVE g[p] = f[p]
      <4>1. p \in Tasks
        BY DependsOnTasks
      <4>2. rank[p] \in Nat /\ rank[t] \in Nat /\ rank[p] < rank[t]
        BY <1>1, <1>2, <4>1
      <4>3. rank[p] < n
        BY <2>3, <4>2
      <4>. QED
        BY <2>1, <4>1, <4>3
    <3> HIDE DEF g
    <3>2. DepthOf(f, t) = DepthOf(g, t)
      BY <3>1, DepthOfDepends
    <3>. QED
      BY <3>2 DEF g
  <2> HIDE DEF g
  <2>4. Good(g, n + 1)
    BY <2>3
  <2>. QED
    <3> HIDE DEF Good
    <3>. QED
      BY <2>2, <2>4
<1> HIDE DEF S
<1>5. N + 1 \in S
  BY <1>1, <1>3, <1>4, InductionOnNat
<1>6. PICK f \in [Tasks -> Nat] : Good(f, N + 1)
  BY <1>5 DEF S
<1>7. \A t \in Tasks : f[t] = DepthOf(f, t)
  BY <1>1, <1>2, <1>6
<1>8. f = [t \in Tasks |-> DepthOf(f, t)]
  BY <1>7
<1>. QED
  BY <1>8

(* Node::getReachability is well defined on a graph without cycles: Depth  *)
(* satisfies its own recursive definition, ...                             *)
THEOREM DepthIsWellDefined ==
  ASSUME TaskGraphAssumption, NoCycle
  PROVE  Depth = [t \in Tasks |-> DepthOf(Depth, t)]
<1>1. PICK f : f = [t \in Tasks |-> DepthOf(f, t)]
  BY DepthExists
<1>2. Depth = CHOOSE g : g = [t \in Tasks |-> DepthOf(g, t)]
  BY DEF Depth, DepthOf, Largest
<1>. QED
  BY <1>1, <1>2

(* ... a number, larger than those of the tasks it depends on.             *)
THEOREM DepthIncreases ==
  ASSUME TaskGraphAssumption, NoCycle
  PROVE  /\ Depth \in [Tasks -> Nat]
         /\ \A t \in Tasks : \A p \in DependsOn[t] : Depth[p] < Depth[t]
<1> DEFINE N == Cardinality(Tasks)
<1>1. N \in Nat
  BY FS_CardinalityType DEF TaskGraphAssumption
<1>2. PICK rank \in [Tasks -> 0 .. N] :
        \A t \in Tasks : \A p \in DependsOn[t] : rank[p] < rank[t]
  BY DEF NoCycle
<1>3. Depth = [t \in Tasks |-> DepthOf(Depth, t)]
  BY DepthIsWellDefined
<1> HIDE DEF N
<1> DEFINE S == {n \in Nat : \A t \in Tasks : rank[t] < n => Depth[t] \in Nat}
<1>4. 0 \in S
  BY <1>1
<1>5. ASSUME NEW n \in Nat, n \in S PROVE n + 1 \in S
  <2> SUFFICES ASSUME NEW t \in Tasks, rank[t] < n + 1 PROVE Depth[t] \in Nat
    OBVIOUS
  <2>1. ASSUME NEW p \in DependsOn[t] PROVE Depth[p] \in Nat
    <3>1. p \in Tasks
      BY DependsOnTasks
    <3>2. rank[p] \in Nat /\ rank[t] \in Nat /\ rank[p] < rank[t]
      BY <1>1, <1>2, <3>1
    <3>. QED
      BY <1>5, <3>1, <3>2
  <2>2. DepthOf(Depth, t) \in Nat
    BY <2>1, DepthOfBounds
  <2>. QED
    BY <1>3, <2>2
<1> HIDE DEF S
<1>6. N + 1 \in S
  BY <1>1, <1>4, <1>5, InductionOnNat
<1>7. \A t \in Tasks : Depth[t] \in Nat
  BY <1>1, <1>2, <1>6 DEF S
<1>8. Depth \in [Tasks -> Nat]
  BY <1>3, <1>7
<1>9. ASSUME NEW t \in Tasks, NEW p \in DependsOn[t] PROVE Depth[p] < Depth[t]
  <2>1. \A q \in DependsOn[t] : Depth[q] \in Nat
    BY <1>7, DependsOnTasks
  <2>2. Depth[p] < DepthOf(Depth, t)
    BY <2>1, DepthOfBounds
  <2>. QED
    BY <1>3, <2>2
<1>. QED
  BY <1>8, <1>9

(* What std::sort leaves is a vector of the same length, of different      *)
(* tasks if they were, of no other tasks, in the order of their depth.     *)
LEMMA SortedVector ==
  ASSUME NEW list \in Seq(Tasks), NEW s \in Sorted(list)
  PROVE  /\ s \in Seq(Tasks)
         /\ Len(s) = Len(list)
         /\ Range(s) = Range(list)
         /\ Distinct(list) => Distinct(s)
         /\ \A i, k \in DOMAIN s : i < k => Depth[s[i]] <= Depth[s[k]]
<1> DEFINE D == 1 .. Len(list)
<1>1. D = DOMAIN list /\ Len(list) \in Nat
  OBVIOUS
<1>2. PICK p \in [D -> D] : /\ s = [i \in D |-> list[p[i]]]
                            /\ \A i, k \in D : i < k => p[i] # p[k]
  BY <1>1 DEF Sorted, Permuted
<1>3. \A i \in D : p[i] \in D /\ list[p[i]] \in Tasks
  BY <1>2
<1>4. s \in [D -> Tasks]
  BY <1>2, <1>3
<1>5. s \in Seq(Tasks)
  BY <1>4, <1>1, SeqDef
<1>6. Len(s) = Len(list) /\ DOMAIN s = D
  BY <1>4, <1>1
<1>7. Range(s) = Range(list)
  <2>1. p \in Injection(D, D)
    BY <1>2, <1>1 DEF Injection, IsInjective
  <2>2. IsFiniteSet(D)
    BY <1>1, FS_Interval
  <2>3. p \in Surjection(D, D)
    BY <2>1, <2>2, FS_Injection
  <2>4. \A k \in D : \E i \in D : p[i] = k
    BY <2>3 DEF Surjection
  <2>5. Range(s) = {list[p[i]] : i \in D}
    BY <1>2, <1>6 DEF Range
  <2>6. Range(list) = {list[k] : k \in D}
    BY <1>1 DEF Range
  <2> HIDE DEF D
  <2>7. ASSUME NEW k \in D PROVE list[k] \in Range(s)
    <3>1. PICK i \in D : p[i] = k
      BY <2>4
    <3>. QED
      BY <2>5, <3>1
  <2>8. ASSUME NEW i \in D PROVE list[p[i]] \in Range(list)
    BY <1>3, <2>6
  <2>. QED
    BY <2>5, <2>6, <2>7, <2>8
<1>8. ASSUME Distinct(list) PROVE Distinct(s)
  <2>1. \A i, k \in D : i # k => p[i] # p[k]
    BY <1>1, <1>2
  <2>. QED
    BY <1>1, <1>2, <1>3, <1>6, <1>8, <2>1 DEF Distinct
<1>9. \A i, k \in DOMAIN s : i < k => Depth[s[i]] <= Depth[s[k]]
  BY DEF Sorted
<1>. QED
  BY <1>5, <1>6, <1>7, <1>8, <1>9

(* The elements of a sequence that has grown by one.                       *)
LEMMA RangeOfAppend ==
  ASSUME NEW S, NEW s \in Seq(S), NEW e \in S
  PROVE  Range(Append(s, e)) = Range(s) \cup {e}
<1>1. DOMAIN s = 1 .. Len(s) /\ DOMAIN Append(s, e) = 1 .. Len(s) + 1
  OBVIOUS
<1>2. /\ Append(s, e)[Len(s) + 1] = e
      /\ \A i \in 1 .. Len(s) : Append(s, e)[i] = s[i]
  BY AppendProperties
<1>. QED
  BY <1>1, <1>2 DEF Range

(* The same for a sequence that loses its first element.                   *)
LEMMA RangeOfTail ==
  ASSUME NEW S, NEW s \in Seq(S), s # <<>>
  PROVE  Range(s) = Range(Tail(s)) \cup {Head(s)}
<1>1. /\ Tail(s) \in Seq(S) /\ Len(Tail(s)) = Len(s) - 1
      /\ \A i \in 1 .. Len(Tail(s)) : Tail(s)[i] = s[i + 1]
      /\ Head(s) = s[1] /\ Len(s) \in Nat /\ Len(s) > 0
  BY HeadTailProperties
<1>2. DOMAIN s = 1 .. Len(s) /\ DOMAIN Tail(s) = 1 .. Len(s) - 1
  BY <1>1
<1>3. ASSUME NEW i \in DOMAIN s PROVE s[i] \in Range(Tail(s)) \cup {Head(s)}
  <2>1. CASE i = 1
    BY <1>1, <2>1
  <2>2. CASE i # 1
    <3>1. i - 1 \in DOMAIN Tail(s) /\ Tail(s)[i - 1] = s[i]
      BY <1>1, <1>2, <2>2
    <3>. QED
      BY <3>1 DEF Range
  <2>. QED
    BY <2>1, <2>2
<1>4. ASSUME NEW i \in DOMAIN Tail(s) PROVE Tail(s)[i] \in Range(s)
  BY <1>1, <1>2 DEF Range
<1>5. Head(s) \in Range(s)
  BY <1>1, <1>2 DEF Range
<1>. QED
  BY <1>3, <1>4, <1>5 DEF Range

(* A vector without a task stays one of different tasks when that task     *)
(* joins it.                                                               *)
LEMMA DistinctAppend ==
  ASSUME NEW list \in Seq(Tasks), Distinct(list),
         NEW t \in Tasks, t \notin Range(list)
  PROVE  Distinct(Append(list, t))
<1> DEFINE n == Len(list)
           new == Append(list, t)
<1>1. n \in Nat /\ DOMAIN list = 1 .. n /\ DOMAIN new = 1 .. n + 1
  OBVIOUS
<1>2. /\ new[n + 1] = t
      /\ \A i \in 1 .. n : new[i] = list[i] /\ list[i] # t
  BY AppendProperties DEF Range
<1> HIDE DEF n, new
<1>3. \A i, k \in 1 .. n : i # k => list[i] # list[k]
  BY <1>1 DEF Distinct
<1>4. \A i \in 1 .. n + 1 : i \in 1 .. n \/ i = n + 1
  BY <1>1
<1>5. \A i, k \in 1 .. n + 1 : i # k => new[i] # new[k]
  BY <1>2, <1>3, <1>4
<1>. QED
  BY <1>1, <1>5 DEF Distinct, new
=============================================================================
