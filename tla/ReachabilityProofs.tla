------------------------- MODULE ReachabilityProofs -------------------------
(***************************************************************************)
(* Proofs about Reachability, for every graph, every list of tasks and any *)
(* number of computations: the recursion is bounded and evaluates a node   *)
(* once, on graphs with cycles too; without cycles the values are depths   *)
(* and the sort is topological.  Induction over the graph is one lemma     *)
(* (SourceExists): every set of nodes has one that needs no other of them. *)
(***************************************************************************)
EXTENDS Reachability, FiniteSetTheorems, SequenceTheorems, TLAPS

(* A chain of k nodes, each of which provides for the next.                *)
IsChain(c, k) ==
  /\ c \in [1 .. k -> Nodes]
  /\ \A i \in 1 .. k - 1 : c[i] \in Providers(c[i + 1])
  /\ \A i, j \in 1 .. k : i # j => c[i] # c[j]

(* The owners of the edges of a node are nodes.                            *)
LEMMA ProvidersAreNodes ==
  ASSUME TypeOK, NEW n \in Nodes
  PROVE  Providers(n) \subseteq Nodes
BY GraphAssumption DEF TypeOK, Providers

(* A chain is no longer than there are nodes, so it is one of Chains.      *)
LEMMA ChainIsInChains ==
  ASSUME NEW k \in Nat \ {0}, NEW c, IsChain(c, k)
  PROVE  c \in Chains /\ Len(c) = k /\ k <= Cardinality(Nodes)
<1>1. c \in Injection(1 .. k, Nodes)
  BY DEF IsChain, Injection, IsInjective
<1>2. Cardinality(1 .. k) <= Cardinality(Nodes)
  BY <1>1, FS_Injection, GraphAssumption
<1>3. Cardinality(1 .. k) = k
  BY FS_Interval
<1>4. Cardinality(Nodes) \in Nat
  BY FS_CardinalityType, GraphAssumption
<1>5. k \in 1 .. Cardinality(Nodes)
  BY <1>2, <1>3, <1>4
<1>6. c \in Chains
  BY <1>5 DEF Chains, IsChain
<1>7. Len(c) = k
  BY DEF IsChain
<1>. QED
  BY <1>5, <1>6, <1>7

(* The members of Chains are chains, of their length.                      *)
LEMMA ChainsAreChains ==
  ASSUME NEW c \in Chains
  PROVE  Len(c) \in Nat \ {0} /\ IsChain(c, Len(c))
<1>1. Cardinality(Nodes) \in Nat
  BY FS_CardinalityType, GraphAssumption
<1>2. PICK k \in 1 .. Cardinality(Nodes) : IsChain(c, k)
  BY DEF Chains, IsChain
<1>3. k \in Nat \ {0}
  BY <1>1
<1>4. Len(c) = k
  BY <1>2, <1>3 DEF IsChain
<1>. QED
  BY <1>2, <1>3, <1>4

(* A node alone is a chain.                                                *)
LEMMA SingleChain ==
  ASSUME NEW n \in Nodes
  PROVE  [i \in 1 .. 1 |-> n] \in ChainsTo(n)
<1> DEFINE c == [i \in 1 .. 1 |-> n]
<1>1. IsChain(c, 1)
  BY DEF IsChain
<1>2. c \in Chains /\ Len(c) = 1
  BY <1>1, ChainIsInChains
<1>. QED
  BY <1>2 DEF ChainsTo

(* A part of a chain is a chain.                                           *)
LEMMA PartOfChain ==
  ASSUME NEW k \in Nat \ {0}, NEW c, IsChain(c, k),
         NEW i \in 1 .. k, NEW j \in i .. k
  PROVE  IsChain([l \in 1 .. j - i + 1 |-> c[l + i - 1]], j - i + 1)
<1> DEFINE part == [l \in 1 .. j - i + 1 |-> c[l + i - 1]]
<1>1. \A l \in 1 .. j - i + 1 : l + i - 1 \in 1 .. k /\ part[l] = c[l + i - 1]
  OBVIOUS
<1>2. part \in [1 .. j - i + 1 -> Nodes]
  BY <1>1 DEF IsChain
<1>3. ASSUME NEW l \in 1 .. (j - i + 1) - 1 PROVE part[l] \in Providers(part[l + 1])
  <2>1. l \in 1 .. j - i + 1 /\ l + 1 \in 1 .. j - i + 1 /\ (l + 1) + i - 1 = (l + i - 1) + 1
    OBVIOUS
  <2>2. l + i - 1 \in 1 .. k - 1
    OBVIOUS
  <2>. QED
    BY <1>1, <2>1, <2>2 DEF IsChain
<1>4. ASSUME NEW l \in 1 .. j - i + 1, NEW m \in 1 .. j - i + 1, l # m
      PROVE  part[l] # part[m]
  BY <1>1, <1>4 DEF IsChain
<1>. HIDE DEF part
<1>. QED
  BY <1>2, <1>3, <1>4 DEF IsChain

(* Without cycles, a chain can be continued with any node its last node    *)
(* provides for.                                                           *)
LEMMA LongerChain ==
  ASSUME TypeOK, Acyclic, NEW n \in Nodes,
         NEW k \in Nat \ {0}, NEW c, IsChain(c, k), c[k] \in Providers(n)
  PROVE  IsChain([i \in 1 .. k + 1 |-> IF i = k + 1 THEN n ELSE c[i]], k + 1)
<1> DEFINE d == [i \in 1 .. k + 1 |-> IF i = k + 1 THEN n ELSE c[i]]
<1>1. d[k + 1] = n /\ \A i \in 1 .. k : d[i] = c[i]
  OBVIOUS
<1>2. d \in [1 .. k + 1 -> Nodes]
  BY DEF IsChain
<1>3. ASSUME NEW i \in 1 .. k, c[i] = n PROVE FALSE
  <2> DEFINE part == [l \in 1 .. k - i + 1 |-> c[l + i - 1]]
  <2>1. k \in i .. k /\ k - i + 1 \in Nat \ {0}
    OBVIOUS
  <2>2. IsChain(part, k - i + 1)
    BY <2>1, PartOfChain
  <2>3. part[1] = n /\ part[k - i + 1] = c[k]
    BY <1>3, <2>1
  <2>. HIDE DEF part
  <2>4. part \in Chains /\ Len(part) = k - i + 1
    BY <2>1, <2>2, ChainIsInChains
  <2>. QED
    BY <2>3, <2>4 DEF Acyclic
<1>. HIDE DEF d
<1>4. ASSUME NEW i \in 1 .. (k + 1) - 1 PROVE d[i] \in Providers(d[i + 1])
  <2>1. CASE i = k
    BY <1>1, <2>1
  <2>2. CASE i # k
    <3>1. i \in 1 .. k - 1 /\ i \in 1 .. k /\ i + 1 \in 1 .. k
      BY <2>2
    <3>. QED
      BY <1>1, <3>1 DEF IsChain
  <2>. QED
    BY <2>1, <2>2
<1>5. ASSUME NEW i \in 1 .. k + 1, NEW j \in 1 .. k + 1, i # j PROVE d[i] # d[j]
  <2>1. CASE i \in 1 .. k /\ j \in 1 .. k
    BY <1>1, <1>5, <2>1 DEF IsChain
  <2>2. CASE i = k + 1
    <3>1. j \in 1 .. k
      BY <1>5, <2>2
    <3>. QED
      BY <1>1, <1>3, <2>2, <3>1
  <2>3. CASE j = k + 1
    <3>1. i \in 1 .. k
      BY <1>5, <2>3
    <3>. QED
      BY <1>1, <1>3, <2>3, <3>1
  <2>. QED
    BY <2>1, <2>2, <2>3
<1>6. IsChain(d, k + 1)
  BY <1>2, <1>4, <1>5 DEF IsChain
<1>. QED
  BY <1>6 DEF d

(* What a node depends on it depends on through one of its providers.      *)
LEMMA DependenciesSplit ==
  ASSUME NEW n \in Nodes, NEW d \in Dependencies(n)
  PROVE  \E m \in Providers(n) : d = m \/ d \in Dependencies(m)
<1>1. PICK m \in Providers(n) : \E c \in ChainsTo(m) : c[1] = d
  BY DEF Dependencies
<1>2. PICK c \in ChainsTo(m) : c[1] = d
  BY <1>1
<1> DEFINE k == Len(c)
<1>3. c \in Chains /\ c[k] = m
  BY DEF ChainsTo
<1>4. k \in Nat \ {0} /\ IsChain(c, k)
  BY <1>3, ChainsAreChains
<1>. HIDE DEF k
<1>5. CASE k = 1
  BY <1>2, <1>3, <1>5
<1>6. CASE k > 1
  <2> DEFINE p == [l \in 1 .. (k - 1) - 1 + 1 |-> c[l + 1 - 1]]
  <2>1. 1 \in 1 .. k /\ k - 1 \in 1 .. k /\ k - 1 \in Nat \ {0} /\ (k - 1) - 1 + 1 = k - 1
    BY <1>4, <1>6
  <2>2. IsChain(p, (k - 1) - 1 + 1)
    BY <1>4, <2>1, PartOfChain
  <2>3. p[1] = c[1] /\ p[k - 1] = c[k - 1]
    BY <1>4, <1>6
  <2>. HIDE DEF p
  <2>4. p \in Chains /\ Len(p) = k - 1
    BY <2>1, <2>2, ChainIsInChains
  <2>5. k - 1 + 1 = k
    BY <1>4
  <2>6. c[k - 1] \in Providers(m)
    BY <1>3, <1>4, <1>6, <2>1, <2>5 DEF IsChain
  <2>7. p \in ChainsTo(c[k - 1])
    BY <2>3, <2>4 DEF ChainsTo
  <2>8. d \in Dependencies(m)
    BY <1>2, <2>3, <2>6, <2>7 DEF Dependencies
  <2>. QED
    BY <2>8
<1>. QED
  BY <1>4, <1>5, <1>6

(* Dependencies contain the providers and what they depend on.             *)
LEMMA DependenciesJoin ==
  ASSUME TypeOK, Acyclic, NEW n \in Nodes, NEW m \in Providers(n)
  PROVE  m \in Dependencies(n) /\ Dependencies(m) \subseteq Dependencies(n)
<1>0. m \in Nodes
  BY ProvidersAreNodes
<1>1. m \in Dependencies(n)
  <2> DEFINE c == [i \in 1 .. 1 |-> m]
  <2>1. c \in ChainsTo(m)
    BY <1>0, SingleChain
  <2>2. c[1] = m
    OBVIOUS
  <2>. HIDE DEF c
  <2>. QED
    BY <2>1, <2>2 DEF Dependencies
<1>2. ASSUME NEW d \in Dependencies(m) PROVE d \in Dependencies(n)
  <2>1. PICK q \in Providers(m) : \E c \in ChainsTo(q) : c[1] = d
    BY DEF Dependencies
  <2>2. PICK c \in ChainsTo(q) : c[1] = d
    BY <2>1
  <2> DEFINE k == Len(c)
             e == [i \in 1 .. k + 1 |-> IF i = k + 1 THEN m ELSE c[i]]
  <2>3. c \in Chains /\ c[k] = q
    BY DEF ChainsTo
  <2>4. k \in Nat \ {0} /\ IsChain(c, k)
    BY <2>3, ChainsAreChains
  <2>. HIDE DEF k
  <2>5. IsChain(e, k + 1)
    BY <1>0, <2>3, <2>4, LongerChain
  <2>6. e[1] = d /\ e[k + 1] = m /\ k + 1 \in Nat \ {0}
    BY <2>2, <2>4
  <2>. HIDE DEF e
  <2>7. e \in ChainsTo(m)
    BY <2>5, <2>6, ChainIsInChains DEF ChainsTo
  <2>. QED
    BY <2>6, <2>7 DEF Dependencies
<1>. QED
  BY <1>1, <1>2

(* Dependencies are nodes, and without cycles none is its own.             *)
LEMMA DependenciesAreOthers ==
  ASSUME TypeOK, NEW n \in Nodes
  PROVE  Dependencies(n) \subseteq Nodes /\ (Acyclic => n \notin Dependencies(n))
<1> SUFFICES ASSUME NEW d \in Dependencies(n)
             PROVE  d \in Nodes /\ (Acyclic => d # n)
  OBVIOUS
<1>1. PICK m \in Providers(n) : \E c \in ChainsTo(m) : c[1] = d
  BY DEF Dependencies
<1>2. PICK c \in ChainsTo(m) : c[1] = d
  BY <1>1
<1>3. c \in Chains /\ c[Len(c)] = m
  BY DEF ChainsTo
<1>4. Len(c) \in Nat \ {0} /\ IsChain(c, Len(c))
  BY <1>3, ChainsAreChains
<1>5. 1 \in 1 .. Len(c)
  BY <1>4
<1>6. d \in Nodes
  BY <1>2, <1>4, <1>5 DEF IsChain
<1>. QED
  BY <1>2, <1>3, <1>6 DEF Acyclic

(* Induction over the graph: without cycles, every set of nodes has one    *)
(* none of whose providers is in the set.                                  *)
LEMMA SourceExists ==
  ASSUME TypeOK, Acyclic, NEW S \in SUBSET Nodes, S # {}
  PROVE  \E n \in S : Providers(n) \cap S = {}
<1> DEFINE Sets == {Dependencies(n) : n \in S}
<1>1. IsWellFoundedOn(StrictSubsetOrdering(Nodes), FiniteSubsetsOf(Nodes))
  BY FS_StrictSubsetOrderingWellFounded
<1>2. Sets \subseteq FiniteSubsetsOf(Nodes) /\ Sets # {}
  <2>1. ASSUME NEW n \in S PROVE Dependencies(n) \in FiniteSubsetsOf(Nodes)
    <3>1. Dependencies(n) \in SUBSET Nodes
      BY DependenciesAreOthers
    <3>2. IsFiniteSet(Dependencies(n))
      BY <3>1, FS_Subset, GraphAssumption
    <3>. QED
      BY <3>1, <3>2 DEF FiniteSubsetsOf
  <2>. QED
    BY <2>1
<1>. HIDE DEF Sets
<1>3. PICK D \in Sets : \A E \in Sets : ~ (<<E, D>> \in StrictSubsetOrdering(Nodes))
  BY <1>1, <1>2, WFMin
<1>4. PICK n \in S : D = Dependencies(n)
  BY DEF Sets
<1>5. ASSUME NEW m \in Providers(n), m \in S PROVE FALSE
  <2>1. Dependencies(m) \in Sets
    BY <1>5 DEF Sets
  <2>2. m \in Dependencies(n) /\ Dependencies(m) \subseteq Dependencies(n)
    BY DependenciesJoin
  <2>3. m \notin Dependencies(m) /\ Dependencies(m) \in SUBSET Nodes /\ Dependencies(n) \in SUBSET Nodes
    BY <1>5, DependenciesAreOthers
  <2>4. Dependencies(m) # Dependencies(n)
    BY <2>2, <2>3
  <2>5. <<Dependencies(m), Dependencies(n)>> \in StrictSubsetOrdering(Nodes)
    BY <2>2, <2>3, <2>4 DEF StrictSubsetOrdering
  <2>. QED
    BY <1>3, <1>4, <2>1, <2>5
<1>. QED
  BY <1>5

------------------------------------------------------------------------------
(* What consistent values say. *)

(* The value of a node is a number; a root has the value 0 and no provider. *)
LEMMA ValuesAreNumbers ==
  ASSUME TypeOK, NEW n \in Nodes
  PROVE  /\ get_reachability(n) \in Nat
         /\ IsRoot(n) => get_reachability(n) = 0 /\ Providers(n) = {}
BY GraphAssumption DEF TypeOK, get_reachability, IsRoot, Providers

(* In a consistent set the value of a node exceeds those of its providers. *)
LEMMA ValuesIncrease ==
  ASSUME TypeOK, NEW S \in SUBSET Nodes, Consistent(S), NEW n \in S,
         NEW m \in Providers(n)
  PROVE  m \in S /\ get_reachability(m) < get_reachability(n)
<1>1. ~IsRoot(n)
  BY ValuesAreNumbers
<1>2. m \in S /\ m \in Nodes /\ n \in Nodes
  BY ProvidersAreNodes DEF Consistent
<1>3. get_reachability(n) = reachability_[n] /\ get_reachability(n) \in Nat
      /\ get_reachability(m) \in Nat
  BY <1>1, <1>2, ValuesAreNumbers DEF get_reachability
<1>4. get_reachability(m) <= reachability_[n] - 1
  BY <1>1 DEF Consistent, IsLargestOf
<1>. QED
  BY <1>2, <1>3, <1>4

(* A consistent set has everything its nodes depend on, with lower values. *)
LEMMA DependenciesAreLower ==
  ASSUME TypeOK, Acyclic, NEW S \in SUBSET Nodes, Consistent(S),
         NEW n \in S, NEW d \in Dependencies(n)
  PROVE  d \in S /\ get_reachability(d) < get_reachability(n)
<1> DEFINE Lower(a) == \A e \in Dependencies(a) :
                         e \in S /\ get_reachability(e) < get_reachability(a)
           T == {a \in S : ~Lower(a)}
<1>1. ASSUME T # {} PROVE FALSE
  <2>1. PICK a \in T : Providers(a) \cap T = {}
    BY <1>1, SourceExists
  <2>2. a \in S /\ a \in Nodes
    OBVIOUS
  <2>3. ASSUME NEW e \in Dependencies(a)
        PROVE  e \in S /\ get_reachability(e) < get_reachability(a)
    <3>1. PICK m \in Providers(a) : e = m \/ e \in Dependencies(m)
      BY <2>2, DependenciesSplit
    <3>2. m \in S /\ get_reachability(m) < get_reachability(a)
      BY <2>2, ValuesIncrease
    <3>3. Lower(m)
      BY <2>1, <3>2
    <3>4. CASE e = m
      BY <3>2, <3>4
    <3>5. CASE e \in Dependencies(m)
      <4>1. e \in S /\ get_reachability(e) < get_reachability(m)
        BY <3>3, <3>5
      <4>2. get_reachability(e) \in Nat /\ get_reachability(m) \in Nat
            /\ get_reachability(a) \in Nat
        BY <2>2, <3>2, <4>1, ValuesAreNumbers
      <4>. QED
        BY <3>2, <4>1, <4>2
    <3>. QED
      BY <3>1, <3>4, <3>5
  <2>4. Lower(a)
    BY <2>3
  <2>. QED
    BY <2>4
<1>2. Lower(n)
  BY <1>1
<1>. QED
  BY <1>2

(* The length of a chain as IsDepth counts it.                             *)
EdgesOf(c) == IF Arity[c[1]] = 0 THEN Len(c) - 1 ELSE Len(c)

(* A chain to a node is that node alone, or a chain to one of its          *)
(* providers and one edge.                                                 *)
LEMMA EdgesOfChain ==
  ASSUME NEW n \in Nodes, NEW c \in ChainsTo(n)
  PROVE  /\ EdgesOf(c) \in Nat
         /\ \/ c[1] = n /\ EdgesOf(c) = IF IsRoot(n) THEN 0 ELSE 1
            \/ \E m \in Providers(n) : \E d \in ChainsTo(m) :
                 EdgesOf(c) = EdgesOf(d) + 1 /\ EdgesOf(d) \in Nat
<1> DEFINE k == Len(c)
<1>1. c \in Chains /\ c[k] = n
  BY DEF ChainsTo
<1>2. k \in Nat \ {0} /\ IsChain(c, k)
  BY <1>1, ChainsAreChains
<1>3. EdgesOf(c) = (IF Arity[c[1]] = 0 THEN k - 1 ELSE k)
  BY DEF EdgesOf
<1>. HIDE DEF k
<1>4. CASE k = 1
  BY <1>1, <1>3, <1>4 DEF IsRoot
<1>5. CASE k > 1
  <2> DEFINE p == [l \in 1 .. (k - 1) - 1 + 1 |-> c[l + 1 - 1]]
  <2>1. 1 \in 1 .. k /\ k - 1 \in 1 .. k /\ k - 1 \in Nat \ {0} /\ (k - 1) - 1 + 1 = k - 1
    BY <1>2, <1>5
  <2>2. IsChain(p, (k - 1) - 1 + 1)
    BY <1>2, <2>1, PartOfChain
  <2>3. p[1] = c[1] /\ p[k - 1] = c[k - 1]
    BY <1>2, <1>5
  <2>. HIDE DEF p
  <2>4. p \in Chains /\ Len(p) = k - 1
    BY <2>1, <2>2, ChainIsInChains
  <2>5. k - 1 + 1 = k
    BY <1>2
  <2>6. c[k - 1] \in Providers(n)
    BY <1>1, <1>2, <1>5, <2>1, <2>5 DEF IsChain
  <2>7. p \in ChainsTo(c[k - 1])
    BY <2>3, <2>4 DEF ChainsTo
  <2>8. EdgesOf(p) = IF Arity[c[1]] = 0 THEN k - 1 - 1 ELSE k - 1
    BY <2>3, <2>4 DEF EdgesOf
  <2>9. EdgesOf(c) = EdgesOf(p) + 1 /\ EdgesOf(p) \in Nat /\ EdgesOf(c) \in Nat
    BY <1>2, <1>3, <1>5, <2>8
  <2>. QED
    BY <2>6, <2>7, <2>9
<1>. QED
  BY <1>2, <1>4, <1>5

(* Without cycles, a chain to a provider gives one that is an edge longer. *)
LEMMA OneEdgeMore ==
  ASSUME TypeOK, Acyclic, NEW n \in Nodes, NEW m \in Providers(n),
         NEW d \in ChainsTo(m)
  PROVE  \E c \in ChainsTo(n) : EdgesOf(c) = EdgesOf(d) + 1
<1> DEFINE k == Len(d)
           c == [i \in 1 .. k + 1 |-> IF i = k + 1 THEN n ELSE d[i]]
<1>1. d \in Chains /\ d[k] = m
  BY DEF ChainsTo
<1>2. k \in Nat \ {0} /\ IsChain(d, k)
  BY <1>1, ChainsAreChains
<1>3. EdgesOf(d) = IF Arity[d[1]] = 0 THEN k - 1 ELSE k
  BY DEF EdgesOf
<1>. HIDE DEF k
<1>4. IsChain(c, k + 1)
  BY <1>1, <1>2, LongerChain
<1>5. c[1] = d[1] /\ c[k + 1] = n /\ k + 1 \in Nat \ {0}
  BY <1>2
<1>. HIDE DEF c
<1>6. c \in Chains /\ Len(c) = k + 1
  BY <1>4, <1>5, ChainIsInChains
<1>7. c \in ChainsTo(n)
  BY <1>5, <1>6 DEF ChainsTo
<1>8. EdgesOf(c) = EdgesOf(d) + 1
  BY <1>2, <1>3, <1>5, <1>6 DEF EdgesOf
<1>. QED
  BY <1>7, <1>8

(* Without cycles, the values of a consistent set are depths.              *)
LEMMA ConsistentValuesAreDepths ==
  ASSUME TypeOK, Acyclic, NEW S \in SUBSET Nodes, Consistent(S), NEW n \in S
  PROVE  IsDepth(n, get_reachability(n))
<1> DEFINE Deep(a) == /\ \E c \in ChainsTo(a) : EdgesOf(c) = get_reachability(a)
                      /\ \A c \in ChainsTo(a) : EdgesOf(c) <= get_reachability(a)
           T == {a \in S : ~Deep(a)}
<1>1. ASSUME T # {} PROVE FALSE
  <2>1. PICK a \in T : Providers(a) \cap T = {}
    BY <1>1, SourceExists
  <2>2. a \in S /\ a \in Nodes
    OBVIOUS
  <2>3. ASSUME NEW m \in Providers(a)
        PROVE  /\ m \in S /\ m \in Nodes /\ Deep(m)
               /\ get_reachability(m) < get_reachability(a)
               /\ get_reachability(m) \in Nat
    <3>1. m \in S /\ get_reachability(m) < get_reachability(a)
      BY <2>2, ValuesIncrease
    <3>. QED
      BY <2>1, <3>1, ValuesAreNumbers
  <2>. HIDE DEF Deep, T
  <2>4. get_reachability(a) \in Nat
    BY <2>2, ValuesAreNumbers
  <2>5. IsRoot(a) => get_reachability(a) = 0
    BY <2>2, ValuesAreNumbers
  <2>6. ~IsRoot(a) => /\ get_reachability(a) = reachability_[a]
                      /\ get_reachability(a) > 0
                      /\ IsLargestOf(get_reachability(a) - 1, Providers(a))
    BY <2>2 DEF Consistent, get_reachability
  <2>7. ASSUME NEW c \in ChainsTo(a) PROVE EdgesOf(c) <= get_reachability(a)
    <3>1. CASE EdgesOf(c) = IF IsRoot(a) THEN 0 ELSE 1
      BY <2>4, <2>5, <2>6, <3>1
    <3>2. ASSUME NEW m \in Providers(a), NEW d \in ChainsTo(m),
                 EdgesOf(c) = EdgesOf(d) + 1, EdgesOf(d) \in Nat
          PROVE  EdgesOf(c) <= get_reachability(a)
      <4>1. EdgesOf(d) <= get_reachability(m)
        BY <2>3 DEF Deep
      <4>. QED
        BY <2>3, <2>4, <3>2, <4>1
    <3>. QED
      BY <2>2, <3>1, <3>2, EdgesOfChain
  <2>8. \E c \in ChainsTo(a) : EdgesOf(c) = get_reachability(a)
    <3>1. CASE IsRoot(a) \/ get_reachability(a) = 1
      <4> DEFINE c == [i \in 1 .. 1 |-> a]
      <4>1. c \in ChainsTo(a)
        BY <2>2, SingleChain
      <4>2. c[1] = a /\ Len(c) = 1
        OBVIOUS
      <4>. HIDE DEF c
      <4>3. EdgesOf(c) = IF IsRoot(a) THEN 0 ELSE 1
        BY <4>2 DEF EdgesOf, IsRoot
      <4>4. IsRoot(a) => get_reachability(a) # 1
        BY <2>5
      <4>. QED
        BY <2>5, <3>1, <4>1, <4>3, <4>4
    <3>2. CASE ~IsRoot(a) /\ get_reachability(a) # 1
      <4>1. PICK m \in Providers(a) : get_reachability(a) - 1 = get_reachability(m)
        BY <2>4, <2>6, <3>2 DEF IsLargestOf
      <4>2. PICK d \in ChainsTo(m) : EdgesOf(d) = get_reachability(m)
        BY <2>3 DEF Deep
      <4>3. PICK c \in ChainsTo(a) : EdgesOf(c) = EdgesOf(d) + 1
        BY <2>2, OneEdgeMore
      <4>4. EdgesOf(c) = get_reachability(a)
        BY <2>4, <4>1, <4>2, <4>3
      <4>. QED
        BY <4>4
    <3>. QED
      BY <3>1, <3>2
  <2>9. Deep(a)
    BY <2>7, <2>8 DEF Deep
  <2>. QED
    BY <2>9 DEF T
<1>2. Deep(n)
  BY <1>1
<1>. QED
  BY <1>2 DEF IsDepth, EdgesOf

------------------------------------------------------------------------------
(* What the steps do to the stack. *)

Frames == [node : Nodes, slot : Nat \ {0}, best : Nat]

(* The calls from k + 1 on are over and call k has seen one more value.    *)
Advanced(k, value) ==
  /\ Len(stack') = k
  /\ \A i \in 1 .. k - 1 : stack'[i] = stack[i]
  /\ k > 0 => /\ stack'[k].node = stack[k].node
              /\ stack'[k].slot = stack[k].slot + 1
              /\ stack'[k].best = Larger(stack[k].best, value)

(* A call of m has begun.                                                  *)
Pushed(m) ==
  /\ Len(stack') = Len(stack) + 1
  /\ \A i \in 1 .. Len(stack) : stack'[i] = stack[i]
  /\ stack'[Len(stack) + 1] = Frame(m)

(* The first thing a call does.                                            *)
LEMMA FrameFields ==
  ASSUME NEW n \in Nodes
  PROVE  /\ Frame(n) \in Frames
         /\ Frame(n).node = n /\ Frame(n).slot = 1 /\ Frame(n).best = 0
BY DEF Frame, Frames

(* A call that has seen a value is at the next slot.                       *)
LEMMA SeenFields ==
  ASSUME NEW f \in Frames, NEW value \in Nat
  PROVE  /\ Seen(f, value) \in Frames
         /\ Seen(f, value).node = f.node
         /\ Seen(f, value).slot = f.slot + 1
         /\ Seen(f, value).best = Larger(f.best, value)
<1>1. /\ f.node \in Nodes /\ f.slot \in Nat \ {0} /\ f.best \in Nat
      /\ f = [node |-> f.node, slot |-> f.slot, best |-> f.best]
  BY DEF Frames
<1>2. Larger(f.best, value) \in Nat
  BY <1>1 DEF Larger
<1>3. /\ Seen(f, value).node = f.node
      /\ Seen(f, value).slot = f.slot + 1
      /\ Seen(f, value).best = Larger(f.best, value)
  BY DEF Seen, Frames
<1>4. Seen(f, value) \in Frames
  <2> DEFINE g == Seen(f, value)
  <2>1. DOMAIN g = {"node", "slot", "best"}
    BY <1>1 DEF Seen
  <2>2. g = [x \in DOMAIN g |-> g[x]]
    BY DEF Seen
  <2>3. g.node \in Nodes /\ g.slot \in Nat \ {0} /\ g.best \in Nat
    BY <1>1, <1>2, <1>3
  <2>. HIDE DEF g
  <2>4. g = [node |-> g.node, slot |-> g.slot, best |-> g.best]
    BY <2>1, <2>2
  <2>5. g \in Frames
    BY <2>3, <2>4 DEF Frames
  <2>. QED
    BY <2>5 DEF g
<1>. QED
  BY <1>3, <1>4

(* The stack is a sequence of frames, empty if its length is 0.            *)
LEMMA StackType ==
  ASSUME TypeOK
  PROVE  /\ stack \in Seq(Frames) /\ Len(stack) \in Nat
         /\ stack = <<>> <=> Len(stack) = 0
         /\ \A i \in 1 .. Len(stack) :
              /\ stack[i] \in Frames /\ stack[i].node \in Nodes
              /\ stack[i].slot \in Nat \ {0} /\ stack[i].best \in Nat
<1>1. stack \in Seq(Frames)
  BY DEF TypeOK, Frames
<1>2. Len(stack) \in Nat /\ (stack = <<>> <=> Len(stack) = 0)
  BY <1>1, EmptySeq
<1>3. ASSUME NEW i \in 1 .. Len(stack) PROVE stack[i] \in Frames
  BY <1>1, ElementOfSeq
<1>. QED
  BY <1>1, <1>2, <1>3 DEF Frames

(* Without its innermost call the stack is one shorter.                    *)
LEMMA UnderIsStack ==
  ASSUME TypeOK, stack # <<>>
  PROVE  /\ Under \in Seq(Frames) /\ Len(Under) = Len(stack) - 1
         /\ \A i \in 1 .. Len(stack) - 1 : Under[i] = stack[i]
         /\ Under = <<>> <=> Len(stack) = 1
         /\ Top \in Frames
<1>1. Len(stack) \in Nat \ {0}
      /\ \A i \in 1 .. Len(stack) : stack[i] \in Frames
  BY StackType
<1> DEFINE k == Len(stack) - 1
<1>2. /\ Under \in Seq(Frames) /\ Len(Under) = k
      /\ \A i \in 1 .. k : Under[i] = stack[i]
  <2>1. k \in Int /\ 1 \in Int /\ \A i \in 1 .. k : stack[i] \in Frames
    BY <1>1
  <2>. HIDE DEF k
  <2>2. /\ SubSeq(stack, 1, k) \in Seq(Frames)
        /\ Len(SubSeq(stack, 1, k)) = IF 1 <= k THEN k - 1 + 1 ELSE 0
        /\ \A i \in 1 .. k - 1 + 1 : SubSeq(stack, 1, k)[i] = stack[1 + i - 1]
    BY <2>1, SubSeqProperties
  <2>3. k - 1 + 1 = k /\ k >= 0
    BY <1>1, <2>1 DEF k
  <2>4. /\ SubSeq(stack, 1, k) \in Seq(Frames)
        /\ Len(SubSeq(stack, 1, k)) = k
        /\ \A i \in 1 .. k : SubSeq(stack, 1, k)[i] = stack[i]
    BY <2>1, <2>2, <2>3
  <2>. QED
    BY <2>4 DEF Under, k
<1>3. \A i \in 1 .. Len(stack) - 1 : Under[i] = stack[i]
  BY <1>1, <1>2
<1>4. Under = <<>> <=> Len(stack) = 1
  BY <1>1, <1>2, EmptySeq
<1>. QED
  BY <1>1, <1>2, <1>3, <1>4 DEF Top

(* The innermost call sees a value.                                        *)
LEMMA TopAdvances ==
  ASSUME TypeOK, stack # <<>>, NEW value \in Nat,
         stack' = Append(Under, Seen(Top, value))
  PROVE  stack' \in Seq(Frames) /\ Advanced(Len(stack), value)
<1> DEFINE L == Len(stack)
<1>1. L \in Nat \ {0} /\ Top = stack[L]
  BY StackType DEF Top
<1>2. /\ Under \in Seq(Frames) /\ Len(Under) = L - 1 /\ Top \in Frames
      /\ \A i \in 1 .. L - 1 : Under[i] = stack[i]
  BY UnderIsStack
<1>3. Seen(Top, value) \in Frames
  BY <1>2, SeenFields
<1>4. /\ stack' \in Seq(Frames) /\ Len(stack') = (L - 1) + 1
      /\ \A i \in 1 .. L - 1 : stack'[i] = Under[i]
      /\ stack'[(L - 1) + 1] = Seen(Top, value)
  BY <1>2, <1>3, AppendProperties
<1>5. stack'[L] = Seen(stack[L], value) /\ stack[L] \in Frames
  BY <1>1, <1>2, <1>4
<1>6. /\ stack'[L].node = stack[L].node
      /\ stack'[L].slot = stack[L].slot + 1
      /\ stack'[L].best = Larger(stack[L].best, value)
  <2>1. PICK f \in Frames : f = stack[L]
    BY <1>5
  <2>2. stack'[L] = Seen(f, value)
    BY <1>5, <2>1
  <2>3. Seen(f, value).node = f.node /\ Seen(f, value).slot = f.slot + 1
        /\ Seen(f, value).best = Larger(f.best, value)
    BY SeenFields
  <2>. QED
    BY <2>1, <2>2, <2>3
<1>7. Len(stack') = L /\ \A i \in 1 .. L - 1 : stack'[i] = stack[i]
  BY <1>1, <1>2, <1>4
<1>. QED
  BY <1>4, <1>6, <1>7 DEF Advanced

(* A call begins under the innermost one, or as the outermost one.         *)
LEMMA CallIsPushed ==
  ASSUME TypeOK, NEW m \in Nodes, stack' = Append(stack, Frame(m))
  PROVE  stack' \in Seq(Frames) /\ Pushed(m)
<1>1. stack \in Seq(Frames) /\ Frame(m) \in Frames
  BY StackType, FrameFields
<1>. QED
  BY <1>1, AppendProperties DEF Pushed

(* The innermost call returns and the one outside it sees its value.       *)
LEMMA TopReturns ==
  ASSUME TypeOK, stack # <<>>, NEW value \in Nat,
         stack' = IF Under = <<>> THEN <<>>
                  ELSE [Under EXCEPT ![Len(Under)] = Seen(@, value)]
  PROVE  stack' \in Seq(Frames) /\ Advanced(Len(stack) - 1, value)
<1> DEFINE L == Len(stack)
<1>1. L \in Nat \ {0}
  BY StackType
<1>2. /\ Under \in Seq(Frames) /\ Len(Under) = L - 1
      /\ \A i \in 1 .. L - 1 : Under[i] = stack[i]
      /\ Under = <<>> <=> L = 1
  BY UnderIsStack
<1>. HIDE DEF L
<1>3. CASE L = 1
  <2>1. stack' = <<>>
    BY <1>2, <1>3
  <2>2. stack' \in Seq(Frames) /\ Len(stack') = L - 1
    BY <1>3, <2>1, EmptySeq
  <2>. QED
    BY <1>3, <2>2 DEF Advanced, L
<1>4. CASE L > 1
  <2> DEFINE k == L - 1
             g == Seen(Under[k], value)
  <2>1. k \in 1 .. Len(Under) /\ k = Len(Under)
    BY <1>1, <1>2, <1>4
  <2>2. Under[k] \in Frames
    BY <1>2, <2>1, ElementOfSeq
  <2>3. g \in Frames
    BY <2>2, SeenFields
  <2>4. stack' = [Under EXCEPT ![k] = g]
    BY <1>2, <1>4, <2>1
  <2>5. g.node = stack[k].node /\ g.slot = stack[k].slot + 1
        /\ g.best = Larger(stack[k].best, value)
    BY <1>2, <2>1, <2>2, SeenFields
  <2>. HIDE DEF k, g
  <2>6. /\ stack' \in Seq(Frames) /\ Len(stack') = Len(Under)
        /\ \A j \in 1 .. Len(Under) : stack'[j] = IF j = k THEN g ELSE Under[j]
    BY <1>2, <2>1, <2>3, <2>4, ExceptSeq
  <2>7. stack'[k] = g /\ \A i \in 1 .. k - 1 : stack'[i] = stack[i]
    BY <1>1, <1>2, <2>1, <2>6
  <2>8. Advanced(k, value)
    BY <2>1, <2>5, <2>6, <2>7 DEF Advanced
  <2>. QED
    BY <2>6, <2>8 DEF k, L
<1>. QED
  BY <1>1, <1>3, <1>4

(* The cases of Visit: a null edge, an owner that is called, an owner that *)
(* only has to be asked.                                                   *)
LEMMA VisitCases ==
  ASSUME TypeOK, Visit,
         NEW L, L = Len(stack), NEW n, n = stack[L].node,
         NEW s, s = stack[L].slot, NEW m, m = in_edges_[n][s]
  PROVE  /\ L \in Nat \ {0} /\ n \in Nodes /\ s \in 1 .. Arity[n]
         /\ stack' \in Seq(Frames)
         /\ \/ m = None /\ traverse_marker' = traverse_marker /\ Advanced(L, 0)
            \/ /\ m \in Providers(n) /\ m \in Nodes
               /\ traverse_marker' = traverse_marker \cup {m}
               /\ \/ m \notin traverse_marker /\ ~IsRoot(m) /\ Pushed(m)
                  \/ /\ m \in traverse_marker \/ IsRoot(m)
                     /\ Advanced(L, get_reachability(m))
<1>1. L \in Nat \ {0} /\ n \in Nodes /\ s \in Nat \ {0} /\ Top = stack[L]
  BY StackType DEF Visit, Top
<1>2. s \in 1 .. Arity[n]
  BY <1>1, GraphAssumption DEF Visit
<1>3. in_edges_[n] \in [1 .. Arity[n] -> Nodes \cup {None}]
  BY <1>1 DEF TypeOK
<1>4. CASE m = None
  <2>1. stack' = Append(Under, Seen(Top, 0)) /\ traverse_marker' = traverse_marker
    BY <1>1, <1>4 DEF Visit
  <2>2. stack # <<>>
    BY DEF Visit
  <2>. QED
    BY <1>1, <1>2, <1>4, <2>1, <2>2, TopAdvances
<1>5. CASE m # None
  <2>1. m \in Nodes /\ m \in Providers(n)
    BY <1>2, <1>3, <1>5 DEF Providers
  <2>2. /\ traverse_marker' = traverse_marker \cup {m}
        /\ stack' = IF Pushes(m) THEN Append(stack, Frame(m))
                    ELSE Append(Under, Seen(Top, get_reachability(m)))
    BY <1>1, <1>5 DEF Visit, Mark
  <2>3. CASE Pushes(m)
    <3>1. stack' = Append(stack, Frame(m))
      BY <2>2, <2>3
    <3>2. stack' \in Seq(Frames) /\ Pushed(m)
      BY <2>1, <3>1, CallIsPushed
    <3>. QED
      BY <1>1, <1>2, <2>1, <2>2, <2>3, <3>2 DEF Pushes
  <2>4. CASE ~Pushes(m)
    <3>1. stack' = Append(Under, Seen(Top, get_reachability(m))) /\ stack # <<>>
      BY <2>2, <2>4 DEF Visit
    <3>2. get_reachability(m) \in Nat
      BY <2>1, ValuesAreNumbers
    <3>3. stack' \in Seq(Frames) /\ Advanced(L, get_reachability(m))
      BY <3>1, <3>2, TopAdvances
    <3>. QED
      BY <1>1, <1>2, <2>1, <2>2, <2>4, <3>3 DEF Pushes
  <2>. QED
    BY <2>3, <2>4
<1>. QED
  BY <1>4, <1>5

(* Visit keeps the types of what it changes.                               *)
LEMMA VisitType ==
  ASSUME TypeOK, Visit
  PROVE  stack' \in Seq(Frames) /\ traverse_marker' \subseteq Nodes
<1>1. PICK L, n, s, m : /\ L = Len(stack) /\ n = stack[L].node
                        /\ s = stack[L].slot /\ m = in_edges_[n][s]
  OBVIOUS
<1>2. traverse_marker \subseteq Nodes
  BY DEF TypeOK
<1>. QED
  BY <1>1, <1>2, VisitCases

(* What Leave does.                                                        *)
LEMMA LeaveEffect ==
  ASSUME TypeOK, Leave,
         NEW L, L = Len(stack), NEW n, n = stack[L].node
  PROVE  /\ L \in Nat \ {0} /\ n \in Nodes
         /\ stack[L].slot > Arity[n]
         /\ stack' \in Seq(Frames) /\ Advanced(L - 1, stack[L].best + 1)
         /\ reachability_' = [reachability_ EXCEPT ![n] = stack[L].best + 1]
         /\ returned' = returned \cup {n}
<1>1. L \in Nat \ {0} /\ n \in Nodes /\ stack[L].best \in Nat /\ Top = stack[L]
  BY StackType DEF Leave, Top
<1>2. stack # <<>> /\ stack[L].best + 1 \in Nat
  BY <1>1 DEF Leave
<1>3. stack' = IF Under = <<>> THEN <<>>
               ELSE [Under EXCEPT ![Len(Under)] = Seen(@, stack[L].best + 1)]
  BY <1>1 DEF Leave
<1>4. stack' \in Seq(Frames) /\ Advanced(L - 1, stack[L].best + 1)
  BY <1>2, <1>3, TopReturns
<1>. QED
  BY <1>1, <1>4 DEF Leave

(* The cases of ComputeNext: a null pointer, a task that is called, a task *)
(* that need not be.                                                       *)
LEMMA NextCases ==
  ASSUME TypeOK, ComputeNext, NEW t, t = Head(todo)
  PROVE  /\ stack' \in Seq(Frames) /\ todo' \in Seq(Nodes \cup {None})
         /\ {todo[i] : i \in 1 .. Len(todo)} = {t} \cup {todo'[i] : i \in 1 .. Len(todo')}
         /\ \/ t = None /\ traverse_marker' = traverse_marker /\ Len(stack') = 0
            \/ /\ t \in Nodes
               /\ traverse_marker' = traverse_marker \cup {t}
               /\ \/ t \notin traverse_marker /\ ~IsRoot(t) /\ Pushed(t)
                  \/ (t \in traverse_marker \/ IsRoot(t)) /\ Len(stack') = 0
<1>1. todo \in Seq(Nodes \cup {None}) /\ todo # <<>> /\ todo' = Tail(todo)
      /\ stack = <<>>
  BY DEF TypeOK, ComputeNext
<1>2. /\ t \in Nodes \cup {None} /\ todo' \in Seq(Nodes \cup {None})
      /\ Len(todo) \in Nat \ {0} /\ Len(todo') = Len(todo) - 1
      /\ todo[1] = t /\ \A i \in 1 .. Len(todo) - 1 : todo'[i] = todo[i + 1]
  BY <1>1, HeadTailProperties, EmptySeq
<1>3. {todo[i] : i \in 1 .. Len(todo)} = {t} \cup {todo'[i] : i \in 1 .. Len(todo')}
  <2>1. ASSUME NEW i \in 1 .. Len(todo)
        PROVE  todo[i] \in {t} \cup {todo'[k] : k \in 1 .. Len(todo')}
    <3>1. CASE i = 1
      BY <1>2, <3>1
    <3>2. CASE i # 1
      <4>1. i - 1 \in 1 .. Len(todo') /\ i - 1 \in 1 .. Len(todo) - 1 /\ (i - 1) + 1 = i
        BY <1>2, <3>2
      <4>2. todo'[i - 1] = todo[i]
        BY <1>2, <4>1
      <4>. QED
        BY <4>1, <4>2
    <3>. QED
      BY <3>1, <3>2
  <2>2. ASSUME NEW i \in 1 .. Len(todo') PROVE todo'[i] \in {todo[k] : k \in 1 .. Len(todo)}
    <3>1. i + 1 \in 1 .. Len(todo) /\ i \in 1 .. Len(todo) - 1
      BY <1>2
    <3>. QED
      BY <1>2, <3>1
  <2>3. t \in {todo[k] : k \in 1 .. Len(todo)}
    <3>1. 1 \in 1 .. Len(todo)
      BY <1>2
    <3>. QED
      BY <1>2, <3>1
  <2>. QED
    BY <2>1, <2>2, <2>3
<1>4. CASE t = None
  <2>1. stack' = <<>> /\ traverse_marker' = traverse_marker
    BY <1>1, <1>4 DEF ComputeNext
  <2>2. stack' \in Seq(Frames) /\ Len(stack') = 0
    BY <2>1, EmptySeq
  <2>. QED
    BY <1>2, <1>3, <1>4, <2>1, <2>2
<1>5. CASE t # None
  <2>1. t \in Nodes /\ traverse_marker' = traverse_marker \cup {t}
        /\ stack' = IF Pushes(t) THEN <<Frame(t)>> ELSE <<>>
    BY <1>2, <1>5 DEF ComputeNext, Mark
  <2>2. CASE Pushes(t)
    <3>1. stack' = Append(stack, Frame(t))
      BY <1>1, <2>1, <2>2
    <3>2. stack' \in Seq(Frames) /\ Pushed(t)
      BY <2>1, <3>1, CallIsPushed
    <3>. QED
      BY <1>2, <1>3, <2>1, <2>2, <3>2 DEF Pushes
  <2>3. CASE ~Pushes(t)
    <3>1. stack' \in Seq(Frames) /\ Len(stack') = 0
      BY <2>1, <2>3, EmptySeq
    <3>. QED
      BY <1>2, <1>3, <2>1, <2>3, <3>1 DEF Pushes
  <2>. QED
    BY <2>2, <2>3
<1>. QED
  BY <1>4, <1>5

------------------------------------------------------------------------------
(* The inductive invariant, part by part. *)

(* The invariant holds before anything is computed.                       *)
LEMMA InitReachabilityInv == Init => ReachabilityInv
<1> SUFFICES ASSUME Init PROVE ReachabilityInv
  OBVIOUS
<1>1. TypeOK
  <2>1. \A n \in Nodes : in_edges_[n] \in [1 .. Arity[n] -> Nodes \cup {None}]
    BY DEF Init
  <2>. QED
    BY <2>1 DEF Init, TypeOK
<1>2. QuietInv /\ ValuesInv /\ SortedInv
  BY DEF Init, QuietInv, ValuesInv, SortedInv
<1>3. Len(stack) = 0
  BY DEF Init
<1>4. MarkerInv
  BY <1>3 DEF Init, MarkerInv
<1>5. CallsInv
  BY <1>3 DEF CallsInv
<1>. QED
  BY <1>1, <1>2, <1>4, <1>5 DEF ReachabilityInv

(* A sorted vector has the elements it had before, each no less than those *)
(* in front of it.                                                         *)
LEMMA SortEffect ==
  ASSUME TypeOK, Sort
  PROVE  /\ tasks' \in Seq(Nodes \cup {None})
         /\ \A i \in DOMAIN tasks' : \E k \in DOMAIN tasks : tasks'[i] = tasks[k]
         /\ \A i \in DOMAIN tasks' : tasks'[i] # None
         /\ \A i, k \in DOMAIN tasks' : i < k => NotAfter(tasks'[i], tasks'[k])
<1>1. PICK p \in [DOMAIN tasks -> DOMAIN tasks] :
        /\ \A i, k \in DOMAIN tasks :
             i < k => p[i] # p[k] /\ NotAfter(tasks[p[i]], tasks[p[k]])
        /\ tasks' = [i \in DOMAIN tasks |-> tasks[p[i]]]
  BY DEF Sort, SortedOrders
<1>2. Len(tasks) \in Nat /\ DOMAIN tasks = 1 .. Len(tasks)
      /\ \A i \in DOMAIN tasks : tasks[i] \in Nodes \cup {None}
  BY DEF TypeOK
<1>3. DOMAIN tasks' = DOMAIN tasks /\ \A i \in DOMAIN tasks : tasks'[i] = tasks[p[i]]
  BY <1>1
<1>4. \A i \in DOMAIN tasks : p[i] \in DOMAIN tasks
  BY <1>1
<1>5. \A i \in DOMAIN tasks' : tasks'[i] \in Nodes \cup {None}
  BY <1>2, <1>3, <1>4
<1>6. tasks' \in Seq(Nodes \cup {None})
  <2>1. tasks' \in [1 .. Len(tasks) -> Nodes \cup {None}]
    BY <1>1, <1>2, <1>4
  <2>. QED
    BY <1>2, <2>1, SeqDef
<1>7. \A i \in DOMAIN tasks' : tasks'[i] # None
  BY <1>3, <1>4 DEF Sort
<1>8. \A i, k \in DOMAIN tasks' : i < k => NotAfter(tasks'[i], tasks'[k])
  BY <1>1, <1>3
<1>. QED
  BY <1>3, <1>4, <1>6, <1>7, <1>8

(* Every step keeps the types.                                             *)
LEMMA TypeOKStep == TypeOK /\ [Next]_vars => TypeOK'
<1> SUFFICES ASSUME TypeOK, [Next]_vars PROVE TypeOK'
  OBVIOUS
<1>. USE DEF TypeOK
<1>0. /\ stack \in Seq(Frames)
      /\ todo \in Seq(Nodes \cup {None}) /\ tasks \in Seq(Nodes \cup {None})
  BY DEF Frames
<1>1. ASSUME NEW n \in Nodes, NEW m \in Nodes, NEW i \in 1 .. Arity[n], Connect(n, i, m)
      PROVE  TypeOK'
  <2>1. \A a \in Nodes : in_edges_'[a] \in [1 .. Arity[a] -> Nodes \cup {None}]
    <3> SUFFICES ASSUME NEW a \in Nodes
                 PROVE  in_edges_'[a] \in [1 .. Arity[a] -> Nodes \cup {None}]
      OBVIOUS
    <3>1. in_edges_[a] \in [1 .. Arity[a] -> Nodes \cup {None}]
      OBVIOUS
    <3>2. CASE n \in DOMAIN in_edges_ /\ a = n
      <4>1. in_edges_'[a] = [in_edges_[a] EXCEPT ![i] = m]
        BY <1>1, <3>2 DEF Connect
      <4>. QED
        BY <3>1, <4>1
    <3>3. CASE a # n \/ n \notin DOMAIN in_edges_
      <4>1. in_edges_'[a] = in_edges_[a]
        BY <1>1, <3>3 DEF Connect
      <4>. QED
        BY <3>1, <4>1
    <3>. QED
      BY <3>2, <3>3
  <2>2. tasks' \in Seq(Nodes \cup {None})
    BY <1>1, EmptySeq DEF Connect
  <2>. QED
    BY <1>1, <2>1, <2>2 DEF Connect
<1>2. ASSUME NEW list \in TaskLists, ComputeBegin(list) PROVE TypeOK'
  <2>1. list \in Seq(Nodes \cup {None})
    BY GraphAssumption
  <2>. QED
    BY <1>2, <2>1 DEF ComputeBegin
<1>3. ASSUME NEW n \in Nodes, SingleBegin(n) PROVE TypeOK'
  <2>1. Frame(n) \in Frames
    BY FrameFields
  <2>2. stack' \in Seq(Frames) /\ tasks' \in Seq(Nodes \cup {None})
        /\ todo' \in Seq(Nodes \cup {None})
    BY <1>3, <2>1, EmptySeq DEF SingleBegin
  <2>. QED
    BY <1>3, <2>2 DEF SingleBegin, Frames
<1>4. CASE ComputeNext
  <2>1. stack' \in Seq(Frames) /\ todo' \in Seq(Nodes \cup {None})
        /\ traverse_marker' \subseteq Nodes
    BY <1>4, NextCases
  <2>. QED
    BY <1>4, <2>1 DEF ComputeNext, Frames
<1>5. CASE Visit
  <2>1. stack' \in Seq(Frames) /\ traverse_marker' \subseteq Nodes
    BY <1>5, VisitType
  <2>. QED
    BY <1>5, <2>1 DEF Visit, Frames
<1>6. CASE Leave
  <2> DEFINE L == Len(stack)
             n == stack[L].node
  <2>1. /\ n \in Nodes /\ L \in Nat \ {0} /\ stack' \in Seq(Frames)
        /\ reachability_' = [reachability_ EXCEPT ![n] = stack[L].best + 1]
        /\ returned' = returned \cup {n}
    BY <1>6, LeaveEffect
  <2>2. stack[L].best \in Nat
    BY <2>1, StackType
  <2>3. reachability_' \in [Nodes -> Nat] /\ returned' \subseteq Nodes
    BY <2>1, <2>2
  <2>. QED
    BY <1>6, <2>1, <2>3 DEF Leave, Frames
<1>7. CASE ComputeEnd
  BY <1>7 DEF ComputeEnd, NoMarker
<1>8. CASE Sort
  BY <1>8, SortEffect DEF Sort
<1>9. CASE UNCHANGED vars
  BY <1>9 DEF vars
<1>. QED
  BY <1>1, <1>2, <1>3, <1>4, <1>5, <1>6, <1>7, <1>8, <1>9 DEF Next, ComputeStep

(* The stack is empty unless a computation is going on.                    *)
LEMMA QuietStep == TypeOK /\ QuietInv /\ [Next]_vars => QuietInv'
<1> SUFFICES ASSUME TypeOK, QuietInv, [Next]_vars PROVE QuietInv'
  OBVIOUS
<1>. USE DEF QuietInv
<1>1. ASSUME NEW n \in Nodes, NEW m \in Nodes, NEW i \in 1 .. Arity[n], Connect(n, i, m)
      PROVE  QuietInv'
  BY <1>1 DEF Connect
<1>2. ASSUME NEW list \in TaskLists, ComputeBegin(list) PROVE QuietInv'
  BY <1>2 DEF ComputeBegin
<1>3. ASSUME NEW n \in Nodes, SingleBegin(n) PROVE QuietInv'
  BY <1>3 DEF SingleBegin
<1>4. CASE ComputeNext
  BY <1>4 DEF ComputeNext
<1>5. CASE Visit
  BY <1>5 DEF Visit
<1>6. CASE Leave
  BY <1>6 DEF Leave
<1>7. CASE ComputeEnd
  BY <1>7 DEF ComputeEnd, NoMarker
<1>8. CASE Sort
  BY <1>8 DEF Sort
<1>9. CASE UNCHANGED vars
  BY <1>9 DEF vars
<1>. QED
  BY <1>1, <1>2, <1>3, <1>4, <1>5, <1>6, <1>7, <1>8, <1>9 DEF Next, ComputeStep

(* Where a step that begins or ends a computation, or takes no part in     *)
(* one, leaves the stack.                                                  *)
LEMMA BetweenComputations ==
  ASSUME TypeOK, QuietInv, [Next]_vars,
         ~(ComputeNext \/ Visit \/ Leave)
  PROVE  \/ UNCHANGED vars
         \/ Len(stack') = 0 /\ stack' = <<>> /\ returned' = {}
         \/ /\ returned' = {} /\ todo' = <<>> /\ Len(stack') = 1
            /\ \E n \in Nodes : ~IsRoot(n) /\ stack'[1] = Frame(n)
<1>. USE DEF QuietInv
<1>1. ASSUME NEW n \in Nodes, NEW m \in Nodes, NEW i \in 1 .. Arity[n], Connect(n, i, m)
      PROVE  stack' = <<>> /\ returned' = {}
  BY <1>1 DEF Connect
<1>2. ASSUME NEW list \in TaskLists, ComputeBegin(list)
      PROVE  stack' = <<>> /\ returned' = {}
  BY <1>2 DEF ComputeBegin
<1>3. ASSUME NEW n \in Nodes, SingleBegin(n)
      PROVE  /\ returned' = {} /\ todo' = <<>> /\ Len(stack') = 1
             /\ ~IsRoot(n) /\ stack'[1] = Frame(n)
  BY <1>3 DEF SingleBegin
<1>4. CASE ComputeEnd
  BY <1>4 DEF ComputeEnd
<1>5. CASE Sort
  BY <1>5 DEF Sort
<1>6. stack' = <<>> => Len(stack') = 0
  OBVIOUS
<1>. QED
  BY <1>1, <1>2, <1>3, <1>4, <1>5, <1>6 DEF Next, ComputeStep

(* The calls that stay keep their nodes.                                   *)
LEMMA NodesKept ==
  ASSUME TypeOK, NEW k \in Nat, NEW value, k <= Len(stack), Advanced(k, value)
  PROVE  \A i \in 1 .. k : stack'[i].node = stack[i].node
<1> SUFFICES ASSUME NEW i \in 1 .. k PROVE stack'[i].node = stack[i].node
  OBVIOUS
<1>1. CASE i = k
  BY <1>1 DEF Advanced
<1>2. CASE i # k
  <2>1. i \in 1 .. k - 1
    BY <1>2
  <2>. QED
    BY <2>1 DEF Advanced
<1>. QED
  BY <1>1, <1>2

(* Calls in progress stay marked, different and not returned.              *)
LEMMA MarkerStep ==
  TypeOK /\ TypeOK' /\ QuietInv /\ MarkerInv /\ [Next]_vars => MarkerInv'
<1> SUFFICES ASSUME TypeOK, TypeOK', QuietInv, MarkerInv, [Next]_vars PROVE MarkerInv'
  OBVIOUS
<1> DEFINE L == Len(stack)
<1>0. /\ L \in Nat /\ (stack = <<>> <=> L = 0)
      /\ Len(stack') \in Nat /\ (stack' = <<>> <=> Len(stack') = 0)
  BY StackType
<1>1. CASE ComputeNext
  <2>1. PICK t : t = Head(todo)
    OBVIOUS
  <2>2. L = 0 /\ todo # <<>> /\ returned \subseteq traverse_marker
        /\ returned' = returned
    BY <1>0, <1>1 DEF ComputeNext, MarkerInv
  <2>3. \/ Len(stack') = 0 /\ traverse_marker \subseteq traverse_marker'
        \/ Len(stack') = 1 /\ stack'[1] = Frame(t) /\ t \in Nodes
           /\ traverse_marker' = traverse_marker \cup {t}
    BY <1>1, <2>1, <2>2, NextCases DEF Pushed
  <2>4. \A i \in 2 .. Len(stack') : FALSE
    BY <2>3
  <2>5. stack' # <<>> => stack'[1].node \in traverse_marker'
    BY <1>0, <2>3, FrameFields
  <2>. QED
    BY <2>2, <2>3, <2>4, <2>5 DEF MarkerInv
<1>2. CASE Visit
  <2>1. PICK n, s, m : n = stack[L].node /\ s = stack[L].slot /\ m = in_edges_[n][s]
    OBVIOUS
  <2>2. L \in Nat \ {0} /\ returned' = returned /\ todo' = todo /\ stack # <<>>
    BY <1>0, <1>2 DEF Visit
  <2>3. returned \subseteq traverse_marker
    BY <2>2 DEF MarkerInv
  <2>4. ASSUME NEW value, Advanced(L, value),
               traverse_marker \subseteq traverse_marker'
        PROVE  MarkerInv'
    <3>1. Len(stack') = L /\ \A i \in 1 .. L : stack'[i].node = stack[i].node
      BY <2>2, <2>4, NodesKept DEF Advanced
    <3>. QED
      BY <2>2, <2>3, <2>4, <3>1 DEF MarkerInv
  <2>5. ASSUME m \notin traverse_marker, Pushed(m), m \in Nodes,
               traverse_marker' = traverse_marker \cup {m}
        PROVE  MarkerInv'
    <3>1. Len(stack') = L + 1 /\ stack'[L + 1].node = m
          /\ \A i \in 1 .. L : stack'[i] = stack[i]
      BY <2>5, FrameFields DEF Pushed
    <3>2. ASSUME NEW i \in 2 .. L + 1
          PROVE  /\ stack'[i].node \in traverse_marker' \ returned
                 /\ \A k \in 2 .. L + 1 : i # k => stack'[i].node # stack'[k].node
      <4>1. \A j \in 2 .. L : /\ stack'[j].node = stack[j].node
                             /\ stack[j].node \in traverse_marker \ returned
        BY <2>2, <3>1 DEF MarkerInv
      <4>2. CASE i = L + 1
        BY <2>2, <2>3, <2>5, <3>1, <4>1, <4>2
      <4>3. CASE i # L + 1
        <5>1. i \in 2 .. L
          BY <2>2, <4>3
        <5>2. ASSUME NEW k \in 2 .. L, i # k PROVE stack'[i].node # stack'[k].node
          BY <4>1, <5>1, <5>2 DEF MarkerInv
        <5>3. stack'[i].node # stack'[L + 1].node
          BY <2>5, <3>1, <4>1, <5>1
        <5>. QED
          BY <2>2, <2>5, <4>1, <5>1, <5>2, <5>3
      <4>. QED
        BY <4>2, <4>3
    <3>3. stack'[1].node = stack[1].node
      BY <2>2, <3>1
    <3>4. /\ todo' # <<>> => stack'[1].node \in traverse_marker'
          /\ returned' \subseteq traverse_marker'
      BY <2>2, <2>3, <2>5, <3>3 DEF MarkerInv
    <3>. QED
      BY <2>2, <3>1, <3>2, <3>4 DEF MarkerInv
  <2>. QED
    BY <1>2, <2>1, <2>4, <2>5, VisitCases
<1>3. CASE Leave
  <2>1. PICK n : n = stack[L].node
    OBVIOUS
  <2>2. /\ L \in Nat \ {0} /\ stack # <<>> /\ todo' = todo
        /\ traverse_marker' = traverse_marker
        /\ returned' = returned \cup {n}
        /\ Advanced(L - 1, stack[L].best + 1)
    BY <1>3, <2>1, LeaveEffect DEF Leave
  <2>3. Len(stack') = L - 1 /\ \A i \in 1 .. L - 1 : stack'[i].node = stack[i].node
    BY <2>2, NodesKept DEF Advanced
  <2>4. ASSUME NEW i \in 2 .. L - 1
        PROVE  /\ stack'[i].node \in traverse_marker' \ returned'
               /\ \A k \in 2 .. L - 1 : i # k => stack'[i].node # stack'[k].node
    BY <2>1, <2>2, <2>3 DEF MarkerInv
  <2>5. CASE L = 1
    <3>1. stack' = <<>>
      BY <1>0, <2>3, <2>5
    <3>2. todo # <<>> => n \in traverse_marker /\ returned \subseteq traverse_marker
      BY <2>1, <2>2, <2>5 DEF MarkerInv
    <3>. QED
      BY <2>2, <2>3, <2>4, <3>1, <3>2 DEF MarkerInv
  <2>6. CASE L # 1
    <3>0. \A x \in Nat : x # 0 /\ x # 1 => x \in 2 .. x
      OBVIOUS
    <3>3. L \in 2 .. L
      BY <1>0, <2>2, <2>6, <3>0
    <3>1. n \in traverse_marker /\ returned \subseteq traverse_marker
      BY <2>1, <2>2, <3>3 DEF MarkerInv
    <3>2. stack'[1].node = stack[1].node
      BY <2>3, <2>6
    <3>. QED
      BY <2>2, <2>3, <2>4, <3>1, <3>2 DEF MarkerInv
  <2>. QED
    BY <2>5, <2>6
<1>4. CASE ~(ComputeNext \/ Visit \/ Leave)
  <2>1. CASE UNCHANGED vars
    BY <2>1 DEF vars, MarkerInv
  <2>2. CASE Len(stack') = 0 /\ stack' = <<>> /\ returned' = {}
    BY <2>2 DEF MarkerInv
  <2>3. CASE returned' = {} /\ todo' = <<>> /\ Len(stack') = 1
    BY <2>3 DEF MarkerInv
  <2>. QED
    BY <1>4, <2>1, <2>2, <2>3, BetweenComputations
<1>. QED
  BY <1>1, <1>2, <1>3, <1>4

(* Each call in progress stays the one the call outside it waits for.      *)
LEMMA CallsStep ==
  TypeOK /\ TypeOK' /\ QuietInv /\ CallsInv /\ [Next]_vars => CallsInv'
<1> SUFFICES ASSUME TypeOK, TypeOK', QuietInv, CallsInv, [Next]_vars PROVE CallsInv'
  OBVIOUS
<1> DEFINE L == Len(stack)
<1>0. /\ L \in Nat /\ (stack = <<>> <=> L = 0)
      /\ \A i \in 1 .. L : stack[i].node \in Nodes
                           /\ stack[i].slot \in Nat /\ Arity[stack[i].node] \in Nat
  BY StackType, GraphAssumption
<1>1. ASSUME NEW m \in Nodes, ~IsRoot(m), Len(stack') = 1, stack'[1] = Frame(m)
      PROVE  CallsInv'
  <2>1. stack'[1].node = m /\ stack'[1].slot = 1 /\ Arity[m] \in Nat
    BY <1>1, FrameFields, GraphAssumption
  <2>2. \A i \in 1 .. 1 : i = 1
    OBVIOUS
  <2>3. (~IsRoot(m))' /\ 1 <= Arity[m] + 1
    BY <1>1, <2>1 DEF IsRoot
  <2>4. \A i \in 1 .. 1 - 1 : FALSE
    OBVIOUS
  <2>. QED
    BY <1>1, <2>1, <2>2, <2>3, <2>4 DEF CallsInv, IsRoot
<1>2. ASSUME Len(stack') = 0 PROVE CallsInv'
  BY <1>2 DEF CallsInv
<1>3. ASSUME in_edges_' = in_edges_, NEW k \in Nat, NEW value, k <= L,
             Advanced(k, value), k > 0 => stack[k].slot <= Arity[stack[k].node]
      PROVE  CallsInv'
  <2>1. /\ Len(stack') = k
        /\ \A i \in 1 .. k : stack'[i].node = stack[i].node
        /\ \A i \in 1 .. k - 1 : stack'[i] = stack[i]
        /\ k > 0 => stack'[k].slot = stack[k].slot + 1
    BY <1>3, NodesKept DEF Advanced
  <2>2. ASSUME NEW i \in 1 .. k
        PROVE  (~IsRoot(stack[i].node))' /\ stack'[i].slot <= Arity[stack'[i].node] + 1
               /\ (~IsRoot(stack[i].node))
    <3>1. ~IsRoot(stack[i].node) /\ stack[i].slot <= Arity[stack[i].node] + 1
      BY <1>0, <1>3 DEF CallsInv
    <3>2. CASE i = k
      BY <1>0, <1>3, <2>1, <3>1, <3>2 DEF IsRoot
    <3>3. CASE i # k
      <4>1. i \in 1 .. k - 1
        BY <3>3
      <4>. QED
        BY <2>1, <3>1, <4>1 DEF IsRoot
    <3>. QED
      BY <3>2, <3>3
  <2>3. ASSUME NEW i \in 1 .. k - 1
        PROVE  /\ stack'[i].slot <= Arity[stack'[i].node]
               /\ stack'[i + 1].node = in_edges_'[stack'[i].node][stack'[i].slot]
    <3>1. i + 1 \in 1 .. k /\ i \in 1 .. L - 1
      BY <1>0, <1>3
    <3>. QED
      BY <1>3, <2>1, <3>1 DEF CallsInv
  <2>. QED
    BY <2>1, <2>2, <2>3 DEF CallsInv, IsRoot
<1>4. CASE ComputeNext
  <2>1. L = 0
    BY <1>0, <1>4 DEF ComputeNext
  <2>2. PICK t : t = Head(todo)
    OBVIOUS
  <2>3. Len(stack') = 0
        \/ (Len(stack') = 1 /\ stack'[1] = Frame(t) /\ t \in Nodes /\ ~IsRoot(t))
    BY <1>4, <2>1, <2>2, NextCases DEF Pushed
  <2>. QED
    BY <1>1, <1>2, <2>3
<1>5. CASE Visit
  <2>1. PICK n, s, m : n = stack[L].node /\ s = stack[L].slot /\ m = in_edges_[n][s]
    OBVIOUS
  <2>2. L \in Nat \ {0} /\ s \in 1 .. Arity[n] /\ in_edges_' = in_edges_ /\ Arity[n] \in Nat
    BY <1>0, <1>5, <2>1, VisitCases DEF Visit
  <2>3. ASSUME NEW value, Advanced(L, value) PROVE CallsInv'
    BY <1>3, <2>1, <2>2, <2>3
  <2>4. ASSUME ~IsRoot(m), Pushed(m), m \in Nodes PROVE CallsInv'
    <3>1. /\ Len(stack') = L + 1 /\ stack'[L + 1].node = m /\ stack'[L + 1].slot = 1
          /\ \A i \in 1 .. L : stack'[i] = stack[i]
      BY <2>4, FrameFields DEF Pushed
    <3>2. ASSUME NEW i \in 1 .. L + 1
          PROVE  ~IsRoot(stack'[i].node) /\ stack'[i].slot <= Arity[stack'[i].node] + 1
      <4>1. CASE i = L + 1
        <5>1. Arity[m] \in Nat
          BY <2>4, GraphAssumption
        <5>. QED
          BY <2>4, <3>1, <4>1, <5>1 DEF IsRoot
      <4>2. CASE i # L + 1
        <5>1. i \in 1 .. L
          BY <1>0, <4>2
        <5>. QED
          BY <3>1, <5>1 DEF CallsInv
      <4>. QED
        BY <4>1, <4>2
    <3>3. ASSUME NEW i \in 1 .. L
          PROVE  /\ stack'[i].slot <= Arity[stack'[i].node]
                 /\ stack'[i + 1].node = in_edges_'[stack'[i].node][stack'[i].slot]
      <4>1. CASE i = L
        BY <2>1, <2>2, <3>1, <4>1
      <4>2. CASE i # L
        <5>1. i \in 1 .. L - 1 /\ i + 1 \in 1 .. L
          BY <1>0, <4>2
        <5>. QED
          BY <2>2, <3>1, <5>1 DEF CallsInv
      <4>. QED
        BY <4>1, <4>2
    <3>4. (L + 1) - 1 = L
      BY <1>0
    <3>. QED
      BY <3>1, <3>2, <3>3, <3>4 DEF CallsInv, IsRoot
  <2>. QED
    BY <1>5, <2>1, <2>3, <2>4, VisitCases
<1>6. CASE Leave
  <2>1. L \in Nat \ {0} /\ Advanced(L - 1, stack[L].best + 1) /\ in_edges_' = in_edges_
    BY <1>6, LeaveEffect DEF Leave
  <2>2. L - 1 \in Nat /\ L - 1 <= L /\ (L - 1 > 0 => L - 1 \in 1 .. L - 1)
    BY <2>1
  <2>3. L - 1 > 0 => stack[L - 1].slot <= Arity[stack[L - 1].node]
    BY <2>2 DEF CallsInv
  <2>. QED
    BY <1>3, <2>1, <2>2, <2>3
<1>7. CASE ~(ComputeNext \/ Visit \/ Leave)
  <2>1. CASE UNCHANGED vars
    BY <2>1 DEF vars, CallsInv, IsRoot
  <2>2. CASE Len(stack') = 1 /\ \E n \in Nodes : ~IsRoot(n) /\ stack'[1] = Frame(n)
    BY <1>1, <2>2
  <2>. QED
    BY <1>2, <1>7, <2>1, <2>2, BetweenComputations
<1>. QED
  BY <1>4, <1>5, <1>6, <1>7

(* Nothing but a new computation or edge undoes the order.                 *)
LEMMA SortedStep == TypeOK /\ QuietInv /\ SortedInv /\ [Next]_vars => SortedInv'
<1> SUFFICES ASSUME TypeOK, QuietInv, SortedInv, [Next]_vars, phase' = "sorted"
             PROVE  \A i, k \in DOMAIN tasks' :
                      tasks'[i] # None /\ (i < k => NotAfter(tasks'[i], tasks'[k]))
                    /\ reachability_' = reachability_
  <2>1. ASSUME reachability_' = reachability_, NEW m, NEW n, NotAfter(m, n)
        PROVE  (NotAfter(m, n))'
    BY <2>1 DEF NotAfter, get_reachability, IsRoot
  <2>. QED
    BY <2>1 DEF SortedInv
<1>1. CASE Sort
  BY <1>1, SortEffect DEF Sort
<1>2. CASE UNCHANGED vars
  BY <1>2 DEF vars, SortedInv
<1>3. ~(\E n, m \in Nodes : \E i \in 1 .. Arity[n] : Connect(n, i, m))
  BY DEF Connect
<1>4. ~(\E list \in TaskLists : ComputeBegin(list)) /\ ~(\E n \in Nodes : SingleBegin(n))
  BY DEF ComputeBegin, SingleBegin
<1>5. ~ComputeEnd
  BY DEF ComputeEnd
<1>6. CASE ComputeNext \/ Visit \/ Leave
  BY <1>6 DEF QuietInv, ComputeNext, Visit, Leave
<1>. QED
  BY <1>1, <1>2, <1>3, <1>4, <1>5, <1>6 DEF Next, ComputeStep

------------------------------------------------------------------------------
(* Values, on graphs without cycles. *)

(* A call that another one is inside of, or the same one, is not of a node *)
(* that provides for the inner one.                                        *)
LEMMA NoCallOfItself ==
  ASSUME TypeOK, CallsInv, Acyclic,
         NEW i \in 1 .. Len(stack), NEW k \in i .. Len(stack)
  PROVE  stack[i].node \notin Providers(stack[k].node)
<1> SUFFICES ASSUME stack[i].node \in Providers(stack[k].node) PROVE FALSE
  OBVIOUS
<1> DEFINE T == {stack[l].node : l \in i .. k}
<1>0. Len(stack) \in Nat
      /\ \A l \in 1 .. Len(stack) : stack[l].node \in Nodes /\ stack[l].slot \in Nat \ {0}
  BY StackType
<1>1. T \subseteq Nodes /\ T # {}
  BY <1>0
<1>2. PICK n \in T : Providers(n) \cap T = {}
  BY <1>1, SourceExists
<1>3. PICK l \in i .. k : n = stack[l].node
  OBVIOUS
<1>4. CASE l = k
  <2>1. stack[i].node \in T
    BY <1>0
  <2>. QED
    BY <1>2, <1>3, <1>4, <2>1
<1>5. CASE l # k
  <2>1. l \in 1 .. Len(stack) - 1 /\ l \in 1 .. Len(stack) /\ l + 1 \in i .. k
        /\ l + 1 \in 1 .. Len(stack)
    BY <1>0, <1>5
  <2>2. /\ stack[l].slot \in 1 .. Arity[n]
        /\ stack[l + 1].node = in_edges_[n][stack[l].slot]
    BY <1>0, <1>3, <2>1, GraphAssumption DEF CallsInv
  <2>3. stack[l + 1].node # None
    BY <1>0, <2>1, GraphAssumption
  <2>4. stack[l + 1].node \in Providers(n)
    BY <2>2, <2>3 DEF Providers
  <2>5. stack[l + 1].node \in T
    BY <2>1
  <2>. QED
    BY <1>2, <2>4, <2>5
<1>. QED
  BY <1>4, <1>5

(* No two calls in progress are of the same node.                          *)
LEMMA CallsDiffer ==
  ASSUME TypeOK, CallsInv, Acyclic,
         NEW k \in 1 .. Len(stack), NEW i \in 1 .. k - 1
  PROVE  stack[i].node # stack[k].node
<1>0. /\ Len(stack) \in Nat
      /\ k - 1 \in 1 .. Len(stack) - 1 /\ k - 1 \in i .. Len(stack)
      /\ k - 1 \in 1 .. Len(stack)
      /\ i \in 1 .. Len(stack) /\ (k - 1) + 1 = k
  BY StackType
<1> DEFINE n == stack[k - 1].node
<1>1. n \in Nodes /\ stack[k - 1].slot \in Nat \ {0} /\ stack[k].node \in Nodes
  BY <1>0, StackType
<1>2. stack[k - 1].slot \in 1 .. Arity[n] /\ stack[k].node = in_edges_[n][stack[k - 1].slot]
  BY <1>0, <1>1, GraphAssumption DEF CallsInv
<1>3. stack[k].node \in Providers(n)
  BY <1>1, <1>2, GraphAssumption DEF Providers
<1>. QED
  BY <1>0, <1>3, NoCallOfItself

(* The graph does not change during a computation.                         *)
LEMMA GraphKept ==
  ASSUME in_edges_' = in_edges_
  PROVE  (Acyclic' <=> Acyclic) /\ \A n : Providers(n)' = Providers(n)
<1>1. \A n : Providers(n)' = Providers(n)
  BY DEF Providers
<1>2. Chains' = Chains
  BY DEF Chains, Providers
<1>. QED
  BY <1>1, <1>2 DEF Acyclic, Providers

(* Consistent values that are not touched stay consistent.                 *)
LEMMA ConsistentKept ==
  ASSUME in_edges_' = in_edges_, NEW S, Consistent(S),
         \A m \in S : reachability_'[m] = reachability_[m]
  PROVE  Consistent(S)'
<1> SUFFICES ASSUME NEW n \in S
             PROVE  /\ Providers(n)' \subseteq S
                    /\ ~IsRoot(n) => /\ reachability_'[n] > 0
                                     /\ IsLargestOf(reachability_[n] - 1, Providers(n))'
  BY DEF Consistent, IsRoot
<1>1. Providers(n)' = Providers(n) /\ Providers(n) \subseteq S
  BY GraphKept DEF Consistent
<1>2. \A m \in Providers(n) : get_reachability(m)' = get_reachability(m)
  BY <1>1 DEF get_reachability, IsRoot
<1>3. ASSUME ~IsRoot(n)
      PROVE  reachability_'[n] > 0 /\ IsLargestOf(reachability_[n] - 1, Providers(n))'
  <2>1. /\ reachability_[n] > 0 /\ IsLargestOf(reachability_[n] - 1, Providers(n))
        /\ reachability_'[n] = reachability_[n]
    BY <1>3 DEF Consistent
  <2>. QED
    BY <1>1, <1>2, <2>1 DEF IsLargestOf
<1>. QED
  BY <1>1, <1>3

(* So does a set that gains a node whose value agrees with its providers,  *)
(* all of them in the set.                                                 *)
LEMMA ConsistentGrows ==
  ASSUME in_edges_' = in_edges_, NEW S, Consistent(S),
         \A m \in S : reachability_'[m] = reachability_[m],
         NEW n, Providers(n) \subseteq S,
         ~IsRoot(n) => /\ reachability_'[n] > 0
                       /\ \/ reachability_'[n] - 1 = 0
                          \/ \E m \in Providers(n) : reachability_'[n] - 1 = get_reachability(m)
                       /\ \A m \in Providers(n) : get_reachability(m) <= reachability_'[n] - 1
  PROVE  Consistent(S \cup {n})'
<1>1. Consistent(S)'
  BY ConsistentKept
<1>2. Providers(n)' = Providers(n)
  BY GraphKept
<1>3. \A m \in Providers(n) : get_reachability(m)' = get_reachability(m)
  BY DEF get_reachability, IsRoot
<1>4. ~IsRoot(n) => /\ reachability_'[n] > 0
                    /\ IsLargestOf(reachability_[n] - 1, Providers(n))'
  BY <1>2, <1>3 DEF IsLargestOf
<1>. QED
  BY <1>1, <1>2, <1>4 DEF Consistent, IsRoot

(* A call has seen only nodes of S, and knows the largest of their values.  *)
KnownIn(S, i) ==
  SeenBy(stack[i]) \subseteq S /\ IsLargestOf(stack[i].best, SeenBy(stack[i]))

(* One more value is that of a node of T, or 0 for a null edge.             *)
ValueOf(value, m, T) ==
  \/ m = None /\ value = 0
  \/ m # None /\ m \in T /\ get_reachability(m)' = value

FrameAdvanced(i, value) ==
  /\ stack'[i].node = stack[i].node
  /\ stack'[i].slot = stack[i].slot + 1
  /\ stack'[i].best = Larger(stack[i].best, value)

(* What a call has seen does not change while other calls advance.         *)
LEMMA FrameKept ==
  ASSUME in_edges_' = in_edges_, NEW S,
         \A m \in S : get_reachability(m)' = get_reachability(m),
         NEW i, stack'[i] = stack[i],
         KnownIn(S, i)
  PROVE  KnownIn(S, i)'
<1>1. SeenBy(stack[i])' = SeenBy(stack[i])
  BY DEF SeenBy
<1>. QED
  BY <1>1 DEF IsLargestOf, KnownIn

(* A call that advances has seen the owner in its slot, too.               *)
LEMMA FrameAdvances ==
  ASSUME in_edges_' = in_edges_, TypeOK,
         NEW S \in SUBSET Nodes, NEW T, S \subseteq T,
         \A m \in S : get_reachability(m)' = get_reachability(m),
         NEW i \in 1 .. Len(stack), NEW value \in Nat, NEW m,
         m = in_edges_[stack[i].node][stack[i].slot],
         ValueOf(value, m, T), FrameAdvanced(i, value),
         KnownIn(S, i)
  PROVE  KnownIn(T, i)'
<1>1. PICK b, s, seen : b = stack[i].best /\ s = stack[i].slot /\ seen = SeenBy(stack[i])
  OBVIOUS
<1>2. b \in Nat /\ s \in Nat \ {0}
  BY <1>1, StackType
<1>3. SeenBy(stack[i])' = seen \cup ({m} \ {None})
  <2>1. 1 .. (s + 1) - 1 = (1 .. s - 1) \cup {s}
    BY <1>2
  <2>. QED
    BY <1>1, <2>1 DEF SeenBy, FrameAdvanced
<1>4. \A x \in seen : get_reachability(x) \in Nat /\ get_reachability(x)' = get_reachability(x)
  BY <1>1, ValuesAreNumbers DEF KnownIn
<1>5. /\ b = 0 \/ \E x \in seen : b = get_reachability(x)
      /\ \A x \in seen : get_reachability(x) <= b
  BY <1>1 DEF IsLargestOf, KnownIn
<1>6. stack'[i].best = IF b > value THEN b ELSE value
  BY <1>1 DEF Larger, FrameAdvanced
<1>7. CASE m = None
  <2>1. SeenBy(stack[i])' = seen /\ stack'[i].best = b
    BY <1>2, <1>3, <1>6, <1>7 DEF ValueOf
  <2>. QED
    BY <1>1, <1>4, <1>5, <2>1 DEF IsLargestOf, KnownIn
<1>8. CASE m # None
  <2>1. SeenBy(stack[i])' = seen \cup {m} /\ m \in T /\ get_reachability(m)' = value
    BY <1>3, <1>8 DEF ValueOf
  <2>2. SeenBy(stack[i])' \subseteq T
    BY <1>1, <2>1 DEF KnownIn
  <2>3. stack'[i].best = 0 \/ \E x \in seen \cup {m} : stack'[i].best = get_reachability(x)'
    BY <1>4, <1>5, <1>6, <2>1
  <2>4. \A x \in seen \cup {m} : get_reachability(x)' <= stack'[i].best
    BY <1>2, <1>4, <1>5, <1>6, <2>1
  <2>. QED
    BY <2>1, <2>2, <2>3, <2>4 DEF IsLargestOf, KnownIn
<1>. QED
  BY <1>7, <1>8

(* The same, put together for the state after a step.                      *)
LEMMA ComputingAfter ==
  ASSUME NEW T, Settled' = T, Consistent(T)',
         \A i \in 1 .. Len(stack') :
           KnownIn(T, i)',
         Listed' \subseteq T \cup OnStack' \cup {todo'[i] : i \in 1 .. Len(todo')}
  PROVE  ComputingOK'
BY DEF ComputingOK, Consistent, KnownIn

(* What is known of the values before a step.                              *)
LEMMA ComputingBefore ==
  ASSUME TypeOK, ComputingOK, NEW S, S = Settled, NEW O, O = OnStack
  PROVE  /\ S \in SUBSET Nodes /\ Consistent(S) /\ S \cap O = {}
         /\ S = (traverse_marker \cup returned) \ O
         /\ \A i \in 1 .. Len(stack) :
              KnownIn(S, i)
         /\ Listed \subseteq S \cup O \cup {todo[i] : i \in 1 .. Len(todo)}
BY DEF ComputingOK, Settled, TypeOK, Consistent, KnownIn

(* An owner that is not called was called before and is done, or is a root. *)
LEMMA VisitValues ==
  ASSUME TypeOK, TypeOK', MarkerInv, CallsInv, Acyclic, ComputingOK, Visit
  PROVE  ComputingOK'
<1>1. PICK L, n, s, m : /\ L = Len(stack) /\ n = stack[L].node
                        /\ s = stack[L].slot /\ m = in_edges_[n][s]
  OBVIOUS
<1>2. PICK S, O : S = Settled /\ O = OnStack
  OBVIOUS
<1>3. /\ S \in SUBSET Nodes /\ Consistent(S) /\ S \cap O = {}
      /\ S = (traverse_marker \cup returned) \ O
      /\ \A i \in 1 .. L :
           KnownIn(S, i)
      /\ Listed \subseteq S \cup O \cup {todo[i] : i \in 1 .. Len(todo)}
  BY <1>1, <1>2, ComputingBefore
<1>4. /\ L \in Nat \ {0} /\ n \in Nodes /\ s \in 1 .. Arity[n]
      /\ in_edges_' = in_edges_ /\ reachability_' = reachability_ /\ todo' = todo
      /\ tasks' = tasks /\ returned' = returned /\ stack # <<>>
  BY <1>1, VisitCases DEF Visit
<1>5. /\ \A x : get_reachability(x)' = get_reachability(x)
      /\ \A x \in Nodes : reachability_'[x] = reachability_[x]
      /\ Listed' = Listed
  BY <1>4 DEF get_reachability, IsRoot, Listed
<1>6. O = {stack[i].node : i \in 1 .. L}
      /\ OnStack' = {stack'[i].node : i \in 1 .. Len(stack')}
  BY <1>1, <1>2 DEF OnStack
<1>7. returned \subseteq traverse_marker
  BY <1>4 DEF MarkerInv
<1>8. m \in Providers(n) => m \notin O
  <2>1. \A i \in 1 .. L : L \in i .. L
    BY <1>4
  <2>. QED
    BY <1>1, <1>6, <2>1, NoCallOfItself
<1>9. ASSUME NEW value \in Nat, Advanced(L, value),
             NEW T, S \subseteq T, Settled' = T, Consistent(T)',
             ValueOf(value, m, T)
      PROVE  ComputingOK'
  <2>1. /\ Len(stack') = L
        /\ \A i \in 1 .. L : stack'[i].node = stack[i].node
        /\ \A i \in 1 .. L - 1 : stack'[i] = stack[i]
        /\ stack'[L].node = n /\ stack'[L].slot = stack[L].slot + 1
        /\ stack'[L].best = Larger(stack[L].best, value)
    BY <1>1, <1>4, <1>9, NodesKept DEF Advanced
  <2>2. OnStack' = O
    BY <1>6, <2>1
  <2>3. ASSUME NEW i \in 1 .. L - 1
        PROVE  KnownIn(T, i)'
    <3>1. i \in 1 .. L /\ stack'[i] = stack[i]
      BY <1>4, <2>1
    <3>2. KnownIn(S, i)'
      BY <1>3, <1>4, <1>5, <3>1, FrameKept
    <3>. QED
      BY <1>9, <3>2 DEF KnownIn
  <2>4. KnownIn(T, L)'
    <3>1. L \in 1 .. Len(stack) /\ L \in 1 .. L
      BY <1>1, <1>4
    <3>2. m = in_edges_[stack[L].node][stack[L].slot] /\ FrameAdvanced(L, value)
      BY <1>1, <2>1 DEF FrameAdvanced
    <3>3. KnownIn(S, L)
      BY <1>3, <3>1
    <3>4. in_edges_' = in_edges_ /\ S \in SUBSET Nodes /\ S \subseteq T
          /\ \A x \in S : get_reachability(x)' = get_reachability(x)
      BY <1>3, <1>4, <1>5, <1>9
    <3>. QED
      BY <1>9, <3>1, <3>2, <3>3, <3>4, FrameAdvances
  <2>5. \A i \in 1 .. Len(stack') :
          KnownIn(T, i)'
    <3>1. \A i \in 1 .. L : i \in 1 .. L - 1 \/ i = L
      BY <1>4
    <3>. QED
      BY <2>1, <2>3, <2>4, <3>1
  <2>6. Listed' \subseteq T \cup OnStack' \cup {todo'[i] : i \in 1 .. Len(todo')}
    BY <1>3, <1>4, <1>5, <1>9, <2>2
  <2>. QED
    BY <1>9, <2>5, <2>6, ComputingAfter
<1>10. ASSUME NEW value, Advanced(L, value) PROVE OnStack' = O
  <2>1. Len(stack') = L
    BY <1>10 DEF Advanced
  <2>2. L \in Nat /\ L <= Len(stack)
    BY <1>1, <1>4
  <2>3. \A i \in 1 .. L : stack'[i].node = stack[i].node
    BY <1>10, <2>2, NodesKept
  <2>. QED
    BY <1>6, <2>1, <2>3
<1>11. Consistent(S)'
  BY <1>3, <1>4, <1>5, ConsistentKept
<1>12. CASE m = None /\ traverse_marker' = traverse_marker /\ Advanced(L, 0)
  <2>1. Settled' = S
    BY <1>3, <1>4, <1>10, <1>12 DEF Settled
  <2>2. ValueOf(0, m, S)
    BY <1>12 DEF ValueOf
  <2>3. 0 \in Nat /\ S \subseteq S
    OBVIOUS
  <2>. QED
    BY <1>9, <1>11, <1>12, <2>1, <2>2, <2>3
<1>13. CASE /\ m \in Providers(n) /\ m \in Nodes
            /\ traverse_marker' = traverse_marker \cup {m}
            /\ m \in traverse_marker \/ IsRoot(m)
            /\ Advanced(L, get_reachability(m))
  <2>1. Settled' = S \cup {m}
    BY <1>3, <1>4, <1>8, <1>10, <1>13 DEF Settled
  <2>2. Consistent(S \cup {m})'
    <3>1. CASE m \in traverse_marker
      <4>1. S \cup {m} = S
        BY <1>3, <1>8, <1>13, <3>1
      <4>. QED
        BY <1>11, <4>1
    <3>2. CASE IsRoot(m)
      <4>1. Providers(m) = {}
        BY <1>13, <3>2, ValuesAreNumbers
      <4>. QED
        BY <1>3, <1>4, <1>5, <3>2, <4>1, ConsistentGrows
    <3>. QED
      BY <1>13, <3>1, <3>2
  <2>3. get_reachability(m) \in Nat /\ ValueOf(get_reachability(m), m, S \cup {m})
    BY <1>5, <1>13, ValuesAreNumbers, GraphAssumption DEF ValueOf
  <2>. QED
    BY <1>5, <1>9, <1>13, <2>1, <2>2, <2>3
<1>14. CASE /\ m \in Nodes /\ m \notin traverse_marker /\ Pushed(m)
            /\ traverse_marker' = traverse_marker \cup {m}
  <2>1. /\ Len(stack') = L + 1 /\ stack'[L + 1] = Frame(m)
        /\ \A i \in 1 .. L : stack'[i] = stack[i]
    BY <1>1, <1>14 DEF Pushed
  <2>2. OnStack' = O \cup {m}
    <3>1. 1 .. L + 1 = (1 .. L) \cup {L + 1}
      BY <1>4
    <3>2. stack'[L + 1].node = m
      BY <1>14, <2>1, FrameFields
    <3>. QED
      BY <1>6, <2>1, <3>1, <3>2
  <2>3. Settled' = S
    BY <1>3, <1>4, <1>7, <1>14, <2>2 DEF Settled
  <2>4. ASSUME NEW i \in 1 .. L + 1
        PROVE  KnownIn(S, i)'
    <3>1. CASE i = L + 1
      <4>1. stack'[i].slot = 1 /\ stack'[i].best = 0
        BY <1>14, <2>1, <3>1, FrameFields
      <4>2. SeenBy(stack[i])' = {}
        BY <4>1 DEF SeenBy
      <4>. QED
        BY <4>1, <4>2 DEF IsLargestOf, KnownIn
    <3>2. CASE i # L + 1
      <4>1. i \in 1 .. L /\ stack'[i] = stack[i]
        BY <1>4, <2>1, <3>2
      <4>. QED
        BY <1>3, <1>4, <1>5, <4>1, FrameKept
    <3>. QED
      BY <3>1, <3>2
  <2>5. Listed' \subseteq S \cup OnStack' \cup {todo'[i] : i \in 1 .. Len(todo')}
    BY <1>3, <1>4, <1>5, <2>2
  <2>. QED
    BY <1>11, <2>1, <2>3, <2>4, <2>5, ComputingAfter
<1>. QED
  BY <1>1, <1>12, <1>13, <1>14, VisitCases

(* A node whose call returns agrees with its providers, which are done; no *)
(* other call has seen it before, and the call outside it sees it now.     *)
LEMMA LeaveValues ==
  ASSUME TypeOK, TypeOK', CallsInv, Acyclic, ComputingOK, Leave
  PROVE  ComputingOK'
<1>1. PICK L, n, S, O, value :
        /\ L = Len(stack) /\ n = stack[L].node /\ S = Settled /\ O = OnStack
        /\ value = stack[L].best + 1
  OBVIOUS
<1>2. /\ S \in SUBSET Nodes /\ Consistent(S) /\ S \cap O = {}
      /\ S = (traverse_marker \cup returned) \ O
      /\ \A i \in 1 .. L : KnownIn(S, i)
      /\ Listed \subseteq S \cup O \cup {todo[i] : i \in 1 .. Len(todo)}
  BY <1>1, ComputingBefore
<1>3. /\ L \in Nat \ {0} /\ n \in Nodes /\ stack[L].slot > Arity[n]
      /\ Advanced(L - 1, value)
      /\ reachability_' = [reachability_ EXCEPT ![n] = value]
      /\ returned' = returned \cup {n} /\ traverse_marker' = traverse_marker
      /\ in_edges_' = in_edges_ /\ todo' = todo /\ tasks' = tasks
  BY <1>1, LeaveEffect DEF Leave
<1>4. PICK k : k = L - 1
  OBVIOUS
<1>5. /\ k \in Nat /\ L = k + 1 /\ L \in 1 .. L /\ 1 .. L = (1 .. k) \cup {L}
      /\ L = Len(stack)
  BY <1>1, <1>3, <1>4
<1>6. /\ ~IsRoot(n) /\ stack[L].slot = Arity[n] + 1 /\ Arity[n] \in Nat
      /\ stack[L].best \in Nat
  <2>1. L \in 1 .. Len(stack)
    BY <1>5
  <2>2. /\ ~IsRoot(n) /\ stack[L].slot <= Arity[n] + 1
        /\ stack[L].slot \in Nat /\ stack[L].best \in Nat
    BY <1>1, <2>1, StackType DEF CallsInv
  <2>3. Arity[n] \in Nat
    BY <1>3, GraphAssumption
  <2>. QED
    BY <1>3, <2>2, <2>3
<1>7. /\ Len(stack') = k
      /\ \A i \in 1 .. k : stack'[i].node = stack[i].node
      /\ \A i \in 1 .. k - 1 : stack'[i] = stack[i]
      /\ k > 0 => FrameAdvanced(k, value)
  <2>1. Advanced(k, value) /\ k <= Len(stack)
    BY <1>3, <1>4, <1>5
  <2>2. \A i \in 1 .. k : stack'[i].node = stack[i].node
    BY <1>5, <2>1, NodesKept
  <2>. QED
    BY <2>1, <2>2 DEF Advanced, FrameAdvanced
<1>8. /\ O = {stack[i].node : i \in 1 .. L}
      /\ OnStack' = {stack'[i].node : i \in 1 .. k}
  BY <1>1, <1>7 DEF OnStack
<1>9. OnStack' = O \ {n} /\ n \in O
  <2>1. O = {stack[i].node : i \in 1 .. k} \cup {n}
    BY <1>1, <1>5, <1>8
  <2>2. \A i \in 1 .. k : stack[i].node # n
    <3>1. k = L - 1
      BY <1>4
    <3>2. L \in 1 .. Len(stack)
      BY <1>5
    <3>. QED
      BY <1>1, <3>1, <3>2, CallsDiffer
  <2>3. {stack'[i].node : i \in 1 .. k} = {stack[i].node : i \in 1 .. k}
    BY <1>7
  <2>4. OnStack' = {stack[i].node : i \in 1 .. k}
    BY <1>8, <2>3
  <2>. QED
    BY <2>1, <2>2, <2>4
<1>10. Settled' = S \cup {n} /\ n \notin S
  BY <1>2, <1>3, <1>9 DEF Settled
<1>11. Providers(n) = SeenBy(stack[L])
  <2>1. 1 .. stack[L].slot - 1 = 1 .. Arity[n]
    BY <1>6
  <2>. QED
    BY <1>1, <2>1 DEF Providers, SeenBy
<1>12. /\ reachability_'[n] = value
       /\ \A x \in S : reachability_'[x] = reachability_[x]
       /\ \A x \in S : get_reachability(x)' = get_reachability(x)
       /\ get_reachability(n)' = value
       /\ Listed' = Listed
  <2>1. reachability_ \in [Nodes -> Nat]
    BY DEF TypeOK
  <2>2. reachability_'[n] = value /\ \A x \in S : reachability_'[x] = reachability_[x]
    BY <1>2, <1>3, <1>10, <2>1
  <2>3. get_reachability(n)' = value
        /\ \A x \in S : get_reachability(x)' = get_reachability(x)
    BY <1>6, <2>2 DEF get_reachability, IsRoot
  <2>. QED
    BY <1>3, <2>2, <2>3 DEF Listed
<1>13. Consistent(S \cup {n})'
  <2>1. /\ Providers(n) \subseteq S
        /\ stack[L].best = 0 \/ \E m \in Providers(n) : stack[L].best = get_reachability(m)
        /\ \A m \in Providers(n) : get_reachability(m) <= stack[L].best
    BY <1>2, <1>5, <1>11 DEF KnownIn, IsLargestOf
  <2>2. value - 1 = stack[L].best /\ value > 0
    BY <1>1, <1>6
  <2>. QED
    BY <1>2, <1>3, <1>12, <2>1, <2>2, ConsistentGrows
<1>14. ASSUME NEW i \in 1 .. k PROVE KnownIn(S \cup {n}, i)'
  <2>1. i \in 1 .. L /\ i \in 1 .. Len(stack)
    BY <1>5
  <2>2. KnownIn(S, i)
    BY <1>2, <2>1
  <2>3. CASE i = k
    <3>1. k \in 1 .. Len(stack) - 1 /\ k > 0
      BY <1>5, <2>3
    <3>2. n = in_edges_[stack[i].node][stack[i].slot]
      BY <1>1, <1>5, <2>3, <3>1 DEF CallsInv
    <3>3. FrameAdvanced(i, value)
      BY <1>7, <2>3, <3>1
    <3>4. value \in Nat /\ n # None
      BY <1>1, <1>3, <1>6, GraphAssumption
    <3>5. ValueOf(value, n, S \cup {n})
      BY <1>12, <3>4 DEF ValueOf
    <3>6. S \subseteq S \cup {n}
      OBVIOUS
    <3>. QED
      BY <1>2, <1>3, <1>12, <2>1, <2>2, <3>2, <3>3, <3>4, <3>5, <3>6, FrameAdvances
  <2>4. CASE i # k
    <3>1. stack'[i] = stack[i]
      BY <1>5, <1>7, <2>4
    <3>2. KnownIn(S, i)'
      BY <1>3, <1>12, <2>2, <3>1, FrameKept
    <3>. QED
      BY <3>2 DEF KnownIn
  <2>. QED
    BY <2>3, <2>4
<1>15. Listed' \subseteq (S \cup {n}) \cup OnStack' \cup {todo'[i] : i \in 1 .. Len(todo')}
  BY <1>2, <1>3, <1>9, <1>12
<1>. QED
  BY <1>7, <1>10, <1>13, <1>14, <1>15, ComputingAfter

(* The next task of the list: what it leaves is as good as before, and the *)
(* task is done or being called.                                           *)
LEMMA NextValues ==
  ASSUME TypeOK, TypeOK', MarkerInv, Acyclic, ComputingOK, ComputeNext
  PROVE  ComputingOK'
<1>1. PICK t, S : t = Head(todo) /\ S = Settled
  OBVIOUS
<1>2. /\ stack = <<>> /\ todo # <<>> /\ Len(stack) = 0
      /\ in_edges_' = in_edges_ /\ reachability_' = reachability_
      /\ tasks' = tasks /\ returned' = returned
  BY StackType DEF ComputeNext
<1>3. OnStack = {} /\ returned \subseteq traverse_marker
  BY <1>2 DEF OnStack, MarkerInv
<1>4. /\ S \in SUBSET Nodes /\ Consistent(S) /\ S = traverse_marker \cup returned
      /\ Listed \subseteq S \cup {todo[i] : i \in 1 .. Len(todo)}
  <2>1. PICK O : O = OnStack
    OBVIOUS
  <2>2. /\ S \in SUBSET Nodes /\ Consistent(S)
        /\ S = (traverse_marker \cup returned) \ O
        /\ Listed \subseteq S \cup O \cup {todo[i] : i \in 1 .. Len(todo)}
    BY <1>1, <2>1, ComputingBefore
  <2>. QED
    BY <1>3, <2>1, <2>2
<1>5. /\ {todo[i] : i \in 1 .. Len(todo)} = {t} \cup {todo'[i] : i \in 1 .. Len(todo')}
      /\ \/ t = None /\ traverse_marker' = traverse_marker /\ Len(stack') = 0
         \/ /\ t \in Nodes
            /\ traverse_marker' = traverse_marker \cup {t}
            /\ \/ t \notin traverse_marker /\ ~IsRoot(t) /\ Pushed(t)
               \/ (t \in traverse_marker \/ IsRoot(t)) /\ Len(stack') = 0
  BY <1>1, NextCases
<1>6. /\ \A x \in Nodes : reachability_'[x] = reachability_[x]
      /\ Listed' = Listed /\ None \notin Listed
  BY <1>2 DEF Listed
<1>7. Consistent(S)'
  BY <1>2, <1>4, <1>6, ConsistentKept
<1>8. Len(stack') = 0 => OnStack' = {}
  BY DEF OnStack
<1>9. CASE t = None /\ traverse_marker' = traverse_marker /\ Len(stack') = 0
  <2>1. Settled' = S
    BY <1>2, <1>4, <1>8, <1>9 DEF Settled
  <2>2. Listed' \subseteq S \cup OnStack' \cup {todo'[i] : i \in 1 .. Len(todo')}
    BY <1>4, <1>5, <1>6, <1>9
  <2>3. \A i \in 1 .. Len(stack') : KnownIn(S, i)'
    BY <1>9
  <2>. QED
    BY <1>7, <2>1, <2>2, <2>3, ComputingAfter
<1>10. CASE /\ t \in Nodes /\ traverse_marker' = traverse_marker \cup {t}
            /\ t \in traverse_marker \/ IsRoot(t)
            /\ Len(stack') = 0
  <2>1. Settled' = S \cup {t}
    BY <1>2, <1>4, <1>8, <1>10 DEF Settled
  <2>2. Consistent(S \cup {t})'
    <3>1. CASE t \in traverse_marker
      <4>1. S \cup {t} = S
        BY <1>4, <3>1
      <4>. QED
        BY <1>7, <4>1
    <3>2. CASE IsRoot(t)
      <4>1. Providers(t) = {}
        BY <1>10, <3>2, ValuesAreNumbers
      <4>. QED
        BY <1>2, <1>4, <1>6, <3>2, <4>1, ConsistentGrows
    <3>. QED
      BY <1>10, <3>1, <3>2
  <2>3. Listed' \subseteq (S \cup {t}) \cup OnStack' \cup {todo'[i] : i \in 1 .. Len(todo')}
    BY <1>4, <1>5, <1>6
  <2>4. \A i \in 1 .. Len(stack') : KnownIn(S \cup {t}, i)'
    BY <1>10
  <2>. QED
    BY <2>1, <2>2, <2>3, <2>4, ComputingAfter
<1>11. CASE /\ t \in Nodes /\ traverse_marker' = traverse_marker \cup {t}
            /\ t \notin traverse_marker /\ Pushed(t)
  <2>1. Len(stack') = 1 /\ stack'[1] = Frame(t)
    BY <1>2, <1>11 DEF Pushed
  <2>2. stack'[1].node = t /\ stack'[1].slot = 1 /\ stack'[1].best = 0
    BY <1>11, <2>1, FrameFields
  <2>3. OnStack' = {t}
    <3>1. 1 .. 1 = {1}
      OBVIOUS
    <3>. QED
      BY <2>1, <2>2, <3>1 DEF OnStack
  <2>4. Settled' = S
    BY <1>2, <1>3, <1>4, <1>11, <2>3 DEF Settled
  <2>5. ASSUME NEW i \in 1 .. 1 PROVE KnownIn(S, i)'
    <3>1. SeenBy(stack[i])' = {} /\ stack'[i].best = 0
      BY <2>2 DEF SeenBy
    <3>. QED
      BY <3>1 DEF KnownIn, IsLargestOf
  <2>6. Listed' \subseteq S \cup OnStack' \cup {todo'[i] : i \in 1 .. Len(todo')}
    BY <1>4, <1>5, <1>6, <2>3
  <2>. QED
    BY <1>7, <2>1, <2>4, <2>5, <2>6, ComputingAfter
<1>. QED
  BY <1>5, <1>9, <1>10, <1>11

(* Where a computation begins nothing is settled yet.                      *)
LEMMA BeginValues ==
  ASSUME TypeOK, QuietInv,
         phase # "computing", phase' = "computing",
         traverse_marker' = traverse_marker, returned' = returned,
         \/ Len(stack') = 0
         \/ Len(stack') = 1 /\ \E n \in Nodes : stack'[1] = Frame(n),
         Listed' \subseteq OnStack' \cup {todo'[i] : i \in 1 .. Len(todo')}
  PROVE  ComputingOK'
<1>1. Settled' = {}
  BY DEF Settled, QuietInv
<1>2. Consistent({})'
  BY DEF Consistent
<1>3. ASSUME NEW i \in 1 .. Len(stack') PROVE KnownIn({}, i)'
  <2>0. Len(stack') = 0 \/ Len(stack') = 1
    OBVIOUS
  <2>1. Len(stack') = 1 /\ i = 1
    <3>1. PICK k : k = Len(stack')
      OBVIOUS
    <3>2. k = 0 \/ k = 1
      BY <2>0, <3>1
    <3>3. i \in 1 .. k
      BY <1>3, <3>1
    <3>4. k = 1 /\ i = 1
      BY <3>2, <3>3
    <3>. QED
      BY <3>1, <3>4
  <2>2. PICK n \in Nodes : stack'[1] = Frame(n)
    BY <2>1
  <2>3. stack'[i].slot = 1 /\ stack'[i].best = 0
    BY <2>1, <2>2, FrameFields
  <2>4. SeenBy(stack[i])' = {}
    BY <2>3 DEF SeenBy
  <2>. QED
    BY <2>3, <2>4 DEF KnownIn, IsLargestOf
<1>4. Listed' \subseteq {} \cup OnStack' \cup {todo'[i] : i \in 1 .. Len(todo')}
  OBVIOUS
<1>. QED
  BY <1>1, <1>2, <1>3, <1>4, ComputingAfter

(* Every step keeps the values right.                                      *)
LEMMA ValuesStep ==
  /\ TypeOK /\ TypeOK' /\ QuietInv /\ MarkerInv /\ CallsInv /\ ValuesInv
  /\ [Next]_vars
  => ValuesInv'
<1> SUFFICES ASSUME TypeOK, TypeOK', QuietInv, MarkerInv, CallsInv, ValuesInv,
                    [Next]_vars
             PROVE  ValuesInv'
  OBVIOUS
<1>1. ASSUME NEW n \in Nodes, NEW m \in Nodes, NEW i \in 1 .. Arity[n], Connect(n, i, m)
      PROVE  ValuesInv'
  BY <1>1 DEF Connect, ValuesInv
<1>2. ASSUME NEW list \in TaskLists, ComputeBegin(list) PROVE ValuesInv'
  <2>1. /\ phase # "computing" /\ phase' = "computing"
        /\ traverse_marker' = traverse_marker /\ returned' = returned
        /\ Len(stack') = 0 /\ tasks' = list /\ todo' = list
    BY <1>2 DEF ComputeBegin, QuietInv
  <2>2. DOMAIN list = 1 .. Len(list)
    BY GraphAssumption
  <2>3. Listed' \subseteq OnStack' \cup {todo'[i] : i \in 1 .. Len(todo')}
    BY <2>1, <2>2 DEF Listed
  <2>4. ComputingOK'
    BY <2>1, <2>3, BeginValues
  <2>. QED
    BY <2>1, <2>4 DEF ValuesInv
<1>3. ASSUME NEW n \in Nodes, SingleBegin(n) PROVE ValuesInv'
  <2>1. /\ phase # "computing" /\ phase' = "computing"
        /\ traverse_marker' = traverse_marker /\ returned' = returned
        /\ Len(stack') = 1 /\ stack'[1] = Frame(n) /\ tasks' = <<n>>
    BY <1>3 DEF SingleBegin
  <2>2. Listed' \subseteq {n}
    BY <2>1 DEF Listed
  <2>3. n \in OnStack'
    <3>1. 1 \in 1 .. Len(stack') /\ stack'[1].node = n
      BY <2>1, FrameFields
    <3>. QED
      BY <3>1 DEF OnStack
  <2>4. Listed' \subseteq OnStack' \cup {todo'[i] : i \in 1 .. Len(todo')}
    BY <2>2, <2>3
  <2>5. ComputingOK'
    BY <2>1, <2>4, BeginValues
  <2>. QED
    BY <2>1, <2>5 DEF ValuesInv
<1>4. CASE ComputeNext \/ Visit \/ Leave
  <2>1. phase = "computing" /\ phase' = phase /\ in_edges_' = in_edges_
    BY <1>4 DEF ComputeNext, Visit, Leave, QuietInv
  <2>2. CASE Acyclic
    <3>1. ComputingOK
      BY <2>1, <2>2 DEF ValuesInv
    <3>2. ComputingOK'
      BY <1>4, <2>2, <3>1, NextValues, VisitValues, LeaveValues
    <3>. QED
      BY <2>1, <3>2 DEF ValuesInv
  <2>3. CASE ~Acyclic
    BY <2>1, <2>3, GraphKept DEF ValuesInv
  <2>. QED
    BY <2>2, <2>3
<1>5. CASE ComputeEnd
  <2>1. /\ phase = "computing" /\ phase' = "computed" /\ Len(stack) = 0 /\ Len(todo) = 0
        /\ in_edges_' = in_edges_ /\ reachability_' = reachability_ /\ tasks' = tasks
    BY <1>5 DEF ComputeEnd
  <2>2. CASE Acyclic
    <3>1. ComputingOK
      BY <2>1, <2>2 DEF ValuesInv
    <3>2. PICK S : S = Settled
      OBVIOUS
    <3>3. OnStack = {}
      BY <2>1 DEF OnStack
    <3>4. S \in SUBSET Nodes /\ Consistent(S) /\ Listed \subseteq S
      BY <2>1, <3>1, <3>2, <3>3, ComputingBefore
    <3>5. Consistent(S)'
      BY <2>1, <3>4, ConsistentKept
    <3>6. Listed' \subseteq S
      BY <2>1, <3>4 DEF Listed
    <3>7. ComputedOK'
      BY <3>4, <3>5, <3>6 DEF ComputedOK, Consistent
    <3>. QED
      BY <2>1, <3>7 DEF ValuesInv
  <2>3. CASE ~Acyclic
    BY <2>1, <2>3, GraphKept DEF ValuesInv
  <2>. QED
    BY <2>2, <2>3
<1>6. CASE Sort
  <2>1. /\ phase = "computed" /\ phase' = "sorted"
        /\ in_edges_' = in_edges_ /\ reachability_' = reachability_
    BY <1>6 DEF Sort
  <2>2. Listed' \subseteq Listed
    BY <1>6, SortEffect DEF Listed
  <2>3. CASE Acyclic
    <3>1. ComputedOK
      BY <2>1, <2>3 DEF ValuesInv
    <3>2. PICK S \in SUBSET Nodes : Listed \subseteq S /\ Consistent(S)
      BY <3>1 DEF ComputedOK
    <3>3. Consistent(S)'
      BY <2>1, <3>2, ConsistentKept
    <3>4. ComputedOK'
      BY <2>2, <3>2, <3>3 DEF ComputedOK, Consistent
    <3>. QED
      BY <2>1, <3>4 DEF ValuesInv
  <2>4. CASE ~Acyclic
    BY <2>1, <2>4, GraphKept DEF ValuesInv
  <2>. QED
    BY <2>3, <2>4
<1>7. CASE UNCHANGED vars
  <2>1. UNCHANGED <<in_edges_, reachability_, traverse_marker, stack, todo, tasks, phase,
                    returned>>
    BY <1>7 DEF vars
  <2>2. PICK S, O : S = Settled /\ O = OnStack
    OBVIOUS
  <2>3. Settled' = S /\ OnStack' = O /\ Listed' = Listed
    BY <2>1, <2>2 DEF Settled, OnStack, Listed
  <2>4. \A x : get_reachability(x)' = get_reachability(x)
    BY <2>1 DEF get_reachability, IsRoot
  <2>5. ASSUME ComputingOK PROVE ComputingOK'
    <3>1. /\ Consistent(S) /\ \A i \in 1 .. Len(stack) : KnownIn(S, i)
          /\ Listed \subseteq S \cup O \cup {todo[i] : i \in 1 .. Len(todo)}
      BY <2>2, <2>5, ComputingBefore
    <3>2. Consistent(S)'
      BY <2>1, <3>1, ConsistentKept
    <3>3. ASSUME NEW i \in 1 .. Len(stack') PROVE KnownIn(S, i)'
      <4>1. stack'[i] = stack[i] /\ KnownIn(S, i)
        BY <2>1, <3>1
      <4>. QED
        BY <2>1, <2>4, <4>1, FrameKept
    <3>4. Listed' \subseteq S \cup OnStack' \cup {todo'[i] : i \in 1 .. Len(todo')}
      BY <2>1, <2>3, <3>1
    <3>. QED
      BY <2>3, <3>2, <3>3, <3>4, ComputingAfter
  <2>6. ASSUME ComputedOK PROVE ComputedOK'
    <3>1. PICK R \in SUBSET Nodes : Listed \subseteq R /\ Consistent(R)
      BY <2>6 DEF ComputedOK
    <3>2. Consistent(R)'
      BY <2>1, <3>1, ConsistentKept
    <3>. QED
      BY <2>3, <3>1, <3>2 DEF ComputedOK, Consistent
  <2>7. phase' = phase /\ (Acyclic' <=> Acyclic)
    BY <2>1, GraphKept
  <2>. QED
    BY <2>5, <2>6, <2>7 DEF ValuesInv
<1>. QED
  BY <1>1, <1>2, <1>3, <1>4, <1>5, <1>6, <1>7 DEF Next, ComputeStep

------------------------------------------------------------------------------
(* The theorems. *)

(* The inductive invariant holds in every reachable state, for any graph.  *)
THEOREM ReachabilityInvariant == Spec => []ReachabilityInv
<1>1. Init => ReachabilityInv
  BY InitReachabilityInv
<1>2. ReachabilityInv /\ [Next]_vars => ReachabilityInv'
  BY TypeOKStep, QuietStep, MarkerStep, CallsStep, ValuesStep, SortedStep
  DEF ReachabilityInv
<1>. QED
  BY <1>1, <1>2, PTL DEF Spec

(* set_reachability's recursion is at most one call per node deep, plus    *)
(* the one on the node it was asked about, on graphs with cycles too.      *)
THEOREM RecursionBounded == Spec => []RecursionIsBounded
<1>1. ReachabilityInv => RecursionIsBounded
  <2> SUFFICES ASSUME TypeOK, MarkerInv PROVE RecursionIsBounded
    BY DEF ReachabilityInv
  <2> DEFINE L == Len(stack)
             f == [i \in 1 .. L - 1 |-> stack[i + 1].node]
  <2>1. L \in Nat /\ Cardinality(Nodes) \in Nat
    BY StackType, FS_CardinalityType, GraphAssumption
  <2>2. \A i, k \in 2 .. L : i # k => stack[i].node # stack[k].node
    BY DEF MarkerInv
  <2>3. L <= Cardinality(Nodes) + 1
    <3>1. CASE L = 0
      BY <2>1, <3>1
    <3>2. CASE L # 0
      <4>1. L - 1 \in Nat /\ \A i \in 1 .. L - 1 : i + 1 \in 2 .. L /\ i + 1 \in 1 .. L
        BY <2>1, <3>2
      <4>2. f \in [1 .. L - 1 -> Nodes]
        BY <4>1, StackType
      <4>3. \A i, k \in 1 .. L - 1 : i # k => f[i] # f[k]
        <5> SUFFICES ASSUME NEW i \in 1 .. L - 1, NEW k \in 1 .. L - 1, i # k
                     PROVE  f[i] # f[k]
          OBVIOUS
        <5>1. i + 1 \in 2 .. L /\ k + 1 \in 2 .. L /\ i + 1 # k + 1
          BY <4>1
        <5>. QED
          BY <2>2, <5>1
      <4>. HIDE DEF f
      <4>4. f \in Injection(1 .. L - 1, Nodes)
        BY <4>2, <4>3 DEF Injection, IsInjective
      <4>5. Cardinality(1 .. L - 1) <= Cardinality(Nodes)
        BY <4>4, FS_Injection, GraphAssumption
      <4>6. Cardinality(1 .. L - 1) = L - 1
        <5>1. PICK k \in Nat : k = L - 1
          BY <4>1
        <5>2. Cardinality(1 .. k) = k
          BY FS_Interval
        <5>. QED
          BY <5>1, <5>2
      <4>. QED
        BY <2>1, <4>5, <4>6
    <3>. QED
      BY <3>1, <3>2
  <2>. QED
    BY <2>2, <2>3 DEF RecursionIsBounded
<1>. QED
  BY <1>1, ReachabilityInvariant, PTL

(* Shared dependencies are evaluated once in a computation.                *)
THEOREM NodesAreEvaluatedOnce == Spec => EvaluatedOnce
<1>1. ReachabilityInv /\ [Next]_vars =>
        [\A n \in returned : reachability_'[n] # reachability_[n] => stack[1].node = n]_vars
  <2> SUFFICES ASSUME TypeOK, MarkerInv, Next,
                      NEW n \in returned, reachability_'[n] # reachability_[n]
               PROVE  stack[1].node = n
    BY DEF ReachabilityInv
  <2>1. CASE Leave
    <3>1. PICK L, m : L = Len(stack) /\ m = stack[L].node
      OBVIOUS
    <3>2. /\ L \in Nat \ {0} /\ m \in Nodes
          /\ reachability_' = [reachability_ EXCEPT ![m] = stack[L].best + 1]
      BY <2>1, <3>1, LeaveEffect
    <3>3. m = n
      BY <3>2 DEF TypeOK
    <3>4. L \notin 2 .. Len(stack)
      BY <3>1, <3>3 DEF MarkerInv
    <3>5. L = 1
      BY <3>1, <3>2, <3>4
    <3>. QED
      BY <3>1, <3>3, <3>5
  <2>2. CASE ~Leave
    BY <2>2 DEF Next, ComputeStep, Connect, ComputeBegin, SingleBegin, ComputeNext, Visit,
                ComputeEnd, Sort
  <2>. QED
    BY <2>1, <2>2
<1>. QED
  BY <1>1, ReachabilityInvariant, PTL DEF Spec, EvaluatedOnce

(* On every graph without cycles, compute_reachability and                 *)
(* set_reachability leave on each node they cover the length of its        *)
(* longest chain of dependencies.                                          *)
THEOREM ReachabilityIsTheDepth == Spec => []ReachabilityIsDepth
<1>1. ReachabilityInv => ReachabilityIsDepth
  <2> SUFFICES ASSUME TypeOK, ValuesInv, phase = "computed", Acyclic, NEW n \in Covered
               PROVE  IsDepth(n, get_reachability(n))
    BY DEF ReachabilityInv, ReachabilityIsDepth
  <2>1. PICK S \in SUBSET Nodes : Listed \subseteq S /\ Consistent(S)
    BY DEF ValuesInv, ComputedOK
  <2>2. n \in S
    BY <2>1, DependenciesAreLower DEF Covered
  <2>. QED
    BY <2>1, <2>2, ConsistentValuesAreDepths
<1>. QED
  BY <1>1, ReachabilityInvariant, PTL

(* On every graph without cycles, the order an executor submits tasks in   *)
(* has no task in front of one it depends on, directly or through others.  *)
THEOREM SortIsTopological == Spec => []SortedIsTopological
<1>1. ReachabilityInv => SortedIsTopological
  <2> SUFFICES ASSUME TypeOK, ValuesInv, SortedInv, phase = "sorted", Acyclic,
                      NEW i \in DOMAIN tasks, NEW k \in DOMAIN tasks, i < k,
                      tasks[k] \in Dependencies(tasks[i])
               PROVE  FALSE
    BY DEF ReachabilityInv, SortedIsTopological
  <2>1. PICK S \in SUBSET Nodes : Listed \subseteq S /\ Consistent(S)
    BY DEF ValuesInv, ComputedOK
  <2>2. tasks[i] \in S
    BY <2>1 DEF SortedInv, Listed
  <2>3. tasks[k] \in S /\ get_reachability(tasks[k]) < get_reachability(tasks[i])
    BY <2>1, <2>2, DependenciesAreLower
  <2>4. get_reachability(tasks[i]) <= get_reachability(tasks[k])
    BY DEF SortedInv, NotAfter
  <2>5. get_reachability(tasks[i]) \in Nat /\ get_reachability(tasks[k]) \in Nat
    BY <2>2, <2>3, ValuesAreNumbers
  <2>. QED
    BY <2>3, <2>4, <2>5
<1>. QED
  BY <1>1, ReachabilityInvariant, PTL
=============================================================================
