-------------------------- MODULE SignaturesProofs --------------------------
(***************************************************************************)
(* For every task type, whatever its length, and every callable: the       *)
(* invariants of Signatures hold.  They are inductive together: which slot *)
(* an argument comes from rests on the folds, what a callable is invoked   *)
(* with rests on that and on the check it passed.                          *)
(***************************************************************************)
EXTENDS Signatures, SequenceTheorems, TLAPS

SigInv ==
  /\ TypeOK
  /\ FilterInv
  /\ CallableInv
  /\ ArgumentsHaveTheirTypes
  /\ LookupByTypeIsUnambiguous

(* The invariant holds when compilation starts. *)
LEMMA InitSig == Init => SigInv
<1> SUFFICES ASSUME Init PROVE SigInv
  OBVIOUS
<1>1. InputTs \in Seq(Types \cup {Void}) /\ ReturnT \in Types \cup {void}
  BY SignatureAssumption DEF Init
<1>2. Len(InputTs) \in Nat
  BY <1>1
<1>3. TypeOK
  BY <1>1 DEF Init, TypeOK
<1>4. FilterInv
  BY <1>2 DEF Init, FilterInv, filtered
<1>5. CallableInv /\ ArgumentsHaveTheirTypes /\ LookupByTypeIsUnambiguous
  BY DEF Init, CallableInv, ArgumentsHaveTheirTypes, LookupByTypeIsUnambiguous
<1> QED BY <1>3, <1>4, <1>5 DEF SigInv

(* A step of the folds preserves the agreement of the two folds. *)
LEMMA FilterKeepsFilterInv ==
  ASSUME TypeOK, FilterInv, Filter
  PROVE  FilterInv' /\ call_types' \in Seq(Types) /\ buffer' \in [Slots -> Nat]
<1> DEFINE T == InputT(idx)
<1>1. /\ idx \in Nat /\ idx < Len(InputTs) /\ Len(InputTs) \in Nat
      /\ count \in Nat /\ count <= idx /\ idx' = idx + 1 /\ InputTs' = InputTs
  BY DEF TypeOK, FilterInv, Filter, type
<1>2. T \in Types \cup {Void} /\ idx \in Slots
  BY <1>1 DEF TypeOK, InputT, Slots
<1>3. CASE IsVoid(T)
  <2>1. call_types' = call_types
    BY <1>3, ConcatEmptySeq DEF Filter, filter_void, TypeOK
  <2>2. buffer' = buffer /\ count' = count
    BY <1>3 DEF Filter
  <2>3. filtered' = filtered
    BY <2>2 DEF filtered
  <2>4. \A i : IsVoid(i)' = IsVoid(i) /\ InputT(i)' = InputT(i)
    BY <1>1 DEF IsVoid, restore_to_actual_void, InputT
  <2>5. \A i \in 0 .. idx' - 1 :
          ~IsVoid(InputT(i)) => \E k \in 1 .. count : filtered[k] = i
    <3> SUFFICES ASSUME NEW i \in 0 .. idx' - 1, ~IsVoid(InputT(i))
                 PROVE  \E k \in 1 .. count : filtered[k] = i
      OBVIOUS
    <3>1. i \in 0 .. idx - 1
      BY <1>1, <1>3
    <3> QED BY <3>1 DEF FilterInv
  <2>6. \A k \in 1 .. count :
          /\ filtered[k] \in 0 .. idx' - 1
          /\ ~IsVoid(InputT(filtered[k]))
          /\ call_types[k] = InputT(filtered[k])
    BY <1>1 DEF FilterInv
  <2>7. idx' \in 0 .. Len(InputTs') /\ count' \in 0 .. idx' /\ count' = Len(call_types')
    BY <1>1, <2>1, <2>2 DEF FilterInv
  <2>8. \A k, l \in 1 .. count : k < l => filtered[k] < filtered[l]
    BY DEF FilterInv
  <2>9. FilterInv'
    BY <2>1, <2>2, <2>3, <2>4, <2>5, <2>6, <2>7, <2>8 DEF FilterInv
  <2> QED BY <2>1, <2>2, <2>9 DEF TypeOK
<1>4. CASE ~IsVoid(T)
  <2>1. T \in Types
    BY <1>2, <1>4 DEF IsVoid, restore_to_actual_void
  <2>2. call_types' = Append(call_types, T)
    BY <1>4, <2>1, AppendIsConcat DEF Filter, filter_void, TypeOK
  <2>3. buffer' = [buffer EXCEPT ![count] = idx] /\ count' = count + 1
    BY <1>4 DEF Filter
  <2>4. buffer' \in [Slots -> Nat] /\ count \in Slots
    BY <1>1, <2>3 DEF TypeOK, Slots
  <2>5. /\ call_types' \in Seq(Types) /\ Len(call_types') = count'
        /\ \A k \in 1 .. count : call_types'[k] = call_types[k]
        /\ call_types'[count'] = T
    BY <1>1, <2>1, <2>2, <2>3, AppendProperties DEF TypeOK, FilterInv
  <2>6. \A k \in 1 .. count : filtered'[k] = filtered[k]
    BY <1>1, <2>3 DEF filtered, TypeOK, Slots
  <2>7. filtered'[count'] = idx
    BY <1>1, <2>3, <2>4 DEF filtered, TypeOK, Slots
  <2>8. \A k \in 1 .. count' : k \in 1 .. count \/ k = count'
    BY <1>1, <2>3
  <2>9. \A k \in 1 .. count :
          /\ filtered[k] \in 0 .. idx - 1
          /\ ~IsVoid(InputT(filtered[k]))
          /\ call_types[k] = InputT(filtered[k])
    BY DEF FilterInv
  <2>10. \A i : IsVoid(i)' = IsVoid(i) /\ InputT(i)' = InputT(i)
    BY <1>1 DEF IsVoid, restore_to_actual_void, InputT
  <2>11. \A k \in 1 .. count' :
           /\ filtered'[k] \in 0 .. idx' - 1
           /\ ~IsVoid(InputT(filtered'[k]))
           /\ call_types'[k] = InputT(filtered'[k])
    <3> SUFFICES ASSUME NEW k \in 1 .. count'
                 PROVE  /\ filtered'[k] \in 0 .. idx' - 1
                        /\ ~IsVoid(InputT(filtered'[k]))
                        /\ call_types'[k] = InputT(filtered'[k])
      OBVIOUS
    <3>1. CASE k \in 1 .. count
      BY <1>1, <2>5, <2>6, <2>9, <3>1
    <3>2. CASE k = count'
      BY <1>1, <1>4, <2>5, <2>7, <3>2
    <3> QED BY <2>8, <3>1, <3>2
  <2>12. \A k, l \in 1 .. count' : k < l => filtered'[k] < filtered'[l]
    <3> SUFFICES ASSUME NEW k \in 1 .. count', NEW l \in 1 .. count', k < l
                 PROVE  filtered'[k] < filtered'[l]
      OBVIOUS
    <3>1. k \in 1 .. count
      BY <1>1, <2>3
    <3>2. CASE l \in 1 .. count
      BY <2>6, <3>1, <3>2 DEF FilterInv
    <3>3. CASE l = count'
      BY <1>1, <2>6, <2>7, <2>9, <3>1, <3>3
    <3> QED BY <2>8, <3>2, <3>3
  <2>13. \A i \in 0 .. idx' - 1 :
           ~IsVoid(InputT(i)) => \E k \in 1 .. count' : filtered'[k] = i
    <3> SUFFICES ASSUME NEW i \in 0 .. idx' - 1, ~IsVoid(InputT(i))
                 PROVE  \E k \in 1 .. count' : filtered'[k] = i
      OBVIOUS
    <3>1. CASE i = idx
      BY <1>1, <2>3, <2>7, <3>1
    <3>2. CASE i \in 0 .. idx - 1
      <4>1. PICK k \in 1 .. count : filtered[k] = i
        BY <3>2 DEF FilterInv
      <4> QED BY <1>1, <2>3, <2>6, <4>1
    <3> QED BY <1>1, <3>1, <3>2
  <2>14. idx' \in 0 .. Len(InputTs') /\ count' \in 0 .. idx'
    BY <1>1, <2>3
  <2> QED BY <2>4, <2>5, <2>10, <2>11, <2>12, <2>13, <2>14 DEF FilterInv
<1> QED BY <1>3, <1>4

(* Where the folds are over, what the run fetches fits the parameters. *)
LEMMA RunIsFaithful ==
  ASSUME TypeOK, FilterInv, CallableInv, run_impl
  PROVE  ArgumentsHaveTheirTypes'
<1>1. callable_ # None /\ callable_ \in Callables
  BY DEF run_impl, TypeOK
<1>2. /\ count \in Nat /\ count = Len(call_types) /\ call_types \in Seq(Types)
      /\ callable_.required <= count /\ count <= Len(callable_.args)
      /\ \A k \in 1 .. count : callable_.args[k] = call_types[k]
      /\ idx = Len(InputTs) /\ Len(InputTs) \in Nat
  BY <1>1 DEF CallableInv, FilterInv, TypeOK, Compiled
<1>3. DOMAIN filtered = 1 .. count
  BY DEF filtered
<1> DEFINE args == [k \in 1 .. count |-> [type |-> InputT(filtered[k]),
                                          edge |-> in_edges_[filtered[k]]]]
<1>4. passed' = [fn |-> callable_, args |-> args]
  BY <1>3 DEF run_impl
<1>5. Len(args) = count /\ DOMAIN args = 1 .. count
  BY <1>2
<1>6. ASSUME NEW k \in 1 .. count
      PROVE  /\ args[k].type = callable_.args[k]
             /\ args[k].edge # None => EdgeType[args[k].edge] = callable_.args[k]
  <2>1. /\ filtered[k] \in 0 .. idx - 1
        /\ ~IsVoid(InputT(filtered[k]))
        /\ call_types[k] = InputT(filtered[k])
    BY DEF FilterInv
  <2>2. SlotType(filtered[k]) = call_types[k] /\ filtered[k] \in Slots
    BY <1>2, <2>1 DEF SlotType, IsVoid, restore_to_actual_void, Slots
  <2>3. in_edges_[filtered[k]] # None =>
          EdgeType[in_edges_[filtered[k]]] = call_types[k]
    BY <2>2 DEF TypeOK
  <2> QED BY <1>2, <2>1, <2>3
<1>7. Faithful([fn |-> callable_, args |-> args])
  BY <1>2, <1>5, <1>6 DEF Faithful
<1> QED BY <1>4, <1>7 DEF ArgumentsHaveTheirTypes, Faithful

(* A type that occurs once has one slot, and only that one changes. *)
LEMMA AddKeepsLookup ==
  ASSUME TypeOK, LookupByTypeIsUnambiguous, NEW e \in Edges,
         AddByType(e) \/ \E i \in Slots : AddByIndex(i, e)
  PROVE  /\ LookupByTypeIsUnambiguous'
         /\ in_edges_' \in [Slots -> Edges \cup {None}]
         /\ by_type' \in [Types \cup {void} -> Edges \cup {None}]
         /\ \A i \in Slots : in_edges_'[i] # None => EdgeType[in_edges_'[i]] = SlotType(i)
<1> DEFINE T == EdgeType[e]
<1>1. PICK i \in Slots : SlotType(i) = T /\ in_edges_' = [in_edges_ EXCEPT ![i] = e]
  BY DEF AddByType, AddByIndex, SlotsOf
<1>2. T \in Types \cup {void} /\ e # None
  BY SignatureAssumption
<1>3. in_edges_' \in [Slots -> Edges \cup {None}]
  BY <1>1 DEF TypeOK
<1>4. \A k \in Slots : in_edges_'[k] # None => EdgeType[in_edges_'[k]] = SlotType(k)
  BY <1>1 DEF TypeOK
<1>5. by_type' \in [Types \cup {void} -> Edges \cup {None}]
  BY DEF TypeOK, AddByType, AddByIndex
<1>6. InputTs' = InputTs
  BY DEF AddByType, AddByIndex, type
<1>7. ASSUME NEW U \in Types \cup {void}, by_type'[U] # None
      PROVE  EdgesByType(U)' = {by_type'[U]}
  <2>1. EdgesByType(U)' = {in_edges_'[k] : k \in SlotsOf(U)}
    BY <1>6 DEF EdgesByType, SlotsOf, Slots, SlotType, InputT, restore_to_actual_void
  <2>2. CASE U = T
    <3>1. contained_no_duplicate_types /\ by_type'[U] = e
      BY <1>2, <1>7, <2>2 DEF AddByType, AddByIndex, TypeOK
    <3>2. SlotsOf(U) = {i}
      <4>1. \A k \in Slots : SlotType(k) = T => k = i
        BY <1>1, <3>1 DEF contained_no_duplicate_types, Slots
      <4> QED BY <1>1, <2>2, <4>1 DEF SlotsOf
    <3>3. in_edges_'[i] = e
      BY <1>1 DEF TypeOK
    <3> QED BY <2>1, <3>1, <3>2, <3>3
  <2>3. CASE U # T
    <3>1. by_type'[U] = by_type[U]
      BY <1>2, <2>3 DEF AddByType, AddByIndex, TypeOK
    <3>2. \A k \in SlotsOf(U) : in_edges_'[k] = in_edges_[k]
      BY <1>1, <2>3 DEF TypeOK, SlotsOf
    <3>3. EdgesByType(U) = {by_type[U]}
      BY <1>7, <3>1 DEF LookupByTypeIsUnambiguous
    <3> QED BY <2>1, <3>1, <3>2, <3>3 DEF EdgesByType
  <2> QED BY <2>2, <2>3
<1> QED BY <1>3, <1>4, <1>5, <1>7 DEF LookupByTypeIsUnambiguous

(* Every step preserves the invariant. *)
LEMMA NextSig == SigInv /\ [Next]_vars => SigInv'
<1> SUFFICES ASSUME SigInv, [Next]_vars PROVE SigInv'
  OBVIOUS
<1>0. /\ TypeOK /\ FilterInv /\ CallableInv /\ ArgumentsHaveTheirTypes
      /\ LookupByTypeIsUnambiguous
  BY DEF SigInv
<1>1. CASE Filter
  <2>1. FilterInv' /\ call_types' \in Seq(Types) /\ buffer' \in [Slots -> Nat]
    BY <1>0, <1>1, FilterKeepsFilterInv
  <2>2. UNCHANGED <<type, in_edges_, callable_, passed, by_type>>
    BY <1>1 DEF Filter
  <2>3. /\ InputTs' = InputTs /\ ReturnT' = ReturnT /\ Slots' = Slots
        /\ \A i : SlotType(i)' = SlotType(i)
    BY <2>2 DEF type, Slots, SlotType, InputT, restore_to_actual_void
  <2>4. TypeOK'
    BY <1>0, <2>1, <2>2, <2>3 DEF TypeOK
  <2>5. CallableInv'
    <3>1. ~Compiled
      BY <1>0, <1>1 DEF Filter, Compiled, TypeOK, FilterInv
    <3> QED BY <1>0, <2>2, <3>1 DEF CallableInv
  <2>6. ArgumentsHaveTheirTypes'
    BY <1>0, <2>2 DEF ArgumentsHaveTheirTypes, Faithful
  <2>7. LookupByTypeIsUnambiguous'
    BY <1>0, <2>2, <2>3 DEF LookupByTypeIsUnambiguous, EdgesByType, SlotsOf
  <2> QED BY <2>1, <2>4, <2>5, <2>6, <2>7 DEF SigInv
<1>2. ASSUME NEW e \in Edges, AddByType(e) \/ \E i \in Slots : AddByIndex(i, e)
      PROVE  SigInv'
  <2>1. /\ LookupByTypeIsUnambiguous'
        /\ in_edges_' \in [Slots -> Edges \cup {None}]
        /\ by_type' \in [Types \cup {void} -> Edges \cup {None}]
        /\ \A i \in Slots : in_edges_'[i] # None => EdgeType[in_edges_'[i]] = SlotType(i)
    BY <1>0, <1>2, AddKeepsLookup
  <2>2. UNCHANGED <<type, folds, callable_, passed>>
    BY <1>2 DEF AddByType, AddByIndex
  <2>3. /\ InputTs' = InputTs /\ ReturnT' = ReturnT /\ Slots' = Slots
        /\ \A i : SlotType(i)' = SlotType(i) /\ InputT(i)' = InputT(i)
    BY <2>2 DEF type, Slots, SlotType, InputT, restore_to_actual_void
  <2>4. TypeOK'
    BY <1>0, <2>1, <2>2, <2>3 DEF TypeOK, folds
  <2>5. FilterInv'
    BY <1>0, <2>2, <2>3 DEF FilterInv, folds, filtered, IsVoid, restore_to_actual_void
  <2>6. CallableInv' /\ ArgumentsHaveTheirTypes'
    BY <1>0, <2>2, <2>3
       DEF CallableInv, Compiled, ArgumentsHaveTheirTypes, Faithful, folds
  <2> QED BY <2>1, <2>4, <2>5, <2>6 DEF SigInv
<1>3. ASSUME NEW fn \in Callables, set_callable(fn) PROVE SigInv'
  <2>1. /\ Compiled /\ has_required_prototype2(fn) = "true" /\ Accepts(fn)
        /\ callable_' = (IF fn.null THEN None ELSE fn)
        /\ UNCHANGED <<type, folds, in_edges_, passed, by_type>>
    BY <1>3 DEF set_callable
  <2>2. CallableInv'
    <3>1. fn.ret = ReturnT /\ \A k \in DOMAIN call_types : fn.args[k] = call_types[k]
      BY <2>1 DEF has_required_prototype2
    <3>2. callable_' = None \/ callable_' = fn
      BY <2>1
    <3> QED BY <2>1, <3>1, <3>2 DEF CallableInv, Accepts, Compiled, type, folds
  <2>3. TypeOK'
    BY <1>0, <2>1 DEF TypeOK, type, folds, Slots, SlotType, InputT, restore_to_actual_void
  <2>4. FilterInv'
    BY <1>0, <2>1 DEF FilterInv, type, folds, filtered, InputT, IsVoid,
                      restore_to_actual_void
  <2>5. ArgumentsHaveTheirTypes' /\ LookupByTypeIsUnambiguous'
    BY <1>0, <2>1 DEF ArgumentsHaveTheirTypes, Faithful, type,
                      LookupByTypeIsUnambiguous, EdgesByType, SlotsOf, Slots,
                      SlotType, InputT, restore_to_actual_void
  <2> QED BY <2>2, <2>3, <2>4, <2>5 DEF SigInv
<1>4. CASE run_impl
  <2>1. ArgumentsHaveTheirTypes'
    BY <1>0, <1>4, RunIsFaithful
  <2>2. UNCHANGED <<type, folds, in_edges_, callable_, by_type>>
    BY <1>4 DEF run_impl
  <2>3. TypeOK' /\ CallableInv'
    BY <1>0, <2>2 DEF TypeOK, CallableInv, Compiled, type, folds, Slots,
                      SlotType, InputT, restore_to_actual_void
  <2>4. FilterInv'
    BY <1>0, <2>2 DEF FilterInv, type, folds, filtered, InputT, IsVoid,
                      restore_to_actual_void
  <2>5. LookupByTypeIsUnambiguous'
    BY <1>0, <2>2 DEF type, LookupByTypeIsUnambiguous, EdgesByType,
                      SlotsOf, Slots, SlotType, InputT, restore_to_actual_void
  <2> QED BY <2>1, <2>3, <2>4, <2>5 DEF SigInv
<1>5. CASE UNCHANGED vars
  <2>1. TypeOK' /\ CallableInv' /\ ArgumentsHaveTheirTypes'
    BY <1>0, <1>5 DEF vars, TypeOK, CallableInv, Compiled, type, folds, Slots,
                      SlotType, InputT, restore_to_actual_void,
                      ArgumentsHaveTheirTypes, Faithful
  <2>2. FilterInv'
    BY <1>0, <1>5 DEF vars, FilterInv, type, folds, filtered, InputT, IsVoid,
                      restore_to_actual_void
  <2>3. LookupByTypeIsUnambiguous'
    BY <1>0, <1>5 DEF vars, type, LookupByTypeIsUnambiguous, EdgesByType,
                      SlotsOf, Slots, SlotType, InputT, restore_to_actual_void
  <2> QED BY <2>1, <2>2, <2>3 DEF SigInv
<1> QED BY <1>1, <1>2, <1>3, <1>4, <1>5 DEF Next

(* The invariant of Signatures, for every list of types, every set of       *)
(* callables and every order of the program's calls.                        *)
THEOREM SignaturesInvariant == Spec => []SigInv
BY InitSig, NextSig, PTL DEF Spec

(* The slots arguments are fetched from and the parameters of the callable  *)
(* agree, for every list of types (remove_voids and                         *)
(* integer_sequence_void_filter).                                           *)
THEOREM FiltersAgree == Spec => []FilterInv
<1>1. SigInv => FilterInv
  BY DEF SigInv
<1> QED BY <1>1, SignaturesInvariant, PTL

(* A callable is only ever invoked with values of its parameters' types, if *)
(* set_callable accepted it and every edge was added by add_inward_edge.    *)
THEOREM ArgumentsAreTyped == Spec => []ArgumentsHaveTheirTypes
<1>1. SigInv => ArgumentsHaveTheirTypes
  BY DEF SigInv
<1> QED BY <1>1, SignaturesInvariant, PTL

(* Reading an edge by its type gives the edge last added by that type.      *)
THEOREM LookupIsUnambiguous == Spec => []LookupByTypeIsUnambiguous
<1>1. SigInv => LookupByTypeIsUnambiguous
  BY DEF SigInv
<1> QED BY <1>1, SignaturesInvariant, PTL
=============================================================================
