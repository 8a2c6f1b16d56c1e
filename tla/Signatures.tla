----------------------------- MODULE Signatures -----------------------------
(***************************************************************************)
(* What the compiler works out from a task type Task<ReturnT(InputTs...)>  *)
(* (Metafunctions.h) and what the program then does with one such task:    *)
(* connect edges by type or by index, set a callable, run it.  Four        *)
(* computations over the same list of types have to agree: the types of    *)
(* the edges, the parameters of the callable, the slots the arguments are  *)
(* fetched from, and the check of a callable against those parameters.     *)
(* A call that does not compile is an action that is not enabled.          *)
(***************************************************************************)
EXTENDS Naturals, Sequences

CONSTANTS Types,      (* the value types                                    *)
          Void, void, (* potts::Void, and what the compiler replaces it by  *)
          TypeLists,  (* the InputTs the task may be declared with          *)
          ReturnTs,   (* its ReturnT                                        *)
          Edges,      (* out edges of other tasks                           *)
          EdgeType,   (* EdgeType[e]: T of an Edge<T>                       *)
          Callables,  (* what the program hands to set_callable             *)
          None        (* no edge, no callable                               *)

Kinds == {"function", "pointer", "functor", "generic", "std::function"}

(* A callable: a function or function pointer, a functor or lambda (generic *)
(* if its operator() is a template or overloaded), or a std::function; the  *)
(* value category it is passed with; whether it is null; the types of its   *)
(* parameters and how many of them have no default argument.  A pointer to  *)
(* a member is none: it has traits, but std::function needs the object as   *)
(* one argument more than they have.                                        *)
ASSUME SignatureAssumption ==
  /\ void \notin Types /\ Void \notin Types /\ Void # void
  /\ TypeLists \subseteq Seq(Types \cup {Void})
  /\ ReturnTs \subseteq Types \cup {void}
  /\ EdgeType \in [Edges -> Types \cup {void}]
  /\ None \notin Edges \cup Callables
  /\ Callables \subseteq
       [kind : Kinds, lvalue : BOOLEAN, noexcept : BOOLEAN, null : BOOLEAN,
        ret : Types \cup {void}, args : Seq(Types), required : Nat]
  /\ \A fn \in Callables : fn.null => fn.kind \in {"pointer", "std::function"}

VARIABLES
  InputTs, ReturnT, (* the task type                                        *)
  idx,         (* how many types the fold expressions have looked at        *)
  call_types,  (* remove_voids of these types                               *)
  buffer,      (* the array of integer_sequence_void_filter                 *)
  count,       (* its local variable                                        *)
  in_edges_,   (* Node::in_edges_, slot by slot                             *)
  callable_,   (* Task::callable_, None while empty                         *)
  passed,      (* history: the last invocation of a callable                *)
  by_type      (* history: the last edge added by type                      *)

type == <<InputTs, ReturnT>>
folds == <<idx, call_types, buffer, count>>
vars == <<type, folds, in_edges_, callable_, passed, by_type>>

Slots == 0 .. Len(InputTs) - 1
InputT(i) == InputTs[i + 1]

restore_to_actual_void(T) == IF T = Void THEN void ELSE T
IsVoid(T) == restore_to_actual_void(T) = void
filter_void(T) == IF IsVoid(T) THEN <<>> ELSE <<T>>

(* InwardEdgesTupleType: the type of the edge each slot holds. *)
SlotType(i) == restore_to_actual_void(InputT(i))
SlotsOf(T) == {i \in Slots : SlotType(i) = T}

Init ==
  /\ InputTs \in TypeLists
  /\ ReturnT \in ReturnTs
  /\ idx = 0
  /\ call_types = <<>>
  /\ buffer = [i \in Slots |-> 0]
  /\ count = 0
  /\ in_edges_ = [i \in Slots |-> None]
  /\ callable_ = None
  /\ passed = None
  /\ by_type = [T \in Types \cup {void} |-> None]

------------------------------------------------------------------------------
(* Compilation. *)

(* Faulty variant: stores how many types were kept, not which one this is. *)
FilterRenumbers ==
  /\ idx < Len(InputTs)
  /\ idx' = idx + 1
  /\ call_types' = call_types \o filter_void(InputT(idx))
  /\ \/ ~IsVoid(InputT(idx)) /\ buffer' = [buffer EXCEPT ![count] = count]
                             /\ count' = count + 1
     \/ IsVoid(InputT(idx)) /\ UNCHANGED <<buffer, count>>
  /\ UNCHANGED <<type, in_edges_, callable_, passed, by_type>>

(* The next type, in the folds of remove_voids and of                       *)
(* integer_sequence_void_filter.                                            *)
Filter ==
  /\ idx < Len(InputTs)
  /\ idx' = idx + 1
  /\ call_types' = call_types \o filter_void(InputT(idx))
  /\ \/ ~IsVoid(InputT(idx)) /\ buffer' = [buffer EXCEPT ![count] = idx]
                             /\ count' = count + 1
     \/ IsVoid(InputT(idx)) /\ UNCHANGED <<buffer, count>>
  /\ UNCHANGED <<type, in_edges_, callable_, passed, by_type>>

Compiled == idx = Len(InputTs)

(* The filtered index sequence: the slot each argument comes from.          *)
filtered == [k \in 1 .. count |-> buffer[k - 1]]

(* Faulty variant: only types next to each other are compared. *)
NoNeighboursAlike == \A i, j \in Slots : j = i + 1 => SlotType(i) # SlotType(j)
contained_no_duplicate_types ==
  \A i, j \in Slots : i < j => SlotType(i) # SlotType(j)

(* The specialisations of function_traits: none is for a noexcept function, *)
(* for a function pointer passed as an lvalue or for an operator() that has *)
(* no single type.                                                          *)
function_traits(fn) ==
  /\ ~fn.noexcept
  /\ fn.kind # "generic"
  /\ fn.kind = "pointer" => ~fn.lvalue

(* Faulty variant: any types will do that the compiler can convert to. *)
PrototypeConverts(fn) ==
  IF ~function_traits(fn) \/ Len(fn.args) < Len(call_types) THEN "error"
  ELSE IF fn.ret = ReturnT THEN "true" ELSE "false"

(* has_required_prototype2: "error" where no traits exist or an argument    *)
(* is looked up that fn does not have; further parameters of fn are not     *)
(* looked at.                                                               *)
has_required_prototype2(fn) ==
  IF ~function_traits(fn) \/ Len(fn.args) < Len(call_types) THEN "error"
  ELSE IF /\ fn.ret = ReturnT
          /\ \A k \in DOMAIN call_types : fn.args[k] = call_types[k]
       THEN "true" ELSE "false"

(* std::function<ReturnT(call_types...)> accepts what can be called with    *)
(* that many arguments; it would convert them.                              *)
Accepts(fn) == fn.required <= Len(call_types) /\ Len(call_types) <= Len(fn.args)

------------------------------------------------------------------------------
(* The program and its task. *)

(* add_inward_edge<InputT>(edge). *)
AddByType(e) ==
  /\ Compiled
  /\ contained_no_duplicate_types
  /\ \E i \in SlotsOf(EdgeType[e]) : in_edges_' = [in_edges_ EXCEPT ![i] = e]
  /\ by_type' = [by_type EXCEPT ![EdgeType[e]] = e]
  /\ UNCHANGED <<type, folds, callable_, passed>>

(* add_inward_edge<Idx>(edge). *)
AddByIndex(i, e) ==
  /\ Compiled
  /\ SlotType(i) = EdgeType[e]
  /\ in_edges_' = [in_edges_ EXCEPT ![i] = e]
  /\ by_type' = [by_type EXCEPT ![EdgeType[e]] = None]
  /\ UNCHANGED <<type, folds, callable_, passed>>

(* The edges get_inward_edge_value<InputT> may read: the tuple is searched  *)
(* by type.                                                                 *)
EdgesByType(T) == {in_edges_[i] : i \in SlotsOf(T)}

(* A null pointer or an empty std::function leaves callable_ empty; run()   *)
(* would then throw, which is Throw of module Task.                         *)
set_callable(fn) ==
  /\ Compiled
  /\ has_required_prototype2(fn) = "true"
  /\ Accepts(fn)
  /\ callable_' = IF fn.null THEN None ELSE fn
  /\ UNCHANGED <<type, folds, in_edges_, passed, by_type>>

(* run() and run_impl: one argument per filtered index, of the type         *)
(* get_inward_edge_value<Idx> returns and from the edge in that slot.       *)
run_impl ==
  /\ Compiled
  /\ callable_ # None
  /\ passed' = [fn |-> callable_,
                args |-> [k \in DOMAIN filtered |->
                            [type |-> InputT(filtered[k]),
                             edge |-> in_edges_[filtered[k]]]]]
  /\ UNCHANGED <<type, folds, in_edges_, callable_, by_type>>

Next ==
  \/ Filter
  \/ \E e \in Edges : AddByType(e) \/ \E i \in Slots : AddByIndex(i, e)
  \/ \E fn \in Callables : set_callable(fn)
  \/ run_impl

Spec == Init /\ [][Next]_vars

------------------------------------------------------------------------------
(* Properties. *)

Arguments == Seq([type : Types, edge : Edges \cup {None}])

(* Every variable has its type; a slot holds edges of its own type only. *)
TypeOK ==
  /\ InputTs \in Seq(Types \cup {Void})
  /\ ReturnT \in Types \cup {void}
  /\ call_types \in Seq(Types)
  /\ buffer \in [Slots -> Nat]
  /\ in_edges_ \in [Slots -> Edges \cup {None}]
  /\ \A i \in Slots : in_edges_[i] # None => EdgeType[in_edges_[i]] = SlotType(i)
  /\ callable_ \in Callables \cup {None}
  /\ by_type \in [Types \cup {void} -> Edges \cup {None}]

(* The two folds agree: argument k of the callable is of the type of the    *)
(* slot it is fetched from, the slots are in the order of InputTs, and      *)
(* they are all the slots that are not void.                                *)
FilterInv ==
  /\ idx \in 0 .. Len(InputTs)
  /\ count \in 0 .. idx
  /\ count = Len(call_types)
  /\ \A k \in 1 .. count :
       /\ filtered[k] \in 0 .. idx - 1
       /\ ~IsVoid(InputT(filtered[k]))
       /\ call_types[k] = InputT(filtered[k])
  /\ \A k, l \in 1 .. count : k < l => filtered[k] < filtered[l]
  /\ \A i \in 0 .. idx - 1 :
       ~IsVoid(InputT(i)) => \E k \in 1 .. count : filtered[k] = i

(* A stored callable has the task's parameters for its first parameters,    *)
(* and no further ones that need an argument.                               *)
CallableInv ==
  callable_ # None =>
    /\ Compiled
    /\ callable_.ret = ReturnT
    /\ callable_.required <= Len(call_types)
    /\ Len(call_types) <= Len(callable_.args)
    /\ \A k \in DOMAIN call_types : callable_.args[k] = call_types[k]

(* A callable is invoked with arguments of exactly its parameters' types,   *)
(* each from an edge of that type (or value-initialised, without an edge):  *)
(* std::function never converts one silently.                               *)
Faithful(call) ==
  /\ call.fn.required <= Len(call.args)
  /\ Len(call.args) <= Len(call.fn.args)
  /\ \A k \in DOMAIN call.args :
       LET arg == call.args[k]
       IN  /\ arg.type = call.fn.args[k]
           /\ arg.edge # None => EdgeType[arg.edge] = call.fn.args[k]
ArgumentsHaveTheirTypes == passed # None => Faithful(passed)

(* What a program reads by type is what it added by type, until it adds     *)
(* another edge of that type by index.                                      *)
LookupByTypeIsUnambiguous ==
  \A T \in Types \cup {void} :
    by_type[T] # None => EdgesByType(T) = {by_type[T]}
=============================================================================
