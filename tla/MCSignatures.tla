---------------------------- MODULE MCSignatures ----------------------------
(* Every list of up to three types, edges of each type (two of int), and    *)
(* callables of every parameter list of the value types up to that length.  *)
EXTENDS Signatures

CONSTANTS int, double, i1, i2, d1, v1

Values == {int, double}
UpTo(S, n) == UNION {[1 .. k -> S] : k \in 0 .. n}
Lists == UpTo({int, double, Void}, 3)
SomeEdges == {i1, i2, d1, v1}
TypeOfEdge == [e \in SomeEdges |->
                 IF e = d1 THEN double ELSE IF e = v1 THEN void ELSE int]

Fn(kind, ret, args, optional) ==
  [kind |-> kind, lvalue |-> FALSE, noexcept |-> FALSE, null |-> FALSE,
   ret |-> ret, args |-> args, required |-> Len(args) - optional]

(* Functors, some with a default for the last argument. *)
Functors ==
  {Fn("functor", ret, args, 0) : ret \in {int, void}, args \in UpTo(Values, 3)}
    \cup {Fn("functor", int, args, 1) : args \in UpTo(Values, 3) \ {<<>>}}

(* Callables handed to a task: functors, and function pointers and          *)
(* std::functions that may be null.                                         *)
SomeCallables ==
  Functors \cup
  {[Fn(kind, int, <<int>>, 0) EXCEPT !.null = null, !.lvalue = lvalue] :
     kind \in {"pointer", "std::function"}, null, lvalue \in BOOLEAN}
  \cup {Fn("generic", int, <<int>>, 0)}
=============================================================================
