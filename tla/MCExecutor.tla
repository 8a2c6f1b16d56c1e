----------------------------- MODULE MCExecutor -----------------------------
(* A diamond with a null edge (b and c need a, d needs b and c), and a pair *)
(* of tasks; they are added in every order, all of them or some.            *)
EXTENDS Executor, TLC

CONSTANTS a, b, c, d

Diamond == {a, b, c, d}
DiamondInputs == a :> <<>> @@ b :> <<a>> @@ c :> <<None, a>> @@ d :> <<b, c>>
Pair == {a, b}
PairInputs == a :> <<>> @@ b :> <<a>>
=============================================================================
