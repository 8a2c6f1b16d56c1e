----------------------------- MODULE MCExecutors -----------------------------
(* Two executors and a chain of tasks, so that every second task may be     *)
(* given to another executor than the ones it depends on and for.           *)
EXTENDS Executors, TLC

CONSTANTS a, b, c, x, y

Chain == {a, b, c}
ChainInputs == a :> <<>> @@ b :> <<a>> @@ c :> <<b>>
XY == {x, y}
=============================================================================
