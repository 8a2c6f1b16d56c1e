--------------------------- MODULE MCReachability ---------------------------
(* A root, two nodes with one input and one with two: chains, a diamond,    *)
(* cycles, and tasks listed in several orders, partly or with a null.       *)
EXTENDS Reachability, TLC

CONSTANTS a, b, c, d

MCNodes == {a, b, c, d}
MCArity == a :> 0 @@ b :> 1 @@ c :> 1 @@ d :> 2
MCTaskLists == {<<d, c, b>>, <<None, c>>}
=============================================================================
