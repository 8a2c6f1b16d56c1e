------------------------------- MODULE MCTask -------------------------------
(* A diamond: b and c need a, d needs b, nothing (a null edge) and c, which *)
(* returns void.  One task alone.                                           *)
EXTENDS Task, TLC

CONSTANTS a, b, c, d, w1, w2, r1

Diamond == {a, b, c, d}
DiamondInputs == a :> <<>> @@ b :> <<a>> @@ c :> <<a>> @@ d :> <<b, None, c>>
Alone == {a}
AloneInputs == a :> <<>>
Nobody == {}
NoFunction == <<>>
TwoWaiters == {w1, w2}
OneWaiter == {w1}
ForD == w1 :> d
BothForOne == w1 :> a @@ w2 :> a
OneReader == {r1}
FirstOfD == r1 :> <<d, 1>>
JustA == {a}
JustD == {d}
AAndD == {a, d}
VoidC == {c}
=============================================================================
