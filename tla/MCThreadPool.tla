---------------------------- MODULE MCThreadPool ----------------------------
(* Small instances of ThreadPool for TLC. *)
EXTENDS ThreadPool, TLC

CONSTANTS main, c1, w1, w2, w3, j1, j2, j3

OneClient == {main}
TwoClients == {main, c1}
TwoWorkers == {w1, w2}
ThreeWorkers == {w1, w2, w3}
TwoJobs == {j1, j2}
ThreeJobs == {j1, j2, j3}

AddOnly == {"add"}
AddWait == {"add", "wait"}
AddClear == {"add", "clear"}
AllCalls == {"add", "clear", "wait"}
NoCalls == {}

(* Workers are interchangeable, and so are jobs. *)
Interchangeable == Permutations(Workers) \cup Permutations(Jobs)
=============================================================================
