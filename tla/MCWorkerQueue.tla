---------------------------- MODULE MCWorkerQueue ----------------------------
(* Small instances of WorkerQueue for TLC. *)
EXTENDS WorkerQueue, TLC

CONSTANTS j1, j2

\* Both jobs in _workers, or the second in a custom worker table.
OneTable  == [j \in Jobs |-> 1]
TwoTables == [j \in Jobs |-> IF j = j1 THEN 1 ELSE 2]

NodeSymmetry == Permutations(Nodes)
GoroutineSymmetry == Permutations(Goroutines)
Symmetry == NodeSymmetry \cup GoroutineSymmetry

==============================================================================
