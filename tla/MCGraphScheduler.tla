-------------------------- MODULE MCGraphScheduler --------------------------
(* GraphScheduler on a small block. *)
EXTENDS GraphScheduler, TLC

WorkerSymmetry == Permutations(Workers)

\* Every dependency graph on the block.
AllGraphs == {g \in [Txs -> SUBSET Txs] : \A t \in Txs : \A p \in g[t] : p < t}

\* A fork and a join.
ShapedGraphs ==
    {[t \in Txs |-> IF t = 0 THEN {} ELSE {0}],
     [t \in Txs |-> IF t = 2 THEN {0, 1} ELSE {}]}
=============================================================================
