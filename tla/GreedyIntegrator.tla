-------------------------- MODULE GreedyIntegrator --------------------------
(***************************************************************************)
(* GreedyIntegrator::integrate_pevm_graphs                                 *)
(* (crates/pevm/src/greedy_integrator.rs): the graphs of several blocks    *)
(* are merged into groups, and the transactions of each group are          *)
(* reordered (GraphPevm::reorder_txs_by_dependency_graph).                 *)
(*                                                                         *)
(* The coefficients of variation and the hot keys decide how the graphs    *)
(* are sorted and which ones are merged.  They are numbers of the          *)
(* simulation and are left open: any order, and any answer to decent_graph,*)
(* has_common_hot_keys and decent_integration.  The simulation of a group, *)
(* whose result the code keeps from the last merge, is run when the group  *)
(* is reordered.                                                           *)
(***************************************************************************)
EXTENDS Simulation

CONSTANTS
    Inputs,     \* sequences of graphs, one per block, with distinct replicas
    MaxMerged   \* a group is closed once it has more than that many graphs: 10

VARIABLES
    graphs,     \* dependency_graphs
    l,          \* the blocks that are in no group yet
    g,          \* {} or {the graph of the current group}
    sources,    \* source_indices of the current group
    i,          \* the candidates that the current group has not looked at: l[1..i]
    positions,  \* s_positions: the candidates that were merged
    output,     \* the groups: graph and source_indices
    simulated,  \* groups whose simulation has begun
    integrated  \* the result: transactions and graph of every group

gvars == <<graphs, l, g, sources, i, positions, output, simulated, integrated>>

\* A transaction stands for itself by its id; a block's come in the order of its nodes.
Transactions(h) == [n \in Indices(h) |-> h.nodes[n].tid]

\* sort_by: in descending order of CV, which may be any order.
GreedyInit ==
    /\ graphs \in Inputs
    /\ l \in SetToSeqs(DOMAIN graphs)
    /\ g = {}
    /\ sources = <<>>
    /\ i = 0
    /\ positions = {}
    /\ output = <<>>
    /\ simulated = 0
    /\ SimulationInit
    /\ integrated = <<>>

\* G <- L[0]
StartGroup ==
    /\ g = {}
    /\ l # <<>>
    /\ g' = {graphs[Head(l)]}
    /\ sources' = <<Head(l)>>
    /\ l' = Tail(l)
    /\ i' = Len(l) - 1
    /\ UNCHANGED <<graphs, positions, output, simulated, integrated, simvars>>

\* A candidate with common hot keys, or that does not improve the graph.
SkipCandidate ==
    /\ i > 0
    /\ i' = i - 1
    /\ UNCHANGED <<graphs, l, g, sources, positions, output, simulated, integrated, simvars>>

MergeCandidate ==
    /\ i > 0
    /\ g' = {IntegrateGraph(h, graphs[l[i]]) : h \in g}
    /\ sources' = Append(sources, l[i])
    /\ positions' = positions \cup {i}
    /\ i' = IF Len(sources') > MaxMerged THEN 0 ELSE i - 1
    /\ UNCHANGED <<graphs, l, output, simulated, integrated, simvars>>

\* The graph is decent.
StopLooking ==
    /\ i > 0
    /\ i' = 0
    /\ UNCHANGED <<graphs, l, g, sources, positions, output, simulated, integrated, simvars>>

\* l without the merged positions
Rest == SelectSeq(l, LAMBDA b : b \notin {l[p] : p \in positions})

\* The group is complete: its blocks leave l.
FinishGroup ==
    /\ g # {}
    /\ i = 0
    /\ output' = Append(output, [graph |-> CHOOSE h \in g : TRUE, sources |-> sources])
    /\ l' = Rest
    /\ g' = {}
    /\ positions' = {}
    /\ sources' = <<>>
    /\ UNCHANGED <<graphs, i, simulated, integrated, simvars>>

SimulateGroup ==
    /\ l = <<>> /\ g = {}
    /\ simulated = Len(integrated)
    /\ simulated < Len(output)
    /\ simulated' = simulated + 1
    /\ BeginSimulation(output[simulated + 1].graph)
    /\ UNCHANGED <<graphs, l, g, sources, i, positions, output, integrated>>

SimulationStep == (Assign \/ Complete) /\ UNCHANGED gvars

\* Faulty: the transactions of the group's blocks in the order of the blocks.
MergedTxsByBlock(group) ==
    LET blocks == SetToSortSeq(ToSet(group.sources), <)
    IN FlattenSeq([n \in DOMAIN blocks |-> Transactions(graphs[blocks[n]])])

\* The transactions of the group's blocks, in the order of integration.
MergedTxs(group) ==
    FlattenSeq([n \in DOMAIN group.sources |-> Transactions(graphs[group.sources[n]])])

\* reorder_txs_by_dependency_graph, and the graph that is built anew in the new order.
ReorderGroup ==
    LET index == [n \in DOMAIN execution_order |->
                    graph.id_to_index[graph.nodes[execution_order[n][2]].tid]]
        txs == MergedTxs(output[simulated])
        Clear(node) == [node EXCEPT !.children = {}, !.parents = {}]
    IN
    /\ simulated > Len(integrated)
    /\ Finished
    /\ integrated' = Append(integrated,
          [txs |-> [n \in DOMAIN index |-> txs[index[n]]],
           graph |-> BuildGraph([n \in DOMAIN index |-> Clear(graph.nodes[index[n]])])])
    /\ UNCHANGED <<graphs, l, g, sources, i, positions, output, simulated, simvars>>

Integrated == l = <<>> /\ g = {} /\ Len(integrated) = Len(output)

GreedyNext ==
    \/ StartGroup \/ SkipCandidate \/ MergeCandidate \/ StopLooking \/ FinishGroup
    \/ SimulateGroup \/ SimulationStep \/ ReorderGroup
    \/ (Integrated /\ UNCHANGED <<gvars, simvars>>)

GreedySpec == GreedyInit /\ [][GreedyNext]_<<gvars, simvars>>

-----------------------------------------------------------------------------
\* Every transaction of every block is in the result, once: no block is merged into two
\* groups or left behind when positions are removed from l, and no transaction is lost
\* when a group is reordered.
EveryTransactionOnce ==
    LET before == FlattenSeq([b \in DOMAIN graphs |-> Transactions(graphs[b])])
        after == FlattenSeq([r \in DOMAIN integrated |-> integrated[r].txs])
    IN Integrated => Len(after) = Len(before) /\ ToSet(after) = ToSet(before)

\* The n-th transaction of a group is the one the n-th node of its graph was made from, so
\* that GraphScheduler orders the right ones; edges lead forward.
GraphsFitTransactions ==
    \A r \in DOMAIN integrated :
        /\ integrated[r].txs = Transactions(integrated[r].graph)
        /\ WellFormed(integrated[r].graph)

\* The integration loses and invents nothing: the transactions of the blocks come out once
\* each, beside the graphs that were made from them (integrate_pevm_graphs,
\* reorder_txs_by_dependency_graph).
IntegrationIsSound == EveryTransactionOnce /\ GraphsFitTransactions
=============================================================================
