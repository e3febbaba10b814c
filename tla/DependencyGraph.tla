--------------------------- MODULE DependencyGraph ---------------------------
(***************************************************************************)
(* TransactionGraph (crates/pevm/src/dependency_graph.rs): how the graph   *)
(* of a block is built from the read and write sets of its transactions,   *)
(* and how two graphs are joined.  A graph is a record; its nodes are      *)
(* numbered from 1 and know their children and parents by number.          *)
(***************************************************************************)
EXTENDS Integers, SequencesExt

\* TransactionNode::new; tid is the pair <<id, replica>>.
TransactionNode(tid, gas_cost, read_set, write_set) ==
    [tid |-> tid, gas_cost |-> gas_cost, read_set |-> read_set, write_set |-> write_set,
     children |-> {}, parents |-> {}]

Keys(node) == node.read_set \cup node.write_set

EmptyMap == [x \in {} |-> x]

\* HashMap::insert of v under each of the keys
Insert(map, keys, v) ==
    [k \in DOMAIN map \cup keys |-> IF k \in keys THEN v ELSE map[k]]

NewGraph ==
    [nodes |-> <<>>, id_to_index |-> EmptyMap, head |-> EmptyMap, tail |-> EmptyMap]

Indices(g) == 1 .. Len(g.nodes)

\* add_edge of every pair of a set of <<parent index, child index>>; an edge is
\* there once.
AddEdges(g, edges) ==
    [g EXCEPT !.nodes = [i \in Indices(g) |->
        [g.nodes[i] EXCEPT !.children = @ \cup {e[2] : e \in {d \in edges : d[1] = i}},
                           !.parents = @ \cup {e[1] : e \in {d \in edges : d[2] = i}}]]]

\* add_transaction: an edge from the tail of every key of the node, if the two write a
\* common key; then the node is the new tail of its keys.  An error changes nothing.
AddTransaction(g, node) ==
    LET new == Len(g.nodes) + 1
        tails == {g.id_to_index[g.tail[k]] : k \in Keys(node) \cap DOMAIN g.tail}
        conflicting == {p \in tails : g.nodes[p].write_set \cap node.write_set # {}}
        added == [nodes |-> Append(g.nodes, node),
                  id_to_index |-> Insert(g.id_to_index, {node.tid}, new),
                  head |-> Insert(g.head, Keys(node) \ DOMAIN g.head, node.tid),
                  tail |-> Insert(g.tail, Keys(node), node.tid)]
    IN
    IF node.tid \in DOMAIN g.id_to_index THEN g
    ELSE AddEdges(added, conflicting \X {new})

\* The nodes of a block in its order, as construct_graph_pevm_by_sequential adds them.
BuildGraph(nodes) == FoldLeft(AddTransaction, NewGraph, nodes)

\* Faulty: the indices of the second graph are taken as they are.
ShiftNot(S, base) == S

Shift(S, base) == {base + i : i \in S}

\* integrate_graph: append the nodes of h to those of g, and connect the tail of g to
\* the head of h for every key they both have.
IntegrateGraph(g, h) ==
    LET base == Len(g.nodes)
        moved == [i \in Indices(h) |->
                    [h.nodes[i] EXCEPT !.children = Shift(@, base), !.parents = Shift(@, base)]]
        id_to_index == [t \in DOMAIN g.id_to_index \cup DOMAIN h.id_to_index |->
                          IF t \in DOMAIN h.id_to_index THEN base + h.id_to_index[t]
                          ELSE g.id_to_index[t]]
        joined == [nodes |-> g.nodes \o moved,
                   id_to_index |-> id_to_index,
                   head |-> [k \in DOMAIN g.head \cup DOMAIN h.head |->
                               IF k \in DOMAIN g.tail THEN g.head[k] ELSE h.head[k]],
                   tail |-> [k \in DOMAIN g.tail \cup DOMAIN h.tail |->
                               IF k \in DOMAIN h.tail THEN h.tail[k] ELSE g.tail[k]]]
    IN
    AddEdges(joined, {<<id_to_index[g.tail[k]], id_to_index[h.head[k]]>> :
                        k \in DOMAIN g.tail \cap DOMAIN h.head})

\* update_longest_suffix_postorder: gas on the costliest path from each node.
LongestSuffix(g) ==
    LET suffix[i \in Indices(g)] ==
            g.nodes[i].gas_cost + Max({0} \cup {suffix[c] : c \in g.nodes[i].children})
    IN suffix

\* Faulty: every transaction is taken for a root.
RootsAll(g) == Indices(g)

Roots(g) == {i \in Indices(g) : g.nodes[i].parents = {}}

\* Edges are known at both ends and lead to later nodes, so there is no cycle; ids
\* name nodes.
WellFormed(g) ==
    /\ \A i \in Indices(g) :
          /\ g.nodes[i].children \subseteq i + 1 .. Len(g.nodes)
          /\ g.nodes[i].parents \subseteq 1 .. i - 1
    /\ \A i, j \in Indices(g) : j \in g.nodes[i].children <=> i \in g.nodes[j].parents
    /\ \A t \in DOMAIN g.id_to_index :
          g.id_to_index[t] \in Indices(g) /\ g.nodes[g.id_to_index[t]].tid = t
    /\ \A i \in Indices(g) : g.nodes[i].tid \in DOMAIN g.id_to_index
=============================================================================
