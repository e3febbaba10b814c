----------------------------- MODULE Simulation -----------------------------
(***************************************************************************)
(* TransactionGraph::simulate_parallel_execution                           *)
(* (crates/pevm/src/dependency_graph.rs): a graph's transactions are run   *)
(* on k threads in virtual time, the one with the costliest suffix first.  *)
(* One step assigns one transaction or completes one.  GreedyIntegrator    *)
(* has graphs simulated one after the other.                               *)
(***************************************************************************)
EXTENDS DependencyGraph

CONSTANT Threads   \* 1 .. k

VARIABLES
    graph,                \* the graph that is simulated
    txns_without_parent,  \* the heap of transactions that may start
    temp_parents,         \* per transaction: parents that have not completed
    running,              \* per thread: {} or {current_transaction}
    completion_time,      \* per thread: end of its current or last transaction
    current_time,
    execution_order       \* <<thread, transaction, start, end>> in order of start

simvars == <<graph, txns_without_parent, temp_parents, running, completion_time,
             current_time, execution_order>>

SimulationInit ==
    /\ graph = NewGraph
    /\ txns_without_parent = {}
    /\ temp_parents = <<>>
    /\ running = [t \in Threads |-> {}]
    /\ completion_time = [t \in Threads |-> 0]
    /\ current_time = 0
    /\ execution_order = <<>>

Idle == {t \in Threads : running[t] = {}}

\* HeapEntry's order: longest_suffix, then id, then replica.
Precedes(i, j) ==
    LET s == LongestSuffix(graph)
        a == graph.nodes[i].tid
        b == graph.nodes[j].tid
    IN \/ s[i] < s[j]
       \/ s[i] = s[j] /\ (a[1] < b[1] \/ (a[1] = b[1] /\ a[2] < b[2]))

Greatest == CHOOSE i \in txns_without_parent : \A j \in txns_without_parent \ {i} : Precedes(j, i)

BeginSimulation(g) ==
    /\ graph' = g
    /\ txns_without_parent' = Roots(g)
    /\ temp_parents' = [i \in Indices(g) |-> Cardinality(g.nodes[i].parents)]
    /\ running' = [t \in Threads |-> {}]
    /\ completion_time' = [t \in Threads |-> 0]
    /\ current_time' = 0
    /\ execution_order' = <<>>

\* The idle threads, in order, take the transactions at the top of the heap.
Assign ==
    LET thread == Min(Idle)
        end == current_time + graph.nodes[Greatest].gas_cost
    IN
    /\ Idle # {} /\ txns_without_parent # {}
    /\ txns_without_parent' = txns_without_parent \ {Greatest}
    /\ running' = [running EXCEPT ![thread] = {Greatest}]
    /\ completion_time' = [completion_time EXCEPT ![thread] = end]
    /\ execution_order' = Append(execution_order, <<thread, Greatest, current_time, end>>)
    /\ UNCHANGED <<graph, temp_parents, current_time>>

\* Faulty: the latest completion event first.
NextCompletionLatest ==
    CHOOSE t \in Threads \ Idle : \A u \in Threads \ Idle : completion_time[t] >= completion_time[u]

\* The next completion event: the earliest, of the lowest thread.
NextCompletion ==
    CHOOSE t \in Threads \ Idle : \A u \in Threads \ (Idle \cup {t}) :
        \/ completion_time[t] < completion_time[u]
        \/ completion_time[t] = completion_time[u] /\ t < u

\* The virtual time of the event.
Clock == Max({current_time, completion_time[NextCompletion]})

\* complete_transaction and remove_transaction_and_update
Complete ==
    LET tx == Min(running[NextCompletion])
        children == graph.nodes[tx].children
    IN
    /\ Idle = {} \/ txns_without_parent = {}
    /\ Idle # Threads
    /\ current_time' = Clock
    /\ running' = [running EXCEPT ![NextCompletion] = {}]
    /\ temp_parents' = [i \in Indices(graph) |->
                          temp_parents[i] - IF i \in children THEN 1 ELSE 0]
    /\ txns_without_parent' = txns_without_parent \cup {c \in children : temp_parents[c] = 1}
    /\ UNCHANGED <<graph, completion_time, execution_order>>

Finished == Idle = Threads /\ txns_without_parent = {}

-----------------------------------------------------------------------------
(* analyze_key_access_spans *)

\* node_map: the last node with that id, whatever its replica.
NodeById(id) == graph.nodes[Max({i \in Indices(graph) : graph.nodes[i].tid[1] = id})]

\* The entries that analyze_key_access_spans counts for a key.
Accesses(key) ==
    {e \in ToSet(execution_order) : key \in Keys(NodeById(graph.nodes[e[2]].tid[1]))}

AllKeys == UNION {Keys(graph.nodes[i]) : i \in Indices(graph)}

\* earliest_start, latest_finish and access_count
KeyAccessSpans ==
    [k \in {key \in AllKeys : Accesses(key) # {}} |->
        <<Min({e[3] : e \in Accesses(k)}), Max({e[4] : e \in Accesses(k)}),
          Cardinality(Accesses(k))>>]

-----------------------------------------------------------------------------
\* Whatever transactions the blocks hold, building and joining their graphs gives a
\* graph whose edges lead forward: the depth-first search of the suffixes and the
\* scheduler's release of children come to an end.
GraphIsWellFormed == WellFormed(graph)

\* execution_order, which reorder_txs_by_dependency_graph takes for the new order of the
\* block, has each transaction once and after its parents.
L == INSTANCE ListSchedule WITH order <- [n \in DOMAIN execution_order |-> execution_order[n][2]]
ImplementsSchedule == L!Schedule

\* No thread does two things at once, and no transaction starts before its parents end,
\* also if several end at the same time or cost nothing.
ScheduleIsPossible ==
    \A m, n \in DOMAIN execution_order :
        LET e == execution_order[m]
            f == execution_order[n]
        IN /\ m < n /\ e[1] = f[1] => e[4] <= f[3]
           /\ e[2] \in graph.nodes[f[2]].parents => e[4] <= f[3]

TotalGas == MapThenSumSet(LAMBDA i : graph.nodes[i].gas_cost, Indices(graph))
CriticalPath == Max({LongestSuffix(graph)[i] : i \in Indices(graph)})

\* The end of the simulation: all transactions are done, no earlier than the costliest path
\* and no later than list scheduling promises.
MakespanIsBounded ==
    Finished /\ graph # NewGraph =>
        /\ Len(execution_order) = Len(graph.nodes)
        /\ current_time = Max({e[4] : e \in ToSet(execution_order)})
        /\ current_time >= CriticalPath
        /\ Cardinality(Threads) * current_time
             <= TotalGas + (Cardinality(Threads) - 1) * CriticalPath

\* The simulation is a list schedule of the graph: one that threads could follow, in which
\* none is idle for nothing (simulate_parallel_execution, whose makespan decides
\* which blocks the integrator merges).
ScheduleIsSound == ScheduleIsPossible /\ MakespanIsBounded

\* "access_count: usize,  // Number of transactions accessing this key"
SpansCountAccesses ==
    Finished => \A k \in DOMAIN KeyAccessSpans :
        KeyAccessSpans[k][3] = Cardinality({i \in Indices(graph) : k \in Keys(graph.nodes[i])})
=============================================================================
