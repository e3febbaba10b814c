---------------------------- MODULE ListSchedule ----------------------------
(***************************************************************************)
(* What the simulation of a dependency graph promises to those who use its *)
(* execution order: each node is started once, after its parents, and all  *)
(* are before the next graph is scheduled.                                 *)
(***************************************************************************)
EXTENDS Integers, SequencesExt

VARIABLES graph, order

\* Any graph may be scheduled.
ScheduleInit == order = <<>>

Start(i) ==
    /\ i \in DOMAIN graph.nodes \ ToSet(order)
    /\ graph.nodes[i].parents \subseteq ToSet(order)
    /\ order' = Append(order, i)
    /\ UNCHANGED graph

\* The next graph.
Restart ==
    /\ ToSet(order) = DOMAIN graph.nodes
    /\ order' = <<>>

ScheduleNext == Restart \/ \E i \in DOMAIN graph.nodes : Start(i)

Schedule == ScheduleInit /\ [][ScheduleNext]_<<graph, order>>
=============================================================================
