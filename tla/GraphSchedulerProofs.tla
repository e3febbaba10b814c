------------------------ MODULE GraphSchedulerProofs ------------------------
(***************************************************************************)
(* The inductive invariant of GraphScheduler and the theorems that follow  *)
(* from it.  Module GraphSchedulerSteps states the invariant and has what  *)
(* its proof needs about the single steps.                                 *)
(***************************************************************************)
EXTENDS GraphSchedulerSteps, FiniteSetTheorems

\* Zenon is the prover of a leaf that does not name another one.
USE Zenon

\* A block has finitely many transactions.
LEMMA TxsFinite == IsFiniteSet(Txs)
BY BlockSizeAssumption, FS_Interval, SMT DEF Txs

\* The parents of a transaction are finitely many.
LEMMA UnreleasedFinite ==
    ASSUME GraphTypeOK, NEW c \in Txs
    PROVE  /\ Unreleased(c) \subseteq parents[c] /\ parents[c] \subseteq Txs
           /\ IsFiniteSet(Unreleased(c))
<1>1. Unreleased(c) \subseteq parents[c] /\ parents[c] \subseteq Txs
  BY GraphsAssumption, GraphTyping DEF Unreleased
<1>2. Unreleased(c) \subseteq Txs
  BY <1>1
<1> QED
  BY <1>1, <1>2, TxsFinite, FS_Subset

\* A finite set that loses an element has one less, and none when its count is 0.
LEMMA OneLess ==
    ASSUME NEW S, IsFiniteSet(S)
    PROVE  /\ Cardinality(S) = 0 <=> S = {}
           /\ \A x \in S : Cardinality(S \ {x}) = Cardinality(S) - 1
BY FS_EmptySet, FS_RemoveElement

\* A count is 0 exactly when all parents have released the child.
LEMMA CountZero ==
    ASSUME GraphTypeOK, RemainingIsExact, NEW c \in Txs
    PROVE  remaining[c] = 0 <=> Unreleased(c) = {}
<1>1. IsFiniteSet(Unreleased(c))
  BY UnreleasedFinite
<1>2. Cardinality(Unreleased(c)) = 0 <=> Unreleased(c) = {}
  BY <1>1, OneLess
<1> QED
  BY <1>2 DEF RemainingIsExact

\* remaining_dependencies counts the parents that have not released the child,
\* however often the parents are executed.
LEMMA ExactStep ==
    ASSUME GraphTypeOK, OneFinisher, RemainingIsExact,
           NEW w \in Workers, GraphStep(w) \/ GraphVmStep(w) \/ TimeOut(w)
    PROVE  RemainingIsExact'
<1>   /\ OthersKeptGraph(w)
      /\ remaining \in [Txs -> Int]
      /\ tx \in [Workers -> Txs]
      /\ pc \in [Workers -> GraphPCs]
  BY GraphTypeStep, GraphTyping
<1>1. CASE ReleaseChild(w)
  <2> DEFINE d == Min(children[w])
  <2>0. children[w] \subseteq Txs /\ children[w] # {}
    BY <1>1, GraphTyping DEF ReleaseChild
  <2>1. d \in children[w] /\ d \in Txs
    BY <2>0, MinInSet
  <2>2. /\ children' = [children EXCEPT ![w] = @ \ {d}]
        /\ remaining' = [remaining EXCEPT ![d] = @ - 1]
        /\ pc[w] = "resume" /\ UNCHANGED <<parents, tx, released>>
    BY <1>1 DEF ReleaseChild, vars, locals
  <2> HIDE DEF d
  <2>3. ASSUME NEW c \in Txs PROVE remaining'[c] = Cardinality(Unreleased(c)')
    <3>1. CASE c = d
      <4>1. Unreleased(c)' = Unreleased(c) \ {tx[w]} /\ tx[w] \in Unreleased(c)
        BY <2>1, <2>2, <3>1, UnreleasedOne
      <4>2. Cardinality(Unreleased(c)') = Cardinality(Unreleased(c)) - 1
        <5>1. IsFiniteSet(Unreleased(c))
          BY UnreleasedFinite
        <5>2. Cardinality(Unreleased(c) \ {tx[w]}) = Cardinality(Unreleased(c)) - 1
          BY <4>1, <5>1, OneLess
        <5> QED
          BY <4>1, <5>2
      <4> QED
        BY <2>2, <3>1, <4>2 DEF RemainingIsExact
    <3>2. CASE c # d
      <4>1. Unreleased(c)' = Unreleased(c)
        BY <2>1, <2>2, <3>2, UnreleasedOne
      <4> QED
        BY <2>2, <3>2, <4>1 DEF RemainingIsExact
    <3> QED
      BY <3>1, <3>2
  <2> QED
    BY <2>3 DEF RemainingIsExact
<1>2. ASSUME NEW f \in {{}, WroteNewLocation}, ExecuteOkGraph(w, f) PROVE RemainingIsExact'
  <2>1. /\ pc[w] # "resume" /\ UNCHANGED <<parents, tx, remaining>>
        /\ released' = [released EXCEPT ![tx[w]] = TRUE]
        /\ children' = [children EXCEPT ![w] = IF released[tx[w]] THEN {} ELSE Children(tx[w])]
    BY <1>2 DEF ExecuteOkGraph, ExecuteOk
  <2>2. \A c \in Txs : Unreleased(c)' = Unreleased(c)
    BY <2>1, UnreleasedFirst
  <2> QED
    BY <2>1, <2>2 DEF RemainingIsExact
<1>3. ASSUME UNCHANGED <<parents, released, children, remaining>>,
             pc[w] = "resume" => tx'[w] = tx[w]
      PROVE  RemainingIsExact'
  <2>1. \A v \in Workers : children[v] # {} => tx'[v] = tx[v]
    BY <1>3 DEF OneFinisher, OthersKeptGraph
  <2>2. \A c \in Txs : Unreleased(c)' = Unreleased(c)
    BY <1>3, <2>1, UnreleasedKept
  <2> QED
    BY <1>3, <2>2 DEF RemainingIsExact
<1> USE DEF graph, graphvars, vars, locals
<1>4. CASE QuietGraph(w)
  BY <1>4, <1>3 DEF QuietGraph, Finishing
<1>5. CASE Steal(w) \/ Pop(w) \/ TryExecuteGraph(w) \/ AddDependencyGraph(w)
  BY <1>5, <1>3 DEF Steal, Pop, TryExecuteGraph, AddDependencyGraph
<1>6. CASE PushChild(w) \/ (\E d \in Txs : ResumeDependentGraph(w, d)) \/ PushDependent(w)
  BY <1>6, <1>3 DEF PushChild, ResumeDependentGraph, PushDependent
<1>7. CASE ScheduleValidation(w)
  BY <1>7, <1>3, ScheduleEffect
<1>8. CASE AbortGraph(w) \/ FinishAbortedGraph(w) \/ ReexecuteGraph(w) \/ FinishValidatedGraph(w)
  BY <1>8, <1>3
     DEF AbortGraph, TryValidationAbort, FinishAbortedGraph, FinishAborted, LowerAfterAbort,
         ReexecuteGraph, FinishValidatedGraph, FinishValidated
<1> QED
  BY <1>1, <1>2, <1>4, <1>5, <1>6, <1>7, <1>8, QuietOrLoudGraph DEF LoudGraph

\* A transaction is handed out when its count is 0, and the count of one whose
\* parents are all executed does not move again.
LEMMA StartedStep ==
    ASSUME GraphTypeOK, OneFinisher, RemainingIsExact, StartedWhenReleased,
           NEW w \in Workers, GraphStep(w) \/ GraphVmStep(w) \/ TimeOut(w)
    PROVE  StartedWhenReleased'
<1>   /\ OthersKeptGraph(w)
      /\ pc \in [Workers -> GraphPCs]
      /\ tx \in [Workers -> Txs]
      /\ pushing \in [Workers -> SUBSET Txs]
      /\ status \in [Txs -> IncarnationStatus]
      /\ incarnation \in [Txs -> Nat]
      /\ dependents \in [Txs -> SUBSET Txs]
      /\ remaining \in [Txs -> Int]
  BY GraphTypeStep, GraphTyping
<1>q. QuietGraph(w) \/ LoudGraph(w)
  BY QuietOrLoudGraph
<1>1. QuietGraph(w) => StartedWhenReleased'
  BY SMT DEF QuietGraph, Goto, OthersKeptGraph, Finishing, shared, txvars, graph, graphvars,
         StartedWhenReleased, Owns
<1>2. Steal(w) => StartedWhenReleased'
  BY SMT DEF Steal, StartExecution, Goto, OthersKeptGraph, Finishing, shared, txvars, graph,
         graphvars, StartedWhenReleased, Owns
<1>3. Pop(w) => StartedWhenReleased'
  BY SMT DEF Pop, Goto, OthersKeptGraph, Finishing, shared, txvars, graph, graphvars,
         StartedWhenReleased, Owns
<1>4. TryExecuteGraph(w) => StartedWhenReleased'
  BY SMT DEF TryExecuteGraph, Goto, OthersKeptGraph, Finishing, shared, txvars, graph, graphvars,
         StartedWhenReleased, Owns
<1>5. AddDependencyGraph(w) => StartedWhenReleased'
  BY SMT DEF AddDependencyGraph, Completed, Goto, OthersKeptGraph, Finishing, shared, txvars, graph,
         graphvars, StartedWhenReleased, Owns
<1>6. CASE ReleaseChild(w)
  <2> DEFINE c == Min(children[w])
  <2>0. children[w] \subseteq Txs /\ children[w] # {}
    BY <1>6, GraphTyping DEF ReleaseChild
  <2>1. c \in children[w] /\ c \in Txs
    BY <2>0, MinInSet
  <2>2. /\ remaining' = [remaining EXCEPT ![c] = @ - 1]
        /\ pushing' = [pushing EXCEPT ![w] = IF remaining[c] = 1 THEN {c} ELSE {}]
        /\ pc[w] = "resume" /\ UNCHANGED <<vars, parents>>
    BY <1>6 DEF ReleaseChild
  <2> HIDE DEF c
  <2>3. tx[w] \in Unreleased(c)
    BY <2>1, <2>2 DEF OneFinisher, Children, Unreleased
  <2>4. remaining[c] # 0
    BY <2>1, <2>3, CountZero
  <2>5. \A t \in Txs : remaining[t] = 0 => remaining'[t] = 0
    BY <2>1, <2>2, <2>4
  <2>6. \A v \in Workers : \A d \in pushing'[v] : remaining'[d] = 0
    BY <2>1, <2>2, <2>5, SMT DEF StartedWhenReleased
  <2> QED
    BY <2>2, <2>5, <2>6 DEF StartedWhenReleased, Owns, vars, txvars, locals
<1>7. PushChild(w) => StartedWhenReleased'
  BY SMT DEF PushChild, Push, vars, locals, Goto, OthersKeptGraph, Finishing, shared, txvars, graph,
         graphvars, StartedWhenReleased, Owns
<1>8. \A d \in Txs : ResumeDependentGraph(w, d) => StartedWhenReleased'
  BY SMT DEF ResumeDependentGraph, SetReadyStatus, ChildrenDone, Goto, OthersKeptGraph, Finishing,
         shared, txvars, graph, graphvars, StartedWhenReleased, Owns
<1>9. PushDependent(w) => StartedWhenReleased'
  BY SMT DEF PushDependent, Push, Goto, OthersKeptGraph, Finishing, shared, txvars, graph,
         graphvars, StartedWhenReleased, Owns
<1>10. ScheduleValidation(w) => StartedWhenReleased'
  BY ScheduleEffect, SMT
     DEF ChildrenDone, Goto, OthersKeptGraph, Finishing, shared, txvars, graph, graphvars,
         StartedWhenReleased, Owns
<1>11. AbortGraph(w) => StartedWhenReleased'
  BY SMT DEF AbortGraph, TryValidationAbort, Completed, Goto, OthersKeptGraph, Finishing, shared,
         txvars, graph, graphvars, StartedWhenReleased, Owns
<1>12. FinishAbortedGraph(w) => StartedWhenReleased'
  BY SMT DEF FinishAbortedGraph, FinishAborted, LowerAfterAbort, SetReadyStatus, Goto,
         OthersKeptGraph, Finishing, shared, txvars, graph, graphvars, StartedWhenReleased, Owns
<1>13. ReexecuteGraph(w) => StartedWhenReleased'
  BY SMT DEF ReexecuteGraph, Goto, OthersKeptGraph, Finishing, shared, txvars, graph, graphvars,
         StartedWhenReleased, Owns
<1>14. FinishValidatedGraph(w) => StartedWhenReleased'
  BY SMT DEF FinishValidatedGraph, FinishValidated, Goto, OthersKeptGraph, Finishing, shared,
         txvars, graph, graphvars, StartedWhenReleased, Owns
<1>15. \A f \in {{}, WroteNewLocation} : ExecuteOkGraph(w, f) => StartedWhenReleased'
  BY SMT DEF ExecuteOkGraph, ExecuteOk, Goto, OthersKeptGraph, Finishing, shared, txvars, graph,
         graphvars, StartedWhenReleased, Owns
<1> QED
  BY <1>q, <1>1, <1>2, <1>3, <1>4, <1>5, <1>6, <1>7, <1>8, <1>9, <1>10, <1>11, <1>12, <1>13,
     <1>14, <1>15
     DEF LoudGraph

\* finish_execution releases the children and resumes the dependents before the
\* transaction is through, and add_dependency waits for the mutex.
LEMMA ResultsFollowStep ==
    ASSUME GraphTypeOK, OneFinisher, ResultsFollow,
           NEW w \in Workers, GraphStep(w) \/ GraphVmStep(w) \/ TimeOut(w)
    PROVE  ResultsFollow'
<1>   /\ OthersKeptGraph(w)
      /\ pc \in [Workers -> GraphPCs]
      /\ tx \in [Workers -> Txs]
      /\ reg \in [Workers -> Int]
      /\ status \in [Txs -> IncarnationStatus]
      /\ dependents \in [Txs -> SUBSET Txs]
      /\ released \in [Txs -> BOOLEAN]
      /\ execution_results \in [Txs -> SUBSET Nat]
  BY GraphTypeStep, GraphTyping
<1>q. QuietGraph(w) \/ LoudGraph(w)
  BY QuietOrLoudGraph
<1>1. QuietGraph(w) => ResultsFollow'
  BY SMT DEF QuietGraph, Goto, OthersKeptGraph, Finishing, shared, txvars, graph, graphvars,
         ResultsFollow, Completed
<1>2. Steal(w) => ResultsFollow'
  BY SMT DEF Steal, StartExecution, Goto, OthersKeptGraph, Finishing, shared, txvars, graph,
         graphvars, ResultsFollow, Completed
<1>3. Pop(w) => ResultsFollow'
  BY SMT DEF Pop, Goto, OthersKeptGraph, Finishing, shared, txvars, graph, graphvars, ResultsFollow,
         Completed
<1>4. TryExecuteGraph(w) => ResultsFollow'
  BY SMT DEF TryExecuteGraph, Goto, OthersKeptGraph, Finishing, shared, txvars, graph, graphvars,
         ResultsFollow, Completed
<1>5. CASE AddDependencyGraph(w)
  <2>1. /\ pc[w] = "block" /\ reg[w] \in Txs /\ reg[w] < tx[w] /\ tx[w] \in Txs
        /\ pc'[w] \in {"execute", "gotNone"} /\ UNCHANGED <<execution_results, tx, released>>
        /\ \A v \in Workers : ~(pc[v] \in Finishing /\ tx[v] = reg[w])
    BY <1>5, GraphTyping DEF AddDependencyGraph, Locked, Goto, graph
  <2>2. CASE Completed(reg[w])
    <3>1. UNCHANGED <<status, dependents>>
      BY <1>5, <2>2 DEF AddDependencyGraph
    <3> QED
      BY <2>1, <3>1 DEF ResultsFollow, Completed, OthersKeptGraph
  <2>3. CASE ~Completed(reg[w])
    <3>1. /\ status' = [status EXCEPT ![tx[w]] = "Aborting"]
          /\ dependents' = [dependents EXCEPT ![reg[w]] = @ \cup {tx[w]}]
      BY <1>5, <2>3 DEF AddDependencyGraph
    <3>2. \A t \in Txs :
              Completed(t)' => Completed(t) /\ t # reg[w] /\ dependents'[t] = dependents[t]
      BY <2>1, <2>3, <3>1 DEF Completed
    <3>3. \A v \in Workers : pc'[v] \in {"checkIdx", "lowerMin", "lowerNext"} =>
              pc[v] = pc'[v] /\ dependents'[tx[v]] = dependents[tx[v]]
      BY <2>1, <3>1, SMT DEF OthersKeptGraph, Finishing
    <3>4. \A b \in Txs : \A d \in dependents'[b] : b < d
      BY <2>1, <3>1 DEF ResultsFollow
    <3> QED
      BY <2>1, <3>2, <3>3, <3>4 DEF ResultsFollow
  <2> QED
    BY <2>2, <2>3
<1>6. ReleaseChild(w) => ResultsFollow'
  BY SMT DEF ReleaseChild, vars, locals, Goto, OthersKeptGraph, Finishing, shared, txvars, graph,
         graphvars, ResultsFollow, Completed
<1>7. PushChild(w) => ResultsFollow'
  BY SMT DEF PushChild, Push, vars, locals, Goto, OthersKeptGraph, Finishing, shared, txvars, graph,
         graphvars, ResultsFollow, Completed
<1>8. \A d \in Txs : ResumeDependentGraph(w, d) => ResultsFollow'
  BY SMT DEF ResumeDependentGraph, SetReadyStatus, ChildrenDone, Goto, OthersKeptGraph, Finishing,
         shared, txvars, graph, graphvars, ResultsFollow, Completed
<1>9. PushDependent(w) => ResultsFollow'
  BY SMT DEF PushDependent, Push, Goto, OthersKeptGraph, Finishing, shared, txvars, graph,
         graphvars, ResultsFollow, Completed
<1>10. CASE ScheduleValidation(w)
  <2>1. dependents[tx[w]] = {} /\ released[tx[w]] /\ tx[w] \in Txs
    BY <1>10, ScheduleEffect DEF ResultsFollow, OneFinisher, Finishing
  <2>2. /\ UNCHANGED <<dependents, execution_results, tx, released>>
        /\ \A t \in Txs : Completed(t)' => Completed(t) \/ t = tx[w]
    BY <1>10, ScheduleEffect DEF Completed, graphvars, graph
  <2> QED
    BY <2>1, <2>2 DEF ResultsFollow, OthersKeptGraph
<1>11. AbortGraph(w) => ResultsFollow'
  BY SMT DEF AbortGraph, TryValidationAbort, Completed, Goto, OthersKeptGraph, Finishing, shared,
         txvars, graph, graphvars, ResultsFollow, Completed
<1>12. FinishAbortedGraph(w) => ResultsFollow'
  BY SMT DEF FinishAbortedGraph, FinishAborted, LowerAfterAbort, SetReadyStatus, Goto,
         OthersKeptGraph, Finishing, shared, txvars, graph, graphvars, ResultsFollow, Completed
<1>13. ReexecuteGraph(w) => ResultsFollow'
  BY SMT DEF ReexecuteGraph, Goto, OthersKeptGraph, Finishing, shared, txvars, graph, graphvars,
         ResultsFollow, Completed
<1>14. FinishValidatedGraph(w) => ResultsFollow'
  BY SMT DEF FinishValidatedGraph, FinishValidated, Goto, OthersKeptGraph, Finishing, shared,
         txvars, graph, graphvars, ResultsFollow, Completed
<1>15. ASSUME NEW f \in {{}, WroteNewLocation}, ExecuteOkGraph(w, f) PROVE ResultsFollow'
  <2>1. /\ execution_results' = [execution_results EXCEPT ![tx[w]] = {version[w]}]
        /\ released' = [released EXCEPT ![tx[w]] = TRUE]
        /\ pc' = [pc EXCEPT ![w] = "resume"] /\ UNCHANGED <<status, dependents, tx>>
    BY <1>15 DEF ExecuteOkGraph, ExecuteOk, Goto, txvars
  <2>2. \A t \in Txs : /\ released'[t] => released[t] \/ t = tx[w]
                       /\ released[t] => released'[t]
                       /\ execution_results'[t] = execution_results[t] \/ t = tx[w]
                       /\ Completed(t)' <=> Completed(t)
    BY <2>1 DEF Completed
  <2>3. execution_results'[tx[w]] # {}
    BY <2>1
  <2>4. \A v \in Workers : pc'[v] \in {"checkIdx", "lowerMin", "lowerNext"} =>
                              pc[v] \in {"checkIdx", "lowerMin", "lowerNext"}
    BY <2>1
  <2>5. \A t \in Txs : released'[t] => execution_results'[t] # {}
    <3>1. \A t \in Txs : released[t] => execution_results[t] # {}
      BY DEF ResultsFollow
    <3> QED
      BY <2>2, <2>3, <3>1
  <2>6. \A t \in Txs : Completed(t)' => released'[t] /\ dependents'[t] = {}
    <3>1. \A t \in Txs : Completed(t) => released[t] /\ dependents[t] = {}
      BY DEF ResultsFollow
    <3> QED
      BY <2>1, <2>2, <3>1
  <2>7. /\ \A v \in Workers :
              pc'[v] \in {"checkIdx", "lowerMin", "lowerNext"} => dependents'[tx'[v]] = {}
        /\ \A b \in Txs : \A d \in dependents'[b] : b < d
    BY <2>1, <2>4 DEF ResultsFollow
  <2> QED
    BY <2>5, <2>6, <2>7 DEF ResultsFollow
<1> QED
  BY <1>q, <1>1, <1>2, <1>3, <1>4, <1>5, <1>6, <1>7, <1>8, <1>9, <1>10, <1>11, <1>12, <1>13,
     <1>14, <1>15
     DEF LoudGraph

\* A worker passes the look of check_all_done at the heap only when it is empty, and
\* whoever pushes onto it has yet to look.
LEMMA HeapWatchedStep ==
    ASSUME GraphTypeOK, HeapWatched,
           NEW w \in Workers, GraphStep(w) \/ GraphVmStep(w) \/ TimeOut(w)
    PROVE  HeapWatched'
<1>   OthersKeptGraph(w) /\ pc \in [Workers -> GraphPCs] /\ heap \in [Txs -> Nat]
  BY GraphTypeStep, GraphTyping
<1>q. QuietGraph(w) \/ LoudGraph(w)
  BY QuietOrLoudGraph
<1>1. QuietGraph(w) => HeapWatched'
  BY DEF QuietGraph, Goto, OthersKeptGraph, Finishing, shared, txvars, graph, graphvars,
         HeapWatched, Leaving, IsAborted, Aborted
<1>2. Steal(w) => HeapWatched'
  BY DEF Steal, StartExecution, Goto, OthersKeptGraph, Finishing, shared, txvars, graph,
         graphvars, HeapWatched, Leaving, IsAborted, Aborted
<1>3. Pop(w) => HeapWatched'
  BY DEF Pop, Goto, OthersKeptGraph, Finishing, shared, txvars, graph, graphvars, HeapWatched,
         Leaving, IsAborted, Aborted
<1>4. TryExecuteGraph(w) => HeapWatched'
  BY DEF TryExecuteGraph, Goto, OthersKeptGraph, Finishing, shared, txvars, graph, graphvars,
         HeapWatched, Leaving, IsAborted, Aborted
<1>5. AddDependencyGraph(w) => HeapWatched'
  BY DEF AddDependencyGraph, Completed, Goto, OthersKeptGraph, Finishing, shared, txvars, graph,
         graphvars, HeapWatched, Leaving, IsAborted, Aborted
<1>6. ReleaseChild(w) => HeapWatched'
  BY DEF ReleaseChild, vars, locals, Goto, OthersKeptGraph, Finishing, shared, txvars, graph,
         graphvars, HeapWatched, Leaving, IsAborted, Aborted
<1>7. PushChild(w) => HeapWatched'
  BY DEF PushChild, Push, vars, locals, Goto, OthersKeptGraph, Finishing, shared, txvars, graph,
         graphvars, HeapWatched, Leaving, IsAborted, Aborted
<1>8. \A d \in Txs : ResumeDependentGraph(w, d) => HeapWatched'
  BY SMT DEF ResumeDependentGraph, SetReadyStatus, ChildrenDone, Goto, OthersKeptGraph, Finishing,
         shared, txvars, graph, graphvars, HeapWatched, Leaving, IsAborted, Aborted
<1>9. PushDependent(w) => HeapWatched'
  BY DEF PushDependent, Push, Goto, OthersKeptGraph, Finishing, shared, txvars, graph,
         graphvars, HeapWatched, Leaving, IsAborted, Aborted
<1>10. ScheduleValidation(w) => HeapWatched'
  BY ScheduleEffect, SMT
     DEF ChildrenDone, Goto, OthersKeptGraph, Finishing, shared, txvars, graph, graphvars,
         HeapWatched, Leaving, IsAborted, Aborted
<1>11. AbortGraph(w) => HeapWatched'
  BY DEF AbortGraph, TryValidationAbort, Completed, Goto, OthersKeptGraph, Finishing, shared,
         txvars, graph, graphvars, HeapWatched, Leaving, IsAborted, Aborted
<1>12. FinishAbortedGraph(w) => HeapWatched'
  BY DEF FinishAbortedGraph, FinishAborted, LowerAfterAbort, SetReadyStatus, Goto,
         OthersKeptGraph, Finishing, shared, txvars, graph, graphvars, HeapWatched, Leaving,
         IsAborted, Aborted
<1>13. ReexecuteGraph(w) => HeapWatched'
  BY DEF ReexecuteGraph, Goto, OthersKeptGraph, Finishing, shared, txvars, graph, graphvars,
         HeapWatched, Leaving, IsAborted, Aborted
<1>14. FinishValidatedGraph(w) => HeapWatched'
  BY DEF FinishValidatedGraph, FinishValidated, Goto, OthersKeptGraph, Finishing, shared,
         txvars, graph, graphvars, HeapWatched, Leaving, IsAborted, Aborted
<1>15. \A f \in {{}, WroteNewLocation} : ExecuteOkGraph(w, f) => HeapWatched'
  BY DEF ExecuteOkGraph, ExecuteOk, Goto, OthersKeptGraph, Finishing, shared, txvars, graph,
         graphvars, HeapWatched, Leaving, IsAborted, Aborted
<1> QED
  BY <1>q, <1>1, <1>2, <1>3, <1>4, <1>5, <1>6, <1>7, <1>8, <1>9, <1>10, <1>11, <1>12, <1>13,
     <1>14, <1>15
     DEF LoudGraph

\* Worker w accounts for t: if the step changes what t needs, or if it was w or the
\* heap that t relied upon, then w or the heap still comes to t.
AccountsFor(w, t) ==
    status'[t] # status[t] \/ remaining'[t] # remaining[t] \/ WillCome(t) \/ ComesTo(w, t) =>
        WillCome(t)' \/ ComesTo(w, t)'

\* Whatever a worker does, it leaves no transaction behind that it was at.
LEMMA AccountStep ==
    ASSUME GraphTypeOK, OneFinisher, RemainingIsExact, StartedWhenReleased, ResultsFollow,
           NEW t \in Txs, NEW w \in Workers, GraphStep(w) \/ GraphVmStep(w) \/ TimeOut(w)
    PROVE  AccountsFor(w, t)
<1>   /\ OthersKeptGraph(w)
      /\ pc \in [Workers -> GraphPCs]
      /\ tx \in [Workers -> Txs]
      /\ reg \in [Workers -> Int]
      /\ pushing \in [Workers -> SUBSET Txs]
      /\ status \in [Txs -> IncarnationStatus]
      /\ dependents \in [Txs -> SUBSET Txs]
      /\ heap \in [Txs -> Nat]
      /\ remaining \in [Txs -> Int]
  BY GraphTypeStep, GraphTyping
<1>q. QuietGraph(w) \/ LoudGraph(w)
  BY QuietOrLoudGraph
<1>1. QuietGraph(w) => AccountsFor(w, t)
  BY DEF QuietGraph, Goto, OthersKeptGraph, Finishing, shared, txvars, graph, graphvars,
         AccountsFor, WillCome, ComesTo, Owns, IsAborted, Aborted, Completed
<1>2. Steal(w) => AccountsFor(w, t)
  BY SMT DEF Steal, StartExecution, Goto, OthersKeptGraph, Finishing, shared, txvars, graph,
         graphvars, AccountsFor, WillCome, ComesTo, Owns, IsAborted, Aborted, Completed
<1>3. Pop(w) => AccountsFor(w, t)
  BY SMTT(30) DEF Pop, Goto, OthersKeptGraph, Finishing, shared, txvars, graph, graphvars, AccountsFor,
         WillCome, ComesTo, Owns, IsAborted, Aborted, Completed
<1>4. TryExecuteGraph(w) => AccountsFor(w, t)
  BY SMT DEF TryExecuteGraph, Goto, OthersKeptGraph, Finishing, shared, txvars, graph, graphvars,
         AccountsFor, WillCome, ComesTo, Owns, IsAborted, Aborted, Completed
<1>5. CASE AddDependencyGraph(w)
  <2>1. pc[w] = "block" /\ reg[w] \in Txs /\ tx[w] \in Txs /\ UNCHANGED <<tx, graph, timed_out>>
    BY <1>5, GraphTyping DEF AddDependencyGraph
  <2>2. CASE Completed(reg[w])
    <3>1. UNCHANGED <<status, dependents>>
      BY <1>5, <2>2 DEF AddDependencyGraph
    <3>2. IsAborted' \/ (pc'[w] = "execute" /\ abort_reason' = abort_reason)
      BY <1>5, <2>2 DEF AddDependencyGraph, Goto, IsAborted, Aborted
    <3>3. IsAborted => IsAborted'
      BY <1>5 DEF AddDependencyGraph, IsAborted, Aborted
    <3> QED
      BY <2>1, <3>1, <3>2, <3>3
         DEF AccountsFor, WillCome, ComesTo, Owns, Finishing, Completed, graph
  <2>3. CASE ~Completed(reg[w])
    <3>1. /\ status' = [status EXCEPT ![tx[w]] = "Aborting"]
          /\ dependents' = [dependents EXCEPT ![reg[w]] = @ \cup {tx[w]}]
          /\ abort_reason' = abort_reason
      BY <1>5, <2>3 DEF AddDependencyGraph
    <3>2. CASE t = tx[w]
      BY <2>1, <3>1, <3>2 DEF AccountsFor, WillCome
    <3>3. CASE t # tx[w]
      <4>1. status'[t] = status[t] /\ \A b \in Txs : t \in dependents[b] => t \in dependents'[b]
        BY <2>1, <3>1, <3>3
      <4>2. ~ComesTo(w, t)
        BY <2>1, <3>3 DEF ComesTo, OneFinisher
      <4> QED
        BY <2>1, <3>1, <4>1, <4>2
           DEF AccountsFor, WillCome, IsAborted, Aborted, Completed, graph
    <3> QED
      BY <3>2, <3>3
  <2> QED
    BY <2>2, <2>3
<1>6. CASE ReleaseChild(w)
  <2> DEFINE c == Min(children[w])
  <2>0. children[w] \subseteq Txs /\ children[w] # {}
    BY <1>6, GraphTyping DEF ReleaseChild
  <2>1. c \in children[w] /\ c \in Txs
    BY <2>0, MinInSet
  <2>2. /\ remaining' = [remaining EXCEPT ![c] = @ - 1]
        /\ pushing' = [pushing EXCEPT ![w] = IF remaining[c] = 1 THEN {c} ELSE {}]
        /\ pushing[w] = {} /\ pc[w] = "resume" /\ UNCHANGED <<vars, parents, heap, timed_out>>
    BY <1>6 DEF ReleaseChild
  <2> HIDE DEF c
  <2>3. CASE t = c
    <3>1. tx[w] \in Unreleased(c)
      BY <2>1, <2>2 DEF OneFinisher, Children, Unreleased
    <3>2. remaining[t] # 0
      BY <2>1, <2>3, <3>1, CountZero
    <3>3. status'[t] = "ReadyToExecute"
      BY <2>2, <3>2 DEF StartedWhenReleased, vars, txvars
    <3>4. remaining'[t] # 0 \/ t \in pushing'[w]
      BY <2>2, <2>3, <3>2, SMT
    <3> QED
      BY <3>3, <3>4 DEF AccountsFor, WillCome, ComesTo
  <2>4. CASE t # c
    <3>1. remaining'[t] = remaining[t] /\ t \notin pushing[w]
      BY <2>2, <2>4
    <3> QED
      BY <2>2, <3>1
         DEF AccountsFor, WillCome, ComesTo, Owns, IsAborted, Aborted, Completed, vars, txvars,
             locals
  <2> QED
    BY <2>3, <2>4
<1>7. CASE PushChild(w)
  <2> DEFINE c == Min(pushing[w])
  <2>0. pushing[w] \subseteq Txs /\ pushing[w] # {}
    BY <1>7, GraphTyping DEF PushChild
  <2>1. c \in pushing[w] /\ c \in Txs
    BY <2>0, MinInSet
  <2>2. /\ heap' = [heap EXCEPT ![c] = @ + 1]
        /\ pc[w] = "resume" /\ UNCHANGED <<vars, remaining, timed_out>>
    BY <1>7 DEF PushChild, Push
  <2> HIDE DEF c
  <2>3. heap'[t] >= heap[t] /\ (t \in pushing[w] => heap'[t] > 0)
    BY <2>1, <2>2, SMT DEF OneFinisher
  <2>4. heap[t] > 0 => heap'[t] > 0
    BY <2>1, <2>2, SMT
  <2> QED
    BY <2>2, <2>3, <2>4
       DEF AccountsFor, WillCome, ComesTo, Owns, IsAborted, Aborted, Completed, Finishing, vars,
           txvars, locals
<1>8. ASSUME NEW d \in Txs, ResumeDependentGraph(w, d) PROVE AccountsFor(w, t)
  <2>1. remaining[d] = 0 /\ tx[w] \in Txs /\ pc[w] = "resume" /\ pushing[w] = {}
    BY <1>8 DEF ResumeDependentGraph, ChildrenDone, StartedWhenReleased
  <2>2. /\ status' = [status EXCEPT ![d] = "ReadyToExecute"]
        /\ reg' = [reg EXCEPT ![w] = d] /\ pc' = [pc EXCEPT ![w] = "resumeIdx"]
        /\ \/ dependents' = dependents
           \/ dependents' = [dependents EXCEPT ![tx[w]] = @ \ {d}]
        /\ UNCHANGED <<tx, graph, abort_reason, timed_out>>
    BY <1>8, <2>1 DEF ResumeDependentGraph, SetReadyStatus, Goto
  <2>3. CASE t = d
    BY <2>2, <2>3 DEF AccountsFor, ComesTo
  <2>4. CASE t # d
    <3>1. status'[t] = status[t] /\ \A b \in Txs : t \in dependents[b] => t \in dependents'[b]
      BY <2>1, <2>2, <2>4, SMT
    <3>2. pc'[w] = "resumeIdx" /\ t \notin pushing[w]
      BY <2>1, <2>2
    <3> QED
      BY <2>1, <2>2, <3>1, <3>2
         DEF AccountsFor, WillCome, ComesTo, Owns, IsAborted, Aborted, Completed, Finishing, graph
  <2> QED
    BY <2>3, <2>4
<1>9. PushDependent(w) => AccountsFor(w, t)
  BY SMTT(30) DEF PushDependent, Push, Goto, OthersKeptGraph, Finishing, shared, txvars, graph,
         graphvars, AccountsFor, WillCome, ComesTo, Owns, IsAborted, Aborted, Completed
<1>10. ScheduleValidation(w) => AccountsFor(w, t)
  BY ScheduleEffect, SMT
     DEF ChildrenDone, Goto, OthersKeptGraph, Finishing, shared, txvars, graph, graphvars,
         AccountsFor, WillCome, ComesTo, Owns, IsAborted, Aborted, Completed
<1>11. AbortGraph(w) => AccountsFor(w, t)
  BY SMTT(30) DEF AbortGraph, TryValidationAbort, Completed, Goto, OthersKeptGraph, Finishing, shared,
         txvars, graph, graphvars, AccountsFor, WillCome, ComesTo, Owns, IsAborted, Aborted,
         Completed
<1>12. FinishAbortedGraph(w) => AccountsFor(w, t)
  BY SMT DEF FinishAbortedGraph, FinishAborted, LowerAfterAbort, SetReadyStatus, Goto,
         OthersKeptGraph, Finishing, shared, txvars, graph, graphvars, AccountsFor, WillCome,
         ComesTo, Owns, IsAborted, Aborted, Completed
<1>13. ReexecuteGraph(w) => AccountsFor(w, t)
  BY SMTT(30) DEF ReexecuteGraph, Goto, OthersKeptGraph, Finishing, shared, txvars, graph, graphvars,
         AccountsFor, WillCome, ComesTo, Owns, IsAborted, Aborted, Completed
<1>14. FinishValidatedGraph(w) => AccountsFor(w, t)
  BY SMTT(30) DEF FinishValidatedGraph, FinishValidated, Goto, OthersKeptGraph, Finishing, shared,
         txvars, graph, graphvars, AccountsFor, WillCome, ComesTo, Owns, IsAborted, Aborted,
         Completed
<1>15. \A f \in {{}, WroteNewLocation} : ExecuteOkGraph(w, f) => AccountsFor(w, t)
  BY SMT DEF ExecuteOkGraph, ExecuteOk, Goto, OthersKeptGraph, Finishing, shared, txvars, graph,
         graphvars, AccountsFor, WillCome, ComesTo, Owns, IsAborted, Aborted, Completed
<1> QED
  BY <1>q, <1>1, <1>2, <1>3, <1>4, <1>5, <1>6, <1>7, <1>8, <1>9, <1>10, <1>11, <1>12, <1>13,
     <1>14, <1>15
     DEF LoudGraph

\* No transaction is left behind: the tasks of the other workers are not touched.
LEMMA SomebodyComesStep ==
    ASSUME GraphTypeOK, OneFinisher, RemainingIsExact, StartedWhenReleased, ResultsFollow,
           SomebodyComes, NEW w \in Workers, GraphStep(w) \/ GraphVmStep(w) \/ TimeOut(w)
    PROVE  SomebodyComes'
<1> SUFFICES ASSUME NEW t \in Txs, ~(WillCome(t)' \/ ComesTo(w, t)')
             PROVE  \E v \in Workers : ComesTo(v, t)'
  BY DEF SomebodyComes
<1>1. status'[t] = status[t] /\ ~WillCome(t) /\ ~ComesTo(w, t)
  BY AccountStep DEF AccountsFor
<1>2. PICK v \in Workers : v # w /\ ComesTo(v, t)
  BY <1>1 DEF SomebodyComes
<1>3. pc'[v] = pc[v] /\ tx'[v] = tx[v] /\ reg'[v] = reg[v] /\ pushing'[v] = pushing[v]
  BY <1>2, GraphTypeStep DEF OthersKeptGraph
<1>4. ComesTo(v, t)'
  BY <1>1, <1>2, <1>3 DEF ComesTo, Owns
<1> QED
  BY <1>4

-----------------------------------------------------------------------------
\* GraphScheduler::new establishes the invariant: the roots are in the heap.
LEMMA GraphInitIInv == GraphInit => GraphIInv
<1> SUFFICES ASSUME GraphInit PROVE GraphIInv
  OBVIOUS
<1>   parents \in [Txs -> SUBSET Txs]
  BY GraphsAssumption DEF GraphInit
<1>1. \A c \in Txs : IsFiniteSet(parents[c]) /\ Cardinality(parents[c]) \in Nat
  <2> SUFFICES ASSUME NEW c \in Txs PROVE IsFiniteSet(parents[c]) /\ Cardinality(parents[c]) \in Nat
    OBVIOUS
  <2>1. parents[c] \subseteq Txs
    OBVIOUS
  <2> QED
    BY <2>1, TxsFinite, FS_Subset, FS_CardinalityType
<1>2. GraphTypeOK
  BY <1>1, GraphTxs, BlockSizeAssumption, SMTT(30)
     DEF GraphInit, Init, GraphTypeOK, GraphTypes, RegistersOK, Counters, Signed, TxPairs,
         TxSets, ResultSets, FlagSets, FailedSets, IncarnationStatus, GraphPCs, PCs
<1>3. OneFinisher /\ StartedWhenReleased /\ ResultsFollow
  BY SMT DEF GraphInit, Init, OneFinisher, StartedWhenReleased, ResultsFollow, Owns, Completed,
         Finishing
<1>4. RemainingIsExact
  <2> SUFFICES ASSUME NEW c \in Txs PROVE remaining[c] = Cardinality(Unreleased(c))
    BY DEF RemainingIsExact
  <2>1. Unreleased(c) = parents[c]
    BY DEF GraphInit, Unreleased
  <2> QED
    BY <2>1 DEF GraphInit
<1>5. SomebodyComes
  <2> SUFFICES ASSUME NEW t \in Txs PROVE remaining[t] # 0 \/ heap[t] > 0
    BY DEF SomebodyComes, WillCome, GraphInit, Init
  <2>1. remaining[t] = Cardinality(parents[t]) /\ (parents[t] = {} => heap[t] > 0)
    BY SMT DEF GraphInit
  <2> QED
    BY <1>1, <2>1, FS_EmptySet
<1>6. HeapWatched
  BY WorkersAssumption DEF GraphInit, Init, HeapWatched, Leaving
<1> QED
  BY <1>2, <1>3, <1>4, <1>5, <1>6 DEF GraphIInv

\* Every step of every worker keeps the invariant.
LEMMA GraphNextIInv == GraphIInv /\ [GraphNext]_<<vars, graphvars>> => GraphIInv'
<1> SUFFICES ASSUME GraphIInv, [GraphNext]_<<vars, graphvars>> PROVE GraphIInv'
  OBVIOUS
<1>   /\ GraphTypeOK /\ OneFinisher /\ RemainingIsExact /\ StartedWhenReleased
      /\ ResultsFollow /\ SomebodyComes /\ HeapWatched
  BY DEF GraphIInv
<1>1. ASSUME NEW w \in Workers, GraphStep(w) \/ GraphVmStep(w) \/ TimeOut(w) PROVE GraphIInv'
  <2>1. GraphTypeOK' /\ OneFinisher' /\ RemainingIsExact'
    BY <1>1, GraphTypeStep, FinisherStep, ExactStep
  <2>2. StartedWhenReleased' /\ ResultsFollow'
    BY <1>1, StartedStep, ResultsFollowStep
  <2>3. SomebodyComes' /\ HeapWatched'
    BY <1>1, SomebodyComesStep, HeapWatchedStep
  <2> QED
    BY <2>1, <2>2, <2>3 DEF GraphIInv
<1>2. CASE UNCHANGED <<vars, graphvars>>
  <2>q. /\ UNCHANGED <<execution_idx, validation_idx, min_validation_idx, num_validated>>
        /\ UNCHANGED <<status, incarnation, dependents, abort_reason, execution_results>>
        /\ UNCHANGED <<pc, tx, version, reg, flags>>
        /\ UNCHANGED <<parents, heap, remaining, released, children, pushing>>
        /\ UNCHANGED <<repeats, timed_out, last_failed>>
    BY <1>2 DEF vars, shared, txvars, locals, graphvars, graph
  <2>1. GraphTypeOK'
    BY <2>q DEF GraphTypeOK, GraphTypes, RegistersOK
  <2>f. OneFinisher'
    BY <2>q, SMTT(30) DEF OneFinisher, Children
  <2>2. RemainingIsExact' /\ StartedWhenReleased'
    BY <2>q DEF RemainingIsExact, Unreleased, StartedWhenReleased, Owns
  <2>3. ResultsFollow' /\ HeapWatched'
    BY <2>q DEF ResultsFollow, HeapWatched, Completed, IsAborted, Aborted
  <2>4. SomebodyComes'
    BY <2>q, SMT DEF SomebodyComes, WillCome, ComesTo, Owns, Completed, IsAborted, Aborted
  <2> QED
    BY <2>1, <2>f, <2>2, <2>3, <2>4 DEF GraphIInv
<1> QED
  BY <1>1, <1>2 DEF GraphNext, GraphJoined, Joined

\* The invariant holds of every behaviour.
THEOREM GraphInvariance == GraphSpec => []GraphIInv
BY GraphInitIInv, GraphNextIInv, PTL DEF GraphSpec

\* A transaction is executed only after its parents in the dependency graph, by
\* whichever of the three ways a worker comes to it, and remaining_dependencies never
\* wraps: each parent releases a child once, however often it is executed.
THEOREM ParentsExecutedFirst == GraphSpec => []ParentsFirst
<1>1. GraphIInv => ParentsFirst
  <2> SUFFICES ASSUME GraphIInv, NEW t \in Txs, status[t] # "ReadyToExecute" \/ incarnation[t] > 0
               PROVE  remaining[t] = 0 /\ \A p \in parents[t] : execution_results[p] # {}
    BY DEF ParentsFirst, GraphIInv
  <2>1. remaining[t] = 0
    BY DEF GraphIInv, StartedWhenReleased
  <2>2. Unreleased(t) = {} /\ parents[t] \subseteq Txs
    <3>1. GraphTypeOK /\ RemainingIsExact
      BY DEF GraphIInv
    <3> QED
      BY <2>1, <3>1, CountZero, UnreleasedFinite
  <2>3. \A p \in parents[t] : released[p]
    BY <2>2 DEF Unreleased
  <2> QED
    BY <2>1, <2>2, <2>3 DEF GraphIInv, ResultsFollow
<1> QED
  BY <1>1, GraphInvariance, PTL

\* Among the transactions that are not through there is a first one.
LEMMA FirstNotThrough ==
    ASSUME NEW t \in Txs, ~Completed(t)
    PROVE  \E x \in Txs : ~Completed(x) /\ \A y \in Txs : y < x => Completed(y)
<1> DEFINE S == {x \in Txs : ~Completed(x)}
<1>1. Min(S) \in S /\ \A y \in S : Min(S) <= y
  BY MinInSet
<1> QED
  BY <1>1, GraphTxs, SMT

\* When all workers returned and nobody aborted, every transaction is through.  A
\* first one that is not would be in the heap, which is empty, or have a parent or
\* wait for a transaction that is not through either, and these are lower.
LEMMA JoinedThrough ==
    ASSUME GraphIInv, AllDone, ~IsAborted
    PROVE  \A t \in Txs : Completed(t)
<1> SUFFICES ASSUME NEW t \in Txs, ~Completed(t) PROVE FALSE
  OBVIOUS
<1>   /\ GraphTypeOK
      /\ OneFinisher
      /\ RemainingIsExact
      /\ ResultsFollow
      /\ SomebodyComes
      /\ HeapWatched
  BY DEF GraphIInv
<1>1. \A w \in Workers : pc[w] = "done" /\ children[w] = {} /\ pushing[w] = {}
  BY DEF AllDone, OneFinisher
<1>2. \A x \in Txs : ~(heap[x] > 0)
  BY <1>1 DEF HeapWatched, Leaving
<1>3. PICK x \in Txs : ~Completed(x) /\ \A y \in Txs : y < x => Completed(y)
  BY FirstNotThrough
<1>4. WillCome(x)
  BY <1>1 DEF SomebodyComes, ComesTo, Owns, Finishing
<1>5. CASE status[x] = "ReadyToExecute"
  <2>1. remaining[x] # 0
    BY <1>2, <1>3, <1>4, <1>5 DEF WillCome
  <2>2. PICK p \in parents[x] : ~released[p]
    BY <1>1, <2>1, CountZero DEF Unreleased
  <2>3. p \in Txs /\ p < x
    BY GraphsAssumption, GraphTyping
  <2> QED
    BY <1>3, <2>2, <2>3 DEF ResultsFollow
<1>6. CASE status[x] # "ReadyToExecute"
  <2>1. PICK b \in Txs : x \in dependents[b]
    BY <1>3, <1>4, <1>6 DEF WillCome
  <2> QED
    BY <1>3, <2>1 DEF ResultsFollow
<1> QED
  BY <1>5, <1>6

\* When the scope of GraphPevm::execute_revm_parallel joins its workers and nobody has
\* aborted, every transaction has a result, so that the unwrap on it does not panic,
\* although the workers may leave before the last execution ends.
THEOREM GraphJoinedCorrect == GraphSpec => []GraphJoinedHasResults
<1>1. GraphIInv => GraphJoinedHasResults
  BY JoinedThrough DEF GraphIInv, ResultsFollow, GraphJoinedHasResults
<1> QED
  BY <1>1, GraphInvariance, PTL
=============================================================================
