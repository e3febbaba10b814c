------------------------- MODULE GraphSchedulerSteps ------------------------
(***************************************************************************)
(* For GraphSchedulerProofs: the inductive invariant of GraphScheduler and *)
(* what the single steps do to it.                                         *)
(*                                                                         *)
(* The facts about single executors of module SchedulerProofs do not carry *)
(* over: try_execute also takes a transaction that aborts, so that two     *)
(* workers may execute one transaction.  What does hold is that the        *)
(* mutex admits one worker to finish_execution (OneFinisher), that a       *)
(* count that reached 0 stays there (StartedWhenReleased), and that a      *)
(* transaction that is not through has somebody to come to it              *)
(* (SomebodyComes).                                                        *)
(***************************************************************************)
EXTENDS GraphScheduler, TLAPS, WellFoundedInduction

\* Zenon is the prover of a leaf that does not name another one.
USE Zenon

\* The program counters of a worker: those of module Scheduler, and those of
\* check_all_done and of the search for an execution to steal.
GraphPCs == PCs \cup {"checkHeap", "checkValid", "peekHeap", "pop", "steal", "classify"}

\* The sets of values, under names of their own: that a step keeps the types needs no
\* more than GraphValues and the lemmas after it say about them.
Counters == Nat
Signed == Int
TxPairs == Txs \X Txs
TxSets == SUBSET Txs
ResultSets == SUBSET Nat
FlagSets == SUBSET {0}
FailedSets == SUBSET Int

\* The register is an index of the block where it is used as one.
RegistersOK ==
    \A w \in Workers :
        /\ pc[w] = "resumeIdx" => reg[w] \in Txs
        /\ pc[w] = "block" => reg[w] \in Txs /\ reg[w] < tx[w]
        /\ pc[w] # "lowerMin"

\* Every index a worker uses is an index of the block.
GraphTypes ==
    /\ validation_idx \in Counters
    /\ min_validation_idx \in Counters
    /\ num_validated \in Signed
    /\ status \in [Txs -> IncarnationStatus]
    /\ incarnation \in [Txs -> Counters]
    /\ dependents \in [Txs -> TxSets]
    /\ execution_results \in [Txs -> ResultSets]
    /\ pc \in [Workers -> GraphPCs]
    /\ tx \in [Workers -> Txs]
    /\ version \in [Workers -> Counters]
    /\ reg \in [Workers -> Signed]
    /\ flags \in [Workers -> FlagSets]
    /\ parents \in Graphs
    /\ heap \in [Txs -> Counters]
    /\ remaining \in [Txs -> Signed]
    /\ released \in [Txs -> BOOLEAN]
    /\ children \in [Workers -> TxSets]
    /\ pushing \in [Workers -> TxSets]
    /\ repeats \in [TxPairs -> Counters]
    /\ last_failed \in [Workers -> FailedSets]
    /\ RegistersOK

\* The same under the name that the lemmas use.
GraphTypeOK == GraphTypes

\* The mutex of a transaction admits one worker to finish_execution, and the
\* children it releases are those of its transaction.
OneFinisher ==
    /\ \A v, w \in Workers :
          pc[v] \in Finishing /\ pc[w] \in Finishing /\ tx[v] = tx[w] => v = w
    /\ \A w \in Workers : pc[w] \in Finishing => released[tx[w]]
    /\ \A w \in Workers : pc[w] # "resume" => children[w] = {} /\ pushing[w] = {}
    /\ \A w \in Workers : children[w] \subseteq Children(tx[w])
    /\ \A w \in Workers : \A c, d \in pushing[w] : c = d

\* Whatever has been handed out for execution has no parent left.
StartedWhenReleased ==
    /\ \A t \in Txs : status[t] # "ReadyToExecute" \/ incarnation[t] > 0 => remaining[t] = 0
    /\ \A w \in Workers : Owns(w) \/ pc[w] = "ready" => remaining[tx[w]] = 0
    /\ \A b \in Txs : \A d \in dependents[b] : remaining[d] = 0
    /\ \A w \in Workers : \A c \in pushing[w] : remaining[c] = 0

\* A transaction that released its children has a result, and one that is through
\* has released its children and resumed its dependents.
ResultsFollow ==
    /\ \A t \in Txs : released[t] => execution_results[t] # {}
    /\ \A t \in Txs : Completed(t) => released[t] /\ dependents[t] = {}
    /\ \A w \in Workers : pc[w] \in {"checkIdx", "lowerMin", "lowerNext"} => dependents[tx[w]] = {}
    /\ \A b \in Txs : \A d \in dependents[b] : b < d

\* Somebody comes to t: the heap, a lower transaction, ...
WillCome(t) ==
    \/ status[t] = "ReadyToExecute" /\ (remaining[t] # 0 \/ heap[t] > 0)
    \/ status[t] \in {"Executing", "Aborting"} /\ IsAborted
    \/ status[t] = "Aborting" /\ \E b \in Txs : t \in dependents[b]
    \/ Completed(t)

\* ... or worker w.
ComesTo(w, t) ==
    \/ /\ status[t] = "ReadyToExecute"
       /\ \/ t \in pushing[w]
          \/ pc[w] = "resumeIdx" /\ reg[w] = t
          \/ pc[w] \in {"lowerAborted", "loadAborted", "retryExec", "tryExec"} /\ tx[w] = t
    \/ status[t] = "Executing" /\ Owns(w) /\ tx[w] = t
    \/ status[t] = "Aborting" /\ pc[w] = "ready" /\ tx[w] = t

SomebodyComes == \A t \in Txs : WillCome(t) \/ \E w \in Workers : ComesTo(w, t)

\* Past the look at the heap in check_all_done.
Leaving == {"checkValid", "loadCount", "loadMin", "done"}

\* The heap is not left alone with transactions in it.
HeapWatched ==
    (\E t \in Txs : heap[t] > 0) /\ ~IsAborted => \E w \in Workers : pc[w] \notin Leaving

GraphIInv ==
    /\ GraphTypeOK
    /\ OneFinisher
    /\ RemainingIsExact
    /\ StartedWhenReleased
    /\ ResultsFollow
    /\ SomebodyComes
    /\ HeapWatched

-----------------------------------------------------------------------------
(* The block, the graph and what a step leaves alone *)

\* The transactions are the numbers below the block size.
LEMMA GraphTxs ==
    /\ \A t \in Txs : t \in Nat /\ t < BlockSize
    /\ \A n \in Nat : n < BlockSize => n \in Txs
    /\ 0 \in Txs
BY BlockSizeAssumption, SMT DEF Txs

\* fetch_min leaves one of the two values.
LEMMA LowerIsNat ==
    ASSUME NEW a \in Nat, NEW b \in Nat
    PROVE  Lower(a, b) \in Nat
BY DEF Lower

\* The first transaction of a heap, and the first child of a list, is in it.
LEMMA MinInSet ==
    ASSUME NEW S, S \subseteq Txs, S # {}
    PROVE  Min(S) \in S /\ \A y \in S : Min(S) <= y
<1> DEFINE R == {ss \in Nat \X Nat : ss[1] < ss[2]}
<1>1. S \subseteq Nat
  BY GraphTxs
<1>2. IsWellFoundedOn(R, Nat)
  BY NatLessThanWellFounded DEF OpToRel
<1>3. PICK x \in S : \A y \in S : ~(<<y, x>> \in R)
  <2> HIDE DEF R
  <2> QED
    BY <1>1, <1>2, WFMin
<1>4. ASSUME NEW y \in S PROVE x <= y
  <2>1. <<y, x>> \in Nat \X Nat /\ y \in Nat /\ x \in Nat
    BY <1>1
  <2>2. ~(y < x)
    BY <1>3, <2>1
  <2> QED
    BY <2>1, <2>2, SMT
<1> QED
  BY <1>3, <1>4 DEF Min

\* The values the actions name are of their types.
LEMMA GraphValues ==
    /\ "next" \in GraphPCs /\ "checkHeap" \in GraphPCs /\ "checkValid" \in GraphPCs
    /\ "loadCount" \in GraphPCs /\ "loadMin" \in GraphPCs /\ "loadValid" \in GraphPCs
    /\ "peekHeap" \in GraphPCs /\ "takeValid" \in GraphPCs /\ "lockValid" \in GraphPCs
    /\ "steal" \in GraphPCs /\ "classify" \in GraphPCs /\ "pop" \in GraphPCs
    /\ "tryExec" \in GraphPCs /\ "retryExec" \in GraphPCs /\ "execute" \in GraphPCs
    /\ "block" \in GraphPCs /\ "resume" \in GraphPCs /\ "resumeIdx" \in GraphPCs
    /\ "checkIdx" \in GraphPCs /\ "lowerNext" \in GraphPCs /\ "validate" \in GraphPCs
    /\ "abort" \in GraphPCs /\ "accept" \in GraphPCs /\ "ready" \in GraphPCs
    /\ "lowerAborted" \in GraphPCs /\ "loadAborted" \in GraphPCs /\ "done" \in GraphPCs
    /\ "gotNone" \in GraphPCs /\ "gotExecution" \in GraphPCs /\ "gotValidation" \in GraphPCs
    /\ "Executing" \in IncarnationStatus /\ "Executed" \in IncarnationStatus
    /\ "Validated" \in IncarnationStatus /\ "Aborting" \in IncarnationStatus
    /\ "ReadyToExecute" \in IncarnationStatus
    /\ 0 \in Txs /\ 0 \in Counters /\ 0 \in Signed
    /\ {} \in TxSets /\ {} \in FlagSets /\ {} \in FailedSets
BY GraphTxs, SMT DEF GraphPCs, PCs, Finishing, IncarnationStatus, Counters, Signed, TxSets,
                FlagSets, FailedSets

\* So is what the actions compute: with the counters, ...
LEMMA CounterSteps ==
    \A n \in Counters : /\ n \in Signed /\ n + 0 \in Counters /\ n + 1 \in Counters
                        /\ n > 0 \/ n # 0 => n - 1 \in Counters
                        /\ {n} \in ResultSets
BY SMT DEF Counters, Signed, ResultSets

\* ... with num_validated and the counts of parents, which the code may wrap, ...
LEMMA SignedSteps ==
    \A n \in Signed : n + 1 \in Signed /\ n - 1 \in Signed
BY SMT DEF Signed

\* ... with the indices of the block, ...
LEMMA IndexSteps ==
    /\ \A t \in Txs : t \in Signed /\ {t} \in FailedSets
    /\ \A n \in Counters : n < BlockSize => n \in Txs
BY GraphTxs, SMT DEF Counters, Signed, FailedSets

\* ... with fetch_min ...
LEMMA LowerSteps ==
    ASSUME NEW t \in Txs, NEW n \in Counters
    PROVE  /\ Lower(n, t) \in Counters /\ Lower(n, t + 1) \in Counters
           /\ ~(Lower(n, t) >= BlockSize) /\ ~(t < Lower(n, t))
BY GraphTxs, BlockSizeAssumption, SMT DEF Counters, Lower

\* ... and with the sets of dependents.
LEMMA SetSteps ==
    ASSUME NEW t \in Txs, NEW u \in Txs
    PROVE  /\ \A T \in TxSets : T \ {t} \in TxSets /\ T \cup {t} \in TxSets
           /\ <<t, u>> \in TxPairs
BY DEF TxSets, TxPairs

\* What a step of w leaves alone in the other workers.
OthersKeptGraph(w) ==
    \A v \in Workers : v # w =>
        /\ pc'[v] = pc[v] /\ tx'[v] = tx[v] /\ reg'[v] = reg[v]
        /\ children'[v] = children[v] /\ pushing'[v] = pushing[v]

\* ... of a step of w: the types hold after it, and the other workers' locals are as before.
TypesKept(w) == GraphTypes' /\ OthersKeptGraph(w)

\* next_task reads the abort flag.
LEMMA GraphNextTaskTypes ==
    ASSUME GraphTypeOK, NEW w \in Workers, GraphNextTask(w)
    PROVE  TypesKept(w)
<1> SUFFICES ASSUME GraphTypes PROVE GraphTypes' /\ OthersKeptGraph(w)
  BY DEF GraphTypeOK, TypesKept
<1> QED
  BY GraphValues DEF GraphNextTask, Goto, GraphTypes, RegistersOK, OthersKeptGraph,
     shared, txvars, graph, graphvars

\* next_task gives up after a second.
LEMMA TimeOutTypes ==
    ASSUME GraphTypeOK, NEW w \in Workers, TimeOut(w)
    PROVE  TypesKept(w)
<1> SUFFICES ASSUME GraphTypes PROVE GraphTypes' /\ OthersKeptGraph(w)
  BY DEF GraphTypeOK, TypesKept
<1> QED
  BY GraphValues DEF TimeOut, Goto, GraphTypes, RegistersOK, OthersKeptGraph, shared,
     txvars, graph, graphvars

\* check_all_done looks at the heap ...
LEMMA CheckHeapTypes ==
    ASSUME GraphTypeOK, NEW w \in Workers, CheckHeap(w)
    PROVE  TypesKept(w)
<1> SUFFICES ASSUME GraphTypes PROVE GraphTypes' /\ OthersKeptGraph(w)
  BY DEF GraphTypeOK, TypesKept
<1> QED
  BY GraphValues DEF CheckHeap, Goto, GraphTypes, RegistersOK, OthersKeptGraph, shared,
     txvars, graph, graphvars

\* ... at the validation index ...
LEMMA CheckValidTypes ==
    ASSUME GraphTypeOK, NEW w \in Workers, CheckValid(w)
    PROVE  TypesKept(w)
<1> SUFFICES ASSUME GraphTypes PROVE GraphTypes' /\ OthersKeptGraph(w)
  BY DEF GraphTypeOK, TypesKept
<1> QED
  BY GraphValues DEF CheckValid, Goto, GraphTypes, RegistersOK, OthersKeptGraph, shared,
     txvars, graph, graphvars

\* ... loads the count ...
LEMMA CountLoadedTypes ==
    ASSUME GraphTypeOK, NEW w \in Workers, CountLoaded(w)
    PROVE  TypesKept(w)
<1> SUFFICES ASSUME GraphTypes PROVE GraphTypes' /\ OthersKeptGraph(w)
  BY DEF GraphTypeOK, TypesKept
<1> QED
  BY GraphValues DEF CountLoaded, LoadNumValidated, Goto, GraphTypes, RegistersOK,
     OthersKeptGraph, shared, txvars, graph, graphvars

\* ... and compares it.
LEMMA CheckCountTypes ==
    ASSUME GraphTypeOK, NEW w \in Workers, CheckCount(w)
    PROVE  TypesKept(w)
<1> SUFFICES ASSUME GraphTypes PROVE GraphTypes' /\ OthersKeptGraph(w)
  BY DEF GraphTypeOK, TypesKept
<1> QED
  BY GraphValues DEF CheckCount, Goto, GraphTypes, RegistersOK, OthersKeptGraph, shared,
     txvars, graph, graphvars

\* try_validation_task loads the validation index ...
LEMMA LoadValidationTypes ==
    ASSUME GraphTypeOK, NEW w \in Workers, LoadValidation(w)
    PROVE  TypesKept(w)
<1> SUFFICES ASSUME GraphTypes PROVE GraphTypes' /\ OthersKeptGraph(w)
  BY DEF GraphTypeOK, TypesKept
<1>1. validation_idx \in Signed
  BY CounterSteps DEF GraphTypes
<1> QED
  BY GraphValues, <1>1 DEF LoadValidation, Goto, GraphTypes, RegistersOK, OthersKeptGraph,
     shared, txvars, graph, graphvars

\* ... compares it with the first of the heap ...
LEMMA PeekHeapTypes ==
    ASSUME GraphTypeOK, NEW w \in Workers, PeekHeap(w)
    PROVE  TypesKept(w)
<1> SUFFICES ASSUME GraphTypes PROVE GraphTypes' /\ OthersKeptGraph(w)
  BY DEF GraphTypeOK, TypesKept
<1> QED
  BY GraphValues DEF PeekHeap, Goto, GraphTypes, RegistersOK, OthersKeptGraph, shared,
     txvars, graph, graphvars

\* ... and takes it.
LEMMA TakeValidationTypes ==
    ASSUME GraphTypeOK, NEW w \in Workers, TakeValidation(w)
    PROVE  TypesKept(w)
<1> SUFFICES ASSUME GraphTypes PROVE GraphTypes' /\ OthersKeptGraph(w)
  BY DEF GraphTypeOK, TypesKept
<1>1. /\ validation_idx + 1 \in Counters
      /\ validation_idx < BlockSize => validation_idx \in Txs
  BY CounterSteps, IndexSteps DEF GraphTypes
<1> QED
  BY GraphValues, <1>1, SMT DEF TakeValidation, Goto, GraphTypes, RegistersOK, OthersKeptGraph,
     shared, txvars, graph, graphvars

\* It looks for an execution to steal ...
LEMMA LookForStealTypes ==
    ASSUME GraphTypeOK, NEW w \in Workers, LookForSteal(w)
    PROVE  TypesKept(w)
<1> SUFFICES ASSUME GraphTypes PROVE GraphTypes' /\ OthersKeptGraph(w)
  BY DEF GraphTypeOK, TypesKept
<1> QED
  BY GraphValues DEF LookForSteal, Goto, GraphTypes, RegistersOK, OthersKeptGraph, shared,
     txvars, graph, graphvars

\* ... steals it ...
LEMMA StealTypes ==
    ASSUME GraphTypeOK, NEW w \in Workers, Steal(w)
    PROVE  TypesKept(w)
<1> SUFFICES ASSUME GraphTypes PROVE GraphTypes' /\ OthersKeptGraph(w)
  BY DEF GraphTypeOK, TypesKept
<1>1. tx[w] \in Txs /\ incarnation[tx[w]] \in Counters
  BY DEF GraphTypes
<1> QED
  BY GraphValues, <1>1, SMT DEF Steal, StartExecution, Goto, GraphTypes, RegistersOK,
     OthersKeptGraph, shared, txvars, graph, graphvars

\* ... or validates what is executed.
LEMMA ClassifyTypes ==
    ASSUME GraphTypeOK, NEW w \in Workers, Classify(w)
    PROVE  TypesKept(w)
<1> SUFFICES ASSUME GraphTypes PROVE GraphTypes' /\ OthersKeptGraph(w)
  BY DEF GraphTypeOK, TypesKept
<1>1. tx[w] \in Txs /\ incarnation[tx[w]] \in Counters
  BY DEF GraphTypes
<1> QED
  BY GraphValues, <1>1, SMT DEF Classify, Goto, GraphTypes, RegistersOK, OthersKeptGraph,
     shared, txvars, graph, graphvars

\* try_execution_task takes the first of the heap.
LEMMA PopTypes ==
    ASSUME GraphTypeOK, NEW w \in Workers, Pop(w)
    PROVE  TypesKept(w)
<1> SUFFICES ASSUME GraphTypes PROVE GraphTypes' /\ OthersKeptGraph(w)
  BY DEF GraphTypeOK, TypesKept
<1>1. ASSUME NEW t \in Txs PROVE heap[t] > 0 => heap[t] - 1 \in Counters
  BY CounterSteps DEF GraphTypes
<1> DEFINE S == {t \in Txs : heap[t] > 0}
<1>2. S # {} => Min(S) \in Txs /\ heap[Min(S)] - 1 \in Counters
  BY <1>1, MinInSet
<1>3. \/ heap' = heap /\ tx' = tx /\ Goto(w, "next")
      \/ /\ Min(S) \in Txs /\ heap[Min(S)] - 1 \in Counters
         /\ heap' = [heap EXCEPT ![Min(S)] = @ - 1]
         /\ tx' = [tx EXCEPT ![w] = Min(S)] /\ Goto(w, "tryExec")
  BY <1>2 DEF Pop
<1>4. UNCHANGED <<shared, txvars, execution_results, version, reg, flags, parents, remaining,
                  released, children, pushing, repeats, last_failed>>
  BY DEF Pop
<1> HIDE DEF S
<1> QED
  BY GraphValues, <1>3, <1>4, SMT DEF Goto, GraphTypes, RegistersOK, OthersKeptGraph,
     shared, txvars, graph, graphvars

\* try_execute starts the execution, or drops the task.
LEMMA TryExecuteGraphTypes ==
    ASSUME GraphTypeOK, NEW w \in Workers, TryExecuteGraph(w)
    PROVE  TypesKept(w)
<1> SUFFICES ASSUME GraphTypes PROVE GraphTypes' /\ OthersKeptGraph(w)
  BY DEF GraphTypeOK, TypesKept
<1>1. /\ tx[w] \in Txs /\ incarnation[tx[w]] \in Counters /\ incarnation[tx[w]] + 1 \in Counters
      /\ incarnation[tx[w]] + 0 \in Counters
  BY CounterSteps DEF GraphTypes
<1> QED
  BY GraphValues, <1>1, SMT DEF TryExecuteGraph, Goto, GraphTypes, RegistersOK,
     OthersKeptGraph, shared, txvars, graph, graphvars

\* add_dependency registers a dependent, or retries.
LEMMA AddDependencyGraphTypes ==
    ASSUME GraphTypeOK, NEW w \in Workers, AddDependencyGraph(w)
    PROVE  TypesKept(w)
<1> SUFFICES ASSUME GraphTypes PROVE GraphTypes' /\ OthersKeptGraph(w)
  BY DEF GraphTypeOK, TypesKept
<1>1. reg[w] \in Txs /\ tx[w] \in Txs
  BY DEF AddDependencyGraph, GraphTypes, RegistersOK
<1>2. dependents[reg[w]] \in TxSets /\ \A p \in TxPairs : repeats[p] \in Counters
  BY <1>1 DEF GraphTypes
<1>3. /\ {reg[w]} \in FailedSets /\ dependents[reg[w]] \cup {tx[w]} \in TxSets
      /\ <<reg[w], tx[w]>> \in TxPairs /\ repeats[<<reg[w], tx[w]>>] + 1 \in Counters
  BY <1>1, <1>2, CounterSteps, IndexSteps, SetSteps
<1>4. /\ \E l \in {"execute", "gotNone"} : Goto(w, l)
      /\ \E F \in FailedSets : last_failed' = [last_failed EXCEPT ![w] = F]
      /\ reg' = [reg EXCEPT ![w] = 0]
      /\ UNCHANGED <<shared, incarnation, execution_results, tx, version, flags, graph>>
  BY <1>3, GraphValues DEF AddDependencyGraph
<1>5. \/ UNCHANGED <<status, dependents, repeats>>
      \/ /\ status' = [status EXCEPT ![tx[w]] = "Aborting"]
         /\ dependents' = [dependents EXCEPT ![reg[w]] = @ \cup {tx[w]}]
         /\ \/ repeats' = [repeats EXCEPT ![<<reg[w], tx[w]>>] = @ + 1]
            \/ repeats' = [repeats EXCEPT ![<<reg[w], tx[w]>>] = @]
  BY DEF AddDependencyGraph
<1>6. status' \in [Txs -> IncarnationStatus] /\ dependents' \in [Txs -> TxSets]
  <2>1. status \in [Txs -> IncarnationStatus] /\ dependents \in [Txs -> TxSets]
    BY DEF GraphTypes
  <2>2. "Aborting" \in IncarnationStatus
    BY GraphValues
  <2> QED
    BY <1>1, <1>3, <1>5, <2>1, <2>2
<1>7. repeats' \in [TxPairs -> Counters]
  BY <1>2, <1>3, <1>5 DEF GraphTypes
<1>8. /\ pc' \in [Workers -> GraphPCs] /\ pc'[w] \in {"execute", "gotNone"}
      /\ \A v \in Workers : v # w => pc'[v] = pc[v] /\ reg'[v] = reg[v]
      /\ reg' \in [Workers -> Signed] /\ last_failed' \in [Workers -> FailedSets]
  BY <1>4, GraphValues, SMT DEF GraphTypes, Goto
<1> QED
  BY <1>4, <1>6, <1>7, <1>8 DEF GraphTypes,
     RegistersOK, OthersKeptGraph, shared, txvars, graph, graphvars

\* finish_execution releases a child ...
LEMMA ReleaseChildTypes ==
    ASSUME GraphTypeOK, NEW w \in Workers, ReleaseChild(w)
    PROVE  TypesKept(w)
<1> SUFFICES ASSUME GraphTypes PROVE GraphTypes' /\ OthersKeptGraph(w)
  BY DEF GraphTypeOK, TypesKept
<1>1. children[w] \subseteq Txs /\ children[w] # {} /\ \A t \in Txs : remaining[t] \in Signed
  BY DEF ReleaseChild, GraphTypes, TxSets
<1>2. /\ Min(children[w]) \in Txs /\ remaining[Min(children[w])] - 1 \in Signed
      /\ children[w] \ {Min(children[w])} \in TxSets /\ {Min(children[w])} \in TxSets
  BY <1>1, MinInSet, SignedSteps DEF TxSets
<1> QED
  BY GraphValues, <1>2 DEF ReleaseChild, vars, locals, Goto, GraphTypes, RegistersOK,
     OthersKeptGraph, shared, txvars, graph, graphvars

\* ... pushes it if it was the last parent ...
LEMMA PushChildTypes ==
    ASSUME GraphTypeOK, NEW w \in Workers, PushChild(w)
    PROVE  TypesKept(w)
<1> SUFFICES ASSUME GraphTypes PROVE GraphTypes' /\ OthersKeptGraph(w)
  BY DEF GraphTypeOK, TypesKept
<1>1. pushing[w] \subseteq Txs /\ pushing[w] # {} /\ \A t \in Txs : heap[t] \in Counters
  BY DEF PushChild, GraphTypes, TxSets
<1>2. Min(pushing[w]) \in Txs /\ heap[Min(pushing[w])] + 1 \in Counters
  BY <1>1, MinInSet, CounterSteps
<1> QED
  BY GraphValues, <1>2 DEF PushChild, Push, vars, locals, Goto, GraphTypes, RegistersOK,
     OthersKeptGraph, shared, txvars, graph, graphvars

\* ... makes a dependent ready ...
LEMMA ResumeTypes ==
    ASSUME GraphTypeOK, NEW w \in Workers, NEW d \in Txs, ResumeDependentGraph(w, d)
    PROVE  TypesKept(w)
<1> SUFFICES ASSUME GraphTypes PROVE GraphTypes' /\ OthersKeptGraph(w)
  BY DEF GraphTypeOK, TypesKept
<1>1. /\ tx[w] \in Txs /\ dependents[tx[w]] \in TxSets /\ incarnation[d] \in Counters
      /\ \A p \in TxPairs : repeats[p] \in Counters
  BY DEF GraphTypes
<1>2. /\ d \in Signed /\ incarnation[d] + 1 \in Counters
      /\ <<tx[w], d>> \in TxPairs /\ dependents[tx[w]] \ {d} \in TxSets
      /\ repeats[<<tx[w], d>>] # 0 => repeats[<<tx[w], d>>] - 1 \in Counters
  BY <1>1, CounterSteps, IndexSteps, SetSteps
<1> QED
  BY GraphValues, <1>1, <1>2, SMTT(30) DEF ResumeDependentGraph, SetReadyStatus, Goto, GraphTypes,
     RegistersOK, OthersKeptGraph, shared, txvars, graph, graphvars

\* ... and pushes it.
LEMMA PushDependentTypes ==
    ASSUME GraphTypeOK, NEW w \in Workers, PushDependent(w)
    PROVE  TypesKept(w)
<1> SUFFICES ASSUME GraphTypes PROVE GraphTypes' /\ OthersKeptGraph(w)
  BY DEF GraphTypeOK, TypesKept
<1>1. reg[w] \in Txs /\ heap[reg[w]] + 1 \in Counters
  BY CounterSteps DEF GraphTypes, RegistersOK, PushDependent
<1> QED
  BY GraphValues, <1>1 DEF PushDependent, Push, Goto, GraphTypes, RegistersOK,
     OthersKeptGraph, shared, txvars, graph, graphvars

\* It lowers min_validation_idx ...
LEMMA LowerMinTypes ==
    ASSUME GraphTypeOK, NEW w \in Workers, LowerMinValidationIdx(w), UNCHANGED graphvars
    PROVE  TypesKept(w)
<1> SUFFICES ASSUME GraphTypes PROVE GraphTypes' /\ OthersKeptGraph(w)
  BY DEF GraphTypeOK, TypesKept
<1>1. tx[w] \in Txs /\ validation_idx \in Counters /\ min_validation_idx \in Counters
  BY DEF GraphTypes
<1>2. /\ Lower(min_validation_idx, tx[w]) \in Counters
      /\ ~(Lower(min_validation_idx, tx[w]) >= BlockSize)
      /\ ~(tx[w] < Lower(min_validation_idx, tx[w]))
  BY <1>1, LowerSteps
<1> QED
  BY GraphValues, <1>2, SMT DEF LowerMinValidationIdx, HasFlag, NeedValidation, Goto,
     GraphTypes, RegistersOK, OthersKeptGraph, shared, txvars, graph, graphvars

\* ... compares the validation index ...
LEMMA CheckIdxTypes ==
    ASSUME GraphTypeOK, NEW w \in Workers, CheckValidationIdx(w), UNCHANGED graphvars
    PROVE  TypesKept(w)
<1> SUFFICES ASSUME GraphTypes PROVE GraphTypes' /\ OthersKeptGraph(w)
  BY DEF GraphTypeOK, TypesKept
<1> QED
  BY GraphValues, SMTT(30) DEF CheckValidationIdx, ReturnValidation, EndExecution, HasFlag,
     NeedValidation, Goto, GraphTypes, RegistersOK, OthersKeptGraph, shared, txvars, graph,
     graphvars

\* ... and lowers it.
LEMMA LowerNextTypes ==
    ASSUME GraphTypeOK, NEW w \in Workers, LowerValidationIdx(w), UNCHANGED graphvars
    PROVE  TypesKept(w)
<1> SUFFICES ASSUME GraphTypes PROVE GraphTypes' /\ OthersKeptGraph(w)
  BY DEF GraphTypeOK, TypesKept
<1>1. tx[w] \in Txs /\ validation_idx \in Counters /\ min_validation_idx \in Counters
  BY DEF GraphTypes
<1>2. Lower(validation_idx, tx[w] + 1) \in Counters
  BY <1>1, LowerSteps
<1> QED
  BY GraphValues, <1>2, SMT DEF LowerValidationIdx, ReturnValidation, EndExecution, HasFlag,
     NeedValidation, Goto, GraphTypes, RegistersOK, OthersKeptGraph, shared, txvars, graph,
     graphvars

\* try_validation_abort takes the transaction back.
LEMMA AbortGraphTypes ==
    ASSUME GraphTypeOK, NEW w \in Workers, AbortGraph(w)
    PROVE  TypesKept(w)
<1> SUFFICES ASSUME GraphTypes PROVE GraphTypes' /\ OthersKeptGraph(w)
  BY DEF GraphTypeOK, TypesKept
<1>1. num_validated - 1 \in Signed
  BY SignedSteps DEF GraphTypes
<1> QED
  BY GraphValues, <1>1, SMT DEF AbortGraph, TryValidationAbort, Goto, GraphTypes, RegistersOK,
     OthersKeptGraph, shared, txvars, graph, graphvars

\* finish_validation of an aborted transaction.
LEMMA FinishAbortedGraphTypes ==
    ASSUME GraphTypeOK, NEW w \in Workers, FinishAbortedGraph(w)
    PROVE  TypesKept(w)
<1> SUFFICES ASSUME GraphTypes PROVE GraphTypes' /\ OthersKeptGraph(w)
  BY DEF GraphTypeOK, TypesKept
<1>1. tx[w] \in Txs /\ validation_idx \in Counters /\ incarnation[tx[w]] \in Counters
  BY DEF GraphTypes
<1>2. Lower(validation_idx, tx[w] + 1) \in Counters /\ incarnation[tx[w]] + 1 \in Counters
  BY <1>1, LowerSteps, CounterSteps
<1> QED
  BY GraphValues, <1>1, <1>2, SMT DEF FinishAbortedGraph, FinishAborted, LowerAfterAbort,
     SetReadyStatus, Goto, GraphTypes, RegistersOK, OthersKeptGraph, shared, txvars, graph,
     graphvars

\* It is executed again once it has no parents.
LEMMA ReexecuteGraphTypes ==
    ASSUME GraphTypeOK, NEW w \in Workers, ReexecuteGraph(w)
    PROVE  TypesKept(w)
<1> SUFFICES ASSUME GraphTypes PROVE GraphTypes' /\ OthersKeptGraph(w)
  BY DEF GraphTypeOK, TypesKept
<1> QED
  BY GraphValues DEF ReexecuteGraph, Goto, GraphTypes, RegistersOK, OthersKeptGraph,
     shared, txvars, graph, graphvars

\* finish_validation of a valid transaction.
LEMMA FinishValidatedGraphTypes ==
    ASSUME GraphTypeOK, NEW w \in Workers, FinishValidatedGraph(w)
    PROVE  TypesKept(w)
<1> SUFFICES ASSUME GraphTypes PROVE GraphTypes' /\ OthersKeptGraph(w)
  BY DEF GraphTypeOK, TypesKept
<1>1. num_validated + 1 \in Signed
  BY SignedSteps DEF GraphTypes
<1> QED
  BY GraphValues, <1>1 DEF FinishValidatedGraph, FinishValidated, Goto, GraphTypes,
     RegistersOK, OthersKeptGraph, shared, txvars, graph, graphvars

\* The worker loop takes what the task function returned.
LEMMA TaskReturnedGraphTypes ==
    ASSUME GraphTypeOK, NEW w \in Workers, TaskReturnedGraph(w)
    PROVE  TypesKept(w)
<1> SUFFICES ASSUME GraphTypes PROVE GraphTypes' /\ OthersKeptGraph(w)
  BY DEF GraphTypeOK, TypesKept
<1>1. \/ tx' = tx /\ version' = version /\ flags' = flags
      \/ /\ tx' = [tx EXCEPT ![w] = 0] /\ version' = [version EXCEPT ![w] = 0]
         /\ flags' = [flags EXCEPT ![w] = {}]
  BY DEF TaskReturnedGraph, TaskReturned, Forget
<1>2. /\ \E l \in {"done", "execute", "validate", "next"} : Goto(w, l)
      /\ UNCHANGED <<shared, txvars, execution_results, reg, graphvars>>
  BY DEF TaskReturnedGraph, TaskReturned
<1>3. /\ tx' \in [Workers -> Txs] /\ version' \in [Workers -> Counters]
      /\ flags' \in [Workers -> FlagSets] /\ \A v \in Workers : v # w => tx'[v] = tx[v]
  <2>1. /\ tx \in [Workers -> Txs] /\ version \in [Workers -> Counters]
        /\ flags \in [Workers -> FlagSets]
    BY DEF GraphTypes
  <2>2. 0 \in Txs /\ 0 \in Counters /\ {} \in FlagSets
    BY GraphValues
  <2> QED
    BY <1>1, <2>1, <2>2
<1>4. /\ pc' \in [Workers -> GraphPCs] /\ pc'[w] \in {"done", "execute", "validate", "next"}
      /\ \A v \in Workers : v # w => pc'[v] = pc[v]
  BY <1>2, GraphValues, SMT DEF GraphTypes, Goto
<1> QED
  BY <1>2, <1>3, <1>4 DEF GraphTypes, RegistersOK,
     OthersKeptGraph, shared, txvars, graph, graphvars

\* Vm::execute returns its writes ...
LEMMA ExecuteOkTypes ==
    ASSUME GraphTypeOK, NEW w \in Workers, NEW f \in {{}, WroteNewLocation}, ExecuteOkGraph(w, f)
    PROVE  TypesKept(w)
<1> SUFFICES ASSUME GraphTypes PROVE GraphTypes' /\ OthersKeptGraph(w)
  BY DEF GraphTypeOK, TypesKept
<1>1. /\ NeedValidation \cup f \in FlagSets /\ Children(tx[w]) \in TxSets
  BY DEF NeedValidation, WroteNewLocation, Children, FlagSets, TxSets
<1>2. {version[w]} \in ResultSets
  BY CounterSteps DEF GraphTypes
<1> QED
  BY GraphValues, <1>1, <1>2 DEF ExecuteOkGraph, ExecuteOk, Goto, GraphTypes, RegistersOK,
     OthersKeptGraph, shared, txvars, graph, graphvars

\* ... or the transaction that blocks it ...
LEMMA ExecuteBlockedTypes ==
    ASSUME GraphTypeOK, NEW w \in Workers, NEW b \in Txs, b < tx[w], ExecuteBlockedGraph(w, b)
    PROVE  TypesKept(w)
<1> SUFFICES ASSUME GraphTypes PROVE GraphTypes' /\ OthersKeptGraph(w)
  BY DEF GraphTypeOK, TypesKept
<1>1. b \in Signed
  BY IndexSteps
<1> QED
  BY GraphValues, <1>1 DEF ExecuteBlockedGraph, ExecuteBlocked, Goto, GraphTypes,
     RegistersOK, OthersKeptGraph, shared, txvars, graph, graphvars

\* ... or an error ...
LEMMA ExecuteFatalTypes ==
    ASSUME GraphTypeOK, NEW w \in Workers, NEW r, ExecuteFatalGraph(w, r)
    PROVE  TypesKept(w)
<1> SUFFICES ASSUME GraphTypes PROVE GraphTypes' /\ OthersKeptGraph(w)
  BY DEF GraphTypeOK, TypesKept
<1> QED
  BY GraphValues DEF ExecuteFatalGraph, ExecuteFatal, Goto, GraphTypes, RegistersOK,
     OthersKeptGraph, shared, txvars, graph, graphvars

\* ... or is given up.
LEMMA ExecuteRetryGraphTypes ==
    ASSUME GraphTypeOK, NEW w \in Workers, ExecuteRetryGraph(w)
    PROVE  TypesKept(w)
<1> SUFFICES ASSUME GraphTypes PROVE GraphTypes' /\ OthersKeptGraph(w)
  BY DEF GraphTypeOK, TypesKept
<1> QED
  BY GraphValues DEF ExecuteRetryGraph, Goto, GraphTypes, RegistersOK, OthersKeptGraph,
     shared, txvars, graph, graphvars

\* validate_read_locations gives its verdict.
LEMMA ValidateTypes ==
    ASSUME GraphTypeOK, NEW w \in Workers, NEW v \in BOOLEAN, ValidateGraph(w, v)
    PROVE  TypesKept(w)
<1> SUFFICES ASSUME GraphTypes PROVE GraphTypes' /\ OthersKeptGraph(w)
  BY DEF GraphTypeOK, TypesKept
<1> QED
  BY GraphValues DEF ValidateGraph, Validate, Goto, GraphTypes, RegistersOK,
     OthersKeptGraph, shared, txvars, graph, graphvars

\* Every step of a worker keeps the types and changes its own locals only.
LEMMA GraphTypeStep ==
    ASSUME GraphTypeOK, NEW w \in Workers, GraphStep(w) \/ GraphVmStep(w) \/ TimeOut(w)
    PROVE  GraphTypeOK' /\ OthersKeptGraph(w)
<1>1. ASSUME ScheduleValidation(w) PROVE TypesKept(w)
  BY <1>1, LowerMinTypes, CheckIdxTypes, LowerNextTypes DEF ScheduleValidation
<1>2. ASSUME GraphStep(w) PROVE TypesKept(w)
  BY <1>1, <1>2, GraphNextTaskTypes, CheckHeapTypes, CheckValidTypes, CountLoadedTypes,
     CheckCountTypes, LoadValidationTypes, PeekHeapTypes, TakeValidationTypes,
     LookForStealTypes, StealTypes, ClassifyTypes, PopTypes, TryExecuteGraphTypes,
     AddDependencyGraphTypes, ReleaseChildTypes, PushChildTypes, ResumeTypes,
     PushDependentTypes, AbortGraphTypes, FinishAbortedGraphTypes, ReexecuteGraphTypes,
     FinishValidatedGraphTypes, TaskReturnedGraphTypes DEF GraphStep
<1>3. ASSUME GraphVmStep(w) PROVE TypesKept(w)
  BY <1>3, ExecuteOkTypes, ExecuteBlockedTypes, ExecuteFatalTypes, ExecuteRetryGraphTypes,
     ValidateTypes DEF GraphVmStep, MayBlock
<1>4. TypesKept(w)
  BY <1>2, <1>3, TimeOutTypes
<1> QED
  BY <1>4 DEF TypesKept, GraphTypeOK

\* What the types are.
LEMMA GraphTyping ==
    ASSUME GraphTypeOK
    PROVE  /\ validation_idx \in Nat /\ min_validation_idx \in Nat /\ num_validated \in Int
           /\ status \in [Txs -> IncarnationStatus]
           /\ incarnation \in [Txs -> Nat]
           /\ dependents \in [Txs -> SUBSET Txs]
           /\ execution_results \in [Txs -> SUBSET Nat]
           /\ pc \in [Workers -> GraphPCs]
           /\ tx \in [Workers -> Txs]
           /\ reg \in [Workers -> Int]
           /\ parents \in Graphs
           /\ heap \in [Txs -> Nat]
           /\ remaining \in [Txs -> Int]
           /\ released \in [Txs -> BOOLEAN]
           /\ children \in [Workers -> SUBSET Txs]
           /\ pushing \in [Workers -> SUBSET Txs]
           /\ \A w \in Workers :
                 /\ pc[w] = "resumeIdx" => reg[w] \in Txs
                 /\ pc[w] = "block" => reg[w] \in Txs /\ reg[w] < tx[w]
                 /\ pc[w] # "lowerMin"
BY DEF GraphTypeOK, GraphTypes, RegistersOK, Counters, Signed, TxSets, ResultSets

\* A step that changes no status and no count, and by which w takes up no execution
\* and no abort, and drops an execution only if the block is aborted.
QuietGraph(w) ==
    /\ UNCHANGED <<status, incarnation, dependents, execution_results, graph, repeats>>
    /\ pc[w] \notin Finishing \cup {"ready", "lowerAborted", "loadAborted", "retryExec", "tryExec"}
    /\ pc'[w] \notin Finishing \cup {"ready"}
    /\ Owns(w)' => Owns(w) /\ tx'[w] = tx[w]
    /\ Owns(w) => (Owns(w)' /\ tx'[w] = tx[w]) \/ IsAborted'
    /\ IsAborted => IsAborted'
    /\ pc'[w] \in Leaving => pc[w] \in Leaving \/ IsAborted' \/ \A t \in Txs : ~(heap[t] > 0)

\* The other steps.
LoudGraph(w) ==
    \/ Steal(w) \/ Pop(w) \/ TryExecuteGraph(w) \/ AddDependencyGraph(w)
    \/ ReleaseChild(w) \/ PushChild(w) \/ (\E d \in Txs : ResumeDependentGraph(w, d))
    \/ PushDependent(w) \/ ScheduleValidation(w) \/ AbortGraph(w) \/ FinishAbortedGraph(w)
    \/ ReexecuteGraph(w) \/ FinishValidatedGraph(w)
    \/ (\E wrote \in {{}, WroteNewLocation} : ExecuteOkGraph(w, wrote))

\* Every step of a worker is one or the other.
LEMMA QuietOrLoudGraph ==
    ASSUME GraphTypeOK, NEW w \in Workers, GraphStep(w) \/ GraphVmStep(w) \/ TimeOut(w)
    PROVE  QuietGraph(w) \/ LoudGraph(w)
<1>   pc \in [Workers -> GraphPCs] /\ tx \in [Workers -> Txs]
  BY GraphTyping
<1> USE DEF Goto, QuietGraph, Owns, Finishing, Leaving, IsAborted, Aborted, shared,
            txvars, graph, graphvars
<1>1. GraphNextTask(w) => QuietGraph(w)
  BY SMT DEF GraphNextTask
<1>2. CheckHeap(w) => QuietGraph(w)
  BY SMT DEF CheckHeap
<1>3. CheckValid(w) => QuietGraph(w)
  BY SMT DEF CheckValid
<1>4. CountLoaded(w) => QuietGraph(w)
  BY SMT DEF CountLoaded, LoadNumValidated
<1>5. CheckCount(w) => QuietGraph(w)
  BY SMT DEF CheckCount
<1>6. LoadValidation(w) => QuietGraph(w)
  BY SMT DEF LoadValidation
<1>7. PeekHeap(w) => QuietGraph(w)
  BY SMT DEF PeekHeap
<1>8. TakeValidation(w) => QuietGraph(w)
  BY SMT DEF TakeValidation
<1>9. LookForSteal(w) => QuietGraph(w)
  BY SMT DEF LookForSteal
<1>10. Classify(w) => QuietGraph(w)
  BY SMT DEF Classify, Completed
<1>11. TaskReturnedGraph(w) => QuietGraph(w)
  BY SMT DEF TaskReturnedGraph, TaskReturned, Forget
<1>12. \A b \in Txs : ExecuteBlockedGraph(w, b) => QuietGraph(w)
  BY SMT DEF ExecuteBlockedGraph, ExecuteBlocked
<1>13. \A r \in {"FallbackToSequential", "ExecutionError"} : ExecuteFatalGraph(w, r) => QuietGraph(w)
  BY DEF ExecuteFatalGraph, ExecuteFatal
<1>14. ExecuteRetryGraph(w) => QuietGraph(w)
  BY SMT DEF ExecuteRetryGraph
<1>15. \A v \in BOOLEAN : ValidateGraph(w, v) => QuietGraph(w)
  BY SMT DEF ValidateGraph, Validate
<1>16. TimeOut(w) => QuietGraph(w)
  BY DEF TimeOut
<1>17. CASE GraphStep(w)
  BY <1>17, <1>1, <1>2, <1>3, <1>4, <1>5, <1>6, <1>7, <1>8, <1>9, <1>10, <1>11
     DEF GraphStep, LoudGraph
<1>18. CASE GraphVmStep(w)
  BY <1>18, <1>12, <1>13, <1>14, <1>15 DEF GraphVmStep, LoudGraph
<1> QED
  BY <1>16, <1>17, <1>18

\* The end of finish_execution: the mutex is held until the execution has its
\* final status, and the dependents have been resumed before.
LEMMA ScheduleEffect ==
    ASSUME GraphTypeOK, NEW w \in Workers, ScheduleValidation(w)
    PROVE  /\ pc[w] \in {"resume", "checkIdx", "lowerNext"}
           /\ pc[w] = "resume" => ChildrenDone(w) /\ dependents[tx[w]] = {}
           /\ \/ /\ pc' \in {[pc EXCEPT ![w] = "checkIdx"], [pc EXCEPT ![w] = "lowerNext"]}
                 /\ status' = status
              \/ /\ pc' \in {[pc EXCEPT ![w] = "gotValidation"], [pc EXCEPT ![w] = "gotNone"]}
                 /\ status' = [status EXCEPT ![tx[w]] = "Executed"]
           /\ UNCHANGED <<incarnation, dependents, abort_reason, execution_results, tx, graphvars>>
<1>   /\ pc[w] # "lowerMin"
      /\ tx[w] \in Nat
      /\ tx[w] < BlockSize
      /\ min_validation_idx \in Nat
  BY GraphTxs, GraphTyping
<1>1. CASE ChildrenDone(w) /\ LowerMinValidationIdx(w)
  <2>1. LET m == Lower(min_validation_idx, tx[w]) IN ~(m >= BlockSize) /\ ~(tx[w] < m)
    BY BlockSizeAssumption, SMT DEF Lower
  <2> QED
    BY <1>1, <2>1 DEF ScheduleValidation, LowerMinValidationIdx, Goto, HasFlag, NeedValidation
<1>2. CASE CheckValidationIdx(w)
  BY <1>2 DEF ScheduleValidation, CheckValidationIdx, ReturnValidation, EndExecution, Goto,
              HasFlag, NeedValidation
<1>3. CASE LowerValidationIdx(w)
  BY <1>3 DEF ScheduleValidation, LowerValidationIdx, ReturnValidation, EndExecution, Goto,
                    HasFlag, NeedValidation
<1> QED
  BY <1>1, <1>2, <1>3 DEF ScheduleValidation

\* A step that neither enters finish_execution nor releases a child.
FinisherQuiet(w) ==
    /\ UNCHANGED <<parents, released, children, pushing>>
    /\ pc'[w] \in Finishing => pc[w] \in Finishing /\ tx'[w] = tx[w]
    /\ pc[w] = "resume" => tx'[w] = tx[w] /\ (pc'[w] = "resume" \/ ChildrenDone(w))

\* What is to show about the next state.
LEMMA FinisherParts ==
    ASSUME \A t : Children(t)' = Children(t),
           \A u, v \in Workers :
              pc'[u] \in Finishing /\ pc'[v] \in Finishing /\ tx'[u] = tx'[v] => u = v,
           \A v \in Workers : pc'[v] \in Finishing => released'[tx'[v]],
           \A v \in Workers : pc'[v] # "resume" => children'[v] = {} /\ pushing'[v] = {},
           \A v \in Workers : children'[v] \subseteq Children(tx'[v]),
           \A v \in Workers : \A c, d \in pushing'[v] : c = d
    PROVE  OneFinisher'
BY DEF OneFinisher

\* It keeps the mutex.
LEMMA FinisherKept ==
    ASSUME OneFinisher, NEW w \in Workers, OthersKeptGraph(w), FinisherQuiet(w)
    PROVE  OneFinisher'
<1>1. \A t : Children(t)' = Children(t)
  BY DEF FinisherQuiet, Children
<1>2. \A v \in Workers : pc'[v] \in Finishing => pc[v] \in Finishing /\ tx'[v] = tx[v]
  BY DEF FinisherQuiet, OthersKeptGraph
<1>3. \A v \in Workers : children[v] # {} \/ pushing[v] # {} => tx'[v] = tx[v] /\ pc'[v] = "resume"
  BY DEF OneFinisher, FinisherQuiet, OthersKeptGraph, ChildrenDone
<1>4. UNCHANGED <<released, children, pushing>>
  BY DEF FinisherQuiet
<1>5. \A v \in Workers : children'[v] \subseteq Children(tx'[v])
  BY <1>3, <1>4 DEF OneFinisher
<1>6. \A u, v \in Workers :
         pc'[u] \in Finishing /\ pc'[v] \in Finishing /\ tx'[u] = tx'[v] => u = v
  BY <1>2 DEF OneFinisher
<1>7. \A v \in Workers : pc'[v] \in Finishing => released'[tx'[v]]
  BY <1>2, <1>4 DEF OneFinisher
<1>8. \A v \in Workers : pc'[v] # "resume" => children'[v] = {} /\ pushing'[v] = {}
  BY <1>3, <1>4
<1>9. \A v \in Workers : \A c, d \in pushing'[v] : c = d
  BY <1>4 DEF OneFinisher
<1> QED
  BY <1>1, <1>5, <1>6, <1>7, <1>8, <1>9, FinisherParts

\* All steps but those of finish_execution that release a child are such.
LEMMA FinisherQuietSteps ==
    ASSUME GraphTypeOK, NEW w \in Workers
    PROVE  \/ QuietGraph(w) \/ Steal(w) \/ Pop(w) \/ TryExecuteGraph(w) \/ AddDependencyGraph(w)
           \/ (\E d \in Txs : ResumeDependentGraph(w, d)) \/ PushDependent(w)
           \/ ScheduleValidation(w) \/ AbortGraph(w) \/ FinishAbortedGraph(w) \/ ReexecuteGraph(w)
           \/ FinishValidatedGraph(w)
           => FinisherQuiet(w)
<1>   pc \in [Workers -> GraphPCs]
  BY GraphTyping
<1> USE DEF FinisherQuiet, Finishing, Goto, graph, graphvars
<1>1. QuietGraph(w) => FinisherQuiet(w)
  BY DEF QuietGraph
<1>2. Steal(w) => FinisherQuiet(w)
  BY DEF Steal, StartExecution
<1>3. Pop(w) => FinisherQuiet(w)
  BY DEF Pop
<1>4. TryExecuteGraph(w) => FinisherQuiet(w)
  BY DEF TryExecuteGraph
<1>5. AddDependencyGraph(w) => FinisherQuiet(w)
  BY DEF AddDependencyGraph
<1>6. \A d \in Txs : ResumeDependentGraph(w, d) => FinisherQuiet(w)
  BY DEF ResumeDependentGraph, ChildrenDone
<1>7. PushDependent(w) => FinisherQuiet(w)
  BY DEF PushDependent
<1>8. ScheduleValidation(w) => FinisherQuiet(w)
  BY ScheduleEffect
<1>9. AbortGraph(w) => FinisherQuiet(w)
  BY DEF AbortGraph, TryValidationAbort
<1>10. FinishAbortedGraph(w) => FinisherQuiet(w)
  BY DEF FinishAbortedGraph, FinishAborted, LowerAfterAbort
<1>11. ReexecuteGraph(w) => FinisherQuiet(w)
  BY DEF ReexecuteGraph
<1>12. FinishValidatedGraph(w) => FinisherQuiet(w)
  BY DEF FinishValidatedGraph, FinishValidated
<1> HIDE DEF FinisherQuiet
<1> QED
  BY <1>1, <1>2, <1>3, <1>4, <1>5, <1>6, <1>7, <1>8, <1>9, <1>10, <1>11, <1>12

\* ExecuteOk takes the mutex, and nobody else enters finish_execution.
LEMMA FinisherStep ==
    ASSUME GraphTypeOK, OneFinisher,
           NEW w \in Workers, GraphStep(w) \/ GraphVmStep(w) \/ TimeOut(w)
    PROVE  OneFinisher'
<1>   /\ OthersKeptGraph(w)
      /\ pc \in [Workers -> GraphPCs]
      /\ tx \in [Workers -> Txs]
      /\ children \in [Workers -> SUBSET Txs]
      /\ pushing \in [Workers -> SUBSET Txs]
      /\ released \in [Txs -> BOOLEAN]
  BY GraphTypeStep, GraphTyping
<1>1. ASSUME ReleaseChild(w) PROVE OneFinisher'
  <2>1. /\ children'[w] \subseteq children[w] /\ pc[w] = "resume"
        /\ \A c, d \in pushing'[w] : c = d
        /\ UNCHANGED <<pc, tx, parents, released>>
    BY <1>1 DEF ReleaseChild, vars, locals
  <2> QED
    BY <2>1, SMT DEF OneFinisher, OthersKeptGraph, Children
<1>2. ASSUME PushChild(w) PROVE OneFinisher'
  <2>1. /\ pushing'[w] = {} /\ UNCHANGED <<pc, tx, parents, released, children>>
    BY <1>2 DEF PushChild, vars, locals
  <2> QED
    BY <2>1, SMT DEF OneFinisher, OthersKeptGraph, Children
<1>3. ASSUME NEW f \in {{}, WroteNewLocation}, ExecuteOkGraph(w, f) PROVE OneFinisher'
  <2>1. /\ \A v \in Workers : ~(pc[v] \in Finishing /\ tx[v] = tx[w])
        /\ pc[w] # "resume" /\ pc' = [pc EXCEPT ![w] = "resume"]
        /\ released' = [released EXCEPT ![tx[w]] = TRUE]
        /\ children' = [children EXCEPT ![w] = IF released[tx[w]] THEN {} ELSE Children(tx[w])]
        /\ UNCHANGED <<tx, parents, pushing>>
    BY <1>3 DEF ExecuteOkGraph, ExecuteOk, Locked, Goto
  <2>2. \A t : Children(t)' = Children(t)
    BY <2>1 DEF Children
  <2>3. \A v \in Workers : released[tx[v]] => released'[tx[v]]
    BY <2>1
  <2>4. released'[tx'[w]] /\ children'[w] \subseteq Children(tx[w])
    BY <2>1
  <2>5. \A v \in Workers : v # w => pc'[v] = pc[v] /\ children'[v] = children[v]
    BY <2>1
  <2>6. \A u, v \in Workers :
           pc'[u] \in Finishing /\ pc'[v] \in Finishing /\ tx'[u] = tx'[v] => u = v
    BY <2>1, <2>5, SMT DEF OneFinisher
  <2>7. \A v \in Workers : pc'[v] \in Finishing => released'[tx'[v]]
    BY <2>1, <2>3, <2>4, <2>5 DEF OneFinisher
  <2>8. \A v \in Workers : pc'[v] # "resume" => children'[v] = {} /\ pushing'[v] = {}
    BY <2>1, <2>5 DEF OneFinisher
  <2>9. \A v \in Workers : children'[v] \subseteq Children(tx'[v])
    BY <2>1, <2>4, <2>5 DEF OneFinisher
  <2>10. \A v \in Workers : \A c, d \in pushing'[v] : c = d
    BY <2>1 DEF OneFinisher
  <2> QED
    BY <2>2, <2>6, <2>7, <2>8, <2>9, <2>10, FinisherParts
<1>4. ASSUME FinisherQuiet(w) PROVE OneFinisher'
  BY <1>4, FinisherKept
<1>5. QuietGraph(w) \/ LoudGraph(w)
  BY QuietOrLoudGraph
<1> QED
  BY <1>1, <1>2, <1>3, <1>4, <1>5, FinisherQuietSteps DEF LoudGraph

\* What a child waits for does not change while nobody releases it.
LEMMA UnreleasedKept ==
    ASSUME UNCHANGED <<parents, released, children>>,
           \A v \in Workers : children[v] # {} => tx'[v] = tx[v], NEW c
    PROVE  Unreleased(c)' = Unreleased(c)
BY DEF Unreleased

\* The first execution releases the children through the worker that finishes it ...
LEMMA UnreleasedFirst ==
    ASSUME GraphTypeOK, OneFinisher, NEW w \in Workers, NEW c \in Txs,
           pc[w] # "resume", UNCHANGED <<parents, tx>>,
           released' = [released EXCEPT ![tx[w]] = TRUE],
           children' = [children EXCEPT ![w] = IF released[tx[w]] THEN {} ELSE Children(tx[w])]
    PROVE  Unreleased(c)' = Unreleased(c)
<1>   /\ children[w] = {}
      /\ tx[w] \in Txs
      /\ released \in [Txs -> BOOLEAN]
      /\ children \in [Workers -> SUBSET Txs]
      /\ parents[c] \subseteq Txs
  BY GraphsAssumption, GraphTyping, SMT DEF OneFinisher
<1>1. ASSUME NEW p \in parents[c]
      PROVE  (~released[p] \/ \E v \in Workers : tx[v] = p /\ c \in children[v])
         <=> (~released'[p] \/ \E v \in Workers : tx'[v] = p /\ c \in children'[v])
  <2>1. CASE p = tx[w] /\ ~released[p]
    <3>1. c \in children'[w] /\ tx'[w] = p
      BY <1>1, <2>1 DEF Children
    <3> QED
      BY <2>1, <3>1
  <2>2. CASE p # tx[w] \/ released[p]
    <3>1. released'[p] = released[p]
      BY <1>1, <2>2
    <3>2. \A v \in Workers : tx[v] = p /\ c \in children[v] => c \in children'[v]
      OBVIOUS
    <3>3. \A v \in Workers : tx[v] = p /\ c \in children'[v] => c \in children[v]
      BY <2>2
    <3> QED
      BY <3>1, <3>2, <3>3
  <2> QED
    BY <2>1, <2>2
<1> QED
  BY <1>1, SMT DEF Unreleased

\* ... and that worker takes one parent from one child at a time.
LEMMA UnreleasedOne ==
    ASSUME GraphTypeOK, OneFinisher, NEW w \in Workers, NEW c \in Txs, NEW d \in children[w],
           pc[w] = "resume", UNCHANGED <<parents, tx, released>>,
           children' = [children EXCEPT ![w] = @ \ {d}]
    PROVE  /\ c = d => Unreleased(c)' = Unreleased(c) \ {tx[w]} /\ tx[w] \in Unreleased(c)
           /\ c # d => Unreleased(c)' = Unreleased(c)
<1>   /\ released[tx[w]]
      /\ tx[w] \in Txs
      /\ children \in [Workers -> SUBSET Txs]
      /\ children[w] \subseteq Children(tx[w])
  BY GraphTyping DEF OneFinisher, Finishing
<1>1. \A v \in Workers : children[v] # {} /\ tx[v] = tx[w] => v = w
  BY DEF OneFinisher, Finishing
<1>2. CASE c # d
  <2>1. \A v \in Workers : c \in children'[v] <=> c \in children[v]
    BY <1>2
  <2> QED
    BY <1>2, <2>1 DEF Unreleased
<1>3. CASE c = d
  <2>1. \A v \in Workers : c \in children'[v] <=> c \in children[v] /\ v # w
    BY <1>3
  <2>2. tx[w] \in Unreleased(c)
    BY <1>3 DEF Unreleased, Children
  <2> QED
    BY <1>1, <1>3, <2>1, <2>2 DEF Unreleased
<1> QED
  BY <1>2, <1>3
=============================================================================
