--------------------------- MODULE GraphScheduler ---------------------------
(***************************************************************************)
(* GraphScheduler (crates/pevm/src/graph_scheduler.rs) and the workers of  *)
(* GraphPevm (graph_pevm.rs): the scheduler of module Scheduler, with the  *)
(* execution index replaced by a heap of transactions whose parents in a   *)
(* dependency graph have been executed.  The parts that the code took over *)
(* unchanged from Scheduler are taken over here; execution_idx stays 0.    *)
(*                                                                         *)
(* "resumeIdx" is the step of finish_execution between set_ready_status    *)
(* and the push onto the heap.  The debug assertions are not part of the   *)
(* actions: a release build goes on, and so does the model.                *)
(***************************************************************************)
EXTENDS Scheduler, FiniteSetsExt

CONSTANTS
    Graphs,         \* dependency graphs: functions from Txs to sets of lower parents
    MaxIncarnation  \* bound: a transaction is re-executed at most this often

ASSUME GraphsAssumption ==
    Graphs \subseteq {g \in [Txs -> SUBSET Txs] : \A t \in Txs : \A p \in g[t] : p < t}

VARIABLES
    parents,      \* dependency_graph, as the parents of every transaction
    heap,         \* executable_txs: how often each transaction is in the heap
    remaining,    \* remaining_dependencies
    released,     \* children_released
    children,     \* per worker: children it has yet to release
    pushing,      \* per worker: the child it has released and has yet to push
    repeats,      \* further entries of <<b, d>> in b's dependents, a vector
    timed_out,    \* the scheduler was aborted by next_task's time-out
    last_failed   \* per worker: {} or {last_failed_blocking} of its try_execute

graph == <<parents, heap, remaining, released, children, pushing>>
graphvars == <<graph, repeats, timed_out, last_failed>>

Children(t) == {c \in Txs : t \in parents[c]}

Push(t) == heap' = [heap EXCEPT ![t] = @ + 1]

\* Scheduler.aborted, which a time-out sets without an abort reason.
IsAborted == Aborted \/ timed_out

\* GraphScheduler::new: the roots are executable.
GraphInit ==
    /\ Init
    /\ parents \in Graphs
    /\ heap = [t \in Txs |-> IF parents[t] = {} THEN 1 ELSE 0]
    /\ remaining = [t \in Txs |-> Cardinality(parents[t])]
    /\ released = [t \in Txs |-> FALSE]
    /\ children = [w \in Workers |-> {}]
    /\ pushing = [w \in Workers |-> {}]
    /\ repeats = [p \in Txs \X Txs |-> 0]
    /\ timed_out = FALSE
    /\ last_failed = [w \in Workers |-> {}]

-----------------------------------------------------------------------------
(* next_task *)

GraphNextTask(w) ==
    /\ pc[w] = "next"
    /\ Goto(w, IF IsAborted THEN "done" ELSE "checkHeap")
    /\ UNCHANGED <<shared, txvars, abort_reason, execution_results, tx, version, reg, flags,
                   graphvars>>

\* More than a second has passed: the workers may take that long anywhere.
TimeOut(w) ==
    /\ pc[w] = "next"
    /\ ~IsAborted
    /\ timed_out' = TRUE
    /\ Goto(w, "done")
    /\ UNCHANGED <<shared, txvars, abort_reason, execution_results, tx, version, reg, flags,
                   graph, repeats, last_failed>>

\* Faulty: check_all_done does not look at the heap.
CheckHeapNot(w) ==
    /\ pc[w] = "checkHeap"
    /\ Goto(w, "checkValid")
    /\ UNCHANGED <<shared, txvars, abort_reason, execution_results, tx, version, reg, flags,
                   graphvars>>

\* check_all_done: the heap, validation_idx, num_validated, min_validation_idx.
CheckHeap(w) ==
    /\ pc[w] = "checkHeap"
    /\ Goto(w, IF \E t \in Txs : heap[t] > 0 THEN "loadValid" ELSE "checkValid")
    /\ UNCHANGED <<shared, txvars, abort_reason, execution_results, tx, version, reg, flags,
                   graphvars>>

CheckValid(w) ==
    /\ pc[w] = "checkValid"
    /\ Goto(w, IF validation_idx >= BlockSize THEN "loadCount" ELSE "loadValid")
    /\ UNCHANGED <<shared, txvars, abort_reason, execution_results, tx, version, reg, flags,
                   graphvars>>

CheckCount(w) ==
    /\ pc[w] = "loadMin"
    /\ Goto(w, IF reg[w] >= BlockSize - min_validation_idx THEN "done" ELSE "loadValid")
    /\ reg' = [reg EXCEPT ![w] = 0]
    /\ UNCHANGED <<shared, txvars, abort_reason, execution_results, tx, version, flags, graphvars>>

\* try_validation_task
LoadValidation(w) ==
    /\ pc[w] = "loadValid"
    /\ reg' = [reg EXCEPT ![w] = validation_idx]
    /\ Goto(w, "peekHeap")
    /\ UNCHANGED <<shared, txvars, abort_reason, execution_results, tx, version, flags, graphvars>>

PeekHeap(w) ==
    LET executable == {t \in Txs : heap[t] > 0} IN
    /\ pc[w] = "peekHeap"
    /\ Goto(w, IF reg[w] < (IF executable = {} THEN BlockSize ELSE Min(executable))
                 THEN "takeValid" ELSE "pop")
    /\ reg' = [reg EXCEPT ![w] = 0]
    /\ UNCHANGED <<shared, txvars, abort_reason, execution_results, tx, version, flags, graphvars>>

TakeValidation(w) ==
    /\ pc[w] = "takeValid"
    /\ validation_idx' = validation_idx + 1
    /\ IF validation_idx < BlockSize
         THEN tx' = [tx EXCEPT ![w] = validation_idx] /\ Goto(w, "lockValid")
         ELSE Goto(w, "pop") /\ UNCHANGED tx
    /\ UNCHANGED <<execution_idx, min_validation_idx, num_validated, txvars,
                   abort_reason, execution_results, version, reg, flags, graphvars>>

\* Is there an execution to steal?  The mutex is released before the next look.
LookForSteal(w) ==
    /\ pc[w] = "lockValid"
    /\ ~Locked(tx[w])
    /\ Goto(w, IF status[tx[w]] = "ReadyToExecute" THEN "steal" ELSE "classify")
    /\ UNCHANGED <<shared, txvars, abort_reason, execution_results, tx, version, reg, flags,
                   graphvars>>

\* Faulty: steals a transaction whose parents are not executed.
StealAnyway(w) ==
    /\ pc[w] = "steal"
    /\ ~Locked(tx[w])
    /\ IF status[tx[w]] = "ReadyToExecute"
         THEN StartExecution(w, tx[w], "execute")
         ELSE Goto(w, "classify") /\ UNCHANGED <<status, version>>
    /\ UNCHANGED <<shared, incarnation, dependents, abort_reason, execution_results, tx, reg,
                   flags, graphvars>>

\* Dependencies are never added, so a transaction without any stays so.
Steal(w) ==
    /\ pc[w] = "steal"
    /\ IF remaining[tx[w]] # 0
         THEN Goto(w, "classify") /\ UNCHANGED <<status, version>>
         ELSE /\ ~Locked(tx[w])
              /\ IF status[tx[w]] = "ReadyToExecute"
                   THEN StartExecution(w, tx[w], "execute")
                   ELSE Goto(w, "classify") /\ UNCHANGED <<status, version>>
    /\ UNCHANGED <<shared, incarnation, dependents, abort_reason, execution_results, tx, reg,
                   flags, graphvars>>

Classify(w) ==
    /\ pc[w] = "classify"
    /\ ~Locked(tx[w])
    /\ IF Completed(tx[w])
         THEN /\ version' = [version EXCEPT ![w] = incarnation[tx[w]]]
              /\ Goto(w, "validate")
              /\ UNCHANGED tx
         ELSE /\ tx' = [tx EXCEPT ![w] = 0]
              /\ Goto(w, "pop")
              /\ UNCHANGED version
    /\ UNCHANGED <<shared, txvars, abort_reason, execution_results, reg, flags, graphvars>>

\* try_execution_task; with an empty heap the worker parks and starts over.
Pop(w) ==
    LET executable == {t \in Txs : heap[t] > 0} IN
    /\ pc[w] = "pop"
    /\ IF executable = {}
         THEN Goto(w, "next") /\ UNCHANGED <<heap, tx>>
         ELSE /\ heap' = [heap EXCEPT ![Min(executable)] = @ - 1]
              /\ tx' = [tx EXCEPT ![w] = Min(executable)]
              /\ Goto(w, "tryExec")
    /\ UNCHANGED <<shared, txvars, abort_reason, execution_results, version, reg, flags,
                   parents, remaining, released, children, pushing, repeats, timed_out, last_failed>>

\* try_execute, by next_task or finish_validation.  A transaction that aborts is
\* executed as well, as its next incarnation.
TryExecuteGraph(w) ==
    LET t == tx[w]
        again == IF status[t] = "Aborting" THEN 1 ELSE 0
    IN
    /\ pc[w] \in {"tryExec", "retryExec"}
    /\ ~Locked(t)
    /\ IF remaining[t] = 0 /\ status[t] \in {"ReadyToExecute", "Aborting"}
         THEN /\ status' = [status EXCEPT ![t] = "Executing"]
              /\ incarnation' = [incarnation EXCEPT ![t] = @ + again]
              /\ version' = [version EXCEPT ![w] = incarnation[t] + again]
              /\ Goto(w, IF pc[w] = "tryExec" THEN "execute" ELSE "gotExecution")
              /\ UNCHANGED tx
         ELSE /\ Goto(w, IF pc[w] = "tryExec" THEN "next" ELSE "gotNone")
              /\ tx' = [tx EXCEPT ![w] = 0]
              /\ UNCHANGED <<status, incarnation, version>>
    /\ UNCHANGED <<shared, dependents, abort_reason, execution_results, reg, flags, graphvars>>

-----------------------------------------------------------------------------
(* GraphPevm::try_execute *)

\* Ok: enter finish_execution, which releases the children the first time.
ExecuteOkGraph(w, wrote) ==
    /\ ExecuteOk(w, wrote)
    /\ released' = [released EXCEPT ![tx[w]] = TRUE]
    /\ children' = [children EXCEPT ![w] = IF released[tx[w]] THEN {} ELSE Children(tx[w])]
    /\ last_failed' = [last_failed EXCEPT ![w] = {}]
    /\ UNCHANGED <<parents, heap, remaining, pushing, repeats, timed_out>>

ExecuteBlockedGraph(w, b) == ExecuteBlocked(w, b) /\ UNCHANGED graphvars

ExecuteFatalGraph(w, reason) ==
    /\ ExecuteFatal(w, reason)
    /\ last_failed' = [last_failed EXCEPT ![w] = {}]
    /\ UNCHANGED <<graph, repeats, timed_out>>

ExecuteRetryGraph(w) ==
    /\ pc[w] = "execute"
    /\ IsAborted
    /\ Goto(w, "gotNone")
    /\ last_failed' = [last_failed EXCEPT ![w] = {}]
    /\ UNCHANGED <<shared, txvars, abort_reason, execution_results, tx, version, reg, flags,
                   graph, repeats, timed_out>>

\* Blocking(b): wait for b; if b is through retry once, and fall back the second
\* time b is in the way.
AddDependencyGraph(w) ==
    LET b == reg[w]
        retry == Completed(b) /\ ~IsAborted /\ last_failed[w] # {b}
    IN
    /\ pc[w] = "block"
    /\ ~Locked(b)
    /\ ~Locked(tx[w])
    /\ IF Completed(b)
         THEN UNCHANGED <<status, dependents, repeats>>
         ELSE /\ status' = [status EXCEPT ![tx[w]] = "Aborting"]
              /\ dependents' = [dependents EXCEPT ![b] = @ \cup {tx[w]}]
              /\ repeats' = [repeats EXCEPT ![<<b, tx[w]>>] =
                                IF tx[w] \in dependents[b] THEN @ + 1 ELSE @]
    /\ abort_reason' = IF Completed(b) /\ ~IsAborted /\ ~retry THEN "FallbackToSequential"
                       ELSE abort_reason
    /\ Goto(w, IF retry THEN "execute" ELSE "gotNone")
    /\ last_failed' = [last_failed EXCEPT ![w] = IF retry THEN {b} ELSE {}]
    /\ reg' = [reg EXCEPT ![w] = 0]
    /\ UNCHANGED <<shared, incarnation, execution_results, tx, version, flags, graph, timed_out>>

-----------------------------------------------------------------------------
(* finish_execution, holding the mutex of tx[w] *)

ReleaseChild(w) ==
    LET c == Min(children[w]) IN
    /\ pc[w] = "resume"
    /\ pushing[w] = {}
    /\ children[w] # {}
    /\ children' = [children EXCEPT ![w] = @ \ {c}]
    /\ remaining' = [remaining EXCEPT ![c] = @ - 1]
    /\ pushing' = [pushing EXCEPT ![w] = IF remaining[c] = 1 THEN {c} ELSE {}]
    /\ UNCHANGED <<vars, parents, heap, released, repeats, timed_out, last_failed>>

PushChild(w) ==
    /\ pc[w] = "resume"
    /\ pushing[w] # {}
    /\ Push(Min(pushing[w]))
    /\ pushing' = [pushing EXCEPT ![w] = {}]
    /\ UNCHANGED <<vars, parents, remaining, released, children, repeats, timed_out, last_failed>>

ChildrenDone(w) == pc[w] = "resume" /\ children[w] = {} /\ pushing[w] = {}

\* Resume one dependent, or drop it if its parents are not executed yet.
ResumeDependentGraph(w, d) ==
    LET b == tx[w] IN
    /\ ChildrenDone(w)
    /\ d \in dependents[b]
    /\ dependents' = [dependents EXCEPT ![b] = IF repeats[<<b, d>>] = 0 THEN @ \ {d} ELSE @]
    /\ repeats' = [repeats EXCEPT ![<<b, d>>] = IF @ = 0 THEN 0 ELSE @ - 1]
    /\ IF remaining[d] = 0
         THEN SetReadyStatus(d) /\ reg' = [reg EXCEPT ![w] = d] /\ Goto(w, "resumeIdx")
         ELSE UNCHANGED <<status, incarnation, reg, pc>>
    /\ UNCHANGED <<shared, abort_reason, execution_results, tx, version, flags, graph,
                   timed_out, last_failed>>

\* Faulty: the dependent is ready, and nobody is told.
PushDependentNot(w) ==
    /\ pc[w] = "resumeIdx"
    /\ reg' = [reg EXCEPT ![w] = 0]
    /\ Goto(w, "resume")
    /\ UNCHANGED <<shared, txvars, abort_reason, execution_results, tx, version, flags, graphvars>>

PushDependent(w) ==
    /\ pc[w] = "resumeIdx"
    /\ Push(reg[w])
    /\ reg' = [reg EXCEPT ![w] = 0]
    /\ Goto(w, "resume")
    /\ UNCHANGED <<shared, txvars, abort_reason, execution_results, tx, version, flags,
                   parents, remaining, released, children, pushing, repeats, timed_out, last_failed>>

\* Where to validate from, and the final status.
ScheduleValidation(w) ==
    /\ \/ ChildrenDone(w) /\ LowerMinValidationIdx(w)
       \/ CheckValidationIdx(w)
       \/ LowerValidationIdx(w)
    /\ UNCHANGED graphvars

-----------------------------------------------------------------------------
(* try_validate *)

ValidateGraph(w, valid) == Validate(w, valid) /\ UNCHANGED graphvars

AbortGraph(w) == TryValidationAbort(w) /\ UNCHANGED graphvars

FinishAbortedGraph(w) == (FinishAborted(w) \/ LowerAfterAbort(w)) /\ UNCHANGED graphvars

ReexecuteGraph(w) ==
    /\ pc[w] = "loadAborted"
    /\ Goto(w, IF remaining[tx[w]] = 0 THEN "retryExec" ELSE "gotNone")
    /\ UNCHANGED <<shared, txvars, abort_reason, execution_results, tx, version, reg, flags,
                   graphvars>>

FinishValidatedGraph(w) == FinishValidated(w) /\ UNCHANGED graphvars

-----------------------------------------------------------------------------
CountLoaded(w) == LoadNumValidated(w) /\ UNCHANGED graphvars
TaskReturnedGraph(w) == TaskReturned(w) /\ UNCHANGED graphvars

GraphStep(w) ==
    \/ GraphNextTask(w) \/ CheckHeap(w) \/ CheckValid(w) \/ CountLoaded(w) \/ CheckCount(w)
    \/ LoadValidation(w) \/ PeekHeap(w) \/ TakeValidation(w) \/ LookForSteal(w)
    \/ Steal(w) \/ Classify(w) \/ Pop(w) \/ TryExecuteGraph(w)
    \/ AddDependencyGraph(w) \/ ReleaseChild(w) \/ PushChild(w)
    \/ (\E d \in Txs : ResumeDependentGraph(w, d))
    \/ PushDependent(w) \/ ScheduleValidation(w)
    \/ AbortGraph(w) \/ FinishAbortedGraph(w) \/ ReexecuteGraph(w) \/ FinishValidatedGraph(w)
    \/ TaskReturnedGraph(w)

\* Who may block t: the transaction before it, by the heuristic for nonces and funds,
\* or a lower one whose writes are ESTIMATEs.
MayBlock(b, t) ==
    /\ b < t
    /\ \/ b = t - 1
       \/ ~Completed(b)
       \/ \E w \in Workers : pc[w] = "ready" /\ tx[w] = b

\* Vm::execute and validate_read_locations, as in Scheduler; the first transaction
\* reads storage alone, so it always validates.
GraphVmStep(w) ==
    \/ \E wrote \in {{}, WroteNewLocation} : ExecuteOkGraph(w, wrote)
    \/ \E b \in Txs : /\ MayBlock(b, tx[w])
                      /\ incarnation[tx[w]] < MaxIncarnation
                      /\ ExecuteBlockedGraph(w, b)
    \/ \E reason \in {"FallbackToSequential", "ExecutionError"} : ExecuteFatalGraph(w, reason)
    \/ ExecuteRetryGraph(w)
    \/ \E valid \in BOOLEAN :
          /\ valid \/ (tx[w] > 0 /\ incarnation[tx[w]] < MaxIncarnation)
          /\ ValidateGraph(w, valid)

GraphJoined == Joined /\ UNCHANGED graphvars

GraphNext == (\E w \in Workers : GraphStep(w) \/ GraphVmStep(w) \/ TimeOut(w)) \/ GraphJoined

GraphSpec == GraphInit /\ [][GraphNext]_<<vars, graphvars>>

\* A thread that can take a step is scheduled eventually; nothing obliges it to be
\* so slow that next_task times out.
GraphFairSpec == GraphSpec /\ \A w \in Workers :
    WF_<<vars, graphvars>>(GraphStep(w) \/ GraphVmStep(w))

-----------------------------------------------------------------------------
\* The parents of c that have not released it yet.
Unreleased(c) ==
    {p \in parents[c] : ~released[p] \/ \E w \in Workers : tx[w] = p /\ c \in children[w]}

\* A child's count is the number of its parents that have not released it yet.
RemainingIsExact == \A c \in Txs : remaining[c] = Cardinality(Unreleased(c))

\* A transaction is executed only after its parents have been: by heap, by theft
\* from the validation index or by re-execution.  So whoever waits for another one
\* has no parent left: finish_execution never drops a dependent.  And no parent releases
\* a child twice, however often it is re-executed: the unsigned counter does not wrap
\* (the comment on children_released).
ParentsFirst ==
    /\ RemainingIsExact
    /\ \A t \in Txs : status[t] # "ReadyToExecute" \/ incarnation[t] > 0 =>
        /\ remaining[t] = 0
        /\ \A p \in parents[t] : execution_results[p] # {}

\* Every worker returned and nobody aborted: the results of all transactions are there
\* (graph_pevm.rs:239 unwraps them).
GraphJoinedHasResults ==
    AllDone /\ ~IsAborted => \A t \in Txs : execution_results[t] # {}

\* All workers return, whatever is blocked, aborted or left by a worker that went early:
\* no transaction's task gets lost, and the time-out is not needed.
GraphTermination == <>AllDone

\* "debug_assert_eq!(tx.status, IncarnationStatus::Aborting)" in set_ready_status.
SetReadyAsserts ==
    [][\A t \in Txs : status'[t] = "ReadyToExecute" /\ incarnation'[t] = incarnation[t] + 1
          => status[t] = "Aborting"]_<<vars, graphvars>>
=============================================================================
