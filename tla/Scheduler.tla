------------------------------ MODULE Scheduler ------------------------------
(***************************************************************************)
(* The collaborative scheduler of pevm (crates/pevm/src/scheduler.rs) and  *)
(* the worker threads that drive it (the scope of                          *)
(* Pevm::execute_revm_parallel, Pevm::try_execute and try_validate in      *)
(* pevm.rs).                                                               *)
(*                                                                         *)
(* A step is one access to an atomic, or one critical section of the       *)
(* mutex of a transaction's status.  finish_execution reads and writes     *)
(* several atomics while it holds that mutex, so it takes several steps    *)
(* during which the transaction is Locked.  What a transaction does is not *)
(* modelled here: its execution ends in any of the ways Vm::execute may    *)
(* end, and a validation accepts or refuses.  Module Pevm adds the memory. *)
(***************************************************************************)
EXTENDS Integers, FiniteSets

CONSTANTS
    BlockSize,      \* number of transactions of the block
    Workers         \* the threads, concurrency_level of them

ASSUME BlockSizeAssumption == BlockSize \in Nat \ {0}
ASSUME WorkersAssumption == Workers # {}

VARIABLES
    execution_idx,       \* next transaction to try and execute
    validation_idx,      \* next transaction to try and validate
    min_validation_idx,  \* lowest transaction that asked for validation
    num_validated,       \* number of validated transactions
    status,              \* TxStatus.status of every transaction
    incarnation,         \* TxStatus.incarnation of every transaction
    dependents,          \* transactions to resume once the key is executed
    abort_reason,        \* Pevm.abort_reason, set with Scheduler.aborted
    execution_results,   \* {i}: the result of incarnation i is stored; {}: None
    pc,                  \* where each worker is
    tx,                  \* the transaction a worker works on
    version,             \* the incarnation in the worker's TxVersion
    reg,                 \* the value a worker loaded and will use
    flags                \* the FinishExecFlags of the worker's execution

shared == <<execution_idx, validation_idx, min_validation_idx, num_validated>>
txvars == <<status, incarnation, dependents>>
locals == <<pc, tx, version, reg, flags>>
vars == <<shared, txvars, abort_reason, execution_results, locals>>

Txs == 0 .. BlockSize - 1

(***************************************************************************)
(* FinishExecFlags.  A bit mask is the set of its bits, so the mask 0 is   *)
(* the empty set and "contains" is set inclusion.                          *)
(***************************************************************************)
NeedValidation == {}
WroteNewLocation == {0}
HasFlag(mask, flag) == flag \subseteq mask

\* Faulty: a store that never lowers the counter.
LowerNot(a, b) == a

\* AtomicUsize::fetch_min
Lower(a, b) == IF a <= b THEN a ELSE b

IncarnationStatus ==
    {"ReadyToExecute", "Executing", "Executed", "Validated", "Aborting"}

Completed(t) == status[t] \in {"Executed", "Validated"}

(***************************************************************************)
(* The program counters.  A worker is inside finish_execution, holding the *)
(* status mutex of its transaction, at Finishing.                          *)
(***************************************************************************)
Finishing == {"resume", "resumeIdx", "checkIdx", "lowerMin", "lowerNext"}

PCs == Finishing \cup
    {"next", "loadExec", "loadValid", "loadCount", "loadMin", "takeValid",
     "lockValid", "takeExec", "tryExec", "execute", "block", "validate",
     "abort", "ready", "lowerAborted", "loadAborted", "retryExec", "accept",
     "gotNone", "gotExecution", "gotValidation", "done"}

Locked(t) == \E w \in Workers : pc[w] \in Finishing /\ tx[w] = t

Aborted == abort_reason # "none"

Goto(w, label) == pc' = [pc EXCEPT ![w] = label]

(***************************************************************************)
(* Scheduler::new, and workers about to ask for their first task.          *)
(***************************************************************************)
Init ==
    /\ execution_idx = 0
    /\ validation_idx = BlockSize
    /\ min_validation_idx = BlockSize
    /\ num_validated = 0
    /\ status = [t \in Txs |-> "ReadyToExecute"]
    /\ incarnation = [t \in Txs |-> 0]
    /\ dependents = [t \in Txs |-> {}]
    /\ abort_reason = "none"
    /\ execution_results = [t \in Txs |-> {}]
    /\ pc = [w \in Workers |-> "next"]
    /\ tx = [w \in Workers |-> 0]
    /\ version = [w \in Workers |-> 0]
    /\ reg = [w \in Workers |-> 0]
    /\ flags = [w \in Workers |-> {}]

-----------------------------------------------------------------------------
(* next_task *)

\* The loop condition: an aborted scheduler hands out no task.
NextTask(w) ==
    /\ pc[w] = "next"
    /\ Goto(w, IF Aborted THEN "done" ELSE "loadExec")
    /\ UNCHANGED <<shared, txvars, abort_reason, execution_results, tx, version, reg, flags>>

LoadExecutionIdx(w) ==
    /\ pc[w] = "loadExec"
    /\ reg' = [reg EXCEPT ![w] = execution_idx]
    /\ Goto(w, "loadValid")
    /\ UNCHANGED <<shared, txvars, abort_reason, execution_results, tx, version, flags>>

\* Faulty: one of the two indices past the block is enough.
LoadValidationIdxEither(w) ==
    /\ pc[w] = "loadValid"
    /\ Goto(w, IF reg[w] >= BlockSize \/ validation_idx >= BlockSize THEN "loadCount"
               ELSE IF validation_idx < reg[w] THEN "takeValid"
               ELSE "takeExec")
    /\ reg' = [reg EXCEPT ![w] = 0]
    /\ UNCHANGED <<shared, txvars, abort_reason, execution_results, tx, version, flags>>

\* Load validation_idx, then decide what to look for.
LoadValidationIdx(w) ==
    /\ pc[w] = "loadValid"
    /\ Goto(w, IF reg[w] >= BlockSize /\ validation_idx >= BlockSize THEN "loadCount"
               ELSE IF validation_idx < reg[w] THEN "takeValid"
               ELSE "takeExec")
    /\ reg' = [reg EXCEPT ![w] = 0]
    /\ UNCHANGED <<shared, txvars, abort_reason, execution_results, tx, version, flags>>

LoadNumValidated(w) ==
    /\ pc[w] = "loadCount"
    /\ reg' = [reg EXCEPT ![w] = num_validated]
    /\ Goto(w, "loadMin")
    /\ UNCHANGED <<shared, txvars, abort_reason, execution_results, tx, version, flags>>

\* Leave when enough transactions are validated, else yield and start over.
LoadMinValidationIdx(w) ==
    /\ pc[w] = "loadMin"
    /\ Goto(w, IF reg[w] >= BlockSize - min_validation_idx THEN "done" ELSE "next")
    /\ reg' = [reg EXCEPT ![w] = 0]
    /\ UNCHANGED <<shared, txvars, abort_reason, execution_results, tx, version, flags>>

TakeValidationIdx(w) ==
    /\ pc[w] = "takeValid"
    /\ validation_idx' = validation_idx + 1
    /\ IF validation_idx < BlockSize
         THEN /\ tx' = [tx EXCEPT ![w] = validation_idx]
              /\ Goto(w, "lockValid")
         ELSE /\ Goto(w, "takeExec")
              /\ UNCHANGED tx
    /\ UNCHANGED <<execution_idx, min_validation_idx, num_validated, txvars,
                   abort_reason, execution_results, version, reg, flags>>

\* Start executing t, under its mutex: the task is returned to pc "label".
StartExecution(w, t, label) ==
    /\ status' = [status EXCEPT ![t] = "Executing"]
    /\ version' = [version EXCEPT ![w] = incarnation[t]]
    /\ Goto(w, label)

\* Steal an execution, start a validation, look again, or fall back.
LockValidationTx(w) ==
    /\ pc[w] = "lockValid"
    /\ ~Locked(tx[w])
    /\ IF status[tx[w]] = "ReadyToExecute"
         THEN StartExecution(w, tx[w], "execute")
         ELSE /\ Goto(w, IF Completed(tx[w]) THEN "validate"
                         ELSE IF status[tx[w]] = "Aborting" THEN "next"
                         ELSE "takeExec")
              /\ version' = [version EXCEPT ![w] =
                                IF Completed(tx[w]) THEN incarnation[tx[w]] ELSE 0]
              /\ UNCHANGED status
    /\ tx' = [tx EXCEPT ![w] = IF status[@] \in {"Executing", "Aborting"} THEN 0 ELSE @]
    /\ UNCHANGED <<shared, incarnation, dependents, abort_reason, execution_results,
                   reg, flags>>

\* Faulty: the index is loaded and not advanced.
TakeExecutionIdxLoad(w) ==
    /\ pc[w] = "takeExec"
    /\ IF execution_idx < BlockSize
         THEN /\ tx' = [tx EXCEPT ![w] = execution_idx]
              /\ Goto(w, "tryExec")
         ELSE /\ Goto(w, "next")
              /\ UNCHANGED tx
    /\ UNCHANGED <<shared, txvars, abort_reason, execution_results, version, reg, flags>>

TakeExecutionIdx(w) ==
    /\ pc[w] = "takeExec"
    /\ execution_idx' = execution_idx + 1
    /\ IF execution_idx < BlockSize
         THEN /\ tx' = [tx EXCEPT ![w] = execution_idx]
              /\ Goto(w, "tryExec")
         ELSE /\ Goto(w, "next")
              /\ UNCHANGED tx
    /\ UNCHANGED <<validation_idx, min_validation_idx, num_validated, txvars,
                   abort_reason, execution_results, version, reg, flags>>

\* try_execute, called by next_task ("tryExec") or finish_validation ("retryExec").
TryExecute(w) ==
    /\ pc[w] \in {"tryExec", "retryExec"}
    /\ ~Locked(tx[w])
    /\ IF status[tx[w]] = "ReadyToExecute"
         THEN StartExecution(w, tx[w],
                             IF pc[w] = "tryExec" THEN "execute" ELSE "gotExecution")
         ELSE /\ Goto(w, IF pc[w] = "tryExec" THEN "next" ELSE "gotNone")
              /\ UNCHANGED <<status, version>>
    /\ tx' = [tx EXCEPT ![w] = IF status[@] = "ReadyToExecute" THEN @ ELSE 0]
    /\ UNCHANGED <<shared, incarnation, dependents, abort_reason, execution_results,
                   reg, flags>>

-----------------------------------------------------------------------------
(* Pevm::try_execute: the ways Vm::execute may end *)

\* Ok: store the result and enter finish_execution.  Vm::execute leaves
\* NeedValidation out for the first and for lazy transactions (vm.rs:697-701), which
\* makes no difference to a mask that is 0.
ExecuteOk(w, wrote) ==
    /\ pc[w] = "execute"
    /\ ~Locked(tx[w])
    /\ execution_results' = [execution_results EXCEPT ![tx[w]] = {version[w]}]
    /\ flags' = [flags EXCEPT ![w] = NeedValidation \cup wrote]
    /\ Goto(w, "resume")
    /\ UNCHANGED <<shared, txvars, abort_reason, tx, version, reg>>

\* Blocking(b): a lower transaction must run first.
ExecuteBlocked(w, b) ==
    /\ pc[w] = "execute"
    /\ reg' = [reg EXCEPT ![w] = b]
    /\ Goto(w, "block")
    /\ UNCHANGED <<shared, txvars, abort_reason, execution_results, tx, version, flags>>

\* FallbackToSequential or ExecutionError: abort, keeping the first reason.
ExecuteFatal(w, reason) ==
    /\ pc[w] = "execute"
    /\ abort_reason' = IF Aborted THEN abort_reason ELSE reason
    /\ Goto(w, "gotNone")
    /\ UNCHANGED <<shared, txvars, execution_results, tx, version, reg, flags>>

\* Retry: executes again at once (no change of state) unless aborted.
ExecuteRetry(w) ==
    /\ pc[w] = "execute"
    /\ Aborted
    /\ Goto(w, "gotNone")
    /\ UNCHANGED <<shared, txvars, abort_reason, execution_results, tx, version, reg, flags>>

\* add_dependency, and the retry when the blocking transaction is through.
AddDependency(w) ==
    LET b == reg[w] IN
    /\ pc[w] = "block"
    /\ ~Locked(b)
    /\ ~Locked(tx[w])
    /\ IF Completed(b)
         THEN /\ Goto(w, IF Aborted THEN "gotNone" ELSE "execute")
              /\ UNCHANGED <<status, dependents>>
         ELSE /\ status' = [status EXCEPT ![tx[w]] = "Aborting"]
              /\ dependents' = [dependents EXCEPT ![b] = @ \cup {tx[w]}]
              /\ Goto(w, "gotNone")
    /\ reg' = [reg EXCEPT ![w] = 0]
    /\ UNCHANGED <<shared, incarnation, abort_reason, execution_results, tx, version, flags>>

-----------------------------------------------------------------------------
(* finish_execution, holding the mutex of tx[w] *)

\* Faulty: the next incarnation has the number of the last.
SetReadyStatusAgain(t) ==
    /\ ~Locked(t)
    /\ status' = [status EXCEPT ![t] = "ReadyToExecute"]
    /\ UNCHANGED incarnation

SetReadyStatus(t) ==
    /\ ~Locked(t)
    /\ status' = [status EXCEPT ![t] = "ReadyToExecute"]
    /\ incarnation' = [incarnation EXCEPT ![t] = @ + 1]

\* Resume one dependent ...
ResumeDependent(w, d) ==
    /\ pc[w] = "resume"
    /\ d \in dependents[tx[w]]
    /\ SetReadyStatus(d)
    /\ dependents' = [dependents EXCEPT ![tx[w]] = @ \ {d}]
    /\ reg' = [reg EXCEPT ![w] = d]
    /\ Goto(w, "resumeIdx")
    /\ UNCHANGED <<shared, abort_reason, execution_results, tx, version, flags>>

\* ... and let the execution index come back to it.
ResumeExecutionIdx(w) ==
    /\ pc[w] = "resumeIdx"
    /\ execution_idx' = Lower(execution_idx, reg[w])
    /\ reg' = [reg EXCEPT ![w] = 0]
    /\ Goto(w, "resume")
    /\ UNCHANGED <<validation_idx, min_validation_idx, num_validated, txvars,
                   abort_reason, execution_results, tx, version, flags>>

\* The final status of the execution; "extra" is 1 where line 253 has
\* already counted the transaction.
EndExecution(w, extra) ==
    IF HasFlag(flags[w], NeedValidation)
      THEN /\ status' = [status EXCEPT ![tx[w]] = "Executed"]
           /\ UNCHANGED num_validated
      ELSE /\ status' = [status EXCEPT ![tx[w]] = "Validated"]
           /\ num_validated' = num_validated + 1 + extra

\* Decide where to validate from.
LowerMinValidationIdx(w) ==
    LET m == IF HasFlag(flags[w], NeedValidation)
               THEN Lower(min_validation_idx, tx[w])
               ELSE min_validation_idx
    IN
    /\ pc[w] = "resume"
    /\ dependents[tx[w]] = {}
    /\ min_validation_idx' = m
    /\ IF m >= BlockSize \/ (tx[w] < m /\ ~HasFlag(flags[w], WroteNewLocation))
         THEN /\ EndExecution(w, 0)
              /\ Goto(w, "gotNone")
              /\ UNCHANGED reg
         ELSE /\ Goto(w, IF tx[w] < m THEN "lowerMin" ELSE "checkIdx")
              /\ reg' = [reg EXCEPT ![w] = IF tx[w] < m THEN m ELSE 0]
              /\ UNCHANGED <<status, num_validated>>
    /\ UNCHANGED <<execution_idx, validation_idx, incarnation, dependents, abort_reason,
                   execution_results, tx, version, flags>>

\* Line 249: the status of an execution that validation has already passed by.
ReturnValidation(w, label) ==
    IF HasFlag(flags[w], NeedValidation)
      THEN EndExecution(w, 0) /\ Goto(w, "gotValidation")
      ELSE EndExecution(w, 1) /\ Goto(w, label)

\* Has the validation index passed this transaction already?
CheckValidationIdx(w) ==
    /\ pc[w] = "checkIdx"
    /\ IF tx[w] < validation_idx
         THEN IF HasFlag(flags[w], WroteNewLocation)
                THEN Goto(w, "lowerNext") /\ UNCHANGED <<status, num_validated>>
                ELSE ReturnValidation(w, "gotNone")
         ELSE EndExecution(w, 0) /\ Goto(w, "gotNone")
    /\ UNCHANGED <<execution_idx, validation_idx, min_validation_idx, incarnation,
                   dependents, abort_reason, execution_results, tx, version, reg, flags>>

\* A new location was written: higher transactions are validated again.
LowerValidationIdx(w) ==
    /\ pc[w] \in {"lowerMin", "lowerNext"}
    /\ validation_idx' = Lower(validation_idx, IF pc[w] = "lowerMin" THEN reg[w]
                                               ELSE tx[w] + 1)
    /\ IF pc[w] = "lowerMin" THEN EndExecution(w, 0) /\ Goto(w, "gotNone")
       ELSE ReturnValidation(w, "gotNone")
    /\ reg' = [reg EXCEPT ![w] = 0]
    /\ UNCHANGED <<execution_idx, min_validation_idx, incarnation, dependents,
                   abort_reason, execution_results, tx, version, flags>>

-----------------------------------------------------------------------------
(* try_validate *)

\* The verdict of validate_read_locations.
Validate(w, valid) ==
    /\ pc[w] = "validate"
    /\ Goto(w, IF valid THEN "accept" ELSE "abort")
    /\ UNCHANGED <<shared, txvars, abort_reason, execution_results, tx, version, reg, flags>>

TryValidationAbort(w) ==
    /\ pc[w] = "abort"
    /\ ~Locked(tx[w])
    /\ num_validated' = IF status[tx[w]] = "Validated" THEN num_validated - 1
                        ELSE num_validated
    /\ IF Completed(tx[w])
         THEN /\ status' = [status EXCEPT ![tx[w]] = "Aborting"]
              /\ Goto(w, "ready")
         ELSE /\ Goto(w, "accept")
              /\ UNCHANGED status
    /\ UNCHANGED <<execution_idx, validation_idx, min_validation_idx, incarnation,
                   dependents, abort_reason, execution_results, tx, version, reg, flags>>

\* finish_validation of an aborted transaction: ready again, ...
FinishAborted(w) ==
    /\ pc[w] = "ready"
    /\ SetReadyStatus(tx[w])
    /\ Goto(w, "lowerAborted")
    /\ UNCHANGED <<shared, dependents, abort_reason, execution_results, tx, version, reg, flags>>

\* ... the higher transactions are validated again, ...
LowerAfterAbort(w) ==
    /\ pc[w] = "lowerAborted"
    /\ validation_idx' = Lower(validation_idx, tx[w] + 1)
    /\ Goto(w, "loadAborted")
    /\ UNCHANGED <<execution_idx, min_validation_idx, num_validated, txvars,
                   abort_reason, execution_results, tx, version, reg, flags>>

\* ... and it is re-executed here unless the execution index will reach it.
LoadAfterAbort(w) ==
    /\ pc[w] = "loadAborted"
    /\ Goto(w, IF execution_idx > tx[w] THEN "retryExec" ELSE "gotNone")
    /\ UNCHANGED <<shared, txvars, abort_reason, execution_results, tx, version, reg, flags>>

\* finish_validation of a transaction that was not aborted.
FinishValidated(w) ==
    /\ pc[w] = "accept"
    /\ ~Locked(tx[w])
    /\ IF status[tx[w]] = "Executed"
         THEN /\ status' = [status EXCEPT ![tx[w]] = "Validated"]
              /\ num_validated' = num_validated + 1
         ELSE UNCHANGED <<status, num_validated>>
    /\ Goto(w, "gotNone")
    /\ UNCHANGED <<execution_idx, validation_idx, min_validation_idx, incarnation,
                   dependents, abort_reason, execution_results, tx, version, reg, flags>>

-----------------------------------------------------------------------------
(* The worker loop of execute_revm_parallel *)

\* The worker's TxVersion goes out of scope.
Forget(w) ==
    /\ tx' = [tx EXCEPT ![w] = 0]
    /\ version' = [version EXCEPT ![w] = 0]
    /\ flags' = [flags EXCEPT ![w] = {}]

\* A task function returned: leave on an abort, do the task, or ask for one.
TaskReturned(w) ==
    /\ pc[w] \in {"gotNone", "gotExecution", "gotValidation"}
    /\ Goto(w, IF Aborted THEN "done"
               ELSE IF pc[w] = "gotExecution" THEN "execute"
               ELSE IF pc[w] = "gotValidation" THEN "validate"
               ELSE "next")
    /\ IF pc[w] = "gotNone" THEN Forget(w) ELSE UNCHANGED <<tx, version, flags>>
    /\ UNCHANGED <<shared, txvars, abort_reason, execution_results, reg>>

\* The steps of a worker that do not depend on the memory.
SchedulerStep(w) ==
    \/ NextTask(w) \/ LoadExecutionIdx(w) \/ LoadValidationIdx(w)
    \/ LoadNumValidated(w) \/ LoadMinValidationIdx(w)
    \/ TakeValidationIdx(w) \/ LockValidationTx(w)
    \/ TakeExecutionIdx(w) \/ TryExecute(w)
    \/ AddDependency(w)
    \/ \E d \in Txs : ResumeDependent(w, d)
    \/ ResumeExecutionIdx(w) \/ LowerMinValidationIdx(w)
    \/ CheckValidationIdx(w) \/ LowerValidationIdx(w)
    \/ TryValidationAbort(w) \/ FinishAborted(w) \/ LowerAfterAbort(w)
    \/ LoadAfterAbort(w) \/ FinishValidated(w)
    \/ TaskReturned(w)

\* Vm::execute and validate_read_locations, as far as the scheduler can tell:
\* a transaction is blocked by a lower one only.
VmStep(w) ==
    \/ \E wrote \in {{}, WroteNewLocation} : ExecuteOk(w, wrote)
    \/ \E b \in Txs : b < tx[w] /\ ExecuteBlocked(w, b)
    \/ \E reason \in {"FallbackToSequential", "ExecutionError"} : ExecuteFatal(w, reason)
    \/ ExecuteRetry(w)
    \/ \E valid \in BOOLEAN : Validate(w, valid)

AllDone == \A w \in Workers : pc[w] = "done"

\* thread::scope has joined every worker.
Joined == AllDone /\ UNCHANGED vars

Next == (\E w \in Workers : SchedulerStep(w) \/ VmStep(w)) \/ Joined

Spec == Init /\ [][Next]_vars

-----------------------------------------------------------------------------
TypeOK ==
    /\ execution_idx \in Nat
    /\ validation_idx \in Nat
    /\ min_validation_idx \in 0 .. BlockSize
    /\ num_validated \in Int
    /\ status \in [Txs -> IncarnationStatus]
    /\ incarnation \in [Txs -> Nat]
    /\ dependents \in [Txs -> SUBSET Txs]
    /\ abort_reason \in {"none", "FallbackToSequential", "ExecutionError"}
    /\ execution_results \in [Txs -> SUBSET Nat]
    /\ pc \in [Workers -> PCs]
    /\ tx \in [Workers -> Txs]
    /\ version \in [Workers -> Nat]
    /\ reg \in [Workers -> Int]
    /\ flags \in [Workers -> SUBSET {0}]

\* The workers that execute a transaction, or hold the task to.
Owns(w) == pc[w] \in Finishing \cup {"execute", "block", "gotExecution"}

\* A transaction is executed by one worker at a time, which holds its current
\* incarnation: the debug_asserts of finish_execution and add_dependency.
SingleExecutor ==
    /\ \A w \in Workers : Owns(w) =>
          status[tx[w]] = "Executing" /\ version[w] = incarnation[tx[w]]
    /\ \A v, w \in Workers : Owns(v) /\ Owns(w) /\ tx[v] = tx[w] => v = w

\* An aborting transaction waits for one event only: the end of one lower
\* transaction's execution, or of one worker's abort.  Hence set_ready_status is
\* called on it once, while it aborts (its debug_assert), and no dependent is
\* added to a transaction that has already drained its own.
AbortingWaitsOnce ==
    /\ \A b \in Txs : \A d \in dependents[b] :
          b < d /\ status[d] = "Aborting" /\ ~Completed(b)
    /\ \A b, c \in Txs : dependents[b] \cap dependents[c] # {} => b = c
    /\ \A w \in Workers : pc[w] = "ready" =>
          status[tx[w]] = "Aborting" /\ \A b \in Txs : tx[w] \notin dependents[b]
    /\ \A v, w \in Workers : pc[v] = "ready" /\ pc[w] = "ready" /\ tx[v] = tx[w] => v = w
    /\ \A w \in Workers : pc[w] \in {"checkIdx", "lowerNext"} => dependents[tx[w]] = {}

\* A worker that will look at whether t is ready to execute.
WillTryExecution(w, t) ==
    \/ tx[w] = t /\ pc[w] \in {"lockValid", "tryExec", "lowerAborted", "loadAborted", "retryExec"}
    \/ reg[w] = t /\ pc[w] = "resumeIdx"

\* A worker that will validate t.
WillValidate(w, t) ==
    tx[w] = t /\ pc[w] \in {"lockValid", "gotValidation", "validate", "abort", "accept"}

\* What t needs next will be found: an index has not passed it yet, a lower
\* transaction will resume it, ...
WillBeReached(t) ==
    \/ status[t] = "ReadyToExecute" /\ execution_idx <= t
    \/ status[t] = "Executing" /\ Aborted
    \/ status[t] = "Executed" /\ (validation_idx <= t \/ Aborted)
    \/ status[t] = "Aborting" /\ \E b \in Txs : t \in dependents[b]
    \/ status[t] = "Validated"

\* ... or worker w is at it.
HasTask(w, t) ==
    \/ status[t] = "ReadyToExecute" /\ WillTryExecution(w, t)
    \/ status[t] = "Executing" /\ Owns(w) /\ tx[w] = t
    \/ status[t] = "Executed" /\ WillValidate(w, t)
    \/ status[t] = "Aborting" /\ pc[w] = "ready" /\ tx[w] = t

\* No transaction is forgotten: an index that passed a transaction before its
\* status changed is lowered again, or the worker that changed it goes on with it.
NoTaskLost ==
    \A t \in Txs : WillBeReached(t) \/ \E w \in Workers : HasTask(w, t)

\* The worker has no task.
Inactive(w) ==
    pc[w] \in {"next", "loadExec", "loadValid", "loadCount", "loadMin", "done"}

\* When nobody has a task, both indices are past the block, or some worker has yet
\* to load them and will not leave on values it loaded before they were lowered
\* (next_task).
LastWorkerLooksAgain ==
    (\A w \in Workers : Inactive(w)) /\ ~Aborted =>
        \/ execution_idx >= BlockSize /\ validation_idx >= BlockSize
        \/ \E w \in Workers : \/ pc[w] \in {"next", "loadExec"}
                              \/ (pc[w] = "loadValid" /\ reg[w] = execution_idx)

\* Every worker returned and none aborted: all transactions are validated and
\* the stored result of each is that of its last incarnation, so that
\* `take().unwrap()` on the results (pevm.rs:253) never panics.
JoinedMeansValidated ==
    AllDone /\ ~Aborted =>
        \A t \in Txs : status[t] = "Validated" /\ execution_results[t] = {incarnation[t]}

\* A change of the status of a transaction follows an arrow of the diagram of
\* lib.rs:121-129, and only the way back to ReadyToExecute counts an incarnation.
FollowsDiagram ==
    \A t \in Txs : status'[t] # status[t] =>
        LET step == <<status[t], status'[t]>> IN
        \/ /\ step \in {<<"ReadyToExecute", "Executing">>, <<"Executing", "Executed">>,
                        <<"Executed", "Validated">>, <<"Executed", "Aborting">>,
                        <<"Validated", "Aborting">>, <<"Executing", "Aborting">>}
           /\ incarnation'[t] = incarnation[t]
        \/ /\ step = <<"Aborting", "ReadyToExecute">>
           /\ incarnation'[t] = incarnation[t] + 1

\* The life of an incarnation: whatever the workers do to a transaction behind
\* each other's back, its status follows the diagram of lib.rs.
LifeCycle == [][FollowsDiagram]_vars

ValidatedTxs == {t \in Txs : status[t] = "Validated"}

\* num_validated counts the validated transactions, whatever the order in which
\* stale validations, aborts and executions of one transaction interleave.
CountIsExact == num_validated = Cardinality(ValidatedTxs)

=============================================================================
