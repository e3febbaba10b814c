--------------------------- MODULE SchedulerProofs ---------------------------
(***************************************************************************)
(* The theorems about the scheduler, for every block size and number of    *)
(* workers.  The inductive invariant IInv adds to the facts about the      *)
(* status mutexes (one executor per transaction, one event an aborting     *)
(* transaction waits for, the stored results, the count of validated       *)
(* transactions) that no task is lost and that the last worker to run out  *)
(* of tasks looks again.  One lemma per conjunct, with one step per action *)
(* that can disturb it.                                                    *)
(***************************************************************************)
EXTENDS Scheduler, FiniteSetTheorems, WellFoundedInduction, TLAPS

\* Zenon is the prover of a leaf that does not name another one.
USE Zenon

-----------------------------------------------------------------------------
(* What a step of a worker does to its own program counter and registers,  *)
(* and that it keeps the types of the variables                            *)

\* The transactions are the numbers below the block size.
LEMMA TxsFacts ==
    /\ \A t \in Txs : t \in Nat /\ t < BlockSize
    /\ \A n \in Nat : n < BlockSize => n \in Txs
    /\ 0 \in Txs
BY BlockSizeAssumption, SMT DEF Txs

\* fetch_min leaves the smaller of the two values, a natural number again.
LEMMA LowerFacts ==
    ASSUME NEW a \in Int, NEW b \in Int
    PROVE  Lower(a, b) \in {a, b} /\ Lower(a, b) <= a /\ Lower(a, b) <= b
BY SMT DEF Lower

\* An index lowered to an index is an index.
LEMMA LowerNat ==
    ASSUME NEW a \in Nat, NEW b \in Nat
    PROVE  Lower(a, b) \in Nat
BY DEF Lower

\* What a worker keeps between two steps of add_dependency and of
\* finish_execution: a register holds a transaction where it is used as one, and
\* a transaction that needs validation is never below the minimum it lowered.
RegisterOK ==
    \A w \in Workers :
      /\ pc[w] = "resumeIdx" => reg[w] \in Txs
      /\ pc[w] = "block" => reg[w] \in Txs /\ reg[w] < tx[w]
      /\ pc[w] # "lowerMin"

\* tx[w] is a transaction: LowerMinValidationIdx goes on to "checkIdx".
LEMMA MinAtMostTx ==
    ASSUME TypeOK, NEW w \in Workers
    PROVE  LET m == Lower(min_validation_idx, tx[w])
           IN  m \in 0 .. BlockSize /\ ~(m >= BlockSize) /\ ~(tx[w] < m)
<1>1. tx[w] \in Nat /\ tx[w] < BlockSize /\ min_validation_idx \in Nat
  BY TxsFacts, BlockSizeAssumption, SMT DEF TypeOK
<1>2. Lower(min_validation_idx, tx[w]) \in Nat /\ Lower(min_validation_idx, tx[w]) <= tx[w]
  BY <1>1, LowerFacts, SMT
<1> QED
  BY <1>1, <1>2, BlockSizeAssumption, SMT

\* Every step of a worker keeps the types.
LEMMA TypeStep ==
    ASSUME TypeOK, RegisterOK, NEW w \in Workers, SchedulerStep(w) \/ VmStep(w)
    PROVE  TypeOK'
<1> USE DEF Goto, TypeOK, shared, txvars, PCs, Finishing, IncarnationStatus
<1>1. CASE NextTask(w)
  BY <1>1 DEF NextTask
<1>2. CASE LoadExecutionIdx(w)
  BY <1>2, SMT DEF LoadExecutionIdx
<1>3. CASE LoadValidationIdx(w)
  BY <1>3, SMT DEF LoadValidationIdx
<1>4. CASE LoadNumValidated(w)
  BY <1>4 DEF LoadNumValidated
<1>5. CASE LoadMinValidationIdx(w)
  BY <1>5, SMT DEF LoadMinValidationIdx
<1>6. CASE TakeValidationIdx(w)
  <2>1. validation_idx < BlockSize => validation_idx \in Txs
    BY TxsFacts
  <2>2. validation_idx + 1 \in Nat
    BY SMT
  <2> QED
    BY <1>6, <2>1, <2>2, SMT DEF TakeValidationIdx
<1>7. CASE LockValidationTx(w)
  <2>1. 0 \in Txs
    BY TxsFacts
  <2>2. tx[w] \in Txs /\ incarnation[tx[w]] \in Nat
    OBVIOUS
  <2> QED
    BY <1>7, <2>1, <2>2, Z3 DEF LockValidationTx, StartExecution, Completed
<1>8. CASE TakeExecutionIdx(w)
  <2>1. execution_idx < BlockSize => execution_idx \in Txs
    BY TxsFacts
  <2>2. execution_idx + 1 \in Nat
    BY SMT
  <2> QED
    BY <1>8, <2>1, <2>2, SMT DEF TakeExecutionIdx
<1>9. CASE TryExecute(w)
  <2>1. 0 \in Txs
    BY TxsFacts
  <2>2. tx[w] \in Txs /\ incarnation[tx[w]] \in Nat
    OBVIOUS
  <2> QED
    BY <1>9, <2>1, <2>2, SMT DEF TryExecute, StartExecution
<1>10. CASE AddDependency(w)
  <2>1. reg[w] \in Txs
    BY <1>10 DEF RegisterOK, AddDependency
  <2>2. tx[w] \in Txs /\ dependents[reg[w]] \cup {tx[w]} \in SUBSET Txs
    BY <2>1
  <2>3. CASE Completed(reg[w])
    BY <1>10, <2>3, SMT DEF AddDependency
  <2>4. CASE ~Completed(reg[w])
    BY <1>10, <2>1, <2>2, <2>4, SMT DEF AddDependency
  <2> QED
    BY <2>3, <2>4
<1>11. ASSUME NEW d \in Txs, ResumeDependent(w, d) PROVE TypeOK'
  <2>1. incarnation[d] + 1 \in Nat
    BY SMT
  <2>2. d \in Int
    BY TxsFacts, SMT
  <2>3. tx[w] \in Txs /\ dependents[tx[w]] \ {d} \in SUBSET Txs
    OBVIOUS
  <2> QED
    BY <1>11, <2>1, <2>2, <2>3 DEF ResumeDependent, SetReadyStatus
<1>12. CASE ResumeExecutionIdx(w)
  <2>1. reg[w] \in Nat
    BY <1>12, TxsFacts DEF RegisterOK, ResumeExecutionIdx
  <2>2. Lower(execution_idx, reg[w]) \in Nat
    BY <2>1, LowerNat
  <2> QED
    BY <1>12, <2>1, <2>2, SMT DEF ResumeExecutionIdx
<1>13. CASE LowerMinValidationIdx(w)
  <2>1. LET m == Lower(min_validation_idx, tx[w])
       IN  m \in 0 .. BlockSize /\ ~(m >= BlockSize) /\ ~(tx[w] < m)
    BY MinAtMostTx
  <2> QED
    BY <1>13, <2>1, SMT DEF LowerMinValidationIdx, EndExecution, HasFlag, NeedValidation
<1>14. CASE CheckValidationIdx(w)
  BY <1>14, SMT
     DEF CheckValidationIdx, ReturnValidation, EndExecution, HasFlag, NeedValidation
<1>15. CASE LowerValidationIdx(w)
  <2>1. validation_idx \in Nat /\ tx[w] + 1 \in Nat
    BY TxsFacts, SMT
  <2>2. Lower(validation_idx, tx[w] + 1) \in Nat
    BY <2>1, LowerNat
  <2>3. pc[w] = "lowerNext"
    BY <1>15 DEF RegisterOK, LowerValidationIdx
  <2> QED
    BY <1>15, <2>2, <2>3, SMT
       DEF LowerValidationIdx, ReturnValidation, EndExecution, HasFlag, NeedValidation
<1>16. CASE TryValidationAbort(w)
  <2>1. num_validated - 1 \in Int
    BY SMT
  <2> QED
    BY <1>16, <2>1, SMT DEF TryValidationAbort, Completed
<1>17. CASE FinishAborted(w)
  <2>1. tx[w] \in Txs /\ incarnation[tx[w]] + 1 \in Nat
    BY SMT
  <2> QED
    BY <1>17, <2>1 DEF FinishAborted, SetReadyStatus
<1>18. CASE LowerAfterAbort(w)
  <2>1. validation_idx \in Nat /\ tx[w] + 1 \in Nat
    BY TxsFacts, SMT
  <2>2. Lower(validation_idx, tx[w] + 1) \in Nat
    BY <2>1, LowerNat
  <2> QED
    BY <1>18, <2>1, <2>2 DEF LowerAfterAbort
<1>19. CASE LoadAfterAbort(w)
  BY <1>19 DEF LoadAfterAbort
<1>20. CASE FinishValidated(w)
  <2>1. num_validated + 1 \in Int
    BY SMT
  <2> QED
    BY <1>20, <2>1, SMT DEF FinishValidated
<1>21. CASE TaskReturned(w)
  <2>1. 0 \in Txs
    BY TxsFacts
  <2> QED
    BY <1>21, <2>1, SMT DEF TaskReturned, Forget
<1>22. ASSUME NEW f \in {{}, WroteNewLocation}, ExecuteOk(w, f) PROVE TypeOK'
  <2>1. NeedValidation \cup f \in SUBSET {0}
    BY DEF NeedValidation, WroteNewLocation
  <2>2. tx[w] \in Txs /\ {version[w]} \in SUBSET Nat
    OBVIOUS
  <2> QED
    BY <1>22, <2>1, <2>2 DEF ExecuteOk
<1>23. ASSUME NEW b \in Txs, b < tx[w], ExecuteBlocked(w, b) PROVE TypeOK'
  <2>1. b \in Int
    BY TxsFacts, SMT
  <2> QED
    BY <1>23, <2>1 DEF ExecuteBlocked
<1>24. ASSUME NEW r \in {"FallbackToSequential", "ExecutionError"}, ExecuteFatal(w, r) PROVE TypeOK'
  BY <1>24 DEF ExecuteFatal
<1>25. CASE ExecuteRetry(w)
  BY <1>25 DEF ExecuteRetry
<1>26. ASSUME NEW v \in BOOLEAN, Validate(w, v) PROVE TypeOK'
  BY <1>26 DEF Validate
<1>27. CASE SchedulerStep(w)
  BY <1>27, <1>1, <1>2, <1>3, <1>4, <1>5, <1>6, <1>7, <1>8, <1>9, <1>10, <1>11, <1>12,
     <1>13, <1>14, <1>15, <1>16, <1>17, <1>18, <1>19, <1>20, <1>21
     DEF SchedulerStep
<1>28. CASE VmStep(w)
  BY <1>28, <1>22, <1>23, <1>24, <1>25, <1>26 DEF VmStep
<1> QED
  BY <1>27, <1>28

\* What a step of w leaves alone in the other workers.
OthersKept(w) ==
    \A v \in Workers : v # w =>
        pc'[v] = pc[v] /\ tx'[v] = tx[v] /\ version'[v] = version[v] /\ reg'[v] = reg[v]

\* A step of a worker changes no local variable of another, and its own register
\* holds a transaction where it is used as one.
LEMMA LocalStep ==
    ASSUME TypeOK, RegisterOK, NEW w \in Workers, SchedulerStep(w) \/ VmStep(w)
    PROVE  OthersKept(w) /\ RegisterOK'
<1> USE DEF Goto, OthersKept, RegisterOK, TypeOK
<1>1. CASE NextTask(w)
  BY <1>1, TxsFacts DEF NextTask
<1>2. CASE LoadExecutionIdx(w)
  BY <1>2, TxsFacts DEF LoadExecutionIdx
<1>3. CASE LoadValidationIdx(w)
  BY <1>3, TxsFacts DEF LoadValidationIdx
<1>4. CASE LoadNumValidated(w)
  BY <1>4, TxsFacts DEF LoadNumValidated
<1>5. CASE LoadMinValidationIdx(w)
  BY <1>5, TxsFacts DEF LoadMinValidationIdx
<1>6. CASE TakeValidationIdx(w)
  BY <1>6, TxsFacts, SMT DEF TakeValidationIdx
<1>7. CASE LockValidationTx(w)
  BY <1>7, TxsFacts, SMT DEF LockValidationTx, StartExecution, Completed
<1>8. CASE TakeExecutionIdx(w)
  BY <1>8, TxsFacts, SMT DEF TakeExecutionIdx
<1>9. CASE TryExecute(w)
  BY <1>9, TxsFacts, SMT DEF TryExecute, StartExecution
<1>10. CASE AddDependency(w)
  BY <1>10, TxsFacts, SMT DEF AddDependency, Completed
<1>11. ASSUME NEW d \in Txs, ResumeDependent(w, d) PROVE OthersKept(w) /\ RegisterOK'
  BY <1>11, TxsFacts DEF ResumeDependent, SetReadyStatus
<1>12. CASE ResumeExecutionIdx(w)
  BY <1>12, TxsFacts DEF ResumeExecutionIdx
<1>13. CASE LowerMinValidationIdx(w)
  <2>1. LET m == Lower(min_validation_idx, tx[w]) IN ~(m >= BlockSize) /\ ~(tx[w] < m)
    BY MinAtMostTx
  <2> QED
    BY <1>13, <2>1, SMT DEF LowerMinValidationIdx, EndExecution, HasFlag, NeedValidation
<1>14. CASE CheckValidationIdx(w)
  BY <1>14, TxsFacts, SMT
     DEF CheckValidationIdx, ReturnValidation, EndExecution, HasFlag, NeedValidation
<1>15. CASE LowerValidationIdx(w)
  BY <1>15, TxsFacts
     DEF LowerValidationIdx, ReturnValidation, EndExecution, HasFlag, NeedValidation
<1>16. CASE TryValidationAbort(w)
  BY <1>16, TxsFacts, SMT DEF TryValidationAbort, Completed
<1>17. CASE FinishAborted(w)
  BY <1>17, TxsFacts DEF FinishAborted, SetReadyStatus
<1>18. CASE LowerAfterAbort(w)
  BY <1>18, TxsFacts DEF LowerAfterAbort
<1>19. CASE LoadAfterAbort(w)
  BY <1>19, TxsFacts DEF LoadAfterAbort
<1>20. CASE FinishValidated(w)
  BY <1>20, TxsFacts DEF FinishValidated
<1>21. CASE TaskReturned(w)
  BY <1>21, TxsFacts, SMT DEF TaskReturned, Forget
<1>22. ASSUME NEW f \in {{}, WroteNewLocation}, ExecuteOk(w, f) PROVE OthersKept(w) /\ RegisterOK'
  BY <1>22, TxsFacts DEF ExecuteOk, NeedValidation
<1>23. ASSUME NEW b \in Txs, b < tx[w], ExecuteBlocked(w, b) PROVE OthersKept(w) /\ RegisterOK'
  BY <1>23, TxsFacts DEF ExecuteBlocked
<1>24. ASSUME NEW r \in {"FallbackToSequential", "ExecutionError"}, ExecuteFatal(w, r) PROVE OthersKept(w) /\ RegisterOK'
  BY <1>24, TxsFacts DEF ExecuteFatal
<1>25. CASE ExecuteRetry(w)
  BY <1>25, TxsFacts DEF ExecuteRetry
<1>26. ASSUME NEW v \in BOOLEAN, Validate(w, v) PROVE OthersKept(w) /\ RegisterOK'
  BY <1>26, TxsFacts DEF Validate
<1>27. CASE SchedulerStep(w)
  BY <1>27, <1>1, <1>2, <1>3, <1>4, <1>5, <1>6, <1>7, <1>8, <1>9, <1>10, <1>11, <1>12,
     <1>13, <1>14, <1>15, <1>16, <1>17, <1>18, <1>19, <1>20, <1>21
     DEF SchedulerStep
<1>28. CASE VmStep(w)
  BY <1>28, <1>22, <1>23, <1>24, <1>25, <1>26 DEF VmStep
<1> QED
  BY <1>27, <1>28

\* A step that changes no status, and by which w does not come to execute another
\* transaction, to hold a mutex or to abort a transaction.
Quiet(w) ==
    /\ UNCHANGED <<status, incarnation, dependents, num_validated, execution_results>>
    /\ pc'[w] \notin {"ready", "checkIdx", "lowerNext"}
    /\ Owns(w)' => Owns(w) /\ tx'[w] = tx[w] /\ version'[w] = version[w]
    /\ pc'[w] \in Finishing => pc[w] \in Finishing

\* The steps that are not quiet.
Loud(w) ==
    \/ LockValidationTx(w) \/ TryExecute(w) \/ AddDependency(w)
    \/ \E d \in Txs : ResumeDependent(w, d)
    \/ LowerMinValidationIdx(w) \/ CheckValidationIdx(w) \/ LowerValidationIdx(w)
    \/ TryValidationAbort(w) \/ FinishAborted(w) \/ FinishValidated(w)
    \/ \E wrote \in {{}, WroteNewLocation} : ExecuteOk(w, wrote)

\* Every step of a worker is one or the other.
LEMMA QuietOrLoud ==
    ASSUME TypeOK, NEW w \in Workers, SchedulerStep(w) \/ VmStep(w)
    PROVE  Quiet(w) \/ Loud(w)
<1> USE DEF Goto, Quiet, Owns, Finishing, TypeOK, shared, txvars
<1>1. ASSUME NextTask(w) PROVE Quiet(w)
  BY <1>1 DEF NextTask
<1>2. ASSUME LoadExecutionIdx(w) PROVE Quiet(w)
  BY <1>2 DEF LoadExecutionIdx
<1>3. ASSUME LoadValidationIdx(w) PROVE Quiet(w)
  BY <1>3 DEF LoadValidationIdx
<1>4. ASSUME LoadNumValidated(w) PROVE Quiet(w)
  BY <1>4 DEF LoadNumValidated
<1>5. ASSUME LoadMinValidationIdx(w) PROVE Quiet(w)
  BY <1>5 DEF LoadMinValidationIdx
<1>6. ASSUME TakeValidationIdx(w) PROVE Quiet(w)
  BY <1>6 DEF TakeValidationIdx
<1>7. ASSUME TakeExecutionIdx(w) PROVE Quiet(w)
  BY <1>7 DEF TakeExecutionIdx
<1>8. ASSUME ResumeExecutionIdx(w) PROVE Quiet(w)
  BY <1>8 DEF ResumeExecutionIdx
<1>9. ASSUME LowerAfterAbort(w) PROVE Quiet(w)
  BY <1>9 DEF LowerAfterAbort
<1>10. ASSUME LoadAfterAbort(w) PROVE Quiet(w)
  BY <1>10 DEF LoadAfterAbort
<1>11. ASSUME TaskReturned(w) PROVE Quiet(w)
  BY <1>11 DEF TaskReturned, Forget
<1>12. ASSUME NEW b \in Txs, ExecuteBlocked(w, b) PROVE Quiet(w)
  BY <1>12 DEF ExecuteBlocked
<1>13. ASSUME NEW r, ExecuteFatal(w, r) PROVE Quiet(w)
  BY <1>13 DEF ExecuteFatal
<1>14. ASSUME ExecuteRetry(w) PROVE Quiet(w)
  BY <1>14 DEF ExecuteRetry
<1>15. ASSUME NEW v \in BOOLEAN, Validate(w, v) PROVE Quiet(w)
  BY <1>15 DEF Validate
<1>16. CASE SchedulerStep(w)
  BY <1>16, <1>1, <1>2, <1>3, <1>4, <1>5, <1>6, <1>7, <1>8, <1>9, <1>10, <1>11
     DEF SchedulerStep, Loud
<1>17. CASE VmStep(w)
  BY <1>17, <1>12, <1>13, <1>14, <1>15 DEF VmStep, Loud
<1> QED
  BY <1>16, <1>17

-----------------------------------------------------------------------------
(* What the status mutexes protect *)

\* A transaction has one executor.  The status goes to Executing only from
\* ReadyToExecute, when no worker owns the transaction, and set_ready_status
\* is only ever called on an aborting one.
LEMMA SingleExecutorStep ==
    ASSUME TypeOK, RegisterOK, SingleExecutor, AbortingWaitsOnce,
           NEW w \in Workers, SchedulerStep(w) \/ VmStep(w)
    PROVE  SingleExecutor'
<1>   OthersKept(w)
  BY LocalStep
<1>1. CASE Quiet(w)
  BY <1>1, SMT DEF Quiet, SingleExecutor, Owns, OthersKept
<1>2. CASE LockValidationTx(w)
  BY <1>2, SMT
     DEF LockValidationTx, Goto, StartExecution, Completed, SingleExecutor, Owns,
         OthersKept, TypeOK, Finishing, shared, txvars
<1>3. CASE TryExecute(w)
  BY <1>3, SMT
     DEF TryExecute, Goto, StartExecution, SingleExecutor, Owns, OthersKept, TypeOK,
         Finishing, shared, txvars
<1>4. CASE AddDependency(w)
  BY <1>4, SMT
     DEF AddDependency, Goto, Completed, SingleExecutor, Owns, OthersKept, TypeOK,
         Finishing, shared, txvars
<1>5. ASSUME NEW d \in Txs, ResumeDependent(w, d) PROVE SingleExecutor'
  <2>1. status[d] = "Aborting" /\ d \in Txs /\ pc[w] = "resume"
    BY <1>5 DEF ResumeDependent, AbortingWaitsOnce, TypeOK
  <2>2. status' = [status EXCEPT ![d] = "ReadyToExecute"] /\ incarnation' = [incarnation EXCEPT ![d] = @ + 1]
    BY <1>5 DEF ResumeDependent, SetReadyStatus
  <2>3. pc' = [pc EXCEPT ![w] = "resumeIdx"] /\ UNCHANGED <<tx, version>>
    BY <1>5 DEF ResumeDependent, Goto
  <2> QED
    BY <2>1, <2>2, <2>3, SMT DEF SingleExecutor, Owns, TypeOK, Finishing
<1>6. CASE LowerMinValidationIdx(w)
  BY <1>6, SMT
     DEF LowerMinValidationIdx, Goto, EndExecution, HasFlag, NeedValidation, Lower,
         SingleExecutor, Owns, OthersKept, TypeOK, Finishing, shared, txvars
<1>7. CASE CheckValidationIdx(w)
  BY <1>7, SMT
     DEF CheckValidationIdx, Goto, ReturnValidation, EndExecution, HasFlag,
         NeedValidation, SingleExecutor, Owns, OthersKept, TypeOK, Finishing, shared,
         txvars
<1>8. CASE LowerValidationIdx(w)
  BY <1>8, SMT
     DEF LowerValidationIdx, Goto, ReturnValidation, EndExecution, HasFlag,
         NeedValidation, Lower, SingleExecutor, Owns, OthersKept, TypeOK, Finishing,
         shared, txvars
<1>9. CASE TryValidationAbort(w)
  BY <1>9, SMTT(30)
     DEF TryValidationAbort, Goto, Completed, SingleExecutor, Owns, OthersKept, TypeOK,
         Finishing, shared, txvars
<1>10. CASE FinishAborted(w)
  <2>1. status[tx[w]] = "Aborting" /\ tx[w] \in Txs
    BY <1>10 DEF FinishAborted, AbortingWaitsOnce, TypeOK
  <2>2. status' = [status EXCEPT ![tx[w]] = "ReadyToExecute"] /\ incarnation' = [incarnation EXCEPT ![tx[w]] = @ + 1]
    BY <1>10 DEF FinishAborted, SetReadyStatus
  <2>3. pc' = [pc EXCEPT ![w] = "lowerAborted"] /\ UNCHANGED <<tx, version>>
    BY <1>10 DEF FinishAborted, Goto
  <2> QED
    BY <2>1, <2>2, <2>3, SMT DEF SingleExecutor, Owns, TypeOK, Finishing
<1>11. CASE FinishValidated(w)
  BY <1>11, SMT
     DEF FinishValidated, Goto, SingleExecutor, Owns, OthersKept, TypeOK, Finishing,
         shared, txvars
<1>12. ASSUME NEW f \in {{}, WroteNewLocation}, ExecuteOk(w, f) PROVE SingleExecutor'
  BY <1>12, SMT
     DEF ExecuteOk, Goto, NeedValidation, SingleExecutor, Owns, OthersKept, TypeOK,
         Finishing, shared, txvars
<1> QED
  BY <1>1, <1>2, <1>3, <1>4, <1>5, <1>6, <1>7, <1>8, <1>9, <1>10, <1>11, <1>12,
     QuietOrLoud
     DEF Loud

\* An execution that ends releases nobody: finish_execution has drained the
\* dependents before it gives the transaction its final status.
LEMMA ExecutedKeepsAborting ==
    ASSUME TypeOK, AbortingWaitsOnce, NEW w \in Workers, OthersKept(w),
           dependents[tx[w]] = {}, status[tx[w]] = "Executing", tx[w] \in Txs,
           status' = status \/ status' = [status EXCEPT ![tx[w]] = "Executed"],
           UNCHANGED <<dependents, tx>>, pc'[w] # "ready"
    PROVE  AbortingWaitsOnce'
<1>1. \A v \in Workers : pc'[v] = "ready" => v # w /\ pc[v] = "ready" /\ tx[v] # tx[w]
  BY SMT DEF OthersKept, AbortingWaitsOnce
<1>2. \A v \in Workers : pc'[v] \in {"checkIdx", "lowerNext"} => dependents'[tx'[v]] = {}
  BY DEF OthersKept, AbortingWaitsOnce
<1>3. CASE status' = status
  BY <1>1, <1>2, <1>3, SMT DEF AbortingWaitsOnce, Completed
<1>4. CASE status' = [status EXCEPT ![tx[w]] = "Executed"]
  <2>1. \A b \in Txs : \A d \in dependents[b] :
            b < d /\ status'[d] = "Aborting" /\ status'[b] \notin {"Executed", "Validated"}
    BY <1>4 DEF AbortingWaitsOnce, Completed, TypeOK
  <2>2. \A v \in Workers : pc'[v] = "ready" => status'[tx[v]] = "Aborting"
    BY <1>1, <1>4 DEF AbortingWaitsOnce, TypeOK
  <2> QED
    BY <1>1, <1>2, <2>1, <2>2, SMT DEF AbortingWaitsOnce, Completed
<1> QED
  BY <1>3, <1>4

\* An aborting transaction waits for one event.  add_dependency takes the
\* mutex of the blocking transaction, so that it never adds a dependent to
\* one that has drained its dependents.
LEMMA AbortingWaitsOnceStep ==
    ASSUME TypeOK, RegisterOK, SingleExecutor, AbortingWaitsOnce,
           NEW w \in Workers, SchedulerStep(w) \/ VmStep(w)
    PROVE  AbortingWaitsOnce'
<1>   OthersKept(w)
  BY LocalStep
<1>1. CASE Quiet(w)
  <2>1. \A v \in Workers : pc'[v] \in {"ready", "checkIdx", "lowerNext"} =>
                             pc[v] = pc'[v] /\ tx[v] = tx'[v]
    BY <1>1 DEF Quiet, OthersKept
  <2> QED
    BY <1>1, <2>1, SMT DEF Quiet, AbortingWaitsOnce, Completed
<1>2. CASE LockValidationTx(w)
  BY <1>2, SMTT(30)
     DEF LockValidationTx, Goto, StartExecution, AbortingWaitsOnce, SingleExecutor, Owns,
         OthersKept, Completed, TypeOK, Finishing, shared, txvars
<1>3. CASE TryExecute(w)
  BY <1>3, SMT
     DEF TryExecute, Goto, StartExecution, AbortingWaitsOnce, SingleExecutor, Owns,
         OthersKept, Completed, TypeOK, Finishing, shared, txvars
<1>4. CASE AddDependency(w)
  <2>1. tx[w] \in Txs /\ reg[w] \in Txs /\ reg[w] < tx[w] /\ status[tx[w]] = "Executing"
    BY <1>4 DEF AddDependency, RegisterOK, SingleExecutor, Owns, TypeOK
  <2>2. CASE Completed(reg[w])
    <3>1. UNCHANGED <<status, dependents, tx>> /\ pc'[w] \in {"gotNone", "execute"}
      BY <1>4, <2>2 DEF AddDependency, Goto, TypeOK
    <3>2. \A v \in Workers : pc'[v] \in {"ready", "checkIdx", "lowerNext"} => pc[v] = pc'[v]
      BY <3>1 DEF OthersKept
    <3> QED
      BY <3>1, <3>2, SMT DEF AbortingWaitsOnce, Completed
  <2>3. CASE ~Completed(reg[w])
    <3>1. /\ status' = [status EXCEPT ![tx[w]] = "Aborting"] 
          /\ dependents' = [dependents EXCEPT ![reg[w]] = @ \cup {tx[w]}]
          /\ pc' = [pc EXCEPT ![w] = "gotNone"]
          /\ UNCHANGED tx
      BY <1>4, <2>3 DEF AddDependency, Goto
    <3>2. \A b \in Txs : tx[w] \notin dependents[b]
      BY <2>1 DEF AbortingWaitsOnce
    <3>3. \A v \in Workers : pc[v] = "ready" => tx[v] # tx[w]
      BY <2>1 DEF AbortingWaitsOnce
    <3>4. \A v \in Workers : pc[v] \in {"checkIdx", "lowerNext"} => tx[v] # reg[w]
      BY <1>4 DEF AddDependency, Locked, Finishing
    <3> QED
      BY <2>1, <2>3, <3>1, <3>2, <3>3, <3>4, SMT DEF AbortingWaitsOnce, Completed, TypeOK
  <2> QED
    BY <2>2, <2>3
<1>5. ASSUME NEW d \in Txs, ResumeDependent(w, d) PROVE AbortingWaitsOnce'
  BY <1>5, SMT
     DEF ResumeDependent, Goto, SetReadyStatus, AbortingWaitsOnce, SingleExecutor, Owns,
         OthersKept, Completed, TypeOK, Finishing, shared, txvars
<1>6. CASE LowerMinValidationIdx(w)
  <2>1. dependents[tx[w]] = {} /\ status[tx[w]] = "Executing" /\ tx[w] \in Txs
    BY <1>6
       DEF LowerMinValidationIdx, AbortingWaitsOnce, SingleExecutor, Owns, RegisterOK,
           TypeOK, Finishing
  <2>2. status' = status \/ status' = [status EXCEPT ![tx[w]] = "Executed"]
    BY <1>6 DEF LowerMinValidationIdx, EndExecution, HasFlag, NeedValidation
  <2>3. UNCHANGED <<dependents, tx>> /\ pc'[w] # "ready"
    BY <1>6
       DEF LowerMinValidationIdx, EndExecution, HasFlag, NeedValidation, Goto, TypeOK
  <2> QED
    BY <2>1, <2>2, <2>3, ExecutedKeepsAborting
<1>7. CASE CheckValidationIdx(w)
  <2>1. dependents[tx[w]] = {} /\ status[tx[w]] = "Executing" /\ tx[w] \in Txs
    BY <1>7
       DEF CheckValidationIdx, AbortingWaitsOnce, SingleExecutor, Owns, RegisterOK,
           TypeOK, Finishing
  <2>2. status' = status \/ status' = [status EXCEPT ![tx[w]] = "Executed"]
    BY <1>7
       DEF CheckValidationIdx, ReturnValidation, EndExecution, HasFlag, NeedValidation
  <2>3. UNCHANGED <<dependents, tx>> /\ pc'[w] # "ready"
    BY <1>7
       DEF CheckValidationIdx, ReturnValidation, EndExecution, HasFlag, NeedValidation,
           Goto, TypeOK
  <2> QED
    BY <2>1, <2>2, <2>3, ExecutedKeepsAborting
<1>8. CASE LowerValidationIdx(w)
  <2>1. dependents[tx[w]] = {} /\ status[tx[w]] = "Executing" /\ tx[w] \in Txs
    BY <1>8
       DEF LowerValidationIdx, AbortingWaitsOnce, SingleExecutor, Owns, RegisterOK,
           TypeOK, Finishing
  <2>2. status' = status \/ status' = [status EXCEPT ![tx[w]] = "Executed"]
    BY <1>8
       DEF LowerValidationIdx, ReturnValidation, EndExecution, HasFlag, NeedValidation
  <2>3. UNCHANGED <<dependents, tx>> /\ pc'[w] # "ready"
    BY <1>8
       DEF LowerValidationIdx, ReturnValidation, EndExecution, HasFlag, NeedValidation,
           Goto, TypeOK
  <2> QED
    BY <2>1, <2>2, <2>3, ExecutedKeepsAborting
<1>9. CASE TryValidationAbort(w)
  <2>1. tx[w] \in Txs /\ UNCHANGED <<dependents, tx>>
    BY <1>9 DEF TryValidationAbort, TypeOK
  <2>2. CASE Completed(tx[w])
    <3>1. status' = [status EXCEPT ![tx[w]] = "Aborting"] /\ pc' = [pc EXCEPT ![w] = "ready"]
      BY <1>9, <2>2 DEF TryValidationAbort, Goto
    <3>2. \A b \in Txs : tx[w] \notin dependents[b]
      BY <2>2 DEF Completed, AbortingWaitsOnce
    <3>3. \A v \in Workers : pc[v] = "ready" => tx[v] # tx[w]
      BY <2>2 DEF Completed, AbortingWaitsOnce
    <3> QED
      BY <2>1, <3>1, <3>2, <3>3, SMT DEF AbortingWaitsOnce, Completed, TypeOK
  <2>3. CASE ~Completed(tx[w])
    <3>1. UNCHANGED status /\ pc'[w] = "accept"
      BY <1>9, <2>3 DEF TryValidationAbort, Goto, TypeOK
    <3>2. \A v \in Workers : pc'[v] \in {"ready", "checkIdx", "lowerNext"} => pc[v] = pc'[v]
      BY <3>1 DEF OthersKept
    <3> QED
      BY <2>1, <3>1, <3>2, SMT DEF AbortingWaitsOnce, Completed
  <2> QED
    BY <2>2, <2>3
<1>10. CASE FinishAborted(w)
  BY <1>10, SMT
     DEF FinishAborted, Goto, SetReadyStatus, AbortingWaitsOnce, SingleExecutor, Owns,
         OthersKept, Completed, TypeOK, Finishing, shared, txvars
<1>11. CASE FinishValidated(w)
  BY <1>11, SMT
     DEF FinishValidated, Goto, AbortingWaitsOnce, SingleExecutor, Owns, OthersKept,
         Completed, TypeOK, Finishing, shared, txvars
<1>12. ASSUME NEW f \in {{}, WroteNewLocation}, ExecuteOk(w, f) PROVE AbortingWaitsOnce'
  BY <1>12, SMT
     DEF ExecuteOk, Goto, NeedValidation, AbortingWaitsOnce, SingleExecutor, Owns,
         OthersKept, Completed, TypeOK, Finishing, shared, txvars
<1> QED
  BY <1>1, <1>2, <1>3, <1>4, <1>5, <1>6, <1>7, <1>8, <1>9, <1>10, <1>11, <1>12,
     QuietOrLoud
     DEF Loud

\* The result of an execution is stored before the execution ends.
ResultsStored ==
    /\ \A t \in Txs : Completed(t) => execution_results[t] = {incarnation[t]}
    /\ \A w \in Workers : pc[w] \in Finishing => execution_results[tx[w]] = {version[w]}

\* A completed transaction keeps the result of its last incarnation.
LEMMA ResultsStep ==
    ASSUME TypeOK, RegisterOK, SingleExecutor, AbortingWaitsOnce, ResultsStored,
           NEW w \in Workers, SchedulerStep(w) \/ VmStep(w)
    PROVE  ResultsStored'
<1>   OthersKept(w)
  BY LocalStep
<1>1. CASE Quiet(w)
  <2>1. \A v \in Workers : pc'[v] \in Finishing =>
                             pc[v] \in Finishing /\ tx'[v] = tx[v] /\ version'[v] = version[v]
    BY <1>1 DEF Quiet, OthersKept, Owns
  <2> QED
    BY <1>1, <2>1 DEF Quiet, ResultsStored, Completed
<1>2. CASE LockValidationTx(w)
  BY <1>2, SMT
     DEF LockValidationTx, Goto, StartExecution, ResultsStored, SingleExecutor, Owns,
         OthersKept, Completed, TypeOK, Finishing, shared, txvars
<1>3. CASE TryExecute(w)
  BY <1>3, SMT
     DEF TryExecute, Goto, StartExecution, ResultsStored, SingleExecutor, Owns,
         OthersKept, Completed, TypeOK, Finishing, shared, txvars
<1>4. CASE AddDependency(w)
  BY <1>4, SMT
     DEF AddDependency, Goto, ResultsStored, SingleExecutor, Owns, OthersKept, Completed,
         TypeOK, Finishing, shared, txvars
<1>5. ASSUME NEW d \in Txs, ResumeDependent(w, d) PROVE ResultsStored'
  BY <1>5, SMT
     DEF ResumeDependent, Goto, SetReadyStatus, ResultsStored, SingleExecutor, Owns,
         OthersKept, Completed, TypeOK, Finishing, shared, txvars
<1>6. CASE LowerMinValidationIdx(w)
  <2>1. status' = status \/ status' = [status EXCEPT ![tx[w]] = "Executed"]
    BY <1>6 DEF LowerMinValidationIdx, EndExecution, HasFlag, NeedValidation
  <2>2. UNCHANGED <<incarnation, execution_results, tx, version>> /\ pc[w] \in Finishing
    BY <1>6 DEF LowerMinValidationIdx, Finishing
  <2>3. execution_results[tx[w]] = {incarnation[tx[w]]}
    BY <2>2, SMT DEF ResultsStored, SingleExecutor, Owns
  <2>4. \A v \in Workers : pc'[v] \in Finishing => pc[v] \in Finishing
    BY <2>2 DEF OthersKept
  <2>5. \A t \in Txs : Completed(t)' => Completed(t) \/ t = tx[w]
    BY <2>1 DEF Completed, TypeOK
  <2> QED
    BY <2>2, <2>3, <2>4, <2>5 DEF ResultsStored
<1>7. CASE CheckValidationIdx(w)
  <2>1. status' = status \/ status' = [status EXCEPT ![tx[w]] = "Executed"]
    BY <1>7
       DEF CheckValidationIdx, ReturnValidation, EndExecution, HasFlag, NeedValidation
  <2>2. UNCHANGED <<incarnation, execution_results, tx, version>> /\ pc[w] \in Finishing
    BY <1>7 DEF CheckValidationIdx, Finishing
  <2>3. execution_results[tx[w]] = {incarnation[tx[w]]}
    BY <2>2, SMT DEF ResultsStored, SingleExecutor, Owns
  <2>4. \A v \in Workers : pc'[v] \in Finishing => pc[v] \in Finishing
    BY <2>2 DEF OthersKept
  <2>5. \A t \in Txs : Completed(t)' => Completed(t) \/ t = tx[w]
    BY <2>1 DEF Completed, TypeOK
  <2> QED
    BY <2>2, <2>3, <2>4, <2>5 DEF ResultsStored
<1>8. CASE LowerValidationIdx(w)
  <2>1. status' = status \/ status' = [status EXCEPT ![tx[w]] = "Executed"]
    BY <1>8
       DEF LowerValidationIdx, ReturnValidation, EndExecution, HasFlag, NeedValidation
  <2>2. UNCHANGED <<incarnation, execution_results, tx, version>> /\ pc[w] \in Finishing
    BY <1>8 DEF LowerValidationIdx, Finishing
  <2>3. execution_results[tx[w]] = {incarnation[tx[w]]}
    BY <2>2, SMT DEF ResultsStored, SingleExecutor, Owns
  <2>4. \A v \in Workers : pc'[v] \in Finishing => pc[v] \in Finishing
    BY <2>2 DEF OthersKept
  <2>5. \A t \in Txs : Completed(t)' => Completed(t) \/ t = tx[w]
    BY <2>1 DEF Completed, TypeOK
  <2> QED
    BY <2>2, <2>3, <2>4, <2>5 DEF ResultsStored
<1>9. CASE TryValidationAbort(w)
  BY <1>9, SMT
     DEF TryValidationAbort, Goto, ResultsStored, SingleExecutor, Owns, OthersKept,
         Completed, TypeOK, Finishing, shared, txvars
<1>10. CASE FinishAborted(w)
  BY <1>10, SMT
     DEF FinishAborted, Goto, SetReadyStatus, ResultsStored, SingleExecutor, Owns,
         OthersKept, Completed, TypeOK, Finishing, shared, txvars
<1>11. CASE FinishValidated(w)
  BY <1>11, SMT
     DEF FinishValidated, Goto, ResultsStored, SingleExecutor, Owns, OthersKept,
         Completed, TypeOK, Finishing, shared, txvars
<1>12. ASSUME NEW f \in {{}, WroteNewLocation}, ExecuteOk(w, f) PROVE ResultsStored'
  BY <1>12, SMT
     DEF ExecuteOk, Goto, NeedValidation, ResultsStored, SingleExecutor, Owns, OthersKept,
         Completed, TypeOK, Finishing, shared, txvars
<1> QED
  BY <1>1, <1>2, <1>3, <1>4, <1>5, <1>6, <1>7, <1>8, <1>9, <1>10, <1>11, <1>12,
     QuietOrLoud
     DEF Loud

\* A step that validates no transaction and aborts no validated one.
SameCount ==
    /\ num_validated' = num_validated
    /\ \A t \in Txs : status'[t] = "Validated" <=> status[t] = "Validated"

\* The count stays exact when neither it nor the validated set changes.
LEMMA SameCountKeepsIt ==
    ASSUME CountIsExact, SameCount
    PROVE  CountIsExact'
<1>1. ValidatedTxs' = ValidatedTxs
  BY DEF SameCount, ValidatedTxs
<1> QED
  BY <1>1 DEF CountIsExact, SameCount

\* The validated transactions are a finite set.
LEMMA ValidatedFinite ==
    IsFiniteSet(ValidatedTxs)
<1>1. IsFiniteSet(Txs)
  BY BlockSizeAssumption, FS_Interval, SMT DEF Txs
<1> QED
  BY <1>1, FS_Subset DEF ValidatedTxs

\* num_validated moves with the status under the same mutex.
LEMMA CountStep ==
    ASSUME TypeOK, RegisterOK, SingleExecutor, AbortingWaitsOnce, CountIsExact,
           NEW w \in Workers, SchedulerStep(w) \/ VmStep(w)
    PROVE  CountIsExact'
<1>   OthersKept(w)
  BY LocalStep
<1>1. CASE Quiet(w)
  BY <1>1, SameCountKeepsIt DEF Quiet, SameCount
<1>2. CASE LockValidationTx(w)
  BY <1>2, SameCountKeepsIt, SMT
     DEF LockValidationTx, Goto, StartExecution, Completed, SameCount, SingleExecutor,
         Owns, Finishing, TypeOK, shared, txvars
<1>3. CASE TryExecute(w)
  BY <1>3, SameCountKeepsIt
     DEF TryExecute, Goto, StartExecution, SameCount, SingleExecutor, Owns, Finishing,
         TypeOK, shared, txvars
<1>4. CASE AddDependency(w)
  BY <1>4, SameCountKeepsIt, SMT
     DEF AddDependency, Goto, Completed, SameCount, SingleExecutor, Owns, Finishing,
         TypeOK, shared, txvars
<1>5. ASSUME NEW d \in Txs, ResumeDependent(w, d) PROVE CountIsExact'
  <2>1. status[d] = "Aborting"
    BY <1>5 DEF ResumeDependent, AbortingWaitsOnce, TypeOK
  <2> QED
    BY <1>5, <2>1, SameCountKeepsIt
       DEF ResumeDependent, SetReadyStatus, SameCount, TypeOK, shared
<1>6. CASE LowerMinValidationIdx(w)
  <2>1. status' = status \/ status' = [status EXCEPT ![tx[w]] = "Executed"]
    BY <1>6 DEF LowerMinValidationIdx, EndExecution, HasFlag, NeedValidation
  <2>2. num_validated' = num_validated /\ status[tx[w]] = "Executing"
    BY <1>6
       DEF LowerMinValidationIdx, EndExecution, HasFlag, NeedValidation, SingleExecutor,
           Owns, Finishing
  <2> QED
    BY <2>1, <2>2, SameCountKeepsIt DEF SameCount, TypeOK
<1>7. CASE CheckValidationIdx(w)
  <2>1. status' = status \/ status' = [status EXCEPT ![tx[w]] = "Executed"]
    BY <1>7
       DEF CheckValidationIdx, ReturnValidation, EndExecution, HasFlag, NeedValidation
  <2>2. num_validated' = num_validated /\ status[tx[w]] = "Executing"
    BY <1>7
       DEF CheckValidationIdx, ReturnValidation, EndExecution, HasFlag, NeedValidation,
           SingleExecutor, Owns, Finishing
  <2> QED
    BY <2>1, <2>2, SameCountKeepsIt DEF SameCount, TypeOK
<1>8. CASE LowerValidationIdx(w)
  <2>1. status' = status \/ status' = [status EXCEPT ![tx[w]] = "Executed"]
    BY <1>8
       DEF LowerValidationIdx, ReturnValidation, EndExecution, HasFlag, NeedValidation
  <2>2. num_validated' = num_validated /\ status[tx[w]] = "Executing"
    BY <1>8
       DEF LowerValidationIdx, ReturnValidation, EndExecution, HasFlag, NeedValidation,
           SingleExecutor, Owns, Finishing
  <2> QED
    BY <2>1, <2>2, SameCountKeepsIt DEF SameCount, TypeOK
<1>9. CASE TryValidationAbort(w)
  <2>1. tx[w] \in Txs
    BY DEF TypeOK
  <2>2. CASE status[tx[w]] = "Validated"
    <3>1. /\ status' = [status EXCEPT ![tx[w]] = "Aborting"]
          /\ num_validated' = num_validated - 1
      BY <1>9, <2>2 DEF TryValidationAbort, Completed
    <3>2. /\ ValidatedTxs' = ValidatedTxs \ {tx[w]}
          /\ tx[w] \in ValidatedTxs
      BY <2>1, <2>2, <3>1 DEF TypeOK, ValidatedTxs
    <3>3. Cardinality(ValidatedTxs')
            = Cardinality(ValidatedTxs) - 1
      BY <3>2, ValidatedFinite, FS_RemoveElement
    <3> QED
      BY <3>1, <3>3 DEF CountIsExact
  <2>3. CASE status[tx[w]] # "Validated"
    BY <1>9, <2>1, <2>3, SameCountKeepsIt
       DEF TryValidationAbort, Completed, SameCount, TypeOK
  <2> QED
    BY <2>2, <2>3
<1>10. CASE FinishAborted(w)
  <2>1. status[tx[w]] = "Aborting"
    BY <1>10 DEF FinishAborted, AbortingWaitsOnce
  <2> QED
    BY <1>10, <2>1, SameCountKeepsIt
       DEF FinishAborted, SetReadyStatus, SameCount, TypeOK, shared
<1>11. CASE FinishValidated(w)
  <2>1. tx[w] \in Txs
    BY DEF TypeOK
  <2>2. CASE status[tx[w]] = "Executed"
    <3>1. /\ status' = [status EXCEPT ![tx[w]] = "Validated"]
          /\ num_validated' = num_validated + 1
      BY <1>11, <2>2 DEF FinishValidated
    <3>2. /\ ValidatedTxs' = ValidatedTxs \cup {tx[w]}
          /\ tx[w] \notin ValidatedTxs
      BY <2>1, <2>2, <3>1 DEF TypeOK, ValidatedTxs
    <3>3. Cardinality(ValidatedTxs')
            = Cardinality(ValidatedTxs) + 1
      BY <3>2, ValidatedFinite, FS_AddElement
    <3> QED
      BY <3>1, <3>3 DEF CountIsExact
  <2>3. CASE status[tx[w]] # "Executed"
    BY <1>11, <2>3, SameCountKeepsIt DEF FinishValidated, SameCount
  <2> QED
    BY <2>2, <2>3
<1>12. ASSUME NEW f \in {{}, WroteNewLocation}, ExecuteOk(w, f) PROVE CountIsExact'
  BY <1>12, SameCountKeepsIt
     DEF ExecuteOk, Goto, NeedValidation, SameCount, SingleExecutor, Owns, Finishing,
         TypeOK, shared, txvars
<1> QED
  BY <1>1, <1>2, <1>3, <1>4, <1>5, <1>6, <1>7, <1>8, <1>9, <1>10, <1>11, <1>12,
     QuietOrLoud
     DEF Loud

\* A step that changes no status follows the diagram.
LEMMA SameStatus ==
    ASSUME status' = status
    PROVE  FollowsDiagram
BY DEF FollowsDiagram

\* So does a step that moves one transaction along an arrow that counts no
\* incarnation ...
LEMMA MovedOn ==
    ASSUME TypeOK, NEW t \in Txs, NEW s,
           status' = [status EXCEPT ![t] = s], incarnation' = incarnation,
           <<status[t], s>> \in
               {<<"ReadyToExecute", "Executing">>, <<"Executing", "Executed">>,
                <<"Executed", "Validated">>, <<"Executed", "Aborting">>,
                <<"Validated", "Aborting">>, <<"Executing", "Aborting">>}
    PROVE  FollowsDiagram
BY DEF FollowsDiagram, TypeOK

\* ... and one that makes an aborting transaction ready, as set_ready_status does.
LEMMA MadeReady ==
    ASSUME TypeOK, NEW t \in Txs, status[t] = "Aborting", SetReadyStatus(t)
    PROVE  FollowsDiagram
BY DEF FollowsDiagram, TypeOK, SetReadyStatus

\* Every step of a worker follows the diagram: what it finds in the status is what
\* its task was given for, although it has dropped the mutex in between.
LEMMA LifeCycleStep ==
    ASSUME TypeOK, RegisterOK, SingleExecutor, AbortingWaitsOnce,
           NEW w \in Workers, SchedulerStep(w) \/ VmStep(w)
    PROVE  FollowsDiagram
<1>   tx[w] \in Txs
  BY DEF TypeOK
<1>1. CASE Quiet(w)
  BY <1>1, SameStatus DEF Quiet
<1>2. CASE LockValidationTx(w)
  BY <1>2, SameStatus, MovedOn DEF LockValidationTx, StartExecution
<1>3. CASE TryExecute(w)
  BY <1>3, SameStatus, MovedOn DEF TryExecute, StartExecution
<1>4. CASE AddDependency(w)
  <2>1. status[tx[w]] = "Executing"
    BY <1>4 DEF AddDependency, SingleExecutor, Owns, Finishing
  <2> QED
    BY <1>4, <2>1, SameStatus, MovedOn DEF AddDependency
<1>5. ASSUME NEW d \in Txs, ResumeDependent(w, d) PROVE FollowsDiagram
  <2>1. status[d] = "Aborting"
    BY <1>5 DEF ResumeDependent, AbortingWaitsOnce
  <2> QED
    BY <1>5, <2>1, MadeReady DEF ResumeDependent
<1>6. CASE LowerMinValidationIdx(w) \/ CheckValidationIdx(w) \/ LowerValidationIdx(w)
  <2>1. status' = status \/ status' = [status EXCEPT ![tx[w]] = "Executed"]
    BY <1>6
       DEF LowerMinValidationIdx, CheckValidationIdx, LowerValidationIdx,
           ReturnValidation, EndExecution, HasFlag, NeedValidation
  <2>2. incarnation' = incarnation
    BY <1>6 DEF LowerMinValidationIdx, CheckValidationIdx, LowerValidationIdx
  <2>3. status[tx[w]] = "Executing"
    BY <1>6
       DEF LowerMinValidationIdx, CheckValidationIdx, LowerValidationIdx,
           SingleExecutor, Owns, Finishing
  <2> QED
    BY <2>1, <2>2, <2>3, SameStatus, MovedOn
<1>7. CASE TryValidationAbort(w)
  BY <1>7, SameStatus, MovedOn DEF TryValidationAbort, Completed
<1>8. CASE FinishAborted(w)
  <2>1. status[tx[w]] = "Aborting"
    BY <1>8 DEF FinishAborted, AbortingWaitsOnce
  <2> QED
    BY <1>8, <2>1, MadeReady DEF FinishAborted
<1>9. CASE FinishValidated(w)
  BY <1>9, SameStatus, MovedOn DEF FinishValidated
<1>10. ASSUME NEW f \in {{}, WroteNewLocation}, ExecuteOk(w, f) PROVE FollowsDiagram
  BY <1>10, SameStatus DEF ExecuteOk, txvars
<1> QED
  BY <1>1, <1>2, <1>3, <1>4, <1>5, <1>6, <1>7, <1>8, <1>9, <1>10, QuietOrLoud
     DEF Loud

-----------------------------------------------------------------------------
(* No task is lost, and the theorems *)

\* Worker w accounts for t: if the step changes what t needs, or if it was w or an
\* index that t relied upon, then w or an index still comes to t.
TaskHandled(w, t) ==
    status'[t] # status[t] \/ WillBeReached(t) \/ HasTask(w, t) =>
        WillBeReached(t)' \/ HasTask(w, t)'

\* Whatever a worker does, it leaves no transaction behind that it was at.
LEMMA TaskStep ==
    ASSUME TypeOK, RegisterOK, SingleExecutor, AbortingWaitsOnce, NEW t \in Txs,
           NEW w \in Workers, SchedulerStep(w) \/ VmStep(w)
    PROVE  TaskHandled(w, t)
<1> USE DEF Goto, TaskHandled, WillBeReached, HasTask, WillTryExecution,
            WillValidate, Owns, Aborted, TypeOK, Finishing, shared, txvars
<1>1. CASE NextTask(w)
  BY <1>1 DEF NextTask
<1>2. CASE LoadExecutionIdx(w)
  BY <1>2 DEF LoadExecutionIdx
<1>3. CASE LoadValidationIdx(w)
  BY <1>3 DEF LoadValidationIdx
<1>4. CASE LoadNumValidated(w)
  BY <1>4 DEF LoadNumValidated
<1>5. CASE LoadMinValidationIdx(w)
  BY <1>5 DEF LoadMinValidationIdx
<1>6. CASE TakeValidationIdx(w)
  <2>1. validation_idx <= t => validation_idx + 1 <= t \/ (validation_idx = t /\ validation_idx < BlockSize)
    BY TxsFacts, SMT
  <2> QED
    BY <1>6, <2>1 DEF TakeValidationIdx
<1>7. CASE LockValidationTx(w)
  BY <1>7, SMT DEF LockValidationTx, StartExecution, Completed
<1>8. CASE TakeExecutionIdx(w)
  <2>1. execution_idx <= t => execution_idx + 1 <= t \/ (execution_idx = t /\ execution_idx < BlockSize)
    BY TxsFacts, SMT
  <2> QED
    BY <1>8, <2>1 DEF TakeExecutionIdx
<1>9. CASE TryExecute(w)
  BY <1>9, SMT DEF TryExecute, StartExecution
<1>10. CASE AddDependency(w)
  <2>1. tx[w] \in Txs /\ reg[w] \in Txs /\ status[tx[w]] = "Executing"
    BY <1>10 DEF AddDependency, RegisterOK, SingleExecutor
  <2>2. CASE Completed(reg[w])
    BY <1>10, <2>2 DEF AddDependency
  <2>3. CASE ~Completed(reg[w])
    <3>1. /\ status' = [status EXCEPT ![tx[w]] = "Aborting"]
          /\ dependents' = [dependents EXCEPT ![reg[w]] = @ \cup {tx[w]}]
          /\ UNCHANGED <<execution_idx, validation_idx, abort_reason>>
      BY <1>10, <2>3 DEF AddDependency
    <3>2. t = tx[w] => t \in dependents'[reg[w]] /\ status'[t] = "Aborting"
      BY <2>1, <3>1
    <3>3. t # tx[w] => /\ status'[t] = status[t]
                       /\ \A b \in Txs : t \in dependents[b] => t \in dependents'[b]
                       /\ ~HasTask(w, t)
      BY <1>10, <2>1, <3>1 DEF AddDependency
    <3>4. CASE t = tx[w]
      BY <2>1, <3>2, <3>4
    <3>5. CASE t # tx[w]
      <4>1. SUFFICES ASSUME WillBeReached(t) PROVE WillBeReached(t)'
        BY <3>3, <3>5
      <4> QED
        BY <3>1, <3>3, <3>5, <4>1
    <3> QED
      BY <3>4, <3>5
  <2> QED
    BY <2>2, <2>3
<1>11. ASSUME NEW d \in Txs, ResumeDependent(w, d) PROVE TaskHandled(w, t)
  BY <1>11, SMT DEF ResumeDependent, SetReadyStatus
<1>12. CASE ResumeExecutionIdx(w)
  <2>1. reg[w] \in Txs
    BY <1>12 DEF RegisterOK, ResumeExecutionIdx
  <2>2. reg[w] \in Nat /\ t \in Nat
    BY <2>1, TxsFacts
  <2>3. execution_idx <= t \/ reg[w] = t => Lower(execution_idx, reg[w]) <= t
    BY <2>2, LowerFacts, SMT
  <2> QED
    BY <1>12, <2>1, <2>2, <2>3 DEF ResumeExecutionIdx
<1>13. CASE LowerMinValidationIdx(w)
  <2>1. LET m == Lower(min_validation_idx, tx[w]) IN ~(m >= BlockSize) /\ ~(tx[w] < m)
    BY MinAtMostTx
  <2> QED
    BY <1>13, <2>1 DEF LowerMinValidationIdx, EndExecution, HasFlag, NeedValidation
<1>14. CASE CheckValidationIdx(w)
  <2>1. tx[w] < validation_idx \/ validation_idx <= tx[w]
    BY TxsFacts, SMT
  <2> QED
    BY <1>14, <2>1, SMT
       DEF CheckValidationIdx, ReturnValidation, EndExecution, HasFlag, NeedValidation
<1>15. CASE LowerValidationIdx(w)
  <2>1. tx[w] + 1 \in Nat /\ t \in Nat
    BY TxsFacts, SMT
  <2>2. validation_idx <= t => Lower(validation_idx, tx[w] + 1) <= t
    BY <2>1, LowerFacts, Z3
  <2>3. pc[w] = "lowerNext"
    BY <1>15 DEF RegisterOK, LowerValidationIdx
  <2> QED
    BY <1>15, <2>1, <2>2, <2>3, SMT
       DEF LowerValidationIdx, ReturnValidation, EndExecution, HasFlag, NeedValidation
<1>16. CASE TryValidationAbort(w)
  BY <1>16, SMT DEF TryValidationAbort, Completed
<1>17. CASE FinishAborted(w)
  BY <1>17 DEF FinishAborted, SetReadyStatus
<1>18. CASE LowerAfterAbort(w)
  <2>1. tx[w] + 1 \in Nat /\ t \in Nat
    BY TxsFacts, SMT
  <2>2. validation_idx <= t => Lower(validation_idx, tx[w] + 1) <= t
    BY <2>1, LowerFacts, Z3
  <2> QED
    BY <1>18, <2>1, <2>2 DEF LowerAfterAbort
<1>19. CASE LoadAfterAbort(w)
  <2>1. execution_idx > tx[w] \/ execution_idx <= tx[w]
    BY TxsFacts, SMTT(30)
  <2> QED
    BY <1>19, <2>1 DEF LoadAfterAbort
<1>20. CASE FinishValidated(w)
  BY <1>20, SMT DEF FinishValidated
<1>21. CASE TaskReturned(w)
  BY <1>21 DEF TaskReturned, Forget
<1>22. ASSUME NEW f \in {{}, WroteNewLocation}, ExecuteOk(w, f) PROVE TaskHandled(w, t)
  BY <1>22 DEF ExecuteOk, NeedValidation
<1>23. ASSUME NEW b \in Txs, b < tx[w], ExecuteBlocked(w, b) PROVE TaskHandled(w, t)
  BY <1>23 DEF ExecuteBlocked
<1>24. ASSUME NEW r \in {"FallbackToSequential", "ExecutionError"}, ExecuteFatal(w, r) PROVE TaskHandled(w, t)
  BY <1>24 DEF ExecuteFatal
<1>25. CASE ExecuteRetry(w)
  BY <1>25 DEF ExecuteRetry
<1>26. ASSUME NEW v \in BOOLEAN, Validate(w, v) PROVE TaskHandled(w, t)
  BY <1>26 DEF Validate
<1>27. CASE SchedulerStep(w)
  BY <1>27, <1>1, <1>2, <1>3, <1>4, <1>5, <1>6, <1>7, <1>8, <1>9, <1>10, <1>11, <1>12,
     <1>13, <1>14, <1>15, <1>16, <1>17, <1>18, <1>19, <1>20, <1>21
     DEF SchedulerStep
<1>28. CASE VmStep(w)
  BY <1>28, <1>22, <1>23, <1>24, <1>25, <1>26 DEF VmStep
<1> QED
  BY <1>27, <1>28

\* No transaction is forgotten: the tasks of the other workers are not touched.
LEMMA NoTaskLostStep ==
    ASSUME TypeOK, RegisterOK, SingleExecutor, AbortingWaitsOnce, NoTaskLost,
           NEW w \in Workers, SchedulerStep(w) \/ VmStep(w)
    PROVE  NoTaskLost'
<1> SUFFICES ASSUME NEW t \in Txs, ~(WillBeReached(t)' \/ HasTask(w, t)')
             PROVE  \E v \in Workers : HasTask(v, t)'
  BY DEF NoTaskLost
<1>1. status'[t] = status[t] /\ ~WillBeReached(t) /\ ~HasTask(w, t)
  BY TaskStep DEF TaskHandled
<1>2. PICK v \in Workers : v # w /\ HasTask(v, t)
  BY <1>1 DEF NoTaskLost
<1>3. pc'[v] = pc[v] /\ tx'[v] = tx[v] /\ reg'[v] = reg[v]
  BY <1>2, LocalStep DEF OthersKept
<1>4. HasTask(v, t)'
  BY <1>1, <1>2, <1>3 DEF HasTask, WillTryExecution, WillValidate, Owns
<1> QED
  BY <1>4

\* A worker that drops its task goes back to load the indices afresh.
LEMMA LooksAgainStep ==
    ASSUME TypeOK, RegisterOK, LastWorkerLooksAgain,
           NEW w \in Workers, SchedulerStep(w) \/ VmStep(w)
    PROVE  LastWorkerLooksAgain'
<1> USE DEF Goto, LastWorkerLooksAgain, Inactive, Aborted, OthersKept, TypeOK,
            shared, txvars
<1>   OthersKept(w)
  BY LocalStep
<1>1. CASE NextTask(w)
  BY <1>1 DEF NextTask
<1>2. CASE LoadExecutionIdx(w)
  BY <1>2, SMT DEF LoadExecutionIdx
<1>3. CASE LoadValidationIdx(w)
  BY <1>3, SMT DEF LoadValidationIdx
<1>4. CASE LoadNumValidated(w)
  BY <1>4, SMT DEF LoadNumValidated
<1>5. CASE LoadMinValidationIdx(w)
  BY <1>5, SMT DEF LoadMinValidationIdx
<1>6. CASE TakeValidationIdx(w)
  BY <1>6 DEF TakeValidationIdx
<1>7. CASE LockValidationTx(w)
  <2>1. pc'[w] \in {"execute", "validate", "next", "takeExec"}
    BY <1>7, SMT DEF LockValidationTx, StartExecution
  <2> QED
    BY <2>1
<1>8. CASE TakeExecutionIdx(w)
  BY <1>8 DEF TakeExecutionIdx
<1>9. CASE TryExecute(w)
  BY <1>9, SMTT(30) DEF TryExecute, StartExecution
<1>10. CASE AddDependency(w)
  BY <1>10, SMT DEF AddDependency, Completed
<1>11. ASSUME NEW d \in Txs, ResumeDependent(w, d) PROVE LastWorkerLooksAgain'
  BY <1>11 DEF ResumeDependent, SetReadyStatus
<1>12. CASE ResumeExecutionIdx(w)
  BY <1>12 DEF ResumeExecutionIdx, Lower
<1>13. CASE LowerMinValidationIdx(w)
  BY <1>13, SMT DEF LowerMinValidationIdx, EndExecution, HasFlag, NeedValidation, Lower
<1>14. CASE CheckValidationIdx(w)
  BY <1>14
     DEF CheckValidationIdx, ReturnValidation, EndExecution, HasFlag, NeedValidation
<1>15. CASE LowerValidationIdx(w)
  BY <1>15, SMTT(30)
     DEF LowerValidationIdx, ReturnValidation, EndExecution, HasFlag, NeedValidation,
         Lower
<1>16. CASE TryValidationAbort(w)
  BY <1>16, SMT DEF TryValidationAbort, Completed
<1>17. CASE FinishAborted(w)
  BY <1>17 DEF FinishAborted, SetReadyStatus
<1>18. CASE LowerAfterAbort(w)
  BY <1>18 DEF LowerAfterAbort, Lower
<1>19. CASE LoadAfterAbort(w)
  BY <1>19 DEF LoadAfterAbort
<1>20. CASE FinishValidated(w)
  BY <1>20 DEF FinishValidated
<1>21. CASE TaskReturned(w)
  BY <1>21 DEF TaskReturned, Forget
<1>22. ASSUME NEW f \in {{}, WroteNewLocation}, ExecuteOk(w, f) PROVE LastWorkerLooksAgain'
  BY <1>22 DEF ExecuteOk, NeedValidation
<1>23. ASSUME NEW b \in Txs, b < tx[w], ExecuteBlocked(w, b) PROVE LastWorkerLooksAgain'
  BY <1>23 DEF ExecuteBlocked
<1>24. ASSUME NEW r \in {"FallbackToSequential", "ExecutionError"}, ExecuteFatal(w, r) PROVE LastWorkerLooksAgain'
  BY <1>24 DEF ExecuteFatal
<1>25. CASE ExecuteRetry(w)
  BY <1>25 DEF ExecuteRetry
<1>26. ASSUME NEW v \in BOOLEAN, Validate(w, v) PROVE LastWorkerLooksAgain'
  BY <1>26 DEF Validate
<1>27. CASE SchedulerStep(w)
  BY <1>27, <1>1, <1>2, <1>3, <1>4, <1>5, <1>6, <1>7, <1>8, <1>9, <1>10, <1>11, <1>12,
     <1>13, <1>14, <1>15, <1>16, <1>17, <1>18, <1>19, <1>20, <1>21
     DEF SchedulerStep
<1>28. CASE VmStep(w)
  BY <1>28, <1>22, <1>23, <1>24, <1>25, <1>26 DEF VmStep
<1> QED
  BY <1>27, <1>28

-----------------------------------------------------------------------------
\* The inductive invariant.
IInv ==
    /\ TypeOK
    /\ RegisterOK
    /\ SingleExecutor
    /\ AbortingWaitsOnce
    /\ ResultsStored
    /\ NoTaskLost
    /\ LastWorkerLooksAgain
    /\ CountIsExact

\* Scheduler::new establishes the invariant.
LEMMA InitIInv == Init => IInv
<1> SUFFICES ASSUME Init PROVE IInv
  OBVIOUS
<1>1. TypeOK
  BY TxsFacts, BlockSizeAssumption, SMT DEF Init, TypeOK, IncarnationStatus, PCs
<1>2. RegisterOK /\ SingleExecutor /\ AbortingWaitsOnce /\ ResultsStored
  BY DEF Init, RegisterOK, SingleExecutor, Owns, AbortingWaitsOnce, ResultsStored,
         Completed, Finishing
<1>3. NoTaskLost
  BY TxsFacts, SMT DEF Init, NoTaskLost, WillBeReached
<1>4. LastWorkerLooksAgain
  BY WorkersAssumption DEF Init, LastWorkerLooksAgain
<1>5. CountIsExact
  <2>1. ValidatedTxs = {}
    BY DEF Init, ValidatedTxs
  <2> QED
    BY <2>1, FS_EmptySet DEF CountIsExact, Init
<1> QED
  BY <1>1, <1>2, <1>3, <1>4, <1>5 DEF IInv

\* Every step of every worker keeps the invariant.
LEMMA NextIInv == IInv /\ [Next]_vars => IInv'
<1> SUFFICES ASSUME IInv, [Next]_vars PROVE IInv'
  OBVIOUS
<1>   /\ TypeOK /\ RegisterOK /\ SingleExecutor /\ AbortingWaitsOnce /\ ResultsStored
      /\ NoTaskLost /\ LastWorkerLooksAgain /\ CountIsExact
  BY DEF IInv
<1>1. ASSUME NEW w \in Workers, SchedulerStep(w) \/ VmStep(w) PROVE IInv'
  <2>1. TypeOK' /\ RegisterOK'
    BY <1>1, TypeStep, LocalStep
  <2>2. SingleExecutor' /\ AbortingWaitsOnce'
    BY <1>1, SingleExecutorStep, AbortingWaitsOnceStep
  <2>3. ResultsStored'
    BY <1>1, ResultsStep
  <2>4. NoTaskLost'
    BY <1>1, NoTaskLostStep
  <2>5. LastWorkerLooksAgain' /\ CountIsExact'
    BY <1>1, LooksAgainStep, CountStep
  <2> QED
    BY <2>1, <2>2, <2>3, <2>4, <2>5 DEF IInv
<1>2. CASE UNCHANGED vars
  <2> USE <1>2 DEF vars, shared, txvars, locals
  <2>1. TypeOK' /\ RegisterOK'
    BY DEF TypeOK, RegisterOK
  <2>2. SingleExecutor' /\ AbortingWaitsOnce' /\ ResultsStored'
    BY SMT DEF SingleExecutor, Owns, AbortingWaitsOnce, ResultsStored, Completed
  <2>3. NoTaskLost'
    BY SMT
       DEF NoTaskLost, WillBeReached, HasTask, WillTryExecution, WillValidate, Owns,
           Aborted
  <2>4. LastWorkerLooksAgain' /\ CountIsExact'
    BY DEF LastWorkerLooksAgain, Inactive, Aborted, CountIsExact, ValidatedTxs
  <2> QED
    BY <2>1, <2>2, <2>3, <2>4 DEF IInv
<1> QED
  BY <1>1, <1>2 DEF Next, Joined

\* The invariant holds of every behaviour.
THEOREM Invariance == Spec => []IInv
BY InitIInv, NextIInv, PTL DEF Spec

\* The variables keep their types: in particular every index a worker uses to
\* access a vector of the block (index_mutex!, get_unchecked) is below BlockSize.
THEOREM TypeCorrect == Spec => []TypeOK
<1>1. IInv => TypeOK
  BY DEF IInv
<1> QED
  BY <1>1, Invariance, PTL

\* Among the transactions that wait there is one with no lower one that waits.
LEMMA LeastAborting ==
    ASSUME NEW t \in Txs, status[t] = "Aborting"
    PROVE  \E x \in Txs : /\ status[x] = "Aborting"
                          /\ \A y \in Txs : y < x => status[y] # "Aborting"
<1> DEFINE T == {x \in Txs : status[x] = "Aborting"}
           R == {ss \in Nat \X Nat : ss[1] < ss[2]}
<1>1. T \subseteq Nat /\ T # {}
  BY TxsFacts
<1>2. IsWellFoundedOn(R, Nat)
  BY NatLessThanWellFounded DEF OpToRel
<1>3. PICK x \in T : \A y \in T : ~(<<y, x>> \in R)
  <2> HIDE DEF T, R
  <2> QED
    BY <1>1, <1>2, WFMin
<1>4. ASSUME NEW y \in T, y < x PROVE FALSE
  <2>1. <<y, x>> \in Nat \X Nat
    BY <1>1
  <2>2. <<y, x>> \in R
    BY <1>4, <2>1
  <2> QED
    BY <1>3, <2>2
<1> QED
  BY <1>3, <1>4

\* When all workers returned, the indices are past the block and nobody holds a
\* task, so a transaction that is not validated would wait for a lower one that
\* waits too, and there is a least one.
LEMMA IInvJoined == IInv => JoinedMeansValidated
<1> SUFFICES ASSUME IInv, AllDone, ~Aborted, NEW t \in Txs
             PROVE  status[t] = "Validated" /\ execution_results[t] = {incarnation[t]}
  BY DEF JoinedMeansValidated
<1>   TypeOK /\ AbortingWaitsOnce /\ NoTaskLost /\ LastWorkerLooksAgain /\ ResultsStored
  BY DEF IInv
<1>1. \A w \in Workers : pc[w] = "done"
  BY DEF AllDone
<1>2. execution_idx >= BlockSize /\ validation_idx >= BlockSize
  BY <1>1 DEF LastWorkerLooksAgain, Inactive
<1>3. \A x \in Txs : ~(execution_idx <= x) /\ ~(validation_idx <= x)
  BY <1>2, TxsFacts, BlockSizeAssumption, SMT DEF TypeOK
<1>4. \A x \in Txs : status[x] \notin {"ReadyToExecute", "Executing", "Executed"}
  BY <1>1, <1>3
     DEF NoTaskLost, WillBeReached, HasTask, WillTryExecution, WillValidate, Owns,
         Finishing
<1>5. \A x \in Txs : status[x] # "Aborting"
  <2> SUFFICES ASSUME NEW y \in Txs, status[y] = "Aborting" PROVE FALSE
    OBVIOUS
  <2>1. PICK x \in Txs : /\ status[x] = "Aborting"
                         /\ \A z \in Txs : z < x => status[z] # "Aborting"
    BY LeastAborting
  <2>2. PICK b \in Txs : x \in dependents[b]
    BY <1>1, <2>1 DEF NoTaskLost, WillBeReached, HasTask
  <2>3. b < x /\ ~Completed(b)
    BY <2>2 DEF AbortingWaitsOnce
  <2> QED
    BY <1>4, <2>1, <2>3 DEF Completed, TypeOK, IncarnationStatus
<1>6. status[t] = "Validated"
  BY <1>4, <1>5 DEF TypeOK, IncarnationStatus
<1> QED
  BY <1>6 DEF ResultsStored, Completed

\* When the scope of execute_revm_parallel joins its workers and none has
\* aborted, every transaction is validated and its result is that of its last
\* incarnation.
THEOREM JoinedCorrect == Spec => []JoinedMeansValidated
BY Invariance, IInvJoined, PTL

\* A transaction that executes or finishes is held by exactly one worker and
\* the others cannot start it: the debug_asserts of finish_execution and of
\* add_dependency on the status hold.
THEOREM OneExecutor == Spec => []SingleExecutor
<1>1. IInv => SingleExecutor
  BY DEF IInv
<1> QED
  BY <1>1, Invariance, PTL

\* An aborting transaction waits for one event only, the end of the transaction
\* that blocks it or the worker that aborted it, so set_ready_status meets it in
\* the status its debug_assert names.
THEOREM OneEvent == Spec => []AbortingWaitsOnce
<1>1. IInv => AbortingWaitsOnce
  BY DEF IInv
<1> QED
  BY <1>1, Invariance, PTL

\* No transaction is left without a worker or an index that will come to it,
\* although the indices are loaded and lowered without a lock.
THEOREM NothingForgotten == Spec => []NoTaskLost
<1>1. IInv => NoTaskLost
  BY DEF IInv
<1> QED
  BY <1>1, Invariance, PTL

\* next_task does not let the last worker leave on indices that have been lowered
\* since it loaded them.
THEOREM LastWorkerStays == Spec => []LastWorkerLooksAgain
<1>1. IInv => LastWorkerLooksAgain
  BY DEF IInv
<1> QED
  BY <1>1, Invariance, PTL

\* num_validated is the number of validated transactions at every moment, so the
\* exit condition of next_task counts what it means to count.
THEOREM ExactCount == Spec => []CountIsExact
<1>1. IInv => CountIsExact
  BY DEF IInv
<1> QED
  BY <1>1, Invariance, PTL

\* The status of every transaction follows the diagram of lib.rs, and its
\* incarnation grows by one exactly when it becomes ready again.
THEOREM StatusFollowsDiagram == Spec => LifeCycle
<1>1. IInv /\ [Next]_vars => [FollowsDiagram]_vars
  <2> SUFFICES ASSUME IInv, Next PROVE FollowsDiagram \/ UNCHANGED vars
    OBVIOUS
  <2>1. ASSUME NEW w \in Workers, SchedulerStep(w) \/ VmStep(w) PROVE FollowsDiagram
    BY <2>1, LifeCycleStep DEF IInv
  <2> QED
    BY <2>1 DEF Next, Joined
<1> QED
  BY <1>1, Invariance, PTL DEF Spec, LifeCycle
=============================================================================
