----------------------------- MODULE PevmProofs -----------------------------
(***************************************************************************)
(* The workers with the multi-version memory (module Pevm) implement the   *)
(* scheduler on its own (module Scheduler), and what record and            *)
(* convert_writes_to_estimates leave in the memory agrees with the status  *)
(* of the transactions: for every block, its effects, number of workers    *)
(* and set of locations.                                                   *)
(***************************************************************************)
EXTENDS Pevm, SchedulerProofs

\* Zenon is the prover of a leaf that does not name another one.
USE Zenon

-----------------------------------------------------------------------------
(* The invariant that relates the memory to the scheduler *)

\* The fields of the worker's record.
VmFields == {"phase", "lazy", "vals", "reads", "writes", "wrote", "todo"}

\* A worker is inside Vm::execute, validate_read_locations or
\* convert_writes_to_estimates only where the scheduler has sent it there.
PhaseOK ==
    /\ DOMAIN vm = Workers
    /\ \A w \in Workers :
          /\ DOMAIN vm[w] = VmFields
          /\ vm[w].phase \in {"lazy", "lazyTo", "read", "record"} => pc[w] = "execute"
          /\ vm[w].phase = "check" => pc[w] = "validate"
          /\ vm[w].phase = "convert" => pc[w] = "ready"
          /\ vm[w].phase \in {"idle", "lazy", "lazyTo", "read", "record", "check", "convert"}

\* The memory holds entries of the block's transactions alone.
MemoryOK ==
    /\ \A l \in DOMAIN data : DOMAIN data[l] \subseteq Txs
    /\ DOMAIN last_write = Txs

HasEntry(l, t) == t \in DOMAIN EntriesOf(l)

HasData(l, t, inc) ==
    HasEntry(l, t) /\ EntriesOf(l)[t].tag = "Data" /\ EntriesOf(l)[t].inc = inc

\* Worker w is in record for t.
Recording(w, t) == vm[w].phase = "record" /\ tx[w] = t

\* An entry is one of the last write set, or the ESTIMATE of the beneficiary that
\* is there from the start, or one that record is about to remove.
EntriesKnown ==
    \A t \in Txs : \A l \in Locations : HasEntry(l, t) =>
        \/ l \in last_write[t] \cup {Coinbase}
        \/ \E w \in Workers : Recording(w, t) /\ l \in vm[w].todo

\* What record has not removed or inserted yet.
SoFar(w, t, inc) ==
    /\ Coinbase \in last_write[t]
    /\ DOMAIN vm[w].writes \subseteq last_write[t]
    /\ vm[w].todo \cap last_write[t] = {}
    /\ \A l \in Locations \cap (last_write[t] \ DOMAIN vm[w].writes) : HasData(l, t, inc)

RecordedSoFar ==
    \A w \in Workers : vm[w].phase = "record" => SoFar(w, tx[w], version[w])

\* convert_writes_to_estimates goes through the last write set.
ConvertsItsOwn ==
    \A w \in Workers : vm[w].phase = "convert" => vm[w].todo \subseteq last_write[tx[w]]

\* The entries of t are those of its last write set, the data of incarnation inc.
Recorded(t, inc) ==
    \A l \in Locations : /\ HasEntry(l, t) <=> l \in last_write[t]
                         /\ HasEntry(l, t) => HasData(l, t, inc)

\* From the end of record to the next abort.
RecordedAtEnd ==
    /\ \A w \in Workers : pc[w] \in Finishing => Recorded(tx[w], version[w])
    /\ \A t \in Txs : Completed(t) => Recorded(t, incarnation[t])

MemInv ==
    /\ PhaseOK
    /\ MemoryOK
    /\ EntriesKnown
    /\ RecordedSoFar
    /\ ConvertsItsOwn
    /\ RecordedAtEnd

-----------------------------------------------------------------------------
(* What a step does to the scheduler and to the memory *)

\* record and convert_writes_to_estimates put an entry: it alone is new.
LEMMA PutEffect ==
    ASSUME NEW l, NEW t, NEW e, PutEntry(l, t, e)
    PROVE  /\ \A m, b : HasEntry(m, b)' <=> HasEntry(m, b) \/ (m = l /\ b = t)
           /\ \A m, b : HasEntry(m, b) /\ ~(m = l /\ b = t) => EntriesOf(m)'[b] = EntriesOf(m)[b]
           /\ EntriesOf(l)'[t] = e
BY DEF PutEntry, HasEntry, EntriesOf, NoEntries

\* record drops an entry of an earlier incarnation: it alone is gone.
LEMMA DropEffect ==
    ASSUME NEW l, NEW t, DropEntry(l, t)
    PROVE  /\ \A m, b : HasEntry(m, b)' <=> HasEntry(m, b) /\ ~(m = l /\ b = t)
           /\ \A m, b : HasEntry(m, b)' => EntriesOf(m)'[b] = EntriesOf(m)[b]
BY DEF DropEntry, HasEntry, EntriesOf, NoEntries, Restrict

\* A step that does not end record: what is completed now was completed before, or
\* a worker was finishing its execution.
Finishes ==
    /\ \A v \in Workers : pc'[v] \in Finishing =>
          pc[v] \in Finishing /\ tx'[v] = tx[v] /\ version'[v] = version[v]
    /\ \A t \in Txs : Completed(t)' =>
          /\ incarnation'[t] = incarnation[t]
          /\ \/ Completed(t)
             \/ \E v \in Workers : pc[v] \in Finishing /\ tx[v] = t /\ version[v] = incarnation[t]

\* The steps of the scheduler complete only what an execution has finished.
LEMMA FinishesStep ==
    ASSUME TypeOK, RegisterOK, SingleExecutor, AbortingWaitsOnce, NEW w \in Workers,
           SchedulerStep(w) \/ VmStep(w), pc[w] = "execute" => pc'[w] \notin Finishing
    PROVE  Finishes
<1> USE DEF Finishes
<1>   /\ OthersKept(w)
      /\ status \in [Txs -> IncarnationStatus]
      /\ incarnation \in [Txs -> Nat]
      /\ tx \in [Workers -> Txs]
      /\ pc \in [Workers -> PCs]
      /\ version \in [Workers -> Nat]
  BY LocalStep DEF TypeOK
<1>1. CASE Quiet(w)
  BY <1>1 DEF Quiet, OthersKept, Owns, Completed
<1>2. CASE LockValidationTx(w)
  BY <1>2, SMT
     DEF LockValidationTx, StartExecution, Goto, Completed, OthersKept, Finishing
<1>3. CASE TryExecute(w)
  BY <1>3, SMT
     DEF TryExecute, StartExecution, Goto, Completed, OthersKept, Finishing
<1>4. CASE AddDependency(w)
  BY <1>4, SMT
     DEF AddDependency, Goto, Completed, OthersKept, Finishing
<1>5. CASE LowerMinValidationIdx(w)
  <2>1. status' = status \/ status' = [status EXCEPT ![tx[w]] = "Executed"]
    BY <1>5 DEF LowerMinValidationIdx, EndExecution, HasFlag, NeedValidation
  <2>2. UNCHANGED <<incarnation, tx, version>> /\ pc[w] \in Finishing
    BY <1>5 DEF LowerMinValidationIdx, Finishing
  <2>3. \A t \in Txs : Completed(t)' => Completed(t) \/ t = tx[w]
    BY <2>1 DEF Completed
  <2>4. version[w] = incarnation[tx[w]]
    BY <2>2 DEF SingleExecutor, Owns
  <2> QED
    BY <2>2, <2>3, <2>4 DEF OthersKept
<1>6. CASE CheckValidationIdx(w)
  <2>1. status' = status \/ status' = [status EXCEPT ![tx[w]] = "Executed"]
    BY <1>6 DEF CheckValidationIdx, ReturnValidation, EndExecution, HasFlag, NeedValidation
  <2>2. UNCHANGED <<incarnation, tx, version>> /\ pc[w] \in Finishing
    BY <1>6 DEF CheckValidationIdx, Finishing
  <2>3. \A t \in Txs : Completed(t)' => Completed(t) \/ t = tx[w]
    BY <2>1 DEF Completed
  <2>4. version[w] = incarnation[tx[w]]
    BY <2>2 DEF SingleExecutor, Owns
  <2> QED
    BY <2>2, <2>3, <2>4 DEF OthersKept
<1>7. CASE LowerValidationIdx(w)
  <2>1. status' = status \/ status' = [status EXCEPT ![tx[w]] = "Executed"]
    BY <1>7 DEF LowerValidationIdx, ReturnValidation, EndExecution, HasFlag, NeedValidation
  <2>2. UNCHANGED <<incarnation, tx, version>> /\ pc[w] \in Finishing
    BY <1>7 DEF LowerValidationIdx, Finishing
  <2>3. \A t \in Txs : Completed(t)' => Completed(t) \/ t = tx[w]
    BY <2>1 DEF Completed
  <2>4. version[w] = incarnation[tx[w]]
    BY <2>2 DEF SingleExecutor, Owns
  <2> QED
    BY <2>2, <2>3, <2>4 DEF OthersKept
<1>8. CASE TryValidationAbort(w)
  BY <1>8
     DEF TryValidationAbort, Goto, Completed, OthersKept, Finishing
<1>9. CASE FinishAborted(w)
  BY <1>9
     DEF FinishAborted, SetReadyStatus, Goto, Completed, OthersKept, Finishing
<1>10. CASE FinishValidated(w)
  BY <1>10
     DEF FinishValidated, Goto, Completed, OthersKept, Finishing
<1>11. ASSUME NEW d \in Txs, ResumeDependent(w, d) PROVE Finishes
  <2>1. status[d] = "Aborting" /\ d # tx[w]
    BY <1>11, SMT DEF ResumeDependent, AbortingWaitsOnce, SingleExecutor, Owns, Finishing
  <2> QED
    BY <1>11, <2>1
       DEF ResumeDependent, SetReadyStatus, Goto, Completed, OthersKept, Finishing
<1>12. ASSUME NEW f \in {{}, WroteNewLocation}, ExecuteOk(w, f) PROVE Finishes
  BY <1>12 DEF ExecuteOk, Goto, Finishing
<1> QED
  BY <1>1, <1>2, <1>3, <1>4, <1>5, <1>6, <1>7, <1>8, <1>9, <1>10, <1>11, <1>12, QuietOrLoud DEF Loud

\* A read is blocked by a lower transaction of the block: the walk goes down from
\* the reader and ends at the first entry that is not lazy.
LEMMA BlockedByLower ==
    ASSUME MemoryOK, NEW l, NEW t \in Txs, NEW storage, ~ReadValue(l, t, storage).ok
    PROVE  /\ ReadValue(l, t, storage).blocking \in Txs
           /\ ReadValue(l, t, storage).blocking < t
<1> DEFINE end == WalkEnd(l, t)
<1>1. PICK b \in end : EntriesOf(l)[b].tag = "Estimate"
  BY DEF ReadValue
<1>2. ReadValue(l, t, storage).blocking = Max(end)
  BY <1>1 DEF ReadValue
<1>3. end \subseteq Txs /\ \A c \in end : c < t
  BY DEF WalkEnd, Walk, Below, EntriesOf, NoEntries, MemoryOK
<1>4. \A c, d \in end : ~(c < d)
  BY DEF WalkEnd, Walk
<1>5. \A c, d \in end : c = d
  BY <1>3, <1>4, TxsFacts, SMT
<1>6. \A c \in end : c <= b
  BY <1>1, <1>3, <1>5, TxsFacts, SMT
<1>7. Max(end) \in end
  <2> HIDE DEF end
  <2> QED
    BY <1>1, <1>6 DEF Max
<1> QED
  BY <1>2, <1>3, <1>7

\* The memory answers as the scheduler expects: every step of a worker is a step of
\* the scheduler or invisible to it.
LEMMA StepImplements ==
    ASSUME TypeOK, MemoryOK, NEW w \in Workers, WorkerStep(w)
    PROVE  SchedulerStep(w) \/ VmStep(w) \/ UNCHANGED vars
<1>   tx[w] \in Txs
  BY DEF TypeOK
<1>1. CASE OtherStep(w)
  BY <1>1 DEF OtherStep
<1>2. CASE NewVmDb(w)
  BY <1>2 DEF NewVmDb, VmStep
<1>3. CASE DecideLazy(w)
  BY <1>3 DEF DecideLazy
<1>4. CASE ReadNext(w)
  <2> DEFINE l == Head(Unread(tx[w], vm[w]))
             r == ReadValue(l, tx[w], Storage)
  <2>1. \/ ~r.ok /\ ExecuteBlocked(w, r.blocking)
        \/ BadSender(w)
        \/ UNCHANGED vars
    BY <1>4 DEF ReadNext
  <2>2. ~r.ok => r.blocking \in Txs /\ r.blocking < tx[w]
    BY BlockedByLower
  <2> HIDE DEF r
  <2>3. ~r.ok /\ ExecuteBlocked(w, r.blocking) => VmStep(w)
    BY <2>2 DEF VmStep
  <2>4. tx[w] > 0 => tx[w] - 1 \in Txs /\ tx[w] - 1 < tx[w]
    BY BlockSizeAssumption, SMT DEF Txs
  <2>5. BadSender(w) => VmStep(w)
    BY <2>4 DEF BadSender, VmStep
  <2> QED
    BY <2>1, <2>3, <2>5
<1>5. CASE BeginRecord(w)
  BY <1>5 DEF BeginRecord
<1>6. CASE EndRecord(w)
  BY <1>6 DEF EndRecord, VmStep
<1>7. CASE BeginValidate(w)
  BY <1>7 DEF BeginValidate
<1>8. CASE EndValidate(w)
  BY <1>8 DEF EndValidate, VmStep
<1>9. CASE BeginConvert(w)
  BY <1>9 DEF BeginConvert
<1>10. CASE EndConvert(w)
  BY <1>10 DEF EndConvert, SchedulerStep
<1>11. ASSUME NEW l \in Locations,
              RemoveStale(w, l) \/ InsertWrite(w, l) \/ ConvertLocation(w, l)
       PROVE  UNCHANGED vars
  BY <1>11 DEF RemoveStale, InsertWrite, ConvertLocation
<1>12. ASSUME NEW l \in Locations, CheckLocation(w, l)
       PROVE  VmStep(w) \/ UNCHANGED vars
  BY <1>12 DEF CheckLocation, VmStep
<1> QED
  BY <1>1, <1>2, <1>3, <1>4, <1>5, <1>6, <1>7, <1>8, <1>9, <1>10, <1>11, <1>12
     DEF WorkerStep

\* A worker that the scheduler has sent to the memory takes no step of the scheduler
\* until the memory has answered.
LEMMA OtherStepPc ==
    ASSUME NEW w \in Workers, OtherStep(w)
    PROVE  pc[w] \notin {"execute", "validate", "ready"}
BY DEF OtherStep, SchedulerStep, NextTask, LoadExecutionIdx, LoadValidationIdx,
       LoadNumValidated, LoadMinValidationIdx, TakeValidationIdx, LockValidationTx,
       TakeExecutionIdx, TryExecute, AddDependency, ResumeDependent,
       ResumeExecutionIdx, LowerMinValidationIdx, CheckValidationIdx,
       LowerValidationIdx, TryValidationAbort, FinishAborted, LowerAfterAbort,
       LoadAfterAbort, FinishValidated, TaskReturned

\* The step touches the record of no other worker.
OthersVmKept(w) == \A v \in Workers \ {w} : vm'[v] = vm[v]

\* A step that leaves the memory alone and neither begins, goes on with nor ends
\* record; a conversion it begins goes through the last write set.
Calm(w) ==
    /\ UNCHANGED mvvars
    /\ vm[w].phase # "record" /\ vm'[w].phase # "record"
    /\ vm'[w].phase = "convert" => vm'[w].todo \subseteq last_write[tx[w]] /\ tx' = tx

\* What the steps do to the worker's record.
LEMMA PhaseStep ==
    ASSUME TypeOK, RegisterOK, PhaseOK, MemoryOK, NEW w \in Workers, WorkerStep(w)
    PROVE  /\ PhaseOK' /\ OthersVmKept(w)
           /\ \/ Calm(w) /\ (pc[w] = "execute" => pc'[w] \notin Finishing)
              \/ BeginRecord(w) \/ EndRecord(w)
              \/ \E l \in Locations :
                    RemoveStale(w, l) \/ InsertWrite(w, l) \/ ConvertLocation(w, l)
<1> DEFINE Result == /\ PhaseOK' /\ OthersVmKept(w)
                     /\ Calm(w) /\ (pc[w] = "execute" => pc'[w] \notin Finishing)
           SetIdle == SetVm(w, Idle)
<1>   pc \in [Workers -> PCs] /\ tx \in [Workers -> Txs]
  BY DEF TypeOK
<1>a. ASSUME UNCHANGED vars \/ OthersKept(w) PROVE \A v \in Workers \ {w} : pc'[v] = pc[v]
  BY <1>a DEF vars, locals, OthersKept
<1>b. \A v \in Workers \ {w} : pc'[v] = pc[v]
  BY <1>a, StepImplements, LocalStep
<1>c. ASSUME NEW s, SetVm(w, s), DOMAIN s = VmFields,
             s.phase \in {"idle", "lazy", "lazyTo", "read", "record", "check", "convert"},
             s.phase \in {"lazy", "lazyTo", "read", "record"} => pc'[w] = "execute",
             s.phase = "check" => pc'[w] = "validate",
             s.phase = "convert" => pc'[w] = "ready"
      PROVE  PhaseOK' /\ OthersVmKept(w) /\ vm'[w] = s
  BY <1>b, <1>c, SMT DEF PhaseOK, OthersVmKept, SetVm
<1>d. DOMAIN Idle = VmFields /\ Idle.phase = "idle"
  BY DEF Idle, VmFields
<1>1. CASE OtherStep(w)
  <2>1. vm[w].phase = "idle" /\ pc[w] # "execute"
    BY <1>1, OtherStepPc DEF PhaseOK
  <2> QED
    BY <1>b, <1>1, <2>1, SMT DEF OtherStep, PhaseOK, OthersVmKept, Calm
<1>2. CASE NewVmDb(w)
  <2>1. PICK s : /\ SetVm(w, s) /\ DOMAIN s = VmFields
                 /\ \/ s.phase \in {"lazy", "read"} /\ UNCHANGED vars
                    \/ s = Idle /\ ExecuteFatal(w, "FallbackToSequential")
    <3> DEFINE t == tx[w]
               r == ReadCodeHash(Block[t].code, t, Storage)
               state == Seen(Idle, Block[t].code, [bal |-> r.bal, nonce |-> 0], r.origins)
               a == [Idle EXCEPT !.phase = IF Block[t].raw THEN "lazy" ELSE "read"]
               b == [state EXCEPT !.phase = IF r.bal > 0 THEN "read" ELSE "lazy"]
    <3>1. \/ SetVm(w, a) /\ UNCHANGED vars
          \/ SetVm(w, b) /\ UNCHANGED vars
          \/ SetVm(w, Idle) /\ ExecuteFatal(w, "FallbackToSequential")
      BY <1>2 DEF NewVmDb
    <3>2. DOMAIN a = VmFields /\ a.phase \in {"lazy", "read"}
      BY DEF Idle, VmFields
    <3>3. DOMAIN state = VmFields
      BY DEF Idle, Seen, VmFields
    <3>4. DOMAIN b = VmFields /\ b.phase \in {"lazy", "read"}
      BY <3>3 DEF VmFields
    <3> HIDE DEF a, b
    <3> QED
      BY <3>1, <3>2, <3>4, <1>d
  <2>2. s.phase = "idle" \/ (s.phase \in {"lazy", "read"} /\ pc' = pc)
    BY <2>1, <1>d DEF vars, locals
  <2>3. PhaseOK' /\ OthersVmKept(w) /\ vm'[w] = s
    BY <2>1, <2>2, <1>c, <1>2 DEF NewVmDb
  <2>4. pc'[w] \in {"execute", "gotNone"}
    BY <2>1, <1>2 DEF NewVmDb, vars, locals, ExecuteFatal, Goto
  <2> QED
    BY <1>2, <2>2, <2>3, <2>4 DEF NewVmDb, Calm, Finishing
<1>3. CASE DecideLazy(w)
  <2>1. PICK s : /\ SetVm(w, s) /\ DOMAIN s = VmFields /\ s.phase \in {"lazyTo", "read"}
    <3> DEFINE T == Block[tx[w]]
               known == (IF vm[w].phase = "lazy" THEN T.caller ELSE T.to) \in DOMAIN data
               s == [vm[w] EXCEPT !.lazy = known,
                                  !.phase = IF known \/ @ = "lazyTo" THEN "read"
                                            ELSE "lazyTo"]
    <3>1. SetVm(w, s)
      BY <1>3 DEF DecideLazy
    <3>2. DOMAIN vm[w] = VmFields
      BY DEF PhaseOK
    <3>3. DOMAIN s = VmFields /\ s.phase \in {"lazyTo", "read"}
      BY <3>2 DEF VmFields
    <3> HIDE DEF s
    <3> QED
      BY <3>1, <3>3
  <2>2. pc' = pc /\ pc[w] = "execute"
    BY <1>3 DEF DecideLazy, vars, locals
  <2>3. PhaseOK' /\ OthersVmKept(w) /\ vm'[w] = s
    BY <2>1, <2>2, <1>c
  <2> QED
    BY <1>3, <2>1, <2>2, <2>3 DEF DecideLazy, Calm, Finishing
<1>4. CASE ReadNext(w)
  <2>1. PICK s : /\ SetVm(w, s) /\ DOMAIN s = VmFields
                 /\ \/ s.phase = "read" /\ UNCHANGED vars
                    \/ s = Idle /\ pc'[w] \in {"block", "gotNone"}
    <3>1. \/ SetVm(w, Idle) /\ \E b : ExecuteBlocked(w, b)
          \/ SetVm(w, Idle) /\ BadSender(w)
          \/ (\E l, v, o : SetVm(w, Seen(vm[w], l, v, o))) /\ UNCHANGED vars
      BY <1>4 DEF ReadNext
    <3>2. \A l, v, o : DOMAIN Seen(vm[w], l, v, o) = VmFields /\ Seen(vm[w], l, v, o).phase = "read"
      BY <1>4 DEF ReadNext, Seen, PhaseOK, VmFields
    <3>3. (\E b : ExecuteBlocked(w, b)) \/ BadSender(w) => pc'[w] \in {"block", "gotNone"}
      BY DEF BadSender, ExecuteBlocked, ExecuteFatal, Goto
    <3> QED
      BY <3>1, <3>2, <3>3, <1>d
  <2>2. pc[w] = "execute" /\ vm[w].phase = "read" /\ UNCHANGED mvvars
    BY <1>4 DEF ReadNext
  <2>3. s.phase = "idle" \/ (s.phase = "read" /\ pc' = pc)
    BY <2>1, <1>d DEF vars, locals
  <2>4. PhaseOK' /\ OthersVmKept(w) /\ vm'[w] = s
    BY <2>1, <2>2, <2>3, <1>c
  <2> QED
    BY <2>1, <2>2, <2>3, <2>4 DEF Calm, Finishing, vars, locals
<1>5. CASE BeginRecord(w)
  <2> DEFINE writes == WriteSet(tx[w], vm[w])
             s == [Idle EXCEPT !.phase = "record", !.writes = writes,
                               !.todo = StaleLocations(tx[w], writes),
                               !.wrote = WritesNewLocation(tx[w], writes)]
  <2>1. SetVm(w, s)
    BY <1>5 DEF BeginRecord
  <2>3. DOMAIN s = VmFields /\ s.phase = "record"
    BY DEF Idle, VmFields
  <2> HIDE DEF s
  <2>2. pc' = pc /\ pc[w] = "execute"
    BY <1>5 DEF BeginRecord, vars, locals
  <2> QED
    BY <1>5, <2>1, <2>2, <2>3, <1>c
<1>6. CASE EndRecord(w)
  <2>1. SetVm(w, Idle)
    BY <1>6 DEF EndRecord
  <2> QED
    BY <1>6, <2>1, <1>c, <1>d
<1>7. CASE BeginValidate(w)
  <2> DEFINE s == [Idle EXCEPT !.phase = "check", !.todo = DOMAIN last_read[tx[w]]]
  <2>0. SetVm(w, s)
    BY <1>7 DEF BeginValidate
  <2>1. DOMAIN s = VmFields /\ s.phase = "check"
    BY DEF Idle, VmFields
  <2> HIDE DEF s
  <2>2. pc' = pc /\ pc[w] = "validate" /\ vm[w].phase = "idle" /\ UNCHANGED mvvars
    BY <1>7 DEF BeginValidate, vars, locals
  <2>3. PhaseOK' /\ OthersVmKept(w) /\ vm'[w] = s
    BY <2>0, <2>1, <2>2, <1>c
  <2> QED
    BY <2>1, <2>2, <2>3 DEF Calm
<1>8. CASE EndValidate(w)
  <2>1. SetVm(w, Idle) /\ pc[w] = "validate" /\ vm[w].phase = "check" /\ UNCHANGED mvvars
    BY <1>8 DEF EndValidate, Validate
  <2>2. PhaseOK' /\ OthersVmKept(w) /\ vm'[w] = Idle
    BY <2>1, <1>c, <1>d
  <2> QED
    BY <2>1, <2>2, <1>d DEF Calm
<1>9. CASE BeginConvert(w)
  <2> DEFINE s == [Idle EXCEPT !.phase = "convert", !.todo = last_write[tx[w]]]
  <2>0. SetVm(w, s)
    BY <1>9 DEF BeginConvert
  <2>1. DOMAIN s = VmFields /\ s.phase = "convert" /\ s.todo = last_write[tx[w]]
    BY DEF Idle, VmFields
  <2> HIDE DEF s
  <2>2. pc' = pc /\ pc[w] = "ready" /\ vm[w].phase = "idle" /\ UNCHANGED mvvars /\ tx' = tx
    BY <1>9 DEF BeginConvert, vars, locals
  <2>3. PhaseOK' /\ OthersVmKept(w) /\ vm'[w] = s
    BY <2>0, <2>1, <2>2, <1>c
  <2> QED
    BY <2>1, <2>2, <2>3 DEF Calm
<1>10. CASE EndConvert(w)
  <2>1. SetVm(w, Idle) /\ pc[w] = "ready" /\ vm[w].phase = "convert" /\ UNCHANGED mvvars
    BY <1>10 DEF EndConvert, FinishAborted
  <2>2. PhaseOK' /\ OthersVmKept(w) /\ vm'[w] = Idle
    BY <2>1, <1>c, <1>d
  <2> QED
    BY <2>1, <2>2, <1>d DEF Calm
<1>11. ASSUME NEW l \in Locations,
              RemoveStale(w, l) \/ InsertWrite(w, l) \/ ConvertLocation(w, l)
       PROVE  PhaseOK' /\ OthersVmKept(w)
  <2>1. PICK s : SetVm(w, s) /\ DOMAIN s = VmFields /\ s.phase = vm[w].phase
    <3> DEFINE a == [vm[w] EXCEPT !.todo = @ \ {l}]
               b == [vm[w] EXCEPT !.writes = Restrict(@, DOMAIN @ \ {l})]
    <3>1. SetVm(w, a) \/ SetVm(w, b)
      BY <1>11 DEF RemoveStale, InsertWrite, ConvertLocation
    <3>2. DOMAIN vm[w] = VmFields
      BY DEF PhaseOK
    <3>3. DOMAIN a = VmFields /\ a.phase = vm[w].phase
      BY <3>2 DEF VmFields
    <3>4. DOMAIN b = VmFields /\ b.phase = vm[w].phase
      BY <3>2 DEF VmFields
    <3> HIDE DEF a, b
    <3> QED
      BY <3>1, <3>3, <3>4
  <2>2. pc' = pc
    BY <1>11 DEF RemoveStale, InsertWrite, ConvertLocation, vars, locals
  <2> QED
    BY <2>1, <2>2, <1>c DEF PhaseOK
<1>12. ASSUME NEW l \in Locations, CheckLocation(w, l) PROVE Result
  <2>1. PICK s : /\ SetVm(w, s) /\ DOMAIN s = VmFields
                 /\ s.phase = "idle" \/ (s.phase = "check" /\ UNCHANGED vars)
    <3> DEFINE a == [vm[w] EXCEPT !.todo = @ \ {l}]
    <3>1. (SetVm(w, a) /\ UNCHANGED vars) \/ SetVm(w, Idle)
      BY <1>12 DEF CheckLocation
    <3>2. DOMAIN vm[w] = VmFields /\ vm[w].phase = "check"
      BY <1>12 DEF PhaseOK, CheckLocation
    <3>3. DOMAIN a = VmFields /\ a.phase = "check"
      BY <3>2 DEF VmFields
    <3> HIDE DEF a
    <3> QED
      BY <3>1, <3>3, <1>d
  <2>2. pc[w] = "validate" /\ vm[w].phase = "check" /\ UNCHANGED mvvars
    BY <1>12 DEF CheckLocation
  <2>3. s.phase = "idle" \/ (s.phase = "check" /\ pc' = pc)
    BY <2>1 DEF vars, locals
  <2>4. PhaseOK' /\ OthersVmKept(w) /\ vm'[w] = s
    BY <2>1, <2>2, <2>3, <1>c
  <2> QED
    BY <2>1, <2>2, <2>4 DEF Calm
<1> QED
  BY <1>1, <1>2, <1>3, <1>4, <1>5, <1>6, <1>7, <1>8, <1>9, <1>10, <1>11, <1>12
     DEF WorkerStep

-----------------------------------------------------------------------------
\* A step changes what its own worker works on, nobody else's task.
LEMMA OthersTasks ==
    ASSUME TypeOK, RegisterOK, MemoryOK, NEW w \in Workers, WorkerStep(w)
    PROVE  \A v \in Workers \ {w} : /\ pc'[v] = pc[v] /\ tx'[v] = tx[v]
                                    /\ version'[v] = version[v]
<1>1. OthersKept(w) \/ UNCHANGED vars
  BY StepImplements, LocalStep
<1> QED
  BY <1>1 DEF OthersKept, vars, locals

\* The memory's entries belong to transactions.
LEMMA MemoryFacts ==
    ASSUME DOMAIN last_write = Txs
    PROVE  MemoryOK <=> \A l, b : HasEntry(l, b) => b \in Txs
BY DEF MemoryOK, HasEntry, EntriesOf, NoEntries

\* Every execution pays the beneficiary, so its location is in every write set.
LEMMA CoinbaseWritten ==
    ASSUME NEW t, NEW state
    PROVE  Coinbase \in DOMAIN WriteSet(t, state)
<1> DEFINE writes == Merge(SenderWrites(t, state),
                           IF HasCode(t, state.vals) THEN Effects(block, t, state.vals)
                           ELSE RecipientWrites(t, state))
<1>1. WriteSet(t, state) = Rewarded(writes)
  BY DEF WriteSet
<1> HIDE DEF writes
<1>2. CASE Coinbase \in DOMAIN writes
  BY <1>1, <1>2 DEF Rewarded
<1>3. CASE Coinbase \notin DOMAIN writes
  BY <1>1, <1>3, CoinbaseAssumption DEF Rewarded, Merge, One
<1> QED
  BY <1>2, <1>3

\* The worker that records a transaction is its executor, and the only one that
\* records it; nobody finishes or converts it, and it is not completed.
LEMMA RecorderAlone ==
    ASSUME TypeOK, SingleExecutor, AbortingWaitsOnce, PhaseOK,
           NEW w \in Workers, pc[w] = "execute"
    PROVE  /\ tx[w] \in Txs /\ ~Completed(tx[w])
           /\ \A v \in Workers : tx[v] = tx[w] =>
                 /\ pc[v] \notin Finishing /\ vm[v].phase # "convert"
                 /\ vm[v].phase = "record" => v = w
<1>1. status[tx[w]] = "Executing" /\ tx[w] \in Txs /\ Owns(w)
  BY DEF SingleExecutor, Owns, TypeOK
<1>2. \A v \in Workers : pc[v] \in Finishing \cup {"execute"} /\ tx[v] = tx[w] => v = w
  BY <1>1 DEF SingleExecutor, Owns
<1>3. "execute" \notin Finishing
  BY DEF Finishing
<1>4. \A v \in Workers : tx[v] = tx[w] => pc[v] # "ready"
  BY <1>1 DEF AbortingWaitsOnce
<1> QED
  BY <1>1, <1>2, <1>3, <1>4 DEF Completed, PhaseOK

\* The worker that converts the writes of a transaction has aborted it: nobody
\* executes it or has completed it.
LEMMA ConverterAlone ==
    ASSUME TypeOK, SingleExecutor, AbortingWaitsOnce, PhaseOK,
           NEW w \in Workers, pc[w] = "ready"
    PROVE  /\ tx[w] \in Txs /\ ~Completed(tx[w])
           /\ \A v \in Workers : tx[v] = tx[w] => pc[v] \notin Finishing /\ vm[v].phase # "record"
<1>1. status[tx[w]] = "Aborting" /\ tx[w] \in Txs
  BY DEF AbortingWaitsOnce, TypeOK
<1>2. \A v \in Workers : tx[v] = tx[w] => pc[v] \notin Finishing \cup {"execute"}
  BY <1>1 DEF SingleExecutor, Owns
<1> QED
  BY <1>1, <1>2 DEF Completed, PhaseOK

\* The entries of one transaction change, those of the others do not.
OnlyEntriesOf(t) ==
    \A m, b : b # t => /\ HasEntry(m, b)' <=> HasEntry(m, b)
                       /\ HasEntry(m, b) => EntriesOf(m)'[b] = EntriesOf(m)[b]

\* record removes one entry of its own transaction, ...
Removed(w, l, t) ==
    /\ OnlyEntriesOf(t) /\ UNCHANGED <<vars, last_write>>
    /\ pc[w] = "execute" /\ vm[w].phase = "record" /\ l \in vm[w].todo
    /\ vm'[w].phase = "record" /\ vm'[w].writes = vm[w].writes
    /\ vm'[w].todo = vm[w].todo \ {l}
    /\ \A m : /\ HasEntry(m, t)' => HasEntry(m, t) /\ m # l
              /\ HasEntry(m, t) /\ m # l =>
                   HasEntry(m, t)' /\ EntriesOf(m)'[t] = EntriesOf(m)[t]

\* The effect of one step of RemoveStale.
LEMMA RemoveStaleEffect ==
    ASSUME PhaseOK, NEW w \in Workers, NEW l, RemoveStale(w, l), NEW t, t = tx[w]
    PROVE  Removed(w, l, t)
<1>   w \in DOMAIN vm /\ DOMAIN vm[w] = VmFields
  BY DEF PhaseOK
<1>1. /\ DropEntry(l, t) /\ UNCHANGED <<vars, last_write>>
      /\ pc[w] = "execute" /\ vm[w].phase = "record" /\ l \in vm[w].todo
      /\ SetVm(w, [vm[w] EXCEPT !.todo = @ \ {l}])
  BY DEF RemoveStale
<1>2. /\ vm'[w].phase = "record" /\ vm'[w].writes = vm[w].writes
      /\ vm'[w].todo = vm[w].todo \ {l}
  BY <1>1 DEF SetVm, VmFields
<1>3. OnlyEntriesOf(t)
  BY <1>1, DropEffect, SMT DEF OnlyEntriesOf
<1>4. \A m : /\ HasEntry(m, t)' => HasEntry(m, t) /\ m # l
             /\ HasEntry(m, t) /\ m # l =>
                  HasEntry(m, t)' /\ EntriesOf(m)'[t] = EntriesOf(m)[t]
  BY <1>1, DropEffect, SMT
<1> QED
  BY <1>1, <1>2, <1>3, <1>4 DEF Removed

\* ... or inserts one, the data of the worker's incarnation; ...
Inserted(w, l, t) ==
    /\ OnlyEntriesOf(t) /\ UNCHANGED <<vars, last_write>>
    /\ pc[w] = "execute" /\ vm[w].phase = "record" /\ l \in DOMAIN vm[w].writes
    /\ vm'[w].phase = "record" /\ vm'[w].todo = vm[w].todo
    /\ DOMAIN vm'[w].writes = DOMAIN vm[w].writes \ {l}
    /\ HasEntry(l, t)' /\ EntriesOf(l)'[t].tag = "Data"
    /\ EntriesOf(l)'[t].inc = version[w]
    /\ \A m : m # l => /\ HasEntry(m, t)' <=> HasEntry(m, t)
                       /\ HasEntry(m, t) => EntriesOf(m)'[t] = EntriesOf(m)[t]

\* The effect of one step of InsertWrite.
LEMMA InsertWriteEffect ==
    ASSUME PhaseOK, NEW w \in Workers, NEW l, InsertWrite(w, l), NEW t, t = tx[w]
    PROVE  Inserted(w, l, t)
<1>   w \in DOMAIN vm /\ DOMAIN vm[w] = VmFields
  BY DEF PhaseOK
<1>1. /\ PutEntry(l, t, Data(version[w], vm[w].writes[l])) /\ UNCHANGED <<vars, last_write>>
      /\ pc[w] = "execute" /\ vm[w].phase = "record" /\ l \in DOMAIN vm[w].writes
      /\ SetVm(w, [vm[w] EXCEPT !.writes = Restrict(@, DOMAIN @ \ {l})])
  BY DEF InsertWrite
<1>2. /\ vm'[w].phase = "record" /\ vm'[w].todo = vm[w].todo
      /\ DOMAIN vm'[w].writes = DOMAIN vm[w].writes \ {l}
  BY <1>1 DEF SetVm, VmFields, Restrict
<1>3. OnlyEntriesOf(t)
  BY <1>1, PutEffect, SMT DEF OnlyEntriesOf
<1>4. HasEntry(l, t)' /\ EntriesOf(l)'[t] = Data(version[w], vm[w].writes[l])
  BY <1>1, PutEffect, SMT
<1>5. EntriesOf(l)'[t].tag = "Data" /\ EntriesOf(l)'[t].inc = version[w]
  BY <1>4, SMT DEF Data
<1>6. \A m : m # l => /\ HasEntry(m, t)' <=> HasEntry(m, t)
                      /\ HasEntry(m, t) => EntriesOf(m)'[t] = EntriesOf(m)[t]
  BY <1>1, PutEffect, SMT
<1> QED
  BY <1>1, <1>2, <1>3, <1>4, <1>5, <1>6 DEF Inserted

\* ... and convert_writes_to_estimates replaces one.
Converted(w, l, t) ==
    /\ OnlyEntriesOf(t) /\ UNCHANGED <<vars, last_write>>
    /\ pc[w] = "ready" /\ vm[w].phase = "convert" /\ l \in vm[w].todo
    /\ vm'[w].phase = "convert" /\ vm'[w].todo = vm[w].todo \ {l}
    /\ \A m : HasEntry(m, t)' => HasEntry(m, t) \/ m = l

\* The effect of one step of ConvertLocation.
LEMMA ConvertEffect ==
    ASSUME PhaseOK, NEW w \in Workers, NEW l, ConvertLocation(w, l), NEW t, t = tx[w]
    PROVE  Converted(w, l, t)
<1>   w \in DOMAIN vm /\ DOMAIN vm[w] = VmFields
  BY DEF PhaseOK
<1>1. /\ PutEntry(l, t, Estimate) /\ UNCHANGED <<vars, last_write>>
      /\ vm[w].phase = "convert" /\ l \in vm[w].todo
      /\ SetVm(w, [vm[w] EXCEPT !.todo = @ \ {l}])
  BY DEF ConvertLocation, PutEstimate
<1>2. vm'[w].phase = "convert" /\ vm'[w].todo = vm[w].todo \ {l}
  BY <1>1 DEF SetVm, VmFields
<1>3. OnlyEntriesOf(t)
  BY <1>1, PutEffect, SMT DEF OnlyEntriesOf
<1>4. \A m : HasEntry(m, t)' => HasEntry(m, t) \/ m = l
  BY <1>1, PutEffect
<1> QED
  BY <1>1, <1>2, <1>3, <1>4 DEF PhaseOK, Converted

\* The facts that every step of a worker is checked with.
Before(w) ==
    /\ TypeOK /\ RegisterOK /\ SingleExecutor /\ AbortingWaitsOnce
    /\ MemInv
    /\ w \in Workers /\ WorkerStep(w)

\* The steps, by what they do to the memory.
LEMMA StepCases ==
    ASSUME NEW w, Before(w)
    PROVE  /\ PhaseOK' /\ OthersVmKept(w)
           /\ \A v \in Workers \ {w} : pc'[v] = pc[v] /\ tx'[v] = tx[v] /\ version'[v] = version[v]
           /\ \/ Calm(w) /\ (pc[w] = "execute" => pc'[w] \notin Finishing)
              \/ BeginRecord(w) \/ EndRecord(w)
              \/ \E l \in Locations :
                    RemoveStale(w, l) \/ InsertWrite(w, l) \/ ConvertLocation(w, l)
<1>1. TypeOK /\ RegisterOK /\ PhaseOK /\ MemoryOK /\ w \in Workers /\ WorkerStep(w)
  BY DEF Before, MemInv
<1> QED
  BY <1>1, PhaseStep, OthersTasks

\* record starts with the new write set in place of the last one.
LEMMA BeginRecordEffect ==
    ASSUME PhaseOK, MemoryOK, NEW w \in Workers, BeginRecord(w), NEW t \in Txs, t = tx[w]
    PROVE  \E D : /\ UNCHANGED <<vars, data>> /\ pc[w] = "execute" /\ vm[w].phase = "read"
                  /\ Coinbase \in D
                  /\ last_write' = [last_write EXCEPT ![t] = D]
                  /\ vm'[w].phase = "record" /\ DOMAIN vm'[w].writes = D
                  /\ vm'[w].todo = last_write[t] \ D
<1> DEFINE writes == WriteSet(t, vm[w])
           s == [Idle EXCEPT !.phase = "record", !.writes = writes,
                             !.todo = StaleLocations(t, writes),
                             !.wrote = WritesNewLocation(t, writes)]
<1>1. /\ UNCHANGED <<vars, data>> /\ pc[w] = "execute" /\ vm[w].phase = "read"
      /\ last_write' = [last_write EXCEPT ![t] = DOMAIN writes]
      /\ SetVm(w, s)
  BY DEF BeginRecord
<1>2. Coinbase \in DOMAIN writes
  BY CoinbaseWritten
<1> HIDE DEF writes
<1>3. s.phase = "record" /\ s.writes = writes /\ s.todo = last_write[t] \ DOMAIN writes
  BY DEF Idle, StaleLocations
<1> HIDE DEF s
<1>4. vm'[w] = s
  BY <1>1 DEF SetVm, PhaseOK
<1>5. WITNESS DOMAIN writes
<1> QED
  BY <1>1, <1>2, <1>3, <1>4

\* record has visited all locations when it ends.
LEMMA EndRecordEffect ==
    ASSUME PhaseOK, NEW w \in Workers, EndRecord(w)
    PROVE  /\ UNCHANGED mvvars
           /\ pc[w] = "execute" /\ vm[w].phase = "record" /\ vm'[w].phase = "idle"
           /\ vm[w].todo = {} /\ DOMAIN vm[w].writes = {}
           /\ UNCHANGED <<status, incarnation, tx, version>>
<1>1. /\ UNCHANGED mvvars /\ vm[w].phase = "record" /\ SetVm(w, Idle)
      /\ vm[w].todo = {} /\ vm[w].writes = One(NoLoc, 0)
      /\ ExecuteOk(w, IF vm[w].wrote THEN WroteNewLocation ELSE {})
  BY DEF EndRecord
<1>2. DOMAIN vm[w].writes = {}
  BY <1>1 DEF One
<1>3. pc[w] = "execute" /\ UNCHANGED <<status, incarnation, tx, version>>
  BY <1>1 DEF ExecuteOk, txvars
<1>4. vm'[w].phase = "idle"
  BY <1>1 DEF SetVm, PhaseOK, Idle
<1> QED
  BY <1>1, <1>2, <1>3, <1>4

-----------------------------------------------------------------------------
(* Every step keeps the invariant *)

\* The memory's entries stay those of the block's transactions.
LEMMA MemoryOKStep ==
    ASSUME NEW w, Before(w)
    PROVE  MemoryOK'
<1>   /\ PhaseOK
      /\ MemoryOK
      /\ w \in Workers
      /\ DOMAIN last_write = Txs
      /\ \A l, b : HasEntry(l, b) => b \in Txs
  BY MemoryFacts DEF Before, MemInv, MemoryOK
<1>1. PICK t \in Txs : t = tx[w]
  BY DEF Before, TypeOK
<1>2. ASSUME OnlyEntriesOf(t), UNCHANGED last_write PROVE MemoryOK'
  BY <1>2 DEF OnlyEntriesOf, MemoryOK, HasEntry, EntriesOf, NoEntries
<1>3. CASE Calm(w) \/ EndRecord(w)
  BY <1>3 DEF Calm, EndRecord, mvvars, MemoryOK
<1>4. CASE BeginRecord(w)
  BY <1>1, <1>4, BeginRecordEffect DEF MemoryOK
<1>5. ASSUME NEW l \in Locations, RemoveStale(w, l) \/ InsertWrite(w, l) \/ ConvertLocation(w, l)
      PROVE  MemoryOK'
  <2>1. Removed(w, l, t) \/ Inserted(w, l, t) \/ Converted(w, l, t)
    BY <1>1, <1>5, RemoveStaleEffect, InsertWriteEffect, ConvertEffect
  <2> QED
    BY <1>2, <2>1 DEF Removed, Inserted, Converted
<1> QED
  BY <1>3, <1>4, <1>5, StepCases

\* Every entry stays known: record removes what the new write set leaves out.
LEMMA EntriesKnownStep ==
    ASSUME NEW w, Before(w)
    PROVE  EntriesKnown'
<1>   /\ PhaseOK
      /\ MemoryOK
      /\ EntriesKnown
      /\ RecordedSoFar
      /\ ConvertsItsOwn
      /\ w \in Workers
      /\ TypeOK
      /\ SingleExecutor
      /\ AbortingWaitsOnce
      /\ DOMAIN last_write = Txs
      /\ OthersVmKept(w) /\ \A v \in Workers \ {w} : tx'[v] = tx[v]
  BY StepCases DEF Before, MemInv, MemoryOK
<1>1. PICK t \in Txs : t = tx[w]
  BY DEF Before, TypeOK
<1> DEFINE Known(l, b) == \/ l \in last_write[b] \cup {Coinbase}
                          \/ \E v \in Workers : Recording(v, b) /\ l \in vm[v].todo
<1>2. ASSUME NEW b \in Txs, NEW l \in Locations, HasEntry(l, b), last_write'[b] = last_write[b],
             b = t => vm[w].phase # "record"
      PROVE  Known(l, b)'
  BY <1>1, <1>2, SMT DEF EntriesKnown, Recording, OthersVmKept
<1>3. ASSUME OnlyEntriesOf(t), last_write' = last_write,
             \A l \in Locations : HasEntry(l, t)' => Known(l, t)'
      PROVE  EntriesKnown'
  BY <1>2, <1>3, SMT DEF EntriesKnown, OnlyEntriesOf
<1>4. CASE Calm(w)
  <2>1. \A l, b : HasEntry(l, b)' <=> HasEntry(l, b)
    BY <1>4 DEF Calm, mvvars, HasEntry, EntriesOf
  <2>2. last_write' = last_write /\ vm[w].phase # "record"
    BY <1>4 DEF Calm, mvvars
  <2> QED
    BY <1>2, <2>1, <2>2 DEF EntriesKnown
<1>5. CASE BeginRecord(w)
  <2>1. PICK D : /\ UNCHANGED <<vars, data>> /\ pc[w] = "execute" /\ vm[w].phase = "read"
                 /\ last_write' = [last_write EXCEPT ![t] = D]
                 /\ vm'[w].phase = "record" /\ vm'[w].todo = last_write[t] \ D
    BY <1>1, <1>5, BeginRecordEffect, SMTT(30)
  <2>2. \A l, b : HasEntry(l, b)' <=> HasEntry(l, b)
    BY <2>1 DEF HasEntry, EntriesOf
  <2>3. \A v \in Workers : tx[v] = t /\ vm[v].phase = "record" => v = w
    BY <1>1, <2>1, RecorderAlone
  <2>4. ASSUME NEW l \in Locations, HasEntry(l, t) PROVE Known(l, t)'
    <3>1. l \in last_write[t] \cup {Coinbase}
      BY <2>1, <2>3, <2>4, SMTT(30) DEF EntriesKnown, Recording
    <3>2. last_write'[t] = D /\ Recording(w, t)'
      BY <1>1, <2>1 DEF Recording, vars, locals
    <3> QED
      BY <2>1, <3>1, <3>2
  <2>5. \A b \in Txs : b # t => last_write'[b] = last_write[b]
    BY <2>1
  <2> QED
    BY <1>2, <2>2, <2>4, <2>5, SMTT(30) DEF EntriesKnown
<1>6. CASE EndRecord(w)
  <2>1. /\ UNCHANGED mvvars /\ pc[w] = "execute" /\ vm[w].phase = "record"
        /\ vm[w].todo = {}
    BY <1>6, EndRecordEffect
  <2>2. \A l, b : HasEntry(l, b)' <=> HasEntry(l, b)
    BY <2>1 DEF mvvars, HasEntry, EntriesOf
  <2>3. \A v \in Workers : tx[v] = t /\ vm[v].phase = "record" => v = w
    BY <1>1, <2>1, RecorderAlone
  <2>4. ASSUME NEW l \in Locations, HasEntry(l, t) PROVE Known(l, t)'
    BY <2>1, <2>3, <2>4, SMT DEF EntriesKnown, Recording, mvvars
  <2> QED
    BY <1>2, <2>1, <2>2, <2>4, SMTT(30) DEF EntriesKnown, mvvars
<1>7. ASSUME NEW l \in Locations, RemoveStale(w, l) PROVE EntriesKnown'
  <2>1. /\ OnlyEntriesOf(t) /\ UNCHANGED <<vars, last_write>>
        /\ pc[w] = "execute" /\ vm[w].phase = "record" /\ vm'[w].phase = "record"
        /\ vm'[w].todo = vm[w].todo \ {l}
        /\ \A m : HasEntry(m, t)' => HasEntry(m, t) /\ m # l
    <3>1. Removed(w, l, t)
      BY <1>1, <1>7, RemoveStaleEffect
    <3> QED
      BY <3>1 DEF Removed
  <2>2. \A v \in Workers : tx[v] = t /\ vm[v].phase = "record" => v = w
    BY <1>1, <2>1, RecorderAlone
  <2>3. tx'[w] = t /\ last_write' = last_write
    BY <1>1, <2>1 DEF vars, locals
  <2>4. ASSUME NEW m \in Locations, HasEntry(m, t)' PROVE Known(m, t)'
    BY <2>1, <2>2, <2>3, <2>4, SMT DEF EntriesKnown, Recording
  <2> QED
    BY <1>3, <2>1, <2>3, <2>4
<1>8. ASSUME NEW l \in Locations, InsertWrite(w, l) PROVE EntriesKnown'
  <2>1. /\ OnlyEntriesOf(t) /\ UNCHANGED <<vars, last_write>>
        /\ pc[w] = "execute" /\ vm[w].phase = "record" /\ vm'[w].phase = "record"
        /\ vm'[w].todo = vm[w].todo /\ l \in DOMAIN vm[w].writes
        /\ \A m : m # l => (HasEntry(m, t)' <=> HasEntry(m, t))
    <3>1. Inserted(w, l, t)
      BY <1>1, <1>8, InsertWriteEffect
    <3> QED
      BY <3>1 DEF Inserted
  <2>2. \A v \in Workers : tx[v] = t /\ vm[v].phase = "record" => v = w
    BY <1>1, <2>1, RecorderAlone
  <2>3. tx'[w] = t /\ last_write' = last_write
    BY <1>1, <2>1 DEF vars, locals
  <2>4. l \in last_write[t]
    BY <1>1, <2>1 DEF RecordedSoFar, SoFar
  <2>5. ASSUME NEW m \in Locations, HasEntry(m, t)' PROVE Known(m, t)'
    BY <2>1, <2>2, <2>3, <2>4, <2>5, SMTT(30) DEF EntriesKnown, Recording
  <2> QED
    BY <1>3, <2>1, <2>3, <2>5
<1>9. ASSUME NEW l \in Locations, ConvertLocation(w, l) PROVE EntriesKnown'
  <2>1. /\ OnlyEntriesOf(t) /\ UNCHANGED <<vars, last_write>>
        /\ pc[w] = "ready" /\ vm[w].phase = "convert" /\ l \in vm[w].todo
        /\ \A m : HasEntry(m, t)' => HasEntry(m, t) \/ m = l
    <3>1. Converted(w, l, t)
      BY <1>1, <1>9, ConvertEffect
    <3> QED
      BY <3>1 DEF Converted
  <2>2. \A v \in Workers : tx[v] = t => vm[v].phase # "record"
    BY <1>1, <2>1, ConverterAlone
  <2>3. l \in last_write[t]
    BY <1>1, <2>1 DEF ConvertsItsOwn
  <2>4. ASSUME NEW m \in Locations, HasEntry(m, t)' PROVE Known(m, t)'
    BY <2>1, <2>2, <2>3, <2>4, SMT DEF EntriesKnown, Recording
  <2> QED
    BY <1>3, <2>1, <2>4
<1> QED
  BY <1>4, <1>5, <1>6, <1>7, <1>8, <1>9, StepCases

\* record keeps account of what it has still to do.
LEMMA RecordedSoFarStep ==
    ASSUME NEW w, Before(w)
    PROVE  RecordedSoFar'
<1>   /\ PhaseOK
      /\ MemoryOK
      /\ RecordedSoFar
      /\ w \in Workers
      /\ TypeOK
      /\ SingleExecutor
      /\ AbortingWaitsOnce
      /\ DOMAIN last_write = Txs
      /\ OthersVmKept(w)
      /\ \A v \in Workers \ {w} : tx'[v] = tx[v] /\ version'[v] = version[v]
  BY StepCases DEF Before, MemInv, MemoryOK
<1>1. PICK t \in Txs : t = tx[w]
  BY DEF Before, TypeOK
<1>2. ASSUME OnlyEntriesOf(t), \A b \in Txs : b # t => last_write'[b] = last_write[b],
             \A v \in Workers : tx[v] = t /\ vm[v].phase = "record" => v = w
      PROVE  \A v \in Workers \ {w} :
                 vm'[v].phase = "record" => SoFar(v, tx[v], version[v])'
  <2> SUFFICES ASSUME NEW v \in Workers, v # w, vm'[v].phase = "record"
               PROVE  SoFar(v, tx[v], version[v])'
    OBVIOUS
  <2>1. PICK b \in Txs : b = tx[v] /\ tx'[v] = b
    BY DEF TypeOK
  <2>2. PICK i : i = version[v] /\ version'[v] = i
    OBVIOUS
  <2>3. vm'[v] = vm[v] /\ SoFar(v, b, i) /\ b # t
    BY <1>2, <2>1, <2>2 DEF OthersVmKept, RecordedSoFar
  <2>4. SoFar(v, b, i)'
    BY <1>2, <2>3, SMTT(30) DEF SoFar, HasData, OnlyEntriesOf
  <2> QED
    BY <2>1, <2>2, <2>4
<1>3. CASE Calm(w)
  <2>1. /\ vm'[w].phase # "record" /\ vm[w].phase # "record" /\ UNCHANGED mvvars
    BY <1>3 DEF Calm
  <2>2. SUFFICES ASSUME NEW v \in Workers, v # w, vm'[v].phase = "record"
                 PROVE  SoFar(v, tx[v], version[v])'
    BY <2>1 DEF RecordedSoFar
  <2>3. vm'[v] = vm[v] /\ tx'[v] = tx[v] /\ version'[v] = version[v]
    BY <2>2 DEF OthersVmKept
  <2>4. SoFar(v, tx[v], version[v])
    BY <2>2, <2>3 DEF RecordedSoFar
  <2> QED
    BY <2>1, <2>3, <2>4, SMT DEF SoFar, HasData, HasEntry, EntriesOf, mvvars
<1>4. CASE BeginRecord(w)
  <2>1. PICK D : /\ UNCHANGED <<vars, data>> /\ pc[w] = "execute" /\ vm[w].phase = "read"
                 /\ Coinbase \in D
                 /\ last_write' = [last_write EXCEPT ![t] = D]
                 /\ vm'[w].phase = "record" /\ DOMAIN vm'[w].writes = D
                 /\ vm'[w].todo = last_write[t] \ D
    BY <1>1, <1>4, BeginRecordEffect, SMT
  <2>2. OnlyEntriesOf(t)
    BY <2>1 DEF OnlyEntriesOf, HasEntry, EntriesOf
  <2>3. \A v \in Workers : tx[v] = t /\ vm[v].phase = "record" => v = w
    BY <1>1, <2>1, RecorderAlone
  <2>4. \A b \in Txs : b # t => last_write'[b] = last_write[b]
    BY <2>1
  <2>5. last_write'[t] = D /\ tx'[w] = t
    BY <1>1, <2>1 DEF vars, locals
  <2>6. SoFar(w, tx[w], version[w])'
    BY <2>1, <2>5 DEF SoFar
  <2> QED
    BY <1>2, <2>2, <2>3, <2>4, <2>6 DEF RecordedSoFar
<1>5. CASE EndRecord(w)
  <2>1. /\ UNCHANGED mvvars /\ pc[w] = "execute" /\ vm'[w].phase = "idle"
    BY <1>5, EndRecordEffect
  <2>2. OnlyEntriesOf(t)
    BY <2>1 DEF OnlyEntriesOf, HasEntry, EntriesOf, mvvars
  <2>3. \A v \in Workers : tx[v] = t /\ vm[v].phase = "record" => v = w
    BY <1>1, <2>1, RecorderAlone
  <2> QED
    BY <1>2, <2>1, <2>2, <2>3 DEF RecordedSoFar, mvvars
<1>6. ASSUME NEW l \in Locations, RemoveStale(w, l) PROVE RecordedSoFar'
  <2>1. Removed(w, l, t)
    BY <1>1, <1>6, RemoveStaleEffect
  <2>2. \A v \in Workers : tx[v] = t /\ vm[v].phase = "record" => v = w
    BY <1>1, <2>1, RecorderAlone DEF Removed
  <2>3. PICK i : i = version[w] /\ version'[w] = i /\ tx'[w] = t /\ last_write' = last_write
    BY <1>1, <2>1 DEF Removed, vars, locals
  <2>4. SoFar(w, t, i) /\ l \notin last_write[t]
    BY <1>1, <2>1, <2>3, SMTT(30) DEF Removed, RecordedSoFar, SoFar
  <2>5. SoFar(w, t, i)'
    BY <2>1, <2>3, <2>4, SMT DEF Removed, SoFar, HasData
  <2> QED
    BY <1>2, <2>1, <2>2, <2>3, <2>5 DEF RecordedSoFar, Removed
<1>7. ASSUME NEW l \in Locations, InsertWrite(w, l) PROVE RecordedSoFar'
  <2>1. Inserted(w, l, t)
    BY <1>1, <1>7, InsertWriteEffect
  <2>2. \A v \in Workers : tx[v] = t /\ vm[v].phase = "record" => v = w
    BY <1>1, <2>1, RecorderAlone DEF Inserted
  <2>3. PICK i : i = version[w] /\ version'[w] = i /\ tx'[w] = t /\ last_write' = last_write
    BY <1>1, <2>1 DEF Inserted, vars, locals
  <2>4. SoFar(w, t, i)
    BY <1>1, <2>1, <2>3 DEF Inserted, RecordedSoFar
  <2>5. SoFar(w, t, i)'
    BY <2>1, <2>3, <2>4, SMT DEF Inserted, SoFar, HasData
  <2> QED
    BY <1>2, <2>1, <2>2, <2>3, <2>5 DEF RecordedSoFar, Inserted
<1>8. ASSUME NEW l \in Locations, ConvertLocation(w, l) PROVE RecordedSoFar'
  <2>1. Converted(w, l, t)
    BY <1>1, <1>8, ConvertEffect
  <2>2. \A v \in Workers : tx[v] = t => vm[v].phase # "record"
    BY <1>1, <2>1, ConverterAlone DEF Converted
  <2> QED
    BY <1>2, <2>1, <2>2 DEF RecordedSoFar, Converted
<1> QED
  BY <1>3, <1>4, <1>5, <1>6, <1>7, <1>8, StepCases

\* A conversion stays within the last write set, which nobody changes meanwhile.
LEMMA ConvertsItsOwnStep ==
    ASSUME NEW w, Before(w)
    PROVE  ConvertsItsOwn'
<1>   /\ PhaseOK
      /\ MemoryOK
      /\ ConvertsItsOwn
      /\ w \in Workers
      /\ TypeOK
      /\ SingleExecutor
      /\ AbortingWaitsOnce
      /\ DOMAIN last_write = Txs
      /\ OthersVmKept(w) /\ \A v \in Workers \ {w} : tx'[v] = tx[v]
  BY StepCases DEF Before, MemInv, MemoryOK
<1>1. PICK t \in Txs : t = tx[w]
  BY DEF Before, TypeOK
<1>2. ASSUME last_write' = last_write,
             vm'[w].phase = "convert" => vm'[w].todo \subseteq last_write[tx'[w]]
      PROVE  ConvertsItsOwn'
  BY <1>2 DEF ConvertsItsOwn, OthersVmKept
<1>3. CASE Calm(w)
  BY <1>2, <1>3 DEF Calm, mvvars
<1>4. CASE BeginRecord(w)
  <2>1. PICK D : /\ pc[w] = "execute" /\ last_write' = [last_write EXCEPT ![t] = D]
                 /\ vm'[w].phase = "record"
    BY <1>1, <1>4, BeginRecordEffect, SMT
  <2>2. \A v \in Workers : vm[v].phase = "convert" => tx[v] # t /\ tx[v] \in Txs
    BY <1>1, <2>1, RecorderAlone DEF TypeOK
  <2>3. \A v \in Workers : vm[v].phase = "convert" => last_write'[tx[v]] = last_write[tx[v]]
    BY <2>1, <2>2
  <2> QED
    BY <2>1, <2>3 DEF ConvertsItsOwn, OthersVmKept
<1>5. CASE EndRecord(w)
  <2>1. UNCHANGED mvvars /\ vm'[w].phase = "idle"
    BY <1>5, EndRecordEffect
  <2> QED
    BY <1>2, <2>1 DEF mvvars
<1>6. ASSUME NEW l \in Locations, RemoveStale(w, l) \/ InsertWrite(w, l) PROVE ConvertsItsOwn'
  <2>1. Removed(w, l, t) \/ Inserted(w, l, t)
    BY <1>1, <1>6, RemoveStaleEffect, InsertWriteEffect
  <2> QED
    BY <1>2, <2>1 DEF Removed, Inserted
<1>7. ASSUME NEW l \in Locations, ConvertLocation(w, l) PROVE ConvertsItsOwn'
  <2>1. Converted(w, l, t)
    BY <1>1, <1>7, ConvertEffect
  <2>2. tx' = tx /\ last_write' = last_write
    BY <2>1 DEF Converted, vars, locals
  <2>3. vm'[w].todo \subseteq last_write[tx'[w]]
    BY <2>1, <2>2 DEF Converted, ConvertsItsOwn
  <2> QED
    BY <1>2, <2>2, <2>3
<1> QED
  BY <1>3, <1>4, <1>5, <1>6, <1>7, StepCases

\* What record left is there until the transaction is aborted: neither a worker that
\* records nor one that converts works on a transaction that finishes or is completed.
LEMMA RecordedAtEndStep ==
    ASSUME NEW w, Before(w)
    PROVE  RecordedAtEnd'
<1>   /\ PhaseOK
      /\ MemoryOK
      /\ MemInv
      /\ RecordedAtEnd
      /\ w \in Workers
      /\ TypeOK
      /\ RegisterOK
      /\ SingleExecutor
      /\ AbortingWaitsOnce
      /\ DOMAIN last_write = Txs
      /\ WorkerStep(w)
  BY DEF Before, MemInv, MemoryOK
<1>1. PICK t \in Txs : t = tx[w]
  BY DEF Before, TypeOK
<1>2. ASSUME UNCHANGED mvvars, Finishes PROVE RecordedAtEnd'
  <2>1. \A b, i : Recorded(b, i) => Recorded(b, i)'
    BY <1>2, SMT DEF Recorded, HasData, HasEntry, EntriesOf, mvvars
  <2>2. \A v \in Workers : pc'[v] \in Finishing => Recorded(tx[v], version[v])'
    BY <1>2, <2>1 DEF RecordedAtEnd, Finishes
  <2>3. \A b \in Txs : Completed(b)' => Recorded(b, incarnation[b])'
    BY <1>2, <2>1, SMTT(30) DEF RecordedAtEnd, Finishes
  <2> QED
    BY <2>2, <2>3 DEF RecordedAtEnd
<1>3. ASSUME OnlyEntriesOf(t), UNCHANGED vars, ~Completed(t),
             \A b \in Txs : b # t => last_write'[b] = last_write[b],
             \A v \in Workers : tx[v] = t => pc[v] \notin Finishing
      PROVE  RecordedAtEnd'
  <2>1. \A b \in Txs : \A i : b # t /\ Recorded(b, i) => Recorded(b, i)'
    BY <1>3, SMT DEF Recorded, HasData, OnlyEntriesOf
  <2>2. UNCHANGED <<pc, tx, version, status, incarnation>> /\ tx \in [Workers -> Txs]
    BY <1>3 DEF vars, txvars, locals, TypeOK
  <2>3. \A v \in Workers : pc'[v] \in Finishing => Recorded(tx[v], version[v])'
    BY <1>3, <2>1, <2>2 DEF RecordedAtEnd
  <2>4. \A b \in Txs : Completed(b)' => Recorded(b, incarnation[b])'
    BY <1>3, <2>1, <2>2 DEF RecordedAtEnd, Completed
  <2> QED
    BY <2>3, <2>4 DEF RecordedAtEnd
<1>4. ASSUME Calm(w), pc[w] = "execute" => pc'[w] \notin Finishing PROVE RecordedAtEnd'
  <2>1. UNCHANGED mvvars
    BY <1>4 DEF Calm
  <2>2. CASE SchedulerStep(w) \/ VmStep(w)
    BY <1>2, <1>4, <2>1, <2>2, FinishesStep
  <2>3. CASE UNCHANGED vars
    BY <1>2, <2>1, <2>3 DEF Finishes, Completed, vars, txvars, locals
  <2> QED
    BY <2>2, <2>3, StepImplements
<1>5. CASE BeginRecord(w)
  <2>1. PICK D : /\ UNCHANGED <<vars, data>> /\ pc[w] = "execute"
                 /\ last_write' = [last_write EXCEPT ![t] = D]
    BY <1>1, <1>5, BeginRecordEffect, SMT
  <2>2. OnlyEntriesOf(t) /\ \A b \in Txs : b # t => last_write'[b] = last_write[b]
    BY <2>1 DEF OnlyEntriesOf, HasEntry, EntriesOf
  <2>3. ~Completed(t) /\ \A v \in Workers : tx[v] = t => pc[v] \notin Finishing
    BY <1>1, <2>1, RecorderAlone
  <2> QED
    BY <1>3, <2>1, <2>2, <2>3
<1>6. CASE EndRecord(w)
  <2>1. /\ UNCHANGED mvvars /\ pc[w] = "execute" /\ vm[w].phase = "record"
        /\ vm[w].todo = {} /\ DOMAIN vm[w].writes = {}
        /\ UNCHANGED <<status, incarnation, tx, version>>
    BY <1>6, EndRecordEffect
  <2>2. PICK i : i = version[w]
    OBVIOUS
  <2>3. Recorded(t, i)
    <3>1. \A v \in Workers : tx[v] = t /\ vm[v].phase = "record" => v = w
      BY <1>1, <2>1, RecorderAlone
    <3>2. SoFar(w, t, i)
      BY <1>1, <2>1, <2>2 DEF MemInv, RecordedSoFar
    <3>3. \A l \in Locations : HasEntry(l, t) => l \in last_write[t]
      BY <2>1, <3>1, <3>2 DEF MemInv, EntriesKnown, Recording, SoFar
    <3>4. \A l \in Locations : l \in last_write[t] => HasData(l, t, i)
      BY <2>1, <3>2 DEF SoFar
    <3> QED
      BY <3>3, <3>4 DEF Recorded, HasData
  <2>4. \A b, j : Recorded(b, j) => Recorded(b, j)'
    BY <2>1, SMT DEF Recorded, HasData, HasEntry, EntriesOf, mvvars
  <2>5. \A v \in Workers \ {w} : pc'[v] = pc[v]
    BY StepCases
  <2>6. \A v \in Workers : pc'[v] \in Finishing => Recorded(tx[v], version[v])'
    BY <1>1, <2>1, <2>2, <2>3, <2>4, <2>5 DEF RecordedAtEnd
  <2>7. \A b \in Txs : Completed(b)' => Recorded(b, incarnation[b])'
    BY <2>1, <2>4 DEF RecordedAtEnd, Completed
  <2> QED
    BY <2>6, <2>7 DEF RecordedAtEnd
<1>7. ASSUME NEW l \in Locations, RemoveStale(w, l) \/ InsertWrite(w, l) PROVE RecordedAtEnd'
  <2>1. Removed(w, l, t) \/ Inserted(w, l, t)
    BY <1>1, <1>7, RemoveStaleEffect, InsertWriteEffect
  <2>2. /\ OnlyEntriesOf(t) /\ UNCHANGED vars /\ last_write' = last_write
        /\ pc[w] = "execute"
    BY <2>1 DEF Removed, Inserted
  <2>3. ~Completed(t) /\ \A v \in Workers : tx[v] = t => pc[v] \notin Finishing
    BY <1>1, <2>2, RecorderAlone
  <2> QED
    BY <1>3, <2>2, <2>3
<1>8. ASSUME NEW l \in Locations, ConvertLocation(w, l) PROVE RecordedAtEnd'
  <2>1. Converted(w, l, t)
    BY <1>1, <1>8, ConvertEffect
  <2>2. OnlyEntriesOf(t) /\ UNCHANGED vars /\ last_write' = last_write /\ pc[w] = "ready"
    BY <2>1 DEF Converted
  <2>3. ~Completed(t) /\ \A v \in Workers : tx[v] = t => pc[v] \notin Finishing
    BY <1>1, <2>2, ConverterAlone
  <2> QED
    BY <1>3, <2>2, <2>3
<1> QED
  BY <1>4, <1>5, <1>6, <1>7, <1>8, StepCases

-----------------------------------------------------------------------------
\* The inductive invariant of the workers with their memory.
PevmIInv == IInv /\ MemInv

\* It holds at the start: MvMemory::new knows the beneficiary alone.
LEMMA PevmInitIInv == PevmInit => PevmIInv
<1> SUFFICES ASSUME PevmInit PROVE PevmIInv
  OBVIOUS
<1>1. Init /\ IInv
  BY InitIInv DEF PevmInit
<1>2. vm = [w \in Workers |-> Idle] /\ DOMAIN Idle = VmFields /\ Idle.phase = "idle"
  BY DEF PevmInit, Idle, VmFields
<1>3. PhaseOK /\ RecordedSoFar /\ ConvertsItsOwn
  BY <1>2 DEF PhaseOK, RecordedSoFar, ConvertsItsOwn
<1>4. /\ data = [l \in {Coinbase} |-> [t \in Txs |-> Estimate]]
      /\ last_write = [t \in Txs |-> {}]
  BY DEF PevmInit, MvInit
<1>5. MemoryOK /\ EntriesKnown
  BY <1>4 DEF MemoryOK, EntriesKnown, HasEntry, EntriesOf, NoEntries
<1>6. RecordedAtEnd
  BY <1>1 DEF Init, RecordedAtEnd, Completed, Finishing
<1> QED
  BY <1>1, <1>3, <1>5, <1>6 DEF PevmIInv, MemInv

\* A step of the workers with their memory is a step of the scheduler on its own.
LEMMA PevmStepIsNext == PevmIInv /\ [PevmNext]_pevmvars => [Next]_vars
<1> SUFFICES ASSUME PevmIInv, [PevmNext]_pevmvars PROVE [Next]_vars
  OBVIOUS
<1>   TypeOK /\ MemoryOK
  BY DEF PevmIInv, IInv, MemInv
<1>1. ASSUME NEW w \in Workers, WorkerStep(w) PROVE [Next]_vars
  BY <1>1, StepImplements DEF Next
<1>2. CASE Joined
  BY <1>2 DEF Joined
<1>3. CASE UNCHANGED pevmvars
  BY <1>3 DEF pevmvars
<1> QED
  BY <1>1, <1>2, <1>3 DEF PevmNext

\* Every step of every worker keeps the invariant.
LEMMA PevmNextIInv == PevmIInv /\ [PevmNext]_pevmvars => PevmIInv'
<1> SUFFICES ASSUME PevmIInv, [PevmNext]_pevmvars PROVE PevmIInv'
  OBVIOUS
<1>1. IInv'
  BY PevmStepIsNext, NextIInv DEF PevmIInv
<1>2. ASSUME NEW w \in Workers, WorkerStep(w) PROVE MemInv'
  <2>1. Before(w)
    BY <1>2 DEF Before, PevmIInv, IInv
  <2>2. PhaseOK' /\ MemoryOK' /\ EntriesKnown'
    BY <2>1, StepCases, MemoryOKStep, EntriesKnownStep
  <2>3. RecordedSoFar' /\ ConvertsItsOwn' /\ RecordedAtEnd'
    BY <2>1, RecordedSoFarStep, ConvertsItsOwnStep, RecordedAtEndStep
  <2> QED
    BY <2>2, <2>3 DEF MemInv
<1>3. ASSUME UNCHANGED <<vars, mvvars, vm>> PROVE MemInv'
  <2>0. /\ MemInv /\ UNCHANGED <<data, last_write, vm, pc, tx, version, status, incarnation>>
    BY <1>3 DEF PevmIInv, vars, txvars, locals, mvvars
  <2>1. PhaseOK' /\ MemoryOK'
    BY <2>0 DEF MemInv, PhaseOK, MemoryOK
  <2>2. EntriesKnown' /\ ConvertsItsOwn'
    BY <2>0 DEF MemInv, EntriesKnown, HasEntry, EntriesOf, Recording, ConvertsItsOwn
  <2>3. RecordedSoFar'
    BY <2>0, SMT DEF MemInv, RecordedSoFar, SoFar, HasData, HasEntry, EntriesOf
  <2>4. RecordedAtEnd'
    BY <2>0, SMT DEF MemInv, RecordedAtEnd, Recorded, HasData, HasEntry, EntriesOf, Completed
  <2> QED
    BY <2>1, <2>2, <2>3, <2>4 DEF MemInv
<1>4. (\E w \in Workers : WorkerStep(w)) \/ UNCHANGED <<vars, mvvars, vm>>
  BY DEF PevmNext, Joined, pevmvars
<1> QED
  BY <1>1, <1>2, <1>3, <1>4 DEF PevmIInv

\* The invariant holds of every behaviour.
THEOREM PevmInvariance == PevmSpec => []PevmIInv
BY PevmInitIInv, PevmNextIInv, PTL DEF PevmSpec

\* The workers of execute_revm_parallel with the multi-version memory implement the
\* scheduler on its own: Vm::execute and validate_read_locations answer it in no way
\* that the scheduler does not allow for.
THEOREM PevmImplementsScheduler == PevmSpec => Spec
<1>1. PevmInit => Init
  BY DEF PevmInit
<1> QED
  BY <1>1, PevmInvariance, PevmStepIsNext, PTL DEF PevmSpec, Spec

\* A completed transaction has exactly the entries of its last write set, all of them
\* data of its current incarnation: no ESTIMATE that convert_writes_to_estimates left
\* blocks a reader that add_dependency refuses to let wait.
THEOREM NoStaleEstimate == PevmSpec => []CompletedWritesAreData
<1>1. PevmIInv => CompletedWritesAreData
  BY DEF PevmIInv, MemInv, RecordedAtEnd, Recorded, CompletedWritesAreData, HasEntry, HasData
<1> QED
  BY <1>1, PevmInvariance, PTL

\* With the memory, too, no transaction is left without a worker or an index that
\* will come to it, ...
THEOREM PevmForgetsNothing == PevmSpec => []NoTaskLost
BY PevmImplementsScheduler, NothingForgotten, PTL

\* ... every transaction is validated, its last result stored, when the scope of
\* execute_revm_parallel has joined the workers, ...
THEOREM PevmJoinedCorrect == PevmSpec => []JoinedMeansValidated
BY PevmImplementsScheduler, JoinedCorrect, PTL

\* ... and the status follows the diagram of lib.rs.
THEOREM PevmFollowsDiagram == PevmSpec => LifeCycle
BY PevmImplementsScheduler, StatusFollowsDiagram, PTL
=============================================================================
