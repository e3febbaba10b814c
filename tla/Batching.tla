------------------------------ MODULE Batching ------------------------------
(***************************************************************************)
(* PevmScheduler's batches, and the drivers that execute them one after    *)
(* the other.  A batch has TxnsPerBatch slots; transactions that share an  *)
(* account go at least Concurrency slots apart, so that the Concurrency    *)
(* threads of the executor rarely meet on one account.                     *)
(*                                                                         *)
(* The fair scheduler fills a batch with several threads.  Each takes one  *)
(* transaction at a time from the queue of one caller, so that the         *)
(* transactions of a caller keep their order.                              *)
(***************************************************************************)
EXTENDS Accounts

CONSTANTS
    Threads,         \* 8 in the code
    Concurrency,     \* available_parallelism
    BatchRounds,     \* 4 in the code: slots per executor thread
    Drivers,         \* the drivers a behaviour may be about
    DrainSize,       \* 32 in the code: the batch of the driver without scheduling
    Contentions,     \* bound: the contended batches considered
    DivergeAt,       \* 5 in the code: from this batch on a replay executes again
    FastFrom,        \* 7 in the code: from this batch on it may return to the deltas
    Funds,           \* what each person owns of its token at first
    NoTx

ASSUME ContentionsAssumption == Contentions \subseteq ContendedChoices

TxnsPerBatch == Concurrency * BatchRounds
Positions == 0 .. TxnsPerBatch - 1

VARIABLES
    driver,          \* which driver this is
    phase,           \* where its loop is
    pool,            \* transactions_with_hint
    batch,           \* the batch being executed
    storage,         \* restored_storage, or the storage of a PevmExecutor
    executed,        \* history: the transactions executed so far, in order
    record,          \* the batches executed, with their delta state and the state after them
    replay,          \* restored_storage_clone
    replayed,        \* how many batches are replayed
    fastPath,
    pc,              \* where each scheduling thread is
    at,              \* the caller, transaction and position a thread works with
    stale,           \* whether another thread has stolen since this one began to
    queues,          \* caller_queues
    injector,
    processing,      \* caller_processing
    locked,          \* account_being_accessed
    lastPosition,    \* account_last_position, -1 for no entry
    scheduled,       \* the slots of the batch
    indices,         \* scheduled_indices
    refused,         \* history: the callers whose transaction found no slot
    availableSlots

replayVars == <<replay, replayed, fastPath>>
driverVars == <<driver, phase, pool, batch, storage, executed, record, replayVars>>
threadVars == <<pc, at, stale, queues, injector, processing, locked,
                lastPosition, scheduled, indices, refused, availableSlots>>
batchingVars == <<driverVars, threadVars>>

\* The accounts a transaction accesses: its caller and the contract it calls.
Accessed(tx) == {tx.caller, tx.to}

InitialStorage ==
    [a \in People \cup Tokens |->
        Account(0, IF a \in People THEN NoSlots
                   ELSE LET c == CHOOSE d \in DOMAIN Clusters : Clusters[d].token = a
                            members == UNION {Range(Clusters[c].families[f]) :
                                                f \in DOMAIN Clusters[c].families}
                        IN [m \in members |-> Funds])]

Free(slots) == {i \in Positions : slots[i] = NoTx}
EmptySlots == [i \in Positions |-> NoTx]

\* Vec::retain and Vec::remove of the indices, the largest first.
Retained(slots) == SelectSeq([i \in 1 .. TxnsPerBatch |-> slots[i - 1]], LAMBDA tx : tx # NoTx)
RemoveIndices(txs, removed) ==
    LET order == SetToSortSeq(removed, >)
    IN FoldLeft(LAMBDA s, i : IF i <= Len(s) THEN RemoveAt(s, i) ELSE s, txs, order)

-----------------------------------------------------------------------------
(* schedule_a_parallelizable_batch: the same by one thread, over the whole   *)
(* pool.  Here the slots an account may take next are Concurrency apart.     *)

\* The position account a leaves for the next transaction that accesses it, -1 for none.
NextPosition(acc, a) ==
    LET steps == {acc.last[a] + k * Concurrency : k \in 1 .. BatchRounds}
        free == steps \cap Free(acc.slots)
    IN IF free = {} THEN -1 ELSE Min(free)

PlaceOne(acc, i, tx) ==
    LET seen == {a \in Accessed(tx) : acc.last[a] >= 0}
        found == {NextPosition(acc, a) : a \in seen} \ {-1}
        position == IF seen = {} THEN Min(Free(acc.slots)) ELSE Max(found)
    IN IF Free(acc.slots) = {} \/ (seen # {} /\ found = {}) THEN acc
       ELSE [slots |-> [acc.slots EXCEPT ![position] = tx],
             last |-> [a \in DOMAIN acc.last |->
                        IF a \in Accessed(tx) THEN position ELSE acc.last[a]],
             removed |-> acc.removed \cup {i}]

ScheduleBatch(txs) ==
    LET start == [slots |-> EmptySlots, last |-> [a \in People \cup Tokens |-> -1], removed |-> {}]
    IN FoldLeft(LAMBDA acc, i : Applied(LAMBDA a : PlaceOne(a, i, txs[i]), acc),
                start, [i \in DOMAIN txs |-> i])

-----------------------------------------------------------------------------
(* schedule_a_parallelizable_batch_fair_sequential: the threads.             *)

NoWork == [caller |-> NoTx, index |-> 0, position |-> -1]

\* The queues of the callers, and the callers in the order of the map.
QueuesOf(txs) ==
    [m \in People |-> SelectSeq([i \in DOMAIN txs |-> i], LAMBDA i : txs[i].caller = m)]
CallersOf(txs) == {txs[i].caller : i \in DOMAIN txs}

IdleThreads ==
    /\ pc = [t \in Threads |-> "done"]
    /\ at = [t \in Threads |-> NoWork]
    /\ stale = [t \in Threads |-> FALSE]
    /\ queues = [m \in People |-> <<>>]
    /\ injector = <<>>
    /\ processing = {} /\ locked = {}
    /\ lastPosition = [a \in People \cup Tokens |-> -1]
    /\ scheduled = EmptySlots
    /\ indices = {} /\ refused = {}
    /\ availableSlots = TxnsPerBatch

SpawnThreads(order) ==
    /\ pc' = [t \in Threads |-> "steal"]
    /\ queues' = QueuesOf(pool)
    /\ injector' = order
    /\ UNCHANGED <<at, stale, processing, locked, lastPosition, scheduled, indices, refused, availableSlots>>

Go(t, label) == pc' = [pc EXCEPT ![t] = label]
TxAt(t) == pool[at[t].index]

\* injector.steal() reads the head; no caller ends the thread.
Steal(t) ==
    /\ pc[t] = "steal"
    /\ Go(t, IF injector = <<>> THEN "done" ELSE "stealing")
    /\ stale' = [stale EXCEPT ![t] = FALSE]
    /\ UNCHANGED <<driverVars, at, queues, injector, processing, locked, lastPosition,
                   scheduled, indices, refused, availableSlots>>

\* The steal ends: the caller, or Retry when another thread was first, which counts as none.
StealEnds(t) ==
    /\ pc[t] = "stealing"
    /\ IF stale[t]
       THEN /\ Go(t, "done")
            /\ UNCHANGED <<at, stale, injector>>
       ELSE /\ Go(t, "mark")
            /\ at' = [at EXCEPT ![t].caller = Head(injector)]
            /\ injector' = Tail(injector)
            /\ stale' = [u \in Threads |-> u # t /\ pc[u] = "stealing"]
    /\ UNCHANGED <<driverVars, queues, processing, locked, lastPosition,
                   scheduled, indices, refused, availableSlots>>

\* caller_processing.insert; a caller another thread works on is put back.
Mark(t) ==
    /\ pc[t] = "mark"
    /\ LET caller == at[t].caller
       IN IF caller \in processing
          THEN Go(t, "steal") /\ injector' = Append(injector, caller) /\ UNCHANGED processing
          ELSE Go(t, "pop") /\ processing' = processing \cup {caller} /\ UNCHANGED injector
    /\ UNCHANGED <<driverVars, at, stale, queues, locked, lastPosition,
                   scheduled, indices, refused, availableSlots>>

\* One transaction of the caller; without a free slot it is dropped from the queue.
Pop(t) ==
    /\ pc[t] = "pop"
    /\ LET caller == at[t].caller
       IN /\ at' = [at EXCEPT ![t].index = Head(queues[caller])]
          /\ queues' = [queues EXCEPT ![caller] = Tail(@)]
    /\ Go(t, IF availableSlots > 0 THEN "lock" ELSE "unmark")
    /\ UNCHANGED <<driverVars, stale, injector, processing, locked, lastPosition,
                   scheduled, indices, refused, availableSlots>>

\* The accounts are taken together, or not at all.
LockAccounts(t) ==
    /\ pc[t] = "lock"
    /\ Accessed(TxAt(t)) \cap locked = {}
    /\ locked' = locked \cup Accessed(TxAt(t))
    /\ Go(t, "find")
    /\ UNCHANGED <<driverVars, at, stale, queues, injector, processing, lastPosition,
                   scheduled, indices, refused, availableSlots>>

\* Mutant: an account that was never accessed does not count, nor does the contract.
FirstPositionForCaller(tx) ==
    LET seen == {a \in {tx.caller} : lastPosition[a] >= 0}
        after == {i \in Free(scheduled) : \A a \in seen : i >= lastPosition[a] + Concurrency}
    IN IF after = {} THEN -1 ELSE Min(after)

\* The first free slot far enough behind every account's last, -1 for none.
FirstPosition(tx) ==
    LET seen == {a \in Accessed(tx) : lastPosition[a] >= 0}
        after == {i \in Free(scheduled) : \A a \in seen : i >= lastPosition[a] + Concurrency}
    IN IF after = {} THEN -1 ELSE Min(after)

FindPosition(t) ==
    /\ pc[t] = "find"
    /\ at' = [at EXCEPT ![t].position = FirstPosition(TxAt(t))]
    /\ Go(t, "place")
    /\ UNCHANGED <<driverVars, stale, queues, injector, processing, locked, lastPosition,
                   scheduled, indices, refused, availableSlots>>

\* Under the lock of the slots: a transaction of new accounts looks for its slot now, any
\* other checks that its slot is still free.
SlotNow(t) ==
    LET tx == TxAt(t)
        never == \A a \in Accessed(tx) : lastPosition[a] < 0
    IN IF never THEN FirstPosition(tx) ELSE at[t].position

MayPlace(t) == SlotNow(t) >= 0 /\ scheduled[SlotNow(t)] = NoTx /\ availableSlots > 0

Place(t) ==
    /\ pc[t] = "place"
    /\ LET tx == TxAt(t)
           position == SlotNow(t)
       IN IF MayPlace(t)
          THEN /\ availableSlots' = availableSlots - 1
               /\ indices' = indices \cup {at[t].index}
               /\ scheduled' = [scheduled EXCEPT ![position] = tx]
               /\ lastPosition' = [a \in DOMAIN lastPosition |->
                                    IF a \in Accessed(tx) THEN position ELSE lastPosition[a]]
               /\ Go(t, "placed")
               /\ UNCHANGED refused
          ELSE /\ Go(t, "refused")
               /\ refused' = refused \cup {at[t].caller}
               /\ UNCHANGED <<availableSlots, indices, scheduled, lastPosition>>
    /\ UNCHANGED <<driverVars, at, stale, queues, injector, processing, locked>>

\* The accounts are released; a transaction without a slot goes back to the front of its
\* queue, and a caller with more transactions goes back to the injector.
PutBack(q, index) == <<index>> \o q

\* Mutant: a refused transaction keeps its accounts.
ReleasePlaced(t) ==
    /\ pc[t] \in {"placed", "refused"}
    /\ locked' = IF pc[t] = "placed" THEN locked \ Accessed(TxAt(t)) ELSE locked
    /\ Go(t, IF pc[t] = "placed" THEN "requeue" ELSE "unmark")
    /\ queues' = IF pc[t] = "placed" THEN queues
                 ELSE [queues EXCEPT ![at[t].caller] = PutBack(@, at[t].index)]
    /\ UNCHANGED <<driverVars, at, stale, injector, processing, lastPosition,
                   scheduled, indices, refused, availableSlots>>
Release(t) ==
    /\ pc[t] \in {"placed", "refused"}
    /\ locked' = locked \ Accessed(TxAt(t))
    /\ Go(t, IF pc[t] = "placed" THEN "requeue" ELSE "unmark")
    /\ queues' = IF pc[t] = "placed" THEN queues
                 ELSE [queues EXCEPT ![at[t].caller] = PutBack(@, at[t].index)]
    /\ UNCHANGED <<driverVars, at, stale, injector, processing, lastPosition,
                   scheduled, indices, refused, availableSlots>>

HasMore(caller) == queues[caller] # <<>> /\ availableSlots > 0

Requeue(t) ==
    /\ pc[t] = "requeue"
    /\ injector' = IF HasMore(at[t].caller) THEN Append(injector, at[t].caller) ELSE injector
    /\ Go(t, "unmark")
    /\ UNCHANGED <<driverVars, at, stale, queues, processing, locked, lastPosition,
                   scheduled, indices, refused, availableSlots>>

Unmark(t) ==
    /\ pc[t] = "unmark"
    /\ processing' = processing \ {at[t].caller}
    /\ at' = [at EXCEPT ![t] = NoWork]
    /\ Go(t, "steal")
    /\ UNCHANGED <<driverVars, stale, queues, injector, locked, lastPosition,
                   scheduled, indices, refused, availableSlots>>

Thread(t) ==
    \/ Steal(t) \/ StealEnds(t) \/ Mark(t) \/ Pop(t) \/ LockAccounts(t)
    \/ FindPosition(t) \/ Place(t) \/ Release(t) \/ Requeue(t) \/ Unmark(t)

-----------------------------------------------------------------------------
(* The drivers: the generated transactions, batch by batch, until none is   *)
(* left.  test_parallel_scheduling ("fair"), test_scheduling ("sequential"), *)
(* test_no_scheduling ("unscheduled"), during_consensus_execution            *)
(* ("consensus"), and the blocks a PevmExecutor is given ("executor").       *)

\* What the generator gives a driver: a contended batch, then a parallelizable one.
Generated(contended, r) ==
    Transfers(InitialNonces, contended, r)
        \o Transfers(NextNonces(InitialNonces, contended), ParallelizablePlaces, r)

BatchingInit ==
    /\ driver \in Drivers
    /\ phase = "batch"
    /\ \E contended \in Contentions : pool = Generated(contended, 0)
    /\ batch = <<>>
    /\ storage = InitialStorage
    /\ executed = <<>> /\ record = <<>>
    /\ replay = InitialStorage /\ replayed = 0 /\ fastPath = FALSE
    /\ IdleThreads

\* test_scheduling takes a batch of the scheduler without threads ...
TakeScheduled ==
    /\ phase = "batch" /\ pool # <<>> /\ driver = "sequential"
    /\ \E cut \in {ScheduleBatch(pool)} :
        /\ batch' = Retained(cut.slots)
        /\ pool' = RemoveIndices(pool, cut.removed)
    /\ phase' = "execute"
    /\ UNCHANGED <<driver, storage, executed, record, replayVars, threadVars>>

\* ... and the drivers without a scheduler the next transactions of the pool.
TakeDrained ==
    /\ phase = "batch" /\ pool # <<>> /\ driver \in {"unscheduled", "consensus", "executor"}
    /\ batch' = SubSeq(pool, 1, Min({DrainSize, Len(pool)}))
    /\ pool' = SubSeq(pool, Len(batch') + 1, Len(pool))
    /\ phase' = "execute"
    /\ UNCHANGED <<driver, storage, executed, record, replayVars, threadVars>>

Spawn ==
    /\ phase = "batch" /\ pool # <<>> /\ driver = "fair"
    /\ \E order \in SetToSeqs(CallersOf(pool)) : SpawnThreads(order)
    /\ phase' = "threads"
    /\ UNCHANGED <<driver, pool, batch, storage, executed, record, replayVars>>

\* The threads are joined: what they scheduled leaves the pool.
Join ==
    /\ phase = "threads"
    /\ \A t \in Threads : pc[t] = "done"
    /\ batch' = Retained(scheduled)
    /\ pool' = RemoveIndices(pool, indices)
    /\ phase' = "execute"
    /\ scheduled' = EmptySlots /\ indices' = {} /\ refused' = {} /\ availableSlots' = TxnsPerBatch
    /\ lastPosition' = [a \in People \cup Tokens |-> -1]
    /\ queues' = [m \in People |-> <<>>] /\ injector' = <<>>
    /\ stale' = [t \in Threads |-> FALSE]
    /\ UNCHANGED <<driver, storage, executed, record, replayVars, pc, at, processing, locked>>

\* during_consensus_execution, the first half: the delta state and the state root of a batch.
Recorded(results) ==
    [batch |-> batch, delta |-> GetDeltaState(results),
     root |-> UpdateStorageWithResults(storage, results)]

\* The batch is executed and its results go to the storage; an error panics.
ExecuteBatch ==
    /\ phase = "execute"
    /\ \E outcome \in {ExecuteSequential(storage, batch)} :
        /\ phase' = IF outcome.ok THEN "batch" ELSE "panicked"
        /\ storage' = IF ~outcome.ok THEN storage
                      ELSE IF driver = "executor" THEN UpdateStorage(storage, outcome.results)
                      ELSE UpdateStorageWithResults(storage, outcome.results)
        /\ executed' = IF outcome.ok THEN executed \o batch ELSE executed
        /\ record' = IF driver = "consensus" THEN Append(record, Recorded(outcome.results))
                     ELSE record
    /\ batch' = <<>>
    /\ UNCHANGED <<driver, pool, replayVars, threadVars>>

\* during_consensus_execution, the second half: the batches again in the real order, which
\* is the assumed one, from the initial state.  Delta states are applied up to the point of
\* divergence; then batches are executed again, until the state is the recorded one.
Replay ==
    /\ driver = "consensus" /\ phase = "batch" /\ pool = <<>> /\ replayed < Len(record)
    /\ \E again \in {replayed >= DivergeAt /\ ~fastPath} :
       \E outcome \in {IF again THEN ExecuteSequential(replay, record[replayed + 1].batch)
                       ELSE [ok |-> TRUE, results |-> <<>>]} :
        /\ replay' = IF again THEN UpdateStorageWithResults(replay, outcome.results)
                     ELSE UpdateAccounts(replay, record[replayed + 1].delta)
        /\ fastPath' = (fastPath \/ (again /\ replayed >= FastFrom
                                           /\ replay' = record[replayed + 1].root))
        /\ phase' = IF outcome.ok THEN "batch" ELSE "panicked"
    /\ replayed' = replayed + 1
    /\ UNCHANGED <<driver, pool, batch, storage, executed, record, threadVars>>

Finish ==
    /\ phase = "batch" /\ pool = <<>> /\ replayed = Len(record)
    /\ phase' = "done"
    /\ UNCHANGED <<driver, pool, batch, storage, executed, record, replayVars, threadVars>>

BatchingNext == TakeScheduled \/ TakeDrained \/ Spawn \/ Join \/ ExecuteBatch \/ Replay \/ Finish \/ \E t \in Threads : Thread(t)

\* The operating system schedules the scheduling threads and the driver's.
BatchingFairness ==
    /\ \A t \in Threads : WF_batchingVars(Thread(t))
    /\ WF_batchingVars(TakeScheduled \/ TakeDrained \/ Spawn \/ Join \/ ExecuteBatch \/ Replay \/ Finish)

-----------------------------------------------------------------------------
(* Properties.                                                               *)

\* Nothing is lost and nothing is executed twice: the pool, the batch and what is executed
\* are, at the head of the driver's loop, the transactions generated at first
\* (txns.remove(idx) for the scheduled indices, api.rs:789).
NothingLost ==
    phase \in {"batch", "execute", "done"} =>
        LET all == pool \o batch \o executed
        IN /\ \A i, j \in DOMAIN all : all[i] = all[j] => i = j
           /\ Len(all) = ContendedBatch + Len(ParallelizablePlaces)

\* Two transactions that access a common account are at least Concurrency slots apart in
\* every batch the threads build, whatever they found before another thread took the slot
\* (process_transaction_sequential's two looks at the slots).
SharersApart ==
    \A i, j \in Positions :
        i < j /\ scheduled[i] # NoTx /\ scheduled[j] # NoTx
              /\ Accessed(scheduled[i]) \cap Accessed(scheduled[j]) # {}
            => j - i >= Concurrency

\* available_slots is the number of free slots, and the slots hold exactly the transactions
\* of scheduled_indices.
SlotsCounted ==
    /\ availableSlots = Cardinality(Free(scheduled))
    /\ {scheduled[i] : i \in Positions \ Free(scheduled)} = {pool[k] : k \in indices}
    /\ Cardinality(indices) = TxnsPerBatch - availableSlots

\* When the threads are through, every caller with transactions left was refused a slot or
\* found the batch full, and the batch is not empty: no caller is lost when a thread meets it
\* in the hands of another one, or when a thread ends because its steal has to be retried
\* (the break of api.rs:745).
NoCallerForgotten ==
    phase = "threads" /\ (\A t \in Threads : pc[t] = "done") =>
        /\ indices # {}
        /\ \A k \in DOMAIN pool \ indices : availableSlots = 0 \/ pool[k].caller \in refused

\* The batches the threads make together are sound: nothing lost, nothing too close, no slot
\* counted wrongly and no caller passed over (schedule_a_parallelizable_batch_fair_sequential).
BatchesAreSound == NothingLost /\ SharersApart /\ SlotsCounted /\ NoCallerForgotten

\* A replay from delta states leaves every caller, batch by batch, the nonce of the first
\* execution, whatever it leaves of the tokens: the batches after the divergence can be
\* executed (the two halves of during_consensus_execution).
ReplayNonces ==
    replayed > 0 /\ phase # "panicked" =>
        \A m \in People : Basic(replay, m) = Basic(record[replayed].root, m)

\* The storage of the drivers that merge results is the state the executed transactions
\* leave when they are executed one by one from the initial state
\* (update_storage_with_results), and a replay from delta states keeps the nonces.
StorageFollows ==
    /\ ReplayNonces
    /\ driver # "executor" => storage = ExecuteSequential(InitialStorage, executed).cache

\* The same of a PevmExecutor: the accounts have become what the results of the blocks say.
ExecutorStorageFollows ==
    driver = "executor" => storage = ExecuteSequential(InitialStorage, executed).cache

\* Two neighbours of a batch whose access sets do not conflict may be exchanged: the
\* dependency graph built from execute_revm_sequential_with_access_sets may run them in
\* either order.
ConflictFreeCommute ==
    phase = "execute" =>
        LET sets == AccessSets(storage, batch)
            Conflict(i, j) ==
                \/ sets[i].write_set \cap (sets[j].read_set \cup sets[j].write_set) # {}
                \/ sets[i].read_set \cap sets[j].write_set # {}
            Exchanged(i) == [batch EXCEPT ![i] = batch[i + 1], ![i + 1] = batch[i]]
        IN \A i \in 1 .. Len(batch) - 1 :
            ~Conflict(i, i + 1) =>
                LET other == ExecuteSequential(storage, Exchanged(i))
                IN other.ok /\ other.cache = ExecuteSequential(storage, batch).cache

\* Every driver comes to its end: the threads join, every batch takes transactions, and none
\* ends in an error, since a caller's transactions are executed in the order of their nonces
\* and without a gap, over all the batches (results.unwrap() in api.rs's drivers).
DriversFinish == phase # "off" => <>(phase = "done")
=============================================================================
