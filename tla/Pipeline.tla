------------------------------ MODULE Pipeline ------------------------------
(***************************************************************************)
(* How a validator with the EVM executor feeds itself.                     *)
(* PevmTransactionGenerator hands transactions to PevmScheduler;           *)
(* TransactionGenerator fetches them, makes blocks of them for the block   *)
(* handler and signals the first generator how many it has used up; the    *)
(* handler proposes them; consensus commits them; the executor runs them.  *)
(*                                                                         *)
(* A transaction is its number in the order of generation, which is the    *)
(* order of the nonces of every caller; numbers are modulo Window, which   *)
(* is more than are ever on their way.                                     *)
(***************************************************************************)
EXTENDS Accounts

CONSTANTS
    InitialBatch,    \* 100 in the code
    MaxPending,      \* 1000: the generator fills up to this at least
    PendingBound,    \* bound: where the model stops counting new_transactions
    PerInterval,     \* transactions_per_block_interval
    MaxBlock,        \* transactions in a block of max_block_size
    ChannelCap,      \* 100: the channels between the generators
    BlockCap,        \* 1024: the channel to the block handler
    SoftMax,         \* SOFT_MAX_PROPOSED_PER_BLOCK
    DagBound,        \* bound: own blocks proposed and not yet committed
    Window

ASSUME PendingAssumption == InitialBatch <= MaxPending /\ MaxPending + InitialBatch <= PendingBound

VARIABLES
    genPc, genBatch,     \* the first generator: where it is, what it is about to send
    pending,             \* how many of new_transactions there are
    number,              \* of the transaction drained next
    txnChannel, signalChannel, blockChannel,
    scheduledTxns,
    clientPc, block, left,  \* TransactionGenerator: where it is, its block, the fetches left
    received,            \* statements the handler has for the next proposal
    dag,                 \* own blocks on their way through consensus
    expected             \* number of the transaction that fits the executor's storage next,
                         \* NoStorage after a panic

NoStorage == -1
genVars == <<genPc, genBatch, pending, number>>
clientVars == <<clientPc, block, left>>
nodeVars == <<received, dag, expected>>
pipelineVars == <<genVars, clientVars, nodeVars, txnChannel, signalChannel, blockChannel, scheduledTxns>>

PipelineInit ==
    /\ genPc = "initial" /\ genBatch = <<>> /\ pending = 0
    /\ number = 0
    /\ txnChannel = <<>> /\ signalChannel = <<>> /\ blockChannel = <<>>
    /\ scheduledTxns = <<>>
    /\ clientPc = "tick" /\ block = <<>> /\ left = 0
    /\ received = <<>> /\ dag = <<>>
    /\ expected = 0

\* No validator: nothing runs.
PipelineOff ==
    /\ genPc = "off" /\ genBatch = <<>> /\ pending = 0 /\ number = 0
    /\ txnChannel = <<>> /\ signalChannel = <<>> /\ blockChannel = <<>>
    /\ scheduledTxns = <<>>
    /\ clientPc = "off" /\ block = <<>> /\ left = 0
    /\ received = <<>> /\ dag = <<>>
    /\ expected = 0

-----------------------------------------------------------------------------
(* PevmTransactionGenerator::run.                                            *)

\* One call of generate_transactions, until there are enough of them.
Generate(need, next) ==
    /\ pending' = Min({pending + ContendedBatch, PendingBound})
    /\ genPc' = IF pending + ContendedBatch >= need THEN next ELSE genPc

\* Vec::drain(..n): the oldest n transactions.
Drain(n, next) ==
    /\ genBatch' = [k \in 1 .. n |-> (number + k - 1) % Window]
    /\ number' = (number + n) % Window
    /\ pending' = pending - n
    /\ genPc' = next

GenerateInitial ==
    /\ genPc = "initial"
    /\ Generate(MaxPending + InitialBatch, "drain")
    /\ UNCHANGED <<genBatch, number, clientVars, nodeVars, txnChannel, signalChannel,
                   blockChannel, scheduledTxns>>

DrainInitial ==
    /\ genPc = "drain"
    /\ Drain(InitialBatch, "first")
    /\ UNCHANGED <<clientVars, nodeVars, txnChannel, signalChannel, blockChannel, scheduledTxns>>

\* The signal of how many are needed; more than there are would panic.
RecvSignal ==
    /\ genPc = "wait" /\ signalChannel # <<>>
    /\ signalChannel' = Tail(signalChannel)
    /\ LET n == Head(signalChannel)
       IN Drain(Min({n, pending}), IF n <= pending THEN "send" ELSE "panicked")
    /\ UNCHANGED <<clientVars, nodeVars, txnChannel, blockChannel, scheduledTxns>>

SendBatch ==
    /\ genPc \in {"first", "send"} /\ Len(txnChannel) < ChannelCap
    /\ txnChannel' = Append(txnChannel, genBatch)
    /\ genBatch' = <<>>
    /\ genPc' = IF genPc = "first" THEN "wait" ELSE "refill"
    /\ UNCHANGED <<pending, number, clientVars, nodeVars, signalChannel, blockChannel, scheduledTxns>>

Refill ==
    /\ genPc = "refill"
    /\ Generate(MaxPending, "wait")
    /\ UNCHANGED <<genBatch, number, clientVars, nodeVars, txnChannel, signalChannel,
                   blockChannel, scheduledTxns>>

\* PevmScheduler::run and ::schedule.
Schedule ==
    /\ txnChannel # <<>>
    /\ scheduledTxns' = scheduledTxns \o Head(txnChannel)
    /\ txnChannel' = Tail(txnChannel)
    /\ UNCHANGED <<genVars, clientVars, nodeVars, signalChannel, blockChannel>>

-----------------------------------------------------------------------------
(* TransactionGenerator::run.                                                *)

Tick ==
    /\ clientPc = "tick"
    /\ clientPc' = "fetch" /\ block' = <<>> /\ left' = PerInterval
    /\ UNCHANGED <<genVars, nodeVars, txnChannel, signalChannel, blockChannel, scheduledTxns>>

\* PevmScheduler::fetch_batch(1), into the block; a full block goes out at once.
Fetch ==
    /\ clientPc = "fetch"
    /\ IF left = 0
       THEN clientPc' = "signalRest" /\ UNCHANGED <<block, left, scheduledTxns>>
       ELSE /\ left' = left - 1
            /\ block' = IF scheduledTxns = <<>> THEN block ELSE Append(block, Head(scheduledTxns))
            /\ scheduledTxns' = IF scheduledTxns = <<>> THEN <<>> ELSE Tail(scheduledTxns)
            /\ clientPc' = IF scheduledTxns # <<>> /\ Len(block) + 1 >= MaxBlock
                           THEN "signalFull" ELSE "fetch"
    /\ UNCHANGED <<genVars, nodeVars, txnChannel, signalChannel, blockChannel>>

\* Mutants: no signal for a full block; a signal for the whole interval.
SignalRestOnly ==
    /\ clientPc \in {"signalFull", "signalRest"} /\ Len(signalChannel) < ChannelCap
    /\ signalChannel' = IF clientPc = "signalFull" THEN signalChannel
                        ELSE Append(signalChannel, Len(block))
    /\ clientPc' = IF clientPc = "signalFull" THEN "sendFull" ELSE "sendRest"
    /\ UNCHANGED <<genVars, block, left, nodeVars, txnChannel, blockChannel, scheduledTxns>>
SignalInterval ==
    /\ clientPc \in {"signalFull", "signalRest"} /\ Len(signalChannel) < ChannelCap
    /\ signalChannel' = Append(signalChannel, IF clientPc = "signalFull" THEN Len(block)
                                              ELSE PerInterval)
    /\ clientPc' = IF clientPc = "signalFull" THEN "sendFull" ELSE "sendRest"
    /\ UNCHANGED <<genVars, block, left, nodeVars, txnChannel, blockChannel, scheduledTxns>>

\* insufficient_txn_signal_sender.send(block.len()).
Signal ==
    /\ clientPc \in {"signalFull", "signalRest"} /\ Len(signalChannel) < ChannelCap
    /\ signalChannel' = Append(signalChannel, Len(block))
    /\ clientPc' = IF clientPc = "signalFull" THEN "sendFull" ELSE "sendRest"
    /\ UNCHANGED <<genVars, block, left, nodeVars, txnChannel, blockChannel, scheduledTxns>>

\* The block to the handler, unless the rest of the interval is empty.
SendBlock ==
    /\ clientPc \in {"sendFull", "sendRest"}
    /\ block = <<>> \/ Len(blockChannel) < BlockCap
    /\ blockChannel' = IF block = <<>> THEN blockChannel ELSE Append(blockChannel, block)
    /\ block' = <<>>
    /\ clientPc' = IF clientPc = "sendFull" THEN "fetch" ELSE "tick"
    /\ UNCHANGED <<genVars, left, nodeVars, txnChannel, signalChannel, scheduledTxns>>

-----------------------------------------------------------------------------
(* The block handler, consensus and the executor.                            *)

TotalLen(blocks) == FoldLeft(LAMBDA n, b : n + Len(b), 0, blocks)

\* RealBlockHandler::handle_blocks: blocks are received until the soft limit is reached.
Receive ==
    /\ blockChannel # <<>> /\ Len(received) < SoftMax
    /\ LET n == Len(blockChannel)
           k == Min({j \in 1 .. n :
                        j = n \/ Len(received) + TotalLen(SubSeq(blockChannel, 1, j)) >= SoftMax})
       IN /\ received' = received \o FlattenSeq(SubSeq(blockChannel, 1, k))
          /\ blockChannel' = SubSeq(blockChannel, k + 1, n)
    /\ UNCHANGED <<genVars, clientVars, dag, expected, txnChannel, signalChannel, scheduledTxns>>

\* Core::try_new_block and RealBlockHandler::handle_proposal: what was received is proposed
\* and no longer pending.
Propose ==
    /\ received # <<>> /\ Len(dag) < DagBound
    /\ dag' = Append(dag, received)
    /\ received' = <<>>
    /\ UNCHANGED <<genVars, clientVars, expected, txnChannel, signalChannel, blockChannel,
                   scheduledTxns>>

\* Core::execute_block_in_pevm of the next committed block: a nonce that does not fit is an
\* error of the block, which the executor unwraps.
NoncesFit(txs) == \A k \in DOMAIN txs : txs[k] = (expected + k - 1) % Window
ExecuteCommitted ==
    /\ dag # <<>> /\ expected # NoStorage
    /\ expected' = IF NoncesFit(Head(dag)) THEN (expected + Len(Head(dag))) % Window ELSE NoStorage
    /\ dag' = Tail(dag)
    /\ UNCHANGED <<genVars, clientVars, received, txnChannel, signalChannel, blockChannel,
                   scheduledTxns>>

GeneratorTask == GenerateInitial \/ DrainInitial \/ RecvSignal \/ SendBatch \/ Refill
ClientTask == Tick \/ Fetch \/ Signal \/ SendBlock
Node == Receive \/ Propose \/ ExecuteCommitted

PipelineNext == GeneratorTask \/ Schedule \/ ClientTask \/ Node

\* The runtime polls every task, timers fire, and consensus keeps proposing and committing.
PipelineFairness ==
    /\ WF_pipelineVars(GeneratorTask) /\ WF_pipelineVars(Schedule) /\ WF_pipelineVars(ClientTask)
    /\ WF_pipelineVars(Receive) /\ WF_pipelineVars(Propose) /\ WF_pipelineVars(ExecuteCommitted)

-----------------------------------------------------------------------------
(* Properties.                                                               *)

\* Neither end of the pipeline panics: the generator is never asked for more transactions
\* than it has, and every transaction is executed once, in the order of its caller's nonces
\* (PevmTransactionGenerator::run and PevmExecutor::execute).
PipelineNeverPanics == genPc # "panicked" /\ expected # NoStorage

\* The initial batch circulates: once it is sent, what is scheduled, in the channels, in the
\* unsignalled block and in the generator's hands adds up to it, so no queue of the pipeline
\* grows and a signal never asks for more than the generator holds (the signals of
\* transactions_generator.rs:109 and 119 against the drain of api.rs:358).
Circulation ==
    /\ PipelineNeverPanics
    /\ genPc \notin {"off", "initial", "drain", "panicked"} =>
        LET inBlock == IF clientPc \in {"sendFull", "sendRest"} THEN 0 ELSE Len(block)
            asked == FoldLeft(+, 0, signalChannel)
        IN Len(scheduledTxns) + TotalLen(txnChannel) + asked + inBlock + Len(genBatch) = InitialBatch

\* The pipeline never runs dry or blocks on its own channels: blocks keep being executed.
KeepsFlowing == clientPc # "off" => []<><<ExecuteCommitted>>_pipelineVars
=============================================================================
