---------------------------- MODULE WorkloadFile ----------------------------
(***************************************************************************)
(* The workload of a file, through the queues of PevmAPI.  A reader task   *)
(* (TransactionGenerator::read_workload_from_file) moves the file to       *)
(* txns_queue in chunks, a scheduling task (TransactionGenerator::         *)
(* schedule) moves transactions from there to scheduled_txns, and          *)
(* ScheduleFetcher takes them out.  The tasks share the API behind one     *)
(* lock, taken anew for each step.                                         *)
(***************************************************************************)
EXTENDS Codec

CONSTANTS
    Files,      \* the files a behaviour may start with: sequences of Lines
    Chunk       \* 100: how many are read at a time, and the limit below which they are

VARIABLES
    file, unread,       \* the file and where its reader is
    readerPc, chunk,    \* read_workload_from_file: where it is, the transactions it will add
    txns_queue, scheduled_txns,
    inHand,             \* schedule: the transaction popped and not yet pushed
    fetched
fileVars == <<file, unread, readerPc, chunk, txns_queue, scheduled_txns, inHand, fetched>>

FileInit ==
    /\ file \in Files /\ unread = 1
    /\ readerPc = "count" /\ chunk = <<>>
    /\ txns_queue = <<>> /\ scheduled_txns = <<>> /\ inHand = <<>> /\ fetched = <<>>

\* No workload file: the reader returns at once with NoWorkloadFile, and nothing is queued.
FileOff ==
    /\ file = <<>> /\ unread = 1
    /\ readerPc = "done" /\ chunk = <<>>
    /\ txns_queue = <<>> /\ scheduled_txns = <<>> /\ inHand = <<>> /\ fetched = <<>>

-----------------------------------------------------------------------------
(* A line is of a number of words; the second of two is an address or not.  *)
(* Its tx is the transaction the line was written for.                       *)

\* serializer::write_to_file: the line of one transaction.
WriteLine(tx) ==
    [words |-> 2, raw |-> EncodeTx(tx), address |-> TRUE, caller |-> tx.caller, tx |-> tx]

WellFormed(line) == line.words = 2 /\ line.address
Transaction(line) == <<line.raw, line.caller>>

\* ChunkFileReader::read_next: lines until n of them are well formed, or the file ends.
ReadNext(lines, n) ==
    LET Full(k) == Len(SelectSeq(SubSeq(lines, 1, k), WellFormed)) >= n
        taken == Min({Len(lines)} \cup {k \in 1 .. Len(lines) : Full(k)})
        good == SelectSeq(SubSeq(lines, 1, taken), WellFormed)
    IN [taken |-> taken, out |-> [i \in DOMAIN good |-> Transaction(good[i])]]

-----------------------------------------------------------------------------
(* read_workload_from_file.                                                  *)

\* PevmAPI::num_pending_txns: the one in the scheduling task's hand is in neither queue.
NumPending == Len(txns_queue) + Len(scheduled_txns)

\* Mutant: a reader that finds enough pending is finished.
CountOrStop ==
    /\ readerPc = "count"
    /\ readerPc' = IF NumPending < Chunk THEN "read" ELSE "done"
    /\ UNCHANGED <<file, unread, chunk, txns_queue, scheduled_txns, inHand, fetched>>

\* The reader looks again every 10 ms while there is enough.
MayRead == NumPending < Chunk
Count ==
    /\ readerPc = "count" /\ MayRead
    /\ readerPc' = "read"
    /\ UNCHANGED <<file, unread, chunk, txns_queue, scheduled_txns, inHand, fetched>>

\* An empty chunk is the end of the file.
ReadChunk ==
    /\ readerPc = "read"
    /\ LET next == ReadNext(SubSeq(file, unread, Len(file)), Chunk)
       IN /\ unread' = unread + next.taken
          /\ chunk' = next.out
          /\ readerPc' = IF next.out = <<>> THEN "done" ELSE "add"
    /\ UNCHANGED <<file, txns_queue, scheduled_txns, inHand, fetched>>

\* PevmAPI::add_transactions.
AddTransactions ==
    /\ readerPc = "add"
    /\ txns_queue' = txns_queue \o chunk
    /\ chunk' = <<>> /\ readerPc' = "count"
    /\ UNCHANGED <<file, unread, scheduled_txns, inHand, fetched>>

-----------------------------------------------------------------------------
(* schedule: the lock is released between the pop and the push.              *)

PopFront ==
    /\ inHand = <<>> /\ txns_queue # <<>>
    /\ inHand' = <<Head(txns_queue)>>
    /\ txns_queue' = Tail(txns_queue)
    /\ UNCHANGED <<file, unread, readerPc, chunk, scheduled_txns, fetched>>

PushBack ==
    /\ inHand # <<>>
    /\ scheduled_txns' = scheduled_txns \o inHand
    /\ inHand' = <<>>
    /\ UNCHANGED <<file, unread, readerPc, chunk, txns_queue, fetched>>

\* ScheduleFetcher::run and PevmAPI::fetch_one_scheduled_txn: an empty queue is an error,
\* and the next of the endless tasks tries again.
FetchOneScheduledTxn ==
    /\ scheduled_txns # <<>>
    /\ fetched' = Append(fetched, Head(scheduled_txns))
    /\ scheduled_txns' = Tail(scheduled_txns)
    /\ UNCHANGED <<file, unread, readerPc, chunk, txns_queue, inHand>>

ReaderTask == Count \/ ReadChunk \/ AddTransactions
ScheduleTask == PopFront \/ PushBack
FileNext == ReaderTask \/ ScheduleTask \/ FetchOneScheduledTxn

\* The runtime polls every task.
FileFairness ==
    WF_fileVars(ReaderTask) /\ WF_fileVars(ScheduleTask) /\ WF_fileVars(FetchOneScheduledTxn)

-----------------------------------------------------------------------------
(* Properties.                                                               *)

Written == LET good == SelectSeq(file, WellFormed) IN [i \in DOMAIN good |-> good[i].tx]

\* The transactions of the file come out of the queues in its order, none lost, doubled or
\* overtaken, each decoded to the one that was written (ChunkFileReader::read_next,
\* read_workload_from_file, schedule, encode_tx_unsigned and decode_one_hex).
FileInOrder ==
    LET out == DecodeBatchHex(fetched)
    IN /\ \A k \in DOMAIN fetched : ~DecodePanics(fetched[k][1])
       /\ IsPrefix(out, Written)

\* The queues hold at most two chunks, though the reader counts without the transaction in
\* the scheduling task's hand (transactions_generator.rs:151-157).
QueuesBounded == NumPending + Len(inHand) <= 2 * Chunk

\* The file is delivered in order, through bounded queues, and to its end: the reader goes on
\* after it found the queues full, and ends only at the end of the file.
FileDelivered ==
    /\ [](FileInOrder /\ QueuesBounded)
    /\ <>(DecodeBatchHex(fetched) = Written)
=============================================================================
