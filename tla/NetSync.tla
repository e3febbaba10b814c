------------------------------ MODULE NetSync ------------------------------
(***************************************************************************)
(* How the blocks of one validator reach another that is connected to it   *)
(* and to nobody else (the setting of test_network_partition): the tasks   *)
(* of NetworkSyncer (net_sync.rs), BlockDisseminator and BlockFetcher      *)
(* (synchronizer.rs), over Transport.                                      *)
(*                                                                         *)
(* A step is what a task does between two awaits, or what it does between  *)
(* two accesses to the state it shares with the core thread.               *)
(***************************************************************************)
EXTENDS Transport, FiniteSetsExt, Functions

CONSTANTS
    Authors,        \* the validators that make blocks here
    Rounds,         \* number of blocks each of them makes
    BatchSize,      \* SynchronizerParameters::batch_size
    GraceTicks,     \* grace_period in units of sample_precision
    MaxRequest,     \* MAXIMUM_BLOCK_REQUEST
    Faults          \* how often a stream breaks or both Workers connect at once

ASSUME NetSyncAssumption ==
    /\ Authors \subseteq Nodes
    /\ {Rounds, BatchSize, GraceTicks, MaxRequest, Faults} \subseteq Nat
    /\ \A a \in Nodes : <<"far", a>> \notin Nodes

VARIABLES
    received,   \* the blocks a validator has stored or suspended
    silent,     \* own blocks stored while their notification is still to come
    task,       \* the connection_task of every Connection
    reply,      \* what its send_blocks has still to send
    stream,     \* the stream_own_blocks of every Connection
    connected,  \* Syncer::connected_authorities has the peer
    sender,     \* the Connection the BlockFetcherWorker has for the peer
    missing,    \* how long it knows of a missing block
    faults      \* number of streams broken and of simultaneous connections

syncvars == <<received, silent, task, reply, stream, connected,
              sender, missing, faults>>
vars == <<transportvars, syncvars>>

-----------------------------------------------------------------------------
(* Blocks. A block of an author includes its last one and, of the round    *)
(* before, one of an authority the peer has no connection to.              *)

Far(a) == <<"far", a>>
Block(a, r) == [author |-> a, round |-> r]

Includes(b) ==
    {x \in {Block(b.author, b.round - 1)} \cup
           (IF b.author \in Nodes THEN {Block(Far(b.author), b.round - 1)} ELSE {}) :
        x.round > 0}

\* BlockManager: the blocks stored are those all of whose past was received,
\* and a block is missing if a suspended one includes it (ManagerExact of Core).
Stored(n) ==
    {b \in received[n] : \A r \in 1 .. b.round :
        /\ Block(b.author, r) \in received[n]
        /\ b.author \in Nodes /\ r < b.round => Block(Far(b.author), r) \in received[n]}

Missing(n) == UNION {Includes(b) : b \in received[n]} \ received[n]

\* BlockStore::last_seen_by_authority
LastSeen(n, a) == Max({0} \cup {b.round : b \in {x \in Stored(n) : x.author = a}})

\* BlockStore::get_own_blocks, by round.
OwnAfter(n, r) == {q \in 1 .. Rounds : q > r /\ Block(n, q) \in received[n]}

\* Faulty: the first block after the round asked for is left out.
GetOwnBlocksLate(n, r) ==
    {q \in OwnAfter(n, r + 1) :
        Cardinality({x \in OwnAfter(n, r + 1) : x < q}) < BatchSize}

\* The first BatchSize of them.
GetOwnBlocks(n, r) ==
    {q \in OwnAfter(n, r) : Cardinality({x \in OwnAfter(n, r) : x < q}) < BatchSize}

-----------------------------------------------------------------------------
(* Messages *)

SubscribeOwnFrom(r) == [kind |-> "subscribe", round |-> r]
BlockMessage(b) == [kind |-> "block", block |-> b]
RequestBlocks(refs) == [kind |-> "request", refs |-> refs]
BlockNotFound(refs) == [kind |-> "not_found", refs |-> refs]

NoReply == [found |-> {}, lost |-> {}]

NoStream == [at |-> "none", round |-> 0, batch |-> {}, woken |-> FALSE]

SyncInit ==
    /\ received = [n \in Nodes |-> {}] /\ silent = [n \in Nodes |-> FALSE]
    /\ task = [n \in Nodes |-> [i \in Streams |-> "none"]]
    /\ reply = [n \in Nodes |-> [i \in Streams |-> NoReply]]
    /\ stream = [n \in Nodes |-> [i \in Streams |-> NoStream]]
    /\ connected = [n \in Nodes |-> FALSE]
    /\ sender = [n \in Nodes |-> 0]
    /\ missing = [n \in Nodes |-> [x \in {} |-> 0]]
    /\ faults = 0

Init == TransportInit /\ SyncInit

-----------------------------------------------------------------------------
(* Transport steps *)

\* Nothing but a sender that is closed refers to this name any more.
Free(i) ==
    /\ ends[i] = {}
    /\ \A n \in Nodes :
        /\ work[n].stream # i /\ i \notin Range(accepted[n]) \cup Range(made[n])
        /\ task[n][i] = "none" /\ stream[n][i].at = "none" /\ in[n][i] = <<>>

\* A Worker connects although a stream from its peer is on the way.
Race(n) == accepted[n] # <<>>

ConnectNext(n) ==
    /\ Race(n) => faults < Faults
    /\ faults' = IF Race(n) THEN faults + 1 ELSE faults
    /\ \E i \in Streams : Free(i)
    /\ \E i \in {CHOOSE i \in Streams : Free(i)} :
        /\ Connect(n, i)
        /\ sender' = [m \in Nodes |-> IF sender[m] = i THEN 0 ELSE sender[m]]
    /\ UNCHANGED <<received, silent, task, reply, stream, connected, missing>>

AcceptNext(n) == Accept(n) /\ UNCHANGED syncvars
ShakeNext(n)  == Shake(n) /\ UNCHANGED syncvars
FailNext(n)   == Fail(n) /\ UNCHANGED syncvars
PassNext(n)   == Pass(n) /\ UNCHANGED syncvars

BreakNext(i) ==
    /\ faults < Faults
    /\ Break(i)
    /\ faults' = faults + 1
    /\ UNCHANGED <<received, silent, task, reply, stream, connected, sender, missing>>

-----------------------------------------------------------------------------
(* The core thread makes a block and then notifies whoever waits.          *)

Make(n) ==
    /\ n \in Authors /\ ~silent[n]
    /\ \E r \in 1 .. Rounds :
        /\ OwnAfter(n, r - 1) = {} /\ (r > 1 => Block(n, r - 1) \in received[n])
        /\ received' = [received EXCEPT ![n] =
               @ \cup {Block(n, r)} \cup Includes(Block(n, r))]
    /\ silent' = [silent EXCEPT ![n] = TRUE]
    /\ UNCHANGED <<transportvars, task, reply, stream, connected, sender, missing, faults>>

\* SyncerSignals::new_block_ready: notify_waiters wakes every future that
\* Notify::notified has returned, awaited already or not.
NewBlockReady(n) ==
    /\ silent[n]
    /\ silent' = [silent EXCEPT ![n] = FALSE]
    /\ stream' = [stream EXCEPT ![n] = [i \in Streams |->
           IF @[i].at \in {"read", "send", "wait"} THEN [@[i] EXCEPT !.woken = TRUE]
           ELSE @[i]]]
    /\ UNCHANGED <<transportvars, received, task, reply, connected, sender, missing, faults>>

-----------------------------------------------------------------------------
(* NetworkSyncer::run and connection_task *)

\* Is there room for a message of n on i?
Room(n, i) == Len(out[n][i]) < Capacity

Send(n, i, m) == out' = [out EXCEPT ![n][i] = Append(@, m)]

\* Faulty: the next task is started while the last one is still ending.
MayStartAtOnce(n) == TRUE

\* "wait until previous sync task completes"
MayStart(n) == \A i \in Streams : task[n][i] = "none"

\* run takes the next Connection, tells the fetcher and starts its task.
StartTask(n) ==
    /\ made[n] # <<>> /\ MayStart(n)
    /\ \E i \in {Head(made[n])} :
        /\ sender' = [sender EXCEPT ![n] = i]
        /\ task' = [task EXCEPT ![n][i] = "start"]
    /\ made' = [made EXCEPT ![n] = Tail(@)]
    /\ UNCHANGED <<work, ends, greeted, accepted, out, in, received, silent, reply,
                   stream, connected, missing, faults>>

\* The task subscribes to the peer's blocks after the last one stored and tells
\* the syncer. If the Connection is closed already it returns at once, and the
\* fetcher keeps it.
Subscribe(n, i) ==
    /\ task[n][i] = "start"
    /\ IF Carries(n, i)
       THEN /\ Room(n, i)
            /\ Send(n, i, SubscribeOwnFrom(LastSeen(n, Other(n))))
            /\ task' = [task EXCEPT ![n][i] = "loop"]
            /\ connected' = [connected EXCEPT ![n] = TRUE]
            /\ UNCHANGED in
       ELSE /\ task' = [task EXCEPT ![n][i] = "none"]
            /\ in' = [in EXCEPT ![n][i] = <<>>]
            /\ UNCHANGED <<out, connected>>
    /\ UNCHANGED <<work, ends, greeted, accepted, made, received, silent, reply,
                   stream, sender, missing, faults>>

\* disseminate_own_blocks: a stream that runs already is aborted. One that never
\* has a block to send is left out.
Disseminate(n, i, round) ==
    stream' = IF n \in Authors
              THEN [stream EXCEPT ![n][i] = [NoStream EXCEPT !.at = "read", !.round = round]]
              ELSE stream

\* send_blocks: the blocks that are stored, then the others' references.
Answer(n, refs) == [found |-> refs \cap Stored(n), lost |-> refs \ Stored(n)]

Receive(n, i) ==
    /\ task[n][i] = "loop" /\ in[n][i] # <<>>
    /\ in' = [in EXCEPT ![n][i] = Tail(@)]
    /\ \E m \in {Head(in[n][i])} :
        \/ /\ m.kind = "subscribe"
           /\ Disseminate(n, i, m.round)
           /\ UNCHANGED <<received, task, reply>>
        \/ /\ m.kind = "block"
           /\ received' = [received EXCEPT ![n] = @ \cup {m.block}]
           /\ UNCHANGED <<stream, task, reply>>
        \/ /\ m.kind = "request"
           /\ task' = [task EXCEPT ![n][i] = "serve"]
           /\ reply' = [reply EXCEPT ![n][i] = Answer(n, m.refs)]
           /\ UNCHANGED <<received, stream>>
        \/ /\ m.kind = "not_found"
           /\ UNCHANGED <<received, stream, task, reply>>
    /\ UNCHANGED <<work, ends, greeted, accepted, made, out, silent, connected,
                   sender, missing, faults>>

\* send_blocks waits for room before every message.
Serve(n, i) ==
    /\ task[n][i] = "serve"
    /\ IF Carries(n, i)
       THEN /\ Room(n, i)
            /\ \/ \E b \in reply[n][i].found :
                    /\ b = CHOOSE x \in reply[n][i].found : TRUE
                    /\ Send(n, i, BlockMessage(b))
                    /\ reply' = [reply EXCEPT ![n][i].found = @ \ {b}]
                    /\ UNCHANGED task
               \/ /\ reply[n][i].found = {}
                  /\ Send(n, i, BlockNotFound(reply[n][i].lost))
                  /\ reply' = [reply EXCEPT ![n][i] = NoReply]
                  /\ task' = [task EXCEPT ![n][i] = "loop"]
       ELSE /\ reply' = [reply EXCEPT ![n][i] = NoReply]
            /\ task' = [task EXCEPT ![n][i] = "end"]
            /\ UNCHANGED out
    /\ UNCHANGED <<work, ends, greeted, accepted, made, in, received, silent, stream,
                   connected, sender, missing, faults>>

\* BlockDisseminator::shutdown
Abort(n, i) == stream' = [stream EXCEPT ![n][i] = NoStream]

\* The task ends once the Connection is closed and all that it received is
\* handled, or an answer cannot be sent: authority_connection(id, false),
\* shutdown of the disseminator, remove_authority(id).
EndTask(n, i) ==
    /\ \/ task[n][i] = "end"
       \/ task[n][i] = "loop" /\ in[n][i] = <<>> /\ ~Carries(n, i)
    /\ task' = [task EXCEPT ![n][i] = "none"]
    /\ in' = [in EXCEPT ![n][i] = <<>>]
    /\ connected' = [connected EXCEPT ![n] = FALSE]
    /\ Abort(n, i)
    /\ sender' = [sender EXCEPT ![n] = 0]
    /\ UNCHANGED <<work, ends, greeted, accepted, made, out, received, silent, reply,
                   missing, faults>>

-----------------------------------------------------------------------------
(* stream_own_blocks *)

ReadOwnBlocks(n, i) ==
    /\ stream[n][i].at = "read"
    /\ \E batch \in {GetOwnBlocks(n, stream[n][i].round)} :
           stream' = [stream EXCEPT ![n][i].batch = batch,
                                    ![n][i].at = IF batch = {} THEN "wait" ELSE "send"]
    /\ UNCHANGED <<transportvars, received, silent, task, reply, connected,
                   sender, missing, faults>>

\* Faulty: the notification is asked for after the blocks are sent.
SentThenNotified(s, round, rest) ==
    [s EXCEPT !.round = round, !.batch = rest,
              !.at = IF rest = {} THEN "wait" ELSE "send",
              !.woken = IF rest = {} THEN FALSE ELSE @]

Sent(s, round, rest) ==
    [s EXCEPT !.round = round, !.batch = rest,
              !.at = IF rest = {} THEN "wait" ELSE "send"]

SendOwnBlock(n, i) ==
    /\ stream[n][i].at = "send"
    /\ IF Carries(n, i)
       THEN \E round \in {Min(stream[n][i].batch)} :
            /\ Room(n, i)
            /\ Send(n, i, BlockMessage(Block(n, round)))
            /\ stream' = [stream EXCEPT ![n][i] = Sent(@, round, @.batch \ {round})]
       ELSE stream' = [stream EXCEPT ![n][i] = NoStream] /\ UNCHANGED out
    /\ UNCHANGED <<work, ends, greeted, accepted, made, in, received, silent, task, reply,
                   connected, sender, missing, faults>>

\* notified.await, and the loop goes round to Notify::notified.
AwaitNotified(n, i) ==
    /\ stream[n][i].at = "wait" /\ stream[n][i].woken
    /\ stream' = [stream EXCEPT ![n][i].at = "read", ![n][i].woken = FALSE]
    /\ UNCHANGED <<transportvars, received, silent, task, reply, connected,
                   sender, missing, faults>>

-----------------------------------------------------------------------------
(* BlockFetcherWorker *)

\* The age of what is missing at the next tick.
Ages(n) == [x \in Missing(n) \cup DOMAIN missing[n] |->
               IF x \in DOMAIN missing[n] THEN missing[n][x] + 1 ELSE 0]

\* At most MaxRequest references to a message.
Chunks(refs) == (Cardinality(refs) + MaxRequest - 1) \div MaxRequest

Chunk(refs, k) ==
    LET position == CHOOSE f \in Bijection(refs, 1 .. Cardinality(refs)) : TRUE
    IN  {x \in refs : (position[x] - 1) \div MaxRequest = k - 1}

\* sync_strategy with sample_peer: what is missing for long is requested if
\* there is room for the message, and in any case counted anew.
\* Seconds lie between two ticks: the last request has left.
SyncStrategy(n) ==
    /\ Missing(n) \cup DOMAIN missing[n] # {}
    /\ \A i \in Streams : \A k \in DOMAIN out[n][i] : out[n][i][k].kind # "request"
    /\ \E ages \in {Ages(n)} :
       \E refs \in {{x \in Missing(n) : ages[x] >= GraceTicks}} :
        /\ missing' = [missing EXCEPT ![n] =
               [x \in {y \in DOMAIN ages : ages[y] < GraceTicks} |-> ages[x]]]
        /\ IF sender[n] # 0 /\ Carries(n, sender[n])
           THEN \E k \in 0 .. Capacity :
                 /\ k = Min({Chunks(refs), Capacity - Len(out[n][sender[n]])})
                 /\ out' = [out EXCEPT ![n][sender[n]] =
                        @ \o [j \in 1 .. k |-> RequestBlocks(Chunk(refs, j))]]
           ELSE UNCHANGED out
    /\ UNCHANGED <<work, ends, greeted, accepted, made, in, received, silent, task, reply,
                   stream, connected, sender, faults>>

-----------------------------------------------------------------------------

WorkerStep(n) == ConnectNext(n) \/ AcceptNext(n) \/ ShakeNext(n) \/ FailNext(n)

TaskStep(n, i) ==
    Subscribe(n, i) \/ Receive(n, i) \/ Serve(n, i) \/ EndTask(n, i)

StreamStep(n, i) ==
    \/ ReadOwnBlocks(n, i) \/ SendOwnBlock(n, i)
    \/ AwaitNotified(n, i)

\* Every block made is everywhere and nothing is left to do.
Quiet ==
    /\ \A n \in Nodes : /\ Missing(n) \cup DOMAIN missing[n] = {}
                        /\ \A i \in Streams : out[n][i] = <<>> /\ in[n][i] = <<>>
    /\ UNCHANGED vars

Next ==
    \/ \E n \in Nodes :
        \/ Make(n) \/ NewBlockReady(n) \/ StartTask(n) \/ SyncStrategy(n)
        \/ WorkerStep(n) \/ PassNext(n)
        \/ \E i \in Streams : TaskStep(n, i) \/ StreamStep(n, i)
    \/ \E i \in Streams : BreakNext(i)
    \/ Quiet

Spec == Init /\ [][Next]_vars

\* The runtime polls every task that can go on.
Fairness ==
    \A n \in Nodes :
        /\ WF_vars(NewBlockReady(n)) /\ WF_vars(SyncStrategy(n))
        /\ WF_vars(WorkerStep(n)) /\ WF_vars(PassNext(n))
        /\ WF_vars(StartTask(n) \/ \E i \in Streams : TaskStep(n, i))
        /\ WF_vars(\E i \in Streams : StreamStep(n, i))

FairSpec == Spec /\ Fairness

-----------------------------------------------------------------------------
(* Properties *)

\* The fetcher will have, once it has read its messages, the Connection whose
\* task is running, and the syncer counts the peer as connected exactly while
\* the loop of that task runs: an old task that ends late takes back neither.
RegistrationIsCurrent ==
    \A n \in Nodes, i \in Streams :
        /\ task[n][i] \in {"start", "loop", "serve", "end"} =>
               sender[n] = i
        /\ task[n][i] \in {"loop", "serve", "end"} => connected[n]

\* A subscription skips nothing: over a Connection that both sides carry, every
\* own block up to the one the stream has reached has been received or is on
\* its way (last_seen_by_authority, get_own_blocks, and aborts in between).
StreamSkipsNothing ==
    \A n \in Nodes, i \in Streams :
        Carries(n, i) /\ Carries(Other(n), i) /\ stream[n][i].at # "none" =>
            \A r \in 1 .. stream[n][i].round :
                \/ Block(n, r) \in received[Other(n)]
                \/ BlockMessage(Block(n, r)) \in Range(out[n][i]) \cup Range(in[Other(n)][i])

\* No stream of own blocks outlives the task of its Connection: shutdown has
\* to find every reference to the inner state gone.
NoOrphanStream ==
    \A n \in Nodes, i \in Streams :
        stream[n][i].at # "none" => task[n][i] \in {"loop", "serve", "end"}

\* A reconnect is clean: the old Connection's task takes nothing from the new one
\* and leaves nothing behind (NetworkSyncer::run and connection_task).
ReconnectIsClean == RegistrationIsCurrent /\ NoOrphanStream

\* Every own block is eventually stored by the peer, in spite of broken streams,
\* of Workers that connect to each other at the same time, of blocks made while
\* the stream is between two looks at the store, and of parents that have to be
\* fetched.
EveryBlockArrives ==
    []<>(\A n \in Authors : {b \in received[n] : b.author = n} \subseteq Stored(Other(n)))
=============================================================================
