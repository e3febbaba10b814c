-------------------------------- MODULE Core --------------------------------
(***************************************************************************)
(* One validator of mysticeti: Core (core.rs), its threshold clock         *)
(* (threshold_clock.rs), the Syncer around it (syncer.rs), and the tasks   *)
(* of NetworkSyncer that call it (net_sync.rs, synchronizer.rs), together  *)
(* with crashes and restarts.                                              *)
(*                                                                         *)
(* CoreThread runs one command at a time, so a command is one step. A      *)
(* crash in the middle of a command leaves the entries it has written, a   *)
(* prefix of the log and nothing else.                                     *)
(***************************************************************************)
EXTENDS BlockManager

CONSTANTS
    CommitPeriod,   \* Syncer::commit_period, the wave length
    SoftMax,        \* SOFT_MAX_PROPOSED_PER_BLOCK
    UsizeModulus,   \* one more than usize::MAX
    Settings        \* what the validator may be configured and connected to

ASSUME CoreAssumption ==
    /\ Self \in Authorities
    /\ Settings \subseteq [pevm    : BOOLEAN,
                            quorum  : Quorums,
                            streams : SUBSET (Authorities \ {Self}),
                            rounds  : Nat,
                            crashes : Nat]
    /\ CommitPeriod \in Nat /\ SoftMax \in Nat /\ UsizeModulus \in Nat

VARIABLES
    core,     \* the state of the core thread, and the log
    mode,     \* "down", "up" or "panic"
    setting,  \* pevm: Parameters::enable_pevm_executor; quorum: the authorities
              \* whose blocks the peers include; streams: the peers connected;
              \* rounds, crashes: bounds on the rounds of the peers and on the
              \* number of crashes
    cursor,   \* the last block every peer has streamed on its connection
    sent,     \* own blocks the peers have accepted
    floor,    \* the entries of the log that a crash is sure to keep
    crashes,  \* number of crashes
    torn      \* has a crash hit the very first start?

corevars == <<core, mode, setting, cursor, sent, floor, crashes, torn>>

Peers == Authorities \ {Self}

-----------------------------------------------------------------------------
(* ThresholdClockAggregator *)

AddToClock(clock, ref) ==
    IF ref.round < clock.round THEN clock
    ELSE IF ref.round > clock.round
    THEN [round |-> ref.round, voters |-> {ref.authority}]
    ELSE LET voters == clock.voters \cup {ref.authority}
         IN  IF voters \in Quorums THEN [round |-> ref.round + 1, voters |-> {}]
             ELSE [clock EXCEPT !.voters = voters]

NewClock == [round |-> 0, voters |-> {}]

\* The clock after all includes of a sequence of statements.
ClockOf(clock, statements) ==
    FoldLeft(LAMBDA c, m : IF m.kind = "include" THEN AddToClock(c, m.ref) ELSE c,
             clock, statements)

-----------------------------------------------------------------------------
(* Core *)

\* run_block_handler with RealBlockHandler::handle_blocks: the client channel
\* holds one transaction, which is taken unless the limit is reached.
RunBlockHandler(s, refs) ==
    LET shares == IF s.pending_transactions < SoftMax THEN {s.received + 1} ELSE {}
        w      == Write(s, PayloadEntry(shares, refs))
    IN  IF s.panicked THEN s
        ELSE [w EXCEPT !.received = @ + Cardinality(shares),
                       !.pending_transactions = @ + Cardinality(shares),
                       !.pending = Append(@, Payload(Len(w.wal), shares, refs))]

CoreAddBlocks(s, blocks, ascending) ==
    LET m == ManagerAddBlocks(s, blocks, ascending)
    IN  RunBlockHandler([m.s EXCEPT !.clock = ClockOf(@, m.processed),
                                    !.pending = @ \o m.processed],
                        {p.ref : p \in ToSet(m.processed)})

NextEntry(taken, tail) == IF tail = <<>> THEN MaxPosition ELSE Head(tail).pos

\* Faulty: statements of the round of the block are taken too.
TakenCountLate(pending, round) ==
    LET at == {i \in DOMAIN pending :
                  pending[i].kind = "include" /\ pending[i].ref.round > round}
    IN  IF at = {} THEN Len(pending) ELSE Min(at) - 1

\* How many statements go into a block of this round: those before the first
\* include that is too young.
TakenCount(pending, round) ==
    LET at == {i \in DOMAIN pending :
                  pending[i].kind = "include" /\ pending[i].ref.round >= round}
    IN  IF at = {} THEN Len(pending) ELSE Min(at) - 1

\* The includes of a new block: the last own block, then what is taken and no
\* other include of the block refers to.
NewIncludes(s, taken) ==
    LET refs       == [i \in 1 .. Len(SelectSeq(taken, LAMBDA m : m.kind = "include")) |->
                          SelectSeq(taken, LAMBDA m : m.kind = "include")[i].ref]
        referenced == UNION {ToSet(s.dag[b]) : b \in {s.own} \cup ToSet(refs)}
    IN  <<s.own>> \o SelectSeq(refs, LAMBDA b : b \notin referenced)

OfPayloads(taken, field) ==
    UNION {m[field] : m \in {x \in ToSet(taken) : x.kind = "payload"}}

\* Faulty: a second block for the round of the last one.
MayProposeAgain(s) == s.clock.round >= s.own.round

MayPropose(s) == s.clock.round > s.own.round

\* try_new_block: the block, of everything pending up to its round.
NewBlock(s) ==
    LET count  == TakenCount(s.pending, s.clock.round)
        taken  == SubSeq(s.pending, 1, count)
        tail   == SubSeq(s.pending, count + 1, Len(s.pending))
    IN  OwnEntry(Ref(Self, s.clock.round, s.made + 1), NewIncludes(s, taken),
                 OfPayloads(taken, "shares"), OfPayloads(taken, "votes"),
                 NextEntry(taken, tail))

\* try_new_block: the block is stored, what it takes is no longer pending, and
\* RealBlockHandler::handle_proposal counts its transactions off.
StoreNewBlock(s, own) ==
    LET count == TakenCount(s.pending, s.clock.round)
        rest  == [s EXCEPT
            !.pending = SubSeq(@, count + 1, Len(@)),
            !.made = @ + 1,
            !.own = own.ref,
            !.force = FALSE,
            !.clock = AddToClock(@, own.ref),
            !.pending_transactions =
                (@ + UsizeModulus - Cardinality(own.shares)) % UsizeModulus]
    IN  InsertOwnBlock(rest, own)

\* UniversalCommitter::get_leaders
GetLeaders(round) ==
    {ElectLeader(c, round) : c \in {x \in ToSet(Committers) : HasLeader(x, round)}}

\* ready_new_block
ReadyNewBlock(s, connected) ==
    /\ s.clock.round > Max({s.last.round, CommitPeriod - 1})
    /\ RoundBlocks(s.dag, s.clock.round - 1) # {}
    /\ \A a \in GetLeaders(s.clock.round - 1) \cap connected :
           BlocksAt(s.dag, a, s.clock.round - 1) # {}

\* The commits are handled: with the EVM executor they are executed and nothing
\* is written (handle_committed_subdag_with_pevm, handle_committed_subdag).
HandleCommitted(s, leaders, handled) ==
    LET blocks == UNION {ToSet(d.blocks) : d \in ToSet(handled.sub_dags)}
    IN  [s EXCEPT !.last = IF leaders = <<>> THEN @ ELSE Last(leaders),
                  !.committed = handled.committed,
                  !.wal = IF setting.pevm THEN @
                          ELSE @ \o <<StateEntry, CommitEntry(leaders, blocks)>>]

\* The command leaves this state.
Becomes(s) ==
    /\ core' = s
    /\ mode' = IF s.panicked THEN "panic" ELSE "up"
    /\ floor' = Len(core.wal)
    /\ UNCHANGED <<setting, crashes, torn>>

\* Core::try_commit and the handling of what it commits.
TryCommit(s) ==
    \E leaders \in {CommittedLeaders(s.dag, s.last)} :
    \E handled \in {HandleCommit(s.dag, s.committed, leaders)} :
        Becomes(HandleCommitted(s, leaders, handled))

\* Syncer::try_new_block, at the end of every command.
SyncerTryNewBlock(s, connected) ==
    IF /\ ~s.panicked
       /\ s.force \/ ReadyNewBlock(s, connected)
       /\ MayPropose(s)
    THEN \E own \in {NewBlock(s)} : \E made \in {StoreNewBlock(s, own)} :
             IF made.panicked THEN Becomes(made) ELSE TryCommit(made)
    ELSE Becomes(s)

-----------------------------------------------------------------------------
(* Core::open and NetworkSyncer::start *)

\* A fresh validator stores the genesis blocks, its own last.
StoreGenesis(s) ==
    LET others == InOrder({Ref(a, 0, 0) : a \in Peers}, TRUE)
        stored == FoldLeft(LAMBDA t, ref :
                      LET u == InsertBlock(t, ref, <<>>)
                      IN  [u EXCEPT !.clock = AddToClock(@, ref),
                                    !.pending = Append(@, Include(Len(u.wal), ref))],
                      s, others)
        own    == Ref(Self, 0, 0)
    IN  InsertOwnBlock([stored EXCEPT !.clock = AddToClock(@, own), !.own = own],
                       OwnEntry(own, <<>>, {}, {}, MaxPosition))

\* A validator with a log: the clock is that of the pending includes. Blocks
\* without any own block fail an assertion.
Opened(s, r) ==
    LET fresh == [s EXCEPT
            !.dag = r.dag, !.pending = r.pending, !.own = r.own,
            !.clock = NewClock, !.blocks_pending = NoBlocks, !.waiting = NoBlocks,
            !.missing = {}, !.force = FALSE, !.pending_transactions = 0,
            !.last = r.last, !.committed = r.committed, !.panicked = r.panicked]
    IN  IF r.own # NoOwn
        THEN [fresh EXCEPT !.clock = ClockOf(NewClock, r.pending)]
        ELSE IF r.pending # <<>> THEN [fresh EXCEPT !.panicked = TRUE]
        ELSE StoreGenesis(fresh)

\* The block handler replays what the last recorded state does not cover.
Replayed(opened, r) ==
    IF r.unprocessed = {} THEN opened ELSE RunBlockHandler(opened, r.unprocessed)

-----------------------------------------------------------------------------
(* The peers run the same code. A peer makes a block per round, of its own *)
(* last block and the blocks of the quorum of the round before. If Self is *)
(* one of the quorum then the others need its blocks to advance.           *)
(* stream_own_blocks sends an own block at any time after it is stored, in *)
(* round order; that it did is known from the first peer's block that      *)
(* includes it.                                                            *)

OwnBlocks == {b \in DOMAIN core.dag : b.authority = Self}

\* The own blocks a peer has accepted when it makes a block of this round. A
\* peer closes the connection on a block that is not valid.
AcceptedOwn(round) ==
    {b \in OwnBlocks : b.round \in 1 .. round - 1}

\* Can the peers make a block of this round?
PeersReach(round) ==
    /\ round \in 1 .. setting.rounds
    /\ Self \in setting.quorum =>
        \A q \in 1 .. round - 1 : \E b \in AcceptedOwn(round) \cup sent :
            b.round = q /\ (b \in sent \/ ThresholdClockValid(q, core.dag[b]))

\* The block of a member of the quorum that the others include.
Accepted(a, round) ==
    IF a # Self \/ round = 0 THEN Ref(a, round, 0)
    ELSE CHOOSE b \in sent \cup OwnBlocks :
             b.round = round /\ (b \in sent \/ \A x \in sent : x.round # round)

PeerBlock(a, round) ==
    LET others == SetToSortSeq(setting.quorum \ {a}, <)
    IN  Block(Ref(a, round, 0),
              <<Accepted(a, round - 1)>> \o
                  [i \in DOMAIN others |-> Accepted(others[i], round - 1)])

-----------------------------------------------------------------------------

Volatile(wal, received, made) ==
    [wal |-> wal, received |-> received, made |-> made,
     dag |-> NoBlocks, pending |-> <<>>, own |-> NoOwn, clock |-> NewClock,
     blocks_pending |-> NoBlocks, waiting |-> NoBlocks, missing |-> {},
     force |-> FALSE, pending_transactions |-> 0, last |-> Ref(0, 0, 0),
     committed |-> {}, panicked |-> FALSE]

CoreInit ==
    /\ setting \in Settings
    /\ core = Volatile(<<>>, 0, 0)
    /\ mode = "down"
    /\ cursor = [p \in Peers |-> 0]
    /\ sent = {}
    /\ floor = 0 /\ crashes = 0
    /\ torn = FALSE

\* The process starts. A validator that has only its genesis block proposes
\* at once; every connection resumes after the last block stored.
Start ==
    /\ mode = "down"
    /\ \E r \in {Recover(core.wal)} : \E opened \in {Opened(core, r)} :
       \E s \in {Replayed(opened, r)} :
           IF s.own.round = 0 THEN SyncerTryNewBlock([s EXCEPT !.force = TRUE], {})
           ELSE Becomes(s)
    /\ cursor' = [p \in Peers |-> LastSeen(core'.dag, p)]
    /\ UNCHANGED sent

\* Syncer::add_blocks. The fewer peers count as connected the sooner the
\* validator is ready, so all or none of them is every case there is.
AddBlocks(block) ==
    \E s \in {CoreAddBlocks(core, <<block>>, ascending) : ascending \in BOOLEAN},
       connected \in {{}, setting.streams} : SyncerTryNewBlock(s, connected)

\* The next block of a peer's stream. The first one of its round shows what
\* the peers have accepted.
Stream(p) ==
    /\ mode = "up" /\ p \in setting.streams
    /\ PeersReach(cursor[p] + 1)
    /\ AddBlocks(PeerBlock(p, cursor[p] + 1))
    /\ cursor' = [cursor EXCEPT ![p] = @ + 1]
    /\ sent' = IF Self \in setting.quorum THEN sent \cup AcceptedOwn(cursor[p] + 1)
               ELSE sent

\* A missing block that a peer was asked for.
Fetch(ref) ==
    /\ mode = "up"
    /\ AddBlocks(PeerBlock(ref.authority, ref.round))
    /\ UNCHANGED <<cursor, sent>>

\* leader_timeout_task: the timeout of the last own block.
LeaderTimeout ==
    /\ mode = "up"
    /\ LastSeen(core.dag, Self) = core.own.round
    /\ \E connected \in {{}, setting.streams} :
           SyncerTryNewBlock([core EXCEPT !.force = TRUE], connected)
    /\ UNCHANGED <<cursor, sent>>

\* The process ends, perhaps within its last command.
Crash ==
    /\ mode # "down" /\ crashes < setting.crashes
    /\ \E kept \in floor .. Len(core.wal) :
        /\ core' = Volatile(SubSeq(core.wal, 1, kept), core.received, core.made)
        /\ floor' = kept
        /\ torn' = \/ torn
                   \/ /\ kept > 0
                      /\ \A i \in 1 .. kept :
                             core.wal[i].tag = "own" => core.wal[i].ref.round = 0
    /\ mode' = "down"
    /\ crashes' = crashes + 1
    /\ UNCHANGED <<setting, cursor, sent>>

\* A panic ends the process.
Panicked == mode = "panic" /\ UNCHANGED corevars

CoreNext ==
    \/ Start \/ LeaderTimeout \/ Crash
    \/ \E p \in Peers : Stream(p)
    \/ \E ref \in core.missing : Fetch(ref)
    \/ Panicked

CoreSpec == CoreInit /\ [][CoreNext]_corevars

-----------------------------------------------------------------------------
(* Properties *)

\* The log alone is enough: at every moment, what a restart would read from it
\* is the store, the pending statements and the last own block in memory,
\* whatever the restarts before (RecoveredStateBuilder against Core's own
\* bookkeeping of pending and next_entry), and, unless the EVM executor is
\* enabled, the commits. A crash during the very first start is excepted.
RestartRebuilds ==
    LET r == Recover(core.wal)
    IN  mode = "up" /\ ~torn =>
            /\ r.dag = core.dag /\ r.pending = core.pending /\ r.own = core.own
            /\ ~setting.pevm => r.last = core.last /\ r.committed = core.committed

\* The clock runs ahead of no quorum: the round before the clock's has a
\* quorum in the store (the comments of ThresholdClockAggregator::add_block).
ClockBacked ==
    mode = "up" /\ core.clock.round > 0 =>
        {b.authority : b \in RoundBlocks(core.dag, core.clock.round - 1)} \in Quorums

\* Every proposal has a quorum of the round before, so that no peer rejects it,
\* and the clock that asks for proposals runs ahead of no quorum
\* (Core::try_new_block takes a prefix of pending and drops references that
\* other includes cover; StatementBlock::verify decides at the peer).
ProposalsVerify ==
    /\ ClockBacked
    /\ ~torn => \A b \in OwnBlocks : b.round > 0 => ThresholdClockValid(b.round, core.dag[b])

\* A client transaction that was logged is in exactly one place: one own block
\* or the pending statements (run_block_handler, try_new_block, and the
\* replay with next_entry).
SharedOnce ==
    LET own(x) == {i \in DOMAIN core.wal :
                      core.wal[i].tag = "own" /\ x \in core.wal[i].shares}
        pending(x) == {i \in DOMAIN core.pending :
                      core.pending[i].kind = "payload" /\ x \in core.pending[i].shares}
        logged == UNION {core.wal[i].shares : i \in {j \in DOMAIN core.wal :
                                                  core.wal[j].tag = "payload"}}
    IN  mode = "up" /\ ~torn =>
            \A x \in logged : Cardinality(own(x)) + Cardinality(pending(x)) = 1

\* The block handler has seen every block in the store and what it answered is
\* in an own block or will be in the next one: a crash between storing a block
\* and logging the answer is made up for by the replay of unprocessed_blocks.
BlocksAnswered ==
    LET votes == UNION {core.pending[i].votes : i \in {j \in DOMAIN core.pending :
                                            core.pending[j].kind = "payload"}}
                 \cup UNION {core.wal[i].votes : i \in {j \in DOMAIN core.wal :
                                            core.wal[j].tag = "own"}}
    IN  mode = "up" /\ ~torn =>
            \A b \in DOMAIN core.dag : b.authority # Self /\ b.round > 0 => b \in votes

\* Over all crashes nothing a client sent is lost or proposed twice, and no block goes
\* without the votes of this validator (RecoveredStateBuilder).
NothingDropped == SharedOnce /\ BlocksAnswered

\* A suspended block lacks an include, is released when it lacks none, is
\* known to wait for exactly what it lacks, and what is asked for is what is
\* lacking and not suspended itself (BlockManager::add_blocks).
ManagerExact ==
    LET lacks(b) == ToSet(core.blocks_pending[b]) \ DOMAIN core.dag
        suspended == DOMAIN core.blocks_pending
    IN  mode = "up" =>
            /\ \A b \in suspended : lacks(b) # {} /\ b \notin DOMAIN core.dag
            /\ \A x \in DOMAIN core.waiting :
                   core.waiting[x] = {b \in suspended : x \in lacks(b)}
            /\ DOMAIN core.waiting = UNION {lacks(b) : b \in suspended}
            /\ core.missing = DOMAIN core.waiting \ suspended

\* One own block per round, over all restarts: no block that a peer has
\* accepted is replaced by another (last_proposed, OwnBlockData, and the
\* assertion of add_own_index).
NoOwnFork ==
    /\ \A b, x \in OwnBlocks \cup sent : b.round = x.round => b = x
    /\ mode = "panic" => torn

\* What a test of core.rs expects of every own block, with no exception for a
\* crash during the very first start.
OwnBlocksVerify ==
    \A b \in OwnBlocks : b.round > 0 => ThresholdClockValid(b.round, core.dag[b])

\* The clock has seen the quorums that are in the store ("We have seen 2f+1
\* blocks for current round, advance"): a validator with a quorum of the round
\* of its last block can make the next one.
ClockSeesQuorum ==
    mode = "up" /\ ~torn => \A b \in DOMAIN core.dag :
        /\ b.round >= core.own.round
        /\ {x.authority : x \in RoundBlocks(core.dag, b.round)} \in Quorums
        => core.clock.round > b.round

\* The limit on transactions per block (RealBlockHandler::receive_with_limit)
\* counts what waits for a proposal: with nothing waiting, a client's
\* transaction is taken.
ClientsServed ==
    mode = "up" /\ OfPayloads(core.pending, "shares") = {}
        => core.pending_transactions < SoftMax
=============================================================================
