---------------------------- MODULE VoteCounting ----------------------------
(***************************************************************************)
(* How one validator counts the votes for transactions: RealBlockHandler   *)
(* counts those of every block it is given, TestCommitHandler (the commit  *)
(* observer validators run with) those of the committed blocks, each with  *)
(* a TransactionAggregator and a TransactionLog (block_handler.rs, log.rs).*)
(* What both have counted is rebuilt from the write-ahead log after a      *)
(* crash (state.rs, core.rs).                                              *)
(*                                                                         *)
(* The order in which blocks arrive, are proposed and are committed is     *)
(* arbitrary but causal: Core and CommitSequence are about that order.     *)
(***************************************************************************)
EXTENDS Aggregator

CONSTANTS
    Me,             \* this validator
    Blocks,         \* number of blocks, by author
    Shares,         \* number of transactions in a peer's n-th block, by author and n
    Clients,        \* number of transactions this validator's clients submit
    Crashes         \* bound on the crashes

ASSUME VotesAssumption ==
    /\ Me \in Authorities
    /\ {Clients, Crashes} \subseteq Nat
    /\ Blocks \in [Authorities -> Nat]
    /\ \A a \in Authorities \ {Me} : \A n \in 1 .. Blocks[a] : Shares[<<a, n>>] \in Nat

VARIABLES
    dag,            \* the blocks in the store
    payload,        \* logged statements for the next proposal
    submitted,      \* number of transactions taken from clients
    handler,        \* what RealBlockHandler has counted
    observer,       \* what TestCommitHandler has counted
    replay,         \* the blocks logged after the last entry of the state
    saved,          \* the state in the last such entry, and in the commit entry
    crashes

vars == <<dag, payload, submitted, handler, observer, replay, saved, crashes>>

-----------------------------------------------------------------------------
(* The DAG *)

NoBlocks == [ref \in {} |-> None]

Of(a) == {x \in DOMAIN dag : x[1] = a}
MayMake(a) == Cardinality(Of(a)) < Blocks[a]

\* Blocks and what they include, directly or not.
Past(d, refs) ==
    LET past[n \in 0 .. Cardinality(DOMAIN d)] ==
            IF n = 0 THEN refs
            ELSE past[n - 1] \cup UNION {d[x].includes : x \in past[n - 1]}
    IN  past[Cardinality(DOMAIN d)]

\* The last block of every authority among refs.
Frontier(refs) == {x \in refs : \A y \in refs : y[1] = x[1] => y[2] <= x[2]}

\* References by round.
ByRound(refs) ==
    LET some == SetToSeq(Authorities)
        Rank(a) == CHOOSE k \in DOMAIN some : some[k] = a
    IN  SetToSortSeq(refs, LAMBDA x, y :
            x[2] < y[2] \/ (x[2] = y[2] /\ Rank(x[1]) < Rank(y[1])))

NewBlock(a, includes, statements) ==
    [author |-> a, round |-> 1 + Max({0} \cup {x[2] : x \in includes}),
     includes |-> includes, statements |-> statements]

\* The next block of a peer that includes refs, with these votes before its last
\* transaction.
NextOf(a, refs, votes) ==
    LET n == Shares[<<a, Cardinality(Of(a)) + 1>>]
    IN  NewBlock(a, Frontier(Of(a)) \cup refs,
                 [k \in 1 .. Max({n, 1}) - 1 |-> Share] \o votes
                     \o [k \in 1 .. Min({n, 1}) |-> Share])

Stored(b) == [x \in DOMAIN dag \cup {Reference(b)} |->
                 IF x = Reference(b) THEN b ELSE dag[x]]

-----------------------------------------------------------------------------
(* An aggregator with its log of certified transactions, of which the first*)
(* `written` are surely in the file: the others may still be in the channel*)
(* to TransactionLog::run. `counted`, `certified` and `strange` only record*)
(* what happened.                                                          *)

NewAggregator ==
    [pending |-> NoPending, log |-> <<>>, written |-> 0,
     counted |-> {}, certified |-> {}, strange |-> {}]

\* The handler is told what the tally of a block says. A vote for a transaction
\* that is not pending is strange if that one was never certified.
Told(agg, b, tally) ==
    [agg EXCEPT !.pending = tally.pending,
                !.log = @ \o tally.processed,
                !.counted = @ \cup {Reference(b)},
                !.certified = @ \cup ToSet(tally.processed),
                !.strange = @ \cup tally.duplicate
                              \cup (tally.unknown \ (agg.certified \cup ToSet(tally.processed)))]

CountBlock(agg, b) == Told(agg, b, ProcessBlock(agg.pending, b))

CountBlocks(agg, blocks) == FoldLeft(CountBlock, agg, blocks)

\* Faulty: blocks that are handled again get no response.
NoResponses(blocks) == <<>>

Responses(blocks) == FoldLeft(LAMBDA all, b : all \o Response(b), <<>>, blocks)

-----------------------------------------------------------------------------
(* FinalizationInterpreter: the voters for a transaction in the past of    *)
(* every block, taken over from the blocks it includes. A block whose past *)
(* has a quorum of them is a certificate; a quorum of authors of           *)
(* certificates finalizes the transaction.                                 *)

LocatorsIn(b) ==
    SharedTransactions(b) \cup
    UNION {Locators(b.statements[k].block, b.statements[k].lo, b.statements[k].hi) :
               k \in {j \in DOMAIN b.statements : b.statements[j] # Share}}

\* Faulty: the author of a block votes for all that the blocks it includes vote for.
InterpretEager(found, ref) ==
    LET b == dag[ref]
        known == LocatorsIn(b) \cup UNION {DOMAIN found[x] : x \in b.includes}
    IN  [x \in DOMAIN found \cup {ref} |->
            IF x # ref THEN found[x]
            ELSE [l \in known |-> {b.author} \cup
                     UNION {found[y][l] : y \in {z \in b.includes : l \in DOMAIN found[z]}}]]

\* _finalized_tx_certifying_blocks, for a block whose includes are done.
Interpret(found, ref) ==
    LET b == dag[ref]
        known == LocatorsIn(b) \cup UNION {DOMAIN found[x] : x \in b.includes}
    IN  [x \in DOMAIN found \cup {ref} |->
            IF x # ref THEN found[x]
            ELSE [l \in known |-> (IF l \in LocatorsIn(b) THEN {b.author} ELSE {}) \cup
                     UNION {found[y][l] : y \in {z \in b.includes : l \in DOMAIN found[z]}}]]

\* finalized_tx_certifying_blocks goes by rounds.
Interpreted ==
    FoldLeft(Interpret, [ref \in {} |-> {}], ByRound(DOMAIN dag))

-----------------------------------------------------------------------------

Init ==
    /\ dag = NoBlocks /\ payload = <<>> /\ submitted = 0
    /\ handler = NewAggregator /\ observer = NewAggregator
    /\ replay = <<>>
    /\ saved = [handler |-> NewAggregator, observer |-> NewAggregator]
    /\ crashes = 0

\* Core::add_blocks with handle_blocks: transactions from clients, then a vote
\* for every range of the block, are logged for the next proposal.
AddBlock(b) ==
    \E n \in 0 .. Min({1, Clients - submitted}) :
        /\ dag' = Stored(b)
        /\ handler' = CountBlock(handler, b)
        /\ payload' = payload \o [k \in 1 .. n |-> Share] \o Response(b)
        /\ submitted' = submitted + n
        /\ replay' = Append(replay, b)
        /\ UNCHANGED <<observer, saved, crashes>>

\* A peer has the same code: it votes for the ranges of every block it has added
\* since its last proposal, as one range or transaction by transaction (the
\* statement Vote), and may leave out one of the latter.
PeerVotes(refs) ==
    LET ranges == UNION {{<<x, r[1], r[2]>> : r \in ToSet(SharedRanges(dag[x]))} : x \in refs}
        whole == {VoteRange(x[1], x[2], x[3]) : x \in ranges}
        single == UNION {{VoteRange(x[1], k, k + 1) : k \in x[2] .. x[3] - 1} : x \in ranges}
    IN  {SetToSeq(whole)} \cup {SetToSeq(single \ {x}) : x \in single \ whole}

\* A block of a peer arrives; what it includes is in the store.
PeerBlock(a) ==
    /\ MayMake(a)
    /\ \E refs \in SUBSET Frontier(DOMAIN dag \ Of(a)) :
       \E votes \in PeerVotes((Past(dag, refs) \ Past(dag, Of(a))) \ Of(a)) :
            AddBlock(NextOf(a, refs, votes))

\* try_new_block with handle_proposal: the own transactions are registered, the
\* own votes are not counted.
Propose ==
    /\ MayMake(Me) /\ payload # <<>>
    /\ \E b \in {NewBlock(Me, Frontier(DOMAIN dag), payload)} :
       \E tally \in {RegisterAll(Tally(handler.pending), b)} :
        /\ dag' = Stored(b)
        /\ handler' = [handler EXCEPT !.pending = tally.pending,
                                      !.strange = @ \cup tally.duplicate]
        /\ replay' = Append(replay, b)
    /\ payload' = <<>>
    /\ UNCHANGED <<submitted, observer, saved, crashes>>

\* Linearizer: the past of a leader that is not yet committed, by round.
SubDag(leader) == ByRound(Past(dag, {leader}) \ observer.counted)

\* write_state, write_commits
Saved(committed) == [handler |-> handler, observer |-> committed]

\* RecoveredStateBuilder::state
Unprocessed == <<>>

\* handle_commit and handle_committed_subdag
Commit ==
    /\ \E leader \in DOMAIN dag \ observer.counted :
       \E refs \in {SubDag(leader)} :
       \E committed \in {CountBlocks(observer, [k \in DOMAIN refs |-> dag[refs[k]]])} :
        /\ observer' = committed
        /\ saved' = Saved(committed)
    /\ replay' = Unprocessed
    /\ UNCHANGED <<dag, payload, submitted, handler, crashes>>

\* What the log rebuilds. Of the certified transactions, those that
\* TransactionLog::run has not written are lost.
Recovered(agg, old, n) == [old EXCEPT !.log = SubSeq(agg.log, 1, n), !.written = n]

\* A crash, and Core::open: the blocks after the last state are handled again,
\* own blocks too. `stored` was being added when the validator crashed: its block
\* is in the log, the payload is not.
CrashAfter(stored) ==
    /\ crashes < Crashes
    /\ crashes' = crashes + 1
    /\ \E blocks \in {replay \o stored}, n \in {handler.written, Len(handler.log)} :
        /\ handler' = CountBlocks(Recovered(handler, saved.handler, n), blocks)
        /\ payload' = payload \o Responses(blocks)
        /\ replay' = blocks
    /\ \E n \in {observer.written, Len(observer.log)} :
        observer' = Recovered(observer, saved.observer, n)
    /\ UNCHANGED <<submitted, saved>>

Crash == CrashAfter(<<>>) /\ UNCHANGED dag

CrashInAddBlocks ==
    \E a \in Authorities \ {Me} :
        /\ MayMake(a)
        /\ \E b \in {NextOf(a, {}, <<>>)} : CrashAfter(<<b>>) /\ dag' = Stored(b)

Done ==
    /\ \A a \in Authorities \ {Me} : ~MayMake(a)
    /\ UNCHANGED vars

Next ==
    \/ \E a \in Authorities \ {Me} : PeerBlock(a)
    \/ Propose \/ Commit \/ Crash \/ CrashInAddBlocks
    \/ Done

Spec == Init /\ [][Next]_vars

-----------------------------------------------------------------------------
(* Properties *)

Transactions == UNION {SharedTransactions(dag[x]) : x \in DOMAIN dag}

VotesFor(b, l) ==
    \E k \in DOMAIN b.statements : /\ b.statements[k] # Share
                                   /\ b.statements[k].block = l[1]
                                   /\ b.statements[k].lo <= l[2] /\ l[2] < b.statements[k].hi

StakeOf(S) == MapThenSumSet(LAMBDA a : Stake[a], S)

\* Who has voted for l in the blocks counted: its author, by sharing it, and
\* the authors of the blocks that vote for it.
Voters(l, counted) == {l[1][1]} \cup {x[1] : x \in {y \in counted : VotesFor(dag[y], l)}}

\* An aggregator that has counted some blocks, and registered the transactions
\* of others, has pending exactly those without a quorum, with exactly their
\* voters and the stake of these, whatever the order, the splitting of ranges
\* and the crashes in between.
Exact(agg, registered) ==
    /\ \A ref \in DOMAIN agg.pending :
        /\ Disjoint(agg.pending[ref]) /\ DOMAIN agg.pending[ref] # {}
        /\ \A lo \in DOMAIN agg.pending[ref] :
               Locators(ref, lo, agg.pending[ref][lo].end) \subseteq Transactions
    /\ \A l \in Transactions :
        \E voters \in {Voters(l, agg.counted)} :
            PendingAt(agg.pending, l) =
                IF l[1] \in registered /\ ~IsQuorum(StakeOf(voters))
                THEN [votes |-> voters, stake |-> StakeOf(voters)]
                ELSE None

\* The block handler counts every block but its own, whose transactions it
\* registers. Own blocks that are handled again after a crash are counted.
HandlerExact ==
    /\ Exact(handler, DOMAIN dag)
    /\ {x \in DOMAIN dag : x[1] # Me} \subseteq handler.counted

\* The commit observer has counted the committed blocks, also after a crash.
ObserverExact == Exact(observer, observer.counted) /\ observer = [saved.observer EXCEPT
                     !.log = observer.log, !.written = observer.written]

\* Whatever is in the logs of certified transactions has a quorum of voters, and
\* once only unless the validator has crashed.
LogsCertified ==
    \A agg \in {handler, observer} :
        /\ \A k \in DOMAIN agg.log : IsQuorum(StakeOf(Voters(agg.log[k], DOMAIN dag)))
        /\ crashes = 0 => IsInjective(agg.log)

\* Both counts are exact, and nothing strange is met while they are made: no
\* transaction is registered twice while it is pending, and no vote is for a
\* transaction that was never registered (where a HashSet is told of certified
\* transactions, as in the tests, it panics at either).
CountsExact ==
    /\ HandlerExact
    /\ ObserverExact
    /\ handler.strange = {} /\ observer.strange = {}

\* Every transaction of a peer's block that was added gets a vote of this
\* validator, in a proposal or among the statements for the next one, also when
\* it crashes after the block is logged and before the votes are.
VotesNotLost ==
    \A l \in Transactions :
        l[1][1] # Me => VotesFor([statements |-> payload], l) \/ \E x \in Of(Me) : VotesFor(dag[x], l)

\* Certificates are sound and the two ways of counting agree: what is logged as
\* certified has a quorum, and a transaction with a certificate among the
\* committed blocks (FinalizationInterpreter) has been certified by the commit observer.
CertificatesAgree ==
    /\ LogsCertified
    /\ \E found \in {Interpreted} :
        \A x \in observer.counted : \A l \in DOMAIN found[x] :
            IsQuorum(StakeOf(found[x][l])) => l \in observer.certified
=============================================================================
