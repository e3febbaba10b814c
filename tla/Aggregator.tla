----------------------------- MODULE Aggregator -----------------------------
(***************************************************************************)
(* committee.rs, types.rs: votes on transactions are counted by stake, for *)
(* ranges of offsets into the block that shares the transactions.          *)
(***************************************************************************)
EXTENDS Naturals, Sequences, FiniteSetsExt, SequencesExt, Functions

CONSTANTS
    Authorities,
    Stake,          \* of every authority
    None            \* Option::None

ASSUME StakeAssumption == Stake \in [Authorities -> Nat \ {0}]

\* Committee: more than two thirds of the stake.
IsQuorum(stake) == stake > (2 * MapThenSumSet(LAMBDA a : Stake[a], Authorities)) \div 3

-----------------------------------------------------------------------------
(* StakeAggregator *)

NoVotes == [votes |-> {}, stake |-> 0]

\* add, with AuthoritySet::insert
Add(aggregator, a) ==
    [votes |-> aggregator.votes \cup {a},
     stake |-> aggregator.stake + IF a \in aggregator.votes THEN 0 ELSE Stake[a]]

\* The mutation functions of register and of vote.
Registers(a) == [kind |-> "register", by |-> a]
Votes(a) == [kind |-> "vote", by |-> a]

Counted(op, aggregator) ==
    CASE op.kind = "register" -> IF aggregator = None THEN Add(NoVotes, op.by) ELSE aggregator
      [] aggregator = None -> None
      [] IsQuorum(Add(aggregator, op.by).stake) -> None
      [] OTHER -> Add(aggregator, op.by)

INSTANCE RangeMap WITH Mutated <- Counted

-----------------------------------------------------------------------------
(* Blocks: a record of author, round, includes and statements. A statement *)
(* shares a transaction or votes for a range of a block's transactions.    *)

Share == [kind |-> "share"]
VoteRange(ref, lo, hi) == [kind |-> "vote", block |-> ref, lo |-> lo, hi |-> hi]

Reference(b) == <<b.author, b.round>>
Locator(ref, offset) == <<ref, offset>>
Locators(ref, lo, hi) == {Locator(ref, k) : k \in lo .. hi - 1}

SharedOffsets(b) == {k - 1 : k \in {j \in DOMAIN b.statements : b.statements[j] = Share}}
SharedTransactions(b) == {Locator(Reference(b), k) : k \in SharedOffsets(b)}

\* shared_ranges with VoteRangeBuilder: the maximal runs of transactions.
SharedRanges(b) ==
    LET starts == {k \in SharedOffsets(b) : k = 0 \/ k - 1 \notin SharedOffsets(b)}
        end(k) == Min({j \in k + 1 .. Len(b.statements) : j \notin SharedOffsets(b)})
    IN  [i \in 1 .. Cardinality(starts) |->
            LET k == SetToSortSeq(starts, <)[i] IN <<k, end(k)>>]

-----------------------------------------------------------------------------
(* TransactionAggregator: pending ranges by block, and what the handler is *)
(* told: the transactions certified, those registered twice, and those     *)
(* voted for that are not pending.                                         *)

Tally(pending) == [pending |-> pending, processed |-> <<>>, duplicate |-> {}, unknown |-> {}]

NoPending == [ref \in {} |-> NoRanges]

RangesOf(pending, ref) == IF ref \in DOMAIN pending THEN pending[ref] ELSE NoRanges

PendingAt(pending, l) == ValueAt(RangesOf(pending, l[1]), l[2])

\* A block without pending transactions has no entry.
WithRanges(pending, ref, m) ==
    IF DOMAIN m = {} THEN Restrict(pending, DOMAIN pending \ {ref})
    ELSE [r \in DOMAIN pending \cup {ref} |-> IF r = ref THEN m ELSE pending[r]]

Register(tally, ref, lo, hi, by) ==
    LET m == MutateRange(RangesOf(tally.pending, ref), lo, hi, Registers(by))
    IN  [tally EXCEPT
            !.pending = WithRanges(@, ref, m),
            !.duplicate = @ \cup {l \in Locators(ref, lo, hi) :
                                    PendingAt(tally.pending, l) # None}]

Vote(tally, ref, lo, hi, by) ==
    LET m == MutateRange(RangesOf(tally.pending, ref), lo, hi, Votes(by))
        known == {k \in lo .. hi - 1 : PendingAt(tally.pending, Locator(ref, k)) # None}
        done == SetToSortSeq({k \in known : ValueAt(m, k) = None}, <)
    IN  [tally EXCEPT
            !.pending = WithRanges(@, ref, m),
            !.processed = @ \o [i \in DOMAIN done |-> Locator(ref, done[i])],
            !.unknown = @ \cup {Locator(ref, k) : k \in (lo .. hi - 1) \ known}]

RegisterAll(tally, b) ==
    FoldLeft(LAMBDA t, r : Register(t, Reference(b), r[1], r[2], b.author),
             tally, SharedRanges(b))

\* process_block
ProcessBlock(pending, b) ==
    FoldLeft(LAMBDA t, s : IF s = Share THEN t ELSE Vote(t, s.block, s.lo, s.hi, b.author),
             RegisterAll(Tally(pending), b), b.statements)

\* The votes that process_block responds with.
Response(b) ==
    [i \in DOMAIN SharedRanges(b) |->
        VoteRange(Reference(b), SharedRanges(b)[i][1], SharedRanges(b)[i][2])]
=============================================================================
