----------------------------- MODULE Committer -----------------------------
(***************************************************************************)
(* The commit rule of mysticeti: how one validator turns the DAG of blocks *)
(* it has stored into a sequence of committed leaders and that sequence    *)
(* into a sequence of blocks (consensus/base_committer.rs,                 *)
(* consensus/universal_committer.rs, consensus/linearizer.rs).             *)
(*                                                                         *)
(* The rule is stateless but for the last committed leader and the set of  *)
(* blocks already linearised: it is written as operators of the DAG.       *)
(***************************************************************************)
EXTENDS Naturals, Sequences, FiniteSets, SequencesExt

CONSTANTS
    CommitteeSize,      \* number of authorities, 0 .. CommitteeSize - 1
    Stake,              \* the stake of every authority
    WaveLength,         \* BaseCommitterOptions::wave_length
    NumberOfLeaders,    \* leaders per leader round
    Pipeline            \* one base committer per round of the wave?

Authorities == 0 .. CommitteeSize - 1

ASSUME CommitteeAssumption ==
    /\ CommitteeSize \in Nat \ {0}
    /\ Stake \in [Authorities -> Nat \ {0}]

\* base_committer.rs asserts it in with_options
ASSUME WaveAssumption == WaveLength \in Nat /\ WaveLength >= 3

ASSUME LeadersAssumption ==
    NumberOfLeaders \in 1 .. CommitteeSize /\ Pipeline \in BOOLEAN

-----------------------------------------------------------------------------
(* The committee: thresholds and leaders. *)

StakeOf(S) == SumFunctionOnSet(Stake, S)

QuorumThreshold == (2 * StakeOf(Authorities)) \div 3

ValidityThreshold == StakeOf(Authorities) \div 3

\* The sets of voters for which a StakeAggregator reports its threshold.
Quorums == {S \in SUBSET Authorities : StakeOf(S) > QuorumThreshold}

Valids == {S \in SUBSET Authorities : StakeOf(S) > ValidityThreshold}

-----------------------------------------------------------------------------
(* The DAG: a function from block references to the sequence of references *)
(* the block includes. Two blocks of one authority and round differ in     *)
(* their digest.                                                           *)

Ref(authority, round, digest) ==
    [authority |-> authority, round |-> round, digest |-> digest]

Genesis == [b \in {Ref(a, 0, 0) : a \in Authorities} |-> <<>>]

RoundBlocks(dag, round) == {b \in DOMAIN dag : b.round = round}

BlocksAt(dag, authority, round) ==
    {b \in DOMAIN dag : b.authority = authority /\ b.round = round}

HighestRound(dag) == Max({b.round : b \in DOMAIN dag})

\* StatementBlock::verify: what a block of this round may include.
ThresholdClockValid(round, includes) ==
    /\ \A i \in DOMAIN includes : includes[i].round < round
    /\ {b.authority : b \in {x \in ToSet(includes) : x.round = round - 1}}
            \in Quorums

\* Is there a chain of includes from later to earlier that visits every round
\* in between?
Linked(dag, later, earlier) ==
    LET parents[r \in earlier.round .. later.round] ==
            IF r = later.round
            THEN {later}
            ELSE LET above == parents[r + 1]
                 IN  {b \in RoundBlocks(dag, r) :
                         \E x \in above : b \in ToSet(dag[x])}
    IN  earlier.round <= later.round /\ earlier \in parents[earlier.round]

-----------------------------------------------------------------------------
(* BaseCommitter *)

\* The base committers, in the order UniversalCommitterBuilder::build makes
\* them: leader offsets within round offsets.
Committers ==
    LET stages == IF Pipeline THEN WaveLength ELSE 1
    IN  [k \in 1 .. stages * NumberOfLeaders |->
            [round_offset  |-> (k - 1) \div NumberOfLeaders,
             leader_offset |-> (k - 1) % NumberOfLeaders]]

WaveNumber(c, round) ==
    (IF round < c.round_offset THEN 0 ELSE round - c.round_offset)
        \div WaveLength

LeaderRound(c, wave) == wave * WaveLength + c.round_offset

DecisionRound(c, wave) == wave * WaveLength + WaveLength - 1 + c.round_offset

HasLeader(c, round) == LeaderRound(c, WaveNumber(c, round)) = round

ElectLeader(c, round) == (round + c.leader_offset) % CommitteeSize

NoBlock == Ref(CommitteeSize, 0, 0)

\* For every block, the block of the authority and round that it supports: the
\* first one met in a depth-first walk of its includes.
FindSupport(dag, authority, round) ==
    LET find[b \in DOMAIN dag] ==
            LET found == [i \in DOMAIN dag[b] |->
                    LET x == dag[b][i]
                    IN  IF x.round < round THEN NoBlock
                        ELSE IF x.authority = authority /\ x.round = round
                        THEN x
                        ELSE find[x]]
                hits == SelectSeq(found, LAMBDA x : x # NoBlock)
            IN  IF b.round < round \/ hits = <<>> THEN NoBlock ELSE Head(hits)
    IN  find

\* Faulty: any block of the leader and the round will do.
IsVoteAny(support, vote, leader) == support[vote] # NoBlock

\* Does the vote support this very block? support is FindSupport's answer for
\* the leader's authority and round.
IsVote(support, vote, leader) == support[vote] = leader

IsCertificate(dag, certificate, leader) ==
    LET support == FindSupport(dag, leader.authority, leader.round)
    IN  {v.authority : v \in {x \in ToSet(dag[certificate]) :
                                 IsVote(support, x, leader)}} \in Quorums

Status(kind, authority, round, block) ==
    [kind |-> kind, authority |-> authority, round |-> round, block |-> block]

Commit(b) == Status("Commit", b.authority, b.round, b)

Skip(authority, round) == Status("Skip", authority, round, NoBlock)

Undecided(authority, round) == Status("Undecided", authority, round, NoBlock)

\* Two certified blocks of one leader: the code panics.
Panic(authority, round) == Status("Panic", authority, round, NoBlock)

IsDecided(status) == status.kind \in {"Commit", "Skip"}

\* The outcome when these leader blocks satisfy a commit rule.
Certified(blocks, authority, round, otherwise) ==
    IF Cardinality(blocks) > 1 THEN Panic(authority, round)
    ELSE IF blocks = {} THEN otherwise
    ELSE Commit(CHOOSE b \in blocks : TRUE)

DecideLeaderFromAnchor(dag, c, anchor, leader, round) ==
    LET decision  == DecisionRound(c, WaveNumber(c, round))
        potential == {b \in RoundBlocks(dag, decision) :
                         Linked(dag, anchor, b)}
        certified == {l \in BlocksAt(dag, leader, round) :
                         \E p \in potential : IsCertificate(dag, p, l)}
    IN  Certified(certified, leader, round, Skip(leader, round))

\* Blame counted with the validity threshold.
EnoughLeaderBlameWeak(dag, voting, leader) ==
    {v.authority : v \in {x \in RoundBlocks(dag, voting) :
        \A i \in DOMAIN dag[x] : dag[x][i].authority # leader}} \in Valids

EnoughLeaderBlame(dag, voting, leader) ==
    {v.authority : v \in {x \in RoundBlocks(dag, voting) :
        \A i \in DOMAIN dag[x] : dag[x][i].authority # leader}} \in Quorums

EnoughLeaderSupport(dag, decision, leader) ==
    {d.authority : d \in {x \in RoundBlocks(dag, decision) :
                             IsCertificate(dag, x, leader)}} \in Quorums

\* The first leader of a later wave that is not skipped decides.
TryIndirectDecide(dag, c, leader, round, leaders) ==
    LET anchors == {k \in DOMAIN leaders :
                       /\ round + WaveLength <= leaders[k].round
                       /\ leaders[k].kind # "Skip"}
        anchor  == leaders[Min(anchors)]
    IN  IF anchors # {} /\ anchor.kind = "Commit"
        THEN DecideLeaderFromAnchor(dag, c, anchor.block, leader, round)
        ELSE Undecided(leader, round)

TryDirectDecide(dag, c, leader, round) ==
    IF EnoughLeaderBlame(dag, round + 1, leader)
    THEN Skip(leader, round)
    ELSE Certified({l \in BlocksAt(dag, leader, round) :
                       EnoughLeaderSupport(dag,
                           DecisionRound(c, WaveNumber(c, round)), l)},
                   leader, round, Undecided(leader, round))

-----------------------------------------------------------------------------
(* UniversalCommitter::try_commit *)

\* The leader slots from one round to another, in commit order.
Slots(from, to) ==
    LET count == Len(Committers)
        all == [k \in 1 .. (to + 1 - from) * count |->
                   [round     |-> from + (k - 1) \div count,
                    committer |-> Committers[((k - 1) % count) + 1]]]
    IN  SelectSeq(all, LAMBDA s : HasLeader(s.committer, s.round))

\* The status of every slot, decided from the last slot back to the first.
Leaders(dag, from) ==
    LET slots == Slots(from, HighestRound(dag))
        decide[k \in 1 .. Len(slots) + 1] ==
            IF k > Len(slots) THEN <<>>
            ELSE LET later  == decide[k + 1]
                     round  == slots[k].round
                     c      == slots[k].committer
                     leader == ElectLeader(c, round)
                     direct == TryDirectDecide(dag, c, leader, round)
                 IN  later @@
                     (k :> IF direct.kind # "Undecided" THEN direct
                           ELSE TryIndirectDecide(dag, c, leader, round, later))
    IN  decide[1]

\* The leaders after the last decided one, up to the first undecided one.
DecidedAfter(leaders, last) ==
    LET at    == {i \in DOMAIN leaders :
                     /\ leaders[i].round = last.round
                     /\ leaders[i].authority = last.authority}
        rest  == IF at = {} THEN <<>>
                 ELSE SubSeq(leaders,
                             1 + CHOOSE i \in at : \A j \in at : i <= j,
                             Len(leaders))
        later == SelectSeq(rest, LAMBDA s : s.round > 0)
        stop  == {i \in DOMAIN later : ~IsDecided(later[i])}
    IN  IF stop = {} THEN later
        ELSE SubSeq(later, 1, (CHOOSE i \in stop : \A j \in stop : i <= j) - 1)

\* Core::try_commit keeps the committed leaders of the decided ones.
CommittedLeaders(dag, last) ==
    LET decided == SelectSeq(DecidedAfter(Leaders(dag, last.round), last),
                             LAMBDA s : s.kind = "Commit")
    IN  [i \in DOMAIN decided |-> decided[i].block]

-----------------------------------------------------------------------------
(* Linearizer *)

\* One turn of the loop of collect_sub_dag: pop a block, push what it includes
\* and nobody committed.
Visit(dag, s) ==
    IF s.buffer = <<>> THEN s
    ELSE LET x   == Last(s.buffer)
             new == SelectSeq(dag[x], LAMBDA b : b \notin s.committed)
         IN  [buffer    |-> Front(s.buffer) \o new,
              committed |-> s.committed \cup ToSet(new),
              to_commit |-> Append(s.to_commit, x)]

\* No block is visited twice.
CollectSubDag(dag, committed, leader) ==
    LET turns == Cardinality((DOMAIN dag \ committed) \cup {leader})
        walk[i \in 0 .. turns] ==
            IF i = 0
            THEN [buffer    |-> <<leader>>,
                  committed |-> committed \cup {leader},
                  to_commit |-> <<>>]
            ELSE Visit(dag, walk[i - 1])
    IN  walk[turns]

\* The sub-dag is left in the order of the walk.
SortNot(dag, blocks) == blocks

\* CommittedSubDag::sort, a stable sort by round.
SortByRound(dag, blocks) ==
    FlattenSeq([r \in 1 .. HighestRound(dag) + 1 |->
                   SelectSeq(blocks, LAMBDA b : b.round = r - 1)])

\* Linearizer::handle_commit: the sub-dags of these leaders, in order.
HandleCommit(dag, committed, leaders) ==
    LET handle[i \in 0 .. Len(leaders)] ==
            IF i = 0
            THEN [committed |-> committed, sub_dags |-> <<>>]
            ELSE LET before == handle[i - 1]
                     walk   == CollectSubDag(dag, before.committed, leaders[i])
                 IN  [committed |-> walk.committed,
                      sub_dags  |-> Append(before.sub_dags,
                          [anchor |-> leaders[i],
                           blocks |-> SortByRound(dag, walk.to_commit)])]
    IN  handle[Len(leaders)]

=============================================================================
