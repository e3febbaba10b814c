--------------------------- MODULE CommitSequence ---------------------------
(***************************************************************************)
(* The commits of one validator. Its DAG grows block by block, in any      *)
(* causal order, because a block enters the store only when everything it  *)
(* includes is stored. The validator runs the commit rule at any moment,   *)
(* as Syncer::try_new_block does whenever it has made a block of its own.  *)
(*                                                                         *)
(* Two validators that follow the protocol differ in the order in which    *)
(* their DAGs grow and in the moments at which they commit. What the log   *)
(* may be compared with is therefore the log of a validator that has the   *)
(* same DAG and commits for the first time (FreshLog): if every log is a   *)
(* prefix of it, whatever the past, then no two validators commit          *)
(* differently, and a validator that restarts without its commits (they    *)
(* are not persisted when the EVM executor is enabled) repeats them.       *)
(***************************************************************************)
EXTENDS Committer

CONSTANT Candidates(_)  \* the blocks that may be received next, given a DAG

VARIABLES
    dag,        \* BlockStore: the stored blocks and their includes
    last,       \* Core::last_commit_leader
    committed,  \* Linearizer::committed
    log         \* every CommittedSubDag handed to the commit observer, in order

cvars == <<dag, last, committed, log>>

\* BlockReference::default()
DefaultReference == Ref(0, 0, 0)

CommitInit ==
    /\ dag = Genesis
    /\ last = DefaultReference
    /\ committed = {}
    /\ log = <<>>

\* A verified block whose includes are all stored enters the store.
AddBlock ==
    /\ \E c \in Candidates(dag) :
        /\ c.block \notin DOMAIN dag
        /\ ThresholdClockValid(c.block.round, c.includes)
        /\ ToSet(c.includes) \subseteq DOMAIN dag
        /\ dag' = [b \in DOMAIN dag \cup {c.block} |->
                      IF b = c.block THEN c.includes ELSE dag[b]]
    /\ UNCHANGED <<last, committed, log>>

\* Core::try_commit and CommitObserver::handle_commit.
TryCommit ==
    \E leaders \in {CommittedLeaders(dag, last)} :
    \E handled \in {HandleCommit(dag, committed, leaders)} :
        /\ last' = IF leaders = <<>> THEN last ELSE Last(leaders)
        /\ committed' = handled.committed
        /\ log' = log \o handled.sub_dags
        /\ UNCHANGED dag

CommitNext == AddBlock \/ TryCommit

CommitSpec == CommitInit /\ [][CommitNext]_cvars

-----------------------------------------------------------------------------

\* What a validator with this DAG commits when it has committed nothing yet.
FreshLog ==
    HandleCommit(dag, {}, CommittedLeaders(dag, DefaultReference)).sub_dags

\* Agreement. Whatever the order in which the blocks arrived and whenever the
\* validator committed before, its commits are the first commits of a
\* validator that sees the same DAG for the first time: a leader once
\* committed or passed over keeps its fate when late votes, certificates and
\* equivocating blocks arrive (UniversalCommitter::try_commit with any
\* last_decided, Linearizer::handle_commit with any committed set).
CommitsAgree ==
    LET fresh == FreshLog
    IN  \A i \in DOMAIN log : i \in DOMAIN fresh /\ log[i] = fresh[i]

\* The two panics of the base committer, "More than one certified block",
\* need two blocks of one leader with a quorum of votes each: they are out of
\* reach with less than a third of the stake faulty.
OneCertifiedLeader ==
    \A s \in ToSet(Leaders(dag, 0)) : s.kind # "Panic"

\* The linearised sequence delivers a block at most once and after everything
\* it includes, across sub-dags too (Linearizer::collect_sub_dag,
\* CommittedSubDag::sort).
DeliveredCausally ==
    LET delivered == FlattenSeq([i \in DOMAIN log |-> log[i].blocks])
    IN  \A i \in DOMAIN delivered :
            LET before == {delivered[j] : j \in 1 .. i - 1}
            IN  /\ delivered[i] \notin before
                /\ ToSet(dag[delivered[i]]) \subseteq before
=============================================================================
