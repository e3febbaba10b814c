-------------------------- MODULE MCCommitSequence --------------------------
(***************************************************************************)
(* Four authorities of equal stake, one of them (authority 1, the leader   *)
(* of round 1) faulty: it makes two blocks in round 1, two in round 2 (one *)
(* votes for its first leader block, one for none) and stops after round   *)
(* 3. The blocks of the honest authorities 0 and 2 differ in what they     *)
(* include where it matters for the leader of round 1: in its voting round *)
(* (2), its decision round (3) and, for 0, at its anchor (round 4).        *)
(***************************************************************************)
EXTENDS CommitSequence

CONSTANT MaxRound

Faulty == 1

Honest == Authorities \ {Faulty}

EqualStake == [a \in Authorities |-> 1]

\* The sets of authorities whose previous blocks this block includes.
Sources(b) ==
    CASE b.round = 1 -> {Authorities}
      [] b.round = 2 /\ b.authority = Faulty ->
            {IF b.digest = 0 THEN Authorities ELSE Honest}
      [] b.round = 2 /\ b.authority = 3 -> {Authorities}
      [] b.round = 2 -> {Authorities, Honest}
      [] b.round = 3 /\ b.authority \in {Faulty, 3} -> {Authorities \ {0}}
      [] b.round = 3 /\ b.authority = 2 -> {Authorities \ {o} : o \in {0, 1}}
      [] b.round = 3 -> {Authorities \ {o} : o \in {1, 2, 3}}
      [] b.round = 4 /\ b.authority = 0 -> {Authorities \ {o} : o \in {2, 3}}
      [] OTHER -> {Honest}

\* The blocks that this block may include from these sources: only the
\* authorities 0 and 2 may see the second leader block.
Visible(d, b, a) ==
    {x \in BlocksAt(d, a, b.round - 1) :
        b.round = 2 /\ x.digest = 1 => b.authority \in {0, 2}}

\* One block of each source, the author's own first; only the faulty authority has
\* more than one to choose from.
IncludeSeqs(d, b) ==
    UNION {
        LET order == SelectSeq(<<b.authority>> \o
                SelectSeq(<<0, 1, 2, 3>>, LAMBDA a : a # b.authority),
                LAMBDA a : a \in S)
        IN  {[i \in DOMAIN order |->
                IF order[i] = Faulty THEN twin
                ELSE CHOOSE x \in Visible(d, b, order[i]) : TRUE] :
                twin \in IF Faulty \in S THEN Visible(d, b, Faulty) ELSE {NoBlock}} :
        S \in {T \in Sources(b) : \A a \in T : Visible(d, b, a) # {}}}

\* What an authority may make next in a round: honest authorities make one
\* block; in the rounds where they all include the same they come in order.
Makes(d, a, r) ==
    LET made == Cardinality(BlocksAt(d, a, r))
    IN  /\ made < IF a # Faulty THEN 1 ELSE <<2, 2, 1, 0, 0, 0>>[r]
        /\ \/ r \in {2, 3}
           \/ \A h \in Honest : h < a => BlocksAt(d, h, r) # {}

MCCandidates(d) ==
    UNION {
        LET b == Ref(a, r, Cardinality(BlocksAt(d, a, r)))
        IN  IF Makes(d, a, r)
            THEN {[block |-> b, includes |-> s] : s \in IncludeSeqs(d, b)}
            ELSE {} :
        <<a, r>> \in Authorities \X (1 .. MaxRound)}
=============================================================================
