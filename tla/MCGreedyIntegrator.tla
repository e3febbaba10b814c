------------------------- MODULE MCGreedyIntegrator -------------------------
(* GreedyIntegrator on two or four small blocks. *)
EXTENDS GreedyIntegrator

\* Two contested keys, read or written besides the account of the transaction's own sender.
x == 1
y == 2
Sender(n, replica) == 10 * replica + n

AccessSets == {<<{}, {x}>>, <<{}, {y}>>, <<{x}, {y}>>, <<{x}, {}>>}

\* Each kind is a cost with the sets read and written.
BlockOf(kinds, replica) ==
    BuildGraph([n \in DOMAIN kinds |->
        TransactionNode(<<n - 1, replica>>, kinds[n][1], kinds[n][2][1],
                        kinds[n][2][2] \cup {Sender(n, replica)})])

TwoThreads == 1 .. 2

\* Two blocks of two transactions, and four of one: what may be shared is in the first
\* ones, what must be removed from the list in the second ones.
TwoBlocks(costs) ==
    {<<BlockOf(a, 1), BlockOf(b, 2)>> :
        a \in [1 .. 2 -> costs \X AccessSets], b \in [1 .. 2 -> {1} \X AccessSets]}

FourBlocks ==
    {[r \in 1 .. 4 |-> BlockOf(<<<<1, b[r]>>>>, r)] :
        b \in [1 .. 4 -> {<<{}, {x}>>, <<{x}, {y}>>}]}

AllInputs == TwoBlocks(0 .. 2) \cup FourBlocks
FewInputs == TwoBlocks({1})
=============================================================================
