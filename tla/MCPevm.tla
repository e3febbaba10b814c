------------------------------- MODULE MCPevm -------------------------------
(* Small blocks for Pevm. *)
EXTENDS Pevm, TLC

Account(b, n) == [bal |-> b, nonce |-> n]
Slot(v) == MemoryValue("Absolute", v, 0)
Call(slots) == [caller |-> NoLoc, to |-> NoLoc, code |-> NoLoc, raw |-> FALSE,
                value |-> 0, nonce |-> 0, slots |-> slots]
Transfer(from, to, value, nonce) ==
    [caller |-> from, to |-> to, code |-> NoLoc, raw |-> TRUE,
     value |-> value, nonce |-> nonce, slots |-> <<>>]

WorkerSymmetry == Permutations(Workers)

AllLocations == {"x", "y", "C", "A", "B", "K"}
StorageWith(l, account) == [m \in AllLocations |-> IF m = l THEN account ELSE Account(0, 0)]

\* Contract calls: the first writes x, the second writes y where x sends it
\* (a write set that changes from one incarnation to the next), the third reads both.
Calls ==
    [txs |-> [t \in Txs |-> CASE t = 0 -> Call(<<>>)
                              [] t = 1 -> Call(<<"x">>)
                              [] OTHER -> Call(<<"x", "y">>)],
     storage |-> StorageWith("x", Account(0, 0))]

\* Transfers: the second spends what the first sends, so it waits for it unless
\* both are lazy; the third, a call by A, walks over the lazy updates of A
\* and of the beneficiary, whose balance it writes to x.
Transfers ==
    [txs |-> [t \in Txs |->
                CASE t = 0 -> Transfer("A", "B", 2, 0)
                  [] t = 1 -> Transfer("B", "A", 1, 0)
                  [] OTHER -> [Call(<<"C">>) EXCEPT !.caller = "A", !.nonce = 1]],
     storage |-> StorageWith("A", Account(5, 0))]

\* Self-destruction: the first transaction destroys the contract K that the others call.
Destroy ==
    [txs |-> [t \in Txs |-> IF t = 0 THEN Call(<<>>)
                            ELSE [Call(<<"x">>) EXCEPT !.code = "K", !.raw = TRUE]],
     storage |-> StorageWith("K", Account(1, 0))]

AllBlocks == [name \in {"calls", "transfers", "destroy"} |->
    CASE name = "calls" -> Calls [] name = "transfers" -> Transfers [] OTHER -> Destroy]
CallsOnly == [name \in {"calls"} |-> Calls]

BlockEffects(name, t, vals) ==
    CASE name = "calls" /\ t = 0 -> One("x", Slot(1))
      [] name = "calls" /\ t = 1 ->
            IF vals["x"].bal = 0 THEN One("x", Slot(5)) ELSE One("y", Slot(2))
      [] name = "calls" -> One("y", Slot(vals["x"].bal + 2 * vals["y"].bal))
      [] name = "transfers" -> One("x", Slot(vals["C"].bal))
      [] t = 0 -> One("K", MemoryValue("SelfDestructed", 0, 0))
      [] OTHER -> One("x", Slot(1))
=============================================================================
