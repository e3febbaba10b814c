---------------------------- MODULE BlockLoader ----------------------------
(***************************************************************************)
(* Blocks of a real chain, run again.  A block file has the transactions   *)
(* of a block and, for each, the accounts it touched as they were before   *)
(* it.  The loader merges these into one storage for several blocks, the   *)
(* integrator puts their transactions into an order of its own, and        *)
(* NonceTracker gives them the nonces of that order.                       *)
(*                                                                         *)
(* The chain itself is outside the program: accounts have a balance, a     *)
(* nonce, code and slots, and a transaction sends one unit, to an account  *)
(* (whose code, if any, counts the call in its slot), to a new contract,   *)
(* or with an authorization that an account be given code (EIP-7702).      *)
(***************************************************************************)
EXTENDS Integers, Sequences, SequencesExt, FiniteSetsExt, Functions

CONSTANTS
    Origins,         \* the states of the chain before the first block
    Senders,         \* the accounts that send and are authorities
    Callees,         \* the accounts that are called
    NewContract,     \* the address of the contract a transaction creates
    HugeBalance,     \* huge_balance
    MaxTxs           \* bound: transactions in all blocks

ASSUME FundsAssumption == HugeBalance >= MaxTxs

Absent == -1                    \* None, of a number
NoCode == "none"
Null == "null"
NoPrestate == [a \in {} |-> 0]
Slot == "s"

VARIABLES
    loaderPc,                   \* "off", "history", "loaded" or "replay"
    origin, chain,              \* the chain before the first block and after the last
    blocks,                     \* the block files: sequences of [tx, prestate]
    merged,                     \* the storage of create_multi_block_storage
    nonces,                     \* NonceTracker
    order, integrated,          \* the order of the integrator, the transactions in it
    replayDb, replayPos         \* the storage of the replay, the next transaction; 0 at an error
loaderVars ==
    <<loaderPc, origin, chain, blocks, merged, nonces, order, integrated, replayDb, replayPos>>

LoaderOff ==
    /\ loaderPc = "off" /\ origin = NoPrestate /\ chain = NoPrestate /\ blocks = <<>>
    /\ merged = NoPrestate /\ nonces = NoPrestate /\ order = <<>> /\ integrated = <<>>
    /\ replayDb = NoPrestate /\ replayPos = 1

LoaderInit ==
    /\ loaderPc = "history" /\ origin \in Origins /\ chain = origin /\ blocks = <<<<>>>>
    /\ merged = NoPrestate /\ nonces = NoPrestate /\ order = <<>> /\ integrated = <<>>
    /\ replayDb = NoPrestate /\ replayPos = 1

-----------------------------------------------------------------------------
(* The virtual machine, and the node that traced the chain.                  *)

Empty == [balance |-> 0, nonce |-> 0, code |-> NoCode, slots |-> [h \in {} |-> 0]]
Known(db, a) == IF a \in DOMAIN db THEN db[a] ELSE Empty
SlotOf(account) == IF Slot \in DOMAIN account.slots THEN account.slots[Slot] ELSE 0
Put(db, a, account) == [x \in DOMAIN db \cup {a} |-> IF x = a THEN account ELSE db[x]]

Target(tx) == IF tx.create THEN NewContract ELSE tx.to
Authorities(tx) == {tx.auths[i].authority : i \in DOMAIN tx.auths}
Touched(tx) == {tx.caller, Target(tx)} \cup Authorities(tx)

Valid(db, tx) == tx.nonce = Known(db, tx.caller).nonce /\ Known(db, tx.caller).balance >= 1

\* An authorization of the authority's present nonce raises it; any other is passed over.
Authorize(db, auth) ==
    LET account == Known(db, auth.authority)
    IN IF account.nonce # auth.nonce \/ account.code \notin {NoCode, "delegated"} THEN db
       ELSE Put(db, auth.authority, [account EXCEPT !.nonce = @ + 1, !.code = "delegated"])

Called(account) ==
    IF account.code = "counter"
    THEN [account EXCEPT !.slots = Slot :> (SlotOf(account) + 1)] ELSE account

Run(db, tx) ==
    LET sent == Put(db, tx.caller, [Known(db, tx.caller) EXCEPT !.nonce = @ + 1, !.balance = @ - 1])
        bumped == FoldLeft(Authorize, sent, tx.auths)
        to == [Known(bumped, Target(tx)) EXCEPT !.balance = @ + 1]
    IN Put(bumped, Target(tx),
           IF ~tx.create THEN Called(to)
           ELSE IF to.code = NoCode THEN [to EXCEPT !.code = "counter"] ELSE to)

\* What a node's prestate tracer says of the accounts a transaction touches: zero nonces,
\* no code and no slots are left out.
Traced(db, tx) ==
    [a \in Touched(tx) |->
        LET account == Known(db, a)
        IN [balance |-> account.balance,
            nonce |-> IF account.nonce = 0 THEN Absent ELSE account.nonce,
            code |-> account.code,
            slots |-> IF a = Target(tx) /\ account.code = "counter"
                      THEN Slot :> SlotOf(account) ELSE [h \in {} |-> 0]]]

\* A transaction without an authorization goes anywhere, one with a (valid) authorization to
\* the account that is given code; by then the sender's own nonce has been raised.
ChainTxs ==
    LET Sent(a, to, auths) ==
            [caller |-> a, nonce |-> Known(chain, a).nonce, create |-> to = NewContract,
             to |-> to, auths |-> auths]
    IN {Sent(a, to, <<>>) : a \in Senders, to \in Callees \cup {NewContract}}
       \cup {Sent(a, to, <<[authority |-> to, nonce |-> Known(chain, to).nonce
                                                        + IF to = a THEN 1 ELSE 0]>>) :
                a \in Senders, to \in Senders}

\* A transaction as the node writes it into a block file.
Json(tx) ==
    [type |-> IF tx.auths = <<>> THEN 2 ELSE 4, from |-> tx.caller, nonce |-> tx.nonce,
     to |-> IF tx.create THEN Null ELSE tx.to, authorizationList |-> tx.auths]

Size == FoldLeft(LAMBDA n, b : n + Len(b), 0, blocks)

\* The chain takes a transaction into its last block, or begins the next.
ChainTx ==
    /\ loaderPc = "history" /\ Size < MaxTxs
    /\ \E tx \in ChainTxs :
          /\ Valid(chain, tx)
          /\ chain' = Run(chain, tx)
          /\ blocks' = [blocks EXCEPT ![Len(blocks)] =
                            Append(@, [tx |-> Json(tx), prestate |-> Traced(chain, tx)])]
    /\ UNCHANGED <<loaderPc, origin, merged, nonces, order, integrated, replayDb, replayPos>>
ChainBlock ==
    /\ loaderPc = "history" /\ Len(blocks) = 1 /\ blocks[1] # <<>> /\ Size < MaxTxs
    /\ blocks' = Append(blocks, <<>>)
    /\ UNCHANGED <<loaderPc, origin, chain, merged, nonces, order, integrated, replayDb, replayPos>>

-----------------------------------------------------------------------------
(* The block files, parsed and merged.  Their prestate is a list with an      *)
(* element per transaction; the one of a whole block is not modelled.         *)

\* parse_transaction: no receiver is a creation, and the authorizations of a set-code
\* transaction are carried along.
ParseTransaction(tx) ==
    [caller |-> tx.from, nonce |-> tx.nonce, create |-> tx.to = Null, to |-> tx.to,
     auths |-> IF tx.type = 4 THEN tx.authorizationList ELSE <<>>]
TransactionsToTxenvs(block) == [i \in DOMAIN block |-> ParseTransaction(block[i].tx)]

NoAccount == [balance |-> Absent, nonce |-> Absent, code |-> NoCode, slots |-> [h \in {} |-> 0]]

\* The fields and slots entry does not have yet, from new.
Filled(entry, new) ==
    [balance |-> IF entry.balance = Absent THEN new.balance ELSE entry.balance,
     nonce |-> IF entry.nonce = Absent THEN new.nonce ELSE entry.nonce,
     code |-> IF entry.code = NoCode THEN new.code ELSE entry.code,
     slots |-> entry.slots @@ new.slots]

\* merge_account_into, for all accounts of a prestate.
MergeAccountsInto(into, prestate) ==
    [a \in DOMAIN into \cup DOMAIN prestate |->
        IF a \notin DOMAIN prestate THEN into[a]
        ELSE Filled(IF a \in DOMAIN into THEN into[a] ELSE NoAccount, prestate[a])]

\* merge_transaction_prestates: a nonce that is not there is zero.
MergeTransactionPrestates(block) ==
    LET Prestate(i) == [a \in DOMAIN block[i].prestate |->
                            LET account == block[i].prestate[a]
                            IN [account EXCEPT !.nonce = IF @ = Absent THEN 0 ELSE @]]
    IN FoldLeft(MergeAccountsInto, NoPrestate, [i \in DOMAIN block |-> Prestate(i)])

\* merge_multiple_blocks_prestates.
MergeMultipleBlocksPrestates(files) ==
    FoldLeft(MergeAccountsInto, NoPrestate,
             [i \in DOMAIN files |-> MergeTransactionPrestates(files[i])])

OrZero(n) == IF n = Absent THEN 0 ELSE n

\* prestate_to_storage: the storage of one block.
PrestateToStorage(block) ==
    LET prestate == MergeTransactionPrestates(block)
    IN [a \in DOMAIN prestate |->
            [prestate[a] EXCEPT !.balance = OrZero(@), !.nonce = OrZero(@)]]

\* create_multi_block_storage: everybody is rich.
CreateMultiBlockStorage(files) ==
    LET prestate == MergeMultipleBlocksPrestates(files)
    IN [a \in DOMAIN prestate |->
            [prestate[a] EXCEPT !.balance = Max({OrZero(@), HugeBalance}), !.nonce = OrZero(@)]]

-----------------------------------------------------------------------------
(* NonceTracker.                                                             *)

\* record_from_prestate: callers seen before keep the nonce of their first block.
RecordFromPrestate(tracked, block) ==
    LET storage == PrestateToStorage(block)
        callers == {block[i].tx.from : i \in DOMAIN block} \cap DOMAIN storage
    IN tracked @@ [a \in callers |-> storage[a].nonce]

GetNonce(tracked, a) == IF a \in DOMAIN tracked THEN tracked[a] ELSE 0
IncreaseNonce(tracked, a) == (a :> GetNonce(tracked, a) + 1) @@ tracked

\* Mutant: the authorities are not counted.
UpdateTxenvNoncesCallers(tracked, txs) ==
    LET One(acc, tx) ==
            [txs |-> Append(acc.txs, [tx EXCEPT !.nonce = GetNonce(acc.tracked, tx.caller)]),
             tracked |-> IncreaseNonce(acc.tracked, tx.caller)]
    IN FoldLeft(One, [txs |-> <<>>, tracked |-> tracked], txs)

\* update_txenv_nonces: the caller's nonce to the transaction, one more to the caller and
\* to every authority.
UpdateTxenvNonces(tracked, txs) ==
    LET One(acc, tx) ==
            [txs |-> Append(acc.txs, [tx EXCEPT !.nonce = GetNonce(acc.tracked, tx.caller)]),
             tracked |-> FoldLeft(LAMBDA t, auth : IncreaseNonce(t, auth.authority),
                                  IncreaseNonce(acc.tracked, tx.caller), tx.auths)]
    IN FoldLeft(One, [txs |-> <<>>, tracked |-> tracked], txs)

-----------------------------------------------------------------------------
(* The replay: load_block_for_execution of every block, the integrator, and   *)
(* the transactions one after the other.                                      *)

Load ==
    /\ loaderPc = "history" /\ blocks[Len(blocks)] # <<>>
    /\ merged' = CreateMultiBlockStorage(blocks)
    /\ nonces' = FoldLeft(RecordFromPrestate, NoPrestate, blocks)
    /\ loaderPc' = "loaded"
    /\ UNCHANGED <<origin, chain, blocks, order, integrated, replayDb, replayPos>>

\* integrate_pevm_graphs gives some order.
Integrate ==
    /\ loaderPc = "loaded"
    /\ \E p \in {f \in [1 .. Size -> 1 .. Size] : IsInjective(f)} :
          LET txs == FlattenSeq([i \in DOMAIN blocks |-> TransactionsToTxenvs(blocks[i])])
              updated == UpdateTxenvNonces(nonces, [i \in DOMAIN p |-> txs[p[i]]])
          IN order' = p /\ integrated' = updated.txs /\ nonces' = updated.tracked
    /\ replayDb' = merged /\ loaderPc' = "replay"
    /\ UNCHANGED <<origin, chain, blocks, merged, replayPos>>

\* execute_revm_sequential: a transaction that is not valid ends the replay.
ReplayTx ==
    /\ loaderPc = "replay" /\ replayPos \in DOMAIN integrated
    /\ LET tx == integrated[replayPos]
       IN IF Valid(replayDb, tx)
          THEN replayDb' = Run(replayDb, tx) /\ replayPos' = replayPos + 1
          ELSE replayPos' = 0 /\ UNCHANGED replayDb
    /\ UNCHANGED <<loaderPc, origin, chain, blocks, merged, nonces, order, integrated>>

LoaderNext == ChainTx \/ ChainBlock \/ Load \/ Integrate \/ ReplayTx

-----------------------------------------------------------------------------
(* Properties.                                                               *)

\* The merged storage is the chain before the first block, for every account and slot a
\* transaction of the blocks touched: nonces and slots exactly, balances raised, code unless
\* the blocks themselves deployed it (merge_transaction_prestates, merge_account_into).
MergedIsOrigin ==
    loaderPc \in {"loaded", "replay"} =>
        /\ \A i \in DOMAIN blocks : \A k \in DOMAIN blocks[i] :
              DOMAIN blocks[i][k].prestate \subseteq DOMAIN merged
        /\ \A a \in DOMAIN merged :
              LET was == Known(origin, a)
              IN /\ merged[a].nonce = was.nonce
                 /\ merged[a].balance >= was.balance
                 /\ \A h \in DOMAIN merged[a].slots : merged[a].slots[h] = SlotOf(was)
                 /\ merged[a].code = was.code \/ (was.code = NoCode /\ merged[a].code = chain[a].code)

SetCodeFree == \A i \in DOMAIN integrated : integrated[i].auths = <<>>
ChainOrder == \A i \in DOMAIN order : order[i] = i

\* No account is an authority in a block before the first it sends a transaction in: its
\* nonce would be recorded with the authorization counted, and then raised for it again.
SendsFirst ==
    \A i, j \in DOMAIN blocks : i < j =>
        \A a \in UNION {Authorities(ParseTransaction(blocks[i][k].tx)) : k \in DOMAIN blocks[i]} :
            \A k \in DOMAIN blocks[j] : blocks[j][k].tx.from = a =>
                \E b \in 1 .. i : \E m \in DOMAIN blocks[b] : blocks[b][m].tx.from = a

\* Every transaction finds the nonce it was given and the funds it sends: whatever order the
\* integrator chooses when no transaction of the blocks sets code, and in the chain's own
\* order when authorities send in the block of their authorization or before
\* (NonceTracker::update_txenv_nonces, the inflated balances of create_multi_block_storage).
Replayable == SetCodeFree \/ (ChainOrder /\ SendsFirst) => replayPos # 0

\* The replay of several blocks is faithful: it starts from the state before them, every
\* transaction can be executed, and in the chain's own order, when no transaction sets
\* code, they leave the nonces and slots the chain has (BlockLoader, NonceTracker).
ReplayFollowsChain ==
    /\ MergedIsOrigin
    /\ Replayable
    /\ (loaderPc = "replay" /\ SetCodeFree /\ ChainOrder /\ replayPos = Size + 1) =>
        \A a \in DOMAIN replayDb :
            replayDb[a].nonce = chain[a].nonce /\ SlotOf(replayDb[a]) = SlotOf(chain[a])
=============================================================================
