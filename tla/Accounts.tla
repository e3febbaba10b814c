------------------------------ MODULE Accounts ------------------------------
(***************************************************************************)
(* The account storage transactions run against, and the ways the results  *)
(* of a block come back into it.  Balances in ether and fees are left out: *)
(* a transaction is a call of a token contract that moves value between    *)
(* two of its storage slots, which is what the workload generator, at the  *)
(* end of the module, sends.                                               *)
(*                                                                         *)
(* A storage is a function from the addresses it knows to accounts; the    *)
(* slots of an account are a function from the slots it knows.             *)
(***************************************************************************)
EXTENDS Integers, Sequences, SequencesExt, FiniteSets

\* op(x), with x evaluated once.
Applied(op(_), x) == CHOOSE y \in {op(z) : z \in {x}} : TRUE

NoSlots == [h \in {} |-> 0]
Account(nonce, slots) == [nonce |-> nonce, slots |-> slots]

\* HashMap::insert and HashMap::extend.
Insert(m, k, v) == [x \in DOMAIN m \cup {k} |-> IF x = k THEN v ELSE m[x]]
Extend(m, n) == [x \in DOMAIN m \cup DOMAIN n |-> IF x \in DOMAIN n THEN n[x] ELSE m[x]]

\* InMemoryStorage::basic and ::storage, as StorageWrapper serves them to the EVM: what is
\* not known is zero.
Basic(db, a) == IF a \in DOMAIN db THEN db[a].nonce ELSE 0
Storage(db, a, h) == IF a \in DOMAIN db /\ h \in DOMAIN db[a].slots THEN db[a].slots[h] ELSE 0

-----------------------------------------------------------------------------
(* One transaction: a call by tx.caller of the token tx.to that moves       *)
(* tx.value to tx.recipient and reverts when the caller has too little.     *)

NonceMatches(db, tx) == tx.nonce = Basic(db, tx.caller)
Reverts(db, tx) == Storage(db, tx.to, tx.caller) < tx.value

\* The slots of the token the call has loaded, with their present values.
Loaded(db, tx) ==
    LET from == Storage(db, tx.to, tx.caller)
        paid == [h \in {tx.caller, tx.recipient} |->
                    IF h = tx.caller THEN from - tx.value ELSE Storage(db, tx.to, h) + tx.value]
    IN IF tx.caller = tx.recipient THEN [h \in {tx.caller} |-> from] ELSE paid

\* PevmTxExecutionResult::from_revm: the accounts the transaction touched, each with the
\* slots it loaded and no others.
Transact(db, tx) ==
    LET caller == Account(Basic(db, tx.caller) + 1, NoSlots)
        token == Account(Basic(db, tx.to), Loaded(db, tx))
    IN IF Reverts(db, tx) THEN Insert(NoSlots, tx.caller, caller)
       ELSE Insert(Insert(NoSlots, tx.caller, caller), tx.to, token)

\* CacheDB::commit: an account takes the new nonce, its slots are added to.
Commit(db, state) ==
    [a \in DOMAIN db \cup DOMAIN state |->
        IF a \notin DOMAIN state THEN db[a]
        ELSE IF a \notin DOMAIN db THEN state[a]
        ELSE Account(state[a].nonce, Extend(db[a].slots, state[a].slots))]

\* execute_revm_sequential: the results of the transactions in order over a cache of the
\* storage; a transaction whose nonce does not fit ends the block with an error.
ExecuteSequential(db, txs) ==
    LET One(acc, tx) ==
            IF ~acc.ok \/ ~NonceMatches(acc.cache, tx) THEN [acc EXCEPT !.ok = FALSE]
            ELSE [acc EXCEPT !.cache = Commit(@, Transact(acc.cache, tx)),
                             !.results = Append(@, Transact(acc.cache, tx))]
    IN FoldLeft(LAMBDA acc, tx : Applied(LAMBDA a : One(a, tx), acc),
                [ok |-> TRUE, cache |-> db, results |-> <<>>], txs)

-----------------------------------------------------------------------------
(* The results of a block, put back into the storage.                       *)

\* Mutant: the slots of the result replace the slots of the account.
MergeAccountWhole(db, state) ==
    [a \in DOMAIN db \cup DOMAIN state |-> IF a \in DOMAIN state THEN state[a] ELSE db[a]]

\* update_storage_with_results: one result merged into the accounts.
MergeAccount(db, state) == Commit(db, state)
UpdateStorageWithResults(db, results) == FoldLeft(MergeAccount, db, results)

\* get_delta_state: the accounts a block has changed, as the last result that has them.
GetDeltaState(results) == FoldLeft(Extend, NoSlots, results)

\* InMemoryStorage::update_accounts: whole accounts are inserted.
UpdateAccounts(db, accounts) == Extend(db, accounts)

\* PevmExecutor::update_storage.
UpdateStorage(db, results) == UpdateAccounts(db, FoldLeft(Extend, db, results))

-----------------------------------------------------------------------------
(* What a transaction reads and writes, for the dependency graph.           *)

BasicLocation(a) == <<a>>
SlotLocation(a, h) == <<a, h>>

\* TrackingDB: the storage slots the call reads; accounts are not recorded.
ReadSet(db, tx) == {SlotLocation(tx.to, h) :
                        h \in IF Reverts(db, tx) THEN {tx.caller} ELSE {tx.caller, tx.recipient}}

\* Mutant: only the changed slots, never the account itself.
WriteSetSlots(db, tx) ==
    LET state == Transact(db, tx)
        Changed(a) == {h \in DOMAIN state[a].slots : state[a].slots[h] # Storage(db, a, h)}
    IN UNION {{SlotLocation(a, h) : h \in Changed(a)} : a \in DOMAIN state}

\* extract_write_set_from_result: the slots that changed; the account itself when none did.
WriteSet(db, tx) ==
    LET state == Transact(db, tx)
        Changed(a) == {h \in DOMAIN state[a].slots : state[a].slots[h] # Storage(db, a, h)}
    IN UNION {IF Changed(a) = {} THEN {BasicLocation(a)}
              ELSE {SlotLocation(a, h) : h \in Changed(a)} : a \in DOMAIN state}

\* execute_revm_sequential_with_access_sets: the sets of each transaction of a block, each
\* taken from the state the transactions before it have left.
AccessSets(db, txs) ==
    [i \in DOMAIN txs |->
        LET before == ExecuteSequential(db, SubSeq(txs, 1, i - 1)).cache
        IN [read_set |-> ReadSet(before, txs[i]), write_set |-> WriteSet(before, txs[i])]]

-----------------------------------------------------------------------------
(* PevmTransactionGenerator: token transfers between the members of the     *)
(* families of each token's cluster, with the nonces the generator counts.  *)
(* A replica sends for the members whose place in their family is its own   *)
(* modulo the number of replicas.  Every random choice is a parameter.      *)

CONSTANTS
    Clusters,        \* sequence of [token, families], a family a sequence of members
    ReplicaId, ReplicaNum,
    ContendedBatch,  \* 16 in the code: the size of a contended batch
    Value            \* what a transfer moves

ASSUME ClustersAssumption == Len(Clusters) >= 2
ASSUME ReplicaAssumption == ReplicaNum \in Nat \ {0} /\ ReplicaId \in 0 .. ReplicaNum - 1
ASSUME SendersAssumption ==
    \A c \in DOMAIN Clusters : \A f \in DOMAIN Clusters[c].families :
        Len(Clusters[c].families[f]) > ReplicaId

People == UNION {UNION {Range(Clusters[c].families[f]) : f \in DOMAIN Clusters[c].families}
                    : c \in DOMAIN Clusters}
Tokens == {Clusters[c].token : c \in DOMAIN Clusters}

\* PevmTransactionGenerator::new.
InitialNonces == [m \in People |-> 0]

\* A place is a cluster, a family of it and a member of the family.
IsOwn(i) == (i - 1) % ReplicaNum = ReplicaId
FamilySenders(c, f) ==
    SelectSeq([i \in DOMAIN Clusters[c].families[f] |-> <<c, f, i>>], LAMBDA p : IsOwn(p[3]))
Member(p) == Clusters[p[1]].families[p[2]][p[3]]

\* The member a transfer of p goes to, chosen by the random number r.
Recipient(p, r) ==
    LET family == Clusters[p[1]].families[p[2]] IN family[((p[3] + r) % Len(family)) + 1]

\* The transfers sent from a sequence of places, each with the next nonce of its member,
\* and the nonces after them.
Sent(places, k) == Cardinality({j \in 1 .. k : Member(places[j]) = Member(places[k])})
Transfers(nonces, places, r) ==
    [k \in DOMAIN places |->
        [caller |-> Member(places[k]), to |-> Clusters[places[k][1]].token,
         recipient |-> Recipient(places[k], r), value |-> Value,
         nonce |-> nonces[Member(places[k])] + Sent(places, k) - 1]]
NextNonces(nonces, places) ==
    [m \in People |-> nonces[m] + Cardinality({k \in DOMAIN places : Member(places[k]) = m})]

\* generate_parallelizable_erc20_transactions: every member of this replica once.
ParallelizablePlaces ==
    LET Families(c, i) == [f \in DOMAIN Clusters[c].families |-> <<c, f, i>>]
        Turn(i) == FlattenSeq([c \in DOMAIN Clusters |-> Families(c, i)])
        size == Len(Clusters[1].families[1])
    IN FlattenSeq([i \in 1 .. size |-> IF IsOwn(i) THEN Turn(i) ELSE <<>>])

AllFamilies == UNION {{<<c, f>> : f \in DOMAIN Clusters[c].families} : c \in DOMAIN Clusters}

\* generate_contended_erc20_transactions: the members of one family of each of two
\* clusters in turn, until the batch is full.
ContendedPlaces(c1, f1, c2, f2) ==
    LET round == FamilySenders(c1, f1) \o FamilySenders(c2, f2)
    IN [k \in 1 .. ContendedBatch |-> round[((k - 1) % Len(round)) + 1]]
ContendedChoices ==
    {ContendedPlaces(p[1], p[2], q[1], q[2]) :
        <<p, q>> \in {pq \in AllFamilies \X AllFamilies : pq[1][1] # pq[2][1]}}
=============================================================================
