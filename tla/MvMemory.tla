------------------------------ MODULE MvMemory ------------------------------
(***************************************************************************)
(* The multi-version memory of pevm (crates/pevm/src/mv_memory.rs): what   *)
(* each transaction of the block last wrote to each memory location, and   *)
(* what it last read there.  The operators are the steps of its methods;   *)
(* a method that visits several locations visits them one at a time, since *)
(* only the entry of one location is locked at once.  Module Pevm puts     *)
(* the steps together.                                                     *)
(*                                                                         *)
(* An account value is [bal, nonce]; storage slots and code hashes use bal *)
(* alone.  "Absolute" stands for MemoryValue::Basic, CodeHash and Storage. *)
(***************************************************************************)
EXTENDS Integers, FiniteSets, Sequences, FiniteSetsExt, Functions

VARIABLES
    data,            \* location -> transaction -> MemoryEntry; keys come and stay
    last_read,       \* LastLocations.read: location -> ReadOrigins
    last_write,      \* LastLocations.write
    lazy_addresses   \* locations to evaluate at the end of the block

mvvars == <<data, last_read, last_write, lazy_addresses>>

MemoryValue(kind, bal, nonce) == [kind |-> kind, bal |-> bal, nonce |-> nonce]

Estimate == [tag |-> "Estimate"]
Data(incarnation, value) == [tag |-> "Data", inc |-> incarnation, val |-> value]

\* ReadOrigin: MvMemory(version) is a pair, Storage is the empty tuple.
MvOrigin(idx, inc) == <<idx, inc>>
StorageOrigin == <<>>

NoEntries == [t \in {} |-> Estimate]

\* MvMemory::new: the estimated locations are in the data from the start.
MvInit(txs, estimated, lazy) ==
    /\ data = [l \in DOMAIN estimated |-> [t \in estimated[l] |-> Estimate]]
    /\ last_read = [t \in txs |-> [l \in {} |-> <<>>]]
    /\ last_write = [t \in txs |-> {}]
    /\ lazy_addresses = lazy

EntriesOf(l) == IF l \in DOMAIN data THEN data[l] ELSE NoEntries

\* BTreeMap::range(..t), and its elements from the highest down.
Below(l, t) == {b \in DOMAIN EntriesOf(l) : b < t}
DownFrom(S) == [k \in 1 .. Cardinality(S) |->
                   CHOOSE x \in S : Cardinality({y \in S : y > x}) = k - 1]

IsLazy(entry) ==
    entry.tag = "Data" /\ entry.val.kind \in {"LazyRecipient", "LazySender"}

\* The entries a read of l by t walks over: down to the first that is not lazy.
Walk(l, t) ==
    {b \in Below(l, t) : \A c \in Below(l, t) : c > b => IsLazy(EntriesOf(l)[c])}

\* The lowest entry walked over when it is not lazy: the walk ends there.
WalkEnd(l, t) == {b \in Walk(l, t) : ~IsLazy(EntriesOf(l)[b])}

Signed(value) == IF value.kind = "LazySender" THEN 0 - value.bal ELSE value.bal

AddLazies(l, bs) == MapThenSumSet(LAMBDA b : Signed(EntriesOf(l)[b].val), bs)

CountSenders(l, bs) ==
    Cardinality({b \in bs : EntriesOf(l)[b].val.kind = "LazySender"})

\* VmDb::basic and VmDb::storage: an ESTIMATE blocks; otherwise the value is the
\* absolute value (or the one in storage) plus the lazy updates above it.
ReadValue(l, t, storage) ==
    LET walk == Walk(l, t)
        end == WalkEnd(l, t)
        lazies == walk \ end
        base == IF end = {} THEN storage[l]
                ELSE EntriesOf(l)[Max(end)].val
        sum == base.bal + AddLazies(l, lazies)
    IN
    IF \E b \in end : EntriesOf(l)[b].tag = "Estimate"
      THEN [ok |-> FALSE, blocking |-> Max(end)]
      ELSE [ok |-> TRUE,
            bal |-> IF sum < 0 THEN 0 ELSE sum,
            nonce |-> base.nonce + CountSenders(l, lazies),
            origins |->
                [i \in 1 .. Cardinality(walk) |->
                    LET b == DownFrom(walk)[i]
                    IN MvOrigin(b, EntriesOf(l)[b].inc)]
                \o (IF end = {} THEN <<StorageOrigin>> ELSE <<>>)]

\* VmDb::get_code_hash: looks at the highest entry only and does not block on
\* an ESTIMATE, which reads as storage.
ReadCodeHash(l, t, storage) ==
    LET top == {b \in Below(l, t) : \A c \in Below(l, t) : c <= b}
        entry == EntriesOf(l)[Max(top)]
    IN
    IF top # {} /\ entry.tag = "Data"
      THEN [destroyed |-> entry.val.kind = "SelfDestructed",
            bal |-> entry.val.bal,
            origins |-> <<MvOrigin(Max(top), entry.inc)>>]
      ELSE [destroyed |-> FALSE, bal |-> storage[l].bal, origins |-> <<StorageOrigin>>]

\* The check of one location by validate_read_locations.
ValidOrigin(l, t, origins, i) ==
    LET down == DownFrom(Below(l, t)) IN
    IF origins[i] = StorageOrigin THEN i > Len(down)
    ELSE /\ i <= Len(down)
         /\ EntriesOf(l)[down[i]].tag = "Data"
         /\ origins[i] = MvOrigin(down[i], EntriesOf(l)[down[i]].inc)

ValidLocation(l, t) ==
    LET origins == last_read[t][l] IN
    IF l \in DOMAIN data
      THEN \A i \in DOMAIN origins : ValidOrigin(l, t, origins, i)
      ELSE origins = <<StorageOrigin>>

\* Faulty: a write set that shrinks leaves its old entries behind.
StaleLocationsNone(t, writes) == {}

\* Faulty: a write set that grows is not noticed.
WritesNewLocationNever(t, writes) == FALSE

\* record: what it drops, what is new, and the insertion or removal of one entry.
StaleLocations(t, writes) == last_write[t] \ DOMAIN writes
WritesNewLocation(t, writes) == ~(DOMAIN writes \subseteq last_write[t])

DropEntry(l, t) ==
    data' = IF l \in DOMAIN data
              THEN [data EXCEPT ![l] = Restrict(@, DOMAIN @ \ {t})]
              ELSE data

PutEntry(l, t, entry) ==
    data' = [m \in DOMAIN data \cup {l} |->
                IF m # l THEN data[m]
                ELSE [b \in DOMAIN EntriesOf(l) \cup {t} |->
                         IF b = t THEN entry ELSE EntriesOf(l)[b]]]

\* convert_writes_to_estimates, for one location.
PutEstimate(l, t) == PutEntry(l, t, Estimate)

\* The evaluation of the lazy locations after the workers have joined
\* (pevm.rs:262-380): the value of l once transaction t has run.  The lazy updates
\* of a location that was not registered would stay as they are.
Evaluated(l, t, storage) ==
    LET upto == {b \in DOMAIN EntriesOf(l) : b <= t}
        abs == {b \in upto : ~IsLazy(EntriesOf(l)[b])}
        base == IF abs = {} THEN storage[l] ELSE EntriesOf(l)[Max(abs)].val
        lazies == IF l \in lazy_addresses THEN {b \in upto : \A a \in abs : b > a} ELSE {}
    IN [bal |-> base.bal + AddLazies(l, lazies),
        nonce |-> base.nonce + CountSenders(l, lazies)]
=============================================================================
