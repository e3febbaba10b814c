-------------------------------- MODULE Pevm --------------------------------
(***************************************************************************)
(* Pevm::execute_revm_parallel (crates/pevm/src/pevm.rs): the workers, the *)
(* scheduler, the multi-version memory, and Vm::execute (vm.rs) on top of  *)
(* an EVM that reads accounts and slots one at a time.                     *)
(*                                                                         *)
(* A transaction is a record [caller, to, code, raw, value, nonce, slots]: *)
(* it transfers value from caller to to when to has no code, and otherwise *)
(* runs code that reads slots, in that order, and writes what Effects says *)
(* of the values it read.  A location that one transaction alone touches   *)
(* may be left out, as NoLoc.                                              *)
(***************************************************************************)
EXTENDS Scheduler, MvMemory

CONSTANTS
    Locations,     \* memory locations of the block
    NoLoc,         \* stands for a location no other transaction touches
    Coinbase,      \* the beneficiary's location
    Blocks,        \* by name, blocks: their transactions txs and the chain state storage
    Effects(_, _, _)  \* slots and code written by a block's transaction, from the values read

ASSUME CoinbaseAssumption == Coinbase \in Locations /\ NoLoc \notin Locations

Fee == 1           \* what a transaction pays to the beneficiary

VARIABLES
    block,         \* the name of the block that is executed
    vm             \* what a worker has done of its current task

pevmvars == <<vars, mvvars, vm, block>>

Block == Blocks[block].txs
Storage == Blocks[block].storage

Idle == [phase |-> "idle", lazy |-> FALSE, vals |-> [l \in {} |-> 0],
         reads |-> [l \in {} |-> <<>>], writes |-> [l \in {} |-> 0],
         wrote |-> FALSE, todo |-> {}]

SetVm(w, state) == vm' = [vm EXCEPT ![w] = state]

PevmInit ==
    /\ block \in DOMAIN Blocks
    /\ Init
    /\ MvInit(Txs, [l \in {Coinbase} |-> Txs], {Coinbase})
    /\ vm = [w \in Workers |-> Idle]

-----------------------------------------------------------------------------
(* Vm::execute.  VmDb::new first: the code hash of the recipient, then      *)
(* whether the memory knows the sender or the recipient.                    *)

HasCode(t, vals) ==
    IF Block[t].code = NoLoc THEN ~Block[t].raw ELSE vals[Block[t].code].bal > 0

\* What a transaction reads explicitly, in order, once it knows if it is lazy.
Plan(t, state) ==
    LET T == Block[t]
        accounts == IF state.lazy THEN <<>>
                    ELSE IF HasCode(t, state.vals) THEN <<T.caller>>
                    ELSE <<T.caller, T.to>>
        slots == IF HasCode(t, state.vals) THEN T.slots ELSE <<>>
    IN SelectSeq(accounts \o slots, LAMBDA l : l # NoLoc)

Unread(t, state) ==
    SelectSeq(Plan(t, state), LAMBDA l : l \notin DOMAIN state.vals)

Seen(state, l, value, origins) ==
    [state EXCEPT !.vals = [m \in DOMAIN @ \cup {l} |-> IF m = l THEN value ELSE @[m]],
                  !.reads = [m \in DOMAIN @ \cup {l} |-> IF m = l THEN origins ELSE @[m]]]

NewVmDb(w) ==
    LET t == tx[w] IN
    /\ pc[w] = "execute"
    /\ vm[w].phase = "idle"
    /\ IF Block[t].code = NoLoc
         THEN /\ SetVm(w, [Idle EXCEPT !.phase = IF Block[t].raw THEN "lazy" ELSE "read"])
              /\ UNCHANGED vars
         ELSE LET r == ReadCodeHash(Block[t].code, t, Storage)
                  state == Seen(Idle, Block[t].code, [bal |-> r.bal, nonce |-> 0], r.origins)
              IN IF r.destroyed
                   THEN /\ ExecuteFatal(w, "FallbackToSequential")
                        /\ SetVm(w, Idle)
                   ELSE /\ SetVm(w, [state EXCEPT !.phase =
                                        IF r.bal > 0 THEN "read" ELSE "lazy"])
                        /\ UNCHANGED vars
    /\ UNCHANGED mvvars

\* data.contains_key of the sender, then, if it is not there, of the recipient.
DecideLazy(w) ==
    LET T == Block[tx[w]] IN
    /\ pc[w] = "execute"
    /\ vm[w].phase \in {"lazy", "lazyTo"}
    /\ LET known == (IF vm[w].phase = "lazy" THEN T.caller ELSE T.to) \in DOMAIN data
       IN SetVm(w, [vm[w] EXCEPT !.lazy = known,
                                 !.phase = IF known \/ @ = "lazyTo" THEN "read"
                                           ELSE "lazyTo"])
    /\ UNCHANGED <<vars, mvvars>>

\* A sender that is not ready waits for the transaction before; the first
\* transaction has none to wait for and fails.
BadSender(w) ==
    IF tx[w] > 0 THEN ExecuteBlocked(w, tx[w] - 1)
    ELSE ExecuteFatal(w, "ExecutionError")

\* VmDb::basic or VmDb::storage for the next location, with the nonce and the
\* balance checks on the sender.
ReadNext(w) ==
    LET t == tx[w]
        T == Block[t]
        l == Head(Unread(t, vm[w]))
        r == ReadValue(l, t, Storage)
    IN
    /\ pc[w] = "execute"
    /\ vm[w].phase = "read"
    /\ Unread(t, vm[w]) # <<>>
    /\ IF ~r.ok
         THEN ExecuteBlocked(w, r.blocking) /\ SetVm(w, Idle)
       ELSE IF l = T.caller /\ (r.nonce # T.nonce \/ r.bal < T.value + Fee)
         THEN BadSender(w) /\ SetVm(w, Idle)
       ELSE /\ SetVm(w, Seen(vm[w], l, [bal |-> r.bal, nonce |-> r.nonce], r.origins))
            /\ UNCHANGED vars
    /\ UNCHANGED mvvars

-----------------------------------------------------------------------------
(* The write set of an execution, and MvMemory::record.                     *)

One(l, value) == [m \in {l} \ {NoLoc} |-> value]
Merge(f, g) == [m \in DOMAIN f \cup DOMAIN g |-> IF m \in DOMAIN f THEN f[m] ELSE g[m]]

SenderWrites(t, state) ==
    LET T == Block[t]
        spent == Fee + (IF HasCode(t, state.vals) THEN 0 ELSE T.value)
    IN IF T.caller = NoLoc THEN One(NoLoc, 0)
       ELSE One(T.caller,
                IF state.lazy THEN MemoryValue("LazySender", spent, 0)
                ELSE MemoryValue("Absolute", state.vals[T.caller].bal - spent, T.nonce + 1))

\* The recipient of a transfer; unchanged accounts are not written.
RecipientWrites(t, state) ==
    LET T == Block[t] IN
    IF state.lazy THEN One(T.to, MemoryValue("LazyRecipient", T.value, 0))
    ELSE IF T.value = 0 THEN One(NoLoc, 0)
    ELSE One(T.to, MemoryValue("Absolute", state.vals[T.to].bal + T.value,
                               state.vals[T.to].nonce))

Rewarded(writes) ==
    IF Coinbase \in DOMAIN writes
      THEN [writes EXCEPT ![Coinbase].bal =
               IF writes[Coinbase].kind = "LazySender" THEN @ - Fee ELSE @ + Fee]
      ELSE Merge(writes, One(Coinbase, MemoryValue("LazyRecipient", Fee, 0)))

WriteSet(t, state) ==
    Rewarded(Merge(SenderWrites(t, state),
                   IF HasCode(t, state.vals) THEN Effects(block, t, state.vals)
                   ELSE RecipientWrites(t, state)))

\* last_locations[t] is locked by record, by validate_read_locations and by
\* convert_writes_to_estimates for as long as they run.
LocationsLocked(t) ==
    \E w \in Workers : tx[w] = t /\ vm[w].phase \in {"record", "check", "convert"}

\* evm.transact() returned: register the lazy addresses and enter record, which
\* removes and inserts entries one location after the other.
BeginRecord(w) ==
    LET t == tx[w]
        writes == WriteSet(t, vm[w])
    IN
    /\ pc[w] = "execute"
    /\ vm[w].phase = "read"
    /\ Unread(t, vm[w]) = <<>>
    /\ ~LocationsLocked(t)
    /\ lazy_addresses' = IF vm[w].lazy
                           THEN lazy_addresses \cup {Block[t].caller, Block[t].to}
                           ELSE lazy_addresses
    /\ last_read' = [last_read EXCEPT ![t] = vm[w].reads]
    /\ last_write' = [last_write EXCEPT ![t] = DOMAIN writes]
    /\ SetVm(w, [Idle EXCEPT !.phase = "record", !.writes = writes,
                             !.todo = StaleLocations(t, writes),
                             !.wrote = WritesNewLocation(t, writes)])
    /\ UNCHANGED <<vars, data>>

RemoveStale(w, l) ==
    /\ pc[w] = "execute"
    /\ vm[w].phase = "record"
    /\ l \in vm[w].todo
    /\ DropEntry(l, tx[w])
    /\ SetVm(w, [vm[w] EXCEPT !.todo = @ \ {l}])
    /\ UNCHANGED <<vars, last_read, last_write, lazy_addresses>>

InsertWrite(w, l) ==
    /\ pc[w] = "execute"
    /\ vm[w].phase = "record"
    /\ vm[w].todo = {}
    /\ l \in DOMAIN vm[w].writes
    /\ PutEntry(l, tx[w], Data(version[w], vm[w].writes[l]))
    /\ SetVm(w, [vm[w] EXCEPT !.writes = Restrict(@, DOMAIN @ \ {l})])
    /\ UNCHANGED <<vars, last_read, last_write, lazy_addresses>>

\* record has returned: Pevm::try_execute stores the result and finishes.
EndRecord(w) ==
    /\ vm[w].phase = "record"
    /\ vm[w].todo = {}
    /\ vm[w].writes = One(NoLoc, 0)
    /\ ExecuteOk(w, IF vm[w].wrote THEN WroteNewLocation ELSE {})
    /\ SetVm(w, Idle)
    /\ UNCHANGED mvvars

-----------------------------------------------------------------------------
(* try_validate: validate_read_locations, convert_writes_to_estimates.      *)

BeginValidate(w) ==
    /\ pc[w] = "validate"
    /\ vm[w].phase = "idle"
    /\ ~LocationsLocked(tx[w])
    /\ SetVm(w, [Idle EXCEPT !.phase = "check", !.todo = DOMAIN last_read[tx[w]]])
    /\ UNCHANGED <<vars, mvvars>>

\* One location: the first that does not match ends the check.
CheckLocation(w, l) ==
    /\ pc[w] = "validate"
    /\ vm[w].phase = "check"
    /\ l \in vm[w].todo
    /\ IF ValidLocation(l, tx[w])
         THEN SetVm(w, [vm[w] EXCEPT !.todo = @ \ {l}]) /\ UNCHANGED vars
         ELSE SetVm(w, Idle) /\ Validate(w, FALSE)
    /\ UNCHANGED mvvars

EndValidate(w) ==
    /\ vm[w].phase = "check"
    /\ vm[w].todo = {}
    /\ Validate(w, TRUE)
    /\ SetVm(w, Idle)
    /\ UNCHANGED mvvars

\* The abort succeeded: the writes of the transaction become ESTIMATEs.
BeginConvert(w) ==
    /\ pc[w] = "ready"
    /\ vm[w].phase = "idle"
    /\ ~LocationsLocked(tx[w])
    /\ SetVm(w, [Idle EXCEPT !.phase = "convert", !.todo = last_write[tx[w]]])
    /\ UNCHANGED <<vars, mvvars>>

ConvertLocation(w, l) ==
    /\ vm[w].phase = "convert"
    /\ l \in vm[w].todo
    /\ PutEstimate(l, tx[w])
    /\ SetVm(w, [vm[w] EXCEPT !.todo = @ \ {l}])
    /\ UNCHANGED <<vars, last_read, last_write, lazy_addresses>>

EndConvert(w) ==
    /\ vm[w].phase = "convert"
    /\ vm[w].todo = {}
    /\ FinishAborted(w)
    /\ SetVm(w, Idle)
    /\ UNCHANGED mvvars

-----------------------------------------------------------------------------
\* Every step of the scheduler but finish_validation's first, which waits for
\* the conversion.
OtherStep(w) ==
    /\ pc[w] # "ready"
    /\ SchedulerStep(w)
    /\ UNCHANGED <<mvvars, vm>>

WorkerStep(w) ==
    \/ OtherStep(w)
    \/ NewVmDb(w) \/ DecideLazy(w) \/ ReadNext(w)
    \/ BeginRecord(w) \/ EndRecord(w)
    \/ BeginValidate(w) \/ EndValidate(w)
    \/ BeginConvert(w) \/ EndConvert(w)
    \/ \E l \in Locations : \/ RemoveStale(w, l) \/ InsertWrite(w, l)
                            \/ CheckLocation(w, l) \/ ConvertLocation(w, l)

PevmNext ==
    /\ (\E w \in Workers : WorkerStep(w)) \/ (Joined /\ UNCHANGED <<mvvars, vm>>)
    /\ UNCHANGED block

PevmSpec == PevmInit /\ [][PevmNext]_pevmvars

\* The operating system runs every thread.
FairSpec == PevmSpec /\ \A w \in Workers : WF_pevmvars(WorkerStep(w) /\ UNCHANGED block)

\* The evaluation checks the funds of a lazy sender, and the nonce of every sender,
\* again, and gives up the block with an error when they do not fit.
EvaluationFails(l, t) ==
    LET T == Block[t] IN
    \/ /\ EntriesOf(l)[t].val.kind = "LazySender"
       /\ Evaluated(l, t - 1, Storage).bal < T.value + Fee
    \/ /\ T.caller = l
       /\ Evaluated(l, t, Storage).nonce # T.nonce + 1

-----------------------------------------------------------------------------
(* The reference: the transactions one after the other on a single state,   *)
(* as execute_revm_sequential runs them (pevm.rs:492-539).                  *)

Credit(s, l, amount) ==
    IF l = NoLoc THEN s ELSE [s EXCEPT ![l].bal = @ + amount]

Debit(s, l, amount) ==
    IF l = NoLoc THEN s
    ELSE [s EXCEPT ![l] = [bal |-> @.bal - amount, nonce |-> @.nonce + 1]]

Apply(t, s) ==
    LET T == Block[t]
        code == IF T.code = NoLoc THEN ~T.raw ELSE s[T.code].bal > 0
        effects == IF code THEN Effects(block, t, s) ELSE One(NoLoc, 0)
        paid == Credit(Debit(s, T.caller, Fee), Coinbase, Fee)
        moved == IF code THEN paid
                 ELSE Credit(Credit(paid, T.caller, 0 - T.value), T.to, T.value)
    IN [l \in Locations |-> IF l \in DOMAIN effects
                              THEN [bal |-> effects[l].bal, nonce |-> effects[l].nonce]
                              ELSE moved[l]]

\* The state before transaction i; SequentialState[BlockSize] is the last one.
SequentialState[i \in 0 .. BlockSize] ==
    IF i = 0 THEN Storage ELSE Apply(i - 1, SequentialState[i - 1])

-----------------------------------------------------------------------------
\* A block in which a contract is destroyed and called later is left to the
\* sequential run, even if the call was executed before the destruction.
FallsBackOnSelfDestruct ==
    AllDone /\ ~Aborted =>
        \A t \in Txs : \A b \in Below(Block[t].code, t) :
            EntriesOf(Block[t].code)[b].val.kind # "SelfDestructed"

\* The parallel run of a block leaves every location, after every transaction,
\* as the sequential run does, however the workers interleaved, and the evaluation
\* of the lazy locations refuses no block the sequential run accepts; or it is left
\* to the sequential run (Pevm::execute_revm_parallel).
MatchesSequential ==
    AllDone /\ ~Aborted =>
      /\ FallsBackOnSelfDestruct
      /\ \A l \in lazy_addresses : \A t \in DOMAIN EntriesOf(l) : ~EvaluationFails(l, t)
      /\ \A l \in Locations : \A t \in Txs :
            IF t \in DOMAIN EntriesOf(l)
              THEN Evaluated(l, t, Storage) = SequentialState[t + 1][l]
              ELSE SequentialState[t + 1][l] = SequentialState[t][l]

\* A completed transaction has exactly the entries it last wrote, of its current
\* incarnation and none of them an ESTIMATE, whatever stale verdict converted them
\* before: a reader it blocked would otherwise retry for ever, since add_dependency
\* refuses to wait for a completed transaction.
CompletedWritesAreData ==
    \A t \in Txs : Completed(t) =>
        \A l \in Locations :
            /\ t \in DOMAIN EntriesOf(l) <=> l \in last_write[t]
            /\ t \in DOMAIN EntriesOf(l) =>
                  EntriesOf(l)[t].tag = "Data" /\ EntriesOf(l)[t].inc = incarnation[t]

\* Every worker leaves: nobody spins on a task that is never handed out.
Termination == <>AllDone
=============================================================================
