----------------------------- MODULE BlockLog -----------------------------
(***************************************************************************)
(* What a mysticeti validator keeps on disk and rebuilds from it: the      *)
(* write-ahead log (wal.rs), the block store it indexes (block_store.rs)   *)
(* and the state recovered when the log is replayed (state.rs).            *)
(*                                                                         *)
(* The validator's state is one record, here called s, because a handler   *)
(* of the core thread runs to its end before the next one starts: an       *)
(* operation is an operator from records to records. A position of the log *)
(* is the index of an entry. After a failed assertion nothing is changed.  *)
(***************************************************************************)
EXTENDS Committer

CONSTANT Self    \* the authority of this validator

\* WalPosition::MAX
MaxPosition == 1000000

\* f with the value v at x
Put(f, x, v) == [y \in DOMAIN f \cup {x} |-> IF y = x THEN v ELSE f[y]]
Only(f, S) == [y \in DOMAIN f \cap S |-> f[y]]
NoBlocks == [b \in {} |-> <<>>]

-----------------------------------------------------------------------------
(* The entries of the log: what their tags hold. A payload is the client   *)
(* transactions it shares and the blocks it votes for.                     *)

BlockEntry(ref, includes) ==
    [tag |-> "block", ref |-> ref, includes |-> includes]

PayloadEntry(shares, votes) ==
    [tag |-> "payload", shares |-> shares, votes |-> votes]

OwnEntry(ref, includes, shares, votes, next_entry) ==
    [tag |-> "own", ref |-> ref, includes |-> includes, shares |-> shares,
     votes |-> votes, next_entry |-> next_entry]

StateEntry == [tag |-> "state"]

CommitEntry(leaders, blocks) ==
    [tag |-> "commit", leaders |-> leaders, blocks |-> blocks]

\* MetaStatement with the position it has in the log.
Include(pos, ref) == [pos |-> pos, kind |-> "include", ref |-> ref]
Payload(pos, shares, votes) ==
    [pos |-> pos, kind |-> "payload", shares |-> shares, votes |-> votes]

Write(s, entry) ==
    IF s.panicked THEN s ELSE [s EXCEPT !.wal = Append(@, entry)]

\* add_own_index asserts that there is one own block per round.
OwnRoundTaken(s, ref) == ref.authority = Self /\ BlocksAt(s.dag, Self, ref.round) # {}

\* The new block in the index.
AddToIndex(s, ref, includes) ==
    IF s.panicked THEN s
    ELSE IF OwnRoundTaken(s, ref) THEN [s EXCEPT !.panicked = TRUE]
    ELSE [s EXCEPT !.dag = Put(@, ref, includes)]

InsertBlock(s, ref, includes) ==
    AddToIndex(Write(s, BlockEntry(ref, includes)), ref, includes)

InsertOwnBlock(s, own) == AddToIndex(Write(s, own), own.ref, own.includes)

\* The round up to which the blocks of an authority were seen.
LastSeen(dag, authority) ==
    LET rounds == {b.round : b \in {x \in DOMAIN dag : x.authority = authority}}
    IN  IF rounds = {} THEN 0 ELSE Max(rounds)

-----------------------------------------------------------------------------
(* RecoveredStateBuilder: one entry of the log after the other.            *)

NoOwn == NoBlock

Empty == [pos |-> 0, dag |-> NoBlocks, pending |-> <<>>, own |-> NoOwn,
          unprocessed |-> {}, last |-> Ref(0, 0, 0), committed |-> {},
          panicked |-> FALSE]

\* Faulty: next_entry itself is taken for an entry of the own block.
KeepAfter(pending, next_entry) ==
    SelectSeq(pending, LAMBDA m : m.pos > next_entry)

\* Entries before next_entry went into the own block.
KeepFrom(pending, next_entry) ==
    SelectSeq(pending, LAMBDA m : m.pos >= next_entry)

\* Faulty: blocks are not kept for the block handler.
UnprocessedNot(r, ref) == r

\* The block handler has to see the block again.
Unprocessed(r, ref) == [r EXCEPT !.unprocessed = @ \cup {ref}]

Replay(r, entry) ==
    LET at == [r EXCEPT !.pos = @ + 1] IN
    CASE entry.tag = "block" ->
            AddToIndex(Unprocessed([at EXCEPT !.pending =
                                       Append(@, Include(at.pos, entry.ref))],
                                   entry.ref),
                       entry.ref, entry.includes)
      [] entry.tag = "payload" ->
            [at EXCEPT !.pending =
                Append(@, Payload(at.pos, entry.shares, entry.votes))]
      [] entry.tag = "own" ->
            AddToIndex(Unprocessed([at EXCEPT !.own = entry.ref,
                                       !.pending = KeepFrom(@, entry.next_entry)],
                                   entry.ref),
                       entry.ref, entry.includes)
      [] entry.tag = "state" -> [at EXCEPT !.unprocessed = {}]
      [] entry.tag = "commit" ->
            [at EXCEPT !.last = IF entry.leaders = <<>> THEN @
                                ELSE Last(entry.leaders),
                       !.committed = @ \cup entry.blocks]

\* BlockStore::open: a failed assertion ends it.
Recover(wal) ==
    LET open[i \in 0 .. Len(wal)] ==
            IF i = 0 THEN Empty
            ELSE LET r == open[i - 1]
                 IN  IF r.panicked THEN r ELSE Replay(r, wal[i])
    IN  open[Len(wal)]
=============================================================================
