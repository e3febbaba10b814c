---------------------------- MODULE BlockManager ----------------------------
(***************************************************************************)
(* BlockManager (block_manager.rs): a received block is suspended until    *)
(* everything it includes is stored; storing a block releases what waits   *)
(* for it.                                                                 *)
(***************************************************************************)
EXTENDS BlockLog

\* A block as it is received.
Block(ref, includes) == [ref |-> ref, includes |-> includes]

\* b waits for every reference in refs.
Wait(waiting, refs, b) ==
    [x \in DOMAIN waiting \cup refs |->
        (IF x \in DOMAIN waiting THEN waiting[x] ELSE {})
            \cup (IF x \in refs THEN {b} ELSE {})]

\* A hash set is walked in any order: here by authority, up or down.
InOrder(refs, ascending) ==
    SetToSortSeq(refs, LAMBDA a, b : IF ascending THEN a.authority < b.authority
                                     ELSE a.authority > b.authority)

\* Faulty: a block is released as soon as one of its references is stored.
ReadyAny(s, left, waiters) == waiters

\* The waiters no reference of which is still waited for.
Ready(s, left, waiters) ==
    {w \in waiters : ToSet(s.blocks_pending[w]) \cap DOMAIN left = {}}

\* A block that can be stored, and what it releases put in front.
Process(m, s, b, ascending) ==
    LET stored  == InsertBlock(s, b.ref, b.includes)
        waiters == IF b.ref \in DOMAIN s.waiting THEN s.waiting[b.ref] ELSE {}
        left    == Only(s.waiting, DOMAIN s.waiting \ {b.ref})
        ready   == Ready(s, left, waiters)
        front   == [i \in 1 .. Cardinality(ready) |->
                       LET w == InOrder(ready, ascending)[i]
                       IN  Block(w, s.blocks_pending[w])]
    IN  [s         |-> [stored EXCEPT
                          !.waiting = left,
                          !.blocks_pending = Only(@, DOMAIN @ \ ready)],
         queue     |-> front \o Tail(m.queue),
         processed |-> Append(m.processed, Include(Len(stored.wal), b.ref))]

\* One turn of the loop of add_blocks.
Turn(m, ascending) ==
    LET b      == Head(m.queue)
        absent == ToSet(b.includes) \ DOMAIN m.s.dag
        noted  == [m.s EXCEPT
                     !.waiting = Wait(@, absent, b.ref),
                     !.missing = (@ \cup (absent \ DOMAIN m.s.blocks_pending))
                                     \ {b.ref}]
    IN  IF b.ref \in DOMAIN m.s.dag \cup DOMAIN m.s.blocks_pending
        THEN [m EXCEPT !.queue = Tail(@)]
        ELSE IF absent = {} THEN Process(m, noted, b, ascending)
        ELSE [m EXCEPT !.queue = Tail(@),
                       !.s = [noted EXCEPT
                                !.blocks_pending = Put(@, b.ref, b.includes)]]

\* Every block is looked at once more than it was suspended.
ManagerAddBlocks(s, blocks, ascending) ==
    LET turns == Len(blocks) + Cardinality(DOMAIN s.blocks_pending)
        loop[i \in 0 .. turns] ==
            IF i = 0 THEN [s |-> s, queue |-> blocks, processed |-> <<>>]
            ELSE LET m == loop[i - 1]
                 IN  IF m.queue = <<>> THEN m ELSE Turn(m, ascending)
    IN  loop[turns]
=============================================================================
