-------------------------------- MODULE Wal --------------------------------
(***************************************************************************)
(* The bytes of the write-ahead log (wal.rs): entries behind a header with *)
(* their length and checksum, padding so that no entry crosses a region    *)
(* mapped into memory, the iterator that replays the file, the threads     *)
(* that sync it, the memory maps that readers share, and what is left of   *)
(* it after a crash of the process or of the machine. BlockLog is about    *)
(* what the entries mean.                                                  *)
(*                                                                         *)
(* A byte is zero, or the k-th byte of the n-th entry written, of a known  *)
(* length. So a checksum matches exactly when no byte of the entry differs.*)
(***************************************************************************)
EXTENDS Naturals, FiniteSets, SequencesExt

CONSTANTS
    MapSize,        \* MAP_SIZE
    HeaderLen,      \* HEADER_LEN_BYTES
    Payloads,       \* lengths of the data of an entry
    Fsync,          \* CoreOptions::fsync
    Readers,        \* threads that hold blocks read from the log
    Maps,           \* names of memory maps
    None,           \* not a memory map
    MaxEntries,     \* bound on the entries written
    MaxLosses       \* bound on the crashes of the machine

ASSUME WalAssumption ==
    /\ {MapSize, HeaderLen, MaxEntries, MaxLosses} \subseteq Nat
    /\ HeaderLen > 0 /\ None \notin Maps /\ Fsync \in BOOLEAN
    /\ \A n \in Payloads : n \in Nat /\ n + HeaderLen <= MapSize

VARIABLES
    up,             \* the validator is running
    disk,           \* the bytes of the file
    synced,         \* the number of them that survive a crash of the machine
    written,        \* the entries: position and length
    own,            \* an own block that is written and not yet given to peers
    announced,      \* the own blocks given to peers
    kept,           \* entries that a replay has to find
    whole,          \* no crash of the machine left a hole or a torn entry
    losses,
    maps,           \* WalReader::maps, by region
    held            \* the map of the buffer that a reader holds

vars == <<up, disk, synced, written, own, announced, kept, whole, losses, maps, held>>

-----------------------------------------------------------------------------
(* The format *)

Region(p) == p \div MapSize
RegionStart(p) == MapSize * Region(p)                   \* offset(p)

Zero == <<>>
At(d, p) == IF p < Len(d) THEN d[p + 1] ELSE Zero
Zeros(n) == [k \in 1 .. n |-> Zero]
Entry(n, len) == [k \in 1 .. len |-> <<n, len, k>>]

\* The zeros that writev writes before an entry.
Padding(pos, len) ==
    IF Region(pos) # Region(pos + len - 1) THEN RegionStart(pos + len - 1) - pos ELSE 0

\* WalReader::try_read: an entry, nothing (zeros), or a panic: when the header
\* is not in the region, is torn, or does not match the data.
TryRead(d, p) ==
    IF p + HeaderLen > RegionStart(p) + MapSize THEN [panic |-> TRUE]
    ELSE IF \A k \in 0 .. HeaderLen - 1 : At(d, p + k) = Zero THEN [zero |-> TRUE]
    ELSE LET first == At(d, p) IN
         IF /\ first # Zero
            /\ first[3] = 1 /\ p + first[2] <= RegionStart(p) + MapSize
            /\ \A k \in 0 .. first[2] - 1 : At(d, p + k) = <<first[1], first[2], k + 1>>
         THEN [entry |-> first[1], len |-> first[2]]
         ELSE [panic |-> TRUE]

\* WalIterator::try_position, for an iterator that is at no position then.
TryPosition(d, it, p) ==
    IF p >= Len(d) THEN it
    ELSE LET found == TryRead(d, p) IN
         IF "panic" \in DOMAIN found THEN [it EXCEPT !.panicked = TRUE]
         ELSE IF "zero" \in DOMAIN found THEN it
         ELSE [it EXCEPT !.next = p + found.len, !.at = TRUE,
                         !.items = Append(@, [pos |-> p, entry |-> found.entry])]

\* Faulty: the iterator ends at the first padding.
IterNextInRegion(d, it) ==
    IF it.panicked \/ ~it.at THEN it
    ELSE TryPosition(d, [it EXCEPT !.at = FALSE], it.next)

\* WalIterator::next: the entry at the position, or else the first of the next
\* region.
IterNext(d, it) ==
    IF it.panicked \/ ~it.at THEN it
    ELSE LET here == TryPosition(d, [it EXCEPT !.at = FALSE], it.next) IN
         IF here.at \/ here.panicked \/ it.next = RegionStart(it.next) THEN here
         ELSE TryPosition(d, here, RegionStart(it.next) + MapSize)

\* iter_until(writer), to its end.
IterUntil(d) ==
    LET iter[n \in 0 .. Len(d) + 1] ==
            IF n = 0
            THEN [at |-> TRUE, next |-> 0, panicked |-> FALSE, items |-> <<>>]
            ELSE IterNext(d, iter[n - 1])
    IN  iter[Len(d) + 1]

Replayed(d) == {x.entry : x \in ToSet(IterUntil(d).items)}

-----------------------------------------------------------------------------
(* The writer and the syncers *)

Init ==
    /\ up = TRUE /\ disk = <<>> /\ synced = 0 /\ written = <<>>
    /\ own = {} /\ announced = {} /\ kept = {} /\ whole = TRUE /\ losses = 0
    /\ maps = [g \in {} |-> None] /\ held = [r \in Readers |-> None]

\* WalWriter::writev at the end of the file. Nothing else is written while an
\* own block is not announced: both are done by the core thread.
Write(n, isOwn) ==
    /\ up /\ own = {} /\ Len(written) < MaxEntries
    /\ \E len \in {n + HeaderLen}, id \in {Len(written) + 1} :
       \E pos \in {Len(disk) + Padding(Len(disk), len)} :
        /\ disk' = disk \o Zeros(pos - Len(disk)) \o Entry(id, len)
        /\ written' = Append(written, [pos |-> pos, len |-> len])
        /\ own' = IF isOwn THEN {id} ELSE {}
        /\ kept' = IF whole THEN kept \cup {id} ELSE kept
    /\ UNCHANGED <<up, synced, announced, whole, losses, maps, held>>

\* WalSyncer::sync every second, in a thread of its own.
Sync ==
    /\ up /\ synced < Len(disk)
    /\ synced' = Len(disk)
    /\ UNCHANGED <<up, disk, written, own, announced, kept, whole, losses, maps, held>>

\* Faulty: the block is given to peers before the log is synced.
SyncedLater == synced

\* WalWriter::sync before try_new_block returns, if the options say so.
SyncedFirst == IF Fsync THEN Len(disk) ELSE synced

\* The end of Core::try_new_block, and new_block_ready.
Announce ==
    /\ up /\ own # {}
    /\ synced' = SyncedFirst
    /\ announced' = announced \cup (own \cap kept)
    /\ own' = {}
    /\ UNCHANGED <<up, disk, written, kept, whole, losses, maps, held>>

\* The process ends; the kernel still has what was written. A graceful stop is
\* no different: AsyncWalSyncer::run ends without a last sync.
Crash ==
    /\ up
    /\ up' = FALSE /\ own' = {}
    /\ maps' = [g \in {} |-> None] /\ held' = [r \in Readers |-> None]
    /\ UNCHANGED <<disk, synced, written, announced, kept, whole, losses>>

\* The machine loses power: of the bytes that were not synced some first ones are
\* on the disk, and the file may be longer than that, with zeros.
PowerLoss ==
    /\ losses < MaxLosses
    /\ up' = FALSE /\ own' = {}
    /\ losses' = losses + 1
    /\ \E n \in synced .. Len(disk) : \E m \in n .. Len(disk) :
       \E d \in {SubSeq(disk, 1, n) \o Zeros(m - n)} :
       \E it \in {IterUntil(d)} :
        /\ disk' = d
        /\ synced' = m
        /\ whole' = (whole /\ ~it.panicked /\ it.next = m)
    /\ kept' = {id \in kept : written[id].pos + written[id].len <= synced}
    /\ maps' = [g \in {} |-> None] /\ held' = [r \in Readers |-> None]
    /\ UNCHANGED <<written, announced>>

\* walf and BlockStore::open: a panic while the file is replayed is the end of it.
Open ==
    /\ ~up /\ ~IterUntil(disk).panicked
    /\ up' = TRUE
    /\ UNCHANGED <<disk, synced, written, own, announced, kept, whole, losses, maps, held>>

-----------------------------------------------------------------------------
(* Readers and their memory maps. The maps of a process are released one   *)
(* by one: a map lives as long as WalReader::maps or a buffer refers to it.*)

Live == {maps[g] : g \in DOMAIN maps} \cup {held[r].map : r \in {x \in Readers : held[x] # None}}

\* read_index of a block that is unloaded: WalReader::read, which takes the map
\* of the region, made anew if there is none (map_offset).
Read(r) ==
    /\ up /\ held[r] = None
    /\ \E x \in ToSet(IterUntil(disk).items) : \E g \in {Region(x.pos)} :
       \E map \in IF g \in DOMAIN maps THEN {maps[g]}
                  ELSE {CHOOSE m \in Maps \ Live : TRUE} :
        /\ maps' = [y \in DOMAIN maps \cup {g} |-> IF y = g THEN map ELSE maps[y]]
        /\ held' = [held EXCEPT ![r] = IF written[x.entry].len = HeaderLen THEN None
                                       ELSE [map |-> map, region |-> g]]
    /\ UNCHANGED <<up, disk, synced, written, own, announced, kept, whole, losses>>

Drop(r) ==
    /\ held[r] # None
    /\ held' = [held EXCEPT ![r] = None]
    /\ UNCHANGED <<up, disk, synced, written, own, announced, kept, whole, losses, maps>>

\* Faulty: every map is released.
InUseNot(g) == FALSE

\* downcast_mut finds another reference to the map.
InUse(g) == \E r \in Readers : held[r] # None /\ held[r].map = maps[g]

\* WalReader::cleanup
Cleanup ==
    /\ DOMAIN maps # {}
    /\ maps' = [g \in {x \in DOMAIN maps : InUse(x)} |-> maps[g]]
    /\ UNCHANGED <<up, disk, synced, written, own, announced, kept, whole, losses, held>>

-----------------------------------------------------------------------------

Next ==
    \/ \E n \in Payloads, isOwn \in BOOLEAN : Write(n, isOwn)
    \/ Sync \/ Announce \/ Crash \/ PowerLoss \/ Open
    \/ \E r \in Readers : Read(r) \/ Drop(r)
    \/ Cleanup

Spec == Init /\ [][Next]_vars

-----------------------------------------------------------------------------
(* Properties *)

\* A replay (WalIterator) only finds entries that were written, each where it was
\* written and to its last byte, in the order of writing and once, whatever a crash of the machine has
\* left of the file.
NothingInvented ==
    \E items \in {IterUntil(disk).items} :
        /\ \A i \in DOMAIN items : \E e \in {written[items[i].entry]} :
               /\ items[i].pos = e.pos
               /\ \A k \in 1 .. e.len : At(disk, e.pos + k - 1) = Entry(items[i].entry, e.len)[k]
        /\ \A i, j \in DOMAIN items : i < j => items[i].entry < items[j].entry

\* A replay finds every entry that was synced, or that no crash of the machine
\* has put at risk, over all the paddings. Entries written after a crash of the
\* machine that left a hole are not meant: next() says they are still to be done.
KeptReplayed == kept \subseteq Replayed(disk)

\* A replay finds what is in the log, all of it and nothing else.
ReplayIsExact == NothingInvented /\ KeptReplayed

\* With CoreOptions::production an own block that peers have seen is replayed:
\* the validator never proposes another one in its round.
AnnouncedReplayed == announced \subseteq Replayed(disk)

\* A region has one memory map at a time: cleanup releases no map that a buffer
\* of a reader still refers to.
OneMap ==
    \A r \in Readers : held[r] # None =>
        held[r].region \in DOMAIN maps /\ maps[held[r].region] = held[r].map

\* "Iter all entries up to writer position at the time iter_until(...) is called"
\* (wal.rs), where the machine has never crashed.
IteratesAll ==
    losses = 0 => /\ ~IterUntil(disk).panicked
                  /\ Replayed(disk) = 1 .. Len(written)
=============================================================================
