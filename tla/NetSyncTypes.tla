---------------------------- MODULE NetSyncTypes ----------------------------
(***************************************************************************)
(* For NetSyncProofs: the inductive invariant of NetSync, facts about the  *)
(* queues, messages and streams it is built from, and the types.           *)
(***************************************************************************)
EXTENDS NetSync, FiniteSetTheorems, WellFoundedInduction, TLAPS

\* Zenon is the prover of a leaf that does not name another one.
USE Zenon

-----------------------------------------------------------------------------
(* Types *)

Blocks == [author : Nodes \cup {Far(a) : a \in Nodes}, round : 1 .. Rounds]

Messages ==
    [kind : {"subscribe"}, round : Nat]
        \cup [kind : {"block"}, block : Blocks]
        \cup [kind : {"request", "not_found"}, refs : SUBSET Blocks]

Tasks == {"none", "start", "loop", "serve", "end"}

Replies == [found : SUBSET Blocks, lost : SUBSET Blocks]

StreamStates == [at : {"none", "read", "send", "wait"}, round : Nat,
                 batch : SUBSET (1 .. Rounds), woken : BOOLEAN]

TransportTypeOK ==
    /\ work \in [Nodes -> [at : {"sleep", "active", "up"}, stream : Streams \cup {0}]]
    /\ \A n \in Nodes : work[n].at # "sleep" => work[n].stream \in Streams
    /\ ends \in [Streams -> SUBSET Nodes]
    /\ greeted \in [Streams -> SUBSET Nodes]
    /\ accepted \in [Nodes -> Seq(Streams)]
    /\ made \in [Nodes -> Seq(Streams)]
    /\ out \in [Nodes -> [Streams -> Seq(Messages)]]
    /\ in \in [Nodes -> [Streams -> Seq(Messages)]]

SyncTypeOK ==
    /\ received \in [Nodes -> SUBSET Blocks]
    /\ task \in [Nodes -> [Streams -> Tasks]]
    /\ reply \in [Nodes -> [Streams -> Replies]]
    /\ stream \in [Nodes -> [Streams -> StreamStates]]
    /\ connected \in [Nodes -> BOOLEAN]
    /\ sender \in [Nodes -> Streams \cup {0}]

NetTypeOK == TransportTypeOK /\ SyncTypeOK

-----------------------------------------------------------------------------
(* The inductive invariant *)

\* Nothing runs at n for the Connection named i, and none is waiting there.
Untouched(n, i) ==
    /\ i \notin Range(made[n]) /\ task[n][i] = "none" /\ stream[n][i].at = "none"

\* A stream the Server has passed on and the Worker has not taken is new on both
\* sides: no task, nothing received, not yet greeted by the side that accepts.
\* Fresh(n, k, i): so is i, the k-th that waits for the Worker of n.
Fresh(n, k, i) ==
    /\ \A l \in DOMAIN accepted[n] : accepted[n][l] = i => l = k
    /\ i \notin Range(accepted[Other(n)])
    /\ n \notin greeted[i] /\ work[n].stream # i
    /\ \A m \in Nodes : Untouched(m, i) /\ in[m][i] = <<>> /\ ~Carries(m, i)

AcceptedIsNew ==
    \A n \in Nodes : \A k \in DOMAIN accepted[n] : Fresh(n, k, accepted[n][k])

\* A stream whose handshake is awaited is new on this side, and nothing has come
\* over it to the other side.
ActiveIsNew ==
    \A n \in Nodes, i \in Streams :
        work[n] = Working("active", i) =>
            /\ Untouched(n, i)
            /\ stream[Other(n)][i].at = "none" /\ in[Other(n)][i] = <<>>

\* A task that gave up sending has a Connection the Worker has left for good.
EndedIsDropped ==
    \A n \in Nodes, i \in Streams : task[n][i] = "end" => ~Carries(n, i)

\* A block of a validator is one it has stored itself.
Genuine(b) == b.author \in Nodes => b \in received[b.author]

\* The own blocks of a validator have no gap.
OwnBlocksDense ==
    \A n \in Nodes : \A q \in 1 .. Rounds :
        Block(n, q) \in received[n] => \A r \in 1 .. q : Block(n, r) \in received[n]

\* A message n has sent carries a block that exists, or asks for what comes after
\* blocks that n has.
Honest(n, m) ==
    /\ m.kind = "block" => Genuine(m.block)
    /\ m.kind = "subscribe" => \A r \in 1 .. m.round : Block(Other(n), r) \in received[n]

BlocksAreGenuine ==
    \A n \in Nodes :
        /\ \A b \in received[n] : Genuine(b)
        /\ \A i \in Streams : \A b \in reply[n][i].found : Genuine(b)

MessagesAreHonest ==
    \A n \in Nodes, i \in Streams :
        /\ \A m \in Range(out[n][i]) : Honest(n, m)
        /\ \A m \in Range(in[Other(n)][i]) : Honest(n, m)

\* What a stream has read and not yet sent are the own blocks that come next.
ReadNext(n, s) ==
    s.at = "send" =>
        /\ s.batch # {}
        /\ \A q \in s.batch :
            /\ q > s.round /\ Block(n, q) \in received[n]
            /\ \A r \in 1 .. q : r > s.round => r \in s.batch

BatchIsNext == \A n \in Nodes, i \in Streams : ReadNext(n, stream[n][i])

NetIInv ==
    /\ NetTypeOK
    /\ RegistrationIsCurrent /\ NoOrphanStream
    /\ AcceptedIsNew /\ ActiveIsNew /\ EndedIsDropped
    /\ OwnBlocksDense /\ BlocksAreGenuine /\ MessagesAreHonest /\ BatchIsNext
    /\ StreamSkipsNothing

-----------------------------------------------------------------------------
(* Two validators, sequences and messages *)

\* The peer of a validator (the only other one here).
LEMMA Peers ==
    ASSUME NEW n \in Nodes
    PROVE  /\ Other(n) \in Nodes /\ Other(n) # n
           /\ Other(Other(n)) = n
           /\ \A m \in Nodes : m = n \/ m = Other(n)
  <1>1. PICK x \in Nodes, y \in Nodes : x # y /\ Nodes = {x, y}
    BY TransportAssumption
  <1>2. \A m \in Nodes : Other(m) \in Nodes /\ Other(m) # m
    BY <1>1 DEF Other
  <1> QED
    BY <1>1, <1>2

\* What a channel or a queue holds after tokio's mpsc has sent or received.
LEMMA Queues ==
    ASSUME NEW S, NEW s \in Seq(S)
    PROVE  /\ Range(s) \subseteq S
           /\ \A x : Range(Append(s, x)) = Range(s) \cup {x}
           /\ \A x \in S : Append(s, x) \in Seq(S)
           /\ s # <<>> => /\ Tail(s) \in Seq(S) /\ Head(s) \in S
                          /\ Range(s) = {Head(s)} \cup Range(Tail(s))
           /\ Range(<<>>) = {}
  <1>1. Range(s) \subseteq S /\ Range(<<>>) = {}
    BY SMT DEF Range
  <1>2. \A x : Range(Append(s, x)) = Range(s) \cup {x}
    <2> TAKE x
    <2>1. /\ Len(Append(s, x)) = Len(s) + 1 /\ DOMAIN Append(s, x) = 1 .. Len(s) + 1
          /\ \A k \in 1 .. Len(s) : Append(s, x)[k] = s[k]
          /\ Append(s, x)[Len(s) + 1] = x
          /\ DOMAIN s = 1 .. Len(s) /\ Len(s) \in Nat
      BY SMT
    <2>2. ASSUME NEW y \in Range(Append(s, x))
          PROVE  y \in Range(s) \cup {x}
      BY <2>1, <2>2, SMT DEF Range
    <2>3. ASSUME NEW y \in Range(s) \cup {x}
          PROVE  y \in Range(Append(s, x))
      BY <2>1, <2>3, SMT DEF Range
    <2> QED
      BY <2>2, <2>3
  <1>3. \A x \in S : Append(s, x) \in Seq(S)
    BY SMT
  <1>4. ASSUME s # <<>>
        PROVE  /\ Tail(s) \in Seq(S) /\ Head(s) \in S
               /\ Range(s) = {Head(s)} \cup Range(Tail(s))
    <2>1. /\ Tail(s) \in Seq(S) /\ Head(s) \in S /\ Len(Tail(s)) = Len(s) - 1
          /\ \A k \in 1 .. Len(Tail(s)) : Tail(s)[k] = s[k + 1]
      BY <1>4, SMT
    <2>2. /\ DOMAIN s = 1 .. Len(s) /\ Len(s) \in Nat \ {0} /\ Head(s) = s[1]
          /\ DOMAIN Tail(s) = 1 .. Len(s) - 1
      BY <1>4, <2>1, SMT
    <2>3. ASSUME NEW y \in Range(s)
          PROVE  y \in {Head(s)} \cup Range(Tail(s))
      <3>1. PICK k \in 1 .. Len(s) : y = s[k]
        BY <2>2, <2>3 DEF Range
      <3>2. CASE k = 1
        BY <2>2, <3>1, <3>2
      <3>3. CASE k # 1
        <4>1. k - 1 \in 1 .. Len(s) - 1 /\ Tail(s)[k - 1] = y
          BY <2>1, <2>2, <3>1, <3>3, SMT
        <4> QED
          BY <4>1, <2>2 DEF Range
      <3> QED
        BY <3>2, <3>3
    <2>4. ASSUME NEW y \in {Head(s)} \cup Range(Tail(s))
          PROVE  y \in Range(s)
      <3>1. CASE y = Head(s)
        BY <2>2, <3>1, SMT DEF Range
      <3>2. CASE y \in Range(Tail(s))
        <4>1. PICK k \in 1 .. Len(s) - 1 : y = Tail(s)[k]
          BY <2>2, <3>2 DEF Range
        <4>2. k + 1 \in DOMAIN s /\ s[k + 1] = y
          BY <4>1, <2>1, <2>2, SMT
        <4> QED
          BY <4>2 DEF Range
      <3> QED
        BY <2>4, <3>1, <3>2
    <2> QED
      BY <2>1, <2>3, <2>4
  <1> QED
    BY <1>1, <1>2, <1>3, <1>4

\* The fetcher adds several requests to a channel at once (sync_strategy).
LEMMA Concatenated ==
    ASSUME NEW S, NEW s \in Seq(S), NEW t \in Seq(S)
    PROVE  s \o t \in Seq(S) /\ Range(s \o t) = Range(s) \cup Range(t)
  <1>1. /\ s \o t \in Seq(S) /\ Len(s \o t) = Len(s) + Len(t)
        /\ \A i \in 1 .. Len(s) + Len(t) :
              (s \o t)[i] = IF i <= Len(s) THEN s[i] ELSE t[i - Len(s)]
    BY SMT
  <1>2. /\ DOMAIN s = 1 .. Len(s) /\ DOMAIN t = 1 .. Len(t)
        /\ DOMAIN (s \o t) = 1 .. Len(s) + Len(t) /\ Len(s) \in Nat /\ Len(t) \in Nat
    BY <1>1, SMT
  <1>3. ASSUME NEW y \in Range(s \o t)
        PROVE  y \in Range(s) \cup Range(t)
    <2>1. PICK i \in 1 .. Len(s) + Len(t) : y = (s \o t)[i]
      BY <1>2, <1>3 DEF Range
    <2>2. CASE i <= Len(s)
      BY <1>1, <1>2, <2>1, <2>2, SMT DEF Range
    <2>3. CASE ~(i <= Len(s))
      <3>1. i - Len(s) \in DOMAIN t /\ t[i - Len(s)] = y
        BY <1>1, <1>2, <2>1, <2>3, SMT
      <3> QED
        BY <3>1 DEF Range
    <2> QED
      BY <2>2, <2>3
  <1>4. ASSUME NEW y \in Range(s)
        PROVE  y \in Range(s \o t)
    BY <1>1, <1>2, <1>4, SMT DEF Range
  <1>5. ASSUME NEW y \in Range(t)
        PROVE  y \in Range(s \o t)
    <2>1. PICK i \in 1 .. Len(t) : y = t[i]
      BY <1>2, <1>5 DEF Range
    <2>2. i + Len(s) \in DOMAIN (s \o t) /\ (s \o t)[i + Len(s)] = y
      BY <1>1, <1>2, <2>1, SMT
    <2> QED
      BY <2>2 DEF Range
  <1> QED
    BY <1>1, <1>3, <1>4, <1>5

\* The blocks of the model and what they include.
LEMMA BlockFacts ==
    /\ \A n \in Nodes, r \in 1 .. Rounds :
          Block(n, r) \in Blocks /\ Block(n, r).author = n /\ Block(n, r).round = r
    /\ \A b \in Blocks : Includes(b) \subseteq Blocks
    /\ \A b \in Blocks : b = Block(b.author, b.round)
    /\ \A n \in Nodes, r \in 1 .. Rounds : \A b \in Includes(Block(n, r)) :
          b.author \in Nodes => r > 1 /\ b = Block(n, r - 1)
  <1>   Rounds \in Nat
    BY NetSyncAssumption
  <1>1. \A n \in Nodes, r \in 1 .. Rounds :
          Block(n, r) \in Blocks /\ Block(n, r).author = n /\ Block(n, r).round = r
    BY DEF Blocks, Block
  <1>2. ASSUME NEW b \in Blocks, NEW x \in Includes(b)
        PROVE  x \in Blocks
    <2>1. /\ b.round \in 1 .. Rounds /\ x.round > 0
          /\ \/ x = Block(b.author, b.round - 1)
             \/ b.author \in Nodes /\ x = Block(Far(b.author), b.round - 1)
      BY <1>2 DEF Includes, Blocks
    <2>2. b.author \in Nodes \cup {Far(a) : a \in Nodes}
      BY DEF Blocks
    <2>3. x.round = b.round - 1 /\ b.round - 1 \in 1 .. Rounds
      BY <2>1, SMT DEF Block
    <2> QED
      BY <2>1, <2>2, <2>3, SMT DEF Block, Blocks
  <1>3. \A b \in Blocks : b = Block(b.author, b.round)
    BY SMT DEF Blocks, Block
  <1>4. ASSUME NEW n \in Nodes, NEW r \in 1 .. Rounds, NEW b \in Includes(Block(n, r)),
               b.author \in Nodes
        PROVE  r > 1 /\ b = Block(n, r - 1)
    <2>1. /\ b.round > 0
          /\ b = Block(n, r - 1) \/ b = Block(Far(n), r - 1)
      BY <1>1, <1>4 DEF Includes
    <2>2. Far(n) \notin Nodes
      BY NetSyncAssumption DEF Far
    <2>3. b = Block(n, r - 1)
      BY <1>4, <2>1, <2>2, SMT DEF Block
    <2>4. b.round = r - 1
      BY <2>3 DEF Block
    <2> QED
      BY <2>1, <2>3, <2>4, SMT
  <1> QED
    BY <1>1, <1>2, <1>3, <1>4

\* What the constructors of NetworkMessage make, and what its kinds carry.
LEMMA MessageTypes ==
    /\ \A r \in Nat : SubscribeOwnFrom(r) \in Messages
    /\ \A b \in Blocks : BlockMessage(b) \in Messages
    /\ \A refs \in SUBSET Blocks : RequestBlocks(refs) \in Messages
                                /\ BlockNotFound(refs) \in Messages
    /\ \A m \in Messages : /\ m.kind = "subscribe" => m.round \in Nat
                           /\ m.kind = "block" => m.block \in Blocks
                           /\ m.kind = "request" => m.refs \in SUBSET Blocks
  <1>1. /\ \A r \in Nat : SubscribeOwnFrom(r) \in Messages
        /\ \A b \in Blocks : BlockMessage(b) \in Messages
        /\ \A refs \in SUBSET Blocks : RequestBlocks(refs) \in Messages
                                    /\ BlockNotFound(refs) \in Messages
    BY DEF Messages, SubscribeOwnFrom, BlockMessage, RequestBlocks, BlockNotFound
  <1>2. ASSUME NEW m \in Messages
        PROVE  /\ m.kind = "subscribe" => m.round \in Nat
               /\ m.kind = "block" => m.block \in Blocks
               /\ m.kind = "request" => m.refs \in SUBSET Blocks
    <2>1. CASE m \in [kind : {"subscribe"}, round : Nat]
      BY <2>1
    <2>2. CASE m \in [kind : {"block"}, block : Blocks]
      BY <2>2
    <2>3. CASE m \in [kind : {"request", "not_found"}, refs : SUBSET Blocks]
      BY <2>3
    <2> QED
      BY <1>2, <2>1, <2>2, <2>3 DEF Messages
  <1> QED
    BY <1>1, <1>2

\* The numbers have least elements: of the rounds a stream has read, and of the
\* rounds stored counted down from the last one.
LEMMA LeastNumber ==
    ASSUME NEW T \in SUBSET Nat, T # {}
    PROVE  \E t \in T : \A y \in T : t <= y
  <1> DEFINE Less == {p \in Nat \X Nat : p[1] < p[2]}
  <1>1. IsWellFoundedOn(Less, Nat)
    BY NatLessThanWellFounded DEF OpToRel
  <1>2. \A x, y \in Nat : y < x => <<y, x>> \in Less
    OBVIOUS
  <1> HIDE DEF Less
  <1>3. PICK t \in T : \A y \in T : ~ (<<y, t>> \in Less)
    BY <1>1, WFMin
  <1>4. ASSUME NEW y \in T
        PROVE  t <= y
    <2>1. y \in Nat /\ t \in Nat /\ ~(y < t)
      BY <1>2, <1>3
    <2> QED
      BY <2>1, SMT
  <1> QED
    BY <1>3, <1>4

\* A stream sends the least round it has read first.
LEMMA LeastRound ==
    ASSUME NEW T \in SUBSET (1 .. Rounds), T # {}
    PROVE  Min(T) \in T /\ \A y \in T : Min(T) <= y
  <1>1. PICK t \in T : \A y \in T : t <= y
    BY LeastNumber, NetSyncAssumption, SMT
  <1> QED
    BY <1>1 DEF Min

\* last_seen_by_authority finds a block that is stored, or none.
LEMMA LastSeenFacts ==
    ASSUME NEW n \in Nodes, NEW a \in Nodes, received[n] \in SUBSET Blocks
    PROVE  /\ LastSeen(n, a) \in Nat
           /\ \A r \in 1 .. LastSeen(n, a) : Block(a, r) \in received[n]
  <1> DEFINE S == {0} \cup {b.round : b \in {x \in Stored(n) : x.author = a}}
             T == {Rounds - x : x \in S}
  <1>   Rounds \in Nat
    BY NetSyncAssumption
  <1>1. \A b \in Stored(n) : b \in received[n] /\ b \in Blocks /\ b.round \in 1 .. Rounds
    BY DEF Stored, Blocks
  <1>2. S \subseteq 0 .. Rounds /\ 0 \in S
    BY <1>1, SMT
  <1>3. T \subseteq Nat /\ T # {}
    BY <1>2, SMT
  <1>5. PICK t \in T : \A y \in T : t <= y
    BY <1>3, LeastNumber
  <1>6. PICK x \in S : t = Rounds - x
    OBVIOUS
  <1>7. \A y \in S : y <= x
    <2> TAKE y \in S
    <2>1. Rounds - y \in T
      OBVIOUS
    <2>2. t <= Rounds - y
      BY <1>5, <2>1
    <2> QED
      BY <1>2, <1>6, <2>2, SMT
  <1>8. Max(S) \in S
    BY <1>7 DEF Max
  <1>9. LastSeen(n, a) \in S
    BY <1>8 DEF LastSeen
  <1> HIDE DEF S, T
  <1>10. LastSeen(n, a) \in Nat
    <2>1. LastSeen(n, a) \in 0 .. Rounds
      BY <1>2, <1>9
    <2> HIDE DEF LastSeen
    <2> QED
      BY <2>1, SMT
  <1>11. CASE LastSeen(n, a) = 0
    BY <1>11, SMT
  <1>12. CASE LastSeen(n, a) # 0
    <2>1. PICK b \in Stored(n) : b.author = a /\ b.round = LastSeen(n, a)
      BY <1>9, <1>12 DEF S
    <2>2. \A r \in 1 .. b.round : Block(b.author, r) \in received[n]
      BY <2>1 DEF Stored
    <2>3. ASSUME NEW r \in 1 .. LastSeen(n, a)
          PROVE  Block(a, r) \in received[n]
      <3>1. r \in 1 .. b.round
        BY <2>1
      <3> QED
        BY <2>1, <2>2, <3>1
    <2> QED
      BY <1>10, <2>3
  <1> QED
    BY <1>10, <1>11, <1>12

-----------------------------------------------------------------------------
(* Types *)

\* The state before anybody has connected is well typed.
LEMMA InitTypes == Init => NetTypeOK
  BY TransportAssumption, NetSyncAssumption, SMT
  DEF Init, TransportInit, SyncInit, NetTypeOK, TransportTypeOK, SyncTypeOK, Working,
      NoReply, NoStream, Tasks, Replies, StreamStates

\* A step of one task changes what one validator holds for one Connection.
LEMMA OneCell ==
    ASSUME NEW S, NEW f \in [Nodes -> [Streams -> S]], NEW n \in Nodes, NEW i \in Streams
    PROVE  /\ f[n][i] \in S
           /\ \A v \in S :
                /\ [f EXCEPT ![n][i] = v] \in [Nodes -> [Streams -> S]]
                /\ \A m \in Nodes, j \in Streams :
                      [f EXCEPT ![n][i] = v][m][j] = IF m = n /\ j = i THEN v ELSE f[m][j]
  OBVIOUS

\* What it holds afterwards.
LEMMA CellIs ==
    ASSUME NEW S, NEW f \in [Nodes -> [Streams -> S]], NEW n \in Nodes, NEW i \in Streams,
           NEW v, NEW g, g = [f EXCEPT ![n][i] = v]
    PROVE  \A m \in Nodes, j \in Streams : g[m][j] = IF m = n /\ j = i THEN v ELSE f[m][j]
BY SMT

\* A stream that waits for a Worker is fresh.
LEMMA Accepted ==
    ASSUME NetTypeOK, AcceptedIsNew, NEW n \in Nodes, NEW k \in DOMAIN accepted[n]
    PROVE  accepted[n][k] \in Streams /\ Fresh(n, k, accepted[n][k])
BY SMT DEF AcceptedIsNew, NetTypeOK, TransportTypeOK

\* What a validator has to send over each Connection.
LEMMA OutType == NetTypeOK => out \in [Nodes -> [Streams -> Seq(Messages)]]
BY DEF NetTypeOK, TransportTypeOK, SyncTypeOK

\* What it has received over each.
LEMMA InType == NetTypeOK => in \in [Nodes -> [Streams -> Seq(Messages)]]
BY DEF NetTypeOK, TransportTypeOK, SyncTypeOK

\* What connection_task does for each.
LEMMA TaskType == NetTypeOK => task \in [Nodes -> [Streams -> Tasks]]
BY DEF NetTypeOK, TransportTypeOK, SyncTypeOK

\* What the fetcher answers over each.
LEMMA ReplyType == NetTypeOK => reply \in [Nodes -> [Streams -> Replies]]
BY DEF NetTypeOK, TransportTypeOK, SyncTypeOK

\* What is subscribed over each.
LEMMA StreamType == NetTypeOK => stream \in [Nodes -> [Streams -> StreamStates]]
BY DEF NetTypeOK, TransportTypeOK, SyncTypeOK

\* A stream at the start, after a notification, after it waited, and after it read.
Started(r) == [NoStream EXCEPT !.at = "read", !.round = r]
Woken(s) == [s EXCEPT !.woken = TRUE]
Rested(s) == [s EXCEPT !.at = "read", !.woken = FALSE]
Filled(s, batch) ==
    [s EXCEPT !.batch = batch, !.at = IF batch = {} THEN "wait" ELSE "send"]

\* A read of the own blocks fills the batch of the stream and leaves the channel.
LEMMA ReadFills ==
    ASSUME NetTypeOK, NEW n \in Nodes, NEW i \in Streams, ReadOwnBlocks(n, i)
    PROVE  /\ stream' = [stream EXCEPT ![n][i] =
                            Filled(stream[n][i], GetOwnBlocks(n, stream[n][i].round))]
           /\ out' = out
  <1>   DEFINE b == GetOwnBlocks(n, stream[n][i].round)
  <1>1. /\ stream' = [stream EXCEPT ![n][i].batch = b,
                                    ![n][i].at = IF b = {} THEN "wait" ELSE "send"]
        /\ out' = out
    BY DEF ReadOwnBlocks, transportvars
  <1>2. stream \in [Nodes -> [Streams -> StreamStates]]
    BY StreamType
  <1> HIDE DEF b
  <1> QED
    BY <1>1, <1>2 DEF Filled, b

\* A subscription starts a stream at its round, a shutdown leaves none.
LEMMA NewStream ==
    /\ NoStream \in StreamStates /\ NoStream.at = "none"
    /\ \A r \in Nat : /\ Started(r) \in StreamStates
                      /\ Started(r).at = "read" /\ Started(r).round = r
  BY NetSyncAssumption DEF NoStream, StreamStates, Started

\* What a notification, a wait and reading own blocks do to a stream.
LEMMA OldStream ==
    ASSUME NEW s \in StreamStates
    PROVE  /\ s.at \in {"none", "read", "send", "wait"} /\ s.round \in Nat
           /\ s.batch \in SUBSET (1 .. Rounds)
           /\ Woken(s) \in StreamStates
           /\ Woken(s).at = s.at /\ Woken(s).round = s.round /\ Woken(s).batch = s.batch
           /\ Rested(s) \in StreamStates
           /\ Rested(s).at = "read" /\ Rested(s).round = s.round
           /\ \A batch \in SUBSET (1 .. Rounds) :
                /\ Filled(s, batch) \in StreamStates
                /\ Filled(s, batch).at = IF batch = {} THEN "wait" ELSE "send"
                /\ Filled(s, batch).round = s.round /\ Filled(s, batch).batch = batch
  <1>1. /\ s.at \in {"none", "read", "send", "wait"} /\ s.round \in Nat
        /\ s.batch \in SUBSET (1 .. Rounds)
    BY DEF StreamStates
  <1>2. /\ Woken(s) \in StreamStates
        /\ Woken(s).at = s.at /\ Woken(s).round = s.round /\ Woken(s).batch = s.batch
    BY DEF StreamStates, Woken
  <1>3. /\ Rested(s) \in StreamStates
        /\ Rested(s).at = "read" /\ Rested(s).round = s.round
    BY DEF StreamStates, Rested
  <1>4. ASSUME NEW batch \in SUBSET (1 .. Rounds)
        PROVE  /\ Filled(s, batch) \in StreamStates
               /\ Filled(s, batch).at = IF batch = {} THEN "wait" ELSE "send"
               /\ Filled(s, batch).round = s.round /\ Filled(s, batch).batch = batch
    BY DEF StreamStates, Filled
  <1> QED
    BY <1>1, <1>2, <1>3, <1>4

\* What sending one of them does to it.
LEMMA SentStream ==
    ASSUME NEW s \in StreamStates, NEW r \in 1 .. Rounds, NEW rest \in SUBSET (1 .. Rounds)
    PROVE  /\ Sent(s, r, rest) \in StreamStates
           /\ Sent(s, r, rest).round = r /\ Sent(s, r, rest).batch = rest
           /\ Sent(s, r, rest).at = IF rest = {} THEN "wait" ELSE "send"
  <1>1. r \in Nat
    BY NetSyncAssumption, SMT
  <1> DEFINE at == IF rest = {} THEN "wait" ELSE "send"
  <1>2. at \in {"none", "read", "send", "wait"}
    OBVIOUS
  <1> HIDE DEF at
  <1>3. /\ [s EXCEPT !.round = r, !.batch = rest, !.at = at] \in StreamStates
        /\ [s EXCEPT !.round = r, !.batch = rest, !.at = at].round = r
        /\ [s EXCEPT !.round = r, !.batch = rest, !.at = at].batch = rest
        /\ [s EXCEPT !.round = r, !.batch = rest, !.at = at].at = at
    BY <1>1, <1>2 DEF StreamStates
  <1> QED
    BY <1>3 DEF Sent, at

\* Replacing what a Worker does (LoseUnsent) keeps the types of the channels.
LEMMA LoseUnsentFacts ==
    ASSUME NetTypeOK, NEW n \in Nodes, out' = LoseUnsent(n)
    PROVE  /\ out' \in [Nodes -> [Streams -> Seq(Messages)]]
           /\ \A m \in Nodes, i \in Streams :
                out'[m][i] = IF m = n /\ i = work[n].stream THEN <<>> ELSE out[m][i]
  BY SMT DEF NetTypeOK, TransportTypeOK, LoseUnsent

\* The Workers' steps keep the types.
LEMMA WorkerTypes ==
    ASSUME NetTypeOK, NEW n \in Nodes, WorkerStep(n) \/ PassNext(n)
    PROVE  NetTypeOK'
  <1>   NetTypeOK /\ Other(n) \in Nodes /\ Other(n) # n
    BY Peers
  <1>1. CASE ConnectNext(n)
    <2>1. PICK i \in Streams : Connect(n, i)
                              /\ sender' = [m \in Nodes |-> IF sender[m] = i THEN 0 ELSE sender[m]]
      BY <1>1 DEF ConnectNext
    <2>2. Append(accepted[Other(n)], i) \in Seq(Streams)
      BY Queues DEF NetTypeOK, TransportTypeOK
    <2>3. TransportTypeOK'
      BY <2>1, <2>2 DEF NetTypeOK, TransportTypeOK, Connect, Working
    <2>4. SyncTypeOK'
      BY <1>1, <2>1 DEF NetTypeOK, SyncTypeOK, ConnectNext
    <2> QED
      BY <2>3, <2>4 DEF NetTypeOK
  <1>2. CASE AcceptNext(n)
    <2>1. PICK i \in {Head(accepted[n])} :
            /\ work' = [work EXCEPT ![n] = Working("up", i)]
            /\ greeted' = [greeted EXCEPT ![i] = @ \cup {n}]
            /\ made' = [made EXCEPT ![n] = IF ends[i] = {} THEN @ ELSE Append(@, i)]
      BY <1>2 DEF AcceptNext, Accept
    <2>2. /\ i \in Streams /\ Tail(accepted[n]) \in Seq(Streams)
          /\ Append(made[n], i) \in Seq(Streams)
      BY <1>2, Queues DEF NetTypeOK, TransportTypeOK, AcceptNext, Accept
    <2>3. ends' = Dropped(n) /\ accepted' = [accepted EXCEPT ![n] = Tail(@)] /\ in' = in
          /\ out' = LoseUnsent(n) /\ UNCHANGED syncvars
      BY <1>2 DEF AcceptNext, Accept
    <2>4. out' \in [Nodes -> [Streams -> Seq(Messages)]]
      BY <2>3, LoseUnsentFacts
    <2>5. TransportTypeOK'
      BY <2>1, <2>2, <2>3, <2>4 DEF NetTypeOK, TransportTypeOK, Working, Dropped
    <2>6. SyncTypeOK'
      BY <2>3 DEF NetTypeOK, SyncTypeOK, syncvars
    <2> QED
      BY <2>5, <2>6 DEF NetTypeOK
  <1>3. CASE ShakeNext(n)
    <2>1. work[n].stream \in Streams /\ Append(made[n], work[n].stream) \in Seq(Streams)
      BY <1>3, Queues DEF NetTypeOK, TransportTypeOK, ShakeNext, Shake
    <2>2. TransportTypeOK'
      BY <1>3, <2>1 DEF NetTypeOK, TransportTypeOK, ShakeNext, Shake
    <2>3. SyncTypeOK'
      BY <1>3 DEF NetTypeOK, SyncTypeOK, ShakeNext, syncvars
    <2> QED
      BY <2>2, <2>3 DEF NetTypeOK
  <1>4. CASE FailNext(n)
    <2>1. out' \in [Nodes -> [Streams -> Seq(Messages)]]
      BY <1>4, LoseUnsentFacts DEF FailNext, Fail
    <2>2. TransportTypeOK'
      BY <1>4, <2>1 DEF NetTypeOK, TransportTypeOK, FailNext, Fail, Working, Dropped
    <2>3. SyncTypeOK'
      BY <1>4 DEF NetTypeOK, SyncTypeOK, FailNext, syncvars
    <2> QED
      BY <2>2, <2>3 DEF NetTypeOK
  <1>5. CASE PassNext(n)
    <2>1. PICK i \in {work[n].stream} :
            /\ Carries(n, i) /\ out[n][i] # <<>>
            /\ in' = [in EXCEPT ![Other(n)][i] = Append(@, Head(out[n][i]))]
            /\ out' = [out EXCEPT ![n][i] = Tail(@)]
            /\ UNCHANGED <<work, ends, greeted, accepted, made>>
      BY <1>5 DEF PassNext, Pass
    <2>2. i \in Streams
      <3>1. work[n].at = "up"
        BY <2>1, SMT DEF Carries, Working
      <3> QED
        BY <2>1, <3>1, SMT DEF NetTypeOK, TransportTypeOK
    <2>3. out[n][i] \in Seq(Messages) /\ in[Other(n)][i] \in Seq(Messages)
      BY <2>2, SMT DEF NetTypeOK, TransportTypeOK
    <2>4. /\ Tail(out[n][i]) \in Seq(Messages)
          /\ Append(in[Other(n)][i], Head(out[n][i])) \in Seq(Messages)
      BY <2>1, <2>3, Queues
    <2>5. TransportTypeOK'
      BY <2>1, <2>2, <2>4 DEF NetTypeOK, TransportTypeOK
    <2>6. SyncTypeOK'
      BY <1>5 DEF NetTypeOK, SyncTypeOK, PassNext, syncvars
    <2> QED
      BY <2>5, <2>6 DEF NetTypeOK
  <1> QED
    BY <1>1, <1>2, <1>3, <1>4, <1>5 DEF WorkerStep

\* What sync_strategy adds to the channel of its sender are requests.
LEMMA Requested ==
    ASSUME NetTypeOK, NEW n \in Nodes, SyncStrategy(n), out' # out
    PROVE  \E sent \in Seq(Messages), i \in Streams :
               /\ out' = [out EXCEPT ![n][i] = @ \o sent]
               /\ \A m \in Range(sent) : m.kind = "request"
  <1>   sender[n] \in Streams
    BY DEF NetTypeOK, SyncTypeOK, SyncStrategy
  <1>1. PICK refs \in SUBSET Missing(n), k \in 0 .. Capacity :
            out' = [out EXCEPT ![n][sender[n]] =
                        @ \o [j \in 1 .. k |-> RequestBlocks(Chunk(refs, j))]]
    BY DEF SyncStrategy
  <1>2. refs \subseteq Blocks
    <2>1. \A b \in received[n] : Includes(b) \subseteq Blocks
      BY BlockFacts DEF NetTypeOK, SyncTypeOK
    <2> QED
      BY <1>1, <2>1 DEF Missing
  <1>3. k \in Nat
    BY TransportAssumption, SMT
  <1>4. \A j : Chunk(refs, j) \in SUBSET Blocks
    BY <1>2 DEF Chunk
  <1>5. \A j : RequestBlocks(Chunk(refs, j)) \in Messages
    BY <1>4, MessageTypes
  <1>6. \A j : RequestBlocks(Chunk(refs, j)).kind = "request"
    BY DEF RequestBlocks
  <1> DEFINE sent == [j \in 1 .. k |-> RequestBlocks(Chunk(refs, j))]
  <1>7. sent \in Seq(Messages)
    BY <1>3, <1>5, SMT
  <1>8. \A m \in Range(sent) : m.kind = "request"
    BY <1>6 DEF Range
  <1> QED
    BY <1>1, <1>7, <1>8

\* So do the steps of the core thread, of run and of the fetcher.
LEMMA CoreTypes ==
    ASSUME NetTypeOK, NEW n \in Nodes,
           Make(n) \/ NewBlockReady(n) \/ StartTask(n) \/ SyncStrategy(n)
    PROVE  NetTypeOK'
  <1>   NetTypeOK /\ Rounds \in Nat /\ Capacity \in Nat
    BY NetSyncAssumption, TransportAssumption
  <1>1. CASE Make(n)
    <2>1. PICK r \in 1 .. Rounds : received' = [received EXCEPT ![n] =
                                       @ \cup {Block(n, r)} \cup Includes(Block(n, r))]
      BY <1>1 DEF Make
    <2>2. Block(n, r) \in Blocks /\ Includes(Block(n, r)) \subseteq Blocks
      BY BlockFacts
    <2>3. received' \in [Nodes -> SUBSET Blocks]
      BY <2>1, <2>2 DEF NetTypeOK, SyncTypeOK
    <2> QED
      BY <1>1, <2>3 DEF NetTypeOK, TransportTypeOK, SyncTypeOK, Make, transportvars
  <1>2. CASE NewBlockReady(n)
    <2>1. stream' \in [Nodes -> [Streams -> StreamStates]]
      <3> DEFINE row == [i \in Streams |->
                            IF stream[n][i].at \in {"read", "send", "wait"}
                            THEN Woken(stream[n][i]) ELSE stream[n][i]]
      <3>1. stream \in [Nodes -> [Streams -> StreamStates]]
        BY DEF NetTypeOK, SyncTypeOK
      <3>2. row \in [Streams -> StreamStates]
        BY <3>1, OldStream, SMT
      <3>3. stream' = [stream EXCEPT ![n] = row]
        BY <1>2, <3>1 DEF NewBlockReady, Woken
      <3> HIDE DEF row
      <3> QED
        BY <3>1, <3>2, <3>3
    <2> QED
      BY <1>2, <2>1 DEF NetTypeOK, TransportTypeOK, SyncTypeOK, NewBlockReady,
                              transportvars
  <1>3. CASE StartTask(n)
    <2>1. Tail(made[n]) \in Seq(Streams) /\ Head(made[n]) \in Streams
      BY <1>3, Queues DEF NetTypeOK, TransportTypeOK, StartTask
    <2>2. TransportTypeOK'
      BY <1>3, <2>1 DEF NetTypeOK, TransportTypeOK, StartTask
    <2>3. SyncTypeOK'
      BY <1>3, <2>1, SMT DEF NetTypeOK, SyncTypeOK, StartTask, Tasks
    <2> QED
      BY <2>2, <2>3 DEF NetTypeOK
  <1>4. CASE SyncStrategy(n)
    <2>1. CASE out' = out
      BY <1>4, <2>1 DEF NetTypeOK, TransportTypeOK, SyncTypeOK, SyncStrategy
    <2>2. CASE out' # out
      <3>1. PICK sent \in Seq(Messages), i \in Streams : out' = [out EXCEPT ![n][i] = @ \o sent]
        BY <1>4, <2>2, Requested
      <3>2. out[n][i] \o sent \in Seq(Messages)
        BY Concatenated, SMT DEF NetTypeOK, TransportTypeOK
      <3>3. out' \in [Nodes -> [Streams -> Seq(Messages)]]
        BY <3>1, <3>2 DEF NetTypeOK, TransportTypeOK
      <3> QED
        BY <1>4, <3>3 DEF NetTypeOK, TransportTypeOK, SyncTypeOK, SyncStrategy
    <2> QED
      BY <2>1, <2>2
  <1> QED
    BY <1>1, <1>2, <1>3, <1>4

\* So do the steps of the tasks of a Connection.
LEMMA TaskTypes ==
    ASSUME NetTypeOK, NEW n \in Nodes, NEW i \in Streams, TaskStep(n, i)
    PROVE  NetTypeOK'
  <1>   NetTypeOK /\ Other(n) \in Nodes
    BY Peers
  <1>1. /\ out[n][i] \in Seq(Messages) /\ in[n][i] \in Seq(Messages)
        /\ \A q \in Seq(Messages) :
              /\ [out EXCEPT ![n][i] = q] \in [Nodes -> [Streams -> Seq(Messages)]]
              /\ [in EXCEPT ![n][i] = q] \in [Nodes -> [Streams -> Seq(Messages)]]
        /\ \A t \in Tasks : [task EXCEPT ![n][i] = t] \in [Nodes -> [Streams -> Tasks]]
        /\ \A t \in Replies : [reply EXCEPT ![n][i] = t] \in [Nodes -> [Streams -> Replies]]
        /\ \A t \in StreamStates :
              [stream EXCEPT ![n][i] = t] \in [Nodes -> [Streams -> StreamStates]]
    BY OneCell, SMTT(30) DEF NetTypeOK, TransportTypeOK, SyncTypeOK
  <1>2. received[n] \in SUBSET Blocks /\ reply[n][i] \in Replies
    BY DEF NetTypeOK, SyncTypeOK
  <1>3. \A m \in Messages : Append(out[n][i], m) \in Seq(Messages)
    BY <1>1, Queues
  <1>4. CASE Subscribe(n, i)
    <2>1. SubscribeOwnFrom(LastSeen(n, Other(n))) \in Messages
      BY <1>2, LastSeenFacts, MessageTypes
    <2>2. CASE Carries(n, i)
      <3>1. /\ out' = [out EXCEPT ![n][i] =
                           Append(out[n][i], SubscribeOwnFrom(LastSeen(n, Other(n))))]
            /\ task' = [task EXCEPT ![n][i] = "loop"]
            /\ connected' = [connected EXCEPT ![n] = TRUE] /\ in' = in
        BY <1>4, <2>2 DEF Subscribe, Send
      <3>2. /\ out' \in [Nodes -> [Streams -> Seq(Messages)]]
            /\ task' \in [Nodes -> [Streams -> Tasks]]
        BY <1>1, <1>3, <2>1, <3>1 DEF Tasks
      <3> QED
        BY <1>4, <3>1, <3>2 DEF NetTypeOK, TransportTypeOK, SyncTypeOK, Subscribe
    <2>3. CASE ~Carries(n, i)
      <3>1. /\ task' = [task EXCEPT ![n][i] = "none"] /\ in' = [in EXCEPT ![n][i] = <<>>]
            /\ out' = out /\ connected' = connected
        BY <1>4, <2>3 DEF Subscribe
      <3>2. /\ in' \in [Nodes -> [Streams -> Seq(Messages)]]
            /\ task' \in [Nodes -> [Streams -> Tasks]]
        BY <1>1, <3>1, SMT DEF Tasks
      <3> QED
        BY <1>4, <3>1, <3>2 DEF NetTypeOK, TransportTypeOK, SyncTypeOK, Subscribe
    <2> QED
      BY <2>2, <2>3
  <1>5. CASE Receive(n, i)
    <2>1. PICK m \in {Head(in[n][i])} :
            \/ /\ m.kind = "subscribe"
               /\ Disseminate(n, i, m.round)
               /\ UNCHANGED <<received, task, reply>>
            \/ /\ m.kind = "block"
               /\ received' = [received EXCEPT ![n] = @ \cup {m.block}]
               /\ UNCHANGED <<stream, task, reply>>
            \/ /\ m.kind = "request"
               /\ task' = [task EXCEPT ![n][i] = "serve"]
               /\ reply' = [reply EXCEPT ![n][i] = Answer(n, m.refs)]
               /\ UNCHANGED <<received, stream>>
            \/ /\ m.kind = "not_found"
               /\ UNCHANGED <<received, stream, task, reply>>
      BY <1>5 DEF Receive
    <2>2. Tail(in[n][i]) \in Seq(Messages) /\ m \in Messages
      BY <1>1, <1>5, <2>1, Queues DEF Receive
    <2>3. in' \in [Nodes -> [Streams -> Seq(Messages)]]
      BY <1>1, <1>5, <2>2 DEF Receive
    <2>4. TransportTypeOK'
      BY <1>5, <2>3 DEF NetTypeOK, TransportTypeOK, Receive
    <2>5. stream' \in [Nodes -> [Streams -> StreamStates]]
      <3>1. CASE stream' = stream
        BY <3>1 DEF NetTypeOK, SyncTypeOK
      <3>2. CASE m.kind = "subscribe" /\ Disseminate(n, i, m.round)
        BY <1>1, <2>2, <3>2, MessageTypes, NewStream
        DEF NetTypeOK, SyncTypeOK, Disseminate, Started
      <3> QED
        BY <2>1, <3>1, <3>2
    <2>6. received' \in [Nodes -> SUBSET Blocks]
      <3>1. CASE received' = received
        BY <3>1 DEF NetTypeOK, SyncTypeOK
      <3>2. CASE m.kind = "block" /\ received' = [received EXCEPT ![n] = @ \cup {m.block}]
        <4>1. m.block \in Blocks
          BY <2>2, <3>2, MessageTypes
        <4> QED
          BY <3>2, <4>1 DEF NetTypeOK, SyncTypeOK
      <3> QED
        BY <2>1, <3>1, <3>2
    <2>7. task' \in [Nodes -> [Streams -> Tasks]] /\ reply' \in [Nodes -> [Streams -> Replies]]
      <3>1. CASE task' = task /\ reply' = reply
        BY <3>1 DEF NetTypeOK, SyncTypeOK
      <3>2. CASE /\ m.kind = "request" /\ task' = [task EXCEPT ![n][i] = "serve"]
                 /\ reply' = [reply EXCEPT ![n][i] = Answer(n, m.refs)]
        <4>1. Answer(n, m.refs) \in Replies
          BY <2>2, <3>2, MessageTypes DEF Answer, Replies
        <4> QED
          BY <1>1, <3>2, <4>1 DEF Tasks
      <3> QED
        BY <2>1, <3>1, <3>2
    <2> QED
      BY <1>5, <2>4, <2>5, <2>6, <2>7 DEF NetTypeOK, SyncTypeOK, Receive
  <1>6. CASE Serve(n, i)
    <2>1. /\ BlockNotFound(reply[n][i].lost) \in Messages
          /\ \A b \in reply[n][i].found : BlockMessage(b) \in Messages
          /\ NoReply \in Replies
          /\ \A b : [reply[n][i] EXCEPT !.found = @ \ {b}] \in Replies
      BY <1>2, MessageTypes DEF Replies, NoReply
    <2>2. out' = out \/ \E m \in Messages : out' = [out EXCEPT ![n][i] = Append(out[n][i], m)]
      BY <1>6, <2>1 DEF Serve, Send
    <2>3. out' \in [Nodes -> [Streams -> Seq(Messages)]]
      <3>1. CASE out' = out
        BY <3>1 DEF NetTypeOK, TransportTypeOK
      <3>2. CASE \E m \in Messages : out' = [out EXCEPT ![n][i] = Append(out[n][i], m)]
        BY <1>1, <1>3, <3>2, SMT
      <3> QED
        BY <2>2, <3>1, <3>2
    <2>4. TransportTypeOK'
      BY <1>6, <2>3 DEF NetTypeOK, TransportTypeOK, Serve
    <2>5. \/ /\ task' = task
             /\ \E b : reply' = [reply EXCEPT ![n][i] = [reply[n][i] EXCEPT !.found = @ \ {b}]]
          \/ /\ \E t \in {"loop", "end"} : task' = [task EXCEPT ![n][i] = t]
             /\ reply' = [reply EXCEPT ![n][i] = NoReply]
      BY <1>6 DEF Serve
    <2>6. task' \in [Nodes -> [Streams -> Tasks]] /\ reply' \in [Nodes -> [Streams -> Replies]]
      <3>1. CASE /\ task' = task
                 /\ \E b : reply' =
                       [reply EXCEPT ![n][i] = [reply[n][i] EXCEPT !.found = @ \ {b}]]
        <4>1. task' \in [Nodes -> [Streams -> Tasks]]
          BY <3>1 DEF NetTypeOK, SyncTypeOK
        <4>2. PICK b : reply' =
                  [reply EXCEPT ![n][i] = [reply[n][i] EXCEPT !.found = @ \ {b}]]
          BY <3>1
        <4> DEFINE t == [reply[n][i] EXCEPT !.found = @ \ {b}]
        <4>3. t \in Replies /\ reply' = [reply EXCEPT ![n][i] = t]
          BY <2>1, <4>2
        <4> HIDE DEF t
        <4> QED
          BY <1>1, <4>1, <4>3
      <3>2. CASE /\ \E t \in {"loop", "end"} : task' = [task EXCEPT ![n][i] = t]
                 /\ reply' = [reply EXCEPT ![n][i] = NoReply]
        BY <1>1, <2>1, <3>2, SMT DEF Tasks
      <3> QED
        BY <2>5, <3>1, <3>2
    <2> QED
      BY <1>6, <2>4, <2>6 DEF NetTypeOK, SyncTypeOK, Serve
  <1>7. CASE EndTask(n, i)
    <2>1. /\ in' \in [Nodes -> [Streams -> Seq(Messages)]]
          /\ task' \in [Nodes -> [Streams -> Tasks]]
          /\ stream' \in [Nodes -> [Streams -> StreamStates]]
      <3>1. /\ in' = [in EXCEPT ![n][i] = <<>>] /\ task' = [task EXCEPT ![n][i] = "none"]
            /\ stream' = [stream EXCEPT ![n][i] = NoStream]
        BY <1>7 DEF EndTask, Abort
      <3>2. <<>> \in Seq(Messages) /\ "none" \in Tasks
        BY SMT DEF Tasks
      <3> QED
        BY <1>1, <3>1, <3>2, NewStream
    <2> QED
      BY <1>7, <2>1 DEF NetTypeOK, TransportTypeOK, SyncTypeOK, EndTask
  <1> QED
    BY <1>4, <1>5, <1>6, <1>7 DEF TaskStep

\* So do the steps of the stream of own blocks and of the network.
LEMMA StreamTypes ==
    ASSUME NetTypeOK, BatchIsNext, NEW n \in Nodes, NEW i \in Streams,
           StreamStep(n, i) \/ BreakNext(i)
    PROVE  NetTypeOK'
  <1>   NetTypeOK
    OBVIOUS
  <1>1. /\ out[n][i] \in Seq(Messages) /\ stream[n][i] \in StreamStates
        /\ \A q \in Seq(Messages) :
              [out EXCEPT ![n][i] = q] \in [Nodes -> [Streams -> Seq(Messages)]]
        /\ \A t \in StreamStates :
              [stream EXCEPT ![n][i] = t] \in [Nodes -> [Streams -> StreamStates]]
    BY OneCell, SMT DEF NetTypeOK, TransportTypeOK, SyncTypeOK
  <1>2. ASSUME stream' \in [Nodes -> [Streams -> StreamStates]], StreamStep(n, i),
               out' \in [Nodes -> [Streams -> Seq(Messages)]]
        PROVE  NetTypeOK'
    BY <1>2 DEF NetTypeOK, TransportTypeOK, SyncTypeOK, StreamStep, ReadOwnBlocks,
                      SendOwnBlock, AwaitNotified, transportvars
  <1>3. CASE ReadOwnBlocks(n, i)
    <2>1. GetOwnBlocks(n, stream[n][i].round) \in SUBSET (1 .. Rounds)
      BY DEF GetOwnBlocks, OwnAfter
    <2>2. stream' \in [Nodes -> [Streams -> StreamStates]]
      <3>1. stream' = [stream EXCEPT ![n][i] =
                          Filled(stream[n][i], GetOwnBlocks(n, stream[n][i].round))]
        BY <1>3, ReadFills
      <3> QED
        BY <1>1, <2>1, <3>1, OldStream
    <2>3. out' \in [Nodes -> [Streams -> Seq(Messages)]]
      BY <1>3 DEF NetTypeOK, TransportTypeOK, ReadOwnBlocks, transportvars
    <2> QED
      BY <1>2, <1>3, <2>2, <2>3 DEF StreamStep
  <1>4. CASE SendOwnBlock(n, i) /\ Carries(n, i)
    <2>1. stream[n][i].batch \in SUBSET (1 .. Rounds) /\ stream[n][i].batch # {}
      BY <1>1, <1>4, OldStream DEF SendOwnBlock, BatchIsNext, ReadNext
    <2>2. PICK r \in 1 .. Rounds :
            /\ out' = [out EXCEPT ![n][i] = Append(out[n][i], BlockMessage(Block(n, r)))]
            /\ stream' = [stream EXCEPT ![n][i] =
                              Sent(stream[n][i], r, stream[n][i].batch \ {r})]
      <3>1. Min(stream[n][i].batch) \in 1 .. Rounds
        BY <2>1, LeastRound
      <3> QED
        BY <1>4, <3>1 DEF SendOwnBlock, Send
    <2>3. Append(out[n][i], BlockMessage(Block(n, r))) \in Seq(Messages)
      BY <1>1, BlockFacts, MessageTypes, Queues
    <2>4. Sent(stream[n][i], r, stream[n][i].batch \ {r}) \in StreamStates
      BY <1>1, <2>1, SentStream, SMT
    <2> QED
      BY <1>1, <1>2, <1>4, <2>2, <2>3, <2>4 DEF StreamStep
  <1>5. CASE SendOwnBlock(n, i) /\ ~Carries(n, i)
    <2>1. stream' = [stream EXCEPT ![n][i] = NoStream] /\ out' = out
      BY <1>5 DEF SendOwnBlock
    <2> QED
      BY <1>1, <1>2, <1>5, <2>1, NewStream DEF StreamStep, NetTypeOK, TransportTypeOK
  <1>6. CASE AwaitNotified(n, i)
    <2>1. stream' = [stream EXCEPT ![n][i] = Rested(stream[n][i])] /\ out' = out
      BY <1>6 DEF AwaitNotified, transportvars, Rested, NetTypeOK, SyncTypeOK
    <2>2. stream' \in [Nodes -> [Streams -> StreamStates]]
      BY <1>1, <2>1, OldStream
    <2> QED
      BY <1>2, <1>6, <2>1, <2>2 DEF StreamStep, NetTypeOK, TransportTypeOK
  <1>7. CASE BreakNext(i)
    BY <1>7 DEF NetTypeOK, TransportTypeOK, SyncTypeOK, BreakNext, Break
  <1> QED
    BY <1>3, <1>4, <1>5, <1>6, <1>7 DEF StreamStep

-----------------------------------------------------------------------------
(* The stream of own blocks *)

\* get_own_blocks: what is read comes next, since own blocks have no gap.
LEMMA ReadComesNext ==
    ASSUME NetTypeOK, OwnBlocksDense, NEW n \in Nodes, NEW s \in StreamStates
    PROVE  ReadNext(n, Filled(s, GetOwnBlocks(n, s.round)))
  <1> DEFINE batch == GetOwnBlocks(n, s.round)
             Lower(q) == {x \in OwnAfter(n, s.round) : x < q}
  <1>   Rounds \in Nat /\ BatchSize \in Nat
    BY NetSyncAssumption
  <1>1. /\ batch \in SUBSET (1 .. Rounds)
        /\ \A q : q \in batch <=> q \in OwnAfter(n, s.round) /\ Cardinality(Lower(q)) < BatchSize
    BY DEF GetOwnBlocks, OwnAfter
  <1>2. \A q \in 1 .. Rounds :
           q \in OwnAfter(n, s.round) <=> q > s.round /\ Block(n, q) \in received[n]
    BY DEF OwnAfter
  <1>3. \A q : IsFiniteSet(Lower(q)) /\ Cardinality(Lower(q)) \in Nat
    <2>1. IsFiniteSet(1 .. Rounds)
      BY FS_Interval, SMT
    <2>2. \A q : Lower(q) \subseteq 1 .. Rounds
      BY DEF OwnAfter
    <2> HIDE DEF Lower
    <2> QED
      BY <2>1, <2>2, FS_Subset, FS_CardinalityType
  <1>4. s.round \in Nat
    BY OldStream
  <1>5. ASSUME NEW q \in batch, NEW r \in 1 .. q, r > s.round
        PROVE  r \in batch
    <2>1. q \in 1 .. Rounds /\ r \in 1 .. Rounds /\ r <= q
      BY <1>1, SMT
    <2>2. Block(n, q) \in received[n]
      BY <1>1, <1>2, <2>1
    <2>3. Block(n, r) \in received[n]
      BY <2>1, <2>2 DEF OwnBlocksDense
    <2>4. r \in OwnAfter(n, s.round)
      BY <1>2, <1>5, <2>1, <2>3
    <2>5. Lower(r) \subseteq Lower(q)
      BY <2>1, SMT DEF OwnAfter
    <2>6. Cardinality(Lower(r)) <= Cardinality(Lower(q))
      <3> HIDE DEF Lower
      <3> QED
        BY <1>3, <2>5, FS_Subset
    <2>7. Cardinality(Lower(q)) < BatchSize
      BY <1>1
    <2>8. Cardinality(Lower(r)) < BatchSize
      <3> HIDE DEF Lower
      <3> QED
        BY <1>3, <2>6, <2>7, SMT
    <2> QED
      BY <1>1, <2>4, <2>8
  <1>6. \A q \in batch : q > s.round /\ Block(n, q) \in received[n]
    BY <1>1, <1>2
  <1> HIDE DEF batch, Lower
  <1>7. /\ Filled(s, batch).at = IF batch = {} THEN "wait" ELSE "send"
        /\ Filled(s, batch).round = s.round /\ Filled(s, batch).batch = batch
    BY <1>1, OldStream, SMT
  <1>8. ReadNext(n, Filled(s, batch))
    BY <1>5, <1>6, <1>7 DEF ReadNext
  <1> QED
    BY <1>8 DEF batch

\* The block sent is the one after the last one sent.
LEMMA SendsTheNext ==
    ASSUME NetTypeOK, NEW n \in Nodes, NEW s \in StreamStates, s.at = "send", ReadNext(n, s),
           NEW r, r = Min(s.batch)
    PROVE  /\ r \in 1 .. Rounds /\ r = s.round + 1 /\ Block(n, r) \in received[n]
           /\ ReadNext(n, Sent(s, r, s.batch \ {r}))
  <1>   Rounds \in Nat /\ s.round \in Nat /\ s.batch \in SUBSET (1 .. Rounds)
    BY OldStream, NetSyncAssumption
  <1>1. /\ s.batch # {}
        /\ \A q \in s.batch : q > s.round /\ Block(n, q) \in received[n]
        /\ \A q \in s.batch : \A x \in 1 .. q : x > s.round => x \in s.batch
    BY DEF ReadNext
  <1>2. r \in s.batch /\ \A y \in s.batch : r <= y
    BY <1>1, LeastRound
  <1>3. r \in 1 .. Rounds /\ r > s.round /\ Block(n, r) \in received[n]
    BY <1>1, <1>2
  <1>4. r = s.round + 1
    <2>1. SUFFICES ASSUME r # s.round + 1
                   PROVE  FALSE
      OBVIOUS
    <2>2. s.round + 1 \in 1 .. r /\ s.round + 1 > s.round /\ s.round + 1 < r
      BY <1>3, <2>1, SMT
    <2>3. s.round + 1 \in s.batch
      BY <1>1, <1>2, <2>2
    <2>4. r <= s.round + 1
      BY <1>2, <2>3
    <2> QED
      BY <1>3, <2>2, <2>4, SMT
  <1>5. /\ Sent(s, r, s.batch \ {r}).round = r
        /\ Sent(s, r, s.batch \ {r}).batch = s.batch \ {r}
        /\ Sent(s, r, s.batch \ {r}).at = IF s.batch \ {r} = {} THEN "wait" ELSE "send"
    BY <1>3, SentStream, SMT
  <1>6. \A q \in s.batch \ {r} : q > r /\ Block(n, q) \in received[n]
    BY <1>1, <1>2, <1>3, SMT
  <1>7. \A q \in s.batch \ {r} : \A x \in 1 .. q : x > r => x \in s.batch \ {r}
    BY <1>1, <1>3, SMT
  <1>8. ReadNext(n, Sent(s, r, s.batch \ {r}))
    BY <1>5, <1>6, <1>7 DEF ReadNext
  <1> QED
    BY <1>3, <1>4, <1>8
=============================================================================
