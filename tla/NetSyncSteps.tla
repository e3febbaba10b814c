--------------------------- MODULE NetSyncSteps ----------------------------
(***************************************************************************)
(* Proofs about NetSync, for every number of streams and of blocks, every  *)
(* capacity of the channels and every number of faults: what a task of     *)
(* net_sync.rs registers belongs to it alone, and the stream of own blocks *)
(* of synchronizer.rs leaves no block out, however often connections break *)
(* and are replaced.                                                       *)
(***************************************************************************)
EXTENDS NetSyncTypes

\* Zenon is the prover of a leaf that does not name another one.
USE Zenon

-----------------------------------------------------------------------------
(* What several steps have in common *)

\* A stream that is new stays new while a task of another Connection, or the
\* other side's task of the same one, takes a step.
LEMMA NewStaysNew ==
    ASSUME NetTypeOK, AcceptedIsNew, ActiveIsNew, NEW n \in Nodes, NEW i \in Streams,
           task[n][i] # "none", UNCHANGED <<accepted, greeted, work, made>>,
           \A m \in Nodes, j \in Streams : m # n \/ j # i =>
               task'[m][j] = task[m][j] /\ stream'[m][j] = stream[m][j] /\ in'[m][j] = in[m][j],
           stream[n][i].at = "none" /\ in[n][i] = <<>> =>
               stream'[n][i].at = "none" /\ in'[n][i] = <<>>
    PROVE  AcceptedIsNew' /\ ActiveIsNew'
  <1>1. AcceptedIsNew'
    <2> SUFFICES ASSUME NEW m \in Nodes, NEW k \in DOMAIN accepted[m]
                 PROVE  Fresh(m, k, accepted[m][k])'
      BY DEF AcceptedIsNew
    <2>1. PICK j \in Streams : j = accepted[m][k] /\ Fresh(m, k, j)
      BY Accepted
    <2>2. j # i
      BY <2>1 DEF Fresh, Untouched
    <2>3. \A x \in Nodes : Untouched(x, j)' /\ in'[x][j] = <<>>
      BY <2>1, <2>2, SMT DEF Fresh, Untouched
    <2> QED
      BY <2>1, <2>3 DEF Fresh, Carries
  <1>2. ActiveIsNew'
    <2> SUFFICES ASSUME NEW m \in Nodes, NEW j \in Streams, work[m] = Working("active", j)
                 PROVE  /\ Untouched(m, j)'
                        /\ stream'[Other(m)][j].at = "none" /\ in'[Other(m)][j] = <<>>
      BY DEF ActiveIsNew
    <2>1. /\ Untouched(m, j) /\ Other(m) \in Nodes
          /\ stream[Other(m)][j].at = "none" /\ in[Other(m)][j] = <<>>
      BY Peers, SMT DEF ActiveIsNew
    <2>2. m # n \/ j # i
      BY <2>1 DEF Untouched
    <2>3. Untouched(m, j)'
      BY <2>1, <2>2 DEF Untouched
    <2>4. stream'[Other(m)][j].at = "none" /\ in'[Other(m)][j] = <<>>
      BY <2>1, SMT
    <2> QED
      BY <2>3, <2>4
  <1> QED
    BY <1>1, <1>2

\* The store of a validator only grows.
Grows == \A m \in Nodes : received[m] \subseteq received'[m]

\* A block that exists goes on existing.
LEMMA GenuineStays ==
    ASSUME Grows, NEW b, Genuine(b)
    PROVE  Genuine(b)'
  BY DEF Genuine, Grows

\* The channels keep honest messages if a step sends only such, and passes on what
\* was sent.
LEMMA HonestMessages ==
    ASSUME Grows, NetTypeOK, MessagesAreHonest,
           \A m \in Nodes, j \in Streams :
               /\ \A x \in Range(out'[m][j]) : x \in Range(out[m][j]) \/ Honest(m, x)'
               /\ \A x \in Range(in'[Other(m)][j]) :
                     x \in Range(in[Other(m)][j]) \cup Range(out[m][j])
    PROVE  MessagesAreHonest'
  <1> SUFFICES ASSUME NEW m \in Nodes, NEW j \in Streams
               PROVE  /\ \A x \in Range(out'[m][j]) : Honest(m, x)'
                      /\ \A x \in Range(in'[Other(m)][j]) : Honest(m, x)'
    BY DEF MessagesAreHonest
  <1>1. ASSUME NEW x, Honest(m, x)
        PROVE  Honest(m, x)'
    BY <1>1, GenuineStays DEF Honest, Grows
  <1>2. \A x \in Range(in[Other(m)][j]) \cup Range(out[m][j]) : Honest(m, x)
    BY DEF MessagesAreHonest
  <1> QED
    BY <1>1, <1>2

\* The block has been received by the peer of m, or is on its way over j.
Arrives(m, j, b) ==
    \/ b \in received[Other(m)]
    \/ BlockMessage(b) \in Range(out[m][j]) \cup Range(in[Other(m)][j])

Both(m, j) == Carries(m, j) /\ Carries(Other(m), j) /\ stream[m][j].at # "none"

\* Nothing is skipped if no block is lost between two sides that carry the stream,
\* and the stream itself goes on to what has been sent.
LEMMA SkipsNothing ==
    ASSUME StreamSkipsNothing,
           \A m \in Nodes, j \in Streams : Both(m, j)' =>
               /\ \A b : Arrives(m, j, b) => Arrives(m, j, b)'
               /\ \/ Both(m, j) /\ stream'[m][j].round = stream[m][j].round
                  \/ \A r \in 1 .. stream'[m][j].round : Arrives(m, j, Block(m, r))'
    PROVE  StreamSkipsNothing'
  <1> SUFFICES ASSUME NEW m \in Nodes, NEW j \in Streams, Both(m, j)',
                      NEW r \in 1 .. stream'[m][j].round
               PROVE  Arrives(m, j, Block(m, r))'
    BY DEF StreamSkipsNothing, Both, Arrives
  <1> QED
    BY DEF StreamSkipsNothing, Both, Arrives

-----------------------------------------------------------------------------
(* The steps of the stream of own blocks and of the core thread *)

\* stream_own_blocks reads the blocks that come next and sends the next of them.
LEMMA StreamStepIInv ==
    ASSUME NetIInv, NEW n \in Nodes, NEW i \in Streams, StreamStep(n, i)
    PROVE  NetIInv'
  <1>   /\ NetTypeOK /\ RegistrationIsCurrent /\ NoOrphanStream /\ AcceptedIsNew
        /\ ActiveIsNew /\ EndedIsDropped /\ OwnBlocksDense /\ BlocksAreGenuine
        /\ MessagesAreHonest /\ BatchIsNext /\ StreamSkipsNothing
    BY DEF NetIInv
  <1>1. NetTypeOK'
    BY StreamTypes
  <1>2. /\ stream[n][i] \in StreamStates /\ ReadNext(n, stream[n][i])
        /\ stream[n][i].at # "none" /\ task[n][i] \in {"loop", "serve", "end"}
        /\ out[n][i] \in Seq(Messages)
    <2>1. stream[n][i].at # "none"
      BY DEF StreamStep, ReadOwnBlocks, SendOwnBlock, AwaitNotified
    <2> QED
      BY <2>1, SMT DEF NetTypeOK, SyncTypeOK, TransportTypeOK, BatchIsNext, NoOrphanStream
  <1>   UNCHANGED <<work, ends, greeted, accepted, made, in, received, task, reply, connected,
                    sender>>
    BY DEF StreamStep, ReadOwnBlocks, SendOwnBlock, AwaitNotified, transportvars
  <1>4. \E s \in StreamStates :
          /\ stream' = [stream EXCEPT ![n][i] = s] /\ ReadNext(n, s)
          /\ \/ s.at = "none" /\ out' = out
             \/ s.round = stream[n][i].round /\ out' = out
             \/ \E r \in 1 .. Rounds :
                  /\ s.round = stream[n][i].round + 1 /\ r = s.round
                  /\ Block(n, r) \in received[n]
                  /\ out' = [out EXCEPT ![n][i] = Append(out[n][i], BlockMessage(Block(n, r)))]
    <2>1. CASE ReadOwnBlocks(n, i)
      <3> DEFINE s == Filled(stream[n][i], GetOwnBlocks(n, stream[n][i].round))
      <3>1. GetOwnBlocks(n, stream[n][i].round) \in SUBSET (1 .. Rounds)
        BY DEF GetOwnBlocks, OwnAfter
      <3>2. s \in StreamStates /\ s.round = stream[n][i].round
        BY <1>2, <3>1, OldStream, SMT
      <3>3. ReadNext(n, s)
        BY <1>2, ReadComesNext
      <3>4. stream' = [stream EXCEPT ![n][i] = s] /\ out' = out
        BY <2>1, ReadFills
      <3> HIDE DEF s
      <3> QED
        BY <3>2, <3>3, <3>4
    <2>2. CASE SendOwnBlock(n, i) /\ Carries(n, i)
      <3>1. PICK r : r = Min(stream[n][i].batch)
        OBVIOUS
      <3>2. /\ r \in 1 .. Rounds /\ r = stream[n][i].round + 1 /\ Block(n, r) \in received[n]
            /\ ReadNext(n, Sent(stream[n][i], r, stream[n][i].batch \ {r}))
        BY <1>2, <2>2, <3>1, SendsTheNext DEF SendOwnBlock
      <3> DEFINE s == Sent(stream[n][i], r, stream[n][i].batch \ {r})
      <3>3. stream[n][i].batch \in SUBSET (1 .. Rounds)
        BY <1>2, OldStream
      <3>4. s \in StreamStates /\ s.round = r
        BY <1>2, <3>2, <3>3, SentStream, SMTT(30)
      <3>5. /\ stream' = [stream EXCEPT ![n][i] = s]
            /\ out' = [out EXCEPT ![n][i] = Append(out[n][i], BlockMessage(Block(n, r)))]
        BY <2>2, <3>1 DEF SendOwnBlock, Send
      <3>6. ReadNext(n, s)
        BY <3>2
      <3> HIDE DEF s
      <3> QED
        BY <3>2, <3>4, <3>5, <3>6
    <2>3. CASE SendOwnBlock(n, i) /\ ~Carries(n, i)
      <3>1. stream' = [stream EXCEPT ![n][i] = NoStream] /\ out' = out
        BY <2>3 DEF SendOwnBlock
      <3> QED
        BY <3>1, NewStream DEF ReadNext
    <2>4. CASE AwaitNotified(n, i)
      <3>1. stream' = [stream EXCEPT ![n][i] = Rested(stream[n][i])] /\ out' = out
        BY <2>4 DEF AwaitNotified, transportvars, Rested, NetTypeOK, SyncTypeOK
      <3>2. /\ Rested(stream[n][i]) \in StreamStates /\ Rested(stream[n][i]).at = "read"
            /\ Rested(stream[n][i]).round = stream[n][i].round
        BY <1>2, OldStream
      <3> QED
        BY <3>1, <3>2 DEF ReadNext
    <2> QED
      BY <2>1, <2>2, <2>3, <2>4 DEF StreamStep
  <1>5. PICK s \in StreamStates :
          /\ stream' = [stream EXCEPT ![n][i] = s] /\ ReadNext(n, s)
          /\ \/ s.at = "none" /\ out' = out
             \/ s.round = stream[n][i].round /\ out' = out
             \/ \E r \in 1 .. Rounds :
                  /\ s.round = stream[n][i].round + 1 /\ r = s.round
                  /\ Block(n, r) \in received[n]
                  /\ out' = [out EXCEPT ![n][i] = Append(out[n][i], BlockMessage(Block(n, r)))]
    BY <1>4
  <1>6. \A m \in Nodes, j \in Streams :
           stream'[m][j] = IF m = n /\ j = i THEN s ELSE stream[m][j]
    BY <1>5, StreamType, CellIs, SMT
  <1>7. RegistrationIsCurrent' /\ EndedIsDropped' /\ OwnBlocksDense' /\ BlocksAreGenuine'
    BY DEF RegistrationIsCurrent, EndedIsDropped, OwnBlocksDense, BlocksAreGenuine,
                      Genuine, Carries
  <1>8. NoOrphanStream'
    BY <1>2, <1>6, SMT DEF NoOrphanStream
  <1>9. AcceptedIsNew' /\ ActiveIsNew'
    <2>1. \A m \in Nodes, j \in Streams : m # n \/ j # i =>
            task'[m][j] = task[m][j] /\ stream'[m][j] = stream[m][j] /\ in'[m][j] = in[m][j]
      BY <1>6
    <2>2. task[n][i] # "none" /\ stream[n][i].at # "none"
      BY <1>2
    <2> QED
      BY <2>1, <2>2, NewStaysNew
  <1>10. BatchIsNext'
    <2> SUFFICES ASSUME NEW m \in Nodes, NEW j \in Streams
                 PROVE  ReadNext(m, stream[m][j])'
      BY DEF BatchIsNext
    <2>1. CASE m = n /\ j = i
      BY <1>5, <1>6, <2>1, SMT DEF ReadNext
    <2>2. CASE ~(m = n /\ j = i)
      BY <1>6, <2>2, SMT DEF BatchIsNext, ReadNext
    <2> QED
      BY <2>1, <2>2
  <1>11. Grows
    BY DEF Grows
  <1>12. CASE out' = out /\ (s.at = "none" \/ s.round = stream[n][i].round)
    <2>1. MessagesAreHonest'
      BY <1>12, SMT DEF MessagesAreHonest, Honest, Genuine
    <2>2. StreamSkipsNothing'
      <3>1. ASSUME NEW m \in Nodes, NEW j \in Streams, Both(m, j)'
            PROVE  /\ \A b : Arrives(m, j, b) => Arrives(m, j, b)'
                   /\ Both(m, j) /\ stream'[m][j].round = stream[m][j].round
        BY <1>2, <1>6, <1>12, <3>1 DEF Arrives, Both, Carries
      <3> QED
        BY <3>1, SkipsNothing
    <2> QED
      BY <1>1, <1>7, <1>8, <1>9, <1>10, <2>1, <2>2 DEF NetIInv
  <1>13. CASE \E r \in 1 .. Rounds :
                /\ s.round = stream[n][i].round + 1 /\ r = s.round
                /\ Block(n, r) \in received[n]
                /\ out' = [out EXCEPT ![n][i] = Append(out[n][i], BlockMessage(Block(n, r)))]
    <2>1. PICK r \in 1 .. Rounds :
            /\ s.round = stream[n][i].round + 1 /\ r = s.round
            /\ Block(n, r) \in received[n]
            /\ out' = [out EXCEPT ![n][i] = Append(out[n][i], BlockMessage(Block(n, r)))]
      BY <1>13
    <2>2. Append(out[n][i], BlockMessage(Block(n, r))) \in Seq(Messages)
      BY <1>2, BlockFacts, MessageTypes, Queues
    <2>3. \A m \in Nodes, j \in Streams :
             out'[m][j] = IF m = n /\ j = i THEN Append(out[n][i], BlockMessage(Block(n, r)))
                          ELSE out[m][j]
      BY <2>1, <2>2, OutType, CellIs, SMTT(30)
    <2>4. Range(out'[n][i]) = Range(out[n][i]) \cup {BlockMessage(Block(n, r))}
      BY <1>2, <2>3, Queues, SMT
    <2>5. MessagesAreHonest'
      <3>1. Genuine(Block(n, r))'
        BY <2>1, BlockFacts DEF Genuine
      <3>2. Honest(n, BlockMessage(Block(n, r)))'
        BY <3>1 DEF Honest, BlockMessage
      <3>3. ASSUME NEW m \in Nodes, NEW j \in Streams
            PROVE  /\ \A x \in Range(out'[m][j]) : x \in Range(out[m][j]) \/ Honest(m, x)'
                   /\ \A x \in Range(in'[Other(m)][j]) :
                        x \in Range(in[Other(m)][j]) \cup Range(out[m][j])
        BY <2>3, <2>4, <3>2
      <3> QED
        BY <1>11, <3>3, HonestMessages
    <2>6. StreamSkipsNothing'
      <3>1. ASSUME NEW m \in Nodes, NEW j \in Streams, Both(m, j)'
            PROVE  /\ \A b : Arrives(m, j, b) => Arrives(m, j, b)'
                   /\ \/ Both(m, j) /\ stream'[m][j].round = stream[m][j].round
                      \/ \A x \in 1 .. stream'[m][j].round : Arrives(m, j, Block(m, x))'
        <4>1. \A b : Arrives(m, j, b) => Arrives(m, j, b)'
          BY <2>3, <2>4 DEF Arrives
        <4>2. CASE m = n /\ j = i
          <5>1. Both(n, i)
            BY <1>2, <3>1, <4>2 DEF Both, Carries
          <5>2. \A x \in 1 .. stream[n][i].round : Arrives(n, i, Block(n, x))
            BY <5>1 DEF StreamSkipsNothing, Both, Arrives
          <5>3. Arrives(n, i, Block(n, r))'
            BY <2>4 DEF Arrives
          <5>4. \A x \in 1 .. r : x = r \/ x \in 1 .. stream[n][i].round
            BY <1>2, <2>1, OldStream, SMT
          <5>5. stream'[n][i].round = r
            BY <1>6, <2>1
          <5> QED
            BY <4>1, <4>2, <5>2, <5>3, <5>4, <5>5
        <4>3. CASE ~(m = n /\ j = i)
          <5>1. Both(m, j) /\ stream'[m][j].round = stream[m][j].round
            BY <1>6, <3>1, <4>3 DEF Both, Carries
          <5> QED
            BY <4>1, <5>1
        <4> QED
          BY <4>2, <4>3
      <3> QED
        BY <3>1, SkipsNothing
    <2> QED
      BY <1>1, <1>7, <1>8, <1>9, <1>10, <2>5, <2>6 DEF NetIInv
  <1> QED
    BY <1>5, <1>12, <1>13

\* notify_waiters wakes streams and changes nothing else about them.
LEMMA NewBlockReadyIInv ==
    ASSUME NetIInv, NEW n \in Nodes, NewBlockReady(n)
    PROVE  NetIInv'
  <1>   /\ NetTypeOK /\ RegistrationIsCurrent /\ NoOrphanStream /\ AcceptedIsNew
        /\ ActiveIsNew /\ EndedIsDropped /\ OwnBlocksDense /\ BlocksAreGenuine
        /\ MessagesAreHonest /\ BatchIsNext /\ StreamSkipsNothing
    BY DEF NetIInv
  <1>1. NetTypeOK'
    BY CoreTypes
  <1>   UNCHANGED <<work, ends, greeted, accepted, made, out, in, received, task, reply,
                    connected, sender>>
    BY DEF NewBlockReady, transportvars
  <1>3. \A m \in Nodes, j \in Streams :
           /\ stream'[m][j].at = stream[m][j].at /\ stream'[m][j].round = stream[m][j].round
           /\ stream'[m][j].batch = stream[m][j].batch
    <2> TAKE m \in Nodes, j \in Streams
    <2>1. stream[m][j] \in StreamStates
      BY DEF NetTypeOK, SyncTypeOK
    <2>2. stream'[m][j] = stream[m][j] \/ stream'[m][j] = Woken(stream[m][j])
      BY DEF NewBlockReady, Woken, NetTypeOK, SyncTypeOK
    <2> QED
      BY <2>1, <2>2, OldStream, SMT
  <1>4. RegistrationIsCurrent' /\ EndedIsDropped' /\ OwnBlocksDense' /\ BlocksAreGenuine'
        /\ MessagesAreHonest'
    BY SMT DEF RegistrationIsCurrent, EndedIsDropped, OwnBlocksDense, BlocksAreGenuine,
                      Genuine, Carries, MessagesAreHonest, Honest
  <1>5. NoOrphanStream' /\ BatchIsNext'
    BY <1>3, SMTT(30) DEF NoOrphanStream, BatchIsNext, ReadNext
  <1>6. AcceptedIsNew'
    <2>1. \A m \in Nodes : \A k \in DOMAIN accepted[m] : accepted[m][k] \in Streams
      BY SMT DEF NetTypeOK, TransportTypeOK
    <2>2. \A m \in Nodes, j \in Streams : Untouched(m, j) => Untouched(m, j)'
      BY <1>3 DEF Untouched
    <2> QED
      BY <2>1, <2>2, SMT DEF AcceptedIsNew, Fresh, Carries
  <1>7. ActiveIsNew'
    BY <1>3, Peers, SMTT(30) DEF ActiveIsNew, Untouched
  <1>8. StreamSkipsNothing'
    BY <1>3, Peers, SMT DEF StreamSkipsNothing, Carries
  <1> QED
    BY <1>1, <1>4, <1>5, <1>6, <1>7, <1>8 DEF NetIInv

\* The core thread makes the block after the last own one.
LEMMA MakeIInv ==
    ASSUME NetIInv, NEW n \in Nodes, Make(n)
    PROVE  NetIInv'
  <1>   /\ NetTypeOK /\ RegistrationIsCurrent /\ NoOrphanStream /\ AcceptedIsNew
        /\ ActiveIsNew /\ EndedIsDropped /\ OwnBlocksDense /\ BlocksAreGenuine
        /\ MessagesAreHonest /\ BatchIsNext /\ StreamSkipsNothing
    BY DEF NetIInv
  <1>1. NetTypeOK'
    BY CoreTypes
  <1>   UNCHANGED <<work, ends, greeted, accepted, made, out, in, stream, task, reply,
                    connected, sender>>
    BY DEF Make, transportvars
  <1>3. PICK r \in 1 .. Rounds :
           /\ r > 1 => Block(n, r - 1) \in received[n]
           /\ received' = [received EXCEPT ![n] =
                  @ \cup {Block(n, r)} \cup Includes(Block(n, r))]
    BY DEF Make
  <1>4. \A m \in Nodes : received'[m] =
           IF m = n THEN received[n] \cup {Block(n, r)} \cup Includes(Block(n, r))
           ELSE received[m]
    BY <1>3 DEF NetTypeOK, SyncTypeOK
  <1>5. Grows
    BY <1>4 DEF Grows
  <1>6. Rounds \in Nat /\ (r > 1 => r - 1 \in 1 .. Rounds)
    BY NetSyncAssumption, SMT
  <1>7. ASSUME NEW m \in Nodes, NEW b \in received'[m], b.author \in Nodes
        PROVE  b \in received[m] \/ (m = n /\ b = Block(n, r))
    <2>1. ASSUME b \in Includes(Block(n, r))
          PROVE  b \in received[n]
      BY <1>3, <1>7, <2>1, BlockFacts, SMT
    <2> QED
      BY <1>4, <1>7, <2>1
  <1>8. OwnBlocksDense'
    <2> SUFFICES ASSUME NEW m \in Nodes, NEW q \in 1 .. Rounds, Block(m, q) \in received'[m],
                        NEW x \in 1 .. q
                 PROVE  Block(m, x) \in received'[m]
      BY DEF OwnBlocksDense
    <2>1. Block(m, q).author \in Nodes
      BY BlockFacts, SMT
    <2>2. CASE Block(m, q) \in received[m]
      BY <1>5, <2>2 DEF OwnBlocksDense, Grows
    <2>3. CASE m = n /\ Block(m, q) = Block(n, r)
      <3>1. q = r
        BY <2>3, BlockFacts, SMT
      <3>2. CASE x = r
        BY <1>4, <2>3, <3>2
      <3>3. CASE x # r
        <4>1. r > 1 /\ x \in 1 .. (r - 1) /\ r - 1 \in 1 .. Rounds
          BY <1>6, <3>1, <3>3, SMT
        <4>2. Block(n, x) \in received[n]
          BY <1>3, <4>1 DEF OwnBlocksDense
        <4> QED
          BY <1>5, <2>3, <4>2 DEF Grows
      <3> QED
        BY <3>2, <3>3
    <2> QED
      BY <1>7, <2>1, <2>2, <2>3
  <1>9. BlocksAreGenuine'
    <2>1. ASSUME NEW m \in Nodes, NEW b \in received'[m]
          PROVE  Genuine(b)'
      <3> SUFFICES ASSUME b.author \in Nodes
                   PROVE  b \in received'[b.author]
        BY DEF Genuine
      <3>1. CASE b \in received[m]
        BY <1>5, <3>1 DEF BlocksAreGenuine, Genuine, Grows
      <3>2. CASE m = n /\ b = Block(n, r)
        BY <1>4, <3>2, BlockFacts
      <3> QED
        BY <1>7, <2>1, <3>1, <3>2
    <2>2. ASSUME NEW m \in Nodes, NEW j \in Streams, NEW b \in reply'[m][j].found
          PROVE  Genuine(b)'
      BY <1>5, <2>2, GenuineStays DEF BlocksAreGenuine
    <2> QED
      BY <2>1, <2>2 DEF BlocksAreGenuine
  <1>10. MessagesAreHonest'
    BY <1>5, HonestMessages
  <1>11. BatchIsNext'
    BY <1>5, SMT DEF BatchIsNext, ReadNext, Grows
  <1>12. StreamSkipsNothing'
    BY <1>5, Peers DEF StreamSkipsNothing, Carries, Grows
  <1>13. RegistrationIsCurrent' /\ NoOrphanStream' /\ EndedIsDropped' /\ ActiveIsNew'
    BY SMTT(30) DEF RegistrationIsCurrent, NoOrphanStream, EndedIsDropped, ActiveIsNew,
                      Carries, Untouched
  <1>14. AcceptedIsNew'
    BY SMT DEF AcceptedIsNew, Fresh, Carries, Untouched
  <1> QED
    BY <1>1, <1>8, <1>9, <1>10, <1>11, <1>12, <1>13, <1>14 DEF NetIInv

\* What neither the channels nor the stores see: the network breaks a stream, or
\* nothing happens.
LEMMA UnseenIInv ==
    ASSUME NetIInv,
           UNCHANGED <<work, greeted, accepted, made, out, in, received, stream, task, reply,
                       connected, sender>>,
           ends' \in [Streams -> SUBSET Nodes]
    PROVE  NetIInv'
  <1>   /\ NetTypeOK /\ RegistrationIsCurrent /\ NoOrphanStream /\ AcceptedIsNew
        /\ ActiveIsNew /\ EndedIsDropped /\ OwnBlocksDense /\ BlocksAreGenuine
        /\ MessagesAreHonest /\ BatchIsNext /\ StreamSkipsNothing
    BY DEF NetIInv
  <1>1. NetTypeOK'
    BY DEF NetTypeOK, TransportTypeOK, SyncTypeOK
  <1>2. RegistrationIsCurrent' /\ NoOrphanStream' /\ EndedIsDropped' /\ ActiveIsNew'
        /\ OwnBlocksDense' /\ BlocksAreGenuine'
    BY SMT DEF RegistrationIsCurrent, NoOrphanStream, EndedIsDropped, ActiveIsNew,
                Carries, Untouched, OwnBlocksDense, BlocksAreGenuine, Genuine
  <1>3. MessagesAreHonest' /\ BatchIsNext' /\ StreamSkipsNothing'
    BY ZenonT(30) DEF MessagesAreHonest, Honest, Genuine, BatchIsNext, ReadNext, StreamSkipsNothing,
                Carries
  <1>4. AcceptedIsNew'
    BY SMT DEF AcceptedIsNew, Fresh, Carries, Untouched
  <1> QED
    BY <1>1, <1>2, <1>3, <1>4 DEF NetIInv

\* The fetcher adds requests to a channel.
LEMMA SyncStrategyIInv ==
    ASSUME NetIInv, NEW n \in Nodes, SyncStrategy(n)
    PROVE  NetIInv'
  <1>   /\ NetTypeOK /\ RegistrationIsCurrent /\ NoOrphanStream /\ AcceptedIsNew
        /\ ActiveIsNew /\ EndedIsDropped /\ OwnBlocksDense /\ BlocksAreGenuine
        /\ MessagesAreHonest /\ BatchIsNext /\ StreamSkipsNothing
    BY DEF NetIInv
  <1>1. NetTypeOK'
    BY CoreTypes
  <1>   UNCHANGED <<work, ends, greeted, accepted, made, in, received, stream, task, reply,
                    connected, sender>>
    BY DEF SyncStrategy
  <1>3. CASE out' = out
    BY <1>3, UnseenIInv DEF NetTypeOK, TransportTypeOK
  <1>4. CASE out' # out
    <2>1. PICK sent \in Seq(Messages), i \in Streams :
            /\ out' = [out EXCEPT ![n][i] = @ \o sent]
            /\ \A x \in Range(sent) : x.kind = "request"
      BY <1>4, Requested
    <2>2. out[n][i] \in Seq(Messages)
      BY SMT DEF NetTypeOK, TransportTypeOK
    <2>3. /\ out[n][i] \o sent \in Seq(Messages)
          /\ Range(out[n][i] \o sent) = Range(out[n][i]) \cup Range(sent)
      BY <2>2, Concatenated, SMT
    <2>4. \A m \in Nodes, j \in Streams :
             out'[m][j] = IF m = n /\ j = i THEN out[n][i] \o sent ELSE out[m][j]
      BY <2>1, <2>3, OutType, CellIs, SMTT(30)
    <2>5. MessagesAreHonest'
      <3>1. \A x \in Range(sent) : Honest(n, x)'
        BY <2>1 DEF Honest
      <3>2. ASSUME NEW m \in Nodes, NEW j \in Streams
            PROVE  /\ \A x \in Range(out'[m][j]) : x \in Range(out[m][j]) \/ Honest(m, x)'
                   /\ \A x \in Range(in'[Other(m)][j]) :
                        x \in Range(in[Other(m)][j]) \cup Range(out[m][j])
        BY <2>3, <2>4, <3>1
      <3>3. Grows
        BY DEF Grows
      <3> QED
        BY <3>2, <3>3, HonestMessages
    <2>6. StreamSkipsNothing'
      <3>1. ASSUME NEW m \in Nodes, NEW j \in Streams, Both(m, j)'
            PROVE  /\ \A b : Arrives(m, j, b) => Arrives(m, j, b)'
                   /\ Both(m, j) /\ stream'[m][j].round = stream[m][j].round
        <4>1. Range(out[m][j]) \subseteq Range(out'[m][j])
          BY <2>3, <2>4
        <4> QED
          BY <3>1, <4>1 DEF Arrives, Both, Carries
      <3> QED
        BY <3>1, SkipsNothing
    <2>7. RegistrationIsCurrent' /\ NoOrphanStream' /\ EndedIsDropped' /\ ActiveIsNew'
          /\ OwnBlocksDense' /\ BlocksAreGenuine' /\ BatchIsNext'
      BY SMTT(30) DEF RegistrationIsCurrent, NoOrphanStream, EndedIsDropped, ActiveIsNew,
                  Carries, Untouched, OwnBlocksDense, BlocksAreGenuine, Genuine, BatchIsNext,
                  ReadNext
    <2>8. AcceptedIsNew'
      BY SMT DEF AcceptedIsNew, Fresh, Carries, Untouched
    <2> QED
      BY <1>1, <2>5, <2>6, <2>7, <2>8 DEF NetIInv
  <1> QED
    BY <1>3, <1>4

-----------------------------------------------------------------------------
(* NetworkSyncer::run and the steps of the Workers *)

\* run starts a task only after the last one has ended.
LEMMA StartTaskIInv ==
    ASSUME NetIInv, NEW n \in Nodes, StartTask(n)
    PROVE  NetIInv'
  <1>   /\ NetTypeOK /\ RegistrationIsCurrent /\ NoOrphanStream /\ AcceptedIsNew
        /\ ActiveIsNew /\ EndedIsDropped /\ OwnBlocksDense /\ BlocksAreGenuine
        /\ MessagesAreHonest /\ BatchIsNext /\ StreamSkipsNothing
    BY DEF NetIInv
  <1>1. NetTypeOK'
    BY CoreTypes
  <1>   UNCHANGED <<work, ends, greeted, accepted, out, in, received, reply, stream, connected>>
    BY DEF StartTask
  <1>3. PICK i \in Streams :
           /\ i \in Range(made[n]) /\ Range(made'[n]) \subseteq Range(made[n])
           /\ \A m \in Nodes \ {n} : made'[m] = made[m]
           /\ sender' = [sender EXCEPT ![n] = i]
           /\ task' = [task EXCEPT ![n][i] = "start"]
    <2>1. made[n] \in Seq(Streams) /\ made[n] # <<>> /\ made' = [made EXCEPT ![n] = Tail(@)]
      BY DEF StartTask, NetTypeOK, TransportTypeOK
    <2>2. made \in [Nodes -> Seq(Streams)]
      BY DEF NetTypeOK, TransportTypeOK
    <2>3. Head(made[n]) \in Streams /\ Head(made[n]) \in Range(made[n])
          /\ Range(Tail(made[n])) \subseteq Range(made[n])
      BY <2>1, Queues, SMT
    <2> QED
      BY <2>1, <2>2, <2>3 DEF StartTask
  <1>4. \A m \in Nodes, j \in Streams :
           task'[m][j] = IF m = n /\ j = i THEN "start" ELSE task[m][j]
    BY <1>3, TaskType, CellIs, SMT
  <1>5. \A j \in Streams : task[n][j] = "none"
    BY DEF StartTask, MayStart
  <1>6. \A m \in Nodes : sender'[m] = IF m = n THEN i ELSE sender[m]
    BY <1>3 DEF NetTypeOK, SyncTypeOK
  <1>7. RegistrationIsCurrent' /\ NoOrphanStream' /\ EndedIsDropped'
    BY <1>4, <1>5, <1>6, SMT
    DEF RegistrationIsCurrent, NoOrphanStream, EndedIsDropped, Carries
  <1>8. \A m \in Nodes, j \in Streams : Untouched(m, j) => Untouched(m, j)'
    BY <1>3, <1>4, SMT DEF Untouched
  <1>9. AcceptedIsNew'
    <2> SUFFICES ASSUME NEW m \in Nodes, NEW k \in DOMAIN accepted'[m]
                 PROVE  Fresh(m, k, accepted[m][k])'
      BY DEF AcceptedIsNew
    <2>1. Fresh(m, k, accepted[m][k]) /\ accepted[m][k] \in Streams
      BY Accepted
    <2> QED
      BY <1>8, <2>1 DEF Fresh, Carries
  <1>10. ActiveIsNew'
    BY <1>8, Peers DEF ActiveIsNew
  <1>11. OwnBlocksDense' /\ BlocksAreGenuine' /\ MessagesAreHonest' /\ BatchIsNext'
    BY SMT DEF OwnBlocksDense, BlocksAreGenuine, Genuine, MessagesAreHonest, Honest,
                      BatchIsNext, ReadNext
  <1>12. StreamSkipsNothing'
    BY DEF StreamSkipsNothing, Carries
  <1> QED
    BY <1>1, <1>7, <1>9, <1>10, <1>11, <1>12 DEF NetIInv

\* What holds of the stores and of the tasks is kept while only Workers move.
LEMMA TasksStay ==
    ASSUME NetIInv, UNCHANGED <<received, task, reply, stream, connected>>,
           \A m \in Nodes, j \in Streams : task[m][j] # "none" /\ sender[m] = j => sender'[m] = j
    PROVE  RegistrationIsCurrent' /\ NoOrphanStream' /\ OwnBlocksDense' /\ BlocksAreGenuine'
           /\ BatchIsNext'
  BY SMT DEF NetIInv, RegistrationIsCurrent, NoOrphanStream, OwnBlocksDense, BlocksAreGenuine,
         Genuine, BatchIsNext, ReadNext

\* A Worker connects over a stream nothing refers to.
LEMMA ConnectIInv ==
    ASSUME NetIInv, NEW n \in Nodes, ConnectNext(n)
    PROVE  NetIInv'
  <1>   /\ NetTypeOK /\ RegistrationIsCurrent /\ NoOrphanStream /\ AcceptedIsNew
        /\ ActiveIsNew /\ EndedIsDropped /\ OwnBlocksDense /\ BlocksAreGenuine
        /\ MessagesAreHonest /\ BatchIsNext /\ StreamSkipsNothing
    BY DEF NetIInv
  <1>1. NetTypeOK'
    BY WorkerTypes DEF WorkerStep
  <1>2. PICK i \in Streams :
           /\ Free(i) /\ Connect(n, i)
           /\ sender' = [m \in Nodes |-> IF sender[m] = i THEN 0 ELSE sender[m]]
    BY DEF ConnectNext
  <1>   UNCHANGED <<received, task, reply, stream, connected, made, out, in>>
    BY <1>2 DEF ConnectNext, Connect
  <1>   Other(n) \in Nodes /\ Other(n) # n /\ \A m \in Nodes : m = n \/ m = Other(n)
    BY Peers
  <1>4. /\ work'[n] = Working("active", i) /\ \A m \in Nodes \ {n} : work'[m] = work[m]
        /\ greeted'[i] = {n} /\ \A j \in Streams \ {i} : greeted'[j] = greeted[j]
        /\ accepted'[Other(n)] = Append(accepted[Other(n)], i) /\ accepted'[n] = accepted[n]
    BY <1>2 DEF Connect, NetTypeOK, TransportTypeOK
  <1>5. \A m \in Nodes :
           /\ work[m].stream # i /\ i \notin Range(accepted[m]) /\ Untouched(m, i)
           /\ in[m][i] = <<>>
    BY <1>2 DEF Free, Untouched
  <1>6. RegistrationIsCurrent' /\ NoOrphanStream' /\ OwnBlocksDense' /\ BlocksAreGenuine'
        /\ BatchIsNext'
    <2>1. \A m \in Nodes, j \in Streams : task[m][j] # "none" /\ sender[m] = j => sender'[m] = j
      BY <1>2, <1>5 DEF Untouched
    <2> QED
      BY <2>1, TasksStay
  <1>7. \A j : ~Carries(n, j)'
    BY <1>4, SMT DEF Carries, Working
  <1>8. \A m \in Nodes, j \in Streams : Carries(m, j)' => Carries(m, j)
    BY <1>4, <1>7 DEF Carries
  <1>9. \A m \in Nodes, j \in Streams : Untouched(m, j) => Untouched(m, j)'
    BY DEF Untouched
  <1>10. AcceptedIsNew'
    <2> SUFFICES ASSUME NEW m \in Nodes, NEW k \in DOMAIN accepted'[m]
                 PROVE  Fresh(m, k, accepted[m][k])'
      BY DEF AcceptedIsNew
    <2>1. accepted[Other(n)] \in Seq(Streams) /\ accepted[n] \in Seq(Streams)
      BY DEF NetTypeOK, TransportTypeOK
    <2>2. /\ DOMAIN accepted'[Other(n)] =
                DOMAIN accepted[Other(n)] \cup {Len(accepted[Other(n)]) + 1}
          /\ \A l \in DOMAIN accepted[Other(n)] : accepted'[Other(n)][l] = accepted[Other(n)][l]
          /\ accepted'[Other(n)][Len(accepted[Other(n)]) + 1] = i
          /\ Range(accepted'[Other(n)]) = Range(accepted[Other(n)]) \cup {i}
      BY <1>4, <2>1, Queues, SMT
    <2>3. \A l \in DOMAIN accepted[Other(n)] : accepted[Other(n)][l] # i
      BY <1>5 DEF Range
    <2>4. CASE m = Other(n) /\ k = Len(accepted[Other(n)]) + 1
      <3>1. Other(m) = n /\ accepted'[m][k] = i
        BY <2>2, <2>4, Peers
      <3>2. \A l \in DOMAIN accepted'[m] : accepted'[m][l] = i => l = k
        BY <2>2, <2>3, <2>4
      <3>3. i \notin Range(accepted'[n]) /\ m \notin greeted'[i] /\ work'[m].stream # i
        BY <1>4, <1>5, <2>4
      <3>4. \A x \in Nodes : Untouched(x, i)' /\ in'[x][i] = <<>> /\ ~Carries(x, i)'
        BY <1>5, <1>8, <1>9, SMT DEF Carries, Working
      <3> QED
        BY <3>1, <3>2, <3>3, <3>4 DEF Fresh
    <2>5. CASE k \in DOMAIN accepted[m] /\ accepted'[m][k] = accepted[m][k]
      <3>1. PICK j \in Streams :
               j = accepted[m][k] /\ Fresh(m, k, j) /\ j \in Range(accepted[m])
        BY <2>5, Accepted DEF Range
      <3>2. j # i
        BY <1>5, <3>1
      <3>3. \A l \in DOMAIN accepted'[m] : accepted'[m][l] = j => l = k
        <4>1. \A l \in DOMAIN accepted[m] : accepted[m][l] = j => l = k
          BY <3>1 DEF Fresh
        <4>2. CASE m = n
          BY <1>4, <4>1, <4>2
        <4>3. CASE m = Other(n)
          <5> SUFFICES ASSUME NEW l \in DOMAIN accepted'[m], accepted'[m][l] = j
                       PROVE  l = k
            OBVIOUS
          <5>1. l \in DOMAIN accepted[m]
            BY <2>2, <3>2, <4>3
          <5> QED
            BY <2>2, <4>1, <4>3, <5>1
        <4> QED
          BY <4>2, <4>3
      <3>4. j \notin Range(accepted'[Other(m)])
        <4>1. j \notin Range(accepted[Other(m)])
          BY <3>1 DEF Fresh
        <4>2. CASE m = n
          BY <2>2, <3>2, <4>1, <4>2
        <4>3. CASE m = Other(n)
          BY <1>4, <4>1, <4>3, Peers
        <4> QED
          BY <4>2, <4>3
      <3>5. m \notin greeted'[j] /\ work'[m].stream # j
        BY <1>4, <3>1, <3>2, SMT DEF Fresh, Working
      <3>6. \A x \in Nodes : Untouched(x, j)' /\ in'[x][j] = <<>> /\ ~Carries(x, j)'
        BY <1>8, <1>9, <3>1 DEF Fresh
      <3>7. accepted'[m][k] = j
        BY <2>5, <3>1
      <3> QED
        BY <3>3, <3>4, <3>5, <3>6, <3>7 DEF Fresh
    <2> QED
      BY <1>4, <2>2, <2>4, <2>5
  <1>11. ActiveIsNew'
    <2> SUFFICES ASSUME NEW m \in Nodes, NEW j \in Streams, work'[m] = Working("active", j)
                 PROVE  /\ Untouched(m, j)'
                        /\ stream'[Other(m)][j].at = "none" /\ in'[Other(m)][j] = <<>>
      BY DEF ActiveIsNew
    <2>1. CASE m = n
      <3>1. j = i
        BY <1>4, <2>1, SMTT(30) DEF Working
      <3> QED
        BY <1>5, <1>9, <2>1, <3>1 DEF Untouched
    <2>2. CASE m # n
      BY <1>4, <1>9, <2>2, Peers, SMTT(30) DEF ActiveIsNew
    <2> QED
      BY <2>1, <2>2
  <1>12. EndedIsDropped'
    BY <1>8 DEF EndedIsDropped
  <1>13. MessagesAreHonest'
    BY SMT DEF MessagesAreHonest, Honest, Genuine
  <1>14. StreamSkipsNothing'
    <2>1. \A m \in Nodes, j \in Streams : ~Both(m, j)'
      BY <1>7, Peers, SMTT(30) DEF Both
    <2> QED
      BY <2>1, SkipsNothing
  <1> QED
    BY <1>1, <1>6, <1>10, <1>11, <1>12, <1>13, <1>14 DEF NetIInv

\* A Worker takes the stream the Server has passed on, and drops what it had.
LEMMA AcceptIInv ==
    ASSUME NetIInv, NEW n \in Nodes, AcceptNext(n)
    PROVE  NetIInv'
  <1>   /\ NetTypeOK /\ RegistrationIsCurrent /\ NoOrphanStream /\ AcceptedIsNew
        /\ ActiveIsNew /\ EndedIsDropped /\ OwnBlocksDense /\ BlocksAreGenuine
        /\ MessagesAreHonest /\ BatchIsNext /\ StreamSkipsNothing
    BY DEF NetIInv
  <1>1. NetTypeOK'
    BY WorkerTypes DEF WorkerStep
  <1>   UNCHANGED <<received, task, reply, stream, connected, sender, in>>
    BY DEF AcceptNext, Accept, syncvars
  <1>   Other(n) \in Nodes /\ Other(n) # n /\ Other(Other(n)) = n
        /\ \A m \in Nodes : m = n \/ m = Other(n)
    BY Peers
  <1>3. accepted[n] \in Seq(Streams) /\ accepted[n] # <<>> /\ made[n] \in Seq(Streams)
    BY DEF AcceptNext, Accept, NetTypeOK, TransportTypeOK
  <1>4. PICK i \in Streams : i = Head(accepted[n])
    BY <1>3, Queues
  <1>5. /\ work'[n] = Working("up", i) /\ \A m \in Nodes \ {n} : work'[m] = work[m]
        /\ \A j \in Streams \ {i} : greeted'[j] = greeted[j]
        /\ made'[n] = made[n] \/ made'[n] = Append(made[n], i)
        /\ \A m \in Nodes \ {n} : made'[m] = made[m]
        /\ accepted'[n] = Tail(accepted[n])
        /\ \A m \in Nodes \ {n} : accepted'[m] = accepted[m]
        /\ out' = LoseUnsent(n)
    <2>1. /\ work' = [work EXCEPT ![n] = Working("up", i)]
          /\ greeted' = [greeted EXCEPT ![i] = @ \cup {n}]
          /\ made' = [made EXCEPT ![n] = IF ends[i] = {} THEN @ ELSE Append(@, i)]
          /\ accepted' = [accepted EXCEPT ![n] = Tail(@)]
          /\ out' = LoseUnsent(n)
      BY <1>4 DEF AcceptNext, Accept
    <2>2. /\ DOMAIN work = Nodes /\ DOMAIN greeted = Streams
          /\ DOMAIN made = Nodes /\ DOMAIN accepted = Nodes
      BY DEF NetTypeOK, TransportTypeOK
    <2>3. work'[n] = Working("up", i) /\ \A m \in Nodes \ {n} : work'[m] = work[m]
      BY <2>1, <2>2
    <2>4. \A j \in Streams \ {i} : greeted'[j] = greeted[j]
      BY <2>1, <2>2
    <2>5. /\ made'[n] = made[n] \/ made'[n] = Append(made[n], i)
          /\ \A m \in Nodes \ {n} : made'[m] = made[m]
      BY <2>1, <2>2
    <2>6. accepted'[n] = Tail(accepted[n]) /\ \A m \in Nodes \ {n} : accepted'[m] = accepted[m]
      BY <2>1, <2>2
    <2> QED
      BY <2>1, <2>3, <2>4, <2>5, <2>6
  <1>6. /\ 1 \in DOMAIN accepted[n] /\ i = accepted[n][1] /\ i \in Range(accepted[n])
        /\ Fresh(n, 1, i)
    <2>1. 1 \in DOMAIN accepted[n] /\ i = accepted[n][1]
      BY <1>3, <1>4, SMT
    <2> QED
      BY <2>1 DEF AcceptedIsNew, Range
  <1>7. RegistrationIsCurrent' /\ NoOrphanStream' /\ OwnBlocksDense' /\ BlocksAreGenuine'
        /\ BatchIsNext'
    BY TasksStay
  <1>8. \A m \in Nodes, j \in Streams : j # i => (Carries(m, j)' => Carries(m, j))
    BY <1>5, SMT DEF Carries, Working
  <1>9. \A m \in Nodes, j \in Streams : j # i /\ Untouched(m, j) => Untouched(m, j)'
    <2>1. \A m \in Nodes : Range(made'[m]) \subseteq Range(made[m]) \cup {i}
      <3>1. Range(Append(made[n], i)) = Range(made[n]) \cup {i}
        BY <1>3, Queues, SMTT(30)
      <3> QED
        BY <1>5, <3>1
    <2> QED
      BY <2>1 DEF Untouched
  <1>10. AcceptedIsNew'
    <2> SUFFICES ASSUME NEW m \in Nodes, NEW k \in DOMAIN accepted'[m]
                 PROVE  Fresh(m, k, accepted[m][k])'
      BY DEF AcceptedIsNew
    <2>1. /\ DOMAIN Tail(accepted[n]) = 1 .. (Len(accepted[n]) - 1)
          /\ \A l \in DOMAIN Tail(accepted[n]) :
               /\ l + 1 \in DOMAIN accepted[n] /\ Tail(accepted[n])[l] = accepted[n][l + 1]
               /\ l \in Nat /\ l > 0
          /\ Range(Tail(accepted[n])) \subseteq Range(accepted[n])
      BY <1>3, Queues, SMT
    <2>2. PICK j \in Streams, h \in DOMAIN accepted[m] :
            /\ j = accepted'[m][k] /\ j = accepted[m][h] /\ Fresh(m, h, j) /\ j # i
            /\ \A l \in DOMAIN accepted'[m] : accepted'[m][l] = j => l = k
      <3>1. CASE m = n
        <4>1. k + 1 \in DOMAIN accepted[n] /\ accepted'[m][k] = accepted[n][k + 1] /\ k \in Nat
              /\ k > 0
          BY <1>5, <2>1, <3>1
        <4>2. accepted[n][k + 1] \in Streams /\ Fresh(n, k + 1, accepted[n][k + 1])
          BY <1>3, <4>1, Accepted
        <4>3. accepted[n][k + 1] # i
          <5>1. accepted[n][k + 1] = i => k + 1 = 1
            BY <1>6, <4>1 DEF Fresh
          <5> QED
            BY <4>1, <5>1, SMT
        <4>4. \A l \in DOMAIN accepted'[m] : accepted'[m][l] = accepted[n][k + 1] => l = k
          <5> SUFFICES ASSUME NEW l \in DOMAIN Tail(accepted[n]),
                              Tail(accepted[n])[l] = accepted[n][k + 1]
                       PROVE  l = k
            BY <1>5, <3>1
          <5>1. l \in Nat /\ l + 1 \in DOMAIN accepted[n]
                /\ accepted[n][l + 1] = accepted[n][k + 1]
            BY <2>1
          <5>2. l + 1 = k + 1
            BY <4>2, <5>1 DEF Fresh
          <5> QED
            BY <4>1, <5>1, <5>2, SMT
        <4> QED
          BY <3>1, <4>1, <4>2, <4>3, <4>4
      <3>2. CASE m # n
        <4>1. accepted'[m] = accepted[m] /\ Other(m) = n
          BY <1>5, <3>2
        <4>2. accepted[m][k] \in Streams /\ Fresh(m, k, accepted[m][k])
          BY <4>1, Accepted
        <4>3. accepted[m][k] # i
          BY <1>6, <4>1, <4>2 DEF Fresh
        <4>4. \A l \in DOMAIN accepted'[m] : accepted'[m][l] = accepted[m][k] => l = k
          BY <4>1, <4>2 DEF Fresh
        <4> QED
          BY <4>1, <4>2, <4>3, <4>4
      <3> QED
        BY <3>1, <3>2
    <2>3. j \notin Range(accepted'[Other(m)])
      <3>1. j \notin Range(accepted[Other(m)]) /\ Other(m) \in Nodes
        BY <2>2, Peers DEF Fresh
      <3>2. Range(accepted'[Other(m)]) \subseteq Range(accepted[Other(m)])
        BY <1>5, <2>1, <3>1, ZenonT(30)
      <3> QED
        BY <3>1, <3>2
    <2>4. m \notin greeted'[j] /\ work'[m].stream # j
      BY <1>5, <2>2, SMT DEF Fresh, Working
    <2>5. \A x \in Nodes : Untouched(x, j)' /\ in'[x][j] = <<>> /\ ~Carries(x, j)'
      BY <1>8, <1>9, <2>2, ZenonT(30) DEF Fresh
    <2> QED
      BY <2>2, <2>3, <2>4, <2>5 DEF Fresh
  <1>11. ActiveIsNew'
    <2> SUFFICES ASSUME NEW m \in Nodes, NEW j \in Streams, work'[m] = Working("active", j)
                 PROVE  /\ Untouched(m, j)'
                        /\ stream'[Other(m)][j].at = "none" /\ in'[Other(m)][j] = <<>>
      BY DEF ActiveIsNew
    <2>1. m # n
      BY <1>5, SMT DEF Working
    <2>2. work[m] = Working("active", j) /\ made'[m] = made[m]
      BY <1>5, <2>1
    <2> QED
      BY <2>2, Peers, SMT DEF ActiveIsNew, Untouched
  <1>12. EndedIsDropped'
    <2>1. \A m \in Nodes : task'[m][i] = "none"
      BY <1>6 DEF Fresh, Untouched
    <2> QED
      BY <1>8, <2>1 DEF EndedIsDropped
  <1>13. MessagesAreHonest'
    <2>1. ASSUME NEW m \in Nodes, NEW j \in Streams
          PROVE  /\ \A x \in Range(out'[m][j]) : x \in Range(out[m][j])
                 /\ Range(in'[Other(m)][j]) = Range(in[Other(m)][j])
      BY <1>3, <1>5, LoseUnsentFacts, Queues, SMTT(30)
    <2>2. Grows
      BY DEF Grows
    <2> QED
      BY <2>1, <2>2, HonestMessages, ZenonT(30)
  <1>14. StreamSkipsNothing'
    <2>1. ASSUME NEW m \in Nodes, NEW j \in Streams
          PROVE  ~Both(m, j)'
      <3>1. Carries(n, j)' => j = i
        BY <1>5, SMT DEF Carries, Working
      <3>2. stream'[m][i].at = "none"
        BY <1>6 DEF Fresh, Untouched
      <3> QED
        BY <3>1, <3>2 DEF Both
    <2> QED
      BY <2>1, SkipsNothing
  <1> QED
    BY <1>1, <1>7, <1>10, <1>11, <1>12, <1>13, <1>14 DEF NetIInv
============================================================================
