--------------------------- MODULE NetSyncProofs ---------------------------
(***************************************************************************)
(* Proofs about NetSync, for every number of streams and of blocks, every  *)
(* capacity of the channels and every number of faults: what a task of     *)
(* net_sync.rs registers belongs to it alone, and the stream of own blocks *)
(* of synchronizer.rs leaves no block out, however often connections break *)
(* and are replaced.                                                       *)
(***************************************************************************)
EXTENDS NetSyncSteps

\* Zenon is the prover of a leaf that does not name another one.
USE Zenon

\* The handshake of the peer is read: the Connection is new on both sides.
LEMMA ShakeIInv ==
    ASSUME NetIInv, NEW n \in Nodes, ShakeNext(n)
    PROVE  NetIInv'
  <1>   /\ NetTypeOK /\ RegistrationIsCurrent /\ NoOrphanStream /\ AcceptedIsNew
        /\ ActiveIsNew /\ EndedIsDropped /\ OwnBlocksDense /\ BlocksAreGenuine
        /\ MessagesAreHonest /\ BatchIsNext /\ StreamSkipsNothing
    BY DEF NetIInv
  <1>1. NetTypeOK'
    BY WorkerTypes DEF WorkerStep
  <1>   UNCHANGED <<ends, greeted, accepted, out, in, received, task, reply, stream,
                    connected, sender>>
    BY DEF ShakeNext, Shake, syncvars
  <1>   Other(n) \in Nodes /\ Other(n) # n /\ Other(Other(n)) = n
        /\ \A m \in Nodes : m = n \/ m = Other(n)
    BY Peers
  <1>3. PICK i \in Streams : i = work[n].stream
    BY DEF ShakeNext, Shake, NetTypeOK, TransportTypeOK
  <1>4. /\ work[n] = Working("active", i) /\ work'[n] = Working("up", i)
        /\ \A m \in Nodes \ {n} : work'[m] = work[m]
        /\ made[n] \in Seq(Streams) /\ made'[n] = Append(made[n], i)
        /\ \A m \in Nodes \ {n} : made'[m] = made[m]
        /\ Other(n) \in greeted[i]
    <2>1. work[n] \in [at : {"sleep", "active", "up"}, stream : Streams \cup {0}]
      BY DEF NetTypeOK, TransportTypeOK
    <2>2. work[n] = Working("active", i) /\ [work[n] EXCEPT !.at = "up"] = Working("up", i)
      BY <1>3, <2>1, SMT DEF ShakeNext, Shake, Working
    <2> QED
      BY <1>3, <2>2 DEF ShakeNext, Shake, NetTypeOK, TransportTypeOK
  <1>5. /\ Untouched(n, i) /\ \A m \in Nodes : stream[m][i].at = "none"
        /\ task[n][i] = "none"
    BY <1>4, SMT DEF ActiveIsNew, Untouched
  <1>6. RegistrationIsCurrent' /\ NoOrphanStream' /\ OwnBlocksDense' /\ BlocksAreGenuine'
        /\ BatchIsNext'
    BY TasksStay
  <1>7. \A m \in Nodes, j \in Streams : m # n \/ j # i => (Carries(m, j)' => Carries(m, j))
    BY <1>4, SMT DEF Carries, Working
  <1>8. \A m \in Nodes, j \in Streams :
           (m # n \/ j # i) /\ Untouched(m, j) => Untouched(m, j)'
    <2>1. Range(made'[n]) = Range(made[n]) \cup {i}
      BY <1>4, Queues, SMT
    <2> QED
      BY <1>4, <2>1 DEF Untouched
  <1>9. AcceptedIsNew'
    <2> SUFFICES ASSUME NEW m \in Nodes, NEW k \in DOMAIN accepted'[m]
                 PROVE  Fresh(m, k, accepted[m][k])'
      BY DEF AcceptedIsNew
    <2>1. PICK j \in Streams : j = accepted[m][k] /\ Fresh(m, k, j)
      BY Accepted
    <2>2. j # i
      BY <1>3, <1>4, <2>1 DEF Fresh
    <2>3. work'[m].stream # j
      BY <1>4, <2>1, <2>2, SMT DEF Fresh, Working
    <2>4. \A x \in Nodes : Untouched(x, j)' /\ in'[x][j] = <<>> /\ ~Carries(x, j)'
      BY <1>7, <1>8, <2>1, <2>2 DEF Fresh
    <2> QED
      BY <2>1, <2>3, <2>4 DEF Fresh
  <1>10. ActiveIsNew'
    <2> SUFFICES ASSUME NEW m \in Nodes, NEW j \in Streams, work'[m] = Working("active", j)
                 PROVE  /\ Untouched(m, j)'
                        /\ stream'[Other(m)][j].at = "none" /\ in'[Other(m)][j] = <<>>
      BY DEF ActiveIsNew
    <2>1. m # n
      BY <1>4, SMT DEF Working
    <2> QED
      BY <1>4, <1>8, <2>1, Peers, SMT DEF ActiveIsNew
  <1>11. EndedIsDropped'
    BY <1>5, <1>7 DEF EndedIsDropped
  <1>12. MessagesAreHonest'
    BY SMT DEF MessagesAreHonest, Honest, Genuine
  <1>13. StreamSkipsNothing'
    <2>1. ASSUME NEW m \in Nodes, NEW j \in Streams
          PROVE  ~Both(m, j)'
      <3>1. Carries(n, j)' => j = i
        BY <1>4, SMT DEF Carries, Working
      <3> QED
        BY <1>5, <3>1 DEF Both
    <2> QED
      BY <2>1, SkipsNothing
  <1> QED
    BY <1>1, <1>6, <1>9, <1>10, <1>11, <1>12, <1>13 DEF NetIInv

\* A Worker lets go of its stream, and of what was not yet sent.
LEMMA FailIInv ==
    ASSUME NetIInv, NEW n \in Nodes, FailNext(n)
    PROVE  NetIInv'
  <1>   /\ NetTypeOK /\ RegistrationIsCurrent /\ NoOrphanStream /\ AcceptedIsNew
        /\ ActiveIsNew /\ EndedIsDropped /\ OwnBlocksDense /\ BlocksAreGenuine
        /\ MessagesAreHonest /\ BatchIsNext /\ StreamSkipsNothing
    BY DEF NetIInv
  <1>1. NetTypeOK'
    BY WorkerTypes DEF WorkerStep
  <1>   UNCHANGED <<greeted, accepted, made, in, received, task, reply, stream, connected,
                    sender>>
    BY DEF FailNext, Fail, syncvars
  <1>3. /\ work'[n] = Working("sleep", 0) /\ \A m \in Nodes \ {n} : work'[m] = work[m]
        /\ out' = LoseUnsent(n)
    BY DEF FailNext, Fail, NetTypeOK, TransportTypeOK
  <1>4. RegistrationIsCurrent' /\ NoOrphanStream' /\ OwnBlocksDense' /\ BlocksAreGenuine'
        /\ BatchIsNext'
    BY TasksStay
  <1>5. /\ \A j : ~Carries(n, j)'
        /\ \A m \in Nodes, j \in Streams : Carries(m, j)' => Carries(m, j)
    BY <1>3, SMT DEF Carries, Working
  <1>6. AcceptedIsNew'
    <2> SUFFICES ASSUME NEW m \in Nodes, NEW k \in DOMAIN accepted'[m]
                 PROVE  Fresh(m, k, accepted[m][k])'
      BY DEF AcceptedIsNew
    <2>1. PICK j \in Streams : j = accepted[m][k] /\ Fresh(m, k, j)
      BY Accepted
    <2>2. work'[m].stream # j
      BY <1>3, <2>1, TransportAssumption, SMT DEF Fresh, Working
    <2>3. \A x \in Nodes : Untouched(x, j)' /\ in'[x][j] = <<>> /\ ~Carries(x, j)'
      BY <1>5, <2>1 DEF Fresh, Untouched
    <2> QED
      BY <2>1, <2>2, <2>3 DEF Fresh
  <1>7. ActiveIsNew'
    BY <1>3, Peers, SMT DEF ActiveIsNew, Untouched, Working
  <1>8. EndedIsDropped'
    BY <1>5 DEF EndedIsDropped
  <1>9. MessagesAreHonest'
    <2>1. ASSUME NEW m \in Nodes, NEW j \in Streams
          PROVE  /\ \A x \in Range(out'[m][j]) : x \in Range(out[m][j])
                 /\ Range(in'[Other(m)][j]) = Range(in[Other(m)][j])
      <3>1. out'[m][j] = <<>> \/ out'[m][j] = out[m][j]
        BY <1>3, LoseUnsentFacts
      <3>2. Range(<<>>) = {}
        BY SMT DEF Range
      <3> QED
        BY <3>1, <3>2
    <2>2. Grows
      BY DEF Grows
    <2> QED
      BY <2>1, <2>2, HonestMessages
  <1>10. StreamSkipsNothing'
    <2>1. \A m \in Nodes, j \in Streams : ~Both(m, j)'
      BY <1>5, Peers, SMTT(30) DEF Both
    <2> QED
      BY <2>1, SkipsNothing
  <1> QED
    BY <1>1, <1>4, <1>6, <1>7, <1>8, <1>9, <1>10 DEF NetIInv

\* A message passes between two sides that carry the stream.
LEMMA PassIInv ==
    ASSUME NetIInv, NEW n \in Nodes, PassNext(n)
    PROVE  NetIInv'
  <1>   /\ NetTypeOK /\ RegistrationIsCurrent /\ NoOrphanStream /\ AcceptedIsNew
        /\ ActiveIsNew /\ EndedIsDropped /\ OwnBlocksDense /\ BlocksAreGenuine
        /\ MessagesAreHonest /\ BatchIsNext /\ StreamSkipsNothing
    BY DEF NetIInv
  <1>1. NetTypeOK'
    BY WorkerTypes DEF WorkerStep
  <1>   UNCHANGED <<work, ends, greeted, accepted, made, received, task, reply, stream,
                    connected, sender>>
    BY DEF PassNext, Pass, syncvars
  <1>   Other(n) \in Nodes /\ Other(n) # n /\ Other(Other(n)) = n
        /\ \A m \in Nodes : m = n \/ m = Other(n)
    BY Peers
  <1>3. PICK i \in Streams :
           /\ Carries(n, i) /\ Carries(Other(n), i) /\ out[n][i] # <<>>
           /\ in' = [in EXCEPT ![Other(n)][i] = Append(in[Other(n)][i], Head(out[n][i]))]
           /\ out' = [out EXCEPT ![n][i] = Tail(out[n][i])]
    <2>1. work[n].at = "up" => work[n].stream \in Streams
      BY DEF NetTypeOK, TransportTypeOK
    <2>2. Carries(n, work[n].stream) => work[n].at = "up"
      BY SMT DEF Carries, Working
    <2> QED
      BY <2>1, <2>2 DEF PassNext, Pass
  <1>4. /\ in[Other(n)][i] \in Seq(Messages) /\ out[n][i] \in Seq(Messages)
        /\ Append(in[Other(n)][i], Head(out[n][i])) \in Seq(Messages)
        /\ Tail(out[n][i]) \in Seq(Messages)
        /\ Range(Append(in[Other(n)][i], Head(out[n][i]))) =
              Range(in[Other(n)][i]) \cup {Head(out[n][i])}
        /\ Range(out[n][i]) = {Head(out[n][i])} \cup Range(Tail(out[n][i]))
    <2>1. in[Other(n)][i] \in Seq(Messages) /\ out[n][i] \in Seq(Messages)
      BY SMT DEF NetTypeOK, TransportTypeOK
    <2> QED
      BY <1>3, <2>1, Queues
  <1>5. \A m \in Nodes, j \in Streams :
           /\ in'[m][j] = IF m = Other(n) /\ j = i
                          THEN Append(in[Other(n)][i], Head(out[n][i])) ELSE in[m][j]
           /\ out'[m][j] = IF m = n /\ j = i THEN Tail(out[n][i]) ELSE out[m][j]
    <2>1. /\ in' = [in EXCEPT ![Other(n)][i] = Append(in[Other(n)][i], Head(out[n][i]))]
          /\ out' = [out EXCEPT ![n][i] = Tail(out[n][i])]
      BY <1>3
    <2>2. \A m \in Nodes, j \in Streams :
             in'[m][j] = IF m = Other(n) /\ j = i
                         THEN Append(in[Other(n)][i], Head(out[n][i])) ELSE in[m][j]
      BY <2>1, InType, CellIs, SMT
    <2>3. \A m \in Nodes, j \in Streams :
             out'[m][j] = IF m = n /\ j = i THEN Tail(out[n][i]) ELSE out[m][j]
      BY <2>1, OutType, CellIs, SMT
    <2> QED
      BY <2>2, <2>3
  <1>6. RegistrationIsCurrent' /\ NoOrphanStream' /\ OwnBlocksDense' /\ BlocksAreGenuine'
        /\ BatchIsNext'
    BY TasksStay
  <1>7. AcceptedIsNew'
    <2> SUFFICES ASSUME NEW m \in Nodes, NEW k \in DOMAIN accepted'[m]
                 PROVE  Fresh(m, k, accepted[m][k])'
      BY DEF AcceptedIsNew
    <2>1. PICK j \in Streams : j = accepted[m][k] /\ Fresh(m, k, j)
      BY Accepted
    <2>2. j # i
      BY <1>3, <2>1 DEF Fresh
    <2>3. \A x \in Nodes : Untouched(x, j)' /\ in'[x][j] = <<>> /\ ~Carries(x, j)'
      BY <1>5, <2>1, <2>2, SMT DEF Fresh, Untouched, Carries
    <2> QED
      BY <2>1, <2>3 DEF Fresh
  <1>8. ActiveIsNew'
    <2>1. \A m \in Nodes : work[m] = Working("up", i)
      BY <1>3 DEF Carries
    <2>2. \A m \in Nodes : \A j : work[m] # Working("active", j)
      BY <2>1, SMT DEF Working
    <2> QED
      BY <2>2 DEF ActiveIsNew
  <1>9. EndedIsDropped'
    BY DEF EndedIsDropped, Carries
  <1>10. MessagesAreHonest'
    <2>1. ASSUME NEW m \in Nodes, NEW j \in Streams
          PROVE  /\ \A x \in Range(out'[m][j]) : x \in Range(out[m][j])
                 /\ \A x \in Range(in'[Other(m)][j]) :
                      x \in Range(in[Other(m)][j]) \cup Range(out[m][j])
      BY <1>4, <1>5, Peers, Z3
    <2>2. Grows
      BY DEF Grows
    <2> QED
      BY <2>1, <2>2, HonestMessages
  <1>11. StreamSkipsNothing'
    <2>1. ASSUME NEW m \in Nodes, NEW j \in Streams, Both(m, j)'
          PROVE  /\ \A b : Arrives(m, j, b) => Arrives(m, j, b)'
                 /\ Both(m, j) /\ stream'[m][j].round = stream[m][j].round
      <3>1. Range(out[m][j]) \cup Range(in[Other(m)][j]) =
               Range(out'[m][j]) \cup Range(in'[Other(m)][j])
        BY <1>4, <1>5, Peers, SMT
      <3> QED
        BY <2>1, <3>1 DEF Arrives, Both, Carries
    <2> QED
      BY <2>1, SkipsNothing
  <1> QED
    BY <1>1, <1>6, <1>7, <1>8, <1>9, <1>10, <1>11 DEF NetIInv

-----------------------------------------------------------------------------
(* The steps of connection_task *)

\* A task that has just been started subscribes to what its peer has next.
LEMMA SubscribeIInv ==
    ASSUME NetIInv, NEW n \in Nodes, NEW i \in Streams, Subscribe(n, i)
    PROVE  NetIInv'
  <1>   /\ NetTypeOK /\ RegistrationIsCurrent /\ NoOrphanStream /\ AcceptedIsNew
        /\ ActiveIsNew /\ EndedIsDropped /\ OwnBlocksDense /\ BlocksAreGenuine
        /\ MessagesAreHonest /\ BatchIsNext /\ StreamSkipsNothing
    BY DEF NetIInv
  <1>1. NetTypeOK'
    BY TaskTypes DEF TaskStep
  <1>   UNCHANGED <<work, ends, greeted, accepted, made, received, reply, stream, sender>>
        /\ task[n][i] = "start"
    BY DEF Subscribe
  <1>   Other(n) \in Nodes
    BY Peers
  <1>3. PICK t \in {"none", "loop"} :
           /\ task' = [task EXCEPT ![n][i] = t]
           /\ t = "loop" => connected' = [connected EXCEPT ![n] = TRUE]
           /\ t = "none" => connected' = connected
    BY DEF Subscribe
  <1>4. \A m \in Nodes, j \in Streams :
           task'[m][j] = IF m = n /\ j = i THEN t ELSE task[m][j]
    BY <1>3, TaskType, CellIs, SMT
  <1>5. RegistrationIsCurrent' /\ NoOrphanStream' /\ EndedIsDropped'
    <2>1. \A m \in Nodes : connected[m] => connected'[m]
      BY <1>3 DEF NetTypeOK, SyncTypeOK
    <2>2. t = "loop" => connected'[n]
      BY <1>3 DEF NetTypeOK, SyncTypeOK
    <2>3. RegistrationIsCurrent'
      BY <1>4, <2>1, <2>2, SMT DEF RegistrationIsCurrent
    <2>4. NoOrphanStream' /\ EndedIsDropped'
      BY <1>4, SMT DEF NoOrphanStream, EndedIsDropped, Carries
    <2> QED
      BY <2>3, <2>4
  <1>6. OwnBlocksDense' /\ BlocksAreGenuine' /\ BatchIsNext' /\ Grows
    BY SMT DEF OwnBlocksDense, BlocksAreGenuine, Genuine, BatchIsNext, ReadNext, Grows
  <1>7. out[n][i] \in Seq(Messages) /\ in[n][i] \in Seq(Messages)
        /\ <<>> \in Seq(Messages) /\ Range(<<>>) = {}
    BY Queues, SMT DEF NetTypeOK, TransportTypeOK
  <1>8. PICK r \in Nat :
           /\ r = LastSeen(n, Other(n))
           /\ \A x \in 1 .. r : Block(Other(n), x) \in received[n]
    BY LastSeenFacts DEF NetTypeOK, SyncTypeOK
  <1>9. CASE Carries(n, i)
    <2>1. in' = in /\ out' = [out EXCEPT ![n][i] = Append(out[n][i], SubscribeOwnFrom(r))]
      BY <1>8, <1>9 DEF Subscribe, Send
    <2>2. /\ Append(out[n][i], SubscribeOwnFrom(r)) \in Seq(Messages)
          /\ Range(Append(out[n][i], SubscribeOwnFrom(r))) =
                Range(out[n][i]) \cup {SubscribeOwnFrom(r)}
      BY <1>7, MessageTypes, Queues
    <2>3. \A m \in Nodes, j \in Streams :
             out'[m][j] = IF m = n /\ j = i THEN Append(out[n][i], SubscribeOwnFrom(r))
                          ELSE out[m][j]
      BY <2>1, OutType, CellIs, SMTT(30)
    <2>4. AcceptedIsNew' /\ ActiveIsNew'
      BY <1>4, <2>1, NewStaysNew, SMT
    <2>5. MessagesAreHonest'
      <3>1. Honest(n, SubscribeOwnFrom(r))'
        BY <1>8 DEF Honest, SubscribeOwnFrom
      <3>2. ASSUME NEW m \in Nodes, NEW j \in Streams
            PROVE  /\ \A x \in Range(out'[m][j]) : x \in Range(out[m][j]) \/ Honest(m, x)'
                   /\ \A x \in Range(in'[Other(m)][j]) :
                        x \in Range(in[Other(m)][j]) \cup Range(out[m][j])
        BY <2>1, <2>2, <2>3, <3>1, SMT
      <3> QED
        BY <1>6, <3>2, HonestMessages
    <2>6. StreamSkipsNothing'
      <3>1. ASSUME NEW m \in Nodes, NEW j \in Streams, Both(m, j)'
            PROVE  /\ \A b : Arrives(m, j, b) => Arrives(m, j, b)'
                   /\ Both(m, j) /\ stream'[m][j].round = stream[m][j].round
        BY <2>1, <2>2, <2>3, <3>1, SMTT(30) DEF Arrives, Both, Carries
      <3> QED
        BY <3>1, SkipsNothing
    <2> QED
      BY <1>1, <1>5, <1>6, <2>4, <2>5, <2>6 DEF NetIInv
  <1>10. CASE ~Carries(n, i)
    <2>1. out' = out /\ in' = [in EXCEPT ![n][i] = <<>>]
      BY <1>10 DEF Subscribe
    <2>2. \A m \in Nodes, j \in Streams :
             in'[m][j] = IF m = n /\ j = i THEN <<>> ELSE in[m][j]
      BY <1>7, <2>1, InType, CellIs, SMTT(30)
    <2>3. AcceptedIsNew' /\ ActiveIsNew'
      BY <1>4, <2>2, NewStaysNew, SMT
    <2>4. MessagesAreHonest'
      <3>1. ASSUME NEW m \in Nodes, NEW j \in Streams
            PROVE  /\ \A x \in Range(out'[m][j]) : x \in Range(out[m][j])
                   /\ \A x \in Range(in'[Other(m)][j]) : x \in Range(in[Other(m)][j])
        BY <1>7, <2>1, <2>2, Peers, SMTT(30)
      <3> QED
        BY <1>6, <3>1, HonestMessages
    <2>5. StreamSkipsNothing'
      <3>1. ASSUME NEW m \in Nodes, NEW j \in Streams, Both(m, j)'
            PROVE  /\ \A b : Arrives(m, j, b) => Arrives(m, j, b)'
                   /\ Both(m, j) /\ stream'[m][j].round = stream[m][j].round
        <4>1. Other(m) # n \/ j # i
          BY <1>10, <3>1 DEF Both, Carries
        <4>2. in'[Other(m)][j] = in[Other(m)][j]
          BY <2>2, <4>1, Peers, SMT
        <4> QED
          BY <2>1, <3>1, <4>2 DEF Arrives, Both, Carries
      <3> QED
        BY <3>1, SkipsNothing
    <2> QED
      BY <1>1, <1>5, <1>6, <2>3, <2>4, <2>5 DEF NetIInv
  <1> QED
    BY <1>9, <1>10

\* The task handles a message: it starts a stream where the peer asked for it, stores
\* a block or begins an answer.
LEMMA ReceiveIInv ==
    ASSUME NetIInv, NEW n \in Nodes, NEW i \in Streams, Receive(n, i)
    PROVE  NetIInv'
  <1>   /\ NetTypeOK /\ RegistrationIsCurrent /\ NoOrphanStream /\ AcceptedIsNew
        /\ ActiveIsNew /\ EndedIsDropped /\ OwnBlocksDense /\ BlocksAreGenuine
        /\ MessagesAreHonest /\ BatchIsNext /\ StreamSkipsNothing
    BY DEF NetIInv
  <1>1. NetTypeOK'
    BY TaskTypes DEF TaskStep
  <1>   /\ UNCHANGED <<work, ends, greeted, accepted, made, out, connected, sender>>
        /\ task[n][i] = "loop" /\ in[n][i] # <<>>
        /\ in' = [in EXCEPT ![n][i] = Tail(in[n][i])]
    BY DEF Receive
  <1>   Other(n) \in Nodes /\ Other(n) # n /\ Other(Other(n)) = n
        /\ \A m \in Nodes : m = n \/ m = Other(n)
    BY Peers
  <1>3. in[n][i] \in Seq(Messages) /\ Tail(in[n][i]) \in Seq(Messages)
        /\ Range(in[n][i]) = {Head(in[n][i])} \cup Range(Tail(in[n][i]))
    <2>1. in[n][i] \in Seq(Messages)
      BY DEF NetTypeOK, TransportTypeOK
    <2> QED
      BY <2>1, Queues
  <1>4. PICK msg \in Messages : msg = Head(in[n][i]) /\ Honest(Other(n), msg)
    <2>1. Head(in[n][i]) \in Messages
      BY <1>3, Queues
    <2>2. Honest(Other(n), Head(in[n][i]))
      BY <1>3 DEF MessagesAreHonest
    <2> QED
      BY <2>1, <2>2
  <1>5. \A m \in Nodes, j \in Streams :
           in'[m][j] = IF m = n /\ j = i THEN Tail(in[n][i]) ELSE in[m][j]
    BY <1>3, InType, CellIs, SMT
  \* What the step leaves alone but for what it is about.
  <1>6. ASSUME Grows,
               \A m \in Nodes, j \in Streams : m # n \/ j # i =>
                   task'[m][j] = task[m][j] /\ stream'[m][j] = stream[m][j],
               task'[n][i] \in {"loop", "serve"}
        PROVE  RegistrationIsCurrent' /\ NoOrphanStream' /\ EndedIsDropped'
               /\ AcceptedIsNew' /\ ActiveIsNew' /\ MessagesAreHonest'
    <2>1. RegistrationIsCurrent'
      BY <1>6, SMT DEF RegistrationIsCurrent
    <2>2. NoOrphanStream' /\ EndedIsDropped'
      BY <1>6, SMT DEF NoOrphanStream, EndedIsDropped, Carries
    <2>3. AcceptedIsNew' /\ ActiveIsNew'
      BY <1>5, <1>6, NewStaysNew, SMTT(30)
    <2>4. ASSUME NEW m \in Nodes, NEW j \in Streams
          PROVE  /\ \A x \in Range(out'[m][j]) : x \in Range(out[m][j])
                 /\ \A x \in Range(in'[Other(m)][j]) : x \in Range(in[Other(m)][j])
      BY <1>3, <1>5, Peers, SMT
    <2>5. MessagesAreHonest'
      BY <1>6, <2>4, HonestMessages
    <2> QED
      BY <2>1, <2>2, <2>3, <2>5
  \* The message that leaves the channel is the only one that does.
  <1>7. ASSUME Grows, NEW m \in Nodes, NEW j \in Streams, NEW b, Arrives(m, j, b),
               msg = BlockMessage(b) => b \in received'[n]
        PROVE  Arrives(m, j, b)'
    <2>1. CASE Other(m) = n /\ j = i
      BY <1>3, <1>4, <1>5, <1>7, <2>1, Peers, SMTT(30) DEF Arrives, Grows
    <2>2. CASE ~(Other(m) = n /\ j = i)
      BY <1>5, <1>7, <2>2, Peers, SMT DEF Arrives, Grows
    <2> QED
      BY <2>1, <2>2
  <1>8. CASE /\ msg.kind = "subscribe" /\ Disseminate(n, i, msg.round)
             /\ UNCHANGED <<received, task, reply>>
    <2>1. Grows /\ OwnBlocksDense' /\ BlocksAreGenuine'
      BY <1>8 DEF Grows, OwnBlocksDense, BlocksAreGenuine, Genuine
    <2>2. msg.round \in Nat
      BY <1>8, MessageTypes
    <2>3. PICK s \in StreamStates :
            /\ \A m \in Nodes, j \in Streams :
                 stream'[m][j] = IF m = n /\ j = i THEN s ELSE stream[m][j]
            /\ s = stream[n][i] \/ (s.at = "read" /\ s.round = msg.round)
      <3>1. CASE stream' = stream
        <4>1. stream[n][i] \in StreamStates
          BY SMT DEF NetTypeOK, SyncTypeOK
        <4> QED
          BY <3>1, <4>1
      <3>2. CASE stream' = [stream EXCEPT ![n][i] = Started(msg.round)]
        <4>1. /\ Started(msg.round) \in StreamStates
              /\ Started(msg.round).at = "read" /\ Started(msg.round).round = msg.round
          BY <2>2, NewStream
        <4>2. \A m \in Nodes, j \in Streams :
                stream'[m][j] = IF m = n /\ j = i THEN Started(msg.round) ELSE stream[m][j]
          BY <3>2, <4>1, StreamType, CellIs, SMT
        <4> QED
          BY <4>1, <4>2
      <3> QED
        BY <1>8, <3>1, <3>2 DEF Disseminate, Started
    <2>4. /\ RegistrationIsCurrent' /\ NoOrphanStream' /\ EndedIsDropped'
          /\ AcceptedIsNew' /\ ActiveIsNew' /\ MessagesAreHonest'
      BY <1>6, <1>8, <2>1, <2>3
    <2>5. BatchIsNext'
      BY <1>8, <2>3, SMT DEF BatchIsNext, ReadNext
    <2>6. StreamSkipsNothing'
      <3>1. ASSUME NEW m \in Nodes, NEW j \in Streams, Both(m, j)'
            PROVE  /\ \A b : Arrives(m, j, b) => Arrives(m, j, b)'
                   /\ \/ Both(m, j) /\ stream'[m][j].round = stream[m][j].round
                      \/ \A r \in 1 .. stream'[m][j].round : Arrives(m, j, Block(m, r))'
        <4>1. \A b : msg # BlockMessage(b)
          BY <1>8, SMT DEF BlockMessage
        <4>2. \A b : Arrives(m, j, b) => Arrives(m, j, b)'
          BY <1>7, <2>1, <4>1
        <4>3. CASE m = n /\ j = i /\ s # stream[n][i]
          <5>1. \A r \in 1 .. msg.round : Block(n, r) \in received[Other(n)]
            BY <1>4, <1>8 DEF Honest
          <5>2. stream'[n][i].round = msg.round
            BY <2>3, <4>3
          <5>3. \A r \in 1 .. msg.round : Arrives(n, i, Block(n, r))'
            BY <1>8, <5>1 DEF Arrives
          <5> QED
            BY <4>2, <4>3, <5>2, <5>3
        <4>4. CASE ~(m = n /\ j = i /\ s # stream[n][i])
          <5>1. stream'[m][j] = stream[m][j]
            BY <2>3, <4>4
          <5>2. Both(m, j)
            BY <3>1, <5>1 DEF Both, Carries
          <5> QED
            BY <4>2, <5>1, <5>2
        <4> QED
          BY <4>3, <4>4
      <3> QED
        BY <3>1, SkipsNothing
    <2> QED
      BY <1>1, <2>1, <2>4, <2>5, <2>6 DEF NetIInv
  \* In the other cases the streams go on as they were.
  <1>9. ASSUME Grows, stream' = stream, \A b : msg = BlockMessage(b) => b \in received'[n]
        PROVE  BatchIsNext' /\ StreamSkipsNothing'
    <2>1. BatchIsNext'
      BY <1>9, SMT DEF BatchIsNext, ReadNext, Grows
    <2>2. ASSUME NEW m \in Nodes, NEW j \in Streams, Both(m, j)'
          PROVE  /\ \A b : Arrives(m, j, b) => Arrives(m, j, b)'
                 /\ Both(m, j) /\ stream'[m][j].round = stream[m][j].round
      <3>1. \A b : Arrives(m, j, b) => Arrives(m, j, b)'
        BY <1>7, <1>9
      <3> QED
        BY <1>9, <2>2, <3>1 DEF Both, Carries
    <2>3. StreamSkipsNothing'
      BY <2>2, SkipsNothing
    <2> QED
      BY <2>1, <2>3
  <1>10. CASE /\ msg.kind = "block"
              /\ received' = [received EXCEPT ![n] = @ \cup {msg.block}]
              /\ UNCHANGED <<stream, task, reply>>
    <2>1. \A m \in Nodes : received'[m] = IF m = n THEN received[n] \cup {msg.block}
                                          ELSE received[m]
      BY <1>10 DEF NetTypeOK, SyncTypeOK
    <2>2. Grows
      BY <2>1 DEF Grows
    <2>3. Genuine(msg.block)
      BY <1>4, <1>10 DEF Honest
    <2>4. ASSUME NEW m \in Nodes, NEW q \in 1 .. Rounds, Block(m, q) \in received'[m]
          PROVE  Block(m, q) \in received[m]
      BY <2>1, <2>3, <2>4, BlockFacts, SMT DEF Genuine
    <2>5. OwnBlocksDense'
      BY <2>2, <2>4 DEF OwnBlocksDense, Grows
    <2>6. BlocksAreGenuine'
      <3>1. \A m \in Nodes : \A b \in received'[m] : Genuine(b)
        BY <2>1, <2>3, SMTT(30) DEF BlocksAreGenuine
      <3> QED
        BY <1>10, <2>2, <3>1, GenuineStays DEF BlocksAreGenuine
    <2>7. \A b : msg = BlockMessage(b) => b \in received'[n]
      BY <2>1, SMT DEF BlockMessage
    <2>8. BatchIsNext' /\ StreamSkipsNothing'
      BY <1>9, <1>10, <2>2, <2>7
    <2>9. /\ RegistrationIsCurrent' /\ NoOrphanStream' /\ EndedIsDropped'
          /\ AcceptedIsNew' /\ ActiveIsNew' /\ MessagesAreHonest'
      BY <1>6, <1>10, <2>2
    <2> QED
      BY <1>1, <2>5, <2>6, <2>8, <2>9 DEF NetIInv
  <1>11. CASE /\ msg.kind \in {"request", "not_found"} /\ UNCHANGED <<received, stream>>
              /\ \/ UNCHANGED <<task, reply>>
                 \/ /\ task' = [task EXCEPT ![n][i] = "serve"]
                    /\ reply' = [reply EXCEPT ![n][i] = Answer(n, msg.refs)]
                    /\ msg.kind = "request"
    <2>1. Grows /\ OwnBlocksDense'
      BY <1>11 DEF Grows, OwnBlocksDense
    <2>2. \A b : msg # BlockMessage(b)
      BY <1>11, SMT DEF BlockMessage
    <2>3. BatchIsNext' /\ StreamSkipsNothing'
      BY <1>9, <1>11, <2>1, <2>2
    <2>4. /\ task'[n][i] \in {"loop", "serve"}
          /\ \A m \in Nodes, j \in Streams : m # n \/ j # i => task'[m][j] = task[m][j]
      BY <1>11, TaskType, CellIs, SMT
    <2>5. /\ RegistrationIsCurrent' /\ NoOrphanStream' /\ EndedIsDropped'
          /\ AcceptedIsNew' /\ ActiveIsNew' /\ MessagesAreHonest'
      BY <1>6, <1>11, <2>1, <2>4
    <2>6. \A m \in Nodes, j \in Streams :
             \A b \in reply'[m][j].found : b \in reply[m][j].found \/ b \in received[m]
      <3>1. CASE reply' = reply
        BY <3>1
      <3>2. CASE reply' = [reply EXCEPT ![n][i] = Answer(n, msg.refs)] /\ msg.kind = "request"
        <4>1. Answer(n, msg.refs) \in Replies /\ Answer(n, msg.refs).found \subseteq received[n]
          <5>1. msg.refs \subseteq Blocks
            BY <3>2, MessageTypes
          <5> QED
            BY <5>1 DEF Answer, Replies, Stored
        <4>2. \A m \in Nodes, j \in Streams :
                 reply'[m][j] = IF m = n /\ j = i THEN Answer(n, msg.refs) ELSE reply[m][j]
          BY <3>2, <4>1, ReplyType, CellIs, SMT
        <4> QED
          BY <4>1, <4>2
      <3> QED
        BY <1>11, <3>1, <3>2
    <2>7. BlocksAreGenuine'
      BY <1>11, <2>1, <2>6, GenuineStays DEF BlocksAreGenuine
    <2> QED
      BY <1>1, <2>1, <2>3, <2>5, <2>7 DEF NetIInv
  <1> QED
    BY <1>4, <1>8, <1>10, <1>11 DEF Receive

\* send_blocks sends a block that is stored, or what is lost, or gives up.
LEMMA ServeIInv ==
    ASSUME NetIInv, NEW n \in Nodes, NEW i \in Streams, Serve(n, i)
    PROVE  NetIInv'
  <1>   /\ NetTypeOK /\ RegistrationIsCurrent /\ NoOrphanStream /\ AcceptedIsNew
        /\ ActiveIsNew /\ EndedIsDropped /\ OwnBlocksDense /\ BlocksAreGenuine
        /\ MessagesAreHonest /\ BatchIsNext /\ StreamSkipsNothing
    BY DEF NetIInv
  <1>1. NetTypeOK'
    BY TaskTypes DEF TaskStep
  <1>   /\ UNCHANGED <<work, ends, greeted, accepted, made, in, received, stream, connected,
                       sender>>
        /\ task[n][i] = "serve"
    BY DEF Serve
  <1>3. /\ reply[n][i] \in Replies /\ NoReply \in Replies /\ NoReply.found = {}
        /\ reply \in [Nodes -> [Streams -> Replies]] /\ task \in [Nodes -> [Streams -> Tasks]]
        /\ out \in [Nodes -> [Streams -> Seq(Messages)]] /\ out[n][i] \in Seq(Messages)
    BY SMTT(30) DEF NetTypeOK, SyncTypeOK, TransportTypeOK, NoReply, Replies
  <1>4. PICK t \in {"loop", "serve", "end"}, p \in Replies :
           /\ task' = [task EXCEPT ![n][i] = t] /\ (t = "end" => ~Carries(n, i))
           /\ reply' = [reply EXCEPT ![n][i] = p] /\ p.found \subseteq reply[n][i].found
           /\ \/ out' = out
              \/ \E msg \in Messages :
                   /\ out' = [out EXCEPT ![n][i] = Append(out[n][i], msg)]
                   /\ msg.kind = "block" => msg.block \in reply[n][i].found
                   /\ msg.kind # "subscribe"
    <2>1. CASE ~Carries(n, i)
      BY <1>3, <2>1 DEF Serve
    <2>2. CASE Carries(n, i) /\ reply[n][i].found = {}
      <3>1. BlockNotFound(reply[n][i].lost) \in Messages
            /\ BlockNotFound(reply[n][i].lost).kind = "not_found"
        BY <1>3, MessageTypes DEF Replies, BlockNotFound
      <3>2. /\ out' = [out EXCEPT ![n][i] = Append(out[n][i], BlockNotFound(reply[n][i].lost))]
            /\ reply' = [reply EXCEPT ![n][i] = NoReply]
            /\ task' = [task EXCEPT ![n][i] = "loop"]
        BY <2>2 DEF Serve, Send
      <3> QED
        BY <1>3, <3>1, <3>2
    <2>3. CASE Carries(n, i) /\ reply[n][i].found # {}
      <3>1. PICK b \in reply[n][i].found :
              /\ out' = [out EXCEPT ![n][i] = Append(out[n][i], BlockMessage(b))]
              /\ reply' = [reply EXCEPT ![n][i].found = @ \ {b}]
              /\ task' = task
        BY <2>3 DEF Serve, Send
      <3> DEFINE p == [reply[n][i] EXCEPT !.found = @ \ {b}]
      <3>2. p \in Replies /\ p.found \subseteq reply[n][i].found
        BY <1>3 DEF Replies
      <3>3. reply' = [reply EXCEPT ![n][i] = p]
        BY <3>1
      <3>4. /\ BlockMessage(b) \in Messages /\ BlockMessage(b).kind = "block"
            /\ BlockMessage(b).block = b
        BY <1>3, MessageTypes DEF Replies, BlockMessage
      <3>5. task' = [task EXCEPT ![n][i] = "serve"]
        BY <1>3, <3>1
      <3> HIDE DEF p
      <3> QED
        BY <3>1, <3>2, <3>3, <3>4, <3>5
    <2> QED
      BY <2>1, <2>2, <2>3
  <1>5. \A m \in Nodes, j \in Streams :
           /\ task'[m][j] = IF m = n /\ j = i THEN t ELSE task[m][j]
           /\ reply'[m][j] = IF m = n /\ j = i THEN p ELSE reply[m][j]
    <2>1. t \in Tasks
      BY DEF Tasks
    <2> QED
      BY <1>3, <1>4, <2>1, TaskType, ReplyType, CellIs, SMTT(30)
  <1>6. RegistrationIsCurrent' /\ NoOrphanStream' /\ EndedIsDropped'
    BY <1>4, <1>5, SMT DEF RegistrationIsCurrent, NoOrphanStream, EndedIsDropped, Carries
  <1>7. AcceptedIsNew' /\ ActiveIsNew'
    BY <1>5, NewStaysNew
  <1>8. OwnBlocksDense' /\ BatchIsNext' /\ Grows
    BY SMTT(30) DEF OwnBlocksDense, BatchIsNext, ReadNext, Grows
  <1>9. BlocksAreGenuine'
    BY <1>4, <1>5, <1>8, GenuineStays, SMTT(30) DEF BlocksAreGenuine
  <1>10. \A m \in Nodes, j \in Streams :
            /\ Range(out[m][j]) \subseteq Range(out'[m][j])
            /\ \A x \in Range(out'[m][j]) : x \in Range(out[m][j]) \/ Honest(m, x)'
    <2>1. CASE out' = out
      BY <2>1
    <2>2. CASE out' # out
      <3>1. PICK msg \in Messages :
              /\ out' = [out EXCEPT ![n][i] = Append(out[n][i], msg)]
              /\ msg.kind = "block" => msg.block \in reply[n][i].found
              /\ msg.kind # "subscribe"
        BY <1>4, <2>2
      <3>2. Append(out[n][i], msg) \in Seq(Messages)
            /\ Range(Append(out[n][i], msg)) = Range(out[n][i]) \cup {msg}
        BY <1>3, Queues
      <3>3. \A m \in Nodes, j \in Streams :
               out'[m][j] = IF m = n /\ j = i THEN Append(out[n][i], msg) ELSE out[m][j]
        BY <1>3, <3>1, <3>2, OutType, CellIs, SMTT(30)
      <3>4. Honest(n, msg)'
        BY <1>8, <3>1, GenuineStays DEF Honest, BlocksAreGenuine
      <3> QED
        BY <3>2, <3>3, <3>4, SMT
    <2> QED
      BY <2>1, <2>2
  <1>11. MessagesAreHonest'
    BY <1>8, <1>10, HonestMessages
  <1>12. StreamSkipsNothing'
    <2>1. ASSUME NEW m \in Nodes, NEW j \in Streams, Both(m, j)'
          PROVE  /\ \A b : Arrives(m, j, b) => Arrives(m, j, b)'
                 /\ Both(m, j) /\ stream'[m][j].round = stream[m][j].round
      BY <1>10, <2>1 DEF Arrives, Both, Carries
    <2> QED
      BY <2>1, SkipsNothing
  <1> QED
    BY <1>1, <1>6, <1>7, <1>8, <1>9, <1>11, <1>12 DEF NetIInv

\* A task ends when its Worker has left the Connection: nothing that was on its way
\* is lost over one that both sides still carry.
LEMMA EndTaskIInv ==
    ASSUME NetIInv, NEW n \in Nodes, NEW i \in Streams, EndTask(n, i)
    PROVE  NetIInv'
  <1>   /\ NetTypeOK /\ RegistrationIsCurrent /\ NoOrphanStream /\ AcceptedIsNew
        /\ ActiveIsNew /\ EndedIsDropped /\ OwnBlocksDense /\ BlocksAreGenuine
        /\ MessagesAreHonest /\ BatchIsNext /\ StreamSkipsNothing
    BY DEF NetIInv
  <1>1. NetTypeOK'
    BY TaskTypes DEF TaskStep
  <1>   /\ UNCHANGED <<work, ends, greeted, accepted, made, out, received, reply>>
        /\ task' = [task EXCEPT ![n][i] = "none"] /\ in' = [in EXCEPT ![n][i] = <<>>]
        /\ connected' = [connected EXCEPT ![n] = FALSE]
        /\ stream' = [stream EXCEPT ![n][i] = NoStream] /\ sender' = [sender EXCEPT ![n] = 0]
    BY DEF EndTask, Abort
  <1>3. task[n][i] \in {"loop", "end"} /\ ~Carries(n, i)
    BY DEF EndTask, EndedIsDropped
  <1>4. /\ in[n][i] \in Seq(Messages) /\ <<>> \in Seq(Messages) /\ Range(<<>>) = {}
        /\ NoStream \in StreamStates /\ NoStream.at = "none" /\ "none" \in Tasks
    BY Queues, NewStream, SMT DEF NetTypeOK, TransportTypeOK, Tasks
  <1>5. \A m \in Nodes, j \in Streams :
           /\ task'[m][j] = IF m = n /\ j = i THEN "none" ELSE task[m][j]
           /\ in'[m][j] = IF m = n /\ j = i THEN <<>> ELSE in[m][j]
           /\ stream'[m][j] = IF m = n /\ j = i THEN NoStream ELSE stream[m][j]
    <2>1. \A m \in Nodes, j \in Streams :
             task'[m][j] = IF m = n /\ j = i THEN "none" ELSE task[m][j]
      BY <1>4, TaskType, CellIs, SMT
    <2>2. \A m \in Nodes, j \in Streams :
             in'[m][j] = IF m = n /\ j = i THEN <<>> ELSE in[m][j]
      BY <1>4, InType, CellIs, SMT
    <2>3. \A m \in Nodes, j \in Streams :
             stream'[m][j] = IF m = n /\ j = i THEN NoStream ELSE stream[m][j]
      BY <1>4, StreamType, CellIs, SMTT(30)
    <2> QED
      BY <2>1, <2>2, <2>3, SMT
  <1>6. RegistrationIsCurrent'
    <2>1. \A j \in Streams : task[n][j] \in {"start", "loop", "serve", "end"} => j = i
      BY <1>3 DEF RegistrationIsCurrent
    <2>2. \A m \in Nodes \ {n} : connected'[m] = connected[m] /\ sender'[m] = sender[m]
      BY DEF NetTypeOK, SyncTypeOK
    <2> QED
      BY <1>5, <2>1, <2>2, SMT DEF RegistrationIsCurrent
  <1>7. NoOrphanStream' /\ EndedIsDropped'
    BY <1>4, <1>5, SMT DEF NoOrphanStream, EndedIsDropped, Carries
  <1>8. AcceptedIsNew' /\ ActiveIsNew'
    BY <1>3, <1>4, <1>5, NewStaysNew, SMT
  <1>9. OwnBlocksDense' /\ BlocksAreGenuine' /\ Grows
    BY DEF OwnBlocksDense, BlocksAreGenuine, Genuine, Grows
  <1>10. BatchIsNext'
    BY <1>4, <1>5, SMT DEF BatchIsNext, ReadNext
  <1>11. MessagesAreHonest'
    <2>1. ASSUME NEW m \in Nodes, NEW j \in Streams
          PROVE  /\ \A x \in Range(out'[m][j]) : x \in Range(out[m][j])
                 /\ \A x \in Range(in'[Other(m)][j]) : x \in Range(in[Other(m)][j])
      BY <1>4, <1>5, Peers, SMT
    <2> QED
      BY <1>9, <2>1, HonestMessages
  <1>12. StreamSkipsNothing'
    <2>1. ASSUME NEW m \in Nodes, NEW j \in Streams, Both(m, j)'
          PROVE  /\ \A b : Arrives(m, j, b) => Arrives(m, j, b)'
                 /\ Both(m, j) /\ stream'[m][j].round = stream[m][j].round
      <3>1. Carries(m, j) /\ Carries(Other(m), j) /\ Other(m) \in Nodes
        BY <2>1, Peers DEF Both, Carries
      <3>2. in'[Other(m)][j] = in[Other(m)][j] /\ stream'[m][j] = stream[m][j]
        BY <1>3, <1>5, <3>1, SMTT(30)
      <3> QED
        BY <2>1, <3>1, <3>2 DEF Arrives, Both
    <2> QED
      BY <2>1, SkipsNothing
  <1> QED
    BY <1>1, <1>6, <1>7, <1>8, <1>9, <1>10, <1>11, <1>12 DEF NetIInv

-----------------------------------------------------------------------------
(* Theorems *)

\* Before anybody has connected nothing is registered, sent or stored.
LEMMA NetInitIInv == Init => NetIInv
  <1> SUFFICES ASSUME Init
               PROVE  NetIInv
    OBVIOUS
  <1>1. NetTypeOK
    BY InitTypes
  <1>2. /\ \A n \in Nodes : accepted[n] = <<>> /\ received[n] = {} /\ work[n].at = "sleep"
        /\ \A n \in Nodes, i \in Streams :
             /\ task[n][i] = "none" /\ stream[n][i].at = "none"
             /\ out[n][i] = <<>> /\ in[n][i] = <<>> /\ reply[n][i].found = {}
    BY DEF Init, TransportInit, SyncInit, NoStream, NoReply, Working
  <1>3. RegistrationIsCurrent /\ NoOrphanStream /\ EndedIsDropped /\ OwnBlocksDense
        /\ BlocksAreGenuine
    BY <1>2, SMTT(30) DEF RegistrationIsCurrent, NoOrphanStream, EndedIsDropped, OwnBlocksDense,
                BlocksAreGenuine
  <1>4. AcceptedIsNew /\ BatchIsNext /\ StreamSkipsNothing
    BY <1>2, SMT DEF AcceptedIsNew, BatchIsNext, ReadNext, StreamSkipsNothing
  <1>5. ActiveIsNew
    BY <1>2, SMTT(30) DEF ActiveIsNew, Working
  <1>6. MessagesAreHonest
    BY <1>2, Peers, SMT DEF MessagesAreHonest, Range
  <1> QED
    BY <1>1, <1>3, <1>4, <1>5, <1>6 DEF NetIInv

\* No step of the network, of a Worker, of a task or of the core breaks it.
LEMMA NetNextIInv == NetIInv /\ [Next]_vars => NetIInv'
  <1> SUFFICES ASSUME NetIInv, [Next]_vars
               PROVE  NetIInv'
    OBVIOUS
  <1>1. ends \in [Streams -> SUBSET Nodes] /\ NetTypeOK /\ BatchIsNext
    BY DEF NetIInv, NetTypeOK, TransportTypeOK
  <1>2. CASE Quiet \/ UNCHANGED vars
    BY <1>1, <1>2, UnseenIInv DEF Quiet, vars, transportvars, syncvars
  <1>3. ASSUME NEW i \in Streams, BreakNext(i)
        PROVE  NetIInv'
    <2>1. ends' \in [Streams -> SUBSET Nodes]
      BY <1>1, <1>3 DEF BreakNext, Break
    <2> QED
      BY <1>3, <2>1, UnseenIInv DEF BreakNext, Break
  <1>4. ASSUME NEW n \in Nodes,
               Make(n) \/ NewBlockReady(n) \/ StartTask(n) \/ SyncStrategy(n)
        PROVE  NetIInv'
    BY <1>4, MakeIInv, NewBlockReadyIInv, StartTaskIInv, SyncStrategyIInv
  <1>5. ASSUME NEW n \in Nodes, WorkerStep(n) \/ PassNext(n)
        PROVE  NetIInv'
    BY <1>5, ConnectIInv, AcceptIInv, ShakeIInv, FailIInv, PassIInv DEF WorkerStep
  <1>6. ASSUME NEW n \in Nodes, NEW i \in Streams, TaskStep(n, i) \/ StreamStep(n, i)
        PROVE  NetIInv'
    BY <1>6, SubscribeIInv, ReceiveIInv, ServeIInv, EndTaskIInv, StreamStepIInv DEF TaskStep
  <1> QED
    BY <1>2, <1>3, <1>4, <1>5, <1>6 DEF Next

\* The inductive invariant holds in every state that two validators reach.
THEOREM NetInvariance == Spec => []NetIInv
  <1>1. Init => NetIInv
    BY NetInitIInv
  <1>2. NetIInv /\ [Next]_vars => NetIInv'
    BY NetNextIInv
  <1> QED
    BY <1>1, <1>2, PTL DEF Spec

\* NetworkSyncer::run starts a task only after the last one has ended, so that a late
\* remove_authority or authority_connection(id, false) never hits the new Connection,
\* and shutdown leaves no stream of own blocks behind.
THEOREM ReconnectsAreClean == Spec => []ReconnectIsClean
  <1>1. NetIInv => ReconnectIsClean
    BY DEF NetIInv, ReconnectIsClean
  <1> QED
    BY <1>1, NetInvariance, PTL

\* last_seen_by_authority, get_own_blocks and what connections lose when they break
\* fit together: over a Connection both sides carry no own block is left out.
THEOREM SubscriptionsSkipNothing == Spec => []StreamSkipsNothing
  <1>1. NetIInv => StreamSkipsNothing
    BY DEF NetIInv
  <1> QED
    BY <1>1, NetInvariance, PTL
=============================================================================
