----------------------------- MODULE Transport -----------------------------
(***************************************************************************)
(* network.rs between two validators: each has a Worker for the other that *)
(* connects, accepts what the other connects, shakes hands, and carries    *)
(* messages between the channels of a Connection and a TCP stream.         *)
(*                                                                         *)
(* A stream and the two Connections made over it share a name of Streams.  *)
(* Pings measure latency and are left out, as are malformed messages.      *)
(***************************************************************************)
EXTENDS Naturals, Sequences, FiniteSets

CONSTANTS
    Nodes,      \* two validators
    Streams,    \* names of streams, free again once nobody refers to them
    Capacity    \* of a channel of messages (16 in make_connection)

ASSUME TransportAssumption ==
    /\ \E m, n \in Nodes : m # n /\ Nodes = {m, n}
    /\ Streams \subseteq Nat \ {0}
    /\ Capacity \in Nat \ {0}

VARIABLES
    work,       \* the future Worker::run is polling, and its stream
    ends,       \* the sides that hold a stream open
    greeted,    \* the sides that have written their handshake on it
    accepted,   \* streams the Server has passed to the Worker
    made,       \* Connections passed to NetworkSyncer and not yet taken
    out, in     \* the channels of every Connection

transportvars == <<work, ends, greeted, accepted, made, out, in>>

Other(n) == CHOOSE m \in Nodes : m # n

Working(at, i) == [at |-> at, stream |-> i]

\* Does the Worker of n carry the messages of i? Otherwise the channels of the
\* Connection are closed at their other ends.
Carries(n, i) == work[n] = Working("up", i)

TransportInit ==
    /\ work = [n \in Nodes |-> Working("sleep", 0)]
    /\ ends = [i \in Streams |-> {}] /\ greeted = [i \in Streams |-> {}]
    /\ accepted = [n \in Nodes |-> <<>>] /\ made = [n \in Nodes |-> <<>>]
    /\ out = [n \in Nodes |-> [i \in Streams |-> <<>>]]
    /\ in = out

\* Replacing or finishing the current future drops its stream and its ends of
\* the channels: what was not yet sent is lost, what was received stays.
Dropped(n) == [i \in Streams |-> IF i = work[n].stream THEN ends[i] \ {n} ELSE ends[i]]

LoseUnsent(n) == [out EXCEPT ![n] = [i \in Streams |-> IF i = work[n].stream THEN <<>>
                                                      ELSE @[i]]]

\* connect_and_handle after its delay; the peer's Server accepts. A connection
\* that is refused is tried again.
Connect(n, i) ==
    /\ work[n].at = "sleep"
    /\ work' = [work EXCEPT ![n] = Working("active", i)]
    /\ ends' = [ends EXCEPT ![i] = Nodes]
    /\ greeted' = [greeted EXCEPT ![i] = {n}]
    /\ accepted' = [accepted EXCEPT ![Other(n)] = Append(@, i)]
    /\ UNCHANGED <<made, out, in>>

\* Worker::run receives a stream: it replaces whatever the Worker was doing.
\* handle_passive_stream finds the peer's handshake on it and makes a
\* Connection, unless the stream is broken already.
Accept(n) ==
    /\ accepted[n] # <<>>
    /\ \E i \in {Head(accepted[n])} :
        /\ work' = [work EXCEPT ![n] = Working("up", i)]
        /\ ends' = Dropped(n)
        /\ greeted' = [greeted EXCEPT ![i] = @ \cup {n}]
        /\ made' = [made EXCEPT ![n] = IF ends[i] = {} THEN @ ELSE Append(@, i)]
    /\ accepted' = [accepted EXCEPT ![n] = Tail(@)]
    /\ out' = LoseUnsent(n)
    /\ UNCHANGED in

\* The peer's handshake is read: make_connection.
Shake(n) ==
    /\ work[n].at = "active"
    /\ Other(n) \in greeted[work[n].stream]
    /\ work' = [work EXCEPT ![n].at = "up"]
    /\ made' = [made EXCEPT ![n] = Append(@, work[n].stream)]
    /\ UNCHANGED <<ends, greeted, accepted, out, in>>

\* Reading or writing fails once the peer has let go of the stream: the future
\* ends and the Worker connects again, after a delay.
Fail(n) ==
    /\ work[n].at # "sleep"
    /\ Other(n) \notin ends[work[n].stream]
    /\ work' = [work EXCEPT ![n] = Working("sleep", 0)]
    /\ ends' = Dropped(n)
    /\ out' = LoseUnsent(n)
    /\ UNCHANGED <<greeted, accepted, made, in>>

\* The network breaks a stream.
Break(i) ==
    /\ ends[i] # {}
    /\ ends' = [ends EXCEPT ![i] = {}]
    /\ UNCHANGED <<work, greeted, accepted, made, out, in>>

\* handle_write_stream of n and handle_read_stream of its peer pass a message.
Pass(n) ==
    \E i \in {work[n].stream} :
        /\ Carries(n, i) /\ Carries(Other(n), i) /\ ends[i] = Nodes
        /\ out[n][i] # <<>> /\ Len(in[Other(n)][i]) < Capacity
        /\ in' = [in EXCEPT ![Other(n)][i] = Append(@, Head(out[n][i]))]
        /\ out' = [out EXCEPT ![n][i] = Tail(@)]
        /\ UNCHANGED <<work, ends, greeted, accepted, made>>
=============================================================================
