----------------------------- MODULE Datagrams ------------------------------
(***************************************************************************)
(* The data path of a client: humblenet_p2p_sendto, _recvfrom, _peek and   *)
(* _disconnect, the datagram layer that combines packets into one buffer   *)
(* per connection and takes them apart again, and the part of the core     *)
(* that owns Connection objects and the sets of those with data to read or *)
(* a close to report.                                                      *)
(*                                                                         *)
(* A member of Addrs is the heap address of a Connection.  A deleted       *)
(* Connection frees its address for the next one; the datagram layer keys  *)
(* its map by address.  std::map iterates in address order, so addresses   *)
(* are numbers.                                                            *)
(*                                                                         *)
(* A call of recvfrom or peek runs under the global lock, so that no other *)
(* call and no callback runs until it returns: it is RecvStart followed by *)
(* RecvPoll steps.  The only place where the loop lets callbacks in is     *)
(* internal_poll_io, when there is nothing left to read; what arrives      *)
(* there is what arrives just before the call.                             *)
(*                                                                         *)
(* Left out: what a message says; the virtual peers of aliases; the set    *)
(* pendingNewConnections, which only websocket connections enter; the flag *)
(* writable, which starts TRUE and nothing resets; seq_in, which nothing   *)
(* uses.  humblenet_connect_peer may also fail and change nothing, which   *)
(* is no step.                                                             *)
(***************************************************************************)
EXTENDS Naturals, Sequences, SequencesExt, FiniteSets

CONSTANTS
    Addrs,        \* addresses of Connection objects
    NoAddr,       \* no entry in p2pconnections
    Peers,        \* the peers of this client
    NoPeer,       \* otherPeer of no connection
    Channels,
    Sizes,        \* message lengths the application and its peers use
    HeaderSize,   \* sizeof(datagram_header): 8 in the program
    SizeModulus,  \* the local `available' is a uint16_t: 2^16 in the program
    FlushLimit,   \* 1024 in the program
    Calls,        \* which of "recvfrom", "peek", "disconnect" the application calls
    UseRelay,     \* the hint p2p_use_relay: peers send data through the server
    MaxSends,     \* bound: calls of sendto that send
    MaxArrivals   \* bound: messages that arrive

ASSUME DatagramAssumption ==
    /\ Addrs \subseteq Nat
    /\ NoAddr \notin Addrs
    /\ NoPeer \notin Peers
    /\ Sizes \subseteq Nat
    /\ HeaderSize \in Nat \ {0}
    /\ SizeModulus \in Nat \ {0}
    /\ FlushLimit \in Nat
    /\ UseRelay \in BOOLEAN
    /\ MaxSends \in Nat /\ MaxArrivals \in Nat

VARIABLES
    status,         \* conn->status, "FREE" for an address with no Connection
    inOrOut,        \* conn->inOrOut
    otherPeer,      \* conn->otherPeer
    recvBuffer,     \* conn->recvBuffer, as the packets in it
    tracked,        \* humbleNetState.connections
    open,           \* connections whose socket has its webrtc_channel
    pendingData,    \* humbleNetState.pendingDataConnections
    remoteClosed,   \* humbleNetState.remoteClosedConnections
    p2pconnections, \* peer -> connection
    datagrams,      \* the keys of the datagram layer's connections
    bufIn,          \* buf_in, as packets
    bufOut,         \* buf_out, as packets
    seqOut,         \* seq_out
    queuedPackets,
    call,           \* the recvfrom or peek that is polling, or Idle
    fault,          \* "none", or why the program's behaviour ends here
    wire,           \* history: the packets written through this Connection
    delivered,      \* history: the messages recvfrom has returned
    stale,          \* history: datagram entries that outlived their Connection
    sent, arrived   \* counters of the bounds

connVars  == <<status, inOrOut, otherPeer, recvBuffer, tracked, open>>
setVars   == <<pendingData, remoteClosed>>
entryVars == <<datagrams, bufIn, bufOut, seqOut, queuedPackets>>
histVars  == <<wire, delivered, stale>>
vars == <<connVars, setVars, p2pconnections, entryVars, call, fault, histVars, sent, arrived>>

Idle == [api |-> "none", channel |-> "none"]

\* A packet to a peer: the sequence number of its header, its length, and
\* (history) the peer it was meant for.
OutPacket == [seq : Nat, size : Nat, to : Peers]
\* A packet from a peer: its header, and (history) when and where it arrived.
InPacket  == [n : Nat, channel : Channels, size : Nat, via : Addrs]

TypeOK ==
    /\ status \in [Addrs -> {"FREE", "CONNECTING", "CONNECTED", "CLOSED"}]
    /\ inOrOut \in [Addrs -> {"Incoming", "Outgoing"}]
    /\ otherPeer \in [Addrs -> Peers \cup {NoPeer}]
    /\ recvBuffer \in [Addrs -> Seq(InPacket)]
    /\ tracked \subseteq Addrs /\ open \subseteq Addrs
    /\ pendingData \subseteq Addrs /\ remoteClosed \subseteq Addrs
    /\ p2pconnections \in [Peers -> Addrs \cup {NoAddr}]
    /\ datagrams \subseteq Addrs
    /\ bufIn \in [Addrs -> Seq(InPacket)]
    /\ bufOut \in [Addrs -> Seq(OutPacket)]
    /\ seqOut \in [Addrs -> Nat]
    /\ queuedPackets \in BOOLEAN
    /\ call \in {Idle} \cup [api : {"recvfrom", "peek"}, channel : Channels]
    /\ fault \in {"none", "assert", "dangling"}
    /\ wire \in [Addrs -> Seq(OutPacket)]
    /\ delivered \in Seq(InPacket)
    /\ stale \subseteq Addrs
    /\ sent \in Nat /\ arrived \in Nat

Init ==
    /\ status = [a \in Addrs |-> "FREE"]
    /\ inOrOut = [a \in Addrs |-> "Incoming"]
    /\ otherPeer = [a \in Addrs |-> NoPeer]
    /\ recvBuffer = [a \in Addrs |-> << >>]
    /\ tracked = {} /\ open = {} /\ pendingData = {} /\ remoteClosed = {}
    /\ p2pconnections = [p \in Peers |-> NoAddr]
    /\ datagrams = {}
    /\ bufIn = [a \in Addrs |-> << >>]
    /\ bufOut = [a \in Addrs |-> << >>]
    /\ seqOut = [a \in Addrs |-> 0]
    /\ queuedPackets = FALSE
    /\ call = Idle
    /\ fault = "none"
    /\ wire = [a \in Addrs |-> << >>]
    /\ delivered = << >> /\ stale = {}
    /\ sent = 0 /\ arrived = 0

\* No call is running under the lock, and the program still is.
Running == call = Idle /\ fault = "none"

-----------------------------------------------------------------------------
(* Connection objects: the core *)

Live(a) == status[a] \in {"CONNECTING", "CONNECTED"}

\* new Connection: its entry in pendingPeerConnectionsOut or -In stays until
\* it is closed, so that a peer has at most one live connection each way.
NewConnection(a, p, direction) ==
    /\ status[a] = "FREE"
    /\ ~ \E b \in Addrs : Live(b) /\ otherPeer[b] = p /\ inOrOut[b] = direction
    /\ status' = [status EXCEPT ![a] = "CONNECTING"]
    /\ inOrOut' = [inOrOut EXCEPT ![a] = direction]
    /\ otherPeer' = [otherPeer EXCEPT ![a] = p]

\* Mutant: a closed connection keeps its place among those with data.
SetClosedKeepingData(A) ==
    /\ status' = [a \in Addrs |-> IF a \in A THEN "CLOSED" ELSE status[a]]
    /\ tracked' = tracked \ A
    /\ open' = open \ A
    /\ remoteClosed' = remoteClosed \cup A
    /\ UNCHANGED pendingData

\* Mutant: only connections that were established report their close.
SetClosedQuietly(A) ==
    /\ status' = [a \in Addrs |-> IF a \in A THEN "CLOSED" ELSE status[a]]
    /\ tracked' = tracked \ A
    /\ open' = open \ A
    /\ pendingData' = pendingData \ A
    /\ remoteClosed' = remoteClosed \cup (A \cap tracked)

\* humblenet_connection_set_closed, for the connections in A
SetClosed(A) ==
    /\ status' = [a \in Addrs |-> IF a \in A THEN "CLOSED" ELSE status[a]]
    /\ tracked' = tracked \ A
    /\ open' = open \ A
    /\ pendingData' = pendingData \ A
    /\ remoteClosed' = remoteClosed \cup A

\* humblenet_connection_close: the object is deleted.  What remains of it in
\* the datagram layer is not touched.
ConnectionClose(a) ==
    /\ status' = [status EXCEPT ![a] = "FREE"]
    /\ inOrOut' = [inOrOut EXCEPT ![a] = "Incoming"]
    /\ otherPeer' = [otherPeer EXCEPT ![a] = NoPeer]
    /\ recvBuffer' = [recvBuffer EXCEPT ![a] = << >>]
    /\ tracked' = tracked \ {a}
    /\ open' = open \ {a}
    /\ pendingData' = pendingData \ {a}
    /\ remoteClosed' = remoteClosed \ {a}
    /\ wire' = [wire EXCEPT ![a] = << >>]

-----------------------------------------------------------------------------
(* The datagram layer *)

\* The length in bytes of a buffer that holds these packets.
Bytes(packets) ==
    LET upTo[k \in 0 .. Len(packets)] ==
            IF k = 0 THEN 0 ELSE upTo[k - 1] + HeaderSize + packets[k].size
    IN  upTo[Len(packets)]

\* `available' at the k-th packet of buf_in: the bytes from there on, in a uint16_t
Available(in, k) == Bytes(SubSeq(in, k, Len(in))) % SizeModulus

\* The walk over buf_in goes past packet k when it sees all of it.
SeesWhole(in, k) ==
    /\ Available(in, k) > HeaderSize
    /\ in[k].size + HeaderSize <= Available(in, k)

\* Mutant: a packet of another channel stops the walk.
ReadyAtFront(in, channel) ==
    IF in # << >> /\ in[1].channel = channel /\ SeesWhole(in, 1) THEN 1 ELSE 0

\* Mutant: the walk returns the last packet of the channel.
ReadyLast(in, channel) ==
    LET reached == {k \in DOMAIN in : in[k].channel = channel /\ \A j \in 1 .. k : SeesWhole(in, j)}
    IN  IF reached = {} THEN 0 ELSE CHOOSE k \in reached : \A j \in reached : j <= k

\* datagram_get_message: the first packet of the channel that the walk
\* reaches, 0 when it reaches none
Ready(in, channel) ==
    LET reached == {k \in DOMAIN in : in[k].channel = channel /\ \A j \in 1 .. k : SeesWhole(in, j)}
    IN  IF reached = {} THEN 0 ELSE CHOOSE k \in reached : \A j \in reached : k <= j

\* What datagram_get_message returns is positive: a packet of length 0 is
\* taken out of the buffer and counts as no message.
HasMessage(in, channel) == Ready(in, channel) # 0 /\ in[Ready(in, channel)].size > 0

\* buf_in after datagram_get_message: a peek takes nothing out
Remaining(in, api, channel) ==
    IF api = "peek" \/ Ready(in, channel) = 0 THEN in ELSE RemoveAt(in, Ready(in, channel))

\* Mutant: datagram_flush empties the buffer before it looks whether the
\* connection is writable.
FlushAlways(A, out) ==
    /\ bufOut' = [a \in Addrs |-> IF a \in A THEN << >> ELSE out[a]]
    /\ wire' = [a \in Addrs |-> IF a \in A \cap open THEN wire[a] \o out[a] ELSE wire[a]]

\* Mutant: only outgoing connections ever count as writable.
FlushOutgoing(A, out) ==
    LET written == {a \in A : status[a] = "CONNECTED" /\ inOrOut[a] = "Outgoing"}
    IN  /\ bufOut' = [a \in Addrs |-> IF a \in written THEN << >> ELSE out[a]]
        /\ wire' = [a \in Addrs |-> IF a \in written \cap open THEN wire[a] \o out[a] ELSE wire[a]]

\* datagram_flush of the entries in A, whose connections exist: the buffer is
\* emptied whether the write succeeds or not; without a channel it fails.
Flush(A, out) ==
    LET written == {a \in A : status[a] = "CONNECTED"}
    IN  /\ bufOut' = [a \in Addrs |-> IF a \in written THEN << >> ELSE out[a]]
        /\ wire' = [a \in Addrs |-> IF a \in written \cap open THEN wire[a] \o out[a] ELSE wire[a]]

\* Mutant: the connection stays listed.
UnlistedNowhere(a) == p2pconnections

\* p2pconnections.erase(conn->otherPeer), whichever connection is listed there
Unlisted(a) == [p2pconnections EXCEPT ![otherPeer[a]] = NoAddr]

\* Mutant: a connection that was read stays in pendingData.
PendingAsBefore(a) == pendingData

\* pendingData after humblenet_connection_read_all: a connection that is still
\* connecting is not taken out
PendingAfterRead(a) == IF status[a] = "CONNECTING" THEN pendingData ELSE pendingData \ {a}

\* The entry of a connection is removed.
EraseEntry(a) ==
    /\ datagrams' = datagrams \ {a}
    /\ bufIn' = [bufIn EXCEPT ![a] = << >>]
    /\ bufOut' = [bufOut EXCEPT ![a] = << >>]
    /\ seqOut' = [seqOut EXCEPT ![a] = 0]
    /\ stale' = stale \ {a}

-----------------------------------------------------------------------------
(* humblenet_p2p_sendto *)

\* humblenet_datagram_send on a connection that is not closed: the packet is
\* appended to the entry's buffer, which is flushed at once, or left for the
\* next recvfrom or peek.  s is conn->status.
DatagramSend(a, s, p, mode, size) ==
    LET packet == [seq |-> seqOut[a], size |-> size, to |-> p]
        out    == [bufOut EXCEPT ![a] = Append(@, packet)]
        hold   == (mode = "SEND_RELIABLE_BUFFERED" \/ s = "CONNECTING") /\ Bytes(out[a]) <= FlushLimit
    IN  /\ sent < MaxSends
        /\ sent' = sent + 1
        /\ datagrams' = datagrams \cup {a}
        /\ seqOut' = [seqOut EXCEPT ![a] = @ + 1]
        /\ IF hold THEN bufOut' = out /\ queuedPackets' = TRUE /\ UNCHANGED wire
                   ELSE Flush({a}, out) /\ UNCHANGED queuedPackets
        /\ UNCHANGED <<bufIn, delivered, stale>>

\* sendto to a peer with a connection
SendtoOpen(p, mode, size) ==
    LET a == p2pconnections[p] IN
    /\ Running
    /\ a # NoAddr
    /\ Live(a)
    /\ DatagramSend(a, status[a], p, mode, size)
    /\ UNCHANGED <<connVars, setVars, p2pconnections, call, fault, arrived>>

\* sendto to a peer whose connection has closed: the connection is deleted,
\* its datagram entry is not.
SendtoClosed(p) ==
    LET a == p2pconnections[p] IN
    /\ Running
    /\ a # NoAddr
    /\ status[a] = "CLOSED"
    /\ p2pconnections' = [Unlisted(a) EXCEPT ![p] = NoAddr]
    /\ ConnectionClose(a)
    /\ stale' = stale \cup ({a} \cap datagrams)
    /\ UNCHANGED <<entryVars, call, fault, delivered, sent, arrived>>

\* sendto to a peer without a connection: humblenet_connect_peer
SendtoNew(p, mode, size) ==
    /\ Running
    /\ p2pconnections[p] = NoAddr
    /\ \E a \in Addrs :
          /\ NewConnection(a, p, "Outgoing")
          /\ p2pconnections' = [p2pconnections EXCEPT ![p] = a]
          /\ DatagramSend(a, "CONNECTING", p, mode, size)
    /\ UNCHANGED <<recvBuffer, tracked, open, setVars, call, fault, arrived>>

-----------------------------------------------------------------------------
(* humblenet_p2p_recvfrom and humblenet_p2p_peek *)

\* The program reaches undefined behaviour or a failed assertion.
Fail(why) ==
    /\ fault' = why
    /\ UNCHANGED <<connVars, setVars, p2pconnections, entryVars, call, histVars, sent, arrived>>

\* The call returns the message that `in', the buffer of entry a, holds for it;
\* recvfrom notes the connection as the one to the peer, unless there is one.
\* The sender is read from the Connection at a.
Return(a, in, api, channel) ==
    /\ delivered' = IF api = "peek" THEN delivered ELSE Append(delivered, in[Ready(in, channel)])
    /\ p2pconnections' = IF api = "recvfrom" /\ p2pconnections[otherPeer[a]] = NoAddr
                         THEN [p2pconnections EXCEPT ![otherPeer[a]] = a] ELSE p2pconnections
    /\ call' = Idle

\* The connections whose queued packets this call flushes.
ToFlush == IF queuedPackets THEN {a \in datagrams : bufOut[a] # << >>} ELSE {}

\* The entry the call returns a message from, if any: the first in address order.
FirstWith(api, channel) ==
    {a \in datagrams : HasMessage(bufIn[a], channel) /\
        \A b \in datagrams : HasMessage(bufIn[b], channel) => a <= b}

\* The start of humblenet_datagram_recv: queued packets are flushed, then the
\* entries are searched in address order.
RecvStart(api, channel) ==
    LET found == FirstWith(api, channel)
        upTo  == {a \in datagrams : \A b \in found : a <= b}
        isDeleted(a) == status[a] = "FREE"
    IN  /\ Running
        /\ api \in Calls
        /\ IF (\E a \in ToFlush : isDeleted(a)) \/ (api = "recvfrom" /\ \E a \in found : isDeleted(a))
           THEN Fail("dangling")
           ELSE /\ Flush(ToFlush, bufOut)
                /\ queuedPackets' = FALSE
                /\ bufIn' = [a \in Addrs |-> IF a \in upTo THEN Remaining(bufIn[a], api, channel) ELSE bufIn[a]]
                /\ IF found = {}
                   THEN /\ call' = [api |-> api, channel |-> channel]
                        /\ UNCHANGED <<p2pconnections, delivered>>
                   ELSE \E a \in found : Return(a, bufIn[a], api, channel)
                /\ UNCHANGED <<connVars, setVars, datagrams, seqOut, fault, stale, sent, arrived>>

\* humblenet_poll_all finds a closed connection.  Its unread data trips the
\* assertion of humblenet_connection_read_all; else its datagram entry goes,
\* and recvfrom, but not peek, reports the close and deletes it.
PollClosed ==
    /\ call # Idle /\ fault = "none"
    /\ \E a \in remoteClosed :
          IF recvBuffer[a] # << >>
          THEN Fail("assert")
          ELSE /\ EraseEntry(a)
               /\ call' = Idle
               /\ IF call.api = "recvfrom"
                  THEN /\ p2pconnections' = Unlisted(a)
                       /\ ConnectionClose(a)
                  ELSE /\ remoteClosed' = remoteClosed \ {a}
                       /\ UNCHANGED <<connVars, pendingData, p2pconnections, wire>>
               /\ UNCHANGED <<queuedPackets, delivered, fault, sent, arrived>>

\* humblenet_poll_all finds a connection with data, and
\* humblenet_connection_read_all empties it into the datagram entry.  From a
\* connection that is still connecting it reads nothing: the connection stays
\* in pendingData, for the next round of the loop.
PollData ==
    /\ call # Idle /\ fault = "none"
    /\ remoteClosed = {}
    /\ \E a \in pendingData :
          LET read == IF status[a] = "CONNECTING" THEN << >> ELSE recvBuffer[a]
              in   == bufIn[a] \o read
          IN  /\ datagrams' = datagrams \cup {a}
              /\ bufIn' = [bufIn EXCEPT ![a] = Remaining(in, call.api, call.channel)]
              /\ IF HasMessage(in, call.channel)
                 THEN Return(a, in, call.api, call.channel)
                 ELSE UNCHANGED <<p2pconnections, delivered, call>>
              /\ recvBuffer' = [recvBuffer EXCEPT ![a] = IF status[a] = "CONNECTING" THEN @ ELSE << >>]
              /\ pendingData' = PendingAfterRead(a)
    /\ UNCHANGED <<status, inOrOut, otherPeer, tracked, open, remoteClosed>>
    /\ UNCHANGED <<bufOut, seqOut, queuedPackets, fault, wire, stale, sent, arrived>>

\* Nothing is left to read: the call returns 0.
PollNothing ==
    /\ call # Idle /\ fault = "none"
    /\ remoteClosed = {} /\ pendingData = {}
    /\ call' = Idle
    /\ UNCHANGED <<connVars, setVars, p2pconnections, entryVars, fault, histVars, sent, arrived>>

Poll == PollClosed \/ PollData \/ PollNothing

\* Mutant: a peer without a connection is not skipped.
DisconnectAnyway(S) ==
    /\ Running
    /\ "disconnect" \in Calls
    /\ SetClosed({p2pconnections[p] : p \in S})
    /\ UNCHANGED <<inOrOut, otherPeer, recvBuffer, p2pconnections, entryVars, call, fault, histVars, sent, arrived>>

\* humblenet_p2p_disconnect of some peers: one, or all with peer 0
Disconnect(S) ==
    LET A == {p2pconnections[p] : p \in S} \ {NoAddr} IN
    /\ Running
    /\ "disconnect" \in Calls
    /\ A # {}
    /\ SetClosed(A)
    /\ UNCHANGED <<inOrOut, otherPeer, recvBuffer, p2pconnections, entryVars, call, fault, histVars, sent, arrived>>

-----------------------------------------------------------------------------
(* Callbacks: the signaling connection and WebRTC *)

\* P2POffer: a connection for the offer of a peer
P2POffer(a, p) ==
    /\ Running
    /\ NewConnection(a, p, "Incoming")
    /\ UNCHANGED <<recvBuffer, tracked, open, setVars, p2pconnections, entryVars, call, fault, histVars>>
    /\ UNCHANGED <<sent, arrived>>

\* on_connect
OnConnect(a) ==
    /\ Running
    /\ status[a] = "CONNECTING"
    /\ tracked' = tracked \cup {a}
    /\ UNCHANGED <<status, inOrOut, otherPeer, recvBuffer, open, setVars, p2pconnections, entryVars>>
    /\ UNCHANGED <<call, fault, histVars, sent, arrived>>

\* on_accept_channel and on_connect_channel
OnChannel(a) ==
    /\ Running
    /\ status[a] = "CONNECTING" /\ a \in tracked
    /\ status' = [status EXCEPT ![a] = "CONNECTED"]
    /\ open' = open \cup {a}
    /\ UNCHANGED <<inOrOut, otherPeer, recvBuffer, tracked, setVars, p2pconnections, entryVars>>
    /\ UNCHANGED <<call, fault, histVars, sent, arrived>>

\* A packet of a peer reaches the recvBuffer of its connection.
Arrive(a, channel, size) ==
    /\ Running
    /\ arrived < MaxArrivals
    /\ arrived' = arrived + 1
    /\ recvBuffer' = [recvBuffer EXCEPT ![a] =
                        Append(@, [n |-> arrived, channel |-> channel, size |-> size, via |-> a])]
    /\ pendingData' = pendingData \cup {a}
    /\ UNCHANGED <<status, inOrOut, otherPeer, tracked, open, remoteClosed, p2pconnections, entryVars>>
    /\ UNCHANGED <<call, fault, histVars, sent>>

\* on_data
OnData(a, channel, size) == a \in open /\ Arrive(a, channel, size)

\* P2PRelayData: the server forwards the data of a peer whose own side of the
\* connection is established; this side's channel may not be open yet.
P2PRelayData(a, channel, size) == UseRelay /\ a \in tracked /\ Arrive(a, channel, size)

\* LWRTC_CALLBACK_CHANNEL_CLOSED: the connection follows
ChannelClosed(a) ==
    /\ Running
    /\ a \in open
    /\ open' = open \ {a}
    /\ UNCHANGED <<status, inOrOut, otherPeer, recvBuffer, tracked, setVars, p2pconnections, entryVars>>
    /\ UNCHANGED <<call, fault, histVars, sent, arrived>>

\* on_disconnect, or a refusal from the server
OnDisconnect(a) ==
    /\ Running
    /\ Live(a)
    /\ SetClosed({a})
    /\ UNCHANGED <<inOrOut, otherPeer, recvBuffer, p2pconnections, entryVars, call, fault, histVars, sent, arrived>>

-----------------------------------------------------------------------------
Sendto ==
    \E p \in Peers :
       \/ SendtoClosed(p)
       \/ \E mode \in {"SEND_RELIABLE", "SEND_RELIABLE_BUFFERED"}, size \in Sizes :
             SendtoOpen(p, mode, size) \/ SendtoNew(p, mode, size)

Recv == \E api \in {"recvfrom", "peek"}, channel \in Channels : RecvStart(api, channel)

Callback ==
    \E a \in Addrs :
       \/ OnConnect(a) \/ OnChannel(a) \/ ChannelClosed(a) \/ OnDisconnect(a)
       \/ \E p \in Peers : P2POffer(a, p)
       \/ \E channel \in Channels, size \in Sizes : OnData(a, channel, size) \/ P2PRelayData(a, channel, size)

Next ==
    \/ Sendto \/ Recv \/ Poll \/ Callback
    \/ \E S \in {{p} : p \in Peers} \cup {Peers} : Disconnect(S)

Spec == Init /\ [][Next]_vars

\* The application keeps calling recvfrom, and a call keeps running.
\* Nothing is assumed of callbacks, sendto or disconnect.
FairSpec == Spec /\ WF_vars(Recv) /\ WF_vars(Poll)

-----------------------------------------------------------------------------
(* What should be true *)

\* The set pendingDataConnections holds exactly the connections that have
\* something to read, as the assertions of on_data, humblenet_poll_all and
\* humblenet_connection_read_all assume.
PendingHaveData == pendingData = {a \in Addrs : Live(a) /\ recvBuffer[a] # << >>}

\* sendto and disconnect follow the raw pointers in p2pconnections: each one is
\* a Connection that exists, to the peer it is listed under, although both
\* recvfrom and sendto delete connections that two peers' calls crossed on.
ListedConnectionsExist ==
    \A p \in Peers : p2pconnections[p] # NoAddr =>
        status[p2pconnections[p]] # "FREE" /\ otherPeer[p2pconnections[p]] = p

\* A closed connection that sendto and disconnect still know is waiting in
\* remoteClosedConnections for recvfrom to report and delete it.
ClosesAreReported ==
    \A p \in Peers : p2pconnections[p] # NoAddr /\ status[p2pconnections[p]] = "CLOSED" =>
        p2pconnections[p] \in remoteClosed

\* Between sendto and the wire no packet is lost, doubled, overtaken or sent to
\* another peer than sendto was given, while the connection is up, whether sent
\* at once, queued, held back until the connection opens, or flushed by size.
\* Entries that outlived their Connection are excepted.
SentInOrder ==
    \A a \in datagrams \ stale :
        (status[a] = "CONNECTING" \/ a \in open) =>
            LET out == wire[a] \o bufOut[a]
            IN  /\ Len(out) = seqOut[a]
                /\ \A i \in DOMAIN out : out[i].seq = i - 1 /\ out[i].to = otherPeer[a]

\* recvfrom returns the messages of one connection and channel once each and
\* in the order they arrived, however reads of the channels alternate.
DeliveredInOrder ==
    \A i, j \in DOMAIN delivered :
        (i < j /\ delivered[i].via = delivered[j].via /\ delivered[i].channel = delivered[j].channel)
            => delivered[i].n < delivered[j].n

\* A recvfrom or peek that is about to return 0 has left no message of its
\* channel unread, in any connection's buffer or behind other channels' packets.
NothingMissed ==
    (call # Idle /\ remoteClosed = {} /\ pendingData = {}) =>
        \A a \in Addrs : \A k \in DOMAIN bufIn[a] :
            ~ (bufIn[a][k].channel = call.channel /\ bufIn[a][k].size > 0)

\* What sendto queued for an established connection goes out, however the
\* application mixes recvfrom and peek, unless the connection ends.
QueuedIsFlushed ==
    \A a \in Addrs :
        (queuedPackets /\ bufOut[a] # << >> /\ status[a] = "CONNECTED") ~>
            (bufOut[a] = << >> \/ status[a] # "CONNECTED" \/ fault # "none")

\* A call of recvfrom returns: each connection that humblenet_poll_all leaves
\* in pendingDataConnections is taken out by the read that follows, as its
\* comment says ("don't remove it from the set, _recv will do that").
RecvReturns == (call # Idle) ~> (call = Idle \/ fault # "none")

\* What sendto accepted goes out once its connection is established, as
\* SEND_RELIABLE says ("Send the message reliably").
ReliableIsSent ==
    \A a \in Addrs :
        (bufOut[a] # << >> /\ status[a] = "CONNECTED") ~>
            (bufOut[a] = << >> \/ status[a] # "CONNECTED" \/ fault # "none")

\* The assertions of humblenet_connection_read_all hold: a connection with
\* unread data is in pendingDataConnections when it is read.
AssertionsHold == fault # "assert"

=============================================================================
