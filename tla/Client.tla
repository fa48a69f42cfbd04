------------------------------- MODULE Client -------------------------------
(***************************************************************************)
(* How a client makes and ends connections: the signaling session, the     *)
(* tables of pending connections, the blacklist, aliases, and the table    *)
(* from peers to connections that the p2p calls use.                       *)
(*                                                                         *)
(* Every public call and every callback runs under the global lock and is  *)
(* one action.  The server and the peers are an environment that sends     *)
(* only what this client's own messages can provoke: at most one reply to  *)
(* each offer, in order; refusals of messages it sent; one answer to each  *)
(* alias lookup; one HelloClient per session.                              *)
(*                                                                         *)
(* A member of Addrs is the heap address of a Connection; a virtual peer   *)
(* is the alias it stands for.  The native WebRTC library is modelled,     *)
(* which calls on_sdp from within create_offer and set_offer.              *)
(*                                                                         *)
(* Left out: messages of the data path (module Datagrams), ICE candidates  *)
(* and ICE servers, which change none of these tables, and clients without *)
(* WebRTC.                                                                 *)
(***************************************************************************)
EXTENDS Naturals, Sequences, FiniteSets

CONSTANTS
    Addrs,        \* addresses of Connection objects
    NoAddr,       \* no Connection
    Peers,        \* ids of other peers
    NoPeer,       \* otherPeer = 0: an alias not yet resolved
    Names,        \* aliases, and the virtual peers that stand for them
    Calls,        \* which of "disconnect", "shutdown" the application calls
    MaxSessions,  \* bound: ids the server gives this client; initialized no more then
    MaxAttempts,  \* bound: offers this client sends
    MaxLookups    \* bound: lookups of one alias in flight

ASSUME ClientAssumption ==
    /\ NoAddr \notin Addrs
    /\ NoPeer \notin Peers \cup Names
    /\ Names \cap Peers = {}
    /\ MaxSessions \in Nat /\ MaxAttempts \in Nat /\ MaxLookups \in Nat

VARIABLES
    initialized,
    session,        \* p2pConn: "none", "connecting" or "open"
    myPeerId,
    serverId,       \* the id the server has given this session, 0 before
    sessions,       \* ids given so far
    status,         \* conn->status, "FREE" for an address with no Connection
    inOrOut,        \* conn->inOrOut
    otherPeer,      \* conn->otherPeer
    socket,         \* connections whose socket exists
    tracked,        \* humbleNetState.connections
    pendingOut,     \* pendingPeerConnectionsOut
    pendingIn,      \* pendingPeerConnectionsIn
    pendingAlias,   \* pendingAliasConnectionsOut
    remoteClosed,   \* remoteClosedConnections
    blacklist,      \* peerBlacklist: "none", "active", or "expired" and still there
    p2pconnections,
    virtualPeerConnections,
    attempt,        \* history: the offer a Connection sent, 0 before
    attempts,       \* history: offers sent so far
    answered,       \* history: offers whose answer reached the connection that sent them
    offers,         \* offers to a peer that are not replied to, oldest first
    answers,        \* answers to a peer that the server may still refuse
    lookups         \* lookups of an alias that are not replied to

sessionVars == <<initialized, session, myPeerId, serverId, sessions>>
connVars    == <<status, inOrOut, otherPeer, socket, tracked>>
pendingVars == <<pendingOut, pendingIn, pendingAlias, remoteClosed, blacklist>>
tableVars   == <<p2pconnections, virtualPeerConnections>>
netVars     == <<attempt, attempts, answered, offers, answers, lookups>>
vars == <<sessionVars, connVars, pendingVars, tableVars, netVars>>

AddrOrNone == Addrs \cup {NoAddr}

TypeOK ==
    /\ initialized \in BOOLEAN
    /\ session \in {"none", "connecting", "open"}
    /\ {myPeerId, serverId, sessions} \subseteq 0 .. MaxSessions
    /\ status \in [Addrs -> {"FREE", "CONNECTING", "CONNECTED", "CLOSED"}]
    /\ inOrOut \in [Addrs -> {"Incoming", "Outgoing"}]
    /\ otherPeer \in [Addrs -> Peers \cup {NoPeer}]
    /\ socket \subseteq Addrs /\ tracked \subseteq socket    \* keyed by socket
    /\ remoteClosed \subseteq Addrs
    /\ pendingOut \in [Peers -> AddrOrNone]
    /\ pendingIn \in [Peers -> AddrOrNone]
    /\ pendingAlias \in [Names -> AddrOrNone]
    /\ blacklist \in [Peers -> {"none", "active", "expired"}]
    /\ p2pconnections \in [Peers \cup Names -> AddrOrNone]
    /\ virtualPeerConnections \in [Names -> AddrOrNone]
    /\ attempt \in [Addrs -> 0 .. MaxAttempts]
    /\ attempts \in 0 .. MaxAttempts
    /\ answered \subseteq 1 .. MaxAttempts
    /\ offers \in [Peers -> Seq(1 .. MaxAttempts)]
    /\ answers \in [Peers -> 0 .. 1]
    /\ lookups \in [Names -> 0 .. MaxLookups]

NoMessages ==
    /\ offers' = [p \in Peers |-> << >>]
    /\ answers' = [p \in Peers |-> 0]
    /\ lookups' = [n \in Names |-> 0]

Init ==
    /\ initialized = FALSE /\ session = "none"
    /\ myPeerId = 0 /\ serverId = 0 /\ sessions = 0
    /\ status = [a \in Addrs |-> "FREE"]
    /\ inOrOut = [a \in Addrs |-> "Incoming"]
    /\ otherPeer = [a \in Addrs |-> NoPeer]
    /\ socket = {} /\ tracked = {} /\ remoteClosed = {}
    /\ pendingOut = [p \in Peers |-> NoAddr]
    /\ pendingIn = [p \in Peers |-> NoAddr]
    /\ pendingAlias = [n \in Names |-> NoAddr]
    /\ blacklist = [p \in Peers |-> "none"]
    /\ p2pconnections = [x \in Peers \cup Names |-> NoAddr]
    /\ virtualPeerConnections = [n \in Names |-> NoAddr]
    /\ attempt = [a \in Addrs |-> 0] /\ attempts = 0 /\ answered = {}
    /\ offers = [p \in Peers |-> << >>]
    /\ answers = [p \in Peers |-> 0]
    /\ lookups = [n \in Names |-> 0]

Live(a) == status[a] \in {"CONNECTING", "CONNECTED"}

-----------------------------------------------------------------------------
(* Connection objects *)

\* new Connection at a free address
New(a, p, direction, state) ==
    /\ status[a] = "FREE"
    /\ status' = [status EXCEPT ![a] = state]
    /\ inOrOut' = [inOrOut EXCEPT ![a] = direction]
    /\ otherPeer' = [otherPeer EXCEPT ![a] = p]

\* blacklist_peer: std::map::insert leaves an entry that is there, expired or not.
Blacklisted(table, P) == [p \in Peers |-> IF p \in P /\ table[p] = "none" THEN "active" ELSE table[p]]

\* erase_value
Without(table, A) == [x \in DOMAIN table |-> IF table[x] \in A THEN NoAddr ELSE table[x]]

\* Mutant: a closed connection stays among the pending outgoing ones.
WithoutPendingKept(A) ==
    /\ UNCHANGED pendingOut
    /\ pendingIn' = Without(pendingIn, A)
    /\ pendingAlias' = Without(pendingAlias, A)

\* The pending tables forget the connections in A.
WithoutPending(A) ==
    /\ pendingOut' = Without(pendingOut, A)
    /\ pendingIn' = Without(pendingIn, A)
    /\ pendingAlias' = Without(pendingAlias, A)

\* The peers that closing the connections in A blacklists.
ByClosing(A) == {otherPeer[a] : a \in {b \in A : inOrOut[b] = "Incoming"}}

\* Mutant: the connection stays in humbleNetState.connections.
SetClosedStillTracked(A, P) ==
    /\ status' = [a \in Addrs |-> IF a \in A THEN "CLOSED" ELSE status[a]]
    /\ socket' = socket \ A
    /\ WithoutPending(A)
    /\ remoteClosed' = remoteClosed \cup A
    /\ blacklist' = Blacklisted(blacklist, P \cup ByClosing(A))
    /\ UNCHANGED <<inOrOut, otherPeer, tracked>>

\* Mutant: only connections that were established report their close.
SetClosedQuietly(A, P) ==
    /\ status' = [a \in Addrs |-> IF a \in A THEN "CLOSED" ELSE status[a]]
    /\ socket' = socket \ A
    /\ tracked' = tracked \ A
    /\ WithoutPending(A)
    /\ remoteClosed' = remoteClosed \cup (A \cap tracked)
    /\ blacklist' = Blacklisted(blacklist, P \cup ByClosing(A))
    /\ UNCHANGED <<inOrOut, otherPeer>>

\* humblenet_connection_set_closed, for the connections in A; P are peers that
\* the caller blacklists too.
SetClosed(A, P) ==
    /\ status' = [a \in Addrs |-> IF a \in A THEN "CLOSED" ELSE status[a]]
    /\ socket' = socket \ A
    /\ tracked' = tracked \ A
    /\ WithoutPending(A)
    /\ remoteClosed' = remoteClosed \cup A
    /\ blacklist' = Blacklisted(blacklist, P \cup ByClosing(A))
    /\ UNCHANGED <<inOrOut, otherPeer>>

\* Mutant: the virtual peer of a deleted connection keeps pointing to it.
AliasesKept(A) == virtualPeerConnections

\* internal_alias_remove_connection
AliasesWithout(A) == Without(virtualPeerConnections, A)

\* humblenet_connection_close, for the connections in A: the objects are deleted.
ConnectionClose(A) ==
    /\ status' = [a \in Addrs |-> IF a \in A THEN "FREE" ELSE status[a]]
    /\ inOrOut' = [a \in Addrs |-> IF a \in A THEN "Incoming" ELSE inOrOut[a]]
    /\ otherPeer' = [a \in Addrs |-> IF a \in A THEN NoPeer ELSE otherPeer[a]]
    /\ attempt' = [a \in Addrs |-> IF a \in A THEN 0 ELSE attempt[a]]
    /\ tracked' = tracked \ A
    /\ WithoutPending(A)
    /\ remoteClosed' = remoteClosed \ A
    /\ blacklist' = Blacklisted(blacklist, ByClosing(A))
    /\ virtualPeerConnections' = AliasesWithout(A)

\* internal_create_offer of connection a, and on_sdp: an offer goes to p.
SendOffer(a, p) ==
    /\ session = "open"
    /\ attempts < MaxAttempts
    /\ attempts' = attempts + 1
    /\ attempt' = [attempt EXCEPT ![a] = attempts + 1]
    /\ offers' = [offers EXCEPT ![p] = Append(@, attempts + 1)]

\* is_peer_blacklisted is true of an expired entry as well, which it erases.
IsPeerBlacklisted(p) == blacklist[p] # "none"
WithoutExpired(p) == [blacklist EXCEPT ![p] = IF @ = "expired" THEN "none" ELSE @]

-----------------------------------------------------------------------------
(* The signaling session *)

\* humblenet_p2p_init and humblenet_signaling_connect, which finds no p2pConn
\* and so leaves myPeerId
P2PInit ==
    /\ ~initialized
    /\ sessions < MaxSessions
    /\ initialized' = TRUE
    /\ session' \in {"connecting", "none"}
    /\ UNCHANGED <<myPeerId, serverId, sessions, connVars, pendingVars, tableVars, netVars>>

\* on_connect of the signaling connection: HelloServer goes out
SignalConnected ==
    /\ session = "connecting"
    /\ session' = "open"
    /\ UNCHANGED <<initialized, myPeerId, serverId, sessions, connVars, pendingVars, tableVars, netVars>>

\* on_disconnect of the signaling connection, or an error on it: p2pConn is
\* reset, and nothing connects it again.
SignalLost ==
    /\ session # "none"
    /\ session' = "none"
    /\ serverId' = 0
    /\ NoMessages
    /\ UNCHANGED <<initialized, myPeerId, sessions, connVars, pendingVars, tableVars, attempt, attempts, answered>>

\* HelloClient: ignored when there is a peer id already
HelloClient ==
    /\ session = "open" /\ serverId = 0
    /\ sessions' = sessions + 1
    /\ serverId' = sessions + 1
    /\ myPeerId' = IF myPeerId = 0 THEN sessions + 1 ELSE myPeerId
    /\ UNCHANGED <<initialized, session, connVars, pendingVars, tableVars, netVars>>

\* The signaling server passes messages to and from this client.
Registered == session = "open" /\ serverId # 0

\* P2POffer: a connection for the peer's offer, and an answer; an offer that
\* cannot be used is refused and the connection deleted, which blacklists.
P2POffer(a, p) ==
    /\ Registered
    /\ pendingIn[p] = NoAddr
    /\ \/ /\ New(a, p, "Incoming", "CONNECTING")
          /\ socket' = socket \cup {a}
          /\ pendingIn' = [pendingIn EXCEPT ![p] = a]
          /\ answers' = [answers EXCEPT ![p] = 1]
          /\ UNCHANGED <<tracked, pendingOut, pendingAlias, remoteClosed, blacklist>>
       \/ /\ status[a] = "FREE"
          /\ blacklist' = Blacklisted(blacklist, {p})
          /\ UNCHANGED <<connVars, pendingOut, pendingIn, pendingAlias, remoteClosed, answers>>
    /\ UNCHANGED <<sessionVars, tableVars, attempt, attempts, answered, offers, lookups>>

\* P2PAnswer, to the oldest offer: given to the connection that pendingOut now
\* has for the peer, or dropped; one that cannot be used closes the connection.
P2PAnswer(p) ==
    LET a == pendingOut[p] IN
    /\ Registered
    /\ offers[p] # << >>
    /\ offers' = [offers EXCEPT ![p] = Tail(@)]
    /\ \/ /\ answered' = IF a # NoAddr /\ attempt[a] = Head(offers[p]) THEN answered \cup {attempt[a]} ELSE answered
          /\ UNCHANGED <<connVars, pendingVars>>
       \/ /\ a # NoAddr
          /\ SetClosed({a}, {})
          /\ UNCHANGED answered
    /\ UNCHANGED <<sessionVars, tableVars, attempt, attempts, answers, lookups>>

\* P2PReject: the peer refused an offer, or is gone when the server should
\* pass it an offer or an answer
P2PReject(p) ==
    /\ Registered
    /\ \/ offers[p] # << >> /\ offers' = [offers EXCEPT ![p] = Tail(@)] /\ UNCHANGED answers
       \/ answers[p] > 0 /\ answers' = [answers EXCEPT ![p] = @ - 1] /\ UNCHANGED offers
    /\ IF pendingOut[p] = NoAddr
       THEN UNCHANGED <<connVars, pendingVars>>
       ELSE SetClosed({pendingOut[p]}, {p})
    /\ UNCHANGED <<sessionVars, tableVars, attempt, attempts, answered, lookups>>

\* The peer ignores an offer, having a connection from this client pending, or
\* it has received the answer.
NoReply(p) ==
    /\ \/ offers[p] # << >> /\ offers' = [offers EXCEPT ![p] = Tail(@)] /\ UNCHANGED answers
       \/ answers[p] > 0 /\ answers' = [answers EXCEPT ![p] = @ - 1] /\ UNCHANGED offers
    /\ UNCHANGED <<sessionVars, connVars, pendingVars, tableVars, attempt, attempts, answered, lookups>>

-----------------------------------------------------------------------------
(* Aliases *)

\* Mutant: the alias stays pending.
StillPendingAlias(n) == pendingAlias

\* pendingAliasConnectionsOut.erase
WithoutPendingAlias(n) == [pendingAlias EXCEPT ![n] = NoAddr]

\* internal_alias_resolved_to: the connection of the alias becomes a pending
\* connection to the peer, unless another connection to it is pending already,
\* and sends an offer.
AliasResolved(n) ==
    LET a == pendingAlias[n]
    IN  /\ Registered
        /\ lookups[n] > 0
        /\ lookups' = [lookups EXCEPT ![n] = @ - 1]
        /\ \/ /\ a = NoAddr
              /\ UNCHANGED <<connVars, pendingVars, attempt, attempts, offers>>
           \/ /\ a # NoAddr    \* nobody has the alias
              /\ SetClosed({a}, {})
              /\ UNCHANGED <<attempt, attempts, offers>>
           \/ /\ a # NoAddr
              /\ \E p \in Peers :
                    /\ otherPeer' = [otherPeer EXCEPT ![a] = p]
                    /\ pendingAlias' = WithoutPendingAlias(n)
                    /\ \/ /\ ~IsPeerBlacklisted(p)
                          /\ SendOffer(a, p)
                          /\ socket' = socket \cup {a}
                          /\ pendingOut' = IF pendingOut[p] = NoAddr THEN [pendingOut EXCEPT ![p] = a] ELSE pendingOut
                          /\ UNCHANGED <<status, blacklist, remoteClosed>>
                       \/ \* the peer is blacklisted, or no offer can be made
                          /\ status' = [status EXCEPT ![a] = "CLOSED"]
                          /\ blacklist' = WithoutExpired(p)
                          /\ remoteClosed' = remoteClosed \cup {a}
                          /\ UNCHANGED <<socket, pendingOut, attempt, attempts, offers>>
              /\ UNCHANGED <<inOrOut, tracked, pendingIn>>
        /\ UNCHANGED <<sessionVars, tableVars, answered, answers>>

-----------------------------------------------------------------------------
(* WebRTC callbacks; those of a socket its connection has let go do nothing *)

\* on_connect.  An outgoing connection gets here once its own offer is answered.
OnConnect(a) ==
    /\ a \in socket \ tracked
    /\ inOrOut[a] = "Outgoing" => attempt[a] \in answered
    /\ tracked' = tracked \cup {a}
    /\ UNCHANGED <<sessionVars, status, inOrOut, otherPeer, socket, pendingVars, tableVars, netVars>>

\* on_accept_channel and on_connect_channel
OnChannel(a) ==
    /\ a \in tracked
    /\ status[a] = "CONNECTING"
    /\ status' = [status EXCEPT ![a] = "CONNECTED"]
    /\ UNCHANGED <<sessionVars, inOrOut, otherPeer, socket, tracked, pendingVars, tableVars, netVars>>

\* on_disconnect
OnDisconnect(a) ==
    /\ a \in socket
    /\ SetClosed({a}, {})
    /\ UNCHANGED <<sessionVars, tableVars, netVars>>

\* Five seconds have passed since the peer was blacklisted.
Expire(p) ==
    /\ blacklist[p] = "active"
    /\ blacklist' = [blacklist EXCEPT ![p] = "expired"]
    /\ UNCHANGED <<sessionVars, connVars, pendingOut, pendingIn, pendingAlias, remoteClosed, tableVars, netVars>>

-----------------------------------------------------------------------------
(* The p2p calls *)

\* sendto to x whose connection is closed: it is deleted.
SendtoClosed(x) ==
    LET a == p2pconnections[x] IN
    /\ initialized
    /\ a # NoAddr
    /\ status[a] = "CLOSED"
    /\ p2pconnections' = [y \in DOMAIN p2pconnections |->
                            IF y \in {x, otherPeer[a]} THEN NoAddr ELSE p2pconnections[y]]
    /\ ConnectionClose({a})
    /\ UNCHANGED <<sessionVars, socket, attempts, answered, offers, answers, lookups>>

\* Mutant: a pending connection to the peer does not stop another.
CanTryAgain(p) == session # "none" /\ myPeerId # 0

\* can_try_peer, but for the blacklist
CanTry(p) == session # "none" /\ myPeerId # 0 /\ pendingOut[p] = NoAddr

\* sendto to a peer without a connection, refused for the blacklist
SendtoBlacklisted(p) ==
    /\ initialized
    /\ p2pconnections[p] = NoAddr
    /\ CanTry(p) /\ IsPeerBlacklisted(p)
    /\ blacklist' = WithoutExpired(p)
    /\ UNCHANGED <<sessionVars, connVars, pendingOut, pendingIn, pendingAlias, remoteClosed, tableVars, netVars>>

\* sendto to a peer without a connection: humblenet_connect_peer.  When the
\* offer cannot be sent, the new connection is deleted and nothing changes.
Sendto(a, p) ==
    /\ initialized
    /\ p2pconnections[p] = NoAddr
    /\ CanTry(p) /\ ~IsPeerBlacklisted(p)
    /\ New(a, p, "Outgoing", "CONNECTING")
    /\ SendOffer(a, p)
    /\ socket' = socket \cup {a}
    /\ pendingOut' = [pendingOut EXCEPT ![p] = a]
    /\ p2pconnections' = [p2pconnections EXCEPT ![p] = a]
    /\ UNCHANGED <<sessionVars, tracked, pendingIn, pendingAlias, remoteClosed, blacklist>>
    /\ UNCHANGED <<virtualPeerConnections, answered, answers, lookups>>

\* sendto to a virtual peer without a connection: internal_alias_create_connection
SendtoAlias(a, n) ==
    /\ initialized
    /\ session = "open"
    /\ p2pconnections[n] = NoAddr /\ virtualPeerConnections[n] = NoAddr
    /\ lookups[n] < MaxLookups
    /\ lookups' = [lookups EXCEPT ![n] = @ + 1]
    /\ New(a, NoPeer, "Outgoing", "CONNECTING")
    /\ pendingAlias' = IF pendingAlias[n] = NoAddr THEN [pendingAlias EXCEPT ![n] = a] ELSE pendingAlias
    /\ virtualPeerConnections' = [virtualPeerConnections EXCEPT ![n] = a]
    /\ p2pconnections' = [p2pconnections EXCEPT ![n] = a]
    /\ UNCHANGED <<sessionVars, socket, tracked, pendingOut, pendingIn, remoteClosed, blacklist>>
    /\ UNCHANGED <<attempt, attempts, answered, offers, answers>>

\* The peer recvfrom reports for a connection: internal_alias_get_virtual_peer,
\* else conn->otherPeer
ReportedPeer(a) ==
    LET virtual == {n \in Names : virtualPeerConnections[n] = a}
    IN  IF virtual = {} THEN otherPeer[a] ELSE CHOOSE n \in virtual : TRUE

\* recvfrom returns a message that came over connection a, which may have
\* closed since.
RecvMessage(a) ==
    /\ initialized
    /\ status[a] \in {"CONNECTED", "CLOSED"} /\ otherPeer[a] # NoPeer
    /\ p2pconnections[ReportedPeer(a)] = NoAddr
    /\ p2pconnections' = [p2pconnections EXCEPT ![ReportedPeer(a)] = a]
    /\ UNCHANGED <<sessionVars, connVars, pendingVars, virtualPeerConnections, netVars>>

\* Mutant: a closed connection is unlisted under its own peer only.
UnlistedPeerOnly(a) ==
    [y \in DOMAIN p2pconnections |-> IF y = otherPeer[a] THEN NoAddr ELSE p2pconnections[y]]

\* p2pconnections without the peer that a close is reported for
Unlisted(a) ==
    [y \in DOMAIN p2pconnections |->
        IF y \in {ReportedPeer(a), otherPeer[a]} THEN NoAddr ELSE p2pconnections[y]]

\* recvfrom reports that connection a is closed, and deletes it.
RecvClosed(a) ==
    /\ initialized
    /\ a \in remoteClosed
    /\ p2pconnections' = Unlisted(a)
    /\ ConnectionClose({a})
    /\ UNCHANGED <<sessionVars, socket, attempts, answered, offers, answers, lookups>>

\* humblenet_p2p_disconnect of one peer, or of all with peer 0
Disconnect(X) ==
    LET A == {p2pconnections[x] : x \in X} \ {NoAddr} IN
    /\ initialized /\ "disconnect" \in Calls
    /\ A # {}
    /\ SetClosed(A, {})
    /\ UNCHANGED <<sessionVars, tableVars, netVars>>

\* humblenet_shutdown and humblenet_p2p_shutdown: the connections that
\* humbleNetState.connections holds are deleted; the sockets of the others go
\* with their context.  p2pconnections and myPeerId are not touched.
Shutdown ==
    /\ initialized /\ "shutdown" \in Calls
    /\ ConnectionClose(tracked)
    /\ socket' = {}
    /\ initialized' = FALSE
    /\ session' = "none"
    /\ serverId' = 0
    /\ NoMessages
    /\ UNCHANGED <<myPeerId, sessions, p2pconnections, attempts, answered>>

-----------------------------------------------------------------------------
Signaling ==
    \/ P2PInit \/ SignalConnected \/ SignalLost \/ HelloClient
    \/ \E p \in Peers :
          \/ P2PAnswer(p) \/ P2PReject(p) \/ NoReply(p)
          \/ \E a \in Addrs : P2POffer(a, p)
    \/ \E n \in Names : AliasResolved(n)

WebRTC == \E a \in Addrs : OnConnect(a) \/ OnChannel(a) \/ OnDisconnect(a)

API ==
    \/ \E p \in Peers : SendtoBlacklisted(p) \/ \E a \in Addrs : Sendto(a, p)
    \/ \E n \in Names, a \in Addrs : SendtoAlias(a, n)
    \/ \E x \in Peers \cup Names : SendtoClosed(x)
    \/ \E a \in Addrs : RecvMessage(a) \/ RecvClosed(a)
    \/ \E X \in {{x} : x \in Peers \cup Names} \cup {Peers \cup Names} : Disconnect(X)
    \/ Shutdown

Next == Signaling \/ WebRTC \/ API \/ \E p \in Peers : Expire(p)

Spec == Init /\ [][Next]_vars

\* The server answers HelloServer and lookups as long as the session lasts.
FairSpec == Spec /\ WF_vars(HelloClient) /\ \A n \in Names : WF_vars(AliasResolved(n))

-----------------------------------------------------------------------------
(* What should be true *)

\* What the handlers of P2PAnswer, P2PReject and AliasResolved take out of the
\* pending tables is a Connection that exists and is not closed, for the key it
\* was found under, with a socket to give the message to.
PendingConnectionsExist ==
    /\ \A p \in Peers :
          /\ pendingOut[p] # NoAddr =>
                /\ Live(pendingOut[p]) /\ pendingOut[p] \in socket
                /\ inOrOut[pendingOut[p]] = "Outgoing" /\ otherPeer[pendingOut[p]] = p
          /\ pendingIn[p] # NoAddr =>
                /\ Live(pendingIn[p]) /\ pendingIn[p] \in socket
                /\ inOrOut[pendingIn[p]] = "Incoming" /\ otherPeer[pendingIn[p]] = p
    /\ \A n \in Names : pendingAlias[n] # NoAddr =>
          status[pendingAlias[n]] = "CONNECTING" /\ virtualPeerConnections[n] = pendingAlias[n]

\* A client that uses no aliases never has two live connections to a peer in
\* the same direction, whatever order closes, offers and calls come in.
OneConnectionEachWay ==
    \A a, b \in Addrs :
        (Live(a) /\ Live(b) /\ otherPeer[a] = otherPeer[b] /\ inOrOut[a] = inOrOut[b]) => a = b

\* What sendto and disconnect find in p2pconnections is a Connection that
\* exists ("we have an active connection"), and the one whose messages and
\* close recvfrom reports under that peer.
ListedConnectionsExist ==
    \A x \in Peers \cup Names : p2pconnections[x] # NoAddr =>
        status[p2pconnections[x]] # "FREE" /\ ReportedPeer(p2pconnections[x]) = x

\* A virtual peer and its connection find each other: the table that sendto
\* looks in and the table recvfrom names the sender from agree.
AliasesAreListed == \A n \in Names : virtualPeerConnections[n] = p2pconnections[n]

\* A closed connection the application may still send on is going to be reported.
ClosesAreReported ==
    \A x \in Peers \cup Names :
        LET a == p2pconnections[x] IN a # NoAddr /\ status[a] = "CLOSED" => a \in remoteClosed

\* While the session in which its lookup was sent lasts, a connection to an
\* alias does not wait forever to learn its peer: it goes on to an offer, or is
\* closed, also when earlier lookups of the alias are answered late.
LookupsEnd ==
    \A n \in Names :
        (pendingAlias[n] # NoAddr /\ lookups[n] > 0) ~> (pendingAlias[n] = NoAddr \/ session = "none")

\* In a client that uses no aliases an answer finds its connection still
\* connecting, as the handler asserts, also when it is one to an offer whose
\* connection has been closed and replaced.
AnswersFindConnecting ==
    [][\A p \in Peers : P2PAnswer(p) /\ pendingOut[p] # NoAddr => status[pendingOut[p]] = "CONNECTING"]_vars

=============================================================================
