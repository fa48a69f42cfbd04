---------------------------- MODULE ClientProofs -----------------------------
(***************************************************************************)
(* Theorems about Client, for all values of its constants: what the tables *)
(* of pending, closed and listed connections hold.                         *)
(***************************************************************************)
EXTENDS Client, TLAPS

\* humblenet_shutdown is not called: it leaves tables as they are.
NoShutdown == "shutdown" \notin Calls

\* Sockets belong to live connections, and the closed ones that have not been
\* deleted are those that wait to be reported.
SocketsAndCloses ==
    /\ \A a \in socket : Live(a)
    /\ remoteClosed = {a \in Addrs : status[a] = "CLOSED"}

\* A pending connection to an alias is the alias's virtual peer, is outgoing,
\* and has neither a socket nor a peer yet.
PendingAliases ==
    \A n \in Names : pendingAlias[n] # NoAddr =>
        /\ status[pendingAlias[n]] = "CONNECTING" /\ inOrOut[pendingAlias[n]] = "Outgoing"
        /\ pendingAlias[n] \notin socket /\ otherPeer[pendingAlias[n]] = NoPeer
        /\ virtualPeerConnections[n] = pendingAlias[n]

PendingOutgoing ==
    \A p \in Peers : pendingOut[p] # NoAddr =>
        Live(pendingOut[p]) /\ inOrOut[pendingOut[p]] = "Outgoing" /\ otherPeer[pendingOut[p]] = p

PendingIncoming ==
    \A p \in Peers : pendingIn[p] # NoAddr =>
        Live(pendingIn[p]) /\ inOrOut[pendingIn[p]] = "Incoming" /\ otherPeer[pendingIn[p]] = p

\* Virtual peers have connections that exist, and no two the same.
VirtualPeers ==
    /\ \A n \in Names : virtualPeerConnections[n] # NoAddr => status[virtualPeerConnections[n]] # "FREE"
    /\ \A n, m \in Names :
          (virtualPeerConnections[n] # NoAddr /\ virtualPeerConnections[n] = virtualPeerConnections[m]) => n = m

\* What a shutdown leaves true: the inductive invariant of all but p2pconnections.
SurvivingInv ==
    TypeOK /\ SocketsAndCloses /\ PendingAliases /\ PendingOutgoing /\ PendingIncoming /\ VirtualPeers

\* The pending connections to peers have the socket that a shutdown takes away.
PendingHaveSockets ==
    \A p \in Peers : {pendingOut[p], pendingIn[p]} \subseteq socket \cup {NoAddr}

\* A virtual peer is listed with its own connection, and a connection listed
\* under a peer is to that peer and to no alias.
Listed ==
    /\ \A n \in Names : virtualPeerConnections[n] = p2pconnections[n]
    /\ \A x \in Peers \cup Names : p2pconnections[x] # NoAddr => status[p2pconnections[x]] # "FREE"
    /\ \A p \in Peers : p2pconnections[p] # NoAddr =>
          /\ otherPeer[p2pconnections[p]] = p
          /\ \A n \in Names : virtualPeerConnections[n] # p2pconnections[p]

\* The inductive invariant of the tables until a shutdown.
TablesInv == SurvivingInv /\ PendingHaveSockets /\ Listed

\* Without aliases every live connection is the pending one of its peer.
LiveArePending ==
    \A a \in Addrs : Live(a) =>
        /\ otherPeer[a] \in Peers
        /\ IF inOrOut[a] = "Outgoing" THEN pendingOut[otherPeer[a]] = a ELSE pendingIn[otherPeer[a]] = a

\* Offers to a peer wait in the order they were made.
OffersInOrder ==
    /\ answered \subseteq 1 .. attempts
    /\ \A a \in Addrs : attempt[a] <= attempts
    /\ \A p \in Peers :
          /\ \A i \in DOMAIN offers[p] : offers[p][i] <= attempts
          /\ \A i, j \in DOMAIN offers[p] : i < j => offers[p][i] < offers[p][j]

\* The offer of a peer's pending connection is its own, is the last of those
\* that wait, and none waits once it is answered.
PendingIsLast ==
    /\ \A p, q \in Peers :
          (pendingOut[p] # NoAddr /\ pendingOut[q] # NoAddr /\ attempt[pendingOut[p]] = attempt[pendingOut[q]]) => p = q
    /\ \A p \in Peers : pendingOut[p] # NoAddr =>
          /\ \A i \in DOMAIN offers[p] : offers[p][i] <= attempt[pendingOut[p]]
          /\ attempt[pendingOut[p]] \in answered => offers[p] = << >>

\* Outgoing connections that WebRTC has connected were answered.
ConnectedAreAnswered ==
    \A a \in Addrs : inOrOut[a] = "Outgoing" /\ (a \in tracked \/ status[a] = "CONNECTED") => attempt[a] \in answered

\* The inductive invariant of answers.
AnswersInv == SurvivingInv /\ LiveArePending /\ OffersInOrder /\ PendingIsLast /\ ConnectedAreAnswered

-----------------------------------------------------------------------------
(* Types *)

\* Erasing connections from a table of connections leaves such a table.
LEMMA WithoutType ==
    ASSUME NEW S, NEW table \in [S -> AddrOrNone], NEW A
    PROVE  Without(table, A) \in [S -> AddrOrNone]
  BY DEF Without, AddrOrNone

\* Closing connections keeps every variable it assigns well typed.
LEMMA SetClosedType ==
    ASSUME TypeOK, NEW A \in SUBSET Addrs, NEW P, SetClosed(A, P)
    PROVE  /\ status' \in [Addrs -> {"FREE", "CONNECTING", "CONNECTED", "CLOSED"}]
           /\ inOrOut' \in [Addrs -> {"Incoming", "Outgoing"}]
           /\ otherPeer' \in [Addrs -> Peers \cup {NoPeer}]
           /\ socket' \subseteq Addrs /\ tracked' \subseteq socket'
           /\ remoteClosed' \subseteq Addrs
           /\ pendingOut' \in [Peers -> AddrOrNone]
           /\ pendingIn' \in [Peers -> AddrOrNone]
           /\ pendingAlias' \in [Names -> AddrOrNone]
           /\ blacklist' \in [Peers -> {"none", "active", "expired"}]
  <1>1. /\ pendingOut' \in [Peers -> AddrOrNone]
        /\ pendingIn' \in [Peers -> AddrOrNone]
        /\ pendingAlias' \in [Names -> AddrOrNone]
    BY WithoutType DEF TypeOK, SetClosed, WithoutPending
  <1>2. blacklist' \in [Peers -> {"none", "active", "expired"}]
    BY DEF TypeOK, SetClosed, Blacklisted
  <1> QED
    BY <1>1, <1>2 DEF TypeOK, SetClosed

\* Deleting connections keeps every variable it assigns well typed.
LEMMA ConnectionCloseType ==
    ASSUME TypeOK, NEW A \in SUBSET Addrs, ConnectionClose(A)
    PROVE  /\ status' \in [Addrs -> {"FREE", "CONNECTING", "CONNECTED", "CLOSED"}]
           /\ inOrOut' \in [Addrs -> {"Incoming", "Outgoing"}]
           /\ otherPeer' \in [Addrs -> Peers \cup {NoPeer}]
           /\ tracked' = tracked \ A
           /\ remoteClosed' \subseteq Addrs
           /\ pendingOut' \in [Peers -> AddrOrNone]
           /\ pendingIn' \in [Peers -> AddrOrNone]
           /\ pendingAlias' \in [Names -> AddrOrNone]
           /\ blacklist' \in [Peers -> {"none", "active", "expired"}]
           /\ virtualPeerConnections' \in [Names -> AddrOrNone]
           /\ attempt' \in [Addrs -> 0 .. MaxAttempts]
  <1>1. /\ pendingOut' \in [Peers -> AddrOrNone]
        /\ pendingIn' \in [Peers -> AddrOrNone]
        /\ pendingAlias' \in [Names -> AddrOrNone]
        /\ virtualPeerConnections' \in [Names -> AddrOrNone]
    BY WithoutType DEF TypeOK, ConnectionClose, WithoutPending, AliasesWithout
  <1>2. blacklist' \in [Peers -> {"none", "active", "expired"}]
    BY DEF TypeOK, ConnectionClose, Blacklisted
  <1>3. attempt' \in [Addrs -> 0 .. MaxAttempts]
    BY ClientAssumption DEF TypeOK, ConnectionClose
  <1> QED
    BY <1>1, <1>2, <1>3 DEF TypeOK, ConnectionClose

\* Sending an offer keeps every variable it assigns well typed.
LEMMA SendOfferType ==
    ASSUME TypeOK, NEW a, NEW p \in Peers, SendOffer(a, p)
    PROVE  /\ attempts' \in 0 .. MaxAttempts
           /\ attempt' \in [Addrs -> 0 .. MaxAttempts]
           /\ offers' \in [Peers -> Seq(1 .. MaxAttempts)]
  <1>1. attempts + 1 \in 1 .. MaxAttempts
    BY ClientAssumption DEF TypeOK, SendOffer
  <1>2. Append(offers[p], attempts + 1) \in Seq(1 .. MaxAttempts)
    BY <1>1 DEF TypeOK
  <1>4. attempt' \in [Addrs -> 0 .. MaxAttempts]
    <2>1. attempts + 1 \in 0 .. MaxAttempts
      BY <1>1
    <2> QED BY <2>1 DEF TypeOK, SendOffer
  <1>3. offers' \in [Peers -> Seq(1 .. MaxAttempts)]
    BY <1>2 DEF TypeOK, SendOffer
  <1> QED
    BY <1>1, <1>3, <1>4 DEF TypeOK, SendOffer

\* An id that the server has yet to give is within the bound.
SessionsLeft == session # "none" /\ serverId = 0 => sessions < MaxSessions

\* Every call and callback keeps the types.
LEMMA TypeStep ==
    ASSUME TypeOK, SessionsLeft, [Next]_vars
    PROVE  TypeOK'
  <1> USE ClientAssumption
  <1>1. CASE P2PInit
    BY <1>1 DEF TypeOK, P2PInit, connVars, pendingVars, tableVars, netVars
  <1>2. CASE SignalConnected
    BY <1>2 DEF TypeOK, SignalConnected, connVars, pendingVars, tableVars, netVars
  <1>3. CASE SignalLost
    BY <1>3 DEF TypeOK, SignalLost, NoMessages, connVars, pendingVars, tableVars
  <1>4. CASE HelloClient
    BY <1>4 DEF TypeOK, SessionsLeft, HelloClient, connVars, pendingVars, tableVars, netVars
  <1>5. ASSUME NEW p \in Peers, P2PAnswer(p) PROVE TypeOK'
    <2>1. offers' \in [Peers -> Seq(1 .. MaxAttempts)]
      BY <1>5 DEF TypeOK, P2PAnswer
    <2>2. CASE /\ answered' = IF pendingOut[p] # NoAddr /\ attempt[pendingOut[p]] = Head(offers[p])
                              THEN answered \cup {attempt[pendingOut[p]]} ELSE answered
               /\ UNCHANGED <<connVars, pendingVars>>
      <3>1. Head(offers[p]) \in 1 .. MaxAttempts
        BY <1>5 DEF TypeOK, P2PAnswer
      <3>2. answered' \subseteq 1 .. MaxAttempts
        BY <2>2, <3>1 DEF TypeOK
      <3> QED BY <1>5, <2>1, <2>2, <3>2 DEF TypeOK, P2PAnswer, sessionVars, connVars, pendingVars, tableVars
    <2>3. CASE pendingOut[p] # NoAddr /\ SetClosed({pendingOut[p]}, {}) /\ UNCHANGED answered
      BY ZenonT(60), <1>5, <2>1, <2>3, SetClosedType DEF TypeOK, AddrOrNone, P2PAnswer, sessionVars, tableVars
    <2> QED BY <1>5, <2>2, <2>3 DEF P2PAnswer
  <1>6. ASSUME NEW p \in Peers, P2PReject(p) PROVE TypeOK'
    <2>1. offers' \in [Peers -> Seq(1 .. MaxAttempts)] /\ answers' \in [Peers -> 0 .. 1]
      <3>1. CASE offers[p] # << >> /\ offers' = [offers EXCEPT ![p] = Tail(@)] /\ UNCHANGED answers
        BY <3>1 DEF TypeOK
      <3>2. CASE answers[p] > 0 /\ answers' = [answers EXCEPT ![p] = @ - 1] /\ UNCHANGED offers
        BY <3>2 DEF TypeOK
      <3> QED BY <1>6, <3>1, <3>2 DEF P2PReject
    <2>2. CASE UNCHANGED <<connVars, pendingVars>>
      BY <1>6, <2>1, <2>2 DEF TypeOK, P2PReject, sessionVars, connVars, pendingVars, tableVars
    <2>3. CASE pendingOut[p] # NoAddr /\ SetClosed({pendingOut[p]}, {p})
      BY ZenonT(60), <1>6, <2>1, <2>3, SetClosedType DEF TypeOK, AddrOrNone, P2PReject, sessionVars, tableVars
    <2> QED BY <1>6, <2>2, <2>3 DEF P2PReject
  <1>7. ASSUME NEW p \in Peers, NoReply(p) PROVE TypeOK'
    <2>1. offers' \in [Peers -> Seq(1 .. MaxAttempts)] /\ answers' \in [Peers -> 0 .. 1]
      <3>1. CASE offers[p] # << >> /\ offers' = [offers EXCEPT ![p] = Tail(@)] /\ UNCHANGED answers
        BY <3>1 DEF TypeOK
      <3>2. CASE answers[p] > 0 /\ answers' = [answers EXCEPT ![p] = @ - 1] /\ UNCHANGED offers
        BY <3>2 DEF TypeOK
      <3> QED BY <1>7, <3>1, <3>2 DEF NoReply
    <2> QED BY <1>7, <2>1 DEF TypeOK, NoReply, sessionVars, connVars, pendingVars, tableVars
  <1>8. ASSUME NEW p \in Peers, NEW a \in Addrs, P2POffer(a, p) PROVE TypeOK'
    <2>1. CASE New(a, p, "Incoming", "CONNECTING")
      <3>1. /\ status' \in [Addrs -> {"FREE", "CONNECTING", "CONNECTED", "CLOSED"}]
            /\ inOrOut' \in [Addrs -> {"Incoming", "Outgoing"}]
            /\ otherPeer' \in [Addrs -> Peers \cup {NoPeer}]
        BY <2>1 DEF New, TypeOK
      <3>2. /\ socket' = socket \cup {a}
            /\ pendingIn' = [pendingIn EXCEPT ![p] = a]
            /\ answers' = [answers EXCEPT ![p] = 1]
            /\ UNCHANGED <<tracked, pendingOut, pendingAlias, remoteClosed, blacklist>>
        BY <1>8, <2>1 DEF P2POffer, New, connVars, TypeOK
      <3>3. UNCHANGED <<sessionVars, tableVars, attempt, attempts, answered, offers, lookups>>
        BY <1>8 DEF P2POffer
      <3> QED BY <3>1, <3>2, <3>3 DEF TypeOK, AddrOrNone, sessionVars, tableVars
    <2>2. CASE /\ blacklist' = Blacklisted(blacklist, {p})
               /\ UNCHANGED <<connVars, pendingOut, pendingIn, pendingAlias, remoteClosed, answers>>
      BY <1>8, <2>2 DEF TypeOK, P2POffer, Blacklisted, sessionVars, connVars, tableVars
    <2> QED BY <1>8, <2>1, <2>2 DEF P2POffer
  <1>9. ASSUME NEW n \in Names, AliasResolved(n) PROVE TypeOK'
    <2>1. lookups' \in [Names -> 0 .. MaxLookups]
      BY <1>9 DEF TypeOK, AliasResolved
    <2>6. UNCHANGED <<sessionVars, tableVars, answered, answers>>
      BY <1>9 DEF AliasResolved
    <2>2. CASE UNCHANGED <<connVars, pendingVars, attempt, attempts, offers>>
      BY <1>9, <2>1, <2>2 DEF TypeOK, AliasResolved, sessionVars, connVars, pendingVars, tableVars
    <2>3. CASE pendingAlias[n] # NoAddr /\ SetClosed({pendingAlias[n]}, {}) /\ UNCHANGED <<attempt, attempts, offers>>
      <3>1. {pendingAlias[n]} \in SUBSET Addrs
        BY <2>3 DEF TypeOK, AddrOrNone
      <3> QED BY <2>1, <2>3, <2>6, <3>1, SetClosedType DEF TypeOK, sessionVars, tableVars
    <2>4. ASSUME NEW p \in Peers, pendingAlias[n] # NoAddr,
                 otherPeer' = [otherPeer EXCEPT ![pendingAlias[n]] = p],
                 pendingAlias' = WithoutPendingAlias(n),
                 SendOffer(pendingAlias[n], p),
                 socket' = socket \cup {pendingAlias[n]},
                 pendingOut' = IF pendingOut[p] = NoAddr THEN [pendingOut EXCEPT ![p] = pendingAlias[n]] ELSE pendingOut,
                 UNCHANGED <<status, blacklist, remoteClosed>>, UNCHANGED <<inOrOut, tracked, pendingIn>>
          PROVE TypeOK'
      <3>1. attempts' \in 0 .. MaxAttempts /\ attempt' \in [Addrs -> 0 .. MaxAttempts]
            /\ offers' \in [Peers -> Seq(1 .. MaxAttempts)]
        BY <2>4, SendOfferType
      <3>2. pendingAlias[n] \in Addrs
        BY <2>4 DEF TypeOK, AddrOrNone
      <3>3. /\ otherPeer' \in [Addrs -> Peers \cup {NoPeer}]
            /\ pendingAlias' \in [Names -> AddrOrNone] /\ pendingOut' \in [Peers -> AddrOrNone]
            /\ socket' \subseteq Addrs /\ tracked' \subseteq socket'
        BY <2>4, <3>2 DEF TypeOK, AddrOrNone, WithoutPendingAlias
      <3> QED BY <2>1, <2>4, <2>6, <3>1, <3>3 DEF TypeOK, sessionVars, tableVars
    <2>5. ASSUME NEW p \in Peers, pendingAlias[n] # NoAddr,
                 otherPeer' = [otherPeer EXCEPT ![pendingAlias[n]] = p],
                 pendingAlias' = WithoutPendingAlias(n),
                 status' = [status EXCEPT ![pendingAlias[n]] = "CLOSED"],
                 blacklist' = WithoutExpired(p),
                 remoteClosed' = remoteClosed \cup {pendingAlias[n]},
                 UNCHANGED <<socket, pendingOut, attempt, attempts, offers>>, UNCHANGED <<inOrOut, tracked, pendingIn>>
          PROVE TypeOK'
      BY <1>9, <2>1, <2>5
      DEF TypeOK, AddrOrNone, AliasResolved, WithoutPendingAlias, WithoutExpired, sessionVars, tableVars
    <2> QED BY <1>9, <2>2, <2>3, <2>4, <2>5 DEF AliasResolved
  <1>10. ASSUME NEW a \in Addrs, OnConnect(a) \/ OnChannel(a) PROVE TypeOK'
    BY <1>10 DEF TypeOK, OnConnect, OnChannel, sessionVars, pendingVars, tableVars, netVars
  <1>11. ASSUME NEW a \in Addrs, OnDisconnect(a) PROVE TypeOK'
    BY <1>11, SetClosedType DEF TypeOK, OnDisconnect, sessionVars, tableVars, netVars
  <1>12. ASSUME NEW p \in Peers, SendtoBlacklisted(p) \/ Expire(p) PROVE TypeOK'
    BY ZenonT(60), <1>12 DEF TypeOK, SendtoBlacklisted, Expire, WithoutExpired, sessionVars, connVars, tableVars, netVars
  <1>13. ASSUME NEW p \in Peers, NEW a \in Addrs, Sendto(a, p) PROVE TypeOK'
    <2>1. attempts' \in 0 .. MaxAttempts /\ attempt' \in [Addrs -> 0 .. MaxAttempts]
          /\ offers' \in [Peers -> Seq(1 .. MaxAttempts)]
      BY <1>13, SendOfferType DEF Sendto
    <2> QED BY <1>13, <2>1 DEF TypeOK, AddrOrNone, Sendto, New, sessionVars
  <1>14. ASSUME NEW n \in Names, NEW a \in Addrs, SendtoAlias(a, n) PROVE TypeOK'
    BY <1>14 DEF TypeOK, AddrOrNone, SendtoAlias, New, sessionVars
  <1>15. ASSUME NEW x \in Peers \cup Names, SendtoClosed(x) PROVE TypeOK'
    <2>1. p2pconnections[x] \in Addrs
      BY <1>15 DEF TypeOK, AddrOrNone, SendtoClosed
    <2>2. p2pconnections' \in [Peers \cup Names -> AddrOrNone]
      BY <1>15 DEF TypeOK, AddrOrNone, SendtoClosed
    <2> QED BY SMTT(30), <1>15, <2>1, <2>2, ConnectionCloseType DEF TypeOK, SendtoClosed, sessionVars
  <1>16. ASSUME NEW a \in Addrs, RecvMessage(a) PROVE TypeOK'
    BY <1>16 DEF TypeOK, AddrOrNone, RecvMessage, sessionVars, connVars, pendingVars, netVars
  <1>17. ASSUME NEW a \in Addrs, RecvClosed(a) PROVE TypeOK'
    <2>1. p2pconnections' \in [Peers \cup Names -> AddrOrNone]
      BY <1>17 DEF TypeOK, AddrOrNone, RecvClosed, Unlisted
    <2> QED BY <1>17, <2>1, ConnectionCloseType DEF TypeOK, RecvClosed, sessionVars
  <1>18. ASSUME NEW X \in SUBSET (Peers \cup Names), Disconnect(X) PROVE TypeOK'
    <2>1. {p2pconnections[x] : x \in X} \ {NoAddr} \in SUBSET Addrs
      BY DEF TypeOK, AddrOrNone
    <2> QED BY <1>18, <2>1, SetClosedType DEF TypeOK, Disconnect, sessionVars, tableVars, netVars
  <1>19. CASE Shutdown
    <2>1. tracked \in SUBSET Addrs
      BY DEF TypeOK
    <2>2. /\ offers' \in [Peers -> Seq(1 .. MaxAttempts)] /\ answers' \in [Peers -> 0 .. 1]
          /\ lookups' \in [Names -> 0 .. MaxLookups]
      BY <1>19 DEF Shutdown, NoMessages
    <2>3. tracked' = {}
      BY <1>19, <2>1, ConnectionCloseType DEF Shutdown
    <2>4. {myPeerId', serverId', sessions'} \subseteq 0 .. MaxSessions
      BY <1>19 DEF TypeOK, Shutdown
    <2>5. /\ initialized' = FALSE /\ session' = "none" /\ socket' = {}
          /\ p2pconnections' = p2pconnections /\ attempts' = attempts /\ answered' = answered
          /\ ConnectionClose(tracked)
      BY <1>19 DEF Shutdown
    <2> QED BY <2>1, <2>2, <2>3, <2>4, <2>5, ConnectionCloseType DEF TypeOK
  <1>20. CASE UNCHANGED vars
    BY <1>20 DEF TypeOK, vars, sessionVars, connVars, pendingVars, tableVars, netVars
  <1> QED
    BY <1>1, <1>2, <1>3, <1>4, <1>5, <1>6, <1>7, <1>8, <1>9, <1>10, <1>11, <1>12, <1>13,
       <1>14, <1>15, <1>16, <1>17, <1>18, <1>19, <1>20
    DEF Next, Signaling, WebRTC, API

\* The types hold at the start.
LEMMA InitType == Init => TypeOK /\ SessionsLeft
  <1> SUFFICES ASSUME Init PROVE TypeOK /\ SessionsLeft
    OBVIOUS
  <1>1. /\ offers \in [Peers -> Seq(1 .. MaxAttempts)] /\ answers \in [Peers -> 0 .. 1]
        /\ lookups \in [Names -> 0 .. MaxLookups]
    BY ClientAssumption DEF Init
  <1>2. /\ status \in [Addrs -> {"FREE", "CONNECTING", "CONNECTED", "CLOSED"}]
        /\ inOrOut \in [Addrs -> {"Incoming", "Outgoing"}]
        /\ otherPeer \in [Addrs -> Peers \cup {NoPeer}]
        /\ blacklist \in [Peers -> {"none", "active", "expired"}]
        /\ attempt \in [Addrs -> 0 .. MaxAttempts]
    BY ClientAssumption DEF Init
  <1>3. /\ pendingOut \in [Peers -> AddrOrNone] /\ pendingIn \in [Peers -> AddrOrNone]
        /\ pendingAlias \in [Names -> AddrOrNone]
        /\ p2pconnections \in [Peers \cup Names -> AddrOrNone]
        /\ virtualPeerConnections \in [Names -> AddrOrNone]
    BY DEF Init, AddrOrNone
  <1>4. {myPeerId, serverId, sessions} \subseteq 0 .. MaxSessions /\ attempts \in 0 .. MaxAttempts
    BY ClientAssumption DEF Init
  <1> QED BY <1>1, <1>2, <1>3, <1>4 DEF Init, TypeOK, SessionsLeft

\* Every call and callback keeps SessionsLeft.
LEMMA SessionsStep ==
    ASSUME TypeOK, SessionsLeft, [Next]_vars
    PROVE  SessionsLeft'
  <1>1. CASE UNCHANGED vars
    BY <1>1 DEF SessionsLeft, vars, sessionVars
  <1>2. CASE P2PInit \/ SignalConnected \/ SignalLost \/ HelloClient \/ Shutdown
    BY <1>2, ClientAssumption DEF TypeOK, SessionsLeft, P2PInit, SignalConnected, SignalLost, HelloClient, Shutdown
  <1>3. CASE Next /\ ~(P2PInit \/ SignalConnected \/ SignalLost \/ HelloClient \/ Shutdown)
    <2>1. UNCHANGED sessionVars
      BY <1>3 DEF Next, Signaling, WebRTC, API, P2PAnswer, P2PReject, NoReply, P2POffer, AliasResolved,
                  OnConnect, OnChannel, OnDisconnect, SendtoBlacklisted, Expire, Sendto, SendtoAlias,
                  SendtoClosed, RecvMessage, RecvClosed, Disconnect
    <2> QED BY <2>1 DEF SessionsLeft, sessionVars
  <1> QED BY <1>1, <1>2, <1>3

\* The state of a client is well typed for every number of addresses, peers and
\* aliases; the connections WebRTC has established have a socket.
THEOREM TypeCorrect == Spec => []TypeOK
  BY InitType, SessionsStep, TypeStep, PTL DEF Spec

-----------------------------------------------------------------------------
(* What a shutdown leaves *)

\* Everything in SurvivingInv but the types.
Surviving == SocketsAndCloses /\ PendingAliases /\ PendingOutgoing /\ PendingIncoming /\ VirtualPeers

\* The pending connections to a peer are Connections that exist.
LEMMA PendingAreLive ==
    ASSUME SurvivingInv, NEW p \in Peers
    PROVE  /\ pendingOut[p] # NoAddr => pendingOut[p] \in Addrs /\ status[pendingOut[p]] # "FREE"
           /\ pendingIn[p] # NoAddr => pendingIn[p] \in Addrs /\ status[pendingIn[p]] # "FREE"
  <1>1. pendingOut[p] \in AddrOrNone /\ pendingIn[p] \in AddrOrNone
    BY DEF SurvivingInv, TypeOK
  <1>2. /\ pendingOut[p] # NoAddr => Live(pendingOut[p])
        /\ pendingIn[p] # NoAddr => Live(pendingIn[p])
    BY DEF SurvivingInv, PendingOutgoing, PendingIncoming
  <1> QED BY <1>1, <1>2 DEF AddrOrNone, Live

\* humblenet_connection_set_closed, for any connections, keeps the tables.
LEMMA SetClosedSurviving ==
    ASSUME SurvivingInv, NEW A \in SUBSET Addrs, NEW P, SetClosed(A, P), UNCHANGED tableVars
    PROVE  Surviving'
  <1>1. /\ status' = [a \in Addrs |-> IF a \in A THEN "CLOSED" ELSE status[a]]
        /\ socket' = socket \ A
        /\ remoteClosed' = remoteClosed \cup A
        /\ UNCHANGED <<inOrOut, otherPeer, virtualPeerConnections>>
        /\ pendingOut' = Without(pendingOut, A)
        /\ pendingIn' = Without(pendingIn, A)
        /\ pendingAlias' = Without(pendingAlias, A)
    BY DEF SetClosed, WithoutPending, tableVars
  <1>2. SocketsAndCloses'
    BY <1>1 DEF SocketsAndCloses, Live, SurvivingInv, TypeOK
  <1>3. PendingAliases'
    BY <1>1 DEF PendingAliases, Without, SurvivingInv, TypeOK, AddrOrNone
  <1>4. PendingOutgoing'
    BY <1>1 DEF PendingOutgoing, Without, Live, SurvivingInv, TypeOK, AddrOrNone
  <1>5. PendingIncoming'
    BY <1>1 DEF PendingIncoming, Without, Live, SurvivingInv, TypeOK, AddrOrNone
  <1>6. VirtualPeers'
    BY <1>1 DEF VirtualPeers, SurvivingInv, TypeOK, AddrOrNone
  <1> QED
    BY <1>2, <1>3, <1>4, <1>5, <1>6 DEF Surviving

\* humblenet_connection_close, for any connections that lose their sockets,
\* keeps the tables.
LEMMA ConnectionCloseSurviving ==
    ASSUME SurvivingInv, NEW A \in SUBSET Addrs, ConnectionClose(A), socket' \subseteq socket \ A
    PROVE  Surviving'
  <1>1. /\ status' = [b \in Addrs |-> IF b \in A THEN "FREE" ELSE status[b]]
        /\ inOrOut' = [b \in Addrs |-> IF b \in A THEN "Incoming" ELSE inOrOut[b]]
        /\ otherPeer' = [b \in Addrs |-> IF b \in A THEN NoPeer ELSE otherPeer[b]]
        /\ remoteClosed' = remoteClosed \ A
        /\ pendingOut' = Without(pendingOut, A)
        /\ pendingIn' = Without(pendingIn, A)
        /\ pendingAlias' = Without(pendingAlias, A)
        /\ virtualPeerConnections' = Without(virtualPeerConnections, A)
    BY DEF ConnectionClose, WithoutPending, AliasesWithout
  <1>2. SocketsAndCloses'
    BY <1>1 DEF SocketsAndCloses, Live, SurvivingInv, TypeOK
  <1>3. PendingAliases'
    BY <1>1 DEF PendingAliases, Without, SurvivingInv, TypeOK, AddrOrNone
  <1>4. PendingOutgoing'
    BY <1>1 DEF PendingOutgoing, Without, Live, SurvivingInv, TypeOK, AddrOrNone
  <1>5. PendingIncoming'
    BY <1>1 DEF PendingIncoming, Without, Live, SurvivingInv, TypeOK, AddrOrNone
  <1>6. VirtualPeers'
    BY <1>1 DEF VirtualPeers, Without, SurvivingInv, TypeOK, AddrOrNone
  <1> QED
    BY <1>2, <1>3, <1>4, <1>5, <1>6 DEF Surviving

\* A resolved alias: its connection goes from the pending aliases to the
\* pending connections of its peer, or is closed.
LEMMA AliasResolvedSurviving ==
    ASSUME SurvivingInv, NEW n \in Names, AliasResolved(n)
    PROVE  Surviving'
  <1> USE ClientAssumption
  <1>1. UNCHANGED tableVars
    BY DEF AliasResolved
  <1>2. CASE UNCHANGED <<connVars, pendingVars>>
    BY <1>1, <1>2 DEF SurvivingInv, Surviving, SocketsAndCloses, PendingAliases, PendingOutgoing, PendingIncoming,
                      VirtualPeers, Live, connVars, pendingVars, tableVars
  <1>3. ASSUME pendingAlias[n] # NoAddr
        PROVE  /\ pendingAlias[n] \in Addrs /\ status[pendingAlias[n]] = "CONNECTING"
               /\ inOrOut[pendingAlias[n]] = "Outgoing" /\ pendingAlias[n] \notin socket
               /\ virtualPeerConnections[n] = pendingAlias[n]
               /\ \A m \in Names : m # n => pendingAlias[m] # pendingAlias[n]
               /\ \A p \in Peers : pendingOut[p] # pendingAlias[n] /\ pendingIn[p] # pendingAlias[n]
    BY <1>3 DEF SurvivingInv, PendingAliases, PendingOutgoing, PendingIncoming, VirtualPeers, TypeOK, AddrOrNone
  <1>4. CASE pendingAlias[n] # NoAddr /\ SetClosed({pendingAlias[n]}, {})
    BY <1>1, <1>3, <1>4, SetClosedSurviving
  <1>5. ASSUME NEW p \in Peers, pendingAlias[n] # NoAddr,
               otherPeer' = [otherPeer EXCEPT ![pendingAlias[n]] = p],
               pendingAlias' = WithoutPendingAlias(n),
               socket' = socket \cup {pendingAlias[n]},
               pendingOut' = IF pendingOut[p] = NoAddr THEN [pendingOut EXCEPT ![p] = pendingAlias[n]] ELSE pendingOut,
               UNCHANGED <<status, remoteClosed>>, UNCHANGED <<inOrOut, tracked, pendingIn>>
        PROVE Surviving'
    <2>1. SocketsAndCloses'
      BY <1>3, <1>5 DEF SocketsAndCloses, Live, SurvivingInv, TypeOK
    <2>2. PendingAliases'
      BY <1>1, <1>3, <1>5 DEF WithoutPendingAlias, PendingAliases, SurvivingInv, TypeOK, AddrOrNone, tableVars
    <2>3. PendingOutgoing'
      BY <1>3, <1>5 DEF PendingOutgoing, Live, SurvivingInv, TypeOK, AddrOrNone
    <2>4. PendingIncoming'
      BY <1>3, <1>5 DEF PendingIncoming, Live, SurvivingInv, TypeOK, AddrOrNone
    <2>5. VirtualPeers'
      BY <1>1, <1>5 DEF VirtualPeers, SurvivingInv, tableVars
    <2> QED BY <2>1, <2>2, <2>3, <2>4, <2>5 DEF Surviving
  <1>6. ASSUME NEW p \in Peers, pendingAlias[n] # NoAddr,
               otherPeer' = [otherPeer EXCEPT ![pendingAlias[n]] = p],
               pendingAlias' = WithoutPendingAlias(n),
               status' = [status EXCEPT ![pendingAlias[n]] = "CLOSED"],
               remoteClosed' = remoteClosed \cup {pendingAlias[n]},
               UNCHANGED <<socket, pendingOut>>, UNCHANGED <<inOrOut, tracked, pendingIn>>
        PROVE Surviving'
    <2>1. SocketsAndCloses'
      BY <1>3, <1>6 DEF SocketsAndCloses, Live, SurvivingInv, TypeOK
    <2>2. PendingAliases'
      BY <1>1, <1>3, <1>6 DEF WithoutPendingAlias, PendingAliases, SurvivingInv, TypeOK, AddrOrNone, tableVars
    <2>3. PendingOutgoing'
      BY <1>3, <1>6 DEF PendingOutgoing, Live, SurvivingInv, TypeOK, AddrOrNone
    <2>4. PendingIncoming'
      BY <1>3, <1>6 DEF PendingIncoming, Live, SurvivingInv, TypeOK, AddrOrNone
    <2>5. VirtualPeers'
      BY <1>1, <1>6 DEF VirtualPeers, SurvivingInv, TypeOK, AddrOrNone, tableVars
    <2> QED BY <2>1, <2>2, <2>3, <2>4, <2>5 DEF Surviving
  <1> QED BY <1>2, <1>4, <1>5, <1>6 DEF AliasResolved

\* Every call, a shutdown included, and every callback keeps SurvivingInv.
LEMMA SurvivingStep ==
    ASSUME SurvivingInv, [Next]_vars
    PROVE  Surviving'
  <1> USE ClientAssumption
  <1>1. CASE UNCHANGED <<connVars, pendingVars, virtualPeerConnections>>
    BY <1>1 DEF SurvivingInv, Surviving, SocketsAndCloses, PendingAliases, PendingOutgoing, PendingIncoming,
                VirtualPeers, Live, connVars, pendingVars
  <1>2. CASE \/ UNCHANGED vars \/ P2PInit \/ SignalConnected \/ SignalLost \/ HelloClient
             \/ \E p \in Peers : NoReply(p)
             \/ \E a \in Addrs : RecvMessage(a)
    <2>1. UNCHANGED <<connVars, pendingVars, virtualPeerConnections>>
      BY <1>2 DEF vars, tableVars, P2PInit, SignalConnected, SignalLost, HelloClient, NoReply, RecvMessage
    <2> QED BY <1>1, <2>1
  <1>3. ASSUME NEW p \in Peers, NEW P, pendingOut[p] # NoAddr, SetClosed({pendingOut[p]}, P), UNCHANGED tableVars
        PROVE  Surviving'
    <2>1. {pendingOut[p]} \in SUBSET Addrs
      BY <1>3 DEF SurvivingInv, TypeOK, AddrOrNone
    <2> QED BY <1>3, <2>1, SetClosedSurviving
  <1>4. ASSUME NEW p \in Peers, P2PAnswer(p) \/ P2PReject(p) PROVE Surviving'
    <2>1. UNCHANGED tableVars
      BY <1>4 DEF P2PAnswer, P2PReject
    <2>2. \/ UNCHANGED <<connVars, pendingVars>>
          \/ pendingOut[p] # NoAddr /\ \E P \in {{}, {p}} : SetClosed({pendingOut[p]}, P)
      BY <1>4 DEF P2PAnswer, P2PReject
    <2> QED BY <1>1, <1>3, <2>1, <2>2 DEF tableVars
  <1>5. ASSUME NEW p \in Peers, NEW a \in Addrs, P2POffer(a, p) PROVE Surviving'
    <2>1. UNCHANGED virtualPeerConnections
      BY <1>5 DEF P2POffer, tableVars
    <2>2. CASE UNCHANGED <<connVars, pendingOut, pendingIn, pendingAlias, remoteClosed>>
      BY <2>1, <2>2 DEF SurvivingInv, Surviving, SocketsAndCloses, PendingAliases, PendingOutgoing, PendingIncoming,
                        VirtualPeers, Live, connVars
    <2>3. CASE /\ New(a, p, "Incoming", "CONNECTING")
               /\ socket' = socket \cup {a}
               /\ pendingIn' = [pendingIn EXCEPT ![p] = a]
               /\ UNCHANGED <<tracked, pendingOut, pendingAlias, remoteClosed>>
      <3>1. SocketsAndCloses'
        BY <2>3 DEF New, SocketsAndCloses, Live, SurvivingInv, TypeOK
      <3>2. PendingAliases'
        BY <2>1, <2>3 DEF New, PendingAliases, SurvivingInv, TypeOK, AddrOrNone
      <3>3. PendingOutgoing'
        BY <2>3 DEF New, PendingOutgoing, Live, SurvivingInv, TypeOK, AddrOrNone
      <3>4. PendingIncoming'
        BY <2>3 DEF New, PendingIncoming, Live, SurvivingInv, TypeOK, AddrOrNone
      <3>5. VirtualPeers'
        BY <2>1, <2>3 DEF New, VirtualPeers, SurvivingInv, TypeOK, AddrOrNone
      <3> QED BY <3>1, <3>2, <3>3, <3>4, <3>5 DEF Surviving
    <2> QED BY <1>5, <2>2, <2>3 DEF P2POffer
  <1>6. ASSUME NEW n \in Names, AliasResolved(n) PROVE Surviving'
    BY <1>6, AliasResolvedSurviving
  <1>7. ASSUME NEW a \in Addrs, OnConnect(a) PROVE Surviving'
    BY <1>7 DEF OnConnect, SurvivingInv, Surviving, SocketsAndCloses, PendingAliases, PendingOutgoing, PendingIncoming,
                VirtualPeers, Live, pendingVars, tableVars
  <1>8. ASSUME NEW a \in Addrs, OnChannel(a) PROVE Surviving'
    <2>1. /\ a \in socket /\ status' = [status EXCEPT ![a] = "CONNECTED"] /\ status[a] = "CONNECTING"
          /\ UNCHANGED <<inOrOut, otherPeer, socket, pendingVars, tableVars>>
      BY <1>8 DEF OnChannel, SurvivingInv, TypeOK
    <2>2. SocketsAndCloses'
      BY <2>1 DEF SocketsAndCloses, Live, SurvivingInv, TypeOK, pendingVars
    <2>3. PendingAliases'
      BY <2>1 DEF PendingAliases, SurvivingInv, TypeOK, AddrOrNone, pendingVars, tableVars
    <2>4. PendingOutgoing' /\ PendingIncoming'
      BY <2>1 DEF PendingOutgoing, PendingIncoming, Live, SurvivingInv, TypeOK, AddrOrNone, pendingVars
    <2>5. VirtualPeers'
      BY <2>1 DEF VirtualPeers, SurvivingInv, TypeOK, AddrOrNone, tableVars
    <2> QED BY <2>2, <2>3, <2>4, <2>5 DEF Surviving
  <1>9. ASSUME NEW a \in Addrs, OnDisconnect(a) PROVE Surviving'
    <2>1. {a} \in SUBSET Addrs
      OBVIOUS
    <2> QED BY <1>9, <2>1, SetClosedSurviving DEF OnDisconnect
  <1>10. ASSUME NEW p \in Peers, SendtoBlacklisted(p) \/ Expire(p) PROVE Surviving'
    BY <1>10 DEF SendtoBlacklisted, Expire, SurvivingInv, Surviving, SocketsAndCloses, PendingAliases, PendingOutgoing,
                 PendingIncoming, VirtualPeers, Live, connVars, tableVars
  <1>11. ASSUME NEW p \in Peers, NEW a \in Addrs, Sendto(a, p) PROVE Surviving'
    <2>1. /\ New(a, p, "Outgoing", "CONNECTING")
          /\ socket' = socket \cup {a}
          /\ pendingOut' = [pendingOut EXCEPT ![p] = a]
          /\ UNCHANGED <<pendingIn, pendingAlias, remoteClosed, virtualPeerConnections>>
      BY <1>11 DEF Sendto
    <2>2. SocketsAndCloses'
      BY <2>1 DEF New, SocketsAndCloses, Live, SurvivingInv, TypeOK
    <2>3. PendingAliases'
      BY <2>1 DEF New, PendingAliases, SurvivingInv, TypeOK, AddrOrNone
    <2>4. PendingOutgoing'
      BY <2>1 DEF New, PendingOutgoing, Live, SurvivingInv, TypeOK, AddrOrNone
    <2>5. PendingIncoming'
      BY <2>1 DEF New, PendingIncoming, Live, SurvivingInv, TypeOK, AddrOrNone
    <2>6. VirtualPeers'
      BY <2>1 DEF New, VirtualPeers, SurvivingInv, TypeOK, AddrOrNone
    <2> QED BY <2>2, <2>3, <2>4, <2>5, <2>6 DEF Surviving
  <1>12. ASSUME NEW n \in Names, NEW a \in Addrs, SendtoAlias(a, n) PROVE Surviving'
    <2>1. /\ New(a, NoPeer, "Outgoing", "CONNECTING")
          /\ virtualPeerConnections[n] = NoAddr
          /\ pendingAlias' = IF pendingAlias[n] = NoAddr THEN [pendingAlias EXCEPT ![n] = a] ELSE pendingAlias
          /\ virtualPeerConnections' = [virtualPeerConnections EXCEPT ![n] = a]
          /\ UNCHANGED <<socket, pendingOut, pendingIn, remoteClosed>>
      BY <1>12 DEF SendtoAlias
    <2>2. SocketsAndCloses'
      BY <2>1 DEF New, SocketsAndCloses, Live, SurvivingInv, TypeOK
    <2>3. PendingAliases'
      <3>1. pendingAlias[n] = NoAddr /\ a \notin socket
        BY <2>1 DEF New, PendingAliases, SocketsAndCloses, Live, SurvivingInv, TypeOK
      <3>2. pendingAlias' = [pendingAlias EXCEPT ![n] = a]
        BY <2>1, <3>1
      <3>3. \A m \in Names : pendingAlias[m] # NoAddr => pendingAlias[m] # a /\ pendingAlias[m] \in Addrs
        BY <2>1 DEF New, PendingAliases, SurvivingInv, TypeOK, AddrOrNone
      <3> QED BY <2>1, <3>1, <3>2, <3>3 DEF New, PendingAliases, SurvivingInv, TypeOK
    <2>4. PendingOutgoing'
      <3>1. \A p \in Peers : pendingOut[p] # NoAddr => pendingOut[p] # a /\ pendingOut[p] \in Addrs
        BY <2>1, PendingAreLive DEF New
      <3>2. \A b \in Addrs : b # a => /\ status'[b] = status[b] /\ inOrOut'[b] = inOrOut[b]
                                      /\ otherPeer'[b] = otherPeer[b]
        BY <2>1 DEF New, SurvivingInv, TypeOK
      <3> QED BY <2>1, <3>1, <3>2 DEF PendingOutgoing, Live, SurvivingInv
    <2>5. PendingIncoming'
      <3>1. \A p \in Peers : pendingIn[p] # NoAddr => pendingIn[p] # a /\ pendingIn[p] \in Addrs
        BY <2>1, PendingAreLive DEF New
      <3>2. \A b \in Addrs : b # a => /\ status'[b] = status[b] /\ inOrOut'[b] = inOrOut[b]
                                      /\ otherPeer'[b] = otherPeer[b]
        BY <2>1 DEF New, SurvivingInv, TypeOK
      <3> QED BY <2>1, <3>1, <3>2 DEF PendingIncoming, Live, SurvivingInv
    <2>6. VirtualPeers'
      BY <2>1 DEF New, VirtualPeers, SurvivingInv, TypeOK, AddrOrNone
    <2> QED BY <2>2, <2>3, <2>4, <2>5, <2>6 DEF Surviving
  <1>13. ASSUME NEW a \in Addrs, status[a] = "CLOSED", ConnectionClose({a}), UNCHANGED socket PROVE Surviving'
    <2>1. {a} \in SUBSET Addrs /\ socket' \subseteq socket \ {a}
      BY <1>13 DEF SurvivingInv, SocketsAndCloses, Live
    <2> QED BY <1>13, <2>1, ConnectionCloseSurviving
  <1>14. ASSUME NEW x \in Peers \cup Names, SendtoClosed(x) PROVE Surviving'
    <2>1. p2pconnections[x] \in Addrs
      BY <1>14 DEF SendtoClosed, SurvivingInv, TypeOK, AddrOrNone
    <2> QED BY <1>13, <1>14, <2>1 DEF SendtoClosed
  <1>15. ASSUME NEW a \in Addrs, RecvClosed(a) PROVE Surviving'
    <2>1. status[a] = "CLOSED"
      BY <1>15 DEF RecvClosed, SurvivingInv, SocketsAndCloses
    <2> QED BY <1>13, <1>15, <2>1 DEF RecvClosed
  <1>16. ASSUME NEW X \in SUBSET (Peers \cup Names), Disconnect(X) PROVE Surviving'
    <2>1. {p2pconnections[x] : x \in X} \ {NoAddr} \in SUBSET Addrs
      BY DEF SurvivingInv, TypeOK, AddrOrNone
    <2> QED BY <1>16, <2>1, SetClosedSurviving DEF Disconnect
  <1>17. CASE Shutdown
    <2>1. tracked \in SUBSET Addrs
      BY DEF SurvivingInv, TypeOK
    <2> QED BY <1>17, <2>1, ConnectionCloseSurviving DEF Shutdown
  <1> QED
    BY <1>2, <1>4, <1>5, <1>6, <1>7, <1>8, <1>9, <1>10, <1>11, <1>12, <1>14, <1>15, <1>16, <1>17
    DEF Next, Signaling, WebRTC, API

\* SurvivingInv holds of every client.
LEMMA SurvivingInvariant == Spec => []SurvivingInv
  <1>1. Init => SurvivingInv /\ SessionsLeft
    <2>1. Init => Surviving
      BY ClientAssumption DEF Init, Surviving, SocketsAndCloses, PendingAliases, PendingOutgoing, PendingIncoming,
                              VirtualPeers, Live
    <2> QED BY <2>1, InitType DEF SurvivingInv, Surviving
  <1>2. SurvivingInv /\ SessionsLeft /\ [Next]_vars => (SurvivingInv /\ SessionsLeft)'
    BY TypeStep, SessionsStep, SurvivingStep DEF SurvivingInv, Surviving
  <1> QED
    BY <1>1, <1>2, PTL DEF Spec

\* What the pending tables and the virtual peers point to: Connections that
\* exist, are not closed (the pending ones), and are the right peer's.
PendingConnectionsSurvive == PendingOutgoing /\ PendingIncoming /\ PendingAliases /\ VirtualPeers

\* The handlers of answers, refusals and resolved aliases never find a
\* Connection that was deleted or closed, or another peer's, also not one that a
\* shutdown left in the tables: the deletion of a Connection takes it out of
\* all of them, and what a shutdown deletes it takes out too.
THEOREM SurvivingCorrect == Spec => []PendingConnectionsSurvive
  <1>1. SurvivingInv => PendingConnectionsSurvive
    BY DEF SurvivingInv, PendingConnectionsSurvive
  <1> QED
    BY <1>1, SurvivingInvariant, PTL

\* The close of a connection that is listed is going to be reported, also when
\* the list is from before a shutdown.
THEOREM ReportedCorrect == Spec => []ClosesAreReported
  <1>1. SurvivingInv => ClosesAreReported
    BY DEF SurvivingInv, SocketsAndCloses, ClosesAreReported, TypeOK, AddrOrNone
  <1> QED
    BY <1>1, SurvivingInvariant, PTL

-----------------------------------------------------------------------------
(* The tables, until a shutdown *)

\* What TablesInv adds to SurvivingInv.
Tables == PendingHaveSockets /\ Listed

\* The p2p table lists a connection under the peer recvfrom reports for it.
LEMMA ReportedAsListed ==
    ASSUME TablesInv, NEW x \in Peers \cup Names, p2pconnections[x] # NoAddr
    PROVE  /\ p2pconnections[x] \in Addrs
           /\ status[p2pconnections[x]] # "FREE"
           /\ ReportedPeer(p2pconnections[x]) = x
  <1>1. p2pconnections[x] \in Addrs /\ status[p2pconnections[x]] # "FREE"
    BY DEF TablesInv, SurvivingInv, TypeOK, AddrOrNone, Listed
  <1>2. CASE x \in Names
    <2>1. {n \in Names : virtualPeerConnections[n] = p2pconnections[x]} = {x}
      BY <1>1, <1>2, ClientAssumption DEF TablesInv, SurvivingInv, VirtualPeers, Listed
    <2> QED BY <1>1, <2>1 DEF ReportedPeer
  <1>3. CASE x \in Peers
    BY <1>1, <1>3 DEF ReportedPeer, TablesInv, Listed
  <1> QED
    BY <1>2, <1>3

\* humblenet_connection_set_closed, for any connections that exist, keeps the tables.
LEMMA SetClosedTables ==
    ASSUME TablesInv, NEW A \in SUBSET Addrs, \A a \in A : status[a] # "FREE",
           NEW P, SetClosed(A, P), UNCHANGED tableVars
    PROVE  Tables'
  <1>1. /\ status' = [a \in Addrs |-> IF a \in A THEN "CLOSED" ELSE status[a]]
        /\ socket' = socket \ A
        /\ UNCHANGED <<otherPeer, p2pconnections, virtualPeerConnections>>
        /\ pendingOut' = Without(pendingOut, A)
        /\ pendingIn' = Without(pendingIn, A)
    BY DEF SetClosed, WithoutPending, tableVars
  <1>2. PendingHaveSockets'
    BY <1>1 DEF PendingHaveSockets, Without, TablesInv, SurvivingInv, TypeOK
  <1>3. Listed'
    BY <1>1 DEF Listed, TablesInv, SurvivingInv, TypeOK, AddrOrNone
  <1> QED
    BY <1>2, <1>3 DEF Tables

\* Deleting a closed connection and unlisting its peer, as recvfrom and sendto
\* do, keeps the tables.
LEMMA ConnectionCloseTables ==
    ASSUME TablesInv, NEW a \in Addrs, status[a] = "CLOSED", ConnectionClose({a}), UNCHANGED socket,
           p2pconnections' = [y \in DOMAIN p2pconnections |->
              IF y \in {ReportedPeer(a), otherPeer[a]} THEN NoAddr ELSE p2pconnections[y]]
    PROVE  Tables'
  <1>1. /\ status' = [b \in Addrs |-> IF b = a THEN "FREE" ELSE status[b]]
        /\ otherPeer' = [b \in Addrs |-> IF b = a THEN NoPeer ELSE otherPeer[b]]
        /\ socket' = socket
        /\ pendingOut' = Without(pendingOut, {a})
        /\ pendingIn' = Without(pendingIn, {a})
        /\ virtualPeerConnections' = Without(virtualPeerConnections, {a})
    BY DEF ConnectionClose, WithoutPending, AliasesWithout
  <1>2. PendingHaveSockets'
    BY <1>1 DEF PendingHaveSockets, Without, TablesInv, SurvivingInv, SocketsAndCloses, TypeOK
  <1>3. Listed'
    <2>1. \A x \in Peers \cup Names : p2pconnections'[x] = p2pconnections[x] \/ p2pconnections'[x] = NoAddr
      BY DEF TablesInv, SurvivingInv, TypeOK
    <2>2. \A x \in Peers \cup Names : p2pconnections'[x] # a
      <3> SUFFICES ASSUME NEW x \in Peers \cup Names, p2pconnections'[x] = a PROVE FALSE
        OBVIOUS
      <3>1. a # NoAddr
        BY ClientAssumption
      <3>2. p2pconnections[x] = a
        BY <2>1, <3>1
      <3>3. ReportedPeer(a) = x
        BY <3>1, <3>2, ReportedAsListed
      <3>4. p2pconnections'[x] = NoAddr
        BY <3>3 DEF TablesInv, SurvivingInv, TypeOK
      <3> QED BY <3>1, <3>4
    <2>3. \A n \in Names : virtualPeerConnections'[n] = p2pconnections'[n]
      <3> SUFFICES ASSUME NEW n \in Names PROVE virtualPeerConnections'[n] = p2pconnections'[n]
        OBVIOUS
      <3>1. virtualPeerConnections[n] = p2pconnections[n]
        BY DEF TablesInv, Listed
      <3>2. CASE virtualPeerConnections[n] = a
        <4>1. virtualPeerConnections'[n] = NoAddr
          BY <1>1, <3>2 DEF Without, TablesInv, SurvivingInv, TypeOK
        <4> QED BY <3>1, <3>2, <4>1, <2>1, <2>2
      <3>3. CASE virtualPeerConnections[n] # a
        <4>1. virtualPeerConnections'[n] = virtualPeerConnections[n]
          BY <1>1, <3>3 DEF Without, TablesInv, SurvivingInv, TypeOK
        <4>2. n # otherPeer[a]
          BY ClientAssumption DEF TablesInv, SurvivingInv, TypeOK
        <4>3. n # ReportedPeer(a)
          <5>1. CASE {m \in Names : virtualPeerConnections[m] = a} = {}
            BY <5>1, <4>2 DEF ReportedPeer
          <5>2. CASE {m \in Names : virtualPeerConnections[m] = a} # {}
            BY <5>2, <3>3 DEF ReportedPeer
          <5> QED BY <5>1, <5>2
        <4>4. p2pconnections'[n] = p2pconnections[n]
          BY <4>2, <4>3 DEF TablesInv, SurvivingInv, TypeOK
        <4> QED BY <3>1, <4>1, <4>4
      <3> QED BY <3>2, <3>3
    <2>4. \A x \in Peers \cup Names : p2pconnections'[x] # NoAddr => p2pconnections'[x] = p2pconnections[x] /\ p2pconnections[x] # a
      BY <2>1, <2>2
    <2>5. \A b \in Addrs : b # a => status'[b] = status[b] /\ otherPeer'[b] = otherPeer[b]
      BY <1>1
    <2>6. \A n \in Names : virtualPeerConnections'[n] \in {virtualPeerConnections[n], NoAddr}
      BY <1>1 DEF Without, TablesInv, SurvivingInv, TypeOK
    <2>7. \A x \in Peers \cup Names : p2pconnections'[x] # NoAddr => status'[p2pconnections'[x]] # "FREE"
      <3> SUFFICES ASSUME NEW x \in Peers \cup Names, p2pconnections'[x] # NoAddr
                   PROVE  status'[p2pconnections'[x]] # "FREE"
        OBVIOUS
      <3>1. /\ p2pconnections'[x] = p2pconnections[x] /\ p2pconnections[x] # a
            /\ p2pconnections[x] \in Addrs /\ status[p2pconnections[x]] # "FREE"
        BY <2>4, ReportedAsListed
      <3> QED BY <2>5, <3>1
    <2>8. \A p \in Peers : p2pconnections'[p] # NoAddr => otherPeer'[p2pconnections'[p]] = p
      <3> SUFFICES ASSUME NEW p \in Peers, p2pconnections'[p] # NoAddr
                   PROVE  otherPeer'[p2pconnections'[p]] = p
        OBVIOUS
      <3>1. p2pconnections'[p] = p2pconnections[p] /\ p2pconnections[p] # a /\ p2pconnections[p] \in Addrs
        BY <2>4, ReportedAsListed
      <3>2. otherPeer[p2pconnections[p]] = p
        BY <3>1 DEF TablesInv, Listed
      <3> QED BY <2>5, <3>1, <3>2
    <2>9. \A p \in Peers : p2pconnections'[p] # NoAddr => \A n \in Names : virtualPeerConnections'[n] # p2pconnections'[p]
      BY <2>4, <2>6 DEF TablesInv, Listed
    <2> QED BY <2>3, <2>7, <2>8, <2>9 DEF Listed
  <1> QED
    BY <1>2, <1>3 DEF Tables

\* Every call but a shutdown, and every callback, keeps the tables.
LEMMA TablesStep ==
    ASSUME TablesInv, NoShutdown, [Next]_vars
    PROVE  Tables'
  <1> USE ClientAssumption
  <1>1. CASE UNCHANGED <<connVars, pendingOut, pendingIn, tableVars>>
    BY <1>1 DEF TablesInv, Tables, PendingHaveSockets, Listed, connVars, tableVars
  <1>2. CASE \/ UNCHANGED vars \/ P2PInit \/ SignalConnected \/ SignalLost \/ HelloClient
             \/ \E p \in Peers : NoReply(p) \/ SendtoBlacklisted(p) \/ Expire(p)
    <2>1. UNCHANGED <<connVars, pendingOut, pendingIn, tableVars>>
      BY <1>2 DEF vars, pendingVars, P2PInit, SignalConnected, SignalLost, HelloClient, NoReply,
                  SendtoBlacklisted, Expire
    <2> QED BY <1>1, <2>1
  <1>3. ASSUME NEW p \in Peers, P2PAnswer(p) \/ P2PReject(p) PROVE Tables'
    <2>1. UNCHANGED tableVars
      BY <1>3 DEF P2PAnswer, P2PReject
    <2>2. CASE UNCHANGED <<connVars, pendingVars>>
      BY <1>1, <2>1, <2>2 DEF pendingVars
    <2>3. ASSUME NEW P, pendingOut[p] # NoAddr, SetClosed({pendingOut[p]}, P) PROVE Tables'
      <3>1. pendingOut[p] \in Addrs /\ status[pendingOut[p]] # "FREE"
        BY <2>3, PendingAreLive DEF TablesInv
      <3> QED BY <2>1, <2>3, <3>1, SetClosedTables
    <2> QED BY <1>3, <2>2, <2>3 DEF P2PAnswer, P2PReject
  <1>4. ASSUME NEW p \in Peers, NEW a \in Addrs, P2POffer(a, p) PROVE Tables'
    <2>1. UNCHANGED tableVars
      BY <1>4 DEF P2POffer
    <2>2. CASE UNCHANGED <<connVars, pendingOut, pendingIn>>
      BY <1>1, <2>1, <2>2
    <2>3. CASE /\ New(a, p, "Incoming", "CONNECTING")
               /\ socket' = socket \cup {a}
               /\ pendingIn' = [pendingIn EXCEPT ![p] = a]
               /\ UNCHANGED pendingOut
      <3>1. PendingHaveSockets'
        BY <2>3 DEF PendingHaveSockets, TablesInv, SurvivingInv, TypeOK
      <3>2. Listed'
        BY <2>1, <2>3 DEF New, Listed, TablesInv, SurvivingInv, TypeOK, AddrOrNone, tableVars
      <3> QED BY <3>1, <3>2 DEF Tables
    <2> QED BY <1>4, <2>2, <2>3 DEF P2POffer
  <1>5. ASSUME NEW n \in Names, AliasResolved(n) PROVE Tables'
    <2>1. UNCHANGED tableVars
      BY <1>5 DEF AliasResolved
    <2>2. CASE UNCHANGED <<connVars, pendingVars>>
      BY <1>1, <2>1, <2>2 DEF pendingVars
    <2>3. ASSUME pendingAlias[n] # NoAddr
          PROVE  /\ pendingAlias[n] \in Addrs /\ status[pendingAlias[n]] = "CONNECTING"
                 /\ \A p \in Peers : p2pconnections[p] # pendingAlias[n]
      BY <2>3 DEF TablesInv, SurvivingInv, PendingAliases, Listed, TypeOK, AddrOrNone
    <2>4. CASE pendingAlias[n] # NoAddr /\ SetClosed({pendingAlias[n]}, {})
      BY <2>1, <2>3, <2>4, SetClosedTables
    <2>5. ASSUME NEW p \in Peers, pendingAlias[n] # NoAddr,
                 otherPeer' = [otherPeer EXCEPT ![pendingAlias[n]] = p],
                 \/ /\ socket' = socket \cup {pendingAlias[n]}
                    /\ pendingOut' = IF pendingOut[p] = NoAddr THEN [pendingOut EXCEPT ![p] = pendingAlias[n]]
                                     ELSE pendingOut
                    /\ UNCHANGED status
                 \/ /\ status' = [status EXCEPT ![pendingAlias[n]] = "CLOSED"]
                    /\ UNCHANGED <<socket, pendingOut>>,
                 UNCHANGED pendingIn
          PROVE Tables'
      <3>1. PendingHaveSockets'
        BY <2>3, <2>5 DEF PendingHaveSockets, TablesInv, SurvivingInv, TypeOK
      <3>2. Listed'
        BY <2>1, <2>3, <2>5 DEF Listed, TablesInv, SurvivingInv, TypeOK, AddrOrNone, tableVars
      <3> QED BY <3>1, <3>2 DEF Tables
    <2> QED BY <1>5, <2>2, <2>4, <2>5 DEF AliasResolved
  <1>6. ASSUME NEW a \in Addrs, OnConnect(a) \/ OnChannel(a) PROVE Tables'
    <2>1. UNCHANGED <<otherPeer, socket, pendingOut, pendingIn, tableVars>>
      BY <1>6 DEF OnConnect, OnChannel, pendingVars
    <2>2. \A b \in Addrs : status[b] # "FREE" => status'[b] # "FREE"
      BY <1>6 DEF OnConnect, OnChannel, TablesInv, SurvivingInv, TypeOK
    <2> QED BY <2>1, <2>2
      DEF Tables, PendingHaveSockets, Listed, TablesInv, SurvivingInv, TypeOK, AddrOrNone, tableVars
  <1>7. ASSUME NEW a \in Addrs, OnDisconnect(a) PROVE Tables'
    <2>1. status[a] # "FREE"
      BY <1>7 DEF OnDisconnect, TablesInv, SurvivingInv, SocketsAndCloses, Live
    <2> QED BY <1>7, <2>1, SetClosedTables DEF OnDisconnect
  <1>8. ASSUME NEW p \in Peers, NEW a \in Addrs, Sendto(a, p) PROVE Tables'
    <2>1. /\ New(a, p, "Outgoing", "CONNECTING")
          /\ socket' = socket \cup {a}
          /\ pendingOut' = [pendingOut EXCEPT ![p] = a]
          /\ p2pconnections' = [p2pconnections EXCEPT ![p] = a]
          /\ UNCHANGED <<pendingIn, virtualPeerConnections>>
      BY <1>8 DEF Sendto
    <2>2. PendingHaveSockets'
      BY <2>1 DEF PendingHaveSockets, TablesInv, SurvivingInv, TypeOK
    <2>3. Listed'
      BY <2>1 DEF New, Listed, TablesInv, SurvivingInv, TypeOK, AddrOrNone
    <2> QED BY <2>2, <2>3 DEF Tables
  <1>9. ASSUME NEW n \in Names, NEW a \in Addrs, SendtoAlias(a, n) PROVE Tables'
    <2>1. /\ New(a, NoPeer, "Outgoing", "CONNECTING")
          /\ virtualPeerConnections' = [virtualPeerConnections EXCEPT ![n] = a]
          /\ p2pconnections' = [p2pconnections EXCEPT ![n] = a]
          /\ UNCHANGED <<socket, pendingOut, pendingIn>>
      BY <1>9 DEF SendtoAlias
    <2>2. PendingHaveSockets'
      BY <2>1 DEF PendingHaveSockets, TablesInv
    <2>3. Listed'
      BY <2>1 DEF New, Listed, TablesInv, SurvivingInv, TypeOK, AddrOrNone
    <2> QED BY <2>2, <2>3 DEF Tables
  <1>10. ASSUME NEW x \in Peers \cup Names, SendtoClosed(x) PROVE Tables'
    <2>1. p2pconnections[x] \in Addrs /\ ReportedPeer(p2pconnections[x]) = x
      BY <1>10, ReportedAsListed DEF SendtoClosed
    <2> QED BY <1>10, <2>1, ConnectionCloseTables DEF SendtoClosed
  <1>11. ASSUME NEW a \in Addrs, RecvMessage(a) PROVE Tables'
    <2>1. {n \in Names : virtualPeerConnections[n] = a} = {}
      <3> SUFFICES ASSUME NEW n \in Names, virtualPeerConnections[n] = a PROVE FALSE
        OBVIOUS
      <3>1. p2pconnections[n] = a /\ a # NoAddr
        BY DEF TablesInv, Listed
      <3> QED BY <1>11, <3>1, ReportedAsListed DEF RecvMessage
    <2>2. /\ otherPeer[a] \in Peers /\ status[a] # "FREE"
          /\ p2pconnections' = [p2pconnections EXCEPT ![otherPeer[a]] = a]
          /\ UNCHANGED <<connVars, pendingVars, virtualPeerConnections>>
      BY <1>11, <2>1 DEF RecvMessage, ReportedPeer, TablesInv, SurvivingInv, TypeOK
    <2>3. Listed'
      BY <2>1, <2>2 DEF Listed, TablesInv, SurvivingInv, TypeOK, AddrOrNone, connVars
    <2> QED BY <2>2, <2>3 DEF TablesInv, Tables, PendingHaveSockets, connVars, pendingVars
  <1>12. ASSUME NEW a \in Addrs, RecvClosed(a) PROVE Tables'
    <2>1. status[a] = "CLOSED"
      BY <1>12 DEF RecvClosed, TablesInv, SurvivingInv, SocketsAndCloses
    <2> QED BY <1>12, <2>1, ConnectionCloseTables DEF RecvClosed, Unlisted
  <1>13. ASSUME NEW X \in SUBSET (Peers \cup Names), Disconnect(X) PROVE Tables'
    <2> DEFINE A == {p2pconnections[x] : x \in X} \ {NoAddr}
    <2>1. A \in SUBSET Addrs /\ \A a \in A : status[a] # "FREE"
      BY ReportedAsListed
    <2> QED BY <1>13, <2>1, SetClosedTables DEF Disconnect
  <1>14. ~Shutdown
    BY DEF NoShutdown, Shutdown
  <1> QED
    BY <1>2, <1>3, <1>4, <1>5, <1>6, <1>7, <1>8, <1>9, <1>10, <1>11, <1>12, <1>13, <1>14
    DEF Next, Signaling, WebRTC, API

\* Until a shutdown, TablesInv holds.
LEMMA TablesInvariant == ASSUME NoShutdown PROVE Spec => []TablesInv
  <1>1. Init => Tables
    BY ClientAssumption DEF Init, Tables, PendingHaveSockets, Listed
  <1>2. SurvivingInv /\ Tables /\ [Next]_vars => Tables'
    BY TablesStep, NoShutdown DEF TablesInv, Tables
  <1>3. SurvivingInv /\ Tables => TablesInv
    BY DEF TablesInv, Tables
  <1> QED
    BY <1>1, <1>2, <1>3, SurvivingInvariant, PTL DEF Spec

\* What the handlers of answers, refusals and resolved aliases find in the
\* pending tables exists, is not closed and is the peer's, in the table of its
\* direction, and has the socket they give the message to; for any
\* number of peers, aliases and reused addresses, until a shutdown.
THEOREM PendingCorrect == ASSUME NoShutdown PROVE Spec => []PendingConnectionsExist
  <1>1. TablesInv => PendingConnectionsExist
    BY DEF TablesInv, SurvivingInv, PendingHaveSockets, PendingOutgoing, PendingIncoming, PendingAliases,
           PendingConnectionsExist
  <1> QED
    BY <1>1, TablesInvariant, NoShutdown, PTL

\* sendto, disconnect and recvfrom agree on which connection belongs to a peer
\* or virtual peer, and none of them follows a pointer to a deleted Connection.
THEOREM ListedCorrect == ASSUME NoShutdown PROVE Spec => []ListedConnectionsExist
  <1>1. TablesInv => ListedConnectionsExist
    BY ReportedAsListed DEF ListedConnectionsExist
  <1> QED
    BY <1>1, TablesInvariant, NoShutdown, PTL

\* The connections of aliases are listed under their virtual peers.
THEOREM AliasesCorrect == ASSUME NoShutdown PROVE Spec => []AliasesAreListed
  <1>1. TablesInv => AliasesAreListed
    BY DEF TablesInv, Listed, AliasesAreListed
  <1> QED
    BY <1>1, TablesInvariant, NoShutdown, PTL

-----------------------------------------------------------------------------
(* Lookups of aliases *)

\* A connection that waits for its alias to be resolved, while the signaling
\* connection is up, waits for a lookup that the server has not answered.
LookupsAreInFlight ==
    \A n \in Names : session = "open" /\ pendingAlias[n] # NoAddr => lookups[n] > 0

\* The inductive invariant: a session is one of an initialized client, and none
\* begins while an alias is pending.
LookupsInv ==
    /\ session # "none" => initialized
    /\ \A n \in Names : pendingAlias[n] # NoAddr => initialized /\ session # "connecting"
    /\ LookupsAreInFlight

\* Pending aliases appear with a lookup, and an answer ends them.
LEMMA LookupsStep ==
    ASSUME NoShutdown, TypeOK, LookupsInv, [Next]_vars
    PROVE  LookupsInv'
  <1> USE ClientAssumption DEF LookupsInv, LookupsAreInFlight
  <1>1. ASSUME UNCHANGED <<initialized, session, lookups>>,
               \A n \in Names : pendingAlias'[n] \in {pendingAlias[n], NoAddr}
        PROVE  LookupsInv'
    BY <1>1
  <1>2. ASSUME NEW A PROVE \A n \in Names : Without(pendingAlias, A)[n] \in {pendingAlias[n], NoAddr}
    BY DEF Without, TypeOK
  <1>3. CASE UNCHANGED vars \/ \E n \in Names : AliasResolved(n)
    <2>1. CASE UNCHANGED vars
      BY <2>1 DEF vars, sessionVars, pendingVars, netVars
    <2>2. ASSUME NEW n \in Names, AliasResolved(n) PROVE LookupsInv'
      <3>1. /\ UNCHANGED <<initialized, session>>
            /\ lookups' = [lookups EXCEPT ![n] = @ - 1]
        BY <2>2 DEF AliasResolved, sessionVars
      <3>2. \/ UNCHANGED pendingAlias /\ pendingAlias[n] = NoAddr
            \/ pendingAlias' = Without(pendingAlias, {pendingAlias[n]})
            \/ pendingAlias' = WithoutPendingAlias(n)
        BY <2>2 DEF AliasResolved, SetClosed, WithoutPending, pendingVars
      <3>3. pendingAlias'[n] = NoAddr /\ \A m \in Names : pendingAlias'[m] \in {pendingAlias[m], NoAddr}
        BY <1>2, <3>2 DEF Without, WithoutPendingAlias, TypeOK
      <3>4. \A m \in Names \ {n} : lookups'[m] = lookups[m]
        BY <3>1 DEF TypeOK
      <3> QED BY <3>1, <3>3, <3>4
    <2> QED BY <1>3, <2>1, <2>2
  <1>4. CASE P2PInit \/ SignalConnected \/ SignalLost \/ HelloClient
    BY <1>4 DEF P2PInit, SignalConnected, SignalLost, HelloClient, NoMessages, pendingVars, netVars
  <1>5. ASSUME NEW p \in Peers, P2PAnswer(p) \/ P2PReject(p) \/ NoReply(p) \/ SendtoBlacklisted(p) \/ Expire(p)
        PROVE  LookupsInv'
    <2>1. UNCHANGED <<initialized, session, lookups>>
      BY <1>5 DEF P2PAnswer, P2PReject, NoReply, SendtoBlacklisted, Expire, sessionVars, netVars
    <2>2. UNCHANGED pendingAlias \/ \E A : pendingAlias' = Without(pendingAlias, A)
      BY <1>5 DEF P2PAnswer, P2PReject, NoReply, SendtoBlacklisted, Expire, SetClosed, WithoutPending, pendingVars
    <2> QED BY <1>1, <1>2, <2>1, <2>2
  <1>6. ASSUME NEW p \in Peers, NEW a \in Addrs, P2POffer(a, p) \/ Sendto(a, p) PROVE LookupsInv'
    BY <1>1, <1>6 DEF P2POffer, Sendto, sessionVars
  <1>7. ASSUME NEW a \in Addrs, OnConnect(a) \/ OnChannel(a) \/ OnDisconnect(a) \/ RecvMessage(a) PROVE LookupsInv'
    <2>1. UNCHANGED <<initialized, session, lookups>>
      BY <1>7 DEF OnConnect, OnChannel, OnDisconnect, RecvMessage, sessionVars, netVars
    <2>2. UNCHANGED pendingAlias \/ \E A : pendingAlias' = Without(pendingAlias, A)
      BY <1>7 DEF OnConnect, OnChannel, OnDisconnect, RecvMessage, SetClosed, WithoutPending, pendingVars
    <2> QED BY <1>1, <1>2, <2>1, <2>2
  <1>8. ASSUME NEW a \in Addrs, NEW n \in Names, SendtoAlias(a, n) PROVE LookupsInv'
    <2>1. /\ initialized /\ session = "open" /\ UNCHANGED <<initialized, session>>
          /\ lookups' = [lookups EXCEPT ![n] = @ + 1]
          /\ \A m \in Names \ {n} : pendingAlias'[m] = pendingAlias[m]
      BY <1>8 DEF SendtoAlias, sessionVars, TypeOK
    <2>2. lookups'[n] > 0 /\ \A m \in Names \ {n} : lookups'[m] = lookups[m]
      BY <2>1 DEF TypeOK
    <2> QED BY <2>1, <2>2
  <1>9. ASSUME NEW X, (\E x \in Peers \cup Names : SendtoClosed(x)) \/ (\E a \in Addrs : RecvClosed(a)) \/ Disconnect(X)
        PROVE  LookupsInv'
    <2>1. UNCHANGED <<initialized, session, lookups>>
      BY <1>9 DEF SendtoClosed, RecvClosed, Disconnect, sessionVars, netVars
    <2>2. \E A : pendingAlias' = Without(pendingAlias, A)
      BY <1>9 DEF SendtoClosed, RecvClosed, Disconnect, SetClosed, ConnectionClose, WithoutPending
    <2> QED BY <1>1, <1>2, <2>1, <2>2
  <1>10. ~ Shutdown
    BY DEF Shutdown, NoShutdown
  <1> QED
    BY <1>3, <1>4, <1>5, <1>6, <1>7, <1>8, <1>9, <1>10 DEF Next, Signaling, WebRTC, API

\* However many connections to an alias were begun and closed, and whichever of
\* its lookups are answered late, a connection that waits for the alias has a
\* lookup to come: internal_alias_resolved_to ends each wait with one answer, and
\* internal_alias_create_connection never begins one without a lookup. After a
\* shutdown that left the alias pending it would wait for none.
THEOREM LookupsCorrect == ASSUME NoShutdown PROVE Spec => []LookupsAreInFlight
  <1>1. Init => LookupsInv
    BY ClientAssumption DEF Init, LookupsInv, LookupsAreInFlight
  <1>2. TypeOK /\ SessionsLeft /\ LookupsInv /\ [Next]_vars => (TypeOK /\ SessionsLeft /\ LookupsInv)'
    BY TypeStep, SessionsStep, LookupsStep, NoShutdown
  <1>3. LookupsInv => LookupsAreInFlight
    BY DEF LookupsInv
  <1> QED
    BY <1>1, <1>2, <1>3, InitType, PTL DEF Spec

-----------------------------------------------------------------------------
(* Answers, in a client that uses no aliases *)

NoNames == Names = {}

\* What AnswersInv adds to SurvivingInv.
Answers == LiveArePending /\ OffersInOrder /\ PendingIsLast /\ ConnectedAreAnswered

\* What AnswersInv speaks of is not changed, nor is AnswersInv.
LEMMA AnswersUnchanged ==
    ASSUME AnswersInv, UNCHANGED <<connVars, pendingOut, pendingIn, attempt, attempts, answered, offers>>
    PROVE  Answers'
  BY DEF Answers, AnswersInv, LiveArePending, OffersInOrder, PendingIsLast, ConnectedAreAnswered, Live, connVars

\* What becomes of offers when some of a peer's, or all of them, are replied to.
LEMMA RepliedOffers ==
    ASSUME AnswersInv, UNCHANGED <<attempt, attempts, answered>>,
           \/ UNCHANGED offers
           \/ offers' = [q \in Peers |-> << >>]
           \/ \E p \in Peers : offers[p] # << >> /\ offers' = [offers EXCEPT ![p] = Tail(@)],
           \A p \in Peers : pendingOut'[p] \in {pendingOut[p], NoAddr}
    PROVE  OffersInOrder' /\ PendingIsLast'
  <1>1. ASSUME NEW q \in Peers
        PROVE  /\ \A i \in DOMAIN offers'[q] : \E d \in {0, 1} :
                     /\ i + d \in DOMAIN offers[q] /\ offers'[q][i] = offers[q][i + d]
                     /\ \A j \in DOMAIN offers'[q] : j + d \in DOMAIN offers[q] /\ offers'[q][j] = offers[q][j + d]
               /\ DOMAIN offers'[q] \subseteq Nat
               /\ offers[q] = << >> => offers'[q] = << >>
    <2>0. offers \in [Peers -> Seq(1 .. MaxAttempts)]
      BY DEF AnswersInv, SurvivingInv, TypeOK
    <2>1. CASE UNCHANGED offers
      BY <2>0, <2>1
    <2>2. CASE offers' = [r \in Peers |-> << >>]
      BY <2>2
    <2>3. ASSUME NEW p \in Peers, offers[p] # << >>, offers' = [offers EXCEPT ![p] = Tail(@)]
          PROVE  /\ \A i \in DOMAIN offers'[q] : \E d \in {0, 1} :
                     /\ i + d \in DOMAIN offers[q] /\ offers'[q][i] = offers[q][i + d]
                     /\ \A j \in DOMAIN offers'[q] : j + d \in DOMAIN offers[q] /\ offers'[q][j] = offers[q][j + d]
                 /\ DOMAIN offers'[q] \subseteq Nat
                 /\ offers[q] = << >> => offers'[q] = << >>
      <3>1. CASE q # p
        BY <2>0, <2>3, <3>1
      <3>2. CASE q = p
        <4>1. offers'[q] = Tail(offers[q]) /\ offers[q] \in Seq(1 .. MaxAttempts) /\ offers[q] # << >>
          BY <2>0, <2>3, <3>2
        <4>2. \A j \in DOMAIN offers'[q] : j \in Nat /\ j + 1 \in DOMAIN offers[q] /\ offers'[q][j] = offers[q][j + 1]
          BY <4>1
        <4> QED BY <4>1, <4>2
      <3> QED BY <3>1, <3>2
    <2> QED BY <2>1, <2>2, <2>3
  <1>2. OffersInOrder'
    <2>1. ASSUME NEW q \in Peers, NEW i \in DOMAIN offers'[q] PROVE offers'[q][i] <= attempts
      BY <1>1 DEF AnswersInv, OffersInOrder
    <2>2. ASSUME NEW q \in Peers, NEW i \in DOMAIN offers'[q], NEW j \in DOMAIN offers'[q], i < j
          PROVE  offers'[q][i] < offers'[q][j]
      <3>1. PICK d \in {0, 1} : /\ i + d \in DOMAIN offers[q] /\ offers'[q][i] = offers[q][i + d]
                                /\ j + d \in DOMAIN offers[q] /\ offers'[q][j] = offers[q][j + d]
        BY <1>1
      <3>2. i \in Nat /\ j \in Nat /\ i + d < j + d
        BY <1>1, <2>2
      <3> QED BY <3>1, <3>2 DEF AnswersInv, OffersInOrder
    <2> QED BY <2>1, <2>2 DEF AnswersInv, OffersInOrder
  <1>3. PendingIsLast'
    <2>1. ASSUME NEW q \in Peers, pendingOut'[q] # NoAddr
          PROVE  /\ \A i \in DOMAIN offers'[q] : offers'[q][i] <= attempt[pendingOut'[q]]
                 /\ attempt[pendingOut'[q]] \in answered => offers'[q] = << >>
      <3>1. pendingOut'[q] = pendingOut[q]
        BY <2>1
      <3> QED BY <1>1, <2>1, <3>1 DEF AnswersInv, PendingIsLast
    <2> QED BY <2>1 DEF AnswersInv, PendingIsLast
  <1> QED
    BY <1>2, <1>3

\* Closing connections takes them out of the pending tables, and connects none.
LEMMA SetClosedAnswers ==
    ASSUME AnswersInv, NEW A \in SUBSET Addrs, NEW P, SetClosed(A, P), UNCHANGED <<attempt, answered>>
    PROVE  LiveArePending' /\ ConnectedAreAnswered' /\ \A p \in Peers : pendingOut'[p] \in {pendingOut[p], NoAddr}
  BY DEF AnswersInv, LiveArePending, ConnectedAreAnswered, SetClosed, WithoutPending, Without, Live, SurvivingInv, TypeOK

\* Deleting connections keeps AnswersInv, also when no offer waits any longer.
LEMMA ConnectionCloseAnswers ==
    ASSUME AnswersInv, NEW A \in SUBSET Addrs, ConnectionClose(A), UNCHANGED <<attempts, answered>>,
           UNCHANGED offers \/ offers' = [q \in Peers |-> << >>]
    PROVE  Answers'
  <1>1. LiveArePending'
    BY DEF AnswersInv, LiveArePending, ConnectionClose, WithoutPending, Without, Live, SurvivingInv, TypeOK
  <1>2. ConnectedAreAnswered'
    BY DEF AnswersInv, ConnectedAreAnswered, ConnectionClose, SurvivingInv, TypeOK
  <1>3. \A p \in Peers : \A i \in DOMAIN offers'[p] : i \in DOMAIN offers[p] /\ offers'[p][i] = offers[p][i]
    <2>1. CASE UNCHANGED offers
      BY <2>1
    <2>2. CASE offers' = [q \in Peers |-> << >>]
      BY <2>2
    <2> QED BY <2>1, <2>2
  <1>4. OffersInOrder'
    <2>1. \A a \in Addrs : attempt'[a] <= attempts
      BY ClientAssumption DEF AnswersInv, OffersInOrder, ConnectionClose, SurvivingInv, TypeOK
    <2> QED BY <1>3, <2>1 DEF AnswersInv, OffersInOrder
  <1>5. \A p \in Peers : pendingOut'[p] # NoAddr =>
            pendingOut'[p] = pendingOut[p] /\ attempt'[pendingOut[p]] = attempt[pendingOut[p]]
    BY DEF AnswersInv, ConnectionClose, WithoutPending, Without, SurvivingInv, TypeOK, AddrOrNone
  <1>6. \A p \in Peers : offers[p] = << >> => offers'[p] = << >>
    OBVIOUS
  <1>7. PendingIsLast'
    BY <1>3, <1>5, <1>6 DEF AnswersInv, PendingIsLast
  <1> QED
    BY <1>1, <1>2, <1>4, <1>7 DEF Answers

\* One more offer, from a connection that becomes its peer's pending one.
LEMMA SendtoAnswers ==
    ASSUME AnswersInv, NEW p \in Peers, NEW a \in Addrs, Sendto(a, p)
    PROVE  Answers'
  <1> USE ClientAssumption
  <1>0. /\ status[a] = "FREE" /\ status' = [status EXCEPT ![a] = "CONNECTING"]
        /\ inOrOut' = [inOrOut EXCEPT ![a] = "Outgoing"]
        /\ otherPeer' = [otherPeer EXCEPT ![a] = p]
        /\ pendingOut[p] = NoAddr /\ pendingOut' = [pendingOut EXCEPT ![p] = a]
        /\ attempts' = attempts + 1
        /\ attempt' = [attempt EXCEPT ![a] = attempts + 1]
        /\ offers' = [offers EXCEPT ![p] = Append(@, attempts + 1)]
        /\ UNCHANGED <<tracked, pendingIn, answered>>
    BY DEF Sendto, New, SendOffer, CanTry
  <1>1. attempts \in Nat /\ offers \in [Peers -> Seq(1 .. MaxAttempts)] /\ attempt \in [Addrs -> 0 .. MaxAttempts]
    BY DEF AnswersInv, SurvivingInv, TypeOK
  <1>2. \A q \in Peers : pendingOut[q] # NoAddr => pendingOut[q] # a /\ pendingOut[q] \in Addrs
    BY <1>0, PendingAreLive DEF AnswersInv
  <1>3. LiveArePending'
    BY <1>0 DEF AnswersInv, LiveArePending, Live, SurvivingInv, TypeOK
  <1>4. ConnectedAreAnswered'
    BY <1>0 DEF AnswersInv, ConnectedAreAnswered, SurvivingInv, SocketsAndCloses, Live, TypeOK
  <1>5. \A q \in Peers : q # p => offers'[q] = offers[q]
    BY <1>0, <1>1
  <1>6. \A i \in DOMAIN offers'[p] : \/ i \in DOMAIN offers[p] /\ offers'[p][i] = offers[p][i]
                                     \/ i = Len(offers[p]) + 1 /\ offers'[p][i] = attempts + 1
    BY <1>0, <1>1
  <1>7. \A q \in Peers : \A i \in DOMAIN offers[q] :
            offers[q][i] \in 1 .. MaxAttempts /\ offers[q][i] <= attempts /\ i \in 1 .. Len(offers[q])
    BY <1>1 DEF AnswersInv, OffersInOrder
  <1>8. OffersInOrder'
    <2>1. answered' \subseteq 1 .. attempts'
      BY <1>0, <1>1 DEF AnswersInv, OffersInOrder
    <2>2. \A b \in Addrs : attempt'[b] <= attempts'
      BY <1>0, <1>1 DEF AnswersInv, OffersInOrder
    <2>3. ASSUME NEW q \in Peers, NEW i \in DOMAIN offers'[q] PROVE offers'[q][i] <= attempts'
      BY <1>0, <1>1, <1>5, <1>6, <1>7
    <2>4. ASSUME NEW q \in Peers, NEW i \in DOMAIN offers'[q], NEW j \in DOMAIN offers'[q], i < j
          PROVE  offers'[q][i] < offers'[q][j]
      <3>1. CASE q # p
        BY <1>5, <2>4, <3>1 DEF AnswersInv, OffersInOrder
      <3>2. CASE q = p
        <4>1. Len(offers[p]) \in Nat
          BY <1>1
        <4>2. i \in DOMAIN offers[p] /\ offers'[p][i] = offers[p][i]
          BY <1>6, <1>7, <2>4, <3>2, <4>1
        <4>3. CASE j \in DOMAIN offers[p] /\ offers'[p][j] = offers[p][j]
          BY <2>4, <3>2, <4>2, <4>3 DEF AnswersInv, OffersInOrder
        <4>4. CASE offers'[p][j] = attempts + 1
          BY <1>1, <1>7, <3>2, <4>2, <4>4
        <4> QED BY <1>6, <3>2, <4>3, <4>4
      <3> QED BY <3>1, <3>2
    <2> QED BY <2>1, <2>2, <2>3, <2>4 DEF OffersInOrder
  <1>9. PendingIsLast'
    <2>1. pendingOut'[p] = a /\ attempt'[a] = attempts + 1
      BY <1>0, <1>1 DEF AnswersInv, SurvivingInv, TypeOK
    <2>2. \A q \in Peers : q # p /\ pendingOut'[q] # NoAddr =>
              /\ pendingOut'[q] = pendingOut[q] /\ attempt'[pendingOut[q]] = attempt[pendingOut[q]]
              /\ attempt[pendingOut[q]] # attempts + 1
      BY <1>0, <1>1, <1>2 DEF AnswersInv, OffersInOrder, SurvivingInv, TypeOK
    <2>3. \A i \in DOMAIN offers'[p] : offers'[p][i] <= attempts + 1
      <3> SUFFICES ASSUME NEW i \in DOMAIN offers'[p] PROVE offers'[p][i] <= attempts + 1
        OBVIOUS
      <3>1. CASE i \in DOMAIN offers[p] /\ offers'[p][i] = offers[p][i]
        BY <1>1, <1>7, <3>1
      <3>2. CASE offers'[p][i] = attempts + 1
        BY <1>1, <3>2
      <3> QED BY <1>6, <3>1, <3>2
    <2>4. attempts + 1 \notin answered
      BY <1>1 DEF AnswersInv, OffersInOrder
    <2>5. ASSUME NEW q \in Peers, NEW r \in Peers, pendingOut'[q] # NoAddr, pendingOut'[r] # NoAddr,
                 attempt'[pendingOut'[q]] = attempt'[pendingOut'[r]]
          PROVE  q = r
      BY <2>1, <2>2, <2>5 DEF AnswersInv, PendingIsLast
    <2>6. ASSUME NEW q \in Peers, pendingOut'[q] # NoAddr
          PROVE  /\ \A i \in DOMAIN offers'[q] : offers'[q][i] <= attempt'[pendingOut'[q]]
                 /\ attempt'[pendingOut'[q]] \in answered' => offers'[q] = << >>
      <3>1. CASE q = p
        BY <1>0, <2>1, <2>3, <2>4, <3>1
      <3>2. CASE q # p
        BY <1>0, <1>5, <2>2, <2>6, <3>2 DEF AnswersInv, PendingIsLast
      <3> QED BY <3>1, <3>2
    <2> QED BY <2>5, <2>6 DEF PendingIsLast
  <1> QED
    BY <1>3, <1>4, <1>8, <1>9 DEF Answers

\* An answer that reaches the connection whose offer it answers: no offer to
\* that peer waits any more.
LEMMA P2PAnswerAnswers ==
    ASSUME AnswersInv, NEW p \in Peers, P2PAnswer(p), UNCHANGED <<connVars, pendingVars>>,
           pendingOut[p] # NoAddr, attempt[pendingOut[p]] = Head(offers[p]),
           answered' = answered \cup {attempt[pendingOut[p]]}
    PROVE  Answers'
  <1> USE ClientAssumption
  <1>0. /\ offers[p] # << >> /\ offers' = [offers EXCEPT ![p] = Tail(@)]
        /\ UNCHANGED <<attempt, attempts, status, inOrOut, otherPeer, tracked, pendingOut, pendingIn>>
    BY DEF P2PAnswer, connVars, pendingVars
  <1>1. offers \in [Peers -> Seq(1 .. MaxAttempts)] /\ attempts \in Nat /\ offers[p] \in Seq(1 .. MaxAttempts)
    BY DEF AnswersInv, SurvivingInv, TypeOK
  <1>2. LiveArePending' /\ ConnectedAreAnswered'
    BY <1>0 DEF AnswersInv, LiveArePending, ConnectedAreAnswered, Live
  <1>3. offers'[p] = << >>
    <2>1. CASE Len(offers[p]) = 1
      BY <1>0, <1>1, <2>1
    <2>2. CASE Len(offers[p]) > 1
      <3>1. 1 \in DOMAIN offers[p] /\ 2 \in DOMAIN offers[p] /\ Head(offers[p]) = offers[p][1]
        BY <1>1, <2>2
      <3>2. offers[p][1] < offers[p][2] /\ offers[p][2] <= Head(offers[p])
        BY <3>1 DEF AnswersInv, OffersInOrder, PendingIsLast
      <3>3. offers[p][1] \in Nat /\ offers[p][2] \in Nat
        BY <1>1, <3>1
      <3> QED BY <3>1, <3>2, <3>3
    <2> QED BY <1>0, <1>1, <2>1, <2>2
  <1>4. \A q \in Peers : q # p => offers'[q] = offers[q]
    BY <1>0, <1>1
  <1>5. Head(offers[p]) \in 1 .. attempts
    BY <1>0, <1>1 DEF AnswersInv, OffersInOrder
  <1>6. OffersInOrder'
    <2>1. answered' \subseteq 1 .. attempts' /\ \A a \in Addrs : attempt'[a] <= attempts'
      BY <1>0, <1>5 DEF AnswersInv, OffersInOrder
    <2>2. ASSUME NEW q \in Peers
          PROVE  /\ \A i \in DOMAIN offers'[q] : offers'[q][i] <= attempts'
                 /\ \A i, j \in DOMAIN offers'[q] : i < j => offers'[q][i] < offers'[q][j]
      <3>1. CASE q = p
        BY <1>3, <3>1
      <3>2. CASE q # p
        BY <1>0, <1>4, <3>2 DEF AnswersInv, OffersInOrder
      <3> QED BY <3>1, <3>2
    <2> QED BY <2>1, <2>2 DEF OffersInOrder
  <1>7. PendingIsLast'
    BY <1>0, <1>3, <1>4 DEF AnswersInv, PendingIsLast
  <1> QED
    BY <1>2, <1>6, <1>7 DEF Answers

\* Without aliases, every call, a shutdown included, and every callback keeps AnswersInv.
LEMMA AnswersStep ==
    ASSUME AnswersInv, NoNames, [Next]_vars
    PROVE  Answers'
  <1>1. CASE \/ UNCHANGED vars \/ P2PInit \/ SignalConnected \/ HelloClient
             \/ \E p \in Peers : SendtoBlacklisted(p) \/ Expire(p)
             \/ \E a \in Addrs : RecvMessage(a)
    <2>1. UNCHANGED <<connVars, pendingOut, pendingIn, attempt, attempts, answered, offers>>
      BY <1>1 DEF vars, P2PInit, SignalConnected, HelloClient, SendtoBlacklisted, Expire, RecvMessage,
                  pendingVars, netVars
    <2> QED BY <2>1, AnswersUnchanged
  <1>2. ASSUME UNCHANGED <<connVars, pendingVars, attempt, attempts, answered>>,
               \/ UNCHANGED offers
               \/ offers' = [q \in Peers |-> << >>]
               \/ \E p \in Peers : offers[p] # << >> /\ offers' = [offers EXCEPT ![p] = Tail(@)]
        PROVE Answers'
    <2>1. OffersInOrder' /\ PendingIsLast'
      BY <1>2, RepliedOffers DEF pendingVars
    <2> QED BY <1>2, <2>1 DEF Answers, AnswersInv, LiveArePending, ConnectedAreAnswered, Live, connVars, pendingVars
  <1>3. ASSUME NEW A \in SUBSET Addrs, NEW P, SetClosed(A, P), UNCHANGED <<attempt, attempts, answered>>,
               \/ UNCHANGED offers
               \/ \E p \in Peers : offers[p] # << >> /\ offers' = [offers EXCEPT ![p] = Tail(@)]
        PROVE Answers'
    <2>1. LiveArePending' /\ ConnectedAreAnswered' /\ \A p \in Peers : pendingOut'[p] \in {pendingOut[p], NoAddr}
      BY <1>3, SetClosedAnswers
    <2>2. OffersInOrder' /\ PendingIsLast'
      BY <1>3, <2>1, RepliedOffers
    <2> QED BY <2>1, <2>2 DEF Answers
  <1>4. ASSUME NEW p \in Peers, pendingOut[p] # NoAddr PROVE {pendingOut[p]} \in SUBSET Addrs
    BY <1>4 DEF AnswersInv, SurvivingInv, TypeOK, AddrOrNone
  <1>5. CASE SignalLost
    BY <1>2, <1>5 DEF SignalLost, NoMessages
  <1>6. ASSUME NEW p \in Peers, P2PAnswer(p) PROVE Answers'
    <2>1. CASE pendingOut[p] # NoAddr /\ SetClosed({pendingOut[p]}, {}) /\ UNCHANGED answered
      BY <1>3, <1>4, <1>6, <2>1 DEF P2PAnswer
    <2>2. CASE UNCHANGED <<connVars, pendingVars>> /\ UNCHANGED answered
      BY <1>2, <1>6, <2>2 DEF P2PAnswer
    <2>3. CASE /\ UNCHANGED <<connVars, pendingVars>>
               /\ pendingOut[p] # NoAddr /\ attempt[pendingOut[p]] = Head(offers[p])
               /\ answered' = answered \cup {attempt[pendingOut[p]]}
      BY <1>6, <2>3, P2PAnswerAnswers
    <2> QED BY <1>6, <2>1, <2>2, <2>3 DEF P2PAnswer
  <1>7. ASSUME NEW p \in Peers, P2PReject(p) PROVE Answers'
    <2>1. CASE pendingOut[p] # NoAddr /\ SetClosed({pendingOut[p]}, {p})
      BY <1>3, <1>4, <1>7, <2>1 DEF P2PReject
    <2>2. CASE UNCHANGED <<connVars, pendingVars>>
      BY <1>2, <1>7, <2>2 DEF P2PReject
    <2> QED BY <1>7, <2>1, <2>2 DEF P2PReject
  <1>8. ASSUME NEW p \in Peers, NoReply(p) PROVE Answers'
    BY <1>2, <1>8 DEF NoReply
  <1>9. ASSUME NEW p \in Peers, NEW a \in Addrs, P2POffer(a, p) PROVE Answers'
    <2>1. CASE UNCHANGED <<connVars, pendingOut, pendingIn>>
      BY <1>9, <2>1, AnswersUnchanged DEF P2POffer
    <2>2. CASE New(a, p, "Incoming", "CONNECTING")
      <3>1. /\ pendingIn[p] = NoAddr /\ pendingIn' = [pendingIn EXCEPT ![p] = a]
            /\ UNCHANGED <<tracked, pendingOut, attempt, attempts, answered, offers>>
        BY <1>9, <2>2 DEF P2POffer, New, connVars, AnswersInv, SurvivingInv, TypeOK
      <3>2. LiveArePending'
        BY <2>2, <3>1, ClientAssumption DEF New, AnswersInv, LiveArePending, Live, SurvivingInv, TypeOK
      <3>3. ConnectedAreAnswered'
        BY <2>2, <3>1 DEF New, AnswersInv, ConnectedAreAnswered, SurvivingInv, TypeOK
      <3>4. OffersInOrder' /\ PendingIsLast'
        BY <3>1 DEF AnswersInv, OffersInOrder, PendingIsLast
      <3> QED BY <3>2, <3>3, <3>4 DEF Answers
    <2> QED BY <1>9, <2>1, <2>2 DEF P2POffer
  <1>10. ASSUME NEW a \in Addrs, OnConnect(a) \/ OnChannel(a) PROVE Answers'
    <2>1. UNCHANGED <<inOrOut, otherPeer, pendingOut, pendingIn, attempt, attempts, answered, offers>>
      BY <1>10 DEF OnConnect, OnChannel, pendingVars, netVars
    <2>2. LiveArePending' /\ ConnectedAreAnswered'
      BY <1>10, <2>1 DEF OnConnect, OnChannel, AnswersInv, LiveArePending, ConnectedAreAnswered, Live, SurvivingInv, TypeOK
    <2>3. OffersInOrder' /\ PendingIsLast'
      BY <2>1 DEF AnswersInv, OffersInOrder, PendingIsLast
    <2> QED BY <2>2, <2>3 DEF Answers
  <1>11. ASSUME NEW a \in Addrs, OnDisconnect(a) PROVE Answers'
    <2>1. {a} \in SUBSET Addrs
      OBVIOUS
    <2> QED BY <1>3, <1>11, <2>1 DEF OnDisconnect, netVars
  <1>12. ASSUME NEW p \in Peers, NEW a \in Addrs, Sendto(a, p) PROVE Answers'
    BY <1>12, SendtoAnswers
  <1>13. ASSUME NEW x \in Peers \cup Names, SendtoClosed(x) PROVE Answers'
    <2>1. {p2pconnections[x]} \in SUBSET Addrs
      BY <1>13 DEF SendtoClosed, AnswersInv, SurvivingInv, TypeOK, AddrOrNone
    <2> QED BY <1>13, <2>1, ConnectionCloseAnswers DEF SendtoClosed
  <1>14. ASSUME NEW a \in Addrs, RecvClosed(a) PROVE Answers'
    <2>1. {a} \in SUBSET Addrs
      OBVIOUS
    <2> QED BY <1>14, <2>1, ConnectionCloseAnswers DEF RecvClosed
  <1>15. ASSUME NEW X \in SUBSET (Peers \cup Names), Disconnect(X) PROVE Answers'
    <2>1. {p2pconnections[x] : x \in X} \ {NoAddr} \in SUBSET Addrs
      BY DEF AnswersInv, SurvivingInv, TypeOK, AddrOrNone
    <2> QED BY <1>3, <1>15, <2>1 DEF Disconnect, netVars
  <1>16. CASE Shutdown
    <2>1. tracked \in SUBSET Addrs
      BY DEF AnswersInv, SurvivingInv, TypeOK
    <2> QED BY <1>16, <2>1, ConnectionCloseAnswers DEF Shutdown, NoMessages
  <1>17. \A n \in Names : FALSE
    BY DEF NoNames
  <1> QED
    BY <1>1, <1>5, <1>6, <1>7, <1>8, <1>9, <1>10, <1>11, <1>12, <1>13, <1>14, <1>15, <1>16, <1>17
    DEF Next, Signaling, WebRTC, API

\* Without aliases AnswersInv holds.
LEMMA AnswersInvariant == ASSUME NoNames PROVE Spec => []AnswersInv
  <1>1. Init => Answers
    BY ClientAssumption
    DEF Init, Answers, LiveArePending, OffersInOrder, PendingIsLast, ConnectedAreAnswered, Live
  <1>2. SurvivingInv /\ Answers /\ [Next]_vars => Answers'
    BY AnswersStep, NoNames DEF AnswersInv, Answers
  <1>3. SurvivingInv /\ Answers => AnswersInv
    BY DEF AnswersInv, Answers
  <1> QED
    BY <1>1, <1>2, <1>3, SurvivingInvariant, PTL DEF Spec

\* A client that uses no aliases has at most one live connection to a peer each
\* way, whatever crosses on the way: can_try_peer and the test of
\* pendingPeerConnectionsIn in the P2POffer handler are enough.
THEOREM OneEachWay == ASSUME NoNames PROVE Spec => []OneConnectionEachWay
  <1>1. AnswersInv => OneConnectionEachWay
    BY DEF AnswersInv, LiveArePending, OneConnectionEachWay, SurvivingInv, TypeOK
  <1> QED
    BY <1>1, AnswersInvariant, NoNames, PTL

\* The assertion of the P2PAnswer handler holds in a client that uses no
\* aliases, although answers carry no request id and may come late: offers to a
\* peer are answered in order, so one that is answered while the pending
\* connection is established would be an earlier one, and none of those waits.
THEOREM AnswersCorrect == ASSUME NoNames PROVE Spec => AnswersFindConnecting
  <1>1. ASSUME AnswersInv, NEW p \in Peers, P2PAnswer(p), pendingOut[p] # NoAddr
        PROVE  status[pendingOut[p]] = "CONNECTING"
    <2>1. pendingOut[p] \in Addrs /\ Live(pendingOut[p]) /\ inOrOut[pendingOut[p]] = "Outgoing"
      BY <1>1 DEF AnswersInv, SurvivingInv, PendingOutgoing, TypeOK, AddrOrNone
    <2>2. attempt[pendingOut[p]] \notin answered
      BY <1>1 DEF P2PAnswer, AnswersInv, PendingIsLast
    <2>3. status[pendingOut[p]] # "CONNECTED"
      BY <1>1, <2>1, <2>2 DEF AnswersInv, ConnectedAreAnswered
    <2> QED BY <2>1, <2>3 DEF Live
  <1>2. AnswersInv => (\A p \in Peers : P2PAnswer(p) /\ pendingOut[p] # NoAddr => status[pendingOut[p]] = "CONNECTING")
    BY <1>1
  <1> QED
    BY <1>2, AnswersInvariant, NoNames, PTL DEF AnswersFindConnecting
=============================================================================
