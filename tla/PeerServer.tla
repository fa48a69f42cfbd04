----------------------------- MODULE PeerServer -----------------------------
(***************************************************************************)
(* The signaling server: the connections it has accepted, the games with   *)
(* their registered peers and aliases, and every message handler of        *)
(* P2PSignalConnection::processMsg, run by the libwebsockets callback      *)
(* callback_humblepeer on one thread.                                      *)
(*                                                                         *)
(* A member of Conns is the heap address of a P2PSignalConnection (and of  *)
(* the libwebsocket it belongs to).  Addresses are reused: a connection    *)
(* that is destroyed frees its address for the next one, and the raw       *)
(* pointers other connections keep in connectedPeers are not cleared.      *)
(*                                                                         *)
(* Not modelled here: the bytes of a frame (a message is one unit of the   *)
(* send buffer), trickleICE and url, which no handler reads, and the       *)
(* moment a Game object is created, since an absent game and an empty one  *)
(* behave alike.                                                           *)
(***************************************************************************)
EXTENDS GameAuth, FiniteSets

CONSTANTS
    Conns,      \* addresses of P2PSignalConnection objects
    NoConn,     \* no entry in game->peers
    Names,      \* alias names
    NoName,     \* no alias
    Hellos,     \* the HelloServer messages clients may send
    Targets,    \* the peer ids clients address messages to
    IdModulus,  \* PeerId is uint32_t: 2^32 in the program
    MaxIds,     \* bound: a game registers no peer once its next id passes MaxIds
    MaxQueued   \* bound: messages waiting in all the send buffers together

PeerIds == 0 .. IdModulus - 1

ASSUME PeerServerAssumption ==
    /\ NoConn \notin Conns
    /\ NoName \notin Names
    /\ IdModulus \in Nat /\ IdModulus > 1
    /\ Targets \subseteq PeerIds
    /\ MaxIds \in Nat
    /\ MaxQueued \in Nat

\* No run of the program hands out 2^32 - 1 ids.
NoWrap == MaxIds + 1 < IdModulus

ForwardedTypes == {"P2POffer", "P2PAnswer", "ICECandidate", "PeerRefused", "P2PRelayData"}
MessageTypes   == ForwardedTypes \cup {"HelloClient", "NoSuchPeer", "AliasResolved"}

\* A message to a client.  peerId is the originator of a forwarded message,
\* the peer a refusal is about, the receiver's own id (HelloClient), or the
\* peer an alias resolves to (AliasResolved; 0 when nobody owns it).
Message == [type : MessageTypes, peerId : PeerIds, alias : Names \cup {NoName}]
Msg(type, id) == [type |-> type, peerId |-> id, alias |-> NoName]

VARIABLES
    signalConnections,  \* the addresses of the connections that exist
    peerId,             \* conn.peerId, 0 until HelloServer is accepted
    game,               \* conn.game
    webRTCsupport,      \* the connections whose webRTCsupport is set
    connectedPeers,     \* conn.connectedPeers, raw pointers
    sendBuf,            \* conn.sendBuf
    wantWrite,          \* the connections with a writable callback requested
    nextPeerId,         \* game.nextPeerId
    peers,              \* game.peers
    aliases             \* game.aliases, 0 for an unregistered name

connVars == <<signalConnections, peerId, game, webRTCsupport, connectedPeers>>
bufVars  == <<sendBuf, wantWrite>>
gameVars == <<nextPeerId, peers, aliases>>
vars     == <<connVars, bufVars, gameVars>>

TypeOK ==
    /\ signalConnections \subseteq Conns
    /\ peerId \in [Conns -> PeerIds]
    /\ game \in [Conns -> Games \cup {NoGame}]
    /\ webRTCsupport \subseteq Conns
    /\ connectedPeers \in [Conns -> SUBSET Conns]
    /\ sendBuf \in [Conns -> Seq(Message)]
    /\ wantWrite \subseteq Conns
    /\ nextPeerId \in [Games -> PeerIds]
    /\ peers \in [Games -> [PeerIds -> Conns \cup {NoConn}]]
    /\ aliases \in [Games -> [Names -> PeerIds]]

Init ==
    /\ signalConnections = {}
    /\ peerId = [c \in Conns |-> 0]
    /\ game = [c \in Conns |-> NoGame]
    /\ webRTCsupport = {}
    /\ connectedPeers = [c \in Conns |-> {}]
    /\ sendBuf = [c \in Conns |-> << >>]
    /\ wantWrite = {}
    /\ nextPeerId = [g \in Games |-> 1]
    /\ peers = [g \in Games |-> [i \in PeerIds |-> NoConn]]
    /\ aliases = [g \in Games |-> [n \in Names |-> 0]]

-----------------------------------------------------------------------------
(* Helpers of the handlers *)

Registered(c) == c \in signalConnections /\ peerId[c] # 0

\* Mutant: the peer is looked up in any game that has the id.
PeerOfAnyGame(c, peer) ==
    LET with == {g \in Games : peers[g][peer] # NoConn}
    IN  IF with = {} THEN NoConn ELSE peers[CHOOSE g \in with : TRUE][peer]

\* game->peers.find(peer)
PeerOf(c, peer) == peers[game[c]][peer]

Queued == UNION {{c} \X DOMAIN sendBuf[c] : c \in Conns}

\* P2PSignalConnection::sendMessage: a writable callback is requested only
\* when the buffer was empty.
SendMessage(c, msg) ==
    /\ Cardinality(Queued) < MaxQueued
    /\ sendBuf' = [sendBuf EXCEPT ![c] = Append(@, msg)]
    /\ wantWrite' = IF sendBuf[c] = << >> THEN wantWrite \cup {c} ELSE wantWrite

\* Mutant: only one of the peer's aliases is erased.
WithoutFirstAliasOf(table, id) ==
    LET owned == {n \in Names : table[n] = id}
    IN  IF owned = {} THEN table ELSE [table EXCEPT ![CHOOSE n \in owned : TRUE] = 0]

\* Game::erasePeerAliases and erase_value
WithoutAliasesOf(table, id) == [n \in Names |-> IF table[n] = id THEN 0 ELSE table[n]]

\* LWS_CALLBACK_CLOSED: unlists the peer, erases its aliases and destroys the
\* connection object.
Closed(c) ==
    /\ signalConnections' = signalConnections \ {c}
    /\ IF peerId[c] # 0
       THEN /\ peers' = [peers EXCEPT ![game[c]][peerId[c]] = NoConn]
            /\ aliases' = [aliases EXCEPT ![game[c]] = WithoutAliasesOf(@, peerId[c])]
       ELSE UNCHANGED <<peers, aliases>>
    /\ peerId' = [peerId EXCEPT ![c] = 0]
    /\ game' = [game EXCEPT ![c] = NoGame]
    /\ webRTCsupport' = webRTCsupport \ {c}
    /\ connectedPeers' = [connectedPeers EXCEPT ![c] = {}]
    /\ sendBuf' = [sendBuf EXCEPT ![c] = << >>]
    /\ wantWrite' = wantWrite \ {c}
    /\ UNCHANGED nextPeerId

-----------------------------------------------------------------------------
(* The libwebsockets callback *)

\* LWS_CALLBACK_ESTABLISHED, at an address no live connection has.
Established(c) ==
    /\ c \notin signalConnections
    /\ signalConnections' = signalConnections \cup {c}
    /\ UNCHANGED <<peerId, game, webRTCsupport, connectedPeers, bufVars, gameVars>>

\* The client goes away, a frame fails its checks or a write fails.
Disconnected(c) ==
    /\ c \in signalConnections
    /\ Closed(c)

\* Mutant: after a partial write no further callback is requested.
WriteableOnce(c) ==
    /\ c \in wantWrite
    /\ \E written \in 0 .. Len(sendBuf[c]) :
           sendBuf' = [sendBuf EXCEPT ![c] = SubSeq(@, written + 1, Len(@))]
    /\ wantWrite' = wantWrite \ {c}
    /\ UNCHANGED <<connVars, gameVars>>

\* LWS_CALLBACK_SERVER_WRITEABLE: writes all of the buffer or a part of it,
\* and asks for another callback when something is left.
Writeable(c) ==
    /\ c \in wantWrite
    /\ \E written \in 0 .. Len(sendBuf[c]) :
           /\ sendBuf' = [sendBuf EXCEPT ![c] = SubSeq(@, written + 1, Len(@))]
           /\ wantWrite' = IF written < Len(sendBuf[c]) THEN wantWrite ELSE wantWrite \ {c}
    /\ UNCHANGED <<connVars, gameVars>>

-----------------------------------------------------------------------------
(* P2PSignalConnection::processMsg, one action per message type *)

\* Anything but HelloServer from a peer that has no id: the handler returns
\* false and the connection is closed.
NotAuthenticated(c) ==
    /\ c \in signalConnections
    /\ peerId[c] = 0
    /\ Closed(c)

HelloRejected(c, hello) ==
    /\ GetVerifiedGame(hello) = NoGame
    /\ Closed(c)

\* Mutant: ids count the peers of the game, so that a departed peer's id is
\* given out again.
HelloAcceptedByCount(c, hello) ==
    LET g  == GetVerifiedGame(hello)
        id == 1 + Cardinality({i \in PeerIds : peers[g][i] # NoConn})
    IN  /\ g # NoGame
        /\ id <= MaxIds
        /\ nextPeerId' = [nextPeerId EXCEPT ![g] = (id + 1) % IdModulus]
        /\ peerId' = [peerId EXCEPT ![c] = id]
        /\ game' = [game EXCEPT ![c] = g]
        /\ peers' = IF peers[g][id] = NoConn THEN [peers EXCEPT ![g][id] = c] ELSE peers
        /\ webRTCsupport' = webRTCsupport \cup {c}
        /\ SendMessage(c, Msg("HelloClient", id))
        /\ UNCHANGED <<signalConnections, connectedPeers, aliases>>

HelloAccepted(c, hello) ==
    LET g  == GetVerifiedGame(hello)
        id == nextPeerId[g]
    IN  /\ g # NoGame
        /\ id <= MaxIds
        /\ nextPeerId' = [nextPeerId EXCEPT ![g] = (id + 1) % IdModulus]
        /\ peerId' = [peerId EXCEPT ![c] = id]
        /\ game' = [game EXCEPT ![c] = g]
        \* insert leaves an entry that is already there
        /\ peers' = IF peers[g][id] = NoConn THEN [peers EXCEPT ![g][id] = c] ELSE peers
        /\ webRTCsupport' = webRTCsupport \cup {c}
        /\ SendMessage(c, Msg("HelloClient", id))
        /\ UNCHANGED <<signalConnections, connectedPeers, aliases>>

HelloServer(c, hello) ==
    /\ c \in signalConnections
    /\ IF peerId[c] # 0 \/ ~hello.webRTC
       THEN UNCHANGED vars
       ELSE HelloRejected(c, hello) \/ HelloAccepted(c, hello)

\* The target is told who the originator is; a target that is not in the
\* game is answered with a P2PReject.
Forward(c, to, type) ==
    LET other == PeerOf(c, to)
    IN  IF other = NoConn
        THEN SendMessage(c, Msg("NoSuchPeer", to))
        ELSE SendMessage(other, Msg(type, peerId[c]))

\* Mutant: the target is entered in connectedPeers before it is checked.
P2POfferUnchecked(c, to, emulated) ==
    LET other == PeerOf(c, to)
    IN  /\ Registered(c)
        /\ connectedPeers' = [connectedPeers EXCEPT ![c] = @ \cup {other}]
        /\ IF emulated \/ other = NoConn
           THEN SendMessage(c, Msg("NoSuchPeer", to))
           ELSE SendMessage(other, Msg("P2POffer", peerId[c]))
        /\ UNCHANGED <<signalConnections, peerId, game, webRTCsupport, gameVars>>

P2POffer(c, to, emulated) ==
    LET other == PeerOf(c, to)
    IN  /\ Registered(c)
        /\ IF emulated \/ other = NoConn
           THEN /\ SendMessage(c, Msg("NoSuchPeer", to))
                /\ UNCHANGED connectedPeers
           ELSE IF other \notin webRTCsupport
           THEN /\ SendMessage(c, Msg("PeerRefused", to))
                /\ UNCHANGED connectedPeers
           ELSE /\ connectedPeers' = [connectedPeers EXCEPT ![c] = @ \cup {other}]
                /\ SendMessage(other, Msg("P2POffer", peerId[c]))
        /\ UNCHANGED <<signalConnections, peerId, game, webRTCsupport, gameVars>>

\* Mutant: the answer is passed on without looking for the offer.
P2PAnswerUnrequested(c, to) ==
    LET other == PeerOf(c, to)
    IN  /\ Registered(c)
        /\ IF other # NoConn
           THEN /\ connectedPeers' = [connectedPeers EXCEPT ![c] = @ \cup {other}]
                /\ SendMessage(other, Msg("P2PAnswer", peerId[c]))
           ELSE /\ SendMessage(c, Msg("NoSuchPeer", to))
                /\ UNCHANGED connectedPeers
        /\ UNCHANGED <<signalConnections, peerId, game, webRTCsupport, gameVars>>

P2PAnswer(c, to) ==
    LET other     == PeerOf(c, to)
        requested == other # NoConn /\ c \in connectedPeers[other]
    IN  /\ Registered(c)
        /\ IF requested
           THEN /\ connectedPeers' = [connectedPeers EXCEPT ![c] = @ \cup {other}]
                /\ SendMessage(other, Msg("P2PAnswer", peerId[c]))
           ELSE /\ SendMessage(c, Msg("NoSuchPeer", to))
                /\ UNCHANGED connectedPeers
        /\ UNCHANGED <<signalConnections, peerId, game, webRTCsupport, gameVars>>

ICECandidate(c, to) ==
    /\ Registered(c)
    /\ Forward(c, to, "ICECandidate")
    /\ UNCHANGED <<connVars, gameVars>>

P2PRelayData(c, to) ==
    /\ Registered(c)
    /\ Forward(c, to, "P2PRelayData")
    /\ UNCHANGED <<connVars, gameVars>>

\* Both reasons reach the target as a refusal by the sender; a reject to an
\* absent peer is only logged.
P2PReject(c, to) ==
    /\ Registered(c)
    /\ IF PeerOf(c, to) = NoConn
       THEN UNCHANGED bufVars
       ELSE SendMessage(PeerOf(c, to), Msg("PeerRefused", peerId[c]))
    /\ UNCHANGED <<connVars, gameVars>>

\* HelloClient, P2PConnected and P2PDisconnect are only logged.
LoggedOnly(c) ==
    /\ Registered(c)
    /\ UNCHANGED vars

\* Mutant: a registration replaces the alias's owner.
AliasRegisterAnyway(c, name) ==
    /\ Registered(c)
    /\ aliases' = [aliases EXCEPT ![game[c]][name] = peerId[c]]
    /\ UNCHANGED <<connVars, bufVars, nextPeerId, peers>>

AliasRegister(c, name) ==
    /\ Registered(c)
    /\ aliases' = IF aliases[game[c]][name] = 0
                  THEN [aliases EXCEPT ![game[c]][name] = peerId[c]]
                  ELSE aliases
    /\ UNCHANGED <<connVars, bufVars, nextPeerId, peers>>

\* With a name, the alias goes if this peer owns it; without one (NoName),
\* every alias the peer owns goes.
AliasUnregister(c, name) ==
    /\ Registered(c)
    /\ aliases' =
           IF name = NoName
           THEN [aliases EXCEPT ![game[c]] = WithoutAliasesOf(@, peerId[c])]
           ELSE IF aliases[game[c]][name] = peerId[c]
           THEN [aliases EXCEPT ![game[c]][name] = 0]
           ELSE aliases
    /\ UNCHANGED <<connVars, bufVars, nextPeerId, peers>>

AliasLookup(c, name) ==
    /\ Registered(c)
    /\ SendMessage(c, [type   |-> "AliasResolved",
                       peerId |-> aliases[game[c]][name],
                       alias  |-> name])
    /\ UNCHANGED <<connVars, gameVars>>

-----------------------------------------------------------------------------
Receive(c) ==
    \/ NotAuthenticated(c)
    \/ \E hello \in Hellos : HelloServer(c, hello)
    \/ \E to \in Targets : \/ \E emulated \in BOOLEAN : P2POffer(c, to, emulated)
                           \/ P2PAnswer(c, to)
                           \/ ICECandidate(c, to)
                           \/ P2PRelayData(c, to)
                           \/ P2PReject(c, to)
    \/ LoggedOnly(c)
    \/ \E name \in Names : AliasRegister(c, name) \/ AliasLookup(c, name)
    \/ \E name \in Names \cup {NoName} : AliasUnregister(c, name)

Next == \E c \in Conns : Established(c) \/ Disconnected(c) \/ Writeable(c) \/ Receive(c)

Spec == Init /\ [][Next]_vars

-----------------------------------------------------------------------------
(* Properties *)

\* A connection that has a peer id is listed under that id in its game: what
\* the assertion of LWS_CALLBACK_CLOSED says must exist, and what every
\* lookup of a target relies on.
ConnectionsAreListed ==
    \A c \in signalConnections :
        peerId[c] # 0 => game[c] # NoGame /\ peers[game[c]][peerId[c]] = c

\* game->peers holds no dangling pointer: every entry is a live connection
\* that carries the id it is listed under (game.h: "not owned, must also be
\* in signalConnections"; asserted by the P2PAnswer handler).
ListedPeersAreLive ==
    \A g \in Games, i \in PeerIds :
        peers[g][i] # NoConn =>
            /\ peers[g][i] \in signalConnections \cap webRTCsupport
            /\ peerId[peers[g][i]] = i
            /\ game[peers[g][i]] = g

\* The tables of the games and the connections agree, in both directions,
\* whatever comes, registers and goes at whatever address.
GamesListLivePeers == ConnectionsAreListed /\ ListedPeersAreLive

\* A lookup never resolves an alias to a peer that has left: the close
\* handler erases the aliases together with the peer.
AliasesResolveToLivePeers ==
    \A g \in Games, n \in Names :
        aliases[g][n] # 0 => peers[g][aliases[g][n]] # NoConn

\* Something waits in a send buffer only while a writable callback is
\* requested, although sendMessage requests one only for an empty buffer.
NoLostWakeup ==
    \A c \in Conns : sendBuf[c] # << >> => c \in wantWrite

\* Only a peer that has itself made an offer or an answer which the server
\* passed on is sent an answer, whatever addresses are reused.
AnswersAreSolicited ==
    \A c \in Conns : \A k \in DOMAIN sendBuf[c] :
        sendBuf[c][k].type = "P2PAnswer" => connectedPeers[c] # {}

\* A message is passed on only inside a game, and it names an originator that
\* is registered in the receiver's game when the server queues it.
OriginatorsAreRegistered ==
    [][\A c \in Conns :
         Len(sendBuf'[c]) > Len(sendBuf[c]) =>
             LET msg == sendBuf'[c][Len(sendBuf'[c])]
             IN  msg.type \in ForwardedTypes =>
                     \E d \in signalConnections : game[d] = game[c] /\ peerId[d] = msg.peerId]_vars

\* The registry of peers and aliases, as its clients see it.
Registry == INSTANCE PeerRegistry WITH
    Ids     <- PeerIds \ {0},
    used    <- {p \in Games \X PeerIds : 0 < p[2] /\ p[2] < nextPeerId[p[1]]},
    members <- {p \in Games \X PeerIds : peers[p[1]][p[2]] # NoConn},
    owner   <- aliases

\* The server's handlers implement the registry: ids are never given out
\* twice, an alias is never taken from its owner, and a peer and its aliases
\* disappear together.
ImplementsRegistry == Registry!Spec

\* A client that signs with its game's secret is let in: getVerifiedGame
\* checks the signature sendHelloServer makes.
SignedClientsAreAccepted ==
    [][\A c \in signalConnections, hello \in Hellos :
         (SignedWithGameSecret(hello) /\ HelloServer(c, hello)) => c \in signalConnections']_vars
=============================================================================
