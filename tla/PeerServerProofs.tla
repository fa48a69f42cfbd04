-------------------------- MODULE PeerServerProofs --------------------------
(***************************************************************************)
(* Proofs about PeerServer for any number of connections, games and names, *)
(* any game database and any set of HelloServer messages.                  *)
(***************************************************************************)
EXTENDS PeerServer, TLAPS

-----------------------------------------------------------------------------
(* Lemmas about the helpers *)

\* getVerifiedGame returns a game of the database, or NULL.
LEMMA VerifiedGame ==
    ASSUME NEW hello
    PROVE  GetVerifiedGame(hello) \in Games \cup {NoGame}
BY DEF GetVerifiedGame, Games

\* The next id is a PeerId, whether it wraps or not.
LEMMA NextIdType ==
    ASSUME NEW id \in PeerIds
    PROVE  (id + 1) % IdModulus \in PeerIds
BY PeerServerAssumption DEF PeerIds

\* Without a wrap the next id is the successor.
LEMMA NextIdNoWrap ==
    ASSUME NoWrap, NEW id \in Nat, id <= MaxIds
    PROVE  (id + 1) % IdModulus = id + 1
BY PeerServerAssumption DEF NoWrap

\* sendMessage keeps the types of the buffers.
LEMMA SendMessageType ==
    ASSUME TypeOK, NEW c \in Conns, NEW msg \in Message, SendMessage(c, msg)
    PROVE  sendBuf' \in [Conns -> Seq(Message)] /\ wantWrite' \subseteq Conns
BY DEF TypeOK, SendMessage

\* What the handlers queue is a message.
LEMMA MsgType ==
    ASSUME NEW type \in MessageTypes, NEW id \in PeerIds
    PROVE  Msg(type, id) \in Message
BY DEF Msg, Message

\* A handler's sender is in a game, and what a lookup finds is a connection.
LEMMA PeerOfType ==
    ASSUME TypeOK, NEW c \in Conns, game[c] \in Games, NEW to \in PeerIds
    PROVE  PeerOf(c, to) \in Conns \cup {NoConn}
BY DEF TypeOK, PeerOf

-----------------------------------------------------------------------------
(* Type correctness *)

\* Whoever has a peer id is a live connection and belongs to a game: what
\* makes conn->game safe to follow in every handler.
RegisteredHaveGame ==
    \A c \in Conns : peerId[c] # 0 => c \in signalConnections /\ game[c] \in Games

TypeInv == TypeOK /\ RegisteredHaveGame

\* The end of a connection keeps the types, and leaves no id at its address.
LEMMA ClosedType ==
    ASSUME TypeInv, NEW c \in Conns, Closed(c)
    PROVE  TypeInv'
<1>1. 0 \in PeerIds
  BY PeerServerAssumption DEF PeerIds
<1>2. peers' \in [Games -> [PeerIds -> Conns \cup {NoConn}]]
  <2>1. CASE peerId[c] = 0
    BY <2>1 DEF TypeInv, TypeOK, Closed
  <2>2. CASE peerId[c] # 0
    <3>1. game[c] \in Games /\ peerId[c] \in PeerIds
      BY <2>2 DEF TypeInv, TypeOK, RegisteredHaveGame
    <3>2. peers' = [peers EXCEPT ![game[c]][peerId[c]] = NoConn]
      BY <2>2 DEF Closed
    <3>3. QED
      BY <3>1, <3>2 DEF TypeInv, TypeOK
  <2>3. QED
    BY <2>1, <2>2
<1>3. aliases' \in [Games -> [Names -> PeerIds]]
  <2>1. CASE peerId[c] = 0
    BY <2>1 DEF TypeInv, TypeOK, Closed
  <2>2. CASE peerId[c] # 0
    <3>1. game[c] \in Games
      BY <2>2 DEF TypeInv, RegisteredHaveGame
    <3>2. WithoutAliasesOf(aliases[game[c]], peerId[c]) \in [Names -> PeerIds]
      BY <1>1, <3>1 DEF TypeInv, TypeOK, WithoutAliasesOf
    <3>3. aliases' = [aliases EXCEPT ![game[c]] = WithoutAliasesOf(aliases[game[c]], peerId[c])]
      BY <2>2 DEF Closed
    <3>4. QED
      BY <3>2, <3>3 DEF TypeInv, TypeOK
  <2>3. QED
    BY <2>1, <2>2
<1>4. sendBuf' \in [Conns -> Seq(Message)]
  BY DEF TypeInv, TypeOK, Closed
<1>5. TypeOK'
  BY <1>1, <1>2, <1>3, <1>4 DEF TypeInv, TypeOK, Closed
<1>6. RegisteredHaveGame'
  BY DEF TypeInv, TypeOK, RegisteredHaveGame, Closed
<1>7. QED
  BY <1>5, <1>6 DEF TypeInv

\* A HelloServer that is accepted gives its connection an id and a game at once.
LEMMA HelloAcceptedType ==
    ASSUME TypeInv, NEW c \in signalConnections, NEW hello, HelloAccepted(c, hello)
    PROVE  TypeInv'
<1> DEFINE g  == GetVerifiedGame(hello)
           id == nextPeerId[g]
<1>1. g \in Games /\ id \in PeerIds /\ c \in Conns
  BY VerifiedGame DEF HelloAccepted, TypeInv, TypeOK
<1>2. (id + 1) % IdModulus \in PeerIds
  BY <1>1, NextIdType
<1>3. Msg("HelloClient", id) \in Message
  BY <1>1, MsgType DEF MessageTypes
<1>4. sendBuf' \in [Conns -> Seq(Message)] /\ wantWrite' \subseteq Conns
  BY <1>1, <1>3, SendMessageType DEF TypeInv, HelloAccepted
<1>5. peers' \in [Games -> [PeerIds -> Conns \cup {NoConn}]]
  BY <1>1 DEF TypeInv, TypeOK, HelloAccepted
<1>6. TypeOK'
  BY <1>1, <1>2, <1>4, <1>5 DEF TypeInv, TypeOK, HelloAccepted
<1>7. RegisteredHaveGame'
  BY <1>1 DEF TypeInv, TypeOK, RegisteredHaveGame, HelloAccepted
<1>8. QED
  BY <1>6, <1>7 DEF TypeInv

\* What a handler that only sends a message and perhaps adds to
\* connectedPeers leaves typed.
LEMMA SenderType ==
    ASSUME TypeInv,
           NEW c \in Conns, NEW msg \in Message, SendMessage(c, msg),
           connectedPeers' \in [Conns -> SUBSET Conns],
           UNCHANGED <<signalConnections, peerId, game, webRTCsupport, gameVars>>
    PROVE  TypeInv'
<1>1. sendBuf' \in [Conns -> Seq(Message)] /\ wantWrite' \subseteq Conns
  BY SendMessageType DEF TypeInv
<1>2. QED
  BY <1>1 DEF TypeInv, TypeOK, RegisteredHaveGame, gameVars

\* Every callback and every handler keeps the types.
LEMMA StepType ==
    ASSUME TypeInv, [Next]_vars
    PROVE  TypeInv'
<1>0. /\ 0 \in PeerIds
      /\ NoConn \notin Conns
      /\ Targets \subseteq PeerIds
  BY PeerServerAssumption DEF PeerIds
<1>1. CASE UNCHANGED vars
  BY <1>1 DEF TypeInv, TypeOK, RegisteredHaveGame, vars, connVars, bufVars, gameVars
<1>2. ASSUME NEW c \in Conns, Established(c)
      PROVE  TypeInv'
  BY <1>2 DEF TypeInv, TypeOK, RegisteredHaveGame, Established, bufVars, gameVars
<1>3. ASSUME NEW c \in Conns, Disconnected(c) \/ NotAuthenticated(c)
      PROVE  TypeInv'
  BY <1>3, ClosedType DEF Disconnected, NotAuthenticated
<1>4. ASSUME NEW c \in Conns, Writeable(c)
      PROVE  TypeInv'
  <2>1. PICK written \in 0 .. Len(sendBuf[c]) :
          /\ sendBuf' = [sendBuf EXCEPT ![c] = SubSeq(@, written + 1, Len(@))]
          /\ wantWrite' = IF written < Len(sendBuf[c]) THEN wantWrite ELSE wantWrite \ {c}
    BY <1>4 DEF Writeable
  <2>2. sendBuf[c] \in Seq(Message)
    BY DEF TypeInv, TypeOK
  <2>3. SubSeq(sendBuf[c], written + 1, Len(sendBuf[c])) \in Seq(Message)
    BY <2>2
  <2>4. QED
    BY <1>4, <2>1, <2>3
    DEF Writeable, TypeInv, TypeOK, RegisteredHaveGame, connVars, gameVars
<1>5. ASSUME NEW c \in Conns, NEW hello \in Hellos, HelloServer(c, hello)
      PROVE  TypeInv'
  BY <1>1, <1>5, ClosedType, HelloAcceptedType DEF HelloServer, HelloRejected
<1>6. ASSUME NEW c \in Conns, NEW to \in Targets, NEW emulated \in BOOLEAN,
             P2POffer(c, to, emulated)
      PROVE  TypeInv'
  <2>1. /\ game[c] \in Games /\ peerId[c] \in PeerIds /\ to \in PeerIds
        /\ PeerOf(c, to) \in Conns \cup {NoConn}
    BY <1>0, <1>6, PeerOfType DEF P2POffer, Registered, TypeInv, TypeOK, RegisteredHaveGame
  <2>2. /\ Msg("NoSuchPeer", to) \in Message
        /\ Msg("PeerRefused", to) \in Message
        /\ Msg("P2POffer", peerId[c]) \in Message
    BY <2>1, MsgType DEF MessageTypes, ForwardedTypes
  <2>3. connectedPeers' \in [Conns -> SUBSET Conns]
    <3>1. \/ UNCHANGED connectedPeers
          \/ /\ PeerOf(c, to) \in Conns
             /\ connectedPeers' = [connectedPeers EXCEPT ![c] = @ \cup {PeerOf(c, to)}]
      BY <1>6, <2>1 DEF P2POffer
    <3>2. connectedPeers \in [Conns -> SUBSET Conns]
      BY DEF TypeInv, TypeOK
    <3>3. PeerOf(c, to) \in Conns => connectedPeers[c] \cup {PeerOf(c, to)} \in SUBSET Conns
      BY <3>2
    <3>4. QED
      BY <3>1, <3>2, <3>3
  <2>4. \E d \in Conns, msg \in Message : SendMessage(d, msg)
    BY <1>6, <2>1, <2>2 DEF P2POffer
  <2>5. QED
    BY <1>6, <2>3, <2>4, SenderType DEF P2POffer
<1>7. ASSUME NEW c \in Conns, NEW to \in Targets, P2PAnswer(c, to)
      PROVE  TypeInv'
  <2>1. /\ game[c] \in Games /\ peerId[c] \in PeerIds /\ to \in PeerIds
        /\ PeerOf(c, to) \in Conns \cup {NoConn}
    BY <1>0, <1>7, PeerOfType DEF P2PAnswer, Registered, TypeInv, TypeOK, RegisteredHaveGame
  <2>2. /\ Msg("NoSuchPeer", to) \in Message
        /\ Msg("P2PAnswer", peerId[c]) \in Message
    BY <2>1, MsgType DEF MessageTypes, ForwardedTypes
  <2>3. connectedPeers' \in [Conns -> SUBSET Conns]
    <3>1. \/ UNCHANGED connectedPeers
          \/ /\ PeerOf(c, to) \in Conns
             /\ connectedPeers' = [connectedPeers EXCEPT ![c] = @ \cup {PeerOf(c, to)}]
      BY <1>7, <2>1 DEF P2PAnswer
    <3>2. connectedPeers \in [Conns -> SUBSET Conns]
      BY DEF TypeInv, TypeOK
    <3>3. PeerOf(c, to) \in Conns => connectedPeers[c] \cup {PeerOf(c, to)} \in SUBSET Conns
      BY <3>2
    <3>4. QED
      BY <3>1, <3>2, <3>3
  <2>4. \E d \in Conns, msg \in Message : SendMessage(d, msg)
    BY <1>7, <2>1, <2>2 DEF P2PAnswer
  <2>5. QED
    BY <1>7, <2>3, <2>4, SenderType DEF P2PAnswer
<1>8. ASSUME NEW c \in Conns, NEW to \in Targets,
             ICECandidate(c, to) \/ P2PRelayData(c, to) \/ P2PReject(c, to)
      PROVE  TypeInv'
  <2>1. /\ game[c] \in Games /\ peerId[c] \in PeerIds /\ to \in PeerIds
        /\ PeerOf(c, to) \in Conns \cup {NoConn}
    BY <1>0, <1>8, PeerOfType
    DEF ICECandidate, P2PRelayData, P2PReject, Registered, TypeInv, TypeOK, RegisteredHaveGame
  <2>2. /\ Msg("NoSuchPeer", to) \in Message
        /\ Msg("ICECandidate", peerId[c]) \in Message
        /\ Msg("P2PRelayData", peerId[c]) \in Message
        /\ Msg("PeerRefused", peerId[c]) \in Message
    BY <2>1, MsgType DEF MessageTypes, ForwardedTypes
  <2>3. UNCHANGED <<connVars, gameVars>>
    BY <1>8 DEF ICECandidate, P2PRelayData, P2PReject
  <2>4. CASE UNCHANGED bufVars
    BY <1>1, <2>3, <2>4 DEF vars
  <2>5. CASE ~UNCHANGED bufVars
    <3>1. \E d \in Conns, msg \in Message : SendMessage(d, msg)
      BY <1>8, <2>1, <2>2, <2>5 DEF ICECandidate, P2PRelayData, P2PReject, Forward
    <3>2. QED
      BY <2>3, <3>1, SenderType DEF connVars, TypeInv, TypeOK
  <2>6. QED
    BY <2>4, <2>5
<1>9. ASSUME NEW c \in Conns, NEW name \in Names \cup {NoName},
             \/ name \in Names /\ AliasRegister(c, name)
             \/ AliasUnregister(c, name)
      PROVE  TypeInv'
  <2>1. game[c] \in Games /\ peerId[c] \in PeerIds
    BY <1>9 DEF AliasRegister, AliasUnregister, Registered, TypeInv, TypeOK, RegisteredHaveGame
  <2>2. WithoutAliasesOf(aliases[game[c]], peerId[c]) \in [Names -> PeerIds]
    BY <1>0, <2>1 DEF TypeInv, TypeOK, WithoutAliasesOf
  <2>3. aliases' \in [Games -> [Names -> PeerIds]]
    <3>1. \/ UNCHANGED aliases
          \/ \E n \in Names, id \in PeerIds : aliases' = [aliases EXCEPT ![game[c]][n] = id]
          \/ aliases' = [aliases EXCEPT ![game[c]] = WithoutAliasesOf(@, peerId[c])]
      BY <1>0, <1>9, <2>1 DEF AliasRegister, AliasUnregister
    <3>2. aliases \in [Games -> [Names -> PeerIds]]
      BY DEF TypeInv, TypeOK
    <3>3. ASSUME NEW n \in Names, NEW id \in PeerIds,
                 aliases' = [aliases EXCEPT ![game[c]][n] = id]
          PROVE  aliases' \in [Games -> [Names -> PeerIds]]
      <4>1. [aliases[game[c]] EXCEPT ![n] = id] \in [Names -> PeerIds]
        BY <2>1, <3>2
      <4>2. QED
        BY <2>1, <3>2, <3>3, <4>1
    <3>4. QED
      BY <2>1, <2>2, <3>1, <3>2, <3>3
  <2>4. QED
    BY <1>9, <2>3
    DEF AliasRegister, AliasUnregister, TypeInv, TypeOK, RegisteredHaveGame, connVars, bufVars
<1>10. ASSUME NEW c \in Conns, NEW name \in Names, AliasLookup(c, name)
       PROVE  TypeInv'
  <2>1. game[c] \in Games
    BY <1>10 DEF AliasLookup, Registered, TypeInv, RegisteredHaveGame
  <2>2. [type |-> "AliasResolved", peerId |-> aliases[game[c]][name], alias |-> name] \in Message
    BY <2>1 DEF Message, MessageTypes, TypeInv, TypeOK
  <2>3. QED
    BY <1>10, <2>2, SenderType DEF AliasLookup, connVars, TypeInv, TypeOK
<1>11. QED
  BY <1>1, <1>2, <1>3, <1>4, <1>5, <1>6, <1>7, <1>8, <1>9, <1>10
  DEF Next, Receive, LoggedOnly

\* The types hold at the start.
LEMMA InitType == Init => TypeInv
BY PeerServerAssumption DEF Init, TypeInv, TypeOK, RegisteredHaveGame, PeerIds

\* The server's state keeps its types, and a handler never follows the game
\* pointer of a connection that has none, whatever clients send and even
\* when ids wrap.
THEOREM TypeCorrect == Spec => [](TypeOK /\ RegisteredHaveGame)
<1>1. Init => TypeInv
  BY InitType
<1>2. TypeInv /\ [Next]_vars => TypeInv'
  BY StepType
<1>3. QED
  BY <1>1, <1>2, PTL DEF Spec, TypeInv

-----------------------------------------------------------------------------
(* The registry *)

\* Every listed id has been handed out, and ids are handed out in order.
IdsBelowNext ==
    \A g \in Games :
        /\ nextPeerId[g] \in 1 .. MaxIds + 1
        /\ \A i \in PeerIds : peers[g][i] # NoConn => 0 < i /\ i < nextPeerId[g]

\* The inductive invariant: IdsBelowNext is why insert never meets an entry
\* that is already there, and RegisteredHaveGame why a fresh connection at a
\* reused address is not listed anywhere.
RegistryInv ==
    /\ TypeInv
    /\ ConnectionsAreListed
    /\ ListedPeersAreLive
    /\ AliasesResolveToLivePeers
    /\ IdsBelowNext

registryVars == <<signalConnections, peerId, game, webRTCsupport, gameVars>>

\* What RegistryInv speaks of is not changed, nor is RegistryInv.
LEMMA RegistryUntouched ==
    ASSUME RegistryInv, TypeInv', UNCHANGED registryVars
    PROVE  RegistryInv'
BY DEF RegistryInv, ConnectionsAreListed, ListedPeersAreLive, AliasesResolveToLivePeers,
       IdsBelowNext, registryVars, gameVars

\* The end of a connection takes it out of its game, with its aliases.
LEMMA ClosedRegistry ==
    ASSUME RegistryInv, TypeInv', NEW c \in Conns, Closed(c)
    PROVE  RegistryInv'
<1>1. CASE peerId[c] = 0
  BY <1>1, PeerServerAssumption
  DEF RegistryInv, TypeInv, TypeOK, ConnectionsAreListed, ListedPeersAreLive,
      AliasesResolveToLivePeers, IdsBelowNext, Closed
<1>2. CASE peerId[c] # 0
  <2> DEFINE g == game[c]
             i == peerId[c]
  <2>1. g \in Games /\ i \in PeerIds /\ c \in signalConnections /\ peers[g][i] = c
    BY <1>2 DEF RegistryInv, TypeInv, TypeOK, RegisteredHaveGame, ConnectionsAreListed
  <2>2. \A h \in Games, j \in PeerIds :
            peers'[h][j] = IF h = g /\ j = i THEN NoConn ELSE peers[h][j]
    BY <1>2, <2>1 DEF Closed, RegistryInv, TypeInv, TypeOK
  <2>3. \A h \in Games, n \in Names :
            aliases'[h][n] = IF h = g /\ aliases[h][n] = i THEN 0 ELSE aliases[h][n]
    BY <1>2, <2>1 DEF Closed, WithoutAliasesOf, RegistryInv, TypeInv, TypeOK
  <2>4. \A d \in Conns : /\ peerId'[d] = IF d = c THEN 0 ELSE peerId[d]
                         /\ game'[d] = IF d = c THEN NoGame ELSE game[d]
    BY DEF Closed, RegistryInv, TypeInv, TypeOK
  <2>5. ConnectionsAreListed'
    <3> SUFFICES ASSUME NEW d \in signalConnections', peerId'[d] # 0
                 PROVE  game'[d] # NoGame /\ peers'[game'[d]][peerId'[d]] = d
      BY DEF ConnectionsAreListed
    <3>1. d # c /\ d \in signalConnections /\ d \in Conns
      BY DEF Closed, RegistryInv, TypeInv, TypeOK
    <3>2. game[d] \in Games /\ peerId[d] \in PeerIds /\ peers[game[d]][peerId[d]] = d
      BY <2>4, <3>1 DEF RegistryInv, TypeInv, TypeOK, RegisteredHaveGame, ConnectionsAreListed
    <3>3. QED
      BY <2>1, <2>2, <2>4, <3>1, <3>2, GameAuthAssumption
  <2>6. ListedPeersAreLive'
    <3> SUFFICES ASSUME NEW h \in Games, NEW j \in PeerIds, peers'[h][j] # NoConn
                 PROVE  /\ peers'[h][j] \in signalConnections' \cap webRTCsupport'
                        /\ peerId'[peers'[h][j]] = j
                        /\ game'[peers'[h][j]] = h
      BY DEF ListedPeersAreLive
    <3>1. peers'[h][j] = peers[h][j] /\ ~(h = g /\ j = i)
      BY <2>2
    <3>2. /\ peers[h][j] \in signalConnections \cap webRTCsupport
          /\ peerId[peers[h][j]] = j
          /\ game[peers[h][j]] = h
      BY <3>1 DEF RegistryInv, ListedPeersAreLive
    <3>3. peers[h][j] \in Conns /\ peers[h][j] # c
      BY <3>1, <3>2 DEF RegistryInv, TypeInv, TypeOK
    <3>4. QED
      BY <2>4, <3>1, <3>2, <3>3 DEF Closed
  <2>7. AliasesResolveToLivePeers'
    <3> SUFFICES ASSUME NEW h \in Games, NEW n \in Names, aliases'[h][n] # 0
                 PROVE  peers'[h][aliases'[h][n]] # NoConn
      BY DEF AliasesResolveToLivePeers
    <3>1. aliases'[h][n] = aliases[h][n] /\ ~(h = g /\ aliases[h][n] = i)
      BY <2>3
    <3>2. aliases[h][n] \in PeerIds /\ peers[h][aliases[h][n]] # NoConn
      BY <3>1 DEF RegistryInv, TypeInv, TypeOK, AliasesResolveToLivePeers
    <3>3. QED
      BY <2>2, <3>1, <3>2
  <2>8. IdsBelowNext'
    BY <2>2 DEF Closed, RegistryInv, IdsBelowNext
  <2>9. QED
    BY <2>5, <2>6, <2>7, <2>8 DEF RegistryInv
<1>3. QED
  BY <1>1, <1>2

\* A HelloServer that is accepted lists its connection under an id that nobody
\* has had, so that peers.insert finds no entry and no alias names the id.
LEMMA HelloAcceptedRegistry ==
    ASSUME NoWrap, RegistryInv, TypeInv',
           NEW c \in signalConnections, peerId[c] = 0,
           NEW hello, HelloAccepted(c, hello)
    PROVE  RegistryInv'
<1> DEFINE g  == GetVerifiedGame(hello)
           id == nextPeerId[g]
<1>1. g \in Games /\ id \in PeerIds /\ c \in Conns /\ id \in Nat /\ id <= MaxIds /\ id # 0
  BY VerifiedGame DEF HelloAccepted, RegistryInv, TypeInv, TypeOK, IdsBelowNext, PeerIds
<1>2. nextPeerId' = [nextPeerId EXCEPT ![g] = id + 1]
  BY <1>1, NextIdNoWrap DEF HelloAccepted
<1>3. peers[g][id] = NoConn
  BY <1>1 DEF RegistryInv, IdsBelowNext
<1>4. \A h \in Games, j \in PeerIds :
          peers'[h][j] = IF h = g /\ j = id THEN c ELSE peers[h][j]
  BY <1>1, <1>3 DEF HelloAccepted, RegistryInv, TypeInv, TypeOK
<1>5. \A d \in Conns : /\ peerId'[d] = IF d = c THEN id ELSE peerId[d]
                       /\ game'[d] = IF d = c THEN g ELSE game[d]
  BY <1>1 DEF HelloAccepted, RegistryInv, TypeInv, TypeOK
<1>6. ConnectionsAreListed'
  <2> SUFFICES ASSUME NEW d \in signalConnections', peerId'[d] # 0
               PROVE  game'[d] # NoGame /\ peers'[game'[d]][peerId'[d]] = d
    BY DEF ConnectionsAreListed
  <2>1. d \in signalConnections /\ d \in Conns
    BY DEF HelloAccepted, RegistryInv, TypeInv, TypeOK
  <2>2. CASE d = c
    BY <1>1, <1>4, <1>5, <2>2, GameAuthAssumption
  <2>3. CASE d # c
    <3>1. game[d] \in Games /\ peerId[d] \in PeerIds /\ peers[game[d]][peerId[d]] = d
      BY <1>5, <2>1, <2>3 DEF RegistryInv, TypeInv, TypeOK, RegisteredHaveGame, ConnectionsAreListed
    <3>2. ~(game[d] = g /\ peerId[d] = id)
      BY <1>3, <2>1, <3>1, PeerServerAssumption
    <3>3. QED
      BY <1>4, <1>5, <2>1, <2>3, <3>1, <3>2, GameAuthAssumption
  <2>4. QED
    BY <2>2, <2>3
<1>7. ListedPeersAreLive'
  <2> SUFFICES ASSUME NEW h \in Games, NEW j \in PeerIds, peers'[h][j] # NoConn
               PROVE  /\ peers'[h][j] \in signalConnections' \cap webRTCsupport'
                      /\ peerId'[peers'[h][j]] = j
                      /\ game'[peers'[h][j]] = h
    BY DEF ListedPeersAreLive
  <2>1. CASE h = g /\ j = id
    BY <1>1, <1>4, <1>5, <2>1 DEF HelloAccepted
  <2>2. CASE ~(h = g /\ j = id)
    <3>1. peers'[h][j] = peers[h][j]
      BY <1>4, <2>2
    <3>2. /\ peers[h][j] \in signalConnections \cap webRTCsupport
          /\ peerId[peers[h][j]] = j
          /\ game[peers[h][j]] = h
          /\ j # 0
      BY <3>1 DEF RegistryInv, ListedPeersAreLive, IdsBelowNext
    <3>3. peers[h][j] \in Conns /\ peers[h][j] # c
      BY <3>2 DEF RegistryInv, TypeInv, TypeOK
    <3>4. QED
      BY <1>5, <3>1, <3>2, <3>3 DEF HelloAccepted
  <2>3. QED
    BY <2>1, <2>2
<1>8. AliasesResolveToLivePeers'
  BY <1>1, <1>4, PeerServerAssumption
  DEF HelloAccepted, RegistryInv, TypeInv, TypeOK, AliasesResolveToLivePeers
<1>9. IdsBelowNext'
  <2> SUFFICES ASSUME NEW h \in Games
               PROVE  /\ nextPeerId'[h] \in 1 .. MaxIds + 1
                      /\ \A i \in PeerIds : peers'[h][i] # NoConn => 0 < i /\ i < nextPeerId'[h]
    BY DEF IdsBelowNext
  <2>1. /\ nextPeerId[h] \in 1 .. MaxIds + 1
        /\ \A i \in PeerIds : peers[h][i] # NoConn => 0 < i /\ i < nextPeerId[h]
    BY DEF RegistryInv, IdsBelowNext
  <2>2. nextPeerId'[h] = IF h = g THEN id + 1 ELSE nextPeerId[h]
    BY <1>1, <1>2 DEF RegistryInv, TypeInv, TypeOK
  <2>3. QED
    BY <1>1, <1>4, <2>1, <2>2, PeerServerAssumption DEF PeerIds
<1>10. QED
  BY <1>6, <1>7, <1>8, <1>9 DEF RegistryInv

\* Registering and unregistering aliases keeps their owners live.
LEMMA AliasRegistry ==
    ASSUME RegistryInv, TypeInv', NEW c \in Conns, NEW name \in Names \cup {NoName},
           \/ name \in Names /\ AliasRegister(c, name)
           \/ AliasUnregister(c, name)
    PROVE  RegistryInv'
<1>1. UNCHANGED <<signalConnections, peerId, game, webRTCsupport, nextPeerId, peers>>
  BY DEF AliasRegister, AliasUnregister, connVars
<1>2. /\ game[c] \in Games /\ peerId[c] \in PeerIds
      /\ peers[game[c]][peerId[c]] # NoConn
  BY PeerServerAssumption
  DEF AliasRegister, AliasUnregister, Registered, RegistryInv, TypeInv, TypeOK,
      RegisteredHaveGame, ConnectionsAreListed
<1>3. \A g \in Games, n \in Names :
          \/ aliases'[g][n] \in {0, aliases[g][n]}
          \/ g = game[c] /\ aliases'[g][n] = peerId[c]
  BY <1>2 DEF AliasRegister, AliasUnregister, WithoutAliasesOf, RegistryInv, TypeInv, TypeOK
<1>4. AliasesResolveToLivePeers'
  BY <1>1, <1>2, <1>3 DEF RegistryInv, AliasesResolveToLivePeers
<1>5. QED
  BY <1>1, <1>4 DEF RegistryInv, ConnectionsAreListed, ListedPeersAreLive, IdsBelowNext

\* Every callback and every handler keeps RegistryInv.
LEMMA StepRegistry ==
    ASSUME NoWrap, RegistryInv, [Next]_vars
    PROVE  RegistryInv'
<1>0. TypeInv'
  BY StepType DEF RegistryInv
<1>1. CASE UNCHANGED registryVars
  BY <1>0, <1>1, RegistryUntouched
<1>2. CASE UNCHANGED vars
  BY <1>1, <1>2 DEF vars, connVars, registryVars
<1>3. ASSUME NEW c \in Conns, Established(c)
      PROVE  RegistryInv'
  BY <1>0, <1>3, GameAuthAssumption
  DEF Established, gameVars, RegistryInv, TypeInv, RegisteredHaveGame, ConnectionsAreListed,
      ListedPeersAreLive, AliasesResolveToLivePeers, IdsBelowNext
<1>4. ASSUME NEW c \in Conns, Disconnected(c) \/ NotAuthenticated(c)
      PROVE  RegistryInv'
  BY <1>0, <1>4, ClosedRegistry DEF Disconnected, NotAuthenticated
<1>5. ASSUME NEW c \in Conns, NEW hello \in Hellos, HelloServer(c, hello)
      PROVE  RegistryInv'
  BY <1>0, <1>2, <1>5, ClosedRegistry, HelloAcceptedRegistry DEF HelloServer, HelloRejected
<1>6. ASSUME NEW c \in Conns, NEW to \in Targets,
             \/ \E emulated \in BOOLEAN : P2POffer(c, to, emulated)
             \/ P2PAnswer(c, to)
             \/ ICECandidate(c, to)
             \/ P2PRelayData(c, to)
             \/ P2PReject(c, to)
      PROVE  RegistryInv'
  BY <1>1, <1>6
  DEF P2POffer, P2PAnswer, ICECandidate, P2PRelayData, P2PReject, connVars, registryVars
<1>7. ASSUME NEW c \in Conns, NEW name \in Names \cup {NoName},
             \/ name \in Names /\ AliasRegister(c, name)
             \/ AliasUnregister(c, name)
      PROVE  RegistryInv'
  BY <1>0, <1>7, AliasRegistry
<1>8. ASSUME NEW c \in Conns, NEW name \in Names, AliasLookup(c, name)
      PROVE  RegistryInv'
  BY <1>1, <1>8 DEF AliasLookup, connVars, registryVars
<1>9. ASSUME NEW c \in Conns, Writeable(c)
      PROVE  RegistryInv'
  BY <1>1, <1>9 DEF Writeable, connVars, registryVars
<1>10. QED
  BY <1>2, <1>3, <1>4, <1>5, <1>6, <1>7, <1>8, <1>9 DEF Next, Receive, LoggedOnly

\* RegistryInv holds at the start, when there are no connections.
LEMMA InitRegistry == Init => RegistryInv
<1> SUFFICES ASSUME Init PROVE RegistryInv
  OBVIOUS
<1>1. TypeInv
  BY InitType
<1>2. QED
  BY <1>1, PeerServerAssumption
  DEF Init, RegistryInv, ConnectionsAreListed, ListedPeersAreLive, AliasesResolveToLivePeers,
      IdsBelowNext, PeerIds

\* As long as ids do not wrap, RegistryInv holds.
LEMMA RegistryInvariant ==
    ASSUME NoWrap
    PROVE  Spec => []RegistryInv
<1>1. Init => RegistryInv
  BY InitRegistry
<1>2. RegistryInv /\ [Next]_vars => RegistryInv'
  BY StepRegistry
<1>3. QED
  BY <1>1, <1>2, PTL DEF Spec

\* As long as ids do not wrap, the tables of a game and the connections agree:
\* the close handler's assertion holds and no entry of game->peers dangles.
THEOREM RegistryCorrect ==
    ASSUME NoWrap
    PROVE  Spec => []GamesListLivePeers
<1>1. RegistryInv => GamesListLivePeers
  BY DEF RegistryInv, GamesListLivePeers
<1>2. QED
  BY <1>1, RegistryInvariant, PTL

\* As long as ids do not wrap, no alias outlives its owner.
THEOREM AliasesCorrect ==
    ASSUME NoWrap
    PROVE  Spec => []AliasesResolveToLivePeers
<1>1. RegistryInv => AliasesResolveToLivePeers
  BY DEF RegistryInv
<1>2. QED
  BY <1>1, RegistryInvariant, PTL

-----------------------------------------------------------------------------
(* The send buffers *)

\* A buffer that is filled has a callback requested, and a callback that leaves
\* bytes behind requests another.
LEMMA StepWakeup ==
    ASSUME TypeInv, NoLostWakeup, [Next]_vars
    PROVE  NoLostWakeup'
<1>1. CASE UNCHANGED bufVars
  BY <1>1 DEF NoLostWakeup, bufVars
<1>2. CASE UNCHANGED vars
  BY <1>1, <1>2 DEF vars
<1>3. ASSUME NEW c, NEW msg, SendMessage(c, msg)
      PROVE  NoLostWakeup'
  BY <1>3 DEF TypeInv, TypeOK, NoLostWakeup, SendMessage
<1>4. ASSUME NEW c \in Conns, Closed(c)
      PROVE  NoLostWakeup'
  BY <1>4 DEF TypeInv, TypeOK, NoLostWakeup, Closed
<1>5. ASSUME NEW c \in Conns, Writeable(c)
      PROVE  NoLostWakeup'
  <2>1. PICK written \in 0 .. Len(sendBuf[c]) :
          /\ sendBuf' = [sendBuf EXCEPT ![c] = SubSeq(@, written + 1, Len(@))]
          /\ wantWrite' = IF written < Len(sendBuf[c]) THEN wantWrite ELSE wantWrite \ {c}
    BY <1>5 DEF Writeable
  <2>2. sendBuf[c] \in Seq(Message) /\ c \in wantWrite
    BY <1>5 DEF Writeable, TypeInv, TypeOK
  <2>3. written = Len(sendBuf[c]) => sendBuf'[c] = << >>
    BY <2>1, <2>2 DEF TypeInv, TypeOK
  <2>4. \A d \in Conns : d # c => sendBuf'[d] = sendBuf[d]
    BY <2>1 DEF TypeInv, TypeOK
  <2>5. QED
    BY <2>1, <2>2, <2>3, <2>4 DEF NoLostWakeup
<1>6. QED
  BY ZenonT(60), <1>1, <1>2, <1>3, <1>4, <1>5
  DEF Next, Receive, Established, Disconnected, NotAuthenticated, HelloServer, HelloRejected,
      HelloAccepted, P2POffer, P2PAnswer, ICECandidate, P2PRelayData, P2PReject, Forward,
      LoggedOnly, AliasRegister, AliasUnregister, AliasLookup, vars, bufVars

\* No message is left in a send buffer without a writable callback on its
\* way, although sendMessage asks for one only when the buffer was empty.
THEOREM WakeupsAreKept == Spec => []NoLostWakeup
<1>1. Init => TypeInv /\ NoLostWakeup
  BY InitType DEF Init, NoLostWakeup
<1>2. TypeInv /\ NoLostWakeup /\ [Next]_vars => TypeInv' /\ NoLostWakeup'
  BY StepType, StepWakeup
<1>3. QED
  BY <1>1, <1>2, PTL DEF Spec

-----------------------------------------------------------------------------
(* Answers *)

\* A handler that queues anything but an answer, or an answer for a peer that
\* has negotiated, and forgets nobody's negotiations.
LEMMA SendKeepsAnswers ==
    ASSUME TypeInv, AnswersAreSolicited, NEW c \in Conns, NEW msg, SendMessage(c, msg),
           msg.type = "P2PAnswer" => connectedPeers'[c] # {},
           \A d \in Conns : connectedPeers[d] \subseteq connectedPeers'[d]
    PROVE  AnswersAreSolicited'
<1> SUFFICES ASSUME NEW d \in Conns, NEW k \in DOMAIN sendBuf'[d],
                    sendBuf'[d][k].type = "P2PAnswer"
             PROVE  connectedPeers'[d] # {}
  BY DEF AnswersAreSolicited
<1>1. sendBuf' = [sendBuf EXCEPT ![c] = Append(@, msg)] /\ sendBuf \in [Conns -> Seq(Message)]
  BY DEF SendMessage, TypeInv, TypeOK
<1>2. CASE d = c /\ k = Len(sendBuf[c]) + 1
  BY <1>1, <1>2
<1>3. CASE ~(d = c /\ k = Len(sendBuf[c]) + 1)
  <2>1. k \in DOMAIN sendBuf[d] /\ sendBuf'[d][k] = sendBuf[d][k]
    BY <1>1, <1>3
  <2>2. QED
    BY <2>1 DEF AnswersAreSolicited
<1>4. QED
  BY <1>2, <1>3

\* Only the handlers of P2POffer and P2PAnswer queue answers, for those that have
\* the sender in connectedPeers.
LEMMA StepAnswers ==
    ASSUME TypeInv, AnswersAreSolicited, [Next]_vars
    PROVE  AnswersAreSolicited'
<1>0. ASSUME UNCHANGED <<connectedPeers, bufVars>>
      PROVE  AnswersAreSolicited'
  BY <1>0 DEF AnswersAreSolicited, bufVars
<1>1. CASE UNCHANGED vars
  BY <1>0, <1>1 DEF vars, connVars
<1>2. ASSUME NEW c \in Conns, Closed(c)
      PROVE  AnswersAreSolicited'
  BY <1>2 DEF AnswersAreSolicited, Closed, TypeInv, TypeOK
<1>3. ASSUME NEW c \in Conns, Writeable(c)
      PROVE  AnswersAreSolicited'
  <2>1. PICK written \in 0 .. Len(sendBuf[c]) :
          sendBuf' = [sendBuf EXCEPT ![c] = SubSeq(@, written + 1, Len(@))]
    BY <1>3 DEF Writeable
  <2>2. sendBuf \in [Conns -> Seq(Message)] /\ connectedPeers' = connectedPeers
    BY <1>3 DEF Writeable, connVars, TypeInv, TypeOK
  <2>3. \A d \in Conns : \A k \in DOMAIN sendBuf'[d] :
          \E j \in DOMAIN sendBuf[d] : sendBuf'[d][k] = sendBuf[d][j]
    <3>1. ASSUME NEW k \in DOMAIN sendBuf'[c]
          PROVE  written + k \in DOMAIN sendBuf[c] /\ sendBuf'[c][k] = sendBuf[c][written + k]
      BY <2>1, <2>2
    <3>2. QED
      BY <2>1, <2>2, <3>1
  <2>4. QED
    BY <2>2, <2>3 DEF AnswersAreSolicited
<1>4. ASSUME NEW c \in Conns, NEW hello, HelloAccepted(c, hello)
      PROVE  AnswersAreSolicited'
  BY <1>4, SendKeepsAnswers DEF HelloAccepted, Msg
<1>5. ASSUME NEW c \in Conns, NEW to \in Targets, NEW emulated, P2POffer(c, to, emulated)
      PROVE  AnswersAreSolicited'
  <2>1. PeerOf(c, to) \in Conns \cup {NoConn}
    BY <1>5, PeerServerAssumption, PeerOfType
    DEF P2POffer, Registered, TypeInv, RegisteredHaveGame
  <2>2. \A d \in Conns : connectedPeers[d] \subseteq connectedPeers'[d]
    BY <1>5 DEF P2POffer, TypeInv, TypeOK
  <2>3. \E d \in Conns, type \in {"NoSuchPeer", "PeerRefused", "P2POffer"} : \E id :
          SendMessage(d, Msg(type, id))
    BY <1>5, <2>1 DEF P2POffer
  <2>4. QED
    BY <2>2, <2>3, SendKeepsAnswers DEF Msg
<1>6. ASSUME NEW c \in Conns, NEW to \in Targets, P2PAnswer(c, to)
      PROVE  AnswersAreSolicited'
  <2>1. PeerOf(c, to) \in Conns \cup {NoConn}
    BY <1>6, PeerServerAssumption, PeerOfType
    DEF P2PAnswer, Registered, TypeInv, RegisteredHaveGame
  <2>2. \A d \in Conns : connectedPeers[d] \subseteq connectedPeers'[d]
    BY <1>6 DEF P2PAnswer, TypeInv, TypeOK
  <2>3. \/ SendMessage(c, Msg("NoSuchPeer", to))
        \/ /\ PeerOf(c, to) \in Conns /\ connectedPeers[PeerOf(c, to)] # {}
           /\ SendMessage(PeerOf(c, to), Msg("P2PAnswer", peerId[c]))
    BY <1>6, <2>1 DEF P2PAnswer
  <2>4. QED
    BY <2>2, <2>3, SendKeepsAnswers DEF Msg
<1>7. ASSUME NEW c \in Conns, NEW to \in Targets,
             ICECandidate(c, to) \/ P2PRelayData(c, to) \/ P2PReject(c, to)
      PROVE  AnswersAreSolicited'
  <2>1. PeerOf(c, to) \in Conns \cup {NoConn}
    BY <1>7, PeerServerAssumption, PeerOfType
    DEF ICECandidate, P2PRelayData, P2PReject, Registered, TypeInv, RegisteredHaveGame
  <2>2. UNCHANGED connectedPeers
    BY <1>7 DEF ICECandidate, P2PRelayData, P2PReject, connVars
  <2>3. \/ UNCHANGED bufVars
        \/ \E d \in Conns, type \in {"NoSuchPeer", "PeerRefused", "ICECandidate", "P2PRelayData"} : \E id :
              SendMessage(d, Msg(type, id))
    BY <1>7, <2>1 DEF ICECandidate, P2PRelayData, P2PReject, Forward
  <2>4. QED
    BY <1>0, <2>2, <2>3, SendKeepsAnswers DEF Msg
<1>8. ASSUME NEW c \in Conns, NEW name \in Names, AliasLookup(c, name)
      PROVE  AnswersAreSolicited'
  BY <1>8, SendKeepsAnswers DEF AliasLookup, connVars
<1>9. ASSUME NEW c \in Conns, NEW hello, HelloServer(c, hello)
      PROVE  AnswersAreSolicited'
  BY <1>1, <1>2, <1>4, <1>9 DEF HelloServer, HelloRejected
<1>10. QED
  BY ZenonT(60), <1>0, <1>1, <1>2, <1>3, <1>5, <1>6, <1>7, <1>8, <1>9
  DEF Next, Receive, Established, Disconnected, NotAuthenticated, LoggedOnly, AliasRegister,
      AliasUnregister, connVars

\* An answer only waits for a client that has negotiated itself, although
\* connectedPeers holds raw pointers and addresses are used again.
THEOREM AnswersCorrect == Spec => []AnswersAreSolicited
<1>1. Init => TypeInv /\ AnswersAreSolicited
  BY InitType DEF Init, AnswersAreSolicited
<1>2. TypeInv /\ AnswersAreSolicited /\ [Next]_vars => TypeInv' /\ AnswersAreSolicited'
  BY StepType, StepAnswers
<1>3. QED
  BY <1>1, <1>2, PTL DEF Spec

-----------------------------------------------------------------------------
(* Originators *)

\* sendMessage makes one buffer longer, by the message at its end.
LEMMA SendAppends ==
    ASSUME TypeInv, NEW c \in Conns, NEW msg, SendMessage(c, msg),
           NEW d \in Conns, Len(sendBuf'[d]) > Len(sendBuf[d])
    PROVE  d = c /\ sendBuf'[d][Len(sendBuf'[d])] = msg
<1>1. sendBuf' = [sendBuf EXCEPT ![c] = Append(@, msg)] /\ sendBuf \in [Conns -> Seq(Message)]
  BY DEF SendMessage, TypeInv, TypeOK
<1>2. Len(sendBuf[d]) \in Nat /\ (d # c => sendBuf'[d] = sendBuf[d])
  BY <1>1
<1>3. d = c /\ sendBuf'[d] = Append(sendBuf[d], msg)
  BY <1>1, <1>2
<1>4. QED
  BY <1>1, <1>3

\* What OriginatorsAreRegistered says of the buffer of c.
OriginatorIsRegistered(c) ==
    LET msg == sendBuf'[c][Len(sendBuf'[c])]
    IN  msg.type \in ForwardedTypes =>
            \E d \in signalConnections : game[d] = game[c] /\ peerId[d] = msg.peerId

\* A handler passes a message on: to the target, naming the sender, or back
\* to the sender, naming the target or nobody.
LEMMA HandlerOriginates ==
    ASSUME RegistryInv, NEW c \in Conns, Registered(c), NEW to \in Targets,
           NEW type \in MessageTypes,
           \/ SendMessage(c, Msg("NoSuchPeer", to))
           \/ PeerOf(c, to) # NoConn /\ SendMessage(c, Msg("PeerRefused", to))
           \/ PeerOf(c, to) # NoConn /\ SendMessage(PeerOf(c, to), Msg(type, peerId[c])),
           NEW r \in Conns, Len(sendBuf'[r]) > Len(sendBuf[r])
    PROVE  OriginatorIsRegistered(r)
<1>1. c \in signalConnections /\ game[c] \in Games /\ to \in PeerIds
  BY PeerServerAssumption DEF Registered, RegistryInv, TypeInv, RegisteredHaveGame
<1>2. PeerOf(c, to) # NoConn =>
          /\ PeerOf(c, to) \in signalConnections
          /\ peerId[PeerOf(c, to)] = to
          /\ game[PeerOf(c, to)] = game[c]
  BY <1>1 DEF PeerOf, RegistryInv, ListedPeersAreLive
<1>3. PeerOf(c, to) # NoConn => PeerOf(c, to) \in Conns
  BY <1>2 DEF RegistryInv, TypeInv, TypeOK
<1>4. CASE SendMessage(c, Msg("NoSuchPeer", to))
  <2>1. sendBuf'[r][Len(sendBuf'[r])] = Msg("NoSuchPeer", to)
    BY <1>4, SendAppends DEF RegistryInv
  <2>2. QED
    BY <2>1 DEF OriginatorIsRegistered, Msg, ForwardedTypes
<1>5. CASE PeerOf(c, to) # NoConn /\ SendMessage(c, Msg("PeerRefused", to))
  <2>1. r = c /\ sendBuf'[r][Len(sendBuf'[r])] = Msg("PeerRefused", to)
    BY <1>5, SendAppends DEF RegistryInv
  <2>2. QED
    BY <1>2, <1>5, <2>1 DEF OriginatorIsRegistered, Msg
<1>6. CASE PeerOf(c, to) # NoConn /\ SendMessage(PeerOf(c, to), Msg(type, peerId[c]))
  <2>1. r = PeerOf(c, to) /\ sendBuf'[r][Len(sendBuf'[r])] = Msg(type, peerId[c])
    BY <1>3, <1>6, SendAppends DEF RegistryInv
  <2>2. QED
    BY <1>1, <1>2, <1>6, <2>1 DEF OriginatorIsRegistered, Msg
<1>7. QED
  BY <1>4, <1>5, <1>6

\* Every handler that makes a buffer longer names a registered originator.
LEMMA StepOriginators ==
    ASSUME RegistryInv, [Next]_vars, NEW r \in Conns, Len(sendBuf'[r]) > Len(sendBuf[r])
    PROVE  OriginatorIsRegistered(r)
<1>0. sendBuf \in [Conns -> Seq(Message)] /\ \A c \in Conns : Len(sendBuf[c]) \in Nat
  BY DEF RegistryInv, TypeInv, TypeOK
<1>1. sendBuf'[r] # sendBuf[r]
  BY <1>0
<1>2. ASSUME NEW c \in Conns, Closed(c) PROVE FALSE
  BY <1>0, <1>2 DEF Closed
<1>3. ASSUME NEW c \in Conns, Writeable(c) PROVE FALSE
  <2>1. PICK written \in 0 .. Len(sendBuf[c]) :
          sendBuf' = [sendBuf EXCEPT ![c] = SubSeq(@, written + 1, Len(@))]
    BY <1>3 DEF Writeable
  <2>2. Len(SubSeq(sendBuf[c], written + 1, Len(sendBuf[c]))) <= Len(sendBuf[c])
    BY <1>0, <2>1
  <2>3. QED
    BY <1>0, <2>1, <2>2
<1>4. ASSUME NEW c \in Conns, NEW hello, HelloServer(c, hello) PROVE OriginatorIsRegistered(r)
  <2>1. HelloAccepted(c, hello)
    BY <1>1, <1>2, <1>4 DEF HelloServer, HelloRejected, vars, bufVars
  <2>2. \E id : sendBuf'[r][Len(sendBuf'[r])] = Msg("HelloClient", id)
    BY <2>1, SendAppends DEF HelloAccepted, RegistryInv
  <2>3. QED
    BY <2>2 DEF OriginatorIsRegistered, Msg, ForwardedTypes
<1>5. ASSUME NEW c \in Conns, NEW to \in Targets, NEW emulated,
             P2POffer(c, to, emulated)
      PROVE  OriginatorIsRegistered(r)
  BY <1>5, HandlerOriginates DEF P2POffer, MessageTypes, ForwardedTypes
<1>6. ASSUME NEW c \in Conns, NEW to \in Targets, P2PAnswer(c, to)
      PROVE  OriginatorIsRegistered(r)
  BY <1>6, HandlerOriginates DEF P2PAnswer, MessageTypes, ForwardedTypes
<1>7. ASSUME NEW c \in Conns, NEW to \in Targets,
             ICECandidate(c, to) \/ P2PRelayData(c, to) \/ P2PReject(c, to)
      PROVE  OriginatorIsRegistered(r)
  BY <1>1, <1>7, HandlerOriginates
  DEF ICECandidate, P2PRelayData, P2PReject, Forward, bufVars, MessageTypes, ForwardedTypes
<1>8. ASSUME NEW c \in Conns, NEW name \in Names, AliasLookup(c, name)
      PROVE  OriginatorIsRegistered(r)
  <2>1. sendBuf'[r][Len(sendBuf'[r])].type = "AliasResolved"
    BY <1>8, SendAppends DEF AliasLookup, RegistryInv
  <2>2. QED
    BY <2>1 DEF OriginatorIsRegistered, ForwardedTypes
<1>9. ~ UNCHANGED bufVars
  BY <1>1 DEF bufVars
<1>10. QED
  BY ZenonT(60), <1>2, <1>3, <1>4, <1>5, <1>6, <1>7, <1>8, <1>9
  DEF Next, Receive, Established, Disconnected, NotAuthenticated, LoggedOnly, AliasRegister,
      AliasUnregister, vars

\* As long as ids do not wrap, whatever the server passes on names a peer
\* that is registered in the receiver's game when the message is queued.
THEOREM OriginatorsCorrect ==
    ASSUME NoWrap
    PROVE  Spec => OriginatorsAreRegistered
<1>1. RegistryInv /\ [Next]_vars =>
        [\A c \in Conns :
           Len(sendBuf'[c]) > Len(sendBuf[c]) =>
               LET msg == sendBuf'[c][Len(sendBuf'[c])]
               IN  msg.type \in ForwardedTypes =>
                       \E d \in signalConnections : game[d] = game[c] /\ peerId[d] = msg.peerId]_vars
  BY StepOriginators DEF OriginatorIsRegistered
<1>2. QED
  BY <1>1, RegistryInvariant, PTL DEF Spec, OriginatorsAreRegistered

-----------------------------------------------------------------------------
(* Ids and aliases, and who changes their entries *)

\* The entry of an id that has been given out names the connection that got it
\* until that one leaves, and then nobody for good: a peer that comes back, or a
\* connection at a reused address, gets an id of its own (game->nextPeerId).
IdsAreGivenOnce ==
    [][\A g \in Games, i \in PeerIds \ {0} :
          /\ nextPeerId[g] <= nextPeerId'[g]
          /\ i < nextPeerId[g] => peers'[g][i] \in {peers[g][i], NoConn}]_vars

\* An alias that somebody owns is never given to somebody else, and it is given
\* up only when the connection of its owner asks for that, or is closed.
AliasesAreGivenUp ==
    [][\A g \in Games, n \in Names :
          aliases[g][n] # 0 /\ aliases'[g][n] # aliases[g][n] =>
              LET owner == peers[g][aliases[g][n]] IN
              /\ aliases'[g][n] = 0
              /\ \/ AliasUnregister(owner, n) \/ AliasUnregister(owner, NoName)
                 \/ owner \in signalConnections \ signalConnections']_vars

\* The handlers that leave ids and aliases alone.
LEMMA RegistryChanges ==
    ASSUME NEW c \in Conns, Established(c) \/ Disconnected(c) \/ Writeable(c) \/ Receive(c)
    PROVE  \/ Closed(c)
           \/ \E hello \in Hellos : HelloAccepted(c, hello)
           \/ \E name \in Names : AliasRegister(c, name)
           \/ \E name \in Names \cup {NoName} : AliasUnregister(c, name)
           \/ UNCHANGED <<nextPeerId, peers, aliases>>
<1>1. ASSUME NEW hello \in Hellos, HelloServer(c, hello)
      PROVE  \/ Closed(c) \/ HelloAccepted(c, hello) \/ UNCHANGED <<nextPeerId, peers, aliases>>
  BY <1>1 DEF HelloServer, HelloRejected, vars, gameVars
<1>2. ASSUME NEW to \in Targets,
             \/ \E emulated \in BOOLEAN : P2POffer(c, to, emulated)
             \/ P2PAnswer(c, to) \/ ICECandidate(c, to) \/ P2PRelayData(c, to) \/ P2PReject(c, to)
      PROVE  UNCHANGED <<nextPeerId, peers, aliases>>
  BY <1>2 DEF P2POffer, P2PAnswer, ICECandidate, P2PRelayData, P2PReject, gameVars
<1>3. ASSUME NEW name \in Names, AliasLookup(c, name)
      PROVE  UNCHANGED <<nextPeerId, peers, aliases>>
  BY <1>3 DEF AliasLookup, gameVars
<1>4. ASSUME Established(c) \/ Writeable(c) \/ LoggedOnly(c)
      PROVE  UNCHANGED <<nextPeerId, peers, aliases>>
  BY <1>4 DEF Established, Writeable, LoggedOnly, vars, gameVars
<1>5. Disconnected(c) \/ NotAuthenticated(c) => Closed(c)
  BY DEF Disconnected, NotAuthenticated
<1>6. QED
  BY <1>1, <1>2, <1>3, <1>4, <1>5 DEF Receive

\* Ids are given out by HelloServer alone, and taken back by the close of the
\* connection alone.
LEMMA StepIds ==
    ASSUME NoWrap, RegistryInv, [Next]_vars, NEW g \in Games, NEW i \in PeerIds \ {0}
    PROVE  /\ nextPeerId[g] <= nextPeerId'[g]
           /\ i < nextPeerId[g] => peers'[g][i] \in {peers[g][i], NoConn}
<1>0. /\ peers \in [Games -> [PeerIds -> Conns \cup {NoConn}]] /\ nextPeerId \in [Games -> PeerIds]
      /\ nextPeerId[g] \in Nat /\ i \in Nat
  BY PeerServerAssumption DEF RegistryInv, TypeInv, TypeOK, PeerIds
<1>1. CASE UNCHANGED <<nextPeerId, peers>>
  BY <1>0, <1>1
<1>2. ASSUME NEW c \in Conns, Closed(c)
      PROVE  nextPeerId' = nextPeerId /\ peers'[g][i] \in {peers[g][i], NoConn}
  <2>1. nextPeerId' = nextPeerId
    BY <1>2 DEF Closed
  <2>2. CASE peerId[c] = 0
    BY <1>2, <2>1, <2>2 DEF Closed
  <2>3. CASE peerId[c] # 0
    <3>1. game[c] \in Games /\ peerId[c] \in PeerIds
      BY <2>3 DEF RegistryInv, TypeInv, TypeOK, RegisteredHaveGame
    <3>2. peers' = [peers EXCEPT ![game[c]][peerId[c]] = NoConn]
      BY <1>2, <2>3 DEF Closed
    <3>3. QED
      BY <1>0, <2>1, <3>1, <3>2
  <2>4. QED
    BY <2>2, <2>3
<1>3. ASSUME NEW c \in Conns, NEW hello \in Hellos, HelloAccepted(c, hello)
      PROVE  /\ nextPeerId[g] <= nextPeerId'[g]
             /\ i < nextPeerId[g] => peers'[g][i] = peers[g][i]
  <2> DEFINE h  == GetVerifiedGame(hello)
             id == nextPeerId[h]
  <2>1. h \in Games
    BY <1>3, VerifiedGame DEF HelloAccepted
  <2>2. id \in PeerIds /\ id \in Nat /\ id <= MaxIds
    BY <1>0, <1>3, <2>1 DEF HelloAccepted, PeerIds
  <2>3. nextPeerId' = [nextPeerId EXCEPT ![h] = id + 1]
    BY <1>3, <2>2, NextIdNoWrap DEF HelloAccepted
  <2>4. peers' = IF peers[h][id] = NoConn THEN [peers EXCEPT ![h][id] = c] ELSE peers
    BY <1>3 DEF HelloAccepted
  <2> HIDE DEF h
  <2>5. QED
    BY <1>0, <2>1, <2>2, <2>3, <2>4
<1>4. ASSUME NEW c \in Conns, NEW name, AliasRegister(c, name) \/ AliasUnregister(c, name)
      PROVE  UNCHANGED <<nextPeerId, peers>>
  BY <1>4 DEF AliasRegister, AliasUnregister
<1>5. CASE UNCHANGED vars
  BY <1>1, <1>5 DEF vars, gameVars
<1>6. CASE Next
  <2>1. PICK c \in Conns : Established(c) \/ Disconnected(c) \/ Writeable(c) \/ Receive(c)
    BY <1>6 DEF Next
  <2>2. QED
    BY <1>0, <1>1, <1>2, <1>3, <1>4, <2>1, RegistryChanges
<1>7. QED
  BY <1>5, <1>6

\* Aliases change by their owner's messages or its close.
LEMMA StepAliases ==
    ASSUME RegistryInv, [Next]_vars, NEW g \in Games, NEW n \in Names,
           aliases[g][n] # 0, aliases'[g][n] # aliases[g][n]
    PROVE  LET owner == peers[g][aliases[g][n]] IN
           /\ aliases'[g][n] = 0
           /\ \/ AliasUnregister(owner, n) \/ AliasUnregister(owner, NoName)
              \/ owner \in signalConnections \ signalConnections'
<1> DEFINE owner == peers[g][aliases[g][n]]
<1>0. aliases \in [Games -> [Names -> PeerIds]] /\ peerId \in [Conns -> PeerIds]
  BY DEF RegistryInv, TypeInv, TypeOK
<1>1. ASSUME NEW c \in signalConnections, peerId[c] # 0
      PROVE  game[c] \in Games /\ peers[game[c]][peerId[c]] = c
  BY <1>1 DEF RegistryInv, TypeInv, TypeOK, RegisteredHaveGame, ConnectionsAreListed
<1>2. PICK c \in Conns : Established(c) \/ Disconnected(c) \/ Writeable(c) \/ Receive(c)
  BY DEF Next, vars, gameVars
<1>3. ASSUME Closed(c)
      PROVE  aliases'[g][n] = 0 /\ owner \in signalConnections \ signalConnections'
  <2>1. peerId[c] # 0 /\ c \in signalConnections
    BY <1>3 DEF Closed, RegistryInv, TypeInv, TypeOK, RegisteredHaveGame
  <2>2. game[c] \in Games /\ peers[game[c]][peerId[c]] = c
    BY <1>1, <2>1
  <2>3. aliases' = [aliases EXCEPT ![game[c]] = WithoutAliasesOf(@, peerId[c])]
    BY <1>3, <2>1 DEF Closed
  <2>4. g = game[c] /\ aliases[g][n] = peerId[c] /\ aliases'[g][n] = 0
    BY <1>0, <2>2, <2>3 DEF WithoutAliasesOf
  <2>5. signalConnections' = signalConnections \ {c}
    BY <1>3 DEF Closed
  <2>6. QED
    BY <2>1, <2>2, <2>4, <2>5
<1>4. ASSUME NEW name \in Names, AliasRegister(c, name)
      PROVE  FALSE
  BY <1>0, <1>1, <1>4 DEF AliasRegister, Registered
<1>5. ASSUME NEW name \in Names \cup {NoName}, AliasUnregister(c, name)
      PROVE  aliases'[g][n] = 0 /\ owner = c /\ name \in {n, NoName}
  <2>1. c \in signalConnections /\ peerId[c] # 0
    BY <1>5 DEF AliasUnregister, Registered
  <2>2. game[c] \in Games /\ peers[game[c]][peerId[c]] = c
    BY <1>1, <2>1
  <2>3. CASE name = NoName
    BY <1>0, <1>5, <2>2, <2>3 DEF AliasUnregister, WithoutAliasesOf
  <2>4. CASE name # NoName
    BY <1>0, <1>5, <2>2, <2>4 DEF AliasUnregister
  <2>5. QED
    BY <2>3, <2>4
<1>6. ASSUME NEW hello \in Hellos, HelloAccepted(c, hello)
      PROVE  FALSE
  BY <1>6 DEF HelloAccepted
<1>7. QED
  BY <1>2, <1>3, <1>4, <1>5, <1>6, RegistryChanges

\* As long as they do not wrap, the ids of a game are given out in order, each
\* to one connection, and never again.
THEOREM IdsCorrect ==
    ASSUME NoWrap
    PROVE  Spec => IdsAreGivenOnce
<1>1. RegistryInv /\ [Next]_vars =>
        [\A g \in Games, i \in PeerIds \ {0} :
            /\ nextPeerId[g] <= nextPeerId'[g]
            /\ i < nextPeerId[g] => peers'[g][i] \in {peers[g][i], NoConn}]_vars
  BY StepIds
<1>2. QED
  BY <1>1, RegistryInvariant, PTL DEF Spec, IdsAreGivenOnce

\* As long as ids do not wrap, nobody loses an alias through what another
\* connection sends: only AliasUnregister of its owner and LWS_CALLBACK_CLOSED
\* of its owner's connection give it up.
THEOREM OwnersCorrect ==
    ASSUME NoWrap
    PROVE  Spec => AliasesAreGivenUp
<1>1. RegistryInv /\ [Next]_vars =>
        [\A g \in Games, n \in Names :
            aliases[g][n] # 0 /\ aliases'[g][n] # aliases[g][n] =>
                LET owner == peers[g][aliases[g][n]] IN
                /\ aliases'[g][n] = 0
                /\ \/ AliasUnregister(owner, n) \/ AliasUnregister(owner, NoName)
                   \/ owner \in signalConnections \ signalConnections']_vars
  BY StepAliases
<1>2. QED
  BY <1>1, RegistryInvariant, PTL DEF Spec, AliasesAreGivenUp

-----------------------------------------------------------------------------
(* What a client is told of itself *)

\* A HelloClient that waits for a client has the id under which the server has
\* listed that client's connection: what is queued for one connection is never
\* left for the next at its address.
HelloClientsNameTheirReceiver ==
    \A c \in Conns : \A k \in DOMAIN sendBuf[c] :
        sendBuf[c][k].type = "HelloClient" =>
            c \in signalConnections /\ sendBuf[c][k].peerId = peerId[c] /\ peerId[c] # 0

\* The inductive part: what holds of HelloClient messages is kept when only
\* messages of other types are queued, and messages go from the front.
LEMMA HellosKept ==
    ASSUME TypeInv, HelloClientsNameTheirReceiver, UNCHANGED <<signalConnections, peerId>>,
           \/ \E d \in Conns : \E msg : SendMessage(d, msg) /\ msg.type # "HelloClient"
           \/ \E d \in Conns : \E n \in 0 .. Len(sendBuf[d]) :
                 sendBuf' = [sendBuf EXCEPT ![d] = SubSeq(@, n + 1, Len(@))]
           \/ UNCHANGED sendBuf
    PROVE  HelloClientsNameTheirReceiver'
<1>0. sendBuf \in [Conns -> Seq(Message)]
  BY DEF TypeInv, TypeOK
<1>1. SUFFICES ASSUME NEW c \in Conns, NEW k \in DOMAIN sendBuf'[c],
                      sendBuf'[c][k].type = "HelloClient"
               PROVE  \E j \in DOMAIN sendBuf[c] : sendBuf'[c][k] = sendBuf[c][j]
  BY DEF HelloClientsNameTheirReceiver
<1>2. ASSUME NEW d \in Conns, NEW msg, SendMessage(d, msg), msg.type # "HelloClient"
      PROVE  k \in DOMAIN sendBuf[c] /\ sendBuf'[c][k] = sendBuf[c][k]
  <2>1. sendBuf' = [sendBuf EXCEPT ![d] = Append(@, msg)]
    BY <1>2 DEF SendMessage
  <2>2. CASE c = d /\ k = Len(sendBuf[c]) + 1
    BY <1>0, <1>1, <1>2, <2>1, <2>2
  <2>3. CASE ~ (c = d /\ k = Len(sendBuf[c]) + 1)
    BY <1>0, <2>1, <2>3
  <2>4. QED
    BY <2>2, <2>3
<1>3. ASSUME NEW d \in Conns, NEW n \in 0 .. Len(sendBuf[d]),
             sendBuf' = [sendBuf EXCEPT ![d] = SubSeq(@, n + 1, Len(@))]
      PROVE  \E j \in DOMAIN sendBuf[c] : sendBuf'[c][k] = sendBuf[c][j]
  <2>1. CASE c = d
    <3>1. n + k \in DOMAIN sendBuf[c] /\ sendBuf'[c][k] = sendBuf[c][n + k]
      BY <1>0, <1>3, <2>1
    <3>2. QED
      BY <3>1
  <2>2. CASE c # d
    BY <1>0, <1>3, <2>2
  <2>3. QED
    BY <2>1, <2>2
<1>4. QED
  BY <1>2, <1>3

\* HelloServer alone queues a HelloClient, with the id it has just listed.
LEMMA StepHellos ==
    ASSUME NoWrap, RegistryInv, HelloClientsNameTheirReceiver, [Next]_vars
    PROVE  HelloClientsNameTheirReceiver'
<1>0. /\ TypeInv
      /\ sendBuf \in [Conns -> Seq(Message)] /\ peerId \in [Conns -> PeerIds]
  BY DEF RegistryInv, TypeInv, TypeOK
<1>1. CASE UNCHANGED vars
  BY <1>0, <1>1, HellosKept DEF vars, connVars, bufVars
<1>2. ASSUME NEW c \in Conns, Closed(c)
      PROVE  HelloClientsNameTheirReceiver'
  BY <1>0, <1>2 DEF HelloClientsNameTheirReceiver, Closed
<1>3. ASSUME NEW c \in Conns, Established(c)
      PROVE  HelloClientsNameTheirReceiver'
  BY <1>3 DEF Established, bufVars, HelloClientsNameTheirReceiver
<1>4. ASSUME NEW c \in signalConnections, peerId[c] = 0, NEW hello, HelloAccepted(c, hello)
      PROVE  HelloClientsNameTheirReceiver'
  <2> DEFINE id == nextPeerId[GetVerifiedGame(hello)]
  <2>1. c \in Conns
    BY DEF RegistryInv, TypeInv, TypeOK
  <2>2. /\ sendBuf' = [sendBuf EXCEPT ![c] = Append(@, Msg("HelloClient", id))]
        /\ peerId' = [peerId EXCEPT ![c] = id]
        /\ UNCHANGED signalConnections
    BY <1>4 DEF HelloAccepted, SendMessage
  <2>3. id # 0
    BY <1>4, VerifiedGame DEF HelloAccepted, RegistryInv, IdsBelowNext
  <2>4. SUFFICES ASSUME NEW d \in Conns, NEW k \in DOMAIN sendBuf'[d],
                        sendBuf'[d][k].type = "HelloClient"
                 PROVE  d \in signalConnections' /\ sendBuf'[d][k].peerId = peerId'[d] /\ peerId'[d] # 0
    BY DEF HelloClientsNameTheirReceiver
  <2>5. CASE d # c
    BY <1>0, <2>2, <2>4, <2>5 DEF HelloClientsNameTheirReceiver
  <2>6. CASE d = c /\ k = Len(sendBuf[c]) + 1
    <3>1. sendBuf'[d][k] = Msg("HelloClient", id)
      BY <1>0, <2>1, <2>2, <2>6
    <3>2. QED
      BY <1>0, <1>4, <2>1, <2>2, <2>3, <2>6, <3>1 DEF Msg
  <2>7. CASE d = c /\ k # Len(sendBuf[c]) + 1
    <3>1. k \in DOMAIN sendBuf[c] /\ sendBuf'[d][k] = sendBuf[c][k]
      BY <1>0, <2>1, <2>2, <2>4, <2>7
    <3>2. QED
      BY <1>4, <2>1, <2>4, <2>7, <3>1 DEF HelloClientsNameTheirReceiver
  <2>8. QED
    BY <2>5, <2>6, <2>7
<1>5. ASSUME NEW c \in Conns, NEW to \in Targets,
             \/ \E emulated \in BOOLEAN : P2POffer(c, to, emulated)
             \/ P2PAnswer(c, to) \/ ICECandidate(c, to) \/ P2PRelayData(c, to) \/ P2PReject(c, to)
      PROVE  HelloClientsNameTheirReceiver'
  <2>1. PeerOf(c, to) \in Conns \cup {NoConn}
    BY <1>0, <1>5, PeerServerAssumption, PeerOfType
    DEF P2POffer, P2PAnswer, ICECandidate, P2PRelayData, P2PReject, Registered, TypeInv, RegisteredHaveGame
  <2>2. UNCHANGED <<signalConnections, peerId>>
    BY <1>5 DEF P2POffer, P2PAnswer, ICECandidate, P2PRelayData, P2PReject, connVars
  <2>3. \/ UNCHANGED sendBuf
        \/ \E d \in Conns, type \in ForwardedTypes \cup {"NoSuchPeer"} : \E id : SendMessage(d, Msg(type, id))
    BY <1>5, <2>1
    DEF P2POffer, P2PAnswer, ICECandidate, P2PRelayData, P2PReject, Forward, bufVars, ForwardedTypes
  <2>4. \A id : \A type \in ForwardedTypes \cup {"NoSuchPeer"} : Msg(type, id).type # "HelloClient"
    BY DEF Msg, ForwardedTypes
  <2>5. \/ UNCHANGED sendBuf
        \/ \E d \in Conns : \E msg : SendMessage(d, msg) /\ msg.type # "HelloClient"
    BY <2>3, <2>4
  <2>6. QED
    BY <1>0, <2>2, <2>5, HellosKept
<1>6. ASSUME NEW c \in Conns, NEW name \in Names, AliasLookup(c, name)
      PROVE  HelloClientsNameTheirReceiver'
  BY <1>0, <1>6, HellosKept DEF AliasLookup, connVars
<1>7. ASSUME NEW c \in Conns, NEW name, AliasRegister(c, name) \/ AliasUnregister(c, name)
      PROVE  HelloClientsNameTheirReceiver'
  BY <1>0, <1>7, HellosKept DEF AliasRegister, AliasUnregister, connVars, bufVars
<1>8. ASSUME NEW c \in Conns, Writeable(c)
      PROVE  HelloClientsNameTheirReceiver'
  BY <1>0, <1>8, HellosKept DEF Writeable, connVars
<1>9. ASSUME NEW c \in Conns, NEW hello, HelloServer(c, hello)
      PROVE  HelloClientsNameTheirReceiver'
  BY <1>1, <1>2, <1>4, <1>9 DEF HelloServer, HelloRejected
<1>10. QED
  BY ZenonT(60), <1>1, <1>2, <1>3, <1>5, <1>6, <1>7, <1>8, <1>9
  DEF Next, Receive, Disconnected, NotAuthenticated, LoggedOnly

\* As long as ids do not wrap, a client learns the id other peers find it by.
THEOREM HellosCorrect ==
    ASSUME NoWrap
    PROVE  Spec => []HelloClientsNameTheirReceiver
<1>1. Init => HelloClientsNameTheirReceiver
  BY DEF Init, HelloClientsNameTheirReceiver
<1>2. RegistryInv /\ HelloClientsNameTheirReceiver /\ [Next]_vars => HelloClientsNameTheirReceiver'
  BY StepHellos
<1>3. QED
  BY <1>1, <1>2, RegistryInvariant, PTL DEF Spec

-----------------------------------------------------------------------------
(* Verification of games *)

\* What is concatenated between the same parts is equal when the whole is.
LEMMA MiddleIsEqual ==
    ASSUME NEW S, NEW a \in Seq(S), NEW b \in Seq(S), NEW rest \in Seq(S),
           a \o a \o rest = a \o b \o rest
    PROVE  a = b
<1>1. /\ a \o a \in Seq(S) /\ a \o b \in Seq(S)
      /\ Len(a \o a) = Len(a) + Len(a) /\ Len(a \o b) = Len(a) + Len(b)
  OBVIOUS
<1>2. /\ Len(a \o a \o rest) = Len(a) + Len(a) + Len(rest)
      /\ Len(a \o b \o rest) = Len(a) + Len(b) + Len(rest)
  BY <1>1
<1>3. Len(a) = Len(b)
  BY <1>2
<1>4. ASSUME NEW i \in 1 .. Len(a) PROVE a[i] = b[i]
  <2>1. (a \o a)[Len(a) + i] = a[i] /\ (a \o b)[Len(a) + i] = b[i]
    BY <1>3
  <2>2. /\ (a \o a \o rest)[Len(a) + i] = (a \o a)[Len(a) + i]
        /\ (a \o b \o rest)[Len(a) + i] = (a \o b)[Len(a) + i]
    BY <1>1, <1>3
  <2>3. QED
    BY <2>1, <2>2
<1>5. QED
  BY <1>3, <1>4

\* A HelloServer with the tokens and attributes of a client of a known game,
\* signed by the client library with the game's secret.
SignedWith(hello, S) ==
    /\ SignedWithGameSecret(hello)
    /\ hello.gameSignature # NoSig
    /\ hello.authToken \in Seq(S) /\ hello.reconnectToken \in Seq(S) /\ hello.attributes \in Seq(S)

\* When getVerifiedGame accepts a client that signs with its game's secret:
\* always if the game does not verify, and if it does, just when the auth
\* token, which the server digests twice, is also the reconnect token.
THEOREM SignatureVerified ==
    ASSUME NEW S, NEW hello, SignedWith(hello, S)
    PROVE  GetVerifiedGame(hello) =
               IF GameDB[hello.gameToken].verify => hello.authToken = hello.reconnectToken
               THEN GameDB[hello.gameToken].game_id
               ELSE NoGame
<1> DEFINE record == GameDB[hello.gameToken]
           client == hello.authToken \o hello.reconnectToken \o hello.attributes
           server == hello.authToken \o hello.authToken \o hello.attributes
<1>1. hello.gameToken \in DOMAIN GameDB /\ hello.gameSignature = <<record.secret, client>>
  BY DEF SignedWith, SignedWithGameSecret, SignedHello, Hmac
<1>2. ServerDigest(record.secret, hello) = <<record.secret, server>>
  BY DEF ServerDigest, Hmac
<1>3. client = server => hello.authToken = hello.reconnectToken
  BY MiddleIsEqual DEF SignedWith
<1> HIDE DEF client, server
<1>4. (hello.gameSignature = ServerDigest(record.secret, hello)) <=> (client = server)
  BY <1>1, <1>2
<1>5. hello.authToken = hello.reconnectToken => client = server
  BY DEF client, server
<1>6. QED
  BY <1>1, <1>3, <1>4, <1>5 DEF GetVerifiedGame, SignedWith

\* The clients of games that verify sign and have the same value for both
\* tokens, such as the empty one.
TokensAgree ==
    \A hello \in Hellos : SignedWithGameSecret(hello) =>
        /\ \E S : SignedWith(hello, S)
        /\ GameDB[hello.gameToken].verify => hello.authToken = hello.reconnectToken

\* Unless a client of a game that verifies has an auth token that is not its
\* reconnect token, a client that signs with its game's secret is let in.
THEOREM SignedClientsCorrect ==
    ASSUME TokensAgree
    PROVE  Spec => SignedClientsAreAccepted
<1>1. ASSUME NEW c \in signalConnections, NEW hello \in Hellos,
             SignedWithGameSecret(hello), HelloServer(c, hello)
      PROVE  c \in signalConnections'
  <2>1. PICK S : SignedWith(hello, S)
    BY <1>1 DEF TokensAgree
  <2>2. GetVerifiedGame(hello) = GameDB[hello.gameToken].game_id
    BY <1>1, <2>1, SignatureVerified DEF TokensAgree
  <2>3. GetVerifiedGame(hello) # NoGame
    BY <1>1, <2>2, GameAuthAssumption DEF SignedWithGameSecret, Games
  <2>4. QED
    BY <1>1, <2>3 DEF HelloServer, HelloRejected, HelloAccepted, vars, connVars
<1>2. [Next]_vars =>
        [\A c \in signalConnections, hello \in Hellos :
           (SignedWithGameSecret(hello) /\ HelloServer(c, hello)) => c \in signalConnections']_vars
  BY <1>1
<1>3. QED
  BY <1>2, PTL DEF Spec, SignedClientsAreAccepted

-----------------------------------------------------------------------------
(* Refinement of the registry *)

\* Every callback and every handler is a step of the abstract registry, or a
\* stutter.
LEMMA StepRefinesRegistry ==
    ASSUME NoWrap, RegistryInv, RegistryInv', [Next]_vars
    PROVE  [Registry!Next]_(Registry!vars)
<1> DEFINE used == {p \in Games \X PeerIds : 0 < p[2] /\ p[2] < nextPeerId[p[1]]}
           members == {p \in Games \X PeerIds : peers[p[1]][p[2]] # NoConn}
<1>0. ASSUME UNCHANGED gameVars
      PROVE  UNCHANGED Registry!vars
  BY <1>0 DEF Registry!vars, gameVars
<1>1. ASSUME NEW c \in Conns, Closed(c)
      PROVE  [Registry!Next]_(Registry!vars)
  <2>1. CASE peerId[c] = 0
    BY <1>0, <1>1, <2>1 DEF Closed, gameVars
  <2>2. CASE peerId[c] # 0
    <3> DEFINE g == game[c]
               i == peerId[c]
    <3>1. g \in Games /\ i \in PeerIds \ {0} /\ peers[g][i] # NoConn
      BY <2>2, PeerServerAssumption
      DEF RegistryInv, TypeInv, TypeOK, RegisteredHaveGame, ConnectionsAreListed
    <3>2. \A h \in Games, j \in PeerIds :
              peers'[h][j] = IF h = g /\ j = i THEN NoConn ELSE peers[h][j]
      BY <1>1, <2>2, <3>1 DEF Closed, RegistryInv, TypeInv, TypeOK
    <3>3. <<g, i>> \in members /\ members' = members \ {<<g, i>>}
      BY <3>1, <3>2
    <3>4. used' = used
      BY <1>1 DEF Closed
    <3>5. aliases' = [aliases EXCEPT ![g] = [n \in Names |-> IF @[n] = i THEN 0 ELSE @[n]]]
      BY <1>1, <2>2 DEF Closed, WithoutAliasesOf
    <3>6. Registry!Leave(g, i)
      BY <3>3, <3>4, <3>5 DEF Registry!Leave
    <3>7. \E h \in Games, j \in PeerIds \ {0} : Registry!Leave(h, j)
      BY <3>1, <3>6 DEF Registry!Leave
    <3>8. QED
      BY <3>7 DEF Registry!Next
  <2>3. QED
    BY <2>1, <2>2
<1>2. ASSUME NEW c \in signalConnections, NEW hello, HelloAccepted(c, hello)
      PROVE  [Registry!Next]_(Registry!vars)
  <2> DEFINE g  == GetVerifiedGame(hello)
             id == nextPeerId[g]
  <2>1. g \in Games /\ id \in PeerIds \ {0} /\ id \in Nat /\ id <= MaxIds /\ c # NoConn
    BY <1>2, VerifiedGame, PeerServerAssumption
    DEF HelloAccepted, RegistryInv, TypeInv, TypeOK, IdsBelowNext, PeerIds
  <2>2. \A h \in Games : nextPeerId'[h] = IF h = g THEN id + 1 ELSE nextPeerId[h]
    BY <1>2, <2>1, NextIdNoWrap DEF HelloAccepted, RegistryInv, TypeInv, TypeOK
  <2>3. peers[g][id] = NoConn
    BY <2>1 DEF RegistryInv, IdsBelowNext
  <2>4. \A h \in Games, j \in PeerIds :
            peers'[h][j] = IF h = g /\ j = id THEN c ELSE peers[h][j]
    BY <1>2, <2>1, <2>3 DEF HelloAccepted, RegistryInv, TypeInv, TypeOK
  <2>5. \A h \in Games : nextPeerId[h] \in Nat
    BY DEF RegistryInv, IdsBelowNext
  <2>6. <<g, id>> \notin used /\ used' = used \cup {<<g, id>>}
    <3>1. ASSUME NEW h \in Games, NEW j \in PeerIds
          PROVE  0 < j /\ j < nextPeerId'[h] <=>
                     (0 < j /\ j < nextPeerId[h]) \/ (h = g /\ j = id)
      BY <2>1, <2>2, <2>5, PeerServerAssumption DEF PeerIds
    <3>2. QED
      BY <2>1, <3>1 DEF PeerIds
  <2>7. members' = members \cup {<<g, id>>}
    BY <2>1, <2>4
  <2>8. aliases' = aliases
    BY <1>2 DEF HelloAccepted
  <2>9. Registry!Join(g, id)
    BY <2>6, <2>7, <2>8 DEF Registry!Join
  <2>10. \E h \in Games, j \in PeerIds \ {0} : Registry!Join(h, j)
    BY <2>1, <2>9 DEF Registry!Join
  <2>11. QED
    BY <2>10 DEF Registry!Next
<1>3. ASSUME NEW c \in Conns, NEW name \in Names, AliasRegister(c, name)
      PROVE  [Registry!Next]_(Registry!vars)
  <2>1. /\ game[c] \in Games /\ peerId[c] \in PeerIds \ {0}
        /\ <<game[c], peerId[c]>> \in members
    BY <1>3, PeerServerAssumption
    DEF AliasRegister, Registered, RegistryInv, TypeInv, TypeOK, RegisteredHaveGame,
        ConnectionsAreListed
  <2>2. UNCHANGED <<used, members>>
    BY <1>3 DEF AliasRegister
  <2>3. CASE aliases[game[c]][name] = 0
    <3>1. aliases' = [aliases EXCEPT ![game[c]][name] = peerId[c]]
      BY <1>3, <2>3 DEF AliasRegister
    <3>2. Registry!Claim(game[c], peerId[c], name)
      BY <2>1, <2>2, <2>3, <3>1 DEF Registry!Claim
    <3>3. \E g \in Games, i \in PeerIds \ {0} : Registry!Claim(g, i, name)
      BY <2>1, <3>2 DEF Registry!Claim
    <3>4. QED
      BY <3>3 DEF Registry!Next
  <2>4. CASE aliases[game[c]][name] # 0
    <3>1. UNCHANGED gameVars
      BY <1>3, <2>4 DEF AliasRegister, gameVars
    <3>2. QED
      BY <1>0, <3>1
  <2>5. QED
    BY <2>3, <2>4
<1>4. ASSUME NEW c \in Conns, NEW name \in Names \cup {NoName}, AliasUnregister(c, name)
      PROVE  [Registry!Next]_(Registry!vars)
  <2> DEFINE g  == game[c]
             i  == peerId[c]
             ns == IF name = NoName THEN {n \in Names : aliases[g][n] = i}
                   ELSE IF aliases[g][name] = i THEN {name} ELSE {}
  <2>1. g \in Games /\ i \in PeerIds \ {0} /\ <<g, i>> \in members
    BY <1>4, PeerServerAssumption
    DEF AliasUnregister, Registered, RegistryInv, TypeInv, TypeOK, RegisteredHaveGame,
        ConnectionsAreListed
  <2>2. UNCHANGED <<used, members>>
    BY <1>4 DEF AliasUnregister
  <2>3. ns \in SUBSET Names /\ \A n \in ns : aliases[g][n] = i
    BY <1>4
  <2>4. aliases \in [Games -> [Names -> PeerIds]]
    BY DEF RegistryInv, TypeInv, TypeOK
  <2>5. aliases' = [aliases EXCEPT ![g] = [n \in Names |-> IF n \in ns THEN 0 ELSE @[n]]]
    <3>1. aliases' \in [Games -> [Names -> PeerIds]]
      BY DEF RegistryInv, TypeInv, TypeOK
    <3>2. \A h \in Games, n \in Names :
              aliases'[h][n] = IF h = g /\ n \in ns THEN 0 ELSE aliases[h][n]
      BY <1>4, <2>1, <2>4, PeerServerAssumption DEF AliasUnregister, WithoutAliasesOf
    <3> DEFINE row == [n \in Names |-> IF n \in ns THEN 0 ELSE aliases[g][n]]
    <3>3. \A h \in Games : aliases'[h] = IF h = g THEN row ELSE aliases[h]
      <4> SUFFICES ASSUME NEW h \in Games
                   PROVE  aliases'[h] = IF h = g THEN row ELSE aliases[h]
        OBVIOUS
      <4>1. aliases'[h] \in [Names -> PeerIds] /\ aliases[h] \in [Names -> PeerIds]
        BY <2>4, <3>1
      <4>2. CASE h = g
        BY <3>2, <4>1, <4>2
      <4>3. CASE h # g
        BY <3>2, <4>1, <4>3
      <4>4. QED
        BY <4>2, <4>3
    <3>4. [aliases EXCEPT ![g] = row] = [h \in Games |-> IF h = g THEN row ELSE aliases[h]]
      BY <2>1, <2>4
    <3>5. aliases' = [h \in Games |-> aliases'[h]]
      BY <3>1
    <3>6. aliases' = [aliases EXCEPT ![g] = row]
      BY <3>3, <3>4, <3>5
    <3>7. QED
      BY <3>6
  <2>6. Registry!Release(g, i, ns)
    BY <2>1, <2>2, <2>3, <2>5 DEF Registry!Release
  <2>7. \E h \in Games, j \in PeerIds \ {0}, m \in SUBSET Names : Registry!Release(h, j, m)
    BY <2>1, <2>3, <2>6 DEF Registry!Release
  <2>8. QED
    BY <2>7 DEF Registry!Next
<1>5. QED
  BY <1>0, <1>1, <1>2, <1>3, <1>4
  DEF Next, Receive, Established, Disconnected, Writeable, NotAuthenticated, HelloServer,
      HelloRejected, P2POffer, P2PAnswer, ICECandidate, P2PRelayData, P2PReject, LoggedOnly,
      AliasLookup, vars

\* As long as ids do not wrap, the server is a registry: whatever messages
\* clients send, ids are given out once, aliases are not taken from their
\* owners and a peer leaves together with its aliases.
THEOREM RefinesRegistry ==
    ASSUME NoWrap
    PROVE  Spec => ImplementsRegistry
<1>1. Init => Registry!Init
  BY PeerServerAssumption DEF Init, Registry!Init, PeerIds
<1>2. RegistryInv /\ RegistryInv' /\ [Next]_vars => [Registry!Next]_(Registry!vars)
  BY StepRefinesRegistry
<1>3. Init => RegistryInv
  BY InitRegistry
<1>4. RegistryInv /\ [Next]_vars => RegistryInv'
  BY StepRegistry
<1>5. QED
  BY <1>1, <1>2, <1>3, <1>4, PTL DEF Spec, ImplementsRegistry, Registry!Spec
=============================================================================
