----------------------------- MODULE RtcSockets -----------------------------
(***************************************************************************)
(* The threads around a WebRTC socket: the application's calls, the        *)
(* handlers of signaling messages and the callbacks of the WebRTC          *)
(* library's signaling thread, over the Connection, the internal_socket_t  *)
(* and the libwebrtc_connection that belong together.                      *)
(*                                                                         *)
(* A call of the library is executed by its signaling thread while the     *)
(* caller waits, so no caller may hold the poll lock meanwhile             *)
(* (HUMBLENET_UNGUARD): it is given up in the middle of an operation, and  *)
(* what was read before is used after it.  A callback reads                *)
(* socket->user_data before it gets the lock.                              *)
(*                                                                         *)
(* One identifier stands for one Connection with its socket and its        *)
(* libwebrtc_connection; each is created once and each is to a peer of its *)
(* own.  The contents of messages are left out.  Of the library it is      *)
(* assumed that its signaling thread does one thing at a time, that it     *)
(* reports an opened channel once, that the channel of a closed connection *)
(* closes within the second before its destruction, and that a session     *)
(* description under way is dropped when the connection closes.            *)
(***************************************************************************)
EXTENDS Naturals, FiniteSets

CONSTANTS
    Ids,        \* Connections, with their sockets
    Apps,       \* threads of the application
    Chain,      \* the poll thread, which handles the messages of the peer server
    Sig,        \* the signaling thread of the WebRTC library
    NoThread    \* the lock is free

ASSUME RtcSocketsAssumption ==
    /\ Chain \notin Apps
    /\ Sig \notin Apps \cup {Chain}
    /\ NoThread \notin Apps \cup {Chain, Sig}

VARIABLES
    lock,          \* the owner of PollLock
    at,            \* what each thread is doing
    crash,         \* the process has died, and of what
    way,           \* Connection.inOrOut
    status,        \* Connection.status
    attached,      \* the Connections with a socket
    connections,   \* humbleNetState.connections
    pending,       \* pendingPeerConnectionsOut and In, by Connection.inOrOut
    remoteClosed,  \* remoteClosedConnections
    readable,      \* pendingDataConnections
    unread,        \* the Connections whose recvBuffer has something
    known,         \* the Connections in p2pconnections
    sock,          \* whether the socket exists
    userData,      \* the sockets whose user_data is their Connection
    closing,       \* internal_socket_t.closing
    rtc,           \* the library's connection: how far it has got
    channel        \* the data channel

Callers == Apps \cup {Chain}
Threads == Callers \cup {Sig}

connVars  == <<way, status, attached>>
tableVars == <<connections, pending, remoteClosed, readable, unread, known>>
sockVars  == <<sock, userData, closing>>
rtcVars   == <<rtc, channel>>
vars == <<lock, at, crash, connVars, tableVars, sockVars, rtcVars>>

\* What a thread does: where it is, with which Connection, what follows
\* humblenet_connection_set_closed, and in a callback whether the user_data it
\* has read is not NULL and the thread whose call it is part of.
Idle == [pc |-> "idle"]
Doing(pc, i) == [pc |-> pc, id |-> i, then |-> "return", data |-> TRUE, caller |-> NoThread]
CallingBack(pc, i, caller) ==
    [pc |-> pc, id |-> i, then |-> "release", data |-> i \in userData, caller |-> caller]

At(t, pc) == at[t].pc = pc
Go(t, pc) == at' = [at EXCEPT ![t].pc = pc]
Return(t) == at' = [at EXCEPT ![t] = Idle]

Allocated(i) == status[i] \notin {"none", "deleted"}
\* libwebrtc_connection::connection is not NULL.
Open(i) == rtc[i] \in {"new", "describing", "described", "ready", "connected"}

Init ==
    /\ lock = NoThread
    /\ at = [t \in Threads |-> Idle]
    /\ crash = "no"
    /\ way = [i \in Ids |-> "Outgoing"]
    /\ status = [i \in Ids |-> "none"]
    /\ attached = {} /\ connections = {} /\ pending = {} /\ remoteClosed = {}
    /\ readable = {} /\ unread = {} /\ known = {}
    /\ sock = [i \in Ids |-> "none"]
    /\ userData = {} /\ closing = {}
    /\ rtc = [i \in Ids |-> "none"]
    /\ channel = [i \in Ids |-> "none"]

\* An assertion fails or freed memory is used.
Crash(why) ==
    /\ crash' = why
    /\ UNCHANGED <<lock, at, connVars, tableVars, sockVars, rtcVars>>

-----------------------------------------------------------------------------
(* The lock. *)

\* Where a thread needs the lock to go on.
Guarded == {"created", "returned", "answered", "added", "written", "detach",
            "on_sdp", "on_ice_candidate", "on_connect", "on_channel", "on_data", "on_disconnect"}

\* The constructor of Guard, or the destructor of UnGuard.
Guard(t) ==
    /\ at[t].pc \in Guarded
    /\ lock = NoThread
    /\ lock' = t
    /\ UNCHANGED <<at, crash, connVars, tableVars, sockVars, rtcVars>>

\* The destructor of Guard and the constructor of UnGuard.
Unlock == lock' = NoThread

\* A call begins with the lock.
Call(t) == At(t, "idle") /\ lock = NoThread

\* What follows a Guard.
Locked(t, pc) == At(t, pc) /\ lock = t

-----------------------------------------------------------------------------
(* Closing a Connection. *)

\* Mutant: what a callback put into connections meanwhile stays there.
MarkClosedKeepingTracked(i, deleted) ==
    /\ status' = [status EXCEPT ![i] = IF deleted THEN "deleted" ELSE "CLOSED"]
    /\ attached' = attached \ {i}
    /\ pending' = pending \ {i}
    /\ readable' = readable \ {i}
    /\ unread' = IF deleted THEN unread \ {i} ELSE unread
    /\ remoteClosed' = IF deleted THEN remoteClosed \ {i} ELSE remoteClosed \cup {i}
    /\ UNCHANGED <<way, connections>>

\* humblenet_connection_set_closed after its UNGUARD; `deleted' as
\* humblenet_connection_close goes on.
MarkClosed(i, deleted) ==
    /\ status' = [status EXCEPT ![i] = IF deleted THEN "deleted" ELSE "CLOSED"]
    /\ attached' = attached \ {i}
    /\ connections' = connections \ {i}
    /\ pending' = pending \ {i}
    /\ readable' = readable \ {i}
    /\ unread' = IF deleted THEN unread \ {i} ELSE unread
    /\ remoteClosed' = IF deleted THEN remoteClosed \ {i} ELSE remoteClosed \cup {i}
    /\ UNCHANGED way

\* What a thread does when it has set a Connection closed: the signaling thread
\* lets go of the library's connection, whose destruction comes a second later
\* (OnSignalingChange), and goes on with the call it serves.
Continue(t) ==
    IF t = Sig
    THEN /\ rtc' = [rtc EXCEPT ![at[t].id] = "closed"]
         /\ at' = [u \in Threads |->
                     CASE u = Sig -> Idle
                       [] u = at[t].caller -> [at[u] EXCEPT !.pc = "detach"]
                       [] OTHER -> at[u]]
    ELSE Return(t) /\ UNCHANGED rtc

\* Mutant: the socket is closed with the lock.
SetClosedLocked(t, i, then) ==
    /\ IF i \in attached
       THEN /\ lock' = t
            /\ connections' = connections \ {i}
            /\ userData' = userData \ {i}
            /\ at' = [at EXCEPT ![t] = [CallingBack("close", i, NoThread) EXCEPT
                                          !.then = then,
                                          !.caller = IF t = Sig THEN at[t].caller ELSE NoThread]]
            /\ UNCHANGED <<connVars, pending, remoteClosed, readable, unread, rtc>>
       ELSE /\ Unlock
            /\ MarkClosed(i, then = "delete")
            /\ Continue(t)
            /\ UNCHANGED userData
    /\ UNCHANGED <<crash, sock, closing, channel>>

\* humblenet_connection_set_closed up to its UNGUARD, or all of it.
SetClosed(t, i, then) ==
    /\ Unlock
    /\ IF i \in attached
       THEN /\ connections' = connections \ {i}
            /\ userData' = userData \ {i}
            /\ at' = [at EXCEPT ![t] = [CallingBack("close", i, NoThread) EXCEPT
                                          !.then = then,
                                          !.caller = IF t = Sig THEN at[t].caller ELSE NoThread]]
            /\ UNCHANGED <<connVars, pending, remoteClosed, readable, unread, rtc>>
       ELSE /\ MarkClosed(i, then = "delete")
            /\ Continue(t)
            /\ UNCHANGED userData
    /\ UNCHANGED <<crash, sock, closing, channel>>

\* Mutant: the socket of a Connection is not closed but forgotten.
ForgetSocket(t) ==
    /\ At(t, "close")
    /\ Go(t, "detach")
    /\ UNCHANGED <<lock, crash, connVars, tableVars, sockVars, rtcVars>>

\* internal_close_socket(conn->socket), without the lock: whoever sees `closing'
\* leaves the closing to the other.
InternalCloseSocket(t) ==
    LET i == at[t].id IN
    /\ At(t, "close")
    /\ IF ~Allocated(i) \/ i \notin attached \/ sock[i] = "deleted"
       THEN Crash("use after free")
       ELSE /\ IF i \in closing
               THEN Go(t, "detach") /\ UNCHANGED closing
               ELSE Go(t, "close_connection") /\ closing' = closing \cup {i}
            /\ UNCHANGED <<lock, crash, connVars, tableVars, sock, userData, rtcVars>>

\* libwebrtc_close_connection asserts that there is a connection and calls it.
CloseConnection(t) ==
    LET i == at[t].id IN
    /\ At(t, "close_connection")
    /\ IF Open(i) /\ sock[i] = "live"
       THEN Go(t, "waiting") /\ UNCHANGED <<lock, crash, connVars, tableVars, sockVars, rtcVars>>
       ELSE Crash("use after free")

\* humblenet_connection_set_closed from its UNGUARD on.
Detach(t) ==
    LET i == at[t].id IN
    /\ Locked(t, "detach")
    /\ IF ~Allocated(i)
       THEN Crash("use after free")
       ELSE /\ MarkClosed(i, at[t].then = "delete")
            /\ Continue(t)
            /\ Unlock
            /\ known' = known
            /\ UNCHANGED <<crash, sockVars, channel>>

-----------------------------------------------------------------------------
(* The calls of the application and the handlers of signaling messages. *)

\* The call into the library uses a Connection or a socket that is gone.
Gone(i) == ~Allocated(i) \/ i \notin attached \/ sock[i] # "live" \/ ~Open(i)

\* humblenet_connect_peer and the P2POffer case of p2pSignalProcess, up to the
\* first UNGUARD.
NewConnection(t, i, inOrOut) ==
    /\ Call(t)
    /\ status[i] = "none"
    /\ status' = [status EXCEPT ![i] = "CONNECTING"]
    /\ way' = [way EXCEPT ![i] = inOrOut]
    /\ at' = [at EXCEPT ![t] = Doing("create", i)]
    /\ UNCHANGED <<lock, crash, attached, tableVars, sockVars, rtcVars>>

ConnectPeer(t, i) == t \in Apps /\ NewConnection(t, i, "Outgoing")
Offered(i) == NewConnection(Chain, i, "Incoming")

\* internal_create_webrtc, executed by the signaling thread.
CreateWebrtc(t) ==
    LET i == at[t].id IN
    /\ At(t, "create") /\ At(Sig, "idle")
    /\ sock' = [sock EXCEPT ![i] = "live"]
    /\ rtc' = [rtc EXCEPT ![i] = "new"]
    /\ attached' = attached \cup {i}
    /\ Go(t, "created")
    /\ UNCHANGED <<lock, crash, way, status, tableVars, userData, closing, channel>>

Created(t) ==
    LET i == at[t].id IN
    /\ Locked(t, "created")
    /\ userData' = userData \cup {i}
    /\ pending' = pending \cup {i}
    /\ Go(t, "describe")
    /\ Unlock
    /\ UNCHANGED <<crash, connVars, connections, remoteClosed, readable, unread, known,
                   sock, closing, rtcVars>>

\* internal_create_offer or internal_set_offer, which fails when the offer
\* cannot be parsed; then the Connection is closed.
Describe(t) ==
    LET i == at[t].id IN
    /\ At(t, "describe")
    /\ IF Gone(i)
       THEN Crash("use after free")
       ELSE /\ \/ /\ At(Sig, "idle")
                  /\ rtc' = [rtc EXCEPT ![i] = "describing"]
                  /\ Go(t, "returned")
               \/ /\ way[i] = "Incoming"
                  /\ at' = [at EXCEPT ![t] = [Doing("returned", i) EXCEPT !.then = "delete"]]
                  /\ UNCHANGED rtc
            /\ UNCHANGED <<lock, crash, connVars, tableVars, sockVars, channel>>

\* Back with the lock: humblenet_p2p_sendto keeps the new Connection and looks
\* at its status; nothing looks at an incoming one again.
Returned(t) ==
    LET i == at[t].id IN
    /\ Locked(t, "returned")
    /\ CASE at[t].then = "delete" /\ Allocated(i) ->
              SetClosed(t, i, "delete") /\ UNCHANGED known
         [] way[i] = "Outgoing" /\ Allocated(i) /\ status[i] = "CLOSED" ->
              SetClosed(t, i, "delete") /\ known' = known \ {i}
         [] way[i] = "Outgoing" /\ Allocated(i) /\ status[i] # "CLOSED" ->
              /\ known' = known \cup {i}
              /\ Return(t) /\ Unlock
              /\ UNCHANGED <<crash, connVars, connections, pending, remoteClosed, readable, unread,
                             sockVars, rtcVars>>
         [] way[i] = "Incoming" /\ at[t].then # "delete" ->
              /\ Return(t) /\ Unlock
              /\ UNCHANGED <<crash, connVars, tableVars, sockVars, rtcVars>>
         [] OTHER -> Crash("use after free")

\* P2PAnswer, to an offer that was sent.
Answered(i) ==
    /\ Call(Chain)
    /\ i \in pending /\ way[i] = "Outgoing" /\ rtc[i] = "described"
    /\ at' = [at EXCEPT ![Chain] = Doing("answer", i)]
    /\ UNCHANGED <<lock, crash, connVars, tableVars, sockVars, rtcVars>>

\* internal_set_answer, which fails when the answer cannot be parsed.
SetAnswer ==
    LET i == at[Chain].id IN
    /\ At(Chain, "answer")
    /\ IF Gone(i) \/ channel[i] # "none"
       THEN Crash("use after free")
       ELSE /\ \/ /\ At(Sig, "idle")
                  /\ rtc' = [rtc EXCEPT ![i] = "ready"]
                  /\ Go(Chain, "added")
               \/ Go(Chain, "answered") /\ UNCHANGED rtc
            /\ UNCHANGED <<lock, crash, connVars, tableVars, sockVars, channel>>

AnswerFailed ==
    LET i == at[Chain].id IN
    /\ Locked(Chain, "answered")
    /\ IF Allocated(i) THEN SetClosed(Chain, i, "return") /\ UNCHANGED known
                       ELSE Crash("use after free")

\* ICECandidate.
CandidateReceived(i) ==
    /\ Call(Chain)
    /\ i \in pending \cap attached
    /\ status[i] = "CONNECTING"
    /\ at' = [at EXCEPT ![Chain] = Doing("candidate", i)]
    /\ UNCHANGED <<lock, crash, connVars, tableVars, sockVars, rtcVars>>

\* internal_add_ice_candidate: the iterator into the table is used without the
\* lock.
AddIceCandidate ==
    LET i == at[Chain].id IN
    /\ At(Chain, "candidate")
    /\ IF Gone(i) \/ i \notin pending
       THEN Crash("use after free")
       ELSE /\ At(Sig, "idle")
            /\ Go(Chain, "added")
            /\ UNCHANGED <<lock, crash, connVars, tableVars, sockVars, rtcVars>>

Added ==
    /\ Locked(Chain, "added")
    /\ Return(Chain) /\ Unlock
    /\ UNCHANGED <<crash, connVars, tableVars, sockVars, rtcVars>>

\* P2PReject.
Rejected(i) ==
    /\ Call(Chain)
    /\ i \in pending /\ way[i] = "Outgoing" /\ rtc[i] = "described"
    /\ SetClosed(Chain, i, "return")
    /\ UNCHANGED known

\* humblenet_p2p_disconnect.
Disconnect(t, i) ==
    /\ Call(t)
    /\ t \in Apps /\ i \in known
    /\ SetClosed(t, i, "return")
    /\ UNCHANGED known

\* humblenet_p2p_sendto on a Connection that is closed.
SendToClosed(t, i) ==
    /\ Call(t)
    /\ t \in Apps /\ i \in known
    /\ status[i] = "CLOSED"
    /\ known' = known \ {i}
    /\ SetClosed(t, i, "delete")

\* humblenet_p2p_recvfrom: a closed Connection comes first, then data.
Recvfrom(t, i) ==
    /\ Call(t)
    /\ t \in Apps
    /\ \/ /\ i \in remoteClosed
          /\ IF i \in unread
             THEN Crash("unread data")   \* humblenet_connection_read_all
             ELSE known' = known \ {i} /\ SetClosed(t, i, "delete")
       \/ /\ remoteClosed = {}
          /\ i \in readable
          /\ readable' = readable \ {i}
          /\ unread' = unread \ {i}
          /\ known' = known \cup {i}
          /\ UNCHANGED <<lock, at, crash, connVars, connections, pending, remoteClosed,
                         sockVars, rtcVars>>

\* humblenet_p2p_sendto on a connected one, up to the UNGUARD of
\* humblenet_connection_write.
Write(t, i) ==
    /\ Call(t)
    /\ t \in Apps /\ i \in known
    /\ status[i] = "CONNECTED"
    /\ at' = [at EXCEPT ![t] = Doing("write", i)]
    /\ UNCHANGED <<lock, crash, connVars, tableVars, sockVars, rtcVars>>

\* internal_write_socket looks at webrtc_channel, and libwebrtc_write uses it.
InternalWriteSocket(t) ==
    LET i == at[t].id IN
    /\ At(t, "write")
    /\ IF ~Allocated(i) \/ i \notin attached \/ sock[i] = "deleted"
       THEN Crash("use after free")
       ELSE /\ Go(t, IF channel[i] = "open" THEN "send" ELSE "written")
            /\ UNCHANGED <<lock, crash, connVars, tableVars, sockVars, rtcVars>>

LibwebrtcWrite(t) ==
    LET i == at[t].id IN
    /\ At(t, "send")
    /\ IF channel[i] # "open"
       THEN Crash("use after free")
       ELSE /\ At(Sig, "idle")
            /\ Go(t, "written")
            /\ UNCHANGED <<lock, crash, connVars, tableVars, sockVars, rtcVars>>

\* datagram_flush clears the buffer of the Connection it wrote to.
Written(t) ==
    /\ Locked(t, "written")
    /\ IF Allocated(at[t].id)
       THEN /\ Return(t) /\ Unlock
            /\ UNCHANGED <<crash, connVars, tableVars, sockVars, rtcVars>>
       ELSE Crash("use after free")

-----------------------------------------------------------------------------
(* The signaling thread. *)

\* It calls back about i.
CallBack(i, pc) ==
    /\ At(Sig, "idle")
    /\ at' = [at EXCEPT ![Sig] = CallingBack(pc, i, NoThread)]
    /\ UNCHANGED <<lock, crash, connVars, tableVars, sockVars>>

\* OnCreateSessionDescription::OnSuccess.
LocalDescription(i) ==
    /\ rtc[i] = "describing"
    /\ rtc' = [rtc EXCEPT ![i] = IF way[i] = "Outgoing" THEN "described" ELSE "ready"]
    /\ CallBack(i, "on_sdp")
    /\ UNCHANGED channel

OnIceCandidate(i) ==
    /\ rtc[i] \in {"described", "ready", "connected"}
    /\ CallBack(i, "on_ice_candidate")
    /\ UNCHANGED rtcVars

\* OnIceConnectionChange, kIceConnectionConnected.
IceConnected(i) ==
    /\ rtc[i] = "ready"
    /\ rtc' = [rtc EXCEPT ![i] = "connected"]
    /\ CallBack(i, "on_connect")
    /\ UNCHANGED channel

\* OnStateChange, kOpen.
ChannelOpens(i) ==
    /\ rtc[i] = "connected"
    /\ channel[i] = IF way[i] = "Outgoing" THEN "created" ELSE "none"
    /\ channel' = [channel EXCEPT ![i] = "open"]
    /\ CallBack(i, "on_channel")
    /\ UNCHANGED rtc

OnMessage(i) ==
    /\ channel[i] = "open"
    /\ CallBack(i, "on_data")
    /\ UNCHANGED rtcVars

\* Close() of the library's connection, for `caller' or of itself.
Close(i, caller) ==
    /\ closing' = closing \cup {i}
    /\ at' = [at EXCEPT ![Sig] = CallingBack("on_disconnect", i, caller)]

\* Mutant: the signaling thread is taken for a caller of its own.
IceDisconnectedForItself(i) ==
    /\ At(Sig, "idle")
    /\ rtc[i] \in {"describing", "connected"}
    /\ Close(i, Sig)
    /\ UNCHANGED <<lock, crash, connVars, tableVars, sock, userData, rtcVars>>

\* kIceConnectionDisconnected, or the local description cannot be made.
IceDisconnected(i) ==
    /\ At(Sig, "idle")
    /\ rtc[i] \in {"describing", "connected"}
    /\ Close(i, NoThread)
    /\ UNCHANGED <<lock, crash, connVars, tableVars, sock, userData, rtcVars>>

\* The call of CloseConnection is served; a connection that is closed already
\* ignores it.
ServeClose(t) ==
    LET i == at[t].id IN
    /\ At(t, "waiting") /\ At(Sig, "idle")
    /\ IF Open(i) THEN Close(i, t) ELSE Go(t, "detach") /\ UNCHANGED closing
    /\ UNCHANGED <<lock, crash, connVars, tableVars, sock, userData, rtcVars>>

\* OnStateChange, kClosed: the end of the channel is that of the connection.
ChannelCloses(i) ==
    /\ At(Sig, "idle")
    /\ channel[i] \in {"created", "open"}
    /\ rtc[i] \in {"connected", "closed"}
    /\ channel' = [channel EXCEPT ![i] = "closed"]
    /\ IF i \in closing
       THEN UNCHANGED <<at, closing>>
       ELSE Close(i, NoThread)
    /\ UNCHANGED <<lock, crash, connVars, tableVars, sock, userData, rtc>>

\* LWRTC_CALLBACK_DESTROY: nobody registers an on_destroy.
Destroy(i) ==
    /\ At(Sig, "idle")
    /\ rtc[i] = "closed"
    /\ channel[i] \in {"none", "closed"}
    /\ rtc' = [rtc EXCEPT ![i] = "deleted"]
    /\ sock' = [sock EXCEPT ![i] = "deleted"]
    /\ UNCHANGED <<lock, at, crash, connVars, tableVars, userData, closing, channel>>

\* on_sdp and on_ice_candidate, which send what they got to the peer server.
OnSdp ==
    LET a == at[Sig] IN
    /\ \/ Locked(Sig, "on_sdp")
       \/ Locked(Sig, "on_ice_candidate")
    /\ IF a.data /\ status[a.id] # "CONNECTING"
       THEN Crash(IF Allocated(a.id) THEN "not connecting" ELSE "use after free")
       ELSE /\ Return(Sig) /\ Unlock
            /\ UNCHANGED <<crash, connVars, tableVars, sockVars, rtcVars>>

OnConnect ==
    LET a == at[Sig] i == a.id IN
    /\ Locked(Sig, "on_connect")
    /\ IF ~a.data \/ status[i] # "CONNECTING"
       THEN Crash(IF ~a.data THEN "no user_data"
                  ELSE IF Allocated(i) THEN "not connecting" ELSE "use after free")
       ELSE /\ connections' = connections \cup {i}
            /\ channel' = IF way[i] = "Outgoing" THEN [channel EXCEPT ![i] = "created"] ELSE channel
            /\ Return(Sig) /\ Unlock
            /\ UNCHANGED <<crash, connVars, pending, remoteClosed, readable, unread, known,
                           sockVars, rtc>>

\* on_accept_channel and on_connect_channel.
OnChannel ==
    LET a == at[Sig] i == a.id IN
    /\ Locked(Sig, "on_channel")
    /\ IF ~a.data \/ status[i] # "CONNECTING"
       THEN Crash(IF ~a.data THEN "no user_data"
                  ELSE IF Allocated(i) THEN "not connecting" ELSE "use after free")
       ELSE /\ status' = [status EXCEPT ![i] = "CONNECTED"]
            /\ Return(Sig) /\ Unlock
            /\ UNCHANGED <<crash, way, attached, tableVars, sockVars, rtcVars>>

\* on_data; the channel is closed when it fails.
OnData ==
    LET a == at[Sig] i == a.id IN
    /\ Locked(Sig, "on_data")
    /\ IF a.data /\ status[i] # "CONNECTED"
       THEN Crash(IF Allocated(i) THEN "not connected" ELSE "use after free")
       ELSE /\ readable' = IF a.data THEN readable \cup {i} ELSE readable
            /\ unread' = IF a.data THEN unread \cup {i} ELSE unread
            /\ Return(Sig) /\ Unlock
            /\ UNCHANGED <<crash, connVars, connections, pending, remoteClosed, known,
                           sockVars, rtcVars>>

\* Mutant: only what is in the table is closed.
OnDisconnectTracked ==
    LET a == at[Sig] i == a.id IN
    /\ Locked(Sig, "on_disconnect")
    /\ UNCHANGED known
    /\ IF i \in connections
       THEN IF Allocated(i) THEN SetClosed(Sig, i, "release")
                            ELSE Crash("use after free")
       ELSE /\ Continue(Sig) /\ Unlock
            /\ UNCHANGED <<crash, connVars, connections, pending, remoteClosed, readable, unread,
                           sockVars, channel>>

\* on_disconnect: a Connection that is not in the table may still be connecting.
OnDisconnect ==
    LET a == at[Sig] i == a.id IN
    /\ Locked(Sig, "on_disconnect")
    /\ UNCHANGED known
    /\ IF i \in connections \/ a.data
       THEN IF Allocated(i) THEN SetClosed(Sig, i, "release")
                            ELSE Crash("use after free")
       ELSE /\ Continue(Sig) /\ Unlock
            /\ UNCHANGED <<crash, connVars, connections, pending, remoteClosed, readable, unread,
                           sockVars, channel>>

-----------------------------------------------------------------------------
\* What the signaling thread does of itself.
Event(i) ==
    \/ LocalDescription(i) \/ OnIceCandidate(i) \/ IceConnected(i) \/ ChannelOpens(i)
    \/ OnMessage(i) \/ IceDisconnected(i) \/ ChannelCloses(i) \/ Destroy(i)

\* A call of the application or a message of the peer server.
Request(i) ==
    \/ Offered(i) \/ Answered(i) \/ CandidateReceived(i) \/ Rejected(i)
    \/ \E t \in Apps :
          ConnectPeer(t, i) \/ Disconnect(t, i) \/ SendToClosed(t, i) \/ Recvfrom(t, i) \/ Write(t, i)

\* How a call goes on.
Proceed(t) ==
    \/ CreateWebrtc(t) \/ Created(t) \/ Describe(t) \/ Returned(t)
    \/ CloseConnection(t) \/ ServeClose(t)
    \/ InternalWriteSocket(t) \/ LibwebrtcWrite(t) \/ Written(t)

Reply == SetAnswer \/ AnswerFailed \/ AddIceCandidate \/ Added
Callback == OnSdp \/ OnConnect \/ OnChannel \/ OnData \/ OnDisconnect

Next ==
    /\ crash = "no"
    /\ \/ \E i \in Ids : Event(i) \/ Request(i)
       \/ \E t \in Callers : Proceed(t)
       \/ \E t \in Threads : Guard(t) \/ InternalCloseSocket(t) \/ Detach(t)
       \/ Reply
       \/ Callback

Spec == Init /\ [][Next]_vars

\* A thread that can go on does, a lock that is free again and again is got,
\* and the signaling thread comes to everything in its queue.
Fairness ==
    /\ \A t \in Threads :
          /\ SF_vars(crash = "no" /\ Guard(t))
          /\ WF_vars(crash = "no" /\ (InternalCloseSocket(t) \/ Detach(t)))
    /\ \A t \in Callers : SF_vars(crash = "no" /\ Proceed(t))
    /\ SF_vars(crash = "no" /\ Reply)
    /\ WF_vars(crash = "no" /\ Callback)
    /\ \A i \in Ids :
          /\ SF_vars(crash = "no" /\ rtc[i] = "closed" /\ ChannelCloses(i))
          /\ SF_vars(crash = "no" /\ Destroy(i))

FairSpec == Spec /\ Fairness

-----------------------------------------------------------------------------
(* Properties. *)

PCs == Guarded \cup {"create", "describe", "answer", "candidate", "write", "send",
                     "close", "close_connection", "waiting"}

TypeOK ==
    /\ lock \in Threads \cup {NoThread}
    /\ at \in [Threads -> {Idle} \cup
                 [pc : PCs, id : Ids, then : {"return", "delete", "release"},
                  data : BOOLEAN, caller : Callers \cup {NoThread}]]
    /\ way \in [Ids -> {"Incoming", "Outgoing"}]
    /\ status \in [Ids -> {"none", "CONNECTING", "CONNECTED", "CLOSED", "deleted"}]
    /\ attached \subseteq Ids
    /\ connections \subseteq Ids /\ pending \subseteq Ids /\ remoteClosed \subseteq Ids
    /\ readable \subseteq Ids /\ unread \subseteq Ids /\ known \subseteq Ids
    /\ sock \in [Ids -> {"none", "live", "deleted"}]
    /\ userData \subseteq Ids /\ closing \subseteq Ids
    /\ rtc \in [Ids -> {"none", "new", "describing", "described", "ready", "connected",
                        "closed", "deleted"}]
    /\ channel \in [Ids -> {"none", "created", "open", "closed"}]

\* No table has a Connection that is freed, although set_closed takes a
\* Connection out of the first one, gives up the lock, and a callback that had
\* read user_data before may put it back meanwhile.
TablesHoldLiveConnections ==
    \A i \in connections \cup pending \cup remoteClosed \cup readable \cup known : Allocated(i)

\* A Connection with a socket has one that exists, unless a thread is closing
\* it: the destruction of a socket finds its Connection detached.
SocketsOfConnectionsExist ==
    \A i \in attached :
        \/ sock[i] = "live"
        \/ \E t \in Callers : ~At(t, "idle") /\ at[t].id = i

\* Every call comes back: none waits for the signaling thread with the lock that
\* a callback waits for.
CallsReturn == \A t \in Callers : ~At(t, "idle") ~> At(t, "idle") \/ crash # "no"

\* When the library gives up a connection, established or not, the Connection is
\* closed, so that the application is told.
EndsAreReported ==
    \A i \in Ids : rtc[i] = "closed" ~> status[i] \in {"CLOSED", "deleted"} \/ crash # "no"

\* The socket of a Connection that is closed, from either side, is destroyed.
ClosedSocketsAreDestroyed ==
    \A i \in Ids :
        status[i] \in {"CLOSED", "deleted"} /\ sock[i] = "live" ~> sock[i] = "deleted" \/ crash # "no"

\* "clear our state first so callbacks dont work on us": no callback finds a
\* Connection or its user_data closed under it.
CallbacksLeaveClosedConnectionsAlone == crash # "no user_data"
=============================================================================
