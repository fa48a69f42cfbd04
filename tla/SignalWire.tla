----------------------------- MODULE SignalWire -----------------------------
(***************************************************************************)
(* The bytes of the signaling connections: how sendP2PMessage frames a     *)
(* message, how the peer server's send buffer and the client's direct      *)
(* write put it on a websocket, and how parseMessage cuts whatever has     *)
(* arrived into messages again, over the websockets a client opens one     *)
(* after the other.                                                        *)
(*                                                                         *)
(* One direction of a socket is a stream: the frames put into it, each     *)
(* with the bytes it occupies, and how far the bytes have got.  The send   *)
(* buffer is what lies between `written' and the end, the receive buffer   *)
(* what lies between the last frame erased from it and `arrived'.  The     *)
(* contents of a frame are abstracted to their length: a header of which   *)
(* the first SizeBytes bytes are the length, a checksum, and the rest.     *)
(* That the checksum and the verifier tell a frame from a piece of two     *)
(* frames is assumed.                                                      *)
(*                                                                         *)
(* The websocket library delivers the bytes of a socket in order, in       *)
(* pieces of any size, and may write less than it was given.               *)
(***************************************************************************)
EXTENDS Integers, Sequences, FiniteSets

CONSTANTS
    Sockets,     \* the websockets the client opens, numbered in that order
    NoSocket,    \* there is no p2pConn
    Lengths,     \* the lengths of frames, header included
    SizeBytes,   \* the bytes of the header that hold the length: 4 of 8 in the program
    MaxFrames,   \* bound: the frames put into one direction of one socket
    MaxInAll     \* bound: the frames put into all of them

ASSUME SignalWireAssumption ==
    /\ Sockets \subseteq Nat
    /\ NoSocket \notin Sockets
    /\ Lengths \subseteq Nat
    /\ SizeBytes \in Nat \ {0}
    /\ \A n \in Lengths : n > SizeBytes
    /\ MaxFrames \in Nat
    /\ MaxInAll \in Nat

VARIABLES
    wsi,          \* humbleNetState.p2pConn->wsi
    client,       \* the client's end of each websocket
    server,       \* the server's end, "open" when signalConnections has it
    clientWants,  \* the websockets with a writable callback requested by the client
    serverWants,  \* the same at the server
    up,           \* the stream from the client to the server
    down          \* the stream from the server to the client

vars == <<wsi, client, server, clientWants, serverWants, up, down>>

\* A frame: the first byte of it in the stream less one, the length its
\* header announces, and the last byte of it.
Frame == [start : Nat, length : Nat, end : Nat]
Whole(f) == f.end = f.start + f.length

Stream == [frames : Seq(Frame), written : Nat, arrived : Nat, handled : Nat]
NoBytes == [frames |-> <<>>, written |-> 0, arrived |-> 0, handled |-> 0]

EndOf(x, k) == IF k = 0 THEN 0 ELSE x.frames[k].end
Total(x)    == EndOf(x, Len(x.frames))
Unsent(x)   == Total(x) - x.written

Init ==
    /\ wsi = NoSocket
    /\ client = [s \in Sockets |-> "unused"]
    /\ server = [s \in Sockets |-> "unused"]
    /\ clientWants = {}
    /\ serverWants = {}
    /\ up   = [s \in Sockets |-> NoBytes]
    /\ down = [s \in Sockets |-> NoBytes]

\* The bounds allow another frame in x.
Room(x) ==
    /\ Len(x.frames) < MaxFrames
    /\ Cardinality(UNION {{s} \X DOMAIN up[s].frames : s \in Sockets})
         + Cardinality(UNION {{s} \X DOMAIN down[s].frames : s \in Sockets}) < MaxInAll

-----------------------------------------------------------------------------
(* Framing. *)

\* sendP2PMessage(conn, fbb): a header and a body behind what the stream has.
\* Of a frame that is written directly only `put' bytes may get there.
AddFrame(x, n, put) ==
    [x EXCEPT !.frames = Append(@, [start |-> Total(x), length |-> n, end |-> Total(x) + put])]

\* Mutant: a frame counts whatever its checksum says.
CompleteOrCut(x, k) == k <= Len(x.frames) /\ x.frames[k].end <= x.arrived

\* Frame k is there and passes the checks.
Complete(x, k) == k <= Len(x.frames) /\ Whole(x.frames[k]) /\ x.frames[k].end <= x.arrived

\* Behind the first n frames comes one that was cut off, and the next one's
\* bytes are taken for the rest of it.
Misread(x, n) ==
    /\ n < Len(x.frames)
    /\ ~Whole(x.frames[n + 1])
    /\ x.arrived > x.frames[n + 1].end

\* Even the length was cut off: what is read for it may be any number.
NoLength(f) == f.end - f.start < SizeBytes

\* As many bytes as the header seems to announce are there, and the checksum
\* or the verifier fails.
Damaged(x, n) ==
    LET f == x.frames[n + 1] IN
    Misread(x, n) /\ (NoLength(f) \/ f.start + f.length <= x.arrived)

\* They are not there yet.
Incomplete(x, n) ==
    LET f == x.frames[n + 1] IN
    Misread(x, n) => NoLength(f) \/ x.arrived < f.start + f.length

\* Of the stream x the bytes up to a have arrived and n frames are handled.
Parsed(x, a, n) == [x EXCEPT !.arrived = a, !.handled = n]

\* Mutant: a callback handles one message and leaves the others in the buffer.
ParseOneMessage(x, y, ok) ==
    /\ ok
    /\ y.handled = IF Complete(y, x.handled + 1) THEN x.handled + 1 ELSE x.handled

\* parseMessage makes y of x when more bytes have arrived: the frames it handled
\* are erased, and it returns 0 at the first that its handler refuses or that
\* fails the checks, or waits at one that is not complete.  Of a header that has
\* arrived in part it reads bytes behind the end of the buffer, which changes
\* nothing: the buffer is shorter than any frame, whatever they say.
ParseMessage(x, y, ok) ==
    /\ \A k \in x.handled + 1 .. y.handled : Complete(y, k)
    /\ IF ok THEN ~Complete(y, y.handled + 1) /\ Incomplete(y, y.handled)
             ELSE y.handled > x.handled \/ Damaged(y, y.handled)

-----------------------------------------------------------------------------
(* The client. *)

\* The client has no connection to the peer server any more.
Reset == wsi' = NoSocket

\* Mutant: it is called without looking whether there is a p2pConn.
DisconnectAlways == clientWants' = clientWants \cup {wsi}

\* p2pConn->disconnect(): internal_close_socket asks for a writable callback of
\* the websocket, which will find it obsolete.
Disconnect == clientWants' = clientWants \cup ({wsi} \ {NoSocket})

\* humblenet_signaling_connect.
SignalingConnect(s) ==
    /\ client[s] = "unused"
    /\ \A t \in Sockets : t < s => client[t] # "unused"
    /\ Disconnect
    /\ \/ /\ wsi' = s
          /\ client' = [client EXCEPT ![s] = "connecting"]
       \/ /\ Reset                 \* internal_connect_websocket returned NULL
          /\ UNCHANGED client
    /\ UNCHANGED <<server, serverWants, up, down>>

\* humblenet_p2p_shutdown.
Shutdown ==
    /\ wsi # NoSocket
    /\ Disconnect
    /\ Reset
    /\ UNCHANGED <<client, server, serverWants, up, down>>

\* sendP2PMessage writes a frame of n bytes to the websocket at once, of which
\* the library takes `put'; none when it reports an error.
Write(s, n, put) ==
    /\ Room(up[s])
    /\ up' = IF put = 0 THEN up
             ELSE [up EXCEPT ![s] = [AddFrame(@, n, put) EXCEPT !.written = up[s].written + put]]

\* A message of the application or of a callback, whose sender is told whether
\* all of it was taken; the connection stays either way, and if nothing was
\* taken all is as before.
Send(n, put) ==
    /\ wsi # NoSocket
    /\ client[wsi] = "open"
    /\ Write(wsi, n, put)
    /\ clientWants' = clientWants \cup {wsi}
    /\ UNCHANGED <<wsi, client, server, serverWants, down>>

\* Mutant: p2pConn outlives its websocket.
ClientClosesOnly(s) ==
    /\ client' = [client EXCEPT ![s] = "closed"]
    /\ clientWants' = clientWants \ {s}
    /\ UNCHANGED wsi

\* The library closes a websocket, since a callback returned -1 or the
\* connection failed or ended.  on_disconnect drops p2pConn if it is its own.
ClientCloses(s) ==
    /\ client' = [client EXCEPT ![s] = "closed"]
    /\ clientWants' = clientWants \ {s}
    /\ wsi' = IF wsi = s THEN NoSocket ELSE wsi

\* on_connect: a websocket that is not p2pConn's is obsolete; on the current one
\* HelloServer is written, and unless all of it is taken p2pConn is dropped.  In
\* both cases the callback returns -1, which the library ignores here (client.c:763).
\* A writable callback requested before the library sent its handshake is
\* forgotten (client.c:129).
OnConnect(s) ==
    /\ client[s] = "connecting"
    /\ server[s] # "unused"
    /\ client' = [client EXCEPT ![s] = "open"]
    /\ IF s # wsi
       THEN /\ clientWants' \in {clientWants, clientWants \ {s}}
            /\ UNCHANGED <<wsi, up>>
       ELSE \E n \in Lengths : \E put \in 0 .. n :
               /\ Write(s, n, put)
               /\ clientWants' = IF put = 0 THEN clientWants ELSE clientWants \cup {s}
               /\ IF put = n THEN UNCHANGED wsi ELSE Reset
    /\ UNCHANGED <<server, serverWants, down>>

\* on_data.
OnData(s) ==
    /\ client[s] = "open"
    /\ \/ /\ s # wsi
          /\ down[s].arrived < down[s].written
          /\ ClientCloses(s)
          /\ UNCHANGED down
       \/ /\ s = wsi
          /\ \E a \in down[s].arrived + 1 .. down[s].written,
                n \in down[s].handled .. Len(down[s].frames), ok \in BOOLEAN :
                /\ ParseMessage(down[s], Parsed(down[s], a, n), ok)
                /\ down' = [down EXCEPT ![s] = Parsed(@, a, n)]
                /\ IF ok THEN UNCHANGED <<client, clientWants, wsi>> ELSE ClientCloses(s)
    /\ UNCHANGED <<server, serverWants, up>>

\* on_writable: nothing is ever put into the client's sendBuf, so the callback
\* only notices an obsolete websocket.
OnWritable(s) ==
    /\ client[s] = "open"
    /\ s \in clientWants
    /\ IF s # wsi
       THEN ClientCloses(s)
       ELSE clientWants' = clientWants \ {s} /\ UNCHANGED <<client, wsi>>
    /\ UNCHANGED <<server, serverWants, up, down>>

\* The connection attempt fails, or the connection ends.
OnDisconnect(s) ==
    /\ client[s] \in {"connecting", "open"}
    /\ ClientCloses(s)
    /\ UNCHANGED <<server, serverWants, up, down>>

-----------------------------------------------------------------------------
(* The peer server: callback_humblepeer. *)

Established(s) ==
    /\ client[s] = "connecting"
    /\ server[s] = "unused"
    /\ server' = [server EXCEPT ![s] = "open"]
    /\ UNCHANGED <<wsi, client, clientWants, serverWants, up, down>>

ServerCloses(s) ==
    /\ server' = [server EXCEPT ![s] = "closed"]
    /\ serverWants' = serverWants \ {s}

\* LWS_CALLBACK_CLOSED.
Closed(s) ==
    /\ server[s] = "open"
    /\ ServerCloses(s)
    /\ UNCHANGED <<wsi, client, clientWants, up, down>>

\* LWS_CALLBACK_RECEIVE.  What the handlers send is SendMessage.
Receive(s) ==
    /\ server[s] = "open"
    /\ \E a \in up[s].arrived + 1 .. up[s].written,
          n \in up[s].handled .. Len(up[s].frames), ok \in BOOLEAN :
          /\ ParseMessage(up[s], Parsed(up[s], a, n), ok)
          /\ up' = [up EXCEPT ![s] = Parsed(@, a, n)]
          /\ IF ok THEN UNCHANGED <<server, serverWants>> ELSE ServerCloses(s)
    /\ UNCHANGED <<wsi, client, clientWants, down>>

\* P2PSignalConnection::sendMessage: a writable callback is requested only for
\* the first bytes of the send buffer.
SendMessage(s, n) ==
    /\ server[s] = "open"
    /\ Room(down[s])
    /\ down' = [down EXCEPT ![s] = AddFrame(@, n, n)]
    /\ serverWants' = IF Unsent(down[s]) = 0 THEN serverWants \cup {s} ELSE serverWants
    /\ UNCHANGED <<wsi, client, server, clientWants, up>>

\* Mutant: after a partial write no callback is requested.
WriteableOnce(s, put) ==
    /\ server[s] = "open"
    /\ s \in serverWants
    /\ down' = [down EXCEPT ![s].written = @ + put]
    /\ serverWants' = serverWants \ {s}
    /\ UNCHANGED <<wsi, client, server, clientWants, up>>

\* LWS_CALLBACK_SERVER_WRITEABLE: the library takes `put' bytes of the send
\* buffer; for what is left another callback is requested.
Writeable(s, put) ==
    /\ server[s] = "open"
    /\ s \in serverWants
    /\ down' = [down EXCEPT ![s].written = @ + put]
    /\ serverWants' = IF put < Unsent(down[s]) THEN serverWants ELSE serverWants \ {s}
    /\ UNCHANGED <<wsi, client, server, clientWants, up>>

\* The write fails.
WriteFails(s) ==
    /\ server[s] = "open"
    /\ s \in serverWants
    /\ Unsent(down[s]) > 0
    /\ ServerCloses(s)
    /\ UNCHANGED <<wsi, client, clientWants, up, down>>

-----------------------------------------------------------------------------
Next ==
    \/ \E n \in Lengths : \E put \in 1 .. n : Send(n, put)
    \/ Shutdown
    \/ \E s \in Sockets :
          \/ SignalingConnect(s) \/ OnConnect(s) \/ OnData(s) \/ OnWritable(s) \/ OnDisconnect(s)
          \/ Established(s) \/ Closed(s) \/ Receive(s) \/ WriteFails(s)
          \/ \E n \in Lengths : SendMessage(s, n)
          \/ \E put \in 0 .. Unsent(down[s]) : Writeable(s, put)

Spec == Init /\ [][Next]_vars

\* The server's loop runs a callback that was requested, and each one gets some
\* bytes away; the client's loop delivers what arrives and runs the callbacks it
\* was asked for and notices the end of a connection; an attempt to connect ends
\* in one way or the other.
Fairness ==
    \A s \in Sockets :
        /\ WF_vars(\E put \in 1 .. Unsent(down[s]) : Writeable(s, put))
        /\ WF_vars(OnData(s))
        /\ WF_vars(OnWritable(s))
        /\ WF_vars(Established(s) \/ (client[s] = "connecting" /\ OnDisconnect(s)))
        /\ WF_vars(OnConnect(s) \/ (client[s] = "connecting" /\ OnDisconnect(s)))
        /\ WF_vars(server[s] = "closed" /\ OnDisconnect(s))

FairSpec == Spec /\ Fairness

-----------------------------------------------------------------------------
(* Properties. *)

TypeOK ==
    /\ wsi \in Sockets \cup {NoSocket}
    /\ client \in [Sockets -> {"unused", "connecting", "open", "closed"}]
    /\ server \in [Sockets -> {"unused", "open", "closed"}]
    /\ clientWants \subseteq Sockets
    /\ serverWants \subseteq Sockets
    /\ up \in [Sockets -> Stream]
    /\ down \in [Sockets -> Stream]

\* Each direction of a websocket is a message channel, whatever the pieces the
\* bytes come in, and although a client's write may leave half a frame behind:
\* such a frame is never handled, and nothing behind it either.
Channels == Sockets \X {"up", "down"}
StreamOf(c) == IF c[2] = "up" THEN up[c[1]] ELSE down[c[1]]

Channel == INSTANCE MessageChannels WITH
    Messages <- 1 .. MaxFrames,
    accepted <- [c \in Channels |-> {k \in DOMAIN StreamOf(c).frames : Whole(StreamOf(c).frames[k])}],
    handed   <- [c \in Channels |-> 1 .. StreamOf(c).handled]

CarriesMessages == Channel!Spec

\* A message that is complete in a receive buffer has been handled: the callback
\* that brought its last byte does not leave it there for the next one to find,
\* which may never come.
CompleteFramesAreHandled ==
    \A s \in Sockets :
        /\ server[s] = "open" => ~Complete(up[s], up[s].handled + 1)
        /\ client[s] = "open" /\ s = wsi => ~Complete(down[s], down[s].handled + 1)

\* While bytes wait in the server's send buffer a writable callback is requested,
\* after a partial write too: sendMessage asks only when the buffer was empty.
UnsentBytesAreRequested ==
    \A s \in Sockets :
        server[s] = "open" /\ Unsent(down[s]) > 0 => s \in serverWants

\* p2pConn->wsi, which the client writes to and asks callbacks of, is a
\* websocket the library has not closed (and destroyed).
CurrentSocketIsLive == wsi # NoSocket => client[wsi] \in {"connecting", "open"}

\* Every message the server puts into a send buffer is handled by the client
\* or the connection ends.
MessagesArrive ==
    \A s \in Sockets : \A k \in 1 .. MaxFrames :
        Len(down[s].frames) >= k ~>
            \/ down[s].handled >= k
            \/ client[s] = "closed"
            \/ server[s] = "closed"
=============================================================================
