-------------------------- MODULE SignalWireProofs --------------------------
(***************************************************************************)
(* Proofs about SignalWire for any number of websockets, any lengths of    *)
(* frames and pieces, and any bounds: what parseMessage hands over are the *)
(* messages that were sent, and nothing complete stays in a buffer.        *)
(***************************************************************************)
EXTENDS SignalWire, TLAPS

-----------------------------------------------------------------------------
(* One stream *)

\* The frames lie one behind the other, each occupying no more bytes than its
\* header announces.
FramesAreContiguous(x) ==
    \A k \in DOMAIN x.frames :
        LET f == x.frames[k] IN
        /\ f.start = EndOf(x, k - 1)
        /\ f.start <= f.end
        /\ f.end <= f.start + f.length
        /\ f.length > SizeBytes

\* Bytes are put into the stream, written, delivered and handled in that order.
BytesInOrder(x) ==
    /\ EndOf(x, x.handled) <= x.arrived
    /\ x.arrived <= x.written
    /\ x.written <= Total(x)

\* What was handled are the first frames, and each was whole.
HandledAreWhole(x) ==
    /\ x.handled <= Len(x.frames)
    /\ \A k \in 1 .. x.handled : Whole(x.frames[k])

StreamInv(x) ==
    /\ x \in Stream
    /\ FramesAreContiguous(x)
    /\ BytesInOrder(x)
    /\ HandledAreWhole(x)

\* Frames end at a byte of the stream.
LEMMA EndOfType ==
    ASSUME NEW x \in Stream, NEW k \in 0 .. Len(x.frames)
    PROVE  EndOf(x, k) \in Nat
<1>1. CASE k = 0
  BY <1>1 DEF EndOf
<1>2. CASE k # 0
  <2>1. k \in 1 .. Len(x.frames)
    BY <1>2 DEF Stream
  <2>2. x.frames[k] \in Frame
    BY <2>1 DEF Stream
  <2> QED BY <1>2, <2>2 DEF EndOf, Frame
<1> QED BY <1>1, <1>2

\* A stream has a number of bytes.
LEMMA TotalType ==
    ASSUME NEW x \in Stream
    PROVE  Total(x) \in Nat
BY EndOfType DEF Total, Stream

\* The stream of a new websocket is empty, and nothing on it was handled.
LEMMA NoBytesInv == StreamInv(NoBytes)
BY DEF StreamInv, NoBytes, Stream, FramesAreContiguous, BytesInOrder, HandledAreWhole, EndOf, Total

\* sendP2PMessage puts one frame behind the others and touches nothing else.
LEMMA AddFrameAppends ==
    ASSUME NEW x \in Stream, NEW n \in Lengths, NEW put \in Nat
    PROVE  /\ AddFrame(x, n, put) \in Stream
           /\ Len(AddFrame(x, n, put).frames) = Len(x.frames) + 1
           /\ \A k \in DOMAIN x.frames : AddFrame(x, n, put).frames[k] = x.frames[k]
           /\ AddFrame(x, n, put).frames[Len(x.frames) + 1]
                = [start |-> Total(x), length |-> n, end |-> Total(x) + put]
           /\ \A k \in 0 .. Len(x.frames) : EndOf(AddFrame(x, n, put), k) = EndOf(x, k)
           /\ Total(AddFrame(x, n, put)) = Total(x) + put
           /\ AddFrame(x, n, put).written = x.written
           /\ AddFrame(x, n, put).arrived = x.arrived
           /\ AddFrame(x, n, put).handled = x.handled
<1> DEFINE f == [start |-> Total(x), length |-> n, end |-> Total(x) + put]
           y == AddFrame(x, n, put)
<1>1. Total(x) \in Nat /\ n \in Nat
  BY TotalType, SignalWireAssumption
<1>2. f \in Frame
  BY <1>1 DEF Frame
<1>3. x.frames \in Seq(Frame)
  BY DEF Stream
<1>4. y = [x EXCEPT !.frames = Append(x.frames, f)]
  BY DEF AddFrame
<1>5. /\ y.frames = Append(x.frames, f)
      /\ y.written = x.written /\ y.arrived = x.arrived /\ y.handled = x.handled
  BY <1>4 DEF Stream
<1> HIDE DEF f
<1>6. Append(x.frames, f) \in Seq(Frame)
  BY <1>2, <1>3
<1>7. y \in Stream
  BY <1>4, <1>6 DEF Stream
<1>8. Len(y.frames) = Len(x.frames) + 1
  BY <1>2, <1>3, <1>5
<1>9. \A k \in DOMAIN x.frames : y.frames[k] = x.frames[k]
  BY <1>2, <1>3, <1>5
<1>10. y.frames[Len(x.frames) + 1] = f
  BY <1>2, <1>3, <1>5
<1>11. \A k \in 0 .. Len(x.frames) : EndOf(y, k) = EndOf(x, k)
  BY <1>3, <1>9 DEF EndOf
<1>12. Total(y) = Total(x) + put
  <2>1. Total(y) = y.frames[Len(x.frames) + 1].end
    BY <1>3, <1>8 DEF Total, EndOf
  <2> QED BY <2>1, <1>10 DEF f
<1> QED BY <1>5, <1>7, <1>8, <1>9, <1>10, <1>11, <1>12 DEF f

\* A frame of which `put' bytes are written behind bytes that all are.
LEMMA AddFrameInv ==
    ASSUME NEW x, StreamInv(x), NEW n \in Lengths, NEW put \in 0 .. n,
           NEW w \in Nat, x.written <= w, w <= Total(x) + put,
           NEW y, y = [AddFrame(x, n, put) EXCEPT !.written = w]
    PROVE  StreamInv(y)
<1> DEFINE z == AddFrame(x, n, put)
<1>1. x \in Stream /\ put \in Nat /\ n \in Nat /\ n > SizeBytes
  BY SignalWireAssumption DEF StreamInv
<1>2. z \in Stream
  BY <1>1, AddFrameAppends
<1>3. /\ Len(z.frames) = Len(x.frames) + 1
      /\ \A k \in DOMAIN x.frames : z.frames[k] = x.frames[k]
      /\ z.frames[Len(x.frames) + 1] = [start |-> Total(x), length |-> n, end |-> Total(x) + put]
      /\ \A k \in 0 .. Len(x.frames) : EndOf(z, k) = EndOf(x, k)
      /\ Total(z) = Total(x) + put
      /\ z.arrived = x.arrived /\ z.handled = x.handled
  BY <1>1, AddFrameAppends
<1> HIDE DEF z
<1>4. /\ y \in Stream /\ y.frames = z.frames /\ y.written = w
      /\ y.arrived = x.arrived /\ y.handled = x.handled
  BY <1>2, <1>3 DEF Stream, z
<1>5. \A k : EndOf(y, k) = EndOf(z, k)
  BY <1>4 DEF EndOf
<1>6. x.frames \in Seq(Frame) /\ Total(x) \in Nat /\ x.handled \in Nat /\ x.handled <= Len(x.frames)
  BY <1>1, TotalType DEF Stream, StreamInv, HandledAreWhole
<1>7. FramesAreContiguous(y)
  <2> SUFFICES ASSUME NEW k \in DOMAIN y.frames
               PROVE  /\ y.frames[k].start = EndOf(y, k - 1)
                      /\ y.frames[k].start <= y.frames[k].end
                      /\ y.frames[k].end <= y.frames[k].start + y.frames[k].length
                      /\ y.frames[k].length > SizeBytes
    BY DEF FramesAreContiguous
  <2>1. k \in 1 .. Len(x.frames) + 1
    BY <1>3, <1>4, <1>2 DEF Stream
  <2>2. EndOf(y, k - 1) = EndOf(x, k - 1)
    BY <1>3, <1>5, <1>6, <2>1
  <2>3. CASE k = Len(x.frames) + 1
    BY <1>1, <1>3, <1>4, <1>6, <2>2, <2>3 DEF Total
  <2>4. CASE k # Len(x.frames) + 1
    <3>1. k \in DOMAIN x.frames
      BY <1>6, <2>1, <2>4
    <3>2. y.frames[k] = x.frames[k]
      BY <1>3, <1>4, <3>1
    <3> QED BY <2>2, <3>1, <3>2 DEF StreamInv, FramesAreContiguous
  <2> QED BY <2>3, <2>4
<1>8. BytesInOrder(y)
  <2>1. EndOf(y, y.handled) = EndOf(x, x.handled)
    <3>1. x.handled \in 0 .. Len(x.frames)
      BY <1>6
    <3>2. EndOf(z, x.handled) = EndOf(x, x.handled)
      BY <1>3, <3>1
    <3> QED BY <1>4, <1>5, <3>2
  <2>2. Total(y) = Total(x) + put
    BY <1>3, <1>4, <1>5 DEF Total
  <2>3. x.written \in Nat /\ x.arrived \in Nat
    BY <1>1 DEF Stream
  <2> QED BY <1>4, <1>6, <2>1, <2>2, <2>3, <1>1 DEF StreamInv, BytesInOrder
<1>9. HandledAreWhole(y)
  <2>1. \A k \in 1 .. y.handled : y.frames[k] = x.frames[k]
    BY <1>3, <1>4, <1>6
  <2> QED BY <1>3, <1>4, <1>6, <2>1 DEF StreamInv, HandledAreWhole
<1> QED BY <1>4, <1>7, <1>8, <1>9 DEF StreamInv

\* parseMessage erases whole frames and leaves the rest as it was.
LEMMA ParseInv ==
    ASSUME NEW x, StreamInv(x),
           NEW a \in x.arrived + 1 .. x.written, NEW n \in x.handled .. Len(x.frames),
           NEW ok \in BOOLEAN, NEW y, y = Parsed(x, a, n), ParseMessage(x, y, ok)
    PROVE  /\ StreamInv(y)
           /\ y.frames = x.frames
           /\ y.written = x.written
           /\ x.handled <= y.handled
           /\ ok => ~Complete(y, y.handled + 1)
<1>1. y = [x EXCEPT !.arrived = a, !.handled = n]
  BY DEF Parsed
<1>2. /\ \A k \in x.handled + 1 .. y.handled : Complete(y, k)
      /\ ok => ~Complete(y, y.handled + 1)
  BY DEF ParseMessage
<1>3. /\ x \in Stream /\ x.frames \in Seq(Frame)
      /\ x.written \in Nat /\ x.arrived \in Nat /\ x.handled \in Nat
  BY DEF StreamInv, Stream
<1>4. /\ a \in Nat \ {0} /\ x.arrived < a /\ a <= x.written
      /\ n \in Nat /\ x.handled <= n /\ n <= Len(x.frames)
  BY <1>3
<1>5. /\ y \in Stream /\ y.frames = x.frames /\ y.written = x.written
      /\ y.arrived = a /\ y.handled = n
  BY <1>1, <1>3, <1>4 DEF Stream
<1>6. \A k : EndOf(y, k) = EndOf(x, k)
  BY <1>4, <1>5 DEF EndOf
<1>7. FramesAreContiguous(y)
  BY <1>4, <1>5, <1>6 DEF StreamInv, FramesAreContiguous
<1>8. BytesInOrder(y)
  <2>1. EndOf(x, x.handled) <= x.arrived /\ x.written <= Total(x)
    BY DEF StreamInv, BytesInOrder
  <2>2. Total(y) = Total(x)
    BY <1>4, <1>5, <1>6 DEF Total
  <2>3. EndOf(y, n) <= a
    <3>1. CASE n = x.handled
      <4>1. EndOf(x, x.handled) \in Nat
        BY <1>3, <1>4, <1>5, EndOfType
      <4> QED BY <1>3, <1>4, <1>5, <1>6, <2>1, <3>1, <4>1
    <3>2. CASE n # x.handled
      <4>1. n \in x.handled + 1 .. y.handled
        BY <1>3, <1>4, <1>5, <3>2
      <4>2. Complete(y, n)
        BY <1>2, <4>1
      <4> QED BY <1>4, <1>5, <3>2, <4>1, <4>2, <1>3 DEF Complete, EndOf
    <3> QED BY <3>1, <3>2
  <2> QED BY <1>4, <1>5, <2>1, <2>2, <2>3 DEF BytesInOrder
<1>9. HandledAreWhole(y)
  <2> SUFFICES ASSUME NEW k \in 1 .. n
               PROVE  Whole(y.frames[k])
    BY <1>4, <1>5 DEF HandledAreWhole
  <2>1. CASE k <= x.handled
    BY <1>3, <1>4, <1>5, <2>1 DEF StreamInv, HandledAreWhole
  <2>2. CASE ~(k <= x.handled)
    <3>1. Complete(y, k)
      BY <1>2, <1>3, <1>4, <1>5, <2>2
    <3> QED BY <3>1 DEF Complete
  <2> QED BY <2>1, <2>2
<1> QED BY <1>2, <1>4, <1>5, <1>7, <1>8, <1>9 DEF StreamInv

\* Handing bytes to the library changes how far they have got.
LEMMA WrittenInv ==
    ASSUME NEW x, StreamInv(x), NEW w \in Nat, x.written <= w, w <= Total(x),
           NEW y, y = [x EXCEPT !.written = w]
    PROVE  StreamInv(y)
<1>1. x \in Stream /\ x.written \in Nat /\ x.arrived \in Nat /\ x.handled \in Nat
  BY DEF StreamInv, Stream
<1>2. /\ y \in Stream /\ y.frames = x.frames /\ y.written = w
      /\ y.arrived = x.arrived /\ y.handled = x.handled
  BY <1>1 DEF Stream
<1>3. \A k : EndOf(y, k) = EndOf(x, k)
  BY <1>2 DEF EndOf
<1>4. Total(y) = Total(x)
  BY <1>2, <1>3 DEF Total
<1> QED BY <1>1, <1>2, <1>3, <1>4
        DEF StreamInv, FramesAreContiguous, BytesInOrder, HandledAreWhole

-----------------------------------------------------------------------------
(* A step and the streams *)

\* The ways a stream changes.
Evolves(x, y) ==
    \/ \E n \in Lengths : \E put \in 1 .. n : \E w \in Nat :
          /\ Len(x.frames) < MaxFrames
          /\ x.written <= w /\ w <= Total(x) + put
          /\ y = [AddFrame(x, n, put) EXCEPT !.written = w]
    \/ \E a \in x.arrived + 1 .. x.written, n \in x.handled .. Len(x.frames), ok \in BOOLEAN :
          y = Parsed(x, a, n) /\ ParseMessage(x, y, ok)
    \/ \E w \in Nat :
          /\ x.written <= w /\ w <= Total(x)
          /\ y = [x EXCEPT !.written = w]

\* However a stream changes, its frames stay contiguous, its bytes in order, and
\* what was handled whole.
LEMMA EvolvesInv ==
    ASSUME NEW x, StreamInv(x), NEW y, Evolves(x, y)
    PROVE  StreamInv(y)
<1>1. CASE \E n \in Lengths : \E put \in 1 .. n : \E w \in Nat :
             /\ Len(x.frames) < MaxFrames
             /\ x.written <= w /\ w <= Total(x) + put
             /\ y = [AddFrame(x, n, put) EXCEPT !.written = w]
  <2>1. PICK n \in Lengths : \E put \in 1 .. n : \E w \in Nat :
             /\ x.written <= w /\ w <= Total(x) + put
             /\ y = [AddFrame(x, n, put) EXCEPT !.written = w]
    BY <1>1
  <2>2. PICK put \in 1 .. n, w \in Nat :
             /\ x.written <= w /\ w <= Total(x) + put
             /\ y = [AddFrame(x, n, put) EXCEPT !.written = w]
    BY <2>1
  <2>3. put \in 0 .. n
    BY SignalWireAssumption
  <2> QED BY <2>2, <2>3, AddFrameInv
<1>2. CASE \E a \in x.arrived + 1 .. x.written, n \in x.handled .. Len(x.frames), ok \in BOOLEAN :
          y = Parsed(x, a, n) /\ ParseMessage(x, y, ok)
  BY <1>2, ParseInv
<1>3. CASE \E w \in Nat :
             /\ x.written <= w /\ w <= Total(x)
             /\ y = [x EXCEPT !.written = w]
  BY <1>3, WrittenInv
<1> QED BY <1>1, <1>2, <1>3 DEF Evolves

StreamsInv == \A s \in Sockets : StreamInv(up[s]) /\ StreamInv(down[s])

\* One of the streams changes in one of those ways, the others do not.
UpEvolves(s) ==
    /\ \E y : Evolves(up[s], y) /\ up' = [up EXCEPT ![s] = y]
    /\ UNCHANGED down

DownEvolves(s) ==
    /\ \E y : Evolves(down[s], y) /\ down' = [down EXCEPT ![s] = y]
    /\ UNCHANGED up

\* A write of the client changes the current websocket's stream, or none.
LEMMA WriteEvolves ==
    ASSUME TypeOK, StreamsInv, NEW s \in Sockets, NEW n \in Lengths, NEW put \in 0 .. n,
           Write(s, n, put), UNCHANGED down
    PROVE  UNCHANGED <<up, down>> \/ UpEvolves(s)
<1> DEFINE x == up[s]
           z == AddFrame(x, n, put)
           w == x.written + put
           y == [z EXCEPT !.written = w]
<1>1. CASE put = 0
  BY <1>1 DEF Write
<1>2. CASE put # 0
  <2>1. x \in Stream /\ x.written \in Nat /\ x.written <= Total(x) /\ n \in Nat
    BY SignalWireAssumption DEF TypeOK, Stream, StreamsInv, StreamInv, BytesInOrder
  <2>2. Total(x) \in Nat
    BY <2>1, TotalType
  <2>5. up' = [up EXCEPT ![s] = y]
    BY <1>2 DEF Write
  <2>6. put \in 1 .. n /\ w \in Nat /\ x.written <= w /\ w <= Total(x) + put
    BY <1>2, <2>1, <2>2
  <2>7. Len(x.frames) < MaxFrames
    BY DEF Write, Room
  <2>8. Evolves(x, y)
    BY <2>6, <2>7 DEF Evolves
  <2> QED BY <2>5, <2>8 DEF UpEvolves
<1> QED BY <1>1, <1>2

\* Each call and callback changes at most one stream, in one of the three ways.
LEMMA StepEvolves ==
    ASSUME TypeOK, StreamsInv, Next
    PROVE  \/ UNCHANGED <<up, down>>
           \/ \E s \in Sockets : UpEvolves(s) \/ DownEvolves(s)
<1>1. ASSUME NEW n \in Lengths, NEW put \in 1 .. n, Send(n, put)
      PROVE  UNCHANGED <<up, down>> \/ \E s \in Sockets : UpEvolves(s)
  <2>1. wsi \in Sockets /\ put \in 0 .. n
    BY <1>1, SignalWireAssumption DEF Send, TypeOK
  <2>2. Write(wsi, n, put) /\ UNCHANGED down
    BY <1>1 DEF Send
  <2> QED BY <2>1, <2>2, WriteEvolves
<1>2. ASSUME NEW s \in Sockets, OnConnect(s)
      PROVE  UNCHANGED <<up, down>> \/ UpEvolves(s)
  <2>1. CASE s # wsi
    BY <1>2, <2>1 DEF OnConnect
  <2>2. CASE s = wsi
    <3>1. PICK n \in Lengths : \E put \in 0 .. n : Write(s, n, put) /\ UNCHANGED down
      BY <1>2, <2>2 DEF OnConnect
    <3>2. PICK put \in 0 .. n : Write(s, n, put) /\ UNCHANGED down
      BY <3>1
    <3> QED BY <3>2, WriteEvolves
  <2> QED BY <2>1, <2>2
<1>3. ASSUME NEW s \in Sockets, OnData(s)
      PROVE  UNCHANGED <<up, down>> \/ DownEvolves(s)
  <2>1. CASE UNCHANGED down
    BY <1>3, <2>1 DEF OnData
  <2>2. CASE ~UNCHANGED down
    <3>1. PICK a \in down[s].arrived + 1 .. down[s].written, n \in down[s].handled .. Len(down[s].frames),
              ok \in BOOLEAN :
            /\ ParseMessage(down[s], Parsed(down[s], a, n), ok)
            /\ down' = [down EXCEPT ![s] = Parsed(@, a, n)]
      BY <1>3, <2>2 DEF OnData
    <3>2. Evolves(down[s], Parsed(down[s], a, n))
      BY <3>1 DEF Evolves
    <3> QED BY <1>3, <3>1, <3>2 DEF OnData, DownEvolves
  <2> QED BY <2>1, <2>2
<1>4. ASSUME NEW s \in Sockets, Receive(s)
      PROVE  UpEvolves(s)
  <2>1. PICK a \in up[s].arrived + 1 .. up[s].written, n \in up[s].handled .. Len(up[s].frames),
              ok \in BOOLEAN :
            /\ ParseMessage(up[s], Parsed(up[s], a, n), ok)
            /\ up' = [up EXCEPT ![s] = Parsed(@, a, n)]
    BY <1>4 DEF Receive
  <2>2. Evolves(up[s], Parsed(up[s], a, n))
    BY <2>1 DEF Evolves
  <2> QED BY <1>4, <2>1, <2>2 DEF Receive, UpEvolves
<1>5. ASSUME NEW s \in Sockets, NEW n \in Lengths, SendMessage(s, n)
      PROVE  DownEvolves(s)
  <2> DEFINE x == down[s]
             z == AddFrame(x, n, n)
             y == [z EXCEPT !.written = x.written]
  <2>1. x \in Stream /\ x.written \in Nat /\ x.written <= Total(x) /\ n \in Nat /\ n > SizeBytes
    BY SignalWireAssumption DEF TypeOK, Stream, StreamsInv, StreamInv, BytesInOrder
  <2>2. Total(x) \in Nat
    BY <2>1, TotalType
  <2>3. z \in Stream /\ z.written = x.written
    BY <2>1, AddFrameAppends
  <2>4. y = z
    BY <2>3 DEF Stream
  <2>5. n \in 1 .. n /\ x.written <= Total(x) + n
    BY <2>1, <2>2, SignalWireAssumption
  <2>6. Len(x.frames) < MaxFrames
    BY <1>5 DEF SendMessage, Room
  <2>7. Evolves(x, y)
    BY <2>1, <2>5, <2>6 DEF Evolves
  <2>8. down' = [down EXCEPT ![s] = z] /\ UNCHANGED up
    BY <1>5 DEF SendMessage
  <2> QED BY <2>4, <2>7, <2>8 DEF DownEvolves
<1>6. ASSUME NEW s \in Sockets, NEW put \in 0 .. Unsent(down[s]), Writeable(s, put)
      PROVE  DownEvolves(s)
  <2> DEFINE x == down[s]
             w == x.written + put
  <2>1. x \in Stream /\ x.written \in Nat
    BY DEF TypeOK, Stream
  <2>2. Total(x) \in Nat
    BY <2>1, TotalType
  <2>3. w \in Nat /\ x.written <= w /\ w <= Total(x)
    BY <2>1, <2>2 DEF Unsent
  <2>4. Evolves(x, [x EXCEPT !.written = w])
    BY <2>3 DEF Evolves
  <2>5. down' = [down EXCEPT ![s] = [x EXCEPT !.written = w]] /\ UNCHANGED up
    BY <1>6 DEF Writeable
  <2> QED BY <2>4, <2>5 DEF DownEvolves
<1>7. ASSUME NEW s \in Sockets,
             \/ SignalingConnect(s) \/ OnWritable(s) \/ OnDisconnect(s) \/ Established(s)
             \/ Closed(s) \/ WriteFails(s)
      PROVE  UNCHANGED <<up, down>>
  BY <1>7 DEF SignalingConnect, OnWritable, OnDisconnect, Established, Closed, WriteFails
<1>8. CASE Shutdown
  BY <1>8 DEF Shutdown
<1> QED BY <1>1, <1>2, <1>3, <1>4, <1>5, <1>6, <1>7, <1>8 DEF Next

\* Every call and callback keeps the invariant of the streams.
LEMMA StreamsStep ==
    ASSUME TypeOK, StreamsInv, Next
    PROVE  /\ StreamsInv'
           /\ up' \in [Sockets -> Stream]
           /\ down' \in [Sockets -> Stream]
<1>1. CASE UNCHANGED <<up, down>>
  BY <1>1 DEF TypeOK, StreamsInv
<1>2. ASSUME NEW s \in Sockets, UpEvolves(s)
      PROVE  StreamsInv' /\ up' \in [Sockets -> Stream] /\ down' \in [Sockets -> Stream]
  <2>1. PICK y : Evolves(up[s], y) /\ up' = [up EXCEPT ![s] = y]
    BY <1>2 DEF UpEvolves
  <2>2. StreamInv(y) /\ y \in Stream
    <3>1. StreamInv(up[s])
      BY DEF StreamsInv
    <3>2. StreamInv(y)
      BY <2>1, <3>1, EvolvesInv
    <3> QED BY <3>2 DEF StreamInv
  <2> QED BY <1>2, <2>1, <2>2 DEF TypeOK, StreamsInv, UpEvolves
<1>3. ASSUME NEW s \in Sockets, DownEvolves(s)
      PROVE  StreamsInv' /\ up' \in [Sockets -> Stream] /\ down' \in [Sockets -> Stream]
  <2>1. PICK y : Evolves(down[s], y) /\ down' = [down EXCEPT ![s] = y]
    BY <1>3 DEF DownEvolves
  <2>2. StreamInv(y) /\ y \in Stream
    <3>1. StreamInv(down[s])
      BY DEF StreamsInv
    <3>2. StreamInv(y)
      BY <2>1, <3>1, EvolvesInv
    <3> QED BY <3>2 DEF StreamInv
  <2> QED BY <1>3, <2>1, <2>2 DEF TypeOK, StreamsInv, DownEvolves
<1> QED BY <1>1, <1>2, <1>3, StepEvolves

-----------------------------------------------------------------------------
(* Type correctness *)

\* Every call and callback keeps the types of the sockets.
LEMMA SessionStep ==
    ASSUME TypeOK, Next
    PROVE  /\ wsi' \in Sockets \cup {NoSocket}
           /\ client' \in [Sockets -> {"unused", "connecting", "open", "closed"}]
           /\ server' \in [Sockets -> {"unused", "open", "closed"}]
           /\ clientWants' \subseteq Sockets
           /\ serverWants' \subseteq Sockets
<1>1. ASSUME NEW n \in Lengths, NEW put \in 1 .. n, Send(n, put)
      PROVE  clientWants' \subseteq Sockets /\ UNCHANGED <<wsi, client, server, serverWants>>
  BY <1>1 DEF Send, TypeOK
<1>2. CASE Shutdown
  BY <1>2 DEF Shutdown, Disconnect, Reset, TypeOK
<1>3. ASSUME NEW s \in Sockets, SignalingConnect(s)
      PROVE  /\ wsi' \in Sockets \cup {NoSocket}
             /\ client' \in [Sockets -> {"unused", "connecting", "open", "closed"}]
             /\ clientWants' \subseteq Sockets
             /\ UNCHANGED <<server, serverWants>>
  BY <1>3 DEF SignalingConnect, Disconnect, Reset, TypeOK
<1>4. ASSUME NEW s \in Sockets, OnConnect(s) \/ OnData(s) \/ OnWritable(s) \/ OnDisconnect(s)
      PROVE  /\ wsi' \in Sockets \cup {NoSocket}
             /\ client' \in [Sockets -> {"unused", "connecting", "open", "closed"}]
             /\ clientWants' \subseteq Sockets
             /\ UNCHANGED <<server, serverWants>>
  <2>1. CASE OnConnect(s)
    BY <2>1 DEF OnConnect, Reset, TypeOK
  <2>2. CASE OnData(s)
    BY <2>2 DEF OnData, ClientCloses, TypeOK
  <2>3. CASE OnWritable(s)
    BY <2>3 DEF OnWritable, ClientCloses, TypeOK
  <2>4. CASE OnDisconnect(s)
    BY <2>4 DEF OnDisconnect, ClientCloses, TypeOK
  <2> QED BY <1>4, <2>1, <2>2, <2>3, <2>4
<1>5. ASSUME NEW s \in Sockets,
             \/ Established(s) \/ Closed(s) \/ Receive(s) \/ WriteFails(s)
             \/ \E n \in Lengths : SendMessage(s, n)
             \/ \E put \in 0 .. Unsent(down[s]) : Writeable(s, put)
      PROVE  /\ server' \in [Sockets -> {"unused", "open", "closed"}]
             /\ serverWants' \subseteq Sockets
             /\ UNCHANGED <<wsi, client, clientWants>>
  <2>1. CASE Established(s)
    BY <2>1 DEF Established, TypeOK
  <2>2. CASE Closed(s) \/ WriteFails(s)
    BY <2>2 DEF Closed, WriteFails, ServerCloses, TypeOK
  <2>3. CASE Receive(s)
    BY <2>3 DEF Receive, ServerCloses, TypeOK
  <2>4. CASE \E n \in Lengths : SendMessage(s, n)
    BY <2>4 DEF SendMessage, TypeOK
  <2>5. CASE \E put \in 0 .. Unsent(down[s]) : Writeable(s, put)
    BY <2>5 DEF Writeable, TypeOK
  <2> QED BY <1>5, <2>1, <2>2, <2>3, <2>4, <2>5
<1> QED BY <1>1, <1>2, <1>3, <1>4, <1>5 DEF Next, TypeOK

TypeInv == TypeOK /\ StreamsInv

\* The types and the invariant of the streams hold.
LEMMA TypeInvariant == Spec => []TypeInv
<1>1. Init => TypeInv
  <2> SUFFICES ASSUME Init
               PROVE  TypeInv
    OBVIOUS
  <2>1. StreamInv(NoBytes) /\ NoBytes \in Stream
    BY NoBytesInv DEF StreamInv
  <2> QED BY <2>1 DEF Init, TypeInv, TypeOK, StreamsInv
<1>2. TypeInv /\ [Next]_vars => TypeInv'
  <2>1. CASE UNCHANGED vars
    BY <2>1 DEF vars, TypeInv, TypeOK, StreamsInv
  <2>2. ASSUME TypeInv, Next
        PROVE  TypeInv'
    BY <2>2, StreamsStep, SessionStep DEF TypeInv, TypeOK
  <2> QED BY <2>1, <2>2
<1> QED BY <1>1, <1>2, PTL DEF Spec

\* The state of the signaling connections is well typed whatever bytes come:
\* offsets and lengths stay naturals, requests name websockets.
THEOREM TypeCorrect == Spec => []TypeOK
<1>1. TypeInv => TypeOK
  BY DEF TypeInv
<1> QED BY <1>1, TypeInvariant, PTL

-----------------------------------------------------------------------------
(* The current socket *)

\* A callback that closes a websocket resets p2pConn if it names that one.
LEMMA CurrentSocketStep ==
    ASSUME TypeOK, CurrentSocketIsLive, Next
    PROVE  CurrentSocketIsLive'
<1>1. ASSUME UNCHANGED <<wsi, client>>
      PROVE  CurrentSocketIsLive'
  BY <1>1 DEF CurrentSocketIsLive
<1>2. ASSUME Reset
      PROVE  CurrentSocketIsLive'
  BY <1>2 DEF Reset, CurrentSocketIsLive
<1>3. ASSUME NEW s \in Sockets, ClientCloses(s)
      PROVE  CurrentSocketIsLive'
  BY <1>3 DEF ClientCloses, CurrentSocketIsLive, TypeOK
<1>4. ASSUME NEW s \in Sockets, SignalingConnect(s)
      PROVE  CurrentSocketIsLive'
  BY <1>4, <1>2 DEF SignalingConnect, CurrentSocketIsLive, TypeOK
<1>5. ASSUME NEW s \in Sockets, OnConnect(s)
      PROVE  CurrentSocketIsLive'
  <2>1. client' = [client EXCEPT ![s] = "open"]
    BY <1>5 DEF OnConnect
  <2>2. CASE UNCHANGED wsi
    BY <2>1, <2>2 DEF CurrentSocketIsLive, TypeOK
  <2>3. CASE ~UNCHANGED wsi
    BY <1>2, <1>5, <2>3 DEF OnConnect
  <2> QED BY <2>2, <2>3
<1>6. ASSUME NEW s \in Sockets, OnData(s) \/ OnWritable(s) \/ OnDisconnect(s)
      PROVE  CurrentSocketIsLive'
  BY <1>1, <1>3, <1>6 DEF OnData, OnWritable, OnDisconnect
<1>7. ASSUME NEW s \in Sockets,
             \/ Established(s) \/ Closed(s) \/ Receive(s) \/ WriteFails(s)
             \/ \E n \in Lengths : SendMessage(s, n)
             \/ \E put \in 0 .. Unsent(down[s]) : Writeable(s, put)
      PROVE  UNCHANGED <<wsi, client>>
  BY <1>7 DEF Established, Closed, Receive, WriteFails, SendMessage, Writeable
<1>8. ASSUME NEW n \in Lengths, NEW put \in 1 .. n, Send(n, put)
      PROVE  UNCHANGED <<wsi, client>>
  BY <1>8 DEF Send
<1>9. CASE Shutdown
  BY <1>2, <1>9 DEF Shutdown
<1> QED BY <1>1, <1>4, <1>5, <1>6, <1>7, <1>8, <1>9 DEF Next

\* The websocket that p2pConn names, which the client writes to and asks
\* callbacks of, has not been closed by the library: on_disconnect drops p2pConn
\* together with it, and nothing puts a closed one back.
THEOREM SocketCorrect == Spec => []CurrentSocketIsLive
<1>1. Init => CurrentSocketIsLive
  BY DEF Init, CurrentSocketIsLive
<1>2. TypeInv /\ CurrentSocketIsLive /\ [Next]_vars => CurrentSocketIsLive'
  <2>1. CASE UNCHANGED vars
    BY <2>1 DEF vars, CurrentSocketIsLive
  <2>2. ASSUME TypeInv, CurrentSocketIsLive, Next
        PROVE  CurrentSocketIsLive'
    BY <2>2, CurrentSocketStep DEF TypeInv
  <2> QED BY <2>1, <2>2
<1> QED BY <1>1, <1>2, TypeInvariant, PTL DEF Spec

-----------------------------------------------------------------------------
(* The receive buffers *)

\* Before a socket is open at the receiving end nothing has arrived on it.
NothingArrived ==
    \A s \in Sockets :
        /\ server[s] = "unused" => up[s].arrived = 0
        /\ client[s] \in {"unused", "connecting"} => down[s].arrived = 0

NothingComplete(x) == ~Complete(x, x.handled + 1)

BufferInv == CompleteFramesAreHandled /\ NothingArrived

\* An empty receive buffer holds no complete frame: no frame is that short.
LEMMA EmptyBuffer ==
    ASSUME NEW x, StreamInv(x), x.arrived = 0
    PROVE  NothingComplete(x)
<1> DEFINE k == x.handled + 1
<1> SUFFICES ASSUME Complete(x, k)
             PROVE  FALSE
  BY DEF NothingComplete
<1>1. x.frames \in Seq(Frame) /\ x.handled \in Nat
  BY DEF StreamInv, Stream
<1>2. k \in DOMAIN x.frames
  BY <1>1 DEF Complete
<1>3. x.frames[k] \in Frame /\ x.frames[k].length > SizeBytes
  BY <1>1, <1>2 DEF StreamInv, FramesAreContiguous
<1> QED BY <1>3, SignalWireAssumption DEF Complete, Whole, Frame

\* Bytes of a new frame, and bytes that are written, have not arrived yet.
LEMMA StillNothingComplete ==
    ASSUME NEW x, StreamInv(x), NEW n \in Lengths, NEW put \in 1 .. n, NEW w \in Nat,
           NEW y, y = [AddFrame(x, n, put) EXCEPT !.written = w], NothingComplete(x)
    PROVE  NothingComplete(y) /\ y.arrived = x.arrived
<1> DEFINE z == AddFrame(x, n, put)
           k == x.handled + 1
<1>1. x \in Stream /\ x.frames \in Seq(Frame) /\ x.handled \in Nat /\ x.handled <= Len(x.frames)
  BY DEF StreamInv, Stream, HandledAreWhole
<1>2. n \in Nat /\ put \in Nat /\ put > 0
  BY SignalWireAssumption
<1>3. /\ z \in Stream
      /\ Len(z.frames) = Len(x.frames) + 1
      /\ \A i \in DOMAIN x.frames : z.frames[i] = x.frames[i]
      /\ z.frames[Len(x.frames) + 1] = [start |-> Total(x), length |-> n, end |-> Total(x) + put]
      /\ z.arrived = x.arrived /\ z.handled = x.handled
  BY <1>1, <1>2, AddFrameAppends
<1> HIDE DEF z
<1>4. y.frames = z.frames /\ y.arrived = x.arrived /\ y.handled = x.handled
  BY <1>3 DEF Stream, z
<1>5. Total(x) \in Nat /\ x.arrived <= Total(x) /\ x.arrived \in Nat
  BY <1>1, TotalType DEF StreamInv, BytesInOrder, Stream
<1>6. CASE x.handled = Len(x.frames)
  BY <1>1, <1>2, <1>3, <1>4, <1>5, <1>6 DEF NothingComplete, Complete
<1>7. CASE x.handled # Len(x.frames)
  <2>1. k \in DOMAIN x.frames
    BY <1>1, <1>7
  <2>2. y.frames[k] = x.frames[k] /\ k <= Len(x.frames)
    BY <1>1, <1>3, <1>4, <2>1
  <2> QED BY <1>4, <2>2 DEF NothingComplete, Complete
<1> QED BY <1>4, <1>6, <1>7

\* So does a write at the client, with all other streams left alone.
LEMMA WriteKeepsBuffers ==
    ASSUME TypeOK, StreamsInv, NEW s \in Sockets, NEW n \in Lengths, NEW put \in 0 .. n, Write(s, n, put),
           NEW t \in Sockets
    PROVE  /\ up'[t].arrived = up[t].arrived
           /\ NothingComplete(up[t]) => NothingComplete(up[t])'
<1>1. CASE put = 0
  BY <1>1 DEF Write, NothingComplete, Complete
<1>2. CASE put # 0
  <2> DEFINE w == up[s].written + put
             y == [AddFrame(up[s], n, put) EXCEPT !.written = w]
  <2>1. put \in 1 .. n /\ put \in Nat
    BY <1>2, SignalWireAssumption
  <2>2. w \in Nat /\ StreamInv(up[s]) /\ up[s] \in Stream
    <3>1. StreamInv(up[s])
      BY DEF StreamsInv
    <3>2. up[s] \in Stream /\ up[s].written \in Nat
      BY <3>1 DEF StreamInv, Stream
    <3> QED BY <2>1, <3>1, <3>2
  <2>3. up' = [up EXCEPT ![s] = y] /\ up \in [Sockets -> Stream]
    BY <1>2 DEF Write, TypeOK
  <2>4. CASE t # s
    <3>1. up'[t] = up[t]
      BY <2>3, <2>4
    <3> QED BY <3>1 DEF NothingComplete, Complete
  <2>5. CASE t = s
    <3>1. up'[s] = y
      BY <2>3
    <3>2. y.arrived = up[s].arrived
      <4> DEFINE z == AddFrame(up[s], n, put)
      <4>1. z \in Stream /\ z.arrived = up[s].arrived
        BY <2>1, <2>2, AddFrameAppends
      <4>2. y = [z EXCEPT !.written = w]
        OBVIOUS
      <4> HIDE DEF z, y
      <4> QED BY <4>1, <4>2 DEF Stream
    <3>3. NothingComplete(up[s]) => NothingComplete(y)
      BY <2>1, <2>2, StillNothingComplete
    <3> HIDE DEF y
    <3> QED BY <2>5, <3>1, <3>2, <3>3 DEF NothingComplete, Complete
  <2> QED BY <2>4, <2>5
<1> QED BY <1>1, <1>2

\* A message that has arrived as a whole is handled by the callback in which its
\* last byte arrives.
LEMMA BufferStep ==
    ASSUME TypeOK, StreamsInv, StreamsInv', BufferInv, Next
    PROVE  BufferInv'
<1> DEFINE UpInv(s) == /\ server[s] = "open" => NothingComplete(up[s])
                       /\ server[s] = "unused" => up[s].arrived = 0
           DownInv(s) == /\ client[s] = "open" /\ s = wsi => NothingComplete(down[s])
                         /\ client[s] \in {"unused", "connecting"} => down[s].arrived = 0
<1>0. /\ BufferInv <=> \A s \in Sockets : UpInv(s) /\ DownInv(s)
      /\ BufferInv' <=> \A s \in Sockets : UpInv(s)' /\ DownInv(s)'
  BY DEF BufferInv, CompleteFramesAreHandled, NothingArrived, NothingComplete
<1>u. ASSUME UNCHANGED <<up, server>>, NEW t \in Sockets PROVE UpInv(t)'
  BY <1>0, <1>u DEF NothingComplete, Complete
<1>d. ASSUME UNCHANGED <<down, client, wsi>>, NEW t \in Sockets PROVE DownInv(t)'
  BY <1>0, <1>d DEF NothingComplete, Complete
<1>w. ASSUME NEW s \in Sockets, NEW n \in Lengths, NEW put \in 0 .. n, Write(s, n, put),
             UNCHANGED server, NEW t \in Sockets
      PROVE  UpInv(t)'
  BY <1>0, <1>w, WriteKeepsBuffers
<1>c. ASSUME NEW s \in Sockets, ClientCloses(s), UNCHANGED down, NEW t \in Sockets
      PROVE  DownInv(t)'
  <2>1. NothingComplete(down[t])' <=> NothingComplete(down[t])
    BY <1>c DEF NothingComplete, Complete
  <2>2. client' = [client EXCEPT ![s] = "closed"] /\ wsi' = (IF wsi = s THEN NoSocket ELSE wsi)
    BY <1>c DEF ClientCloses
  <2>3. CASE t = s
    BY <2>2, <2>3 DEF TypeOK
  <2>4. CASE t # s
    <3>1. client'[t] = client[t] /\ (t = wsi' => t = wsi)
      BY <2>2, <2>4, SignalWireAssumption DEF TypeOK
    <3> QED BY <1>0, <1>c, <2>1, <3>1
  <2> QED BY <2>3, <2>4
<1>1. ASSUME NEW n \in Lengths, NEW put \in 1 .. n, Send(n, put)
      PROVE  BufferInv'
  <2>1. wsi \in Sockets /\ put \in 0 .. n /\ Write(wsi, n, put)
    BY <1>1, SignalWireAssumption DEF Send, TypeOK
  <2>2. UNCHANGED <<wsi, client, server, down>>
    BY <1>1 DEF Send
  <2> QED BY <1>0, <1>d, <1>w, <2>1, <2>2
<1>2. CASE Shutdown
  <2>1. wsi' = NoSocket /\ UNCHANGED <<client, server, up, down>>
    BY <1>2 DEF Shutdown, Reset
  <2>2. \A t \in Sockets : DownInv(t)'
    BY <1>0, <2>1, SignalWireAssumption
  <2> QED BY <1>0, <1>u, <2>1, <2>2
<1>3. ASSUME NEW s \in Sockets, SignalingConnect(s)
      PROVE  BufferInv'
  <2>1. UNCHANGED <<server, up, down>> /\ client[s] = "unused"
    BY <1>3 DEF SignalingConnect
  <2>2. \/ wsi' = s /\ client' = [client EXCEPT ![s] = "connecting"]
        \/ wsi' = NoSocket /\ client' = client
    BY <1>3 DEF SignalingConnect, Reset
  <2>3. \A t \in Sockets : DownInv(t)'
    BY <1>0, <2>1, <2>2, SignalWireAssumption DEF TypeOK
  <2> QED BY <1>0, <1>u, <2>1, <2>3
<1>4. ASSUME NEW s \in Sockets, OnConnect(s)
      PROVE  BufferInv'
  <2>1. /\ client[s] = "connecting" /\ client' = [client EXCEPT ![s] = "open"]
        /\ UNCHANGED <<server, down>> /\ (wsi' = wsi \/ wsi' = NoSocket)
    BY <1>4 DEF OnConnect, Reset
  <2>2. NothingComplete(down[s])
    BY <1>0, <2>1, EmptyBuffer DEF StreamsInv
  <2>3. \A t \in Sockets : DownInv(t)'
    <3> SUFFICES ASSUME NEW t \in Sockets PROVE DownInv(t)'
      OBVIOUS
    <3>1. NothingComplete(down[t])' <=> NothingComplete(down[t])
      BY <2>1 DEF NothingComplete, Complete
    <3>2. CASE t = s
      BY <2>1, <2>2, <3>1, <3>2 DEF TypeOK
    <3>3. CASE t # s
      BY <1>0, <2>1, <3>1, <3>3, SignalWireAssumption DEF TypeOK
    <3> QED BY <3>2, <3>3
  <2>4. CASE s # wsi
    <3>1. up' = up
      BY <1>4, <2>4 DEF OnConnect
    <3> QED BY <1>0, <1>u, <2>1, <2>3, <3>1
  <2>5. CASE s = wsi
    <3>1. PICK n \in Lengths : \E put \in 0 .. n : Write(s, n, put)
      BY <1>4, <2>5 DEF OnConnect
    <3>2. PICK put \in 0 .. n : Write(s, n, put)
      BY <3>1
    <3> QED BY <1>0, <1>w, <2>1, <2>3, <3>2
  <2> QED BY <2>4, <2>5
<1>5. ASSUME NEW s \in Sockets, OnData(s)
      PROVE  BufferInv'
  <2>1. UNCHANGED <<server, up>> /\ client[s] = "open"
    BY <1>5 DEF OnData
  <2>2. CASE ClientCloses(s) /\ UNCHANGED down
    BY <1>0, <1>u, <1>c, <2>1, <2>2
  <2>3. CASE ~(ClientCloses(s) /\ UNCHANGED down)
    <3>1. PICK a \in down[s].arrived + 1 .. down[s].written, n \in down[s].handled .. Len(down[s].frames),
              ok \in BOOLEAN :
            /\ ParseMessage(down[s], Parsed(down[s], a, n), ok)
            /\ down' = [down EXCEPT ![s] = Parsed(@, a, n)]
            /\ IF ok THEN UNCHANGED <<client, clientWants, wsi>> ELSE ClientCloses(s)
      BY <1>5, <2>3 DEF OnData
    <3>2. down'[s] = Parsed(down[s], a, n) /\ \A t \in Sockets \ {s} : down'[t] = down[t]
      BY <3>1 DEF TypeOK
    <3>3. ok => NothingComplete(down[s])'
      <4>1. ok => NothingComplete(Parsed(down[s], a, n))
        BY <3>1, ParseInv DEF StreamsInv, NothingComplete
      <4> QED BY <3>2, <4>1 DEF NothingComplete, Complete
    <3>4. \A t \in Sockets : DownInv(t)'
      <4> SUFFICES ASSUME NEW t \in Sockets PROVE DownInv(t)'
        OBVIOUS
      <4>1. CASE t = s
        BY <2>1, <3>1, <3>3, <4>1 DEF ClientCloses, TypeOK
      <4>2. CASE t # s
        <5>1. down'[t] = down[t]
          BY <3>2, <4>2
        <5>2. NothingComplete(down[t])' <=> NothingComplete(down[t])
          BY <5>1 DEF NothingComplete, Complete
        <5>3. client'[t] = client[t] /\ (t = wsi' => t = wsi)
          BY <3>1, <4>2, SignalWireAssumption DEF ClientCloses, TypeOK
        <5> QED BY <1>0, <5>1, <5>2, <5>3
      <4> QED BY <4>1, <4>2
    <3> QED BY <1>0, <1>u, <2>1, <3>4
  <2> QED BY <2>2, <2>3
<1>6. ASSUME NEW s \in Sockets, OnWritable(s) \/ OnDisconnect(s)
      PROVE  BufferInv'
  <2>1. UNCHANGED <<server, up, down>> /\ (ClientCloses(s) \/ UNCHANGED <<client, wsi>>)
    BY <1>6 DEF OnWritable, OnDisconnect
  <2> QED BY <1>0, <1>u, <1>c, <1>d, <2>1
<1>7. ASSUME NEW s \in Sockets, Established(s)
      PROVE  BufferInv'
  <2>1. server[s] = "unused" /\ server' = [server EXCEPT ![s] = "open"] /\ UNCHANGED <<up, down, client, wsi>>
    BY <1>7 DEF Established
  <2>2. NothingComplete(up[s])
    BY <1>0, <2>1, EmptyBuffer DEF StreamsInv
  <2>3. \A t \in Sockets : UpInv(t)'
    BY <1>0, <2>1, <2>2 DEF TypeOK, NothingComplete, Complete
  <2> QED BY <1>0, <1>d, <2>1, <2>3
<1>8. ASSUME NEW s \in Sockets, Closed(s) \/ WriteFails(s)
      PROVE  BufferInv'
  <2>1. server' = [server EXCEPT ![s] = "closed"] /\ UNCHANGED <<up, down, client, wsi>>
    BY <1>8 DEF Closed, WriteFails, ServerCloses
  <2>2. \A t \in Sockets : UpInv(t)'
    BY <1>0, <2>1 DEF TypeOK, NothingComplete, Complete
  <2> QED BY <1>0, <1>d, <2>1, <2>2
<1>9. ASSUME NEW s \in Sockets, Receive(s)
      PROVE  BufferInv'
  <2>1. UNCHANGED <<wsi, client, down>> /\ server[s] = "open"
    BY <1>9 DEF Receive
  <2>2. PICK a \in up[s].arrived + 1 .. up[s].written, n \in up[s].handled .. Len(up[s].frames),
              ok \in BOOLEAN :
            /\ ParseMessage(up[s], Parsed(up[s], a, n), ok)
            /\ up' = [up EXCEPT ![s] = Parsed(@, a, n)]
            /\ IF ok THEN UNCHANGED <<server, serverWants>> ELSE ServerCloses(s)
    BY <1>9 DEF Receive
  <2>3. up'[s] = Parsed(up[s], a, n) /\ \A t \in Sockets \ {s} : up'[t] = up[t]
    BY <2>2 DEF TypeOK
  <2>4. ok => NothingComplete(up[s])'
    <3>1. ok => NothingComplete(Parsed(up[s], a, n))
      BY <2>2, ParseInv DEF StreamsInv, NothingComplete
    <3> QED BY <2>3, <3>1 DEF NothingComplete, Complete
  <2>5. \A t \in Sockets : UpInv(t)'
    <3> SUFFICES ASSUME NEW t \in Sockets PROVE UpInv(t)'
      OBVIOUS
    <3>1. CASE t = s
      BY <2>1, <2>2, <2>4, <3>1 DEF ServerCloses, TypeOK
    <3>2. CASE t # s
      <4>1. up'[t] = up[t]
        BY <2>3, <3>2
      <4>2. NothingComplete(up[t])' <=> NothingComplete(up[t])
        BY <4>1 DEF NothingComplete, Complete
      <4>3. server'[t] = server[t]
        BY <2>2, <3>2 DEF ServerCloses, TypeOK
      <4> QED BY <1>0, <4>1, <4>2, <4>3
    <3> QED BY <3>1, <3>2
  <2> QED BY <1>0, <1>d, <2>1, <2>5
<1>10. ASSUME NEW s \in Sockets, NEW n \in Lengths, SendMessage(s, n)
      PROVE  BufferInv'
  <2> DEFINE x == down[s]
             y == [AddFrame(x, n, n) EXCEPT !.written = x.written]
  <2>1. UNCHANGED <<wsi, client, server, up>> /\ down' = [down EXCEPT ![s] = AddFrame(x, n, n)]
    BY <1>10 DEF SendMessage
  <2>2. x \in Stream /\ StreamInv(x) /\ x.written \in Nat /\ n \in 1 .. n /\ n \in Nat
    BY SignalWireAssumption DEF TypeOK, Stream, StreamsInv
  <2>3. AddFrame(x, n, n) \in Stream /\ AddFrame(x, n, n).written = x.written
    BY <2>2, AddFrameAppends
  <2>4. y = AddFrame(x, n, n)
    BY <2>3 DEF Stream
  <2>5. NothingComplete(x) => NothingComplete(y)
    BY <2>2, StillNothingComplete
  <2>6. \A t \in Sockets : DownInv(t)'
    <3> SUFFICES ASSUME NEW t \in Sockets PROVE DownInv(t)'
      OBVIOUS
    <3>1. down'[t] = IF t = s THEN y ELSE down[t]
      BY <2>1, <2>4 DEF TypeOK
    <3>a. y.arrived = x.arrived
      <4>1. AddFrame(x, n, n).arrived = x.arrived
        BY <2>2, AddFrameAppends
      <4> QED BY <2>4, <4>1
    <3> HIDE DEF y
    <3>2. NothingComplete(down[t]) => NothingComplete(down[t])'
      <4>1. CASE t = s
        BY <2>5, <3>1, <4>1 DEF NothingComplete, Complete
      <4>2. CASE t # s
        BY <3>1, <4>2 DEF NothingComplete, Complete
      <4> QED BY <4>1, <4>2
    <3> QED BY <1>0, <2>1, <3>a, <3>1, <3>2
  <2> QED BY <1>0, <1>u, <2>1, <2>6
<1>11. ASSUME NEW s \in Sockets, NEW put \in 0 .. Unsent(down[s]), Writeable(s, put)
      PROVE  BufferInv'
  <2>1. UNCHANGED <<wsi, client, server, up>> /\ down' = [down EXCEPT ![s].written = @ + put]
    BY <1>11 DEF Writeable
  <2>2. \A t \in Sockets : /\ down'[t].frames = down[t].frames
                           /\ down'[t].arrived = down[t].arrived
                           /\ down'[t].handled = down[t].handled
    BY <2>1 DEF TypeOK, Stream
  <2>3. \A t \in Sockets : DownInv(t)'
    BY <1>0, <2>1, <2>2 DEF NothingComplete, Complete
  <2> QED BY <1>0, <1>u, <2>1, <2>3
<1> QED BY <1>1, <1>2, <1>3, <1>4, <1>5, <1>6, <1>7, <1>8, <1>9, <1>10, <1>11 DEF Next

\* A message of which all bytes have arrived on an open connection has been
\* handled, at either end: parseMessage goes on until it meets a frame that is
\* not complete or gives the connection up, so none waits for bytes that may
\* never come.  The induction needs that nothing has arrived on a websocket
\* before its receiving end opens.
THEOREM NothingIsLeftBehind == Spec => []CompleteFramesAreHandled
<1>1. Init => BufferInv
  <2> SUFFICES ASSUME Init
               PROVE  BufferInv
    OBVIOUS
  <2>1. NoBytes.arrived = 0
    BY DEF NoBytes
  <2> QED BY <2>1 DEF Init, BufferInv, CompleteFramesAreHandled, NothingArrived
<1>2. TypeInv /\ TypeInv' /\ BufferInv /\ [Next]_vars => BufferInv'
  <2>1. CASE UNCHANGED vars
    BY <2>1 DEF vars, BufferInv, CompleteFramesAreHandled, NothingArrived, Complete
  <2>2. ASSUME TypeInv, TypeInv', BufferInv, Next
        PROVE  BufferInv'
    BY <2>2, BufferStep DEF TypeInv
  <2> QED BY <2>1, <2>2
<1>3. BufferInv => CompleteFramesAreHandled
  BY DEF BufferInv
<1> QED BY <1>1, <1>2, <1>3, TypeInvariant, PTL DEF Spec

-----------------------------------------------------------------------------
(* The streams are message channels *)

WholeFrames(x) == {k \in DOMAIN x.frames : Whole(x.frames[k])}

\* What happens to a channel when its stream evolves: nothing, a message is
\* accepted, or the messages up to some number are handed over.
Nothing(x, y) == WholeFrames(y) = WholeFrames(x) /\ y.handled = x.handled

Accepts(x, y) ==
    /\ \E m \in 1 .. MaxFrames :
          /\ \A k \in WholeFrames(x) : k < m
          /\ WholeFrames(y) = WholeFrames(x) \cup {m}
    /\ y.handled = x.handled

HandsOver(x, y) ==
    /\ WholeFrames(y) = WholeFrames(x)
    /\ \E n \in WholeFrames(x) \ (1 .. x.handled) :
          1 .. y.handled = {m \in WholeFrames(x) : m <= n}

\* However a stream changes, its channel accepts one message, hands one over, or
\* nothing happens to it.
LEMMA EvolvesRefines ==
    ASSUME NEW x, StreamInv(x), NEW y, Evolves(x, y)
    PROVE  Nothing(x, y) \/ Accepts(x, y) \/ HandsOver(x, y)
<1>1. /\ x \in Stream /\ x.frames \in Seq(Frame) /\ DOMAIN x.frames = 1 .. Len(x.frames)
      /\ x.handled \in Nat /\ x.handled <= Len(x.frames)
  BY DEF StreamInv, Stream, HandledAreWhole
<1>2. ASSUME NEW n \in Lengths, NEW put \in 1 .. n, NEW w \in Nat,
             Len(x.frames) < MaxFrames, y = [AddFrame(x, n, put) EXCEPT !.written = w]
      PROVE  Nothing(x, y) \/ Accepts(x, y)
  <2> DEFINE z == AddFrame(x, n, put)
             m == Len(x.frames) + 1
  <2>1. put \in Nat
    OBVIOUS
  <2>2. z \in Stream /\ Len(z.frames) = m /\ z.handled = x.handled
        /\ \A k \in DOMAIN x.frames : z.frames[k] = x.frames[k]
    BY <1>1, <2>1, AddFrameAppends
  <2> HIDE DEF z
  <2>3. y.frames = z.frames /\ y.handled = x.handled
    BY <1>2, <2>2 DEF Stream, z
  <2>4. DOMAIN y.frames = 1 .. m
    BY <1>1, <2>2, <2>3 DEF Stream
  <2>5. \A k \in 1 .. Len(x.frames) : y.frames[k] = x.frames[k]
    BY <1>1, <2>2, <2>3
  <2>6. m \in 1 .. MaxFrames /\ \A k \in WholeFrames(x) : k < m
    BY <1>1, <1>2, SignalWireAssumption DEF WholeFrames
  <2>7. CASE Whole(y.frames[m])
    <3>1. WholeFrames(y) = WholeFrames(x) \cup {m}
      BY <1>1, <2>4, <2>5, <2>7 DEF WholeFrames
    <3> QED BY <2>3, <2>6, <3>1 DEF Accepts
  <2>8. CASE ~Whole(y.frames[m])
    <3>1. WholeFrames(y) = WholeFrames(x)
      BY <1>1, <2>4, <2>5, <2>8 DEF WholeFrames
    <3> QED BY <2>3, <3>1 DEF Nothing
  <2> QED BY <2>7, <2>8
<1>3. ASSUME NEW a \in x.arrived + 1 .. x.written, NEW n \in x.handled .. Len(x.frames), NEW ok \in BOOLEAN,
             y = Parsed(x, a, n), ParseMessage(x, y, ok)
      PROVE  Nothing(x, y) \/ HandsOver(x, y)
  <2>1. y.frames = x.frames /\ HandledAreWhole(y)
    BY <1>3, ParseInv DEF StreamInv
  <2>2. y.handled = n
    BY <1>1, <1>3 DEF Parsed, Stream
  <2>3. WholeFrames(y) = WholeFrames(x)
    BY <2>1 DEF WholeFrames
  <2>4. CASE n = x.handled
    BY <2>2, <2>3, <2>4 DEF Nothing
  <2>5. CASE n # x.handled
    <3>1. n \in Nat /\ x.handled < n /\ n <= Len(x.frames)
      BY <1>1, <2>5
    <3>2. \A k \in 1 .. n : k \in WholeFrames(x)
      BY <1>1, <2>1, <2>2, <3>1 DEF HandledAreWhole, WholeFrames
    <3>3. n \in WholeFrames(x) \ (1 .. x.handled)
      BY <1>1, <3>1, <3>2
    <3>4. WholeFrames(x) \subseteq 1 .. Len(x.frames)
      BY <1>1 DEF WholeFrames
    <3>5. 1 .. y.handled = {m \in WholeFrames(x) : m <= n}
      BY <1>1, <2>2, <3>1, <3>2, <3>4
    <3> QED BY <2>3, <3>3, <3>5 DEF HandsOver
  <2> QED BY <2>4, <2>5
<1>4. ASSUME NEW w \in Nat, y = [x EXCEPT !.written = w]
      PROVE  Nothing(x, y)
  <2>1. y.frames = x.frames /\ y.handled = x.handled
    BY <1>1, <1>4 DEF Stream
  <2> QED BY <2>1 DEF Nothing, WholeFrames
<1>5. CASE \E n \in Lengths : \E put \in 1 .. n : \E w \in Nat :
             /\ Len(x.frames) < MaxFrames
             /\ y = [AddFrame(x, n, put) EXCEPT !.written = w]
  <2>1. PICK n \in Lengths : \E put \in 1 .. n : \E w \in Nat :
             /\ Len(x.frames) < MaxFrames
             /\ y = [AddFrame(x, n, put) EXCEPT !.written = w]
    BY <1>5
  <2> QED BY <1>2, <2>1
<1>6. CASE \E a \in x.arrived + 1 .. x.written, n \in x.handled .. Len(x.frames), ok \in BOOLEAN :
          y = Parsed(x, a, n) /\ ParseMessage(x, y, ok)
  BY <1>3, <1>6
<1>7. CASE \E w \in Nat : y = [x EXCEPT !.written = w]
  BY <1>4, <1>7
<1> QED BY <1>5, <1>6, <1>7 DEF Evolves

\* The channels as MessageChannels sees them.
Accepted == [c \in Channels |-> WholeFrames(StreamOf(c))]
Handed   == [c \in Channels |-> 1 .. StreamOf(c).handled]

\* The abstract state, stream by stream.
LEMMA ChannelState ==
    /\ Accepted = [c \in Channels |-> {k \in DOMAIN StreamOf(c).frames : Whole(StreamOf(c).frames[k])}]
    /\ Handed = [c \in Channels |-> 1 .. StreamOf(c).handled]
BY DEF Accepted, Handed, WholeFrames

\* What happens to one channel alone is a step of the channels.
LEMMA ChannelStep ==
    ASSUME NEW d \in Channels, \A c \in Channels \ {d} : StreamOf(c)' = StreamOf(c),
           \/ Nothing(StreamOf(d), StreamOf(d)')
           \/ Accepts(StreamOf(d), StreamOf(d)')
           \/ HandsOver(StreamOf(d), StreamOf(d)')
    PROVE  [Channel!Next]_(Channel!vars)
<1>1. \A c \in Channels \ {d} : Accepted'[c] = Accepted[c] /\ Handed'[c] = Handed[c]
  BY DEF Accepted, Handed
<1>2. /\ Accepted[d] = WholeFrames(StreamOf(d)) /\ Accepted'[d] = WholeFrames(StreamOf(d)')
      /\ Handed[d] = 1 .. StreamOf(d).handled /\ Handed'[d] = 1 .. (StreamOf(d)').handled
  BY DEF Accepted, Handed
<1>3. CASE Nothing(StreamOf(d), StreamOf(d)')
  <2>1. Accepted' = Accepted /\ Handed' = Handed
    BY <1>1, <1>2, <1>3 DEF Nothing, Accepted, Handed
  <2> QED BY <2>1, ChannelState DEF Channel!vars, Accepted, Handed, WholeFrames
<1>4. CASE Accepts(StreamOf(d), StreamOf(d)')
  <2>1. PICK m \in 1 .. MaxFrames :
          /\ \A a \in Accepted[d] : a < m
          /\ Accepted'[d] = Accepted[d] \cup {m}
    BY <1>2, <1>4 DEF Accepts
  <2>2. Accepted' = [Accepted EXCEPT ![d] = @ \cup {m}]
    BY <1>1, <2>1 DEF Accepted
  <2>3. Handed' = Handed
    BY <1>1, <1>2, <1>4 DEF Accepts, Handed
  <2>4. Channel!Accept(d)
    BY <2>1, <2>2, <2>3 DEF Channel!Accept, Accepted, Handed, WholeFrames
  <2> QED BY <2>4 DEF Channel!Next
<1>5. CASE HandsOver(StreamOf(d), StreamOf(d)')
  <2>1. PICK n \in Accepted[d] \ Handed[d] : Handed'[d] = {m \in Accepted[d] : m <= n}
    BY <1>2, <1>5 DEF HandsOver
  <2>2. Handed' = [Handed EXCEPT ![d] = {m \in Accepted[d] : m <= n}]
    BY <1>1, <2>1 DEF Handed
  <2>3. Accepted' = Accepted
    BY <1>1, <1>2, <1>5 DEF HandsOver, Accepted
  <2>4. Channel!HandOver(d)
    BY <2>1, <2>2, <2>3 DEF Channel!HandOver, Accepted, Handed, WholeFrames
  <2> QED BY <2>4 DEF Channel!Next
<1> QED BY <1>3, <1>4, <1>5

\* Every call and callback is a step of the abstract channels, or a stutter.
LEMMA StepRefinesChannels ==
    ASSUME TypeOK, StreamsInv, [Next]_vars
    PROVE  [Channel!Next]_(Channel!vars)
<1>1. CASE UNCHANGED <<up, down>>
  <2>1. \A c \in Channels : StreamOf(c)' = StreamOf(c)
    BY <1>1 DEF StreamOf
  <2> QED BY <2>1 DEF Channel!vars
<1>2. ASSUME NEW s \in Sockets, UpEvolves(s)
      PROVE  [Channel!Next]_(Channel!vars)
  <2> DEFINE d == <<s, "up">>
  <2>1. PICK y : Evolves(up[s], y) /\ up' = [up EXCEPT ![s] = y] /\ UNCHANGED down
    BY <1>2 DEF UpEvolves
  <2>2. d \in Channels /\ StreamOf(d) = up[s] /\ StreamOf(d)' = y
    BY <2>1 DEF Channels, StreamOf, TypeOK
  <2>3. \A c \in Channels \ {d} : StreamOf(c)' = StreamOf(c)
    BY <2>1 DEF Channels, StreamOf, TypeOK
  <2>4. Nothing(up[s], y) \/ Accepts(up[s], y) \/ HandsOver(up[s], y)
    BY <2>1, EvolvesRefines DEF StreamsInv
  <2> HIDE DEF d
  <2> QED BY <2>2, <2>3, <2>4, ChannelStep
<1>3. ASSUME NEW s \in Sockets, DownEvolves(s)
      PROVE  [Channel!Next]_(Channel!vars)
  <2> DEFINE d == <<s, "down">>
  <2>1. PICK y : Evolves(down[s], y) /\ down' = [down EXCEPT ![s] = y] /\ UNCHANGED up
    BY <1>3 DEF DownEvolves
  <2>2. d \in Channels /\ StreamOf(d) = down[s] /\ StreamOf(d)' = y
    BY <2>1 DEF Channels, StreamOf, TypeOK
  <2>3. \A c \in Channels \ {d} : StreamOf(c)' = StreamOf(c)
    BY <2>1 DEF Channels, StreamOf, TypeOK
  <2>4. Nothing(down[s], y) \/ Accepts(down[s], y) \/ HandsOver(down[s], y)
    BY <2>1, EvolvesRefines DEF StreamsInv
  <2> HIDE DEF d
  <2> QED BY <2>2, <2>3, <2>4, ChannelStep
<1> QED BY <1>1, <1>2, <1>3, StepEvolves DEF vars

\* In each direction of each websocket the messages that were sent whole are
\* handed to the other side's handler in order, each at most once, whatever the
\* pieces are in which the bytes are written and arrive; what a write left behind
\* in part is handed over neither as a message nor as the beginning of one.
THEOREM RefinesMessageChannels == Spec => CarriesMessages
<1>1. Init => Channel!Init
  <2> SUFFICES ASSUME Init
               PROVE  Channel!Init
    OBVIOUS
  <2>1. \A c \in Channels : StreamOf(c) = NoBytes
    BY DEF Init, Channels, StreamOf
  <2>2. NoBytes.frames = << >> /\ NoBytes.handled = 0
    BY DEF NoBytes
  <2> QED BY <2>1, <2>2 DEF Channel!Init
<1>2. TypeInv /\ [Next]_vars => [Channel!Next]_(Channel!vars)
  BY StepRefinesChannels DEF TypeInv
<1> QED BY <1>1, <1>2, TypeInvariant, PTL DEF Spec, CarriesMessages, Channel!Spec

-----------------------------------------------------------------------------
(* The send buffer *)

\* A connection's send buffer is empty until the server has accepted it.
UnsentInv ==
    /\ UnsentBytesAreRequested
    /\ \A s \in Sockets : server[s] = "unused" => Unsent(down[s]) = 0

\* What is put into an empty send buffer has a callback requested, and a callback
\* that leaves bytes behind requests another.
LEMMA UnsentStep ==
    ASSUME TypeOK, StreamsInv, UnsentInv, Next
    PROVE  UnsentInv'
<1>0. \A s \in Sockets : down[s] \in Stream /\ down[s].written \in Nat /\ Total(down[s]) \in Nat
  BY TotalType DEF TypeOK, Stream
<1>1. ASSUME NEW s \in Sockets, server' = [server EXCEPT ![s] = "closed"],
             serverWants' = serverWants \ {s}, UNCHANGED down
      PROVE  UnsentInv'
  BY <1>1 DEF UnsentInv, UnsentBytesAreRequested, TypeOK, Unsent, Total, EndOf
<1>2. ASSUME UNCHANGED <<server, serverWants, down>>
      PROVE  UnsentInv'
  BY <1>2 DEF UnsentInv, UnsentBytesAreRequested, Unsent, Total, EndOf
<1>3. ASSUME NEW s \in Sockets, Established(s)
      PROVE  UnsentInv'
  <2>1. /\ server[s] = "unused" /\ server' = [server EXCEPT ![s] = "open"]
        /\ UNCHANGED <<serverWants, down>>
    BY <1>3 DEF Established
  <2>2. \A t \in Sockets : Unsent(down[t])' = Unsent(down[t])
    BY <2>1 DEF Unsent, Total, EndOf
  <2> QED BY <2>1, <2>2 DEF UnsentInv, UnsentBytesAreRequested, TypeOK
<1>4. ASSUME NEW s \in Sockets, OnData(s)
      PROVE  UnsentInv'
  <2>1. UNCHANGED <<server, serverWants>>
    BY <1>4 DEF OnData
  <2>2. CASE UNCHANGED down
    BY <1>2, <2>1, <2>2
  <2>3. CASE ~UNCHANGED down
    <3>1. PICK a \in down[s].arrived + 1 .. down[s].written, n \in down[s].handled .. Len(down[s].frames) :
            down' = [down EXCEPT ![s] = Parsed(@, a, n)]
      BY <1>4, <2>3 DEF OnData
    <3>2. \A t \in Sockets : down'[t].frames = down[t].frames /\ down'[t].written = down[t].written
      BY <3>1 DEF Parsed, TypeOK, Stream
    <3>3. \A t \in Sockets : Unsent(down[t])' = Unsent(down[t])
      BY <3>2 DEF Unsent, Total, EndOf
    <3> QED BY <2>1, <3>3 DEF UnsentInv, UnsentBytesAreRequested
  <2> QED BY <2>2, <2>3
<1>5. ASSUME NEW s \in Sockets, Receive(s)
      PROVE  UnsentInv'
  BY <1>1, <1>2, <1>5 DEF Receive, ServerCloses
<1>6. ASSUME NEW s \in Sockets, NEW n \in Lengths, SendMessage(s, n)
      PROVE  UnsentInv'
  <2> DEFINE z == AddFrame(down[s], n, n)
  <2>1. /\ server[s] = "open" /\ UNCHANGED server /\ down' = [down EXCEPT ![s] = z]
        /\ serverWants' = IF Unsent(down[s]) = 0 THEN serverWants \cup {s} ELSE serverWants
    BY <1>6 DEF SendMessage
  <2>2. \A t \in Sockets : down'[t] = IF t = s THEN z ELSE down[t]
    BY <2>1 DEF TypeOK
  <2> HIDE DEF z
  <2>3. \A t \in Sockets \ {s} : Unsent(down[t])' = Unsent(down[t])
    BY <2>2 DEF Unsent, Total, EndOf
  <2>4. s \in serverWants'
    <3>1. CASE Unsent(down[s]) = 0
      BY <2>1, <3>1
    <3>2. CASE Unsent(down[s]) # 0
      <4>1. Unsent(down[s]) > 0
        BY <1>0, <3>2 DEF Unsent, StreamsInv, StreamInv, BytesInOrder
      <4> QED BY <2>1, <3>2, <4>1 DEF UnsentInv, UnsentBytesAreRequested
    <3> QED BY <3>1, <3>2
  <2>5. \A t \in serverWants : t \in serverWants'
    BY <2>1
  <2> QED BY <2>1, <2>3, <2>4, <2>5 DEF UnsentInv, UnsentBytesAreRequested
<1>7. ASSUME NEW s \in Sockets, NEW put \in 0 .. Unsent(down[s]), Writeable(s, put)
      PROVE  UnsentInv'
  <2> DEFINE y == [down[s] EXCEPT !.written = @ + put]
  <2>1. /\ server[s] = "open" /\ UNCHANGED server /\ down' = [down EXCEPT ![s] = y]
        /\ serverWants' = IF put < Unsent(down[s]) THEN serverWants ELSE serverWants \ {s}
    BY <1>7 DEF Writeable
  <2>2. \A t \in Sockets : down'[t] = IF t = s THEN y ELSE down[t]
    BY <2>1 DEF TypeOK
  <2>3. y.frames = down[s].frames /\ y.written = down[s].written + put
    BY <1>0 DEF Stream
  <2>4. Unsent(y) = Unsent(down[s]) - put
    BY <1>0, <2>3 DEF Unsent, Total, EndOf
  <2> HIDE DEF y
  <2>5. \A t \in Sockets : Unsent(down[t])' = IF t = s THEN Unsent(y) ELSE Unsent(down[t])
    BY <2>2 DEF Unsent, Total, EndOf
  <2>6. s \in serverWants
    BY <1>7 DEF Writeable
  <2>7. put \in Nat /\ Unsent(down[s]) \in Int
    BY <1>0 DEF Unsent
  <2>8. Unsent(y) > 0 => put < Unsent(down[s])
    BY <2>4, <2>7
  <2>9. \A t \in Sockets \ {s} : t \in serverWants => t \in serverWants'
    BY <2>1
  <2>10. put < Unsent(down[s]) => s \in serverWants'
    BY <2>1, <2>6
  <2> QED BY <2>1, <2>5, <2>8, <2>9, <2>10 DEF UnsentInv, UnsentBytesAreRequested
<1>8. ASSUME NEW s \in Sockets,
             SignalingConnect(s) \/ OnConnect(s) \/ OnWritable(s) \/ OnDisconnect(s)
      PROVE  UNCHANGED <<server, serverWants, down>>
  BY <1>8 DEF SignalingConnect, OnConnect, OnWritable, OnDisconnect
<1>9. ASSUME NEW s \in Sockets, Closed(s) \/ WriteFails(s)
      PROVE  UnsentInv'
  BY <1>1, <1>9 DEF Closed, WriteFails, ServerCloses
<1>10. ASSUME NEW n \in Lengths, NEW put \in 1 .. n, Send(n, put)
       PROVE  UNCHANGED <<server, serverWants, down>>
  BY <1>10 DEF Send
<1>11. CASE Shutdown
  BY <1>2, <1>11 DEF Shutdown
<1> QED BY <1>2, <1>3, <1>4, <1>5, <1>6, <1>7, <1>8, <1>9, <1>10, <1>11 DEF Next

\* While bytes wait in the server's send buffer of an open connection a writable
\* callback is requested for it, although sendMessage requests one only for the
\* first bytes: after a partial write the callback requests the next.
THEOREM UnsentCorrect == Spec => []UnsentBytesAreRequested
<1>1. Init => UnsentInv
  BY DEF Init, UnsentInv, UnsentBytesAreRequested, Unsent, Total, EndOf, NoBytes
<1>2. TypeInv /\ UnsentInv /\ [Next]_vars => UnsentInv'
  <2>1. CASE UNCHANGED vars
    BY <2>1 DEF vars, UnsentInv, UnsentBytesAreRequested, Unsent, Total, EndOf
  <2>2. ASSUME TypeInv, UnsentInv, Next
        PROVE  UnsentInv'
    BY <2>2, UnsentStep DEF TypeInv
  <2> QED BY <2>1, <2>2
<1>3. UnsentInv => UnsentBytesAreRequested
  BY DEF UnsentInv
<1> QED BY <1>1, <1>2, <1>3, TypeInvariant, PTL DEF Spec
=============================================================================
