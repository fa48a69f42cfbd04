--------------------------- MODULE DatagramsProofs ---------------------------
(***************************************************************************)
(* Theorems about Datagrams, for all values of its constants: the sets and *)
(* tables that recvfrom trusts agree with the Connections, and packets     *)
(* leave and arrive in order.                                              *)
(***************************************************************************)
EXTENDS Datagrams, WellFoundedInduction, SequenceTheorems, TLAPS

-----------------------------------------------------------------------------
(* datagram_get_message *)

\* A set of numbers that is not empty has a least one.
LEMMA Smallest ==
    ASSUME NEW T \in SUBSET Nat, T # {}
    PROVE  \E x \in T : \A y \in T : x <= y
  <1>1. PICK x \in T : \A y \in T : ~ (<<y, x>> \in OpToRel(<, Nat))
    BY NatLessThanWellFounded, WFMin
  <1>2. \A y \in T : ~ (y < x)
    BY <1>1 DEF OpToRel
  <1> QED
    BY <1>2

\* datagram_get_message finds the first packet of the channel, or none.
LEMMA ReadyIsFirst ==
    ASSUME NEW in \in Seq(InPacket), NEW channel
    PROVE  \/ Ready(in, channel) = 0
           \/ /\ Ready(in, channel) \in DOMAIN in
              /\ in[Ready(in, channel)].channel = channel
              /\ \A j \in DOMAIN in : in[j].channel = channel => Ready(in, channel) <= j
  <1> DEFINE reached == {k \in DOMAIN in : in[k].channel = channel /\ \A j \in 1 .. k : SeesWhole(in, j)}
             first == Ready(in, channel)
  <1>1. DOMAIN in = 1 .. Len(in) /\ Len(in) \in Nat /\ reached \in SUBSET Nat
    OBVIOUS
  <1>2. CASE reached = {}
    BY <1>2 DEF Ready
  <1>3. CASE reached # {}
    <2>1. \E k \in reached : \A j \in reached : k <= j
      BY <1>1, <1>3, Smallest
    <2>2. first = CHOOSE k \in reached : \A j \in reached : k <= j
      BY <1>3 DEF Ready
    <2> HIDE DEF first
    <2>3. first \in reached /\ \A j \in reached : first <= j
      BY <2>1, <2>2
    <2>4. ASSUME NEW j \in DOMAIN in, in[j].channel = channel, ~ (first <= j) PROVE FALSE
      <3>1. \A i \in 1 .. j : i \in 1 .. first
        BY <1>1, <2>3, <2>4
      <3>2. j \in reached
        BY <2>3, <2>4, <3>1
      <3> QED BY <2>3, <2>4, <3>2
    <2> QED BY <2>3, <2>4 DEF first
  <1> QED
    BY <1>2, <1>3

\* What stays in the buffer is what was there, in the same order, with at most
\* one packet less.
LEMMA RemainingIsPart ==
    ASSUME NEW in \in Seq(InPacket), NEW api, NEW channel
    PROVE  LET rest == Remaining(in, api, channel) IN
           /\ rest \in Seq(InPacket)
           /\ \A i \in DOMAIN rest : \E k \in DOMAIN in :
                 /\ rest[i] = in[k]
                 /\ k = i \/ k = i + 1
                 /\ api # "peek" /\ Ready(in, channel) # 0 => k # Ready(in, channel)
                 /\ \A j \in DOMAIN rest : i < j => \E m \in DOMAIN in : k < m /\ rest[j] = in[m]
  <1> DEFINE rest == Remaining(in, api, channel)
             r == Ready(in, channel)
  <1>1. CASE api = "peek" \/ r = 0
    BY <1>1 DEF Remaining
  <1>2. CASE ~(api = "peek" \/ r = 0)
    <2>1. r \in DOMAIN in /\ r \in 1 .. Len(in) /\ Len(in) \in Nat
      BY <1>2, ReadyIsFirst
    <2>2. rest = SubSeq(in, 1, r - 1) \o SubSeq(in, r + 1, Len(in))
      BY <1>2 DEF Remaining, RemoveAt
    <2> HIDE DEF rest, r
    <2> DEFINE before == SubSeq(in, 1, r - 1)
               after  == SubSeq(in, r + 1, Len(in))
    <2>3. before \in Seq(InPacket) /\ Len(before) = r - 1 /\ \A i \in 1 .. r - 1 : before[i] = in[i]
      BY <2>1
    <2>4. /\ after \in Seq(InPacket) /\ Len(after) = Len(in) - r
          /\ \A i \in 1 .. Len(in) - r : after[i] = in[r + i]
      BY <2>1
    <2> HIDE DEF before, after
    <2>5. /\ rest \in Seq(InPacket) /\ Len(rest) = Len(before) + Len(after)
          /\ \A i \in 1 .. Len(before) + Len(after) :
                rest[i] = IF i <= Len(before) THEN before[i] ELSE after[i - Len(before)]
      BY <2>2, <2>3, <2>4, ConcatProperties DEF before, after
    <2>8. Len(rest) = Len(in) - 1 /\ DOMAIN rest = 1 .. Len(in) - 1
      BY <2>1, <2>3, <2>4, <2>5
    <2>6. \A i \in DOMAIN rest : rest[i] = IF i < r THEN in[i] ELSE in[i + 1]
      <3> SUFFICES ASSUME NEW i \in DOMAIN rest PROVE rest[i] = IF i < r THEN in[i] ELSE in[i + 1]
        OBVIOUS
      <3>1. CASE i < r
        BY <2>1, <2>3, <2>4, <2>5, <2>8, <3>1
      <3>2. CASE ~ (i < r)
        <4>1. i - Len(before) \in 1 .. Len(in) - r /\ r + (i - Len(before)) = i + 1 /\ ~ (i <= Len(before))
          BY <2>1, <2>3, <2>8, <3>2
        <4> QED BY <2>1, <2>3, <2>4, <2>5, <2>8, <3>2, <4>1
      <3> QED BY <3>1, <3>2
    <2>7. ASSUME NEW i \in DOMAIN rest
          PROVE  \E k \in DOMAIN in :
                    /\ rest[i] = in[k]
                    /\ k = i \/ k = i + 1
                    /\ k # r
                    /\ \A j \in DOMAIN rest : i < j => \E m \in DOMAIN in : k < m /\ rest[j] = in[m]
      <3>1. CASE i < r
        <4>1. \A j \in DOMAIN rest : i < j => \E m \in DOMAIN in : i < m /\ rest[j] = in[m]
          BY <2>1, <2>8, <2>6
        <4> QED BY <2>1, <2>8, <2>6, <3>1, <4>1
      <3>2. CASE ~ (i < r)
        <4>1. \A j \in DOMAIN rest : i < j => \E m \in DOMAIN in : i + 1 < m /\ rest[j] = in[m]
          BY <2>1, <2>8, <2>6, <3>2
        <4> QED BY <2>1, <2>8, <2>6, <3>2, <4>1
      <3> QED BY <3>1, <3>2
    <2> QED BY <2>5, <2>7 DEF rest, r
  <1> QED
    BY <1>1, <1>2

-----------------------------------------------------------------------------
(* Types *)

\* Flushing keeps the buffers and the wire well typed.
LEMMA FlushType ==
    ASSUME TypeOK, NEW A, NEW out \in [Addrs -> Seq(OutPacket)], Flush(A, out)
    PROVE  bufOut' \in [Addrs -> Seq(OutPacket)] /\ wire' \in [Addrs -> Seq(OutPacket)]
  <1>1. \A a \in Addrs : wire[a] \o out[a] \in Seq(OutPacket)
    BY ConcatProperties DEF TypeOK
  <1> QED
    BY <1>1 DEF Flush, TypeOK

\* humblenet_datagram_send keeps every variable it assigns well typed.
LEMMA DatagramSendType ==
    ASSUME TypeOK, NEW a \in Addrs, NEW s, NEW p \in Peers, NEW mode, NEW size \in Sizes,
           DatagramSend(a, s, p, mode, size)
    PROVE  /\ sent' \in Nat /\ datagrams' \subseteq Addrs
           /\ seqOut' \in [Addrs -> Nat]
           /\ bufOut' \in [Addrs -> Seq(OutPacket)] /\ wire' \in [Addrs -> Seq(OutPacket)]
           /\ queuedPackets' \in BOOLEAN
           /\ UNCHANGED <<bufIn, delivered, stale>>
  <1> DEFINE packet == [seq |-> seqOut[a], size |-> size, to |-> p]
             out    == [bufOut EXCEPT ![a] = Append(@, packet)]
  <1>1. packet \in OutPacket
    BY DatagramAssumption DEF TypeOK, OutPacket
  <1> HIDE DEF packet
  <1>2. out \in [Addrs -> Seq(OutPacket)]
    BY <1>1 DEF TypeOK
  <1> HIDE DEF out
  <1>3. /\ \/ bufOut' = out /\ queuedPackets' = TRUE /\ UNCHANGED wire
           \/ Flush({a}, out) /\ UNCHANGED queuedPackets
        /\ sent' = sent + 1 /\ datagrams' = datagrams \cup {a}
        /\ seqOut' = [seqOut EXCEPT ![a] = @ + 1]
        /\ UNCHANGED <<bufIn, delivered, stale>>
    BY DEF DatagramSend, out, packet
  <1>4. bufOut' \in [Addrs -> Seq(OutPacket)] /\ wire' \in [Addrs -> Seq(OutPacket)]
    BY <1>2, <1>3, FlushType DEF TypeOK
  <1>5. queuedPackets' \in BOOLEAN
    <2>1. queuedPackets' = TRUE \/ queuedPackets' = queuedPackets
      BY <1>3
    <2> QED BY <2>1 DEF TypeOK
  <1>6. sent' \in Nat /\ datagrams' \subseteq Addrs /\ seqOut' \in [Addrs -> Nat]
    BY <1>3 DEF TypeOK
  <1> QED
    BY <1>3, <1>4, <1>5, <1>6

\* humblenet_connection_close keeps every variable it assigns well typed.
LEMMA ConnectionCloseType ==
    ASSUME TypeOK, NEW a, ConnectionClose(a)
    PROVE  /\ status' \in [Addrs -> {"FREE", "CONNECTING", "CONNECTED", "CLOSED"}]
           /\ inOrOut' \in [Addrs -> {"Incoming", "Outgoing"}]
           /\ otherPeer' \in [Addrs -> Peers \cup {NoPeer}]
           /\ recvBuffer' \in [Addrs -> Seq(InPacket)]
           /\ wire' \in [Addrs -> Seq(OutPacket)]
           /\ tracked' \subseteq Addrs /\ open' \subseteq Addrs
           /\ pendingData' \subseteq Addrs /\ remoteClosed' \subseteq Addrs
  <1>1. << >> \in Seq(InPacket) /\ << >> \in Seq(OutPacket)
    OBVIOUS
  <1>2. status' \in [Addrs -> {"FREE", "CONNECTING", "CONNECTED", "CLOSED"}]
    BY DEF ConnectionClose, TypeOK
  <1>3. inOrOut' \in [Addrs -> {"Incoming", "Outgoing"}] /\ otherPeer' \in [Addrs -> Peers \cup {NoPeer}]
    BY DEF ConnectionClose, TypeOK
  <1>4. recvBuffer' \in [Addrs -> Seq(InPacket)] /\ wire' \in [Addrs -> Seq(OutPacket)]
    BY <1>1 DEF ConnectionClose, TypeOK
  <1> QED
    BY <1>2, <1>3, <1>4 DEF ConnectionClose, TypeOK

\* Erasing entries of p2pconnections keeps its type.
LEMMA UnlistedType ==
    ASSUME TypeOK, NEW a
    PROVE  Unlisted(a) \in [Peers -> Addrs \cup {NoAddr}]
  BY DEF Unlisted, TypeOK

\* Every call and callback keeps the types.
LEMMA TypeStep ==
    ASSUME TypeOK, [Next]_vars
    PROVE  TypeOK'
  <1> USE DatagramAssumption
  <1>1. ASSUME NEW p \in Peers, SendtoClosed(p) PROVE TypeOK'
    <2>1. p2pconnections[p] \in Addrs
      BY <1>1 DEF SendtoClosed, TypeOK
    <2> DEFINE a == p2pconnections[p]
    <2>2. /\ p2pconnections' = [Unlisted(a) EXCEPT ![p] = NoAddr]
          /\ ConnectionClose(a)
          /\ stale' = stale \cup ({a} \cap datagrams)
          /\ UNCHANGED <<entryVars, call, fault, delivered, sent, arrived>>
      BY <1>1 DEF SendtoClosed
    <2>3. p2pconnections' \in [Peers -> Addrs \cup {NoAddr}]
      BY <2>2, UnlistedType
    <2>4. stale' \subseteq Addrs
      BY <2>2 DEF TypeOK
    <2> HIDE DEF a
    <2> QED BY <2>2, <2>3, <2>4, ConnectionCloseType DEF TypeOK, entryVars
  <1>2. ASSUME NEW p \in Peers, NEW mode, NEW size \in Sizes, SendtoOpen(p, mode, size) PROVE TypeOK'
    <2>1. p2pconnections[p] \in Addrs
      BY <1>2 DEF SendtoOpen, TypeOK
    <2>2. UNCHANGED <<connVars, setVars, p2pconnections, call, fault, arrived>>
      BY <1>2 DEF SendtoOpen
    <2> QED BY <1>2, <2>1, <2>2, DatagramSendType DEF SendtoOpen, TypeOK, connVars, setVars
  <1>3. ASSUME NEW p \in Peers, NEW mode, NEW size \in Sizes, SendtoNew(p, mode, size) PROVE TypeOK'
    <2>1. PICK a \in Addrs : /\ NewConnection(a, p, "Outgoing")
                             /\ p2pconnections' = [p2pconnections EXCEPT ![p] = a]
                             /\ DatagramSend(a, "CONNECTING", p, mode, size)
      BY <1>3 DEF SendtoNew
    <2>2. UNCHANGED <<recvBuffer, tracked, open, setVars, call, fault, arrived>>
      BY <1>3 DEF SendtoNew
    <2> QED BY <2>1, <2>2, DatagramSendType DEF NewConnection, TypeOK, setVars
  <1>4. ASSUME NEW why \in {"assert", "dangling"}, Fail(why) PROVE TypeOK'
    BY <1>4 DEF Fail, TypeOK, connVars, setVars, entryVars, histVars
  <1>5. ASSUME NEW a \in Addrs, NEW in \in Seq(InPacket), NEW api, NEW channel, HasMessage(in, channel),
               Return(a, in, api, channel)
        PROVE  /\ delivered' \in Seq(InPacket)
               /\ p2pconnections' \in [Peers -> Addrs \cup {NoAddr}]
               /\ call' = Idle
    <2>1. in[Ready(in, channel)] \in InPacket
      BY <1>5, ReadyIsFirst DEF HasMessage
    <2>2. delivered' = delivered \/ delivered' = Append(delivered, in[Ready(in, channel)])
      BY <1>5 DEF Return
    <2>3. delivered' \in Seq(InPacket)
      <3>1. delivered \in Seq(InPacket)
        BY DEF TypeOK
      <3>2. Append(delivered, in[Ready(in, channel)]) \in Seq(InPacket)
        BY <2>1, <3>1, AppendProperties
      <3> QED BY <2>2, <3>1, <3>2
    <2>4. \/ p2pconnections' = p2pconnections
          \/ p2pconnections' = [p2pconnections EXCEPT ![otherPeer[a]] = a]
      BY <1>5 DEF Return
    <2>5. p2pconnections' \in [Peers -> Addrs \cup {NoAddr}]
      BY <1>5, <2>4 DEF TypeOK
    <2> QED BY <1>5, <2>3, <2>5 DEF Return
  <1>6. ASSUME NEW api \in {"recvfrom", "peek"}, NEW channel \in Channels, RecvStart(api, channel) PROVE TypeOK'
    <2> DEFINE found == FirstWith(api, channel)
               upTo  == {a \in datagrams : \A b \in found : a <= b}
    <2>1. CASE Fail("dangling")
      BY <1>4, <2>1
    <2>2. CASE /\ Flush(ToFlush, bufOut)
               /\ queuedPackets' = FALSE
               /\ bufIn' = [a \in Addrs |-> IF a \in upTo THEN Remaining(bufIn[a], api, channel) ELSE bufIn[a]]
               /\ IF found = {}
                  THEN /\ call' = [api |-> api, channel |-> channel]
                       /\ UNCHANGED <<p2pconnections, delivered>>
                  ELSE \E a \in found : Return(a, bufIn[a], api, channel)
               /\ UNCHANGED <<connVars, setVars, datagrams, seqOut, fault, stale, sent, arrived>>
      <3>1. bufOut' \in [Addrs -> Seq(OutPacket)] /\ wire' \in [Addrs -> Seq(OutPacket)]
        BY <2>2, FlushType DEF TypeOK
      <3>2. bufIn' \in [Addrs -> Seq(InPacket)]
        BY <2>2, RemainingIsPart DEF TypeOK
      <3>3. /\ delivered' \in Seq(InPacket)
            /\ p2pconnections' \in [Peers -> Addrs \cup {NoAddr}]
            /\ call' \in {Idle} \cup [api : {"recvfrom", "peek"}, channel : Channels]
        <4>1. CASE found = {}
          BY <2>2, <4>1 DEF TypeOK
        <4>2. CASE found # {}
          <5>1. PICK a \in found : Return(a, bufIn[a], api, channel)
            BY <2>2, <4>2
          <5>2. a \in Addrs /\ HasMessage(bufIn[a], channel) /\ bufIn[a] \in Seq(InPacket)
            BY DEF FirstWith, TypeOK
          <5> QED BY <1>5, <5>1, <5>2
        <4> QED BY <4>1, <4>2
      <3> QED BY <2>2, <3>1, <3>2, <3>3 DEF TypeOK, connVars, setVars
    <2> QED BY <1>6, <2>1, <2>2 DEF RecvStart
  <1>7. CASE PollClosed
    <2>1. PICK a \in remoteClosed :
             IF recvBuffer[a] # << >>
             THEN Fail("assert")
             ELSE /\ EraseEntry(a)
                  /\ call' = Idle
                  /\ IF call.api = "recvfrom"
                     THEN /\ p2pconnections' = Unlisted(a)
                          /\ ConnectionClose(a)
                     ELSE /\ remoteClosed' = remoteClosed \ {a}
                          /\ UNCHANGED <<connVars, pendingData, p2pconnections, wire>>
                  /\ UNCHANGED <<queuedPackets, delivered, fault, sent, arrived>>
      BY <1>7 DEF PollClosed
    <2>2. a \in Addrs
      BY DEF TypeOK
    <2>3. CASE Fail("assert")
      BY <1>4, <2>3
    <2>4. CASE /\ EraseEntry(a) /\ call' = Idle
               /\ UNCHANGED <<queuedPackets, delivered, fault, sent, arrived>>
               /\ p2pconnections' = Unlisted(a) /\ ConnectionClose(a)
      <3>1. p2pconnections' \in [Peers -> Addrs \cup {NoAddr}]
        BY <2>4, UnlistedType
      <3>2. /\ datagrams' \subseteq Addrs /\ stale' \subseteq Addrs
            /\ bufIn' \in [Addrs -> Seq(InPacket)]
            /\ bufOut' \in [Addrs -> Seq(OutPacket)]
            /\ seqOut' \in [Addrs -> Nat]
        BY <2>4 DEF EraseEntry, TypeOK
      <3> QED BY <2>4, <3>1, <3>2, ConnectionCloseType DEF TypeOK
    <2>5. CASE /\ EraseEntry(a) /\ call' = Idle
               /\ UNCHANGED <<queuedPackets, delivered, fault, sent, arrived>>
               /\ remoteClosed' = remoteClosed \ {a}
               /\ UNCHANGED <<connVars, pendingData, p2pconnections, wire>>
      <3>1. /\ datagrams' \subseteq Addrs /\ stale' \subseteq Addrs
            /\ bufIn' \in [Addrs -> Seq(InPacket)]
            /\ bufOut' \in [Addrs -> Seq(OutPacket)]
            /\ seqOut' \in [Addrs -> Nat]
        BY <2>5 DEF EraseEntry, TypeOK
      <3>2. remoteClosed' \subseteq Addrs
        BY <2>5 DEF TypeOK
      <3> QED BY <2>5, <3>1, <3>2 DEF TypeOK, connVars
    <2> QED BY <2>1, <2>3, <2>4, <2>5
  <1>8. CASE PollData
    <2>1. PICK a \in pendingData :
             LET read == IF status[a] = "CONNECTING" THEN << >> ELSE recvBuffer[a]
                 in   == bufIn[a] \o read
             IN  /\ datagrams' = datagrams \cup {a}
                 /\ bufIn' = [bufIn EXCEPT ![a] = Remaining(in, call.api, call.channel)]
                 /\ IF HasMessage(in, call.channel)
                    THEN Return(a, in, call.api, call.channel)
                    ELSE UNCHANGED <<p2pconnections, delivered, call>>
                 /\ recvBuffer' = [recvBuffer EXCEPT ![a] = IF status[a] = "CONNECTING" THEN @ ELSE << >>]
                 /\ pendingData' = PendingAfterRead(a)
      BY <1>8 DEF PollData
    <2> DEFINE read == IF status[a] = "CONNECTING" THEN << >> ELSE recvBuffer[a]
               in   == bufIn[a] \o read
    <2>2. a \in Addrs /\ in \in Seq(InPacket)
      BY ConcatProperties DEF TypeOK
    <2> HIDE DEF in
    <2>3. Remaining(in, call.api, call.channel) \in Seq(InPacket)
      BY <2>2, RemainingIsPart
    <2>4. /\ delivered' \in Seq(InPacket)
          /\ p2pconnections' \in [Peers -> Addrs \cup {NoAddr}]
          /\ call' \in {Idle} \cup [api : {"recvfrom", "peek"}, channel : Channels]
      BY <1>5, <2>1, <2>2 DEF in, TypeOK
    <2>5. /\ datagrams' \subseteq Addrs /\ pendingData' \subseteq Addrs
          /\ bufIn' \in [Addrs -> Seq(InPacket)]
          /\ recvBuffer' \in [Addrs -> Seq(InPacket)]
      BY <2>1, <2>2, <2>3 DEF in, TypeOK, PendingAfterRead
    <2>6. /\ UNCHANGED <<status, inOrOut, otherPeer, tracked, open, remoteClosed>>
          /\ UNCHANGED <<bufOut, seqOut, queuedPackets, fault, wire, stale, sent, arrived>>
      BY <1>8 DEF PollData
    <2> QED BY <2>4, <2>5, <2>6 DEF TypeOK
  <1>9. CASE PollNothing
    BY <1>9 DEF PollNothing, TypeOK, connVars, setVars, entryVars, histVars
  <1>10. ASSUME NEW S \in SUBSET Peers, Disconnect(S) PROVE TypeOK'
    <2> DEFINE A == {p2pconnections[p] : p \in S} \ {NoAddr}
    <2>1. A \subseteq Addrs
      BY <1>10 DEF TypeOK
    <2>2. SetClosed(A)
      BY <1>10 DEF Disconnect
    <2>3. UNCHANGED <<inOrOut, otherPeer, recvBuffer, p2pconnections, entryVars, call, fault, histVars, sent, arrived>>
      BY <1>10 DEF Disconnect
    <2> HIDE DEF A
    <2>4. /\ status' \in [Addrs -> {"FREE", "CONNECTING", "CONNECTED", "CLOSED"}]
          /\ tracked' \subseteq Addrs /\ open' \subseteq Addrs
          /\ pendingData' \subseteq Addrs /\ remoteClosed' \subseteq Addrs
      BY <2>1, <2>2 DEF SetClosed, TypeOK
    <2> QED BY <2>3, <2>4 DEF TypeOK, entryVars, histVars
  <1>11. ASSUME NEW a \in Addrs, NEW p \in Peers, P2POffer(a, p) PROVE TypeOK'
    BY <1>11 DEF P2POffer, NewConnection, TypeOK, setVars, entryVars, histVars
  <1>12. ASSUME NEW a \in Addrs, OnConnect(a) \/ OnChannel(a) \/ ChannelClosed(a) PROVE TypeOK'
    BY ZenonT(60), <1>12 DEF OnConnect, OnChannel, ChannelClosed, TypeOK, setVars, entryVars, histVars
  <1>13. ASSUME NEW a \in Addrs, OnDisconnect(a) PROVE TypeOK'
    BY <1>13 DEF OnDisconnect, SetClosed, TypeOK, entryVars, histVars
  <1>14. ASSUME NEW a \in Addrs, NEW channel \in Channels, NEW size \in Sizes, Arrive(a, channel, size) PROVE TypeOK'
    <2>1. [n |-> arrived, channel |-> channel, size |-> size, via |-> a] \in InPacket
      BY DEF InPacket, TypeOK
    <2>2. recvBuffer' \in [Addrs -> Seq(InPacket)] /\ arrived' \in Nat
      BY <1>14, <2>1 DEF Arrive, TypeOK
    <2> QED BY <1>14, <2>2 DEF Arrive, TypeOK, entryVars, histVars
  <1>15. CASE UNCHANGED vars
    BY <1>15 DEF TypeOK, vars, connVars, setVars, entryVars, histVars
  <1> QED
    BY <1>1, <1>2, <1>3, <1>6, <1>7, <1>8, <1>9, <1>10, <1>11, <1>12, <1>13, <1>14, <1>15
    DEF Next, Sendto, Recv, Poll, Callback, OnData, P2PRelayData

\* The types hold at the start.
LEMMA InitType == Init => TypeOK
  <1> SUFFICES ASSUME Init PROVE TypeOK
    OBVIOUS
  <1>1. \A S : << >> \in Seq(S)
    OBVIOUS
  <1>2. /\ recvBuffer \in [Addrs -> Seq(InPacket)] /\ bufIn \in [Addrs -> Seq(InPacket)]
        /\ bufOut \in [Addrs -> Seq(OutPacket)] /\ wire \in [Addrs -> Seq(OutPacket)]
        /\ delivered \in Seq(InPacket)
    BY <1>1 DEF Init
  <1> QED
    BY <1>2 DEF Init, TypeOK

\* The state of the data path is well typed, for every number of connections,
\* peers and channels and all lengths of messages.
THEOREM TypeCorrect == Spec => []TypeOK
  BY InitType, TypeStep, PTL DEF Spec

-----------------------------------------------------------------------------
(* Connections and the tables that point to them *)

\* What the program assumes of a Connection object that exists, and of an
\* address without one.
Objects ==
    \A a \in Addrs :
        /\ status[a] = "FREE" => otherPeer[a] = NoPeer /\ recvBuffer[a] = << >>
        /\ status[a] # "FREE" => otherPeer[a] \in Peers
        /\ a \in open \cup tracked => Live(a)
        /\ a \in remoteClosed => status[a] = "CLOSED"

\* The inductive invariant: the sets and p2pconnections agree with the objects.
TablesInv == Objects /\ PendingHaveData /\ ListedConnectionsExist

\* A new Connection at a free address.
LEMMA NewTables ==
    ASSUME TypeOK, TablesInv, NEW a \in Addrs, NEW p \in Peers, NEW direction, NewConnection(a, p, direction),
           UNCHANGED <<recvBuffer, tracked, open, setVars>>,
           p2pconnections' \in {p2pconnections, [p2pconnections EXCEPT ![p] = a]}
    PROVE  TablesInv'
  <1>1. /\ status[a] = "FREE"
        /\ status' = [status EXCEPT ![a] = "CONNECTING"] /\ otherPeer' = [otherPeer EXCEPT ![a] = p]
    BY DEF NewConnection
  <1>2. Objects'
    BY <1>1 DEF TablesInv, Objects, TypeOK, Live, setVars
  <1>3. PendingHaveData'
    BY <1>1 DEF TablesInv, Objects, PendingHaveData, TypeOK, Live, setVars
  <1>4. ListedConnectionsExist'
    <2>1. \A q \in Peers : p2pconnections'[q] # NoAddr =>
             (p2pconnections'[q] = a /\ q = p) \/ (p2pconnections'[q] = p2pconnections[q])
      BY DEF TypeOK
    <2>2. status'[a] = "CONNECTING" /\ otherPeer'[a] = p
      BY <1>1 DEF TypeOK
    <2>3. \A q \in Peers : p2pconnections[q] # NoAddr =>
             /\ p2pconnections[q] # a
             /\ status'[p2pconnections[q]] = status[p2pconnections[q]]
             /\ otherPeer'[p2pconnections[q]] = otherPeer[p2pconnections[q]]
      BY <1>1 DEF TablesInv, ListedConnectionsExist, TypeOK
    <2> QED BY <2>1, <2>2, <2>3 DEF TablesInv, ListedConnectionsExist
  <1> QED
    BY <1>2, <1>3, <1>4 DEF TablesInv

\* Connections are set closed.
LEMMA SetClosedTables ==
    ASSUME TypeOK, TablesInv, NEW A \in SUBSET Addrs, SetClosed(A), \A a \in A : status[a] # "FREE",
           UNCHANGED <<otherPeer, recvBuffer, p2pconnections>>
    PROVE  TablesInv'
  <1>1. \A a \in Addrs : status'[a] = IF a \in A THEN "CLOSED" ELSE status[a]
    BY DEF SetClosed
  <1>2. /\ tracked' = tracked \ A /\ open' = open \ A
        /\ pendingData' = pendingData \ A /\ remoteClosed' = remoteClosed \cup A
    BY DEF SetClosed
  <1>3. Objects'
    BY <1>1, <1>2 DEF TablesInv, Objects, Live, TypeOK
  <1>4. PendingHaveData'
    BY <1>1, <1>2 DEF TablesInv, PendingHaveData, Live
  <1>5. ListedConnectionsExist'
    BY <1>1, <1>2 DEF TablesInv, ListedConnectionsExist, TypeOK
  <1> QED
    BY <1>3, <1>4, <1>5 DEF TablesInv

\* A Connection is deleted, and not listed any more.
LEMMA CloseTables ==
    ASSUME TypeOK, TablesInv, NEW a \in Addrs, ConnectionClose(a), status[a] # "FREE",
           \A q \in Peers : p2pconnections'[q] # NoAddr =>
              p2pconnections'[q] = p2pconnections[q] /\ q # otherPeer[a]
    PROVE  TablesInv'
  <1>1. /\ status' = [status EXCEPT ![a] = "FREE"]
        /\ otherPeer' = [otherPeer EXCEPT ![a] = NoPeer]
        /\ recvBuffer' = [recvBuffer EXCEPT ![a] = << >>]
        /\ tracked' = tracked \ {a} /\ open' = open \ {a}
        /\ pendingData' = pendingData \ {a} /\ remoteClosed' = remoteClosed \ {a}
    BY DEF ConnectionClose
  <1>2. Objects'
    <2>1. \A b \in Addrs \ {a} : /\ status'[b] = status[b] /\ otherPeer'[b] = otherPeer[b]
                                 /\ recvBuffer'[b] = recvBuffer[b]
      BY <1>1 DEF TypeOK
    <2>2. status'[a] = "FREE" /\ otherPeer'[a] = NoPeer /\ recvBuffer'[a] = << >>
      BY <1>1 DEF TypeOK
    <2> QED BY <1>1, <2>1, <2>2 DEF TablesInv, Objects, Live
  <1>3. PendingHaveData'
    BY <1>1 DEF TablesInv, PendingHaveData, Live, TypeOK
  <1>4. ListedConnectionsExist'
    <2> SUFFICES ASSUME NEW q \in Peers, p2pconnections'[q] # NoAddr
                 PROVE  /\ status'[p2pconnections'[q]] # "FREE"
                        /\ otherPeer'[p2pconnections'[q]] = q
      BY DEF ListedConnectionsExist
    <2> DEFINE b == p2pconnections[q]
    <2>1. b \in Addrs /\ status[b] # "FREE" /\ otherPeer[b] = q /\ p2pconnections'[q] = b /\ b # a
      BY DEF TablesInv, ListedConnectionsExist, TypeOK
    <2> HIDE DEF b
    <2> QED BY <1>1, <2>1 DEF TypeOK
  <1> QED
    BY <1>2, <1>3, <1>4 DEF TablesInv

\* Nothing happens to the Connections, and p2pconnections lists one more.
LEMMA ListTables ==
    ASSUME TypeOK, TablesInv, NEW a \in Addrs, UNCHANGED <<connVars, setVars>>,
           \/ UNCHANGED p2pconnections
           \/ status[a] # "FREE" /\ p2pconnections' = [p2pconnections EXCEPT ![otherPeer[a]] = a]
    PROVE  TablesInv'
  <1>1. Objects' /\ PendingHaveData'
    BY DEF TablesInv, Objects, PendingHaveData, Live, connVars, setVars
  <1>2. ListedConnectionsExist'
    BY DEF TablesInv, ListedConnectionsExist, Objects, TypeOK, connVars
  <1> QED
    BY <1>1, <1>2 DEF TablesInv

\* Every call and callback keeps the invariant.
LEMMA TablesStep ==
    ASSUME TypeOK, TablesInv, [Next]_vars
    PROVE  TablesInv'
  <1> USE DatagramAssumption
  <1>0. ASSUME UNCHANGED <<connVars, setVars, p2pconnections>> PROVE TablesInv'
    BY <1>0 DEF TablesInv, Objects, PendingHaveData, ListedConnectionsExist, Live, connVars, setVars
  <1>1. ASSUME NEW p \in Peers, SendtoClosed(p) PROVE TablesInv'
    <2> DEFINE a == p2pconnections[p]
    <2>1. a \in Addrs /\ status[a] = "CLOSED" /\ ConnectionClose(a) /\ otherPeer[a] = p
      BY <1>1 DEF SendtoClosed, TypeOK, TablesInv, ListedConnectionsExist
    <2>2. p2pconnections' = [Unlisted(a) EXCEPT ![p] = NoAddr]
      BY <1>1 DEF SendtoClosed
    <2>3. \A q \in Peers : p2pconnections'[q] # NoAddr => p2pconnections'[q] = p2pconnections[q] /\ q # otherPeer[a]
      BY <2>1, <2>2 DEF Unlisted, TypeOK
    <2> HIDE DEF a
    <2> QED BY <2>1, <2>3, CloseTables
  <1>2. ASSUME NEW p \in Peers, NEW mode, NEW size \in Sizes, SendtoOpen(p, mode, size) PROVE TablesInv'
    BY <1>0, <1>2 DEF SendtoOpen
  <1>3. ASSUME NEW p \in Peers, NEW mode, NEW size \in Sizes, SendtoNew(p, mode, size) PROVE TablesInv'
    BY <1>3, NewTables DEF SendtoNew
  <1>4. ASSUME NEW why, Fail(why) PROVE TablesInv'
    BY <1>0, <1>4 DEF Fail
  <1>5. ASSUME NEW a, NEW in, NEW api, NEW channel, Return(a, in, api, channel)
        PROVE  \/ UNCHANGED p2pconnections
               \/ api = "recvfrom" /\ p2pconnections' = [p2pconnections EXCEPT ![otherPeer[a]] = a]
    BY <1>5 DEF Return
  <1>6. ASSUME NEW api \in {"recvfrom", "peek"}, NEW channel \in Channels, RecvStart(api, channel) PROVE TablesInv'
    <2> DEFINE found == FirstWith(api, channel)
    <2>1. CASE Fail("dangling")
      BY <1>4, <2>1
    <2>2. CASE /\ ~ (api = "recvfrom" /\ \E a \in found : status[a] = "FREE")
               /\ IF found = {} THEN UNCHANGED p2pconnections ELSE \E a \in found : Return(a, bufIn[a], api, channel)
               /\ UNCHANGED <<connVars, setVars>>
      <3>1. CASE found = {}
        BY <1>0, <2>2, <3>1
      <3>2. CASE found # {}
        <4>1. PICK a \in found : Return(a, bufIn[a], api, channel)
          BY <2>2, <3>2
        <4>2. a \in Addrs
          BY DEF FirstWith, TypeOK
        <4> QED BY <1>5, <2>2, <4>1, <4>2, ListTables
      <3> QED BY <3>1, <3>2
    <2> QED BY <1>6, <2>1, <2>2 DEF RecvStart
  <1>7. CASE PollClosed
    <2>1. PICK a \in remoteClosed :
             IF recvBuffer[a] # << >>
             THEN Fail("assert")
             ELSE IF call.api = "recvfrom"
                  THEN /\ p2pconnections' = Unlisted(a)
                       /\ ConnectionClose(a)
                  ELSE /\ remoteClosed' = remoteClosed \ {a}
                       /\ UNCHANGED <<connVars, pendingData, p2pconnections, wire>>
      BY <1>7 DEF PollClosed
    <2>2. a \in Addrs /\ status[a] # "FREE"
      BY DEF TypeOK, TablesInv, Objects
    <2>3. CASE Fail("assert")
      BY <1>4, <2>3
    <2>4. CASE p2pconnections' = Unlisted(a) /\ ConnectionClose(a)
      <3>1. \A q \in Peers : p2pconnections'[q] # NoAddr => p2pconnections'[q] = p2pconnections[q] /\ q # otherPeer[a]
        BY <2>2, <2>4 DEF Unlisted, TypeOK
      <3> QED BY <2>2, <2>4, <3>1, CloseTables
    <2>5. CASE remoteClosed' = remoteClosed \ {a} /\ UNCHANGED <<connVars, pendingData, p2pconnections>>
      BY <2>5 DEF TablesInv, Objects, PendingHaveData, ListedConnectionsExist, Live, connVars
    <2> QED BY <2>1, <2>3, <2>4, <2>5
  <1>8. CASE PollData
    <2>1. PICK a \in pendingData :
             LET read == IF status[a] = "CONNECTING" THEN << >> ELSE recvBuffer[a]
                 in   == bufIn[a] \o read
             IN  /\ IF HasMessage(in, call.channel)
                    THEN Return(a, in, call.api, call.channel)
                    ELSE UNCHANGED <<p2pconnections, delivered, call>>
                 /\ recvBuffer' = [recvBuffer EXCEPT ![a] = IF status[a] = "CONNECTING" THEN @ ELSE << >>]
                 /\ pendingData' = PendingAfterRead(a)
      BY <1>8 DEF PollData
    <2>2. UNCHANGED <<status, inOrOut, otherPeer, tracked, open, remoteClosed>>
      BY <1>8 DEF PollData
    <2>3. a \in Addrs /\ Live(a) /\ recvBuffer[a] # << >> /\ status[a] # "FREE"
      BY DEF TablesInv, PendingHaveData, Live
    <2>4. \A b \in Addrs \ {a} : recvBuffer'[b] = recvBuffer[b]
      BY <2>1, <2>3 DEF TypeOK
    <2>5. CASE status[a] = "CONNECTING"
      <3>1. pendingData' = pendingData /\ recvBuffer' = recvBuffer
        BY <2>1, <2>3, <2>5 DEF PendingAfterRead, TypeOK
      <3> QED BY <1>5, <2>1, <2>2, <2>3, <3>1, ListTables DEF connVars, setVars
    <2>6. CASE status[a] # "CONNECTING"
      <3>1. pendingData' = pendingData \ {a} /\ recvBuffer'[a] = << >>
        BY <2>1, <2>3, <2>6 DEF PendingAfterRead, TypeOK
      <3>2. Objects'
        BY <2>2, <2>3, <2>4, <3>1 DEF TablesInv, Objects, Live
      <3>3. PendingHaveData'
        BY <2>2, <2>3, <2>4, <3>1 DEF TablesInv, PendingHaveData, Live
      <3>4. ListedConnectionsExist'
        BY <1>5, <2>1, <2>2, <2>3 DEF TablesInv, ListedConnectionsExist, Objects, TypeOK
      <3> QED BY <3>2, <3>3, <3>4 DEF TablesInv
    <2> QED BY <2>5, <2>6
  <1>9. CASE PollNothing
    BY <1>0, <1>9 DEF PollNothing
  <1>10. ASSUME NEW S \in SUBSET Peers, Disconnect(S) PROVE TablesInv'
    <2> DEFINE A == {p2pconnections[p] : p \in S} \ {NoAddr}
    <2>1. A \in SUBSET Addrs /\ \A a \in A : status[a] # "FREE"
      BY <1>10 DEF TypeOK, TablesInv, ListedConnectionsExist
    <2>2. SetClosed(A) /\ UNCHANGED <<otherPeer, recvBuffer, p2pconnections>>
      BY <1>10 DEF Disconnect
    <2> HIDE DEF A
    <2> QED BY <2>1, <2>2, SetClosedTables
  <1>11. ASSUME NEW a \in Addrs, NEW p \in Peers, P2POffer(a, p) PROVE TablesInv'
    BY <1>11, NewTables DEF P2POffer
  <1>12. ASSUME NEW a \in Addrs, OnConnect(a) PROVE TablesInv'
    BY <1>12 DEF OnConnect, TablesInv, Objects, PendingHaveData, ListedConnectionsExist, Live, setVars
  <1>13. ASSUME NEW a \in Addrs, OnChannel(a) PROVE TablesInv'
    <2>1. /\ status[a] = "CONNECTING" /\ status' = [status EXCEPT ![a] = "CONNECTED"] /\ open' = open \cup {a}
          /\ UNCHANGED <<otherPeer, recvBuffer, tracked, setVars, p2pconnections>>
      BY <1>13 DEF OnChannel
    <2>2. Objects'
      BY <2>1 DEF TablesInv, Objects, Live, setVars, TypeOK
    <2>3. PendingHaveData'
      BY <2>1 DEF TablesInv, PendingHaveData, Live, setVars, TypeOK
    <2>4. ListedConnectionsExist'
      BY <2>1 DEF TablesInv, ListedConnectionsExist, TypeOK
    <2> QED BY <2>2, <2>3, <2>4 DEF TablesInv
  <1>14. ASSUME NEW a \in Addrs, ChannelClosed(a) PROVE TablesInv'
    BY <1>14 DEF ChannelClosed, TablesInv, Objects, PendingHaveData, ListedConnectionsExist, Live, setVars
  <1>15. ASSUME NEW a \in Addrs, OnDisconnect(a) PROVE TablesInv'
    <2>1. {a} \in SUBSET Addrs /\ (\A b \in {a} : status[b] # "FREE") /\ SetClosed({a})
      BY <1>15 DEF OnDisconnect, Live
    <2> QED BY <1>15, <2>1, SetClosedTables DEF OnDisconnect
  <1>16. ASSUME NEW a \in Addrs, NEW channel \in Channels, NEW size \in Sizes,
                OnData(a, channel, size) \/ P2PRelayData(a, channel, size)
         PROVE  TablesInv'
    <2> DEFINE packet == [n |-> arrived, channel |-> channel, size |-> size, via |-> a]
    <2>1. Live(a) /\ Arrive(a, channel, size)
      BY <1>16 DEF OnData, P2PRelayData, TablesInv, Objects
    <2>2. /\ recvBuffer' = [recvBuffer EXCEPT ![a] = Append(@, packet)]
          /\ pendingData' = pendingData \cup {a}
          /\ UNCHANGED <<status, otherPeer, tracked, open, remoteClosed, p2pconnections>>
      BY <2>1 DEF Arrive
    <2>3. packet \in InPacket
      BY DEF InPacket, TypeOK
    <2> HIDE DEF packet
    <2>4. Append(recvBuffer[a], packet) # << >>
      <3>1. recvBuffer[a] \in Seq(InPacket)
        BY DEF TypeOK
      <3> HIDE DEF InPacket
      <3> QED BY <2>3, <3>1, AppendProperties
    <2>5. recvBuffer'[a] # << >> /\ \A b \in Addrs \ {a} : recvBuffer'[b] = recvBuffer[b]
      BY <2>2, <2>4 DEF TypeOK
    <2>6. Objects'
      BY <2>1, <2>2, <2>5 DEF TablesInv, Objects, Live
    <2>7. PendingHaveData'
      BY <2>1, <2>2, <2>5 DEF TablesInv, PendingHaveData, Live
    <2>8. ListedConnectionsExist'
      BY <2>2 DEF TablesInv, ListedConnectionsExist
    <2> QED BY <2>6, <2>7, <2>8 DEF TablesInv
  <1>17. CASE UNCHANGED vars
    BY <1>0, <1>17 DEF vars
  <1> QED
    BY <1>1, <1>2, <1>3, <1>6, <1>7, <1>8, <1>9, <1>10, <1>11, <1>12, <1>13, <1>14, <1>15, <1>16, <1>17
    DEF Next, Sendto, Recv, Poll, Callback

\* The invariant holds at the start.
LEMMA InitTables == Init => TablesInv
  BY DatagramAssumption DEF Init, TablesInv, Objects, PendingHaveData, ListedConnectionsExist, Live

\* pendingDataConnections holds exactly the connections with something to
\* read, whatever the application calls and the peers do: on_data and
\* P2PRelayData fill it, read_all, set_closed and close take out of it.
THEOREM PendingCorrect == Spec => []PendingHaveData
  <1>1. TypeOK /\ TablesInv /\ [Next]_vars => TypeOK' /\ TablesInv'
    BY TypeStep, TablesStep
  <1>2. TablesInv => PendingHaveData
    BY DEF TablesInv
  <1> QED
    BY <1>1, <1>2, InitType, InitTables, PTL DEF Spec

\* The raw pointers in p2pconnections never dangle, although sendto and
\* recvfrom both delete Connections, and each is listed under its own peer.
THEOREM ListedCorrect == Spec => []ListedConnectionsExist
  <1>1. TypeOK /\ TablesInv /\ [Next]_vars => TypeOK' /\ TablesInv'
    BY TypeStep, TablesStep
  <1>2. TablesInv => ListedConnectionsExist
    BY DEF TablesInv
  <1> QED
    BY <1>1, <1>2, InitType, InitTables, PTL DEF Spec

-----------------------------------------------------------------------------
(* Closes are reported *)

\* The application never calls peek, whose polling takes closed connections
\* out of remoteClosedConnections and tells nobody.
NoPeek == "peek" \notin Calls

\* A closed Connection stays in remoteClosedConnections until it is deleted.
ReportedInv ==
    /\ \A a \in Addrs : status[a] = "CLOSED" => a \in remoteClosed
    /\ call.api # "peek"

\* Every call and callback keeps the invariant.
LEMMA ReportedStep ==
    ASSUME NoPeek, TypeOK, TablesInv, ReportedInv, [Next]_vars
    PROVE  ReportedInv'
  <1>0. ASSUME UNCHANGED <<status, remoteClosed>>, call' = call \/ call' = Idle PROVE ReportedInv'
    BY <1>0 DEF ReportedInv, Idle
  <1>1. ASSUME NEW a \in Addrs, ConnectionClose(a), call' = call \/ call' = Idle PROVE ReportedInv'
    BY <1>1 DEF ConnectionClose, ReportedInv, TypeOK, Idle
  <1>2. ASSUME NEW A, SetClosed(A), call' = call PROVE ReportedInv'
    BY <1>2 DEF SetClosed, ReportedInv
  <1>3. ASSUME NEW a \in Addrs, NEW p, NEW direction, NewConnection(a, p, direction),
               UNCHANGED <<remoteClosed, call>>
        PROVE  ReportedInv'
    BY <1>3 DEF NewConnection, ReportedInv, TypeOK
  <1>4. ASSUME NEW p \in Peers, SendtoClosed(p) PROVE ReportedInv'
    BY <1>1, <1>4 DEF SendtoClosed, TypeOK
  <1>5. ASSUME NEW p \in Peers, NEW mode, NEW size \in Sizes, SendtoOpen(p, mode, size) PROVE ReportedInv'
    BY <1>0, <1>5 DEF SendtoOpen, connVars, setVars
  <1>6. ASSUME NEW p \in Peers, NEW mode, NEW size \in Sizes, SendtoNew(p, mode, size) PROVE ReportedInv'
    BY <1>3, <1>6 DEF SendtoNew, setVars
  <1>7. ASSUME NEW why, Fail(why) PROVE ReportedInv'
    BY <1>0, <1>7 DEF Fail, connVars, setVars
  <1>8. ASSUME NEW api \in {"recvfrom", "peek"}, NEW channel \in Channels, RecvStart(api, channel) PROVE ReportedInv'
    <2>1. api # "peek"
      BY <1>8 DEF RecvStart, NoPeek
    <2>2. CASE Fail("dangling")
      BY <1>7, <2>2
    <2>3. CASE /\ IF FirstWith(api, channel) = {}
                  THEN call' = [api |-> api, channel |-> channel]
                  ELSE \E a \in FirstWith(api, channel) : Return(a, bufIn[a], api, channel)
               /\ UNCHANGED <<connVars, setVars>>
      <3>1. call' = [api |-> api, channel |-> channel] \/ call' = Idle
        BY <2>3 DEF Return
      <3> QED BY <2>1, <2>3, <3>1 DEF ReportedInv, Idle, connVars, setVars
    <2> QED BY <1>8, <2>2, <2>3 DEF RecvStart
  <1>9. CASE PollClosed
    <2>1. PICK a \in remoteClosed :
             \/ Fail("assert")
             \/ call.api = "recvfrom" /\ ConnectionClose(a) /\ call' = Idle
             \/ call.api # "recvfrom"
      BY <1>9 DEF PollClosed
    <2>2. a \in Addrs /\ call.api = "recvfrom"
      BY <1>9 DEF PollClosed, TypeOK, ReportedInv
    <2> QED BY <1>1, <1>7, <2>1, <2>2
  <1>10. CASE PollData
    <2>1. call' = call \/ call' = Idle
      BY <1>10 DEF PollData, Return
    <2> QED BY <1>0, <1>10, <2>1 DEF PollData
  <1>11. CASE PollNothing
    BY <1>0, <1>11 DEF PollNothing, connVars, setVars
  <1>12. ASSUME NEW S \in SUBSET Peers, Disconnect(S) PROVE ReportedInv'
    BY <1>2, <1>12 DEF Disconnect
  <1>13. ASSUME NEW a \in Addrs, NEW p \in Peers, P2POffer(a, p) PROVE ReportedInv'
    BY <1>3, <1>13 DEF P2POffer, setVars
  <1>14. ASSUME NEW a \in Addrs, OnConnect(a) \/ ChannelClosed(a) PROVE ReportedInv'
    BY <1>0, <1>14 DEF OnConnect, ChannelClosed, setVars
  <1>15. ASSUME NEW a \in Addrs, OnChannel(a) PROVE ReportedInv'
    BY <1>15 DEF OnChannel, ReportedInv, TypeOK, setVars
  <1>16. ASSUME NEW a \in Addrs, OnDisconnect(a) PROVE ReportedInv'
    BY <1>2, <1>16 DEF OnDisconnect
  <1>17. ASSUME NEW a \in Addrs, NEW channel \in Channels, NEW size \in Sizes, Arrive(a, channel, size) PROVE ReportedInv'
    BY <1>0, <1>17 DEF Arrive
  <1>18. CASE UNCHANGED vars
    BY <1>0, <1>18 DEF vars, connVars, setVars
  <1> QED
    BY <1>4, <1>5, <1>6, <1>8, <1>9, <1>10, <1>11, <1>12, <1>13, <1>14, <1>15, <1>16, <1>17, <1>18
    DEF Next, Sendto, Recv, Poll, Callback, OnData, P2PRelayData

\* While the application does not peek, every closed connection that sendto
\* and disconnect still know waits for recvfrom to report its close.
THEOREM ReportedCorrect ==
    ASSUME NoPeek
    PROVE  Spec => []ClosesAreReported
  <1>1. Init => ReportedInv
    BY DEF Init, ReportedInv, Idle
  <1>2. TypeOK /\ TablesInv /\ ReportedInv /\ [Next]_vars => TypeOK' /\ TablesInv' /\ ReportedInv'
    BY TypeStep, TablesStep, ReportedStep
  <1>3. TypeOK /\ ReportedInv => ClosesAreReported
    BY DEF TypeOK, ReportedInv, ClosesAreReported
  <1> QED
    BY <1>1, <1>2, <1>3, InitType, InitTables, PTL DEF Spec

-----------------------------------------------------------------------------
(* What sendto accepts leaves in order *)

\* The packets out are the first n of the connection to p, in order.
FirstPackets(out, n, p) ==
    /\ Len(out) = n
    /\ \A i \in DOMAIN out : out[i].seq = i - 1 /\ out[i].to = p

\* The datagram entry of address a: nothing is left in a missing one, a new
\* Connection starts with nothing sent, and an entry without a Connection is
\* known to be stale; what an entry that counts has sent and holds is in order.
EntryInv(a) ==
    /\ a \notin datagrams => bufOut[a] = << >> /\ seqOut[a] = 0
    /\ status[a] = "FREE" \/ (a \notin datagrams /\ Live(a)) => wire[a] = << >>
    /\ a \in datagrams \ stale => status[a] # "FREE"
    /\ a \in datagrams \ stale /\ (status[a] = "CONNECTING" \/ a \in open) =>
          FirstPackets(wire[a] \o bufOut[a], seqOut[a], otherPeer[a])

\* Appending to the buffer appends to all that was sent and held.
LEMMA AppendToBuffer ==
    ASSUME NEW u \in Seq(OutPacket), NEW v \in Seq(OutPacket), NEW packet \in OutPacket
    PROVE  u \o Append(v, packet) = Append(u \o v, packet)
  <1>1. /\ Append(v, packet) = v \o <<packet>>
        /\ u \o v \in Seq(OutPacket)
    BY ConcatProperties, AppendIsConcat
  <1>2. Append(u \o v, packet) = (u \o v) \o <<packet>>
    BY <1>1, AppendIsConcat
  <1>3. <<packet>> \in Seq(OutPacket)
    OBVIOUS
  <1> QED
    BY <1>1, <1>2, <1>3, ConcatAssociative

\* The next packet continues the order.
LEMMA NextPacket ==
    ASSUME NEW out \in Seq(OutPacket), NEW n \in Nat, NEW p, FirstPackets(out, n, p),
           NEW packet \in OutPacket, packet.seq = n, packet.to = p
    PROVE  FirstPackets(Append(out, packet), n + 1, p)
  <1>1. /\ Len(out) = n /\ DOMAIN out = 1 .. n
        /\ DOMAIN Append(out, packet) = 1 .. n + 1 /\ Len(Append(out, packet)) = n + 1
    BY DEF FirstPackets
  <1>2. ASSUME NEW i \in 1 .. n + 1
        PROVE  Append(out, packet)[i].seq = i - 1 /\ Append(out, packet)[i].to = p
    <2>1. CASE i = n + 1
      BY <1>1, <2>1, AppendProperties
    <2>2. CASE i # n + 1
      <3>1. i \in DOMAIN out /\ Append(out, packet)[i] = out[i]
        BY <1>1, <2>2, AppendProperties
      <3> QED BY <3>1 DEF FirstPackets
    <2> QED BY <2>1, <2>2
  <1> QED
    BY <1>1, <1>2 DEF FirstPackets

\* An entry whose variables keep their values stays as it was.
LEMMA EntryKept ==
    ASSUME NEW a, EntryInv(a),
           status'[a] = status[a], otherPeer'[a] = otherPeer[a], bufOut'[a] = bufOut[a],
           seqOut'[a] = seqOut[a], wire'[a] = wire[a],
           a \in datagrams' <=> a \in datagrams, a \in stale => a \in stale', a \in open' => a \in open
    PROVE  EntryInv(a)'
  BY DEF EntryInv, Live

\* The entry of a Connection that stops counting: it is closed, or its channel is.
LEMMA EntryEnds ==
    ASSUME NEW a, EntryInv(a), status'[a] = "CLOSED", status[a] # "FREE", a \notin open',
           bufOut'[a] = bufOut[a], seqOut'[a] = seqOut[a], wire'[a] = wire[a], UNCHANGED datagrams
    PROVE  EntryInv(a)'
  BY DEF EntryInv, Live

\* A flush moves packets from the buffer to the wire.
LEMMA FlushEntry ==
    ASSUME TypeOK, NEW a \in Addrs, EntryInv(a), NEW A, Flush(A, bufOut),
           UNCHANGED <<status, otherPeer, open, datagrams, seqOut, stale>>
    PROVE  EntryInv(a)'
  <1>1. CASE a \in A /\ status[a] = "CONNECTED"
    <2>1. bufOut'[a] = << >> /\ wire'[a] = IF a \in open THEN wire[a] \o bufOut[a] ELSE wire[a]
      BY <1>1 DEF Flush
    <2>2. wire[a] \in Seq(OutPacket) /\ bufOut[a] \in Seq(OutPacket)
      BY DEF TypeOK
    <2>3. wire[a] \o bufOut[a] \in Seq(OutPacket)
      BY <2>2, ConcatProperties
    <2>4. a \in open => wire'[a] \o bufOut'[a] = wire[a] \o bufOut[a]
      BY <2>1, <2>3, ConcatEmptySeq
    <2>5. bufOut[a] = << >> => wire'[a] = wire[a]
      BY <2>1, <2>2, ConcatEmptySeq
    <2> QED BY <1>1, <2>1, <2>4, <2>5 DEF EntryInv, Live
  <1>2. CASE ~ (a \in A /\ status[a] = "CONNECTED")
    <2>1. bufOut'[a] = bufOut[a] /\ wire'[a] = wire[a]
      BY <1>2 DEF Flush
    <2> QED BY <2>1, EntryKept
  <1> QED
    BY <1>1, <1>2

\* A deleted Connection: nothing of it counts, if its entry is stale or gone.
LEMMA EntryFreed ==
    ASSUME TypeOK, NEW a \in Addrs, EntryInv(a), ConnectionClose(a),
           a \notin datagrams' \/ a \in stale',
           a \notin datagrams' => bufOut'[a] = << >> /\ seqOut'[a] = 0
    PROVE  EntryInv(a)'
  <1>1. status'[a] = "FREE" /\ wire'[a] = << >>
    BY DEF ConnectionClose, TypeOK
  <1> QED
    BY <1>1 DEF EntryInv, Live

\* humblenet_datagram_send adds a packet behind those that the connection sent
\* and holds; a new connection has a stale entry or none.
LEMMA SendEntry ==
    ASSUME TypeOK, NEW a \in Addrs, NEW s, NEW p \in Peers, NEW mode, NEW size \in Sizes,
           DatagramSend(a, s, p, mode, size), \A b \in Addrs : EntryInv(b),
           UNCHANGED open, a \in open => Live(a),
           \/ UNCHANGED <<status, otherPeer>> /\ Live(a) /\ otherPeer[a] = p
           \/ /\ status[a] = "FREE" /\ status' = [status EXCEPT ![a] = "CONNECTING"]
              /\ otherPeer' = [otherPeer EXCEPT ![a] = p]
    PROVE  \A b \in Addrs : EntryInv(b)'
  <1> DEFINE packet == [seq |-> seqOut[a], size |-> size, to |-> p]
             out    == [bufOut EXCEPT ![a] = Append(@, packet)]
  <1>1. packet \in OutPacket /\ packet.seq = seqOut[a] /\ packet.to = p
    BY DatagramAssumption DEF TypeOK, OutPacket
  <1>2. \A b \in Addrs : out[b] = IF b = a THEN Append(bufOut[a], packet) ELSE bufOut[b]
    BY DEF TypeOK
  <1>3. /\ \/ bufOut' = out /\ UNCHANGED wire
           \/ Flush({a}, out)
        /\ datagrams' = datagrams \cup {a}
        /\ seqOut' = [seqOut EXCEPT ![a] = @ + 1]
        /\ UNCHANGED stale
    BY DEF DatagramSend
  <1> HIDE DEF packet, out
  <1>4. ASSUME NEW b \in Addrs \ {a} PROVE EntryInv(b)'
    <2>1. bufOut'[b] = bufOut[b] /\ wire'[b] = wire[b]
      BY <1>2, <1>3 DEF Flush
    <2>2. status'[b] = status[b] /\ otherPeer'[b] = otherPeer[b] /\ seqOut'[b] = seqOut[b]
      BY <1>3 DEF TypeOK
    <2> QED BY <1>3, <2>1, <2>2, EntryKept
  <1>5. EntryInv(a)'
    <2> DEFINE before == wire[a] \o bufOut[a]
    <2>1. /\ wire[a] \in Seq(OutPacket) /\ bufOut[a] \in Seq(OutPacket) /\ seqOut[a] \in Nat
          /\ before \in Seq(OutPacket)
      BY ConcatProperties DEF TypeOK
    <2>2. /\ wire[a] \o Append(bufOut[a], packet) = Append(before, packet)
          /\ Append(before, packet) \o << >> = Append(before, packet)
      <3>1. wire[a] \o Append(bufOut[a], packet) = Append(before, packet)
        <4>1. wire[a] \in Seq(OutPacket) /\ bufOut[a] \in Seq(OutPacket) /\ packet \in OutPacket
          BY <1>1, <2>1
        <4>2. wire[a] \o Append(bufOut[a], packet) = Append(wire[a] \o bufOut[a], packet)
          BY <4>1, AppendToBuffer
        <4> QED BY <4>2
      <3>2. Append(before, packet) \in Seq(OutPacket)
        BY <1>1, <2>1, AppendProperties
      <3> HIDE DEF before
      <3> QED BY <3>1, <3>2, ConcatEmptySeq
    <2>3. \/ bufOut'[a] = Append(bufOut[a], packet) /\ wire'[a] = wire[a]
          \/ /\ status[a] = "CONNECTED" /\ bufOut'[a] = << >>
             /\ wire'[a] = IF a \in open THEN wire[a] \o Append(bufOut[a], packet) ELSE wire[a]
      <3>1. CASE bufOut' = out /\ UNCHANGED wire
        BY <1>2, <3>1
      <3>2. CASE Flush({a}, out) /\ status[a] = "CONNECTED"
        <4>1. bufOut'[a] = << >> /\ wire'[a] = IF a \in open THEN wire[a] \o out[a] ELSE wire[a]
          BY <3>2 DEF Flush
        <4> QED BY <1>2, <3>2, <4>1
      <3>3. CASE Flush({a}, out) /\ status[a] # "CONNECTED"
        <4>1. bufOut'[a] = out[a] /\ wire'[a] = wire[a]
          BY <3>3 DEF Flush
        <4> QED BY <1>2, <4>1
      <3> QED BY <1>3, <3>1, <3>2, <3>3
    <2>4. status'[a] = "CONNECTING" \/ a \in open' =>
             \/ status[a] = "FREE" \/ status[a] = "CONNECTING" \/ a \in open
      BY DEF TypeOK, Live
    <2>5. status[a] # "FREE" => UNCHANGED <<status, otherPeer>> /\ otherPeer[a] = p
      BY DEF Live
    <2>6. status'[a] = "CONNECTING" \/ a \in open' => wire'[a] \o bufOut'[a] = Append(before, packet)
      BY <2>2, <2>3, <2>4, <2>5
    <2>7. status'[a] # "FREE" /\ otherPeer'[a] = p /\ seqOut'[a] = seqOut[a] + 1 /\ a \in datagrams'
      BY <1>3 DEF Live, TypeOK
    <2>8. ASSUME a \notin stale, status'[a] = "CONNECTING" \/ a \in open'
          PROVE  FirstPackets(before, seqOut[a], p)
      <3>1. CASE a \in datagrams
        <4>1. status[a] # "FREE"
          BY <2>8, <3>1 DEF EntryInv
        <4> QED BY <2>4, <2>5, <2>8, <3>1, <4>1 DEF EntryInv
      <3>2. CASE a \notin datagrams
        <4>1. wire[a] = << >> /\ bufOut[a] = << >> /\ seqOut[a] = 0
          BY <3>2, <2>5 DEF EntryInv, Live
        <4>2. before = << >>
          BY <2>1, <4>1, ConcatEmptySeq
        <4> HIDE DEF before
        <4> QED BY <4>1, <4>2 DEF FirstPackets
      <3> QED BY <3>1, <3>2
    <2> HIDE DEF before
    <2>9. a \notin stale /\ (status'[a] = "CONNECTING" \/ a \in open') =>
             FirstPackets(wire'[a] \o bufOut'[a], seqOut'[a], otherPeer'[a])
      <3> SUFFICES ASSUME a \notin stale, status'[a] = "CONNECTING" \/ a \in open'
                   PROVE  FirstPackets(wire'[a] \o bufOut'[a], seqOut'[a], otherPeer'[a])
        OBVIOUS
      <3>1. FirstPackets(before, seqOut[a], p)
        BY <2>8
      <3>2. packet \in OutPacket /\ packet.seq = seqOut[a] /\ packet.to = p
        BY <1>1
      <3>3. before \in Seq(OutPacket) /\ seqOut[a] \in Nat
        BY <2>1
      <3>4. FirstPackets(Append(before, packet), seqOut[a] + 1, p)
        BY <3>1, <3>2, <3>3, NextPacket
      <3>5. wire'[a] \o bufOut'[a] = Append(before, packet)
        BY <2>6
      <3>6. seqOut'[a] = seqOut[a] + 1 /\ otherPeer'[a] = p
        BY <2>7
      <3> QED BY <3>4, <3>5, <3>6
    <2> QED BY <1>3, <2>7, <2>9 DEF EntryInv
  <1> QED
    BY <1>4, <1>5

\* Every call and callback keeps every entry's invariant.
LEMMA EntriesStep ==
    ASSUME TypeOK, TablesInv, \A a \in Addrs : EntryInv(a), [Next]_vars, NEW b \in Addrs
    PROVE  EntryInv(b)'
  <1> USE DatagramAssumption
  <1>0. ASSUME UNCHANGED <<status, otherPeer, datagrams, bufOut, seqOut, wire, stale>>, open' \subseteq open
        PROVE  EntryInv(b)'
    BY <1>0, EntryKept
  <1>1. ASSUME NEW p \in Peers, SendtoClosed(p) PROVE EntryInv(b)'
    <2> DEFINE a == p2pconnections[p]
    <2>1. /\ a \in Addrs /\ ConnectionClose(a) /\ stale' = stale \cup ({a} \cap datagrams)
          /\ UNCHANGED <<datagrams, bufOut, seqOut>>
      BY <1>1 DEF SendtoClosed, TypeOK, entryVars
    <2> HIDE DEF a
    <2>2. CASE b = a
      BY <2>1, <2>2, EntryFreed DEF EntryInv
    <2>3. CASE b # a
      <3>1. /\ status'[b] = status[b] /\ otherPeer'[b] = otherPeer[b] /\ wire'[b] = wire[b]
            /\ open' \subseteq open
        BY <2>1, <2>3 DEF ConnectionClose, TypeOK
      <3> QED BY <2>1, <3>1, EntryKept
    <2> QED BY <2>2, <2>3
  <1>2. ASSUME NEW p \in Peers, NEW mode, NEW size \in Sizes, SendtoOpen(p, mode, size) PROVE EntryInv(b)'
    <2> DEFINE a == p2pconnections[p]
    <2>1. /\ a \in Addrs /\ Live(a) /\ otherPeer[a] = p /\ DatagramSend(a, status[a], p, mode, size)
          /\ UNCHANGED <<status, otherPeer, open>>
      BY <1>2 DEF SendtoOpen, TypeOK, TablesInv, ListedConnectionsExist, connVars
    <2> HIDE DEF a
    <2> QED BY <2>1, SendEntry
  <1>3. ASSUME NEW p \in Peers, NEW mode, NEW size \in Sizes, SendtoNew(p, mode, size) PROVE EntryInv(b)'
    <2>1. PICK a \in Addrs : NewConnection(a, p, "Outgoing") /\ DatagramSend(a, "CONNECTING", p, mode, size)
      BY <1>3 DEF SendtoNew
    <2>2. /\ status[a] = "FREE" /\ status' = [status EXCEPT ![a] = "CONNECTING"]
          /\ otherPeer' = [otherPeer EXCEPT ![a] = p]
      BY <2>1 DEF NewConnection
    <2>3. UNCHANGED open /\ (a \in open => Live(a))
      BY <1>3 DEF SendtoNew, TablesInv, Objects
    <2> QED BY <2>1, <2>2, <2>3, SendEntry
  <1>4. ASSUME NEW why, Fail(why) PROVE EntryInv(b)'
    BY <1>0, <1>4 DEF Fail, connVars, entryVars, histVars
  <1>5. ASSUME NEW api \in {"recvfrom", "peek"}, NEW channel \in Channels, RecvStart(api, channel) PROVE EntryInv(b)'
    <2>1. CASE Fail("dangling")
      BY <1>4, <2>1
    <2>2. CASE Flush(ToFlush, bufOut) /\ UNCHANGED <<connVars, datagrams, seqOut, stale>>
      BY <2>2, FlushEntry DEF connVars
    <2> QED BY <1>5, <2>1, <2>2 DEF RecvStart
  <1>6. CASE PollClosed
    <2>1. PICK a \in remoteClosed :
             \/ Fail("assert")
             \/ EraseEntry(a) /\ ConnectionClose(a)
             \/ EraseEntry(a) /\ UNCHANGED <<connVars, wire>>
      BY <1>6 DEF PollClosed
    <2>2. a \in Addrs /\ status[a] = "CLOSED"
      BY DEF TypeOK, TablesInv, Objects
    <2>3. ASSUME EraseEntry(a)
          PROVE  /\ bufOut'[a] = << >> /\ seqOut'[a] = 0 /\ a \notin datagrams'
                 /\ b # a => /\ bufOut'[b] = bufOut[b] /\ seqOut'[b] = seqOut[b]
                             /\ b \in datagrams' <=> b \in datagrams
                             /\ b \in stale => b \in stale'
      BY <2>2, <2>3 DEF EraseEntry, TypeOK
    <2>4. CASE EraseEntry(a) /\ ConnectionClose(a)
      <3>1. CASE b = a
        BY <2>2, <2>3, <2>4, <3>1, EntryFreed
      <3>2. CASE b # a
        <4>1. /\ status'[b] = status[b] /\ otherPeer'[b] = otherPeer[b] /\ wire'[b] = wire[b]
              /\ open' \subseteq open
          BY <2>4, <3>2 DEF ConnectionClose, TypeOK
        <4> QED BY <2>3, <2>4, <3>2, <4>1, EntryKept
      <3> QED BY <3>1, <3>2
    <2>5. CASE EraseEntry(a) /\ UNCHANGED <<connVars, wire>>
      <3>1. CASE b = a
        BY <2>2, <2>3, <2>5, <3>1 DEF EntryInv, Live, connVars
      <3>2. CASE b # a
        BY <2>3, <2>5, <3>2, EntryKept DEF connVars
      <3> QED BY <3>1, <3>2
    <2> QED BY <1>4, <2>1, <2>4, <2>5
  <1>7. CASE PollData
    <2>1. PICK a \in pendingData : datagrams' = datagrams \cup {a}
      BY <1>7 DEF PollData
    <2>2. UNCHANGED <<status, otherPeer, open, bufOut, seqOut, wire, stale>>
      BY <1>7 DEF PollData
    <2>3. CASE b = a /\ a \notin datagrams
      <3>1. Live(a) /\ wire[a] = << >> /\ bufOut[a] = << >> /\ seqOut[a] = 0
        BY <2>3 DEF TablesInv, PendingHaveData, EntryInv
      <3>2. << >> \o << >> = << >>
        OBVIOUS
      <3>3. FirstPackets(wire[a] \o bufOut[a], seqOut[a], otherPeer[a])
        BY <3>1, <3>2 DEF FirstPackets
      <3> QED BY <2>1, <2>2, <2>3, <3>1, <3>3 DEF EntryInv, Live
    <2>4. CASE b # a \/ a \in datagrams
      BY <2>1, <2>2, <2>4, EntryKept
    <2> QED BY <2>3, <2>4
  <1>8. CASE PollNothing
    BY <1>0, <1>8 DEF PollNothing, connVars, entryVars, histVars
  <1>9. ASSUME NEW A, SetClosed(A), \A a \in A : status[a] # "FREE", UNCHANGED <<otherPeer, entryVars, histVars>>
        PROVE  EntryInv(b)'
    <2>1. CASE b \in A
      <3>1. status'[b] = "CLOSED" /\ status[b] # "FREE" /\ b \notin open'
        BY <1>9, <2>1 DEF SetClosed
      <3> QED BY <1>9, <3>1, EntryEnds DEF entryVars, histVars
    <2>2. CASE b \notin A
      <3>1. status'[b] = status[b] /\ open' \subseteq open
        BY <1>9, <2>2 DEF SetClosed
      <3> QED BY <1>9, <3>1, EntryKept DEF entryVars, histVars
    <2> QED BY <2>1, <2>2
  <1>10. ASSUME NEW S \in SUBSET Peers, Disconnect(S) PROVE EntryInv(b)'
    <2> DEFINE A == {p2pconnections[p] : p \in S} \ {NoAddr}
    <2>1. \A a \in A : status[a] # "FREE"
      BY DEF TablesInv, ListedConnectionsExist
    <2>2. SetClosed(A) /\ UNCHANGED <<otherPeer, entryVars, histVars>>
      BY <1>10 DEF Disconnect
    <2> HIDE DEF A
    <2> QED BY <1>9, <2>1, <2>2
  <1>11. ASSUME NEW a \in Addrs, NEW p \in Peers, P2POffer(a, p) PROVE EntryInv(b)'
    <2>1. /\ status[a] = "FREE" /\ status' = [status EXCEPT ![a] = "CONNECTING"]
          /\ otherPeer' = [otherPeer EXCEPT ![a] = p]
          /\ UNCHANGED <<open, datagrams, bufOut, seqOut, wire, stale>>
      BY <1>11 DEF P2POffer, NewConnection, entryVars, histVars
    <2>2. CASE b = a
      BY <2>1, <2>2 DEF EntryInv, Live, TypeOK
    <2>3. CASE b # a
      BY <2>1, <2>3, EntryKept DEF TypeOK
    <2> QED BY <2>2, <2>3
  <1>12. ASSUME NEW a \in Addrs, OnConnect(a) \/ ChannelClosed(a) PROVE EntryInv(b)'
    BY <1>0, <1>12 DEF OnConnect, ChannelClosed, entryVars, histVars
  <1>13. ASSUME NEW a \in Addrs, OnChannel(a) PROVE EntryInv(b)'
    <2>1. /\ status[a] = "CONNECTING" /\ status' = [status EXCEPT ![a] = "CONNECTED"]
          /\ open' = open \cup {a}
          /\ UNCHANGED <<otherPeer, datagrams, bufOut, seqOut, wire, stale>>
      BY <1>13 DEF OnChannel, entryVars, histVars
    <2>2. CASE b = a
      BY <2>1, <2>2 DEF EntryInv, Live, TypeOK
    <2>3. CASE b # a
      BY <2>1, <2>3, EntryKept DEF TypeOK
    <2> QED BY <2>2, <2>3
  <1>14. ASSUME NEW a \in Addrs, OnDisconnect(a) PROVE EntryInv(b)'
    <2>1. SetClosed({a}) /\ \A c \in {a} : status[c] # "FREE"
      BY <1>14 DEF OnDisconnect, Live
    <2> QED BY <1>9, <1>14, <2>1 DEF OnDisconnect
  <1>15. ASSUME NEW a \in Addrs, NEW channel \in Channels, NEW size \in Sizes, Arrive(a, channel, size)
         PROVE  EntryInv(b)'
    BY <1>0, <1>15 DEF Arrive, entryVars, histVars
  <1>16. CASE UNCHANGED vars
    BY <1>0, <1>16 DEF vars, connVars, entryVars, histVars
  <1> QED
    BY <1>1, <1>2, <1>3, <1>5, <1>6, <1>7, <1>8, <1>10, <1>11, <1>12, <1>13, <1>14, <1>15, <1>16
    DEF Next, Sendto, Recv, Poll, Callback, OnData, P2PRelayData

\* Between sendto and the wire no packet is lost, doubled, overtaken or sent to
\* another peer: what was written and what is held are together all packets of
\* the connection in order, however sends, flushes and reconnections alternate.
THEOREM SentCorrect == Spec => []SentInOrder
  <1> DEFINE Inv == TypeOK /\ TablesInv /\ \A a \in Addrs : EntryInv(a)
  <1>1. Init => Inv
    <2>1. Init => \A a \in Addrs : EntryInv(a)
      BY DEF Init, EntryInv, Live
    <2> QED BY <2>1, InitType, InitTables
  <1>2. Inv /\ [Next]_vars => Inv'
    BY TypeStep, TablesStep, EntriesStep
  <1>3. Inv => SentInOrder
    BY DEF SentInOrder, EntryInv, FirstPackets, TypeOK
  <1> QED
    BY <1>1, <1>2, <1>3, PTL DEF Spec

-----------------------------------------------------------------------------
(* Messages are returned in the order they arrived *)

\* in holds packets that arrived by connection a, in order, and behind those
\* of the same channel that recvfrom has returned.
Waiting(in, a, got, bound) ==
    /\ \A i \in DOMAIN in : in[i].via = a /\ in[i].n < bound
    /\ \A i, j \in DOMAIN in : i < j => in[i].n < in[j].n
    /\ \A i \in DOMAIN got, j \in DOMAIN in :
          got[i].via = a /\ got[i].channel = in[j].channel => got[i].n < in[j].n

\* What recvfrom has returned is in order.
Returned(got, bound) ==
    /\ \A i \in DOMAIN got : got[i].n < bound
    /\ \A i, j \in DOMAIN got :
          i < j /\ got[i].via = got[j].via /\ got[i].channel = got[j].channel => got[i].n < got[j].n

Before(in, later) == \A i \in DOMAIN in, j \in DOMAIN later : in[i].n < later[j].n

\* What one connection holds: the entry's packets were there before those that
\* are not yet read from the Connection.
ArrivalInv(a) ==
    /\ Waiting(bufIn[a], a, delivered, arrived)
    /\ Waiting(recvBuffer[a], a, delivered, arrived)
    /\ Before(bufIn[a], recvBuffer[a])

\* The inductive invariant of DeliveredInOrder.
ArrivalsInv == Returned(delivered, arrived) /\ \A a \in Addrs : ArrivalInv(a)

\* Taking a packet out leaves the others waiting as before.
LEMMA RemainingWaits ==
    ASSUME NEW in \in Seq(InPacket), NEW a, NEW got, NEW bound, Waiting(in, a, got, bound),
           NEW api, NEW channel, NEW later, Before(in, later)
    PROVE  /\ Waiting(Remaining(in, api, channel), a, got, bound)
           /\ Before(Remaining(in, api, channel), later)
  <1> DEFINE rest == Remaining(in, api, channel)
  <1>1. \A i \in DOMAIN rest : \E k \in DOMAIN in :
           rest[i] = in[k] /\ \A j \in DOMAIN rest : i < j => \E m \in DOMAIN in : k < m /\ rest[j] = in[m]
    BY RemainingIsPart
  <1> HIDE DEF rest
  <1>2. Waiting(rest, a, got, bound)
    <2>1. \A i \in DOMAIN rest : rest[i].via = a /\ rest[i].n < bound
      BY <1>1 DEF Waiting
    <2>2. \A i, j \in DOMAIN rest : i < j => rest[i].n < rest[j].n
      BY <1>1 DEF Waiting
    <2>3. \A i \in DOMAIN got, j \in DOMAIN rest :
             got[i].via = a /\ got[i].channel = rest[j].channel => got[i].n < rest[j].n
      BY <1>1 DEF Waiting
    <2> QED BY <2>1, <2>2, <2>3 DEF Waiting
  <1>3. Before(rest, later)
    BY <1>1 DEF Before
  <1> QED
    BY <1>2, <1>3 DEF rest

\* Returning a connection's first message of a channel keeps what was returned
\* in order, and what waits behind it.
LEMMA ReturnInOrder ==
    ASSUME NEW in \in Seq(InPacket), NEW a, NEW got \in Seq(InPacket), NEW bound \in Nat,
           Waiting(in, a, got, bound), Returned(got, bound),
           NEW api, api # "peek", NEW channel, HasMessage(in, channel),
           NEW later, Waiting(later, a, got, bound), Before(in, later)
    PROVE  LET new == Append(got, in[Ready(in, channel)]) IN
           /\ Returned(new, bound)
           /\ Waiting(Remaining(in, api, channel), a, new, bound)
           /\ Waiting(later, a, new, bound)
           /\ \A b, other : b # a /\ Waiting(other, b, got, bound) => Waiting(other, b, new, bound)
  <1> DEFINE r    == Ready(in, channel)
             new  == Append(got, in[r])
             rest == Remaining(in, api, channel)
  <1>1. r \in DOMAIN in /\ r # 0 /\ in[r].channel = channel /\ in[r] \in InPacket
        /\ \A j \in DOMAIN in : in[j].channel = channel => r <= j
    BY ReadyIsFirst DEF HasMessage
  <1>2. \A i \in DOMAIN rest : \E k \in DOMAIN in : rest[i] = in[k] /\ k # r
    BY <1>1, RemainingIsPart
  <1>3. Waiting(rest, a, got, bound)
    BY RemainingWaits
  <1> HIDE DEF r, rest
  <1>4. /\ DOMAIN new = 1 .. Len(got) + 1 /\ DOMAIN got = 1 .. Len(got) /\ Len(got) \in Nat
        /\ \A i \in DOMAIN got : new[i] = got[i]
        /\ new[Len(got) + 1] = in[r]
    BY <1>1, AppendProperties
  <1> HIDE DEF new
  <1>5. \A i \in DOMAIN new : (i \in DOMAIN got /\ new[i] = got[i]) \/ (i = Len(got) + 1 /\ new[i] = in[r])
    BY <1>4
  <1>6. in[r].via = a /\ in[r].n < bound
    BY <1>1 DEF Waiting
  <1>7. Returned(new, bound)
    <2>1. \A i \in DOMAIN new : new[i].n < bound
      BY <1>5, <1>6 DEF Returned
    <2>2. ASSUME NEW i \in DOMAIN new, NEW j \in DOMAIN new, i < j,
                 new[i].via = new[j].via, new[i].channel = new[j].channel
          PROVE  new[i].n < new[j].n
      <3>1. i \in DOMAIN got /\ new[i] = got[i]
        BY <1>4, <1>5, <2>2
      <3>2. CASE j \in DOMAIN got
        BY <1>4, <2>2, <3>1, <3>2 DEF Returned
      <3>3. CASE j = Len(got) + 1
        BY <1>1, <1>4, <1>6, <2>2, <3>1, <3>3 DEF Waiting
      <3> QED BY <1>5, <3>2, <3>3
    <2> QED BY <2>1, <2>2 DEF Returned
  <1>8. Waiting(rest, a, new, bound)
    <2>1. ASSUME NEW i \in DOMAIN new, NEW j \in DOMAIN rest, new[i].via = a, new[i].channel = rest[j].channel
          PROVE  new[i].n < rest[j].n
      <3>1. CASE i \in DOMAIN got
        BY <1>3, <1>4, <2>1, <3>1 DEF Waiting
      <3>2. CASE new[i] = in[r]
        <4>1. PICK k \in DOMAIN in : rest[j] = in[k] /\ k # r
          BY <1>2
        <4>2. r < k
          BY <1>1, <2>1, <3>2, <4>1
        <4> QED BY <1>1, <3>2, <4>1, <4>2 DEF Waiting
      <3> QED BY <1>5, <3>1, <3>2
    <2> QED BY <1>3, <2>1 DEF Waiting
  <1>9. Waiting(later, a, new, bound)
    <2>1. \A i \in DOMAIN new, j \in DOMAIN later :
             new[i].via = a /\ new[i].channel = later[j].channel => new[i].n < later[j].n
      BY <1>1, <1>5 DEF Waiting, Before
    <2> QED BY <2>1 DEF Waiting
  <1>10. ASSUME NEW b, NEW other, b # a, Waiting(other, b, got, bound) PROVE Waiting(other, b, new, bound)
    BY <1>5, <1>6, <1>10 DEF Waiting
  <1> QED
    BY <1>7, <1>8, <1>9, <1>10 DEF r, rest, new

\* Two parts that wait one after the other wait together.
LEMMA ConcatWaits ==
    ASSUME NEW in \in Seq(InPacket), NEW later \in Seq(InPacket), NEW a, NEW got, NEW bound,
           Waiting(in, a, got, bound), Waiting(later, a, got, bound), Before(in, later)
    PROVE  in \o later \in Seq(InPacket) /\ Waiting(in \o later, a, got, bound)
  <1> DEFINE all == in \o later
  <1>1. /\ all \in Seq(InPacket) /\ Len(all) = Len(in) + Len(later)
        /\ Len(in) \in Nat /\ Len(later) \in Nat
        /\ DOMAIN in = 1 .. Len(in) /\ DOMAIN later = 1 .. Len(later)
        /\ \A i \in 1 .. Len(in) + Len(later) : all[i] = IF i <= Len(in) THEN in[i] ELSE later[i - Len(in)]
    BY ConcatProperties
  <1>2. DOMAIN all = 1 .. Len(in) + Len(later)
    BY <1>1
  <1> HIDE DEF all
  <1>3. \A i \in DOMAIN all : \/ i \in DOMAIN in /\ all[i] = in[i]
                              \/ i - Len(in) \in DOMAIN later /\ all[i] = later[i - Len(in)] /\ i > Len(in)
    BY <1>1, <1>2
  <1>4. \A i \in DOMAIN all : all[i].via = a /\ all[i].n < bound
    BY <1>3 DEF Waiting
  <1>5. ASSUME NEW i \in DOMAIN all, NEW j \in DOMAIN all, i < j PROVE all[i].n < all[j].n
    <2>1. CASE i \in DOMAIN in /\ all[i] = in[i] /\ j \in DOMAIN in /\ all[j] = in[j]
      BY <1>5, <2>1 DEF Waiting
    <2>2. CASE i \in DOMAIN in /\ all[i] = in[i] /\ j - Len(in) \in DOMAIN later /\ all[j] = later[j - Len(in)]
      BY <2>2 DEF Before
    <2>3. CASE /\ i - Len(in) \in DOMAIN later /\ all[i] = later[i - Len(in)]
               /\ j - Len(in) \in DOMAIN later /\ all[j] = later[j - Len(in)]
      <3>1. i - Len(in) < j - Len(in)
        BY <1>1, <1>2, <1>5
      <3> QED BY <2>3, <3>1 DEF Waiting
    <2>4. ~ (i > Len(in) /\ j \in DOMAIN in)
      BY <1>1, <1>2, <1>5
    <2> QED BY <1>3, <2>1, <2>2, <2>3, <2>4
  <1>6. \A i \in DOMAIN got, j \in DOMAIN all :
           got[i].via = a /\ got[i].channel = all[j].channel => got[i].n < all[j].n
    BY <1>3 DEF Waiting
  <1> QED
    BY <1>1, <1>4, <1>5, <1>6 DEF Waiting, all

\* Nothing waits in an empty buffer.
LEMMA EmptyWaits ==
    \A a, got, bound, other :
        Waiting(<< >>, a, got, bound) /\ Before(<< >>, other) /\ Before(other, << >>)
  BY DEF Waiting, Before

\* A packet that arrives is the last one.
LEMMA ArriveWaits ==
    ASSUME TypeOK, ArrivalsInv, NEW a \in Addrs, NEW channel \in Channels, NEW size \in Sizes,
           Arrive(a, channel, size)
    PROVE  ArrivalsInv'
  <1> DEFINE packet == [n |-> arrived, channel |-> channel, size |-> size, via |-> a]
  <1>1. packet \in InPacket /\ packet.n = arrived /\ packet.via = a
    BY DatagramAssumption DEF TypeOK, InPacket
  <1>2. /\ recvBuffer' = [recvBuffer EXCEPT ![a] = Append(@, packet)]
        /\ arrived' = arrived + 1 /\ bufIn' = bufIn /\ delivered' = delivered
    BY DEF Arrive, entryVars, histVars
  <1> HIDE DEF packet
  <1>3. arrived \in Nat /\ delivered \in Seq(InPacket)
    BY DEF TypeOK
  <1>4. \A in \in Seq(InPacket) : \A i \in DOMAIN in : in[i].n \in Nat
    <2>1. \A in \in Seq(InPacket) : \A i \in DOMAIN in : in[i] \in InPacket
      OBVIOUS
    <2>2. \A any \in InPacket : any.n \in Nat
      BY DEF InPacket
    <2> QED BY <2>1, <2>2
  <1>5. Returned(delivered, arrived')
    BY <1>2, <1>3, <1>4 DEF ArrivalsInv, Returned
  <1>6. ASSUME NEW b, NEW in \in Seq(InPacket), Waiting(in, b, delivered, arrived)
        PROVE  Waiting(in, b, delivered, arrived')
    <2>1. \A i \in DOMAIN in : in[i].n \in Nat
      BY <1>4
    <2> QED BY <1>2, <1>3, <1>6, <2>1 DEF Waiting
  <1>7. ASSUME NEW b \in Addrs \ {a} PROVE ArrivalInv(b)'
    <2>1. recvBuffer'[b] = recvBuffer[b] /\ bufIn[b] \in Seq(InPacket) /\ recvBuffer[b] \in Seq(InPacket)
      BY <1>2 DEF TypeOK
    <2> QED BY <1>2, <1>6, <2>1 DEF ArrivalsInv, ArrivalInv
  <1>8. ArrivalInv(a)'
    <2> DEFINE old == recvBuffer[a]
               new == Append(old, packet)
    <2>1. old \in Seq(InPacket) /\ bufIn[a] \in Seq(InPacket) /\ recvBuffer'[a] = new
      BY <1>2 DEF TypeOK
    <2>2. /\ DOMAIN new = 1 .. Len(old) + 1 /\ DOMAIN old = 1 .. Len(old) /\ Len(old) \in Nat
          /\ \A i \in DOMAIN old : new[i] = old[i]
          /\ new[Len(old) + 1] = packet
      BY <1>1, <2>1, AppendProperties
    <2>3. Waiting(bufIn[a], a, delivered, arrived) /\ Waiting(old, a, delivered, arrived) /\ Before(bufIn[a], old)
      BY DEF ArrivalsInv, ArrivalInv
    <2> HIDE DEF old, new
    <2>4. \A i \in DOMAIN new : (i \in DOMAIN old /\ new[i] = old[i]) \/ (i = Len(old) + 1 /\ new[i] = packet)
      BY <2>2
    <2>5. Waiting(bufIn[a], a, delivered, arrived') /\ Waiting(old, a, delivered, arrived')
      BY <1>6, <2>1, <2>3
    <2>6. Waiting(new, a, delivered, arrived')
      <3>1. \A i \in DOMAIN new : new[i].via = a /\ new[i].n < arrived'
        BY <1>1, <1>2, <1>3, <2>4, <2>5 DEF Waiting
      <3>2. ASSUME NEW i \in DOMAIN new, NEW j \in DOMAIN new, i < j PROVE new[i].n < new[j].n
        <4>1. i \in DOMAIN old /\ new[i] = old[i]
          BY <2>2, <2>4, <3>2
        <4> QED BY <1>1, <2>3, <2>4, <3>2, <4>1 DEF Waiting
      <3>3. \A i \in DOMAIN delivered, j \in DOMAIN new :
               delivered[i].via = a /\ delivered[i].channel = new[j].channel => delivered[i].n < new[j].n
        BY <1>1, <2>3, <2>4 DEF Waiting, ArrivalsInv, Returned
      <3> QED BY <3>1, <3>2, <3>3 DEF Waiting
    <2>7. Before(bufIn[a], new)
      BY <1>1, <2>3, <2>4 DEF Before, Waiting
    <2> QED BY <1>2, <2>1, <2>5, <2>6, <2>7 DEF ArrivalInv
  <1> QED
    BY <1>2, <1>5, <1>7, <1>8 DEF ArrivalsInv

\* A call of recvfrom starts: what it takes out of the entries' buffers.
LEMMA RecvStartWaits ==
    ASSUME TypeOK, ArrivalsInv, NEW api \in {"recvfrom", "peek"}, NEW channel \in Channels, RecvStart(api, channel)
    PROVE  ArrivalsInv'
  <1> DEFINE found == FirstWith(api, channel)
  <1>1. CASE Fail("dangling")
    BY <1>1 DEF Fail, ArrivalsInv, ArrivalInv, connVars, entryVars, histVars
  <1>2. CASE /\ bufIn' \in [Addrs -> Seq(InPacket)]
             /\ \A b \in Addrs : bufIn'[b] \in {bufIn[b], Remaining(bufIn[b], api, channel)}
             /\ \A b \in found : bufIn'[b] = Remaining(bufIn[b], api, channel)
             /\ IF found = {} THEN UNCHANGED delivered ELSE \E a \in found : Return(a, bufIn[a], api, channel)
             /\ UNCHANGED <<recvBuffer, arrived>>
    <2>1. ASSUME NEW b \in Addrs
          PROVE  /\ Waiting(bufIn'[b], b, delivered, arrived)
                 /\ Waiting(recvBuffer[b], b, delivered, arrived)
                 /\ Before(bufIn'[b], recvBuffer[b])
      <3>1. bufIn[b] \in Seq(InPacket)
        BY DEF TypeOK
      <3> QED BY <1>2, <3>1, RemainingWaits DEF ArrivalsInv, ArrivalInv
    <2>2. CASE delivered' = delivered
      BY <1>2, <2>1, <2>2 DEF ArrivalsInv, ArrivalInv
    <2>3. CASE delivered' # delivered
      <3>1. PICK a \in found : Return(a, bufIn[a], api, channel)
        BY <1>2, <2>3
      <3>2. /\ a \in Addrs /\ HasMessage(bufIn[a], channel) /\ api # "peek"
            /\ delivered' = Append(delivered, bufIn[a][Ready(bufIn[a], channel)])
        BY <2>3, <3>1 DEF FirstWith, Return, TypeOK
      <3>3. /\ bufIn[a] \in Seq(InPacket) /\ delivered \in Seq(InPacket) /\ arrived \in Nat
            /\ Returned(delivered, arrived)
            /\ Waiting(bufIn[a], a, delivered, arrived)
            /\ Waiting(recvBuffer[a], a, delivered, arrived) /\ Before(bufIn[a], recvBuffer[a])
        BY <3>2 DEF ArrivalsInv, ArrivalInv, TypeOK
      <3>4. /\ Returned(delivered', arrived)
            /\ Waiting(Remaining(bufIn[a], api, channel), a, delivered', arrived)
            /\ Waiting(recvBuffer[a], a, delivered', arrived)
            /\ \A b, other : b # a /\ Waiting(other, b, delivered, arrived) => Waiting(other, b, delivered', arrived)
        BY <3>2, <3>3, ReturnInOrder
      <3>5. ASSUME NEW b \in Addrs PROVE ArrivalInv(b)'
        <4>1. CASE b = a
          BY <1>2, <2>1, <3>4, <4>1 DEF ArrivalInv
        <4>2. CASE b # a
          BY <1>2, <2>1, <3>4, <4>2 DEF ArrivalInv
        <4> QED BY <4>1, <4>2
      <3> QED BY <1>2, <3>4, <3>5 DEF ArrivalsInv
    <2> QED BY <2>2, <2>3
  <1>3. \/ Fail("dangling")
        \/ /\ bufIn' = [a \in Addrs |-> IF a \in {b \in datagrams : \A c \in found : b <= c}
                                        THEN Remaining(bufIn[a], api, channel) ELSE bufIn[a]]
           /\ IF found = {} THEN UNCHANGED delivered ELSE \E a \in found : Return(a, bufIn[a], api, channel)
           /\ UNCHANGED <<recvBuffer, arrived>>
    BY DEF RecvStart, connVars
  <1>4. \A b \in found : b \in {a \in datagrams : \A c \in found : a <= c} /\ b \in Addrs
    BY DEF FirstWith, TypeOK
  <1>5. \A b \in Addrs : Remaining(bufIn[b], api, channel) \in Seq(InPacket) /\ bufIn[b] \in Seq(InPacket)
    BY RemainingIsPart DEF TypeOK
  <1> QED
    BY <1>1, <1>2, <1>3, <1>4, <1>5

\* A connection is read into its entry.
LEMMA PollDataWaits ==
    ASSUME TypeOK, ArrivalsInv, PollData
    PROVE  ArrivalsInv'
  <1>1. PICK a \in pendingData :
           LET read == IF status[a] = "CONNECTING" THEN << >> ELSE recvBuffer[a]
               in   == bufIn[a] \o read
           IN  /\ bufIn' = [bufIn EXCEPT ![a] = Remaining(in, call.api, call.channel)]
               /\ IF HasMessage(in, call.channel)
                  THEN Return(a, in, call.api, call.channel)
                  ELSE UNCHANGED <<p2pconnections, delivered, call>>
               /\ recvBuffer' = [recvBuffer EXCEPT ![a] = IF status[a] = "CONNECTING" THEN @ ELSE << >>]
    BY DEF PollData
  <1> DEFINE read  == IF status[a] = "CONNECTING" THEN << >> ELSE recvBuffer[a]
             in    == bufIn[a] \o read
             later == IF status[a] = "CONNECTING" THEN recvBuffer[a] ELSE << >>
             rest  == Remaining(in, call.api, call.channel)
  <1>2. /\ a \in Addrs /\ bufIn[a] \in Seq(InPacket) /\ read \in Seq(InPacket)
        /\ delivered \in Seq(InPacket) /\ arrived \in Nat
    BY DEF TypeOK
  <1>3. /\ Waiting(bufIn[a], a, delivered, arrived) /\ Waiting(recvBuffer[a], a, delivered, arrived)
        /\ Before(bufIn[a], recvBuffer[a]) /\ Returned(delivered, arrived)
    BY <1>2 DEF ArrivalsInv, ArrivalInv
  <1>4. in \in Seq(InPacket) /\ Waiting(in, a, delivered, arrived)
    <2>1. Waiting(read, a, delivered, arrived) /\ Before(bufIn[a], read)
      BY <1>3, EmptyWaits
    <2> HIDE DEF read
    <2> QED BY <1>2, <1>3, <2>1, ConcatWaits
  <1>5. Waiting(later, a, delivered, arrived) /\ Before(in, later)
    <2>1. CASE status[a] = "CONNECTING"
      <3>1. in = bufIn[a]
        BY <1>2, <2>1, ConcatEmptySeq
      <3> HIDE DEF in
      <3> QED BY <1>3, <2>1, <3>1
    <2>2. CASE status[a] # "CONNECTING"
      BY <2>2, EmptyWaits
    <2> QED BY <2>1, <2>2
  <1>6. /\ bufIn' = [bufIn EXCEPT ![a] = rest] /\ recvBuffer' = [recvBuffer EXCEPT ![a] = later]
        /\ \/ delivered' = delivered
           \/ /\ HasMessage(in, call.channel) /\ call.api # "peek"
              /\ delivered' = Append(delivered, in[Ready(in, call.channel)])
        /\ arrived' = arrived
    BY <1>1, <1>2 DEF Return, PollData
  <1> HIDE DEF in, later, read
  <1>7. Waiting(rest, a, delivered, arrived) /\ Before(rest, later)
    BY <1>4, <1>5, RemainingWaits
  <1>8. /\ Returned(delivered', arrived)
        /\ Waiting(rest, a, delivered', arrived) /\ Waiting(later, a, delivered', arrived)
        /\ \A b, other : b # a /\ Waiting(other, b, delivered, arrived) => Waiting(other, b, delivered', arrived)
    <2>1. CASE delivered' = delivered
      BY <1>3, <1>5, <1>7, <2>1
    <2>2. CASE /\ HasMessage(in, call.channel) /\ call.api # "peek"
               /\ delivered' = Append(delivered, in[Ready(in, call.channel)])
      BY <1>2, <1>3, <1>4, <1>5, <2>2, ReturnInOrder
    <2> QED BY <1>6, <2>1, <2>2
  <1> HIDE DEF rest
  <1>9. ASSUME NEW b \in Addrs PROVE ArrivalInv(b)'
    <2>1. CASE b = a
      <3>1. bufIn'[a] = rest /\ recvBuffer'[a] = later
        BY <1>2, <1>6 DEF TypeOK
      <3> QED BY <1>6, <1>7, <1>8, <2>1, <3>1 DEF ArrivalInv
    <2>2. CASE b # a
      <3>1. bufIn'[b] = bufIn[b] /\ recvBuffer'[b] = recvBuffer[b]
        BY <1>6, <2>2 DEF TypeOK
      <3> QED BY <1>6, <1>8, <2>2, <3>1 DEF ArrivalsInv, ArrivalInv
    <2> QED BY <2>1, <2>2
  <1> QED
    BY <1>6, <1>8, <1>9 DEF ArrivalsInv

\* Every call and callback keeps the invariant.
LEMMA ArrivalsStep ==
    ASSUME TypeOK, ArrivalsInv, [Next]_vars
    PROVE  ArrivalsInv'
  <1>0. ASSUME UNCHANGED <<delivered, arrived>>,
               \A a \in Addrs : /\ bufIn'[a] \in {bufIn[a], << >>}
                                /\ recvBuffer'[a] \in {recvBuffer[a], << >>}
        PROVE  ArrivalsInv'
    BY <1>0, EmptyWaits DEF ArrivalsInv, ArrivalInv
  <1>1. ASSUME UNCHANGED <<bufIn, recvBuffer, delivered, arrived>> PROVE ArrivalsInv'
    BY <1>1 DEF ArrivalsInv, ArrivalInv
  <1>2. ASSUME NEW p \in Peers, SendtoClosed(p) PROVE ArrivalsInv'
    BY <1>0, <1>2 DEF SendtoClosed, ConnectionClose, TypeOK, entryVars
  <1>3. ASSUME NEW p \in Peers, NEW mode, NEW size \in Sizes,
               SendtoOpen(p, mode, size) \/ SendtoNew(p, mode, size)
        PROVE  ArrivalsInv'
    BY <1>1, <1>3 DEF SendtoOpen, SendtoNew, DatagramSend, connVars
  <1>4. CASE PollClosed
    <2>1. PICK a \in remoteClosed :
             \/ UNCHANGED <<bufIn, recvBuffer, delivered, arrived>>
             \/ /\ EraseEntry(a) /\ UNCHANGED <<delivered, arrived>>
                /\ ConnectionClose(a) \/ UNCHANGED recvBuffer
      BY <1>4 DEF PollClosed, Fail, connVars, entryVars, histVars
    <2> QED BY <1>0, <1>1, <2>1 DEF EraseEntry, ConnectionClose, TypeOK
  <1>5. CASE PollNothing
    BY <1>1, <1>5 DEF PollNothing, connVars, entryVars, histVars
  <1>6. ASSUME NEW S \in SUBSET Peers, Disconnect(S) PROVE ArrivalsInv'
    BY <1>1, <1>6 DEF Disconnect, entryVars, histVars
  <1>7. ASSUME NEW a \in Addrs, NEW p \in Peers, P2POffer(a, p) PROVE ArrivalsInv'
    BY <1>1, <1>7 DEF P2POffer, entryVars, histVars
  <1>8. ASSUME NEW a \in Addrs, OnConnect(a) \/ OnChannel(a) \/ ChannelClosed(a) \/ OnDisconnect(a)
        PROVE  ArrivalsInv'
    BY <1>1, <1>8 DEF OnConnect, OnChannel, ChannelClosed, OnDisconnect, entryVars, histVars
  <1>9. CASE UNCHANGED vars
    BY <1>1, <1>9 DEF vars, connVars, entryVars, histVars
  <1> QED
    BY <1>2, <1>3, <1>4, <1>5, <1>6, <1>7, <1>8, <1>9, RecvStartWaits, PollDataWaits, ArriveWaits
    DEF Next, Sendto, Recv, Poll, Callback, OnData, P2PRelayData

\* recvfrom returns the messages of one connection and channel once each, in
\* the order they arrived, however calls for different channels, peeks, reads
\* and reconnections alternate.
THEOREM DeliveredCorrect == Spec => []DeliveredInOrder
  <1>1. Init => ArrivalsInv
    BY EmptyWaits DEF Init, ArrivalsInv, ArrivalInv, Returned
  <1>2. TypeOK /\ ArrivalsInv /\ [Next]_vars => TypeOK' /\ ArrivalsInv'
    BY TypeStep, ArrivalsStep
  <1>3. ArrivalsInv => DeliveredInOrder
    BY DEF ArrivalsInv, Returned, DeliveredInOrder
  <1> QED
    BY <1>1, <1>2, <1>3, InitType, PTL DEF Spec
=============================================================================
