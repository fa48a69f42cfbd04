------------------------ MODULE DatagramsReadingProofs ------------------------
(***************************************************************************)
(* Theorems about what recvfrom and peek find: the bytes that              *)
(* datagram_get_message counts, the messages a call leaves unread, and     *)
(* where a message that arrived can go.                                    *)
(***************************************************************************)
EXTENDS DatagramsProofs

-----------------------------------------------------------------------------
(* The bytes of a buffer *)

\* A set with 0 and the successor of each of its members has all numbers.
LEMMA Induction ==
    ASSUME NEW T \in SUBSET Nat, 0 \in T, \A n \in T : n + 1 \in T
    PROVE  T = Nat
  <1> SUFFICES ASSUME Nat \ T # {} PROVE FALSE
    OBVIOUS
  <1>1. PICK x \in Nat \ T : \A y \in Nat \ T : x <= y
    BY Smallest
  <1>2. x # 0 /\ x - 1 \in Nat /\ (x - 1) + 1 = x
    BY <1>1
  <1>3. x - 1 \in T
    BY <1>1, <1>2
  <1> QED
    BY <1>1, <1>2, <1>3

\* Buffers of packets that have a length.
Packets == {packets \in Seq(InPacket \cup OutPacket) : \A k \in DOMAIN packets : packets[k].size \in Nat}

\* f counts the bytes of the first k packets, for each k.
Counts(f, packets) ==
    /\ DOMAIN f = 0 .. Len(packets)
    /\ f[0] = 0
    /\ \A k \in 1 .. Len(packets) : f[k] = f[k - 1] + HeaderSize + packets[k].size

\* There are such counts.
LEMMA CountsExist ==
    ASSUME NEW packets \in Packets
    PROVE  \E f \in [0 .. Len(packets) -> Nat] : Counts(f, packets)
  <1> USE DatagramAssumption
  <1> DEFINE n == Len(packets)
             Partial(m, f) == f[0] = 0 /\ \A k \in 1 .. m : f[k] = f[k - 1] + HeaderSize + packets[k].size
             T == {m \in Nat : m <= n => \E f \in [0 .. m -> Nat] : Partial(m, f)}
  <1>1. n \in Nat /\ \A k \in 1 .. n : packets[k].size \in Nat
    BY DEF Packets
  <1>2. 0 \in T
    <2> DEFINE g == [k \in 0 .. 0 |-> 0]
    <2>1. g \in [0 .. 0 -> Nat] /\ Partial(0, g)
      OBVIOUS
    <2> QED BY <2>1
  <1>3. ASSUME NEW m \in Nat, m + 1 <= n, \E f \in [0 .. m -> Nat] : Partial(m, f)
        PROVE  \E f \in [0 .. m + 1 -> Nat] : Partial(m + 1, f)
    <2>1. PICK f \in [0 .. m -> Nat] : Partial(m, f)
      BY <1>3
    <2> DEFINE g == [k \in 0 .. m + 1 |-> IF k <= m THEN f[k] ELSE f[m] + HeaderSize + packets[m + 1].size]
    <2>2. packets[m + 1].size \in Nat /\ f[m] \in Nat
      BY <1>1, <1>3
    <2>3. g \in [0 .. m + 1 -> Nat]
      BY <2>2
    <2>4. ASSUME NEW k \in 1 .. m + 1 PROVE g[k] = g[k - 1] + HeaderSize + packets[k].size
      BY <2>1, <2>2
    <2>5. g[0] = 0
      BY <2>1, <2>2
    <2> HIDE DEF g
    <2> QED BY <2>3, <2>4, <2>5
  <1>4. T = Nat
    <2> HIDE DEF Partial
    <2>1. ASSUME NEW m \in T PROVE m + 1 \in T
      <3>1. m \in Nat /\ m + 1 \in Nat /\ (m + 1 <= n => m <= n)
        BY <1>1
      <3>2. m + 1 <= n => \E f \in [0 .. m + 1 -> Nat] : Partial(m + 1, f)
        BY <1>3, <3>1
      <3> QED BY <3>1, <3>2
    <2> HIDE DEF T
    <2>2. T \in SUBSET Nat
      BY DEF T
    <2> QED BY <1>2, <2>1, <2>2, Induction
  <1>5. n \in T
    BY <1>1, <1>4
  <1> HIDE DEF Partial
  <1>6. PICK f \in [0 .. n -> Nat] : Partial(n, f)
    BY <1>1, <1>5
  <1> QED
    BY <1>6 DEF Counts, Partial

\* The counts of a buffer are the same however they are made.
LEMMA CountsAgree ==
    ASSUME NEW packets, Len(packets) \in Nat, NEW f, NEW g, Counts(f, packets), Counts(g, packets)
    PROVE  f[Len(packets)] = g[Len(packets)]
  <1> DEFINE T == {k \in Nat : k <= Len(packets) => f[k] = g[k]}
  <1>1. 0 \in T
    BY DEF Counts
  <1>2. ASSUME NEW k \in T PROVE k + 1 \in T
    <2> SUFFICES ASSUME k + 1 <= Len(packets) PROVE f[k + 1] = g[k + 1]
      OBVIOUS
    <2>1. k + 1 \in 1 .. Len(packets) /\ (k + 1) - 1 = k /\ f[k] = g[k]
      OBVIOUS
    <2> QED BY <2>1 DEF Counts
  <1> HIDE DEF T
  <1>3. T = Nat
    BY <1>1, <1>2, Induction DEF T
  <1> QED
    BY <1>3 DEF T

\* Bytes is what every count arrives at.
LEMMA BytesAreCounted ==
    ASSUME NEW packets \in Packets
    PROVE  /\ \E f \in [0 .. Len(packets) -> Nat] : Counts(f, packets)
           /\ \A f : Counts(f, packets) => Bytes(packets) = f[Len(packets)]
           /\ Bytes(packets) \in Nat
  <1> DEFINE n == Len(packets)
             upTo == CHOOSE f : f = [k \in 0 .. n |->
                        IF k = 0 THEN 0 ELSE f[k - 1] + HeaderSize + packets[k].size]
  <1>1. Bytes(packets) = upTo[n]
    BY DEF Bytes
  <1>2. PICK f \in [0 .. n -> Nat] : Counts(f, packets)
    BY CountsExist
  <1>3. f = [k \in 0 .. n |-> IF k = 0 THEN 0 ELSE f[k - 1] + HeaderSize + packets[k].size]
    BY <1>2 DEF Counts, Packets
  <1>4. upTo = [k \in 0 .. n |-> IF k = 0 THEN 0 ELSE upTo[k - 1] + HeaderSize + packets[k].size]
    BY <1>3
  <1> HIDE DEF upTo
  <1>5. n \in Nat
    BY DEF Packets
  <1>6. Counts(upTo, packets)
    BY <1>4, <1>5 DEF Counts
  <1>7. \A g : Counts(g, packets) => g[n] = upTo[n]
    BY <1>5, <1>6, CountsAgree
  <1>8. upTo[n] \in Nat
    BY <1>2, <1>5, <1>7
  <1> QED
    BY <1>1, <1>2, <1>7, <1>8

\* Buffers add up.
LEMMA BytesOfConcat ==
    ASSUME NEW s \in Packets, NEW t \in Packets
    PROVE  s \o t \in Packets /\ Bytes(s \o t) = Bytes(s) + Bytes(t)
  <1> USE DatagramAssumption
  <1>1. /\ Len(s) \in Nat /\ Len(t) \in Nat /\ Len(s \o t) = Len(s) + Len(t)
        /\ \A k \in 1 .. Len(s) + Len(t) : (s \o t)[k] = IF k <= Len(s) THEN s[k] ELSE t[k - Len(s)]
        /\ s \o t \in Seq(InPacket \cup OutPacket)
    BY ConcatProperties DEF Packets
  <1>2. /\ \A k \in 1 .. Len(s) : s[k].size \in Nat
        /\ \A k \in 1 .. Len(t) : t[k].size \in Nat
    BY DEF Packets
  <1>3. s \o t \in Packets
    <2>2. DOMAIN (s \o t) = 1 .. Len(s) + Len(t)
      BY <1>1
    <2>1. \A k \in DOMAIN (s \o t) : IF k <= Len(s) THEN k \in 1 .. Len(s) ELSE k - Len(s) \in 1 .. Len(t)
      BY <1>1, <2>2
    <2>3. \A k \in DOMAIN (s \o t) : (s \o t)[k].size \in Nat
      BY <1>1, <1>2, <2>1, <2>2
    <2> QED BY <1>1, <2>3 DEF Packets
  <1>4. PICK f \in [0 .. Len(s) -> Nat] : Counts(f, s) /\ Bytes(s) = f[Len(s)]
    BY BytesAreCounted
  <1>5. PICK g \in [0 .. Len(t) -> Nat] : Counts(g, t) /\ Bytes(t) = g[Len(t)]
    BY BytesAreCounted
  <1>0. f[Len(s)] \in Nat /\ \A k \in 0 .. Len(t) : g[k] \in Nat
    <2>1. Len(s) \in 0 .. Len(s)
      BY <1>1
    <2> QED BY <2>1
  <1> DEFINE h == [k \in 0 .. Len(s) + Len(t) |->
                     IF k <= Len(s) THEN f[k] ELSE f[Len(s)] + g[k - Len(s)]]
  <1>6. ASSUME NEW k \in 1 .. Len(s) + Len(t)
        PROVE  h[k] = h[k - 1] + HeaderSize + (s \o t)[k].size
    <2>1. CASE k <= Len(s)
      BY <1>1, <1>4, <2>1 DEF Counts
    <2>2. CASE k = Len(s) + 1
      <3>1. /\ h[k] = f[Len(s)] + g[1] /\ h[k - 1] = f[Len(s)] /\ (s \o t)[k] = t[1]
            /\ 1 \in 1 .. Len(t) /\ 1 - 1 = 0
        BY <1>1, <2>2
      <3>2. g[0] = 0 /\ g[1] = g[0] + HeaderSize + t[1].size
        BY <1>5, <3>1 DEF Counts
      <3>4. t[1].size \in Nat
        BY <1>2, <3>1
      <3> HIDE DEF h
      <3>5. HeaderSize \in Nat
        OBVIOUS
      <3> QED BY <1>0, <3>1, <3>2, <3>4, <3>5
    <2>3. CASE k > Len(s) + 1
      <3> DEFINE j == k - Len(s)
      <3>1. /\ h[k] = f[Len(s)] + g[j] /\ h[k - 1] = f[Len(s)] + g[j - 1] /\ (s \o t)[k] = t[j]
            /\ j \in 1 .. Len(t) /\ j - 1 \in 0 .. Len(t)
        BY <1>1, <2>3
      <3> HIDE DEF j
      <3>2. g[j] = g[j - 1] + HeaderSize + t[j].size
        BY <1>5, <3>1 DEF Counts
      <3>3. t[j].size \in Nat /\ g[j - 1] \in Nat
        BY <1>0, <1>2, <3>1
      <3> HIDE DEF h
      <3>5. HeaderSize \in Nat
        OBVIOUS
      <3> DEFINE before == f[Len(s)]
                 below == g[j - 1]
                 size == t[j].size
      <3>6. before \in Nat /\ below \in Nat /\ size \in Nat
        BY <1>0, <3>3
      <3>7. h[k] = before + (below + HeaderSize + size)
        BY <3>1, <3>2
      <3>8. h[k] = f[Len(s)] + g[j - 1] + HeaderSize + t[j].size
        <4> HIDE DEF before, below, size
        <4>1. h[k] = before + below + HeaderSize + size
          BY <3>5, <3>6, <3>7
        <4> QED BY <4>1 DEF before, below, size
      <3> QED BY <3>1, <3>8
    <2> QED BY <1>1, <2>1, <2>2, <2>3
  <1>7. h[0] = 0 /\ DOMAIN h = 0 .. Len(s \o t)
    BY <1>1, <1>4 DEF Counts
  <1>8. h[Len(s) + Len(t)] = f[Len(s)] + g[Len(t)]
    BY <1>1, <1>4, <1>5 DEF Counts
  <1> HIDE DEF h
  <1>9. Counts(h, s \o t)
    BY <1>1, <1>6, <1>7 DEF Counts
  <1>10. Bytes(s \o t) = h[Len(s \o t)]
    BY <1>3, <1>9, BytesAreCounted
  <1> QED
    BY <1>1, <1>3, <1>4, <1>5, <1>8, <1>10

\* A single packet is its header and its message.
LEMMA BytesOfOne ==
    ASSUME NEW packet \in InPacket \cup OutPacket, packet.size \in Nat
    PROVE  <<packet>> \in Packets /\ Bytes(<<packet>>) = HeaderSize + packet.size
  <1> USE DatagramAssumption
  <1> DEFINE f == [k \in 0 .. 1 |-> IF k = 0 THEN 0 ELSE HeaderSize + packet.size]
  <1>1. <<packet>> \in Packets
    BY DEF Packets
  <1>2. Counts(f, <<packet>>)
    BY DEF Counts
  <1>3. Bytes(<<packet>>) = f[1]
    BY <1>1, <1>2, BytesAreCounted
  <1> QED
    BY <1>1, <1>3

-----------------------------------------------------------------------------
(* datagram_get_message finds what is there *)

\* Buffers of messages that have a length.
Positive(in) == \A k \in DOMAIN in : in[k].size > 0

\* The packets that arrive have a length, so that Bytes can be told of them.
LEMMA InPackets == Seq(InPacket) \subseteq Packets
  <1> SUFFICES ASSUME NEW in \in Seq(InPacket) PROVE in \in Packets
    OBVIOUS
  <1>1. in \in Seq(InPacket \cup OutPacket)
    BY SeqMonotonic
  <1>2. \A k \in DOMAIN in : in[k] \in InPacket
    OBVIOUS
  <1> QED
    BY <1>1, <1>2 DEF Packets, InPacket

\* As long as the bytes of the buffer fit the uint16_t, the walk goes past
\* every packet of a message that is not empty.
LEMMA SeesAll ==
    ASSUME NEW in \in Seq(InPacket), Positive(in), Bytes(in) < SizeModulus, NEW k \in DOMAIN in
    PROVE  SeesWhole(in, k)
  <1> USE DatagramAssumption
  <1> DEFINE n == Len(in)
             before == SubSeq(in, 1, k - 1)
             rest   == SubSeq(in, k, n)
             after  == SubSeq(in, k + 1, n)
             packet == in[k]
  <1>1. n \in Nat /\ k \in 1 .. n /\ packet \in InPacket /\ packet.size \in Nat /\ packet.size > 0
    <2>1. n \in Nat /\ k \in 1 .. n /\ packet \in InPacket
      OBVIOUS
    <2>2. packet.size > 0
      BY DEF Positive
    <2> QED BY <2>1, <2>2 DEF InPacket
  <1>2. before \in Packets /\ rest \in Packets /\ after \in Packets /\ packet \in InPacket \cup OutPacket
    <2>1. before \in Seq(InPacket) /\ rest \in Seq(InPacket) /\ after \in Seq(InPacket)
      BY <1>1, SubSeqProperties
    <2> QED BY <1>1, <2>1, InPackets
  <1>3. in = before \o rest
    <2>1. in = SubSeq(in, 1, n)
      BY SubSeqFull
    <2>2. k - 1 \in 1 - 1 .. Len(in) /\ (k - 1) + 1 = k /\ 1 \in 1 .. Len(in) + 1 /\ n \in k - 1 .. Len(in)
      BY <1>1
    <2>3. SubSeq(in, 1, k - 1) \o SubSeq(in, (k - 1) + 1, n) = SubSeq(in, 1, n)
      BY <2>2, ConcatAdjacentSubSeq
    <2> QED BY <2>1, <2>2, <2>3
  <1>4. rest = <<packet>> \o after
    <2>1. k \in 1 .. Len(in) /\ n \in k .. Len(in)
      BY <1>1
    <2> QED BY <2>1, SubSeqRecursiveFirst
  <1> HIDE DEF before, rest, after, packet, n
  <1>5. /\ Bytes(in) = Bytes(before) + Bytes(rest)
        /\ Bytes(rest) = HeaderSize + packet.size + Bytes(after)
    <2>1. <<packet>> \in Packets /\ Bytes(<<packet>>) = HeaderSize + packet.size
      BY <1>1, <1>2, BytesOfOne
    <2> QED BY <1>2, <1>3, <1>4, <2>1, BytesOfConcat
  <1>6. Bytes(before) \in Nat /\ Bytes(rest) \in Nat /\ Bytes(after) \in Nat
    BY <1>2, BytesAreCounted
  <1>7. Bytes(rest) < SizeModulus
    BY <1>5, <1>6
  <1>8. Available(in, k) = Bytes(rest)
    BY <1>6, <1>7 DEF Available, rest, n
  <1> QED
    BY <1>1, <1>5, <1>6, <1>8 DEF SeesWhole, packet

\* Then datagram_get_message returns a message of the channel if there is one,
\* and leaves the buffer as it is if there is none.
LEMMA NothingOverlooked ==
    ASSUME NEW in \in Seq(InPacket), Positive(in), Bytes(in) < SizeModulus,
           NEW channel, ~ HasMessage(in, channel)
    PROVE  /\ \A k \in DOMAIN in : in[k].channel # channel
           /\ \A api : Remaining(in, api, channel) = in
  <1> DEFINE reached == {k \in DOMAIN in : in[k].channel = channel /\ \A j \in 1 .. k : SeesWhole(in, j)}
  <1>1. Len(in) \in Nat /\ DOMAIN in = 1 .. Len(in)
    OBVIOUS
  <1>2. Ready(in, channel) = 0
    <2>1. Ready(in, channel) # 0 => Ready(in, channel) \in DOMAIN in
      BY ReadyIsFirst
    <2> QED BY <2>1 DEF HasMessage, Positive
  <1>3. reached = {}
    <2> SUFFICES ASSUME reached # {} PROVE FALSE
      OBVIOUS
    <2>1. reached \in SUBSET Nat
      BY <1>1
    <2>2. \E k \in reached : \A j \in reached : k <= j
      BY <2>1, Smallest
    <2>3. Ready(in, channel) \in reached
      BY <2>2 DEF Ready
    <2> QED BY <1>1, <1>2, <2>3
  <1>4. ASSUME NEW k \in DOMAIN in, in[k].channel = channel PROVE FALSE
    <2>1. \A j \in 1 .. k : SeesWhole(in, j)
      BY <1>1, SeesAll
    <2> QED BY <1>3, <1>4, <2>1
  <1> QED
    BY <1>2, <1>4 DEF Remaining

\* Buffers of packets with a length, one behind the other.
LEMMA ConcatPositive ==
    ASSUME NEW s \in Seq(InPacket), NEW t \in Seq(InPacket), Positive(s), Positive(t)
    PROVE  Positive(s \o t)
  <1>1. /\ Len(s) \in Nat /\ Len(t) \in Nat /\ DOMAIN (s \o t) = 1 .. Len(s) + Len(t)
        /\ \A i \in 1 .. Len(s) + Len(t) : (s \o t)[i] = IF i <= Len(s) THEN s[i] ELSE t[i - Len(s)]
    BY ConcatProperties
  <1>2. \A i \in 1 .. Len(s) + Len(t) : IF i <= Len(s) THEN i \in DOMAIN s ELSE i - Len(s) \in DOMAIN t
    BY <1>1
  <1> QED
    BY <1>1, <1>2 DEF Positive

\* What datagram_get_message leaves is part of the buffer.
LEMMA RemainingPositive ==
    ASSUME NEW in \in Seq(InPacket), Positive(in), NEW api, NEW channel
    PROVE  Positive(Remaining(in, api, channel))
  BY RemainingIsPart DEF Positive

-----------------------------------------------------------------------------
(* A call that returns nothing has missed nothing *)

\* The peers' messages are not empty: an empty one counts as none when it is
\* taken out, and the call does not look behind it.
NoEmptyMessages == 0 \notin Sizes

\* No connection has a backlog of 64 KiB, read or unread.
BacklogFits == \A a \in Addrs : Bytes(bufIn[a] \o recvBuffer[a]) < SizeModulus

\* The inductive invariant: there is a buffer only where there is an entry,
\* no packet is empty, and while a call polls, what is in the buffers has been
\* searched and is of other channels.
SearchedInv ==
    /\ \A a \in Addrs : a \notin datagrams => bufIn[a] = << >>
    /\ \A a \in Addrs : Positive(bufIn[a]) /\ Positive(recvBuffer[a])
    /\ call # Idle => \A a \in Addrs : \A k \in DOMAIN bufIn[a] : bufIn[a][k].channel # call.channel

\* The backlog that is read fits if all of it does.
LEMMA BufferFits ==
    ASSUME TypeOK, BacklogFits, NEW a \in Addrs
    PROVE  Bytes(bufIn[a]) < SizeModulus
  <1>1. bufIn[a] \in Packets /\ recvBuffer[a] \in Packets
    BY InPackets DEF TypeOK
  <1>2. Bytes(bufIn[a]) \in Nat /\ Bytes(recvBuffer[a]) \in Nat
    BY <1>1, BytesAreCounted
  <1>3. Bytes(bufIn[a] \o recvBuffer[a]) = Bytes(bufIn[a]) + Bytes(recvBuffer[a])
    BY <1>1, BytesOfConcat
  <1> QED
    BY <1>2, <1>3, DatagramAssumption DEF BacklogFits

\* A message that arrives is not empty.
LEMMA ArriveSearched ==
    ASSUME NoEmptyMessages, TypeOK, SearchedInv,
           NEW a \in Addrs, NEW channel \in Channels, NEW size \in Sizes, Arrive(a, channel, size)
    PROVE  SearchedInv'
  <1> DEFINE packet == [n |-> arrived, channel |-> channel, size |-> size, via |-> a]
  <1>1. /\ recvBuffer' = [recvBuffer EXCEPT ![a] = Append(@, packet)]
        /\ call = Idle /\ UNCHANGED <<datagrams, bufIn, call>>
    BY DEF Arrive, Running, entryVars
  <1>2. packet.size > 0 /\ packet \in InPacket
    BY DatagramAssumption DEF NoEmptyMessages, InPacket, TypeOK
  <1> HIDE DEF packet
  <1>3. \A b \in Addrs : recvBuffer[b] \in Seq(InPacket)
    BY DEF TypeOK
  <1>4. Positive(Append(recvBuffer[a], packet))
    <2>1. Positive(recvBuffer[a])
      BY DEF SearchedInv
    <2> QED BY <1>2, <1>3, <2>1, AppendProperties DEF Positive
  <1>5. \A b \in Addrs : recvBuffer'[b] = IF b = a THEN Append(recvBuffer[a], packet) ELSE recvBuffer[b]
    BY <1>1 DEF TypeOK
  <1> QED
    BY <1>1, <1>4, <1>5 DEF SearchedInv

\* A call begins: either it returns a message, or no entry has one.
LEMMA RecvStartSearched ==
    ASSUME TypeOK, BacklogFits, SearchedInv,
           NEW api \in {"recvfrom", "peek"}, NEW channel \in Channels, RecvStart(api, channel)
    PROVE  SearchedInv'
  <1> DEFINE found == FirstWith(api, channel)
             upTo  == {a \in datagrams : \A b \in found : a <= b}
  <1>1. CASE Fail("dangling")
    BY <1>1 DEF Fail, SearchedInv, connVars, entryVars
  <1>2. CASE /\ bufIn' = [a \in Addrs |-> IF a \in upTo THEN Remaining(bufIn[a], api, channel) ELSE bufIn[a]]
             /\ IF found = {} THEN call' = [api |-> api, channel |-> channel]
                              ELSE \E a \in found : Return(a, bufIn[a], api, channel)
             /\ UNCHANGED <<recvBuffer, datagrams>>
    <2>1. \A a \in Addrs : bufIn[a] \in Seq(InPacket) /\ Bytes(bufIn[a]) < SizeModulus
      BY BufferFits DEF TypeOK
    <2>2. \A a \in Addrs : Positive(bufIn'[a])
      BY <1>2, <2>1, RemainingPositive DEF SearchedInv
    <2>3. \A a \in Addrs : a \notin datagrams' => bufIn'[a] = << >>
      BY <1>2 DEF SearchedInv
    <2>4. CASE found # {}
      <3>1. call' = Idle
        BY <1>2, <2>4 DEF Return
      <3> QED BY <1>2, <2>2, <2>3, <3>1 DEF SearchedInv
    <2>5. CASE found = {}
      <3>1. \A a \in datagrams : ~ HasMessage(bufIn[a], channel)
        <4> DEFINE with == {a \in datagrams : HasMessage(bufIn[a], channel)}
        <4>1. with \in SUBSET Nat
          BY DatagramAssumption DEF TypeOK
        <4>2. with # {} => \E x \in with : \A y \in with : x <= y
          BY <4>1, Smallest
        <4> QED BY <2>5, <4>2 DEF FirstWith
      <3>2. \A a \in Addrs : bufIn'[a] = bufIn[a] /\ \A k \in DOMAIN bufIn[a] : bufIn[a][k].channel # channel
        <4> SUFFICES ASSUME NEW a \in Addrs
                     PROVE  bufIn'[a] = bufIn[a] /\ \A k \in DOMAIN bufIn[a] : bufIn[a][k].channel # channel
          OBVIOUS
        <4>1. CASE a \in datagrams
          BY <1>2, <2>1, <3>1, <4>1, NothingOverlooked DEF SearchedInv
        <4>2. CASE a \notin datagrams
          BY <1>2, <4>2 DEF SearchedInv
        <4> QED BY <4>1, <4>2
      <3>3. call'.channel = channel
        BY <1>2, <2>5
      <3> QED BY <1>2, <2>2, <2>3, <3>2, <3>3 DEF SearchedInv
    <2> QED BY <2>4, <2>5
  <1> QED
    BY <1>1, <1>2 DEF RecvStart, connVars

\* A round of the loop reads a connection: either the call returns a message
\* of it, or all that is read is of other channels.
LEMMA PollDataSearched ==
    ASSUME TypeOK, BacklogFits, SearchedInv, PollData
    PROVE  SearchedInv'
  <1>1. PICK a \in pendingData :
           LET read == IF status[a] = "CONNECTING" THEN << >> ELSE recvBuffer[a]
               in   == bufIn[a] \o read
           IN  /\ datagrams' = datagrams \cup {a}
               /\ bufIn' = [bufIn EXCEPT ![a] = Remaining(in, call.api, call.channel)]
               /\ IF HasMessage(in, call.channel)
                  THEN Return(a, in, call.api, call.channel)
                  ELSE UNCHANGED <<p2pconnections, delivered, call>>
               /\ recvBuffer' = [recvBuffer EXCEPT ![a] = IF status[a] = "CONNECTING" THEN @ ELSE << >>]
               /\ call # Idle
    BY DEF PollData
  <1> DEFINE read == IF status[a] = "CONNECTING" THEN << >> ELSE recvBuffer[a]
             in   == bufIn[a] \o read
  <1>2. a \in Addrs /\ bufIn[a] \in Seq(InPacket) /\ recvBuffer[a] \in Seq(InPacket)
    BY DEF TypeOK
  <1>3. read \in Seq(InPacket) /\ in \in Seq(InPacket) /\ Positive(read)
    BY <1>2 DEF SearchedInv, Positive
  <1>4. Positive(in)
    <2>1. Positive(bufIn[a])
      BY <1>2 DEF SearchedInv
    <2> QED BY <1>2, <1>3, <2>1, ConcatPositive
  <1>5. Bytes(in) < SizeModulus
    <2>1. CASE status[a] = "CONNECTING"
      <3>1. in = bufIn[a]
        BY <1>2, <2>1
      <3> QED BY <1>2, <3>1, BufferFits
    <2>2. CASE status[a] # "CONNECTING"
      BY <1>2, <2>2 DEF BacklogFits
    <2> QED BY <2>1, <2>2
  <1>6. /\ datagrams' = datagrams \cup {a}
        /\ bufIn' = [bufIn EXCEPT ![a] = Remaining(in, call.api, call.channel)]
        /\ IF HasMessage(in, call.channel) THEN call' = Idle ELSE call' = call
        /\ recvBuffer' = [recvBuffer EXCEPT ![a] = IF status[a] = "CONNECTING" THEN @ ELSE << >>]
        /\ call # Idle
    BY <1>1 DEF Return
  <1> HIDE DEF in, read
  <1>7. Positive(Remaining(in, call.api, call.channel)) /\ Positive(<< >>)
    BY <1>3, <1>4, RemainingPositive DEF Positive
  <1>8. \A b \in Addrs : /\ bufIn'[b] = IF b = a THEN Remaining(in, call.api, call.channel) ELSE bufIn[b]
                         /\ recvBuffer'[b] = IF b = a /\ status[a] # "CONNECTING" THEN << >> ELSE recvBuffer[b]
    BY <1>6 DEF TypeOK
  <1>9. /\ \A b \in Addrs : Positive(bufIn'[b]) /\ Positive(recvBuffer'[b])
        /\ \A b \in Addrs : b \notin datagrams' => bufIn'[b] = << >>
    BY <1>6, <1>7, <1>8 DEF SearchedInv
  <1>10. call' # Idle => \A b \in Addrs : \A k \in DOMAIN bufIn'[b] : bufIn'[b][k].channel # call'.channel
    <2> SUFFICES ASSUME call' # Idle, NEW b \in Addrs
                 PROVE  \A k \in DOMAIN bufIn'[b] : bufIn'[b][k].channel # call'.channel
      OBVIOUS
    <2>1. call' = call /\ ~ HasMessage(in, call.channel)
      BY <1>6
    <2>2. /\ \A k \in DOMAIN in : in[k].channel # call.channel
          /\ Remaining(in, call.api, call.channel) = in
      BY <1>3, <1>4, <1>5, <2>1, NothingOverlooked
    <2>3. CASE b = a
      BY <1>8, <2>1, <2>2, <2>3
    <2>4. CASE b # a
      BY <1>6, <1>8, <2>1, <2>4 DEF SearchedInv
    <2> QED BY <2>3, <2>4
  <1> QED
    BY <1>9, <1>10 DEF SearchedInv

\* Every call and callback keeps the invariant.
LEMMA SearchedStep ==
    ASSUME NoEmptyMessages, TypeOK, BacklogFits, SearchedInv, [Next]_vars
    PROVE  SearchedInv'
  <1>0. ASSUME UNCHANGED <<bufIn, recvBuffer>>, datagrams \subseteq datagrams', call' = call \/ call' = Idle
        PROVE  SearchedInv'
    BY <1>0 DEF SearchedInv
  <1>1. ASSUME NEW a \in Addrs, ConnectionClose(a), UNCHANGED <<bufIn, datagrams>> \/ EraseEntry(a),
               call' = call \/ call' = Idle
        PROVE  SearchedInv'
    <2>1. \A b \in Addrs : recvBuffer'[b] = IF b = a THEN << >> ELSE recvBuffer[b]
      BY <1>1 DEF ConnectionClose, TypeOK
    <2>2. \A b \in Addrs : bufIn'[b] = bufIn[b] \/ bufIn'[b] = << >>
      BY <1>1 DEF EraseEntry, TypeOK
    <2>3. \A b \in Addrs : b \notin datagrams' => bufIn'[b] = << >>
      BY <1>1 DEF EraseEntry, TypeOK, SearchedInv
    <2>4. Positive(<< >>)
      BY DEF Positive
    <2> QED BY <1>1, <2>1, <2>2, <2>3, <2>4 DEF SearchedInv
  <1>2. ASSUME NEW p \in Peers, SendtoClosed(p) PROVE SearchedInv'
    BY <1>1, <1>2 DEF SendtoClosed, TypeOK, entryVars
  <1>3. ASSUME NEW p \in Peers, NEW mode, NEW size, SendtoOpen(p, mode, size) \/ SendtoNew(p, mode, size)
        PROVE  SearchedInv'
    BY <1>0, <1>3 DEF SendtoOpen, SendtoNew, DatagramSend, connVars
  <1>4. ASSUME NEW why, Fail(why) PROVE SearchedInv'
    BY <1>0, <1>4 DEF Fail, connVars, entryVars
  <1>5. CASE PollClosed
    <2>1. PICK a \in remoteClosed :
             \/ Fail("assert")
             \/ EraseEntry(a) /\ call' = Idle /\ ConnectionClose(a)
             \/ EraseEntry(a) /\ call' = Idle /\ UNCHANGED recvBuffer
      BY <1>5 DEF PollClosed, connVars
    <2>2. a \in Addrs
      BY DEF TypeOK
    <2>3. CASE EraseEntry(a) /\ call' = Idle /\ UNCHANGED recvBuffer
      <3>1. \A b \in Addrs : bufIn'[b] = bufIn[b] \/ bufIn'[b] = << >>
        BY <2>3 DEF EraseEntry, TypeOK
      <3>2. \A b \in Addrs : b \notin datagrams' => bufIn'[b] = << >>
        BY <2>3 DEF EraseEntry, TypeOK, SearchedInv
      <3>3. Positive(<< >>)
        BY DEF Positive
      <3> QED BY <2>3, <3>1, <3>2, <3>3 DEF SearchedInv
    <2> QED BY <1>1, <1>4, <2>1, <2>2, <2>3
  <1>6. CASE PollNothing
    BY <1>0, <1>6 DEF PollNothing, connVars, entryVars
  <1>7. ASSUME NEW S, Disconnect(S) PROVE SearchedInv'
    BY <1>0, <1>7 DEF Disconnect, entryVars
  <1>8. ASSUME NEW a \in Addrs, NEW p \in Peers, P2POffer(a, p) PROVE SearchedInv'
    BY <1>0, <1>8 DEF P2POffer, entryVars
  <1>9. ASSUME NEW a \in Addrs, OnConnect(a) \/ OnChannel(a) \/ ChannelClosed(a) \/ OnDisconnect(a)
        PROVE  SearchedInv'
    BY <1>0, <1>9 DEF OnConnect, OnChannel, ChannelClosed, OnDisconnect, entryVars
  <1>10. CASE UNCHANGED vars
    BY <1>0, <1>10 DEF vars, connVars, entryVars
  <1> QED
    BY <1>2, <1>3, <1>5, <1>6, <1>7, <1>8, <1>9, <1>10, ArriveSearched, RecvStartSearched, PollDataSearched
    DEF Next, Sendto, Recv, Poll, Callback, OnData, P2PRelayData

\* A recvfrom or peek that returns 0 has left no message of its channel
\* unread, behind no packets of other channels and in no connection's buffer,
\* unless a message was empty or 64 KiB of one connection were waiting.
THEOREM NothingIsMissed ==
    ASSUME NoEmptyMessages
    PROVE  Spec /\ []BacklogFits => []NothingMissed
  <1>1. Init => SearchedInv
    BY DEF Init, SearchedInv, Positive
  <1>2. TypeOK /\ SearchedInv /\ BacklogFits /\ [Next]_vars => TypeOK' /\ SearchedInv'
    BY TypeStep, SearchedStep
  <1>3. SearchedInv => NothingMissed
    BY DEF SearchedInv, NothingMissed
  <1> QED
    BY <1>1, <1>2, <1>3, InitType, PTL DEF Spec

-----------------------------------------------------------------------------
(* A message that arrived goes nowhere but to the application *)

\* The messages of a connection that the application has not been given: those
\* in its entry, and those not read from the Connection yet.
Held(a) == Range(bufIn[a]) \cup Range(recvBuffer[a])

\* A message leaves the buffers only as what recvfrom returns, whatever else a
\* call reads or searches; those of length 0 are dropped, and a connection that
\* has closed takes what it holds with it.
NothingLost ==
    [][\A a \in Addrs : \A m \in Held(a) \ Held(a)' :
          \/ delivered' = Append(delivered, m)
          \/ m.size = 0
          \/ status[a] = "CLOSED"]_vars

\* What datagram_get_message does not take out stays.
LEMMA RemainingKeeps ==
    ASSUME NEW in \in Seq(InPacket), NEW api, NEW channel, NEW m \in Range(in),
           m \notin Range(Remaining(in, api, channel))
    PROVE  api # "peek" /\ Ready(in, channel) \in DOMAIN in /\ m = in[Ready(in, channel)]
  <1> DEFINE rest == Remaining(in, api, channel)
             r == Ready(in, channel)
             before == SubSeq(in, 1, r - 1)
             after  == SubSeq(in, r + 1, Len(in))
  <1>1. api # "peek" /\ r # 0
    BY DEF Remaining
  <1>2. r \in DOMAIN in /\ r \in 1 .. Len(in) /\ Len(in) \in Nat
    BY <1>1, ReadyIsFirst
  <1>3. rest = before \o after
    BY <1>1 DEF Remaining, RemoveAt
  <1> HIDE DEF rest, r
  <1>4. before \in Seq(InPacket) /\ Len(before) = r - 1 /\ \A i \in 1 .. r - 1 : before[i] = in[i]
    BY <1>2
  <1>5. /\ after \in Seq(InPacket) /\ Len(after) = Len(in) - r
        /\ \A i \in 1 .. Len(in) - r : after[i] = in[r + i]
    BY <1>2
  <1> HIDE DEF before, after
  <1>6. /\ Len(rest) = Len(in) - 1 /\ DOMAIN rest = 1 .. Len(in) - 1
        /\ \A i \in 1 .. Len(in) - 1 :
              rest[i] = IF i <= r - 1 THEN before[i] ELSE after[i - (r - 1)]
    <2>1. /\ Len(rest) = Len(before) + Len(after) /\ DOMAIN rest = 1 .. Len(rest)
          /\ \A i \in 1 .. Len(before) + Len(after) :
                rest[i] = IF i <= Len(before) THEN before[i] ELSE after[i - Len(before)]
      <3>1. before \in Seq(InPacket) /\ after \in Seq(InPacket)
        BY <1>4, <1>5
      <3>2. /\ rest \in Seq(InPacket) /\ Len(rest) = Len(before) + Len(after)
            /\ \A i \in 1 .. Len(before) + Len(after) :
                  rest[i] = IF i <= Len(before) THEN before[i] ELSE after[i - Len(before)]
        BY <1>3, <3>1, ConcatProperties, Zenon
      <3>3. DOMAIN rest = 1 .. Len(rest)
        BY <3>2
      <3> QED BY <3>2, <3>3
    <2>2. Len(before) + Len(after) = Len(in) - 1
      BY <1>2, <1>4, <1>5
    <2> QED BY <1>4, <2>1, <2>2
  <1>7. PICK k \in DOMAIN in : m = in[k]
    BY DEF Range
  <1>8. k \in 1 .. Len(in)
    BY <1>7
  <1>9. CASE k < r
    <2>1. k \in 1 .. Len(in) - 1 /\ k \in 1 .. r - 1
      BY <1>2, <1>8, <1>9
    <2>2. rest[k] = in[k]
      BY <1>4, <1>6, <2>1
    <2> QED BY <1>6, <1>7, <2>1, <2>2 DEF Range, rest
  <1>10. CASE k > r
    <2> DEFINE i == k - 1
    <2>1. i \in 1 .. Len(in) - 1 /\ ~ (i <= r - 1) /\ k - r \in 1 .. Len(in) - r
          /\ i - (r - 1) = k - r /\ r + (k - r) = k
      BY <1>2, <1>8, <1>10
    <2> HIDE DEF i
    <2>2. rest[i] = in[k]
      BY <1>5, <1>6, <2>1
    <2> QED BY <1>6, <1>7, <2>1, <2>2 DEF Range, rest
  <1> QED
    BY <1>1, <1>2, <1>7, <1>8, <1>9, <1>10 DEF r

\* What a search of an entry takes out of it and does not return is empty.
LEMMA SearchDrops ==
    ASSUME NEW in \in Seq(InPacket), NEW api, NEW channel, NEW m \in Range(in),
           m \notin Range(Remaining(in, api, channel))
    PROVE  m.size = 0 \/ (HasMessage(in, channel) /\ m = in[Ready(in, channel)] /\ api # "peek")
  <1>1. api # "peek" /\ Ready(in, channel) \in DOMAIN in /\ m = in[Ready(in, channel)]
    BY RemainingKeeps
  <1>2. m \in InPacket /\ Ready(in, channel) # 0
    BY <1>1
  <1>3. m.size \in Nat
    BY <1>2 DEF InPacket
  <1>4. CASE m.size > 0
    BY <1>1, <1>2, <1>4 DEF HasMessage
  <1> QED
    BY <1>1, <1>3, <1>4

\* No call and no callback loses a message of a connection that is not closed.
LEMMA LostStep ==
    ASSUME TypeOK, TablesInv, [Next]_vars, NEW b \in Addrs, NEW m \in Held(b), m \notin Held(b)'
    PROVE  delivered' = Append(delivered, m) \/ m.size = 0 \/ status[b] = "CLOSED"
  <1> SUFFICES ASSUME status[b] # "CLOSED"
               PROVE  delivered' = Append(delivered, m) \/ m.size = 0
    OBVIOUS
  <1>0. /\ bufIn[b] \in Seq(InPacket) /\ recvBuffer[b] \in Seq(InPacket)
        /\ bufIn'[b] # bufIn[b] \/ recvBuffer'[b] # recvBuffer[b]
    BY DEF TypeOK, Held
  <1>1. ASSUME NEW a \in Addrs, ConnectionClose(a), status[a] = "CLOSED",
               UNCHANGED bufIn \/ EraseEntry(a)
        PROVE  FALSE
    BY <1>0, <1>1 DEF ConnectionClose, EraseEntry, TypeOK
  <1>2. ASSUME NEW p \in Peers, SendtoClosed(p) PROVE FALSE
    BY <1>1, <1>2 DEF SendtoClosed, TypeOK, entryVars
  <1>3. ASSUME NEW api \in {"recvfrom", "peek"}, NEW channel \in Channels, RecvStart(api, channel)
        PROVE  delivered' = Append(delivered, m) \/ m.size = 0
    <2> DEFINE found == FirstWith(api, channel)
               upTo  == {a \in datagrams : \A c \in found : a <= c}
    <2>1. /\ bufIn' = [a \in Addrs |-> IF a \in upTo THEN Remaining(bufIn[a], api, channel) ELSE bufIn[a]]
          /\ found # {} => \E a \in found : Return(a, bufIn[a], api, channel)
          /\ UNCHANGED recvBuffer
      BY <1>0, <1>3 DEF RecvStart, Fail, connVars, entryVars
    <2>2. b \in upTo /\ m \in Range(bufIn[b]) /\ m \notin Range(Remaining(bufIn[b], api, channel))
      BY <1>0, <2>1 DEF Held
    <2> HIDE DEF upTo
    <2>3. m.size = 0 \/ (HasMessage(bufIn[b], channel) /\ m = bufIn[b][Ready(bufIn[b], channel)] /\ api # "peek")
      BY <1>0, <2>2, SearchDrops
    <2>4. CASE HasMessage(bufIn[b], channel) /\ m = bufIn[b][Ready(bufIn[b], channel)] /\ api # "peek"
      <3>1. datagrams \in SUBSET Nat
        BY DatagramAssumption DEF TypeOK
      <3>2. b \in datagrams /\ \A c \in found : b <= c
        BY <2>2 DEF upTo
      <3>3. \E c \in datagrams : HasMessage(bufIn[c], channel) /\
               \A d \in datagrams : HasMessage(bufIn[d], channel) => c <= d
        <4> DEFINE with == {c \in datagrams : HasMessage(bufIn[c], channel)}
        <4>1. with \in SUBSET Nat /\ with # {}
          BY <2>4, <3>1, <3>2
        <4> QED BY <4>1, Smallest
      <3>4. PICK a \in found : Return(a, bufIn[a], api, channel)
        BY <2>1, <3>3 DEF FirstWith
      <3>5. a \in datagrams /\ a <= b /\ b <= a
        BY <2>4, <3>2, <3>4 DEF FirstWith
      <3>6. a = b
        BY <3>1, <3>2, <3>5
      <3> QED BY <2>4, <3>4, <3>6 DEF Return
    <2> QED BY <2>3, <2>4
  <1>4. CASE PollClosed
    <2>1. PICK a \in remoteClosed :
             \/ Fail("assert")
             \/ EraseEntry(a) /\ ConnectionClose(a)
             \/ EraseEntry(a) /\ UNCHANGED recvBuffer
      BY <1>4 DEF PollClosed, connVars
    <2>2. a \in Addrs /\ status[a] = "CLOSED"
      BY DEF TypeOK, TablesInv, Objects
    <2>3. ~ Fail("assert")
      BY <1>0 DEF Fail, connVars, entryVars
    <2> QED BY <1>0, <1>1, <2>1, <2>2, <2>3 DEF EraseEntry, TypeOK
  <1>5. CASE PollData
    <2>1. PICK a \in pendingData :
             LET read == IF status[a] = "CONNECTING" THEN << >> ELSE recvBuffer[a]
                 in   == bufIn[a] \o read
             IN  /\ bufIn' = [bufIn EXCEPT ![a] = Remaining(in, call.api, call.channel)]
                 /\ HasMessage(in, call.channel) => Return(a, in, call.api, call.channel)
                 /\ recvBuffer' = [recvBuffer EXCEPT ![a] = IF status[a] = "CONNECTING" THEN @ ELSE << >>]
      BY <1>5 DEF PollData
    <2> DEFINE read == IF status[a] = "CONNECTING" THEN << >> ELSE recvBuffer[a]
               in   == bufIn[a] \o read
    <2>2. a = b
      BY <1>0, <2>1
    <2>3. read \in Seq(InPacket) /\ in \in Seq(InPacket)
      BY <1>0, <2>2
    <2>4. Range(in) = Range(bufIn[b]) \cup Range(read)
      <3> HIDE DEF read
      <3> QED BY <1>0, <2>2, <2>3, RangeConcatenation
    <2>5. bufIn'[b] = Remaining(in, call.api, call.channel)
      BY <2>1, <2>2 DEF TypeOK
    <2>6. recvBuffer'[b] = IF status[b] = "CONNECTING" THEN recvBuffer[b] ELSE << >>
      BY <2>1, <2>2 DEF TypeOK
    <2>7. m \in Range(in)
      BY <2>2, <2>4, <2>6 DEF Held
    <2>8. HasMessage(in, call.channel) => Return(a, in, call.api, call.channel)
      BY <2>1
    <2> HIDE DEF in, read
    <2>9. m \notin Range(Remaining(in, call.api, call.channel))
      BY <2>5 DEF Held
    <2> QED BY <2>3, <2>7, <2>8, <2>9, SearchDrops DEF Return
  <1>6. ASSUME NEW a \in Addrs, NEW channel, NEW size, Arrive(a, channel, size) PROVE FALSE
    <2> DEFINE packet == [n |-> arrived, channel |-> channel, size |-> size, via |-> a]
    <2>1. recvBuffer'[b] = Append(recvBuffer[b], packet) /\ bufIn'[b] = bufIn[b]
      BY <1>0, <1>6 DEF Arrive, entryVars, TypeOK
    <2> HIDE DEF packet
    <2>2. \A k \in DOMAIN recvBuffer[b] : k \in DOMAIN recvBuffer'[b] /\ recvBuffer'[b][k] = recvBuffer[b][k]
      BY <1>0, <2>1
    <2> QED BY <2>1, <2>2 DEF Held, Range
  <1>7. ~ UNCHANGED <<bufIn, recvBuffer>>
    BY <1>0
  <1>8. ASSUME NEW p \in Peers, NEW mode, NEW size, SendtoOpen(p, mode, size) \/ SendtoNew(p, mode, size)
        PROVE  FALSE
    BY <1>7, <1>8 DEF SendtoOpen, SendtoNew, DatagramSend, connVars
  <1>9. ASSUME NEW a, NEW p, \/ OnConnect(a) \/ OnChannel(a) \/ ChannelClosed(a) \/ OnDisconnect(a)
                             \/ P2POffer(a, p)
        PROVE  FALSE
    BY <1>7, <1>9 DEF OnConnect, OnChannel, ChannelClosed, OnDisconnect, P2POffer, entryVars
  <1>10. ASSUME NEW S, Disconnect(S) PROVE FALSE
    BY <1>7, <1>10 DEF Disconnect, entryVars
  <1>11. ~ PollNothing /\ ~ UNCHANGED vars
    BY <1>7 DEF PollNothing, vars, connVars, entryVars
  <1> QED
    BY <1>2, <1>3, <1>4, <1>5, <1>6, <1>8, <1>9, <1>10, <1>11
    DEF Next, Sendto, Recv, Poll, Callback, OnData, P2PRelayData

\* Reading one channel never costs a message of another, and no call drops one
\* that it does not return, unless the message is empty or its connection is
\* closed: humblenet_datagram_recv moves messages, and recvfrom returns them.
THEOREM NothingIsLost == Spec => NothingLost
  <1>1. TypeOK /\ TablesInv /\ [Next]_vars =>
          [\A a \in Addrs : \A m \in Held(a) \ Held(a)' :
              \/ delivered' = Append(delivered, m)
              \/ m.size = 0
              \/ status[a] = "CLOSED"]_vars
    BY LostStep
  <1>2. TypeOK /\ TablesInv /\ [Next]_vars => TypeOK' /\ TablesInv'
    BY TypeStep, TablesStep
  <1> QED
    BY <1>1, <1>2, InitType, InitTables, PTL DEF Spec, NothingLost

-----------------------------------------------------------------------------
(* Pointers to deleted Connections *)

\* The datagram layer follows a pointer to a deleted Connection only when an
\* entry has outlived its Connection, which sendto to a closed one leaves.
DanglingIsStale == fault = "dangling" => stale # {}

\* A call of recvfrom or peek is the only one that follows the pointers: it
\* flushes the entry of a, or reads a peer from the Connection of a.
LEMMA OnlyRecvFollows ==
    ASSUME TypeOK, NEW api, NEW channel, RecvStart(api, channel), fault' = "dangling"
    PROVE  stale' = stale /\ \E a \in datagrams : status[a] = "FREE"
  <1>1. fault = "none"
    BY DEF RecvStart, Running
  <1>2. \/ \E a \in ToFlush : status[a] = "FREE"
        \/ \E a \in FirstWith(api, channel) : status[a] = "FREE"
    <2>1. fault' # fault
      BY <1>1
    <2> QED BY <2>1 DEF RecvStart
  <1>3. stale' = stale
    BY DEF RecvStart, Fail, histVars
  <1>4. ToFlush \subseteq datagrams /\ FirstWith(api, channel) \subseteq datagrams
    BY DEF ToFlush, FirstWith
  <1> QED
    BY <1>2, <1>3, <1>4

\* An entry that a call follows to a deleted Connection is one of the stale ones.
LEMMA DanglingStep ==
    ASSUME \A a \in Addrs : EntryInv(a), TypeOK, DanglingIsStale, [Next]_vars
    PROVE  DanglingIsStale'
  <1>0. CASE UNCHANGED vars
    BY <1>0 DEF vars, histVars, DanglingIsStale
  <1>1. ASSUME NEW api, NEW channel, RecvStart(api, channel) PROVE DanglingIsStale'
    <2>1. CASE fault' = "dangling"
      <3>1. stale' = stale /\ \E a \in datagrams : status[a] = "FREE"
        BY <1>1, <2>1, OnlyRecvFollows
      <3>2. datagrams \subseteq Addrs
        BY DEF TypeOK
      <3> QED BY <3>1, <3>2 DEF DanglingIsStale, EntryInv
    <2> QED BY <2>1 DEF DanglingIsStale
  <1>2. ASSUME fault = "none", fault' # "dangling" PROVE DanglingIsStale'
    BY <1>2 DEF DanglingIsStale
  <1>3. Sendto => fault = "none" /\ fault' = "none"
    BY DEF Sendto, SendtoClosed, SendtoOpen, SendtoNew, Running
  <1>4. Poll => fault = "none" /\ (fault' = "none" \/ fault' = "assert")
    BY DEF Poll, PollClosed, PollData, PollNothing, Fail
  <1>5. Callback => fault = "none" /\ fault' = "none"
    BY DEF Callback, OnConnect, OnChannel, ChannelClosed, OnDisconnect, P2POffer, OnData, P2PRelayData, Arrive,
           Running
  <1>6. ASSUME NEW S, Disconnect(S) PROVE fault = "none" /\ fault' = "none"
    BY <1>6 DEF Disconnect, Running
  <1> QED
    BY <1>0, <1>1, <1>2, <1>3, <1>4, <1>5, <1>6 DEF Next, Recv

\* The pointers that the datagram layer keeps to Connections are its map's keys:
\* while no sendto has deleted a closed Connection and left its entry behind
\* (humblenet_connection_close), no call of recvfrom or peek follows a pointer
\* to a deleted one.
THEOREM DanglingCorrect == Spec => []DanglingIsStale
  <1> DEFINE Inv == TypeOK /\ TablesInv /\ \A a \in Addrs : EntryInv(a)
  <1>1. Init => Inv /\ DanglingIsStale
    <2>1. Init => \A a \in Addrs : EntryInv(a)
      BY DEF Init, EntryInv, Live
    <2>2. Init => DanglingIsStale
      BY DEF Init, DanglingIsStale
    <2> QED BY <2>1, <2>2, InitType, InitTables
  <1>2. Inv /\ DanglingIsStale /\ [Next]_vars => Inv' /\ DanglingIsStale'
    BY TypeStep, TablesStep, EntriesStep, DanglingStep
  <1> QED
    BY <1>1, <1>2, PTL DEF Spec

-----------------------------------------------------------------------------
(* The rounds of a call *)

\* Peers send no data through the server.
NoRelay == ~ UseRelay

\* What the loop of humblenet_datagram_recv counts on: data comes over the
\* channel only, so that there is none for a connection that is still connecting.
NoEarlyData == \A a \in Addrs : status[a] = "CONNECTING" => recvBuffer[a] = << >> /\ a \notin open

\* Every round of a call that polls is its last, or leaves fewer connections
\* with data to read.
RoundsDecrease ==
    [][call # Idle =>
          \/ call' = Idle
          \/ fault' # "none"
          \/ (pendingData' \subseteq pendingData /\ pendingData' # pendingData)]_vars

\* A Connection that starts connecting has nothing in recvBuffer, and what
\* arrives arrives at one that is up.
LEMMA EarlyStep ==
    ASSUME NoRelay, TypeOK, TablesInv, NoEarlyData, [Next]_vars
    PROVE  NoEarlyData'
  <1>1. ASSUME \A a \in Addrs : status'[a] = "CONNECTING" =>
                  /\ status[a] \in {"FREE", "CONNECTING"}
                  /\ a \in open' => a \in open
                  /\ recvBuffer'[a] \in {recvBuffer[a], << >>}
        PROVE  NoEarlyData'
    <2>1. \A a \in Addrs : status[a] = "FREE" => recvBuffer[a] = << >> /\ a \notin open
      BY DEF TablesInv, Objects, Live
    <2> QED BY <1>1, <2>1 DEF NoEarlyData
  <1>2. ASSUME UNCHANGED recvBuffer,
               \/ UNCHANGED <<status, open>>
               \/ UNCHANGED status /\ \E a \in Addrs : open' = open \ {a}
               \/ \E A \in SUBSET Addrs : SetClosed(A)
               \/ UNCHANGED open /\ \E a \in Addrs, p \in Peers, direction \in {"Incoming", "Outgoing"} :
                                       NewConnection(a, p, direction)
               \/ \E a \in Addrs : status' = [status EXCEPT ![a] = "CONNECTED"] /\ open' = open \cup {a}
        PROVE  NoEarlyData'
    BY <1>1, <1>2 DEF SetClosed, NewConnection, TypeOK
  <1>3. ASSUME NEW a \in Addrs, ConnectionClose(a) PROVE NoEarlyData'
    BY <1>1, <1>3 DEF ConnectionClose, TypeOK
  <1>4. ASSUME NEW p \in Peers, SendtoClosed(p) PROVE NoEarlyData'
    BY <1>3, <1>4 DEF SendtoClosed, TypeOK
  <1>5. ASSUME NEW p \in Peers, NEW mode, NEW size, SendtoOpen(p, mode, size) \/ SendtoNew(p, mode, size)
        PROVE  NoEarlyData'
    BY <1>2, <1>5 DEF SendtoOpen, SendtoNew, connVars
  <1>6. ASSUME NEW api, NEW channel, RecvStart(api, channel) PROVE NoEarlyData'
    BY <1>2, <1>6 DEF RecvStart, Fail, connVars
  <1>7. CASE PollClosed
    <2>1. \E a \in Addrs : ConnectionClose(a) \/ UNCHANGED connVars
      BY <1>7 DEF PollClosed, Fail, TypeOK
    <2> QED BY <1>2, <1>3, <2>1 DEF connVars
  <1>8. CASE PollData
    <2>1. UNCHANGED <<status, open>>
      BY <1>8 DEF PollData
    <2>2. PICK a \in pendingData :
             recvBuffer' = [recvBuffer EXCEPT ![a] = IF status[a] = "CONNECTING" THEN @ ELSE << >>]
      BY <1>8 DEF PollData
    <2>3. \A b \in Addrs : recvBuffer'[b] \in {recvBuffer[b], << >>}
      BY <2>2 DEF TypeOK
    <2> QED BY <2>1, <2>3 DEF NoEarlyData
  <1>9. ASSUME NEW a \in Addrs, NEW channel, NEW size, OnData(a, channel, size) \/ P2PRelayData(a, channel, size)
        PROVE  NoEarlyData'
    <2>1. a \in open /\ Arrive(a, channel, size)
      BY <1>9 DEF OnData, P2PRelayData, NoRelay
    <2>2. status[a] # "CONNECTING" /\ UNCHANGED <<status, open>>
      BY <2>1 DEF Arrive, NoEarlyData
    <2>3. \A b \in Addrs \ {a} : recvBuffer'[b] = recvBuffer[b]
      BY <2>1 DEF Arrive, TypeOK
    <2> QED BY <2>2, <2>3 DEF NoEarlyData
  <1>10. ASSUME NEW a \in Addrs, \/ OnConnect(a) \/ OnChannel(a) \/ ChannelClosed(a) \/ OnDisconnect(a)
                                 \/ \E p \in Peers : P2POffer(a, p)
         PROVE  NoEarlyData'
    BY <1>2, <1>10 DEF OnConnect, OnChannel, ChannelClosed, OnDisconnect, P2POffer
  <1>11. ASSUME NEW S \in SUBSET Peers, Disconnect(S) PROVE NoEarlyData'
    <2>1. {p2pconnections[p] : p \in S} \ {NoAddr} \in SUBSET Addrs
      BY DEF TypeOK
    <2> QED BY <1>2, <1>11, <2>1 DEF Disconnect
  <1>12. CASE PollNothing \/ UNCHANGED vars
    BY <1>2, <1>12 DEF PollNothing, vars, connVars
  <1> QED
    BY <1>4, <1>5, <1>6, <1>7, <1>8, <1>9, <1>10, <1>11, <1>12 DEF Next, Sendto, Recv, Poll, Callback

\* While a call polls nothing else runs, and the connection whose data a round
\* reads is up, or else there is no data: it leaves pendingData.
LEMMA RoundStep ==
    ASSUME TypeOK, TablesInv, NoEarlyData, Next, call # Idle
    PROVE  \/ call' = Idle
           \/ fault' # "none"
           \/ (pendingData' \subseteq pendingData /\ pendingData' # pendingData)
  <1>1. Poll
    BY DEF Next, Sendto, SendtoClosed, SendtoOpen, SendtoNew, Recv, RecvStart, Callback, OnConnect, OnChannel,
           ChannelClosed, OnDisconnect, P2POffer, OnData, P2PRelayData, Arrive, Disconnect, Running
  <1>2. CASE PollClosed
    BY <1>2 DEF PollClosed, Fail
  <1>3. CASE PollData
    <2>1. PICK a \in pendingData : pendingData' = PendingAfterRead(a)
      BY <1>3 DEF PollData
    <2>2. a \in Addrs /\ recvBuffer[a] # << >>
      BY DEF TablesInv, PendingHaveData
    <2>3. status[a] # "CONNECTING"
      BY <2>2 DEF NoEarlyData
    <2> QED BY <2>1, <2>3 DEF PendingAfterRead
  <1>4. CASE PollNothing
    BY <1>4 DEF PollNothing
  <1> QED
    BY <1>1, <1>2, <1>3, <1>4 DEF Poll

\* A call of recvfrom or peek takes at most one round more than there are
\* connections with data, whatever they sent on which channel: each read takes
\* its connection out of pendingDataConnections, as the comment in
\* humblenet_poll_all says, unless the data came through the server before the
\* connection was up.
THEOREM RoundsAreBounded == ASSUME NoRelay PROVE Spec => RoundsDecrease
  <1>1. Init => NoEarlyData
    BY DEF Init, NoEarlyData
  <1>2. TypeOK /\ TablesInv /\ NoEarlyData /\ [Next]_vars => TypeOK' /\ TablesInv' /\ NoEarlyData'
    BY TypeStep, TablesStep, EarlyStep, NoRelay
  <1>3. TypeOK /\ TablesInv /\ NoEarlyData /\ [Next]_vars =>
          [call # Idle => \/ call' = Idle
                          \/ fault' # "none"
                          \/ (pendingData' \subseteq pendingData /\ pendingData' # pendingData)]_vars
    BY RoundStep
  <1> QED
    BY <1>1, <1>2, <1>3, InitType, InitTables, PTL DEF Spec, RoundsDecrease
=============================================================================
