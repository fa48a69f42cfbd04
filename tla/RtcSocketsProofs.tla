-------------------------- MODULE RtcSocketsProofs --------------------------
(***************************************************************************)
(* Proofs about RtcSockets for any number of Connections and of threads of *)
(* the application: no table holds a Connection that is freed, and the     *)
(* socket of a Connection exists unless a thread is closing it, whatever   *)
(* happens while the lock is given up; and nobody waits with the lock.     *)
(***************************************************************************)
EXTENDS RtcSockets, TLAPS

-----------------------------------------------------------------------------
(* The inductive invariant *)

\* Thread t is about i, and on its way to close it.
About(t, i) == ~At(t, "idle") /\ at[t].id = i
Closing(t) == at[t].pc \in {"close", "close_connection", "waiting", "detach"}

\* The Connection i is the business of its maker alone: until the description
\* of it is begun, or, when that fails, until it is deleted.
Making(t, i) ==
    /\ About(t, i)
    /\ At(t, "create") \/ At(t, "created") \/ At(t, "describe") \/ at[t].then = "delete"

CallbackPCs == {"on_sdp", "on_ice_candidate", "on_connect", "on_channel", "on_data",
                "on_disconnect"}

\* The signaling thread serves a caller that waits for it, and a user_data that
\* was NULL when a callback began still is.
SigInv ==
    ~At(Sig, "idle") =>
        /\ at[Sig].pc \in CallbackPCs \cup {"close", "close_connection", "detach"}
        /\ at[Sig].then = "release"
        /\ at[Sig].caller # NoThread =>
              At(at[Sig].caller, "waiting") /\ at[at[Sig].caller].id = at[Sig].id
        /\ ~at[Sig].data /\ ~Closing(Sig) => at[Sig].id \notin userData

\* Nothing is about a Connection that was not created.
FreshInv(i) ==
    status[i] = "none" =>
        /\ rtc[i] = "none" /\ channel[i] = "none"
        /\ \A t \in Threads : ~About(t, i)

TablesInv(i) ==
    /\ status[i] \in {"none", "CLOSED", "deleted"} => i \notin attached
    /\ i \in remoteClosed => status[i] = "CLOSED"
    /\ i \in connections \cup pending \cup readable \cup known => Allocated(i)

MadeBy(t, i) ==
    /\ status[i] = "CONNECTING"
    /\ i \notin connections \cup readable \cup known
    /\ channel[i] = "none"
    /\ IF Closing(t)
       THEN i \notin userData /\ rtc[i] \in {"new", "closed", "deleted"}
       ELSE rtc[i] = IF At(t, "create") THEN "none" ELSE "new"
    /\ at[t].then = "delete" => way[i] = "Incoming" /\ (At(t, "returned") \/ Closing(t))
    /\ \A u \in Callers \ {t} : About(u, i) => At(u, "candidate") \/ At(u, "added")
    /\ About(Sig, i) => At(Sig, "on_disconnect") /\ ~at[Sig].data /\ at[Sig].caller = t

MakingInv(i) == \A t \in Callers : Making(t, i) => MadeBy(t, i)

\* A Connection with a socket is in the user_data of it, or soon is, or is
\* being closed; a caller closes it when the library has given it up.
SocketInv(i) ==
    /\ sock[i] = "deleted" => rtc[i] \in {"closed", "deleted"}
    /\ i \in attached =>
        /\ sock[i] # "none"
        /\ \/ i \in userData
           \/ \E t \in Callers : About(t, i) /\ (Closing(t) \/ At(t, "created"))
           \/ About(Sig, i) /\ Closing(Sig)
        /\ rtc[i] \in {"closed", "deleted"} => \E t \in Callers : About(t, i) /\ Closing(t)

Inv(i) == FreshInv(i) /\ TablesInv(i) /\ MakingInv(i) /\ SocketInv(i)

IInv == TypeOK /\ SigInv /\ \A i \in Ids : Inv(i)

-----------------------------------------------------------------------------
(* How a step changes what the threads do *)

Acts == [pc : PCs, id : Ids, then : {"return", "delete", "release"}, data : BOOLEAN,
         caller : Callers \cup {NoThread}]
AtType == at \in [Threads -> {Idle} \cup Acts]

\* Every thread but t goes on with what it did.
OthersStay(t) == \A u \in Threads \ {t} : at'[u] = at[u]

\* All that is written down about i is the same.
Same(i) ==
    /\ way'[i] = way[i] /\ status'[i] = status[i]
    /\ rtc'[i] = rtc[i] /\ channel'[i] = channel[i] /\ sock'[i] = sock[i]
    /\ i \in attached' <=> i \in attached
    /\ i \in connections' <=> i \in connections
    /\ i \in pending' <=> i \in pending
    /\ i \in remoteClosed' <=> i \in remoteClosed
    /\ i \in readable' <=> i \in readable
    /\ i \in known' <=> i \in known
    /\ i \in userData' <=> i \in userData

\* The signaling thread is no caller, and no thread is none.
LEMMA ThreadKinds ==
    /\ Sig \in Threads /\ Sig \notin Callers /\ Chain \in Callers /\ Apps \subseteq Callers
    /\ Callers \subseteq Threads /\ Threads = Callers \cup {Sig} /\ NoThread \notin Threads
BY RtcSocketsAssumption DEF Callers, Threads

\* What a thread does is nothing, or has all of the fields.
LEMMA ActKinds ==
    ASSUME AtType, NEW t \in Threads
    PROVE  /\ At(t, "idle") => at[t] = Idle
           /\ ~At(t, "idle") => at[t] \in Acts
<1>1. "idle" \notin PCs
  BY DEF PCs, Guarded
<1>2. at[t] = Idle \/ at[t] \in Acts
  BY DEF AtType
<1>3. at[t] \in Acts => at[t].pc \in PCs
  BY DEF Acts
<1> QED BY <1>1, <1>2, <1>3 DEF At, Idle

\* A thread goes on with the same Connection.
LEMMA GoFacts ==
    ASSUME AtType, NEW t \in Threads, NEW pc \in PCs, ~At(t, "idle"), Go(t, pc)
    PROVE  /\ AtType' /\ OthersStay(t)
           /\ at'[t].pc = pc /\ at'[t].id = at[t].id /\ at'[t].then = at[t].then
           /\ at'[t].data = at[t].data /\ at'[t].caller = at[t].caller
<1>1. at[t] \in Acts
  BY ActKinds
<1>2. [at[t] EXCEPT !.pc = pc] \in Acts
  BY <1>1 DEF Acts
<1>3. at' = [at EXCEPT ![t] = [at[t] EXCEPT !.pc = pc]]
  BY DEF Go
<1> QED BY <1>1, <1>2, <1>3 DEF AtType, OthersStay, Acts

\* A thread that returns does nothing more.
LEMMA ReturnFacts ==
    ASSUME AtType, NEW t \in Threads, Return(t)
    PROVE  AtType' /\ OthersStay(t) /\ at'[t].pc = "idle"
BY DEF AtType, Return, OthersStay, Idle

\* A thread begins something else.
LEMMA SetFacts ==
    ASSUME AtType, NEW t \in Threads, NEW act \in Acts, at' = [at EXCEPT ![t] = act]
    PROVE  AtType' /\ OthersStay(t) /\ at'[t] = act
BY DEF AtType, OthersStay

\* What a call begins with.
LEMMA DoingFacts ==
    ASSUME NEW pc \in PCs, NEW i \in Ids
    PROVE  /\ Doing(pc, i) \in Acts
           /\ Doing(pc, i).pc = pc /\ Doing(pc, i).id = i /\ Doing(pc, i).then = "return"
BY DEF Doing, Acts

\* What a callback begins with.
LEMMA CallingBackFacts ==
    ASSUME NEW pc \in PCs, NEW i \in Ids, NEW caller \in Callers \cup {NoThread}
    PROVE  LET act == CallingBack(pc, i, caller) IN
           /\ act \in Acts
           /\ act.pc = pc /\ act.id = i /\ act.then = "release"
           /\ act.data = (i \in userData) /\ act.caller = caller
BY DEF CallingBack, Acts

\* The places of a thread: with the lock, in a callback, and the others.
LEMMA PCKinds ==
    /\ "idle" \notin PCs
    /\ Guarded \cup CallbackPCs \cup
          {"create", "describe", "answer", "candidate", "write", "send", "close",
           "close_connection", "waiting"} = PCs
BY DEF PCs, Guarded, CallbackPCs

\* The part of TypeOK that says what the threads do.
LEMMA AtTyped == TypeOK => AtType
BY DEF TypeOK, AtType, Acts

-----------------------------------------------------------------------------
(* What a step leaves alone *)

\* A step that is not about i.
LEMMA Elsewhere ==
    ASSUME NEW i \in Ids, Inv(i), Same(i),
           \A u \in Threads : About(u, i) \/ About(u, i)' => at'[u] = at[u]
    PROVE  Inv(i)'
<1>1. \A u \in Threads : (About(u, i)' <=> About(u, i)) /\ (About(u, i) => at'[u] = at[u])
  BY DEF About, At
<1>2. FreshInv(i)'
  BY <1>1 DEF Inv, FreshInv, Same
<1>3. TablesInv(i)'
  BY DEF Inv, TablesInv, Same, Allocated
<1>4. MakingInv(i)'
  <2> SUFFICES ASSUME NEW t \in Callers, Making(t, i)'
               PROVE  MadeBy(t, i)'
    BY DEF MakingInv
  <2>1. at'[t] = at[t] /\ Making(t, i) /\ (Closing(t)' <=> Closing(t))
    BY <1>1, ThreadKinds DEF Making, Closing, At
  <2> QED BY <1>1, <2>1, ThreadKinds DEF Inv, MakingInv, MadeBy, Same, At
<1>5. SocketInv(i)'
  BY <1>1, ThreadKinds DEF Inv, SocketInv, Same, Closing, At
<1> QED BY <1>2, <1>3, <1>4, <1>5 DEF Inv

\* A step about j.
LEMMA StepAbout ==
    ASSUME IInv, NEW j \in Ids,
           \A u \in Threads : \/ at'[u] = at[u]
                              \/ /\ At(u, "idle") \/ at[u].id = j
                                 /\ At(u, "idle")' \/ at'[u].id = j,
           \A i \in Ids \ {j} : Same(i),
           TypeOK', SigInv', Inv(j)'
    PROVE  IInv'
<1>1. ASSUME NEW i \in Ids \ {j}
      PROVE  Inv(i)'
  <2>1. \A u \in Threads : About(u, i) \/ About(u, i)' => at'[u] = at[u]
    BY DEF About
  <2> QED BY <2>1, Elsewhere DEF IInv
<1> QED BY <1>1 DEF IInv

\* A step of t about j.
LEMMA StepOf ==
    ASSUME IInv, NEW t \in Threads, NEW j \in Ids, OthersStay(t),
           At(t, "idle") \/ at[t].id = j, At(t, "idle")' \/ at'[t].id = j,
           \A i \in Ids \ {j} : Same(i),
           TypeOK', SigInv', Inv(j)'
    PROVE  IInv'
BY StepAbout DEF OthersStay

\* A caller that is not waiting does not matter to the signaling thread.
LEMMA SigKeeps ==
    ASSUME TypeOK, SigInv, NEW t \in Callers, OthersStay(t),
           ~At(t, "waiting") \/ At(Sig, "idle"), userData' \subseteq userData
    PROVE  SigInv'
<1>1. at'[Sig] = at[Sig]
  BY ThreadKinds DEF OthersStay
<1>2. ~At(Sig, "idle") => at[Sig] \in Acts
  BY ActKinds, AtTyped, ThreadKinds
<1>3. ~At(Sig, "idle") /\ at[Sig].caller # NoThread =>
        at[Sig].caller \in Callers \ {t} /\ at'[at[Sig].caller] = at[at[Sig].caller]
  BY <1>2, ThreadKinds DEF Acts, SigInv, OthersStay
<1> QED BY <1>1, <1>3 DEF SigInv, Closing, At

\* The process dies, or a thread gets the lock.
LEMMA LockStep ==
    ASSUME IInv, UNCHANGED <<at, connVars, tableVars, sockVars, rtcVars>>,
           lock' \in Threads \cup {NoThread}
    PROVE  IInv'
<1> USE DEF connVars, tableVars, sockVars, rtcVars
<1>1. TypeOK'
  BY DEF IInv, TypeOK
<1>2. SigInv'
  BY DEF IInv, SigInv, Closing, At
<1>3. \A i \in Ids : Inv(i)'
  BY Elsewhere DEF IInv, Same
<1> QED BY <1>1, <1>2, <1>3 DEF IInv

\* A failed assertion changes nothing that the invariant is about.
LEMMA CrashStep ==
    ASSUME IInv, NEW why, Crash(why)
    PROVE  IInv'
BY LockStep DEF Crash, IInv, TypeOK

-----------------------------------------------------------------------------
(* Callers that only go on *)

Plain == {"candidate", "added", "answer", "answered", "write", "send", "written"}

\* A thread at a plain place neither makes nor closes a Connection.
LEMMA PlainIsPlain ==
    ASSUME IInv, NEW t \in Callers, at[t].pc \in Plain
    PROVE  /\ ~At(t, "idle") /\ ~Closing(t) /\ ~At(t, "created")
           /\ at[t].id \in Ids /\ ~Making(t, at[t].id) /\ ~At(t, "waiting")
<1>1. ~At(t, "idle") /\ ~Closing(t) /\ ~At(t, "created") /\ ~At(t, "waiting") /\ ~At(t, "returned")
  BY DEF At, Closing, Plain
<1>2. at[t].id \in Ids
  BY <1>1, ActKinds, AtTyped, ThreadKinds DEF IInv, Acts
<1>3. ASSUME Making(t, at[t].id)
      PROVE  FALSE
  <2>1. at[t].then = "delete"
    BY <1>3 DEF Making, At, Plain
  <2> QED BY <1>1, <1>2, <1>3, <2>1 DEF IInv, Inv, MakingInv, MadeBy
<1> QED BY <1>1, <1>2, <1>3

\* A caller goes on, and nothing else changes that the invariant is about.
LEMMA QuietStep ==
    ASSUME IInv, NEW t \in Callers, NEW j \in Ids, OthersStay(t), TypeOK',
           UNCHANGED <<connVars, tableVars, sock, userData, rtcVars>>,
           ~At(t, "idle"), at[t].id = j, at'[t].id = j, at'[t].then = at[t].then,
           \/ /\ Closing(t) /\ Closing(t)'
              /\ ~At(t, "waiting") \/ At(Sig, "idle")
           \/ /\ at[t].pc \in Plain /\ at'[t].pc \in Plain
              /\ at[t].pc \in {"candidate", "added"} => at'[t].pc \in {"candidate", "added"}
    PROVE  IInv'
<1> USE DEF connVars, tableVars, rtcVars
<1>0. Inv(j) /\ Same(j) /\ \A i \in Ids \ {j} : Same(i)
  BY DEF IInv, Same
<1>1. SigInv'
  BY SigKeeps DEF IInv, Plain, At
<1>2. /\ about:: \A u \in Threads : About(u, j)' <=> About(u, j)
      /\ closing:: \A u \in Threads : Closing(u)' <=> Closing(u)
      /\ making:: \A u \in Callers : Making(u, j)' => Making(u, j)
  <2>1. \A u \in Threads \ {t} : /\ About(u, j)' <=> About(u, j)
                                 /\ Closing(u)' <=> Closing(u)
                                 /\ Making(u, j)' <=> Making(u, j)
    BY DEF OthersStay, About, Closing, Making, At
  <2>2. /\ About(t, j)' <=> About(t, j)
        /\ Closing(t)' <=> Closing(t)
        /\ Making(t, j)' => Making(t, j)
    BY DEF About, Closing, Making, At, Plain
  <2> QED BY <2>1, <2>2, ThreadKinds
<1>3. FreshInv(j)' /\ TablesInv(j)'
  BY <1>0, <1>2 DEF Inv, FreshInv, TablesInv, Same, Allocated
<1>4. SocketInv(j)'
  <2>1. \A u \in Callers : At(u, "created") /\ About(u, j) => At(u, "created")'
    BY ThreadKinds DEF OthersStay, At, Closing, Plain
  <2> QED BY <1>0, <1>2, <2>1, ThreadKinds DEF Inv, SocketInv, Same
<1>5. MakingInv(j)'
  <2> SUFFICES ASSUME NEW u \in Callers, Making(u, j), Making(u, j)'
               PROVE  MadeBy(u, j)'
    BY <1>2 DEF MakingInv
  <2>0. at'[Sig] = at[Sig]
    BY ThreadKinds DEF OthersStay
  <2>1. u = t => Closing(t)
    BY PlainIsPlain
  <2>2. /\ At(u, "create") <=> At(u, "create")'
        /\ At(u, "returned") <=> At(u, "returned")'
        /\ at'[u].then = at[u].then
        /\ u \in Threads
    BY <1>2, <2>1, ThreadKinds DEF At, Closing, OthersStay
  <2>3. \A v \in Callers \ {u} : About(v, j) => At(v, "candidate")' \/ At(v, "added")'
    <3> TAKE v \in Callers \ {u}
    <3> HAVE About(v, j)
    <3>1. At(v, "candidate") \/ At(v, "added")
      BY <1>0 DEF Inv, MakingInv, MadeBy
    <3> QED BY <3>1, ThreadKinds DEF At, OthersStay, Closing
  <2> QED BY <1>0, <1>2, <2>0, <2>2, <2>3, ThreadKinds DEF Inv, MakingInv, MadeBy, Same, At
<1>6. Inv(j)'
  BY <1>3, <1>4, <1>5 DEF Inv
<1> QED BY <1>0, <1>1, <1>6, StepOf, ThreadKinds

\* A thread that stays where it is.
Unmoved(u, j) ==
    /\ at'[u] = at[u]
    /\ About(u, j)' <=> About(u, j)
    /\ Making(u, j)' <=> Making(u, j)
    /\ Closing(u)' <=> Closing(u)
    /\ At(u, "created")' <=> At(u, "created")

\* When one thread goes on, the others stay where they are.
LEMMA UnmovedFacts ==
    ASSUME NEW t, OthersStay(t), NEW j
    PROVE  \A u \in Threads \ {t} : Unmoved(u, j)
BY DEF OthersStay, Unmoved, About, Making, Closing, At

\* A caller returns; humblenet_p2p_sendto keeps the Connection it made.
LEMMA ReturnStep ==
    ASSUME IInv, NEW t \in Callers, NEW j \in Ids, Return(t), TypeOK',
           UNCHANGED <<connVars, connections, pending, remoteClosed, readable, sock, userData,
                       rtcVars>>,
           ~At(t, "idle"), at[t].id = j,
           \/ at[t].pc \in Plain /\ known' = known
           \/ /\ At(t, "returned") /\ at[t].then # "delete"
              /\ known' = known \/ (Allocated(j) /\ known' = known \cup {j})
    PROVE  IInv'
<1> USE DEF connVars, rtcVars
<1>0. /\ Inv(j) /\ \A i \in Ids \ {j} : Same(i)
      /\ AtType' /\ OthersStay(t) /\ at'[t].pc = "idle" /\ t \in Threads
      /\ ~Closing(t) /\ ~At(t, "created") /\ ~At(t, "waiting")
  BY ReturnFacts, AtTyped, ThreadKinds DEF IInv, Same, Plain, At, Closing
<1>1. SigInv'
  BY <1>0, SigKeeps DEF IInv
<1>2. /\ \A u \in Threads \ {t} : Unmoved(u, j)
      /\ ~About(t, j)' /\ ~Making(t, j)'
  BY <1>0, UnmovedFacts DEF About, Making, At
<1>3. FreshInv(j)' /\ TablesInv(j)'
  BY <1>0, <1>2 DEF Inv, FreshInv, TablesInv, Unmoved, Allocated
<1>4. SocketInv(j)'
  BY <1>0, <1>2, ThreadKinds DEF Inv, SocketInv, Unmoved
<1>5. MakingInv(j)'
  <2> SUFFICES ASSUME NEW u \in Callers, Making(u, j)'
               PROVE  MadeBy(u, j)'
    BY DEF MakingInv
  <2>1. u # t /\ u \in Threads /\ Making(u, j) /\ at'[u] = at[u] /\ at'[Sig] = at[Sig]
    BY <1>0, <1>2, ThreadKinds DEF Unmoved
  <2>2. known' = known
    <3>1. At(t, "candidate") \/ At(t, "added")
      BY <1>0, <2>1 DEF Inv, MakingInv, MadeBy, About
    <3> QED BY <3>1 DEF At
  <2>3. \A v \in Callers \ {u} : About(v, j)' => At(v, "candidate")' \/ At(v, "added")'
    BY <1>0, <1>2, <2>1, ThreadKinds DEF Inv, MakingInv, MadeBy, Unmoved, At
  <2>4. About(Sig, j)' <=> About(Sig, j)
    BY <1>2, ThreadKinds DEF Unmoved
  <2> QED BY <1>0, <1>2, <2>1, <2>2, <2>3, <2>4 DEF Inv, MakingInv, MadeBy, Unmoved, At
<1>6. Inv(j)'
  BY <1>3, <1>4, <1>5 DEF Inv
<1> QED BY <1>0, <1>1, <1>6, StepOf DEF At

\* A call begins that changes nothing before it gives up the lock.
LEMMA CallStep ==
    ASSUME IInv, NEW t \in Callers, NEW j \in Ids, NEW pc \in Plain,
           At(t, "idle"), at' = [at EXCEPT ![t] = Doing(pc, j)],
           UNCHANGED <<lock, connVars, tableVars, sockVars, rtcVars>>,
           Allocated(j), pc = "candidate" \/ \A u \in Callers : ~Making(u, j)
    PROVE  IInv'
<1> USE DEF connVars, tableVars, sockVars, rtcVars
<1>0. /\ Inv(j) /\ \A i \in Ids \ {j} : Same(i)
      /\ AtType' /\ OthersStay(t) /\ t \in Threads
      /\ at'[t].pc = pc /\ at'[t].id = j /\ at'[t].then = "return"
  <2>1. pc \in PCs
    BY DEF Plain, PCs, Guarded
  <2>2. AtType' /\ OthersStay(t) /\ at'[t] = Doing(pc, j)
    BY <2>1, SetFacts, DoingFacts, AtTyped, ThreadKinds DEF IInv
  <2> QED BY <2>1, <2>2, DoingFacts, ThreadKinds DEF IInv, Same
<1>1. TypeOK'
  BY <1>0 DEF IInv, TypeOK, AtType, Acts
<1>2. SigInv'
  BY <1>0, SigKeeps DEF IInv, At
<1>3. /\ \A u \in Threads \ {t} : Unmoved(u, j)
      /\ ~Making(t, j)' /\ ~About(t, j)
  BY <1>0, UnmovedFacts DEF About, Making, At, Plain
<1>4. FreshInv(j)' /\ TablesInv(j)'
  BY <1>0 DEF Inv, FreshInv, TablesInv, Unmoved, Allocated
<1>5. SocketInv(j)'
  BY <1>0, <1>3, ThreadKinds DEF Inv, SocketInv, Unmoved
<1>6. MakingInv(j)'
  <2> SUFFICES ASSUME NEW u \in Callers, Making(u, j)'
               PROVE  MadeBy(u, j)'
    BY DEF MakingInv
  <2>1. u # t /\ u \in Threads /\ Making(u, j) /\ at'[u] = at[u] /\ at'[Sig] = at[Sig]
    BY <1>0, <1>3, ThreadKinds DEF Unmoved
  <2>2. pc = "candidate"
    BY <2>1
  <2>3. \A v \in Callers \ {u} : About(v, j)' => At(v, "candidate")' \/ At(v, "added")'
    BY <1>0, <1>3, <2>1, <2>2, ThreadKinds DEF Inv, MakingInv, MadeBy, Unmoved, At
  <2>4. About(Sig, j)' <=> About(Sig, j)
    BY <1>3, ThreadKinds DEF Unmoved
  <2> QED BY <1>0, <1>3, <2>1, <2>3, <2>4 DEF Inv, MakingInv, MadeBy, Unmoved, At
<1>7. Inv(j)'
  BY <1>4, <1>5, <1>6 DEF Inv
<1> QED BY <1>0, <1>1, <1>2, <1>7, StepOf DEF At

-----------------------------------------------------------------------------
(* The making of a Connection *)

\* Nobody else but one who adds a candidate is about what a thread makes.
LEMMA MakerAlone ==
    ASSUME IInv, NEW t \in Callers, NEW j \in Ids, Making(t, j), ~At(t, "waiting")
    PROVE  /\ MadeBy(t, j) /\ ~About(Sig, j)
           /\ \A u \in Callers \ {t} : /\ ~Making(u, j)
                                       /\ About(u, j) => at[u].pc \in {"candidate", "added"}
<1>1. MadeBy(t, j)
  BY DEF IInv, Inv, MakingInv
<1>2. ~About(Sig, j)
  BY <1>1, ThreadKinds DEF MadeBy, About, IInv, SigInv, At
<1>3. ASSUME NEW u \in Callers \ {t}, Making(u, j)
      PROVE  FALSE
  <2>1. at[t].pc \in {"candidate", "added"}
    BY <1>3 DEF IInv, Inv, MakingInv, MadeBy, Making, At
  <2> QED BY <2>1, PlainIsPlain DEF Making, About, Plain
<1> QED BY <1>1, <1>2, <1>3 DEF MadeBy, At

\* The same after a step of the maker.
LEMMA MakerStays ==
    ASSUME IInv, NEW t \in Callers, NEW j \in Ids, Making(t, j), ~At(t, "waiting"), OthersStay(t)
    PROVE  /\ MadeBy(t, j) /\ ~About(Sig, j)'
           /\ \A u \in Callers \ {t} : /\ ~Making(u, j)'
                                       /\ About(u, j)' => at'[u].pc \in {"candidate", "added"}
<1>1. \A u \in Threads \ {t} : Unmoved(u, j)
  BY UnmovedFacts
<1> QED BY <1>1, MakerAlone, ThreadKinds DEF Unmoved

\* humblenet_connect_peer and an offer create a Connection.
LEMMA NewConnectionStep ==
    ASSUME IInv, NEW t \in Callers, NEW j \in Ids, NEW inOrOut \in {"Incoming", "Outgoing"},
           NewConnection(t, j, inOrOut)
    PROVE  IInv'
<1> USE DEF tableVars, sockVars, rtcVars
<1>0. /\ At(t, "idle") /\ status[j] = "none" /\ t \in Threads
      /\ status' = [status EXCEPT ![j] = "CONNECTING"]
      /\ way' = [way EXCEPT ![j] = inOrOut]
      /\ UNCHANGED <<lock, attached, tableVars, sockVars, rtcVars>>
      /\ status'[j] = "CONNECTING"
  BY ThreadKinds DEF NewConnection, Call, IInv, TypeOK
<1>1. AtType' /\ OthersStay(t) /\ at'[t].pc = "create" /\ at'[t].id = j /\ at'[t].then = "return"
  <2>1. Doing("create", j) \in Acts /\ at' = [at EXCEPT ![t] = Doing("create", j)] /\ AtType
    BY DoingFacts, AtTyped DEF PCs, NewConnection, IInv
  <2>2. AtType' /\ OthersStay(t) /\ at'[t] = Doing("create", j)
    BY <1>0, <2>1, SetFacts
  <2> QED BY <2>2 DEF Doing
<1>2. TypeOK'
  BY <1>0, <1>1 DEF IInv, TypeOK, AtType, Acts
<1>3. SigInv'
  BY <1>0, <1>1, SigKeeps DEF IInv, At
<1>4. Inv(j) /\ \A i \in Ids \ {j} : Same(i)
  BY <1>0 DEF IInv, Same, TypeOK
<1>5. \A u \in Threads \ {t} : ~About(u, j)' /\ ~Making(u, j)'
  BY <1>0, <1>1, <1>4, UnmovedFacts DEF Inv, FreshInv, Unmoved, Making
<1>6. FreshInv(j)' /\ TablesInv(j)' /\ SocketInv(j)'
  BY <1>0, <1>4 DEF Inv, FreshInv, TablesInv, SocketInv, Allocated
<1>7. MakingInv(j)'
  <2>1. MadeBy(t, j)'
    BY <1>0, <1>1, <1>4, <1>5, ThreadKinds
       DEF Inv, FreshInv, TablesInv, Allocated, MadeBy, Closing, At
  <2> QED BY <1>5, <2>1, ThreadKinds DEF MakingInv
<1> QED BY <1>0, <1>1, <1>2, <1>3, <1>4, <1>6, <1>7, StepOf DEF Inv, At

\* The socket of a new Connection is created.
LEMMA CreateWebrtcStep ==
    ASSUME IInv, NEW t \in Callers, NEW j \in Ids, at[t].id = j, CreateWebrtc(t)
    PROVE  IInv'
<1>0. /\ At(t, "create") /\ ~At(t, "idle") /\ t \in Threads
      /\ AtType /\ Making(t, j) /\ ~At(t, "waiting")
  BY AtTyped, ActKinds, ThreadKinds DEF CreateWebrtc, At, IInv, Acts, Making, About
<1>1. /\ AtType' /\ OthersStay(t) /\ at'[t].pc = "created" /\ at'[t].id = j
      /\ at'[t].then = at[t].then
  BY <1>0, GoFacts DEF CreateWebrtc, PCs, Guarded
<1>2. TypeOK'
  BY <1>0, <1>1 DEF IInv, TypeOK, AtType, Acts, CreateWebrtc, tableVars
<1>3. SigInv'
  BY <1>0, <1>1, SigKeeps DEF IInv, CreateWebrtc
<1>4. /\ Inv(j) /\ \A i \in Ids \ {j} : Same(i)
      /\ status'[j] = status[j] /\ way'[j] = way[j] /\ channel'[j] = channel[j]
      /\ rtc'[j] = "new" /\ sock'[j] = "live"
      /\ UNCHANGED <<tableVars, userData>>
  BY <1>0 DEF IInv, Same, TypeOK, CreateWebrtc, tableVars
<1>5. /\ MadeBy(t, j) /\ ~About(Sig, j)'
      /\ \A u \in Callers \ {t} :
            ~Making(u, j)' /\ (About(u, j)' => at'[u].pc \in {"candidate", "added"})
  BY <1>0, <1>1, MakerStays
<1>6. status[j] = "CONNECTING" /\ at[t].then # "delete" /\ ~Closing(t)' /\ About(t, j)'
  BY <1>0, <1>1, <1>5 DEF MadeBy, At, Closing, About
<1>7. FreshInv(j)' /\ TablesInv(j)' /\ SocketInv(j)'
  <2>1. FreshInv(j)' /\ TablesInv(j)'
    BY <1>4, <1>6 DEF Inv, FreshInv, TablesInv, Allocated, tableVars
  <2>2. SocketInv(j)'
    BY <1>0, <1>1, <1>4, <1>6 DEF SocketInv, At
  <2> QED BY <2>1, <2>2
<1>8. MakingInv(j)'
  <2>1. MadeBy(t, j)'
    BY <1>1, <1>4, <1>5, <1>6 DEF MadeBy, At, tableVars
  <2> QED BY <1>5, <2>1 DEF MakingInv
<1> QED BY <1>0, <1>1, <1>2, <1>3, <1>4, <1>7, <1>8, StepOf DEF Inv

\* The socket gets its user_data and the Connection is pending.
LEMMA CreatedStep ==
    ASSUME IInv, NEW t \in Callers, NEW j \in Ids, at[t].id = j, Created(t)
    PROVE  IInv'
<1>0. /\ At(t, "created") /\ ~At(t, "idle") /\ t \in Threads
      /\ AtType /\ Making(t, j) /\ ~At(t, "waiting")
  BY AtTyped, ThreadKinds DEF Created, Locked, At, IInv, Making, About
<1>1. /\ AtType' /\ OthersStay(t) /\ at'[t].pc = "describe" /\ at'[t].id = j
      /\ at'[t].then = at[t].then
  BY <1>0, GoFacts DEF Created, PCs
<1>2. TypeOK'
  BY <1>0, <1>1 DEF IInv, TypeOK, AtType, Acts, Created, Unlock, connVars, rtcVars
<1>4. /\ Inv(j) /\ \A i \in Ids \ {j} : Same(i)
      /\ status'[j] = status[j] /\ channel'[j] = channel[j]
      /\ rtc'[j] = rtc[j] /\ sock'[j] = sock[j] /\ j \in userData'
      /\ UNCHANGED <<attached, connections, remoteClosed, readable, known, sock>>
  BY <1>0 DEF IInv, Same, TypeOK, Created, connVars, rtcVars
<1>5. /\ MadeBy(t, j) /\ ~About(Sig, j)'
      /\ \A u \in Callers \ {t} :
            ~Making(u, j)' /\ (About(u, j)' => at'[u].pc \in {"candidate", "added"})
  BY <1>0, <1>1, MakerStays
<1>3. SigInv'
  <2>1. at'[Sig] = at[Sig] /\ ~About(Sig, j)
    BY <1>0, <1>1, MakerAlone, ThreadKinds DEF OthersStay
  <2>2. ~At(Sig, "idle") => at[Sig] \in Acts
    BY <1>0, ActKinds, ThreadKinds
  <2>3. ~At(Sig, "idle") /\ at[Sig].caller # NoThread =>
          at[Sig].caller \in Callers \ {t} /\ at'[at[Sig].caller] = at[at[Sig].caller]
    BY <1>0, <1>1, <2>2, ThreadKinds DEF Acts, IInv, SigInv, OthersStay
  <2> QED BY <1>0, <2>1, <2>3 DEF IInv, SigInv, Created, About, Closing, At
<1>6. status[j] = "CONNECTING" /\ at[t].then # "delete" /\ ~Closing(t)'
  BY <1>0, <1>1, <1>5 DEF MadeBy, At, Closing
<1>7. FreshInv(j)' /\ TablesInv(j)' /\ SocketInv(j)'
  <2>1. FreshInv(j)' /\ TablesInv(j)'
    BY <1>4, <1>6 DEF Inv, FreshInv, TablesInv, Allocated
  <2>2. rtc[j] = "new"
    BY <1>0, <1>5 DEF MadeBy, At, Closing
  <2>3. SocketInv(j)'
    BY <1>4, <2>2 DEF Inv, SocketInv
  <2> QED BY <2>1, <2>3
<1>8. MakingInv(j)'
  <2>1. MadeBy(t, j)'
    BY <1>0, <1>1, <1>4, <1>5, <1>6 DEF MadeBy, At, Closing
  <2> QED BY <1>5, <2>1 DEF MakingInv
<1> QED BY <1>0, <1>1, <1>2, <1>3, <1>4, <1>7, <1>8, StepOf DEF Inv

\* The description is begun, or fails and the Connection is to be deleted.
LEMMA DescribeStep ==
    ASSUME IInv, NEW t \in Callers, NEW j \in Ids, at[t].id = j, Describe(t), ~Gone(j)
    PROVE  IInv'
<1>0. /\ At(t, "describe") /\ ~At(t, "idle") /\ t \in Threads
      /\ AtType /\ Making(t, j) /\ ~At(t, "waiting")
  BY AtTyped, ThreadKinds DEF Describe, At, IInv, Making, About
<1>1. /\ UNCHANGED <<lock, crash, connVars, tableVars, sockVars, channel>>
      /\ \/ rtc' = [rtc EXCEPT ![j] = "describing"] /\ Go(t, "returned")
         \/ /\ way[j] = "Incoming" /\ UNCHANGED rtc
            /\ at' = [at EXCEPT ![t] = [Doing("returned", j) EXCEPT !.then = "delete"]]
  BY DEF Describe
<1>2. /\ AtType' /\ OthersStay(t) /\ at'[t].pc = "returned" /\ at'[t].id = j
      /\ \/ rtc' = [rtc EXCEPT ![j] = "describing"] /\ at'[t].then = at[t].then
         \/ way[j] = "Incoming" /\ UNCHANGED rtc /\ at'[t].then = "delete"
  <2>1. "returned" \in PCs
    BY DEF PCs, Guarded
  <2>2. CASE rtc' = [rtc EXCEPT ![j] = "describing"] /\ Go(t, "returned")
    BY <1>0, <2>1, <2>2, GoFacts
  <2>3. CASE /\ way[j] = "Incoming" /\ UNCHANGED rtc
             /\ at' = [at EXCEPT ![t] = [Doing("returned", j) EXCEPT !.then = "delete"]]
    <3> DEFINE act == [Doing("returned", j) EXCEPT !.then = "delete"]
    <3>1. act \in Acts /\ act.pc = "returned" /\ act.id = j /\ act.then = "delete"
      BY <2>1 DEF Doing, Acts
    <3> HIDE DEF act
    <3>2. AtType' /\ OthersStay(t) /\ at'[t] = act
      BY <1>0, <2>3, <3>1, SetFacts DEF act
    <3> QED BY <2>3, <3>1, <3>2
  <2> QED BY <1>1, <2>2, <2>3
<1>3. TypeOK'
  BY <1>0, <1>1, <1>2 DEF IInv, TypeOK, AtType, Acts, connVars, tableVars, sockVars
<1>4. /\ Inv(j) /\ \A i \in Ids \ {j} : Same(i)
      /\ UNCHANGED <<status, way, channel, sock, attached, userData, connections, pending,
                     remoteClosed, readable, known>>
      /\ rtc'[j] = "describing" \/ rtc'[j] = rtc[j]
  BY <1>1, <1>2 DEF IInv, Same, TypeOK, connVars, tableVars, sockVars
<1>5. /\ MadeBy(t, j) /\ ~About(Sig, j)'
      /\ \A u \in Callers \ {t} :
            ~Making(u, j)' /\ (About(u, j)' => at'[u].pc \in {"candidate", "added"})
  BY <1>0, <1>2, MakerStays
<1>6. status[j] = "CONNECTING" /\ at[t].then # "delete" /\ ~Closing(t)' /\ rtc[j] = "new"
  BY <1>0, <1>2, <1>5 DEF MadeBy, At, Closing
<1>7. SigInv'
  BY <1>0, <1>2, <1>4, SigKeeps DEF IInv
<1>8. FreshInv(j)' /\ TablesInv(j)' /\ SocketInv(j)'
  <2>1. FreshInv(j)' /\ TablesInv(j)'
    BY <1>4, <1>6 DEF Inv, FreshInv, TablesInv, Allocated
  <2>2. j \in attached => j \in userData
    <3>1. \A u \in Callers : About(u, j) => ~Closing(u) /\ ~At(u, "created")
      BY <1>0, MakerAlone DEF At, Closing
    <3> QED BY <1>0, <1>4, <3>1, MakerAlone DEF Inv, SocketInv
  <2>3. SocketInv(j)'
    BY <1>4, <1>6, <2>2 DEF Inv, SocketInv
  <2> QED BY <2>1, <2>3
<1>9. MakingInv(j)'
  <2>1. ASSUME Making(t, j)'
        PROVE  MadeBy(t, j)'
    <3>1. way[j] = "Incoming" /\ UNCHANGED rtc /\ at'[t].then = "delete"
      BY <1>2, <1>6, <2>1 DEF Making, At
    <3> QED BY <1>0, <1>2, <1>4, <1>5, <1>6, <3>1 DEF MadeBy, At
  <2> QED BY <1>5, <2>1 DEF MakingInv
<1> QED BY <1>0, <1>2, <1>3, <1>4, <1>7, <1>8, <1>9, StepOf DEF Inv

-----------------------------------------------------------------------------
(* The closing of a Connection *)

\* A Connection that is closed, with nobody making it, is in order.
LEMMA ClosedInOrder ==
    ASSUME IInv, NEW j \in Ids, NEW deleted \in BOOLEAN, MarkClosed(j, deleted),
           known' \in {known, known \ {j}}, deleted => j \notin known',
           sock'[j] = sock[j], rtc'[j] = rtc[j] \/ rtc'[j] = "closed",
           \A u \in Callers : ~Making(u, j)'
    PROVE  Inv(j)'
<1>1. /\ status'[j] = IF deleted THEN "deleted" ELSE "CLOSED"
      /\ j \notin attached' /\ j \notin connections' \cup pending' \cup readable'
      /\ deleted => j \notin remoteClosed'
  BY DEF MarkClosed, IInv, TypeOK
<1>2. FreshInv(j)' /\ TablesInv(j)' /\ MakingInv(j)'
  BY <1>1 DEF FreshInv, TablesInv, MakingInv, Allocated
<1>3. SocketInv(j)'
  BY <1>1 DEF SocketInv, IInv, Inv
<1> QED BY <1>2, <1>3 DEF Inv

\* humblenet_connection_set_closed changes one Connection.
LEMMA MarkClosedElsewhere ==
    ASSUME IInv, NEW j \in Ids, NEW deleted \in BOOLEAN, MarkClosed(j, deleted),
           known' \in {known, known \ {j}}, UNCHANGED <<sock, userData, channel>>,
           rtc' \in {rtc, [rtc EXCEPT ![j] = "closed"]}
    PROVE  \A i \in Ids \ {j} : Same(i)
BY DEF MarkClosed, Same, IInv, TypeOK

\* The types after humblenet_connection_set_closed.
LEMMA MarkClosedTypes ==
    ASSUME TypeOK, NEW j \in Ids, NEW deleted \in BOOLEAN, MarkClosed(j, deleted),
           known' \in {known, known \ {j}}, UNCHANGED <<sockVars, channel>>,
           rtc' \in {rtc, [rtc EXCEPT ![j] = "closed"]}, AtType', lock' = NoThread
    PROVE  TypeOK'
BY DEF MarkClosed, TypeOK, AtType, Acts, sockVars

\* A caller has closed a Connection and returns.
LEMMA ClosedByCaller ==
    ASSUME IInv, NEW t \in Callers, NEW j \in Ids, NEW deleted \in BOOLEAN,
           MarkClosed(j, deleted), Return(t), Unlock,
           known' \in {known, known \ {j}}, deleted => j \notin known',
           UNCHANGED <<sockVars, rtcVars>>,
           At(t, "idle") \/ at[t].id = j, ~At(t, "waiting"),
           \A u \in Callers \ {t} : ~Making(u, j)
    PROVE  IInv'
<1> USE DEF sockVars, rtcVars
<1>1. AtType' /\ OthersStay(t) /\ at'[t].pc = "idle" /\ t \in Threads
  BY ReturnFacts, AtTyped, ThreadKinds DEF IInv
<1>2. \A u \in Callers : ~Making(u, j)'
  <2>1. \A u \in Callers \ {t} : ~Making(u, j)'
    BY <1>1, UnmovedFacts, ThreadKinds DEF Unmoved
  <2> QED BY <1>1, <2>1 DEF Making, About, At
<1>3. Inv(j)'
  BY <1>2, ClosedInOrder
<1>4. \A i \in Ids \ {j} : Same(i)
  BY MarkClosedElsewhere
<1>5. TypeOK'
  BY <1>1, MarkClosedTypes DEF IInv, Unlock
<1>6. SigInv'
  BY <1>1, SigKeeps DEF IInv
<1> QED BY <1>1, <1>3, <1>4, <1>5, <1>6, StepOf DEF At

\* What a thread does that begins to close j.
CloseAct(j, then, caller) ==
    [CallingBack("close", j, NoThread) EXCEPT !.then = then, !.caller = caller]

\* The fields of it.
LEMMA CloseActs ==
    ASSUME NEW j \in Ids, NEW then \in {"return", "delete", "release"},
           NEW caller \in Callers \cup {NoThread}
    PROVE  /\ CloseAct(j, then, caller) \in Acts
           /\ CloseAct(j, then, caller).pc = "close" /\ CloseAct(j, then, caller).id = j
           /\ CloseAct(j, then, caller).then = then /\ CloseAct(j, then, caller).caller = caller
<1> DEFINE cb == CallingBack("close", j, NoThread)
<1>1. "close" \in PCs
  BY DEF PCs
<1>2. cb \in Acts /\ cb.pc = "close" /\ cb.id = j
  BY <1>1, CallingBackFacts
<1>3. CloseAct(j, then, caller) = [cb EXCEPT !.then = then, !.caller = caller]
  BY DEF CloseAct
<1> HIDE DEF cb
<1>4. [cb EXCEPT !.then = then, !.caller = caller] \in Acts
  BY <1>2 DEF Acts
<1> QED BY <1>2, <1>3, <1>4 DEF Acts

\* A caller begins to close a Connection with a socket: it makes it and failed,
\* or nobody makes it any more.
LEMMA CloseBegins ==
    ASSUME IInv, NEW t \in Callers, NEW j \in Ids, NEW then \in {"return", "delete"},
           SetClosed(t, j, then), j \in attached,
           known' \in {known, known \ {j}}, Allocated(j),
           At(t, "idle") \/ at[t].id = j, ~At(t, "waiting"),
           \A u \in Callers \ {t} : ~Making(u, j),
           then = "delete" => Making(t, j) /\ At(t, "returned")
    PROVE  IInv'
<1> DEFINE act == CloseAct(j, then, NoThread)
<1>1. act \in Acts /\ act.pc = "close" /\ act.id = j /\ act.then = then
  BY CloseActs
<1> HIDE DEF act
<1>2. /\ at' = [at EXCEPT ![t] = act] /\ lock' = NoThread
      /\ connections' = connections \ {j} /\ userData' = userData \ {j}
      /\ UNCHANGED <<way, status, attached, pending, remoteClosed, readable, unread, rtc,
                     sock, closing, channel>>
  BY ThreadKinds DEF SetClosed, Unlock, connVars, act, CloseAct
<1>3. AtType' /\ OthersStay(t) /\ at'[t] = act /\ t \in Threads
  BY <1>1, <1>2, SetFacts, AtTyped, ThreadKinds DEF IInv
<1>4. TypeOK'
  BY <1>2, <1>3 DEF IInv, TypeOK, AtType, Acts
<1>5. Inv(j) /\ \A i \in Ids \ {j} : Same(i)
  BY <1>2 DEF IInv, Same
<1>6. SigInv'
  BY <1>2, <1>3, SigKeeps DEF IInv
<1>7. FreshInv(j)' /\ TablesInv(j)'
  BY <1>2, <1>5 DEF Inv, FreshInv, TablesInv, Allocated
<1>8. SocketInv(j)'
  BY <1>1, <1>2, <1>3, <1>5 DEF Inv, SocketInv, About, Closing, At
<1>9. MakingInv(j)'
  <2>1. \A u \in Callers \ {t} : ~Making(u, j)'
    BY <1>3, UnmovedFacts, ThreadKinds DEF Unmoved
  <2>2. ASSUME Making(t, j)'
        PROVE  MadeBy(t, j)'
    <3>1. Making(t, j) /\ At(t, "returned") /\ at'[t].then = "delete"
      BY <1>1, <1>3, <2>2 DEF Making, At
    <3>2. /\ MadeBy(t, j) /\ ~About(Sig, j)'
          /\ \A u \in Callers \ {t} : About(u, j)' => at'[u].pc \in {"candidate", "added"}
      BY <1>3, <3>1, MakerStays
    <3>3. rtc[j] = "new" /\ way[j] = "Incoming"
      BY <3>1, <3>2 DEF MadeBy, Making, Closing, At
    <3>4. j \notin known'
      BY <3>2 DEF MadeBy
    <3> QED BY <1>1, <1>2, <1>3, <3>2, <3>3, <3>4 DEF MadeBy, Closing, At
  <2> QED BY <2>1, <2>2 DEF MakingInv
<1> QED BY <1>1, <1>3, <1>4, <1>5, <1>6, <1>7, <1>8, <1>9, StepOf DEF Inv

\* humblenet_connection_set_closed is called.
LEMMA SetClosedStep ==
    ASSUME IInv, NEW t \in Callers, NEW j \in Ids, NEW then \in {"return", "delete"},
           SetClosed(t, j, then), Allocated(j), known' \in {known, known \ {j}},
           At(t, "idle") \/ at[t].id = j, ~At(t, "waiting"),
           \A u \in Callers \ {t} : ~Making(u, j),
           then = "delete" => \/ Making(t, j) /\ At(t, "returned")
                              \/ j \notin attached /\ j \notin known'
    PROVE  IInv'
<1>1. CASE j \in attached
  BY <1>1, CloseBegins
<1>2. CASE j \notin attached
  <2>1. /\ MarkClosed(j, then = "delete") /\ Return(t) /\ Unlock
        /\ UNCHANGED <<sockVars, rtcVars>>
    BY <1>2, ThreadKinds DEF SetClosed, Continue, sockVars, rtcVars
  <2>2. then = "delete" => j \notin known'
    <3>1. Making(t, j) => j \notin known
      BY DEF IInv, Inv, MakingInv, MadeBy
    <3> QED BY <3>1
  <2> QED BY <2>1, <2>2, ClosedByCaller
<1> QED BY <1>1, <1>2

\* humblenet_connection_set_closed goes on in a caller.
LEMMA CallerDetachStep ==
    ASSUME IInv, NEW t \in Callers, NEW j \in Ids, at[t].id = j, Detach(t), Allocated(j)
    PROVE  IInv'
<1>1. /\ At(t, "detach") /\ About(t, j) /\ t \in Threads
      /\ MarkClosed(j, at[t].then = "delete") /\ Return(t) /\ Unlock /\ known' = known
      /\ UNCHANGED <<sockVars, rtcVars>>
  BY ThreadKinds DEF Detach, Locked, Continue, rtcVars, About, At
<1>2. at[t].then = "delete" => j \notin known'
  BY <1>1 DEF IInv, Inv, MakingInv, MadeBy, Making
<1>3. \A u \in Callers \ {t} : ~Making(u, j)
  BY <1>1 DEF IInv, Inv, MakingInv, MadeBy, At
<1> QED BY <1>1, <1>2, <1>3, ClosedByCaller DEF At

-----------------------------------------------------------------------------
(* The signaling thread *)

\* It lets go of a connection: the caller it serves goes on.
LEMMA ContinueFacts ==
    ASSUME IInv, NEW j \in Ids, About(Sig, j), Continue(Sig)
    PROVE  /\ AtType' /\ At(Sig, "idle")' /\ rtc' = [rtc EXCEPT ![j] = "closed"]
           /\ \A u \in Callers :
                 \/ at'[u] = at[u]
                 \/ /\ About(u, j) /\ At(u, "waiting")
                    /\ at'[u].pc = "detach" /\ at'[u].id = j /\ at'[u].then = at[u].then
           /\ \A u \in Callers : /\ About(u, j)' <=> About(u, j)
                                 /\ Closing(u)' <=> Closing(u)
                                 /\ Making(u, j)' <=> Making(u, j)
                                 /\ ~At(u, "waiting") => at'[u] = at[u]
<1>1. /\ rtc' = [rtc EXCEPT ![j] = "closed"]
      /\ at' = [u \in Threads |->
                  CASE u = Sig -> Idle
                    [] u = at[Sig].caller -> [at[u] EXCEPT !.pc = "detach"]
                    [] OTHER -> at[u]]
  BY DEF Continue, About
<1>2. AtType /\ at[Sig] \in Acts /\ at'[Sig] = Idle
  <2>1. AtType /\ at[Sig] \in Acts
    BY AtTyped, ActKinds, ThreadKinds DEF IInv, About
  <2>2. at[Sig].caller # Sig
    BY <2>1, ThreadKinds DEF Acts
  <2>3. at'[Sig] = Idle
    BY <1>1, <2>2, ThreadKinds
  <2> QED BY <2>1, <2>3
<1>3. ASSUME NEW u \in Callers, u = at[Sig].caller
      PROVE  /\ About(u, j) /\ At(u, "waiting") /\ at'[u] \in Acts
             /\ at'[u].pc = "detach" /\ at'[u].id = j /\ at'[u].then = at[u].then
  <2>1. At(u, "waiting") /\ About(u, j) /\ u # Sig /\ u \in Threads
    BY <1>3, ThreadKinds DEF IInv, SigInv, About, At
  <2>2. at'[u] = [at[u] EXCEPT !.pc = "detach"]
    BY <1>1, <1>3, <2>1
  <2>3. at[u] \in Acts /\ "detach" \in PCs
    BY <1>2, <2>1, ActKinds DEF About, PCs, Guarded
  <2> QED BY <2>1, <2>2, <2>3 DEF Acts, About
<1>4. ASSUME NEW u \in Callers, u # at[Sig].caller
      PROVE  at'[u] = at[u]
  BY <1>1, <1>4, ThreadKinds
<1>5. AtType'
  BY <1>1, <1>2, <1>3, <1>4, ThreadKinds DEF AtType
<1>6. \A u \in Callers : \/ at'[u] = at[u]
                         \/ /\ About(u, j) /\ At(u, "waiting")
                            /\ at'[u].pc = "detach" /\ at'[u].id = j /\ at'[u].then = at[u].then
  BY <1>3, <1>4
<1>7. At(Sig, "idle")'
  BY <1>2 DEF At, Idle
<1> QED BY <1>1, <1>5, <1>6, <1>7 DEF About, Closing, Making, At

\* It has set a Connection closed that nobody makes.
LEMMA ClosedBySig ==
    ASSUME IInv, NEW j \in Ids, About(Sig, j), MarkClosed(j, FALSE), Continue(Sig), Unlock,
           known' = known, UNCHANGED <<sockVars, channel>>,
           \A u \in Callers : ~Making(u, j)
    PROVE  IInv'
<1> USE DEF sockVars
<1>1. /\ AtType' /\ At(Sig, "idle")' /\ rtc' = [rtc EXCEPT ![j] = "closed"]
      /\ \A u \in Callers : ~Making(u, j)'
      /\ \A u \in Threads : at'[u] = at[u] \/ (at[u].id = j /\ (At(u, "idle")' \/ at'[u].id = j))
  BY ContinueFacts, ThreadKinds DEF About
<1>2. rtc'[j] = rtc[j] \/ rtc'[j] = "closed"
  BY <1>1 DEF IInv, TypeOK
<1>3. Inv(j)'
  BY <1>1, <1>2, ClosedInOrder
<1>4. \A i \in Ids \ {j} : Same(i)
  BY <1>1, MarkClosedElsewhere
<1>5. TypeOK'
  BY <1>1, MarkClosedTypes DEF IInv, Unlock
<1>6. SigInv'
  BY <1>1 DEF SigInv
<1> QED BY <1>1, <1>3, <1>4, <1>5, <1>6, StepAbout

\* humblenet_connection_set_closed goes on in the signaling thread.
LEMMA SigDetachStep ==
    ASSUME IInv, NEW j \in Ids, at[Sig].id = j, Detach(Sig), Allocated(j)
    PROVE  IInv'
<1>1. /\ At(Sig, "detach") /\ About(Sig, j)
      /\ MarkClosed(j, at[Sig].then = "delete") /\ Continue(Sig) /\ Unlock /\ known' = known
      /\ UNCHANGED <<sockVars, channel>>
  BY DEF Detach, Locked, About, At
<1>2. MarkClosed(j, FALSE)
  <2>1. at[Sig].then = "release"
    BY <1>1 DEF IInv, SigInv, About
  <2>2. (at[Sig].then = "delete") = FALSE
    BY <2>1
  <2> QED BY <1>1, <2>2
<1>3. \A u \in Callers : ~Making(u, j)
  BY <1>1 DEF IInv, Inv, MakingInv, MadeBy, At
<1> QED BY <1>1, <1>2, <1>3, ClosedBySig

\* on_disconnect finds nothing to close.
LEMMA GivenUpBySig ==
    ASSUME IInv, NEW j \in Ids, About(Sig, j), At(Sig, "on_disconnect"), ~at[Sig].data,
           Continue(Sig), Unlock, UNCHANGED <<connVars, tableVars, sockVars, channel>>
    PROVE  IInv'
<1> USE DEF connVars, tableVars, sockVars
<1>1. /\ AtType' /\ At(Sig, "idle")' /\ rtc' = [rtc EXCEPT ![j] = "closed"]
      /\ \A u \in Callers : /\ About(u, j)' <=> About(u, j)
                            /\ Closing(u)' <=> Closing(u)
                            /\ Making(u, j)' <=> Making(u, j)
                            /\ ~At(u, "waiting") => at'[u] = at[u]
                            /\ Making(u, j) => at'[u].then = at[u].then
      /\ \A u \in Threads : at'[u] = at[u] \/ (at[u].id = j /\ (At(u, "idle")' \/ at'[u].id = j))
  BY ContinueFacts, ThreadKinds DEF About
<1>2. Inv(j) /\ rtc'[j] = "closed" /\ \A i \in Ids \ {j} : Same(i)
  BY <1>1 DEF IInv, TypeOK, Same
<1>3. TypeOK'
  BY <1>1 DEF IInv, TypeOK, AtType, Acts, Unlock
<1>4. SigInv'
  BY <1>1 DEF SigInv
<1>5. FreshInv(j)' /\ TablesInv(j)'
  BY <1>2, ThreadKinds DEF Inv, FreshInv, TablesInv, Allocated
<1>6. \A u \in Callers : Making(u, j) => Closing(u)
  BY <1>2, ThreadKinds DEF Inv, MakingInv, MadeBy, IInv, SigInv, At, Closing, About
<1>7. MakingInv(j)'
  <2> SUFFICES ASSUME NEW u \in Callers, Making(u, j), Making(u, j)'
               PROVE  MadeBy(u, j)'
    BY <1>1 DEF MakingInv
  <2>1. Closing(u) /\ Closing(u)' /\ MadeBy(u, j)
    BY <1>1, <1>2, <1>6 DEF Inv, MakingInv
  <2>2. \A v \in Callers \ {u} : About(v, j)' => At(v, "candidate")' \/ At(v, "added")'
    BY <1>1, <2>1 DEF MadeBy, At
  <2> QED BY <1>1, <1>2, <2>1, <2>2 DEF MadeBy, About, At
<1>8. SocketInv(j)'
  <2>1. j \in attached => \E t \in Callers : About(t, j) /\ Closing(t)
    <3>1. j \notin userData /\ ~Closing(Sig)
      BY DEF IInv, SigInv, About, Closing, At
    <3>2. ASSUME NEW t \in Callers, About(t, j), At(t, "created")
          PROVE  FALSE
      BY <1>6, <3>2 DEF Making, Closing, At
    <3> QED BY <1>2, <3>1, <3>2 DEF Inv, SocketInv
  <2> QED BY <1>1, <1>2, <2>1 DEF Inv, SocketInv
<1> QED BY <1>1, <1>2, <1>3, <1>4, <1>5, <1>7, <1>8, StepAbout DEF Inv

\* on_disconnect begins to close a Connection with a socket.
LEMMA SigCloseBegins ==
    ASSUME IInv, NEW j \in Ids, About(Sig, j), At(Sig, "on_disconnect"),
           SetClosed(Sig, j, "release"), j \in attached, known' = known, Allocated(j),
           \A u \in Callers : ~Making(u, j)
    PROVE  IInv'
<1>0. AtType /\ at[Sig] \in Acts /\ Sig \in Threads
  BY AtTyped, ActKinds, ThreadKinds DEF IInv, About
<1>p. PICK caller \in Callers \cup {NoThread} : caller = at[Sig].caller
  BY <1>0 DEF Acts
<1> DEFINE act == CloseAct(j, "release", caller)
<1>1. act \in Acts /\ act.pc = "close" /\ act.id = j /\ act.then = "release" /\ act.caller = caller
  BY CloseActs
<1> HIDE DEF act
<1>2. /\ at' = [at EXCEPT ![Sig] = act] /\ lock' = NoThread
      /\ connections' = connections \ {j} /\ userData' = userData \ {j}
      /\ UNCHANGED <<way, status, attached, pending, remoteClosed, readable, unread, rtc,
                     sock, closing, channel>>
  BY <1>p DEF SetClosed, Unlock, connVars, act, CloseAct
<1>3. AtType' /\ OthersStay(Sig) /\ at'[Sig] = act
  BY <1>0, <1>1, <1>2, SetFacts
<1>4. TypeOK'
  BY <1>2, <1>3 DEF IInv, TypeOK, AtType, Acts
<1>5. Inv(j) /\ \A i \in Ids \ {j} : Same(i)
  BY <1>2 DEF IInv, Same
<1>6. SigInv'
  <2>1. caller # NoThread => At(caller, "waiting")' /\ at'[caller].id = j
    BY <1>p, <1>3, ThreadKinds DEF IInv, SigInv, About, OthersStay, At
  <2> QED BY <1>1, <1>3, <2>1 DEF SigInv, Closing, At
<1>7. \A u \in Callers : Unmoved(u, j)
  BY <1>3, UnmovedFacts, ThreadKinds
<1>8. FreshInv(j)' /\ TablesInv(j)' /\ MakingInv(j)'
  BY <1>2, <1>5, <1>7 DEF Inv, FreshInv, TablesInv, MakingInv, Allocated, Unmoved
<1>9. SocketInv(j)'
  BY <1>1, <1>2, <1>3, <1>5, <1>7 DEF Inv, SocketInv, Unmoved, About, Closing, At
<1> QED BY <1>0, <1>1, <1>3, <1>4, <1>5, <1>6, <1>8, <1>9, StepOf DEF Inv, About

\* on_disconnect, unless it finds a Connection that is freed.
LEMMA OnDisconnectStep ==
    ASSUME IInv, NEW j \in Ids, at[Sig].id = j, OnDisconnect,
           j \in connections \/ at[Sig].data => Allocated(j)
    PROVE  IInv'
<1>1. At(Sig, "on_disconnect") /\ About(Sig, j) /\ known' = known
  BY DEF OnDisconnect, Locked, About, At
<1>2. CASE j \in connections \/ at[Sig].data
  <2>1. SetClosed(Sig, j, "release") /\ Allocated(j)
    BY <1>2 DEF OnDisconnect
  <2>2. \A u \in Callers : ~Making(u, j)
    BY <1>1, <1>2 DEF IInv, Inv, MakingInv, MadeBy
  <2>3. CASE j \in attached
    BY <1>1, <2>1, <2>2, <2>3, SigCloseBegins
  <2>4. CASE j \notin attached
    <3>1. /\ MarkClosed(j, "release" = "delete") /\ Continue(Sig) /\ Unlock
          /\ UNCHANGED <<sockVars, channel>>
      BY <2>1, <2>4 DEF SetClosed, sockVars
    <3>2. ("release" = "delete") = FALSE
      OBVIOUS
    <3>3. MarkClosed(j, FALSE)
      BY <3>1, <3>2
    <3> QED BY <1>1, <2>2, <3>1, <3>3, ClosedBySig
  <2> QED BY <2>3, <2>4
<1>3. CASE j \notin connections /\ ~at[Sig].data
  <2>1. /\ Continue(Sig) /\ Unlock
        /\ UNCHANGED <<connVars, tableVars, sockVars, channel>>
    BY <1>1, <1>3 DEF OnDisconnect, tableVars
  <2> QED BY <1>1, <1>3, <2>1, GivenUpBySig
<1> QED BY <1>2, <1>3

\* The library calls back about j, of itself or for a caller that waits.
LEMMA CallingBackStep ==
    ASSUME IInv, NEW j \in Ids, NEW pc \in CallbackPCs, NEW caller \in Callers \cup {NoThread},
           At(Sig, "idle"), at' = [at EXCEPT ![Sig] = CallingBack(pc, j, caller)],
           UNCHANGED <<lock, connVars, tableVars, sock, userData>>,
           closing' \in {closing, closing \cup {j}},
           NEW r \in {"describing", "described", "ready", "connected"},
           rtc' \in {rtc, [rtc EXCEPT ![j] = r]},
           rtc' = rtc \/ rtc[j] \notin {"none", "closed", "deleted"},
           NEW c \in {"created", "open", "closed"},
           channel' \in {channel, [channel EXCEPT ![j] = c]},
           status[j] # "none",
           \A u \in Callers : Making(u, j) =>
              /\ pc = "on_disconnect" /\ caller = u /\ At(u, "waiting")
              /\ rtc' = rtc /\ channel' = channel,
           caller # NoThread => At(caller, "waiting") /\ at[caller].id = j
    PROVE  IInv'
<1> USE DEF connVars, tableVars
<1> DEFINE act == CallingBack(pc, j, caller)
<1>1. /\ act \in Acts /\ act.pc = pc /\ act.id = j /\ act.then = "release"
      /\ act.data = (j \in userData) /\ act.caller = caller
  <2>1. pc \in PCs
    BY PCKinds
  <2> QED BY <2>1, CallingBackFacts
<1> HIDE DEF act
<1>2. AtType' /\ OthersStay(Sig) /\ at'[Sig] = act
  BY <1>1, SetFacts, AtTyped, ThreadKinds DEF IInv, act
<1>3. TypeOK'
  BY <1>2 DEF IInv, TypeOK, AtType, Acts
<1>4. Inv(j) /\ \A i \in Ids \ {j} : Same(i)
  BY DEF IInv, Same, TypeOK
<1>5. SigInv'
  <2>1. caller # NoThread => At(caller, "waiting")' /\ at'[caller].id = j
    BY <1>2, ThreadKinds DEF OthersStay, At
  <2>2. ~act.data => j \notin userData'
    BY <1>1
  <2> QED BY <1>1, <1>2, <2>1, <2>2 DEF SigInv
<1>6. \A u \in Callers : Unmoved(u, j)
  BY <1>2, UnmovedFacts, ThreadKinds
<1>7. FreshInv(j)' /\ TablesInv(j)'
  BY <1>4 DEF Inv, FreshInv, TablesInv, Allocated
<1>8. SocketInv(j)'
  <2>1. (rtc'[j] = rtc[j] \/ (rtc'[j] = r /\ rtc[j] \notin {"none", "closed", "deleted"}))
    BY DEF IInv, TypeOK
  <2>2. ~(About(Sig, j) /\ Closing(Sig))
    BY DEF About
  <2> QED BY <1>4, <1>6, <2>1, <2>2 DEF Inv, SocketInv, Unmoved
<1>9. MakingInv(j)'
  <2> SUFFICES ASSUME NEW u \in Callers, Making(u, j)'
               PROVE  MadeBy(u, j)'
    BY DEF MakingInv
  <2>1. /\ Making(u, j) /\ at'[u] = at[u] /\ Closing(u) /\ Closing(u)'
        /\ pc = "on_disconnect" /\ caller = u /\ rtc' = rtc /\ channel' = channel
    BY <1>6 DEF Unmoved, Closing, At
  <2>2. MadeBy(u, j) /\ j \notin userData
    BY <1>4, <2>1 DEF Inv, MakingInv, MadeBy
  <2>3. ~act.data /\ act.pc = "on_disconnect" /\ act.caller = u
    BY <1>1, <2>1, <2>2
  <2> QED BY <1>2, <1>6, <2>1, <2>2, <2>3 DEF MadeBy, Unmoved, At
<1> QED BY <1>1, <1>2, <1>3, <1>4, <1>5, <1>7, <1>8, <1>9, StepOf, ThreadKinds DEF Inv

\* Nobody makes a Connection whose description is begun, or with a channel.
LEMMA Underway ==
    ASSUME IInv, NEW j \in Ids,
           \/ rtc[j] \in {"describing", "described", "ready", "connected"}
           \/ channel[j] \in {"created", "open"}
    PROVE  status[j] # "none" /\ \A u \in Callers : ~Making(u, j)
BY DEF IInv, Inv, FreshInv, MakingInv, MadeBy

\* What the library calls back about.
LEMMA EventStep ==
    ASSUME IInv, NEW j \in Ids,
           \/ LocalDescription(j) \/ OnIceCandidate(j) \/ IceConnected(j) \/ ChannelOpens(j)
           \/ OnMessage(j) \/ IceDisconnected(j)
    PROVE  IInv'
<1> USE DEF rtcVars, CallbackPCs
<1>1. CASE LocalDescription(j)
  BY <1>1, CallingBackStep, Underway DEF LocalDescription, CallBack, sockVars
<1>2. CASE OnIceCandidate(j)
  BY <1>2, CallingBackStep, Underway DEF OnIceCandidate, CallBack, sockVars
<1>3. CASE IceConnected(j)
  BY <1>3, CallingBackStep, Underway DEF IceConnected, CallBack, sockVars
<1>4. CASE ChannelOpens(j)
  BY <1>4, CallingBackStep, Underway DEF ChannelOpens, CallBack, sockVars
<1>5. CASE OnMessage(j)
  BY <1>5, CallingBackStep, Underway DEF OnMessage, CallBack, sockVars
<1>6. CASE IceDisconnected(j)
  BY <1>6, CallingBackStep, Underway DEF IceDisconnected, Close
<1> QED BY <1>1, <1>2, <1>3, <1>4, <1>5, <1>6

\* The library of itself goes on with what nobody makes: its threads do not move.
LEMMA LibraryStep ==
    ASSUME IInv, NEW j \in Ids, UNCHANGED <<lock, at, connVars, tableVars, userData, closing>>,
           \/ /\ channel[j] \in {"created", "open"}
              /\ channel' = [channel EXCEPT ![j] = "closed"] /\ UNCHANGED <<sock, rtc>>
           \/ /\ rtc[j] = "closed" /\ channel' = channel
              /\ rtc' = [rtc EXCEPT ![j] = "deleted"] /\ sock' = [sock EXCEPT ![j] = "deleted"]
    PROVE  IInv'
<1> USE DEF connVars, tableVars
<1>1. TypeOK'
  BY DEF IInv, TypeOK
<1>2. SigInv'
  BY DEF IInv, SigInv, Closing, At
<1>3. Inv(j) /\ \A i \in Ids \ {j} : Same(i)
  BY DEF IInv, Same, TypeOK
<1>4. \A u \in Threads : Unmoved(u, j)
  BY DEF Unmoved, About, Making, Closing, At
<1>5. FreshInv(j)' /\ TablesInv(j)'
  BY <1>3, <1>4 DEF Inv, FreshInv, TablesInv, Allocated, Unmoved, IInv, TypeOK
<1>6. SocketInv(j)'
  BY <1>3, <1>4, ThreadKinds DEF Inv, SocketInv, Unmoved, IInv, TypeOK
<1>7. MakingInv(j)'
  <2> SUFFICES ASSUME NEW u \in Callers, Making(u, j)'
               PROVE  MadeBy(u, j)'
    BY DEF MakingInv
  <2>1. /\ Making(u, j) /\ MadeBy(u, j) /\ at'[u] = at[u] /\ at'[Sig] = at[Sig]
        /\ Closing(u)' <=> Closing(u)
        /\ About(Sig, j)' <=> About(Sig, j)
    BY <1>3, <1>4, ThreadKinds DEF Inv, MakingInv, Unmoved
  <2>2. /\ Closing(u) /\ rtc'[j] = "deleted" /\ channel' = channel
    BY <2>1 DEF MadeBy, IInv, TypeOK
  <2> QED BY <1>4, <2>1, <2>2, ThreadKinds DEF MadeBy, Unmoved, At
<1> QED BY <1>1, <1>2, <1>3, <1>5, <1>6, <1>7, StepAbout DEF Inv

\* The end of a data channel.
LEMMA ChannelClosesStep ==
    ASSUME IInv, NEW j \in Ids, ChannelCloses(j)
    PROVE  IInv'
<1> USE DEF rtcVars, CallbackPCs
<1>1. CASE j \in closing
  BY <1>1, LibraryStep DEF ChannelCloses
<1>2. CASE j \notin closing
  BY <1>2, CallingBackStep, Underway DEF ChannelCloses, Close
<1> QED BY <1>1, <1>2

\* LWRTC_CALLBACK_DESTROY.
LEMMA DestroyStep ==
    ASSUME IInv, NEW j \in Ids, Destroy(j)
    PROVE  IInv'
BY LibraryStep DEF Destroy

\* A caller that waits for the closing of its connection is served.
LEMMA ServeCloseStep ==
    ASSUME IInv, NEW t \in Callers, NEW j \in Ids, at[t].id = j, ServeClose(t)
    PROVE  IInv'
<1> USE DEF rtcVars
<1>1. At(t, "waiting") /\ About(t, j) /\ At(Sig, "idle") /\ t \in Threads /\ AtType
  BY AtTyped, ThreadKinds DEF ServeClose, About, At, IInv
<1>2. CASE Open(j)
  <2>1. status[j] # "none"
    BY <1>1 DEF IInv, Inv, FreshInv
  <2>2. \A u \in Callers : Making(u, j) => u = t
    BY <1>1 DEF IInv, Inv, MakingInv, MadeBy, At
  <2>3. "on_disconnect" \in CallbackPCs /\ Close(j, t)
    BY <1>2 DEF CallbackPCs, ServeClose
  <2> QED BY <1>1, <2>1, <2>2, <2>3, CallingBackStep DEF ServeClose, Close
<1>3. CASE ~Open(j)
  <2>1. Go(t, "detach") /\ UNCHANGED <<lock, connVars, tableVars, sock, userData, closing, rtcVars>>
    BY <1>3 DEF ServeClose
  <2>2. /\ AtType' /\ OthersStay(t) /\ at'[t].pc = "detach"
        /\ at'[t].id = j /\ at'[t].then = at[t].then
    BY <1>1, <2>1, GoFacts DEF PCs, Guarded, About
  <2>3. TypeOK'
    BY <2>1, <2>2 DEF IInv, TypeOK, AtType, Acts, connVars, tableVars
  <2> QED BY <1>1, <2>1, <2>2, <2>3, QuietStep DEF Closing, At, About
<1> QED BY <1>2, <1>3

\* A callback returns that nobody waits for.
LEMMA SigReturnStep ==
    ASSUME IInv, NEW j \in Ids, at[Sig].id = j, at[Sig].pc \in CallbackPCs \ {"on_disconnect"},
           Return(Sig), TypeOK', \A i \in Ids \ {j} : Same(i),
           UNCHANGED <<attached, pending, remoteClosed, known, sock, userData, rtc>>,
           status'[j] = status[j] \/ (status[j] = "CONNECTING" /\ status'[j] = "CONNECTED"),
           j \in connections' \cup readable' => j \in connections \cup readable \/ Allocated(j)
    PROVE  IInv'
<1>1. AtType' /\ OthersStay(Sig) /\ at'[Sig].pc = "idle" /\ About(Sig, j) /\ ~Closing(Sig)
  BY ReturnFacts, AtTyped, ThreadKinds DEF IInv, About, Closing, At, CallbackPCs
<1>2. Inv(j)
  BY DEF IInv
<1>3. \A u \in Callers : Unmoved(u, j)
  BY <1>1, UnmovedFacts, ThreadKinds
<1>4. \A u \in Callers : ~Making(u, j)
  BY <1>1, <1>2 DEF Inv, MakingInv, MadeBy, At
<1>5. status[j] # "none"
  BY <1>1, <1>2, ThreadKinds DEF Inv, FreshInv
<1>6. SigInv'
  BY <1>1 DEF SigInv, At
<1>7. FreshInv(j)' /\ TablesInv(j)' /\ MakingInv(j)'
  BY <1>2, <1>3, <1>4, <1>5 DEF Inv, FreshInv, TablesInv, MakingInv, Allocated, Unmoved
<1>8. SocketInv(j)'
  BY <1>1, <1>2, <1>3 DEF Inv, SocketInv, Unmoved
<1> QED BY <1>1, <1>6, <1>7, <1>8, StepOf, ThreadKinds DEF Inv, At, About

\* A callback has the lock.
LEMMA CallbackStep ==
    ASSUME IInv, NEW j \in Ids, at[Sig].id = j,
           OnSdp \/ OnConnect \/ OnChannel \/ OnData \/ OnDisconnect
    PROVE  IInv'
<1> USE DEF connVars, tableVars, sockVars, rtcVars
<1>1. ASSUME NEW why, Crash(why)
      PROVE  IInv'
  BY <1>1, CrashStep
<1>2. ASSUME Return(Sig)
      PROVE  AtType'
  BY <1>2, ReturnFacts, AtTyped, ThreadKinds DEF IInv
<1>3. CASE OnSdp
  <2>1. CASE at[Sig].data /\ status[j] # "CONNECTING"
    BY <1>1, <1>3, <2>1 DEF OnSdp
  <2>2. CASE ~(at[Sig].data /\ status[j] # "CONNECTING")
    <3>1. /\ at[Sig].pc \in CallbackPCs \ {"on_disconnect"} /\ Return(Sig) /\ Unlock
          /\ UNCHANGED <<connVars, tableVars, sockVars, rtcVars>>
      BY <1>3, <2>2 DEF OnSdp, Locked, At, CallbackPCs
    <3>2. TypeOK'
      BY <1>2, <3>1 DEF IInv, TypeOK, AtType, Acts, Unlock
    <3>3. \A i \in Ids \ {j} : Same(i)
      BY <3>1 DEF Same
    <3> QED BY <3>1, <3>2, <3>3, SigReturnStep DEF IInv, Inv, TablesInv
  <2> QED BY <2>1, <2>2
<1>4. CASE OnConnect
  <2>1. CASE ~at[Sig].data \/ status[j] # "CONNECTING"
    BY <1>1, <1>4, <2>1 DEF OnConnect
  <2>2. CASE at[Sig].data /\ status[j] = "CONNECTING"
    <3>1. /\ at[Sig].pc \in CallbackPCs \ {"on_disconnect"} /\ Return(Sig) /\ Unlock
          /\ connections' = connections \cup {j}
          /\ channel' = IF way[j] = "Outgoing" THEN [channel EXCEPT ![j] = "created"] ELSE channel
          /\ UNCHANGED <<connVars, pending, remoteClosed, readable, unread, known, sockVars, rtc>>
      BY <1>4, <2>2 DEF OnConnect, Locked, At, CallbackPCs
    <3>2. TypeOK'
      BY <1>2, <3>1 DEF IInv, TypeOK, AtType, Acts, Unlock
    <3>3. \A i \in Ids \ {j} : Same(i)
      BY <3>1 DEF Same, IInv, TypeOK
    <3>4. Allocated(j)
      BY <2>2 DEF Allocated
    <3> QED BY <3>1, <3>2, <3>3, <3>4, SigReturnStep
  <2> QED BY <2>1, <2>2
<1>5. CASE OnChannel
  <2>1. CASE ~at[Sig].data \/ status[j] # "CONNECTING"
    BY <1>1, <1>5, <2>1 DEF OnChannel
  <2>2. CASE at[Sig].data /\ status[j] = "CONNECTING"
    <3>1. /\ at[Sig].pc \in CallbackPCs \ {"on_disconnect"} /\ Return(Sig) /\ Unlock
          /\ status' = [status EXCEPT ![j] = "CONNECTED"]
          /\ UNCHANGED <<way, attached, tableVars, sockVars, rtcVars>>
      BY <1>5, <2>2 DEF OnChannel, Locked, At, CallbackPCs
    <3>2. TypeOK'
      BY <1>2, <3>1 DEF IInv, TypeOK, AtType, Acts, Unlock
    <3>3. status'[j] = "CONNECTED" /\ \A i \in Ids \ {j} : Same(i)
      BY <3>1 DEF Same, IInv, TypeOK
    <3> QED BY <2>2, <3>1, <3>2, <3>3, SigReturnStep
  <2> QED BY <2>1, <2>2
<1>6. CASE OnData
  <2>1. CASE at[Sig].data /\ status[j] # "CONNECTED"
    BY <1>1, <1>6, <2>1 DEF OnData
  <2>2. CASE ~(at[Sig].data /\ status[j] # "CONNECTED")
    <3>1. /\ at[Sig].pc \in CallbackPCs \ {"on_disconnect"} /\ Return(Sig) /\ Unlock
          /\ readable' = IF at[Sig].data THEN readable \cup {j} ELSE readable
          /\ unread' = IF at[Sig].data THEN unread \cup {j} ELSE unread
          /\ UNCHANGED <<connVars, connections, pending, remoteClosed, known, sockVars, rtcVars>>
      BY <1>6, <2>2 DEF OnData, Locked, At, CallbackPCs
    <3>2. TypeOK'
      BY <1>2, <3>1 DEF IInv, TypeOK, AtType, Acts, Unlock
    <3>3. \A i \in Ids \ {j} : Same(i)
      BY <3>1 DEF Same
    <3>4. j \in connections' \cup readable' => j \in connections \cup readable \/ Allocated(j)
      BY <2>2, <3>1 DEF Allocated
    <3> QED BY <3>1, <3>2, <3>3, <3>4, SigReturnStep
  <2> QED BY <2>1, <2>2
<1>7. CASE OnDisconnect
  <2>1. CASE (j \in connections \/ at[Sig].data) /\ ~Allocated(j)
    BY <1>1, <1>7, <2>1 DEF OnDisconnect
  <2>2. CASE ~((j \in connections \/ at[Sig].data) /\ ~Allocated(j))
    BY <1>7, <2>2, OnDisconnectStep
  <2> QED BY <2>1, <2>2
<1> QED BY <1>3, <1>4, <1>5, <1>6, <1>7

-----------------------------------------------------------------------------
(* The steps of callers *)

\* What a thread that is not idle is about.
LEMMA Somewhere ==
    ASSUME IInv, NEW t \in Threads, ~At(t, "idle")
    PROVE  at[t].id \in Ids /\ AtType
BY AtTyped, ActKinds DEF IInv, Acts

\* A call begins or a message of the peer server arrives.
LEMMA RequestStep ==
    ASSUME IInv, NEW j \in Ids, Request(j)
    PROVE  IInv'
<1> USE ThreadKinds
<1>0. Inv(j)
  BY DEF IInv
<1>1. CASE Offered(j)
  BY <1>1, NewConnectionStep DEF Offered
<1>2. CASE Answered(j)
  <2>1. Allocated(j) /\ "answer" \in Plain
    BY <1>0, <1>2 DEF Answered, Inv, TablesInv, Plain
  <2> QED BY <1>2, <2>1, Underway, CallStep DEF Answered, Call
<1>3. CASE CandidateReceived(j)
  <2>1. Allocated(j) /\ "candidate" \in Plain
    BY <1>3 DEF CandidateReceived, Allocated, Plain
  <2> QED BY <1>3, <2>1, CallStep DEF CandidateReceived, Call
<1>4. CASE Rejected(j)
  <2>1. Allocated(j)
    BY <1>0, <1>4 DEF Rejected, Inv, TablesInv
  <2> QED BY <1>4, <2>1, Underway, SetClosedStep DEF Rejected, Call, At
<1>5. ASSUME NEW t \in Apps, ConnectPeer(t, j)
      PROVE  IInv'
  BY <1>5, NewConnectionStep DEF ConnectPeer
<1>6. j \in known \cup readable \cup remoteClosed \/ status[j] = "CONNECTED" =>
        Allocated(j) /\ \A u \in Callers : ~Making(u, j)
  BY <1>0 DEF Inv, TablesInv, MakingInv, MadeBy, Allocated
<1>7. ASSUME NEW t \in Apps, Disconnect(t, j)
      PROVE  IInv'
  BY <1>6, <1>7, SetClosedStep DEF Disconnect, Call, At
<1>8. ASSUME NEW t \in Apps, SendToClosed(t, j)
      PROVE  IInv'
  <2>1. j \notin attached
    BY <1>0, <1>8 DEF SendToClosed, Inv, TablesInv
  <2> QED BY <1>6, <1>8, <2>1, SetClosedStep DEF SendToClosed, Call, At
<1>9. ASSUME NEW t \in Apps, Write(t, j)
      PROVE  IInv'
  <2>1. "write" \in Plain
    BY DEF Plain
  <2> QED BY <1>6, <1>9, <2>1, CallStep DEF Write, Call
<1>10. ASSUME NEW t \in Apps, Recvfrom(t, j)
       PROVE  IInv'
  <2>1. CASE j \in remoteClosed /\ j \in unread /\ Crash("unread data")
    BY <2>1, CrashStep
  <2>2. CASE j \in remoteClosed /\ known' = known \ {j} /\ SetClosed(t, j, "delete")
    <3>1. j \notin attached
      BY <1>0, <2>2 DEF Inv, TablesInv
    <3> QED BY <1>6, <1>10, <2>2, <3>1, SetClosedStep DEF Recvfrom, Call, At
  <2>3. CASE /\ j \in readable /\ readable' = readable \ {j} /\ known' = known \cup {j}
             /\ unread' = unread \ {j}
             /\ UNCHANGED <<lock, at, crash, connVars, connections, pending, remoteClosed,
                            sockVars, rtcVars>>
    <3> USE DEF connVars, sockVars, rtcVars
    <3>1. TypeOK' /\ SigInv' /\ \A i \in Ids \ {j} : Same(i)
      BY <2>3 DEF IInv, TypeOK, SigInv, Closing, At, Same
    <3>2. \A u \in Threads : Unmoved(u, j)
      BY <2>3 DEF Unmoved, About, Making, Closing, At
    <3>3. FreshInv(j)' /\ TablesInv(j)' /\ MakingInv(j)'
      BY <1>0, <1>6, <2>3, <3>2 DEF Inv, FreshInv, TablesInv, MakingInv, Unmoved, Allocated
    <3>4. SocketInv(j)'
      BY <1>0, <2>3, <3>2 DEF Inv, SocketInv, Unmoved
    <3> QED BY <2>3, <3>1, <3>3, <3>4, StepAbout DEF Inv
  <2> QED BY <1>10, <2>1, <2>2, <2>3 DEF Recvfrom
<1> QED BY <1>1, <1>2, <1>3, <1>4, <1>5, <1>7, <1>8, <1>9, <1>10 DEF Request

\* A caller goes on with nothing but where it is changed.
LEMMA GoStep ==
    ASSUME IInv, NEW t \in Callers, NEW pc \in PCs, Go(t, pc), ~At(t, "idle"),
           UNCHANGED <<lock, connVars, tableVars, sock, userData, rtcVars>>,
           closing' \subseteq Ids,
           \/ /\ at[t].pc \in {"close", "close_connection"}
              /\ pc \in {"close_connection", "waiting", "detach"}
           \/ at[t].pc \in Plain \ {"candidate", "added"} /\ pc \in Plain
           \/ at[t].pc = "candidate" /\ pc = "added"
    PROVE  IInv'
<1>1. at[t].id \in Ids /\ AtType /\ t \in Threads
  BY Somewhere, ThreadKinds
<1>2. /\ AtType' /\ OthersStay(t) /\ at'[t].pc = pc /\ at'[t].id = at[t].id
      /\ at'[t].then = at[t].then
  BY <1>1, GoFacts
<1>3. TypeOK'
  BY <1>1, <1>2 DEF IInv, TypeOK, AtType, Acts, connVars, tableVars, rtcVars
<1>4. \/ Closing(t) /\ Closing(t)' /\ ~At(t, "waiting")
      \/ /\ at[t].pc \in Plain /\ at'[t].pc \in Plain
         /\ at[t].pc \in {"candidate", "added"} => at'[t].pc \in {"candidate", "added"}
  BY <1>2 DEF Closing, At, Plain
<1> QED BY <1>1, <1>2, <1>3, <1>4, QuietStep

\* So does the signaling thread that closes a Connection.
LEMMA SigGoStep ==
    ASSUME IInv, NEW j \in Ids, at[Sig].id = j, At(Sig, "close"),
           NEW pc \in {"close_connection", "detach"}, Go(Sig, pc),
           UNCHANGED <<lock, connVars, tableVars, sock, userData, rtcVars>>, closing' \subseteq Ids
    PROVE  IInv'
<1> USE DEF connVars, tableVars, rtcVars
<1>1. AtType /\ About(Sig, j) /\ pc \in PCs /\ at[Sig] \in Acts
  BY AtTyped, ActKinds, ThreadKinds DEF IInv, About, At, PCs, Guarded
<1>2. /\ AtType' /\ OthersStay(Sig) /\ at'[Sig].pc = pc /\ at'[Sig].id = at[Sig].id
      /\ at'[Sig].then = at[Sig].then /\ at'[Sig].caller = at[Sig].caller
  BY <1>1, GoFacts, ThreadKinds DEF About
<1>3. TypeOK'
  BY <1>2 DEF IInv, TypeOK, AtType, Acts
<1>4. Inv(j) /\ \A i \in Ids \ {j} : Same(i)
  BY DEF IInv, Same
<1>5. \A u \in Callers : Unmoved(u, j) /\ ~Making(u, j)
  BY <1>1, <1>2, <1>4, UnmovedFacts, ThreadKinds DEF Inv, MakingInv, MadeBy, At
<1>p. PICK caller \in Callers \cup {NoThread} : caller = at[Sig].caller
  BY <1>1 DEF Acts
<1>6. SigInv'
  <2>1. caller # NoThread => At(caller, "waiting")' /\ at'[caller].id = j
    BY <1>1, <1>2, <1>p, ThreadKinds DEF IInv, SigInv, About, OthersStay, At
  <2> QED BY <1>1, <1>2, <1>p, <2>1 DEF IInv, SigInv, About, Closing, At
<1>7. FreshInv(j)' /\ TablesInv(j)' /\ MakingInv(j)'
  BY <1>1, <1>4, <1>5, ThreadKinds DEF Inv, FreshInv, TablesInv, MakingInv, Allocated, Unmoved
<1>8. SocketInv(j)'
  BY <1>1, <1>2, <1>4, <1>5 DEF Inv, SocketInv, Unmoved, About, Closing, At
<1> QED BY <1>1, <1>2, <1>3, <1>4, <1>6, <1>7, <1>8, StepOf, ThreadKinds DEF Inv

\* internal_close_socket.
LEMMA CloseSocketStep ==
    ASSUME IInv, NEW t \in Threads, InternalCloseSocket(t)
    PROVE  IInv'
<1> DEFINE i == at[t].id
<1>1. At(t, "close") /\ ~At(t, "idle") /\ i \in Ids /\ AtType
  BY Somewhere DEF InternalCloseSocket, At
<1>2. CASE ~Allocated(i) \/ i \notin attached \/ sock[i] = "deleted"
  BY <1>2, CrashStep DEF InternalCloseSocket
<1>3. CASE ~(~Allocated(i) \/ i \notin attached \/ sock[i] = "deleted")
  <2>1. PICK pc \in {"close_connection", "detach"} : Go(t, pc)
    BY <1>3 DEF InternalCloseSocket
  <2>2. /\ UNCHANGED <<lock, crash, connVars, tableVars, sock, userData, rtcVars>>
        /\ closing' \subseteq Ids
    BY <1>1, <1>3 DEF InternalCloseSocket, IInv, TypeOK
  <2>3. pc \in PCs
    BY DEF PCs, Guarded
  <2>4. CASE t \in Callers
    BY <1>1, <2>1, <2>2, <2>3, <2>4, GoStep DEF At
  <2>5. CASE t = Sig
    BY <1>1, <2>1, <2>2, <2>5, SigGoStep
  <2> QED BY <2>4, <2>5, ThreadKinds
<1> QED BY <1>2, <1>3

\* A call that made a Connection has the lock again.
LEMMA ReturnedStep ==
    ASSUME IInv, NEW t \in Callers, NEW j \in Ids, at[t].id = j, Returned(t)
    PROVE  IInv'
<1>1. At(t, "returned") /\ About(t, j) /\ Inv(j) /\ t \in Threads /\ AtType
  BY AtTyped, ThreadKinds DEF Returned, Locked, About, At, IInv
<1>2. at[t].then = "delete" =>
        Making(t, j) /\ way[j] = "Incoming" /\ \A u \in Callers \ {t} : ~Making(u, j)
  BY <1>1, MakerAlone DEF Making, MadeBy, At
<1>3. ASSUME Return(t), Unlock,
             UNCHANGED <<connVars, connections, pending, remoteClosed, readable, unread,
                         sockVars, rtcVars>>,
             at[t].then # "delete", known' = known \/ (Allocated(j) /\ known' = known \cup {j})
      PROVE  IInv'
  <2>1. AtType'
    BY <1>1, <1>3, ReturnFacts
  <2>2. TypeOK'
    BY <1>3, <2>1 DEF IInv, TypeOK, AtType, Acts, Unlock, connVars, sockVars, rtcVars
  <2> QED BY <1>1, <1>3, <2>2, ReturnStep DEF About, sockVars
<1>4. CASE at[t].then = "delete"
  <2>1. CASE Allocated(j)
    <3>1. SetClosed(t, j, "delete") /\ known' = known
      BY <1>2, <1>4, <2>1 DEF Returned
    <3> QED BY <1>1, <1>2, <1>4, <2>1, <3>1, SetClosedStep DEF At
  <2>2. CASE ~Allocated(j)
    <3>1. Crash("use after free")
      BY <1>2, <1>4, <2>2 DEF Returned
    <3> QED BY <3>1, CrashStep
  <2> QED BY <2>1, <2>2
<1>5. CASE at[t].then # "delete"
  <2>1. CASE way[j] = "Outgoing" /\ Allocated(j) /\ status[j] = "CLOSED"
    <3>1. SetClosed(t, j, "delete") /\ known' = known \ {j}
      BY <1>5, <2>1 DEF Returned
    <3>2. j \notin attached /\ \A u \in Callers : ~Making(u, j)
      BY <1>1, <2>1 DEF Inv, TablesInv, MakingInv, MadeBy
    <3> QED BY <1>1, <2>1, <3>1, <3>2, SetClosedStep DEF At
  <2>2. CASE way[j] = "Outgoing" /\ Allocated(j) /\ status[j] # "CLOSED"
    <3>1. /\ known' = known \cup {j} /\ Return(t) /\ Unlock
          /\ UNCHANGED <<connVars, connections, pending, remoteClosed, readable, unread,
                         sockVars, rtcVars>>
      BY <1>5, <2>2 DEF Returned
    <3> QED BY <1>3, <1>5, <2>2, <3>1
  <2>3. CASE way[j] = "Incoming"
    <3>1. /\ Return(t) /\ Unlock
          /\ UNCHANGED <<connVars, tableVars, sockVars, rtcVars>>
      BY <1>5, <2>3 DEF Returned
    <3> QED BY <1>3, <1>5, <3>1 DEF tableVars
  <2>4. CASE way[j] = "Outgoing" /\ ~Allocated(j)
    <3>1. Crash("use after free")
      BY <1>5, <2>4 DEF Returned
    <3> QED BY <3>1, CrashStep
  <2> QED BY <2>1, <2>2, <2>3, <2>4 DEF IInv, TypeOK
<1> QED BY <1>4, <1>5

\* A caller that has the lock again has nothing more to do.
LEMMA DoneStep ==
    ASSUME IInv, NEW t \in Callers, at[t].pc \in {"added", "written"}, Return(t), Unlock,
           UNCHANGED <<connVars, tableVars, sockVars, rtcVars>>
    PROVE  IInv'
<1>1. at[t].id \in Ids /\ ~At(t, "idle") /\ at[t].pc \in Plain /\ AtType' /\ t \in Threads
  BY PlainIsPlain, ReturnFacts, AtTyped, ThreadKinds DEF Plain, IInv
<1>2. TypeOK'
  BY <1>1 DEF IInv, TypeOK, AtType, Acts, Unlock, connVars, tableVars, sockVars, rtcVars
<1> QED BY <1>1, <1>2, ReturnStep DEF tableVars, sockVars

\* A call goes on.
LEMMA ProceedStep ==
    ASSUME IInv, NEW t \in Callers, Proceed(t)
    PROVE  IInv'
<1> DEFINE j == at[t].id
<1>0. ~At(t, "idle") /\ j \in Ids /\ AtType /\ t \in Threads
  <2>1. ~At(t, "idle")
    BY DEF Proceed, CreateWebrtc, Created, Describe, Returned, CloseConnection, ServeClose,
           InternalWriteSocket, LibwebrtcWrite, Written, Locked, At
  <2> QED BY <2>1, Somewhere, ThreadKinds
<1>c. ASSUME NEW why, Crash(why)
      PROVE  IInv'
  BY <1>c, CrashStep
<1>1. CASE CreateWebrtc(t)
  BY <1>0, <1>1, CreateWebrtcStep
<1>2. CASE Created(t)
  BY <1>0, <1>2, CreatedStep
<1>3. CASE Describe(t)
  <2>1. CASE Gone(j)
    BY <1>3, <1>c, <2>1 DEF Describe
  <2>2. CASE ~Gone(j)
    BY <1>0, <1>3, <2>2, DescribeStep
  <2> QED BY <2>1, <2>2
<1>4. CASE Returned(t)
  BY <1>0, <1>4, ReturnedStep
<1>5. CASE CloseConnection(t)
  <2>1. CASE Open(j) /\ sock[j] = "live"
    <3>1. "waiting" \in PCs /\ Go(t, "waiting") /\ closing' \subseteq Ids
      BY <1>5, <2>1 DEF CloseConnection, PCs, sockVars, IInv, TypeOK
    <3> QED BY <1>0, <1>5, <2>1, <3>1, GoStep DEF CloseConnection, At, sockVars
  <2>2. CASE ~(Open(j) /\ sock[j] = "live")
    BY <1>5, <1>c, <2>2 DEF CloseConnection
  <2> QED BY <2>1, <2>2
<1>6. CASE ServeClose(t)
  BY <1>0, <1>6, ServeCloseStep
<1>7. CASE InternalWriteSocket(t)
  <2>1. CASE ~Allocated(j) \/ j \notin attached \/ sock[j] = "deleted"
    BY <1>7, <1>c, <2>1 DEF InternalWriteSocket
  <2>2. CASE ~(~Allocated(j) \/ j \notin attached \/ sock[j] = "deleted")
    <3>1. PICK pc \in {"send", "written"} : Go(t, pc)
      BY <1>7, <2>2 DEF InternalWriteSocket
    <3>2. UNCHANGED <<lock, connVars, tableVars, sockVars, rtcVars>> /\ At(t, "write")
      BY <1>7, <2>2 DEF InternalWriteSocket
    <3>3. /\ pc \in PCs \cap Plain /\ at[t].pc \in Plain \ {"candidate", "added"}
          /\ closing' \subseteq Ids
      BY <3>2 DEF PCs, Guarded, Plain, At, sockVars, IInv, TypeOK
    <3> QED BY <1>0, <3>1, <3>2, <3>3, GoStep DEF sockVars
  <2> QED BY <2>1, <2>2
<1>8. CASE LibwebrtcWrite(t)
  <2>1. CASE channel[j] # "open"
    BY <1>8, <1>c, <2>1 DEF LibwebrtcWrite
  <2>2. CASE channel[j] = "open"
    <3>1. /\ Go(t, "written") /\ At(t, "send")
          /\ UNCHANGED <<lock, connVars, tableVars, sockVars, rtcVars>>
      BY <1>8, <2>2 DEF LibwebrtcWrite
    <3>2. /\ "written" \in PCs /\ "written" \in Plain
          /\ at[t].pc \in Plain \ {"candidate", "added"} /\ closing' \subseteq Ids
      BY <3>1 DEF PCs, Guarded, Plain, At, sockVars, IInv, TypeOK
    <3> QED BY <1>0, <3>1, <3>2, GoStep DEF sockVars
  <2> QED BY <2>1, <2>2
<1>9. CASE Written(t)
  BY <1>9, <1>c, DoneStep DEF Written, Locked, At
<1> QED BY <1>1, <1>2, <1>3, <1>4, <1>5, <1>6, <1>7, <1>8, <1>9 DEF Proceed

\* The library takes the answer.
LEMMA AnswerTakenStep ==
    ASSUME IInv, NEW j \in Ids, at[Chain].id = j, At(Chain, "answer"), ~Gone(j),
           rtc' = [rtc EXCEPT ![j] = "ready"], Go(Chain, "added"),
           UNCHANGED <<lock, connVars, tableVars, sockVars, channel>>
    PROVE  IInv'
<1> USE DEF connVars, tableVars, sockVars
<1>1. AtType /\ ~At(Chain, "idle") /\ "added" \in PCs /\ Chain \in Threads /\ About(Chain, j)
  BY AtTyped, ThreadKinds DEF IInv, At, PCs, Guarded, About
<1>2. /\ AtType' /\ OthersStay(Chain) /\ at'[Chain].pc = "added" /\ at'[Chain].id = j
      /\ at'[Chain].then = at[Chain].then
  BY <1>1, GoFacts
<1>3. TypeOK'
  BY <1>2 DEF IInv, TypeOK, AtType, Acts
<1>4. /\ Inv(j) /\ \A i \in Ids \ {j} : Same(i)
      /\ rtc'[j] = "ready" /\ sock[j] = "live" /\ status[j] # "none"
  BY DEF IInv, TypeOK, Same, Gone, Allocated
<1>5. \A u \in Callers : ~Making(u, j)
  BY <1>1, <1>4, PlainIsPlain, ThreadKinds DEF Inv, MakingInv, MadeBy, At, Plain
<1>6. \A u \in Callers : ~Making(u, j)'
  <2>1. \A u \in Callers \ {Chain} : ~Making(u, j)'
    BY <1>2, <1>5, UnmovedFacts, ThreadKinds DEF Unmoved
  <2> QED BY <1>1, <1>2, <1>5, <2>1 DEF Making, About, At
<1>7. SigInv'
  BY <1>2, SigKeeps, ThreadKinds DEF IInv, At
<1>8. FreshInv(j)' /\ TablesInv(j)' /\ MakingInv(j)'
  BY <1>4, <1>6 DEF Inv, FreshInv, TablesInv, MakingInv, Allocated
<1>9. SocketInv(j)'
  <2>1. \A u \in Threads \ {Chain} : Unmoved(u, j)
    BY <1>2, UnmovedFacts
  <2>2. ~Closing(Chain) /\ ~At(Chain, "created")
    BY DEF Closing, At
  <2> QED BY <1>4, <2>1, <2>2, ThreadKinds DEF Inv, SocketInv, Unmoved
<1> QED BY <1>1, <1>2, <1>3, <1>4, <1>7, <1>8, <1>9, StepOf DEF Inv

\* A handler of the poll thread goes on.
LEMMA ReplyStep ==
    ASSUME IInv, Reply
    PROVE  IInv'
<1> DEFINE j == at[Chain].id
<1>0. ~At(Chain, "idle") /\ j \in Ids /\ AtType /\ Chain \in Callers
  <2>1. ~At(Chain, "idle")
    BY DEF Reply, SetAnswer, AnswerFailed, AddIceCandidate, Added, Locked, At
  <2> QED BY <2>1, Somewhere, ThreadKinds
<1>c. ASSUME NEW why, Crash(why)
      PROVE  IInv'
  BY <1>c, CrashStep
<1>p. {"added", "answered"} \subseteq PCs \cap Plain /\ closing \subseteq Ids
  BY DEF PCs, Guarded, Plain, IInv, TypeOK
<1>1. CASE SetAnswer
  <2>1. CASE Gone(j) \/ channel[j] # "none"
    BY <1>1, <1>c, <2>1 DEF SetAnswer
  <2>2. CASE ~(Gone(j) \/ channel[j] # "none")
    <3>1. /\ At(Chain, "answer") /\ UNCHANGED <<lock, connVars, tableVars, sockVars, channel>>
          /\ \/ rtc' = [rtc EXCEPT ![j] = "ready"] /\ Go(Chain, "added")
             \/ UNCHANGED rtc /\ Go(Chain, "answered")
      BY <1>1, <2>2 DEF SetAnswer
    <3>2. CASE rtc' = [rtc EXCEPT ![j] = "ready"] /\ Go(Chain, "added")
      BY <1>0, <2>2, <3>1, <3>2, AnswerTakenStep
    <3>3. CASE UNCHANGED rtc /\ Go(Chain, "answered")
      <4>1. at[Chain].pc \in Plain \ {"candidate", "added"}
        BY <3>1 DEF At, Plain
      <4> QED BY <1>0, <1>p, <3>1, <3>3, <4>1, GoStep DEF sockVars, rtcVars
    <3> QED BY <3>1, <3>2, <3>3
  <2> QED BY <2>1, <2>2
<1>2. CASE AnswerFailed
  <2>1. CASE ~Allocated(j)
    BY <1>2, <1>c, <2>1 DEF AnswerFailed
  <2>2. CASE Allocated(j)
    <3>1. SetClosed(Chain, j, "return") /\ known' = known /\ At(Chain, "answered")
      BY <1>2, <2>2 DEF AnswerFailed, Locked
    <3>2. \A u \in Callers \ {Chain} : ~Making(u, j)
      BY <1>0, <3>1 DEF IInv, Inv, MakingInv, MadeBy, About, At
    <3> QED BY <1>0, <2>2, <3>1, <3>2, SetClosedStep DEF At
  <2> QED BY <2>1, <2>2
<1>3. CASE AddIceCandidate
  <2>1. CASE Gone(j) \/ j \notin pending
    BY <1>3, <1>c, <2>1 DEF AddIceCandidate
  <2>2. CASE ~(Gone(j) \/ j \notin pending)
    <3>1. /\ Go(Chain, "added") /\ at[Chain].pc = "candidate"
          /\ UNCHANGED <<lock, connVars, tableVars, sockVars, rtcVars>>
      BY <1>3, <2>2 DEF AddIceCandidate, At
    <3> QED BY <1>0, <1>p, <3>1, GoStep DEF sockVars
  <2> QED BY <2>1, <2>2
<1>4. CASE Added
  BY <1>0, <1>4, DoneStep DEF Added, Locked, At
<1> QED BY <1>1, <1>2, <1>3, <1>4 DEF Reply

\* humblenet_connection_set_closed has the lock again.
LEMMA DetachStep ==
    ASSUME IInv, NEW t \in Threads, Detach(t)
    PROVE  IInv'
<1> DEFINE j == at[t].id
<1>1. j \in Ids
  BY Somewhere DEF Detach, Locked, At
<1>2. CASE ~Allocated(j)
  BY <1>2, CrashStep DEF Detach
<1>3. CASE Allocated(j) /\ t \in Callers
  BY <1>1, <1>3, CallerDetachStep
<1>4. CASE Allocated(j) /\ t = Sig
  BY <1>1, <1>4, SigDetachStep
<1> QED BY <1>2, <1>3, <1>4, ThreadKinds

\* The invariant is inductive.
LEMMA NextStep ==
    ASSUME IInv, [Next]_vars
    PROVE  IInv'
<1>1. CASE UNCHANGED vars
  BY <1>1, LockStep DEF vars, IInv, TypeOK
<1>2. ASSUME NEW i \in Ids, Event(i)
      PROVE  IInv'
  BY <1>2, EventStep, ChannelClosesStep, DestroyStep DEF Event
<1>3. ASSUME NEW i \in Ids, Request(i)
      PROVE  IInv'
  BY <1>3, RequestStep
<1>4. ASSUME NEW t \in Callers, Proceed(t)
      PROVE  IInv'
  BY <1>4, ProceedStep
<1>5. ASSUME NEW t \in Threads, Guard(t)
      PROVE  IInv'
  BY <1>5, LockStep DEF Guard
<1>6. ASSUME NEW t \in Threads, InternalCloseSocket(t) \/ Detach(t)
      PROVE  IInv'
  BY <1>6, CloseSocketStep, DetachStep
<1>7. CASE Reply
  BY <1>7, ReplyStep
<1>8. CASE Callback
  <2>1. at[Sig].id \in Ids
    BY <1>8, Somewhere, ThreadKinds
       DEF Callback, OnSdp, OnConnect, OnChannel, OnData, OnDisconnect, Locked, At
  <2> QED BY <1>8, <2>1, CallbackStep DEF Callback
<1> QED BY <1>1, <1>2, <1>3, <1>4, <1>5, <1>6, <1>7, <1>8 DEF Next

\* It holds before the first call.
LEMMA InitStep == Init => IInv
<1> SUFFICES ASSUME Init
             PROVE  IInv
  OBVIOUS
<1>1. \A t \in Threads : At(t, "idle")
  BY DEF Init, At, Idle
<1>2. TypeOK
  BY DEF Init, TypeOK
<1>3. SigInv
  BY <1>1, ThreadKinds DEF SigInv
<1>4. \A i \in Ids : Inv(i)
  BY <1>1, ThreadKinds
     DEF Init, Inv, FreshInv, TablesInv, MakingInv, SocketInv, Making, About, Allocated
<1> QED BY <1>2, <1>3, <1>4 DEF IInv

\* It holds in every behaviour, fair or not.
LEMMA Invariance == Spec => []IInv
<1>1. IInv /\ [Next]_vars => IInv'
  BY NextStep
<1> QED BY <1>1, InitStep, PTL DEF Spec

-----------------------------------------------------------------------------
(* The theorems *)

\* Every state of the threads, of the lock and of what belongs to a Connection
\* is one that the code knows.
THEOREM TypeCorrect == Spec => []TypeOK
<1>1. IInv => TypeOK
  BY DEF IInv
<1> QED BY <1>1, Invariance, PTL

\* No table of the library has a Connection that is freed, for any number of
\* threads that call while humblenet_connection_set_closed has given up the lock.
THEOREM TablesCorrect == Spec => []TablesHoldLiveConnections
<1>1. IInv => TablesHoldLiveConnections
  <2> SUFFICES ASSUME IInv,
                      NEW i \in connections \cup pending \cup remoteClosed \cup readable \cup known
               PROVE  Allocated(i)
    BY DEF TablesHoldLiveConnections
  <2>1. i \in Ids
    BY DEF IInv, TypeOK
  <2>2. TablesInv(i)
    BY <2>1 DEF IInv, Inv
  <2> QED BY <2>2 DEF TablesInv, Allocated
<1> QED BY <1>1, Invariance, PTL

\* The socket of a Connection is there unless a call is closing it: when the
\* signaling thread destroys a socket (LWRTC_CALLBACK_DESTROY), set_closed has
\* taken it from its Connection or is about to.
THEOREM SocketsCorrect == Spec => []SocketsOfConnectionsExist
<1>1. IInv => SocketsOfConnectionsExist
  <2> SUFFICES ASSUME IInv, NEW i \in attached, sock[i] # "live"
               PROVE  \E t \in Callers : ~At(t, "idle") /\ at[t].id = i
    BY DEF SocketsOfConnectionsExist
  <2>1. SocketInv(i) /\ sock[i] \in {"none", "live", "deleted"}
    BY DEF IInv, TypeOK, Inv
  <2> QED BY <2>1 DEF SocketInv, About
<1> QED BY <1>1, Invariance, PTL

-----------------------------------------------------------------------------
(* Nobody waits with the lock *)

\* The places of the messages of the peer server, which the poll thread handles.
MessagePCs == {"answer", "answered", "candidate", "added"}

CallerPlace(t) == at[t].pc \notin CallbackPCs /\ (at[t].pc \in MessagePCs => t \notin Apps)

\* The signaling thread closes only sockets that are marked, so that it leaves
\* the library alone.
SigPlace ==
    /\ at[Sig].pc \in CallbackPCs \cup {"idle", "close", "detach"}
    /\ at[Sig].pc \in {"on_disconnect", "close"} => at[Sig].id \in closing

\* Whoever has the lock goes on with the step that gives it up and waits for
\* nobody; the signaling thread, which callers wait for, waits for the lock only.
NoCircularWait ==
    /\ \A t \in Threads : lock = t => at[t].pc \in Guarded
    /\ SigPlace
    /\ \A t \in Callers : CallerPlace(t)

\* What a thread does with the lock is one step of its own.
OneStep == \A t \in Threads : lock = t => lock' = NoThread \/ (lock' = t /\ at'[t] = at[t])
LockIsGivenUp == [][OneStep]_vars

\* Only thread t moves: it gives up the lock, or it was not at a place where
\* a thread has it.
OneMoves(t) ==
    /\ OthersStay(t)
    /\ lock' = NoThread \/ (lock' = lock /\ at[t].pc \notin Guarded)
    /\ closing \subseteq closing'

\* A caller moves.
LEMMA CallerMoves ==
    ASSUME TypeOK, NoCircularWait, NEW t \in Callers, OneMoves(t), CallerPlace(t)'
    PROVE  NoCircularWait' /\ OneStep
<1>1. \A u \in Threads \ {t} : at'[u] = at[u]
  BY DEF OneMoves, OthersStay
<1>2. \A u \in Threads : lock' = u => lock = u /\ u # t
  BY ThreadKinds DEF OneMoves, NoCircularWait
<1>3. SigPlace'
  BY <1>1, ThreadKinds DEF OneMoves, NoCircularWait, SigPlace
<1>4. \A u \in Callers : CallerPlace(u)'
  BY <1>1, ThreadKinds DEF NoCircularWait, CallerPlace
<1>5. OneStep
  BY <1>1 DEF OneMoves, NoCircularWait, OneStep
<1> QED BY <1>1, <1>2, <1>3, <1>4, <1>5 DEF NoCircularWait

\* The signaling thread moves.
LEMMA SigMoves ==
    ASSUME TypeOK, NoCircularWait, OneMoves(Sig), SigPlace'
    PROVE  NoCircularWait' /\ OneStep
<1>1. \A u \in Threads \ {Sig} : at'[u] = at[u]
  BY DEF OneMoves, OthersStay
<1>2. \A u \in Threads : lock' = u => lock = u /\ u # Sig
  BY ThreadKinds DEF OneMoves, NoCircularWait
<1>3. \A u \in Callers : CallerPlace(u)'
  BY <1>1, ThreadKinds DEF NoCircularWait, CallerPlace
<1>4. OneStep
  BY <1>1 DEF OneMoves, NoCircularWait, OneStep
<1> QED BY <1>1, <1>2, <1>3, <1>4 DEF NoCircularWait

\* No thread moves; one may get the lock that is free.
LEMMA NobodyMoves ==
    ASSUME NoCircularWait, UNCHANGED <<at, closing>>,
           \/ lock' = lock
           \/ lock = NoThread /\ \E t \in Threads : lock' = t /\ at[t].pc \in Guarded
    PROVE  NoCircularWait' /\ OneStep
BY ThreadKinds DEF NoCircularWait, CallerPlace, SigPlace, OneStep

\* A thread goes on, or returns.
LEMMA CallerGoes ==
    ASSUME TypeOK, NoCircularWait, NEW t \in Callers,
           (\E pc \in PCs \ CallbackPCs : Go(t, pc) /\ ~At(t, "idle") /\ (pc \in MessagePCs => t \notin Apps))
             \/ Return(t) \/ (\E act \in Acts : /\ act.pc \notin CallbackPCs \cup MessagePCs
                                               /\ at' = [at EXCEPT ![t] = act]),
           lock' = NoThread \/ (lock' = lock /\ at[t].pc \notin Guarded), closing \subseteq closing'
    PROVE  NoCircularWait' /\ OneStep
<1>1. AtType /\ t \in Threads
  BY AtTyped, ThreadKinds
<1>2. OthersStay(t) /\ CallerPlace(t)'
  <2>1. CASE \E pc \in PCs \ CallbackPCs : Go(t, pc) /\ ~At(t, "idle") /\ (pc \in MessagePCs => t \notin Apps)
    BY <1>1, <2>1, GoFacts DEF CallerPlace
  <2>2. CASE Return(t)
    BY <1>1, <2>2, ReturnFacts DEF CallerPlace, CallbackPCs, MessagePCs
  <2>3. CASE \E act \in Acts : act.pc \notin CallbackPCs \cup MessagePCs /\ at' = [at EXCEPT ![t] = act]
    BY <1>1, <2>3, SetFacts DEF CallerPlace
  <2> QED BY <2>1, <2>2, <2>3
<1> QED BY <1>2, CallerMoves DEF OneMoves

\* A caller sets a Connection closed.
LEMMA CallerCloses ==
    ASSUME TypeOK, NoCircularWait, NEW t \in Callers, NEW j \in Ids, NEW then \in {"return", "delete"},
           SetClosed(t, j, then)
    PROVE  NoCircularWait' /\ OneStep
<1>1. lock' = NoThread /\ closing' = closing /\ t # Sig
  BY ThreadKinds DEF SetClosed, Unlock
<1>2. Return(t) \/ at' = [at EXCEPT ![t] = CloseAct(j, then, NoThread)]
  BY <1>1 DEF SetClosed, Continue, CloseAct
<1>3. CloseAct(j, then, NoThread) \in Acts /\ CloseAct(j, then, NoThread).pc = "close"
  BY CloseActs
<1>4. "close" \notin CallbackPCs \cup MessagePCs
  BY DEF CallbackPCs, MessagePCs
<1> QED BY <1>1, <1>2, <1>3, <1>4, CallerGoes

\* The signaling thread lets go of a connection, and its caller goes on.
LEMMA SigContinues ==
    ASSUME IInv, NoCircularWait, ~At(Sig, "idle"), Continue(Sig), Unlock, UNCHANGED closing
    PROVE  NoCircularWait' /\ OneStep
<1>1. at[Sig].id \in Ids
  BY Somewhere, ThreadKinds
<1>2. /\ At(Sig, "idle")'
      /\ \A u \in Callers : at'[u] = at[u] \/ at'[u].pc = "detach"
  BY <1>1, ContinueFacts DEF About
<1>3. \A u \in Callers : CallerPlace(u)'
  BY <1>2 DEF NoCircularWait, CallerPlace, CallbackPCs, MessagePCs
<1>4. SigPlace'
  BY <1>2 DEF SigPlace, At
<1> QED BY <1>3, <1>4, ThreadKinds DEF NoCircularWait, OneStep, Unlock

\* A call begins, or a message of the peer server arrives.
LEMMA RequestMoves ==
    ASSUME TypeOK, NoCircularWait, NEW j \in Ids, Request(j)
    PROVE  NoCircularWait' /\ OneStep
<1> USE ThreadKinds
<1>1. ASSUME NEW t \in Callers, NEW pc \in {"create", "write"}, Call(t), at' = [at EXCEPT ![t] = Doing(pc, j)],
             UNCHANGED <<lock, closing>>
      PROVE  NoCircularWait' /\ OneStep
  <2>1. Doing(pc, j) \in Acts /\ Doing(pc, j).pc = pc /\ pc \notin CallbackPCs \cup MessagePCs
    BY DoingFacts DEF PCs, CallbackPCs, MessagePCs
  <2>2. at[t].pc \notin Guarded
    BY <1>1 DEF Call, At, Guarded
  <2> QED BY <1>1, <2>1, <2>2, CallerGoes
<1>2. ASSUME NEW pc \in {"answer", "candidate"}, Call(Chain), at' = [at EXCEPT ![Chain] = Doing(pc, j)],
             UNCHANGED <<lock, closing>>
      PROVE  NoCircularWait' /\ OneStep
  <2>1. Doing(pc, j) \in Acts /\ Doing(pc, j).pc = pc /\ pc \notin CallbackPCs
    BY DoingFacts DEF PCs, CallbackPCs
  <2>2. OthersStay(Chain) /\ CallerPlace(Chain)'
    BY <1>2, <2>1, SetFacts, AtTyped, RtcSocketsAssumption DEF CallerPlace
  <2>3. at[Chain].pc \notin Guarded
    BY <1>2 DEF Call, At, Guarded
  <2> QED BY <1>2, <2>2, <2>3, CallerMoves DEF OneMoves
<1>3. ASSUME NEW t \in Apps, ConnectPeer(t, j) \/ Write(t, j) PROVE NoCircularWait' /\ OneStep
  BY <1>1, <1>3 DEF ConnectPeer, NewConnection, Write, sockVars
<1>4. CASE Offered(j)
  BY <1>1, <1>4 DEF Offered, NewConnection, sockVars
<1>5. CASE Answered(j) \/ CandidateReceived(j)
  BY <1>2, <1>5 DEF Answered, CandidateReceived, sockVars
<1>6. CASE Rejected(j)
  BY <1>6, CallerCloses DEF Rejected
<1>7. ASSUME NEW t \in Apps, Disconnect(t, j) \/ SendToClosed(t, j) PROVE NoCircularWait' /\ OneStep
  BY <1>7, CallerCloses DEF Disconnect, SendToClosed
<1>8. ASSUME NEW t \in Apps, Recvfrom(t, j) PROVE NoCircularWait' /\ OneStep
  <2>1. SetClosed(t, j, "delete") \/ UNCHANGED <<lock, at, closing>>
    BY <1>8 DEF Recvfrom, Crash, sockVars
  <2> QED BY <2>1, CallerCloses, NobodyMoves
<1> QED BY <1>3, <1>4, <1>5, <1>6, <1>7, <1>8 DEF Request

\* A call goes on.
LEMMA ProceedMoves ==
    ASSUME IInv, NoCircularWait, NEW t \in Callers, Proceed(t)
    PROVE  NoCircularWait' /\ OneStep
<1> USE ThreadKinds
<1>0. TypeOK
  BY DEF IInv
<1>1. ASSUME ~At(t, "idle"), NEW pc \in {"created", "describe", "returned", "waiting", "detach", "send", "written"},
             Go(t, pc), lock' = NoThread \/ (lock' = lock /\ at[t].pc \notin Guarded), UNCHANGED closing
      PROVE  NoCircularWait' /\ OneStep
  <2>1. pc \in PCs /\ pc \notin CallbackPCs \cup MessagePCs
    BY DEF PCs, Guarded, CallbackPCs, MessagePCs
  <2> QED BY <1>0, <1>1, <2>1, CallerGoes
<1>2. ASSUME Crash("use after free") PROVE NoCircularWait' /\ OneStep
  BY <1>2, NobodyMoves DEF Crash, sockVars
<1>3. CASE CreateWebrtc(t)
  BY <1>1, <1>3 DEF CreateWebrtc, At, Guarded
<1>4. CASE Created(t)
  BY <1>1, <1>4 DEF Created, Locked, At, Unlock
<1>5. CASE Describe(t)
  <2>0. At(t, "describe") /\ at[t].id \in Ids /\ at[t].pc \notin Guarded
    BY <1>5, Somewhere DEF Describe, At, Guarded
  <2>1. CASE Go(t, "returned") /\ UNCHANGED <<lock, closing>>
    BY <1>1, <2>0, <2>1 DEF At
  <2>2. CASE /\ at' = [at EXCEPT ![t] = [Doing("returned", at[t].id) EXCEPT !.then = "delete"]]
             /\ UNCHANGED <<lock, closing>>
    <3> DEFINE act == [Doing("returned", at[t].id) EXCEPT !.then = "delete"]
    <3>1. act \in Acts /\ act.pc = "returned"
      BY <2>0 DEF Doing, Acts, PCs, Guarded
    <3>2. "returned" \notin CallbackPCs \cup MessagePCs
      BY DEF CallbackPCs, MessagePCs
    <3> HIDE DEF act
    <3>3. at' = [at EXCEPT ![t] = act]
      BY <2>2 DEF act
    <3> QED BY <1>0, <2>0, <2>2, <3>1, <3>2, <3>3, CallerGoes
  <2> QED BY <1>2, <1>5, <2>1, <2>2 DEF Describe, sockVars
<1>6. CASE Returned(t)
  <2>1. at[t].id \in Ids
    BY <1>6, Somewhere DEF Returned, Locked, At
  <2>2. \/ SetClosed(t, at[t].id, "delete")
        \/ Return(t) /\ Unlock /\ UNCHANGED closing
        \/ Crash("use after free")
    BY <1>6 DEF Returned, sockVars
  <2> QED BY <1>0, <1>2, <2>1, <2>2, CallerCloses, CallerGoes DEF Unlock
<1>7. CASE CloseConnection(t)
  BY <1>1, <1>2, <1>7 DEF CloseConnection, At, Guarded, sockVars
<1>8. CASE ServeClose(t)
  <2>0. At(t, "waiting") /\ At(Sig, "idle") /\ at[t].id \in Ids /\ AtType /\ UNCHANGED lock
    BY <1>8, Somewhere DEF ServeClose, At
  <2>1. CASE Close(at[t].id, t)
    <3>1. CallingBack("on_disconnect", at[t].id, t) \in Acts
      BY <2>0, CallingBackFacts DEF PCs, Guarded
    <3>2. at'[Sig] = CallingBack("on_disconnect", at[t].id, t) /\ OthersStay(Sig)
      BY <2>0, <2>1, <3>1, SetFacts DEF Close
    <3>3. SigPlace' /\ closing \subseteq closing'
      BY <2>1, <3>2 DEF SigPlace, CallingBack, Close, CallbackPCs
    <3>4. at[Sig].pc \notin Guarded
      BY <2>0 DEF At, Guarded
    <3> QED BY <1>0, <2>0, <3>2, <3>3, <3>4, SigMoves DEF OneMoves
  <2>2. CASE Go(t, "detach") /\ UNCHANGED closing
    BY <1>1, <2>0, <2>2 DEF At, Guarded
  <2> QED BY <1>8, <2>1, <2>2 DEF ServeClose
<1>9. CASE InternalWriteSocket(t) \/ LibwebrtcWrite(t)
  BY <1>1, <1>2, <1>9 DEF InternalWriteSocket, LibwebrtcWrite, At, Guarded, sockVars
<1>10. CASE Written(t)
  BY <1>0, <1>2, <1>10, CallerGoes DEF Written, Unlock, sockVars
<1> QED BY <1>3, <1>4, <1>5, <1>6, <1>7, <1>8, <1>9, <1>10 DEF Proceed

\* The poll thread goes on with a message.
LEMMA ReplyMoves ==
    ASSUME IInv, NoCircularWait, Reply
    PROVE  NoCircularWait' /\ OneStep
<1> USE ThreadKinds
<1>0. TypeOK /\ Chain \notin Apps
  BY RtcSocketsAssumption DEF IInv
<1>1. ASSUME at[Chain].pc \in {"answer", "candidate"}, NEW pc \in {"added", "answered"}, Go(Chain, pc),
             UNCHANGED <<lock, closing>>
      PROVE  NoCircularWait' /\ OneStep
  <2>1. pc \in PCs \ CallbackPCs /\ ~At(Chain, "idle") /\ at[Chain].pc \notin Guarded
    BY <1>1 DEF PCs, Guarded, CallbackPCs, At
  <2> QED BY <1>0, <1>1, <2>1, CallerGoes
<1>2. ASSUME Crash("use after free") PROVE NoCircularWait' /\ OneStep
  BY <1>2, NobodyMoves DEF Crash, sockVars
<1>3. CASE SetAnswer \/ AddIceCandidate
  BY <1>1, <1>2, <1>3 DEF SetAnswer, AddIceCandidate, At, sockVars
<1>4. CASE AnswerFailed
  <2>1. at[Chain].id \in Ids
    BY <1>4, Somewhere DEF AnswerFailed, Locked, At
  <2> QED BY <1>0, <1>2, <1>4, <2>1, CallerCloses DEF AnswerFailed
<1>5. CASE Added
  BY <1>0, <1>5, CallerGoes DEF Added, Unlock, sockVars
<1> QED BY <1>3, <1>4, <1>5 DEF Reply

\* The library calls back, or does something of itself.
LEMMA EventMoves ==
    ASSUME TypeOK, NoCircularWait, NEW j \in Ids, Event(j)
    PROVE  NoCircularWait' /\ OneStep
<1> USE ThreadKinds
<1>1. ASSUME At(Sig, "idle"), NEW pc \in CallbackPCs, at' = [at EXCEPT ![Sig] = CallingBack(pc, j, NoThread)],
             UNCHANGED lock, closing \subseteq closing', pc = "on_disconnect" => j \in closing'
      PROVE  NoCircularWait' /\ OneStep
  <2>1. CallingBack(pc, j, NoThread) \in Acts
    BY CallingBackFacts DEF CallbackPCs, PCs, Guarded
  <2>2. at'[Sig] = CallingBack(pc, j, NoThread) /\ OthersStay(Sig)
    BY <1>1, <2>1, SetFacts, AtTyped
  <2>3. at[Sig].pc \notin Guarded
    BY <1>1 DEF At, Guarded
  <2>4. SigPlace'
    BY <1>1, <2>2 DEF SigPlace, CallingBack, CallbackPCs
  <2> QED BY <1>1, <2>2, <2>3, <2>4, SigMoves DEF OneMoves
<1>2. CASE LocalDescription(j) \/ OnIceCandidate(j) \/ IceConnected(j) \/ ChannelOpens(j) \/ OnMessage(j)
  BY <1>1, <1>2
     DEF LocalDescription, OnIceCandidate, IceConnected, ChannelOpens, OnMessage, CallBack, CallbackPCs, sockVars
<1>3. CASE IceDisconnected(j)
  BY <1>1, <1>3 DEF IceDisconnected, Close, CallbackPCs
<1>4. CASE ChannelCloses(j)
  <2>1. CASE UNCHANGED <<at, closing>>
    BY <1>4, <2>1, NobodyMoves DEF ChannelCloses
  <2>2. CASE Close(j, NoThread)
    BY <1>1, <1>4, <2>2 DEF ChannelCloses, Close, CallbackPCs
  <2> QED BY <1>4, <2>1, <2>2 DEF ChannelCloses
<1>5. CASE Destroy(j)
  BY <1>5, NobodyMoves DEF Destroy
<1> QED BY <1>2, <1>3, <1>4, <1>5 DEF Event

\* A callback ends, or begins to close its Connection.
LEMMA CallbackMoves ==
    ASSUME IInv, NoCircularWait, Callback
    PROVE  NoCircularWait' /\ OneStep
<1> USE ThreadKinds
<1>0. TypeOK /\ AtType /\ at[Sig].pc \in Guarded /\ lock = Sig /\ ~At(Sig, "idle") /\ at[Sig].id \in Ids
  <2>1. at[Sig].pc \in Guarded /\ lock = Sig
    BY DEF Callback, OnSdp, OnConnect, OnChannel, OnData, OnDisconnect, Locked, At, Guarded
  <2>2. ~At(Sig, "idle")
    BY <2>1 DEF At, Guarded
  <2> QED BY <2>1, <2>2, Somewhere DEF IInv
<1>1. ASSUME Return(Sig), Unlock, UNCHANGED closing PROVE NoCircularWait' /\ OneStep
  <2>1. OthersStay(Sig) /\ at'[Sig].pc = "idle"
    BY <1>0, <1>1, ReturnFacts
  <2> QED BY <1>0, <1>1, <2>1, SigMoves DEF OneMoves, SigPlace, Unlock
<1>2. ASSUME NEW why, Crash(why) PROVE NoCircularWait' /\ OneStep
  BY <1>2, NobodyMoves DEF Crash, sockVars
<1>3. CASE OnSdp \/ OnConnect \/ OnChannel \/ OnData
  BY <1>1, <1>2, <1>3 DEF OnSdp, OnConnect, OnChannel, OnData, sockVars
<1>4. CASE OnDisconnect
  <2>1. at[Sig].id \in closing
    BY <1>4 DEF OnDisconnect, Locked, At, NoCircularWait, SigPlace
  <2>2. CASE Continue(Sig) /\ Unlock /\ UNCHANGED closing
    BY <1>0, <2>2, SigContinues
  <2>3. CASE SetClosed(Sig, at[Sig].id, "release")
    <3>1. CASE at[Sig].id \notin attached
      BY <1>0, <2>3, <3>1, SigContinues DEF SetClosed
    <3>2. CASE at[Sig].id \in attached
      <4> DEFINE act == CloseAct(at[Sig].id, "release", at[Sig].caller)
      <4>1. at' = [at EXCEPT ![Sig] = act] /\ lock' = NoThread /\ closing' = closing
        BY <2>3, <3>2 DEF SetClosed, CloseAct, Unlock
      <4>2. at[Sig].caller \in Callers \cup {NoThread}
        BY <1>0, ActKinds DEF Acts
      <4>3. act \in Acts /\ act.pc = "close" /\ act.id = at[Sig].id
        BY <1>0, <4>2, CloseActs
      <4> HIDE DEF act
      <4>4. OthersStay(Sig) /\ at'[Sig] = act
        BY <1>0, <4>1, <4>3, SetFacts
      <4>5. SigPlace'
        BY <2>1, <4>1, <4>3, <4>4 DEF SigPlace
      <4> QED BY <1>0, <4>1, <4>4, <4>5, SigMoves DEF OneMoves
    <3> QED BY <3>1, <3>2
  <2> QED BY <1>2, <1>4, <2>2, <2>3 DEF OnDisconnect, sockVars
<1> QED BY <1>3, <1>4 DEF Callback

\* A thread closes the socket, or is done with that.
LEMMA ClosingMoves ==
    ASSUME IInv, NoCircularWait, NEW t \in Threads, InternalCloseSocket(t) \/ Detach(t)
    PROVE  NoCircularWait' /\ OneStep
<1> USE ThreadKinds
<1>0. TypeOK /\ AtType /\ ~At(t, "idle") /\ at[t].id \in Ids
  <2>1. ~At(t, "idle")
    BY DEF InternalCloseSocket, Detach, Locked, At
  <2> QED BY <2>1, Somewhere DEF IInv
<1>1. ASSUME Crash("use after free") PROVE NoCircularWait' /\ OneStep
  BY <1>1, NobodyMoves DEF Crash, sockVars
<1>2. CASE InternalCloseSocket(t) /\ ~Crash("use after free")
  <2>1. /\ at[t].pc = "close" /\ UNCHANGED lock
        /\ \/ at[t].id \in closing /\ Go(t, "detach") /\ UNCHANGED closing
           \/ at[t].id \notin closing /\ Go(t, "close_connection") /\ closing' = closing \cup {at[t].id}
    BY <1>2 DEF InternalCloseSocket, At
  <2>2. at[t].pc \notin Guarded /\ {"detach", "close_connection"} \subseteq PCs \ (CallbackPCs \cup MessagePCs)
    BY <2>1 DEF Guarded, PCs, CallbackPCs, MessagePCs
  <2>3. CASE t \in Callers
    BY <1>0, <2>1, <2>2, <2>3, CallerGoes
  <2>4. CASE t = Sig
    <3>1. at[Sig].id \in closing /\ Go(Sig, "detach") /\ UNCHANGED closing
      BY <2>1, <2>4 DEF NoCircularWait, SigPlace
    <3>2. OthersStay(Sig) /\ at'[Sig].pc = "detach"
      BY <1>0, <2>2, <2>4, <3>1, GoFacts
    <3> QED BY <1>0, <2>1, <2>2, <2>4, <3>1, <3>2, SigMoves DEF OneMoves, SigPlace
  <2> QED BY <2>3, <2>4
<1>3. CASE Detach(t) /\ ~Crash("use after free")
  <2>1. Continue(t) /\ Unlock /\ UNCHANGED closing
    BY <1>3 DEF Detach, sockVars
  <2>2. CASE t \in Callers
    <3>1. Return(t)
      BY <2>1, <2>2 DEF Continue
    <3> QED BY <1>0, <2>1, <2>2, <3>1, CallerGoes DEF Unlock
  <2>3. CASE t = Sig
    BY <1>0, <2>1, <2>3, SigContinues
  <2> QED BY <2>2, <2>3
<1> QED BY <1>1, <1>2, <1>3

\* Every step.
LEMMA WaitStep ==
    ASSUME IInv, NoCircularWait, [Next]_vars
    PROVE  NoCircularWait' /\ (UNCHANGED vars \/ OneStep)
<1>0. TypeOK
  BY DEF IInv
<1>1. CASE UNCHANGED vars
  BY <1>1, NobodyMoves DEF vars, sockVars
<1>2. ASSUME NEW t \in Threads, Guard(t) PROVE NoCircularWait' /\ OneStep
  BY <1>2, NobodyMoves DEF Guard, sockVars
<1> QED BY <1>0, <1>1, <1>2, RequestMoves, EventMoves, ProceedMoves, ReplyMoves, CallbackMoves, ClosingMoves DEF Next

\* No thread that has the poll lock waits for the signaling thread, which may be
\* waiting for the lock in a callback: that is what the HUMBLENET_UNGUARD around
\* each call of the library is for. The signaling thread itself never calls
\* libwebrtc_close_connection, since what it closes is marked `closing'.
THEOREM WaitsCorrect == Spec => []NoCircularWait
<1>1. Init => NoCircularWait
  BY ThreadKinds DEF Init, NoCircularWait, SigPlace, CallerPlace, CallbackPCs, MessagePCs, Idle
<1>2. IInv /\ NoCircularWait /\ [Next]_vars => NoCircularWait'
  BY WaitStep
<1> QED BY <1>1, <1>2, Invariance, PTL DEF Spec

\* With the lock a thread takes one step of its own, and that one gives it up:
\* no Guard covers a wait.
THEOREM LockStepsCorrect == Spec => LockIsGivenUp
<1>1. IInv /\ NoCircularWait /\ [Next]_vars => [OneStep]_vars
  BY WaitStep
<1> QED BY <1>1, Invariance, WaitsCorrect, PTL DEF Spec, LockIsGivenUp
=============================================================================
