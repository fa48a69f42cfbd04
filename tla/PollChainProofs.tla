--------------------------- MODULE PollChainProofs ---------------------------
(***************************************************************************)
(* Proofs about PollChain for any number of websockets, threads of the     *)
(* application and lives of the library: no change of pollfds is lost      *)
(* between the filling of the sets and the wait, and no assertion fails    *)
(* before the library is shut down.                                        *)
(***************************************************************************)
EXTENDS PollChain, TLAPS

-----------------------------------------------------------------------------
(* Type correctness *)

PCs == {"idle", "add_module", "locked", "writing", "interrupt", "interrupt_locked", "relock",
        "deinit", "starting", "loop", "select", "post", "callback", "ended"}

\* Only the owner of the lock is past a Guard.
LockInv ==
    /\ lock \in Threads \cup {NoThread}
    /\ at \in [Threads -> PCs]
    /\ \A t \in Threads : at[t] = "locked" <=> lock = t

LoopTypes ==
    /\ terminate \in BOOLEAN
    /\ pipe \in {"absent", "empty", "full"}
    /\ readset \subseteq Fds /\ writeset \subseteq readset
    /\ fired \subseteq Fds \X {"in", "out"}

ModuleTypes ==
    /\ module \in {"none", "adding", "polled", "removing", "destroyed"}
    /\ intercepted \in BOOLEAN /\ context \in BOOLEAN
    /\ pollfds \subseteq Fds /\ out \subseteq pollfds
    /\ arrived \subseteq pollfds

SessionTypes ==
    /\ crash \in {"no", "no chain", "intercepted", "use after free"}
    /\ sessions \in 0 .. MaxSessions
    /\ g_chain \in BOOLEAN

\* The parts of the types.
LEMMA TypeParts == TypeOK <=> LockInv /\ LoopTypes /\ ModuleTypes /\ SessionTypes
BY DEF TypeOK, LockInv, LoopTypes, ModuleTypes, SessionTypes, PCs

\* A thread that does not hold the lock goes on without it.
LEMMA GoKeepsLock ==
    ASSUME LockInv, NEW t \in Threads, NEW pc \in PCs \ {"locked"}, at[t] # "locked",
           Go(t, pc), UNCHANGED lock
    PROVE  LockInv'
BY DEF LockInv, Go

\* poll_lock keeps the types, whether or not its assertion fails.
LEMMA PollLockTypes ==
    ASSUME LockInv, SessionTypes, NEW t \in Threads, PollLock(t, "locked"), at[t] # "locked"
    PROVE  LockInv' /\ SessionTypes' /\ UNCHANGED <<loopVars, moduleVars, arrived>>
BY PollChainAssumption DEF LockInv, SessionTypes, PollLock, Crash, Go, PCs, Threads

\* poll_unlock keeps the types, whether or not its assertion fails.
LEMMA PollUnlockTypes ==
    ASSUME LockInv, SessionTypes, NEW t \in Threads, NEW pc \in {"idle", "writing"},
           PollUnlock(t, pc), at[t] = "locked"
    PROVE  LockInv' /\ SessionTypes' /\ UNCHANGED <<loopVars, moduleVars, arrived>>
BY PollChainAssumption DEF LockInv, SessionTypes, PollUnlock, Crash, Go, PCs, Threads

\* Every step of a thread keeps the types.
LEMMA TypeStep ==
    ASSUME TypeOK, Next
    PROVE  TypeOK'
<1> USE DEF loopVars, moduleVars
<1>0. LockInv /\ LoopTypes /\ ModuleTypes /\ SessionTypes
  BY TypeParts
<1>c. ASSUME NEW why \in {"no chain", "intercepted", "use after free"}, Crash(why)
      PROVE  TypeOK'
  BY <1>c DEF Crash, TypeOK
<1>l. ASSUME UNCHANGED <<loopVars, moduleVars, arrived>>, LockInv', SessionTypes'
      PROVE  TypeOK'
  BY <1>0, <1>l DEF TypeOK, LockInv, LoopTypes, ModuleTypes, SessionTypes, PCs
<1>1. ASSUME NEW t \in Apps, PollInit(t)
      PROVE  TypeOK'
  <2>1. CASE intercepted
    BY <1>c, <1>1, <2>1 DEF PollInit
  <2>2. CASE ~intercepted
    <3>1. at[Chain] = "ended" /\ at[t] = "idle" /\ t # Chain /\ t \in Threads /\ Chain \in Threads
      BY <1>1, <2>2, PollChainAssumption DEF PollInit, Threads
    <3>2. LockInv'
      BY <1>0, <1>1, <2>2, <3>1 DEF PollInit, LockInv, PCs
    <3>3. LoopTypes'
      BY <1>0, <1>1, <2>2 DEF PollInit, LoopTypes
    <3>4. ModuleTypes'
      BY <1>0, <1>1, <2>2 DEF PollInit, ModuleTypes
    <3>5. sessions' \in 0 .. MaxSessions
      <4>1. sessions' = sessions + 1 /\ sessions < MaxSessions
        BY <1>1, <2>2 DEF PollInit
      <4>2. sessions \in 0 .. MaxSessions
        BY DEF TypeOK
      <4> QED BY <4>1, <4>2, PollChainAssumption
    <3>6. SessionTypes'
      BY <1>0, <1>1, <2>2, <3>5 DEF PollInit, SessionTypes
    <3> QED BY <3>2, <3>3, <3>4, <3>6 DEF TypeOK, LockInv, LoopTypes, ModuleTypes, SessionTypes, PCs
  <2> QED BY <2>1, <2>2
<1>2. ASSUME NEW t \in Apps, Call(t) \/ Relock(t)
      PROVE  TypeOK'
  BY <1>0, <1>l, <1>2, PollLockTypes DEF Call, Relock, Threads
<1>3. CASE Callback
  BY <1>0, <1>l, <1>3, PollLockTypes DEF Callback, Threads
<1>4. ASSUME NEW t \in Apps, Return(t) \/ UnGuard(t)
      PROVE  TypeOK'
  BY <1>0, <1>l, <1>4, PollUnlockTypes DEF Return, UnGuard, Threads
<1>5. ASSUME NEW t \in Apps, NEW f \in Fds, RequestWritable(t, f)
      PROVE  TypeOK'
  <2>1. CASE ~context
    BY <1>c, <1>5, <2>1 DEF RequestWritable
  <2>2. CASE context
    <3>1. LockInv'
      BY <1>0, <1>5, <2>2, GoKeepsLock DEF RequestWritable, Threads, PCs
    <3>2. LoopTypes' /\ ModuleTypes' /\ SessionTypes'
      BY <1>0, <1>5, <2>2 DEF RequestWritable, LoopTypes, ModuleTypes, SessionTypes
    <3> QED BY <3>1, <3>2 DEF TypeOK, LockInv, LoopTypes, ModuleTypes, SessionTypes, PCs
  <2> QED BY <2>1, <2>2
<1>6. ASSUME NEW t \in Apps,
             \/ PollAddModule(t) \/ NoRequest(t) \/ UnlockPoll(t) \/ PollDeinit(t)
             \/ ContextDestroy(t) \/ \E f \in Fds : AddPollFd(t, f)
      PROVE  TypeOK'
  <2>1. at[t] # "locked" /\ UNCHANGED lock /\ \E pc \in PCs \ {"locked"} : Go(t, pc)
    BY <1>6 DEF PollAddModule, NoRequest, UnlockPoll, PollDeinit, ContextDestroy, AddPollFd, PCs
  <2>2. LockInv'
    BY <1>0, <2>1, GoKeepsLock DEF Threads
  <2>3. LoopTypes' /\ SessionTypes'
    BY <1>0, <1>6 DEF PollAddModule, NoRequest, UnlockPoll, PollDeinit, ContextDestroy, AddPollFd,
                      PollInterrupt, ForceUnBlock, LoopTypes, SessionTypes
  <2>4. ModuleTypes'
    BY <1>0, <1>6 DEF PollAddModule, NoRequest, UnlockPoll, PollDeinit, ContextDestroy, AddPollFd,
                      ModuleTypes
  <2> QED BY <2>2, <2>3, <2>4 DEF TypeOK, LockInv, LoopTypes, ModuleTypes, SessionTypes, PCs
<1>7. CASE CallbackReturns
  <2>1. CASE ~g_chain
    BY <1>c, <1>7, <2>1 DEF CallbackReturns
  <2>2. CASE g_chain
    <3>1. LockInv'
      BY <1>0, <1>7, <2>2, PollChainAssumption DEF CallbackReturns, LockInv, Go, PCs, Threads
    <3>2. LoopTypes' /\ SessionTypes'
      BY <1>0, <1>7, <2>2 DEF CallbackReturns, PollInterrupt, ForceUnBlock, LoopTypes, SessionTypes
    <3>3. ModuleTypes'
      BY <1>0, <1>7, <2>2 DEF CallbackReturns, ModuleTypes
    <3> QED BY <3>1, <3>2, <3>3 DEF TypeOK, LockInv, LoopTypes, ModuleTypes, SessionTypes, PCs
  <2> QED BY <2>1, <2>2
<1>8. CASE PostSelectDestroyed
  BY <1>c, <1>8 DEF PostSelectDestroyed
<1>9. ASSUME \/ StartChain \/ PreSelect \/ SelectFails \/ Again \/ EndChain
             \/ \E full \in SUBSET Fds : Select(full)
      PROVE  TypeOK'
  <2>1. at[Chain] # "locked" /\ UNCHANGED lock /\ \E pc \in PCs \ {"locked"} : Go(Chain, pc)
    BY <1>9 DEF StartChain, PreSelect, SelectFails, Again, EndChain, Select, PCs
  <2>2. LockInv'
    BY <1>0, <2>1, GoKeepsLock DEF Threads
  <2>3. ModuleTypes' /\ SessionTypes'
    BY <1>0, <1>9 DEF StartChain, PreSelect, BaseTimer, SelectFails, Again, EndChain, Select,
                      ModuleTypes, SessionTypes
  <2>4. LoopTypes'
    <3>1. CASE PreSelect
      BY <1>0, <3>1 DEF PreSelect, LoopTypes, ModuleTypes
    <3>2. CASE \E full \in SUBSET Fds : Select(full)
      BY <1>0, <3>2 DEF Select, LoopTypes
    <3>3. CASE StartChain \/ SelectFails \/ Again \/ EndChain
      BY <1>0, <3>3 DEF StartChain, SelectFails, Again, EndChain, LoopTypes
    <3> QED BY <1>9, <3>1, <3>2, <3>3
  <2> QED BY <2>2, <2>3, <2>4 DEF TypeOK, LockInv, LoopTypes, ModuleTypes, SessionTypes, PCs
<1>10. ASSUME NEW f \in Fds, NEW event \in {"in", "out"}, PostSelect(f, event)
       PROVE  TypeOK'
  <2>1. LockInv'
    <3>1. CASE f \in pollfds
      BY <1>0, <1>10, <3>1, GoKeepsLock DEF PostSelect, Threads, PCs
    <3>2. CASE f \notin pollfds
      BY <1>0, <1>10, <3>2 DEF PostSelect, LockInv
    <3> QED BY <3>1, <3>2
  <2>2. LoopTypes' /\ SessionTypes'
    BY <1>0, <1>10 DEF PostSelect, PollInterrupt, ForceUnBlock, LoopTypes, SessionTypes
  <2>3. ModuleTypes'
    BY <1>0, <1>10 DEF PostSelect, ModuleTypes
  <2> QED BY <2>1, <2>2, <2>3 DEF TypeOK, LockInv, LoopTypes, ModuleTypes, SessionTypes, PCs
<1>11. CASE Signal
  BY <1>11 DEF Signal, PollInterrupt, ForceUnBlock, TypeOK
<1>12. ASSUME NEW f \in Fds, Arrive(f)
       PROVE  TypeOK'
  BY <1>12 DEF Arrive, TypeOK
<1> QED BY <1>1, <1>2, <1>3, <1>4, <1>5, <1>6, <1>7, <1>8, <1>9, <1>10, <1>11, <1>12
        DEF Next, Request, Proceed, Iterate

\* The poll loop and the lock are well typed; in particular a thread is past
\* poll_lock only if it owns the lock, and only websockets of pollfds have
\* POLLOUT or something to read.
THEOREM TypeCorrect == Spec => []TypeOK
<1>1. Init => TypeOK
  <2> SUFFICES ASSUME Init
               PROVE  TypeOK
    OBVIOUS
  <2>1. LockInv
    BY PollChainAssumption DEF Init, LockInv, Threads, PCs
  <2>2. LoopTypes /\ ModuleTypes
    BY DEF Init, LoopTypes, ModuleTypes
  <2>3. sessions \in 0 .. MaxSessions
    BY PollChainAssumption DEF Init
  <2>4. SessionTypes
    BY <2>3 DEF Init, SessionTypes
  <2> QED BY <2>1, <2>2, <2>4, TypeParts
<1>2. TypeOK /\ [Next]_vars => TypeOK'
  <2>1. CASE UNCHANGED vars
    BY <2>1 DEF vars, loopVars, moduleVars, TypeOK
  <2> QED BY <2>1, TypeStep
<1> QED BY <1>1, <1>2, PTL DEF Spec

-----------------------------------------------------------------------------
(* Changes of pollfds *)

\* The pipe exists while the loop runs, and a loop that is to end has been told.
PipeInv ==
    /\ at[Chain] \in {"loop", "select", "post", "callback", "locked"} => pipe # "absent"
    /\ at[Chain] # "ended" /\ ~g_chain => terminate
    /\ at[Chain] = "select" /\ terminate => pipe = "full"

\* A thread of the application has changed pollfds and will interrupt the select.
Interrupting == \E t \in Apps : at[t] \in {"interrupt", "interrupt_locked"}

ChainInv == PipeInv /\ ChangesAreSeen

\* Every step of a thread keeps PipeInv.
LEMMA PipeStep ==
    ASSUME TypeOK, PipeInv, Next
    PROVE  PipeInv'
<1> USE DEF loopVars, moduleVars
<1>0. Chain \notin Apps /\ LockInv
  BY PollChainAssumption, TypeParts
<1>k. ASSUME NEW t \in Apps, NEW pc, Go(t, pc) PROVE at'[Chain] = at[Chain]
  BY <1>0, <1>k DEF Go, LockInv
<1>c. ASSUME NEW why, Crash(why) PROVE PipeInv'
  BY <1>c DEF Crash, PipeInv
<1>1. ASSUME NEW t \in Apps, PollInit(t)
      PROVE  PipeInv'
  <2>1. CASE intercepted
    BY <1>c, <1>1, <2>1 DEF PollInit
  <2>2. CASE ~intercepted
    BY <1>0, <1>1, <2>2 DEF PollInit, PipeInv, LockInv, Threads
  <2> QED BY <2>1, <2>2
<1>2. ASSUME NEW t \in Apps,
             \/ Call(t) \/ Relock(t) \/ Return(t) \/ UnGuard(t) \/ NoRequest(t)
             \/ \E f \in Fds : RequestWritable(t, f) \/ AddPollFd(t, f)
      PROVE  PipeInv'
  <2>1. \/ \E why : Crash(why)
        \/ UNCHANGED <<pipe, terminate, g_chain>> /\ \E pc : Go(t, pc)
    BY <1>2 DEF Call, Relock, Return, UnGuard, NoRequest, RequestWritable, AddPollFd, PollLock, PollUnlock
  <2> QED BY <1>c, <1>k, <2>1 DEF PipeInv
<1>3. ASSUME NEW t \in Apps, PollAddModule(t) \/ UnlockPoll(t) \/ ContextDestroy(t)
      PROVE  PipeInv'
  <2>1. UNCHANGED <<terminate, g_chain>> /\ pipe' \in {pipe, ForceUnBlock(pipe)} /\ \E pc : Go(t, pc)
    BY <1>3 DEF PollAddModule, UnlockPoll, ContextDestroy, PollInterrupt
  <2> QED BY <1>k, <2>1 DEF PipeInv, ForceUnBlock
<1>4. ASSUME NEW t \in Apps, PollDeinit(t)
      PROVE  PipeInv'
  <2>1. terminate' /\ pipe' = ForceUnBlock(pipe) /\ at'[Chain] = at[Chain]
    BY <1>4, <1>k DEF PollDeinit
  <2> QED BY <2>1 DEF PipeInv, ForceUnBlock
<1>5. CASE Callback
  BY <1>0, <1>5, <1>c DEF Callback, PollLock, Go, LockInv, Threads, PipeInv
<1>6. CASE CallbackReturns
  <2>1. CASE ~g_chain
    BY <1>c, <1>6, <2>1 DEF CallbackReturns
  <2>2. CASE g_chain
    <3>1. at[Chain] = "locked" /\ at'[Chain] = "post" /\ UNCHANGED <<terminate, g_chain>>
          /\ pipe' \in {pipe, ForceUnBlock(pipe)}
      BY <1>0, <1>6, <2>2 DEF CallbackReturns, Go, LockInv, Threads, PollInterrupt
    <3> QED BY <3>1 DEF PipeInv, ForceUnBlock
  <2> QED BY <2>1, <2>2
<1>7. CASE PostSelectDestroyed
  BY <1>c, <1>7 DEF PostSelectDestroyed
<1>8. CASE StartChain \/ PreSelect \/ SelectFails \/ Again \/ EndChain
  <2>1. CASE StartChain \/ EndChain
    BY <1>0, <2>1 DEF StartChain, EndChain, Go, LockInv, Threads, PipeInv
  <2>2. CASE PreSelect
    BY <1>0, <2>2 DEF PreSelect, Go, LockInv, Threads, PipeInv
  <2>3. CASE SelectFails \/ Again
    BY <1>0, <2>3 DEF SelectFails, Again, Go, LockInv, Threads, PipeInv
  <2> QED BY <1>8, <2>1, <2>2, <2>3
<1>9. ASSUME NEW full, Select(full)
      PROVE  PipeInv'
  BY <1>0, <1>9 DEF Select, Go, LockInv, Threads, PipeInv
<1>10. ASSUME NEW f, NEW event, PostSelect(f, event)
       PROVE  PipeInv'
  <2>1. at[Chain] = "post" /\ at'[Chain] \in {"post", "callback"} /\ UNCHANGED <<terminate, g_chain>>
        /\ pipe' \in {pipe, ForceUnBlock(pipe)}
    BY <1>0, <1>10 DEF PostSelect, Go, LockInv, Threads, PollInterrupt
  <2> QED BY <2>1 DEF PipeInv, ForceUnBlock
<1>11. CASE Signal \/ \E f \in Fds : Arrive(f)
  BY <1>11 DEF Signal, Arrive, PollInterrupt, ForceUnBlock, PipeInv
<1> QED BY <1>1, <1>2, <1>3, <1>4, <1>5, <1>6, <1>7, <1>8, <1>9, <1>10, <1>11
        DEF Next, Request, Proceed, Iterate

\* A step that changes neither side and takes no interruption away.
LEMMA SeenAgain ==
    ASSUME ChangesAreSeen, at'[Chain] = "select" => at[Chain] = "select",
           Interrupting => Interrupting', pipe = "full" => pipe' = "full",
           UNCHANGED <<readset, writeset, pollfds, out>>,
           module' \in {"polled", "removing"} => module \in {"polled", "removing"}
    PROVE  ChangesAreSeen'
BY DEF ChangesAreSeen, Interrupting

\* Every step of a thread keeps ChangesAreSeen: who changes pollfds while the
\* loop is past filling its sets is about to interrupt it.
LEMMA ChangesStep ==
    ASSUME TypeOK, PipeInv, PipeInv', ChangesAreSeen, Next
    PROVE  ChangesAreSeen'
<1> USE DEF loopVars, moduleVars
<1>0. Chain \notin Apps /\ LockInv
  BY PollChainAssumption, TypeParts
<1>k. ASSUME NEW t \in Apps, NEW pc, Go(t, pc) PROVE at'[Chain] = at[Chain]
  BY <1>0, <1>k DEF Go, LockInv
<1>i. ASSUME NEW t \in Apps, NEW pc, Go(t, pc), at[t] \notin {"interrupt", "interrupt_locked"}
      PROVE  Interrupting => Interrupting'
  BY <1>0, <1>i DEF Go, LockInv, Interrupting
<1>n. ASSUME at'[Chain] # "select" PROVE ChangesAreSeen'
  BY <1>n DEF ChangesAreSeen
<1>f. ASSUME pipe' = "full" PROVE ChangesAreSeen'
  BY <1>f DEF ChangesAreSeen
<1>p. \A p \in {pipe, ForceUnBlock(pipe)} : pipe = "full" => p = "full"
  BY DEF ForceUnBlock
<1>c. ASSUME NEW why, Crash(why) PROVE ChangesAreSeen'
  BY <1>c DEF Crash, ChangesAreSeen
<1>1. ASSUME NEW t \in Apps, PollInit(t)
      PROVE  ChangesAreSeen'
  <2>1. CASE intercepted
    BY <1>c, <1>1, <2>1 DEF PollInit
  <2>2. CASE ~intercepted
    BY <1>0, <1>n, <1>1, <2>2 DEF PollInit, LockInv, Threads
  <2> QED BY <2>1, <2>2
<1>2. ASSUME NEW t \in Apps, Call(t) \/ Relock(t) \/ Return(t) \/ UnGuard(t) \/ NoRequest(t)
      PROVE  ChangesAreSeen'
  <2>1. \/ \E why : Crash(why)
        \/ /\ UNCHANGED <<pipe, readset, writeset, pollfds, out, module>>
           /\ at[t] \notin {"interrupt", "interrupt_locked"}
           /\ \E pc : Go(t, pc)
    BY <1>2 DEF Call, Relock, Return, UnGuard, NoRequest, PollLock, PollUnlock
  <2> QED BY <1>c, <1>k, <1>i, <2>1, SeenAgain
<1>3. ASSUME NEW t \in Apps, NEW f \in Fds, RequestWritable(t, f) \/ AddPollFd(t, f)
      PROVE  ChangesAreSeen'
  <2>1. \/ \E why : Crash(why)
        \/ Go(t, "interrupt") \/ Go(t, "interrupt_locked")
    BY <1>3 DEF RequestWritable, AddPollFd
  <2>2. ASSUME NEW pc \in {"interrupt", "interrupt_locked"}, Go(t, pc)
        PROVE  Interrupting'
    BY <1>0, <2>2 DEF Go, LockInv, Interrupting, Threads
  <2> QED BY <1>c, <2>1, <2>2 DEF ChangesAreSeen, Interrupting
<1>4. ASSUME NEW t \in Apps, PollAddModule(t)
      PROVE  ChangesAreSeen'
  BY <1>4 DEF PollAddModule, ChangesAreSeen
<1>5. ASSUME NEW t \in Apps, UnlockPoll(t) \/ ContextDestroy(t)
      PROVE  ChangesAreSeen'
  <2>1. at'[Chain] = at[Chain] /\ UNCHANGED <<g_chain, terminate>> /\ PollInterrupt
    BY <1>5, <1>k DEF UnlockPoll, ContextDestroy
  <2>2. CASE at[Chain] = "select"
    <3>1. pipe' = "full"
      BY <2>1, <2>2 DEF PollInterrupt, ForceUnBlock, PipeInv
    <3> QED BY <1>f, <3>1
  <2>3. CASE at[Chain] # "select"
    BY <1>n, <2>1, <2>3
  <2> QED BY <2>2, <2>3
<1>6. ASSUME NEW t \in Apps, PollDeinit(t)
      PROVE  ChangesAreSeen'
  <2>1. at[t] \notin {"interrupt", "interrupt_locked"} /\ \E pc : Go(t, pc)
    BY <1>6 DEF PollDeinit
  <2> QED BY <1>6, <1>k, <1>i, <1>p, <2>1, SeenAgain DEF PollDeinit
<1>7. CASE Callback
  BY <1>0, <1>c, <1>n, <1>7 DEF Callback, PollLock, Go, LockInv, Threads
<1>8. CASE CallbackReturns
  <2>1. CASE ~g_chain
    BY <1>c, <1>8, <2>1 DEF CallbackReturns
  <2>2. CASE g_chain
    BY <1>0, <1>n, <1>8, <2>2 DEF CallbackReturns, Go, LockInv, Threads
  <2> QED BY <2>1, <2>2
<1>9. CASE PostSelectDestroyed
  BY <1>c, <1>9 DEF PostSelectDestroyed
<1>10. CASE PreSelect
  BY <1>10 DEF PreSelect, ChangesAreSeen
<1>11. ASSUME \/ StartChain \/ SelectFails \/ Again \/ EndChain \/ \E full \in SUBSET Fds : Select(full)
       PROVE  ChangesAreSeen'
  <2>1. at'[Chain] # "select"
    BY <1>0, <1>11 DEF StartChain, SelectFails, Again, EndChain, Select, Go, LockInv, Threads
  <2> QED BY <1>n, <2>1
<1>12. ASSUME NEW f \in Fds, NEW event \in {"in", "out"}, PostSelect(f, event)
       PROVE  ChangesAreSeen'
  <2>1. at'[Chain] # "select"
    BY <1>0, <1>12 DEF PostSelect, Go, LockInv, Threads
  <2> QED BY <1>n, <2>1
<1>13. CASE Signal
  <2>1. /\ pipe' \in {pipe, ForceUnBlock(pipe)}
        /\ UNCHANGED <<at, readset, writeset, pollfds, out, module>>
    BY <1>13 DEF Signal, PollInterrupt
  <2> QED BY <1>p, <2>1, SeenAgain DEF Interrupting
<1>14. ASSUME NEW f \in Fds, Arrive(f)
       PROVE  ChangesAreSeen'
  BY <1>14 DEF Arrive, ChangesAreSeen
<1> QED BY <1>1, <1>2, <1>3, <1>4, <1>5, <1>6, <1>7, <1>8, <1>9, <1>10, <1>11, <1>12, <1>13, <1>14
        DEF Next, Request, Proceed, Iterate

\* A change of pollfds that the loop did not see when it filled its sets
\* interrupts its select, or a thread is about to: the change comes before the
\* interruption and the pipe keeps it until the next select.  The induction needs
\* that there is a pipe while the loop runs, and that a loop whose g_chain is gone
\* has been interrupted for good.
THEOREM ChangesCorrect == Spec => []ChangesAreSeen
<1>1. Init => ChainInv
  BY DEF Init, ChainInv, PipeInv, ChangesAreSeen, Threads
<1>2. TypeOK /\ ChainInv /\ [Next]_vars => ChainInv'
  <2>1. CASE UNCHANGED vars
    BY <2>1 DEF vars, loopVars, moduleVars, ChainInv, PipeInv, ChangesAreSeen
  <2>2. ASSUME TypeOK, ChainInv, Next
        PROVE  ChainInv'
    BY <2>2, PipeStep, ChangesStep DEF ChainInv
  <2> QED BY <2>1, <2>2
<1>3. ChainInv => ChangesAreSeen
  BY DEF ChainInv
<1> QED BY <1>1, <1>2, <1>3, TypeCorrect, PTL DEF Spec

-----------------------------------------------------------------------------
(* Assertions and freed memory *)

\* The library has not been shut down yet: at most one life of it has begun, and
\* nobody has asked for the removal of the module.
NeverShutDown == sessions <= 1 /\ module \notin {"removing", "destroyed"}

\* The assertions of poll_lock, poll_unlock and the module's constructor hold, and
\* the context is not used after its end, until humblenet_p2p_shutdown is called:
\* every failure of the loop follows a shutdown.
FailuresFollowShutdown == NeverShutDown => crash = "no"

\* The thread that initializes the library adds the module once.
AddsOnce ==
    /\ sessions = 0 => module = "none" /\ \A t \in Apps : at[t] # "add_module"
    /\ sessions <= 1 =>
        /\ \A t, u \in Apps : at[t] = "add_module" /\ at[u] = "add_module" => t = u
        /\ context \/ module \in {"removing", "destroyed"} => \A t \in Apps : at[t] # "add_module"

\* Until a shutdown there is a chain from the first initialization on, and a
\* context from the addition of the module on; whoever takes the lock or has a
\* websocket to serve finds them.
ChainIsUp ==
    NeverShutDown =>
        /\ crash = "no"
        /\ \A t \in Apps : at[t] # "deinit"
        /\ g_chain <=> sessions = 1
        /\ context <=> module \in {"adding", "polled"}
        /\ context => g_chain
        /\ intercepted => g_chain
        /\ (fired # {} \/ readset # {} \/ pollfds # {}) => context
        /\ at[Chain] \in {"callback", "locked"} => g_chain
        /\ \A t \in Apps : at[t] \notin {"idle", "add_module"} => context

UpInv == AddsOnce /\ ChainIsUp

\* Every step of a thread keeps the chain and the context up until a shutdown.
LEMMA UpStep ==
    ASSUME TypeOK, UpInv, Next
    PROVE  UpInv'
<1> USE PollChainAssumption
<1>0. LockInv /\ LoopTypes /\ ModuleTypes /\ SessionTypes
  BY TypeParts
<1>s. sessions \in Nat
  <2>1. sessions \in 0 .. MaxSessions
    BY <1>0 DEF SessionTypes
  <2> QED BY <2>1
<1>1. ASSUME NEW t \in Apps, PollInit(t)
      PROVE  UpInv'
  <2>1. sessions \in Nat
    BY <1>s
  <2>2. CASE intercepted
    <3>1. ~ NeverShutDown
      BY <1>1, <2>2 DEF PollInit, UpInv, ChainIsUp
    <3> QED BY <1>1, <2>2, <3>1 DEF PollInit, Crash, UpInv, AddsOnce, ChainIsUp, NeverShutDown, loopVars, moduleVars
  <2>3. CASE ~ intercepted
    <3>1. /\ sessions' = sessions + 1
          /\ g_chain' /\ ~ terminate'
          /\ at' = [at EXCEPT ![t] = "add_module", ![Chain] = "starting"]
          /\ UNCHANGED <<crash, module, context, pollfds, fired, readset>>
      BY <1>1, <2>3 DEF PollInit
    <3>2. \A u \in Apps : at'[u] = IF u = t THEN "add_module" ELSE at[u]
      BY <1>0, <3>1 DEF LockInv, Threads
    <3>3. at'[Chain] = "starting"
      BY <1>0, <3>1 DEF LockInv, Threads
    <3>4. CASE sessions = 0
      <4>1. NeverShutDown /\ module = "none" /\ \A u \in Apps : at[u] # "add_module"
        BY <2>1, <3>4 DEF UpInv, AddsOnce, NeverShutDown
      <4>2. ~ g_chain /\ ~ context /\ crash = "no"
        BY <1>1, <4>1 DEF PollInit, UpInv, ChainIsUp
      <4>3. fired = {} /\ readset = {} /\ pollfds = {}
        BY <4>1, <4>2 DEF UpInv, ChainIsUp
      <4>4. \A u \in Apps : at'[u] \in {"idle", "add_module"}
        BY <3>2, <4>1, <4>2 DEF UpInv, ChainIsUp
      <4>5. sessions' = 1 /\ module' = "none" /\ ~ context' /\ crash' = "no"
        BY <3>1, <3>4, <4>1, <4>2
      <4>6. \A u \in Apps : at'[u] = "add_module" => u = t
        BY <3>2, <4>1
      <4>7. AddsOnce'
        BY <4>5, <4>6 DEF AddsOnce
      <4>8. ChainIsUp'
        BY <3>1, <3>3, <4>3, <4>4, <4>5 DEF ChainIsUp
      <4> QED BY <4>7, <4>8 DEF UpInv
    <3>5. CASE sessions # 0
      BY <2>1, <3>1, <3>5 DEF UpInv, AddsOnce, ChainIsUp, NeverShutDown
    <3> QED BY <3>4, <3>5
  <2> QED BY <2>2, <2>3
<1>2. ASSUME NEW t \in Apps, PollAddModule(t)
      PROVE  UpInv'
  <2>1. sessions \in Nat /\ at[t] = "add_module" /\ sessions # 0
    BY <1>s, <1>2 DEF PollAddModule, UpInv, AddsOnce
  <2>2. \A u \in Threads : at'[u] = IF u = t THEN "idle" ELSE at[u]
    BY <1>0, <1>2 DEF PollAddModule, Go, LockInv
  <2>3. /\ module' = "adding" /\ context'
        /\ UNCHANGED <<crash, sessions, g_chain, intercepted, fired, readset, pollfds>>
    BY <1>2 DEF PollAddModule
  <2>4. CASE sessions > 1
    BY <2>1, <2>3, <2>4 DEF UpInv, AddsOnce, ChainIsUp, NeverShutDown
  <2>5. CASE sessions = 1
    <3>1. NeverShutDown /\ \A u \in Apps : at[u] = "add_module" => u = t
      BY <2>1, <2>5 DEF UpInv, AddsOnce, NeverShutDown
    <3>2. AddsOnce'
      BY <2>2, <2>3, <2>5, <3>1 DEF AddsOnce, Threads
    <3>3. ChainIsUp'
      BY <2>2, <2>3, <2>5, <3>1 DEF UpInv, ChainIsUp, Threads
    <3> QED BY <3>2, <3>3 DEF UpInv
  <2> QED BY <2>1, <2>4, <2>5
<1>3. ASSUME NEW t \in Apps, NEW f \in Fds, AddPollFd(t, f)
      PROVE  UpInv'
  BY <1>0, <1>3 DEF AddPollFd, Go, UpInv, AddsOnce, ChainIsUp, NeverShutDown, LockInv, Threads, loopVars
<1>4. ASSUME NEW t \in Apps, Call(t) \/ Relock(t)
      PROVE  UpInv'
  BY <1>0, <1>4 DEF Call, Relock, PollLock, Crash, Go, UpInv, AddsOnce, ChainIsUp, NeverShutDown, LockInv, Threads,
     loopVars, moduleVars
<1>5. ASSUME NEW t \in Apps, Return(t) \/ UnGuard(t)
      PROVE  UpInv'
  BY <1>0, <1>5 DEF Return, UnGuard, PollUnlock, Crash, Go, UpInv, AddsOnce, ChainIsUp, NeverShutDown, LockInv,
     Threads, loopVars, moduleVars
<1>6. ASSUME NEW t \in Apps, NEW f \in Fds, RequestWritable(t, f)
      PROVE  UpInv'
  BY <1>0, <1>6 DEF RequestWritable, Crash, Go, UpInv, AddsOnce, ChainIsUp, NeverShutDown, LockInv, Threads,
     loopVars, moduleVars
<1>7. ASSUME NEW t \in Apps, NoRequest(t) \/ UnlockPoll(t)
      PROVE  UpInv'
  BY <1>0, <1>7 DEF NoRequest, UnlockPoll, Go, UpInv, AddsOnce, ChainIsUp, NeverShutDown, LockInv, Threads,
     loopVars, moduleVars
<1>8. ASSUME NEW t \in Apps, ContextDestroy(t)
      PROVE  UpInv'
  BY <1>0, <1>8 DEF ContextDestroy, Go, UpInv, AddsOnce, ChainIsUp, NeverShutDown, LockInv, Threads
<1>9. ASSUME NEW t \in Apps, PollDeinit(t)
      PROVE  UpInv'
  BY <1>0, <1>9 DEF PollDeinit, Go, UpInv, AddsOnce, ChainIsUp, NeverShutDown, LockInv, Threads, moduleVars
<1>10. CASE StartChain \/ SelectFails \/ Again
  BY <1>0, <1>10 DEF StartChain, SelectFails, Again, Go, UpInv, AddsOnce, ChainIsUp, NeverShutDown, LockInv, Threads,
     loopVars, moduleVars
<1>11. CASE PreSelect
  BY <1>0, <1>11 DEF PreSelect, BaseTimer, Go, UpInv, AddsOnce, ChainIsUp, NeverShutDown, LockInv, ModuleTypes,
     Threads
<1>12. ASSUME NEW full \in SUBSET Fds, Select(full)
       PROVE  UpInv'
  BY <1>0, <1>12 DEF Select, Go, UpInv, AddsOnce, ChainIsUp, NeverShutDown, LockInv, LoopTypes, Threads, moduleVars
<1>13. ASSUME NEW f \in Fds, NEW event \in {"in", "out"}, PostSelect(f, event)
       PROVE  UpInv'
  BY <1>0, <1>13 DEF PostSelect, Go, UpInv, AddsOnce, ChainIsUp, NeverShutDown, LockInv, Threads
<1>14. CASE PostSelectDestroyed
  BY <1>0, <1>14 DEF PostSelectDestroyed, Crash, UpInv, AddsOnce, ChainIsUp, NeverShutDown, loopVars, moduleVars
<1>15. CASE Callback \/ CallbackReturns
  BY <1>0, <1>15 DEF Callback, CallbackReturns, PollLock, Crash, Go, UpInv, AddsOnce, ChainIsUp, NeverShutDown,
     LockInv, Threads, loopVars, moduleVars
<1>16. CASE EndChain
  BY <1>0, <1>16 DEF EndChain, Go, UpInv, AddsOnce, ChainIsUp, NeverShutDown, LockInv, Threads
<1>17. CASE Signal \/ \E f \in Fds : Arrive(f)
  BY <1>17 DEF Signal, Arrive, UpInv, AddsOnce, ChainIsUp, NeverShutDown, loopVars, moduleVars
<1> QED BY <1>1, <1>2, <1>3, <1>4, <1>5, <1>6, <1>7, <1>8, <1>9, <1>10, <1>11, <1>12, <1>13, <1>14, <1>15,
        <1>16, <1>17 DEF Next, Request, Proceed, Iterate

\* Whatever the threads of the application and the loop do, an assertion about
\* the chain or the module fails, or a destroyed context is used, only in a
\* process that has called humblenet_p2p_shutdown.
THEOREM FailuresCorrect == Spec => []FailuresFollowShutdown
<1>1. Init => UpInv
  BY PollChainAssumption DEF Init, UpInv, AddsOnce, ChainIsUp, NeverShutDown, Threads
<1>2. TypeOK /\ UpInv /\ [Next]_vars => UpInv'
  <2>1. CASE UNCHANGED vars
    BY <2>1 DEF vars, loopVars, moduleVars, UpInv, AddsOnce, ChainIsUp, NeverShutDown
  <2> QED BY <2>1, UpStep
<1>3. UpInv => FailuresFollowShutdown
  BY DEF UpInv, ChainIsUp, FailuresFollowShutdown
<1> QED BY <1>1, <1>2, <1>3, TypeCorrect, PTL DEF Spec
=============================================================================
