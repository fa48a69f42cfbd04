----------------------------- MODULE PollChain ------------------------------
(***************************************************************************)
(* The poll loop: the thread that runs the chain of modules, the pipe that *)
(* interrupts its select, the module that puts the websockets into the     *)
(* select and serves them, the lock, and the start and end of it all.      *)
(*                                                                         *)
(* This is the build with FULL_ASYNC, the only one libpoll.cpp can be      *)
(* compiled to: the loop is Microstack's ILibStartChain on a thread of its *)
(* own, which takes the lock only in the callbacks.  The threads of the    *)
(* application change pollfds without a lock and interrupt the select      *)
(* afterwards.  The change of one entry is taken to be atomic, and a       *)
(* reallocation of pollfds under the loop is left out.                     *)
(***************************************************************************)
EXTENDS Naturals, FiniteSets

CONSTANTS
    Fds,         \* the websockets
    Apps,        \* threads of the application
    Chain,       \* the thread of the chain
    NoThread,    \* the lock is free
    MaxSessions  \* bound: the times the library is initialized

ASSUME PollChainAssumption ==
    /\ Chain \notin Apps
    /\ NoThread \notin Apps \cup {Chain}
    /\ MaxSessions \in Nat

VARIABLES
    lock,        \* the owner of PollLock
    at,          \* what each thread is doing
    crash,       \* the process has died, and of what
    sessions,    \* how often the library was initialized
    g_chain,     \* g_chain is not NULL
    terminate,   \* TerminateFlag
    pipe,        \* the pipe of the select: "absent", "empty" or "full"
    module,      \* the websocket module: whether it is in the chain
    intercepted, \* protocols[0].callback is the module's
    context,     \* the libwebsocket_context exists
    pollfds,     \* the entries of pollfds
    out,         \* those of them with POLLOUT
    readset,     \* what the select waits for
    writeset,
    fired,       \* what it found and has not been served yet
    arrived      \* the websockets with something to read

Threads == Apps \cup {Chain}
loopVars    == <<terminate, pipe, readset, writeset, fired>>
moduleVars  == <<module, intercepted, context, pollfds, out>>
vars == <<lock, at, crash, sessions, g_chain, loopVars, moduleVars, arrived>>

Init ==
    /\ lock = NoThread
    /\ at = [t \in Threads |-> IF t = Chain THEN "ended" ELSE "idle"]
    /\ crash = "no"
    /\ sessions = 0
    /\ g_chain = FALSE /\ terminate = FALSE
    /\ pipe = "absent"
    /\ module = "none" /\ intercepted = FALSE /\ context = FALSE
    /\ pollfds = {} /\ out = {}
    /\ readset = {} /\ writeset = {} /\ fired = {}
    /\ arrived = {}

Go(t, pc) == at' = [at EXCEPT ![t] = pc]

\* An assertion fails or freed memory is used.
Crash(why) ==
    /\ crash' = why
    /\ UNCHANGED <<lock, at, sessions, g_chain, loopVars, moduleVars, arrived>>

\* ILibForceUnBlockChain, and what poll_interrupt makes of it.
ForceUnBlock(p) == IF p = "absent" THEN p ELSE "full"
PollInterrupt == pipe' = IF g_chain THEN ForceUnBlock(pipe) ELSE pipe

-----------------------------------------------------------------------------
(* The lock. *)

\* poll_lock and poll_unlock, which assert that there is a chain.
PollLock(t, pc) ==
    IF ~g_chain THEN Crash("no chain")
    ELSE /\ lock = NoThread
         /\ lock' = t
         /\ Go(t, pc)
         /\ UNCHANGED <<crash, sessions, g_chain, loopVars, moduleVars, arrived>>

PollUnlock(t, pc) ==
    IF ~g_chain THEN Crash("no chain")
    ELSE /\ lock' = NoThread
         /\ Go(t, pc)
         /\ UNCHANGED <<crash, sessions, g_chain, loopVars, moduleVars, arrived>>

-----------------------------------------------------------------------------
(* The threads of the application. *)

\* poll_init with the module of libwebsocket_create_context_extended, from
\* humblenet_p2p_init.  The module hooks itself into protocols[0], where it must
\* not find the hook of an earlier one.  A chain that has not ended yet is
\* followed only if that fails.
PollInit(t) ==
    /\ at[t] = "idle"
    /\ ~g_chain
    /\ sessions < MaxSessions
    /\ at[Chain] = "ended" \/ intercepted
    /\ IF intercepted
       THEN Crash("intercepted")
       ELSE /\ sessions' = sessions + 1
            /\ g_chain' = TRUE
            /\ terminate' = FALSE
            /\ intercepted' = TRUE
            /\ at' = [at EXCEPT ![t] = "add_module", ![Chain] = "starting"]
            /\ UNCHANGED <<lock, crash, pipe, readset, writeset, fired,
                           module, context, pollfds, out, arrived>>

\* poll_add_module: a timer of 0 ms.
PollAddModule(t) ==
    /\ at[t] = "add_module"
    /\ module' = "adding"
    /\ context' = TRUE
    /\ pipe' = ForceUnBlock(pipe)
    /\ Go(t, "idle")
    /\ UNCHANGED <<lock, crash, sessions, g_chain, terminate, readset, writeset, fired,
                   intercepted, pollfds, out, arrived>>

\* LWS_CALLBACK_ADD_POLL_FD, when a websocket is opened.
AddPollFd(t, f) ==
    /\ at[t] = "idle"
    /\ context /\ f \notin pollfds
    /\ pollfds' = pollfds \cup {f}
    /\ Go(t, "interrupt")
    /\ UNCHANGED <<lock, crash, sessions, g_chain, loopVars, module, intercepted, context,
                   out, arrived>>

\* A call of the application: HUMBLENET_GUARD.
Call(t) == at[t] = "idle" /\ context /\ PollLock(t, "locked")

Return(t) == at[t] = "locked" /\ PollUnlock(t, "idle")

\* HUMBLENET_UNGUARD around internal_write_socket.
UnGuard(t) == at[t] = "locked" /\ PollUnlock(t, "writing")

\* LWS_CALLBACK_CHANGE_MODE_POLL_FD: a writable callback is requested.
RequestWritable(t, f) ==
    /\ at[t] = "writing"
    /\ IF ~context
       THEN Crash("use after free")
       ELSE /\ f \in pollfds
            /\ out' = out \cup {f}
            /\ Go(t, "interrupt_locked")
            /\ UNCHANGED <<lock, crash, sessions, g_chain, loopVars, module, intercepted,
                           context, pollfds, arrived>>

\* There is no websocket to write to.
NoRequest(t) ==
    /\ at[t] = "writing"
    /\ Go(t, "relock")
    /\ UNCHANGED <<lock, crash, sessions, g_chain, loopVars, moduleVars, arrived>>

\* Mutant: the change is left for the next select to find.
UnlockPollSilently(t) ==
    /\ at[t] \in {"interrupt", "interrupt_locked"}
    /\ Go(t, IF at[t] = "interrupt" THEN "idle" ELSE "relock")
    /\ UNCHANGED <<lock, crash, sessions, g_chain, loopVars, moduleVars, arrived>>

\* LWS_CALLBACK_UNLOCK_POLL: the select is interrupted after the change.
UnlockPoll(t) ==
    /\ at[t] \in {"interrupt", "interrupt_locked"}
    /\ PollInterrupt
    /\ Go(t, IF at[t] = "interrupt" THEN "idle" ELSE "relock")
    /\ UNCHANGED <<lock, crash, sessions, g_chain, terminate, readset, writeset, fired,
                   moduleVars, arrived>>

Relock(t) == at[t] = "relock" /\ PollLock(t, "locked")

\* signal(), from any thread.
Signal ==
    /\ pipe = "empty"
    /\ PollInterrupt
    /\ UNCHANGED <<lock, at, crash, sessions, g_chain, terminate, readset, writeset, fired,
                   moduleVars, arrived>>

\* libwebsocket_context_destroy, from humblenet_p2p_shutdown: the websockets are
\* closed (LWS_CALLBACK_DEL_POLL_FD) and poll_extension_callback asks for the
\* removal of the module, a second later.
ContextDestroy(t) ==
    /\ at[t] = "idle" /\ context
    /\ pollfds' = {} /\ out' = {} /\ arrived' = {}
    /\ context' = FALSE
    /\ module' = "removing"
    /\ PollInterrupt
    /\ Go(t, "deinit")
    /\ UNCHANGED <<lock, crash, sessions, g_chain, terminate, readset, writeset, fired, intercepted>>

\* Mutant: the loop is left to notice the flag.
PollDeinitSilently(t) ==
    /\ at[t] = "deinit"
    /\ terminate' = TRUE
    /\ g_chain' = FALSE
    /\ Go(t, "idle")
    /\ UNCHANGED <<lock, crash, sessions, pipe, readset, writeset, fired, moduleVars, arrived>>

\* poll_deinit: ILibStopChain.
PollDeinit(t) ==
    /\ at[t] = "deinit"
    /\ terminate' = TRUE
    /\ pipe' = ForceUnBlock(pipe)
    /\ g_chain' = FALSE
    /\ Go(t, "idle")
    /\ UNCHANGED <<lock, crash, sessions, readset, writeset, fired, moduleVars, arrived>>

-----------------------------------------------------------------------------
(* The thread of the chain. *)

\* ILibStartChain makes the pipe.
StartChain ==
    /\ at[Chain] = "starting"
    /\ pipe' = "empty"
    /\ Go(Chain, "loop")
    /\ UNCHANGED <<lock, crash, sessions, g_chain, terminate, readset, writeset, fired,
                   moduleVars, arrived>>

\* The base timer adds the module (ILibChain_SafeAdd), and removes it when its
\* second is over (ILibChain_SafeDestroySink).
BaseTimer ==
    module' \in CASE module = "adding"   -> {"polled"}
                  [] module = "removing" -> {"removing", "destroyed"}
                  [] OTHER               -> {module}

\* The base timer comes first (OnPreDestroy gives protocols[0] its callback
\* back); then OnPreSelect fills the sets.
PreSelect ==
    /\ at[Chain] = "loop" /\ ~terminate
    /\ BaseTimer
    /\ intercepted' = (intercepted /\ module' # "destroyed")
    /\ readset'  = IF module' \in {"polled", "removing"} THEN pollfds ELSE {}
    /\ writeset' = IF module' \in {"polled", "removing"} THEN out ELSE {}
    /\ Go(Chain, "select")
    /\ UNCHANGED <<lock, crash, sessions, g_chain, terminate, pipe, fired, context, pollfds,
                   out, arrived>>

\* Mutant: what can be written is not looked at.
SelectReading(full) ==
    /\ at[Chain] = "select"
    /\ fired' = {<<f, "in">> : f \in readset \cap arrived}
    /\ pipe = "full" \/ fired' # {} \/ module \in {"adding", "removing"}
    /\ pipe' = "empty"
    /\ Go(Chain, "post")
    /\ UNCHANGED <<lock, crash, sessions, g_chain, terminate, readset, writeset, moduleVars, arrived>>

\* The select returns for the pipe, which is emptied, for the websockets, of
\* which those in `full' have no room to write, or for a timer.
Select(full) ==
    /\ at[Chain] = "select"
    /\ fired' = {<<f, "in">> : f \in readset \cap arrived} \cup {<<f, "out">> : f \in writeset \ full}
    /\ pipe = "full" \/ fired' # {} \/ module \in {"adding", "removing"}
    /\ pipe' = "empty"
    /\ Go(Chain, "post")
    /\ UNCHANGED <<lock, crash, sessions, g_chain, terminate, readset, writeset, moduleVars, arrived>>

\* One of the websockets of the select was closed meanwhile.
SelectFails ==
    /\ at[Chain] = "select"
    /\ readset \ pollfds # {}
    /\ fired' = {}
    /\ Go(Chain, "post")
    /\ UNCHANGED <<lock, crash, sessions, g_chain, terminate, pipe, readset, writeset,
                   moduleVars, arrived>>

\* OnPostSelect gives an entry of pollfds to libwebsocket_service_fd, which takes
\* POLLOUT away (and interrupts the next select) before it calls back.
PostSelect(f, event) ==
    /\ at[Chain] = "post"
    /\ <<f, event>> \in fired
    /\ fired' = fired \ {<<f, event>>}
    /\ IF f \in pollfds
       THEN /\ out' = IF event = "out" THEN out \ {f} ELSE out
            /\ arrived' = IF event = "in" THEN arrived \ {f} ELSE arrived
            /\ IF event = "out" THEN PollInterrupt ELSE UNCHANGED pipe
            /\ Go(Chain, "callback")
       ELSE UNCHANGED <<out, arrived, pipe, at>>
    /\ UNCHANGED <<lock, crash, sessions, g_chain, terminate, readset, writeset, module,
                   intercepted, context, pollfds>>

\* The context is destroyed while OnPostSelect goes through pollfds.
PostSelectDestroyed ==
    /\ at[Chain] = "post"
    /\ fired # {} /\ ~context
    /\ Crash("use after free")

\* The modules are through.
Again ==
    /\ at[Chain] = "post" /\ fired = {}
    /\ Go(Chain, "loop")
    /\ UNCHANGED <<lock, crash, sessions, g_chain, loopVars, moduleVars, arrived>>

\* HUMBLENET_GUARD of on_connect, on_data and the others.
Callback == at[Chain] = "callback" /\ PollLock(Chain, "locked")

\* Mutant: a websocket that is closed leaves its request behind.
CallbackReturnsKeepingOut ==
    /\ at[Chain] = "locked"
    /\ g_chain
    /\ PollInterrupt
    /\ \E f \in pollfds :
          \/ out' = out \cup {f} /\ UNCHANGED <<pollfds, arrived>>
          \/ /\ pollfds' = pollfds \ {f}
             /\ arrived' = arrived \ {f}
             /\ UNCHANGED out
    /\ lock' = NoThread
    /\ Go(Chain, "post")
    /\ UNCHANGED <<crash, sessions, g_chain, terminate, readset, writeset, fired,
                   module, intercepted, context>>

\* The callback requests a writable callback, makes the library close the
\* websocket, or does neither; both interrupt the next select.
CallbackReturns ==
    /\ at[Chain] = "locked"
    /\ IF ~g_chain
       THEN Crash("no chain")
       ELSE /\ \/ UNCHANGED <<pollfds, out, arrived, pipe>>
               \/ \E f \in pollfds :
                     /\ PollInterrupt
                     /\ \/ out' = out \cup {f} /\ UNCHANGED <<pollfds, arrived>>
                        \/ /\ pollfds' = pollfds \ {f}
                           /\ out' = out \ {f}
                           /\ arrived' = arrived \ {f}
            /\ lock' = NoThread
            /\ Go(Chain, "post")
            /\ UNCHANGED <<crash, sessions, g_chain, terminate, readset, writeset, fired,
                           module, intercepted, context>>

\* After the loop: the modules in the chain are destroyed, the chain is freed.
\* A module that was not added yet is forgotten with the timer that would add it.
EndChain ==
    /\ at[Chain] = "loop" /\ terminate
    /\ module' = IF module \in {"polled", "removing"} THEN "destroyed" ELSE module
    /\ intercepted' = (intercepted /\ module' # "destroyed")
    /\ pipe' = "absent"
    /\ Go(Chain, "ended")
    /\ UNCHANGED <<lock, crash, sessions, g_chain, terminate, readset, writeset, fired,
                   context, pollfds, out, arrived>>

\* Something to read arrives.
Arrive(f) ==
    /\ f \in pollfds \ arrived
    /\ arrived' = arrived \cup {f}
    /\ UNCHANGED <<lock, at, crash, sessions, g_chain, loopVars, moduleVars>>

-----------------------------------------------------------------------------
\* What a thread of the application starts, and how it goes on.
Request(t) ==
    \/ PollInit(t) \/ Call(t) \/ ContextDestroy(t)
    \/ \E f \in Fds : AddPollFd(t, f)

Proceed(t) ==
    \/ PollAddModule(t) \/ Return(t) \/ UnGuard(t) \/ NoRequest(t) \/ UnlockPoll(t) \/ PollDeinit(t)
    \/ \E f \in Fds : RequestWritable(t, f)

Iterate ==
    \/ StartChain \/ PreSelect \/ SelectFails \/ PostSelectDestroyed \/ Again
    \/ CallbackReturns \/ EndChain
    \/ \E f \in Fds : PostSelect(f, "in") \/ PostSelect(f, "out")

Next ==
    /\ crash = "no"
    /\ \/ \E t \in Apps : Request(t) \/ Proceed(t) \/ Relock(t)
       \/ Iterate \/ Callback \/ Signal
       \/ \E full \in SUBSET Fds : Select(full)
       \/ \E f \in Fds : Arrive(f)

Spec == Init /\ [][Next]_vars

\* Threads that can go on do, a lock that is free again and again is got, and
\* a websocket has room to write again and again.
Fairness ==
    /\ \A t \in Apps :
          /\ WF_vars(crash = "no" /\ Proceed(t))
          /\ SF_vars(crash = "no" /\ Relock(t))
    /\ WF_vars(crash = "no" /\ Iterate)
    /\ SF_vars(crash = "no" /\ Callback)
    /\ WF_vars(crash = "no" /\ \E full \in SUBSET Fds : Select(full))
    /\ SF_vars(crash = "no" /\ Select({}))

FairSpec == Spec /\ Fairness

-----------------------------------------------------------------------------
(* Properties. *)

TypeOK ==
    /\ lock \in Threads \cup {NoThread}
    /\ \A t \in Threads : at[t] = "locked" <=> lock = t
    /\ at \in [Threads -> {"idle", "add_module", "locked", "writing", "interrupt", "interrupt_locked",
                           "relock", "deinit", "starting", "loop", "select", "post", "callback",
                           "ended"}]
    /\ crash \in {"no", "no chain", "intercepted", "use after free"}
    /\ sessions \in 0 .. MaxSessions
    /\ g_chain \in BOOLEAN /\ terminate \in BOOLEAN
    /\ pipe \in {"absent", "empty", "full"}
    /\ module \in {"none", "adding", "polled", "removing", "destroyed"}
    /\ intercepted \in BOOLEAN /\ context \in BOOLEAN
    /\ pollfds \subseteq Fds /\ out \subseteq pollfds
    /\ readset \subseteq Fds /\ writeset \subseteq readset
    /\ fired \subseteq Fds \X {"in", "out"}
    /\ arrived \subseteq pollfds

\* A select that waits for something other than what pollfds asks for is
\* interrupted, or is about to be: no change made while the loop is anywhere
\* between filling its sets and waiting is lost.
ChangesAreSeen ==
    at[Chain] = "select" /\ module \in {"polled", "removing"} /\ <<readset, writeset>> # <<pollfds, out>>
        => pipe = "full" \/ \E t \in Apps : at[t] \in {"interrupt", "interrupt_locked"}

\* What arrives on a websocket is read and a request for a writable callback is
\* served, or the websocket is closed.
WebsocketsAreServed ==
    \A f \in Fds :
        /\ f \in arrived ~> f \notin arrived \/ crash # "no"
        /\ f \in out ~> f \notin out \/ crash # "no"

\* "shutdown the polling system": the loop ends, and the module with it.
StoppedChainEnds == terminate ~> at[Chain] = "ended" \/ crash # "no"
=============================================================================
