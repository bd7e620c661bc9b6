------------------------------ MODULE Network ------------------------------
(* The sockets of IOS and the calls on them that must not block the thread    *)
(* that made them (src/src/platform/net): name lookups on host threads, polls *)
(* and blocking connects parked for the scheduler's completion pump. A guest  *)
(* thread that makes such a call sleeps on a queue in its own stack, and the  *)
(* pump commits the result and wakes it; an asynchronous call gets a callback.*)
(* Meanwhile sockets are closed and their slots and host descriptors reused,  *)
(* and the sleeping threads may be cancelled and created again.               *)
EXTENDS Naturals, FiniteSets

CONSTANTS
    Threads,        \* guest threads, and with each the stack frame it waits in
    Fds,            \* slots of g_sockets, searched in their order
    Natives,        \* host socket descriptors, which the host reuses
    Sessions,       \* slots of g_sslSessions
    MaxToken,       \* bound on the deferred calls made
    MaxGeneration,  \* bound on the socket generations handed out
    Closed,         \* kInvalidSocket
    NoFd,           \* an SSL session that has no socket yet
    NoThread        \* the waiter of an asynchronous call

ASSUME NetworkAssumption ==
    /\ MaxToken \in Nat /\ MaxGeneration \in Nat
    /\ Fds \subseteq Nat /\ Sessions \subseteq Nat
    /\ Closed \notin Natives /\ NoFd \notin Fds /\ NoThread \notin Threads

VARIABLES
    thread,      \* guest thread -> its state and the token its call was given
    cookie,      \* waitQueue + 8 in each thread's stack frame
    socket,      \* g_sockets: host descriptor, generation, guest flag, peer
    host,        \* the host's side of each descriptor
    generation,  \* g_nextSocketGeneration
    token,       \* nextToken
    lookups,     \* the jobs of the detached DNS workers
    completed,   \* DeferredNetworkStore::completed
    polls,       \* pendingPolls
    connects,    \* pendingConnects
    results,     \* syncResults, by their tokens: what was answered is not kept
    callbacks,   \* the tokens of the IOS callbacks queued for the guest
    session      \* g_sslSessions

vars == <<thread, cookie, socket, host, generation, token, lookups, completed,
          polls, connects, results, callbacks, session>>

jobs == <<lookups, completed, polls, connects, results, callbacks>>

Free == [native |-> Closed, generation |-> 0, nonblocking |-> FALSE,
         peer |-> 0, port |-> 0]
Inactive == [active |-> FALSE, fd |-> NoFd, native |-> Closed]

Init ==
    /\ thread = [t \in Threads |-> [state |-> "running", token |-> 0]]
    /\ cookie = [t \in Threads |-> 0]
    /\ socket = [f \in Fds |-> Free]
    /\ host = [n \in Natives |-> "unused"]
    /\ generation = 1
    /\ token = 1
    /\ lookups = {} /\ completed = {} /\ polls = {} /\ connects = {}
    /\ results = {} /\ callbacks = {}
    /\ session = [s \in Sessions |-> Inactive]

\* A job is parked with the identity of the socket it was made for; the slot
\* alone does not identify it.
Current(job) ==
    /\ socket[job.fd].native # Closed
    /\ socket[job.fd].native = job.native
    /\ socket[job.fd].generation = job.generation

-----------------------------------------------------------------------------
(* Sockets *)

NewSocket(f, n) ==
    /\ socket[f].native = Closed
    /\ \A g \in Fds : g < f => socket[g].native # Closed
    /\ host[n] = "unused"
    /\ generation < MaxGeneration
    /\ socket' = [socket EXCEPT ![f] = [native |-> n, generation |-> generation,
                                        nonblocking |-> FALSE, peer |-> 0, port |-> 0]]
    /\ generation' = generation + 1
    /\ host' = [host EXCEPT ![n] = "idle"]
    /\ UNCHANGED <<thread, cookie, token, jobs, session>>

\* The connects parked on slots that have no result yet fail.
Aborted(fds) ==
    {IF c.fd \in fds /\ c.initial = "unresolved" THEN [c EXCEPT !.initial = "failed"]
     ELSE c : c \in connects}

\* Mutant of ClearedSessions: the sessions of a closed socket are left alone.
SessionsKept(fds) == session

ClearedSessions(fds) ==
    [s \in Sessions |-> IF session[s].active /\ session[s].fd \in fds
                        THEN Inactive ELSE session[s]]

Close(fds) ==
    /\ fds # {}
    /\ session' = ClearedSessions(fds)
    /\ host' = [n \in Natives |-> IF \E f \in fds : socket[f].native = n
                                  THEN "unused" ELSE host[n]]
    /\ socket' = [f \in Fds |-> IF f \in fds THEN Free ELSE socket[f]]
    /\ connects' = Aborted(fds)
    /\ UNCHANGED <<thread, cookie, generation, token, lookups, completed, polls,
                   results, callbacks>>

Open == {f \in Fds : socket[f].native # Closed}

DeleteWiiSocket(f) == f \in Open /\ Close({f})

CleanupAllWiiSockets == Close(Open)

\* SO_SHUTDOWN of the write half of a stream.
Shutdown(f) ==
    /\ socket[f].native # Closed
    /\ connects' = Aborted({f})
    /\ UNCHANGED <<thread, cookie, socket, host, generation, token, lookups, completed,
                   polls, results, callbacks, session>>

SetBlocking(f) ==
    /\ socket[f].native # Closed
    /\ socket' = [socket EXCEPT ![f].nonblocking = ~@]
    /\ UNCHANGED <<thread, cookie, host, generation, token, jobs, session>>

\* What the host's connect() leaves behind, and the result known at once.
HostConnects(n, outcome) ==
    /\ outcome \in (IF host[n] \in {"connected", "connecting"} THEN {host[n]}
                    ELSE {"connected", "connecting", "refused"})
    /\ host' = [host EXCEPT ![n] = outcome]

Settled(outcome) ==
    CASE outcome = "connected" -> "ok"
      [] outcome = "refused" -> "failed"
      [] OTHER -> "unresolved"

\* The guest's own non-blocking connect, on the direct path.
ConnectDirect(f) ==
    /\ socket[f].native # Closed
    /\ socket[f].nonblocking
    /\ \E outcome \in {"connected", "connecting", "refused"} :
        /\ HostConnects(socket[f].native, outcome)
        /\ socket' = IF outcome = "connected" /\ host[socket[f].native] # "connected"
                     THEN [socket EXCEPT ![f].peer = socket[f].generation,
                                         ![f].port = 443]
                     ELSE socket
    /\ UNCHANGED <<thread, cookie, generation, token, jobs, session>>

-----------------------------------------------------------------------------
(* Deferred calls *)

SyncRoute(t) == [kind |-> "sync", thread |-> t, token |-> token]
\* The token of an asynchronous call, 0 in the code, only tells its jobs apart.
AsyncRoute == [kind |-> "async", thread |-> NoThread, token |-> token]

\* Not in a deferred call: such a call ends with TakeSyncResult.
Idle(t) == thread[t].state = "running" /\ thread[t].token = 0

\* The token, the cookie in the waiter's frame, and the waiter asleep on it.
Installed(t) ==
    /\ token <= MaxToken
    /\ token' = token + 1
    /\ IF t \in Threads
       THEN /\ Idle(t)
            /\ cookie' = [cookie EXCEPT ![t] = token]
            /\ thread' = [thread EXCEPT ![t] = [state |-> "waiting", token |-> token]]
       ELSE UNCHANGED <<cookie, thread>>

Route(t) == IF t \in Threads THEN SyncRoute(t) ELSE AsyncRoute

InstallDns(t) ==
    /\ Installed(t)
    /\ lookups' = lookups \cup {[route |-> Route(t)]}
    /\ UNCHANGED <<socket, host, generation, completed, polls, connects, results,
                   callbacks, session>>

\* The host thread could not be started: the caller gets the failure at once.
LaunchFails(t) ==
    /\ Idle(t)
    /\ token <= MaxToken
    /\ token' = token + 1
    /\ cookie' = [cookie EXCEPT ![t] = token]
    /\ UNCHANGED <<thread, socket, host, generation, jobs, session>>

InstallPoll(t, f) ==
    /\ Installed(t)
    /\ \E timeout \in {"infinite", "running"} :
        polls' = polls \cup {[route |-> Route(t), fd |-> f, timeout |-> timeout,
                              native |-> socket[f].native,
                              generation |-> socket[f].generation]}
    /\ UNCHANGED <<socket, host, generation, lookups, completed, connects, results,
                   callbacks, session>>

\* The host's connect is issued at once; only one in flight is left to probe.
InstallConnect(t, f) ==
    /\ socket[f].native # Closed
    /\ ~socket[f].nonblocking
    /\ Installed(t)
    /\ \E outcome \in {"connected", "connecting", "refused"} :
        /\ HostConnects(socket[f].native, outcome)
        /\ connects' = connects \cup
            {[route |-> Route(t), fd |-> f, native |-> socket[f].native,
              generation |-> socket[f].generation, expired |-> FALSE,
              initial |-> Settled(outcome)]}
    /\ UNCHANGED <<socket, generation, lookups, completed, polls, results,
                   callbacks, session>>

\* The result the pump left for the token.
TakeSyncResult(t) ==
    /\ thread[t].state = "running"
    /\ thread[t].token \in results
    /\ results' = results \ {thread[t].token}
    /\ thread' = [thread EXCEPT ![t].token = 0]
    /\ UNCHANGED <<cookie, socket, host, generation, token, lookups, completed,
                   polls, connects, callbacks, session>>

-----------------------------------------------------------------------------
(* The completion pump, on the scheduler's thread *)

\* Mutant of DeferredNetworkWaiterIsValid: any sleeping thread will do.
WaiterIsAsleep(route) == thread[route.thread].state = "waiting"

\* Whether the sleeper a result is for is still in the call that asked.
DeferredNetworkWaiterIsValid(route) ==
    /\ thread[route.thread].state = "waiting"
    /\ cookie[route.thread] = route.token

\* Mutant of Wanted: a job is answered whoever asked.
AlwaysWanted(job) == TRUE

Wanted(job) == job.route.kind = "sync" => DeferredNetworkWaiterIsValid(job.route)

\* Mutant of ProbePoll: the socket's identity is not looked at.
ProbeReadyOnly(p, ready) == p \in ready \/ p.timeout = "expired"

\* A parked poll has an answer once a descriptor is ready, once its socket is
\* gone (POLLNVAL counts as ready) and once its time is over.
ProbePoll(p, ready) == p \in ready \/ ~Current(p) \/ p.timeout = "expired"

ProbeConnect(c) ==
    CASE c.initial # "unresolved" -> c.initial
      [] c.initial = "unresolved" /\ ~Current(c) -> "failed"
      [] c.initial = "unresolved" /\ Current(c) /\ host[c.native] = "connected" -> "ok"
      [] c.initial = "unresolved" /\ Current(c) /\ host[c.native] = "refused" -> "failed"
      [] OTHER -> IF c.expired THEN "failed" ELSE "unresolved"

\* Mutant of ConnectResult: the socket is not looked at again.
ProbedConnect(c) == ProbeConnect(c)

\* A connect that ended well on a socket that is gone by now failed after all.
ConnectResult(c) ==
    IF ProbeConnect(c) = "ok" /\ ~Current(c) THEN "failed" ELSE ProbeConnect(c)

Tokens(kind, settled) == {r.token : r \in {q \in settled : q.kind = kind}}

\* The results are committed before their waiters become ready.
Deliver(settled) ==
    /\ results' = results \cup Tokens("sync", settled)
    /\ callbacks' = callbacks \cup Tokens("async", settled)
    /\ thread' = [t \in Threads |->
                     IF \E r \in settled : r.thread = t
                     THEN [thread[t] EXCEPT !.state = "running"] ELSE thread[t]]

SettledPolls(ready) == {p \in polls : Wanted(p) /\ ProbePoll(p, ready)}

SettledConnects == {c \in connects : Wanted(c) /\ ConnectResult(c) # "unresolved"}

\* The peer a socket was connected to, by the connects that ended well.
Connected(f) == {c \in SettledConnects : c.fd = f /\ ConnectResult(c) = "ok"}

ProcessCompletions(ready) ==
    /\ completed' = {}
    /\ polls' = {p \in polls : Wanted(p)} \ SettledPolls(ready)
    /\ connects' = {c \in connects : Wanted(c)} \ SettledConnects
    /\ Deliver({j.route : j \in {d \in completed : Wanted(d)}
                               \cup SettledPolls(ready) \cup SettledConnects})
    /\ socket' = [f \in Fds |->
                     IF Connected(f) = {} THEN socket[f]
                     ELSE [native |-> socket[f].native, generation |-> socket[f].generation,
                           nonblocking |-> socket[f].nonblocking, port |-> 443,
                           peer |-> (CHOOSE c \in Connected(f) : TRUE).generation]]
    /\ UNCHANGED <<cookie, host, generation, token, lookups, session>>

\* The guest runs a queued IOS callback.
RunCallback ==
    /\ \E c \in callbacks : callbacks' = callbacks \ {c}
    /\ UNCHANGED <<thread, cookie, socket, host, generation, token, lookups,
                   completed, polls, connects, results, session>>

-----------------------------------------------------------------------------
(* TLS sessions, which keep their socket's host descriptor *)

SslNew(s) ==
    /\ ~session[s].active
    /\ \A r \in Sessions : r < s => session[r].active
    /\ session' = [session EXCEPT ![s] = [active |-> TRUE, fd |-> NoFd, native |-> Closed]]
    /\ UNCHANGED <<thread, cookie, socket, host, generation, token, jobs>>

SessionOn(f, native) == [active |-> TRUE, fd |-> f, native |-> native]

SslConnect(s, f) ==
    /\ session[s].active
    /\ socket[f].native # Closed
    /\ session' = [session EXCEPT ![s] = SessionOn(f, socket[f].native)]
    /\ socket' = [socket EXCEPT ![f].nonblocking = FALSE]
    /\ UNCHANGED <<thread, cookie, host, generation, token, jobs>>

\* A mod's host: the connection is made again, in plain text, on a new host
\* descriptor; when that fails the socket keeps the one it had. Any other session
\* of the socket is left with the descriptor that is closed here.
SslReroute(s, f, n) ==
    /\ session[s].active
    /\ socket[f].native # Closed
    /\ socket[f].port = 443
    /\ host[n] = "unused"
    /\ generation < MaxGeneration
    /\ \/ /\ session' = [session EXCEPT ![s] = SessionOn(f, n)]
          /\ socket' = [socket EXCEPT ![f] =
                           [native |-> n, generation |-> generation,
                            nonblocking |-> FALSE, peer |-> generation, port |-> 80]]
          /\ host' = [host EXCEPT ![socket[f].native] = "unused", ![n] = "connected"]
          /\ generation' = generation + 1
       \/ /\ session' = [session EXCEPT ![s] = SessionOn(f, socket[f].native)]
          /\ socket' = [socket EXCEPT ![f].nonblocking = FALSE]
          /\ UNCHANGED <<host, generation>>
    /\ UNCHANGED <<thread, cookie, token, jobs>>

SslShutdown(s) ==
    /\ session[s].active
    /\ session' = [session EXCEPT ![s] = Inactive]
    /\ UNCHANGED <<thread, cookie, socket, host, generation, token, jobs>>

-----------------------------------------------------------------------------
(* The DNS workers, the host's network, time, and the life of guest threads *)

\* A worker publishes its answer, or the failure its exception became.
Resolve(d) ==
    /\ lookups' = lookups \ {d}
    /\ completed' = completed \cup {d}
    /\ UNCHANGED <<thread, cookie, socket, host, generation, token, polls, connects,
                   results, callbacks, session>>

HostSettles(n) ==
    /\ host[n] = "connecting"
    /\ \E outcome \in {"connected", "refused"} : host' = [host EXCEPT ![n] = outcome]
    /\ UNCHANGED <<thread, cookie, socket, generation, token, jobs, session>>

PollExpires(p) ==
    /\ p.timeout = "running"
    /\ polls' = (polls \ {p}) \cup {[p EXCEPT !.timeout = "expired"]}
    /\ UNCHANGED <<thread, cookie, socket, host, generation, token, lookups, completed,
                   connects, results, callbacks, session>>

ConnectExpires(c) ==
    /\ ~c.expired
    /\ connects' = (connects \ {c}) \cup {[c EXCEPT !.expired = TRUE]}
    /\ UNCHANGED <<thread, cookie, socket, host, generation, token, lookups, completed,
                   polls, results, callbacks, session>>

\* OSCancelThread takes the sleeper off its queue; its stack is used again by
\* the thread created in its place.
CancelThread(t) ==
    /\ thread[t].state \in {"running", "waiting"}
    /\ thread' = [thread EXCEPT ![t] = [state |-> "dead", token |-> 0]]
    /\ UNCHANGED <<cookie, socket, host, generation, token, jobs, session>>

CreateThread(t) ==
    /\ thread[t].state = "dead"
    /\ thread' = [thread EXCEPT ![t].state = "running"]
    /\ UNCHANGED <<cookie, socket, host, generation, token, jobs, session>>

-----------------------------------------------------------------------------
Sockets ==
    \/ \E f \in Fds, n \in Natives : NewSocket(f, n)
    \/ CleanupAllWiiSockets
    \/ \E f \in Fds : DeleteWiiSocket(f) \/ Shutdown(f) \/ SetBlocking(f) \/ ConnectDirect(f)

DeferredCalls ==
    \/ \E t \in Threads \cup {NoThread} :
        \/ InstallDns(t)
        \/ \E f \in Fds : InstallPoll(t, f) \/ InstallConnect(t, f)
    \/ \E t \in Threads : LaunchFails(t) \/ TakeSyncResult(t)

Ssl ==
    \E s \in Sessions :
        \/ SslNew(s)
        \/ SslShutdown(s)
        \/ \E f \in Fds : SslConnect(s, f) \/ \E n \in Natives : SslReroute(s, f, n)

Pump == \E ready \in SUBSET polls : ProcessCompletions(ready)

Workers == \E d \in lookups : Resolve(d)

Timeouts == (\E p \in polls : PollExpires(p)) \/ (\E c \in connects : ConnectExpires(c))

Next ==
    \/ Sockets
    \/ DeferredCalls
    \/ Ssl
    \/ Pump
    \/ Workers
    \/ Timeouts
    \/ RunCallback
    \/ \E n \in Natives : HostSettles(n)
    \/ \E t \in Threads : CancelThread(t) \/ CreateThread(t)

Spec == Init /\ [][Next]_vars

\* The pump runs at every safe point and in the idle loop, whether or not the
\* network has anything to say; the workers end (the host's resolver gives up)
\* and time passes.
Fairness ==
    /\ WF_vars(ProcessCompletions({}))
    /\ WF_vars(Workers)
    /\ WF_vars(Timeouts)

FairSpec == Spec /\ Fairness

-----------------------------------------------------------------------------
(* Properties *)

Routes ==
    [kind : {"sync"}, thread : Threads, token : 1 .. MaxToken]
        \cup [kind : {"async"}, thread : {NoThread}, token : 1 .. MaxToken]

\* Type invariant of the sockets, the parked jobs and the threads that wait.
TypeOK ==
    /\ thread \in [Threads -> [state : {"running", "waiting", "dead"}, token : 0 .. MaxToken]]
    /\ cookie \in [Threads -> 0 .. MaxToken]
    /\ socket \in [Fds -> [native : Natives \cup {Closed}, generation : 0 .. MaxGeneration,
                           nonblocking : BOOLEAN, peer : 0 .. MaxGeneration,
                           port : {0, 80, 443}]]
    /\ host \in [Natives -> {"unused", "idle", "connecting", "connected", "refused"}]
    /\ generation \in 1 .. (MaxGeneration + 1)
    /\ token \in 1 .. (MaxToken + 1)
    /\ lookups \subseteq [route : Routes]
    /\ completed \subseteq [route : Routes]
    /\ polls \subseteq [route : Routes, fd : Fds, native : Natives \cup {Closed},
                        generation : 0 .. MaxGeneration,
                        timeout : {"infinite", "running", "expired"}]
    /\ connects \subseteq [route : Routes, fd : Fds, native : Natives,
                           generation : 0 .. MaxGeneration, expired : BOOLEAN,
                           initial : {"unresolved", "ok", "failed"}]
    /\ results \subseteq 1 .. MaxToken
    /\ callbacks \subseteq 1 .. MaxToken
    /\ session \in [Sessions -> [active : BOOLEAN, fd : Fds \cup {NoFd},
                                 native : Natives \cup {Closed}]]

Parked == {j.route : j \in lookups \cup completed \cup polls \cup connects}

\* A sleeping caller always has its own job outstanding, under the cookie in its
\* frame, and one that was woken finds its result: no completion is dropped as
\* stale, and no stale one is delivered in its place
\* (DeferredNetworkWaiterIsValid, the cookie of InitializeDeferredSyncRoute).
CallersAreServed ==
    \A t \in Threads :
        /\ thread[t].state = "waiting" =>
            [kind |-> "sync", thread |-> t, token |-> thread[t].token] \in Parked
        /\ thread[t].state = "running" /\ thread[t].token # 0 =>
            thread[t].token \in results

\* What a socket says its peer is was connected on that very socket: a connect
\* parked on a slot that was closed and opened again never marks the new one
\* (SocketIdentityIsCurrent, checked again when the connect settles).
PeerIsOwn == \A f \in Fds : socket[f].peer \in {0, socket[f].generation}

OpenSocket(s) ==
    session[s].active /\ session[s].fd # NoFd => socket[session[s].fd].native # Closed

Follows(s) ==
    session[s].active /\ session[s].fd # NoFd =>
        session[s].native = socket[session[s].fd].native

\* Another session of the same socket makes the connection again.
ReroutedFrom(s) ==
    \E r \in Sessions \ {s} :
        /\ session'[r] = SessionOn(session[s].fd, socket'[session[s].fd].native)
        /\ session'[r].native # session[s].native

KeepsItsSocket(s) == OpenSocket(s)' /\ (Follows(s) /\ ~Follows(s)' => ReroutedFrom(s))

\* A closed socket leaves no session behind for the next socket in its slot, and
\* a session speaks over the host descriptor its socket has: it loses it, and may
\* then speak to whatever the host gave that descriptor to, in one way only, that
\* a second session of the same socket is rerouted (ClearSslSessionsForSocket;
\* ReconnectWiiSocket tells the session that asked for it and no other).
SessionFollowsSocket == [][\A s \in Sessions : KeepsItsSocket(s)]_vars

WaitsForever(t) ==
    \E p \in polls : /\ p.route = [kind |-> "sync", thread |-> t, token |-> thread[t].token]
                     /\ p.timeout = "infinite"
                     /\ Current(p)

\* Every deferred call comes back, even a poll without a timeout once its socket
\* is closed; only such a poll on a live socket may sleep as long as the network
\* is silent.
CallsComeBack ==
    \A t \in Threads :
        (thread[t].state = "waiting" /\ ~WaitsForever(t)) ~> (thread[t].state # "waiting")

Answer == INSTANCE Requests WITH
    Askers <- Threads,
    MaxAsked <- MaxToken,
    asked <- [t \in Threads |-> thread[t].token],
    answered <- results,
    last <- token - 1

\* Each call gets one answer, its own, and keeps its thread until then; an
\* answer that outlives its caller reaches nobody.
ImplementsRequests == Answer!Spec
=============================================================================
