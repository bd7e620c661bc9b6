--------------------------- MODULE NetworkProofs ---------------------------
(* Proofs about Network for any threads, sockets, descriptors and sessions,   *)
(* and any number of calls: callers are served, each by the answer to its own *)
(* question, whatever was cancelled, closed and used again in between.        *)
EXTENDS Network, TLAPS

\* What the deferred calls depend on.
WaitVars == <<thread, cookie, token, results>>

RoutesOf(Sort) == {j.route : j \in Sort}

LEMMA ParkedParts ==
  Parked = RoutesOf(lookups) \cup RoutesOf(completed) \cup RoutesOf(polls)
             \cup RoutesOf(connects)
  BY DEF Parked, RoutesOf

WaitType ==
    /\ thread \in [Threads -> [state : {"running", "waiting", "dead"}, token : Nat]]
    /\ cookie \in [Threads -> Nat]
    /\ token \in 1 .. (MaxToken + 1)
    /\ Parked \subseteq [kind : {"sync"}, thread : Threads, token : Nat]
                           \cup [kind : {"async"}, thread : {NoThread}, token : Nat]
    /\ results \subseteq Nat

\* The tokens given out are older than the next one, and no two are the same.
TokensDistinct ==
    /\ \A t \in Threads : thread[t].token < token
    /\ \A r \in Parked : r.token < token
    /\ \A n \in results : n < token
    /\ \A t, u \in Threads : thread[t].token = thread[u].token /\ thread[t].token # 0 => t = u

\* A sleeper has its cookie, its job, and no answer yet.
SleepersAsked ==
    \A t \in Threads :
        thread[t].state = "waiting" =>
            /\ thread[t].token # 0
            /\ cookie[t] = thread[t].token
            /\ thread[t].token \notin results
            /\ [kind |-> "sync", thread |-> t, token |-> thread[t].token] \in Parked

\* Only its own caller's frame names a parked job.
JobsAreOwn ==
    \A r \in Parked, t \in Threads :
        r.kind = "sync" /\ thread[t].token = r.token /\ thread[t].token # 0 => r.thread = t

WokenHaveAnswers ==
    \A t \in Threads :
        /\ thread[t].state = "running" /\ thread[t].token # 0 => thread[t].token \in results
        /\ thread[t].state = "dead" => thread[t].token = 0

IInv == WaitType /\ TokensDistinct /\ SleepersAsked /\ JobsAreOwn /\ WokenHaveAnswers

LEMMA InitInv == Init => IInv
  <1>. SUFFICES ASSUME Init PROVE IInv
    OBVIOUS
  <1>1. Parked = {}
    BY DEF Init, Parked
  <1>. QED BY <1>1, NetworkAssumption DEF Init, IInv, WaitType, TokensDistinct, SleepersAsked, JobsAreOwn,
              WokenHaveAnswers

\* A step that moves, retries or settles jobs without an answer.
LEMMA JobsMove ==
  ASSUME IInv, UNCHANGED WaitVars, Parked' = Parked
  PROVE  IInv'
  <1>. HIDE DEF Parked
  <1>. QED
  BY DEF IInv, WaitVars, WaitType, TokensDistinct, SleepersAsked, JobsAreOwn, WokenHaveAnswers

LEMMA SocketsKeepJobs ==
  ASSUME Sockets PROVE UNCHANGED WaitVars /\ Parked' = Parked
  <1>1. ASSUME NEW fds \in SUBSET Fds PROVE RoutesOf(Aborted(fds)) = RoutesOf(connects)
    <2>1. \A c \in connects : [c EXCEPT !.initial = "failed"].route = c.route
      OBVIOUS
    <2>. QED BY <2>1 DEF RoutesOf, Aborted
  <1>2. ASSUME NEW fds \in SUBSET Fds, Close(fds)
        PROVE  UNCHANGED WaitVars /\ Parked' = Parked
    <2>1. RoutesOf(connects') = RoutesOf(connects)
      BY <1>1, <1>2 DEF Close
    <2>. QED BY <1>2, <2>1, ParkedParts DEF Close, WaitVars, Parked, RoutesOf
  <1>3. ASSUME NEW f \in Fds, Shutdown(f)
        PROVE  UNCHANGED WaitVars /\ Parked' = Parked
    <2>1. RoutesOf(connects') = RoutesOf(connects)
      BY <1>1, <1>3 DEF Shutdown
    <2>. QED BY <1>3, <2>1, ParkedParts DEF Shutdown, WaitVars, Parked, RoutesOf
  <1>4. ASSUME NEW f \in Fds, \/ \E n \in Natives : NewSocket(f, n)
                              \/ SetBlocking(f) \/ ConnectDirect(f)
        PROVE  UNCHANGED WaitVars /\ Parked' = Parked
    BY <1>4 DEF NewSocket, SetBlocking, ConnectDirect, jobs, WaitVars, Parked
  <1>. QED BY <1>2, <1>3, <1>4 DEF Sockets, DeleteWiiSocket, CleanupAllWiiSockets, Open

LEMMA OthersKeepJobs ==
  ASSUME Ssl \/ Workers \/ Timeouts \/ RunCallback \/ (\E n \in Natives : HostSettles(n))
  PROVE  UNCHANGED WaitVars /\ Parked' = Parked
  <1>1. CASE RunCallback \/ \E n \in Natives : HostSettles(n)
    BY <1>1 DEF RunCallback, HostSettles, jobs, WaitVars, Parked
  <1>5. CASE Ssl
    <2>1. ASSUME NEW s \in Sessions, SslNew(s) \/ SslShutdown(s)
          PROVE  UNCHANGED <<thread, cookie, token, jobs>>
      BY <2>1 DEF SslNew, SslShutdown
    <2>2. ASSUME NEW s \in Sessions, NEW f \in Fds, SslConnect(s, f)
          PROVE  UNCHANGED <<thread, cookie, token, jobs>>
      BY <2>2 DEF SslConnect
    <2>3. ASSUME NEW s \in Sessions, NEW f \in Fds, NEW n \in Natives, SslReroute(s, f, n)
          PROVE  UNCHANGED <<thread, cookie, token, jobs>>
      BY <2>3 DEF SslReroute
    <2>4. UNCHANGED <<thread, cookie, token, jobs>>
      BY <1>5, <2>1, <2>2, <2>3 DEF Ssl
    <2>. QED BY <2>4 DEF jobs, WaitVars, Parked
  <1>2. CASE Workers
    <2>1. PICK d \in lookups : Resolve(d)
      BY <1>2 DEF Workers
    <2>2. lookups' \cup completed' = lookups \cup completed
      BY <2>1 DEF Resolve
    <2>3. polls' = polls /\ connects' = connects
      BY <2>1 DEF Resolve
    <2>. QED BY <2>1, <2>2, <2>3 DEF Resolve, WaitVars, Parked
  <1>3. CASE \E p \in polls : PollExpires(p)
    <2>1. PICK p \in polls : PollExpires(p)
      BY <1>3
    <2>2. [p EXCEPT !.timeout = "expired"].route = p.route
      OBVIOUS
    <2>3. RoutesOf(polls') = RoutesOf(polls)
      BY <2>1, <2>2 DEF PollExpires, RoutesOf
    <2>. QED BY <2>1, <2>3, ParkedParts DEF PollExpires, WaitVars, Parked, RoutesOf
  <1>4. CASE \E c \in connects : ConnectExpires(c)
    <2>1. PICK c \in connects : ConnectExpires(c)
      BY <1>4
    <2>2. [c EXCEPT !.expired = TRUE].route = c.route
      OBVIOUS
    <2>3. RoutesOf(connects') = RoutesOf(connects)
      BY <2>1, <2>2 DEF ConnectExpires, RoutesOf
    <2>. QED BY <2>1, <2>3, ParkedParts DEF ConnectExpires, WaitVars, Parked, RoutesOf
  <1>. QED BY <1>1, <1>2, <1>3, <1>4, <1>5 DEF Timeouts

-----------------------------------------------------------------------------
(* The answers to the questions *)

\* A call that waits is a question.
LEMMA InstallSync ==
  ASSUME IInv, NEW t \in Threads, Installed(t), results' = results,
         Parked' = Parked \cup {SyncRoute(t)}
  PROVE  IInv' /\ Answer!Ask(t)
  <1>. HIDE DEF Parked
  <1>. USE DEF Installed, Idle, IInv, WaitType, SyncRoute
  <1>1. WaitType'
    BY NetworkAssumption
  <1>2. TokensDistinct'
    BY DEF TokensDistinct
  <1>3. SleepersAsked'
    BY DEF SleepersAsked, TokensDistinct
  <1>4. JobsAreOwn'
    BY DEF JobsAreOwn, TokensDistinct
  <1>5. WokenHaveAnswers'
    BY DEF WokenHaveAnswers
  <1>6. Answer!Ask(t)
    <2>1. \A u \in Threads : thread'[u].token = IF u = t THEN token ELSE thread[u].token
      OBVIOUS
    <2>2. token - 1 < MaxToken /\ token - 1 + 1 = token /\ (token - 1)' = token
      BY NetworkAssumption
    <2>3. [u \in Threads |-> thread[u].token]' =
              [[u \in Threads |-> thread[u].token] EXCEPT ![t] = token - 1 + 1]
      BY <2>1, <2>2
    <2>. QED BY <2>2, <2>3 DEF Answer!Ask
  <1>. QED BY <1>1, <1>2, <1>3, <1>4, <1>5, <1>6

\* One with a callback, or one that fails at once, asks for no thread.
LEMMA InstallAsync ==
  ASSUME IInv, token <= MaxToken, token' = token + 1, UNCHANGED <<thread, results>>,
         \/ cookie' = cookie
         \/ \E t \in Threads : Idle(t) /\ cookie' = [cookie EXCEPT ![t] = token],
         Parked' = Parked \/ Parked' = Parked \cup {AsyncRoute}
  PROVE  IInv' /\ Answer!AskInVain
  <1>. HIDE DEF Parked
  <1>. USE DEF Idle, IInv, WaitType, AsyncRoute
  <1>1. WaitType'
    BY NetworkAssumption
  <1>2. TokensDistinct'
    BY DEF TokensDistinct
  <1>3. SleepersAsked'
    BY DEF SleepersAsked
  <1>4. JobsAreOwn'
    BY DEF JobsAreOwn
  <1>5. WokenHaveAnswers'
    BY DEF WokenHaveAnswers
  <1>6. Answer!AskInVain
    BY NetworkAssumption DEF Answer!AskInVain
  <1>. QED BY <1>1, <1>2, <1>3, <1>4, <1>5, <1>6

LEMMA CallStep ==
  ASSUME IInv, DeferredCalls
  PROVE  IInv' /\ Answer!Next
  <1>1. ASSUME NEW t \in Threads \cup {NoThread}, Installed(t), results' = results,
               Parked' = Parked \cup {Route(t)}
        PROVE  IInv' /\ Answer!Next
    <2>1. CASE t \in Threads
      BY <1>1, <2>1, InstallSync DEF Route, Answer!Next
    <2>2. CASE t = NoThread
      BY <1>1, <2>2, InstallAsync, NetworkAssumption DEF Route, Installed, Answer!Next
    <2>. QED BY <2>1, <2>2
  <1>2. ASSUME NEW t \in Threads \cup {NoThread}, InstallDns(t) PROVE IInv' /\ Answer!Next
    <2>1. Parked' = Parked \cup {Route(t)}
      <3>. DEFINE x == [route |-> Route(t)]
      <3>1. lookups' = lookups \cup {x} /\ UNCHANGED <<completed, polls, connects>>
        BY <1>2 DEF InstallDns
      <3>2. x.route = Route(t)
        OBVIOUS
      <3>. HIDE DEF x
      <3>. QED BY <3>1, <3>2 DEF Parked
    <2>. QED BY <1>1, <1>2, <2>1 DEF InstallDns
  <1>3. ASSUME NEW t \in Threads \cup {NoThread}, NEW f \in Fds, InstallPoll(t, f)
        PROVE  IInv' /\ Answer!Next
    <2>1. Parked' = Parked \cup {Route(t)}
      <3>1. PICK timeout \in {"infinite", "running"} :
              polls' = polls \cup {[route |-> Route(t), fd |-> f, timeout |-> timeout,
                                    native |-> socket[f].native,
                                    generation |-> socket[f].generation]}
        BY <1>3 DEF InstallPoll
      <3>. DEFINE x == [route |-> Route(t), fd |-> f, timeout |-> timeout,
                        native |-> socket[f].native, generation |-> socket[f].generation]
      <3>2. polls' = polls \cup {x} /\ UNCHANGED <<lookups, completed, connects>>
        BY <1>3, <3>1 DEF InstallPoll
      <3>3. x.route = Route(t)
        OBVIOUS
      <3>. HIDE DEF x
      <3>. QED BY <3>2, <3>3 DEF Parked
    <2>. QED BY <1>1, <1>3, <2>1 DEF InstallPoll
  <1>4. ASSUME NEW t \in Threads \cup {NoThread}, NEW f \in Fds, InstallConnect(t, f)
        PROVE  IInv' /\ Answer!Next
    <2>1. Parked' = Parked \cup {Route(t)}
      <3>1. PICK outcome \in {"connected", "connecting", "refused"} :
              connects' = connects \cup
                {[route |-> Route(t), fd |-> f, native |-> socket[f].native,
                  generation |-> socket[f].generation, expired |-> FALSE,
                  initial |-> Settled(outcome)]}
        BY <1>4 DEF InstallConnect
      <3>. DEFINE x == [route |-> Route(t), fd |-> f, native |-> socket[f].native,
                        generation |-> socket[f].generation, expired |-> FALSE,
                        initial |-> Settled(outcome)]
      <3>2. connects' = connects \cup {x} /\ UNCHANGED <<lookups, completed, polls>>
        BY <1>4, <3>1 DEF InstallConnect
      <3>3. x.route = Route(t)
        OBVIOUS
      <3>. HIDE DEF x
      <3>. QED BY <3>2, <3>3 DEF Parked
    <2>. QED BY <1>1, <1>4, <2>1 DEF InstallConnect
  <1>5. ASSUME NEW t \in Threads, LaunchFails(t) PROVE IInv' /\ Answer!Next
    <2>1. Parked' = Parked
      BY <1>5 DEF LaunchFails, jobs, Parked
    <2>. QED BY <1>5, <2>1, InstallAsync DEF LaunchFails, jobs, Answer!Next
  <1>6. ASSUME NEW t \in Threads, TakeSyncResult(t) PROVE IInv' /\ Answer!Next
    <2>1. Parked' = Parked
      BY <1>6 DEF TakeSyncResult, Parked
    <2>. HIDE DEF Parked
    <2>. USE <1>6, <2>1 DEF TakeSyncResult, IInv, WaitType
    <2>2. IInv'
      <3>1. WaitType'
        OBVIOUS
      <3>2. TokensDistinct'
        BY DEF TokensDistinct
      <3>3. SleepersAsked' /\ JobsAreOwn' /\ WokenHaveAnswers'
        BY DEF SleepersAsked, JobsAreOwn, WokenHaveAnswers, TokensDistinct
      <3>. QED BY <3>1, <3>2, <3>3
    <2>3. Answer!Return(t)
      BY DEF Answer!Return
    <2>. QED BY <2>2, <2>3 DEF Answer!Next
  <1>. QED BY <1>2, <1>3, <1>4, <1>5, <1>6 DEF DeferredCalls

\* A cancelled caller gives its question up; a new thread has none.
LEMMA LifeStep ==
  ASSUME IInv, NEW t \in Threads, CancelThread(t) \/ CreateThread(t)
  PROVE  IInv' /\ [Answer!Next]_(Answer!vars)
  <1>1. Parked' = Parked
    BY DEF CancelThread, CreateThread, jobs, Parked
  <1>. HIDE DEF Parked
  <1>2. UNCHANGED <<cookie, token, results>>
    BY DEF CancelThread, CreateThread, jobs
  <1>3. CASE CancelThread(t)
    <2>1. /\ thread' \in [Threads -> [state : {"running", "waiting", "dead"}, token : Nat]]
          /\ \A u \in Threads \ {t} : thread'[u] = thread[u]
          /\ thread'[t].state = "dead" /\ thread'[t].token = 0
      BY <1>3 DEF CancelThread, IInv, WaitType
    <2>2. WaitType'
      BY <1>1, <1>2, <2>1 DEF IInv, WaitType
    <2>3. TokensDistinct'
      BY <1>1, <1>2, <2>1, NetworkAssumption DEF IInv, WaitType, TokensDistinct
    <2>4. SleepersAsked' /\ JobsAreOwn' /\ WokenHaveAnswers'
      BY <1>1, <1>2, <2>1 DEF IInv, SleepersAsked, JobsAreOwn, WokenHaveAnswers
    <2>5. [u \in Threads |-> thread[u].token]' =
              [[u \in Threads |-> thread[u].token] EXCEPT ![t] = 0]
      BY <2>1
    <2>6. ASSUME thread[t].token # 0 PROVE Answer!Next
      <3>1. Answer!GiveUp(t)
        BY <1>2, <2>5, <2>6 DEF Answer!GiveUp
      <3>. QED BY <3>1 DEF Answer!Next
    <2>7. ASSUME thread[t].token = 0 PROVE UNCHANGED Answer!vars
      <3>1. [u \in Threads |-> thread[u].token]' = [u \in Threads |-> thread[u].token]
        BY <2>1, <2>7
      <3>. QED BY <1>2, <3>1 DEF Answer!vars
    <2>. QED BY <2>2, <2>3, <2>4, <2>6, <2>7 DEF IInv
  <1>4. CASE CreateThread(t)
    <2>1. /\ thread' \in [Threads -> [state : {"running", "waiting", "dead"}, token : Nat]]
          /\ \A u \in Threads \ {t} : thread'[u] = thread[u]
          /\ thread'[t].state = "running" /\ thread'[t].token = 0 /\ thread[t].token = 0
      BY <1>4 DEF CreateThread, IInv, WaitType, WokenHaveAnswers
    <2>2. WaitType'
      BY <1>1, <1>2, <2>1 DEF IInv, WaitType
    <2>3. TokensDistinct'
      BY <1>1, <1>2, <2>1, NetworkAssumption DEF IInv, WaitType, TokensDistinct
    <2>4. SleepersAsked' /\ JobsAreOwn' /\ WokenHaveAnswers'
      BY <1>1, <1>2, <2>1 DEF IInv, SleepersAsked, JobsAreOwn, WokenHaveAnswers
    <2>5. [u \in Threads |-> thread[u].token]' = [u \in Threads |-> thread[u].token]
      BY <2>1
    <2>. QED BY <1>2, <2>2, <2>3, <2>4, <2>5 DEF IInv, Answer!vars
  <1>. QED BY <1>3, <1>4

-----------------------------------------------------------------------------
(* The pump *)

\* What one run of the pump comes to: it answers a set of routes whose callers
\* still wait, drops jobs whose caller is gone, and keeps the rest.
LEMMA PumpFacts ==
  ASSUME NEW ready, ProcessCompletions(ready)
  PROVE  \E S \in SUBSET Parked :
           /\ \A r \in S : r.kind = "sync" => DeferredNetworkWaiterIsValid(r)
           /\ Deliver(S)
           /\ Parked' \subseteq Parked
           /\ \A r \in Parked \ S : DeferredNetworkWaiterIsValid(r) => r \in Parked'
           /\ UNCHANGED <<cookie, token>>
  <1>. DEFINE Settling == {d \in completed : Wanted(d)} \cup SettledPolls(ready)
                              \cup SettledConnects
              S == {j.route : j \in Settling}
  <1>1. \A j \in Settling : Wanted(j) /\ j \in completed \cup polls \cup connects
    BY DEF SettledPolls, SettledConnects
  <1>2. S \subseteq Parked /\ \A r \in S : r.kind = "sync" => DeferredNetworkWaiterIsValid(r)
    BY <1>1 DEF Parked, Wanted
  <1>3. Deliver(S) /\ UNCHANGED <<cookie, token, lookups>>
    BY DEF ProcessCompletions
  <1>4. /\ completed' = {}
        /\ polls' = {p \in polls : Wanted(p)} \ SettledPolls(ready)
        /\ connects' = {c \in connects : Wanted(c)} \ SettledConnects
    BY DEF ProcessCompletions
  <1>5. Parked' \subseteq Parked
    BY <1>3, <1>4 DEF Parked
  <1>6. ASSUME NEW r \in Parked \ S, DeferredNetworkWaiterIsValid(r)
        PROVE  r \in Parked'
    <2>1. PICK j \in lookups \cup completed \cup polls \cup connects : r = j.route
      BY DEF Parked
    <2>2. Wanted(j) /\ j \notin Settling
      BY <1>6, <2>1 DEF Wanted
    <2>3. j \in lookups \cup polls' \cup connects'
      BY <1>4, <2>1, <2>2
    <2>. QED BY <1>3, <2>1, <2>3 DEF Parked
  <1>. HIDE DEF S
  <1>. QED BY <1>2, <1>3, <1>5, <1>6

LEMMA PumpStep ==
  ASSUME IInv, NEW ready, ProcessCompletions(ready)
  PROVE  IInv' /\ [Answer!Next]_(Answer!vars)
  <1>1. PICK S \in SUBSET Parked :
           /\ \A r \in S : r.kind = "sync" => DeferredNetworkWaiterIsValid(r)
           /\ Deliver(S)
           /\ Parked' \subseteq Parked
           /\ \A r \in Parked \ S : DeferredNetworkWaiterIsValid(r) => r \in Parked'
           /\ UNCHANGED <<cookie, token>>
    BY PumpFacts
  <1>. DEFINE woken == {t \in Threads : \E r \in S : r.thread = t}
  <1>. HIDE DEF Parked
  <1>2. \A r \in S : /\ r.kind = "sync" => /\ r.thread \in Threads
                                           /\ thread[r.thread].state = "waiting"
                                           /\ thread[r.thread].token = r.token
                     /\ r.kind # "sync" => r.thread \notin Threads
    <2>. SUFFICES ASSUME NEW r \in S
                  PROVE  /\ r.kind = "sync" => /\ r.thread \in Threads
                                               /\ thread[r.thread].state = "waiting"
                                               /\ thread[r.thread].token = r.token
                         /\ r.kind # "sync" => r.thread \notin Threads
      OBVIOUS
    <2>1. r \in [kind : {"sync"}, thread : Threads, token : Nat]
                  \cup [kind : {"async"}, thread : {NoThread}, token : Nat]
      BY DEF IInv, WaitType
    <2>2. r.kind = "sync" => r.thread \in Threads
      BY <2>1
    <2>3. r.kind # "sync" => r.thread \notin Threads
      BY <2>1, NetworkAssumption
    <2>4. r.kind = "sync" => /\ thread[r.thread].state = "waiting"
                             /\ cookie[r.thread] = r.token
      BY <1>1 DEF DeferredNetworkWaiterIsValid
    <2>. QED BY <2>2, <2>3, <2>4 DEF IInv, SleepersAsked
  <1>3. \A t \in Threads : /\ thread'[t].token = thread[t].token
                           /\ thread'[t].state = IF t \in woken THEN "running"
                                                 ELSE thread[t].state
    BY <1>1 DEF Deliver, IInv, WaitType
  <1>4. thread' \in [Threads -> [state : {"running", "waiting", "dead"}, token : Nat]]
    BY <1>1 DEF Deliver, IInv, WaitType
  <1>6. \A t \in woken : t \in Threads /\ thread[t].state = "waiting"
    <2>. SUFFICES ASSUME NEW t \in woken PROVE t \in Threads /\ thread[t].state = "waiting"
      OBVIOUS
    <2>1. PICK r \in S : r.thread = t /\ t \in Threads
      OBVIOUS
    <2>2. r.kind = "sync"
      BY <1>2, <2>1
    <2>. QED BY <1>2, <2>1, <2>2
  <1>5. results' = results \cup {thread[t].token : t \in woken}
    <2>1. ASSUME NEW n \in Tokens("sync", S) PROVE n \in {thread[t].token : t \in woken}
      <3>1. PICK r \in S : r.kind = "sync" /\ r.token = n
        BY <2>1 DEF Tokens
      <3>2. r.thread \in Threads /\ thread[r.thread].token = n
        BY <1>2, <3>1
      <3>3. r.thread \in woken
        BY <3>2
      <3>. QED BY <3>2, <3>3
    <2>2. ASSUME NEW t \in woken PROVE thread[t].token \in Tokens("sync", S)
      <3>1. PICK r \in S : r.thread = t /\ t \in Threads
        OBVIOUS
      <3>2. r.kind = "sync"
        BY <1>2, <3>1
      <3>3. thread[t].token = r.token
        BY <1>2, <3>1, <3>2
      <3>. QED BY <3>2, <3>3 DEF Tokens
    <2>3. results' = results \cup Tokens("sync", S)
      BY <1>1 DEF Deliver
    <2>. HIDE DEF woken
    <2>. QED BY <2>1, <2>2, <2>3
  <1>7. \A t \in Threads \ woken : [kind |-> "sync", thread |-> t, token |-> thread[t].token] \notin S
    <2>. SUFFICES ASSUME NEW t \in Threads,
                         [kind |-> "sync", thread |-> t, token |-> thread[t].token] \in S
                  PROVE  t \in woken
      OBVIOUS
    <2>. DEFINE own == [kind |-> "sync", thread |-> t, token |-> thread[t].token]
    <2>1. own.thread = t
      OBVIOUS
    <2>. QED BY <2>1
  <1>. HIDE DEF woken
  <1>8. WaitType'
    BY <1>1, <1>4, <1>5, <1>6 DEF IInv, WaitType
  <1>9. TokensDistinct'
    BY <1>1, <1>3, <1>5, <1>6, NetworkAssumption DEF IInv, WaitType, TokensDistinct
  <1>10. SleepersAsked'
    <2>. SUFFICES ASSUME NEW t \in Threads, thread'[t].state = "waiting"
                  PROVE  /\ thread'[t].token # 0
                         /\ cookie'[t] = thread'[t].token
                         /\ thread'[t].token \notin results'
                         /\ [kind |-> "sync", thread |-> t, token |-> thread'[t].token] \in Parked'
      BY DEF SleepersAsked
    <2>1. t \notin woken /\ thread[t].state = "waiting"
      BY <1>3
    <2>2. thread[t].token \notin results'
      BY <1>5, <1>6, <2>1 DEF IInv, SleepersAsked, TokensDistinct
    <2>3. DeferredNetworkWaiterIsValid([kind |-> "sync", thread |-> t, token |-> thread[t].token])
      BY <2>1 DEF DeferredNetworkWaiterIsValid, IInv, SleepersAsked
    <2>. QED BY <1>1, <1>3, <1>7, <2>1, <2>2, <2>3 DEF IInv, SleepersAsked
  <1>11. JobsAreOwn'
    BY <1>1, <1>3 DEF IInv, JobsAreOwn
  <1>12. WokenHaveAnswers'
    BY <1>3, <1>5, <1>6 DEF IInv, WokenHaveAnswers
  <1>13. [Answer!Next]_(Answer!vars)
    <2>. DEFINE questions == {thread[t].token : t \in woken}
    <2>1. [t \in Threads |-> thread[t].token]' = [t \in Threads |-> thread[t].token]
      BY <1>3
    <2>2. CASE questions = {}
      BY <1>1, <1>5, <2>1, <2>2 DEF Answer!vars
    <2>3. CASE questions # {}
      <3>1. questions \subseteq {[t \in Threads |-> thread[t].token][a] : a \in Threads}
                                   \ ({0} \cup results)
        BY <1>6 DEF IInv, SleepersAsked
      <3>2. \A t \in Threads : thread[t].token # 0 => thread[t].token \in 1 .. MaxToken
        BY NetworkAssumption DEF IInv, WaitType, TokensDistinct
      <3>4. questions \in SUBSET (1 .. MaxToken)
        BY <1>6, <3>2 DEF IInv, SleepersAsked
      <3>3. Answer!Answer(questions)
        BY <1>1, <1>5, <2>1, <2>3, <3>1 DEF Answer!Answer
      <3>. QED BY <3>3, <3>4 DEF Answer!Next
    <2>. QED BY <2>2, <2>3
  <1>. QED BY <1>8, <1>9, <1>10, <1>11, <1>12, <1>13 DEF IInv

-----------------------------------------------------------------------------
LEMMA StepInv ==
  ASSUME IInv, [Next]_vars
  PROVE  IInv' /\ [Answer!Next]_(Answer!vars)
  <1>1. ASSUME UNCHANGED WaitVars, Parked' = Parked
        PROVE  IInv' /\ [Answer!Next]_(Answer!vars)
    BY <1>1, JobsMove DEF WaitVars, Answer!vars
  <1>2. CASE Sockets
    BY <1>1, <1>2, SocketsKeepJobs
  <1>3. CASE Ssl \/ Workers \/ Timeouts \/ RunCallback \/ \E n \in Natives : HostSettles(n)
    BY <1>1, <1>3, OthersKeepJobs
  <1>4. CASE DeferredCalls
    BY <1>4, CallStep
  <1>5. CASE Pump
    BY <1>5, PumpStep DEF Pump
  <1>6. CASE \E t \in Threads : CancelThread(t) \/ CreateThread(t)
    BY <1>6, LifeStep
  <1>7. CASE UNCHANGED vars
    BY <1>1, <1>7 DEF vars, jobs, WaitVars, Parked
  <1>. QED BY <1>2, <1>3, <1>4, <1>5, <1>6, <1>7 DEF Next

\* A thread asleep in a deferred call has its own job outstanding, and one that
\* was woken has its result, for any number of threads, sockets and calls
\* (Network_HLE_ProcessCompletions).
THEOREM CallersServed == Spec => []CallersAreServed
  <1>1. IInv => CallersAreServed
    BY DEF IInv, SleepersAsked, WokenHaveAnswers, CallersAreServed
  <1>. QED BY <1>1, InitInv, StepInv, PTL DEF Spec

\* Each deferred call is answered at most once, its thread stays in it until its
\* own answer, and no cancelled, repeated or late completion changes that.
THEOREM NetworkAnswers == Spec => ImplementsRequests
  <1>1. Init => Answer!Init
    BY DEF Init, Answer!Init
  <1>. QED BY <1>1, InitInv, StepInv, PTL DEF Spec, ImplementsRequests, Answer!Spec

-----------------------------------------------------------------------------
(* Sockets and sessions *)

SocketRecord ==
    [native : Natives \cup {Closed}, generation : Nat, nonblocking : BOOLEAN,
     peer : Nat, port : {0, 80, 443}]

SessionRecord ==
    [active : BOOLEAN, fd : Fds \cup {NoFd}, native : Natives \cup {Closed}]

SocketType ==
    /\ socket \in [Fds -> SocketRecord]
    /\ generation \in Nat
    /\ session \in [Sessions -> SessionRecord]

SessionsLive == \A s \in Sessions : OpenSocket(s)

SocketInv == SocketType /\ PeerIsOwn /\ SessionsLive

LEMMA SocketInit == Init => SocketInv
  BY DEF Init, SocketInv, SocketType, SocketRecord, SessionRecord, PeerIsOwn,
         SessionsLive, OpenSocket, Free, Inactive

\* A step that leaves the sessions and the host descriptors alone.
LEMMA SocketsKept ==
  ASSUME SocketInv, SocketType', session' = session,
         \A f \in Fds : /\ socket'[f].native = socket[f].native
                        /\ socket'[f].peer \in {0, socket'[f].generation}
  PROVE  SocketInv'
  <1>1. PeerIsOwn'
    BY DEF PeerIsOwn
  <1>2. ASSUME NEW s \in Sessions, session'[s].active, session'[s].fd # NoFd
        PROVE  socket'[session'[s].fd].native # Closed
    <2>1. session[s].fd \in Fds
      BY <1>2 DEF SocketInv, SocketType, SessionRecord
    <2>. QED BY <1>2, <2>1 DEF SocketInv, SessionsLive, OpenSocket
  <1>. QED BY <1>1, <1>2 DEF SocketInv, SessionsLive, OpenSocket

\* A step on socket f alone, and on sessions that are then f's.
LEMMA SocketGiven ==
  ASSUME SocketInv, NEW f \in Fds, generation' \in Nat,
         socket' \in [Fds -> SocketRecord],
         \A g \in Fds \ {f} : socket'[g] = socket[g],
         socket'[f].peer \in {0, socket'[f].generation}, socket'[f].native # Closed,
         NEW S \in SUBSET Sessions, session' \in [Sessions -> SessionRecord],
         \A s \in S : session'[s] = SessionOn(f, socket'[f].native),
         \A s \in Sessions \ S : session'[s] = session[s]
  PROVE  SocketInv'
  <1>. USE NetworkAssumption
  <1>1. SocketType'
    BY DEF SocketType
  <1>3. PeerIsOwn'
    BY DEF PeerIsOwn, SocketInv
  <1>4. ASSUME NEW s \in Sessions, session'[s].active, session'[s].fd # NoFd
        PROVE  socket'[session'[s].fd].native # Closed
    <2>1. CASE s \in S
      <3>1. session'[s] = [active |-> TRUE, fd |-> f, native |-> socket'[f].native]
        BY <2>1 DEF SessionOn
      <3>. QED BY <3>1
    <2>2. CASE s \notin S
      <3>1. session'[s] = session[s]
        BY <2>2
      <3>2. session[s].fd \in Fds
        BY <1>4, <3>1 DEF SocketInv, SocketType, SessionRecord
      <3>3. socket[session[s].fd].native # Closed
        BY <1>4, <3>1 DEF SocketInv, SessionsLive, OpenSocket
      <3>. QED BY <3>1, <3>2, <3>3
    <2>. QED BY <2>1, <2>2
  <1>. QED BY <1>1, <1>3, <1>4 DEF SocketInv, SessionsLive, OpenSocket

LEMMA SocketSteps ==
  ASSUME SocketInv, Sockets PROVE SocketInv'
  <1>. USE NetworkAssumption
  <1>1. ASSUME NEW f \in Fds, NEW n \in Natives, NewSocket(f, n) PROVE SocketInv'
    <2>1. /\ socket[f].native = Closed
          /\ socket' = [socket EXCEPT ![f] = [native |-> n, generation |-> generation,
                           nonblocking |-> FALSE, peer |-> 0, port |-> 0]]
          /\ generation' = generation + 1 /\ session' = session
      BY <1>1 DEF NewSocket
    <2>2. /\ socket' \in [Fds -> SocketRecord]
          /\ \A g \in Fds \ {f} : socket'[g] = socket[g]
          /\ socket'[f].peer = 0 /\ socket'[f].native = n
      BY <2>1 DEF SocketRecord, SocketInv, SocketType
    <2>4. session' \in [Sessions -> SessionRecord] /\ generation' \in Nat
      BY <2>1 DEF SocketInv, SocketType
    <2>5. /\ socket'[f].peer \in {0, socket'[f].generation} /\ socket'[f].native # Closed
          /\ {} \in SUBSET Sessions
          /\ \A s \in {} : session'[s] = SessionOn(f, socket'[f].native)
          /\ \A s \in Sessions \ {} : session'[s] = session[s]
      BY <2>1, <2>2
    <2>. QED BY <2>2, <2>4, <2>5, SocketGiven
  <1>2. ASSUME NEW fds \in SUBSET Fds, Close(fds) PROVE SocketInv'
    <2>. USE DEF SocketInv, SocketType, SocketRecord, SessionRecord
    <2>1. /\ socket' = [f \in Fds |-> IF f \in fds THEN Free ELSE socket[f]]
          /\ generation' = generation
          /\ session' = [s \in Sessions |-> IF session[s].active /\ session[s].fd \in fds
                                            THEN Inactive ELSE session[s]]
      BY <1>2 DEF Close, ClearedSessions
    <2>2. SocketType'
      BY <2>1 DEF Free, Inactive
    <2>3. PeerIsOwn'
      BY <2>1 DEF PeerIsOwn, Free
    <2>4. SessionsLive'
      BY <2>1 DEF SessionsLive, OpenSocket, Inactive
    <2>. QED BY <2>2, <2>3, <2>4
  <1>3. ASSUME NEW f \in Fds, Shutdown(f) PROVE SocketInv'
    BY <1>3, SocketsKept DEF Shutdown, SocketInv, SocketType, PeerIsOwn
  <1>4. ASSUME NEW f \in Fds, SetBlocking(f) PROVE SocketInv'
    <2>0. PICK b \in BOOLEAN : socket' = [socket EXCEPT ![f].nonblocking = b]
      BY <1>4 DEF SetBlocking
    <2>1. /\ socket' = [socket EXCEPT ![f].nonblocking = b]
          /\ UNCHANGED <<generation, session>>
      BY <1>4, <2>0 DEF SetBlocking
    <2>2. SocketType'
      BY <2>1 DEF SocketInv, SocketType, SocketRecord
    <2>3. \A g \in Fds : /\ socket'[g].native = socket[g].native
                         /\ socket'[g].peer \in {0, socket'[g].generation}
      BY <2>1 DEF SocketInv, SocketType, SocketRecord, PeerIsOwn
    <2>. QED BY <2>1, <2>2, <2>3, SocketsKept
  <1>5. ASSUME NEW f \in Fds, ConnectDirect(f) PROVE SocketInv'
    <2>1. /\ \/ socket' = [socket EXCEPT ![f].peer = socket[f].generation, ![f].port = 443]
             \/ socket' = socket
          /\ UNCHANGED <<generation, session>>
      BY <1>5 DEF ConnectDirect
    <2>2. SocketType'
      BY <2>1 DEF SocketInv, SocketType, SocketRecord
    <2>3. \A g \in Fds : /\ socket'[g].native = socket[g].native
                         /\ socket'[g].peer \in {0, socket'[g].generation}
      BY <2>1 DEF SocketInv, SocketType, SocketRecord, PeerIsOwn
    <2>. QED BY <2>1, <2>2, <2>3, SocketsKept
  <1>6. ASSUME NEW f \in Fds, DeleteWiiSocket(f) PROVE SocketInv'
    BY <1>2, <1>6 DEF DeleteWiiSocket
  <1>7. CASE CleanupAllWiiSockets
    BY <1>2, <1>7 DEF CleanupAllWiiSockets, Open
  <1>. QED BY <1>1, <1>3, <1>4, <1>5, <1>6, <1>7 DEF Sockets

\* A connect settles on the socket it was made for.
LEMMA SettledOnItsOwn ==
  ASSUME NEW f \in Fds, NEW c \in Connected(f)
  PROVE  c.generation = socket[f].generation
  <1>1. c.fd = f /\ ConnectResult(c) = "ok"
    BY DEF Connected
  <1>2. Current(c)
    BY <1>1 DEF ConnectResult
  <1>. QED BY <1>1, <1>2 DEF Current

LEMMA PumpSockets ==
  ASSUME SocketInv, NEW ready, ProcessCompletions(ready) PROVE SocketInv'
  <1>. DEFINE first(f) == CHOOSE c \in Connected(f) : TRUE
  <1>1. /\ socket' = [f \in Fds |->
                        IF Connected(f) = {} THEN socket[f]
                        ELSE [native |-> socket[f].native, generation |-> socket[f].generation,
                              nonblocking |-> socket[f].nonblocking, port |-> 443,
                              peer |-> first(f).generation]]
        /\ UNCHANGED <<generation, session>>
    BY DEF ProcessCompletions
  <1>2. ASSUME NEW f \in Fds, Connected(f) # {}
        PROVE  first(f).generation = socket[f].generation
    <2>1. first(f) \in Connected(f)
      BY <1>2
    <2>. HIDE DEF first
    <2>. QED BY <2>1, SettledOnItsOwn
  <1>. HIDE DEF first
  <1>3. ASSUME NEW f \in Fds
        PROVE  /\ socket'[f] \in SocketRecord
               /\ socket'[f].native = socket[f].native
               /\ socket'[f].peer \in {0, socket'[f].generation}
    <2>1. socket[f] \in SocketRecord /\ socket[f].peer \in {0, socket[f].generation}
      BY DEF SocketInv, SocketType, PeerIsOwn
    <2>2. CASE Connected(f) = {}
      BY <1>1, <2>1, <2>2
    <2>3. CASE Connected(f) # {}
      <3>1. socket'[f] = [native |-> socket[f].native, generation |-> socket[f].generation,
                          nonblocking |-> socket[f].nonblocking, port |-> 443,
                          peer |-> first(f).generation]
        BY <1>1, <2>3
      <3>2. first(f).generation \in Nat
        BY <1>2, <2>1, <2>3 DEF SocketRecord
      <3>3. /\ socket'[f].native = socket[f].native
            /\ socket'[f].generation = socket[f].generation
            /\ socket'[f].peer = first(f).generation
        BY <2>1, <3>1 DEF SocketRecord
      <3>4. socket'[f] \in SocketRecord
        BY <2>1, <3>1, <3>2 DEF SocketRecord
      <3>. QED BY <1>2, <2>3, <3>3, <3>4
    <2>. QED BY <2>2, <2>3
  <1>4. SocketType'
    <2>1. socket' \in [Fds -> SocketRecord]
      BY <1>1, <1>3
    <2>. QED BY <1>1, <2>1 DEF SocketInv, SocketType
  <1>. QED BY <1>1, <1>3, <1>4, SocketsKept

LEMMA SslSteps ==
  ASSUME SocketInv, Ssl PROVE SocketInv'
  <1>. USE NetworkAssumption
  <1>1. ASSUME NEW s \in Sessions, SslNew(s) \/ SslShutdown(s) PROVE SocketInv'
    <2>1. PICK b \in BOOLEAN :
             session' = [session EXCEPT ![s] = [active |-> b, fd |-> NoFd, native |-> Closed]]
      BY <1>1 DEF SslNew, SslShutdown, Inactive
    <2>0. UNCHANGED <<socket, generation>>
      BY <1>1 DEF SslNew, SslShutdown
    <2>. DEFINE r == [active |-> b, fd |-> NoFd, native |-> Closed]
    <2>2. r \in SessionRecord /\ r.fd = NoFd
      BY DEF SessionRecord
    <2>3a. session' = [session EXCEPT ![s] = r]
      BY <2>1
    <2>. HIDE DEF r
    <2>3. SocketType' /\ PeerIsOwn'
      BY <2>0, <2>2, <2>3a DEF SocketInv, SocketType, PeerIsOwn
    <2>4. \A q \in Sessions : session'[q] = IF q = s THEN r ELSE session[q]
      BY <2>3a DEF SocketInv, SocketType
    <2>5. SessionsLive'
      BY <2>0, <2>2, <2>4 DEF SocketInv, SocketType, SessionsLive, OpenSocket
    <2>. QED BY <2>3, <2>5 DEF SocketInv
  <1>2. ASSUME NEW s \in Sessions, NEW f \in Fds, socket[f].native # Closed,
               session' = [session EXCEPT ![s] = SessionOn(f, socket[f].native)],
               socket' = [socket EXCEPT ![f].nonblocking = FALSE], generation' = generation
        PROVE  SocketInv'
    <2>0. PICK b \in BOOLEAN : socket' = [socket EXCEPT ![f].nonblocking = b]
      BY <1>2
    <2>1. /\ socket' \in [Fds -> SocketRecord]
          /\ \A g \in Fds \ {f} : socket'[g] = socket[g]
          /\ socket'[f].native = socket[f].native
      BY <2>0 DEF SocketRecord, SocketInv, SocketType
    <2>2. socket'[f].peer \in {0, socket'[f].generation}
      BY <2>0 DEF SocketRecord, SocketInv, SocketType, PeerIsOwn
    <2>3. /\ session' \in [Sessions -> SessionRecord] /\ generation' \in Nat
          /\ \A q \in {s} : session'[q] = SessionOn(f, socket'[f].native)
          /\ \A q \in Sessions \ {s} : session'[q] = session[q]
      BY <1>2, <2>1 DEF SocketInv, SocketType, SocketRecord, SessionRecord, SessionOn
    <2>4. socket'[f].native # Closed /\ {s} \in SUBSET Sessions
      BY <1>2, <2>1
    <2>. QED BY <2>1, <2>2, <2>3, <2>4, SocketGiven
  <1>3. ASSUME NEW s \in Sessions, NEW f \in Fds, NEW n \in Natives, SslReroute(s, f, n)
        PROVE  SocketInv'
    <2>1. CASE /\ session' = [session EXCEPT ![s] = SessionOn(f, n)]
               /\ socket' = [socket EXCEPT ![f] =
                                [native |-> n, generation |-> generation,
                                 nonblocking |-> FALSE, peer |-> generation, port |-> 80]]
               /\ generation' = generation + 1
      <3>1. /\ socket' \in [Fds -> SocketRecord]
            /\ \A g \in Fds \ {f} : socket'[g] = socket[g]
            /\ socket'[f].native = n /\ socket'[f].native # Closed
            /\ socket'[f].peer \in {0, socket'[f].generation}
        BY <2>1 DEF SocketInv, SocketType, SocketRecord
      <3>2. /\ session' \in [Sessions -> SessionRecord] /\ generation' \in Nat
            /\ \A q \in {s} : session'[q] = SessionOn(f, socket'[f].native)
            /\ \A q \in Sessions \ {s} : session'[q] = session[q]
        BY <2>1, <3>1 DEF SocketInv, SocketType, SessionRecord, SessionOn
      <3>3. {s} \in SUBSET Sessions
        OBVIOUS
      <3>. QED BY <3>1, <3>2, <3>3, SocketGiven
    <2>2. CASE /\ session' = [session EXCEPT ![s] = SessionOn(f, socket[f].native)]
               /\ socket' = [socket EXCEPT ![f].nonblocking = FALSE]
               /\ generation' = generation
      <3>1. socket[f].native # Closed
        BY <1>3 DEF SslReroute
      <3>. QED BY <1>2, <2>2, <3>1
    <2>. QED BY <1>3, <2>1, <2>2 DEF SslReroute
  <1>4. ASSUME NEW s \in Sessions, NEW f \in Fds, SslConnect(s, f) PROVE SocketInv'
    BY <1>2, <1>4 DEF SslConnect
  <1>. QED BY <1>1, <1>3, <1>4 DEF Ssl

LEMMA SocketStep ==
  ASSUME SocketInv, [Next]_vars PROVE SocketInv'
  <1>1. ASSUME UNCHANGED <<socket, generation, session>> PROVE SocketInv'
    BY <1>1 DEF SocketInv, SocketType, PeerIsOwn, SessionsLive, OpenSocket
  <1>2. CASE DeferredCalls
    BY <1>1, <1>2 DEF DeferredCalls, InstallDns, InstallPoll, InstallConnect, LaunchFails,
                      TakeSyncResult
  <1>3. CASE Workers \/ Timeouts \/ RunCallback \/ UNCHANGED vars
    BY <1>1, <1>3 DEF Workers, Resolve, Timeouts, PollExpires, ConnectExpires, RunCallback, vars
  <1>4. CASE \/ \E n \in Natives : HostSettles(n)
             \/ \E t \in Threads : CancelThread(t) \/ CreateThread(t)
    BY <1>1, <1>4 DEF HostSettles, CancelThread, CreateThread
  <1>5. CASE Pump
    BY <1>5, PumpSockets DEF Pump
  <1>. QED BY <1>2, <1>3, <1>4, <1>5, SocketSteps, SslSteps DEF Next

\* A connect parked for a socket that is gone never marks the one that took its
\* slot as connected (Network_HLE_ProcessCompletions, SocketIdentityIsCurrent).
THEOREM PeersOwn == Spec => []PeerIsOwn
  <1>1. SocketInv => PeerIsOwn
    BY DEF SocketInv
  <1>. QED BY <1>1, SocketInit, SocketStep, PTL DEF Spec

\* A session that nothing is done to, on a socket that keeps its descriptor.
LEMMA LeftFollowing ==
  ASSUME SocketInv, NEW s \in Sessions, Follows(s), session'[s] = session[s],
         session[s].fd \in Fds =>
             \/ socket[session[s].fd].native = Closed
             \/ socket'[session[s].fd].native = socket[session[s].fd].native
  PROVE  Follows(s)'
  BY DEF Follows, SocketInv, SocketType, SessionRecord, SessionsLive, OpenSocket

\* A session put on socket f with the descriptor that f has then.
LEMMA PutOnSocket ==
  ASSUME NEW s \in Sessions, NEW f, session'[s] = SessionOn(f, socket'[f].native)
  PROVE  Follows(s)'
  BY DEF Follows, SessionOn

LEMMA SslFollows ==
  ASSUME SocketInv, Ssl, NEW s \in Sessions, Follows(s), ~Follows(s)'
  PROVE  ReroutedFrom(s)
  <1>. USE DEF SocketInv, SocketType
  <1>1. ASSUME NEW r \in Sessions, SslNew(r) \/ SslShutdown(r) PROVE FALSE
    <2>1. PICK b \in BOOLEAN :
             session' = [session EXCEPT ![r] = [active |-> b, fd |-> NoFd, native |-> Closed]]
      BY <1>1 DEF SslNew, SslShutdown, Inactive
    <2>2. socket' = socket
      BY <1>1 DEF SslNew, SslShutdown
    <2>3. CASE r = s
      BY <2>1, <2>3 DEF Follows
    <2>4. CASE r # s
      BY <2>1, <2>2, <2>4, LeftFollowing
    <2>. QED BY <2>3, <2>4
  <1>2. ASSUME NEW r \in Sessions, NEW f \in Fds,
               session' = [session EXCEPT ![r] = SessionOn(f, socket[f].native)],
               socket' = [socket EXCEPT ![f].nonblocking = FALSE]
        PROVE  FALSE
    <2>1. \A g \in Fds : socket'[g].native = socket[g].native
      BY <1>2 DEF SocketRecord
    <2>2. CASE r = s
      BY <1>2, <2>1, <2>2, PutOnSocket
    <2>3. CASE r # s
      BY <1>2, <2>1, <2>3, LeftFollowing
    <2>. QED BY <2>2, <2>3
  <1>3. ASSUME NEW r \in Sessions, NEW f \in Fds, SslConnect(r, f) PROVE FALSE
    BY <1>2, <1>3 DEF SslConnect
  <1>4. ASSUME NEW r \in Sessions, NEW f \in Fds, NEW n \in Natives, SslReroute(r, f, n)
        PROVE  ReroutedFrom(s)
    <2>1. CASE /\ session' = [session EXCEPT ![r] = SessionOn(f, n)]
               /\ socket' = [socket EXCEPT ![f] =
                                [native |-> n, generation |-> generation,
                                 nonblocking |-> FALSE, peer |-> generation, port |-> 80]]
      <3>1. /\ session'[r] = SessionOn(f, n)
            /\ socket'[f].native = n
            /\ \A g \in Fds \ {f} : socket'[g] = socket[g]
        BY <2>1
      <3>2. r # s
        BY <3>1, PutOnSocket
      <3>3. session'[s] = session[s]
        BY <2>1, <3>2
      <3>4. session[s].fd = f
        BY <3>1, <3>3, LeftFollowing
      <3>5. session[s].native # n
        BY <3>1, <3>3, <3>4 DEF Follows
      <3>6. session'[r].native = n
        BY <3>1 DEF SessionOn
      <3>. QED BY <3>1, <3>2, <3>4, <3>5, <3>6 DEF ReroutedFrom
    <2>2. CASE /\ session' = [session EXCEPT ![r] = SessionOn(f, socket[f].native)]
               /\ socket' = [socket EXCEPT ![f].nonblocking = FALSE]
      BY <1>2, <2>2
    <2>. QED BY <1>4, <2>1, <2>2 DEF SslReroute
  <1>. QED BY <1>1, <1>3, <1>4 DEF Ssl

LEMMA SocketsFollow ==
  ASSUME SocketInv, Sockets, NEW s \in Sessions, Follows(s)
  PROVE  Follows(s)'
  <1>. USE DEF SocketInv, SocketType
  <1>1. ASSUME NEW f \in Fds, NEW n \in Natives, NewSocket(f, n) PROVE Follows(s)'
    <2>1. /\ socket[f].native = Closed /\ session' = session
          /\ \A g \in Fds \ {f} : socket'[g] = socket[g]
      BY <1>1 DEF NewSocket
    <2>. QED BY <2>1, LeftFollowing
  <1>2. ASSUME NEW fds \in SUBSET Fds, Close(fds) PROVE Follows(s)'
    <2>1. /\ socket' = [f \in Fds |-> IF f \in fds THEN Free ELSE socket[f]]
          /\ session' = [q \in Sessions |-> IF session[q].active /\ session[q].fd \in fds
                                            THEN Inactive ELSE session[q]]
      BY <1>2 DEF Close, ClearedSessions
    <2>. QED BY <2>1 DEF Follows, Inactive, SessionRecord
  <1>3. ASSUME NEW f \in Fds, Shutdown(f) \/ SetBlocking(f) \/ ConnectDirect(f)
        PROVE  Follows(s)'
    <2>1. session' = session
      BY <1>3 DEF Shutdown, SetBlocking, ConnectDirect
    <2>2. \A g \in Fds : socket'[g].native = socket[g].native
      BY <1>3 DEF Shutdown, SetBlocking, ConnectDirect, SocketRecord
    <2>. QED BY <2>1, <2>2, LeftFollowing
  <1>4. ASSUME NEW f \in Fds, DeleteWiiSocket(f) PROVE Follows(s)'
    BY <1>2, <1>4 DEF DeleteWiiSocket
  <1>5. CASE CleanupAllWiiSockets
    BY <1>2, <1>5 DEF CleanupAllWiiSockets, Open
  <1>. QED BY <1>1, <1>3, <1>4, <1>5 DEF Sockets

LEMMA SessionStep ==
  ASSUME SocketInv, SocketInv', [Next]_vars, NEW s \in Sessions
  PROVE  KeepsItsSocket(s)
  <1>1. OpenSocket(s)'
    BY DEF SocketInv, SessionsLive
  <1>. SUFFICES ASSUME Follows(s), ~Follows(s)' PROVE ReroutedFrom(s)
    BY <1>1 DEF KeepsItsSocket
  <1>2. ASSUME UNCHANGED <<socket, session>> PROVE FALSE
    BY <1>2 DEF Follows
  <1>3. CASE DeferredCalls
    BY <1>2, <1>3 DEF DeferredCalls, InstallDns, InstallPoll, InstallConnect, LaunchFails,
                      TakeSyncResult
  <1>4. CASE Workers \/ Timeouts \/ RunCallback \/ UNCHANGED vars
    BY <1>2, <1>4 DEF Workers, Resolve, Timeouts, PollExpires, ConnectExpires, RunCallback, vars
  <1>5. CASE \/ \E n \in Natives : HostSettles(n)
             \/ \E t \in Threads : CancelThread(t) \/ CreateThread(t)
    BY <1>2, <1>5 DEF HostSettles, CancelThread, CreateThread
  <1>6. ASSUME NEW ready, ProcessCompletions(ready) PROVE FALSE
    <2>1. session' = session
      BY <1>6 DEF ProcessCompletions
    <2>2. \A f \in Fds : socket'[f].native = socket[f].native
      BY <1>6 DEF ProcessCompletions
    <2>. QED BY <2>1, <2>2, LeftFollowing
  <1>. QED BY <1>3, <1>4, <1>5, <1>6, SocketsFollow, SslFollows DEF Next, Pump

\* A session loses the host descriptor of its socket in one way only, that another
\* session of the socket is rerouted, and never outlives the socket
\* (ClearSslSessionsForSocket, the reroute of IOCTLV_NET_SSL_CONNECT), for any
\* sockets and sessions, any number of which may share a socket.
THEOREM SessionsFollow == Spec => SessionFollowsSocket
  <1>1. SocketInv /\ SocketInv' /\ [Next]_vars => [\A s \in Sessions : KeepsItsSocket(s)]_vars
    BY SessionStep
  <1>. QED BY <1>1, SocketInit, SocketStep, PTL DEF Spec, SessionFollowsSocket

-----------------------------------------------------------------------------
(* Types *)

SocketEntry ==
    [native : Natives \cup {Closed}, generation : 0 .. MaxGeneration,
     nonblocking : BOOLEAN, peer : 0 .. MaxGeneration, port : {0, 80, 443}]

SessionEntry == [active : BOOLEAN, fd : Fds \cup {NoFd}, native : Natives \cup {Closed}]

HostStates == {"unused", "idle", "connecting", "connected", "refused"}

\* A step on the sockets, the hosts and the sessions alone.
LEMMA TypeOfSockets ==
  ASSUME TypeOK, UNCHANGED <<thread, cookie, token, jobs>>,
         socket' \in [Fds -> SocketEntry], session' \in [Sessions -> SessionEntry],
         host' \in [Natives -> HostStates], generation' \in 1 .. (MaxGeneration + 1)
  PROVE  TypeOK'
  BY DEF TypeOK, jobs, SocketEntry, SessionEntry, HostStates

LEMMA EntriesOf ==
  ASSUME TypeOK
  PROVE  /\ socket \in [Fds -> SocketEntry] /\ session \in [Sessions -> SessionEntry]
         /\ host \in [Natives -> HostStates] /\ generation \in 1 .. (MaxGeneration + 1)
  BY DEF TypeOK, SocketEntry, SessionEntry, HostStates

LEMMA BlockingKept ==
  ASSUME socket \in [Fds -> SocketEntry], NEW f \in Fds, NEW b \in BOOLEAN
  PROVE  [socket EXCEPT ![f].nonblocking = b] \in [Fds -> SocketEntry]
  BY DEF SocketEntry

LEMMA TypeInit == Init => TypeOK
  BY NetworkAssumption DEF Init, TypeOK, Free, Inactive

LEMMA TypeSockets ==
  ASSUME TypeOK, Sockets PROVE TypeOK'
  <1>. USE NetworkAssumption DEF TypeOK, jobs
  <1>1. ASSUME NEW f \in Fds, NEW n \in Natives, NewSocket(f, n) PROVE TypeOK'
    BY <1>1 DEF NewSocket
  <1>2. ASSUME NEW fds \in SUBSET Fds PROVE Aborted(fds) \subseteq
               [route : Routes, fd : Fds, native : Natives, generation : 0 .. MaxGeneration,
                expired : BOOLEAN, initial : {"unresolved", "ok", "failed"}]
    BY DEF Aborted
  <1>3. ASSUME NEW fds \in SUBSET Fds, Close(fds) PROVE TypeOK'
    <2>. DEFINE gone(n) == \E f \in fds : socket[f].native = n
    <2>1. /\ host' = [n \in Natives |-> IF gone(n) THEN "unused" ELSE host[n]]
          /\ socket' = [f \in Fds |-> IF f \in fds THEN Free ELSE socket[f]]
          /\ session' = [s \in Sessions |-> IF session[s].active /\ session[s].fd \in fds
                                            THEN Inactive ELSE session[s]]
          /\ connects' = Aborted(fds)
          /\ UNCHANGED <<thread, cookie, generation, token, lookups, completed, polls,
                         results, callbacks>>
      BY <1>3 DEF Close, ClearedSessions
    <2>. HIDE DEF gone
    <2>2. host' \in [Natives -> {"unused", "idle", "connecting", "connected", "refused"}]
      BY <2>1
    <2>3. socket' \in [Fds -> [native : Natives \cup {Closed}, generation : 0 .. MaxGeneration,
                              nonblocking : BOOLEAN, peer : 0 .. MaxGeneration,
                              port : {0, 80, 443}]]
      BY <2>1 DEF Free
    <2>4. session' \in [Sessions -> [active : BOOLEAN, fd : Fds \cup {NoFd},
                                    native : Natives \cup {Closed}]]
      BY <2>1 DEF Inactive
    <2>. QED BY <1>2, <2>1, <2>2, <2>3, <2>4
  <1>4. ASSUME NEW f \in Fds, Shutdown(f) PROVE TypeOK'
    BY <1>2, <1>4 DEF Shutdown
  <1>5. ASSUME NEW f \in Fds, SetBlocking(f) PROVE TypeOK'
    <2>. HIDE DEF TypeOK
    <2>1. PICK b \in BOOLEAN : socket' = [socket EXCEPT ![f].nonblocking = b]
      BY <1>5 DEF SetBlocking
    <2>2. socket' \in [Fds -> SocketEntry]
      BY <2>1, EntriesOf DEF SocketEntry
    <2>. QED BY <1>5, <2>2, EntriesOf, TypeOfSockets DEF SetBlocking
  <1>6. ASSUME NEW f \in Fds, ConnectDirect(f) PROVE TypeOK'
    <2>. HIDE DEF TypeOK
    <2>1. PICK outcome \in {"connected", "connecting", "refused"} :
            /\ HostConnects(socket[f].native, outcome)
            /\ \/ socket' = [socket EXCEPT ![f].peer = socket[f].generation, ![f].port = 443]
               \/ socket' = socket
      BY <1>6 DEF ConnectDirect
    <2>2. socket' \in [Fds -> SocketEntry]
      BY <2>1, EntriesOf DEF SocketEntry
    <2>3. host' \in [Natives -> HostStates]
      BY <2>1, EntriesOf DEF HostConnects, HostStates
    <2>. QED BY <1>6, <2>2, <2>3, EntriesOf, TypeOfSockets DEF ConnectDirect
  <1>7. ASSUME NEW f \in Fds, DeleteWiiSocket(f) PROVE TypeOK'
    BY <1>3, <1>7 DEF DeleteWiiSocket
  <1>8. CASE CleanupAllWiiSockets
    BY <1>3, <1>8 DEF CleanupAllWiiSockets, Open
  <1>. QED BY <1>1, <1>4, <1>5, <1>6, <1>7, <1>8 DEF Sockets

LEMMA TypeCalls ==
  ASSUME TypeOK, DeferredCalls PROVE TypeOK'
  <1>. USE NetworkAssumption DEF TypeOK, jobs
  <1>1. ASSUME NEW t \in Threads \cup {NoThread}, Installed(t)
        PROVE  /\ Route(t) \in Routes
               /\ token' \in 1 .. (MaxToken + 1)
               /\ cookie' \in [Threads -> 0 .. MaxToken]
               /\ thread' \in [Threads -> [state : {"running", "waiting", "dead"},
                                           token : 0 .. MaxToken]]
    BY <1>1 DEF Installed, Route, Routes, SyncRoute, AsyncRoute
  <1>2. ASSUME NEW t \in Threads \cup {NoThread}, InstallDns(t) PROVE TypeOK'
    BY <1>1, <1>2 DEF InstallDns
  <1>3. ASSUME NEW t \in Threads \cup {NoThread}, NEW f \in Fds, InstallPoll(t, f)
        PROVE  TypeOK'
    BY <1>1, <1>3 DEF InstallPoll
  <1>4. ASSUME NEW t \in Threads \cup {NoThread}, NEW f \in Fds, InstallConnect(t, f)
        PROVE  TypeOK'
    <2>1. PICK outcome \in {"connected", "connecting", "refused"} :
            /\ HostConnects(socket[f].native, outcome)
            /\ connects' = connects \cup
                 {[route |-> Route(t), fd |-> f, native |-> socket[f].native,
                   generation |-> socket[f].generation, expired |-> FALSE,
                   initial |-> Settled(outcome)]}
      BY <1>4 DEF InstallConnect
    <2>2. Settled(outcome) \in {"unresolved", "ok", "failed"}
      BY DEF Settled
    <2>3. host' \in [Natives -> HostStates]
      BY <2>1 DEF HostConnects, HostStates
    <2>4. socket[f].native \in Natives /\ socket[f].generation \in 0 .. MaxGeneration
      BY <1>4 DEF InstallConnect
    <2>5. Route(t) \in Routes
      BY <1>1, <1>4 DEF InstallConnect
    <2>6. connects' \subseteq
               [route : Routes, fd : Fds, native : Natives, generation : 0 .. MaxGeneration,
                expired : BOOLEAN, initial : {"unresolved", "ok", "failed"}]
      <3>1. \A b \in BOOLEAN :
              [route |-> Route(t), fd |-> f, native |-> socket[f].native,
               generation |-> socket[f].generation, expired |-> b,
               initial |-> Settled(outcome)] \in
               [route : Routes, fd : Fds, native : Natives, generation : 0 .. MaxGeneration,
                expired : BOOLEAN, initial : {"unresolved", "ok", "failed"}]
        BY <2>2, <2>4, <2>5
      <3>. QED BY <2>1, <3>1
    <2>. QED BY <1>1, <1>4, <2>3, <2>6 DEF InstallConnect, HostStates
  <1>5. ASSUME NEW t \in Threads, LaunchFails(t) PROVE TypeOK'
    BY <1>5 DEF LaunchFails
  <1>6. ASSUME NEW t \in Threads, TakeSyncResult(t) PROVE TypeOK'
    BY <1>6 DEF TakeSyncResult
  <1>. QED BY <1>2, <1>3, <1>4, <1>5, <1>6 DEF DeferredCalls

LEMMA TypeSsl ==
  ASSUME TypeOK, Ssl PROVE TypeOK'
  <1>. USE NetworkAssumption DEF TypeOK, jobs
  <1>1. ASSUME NEW s \in Sessions, SslNew(s) PROVE TypeOK'
    BY <1>1 DEF SslNew
  <1>2. ASSUME NEW s \in Sessions, SslShutdown(s) PROVE TypeOK'
    BY <1>2 DEF SslShutdown, Inactive
  <1>3. ASSUME NEW s \in Sessions, NEW f \in Fds, SslConnect(s, f) PROVE TypeOK'
    <2>. HIDE DEF TypeOK
    <2>1. socket[f].native \in Natives \cup {Closed}
      BY EntriesOf DEF SocketEntry
    <2>2. session' \in [Sessions -> SessionEntry]
      BY <1>3, <2>1, EntriesOf DEF SslConnect, SessionOn, SessionEntry
    <2>3. socket' \in [Fds -> SocketEntry]
      BY <1>3, EntriesOf, BlockingKept DEF SslConnect
    <2>. QED BY <1>3, <2>2, <2>3, EntriesOf, TypeOfSockets DEF SslConnect
  <1>4. ASSUME NEW s \in Sessions, NEW f \in Fds, NEW n \in Natives, SslReroute(s, f, n)
        PROVE  TypeOK'
    <2>. HIDE DEF TypeOK
    <2>1. socket[f].native \in Natives \cup {Closed} /\ generation < MaxGeneration
      BY <1>4, EntriesOf DEF SslReroute, SocketEntry
    <2>2. PICK m \in Natives \cup {Closed} : session' = [session EXCEPT ![s] = SessionOn(f, m)]
      BY <1>4, <2>1 DEF SslReroute
    <2>3. session' \in [Sessions -> SessionEntry]
      BY <2>2, EntriesOf DEF SessionOn, SessionEntry
    <2>4. \/ socket' = [socket EXCEPT ![f] = [native |-> n, generation |-> generation,
                           nonblocking |-> FALSE, peer |-> generation, port |-> 80]]
          \/ socket' = [socket EXCEPT ![f].nonblocking = FALSE]
      BY <1>4 DEF SslReroute
    <2>7. [native |-> n, generation |-> generation, nonblocking |-> FALSE,
           peer |-> generation, port |-> 80] \in SocketEntry
      BY <2>1, EntriesOf DEF SocketEntry
    <2>5. socket' \in [Fds -> SocketEntry]
      <3>1. CASE socket' = [socket EXCEPT ![f].nonblocking = FALSE]
        BY <3>1, EntriesOf, BlockingKept
      <3>2. ASSUME NEW entry \in SocketEntry, socket' = [socket EXCEPT ![f] = entry]
            PROVE  socket' \in [Fds -> SocketEntry]
        BY <3>2, EntriesOf
      <3>. QED BY <2>4, <2>7, <3>1, <3>2
    <2>6. host' \in [Natives -> HostStates] /\ generation' \in 1 .. (MaxGeneration + 1)
      BY <1>4, <2>1, EntriesOf DEF SslReroute, HostStates
    <2>. QED BY <1>4, <2>3, <2>5, <2>6, EntriesOf, TypeOfSockets DEF SslReroute
  <1>. QED BY <1>1, <1>2, <1>3, <1>4 DEF Ssl

LEMMA TypePump ==
  ASSUME TypeOK, NEW ready, ProcessCompletions(ready) PROVE TypeOK'
  <1>. USE NetworkAssumption DEF TypeOK
  <1>. DEFINE settled == {j.route : j \in {d \in completed : Wanted(d)}
                                         \cup SettledPolls(ready) \cup SettledConnects}
              first(f) == CHOOSE c \in Connected(f) : TRUE
  <1>1. /\ Deliver(settled)
        /\ completed' = {}
        /\ polls' = {p \in polls : Wanted(p)} \ SettledPolls(ready)
        /\ connects' = {c \in connects : Wanted(c)} \ SettledConnects
        /\ socket' = [f \in Fds |->
                        IF Connected(f) = {} THEN socket[f]
                        ELSE [native |-> socket[f].native, generation |-> socket[f].generation,
                              nonblocking |-> socket[f].nonblocking, port |-> 443,
                              peer |-> first(f).generation]]
        /\ UNCHANGED <<cookie, host, generation, token, lookups, session>>
    BY DEF ProcessCompletions
  <1>2. settled \subseteq Routes
    BY DEF SettledPolls, SettledConnects
  <1>3. ASSUME NEW f \in Fds, Connected(f) # {}
        PROVE  first(f).generation \in 0 .. MaxGeneration
    <2>1. first(f) \in Connected(f)
      BY <1>3
    <2>. HIDE DEF first
    <2>. QED BY <2>1 DEF Connected, SettledConnects
  <1>. HIDE DEF settled, first
  <1>4. socket' \in [Fds -> SocketEntry]
    BY <1>1, <1>3 DEF SocketEntry
  <1>5. \A kind \in {"sync", "async"} : Tokens(kind, settled) \subseteq 1 .. MaxToken
    BY <1>2 DEF Tokens, Routes
  <1>6. /\ results' \subseteq 1 .. MaxToken
        /\ callbacks' \subseteq 1 .. MaxToken
    BY <1>1, <1>5 DEF Deliver
  <1>7. thread' \in [Threads -> [state : {"running", "waiting", "dead"}, token : 0 .. MaxToken]]
    BY <1>1 DEF Deliver
  <1>8. /\ polls' \subseteq polls /\ connects' \subseteq connects
    BY <1>1
  <1>. QED BY <1>1, <1>4, <1>6, <1>7, <1>8 DEF SocketEntry

LEMMA TypeStep == TypeOK /\ [Next]_vars => TypeOK'
  <1>. SUFFICES ASSUME TypeOK, [Next]_vars PROVE TypeOK'
    OBVIOUS
  <1>. USE DEF TypeOK, jobs
  <1>1. CASE UNCHANGED vars
    BY <1>1 DEF vars
  <1>2. CASE Workers
    BY <1>2 DEF Workers, Resolve
  <1>3. CASE Timeouts
    <2>1. ASSUME NEW p \in polls, PollExpires(p) PROVE TypeOK'
      <3>1. [p EXCEPT !.timeout = "expired"] \in
               [route : Routes, fd : Fds, native : Natives \cup {Closed},
                generation : 0 .. MaxGeneration, timeout : {"infinite", "running", "expired"}]
        OBVIOUS
      <3>. QED BY <2>1, <3>1 DEF PollExpires
    <2>2. ASSUME NEW c \in connects, ConnectExpires(c) PROVE TypeOK'
      <3>1. \A b \in BOOLEAN : [c EXCEPT !.expired = b] \in
               [route : Routes, fd : Fds, native : Natives, generation : 0 .. MaxGeneration,
                expired : BOOLEAN, initial : {"unresolved", "ok", "failed"}]
        OBVIOUS
      <3>2. [c EXCEPT !.expired = TRUE] \in
               [route : Routes, fd : Fds, native : Natives, generation : 0 .. MaxGeneration,
                expired : BOOLEAN, initial : {"unresolved", "ok", "failed"}]
        BY <3>1, Zenon
      <3>. QED BY <2>2, <3>2 DEF ConnectExpires
    <2>. QED BY <1>3, <2>1, <2>2 DEF Timeouts
  <1>4. CASE RunCallback
    BY <1>4 DEF RunCallback
  <1>5. ASSUME NEW n \in Natives, HostSettles(n) PROVE TypeOK'
    BY <1>5 DEF HostSettles
  <1>6. ASSUME NEW t \in Threads, CancelThread(t) \/ CreateThread(t) PROVE TypeOK'
    <2>1. thread' \in [Threads -> [state : {"running", "waiting", "dead"}, token : 0 .. MaxToken]]
      <3>1. CASE CancelThread(t)
        BY <3>1, NetworkAssumption DEF CancelThread
      <3>2. CASE CreateThread(t)
        BY <3>2 DEF CreateThread
      <3>. QED BY <1>6, <3>1, <3>2
    <2>2. UNCHANGED <<cookie, socket, host, generation, token, jobs, session>>
      BY <1>6 DEF CancelThread, CreateThread
    <2>. QED BY <2>1, <2>2
  <1>7. CASE Pump
    BY <1>7, TypePump DEF Pump
  <1>. QED BY <1>1, <1>2, <1>3, <1>4, <1>5, <1>6, <1>7, TypeSockets, TypeCalls, TypeSsl DEF Next

\* Every field of the sockets, the parked jobs and the sessions keeps its range,
\* whatever the bounds on calls and generations.
THEOREM NetworkTypeCorrect == Spec => []TypeOK
  BY TypeInit, TypeStep, PTL DEF Spec
=============================================================================
