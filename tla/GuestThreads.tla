---------------------------- MODULE GuestThreads ----------------------------
(***************************************************************************)
(* The guest OS thread scheduler: os_scheduler.cpp, os_thread.cpp and      *)
(* os_sleep.cpp under src/src/platform/os, with the part of                *)
(* src/src/cpu/fiber_manager.cpp that switches host stacks.                *)
(*                                                                         *)
(* Every guest thread is a fiber of one host thread, so exactly one fiber  *)
(* (active) executes at a time and hands over only inside SelectThread.    *)
(* A call that reaches SelectThread may therefore be cut in two: the part  *)
(* after it runs when the fiber is picked again, possibly much later and   *)
(* in a very different state.  stack[t] is the native call stack of fiber  *)
(* t, top first: the calls that have begun and not returned.  A step runs  *)
(* the top frame of the active fiber up to its next call or loop turn, so  *)
(* only guest code (an empty stack) and the idle loop leave a choice of    *)
(* what happens next.                                                      *)
(***************************************************************************)
EXTENDS Integers, SequencesExt

CONSTANTS Thread,       \* OSThread structures
          Main,         \* the default thread; its fiber is the scheduler's host stack
          Mutex,        \* OSMutex structures
          WaitQueue,    \* OSThreadQueues of the game: retrace, message, ... queues
          Low,          \* the lowest run-queue priority (31 in the code; 0 is best)
          MaxWake,      \* kMaxWake, the most threads one wake-up takes
          MaxDisabled,  \* bound on the OSDisableScheduler nesting
          Games,        \* what the games may do: a behaviour is one game's
          None          \* a null pointer

ASSUME ConstantsAssumption ==
    /\ Main \in Thread
    /\ Low \in Nat
    /\ MaxWake \in Nat
    /\ MaxDisabled \in Nat
    /\ Games \subseteq [calls : SUBSET STRING,          \* the OS calls it makes
                       threads : SUBSET Thread,        \* the threads it creates
                       mutexes : SUBSET Mutex,         \* the mutexes it locks
                       main : 0 .. Low,                \* the default thread's priority
                       priorities : SUBSET (0 .. Low), \* the priorities of the others
                       attributes : SUBSET BOOLEAN,    \* whether it creates them detached
                       suspends : Nat,                 \* bound on the suspend counts
                       counts : Nat]                   \* bound on a mutex's recursion
    /\ None \notin Thread \cup Mutex
    /\ "idle" \notin Thread

Priority == 0 .. Low
SuspendedWait == Low + 1            \* kSuspendedWaitPriority
AnyPriority == 0 .. SuspendedWait

State == {"none", "ready", "running", "waiting", "moribund"}

\* The address of an OSThreadQueue.
RunQ(p) == <<"run", p>>
MutexQ(m) == <<"mutex", m>>
JoinQ(t) == <<"join", t>>
WaitQ(w) == <<"wait", w>>
RunQueues == {RunQ(p) : p \in Priority}
BlockQueues == {MutexQ(m) : m \in Mutex} \cup {JoinQ(t) : t \in Thread}
                 \cup {WaitQ(w) : w \in WaitQueue}
Queue == RunQueues \cup BlockQueues

\* None is no queue: a null queue pointer.
ASSUME QueueAssumption == None \notin Queue

VARIABLES game,         \* the game that runs
          state,        \* OSThread.state
          suspend,      \* OSThread.suspend
          prio,         \* OSThread.priority, the effective one
          base,         \* OSThread.base
          detached,     \* OSThread.attr
          queue,        \* OSThread.queue: the queue t was last linked into, or None
          waitMutex,    \* OSThread.mutex: the mutex t is blocked on, or None
          held,         \* OSThread.queueMutex: the mutexes t owns, oldest first
          q,            \* the threads linked into each queue, head first
          alive,        \* __OSActiveThreadQueue: created and neither reaped nor detached-dead
          owner,        \* OSMutex.thread
          count,        \* OSMutex.count
          pending,      \* RunQueueBits, as the set of marked priorities
          resched,      \* RunQueueHint
          disabled,     \* the OSDisableScheduler nesting count
          running,      \* __OSCurrentThread (0x800000E4)
          current,      \* OSGetCurrentContext (0x800000D4): a thread, "idle" or None
          timers,       \* gSleepTimers: the threads with an armed sleep timer
          active,       \* the fiber the host thread executes
          curGuest,     \* GuestFiberManager::s_currentGuestThread
          dead,         \* GuestFiber.terminated
          stack         \* the native call stack of each fiber

linkVars == <<q, queue, pending>>
prioVars == <<prio, base>>
mutexVars == <<owner, count, held>>
ctxVars == <<running, current>>
fiberVars == <<active, curGuest, dead>>
\* What only the calls that create and end threads change.
lifeVars == <<base, detached, alive, dead>>
vars == <<game, state, suspend, prio, base, detached, queue, waitMutex, held, q, alive,
          owner, count, pending, resched, disabled, running, current, timers,
          active, curGuest, dead, stack>>

Terminated(t) == state[t] \in {"none", "moribund"}

-----------------------------------------------------------------------------
(* Queues.                                                                 *)

\* InsertThreadIntoQueueByPriority: before the first thread of lower
\* priority, so after those of the same priority.
Position(s, p) == CHOOSE i \in 1 .. Len(s) + 1 :
                     /\ \A j \in 1 .. i - 1 : prio[s[j]] <= p
                     /\ i <= Len(s) => prio[s[i]] > p
Link(links, t, x, p) == [links EXCEPT ![x] = InsertAt(@, Position(@, p), t)]

\* The pending bits that go with linking into x.
Mark(x) == {p \in Priority : x = RunQ(p)}

\* RemoveThreadFromQueue, with UpdatePendingMaskForQueue on the queue it left.
\* The code takes the queue pointer's word for it that t is linked there, and
\* would corrupt the list if not; QueuesWellFormed says that it is.
Unlinked(t) == IF queue[t] = None THEN q
               ELSE [q EXCEPT ![queue[t]] = RemoveFirst(@, t)]
\* Mutant of Unmarked: the bit of a run queue that gets empty stays set.
UnmarkedNever(t) == pending

Unmarked(t) == {p \in pending : queue[t] = RunQ(p) => Unlinked(t)[RunQ(p)] # <<>>}

Unlink(t) == /\ q' = Unlinked(t)
             /\ pending' = Unmarked(t)
             /\ queue' = [queue EXCEPT ![t] = None]

\* Take t out of its queue, and sort it into x by its new priority p.
Relink(t, x, p) ==
    /\ q' = IF x = None THEN Unlinked(t) ELSE Link(Unlinked(t), t, x, p)
    /\ pending' = Unmarked(t) \cup Mark(x)
    /\ queue' = [queue EXCEPT ![t] = x]
    /\ prio' = [prio EXCEPT ![t] = p]

\* ComputeThreadEffectivePriority over the mutexes ms: the best of the base
\* priority and that of the first waiter of each mutex.
Effective(t, ms) ==
    Min({base[t]} \cup {prio[Head(q[MutexQ(m)])] : m \in {m \in Range(ms) : q[MutexQ(m)] # <<>>}})

\* The threads of s that are in S, in their order.
Kept(s, S) ==
    LET kept[i \in 0 .. Len(s)] == IF i = 0 THEN <<>>
                                   ELSE IF s[i] \in S THEN Append(kept[i - 1], s[i])
                                   ELSE kept[i - 1]
    IN  kept[Len(s)]

\* Mutant of RunPriority: the base priority, without what was inherited.
RunPriorityOfBase(t) == base[t]

\* The loop of WakeupThreadQueue: the threads of x get ready, and those not
\* suspended are on a run queue.  A suspended one keeps the pointer to the
\* queue it was taken out of, unless clear (WakeGuestThreadsOnQueueNoSwitch).
RunPriority(t) == IF prio[t] > Low THEN Low ELSE prio[t]
Popped(x) == SubSeq(q[x], 1, Min({MaxWake, Len(q[x])}))
Wakes(x) == {t \in Range(Popped(x)) : ~Terminated(t) /\ ~dead[t]}
Awake(x) == Kept(Popped(x), {t \in Wakes(x) : suspend[t] < 1})
WokenStates(x) == [t \in Thread |-> IF t \in Wakes(x) THEN "ready" ELSE state[t]]
WakeLinks(x, clear) ==
    LET awake(p) == Kept(Awake(x), {t \in Thread : RunPriority(t) = p})
    IN  /\ q' = [y \in Queue |-> IF y = x THEN SubSeq(q[x], Len(Popped(x)) + 1, Len(q[x]))
                                 ELSE IF y[1] = "run" THEN q[y] \o awake(y[2]) ELSE q[y]]
        /\ pending' = pending \cup {RunPriority(t) : t \in Range(Awake(x))}
        /\ queue' = [t \in Thread |->
                        IF t \in Range(Awake(x)) THEN RunQ(RunPriority(t))
                        ELSE IF t \in Range(Popped(x)) /\ (clear \/ t \notin Wakes(x)) THEN None
                        ELSE queue[t]]
Wake(x) == /\ WakeLinks(x, FALSE)
           /\ state' = WokenStates(x)
           /\ resched' = (resched \/ Awake(x) # <<>>)

-----------------------------------------------------------------------------
(* Call stacks.                                                            *)

Frame(f, a) == [call |-> f, arg |-> a]
SelectFrame == Frame("SelectThread", FALSE)
\* if (reschedule != 0) SelectThread(0)
IfResched == Frame("IfResched", None)

Top(f) == stack[active] # <<>> /\ Head(stack[active]).call = f
Arg == Head(stack[active]).arg
Rest == IF stack[active] = <<>> THEN <<>> ELSE Tail(stack[active])

\* The active fiber goes on with the calls fs, then with rest.
Continue(fs, rest) == stack' = [stack EXCEPT ![active] = fs \o rest]
Return == Continue(<<>>, Rest)

\* Guest code runs on the active fiber; it makes the call f.
GuestCode == stack[active] = <<>>
GuestCalls(f) == GuestCode /\ ~dead[active] /\ f \in game.calls
\* f(a) is called, by the game or from inside another call.
Called(f, a) == GuestCalls(f) \/ (Top(f) /\ Arg = a)

Init ==
    /\ game \in Games
    /\ state = [t \in Thread |-> IF t = Main THEN "running" ELSE "none"]
    /\ suspend = [t \in Thread |-> 0]
    /\ prio = [t \in Thread |-> game.main]
    /\ base = [t \in Thread |-> game.main]
    /\ detached = [t \in Thread |-> FALSE]
    /\ queue = [t \in Thread |-> None]
    /\ waitMutex = [t \in Thread |-> None]
    /\ held = [t \in Thread |-> <<>>]
    /\ q = [x \in Queue |-> <<>>]
    /\ alive = {Main}
    /\ owner = [m \in Mutex |-> None]
    /\ count = [m \in Mutex |-> 0]
    /\ pending = {}
    /\ resched = FALSE
    /\ disabled = 0
    /\ running = Main
    /\ current = Main
    /\ timers = {}
    /\ active = Main
    /\ curGuest = Main
    /\ dead = [t \in Thread |-> FALSE]
    /\ stack = [t \in Thread |-> <<>>]

-----------------------------------------------------------------------------
(* SelectThread and the fiber switch.                                      *)

\* gOutstandingParks is not modelled: whatever arms, fires, drops or cancels a
\* timer does the same to the park, so ProcessSleepTimers' reconciler of parks
\* that lost their timer finds nothing.

\* Mutant of Parked: off by one.
ParkedTwice(t) == state[t] = "ready" /\ suspend[t] > 1

\* The shape of a thread that sleeps in OSSleepTicks.
Parked(t) == state[t] = "ready" /\ suspend[t] >= 1

\* ProcessSleepTimers takes the timer of t.  One whose thread is not parked is
\* dropped, and that of a running thread would be put off.
FireSleepTimer(t) ==
    /\ t \in timers
    /\ state[t] # "running"
    /\ timers' = timers \ {t}
    /\ IF Parked(t)
       THEN Continue(<<Frame("ResumeThread", t)>>, stack[active])
       ELSE UNCHANGED stack
    /\ UNCHANGED <<state, suspend, prioVars, linkVars, mutexVars, waitMutex, resched,
                   disabled, ctxVars, fiberVars, detached, alive>>

\* SelectThread begins with a call of ProcessSleepTimers, for the timers that
\* are due then.  (A call with no timer due is no step.)
TimersDue ==
    /\ Top("SelectThread")
    /\ \E due \in SUBSET timers \ {{}} :
          Continue(<<Frame("ProcessSleepTimers", due), Frame("Select", Arg)>>, Rest)
    /\ UNCHANGED <<state, suspend, prioVars, linkVars, mutexVars, waitMutex, resched,
                   disabled, ctxVars, timers, fiberVars, detached, alive>>

PumpTimer(t) == Top("ProcessSleepTimers") /\ t \in Arg /\ FireSleepTimer(t)

PumpEnds ==
    /\ Top("ProcessSleepTimers")
    /\ \A t \in Arg \cap timers : state[t] = "running"
    /\ Return
    /\ UNCHANGED <<state, suspend, prioVars, linkVars, mutexVars, waitMutex, resched,
                   disabled, ctxVars, timers, fiberVars, detached, alive>>

\* Mutant of KeepsCpu: off by one in the comparison of priorities.
KeepsCpuOneBelow(force) ==
    \/ disabled >= 1
    \/ current # running
    \/ running = None
    \/ state[running] = "running" /\ ~force /\ \A p \in pending : prio[running] <= p + 1

\* SelectThread(force) leaves the processor to whom it is.
KeepsCpu(force) ==
    \/ disabled >= 1
    \/ current # running
    \/ running = None
    \/ /\ state[running] = "running"
       /\ ~force
       /\ \A p \in pending : prio[running] <= p

\* Then it returns at once, or queues the running thread behind its equals and
\* goes on to pick a thread, or to idle when there is none.
SelectThread ==
    /\ Top("SelectThread") \/ Top("Select")
    /\ IF KeepsCpu(Arg)
       THEN Return /\ UNCHANGED <<state, linkVars, resched, ctxVars>>
       ELSE /\ IF state[running] = "running"
               THEN LET x == RunQ(prio[running])
                    IN  /\ state' = [state EXCEPT ![running] = "ready"]
                        /\ q' = [q EXCEPT ![x] = Append(@, running)]
                        /\ queue' = [queue EXCEPT ![running] = x]
                        /\ pending' = pending \cup Mark(x)
                        /\ resched' = TRUE
               ELSE UNCHANGED <<state, linkVars, resched>>
            /\ IF pending' = {}
               THEN /\ running' = None
                    /\ current' = "idle"
                    /\ Continue(<<Frame("Idle", None)>>, Rest)
               ELSE Continue(<<Frame("Pick", None)>>, Rest) /\ UNCHANGED ctxVars
    /\ UNCHANGED <<suspend, prioVars, mutexVars, waitMutex, disabled, timers, fiberVars,
                   detached, alive>>

\* A retrace, an alarm or an audio block delivered inside the idle loop wakes
\* the threads that wait for it. One turn of the loop delivers what is due of
\* each before it looks whether a thread is ready.
IdleInterrupt(w) ==
    /\ Top("Idle")
    /\ Wake(WaitQ(w))
    /\ UNCHANGED <<suspend, prioVars, mutexVars, waitMutex, disabled, ctxVars, timers, fiberVars,
                   detached, alive, stack>>

\* The idle loop calls ProcessSleepTimers on every turn; the threads it resumes
\* wait for the loop to end, because no thread is running.
IdleTimer(t) == Top("Idle") /\ FireSleepTimer(t)

IdleEnds ==
    /\ Top("Idle")
    /\ pending # {}
    /\ Continue(<<Frame("Pick", None)>>, Rest)
    /\ UNCHANGED <<state, suspend, prioVars, linkVars, mutexVars, waitMutex, resched, disabled,
                   ctxVars, timers, fiberVars, detached, alive>>

\* The first thread of the best pending priority gets the processor, and its
\* fiber the host thread.  The code also steps over a pending bit with an empty
\* queue and over terminated threads; PendingMaskExact and LifeCycle say
\* it never meets either, and Pick has no step there.
Pick ==
    /\ Top("Pick")
    /\ LET p == Min(pending)
           n == Head(q[RunQ(p)])
       IN  /\ ~Terminated(n) /\ ~dead[n]
           /\ q' = [q EXCEPT ![RunQ(p)] = Tail(@)]
           /\ pending' = IF Tail(q[RunQ(p)]) = <<>> THEN pending \ {p} ELSE pending
           /\ queue' = [queue EXCEPT ![n] = None]
           /\ state' = [state EXCEPT ![n] = "running"]
           /\ running' = n
           /\ current' = n
           /\ curGuest' = n
           /\ active' = n
           /\ stack' = [stack EXCEPT ![active] =
                           IF n = active THEN Rest
                           ELSE IF dead[active] THEN <<>>
                           ELSE <<Frame("Switched", curGuest)>> \o Rest]
    /\ resched' = FALSE
    /\ UNCHANGED <<suspend, prioVars, mutexVars, waitMutex, disabled, timers, lifeVars>>

\* SwitchToThread goes on in the fiber that called it, once that fiber is
\* switched to; prev is the guest thread it ran.
Switched ==
    /\ Top("Switched")
    /\ curGuest' = IF Arg # None /\ running = Arg /\ current = Arg THEN Arg ELSE None
    /\ Return
    /\ UNCHANGED <<state, suspend, prioVars, linkVars, mutexVars, waitMutex, resched, disabled,
                   ctxVars, timers, active, lifeVars>>

\* Mutant of Reschedule: the flag is not looked at.
RescheduleNever ==
    /\ Top("IfResched")
    /\ Return
    /\ UNCHANGED <<state, suspend, prioVars, linkVars, mutexVars, waitMutex, resched, disabled,
                   ctxVars, timers, fiberVars, detached, alive>>

Reschedule ==
    /\ Top("IfResched")
    /\ Continue(IF resched THEN <<SelectFrame>> ELSE <<>>, Rest)
    /\ UNCHANGED <<state, suspend, prioVars, linkVars, mutexVars, waitMutex, resched, disabled,
                   ctxVars, timers, fiberVars, detached, alive>>

\* A loop of the game reaches a safe point with an interrupt to deliver.
Interrupt(w) ==
    /\ GuestCalls("Interrupt")
    /\ Wake(WaitQ(w))
    /\ Continue(<<IfResched>>, Rest)
    /\ UNCHANGED <<suspend, prioVars, mutexVars, waitMutex, disabled, ctxVars, timers, fiberVars,
                   detached, alive>>

\* OSYieldThread is SelectThread(TRUE).
YieldThread ==
    /\ GuestCalls("YieldThread")
    /\ Continue(<<Frame("SelectThread", TRUE)>>, Rest)
    /\ UNCHANGED <<state, suspend, prioVars, linkVars, mutexVars, waitMutex, resched, disabled,
                   ctxVars, timers, fiberVars, detached, alive>>

DisableScheduler ==
    /\ GuestCalls("DisableScheduler")
    /\ disabled < MaxDisabled
    /\ disabled' = disabled + 1
    /\ UNCHANGED <<state, suspend, prioVars, linkVars, mutexVars, waitMutex, resched,
                   ctxVars, timers, fiberVars, detached, alive, stack>>

EnableScheduler ==
    /\ GuestCalls("DisableScheduler")
    /\ disabled > 0
    /\ disabled' = disabled - 1
    /\ UNCHANGED <<state, suspend, prioVars, linkVars, mutexVars, waitMutex, resched,
                   ctxVars, timers, fiberVars, detached, alive, stack>>

-----------------------------------------------------------------------------
(* Wait queues.                                                            *)

\* OSSleepThread(x).  It takes the default thread for the caller when no thread
\* is running, and does not park at all while the scheduler is disabled.
SleepThread(x) ==
    /\ Called("SleepThread", x)
    /\ GuestCode => x[1] = "wait"
    /\ LET t == IF running = None THEN Main ELSE running
       IN  /\ running' = t
           /\ current' = IF running = None THEN Main ELSE current
           /\ IF disabled > 0
              THEN Return /\ UNCHANGED <<state, linkVars, resched>>
              ELSE /\ state' = [state EXCEPT ![t] = "waiting"]
                   /\ q' = Link(q, t, x, prio[t])
                   /\ queue' = [queue EXCEPT ![t] = x]
                   /\ resched' = TRUE
                   /\ Continue(<<SelectFrame, Frame("Slept", <<t, x>>)>>, Rest)
                   /\ UNCHANGED pending
    /\ UNCHANGED <<suspend, prioVars, mutexVars, waitMutex, disabled, timers, fiberVars,
                   detached, alive>>

\* After SelectThread: a thread that is still waiting was not switched away by
\* a wake-up, and leaves the queue.
Slept(t, x) ==
    /\ Top("Slept")
    /\ Arg = <<t, x>>
    /\ IF state[t] = "waiting" /\ queue[t] = x
       THEN Unlink(t) /\ state' = [state EXCEPT ![t] = "running"]
       ELSE UNCHANGED <<state, linkVars>>
    /\ Return
    /\ UNCHANGED <<suspend, prioVars, mutexVars, waitMutex, resched, disabled, ctxVars, timers,
                   fiberVars, detached, alive>>

\* OSWakeupThread(x)
WakeupThread(x) ==
    /\ Called("WakeupThread", x)
    /\ GuestCode => x[1] = "wait"
    /\ Wake(x)
    /\ Continue(IF Awake(x) # <<>> THEN <<SelectFrame>> ELSE <<>>, Rest)
    /\ UNCHANGED <<suspend, prioVars, mutexVars, waitMutex, disabled, ctxVars, timers, fiberVars,
                   detached, alive>>

-----------------------------------------------------------------------------
(* Mutexes and priority inheritance.                                       *)

\* SetThreadEffectivePriority
SetThreadEffectivePriority(t, p) ==
    \/ /\ state[t] = "ready"
       /\ Relink(t, RunQ(p), p)
       /\ resched' = TRUE
    \/ /\ state[t] = "running"
       /\ prio' = [prio EXCEPT ![t] = p]
       /\ resched' = TRUE
       /\ UNCHANGED linkVars
    \/ /\ state[t] = "waiting"
       /\ Relink(t, queue[t], p)
       /\ UNCHANGED resched
    \/ /\ Terminated(t)
       /\ UNCHANGED <<prio, linkVars, resched>>

\* Mutants of NextOwner: the mutex itself; no chain of owners.
NextOwnerMutex(t) == IF state[t] = "waiting" THEN waitMutex[t] ELSE None
NextOwnerNone(t) == None

\* The thread whose priority may follow from t's: the owner of the mutex that
\* t waits for.
NextOwner(t) ==
    IF state[t] = "waiting" /\ waitMutex[t] # None THEN owner[waitMutex[t]] ELSE None

\* One turn of PromoteThreadPriority: raise t to p, and go on with NextOwner.
Promote(t, p) ==
    /\ Top("Promote")
    /\ Arg = <<t, p>>
    /\ IF suspend[t] > 0 \/ prio[t] <= p
       THEN Return /\ UNCHANGED <<prio, linkVars, resched>>
       ELSE /\ SetThreadEffectivePriority(t, p)
            /\ Continue(IF NextOwner(t) = None THEN <<>>
                        ELSE <<Frame("Promote", <<NextOwner(t), p>>)>>, Rest)
    /\ UNCHANGED <<state, suspend, base, mutexVars, waitMutex, disabled, ctxVars, timers,
                   fiberVars, detached, alive>>

\* One turn of PropagateMutexOwnerPriority: recompute t's priority, and go on
\* with NextOwner.
Propagate(t) ==
    /\ Top("Propagate")
    /\ Arg = t
    /\ LET p == Effective(t, held[t])
       IN  IF suspend[t] >= 1 \/ prio[t] = p
           THEN Return /\ UNCHANGED <<prio, linkVars, resched>>
           ELSE /\ SetThreadEffectivePriority(t, p)
                /\ Continue(IF NextOwner(t) = None THEN <<>>
                            ELSE <<Frame("Propagate", NextOwner(t))>>, Rest)
    /\ UNCHANGED <<state, suspend, base, mutexVars, waitMutex, disabled, ctxVars, timers,
                   fiberVars, detached, alive>>

PropagateFrom(m) ==
    IF m = None \/ owner[m] = None THEN <<>> ELSE <<Frame("Propagate", owner[m])>>

\* One turn of the loop of OSLockMutex(m) by t: take the mutex, or sleep on it
\* and take another turn.
LockMutex(t, m) ==
    /\ \/ GuestCalls("LockMutex") /\ running = t /\ m \in game.mutexes
       \/ Top("LockMutex") /\ Arg = <<t, m>>
    /\ \/ /\ owner[m] = None
          /\ owner' = [owner EXCEPT ![m] = t]
          /\ count' = [count EXCEPT ![m] = @ + 1]
          /\ held' = [held EXCEPT ![t] = Append(@, m)]
          /\ waitMutex' = [waitMutex EXCEPT ![t] = None]
          /\ Return
       \/ /\ owner[m] = t
          /\ count[m] < game.counts
          /\ count' = [count EXCEPT ![m] = @ + 1]
          /\ waitMutex' = [waitMutex EXCEPT ![t] = None]
          /\ Return
          /\ UNCHANGED <<owner, held>>
       \/ /\ owner[m] \notin {None, t}
          /\ waitMutex' = [waitMutex EXCEPT ![t] = m]
          /\ Continue(<<Frame("Promote", <<owner[m], prio[t]>>),
                        Frame("SleepThread", MutexQ(m)), Frame("LockMutex", <<t, m>>)>>, Rest)
          /\ UNCHANGED mutexVars
    /\ UNCHANGED <<state, suspend, prioVars, linkVars, resched, disabled, ctxVars, timers,
                   fiberVars, detached, alive>>

\* UnlinkMutexFromThread
HeldWithout(t, m) == RemoveFirst(held[t], m)

\* OSUnlockMutex(m) by the running thread, which owns it.
UnlockMutex(m) ==
    /\ GuestCalls("UnlockMutex")
    /\ running # None
    /\ owner[m] = running
    /\ count' = [count EXCEPT ![m] = @ - 1]
    /\ IF count[m] > 1
       THEN UNCHANGED <<owner, held, prio, stack>>
       ELSE LET rest == HeldWithout(running, m)
            IN  /\ owner' = [owner EXCEPT ![m] = None]
                /\ held' = [held EXCEPT ![running] = rest]
                /\ prio' = IF prio[running] < base[running]
                           THEN [prio EXCEPT ![running] = Effective(running, rest)]
                           ELSE prio
                /\ Continue(<<Frame("WakeupThread", MutexQ(m))>>, Rest)
    /\ UNCHANGED <<state, suspend, base, linkVars, waitMutex, resched, disabled, ctxVars, timers,
                   fiberVars, detached, alive>>

-----------------------------------------------------------------------------
(* Suspension and timed sleep.                                             *)

\* OSSuspendThread(t).  No thread suspends itself with the scheduler disabled.
SuspendThread(t) ==
    /\ Called("SuspendThread", t)
    /\ GuestCode => /\ state[t] # "none"
                    /\ suspend[t] < game.suspends
                    /\ t = active => disabled = 0
    /\ suspend' = [suspend EXCEPT ![t] = @ + 1]
    /\ \/ /\ suspend[t] > 0
          /\ Return
          /\ UNCHANGED <<state, prio, linkVars, resched>>
       \/ /\ suspend[t] = 0
          /\ state[t] = "ready"
          /\ Unlink(t)
          /\ Continue(<<IfResched>>, Rest)
          /\ UNCHANGED <<state, prio, resched>>
       \/ /\ suspend[t] = 0
          /\ state[t] = "running"
          /\ state' = [state EXCEPT ![t] = "ready"]
          /\ resched' = TRUE
          /\ Continue(<<IfResched>>, Rest)
          /\ UNCHANGED <<prio, linkVars>>
       \/ /\ suspend[t] = 0
          /\ state[t] = "waiting"
          /\ Relink(t, queue[t], SuspendedWait)
          /\ Continue(PropagateFrom(waitMutex[t]) \o <<IfResched>>, Rest)
          /\ UNCHANGED <<state, resched>>
       \/ /\ suspend[t] = 0
          /\ Terminated(t)
          /\ Continue(<<IfResched>>, Rest)
          /\ UNCHANGED <<state, prio, linkVars, resched>>
    /\ UNCHANGED <<base, mutexVars, waitMutex, disabled, ctxVars, timers, fiberVars,
                   detached, alive>>

\* Mutant of TimersAfterResume: the timer of a resumed thread stays armed.
TimersKept(t) == timers

\* CancelSleepTimer, when t's last suspension goes.
TimersAfterResume(t) == IF suspend[t] = 1 THEN timers \ {t} ELSE timers

\* OSResumeThread(t); on a thread that is not suspended it does nothing.
ResumeThread(t) ==
    /\ Called("ResumeThread", t)
    /\ suspend[t] > 0
    /\ suspend' = [suspend EXCEPT ![t] = @ - 1]
    /\ timers' = TimersAfterResume(t)
    /\ LET p == Effective(t, held[t])
       IN  \/ /\ suspend[t] > 1
              /\ Return
              /\ UNCHANGED <<state, prio, linkVars, resched>>
           \/ /\ suspend[t] = 1
              /\ state[t] = "waiting"
              /\ Relink(t, queue[t], p)
              /\ Continue(PropagateFrom(waitMutex[t]) \o <<IfResched>>, Rest)
              /\ UNCHANGED <<state, resched>>
           \/ /\ suspend[t] = 1
              /\ state[t] \in {"ready", "running"}
              /\ state' = [state EXCEPT ![t] = "ready"]
              /\ prio' = [prio EXCEPT ![t] = p]
              /\ q' = Link(q, t, RunQ(p), p)
              /\ queue' = [queue EXCEPT ![t] = RunQ(p)]
              /\ pending' = pending \cup Mark(RunQ(p))
              /\ resched' = TRUE
              /\ Continue(<<IfResched>>, Rest)
           \/ /\ suspend[t] = 1
              /\ Terminated(t)
              /\ Continue(<<IfResched>>, Rest)
              /\ UNCHANGED <<state, prio, linkVars, resched>>
    /\ UNCHANGED <<base, mutexVars, waitMutex, disabled, ctxVars, fiberVars, detached, alive>>

\* A timer armed now is due in no ProcessSleepTimers that has begun.
NotDue(s, t) == [i \in DOMAIN s |-> IF s[i].call = "ProcessSleepTimers"
                                    THEN Frame(s[i].call, s[i].arg \ {t}) ELSE s[i]]

\* OSSleepTicks arms a timer for the caller and suspends it; it returns at once
\* when the scheduler could not switch away.
SleepTicks(t) ==
    /\ GuestCalls("SleepTicks")
    /\ t = IF curGuest # None THEN curGuest ELSE running
    /\ disabled = 0
    /\ current \in {None, t}
    /\ timers' = timers \cup {t}
    /\ stack' = [u \in Thread |->
                    IF u = active THEN <<Frame("SuspendThread", t), Frame("TickWoken", t)>>
                    ELSE NotDue(stack[u], t)]
    /\ UNCHANGED <<state, suspend, prioVars, linkVars, mutexVars, waitMutex, resched, disabled,
                   ctxVars, fiberVars, detached, alive>>

\* The end of OSSleepTicks: a thread that comes back still suspended was not
\* woken by its timer, and takes its own suspension back.
TickWoken(t) ==
    /\ Top("TickWoken")
    /\ Arg = t
    /\ IF suspend[t] > 0
       THEN /\ timers' = timers \ {t}
            /\ suspend' = [suspend EXCEPT ![t] = @ - 1]
            /\ state' = IF suspend[t] = 1 /\ state[t] = "ready" /\ queue[t] = None
                        THEN [state EXCEPT ![t] = "running"] ELSE state
       ELSE UNCHANGED <<timers, suspend, state>>
    /\ Return
    /\ UNCHANGED <<prioVars, linkVars, mutexVars, waitMutex, resched, disabled, ctxVars, fiberVars,
                   detached, alive>>

-----------------------------------------------------------------------------
(* The life of a thread.                                                   *)

\* OSCreateThread on an OSThread that is free, or was used and is free again:
\* a suspended thread with a fresh fiber.  OSThread.queue and an armed sleep
\* timer of the thread before stay.
CreateThread(t, p, d) ==
    /\ GuestCalls("CreateThread")
    /\ t \in game.threads \ {Main}
    /\ state[t] = "none"
    /\ state' = [state EXCEPT ![t] = "ready"]
    /\ suspend' = [suspend EXCEPT ![t] = 1]
    /\ prio' = [prio EXCEPT ![t] = p]
    /\ base' = [base EXCEPT ![t] = p]
    /\ detached' = [detached EXCEPT ![t] = d]
    /\ q' = [q EXCEPT ![JoinQ(t)] = <<>>]
    /\ held' = [held EXCEPT ![t] = <<>>]
    /\ waitMutex' = [waitMutex EXCEPT ![t] = None]
    /\ alive' = alive \cup {t}
    /\ dead' = [dead EXCEPT ![t] = FALSE]
    /\ stack' = [stack EXCEPT ![t] = <<>>]
    /\ UNCHANGED <<queue, owner, count, pending, resched, disabled, ctxVars, timers,
                   active, curGuest>>

\* Mutants of EndCalls: the joiners sleep on; the mutexes stay owned.
EndCallsWithoutWakeup(t) == <<Frame("UnlockAll", t)>>
EndCallsWithoutUnlock(t) == <<Frame("WakeupThread", JoinQ(t))>>

\* What TerminateThreadCommon ends with.
EndCalls(t) == <<Frame("UnlockAll", t), Frame("WakeupThread", JoinQ(t))>>

\* TerminateThreadCommon up to __OSUnlockAllMutex; MarkFiberThreadTerminated
\* frees the fiber of t, or leaves it to the next switch if it is executing.
Terminate(t, fs) ==
    /\ state' = [state EXCEPT ![t] = IF detached[t] THEN "none" ELSE "moribund"]
    /\ alive' = IF detached[t] THEN alive \ {t} ELSE alive
    /\ dead' = [dead EXCEPT ![t] = TRUE]
    /\ curGuest' = IF curGuest = t THEN None ELSE curGuest
    /\ LET calls == EndCalls(t) \o fs \o Rest
       IN  stack' = [u \in Thread |-> IF u = active THEN calls
                                      ELSE IF u = t THEN <<>> ELSE stack[u]]

\* One turn of UnlockAllMutexNative.
UnlockAll(t) ==
    /\ Top("UnlockAll")
    /\ Arg = t
    /\ IF held[t] = <<>>
       THEN Return /\ UNCHANGED mutexVars
       ELSE LET m == Head(held[t])
            IN  /\ held' = [held EXCEPT ![t] = Tail(@)]
                /\ count' = [count EXCEPT ![m] = 0]
                /\ owner' = [owner EXCEPT ![m] = None]
                /\ Continue(<<Frame("WakeupThread", MutexQ(m))>>, stack[active])
    /\ UNCHANGED <<state, suspend, prioVars, linkVars, waitMutex, resched, disabled, ctxVars,
                   timers, fiberVars, detached, alive>>

\* OSExitThread of the running thread.  The default thread never exits, and no
\* thread exits with the scheduler disabled: the call could not switch away.
ExitThread ==
    /\ GuestCalls("ExitThread")
    /\ running \notin {None, Main}
    /\ disabled = 0
    /\ Terminate(running, <<Frame("Exited", None)>>)
    /\ UNCHANGED <<suspend, prioVars, linkVars, mutexVars, waitMutex, resched, disabled, ctxVars,
                   timers, active, detached>>

Exited ==
    /\ Top("Exited")
    /\ resched' = TRUE
    /\ Continue(<<SelectFrame>>, Rest)
    /\ UNCHANGED <<state, suspend, prioVars, linkVars, mutexVars, waitMutex, disabled,
                   ctxVars, timers, fiberVars, detached, alive>>

\* Mutant of InQueue: a ready thread stays on its run queue.
InWaitQueue(t) == state[t] = "waiting"

\* A thread that is cancelled leaves its queue.
InQueue(t) == state[t] = "waiting" \/ (state[t] = "ready" /\ suspend[t] < 1)

\* OSCancelThread(t)
CancelThread(t) ==
    /\ GuestCalls("CancelThread")
    /\ t # Main
    /\ ~Terminated(t)
    /\ t = active => disabled = 0
    /\ IF InQueue(t) THEN Unlink(t) ELSE UNCHANGED linkVars
    /\ resched' = (resched \/ state[t] = "running")
    /\ Terminate(t, <<IfResched>>)
    /\ UNCHANGED <<suspend, prioVars, mutexVars, waitMutex, disabled, ctxVars, timers, active,
                   detached>>

Reap(t) == /\ state' = [state EXCEPT ![t] = "none"]
           /\ alive' = alive \ {t}

\* OSJoinThread(t): the first joiner of a thread that is not done sleeps until
\* it is.
JoinThread(t) ==
    /\ GuestCalls("JoinThread")
    /\ t # active
    /\ \/ /\ state[t] = "moribund"
          /\ Reap(t)
          /\ UNCHANGED stack
       \/ /\ ~Terminated(t)
          /\ ~detached[t]
          /\ q[JoinQ(t)] = <<>>
          /\ Continue(<<Frame("SleepThread", JoinQ(t)), Frame("Joined", t)>>, Rest)
          /\ UNCHANGED <<state, alive>>
    /\ UNCHANGED <<suspend, prioVars, linkVars, mutexVars, waitMutex, resched, disabled, ctxVars,
                   timers, fiberVars, detached>>

Joined(t) ==
    /\ Top("Joined")
    /\ Arg = t
    /\ IF state[t] = "moribund" THEN Reap(t) ELSE UNCHANGED <<state, alive>>
    /\ Return
    /\ UNCHANGED <<suspend, prioVars, linkVars, mutexVars, waitMutex, resched, disabled, ctxVars,
                   timers, fiberVars, detached>>

\* OSDetachThread(t)
DetachThread(t) ==
    /\ GuestCalls("DetachThread")
    /\ state[t] # "none"
    /\ detached' = [detached EXCEPT ![t] = TRUE]
    /\ IF state[t] = "moribund" THEN Reap(t) ELSE UNCHANGED <<state, alive>>
    /\ Continue(<<Frame("WakeupThread", JoinQ(t))>>, Rest)
    /\ UNCHANGED <<suspend, prioVars, linkVars, mutexVars, waitMutex, resched, disabled, ctxVars,
                   timers, fiberVars>>

\* The end of FiberProc: the entry function of a thread returns.  The scheduler
\* fiber the host goes on with is the default thread's.
ReturnFromEntry ==
    /\ GuestCalls("ReturnFromEntry")
    /\ active # Main
    /\ WakeLinks(JoinQ(active), TRUE)
    /\ state' = [WokenStates(JoinQ(active)) EXCEPT
                    ![active] = IF detached[active] THEN "none" ELSE "moribund"]
    /\ running' = IF running = active THEN None ELSE running
    /\ current' = IF current = active THEN None ELSE current
    /\ resched' = TRUE
    /\ dead' = [dead EXCEPT ![active] = TRUE]
    /\ curGuest' = None
    /\ active' = Main
    /\ UNCHANGED <<suspend, prioVars, mutexVars, waitMutex, disabled, timers, detached, alive,
                   stack>>

-----------------------------------------------------------------------------

Step ==
    \/ TimersDue \/ PumpEnds \/ SelectThread \/ IdleEnds \/ Pick \/ Switched \/ Reschedule
    \/ YieldThread \/ DisableScheduler \/ EnableScheduler
    \/ ExitThread \/ Exited \/ ReturnFromEntry
    \/ \E w \in WaitQueue : IdleInterrupt(w) \/ Interrupt(w)
    \/ \E x \in BlockQueues : SleepThread(x) \/ WakeupThread(x)
    \/ \E m \in Mutex : UnlockMutex(m)
    \/ \E t \in Thread :
          \/ PumpTimer(t) \/ IdleTimer(t) \/ SuspendThread(t) \/ ResumeThread(t)
          \/ SleepTicks(t) \/ TickWoken(t) \/ Propagate(t) \/ UnlockAll(t)
          \/ CancelThread(t) \/ JoinThread(t) \/ Joined(t) \/ DetachThread(t)
          \/ \E p \in AnyPriority : Promote(t, p)
          \/ \E p \in game.priorities, d \in game.attributes : CreateThread(t, p, d)
          \/ \E m \in Mutex : LockMutex(t, m)
          \/ \E x \in BlockQueues : Slept(t, x)

Next == Step /\ UNCHANGED game

Spec == Init /\ [][Next]_vars

-----------------------------------------------------------------------------
(* Properties.                                                             *)

Linked(t) == {x \in Queue : t \in Range(q[x])}

\* Priorities, queue pointers and contexts keep their range, and no frame is
\* anything but one of the calls below with an argument of its kind.
FrameType ==
    [call : {"SelectThread", "Select"}, arg : BOOLEAN]
      \cup [call : {"ProcessSleepTimers"}, arg : SUBSET Thread]
      \cup [call : {"Idle", "Pick", "IfResched", "Exited"}, arg : {None}]
      \cup [call : {"Switched"}, arg : Thread \cup {None}]
      \cup [call : {"SleepThread", "WakeupThread"}, arg : BlockQueues]
      \cup [call : {"Slept"}, arg : Thread \X BlockQueues]
      \cup [call : {"Promote"}, arg : Thread \X AnyPriority]
      \cup [call : {"LockMutex"}, arg : Thread \X Mutex]
      \cup [call : {"Propagate", "SuspendThread", "ResumeThread", "TickWoken", "UnlockAll",
                    "Joined"}, arg : Thread]

TypeOK ==
    /\ game \in Games
    /\ state \in [Thread -> State]
    /\ suspend \in [Thread -> Nat]
    /\ prio \in [Thread -> AnyPriority]
    /\ base \in [Thread -> Priority]
    /\ detached \in [Thread -> BOOLEAN]
    /\ queue \in [Thread -> Queue \cup {None}]
    /\ waitMutex \in [Thread -> Mutex \cup {None}]
    /\ held \in [Thread -> Seq(Mutex)]
    /\ q \in [Queue -> Seq(Thread)]
    /\ alive \subseteq Thread
    /\ owner \in [Mutex -> Thread \cup {None}]
    /\ count \in [Mutex -> Nat]
    /\ pending \subseteq Priority
    /\ resched \in BOOLEAN
    /\ disabled \in Nat
    /\ running \in Thread \cup {None}
    /\ current \in Thread \cup {None, "idle"}
    /\ timers \subseteq Thread
    /\ active \in Thread
    /\ curGuest \in Thread \cup {None}
    /\ dead \in [Thread -> BOOLEAN]
    /\ stack \in [Thread -> Seq(FrameType)]

QueuesSorted ==
    \A x \in Queue : \A i, j \in DOMAIN q[x] : i < j => prio[q[x][i]] <= prio[q[x][j]]

QueueLinks ==
    /\ \A t \in Thread, x \in Queue : t \in Range(q[x]) => queue[t] = x
    /\ \A x \in Queue : \A i, j \in DOMAIN q[x] : q[x][i] = q[x][j] => i = j

PendingMaskExact == pending = {p \in Priority : q[RunQ(p)] # <<>>}

\* A thread is in at most one queue, once, and its queue pointer leads there:
\* through it OSSuspendThread, OSCancelThread and the priority code take it out
\* again.  Queues are sorted, so the head of a mutex's queue is its best waiter.
\* A bit of the pending mask is set exactly while its run queue has a thread:
\* SelectThread reads the mask alone to decide whether to switch, to idle and
\* whom to run, and six places keep it.
QueuesWellFormed == QueueLinks /\ QueuesSorted /\ PendingMaskExact

\* Ready and not suspended is being on the run queue of one's priority;
\* waiting is being in a wait queue, that of the mutex waited for if any.
QueuesMatchStates ==
    \A t \in Thread :
        /\ state[t] = "ready" /\ suspend[t] = 0 <=> Linked(t) = {RunQ(prio[t])}
        /\ state[t] = "waiting" <=> Linked(t) \cap BlockQueues # {}
        /\ state[t] = "waiting" /\ waitMutex[t] # None => Linked(t) = {MutexQ(waitMutex[t])}

\* The guest code that executes is that of the one thread the OS has running;
\* that thread is awake: not suspended, and with no sleep timer to go off later.
\* (After an entry function has returned the OS has no thread running until it
\* next selects one.)
OneRunner ==
    GuestCode /\ "ReturnFromEntry" \notin game.calls =>
        /\ running = active
        /\ current = active
        /\ curGuest \in {active, None}
        /\ \A t \in Thread : state[t] = "running" <=> t = active
        /\ suspend[active] = 0
        /\ active \notin timers

Pending(f) == \E u \in Thread : \E i \in DOMAIN stack[u] : stack[u][i] = f

\* OSMutex.thread, OSMutex.count and OSThread.queueMutex tell one story; no
\* thread sleeps on a free mutex, whoever released it woke them all; and a
\* thread that exits or is cancelled leaves no mutex owned.  (FiberProc unlocks
\* nothing: a thread that returns from its entry function may leave one.)
MutexDiscipline ==
    /\ \A m \in Mutex, t \in Thread : owner[m] = t <=> m \in Range(held[t])
    /\ \A m \in Mutex : count[m] > 0 <=> owner[m] # None
    /\ \A t \in Thread : \A i, j \in DOMAIN held[t] : held[t][i] = held[t][j] => i = j
    /\ GuestCode => \A m \in Mutex : owner[m] = None => q[MutexQ(m)] = <<>>
    /\ "ReturnFromEntry" \notin game.calls =>
          \A t \in Thread : dead[t] => held[t] = <<>> \/ Pending(Frame("UnlockAll", t))

\* Priority inheritance: an owner that is not suspended runs at the priority of
\* its best waiter at least, through chains of owners that wait themselves.
OwnersInherit ==
    GuestCode => \A m \in Mutex :
        owner[m] # None /\ suspend[owner[m]] = 0 =>
            \A t \in Range(q[MutexQ(m)]) : prio[owner[m]] <= prio[t]

\* A better thread does not stay behind the one that executes.  (This is for
\* games that never disable the scheduler: after OSEnableScheduler it holds
\* again from the next call that reaches SelectThread.  And for games that
\* cancel no thread: OSCancelThread leaves the owner of the mutex a thread was
\* waiting for at the inherited priority, and OSUnlockMutex, which takes it
\* back, does not look for a better thread when it wakes none.)
PriorityRespected ==
    GuestCode /\ game.calls \cap {"DisableScheduler", "CancelThread"} = {} =>
        \A p \in pending : prio[active] <= p

\* A terminated thread is in no queue and executes no guest code, so Pick finds
\* a live thread.  The list of all threads has those that exist: a thread stays
\* until it is joined, or, detached, until it is over.
LifeCycle ==
    /\ \A t \in Thread : Terminated(t) \/ dead[t] => Linked(t) = {}
    /\ GuestCode => ~dead[active]
    /\ alive = {t \in Thread : state[t] # "none"}

InFrame(t, f) == \E i \in DOMAIN stack[t] : stack[t][i].call = f

\* A thread parked in OSSleepTicks keeps an armed timer until it is resumed.
\* (This is for games that suspend no thread themselves: one suspended once more
\* is for them to resume.)
NoStrandedSleeper ==
    "SuspendThread" \notin game.calls =>
        \A t \in Thread : InFrame(t, "TickWoken") /\ state[t] = "ready" /\ suspend[t] > 0 =>
            t \in timers \/ Pending(Frame("ResumeThread", t))

\* A timer that would fire belongs to a thread parked in OSSleepTicks.
TimersBelongToSleepers ==
    \A t \in timers : state[t] = "ready" /\ suspend[t] > 0 => InFrame(t, "TickWoken")

\* The joiners of a thread that is over are awake, or the call that ended it
\* still has that to do.
JoinersWokenAtEnd ==
    \A t \in Thread : dead[t] => q[JoinQ(t)] = <<>> \/ Pending(Frame("WakeupThread", JoinQ(t)))
=============================================================================
