------------------------------- MODULE Alarms -------------------------------
(***************************************************************************)
(* OSAlarm: src/src/platform/os/os_alarm.cpp.  The queue of armed alarms   *)
(* is a doubly linked list in guest memory, in fire-time order.  There is  *)
(* no decrementer: ProcessAlarmQueue looks at the head of the queue, and   *)
(* is called at safe points with the scheduler disabled (deferred), by the *)
(* idle loop, and by guest threads themselves with the scheduler enabled   *)
(* (RFLiIsWorking, and PPCMtdec from the guest's OSCancelAlarm).           *)
(*                                                                         *)
(* A handler is guest code: it arms and cancels alarms and wakes threads.  *)
(* After it the pump reschedules, and may so switch to another fiber from  *)
(* inside its loop, with g_alarmProcessDepth still up.  pc[c] says where   *)
(* the native code of context c, a thread or the idle loop, stands.        *)
(*                                                                         *)
(* Of the scheduler there is what the pump can tell: fixed priorities, the *)
(* set of ready threads, the reschedule hint and the disable count.        *)
(* Alarms have a handler, and times stay below 2^63, where the signed      *)
(* comparison of LinkAlarmSorted and the unsigned one of the pump agree.   *)
(***************************************************************************)
EXTENDS Integers, FiniteSets, FiniteSetsExt, Functions

CONSTANTS Alarm,        \* OSAlarm structures
          Thread,       \* guest threads
          Priority,     \* their priorities; a smaller number is better
          Idle,         \* the idle loop
          None,         \* a null pointer
          Ticks,        \* the delays OSSetAlarm is called with
          Periods,      \* the periods OSSetPeriodicAlarm is called with
          Leads,        \* how far ahead of now its start is
          Limit,        \* maxToProcess
          MaxTime,      \* bound on the clock
          GuestCalls,   \* the calls guest threads make
          HandlerCalls  \* the calls alarm handlers make

ASSUME AlarmsAssumption ==
    /\ IsFiniteSet(Alarm) /\ None \notin Alarm \cup Int
    /\ Idle \notin Thread
    /\ Priority \in [Thread -> Nat]
    /\ Ticks \subseteq Nat /\ Periods \subseteq Nat \ {0} /\ Leads \subseteq Int
    /\ Limit \in Nat \ {0} /\ MaxTime \in Nat

VARIABLES links,        \* the queue: head, tail, and OSAlarm.next and .prev
          handler,      \* OSAlarm.handler is set
          fire,         \* OSAlarm.fire
          period,       \* OSAlarm.period, 0 for a one-shot alarm
          start,        \* OSAlarm.start
          now,          \* the system time
          depth,        \* g_alarmProcessDepth
          disabled,     \* the scheduler-disable count
          resched,      \* RunQueueHint
          ready,        \* the ready threads
          active,       \* the thread that runs, or the idle loop
          pc,           \* where each context stands
          left,         \* how many more alarms its pump may process
          deferred      \* its pump is OS_HLE_ProcessAlarmsDeferred

alarmVars == <<links, handler, fire, period, start>>
schedVars == <<resched, ready, active>>
pumpVars == <<depth, disabled, pc, left, deferred>>
vars == <<links, handler, fire, period, start, now, depth, disabled, resched, ready, active,
          pc, left, deferred>>

Context == Thread \cup {Idle}
Nowhere == [a \in Alarm |-> None]
EmptyQueue == [head |-> None, tail |-> None, next |-> Nowhere, prev |-> Nowhere]
\* The queue as some builds initialise it: one node that is linked to itself.
Sentinel(a) == [head |-> a, tail |-> a, next |-> [Nowhere EXCEPT ![a] = a],
                prev |-> [Nowhere EXCEPT ![a] = a]]

Init ==
    /\ links \in {EmptyQueue} \cup {Sentinel(a) : a \in Alarm}
    /\ handler = [a \in Alarm |-> FALSE]
    /\ fire = [a \in Alarm |-> 0]
    /\ period = [a \in Alarm |-> 0]
    /\ start = [a \in Alarm |-> 0]
    /\ now = 0
    /\ depth = 0
    /\ disabled = 0
    /\ resched = FALSE
    /\ active \in Thread
    /\ ready = {}
    /\ pc = [c \in Context |-> "guest"]
    /\ left = [c \in Context |-> 0]
    /\ deferred = [c \in Context |-> FALSE]

-----------------------------------------------------------------------------
(* The queue.                                                              *)

\* The i-th node from the head, or None behind the tail.
Walk(l) == LET node[i \in 1 .. Cardinality(Alarm) + 1] ==
                 IF i = 1 THEN l.head
                 ELSE IF node[i - 1] = None THEN None ELSE l.next[node[i - 1]]
           IN node
Listed(l) == Range(Walk(l)) \ {None}

\* SanitizeAlarmQueue
Sanitized(l) == IF \E a \in Alarm : /\ l.head = a /\ l.tail = a
                                    /\ l.next[a] = a /\ l.prev[a] = a
                THEN [l EXCEPT !.head = None, !.tail = None,
                               !.next[l.head] = None, !.prev[l.head] = None]
                ELSE l

\* Mutant of Linked: the alarm always goes behind the tail.
LinkedLast(l, times, a) ==
    IF l.head = None THEN [l EXCEPT !.head = a, !.tail = a]
    ELSE [l EXCEPT !.prev[a] = l.tail, !.next[l.tail] = a, !.tail = a]

\* Mutant of Linked: an alarm inserted in the middle is not linked from behind.
LinkedOneWay(l, times, a) ==
    LET node == Walk(l)
        at == Min({i \in DOMAIN node : node[i] = None \/ times[a] < times[node[i]]})
    IN  IF l.head = None THEN [l EXCEPT !.head = a, !.tail = a]
        ELSE IF at = 1 THEN [l EXCEPT !.head = a, !.next[a] = l.head, !.prev[l.head] = a]
        ELSE [l EXCEPT !.prev[a] = node[at - 1], !.next[a] = node[at], !.next[node[at - 1]] = a,
                       !.tail = IF node[at] = None THEN a ELSE @]

\* LinkAlarmSorted of an alarm whose links are null: before the first node with
\* a later fire time.
Linked(l, times, a) ==
    LET node == Walk(l)
        at == Min({i \in DOMAIN node : node[i] = None \/ times[a] < times[node[i]]})
        cur == node[at]
    IN  IF l.head = None THEN [l EXCEPT !.head = a, !.tail = a]
        ELSE IF at = 1 THEN [l EXCEPT !.head = a, !.next[a] = l.head, !.prev[l.head] = a]
        ELSE LET prev == node[at - 1]
                 linked == [l EXCEPT !.prev[a] = prev, !.next[a] = cur, !.next[prev] = a]
             IN  IF cur = None THEN [linked EXCEPT !.tail = a]
                               ELSE [linked EXCEPT !.prev[cur] = a]

Cleared(l, a) == [l EXCEPT !.next[a] = None, !.prev[a] = None]

\* The head taken out of the queue.
Taken(l) ==
    LET a == l.head
        next == l.next[a]
        rest == IF next = None THEN [l EXCEPT !.head = None, !.tail = None]
                               ELSE [l EXCEPT !.head = next, !.prev[next] = None]
    IN  Cleared(rest, a)

\* What the guest's OSCancelAlarm does to the queue.
Cancelled(l, a) ==
    LET next == l.next[a]
        prev == l.prev[a]
        back == IF next = None THEN [l EXCEPT !.tail = prev] ELSE [l EXCEPT !.prev[next] = prev]
    IN  IF prev = None THEN [back EXCEPT !.head = next] ELSE [back EXCEPT !.next[prev] = next]

\* Mutant of PeriodicFire: the next period is counted from when the pump came.
PeriodicFireDrifts(s, p) == IF s < now THEN now + p ELSE s

\* InsertAlarmNative of a periodic alarm: the first start + n * period ahead.
PeriodicFire(s, p) == IF s < now THEN s + p * ((now - s) \div p + 1) ELSE s

-----------------------------------------------------------------------------
(* The scheduler.                                                          *)

Sleeping == Thread \ (ready \cup {active})
Best(set) == {t \in set : \A u \in set : Priority[t] <= Priority[u]}

\* Mutant of SwitchWanted: the scheduler-disable count is not looked at.
SwitchAnyway(hint, set) ==
    /\ hint
    /\ active # Idle
    /\ \E t \in set : Priority[t] < Priority[active]

\* RunDeferredReschedule and SelectThread find a better thread than the running one.
\* The idle loop is never left here: its context is not that of a running thread.
SwitchWanted(hint, set) ==
    /\ hint
    /\ disabled = 0
    /\ active # Idle
    /\ \E t \in set : Priority[t] < Priority[active]

\* The calling context goes on at `then` when it has the CPU again.
Reschedule(hint, set, then) ==
    /\ pc' = [pc EXCEPT ![active] = then]
    /\ IF SwitchWanted(hint, set)
       THEN /\ \E t \in Best(set) : active' = t /\ ready' = (set \ {t}) \cup {active}
            /\ resched' = FALSE
       ELSE /\ ready' = set
            /\ resched' = hint
            /\ UNCHANGED active

\* The end of SelectThread: the best ready thread gets the CPU.
TakeBest == /\ \E t \in Best(ready) : active' = t /\ ready' = ready \ {t}
            /\ resched' = FALSE

GuestCode == active # Idle /\ pc[active] = "guest"
InHandler == pc[active] = "handler"
Calling(f) == (GuestCode /\ f \in GuestCalls) \/ (InHandler /\ f \in HandlerCalls)

-----------------------------------------------------------------------------
(* Pumps.                                                                  *)

\* ProcessAlarmQueue up to its loop, unless alarms are being processed already.
Pump(isDeferred, count) ==
    /\ depth' = depth + 1
    /\ disabled' = disabled + count
    /\ pc' = [pc EXCEPT ![active] = "loop"]
    /\ left' = [left EXCEPT ![active] = Limit]
    /\ deferred' = [deferred EXCEPT ![active] = isDeferred]
    /\ UNCHANGED schedVars

\* Mutant of MayPump: there is no guard against nested pumps.
PumpAlways == TRUE

MayPump == depth = 0

\* GuestSafePoint: the deferred pump, and then the reschedule test.
SafePoint ==
    /\ GuestCode
    /\ UNCHANGED <<handler, fire, period, start, now>>
    /\ \/ /\ MayPump
          /\ links' = Sanitized(links)
          /\ Pump(TRUE, 1)
       \/ /\ ~MayPump
          /\ pc' = [pc EXCEPT ![active] = "preempt"]
          /\ UNCHANGED <<links, depth, disabled, left, deferred, schedVars>>

Preempt ==
    /\ pc[active] = "preempt"
    /\ Reschedule(resched, ready, "guest")
    /\ UNCHANGED <<alarmVars, now, depth, disabled, left, deferred>>

\* RFLiIsWorking, on the guest thread that polls it.
RFLiIsWorking ==
    /\ Calling("RFLiIsWorking")
    /\ MayPump
    /\ links' = Sanitized(links)
    /\ Pump(FALSE, 0)
    /\ UNCHANGED <<handler, fire, period, start, now>>

\* The idle loop's turn, while no thread is ready.
IdlePump ==
    /\ active = Idle /\ pc[Idle] = "guest"
    /\ ready = {}
    /\ MayPump
    /\ links' = Sanitized(links)
    /\ Pump(FALSE, 0)
    /\ UNCHANGED <<handler, fire, period, start, now>>

\* IncrementSchedulerDisableCount
SchedulerHeld == disabled + 1

\* DecrementSchedulerDisableCount
Released == IF disabled = 0 THEN 0 ELSE disabled - 1

Due == links.head # None /\ fire[links.head] <= now

\* One turn of the loop: the head is taken if it is due, a periodic alarm is
\* inserted again, and the handler begins, with the scheduler disabled.
Turn ==
    /\ pc[active] = "loop"
    /\ left[active] > 0
    /\ Due
    /\ LET a == links.head
           again == period[a] # 0
           fires == IF again THEN [fire EXCEPT ![a] = PeriodicFire(start[a], period[a])] ELSE fire
       IN  /\ fire' = fires
           /\ links' = IF again THEN Linked(Taken(links), fires, a) ELSE Taken(links)
           /\ handler' = [handler EXCEPT ![a] = again]
    /\ disabled' = SchedulerHeld
    /\ left' = [left EXCEPT ![active] = @ - 1]
    /\ pc' = [pc EXCEPT ![active] = "handler"]
    /\ UNCHANGED <<period, start, now, depth, deferred, schedVars>>

HandlerReturns ==
    /\ InHandler
    /\ disabled' = Released
    /\ pc' = [pc EXCEPT ![active] = "handled"]
    /\ UNCHANGED <<alarmVars, now, depth, left, deferred, schedVars>>

\* RunDeferredReschedule inside the loop: g_alarmProcessDepth stays up.
Handled ==
    /\ pc[active] = "handled"
    /\ Reschedule(resched, ready, "loop")
    /\ UNCHANGED <<alarmVars, now, depth, disabled, left, deferred>>

\* Mutant of GuardReleased: leaving the scope does not lower the depth.
GuardKept == depth

GuardReleased == depth - 1

LoopEnds ==
    /\ pc[active] = "loop"
    /\ ~(left[active] > 0 /\ Due)
    /\ depth' = GuardReleased
    /\ pc' = [pc EXCEPT ![active] = "completions"]
    /\ left' = [left EXCEPT ![active] = 0]
    /\ UNCHANGED <<alarmVars, now, disabled, deferred, schedVars>>

\* The completions of network, NAND and DVD requests wake threads.
Completions ==
    /\ pc[active] = "completions"
    /\ \E woken \in SUBSET Sleeping :
          Reschedule(resched \/ woken # {}, ready \cup woken, "done")
    /\ UNCHANGED <<alarmVars, now, depth, disabled, left, deferred>>

\* Mutant of EndOfDeferral: the deferred pump leaves the scheduler disabled.
EndOfDeferralForgotten == disabled

EndOfDeferral == Released

PumpReturns ==
    /\ pc[active] = "done"
    /\ disabled' = IF deferred[active] THEN EndOfDeferral ELSE disabled
    /\ pc' = [pc EXCEPT ![active] = IF deferred[active] THEN "preempt" ELSE "guest"]
    /\ deferred' = [deferred EXCEPT ![active] = FALSE]
    /\ UNCHANGED <<alarmVars, now, depth, left, schedVars>>

-----------------------------------------------------------------------------
(* Calls of guest code.                                                    *)

\* OSSetAlarm of an alarm that is not armed.
SetAlarm(a, tick) ==
    /\ Calling("SetAlarm")
    /\ ~handler[a]
    /\ period' = [period EXCEPT ![a] = 0]
    /\ handler' = [handler EXCEPT ![a] = TRUE]
    /\ fire' = [fire EXCEPT ![a] = now + tick]
    /\ links' = Linked(Cleared(Sanitized(links), a), fire', a)
    /\ UNCHANGED <<start, now, pumpVars, schedVars>>

\* OSSetPeriodicAlarm; InsertAlarmNative sets the fire time.
SetPeriodicAlarm(a, lead, p) ==
    /\ Calling("SetPeriodicAlarm")
    /\ ~handler[a]
    /\ period' = [period EXCEPT ![a] = p]
    /\ start' = [start EXCEPT ![a] = now + lead]
    /\ handler' = [handler EXCEPT ![a] = TRUE]
    /\ fire' = [fire EXCEPT ![a] = PeriodicFire(now + lead, p)]
    /\ links' = Linked(Cleared(Sanitized(links), a), fire', a)
    /\ UNCHANGED <<now, pumpVars, schedVars>>

\* The guest's OSCancelAlarm.  When the head goes and another alarm is left it
\* sets the decrementer, and PPCMtdec pumps on the calling thread.
CancelAlarm(a) ==
    /\ Calling("CancelAlarm")
    /\ handler[a]
    /\ handler' = [handler EXCEPT ![a] = FALSE]
    /\ links' = Cancelled(links, a)
    /\ IF links.head = a /\ links.next[a] # None /\ MayPump
       THEN Pump(FALSE, 0)
       ELSE UNCHANGED <<pumpVars, schedVars>>
    /\ UNCHANGED <<fire, period, start, now>>

\* A handler wakes a thread: OSWakeupThread, which reaches SelectThread.
Wakeup(t) ==
    /\ InHandler
    /\ t \in Sleeping
    /\ Reschedule(TRUE, ready \cup {t}, "handler")
    /\ UNCHANGED <<alarmVars, now, depth, disabled, left, deferred>>

\* The running thread blocks.
Sleep ==
    /\ GuestCode
    /\ IF ready = {}
       THEN active' = Idle /\ resched' = TRUE /\ UNCHANGED ready
       ELSE TakeBest
    /\ UNCHANGED <<alarmVars, now, pumpVars>>

\* The idle loop's retraces, sleep timers and audio wake a thread.
IdleWakeup(t) ==
    /\ active = Idle /\ pc[Idle] = "guest"
    /\ ready = {}
    /\ ready' = {t}
    /\ resched' = TRUE
    /\ UNCHANGED <<alarmVars, now, pumpVars, active>>

IdleEnds ==
    /\ active = Idle /\ pc[Idle] = "guest"
    /\ ready # {}
    /\ TakeBest
    /\ UNCHANGED <<alarmVars, now, pumpVars>>

Tick ==
    /\ now < MaxTime
    /\ now' = now + 1
    /\ UNCHANGED <<alarmVars, pumpVars, schedVars>>

-----------------------------------------------------------------------------

Native == Preempt \/ Turn \/ HandlerReturns \/ Handled \/ LoopEnds \/ Completions
            \/ PumpReturns \/ IdlePump \/ IdleEnds

Next ==
    \/ Native \/ SafePoint \/ RFLiIsWorking \/ Sleep \/ Tick
    \/ \E t \in Thread : Wakeup(t) \/ IdleWakeup(t)
    \/ \E a \in Alarm :
          \/ CancelAlarm(a)
          \/ \E tick \in Ticks : SetAlarm(a, tick)
          \/ \E lead \in Leads, p \in Periods : SetPeriodicAlarm(a, lead, p)

Spec == Init /\ [][Next]_vars

\* Native code does not stop, handlers return, and every guest thread reaches
\* safe points as long as it runs.
FairSpec == Spec /\ WF_vars(Native) /\ SF_vars(SafePoint)

-----------------------------------------------------------------------------
(* Properties.                                                             *)

TypeOK ==
    /\ links.head \in Alarm \cup {None}
    /\ links.tail \in Alarm \cup {None}
    /\ links.next \in [Alarm -> Alarm \cup {None}]
    /\ links.prev \in [Alarm -> Alarm \cup {None}]
    /\ handler \in [Alarm -> BOOLEAN]
    /\ fire \in [Alarm -> Int]
    /\ period \in [Alarm -> Nat]
    /\ start \in [Alarm -> Int]
    /\ now \in 0 .. MaxTime
    /\ depth \in 0 .. 1
    /\ disabled \in 0 .. 2
    /\ resched \in BOOLEAN
    /\ ready \subseteq Thread
    /\ active \in Context \ ready
    /\ pc \in [Context -> {"guest", "loop", "handler", "handled", "completions", "done",
                           "preempt"}]
    /\ left \in [Context -> 0 .. Limit]
    /\ deferred \in [Context -> BOOLEAN]

\* The links of the queue agree in both directions and with its ends, and lead
\* to the armed alarms and no others, through insertions in the middle and
\* removals by the pump, by OSCancelAlarm and by a handler of its own alarm.
ListWellFormed ==
    LET l == Sanitized(links)
    IN  /\ Listed(l) = {a \in Alarm : handler[a]}
        /\ l.head = None <=> l.tail = None
        /\ \A a \in Listed(l) :
              /\ a = l.head <=> l.prev[a] = None
              /\ a = l.tail <=> l.next[a] = None
              /\ l.next[a] # None => l.prev[l.next[a]] = a

\* An alarm handler is never interrupted by another one, nor by the guest code
\* of another thread.
HandlersRunAlone == \A c \in Context : pc[c] = "handler" => c = active

\* Handlers and deferred pumps give the scheduler back as they found it, however
\* threads are switched between.
SchedulerRestored == GuestCode => disabled = 0

\* A periodic alarm goes off on its grid, and once for all the periods it
\* missed: after it went off its next time is ahead of the clock.
PeriodicOnGrid ==
    [][\A a \in Alarm : handler'[a] /\ period'[a] # 0 /\ fire'[a] # fire[a] =>
          /\ (fire'[a] - start'[a]) % period'[a] = 0
          /\ now <= fire'[a] /\ (handler[a] => now < fire'[a])
          /\ fire'[a] = start'[a] \/ fire'[a] <= now + period'[a]]_vars

\* The queue implements the alarm clock: nothing goes off early, before an
\* earlier alarm or after it was cancelled, and no armed alarm gets lost.
Deadline == LET armed == IF links = Sanitized(links) THEN Listed(links) ELSE {}
            IN  [a \in Alarm |-> IF a \in armed THEN fire[a] ELSE None]
Clock == INSTANCE AlarmClock WITH deadline <- Deadline, Off <- None
ImplementsClock == Clock!Spec

\* An alarm that is due goes off (or is cancelled), whatever the guest threads
\* do, if they leave the pumping to safe points and the idle loop.
DueAlarmsGoOff ==
    \A a \in Alarm : (handler[a] /\ fire[a] <= now) ~> (~handler[a] \/ now < fire[a])

\* Whoever executes guest code can process alarms: no other fiber holds the guard.
GuardNotCarried == GuestCode => depth = 0
=============================================================================
