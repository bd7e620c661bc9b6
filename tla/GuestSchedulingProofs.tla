----------------------- MODULE GuestSchedulingProofs -----------------------
(* Timed sleep, priority inheritance and preemption.                       *)
(*                                                                         *)
(* Timed sleep. A timer and the thread it is for are parted by four calls: *)
(* the pump, OSResumeThread, the return of OSSleepTicks itself and the end *)
(* of the thread. Over the queues (Good, of GuestThreadsProofs) SleepInv   *)
(* says that a thread in OSSleepTicks is in no other sleep (SleepShape),   *)
(* that it has armed its timer before it suspends itself (ArmedFirst),     *)
(* that an armed timer is that of a thread in OSSleepTicks (TimersParked), *)
(* and that when the timer is gone and the thread still suspended,         *)
(* resuming it is the next thing done (SleepersTimed).                     *)
(*                                                                         *)
(* Priority inheritance. While PromoteThreadPriority and                   *)
(* PropagateMutexOwnerPriority go along a chain of owners, one owner has   *)
(* not got the priority of its waiters yet: the one the topmost call is    *)
(* about. RankInv says so (ChainInv, AtMostInv), that a sleeper on a mutex *)
(* waits for it (SleepsInv), and that no priority is better than a base or *)
(* a waiter accounts for (EarnInv, in Steady games). EndsInv: only what is *)
(* over unlocks all of its mutexes.                                        *)
(*                                                                         *)
(* Preemption. RespectInv says that no better thread is ready than the one *)
(* that executes, unless a call on its stack looks for one (LooksAhead) or *)
(* a waiter of a mutex is about to be woken (Waking): OSUnlockMutex lowers *)
(* its caller only together with waking the one its priority came from,    *)
(* which is what EarnInv is for.                                           *)
(*                                                                         *)
(* A lemma for each action shows that it preserves each invariant; those   *)
(* before them are about what an action adds to the stack of calls.        *)
(*                                                                         *)
(* As in GuestThreadsProofs, no entry function returns (NoReturn; Orderly  *)
(* for what is about mutexes). What the timers say is further about games  *)
(* without reuse (Reused): OSCancelThread leaves the timer of a cancelled  *)
(* sleeper armed, and OSCreateThread does not look for one.                *)
EXTENDS GuestThreadsProofs

-----------------------------------------------------------------------------
(* The invariant.                                                          *)

\* The calls that tell whether t is in OSSleepTicks, and what it may not be in then.
\* OSCancelThread leaves an armed timer, which OSCreateThread may then find in the
\* structure it is given: a timer of nobody (stale_timer).
Reused == {"SleepTicks", "CancelThread", "CreateThread"} \subseteq game.calls

\* A thread in OSSleepTicks is in no other sleep.
SleepShape ==
    \A t \in Thread : InFrame(t, "TickWoken") =>
        ~InFrame(t, "SleepThread") /\ ~InFrame(t, "LockMutex") /\ state[t] # "waiting"

\* Only OSSleepTicks calls OSSuspendThread, once it has armed the timer.
ArmedFirst ==
    \A t \in Thread : InFrame(t, "SuspendThread") =>
        Topmost(Frame("SuspendThread", t)) /\ t \in timers

TimersParked ==
    /\ "SleepTicks" \notin game.calls => timers = {}
    /\ "CancelThread" \notin game.calls => \A t \in timers : ~Terminated(t)
    /\ ~Reused => \A t \in timers : ~Terminated(t) => InFrame(t, "TickWoken")

\* A timer goes, and its thread is resumed next.
SleepersTimed ==
    "SuspendThread" \notin game.calls =>
        /\ \A t \in Thread : suspend[t] <= 1
        /\ \A t \in Thread : ~Terminated(t) /\ InFrame(t, "TickWoken") /\ suspend[t] > 0 =>
              t \in timers \/ Topmost(Frame("ResumeThread", t))

SleepInv == SleepShape /\ ArmedFirst /\ TimersParked /\ SleepersTimed

-----------------------------------------------------------------------------
(* Stacks without the calls that matter here.                              *)

Has(s, c) == \E i \in DOMAIN s : s[i].call = c
SleepCalls == {"TickWoken", "SuspendThread", "SleepThread", "LockMutex"}
Without(k, C) == \A i \in DOMAIN k : k[i].call \notin C
Tame(k) == k \in Seq(FrameType) /\ Without(k, SleepCalls)

\* No thread enters OSSleepTicks or leaves it, and one that is in it sleeps on nothing else.
StacksFall ==
    \A t \in Thread :
        /\ InFrame(t, "TickWoken")' => InFrame(t, "TickWoken")
        /\ InFrame(t, "SuspendThread")' => InFrame(t, "SuspendThread")
        /\ InFrame(t, "SleepThread")' => InFrame(t, "SleepThread") \/ ~InFrame(t, "TickWoken")
        /\ InFrame(t, "LockMutex")' => InFrame(t, "LockMutex") \/ ~InFrame(t, "TickWoken")
        /\ ~Terminated(t)' /\ InFrame(t, "TickWoken") => InFrame(t, "TickWoken")'

\* The state of a thread stays, or changes as that of a sleeper may.
StateStays(t) ==
    \/ state'[t] = state[t]
    \/ ~Terminated(t) /\ state'[t] \in {"ready", "running"}
    \/ Terminated(t) /\ state'[t] = "none"
    \/ state'[t] = "waiting" /\ ~Terminated(t) /\ ~InFrame(t, "TickWoken")
    \/ Terminated(t)' /\ (t \in timers => "CancelThread" \in game.calls)

\* A stack has a call if its first call is that or the rest has it.
LEMMA HasCons ==
  ASSUME NEW f \in FrameType, NEW s \in Seq(FrameType), NEW c
  PROVE  Has(<<f>> \o s, c) <=> f.call = c \/ Has(s, c)
  <1>. DEFINE r == <<f>> \o s
  <1>1. /\ DOMAIN r = 1 .. Len(s) + 1 /\ r[1] = f
        /\ \A i \in DOMAIN s : r[i + 1] = s[i]
        /\ DOMAIN s = 1 .. Len(s) /\ Len(s) \in Nat
    BY ConsSeq
  <1>. HIDE DEF r
  <1>2. ASSUME NEW i \in DOMAIN r, r[i].call = c PROVE f.call = c \/ Has(s, c)
    <2>1. CASE i = 1
      BY <1>1, <1>2, <2>1
    <2>2. CASE i # 1
      <3>1. i - 1 \in DOMAIN s /\ (i - 1) + 1 = i
        BY <2>2, <1>1
      <3>2. s[i - 1] = r[i]
        BY <1>1, <3>1
      <3>. QED BY <3>1, <3>2, <1>2 DEF Has
    <2>. QED BY <2>1, <2>2
  <1>3. f.call = c => Has(r, c)
    <2>1. 1 \in DOMAIN r
      BY <1>1
    <2>. QED BY <1>1, <2>1 DEF Has
  <1>4. ASSUME NEW i \in DOMAIN s, s[i].call = c PROVE Has(r, c)
    <2>1. i + 1 \in DOMAIN r /\ r[i + 1] = s[i]
      BY <1>1, <1>4
    <2>. QED BY <2>1, <1>4 DEF Has
  <1>. QED BY <1>2, <1>3, <1>4 DEF Has, r

\* Calls on a stack that are none of those that matter.
LEMMA HasConcat ==
  ASSUME NEW k \in Seq(FrameType), NEW s \in Seq(FrameType), NEW C, Without(k, C), NEW c \in C
  PROVE  Has(k \o s, c) <=> Has(s, c)
  <1>. DEFINE r == k \o s
  <1>1. /\ DOMAIN r = 1 .. Len(k) + Len(s) /\ DOMAIN s = 1 .. Len(s) /\ DOMAIN k = 1 .. Len(k)
        /\ Len(k) \in Nat /\ Len(s) \in Nat
        /\ \A i \in 1 .. Len(k) + Len(s) : r[i] = IF i <= Len(k) THEN k[i] ELSE s[i - Len(k)]
    <2>1. r \in Seq(FrameType) /\ Len(r) = Len(k) + Len(s)
      BY ConcatIs
    <2>. HIDE DEF r
    <2>2. DOMAIN r = 1 .. Len(k) + Len(s)
      BY <2>1, LenProperties
    <2>. QED BY <2>2, ConcatIs, LenProperties DEF r
  <1>. HIDE DEF r
  <1>2. ASSUME NEW i \in DOMAIN s, s[i].call = c PROVE Has(r, c)
    <2>1. Len(k) + i \in DOMAIN r /\ ~(Len(k) + i <= Len(k)) /\ (Len(k) + i) - Len(k) = i
      BY <1>1
    <2>2. r[Len(k) + i] = s[i]
      BY <1>1, <2>1
    <2>. QED BY <1>2, <2>1, <2>2 DEF Has
  <1>3. ASSUME NEW i \in DOMAIN r, r[i].call = c PROVE Has(s, c)
    <2>1. CASE i <= Len(k)
      <3>1. i \in DOMAIN k /\ r[i] = k[i]
        BY <1>1, <2>1
      <3>. QED BY <1>3, <3>1 DEF Without
    <2>2. CASE ~(i <= Len(k))
      <3>1. i - Len(k) \in DOMAIN s /\ r[i] = s[i - Len(k)]
        BY <1>1, <2>2
      <3>. QED BY <1>3, <3>1 DEF Has
    <2>. QED BY <2>1, <2>2
  <1>. QED BY <1>2, <1>3 DEF Has, r

\* The calls of one step.
LEMMA TameCalls ==
  /\ Tame(<<>>)
  /\ \A f \in FrameType : f.call \notin SleepCalls => Tame(<<f>>)
  /\ \A f, g \in FrameType : f.call \notin SleepCalls /\ g.call \notin SleepCalls => Tame(<<f, g>>)
  /\ \A f, g, h \in FrameType : /\ f.call \notin SleepCalls /\ g.call \notin SleepCalls
                                /\ h.call \notin SleepCalls
                                => Tame(<<f, g>> \o <<h>>)
  <1>1. Tame(<<>>)
    BY EmptyStack DEF Tame, Without
  <1>2. ASSUME NEW f \in FrameType, f.call \notin SleepCalls PROVE Tame(<<f>>)
    BY <1>2 DEF Tame, Without
  <1>3. ASSUME NEW f \in FrameType, NEW g \in FrameType,
               f.call \notin SleepCalls, g.call \notin SleepCalls
        PROVE  Tame(<<f, g>>)
    BY <1>3 DEF Tame, Without
  <1>4. ASSUME NEW f \in FrameType, NEW g \in FrameType, NEW h \in FrameType,
               f.call \notin SleepCalls, g.call \notin SleepCalls, h.call \notin SleepCalls
        PROVE  Tame(<<f, g>> \o <<h>>)
    <2>1. Tame(<<f, g>>) /\ Tame(<<h>>)
      BY <1>2, <1>3, <1>4
    <2>2. /\ <<f, g>> \in Seq(FrameType) /\ <<h>> \in Seq(FrameType)
          /\ Without(<<f, g>>, SleepCalls) /\ \A c \in SleepCalls : ~Has(<<h>>, c)
      BY ONLY <2>1 DEF Tame, Without, Has
    <2>3. \A c \in SleepCalls : ~Has(<<f, g>> \o <<h>>, c)
      BY ONLY <2>2, HasConcat
    <2>4. <<f, g>> \o <<h>> \in Seq(FrameType)
      BY <2>2
    <2>. QED BY ONLY <2>3, <2>4 DEF Tame, Without, Has
  <1>. QED BY <1>1, <1>2, <1>3, <1>4

\* The calls of the steps.
LEMMA TameFrames ==
  /\ Tame(<<>>) /\ Tame(<<SelectFrame>>) /\ Tame(<<IfResched>>)
  /\ Tame(<<Frame("SelectThread", TRUE)>>)
  /\ \A c \in {"Pick", "Idle"} : Tame(<<Frame(c, None)>>)
  /\ \A t \in Thread : Tame(<<Frame("ResumeThread", t)>>) /\ Tame(<<Frame("Propagate", t)>>)
  /\ \A x \in BlockQueues : Tame(<<Frame("WakeupThread", x)>>)
  /\ \A t \in Thread, p \in AnyPriority : Tame(<<Frame("Promote", <<t, p>>)>>)
  /\ \A t \in Thread \cup {None} : Tame(<<Frame("Switched", t)>>)
  /\ \A due \in SUBSET Thread, b \in BOOLEAN :
        Tame(<<Frame("ProcessSleepTimers", due), Frame("Select", b)>>)
  /\ \A t \in Thread, x \in BlockQueues : Tame(<<SelectFrame, Frame("Slept", <<t, x>>)>>)
  /\ \A t \in Thread : /\ Tame(EndCalls(t) \o <<IfResched>>)
                        /\ Tame(EndCalls(t) \o <<Frame("Exited", None)>>)
  <1>. DEFINE Calls == {"SelectThread", "IfResched", "Pick", "Idle", "ResumeThread", "Propagate",
                        "WakeupThread", "Promote", "Switched", "ProcessSleepTimers", "Select",
                        "Slept", "Exited", "UnlockAll"}
  <1>1. \A f \in FrameType : f.call \in Calls => f.call \notin SleepCalls
    BY DEF SleepCalls
  <1>2. \A f \in FrameType : f.call \in Calls => Tame(<<f>>)
    BY <1>1, TameCalls
  <1>3. \A f, g \in FrameType : f.call \in Calls /\ g.call \in Calls => Tame(<<f, g>>)
    BY <1>1, TameCalls
  <1>4. Tame(<<SelectFrame>>) /\ Tame(<<IfResched>>)
    BY <1>2, SelectFrames
  <1>5. /\ Tame(<<Frame("SelectThread", TRUE)>>)
        /\ \A c \in {"Pick", "Idle"} : Tame(<<Frame(c, None)>>)
    <2>1. /\ Frame("SelectThread", TRUE) \in FrameType /\ Frame("SelectThread", TRUE).call \in Calls
          /\ \A c \in {"Pick", "Idle"} : Frame(c, None) \in FrameType /\ Frame(c, None).call \in Calls
      BY Frames
    <2>. QED BY <1>2, <2>1
  <1>6. /\ \A t \in Thread : Tame(<<Frame("ResumeThread", t)>>) /\ Tame(<<Frame("Propagate", t)>>)
        /\ \A x \in BlockQueues : Tame(<<Frame("WakeupThread", x)>>)
    BY <1>2, Frames
  <1>7. /\ \A t \in Thread, p \in AnyPriority : Tame(<<Frame("Promote", <<t, p>>)>>)
        /\ \A t \in Thread \cup {None} : Tame(<<Frame("Switched", t)>>)
    BY <1>2, Frames
  <1>8. \A due \in SUBSET Thread, b \in BOOLEAN :
           Tame(<<Frame("ProcessSleepTimers", due), Frame("Select", b)>>)
    BY <1>3, Frames
  <1>9. \A t \in Thread, x \in BlockQueues : Tame(<<SelectFrame, Frame("Slept", <<t, x>>)>>)
    BY <1>3, Frames, SelectFrames
  <1>10. ASSUME NEW t \in Thread, NEW h \in FrameType, h.call \in Calls
         PROVE  Tame(EndCalls(t) \o <<h>>)
    <2>. DEFINE f == Frame("UnlockAll", t)
                g == Frame("WakeupThread", JoinQ(t))
    <2>1. f \in FrameType /\ g \in FrameType /\ f.call \in Calls /\ g.call \in Calls
      BY Frames, Addresses
    <2>2. EndCalls(t) = <<f, g>>
      BY DEF EndCalls
    <2>. HIDE DEF f, g, Calls
    <2>. QED BY <1>1, <1>10, <2>1, <2>2, TameCalls
  <1>11. ASSUME NEW t \in Thread
         PROVE  /\ Tame(EndCalls(t) \o <<IfResched>>)
                /\ Tame(EndCalls(t) \o <<Frame("Exited", None)>>)
    <2>. DEFINE e == Frame("Exited", None)
    <2>1. /\ IfResched \in FrameType /\ IfResched.call \in Calls
          /\ e \in FrameType /\ e.call \in Calls
      BY SelectFrames, Frames
    <2>. HIDE DEF e, Calls
    <2>2. Tame(EndCalls(t) \o <<IfResched>>) /\ Tame(EndCalls(t) \o <<e>>)
      BY <1>10, <2>1
    <2>. QED BY <2>2 DEF e
  <1>. QED BY <1>4, <1>5, <1>6, <1>7, <1>8, <1>9, <1>11, TameCalls

\* The calls that OSSuspendThread and OSResumeThread end with.
LEMMA TamePropagate ==
  ASSUME TypeOK, NEW m \in Mutex \cup {None}
  PROVE  Tame(PropagateFrom(m) \o <<IfResched>>)
  <1>1. CASE m = None \/ owner[m] = None
    <2>1. <<>> \o <<IfResched>> = <<IfResched>>
      BY SelectFrames
    <2>. QED BY <1>1, <2>1, TameFrames DEF PropagateFrom
  <1>2. CASE ~(m = None \/ owner[m] = None)
    <2>. DEFINE f == Frame("Propagate", owner[m])
    <2>1. f \in FrameType /\ f.call = "Propagate" /\ PropagateFrom(m) = <<f>>
      BY <1>2, Frames DEF TypeOK, PropagateFrom
    <2>. HIDE DEF f
    <2>2. <<f>> \o <<IfResched>> = <<f, IfResched>>
      BY TwoElements
    <2>. QED BY <2>1, <2>2, SelectFrames, TameCalls DEF SleepCalls
  <1>. QED BY <1>1, <1>2

\* A step of the active thread that makes tame calls, or ends a thread; OSSleepTicks does not end.
LEMMA TameStep ==
  ASSUME TypeOK, ~Top("TickWoken"),
         NEW k \in Seq(FrameType),
         Without(k, SleepCalls)
           \/ (~InFrame(active, "TickWoken") /\ Without(k, {"TickWoken", "SuspendThread"})),
         NEW r, r = Rest \/ r = stack[active],
         \A t \in Thread : \/ stack'[t] = [stack EXCEPT ![active] = k \o r][t]
                           \/ stack'[t] = <<>> /\ Terminated(t)'
  PROVE  StacksFall
  <1>1. /\ active \in Thread /\ stack[active] \in Seq(FrameType) /\ Rest \in Seq(FrameType)
        /\ stack[active] # <<>> => /\ Head(stack[active]) \in FrameType
                                   /\ stack[active] = <<Head(stack[active])>> \o Rest
    BY TopFrame
  <1>2. r \in Seq(FrameType)
    BY <1>1
  <1>3. /\ \A c : Has(r, c) => Has(stack[active], c)
        /\ Has(stack[active], "TickWoken") => Has(r, "TickWoken")
    <2>1. CASE r = stack[active]
      BY <2>1
    <2>2. CASE r = Rest /\ stack[active] = <<>>
      BY <2>2 DEF Rest
    <2>3. CASE r = Rest /\ stack[active] # <<>>
      <3>. DEFINE h == Head(stack[active])
      <3>1. h \in FrameType /\ stack[active] = <<h>> \o Rest
        BY <1>1, <2>3
      <3>2. h.call # "TickWoken"
        BY <2>3 DEF Top
      <3>. HIDE DEF h
      <3>3. \A c : Has(stack[active], c) <=> h.call = c \/ Has(Rest, c)
        BY <1>1, <3>1, HasCons
      <3>. QED BY <2>3, <3>2, <3>3
    <2>. QED BY <2>1, <2>2, <2>3
  <1>. DEFINE s == [stack EXCEPT ![active] = k \o r]
  <1>4. s[active] = k \o r /\ \A t \in Thread \ {active} : s[t] = stack[t]
    BY <1>1 DEF TypeOK
  <1>5. \A t \in Thread : stack'[t] = s[t] \/ (stack'[t] = <<>> /\ Terminated(t)')
    OBVIOUS
  <1>. HIDE DEF s
  <1>6. /\ \A c \in {"TickWoken", "SuspendThread"} : Has(s[active], c) <=> Has(r, c)
        /\ \A c \in SleepCalls : Has(s[active], c) => Has(r, c) \/ ~InFrame(active, "TickWoken")
    <2>1. CASE Without(k, SleepCalls)
      BY <1>2, <1>4, <2>1, HasConcat DEF SleepCalls
    <2>2. CASE ~InFrame(active, "TickWoken") /\ Without(k, {"TickWoken", "SuspendThread"})
      BY <1>2, <1>4, <2>2, HasConcat
    <2>. QED BY <2>1, <2>2
  <1>7. ASSUME NEW t \in Thread
        PROVE  /\ \A c : /\ InFrame(t, c) <=> Has(stack[t], c)
                         /\ InFrame(t, c)' <=> Has(stack'[t], c)
               /\ \A c : ~Has(<<>>, c)
    BY DEF InFrame, Has
  <1>8. ASSUME NEW t \in Thread
        PROVE  /\ Has(s[t], "TickWoken") <=> Has(stack[t], "TickWoken")
               /\ Has(s[t], "SuspendThread") => Has(stack[t], "SuspendThread")
               /\ \A c \in SleepCalls : Has(s[t], c) => Has(stack[t], c) \/ ~Has(stack[t], "TickWoken")
    <2>1. CASE t # active
      BY <1>4, <2>1
    <2>2. CASE t = active
      BY <1>3, <1>6, <1>7, <2>2
    <2>. QED BY <2>1, <2>2
  <1>. QED BY <1>5, <1>7, <1>8 DEF StacksFall, SleepCalls

\* Threads stay asleep, and timers armed.
LEMMA StillAsleep ==
  ASSUME SleepInv, StacksFall, UNCHANGED <<game, suspend, timers>>,
         ~Top("ResumeThread"), ~Top("SuspendThread"), timers \subseteq Thread,
         \A t \in Thread : StateStays(t)
  PROVE  SleepInv'
  <1>1. \A t \in Thread :
          /\ ~Terminated(t)' => ~Terminated(t)
          /\ t \in timers /\ "CancelThread" \notin game.calls => ~Terminated(t)'
          /\ state'[t] = "waiting" => state[t] = "waiting" \/ ~InFrame(t, "TickWoken")
    BY DEF StateStays, Terminated, SleepInv, TimersParked
  <1>2. SleepShape'
    BY <1>1 DEF SleepInv, SleepShape, StacksFall
  <1>3. \A c, a : Frame(c, a).call = c
    BY Frames
  <1>4. \A t : ~Topmost(Frame("SuspendThread", t)) /\ ~Topmost(Frame("ResumeThread", t))
    BY <1>3 DEF Topmost, Top
  <1>5. ArmedFirst'
    BY <1>4 DEF SleepInv, ArmedFirst, StacksFall
  <1>6. TimersParked'
    BY <1>1 DEF SleepInv, TimersParked, StacksFall, Reused
  <1>7. SleepersTimed'
    BY <1>1, <1>4 DEF SleepInv, SleepersTimed, StacksFall
  <1>. QED BY <1>2, <1>5, <1>6, <1>7 DEF SleepInv

\* A call that has begun and goes on.
LEMMA Awaits ==
  ASSUME Good, NEW c, GuestCode \/ Top(c)
  PROVE  IF GuestCode THEN \A d : ~InFrame(active, d) ELSE InFrame(active, c)
  <1>1. CASE GuestCode
    BY <1>1 DEF GuestCode, InFrame
  <1>2. CASE ~GuestCode /\ Top(c)
    <2>1. 1 \in DOMAIN stack[active] /\ stack[active][1] = Head(stack[active])
      BY <1>2, EmptySeq, LenProperties DEF GuestCode, Good, TypeOK
    <2>. QED BY <1>2, <2>1 DEF InFrame, Top
  <1>. QED BY <1>1, <1>2

\* A step that leaves timers and suspensions alone.
LEMMA AsleepStep ==
  ASSUME Good, SleepInv, UNCHANGED <<game, suspend, timers>>,
         ~Top("TickWoken"), ~Top("ResumeThread"), ~Top("SuspendThread"),
         NEW k, Tame(k),
         \/ stack' = [stack EXCEPT ![active] = k \o Rest] \/ stack' = stack
         \/ stack' = [stack EXCEPT ![active] = k \o stack[active]],
         \A t \in Thread : StateStays(t)
  PROVE  SleepInv'
  <1>1. StacksFall
    <2>1. CASE \E r \in {Rest, stack[active]} : stack' = [stack EXCEPT ![active] = k \o r]
      BY <2>1, TameStep DEF Good, Tame
    <2>2. CASE stack' = stack
      <3>1. /\ stack' = [stack EXCEPT ![active] = <<>> \o stack[active]]
            /\ <<>> \in Seq(FrameType) /\ Without(<<>>, SleepCalls)
        BY <2>2, TopFrame, TameFrames, ConcatEmptySeq DEF Good, TypeOK, Tame
      <3>. QED BY <3>1, TameStep DEF Good
    <2>. QED BY <2>1, <2>2
  <1>. QED BY <1>1, StillAsleep DEF Good, TypeOK

\* The scheduler, its timers and its switches, as long as no state changes.
LEMMA SchedulerAsleep ==
  ASSUME Good, SleepInv, UNCHANGED game,
         \/ TimersDue \/ PumpEnds \/ IdleEnds \/ Switched \/ Reschedule \/ YieldThread \/ Exited
         \/ DisableScheduler \/ EnableScheduler
  PROVE  SleepInv'
  <1>1. /\ UNCHANGED <<game, suspend, timers, state>>
        /\ ~Top("TickWoken") /\ ~Top("ResumeThread") /\ ~Top("SuspendThread")
    BY DEF TimersDue, PumpEnds, IdleEnds, Switched, Reschedule, YieldThread, Exited,
           DisableScheduler, EnableScheduler, Top, GuestCalls, GuestCode
  <1>2. \A t \in Thread : StateStays(t)
    BY <1>1 DEF StateStays
  <1>3. \E k : Tame(k) /\ (stack' = [stack EXCEPT ![active] = k \o Rest] \/ stack' = stack)
    <2>1. CASE TimersDue
      <3>1. PICK due \in SUBSET timers :
               stack' = [stack EXCEPT ![active] =
                            <<Frame("ProcessSleepTimers", due), Frame("Select", Arg)>> \o Rest]
        BY <2>1 DEF TimersDue, Continue
      <3>2. due \in SUBSET Thread /\ Arg \in BOOLEAN
        BY <2>1, TopFrame, FrameArgs DEF Good, TypeOK, TimersDue, Top, Arg, Selecting
      <3>3. Tame(<<Frame("ProcessSleepTimers", due), Frame("Select", Arg)>>)
        BY <3>2, TameFrames
      <3>. QED BY <3>1, <3>3
    <2>2. CASE PumpEnds \/ Switched
      BY <2>2, TameFrames DEF PumpEnds, Switched, Return, Continue
    <2>3. CASE IdleEnds
      BY <2>3, TameFrames DEF IdleEnds, Continue
    <2>4. CASE Reschedule \/ YieldThread \/ Exited
      BY <2>4, TameFrames DEF Reschedule, YieldThread, Exited, Continue
    <2>5. CASE DisableScheduler \/ EnableScheduler
      BY <2>5, TameFrames DEF DisableScheduler, EnableScheduler
    <2>. QED BY <2>1, <2>2, <2>3, <2>4, <2>5
  <1>. QED BY <1>1, <1>2, <1>3, AsleepStep

\* SelectThread queues the running thread.
LEMMA SelectAsleep ==
  ASSUME Good, SleepInv, UNCHANGED game, SelectThread
  PROVE  SleepInv'
  <1>1. /\ UNCHANGED <<game, suspend, timers>>
        /\ ~Top("TickWoken") /\ ~Top("ResumeThread") /\ ~Top("SuspendThread")
    BY DEF SelectThread, Top
  <1>2. \A t \in Thread : StateStays(t)
    BY DEF SelectThread, StateStays, Terminated, Good, TypeOK
  <1>3. \E k : Tame(k) /\ (stack' = [stack EXCEPT ![active] = k \o Rest] \/ stack' = stack)
    BY TameFrames DEF SelectThread, Return, Continue
  <1>. QED BY <1>1, <1>2, <1>3, AsleepStep

\* The thread that is switched to was ready; the calls of one that is over are gone.
LEMMA PickAsleep ==
  ASSUME Good, SleepInv, UNCHANGED game, Pick
  PROVE  SleepInv'
  <1>. DEFINE n == Head(q[RunQ(Min(pending))])
  <1>1. /\ UNCHANGED <<game, suspend, timers>>
        /\ ~Top("TickWoken") /\ ~Top("ResumeThread") /\ ~Top("SuspendThread")
        /\ ~Terminated(n) /\ n = active' /\ state' = [state EXCEPT ![n] = "running"]
        /\ stack' = [stack EXCEPT ![active] =
                        IF n = active THEN Rest
                        ELSE IF dead[active] THEN <<>>
                        ELSE <<Frame("Switched", curGuest)>> \o Rest]
    BY DEF Pick, Top
  <1>. HIDE DEF n
  <1>2. \A t \in Thread : state'[t] = IF t = n THEN "running" ELSE state[t]
    BY <1>1 DEF Good, TypeOK
  <1>3. \A t \in Thread : StateStays(t)
    BY <1>1, <1>2 DEF StateStays
  <1>4. CASE n # active /\ dead[active]
    <2>1. state'[active] \in {"none", "moribund"} /\ active \in Thread
      BY <1>2, <1>4 DEF Good, LifeInv, TypeOK, Terminated
    <2>2. \A t \in Thread : \/ stack'[t] = [stack EXCEPT ![active] = <<>> \o Rest][t]
                            \/ stack'[t] = <<>> /\ Terminated(t)'
      BY <1>1, <1>4, <2>1 DEF Good, TypeOK, Terminated
    <2>3. StacksFall
      BY <1>1, <2>2, TameStep, TameFrames DEF Good, Tame
    <2>. QED BY <1>1, <1>3, <2>3, StillAsleep DEF Good, TypeOK
  <1>5. CASE ~(n # active /\ dead[active])
    <2>1. <<>> \o Rest = Rest /\ curGuest \in Thread \cup {None}
      BY TopFrame, ConcatEmptySeq DEF Good, TypeOK
    <2>2. \E k : Tame(k) /\ stack' = [stack EXCEPT ![active] = k \o Rest]
      BY <1>1, <1>5, <2>1, TameFrames
    <2>. QED BY <1>1, <1>3, <2>2, AsleepStep
  <1>. QED BY <1>4, <1>5

\* A wake-up ends no thread and puts none to sleep.
LEMMA WakeAsleep ==
  ASSUME Good, SleepInv, UNCHANGED game,
         \/ \E w \in WaitQueue : IdleInterrupt(w) \/ Interrupt(w)
         \/ \E x \in BlockQueues : WakeupThread(x)
  PROVE  SleepInv'
  <1>1. PICK x \in BlockQueues : Wake(x)
    BY Addresses DEF IdleInterrupt, Interrupt, WakeupThread
  <1>2. /\ UNCHANGED <<game, suspend, timers, prio>>
        /\ ~Top("TickWoken") /\ ~Top("ResumeThread") /\ ~Top("SuspendThread")
    BY DEF IdleInterrupt, Interrupt, WakeupThread, Top, Called, GuestCalls, GuestCode, prioVars
  <1>3. \A t \in Thread : state'[t] = state[t] \/ (state[t] = "waiting" /\ state'[t] = "ready")
    BY <1>1, <1>2, WakeKept DEF Good, LifeInv
  <1>4. \A t \in Thread : StateStays(t)
    BY <1>3 DEF StateStays, Terminated
  <1>5. \E k : Tame(k) /\ (stack' = [stack EXCEPT ![active] = k \o Rest] \/ stack' = stack)
    BY TameFrames DEF IdleInterrupt, Interrupt, WakeupThread, Continue
  <1>. QED BY <1>2, <1>4, <1>5, AsleepStep

\* OSSleepThread is called by the game, or by a call that OSSleepTicks does not make.
LEMMA SleepAsleep ==
  ASSUME Good, SleepInv, UNCHANGED game, NEW x \in BlockQueues, SleepThread(x)
  PROVE  SleepInv'
  <1>1. /\ UNCHANGED <<game, suspend, timers>>
        /\ ~Top("TickWoken") /\ ~Top("ResumeThread") /\ ~Top("SuspendThread")
        /\ GuestCode \/ Top("SleepThread")
    BY DEF SleepThread, Called, GuestCalls, GuestCode, Top
  <1>2. Executing /\ active \in Thread
    BY <1>1, ModeOf DEF Good, TypeOK, GuestCode, Top, Quiet, Selecting
  <1>3. running = active /\ state[active] = "running" /\ active # None
    BY <1>2, ConstantsAssumption DEF Executing
  <1>4. ~InFrame(active, "TickWoken")
    BY <1>1, <1>2, Awaits DEF SleepInv, SleepShape
  <1>5. \A t \in Thread : StateStays(t)
    BY <1>3, <1>4 DEF SleepThread, StateStays, Terminated, Good, TypeOK
  <1>6. \E k : Tame(k) /\ (stack' = [stack EXCEPT ![active] = k \o Rest] \/ stack' = stack)
    BY <1>2, <1>3, TameFrames DEF SleepThread, Return, Continue
  <1>. QED BY <1>1, <1>5, <1>6, AsleepStep

\* OSSleepThread and OSJoinThread after the sleep, and OSDetachThread.
LEMMA WokenAsleep ==
  ASSUME Good, SleepInv, UNCHANGED game, NEW t \in Thread,
         Joined(t) \/ DetachThread(t) \/ \E x \in BlockQueues : Slept(t, x)
  PROVE  SleepInv'
  <1>1. /\ UNCHANGED <<game, suspend, timers>>
        /\ ~Top("TickWoken") /\ ~Top("ResumeThread") /\ ~Top("SuspendThread")
    BY DEF Joined, DetachThread, Slept, GuestCalls, GuestCode, Top
  <1>2. \A u \in Thread : StateStays(u)
    BY DEF Joined, DetachThread, Slept, Reap, StateStays, Terminated, Good, TypeOK
  <1>3. \E k : Tame(k) /\ (stack' = [stack EXCEPT ![active] = k \o Rest] \/ stack' = stack)
    BY TameFrames, Addresses DEF Joined, DetachThread, Slept, Return, Continue
  <1>. QED BY <1>1, <1>2, <1>3, AsleepStep

\* Mutexes are unlocked and priorities passed on.
LEMMA PriorityAsleep ==
  ASSUME Good, SleepInv, UNCHANGED game,
         \/ \E m \in Mutex : UnlockMutex(m)
         \/ \E t \in Thread : UnlockAll(t) \/ Propagate(t) \/ \E p \in AnyPriority : Promote(t, p)
  PROVE  SleepInv'
  <1>1. /\ UNCHANGED <<game, suspend, timers, state>>
        /\ ~Top("TickWoken") /\ ~Top("ResumeThread") /\ ~Top("SuspendThread")
    BY DEF UnlockMutex, UnlockAll, Propagate, Promote, GuestCalls, GuestCode, Top
  <1>2. \A u \in Thread : StateStays(u)
    BY <1>1 DEF StateStays
  <1>3. \E k : Tame(k) /\ (stack' = [stack EXCEPT ![active] = k \o Rest] \/ stack' = stack
                             \/ stack' = [stack EXCEPT ![active] = k \o stack[active]])
    <2>1. \A t \in Thread : NextOwner(t) # None => NextOwner(t) \in Thread
      BY DEF NextOwner, Good, TypeOK
    <2>2. CASE \E t \in Thread : Propagate(t)
      BY <2>1, <2>2, TameFrames DEF Propagate, Return, Continue
    <2>3. CASE \E t \in Thread, p \in AnyPriority : Promote(t, p)
      BY <2>1, <2>3, TameFrames DEF Promote, Return, Continue
    <2>4. CASE \E m \in Mutex : UnlockMutex(m)
      BY <2>4, TameFrames, Addresses DEF UnlockMutex, Continue
    <2>5. CASE \E t \in Thread : UnlockAll(t)
      <3>1. \A t \in Thread : held[t] # <<>> => Head(held[t]) \in Mutex
        BY DEF Good, TypeOK
      <3>. QED BY <2>5, <3>1, TameFrames, Addresses DEF UnlockAll, Return, Continue
    <2>. QED BY <2>2, <2>3, <2>4, <2>5
  <1>. QED BY <1>1, <1>2, <1>3, AsleepStep

\* OSLockMutex and OSJoinThread may go to sleep: they are not called from OSSleepTicks.
LEMMA BlockAsleep ==
  ASSUME Good, SleepInv, UNCHANGED game,
         \/ \E t \in Thread, m \in Mutex : LockMutex(t, m)
         \/ \E t \in Thread : JoinThread(t)
  PROVE  SleepInv'
  <1>1. /\ UNCHANGED <<game, suspend, timers>>
        /\ ~Top("TickWoken") /\ ~Top("ResumeThread") /\ ~Top("SuspendThread")
        /\ GuestCode \/ Top("LockMutex")
    BY DEF LockMutex, JoinThread, GuestCalls, GuestCode, Top
  <1>2. \A t \in Thread : StateStays(t)
    BY DEF LockMutex, JoinThread, Reap, StateStays, Terminated, Good, TypeOK
  <1>3. ~InFrame(active, "TickWoken") /\ active \in Thread
    BY <1>1, Awaits DEF SleepInv, SleepShape, Good, TypeOK
  <1>. DEFINE C == {"TickWoken", "SuspendThread"}
  <1>4. /\ \A f, g \in FrameType : f.call \notin C /\ g.call \notin C =>
              <<f, g>> \in Seq(FrameType) /\ Without(<<f, g>>, C)
        /\ \A f, g, h \in FrameType : f.call \notin C /\ g.call \notin C /\ h.call \notin C =>
              <<f, g, h>> \in Seq(FrameType) /\ Without(<<f, g, h>>, C)
    BY DEF Without
  <1>5. \/ stack' = stack \/ stack' = [stack EXCEPT ![active] = <<>> \o Rest]
        \/ \E k \in Seq(FrameType) : Without(k, C) /\ stack' = [stack EXCEPT ![active] = k \o Rest]
    <2>1. ASSUME NEW t \in Thread, NEW m \in Mutex, LockMutex(t, m), owner[m] # None
          PROVE  \E k \in Seq(FrameType) : Without(k, C) /\
                    k = <<Frame("Promote", <<owner[m], prio[t]>>), Frame("SleepThread", MutexQ(m)),
                          Frame("LockMutex", <<t, m>>)>>
      <3>. DEFINE f == Frame("Promote", <<owner[m], prio[t]>>)
                  g == Frame("SleepThread", MutexQ(m))
                  h == Frame("LockMutex", <<t, m>>)
      <3>1. /\ f \in FrameType /\ f.call = "Promote" /\ g \in FrameType /\ g.call = "SleepThread"
            /\ h \in FrameType /\ h.call = "LockMutex"
        BY <2>1, Frames, Addresses DEF Good, TypeOK
      <3>. HIDE DEF f, g, h
      <3>2. <<f, g, h>> \in Seq(FrameType) /\ Without(<<f, g, h>>, C)
        BY <1>4, <3>1
      <3>. QED BY <3>2 DEF f, g, h
    <2>2. CASE \E t \in Thread, m \in Mutex : LockMutex(t, m)
      BY <2>1, <2>2 DEF LockMutex, Return, Continue
    <2>3. ASSUME NEW t \in Thread
          PROVE  \E k \in Seq(FrameType) : Without(k, C) /\
                    k = <<Frame("SleepThread", JoinQ(t)), Frame("Joined", t)>>
      <3>. DEFINE f == Frame("SleepThread", JoinQ(t))
                  g == Frame("Joined", t)
      <3>1. /\ f \in FrameType /\ f.call = "SleepThread" /\ g \in FrameType /\ g.call = "Joined"
        BY Frames, Addresses
      <3>. HIDE DEF f, g
      <3>2. <<f, g>> \in Seq(FrameType) /\ Without(<<f, g>>, C)
        BY <1>4, <3>1
      <3>. QED BY <3>2 DEF f, g
    <2>4. CASE \E t \in Thread : JoinThread(t)
      BY <2>3, <2>4 DEF JoinThread, Continue
    <2>. QED BY <2>2, <2>4
  <1>6. CASE \E k \in Seq(FrameType) : Without(k, C) /\ stack' = [stack EXCEPT ![active] = k \o Rest]
    <2>1. StacksFall
      BY <1>1, <1>3, <1>6, TameStep DEF Good
    <2>. QED BY <1>1, <1>2, <2>1, StillAsleep DEF Good, TypeOK
  <1>. QED BY <1>1, <1>2, <1>5, <1>6, TameFrames, AsleepStep

\* A thread that ends leaves its calls; OSExitThread is called with no timer armed.
LEMMA EndAsleep ==
  ASSUME Good, SleepInv, UNCHANGED game, ExitThread \/ \E t \in Thread : CancelThread(t)
  PROVE  SleepInv'
  <1>1. /\ UNCHANGED <<game, suspend, timers>> /\ GuestCode /\ active \in Thread
        /\ ~Top("TickWoken") /\ ~Top("ResumeThread") /\ ~Top("SuspendThread")
    BY DEF ExitThread, CancelThread, GuestCalls, GuestCode, Top, Good, TypeOK
  <1>2. running = active /\ state[active] = "running" /\ active \notin timers
    <2>1. Executing
      BY <1>1, ModeOf DEF Good
    <2>. QED BY <1>1, <2>1, ExecutingRest, NotArming DEF Good, Terminated
  <1>3. PICK t \in Thread, c \in {<<IfResched>>, <<Frame("Exited", None)>>} :
           Terminate(t, c) /\ (t \in timers => "CancelThread" \in game.calls)
    BY <1>1, <1>2 DEF ExitThread, CancelThread, GuestCalls
  <1>4. state'[t] \in {"none", "moribund"} /\ \A u \in Thread \ {t} : state'[u] = state[u]
    BY <1>3 DEF Terminate, Good, TypeOK
  <1>5. \A u \in Thread : StateStays(u)
    BY <1>3, <1>4 DEF StateStays, Terminated
  <1>. DEFINE k == EndCalls(t) \o c
  <1>6. Tame(k)
    BY <1>3, TameFrames
  <1>7. stack' = [u \in Thread |-> IF u = active THEN k \o Rest ELSE IF u = t THEN <<>> ELSE stack[u]]
    BY <1>3 DEF Terminate
  <1>. HIDE DEF k
  <1>8. \A u \in Thread : \/ stack'[u] = [stack EXCEPT ![active] = k \o Rest][u]
                          \/ stack'[u] = <<>> /\ Terminated(u)'
    BY <1>1, <1>4, <1>7 DEF Good, TypeOK, Terminated
  <1>9. StacksFall
    BY <1>1, <1>6, <1>8, TameStep DEF Good, Tame
  <1>. QED BY <1>1, <1>5, <1>9, StillAsleep DEF Good, TypeOK

\* Calls on top of the stack.
LEMMA TopCall ==
  ASSUME TypeOK, NEW f \in FrameType, NEW s \in Seq(FrameType), stack'[active'] = <<f>> \o s
  PROVE  Topmost(f)'
  BY ConsSeq DEF Topmost

\* A timer goes off for a thread that is ready and suspended, and resumes it.
LEMMA FireAsleep ==
  ASSUME Good, SleepInv, UNCHANGED game, NEW t \in Thread, PumpTimer(t) \/ IdleTimer(t)
  PROVE  SleepInv'
  <1>. DEFINE f == Frame("ResumeThread", t)
  <1>1. /\ UNCHANGED <<game, suspend, state, active>> /\ timers' = timers \ {t} /\ state[t] # "running"
        /\ ~Top("TickWoken") /\ ~Top("ResumeThread") /\ ~Top("SuspendThread")
        /\ IF Parked(t) THEN stack' = [stack EXCEPT ![active] = <<f>> \o stack[active]]
           ELSE stack' = stack
    BY DEF PumpTimer, IdleTimer, FireSleepTimer, fiberVars, Top, Continue
  <1>2. /\ active \in Thread /\ stack[active] \in Seq(FrameType) /\ f \in FrameType /\ Tame(<<f>>)
        /\ timers \subseteq Thread
    BY Frames, TopFrame, TameFrames DEF Good, TypeOK
  <1>3. StacksFall
    <2>1. CASE Parked(t)
      <3>. HIDE DEF f
      <3>. QED BY <1>1, <1>2, <2>1, TameStep DEF Good, Tame
    <2>2. CASE ~Parked(t)
      BY <1>1, <2>2 DEF StacksFall, InFrame, Terminated
    <2>. QED BY <2>1, <2>2
  <1>4. Parked(t) => Topmost(f)'
    <2>. HIDE DEF f
    <2>1. Parked(t) => stack'[active'] = <<f>> \o stack[active]
      BY <1>1, <1>2 DEF Good, TypeOK
    <2>. QED BY <1>2, <2>1, TopCall DEF Good
  <1>5. \A u : ~Topmost(Frame("SuspendThread", u)) /\ ~Topmost(Frame("ResumeThread", u))
    BY <1>1, Frames DEF Topmost, Top
  <1>6. SleepShape'
    BY <1>1, <1>3 DEF SleepInv, SleepShape, StacksFall
  <1>7. ArmedFirst'
    BY <1>3, <1>5 DEF SleepInv, ArmedFirst, StacksFall
  <1>8. TimersParked'
    BY <1>1, <1>2, <1>3 DEF SleepInv, TimersParked, StacksFall, Reused, Terminated
  <1>9. SleepersTimed'
    <2>. SUFFICES ASSUME "SuspendThread" \notin game.calls, NEW u \in Thread, ~Terminated(u),
                         InFrame(u, "TickWoken"), suspend[u] > 0, u \notin timers'
                  PROVE  Topmost(Frame("ResumeThread", u))'
      BY <1>1, <1>3 DEF SleepersTimed, SleepInv, StacksFall, Terminated
    <2>1. u = t
      BY <1>1, <1>5 DEF SleepInv, SleepersTimed
    <2>2. Parked(t)
      BY <1>1, <2>1 DEF SleepInv, SleepShape, Terminated, Parked, Good, TypeOK, State
    <2>. QED BY <1>4, <2>1, <2>2
  <1>. QED BY <1>6, <1>7, <1>8, <1>9 DEF SleepInv

\* OSSuspendThread, at the end of OSSleepTicks or called by the game.
LEMMA SuspendAsleep ==
  ASSUME Good, SleepInv, UNCHANGED game, NEW t \in Thread, SuspendThread(t)
  PROVE  SleepInv'
  <1>1. /\ UNCHANGED <<game, timers>> /\ suspend' = [suspend EXCEPT ![t] = @ + 1]
        /\ GuestCode \/ Top("SuspendThread")
        /\ "SuspendThread" \in game.calls \/ (Top("SuspendThread") /\ Arg = t)
        /\ GuestCode \/ Arg = t
    BY DEF SuspendThread, Called, GuestCalls
  <1>2. /\ \A u \in Thread : state'[u] = state[u] \/ (state[u] = "running" /\ state'[u] = "ready")
        /\ timers \subseteq Thread /\ active \in Thread /\ ~Top("TickWoken")
    BY <1>1 DEF SuspendThread, Good, TypeOK, GuestCode, Top
  <1>3. PICK k : Tame(k) /\ stack' = [stack EXCEPT ![active] = k \o Rest]
    BY TameFrames, TamePropagate DEF SuspendThread, Return, Continue, Good, TypeOK
  <1>4. StacksFall
    BY <1>2, <1>3, TameStep DEF Good, Tame
  <1>5. \A u : ~Topmost(Frame("ResumeThread", u))
    BY <1>1, Frames DEF Topmost, Top, GuestCode
  <1>6. SleepShape'
    BY <1>2, <1>4 DEF SleepInv, SleepShape, StacksFall
  <1>7. \A u \in Thread : ~InFrame(u, "SuspendThread")'
    <2>1. CASE GuestCode
      BY <1>4, <2>1 DEF SleepInv, ArmedFirst, StacksFall, Topmost, GuestCode
    <2>2. CASE ~GuestCode
      <3>1. Arming /\ t = active
        BY <1>1, <2>2, ModeOf DEF Good, Top, Arming
      <3>2. \A u : Topmost(Frame("SuspendThread", u)) => u = t
        BY <1>1, <2>2, Frames DEF Topmost, Arg
      <3>3. ~Has(Rest, "SuspendThread") /\ Rest \in Seq(FrameType)
        BY <3>1, TopFrame DEF Arming, Plain, PlainFrame, Has, Good
      <3>4. ~Has(k \o Rest, "SuspendThread") /\ "SuspendThread" \in SleepCalls
        BY <1>3, <3>3, HasConcat DEF Tame, SleepCalls
      <3>5. stack'[active] = k \o Rest
        BY <1>2, <1>3 DEF Good, TypeOK
      <3>6. ~InFrame(t, "SuspendThread")'
        BY <3>1, <3>4, <3>5 DEF InFrame, Has
      <3>7. \A u \in Thread \ {t} : ~InFrame(u, "SuspendThread")'
        BY <1>4, <3>2 DEF SleepInv, ArmedFirst, StacksFall
      <3>. QED BY <3>6, <3>7
    <2>. QED BY <2>1, <2>2
  <1>8. ArmedFirst'
    BY <1>7 DEF ArmedFirst
  <1>9. TimersParked'
    BY <1>1, <1>2, <1>4 DEF SleepInv, TimersParked, StacksFall, Reused, Terminated
  <1>10. SleepersTimed'
    <2>. SUFFICES ASSUME "SuspendThread" \notin game.calls
                  PROVE  /\ \A u \in Thread : suspend'[u] <= 1
                         /\ \A u \in Thread : ~Terminated(u)' /\ InFrame(u, "TickWoken")'
                                              /\ suspend'[u] > 0 => u \in timers
      BY <1>1 DEF SleepersTimed
    <2>1. suspend[t] = 0 /\ t \in timers
      <3>1. Top("SuspendThread") /\ Arg = t
        BY <1>1
      <3>2. Arming
        BY <3>1, ModeOf DEF Good, Top
      <3>3. t = active /\ suspend[t] = 0
        BY <3>1, <3>2 DEF Arming, Good, FiberInv
      <3>4. InFrame(t, "SuspendThread")
        BY <3>1, <3>3, Awaits DEF Top, GuestCode
      <3>. QED BY <3>3, <3>4 DEF SleepInv, ArmedFirst
    <2>2. \A u \in Thread : suspend'[u] = IF u = t THEN 1 ELSE suspend[u]
      BY <1>1, <2>1 DEF Good, TypeOK
    <2>. QED BY <1>2, <1>4, <1>5, <2>1, <2>2 DEF SleepInv, SleepersTimed, StacksFall, Terminated
  <1>. QED BY <1>6, <1>8, <1>9, <1>10 DEF SleepInv

\* OSResumeThread drops the timer with the last suspension.
LEMMA ResumeAsleep ==
  ASSUME Good, SleepInv, UNCHANGED game, NEW t \in Thread, ResumeThread(t)
  PROVE  SleepInv'
  <1>1. /\ UNCHANGED game /\ suspend' = [suspend EXCEPT ![t] = @ - 1]
        /\ timers' = TimersAfterResume(t) /\ suspend[t] > 0
        /\ GuestCode \/ (Top("ResumeThread") /\ Arg = t)
    BY DEF ResumeThread, Called, GuestCalls
  <1>2. /\ \A u \in Thread : \/ state'[u] = state[u]
                             \/ state[u] \in {"ready", "running"} /\ state'[u] = "ready"
        /\ timers' \subseteq timers /\ timers \subseteq Thread
        /\ \A u \in timers : u = t \/ u \in timers'
        /\ ~Top("TickWoken") /\ ~Top("SuspendThread")
    BY <1>1 DEF ResumeThread, TimersAfterResume, Good, TypeOK, GuestCode, Top
  <1>3. PICK k : Tame(k) /\ stack' = [stack EXCEPT ![active] = k \o Rest]
    BY TameFrames, TamePropagate DEF ResumeThread, Return, Continue, Good, TypeOK
  <1>4. StacksFall
    BY <1>2, <1>3, TameStep DEF Good, Tame
  <1>5. /\ \A u : ~Topmost(Frame("SuspendThread", u))
        /\ \A u : Topmost(Frame("ResumeThread", u)) => u = t
    BY <1>1, <1>2, Frames DEF Topmost, Top, GuestCode, Arg
  <1>6. SleepShape'
    BY <1>2, <1>4 DEF SleepInv, SleepShape, StacksFall
  <1>7. ArmedFirst'
    BY <1>4, <1>5 DEF SleepInv, ArmedFirst, StacksFall
  <1>8. TimersParked'
    BY <1>1, <1>2, <1>4 DEF SleepInv, TimersParked, StacksFall, Reused, Terminated
  <1>9. SleepersTimed'
    <2>. SUFFICES ASSUME "SuspendThread" \notin game.calls
                  PROVE  /\ \A u \in Thread : suspend'[u] <= 1
                         /\ \A u \in Thread : ~Terminated(u)' /\ InFrame(u, "TickWoken")'
                                              /\ suspend'[u] > 0 => u \in timers'
      BY <1>1 DEF SleepersTimed
    <2>1. suspend[t] = 1 /\ \A u \in Thread : suspend'[u] = IF u = t THEN 0 ELSE suspend[u]
      BY <1>1 DEF Good, TypeOK, SleepInv, SleepersTimed
    <2>. QED BY <1>2, <1>4, <1>5, <2>1 DEF SleepInv, SleepersTimed, StacksFall, Terminated
  <1>. QED BY <1>6, <1>7, <1>8, <1>9 DEF SleepInv

\* OSSleepTicks: the timer is armed before the thread suspends itself.
LEMMA TicksAsleep ==
  ASSUME Good, SleepInv, UNCHANGED game, NEW t \in Thread, SleepTicks(t)
  PROVE  SleepInv'
  <1>1. /\ UNCHANGED <<game, suspend, state, active>> /\ timers' = timers \cup {t} /\ GuestCode
        /\ "SleepTicks" \in game.calls
    BY DEF SleepTicks, GuestCalls, fiberVars
  <1>2. /\ Executing /\ t = active /\ state[t] = "running" /\ suspend[t] = 0
        /\ timers \subseteq Thread
    <2>1. Executing
      BY <1>1, ModeOf DEF Good
    <2>. QED BY <2>1, ExecutingRest DEF Good, FiberInv, SleepTicks, TypeOK
  <1>. DEFINE f == Frame("SuspendThread", t)
              g == Frame("TickWoken", t)
  <1>3. f \in FrameType /\ g \in FrameType /\ f.call = "SuspendThread" /\ g.call = "TickWoken"
    BY Frames
  <1>4. stack' = [u \in Thread |-> IF u = t THEN <<f, g>> ELSE NotDue(stack[u], t)]
    BY <1>2 DEF SleepTicks
  <1>5. \A u \in Thread \ {t} : \A c : InFrame(u, c)' <=> InFrame(u, c)
    <2>1. ASSUME NEW s PROVE DOMAIN NotDue(s, t) = DOMAIN s
                             /\ \A i \in DOMAIN s : NotDue(s, t)[i].call = s[i].call
      BY Frames DEF NotDue
    <2>2. \A u \in Thread \ {t} : stack'[u] = NotDue(stack[u], t)
      BY <1>4
    <2>. QED BY <2>1, <2>2 DEF InFrame
  <1>6. Topmost(f)' /\ \A c : InFrame(t, c)' <=> c \in {"SuspendThread", "TickWoken"}
    <2>. HIDE DEF f, g
    <2>1. stack'[t] = <<f, g>> /\ active' = t
      BY <1>1, <1>2, <1>4
    <2>2. /\ DOMAIN <<f, g>> = {1, 2} /\ <<f, g>>[1] = f /\ <<f, g>>[2] = g
          /\ <<f, g>> # <<>> /\ Head(<<f, g>>) = f
      OBVIOUS
    <2>. QED BY <1>3, <2>1, <2>2 DEF Topmost, InFrame
  <1>7. \A u : ~Topmost(Frame("SuspendThread", u)) /\ ~Topmost(Frame("ResumeThread", u))
    BY <1>1 DEF Topmost, GuestCode
  <1>8. SleepShape'
    BY <1>1, <1>2, <1>5, <1>6 DEF SleepInv, SleepShape
  <1>9. ArmedFirst'
    BY <1>1, <1>5, <1>6, <1>7 DEF SleepInv, ArmedFirst
  <1>10. TimersParked'
    BY <1>1, <1>2, <1>5, <1>6 DEF SleepInv, TimersParked, Reused, Terminated
  <1>11. SleepersTimed'
    BY <1>1, <1>2, <1>5, <1>7 DEF SleepInv, SleepersTimed, Terminated
  <1>. QED BY <1>8, <1>9, <1>10, <1>11 DEF SleepInv

\* The end of OSSleepTicks: the timer is gone.
LEMMA TickWokenAsleep ==
  ASSUME Good, SleepInv, UNCHANGED game, NEW t \in Thread, TickWoken(t)
  PROVE  SleepInv'
  <1>1. Top("TickWoken") /\ Arg = t /\ UNCHANGED game
    BY DEF TickWoken
  <1>2. Executing /\ active \in Thread /\ t = active /\ suspend[t] = 0 /\ state[t] = "running"
    <2>1. Executing
      BY <1>1, ModeOf DEF Good, Top, Quiet, Selecting
    <2>2. PlainFrame(active, Head(stack[active]))
      BY <1>1, <2>1, ModeOf DEF Good, Top
    <2>. QED BY <1>1, <2>1, <2>2, ExecutingRest DEF Good, PlainFrame, Top, Arg
  <1>3. /\ UNCHANGED <<game, suspend, timers, state, active>> /\ timers \subseteq Thread
        /\ stack' = [stack EXCEPT ![active] = <<>> \o Rest]
    BY <1>2 DEF TickWoken, Return, Continue, fiberVars, Good, TypeOK
  <1>4. t \notin timers
    BY <1>1, <1>2, NotArming DEF Good, Top, Terminated
  <1>5. \A u \in Thread : /\ \A c : InFrame(u, c)' => InFrame(u, c)
                          /\ u # t => (InFrame(u, "TickWoken") => InFrame(u, "TickWoken")')
    <2>1. \A u \in Thread \ {active} : stack'[u] = stack[u]
      BY <1>3 DEF Good, TypeOK
    <2>2. stack'[active] = Rest /\ \A c : Has(Rest, c) => Has(stack[active], c)
      <3>1. Rest \in Seq(FrameType) /\ stack'[active] = <<>> \o Rest
        BY <1>2, <1>3, TopFrame DEF Good, TypeOK
      <3>. DEFINE h == Head(stack[active])
      <3>2. h \in FrameType /\ stack[active] = <<h>> \o Rest
        BY <1>1, TopFrame DEF Good, Top
      <3>. HIDE DEF h
      <3>3. \A c : Has(Rest, c) => Has(stack[active], c)
        BY <3>1, <3>2, HasCons
      <3>. QED BY <3>1, <3>3, ConcatEmptySeq
    <2>. QED BY <1>2, <2>1, <2>2 DEF InFrame, Has
  <1>6. \A c, a : c # "TickWoken" => ~Topmost(Frame(c, a))
    BY <1>1, Frames DEF Topmost, Top
  <1>7. SleepShape' /\ ArmedFirst'
    BY <1>3, <1>5, <1>6 DEF SleepInv, SleepShape, ArmedFirst
  <1>8. TimersParked'
    BY <1>3, <1>4, <1>5 DEF SleepInv, TimersParked, Reused, Terminated
  <1>9. SleepersTimed'
    BY <1>3, <1>5, <1>6 DEF SleepInv, SleepersTimed, Terminated
  <1>. QED BY <1>7, <1>8, <1>9 DEF SleepInv

\* A thread that is created is not asleep; its structure has a timer only in games that reuse one.
LEMMA CreateAsleep ==
  ASSUME Good, SleepInv, UNCHANGED game, NEW t \in Thread, NEW p, NEW d, CreateThread(t, p, d)
  PROVE  SleepInv'
  <1>1. /\ UNCHANGED <<game, timers, active>> /\ GuestCode /\ "CreateThread" \in game.calls
        /\ state[t] = "none" /\ timers \subseteq Thread
        /\ stack'[t] = <<>> /\ \A u \in Thread \ {t} : stack'[u] = stack[u]
        /\ state'[t] = "ready" /\ \A u \in Thread \ {t} : state'[u] = state[u]
        /\ suspend'[t] = 1 /\ \A u \in Thread \ {t} : suspend'[u] = suspend[u]
    BY DEF CreateThread, GuestCalls, Good, TypeOK
  <1>2. /\ \A c : ~InFrame(t, c)'
        /\ \A u \in Thread \ {t} : \A c : InFrame(u, c)' <=> InFrame(u, c)
        /\ \A f : ~Topmost(f)
    BY <1>1 DEF InFrame, Topmost, GuestCode
  <1>3. SleepShape' /\ ArmedFirst'
    BY <1>1, <1>2 DEF SleepInv, SleepShape, ArmedFirst
  <1>4. TimersParked'
    BY <1>1, <1>2 DEF SleepInv, TimersParked, Reused, Terminated
  <1>5. SleepersTimed'
    BY <1>1, <1>2 DEF SleepInv, SleepersTimed, Terminated
  <1>. QED BY <1>3, <1>4, <1>5 DEF SleepInv

\* At the start nobody sleeps.
LEMMA InitAsleep ==
  ASSUME Init
  PROVE  SleepInv
  <1>1. /\ timers = {} /\ \A t \in Thread : stack[t] = <<>> /\ suspend[t] = 0
    BY DEF Init
  <1>2. \A t \in Thread : \A c : ~InFrame(t, c)
    BY <1>1 DEF InFrame
  <1>. QED BY <1>1, <1>2 DEF SleepInv, SleepShape, ArmedFirst, TimersParked, SleepersTimed

\* Every action keeps SleepInv.
LEMMA StepAsleep ==
  ASSUME NoReturn, Good, SleepInv, Next
  PROVE  SleepInv'
  <1>1. Step /\ UNCHANGED game
    BY DEF Next
  <1>2. CASE \/ TimersDue \/ PumpEnds \/ IdleEnds \/ Switched \/ Reschedule \/ YieldThread \/ Exited
             \/ DisableScheduler \/ EnableScheduler
    BY <1>1, <1>2, SchedulerAsleep
  <1>3. CASE SelectThread
    BY <1>1, <1>3, SelectAsleep
  <1>4. CASE Pick
    BY <1>1, <1>4, PickAsleep
  <1>5. CASE ExitThread \/ \E t \in Thread : CancelThread(t)
    BY <1>1, <1>5, EndAsleep
  <1>6. CASE ReturnFromEntry
    BY <1>6 DEF ReturnFromEntry, GuestCalls, NoReturn
  <1>7. CASE \/ \E w \in WaitQueue : IdleInterrupt(w) \/ Interrupt(w)
             \/ \E x \in BlockQueues : WakeupThread(x)
    BY <1>1, <1>7, WakeAsleep
  <1>8. CASE \E x \in BlockQueues : SleepThread(x)
    BY <1>1, <1>8, SleepAsleep
  <1>9. CASE \/ \E m \in Mutex : UnlockMutex(m)
             \/ \E t \in Thread : UnlockAll(t) \/ Propagate(t) \/ \E p \in AnyPriority : Promote(t, p)
    BY <1>1, <1>9, PriorityAsleep
  <1>10. CASE \/ \E t \in Thread, m \in Mutex : LockMutex(t, m)
              \/ \E t \in Thread : JoinThread(t)
    BY <1>1, <1>10, BlockAsleep
  <1>11. CASE \E t \in Thread : Joined(t) \/ DetachThread(t) \/ \E x \in BlockQueues : Slept(t, x)
    BY <1>1, <1>11, WokenAsleep
  <1>12. CASE \E t \in Thread : PumpTimer(t) \/ IdleTimer(t)
    BY <1>1, <1>12, FireAsleep
  <1>13. CASE \E t \in Thread : SuspendThread(t) \/ ResumeThread(t)
    BY <1>1, <1>13, SuspendAsleep, ResumeAsleep
  <1>14. CASE \E t \in Thread : SleepTicks(t) \/ TickWoken(t)
    BY <1>1, <1>14, TicksAsleep, TickWokenAsleep
  <1>15. CASE \E t \in Thread : \E p \in game.priorities, d \in game.attributes : CreateThread(t, p, d)
    BY <1>1, <1>15, CreateAsleep
  <1>. QED BY <1>1, <1>2, <1>3, <1>4, <1>5, <1>6, <1>7, <1>8, <1>9, <1>10, <1>11, <1>12, <1>13,
              <1>14, <1>15 DEF Step

\* So does a step of something else.
LEMMA StutterAsleep ==
  ASSUME SleepInv, UNCHANGED vars
  PROVE  SleepInv'
  <1>1. UNCHANGED <<game, state, suspend, timers, active, stack>>
    BY DEF vars
  <1>2. SleepShape' /\ ArmedFirst'
    BY <1>1 DEF SleepInv, SleepShape, ArmedFirst, InFrame, Topmost, Frame
  <1>3. TimersParked' /\ SleepersTimed'
    BY <1>1 DEF SleepInv, TimersParked, SleepersTimed, InFrame, Topmost, Frame, Reused, Terminated
  <1>. QED BY <1>2, <1>3 DEF SleepInv

\* OSSleepTicks, ProcessSleepTimers, OSResumeThread and the calls that end threads keep SleepInv.
THEOREM SleepInvariant ==
  Spec => [](NoReturn => Good /\ SleepInv)
  <1>1. Init => (NoReturn => Good /\ SleepInv)
    BY InitGood, InitAsleep
  <1>2. (NoReturn => Good /\ SleepInv) /\ [Next]_vars => (NoReturn => Good /\ SleepInv)'
    <2>. SUFFICES ASSUME NoReturn => Good /\ SleepInv, [Next]_vars, NoReturn'
                  PROVE  Good' /\ SleepInv'
      OBVIOUS
    <2>1. UNCHANGED game
      BY DEF Next, vars
    <2>2. NoReturn
      BY <2>1 DEF NoReturn
    <2>. QED BY <2>2, StepGood, StutterGood, StepAsleep, StutterAsleep
  <1>. QED BY <1>1, <1>2, PTL DEF Spec

\* A thread parked in OSSleepTicks is not forgotten: whichever call takes its timer, a timer pump,
\* OSResumeThread or its own return, it has been resumed, or that is the call under way.
THEOREM SleepersWake ==
  Spec => [](NoReturn => NoStrandedSleeper)
  <1>1. Good /\ SleepInv => NoStrandedSleeper
    <2>. SUFFICES ASSUME Good, SleepInv, "SuspendThread" \notin game.calls, NEW t \in Thread,
                         InFrame(t, "TickWoken"), state[t] = "ready", suspend[t] > 0, t \notin timers
                  PROVE  Pending(Frame("ResumeThread", t))
      BY DEF NoStrandedSleeper
    <2>1. Topmost(Frame("ResumeThread", t))
      BY DEF SleepInv, SleepersTimed, Terminated
    <2>2. active \in Thread /\ stack[active] \in Seq(FrameType) /\ stack[active] # <<>>
      BY <2>1 DEF Good, TypeOK, Topmost
    <2>3. 1 \in DOMAIN stack[active] /\ stack[active][1] = Frame("ResumeThread", t)
      BY <2>1, <2>2, EmptySeq, LenProperties DEF Topmost
    <2>. QED BY <2>2, <2>3 DEF Pending
  <1>. QED BY <1>1, SleepInvariant, PTL

\* An armed timer that may go off is that of a thread parked in OSSleepTicks, in games that do not
\* create a thread anew in a structure with a timer that OSCancelThread left armed.
THEOREM TimersHaveSleepers ==
  Spec => [](NoReturn /\ ~Reused => TimersBelongToSleepers)
  <1>1. Good /\ SleepInv => (~Reused => TimersBelongToSleepers)
    BY DEF SleepInv, TimersParked, TimersBelongToSleepers, Terminated
  <1>. QED BY <1>1, SleepInvariant, PTL

-----------------------------------------------------------------------------
(* Priority inheritance.                                                   *)

\* t is to have the priority it deserves; a suspended one gets it when it is resumed.
Ranks(t) == ~Terminated(t) /\ suspend[t] = 0

Sleeps(t, m) == state[t] = "waiting" /\ queue[t] = MutexQ(m)

\* A call that passes no priority on, nor puts a thread to sleep or wakes those of a mutex.
Light(f) == /\ f.call \notin {"Promote", "Propagate", "SleepThread"}
            /\ f.call = "WakeupThread" => f.arg \notin {MutexQ(m) : m \in Mutex}
LightCalls(s) == \A f \in Range(s) : Light(f)

\* The active thread is about to sleep on m, perhaps after it has promoted the owners.
Blocks(m) == \/ Topmost(Frame("SleepThread", MutexQ(m)))
             \/ Top("Promote") /\ waitMutex[active] = m
Blocked(t) == \E m \in Mutex : Blocks(m) /\ owner[m] = t
Promotes(t) == Topmost(Frame("Promote", <<t, prio[active]>>))

\* No turn of PromoteThreadPriority or PropagateMutexOwnerPriority is to come.
NoTurn == /\ ~Top("Promote") /\ ~Top("Propagate")
          /\ \A m \in Mutex : ~Topmost(Frame("SleepThread", MutexQ(m)))

\* Priorities are passed on, and the waiters of a mutex woken, by the topmost call.
ChainInv ==
    /\ \A t \in Thread \ {active} : LightCalls(stack[t])
    /\ IF Top("Promote")
       THEN \E t \in Thread, m \in Mutex, r \in Seq(FrameType) :
               /\ stack[active] = <<Frame("Promote", <<t, prio[active]>>)>>
                                     \o (<<Frame("SleepThread", MutexQ(m))>> \o r)
               /\ waitMutex[active] = m /\ LightCalls(r)
       ELSE LightCalls(Rest)
    /\ Top("Propagate") => Rest # <<>> /\ Head(Rest) = IfResched
    /\ \A m \in Mutex : Topmost(Frame("SleepThread", MutexQ(m))) => waitMutex[active] = m
    /\ \A m \in Mutex : Topmost(Frame("WakeupThread", MutexQ(m))) => owner[m] = None

\* Who sleeps on a mutex is waiting for it.
SleepsInv == \A t \in Thread, m \in Mutex : Sleeps(t, m) => waitMutex[t] = m

\* An owner has the priority of its waiters at least, but for the one whose turn it is.
AtMost(t) ==
    /\ prio[t] <= base[t]
    /\ \A m \in Mutex, u \in Thread : owner[m] = t /\ Sleeps(u, m) =>
          prio[t] <= prio[u] \/ (Promotes(t) /\ prio[active] <= prio[u])
    /\ Blocked(t) => prio[t] <= prio[active] \/ Promotes(t)
AtMostInv == \A t \in Thread : Ranks(t) => AtMost(t) \/ Topmost(Frame("Propagate", t))

\* And it has it from one of them: who has no reason to is not better than its base.
Earns(t, p) ==
    \/ base[t] <= p
    \/ \E m \in Mutex, u \in Thread : owner[m] = t /\ Sleeps(u, m) /\ prio[u] <= p
    \/ Blocked(t) /\ prio[active] <= p
EarnInv ==
    /\ \A t \in Thread : Ranks(t) => Earns(t, prio[t]) \/ Topmost(Frame("Propagate", t))
    /\ \A t \in Thread : Promotes(t) => Earns(t, prio[active])
    /\ \A t \in Thread : state[t] = "waiting" /\ suspend[t] > 0 => prio[t] = SuspendedWait
    /\ disabled = 0

\* The calls of a game in which priorities fall to what was earned, and take effect.
Steady == game.calls \cap {"DisableScheduler", "CancelThread"} = {}

RankInv == ChainInv /\ SleepsInv /\ AtMostInv /\ (Steady => EarnInv)

-----------------------------------------------------------------------------
(* The calls on a stack.                                                   *)

\* The calls of two stacks on one another.
LEMMA RangeConcat ==
  ASSUME NEW k \in Seq(FrameType), NEW s \in Seq(FrameType)
  PROVE  Range(k \o s) = Range(k) \cup Range(s)
  <1>. DEFINE r == k \o s
  <1>1. /\ Len(r) = Len(k) + Len(s) /\ DOMAIN r = 1 .. Len(r)
        /\ DOMAIN k = 1 .. Len(k) /\ DOMAIN s = 1 .. Len(s) /\ Len(k) \in Nat /\ Len(s) \in Nat
        /\ \A i \in 1 .. Len(k) + Len(s) : r[i] = IF i <= Len(k) THEN k[i] ELSE s[i - Len(k)]
    BY ConcatIs, LenProperties
  <1>. HIDE DEF r
  <1>2. ASSUME NEW i \in DOMAIN r PROVE r[i] \in Range(k) \cup Range(s)
    <2>1. CASE i <= Len(k)
      <3>1. i \in DOMAIN k /\ r[i] = k[i]
        BY <1>1, <2>1
      <3>. QED BY <3>1 DEF Range
    <2>2. CASE ~(i <= Len(k))
      <3>1. i - Len(k) \in DOMAIN s /\ r[i] = s[i - Len(k)]
        BY <1>1, <2>2
      <3>. QED BY <3>1 DEF Range
    <2>. QED BY <2>1, <2>2
  <1>3. ASSUME NEW i \in DOMAIN k PROVE k[i] \in Range(r)
    <2>1. i \in DOMAIN r /\ r[i] = k[i]
      BY <1>1
    <2>. QED BY <2>1 DEF Range
  <1>4. ASSUME NEW i \in DOMAIN s PROVE s[i] \in Range(r)
    <2>1. Len(k) + i \in DOMAIN r /\ r[Len(k) + i] = s[i]
      BY <1>1
    <2>. QED BY <2>1 DEF Range
  <1>. QED BY <1>2, <1>3, <1>4 DEF Range, r

\* The calls of short stacks.
LEMMA RangeShort ==
  /\ Range(<<>>) = {}
  /\ \A f : Range(<<f>>) = {f}
  /\ \A f, g : Range(<<f, g>>) = {f, g}
  /\ \A f, g, h : Range(<<f, g, h>>) = {f, g, h}
  <1>1. Range(<<>>) = {}
    BY DEF Range
  <1>2. ASSUME NEW f PROVE Range(<<f>>) = {f}
    BY DEF Range
  <1>3. ASSUME NEW f, NEW g PROVE Range(<<f, g>>) = {f, g}
    <2>. DEFINE s == <<f, g>>
    <2>1. DOMAIN s = {1, 2} /\ s[1] = f /\ s[2] = g
      OBVIOUS
    <2>. HIDE DEF s
    <2>2. Range(s) = {f, g}
      BY <2>1 DEF Range
    <2>. QED BY <2>2 DEF s
  <1>4. ASSUME NEW f, NEW g, NEW h PROVE Range(<<f, g, h>>) = {f, g, h}
    <2>. DEFINE s == <<f, g, h>>
    <2>1. DOMAIN s = {1, 2, 3} /\ s[1] = f /\ s[2] = g /\ s[3] = h
      OBVIOUS
    <2>. HIDE DEF s
    <2>2. Range(s) = {f, g, h}
      BY <2>1 DEF Range
    <2>. QED BY <2>2 DEF s
  <1>. QED BY <1>1, <1>2, <1>3, <1>4

\* The calls of the active fiber: the top one and those under it.
LEMMA RangeTop ==
  ASSUME TypeOK
  PROVE  /\ stack[active] # <<>> => Range(stack[active]) = {Head(stack[active])} \cup Range(Rest)
         /\ stack[active] = <<>> => Rest = <<>> /\ Range(Rest) = {} /\ Range(stack[active]) = {}
  <1>1. CASE stack[active] # <<>>
    <2>. DEFINE h == Head(stack[active])
    <2>1. h \in FrameType /\ stack[active] = <<h>> \o Rest /\ Rest \in Seq(FrameType)
      BY <1>1, TopFrame
    <2>. HIDE DEF h
    <2>2. <<h>> \in Seq(FrameType) /\ Range(<<h>>) = {h}
      BY <2>1, RangeShort
    <2>3. Range(<<h>> \o Rest) = {h} \cup Range(Rest)
      BY <2>1, <2>2, RangeConcat
    <2>. QED BY <1>1, <2>1, <2>3 DEF h
  <1>2. CASE stack[active] = <<>>
    BY <1>2, RangeShort DEF Rest
  <1>. QED BY <1>1, <1>2

\* What a call under the top one may be.
LEMMA LightRest ==
  ASSUME TypeOK, ChainInv
  PROVE  /\ ~Top("Promote") => LightCalls(Rest)
         /\ GuestCode \/ (~Top("Promote") /\ Light(Head(stack[active]))) => LightCalls(stack[active])
  BY RangeTop DEF ChainInv, LightCalls, GuestCode

\* A stack of light calls has no turn to come.
LEMMA LightTop ==
  ASSUME NEW s \in Seq(FrameType), LightCalls(s), s # <<>>
  PROVE  /\ Head(s).call \notin {"Promote", "Propagate", "SleepThread"}
         /\ \A m \in Mutex : Head(s) # Frame("WakeupThread", MutexQ(m))
  <1>1. 1 \in DOMAIN s /\ Head(s) = s[1]
    BY EmptySeq, LenProperties
  <1>2. Light(Head(s))
    BY <1>1 DEF LightCalls, Range
  <1>3. \A m : Frame("WakeupThread", MutexQ(m)).call = "WakeupThread"
               /\ Frame("WakeupThread", MutexQ(m)).arg = MutexQ(m)
    BY Frames
  <1>. QED BY <1>2, <1>3 DEF Light

\* So stacks that are all light are in order.
LEMMA LightChain ==
  ASSUME TypeOK', \A t \in Thread : LightCalls(stack'[t])
  PROVE  ChainInv' /\ NoTurn'
  <1>1. active' \in Thread /\ stack'[active'] \in Seq(FrameType)
    BY DEF TypeOK
  <1>2. \A c, a : Frame(c, a).call = c
    BY Frames
  <1>3. /\ ~Top("Promote")' /\ ~Top("Propagate")'
        /\ \A m \in Mutex : /\ ~Topmost(Frame("SleepThread", MutexQ(m)))'
                            /\ ~Topmost(Frame("WakeupThread", MutexQ(m)))'
    BY <1>1, <1>2, LightTop DEF Top, Topmost
  <1>4. LightCalls(Rest')
    <2>1. CASE stack'[active'] = <<>>
      BY <2>1, RangeShort DEF Rest, LightCalls
    <2>2. CASE stack'[active'] # <<>>
      <3>. DEFINE s == stack'[active']
                  h == Head(s)
                  r == Tail(s)
      <3>1. h \in FrameType /\ r \in Seq(FrameType) /\ s = <<h>> \o r
        BY <1>1, <2>2, HeadTail
      <3>2. Rest' = r /\ LightCalls(s)
        BY <1>1, <2>2 DEF Rest
      <3>. HIDE DEF s, h, r
      <3>3. <<h>> \in Seq(FrameType)
        BY <3>1
      <3>4. Range(r) \subseteq Range(s)
        BY <3>1, <3>3, RangeConcat
      <3>. QED BY <3>2, <3>4 DEF LightCalls
    <2>. QED BY <2>1, <2>2
  <1>5. NoTurn'
    BY <1>3 DEF NoTurn
  <1>. QED BY <1>1, <1>3, <1>4, <1>5 DEF ChainInv

\* The calls of the steps are light, but for those that have to do with priorities.
LEMMA LightFrames ==
  /\ LightCalls(<<>>) /\ LightCalls(<<SelectFrame>>) /\ LightCalls(<<IfResched>>)
  /\ LightCalls(<<Frame("SelectThread", TRUE)>>)
  /\ \A c \in {"Pick", "Idle"} : LightCalls(<<Frame(c, None)>>)
  /\ \A t : LightCalls(<<Frame("ResumeThread", t)>>)
  /\ \A x \in BlockQueues : x \notin {MutexQ(m) : m \in Mutex} => LightCalls(<<Frame("WakeupThread", x)>>)
  /\ \A t : LightCalls(<<Frame("Switched", t)>>)
  /\ \A due, b : LightCalls(<<Frame("ProcessSleepTimers", due), Frame("Select", b)>>)
  /\ \A t, x : LightCalls(<<SelectFrame, Frame("Slept", <<t, x>>)>>)
  /\ \A t, u : LightCalls(<<Frame("SuspendThread", t), Frame("TickWoken", u)>>)
  /\ \A t \in Thread : /\ LightCalls(EndCalls(t) \o <<IfResched>>)
                       /\ LightCalls(EndCalls(t) \o <<Frame("Exited", None)>>)
  <1>1. \A c, a : Frame(c, a).call = c /\ Frame(c, a).arg = a
    BY Frames
  <1>2. \A c, a : c \notin {"Promote", "Propagate", "SleepThread", "WakeupThread"} => Light(Frame(c, a))
    BY <1>1 DEF Light
  <1>3. Light(SelectFrame) /\ Light(IfResched)
    BY <1>2 DEF SelectFrame, IfResched
  <1>4. \A x : x \notin {MutexQ(m) : m \in Mutex} => Light(Frame("WakeupThread", x))
    BY <1>1 DEF Light
  <1>5. \A t \in Thread : JoinQ(t) \notin {MutexQ(m) : m \in Mutex}
    BY Addresses
  <1>6. /\ LightCalls(<<>>) /\ \A f : LightCalls(<<f>>) <=> Light(f)
        /\ \A f, g : LightCalls(<<f, g>>) <=> Light(f) /\ Light(g)
    BY RangeShort DEF LightCalls
  <1>7. ASSUME NEW t \in Thread, NEW h \in FrameType, Light(h) PROVE LightCalls(EndCalls(t) \o <<h>>)
    <2>. DEFINE f == Frame("UnlockAll", t)
                g == Frame("WakeupThread", JoinQ(t))
    <2>1. f \in FrameType /\ g \in FrameType /\ Light(f) /\ Light(g)
      BY <1>2, <1>4, <1>5, Frames, Addresses
    <2>. HIDE DEF f, g
    <2>2. /\ <<f, g>> \in Seq(FrameType) /\ LightCalls(<<f, g>>)
          /\ <<h>> \in Seq(FrameType) /\ LightCalls(<<h>>)
      BY <1>6, <1>7, <2>1
    <2>3. LightCalls(<<f, g>> \o <<h>>)
      BY <2>2, RangeConcat DEF LightCalls
    <2>. QED BY <2>3 DEF EndCalls, f, g
  <1>8. \A t \in Thread : /\ LightCalls(EndCalls(t) \o <<IfResched>>)
                          /\ LightCalls(EndCalls(t) \o <<Frame("Exited", None)>>)
    BY <1>2, <1>3, <1>7, Frames, SelectFrames
  <1>. QED BY <1>2, <1>3, <1>4, <1>6, <1>8

\* Stacks of light calls stay so.
LEMMA LightStep ==
  ASSUME TypeOK, ChainInv, NEW k \in Seq(FrameType), LightCalls(k),
         NEW r, (r = Rest /\ ~Top("Promote")) \/ (r = stack[active] /\ LightCalls(r)),
         \A t \in Thread : stack'[t] = [stack EXCEPT ![active] = k \o r][t] \/ stack'[t] = <<>>
  PROVE  \A t \in Thread : LightCalls(stack'[t])
  <1>1. r \in Seq(FrameType) /\ LightCalls(r) /\ active \in Thread
    BY TopFrame, LightRest
  <1>2. LightCalls(k \o r) /\ LightCalls(<<>>)
    BY <1>1, RangeConcat, LightFrames DEF LightCalls
  <1>3. \A t \in Thread : LightCalls([stack EXCEPT ![active] = k \o r][t])
    BY <1>1, <1>2 DEF ChainInv, TypeOK
  <1>. QED BY <1>2, <1>3

-----------------------------------------------------------------------------
(* Steps that leave priorities as they are.                                *)

\* No thread comes to a mutex, or leaves one while its owner could tell.
SleepersCame ==
    \A m \in Mutex, t \in Thread : Sleeps(t, m)' =>
        Sleeps(t, m) /\ waitMutex'[t] = waitMutex[t] /\ owner'[m] \in {owner[m], None}
SleepersLeft ==
    \A m \in Mutex, t, u \in Thread : Sleeps(t, m) /\ owner[m] = u /\ Ranks(u)' =>
        Sleeps(t, m)' /\ owner'[m] = u

\* Then who had the right priority still has.
LEMMA RanksStay ==
  ASSUME TypeOK', RankInv, UNCHANGED <<game, prio, base>>, NoTurn, ChainInv', NoTurn',
         SleepersCame, Steady => SleepersLeft /\ disabled' = 0,
         \A t \in Thread : Ranks(t)' => Ranks(t),
         \A t \in Thread : state'[t] = "waiting" /\ suspend'[t] > 0 =>
                              state[t] = "waiting" /\ suspend[t] > 0
  PROVE  RankInv'
  <1>2. \A t : ~Topmost(Frame("Propagate", t)) /\ ~Promotes(t) /\ ~Blocked(t)
    BY Frames DEF NoTurn, Topmost, Top, Promotes, Blocked, Blocks
  <1>3. \A t : ~Topmost(Frame("Propagate", t))' /\ ~Promotes(t)' /\ ~Blocked(t)'
    BY Frames DEF NoTurn, Topmost, Top, Promotes, Blocked, Blocks
  <1>4. AtMostInv'
    <2>. SUFFICES ASSUME NEW t \in Thread, Ranks(t)' PROVE AtMost(t)'
      BY DEF AtMostInv
    <2>1. AtMost(t) /\ prio'[t] = prio[t] /\ base'[t] = base[t]
      BY <1>2 DEF RankInv, AtMostInv
    <2>2. ASSUME NEW m \in Mutex, NEW u \in Thread, owner'[m] = t, Sleeps(u, m)'
          PROVE  prio'[t] <= prio'[u]
      <3>1. Sleeps(u, m) /\ owner[m] = t
        BY <2>2, ConstantsAssumption DEF SleepersCame
      <3>. QED BY <1>2, <2>1, <3>1 DEF AtMost
    <2>. QED BY <1>3, <2>1, <2>2 DEF AtMost
  <1>5. ASSUME Steady PROVE EarnInv'
    <2>. USE <1>5
    <2>1. ASSUME NEW t \in Thread, Ranks(t)' PROVE Earns(t, prio[t])'
      <3>1. Earns(t, prio[t])
        BY <1>2, <2>1 DEF RankInv, EarnInv
      <3>. QED BY <1>2, <2>1, <3>1 DEF Earns, SleepersLeft
    <2>. QED BY <1>3, <2>1 DEF EarnInv, RankInv
  <1>6. Steady' <=> Steady
    BY DEF Steady
  <1>7. SleepsInv'
    BY DEF SleepersCame, RankInv, SleepsInv
  <1>. QED BY <1>4, <1>5, <1>6, <1>7 DEF RankInv

\* The stacks after a step that makes the light calls k, and perhaps frees those of another fiber.
LightStack(k) ==
    \/ stack' = stack /\ LightCalls(stack[active])
    \/ \A t \in Thread : stack'[t] = [stack EXCEPT ![active] = k \o Rest][t] \/ stack'[t] = <<>>
    \/ stack' = [stack EXCEPT ![active] = k \o stack[active]] /\ LightCalls(stack[active])

\* Such a step, when no thread goes to sleep on a mutex.
LEMMA StayRanks ==
  ASSUME Good, Good', RankInv, UNCHANGED <<game, prio, base>>,
         ~Top("Promote"), ~Top("Propagate"), ~Top("SleepThread"),
         SleepersCame, Steady => SleepersLeft /\ disabled' = 0,
         \A t \in Thread : Ranks(t)' => Ranks(t),
         \A t \in Thread : state'[t] = "waiting" /\ suspend'[t] > 0 =>
                              state[t] = "waiting" /\ suspend[t] > 0,
         NEW k, Tame(k), LightCalls(k), LightStack(k)
  PROVE  RankInv'
  <1>1. \A t \in Thread : LightCalls(stack'[t])
    <2>1. CASE stack' = stack /\ LightCalls(stack[active])
      BY <2>1 DEF RankInv, ChainInv
    <2>2. CASE stack' # stack \/ ~LightCalls(stack[active])
      <3>1. \E r : /\ (r = Rest /\ ~Top("Promote")) \/ (r = stack[active] /\ LightCalls(r))
                   /\ \A t \in Thread : stack'[t] = [stack EXCEPT ![active] = k \o r][t] \/ stack'[t] = <<>>
        BY <2>2 DEF LightStack
      <3>2. TypeOK /\ ChainInv /\ k \in Seq(FrameType)
        BY DEF Good, RankInv, Tame
      <3>. QED BY <3>1, <3>2, LightStep
    <2>. QED BY <2>1, <2>2
  <1>2. NoTurn
    BY Frames DEF NoTurn, Topmost, Top
  <1>3. ChainInv' /\ NoTurn'
    BY <1>1, LightChain DEF Good
  <1>. QED BY <1>2, <1>3, RanksStay DEF Good

\* A call that makes or ends calls of others, and no one waits who did not, or where they did not.
LEMMA CallsRanks ==
  ASSUME Good, Good', RankInv, UNCHANGED <<game, prio, base, owner, waitMutex, suspend>>,
         ~Top("Promote"), ~Top("Propagate"), ~Top("SleepThread"),
         \A t \in Thread : /\ state'[t] = "waiting" <=> state[t] = "waiting"
                           /\ state[t] = "waiting" => queue'[t] = queue[t]
                           /\ ~Terminated(t)' => ~Terminated(t),
         Steady => disabled' = 0,
         NEW k, Tame(k), LightCalls(k), LightStack(k)
  PROVE  RankInv'
  <1>1. SleepersCame /\ SleepersLeft
    BY DEF SleepersCame, SleepersLeft, Sleeps
  <1>2. \A t \in Thread : Ranks(t)' => Ranks(t)
    BY DEF Ranks
  <1>. QED BY <1>1, <1>2, StayRanks

\* The scheduler is called, its timers pumped and the switch returned from.
LEMMA SchedulerRanks ==
  ASSUME Good, Good', RankInv, UNCHANGED game,
         \/ TimersDue \/ PumpEnds \/ IdleEnds \/ Switched \/ Reschedule \/ YieldThread \/ Exited
         \/ DisableScheduler \/ EnableScheduler
  PROVE  RankInv'
  <1>1. /\ UNCHANGED <<game, prio, base, owner, waitMutex, suspend, state, queue>>
        /\ ~Top("Promote") /\ ~Top("Propagate") /\ ~Top("SleepThread")
    BY DEF TimersDue, PumpEnds, IdleEnds, Switched, Reschedule, YieldThread, Exited, prioVars, linkVars,
           mutexVars, lifeVars, fiberVars, DisableScheduler, EnableScheduler, Top, GuestCalls, GuestCode
  <1>2. Steady => disabled' = 0
    <2>1. DisableScheduler \/ EnableScheduler => "DisableScheduler" \in game.calls
      BY DEF DisableScheduler, EnableScheduler, GuestCalls
    <2>2. ~(DisableScheduler \/ EnableScheduler) => UNCHANGED disabled
      BY DEF TimersDue, PumpEnds, IdleEnds, Switched, Reschedule, YieldThread, Exited
    <2>. QED BY <2>1, <2>2 DEF Steady, RankInv, EarnInv
  <1>3. \E k : /\ Tame(k) /\ LightCalls(k)
               /\ \/ stack' = [stack EXCEPT ![active] = k \o Rest]
                  \/ stack' = stack /\ LightCalls(stack[active])
    <2>1. CASE TimersDue
      <3>1. PICK due \in SUBSET timers :
               stack' = [stack EXCEPT ![active] =
                            <<Frame("ProcessSleepTimers", due), Frame("Select", Arg)>> \o Rest]
        BY <2>1 DEF TimersDue, Continue
      <3>2. due \in SUBSET Thread /\ Arg \in BOOLEAN
        BY <2>1, TopFrame, FrameArgs DEF Good, TypeOK, TimersDue, Top, Arg, Selecting
      <3>3. /\ Tame(<<Frame("ProcessSleepTimers", due), Frame("Select", Arg)>>)
            /\ LightCalls(<<Frame("ProcessSleepTimers", due), Frame("Select", Arg)>>)
        BY <3>2, TameFrames, LightFrames
      <3>. QED BY <3>1, <3>3
    <2>2. CASE PumpEnds \/ Switched
      BY <2>2, TameFrames, LightFrames DEF PumpEnds, Switched, Return, Continue
    <2>3. CASE IdleEnds
      BY <2>3, TameFrames, LightFrames DEF IdleEnds, Continue
    <2>4. CASE Reschedule \/ YieldThread \/ Exited
      BY <2>4, TameFrames, LightFrames DEF Reschedule, YieldThread, Exited, Continue
    <2>5. CASE DisableScheduler \/ EnableScheduler
      <3>1. stack' = stack /\ GuestCode
        BY <2>5 DEF DisableScheduler, EnableScheduler, GuestCalls
      <3>. QED BY <3>1, TameFrames, LightFrames, LightRest DEF Good, RankInv
    <2>. QED BY <2>1, <2>2, <2>3, <2>4, <2>5
  <1>4. PICK k : /\ Tame(k) /\ LightCalls(k)
                 /\ \/ \A t \in Thread : stack'[t] = [stack EXCEPT ![active] = k \o Rest][t]
                    \/ stack' = stack /\ LightCalls(stack[active])
    BY <1>3
  <1>5. \A t \in Thread : Terminated(t)' <=> Terminated(t)
    BY <1>1 DEF Terminated
  <1>. QED BY <1>1, <1>2, <1>4, <1>5, CallsRanks DEF LightStack

\* SelectThread queues the running thread, and Pick runs another.
LEMMA SwitchRanks ==
  ASSUME Good, Good', RankInv, UNCHANGED game, SelectThread \/ Pick
  PROVE  RankInv'
  <1>1. /\ UNCHANGED <<game, prio, base, owner, waitMutex, suspend, disabled>>
        /\ ~Top("Promote") /\ ~Top("Propagate") /\ ~Top("SleepThread")
    BY DEF SelectThread, Pick, Top, prioVars, mutexVars
  <1>2. Steady => disabled' = 0
    BY <1>1 DEF RankInv, EarnInv
  <1>3. \A t \in Thread : /\ state'[t] = "waiting" <=> state[t] = "waiting"
                          /\ state[t] = "waiting" => queue'[t] = queue[t]
                          /\ ~Terminated(t)' => ~Terminated(t)
    <2>1. CASE SelectThread
      BY <2>1 DEF SelectThread, linkVars, Terminated, Good, TypeOK
    <2>2. CASE Pick
      <3>. DEFINE n == Head(q[RunQ(Min(pending))])
      <3>1. /\ ~Terminated(n) /\ n = active' /\ state' = [state EXCEPT ![n] = "running"]
            /\ queue' = [queue EXCEPT ![n] = None]
        BY <2>2 DEF Pick
      <3>2. state[n] # "waiting"
        <4>1. pending # {} /\ Picking
          BY <2>2, ModeOf DEF Pick, Top, Good, Picking
        <4>2. Min(pending) \in pending /\ pending \subseteq Priority /\ pending \subseteq Nat
          BY <4>1, LeastNatural, PriorityFacts DEF Good, TypeOK
        <4>. DEFINE p == Min(pending)
        <4>3. p \in Priority /\ q[RunQ(p)] # <<>> /\ q[RunQ(p)] \in Seq(Thread)
          BY <4>2, Addresses DEF Good, QueueInv, Queues
        <4>4. n = Head(q[RunQ(p)])
          OBVIOUS
        <4>. HIDE DEF p, n
        <4>5. n \in Range(q[RunQ(p)]) /\ n \in Thread
          <5>1. 1 \in DOMAIN q[RunQ(p)] /\ Head(q[RunQ(p)]) = q[RunQ(p)][1]
            BY <4>3, EmptySeq, LenProperties
          <5>. QED BY <4>3, <4>4, <5>1, HeadTail DEF Range
        <4>6. Home[n] = RunQ(p)
          <5>1. RunQ(p) \in Queue
            BY <4>3, Addresses
          <5>. HIDE DEF Home
          <5>. QED BY <4>5, <5>1 DEF Good, QueueInv, Queues
        <4>. QED BY <4>3, <4>5, <4>6, Addresses DEF Home, Good, QueueInv
      <3>. HIDE DEF n
      <3>. QED BY <3>1, <3>2 DEF Terminated, Good, TypeOK
    <2>. QED BY <2>1, <2>2
  <1>4. \E k : /\ Tame(k) /\ LightCalls(k)
               /\ \A t \in Thread : stack'[t] = [stack EXCEPT ![active] = k \o Rest][t] \/ stack'[t] = <<>>
    <2>1. CASE SelectThread
      <3>1. PICK k : Tame(k) /\ LightCalls(k) /\ stack' = [stack EXCEPT ![active] = k \o Rest]
        BY <2>1, TameFrames, LightFrames DEF SelectThread, Return, Continue
      <3>. QED BY <3>1
    <2>2. CASE Pick
      <3>1. <<>> \o Rest = Rest /\ curGuest \in Thread \cup {None} /\ stack \in [Thread -> Seq(FrameType)]
        BY TopFrame, ConcatEmptySeq DEF Good, TypeOK
      <3>2. \/ stack' = [stack EXCEPT ![active] = <<>>]
            \/ stack' = [stack EXCEPT ![active] = <<>> \o Rest]
            \/ stack' = [stack EXCEPT ![active] = <<Frame("Switched", curGuest)>> \o Rest]
        BY <2>2, <3>1 DEF Pick
      <3>3. CASE stack' = [stack EXCEPT ![active] = <<>>]
        <4>1. \A t \in Thread : stack'[t] = [stack EXCEPT ![active] = <<>> \o Rest][t] \/ stack'[t] = <<>>
          BY <3>1, <3>3
        <4>. QED BY <4>1, TameFrames, LightFrames
      <3>4. CASE stack' # [stack EXCEPT ![active] = <<>>]
        BY <3>1, <3>2, <3>4, TameFrames, LightFrames
      <3>. QED BY <3>3, <3>4
    <2>. QED BY <2>1, <2>2
  <1>. QED BY <1>1, <1>2, <1>3, <1>4, CallsRanks DEF LightStack

\* A timer goes off.
LEMMA FireRanks ==
  ASSUME Good, Good', RankInv, UNCHANGED game, NEW t \in Thread, PumpTimer(t) \/ IdleTimer(t)
  PROVE  RankInv'
  <1>1. /\ UNCHANGED <<game, prio, base, owner, waitMutex, suspend, state, queue, disabled>>
        /\ Top("ProcessSleepTimers") \/ Top("Idle")
        /\ ~Top("Promote") /\ ~Top("Propagate") /\ ~Top("SleepThread")
    BY DEF PumpTimer, IdleTimer, FireSleepTimer, Top, prioVars, linkVars, mutexVars
  <1>2. LightCalls(stack[active])
    BY <1>1, LightRest DEF Good, RankInv, Top, Light
  <1>3. \E k : /\ Tame(k) /\ LightCalls(k)
               /\ \/ stack' = stack
                  \/ stack' = [stack EXCEPT ![active] = k \o stack[active]]
    BY TameFrames, LightFrames DEF PumpTimer, IdleTimer, FireSleepTimer, Continue
  <1>4. Steady => disabled' = 0
    BY <1>1 DEF RankInv, EarnInv
  <1>5. \A u \in Thread : Terminated(u)' <=> Terminated(u)
    BY <1>1 DEF Terminated
  <1>. QED BY <1>1, <1>2, <1>3, <1>4, <1>5, CallsRanks DEF LightStack

\* Who is woken slept on nobody's mutex, and the others sleep on.
LEMMA WakeSleepers ==
  ASSUME Good, NEW x \in BlockQueues, Wake(x), UNCHANGED <<owner, waitMutex>>,
         \A m \in Mutex : x = MutexQ(m) => owner[m] = None
  PROVE  SleepersCame /\ SleepersLeft /\ SameEnded
  <1>1. LinksKept /\ SameEnded
    BY WakeKeeps DEF Good, LifeInv
  <1>2. SleepersCame
    BY <1>1 DEF LinksKept, SleepersCame, Sleeps
  <1>3. SleepersLeft
    <2>. SUFFICES ASSUME NEW m \in Mutex, NEW t \in Thread, NEW u \in Thread,
                         Sleeps(t, m), owner[m] = u
                  PROVE  Sleeps(t, m)'
      BY DEF SleepersLeft
    <2>1. x # MutexQ(m) /\ x \in Queue
      BY ConstantsAssumption, Addresses
    <2>2. Home[t] = MutexQ(m)
      BY HomeFacts DEF Sleeps, Good
    <2>3. t \notin Range(q[x])
      <3>. HIDE DEF Home
      <3>. QED BY <2>1, <2>2 DEF Good, QueueInv, Queues
    <2>4. t \notin Range(Popped(x)) /\ Range(Awake(x)) \subseteq Wakes(x)
      BY <2>1, <2>3, PoppedFrom DEF Good, TypeOK
    <2>5. t \notin Wakes(x)
      BY <2>4 DEF Wakes
    <2>6. state'[t] = state[t]
      BY <2>5 DEF Wake, WokenStates
    <2>7. queue'[t] = queue[t]
      BY <2>4, <2>5 DEF Wake, WakeLinks
    <2>. QED BY <2>6, <2>7 DEF Sleeps
  <1>. QED BY <1>1, <1>2, <1>3

\* Interrupts and OSWakeupThread wake the threads of a queue.
LEMMA WakeRanks ==
  ASSUME Good, Good', RankInv, UNCHANGED game, NEW x \in BlockQueues,
         \/ \E w \in WaitQueue : x = WaitQ(w) /\ (IdleInterrupt(w) \/ Interrupt(w))
         \/ WakeupThread(x)
  PROVE  RankInv'
  <1>1. /\ UNCHANGED <<game, prio, base, owner, waitMutex, suspend, disabled>> /\ Wake(x)
        /\ ~Top("Promote") /\ ~Top("Propagate") /\ ~Top("SleepThread")
    BY DEF IdleInterrupt, Interrupt, WakeupThread, prioVars, mutexVars, Top, GuestCalls, GuestCode,
           Called
  <1>2. Steady => disabled' = 0
    BY <1>1 DEF RankInv, EarnInv
  <1>3. \A m \in Mutex : x = MutexQ(m) => owner[m] = None
    <2>. SUFFICES ASSUME NEW m \in Mutex, x = MutexQ(m) PROVE owner[m] = None
      OBVIOUS
    <2>1. ~\E w \in WaitQueue : x = WaitQ(w)
      BY DEF MutexQ, WaitQ
    <2>2. WakeupThread(x) /\ x[1] # "wait"
      BY <2>1 DEF MutexQ
    <2>3. Top("WakeupThread") /\ Arg = x
      BY <2>2 DEF WakeupThread, Called, GuestCalls
    <2>4. Topmost(Frame("WakeupThread", MutexQ(m)))
      <3>1. stack[active] # <<>> /\ Head(stack[active]) \in FrameType
        BY <2>3, TopFrame DEF Top, Good
      <3>2. Head(stack[active]).call = "WakeupThread" /\ Head(stack[active]).arg = MutexQ(m)
        BY <2>3 DEF Top, Arg
      <3>. QED BY <3>1, <3>2 DEF Topmost, Frame, FrameType
    <2>. QED BY <2>4 DEF RankInv, ChainInv
  <1>4. SleepersCame /\ SleepersLeft /\ SameEnded
    BY <1>1, <1>3, WakeSleepers
  <1>5. \A t \in Thread : Ranks(t)' => Ranks(t)
    BY <1>1, <1>4 DEF Ranks, SameEnded
  <1>6. \A t \in Thread : state'[t] = "waiting" => state[t] = "waiting"
    BY <1>1, WakeKeeps DEF LinksKept, Good, LifeInv
  <1>7. \E k : Tame(k) /\ LightCalls(k) /\ LightStack(k)
    <2>1. CASE \E w \in WaitQueue : IdleInterrupt(w)
      <3>1. stack' = stack /\ Top("Idle")
        BY <2>1 DEF IdleInterrupt
      <3>2. LightCalls(stack[active])
        BY <3>1, LightRest DEF Good, RankInv, Top, Light
      <3>. QED BY <3>1, <3>2, TameFrames, LightFrames DEF LightStack
    <2>2. CASE \E w \in WaitQueue : Interrupt(w)
      BY <2>2, TameFrames, LightFrames DEF Interrupt, Continue, LightStack
    <2>3. CASE WakeupThread(x)
      BY <2>3, TameFrames, LightFrames DEF WakeupThread, Continue, LightStack
    <2>. QED BY <2>1, <2>2, <2>3
  <1>. QED BY <1>1, <1>2, <1>4, <1>5, <1>6, <1>7, StayRanks

\* The thread of a call that comes back from its sleep is the running one.
LEMMA BackAwake ==
  ASSUME Good, Top("Slept") \/ Top("TickWoken") \/ Top("LockMutex")
  PROVE  /\ state[active] = "running" /\ suspend[active] = 0 /\ active \in Thread
         /\ Top("TickWoken") => Arg = active
         /\ Top("Slept") \/ Top("LockMutex") => Arg[1] = active
  <1>1. Executing /\ PlainFrame(active, Head(stack[active]))
    BY ModeOf DEF Good, Top, Quiet, Selecting
  <1>. QED BY <1>1 DEF PlainFrame, Executing, Top, Arg, Good, TypeOK, FiberInv

\* OSSleepThread and OSSleepTicks after their sleep.
LEMMA BackRanks ==
  ASSUME Good, Good', RankInv, UNCHANGED game, NEW t \in Thread,
         (\E x \in BlockQueues : Slept(t, x)) \/ TickWoken(t)
  PROVE  RankInv'
  <1>1. /\ UNCHANGED <<game, prio, base, owner, waitMutex, disabled>>
        /\ Top("Slept") \/ Top("TickWoken")
        /\ ~Top("Promote") /\ ~Top("Propagate") /\ ~Top("SleepThread")
    BY DEF Slept, TickWoken, prioVars, mutexVars, Top
  <1>2. t = active /\ state[t] = "running" /\ suspend[t] = 0
    <2>1. Slept(t, queue[t]) \/ TickWoken(t) \/ \E x : Slept(t, x)
      OBVIOUS
    <2>2. (Top("TickWoken") /\ Arg = t) \/ (Top("Slept") /\ Arg[1] = t)
      BY <2>1 DEF Slept, TickWoken
    <2>. QED BY <2>2, BackAwake
  <1>3. UNCHANGED <<state, suspend, queue>>
    BY <1>2 DEF Slept, TickWoken, linkVars
  <1>4. stack' = [stack EXCEPT ![active] = <<>> \o Rest]
    BY DEF Slept, TickWoken, Return, Continue
  <1>5. LightStack(<<>>) /\ Tame(<<>>) /\ LightCalls(<<>>)
    BY <1>4, TameFrames, LightFrames DEF LightStack
  <1>6. Steady => disabled' = 0
    BY <1>1 DEF RankInv, EarnInv
  <1>. QED BY <1>1, <1>3, <1>5, <1>6, CallsRanks DEF Terminated

\* OSJoinThread after its sleep, and OSDetachThread.
LEMMA ReapRanks ==
  ASSUME Good, Good', RankInv, UNCHANGED game, NEW t \in Thread, Joined(t) \/ DetachThread(t)
  PROVE  RankInv'
  <1>1. /\ UNCHANGED <<game, prio, base, owner, waitMutex, suspend, queue, disabled>>
        /\ ~Top("Promote") /\ ~Top("Propagate") /\ ~Top("SleepThread")
    BY DEF Joined, DetachThread, prioVars, mutexVars, linkVars, Top, GuestCalls, GuestCode
  <1>2. \A u \in Thread : \/ state'[u] = state[u]
                          \/ state[u] = "moribund" /\ state'[u] = "none"
    BY DEF Joined, DetachThread, Reap, Good, TypeOK
  <1>3. \E k : Tame(k) /\ LightCalls(k) /\ LightStack(k)
    <2>1. JoinQ(t) \in BlockQueues /\ JoinQ(t) \notin {MutexQ(m) : m \in Mutex}
      BY Addresses
    <2>. QED BY <2>1, TameFrames, LightFrames DEF Joined, DetachThread, Return, Continue, LightStack
  <1>4. Steady => disabled' = 0
    BY <1>1 DEF RankInv, EarnInv
  <1>. QED BY <1>1, <1>2, <1>3, <1>4, CallsRanks DEF Terminated

\* The order of the calls when one is made that is not light.
LEMMA TopChain ==
  ASSUME TypeOK', NEW f \in FrameType, NEW r \in Seq(FrameType), stack'[active'] = <<f>> \o r,
         \A t \in Thread \ {active'} : LightCalls(stack'[t])
  PROVE  /\ stack'[active'] # <<>> /\ Head(stack'[active']) = f /\ Rest' = r
         /\ /\ LightCalls(r) /\ f.call # "Promote"
            /\ f.call = "Propagate" => r # <<>> /\ Head(r) = IfResched
            /\ \A m \in Mutex : f = Frame("SleepThread", MutexQ(m)) => waitMutex'[active'] = m
            /\ \A m \in Mutex : f = Frame("WakeupThread", MutexQ(m)) => owner'[m] = None
            => ChainInv'
         /\ /\ f.call \notin {"Promote", "Propagate"}
            /\ \A m \in Mutex : f # Frame("SleepThread", MutexQ(m))
            => NoTurn'
  <1>1. stack'[active'] # <<>> /\ Head(stack'[active']) = f /\ Rest' = r
    BY ConsSeq DEF Rest
  <1>2. /\ \A c : Top(c)' <=> f.call = c
        /\ \A g : Topmost(g)' <=> f = g
    BY <1>1 DEF Top, Topmost
  <1>. QED BY <1>1, <1>2, Frames DEF ChainInv, NoTurn

\* A light call on a stack of light calls.
LEMMA LightCons ==
  ASSUME NEW f \in FrameType, NEW r \in Seq(FrameType), Light(f), LightCalls(r)
  PROVE  <<f>> \o r \in Seq(FrameType) /\ LightCalls(<<f>> \o r)
  <1>1. <<f>> \in Seq(FrameType) /\ Range(<<f>>) = {f}
    BY RangeShort
  <1>2. Range(<<f>> \o r) = {f} \cup Range(r)
    BY <1>1, RangeConcat
  <1>. QED BY <1>1, <1>2 DEF LightCalls

\* Calls under such a one stay light.
LEMMA OthersLight ==
  ASSUME TypeOK, ChainInv, UNCHANGED active, NEW s, stack' = [stack EXCEPT ![active] = s]
  PROVE  /\ stack'[active'] = s /\ active \in Thread
         /\ \A t \in Thread \ {active'} : LightCalls(stack'[t])
  BY DEF TypeOK, ChainInv

\* OSJoinThread reaps, or goes to sleep on the joiners of a thread.
LEMMA JoinRanks ==
  ASSUME Good, Good', RankInv, UNCHANGED game, NEW t \in Thread, JoinThread(t)
  PROVE  RankInv'
  <1>1. /\ UNCHANGED <<game, prio, base, owner, waitMutex, suspend, queue, disabled, active>>
        /\ ~Top("Promote") /\ ~Top("Propagate") /\ ~Top("SleepThread") /\ GuestCode
    BY DEF JoinThread, prioVars, mutexVars, linkVars, fiberVars, Top, GuestCalls, GuestCode
  <1>2. Steady => disabled' = 0
    BY <1>1 DEF RankInv, EarnInv
  <1>3. \A u \in Thread : \/ state'[u] = state[u]
                          \/ state[u] = "moribund" /\ state'[u] = "none"
    BY DEF JoinThread, Reap, Good, TypeOK
  <1>4. CASE UNCHANGED stack
    <2>1. LightStack(<<>>) /\ Tame(<<>>) /\ LightCalls(<<>>)
      BY <1>1, <1>4, LightRest, TameFrames, LightFrames DEF LightStack, Good, RankInv
    <2>. QED BY <1>1, <1>2, <1>3, <2>1, CallsRanks DEF Terminated
  <1>5. CASE Continue(<<Frame("SleepThread", JoinQ(t)), Frame("Joined", t)>>, Rest)
    <2>. DEFINE f == Frame("SleepThread", JoinQ(t))
                g == Frame("Joined", t)
    <2>1. /\ f \in FrameType /\ g \in FrameType /\ f.call = "SleepThread" /\ Light(g)
          /\ \A m \in Mutex : f # Frame("SleepThread", MutexQ(m))
      <3>1. JoinQ(t) \in BlockQueues /\ \A m \in Mutex : JoinQ(t) # MutexQ(m)
        BY Addresses
      <3>2. Light(g)
        BY Frames DEF Light
      <3>3. f \in FrameType /\ g \in FrameType /\ f.call = "SleepThread" /\ f.arg = JoinQ(t)
        BY <3>1, Frames
      <3>4. \A x : Frame("SleepThread", x).arg = x
        BY Frames
      <3>. QED BY <3>1, <3>2, <3>3, <3>4
    <2>2. stack' = [stack EXCEPT ![active] = <<f, g>> \o Rest]
      BY <1>5 DEF Continue
    <2>3. TypeOK /\ TypeOK' /\ ChainInv /\ Rest \in Seq(FrameType) /\ LightCalls(Rest)
      BY <1>1, TopFrame, LightRest DEF Good, RankInv
    <2>. HIDE DEF f, g
    <2>4. /\ <<f, g>> \o Rest = <<f>> \o (<<g>> \o Rest)
          /\ <<g>> \o Rest \in Seq(FrameType) /\ LightCalls(<<g>> \o Rest)
      BY <2>1, <2>3, Pushes, LightCons
    <2>5. /\ stack'[active'] = <<f>> \o (<<g>> \o Rest)
          /\ \A u \in Thread \ {active'} : LightCalls(stack'[u])
      BY <1>1, <2>2, <2>3, <2>4, OthersLight
    <2>9. f.call \notin {"Promote", "Propagate", "WakeupThread"}
      BY <2>1
    <2>10. \A m \in Mutex : f # Frame("WakeupThread", MutexQ(m))
      BY <2>9, Frames
    <2>11. ChainInv' /\ NoTurn'
      BY <2>1, <2>3, <2>4, <2>5, <2>9, <2>10, TopChain
    <2>6. NoTurn
      BY <1>1 DEF NoTurn, Topmost, GuestCode, Top
    <2>7. SleepersCame /\ SleepersLeft
      BY <1>1, <1>3 DEF SleepersCame, SleepersLeft, Sleeps
    <2>8. \A u \in Thread : Ranks(u)' => Ranks(u)
      BY <1>1, <1>3 DEF Ranks, Terminated
    <2>. QED BY <1>1, <1>2, <1>3, <2>3, <2>11, <2>6, <2>7, <2>8, RanksStay
  <1>. QED BY <1>4, <1>5 DEF JoinThread

\* Arming a timer makes no call of another thread one that is not light.
LEMMA NotDueLight ==
  ASSUME NEW s \in Seq(FrameType), NEW t \in Thread, LightCalls(s)
  PROVE  LightCalls(NotDue(s, t))
  <1>. DEFINE n == NotDue(s, t)
  <1>1. /\ DOMAIN n = DOMAIN s
        /\ \A i \in DOMAIN s : n[i].call = s[i].call
                               /\ (s[i].call # "ProcessSleepTimers" => n[i] = s[i])
    BY DEF NotDue, Frame
  <1>. HIDE DEF n
  <1>2. \A i \in DOMAIN s : Light(s[i])
    BY DEF LightCalls, Range
  <1>3. \A i \in DOMAIN n : Light(n[i])
    BY <1>1, <1>2 DEF Light
  <1>4. LightCalls(n)
    BY <1>3 DEF LightCalls, Range
  <1>. QED BY <1>4 DEF n

\* OSSleepTicks goes on to suspend its thread.
LEMMA SleepTicksRanks ==
  ASSUME Good, Good', RankInv, UNCHANGED game, NEW t \in Thread, SleepTicks(t)
  PROVE  RankInv'
  <1>1. /\ UNCHANGED <<game, prio, base, owner, waitMutex, suspend, queue, state, disabled>>
        /\ ~Top("Promote") /\ ~Top("Propagate") /\ ~Top("SleepThread") /\ GuestCode
    BY DEF SleepTicks, prioVars, mutexVars, linkVars, fiberVars, Top, GuestCalls, GuestCode
  <1>2. Steady => disabled' = 0
    BY <1>1 DEF RankInv, EarnInv
  <1>3. \A u \in Thread : LightCalls(stack'[u])
    <2>1. LightCalls(<<Frame("SuspendThread", t), Frame("TickWoken", t)>>)
      BY LightFrames
    <2>2. \A u \in Thread : stack[u] \in Seq(FrameType) /\ LightCalls(stack[u])
      BY <1>1, LightRest DEF Good, RankInv, TypeOK, ChainInv
    <2>3. \A u \in Thread : stack'[u] = IF u = active
                                        THEN <<Frame("SuspendThread", t), Frame("TickWoken", t)>>
                                        ELSE NotDue(stack[u], t)
      BY DEF SleepTicks
    <2>. QED BY <2>1, <2>2, <2>3, NotDueLight
  <1>4. ChainInv' /\ NoTurn'
    BY <1>3, LightChain DEF Good
  <1>5. NoTurn
    BY <1>1 DEF NoTurn, Topmost, GuestCode, Top
  <1>6. SleepersCame /\ SleepersLeft
    BY <1>1 DEF SleepersCame, SleepersLeft, Sleeps
  <1>7. \A u \in Thread : Ranks(u)' => Ranks(u)
    BY <1>1 DEF Ranks, Terminated
  <1>. QED BY <1>1, <1>2, <1>4, <1>5, <1>6, <1>7, RanksStay DEF Good

\* OSExitThread and OSCancelThread end a thread, and leave the rest to their calls.
LEMMA EndRanks ==
  ASSUME Good, Good', RankInv, UNCHANGED game, NEW t \in Thread,
         (ExitThread /\ t = running) \/ CancelThread(t)
  PROVE  RankInv'
  <1>1. /\ UNCHANGED <<game, prio, base, owner, waitMutex, suspend, disabled>>
        /\ ~Top("Promote") /\ ~Top("Propagate") /\ ~Top("SleepThread") /\ GuestCode
    BY DEF ExitThread, CancelThread, prioVars, mutexVars, Top, GuestCalls, GuestCode
  <1>2. Steady => disabled' = 0
    BY <1>1 DEF RankInv, EarnInv
  <1>3. PICK h \in {Frame("Exited", None), IfResched} : Terminate(t, <<h>>)
    BY DEF ExitThread, CancelThread
  <1>4. /\ state' = [state EXCEPT ![t] = IF detached[t] THEN "none" ELSE "moribund"]
        /\ \A u \in Thread : stack'[u] = IF u = active THEN (EndCalls(t) \o <<h>>) \o Rest
                                         ELSE IF u = t THEN <<>> ELSE stack[u]
    BY <1>3 DEF Terminate
  <1>. DEFINE k == EndCalls(t) \o <<h>>
  <1>5. Tame(k) /\ LightCalls(k)
    BY TameFrames, LightFrames
  <1>. HIDE DEF k
  <1>6. LightStack(k)
    BY <1>4 DEF LightStack, Good, TypeOK, k
  <1>7. \A u \in Thread : /\ u # t => state'[u] = state[u] /\ queue'[u] = queue[u]
                          /\ u = t => Terminated(u)' /\ state'[u] # "waiting"
    <2>1. \A u \in Thread \ {t} : queue'[u] = queue[u]
      BY DEF ExitThread, CancelThread, linkVars, Unlink, Good, TypeOK
    <2>. QED BY <1>4, <2>1 DEF Good, TypeOK, Terminated
  <1>8. SleepersCame
    BY <1>1, <1>7 DEF SleepersCame, Sleeps
  <1>9. Steady => SleepersLeft
    <2>1. CASE CancelThread(t)
      BY <2>1 DEF CancelThread, GuestCalls, Steady
    <2>2. CASE ExitThread /\ t = running
      <3>1. state[t] = "running"
        BY <1>1, <2>2, ModeOf DEF Good, Executing
      <3>. QED BY <1>1, <1>7, <3>1 DEF SleepersLeft, Sleeps
    <2>. QED BY <2>1, <2>2
  <1>10. \A u \in Thread : Ranks(u)' => Ranks(u)
    BY <1>1, <1>7 DEF Ranks, Terminated
  <1>11. \A u \in Thread : state'[u] = "waiting" => state[u] = "waiting"
    BY <1>7
  <1>. QED BY <1>1, <1>2, <1>5, <1>6, <1>8, <1>9, <1>10, <1>11, StayRanks

\* Unless a game cancels threads, only a thread that has ended unlocks all of its mutexes.
EndsInv ==
    "CancelThread" \notin game.calls =>
        \A t \in Thread : \A f \in Range(stack[t]) :
            f.call = "UnlockAll" => f.arg = t /\ Terminated(t)

\* Who sleeps on a mutex is in its queue.
LEMMA SleeperLinked ==
  ASSUME TypeOK, QueueInv, NEW m \in Mutex
  PROVE  /\ \A t \in Thread : Sleeps(t, m) => t \in Range(q[MutexQ(m)])
         /\ \A t \in Range(q[MutexQ(m)]) : t \in Thread /\ Sleeps(t, m)
  <1>1. MutexQ(m) \in Queue \ JoinQueues /\ MutexQ(m) \in BlockQueues /\ MutexQ(m) # None
    BY Addresses, QueueAssumption
  <1>2. ASSUME NEW t \in Thread, Sleeps(t, m) PROVE t \in Range(q[MutexQ(m)])
    <2>1. Home[t] = MutexQ(m)
      BY <1>2, HomeFacts DEF Sleeps
    <2>. HIDE DEF Home
    <2>. QED BY <1>1, <2>1 DEF QueueInv, Queues
  <1>3. ASSUME NEW t \in Range(q[MutexQ(m)]) PROVE t \in Thread /\ Sleeps(t, m)
    <2>1. t \in Thread
      BY <1>1, LenProperties DEF TypeOK, Range
    <2>2. Home[t] = MutexQ(m)
      <3>. HIDE DEF Home
      <3>. QED BY <1>1 DEF QueueInv, Queues
    <2>3. state[t] = "ready" /\ suspend[t] = 0 => Home[t] = RunQ(prio[t]) /\ prio[t] \in Priority
      BY <2>1, HomeFacts
    <2>4. \A p \in Priority : RunQ(p) # MutexQ(m)
      BY Addresses
    <2>5. state[t] = "waiting"
      BY <1>1, <2>1, <2>2, <2>3, <2>4, HomeFacts
    <2>6. Home[t] = queue[t]
      BY <2>1, <2>5, HomeFacts
    <2>. HIDE DEF Home
    <2>. QED BY <2>1, <2>2, <2>5, <2>6 DEF Sleeps
  <1>. QED BY <1>2, <1>3

\* The mutexes of a thread that has ended are free again.
LEMMA UnlockAllRanks ==
  ASSUME Good, Good', LockInv, EndsInv, RankInv, UNCHANGED game, NEW t \in Thread, UnlockAll(t)
  PROVE  RankInv'
  <1>1. /\ UNCHANGED <<game, prio, base, waitMutex, suspend, state, queue, disabled, active>>
        /\ Top("UnlockAll") /\ Arg = t
        /\ ~Top("Promote") /\ ~Top("Propagate") /\ ~Top("SleepThread")
    BY DEF UnlockAll, prioVars, linkVars, fiberVars, Top
  <1>2. Steady => disabled' = 0
    BY <1>1 DEF RankInv, EarnInv
  <1>3. CASE held[t] = <<>>
    <2>1. UNCHANGED owner /\ stack' = [stack EXCEPT ![active] = <<>> \o Rest]
      BY <1>3 DEF UnlockAll, Return, Continue, mutexVars
    <2>2. LightStack(<<>>) /\ Tame(<<>>) /\ LightCalls(<<>>)
      BY <2>1, TameFrames, LightFrames DEF LightStack
    <2>. QED BY <1>1, <1>2, <2>1, <2>2, CallsRanks DEF Terminated
  <1>4. CASE held[t] # <<>>
    <2>. DEFINE m == Head(held[t])
                f == Frame("WakeupThread", MutexQ(m))
                s == stack[active]
    <2>1. /\ owner' = [owner EXCEPT ![m] = None]
          /\ stack' = [stack EXCEPT ![active] = <<f>> \o s]
      BY <1>4 DEF UnlockAll, Continue
    <2>2. m \in Mutex /\ owner[m] = t
      <3>1. held[t] \in Seq(Mutex)
        BY DEF Good, TypeOK
      <3>2. 1 \in DOMAIN held[t] /\ m = held[t][1] /\ m \in Mutex
        BY <1>4, <3>1, HeadTail, EmptySeq, LenProperties
      <3>3. m \in Range(held[t])
        BY <3>2 DEF Range
      <3>. HIDE DEF m
      <3>. QED BY <3>2, <3>3 DEF LockInv, HeldInv
    <2>3. f \in FrameType /\ f.call = "WakeupThread"
      BY <2>2, Frames, Addresses
    <2>4. s \in Seq(FrameType) /\ LightCalls(s) /\ active \in Thread
      BY <1>1, LightRest DEF Good, RankInv, TypeOK, Top, Light
    <2>. HIDE DEF m, s
    <2>5. owner' \in [Mutex -> Thread \cup {None}] /\ owner'[m] = None
          /\ \A n \in Mutex \ {m} : owner'[n] = owner[n]
      BY <2>1, <2>2 DEF Good, TypeOK
    <2>6. ChainInv' /\ NoTurn'
      <3>1. \A n \in Mutex : f = Frame("WakeupThread", MutexQ(n)) => owner'[n] = None
        BY <2>5, Frames, Addresses
      <3>2. \A n : f # Frame("SleepThread", MutexQ(n))
        BY <2>3, Frames
      <3>. HIDE DEF f
      <3>3. /\ stack'[active'] = <<f>> \o s
            /\ \A u \in Thread \ {active'} : LightCalls(stack'[u])
        BY <1>1, <2>1, OthersLight DEF Good, RankInv
      <3>. QED BY <2>3, <2>4, <3>1, <3>2, <3>3, TopChain DEF Good
    <2>7. NoTurn
      BY <1>1, Frames DEF NoTurn, Topmost, Top
    <2>8. SleepersCame
      BY <1>1, <2>5 DEF SleepersCame, Sleeps
    <2>9. Steady => SleepersLeft
      <3>1. Steady => Terminated(t)
        <4>1. Head(s) \in Range(s) /\ Head(s).call = "UnlockAll" /\ Head(s).arg = t
          BY <1>1, RangeTop DEF Good, Top, Arg, s
        <4>. QED BY <2>4, <4>1 DEF EndsInv, Steady, s
      <3>2. Steady => ~Ranks(t)'
        BY <1>1, <3>1 DEF Ranks, Terminated
      <3>. QED BY <1>1, <2>2, <2>5, <3>2 DEF SleepersLeft, Sleeps
    <2>10. \A u \in Thread : Ranks(u)' => Ranks(u)
      BY <1>1 DEF Ranks, Terminated
    <2>. QED BY <1>1, <1>2, <2>6, <2>7, <2>8, <2>9, <2>10, RanksStay DEF Good
  <1>. QED BY <1>3, <1>4

\* The thread of OSLockMutex is the running one.
LEMMA LockerRuns ==
  ASSUME Good, NEW t \in Thread, NEW m \in Mutex, LockMutex(t, m)
  PROVE  t = active /\ state[active] = "running" /\ suspend[active] = 0
  <1>1. CASE GuestCalls("LockMutex") /\ running = t
    <2>1. Executing
      BY <1>1, ModeOf DEF Good, GuestCalls
    <2>. QED BY <1>1, <2>1 DEF Executing, Good, FiberInv, TypeOK
  <1>2. CASE Top("LockMutex") /\ Arg = <<t, m>>
    BY <1>2, BackAwake
  <1>. QED BY <1>1, <1>2 DEF LockMutex

\* A mutex that is taken, or taken again, has no waiters that its owner did not have.
LEMMA TakeRanks ==
  ASSUME Good, Good', LockInv, RankInv, UNCHANGED game, NEW t \in Thread, NEW m \in Mutex,
         LockMutex(t, m), owner[m] \in {None, t}
  PROVE  RankInv'
  <1>1. /\ UNCHANGED <<game, prio, base, suspend, state, queue, disabled, active>>
        /\ waitMutex' = [waitMutex EXCEPT ![t] = None]
        /\ stack' = [stack EXCEPT ![active] = <<>> \o Rest]
        /\ ~Top("Promote") /\ ~Top("Propagate") /\ ~Top("SleepThread") /\ ~Top("WakeupThread")
        /\ owner' = owner \/ (owner[m] = None /\ owner' = [owner EXCEPT ![m] = t])
    BY DEF LockMutex, prioVars, linkVars, fiberVars, Top, Return, Continue, GuestCalls, GuestCode
  <1>2. Steady => disabled' = 0
    BY <1>1 DEF RankInv, EarnInv
  <1>3. \A u \in Thread : owner[m] = None => ~Sleeps(u, m)
    <2>1. owner[m] = None => q[MutexQ(m)] = <<>>
      <3>1. ~Topmost(Frame("WakeupThread", MutexQ(m)))
        BY <1>1, Frames DEF Topmost, Top
      <3>. QED BY <3>1 DEF LockInv, FreeInv
    <2>. QED BY <2>1, SleeperLinked, RangeShort DEF Good
  <1>4. \A u \in Thread, n \in Mutex : Sleeps(u, n) => waitMutex'[u] = waitMutex[u]
    BY <1>1, LockerRuns DEF Sleeps, Good, TypeOK
  <1>5. \A n \in Mutex : \/ owner'[n] = owner[n]
                         \/ n = m /\ owner[m] = None
    BY <1>1 DEF Good, TypeOK
  <1>6. SleepersCame /\ SleepersLeft
    BY <1>1, <1>3, <1>4, <1>5, ConstantsAssumption DEF SleepersCame, SleepersLeft, Sleeps
  <1>7. \A u \in Thread : Ranks(u)' => Ranks(u)
    BY <1>1 DEF Ranks, Terminated
  <1>8. LightStack(<<>>) /\ Tame(<<>>) /\ LightCalls(<<>>)
    BY <1>1, TameFrames, LightFrames DEF LightStack
  <1>. QED BY <1>1, <1>2, <1>6, <1>7, <1>8, StayRanks

\* The active thread goes to sleep on m, after a turn that raises w if that is a thread.
LEMMA Promoted ==
  ASSUME TypeOK', NEW m \in Mutex, NEW r \in Seq(FrameType), LightCalls(r),
         NEW w \in Thread \cup {None}, waitMutex'[active'] = m,
         \A t \in Thread \ {active'} : LightCalls(stack'[t]),
         stack'[active'] = IF w = None THEN <<Frame("SleepThread", MutexQ(m))>> \o r
                           ELSE <<Frame("Promote", <<w, prio'[active']>>)>>
                                   \o (<<Frame("SleepThread", MutexQ(m))>> \o r)
  PROVE  /\ ChainInv'
         /\ \A u \in Thread : Promotes(u)' <=> u = w
         /\ \A n \in Mutex : Blocks(n)' <=> n = m
         /\ \A u : ~Topmost(Frame("Propagate", u))'
  <1>. DEFINE f == Frame("SleepThread", MutexQ(m))
              p == prio'[active']
              g == Frame("Promote", <<w, p>>)
              s == stack'[active']
  <1>1. /\ f \in FrameType /\ f.call = "SleepThread"
        /\ \A n \in Mutex : f = Frame("SleepThread", MutexQ(n)) <=> n = m
    BY Frames, Addresses
  <1>2. \A c, a : Frame(c, a).call = c /\ Frame(c, a).arg = a
    BY Frames
  <1>3. CASE w = None
    <2>1. s = <<f>> \o r
      BY <1>3
    <2>. HIDE DEF f
    <2>2. s # <<>> /\ Head(s) = f
      <3>. HIDE DEF s
      <3>. QED BY <1>1, <2>1, ConsSeq
    <2>3. ChainInv'
      <3>1. \A n : f # Frame("WakeupThread", MutexQ(n))
        BY <1>1, <1>2
      <3>. QED BY <1>1, <2>1, <3>1, TopChain
    <2>4. \A u \in Thread : ~Promotes(u)' /\ u # w
      BY <1>1, <1>2, <1>3, <2>2, ConstantsAssumption DEF Promotes, Topmost
    <2>5. \A n \in Mutex : Blocks(n)' <=> n = m
      BY <1>1, <1>2, <2>2 DEF Blocks, Topmost, Top
    <2>6. \A u : ~Topmost(Frame("Propagate", u))'
      BY <1>1, <1>2, <2>2 DEF Topmost
    <2>. QED BY <2>3, <2>4, <2>5, <2>6
  <1>4. CASE w # None
    <2>1. w \in Thread /\ p \in AnyPriority /\ active' \in Thread
      BY <1>4 DEF TypeOK
    <2>2. g \in FrameType /\ g.call = "Promote" /\ g.arg = <<w, p>>
      BY <2>1, Frames
    <2>3. <<f>> \o r \in Seq(FrameType)
      BY <1>1, ConsSeq
    <2>4. s = <<g>> \o (<<f>> \o r)
      BY <1>4
    <2>5. s # <<>> /\ Head(s) = g /\ Rest' = <<f>> \o r
      <3>1. s # <<>> /\ Head(s) = g /\ Tail(s) = <<f>> \o r
        <4>. HIDE DEF f, g, s
        <4>. QED BY <2>2, <2>3, <2>4, ConsSeq
      <3>. QED BY <3>1 DEF Rest
    <2>6. Top("Promote")' /\ \A c : c # "Promote" => ~Top(c)'
      BY <2>2, <2>5 DEF Top
    <2>7. \A h : Topmost(h)' <=> h = g
      BY <2>5 DEF Topmost
    <2>8. ChainInv'
      <3>1. \A n \in Mutex : /\ ~Topmost(Frame("SleepThread", MutexQ(n)))'
                             /\ ~Topmost(Frame("WakeupThread", MutexQ(n)))'
        <4>. HIDE DEF g
        <4>1. \A n \in Mutex : /\ Frame("SleepThread", MutexQ(n)) # g
                               /\ Frame("WakeupThread", MutexQ(n)) # g
          BY <1>2, <2>2
        <4>. QED BY <2>7, <4>1
      <3>2. \E u \in Thread, n \in Mutex, k \in Seq(FrameType) :
               /\ stack'[active'] = <<Frame("Promote", <<u, prio'[active']>>)>>
                                        \o (<<Frame("SleepThread", MutexQ(n))>> \o k)
               /\ waitMutex'[active'] = n /\ LightCalls(k)
        BY <2>1, <2>4
      <3>. HIDE DEF g, f
      <3>. QED BY <2>6, <3>1, <3>2 DEF ChainInv
    <2>9. \A u \in Thread : Promotes(u)' <=> u = w
      <3>. HIDE DEF p
      <3>1. \A u : Frame("Promote", <<u, p>>) = g => u = w
        BY <1>2
      <3>. QED BY <2>7, <3>1 DEF Promotes, p
    <2>10. \A n \in Mutex : Blocks(n)' <=> n = m
      BY <1>2, <2>2, <2>6, <2>7 DEF Blocks
    <2>11. \A u : ~Topmost(Frame("Propagate", u))'
      BY <1>2, <2>2, <2>7
    <2>. QED BY <2>8, <2>9, <2>10, <2>11
  <1>. QED BY <1>3, <1>4

\* The same, when that is what it is at.
LEMMA PromotingNow ==
  ASSUME Good, RankInv, NEW t \in Thread, NEW p \in AnyPriority, Promote(t, p)
  PROVE  /\ p = prio[active]
         /\ \E m \in Mutex, r \in Seq(FrameType) :
               /\ Rest = <<Frame("SleepThread", MutexQ(m))>> \o r /\ LightCalls(r)
               /\ waitMutex[active] = m
               /\ \A u \in Thread : Promotes(u) <=> u = t
               /\ \A n \in Mutex : Blocks(n) <=> n = m
               /\ \A u : ~Topmost(Frame("Propagate", u))
  <1>1. Top("Promote") /\ Arg = <<t, p>>
    BY DEF Promote
  <1>2. PICK u \in Thread, m \in Mutex, r \in Seq(FrameType) :
               /\ stack[active] = <<Frame("Promote", <<u, prio[active]>>)>>
                                     \o (<<Frame("SleepThread", MutexQ(m))>> \o r)
               /\ waitMutex[active] = m /\ LightCalls(r)
    BY <1>1 DEF RankInv, ChainInv
  <1>. DEFINE f == Frame("SleepThread", MutexQ(m))
              g == Frame("Promote", <<u, prio[active]>>)
  <1>3. f \in FrameType /\ g \in FrameType /\ g.call = "Promote" /\ g.arg = <<u, prio[active]>>
    BY Frames, Addresses DEF Good, TypeOK
  <1>4. \A c, a : Frame(c, a).call = c /\ Frame(c, a).arg = a
    BY Frames
  <1>5. Head(stack[active]) = g /\ Rest = <<f>> \o r /\ stack[active] # <<>>
    <2>. HIDE DEF f, g
    <2>1. <<f>> \o r \in Seq(FrameType)
      BY <1>3, ConsSeq
    <2>2. stack[active] = <<g>> \o (<<f>> \o r)
      BY <1>2 DEF f, g
    <2>. QED BY <1>3, <2>1, <2>2, ConsSeq DEF Rest
  <1>6. u = t /\ p = prio[active]
    BY <1>1, <1>3, <1>5 DEF Arg
  <1>7. \A z \in Thread : Promotes(z) <=> z = t
    BY <1>3, <1>4, <1>5, <1>6 DEF Promotes, Topmost
  <1>8. \A n \in Mutex : Blocks(n) <=> n = m
    BY <1>1, <1>2, <1>3, <1>4, <1>5 DEF Blocks, Topmost
  <1>9. \A z : ~Topmost(Frame("Propagate", z))
    BY <1>3, <1>4, <1>5 DEF Topmost
  <1>. QED BY <1>2, <1>5, <1>6, <1>7, <1>8, <1>9

\* A thread that is to sleep on a mutex raises its owner first.
LEMMA BlockRanks ==
  ASSUME Good, Good', LockInv, RankInv, UNCHANGED game, NEW t \in Thread, NEW m \in Mutex,
         LockMutex(t, m), owner[m] \notin {None, t}
  PROVE  RankInv'
  <1>1. /\ UNCHANGED <<game, prio, base, owner, suspend, state, queue, disabled, active>>
        /\ waitMutex' = [waitMutex EXCEPT ![t] = m]
        /\ ~Top("Promote") /\ ~Top("Propagate") /\ ~Top("SleepThread")
        /\ stack' = [stack EXCEPT ![active] =
                        <<Frame("Promote", <<owner[m], prio[t]>>),
                          Frame("SleepThread", MutexQ(m)), Frame("LockMutex", <<t, m>>)>> \o Rest]
    BY DEF LockMutex, prioVars, linkVars, mutexVars, fiberVars, Top, Continue, GuestCalls, GuestCode
  <1>2. t = active /\ state[active] = "running"
    BY LockerRuns
  <1>3. TypeOK /\ TypeOK' /\ ChainInv /\ LightCalls(Rest) /\ Rest \in Seq(FrameType)
    BY <1>1, TopFrame, LightRest DEF Good, RankInv
  <1>. DEFINE w == owner[m]
              g == Frame("Promote", <<w, prio'[active']>>)
              f == Frame("SleepThread", MutexQ(m))
              l == Frame("LockMutex", <<t, m>>)
              r == <<l>> \o Rest
  <1>4. w \in Thread /\ waitMutex'[active'] = m
    BY <1>1, <1>2, <1>3 DEF TypeOK
  <1>5. /\ g \in FrameType /\ f \in FrameType /\ l \in FrameType /\ Light(l)
        /\ stack' = [stack EXCEPT ![active] = <<g, f, l>> \o Rest]
    <2>1. prio'[active'] \in AnyPriority /\ prio[t] = prio'[active']
      BY <1>1, <1>2, <1>3 DEF TypeOK
    <2>2. g \in FrameType /\ f \in FrameType /\ l \in FrameType
      BY <1>4, <2>1, Frames, Addresses
    <2>3. Light(l)
      BY Frames DEF Light
    <2>. QED BY <1>1, <2>1, <2>2, <2>3
  <1>6. r \in Seq(FrameType) /\ LightCalls(r) /\ <<g, f, l>> \o Rest = <<g>> \o (<<f>> \o r)
    <2>1. l \in FrameType /\ Light(l) /\ g \in FrameType /\ f \in FrameType
      BY <1>5
    <2>. HIDE DEF g, f, l
    <2>2. r \in Seq(FrameType) /\ LightCalls(r)
      BY <1>3, <2>1, LightCons
    <2>3. <<g, f, l>> \o Rest = <<g>> \o (<<f>> \o r)
      BY <1>3, <2>1, ThreeFrames
    <2>. QED BY <2>2, <2>3
  <1>7. /\ stack'[active'] = <<g>> \o (<<f>> \o r)
        /\ \A u \in Thread \ {active'} : LightCalls(stack'[u])
    <2>. HIDE DEF g, f, l, r
    <2>. QED BY <1>1, <1>3, <1>5, <1>6, OthersLight
  <1>8. /\ ChainInv'
        /\ \A u \in Thread : Promotes(u)' <=> u = w
        /\ \A n \in Mutex : Blocks(n)' <=> n = m
        /\ \A u : ~Topmost(Frame("Propagate", u))'
    <2>1. w # None /\ w \in Thread \cup {None}
      BY <1>4, ConstantsAssumption
    <2>. HIDE DEF r, w
    <2>. QED BY <1>3, <1>4, <1>6, <1>7, <2>1, Promoted
  <1>9. \A u : ~Topmost(Frame("Propagate", u)) /\ ~Promotes(u) /\ ~Blocked(u)
    BY <1>1, Frames DEF Topmost, Top, Promotes, Blocked, Blocks
  <1>10. /\ \A u \in Thread : Ranks(u)' <=> Ranks(u)
         /\ \A u \in Thread : \A n : Sleeps(u, n)' <=> Sleeps(u, n)
         /\ \A u \in Thread : Blocked(u)' <=> u = w
    BY <1>1, <1>8 DEF Ranks, Terminated, Sleeps, Blocked
  <1>11. AtMostInv'
    <2>. SUFFICES ASSUME NEW u \in Thread, Ranks(u) PROVE AtMost(u)'
      BY <1>10 DEF AtMostInv
    <2>1. AtMost(u)
      BY <1>9 DEF RankInv, AtMostInv
    <2>. QED BY <1>1, <1>8, <1>9, <1>10, <2>1 DEF AtMost
  <1>12. ASSUME Steady PROVE EarnInv'
    <2>1. ASSUME NEW u \in Thread, Ranks(u)' PROVE Earns(u, prio[u])'
      <3>1. Earns(u, prio[u])
        BY <1>9, <1>10, <1>12, <2>1 DEF RankInv, EarnInv
      <3>. QED BY <1>1, <1>9, <1>10, <3>1 DEF Earns
    <2>2. ASSUME NEW u \in Thread, Promotes(u)' PROVE Earns(u, prio[active])'
      <3>1. Blocked(u)' /\ prio'[active'] <= prio'[active']
        <4>1. prio'[active'] \in Nat
          BY <1>3, PriorityFacts DEF TypeOK
        <4>. QED BY <1>8, <1>10, <2>2, <4>1
      <3>. QED BY <3>1 DEF Earns
    <2>. QED BY <1>1, <1>12, <2>1, <2>2 DEF RankInv, EarnInv
  <1>13. SleepsInv'
    BY <1>1, <1>2, <1>3, <1>10 DEF RankInv, SleepsInv, Sleeps, TypeOK
  <1>14. Steady' <=> Steady
    BY <1>1 DEF Steady
  <1>. QED BY <1>8, <1>11, <1>12, <1>13, <1>14 DEF RankInv

\* A thread that is given a priority sleeps where it did.
LEMMA GivenPriority ==
  ASSUME TypeOK, QueueInv, NEW t \in Thread, NEW p \in AnyPriority,
         SetThreadEffectivePriority(t, p), UNCHANGED <<state, suspend>>
  PROVE  /\ \A u \in Thread : \A m : Sleeps(u, m)' <=> Sleeps(u, m)
         /\ Terminated(t) => prio' = prio
         /\ ~Terminated(t) => prio' = [prio EXCEPT ![t] = p]
  <1>1. UNCHANGED state
    OBVIOUS
  <1>2. CASE state[t] = "ready" /\ Relink(t, RunQ(p), p)
    BY <1>1, <1>2 DEF Relink, Sleeps, Terminated, TypeOK
  <1>3. CASE state[t] = "waiting" /\ Relink(t, queue[t], p)
    BY <1>1, <1>3 DEF Relink, Sleeps, Terminated, TypeOK
  <1>4. CASE UNCHANGED queue
    BY <1>1, <1>4 DEF Sleeps, SetThreadEffectivePriority, Relink, Terminated
  <1>. QED BY <1>2, <1>3, <1>4 DEF SetThreadEffectivePriority, linkVars

\* The owner of the mutex that t sleeps on is its next owner, and no other.
LEMMA OwnerNext ==
  ASSUME Good, LockInv, SleepsInv, NEW t \in Thread
  PROVE  /\ NextOwner(t) \in Thread \cup {None}
         /\ Terminated(t) => NextOwner(t) = None
         /\ \A m \in Mutex : Sleeps(t, m) => NextOwner(t) = owner[m]
         /\ NextOwner(t) # None => \E m \in Mutex : Sleeps(t, m) /\ owner[m] = NextOwner(t)
  <1>1. waitMutex[t] \in Mutex \cup {None} /\ None \notin Mutex
    BY ConstantsAssumption DEF Good, TypeOK
  <1>2. state[t] = "waiting" /\ waitMutex[t] # None => Sleeps(t, waitMutex[t])
    BY DEF LockInv, WaitInv, Sleeps, Terminated
  <1>3. \A m \in Mutex : Sleeps(t, m) => state[t] = "waiting" /\ waitMutex[t] = m
    BY DEF SleepsInv, Sleeps
  <1>. QED BY <1>1, <1>2, <1>3 DEF NextOwner, Terminated, Good, TypeOK

\* A turn of PromoteThreadPriority.
LEMMA PromoteRanks ==
  ASSUME Good, Good', LockInv, RankInv, UNCHANGED game, NEW t \in Thread, NEW p \in AnyPriority,
         Promote(t, p)
  PROVE  RankInv'
  <1>1. /\ UNCHANGED <<game, state, suspend, base, owner, waitMutex, disabled, active>>
        /\ TypeOK /\ TypeOK' /\ QueueInv /\ ChainInv /\ SleepsInv
    BY DEF Promote, mutexVars, fiberVars, Good, RankInv
  <1>2. PICK m \in Mutex, r \in Seq(FrameType) :
               /\ Rest = <<Frame("SleepThread", MutexQ(m))>> \o r /\ LightCalls(r)
               /\ waitMutex[active] = m
               /\ \A u \in Thread : Promotes(u) <=> u = t
               /\ \A n \in Mutex : Blocks(n) <=> n = m
               /\ \A u : ~Topmost(Frame("Propagate", u))
    BY PromotingNow
  <1>3. p = prio[active] /\ active \in Thread
    BY <1>1, PromotingNow DEF TypeOK
  <1>4. /\ prio \in [Thread -> Nat] /\ prio' \in [Thread -> Nat] /\ base \in [Thread -> Nat]
        /\ suspend \in [Thread -> Nat] /\ p \in Nat
    BY <1>1, PriorityFacts DEF TypeOK
  <1>. DEFINE stops == suspend[t] > 0 \/ prio[t] <= p
              w == IF stops THEN None ELSE NextOwner(t)
  <1>5. w \in Thread \cup {None}
    BY <1>1, OwnerNext
  <1>6. stack' = [stack EXCEPT ![active] = IF w = None THEN Rest ELSE <<Frame("Promote", <<w, p>>)>> \o Rest]
    <2>1. <<>> \o Rest = Rest
      BY <1>1, TopFrame, ConcatEmptySeq
    <2>2. \/ stops /\ stack' = [stack EXCEPT ![active] = <<>> \o Rest]
          \/ ~stops /\ stack' = [stack EXCEPT ![active] = (IF NextOwner(t) = None THEN <<>>
                                   ELSE <<Frame("Promote", <<NextOwner(t), p>>)>>) \o Rest]
      BY DEF Promote, Return, Continue
    <2>. QED BY <2>1, <2>2
  <1>7. /\ \A u \in Thread : \A n : Sleeps(u, n)' <=> Sleeps(u, n)
        /\ \/ prio' = prio /\ w = None /\ (stops \/ Terminated(t))
           \/ ~stops /\ ~Terminated(t) /\ prio' = [prio EXCEPT ![t] = p]
    <2>1. CASE stops
      BY <1>1, <2>1 DEF Promote, linkVars, Sleeps
    <2>2. CASE ~stops
      <3>1. SetThreadEffectivePriority(t, p)
        BY <2>2 DEF Promote
      <3>. QED BY <1>1, <2>2, <3>1, GivenPriority, OwnerNext
    <2>. QED BY <2>1, <2>2
  <1>8. /\ prio'[active'] = prio[active] /\ \A u \in Thread : prio'[u] <= prio[u]
        /\ \A u \in Thread \ {t} : prio'[u] = prio[u]
        /\ Ranks(t) => prio'[t] <= p
    <2>1. CASE prio' = prio /\ (stops \/ Terminated(t))
      BY <1>1, <1>4, <2>1 DEF Ranks
    <2>2. CASE ~stops /\ prio' = [prio EXCEPT ![t] = p]
      <3>1. prio[t] > p /\ t # active
        BY <1>3, <1>4, <2>2
      <3>2. /\ prio'[t] = p /\ \A u \in Thread \ {t} : prio'[u] = prio[u]
        BY <1>4, <2>2
      <3>. QED BY <1>1, <1>3, <1>4, <3>1, <3>2
    <2>. QED BY <1>7, <2>1, <2>2
  <1>9. /\ ChainInv'
        /\ \A u \in Thread : Promotes(u)' <=> u = w
        /\ \A n \in Mutex : Blocks(n)' <=> n = m
        /\ \A u : ~Topmost(Frame("Propagate", u))'
    <2>1. /\ stack'[active'] = IF w = None THEN Rest ELSE <<Frame("Promote", <<w, p>>)>> \o Rest
          /\ \A u \in Thread \ {active'} : LightCalls(stack'[u])
      BY <1>1, <1>6, OthersLight
    <2>2. stack'[active'] = IF w = None THEN <<Frame("SleepThread", MutexQ(m))>> \o r
                            ELSE <<Frame("Promote", <<w, prio'[active']>>)>>
                                   \o (<<Frame("SleepThread", MutexQ(m))>> \o r)
      BY <1>2, <1>3, <1>8, <2>1
    <2>. HIDE DEF w
    <2>. QED BY <1>1, <1>2, <1>5, <2>1, <2>2, Promoted
  <1>10. /\ \A u \in Thread : Ranks(u)' <=> Ranks(u)
         /\ \A u \in Thread : Blocked(u)' <=> Blocked(u)
    BY <1>1, <1>2, <1>9 DEF Ranks, Terminated, Blocked
  <1>11. ASSUME NEW n \in Mutex, NEW u \in Thread, Sleeps(t, n), owner[n] = u, prio'[t] # prio[t]
         PROVE  u = w
    BY <1>1, <1>7, <1>11, OwnerNext
  <1>12. AtMostInv'
    <2>. SUFFICES ASSUME NEW u \in Thread, Ranks(u) PROVE AtMost(u)'
      BY <1>10 DEF AtMostInv
    <2>1. AtMost(u)
      BY <1>2 DEF RankInv, AtMostInv
    <2>2. prio'[u] <= base'[u]
      BY <1>1, <1>4, <1>8, <2>1 DEF AtMost
    <2>3. Blocked(u)' => prio'[u] <= prio'[active'] \/ Promotes(u)'
      <3>1. Blocked(u) => prio[u] <= prio[active] \/ u = t
        BY <1>2, <2>1 DEF AtMost
      <3>. QED BY <1>3, <1>4, <1>8, <1>10, <3>1
    <2>4. ASSUME NEW n \in Mutex, NEW z \in Thread, owner[n] = u, Sleeps(z, n)
          PROVE  prio'[u] <= prio'[z] \/ (Promotes(u)' /\ prio'[active'] <= prio'[z])
      <3>1. prio[u] <= prio[z] \/ (u = t /\ p <= prio[z])
        BY <1>2, <1>3, <2>1, <2>4 DEF AtMost
      <3>2. CASE prio'[z] = prio[z]
        BY <1>4, <1>8, <3>1, <3>2
      <3>3. CASE prio'[z] # prio[z]
        <4>1. z = t /\ prio'[z] = p
          BY <1>8, <1>7, <1>4, <3>3
        <4>2. u = w
          BY <1>11, <2>4, <3>3, <4>1
        <4>. QED BY <1>3, <1>4, <1>8, <1>9, <4>1, <4>2
      <3>. QED BY <3>2, <3>3
    <2>. QED BY <1>1, <1>7, <2>2, <2>3, <2>4 DEF AtMost
  <1>13. ASSUME Steady PROVE EarnInv'
    <2>1. ASSUME NEW u \in Thread, NEW a \in Nat, Earns(u, a) PROVE Earns(u, a)'
      BY <1>1, <1>4, <1>7, <1>8, <1>10, <2>1 DEF Earns
    <2>2. ASSUME NEW u \in Thread, Ranks(u)' PROVE Earns(u, prio[u])'
      <3>1. Earns(u, prio[u])
        BY <1>2, <1>10, <1>13, <2>2 DEF RankInv, EarnInv
      <3>2. Earns(t, p)
        BY <1>2, <1>3, <1>13 DEF RankInv, EarnInv
      <3>3. prio'[u] = prio[u] \/ (u = t /\ prio'[u] = p)
        BY <1>4, <1>7
      <3>4. Earns(u, prio'[u])
        BY <3>1, <3>2, <3>3
      <3>5. prio'[u] \in Nat
        BY <1>4
      <3>. QED BY <2>1, <3>4, <3>5 DEF Earns
    <2>3. ASSUME NEW u \in Thread, Promotes(u)' PROVE Earns(u, prio[active])'
      <3>1. u = w /\ ~stops
        BY <1>9, <2>3, ConstantsAssumption
      <3>2. PICK n \in Mutex : Sleeps(t, n) /\ owner[n] = u
        BY <1>1, <3>1, OwnerNext, ConstantsAssumption
      <3>3. prio'[t] <= prio'[active']
        BY <1>3, <1>4, <1>7, <1>8, <3>1, <3>2 DEF Sleeps, Terminated
      <3>. QED BY <1>1, <1>7, <3>2, <3>3 DEF Earns
    <2>4. ASSUME NEW z \in Thread, state'[z] = "waiting", suspend'[z] > 0
          PROVE  prio'[z] = SuspendedWait
      <3>1. z = t => stops
        BY <1>1, <2>4
      <3>. QED BY <1>1, <1>4, <1>7, <1>13, <2>4, <3>1 DEF RankInv, EarnInv
    <2>. QED BY <1>1, <1>13, <2>2, <2>3, <2>4 DEF RankInv, EarnInv
  <1>14. SleepsInv'
    BY <1>1, <1>7 DEF SleepsInv
  <1>15. Steady' <=> Steady
    BY <1>1 DEF Steady
  <1>. QED BY <1>9, <1>12, <1>13, <1>14, <1>15 DEF RankInv

\* ComputeThreadEffectivePriority: the head of a sorted queue is its best waiter.
LEMMA EffectiveIs ==
  ASSUME TypeOK, QueueInv, NEW t \in Thread, NEW ms \in Seq(Mutex)
  PROVE  LET p == Effective(t, ms)
         IN  /\ p \in Priority /\ p <= base[t]
             /\ \A m \in Range(ms), u \in Thread : Sleeps(u, m) => p <= prio[u]
             /\ \/ p = base[t]
                \/ \E m \in Range(ms), u \in Thread : Sleeps(u, m) /\ p = prio[u]
  <1>. DEFINE W == {m \in Range(ms) : q[MutexQ(m)] # <<>>}
              S == {base[t]} \cup {prio[Head(q[MutexQ(m)])] : m \in W}
              p == Effective(t, ms)
  <1>1. /\ Range(ms) \subseteq Mutex /\ prio \in [Thread -> Nat] /\ base[t] \in Nat
    <2>1. Range(ms) \subseteq Mutex
      BY LenProperties DEF Range
    <2>2. prio \in [Thread -> Nat] /\ base[t] \in Nat
      BY PriorityFacts DEF TypeOK
    <2>. QED BY <2>1, <2>2
  <1>2. ASSUME NEW m \in W
        PROVE  LET h == Head(q[MutexQ(m)])
               IN  /\ h \in Thread /\ Sleeps(h, m)
                   /\ \A u \in Range(q[MutexQ(m)]) : prio[h] <= prio[u]
    <2>. DEFINE s == q[MutexQ(m)]
    <2>1. m \in Mutex /\ MutexQ(m) \in Queue /\ s \in Seq(Thread) /\ s # <<>>
      BY <1>1, Addresses DEF TypeOK
    <2>2. Ranked(s, prio)
      BY <2>1 DEF QueueInv, Queues
    <2>. HIDE DEF s
    <2>3. 1 \in DOMAIN s /\ Head(s) = s[1] /\ DOMAIN s = 1 .. Len(s) /\ Head(s) \in Thread
      BY <2>1, HeadTail, EmptySeq, LenProperties
    <2>4. Head(s) \in Range(s)
      BY <2>3 DEF Range
    <2>5. ASSUME NEW u \in Range(s) PROVE prio[Head(s)] <= prio[u]
      <3>1. PICK j \in DOMAIN s : s[j] = u
        BY DEF Range
      <3>2. j = 1 \/ 1 < j
        BY <2>3
      <3>3. prio[Head(s)] \in Nat
        BY <1>1, <2>3
      <3>. QED BY <2>2, <2>3, <3>1, <3>2, <3>3 DEF Ranked
    <2>6. Sleeps(Head(s), m)
      BY <2>1, <2>4, SleeperLinked DEF s
    <2>. QED BY <2>3, <2>5, <2>6 DEF s
  <1>3. S \in SUBSET Nat /\ S # {} /\ base[t] \in S
    BY <1>1, <1>2
  <1>4. p = Min(S)
    BY DEF Effective
  <1>5. p \in S /\ \A n \in S : p <= n
    <2>. HIDE DEF S, p
    <2>. QED BY <1>3, <1>4, LeastNatural
  <1>6. p \in Priority
    BY EffectivePriority
  <1>7. ASSUME NEW m \in Range(ms), NEW u \in Thread, Sleeps(u, m) PROVE p <= prio[u]
    <2>1. u \in Range(q[MutexQ(m)]) /\ m \in Mutex
      BY <1>1, <1>7, SleeperLinked
    <2>2. m \in W
      BY <2>1, RangeShort
    <2>3. prio[Head(q[MutexQ(m)])] \in S
      BY <2>2
    <2>4. /\ Head(q[MutexQ(m)]) \in Thread /\ prio[Head(q[MutexQ(m)])] <= prio[u]
          /\ p <= prio[Head(q[MutexQ(m)])]
      BY <1>2, <1>5, <2>1, <2>2, <2>3
    <2>5. p \in Nat
      BY <1>3, <1>5
    <2>. HIDE DEF p
    <2>. QED BY <1>1, <2>4, <2>5
  <1>8. p = base[t] \/ \E m \in Range(ms), u \in Thread : Sleeps(u, m) /\ p = prio[u]
    <2>1. p = base[t] \/ \E m \in W : p = prio[Head(q[MutexQ(m)])]
      BY <1>5
    <2>. HIDE DEF p
    <2>. QED BY <1>2, <2>1
  <1>. QED BY <1>3, <1>5, <1>6, <1>7, <1>8

\* A turn of PropagateMutexOwnerPriority is to come for w, or none is.
LEMMA Propagated ==
  ASSUME TypeOK', NEW r \in Seq(FrameType), LightCalls(r),
         NEW w \in Thread \cup {None}, w # None => r # <<>> /\ Head(r) = IfResched,
         \A t \in Thread \ {active'} : LightCalls(stack'[t]),
         stack'[active'] = IF w = None THEN r ELSE <<Frame("Propagate", w)>> \o r
  PROVE  /\ ChainInv'
         /\ \A u \in Thread : Topmost(Frame("Propagate", u))' <=> u = w
         /\ \A u : ~Promotes(u)' /\ ~Blocked(u)'
  <1>. DEFINE f == Frame("Propagate", w)
  <1>1. \A c, a : Frame(c, a).call = c /\ Frame(c, a).arg = a
    BY Frames
  <1>2. CASE w = None
    <2>1. \A t \in Thread : LightCalls(stack'[t])
      BY <1>2
    <2>2. ChainInv' /\ NoTurn'
      BY <2>1, LightChain
    <2>3. /\ \A u : ~Topmost(Frame("Propagate", u))' /\ ~Promotes(u)'
          /\ \A u : ~Blocked(u)'
      BY <2>2, <1>1 DEF NoTurn, Topmost, Top, Promotes, Blocked, Blocks
    <2>. QED BY <1>2, <2>2, <2>3, ConstantsAssumption
  <1>3. CASE w # None
    <2>1. f \in FrameType /\ f.call = "Propagate" /\ f.arg = w
      BY <1>3, Frames
    <2>2. stack'[active'] = <<f>> \o r
      BY <1>3
    <2>. HIDE DEF f
    <2>3. stack'[active'] # <<>> /\ Head(stack'[active']) = f
      BY <2>1, <2>2, TopChain
    <2>4. ChainInv'
      <3>1. \A n : f # Frame("SleepThread", MutexQ(n)) /\ f # Frame("WakeupThread", MutexQ(n))
        BY <1>1, <2>1
      <3>. QED BY <1>3, <2>1, <2>2, <3>1, TopChain
    <2>5. \A u \in Thread : Topmost(Frame("Propagate", u))' <=> u = w
      BY <1>1, <2>1, <2>3 DEF Topmost, f
    <2>6. \A u : ~Promotes(u)' /\ ~Blocked(u)'
      BY <1>1, <2>1, <2>3 DEF Topmost, Top, Promotes, Blocked, Blocks
    <2>. QED BY <2>4, <2>5, <2>6
  <1>. QED BY <1>2, <1>3

\* A thread gets the priority it deserves, or none that counts, and its next owner a turn.
LEMMA PassRanks ==
  ASSUME Good, Good', LockInv, RankInv, UNCHANGED <<game, owner>>, NEW t \in Thread,
         NEW w, w = NextOwner(t),
         \A u : ~Promotes(u) /\ ~Blocked(u) /\ ~Promotes(u)' /\ ~Blocked(u)',
         \A u \in Thread \ {t} : ~Topmost(Frame("Propagate", u)),
         \A u \in Thread, m \in Mutex : Sleeps(u, m)' <=> Sleeps(u, m),
         \A u \in Thread \ {t} : prio'[u] = prio[u] /\ base'[u] = base[u] /\ (Ranks(u)' => Ranks(u)),
         Ranks(t)' => prio'[t] = Effective(t, held[t]) /\ base'[t] = base[t],
         \/ w = None
         \/ Topmost(Frame("Propagate", w))'
         \/ prio'[t] = prio[t],
         ChainInv', SleepsInv',
         Steady => /\ disabled' = 0
                   /\ \A u \in Thread : state'[u] = "waiting" /\ suspend'[u] > 0 =>
                                           prio'[u] = SuspendedWait
  PROVE  RankInv'
  <1>. DEFINE p == Effective(t, held[t])
  <1>1. /\ prio \in [Thread -> Nat] /\ prio' \in [Thread -> Nat] /\ base \in [Thread -> Nat]
        /\ held[t] \in Seq(Mutex) /\ TypeOK /\ QueueInv /\ SleepsInv
    BY PriorityFacts DEF Good, TypeOK, RankInv
  <1>2. /\ p \in Nat /\ p <= base[t]
        /\ \A m \in Mutex, u \in Thread : owner[m] = t /\ Sleeps(u, m) => p <= prio[u]
        /\ \/ p = base[t]
           \/ \E m \in Mutex, u \in Thread : owner[m] = t /\ Sleeps(u, m) /\ p = prio[u]
    <2>1. \A m \in Mutex : owner[m] = t <=> m \in Range(held[t])
      BY DEF LockInv, HeldInv
    <2>2. Range(held[t]) \subseteq Mutex
      BY <1>1, LenProperties DEF Range
    <2>3. /\ p \in Priority /\ p <= base[t]
          /\ \A m \in Range(held[t]), u \in Thread : Sleeps(u, m) => p <= prio[u]
          /\ \/ p = base[t]
             \/ \E m \in Range(held[t]), u \in Thread : Sleeps(u, m) /\ p = prio[u]
      BY <1>1, EffectiveIs
    <2>. HIDE DEF p
    <2>. QED BY <2>1, <2>2, <2>3, PriorityFacts
  <1>. HIDE DEF p
  <1>3. Ranks(t)' => prio'[t] = p /\ base'[t] = base[t]
    BY DEF p
  <1>4. ASSUME NEW m \in Mutex, NEW u \in Thread, Sleeps(t, m), owner[m] = u
        PROVE  Topmost(Frame("Propagate", u))' \/ prio'[t] = prio[t]
    <2>1. NextOwner(t) = owner[m]
      BY <1>1, <1>4, OwnerNext
    <2>2. u # None
      BY ConstantsAssumption
    <2>3. NextOwner(t) = u
      BY <1>4, <2>1
    <2>. QED BY <2>2, <2>3
  <1>5. AtMostInv'
    <2>. SUFFICES ASSUME NEW u \in Thread, Ranks(u)', ~Topmost(Frame("Propagate", u))'
                  PROVE  AtMost(u)'
      BY DEF AtMostInv
    <2>1. CASE u = t
      <3>1. prio'[t] = p /\ base'[t] = base[t]
        BY <1>3, <2>1
      <3>2. ASSUME NEW m \in Mutex, NEW z \in Thread, owner[m] = t, Sleeps(z, m)
            PROVE  prio'[t] <= prio'[z]
        <4>1. p <= prio[z]
          BY <1>2, <3>2
        <4>2. z = t \/ prio'[z] = prio[z]
          OBVIOUS
        <4>. QED BY <1>1, <1>2, <3>1, <4>1, <4>2
      <3>. QED BY <1>2, <2>1, <3>1, <3>2 DEF AtMost
    <2>2. CASE u # t
      <3>1. AtMost(u) /\ prio'[u] = prio[u] /\ base'[u] = base[u]
        BY <2>2 DEF RankInv, AtMostInv
      <3>2. ASSUME NEW m \in Mutex, NEW z \in Thread, owner[m] = u, Sleeps(z, m)
            PROVE  prio'[u] <= prio'[z]
        <4>1. prio[u] <= prio[z]
          BY <3>1, <3>2 DEF AtMost
        <4>2. prio'[z] = prio[z]
          BY <1>4, <3>2
        <4>. QED BY <3>1, <4>1, <4>2
      <3>. QED BY <3>1, <3>2 DEF AtMost
    <2>. QED BY <2>1, <2>2
  <1>6. ASSUME Steady PROVE EarnInv'
    <2>1. ASSUME NEW u \in Thread, Ranks(u)', ~Topmost(Frame("Propagate", u))'
          PROVE  Earns(u, prio[u])'
      <3>1. CASE u = t
        <4>1. prio'[t] = p /\ base'[t] = base[t]
          BY <1>3, <2>1, <3>1
        <4>2. ASSUME NEW m \in Mutex, NEW z \in Thread, owner[m] = t, Sleeps(z, m), p = prio[z]
              PROVE  prio'[z] <= prio'[t]
          <5>1. z = t \/ prio'[z] = prio[z]
            OBVIOUS
          <5>. QED BY <1>1, <4>1, <4>2, <5>1
        <4>. QED BY <1>1, <1>2, <3>1, <4>1, <4>2 DEF Earns
      <3>2. CASE u # t
        <4>1. Earns(u, prio[u]) /\ prio'[u] = prio[u] /\ base'[u] = base[u]
          BY <1>6, <2>1, <3>2 DEF RankInv, EarnInv
        <4>2. ASSUME NEW m \in Mutex, NEW z \in Thread, owner[m] = u, Sleeps(z, m)
              PROVE  prio'[z] = prio[z]
          BY <1>4, <2>1, <4>2
        <4>. QED BY <4>1, <4>2 DEF Earns
      <3>. QED BY <3>1, <3>2
    <2>. QED BY <1>6, <2>1 DEF EarnInv
  <1>7. Steady' <=> Steady
    BY DEF Steady
  <1>. QED BY <1>5, <1>6, <1>7 DEF RankInv

\* The same, with the calls of such a step.
LEMMA PassedRanks ==
  ASSUME Good, Good', LockInv, RankInv, UNCHANGED <<game, owner>>, NEW t \in Thread,
         ~Top("Promote"), ~Top("SleepThread"),
         \A u \in Thread \ {t} : ~Topmost(Frame("Propagate", u)),
         \A u \in Thread, m \in Mutex : /\ Sleeps(u, m)' <=> Sleeps(u, m)
                                        /\ Sleeps(u, m) => waitMutex'[u] = waitMutex[u],
         \A u \in Thread \ {t} : /\ prio'[u] = prio[u] /\ base'[u] = base[u]
                                 /\ state'[u] = state[u] /\ suspend'[u] = suspend[u],
         Ranks(t)' => prio'[t] = Effective(t, held[t]) /\ base'[t] = base[t],
         state'[t] = "waiting" /\ suspend'[t] > 0 => \/ prio'[t] = SuspendedWait
                                                     \/ /\ state[t] = "waiting" /\ suspend[t] > 0
                                                        /\ prio'[t] = prio[t],
         Steady => disabled' = 0,
         NEW r \in Seq(FrameType), LightCalls(r),
         NEW w \in Thread \cup {None}, w # None => r # <<>> /\ Head(r) = IfResched,
         \A u \in Thread \ {active'} : LightCalls(stack'[u]),
         stack'[active'] = IF w = None THEN r ELSE <<Frame("Propagate", w)>> \o r,
         w = NextOwner(t) \/ prio'[t] = prio[t]
  PROVE  RankInv'
  <1>1. /\ ChainInv'
        /\ \A u \in Thread : Topmost(Frame("Propagate", u))' <=> u = w
        /\ \A u : ~Promotes(u)' /\ ~Blocked(u)'
    BY Propagated DEF Good
  <1>2. \A u : ~Promotes(u) /\ ~Blocked(u)
    BY Frames DEF Topmost, Top, Promotes, Blocked, Blocks
  <1>3. SleepsInv'
    BY DEF SleepsInv, RankInv
  <1>4. PICK n : n = NextOwner(t)
    OBVIOUS
  <1>5. \/ n = None
        \/ Topmost(Frame("Propagate", n))'
        \/ prio'[t] = prio[t]
    BY <1>1, <1>4
  <1>6. ASSUME Steady
        PROVE  /\ disabled' = 0
               /\ \A u \in Thread : state'[u] = "waiting" /\ suspend'[u] > 0 => prio'[u] = SuspendedWait
    <2>1. \A u \in Thread : state[u] = "waiting" /\ suspend[u] > 0 => prio[u] = SuspendedWait
      BY <1>6 DEF RankInv, EarnInv
    <2>. QED BY <1>6, <2>1
  <1>7. \A u \in Thread \ {t} : Ranks(u)' => Ranks(u)
    BY DEF Ranks, Terminated
  <1>. QED BY <1>1, <1>2, <1>3, <1>4, <1>5, <1>6, <1>7, PassRanks

\* A turn of PropagateMutexOwnerPriority.
LEMMA PropagateRanks ==
  ASSUME Good, Good', LockInv, RankInv, UNCHANGED game, NEW t \in Thread, Propagate(t)
  PROVE  RankInv'
  <1>1. /\ UNCHANGED <<game, state, suspend, base, owner, waitMutex, disabled, active>>
        /\ TypeOK /\ TypeOK' /\ QueueInv /\ ChainInv /\ SleepsInv
        /\ Top("Propagate") /\ Arg = t /\ ~Top("Promote") /\ ~Top("SleepThread")
    BY DEF Propagate, mutexVars, fiberVars, Good, RankInv, Top
  <1>2. /\ Rest \in Seq(FrameType) /\ LightCalls(Rest) /\ Rest # <<>> /\ Head(Rest) = IfResched
    BY <1>1, TopFrame, LightRest DEF ChainInv
  <1>3. \A u \in Thread \ {t} : ~Topmost(Frame("Propagate", u))
    BY <1>1, Frames DEF Topmost, Arg
  <1>. DEFINE p == Effective(t, held[t])
              stops == suspend[t] >= 1 \/ prio[t] = p
  <1>4. p \in AnyPriority /\ suspend[t] \in Nat /\ prio \in [Thread -> AnyPriority]
    <2>1. held[t] \in Seq(Mutex) /\ suspend[t] \in Nat /\ prio \in [Thread -> AnyPriority]
      BY <1>1 DEF TypeOK
    <2>. QED BY <1>1, <2>1, EffectivePriority, PriorityFacts
  <1>5. NextOwner(t) \in Thread \cup {None}
    BY <1>1, OwnerNext
  <1>6. PICK w \in Thread \cup {None} : w = IF stops THEN None ELSE NextOwner(t)
    BY <1>5
  <1>7. stack' = [stack EXCEPT ![active] = IF w = None THEN Rest ELSE <<Frame("Propagate", w)>> \o Rest]
    <2>1. <<>> \o Rest = Rest
      BY <1>1, TopFrame, ConcatEmptySeq
    <2>2. \/ stops /\ stack' = [stack EXCEPT ![active] = <<>> \o Rest]
          \/ ~stops /\ stack' = [stack EXCEPT ![active] = (IF NextOwner(t) = None THEN <<>>
                                   ELSE <<Frame("Propagate", NextOwner(t))>>) \o Rest]
      BY DEF Propagate, Return, Continue
    <2>. QED BY <1>6, <2>1, <2>2
  <1>8. /\ \A u \in Thread : \A n : Sleeps(u, n)' <=> Sleeps(u, n)
        /\ \/ prio' = prio /\ (stops \/ Terminated(t))
           \/ ~stops /\ prio' = [prio EXCEPT ![t] = p]
    <2>1. CASE stops
      BY <1>1, <2>1 DEF Propagate, linkVars, Sleeps
    <2>2. CASE ~stops
      <3>1. SetThreadEffectivePriority(t, p)
        BY <2>2 DEF Propagate
      <3>2. /\ \A u \in Thread : \A n : Sleeps(u, n)' <=> Sleeps(u, n)
            /\ Terminated(t) => prio' = prio
            /\ ~Terminated(t) => prio' = [prio EXCEPT ![t] = p]
        <4>. HIDE DEF p
        <4>. QED BY <1>1, <1>4, <3>1, GivenPriority
      <3>. QED BY <2>2, <3>2
    <2>. QED BY <2>1, <2>2
  <1>9. \A u \in Thread \ {t} : prio'[u] = prio[u]
    BY <1>4, <1>8
  <1>10. Ranks(t)' => prio'[t] = p
    <2>1. Ranks(t)' => ~Terminated(t) /\ suspend[t] = 0
      BY <1>1 DEF Ranks, Terminated
    <2>. QED BY <1>4, <1>8, <2>1
  <1>11. suspend[t] > 0 => prio'[t] = prio[t]
    BY <1>4, <1>8
  <1>12. w = NextOwner(t) \/ prio'[t] = prio[t]
    BY <1>6, <1>8
  <1>13. /\ stack'[active'] = IF w = None THEN Rest ELSE <<Frame("Propagate", w)>> \o Rest
         /\ \A u \in Thread \ {active'} : LightCalls(stack'[u])
    BY <1>1, <1>7, OthersLight
  <1>14. Steady => disabled' = 0
    BY <1>1 DEF RankInv, EarnInv
  <1>. HIDE DEF stops
  <1>. QED BY <1>1, <1>2, <1>3, <1>8, <1>9, <1>10, <1>11, <1>12, <1>13, <1>14, PassedRanks

\* What OSSuspendThread and OSResumeThread go on with.
LEMMA PropagatedFrom ==
  ASSUME TypeOK, ChainInv, SleepsInv, Good, LockInv, NEW t \in Thread, UNCHANGED active,
         ~Top("Promote"),
         \/ /\ state[t] = "waiting"
            /\ stack' = [stack EXCEPT ![active] = (PropagateFrom(waitMutex[t]) \o <<IfResched>>) \o Rest]
         \/ /\ state[t] # "waiting" \/ prio'[t] = prio[t]
            /\ \/ stack' = [stack EXCEPT ![active] = <<IfResched>> \o Rest]
               \/ stack' = [stack EXCEPT ![active] = <<>> \o Rest]
  PROVE  \E r \in Seq(FrameType), w \in Thread \cup {None} :
            /\ LightCalls(r) /\ (w # None => r # <<>> /\ Head(r) = IfResched)
            /\ \A u \in Thread \ {active'} : LightCalls(stack'[u])
            /\ stack'[active'] = IF w = None THEN r ELSE <<Frame("Propagate", w)>> \o r
            /\ w = NextOwner(t) \/ prio'[t] = prio[t]
  <1>1. Rest \in Seq(FrameType) /\ LightCalls(Rest) /\ IfResched \in FrameType
    BY TopFrame, LightRest, SelectFrames
  <1>. DEFINE r == <<IfResched>> \o Rest
  <1>2. r \in Seq(FrameType) /\ LightCalls(r) /\ r # <<>> /\ Head(r) = IfResched
    <2>1. <<IfResched>> \o Rest # <<>> /\ Head(<<IfResched>> \o Rest) = IfResched
      BY <1>1, ConsSeq
    <2>2. Light(IfResched)
      BY LightFrames, RangeShort DEF LightCalls
    <2>. QED BY <1>1, <2>1, <2>2, LightCons
  <1>3. \A u \in Thread \ {active'} : LightCalls(stack'[u])
    BY OthersLight
  <1>4. CASE stack' = [stack EXCEPT ![active] = <<>> \o Rest] /\ (state[t] # "waiting" \/ prio'[t] = prio[t])
    <2>1. stack'[active'] = Rest
      BY <1>1, <1>4, OthersLight, ConcatEmptySeq
    <2>2. None = NextOwner(t) \/ prio'[t] = prio[t]
      BY <1>4 DEF NextOwner
    <2>. QED BY <1>1, <1>3, <2>1, <2>2
  <1>5. CASE stack' = [stack EXCEPT ![active] = <<IfResched>> \o Rest]
             /\ (state[t] # "waiting" \/ prio'[t] = prio[t])
    <2>1. stack'[active'] = r
      BY <1>5, OthersLight
    <2>2. None = NextOwner(t) \/ prio'[t] = prio[t]
      BY <1>5 DEF NextOwner
    <2>. HIDE DEF r
    <2>. QED BY <1>2, <1>3, <2>1, <2>2
  <1>6. CASE /\ state[t] = "waiting"
             /\ stack' = [stack EXCEPT ![active] = (PropagateFrom(waitMutex[t]) \o <<IfResched>>) \o Rest]
    <2>1. PICK w \in Thread \cup {None} : w = NextOwner(t)
      BY OwnerNext
    <2>2. PropagateFrom(waitMutex[t]) = IF w = None THEN <<>> ELSE <<Frame("Propagate", w)>>
      BY <1>6, <2>1 DEF PropagateFrom, NextOwner
    <2>. DEFINE f == Frame("Propagate", w)
    <2>3. (PropagateFrom(waitMutex[t]) \o <<IfResched>>) \o Rest = IF w = None THEN r ELSE <<f>> \o r
      <3>1. CASE w = None
        <4>1. (<<>> \o <<IfResched>>) \o Rest = r
          BY <1>1, Pushes
        <4>. QED BY <2>2, <3>1, <4>1
      <3>2. CASE w # None
        <4>1. f \in FrameType
          BY <3>2, Frames
        <4>. HIDE DEF f
        <4>2. (<<f>> \o <<IfResched>>) \o Rest = <<f>> \o r
          BY <1>1, <4>1, Pushes
        <4>. QED BY <2>2, <3>2, <4>2 DEF f
      <3>. QED BY <3>1, <3>2
    <2>. HIDE DEF r, f
    <2>4. stack'[active'] = IF w = None THEN r ELSE <<f>> \o r
      BY <1>6, <2>3, OthersLight
    <2>. QED BY <1>2, <1>3, <2>1, <2>4 DEF f
  <1>. QED BY <1>4, <1>5, <1>6

\* OSSuspendThread takes its priority from a waiter, and its owner's turn comes.
LEMMA SuspendRanks ==
  ASSUME Good, Good', LockInv, RankInv, UNCHANGED game, NEW t \in Thread, SuspendThread(t)
  PROVE  RankInv'
  <1>1. /\ UNCHANGED <<game, base, owner, waitMutex, disabled, active>>
        /\ TypeOK /\ QueueInv /\ ChainInv /\ SleepsInv
        /\ suspend' = [suspend EXCEPT ![t] = @ + 1]
        /\ ~Top("Promote") /\ ~Top("SleepThread") /\ ~Top("Propagate")
    BY DEF SuspendThread, mutexVars, fiberVars, Good, RankInv, Top, Called, GuestCalls, GuestCode
  <1>2. /\ suspend \in [Thread -> Nat] /\ prio \in [Thread -> AnyPriority]
        /\ state \in [Thread -> State] /\ queue \in [Thread -> Queue \cup {None}]
    BY <1>1 DEF TypeOK
  <1>3. /\ suspend'[t] > 0 /\ \A u \in Thread \ {t} : suspend'[u] = suspend[u]
    BY <1>1, <1>2
  <1>4. /\ \A u \in Thread \ {t} : prio'[u] = prio[u] /\ state'[u] = state[u] /\ queue'[u] = queue[u]
        /\ state'[t] = "waiting" <=> state[t] = "waiting"
        /\ state[t] = "waiting" => queue'[t] = queue[t]
        /\ state[t] = "waiting" /\ suspend[t] = 0 => prio'[t] = SuspendedWait
        /\ state[t] # "waiting" \/ suspend[t] > 0 => prio'[t] = prio[t]
    <2>1. \/ suspend[t] > 0 /\ UNCHANGED <<state, prio, queue>>
          \/ suspend[t] = 0 /\ state[t] = "ready" /\ Unlink(t) /\ UNCHANGED <<state, prio>>
          \/ suspend[t] = 0 /\ state[t] = "running" /\ state' = [state EXCEPT ![t] = "ready"]
             /\ UNCHANGED <<prio, queue>>
          \/ suspend[t] = 0 /\ state[t] = "waiting" /\ Relink(t, queue[t], SuspendedWait)
             /\ UNCHANGED state
          \/ suspend[t] = 0 /\ Terminated(t) /\ UNCHANGED <<state, prio, queue>>
      BY DEF SuspendThread, linkVars
    <2>. QED BY <1>2, <2>1 DEF Unlink, Relink, Terminated
  <1>5. \A u \in Thread, m \in Mutex : Sleeps(u, m)' <=> Sleeps(u, m)
    BY <1>4 DEF Sleeps
  <1>6. \A u : ~Topmost(Frame("Propagate", u))
    BY <1>1, Frames DEF Topmost, Top
  <1>7. ~Ranks(t)'
    BY <1>3 DEF Ranks
  <1>8. Steady => disabled' = 0
    BY <1>1 DEF RankInv, EarnInv
  <1>9. \/ /\ state[t] = "waiting"
           /\ stack' = [stack EXCEPT ![active] = (PropagateFrom(waitMutex[t]) \o <<IfResched>>) \o Rest]
        \/ /\ state[t] # "waiting" \/ prio'[t] = prio[t]
           /\ \/ stack' = [stack EXCEPT ![active] = <<IfResched>> \o Rest]
              \/ stack' = [stack EXCEPT ![active] = <<>> \o Rest]
    BY <1>4 DEF SuspendThread, Return, Continue, Terminated
  <1>10. PICK r \in Seq(FrameType), w \in Thread \cup {None} :
            /\ LightCalls(r) /\ (w # None => r # <<>> /\ Head(r) = IfResched)
            /\ \A u \in Thread \ {active'} : LightCalls(stack'[u])
            /\ stack'[active'] = IF w = None THEN r ELSE <<Frame("Propagate", w)>> \o r
            /\ w = NextOwner(t) \/ prio'[t] = prio[t]
    BY <1>1, <1>9, PropagatedFrom
  <1>11. state'[t] = "waiting" /\ suspend'[t] > 0 =>
            \/ prio'[t] = SuspendedWait
            \/ state[t] = "waiting" /\ suspend[t] > 0 /\ prio'[t] = prio[t]
    BY <1>2, <1>4
  <1>. QED BY <1>1, <1>3, <1>4, <1>5, <1>6, <1>7, <1>8, <1>10, <1>11, PassedRanks

\* OSResumeThread gives a thread the priority it deserves, and its owner's turn comes.
LEMMA ResumeRanks ==
  ASSUME Good, Good', LockInv, RankInv, UNCHANGED game, NEW t \in Thread, ResumeThread(t)
  PROVE  RankInv'
  <1>1. /\ UNCHANGED <<game, base, owner, waitMutex, disabled, active>>
        /\ TypeOK /\ QueueInv /\ ChainInv /\ SleepsInv
        /\ suspend' = [suspend EXCEPT ![t] = @ - 1] /\ suspend[t] > 0
        /\ ~Top("Promote") /\ ~Top("SleepThread") /\ ~Top("Propagate")
    BY DEF ResumeThread, mutexVars, fiberVars, Good, RankInv, Top, Called, GuestCalls, GuestCode
  <1>2. /\ suspend \in [Thread -> Nat] /\ prio \in [Thread -> AnyPriority]
        /\ state \in [Thread -> State] /\ queue \in [Thread -> Queue \cup {None}]
    BY <1>1 DEF TypeOK
  <1>3. suspend'[t] = suspend[t] - 1 /\ \A u \in Thread \ {t} : suspend'[u] = suspend[u]
    BY <1>1, <1>2
  <1>. DEFINE p == Effective(t, held[t])
  <1>4. /\ \A u \in Thread \ {t} : prio'[u] = prio[u] /\ state'[u] = state[u] /\ queue'[u] = queue[u]
        /\ state'[t] = "waiting" <=> state[t] = "waiting"
        /\ state[t] = "waiting" => queue'[t] = queue[t]
        /\ suspend[t] > 1 => prio'[t] = prio[t]
        /\ suspend[t] = 1 => prio'[t] = p \/ Terminated(t)'
    <2>. HIDE DEF p
    <2>1. \/ suspend[t] > 1 /\ UNCHANGED <<state, prio, queue>>
          \/ suspend[t] = 1 /\ state[t] = "waiting" /\ Relink(t, queue[t], p) /\ UNCHANGED state
          \/ /\ suspend[t] = 1 /\ state[t] \in {"ready", "running"}
             /\ state' = [state EXCEPT ![t] = "ready"]
             /\ prio' = [prio EXCEPT ![t] = p]
             /\ queue' = [queue EXCEPT ![t] = RunQ(p)]
          \/ suspend[t] = 1 /\ Terminated(t) /\ UNCHANGED <<state, prio, queue>>
      BY DEF ResumeThread, linkVars, p
    <2>. QED BY <1>2, <2>1 DEF Relink, Terminated
  <1>5. \A u \in Thread, m \in Mutex : Sleeps(u, m)' <=> Sleeps(u, m)
    BY <1>4 DEF Sleeps
  <1>6. \A u : ~Topmost(Frame("Propagate", u))
    BY <1>1, Frames DEF Topmost, Top
  <1>7. Ranks(t)' => prio'[t] = p
    BY <1>2, <1>3, <1>4 DEF Ranks
  <1>8. Steady => disabled' = 0
    BY <1>1 DEF RankInv, EarnInv
  <1>9. \/ /\ state[t] = "waiting"
           /\ stack' = [stack EXCEPT ![active] = (PropagateFrom(waitMutex[t]) \o <<IfResched>>) \o Rest]
        \/ /\ state[t] # "waiting" \/ prio'[t] = prio[t]
           /\ \/ stack' = [stack EXCEPT ![active] = <<IfResched>> \o Rest]
              \/ stack' = [stack EXCEPT ![active] = <<>> \o Rest]
    BY <1>4 DEF ResumeThread, Return, Continue, Terminated
  <1>10. PICK r \in Seq(FrameType), w \in Thread \cup {None} :
            /\ LightCalls(r) /\ (w # None => r # <<>> /\ Head(r) = IfResched)
            /\ \A u \in Thread \ {active'} : LightCalls(stack'[u])
            /\ stack'[active'] = IF w = None THEN r ELSE <<Frame("Propagate", w)>> \o r
            /\ w = NextOwner(t) \/ prio'[t] = prio[t]
    BY <1>1, <1>9, PropagatedFrom
  <1>11. state'[t] = "waiting" /\ suspend'[t] > 0 =>
            \/ prio'[t] = SuspendedWait
            \/ state[t] = "waiting" /\ suspend[t] > 0 /\ prio'[t] = prio[t]
    BY <1>1, <1>2, <1>3, <1>4
  <1>. QED BY <1>1, <1>3, <1>4, <1>5, <1>6, <1>7, <1>8, <1>10, <1>11, PassedRanks

\* OSCreateThread makes a suspended thread of one that is over.
LEMMA CreateRanks ==
  ASSUME Good, Good', LockInv, RankInv, UNCHANGED game, NEW t \in Thread,
         NEW p \in game.priorities, NEW d \in game.attributes, CreateThread(t, p, d)
  PROVE  RankInv'
  <1>1. /\ UNCHANGED <<game, owner, queue, disabled, active>>
        /\ TypeOK /\ QueueInv /\ ChainInv /\ SleepsInv /\ GuestCode /\ state[t] = "none"
        /\ ~Top("Promote") /\ ~Top("SleepThread") /\ ~Top("Propagate")
        /\ state' = [state EXCEPT ![t] = "ready"] /\ suspend' = [suspend EXCEPT ![t] = 1]
        /\ prio' = [prio EXCEPT ![t] = p] /\ base' = [base EXCEPT ![t] = p]
        /\ waitMutex' = [waitMutex EXCEPT ![t] = None] /\ stack' = [stack EXCEPT ![t] = <<>>]
    BY DEF CreateThread, Good, RankInv, Top, GuestCalls, GuestCode
  <1>2. /\ suspend \in [Thread -> Nat] /\ prio \in [Thread -> AnyPriority]
        /\ state \in [Thread -> State] /\ base \in [Thread -> Priority]
        /\ waitMutex \in [Thread -> Mutex \cup {None}] /\ stack \in [Thread -> Seq(FrameType)]
        /\ active \in Thread
    BY <1>1 DEF TypeOK
  <1>3. /\ \A u \in Thread \ {t} : /\ prio'[u] = prio[u] /\ base'[u] = base[u]
                                   /\ state'[u] = state[u] /\ suspend'[u] = suspend[u]
                                   /\ waitMutex'[u] = waitMutex[u]
        /\ state'[t] = "ready" /\ suspend'[t] = 1
    BY <1>1, <1>2
  <1>4. \A u \in Thread, m \in Mutex : /\ Sleeps(u, m)' <=> Sleeps(u, m)
                                       /\ Sleeps(u, m) => waitMutex'[u] = waitMutex[u]
    BY <1>1, <1>3 DEF Sleeps
  <1>5. \A u : ~Topmost(Frame("Propagate", u))
    BY <1>1, Frames DEF Topmost, Top
  <1>6. ~Ranks(t)' /\ ~(state'[t] = "waiting")
    BY <1>3 DEF Ranks
  <1>7. Steady => disabled' = 0
    BY <1>1 DEF RankInv, EarnInv
  <1>8. /\ <<>> \in Seq(FrameType) /\ LightCalls(<<>>)
        /\ stack'[active'] = <<>>
        /\ \A u \in Thread \ {active'} : LightCalls(stack'[u])
    BY <1>1, <1>2, LightFrames DEF ChainInv, GuestCode
  <1>9. None = NextOwner(t)
    BY <1>1 DEF NextOwner
  <1>10. \A r, w : w = None => (IF w = None THEN r ELSE <<Frame("Propagate", w)>> \o r) = r
    OBVIOUS
  <1>. QED BY <1>1, <1>3, <1>4, <1>5, <1>6, <1>7, <1>8, <1>9, <1>10, PassedRanks

\* OSUnlockMutex takes what its caller inherited through the mutex back, and frees it.
LEMMA UnlockRanks ==
  ASSUME Good, Good', LockInv, RankInv, UNCHANGED game, NEW m \in Mutex, UnlockMutex(m)
  PROVE  RankInv'
  <1>1. /\ UNCHANGED <<game, state, suspend, base, queue, waitMutex, disabled, active>>
        /\ TypeOK /\ TypeOK' /\ QueueInv /\ ChainInv /\ SleepsInv /\ GuestCode
        /\ \A c : ~Top(c)
    BY DEF UnlockMutex, linkVars, fiberVars, Good, RankInv, Top, GuestCalls, GuestCode
  <1>2. running = active /\ state[active] = "running" /\ owner[m] = active /\ active \in Thread
    <2>1. Executing
      BY <1>1, ModeOf DEF Good
    <2>. QED BY <1>1, <2>1 DEF Executing, UnlockMutex, TypeOK
  <1>3. Steady => disabled' = 0
    BY <1>1 DEF RankInv, EarnInv
  <1>4. CASE UNCHANGED <<owner, prio, stack>>
    <2>1. LightStack(<<>>) /\ Tame(<<>>) /\ LightCalls(<<>>)
      BY <1>1, <1>4, LightRest, TameFrames, LightFrames DEF LightStack
    <2>. QED BY <1>1, <1>3, <1>4, <2>1, CallsRanks DEF Terminated
  <1>5. CASE ~UNCHANGED <<owner, prio, stack>>
    <2>. DEFINE f == Frame("WakeupThread", MutexQ(m))
                ms == HeldWithout(active, m)
                p == Effective(active, ms)
    <2>1. /\ owner' = [owner EXCEPT ![m] = None]
          /\ prio' = IF prio[active] < base[active] THEN [prio EXCEPT ![active] = p] ELSE prio
          /\ stack' = [stack EXCEPT ![active] = <<f>> \o Rest]
      BY <1>2, <1>5 DEF UnlockMutex, Continue
    <2>2. /\ f \in FrameType /\ f.call = "WakeupThread"
          /\ \A n \in Mutex : f = Frame("WakeupThread", MutexQ(n)) <=> n = m
      BY Frames, Addresses
    <2>3. owner' \in [Mutex -> Thread \cup {None}] /\ owner'[m] = None
          /\ \A n \in Mutex \ {m} : owner'[n] = owner[n]
      BY <1>1, <2>1 DEF TypeOK
    <2>4. /\ ms \in Seq(Mutex) /\ Range(ms) = {n \in Mutex : owner[n] = active} \ {m}
      <3>1. /\ held[active] \in Seq(Mutex) /\ Distinct(held[active])
            /\ Range(held[active]) = {n \in Mutex : owner[n] = active}
        <4>1. held[active] \in Seq(Mutex) /\ Distinct(held[active])
              /\ \A n \in Mutex : owner[n] = active <=> n \in Range(held[active])
          BY <1>1, <1>2 DEF LockInv, HeldInv, TypeOK
        <4>2. Range(held[active]) \subseteq Mutex
          BY <4>1, LenProperties DEF Range
        <4>. QED BY <4>1, <4>2
      <3>. QED BY <3>1, RemovedSeq DEF HeldWithout
    <2>. HIDE DEF f, ms
    <2>5. /\ p \in Nat /\ p <= base[active]
          /\ \A n \in Mutex \ {m}, u \in Thread : owner[n] = active /\ Sleeps(u, n) => p <= prio[u]
          /\ \/ p = base[active]
             \/ \E n \in Mutex \ {m}, u \in Thread : owner[n] = active /\ Sleeps(u, n) /\ p = prio[u]
      <3>1. /\ p \in Priority /\ p <= base[active]
            /\ \A n \in Range(ms), u \in Thread : Sleeps(u, n) => p <= prio[u]
            /\ \/ p = base[active]
               \/ \E n \in Range(ms), u \in Thread : Sleeps(u, n) /\ p = prio[u]
        BY <1>1, <1>2, <2>4, EffectiveIs
      <3>. HIDE DEF p
      <3>. QED BY <2>4, <3>1, PriorityFacts
    <2>. HIDE DEF p
    <2>6. /\ prio \in [Thread -> Nat] /\ prio' \in [Thread -> Nat] /\ base \in [Thread -> Nat]
          /\ \A u \in Thread \ {active} : prio'[u] = prio[u]
          /\ \/ prio[active] < base[active] /\ prio'[active] = p
             \/ base[active] <= prio[active] /\ prio'[active] = prio[active]
      <3>1. prio \in [Thread -> Nat] /\ prio' \in [Thread -> Nat] /\ base \in [Thread -> Nat]
        BY <1>1, PriorityFacts DEF TypeOK
      <3>. QED BY <1>2, <2>1, <3>1
    <2>7. ChainInv' /\ NoTurn'
      <3>1. Rest \in Seq(FrameType) /\ LightCalls(Rest)
        BY <1>1, TopFrame, LightRest
      <3>2. /\ stack'[active'] = <<f>> \o Rest
            /\ \A u \in Thread \ {active'} : LightCalls(stack'[u])
        BY <1>1, <2>1, OthersLight
      <3>3. \A n : f # Frame("SleepThread", MutexQ(n))
        BY <2>2, Frames
      <3>. QED BY <1>1, <2>2, <2>3, <3>1, <3>2, <3>3, TopChain
    <2>8. \A u : ~Topmost(Frame("Propagate", u)) /\ ~Promotes(u) /\ ~Blocked(u)
      BY <1>1, Frames DEF Topmost, Top, Promotes, Blocked, Blocks
    <2>9. \A u : ~Topmost(Frame("Propagate", u))' /\ ~Promotes(u)' /\ ~Blocked(u)'
      BY <2>7, Frames DEF NoTurn, Topmost, Top, Promotes, Blocked, Blocks
    <2>10. /\ \A u \in Thread : \A n : Sleeps(u, n)' <=> Sleeps(u, n)
           /\ \A u \in Thread : \A n : Sleeps(u, n) => prio'[u] = prio[u]
           /\ \A u \in Thread : Ranks(u)' <=> Ranks(u)
      BY <1>1, <1>2, <2>6 DEF Sleeps, Ranks, Terminated
    <2>11. AtMostInv'
      <3>. SUFFICES ASSUME NEW u \in Thread, Ranks(u) PROVE AtMost(u)'
        BY <2>10 DEF AtMostInv
      <3>1. prio[u] <= base[u] /\ \A n \in Mutex, z \in Thread : owner[n] = u /\ Sleeps(z, n) => prio[u] <= prio[z]
        BY <2>8 DEF RankInv, AtMostInv, AtMost
      <3>2. prio'[u] <= base'[u]
        BY <1>1, <1>2, <2>5, <2>6, <3>1
      <3>3. ASSUME NEW n \in Mutex, NEW z \in Thread, owner'[n] = u, Sleeps(z, n)'
            PROVE  prio'[u] <= prio'[z]
        <4>1. owner[n] = u /\ n # m /\ Sleeps(z, n) /\ prio'[z] = prio[z]
          BY <2>3, <2>10, <3>3, ConstantsAssumption
        <4>2. u = active => p <= prio[z]
          BY <2>5, <4>1
        <4>. QED BY <2>6, <3>1, <4>1, <4>2
      <3>. QED BY <2>9, <3>2, <3>3 DEF AtMost
    <2>12. ASSUME Steady PROVE EarnInv'
      <3>1. ASSUME NEW u \in Thread, Ranks(u)' PROVE Earns(u, prio[u])'
        <4>1. CASE u = active /\ base[active] <= prio[active]
          BY <1>1, <2>6, <4>1 DEF Earns
        <4>2. CASE u = active /\ prio'[active] = p /\ p = base[active]
          BY <1>1, <2>6, <4>2 DEF Earns
        <4>3. ASSUME u = active, prio'[active] = p,
                     NEW n \in Mutex \ {m}, NEW z \in Thread, owner[n] = active, Sleeps(z, n), p = prio[z]
              PROVE  Earns(u, prio[u])'
          <5>1. owner'[n] = u /\ Sleeps(z, n)' /\ prio'[z] <= prio'[u]
            BY <2>3, <2>6, <2>10, <4>3
          <5>. QED BY <5>1 DEF Earns
        <4>4. CASE u # active
          <5>1. Earns(u, prio[u])
            BY <2>8, <2>10, <2>12, <3>1 DEF RankInv, EarnInv
          <5>2. CASE base[u] <= prio[u]
            BY <1>1, <2>6, <4>4, <5>2 DEF Earns
          <5>3. ASSUME NEW n \in Mutex, NEW z \in Thread, owner[n] = u, Sleeps(z, n), prio[z] <= prio[u]
                PROVE  Earns(u, prio[u])'
            <6>1. owner'[n] = u /\ Sleeps(z, n)' /\ prio'[z] <= prio'[u]
              BY <1>2, <2>3, <2>6, <2>10, <4>4, <5>3
            <6>. QED BY <6>1 DEF Earns
          <5>. QED BY <2>8, <5>1, <5>2, <5>3 DEF Earns
        <4>. QED BY <2>5, <2>6, <4>1, <4>2, <4>3, <4>4
      <3>2. \A z \in Thread : state[z] = "waiting" /\ suspend[z] > 0 => prio'[z] = SuspendedWait
        BY <1>2, <2>6, <2>12 DEF RankInv, EarnInv
      <3>. QED BY <1>1, <1>3, <2>9, <2>12, <3>1, <3>2 DEF EarnInv
    <2>13. SleepsInv'
      BY <1>1, <2>10 DEF SleepsInv
    <2>14. Steady' <=> Steady
      BY DEF Steady
    <2>. QED BY <2>7, <2>11, <2>12, <2>13, <2>14 DEF RankInv
  <1>. QED BY <1>4, <1>5

\* OSSleepThread puts the thread to sleep whose priority the owner already has.
LEMMA SleepRanks ==
  ASSUME Good, Good', LockInv, RankInv, UNCHANGED game, NEW x \in BlockQueues, SleepThread(x)
  PROVE  RankInv'
  <1>1. /\ UNCHANGED <<game, prio, base, suspend, owner, waitMutex, disabled, active>>
        /\ TypeOK /\ TypeOK' /\ QueueInv /\ ChainInv /\ SleepsInv /\ active \in Thread
        /\ ~Top("Promote") /\ ~Top("Propagate") /\ ~Top("WakeupThread")
        /\ GuestCode \/ (Top("SleepThread") /\ Arg = x)
        /\ GuestCode => x[1] = "wait"
    BY DEF SleepThread, prioVars, mutexVars, fiberVars, Good, RankInv, Top, Called, GuestCalls, GuestCode,
           TypeOK
  <1>2. running = active /\ state[active] = "running" /\ Rest \in Seq(FrameType) /\ suspend[active] = 0
    BY Sleeper DEF Good, FiberInv, TypeOK
  <1>3. \A n \in Mutex : Blocks(n) <=> x = MutexQ(n)
    <2>1. CASE GuestCode
      <3>1. \A n : x # MutexQ(n)
        BY <2>1 DEF SleepThread, MutexQ
      <3>. QED BY <2>1, <3>1 DEF Blocks, Topmost, Top, GuestCode
    <2>2. CASE Top("SleepThread") /\ Arg = x
      <3>1. stack[active] # <<>> /\ Head(stack[active]) \in FrameType
        BY <1>1, <2>2, TopFrame DEF Top
      <3>2. Head(stack[active]) = Frame("SleepThread", x)
        BY <2>2, <3>1 DEF Top, Arg, Frame, FrameType
      <3>. QED BY <1>1, <3>1, <3>2, Frames DEF Blocks, Topmost
    <2>. QED BY <1>1, <2>1, <2>2
  <1>4. \A u : ~Topmost(Frame("Propagate", u)) /\ ~Promotes(u)
    BY <1>1, Frames DEF Topmost, Top, Promotes
  <1>5. \/ disabled > 0 /\ UNCHANGED <<state, queue>> /\ stack' = [stack EXCEPT ![active] = <<>> \o Rest]
        \/ /\ disabled = 0
           /\ state' = [state EXCEPT ![active] = "waiting"]
           /\ queue' = [queue EXCEPT ![active] = x]
           /\ stack' = [stack EXCEPT ![active] = <<SelectFrame, Frame("Slept", <<active, x>>)>> \o Rest]
    <2>1. active # None /\ disabled \in Nat
      BY <1>1, ConstantsAssumption DEF TypeOK
    <2>. QED BY <1>1, <1>2, <2>1 DEF SleepThread, linkVars, Return, Continue
  <1>6. ChainInv' /\ NoTurn'
    <2>. DEFINE k == <<SelectFrame, Frame("Slept", <<active, x>>)>>
    <2>1. /\ k \in Seq(FrameType) /\ LightCalls(k)
          /\ <<>> \in Seq(FrameType) /\ LightCalls(<<>>)
      BY <1>1, TameFrames, LightFrames DEF Tame
    <2>2. PICK l \in Seq(FrameType) : LightCalls(l) /\ stack' = [stack EXCEPT ![active] = l \o Rest]
      BY <1>5, <2>1
    <2>3. \A u \in Thread : LightCalls(stack'[u])
      BY <1>1, <2>2, LightStep
    <2>. QED BY <1>1, <2>3, LightChain
  <1>7. \A u : ~Topmost(Frame("Propagate", u))' /\ ~Promotes(u)' /\ ~Blocked(u)'
    BY <1>6, Frames DEF NoTurn, Topmost, Top, Promotes, Blocked, Blocks
  <1>8. \A u \in Thread : Ranks(u)' <=> Ranks(u)
    BY <1>1, <1>2, <1>5 DEF Ranks, Terminated, TypeOK
  <1>9. \A u \in Thread, n \in Mutex :
           Sleeps(u, n)' <=> Sleeps(u, n) \/ (disabled = 0 /\ u = active /\ x = MutexQ(n))
    <2>1. CASE disabled > 0 /\ UNCHANGED <<state, queue>>
      <3>1. disabled # 0 /\ \A u \in Thread : state'[u] = state[u] /\ queue'[u] = queue[u]
        BY <2>1
      <3>. QED BY <3>1 DEF Sleeps
    <2>2. CASE /\ disabled = 0
               /\ state' = [state EXCEPT ![active] = "waiting"]
               /\ queue' = [queue EXCEPT ![active] = x]
      <3>1. /\ state'[active] = "waiting" /\ queue'[active] = x
            /\ \A u \in Thread \ {active} : state'[u] = state[u] /\ queue'[u] = queue[u]
        BY <1>1, <2>2 DEF TypeOK
      <3>. QED BY <1>2, <2>2, <3>1 DEF Sleeps
    <2>. QED BY <1>5, <2>1, <2>2
  <1>10. prio \in [Thread -> Nat]
    BY <1>1, PriorityFacts DEF TypeOK
  <1>11. AtMostInv'
    <2>. SUFFICES ASSUME NEW u \in Thread, Ranks(u) PROVE AtMost(u)'
      BY <1>8 DEF AtMostInv
    <2>1. AtMost(u)
      BY <1>4 DEF RankInv, AtMostInv
    <2>2. ASSUME NEW n \in Mutex, NEW z \in Thread, owner[n] = u, Sleeps(z, n)'
          PROVE  prio[u] <= prio[z]
      <3>1. CASE Sleeps(z, n)
        BY <1>4, <2>1, <2>2, <3>1 DEF AtMost
      <3>2. CASE z = active /\ x = MutexQ(n)
        <4>1. Blocked(u)
          BY <1>3, <2>2, <3>2 DEF Blocked
        <4>. QED BY <1>4, <2>1, <3>2, <4>1 DEF AtMost
      <3>. QED BY <1>9, <2>2, <3>1, <3>2
    <2>. QED BY <1>1, <1>7, <2>1, <2>2 DEF AtMost
  <1>12. ASSUME Steady PROVE EarnInv'
    <2>1. disabled = 0
      BY <1>12 DEF RankInv, EarnInv
    <2>2. ASSUME NEW u \in Thread, Ranks(u)' PROVE Earns(u, prio[u])'
      <3>1. Earns(u, prio[u])
        BY <1>4, <1>8, <1>12, <2>2 DEF RankInv, EarnInv
      <3>2. CASE Blocked(u) /\ prio[active] <= prio[u]
        <4>1. PICK n \in Mutex : Blocks(n) /\ owner[n] = u
          BY <3>2 DEF Blocked
        <4>2. Sleeps(active, n)'
          BY <1>1, <1>3, <1>9, <2>1, <4>1
        <4>. QED BY <1>1, <3>2, <4>1, <4>2 DEF Earns
      <3>3. CASE ~(Blocked(u) /\ prio[active] <= prio[u])
        BY <1>1, <1>9, <3>1, <3>3 DEF Earns
      <3>. QED BY <3>2, <3>3
    <2>3. \A z \in Thread : state'[z] = "waiting" /\ suspend[z] > 0 => state[z] = "waiting"
      BY <1>1, <1>2, <1>5 DEF TypeOK
    <2>. QED BY <1>1, <1>7, <1>12, <2>1, <2>2, <2>3 DEF RankInv, EarnInv
  <1>13. SleepsInv'
    <2>1. \A n \in Mutex : x = MutexQ(n) => waitMutex[active] = n
      <3>1. \A n \in Mutex : Blocks(n) => waitMutex[active] = n
        BY <1>1 DEF Blocks, ChainInv
      <3>. QED BY <1>3, <3>1
    <2>. QED BY <1>1, <1>9, <2>1 DEF SleepsInv
  <1>14. Steady' <=> Steady
    BY DEF Steady
  <1>. QED BY <1>6, <1>11, <1>12, <1>13, <1>14 DEF RankInv

-----------------------------------------------------------------------------
(* Who unlocks all of its mutexes.                                         *)

\* Calls that no thread ends with.
Living(k) == k \in Seq(FrameType) /\ \A f \in Range(k) : f.call # "UnlockAll"

\* Short lists of such calls.
LEMMA LivingCalls ==
  /\ Living(<<>>)
  /\ \A f \in FrameType : f.call # "UnlockAll" => Living(<<f>>)
  /\ \A f, g \in FrameType : f.call # "UnlockAll" /\ g.call # "UnlockAll" => Living(<<f, g>>)
  /\ \A f, g, h \in FrameType :
        f.call # "UnlockAll" /\ g.call # "UnlockAll" /\ h.call # "UnlockAll" => Living(<<f, g, h>>)
  BY RangeShort, EmptyStack DEF Living

\* The calls of the steps.
LEMMA LivingFrames ==
  /\ Living(<<>>) /\ Living(<<SelectFrame>>) /\ Living(<<IfResched>>)
  /\ Living(<<Frame("SelectThread", TRUE)>>)
  /\ \A c \in {"Pick", "Idle"} : Living(<<Frame(c, None)>>)
  /\ \A t \in Thread : Living(<<Frame("ResumeThread", t)>>) /\ Living(<<Frame("Propagate", t)>>)
  /\ \A x \in BlockQueues : Living(<<Frame("WakeupThread", x)>>)
  /\ \A t \in Thread, p \in AnyPriority : Living(<<Frame("Promote", <<t, p>>)>>)
  /\ \A t \in Thread \cup {None} : Living(<<Frame("Switched", t)>>)
  /\ \A due \in SUBSET Thread, b \in BOOLEAN :
        Living(<<Frame("ProcessSleepTimers", due), Frame("Select", b)>>)
  /\ \A t \in Thread, x \in BlockQueues : Living(<<SelectFrame, Frame("Slept", <<t, x>>)>>)
  /\ \A t \in Thread, x \in BlockQueues : Living(<<Frame("SleepThread", x), Frame("Joined", t)>>)
  /\ \A t, u \in Thread, p \in AnyPriority, m \in Mutex :
        Living(<<Frame("Promote", <<u, p>>), Frame("SleepThread", MutexQ(m)), Frame("LockMutex", <<t, m>>)>>)
  <1>. DEFINE Other(f) == f \in FrameType /\ f.call # "UnlockAll"
  <1>1. \A f : Other(f) => Living(<<f>>)
    BY LivingCalls
  <1>2. \A f, g : Other(f) /\ Other(g) => Living(<<f, g>>)
    BY LivingCalls
  <1>3. \A f, g, h : Other(f) /\ Other(g) /\ Other(h) => Living(<<f, g, h>>)
    BY LivingCalls
  <1>4. Other(SelectFrame) /\ Other(IfResched)
    BY SelectFrames
  <1>5. /\ \A b \in BOOLEAN : Other(Frame("SelectThread", b)) /\ Other(Frame("Select", b))
        /\ \A due \in SUBSET Thread : Other(Frame("ProcessSleepTimers", due))
        /\ \A c \in {"Pick", "Idle"} : Other(Frame(c, None))
        /\ \A t \in Thread \cup {None} : Other(Frame("Switched", t))
    BY Frames
  <1>10. /\ \A x \in BlockQueues : Other(Frame("WakeupThread", x)) /\ Other(Frame("SleepThread", x))
         /\ \A t \in Thread, x \in BlockQueues : Other(Frame("Slept", <<t, x>>))
         /\ \A t \in Thread, p \in AnyPriority : Other(Frame("Promote", <<t, p>>))
         /\ \A t \in Thread, m \in Mutex : Other(Frame("LockMutex", <<t, m>>))
    BY Frames
  <1>11. \A t \in Thread : /\ Other(Frame("ResumeThread", t)) /\ Other(Frame("Propagate", t))
                           /\ Other(Frame("Joined", t))
    BY Frames
  <1>6. \A m \in Mutex : MutexQ(m) \in BlockQueues
    BY Addresses
  <1>. HIDE DEF Other
  <1>7. /\ Living(<<SelectFrame>>) /\ Living(<<IfResched>>)
        /\ Living(<<Frame("SelectThread", TRUE)>>)
        /\ \A c \in {"Pick", "Idle"} : Living(<<Frame(c, None)>>)
        /\ \A t \in Thread : Living(<<Frame("ResumeThread", t)>>) /\ Living(<<Frame("Propagate", t)>>)
        /\ \A x \in BlockQueues : Living(<<Frame("WakeupThread", x)>>)
        /\ \A t \in Thread, p \in AnyPriority : Living(<<Frame("Promote", <<t, p>>)>>)
        /\ \A t \in Thread \cup {None} : Living(<<Frame("Switched", t)>>)
    BY <1>1, <1>4, <1>5, <1>10, <1>11
  <1>8. /\ \A due \in SUBSET Thread, b \in BOOLEAN :
              Living(<<Frame("ProcessSleepTimers", due), Frame("Select", b)>>)
        /\ \A t \in Thread, x \in BlockQueues : Living(<<SelectFrame, Frame("Slept", <<t, x>>)>>)
        /\ \A t \in Thread, x \in BlockQueues : Living(<<Frame("SleepThread", x), Frame("Joined", t)>>)
    BY <1>2, <1>4, <1>5, <1>10, <1>11
  <1>9. \A t, u \in Thread, p \in AnyPriority, m \in Mutex :
           Living(<<Frame("Promote", <<u, p>>), Frame("SleepThread", MutexQ(m)), Frame("LockMutex", <<t, m>>)>>)
    BY <1>3, <1>10, <1>6
  <1>. QED BY <1>7, <1>8, <1>9, LivingCalls

\* So are those that OSSuspendThread and OSResumeThread end with.
LEMMA LivingPropagate ==
  ASSUME TypeOK, NEW m \in Mutex \cup {None}
  PROVE  Living(PropagateFrom(m) \o <<IfResched>>)
  <1>1. CASE m = None \/ owner[m] = None
    <2>1. <<>> \o <<IfResched>> = <<IfResched>>
      BY SelectFrames
    <2>. QED BY <1>1, <2>1, LivingFrames DEF PropagateFrom
  <1>2. CASE ~(m = None \/ owner[m] = None)
    <2>. DEFINE f == Frame("Propagate", owner[m])
    <2>1. f \in FrameType /\ f.call = "Propagate" /\ PropagateFrom(m) = <<f>>
      BY <1>2, Frames DEF TypeOK, PropagateFrom
    <2>. HIDE DEF f
    <2>2. <<f>> \o <<IfResched>> = <<f, IfResched>>
      BY TwoElements
    <2>. QED BY <2>1, <2>2, SelectFrames, LivingCalls
  <1>. QED BY <1>1, <1>2

\* A step that begins no end of a thread, and brings no thread back to life but with a stack of its own.
LEMMA EndsStep ==
  ASSUME TypeOK, EndsInv, UNCHANGED game, NEW k, Living(k),
         NEW r, r = Rest \/ r = stack[active],
         \A t \in Thread : \/ stack'[t] = <<>>
                           \/ /\ stack'[t] = [stack EXCEPT ![active] = k \o r][t] \/ stack'[t] = stack[t]
                              /\ Terminated(t) => Terminated(t)'
  PROVE  EndsInv'
  <1>1. /\ active \in Thread /\ r \in Seq(FrameType) /\ Range(r) \subseteq Range(stack[active])
        /\ stack[active] \in Seq(FrameType)
    BY TopFrame, RangeTop
  <1>2. Range(k \o r) = Range(k) \cup Range(r)
    BY <1>1, RangeConcat DEF Living
  <1>. DEFINE s == [stack EXCEPT ![active] = k \o r]
  <1>3. s[active] = k \o r /\ \A t \in Thread \ {active} : s[t] = stack[t]
    BY <1>1 DEF TypeOK
  <1>. HIDE DEF s
  <1>4. ASSUME NEW t \in Thread, NEW f \in Range(s[t]), f.call = "UnlockAll"
        PROVE  f \in Range(stack[t])
    BY <1>1, <1>2, <1>3, <1>4 DEF Living
  <1>5. Range(<<>>) = {}
    BY RangeShort
  <1>. QED BY <1>4, <1>5 DEF EndsInv, s

\* The same for the stacks of one call.
LEMMA EndsCalls ==
  ASSUME TypeOK, EndsInv, UNCHANGED game, \A t \in Thread : Terminated(t) => Terminated(t)',
         \/ stack' = stack
         \/ \E k : Living(k) /\ \/ stack' = [stack EXCEPT ![active] = k \o Rest]
                                \/ stack' = [stack EXCEPT ![active] = k \o stack[active]]
  PROVE  EndsInv'
  <1>1. CASE stack' = stack
    BY <1>1, EndsStep, LivingFrames
  <1>2. ASSUME NEW k, Living(k), NEW r, r = Rest \/ r = stack[active],
               stack' = [stack EXCEPT ![active] = k \o r]
        PROVE  EndsInv'
    BY <1>2, EndsStep
  <1>. QED BY <1>1, <1>2

\* Steps that leave the state of every thread as it is.
LEMMA SameStateEnds ==
  ASSUME Good, EndsInv, UNCHANGED game,
         \/ TimersDue \/ PumpEnds \/ IdleEnds \/ Switched \/ Reschedule \/ YieldThread \/ Exited
         \/ DisableScheduler \/ EnableScheduler
         \/ \E m \in Mutex : UnlockMutex(m) \/ \E t \in Thread : LockMutex(t, m)
         \/ \E t \in Thread : \/ PumpTimer(t) \/ IdleTimer(t) \/ UnlockAll(t) \/ Propagate(t)
                              \/ \E p \in AnyPriority : Promote(t, p)
  PROVE  EndsInv'
  <1>1. UNCHANGED state
    BY DEF TimersDue, PumpEnds, IdleEnds, Switched, Reschedule, YieldThread, Exited, DisableScheduler,
           EnableScheduler, UnlockMutex, LockMutex, PumpTimer, IdleTimer, FireSleepTimer, UnlockAll,
           Propagate, Promote
  <1>2. TypeOK
    BY DEF Good
  <1>. DEFINE Calls(k) == \/ stack' = [stack EXCEPT ![active] = k \o Rest]
                          \/ stack' = [stack EXCEPT ![active] = k \o stack[active]]
  <1>3. CASE TimersDue
    <2>1. PICK due \in SUBSET timers :
             stack' = [stack EXCEPT ![active] =
                          <<Frame("ProcessSleepTimers", due), Frame("Select", Arg)>> \o Rest]
      BY <1>3 DEF TimersDue, Continue
    <2>2. due \in SUBSET Thread /\ Arg \in BOOLEAN
      BY <1>2, <1>3, TopFrame, FrameArgs DEF TypeOK, TimersDue, Top, Arg, Selecting
    <2>3. Living(<<Frame("ProcessSleepTimers", due), Frame("Select", Arg)>>)
      BY <2>2, LivingFrames
    <2>. QED BY <1>1, <1>2, <2>1, <2>3, EndsCalls DEF Terminated
  <1>4. CASE PumpEnds \/ Switched \/ IdleEnds \/ Reschedule \/ YieldThread \/ Exited
             \/ DisableScheduler \/ EnableScheduler
    <2>1. stack' = stack \/ \E k : Living(k) /\ Calls(k)
      BY <1>4, LivingFrames DEF PumpEnds, Switched, IdleEnds, Reschedule, YieldThread, Exited, Return,
                                Continue, DisableScheduler, EnableScheduler
    <2>. QED BY <1>1, <1>2, <2>1, EndsCalls DEF Terminated
  <1>5. ASSUME NEW m \in Mutex, UnlockMutex(m) PROVE EndsInv'
    <2>1. stack' = stack \/ \E k : Living(k) /\ Calls(k)
      BY <1>5, LivingFrames, Addresses DEF UnlockMutex, Continue
    <2>. QED BY <1>1, <1>2, <2>1, EndsCalls DEF Terminated
  <1>6. ASSUME NEW m \in Mutex, NEW t \in Thread, LockMutex(t, m) PROVE EndsInv'
    <2>1. owner[m] \in Thread \cup {None} /\ prio[t] \in AnyPriority
      BY <1>2 DEF TypeOK
    <2>2. CASE owner[m] \in {None, t}
      <3>1. stack' = [stack EXCEPT ![active] = <<>> \o Rest]
        BY <1>6, <2>2 DEF LockMutex, Return, Continue
      <3>. QED BY <1>1, <1>2, <3>1, LivingFrames, EndsCalls DEF Terminated
    <2>3. CASE owner[m] \notin {None, t}
      <3>. DEFINE k == <<Frame("Promote", <<owner[m], prio[t]>>), Frame("SleepThread", MutexQ(m)),
                         Frame("LockMutex", <<t, m>>)>>
      <3>1. stack' = [stack EXCEPT ![active] = k \o Rest]
        <4>1. ~(owner[m] = None) /\ ~(owner[m] = t)
          BY <2>3
        <4>. QED BY <1>6, <4>1 DEF LockMutex, Continue
      <3>2. Living(k)
        BY <2>1, <2>3, LivingFrames
      <3>. HIDE DEF k
      <3>. QED BY <1>1, <1>2, <3>1, <3>2, EndsCalls DEF Terminated
    <2>. QED BY <2>2, <2>3
  <1>7. ASSUME NEW t \in Thread, PumpTimer(t) \/ IdleTimer(t) PROVE EndsInv'
    <2>1. stack' = stack \/ \E k : Living(k) /\ Calls(k)
      BY <1>7, LivingFrames DEF PumpTimer, IdleTimer, FireSleepTimer, Continue
    <2>. QED BY <1>1, <1>2, <2>1, EndsCalls DEF Terminated
  <1>8. ASSUME NEW t \in Thread, UnlockAll(t) PROVE EndsInv'
    <2>1. held[t] # <<>> => Head(held[t]) \in Mutex
      BY <1>2 DEF TypeOK
    <2>2. \E k : Living(k) /\ Calls(k)
      BY <1>8, <2>1, LivingFrames, Addresses DEF UnlockAll, Return, Continue
    <2>. QED BY <1>1, <1>2, <2>2, EndsCalls DEF Terminated
  <1>9. ASSUME NEW t \in Thread, Propagate(t) \/ \E p \in AnyPriority : Promote(t, p) PROVE EndsInv'
    <2>1. NextOwner(t) # None => NextOwner(t) \in Thread
      BY <1>2 DEF NextOwner, TypeOK
    <2>2. CASE Propagate(t)
      <3>1. \E k : Living(k) /\ Calls(k)
        BY <2>1, <2>2, LivingFrames DEF Propagate, Return, Continue
      <3>. QED BY <1>1, <1>2, <3>1, EndsCalls DEF Terminated
    <2>3. ASSUME NEW p \in AnyPriority, Promote(t, p) PROVE EndsInv'
      <3>1. \E k : Living(k) /\ Calls(k)
        BY <2>1, <2>3, LivingFrames DEF Promote, Return, Continue
      <3>. QED BY <1>1, <1>2, <3>1, EndsCalls DEF Terminated
    <2>. QED BY <1>9, <2>2, <2>3
  <1>. QED BY <1>3, <1>4, <1>5, <1>6, <1>7, <1>8, <1>9

\* Steps that change the state of a thread that has not ended, or of one that stays ended.
LEMMA OtherStateEnds ==
  ASSUME Good, EndsInv, UNCHANGED game, LockInv,
         \/ SelectThread
         \/ \E w \in WaitQueue : IdleInterrupt(w) \/ Interrupt(w)
         \/ \E x \in BlockQueues : SleepThread(x) \/ WakeupThread(x)
         \/ \E t \in Thread : \/ SuspendThread(t) \/ ResumeThread(t) \/ TickWoken(t)
                              \/ JoinThread(t) \/ Joined(t) \/ DetachThread(t)
                              \/ \E x \in BlockQueues : Slept(t, x)
  PROVE  EndsInv'
  <1>1. TypeOK
    BY DEF Good
  <1>. DEFINE Calls(k) == \/ stack' = [stack EXCEPT ![active] = k \o Rest]
                          \/ stack' = [stack EXCEPT ![active] = k \o stack[active]]
              Stay == \A u \in Thread : Terminated(u) => Terminated(u)'
  <1>2. CASE SelectThread
    <2>1. Stay
      BY <1>1, <1>2 DEF SelectThread, Terminated, TypeOK
    <2>2. \E k : Living(k) /\ Calls(k)
      BY <1>2, LivingFrames DEF SelectThread, Return, Continue
    <2>. QED BY <1>1, <2>1, <2>2, EndsCalls
  <1>3. ASSUME NEW w \in WaitQueue, IdleInterrupt(w) \/ Interrupt(w) PROVE EndsInv'
    <2>1. WaitQ(w) \in BlockQueues
      BY DEF BlockQueues
    <2>2. Stay
      BY <1>3, <2>1, WakeKeeps DEF SameEnded, IdleInterrupt, Interrupt, Good, LifeInv
    <2>3. stack' = stack \/ \E k : Living(k) /\ Calls(k)
      BY <1>3, LivingFrames DEF IdleInterrupt, Interrupt, Continue
    <2>. QED BY <1>1, <2>2, <2>3, EndsCalls
  <1>4. ASSUME NEW x \in BlockQueues, WakeupThread(x) PROVE EndsInv'
    <2>1. Stay
      BY <1>4, WakeKeeps DEF SameEnded, WakeupThread, Good, LifeInv
    <2>2. \E k : Living(k) /\ Calls(k)
      BY <1>4, LivingFrames DEF WakeupThread, Continue
    <2>. QED BY <1>1, <2>1, <2>2, EndsCalls
  <1>5. ASSUME NEW x \in BlockQueues, SleepThread(x) PROVE EndsInv'
    <2>1. running = active /\ state[active] = "running" /\ active \in Thread /\ running # None
      BY <1>1, <1>5, Sleeper, ConstantsAssumption DEF TypeOK
    <2>2. Stay
      BY <1>1, <1>5, <2>1 DEF SleepThread, Terminated, TypeOK
    <2>3. \E k : Living(k) /\ Calls(k)
      BY <1>5, <2>1, LivingFrames DEF SleepThread, Return, Continue
    <2>. QED BY <1>1, <2>2, <2>3, EndsCalls
  <1>6. ASSUME NEW t \in Thread, NEW x \in BlockQueues, Slept(t, x) PROVE EndsInv'
    <2>1. Stay
      BY <1>1, <1>6 DEF Slept, Terminated, TypeOK
    <2>2. \E k : Living(k) /\ Calls(k)
      BY <1>6, LivingFrames DEF Slept, Return, Continue
    <2>. QED BY <1>1, <2>1, <2>2, EndsCalls
  <1>7. ASSUME NEW t \in Thread, TickWoken(t) PROVE EndsInv'
    <2>1. Stay
      BY <1>1, <1>7 DEF TickWoken, Terminated, TypeOK
    <2>2. \E k : Living(k) /\ Calls(k)
      BY <1>7, LivingFrames DEF TickWoken, Return, Continue
    <2>. QED BY <1>1, <2>1, <2>2, EndsCalls
  <1>8. ASSUME NEW t \in Thread, SuspendThread(t) \/ ResumeThread(t) PROVE EndsInv'
    <2>1. Stay
      BY <1>1, <1>8 DEF SuspendThread, ResumeThread, Terminated, TypeOK
    <2>2. waitMutex[t] \in Mutex \cup {None}
      BY <1>1 DEF TypeOK
    <2>3. \E k : Living(k) /\ Calls(k)
      BY <1>1, <1>8, <2>2, LivingFrames, LivingPropagate DEF SuspendThread, ResumeThread, Return, Continue
    <2>. QED BY <1>1, <2>1, <2>3, EndsCalls
  <1>9. ASSUME NEW t \in Thread, JoinThread(t) \/ Joined(t) \/ DetachThread(t) PROVE EndsInv'
    <2>1. Stay
      BY <1>1, <1>9 DEF JoinThread, Joined, DetachThread, Reap, Terminated, TypeOK
    <2>2. stack' = stack \/ \E k : Living(k) /\ Calls(k)
      BY <1>9, LivingFrames, Addresses DEF JoinThread, Joined, DetachThread, Return, Continue
    <2>. QED BY <1>1, <2>1, <2>2, EndsCalls
  <1>. QED BY <1>2, <1>3, <1>4, <1>5, <1>6, <1>7, <1>8, <1>9

\* Pick frees the fiber of a thread that has ended.
LEMMA PickEnds ==
  ASSUME Good, EndsInv, UNCHANGED game, Pick
  PROVE  EndsInv'
  <1>1. TypeOK /\ Rest \in Seq(FrameType) /\ curGuest \in Thread \cup {None}
    BY TopFrame DEF Good, TypeOK
  <1>. DEFINE n == Head(q[RunQ(Min(pending))])
              k == <<Frame("Switched", curGuest)>>
  <1>2. /\ ~Terminated(n) /\ state' = [state EXCEPT ![n] = "running"]
        /\ \A t \in Thread : \/ stack'[t] = <<>>
                             \/ stack'[t] = [stack EXCEPT ![active] = Rest][t]
                             \/ stack'[t] = [stack EXCEPT ![active] = k \o Rest][t]
    <2>1. stack' = [stack EXCEPT ![active] = IF n = active THEN Rest
                                             ELSE IF dead[active] THEN <<>> ELSE k \o Rest]
      BY DEF Pick
    <2>2. ~Terminated(n) /\ state' = [state EXCEPT ![n] = "running"]
      BY DEF Pick
    <2>. HIDE DEF n, k
    <2>. QED BY <1>1, <2>1, <2>2 DEF TypeOK
  <1>. HIDE DEF n
  <1>3. \A t \in Thread : Terminated(t) => Terminated(t)'
    BY <1>1, <1>2 DEF Terminated, TypeOK
  <1>4. Living(k) /\ Living(<<>>) /\ <<>> \o Rest = Rest
    BY <1>1, LivingFrames, ConcatEmptySeq
  <1>5. CASE stack'[active] = k \o Rest
    <2>1. \A t \in Thread : stack'[t] = <<>> \/ stack'[t] = [stack EXCEPT ![active] = k \o Rest][t]
      BY <1>1, <1>2, <1>5 DEF TypeOK
    <2>. HIDE DEF k
    <2>. QED BY <1>1, <1>3, <1>4, <2>1, EndsStep
  <1>6. CASE stack'[active] # k \o Rest
    <2>1. \A t \in Thread : stack'[t] = <<>> \/ stack'[t] = [stack EXCEPT ![active] = Rest][t]
      <3>. HIDE DEF k
      <3>. QED BY <1>1, <1>2, <1>6 DEF TypeOK
    <2>. DEFINE e == <<>>
    <2>2. Living(e) /\ Rest = e \o Rest
      BY <1>4
    <2>. HIDE DEF e, k
    <2>3. \A t \in Thread : stack'[t] = <<>> \/ stack'[t] = [stack EXCEPT ![active] = e \o Rest][t]
      BY ONLY <2>1, <2>2
    <2>. QED BY <1>1, <1>3, <2>2, <2>3, EndsStep
  <1>. QED BY <1>5, <1>6

\* Arming a timer makes no call one of UnlockAllMutexNative.
LEMMA SleepTicksEnds ==
  ASSUME Good, EndsInv, UNCHANGED game, NEW t \in Thread, SleepTicks(t)
  PROVE  EndsInv'
  <1>1. TypeOK /\ UNCHANGED state
    BY DEF Good, SleepTicks
  <1>2. ASSUME NEW s \in Seq(FrameType), NEW f \in Range(NotDue(s, t)), f.call = "UnlockAll"
        PROVE  f \in Range(s)
    <2>1. PICK i \in DOMAIN s : f = NotDue(s, t)[i]
      BY DEF NotDue, Range
    <2>2. f = s[i]
      BY <1>2, <2>1, Frames DEF NotDue
    <2>. QED BY <2>2 DEF Range
  <1>. DEFINE k == <<Frame("SuspendThread", t), Frame("TickWoken", t)>>
  <1>3. \A f \in Range(k) : f.call # "UnlockAll"
    BY RangeShort, Frames
  <1>4. \A u \in Thread : stack[u] \in Seq(FrameType)
                          /\ stack'[u] = IF u = active THEN k ELSE NotDue(stack[u], t)
    BY <1>1 DEF SleepTicks, TypeOK
  <1>. HIDE DEF k
  <1>5. \A u \in Thread : \A f \in Range(stack'[u]) : f.call = "UnlockAll" => f \in Range(stack[u])
    BY <1>2, <1>3, <1>4
  <1>. QED BY <1>1, <1>5 DEF EndsInv, Terminated

\* The stack of a new thread is empty.
LEMMA CreateEnds ==
  ASSUME Good, EndsInv, UNCHANGED game, NEW t \in Thread, NEW p, NEW d, CreateThread(t, p, d)
  PROVE  EndsInv'
  <1>1. /\ stack'[t] = <<>> /\ \A u \in Thread \ {t} : stack'[u] = stack[u] /\ state'[u] = state[u]
        /\ Range(<<>>) = {}
    BY RangeShort DEF CreateThread, Good, TypeOK
  <1>. QED BY <1>1 DEF EndsInv, Terminated

\* OSExitThread ends the thread that unlocks its mutexes then.
LEMMA EndEnds ==
  ASSUME Good, EndsInv, UNCHANGED game, ExitThread \/ \E t \in Thread : CancelThread(t)
  PROVE  EndsInv'
  <1>1. CASE \E t \in Thread : CancelThread(t)
    BY <1>1 DEF EndsInv, CancelThread, GuestCalls
  <1>2. CASE ExitThread
    <2>1. /\ TypeOK /\ active \in Thread /\ Rest \in Seq(FrameType) /\ GuestCode /\ running = active
          /\ UNCHANGED active
      <3>1. GuestCode /\ UNCHANGED active
        BY <1>2 DEF ExitThread, GuestCalls
      <3>. QED BY <3>1, TopFrame, ModeOf DEF Good, Executing
    <2>. DEFINE e == Frame("Exited", None)
                f == Frame("UnlockAll", active)
                g == Frame("WakeupThread", JoinQ(active))
                s == (EndCalls(active) \o <<e>>) \o Rest
    <2>2. /\ \A u \in Thread : stack'[u] = IF u = active THEN s ELSE stack[u]
          /\ Terminated(active)' /\ \A u \in Thread : Terminated(u) => Terminated(u)'
      <3>1. /\ state' = [state EXCEPT ![active] = IF detached[active] THEN "none" ELSE "moribund"]
            /\ stack' = [u \in Thread |-> IF u = active THEN s ELSE IF u = active THEN <<>> ELSE stack[u]]
        BY <1>2, <2>1 DEF ExitThread, Terminate
      <3>. HIDE DEF s
      <3>2. \A u \in Thread : stack'[u] = IF u = active THEN s ELSE stack[u]
        BY <3>1
      <3>3. state'[active] \in {"none", "moribund"} /\ \A u \in Thread \ {active} : state'[u] = state[u]
        BY <2>1, <3>1 DEF TypeOK
      <3>. QED BY <2>1, <3>2, <3>3 DEF Terminated
    <2>3. Range(s) = {f, g, e} \cup Range(Rest)
      <3>1. f \in FrameType /\ g \in FrameType /\ e \in FrameType /\ EndCalls(active) = <<f, g>>
        BY <2>1, Frames, Addresses DEF EndCalls
      <3>. HIDE DEF e, f, g
      <3>. DEFINE a == <<f, g>>
                  b == <<e>>
      <3>2. a \in Seq(FrameType) /\ b \in Seq(FrameType) /\ Range(a) = {f, g} /\ Range(b) = {e}
        BY <3>1, RangeShort
      <3>3. EndCalls(active) = a /\ s = (a \o b) \o Rest
        BY <3>1 DEF s
      <3>. HIDE DEF a, b
      <3>4. a \o b \in Seq(FrameType) /\ Range(a \o b) = {f, g} \cup {e}
        BY <3>2, RangeConcat
      <3>5. Range((a \o b) \o Rest) = ({f, g} \cup {e}) \cup Range(Rest)
        BY <2>1, <3>4, RangeConcat
      <3>. QED BY <3>3, <3>5
    <2>4. f.call = "UnlockAll" /\ f.arg = active /\ g.call # "UnlockAll" /\ e.call # "UnlockAll"
      BY Frames
    <2>5. Range(Rest) \subseteq Range(stack[active])
      BY <2>1, RangeTop
    <2>. HIDE DEF e, f, g, s
    <2>6. \A u \in Thread : \A h \in Range(stack'[u]) : h.call = "UnlockAll" =>
             h \in Range(stack[u]) \/ (u = active /\ h.arg = u)
      BY <2>2, <2>3, <2>4, <2>5
    <2>7. SUFFICES ASSUME "CancelThread" \notin game.calls, NEW u \in Thread, NEW h \in Range(stack'[u]),
                          h.call = "UnlockAll"
                   PROVE  h.arg = u /\ Terminated(u)'
      BY DEF EndsInv
    <2>8. CASE h \in Range(stack[u])
      BY <2>2, <2>7, <2>8 DEF EndsInv
    <2>9. CASE u = active /\ h.arg = u
      BY <2>1, <2>2, <2>9
    <2>. QED BY <2>6, <2>7, <2>8, <2>9
  <1>. QED BY <1>1, <1>2

\* Every action keeps EndsInv.
LEMMA StepEnds ==
  ASSUME NoReturn, Good, LockInv, EndsInv, Next
  PROVE  EndsInv'
  <1>1. Step /\ UNCHANGED game
    BY DEF Next
  <1>2. CASE \/ TimersDue \/ PumpEnds \/ IdleEnds \/ Switched \/ Reschedule \/ YieldThread \/ Exited
             \/ DisableScheduler \/ EnableScheduler
             \/ \E m \in Mutex : UnlockMutex(m) \/ \E t \in Thread : LockMutex(t, m)
             \/ \E t \in Thread : \/ PumpTimer(t) \/ IdleTimer(t) \/ UnlockAll(t) \/ Propagate(t)
                                  \/ \E p \in AnyPriority : Promote(t, p)
    BY <1>1, <1>2, SameStateEnds
  <1>3. CASE \/ SelectThread
             \/ \E w \in WaitQueue : IdleInterrupt(w) \/ Interrupt(w)
             \/ \E x \in BlockQueues : SleepThread(x) \/ WakeupThread(x)
             \/ \E t \in Thread : \/ SuspendThread(t) \/ ResumeThread(t) \/ TickWoken(t)
                                  \/ JoinThread(t) \/ Joined(t) \/ DetachThread(t)
                                  \/ \E x \in BlockQueues : Slept(t, x)
    BY <1>1, <1>3, OtherStateEnds
  <1>4. CASE Pick
    BY <1>1, <1>4, PickEnds
  <1>5. CASE ExitThread \/ \E t \in Thread : CancelThread(t)
    BY <1>1, <1>5, EndEnds
  <1>6. CASE ReturnFromEntry
    BY <1>6 DEF ReturnFromEntry, GuestCalls, NoReturn
  <1>7. CASE \E t \in Thread : SleepTicks(t)
    BY <1>1, <1>7, SleepTicksEnds
  <1>8. CASE \E t \in Thread : \E p \in game.priorities, d \in game.attributes : CreateThread(t, p, d)
    BY <1>1, <1>8, CreateEnds
  <1>. QED BY <1>1, <1>2, <1>3, <1>4, <1>5, <1>6, <1>7, <1>8 DEF Step

-----------------------------------------------------------------------------
(* The games whose priorities are in order.                                *)

\* At the start there is one thread, and nobody waits.
LEMMA InitRanks ==
  ASSUME Init
  PROVE  RankInv /\ EndsInv
  <1>1. /\ \A t \in Thread : stack[t] = <<>> /\ state[t] # "waiting" /\ prio[t] = base[t]
        /\ disabled = 0 /\ active \in Thread /\ game.main \in Nat
    BY ConstantsAssumption DEF Init
  <1>2. \A s : s = <<>> => Range(s) = {} /\ LightCalls(s)
    BY RangeShort, LightFrames
  <1>3. stack[active] = <<>> /\ Rest = <<>>
    BY <1>1 DEF Rest
  <1>4. /\ \A c : ~Top(c)
        /\ \A f : ~Topmost(f)
    BY <1>3 DEF Top, Topmost
  <1>5. ChainInv
    BY <1>1, <1>2, <1>3, <1>4 DEF ChainInv
  <1>6. \A t : ~Promotes(t) /\ ~Blocked(t)
    BY <1>4 DEF Promotes, Blocked, Blocks
  <1>7. \A t, m : t \in Thread => ~Sleeps(t, m)
    BY <1>1 DEF Sleeps
  <1>8. \A t \in Thread : prio[t] <= base[t] /\ base[t] <= prio[t]
    BY <1>1 DEF Init
  <1>9. SleepsInv /\ AtMostInv
    BY <1>6, <1>7, <1>8 DEF SleepsInv, AtMostInv, AtMost
  <1>10. EarnInv
    BY <1>1, <1>6, <1>8 DEF EarnInv, Earns
  <1>11. EndsInv
    BY <1>1, <1>2 DEF EndsInv
  <1>. QED BY <1>5, <1>9, <1>10, <1>11 DEF RankInv

\* A step of something else keeps it all.
LEMMA StutterRanks ==
  ASSUME RankInv, EndsInv, UNCHANGED vars
  PROVE  RankInv' /\ EndsInv'
  <1>1. UNCHANGED <<game, state, suspend, prio, base, queue, waitMutex, owner, disabled, active, stack>>
    BY DEF vars
  <1>2. ChainInv'
    BY <1>1 DEF RankInv, ChainInv, Top, Topmost, Rest, LightCalls, Light, Frame, IfResched
  <1>3. SleepsInv' /\ AtMostInv'
    BY <1>1 DEF RankInv, SleepsInv, AtMostInv, AtMost, Sleeps, Ranks, Terminated, Topmost, Frame,
                Promotes, Blocked, Blocks, Top
  <1>4. Steady' => EarnInv'
    BY <1>1 DEF RankInv, Steady, EarnInv, Earns, Sleeps, Ranks, Terminated, Topmost, Frame,
                Promotes, Blocked, Blocks, Top
  <1>5. EndsInv'
    BY <1>1 DEF EndsInv, Terminated
  <1>. QED BY <1>2, <1>3, <1>4, <1>5 DEF RankInv

\* Every action keeps RankInv.
LEMMA StepRanks ==
  ASSUME NoReturn, Good, Good', LockInv, EndsInv, RankInv, Next
  PROVE  RankInv'
  <1>1. Step /\ UNCHANGED game
    BY DEF Next
  <1>2. CASE \/ TimersDue \/ PumpEnds \/ IdleEnds \/ Switched \/ Reschedule \/ YieldThread \/ Exited
             \/ DisableScheduler \/ EnableScheduler
    BY <1>1, <1>2, SchedulerRanks
  <1>3. CASE SelectThread \/ Pick
    BY <1>1, <1>3, SwitchRanks
  <1>4. CASE ExitThread
    <2>1. running \in Thread
      BY <1>4 DEF ExitThread, Good, TypeOK
    <2>. QED BY <1>1, <1>4, <2>1, EndRanks
  <1>5. CASE ReturnFromEntry
    BY <1>5 DEF ReturnFromEntry, GuestCalls, NoReturn
  <1>6. ASSUME NEW w \in WaitQueue, IdleInterrupt(w) \/ Interrupt(w) PROVE RankInv'
    <2>1. WaitQ(w) \in BlockQueues
      BY DEF BlockQueues
    <2>. QED BY <1>1, <1>6, <2>1, WakeRanks
  <1>7. ASSUME NEW x \in BlockQueues, SleepThread(x) \/ WakeupThread(x) PROVE RankInv'
    BY <1>1, <1>7, SleepRanks, WakeRanks
  <1>8. ASSUME NEW m \in Mutex, UnlockMutex(m) PROVE RankInv'
    BY <1>1, <1>8, UnlockRanks
  <1>9. ASSUME NEW t \in Thread, PumpTimer(t) \/ IdleTimer(t) PROVE RankInv'
    BY <1>1, <1>9, FireRanks
  <1>10. ASSUME NEW t \in Thread, SuspendThread(t) \/ ResumeThread(t) PROVE RankInv'
    BY <1>1, <1>10, SuspendRanks, ResumeRanks
  <1>11. ASSUME NEW t \in Thread, SleepTicks(t) PROVE RankInv'
    BY <1>1, <1>11, SleepTicksRanks
  <1>12. ASSUME NEW t \in Thread, TickWoken(t) \/ \E x \in BlockQueues : Slept(t, x) PROVE RankInv'
    BY <1>1, <1>12, BackRanks
  <1>13. ASSUME NEW t \in Thread, Propagate(t) \/ UnlockAll(t) PROVE RankInv'
    BY <1>1, <1>13, PropagateRanks, UnlockAllRanks
  <1>14. ASSUME NEW t \in Thread, CancelThread(t) PROVE RankInv'
    BY <1>1, <1>14, EndRanks
  <1>15. ASSUME NEW t \in Thread, JoinThread(t) \/ Joined(t) \/ DetachThread(t) PROVE RankInv'
    BY <1>1, <1>15, JoinRanks, ReapRanks
  <1>16. ASSUME NEW t \in Thread, NEW p \in AnyPriority, Promote(t, p) PROVE RankInv'
    BY <1>1, <1>16, PromoteRanks
  <1>17. ASSUME NEW t \in Thread, NEW p \in game.priorities, NEW d \in game.attributes,
                CreateThread(t, p, d)
         PROVE  RankInv'
    BY <1>1, <1>17, CreateRanks
  <1>18. ASSUME NEW t \in Thread, NEW m \in Mutex, LockMutex(t, m) PROVE RankInv'
    BY <1>1, <1>18, TakeRanks, BlockRanks
  <1>. QED BY <1>1, <1>2, <1>3, <1>4, <1>5, <1>6, <1>7, <1>8, <1>9, <1>10, <1>11, <1>12, <1>13,
              <1>14, <1>15, <1>16, <1>17, <1>18 DEF Step

\* OSLockMutex, OSUnlockMutex, OSSuspendThread, OSResumeThread and what they are cut into keep
\* RankInv, with the queues, the fibers and the mutexes right.
THEOREM RanksInvariant ==
  ASSUME FewThreads
  PROVE  Spec => [](Orderly => Good /\ LockInv /\ EndsInv /\ RankInv)
  <1>1. Init => (Orderly => Good /\ LockInv /\ EndsInv /\ RankInv)
    BY InitGood, InitLocks, InitRanks
  <1>2. (Orderly => Good /\ LockInv /\ EndsInv /\ RankInv) /\ [Next]_vars
           => (Orderly => Good /\ LockInv /\ EndsInv /\ RankInv)'
    <2>. SUFFICES ASSUME Orderly => Good /\ LockInv /\ EndsInv /\ RankInv, [Next]_vars, Orderly'
                  PROVE  Good' /\ LockInv' /\ EndsInv' /\ RankInv'
      OBVIOUS
    <2>1. UNCHANGED game
      BY DEF Next, vars
    <2>2. Orderly /\ NoReturn
      BY <2>1 DEF Orderly, NoReturn, EndsThreads
    <2>3. Good' /\ LockInv'
      BY <2>2, StepGood, StutterGood, StepLocks, StutterLocks
    <2>4. CASE Next
      BY <2>2, <2>3, <2>4, StepEnds, StepRanks
    <2>5. CASE UNCHANGED vars
      BY <2>2, <2>3, <2>5, StutterRanks
    <2>. QED BY <2>4, <2>5
  <1>. QED BY <1>1, <1>2, PTL DEF Spec

\* The owner of a mutex runs at the priority of its best waiter at least: through chains of owners
\* that wait themselves, suspended threads on the way, unlocking, and waiters that are suspended
\* and resumed.
THEOREM OwnersHaveInherited ==
  ASSUME FewThreads
  PROVE  Spec => [](Orderly => OwnersInherit)
  <1>1. Good /\ LockInv /\ RankInv => OwnersInherit
    <2>. SUFFICES ASSUME Good, LockInv, RankInv, GuestCode, NEW m \in Mutex,
                         owner[m] # None, suspend[owner[m]] = 0, NEW t \in Range(q[MutexQ(m)])
                  PROVE  prio[owner[m]] <= prio[t]
      BY DEF OwnersInherit
    <2>1. PICK o : o = owner[m]
      OBVIOUS
    <2>2. o \in Thread /\ m \in Range(held[o])
      BY <2>1 DEF Good, TypeOK, LockInv, HeldInv
    <2>3. ~Terminated(o)
      <3>1. held[o] # <<>>
        BY <2>2, RangeShort
      <3>. QED BY <2>2, <3>1 DEF LockInv, EndInv, Topmost, GuestCode
    <2>4. AtMost(o)
      BY <2>1, <2>2, <2>3 DEF Ranks, RankInv, AtMostInv, Topmost, GuestCode
    <2>5. t \in Thread /\ Sleeps(t, m)
      BY SleeperLinked DEF Good
    <2>6. ~Promotes(o)
      BY DEF Promotes, Topmost, GuestCode
    <2>. QED BY <2>1, <2>4, <2>5, <2>6 DEF AtMost
  <1>2. (Orderly => Good /\ LockInv /\ EndsInv /\ RankInv) => (Orderly => OwnersInherit)
    BY <1>1
  <1>. QED BY <1>2, RanksInvariant, PTL

-----------------------------------------------------------------------------
(* Preemption.                                                             *)

\* A call that comes to SelectThread before the guest code of its thread goes on.
Looks(f) == \/ f.call \in {"SelectThread", "Select", "SleepThread"}
            \/ f.call = "IfResched" /\ resched
LooksAhead == \E f \in Range(stack[active]) : Looks(f)

Respects == \A p \in pending : prio[active] <= p

\* A thread is about to be woken, and its waker to look for a better one.
Waking == \E m \in Mutex, t \in Thread :
             Topmost(Frame("WakeupThread", MutexQ(m))) /\ Sleeps(t, m) /\ suspend[t] = 0

\* No better thread is ready than the one that executes, unless that is to look for one.
RespectInv ==
    state[active] = "running" /\ ~Top("SuspendThread") => Respects \/ LooksAhead \/ Waking

\* The calls that come to their end without a look for another thread, whoever goes on then.
Passing == {"ProcessSleepTimers", "Switched", "Slept", "UnlockAll", "Joined", "TickWoken", "LockMutex",
            "Propagate", "ResumeThread"}

\* The calls under the one that ends or makes others stay.
LEMMA RestStays ==
  ASSUME TypeOK,
         \/ stack' = stack
         \/ \E k \in Seq(FrameType) : \/ stack' = [stack EXCEPT ![active] = k \o Rest]
                                      \/ stack' = [stack EXCEPT ![active] = k \o stack[active]]
  PROVE  Range(Rest) \subseteq Range(stack'[active])
  <1>1. /\ active \in Thread /\ Rest \in Seq(FrameType) /\ stack[active] \in Seq(FrameType)
        /\ Range(Rest) \subseteq Range(stack[active])
    BY TopFrame, RangeTop
  <1>2. ASSUME NEW k \in Seq(FrameType), NEW r \in Seq(FrameType), stack' = [stack EXCEPT ![active] = k \o r]
        PROVE  Range(r) \subseteq Range(stack'[active])
    <2>1. stack'[active] = k \o r
      BY <1>1, <1>2 DEF TypeOK
    <2>2. Range(k \o r) = Range(k) \cup Range(r)
      BY RangeConcat
    <2>. QED BY <2>1, <2>2
  <1>. QED BY <1>1, <1>2

\* No look for another thread is missed, where no thread gets ready and none better.
LEMMA RespectKept ==
  ASSUME TypeOK, RespectInv, UNCHANGED active, pending' \subseteq pending, resched => resched',
         state'[active] = "running" => state[active] = "running" /\ prio'[active] = prio[active],
         GuestCode \/ (\E c \in Passing : Top(c)) \/ (Top("IfResched") /\ ~resched)
           \/ (Top("WakeupThread") /\ ~Waking),
         Range(Rest) \subseteq Range(stack'[active])
  PROVE  RespectInv'
  <1>1. ~Waking /\ ~Top("SuspendThread")
    BY Frames DEF Waking, Topmost, GuestCode, Top, Passing
  <1>2. LooksAhead => \E f \in Range(Rest) : Looks(f)
    <2>1. \A c : Top(c) => stack[active] # <<>> /\ Head(stack[active]).call = c
      BY DEF Top
    <2>2. stack[active] # <<>> => ~Looks(Head(stack[active]))
      BY <2>1 DEF Looks, Passing, GuestCode
    <2>. QED BY <2>2, RangeTop DEF LooksAhead
  <1>3. LooksAhead => LooksAhead'
    BY <1>2 DEF LooksAhead, Looks
  <1>. QED BY <1>1, <1>3 DEF RespectInv, Respects

\* A call that is to look for another thread.
LEMMA RespectLooks ==
  ASSUME TypeOK, UNCHANGED active, NEW k \in Seq(FrameType), NEW r \in Seq(FrameType),
         stack' = [stack EXCEPT ![active] = k \o r],
         NEW f \in Range(k) \cup Range(r),
         f.call \in {"SelectThread", "Select", "SleepThread"} \/ (f.call = "IfResched" /\ resched')
  PROVE  RespectInv'
  <1>1. active \in Thread /\ stack'[active] = k \o r
    BY DEF TypeOK
  <1>2. f \in Range(stack'[active])
    BY <1>1, RangeConcat
  <1>. QED BY <1>2 DEF RespectInv, LooksAhead, Looks

\* Who executes guest code, or a call that does no switch, is the running thread.
LEMMA RunnerIs ==
  ASSUME Good, state[active] = "running", ~Top("SuspendThread")
  PROVE  /\ running = active /\ current = active /\ active \in Thread
         /\ ~Top("Idle") /\ ~Top("Pick")
  <1>1. Executing
    BY DEF Good, FiberInv, Arming, Leaving, Picking, Idle
  <1>2. ~Top("Idle") /\ ~Top("Pick")
    <2>1. stack[active] # <<>> => PlainFrame(active, Head(stack[active]))
      <3>1. stack[active] # <<>> => 1 \in DOMAIN stack[active] /\ Head(stack[active]) = stack[active][1]
        BY EmptySeq, LenProperties DEF Good, TypeOK
      <3>. QED BY <1>1, <3>1 DEF Executing, Plain
    <2>. QED BY <2>1 DEF Top, PlainFrame
  <1>. QED BY <1>1, <1>2 DEF Executing, Good, TypeOK

\* Calls that change no priority and wake no thread.
LEMMA SchedulerRespects ==
  ASSUME Good, RespectInv, UNCHANGED game, Steady,
         \/ TimersDue \/ PumpEnds \/ IdleEnds \/ Switched \/ Reschedule \/ YieldThread \/ Exited
         \/ DisableScheduler \/ EnableScheduler \/ \E t \in Thread : PumpTimer(t) \/ IdleTimer(t)
  PROVE  RespectInv'
  <1>1. TypeOK /\ Rest \in Seq(FrameType)
    BY TopFrame DEF Good
  <1>. DEFINE Calls(k) == \/ stack' = [stack EXCEPT ![active] = k \o Rest]
                          \/ stack' = [stack EXCEPT ![active] = k \o stack[active]]
  <1>2. /\ UNCHANGED <<state, prio, pending, active>> /\ (resched => resched')
    <2>1. CASE TimersDue \/ PumpEnds \/ IdleEnds \/ Switched \/ Reschedule \/ YieldThread
      BY <2>1 DEF TimersDue, PumpEnds, IdleEnds, Switched, Reschedule, YieldThread, prioVars, linkVars, fiberVars
    <2>2. CASE Exited
      BY <2>2 DEF Exited, prioVars, linkVars, fiberVars
    <2>3. CASE DisableScheduler \/ EnableScheduler
      BY <2>3 DEF DisableScheduler, EnableScheduler, prioVars, linkVars, fiberVars
    <2>4. CASE \E t \in Thread : PumpTimer(t) \/ IdleTimer(t)
      BY <2>4 DEF PumpTimer, IdleTimer, FireSleepTimer, prioVars, linkVars, fiberVars
    <2>. QED BY <2>1, <2>2, <2>3, <2>4
  <1>3. CASE TimersDue
    <2>1. PICK due \in SUBSET timers :
             stack' = [stack EXCEPT ![active] =
                          <<Frame("ProcessSleepTimers", due), Frame("Select", Arg)>> \o Rest]
      BY <1>3 DEF TimersDue, Continue
    <2>2. due \in SUBSET Thread /\ Arg \in BOOLEAN
      BY <1>1, <1>3, TopFrame, FrameArgs DEF TypeOK, TimersDue, Top, Arg, Selecting
    <2>. DEFINE f == Frame("ProcessSleepTimers", due)
                g == Frame("Select", Arg)
    <2>3. f \in FrameType /\ g \in FrameType /\ g.call = "Select"
      BY <2>2, Frames
    <2>. HIDE DEF f, g
    <2>4. <<f, g>> \in Seq(FrameType) /\ g \in Range(<<f, g>>)
      BY <2>3, RangeShort
    <2>. QED BY <1>1, <1>2, <2>1, <2>3, <2>4, RespectLooks DEF f, g
  <1>4. CASE PumpEnds \/ Switched
    <2>1. Top("ProcessSleepTimers") \/ Top("Switched")
      BY <1>4 DEF PumpEnds, Switched
    <2>2. stack' = [stack EXCEPT ![active] = <<>> \o Rest] /\ <<>> \in Seq(FrameType)
      BY <1>4, EmptyStack DEF PumpEnds, Switched, Return, Continue
    <2>. QED BY <1>1, <1>2, <2>1, <2>2, RestStays, RespectKept DEF Passing
  <1>5. CASE IdleEnds \/ \E t \in Thread : IdleTimer(t)
    BY <1>2, <1>5, RunnerIs DEF IdleEnds, IdleTimer, RespectInv, Top
  <1>6. CASE \E t \in Thread : PumpTimer(t)
    <2>1. Top("ProcessSleepTimers") /\ (stack' = stack \/ \E k : Living(k) /\ Calls(k))
      BY <1>6, LivingFrames DEF PumpTimer, FireSleepTimer, Continue
    <2>. QED BY <1>1, <1>2, <2>1, RestStays, RespectKept DEF Passing, Living
  <1>7. CASE Reschedule
    <2>1. CASE resched
      <3>1. SelectFrame \in FrameType /\ SelectFrame.call = "SelectThread"
        BY SelectFrames
      <3>2. stack' = [stack EXCEPT ![active] = <<SelectFrame>> \o Rest]
        BY <1>7, <2>1 DEF Reschedule, Continue
      <3>3. <<SelectFrame>> \in Seq(FrameType) /\ SelectFrame \in Range(<<SelectFrame>>)
        BY <3>1, RangeShort
      <3>. QED BY <1>1, <1>2, <3>1, <3>2, <3>3, RespectLooks
    <2>2. CASE ~resched
      <3>1. Top("IfResched") /\ stack' = [stack EXCEPT ![active] = <<>> \o Rest] /\ <<>> \in Seq(FrameType)
        BY <1>7, <2>2, EmptyStack DEF Reschedule, Continue
      <3>. QED BY <1>1, <1>2, <2>2, <3>1, RestStays, RespectKept
    <2>. QED BY <2>1, <2>2
  <1>8. CASE YieldThread \/ Exited
    <2>. DEFINE f == Frame("SelectThread", TRUE)
    <2>1. \E g \in {f, SelectFrame} : stack' = [stack EXCEPT ![active] = <<g>> \o Rest]
      BY <1>8 DEF YieldThread, Exited, Continue
    <2>2. f \in FrameType /\ f.call = "SelectThread"
      BY Frames
    <2>. HIDE DEF f
    <2>3. PICK g \in FrameType : g.call = "SelectThread" /\ stack' = [stack EXCEPT ![active] = <<g>> \o Rest]
      BY <2>1, <2>2, SelectFrames
    <2>4. <<g>> \in Seq(FrameType) /\ g \in Range(<<g>>)
      BY RangeShort
    <2>. QED BY <1>1, <1>2, <2>3, <2>4, RespectLooks
  <1>9. CASE DisableScheduler \/ EnableScheduler
    BY <1>9 DEF DisableScheduler, EnableScheduler, GuestCalls, Steady
  <1>. QED BY <1>3, <1>4, <1>5, <1>6, <1>7, <1>8, <1>9

\* SelectThread leaves the processor to the best thread that is ready, and Pick gives it that one.
LEMMA SwitchRespects ==
  ASSUME Good, RankInv, Steady, RespectInv, UNCHANGED game, SelectThread \/ Pick
  PROVE  RespectInv'
  <1>1. CASE SelectThread
    <2>. SUFFICES ASSUME state'[active] = "running" PROVE Respects'
      BY <1>1 DEF RespectInv, SelectThread, fiberVars
    <2>1. /\ disabled = 0 /\ active \in Thread /\ state \in [Thread -> State]
          /\ UNCHANGED <<prio, active>> /\ ~Top("SuspendThread")
      BY <1>1 DEF RankInv, EarnInv, Good, TypeOK, SelectThread, prioVars, fiberVars, Top
    <2>2. CASE KeepsCpu(Arg)
      <3>1. UNCHANGED <<state, pending>>
        BY <1>1, <2>2 DEF SelectThread, linkVars
      <3>2. running = active /\ current = active
        BY <2>1, <3>1, RunnerIs
      <3>3. active # None
        BY <2>1, ConstantsAssumption
      <3>4. \A p \in pending : prio[running] <= p
        BY <2>1, <2>2, <3>2, <3>3 DEF KeepsCpu
      <3>. QED BY <2>1, <3>1, <3>2, <3>4 DEF Respects
    <2>3. CASE ~KeepsCpu(Arg)
      <3>1. running \in Thread
        BY <2>3 DEF KeepsCpu, Good, TypeOK
      <3>2. state[running] = "running" => state' = [state EXCEPT ![running] = "ready"]
        BY <1>1, <2>3 DEF SelectThread
      <3>3. state[running] # "running" => state' = state
        BY <1>1, <2>3 DEF SelectThread
      <3>4. state[active] = "running" => running = active
        BY <2>1, RunnerIs
      <3>. QED BY <2>1, <3>1, <3>2, <3>3, <3>4
    <2>. QED BY <2>2, <2>3
  <1>2. CASE Pick
    <2>1. pending # {} /\ Picking
      BY <1>2, ModeOf DEF Pick, Top, Good, Picking
    <2>2. Min(pending) \in pending /\ pending \subseteq Priority /\ \A p \in pending : Min(pending) <= p
      BY <2>1, LeastNatural, PriorityFacts DEF Good, TypeOK
    <2>3. PICK b : b = Min(pending)
      OBVIOUS
    <2>4. b \in Priority /\ RunQ(b) \in Queue /\ q[RunQ(b)] # <<>> /\ q[RunQ(b)] \in Seq(Thread)
      BY <2>2, <2>3, Addresses DEF Good, QueueInv, Queues
    <2>5. PICK n : n = Head(q[RunQ(b)])
      OBVIOUS
    <2>6. n \in Range(q[RunQ(b)]) /\ n \in Thread
      <3>1. 1 \in DOMAIN q[RunQ(b)] /\ Head(q[RunQ(b)]) = q[RunQ(b)][1]
        BY <2>4, EmptySeq, LenProperties
      <3>. QED BY <2>4, <2>5, <3>1, HeadTail DEF Range
    <2>7. Home[n] = RunQ(b)
      <3>. HIDE DEF Home
      <3>. QED BY <2>4, <2>6 DEF Good, QueueInv, Queues
    <2>8. prio[n] = b
      <3>. HIDE DEF Home
      <3>. QED BY <2>4, <2>6, <2>7, HomeFacts DEF Good
    <2>9. active' = n /\ prio' = prio /\ pending' \subseteq pending
      BY <1>2, <2>3, <2>5 DEF Pick, prioVars
    <2>. QED BY <2>2, <2>3, <2>8, <2>9 DEF RespectInv, Respects
  <1>. QED BY <1>1, <1>2

\* A wake-up makes nobody running, and puts a thread on a run queue only with the hint.
LEMMA WakesWithHint ==
  ASSUME TypeOK, NEW x \in BlockQueues, Wake(x)
  PROVE  /\ \A t \in Thread : state'[t] = "running" => state[t] = "running"
         /\ resched => resched'
         /\ Awake(x) # <<>> => resched'
         /\ Awake(x) = <<>> => pending' = pending
  <1>1. \A t \in Thread : state'[t] = IF t \in Wakes(x) THEN "ready" ELSE state[t]
    BY DEF Wake, WokenStates
  <1>2. resched' = (resched \/ Awake(x) # <<>>) /\ resched \in BOOLEAN
    BY DEF Wake, TypeOK
  <1>3. pending' = pending \cup {RunPriority(t) : t \in Range(Awake(x))}
    BY DEF Wake, WakeLinks
  <1>4. Awake(x) = <<>> => Range(Awake(x)) = {}
    BY RangeShort
  <1>. QED BY <1>1, <1>2, <1>3, <1>4

\* Interrupts and OSWakeupThread look for a better thread when they have woken one.
LEMMA WakeRespects ==
  ASSUME FewThreads, Good, RespectInv, NEW x \in BlockQueues,
         \/ \E w \in WaitQueue : x = WaitQ(w) /\ (IdleInterrupt(w) \/ Interrupt(w))
         \/ WakeupThread(x)
  PROVE  RespectInv'
  <1>1. /\ Wake(x) /\ UNCHANGED <<prio, active>>
        /\ TypeOK /\ Rest \in Seq(FrameType) /\ active \in Thread /\ prio \in [Thread -> AnyPriority]
    <2>1. Wake(x) /\ UNCHANGED <<prio, active>>
      BY DEF IdleInterrupt, Interrupt, WakeupThread, prioVars, fiberVars
    <2>2. TypeOK
      BY DEF Good
    <2>. QED BY <2>1, <2>2, TopFrame DEF TypeOK
  <1>2. /\ \A t \in Thread : state'[t] = "running" => state[t] = "running"
        /\ resched => resched'
        /\ Awake(x) # <<>> => resched'
        /\ Awake(x) = <<>> => pending' = pending
    BY <1>1, WakesWithHint
  <1>3. CASE \E w \in WaitQueue : IdleInterrupt(w)
    <2>1. Top("Idle") /\ stack' = stack
      BY <1>3 DEF IdleInterrupt
    <2>2. ~Top("SuspendThread")
      BY <2>1 DEF Top
    <2>3. state[active] # "running"
      BY <2>1, <2>2, RunnerIs
    <2>. QED BY <1>1, <1>2, <2>3 DEF RespectInv
  <1>4. CASE \E w \in WaitQueue : Interrupt(w)
    <2>1. GuestCode /\ stack' = [stack EXCEPT ![active] = <<IfResched>> \o Rest]
      BY <1>4 DEF Interrupt, Continue, GuestCalls
    <2>2. /\ <<IfResched>> \in Seq(FrameType) /\ IfResched \in Range(<<IfResched>>)
          /\ IfResched.call = "IfResched"
      BY SelectFrames, RangeShort
    <2>3. CASE Awake(x) # <<>>
      BY <1>1, <1>2, <2>1, <2>2, <2>3, RespectLooks
    <2>4. CASE Awake(x) = <<>>
      BY <1>1, <1>2, <2>1, <2>2, <2>4, RestStays, RespectKept
    <2>. QED BY <2>3, <2>4
  <1>5. CASE WakeupThread(x)
    <2>1. CASE Awake(x) # <<>>
      <3>1. stack' = [stack EXCEPT ![active] = <<SelectFrame>> \o Rest]
        BY <1>5, <2>1 DEF WakeupThread, Continue
      <3>2. /\ <<SelectFrame>> \in Seq(FrameType) /\ SelectFrame \in Range(<<SelectFrame>>)
            /\ SelectFrame.call = "SelectThread"
        BY SelectFrames, RangeShort
      <3>. QED BY <1>1, <3>1, <3>2, RespectLooks
    <2>2. CASE Awake(x) = <<>>
      <3>1. stack' = [stack EXCEPT ![active] = <<>> \o Rest] /\ <<>> \in Seq(FrameType)
        BY <1>5, <2>2, EmptyStack DEF WakeupThread, Continue
      <3>2. GuestCode \/ (Top("WakeupThread") /\ Arg = x)
        BY <1>5 DEF WakeupThread, Called, GuestCalls
      <3>3. ~Waking
        <4>. SUFFICES ASSUME NEW m \in Mutex, NEW t \in Thread, Sleeps(t, m), suspend[t] = 0,
                             Topmost(Frame("WakeupThread", MutexQ(m)))
                      PROVE  FALSE
          BY DEF Waking
        <4>1. x = MutexQ(m)
          BY <3>2, Frames DEF Topmost, GuestCode, Top, Arg
        <4>2. t \in Range(q[x]) /\ x \in Queue
          BY <4>1, SleeperLinked, Addresses DEF Good
        <4>3. t \in Range(Popped(x))
          <5>1. q'[x] = <<>> /\ q'[x] = SubSeq(q[x], Len(Popped(x)) + 1, Len(q[x]))
            BY <1>1, <4>2, AllPopped DEF Good, Wake, WakeLinks
          <5>2. Range(SubSeq(q[x], Len(Popped(x)) + 1, Len(q[x]))) = {}
            BY <5>1, RangeShort
          <5>. QED BY <1>1, <4>2, <5>2, PoppedFrom DEF TypeOK
        <4>4. ~Terminated(t) /\ ~dead[t]
          BY DEF Sleeps, Terminated, Good, LifeInv
        <4>5. t \in Wakes(x)
          BY <4>3, <4>4 DEF Wakes
        <4>6. t \in Range(Awake(x))
          <5>1. Range(Awake(x)) = {u \in Wakes(x) : suspend[u] < 1}
            BY <1>1, <4>2, PoppedFrom DEF TypeOK
          <5>2. suspend[t] < 1
            OBVIOUS
          <5>. QED BY <4>5, <5>1, <5>2
        <4>. QED BY <2>2, <4>6, RangeShort
      <3>. QED BY <1>1, <1>2, <2>2, <3>1, <3>2, <3>3, RestStays, RespectKept
    <2>. QED BY <2>1, <2>2
  <1>. QED BY <1>3, <1>4, <1>5

\* A thread that calls the OS is the best that is ready.
LEMMA GuestRespects ==
  ASSUME TypeOK, RespectInv, GuestCode, state[active] = "running"
  PROVE  Respects
  <1>1. ~LooksAhead
    BY RangeTop DEF LooksAhead, GuestCode
  <1>2. ~Waking /\ ~Top("SuspendThread")
    BY DEF Waking, Topmost, Top, GuestCode
  <1>. QED BY <1>1, <1>2 DEF RespectInv

\* OSUnlockMutex gives up a priority that a waiter of the mutex earned its owner, and wakes that
\* waiter; what the waiters of other mutexes earned it stays.
LEMMA UnlockRespects ==
  ASSUME Good, LockInv, RankInv, Steady, RespectInv, NEW m \in Mutex, UnlockMutex(m)
  PROVE  RespectInv'
  <1>1. /\ UNCHANGED <<state, suspend, queue, pending, active>> /\ GuestCode
        /\ running \in Thread /\ owner[m] = running
    BY DEF UnlockMutex, linkVars, fiberVars, GuestCalls, Good, TypeOK
  <1>2. running = active /\ state[active] = "running" /\ suspend[active] = 0
    BY <1>1, ModeOf DEF Good, Executing, FiberInv, TypeOK
  <1>3. /\ TypeOK /\ QueueInv /\ prio \in [Thread -> Nat] /\ base \in [Thread -> Priority]
        /\ stack \in [Thread -> Seq(FrameType)] /\ Rest \in Seq(FrameType) /\ pending \subseteq Nat
    BY PriorityFacts, TopFrame DEF Good, TypeOK
  <1>4. Respects
    BY <1>2, <1>1, <1>3, GuestRespects
  <1>5. CASE prio' = prio
    BY <1>1, <1>4, <1>5 DEF RespectInv, Respects
  <1>6. CASE prio' # prio
    <2>. DEFINE rest == HeldWithout(active, m)
                f == Frame("WakeupThread", MutexQ(m))
    <2>1. /\ prio[active] < base[active]
          /\ prio' = [prio EXCEPT ![active] = Effective(active, rest)]
          /\ stack' = [stack EXCEPT ![active] = <<f>> \o Rest]
      BY <1>2, <1>6 DEF UnlockMutex, Continue
    <2>2. rest \in Seq(Mutex) /\ \A n \in Mutex \ {m} : owner[n] = active => n \in Range(rest)
      <3>1. /\ held[active] \in Seq(Mutex) /\ Distinct(held[active])
            /\ \A n \in Mutex : owner[n] = active <=> n \in Range(held[active])
        BY <1>1, <1>2, <1>3 DEF TypeOK, LockInv, HeldInv
      <3>2. rest \in Seq(Mutex) /\ Range(rest) = Range(held[active]) \ {m}
        BY <3>1, RemovedSeq DEF HeldWithout
      <3>. QED BY <3>1, <3>2
    <2>3. PICK n \in Mutex, u \in Thread : owner[n] = active /\ Sleeps(u, n) /\ prio[u] <= prio[active]
      <3>1. Earns(active, prio[active])
        BY <1>1, <1>2 DEF RankInv, EarnInv, Ranks, Terminated, Topmost, GuestCode
      <3>2. ~Blocked(active)
        BY <1>1 DEF Blocked, Blocks, Topmost, Top, GuestCode
      <3>3. ~(base[active] <= prio[active])
        <4>1. prio[active] \in Nat /\ base[active] \in Nat
          BY <1>1, <1>2, <1>3, PriorityFacts
        <4>. QED BY <2>1, <4>1
      <3>. QED BY <3>1, <3>2, <3>3 DEF Earns
    <2>4. CASE n = m
      <3>1. suspend[u] = 0
        <4>1. state[u] = "waiting" /\ suspend[u] \in Nat
          BY <1>3, <2>3 DEF Sleeps, TypeOK
        <4>2. suspend[u] > 0 => prio[u] = Low + 1
          BY <4>1 DEF RankInv, EarnInv, SuspendedWait
        <4>3. base[active] \in 0 .. Low /\ Low \in Nat
          BY <1>1, <1>2, <1>3, ConstantsAssumption DEF Priority
        <4>. QED BY <1>1, <1>2, <1>3, <2>1, <2>3, <4>1, <4>2, <4>3
      <3>2. Topmost(f)'
        <4>1. f \in FrameType
          BY Frames, Addresses
        <4>. HIDE DEF f
        <4>2. stack'[active] = <<f>> \o Rest
          BY <1>1, <1>2, <1>3, <2>1
        <4>3. stack'[active] # <<>> /\ Head(stack'[active]) = f
          BY <1>3, <4>1, <4>2, ConsSeq
        <4>. QED BY <1>1, <4>3 DEF Topmost
      <3>3. Sleeps(u, m)'
        BY <1>1, <2>3, <2>4 DEF Sleeps
      <3>. QED BY <1>1, <3>1, <3>2, <3>3 DEF RespectInv, Waking
    <2>5. CASE n # m
      <3>. DEFINE p == Effective(active, rest)
      <3>1. p \in Priority /\ \A z \in Range(rest), v \in Thread : Sleeps(v, z) => p <= prio[v]
        <4>. HIDE DEF rest
        <4>. QED BY <1>1, <1>2, <1>3, <2>2, EffectiveIs
      <3>2. prio'[active] = p
        BY <1>1, <1>2, <1>3, <2>1
      <3>3. p <= prio[u] /\ p \in Nat
        BY <2>2, <2>3, <2>5, <3>1, PriorityFacts
      <3>. HIDE DEF p
      <3>4. \A b \in pending : prio'[active] <= b
        BY <1>1, <1>2, <1>3, <1>4, <2>3, <3>2, <3>3 DEF Respects
      <3>. QED BY <1>1, <3>4 DEF RespectInv, Respects
    <2>. QED BY <2>4, <2>5
  <1>. QED BY <1>5, <1>6

\* A thread that takes a mutex has as good ones ready as before, and one that blocks looks for another.
LEMMA LockRespects ==
  ASSUME Good, RespectInv, NEW t \in Thread, NEW m \in Mutex, LockMutex(t, m)
  PROVE  RespectInv'
  <1>1. /\ UNCHANGED <<state, prio, pending, resched, active>> /\ TypeOK /\ Rest \in Seq(FrameType)
        /\ GuestCode \/ Top("LockMutex")
    BY TopFrame DEF LockMutex, prioVars, linkVars, fiberVars, Good, GuestCalls
  <1>2. CASE owner[m] \in {None, t}
    <2>1. stack' = [stack EXCEPT ![active] = <<>> \o Rest] /\ <<>> \in Seq(FrameType)
      BY <1>2, EmptyStack DEF LockMutex, Return, Continue
    <2>. QED BY <1>1, <2>1, RestStays, RespectKept DEF Passing
  <1>3. CASE owner[m] \notin {None, t}
    <2>. DEFINE g == Frame("Promote", <<owner[m], prio[t]>>)
                f == Frame("SleepThread", MutexQ(m))
                l == Frame("LockMutex", <<t, m>>)
    <2>1. stack' = [stack EXCEPT ![active] = <<g, f, l>> \o Rest]
      BY <1>3 DEF LockMutex, Continue
    <2>2. owner[m] \in Thread /\ prio[t] \in AnyPriority
      BY <1>1, <1>3 DEF TypeOK
    <2>3. g \in FrameType /\ f \in FrameType /\ l \in FrameType /\ f.call = "SleepThread"
      BY <2>2, Frames, Addresses
    <2>. HIDE DEF g, f, l
    <2>4. <<g, f, l>> \in Seq(FrameType) /\ f \in Range(<<g, f, l>>)
      BY <2>3, RangeShort
    <2>. QED BY <1>1, <2>1, <2>3, <2>4, RespectLooks
  <1>. QED BY <1>2, <1>3

\* PromoteThreadPriority may make another thread better than its caller, which is to sleep then.
LEMMA PromoteRespects ==
  ASSUME Good, RankInv, NEW t \in Thread, NEW p \in AnyPriority, Promote(t, p)
  PROVE  RespectInv'
  <1>1. UNCHANGED active /\ TypeOK /\ Rest \in Seq(FrameType)
    BY TopFrame DEF Promote, fiberVars, Good
  <1>2. PICK m \in Mutex, r \in Seq(FrameType) : Rest = <<Frame("SleepThread", MutexQ(m))>> \o r
    BY PromotingNow
  <1>. DEFINE f == Frame("SleepThread", MutexQ(m))
  <1>3. f \in FrameType /\ f.call = "SleepThread"
    BY Frames, Addresses
  <1>. HIDE DEF f
  <1>4. f \in Range(Rest)
    <2>1. <<f>> \in Seq(FrameType) /\ Range(<<f>>) = {f}
      BY <1>3, RangeShort
    <2>2. Range(<<f>> \o r) = Range(<<f>>) \cup Range(r)
      BY <2>1, RangeConcat
    <2>. QED BY <1>2, <2>1, <2>2 DEF f
  <1>5. PICK k : Living(k) /\ stack' = [stack EXCEPT ![active] = k \o Rest]
    <2>1. NextOwner(t) \in Thread \cup {None}
      BY <1>1 DEF NextOwner, TypeOK
    <2>. QED BY <2>1, LivingFrames DEF Promote, Return, Continue
  <1>6. k \in Seq(FrameType)
    BY <1>5 DEF Living
  <1>. QED BY <1>1, <1>3, <1>4, <1>5, <1>6, RespectLooks

\* PropagateMutexOwnerPriority sets the hint where it moves a thread that is ready or running.
LEMMA PropagateRespects ==
  ASSUME Good, RankInv, RespectInv, NEW t \in Thread, Propagate(t)
  PROVE  RespectInv'
  <1>1. /\ UNCHANGED <<state, active>> /\ TypeOK /\ Rest \in Seq(FrameType) /\ active \in Thread
        /\ Top("Propagate") /\ prio \in [Thread -> AnyPriority]
    <2>1. UNCHANGED <<state, active>> /\ Top("Propagate") /\ TypeOK
      BY DEF Propagate, fiberVars, Good
    <2>. QED BY <2>1, TopFrame DEF TypeOK
  <1>2. IfResched \in Range(Rest) /\ IfResched.call = "IfResched"
    <2>1. Rest # <<>> /\ Head(Rest) = IfResched
      BY <1>1 DEF RankInv, ChainInv
    <2>2. 1 \in DOMAIN Rest /\ Head(Rest) = Rest[1]
      BY <1>1, <2>1, EmptySeq, LenProperties
    <2>. QED BY <2>1, <2>2, SelectFrames DEF Range
  <1>. DEFINE p == Effective(t, held[t])
              stops == suspend[t] >= 1 \/ prio[t] = p
  <1>3. PICK k : Living(k) /\ stack' = [stack EXCEPT ![active] = k \o Rest]
    <2>1. NextOwner(t) \in Thread \cup {None}
      BY <1>1 DEF NextOwner, TypeOK
    <2>. QED BY <2>1, LivingFrames DEF Propagate, Return, Continue
  <1>4. k \in Seq(FrameType)
    BY <1>3 DEF Living
  <1>5. CASE UNCHANGED <<prio, pending, resched>>
    BY <1>1, <1>3, <1>4, <1>5, RestStays, RespectKept DEF Passing
  <1>6. CASE ~stops /\ (state[t] = "ready" \/ state[t] = "running") /\ resched'
    BY <1>1, <1>2, <1>3, <1>4, <1>6, RespectLooks
  <1>7. CASE ~stops /\ state[t] = "waiting" /\ Relink(t, queue[t], p) /\ UNCHANGED resched
    <2>1. state[active] = "running" => t # active
      BY <1>7
    <2>2. prio' = [prio EXCEPT ![t] = p]
      BY <1>7 DEF Relink
    <2>3. state[active] = "running" => prio'[active] = prio[active]
      BY <1>1, <2>1, <2>2
    <2>4. pending' \subseteq pending
      <3>1. queue[t] \in BlockQueues
        BY <1>7 DEF Good, QueueInv
      <3>2. \A b \in Priority : queue[t] # RunQ(b)
        BY <3>1, Addresses
      <3>. QED BY <1>7, <3>2 DEF Relink, Mark, Unmarked
    <2>. QED BY <1>1, <1>3, <1>4, <1>7, <2>3, <2>4, RestStays, RespectKept DEF Passing
  <1>8. \/ UNCHANGED <<prio, pending, resched>>
        \/ ~stops /\ (state[t] = "ready" \/ state[t] = "running") /\ resched'
        \/ ~stops /\ state[t] = "waiting" /\ Relink(t, queue[t], p) /\ UNCHANGED resched
    <2>1. CASE stops
      BY <2>1 DEF Propagate, linkVars
    <2>2. CASE ~stops
      <3>1. SetThreadEffectivePriority(t, p)
        BY <2>2 DEF Propagate
      <3>. HIDE DEF p
      <3>. QED BY <2>2, <3>1 DEF SetThreadEffectivePriority, linkVars, Terminated
    <2>. QED BY <2>1, <2>2
  <1>. QED BY <1>5, <1>6, <1>7, <1>8

\* Who is suspended is no better for it, and who suspends itself leaves the processor.
LEMMA SuspendRespects ==
  ASSUME Good, RespectInv, NEW t \in Thread, SuspendThread(t)
  PROVE  RespectInv'
  <1>1. /\ UNCHANGED active /\ TypeOK /\ Rest \in Seq(FrameType) /\ active \in Thread
        /\ prio \in [Thread -> AnyPriority] /\ state \in [Thread -> State]
        /\ queue \in [Thread -> Queue \cup {None}]
    <2>1. UNCHANGED active /\ TypeOK
      BY DEF SuspendThread, fiberVars, Good
    <2>. QED BY <2>1, TopFrame DEF TypeOK
  <1>2. GuestCode \/ (Top("SuspendThread") /\ Arg = t)
    BY DEF SuspendThread, Called, GuestCalls
  <1>3. CASE t = active
    <2>1. state[active] = "running" /\ suspend[active] = 0
      <3>1. Executing \/ Arming
        BY <1>2, ModeOf DEF Good, Top
      <3>. QED BY <3>1 DEF Executing, Arming, Good, FiberInv, TypeOK
    <2>2. state' = [state EXCEPT ![active] = "ready"]
      BY <1>3, <2>1 DEF SuspendThread, Terminated
    <2>3. state'[active] # "running"
      BY <1>1, <2>2
    <2>. QED BY <1>1, <2>3 DEF RespectInv
  <1>4. CASE t # active
    <2>1. GuestCode /\ state[t] # "running"
      <3>1. GuestCode
        <4>1. Top("SuspendThread") => Arg = active
          BY ModeOf DEF Good, Top, Arming
        <4>. QED BY <1>2, <1>4, <4>1
      <3>. QED BY <1>4, <3>1 DEF Good, FiberInv
    <2>2. \/ UNCHANGED <<state, prio, pending, resched>>
          \/ Unlink(t) /\ UNCHANGED <<state, prio, resched>>
          \/ state[t] = "waiting" /\ Relink(t, queue[t], SuspendedWait) /\ UNCHANGED <<state, resched>>
      BY <2>1 DEF SuspendThread, linkVars
    <2>3. UNCHANGED <<state, resched>> /\ prio'[active] = prio[active]
      BY <1>1, <1>4, <2>2 DEF Relink
    <2>4. pending' \subseteq pending
      <3>1. CASE Relink(t, queue[t], SuspendedWait) /\ state[t] = "waiting"
        <4>1. queue[t] \in BlockQueues
          BY <3>1 DEF Good, QueueInv
        <4>2. \A b \in Priority : queue[t] # RunQ(b)
          BY <4>1, Addresses
        <4>. QED BY <3>1, <4>2 DEF Relink, Mark, Unmarked
      <3>. QED BY <2>2, <3>1 DEF Unlink, Unmarked
    <2>5. PICK k : Living(k) /\ stack' = [stack EXCEPT ![active] = k \o Rest]
      BY <1>1, LivingFrames, LivingPropagate DEF SuspendThread, Return, Continue, TypeOK
    <2>6. k \in Seq(FrameType)
      BY <2>5 DEF Living
    <2>. QED BY <1>1, <2>1, <2>3, <2>4, <2>5, <2>6, RestStays, RespectKept
  <1>. QED BY <1>3, <1>4

\* Who is resumed and ready comes with a look for a better thread.
LEMMA ResumeRespects ==
  ASSUME Good, RespectInv, NEW t \in Thread, ResumeThread(t)
  PROVE  RespectInv'
  <1>1. /\ UNCHANGED active /\ TypeOK /\ Rest \in Seq(FrameType) /\ active \in Thread
        /\ prio \in [Thread -> AnyPriority] /\ state \in [Thread -> State]
        /\ queue \in [Thread -> Queue \cup {None}]
        /\ GuestCode \/ Top("ResumeThread")
    <2>1. UNCHANGED active /\ TypeOK /\ (GuestCode \/ Top("ResumeThread"))
      BY DEF ResumeThread, fiberVars, Good, Called, GuestCalls
    <2>. QED BY <2>1, TopFrame DEF TypeOK
  <1>2. PICK k : Living(k) /\ stack' = [stack EXCEPT ![active] = k \o Rest]
    BY <1>1, LivingFrames, LivingPropagate DEF ResumeThread, Return, Continue, TypeOK
  <1>3. k \in Seq(FrameType)
    BY <1>2 DEF Living
  <1>. DEFINE p == Effective(t, held[t])
  <1>4. CASE UNCHANGED <<state, prio, pending, resched>>
    BY <1>1, <1>2, <1>3, <1>4, RestStays, RespectKept DEF Passing
  <1>5. CASE state[t] = "waiting" /\ Relink(t, queue[t], p) /\ UNCHANGED <<state, resched>>
    <2>1. state[active] = "running" => t # active
      BY <1>5
    <2>2. prio' = [prio EXCEPT ![t] = p]
      BY <1>5 DEF Relink
    <2>3. state[active] = "running" => prio'[active] = prio[active]
      BY <1>1, <2>1, <2>2
    <2>4. pending' \subseteq pending
      <3>1. queue[t] \in BlockQueues
        BY <1>5 DEF Good, QueueInv
      <3>2. \A b \in Priority : queue[t] # RunQ(b)
        BY <3>1, Addresses
      <3>. QED BY <1>5, <3>2 DEF Relink, Mark, Unmarked
    <2>. QED BY <1>1, <1>2, <1>3, <1>5, <2>3, <2>4, RestStays, RespectKept DEF Passing
  <1>6. CASE resched' /\ stack' = [stack EXCEPT ![active] = <<IfResched>> \o Rest]
    <2>1. <<IfResched>> \in Seq(FrameType) /\ IfResched \in Range(<<IfResched>>) /\ IfResched.call = "IfResched"
      BY SelectFrames, RangeShort
    <2>. QED BY <1>1, <1>6, <2>1, RespectLooks
  <1>7. \/ UNCHANGED <<state, prio, pending, resched>>
        \/ state[t] = "waiting" /\ Relink(t, queue[t], p) /\ UNCHANGED <<state, resched>>
        \/ resched' /\ stack' = [stack EXCEPT ![active] = <<IfResched>> \o Rest]
    <2>. HIDE DEF p
    <2>. QED BY DEF ResumeThread, Continue, linkVars, p
  <1>. QED BY <1>4, <1>5, <1>6, <1>7

\* A thread that goes to sleep leaves the processor, and one that comes back has it.
LEMMA SleepRespects ==
  ASSUME Good, RankInv, Steady, RespectInv,
         \/ \E x \in BlockQueues : SleepThread(x) \/ \E t \in Thread : Slept(t, x)
         \/ \E t \in Thread : SleepTicks(t) \/ TickWoken(t)
  PROVE  RespectInv'
  <1>1. TypeOK /\ active \in Thread /\ Rest \in Seq(FrameType) /\ state \in [Thread -> State]
    <2>1. TypeOK
      BY DEF Good
    <2>. QED BY <2>1, TopFrame DEF TypeOK
  <1>2. ASSUME NEW x \in BlockQueues, SleepThread(x) PROVE RespectInv'
    <2>1. /\ disabled = 0 /\ UNCHANGED active /\ (GuestCode \/ Top("SleepThread"))
      BY <1>2 DEF RankInv, EarnInv, SleepThread, fiberVars, Called, GuestCalls
    <2>2. state' = [state EXCEPT ![IF running = None THEN Main ELSE running] = "waiting"]
      BY <1>2, <2>1 DEF SleepThread
    <2>3. state'[active] # "running"
      <3>1. CASE state[active] = "running"
        <4>1. ~Top("SuspendThread")
          BY <2>1 DEF GuestCode, Top
        <4>2. running = active /\ running # None
          BY <1>1, <3>1, <4>1, RunnerIs, ConstantsAssumption
        <4>. QED BY <1>1, <2>2, <4>2
      <3>2. CASE state[active] # "running"
        BY <1>1, <2>2, <3>2
      <3>. QED BY <3>1, <3>2
    <2>. QED BY <2>1, <2>3 DEF RespectInv
  <1>3. ASSUME NEW t \in Thread, TickWoken(t) \/ \E x \in BlockQueues : Slept(t, x) PROVE RespectInv'
    <2>1. t = active /\ state[t] = "running" /\ suspend[t] = 0
      <3>1. (Top("TickWoken") /\ Arg = t) \/ (Top("Slept") /\ Arg[1] = t)
        BY <1>3 DEF Slept, TickWoken
      <3>. QED BY <3>1, BackAwake
    <2>2. UNCHANGED <<state, prio, pending, resched, active>> /\ (Top("Slept") \/ Top("TickWoken"))
      BY <1>3, <2>1 DEF Slept, TickWoken, prioVars, linkVars, fiberVars
    <2>3. stack' = [stack EXCEPT ![active] = <<>> \o Rest] /\ <<>> \in Seq(FrameType)
      BY <1>3, EmptyStack DEF Slept, TickWoken, Return, Continue
    <2>. QED BY <1>1, <2>2, <2>3, RestStays, RespectKept DEF Passing
  <1>4. ASSUME NEW t \in Thread, SleepTicks(t) PROVE RespectInv'
    <2>. DEFINE f == Frame("SuspendThread", t)
                g == Frame("TickWoken", t)
    <2>1. UNCHANGED active /\ stack'[active] = <<f, g>>
      BY <1>1, <1>4 DEF SleepTicks, fiberVars
    <2>2. f.call = "SuspendThread"
      BY Frames
    <2>. HIDE DEF f, g
    <2>3. stack'[active] # <<>> /\ Head(stack'[active]) = f
      BY <2>1
    <2>4. Top("SuspendThread")'
      BY <2>1, <2>2, <2>3 DEF Top
    <2>. QED BY <2>4 DEF RespectInv
  <1>. QED BY <1>2, <1>3, <1>4

\* Threads that begin, end and are joined.
LEMMA LifeRespects ==
  ASSUME Good, RespectInv, UNCHANGED game,
         \/ ExitThread
         \/ \E t \in Thread : UnlockAll(t) \/ JoinThread(t) \/ Joined(t) \/ DetachThread(t)
         \/ \E t \in Thread, p \in game.priorities, d \in game.attributes : CreateThread(t, p, d)
  PROVE  RespectInv'
  <1>1. /\ TypeOK /\ active \in Thread /\ Rest \in Seq(FrameType) /\ state \in [Thread -> State]
        /\ prio \in [Thread -> AnyPriority] /\ stack \in [Thread -> Seq(FrameType)]
    <2>1. TypeOK
      BY DEF Good
    <2>. QED BY <2>1, TopFrame DEF TypeOK
  <1>2. CASE ExitThread
    <2>1. running = active /\ UNCHANGED active
      BY <1>2, ModeOf DEF ExitThread, GuestCalls, Good, Executing
    <2>2. state'[active] # "running"
      BY <1>1, <1>2, <2>1 DEF ExitThread, Terminate
    <2>. QED BY <2>1, <2>2 DEF RespectInv
  <1>3. ASSUME NEW t \in Thread, UnlockAll(t) PROVE RespectInv'
    <2>1. UNCHANGED <<state, prio, pending, resched, active>> /\ Top("UnlockAll")
      BY <1>3 DEF UnlockAll, prioVars, linkVars, fiberVars
    <2>2. CASE held[t] = <<>>
      <3>1. stack' = [stack EXCEPT ![active] = <<>> \o Rest] /\ <<>> \in Seq(FrameType)
        BY <1>3, <2>2, EmptyStack DEF UnlockAll, Return, Continue
      <3>. QED BY <1>1, <2>1, <3>1, RestStays, RespectKept DEF Passing
    <2>3. CASE held[t] # <<>>
      <3>. DEFINE m == Head(held[t])
                  f == Frame("WakeupThread", MutexQ(m))
      <3>1. stack' = [stack EXCEPT ![active] = <<f>> \o stack[active]]
        BY <1>3, <2>3 DEF UnlockAll, Continue
      <3>2. m \in Mutex
        BY <1>1, <2>3, HeadTail DEF TypeOK
      <3>3. f \in FrameType
        BY <3>2, Frames, Addresses
      <3>. HIDE DEF f
      <3>4. \E k \in Seq(FrameType) : stack' = [stack EXCEPT ![active] = k \o stack[active]]
        <4>1. <<f>> \in Seq(FrameType)
          BY <3>3
        <4>. QED BY <3>1, <4>1
      <3>5. Range(Rest) \subseteq Range(stack'[active])
        BY <1>1, <3>4, RestStays
      <3>. QED BY <1>1, <2>1, <3>5, RespectKept DEF Passing
    <2>. QED BY <2>2, <2>3
  <1>4. ASSUME NEW t \in Thread, JoinThread(t) \/ Joined(t) \/ DetachThread(t) PROVE RespectInv'
    <2>1. /\ UNCHANGED <<prio, pending, resched, active>> /\ (GuestCode \/ Top("Joined"))
          /\ UNCHANGED state \/ state' = [state EXCEPT ![t] = "none"]
      BY <1>4 DEF JoinThread, Joined, DetachThread, Reap, prioVars, linkVars, fiberVars, GuestCalls
    <2>2. state'[active] = "running" => state[active] = "running"
      BY <1>1, <2>1
    <2>3. \/ stack' = stack
          \/ \E k \in Seq(FrameType) : stack' = [stack EXCEPT ![active] = k \o Rest]
      <3>1. JoinQ(t) \in BlockQueues
        BY Addresses
      <3>2. stack' = stack \/ \E k : Living(k) /\ stack' = [stack EXCEPT ![active] = k \o Rest]
        BY <1>4, <3>1, LivingFrames DEF JoinThread, Joined, DetachThread, Return, Continue
      <3>. QED BY <3>2 DEF Living
    <2>. QED BY <1>1, <2>1, <2>2, <2>3, RestStays, RespectKept DEF Passing
  <1>5. ASSUME NEW t \in Thread, NEW p, NEW d, CreateThread(t, p, d) PROVE RespectInv'
    <2>1. GuestCode /\ state[active] = "running"
      BY <1>5, ModeOf DEF CreateThread, GuestCalls, Good, Executing
    <2>2. t # active
      BY <1>5, <2>1 DEF CreateThread
    <2>3. /\ UNCHANGED <<pending, resched, active>>
          /\ state'[active] = state[active] /\ prio'[active] = prio[active]
      BY <1>1, <1>5, <2>2 DEF CreateThread
    <2>4. Range(Rest) \subseteq Range(stack'[active])
      BY <1>1, <2>1, RangeTop DEF GuestCode
    <2>. QED BY <1>1, <2>1, <2>3, <2>4, RespectKept
  <1>. QED BY <1>2, <1>3, <1>4, <1>5

\* Every step.
LEMMA StepRespects ==
  ASSUME FewThreads, Good, LockInv, RankInv, NoReturn, Steady, RespectInv, Next
  PROVE  RespectInv'
  <1>1. UNCHANGED game
    BY DEF Next
  <1>2. ~ReturnFromEntry /\ \A t \in Thread : ~CancelThread(t)
    BY DEF ReturnFromEntry, CancelThread, GuestCalls, NoReturn, Steady
  <1>3. \A w \in WaitQueue : WaitQ(w) \in BlockQueues
    BY Addresses
  <1>4. CASE \/ TimersDue \/ PumpEnds \/ IdleEnds \/ Switched \/ Reschedule \/ YieldThread \/ Exited
             \/ DisableScheduler \/ EnableScheduler
             \/ \E t \in Thread : PumpTimer(t) \/ IdleTimer(t)
    BY <1>1, <1>4, SchedulerRespects
  <1>5. CASE SelectThread \/ Pick
    BY <1>1, <1>5, SwitchRespects
  <1>6. CASE \/ \E w \in WaitQueue : IdleInterrupt(w) \/ Interrupt(w)
             \/ \E x \in BlockQueues : WakeupThread(x)
    BY <1>3, <1>6, WakeRespects
  <1>7. CASE \E m \in Mutex : UnlockMutex(m)
    BY <1>7, UnlockRespects
  <1>8. CASE \E t \in Thread : (\E m \in Mutex : LockMutex(t, m)) \/ (\E p \in AnyPriority : Promote(t, p))
                               \/ Propagate(t)
    BY <1>8, LockRespects, PromoteRespects, PropagateRespects
  <1>9. CASE \E t \in Thread : SuspendThread(t) \/ ResumeThread(t)
    BY <1>9, SuspendRespects, ResumeRespects
  <1>10. CASE \/ \E x \in BlockQueues : SleepThread(x) \/ \E t \in Thread : Slept(t, x)
              \/ \E t \in Thread : SleepTicks(t) \/ TickWoken(t)
    BY <1>10, SleepRespects
  <1>11. CASE \/ ExitThread
              \/ \E t \in Thread : UnlockAll(t) \/ JoinThread(t) \/ Joined(t) \/ DetachThread(t)
              \/ \E t \in Thread, p \in game.priorities, d \in game.attributes : CreateThread(t, p, d)
    BY <1>1, <1>11, LifeRespects
  <1>. QED BY <1>2, <1>4, <1>5, <1>6, <1>7, <1>8, <1>9, <1>10, <1>11 DEF Next, Step

\* The first state, and a step that changes nothing.
LEMMA StutterRespects ==
  /\ Init => RespectInv
  /\ RespectInv /\ UNCHANGED vars => RespectInv'
  <1>1. ASSUME Init PROVE RespectInv
    <2>1. pending = {}
      BY <1>1 DEF Init
    <2>. QED BY <2>1 DEF RespectInv, Respects
  <1>2. ASSUME RespectInv, UNCHANGED vars PROVE RespectInv'
    BY <1>2 DEF vars, RespectInv, Respects, LooksAhead, Looks, Waking, Topmost, Top, Sleeps
  <1>. QED BY <1>1, <1>2

\* A thread that goes on with its own code is no worse than those that are ready, or is on its way
\* to SelectThread: whatever woke them, raised them, resumed them or lowered the running one.
THEOREM RunnerRespects ==
  ASSUME FewThreads
  PROVE  Spec => [](Orderly /\ Steady => RespectInv)
  <1>. DEFINE Inv == Orderly => Good /\ LockInv /\ EndsInv /\ RankInv
              Res == Orderly /\ Steady => RespectInv
  <1>1. Init => Res
    BY StutterRespects
  <1>2. Inv /\ Res /\ [Next]_vars => Res'
    <2>. SUFFICES ASSUME Inv, Res, [Next]_vars, Orderly', Steady' PROVE RespectInv'
      OBVIOUS
    <2>1. UNCHANGED game
      BY DEF Next, vars
    <2>2. Orderly /\ Steady /\ NoReturn
      BY <2>1 DEF Orderly, Steady, NoReturn, EndsThreads
    <2>. QED BY <2>2, StepRespects, StutterRespects
  <1>3. Spec => []Inv
    BY RanksInvariant
  <1>. HIDE DEF Inv, Res
  <1>4. Spec => []Res
    BY <1>1, <1>2, <1>3, PTL DEF Spec
  <1>. QED BY <1>4 DEF Res

\* A better thread does not stay behind the one that executes guest code.
THEOREM PriorityIsRespected ==
  ASSUME FewThreads
  PROVE  Spec => [](Orderly => PriorityRespected)
  <1>1. ASSUME Good, Steady => RespectInv PROVE PriorityRespected
    <2>. SUFFICES ASSUME GuestCode, Steady PROVE Respects
      BY DEF PriorityRespected, Steady, Respects
    <2>1. state[active] = "running"
      BY <1>1, ModeOf DEF Good, Executing
    <2>. QED BY <1>1, <2>1, GuestRespects DEF Good
  <1>2. /\ (Orderly => Good /\ LockInv /\ EndsInv /\ RankInv) /\ (Orderly /\ Steady => RespectInv)
           => (Orderly => PriorityRespected)
    BY <1>1
  <1>. QED BY <1>2, RanksInvariant, RunnerRespects, PTL
=============================================================================
