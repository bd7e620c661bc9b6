---------------------------- MODULE AlarmsProofs ----------------------------
(***************************************************************************)
(* Proofs about Alarms for all sets of alarms and threads, all priorities  *)
(* and all bounds: handlers run alone, one pump at a time, and the         *)
(* scheduler-disable count is zero again whenever guest code runs; the     *)
(* doubly linked list is the queue of the armed alarms in fire-time order, *)
(* and implements the alarm clock; periodic alarms keep to their grid.     *)
(***************************************************************************)
EXTENDS Alarms, FiniteSetTheorems, TLAPS

Holding == {"loop", "handler", "handled"}
Pumping == Holding \cup {"completions", "done"}

\* Who is inside ProcessAlarmQueue's scope.
Holds(c) == pc[c] \in Holding

\* What Reschedule and the pumps depend on.
PcType == /\ active \in Context
          /\ ready \subseteq Thread
          /\ pc \in [Context -> Pumping \cup {"guest", "preempt"}]
          /\ deferred \in [Context -> BOOLEAN]
          /\ depth \in Int
          /\ disabled \in Int

\* The guard counts the one context that is in its scope.
GuardExact == /\ depth = 0 => \A c \in Context : ~Holds(c)
              /\ depth # 0 => depth = 1 /\ \E c \in Context : Holds(c)
              /\ \A c, d \in Context : Holds(c) /\ Holds(d) => c = d

\* The count is that of the active context's deferral and handler; no other
\* context has either.
DisabledExact ==
    /\ disabled = (IF deferred[active] THEN 1 ELSE 0)
                     + (IF pc[active] = "handler" THEN 1 ELSE 0)
    /\ \A c \in Context : deferred[c] \/ pc[c] = "handler" => c = active
    /\ \A c \in Context : deferred[c] => pc[c] \in Pumping

IInv == PcType /\ GuardExact /\ DisabledExact

LEMMA InitInv == Init => IInv
  <1>. SUFFICES ASSUME Init PROVE IInv
    OBVIOUS
  <1>1. PcType
    BY DEF Init, PcType, Context, Pumping, Holding
  <1>2. GuardExact
    BY DEF Init, GuardExact, Holds, Holding
  <1>3. DisabledExact
    BY <1>1 DEF Init, DisabledExact, PcType
  <1>. QED BY <1>1, <1>2, <1>3 DEF IInv

\* A step of the active context that stays active, goes from one place to
\* another on the same side of the guard, and accounts for its handler.
LEMMA LocalStep ==
  ASSUME IInv, NEW there \in Pumping \cup {"guest", "preempt"},
         pc' = [pc EXCEPT ![active] = there],
         there \in Holding <=> Holds(active),
         deferred[active] => there \in Pumping,
         ready' \subseteq Thread,
         UNCHANGED <<active, depth, deferred>>,
         disabled' = (IF deferred[active] THEN 1 ELSE 0)
                       + (IF there = "handler" THEN 1 ELSE 0)
  PROVE  IInv'
  <1>1. PcType'
    BY DEF IInv, PcType
  <1>2. \A c \in Context : Holds(c)' <=> Holds(c)
    BY DEF IInv, PcType, Holds
  <1>3. GuardExact'
    BY <1>2 DEF IInv, GuardExact
  <1>4. DisabledExact'
    BY DEF IInv, PcType, DisabledExact
  <1>. QED BY <1>1, <1>3, <1>4 DEF IInv

\* RunDeferredReschedule, with or without a switch: it switches only while
\* nothing of the active context is counted in disabled.
LEMMA RescheduleStep ==
  ASSUME IInv, NEW hint, NEW set, set \subseteq Thread,
         NEW there \in Pumping \cup {"guest", "preempt"},
         Reschedule(hint, set, there),
         there = "handler" <=> pc[active] = "handler",
         there \in Holding <=> Holds(active),
         deferred[active] => there \in Pumping,
         UNCHANGED <<depth, disabled, deferred>>
  PROVE  IInv'
  <1>1. CASE ~SwitchWanted(hint, set)
    <2>1. /\ pc' = [pc EXCEPT ![active] = there]
          /\ ready' \subseteq Thread
          /\ active' = active
      BY <1>1 DEF Reschedule
    <2>2. disabled' = (IF deferred[active] THEN 1 ELSE 0)
                        + (IF there = "handler" THEN 1 ELSE 0)
      BY DEF IInv, DisabledExact
    <2>. QED BY <2>1, <2>2, LocalStep
  <1>2. CASE SwitchWanted(hint, set)
    <2>1. PICK t \in set : active' = t /\ ready' = (set \ {t}) \cup {active}
      BY <1>2 DEF Reschedule, Best
    <2>2. pc' = [pc EXCEPT ![active] = there] /\ disabled = 0 /\ active # Idle
      BY <1>2 DEF Reschedule, SwitchWanted
    <2>3. active \in Thread /\ t \in Context
      BY <2>2 DEF IInv, PcType, Context
    <2>4. ~deferred[active] /\ pc[active] # "handler"
      BY <2>2, SMT DEF IInv, DisabledExact, PcType
    <2>5. PcType'
      BY <2>1, <2>2, <2>3 DEF IInv, PcType
    <2>6. \A c \in Context : Holds(c)' <=> Holds(c)
      BY <2>2 DEF IInv, PcType, Holds
    <2>7. GuardExact'
      BY <2>6 DEF IInv, GuardExact
    <2>8. \A c \in Context : ~deferred[c] /\ pc'[c] # "handler"
      BY <2>2, <2>4 DEF IInv, PcType, DisabledExact
    <2>9. DisabledExact'
      BY <2>1, <2>2, <2>3, <2>8 DEF DisabledExact
    <2>. QED BY <2>5, <2>7, <2>9 DEF IInv
  <1>. QED BY <1>1, <1>2

\* The pump begins: nobody else is in its scope, because the guard was free.
LEMMA PumpStep ==
  ASSUME IInv, MayPump, pc[active] = "guest", NEW d \in BOOLEAN, NEW n,
         n = (IF d THEN 1 ELSE 0), Pump(d, n)
  PROVE  IInv'
  <1>1. /\ active \in Context
        /\ depth = 0 /\ ~deferred[active] /\ disabled = 0
        /\ \A c \in Context : ~Holds(c) /\ ~deferred[c] /\ pc[c] # "handler"
    <2>1. ~deferred[active]
      BY DEF IInv, PcType, DisabledExact, Pumping, Holding
    <2>. QED BY <2>1 DEF IInv, PcType, GuardExact, DisabledExact, MayPump
  <1>2. /\ pc' = [pc EXCEPT ![active] = "loop"]
        /\ deferred' = [deferred EXCEPT ![active] = d]
        /\ depth' = 1 /\ disabled' = n
        /\ active' = active /\ ready' = ready
    BY <1>1 DEF Pump, schedVars
  <1>3. PcType'
    BY <1>2 DEF IInv, PcType, Pumping, Holding
  <1>4. \A c \in Context : Holds(c)' <=> c = active
    BY <1>1, <1>2 DEF IInv, PcType, Holds, Holding
  <1>5. GuardExact'
    BY <1>1, <1>2, <1>4 DEF GuardExact
  <1>6. DisabledExact'
    BY <1>1, <1>2 DEF IInv, PcType, DisabledExact, Pumping, Holding
  <1>. QED BY <1>3, <1>5, <1>6 DEF IInv

\* A step of the scheduler between places where nothing is counted.
LEMMA SwitchStep ==
  ASSUME IInv, pc[active] = "guest", active' \in Context, ready' \subseteq Thread,
         UNCHANGED pumpVars
  PROVE  IInv'
  <1>1. UNCHANGED <<depth, disabled, pc, deferred>>
    BY DEF pumpVars
  <1>2. ~deferred[active]
    BY DEF IInv, PcType, DisabledExact, Pumping, Holding
  <1>3. PcType'
    BY <1>1 DEF IInv, PcType
  <1>4. GuardExact'
    BY <1>1 DEF IInv, GuardExact, Holds
  <1>5. DisabledExact'
    BY <1>1, <1>2 DEF IInv, PcType, DisabledExact
  <1>. QED BY <1>3, <1>4, <1>5 DEF IInv

LEMMA NextInv == IInv /\ [Next]_vars => IInv'
  <1>. SUFFICES ASSUME IInv, [Next]_vars PROVE IInv'
    OBVIOUS
  <1>. USE DEF Holding, Pumping
  <1>0. /\ active \in Context /\ pc \in [Context -> Pumping \cup {"guest", "preempt"}]
        /\ ready \subseteq Thread /\ deferred \in [Context -> BOOLEAN]
        /\ deferred[active] => pc[active] \in Pumping
        /\ disabled = (IF deferred[active] THEN 1 ELSE 0)
                        + (IF pc[active] = "handler" THEN 1 ELSE 0)
    BY DEF IInv, PcType, DisabledExact
  <1>1. CASE Preempt
    BY <1>0, <1>1, RescheduleStep DEF Preempt, Holds
  <1>2. CASE Turn
    <2>1. /\ pc[active] = "loop" /\ pc' = [pc EXCEPT ![active] = "handler"]
          /\ disabled' = disabled + 1
          /\ UNCHANGED <<ready, active, depth, deferred>>
      BY <1>2 DEF Turn, SchedulerHeld, schedVars
    <2>2. disabled' = (IF deferred[active] THEN 1 ELSE 0) + 1
      BY <1>0, <2>1
    <2>. QED BY <1>0, <2>1, <2>2, LocalStep DEF Holds
  <1>3. CASE HandlerReturns
    <2>1. /\ pc[active] = "handler" /\ pc' = [pc EXCEPT ![active] = "handled"]
          /\ disabled' = Released
          /\ UNCHANGED <<ready, active, depth, deferred>>
      BY <1>3 DEF HandlerReturns, InHandler, schedVars
    <2>2. disabled' = (IF deferred[active] THEN 1 ELSE 0) + 0
      BY <1>0, <2>1 DEF Released
    <2>. QED BY <1>0, <2>1, <2>2, LocalStep DEF Holds
  <1>4. CASE Handled
    BY <1>0, <1>4, RescheduleStep DEF Handled, Holds
  <1>5. CASE LoopEnds
    <2>1. /\ pc[active] = "loop" /\ pc' = [pc EXCEPT ![active] = "completions"]
          /\ depth' = depth - 1
          /\ UNCHANGED <<disabled, ready, active, deferred>>
      BY <1>5 DEF LoopEnds, GuardReleased, schedVars
    <2>2. Holds(active) /\ depth = 1
      BY <1>0, <2>1 DEF Holds, IInv, GuardExact
    <2>3. \A c \in Context : ~Holds(c)'
      BY <1>0, <2>1, <2>2 DEF Holds, IInv, GuardExact
    <2>4. PcType'
      BY <2>1 DEF IInv, PcType
    <2>5. GuardExact'
      BY <2>1, <2>2, <2>3 DEF GuardExact
    <2>6. DisabledExact'
      BY <1>0, <2>1 DEF IInv, DisabledExact
    <2>. QED BY <2>4, <2>5, <2>6 DEF IInv
  <1>6. CASE Completions
    <2>1. PICK woken \in SUBSET Sleeping : Reschedule(resched \/ woken # {}, ready \cup woken, "done")
      BY <1>6 DEF Completions
    <2>2. ready \cup woken \subseteq Thread
      BY <1>0, <2>1 DEF Sleeping
    <2>. QED BY <1>0, <1>6, <2>1, <2>2, RescheduleStep DEF Completions, Holds
  <1>7. CASE PumpReturns
    <2>1. PICK there \in {"preempt", "guest"} : pc' = [pc EXCEPT ![active] = there]
      BY <1>7 DEF PumpReturns
    <2>2. /\ pc[active] = "done"
          /\ disabled' = IF deferred[active] THEN Released ELSE disabled
          /\ deferred' = [deferred EXCEPT ![active] = FALSE]
          /\ UNCHANGED <<depth, ready, active>>
      BY <1>7 DEF PumpReturns, EndOfDeferral, schedVars
    <2>3. disabled' = 0
      BY <1>0, <2>2 DEF Released
    <2>4. PcType'
      BY <1>0, <2>1, <2>2, <2>3 DEF IInv, PcType
    <2>5. GuardExact'
      <3>1. \A c \in Context : Holds(c)' <=> Holds(c)
        BY <1>0, <2>1, <2>2 DEF Holds
      <3>. QED BY <2>2, <3>1 DEF IInv, GuardExact
    <2>6. DisabledExact'
      BY <1>0, <2>1, <2>2, <2>3 DEF IInv, DisabledExact
    <2>. QED BY <2>4, <2>5, <2>6 DEF IInv
  <1>8. CASE IdlePump
    BY <1>8, PumpStep DEF IdlePump
  <1>9. CASE IdleEnds
    <2>1. active' \in Context /\ ready' \subseteq Thread
      BY <1>0, <1>9 DEF IdleEnds, TakeBest, Best, Context
    <2>. QED BY <1>9, <2>1, SwitchStep DEF IdleEnds
  <1>10. CASE SafePoint
    <2>1. CASE MayPump /\ Pump(TRUE, 1)
      BY <1>10, <2>1, PumpStep DEF SafePoint, GuestCode
    <2>2. CASE /\ pc' = [pc EXCEPT ![active] = "preempt"]
               /\ UNCHANGED <<links, depth, disabled, left, deferred, schedVars>>
      BY <1>0, <1>10, <2>2, LocalStep DEF SafePoint, GuestCode, Holds, schedVars
    <2>. QED BY <1>10, <2>1, <2>2 DEF SafePoint
  <1>11. CASE RFLiIsWorking
    <2>1. MayPump /\ Pump(FALSE, 0)
      BY <1>11 DEF RFLiIsWorking
    <2>2. pc[active] # "handler"
      BY <1>0, <2>1 DEF IInv, GuardExact, MayPump, Holds
    <2>3. pc[active] = "guest"
      BY <1>11, <2>2 DEF RFLiIsWorking, Calling, GuestCode, InHandler
    <2>. QED BY <2>1, <2>3, PumpStep
  <1>12. CASE Sleep
    <2>1. active' \in Context /\ ready' \subseteq Thread
      BY <1>0, <1>12 DEF Sleep, TakeBest, Best, Context
    <2>. QED BY <1>12, <2>1, SwitchStep DEF Sleep, GuestCode
  <1>13. ASSUME UNCHANGED <<pumpVars, schedVars>> PROVE IInv'
    BY <1>13 DEF pumpVars, schedVars, IInv, PcType, GuardExact, DisabledExact, Holds
  <1>14. CASE Tick
    BY <1>13, <1>14 DEF Tick
  <1>15. ASSUME NEW t \in Thread, Wakeup(t) PROVE IInv'
    BY <1>0, <1>15, RescheduleStep DEF Wakeup, InHandler, Holds
  <1>16. ASSUME NEW t \in Thread, IdleWakeup(t) PROVE IInv'
    BY <1>0, <1>16, SwitchStep DEF IdleWakeup
  <1>17. ASSUME NEW a \in Alarm, CancelAlarm(a) PROVE IInv'
    <2>1. CASE MayPump /\ Pump(FALSE, 0)
      <3>1. pc[active] # "handler"
        BY <1>0, <2>1 DEF IInv, GuardExact, MayPump, Holds
      <3>2. pc[active] = "guest"
        BY <1>17, <3>1 DEF CancelAlarm, Calling, GuestCode, InHandler
      <3>. QED BY <2>1, <3>2, PumpStep
    <2>2. CASE UNCHANGED <<pumpVars, schedVars>>
      BY <1>13, <2>2
    <2>. QED BY <1>17, <2>1, <2>2 DEF CancelAlarm
  <1>18. ASSUME NEW a \in Alarm, NEW tick \in Ticks, SetAlarm(a, tick) PROVE IInv'
    BY <1>13, <1>18 DEF SetAlarm
  <1>19. ASSUME NEW a \in Alarm, NEW lead \in Leads, NEW p \in Periods,
                SetPeriodicAlarm(a, lead, p)
         PROVE  IInv'
    BY <1>13, <1>19 DEF SetPeriodicAlarm
  <1>20. CASE UNCHANGED vars
    BY <1>13, <1>20 DEF vars, pumpVars, schedVars
  <1>. QED
    BY <1>1, <1>2, <1>3, <1>4, <1>5, <1>6, <1>7, <1>8, <1>9, <1>10, <1>11, <1>12, <1>14,
       <1>15, <1>16, <1>17, <1>18, <1>19, <1>20
       DEF Next, Native

LEMMA InvHolds == Spec => []IInv
  BY InitInv, NextInv, PTL DEF Spec

\* A handler is not interrupted: the context that is inside one is the active
\* context, so no other thread's guest code and no other handler runs meanwhile.
THEOREM HandlersAlone == Spec => []HandlersRunAlone
  <1>1. IInv => HandlersRunAlone
    BY DEF IInv, DisabledExact, HandlersRunAlone
  <1>. QED BY <1>1, InvHolds, PTL

\* Every IncrementSchedulerDisableCount of a handler or a deferred pump has been
\* undone when guest code runs again.
THEOREM SchedulerGivenBack == Spec => []SchedulerRestored
  <1>1. IInv => SchedulerRestored
    BY DEF IInv, PcType, DisabledExact, SchedulerRestored, GuestCode, Pumping, Holding
  <1>. QED BY <1>1, InvHolds, PTL

-----------------------------------------------------------------------------
(* Induction, for sets of naturals.                                        *)

\* A set of naturals with 0 and with the successor of each of its elements:
\* were n missing, adding 1 would map its part below n into itself, one to
\* one and yet not onto 0.
LEMMA SetInduction ==
  ASSUME NEW S \in SUBSET Nat, 0 \in S, \A n \in S : n + 1 \in S
  PROVE  S = Nat
  <1>. SUFFICES ASSUME NEW n \in Nat, n \notin S PROVE FALSE
    OBVIOUS
  <1>. DEFINE A == (0 .. n) \cap S
              f == [x \in A |-> x + 1]
  <1>1. IsFiniteSet(0 .. n) /\ A \in SUBSET (0 .. n)
    BY FS_Interval
  <1>2. IsFiniteSet(A) /\ 0 \in A
    BY <1>1, FS_Subset
  <1>3. f \in Injection(A, A)
    BY DEF Injection, IsInjective
  <1>4. f \in Surjection(A, A)
    BY <1>2, <1>3, FS_Injection
  <1>5. PICK x \in A : f[x] = 0
    BY <1>2, <1>4 DEF Surjection
  <1>. QED BY <1>5

\* The least element, which Min chooses.
LEMMA LeastNatural ==
  ASSUME NEW S \in SUBSET Nat, S # {}
  PROVE  /\ Min(S) \in S
         /\ \A m \in S : Min(S) <= m
  <1>. DEFINE B == {n \in Nat : \A m \in S : n <= m}
  <1>1. PICK m \in S : TRUE
    OBVIOUS
  <1>2. 0 \in B /\ m + 1 \notin B
    OBVIOUS
  <1>3. PICK n \in B : n + 1 \notin B
    BY <1>2, SetInduction
  <1>4. n \in S /\ \A x \in S : n <= x
    BY <1>3
  <1>. QED BY <1>4 DEF Min

-----------------------------------------------------------------------------
(* The queue as a chain of alarms: s[1] is its head and s[k] its tail.     *)

Size == Cardinality(Alarm)

LEMMA SizeType == Size \in Nat
  BY AlarmsAssumption, FS_CardinalityType DEF Size

\* The recursion of Walk has a solution: for each n, a function on 1 .. n obeys it.
LEMMA WalkDef ==
  ASSUME NEW l
  PROVE  Walk(l) = [i \in 1 .. Size + 1 |->
                      IF i = 1 THEN l.head
                      ELSE IF Walk(l)[i - 1] = None THEN None ELSE l.next[Walk(l)[i - 1]]]
  <1>. DEFINE Body(node, i) == IF i = 1 THEN l.head
                               ELSE IF node[i - 1] = None THEN None ELSE l.next[node[i - 1]]
              S == {n \in Nat : \E node : node = [i \in 1 .. n |-> Body(node, i)]}
  <1>1. 0 \in S
    <2>. DEFINE node == [i \in 1 .. 0 |-> None]
    <2>1. node = [i \in 1 .. 0 |-> Body(node, i)]
      OBVIOUS
    <2>. QED BY <2>1
  <1>2. ASSUME NEW n \in S PROVE n + 1 \in S
    <2>1. PICK node : node = [i \in 1 .. n |-> Body(node, i)]
      OBVIOUS
    <2>. DEFINE more == [i \in 1 .. n + 1 |-> IF i <= n THEN node[i] ELSE Body(node, i)]
    <2>2. more = [i \in 1 .. n + 1 |-> Body(more, i)]
      <3>1. ASSUME NEW i \in 1 .. n + 1 PROVE more[i] = Body(more, i)
        <4>1. CASE i = n + 1
          BY <4>1
        <4>2. CASE i \in 1 .. n
          <5>1. more[i] = Body(node, i)
            BY <2>1, <4>2
          <5>2. i # 1 => i - 1 \in 1 .. n + 1 /\ i - 1 <= n
            BY <4>2
          <5>3. i # 1 => more[i - 1] = node[i - 1]
            BY <5>2
          <5>. QED BY <5>1, <5>3
        <4>. QED BY <4>1, <4>2
      <3>. QED BY <3>1
    <2>. QED
      <3>. HIDE DEF more, Body
      <3>. QED BY <2>2
  <1>3. S = Nat
    BY <1>1, <1>2, SetInduction
  <1>4. PICK node : node = [i \in 1 .. Size + 1 |-> Body(node, i)]
    BY <1>3, SizeType
  <1>. QED BY <1>4 DEF Walk, Size

\* The type of links.
Links == [head : Alarm \cup {None}, tail : Alarm \cup {None},
          next : [Alarm -> Alarm \cup {None}], prev : [Alarm -> Alarm \cup {None}]]

\* The links lead along s in both directions.
Chained(l, k, s) ==
    /\ l.head = (IF k = 0 THEN None ELSE s[1])
    /\ l.tail = (IF k = 0 THEN None ELSE s[k])
    /\ \A i \in 1 .. k : /\ l.next[s[i]] = (IF i = k THEN None ELSE s[i + 1])
                         /\ l.prev[s[i]] = (IF i = 1 THEN None ELSE s[i - 1])

\* Fire times do not decrease along s.
InOrder(times, k, s) == \A i, j \in 1 .. k : i < j => times[s[i]] <= times[s[j]]

Members(k, s) == {s[i] : i \in 1 .. k}

\* The list l is a queue of the alarms of a set, in the order of their times.
Queued(l, times, set) ==
    \E k, s : /\ k \in Nat /\ s \in Injection(1 .. k, Alarm)
              /\ Chained(l, k, s) /\ InOrder(times, k, s) /\ Members(k, s) = set

LEMMA InjectionDef ==
  ASSUME NEW k \in Nat, NEW s
  PROVE  s \in Injection(1 .. k, Alarm) <=>
           s \in [1 .. k -> Alarm] /\ \A i, j \in 1 .. k : s[i] = s[j] => i = j
  BY DEF Injection, IsInjective

\* No queue is longer than there are alarms.
LEMMA ChainBound ==
  ASSUME NEW k \in Nat, NEW s \in Injection(1 .. k, Alarm)
  PROVE  k <= Size
  <1>1. Cardinality(1 .. k) = k /\ IsFiniteSet(1 .. k)
    BY FS_Interval
  <1>2. Cardinality(1 .. k) <= Cardinality(Alarm)
    BY AlarmsAssumption, FS_Injection
  <1>. QED BY <1>1, <1>2 DEF Size

\* Walk meets s[1], ..., s[k] and then None.
LEMMA WalkChain ==
  ASSUME NEW l, NEW k \in Nat, NEW s \in Injection(1 .. k, Alarm), Chained(l, k, s)
  PROVE  /\ DOMAIN Walk(l) = 1 .. Size + 1
         /\ \A i \in 1 .. Size + 1 : Walk(l)[i] = IF i <= k THEN s[i] ELSE None
         /\ k <= Size
         /\ Size \in Nat
  <1>. DEFINE w == Walk(l)
              S == {n \in Nat : n + 1 \in 1 .. Size + 1 =>
                                  w[n + 1] = IF n + 1 <= k THEN s[n + 1] ELSE None}
  <1>0. \A i \in 1 .. k : s[i] # None /\ s[i] \in Alarm
    BY AlarmsAssumption, InjectionDef
  <1>1. w = [i \in 1 .. Size + 1 |->
                      IF i = 1 THEN l.head
                      ELSE IF w[i - 1] = None THEN None ELSE l.next[w[i - 1]]]
    BY WalkDef
  <1>. HIDE DEF w
  <1>2. k <= Size /\ Size \in Nat
    BY ChainBound, SizeType
  <1>3. 0 \in S
    BY <1>1, <1>2 DEF Chained
  <1>4. ASSUME NEW n \in S PROVE n + 1 \in S
    <2>. SUFFICES ASSUME n + 2 \in 1 .. Size + 1
                  PROVE  w[n + 2] = IF n + 2 <= k THEN s[n + 2] ELSE None
      BY <1>2
    <2>1. w[n + 1] = IF n + 1 <= k THEN s[n + 1] ELSE None
      BY <1>2
    <2>2. w[n + 2] = IF w[n + 1] = None THEN None ELSE l.next[w[n + 1]]
      BY <1>1, <1>2
    <2>3. CASE n + 1 > k
      BY <1>2, <2>1, <2>2, <2>3
    <2>4. CASE n + 1 <= k
      <3>1. n + 1 \in 1 .. k
        BY <2>4
      <3>2. w[n + 1] = s[n + 1] /\ w[n + 1] # None
        BY <1>0, <2>1, <2>4, <3>1
      <3>3. l.next[s[n + 1]] = IF n + 1 = k THEN None ELSE s[n + 2]
        BY <3>1 DEF Chained
      <3>. QED BY <1>2, <2>2, <2>4, <3>2, <3>3
    <2>. QED BY <1>2, <2>3, <2>4
  <1>5. S = Nat
    BY <1>3, <1>4, SetInduction
  <1>6. \A i \in 1 .. Size + 1 : w[i] = IF i <= k THEN s[i] ELSE None
    <2>. SUFFICES ASSUME NEW i \in 1 .. Size + 1
                  PROVE  w[i] = IF i <= k THEN s[i] ELSE None
      OBVIOUS
    <2>1. i - 1 \in Nat /\ (i - 1) + 1 = i
      BY <1>2
    <2>2. i - 1 \in S
      BY <1>5, <2>1
    <2>. QED BY <1>2, <2>1, <2>2
  <1>7. DOMAIN w = 1 .. Size + 1
    BY <1>1
  <1>. QED BY <1>2, <1>6, <1>7 DEF w

\* Where LinkAlarmSorted stops: before the first later alarm, or at the end.
LEMMA Place ==
  ASSUME NEW l, NEW times \in [Alarm -> Int], NEW a \in Alarm,
         NEW k \in Nat, NEW s \in Injection(1 .. k, Alarm), Chained(l, k, s),
         NEW at, at = Min({i \in DOMAIN Walk(l) : \/ Walk(l)[i] = None
                                                  \/ times[a] < times[Walk(l)[i]]})
  PROVE  /\ at \in 1 .. k + 1
         /\ at <= k => times[a] < times[s[at]]
         /\ \A i \in 1 .. k : i < at => times[s[i]] <= times[a]
         /\ Walk(l)[at] = (IF at <= k THEN s[at] ELSE None)
         /\ at # 1 => Walk(l)[at - 1] = s[at - 1]
  <1>. DEFINE node == Walk(l)
              D == {i \in DOMAIN node : node[i] = None \/ times[a] < times[node[i]]}
  <1>0. /\ DOMAIN node = 1 .. Size + 1
        /\ \A i \in 1 .. Size + 1 : node[i] = IF i <= k THEN s[i] ELSE None
        /\ k <= Size /\ Size \in Nat
        /\ \A i \in 1 .. k : s[i] # None /\ s[i] \in Alarm
    BY WalkChain, AlarmsAssumption, InjectionDef
  <1>. HIDE DEF node
  <1>1. k + 1 \in D /\ D \subseteq Nat
    BY <1>0
  <1>2. at = Min(D)
    BY DEF node
  <1>3. at \in D /\ \A i \in D : at <= i
    BY <1>1, <1>2, LeastNatural
  <1>4. at \in 1 .. k + 1
    BY <1>0, <1>1, <1>3
  <1>5. at <= k => times[a] < times[s[at]]
    BY <1>0, <1>3, <1>4
  <1>6. ASSUME NEW i \in 1 .. k, i < at PROVE times[s[i]] <= times[a]
    <2>1. i \in DOMAIN node /\ node[i] = s[i] /\ s[i] # None /\ s[i] \in Alarm
      BY <1>0
    <2>2. i \notin D
      <3>. HIDE DEF D
      <3>. QED BY <1>3, <1>4, <1>6
    <2>3. ~(times[a] < times[s[i]])
      BY <2>1, <2>2
    <2>. QED BY <2>1, <2>3
  <1>7. node[at] = (IF at <= k THEN s[at] ELSE None) /\ (at # 1 => node[at - 1] = s[at - 1])
    BY <1>0, <1>4
  <1>. QED BY <1>4, <1>5, <1>6, <1>7 DEF node

\* LinkAlarmSorted puts one more alarm into a queue.
LEMMA LinkedQueued ==
  ASSUME NEW l \in Links, NEW times \in [Alarm -> Int], NEW a \in Alarm, NEW set,
         Queued(l, times, set), a \notin set, l.next[a] = None, l.prev[a] = None
  PROVE  /\ Linked(l, times, a) \in Links
         /\ Queued(Linked(l, times, a), times, set \cup {a})
  <1>1. PICK k, s : /\ k \in Nat /\ s \in Injection(1 .. k, Alarm)
                    /\ Chained(l, k, s) /\ InOrder(times, k, s) /\ Members(k, s) = set
    BY DEF Queued
  <1>2. /\ k \in Nat /\ s \in Injection(1 .. k, Alarm)
        /\ Chained(l, k, s) /\ InOrder(times, k, s) /\ Members(k, s) = set
    BY <1>1
  <1>. k \in Nat
    BY <1>2
  <1>. DEFINE node == Walk(l)
              at == Min({i \in DOMAIN node : node[i] = None \/ times[a] < times[node[i]]})
              new == Linked(l, times, a)
              t == [i \in 1 .. k + 1 |-> IF i < at THEN s[i] ELSE IF i = at THEN a ELSE s[i - 1]]
  <1>3. /\ at \in 1 .. k + 1
        /\ at <= k => times[a] < times[s[at]]
        /\ \A i \in 1 .. k : i < at => times[s[i]] <= times[a]
        /\ node[at] = (IF at <= k THEN s[at] ELSE None)
        /\ at # 1 => node[at - 1] = s[at - 1]
    BY <1>2, Place
  <1>4. /\ s \in [1 .. k -> Alarm] /\ \A i, j \in 1 .. k : s[i] = s[j] => i = j
        /\ \A i \in 1 .. k : s[i] # a /\ s[i] # None
    <2>1. s \in [1 .. k -> Alarm] /\ \A i, j \in 1 .. k : s[i] = s[j] => i = j
      BY <1>2, InjectionDef
    <2>2. \A i \in 1 .. k : s[i] \in set /\ s[i] \in Alarm
      BY <1>2, <2>1 DEF Members
    <2>3. None \notin Alarm
      BY AlarmsAssumption
    <2>. QED BY <2>1, <2>2, <2>3
  <1>5. /\ new.head = (IF at = 1 THEN a ELSE l.head)
        /\ new.tail = (IF at = k + 1 THEN a ELSE l.tail)
        /\ new.next = (IF at = 1 THEN [l.next EXCEPT ![a] = l.head]
                       ELSE [l.next EXCEPT ![a] = node[at], ![s[at - 1]] = a])
        /\ new.prev = (IF at = 1 THEN IF k = 0 THEN l.prev ELSE [l.prev EXCEPT ![s[1]] = a]
                       ELSE IF at = k + 1 THEN [l.prev EXCEPT ![a] = s[at - 1]]
                       ELSE [l.prev EXCEPT ![a] = s[at - 1], ![s[at]] = a])
        /\ new \in Links
    <2>. HIDE DEF at, node
    <2>1. new = IF l.head = None THEN [l EXCEPT !.head = a, !.tail = a]
                ELSE IF at = 1 THEN [l EXCEPT !.head = a, !.next[a] = l.head, !.prev[l.head] = a]
                ELSE IF node[at] = None
                THEN [l EXCEPT !.prev[a] = node[at - 1], !.next[a] = node[at],
                               !.next[node[at - 1]] = a, !.tail = a]
                ELSE [l EXCEPT !.prev[a] = node[at - 1], !.next[a] = node[at],
                               !.next[node[at - 1]] = a, !.prev[node[at]] = a]
      BY <1>3, <1>4 DEF Linked, at, node
    <2>. HIDE DEF new
    <2>0. /\ l.head \in Alarm \cup {None} /\ l.tail \in Alarm \cup {None}
          /\ l.next \in [Alarm -> Alarm \cup {None}] /\ l.prev \in [Alarm -> Alarm \cup {None}]
          /\ l = [head |-> l.head, tail |-> l.tail, next |-> l.next, prev |-> l.prev]
      BY DEF Links
    <2>2. CASE k = 0
      <3>1. l.head = None /\ at = 1 /\ [l.next EXCEPT ![a] = l.head] = l.next
        BY <1>2, <1>3, <2>2 DEF Chained, Links
      <3>2. new = [head |-> a, tail |-> a, next |-> l.next, prev |-> l.prev]
        BY <2>0, <2>1, <2>2, <3>1
      <3>. QED BY <1>3, <2>0, <2>2, <3>1, <3>2 DEF Links
    <2>3. CASE k # 0 /\ at = 1
      <3>1. l.head = s[1] /\ s[1] # None /\ s[1] \in Alarm
        BY <1>2, <1>4, <2>3 DEF Chained
      <3>2. new = [head |-> a, tail |-> l.tail, next |-> [l.next EXCEPT ![a] = l.head],
                   prev |-> [l.prev EXCEPT ![s[1]] = a]]
        BY <2>0, <2>1, <2>3, <3>1
      <3>. QED BY <1>3, <2>0, <2>3, <3>1, <3>2 DEF Links
    <2>4. CASE k # 0 /\ at # 1
      <3>1. l.head = s[1] /\ s[1] # None /\ s[at - 1] \in Alarm
        BY <1>2, <1>3, <1>4, <2>4 DEF Chained
      <3>2. CASE at = k + 1
        <4>0. node[at] = None /\ node[at - 1] = s[at - 1] /\ l.head # None
          BY <1>3, <2>4, <3>1, <3>2
        <4>1. new = [head |-> l.head, tail |-> a,
                     next |-> [l.next EXCEPT ![a] = node[at], ![s[at - 1]] = a],
                     prev |-> [l.prev EXCEPT ![a] = s[at - 1]]]
          BY <2>0, <2>1, <2>4, <3>1, <4>0
        <4>2. /\ [l.next EXCEPT ![a] = node[at], ![s[at - 1]] = a] \in [Alarm -> Alarm \cup {None}]
              /\ [l.prev EXCEPT ![a] = s[at - 1]] \in [Alarm -> Alarm \cup {None}]
          BY <2>0, <3>1, <4>0
        <4>. QED BY <2>0, <2>4, <3>2, <4>1, <4>2 DEF Links
      <3>3. CASE at # k + 1
        <4>1. s[at] \in Alarm /\ s[at] # None /\ node[at] = s[at]
          BY <1>3, <1>4, <3>3
        <4>2. new = [head |-> l.head, tail |-> l.tail,
                     next |-> [l.next EXCEPT ![a] = node[at], ![s[at - 1]] = a],
                     prev |-> [l.prev EXCEPT ![a] = s[at - 1], ![s[at]] = a]]
          BY <1>3, <2>0, <2>1, <2>4, <3>1, <4>1
        <4>. QED BY <1>3, <2>0, <2>4, <3>1, <3>3, <4>1, <4>2 DEF Links
      <3>. QED BY <3>2, <3>3
    <2>. QED BY <2>2, <2>3, <2>4
  <1>6. t \in Injection(1 .. k + 1, Alarm)
    <2>. HIDE DEF at
    <2>1. t \in [1 .. k + 1 -> Alarm]
      BY <1>3, <1>4
    <2>2. \A i, j \in 1 .. k + 1 : t[i] = t[j] => i = j
      BY <1>3, <1>4
    <2>3. k + 1 \in Nat
      OBVIOUS
    <2>. HIDE DEF t
    <2>. QED BY <2>1, <2>2, <2>3, InjectionDef
  <1>7. InOrder(times, k + 1, t)
    <2>. HIDE DEF at
    <2>. QED BY <1>2, <1>3, <1>4 DEF InOrder
  <1>8. Members(k + 1, t) = set \cup {a}
    <2>. HIDE DEF at
    <2>1. ASSUME NEW b \in set PROVE b \in Members(k + 1, t)
      <3>1. PICK i \in 1 .. k : b = s[i]
        BY <1>2 DEF Members
      <3>2. CASE i < at
        BY <1>3, <3>1, <3>2 DEF Members
      <3>3. CASE i >= at
        <4>1. i + 1 \in 1 .. k + 1 /\ t[i + 1] = s[i]
          BY <1>3, <3>3
        <4>. QED BY <3>1, <4>1 DEF Members
      <3>. QED BY <1>3, <3>2, <3>3
    <2>2. a \in Members(k + 1, t)
      BY <1>3 DEF Members
    <2>3. ASSUME NEW i \in 1 .. k + 1 PROVE t[i] \in set \cup {a}
      BY <1>2, <1>3, <2>3 DEF Members
    <2>. QED BY <2>1, <2>2, <2>3 DEF Members
  <1>9. Chained(new, k + 1, t)
    <2>. HIDE DEF at, node, new
    <2>1. new.head = t[1]
      BY <1>2, <1>3, <1>5 DEF Chained
    <2>2. new.tail = t[k + 1]
      BY <1>2, <1>3, <1>5 DEF Chained
    <2>3. ASSUME NEW i \in 1 .. k + 1
          PROVE  new.next[t[i]] = (IF i = k + 1 THEN None ELSE t[i + 1])
      <3>0. \A n \in 1 .. k : l.next[s[n]] = (IF n = k THEN None ELSE s[n + 1])
        BY <1>2 DEF Chained
      <3>1. CASE i < at - 1
        <4>1. /\ i \in 1 .. k /\ i # k /\ t[i] = s[i] /\ t[i + 1] = s[i + 1] /\ at # 1
              /\ s[i] # a /\ s[i] # s[at - 1] /\ s[i] \in Alarm
          BY <1>3, <1>4, <3>1
        <4>2. new.next[s[i]] = l.next[s[i]]
          BY <1>5, <4>1 DEF Links
        <4>. QED BY <1>3, <3>0, <3>1, <4>1, <4>2
      <3>2. CASE i = at - 1
        <4>1. /\ i \in 1 .. k /\ t[i] = s[at - 1] /\ t[i + 1] = a /\ at # 1 /\ i # k + 1
              /\ s[at - 1] # a /\ s[at - 1] \in Alarm
          BY <1>3, <1>4, <3>2
        <4>2. new.next[s[at - 1]] = a
          BY <1>5, <4>1 DEF Links
        <4>. QED BY <4>1, <4>2
      <3>3. CASE i = at
        <4>1. t[i] = a /\ (i # k + 1 => t[i + 1] = s[i])
          BY <1>3, <3>3
        <4>2. CASE at = 1
          BY <1>2, <1>3, <1>5, <3>3, <4>1, <4>2 DEF Links, Chained
        <4>3. CASE at # 1
          <5>1. s[at - 1] # a
            BY <1>3, <1>4, <4>3
          <5>2. new.next[a] = node[at]
            BY <1>5, <4>3, <5>1 DEF Links
          <5>. QED BY <1>3, <3>3, <4>1, <5>2
        <4>. QED BY <4>2, <4>3
      <3>4. CASE i > at
        <4>1. /\ i - 1 \in 1 .. k /\ t[i] = s[i - 1] /\ (i # k + 1 => t[i + 1] = s[i])
              /\ s[i - 1] # a /\ s[i - 1] \in Alarm /\ (at # 1 => s[i - 1] # s[at - 1])
          BY <1>3, <1>4, <3>4
        <4>2. new.next[s[i - 1]] = l.next[s[i - 1]]
          BY <1>5, <4>1 DEF Links
        <4>3. l.next[s[i - 1]] = (IF i - 1 = k THEN None ELSE s[(i - 1) + 1])
          BY <3>0, <4>1
        <4>. QED BY <4>1, <4>2, <4>3
      <3>. QED BY <1>3, <3>1, <3>2, <3>3, <3>4
    <2>4. ASSUME NEW i \in 1 .. k + 1
          PROVE  new.prev[t[i]] = (IF i = 1 THEN None ELSE t[i - 1])
      <3>1. CASE i < at
        <4>1. i \in 1 .. k /\ t[i] = s[i] /\ (i # 1 => t[i - 1] = s[i - 1]) /\ at # 1
          BY <1>3, <3>1
        <4>2. s[i] # a /\ (at <= k => s[i] # s[at]) /\ (at = k + 1 \/ at \in 1 .. k)
          <5>1. s[i] # a
            BY <1>4, <4>1
          <5>2. CASE at = k + 1
            BY <5>1, <5>2
          <5>3. CASE at \in 1 .. k
            BY <1>4, <3>1, <4>1, <5>1, <5>3
          <5>. QED BY <1>3, <5>2, <5>3
        <4>3. new.prev[s[i]] = l.prev[s[i]]
          BY <1>3, <1>4, <1>5, <4>1, <4>2 DEF Links
        <4>4. l.prev[s[i]] = (IF i = 1 THEN None ELSE s[i - 1])
          BY <1>2, <4>1 DEF Chained
        <4>. QED BY <4>1, <4>3, <4>4
      <3>2. CASE i = at
        <4>1. t[i] = a /\ (i # 1 => t[i - 1] = s[i - 1])
          BY <1>3, <3>2
        <4>3. CASE at = 1
          BY <1>3, <1>4, <1>5, <3>2, <4>1, <4>3 DEF Links
        <4>4. CASE at # 1
          BY <1>3, <1>4, <1>5, <3>2, <4>1, <4>4 DEF Links
        <4>. QED BY <4>3, <4>4
      <3>3. CASE i = at + 1
        BY <1>2, <1>3, <1>4, <1>5, <3>3 DEF Chained, Links
      <3>4. CASE i > at + 1
        <4>1. t[i] = s[i - 1] /\ t[i - 1] = s[i - 2] /\ i - 1 \in 1 .. k /\ i # 1
          BY <1>3, <3>4
        <4>2. s[i - 1] # a /\ s[i - 1] # s[at] /\ s[i - 1] # s[1] /\ at \in 1 .. k
          BY <1>3, <1>4, <3>4
        <4>3. new.prev[s[i - 1]] = l.prev[s[i - 1]]
          <5>1. s[i - 1] \in Alarm /\ at # k + 1
            BY <1>4, <4>1, <4>2
          <5>2. CASE at = 1
            BY <1>5, <4>2, <5>1, <5>2 DEF Links
          <5>3. CASE at # 1
            BY <1>5, <4>2, <5>1, <5>3 DEF Links
          <5>. QED BY <5>2, <5>3
        <4>4. l.prev[s[i - 1]] = s[i - 2]
          <5>1. l.prev[s[i - 1]] = (IF i - 1 = 1 THEN None ELSE s[(i - 1) - 1])
            BY <1>2, <4>1 DEF Chained
          <5>2. i - 1 # 1 /\ (i - 1) - 1 = i - 2
            BY <1>3, <3>4
          <5>. QED BY <5>1, <5>2
        <4>. QED BY <4>1, <4>3, <4>4
      <3>. QED BY <1>3, <3>1, <3>2, <3>3, <3>4
    <2>. QED BY <2>1, <2>2, <2>3, <2>4 DEF Chained
  <1>. QED BY <1>5, <1>6, <1>7, <1>8, <1>9 DEF Queued

\* The parts of Queued, for its users.
LEMMA QueuedChain ==
  ASSUME NEW l, NEW times, NEW set, Queued(l, times, set)
  PROVE  \E k, s :
            /\ k \in Nat /\ s \in Injection(1 .. k, Alarm)
            /\ Chained(l, k, s) /\ InOrder(times, k, s)
            /\ set = {s[i] : i \in 1 .. k}
            /\ s \in [1 .. k -> Alarm] /\ \A i, j \in 1 .. k : s[i] = s[j] => i = j
            /\ \A i \in 1 .. k : s[i] # None /\ s[i] \in Alarm
  BY InjectionDef, AlarmsAssumption DEF Queued, Members

\* The queue says nothing of the alarms that are not in it.
LEMMA OthersFree ==
  ASSUME NEW l, NEW m, NEW times, NEW times2, NEW set, Queued(l, times, set),
         m.head = l.head, m.tail = l.tail,
         \A a \in set : m.next[a] = l.next[a] /\ m.prev[a] = l.prev[a] /\ times2[a] = times[a]
  PROVE  Queued(m, times2, set)
  <1>1. PICK k, s : /\ k \in Nat /\ s \in Injection(1 .. k, Alarm)
                    /\ Chained(l, k, s) /\ InOrder(times, k, s) /\ Members(k, s) = set
    BY DEF Queued
  <1>2. \A i \in 1 .. k : s[i] \in set
    BY <1>1 DEF Members
  <1>3. Chained(m, k, s)
    BY <1>1, <1>2 DEF Chained
  <1>4. InOrder(times2, k, s)
    BY <1>1, <1>2 DEF InOrder
  <1>. QED BY <1>1, <1>3, <1>4 DEF Queued

\* Clearing the links of an alarm outside the queue.
LEMMA ClearedQueued ==
  ASSUME NEW l \in Links, NEW times, NEW set, Queued(l, times, set),
         NEW a \in Alarm, a \notin set
  PROVE  /\ Cleared(l, a) \in Links
         /\ Queued(Cleared(l, a), times, set)
         /\ Cleared(l, a).next[a] = None /\ Cleared(l, a).prev[a] = None
  <1>. DEFINE m == Cleared(l, a)
  <1>1. m = [head |-> l.head, tail |-> l.tail, next |-> [l.next EXCEPT ![a] = None],
             prev |-> [l.prev EXCEPT ![a] = None]]
    <2>1. /\ l.next \in [Alarm -> Alarm \cup {None}] /\ l.prev \in [Alarm -> Alarm \cup {None}]
          /\ l = [head |-> l.head, tail |-> l.tail, next |-> l.next, prev |-> l.prev]
      BY DEF Links
    <2>2. m = [l EXCEPT !.next[a] = None, !.prev[a] = None]
      BY DEF Cleared
    <2>. HIDE DEF m
    <2>. QED BY <2>1, <2>2
  <1>. HIDE DEF m
  <1>2. /\ m \in Links /\ m.head = l.head /\ m.tail = l.tail
        /\ m.next[a] = None /\ m.prev[a] = None
        /\ \A b \in Alarm \ {a} : m.next[b] = l.next[b] /\ m.prev[b] = l.prev[b]
    BY <1>1 DEF Links
  <1>3. set \subseteq Alarm
    BY QueuedChain
  <1>4. Queued(m, times, set)
    BY <1>2, <1>3, OthersFree
  <1>. QED BY <1>2, <1>4 DEF m

\* SanitizeAlarmQueue leaves a queue as it is: no alarm in it follows itself.
LEMMA SanitizedQueued ==
  ASSUME NEW l \in Links, NEW times, NEW set, Queued(l, times, set)
  PROVE  Sanitized(l) = l
  <1>1. PICK k, s :
            /\ k \in Nat /\ s \in Injection(1 .. k, Alarm)
            /\ Chained(l, k, s)
            /\ \A i, j \in 1 .. k : s[i] = s[j] => i = j
            /\ \A i \in 1 .. k : s[i] # None /\ s[i] \in Alarm
    BY QueuedChain
  <1>. k \in Nat
    BY <1>1
  <1>2. ASSUME NEW a \in Alarm, l.head = a, l.next[a] = a PROVE FALSE
    <2>1. k # 0 /\ a = s[1] /\ a # None
      BY <1>1, <1>2, AlarmsAssumption DEF Chained
    <2>2. l.next[a] = IF 1 = k THEN None ELSE s[2]
      BY <1>1, <2>1 DEF Chained
    <2>. QED BY <1>1, <1>2, <2>1, <2>2
  <1>. QED BY <1>2 DEF Sanitized

\* OSCancelAlarm takes one alarm out of a queue, wherever it stands.
LEMMA CancelledQueued ==
  ASSUME NEW l \in Links, NEW times, NEW set, Queued(l, times, set), NEW a \in set
  PROVE  /\ Cancelled(l, a) \in Links
         /\ Queued(Cancelled(l, a), times, set \ {a})
  <1>1. PICK k, s :
            /\ k \in Nat /\ s \in Injection(1 .. k, Alarm)
            /\ Chained(l, k, s) /\ InOrder(times, k, s)
            /\ set = {s[i] : i \in 1 .. k}
            /\ s \in [1 .. k -> Alarm] /\ \A i, j \in 1 .. k : s[i] = s[j] => i = j
            /\ \A i \in 1 .. k : s[i] # None /\ s[i] \in Alarm
    BY QueuedChain
  <1>. k \in Nat
    BY <1>1
  <1>2. PICK j \in 1 .. k : a = s[j]
    BY <1>1
  <1>. DEFINE new == Cancelled(l, a)
              t == [i \in 1 .. k - 1 |-> IF i < j THEN s[i] ELSE s[i + 1]]
              next == IF j = k THEN None ELSE s[j + 1]
              prev == IF j = 1 THEN None ELSE s[j - 1]
  <1>3. /\ l.next[a] = next /\ l.prev[a] = prev
        /\ l.head = s[1] /\ l.tail = s[k]
        /\ next = None <=> j = k
        /\ prev = None <=> j = 1
        /\ next \in Alarm \cup {None} /\ prev \in Alarm \cup {None}
        /\ None \notin Alarm
    BY <1>1, <1>2, AlarmsAssumption DEF Chained
  <1>. HIDE DEF next, prev
  <1>4. new = [head |-> IF prev = None THEN next ELSE l.head,
               tail |-> IF next = None THEN prev ELSE l.tail,
               next |-> IF prev = None THEN l.next ELSE [l.next EXCEPT ![prev] = next],
               prev |-> IF next = None THEN l.prev ELSE [l.prev EXCEPT ![next] = prev]]
    <2>. HIDE DEF t
    <2>0. new = LET back == IF next = None THEN [l EXCEPT !.tail = prev] ELSE [l EXCEPT !.prev[next] = prev]
                IN  IF prev = None THEN [back EXCEPT !.head = next] ELSE [back EXCEPT !.next[prev] = next]
      BY <1>3 DEF Cancelled
    <2>. HIDE DEF new
    <2>1. CASE next = None
      BY <2>0, <2>1 DEF Links
    <2>2. CASE next # None
      BY <2>0, <2>2 DEF Links
    <2>. QED BY <2>1, <2>2
  <1>. HIDE DEF new
  <1>5. new \in Links
    BY <1>3, <1>4 DEF Links
  <1>6. t \in Injection(1 .. k - 1, Alarm)
    <2>1. t \in [1 .. k - 1 -> Alarm]
      BY <1>1
    <2>2. \A i, n \in 1 .. k - 1 : t[i] = t[n] => i = n
      BY <1>1
    <2>3. k - 1 \in Nat
      OBVIOUS
    <2>. HIDE DEF t
    <2>. QED BY <2>1, <2>2, <2>3, InjectionDef
  <1>7. InOrder(times, k - 1, t)
    BY <1>1 DEF InOrder
  <1>8. Members(k - 1, t) = set \ {a}
    <2>1. ASSUME NEW b \in set \ {a} PROVE b \in Members(k - 1, t)
      <3>1. PICK i \in 1 .. k : b = s[i] /\ i # j
        BY <1>1, <1>2
      <3>2. CASE i < j
        BY <3>1, <3>2 DEF Members
      <3>3. CASE i > j
        <4>1. i - 1 \in 1 .. k - 1 /\ t[i - 1] = s[i]
          BY <3>3
        <4>. QED BY <3>1, <4>1 DEF Members
      <3>. QED BY <3>1, <3>2, <3>3
    <2>2. ASSUME NEW i \in 1 .. k - 1 PROVE t[i] \in set \ {a}
      BY <1>1, <1>2
    <2>. QED BY <2>1, <2>2 DEF Members
  <1>9. Chained(new, k - 1, t)
    <2>1. new.head = IF k - 1 = 0 THEN None ELSE t[1]
      BY <1>3, <1>4 DEF next
    <2>2. new.tail = IF k - 1 = 0 THEN None ELSE t[k - 1]
      BY <1>3, <1>4 DEF prev
    <2>3. ASSUME NEW i \in 1 .. k - 1
          PROVE  /\ new.next[t[i]] = (IF i = k - 1 THEN None ELSE t[i + 1])
                 /\ new.prev[t[i]] = (IF i = 1 THEN None ELSE t[i - 1])
      <3>1. CASE i < j
        <4>1. i \in 1 .. k /\ t[i] = s[i] /\ s[i] \in Alarm /\ (i # 1 => t[i - 1] = s[i - 1])
          BY <1>1, <3>1
        <4>2. l.next[s[i]] = s[i + 1] /\ l.prev[s[i]] = (IF i = 1 THEN None ELSE s[i - 1])
          BY <1>1, <4>1, <3>1 DEF Chained
        <4>3. next # None => next # s[i]
          BY <1>1, <1>3, <3>1, <4>1 DEF next
        <4>4. new.prev[t[i]] = l.prev[s[i]]
          BY <1>3, <1>4, <4>1, <4>3 DEF Links
        <4>5. CASE i = j - 1
          <5>1. prev = s[i] /\ prev # None
            BY <1>3, <4>5 DEF prev
          <5>2. new.next[t[i]] = next
            BY <1>4, <4>1, <5>1 DEF Links
          <5>. QED BY <4>1, <4>2, <4>4, <4>5, <5>2 DEF next
        <4>6. CASE i < j - 1
          <5>1. prev # s[i]
            BY <1>1, <1>3, <4>1, <4>6 DEF prev
          <5>2. new.next[t[i]] = s[i + 1] /\ t[i + 1] = s[i + 1]
            BY <1>3, <1>4, <4>1, <4>2, <4>6, <5>1 DEF Links
          <5>. QED BY <4>1, <4>2, <4>4, <4>6, <5>2
        <4>. QED BY <3>1, <4>5, <4>6
      <3>2. CASE i >= j
        <4>1. /\ i + 1 \in 1 .. k /\ t[i] = s[i + 1] /\ s[i + 1] \in Alarm
              /\ i # k - 1 => t[i + 1] = s[i + 2]
          BY <1>1, <3>2
        <4>2. l.next[s[i + 1]] = (IF i + 1 = k THEN None ELSE s[i + 2]) /\ l.prev[s[i + 1]] = s[i]
          BY <1>1, <4>1, <3>2 DEF Chained
        <4>3. prev # s[i + 1]
          BY <1>1, <1>3, <3>2, <4>1 DEF prev
        <4>4. new.next[t[i]] = l.next[s[i + 1]]
          BY <1>3, <1>4, <4>1, <4>3 DEF Links
        <4>5. CASE i = j
          <5>1. next = s[i + 1] /\ next # None
            BY <1>3, <4>1, <4>5 DEF next
          <5>2. new.prev[t[i]] = prev
            BY <1>4, <4>1, <5>1 DEF Links
          <5>3. i # 1 => t[i - 1] = s[i - 1]
            BY <4>5
          <5>. QED BY <4>1, <4>2, <4>4, <4>5, <5>2, <5>3 DEF prev
        <4>6. CASE i > j
          <5>1. next # s[i + 1]
            BY <1>1, <1>3, <4>1, <4>6 DEF next
          <5>2. new.prev[t[i]] = s[i] /\ t[i - 1] = s[i]
            BY <1>3, <1>4, <4>1, <4>2, <4>6, <5>1 DEF Links
          <5>. QED BY <4>1, <4>2, <4>4, <4>6, <5>2
        <4>. QED BY <3>2, <4>5, <4>6
      <3>. QED BY <3>1, <3>2
    <2>. QED BY <2>1, <2>2, <2>3 DEF Chained
  <1>10. k - 1 \in Nat
    OBVIOUS
  <1>. HIDE DEF t
  <1>. QED BY <1>5, <1>6, <1>7, <1>8, <1>9, <1>10 DEF Queued, new

\* The pump takes the head out, which no alarm of the queue precedes.
LEMMA TakenQueued ==
  ASSUME NEW l \in Links, NEW times, NEW set, Queued(l, times, set), l.head # None
  PROVE  /\ l.head \in set /\ l.head \in Alarm
         /\ \A b \in set \ {l.head} : times[l.head] <= times[b]
         /\ Taken(l) \in Links
         /\ Queued(Taken(l), times, set \ {l.head})
         /\ Taken(l).next[l.head] = None /\ Taken(l).prev[l.head] = None
  <1>. DEFINE a == l.head
  <1>1. PICK k, s :
            /\ k \in Nat /\ s \in Injection(1 .. k, Alarm)
            /\ Chained(l, k, s) /\ InOrder(times, k, s)
            /\ set = {s[i] : i \in 1 .. k}
            /\ s \in [1 .. k -> Alarm] /\ \A i, j \in 1 .. k : s[i] = s[j] => i = j
            /\ \A i \in 1 .. k : s[i] # None /\ s[i] \in Alarm
    BY QueuedChain
  <1>. k \in Nat
    BY <1>1
  <1>2. k # 0 /\ a = s[1] /\ 1 \in 1 .. k /\ l.prev[a] = None
    BY <1>1 DEF Chained
  <1>3. a \in set /\ a \in Alarm
    BY <1>1, <1>2
  <1>4. ASSUME NEW b \in set \ {a} PROVE times[a] <= times[b]
    <2>1. PICK i \in 1 .. k : b = s[i] /\ i # 1
      BY <1>1, <1>2
    <2>. QED BY <1>1, <1>2, <2>1 DEF InOrder
  <1>5. Taken(l) = Cleared(Cancelled(l, a), a)
    <2>1. l = [head |-> l.head, tail |-> l.tail, next |-> l.next, prev |-> l.prev]
      BY DEF Links
    <2>2. CASE l.next[a] = None
      <3>1. [[l EXCEPT !.head = None, !.tail = None] EXCEPT !.next[a] = None, !.prev[a] = None]
              = [[[l EXCEPT !.tail = None] EXCEPT !.head = None] EXCEPT !.next[a] = None, !.prev[a] = None]
        BY <2>1
      <3>. QED BY <1>2, <2>2, <3>1 DEF Taken, Cancelled, Cleared
    <2>3. CASE l.next[a] # None
      <3>1. [l EXCEPT !.head = l.next[a], !.prev[l.next[a]] = None]
              = [[l EXCEPT !.prev[l.next[a]] = None] EXCEPT !.head = l.next[a]]
        BY <2>1
      <3>. QED BY <1>2, <2>3, <3>1 DEF Taken, Cancelled, Cleared
    <2>. QED BY <2>2, <2>3
  <1>6. Cancelled(l, a) \in Links /\ Queued(Cancelled(l, a), times, set \ {a})
    BY <1>3, CancelledQueued
  <1>7. a \notin set \ {a}
    OBVIOUS
  <1>. QED BY <1>3, <1>4, <1>5, <1>6, <1>7, ClearedQueued

\* Null ends are an empty queue.
LEMMA EmptyQueued ==
  ASSUME NEW l, l.head = None, l.tail = None, NEW times
  PROVE  Queued(l, times, {})
  <1>. DEFINE s == [i \in 1 .. 0 |-> None]
  <1>1. 0 \in Nat /\ s \in Injection(1 .. 0, Alarm)
    <2>1. s \in [1 .. 0 -> Alarm] /\ \A i, j \in 1 .. 0 : s[i] = s[j] => i = j
      OBVIOUS
    <2>. HIDE DEF s
    <2>. QED BY <2>1, InjectionDef
  <1>2. Chained(l, 0, s)
    BY DEF Chained
  <1>3. InOrder(times, 0, s) /\ Members(0, s) = {}
    BY DEF InOrder, Members
  <1>. HIDE DEF s
  <1>. QED BY <1>1, <1>2, <1>3 DEF Queued

\* SanitizeAlarmQueue makes an empty queue of a sentinel.
LEMMA SentinelSanitized ==
  ASSUME NEW a \in Alarm, NEW times
  PROVE  /\ Sentinel(a) \in Links
         /\ Sanitized(Sentinel(a)) \in Links
         /\ Queued(Sanitized(Sentinel(a)), times, {})
         /\ Sanitized(Sentinel(a)) # Sentinel(a)
  <1>. DEFINE l == Sentinel(a)
  <1>1. /\ l \in Links /\ l.head = a /\ l.tail = a /\ l.next[a] = a /\ l.prev[a] = a
        /\ \A b \in Alarm \ {a} : l.next[b] = None /\ l.prev[b] = None
    BY DEF Sentinel, Nowhere, Links
  <1>. HIDE DEF l
  <1>2. Sanitized(l) = [l EXCEPT !.head = None, !.tail = None,
                                 !.next[l.head] = None, !.prev[l.head] = None]
    BY <1>1 DEF Sanitized
  <1>. DEFINE m == Sanitized(l)
  <1>. HIDE DEF m
  <1>3. m = [l EXCEPT !.head = None, !.tail = None, !.next[a] = None, !.prev[a] = None]
    BY <1>1, <1>2 DEF m
  <1>4. m \in Links /\ m.head = None /\ m.tail = None
    <2>1. /\ l.next \in [Alarm -> Alarm \cup {None}] /\ l.prev \in [Alarm -> Alarm \cup {None}]
          /\ l = [head |-> l.head, tail |-> l.tail, next |-> l.next, prev |-> l.prev]
      BY <1>1 DEF Links
    <2>2. m = [head |-> None, tail |-> None, next |-> [l.next EXCEPT ![a] = None],
               prev |-> [l.prev EXCEPT ![a] = None]]
      BY <1>3, <2>1
    <2>. QED BY <2>1, <2>2 DEF Links
  <1>5. Queued(m, times, {})
    BY <1>4, EmptyQueued
  <1>. QED BY <1>1, <1>4, <1>5, AlarmsAssumption DEF l, m

-----------------------------------------------------------------------------
(* The state of the alarms, beside that of the pumps.                      *)

Armed == {a \in Alarm : handler[a]}

AlarmType == /\ links \in Links
             /\ handler \in [Alarm -> BOOLEAN]
             /\ fire \in [Alarm -> Int]
             /\ period \in [Alarm -> Nat]
             /\ start \in [Alarm -> Int]
             /\ now \in 0 .. MaxTime

SchedType == /\ resched \in BOOLEAN
             /\ active \notin ready
             /\ left \in [Context -> 0 .. Limit]

\* The queue is as it was initialised, which no pump in its scope and no armed
\* alarm has seen; or it is made of the armed alarms.
QueueExact ==
    \/ /\ \E a \in Alarm : links = Sentinel(a)
       /\ Armed = {}
       /\ \A c \in Context : ~Holds(c)
    \/ Queued(links, fire, Armed)

PeriodicAhead == \A a \in Alarm : handler[a] /\ period[a] # 0 => start[a] <= fire[a]

AInv == AlarmType /\ SchedType /\ QueueExact /\ PeriodicAhead

\* InsertAlarmNative: the next time is start plus a multiple of the period, and
\* the first one ahead of the clock.
LEMMA PeriodicTime ==
  ASSUME now \in Int, NEW s \in Int, NEW p \in Nat \ {0}
  PROVE  /\ PeriodicFire(s, p) \in Int
         /\ (PeriodicFire(s, p) - s) % p = 0
         /\ s <= PeriodicFire(s, p) /\ now <= PeriodicFire(s, p)
         /\ s < now => now < PeriodicFire(s, p)
         /\ PeriodicFire(s, p) = s \/ PeriodicFire(s, p) <= now + p
  <1>1. CASE s >= now
    <2>1. PeriodicFire(s, p) = s
      BY <1>1 DEF PeriodicFire
    <2>2. (s - s) % p = 0
      OBVIOUS
    <2>. QED BY <1>1, <2>1, <2>2
  <1>2. CASE s < now
    <2>. DEFINE q == (now - s) \div p
    <2>1. q \in Int /\ p * q <= now - s /\ now - s < p * q + p /\ q >= 0
      BY <1>2
    <2>2. PeriodicFire(s, p) = s + p * (q + 1)
      BY <1>2 DEF PeriodicFire
    <2>. HIDE DEF q
    <2>3. p * (q + 1) = p * q + p /\ p * q \in Int
      BY <2>1
    <2>4. (PeriodicFire(s, p) - s) = p * (q + 1)
      BY <2>1, <2>2, <2>3
    <2>5. (p * (q + 1)) % p = 0
      BY <2>1
    <2>. QED BY <1>2, <2>1, <2>2, <2>3, <2>4, <2>5
  <1>. QED BY <1>1, <1>2

LEMMA InitAlarms == Init => AInv
  <1>. SUFFICES ASSUME Init PROVE AInv
    OBVIOUS
  <1>1. links \in Links /\ QueueExact
    <2>1. CASE links = EmptyQueue
      <3>1. /\ links.head = None /\ links.tail = None /\ links \in Links
        BY <2>1 DEF EmptyQueue, Nowhere, Links
      <3>2. Armed = {}
        BY DEF Init, Armed
      <3>. QED BY <3>1, <3>2, EmptyQueued DEF QueueExact
    <2>2. ASSUME NEW a \in Alarm, links = Sentinel(a) PROVE links \in Links /\ QueueExact
      BY <2>2, SentinelSanitized DEF Init, QueueExact, Armed, Holds, Holding
    <2>. QED BY <2>1, <2>2 DEF Init
  <1>2. AlarmType
    BY <1>1, AlarmsAssumption DEF Init, AlarmType
  <1>3. SchedType
    <2>1. 0 \in 0 .. Limit
      BY AlarmsAssumption
    <2>. QED BY <2>1 DEF Init, SchedType
  <1>4. PeriodicAhead
    BY DEF Init, PeriodicAhead
  <1>. QED BY <1>1, <1>2, <1>3, <1>4 DEF AInv

\* SanitizeAlarmQueue leaves a queue of the armed alarms, from either beginning.
LEMMA SanitizedExact ==
  ASSUME AInv
  PROVE  /\ Sanitized(links) \in Links
         /\ Queued(Sanitized(links), fire, Armed)
         /\ (links = Sanitized(links)) <=> Queued(links, fire, Armed)
  <1>1. CASE Queued(links, fire, Armed)
    BY <1>1, SanitizedQueued DEF AInv, AlarmType
  <1>2. CASE ~Queued(links, fire, Armed)
    <2>1. PICK a \in Alarm : links = Sentinel(a)
      BY <1>2 DEF AInv, QueueExact
    <2>2. Armed = {}
      BY <1>2 DEF AInv, QueueExact
    <2>. QED BY <1>2, <2>1, <2>2, SentinelSanitized
  <1>. QED BY <1>1, <1>2

\* A step that leaves the alarms alone.
LEMMA AlarmsKept ==
  ASSUME AInv, UNCHANGED alarmVars, now' \in 0 .. MaxTime, SchedType',
         \A c \in Context : Holds(c)' => Holds(c)
  PROVE  AInv'
  <1>1. UNCHANGED <<links, handler, fire, period, start>> /\ Armed' = Armed
    BY DEF alarmVars, Armed
  <1>2. AlarmType'
    BY <1>1 DEF AInv, AlarmType
  <1>3. QueueExact'
    <2>1. Queued(links, fire, Armed) => Queued(links, fire, Armed)'
      BY <1>1
    <2>. QED BY <1>1, <2>1 DEF AInv, QueueExact
  <1>4. PeriodicAhead'
    BY <1>1 DEF AInv, PeriodicAhead
  <1>. QED BY <1>2, <1>3, <1>4 DEF AInv

\* A step that leaves a queue of the armed alarms.
LEMMA AlarmsSet ==
  ASSUME AlarmType', SchedType', Queued(links, fire, Armed)', PeriodicAhead'
  PROVE  AInv'
  BY DEF AInv, QueueExact

\* Rescheduling leaves the active context out of the ready threads.
LEMMA RescheduleSched ==
  ASSUME AInv, IInv, NEW hint \in BOOLEAN, NEW set \in SUBSET Thread, active \notin set, NEW then,
         Reschedule(hint, set, then), left' = left
  PROVE  SchedType'
  <1>1. CASE SwitchWanted(hint, set)
    <2>1. PICK t \in set : active' = t /\ ready' = (set \ {t}) \cup {active}
      BY <1>1 DEF Reschedule, Best
    <2>2. resched' = FALSE
      BY <1>1 DEF Reschedule
    <2>. QED BY <2>1, <2>2 DEF SchedType, AInv
  <1>2. CASE ~SwitchWanted(hint, set)
    BY <1>2 DEF Reschedule, SchedType, AInv
  <1>. QED BY <1>1, <1>2

\* Rescheduling, from one place to another on the same side of the guard.
LEMMA RescheduleKept ==
  ASSUME AInv, IInv, NEW hint \in BOOLEAN, NEW set \in SUBSET Thread, active \notin set, NEW there,
         Reschedule(hint, set, there), there \in Holding => Holds(active),
         UNCHANGED <<alarmVars, now, left>>
  PROVE  AInv'
  <1>1. pc' = [pc EXCEPT ![active] = there] /\ pc \in [Context -> Pumping \cup {"guest", "preempt"}]
    BY DEF Reschedule, IInv, PcType
  <1>2. \A c \in Context : Holds(c)' => Holds(c)
    BY <1>1 DEF Holds
  <1>3. SchedType'
    BY RescheduleSched
  <1>4. now' \in 0 .. MaxTime
    BY DEF AInv, AlarmType
  <1>. QED BY <1>2, <1>3, <1>4, AlarmsKept

\* The pump sanitises the queue first.
LEMMA PumpKept ==
  ASSUME AInv, IInv, NEW d \in BOOLEAN, NEW n, Pump(d, n), Queued(links, fire, Armed)',
         links' \in Links, handler' \in [Alarm -> BOOLEAN],
         \A a \in Alarm : handler'[a] => handler[a],
         UNCHANGED <<fire, period, start, now>>
  PROVE  AInv'
  <1>1. AlarmType'
    BY DEF AInv, AlarmType
  <1>2. SchedType'
    <2>1. Limit \in 0 .. Limit
      BY AlarmsAssumption
    <2>. QED BY <2>1 DEF AInv, SchedType, Pump, schedVars
  <1>3. PeriodicAhead'
    BY DEF AInv, PeriodicAhead
  <1>. QED BY <1>1, <1>2, <1>3, AlarmsSet

LEMMA SanitizedPump ==
  ASSUME AInv, IInv, NEW d \in BOOLEAN, NEW n, Pump(d, n), links' = Sanitized(links),
         UNCHANGED <<handler, fire, period, start, now>>
  PROVE  AInv'
  <1>1. Armed' = Armed
    BY DEF Armed
  <1>2. Queued(links, fire, Armed)' /\ links' \in Links
    BY <1>1, SanitizedExact
  <1>. QED BY <1>2, PumpKept DEF AInv, AlarmType

\* An alarm that was not in the queue is armed for the time the step gives it.
LEMMA ArmStep ==
  ASSUME AInv, NEW a \in Alarm, ~handler[a], fire' \in [Alarm -> Int],
         \A b \in Alarm \ {a} : fire'[b] = fire[b],
         handler' = [handler EXCEPT ![a] = TRUE],
         links' = Linked(Cleared(Sanitized(links), a), fire', a)
  PROVE  /\ links' \in Links
         /\ Queued(links, fire, Armed)'
  <1>. DEFINE l == Sanitized(links)
              m == Cleared(l, a)
  <1>1. l \in Links /\ Queued(l, fire, Armed) /\ a \notin Armed /\ Armed \subseteq Alarm
    BY SanitizedExact DEF Armed
  <1>. HIDE DEF l
  <1>2. m \in Links /\ Queued(m, fire, Armed) /\ m.next[a] = None /\ m.prev[a] = None
    BY <1>1, ClearedQueued
  <1>. HIDE DEF m
  <1>3. Queued(m, fire', Armed)
    BY <1>1, <1>2, OthersFree
  <1>4. Linked(m, fire', a) \in Links /\ Queued(Linked(m, fire', a), fire', Armed \cup {a})
    BY <1>1, <1>2, <1>3, LinkedQueued
  <1>5. Armed' = Armed \cup {a}
    BY DEF AInv, AlarmType, Armed
  <1>6. links' = Linked(m, fire', a)
    BY DEF m, l
  <1>. QED BY <1>4, <1>5, <1>6

\* One turn of the pump's loop: the head was armed, and was the first.
LEMMA TurnStep ==
  ASSUME AInv, IInv, Turn
  PROVE  /\ AInv'
         /\ links.head \in Armed
         /\ \A b \in Armed : fire[links.head] <= fire[b]
         /\ Queued(links, fire, Armed)
         /\ Queued(links, fire, Armed)'
  <1>. DEFINE a == links.head
              again == period[a] # 0
  <1>0. pc[active] = "loop" /\ active \in Context /\ a # None /\ fire[a] <= now
    BY DEF Turn, Due, IInv, PcType
  <1>1. Queued(links, fire, Armed) /\ links \in Links
    BY <1>0 DEF AInv, AlarmType, QueueExact, Holds, Holding
  <1>2. /\ a \in Armed /\ a \in Alarm
        /\ \A b \in Armed \ {a} : fire[a] <= fire[b]
        /\ Taken(links) \in Links
        /\ Queued(Taken(links), fire, Armed \ {a})
        /\ Taken(links).next[a] = None /\ Taken(links).prev[a] = None
    BY <1>0, <1>1, TakenQueued
  <1>3. /\ links' = IF again THEN Linked(Taken(links), fire', a) ELSE Taken(links)
        /\ fire' = IF again THEN [fire EXCEPT ![a] = PeriodicFire(start[a], period[a])] ELSE fire
        /\ handler' = [handler EXCEPT ![a] = again]
        /\ again \in BOOLEAN
        /\ UNCHANGED <<period, start, now, schedVars>>
        /\ left' = [left EXCEPT ![active] = @ - 1] /\ left[active] > 0
    BY DEF Turn
  <1>4. /\ period \in [Alarm -> Nat] /\ start \in [Alarm -> Int] /\ now \in Int
        /\ fire \in [Alarm -> Int] /\ handler \in [Alarm -> BOOLEAN]
    BY DEF AInv, AlarmType
  <1>5. again => /\ PeriodicFire(start[a], period[a]) \in Int
                 /\ start[a] <= PeriodicFire(start[a], period[a])
    BY <1>2, <1>4, PeriodicTime
  <1>6. /\ fire' \in [Alarm -> Int]
        /\ \A b \in Alarm \ {a} : fire'[b] = fire[b] /\ handler'[b] = handler[b]
        /\ handler' \in [Alarm -> BOOLEAN] /\ handler'[a] = again
        /\ again => start[a] <= fire'[a]
    BY <1>2, <1>3, <1>4, <1>5
  <1>7. Armed' = (IF again THEN Armed ELSE Armed \ {a})
    BY <1>2, <1>6 DEF Armed
  <1>8. links' \in Links /\ Queued(links', fire', Armed')
    <2>1. CASE again
      <3>1. Queued(Taken(links), fire', Armed \ {a})
        BY <1>2, <1>6, OthersFree DEF Armed
      <3>2. /\ Linked(Taken(links), fire', a) \in Links
            /\ Queued(Linked(Taken(links), fire', a), fire', (Armed \ {a}) \cup {a})
        BY <1>2, <1>6, <3>1, LinkedQueued
      <3>3. (Armed \ {a}) \cup {a} = Armed'
        BY <1>2, <1>7, <2>1
      <3>. QED BY <1>3, <2>1, <3>2, <3>3
    <2>2. CASE ~again
      <3>1. fire' = fire /\ links' = Taken(links) /\ Armed' = Armed \ {a}
        BY <1>3, <1>7, <2>2
      <3>. QED BY <1>2, <3>1
    <2>. QED BY <2>1, <2>2
  <1>9. AlarmType'
    BY <1>3, <1>6, <1>8 DEF AInv, AlarmType
  <1>10. SchedType'
    BY <1>0, <1>3, AlarmsAssumption DEF AInv, SchedType, schedVars
  <1>11. PeriodicAhead'
    BY <1>3, <1>6 DEF AInv, PeriodicAhead
  <1>12. AInv'
    BY <1>8, <1>9, <1>10, <1>11, AlarmsSet
  <1>13. \A b \in Armed : fire[a] <= fire[b]
    BY <1>2, <1>4 DEF Armed
  <1>. QED BY <1>1, <1>2, <1>8, <1>12, <1>13

\* OSSetAlarm and OSSetPeriodicAlarm arm for a time that has not passed.
LEMMA SetAlarmStep ==
  ASSUME AInv, IInv, NEW a \in Alarm, NEW tick \in Ticks, SetAlarm(a, tick)
  PROVE  AInv' /\ Queued(links, fire, Armed)' /\ fire'[a] >= now
  <1>1. /\ ~handler[a]
        /\ fire' = [fire EXCEPT ![a] = now + tick]
        /\ period' = [period EXCEPT ![a] = 0]
        /\ handler' = [handler EXCEPT ![a] = TRUE]
        /\ links' = Linked(Cleared(Sanitized(links), a), fire', a)
        /\ UNCHANGED <<start, now, pumpVars, schedVars>>
    BY DEF SetAlarm
  <1>2. now + tick \in Int /\ now + tick >= now
    BY AlarmsAssumption DEF AInv, AlarmType
  <1>3. /\ fire' \in [Alarm -> Int] /\ fire'[a] = now + tick
        /\ \A b \in Alarm \ {a} : fire'[b] = fire[b] /\ handler'[b] = handler[b] /\ period'[b] = period[b]
        /\ period'[a] = 0
    BY <1>1, <1>2 DEF AInv, AlarmType
  <1>4. links' \in Links /\ Queued(links, fire, Armed)'
    BY <1>1, <1>3, ArmStep
  <1>5. AlarmType'
    BY <1>1, <1>3, <1>4 DEF AInv, AlarmType
  <1>6. SchedType'
    BY <1>1 DEF AInv, SchedType, schedVars, pumpVars
  <1>7. PeriodicAhead'
    BY <1>1, <1>3 DEF AInv, PeriodicAhead
  <1>. QED BY <1>2, <1>3, <1>4, <1>5, <1>6, <1>7, AlarmsSet

LEMMA SetPeriodicAlarmStep ==
  ASSUME AInv, IInv, NEW a \in Alarm, NEW lead \in Leads, NEW p \in Periods,
         SetPeriodicAlarm(a, lead, p)
  PROVE  AInv' /\ Queued(links, fire, Armed)' /\ fire'[a] >= now
  <1>. DEFINE f == PeriodicFire(now + lead, p)
  <1>1. /\ ~handler[a]
        /\ fire' = [fire EXCEPT ![a] = f]
        /\ period' = [period EXCEPT ![a] = p]
        /\ start' = [start EXCEPT ![a] = now + lead]
        /\ handler' = [handler EXCEPT ![a] = TRUE]
        /\ links' = Linked(Cleared(Sanitized(links), a), fire', a)
        /\ UNCHANGED <<now, pumpVars, schedVars>>
    BY DEF SetPeriodicAlarm
  <1>2. f \in Int /\ f >= now /\ f >= now + lead /\ p \in Nat /\ now + lead \in Int
    <2>1. now \in Int /\ now + lead \in Int /\ p \in Nat \ {0}
      BY AlarmsAssumption DEF AInv, AlarmType
    <2>. QED BY <2>1, PeriodicTime
  <1>. HIDE DEF f
  <1>3. /\ fire' \in [Alarm -> Int] /\ fire'[a] = f
        /\ start' \in [Alarm -> Int] /\ start'[a] = now + lead
        /\ period' \in [Alarm -> Nat] /\ handler' \in [Alarm -> BOOLEAN]
        /\ \A b \in Alarm \ {a} : /\ fire'[b] = fire[b] /\ handler'[b] = handler[b]
                                  /\ period'[b] = period[b] /\ start'[b] = start[b]
    BY <1>1, <1>2 DEF AInv, AlarmType
  <1>4. links' \in Links /\ Queued(links, fire, Armed)'
    BY <1>1, <1>3, ArmStep
  <1>5. AlarmType'
    BY <1>1, <1>3, <1>4 DEF AInv, AlarmType
  <1>6. SchedType'
    BY <1>1 DEF AInv, SchedType, schedVars, pumpVars
  <1>7. PeriodicAhead'
    BY <1>2, <1>3 DEF AInv, PeriodicAhead
  <1>. QED BY <1>2, <1>3, <1>4, <1>5, <1>6, <1>7, AlarmsSet

LEMMA CancelAlarmStep ==
  ASSUME AInv, IInv, NEW a \in Alarm, CancelAlarm(a)
  PROVE  AInv' /\ Queued(links, fire, Armed)'
  <1>1. /\ a \in Armed
        /\ handler' = [handler EXCEPT ![a] = FALSE]
        /\ links' = Cancelled(links, a)
        /\ UNCHANGED <<fire, period, start, now>>
    BY DEF CancelAlarm, Armed
  <1>2. links \in Links /\ Queued(links, fire, Armed) /\ handler \in [Alarm -> BOOLEAN]
    BY <1>1 DEF AInv, AlarmType, QueueExact
  <1>3. links' \in Links /\ Queued(links', fire, Armed \ {a})
    BY <1>1, <1>2, CancelledQueued
  <1>4. /\ handler' \in [Alarm -> BOOLEAN]
        /\ \A b \in Alarm : handler'[b] => handler[b]
        /\ Armed' = Armed \ {a}
    BY <1>1, <1>2 DEF Armed
  <1>5. Queued(links, fire, Armed)'
    BY <1>1, <1>3, <1>4
  <1>6. CASE Pump(FALSE, 0)
    BY <1>1, <1>3, <1>4, <1>5, <1>6, PumpKept
  <1>7. CASE UNCHANGED <<pumpVars, schedVars>>
    <2>1. AlarmType'
      BY <1>1, <1>3, <1>4 DEF AInv, AlarmType
    <2>2. SchedType'
      BY <1>7 DEF AInv, SchedType, schedVars, pumpVars
    <2>3. PeriodicAhead'
      BY <1>1, <1>4 DEF AInv, PeriodicAhead
    <2>. QED BY <1>5, <2>1, <2>2, <2>3, AlarmsSet
  <1>. QED BY <1>5, <1>6, <1>7 DEF CancelAlarm

LEMMA NextAlarms == AInv /\ IInv /\ [Next]_vars => AInv'
  <1>. SUFFICES ASSUME AInv, IInv, [Next]_vars PROVE AInv'
    OBVIOUS
  <1>0. /\ active \in Context /\ ready \subseteq Thread /\ active \notin ready
        /\ pc \in [Context -> Pumping \cup {"guest", "preempt"}]
        /\ resched \in BOOLEAN /\ now \in 0 .. MaxTime /\ left \in [Context -> 0 .. Limit]
    BY DEF AInv, IInv, PcType, AlarmType, SchedType
  <1>1. ASSUME UNCHANGED <<alarmVars, now>>, SchedType', UNCHANGED pc PROVE AInv'
    BY <1>0, <1>1, AlarmsKept DEF Holds
  <1>2. ASSUME UNCHANGED <<alarmVars, now, left, schedVars>>,
               NEW there, pc' = [pc EXCEPT ![active] = there], there \in Holding => Holds(active)
        PROVE  AInv'
    <2>1. \A c \in Context : Holds(c)' => Holds(c)
      BY <1>0, <1>2 DEF Holds
    <2>2. SchedType'
      BY <1>2 DEF AInv, SchedType, schedVars
    <2>. QED BY <1>0, <1>2, <2>1, <2>2, AlarmsKept
  <1>3. CASE Preempt
    BY <1>0, <1>3, RescheduleKept DEF Preempt, Holding
  <1>4. CASE Turn
    BY <1>4, TurnStep
  <1>5. CASE HandlerReturns
    BY <1>2, <1>5 DEF HandlerReturns, InHandler, Holds, Holding
  <1>6. CASE Handled
    BY <1>0, <1>6, RescheduleKept DEF Handled, Holds, Holding
  <1>7. CASE LoopEnds
    <2>1. /\ pc' = [pc EXCEPT ![active] = "completions"]
          /\ left' = [left EXCEPT ![active] = 0]
          /\ UNCHANGED <<alarmVars, now, schedVars>>
      BY <1>7 DEF LoopEnds
    <2>2. \A c \in Context : Holds(c)' => Holds(c)
      BY <1>0, <2>1 DEF Holds, Holding
    <2>3. 0 \in 0 .. Limit
      BY AlarmsAssumption
    <2>4. SchedType'
      BY <1>0, <2>1, <2>3 DEF SchedType, schedVars
    <2>. QED BY <1>0, <2>1, <2>2, <2>4, AlarmsKept
  <1>8. CASE Completions
    <2>1. PICK woken \in SUBSET Sleeping : Reschedule(resched \/ woken # {}, ready \cup woken, "done")
      BY <1>8 DEF Completions
    <2>2. /\ ready \cup woken \in SUBSET Thread /\ active \notin ready \cup woken
          /\ (resched \/ woken # {}) \in BOOLEAN
      BY <1>0, <2>1 DEF Sleeping
    <2>3. "done" \notin Holding /\ UNCHANGED <<alarmVars, now, left>>
      BY <1>8 DEF Completions, Holding
    <2>. QED BY <2>1, <2>2, <2>3, RescheduleKept
  <1>9. CASE PumpReturns
    <2>1. PICK there \in {"preempt", "guest"} : pc' = [pc EXCEPT ![active] = there]
      BY <1>9 DEF PumpReturns
    <2>. QED BY <1>2, <1>9, <2>1 DEF PumpReturns, Holding
  <1>10. CASE IdlePump
    BY <1>10, SanitizedPump DEF IdlePump
  <1>11. CASE IdleEnds
    <2>1. SchedType'
      BY <1>0, <1>11 DEF IdleEnds, TakeBest, Best, SchedType, pumpVars
    <2>. QED BY <1>1, <1>11, <2>1 DEF IdleEnds, pumpVars
  <1>12. CASE SafePoint
    <2>1. CASE links' = Sanitized(links) /\ Pump(TRUE, 1)
      BY <1>12, <2>1, SanitizedPump DEF SafePoint
    <2>2. CASE /\ pc' = [pc EXCEPT ![active] = "preempt"]
               /\ UNCHANGED <<links, depth, disabled, left, deferred, schedVars>>
      BY <1>2, <1>12, <2>2 DEF SafePoint, Holding, alarmVars
    <2>. QED BY <1>12, <2>1, <2>2 DEF SafePoint
  <1>13. CASE RFLiIsWorking
    BY <1>13, SanitizedPump DEF RFLiIsWorking
  <1>14. CASE Sleep
    <2>1. SchedType'
      <3>1. CASE active' = Idle /\ resched' = TRUE /\ UNCHANGED ready
        BY <1>0, <1>14, <3>1, AlarmsAssumption DEF Sleep, SchedType, pumpVars
      <3>2. CASE TakeBest
        BY <1>0, <1>14, <3>2 DEF Sleep, TakeBest, Best, SchedType, pumpVars
      <3>. QED BY <1>14, <3>1, <3>2 DEF Sleep
    <2>. QED BY <1>1, <1>14, <2>1 DEF Sleep, pumpVars
  <1>15. CASE Tick
    <2>1. now' \in 0 .. MaxTime
      BY <1>0, <1>15, AlarmsAssumption DEF Tick
    <2>2. SchedType' /\ UNCHANGED pc
      BY <1>0, <1>15 DEF Tick, SchedType, schedVars, pumpVars
    <2>. QED BY <1>15, <2>1, <2>2, AlarmsKept DEF Tick, Holds
  <1>16. ASSUME NEW t \in Thread, Wakeup(t) PROVE AInv'
    <2>1. ready \cup {t} \in SUBSET Thread /\ active \notin ready \cup {t}
      BY <1>0, <1>16 DEF Wakeup, Sleeping
    <2>2. Reschedule(TRUE, ready \cup {t}, "handler") /\ Holds(active)
      BY <1>16 DEF Wakeup, InHandler, Holds, Holding
    <2>. QED BY <1>16, <2>1, <2>2, RescheduleKept DEF Wakeup
  <1>17. ASSUME NEW t \in Thread, IdleWakeup(t) PROVE AInv'
    <2>1. SchedType'
      BY <1>0, <1>17, AlarmsAssumption DEF IdleWakeup, SchedType, pumpVars
    <2>. QED BY <1>1, <1>17, <2>1 DEF IdleWakeup, pumpVars
  <1>18. ASSUME NEW a \in Alarm, CancelAlarm(a) PROVE AInv'
    BY <1>18, CancelAlarmStep
  <1>19. ASSUME NEW a \in Alarm, NEW tick \in Ticks, SetAlarm(a, tick) PROVE AInv'
    BY <1>19, SetAlarmStep
  <1>20. ASSUME NEW a \in Alarm, NEW lead \in Leads, NEW p \in Periods,
                SetPeriodicAlarm(a, lead, p)
         PROVE  AInv'
    BY <1>20, SetPeriodicAlarmStep
  <1>21. CASE UNCHANGED vars
    BY <1>0, <1>1, <1>21 DEF vars, alarmVars, SchedType
  <1>. QED
    BY <1>3, <1>4, <1>5, <1>6, <1>7, <1>8, <1>9, <1>10, <1>11, <1>12, <1>13, <1>14, <1>15,
       <1>16, <1>17, <1>18, <1>19, <1>20, <1>21
       DEF Next, Native

LEMMA AlarmInvariants == Spec => [](IInv /\ AInv)
  BY InitInv, NextInv, InitAlarms, NextAlarms, PTL DEF Spec

\* Every variable keeps its type: the guard is 0 or 1 and the scheduler-disable
\* count at most 2, however pumps, handlers and threads are nested.
THEOREM TypesKept == Spec => []TypeOK
  <1>1. IInv /\ AInv => TypeOK
    <2>. SUFFICES ASSUME IInv, AInv PROVE TypeOK
      OBVIOUS
    <2>1. depth \in 0 .. 1
      BY DEF IInv, PcType, GuardExact
    <2>2. disabled \in 0 .. 2
      BY DEF IInv, PcType, DisabledExact
    <2>3. active \in Context \ ready
      BY DEF IInv, PcType, AInv, SchedType
    <2>. QED BY <2>1, <2>2, <2>3
         DEF TypeOK, IInv, PcType, AInv, AlarmType, SchedType, Links, Pumping, Holding
  <1>. QED BY <1>1, AlarmInvariants, PTL

\* Following next from the head meets the alarms of the queue.
LEMMA ListedQueued ==
  ASSUME NEW l, NEW times, NEW set, Queued(l, times, set)
  PROVE  Listed(l) = set
  <1>1. PICK k, s :
            /\ k \in Nat /\ s \in Injection(1 .. k, Alarm)
            /\ Chained(l, k, s)
            /\ set = {s[i] : i \in 1 .. k}
            /\ \A i \in 1 .. k : s[i] # None /\ s[i] \in Alarm
    BY QueuedChain
  <1>. k \in Nat
    BY <1>1
  <1>2. /\ DOMAIN Walk(l) = 1 .. Size + 1
        /\ \A i \in 1 .. Size + 1 : Walk(l)[i] = IF i <= k THEN s[i] ELSE None
        /\ k <= Size /\ Size \in Nat
    BY <1>1, WalkChain
  <1>3. ASSUME NEW i \in 1 .. k PROVE s[i] \in Listed(l)
    BY <1>1, <1>2 DEF Listed, Range
  <1>4. ASSUME NEW b \in Listed(l) PROVE b \in set
    <2>1. PICK i \in 1 .. Size + 1 : b = Walk(l)[i] /\ b # None
      BY <1>2 DEF Listed, Range
    <2>2. i \in 1 .. k /\ b = s[i]
      BY <1>2, <2>1
    <2>. QED BY <1>1, <2>2
  <1>. QED BY <1>1, <1>3, <1>4

\* The doubly linked list in guest memory is the queue of the armed alarms.
THEOREM QueueOfAlarms == Spec => []ListWellFormed
  <1>1. AInv => ListWellFormed
    <2>. SUFFICES ASSUME AInv PROVE ListWellFormed
      OBVIOUS
    <2>. DEFINE l == Sanitized(links)
    <2>1. Queued(l, fire, Armed)
      BY SanitizedExact
    <2>. HIDE DEF l
    <2>2. PICK k, s :
              /\ k \in Nat /\ s \in Injection(1 .. k, Alarm)
              /\ Chained(l, k, s) /\ InOrder(fire, k, s)
              /\ Armed = {s[i] : i \in 1 .. k}
              /\ s \in [1 .. k -> Alarm] /\ \A i, j \in 1 .. k : s[i] = s[j] => i = j
              /\ \A i \in 1 .. k : s[i] # None /\ s[i] \in Alarm
      BY <2>1, QueuedChain
    <2>. k \in Nat
      BY <2>2
    <2>4. Listed(l) = Armed
      BY <2>1, ListedQueued
    <2>5. l.head = None <=> l.tail = None
      BY <2>2 DEF Chained
    <2>6. ASSUME NEW i \in 1 .. k
          PROVE  /\ s[i] = l.head <=> l.prev[s[i]] = None
                 /\ s[i] = l.tail <=> l.next[s[i]] = None
                 /\ l.next[s[i]] # None => l.prev[l.next[s[i]]] = s[i]
      <3>1. /\ l.head = s[1] /\ l.tail = s[k] /\ 1 \in 1 .. k /\ k \in 1 .. k
            /\ l.next[s[i]] = (IF i = k THEN None ELSE s[i + 1])
            /\ l.prev[s[i]] = (IF i = 1 THEN None ELSE s[i - 1])
        BY <2>2 DEF Chained
      <3>2. i # k => i + 1 \in 1 .. k /\ i + 1 # 1 /\ (i + 1) - 1 = i
        OBVIOUS
      <3>3. i # k => l.prev[s[i + 1]] = s[i]
        BY <2>2, <3>2 DEF Chained
      <3>4. i # 1 => i - 1 \in 1 .. k
        OBVIOUS
      <3>. QED BY <2>2, <3>1, <3>2, <3>3, <3>4
    <2>. QED BY <2>2, <2>4, <2>5, <2>6 DEF ListWellFormed, l, Armed
  <1>. QED BY <1>1, AlarmInvariants, PTL

\* An alarm that goes off again does so on its grid, ahead of the clock.
THEOREM PeriodsOnGrid == Spec => PeriodicOnGrid
  <1>1. ASSUME AInv, IInv, [Next]_vars,
               NEW a \in Alarm, handler'[a], period'[a] # 0, fire'[a] # fire[a]
        PROVE  /\ (fire'[a] - start'[a]) % period'[a] = 0
               /\ now <= fire'[a] /\ (handler[a] => now < fire'[a])
               /\ fire'[a] = start'[a] \/ fire'[a] <= now + period'[a]
    <2>. DEFINE Goal == /\ (fire'[a] - start'[a]) % period'[a] = 0
                        /\ now <= fire'[a] /\ (handler[a] => now < fire'[a])
                        /\ fire'[a] = start'[a] \/ fire'[a] <= now + period'[a]
    <2>0. /\ now \in Int /\ fire \in [Alarm -> Int] /\ handler \in [Alarm -> BOOLEAN]
          /\ period \in [Alarm -> Nat] /\ start \in [Alarm -> Int]
      BY <1>1 DEF AInv, AlarmType
    <2>1. ASSUME Turn PROVE Goal
      <3>1. a = links.head /\ period[a] # 0
        BY <1>1, <2>0, <2>1 DEF Turn
      <3>2. /\ fire'[a] = PeriodicFire(start[a], period[a])
            /\ start'[a] = start[a] /\ period'[a] = period[a] /\ fire[a] <= now
        BY <1>1, <2>0, <2>1, <3>1 DEF Turn, Due
      <3>3. handler[a]
        BY <1>1, <2>1, <3>1, TurnStep DEF Armed
      <3>4. start[a] <= fire[a]
        BY <1>1, <3>1, <3>3 DEF AInv, PeriodicAhead
      <3>5. /\ start[a] \in Int /\ period[a] \in Nat \ {0} /\ fire[a] \in Int
        BY <2>0, <3>1
      <3>6. /\ PeriodicFire(start[a], period[a]) \in Int
            /\ (PeriodicFire(start[a], period[a]) - start[a]) % period[a] = 0
            /\ now <= PeriodicFire(start[a], period[a])
            /\ start[a] < now => now < PeriodicFire(start[a], period[a])
            /\ \/ PeriodicFire(start[a], period[a]) = start[a]
               \/ PeriodicFire(start[a], period[a]) <= now + period[a]
        BY <2>0, <3>5, PeriodicTime
      <3>7. start[a] < now
        <4>1. SUFFICES ASSUME start[a] >= now PROVE FALSE
          BY <2>0, <3>5
        <4>2. fire[a] = start[a]
          BY <2>0, <3>2, <3>4, <3>5, <4>1
        <4>3. fire'[a] = start[a]
          BY <2>0, <3>2, <3>5, <4>1 DEF PeriodicFire
        <4>. QED BY <1>1, <4>2, <4>3
      <3>. QED BY <3>2, <3>6, <3>7
    <2>2. ASSUME NEW b \in Alarm, NEW tick \in Ticks, SetAlarm(b, tick) PROVE FALSE
      <3>1. fire' = [fire EXCEPT ![b] = now + tick] /\ period' = [period EXCEPT ![b] = 0]
        BY <2>2 DEF SetAlarm
      <3>. QED BY <1>1, <2>0, <3>1
    <2>3. ASSUME NEW b \in Alarm, NEW lead \in Leads, NEW p \in Periods,
                 SetPeriodicAlarm(b, lead, p)
          PROVE  Goal
      <3>1. /\ ~handler[b]
            /\ fire' = [fire EXCEPT ![b] = PeriodicFire(now + lead, p)]
            /\ period' = [period EXCEPT ![b] = p]
            /\ start' = [start EXCEPT ![b] = now + lead]
        BY <2>3 DEF SetPeriodicAlarm
      <3>2. /\ a = b /\ ~handler[a] /\ fire'[a] = PeriodicFire(now + lead, p)
            /\ period'[a] = p /\ start'[a] = now + lead
        BY <1>1, <2>0, <3>1
      <3>3. now + lead \in Int /\ p \in Nat \ {0}
        BY <2>0, AlarmsAssumption
      <3>. QED BY <2>0, <3>2, <3>3, PeriodicTime
    <2>4. ASSUME UNCHANGED fire PROVE FALSE
      BY <1>1, <2>4
    <2>. QED
      BY <1>1, <2>1, <2>2, <2>3, <2>4
         DEF Next, Native, vars, alarmVars, Preempt, HandlerReturns, Handled, LoopEnds, Completions,
             PumpReturns, IdlePump, IdleEnds, SafePoint, RFLiIsWorking, Sleep, Tick, Wakeup,
             IdleWakeup, CancelAlarm
  <1>2. ASSUME AInv, IInv, [Next]_vars
        PROVE  [\A a \in Alarm : handler'[a] /\ period'[a] # 0 /\ fire'[a] # fire[a] =>
                  /\ (fire'[a] - start'[a]) % period'[a] = 0
                  /\ now <= fire'[a] /\ (handler[a] => now < fire'[a])
                  /\ fire'[a] = start'[a] \/ fire'[a] <= now + period'[a]]_vars
    BY <1>1, <1>2
  <1>. QED BY <1>2, AlarmInvariants, PTL DEF Spec, PeriodicOnGrid

-----------------------------------------------------------------------------
(* The alarm clock.                                                        *)

\* What the clock shows.
Times == [a \in Alarm |-> IF handler[a] THEN fire[a] ELSE None]

ClockShows == Deadline = Times

LEMMA DeadlineIs == AInv => ClockShows
  <1>. SUFFICES ASSUME AInv PROVE Deadline = Times
    BY DEF ClockShows
  <1>1. CASE Queued(links, fire, Armed)
    <2>1. links = Sanitized(links) /\ Listed(links) = Armed
      BY <1>1, SanitizedExact, ListedQueued
    <2>2. \A a \in Alarm : a \in Armed <=> handler[a]
      BY DEF Armed
    <2>. QED BY <2>1, <2>2 DEF Deadline, Times
  <1>2. CASE ~Queued(links, fire, Armed)
    <2>1. links # Sanitized(links) /\ Armed = {}
      BY <1>2, SanitizedExact DEF AInv, QueueExact
    <2>2. \A a \in Alarm : ~handler[a]
      BY <2>1 DEF Armed
    <2>. QED BY <2>1, <2>2 DEF Deadline, Times
  <1>. QED BY <1>1, <1>2

\* The queue implements the alarm clock: an alarm goes off when it is due and
\* no other is due before it, and armed alarms stay armed until then.
THEOREM QueueImplementsClock == Spec => ImplementsClock
  <1>1. Init => Clock!Init
    <2>1. Init => Deadline = [a \in Alarm |-> None]
      BY InitAlarms, DeadlineIs DEF Init, Times, ClockShows
    <2>. QED BY <2>1 DEF Init, Clock!Init
  <1>2. ASSUME AInv, IInv, AInv', ClockShows, ClockShows', [Next]_vars
        PROVE  [Clock!Next]_(Clock!vars)
    <2>. HIDE DEF Deadline
    <2>0. /\ Deadline = Times /\ Deadline' = Times'
          /\ now \in Int /\ fire \in [Alarm -> Int] /\ handler \in [Alarm -> BOOLEAN]
          /\ fire' \in [Alarm -> Int] /\ handler' \in [Alarm -> BOOLEAN]
          /\ None \notin Int
      BY <1>2, AlarmsAssumption DEF AInv, AlarmType, ClockShows
    <2>1. \A a \in Alarm : /\ a \in Clock!Armed <=> handler[a]
                           /\ handler[a] => Deadline[a] = fire[a]
                           /\ handler'[a] => Deadline'[a] = fire'[a] /\ Deadline'[a] # None
                           /\ ~handler'[a] => Deadline'[a] = None
      BY <2>0 DEF Times, Clock!Armed
    <2>2. ASSUME UNCHANGED <<handler, fire, now>> PROVE UNCHANGED Clock!vars
      BY <2>0, <2>2 DEF Times, Clock!vars
    <2>3. ASSUME NEW a \in Alarm,
                 \A b \in Alarm \ {a} : handler'[b] = handler[b] /\ fire'[b] = fire[b]
          PROVE  Deadline' = [Deadline EXCEPT ![a] = Deadline'[a]]
      BY <2>0, <2>3 DEF Times
    <2>4. ASSUME Turn PROVE [Clock!Next]_(Clock!vars)
      <3>. DEFINE a == links.head
      <3>1. /\ a \in Alarm /\ handler[a]
            /\ \A b \in Alarm : handler[b] => fire[a] <= fire[b]
        BY <1>2, <2>4, TurnStep DEF Armed
      <3>2. /\ fire[a] <= now /\ UNCHANGED <<now, period, start>>
            /\ handler' = [handler EXCEPT ![a] = (period[a] # 0)]
            /\ fire' = IF period[a] # 0 THEN [fire EXCEPT ![a] = PeriodicFire(start[a], period[a])]
                                        ELSE fire
        BY <2>4 DEF Turn, Due
      <3>. HIDE DEF a
      <3>3. Deadline' = [Deadline EXCEPT ![a] = Deadline'[a]]
        BY <2>0, <2>3, <3>1, <3>2
      <3>4. a \in Clock!Armed /\ Deadline[a] <= now /\ \A b \in Clock!Armed : Deadline[a] <= Deadline[b]
        BY <2>1, <3>1, <3>2 DEF Clock!Armed
      <3>5. CASE ~handler'[a]
        <4>1. Clock!GoOff(a)
          BY <2>1, <3>1, <3>2, <3>3, <3>4, <3>5 DEF Clock!GoOff
        <4>. QED BY <3>1, <4>1 DEF Clock!Next
      <3>6. CASE handler'[a] /\ fire'[a] > now
        <4>1. Clock!ArmedFrom(a, now + 1)
          BY <2>0, <2>1, <3>1, <3>3, <3>6 DEF Clock!ArmedFrom
        <4>2. Clock!GoOff(a)
          BY <3>2, <3>4, <4>1 DEF Clock!GoOff
        <4>. QED BY <3>1, <4>2 DEF Clock!Next
      <3>7. CASE handler'[a] /\ fire'[a] <= now
        <4>1. /\ period[a] # 0 /\ fire'[a] = PeriodicFire(start[a], period[a])
              /\ start[a] \in Int /\ period[a] \in Nat
          BY <1>2, <2>0, <3>1, <3>2, <3>7 DEF AInv, AlarmType
        <4>2. /\ start[a] <= PeriodicFire(start[a], period[a])
              /\ now <= PeriodicFire(start[a], period[a])
              /\ start[a] < now => now < PeriodicFire(start[a], period[a])
              /\ PeriodicFire(start[a], period[a]) \in Int
          BY <2>0, <4>1, PeriodicTime
        <4>3. start[a] <= fire[a]
          BY <3>1, <4>1, <1>2 DEF AInv, PeriodicAhead
        <4>4. fire'[a] = fire[a]
          BY <2>0, <3>1, <3>2, <3>7, <4>1, <4>2, <4>3
        <4>5. fire' = fire /\ handler' = handler
          BY <2>0, <3>1, <3>2, <3>7, <4>4
        <4>. QED BY <2>2, <3>2, <4>5
      <3>. QED BY <2>0, <3>1, <3>5, <3>6, <3>7
    <2>5. ASSUME NEW a \in Alarm, ~handler[a], handler' = [handler EXCEPT ![a] = TRUE],
                 \A b \in Alarm \ {a} : fire'[b] = fire[b], fire'[a] >= now, now' = now
          PROVE  Clock!Next
      <3>1. Deadline' = [Deadline EXCEPT ![a] = Deadline'[a]]
        BY <2>0, <2>3, <2>5
      <3>2. Clock!Arm(a)
        BY <2>0, <2>1, <2>5, <3>1 DEF Clock!Arm, Clock!ArmedFrom
      <3>. QED BY <3>2 DEF Clock!Next
    <2>6. ASSUME NEW a \in Alarm, NEW tick \in Ticks, SetAlarm(a, tick) PROVE Clock!Next
      <3>1. fire'[a] >= now
        BY <1>2, <2>6, SetAlarmStep
      <3>2. /\ ~handler[a] /\ handler' = [handler EXCEPT ![a] = TRUE]
            /\ fire' = [fire EXCEPT ![a] = now + tick] /\ now' = now
        BY <2>6 DEF SetAlarm
      <3>3. \A b \in Alarm \ {a} : fire'[b] = fire[b]
        BY <2>0, <3>2
      <3>. QED BY <2>5, <3>1, <3>2, <3>3
    <2>7. ASSUME NEW a \in Alarm, NEW lead \in Leads, NEW p \in Periods,
                 SetPeriodicAlarm(a, lead, p)
          PROVE  Clock!Next
      <3>1. fire'[a] >= now
        BY <1>2, <2>7, SetPeriodicAlarmStep
      <3>2. /\ ~handler[a] /\ handler' = [handler EXCEPT ![a] = TRUE] /\ now' = now
            /\ fire' = [fire EXCEPT ![a] = PeriodicFire(now + lead, p)]
        BY <2>7 DEF SetPeriodicAlarm
      <3>3. \A b \in Alarm \ {a} : fire'[b] = fire[b]
        BY <2>0, <3>2
      <3>. QED BY <2>5, <3>1, <3>2, <3>3
    <2>8. ASSUME NEW a \in Alarm, CancelAlarm(a) PROVE Clock!Next
      <3>1. handler[a] /\ handler' = [handler EXCEPT ![a] = FALSE] /\ UNCHANGED <<fire, now>>
        BY <2>8 DEF CancelAlarm
      <3>2. Deadline' = [Deadline EXCEPT ![a] = Deadline'[a]]
        BY <2>0, <2>3, <3>1
      <3>3. Clock!Disarm(a)
        BY <2>0, <2>1, <3>1, <3>2 DEF Clock!Disarm
      <3>. QED BY <3>3 DEF Clock!Next
    <2>9. ASSUME Tick PROVE Clock!Next
      <3>1. now' = now + 1 /\ UNCHANGED <<handler, fire>>
        BY <2>9 DEF Tick, alarmVars
      <3>2. Deadline' = Deadline
        BY <2>0, <3>1 DEF Times
      <3>. QED BY <3>1, <3>2 DEF Clock!Next, Clock!Tick
    <2>. QED
      BY <1>2, <2>2, <2>4, <2>6, <2>7, <2>8, <2>9
         DEF Next, Native, vars, alarmVars, Preempt, HandlerReturns, Handled, LoopEnds, Completions,
             PumpReturns, IdlePump, IdleEnds, SafePoint, RFLiIsWorking, Sleep, Wakeup, IdleWakeup
  <1>. QED BY <1>1, <1>2, DeadlineIs, AlarmInvariants, PTL DEF Spec, ImplementsClock, Clock!Spec
=============================================================================
