---------------------------- MODULE MessageQueue ----------------------------
(***************************************************************************)
(* OSMessageQueue (src/src/platform/os/os_message.cpp): the ring buffer in *)
(* guest memory and the blocking loop MsgQueueOp that OSSendMessage,       *)
(* OSJamMessage and OSReceiveMessage share.                                *)
(*                                                                         *)
(* Guest threads are fibers on one host thread and MsgQueueOp runs with    *)
(* interrupts off, so one turn of its loop - test the queue, apply the     *)
(* operation and wake the other side, or go to sleep - is one step.  A     *)
(* thread that goes to sleep leaves op[t] set and sits in sendQueue or     *)
(* recvQueue; OSWakeupThread takes it out, and once the scheduler picks it *)
(* again it takes another turn of the loop (Retry).  Which ready thread    *)
(* runs next is left open here; GuestThreads models the scheduler.         *)
(***************************************************************************)
EXTENDS Naturals, Sequences, FiniteSets

CONSTANTS Thread,       \* the guest threads using the queue
          Message,      \* the message words they post
          Capacity,     \* OSMessageQueue.msgCount
          NoOp,         \* op[t] of a thread that is in no queue operation
          Blank         \* an array slot that was never written

ASSUME CapacityAssumption == Capacity \in Nat \ {0}

\* One wake-up takes kMaxWake = 256 threads at most; no more of them sleep here.
ASSUME ThreadAssumption == IsFiniteSet(Thread) /\ Cardinality(Thread) <= 256

VARIABLES msgArray,     \* OSMessageQueue.msgArray
          firstIndex,   \* OSMessageQueue.firstIndex
          usedCount,    \* OSMessageQueue.usedCount
          sendQueue,    \* threads asleep until there is room
          recvQueue,    \* threads asleep until there is a message
          op,           \* the operation each thread is inside of, or NoOp
          delivered     \* the word the last OSReceiveMessage stored for its caller

ring == <<msgArray, firstIndex, usedCount, delivered>>
vars == <<msgArray, firstIndex, usedCount, delivered, sendQueue, recvQueue, op>>

Index == 0 .. Capacity - 1
Operation == [kind : {"send", "jam"}, msg : Message] \cup [kind : {"receive"}]

ASSUME NoOpAssumption == NoOp \notin Operation

\* OS__InitMessageQueue
Init == /\ msgArray = [i \in Index |-> Blank]
        /\ firstIndex = 0
        /\ usedCount = 0
        /\ delivered = Blank
        /\ sendQueue = {}
        /\ recvQueue = {}
        /\ op = [t \in Thread |-> NoOp]

-----------------------------------------------------------------------------
(* The ring buffer.                                                        *)

IsFull == usedCount >= Capacity
IsEmpty == usedCount = 0

Enqueue(m) ==
    /\ msgArray' = [msgArray EXCEPT ![(firstIndex + usedCount) % Capacity] = m]
    /\ usedCount' = usedCount + 1
    /\ UNCHANGED <<firstIndex, delivered>>

\* Mutant of Jam: the message goes over the oldest one.
JamOverFirst(m) ==
    /\ msgArray' = [msgArray EXCEPT ![firstIndex] = m]
    /\ usedCount' = usedCount + 1
    /\ UNCHANGED <<firstIndex, delivered>>

Jam(m) ==
    LET front == IF firstIndex = 0 THEN Capacity - 1 ELSE firstIndex - 1
    IN  /\ msgArray' = [msgArray EXCEPT ![front] = m]
        /\ firstIndex' = front
        /\ usedCount' = usedCount + 1
        /\ UNCHANGED delivered

Dequeue ==
    /\ delivered' = msgArray[firstIndex]
    /\ firstIndex' = (firstIndex + 1) % Capacity
    /\ usedCount' = usedCount - 1
    /\ UNCHANGED msgArray

-----------------------------------------------------------------------------
(* One turn of MsgQueueOp's loop by thread t, performing o.                *)

Ready(o) == IF o.kind = "receive" THEN ~IsEmpty ELSE ~IsFull

Apply(o) ==
    \/ o.kind = "send" /\ Enqueue(o.msg)
    \/ o.kind = "jam" /\ Jam(o.msg)
    \/ o.kind = "receive" /\ Dequeue

\* Mutant of WakeOpposite: no receiver is woken.
WakeSendersOnly(o) ==
    /\ sendQueue' = IF o.kind = "receive" THEN {} ELSE sendQueue
    /\ UNCHANGED recvQueue

\* OSWakeupThread on the opposite queue: every sleeper is ready (ThreadAssumption).
WakeOpposite(o) ==
    IF o.kind = "receive"
    THEN sendQueue' = {} /\ UNCHANGED recvQueue
    ELSE recvQueue' = {} /\ UNCHANGED sendQueue

Complete(t, o) ==
    /\ Ready(o)
    /\ Apply(o)
    /\ WakeOpposite(o)
    /\ op' = [op EXCEPT ![t] = NoOp]

\* OSSleepThread on the operation's own queue.
GoToSleep(t, o) ==
    /\ ~Ready(o)
    /\ IF o.kind = "receive"
       THEN recvQueue' = recvQueue \cup {t} /\ UNCHANGED sendQueue
       ELSE sendQueue' = sendQueue \cup {t} /\ UNCHANGED recvQueue
    /\ op' = [op EXCEPT ![t] = o]
    /\ UNCHANGED ring

-----------------------------------------------------------------------------
(* The operations.                                                         *)

\* The first turn of a call.  A call without OS_MESSAGE_BLOCK that finds the
\* queue in the wrong shape returns 0 and changes nothing, which is no step.
Call(t) == /\ op[t] = NoOp
           /\ \E o \in Operation : Complete(t, o) \/ GoToSleep(t, o)

\* A sleeper that was woken and scheduled tests the queue again.
Retry(t) == /\ op[t] # NoOp
            /\ t \notin sendQueue \cup recvQueue
            /\ Complete(t, op[t]) \/ GoToSleep(t, op[t])

\* OSCancelThread of a thread inside the operation: it leaves its queue and
\* its fiber never runs again.  (The same Thread value then stands for the
\* next thread the game creates.)
Cancel(t) == /\ op[t] # NoOp
             /\ sendQueue' = sendQueue \ {t}
             /\ recvQueue' = recvQueue \ {t}
             /\ op' = [op EXCEPT ![t] = NoOp]
             /\ UNCHANGED ring

Next == \E t \in Thread : Call(t) \/ Retry(t) \/ Cancel(t)

Spec == Init /\ [][Next]_vars

\* A ready thread is eventually scheduled and takes its turn of the loop.
FairSpec == Spec /\ \A t \in Thread : WF_vars(Retry(t))

-----------------------------------------------------------------------------
(* Properties.                                                             *)

\* The ring's fields stay in range: firstIndex indexes the array and
\* usedCount never passes msgCount, through every wrap of Enqueue, Jam and
\* Dequeue.
TypeOK == /\ msgArray \in [Index -> Message \cup {Blank}]
          /\ firstIndex \in Index
          /\ usedCount \in 0 .. Capacity
          /\ delivered \in Message \cup {Blank}
          /\ sendQueue \subseteq Thread
          /\ recvQueue \subseteq Thread
          /\ op \in [Thread -> Operation \cup {NoOp}]

\* The i-th message a receiver will see.
Slot(i) == msgArray[(firstIndex + i - 1) % Capacity]

\* The channel the ring buffer stands for.
Contents == [i \in 1 .. usedCount |-> Slot(i)]

Channel == INSTANCE MessageChannel WITH channel <- Contents

\* The ring buffer implements the channel: no send, jam or receive loses,
\* duplicates, reorders or overwrites a message.
ImplementsChannel == Channel!ChannelSpec

\* No lost wake-up in MsgQueueOp: while a receiver sleeps the queue is empty,
\* and while a sender sleeps it is full.
NoLostWakeup == /\ recvQueue # {} => usedCount = 0
                /\ sendQueue # {} => usedCount = Capacity

\* A thread asleep in one of the queues is inside the operation that put it
\* there, and in that queue alone.
SleepersAreWaiting ==
    /\ \A t \in recvQueue : op[t] # NoOp /\ op[t].kind = "receive"
    /\ \A t \in sendQueue : op[t] # NoOp /\ op[t].kind # "receive"

Receiving(t) == op[t] # NoOp /\ op[t].kind = "receive"
Sending(t) == op[t] # NoOp /\ op[t].kind # "receive"

\* A full queue with a thread blocked in OSReceiveMessage does not stay full,
\* and an empty one with a thread blocked in OSSendMessage or OSJamMessage
\* does not stay empty, unless the blocked threads are cancelled: the wake-up
\* each operation sends reaches a thread that acts on it.
BlockedMakeProgress ==
    /\ (IsFull /\ \E t \in Thread : Receiving(t))
           ~> (~IsFull \/ \A t \in Thread : ~Receiving(t))
    /\ (IsEmpty /\ \E t \in Thread : Sending(t))
           ~> (~IsEmpty \/ \A t \in Thread : ~Sending(t))
=============================================================================
