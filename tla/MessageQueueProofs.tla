------------------------- MODULE MessageQueueProofs -------------------------
(***************************************************************************)
(* Proofs about MessageQueue for every set of threads and messages and     *)
(* every queue length: type correctness, the absence of lost wake-ups, and *)
(* that the ring buffer implements MessageChannel.                         *)
(***************************************************************************)
EXTENDS MessageQueue, SequenceTheorems, TLAPS

(***************************************************************************)
(* Type correctness.                                                       *)
(***************************************************************************)

\* Index arithmetic of the ring: an index that has passed the end at most
\* once is reduced by one subtraction.
LEMMA Wrap ==
  ASSUME NEW c \in Nat \ {0}, NEW x \in Nat, x < 2 * c
  PROVE  x % c = IF x < c THEN x ELSE x - c
  <1>1. CASE x < c
    BY <1>1, SMT
  <1>2. CASE x >= c
    BY <1>2, SMT
  <1>. QED BY <1>1, <1>2

\* The successor of a ring position is a ring position.
LEMMA WrapInRange ==
  ASSUME NEW i \in Index, NEW n \in 0 .. Capacity
  PROVE  (i + n) % Capacity \in Index
  <1>. DEFINE x == i + n
  <1>1. x \in Nat /\ x < 2 * Capacity
    BY CapacityAssumption DEF Index
  <1>. HIDE DEF x
  <1>2. x % Capacity = IF x < Capacity THEN x ELSE x - Capacity
    BY <1>1, Wrap, CapacityAssumption
  <1>3. x % Capacity \in Index
    BY <1>1, <1>2, CapacityAssumption DEF Index
  <1>. QED BY <1>3 DEF x

\* Every operation of MsgQueueOp keeps the ring well-typed.
LEMMA ApplyType ==
  ASSUME TypeOK, NEW o \in Operation, Ready(o), Apply(o)
  PROVE  /\ msgArray' \in [Index -> Message \cup {Blank}]
         /\ firstIndex' \in Index
         /\ usedCount' \in 0 .. Capacity
         /\ delivered' \in Message \cup {Blank}
  <1>1. CASE o.kind = "send"
    <2>1. usedCount < Capacity /\ Enqueue(o.msg) /\ o.msg \in Message
      BY <1>1, CapacityAssumption DEF TypeOK, Ready, IsFull, Apply, Operation
    <2>2. msgArray' \in [Index -> Message \cup {Blank}]
      BY <2>1 DEF Enqueue, TypeOK
    <2>. QED BY <2>1, <2>2, CapacityAssumption DEF Enqueue, TypeOK
  <1>2. CASE o.kind = "jam"
    <2>1. usedCount < Capacity /\ Jam(o.msg) /\ o.msg \in Message
      BY <1>2, CapacityAssumption DEF TypeOK, Ready, IsFull, Apply, Operation
    <2>. QED BY <2>1, CapacityAssumption DEF Jam, TypeOK, Index
  <1>3. CASE o.kind = "receive"
    <2>1. usedCount # 0 /\ Dequeue
      BY <1>3 DEF Ready, IsEmpty, Apply
    <2>2. firstIndex' \in Index
      BY <2>1, WrapInRange, CapacityAssumption DEF Dequeue, TypeOK
    <2>. QED BY <2>1, <2>2, CapacityAssumption DEF Dequeue, TypeOK
  <1>. QED BY <1>1, <1>2, <1>3 DEF Operation

LEMMA InitType == Init => TypeOK
  BY CapacityAssumption DEF Init, TypeOK, Index

LEMMA CompleteType ==
  ASSUME TypeOK, NEW t \in Thread, NEW o \in Operation, Complete(t, o)
  PROVE  TypeOK'
  <1>1. Ready(o) /\ Apply(o)
    BY DEF Complete
  <1>2. /\ sendQueue' \subseteq Thread
        /\ recvQueue' \subseteq Thread
        /\ op' \in [Thread -> Operation \cup {NoOp}]
    BY DEF Complete, WakeOpposite, TypeOK
  <1>. QED BY <1>1, <1>2, ApplyType DEF TypeOK

LEMMA GoToSleepType ==
  ASSUME TypeOK, NEW t \in Thread, NEW o \in Operation, GoToSleep(t, o)
  PROVE  TypeOK'
  BY DEF GoToSleep, TypeOK, ring

\* What one step of the specification is: a turn of the loop by some thread,
\* a cancellation, or nothing.
LEMMA Steps ==
  ASSUME TypeOK, [Next]_vars
  PROVE  \/ \E t \in Thread, o \in Operation : Complete(t, o)
         \/ \E t \in Thread, o \in Operation : GoToSleep(t, o)
         \/ \E t \in Thread : Cancel(t)
         \/ UNCHANGED vars
  <1>1. ASSUME NEW t \in Thread, Retry(t)
        PROVE  op[t] \in Operation /\ (Complete(t, op[t]) \/ GoToSleep(t, op[t]))
    BY <1>1 DEF Retry, TypeOK
  <1>. QED BY <1>1 DEF Next, Call

\* The fields of an OSMessageQueue stay in range whatever sends, jams and
\* receives run on it.
THEOREM TypeCorrect == Spec => []TypeOK
  <1>1. ASSUME TypeOK, [Next]_vars
        PROVE  TypeOK'
    <2>1. CASE \E t \in Thread : Cancel(t)
      BY <1>1, <2>1 DEF Cancel, TypeOK, ring
    <2>2. CASE UNCHANGED vars
      BY <1>1, <2>2 DEF vars, TypeOK
    <2>. QED BY <1>1, <2>1, <2>2, Steps, CompleteType, GoToSleepType
  <1>. QED BY <1>1, InitType, PTL DEF Spec

(***************************************************************************)
(* No lost wake-ups.                                                       *)
(***************************************************************************)

\* Who sleeps, and why: the two halves are inductive together with TypeOK.
SleepInv == TypeOK /\ NoLostWakeup /\ SleepersAreWaiting

LEMMA CompleteSleep ==
  ASSUME SleepInv, NEW t \in Thread, NEW o \in Operation, Complete(t, o),
         t \notin sendQueue \cup recvQueue
  PROVE  NoLostWakeup' /\ SleepersAreWaiting'
  <1>. USE DEF SleepInv
  <1>1. CASE o.kind = "receive"
    <2>1. usedCount # 0 /\ sendQueue' = {} /\ recvQueue' = recvQueue
      BY <1>1 DEF Complete, Ready, IsEmpty, WakeOpposite
    <2>2. recvQueue = {}
      BY <2>1 DEF NoLostWakeup
    <2>. QED BY <2>1, <2>2 DEF NoLostWakeup, SleepersAreWaiting
  <1>2. CASE o.kind # "receive"
    <2>1. ~(usedCount >= Capacity) /\ recvQueue' = {} /\ sendQueue' = sendQueue
      BY <1>2 DEF Complete, Ready, IsFull, WakeOpposite
    <2>2. sendQueue = {}
      BY <2>1, CapacityAssumption DEF NoLostWakeup
    <2>. QED BY <2>1, <2>2 DEF NoLostWakeup, SleepersAreWaiting
  <1>. QED BY <1>1, <1>2

LEMMA GoToSleepSleep ==
  ASSUME SleepInv, NEW t \in Thread, NEW o \in Operation, GoToSleep(t, o),
         t \notin sendQueue \cup recvQueue
  PROVE  NoLostWakeup' /\ SleepersAreWaiting'
  <1>. USE DEF SleepInv
  <1>1. op' = [op EXCEPT ![t] = o] /\ op \in [Thread -> Operation \cup {NoOp}]
    BY DEF GoToSleep, TypeOK
  <1>2. usedCount' = usedCount
    BY DEF GoToSleep, ring
  <1>3. CASE o.kind = "receive"
    <2>1. usedCount = 0 /\ recvQueue' = recvQueue \cup {t} /\ sendQueue' = sendQueue
      BY <1>3 DEF GoToSleep, Ready, IsEmpty
    <2>2. SleepersAreWaiting'
      BY <1>1, <1>3, <2>1, NoOpAssumption DEF SleepersAreWaiting, TypeOK
    <2>. QED BY <1>2, <2>1, <2>2 DEF NoLostWakeup
  <1>4. CASE o.kind # "receive"
    <2>1. usedCount >= Capacity /\ sendQueue' = sendQueue \cup {t} /\ recvQueue' = recvQueue
      BY <1>4 DEF GoToSleep, Ready, IsFull
    <2>2. usedCount = Capacity
      BY <2>1, CapacityAssumption DEF TypeOK
    <2>3. SleepersAreWaiting'
      BY <1>1, <1>4, <2>1, NoOpAssumption DEF SleepersAreWaiting, TypeOK
    <2>. QED BY <1>2, <2>1, <2>2, <2>3 DEF NoLostWakeup
  <1>. QED BY <1>3, <1>4

\* A thread asleep in OSReceiveMessage means an empty queue, one asleep in
\* OSSendMessage or OSJamMessage a full one, for every number of threads and
\* every msgCount: the single OSWakeupThread each operation makes suffices.
THEOREM WakeupsSuffice == Spec => [](NoLostWakeup /\ SleepersAreWaiting)
  <1>1. Init => NoLostWakeup /\ SleepersAreWaiting
    BY DEF Init, NoLostWakeup, SleepersAreWaiting
  <1>2. ASSUME SleepInv, [Next]_vars
        PROVE  NoLostWakeup' /\ SleepersAreWaiting'
    <2>1. ASSUME NEW t \in Thread, Call(t)
          PROVE  NoLostWakeup' /\ SleepersAreWaiting'
      <3>1. t \notin sendQueue \cup recvQueue
        BY <1>2, <2>1 DEF Call, SleepInv, SleepersAreWaiting
      <3>. QED BY <1>2, <2>1, <3>1, CompleteSleep, GoToSleepSleep DEF Call
    <2>2. ASSUME NEW t \in Thread, Retry(t)
          PROVE  NoLostWakeup' /\ SleepersAreWaiting'
      <3>1. op[t] \in Operation
        BY <1>2, <2>2 DEF Retry, SleepInv, TypeOK
      <3>. QED BY <1>2, <2>2, <3>1, CompleteSleep, GoToSleepSleep DEF Retry
    <2>3. ASSUME NEW t \in Thread, Cancel(t)
          PROVE  NoLostWakeup' /\ SleepersAreWaiting'
      BY <1>2, <2>3 DEF Cancel, ring, SleepInv, NoLostWakeup, SleepersAreWaiting, TypeOK
    <2>4. CASE UNCHANGED vars
      BY <1>2, <2>4 DEF vars, SleepInv, NoLostWakeup, SleepersAreWaiting
    <2>. QED BY <1>2, <2>1, <2>2, <2>3, <2>4 DEF Next
  <1>. QED BY <1>1, <1>2, TypeCorrect, PTL DEF Spec, SleepInv

(***************************************************************************)
(* The ring buffer implements the channel.                                 *)
(***************************************************************************)

\* The array index of the i-th queued message, without the modulus.
LEMMA RingIndex ==
  ASSUME TypeOK, NEW n \in 0 .. Capacity
  PROVE  (firstIndex + n) % Capacity =
            IF firstIndex + n < Capacity THEN firstIndex + n
                                         ELSE firstIndex + n - Capacity
  <1>. DEFINE x == firstIndex + n
  <1>1. x \in Nat /\ x < 2 * Capacity
    BY CapacityAssumption DEF TypeOK, Index
  <1>. HIDE DEF x
  <1>2. x % Capacity = IF x < Capacity THEN x ELSE x - Capacity
    BY <1>1, Wrap, CapacityAssumption
  <1>3. firstIndex \in Int /\ n \in Int /\ Capacity \in Int
    BY CapacityAssumption DEF TypeOK, Index
  <1>. QED BY <1>2, <1>3 DEF x

Word == Message \cup {Blank}

ContentsFacts ==
    /\ Contents \in Seq(Word)
    /\ Len(Contents) = usedCount
    /\ \A i \in 1 .. usedCount : Contents[i] = Slot(i)

LEMMA ContentsType == TypeOK => ContentsFacts
  <1>. SUFFICES ASSUME TypeOK PROVE ContentsFacts
    OBVIOUS
  <1>1. ASSUME NEW i \in 1 .. usedCount
        PROVE  Slot(i) \in Word
    <2>1. i - 1 \in 0 .. Capacity /\ firstIndex \in Index /\ firstIndex + (i - 1) = firstIndex + i - 1
      BY <1>1, CapacityAssumption DEF TypeOK, Index
    <2>2. (firstIndex + i - 1) % Capacity \in Index
      BY <2>1, WrapInRange
    <2>. QED BY <2>2 DEF Slot, TypeOK, Word
  <1>2. usedCount \in Nat
    BY CapacityAssumption DEF TypeOK
  <1>3. Contents \in [1 .. usedCount -> Word]
    BY <1>1 DEF Contents
  <1>. QED BY <1>2, <1>3 DEF Contents, ContentsFacts

\* The three ways a sequence changes, stated element by element.
LEMMA IsAppend ==
  ASSUME NEW S, NEW s \in Seq(S), NEW t \in Seq(S), NEW e \in S,
         Len(t) = Len(s) + 1,
         \A i \in 1 .. Len(s) : t[i] = s[i],
         t[Len(s) + 1] = e
  PROVE  t = Append(s, e)
  <1>1. /\ Append(s, e) \in Seq(S)
        /\ Len(Append(s, e)) = Len(s) + 1
        /\ \A i \in 1 .. Len(s) : Append(s, e)[i] = s[i]
        /\ Append(s, e)[Len(s) + 1] = e
    BY AppendProperties
  <1>2. Len(s) \in Nat
    BY LenProperties
  <1>3. \A i \in 1 .. Len(t) : t[i] = Append(s, e)[i]
    BY <1>1, <1>2
  <1>. QED BY <1>1, <1>3, SeqEqual

LEMMA IsCons ==
  ASSUME NEW S, NEW s \in Seq(S), NEW t \in Seq(S), NEW e \in S,
         Len(t) = Len(s) + 1,
         t[1] = e,
         \A i \in 1 .. Len(s) : t[i + 1] = s[i]
  PROVE  t = <<e>> \o s
  <1>1. <<e>> \in Seq(S) /\ Len(<<e>>) = 1
    OBVIOUS
  <1>2. <<e>> \o s \in Seq(S) /\ Len(<<e>> \o s) = Len(s) + 1
    BY <1>1, ConcatProperties
  <1>3. Len(s) \in Nat
    BY LenProperties
  <1>4. ASSUME NEW i \in 1 .. Len(t)
        PROVE  t[i] = (<<e>> \o s)[i]
    <2>1. CASE i = 1
      BY <2>1, <1>1
    <2>2. CASE i # 1
      <3>1. i - 1 \in 1 .. Len(s) /\ (i - 1) + 1 = i
        BY <2>2, <1>3, <1>4
      <3>2. (<<e>> \o s)[i] = s[i - 1]
        BY <2>2, <3>1, <1>1, <1>3, <1>4
      <3>. QED BY <3>1, <3>2
    <2>. QED BY <2>1, <2>2
  <1>. QED BY <1>2, <1>4, SeqEqual

LEMMA IsTail ==
  ASSUME NEW S, NEW s \in Seq(S), NEW t \in Seq(S), s # <<>>,
         Len(t) = Len(s) - 1,
         \A i \in 1 .. Len(t) : t[i] = s[i + 1]
  PROVE  t = Tail(s)
  <1>1. /\ Tail(s) \in Seq(S)
        /\ Len(Tail(s)) = Len(s) - 1
        /\ \A i \in 1 .. Len(Tail(s)) : Tail(s)[i] = s[i + 1]
    BY HeadTailProperties
  <1>. QED BY <1>1, SeqEqual

\* Two queued messages, or a queued one and the first free slot, never share
\* an array element.
LEMMA SlotsDistinct ==
  ASSUME TypeOK, NEW i \in 1 .. Capacity, NEW j \in 1 .. Capacity, i # j
  PROVE  (firstIndex + i - 1) % Capacity # (firstIndex + j - 1) % Capacity
  <1>1. /\ i - 1 \in 0 .. Capacity /\ firstIndex + (i - 1) = firstIndex + i - 1
        /\ j - 1 \in 0 .. Capacity /\ firstIndex + (j - 1) = firstIndex + j - 1
        /\ firstIndex \in 0 .. Capacity - 1 /\ Capacity \in Nat
    BY CapacityAssumption DEF TypeOK, Index
  <1>2. (firstIndex + (i - 1)) % Capacity =
            IF firstIndex + (i - 1) < Capacity THEN firstIndex + (i - 1)
                                               ELSE firstIndex + (i - 1) - Capacity
    BY <1>1, RingIndex
  <1>3. (firstIndex + (j - 1)) % Capacity =
            IF firstIndex + (j - 1) < Capacity THEN firstIndex + (j - 1)
                                               ELSE firstIndex + (j - 1) - Capacity
    BY <1>1, RingIndex
  <1>. QED BY <1>1, <1>2, <1>3

\* MsgQueueEnqueue appends: the slot it writes is the first free one.
LEMMA EnqueueAppends ==
  ASSUME TypeOK, TypeOK', NEW m \in Message, ~IsFull, Enqueue(m)
  PROVE  Contents' = Append(Contents, m)
  <1>1. usedCount \in Nat /\ usedCount < Capacity /\ usedCount' = usedCount + 1
        /\ firstIndex' = firstIndex /\ firstIndex \in Nat /\ firstIndex < Capacity
        /\ Capacity \in Nat /\ m \in Word
    BY CapacityAssumption DEF TypeOK, IsFull, Enqueue, Index, Word
  <1>2. firstIndex + (usedCount + 1) - 1 = firstIndex + usedCount
    BY <1>1
  <1>3. ASSUME NEW i \in 1 .. usedCount
        PROVE  Slot(i)' = Slot(i)
    <2>1. (firstIndex + i - 1) % Capacity # (firstIndex + usedCount) % Capacity
      <3>1. i \in 1 .. Capacity /\ usedCount + 1 \in 1 .. Capacity /\ i # usedCount + 1
        BY <1>1
      <3>. QED BY <1>2, <3>1, SlotsDistinct
    <2>. QED BY <1>1, <2>1 DEF Slot, Enqueue, TypeOK
  <1>4. ASSUME NEW n \in Nat, n = usedCount + 1
        PROVE  Slot(n)' = m
    <2>1. (firstIndex + usedCount) % Capacity \in Index
      BY <1>1, WrapInRange DEF Index
    <2>. QED BY <1>1, <1>2, <1>4, <2>1 DEF Slot, Enqueue, TypeOK
  <1>5. ContentsFacts /\ ContentsFacts'
    BY ContentsType, PTL
  <1>. HIDE DEF Contents
  <1>6. /\ Contents \in Seq(Word) /\ Contents' \in Seq(Word)
        /\ Len(Contents') = Len(Contents) + 1
        /\ \A i \in 1 .. Len(Contents) : Contents'[i] = Contents[i]
        /\ Contents'[Len(Contents) + 1] = m
    BY <1>1, <1>3, <1>4, <1>5 DEF ContentsFacts
  <1>. QED BY <1>1, <1>6, IsAppend

\* MsgQueueJam prepends: the slot before firstIndex, around the end of the
\* array if need be, is free.
LEMMA JamPrepends ==
  ASSUME TypeOK, TypeOK', NEW m \in Message, ~IsFull, Jam(m)
  PROVE  Contents' = <<m>> \o Contents
  <1>. DEFINE front == IF firstIndex = 0 THEN Capacity - 1 ELSE firstIndex - 1
  <1>1. usedCount \in Nat /\ usedCount < Capacity /\ usedCount' = usedCount + 1
        /\ firstIndex \in Nat /\ firstIndex < Capacity
        /\ firstIndex' = front /\ front \in Nat /\ front < Capacity
        /\ msgArray' = [msgArray EXCEPT ![front] = m]
        /\ Capacity \in Nat \ {0} /\ m \in Word
    BY CapacityAssumption DEF TypeOK, IsFull, Jam, Index, Word
  <1>. HIDE DEF front
  <1>2. ASSUME NEW i \in 1 .. usedCount
        PROVE  Slot(i + 1)' = Slot(i)
    <2>1. /\ i - 1 \in 0 .. Capacity /\ firstIndex + (i - 1) = firstIndex + i - 1
          /\ i \in 0 .. Capacity /\ firstIndex' + (i + 1) - 1 = firstIndex' + i
      BY <1>1
    <2>2. (firstIndex + (i - 1)) % Capacity =
              IF firstIndex + (i - 1) < Capacity THEN firstIndex + (i - 1)
                                                 ELSE firstIndex + (i - 1) - Capacity
      BY <2>1, RingIndex
    <2>3. (firstIndex' + i) % Capacity =
              IF firstIndex' + i < Capacity THEN firstIndex' + i
                                            ELSE firstIndex' + i - Capacity
      <3>. DEFINE x == firstIndex' + i
      <3>1. x \in Nat /\ x < 2 * Capacity
        BY <1>1, <2>1
      <3>. HIDE DEF x
      <3>2. x % Capacity = IF x < Capacity THEN x ELSE x - Capacity
        BY <1>1, <3>1, Wrap
      <3>. QED BY <1>1, <3>2 DEF x
    <2>4. /\ (firstIndex' + i) % Capacity = (firstIndex + (i - 1)) % Capacity
          /\ (firstIndex + (i - 1)) % Capacity # front
      BY <1>1, <2>2, <2>3 DEF front
    <2>. QED BY <1>1, <2>1, <2>4 DEF Slot, TypeOK
  <1>3. Slot(1)' = m
    <2>1. firstIndex' + 1 - 1 = firstIndex' + 0 /\ firstIndex' + 0 = front
      BY <1>1
    <2>2. front < 2 * Capacity
      BY <1>1
    <2>3. front % Capacity = front
      BY <1>1, <2>2, Wrap
    <2>4. front \in Index
      BY <1>1 DEF Index
    <2>. QED BY <1>1, <2>1, <2>3, <2>4 DEF Slot, TypeOK
  <1>4. ContentsFacts /\ ContentsFacts'
    BY ContentsType, PTL
  <1>. HIDE DEF Contents
  <1>5. /\ Contents \in Seq(Word) /\ Contents' \in Seq(Word)
        /\ Len(Contents') = Len(Contents) + 1
        /\ Contents'[1] = m
        /\ \A i \in 1 .. Len(Contents) : Contents'[i + 1] = Contents[i]
    BY <1>1, <1>2, <1>3, <1>4 DEF ContentsFacts
  <1>6. m \in Word
    BY <1>1
  <1>. HIDE DEF Word
  <1>. QED BY <1>5, <1>6, IsCons, Zenon

\* MsgQueueDequeue hands out the front message and drops it.
LEMMA DequeueTakes ==
  ASSUME TypeOK, TypeOK', ~IsEmpty, Dequeue
  PROVE  /\ Contents # <<>>
         /\ delivered' = Head(Contents)
         /\ Contents' = Tail(Contents)
  <1>1. usedCount \in Nat \ {0} /\ usedCount <= Capacity /\ usedCount' = usedCount - 1
        /\ firstIndex \in Nat /\ firstIndex < Capacity
        /\ firstIndex' = (firstIndex + 1) % Capacity /\ firstIndex' \in Nat
        /\ firstIndex' < Capacity
        /\ msgArray' = msgArray /\ delivered' = msgArray[firstIndex]
        /\ Capacity \in Nat \ {0}
    BY CapacityAssumption DEF TypeOK, IsEmpty, Dequeue, Index
  <1>2. firstIndex' = IF firstIndex + 1 < Capacity THEN firstIndex + 1
                                                   ELSE firstIndex + 1 - Capacity
    BY <1>1, RingIndex
  <1>3. ASSUME NEW i \in 1 .. usedCount - 1
        PROVE  Slot(i)' = Slot(i + 1)
    <2>1. /\ i \in 0 .. Capacity /\ firstIndex + (i + 1) - 1 = firstIndex + i
          /\ firstIndex' + i - 1 = firstIndex' + (i - 1)
      BY <1>1
    <2>2. (firstIndex + i) % Capacity =
              IF firstIndex + i < Capacity THEN firstIndex + i
                                           ELSE firstIndex + i - Capacity
      BY <2>1, RingIndex
    <2>3. (firstIndex' + (i - 1)) % Capacity =
              IF firstIndex' + (i - 1) < Capacity THEN firstIndex' + (i - 1)
                                                  ELSE firstIndex' + (i - 1) - Capacity
      <3>. DEFINE x == firstIndex' + (i - 1)
      <3>1. x \in Nat /\ x < 2 * Capacity
        BY <1>1, <2>1
      <3>. HIDE DEF x
      <3>2. x % Capacity = IF x < Capacity THEN x ELSE x - Capacity
        BY <1>1, <3>1, Wrap
      <3>. QED BY <1>1, <3>2 DEF x
    <2>4. (firstIndex' + (i - 1)) % Capacity = (firstIndex + i) % Capacity
      BY <1>1, <1>2, <2>2, <2>3
    <2>. QED BY <1>1, <2>1, <2>4 DEF Slot
  <1>4. Slot(1) = msgArray[firstIndex]
    <2>1. firstIndex + 1 - 1 = firstIndex
      BY <1>1
    <2>2. firstIndex < 2 * Capacity
      BY <1>1
    <2>3. firstIndex % Capacity = firstIndex
      BY <1>1, <2>2, Wrap
    <2>. QED BY <2>1, <2>3 DEF Slot
  <1>5. ContentsFacts /\ ContentsFacts'
    BY ContentsType, PTL
  <1>. HIDE DEF Contents
  <1>6. /\ Contents \in Seq(Word) /\ Contents' \in Seq(Word)
        /\ Contents # <<>>
        /\ Len(Contents') = Len(Contents) - 1
        /\ \A i \in 1 .. Len(Contents') : Contents'[i] = Contents[i + 1]
    BY <1>1, <1>3, <1>5 DEF ContentsFacts
  <1>7. Head(Contents) = Slot(1)
    BY <1>1, <1>5, <1>6 DEF ContentsFacts
  <1>8. Contents' = Tail(Contents)
    BY <1>6, IsTail
  <1>. QED BY <1>1, <1>4, <1>6, <1>7, <1>8

\* Every step of the ring buffer is a step of the channel or leaves it alone.
LEMMA CompleteImplements ==
  ASSUME TypeOK, TypeOK', NEW t \in Thread, NEW o \in Operation, Complete(t, o)
  PROVE  Channel!ChannelNext
  <1>1. Ready(o) /\ Apply(o)
    BY DEF Complete
  <1>2. /\ Contents \in Seq(Word)
        /\ Len(Contents) = usedCount
        /\ usedCount \in Nat /\ Capacity \in Nat
    BY ContentsType, CapacityAssumption DEF ContentsFacts, TypeOK
  <1>3. CASE o.kind = "send"
    <2>1. ~IsFull /\ Enqueue(o.msg) /\ o.msg \in Message
      BY <1>1, <1>3 DEF Ready, Apply, Operation
    <2>2. Contents' = Append(Contents, o.msg) /\ delivered' = delivered
      BY <2>1, EnqueueAppends DEF Enqueue
    <2>3. Len(Contents) < Capacity
      BY <1>2, <2>1 DEF IsFull
    <2>. QED BY <2>1, <2>2, <2>3 DEF Channel!ChannelNext, Channel!PutBack
  <1>4. CASE o.kind = "jam"
    <2>1. ~IsFull /\ Jam(o.msg) /\ o.msg \in Message
      BY <1>1, <1>4 DEF Ready, Apply, Operation
    <2>2. Contents' = <<o.msg>> \o Contents /\ delivered' = delivered
      BY <2>1, JamPrepends DEF Jam
    <2>3. Len(Contents) < Capacity
      BY <1>2, <2>1 DEF IsFull
    <2>. HIDE DEF Contents
    <2>4. Channel!PutFront(o.msg)
      BY <2>2, <2>3 DEF Channel!PutFront
    <2>. QED BY <2>1, <2>4 DEF Channel!ChannelNext
  <1>5. CASE o.kind = "receive"
    <2>1. ~IsEmpty /\ Dequeue
      BY <1>1, <1>5 DEF Ready, Apply
    <2>. QED BY <2>1, DequeueTakes DEF Channel!ChannelNext, Channel!Take
  <1>. QED BY <1>3, <1>4, <1>5 DEF Operation

\* A step that touches neither the ring nor the last delivery is a stutter.
LEMMA RingUnchanged ==
  ASSUME UNCHANGED ring
  PROVE  UNCHANGED Channel!channelVars
  BY DEF ring, Channel!channelVars, Contents, Slot

\* No send, jam or receive loses, duplicates, reorders or overwrites a
\* message, for any number of threads, any messages and any msgCount.
THEOREM RingImplementsChannel == Spec => ImplementsChannel
  <1>1. Init => Channel!ChannelInit
    <2>1. ASSUME Init
          PROVE  Contents = <<>>
      <3>1. ContentsFacts
        BY <2>1, InitType, ContentsType
      <3>. QED BY <2>1, <3>1 DEF Init, ContentsFacts
    <2>. QED BY <2>1 DEF Channel!ChannelInit
  <1>2. ASSUME TypeOK, TypeOK', [Next]_vars
        PROVE  [Channel!ChannelNext]_(Channel!channelVars)
    <2>1. ASSUME NEW t \in Thread, NEW o \in Operation, Complete(t, o)
          PROVE  Channel!ChannelNext
      BY <1>2, <2>1, CompleteImplements
    <2>2. CASE \/ \E t \in Thread, o \in Operation : GoToSleep(t, o)
               \/ \E t \in Thread : Cancel(t)
               \/ UNCHANGED vars
      BY <2>2, RingUnchanged DEF GoToSleep, Cancel, ring, vars
    <2>. QED BY <1>2, <2>1, <2>2, Steps
  <1>. QED BY <1>1, <1>2, TypeCorrect, PTL DEF Spec, ImplementsChannel, Channel!ChannelSpec
=============================================================================
