---------------------------- MODULE AudioProofs ----------------------------
(***************************************************************************)
(* Proofs about Audio for every length of blocks, buffers and queues and   *)
(* any number of frames and calls: the mix worker is alone with what it    *)
(* mixes and reads what the mail gave it, nobody sleeps for ever, effects  *)
(* are never put back, the ring of the renderer never overruns, and what   *)
(* is on its way to the renderer implements the sound line.                *)
(***************************************************************************)
EXTENDS Audio, FiniteSetTheorems, SequenceTheorems, TLAPS

(***************************************************************************)
(* The mix worker and the game thread.                                     *)
(***************************************************************************)

\* Where the worker stands, and who wakes it.
WorkerStands ==
    /\ worker \in {"none", "testing", "asleep", "mixing", "mixed", "telling", "ended"}
    /\ mixBusy <=> worker \in {"mixing", "mixed"}
    /\ mixPending => \/ worker \in {"testing", "telling"}
                     \/ worker = "asleep" /\ at = "wake"
    /\ mixStop => at \in {"leaving", "gone"}
    /\ worker = "ended" => mixStop
    /\ at = "leaving" /\ worker \notin {"none", "ended"} => mixStop /\ worker # "asleep"
    /\ at = "gone" => worker = "none"

JoinSleeper == idleWait => Joining /\ (InFlight \/ worker = "telling")

\* A join has been passed since the last list was handed over.
Joined == Alone \cup {"ensure", "notify"}
JoinedIsQuiet ==
    at \in Joined => /\ ~mixPending
                     /\ worker \notin {"mixing", "mixed"}
                     /\ shadow = 0

OutputIsTold ==
    /\ outThread \in {"none", "testing", "asleep", "holding"}
    /\ queue # <<>> => outThread \in {"testing", "holding"} \/ at = "notify"

\* What a list that is being mixed will add back is what it was mailed with.
MailIsKept ==
    /\ Mixing => deferred /\ auxIn = mailed
    /\ list > 0 /\ ~Mixing => added = mailed

\* What a list that is mixed, or waits to be published, uploads is newer than
\* what the game has.
AuxIsOlder ==
    /\ list \in Nat /\ auxOut \in [list : Nat, taken : BOOLEAN]
    /\ auxOut.list <= list
    /\ shadow # 0 => shadow = list
    /\ Mixing \/ shadow # 0 => auxOut.list < list

MixInv == WorkerStands /\ JoinSleeper /\ JoinedIsQuiet /\ OutputIsTold
            /\ MailIsKept /\ AuxIsOlder

LEMMA MixInit == Init => MixInv
<1> SUFFICES ASSUME Init PROVE MixInv
  OBVIOUS
<1>1. WorkerStands
  BY DEF Init, WorkerStands
<1>2. JoinSleeper /\ JoinedIsQuiet /\ MailIsKept
  BY DEF Init, JoinSleeper, JoinedIsQuiet, MailIsKept, Mixing
<1>3. OutputIsTold
  BY DEF Init, OutputInit, OutputIsTold
<1>4. AuxIsOlder
  BY DEF Init, AuxIsOlder, Mixing
<1> QED BY <1>1, <1>2, <1>3, <1>4 DEF MixInv

\* Steps of the game thread that leave the worker, the mix and the output queue
\* alone, and do not come from or to a place that MixInv knows of.
QuietStep ==
    /\ UNCHANGED <<thread, mix, aux, queue, outThread>>
    /\ ~Joining /\ at \notin {"wake", "notify", "leaving", "gone"}
    /\ at' \notin {"leaving", "gone"}
    /\ at' \in Joined => at \in Joined

LEMMA QuietKeepsMixInv ==
    ASSUME MixInv, QuietStep PROVE MixInv'
<1> USE DEF MixInv, QuietStep, thread, mix, aux
<1>1. WorkerStands'
  BY DEF WorkerStands
<1>2. JoinSleeper'
  BY DEF JoinSleeper
<1>3. JoinedIsQuiet'
  BY DEF JoinedIsQuiet, Joined, Alone
<1>4. OutputIsTold'
  BY DEF OutputIsTold
<1>5. MailIsKept'
  BY DEF MailIsKept, Mixing
<1>6. AuxIsOlder'
  BY DEF AuxIsOlder, Mixing
<1> QED BY <1>1, <1>2, <1>3, <1>4, <1>5, <1>6
\* Which steps those are.
LEMMA GuestIsQuiet ==
    ASSUME \/ Poll \/ AICallback \/ SendListSize \/ SendListAddress
           \/ ServiceDeferredCallbacks \/ ClaimBlock \/ Ensure \/ NextBlock
           \/ TaskAdded \/ Stop
           \/ AIInitDMA \/ AIRegisterDMACallback \/ AIStartDMA \/ DSPAssertTask
           \/ DSPAddTask \/ OSInitAudioSystem \/ OSStopAudioSystem
           \/ SetMixWorkerEnabled \/ SetMuted,
           back \in GuestPoints
    PROVE  QuietStep
<1> USE DEF QuietStep, GuestPoints, GuestCode, Joining, AfterJoin, Joined, Alone
<1>1. CASE Poll \/ AICallback
  BY <1>1 DEF Poll, AICallback, output
<1>2. CASE SendListSize \/ SendListAddress \/ ServiceDeferredCallbacks
  BY <1>2 DEF SendListSize, SendListAddress, ServiceDeferredCallbacks, output
<1>3. CASE ClaimBlock \/ Ensure \/ NextBlock
  BY <1>3 DEF ClaimBlock, Ensure, AfterPush, NextBlock, EndTick, output
<1>4. CASE TaskAdded \/ Stop
  BY <1>4 DEF TaskAdded, Stop, output
<1>5. CASE AIInitDMA \/ AIRegisterDMACallback \/ AIStartDMA \/ DSPAssertTask
  BY <1>5 DEF AIInitDMA, AIRegisterDMACallback, AIStartDMA, DSPAssertTask, output
<1>6. CASE DSPAddTask \/ OSInitAudioSystem \/ OSStopAudioSystem
  BY <1>6 DEF DSPAddTask, OSInitAudioSystem, OSStopAudioSystem, output
<1>7. CASE SetMixWorkerEnabled \/ SetMuted
  BY <1>7 DEF SetMixWorkerEnabled, SetMuted, ApplyGain, output
<1> QED BY <1>1, <1>2, <1>3, <1>4, <1>5, <1>6, <1>7

\* A join: the game thread waits for the worker, and publishes what it uploaded.
LEMMA JoinKeepsMixInv ==
    ASSUME MixInv, JoinSleeps \/ JoinDone PROVE MixInv'
<1> USE DEF MixInv
<1>1. CASE JoinSleeps
  <2> USE <1>1 DEF JoinSleeps, mix, aux, output
  <2>1. WorkerStands' /\ JoinSleeper' /\ JoinedIsQuiet'
    BY DEF WorkerStands, JoinSleeper, JoinedIsQuiet, Joining, InFlight
  <2>2. OutputIsTold' /\ MailIsKept' /\ AuxIsOlder'
    BY DEF OutputIsTold, MailIsKept, AuxIsOlder, Mixing
  <2> QED BY <2>1, <2>2
<1>2. CASE JoinDone
  <2> USE <1>2 DEF JoinDone, PublishAuxOutputs, PublishedShadow, thread, output
  <2>1. ~mixPending /\ worker \notin {"mixing", "mixed"}
    BY DEF WorkerStands, InFlight
  <2>2. /\ at' \in {"ensure", "dispatch", "init", "stop", "task"}
        /\ at \notin {"wake", "notify", "leaving", "gone"}
    BY DEF Joining, AfterJoin
  <2>3. WorkerStands' /\ JoinSleeper' /\ JoinedIsQuiet'
    BY <2>1, <2>2 DEF WorkerStands, JoinSleeper, JoinedIsQuiet
  <2>4. OutputIsTold' /\ MailIsKept'
    BY <2>1, <2>2 DEF OutputIsTold, MailIsKept, Mixing
  <2>5. AuxIsOlder'
    BY <2>1 DEF AuxIsOlder, Mixing
  <2> QED BY <2>3, <2>4, <2>5
<1> QED BY <1>1, <1>2

\* The worker takes a list, mixes it, and tells.
LEMMA WorkerKeepsMixInv ==
    ASSUME MixInv, WorkerSteps PROVE MixInv'
<1> USE DEF MixInv
<1>1. CASE WorkerTests
  <2> USE <1>1 DEF WorkerTests, mix, aux, output
  <2>1. WorkerStands'
    BY DEF WorkerStands
  <2>2. JoinSleeper' /\ JoinedIsQuiet'
    BY DEF JoinSleeper, JoinedIsQuiet, Joining, InFlight
  <2>3. OutputIsTold' /\ MailIsKept' /\ AuxIsOlder'
    BY DEF OutputIsTold, MailIsKept, AuxIsOlder, Mixing
  <2> QED BY <2>1, <2>2, <2>3
<1>2. CASE WorkerMixes
  <2> USE <1>2 DEF WorkerMixes, AddedBack, aux, output
  <2>1. WorkerStands'
    BY DEF WorkerStands
  <2>2. JoinSleeper' /\ JoinedIsQuiet'
    BY DEF JoinSleeper, JoinedIsQuiet, Joining, InFlight
  <2>3. OutputIsTold'
    BY DEF OutputIsTold
  <2>4. MailIsKept' /\ AuxIsOlder'
    BY DEF MailIsKept, AuxIsOlder, Mixing
  <2> QED BY <2>1, <2>2, <2>3, <2>4
<1>3. CASE WorkerFinishes \/ WorkerTells
  <2> USE <1>3 DEF WorkerFinishes, WorkerTells, Told, mix, aux, output
  <2>1. WorkerStands'
    BY DEF WorkerStands
  <2>2. JoinSleeper' /\ JoinedIsQuiet'
    BY DEF JoinSleeper, JoinedIsQuiet, Joining, InFlight
  <2>3. OutputIsTold' /\ MailIsKept' /\ AuxIsOlder'
    BY DEF OutputIsTold, MailIsKept, AuxIsOlder, Mixing
  <2> QED BY <2>1, <2>2, <2>3
<1> QED BY <1>1, <1>2, <1>3 DEF WorkerSteps
\* A list is handed over, or mixed inline, where no other is in flight.
LEMMA ListKeepsMixInv ==
    ASSUME MixInv, DispatchToWorker \/ WakeWorker \/ MixInline PROVE MixInv'
<1> USE DEF MixInv
<1>1. CASE DispatchToWorker
  <2> USE <1>1 DEF DispatchToWorker, ListTaken, output
  <2>1. ~Mixing /\ worker \notin {"mixing", "mixed"} /\ shadow = 0
    BY DEF JoinedIsQuiet, Joined, Alone, Mixing
  <2>2. worker # "ended" /\ ~mixStop
    BY DEF WorkerStands
  <2>3. WorkerStands'
    BY <2>1, <2>2 DEF WorkerStands
  <2>4. JoinSleeper' /\ JoinedIsQuiet'
    BY DEF JoinSleeper, JoinedIsQuiet, Joining, AfterJoin, Joined, Alone
  <2>5. OutputIsTold' /\ MailIsKept' /\ AuxIsOlder'
    BY <2>1 DEF OutputIsTold, MailIsKept, AuxIsOlder, Mixing
  <2> QED BY <2>3, <2>4, <2>5
<1>2. CASE WakeWorker
  <2> USE <1>2 DEF WakeWorker, mix, aux, output
  <2>1. WorkerStands'
    BY DEF WorkerStands
  <2>2. JoinSleeper' /\ JoinedIsQuiet'
    BY DEF JoinSleeper, JoinedIsQuiet, Joining, AfterJoin, Joined, Alone
  <2>3. OutputIsTold' /\ MailIsKept' /\ AuxIsOlder'
    BY DEF OutputIsTold, MailIsKept, AuxIsOlder, Mixing
  <2> QED BY <2>1, <2>2, <2>3
<1>3. CASE MixInline
  <2> USE <1>3 DEF MixInline, ListTaken, output
  <2>1. ~Mixing /\ worker \notin {"mixing", "mixed"} /\ shadow = 0
    BY DEF JoinedIsQuiet, Joined, Alone, Mixing
  <2>2. WorkerStands'
    BY <2>1 DEF WorkerStands, Mixing
  <2>3. JoinSleeper' /\ JoinedIsQuiet'
    BY DEF JoinSleeper, JoinedIsQuiet, Joining, AfterJoin, Joined, Alone
  <2>4. OutputIsTold' /\ MailIsKept'
    BY <2>1 DEF OutputIsTold, MailIsKept, Mixing
  <2>5. ~Mixing' /\ shadow' = 0 /\ list \in Nat /\ list' = list + 1
    BY <2>1 DEF AuxIsOlder, Mixing
  <2>6. /\ auxOut' \in [list : Nat, taken : BOOLEAN]
        /\ auxOut'.list <= list'
    <3>1. CASE auxOut' = auxOut
      BY <3>1, <2>5 DEF AuxIsOlder
    <3>2. CASE auxOut' = [list |-> list', taken |-> FALSE]
      BY <3>2, <2>5
    <3> QED BY <3>1, <3>2
  <2>7. AuxIsOlder'
    BY <2>5, <2>6 DEF AuxIsOlder
  <2> QED BY <2>2, <2>3, <2>4, <2>7
<1> QED BY <1>1, <1>2, <1>3

\* The rest of the game thread's steps.
LEMMA GameKeepsMixInv ==
    ASSUME MixInv, ProcessAux \/ Initialize \/ RuntimeLeave \/ Left PROVE MixInv'
<1> USE DEF MixInv
<1>1. CASE ProcessAux
  <2> USE <1>1 DEF ProcessAux, thread, mix, output
  <2>1. WorkerStands' /\ JoinSleeper' /\ JoinedIsQuiet' /\ OutputIsTold'
    BY DEF WorkerStands, JoinSleeper, JoinedIsQuiet, OutputIsTold, Joining,
           AfterJoin, Joined, Alone
  <2>2. MailIsKept' /\ AuxIsOlder'
    BY DEF MailIsKept, AuxIsOlder, Mixing
  <2> QED BY <2>1, <2>2
<1>2. CASE Initialize
  <2> USE <1>2 DEF Initialize, thread, aux, output
  <2>1. WorkerStands' /\ JoinSleeper' /\ JoinedIsQuiet' /\ OutputIsTold'
    BY DEF WorkerStands, JoinSleeper, JoinedIsQuiet, OutputIsTold, Joining,
           AfterJoin, Joined, Alone
  <2>2. MailIsKept' /\ AuxIsOlder'
    BY DEF MailIsKept, AuxIsOlder, Mixing, JoinedIsQuiet, Joined, Alone
  <2> QED BY <2>1, <2>2
<1>3. CASE RuntimeLeave
  <2> USE <1>3 DEF RuntimeLeave, GuestPoints, GuestCode, mix, aux, output
  <2>1. WorkerStands'
    BY DEF WorkerStands
  <2>2. JoinSleeper' /\ JoinedIsQuiet' /\ OutputIsTold'
    BY DEF JoinSleeper, JoinedIsQuiet, OutputIsTold, Joining, AfterJoin, Joined, Alone
  <2>3. MailIsKept' /\ AuxIsOlder'
    BY DEF MailIsKept, AuxIsOlder, Mixing
  <2> QED BY <2>1, <2>2, <2>3
<1>4. CASE Left
  <2> USE <1>4 DEF Left, mix, aux
  <2>1. WorkerStands'
    BY DEF WorkerStands
  <2>2. JoinSleeper' /\ JoinedIsQuiet' /\ OutputIsTold'
    BY DEF JoinSleeper, JoinedIsQuiet, OutputIsTold, Joining, AfterJoin, Joined, Alone
  <2>3. MailIsKept' /\ AuxIsOlder'
    BY DEF MailIsKept, AuxIsOlder, Mixing
  <2> QED BY <2>1, <2>2, <2>3
<1> QED BY <1>1, <1>2, <1>3, <1>4

\* Handing over a block, and the output thread's own steps.
LEMMA OutputKeepsMixInv ==
    ASSUME MixInv, Push \/ Notify \/ OutputNext PROVE MixInv'
<1> USE DEF MixInv
<1>1. /\ UNCHANGED <<thread, mix, aux>>
      /\ \/ at' = at
         \/ ~Joining /\ {at, at'} \cap {"wake", "leaving", "gone"} = {}
      /\ at' \in Joined => at \in Joined
  BY DEF Push, AfterPush, EndTick, Notify, OutputNext, Joining, AfterJoin, Joined, Alone
<1>2. WorkerStands' /\ JoinSleeper' /\ JoinedIsQuiet'
  BY <1>1 DEF WorkerStands, JoinSleeper, JoinedIsQuiet, Joining, InFlight, thread, mix
<1>3. MailIsKept' /\ AuxIsOlder'
  BY <1>1 DEF MailIsKept, AuxIsOlder, Mixing, thread, mix, aux
<1>4. OutputIsTold'
  <2>1. CASE Push
    BY <2>1 DEF Push, PushBlock, EndTick, OutputIsTold
  <2>2. CASE Notify
    BY <2>2 DEF Notify, NotifyOutput, OutputIsTold
  <2>3. CASE OutputNext
    BY <2>3 DEF OutputNext, OutputSteps, OutputThread, TakeBlock, SubmitConverted,
                Render, OutputIsTold
  <2> QED BY <2>1, <2>2, <2>3
<1> QED BY <1>2, <1>3, <1>4
\* OSStopAudioSystem returns into the game's code.
LEMMA StopReturns == back \in GuestPoints /\ [Next]_vars => (back \in GuestPoints)'
<1> SUFFICES ASSUME back \in GuestPoints, [Next]_vars PROVE back' \in GuestPoints
  OBVIOUS
<1>1. back' \in {back, "guest"} \/ OSStopAudioSystem
  BY DEF vars, Next, Steps, Poll, JoinSleeps, JoinDone, WorkerSteps, WorkerTests,
         WorkerMixes, WorkerFinishes, WorkerTells, FrameSteps, AICallback,
         SendListSize, SendListAddress, DispatchToWorker, ListTaken, WakeWorker,
         MixInline, ProcessAux, ServiceDeferredCallbacks, TickSteps, ClaimBlock,
         Ensure, Push, Notify, NextBlock, CallSteps, TaskAdded, Initialize, Stop,
         Left, Restart, OutputNext, Calls, AIInitDMA, AIRegisterDMACallback,
         AIStartDMA, DSPAssertTask, DSPAddTask, OSInitAudioSystem,
         SetMixWorkerEnabled, SetMuted, RuntimeLeave
<1> QED BY <1>1 DEF OSStopAudioSystem, GuestCode, GuestPoints

LEMMA MixNext == MixInv /\ back \in GuestPoints /\ [Next]_vars => MixInv'
<1> SUFFICES ASSUME MixInv, back \in GuestPoints, [Next]_vars PROVE MixInv'
  OBVIOUS
<1>1. CASE UNCHANGED vars
  BY <1>1 DEF vars, thread, mix, aux, output, MixInv, WorkerStands, JoinSleeper,
              JoinedIsQuiet, OutputIsTold, MailIsKept, AuxIsOlder, Joining, InFlight, Mixing
<1>2. CASE Next
  BY <1>2, GuestIsQuiet, QuietKeepsMixInv, JoinKeepsMixInv, WorkerKeepsMixInv,
     ListKeepsMixInv, GameKeepsMixInv, OutputKeepsMixInv
     DEF Next, Steps, Calls, FrameSteps, TickSteps, CallSteps, Restart
<1> QED BY <1>1, <1>2

LEMMA MixAlways == Spec => [](MixInv /\ back \in GuestPoints)
<1>1. Init => back \in GuestPoints
  BY DEF Init, GuestPoints
<1> QED BY <1>1, MixInit, MixNext, StopReturns, PTL DEF Spec

\* The game thread never reads the block, writes voices or a list, or resets the
\* mixer while a mix is waiting or running (AXWii's JoinMix).
THEOREM MixAlone == Spec => []MixIsAlone
<1>1. MixInv => MixIsAlone
  BY DEF MixInv, WorkerStands, JoinedIsQuiet, Joined, MixIsAlone, Mixing
<1> QED BY <1>1, MixAlways, PTL

\* What a list adds back from the effects is what the game had made of them when
\* it mailed the list, whoever mixes it and when (DispatchCommandList's m_auxIn).
THEOREM MailRead == Spec => []MixReadsTheMail
<1>1. MixInv => MixReadsTheMail
  BY DEF MixInv, MailIsKept, MixReadsTheMail
<1> QED BY <1>1, MixAlways, PTL

\* No wake-up of the mix worker, of a joining game thread, of the end of the
\* program or of the output thread is lost.
THEOREM WakeupsReach == Spec => []NoLostWakeup
<1>1. MixInv => NoLostWakeup
  BY DEF MixInv, WorkerStands, JoinSleeper, OutputIsTold, NoLostWakeup
<1> QED BY <1>1, MixAlways, PTL
\* Who changes the game's aux buffer.
LEMMA AuxChangers ==
    ASSUME [Next]_vars, auxOut' # auxOut
    PROVE  JoinDone \/ MixInline \/ ProcessAux
BY DEF vars, aux, Next, Steps, Poll, JoinSleeps, WorkerSteps, WorkerTests,
       WorkerMixes, WorkerFinishes, WorkerTells, FrameSteps, AICallback,
       SendListSize, SendListAddress, DispatchToWorker, WakeWorker,
       ServiceDeferredCallbacks, TickSteps, ClaimBlock, Ensure, Push, Notify,
       NextBlock, CallSteps, TaskAdded, Initialize, Stop, Left, Restart,
       OutputNext, Calls, AIInitDMA, AIRegisterDMACallback, AIStartDMA,
       DSPAssertTask, DSPAddTask, OSInitAudioSystem, OSStopAudioSystem,
       SetMixWorkerEnabled, SetMuted, RuntimeLeave

\* An aux buffer reaches the game once and never after a later one, and one the
\* game has processed is not put back (PublishAuxOutputs).
THEOREM AuxNotPutBack == Spec => AuxMovesOn
<1>1. ASSUME MixInv, [Next]_vars, auxOut' # auxOut
      PROVE  auxOut'.list > auxOut.list \/ auxOut' = [auxOut EXCEPT !.taken = TRUE]
  <2>1. list \in Nat /\ auxOut \in [list : Nat, taken : BOOLEAN] /\ auxOut.list <= list
    BY <1>1 DEF MixInv, AuxIsOlder
  <2>2. CASE JoinDone
    <3>1. shadow # 0 /\ auxOut' = [list |-> shadow, taken |-> FALSE]
      BY <1>1, <2>2 DEF JoinDone, PublishAuxOutputs
    <3>2. shadow = list /\ auxOut.list < list
      BY <1>1, <3>1 DEF MixInv, AuxIsOlder
    <3> QED BY <2>1, <3>1, <3>2
  <2>3. CASE MixInline
    <3>1. list' = list + 1 /\ auxOut' = [list |-> list', taken |-> FALSE]
      BY <1>1, <2>3 DEF MixInline, ListTaken
    <3> QED BY <2>1, <3>1
  <2>4. CASE ProcessAux
    BY <2>4 DEF ProcessAux
  <2> QED BY <1>1, <2>2, <2>3, <2>4, AuxChangers
<1>2. MixInv /\ [Next]_vars =>
        [auxOut' # auxOut => \/ auxOut'.list > auxOut.list
                             \/ auxOut' = [auxOut EXCEPT !.taken = TRUE]]_vars
  BY <1>1
<1> QED BY <1>2, MixAlways, PTL DEF Spec, AuxMovesOn
(***************************************************************************)
(* The ring of the renderer, and the types.                                *)
(***************************************************************************)

LEMMA DivisionBounds ==
  ASSUME NEW n \in Nat, NEW w \in Nat \ {0}
  PROVE  /\ n \div w \in Nat
         /\ (n \div w) * w <= n
         /\ n < (n \div w) * w + w
BY SMT

LEMMA Cancels ==
  ASSUME NEW w \in Nat \ {0}, NEW a \in Nat, NEW b \in Nat, w * a <= w * b
  PROVE  a <= b
<1>1. CASE a <= b
  BY <1>1
<1>2. CASE a >= b + 1
  <2>1. w * a >= w * (b + 1)
    BY <1>2
  <2>2. w * (b + 1) = w * b + w
    OBVIOUS
  <2> QED BY <2>1, <2>2
<1> QED BY <1>1, <1>2

\* The i-th of n buffers of w units.
LEMMA BufferPlace ==
  ASSUME NEW w \in Nat \ {0}, NEW n \in Nat, NEW i \in 1..n
  PROVE  /\ (i - 1) * w \in Nat /\ i * w \in Nat
         /\ i * w = (i - 1) * w + w
         /\ i * w <= n * w
OBVIOUS

\* Buffers that hold no more sound than the ring are no more than the ring's.
LEMMA RingBound ==
  ASSUME NEW w \in Nat \ {0}, NEW h \in Nat, NEW k \in Nat, NEW b \in Nat,
         NEW len \in Nat, NEW limit \in Nat,
         k * w <= len, w * h + len <= limit, limit <= b * w
  PROVE  h + k <= b
<1>1. w * h \in Nat /\ k * w \in Nat /\ b * w \in Nat
  OBVIOUS
<1>2. w * (h + k) = w * h + k * w /\ w * b = b * w
  OBVIOUS
<1>3. w * (h + k) <= w * b
  BY <1>1, <1>2
<1> QED BY <1>3, Cancels

LEMMA BlockType ==
  ASSUME NEW n \in Nat \ {0}
  PROVE  Block(n) \in Seq(Unit) /\ Len(Block(n)) = BlockUnits
<1>1. \A i \in 1..BlockUnits : <<n, i>> \in Unit
  BY DEF Unit
<1> QED BY <1>1, OutputAssumption DEF Block

\* Where QueueHasCapacity says so, the whole block has room in the ring
\* (AppendSamplesLocked).
LEMMA WholeBlock ==
  ASSUME OutputType, QueueHasCapacity
  PROVE  Fits = BlockUnits
<1>1. /\ Len(writing) \in Nat /\ Held \in Nat /\ WaveUnits * Held \in Nat
      /\ WaveBufs * WaveUnits \in Nat
  BY OutputAssumption DEF OutputType, Held
<1> HIDE DEF Held
<1> QED BY <1>1, OutputAssumption DEF QueueHasCapacity, Fits, RoomInRing

\* The ring takes a block: the buffers stay within the ring, each full one has
\* its length, and the one being filled is not full.
LEMMA AppendType ==
  ASSUME OutputType, outThread = "holding", QueueHasCapacity, AppendSamples
  PROVE  /\ writing' \in Seq(Unit) /\ Len(writing') < WaveUnits
         /\ playing' \in Seq(Seq(Unit)) /\ Len(playing') <= seen'
         /\ \A i \in DOMAIN playing' : Len(playing'[i]) = WaveUnits
         /\ seen' \in 0..WaveBufs
<1> DEFINE waves == Len(Stream) \div WaveUnits
           Wave(i) == SubSeq(Stream, (i - 1) * WaveUnits + 1, i * WaveUnits)
           filled == [i \in 1..waves |-> Wave(i)]
<1>1. /\ Stream \in Seq(Unit)
      /\ Len(Stream) = Len(writing) + BlockUnits
  <2>1. hand \in Nat \ {0} /\ writing \in Seq(Unit)
    BY DEF OutputType
  <2>2. Block(hand) \in Seq(Unit) /\ Len(Block(hand)) = BlockUnits
    BY <2>1, BlockType
  <2>3. SubSeq(Block(hand), 1, Fits) = Block(hand)
    BY <2>2, WholeBlock, SubSeqFull
  <2> QED BY <2>1, <2>2, <2>3, ConcatProperties DEF Stream
<1>2. Len(Stream) \in Nat /\ WaveUnits \in Nat \ {0}
  BY <1>1, LenProperties, OutputAssumption
<1>3. /\ waves \in Nat /\ waves * WaveUnits <= Len(Stream)
      /\ Len(Stream) < waves * WaveUnits + WaveUnits
  BY <1>2, DivisionBounds
<1>4. \A i \in 1..waves : Wave(i) \in Seq(Unit) /\ Len(Wave(i)) = WaveUnits
  <2> SUFFICES ASSUME NEW i \in 1..waves
               PROVE  Wave(i) \in Seq(Unit) /\ Len(Wave(i)) = WaveUnits
    OBVIOUS
  <2> HIDE DEF waves
  <2>1. /\ (i - 1) * WaveUnits \in Nat /\ i * WaveUnits \in Nat
        /\ i * WaveUnits = (i - 1) * WaveUnits + WaveUnits
        /\ i * WaveUnits <= waves * WaveUnits
    BY <1>2, <1>3, BufferPlace
  <2> DEFINE m == (i - 1) * WaveUnits + 1
             n == i * WaveUnits
  <2>2. m \in Int /\ n \in Int /\ m >= 1 /\ n <= Len(Stream) /\ n - m + 1 = WaveUnits
    BY <1>2, <1>3, <2>1
  <2> HIDE DEF m, n
  <2>3. \A j \in m..n : Stream[j] \in Unit
    BY <1>1, <1>2, <2>2, ElementOfSeq
  <2>4. SubSeq(Stream, m, n) \in Seq(Unit) /\ Len(SubSeq(Stream, m, n)) = WaveUnits
    BY <1>2, <2>2, <2>3, SubSeqProperties
  <2> QED BY <2>4 DEF m, n
<1>5. filled \in Seq(Seq(Unit)) /\ Len(filled) = waves
  <2> HIDE DEF waves, Wave
  <2> QED BY <1>3, <1>4
<1>6. playing \in Seq(Seq(Unit)) /\ Len(playing) \in Nat /\ Held = Len(playing)
  BY LenProperties DEF OutputType, Held
<1>7. playing' = playing \o filled /\ seen' = Len(playing) + waves
  BY <1>6 DEF AppendSamples
<1>8. /\ playing' \in Seq(Seq(Unit)) /\ Len(playing') = Len(playing) + waves
      /\ \A i \in 1..Len(playing') :
            playing'[i] = IF i <= Len(playing) THEN playing[i] ELSE Wave(i - Len(playing))
  <2> HIDE DEF waves, Wave
  <2>1. \A i \in 1..(Len(playing) + waves) : i > Len(playing) =>
            filled[i - Len(playing)] = Wave(i - Len(playing))
    BY <1>3, <1>6
  <2> HIDE DEF filled
  <2>2. /\ playing \o filled \in Seq(Seq(Unit))
        /\ Len(playing \o filled) = Len(playing) + Len(filled)
        /\ \A i \in 1..(Len(playing) + Len(filled)) : (playing \o filled)[i] =
              IF i <= Len(playing) THEN playing[i] ELSE filled[i - Len(playing)]
    BY <1>5, <1>6, ConcatProperties
  <2> QED BY <1>5, <1>6, <1>7, <2>1, <2>2
<1>9. \A i \in DOMAIN playing' : Len(playing'[i]) = WaveUnits
  <2> HIDE DEF waves, Wave
  <2>1. DOMAIN playing' = 1..Len(playing') /\ DOMAIN playing = 1..Len(playing)
    BY <1>6, <1>8, LenProperties
  <2> QED BY <1>3, <1>4, <1>6, <1>8, <2>1 DEF OutputType
<1>10. seen' \in 0..WaveBufs
  <2> HIDE DEF waves
  <2>1. WaveUnits * Len(playing) + Len(Stream) <= LimitUnits
    <3>1. Len(writing) \in Nat /\ WaveUnits * Len(playing) \in Nat
      BY <1>2, <1>6 DEF OutputType
    <3> QED BY <1>1, <1>6, <3>1, OutputAssumption DEF QueueHasCapacity
  <2>2. Len(playing) + waves <= WaveBufs
    BY <1>2, <1>3, <1>6, <2>1, RingBound, OutputAssumption
  <2> QED BY <1>3, <1>6, <1>7, <2>2, OutputAssumption
<1>11. writing' \in Seq(Unit) /\ Len(writing') < WaveUnits
  <2> DEFINE m == waves * WaveUnits + 1
             n == Len(Stream)
  <2>1. writing' = SubSeq(Stream, m, n)
    BY DEF AppendSamples
  <2> HIDE DEF waves
  <2>2. m \in Int /\ n \in Int /\ m >= 1 /\ n - m + 1 < WaveUnits
    BY <1>2, <1>3
  <2>3. \A j \in m..n : Stream[j] \in Unit
    BY <1>1, <1>2, <2>2, ElementOfSeq
  <2> HIDE DEF m, n
  <2>4. /\ SubSeq(Stream, m, n) \in Seq(Unit)
        /\ Len(SubSeq(Stream, m, n)) = IF m <= n THEN n - m + 1 ELSE 0
    BY <2>2, <2>3, SubSeqProperties
  <2>5. Len(SubSeq(Stream, m, n)) < WaveUnits
    BY <1>2, <2>2, <2>4
  <2> QED BY <2>1, <2>4, <2>5
<1>12. playing' \in Seq(Seq(Unit)) /\ Len(playing') <= seen'
  <2> HIDE DEF waves, Wave, filled
  <2> QED BY <1>3, <1>6, <1>7, <1>8
<1> QED BY <1>9, <1>10, <1>11, <1>12
\* The output thread, the renderer and the game thread's calls keep the output
\* well-typed.
LEMMA OutputStepType ==
  ASSUME OutputType, OutputSteps PROVE OutputType'
<1>1. CASE TakeBlock
  <2>1. CASE queue = <<>>
    BY <1>1, <2>1 DEF TakeBlock, OutputType, ring
  <2>2. CASE queue # <<>>
    <3>1. /\ Head(queue) \in Nat \ {0} /\ Tail(queue) \in Seq(Nat \ {0})
          /\ Len(Tail(queue)) <= MaxQueued
      BY <2>2, HeadTailProperties, LenProperties, OutputAssumption DEF OutputType
    <3> QED BY <1>1, <2>2, <3>1 DEF TakeBlock, OutputType, ring
  <2> QED BY <2>1, <2>2
<1>2. CASE SubmitConverted
  <2>1. CASE ~initialized
    BY <1>2, <2>1 DEF SubmitConverted, OutputType, ring
  <2>2. CASE initialized /\ ~QueueHasCapacity
    <3>1. Held \in 0..WaveBufs /\ Len(playing) <= Held
      BY OutputAssumption, LenProperties DEF Held, OutputType
    <3>2. seen' = Held /\ UNCHANGED <<initialized, pushed, queue, writing, playing>>
          /\ hand' = 0 /\ outThread' = "testing"
      BY <1>2, <2>2 DEF SubmitConverted
    <3> HIDE DEF Held
    <3> QED BY <3>1, <3>2 DEF OutputType
  <2>3. CASE initialized /\ QueueHasCapacity
    <3>1. AppendSamples /\ outThread = "holding"
      BY <1>2, <2>3 DEF SubmitConverted
    <3>2. UNCHANGED <<initialized, pushed, queue>> /\ hand' = 0 /\ outThread' = "testing"
      BY <1>2 DEF SubmitConverted
    <3> QED BY <2>3, <3>1, <3>2, AppendType DEF OutputType
  <2> QED BY <2>1, <2>2, <2>3
<1>3. CASE Render
  <2>1. /\ Tail(playing) \in Seq(Seq(Unit)) /\ Len(Tail(playing)) <= seen
        /\ \A i \in 1..Len(Tail(playing)) : Tail(playing)[i] = playing[i + 1]
        /\ Len(Tail(playing)) = Len(playing) - 1
    BY <1>3, HeadTailProperties, LenProperties, OutputAssumption DEF Render, OutputType
  <2>2. \A i \in DOMAIN Tail(playing) : Len(Tail(playing)[i]) = WaveUnits
    BY <2>1, LenProperties DEF OutputType
  <2> QED BY <1>3, <2>1, <2>2 DEF Render, OutputType
<1> QED BY <1>1, <1>2, <1>3 DEF OutputSteps, OutputThread

LEMMA EmptyRing ==
  /\ <<>> \in Seq(Unit) /\ Len(<<>>) < WaveUnits
  /\ <<>> \in Seq(Seq(Unit)) /\ Len(<<>>) <= 0
  /\ \A i \in DOMAIN <<>> : Len(<<>>[i]) = WaveUnits
  /\ 0 \in 0..WaveBufs
BY OutputAssumption

LEMMA GameOutputType ==
  ASSUME OutputType,
         \/ /\ PushBlock
            /\ UNCHANGED <<initialized, outThread, hand, ring>>
         \/ NotifyOutput /\ UNCHANGED <<initialized, pushed, queue, hand, ring>>
         \/ ApplyGain
         \/ /\ Shutdown \/ \E works \in BOOLEAN : EnsureInitialized(works)
            /\ UNCHANGED <<pushed, queue, outThread, hand>>
  PROVE  OutputType'
<1>1. CASE PushBlock /\ UNCHANGED <<initialized, outThread, hand, ring>>
  <2>1. queue' \in Seq(Nat \ {0}) /\ Len(queue') <= MaxQueued
    <3>1. queue \in Seq(Nat \ {0}) /\ Len(queue) <= MaxQueued /\ pushed + 1 \in Nat \ {0}
      BY DEF OutputType
    <3>2. /\ Append(queue, pushed + 1) \in Seq(Nat \ {0})
          /\ Len(Append(queue, pushed + 1)) = Len(queue) + 1
      BY <3>1, AppendProperties
    <3>3. CASE Len(queue) < MaxQueued
      BY <1>1, <3>1, <3>2, <3>3, LenProperties, OutputAssumption DEF PushBlock, HasRoom
    <3>4. CASE ~(Len(queue) < MaxQueued)
      BY <1>1, <3>1, <3>4 DEF PushBlock, HasRoom
    <3> QED BY <3>3, <3>4
  <2> QED BY <1>1, <2>1 DEF PushBlock, OutputType, ring
<1>2. CASE NotifyOutput /\ UNCHANGED <<initialized, pushed, queue, hand, ring>>
  BY <1>2 DEF NotifyOutput, OutputType, ring
<1>3. CASE ApplyGain
  <2>1. Held \in 0..WaveBufs /\ Len(playing) <= Held
    BY OutputAssumption, LenProperties DEF Held, OutputType
  <2> HIDE DEF Held
  <2> QED BY <1>3, <2>1 DEF ApplyGain, OutputType
<1>4. ASSUME Shutdown \/ \E works \in BOOLEAN : EnsureInitialized(works),
             UNCHANGED <<pushed, queue, outThread, hand>>
      PROVE  OutputType'
  <2>1. initialized' \in BOOLEAN
    BY <1>4, Zenon DEF Shutdown, EnsureInitialized, OutputType
  <2>2. UNCHANGED ring \/ (writing' = <<>> /\ playing' = <<>> /\ seen' = 0)
    BY <1>4 DEF Shutdown, EnsureInitialized
  <2> QED BY <1>4, <2>1, <2>2, EmptyRing DEF OutputType, ring
<1> QED BY <1>1, <1>2, <1>3, <1>4

\* The steps that the output takes part in; in the others it rests.
LEMMA OutputMoves ==
  ASSUME [Next]_vars
  PROVE  \/ OutputNext \/ Push \/ Notify \/ SetMuted
         \/ Ensure \/ AIStartDMA \/ OSInitAudioSystem \/ Initialize \/ Left
         \/ UNCHANGED output
BY DEF output, ring, vars, Next, Steps, Poll, JoinSleeps, JoinDone, WorkerSteps, WorkerTests,
       WorkerMixes, WorkerFinishes, WorkerTells, FrameSteps, AICallback,
       SendListSize, SendListAddress, DispatchToWorker, ListTaken, WakeWorker,
       MixInline, ProcessAux, ServiceDeferredCallbacks, TickSteps, ClaimBlock,
       NextBlock, CallSteps, TaskAdded, Stop, Restart, Calls,
       AIInitDMA, AIRegisterDMACallback, DSPAssertTask, DSPAddTask,
       OSStopAudioSystem, SetMixWorkerEnabled, RuntimeLeave

\* What the output does in every step.
LEMMA OutputNextType ==
  ASSUME OutputType, [Next]_vars PROVE OutputType'
<1> USE DEF output, ring
<1>1. CASE OutputNext
  BY <1>1, OutputStepType DEF OutputNext
<1>2. CASE Push \/ Notify \/ SetMuted
  <2>1. CASE Push
    BY <2>1, GameOutputType DEF Push, OutputType
  <2>2. CASE Notify \/ SetMuted
    BY <2>2, GameOutputType DEF Notify, SetMuted
  <2> QED BY <1>2, <2>1, <2>2
<1>3. CASE Ensure \/ AIStartDMA \/ OSInitAudioSystem \/ Initialize \/ Left
  BY <1>3, GameOutputType DEF Ensure, AIStartDMA, OSInitAudioSystem, Initialize, Left
<1>4. CASE UNCHANGED output
  BY <1>4 DEF OutputType
<1>5. \/ OutputNext \/ Push \/ Notify \/ SetMuted
      \/ Ensure \/ AIStartDMA \/ OSInitAudioSystem \/ Initialize \/ Left
      \/ UNCHANGED output
  BY OutputMoves
<1> QED BY <1>1, <1>2, <1>3, <1>4, <1>5

LEMMA OutputAlways == Spec => []OutputType
<1>1. Init => OutputType
  <2> SUFFICES ASSUME Init PROVE OutputType
    OBVIOUS
  <2>1. queue \in Seq(Nat \ {0}) /\ Len(queue) <= MaxQueued
    BY OutputAssumption DEF Init, OutputInit
  <2>2. writing \in Seq(Unit) /\ Len(writing) < WaveUnits
    BY EmptyRing DEF Init, OutputInit
  <2>3. /\ playing \in Seq(Seq(Unit)) /\ Len(playing) <= seen
        /\ \A i \in DOMAIN playing : Len(playing[i]) = WaveUnits
        /\ seen \in 0..WaveBufs
    BY EmptyRing DEF Init, OutputInit
  <2> QED BY <2>1, <2>2, <2>3 DEF Init, OutputInit, OutputType
<1> QED BY <1>1, OutputNextType, PTL DEF Spec

\* The renderer is never given a buffer it has not played yet, the buffers it is
\* given are full, and the block that is taken is taken whole (AppendSamplesLocked
\* and QueueHasCapacityLocked).
RingHolds ==
    /\ Len(playing) <= WaveBufs
    /\ \A i \in DOMAIN playing : Len(playing[i]) = WaveUnits
    /\ QueueHasCapacity => Fits = BlockUnits
THEOREM RingNeverOverruns == Spec => []RingHolds
<1>1. OutputType => RingHolds
  <2>1. OutputType => Len(playing) <= WaveBufs
    BY LenProperties, OutputAssumption DEF OutputType
  <2> QED BY <2>1, WholeBlock DEF OutputType, RingHolds
<1> QED BY <1>1, OutputAlways, PTL
LEMMA PlaceNext == PlaceType /\ [Next]_vars => PlaceType'
<1> SUFFICES ASSUME PlaceType, [Next]_vars PROVE PlaceType'
  OBVIOUS
<1> USE AudioAssumption DEF PlaceType, GuestPoints, AfterJoin
<1>1. CASE UNCHANGED vars
  BY <1>1 DEF vars, guest, tick, ax
<1>2. calls' \in 0..MaxCalls
  BY DEF vars, Next
<1>3. ASSUME Poll PROVE PlaceType'
  <2>1. owed' \in Nat
    BY <1>3 DEF Poll, Least
  <2> QED BY <1>2, <1>3, <2>1 DEF Poll, guest, ax
<1>4. CASE JoinSleeps \/ JoinDone
  BY <1>2, <1>4 DEF JoinSleeps, JoinDone, Joining, guest, tick, ax
<1>5. CASE WorkerSteps \/ OutputNext
  BY <1>2, <1>5 DEF WorkerSteps, WorkerTests, WorkerMixes, WorkerFinishes, WorkerTells,
                    OutputNext, guest, tick, ax
<1>6. CASE AICallback \/ SendListSize \/ SendListAddress \/ ServiceDeferredCallbacks
  BY <1>2, <1>6 DEF AICallback, SendListSize, SendListAddress, ServiceDeferredCallbacks,
                    guest, tick, ax
<1>7. CASE DispatchToWorker \/ MixInline
  BY <1>2, <1>7 DEF DispatchToWorker, MixInline, ListTaken, guest, tick, ax
<1>8. CASE WakeWorker \/ ProcessAux
  BY <1>2, <1>8 DEF WakeWorker, ProcessAux, guest, tick, ax
<1>9. CASE ClaimBlock \/ NextBlock
  BY <1>2, <1>9 DEF ClaimBlock, NextBlock, TickFull, EndTick, guest, ax
<1>10. CASE Ensure \/ Push \/ Notify
  BY <1>2, <1>10 DEF Ensure, Push, Notify, AfterPush, EndTick, guest, tick, ax
<1>11. CASE TaskAdded \/ Initialize \/ Stop \/ Left
  BY <1>2, <1>11 DEF TaskAdded, Initialize, Stop, Left, guest, tick, ax
<1>12. CASE AIInitDMA \/ AIRegisterDMACallback \/ AIStartDMA \/ DSPAssertTask
  BY <1>2, <1>12 DEF AIInitDMA, AIRegisterDMACallback, AIStartDMA, DSPAssertTask,
                     guest, tick, ax
<1>13. CASE DSPAddTask \/ OSInitAudioSystem \/ OSStopAudioSystem
  BY <1>2, <1>13 DEF DSPAddTask, OSInitAudioSystem, OSStopAudioSystem, GuestCode,
                     guest, tick, ax
<1>14. CASE SetMixWorkerEnabled \/ SetMuted \/ RuntimeLeave
  BY <1>2, <1>14 DEF SetMixWorkerEnabled, SetMuted, RuntimeLeave, guest, tick, ax
<1> QED BY <1>1, <1>3, <1>4, <1>5, <1>6, <1>7, <1>8, <1>9, <1>10, <1>11, <1>12, <1>13, <1>14
        DEF Next, Steps, Calls, FrameSteps, TickSteps, CallSteps, Restart
LEMMA SwitchNext == SwitchType /\ [Next]_vars => SwitchType'
<1> SUFFICES ASSUME SwitchType, [Next]_vars PROVE SwitchType'
  OBVIOUS
<1> USE DEF SwitchType
<1>1. CASE UNCHANGED vars
  BY <1>1 DEF vars, guest, ax, thread, mix
<1>2. CASE Poll \/ ClaimBlock \/ NextBlock \/ Ensure \/ Notify
  BY <1>2 DEF Poll, ClaimBlock, NextBlock, Ensure, Notify, guest, ax, thread, mix
<1>3. CASE Push
  BY <1>3 DEF Push, ax, thread, mix
<1>4. CASE JoinSleeps \/ JoinDone
  BY <1>4 DEF JoinSleeps, JoinDone, guest, ax, thread, mix
<1>5. CASE WorkerSteps \/ OutputNext
  BY <1>5 DEF WorkerSteps, WorkerTests, WorkerMixes, WorkerFinishes, WorkerTells, Told,
              OutputNext, guest, ax, thread, mix
<1>6. CASE AICallback \/ SendListSize \/ SendListAddress \/ ServiceDeferredCallbacks
  BY <1>6 DEF AICallback, SendListSize, SendListAddress, ServiceDeferredCallbacks,
              guest, ax, thread, mix
<1>7. CASE DispatchToWorker \/ MixInline
  BY <1>7 DEF DispatchToWorker, MixInline, ListTaken, guest, ax, thread, mix
<1>8. CASE WakeWorker \/ ProcessAux
  BY <1>8 DEF WakeWorker, ProcessAux, guest, ax, thread, mix
<1>9. CASE TaskAdded \/ Initialize \/ Stop \/ Left
  BY <1>9 DEF TaskAdded, Initialize, Stop, Left, guest, ax, thread, mix
<1>10. CASE AIInitDMA \/ AIRegisterDMACallback \/ AIStartDMA \/ DSPAssertTask
  BY <1>10 DEF AIInitDMA, AIRegisterDMACallback, AIStartDMA, DSPAssertTask,
               guest, ax, thread, mix
<1>11. CASE DSPAddTask \/ OSInitAudioSystem \/ OSStopAudioSystem
  BY <1>11 DEF DSPAddTask, OSInitAudioSystem, OSStopAudioSystem, guest, ax, thread, mix
<1>12. CASE SetMixWorkerEnabled \/ SetMuted \/ RuntimeLeave
  BY <1>12 DEF SetMixWorkerEnabled, SetMuted, RuntimeLeave, guest, ax, thread, mix
<1> QED BY <1>1, <1>2, <1>3, <1>4, <1>5, <1>6, <1>7, <1>8, <1>9, <1>10, <1>11, <1>12
        DEF Next, Steps, Calls, FrameSteps, TickSteps, CallSteps, Restart
LEMMA AuxTypeNext == AuxType /\ [Next]_vars => AuxType'
<1> SUFFICES ASSUME AuxType, [Next]_vars PROVE AuxType'
  OBVIOUS
<1> DEFINE Changes == \/ JoinDone \/ WorkerMixes \/ DispatchToWorker \/ MixInline
                      \/ ProcessAux \/ Initialize
<1>1. CASE ~Changes
  <2>1. UNCHANGED <<list, auxIn, shadow, effects, mailed, added, auxOut>>
    BY <1>1 DEF vars, mix, aux, Next, Steps, Poll, JoinSleeps, WorkerSteps, WorkerTests,
           WorkerFinishes, WorkerTells, FrameSteps, AICallback, SendListSize,
           SendListAddress, WakeWorker, ServiceDeferredCallbacks, TickSteps, ClaimBlock,
           Ensure, Push, Notify, NextBlock, CallSteps, TaskAdded, Stop, Left, Restart,
           OutputNext, Calls, AIInitDMA, AIRegisterDMACallback, AIStartDMA,
           DSPAssertTask, DSPAddTask, OSInitAudioSystem, OSStopAudioSystem,
           SetMixWorkerEnabled, SetMuted, RuntimeLeave
  <2> QED BY <2>1 DEF AuxType
<1>2. list \in Nat /\ {auxIn, shadow, effects, mailed, added} \subseteq 0..list
      /\ auxOut \in [list : 0..list, taken : BOOLEAN]
  BY DEF AuxType
<1>3. auxOut.list \in 0..list /\ 0 \in 0..list /\ list \in 0..list
  BY <1>2
<1>4. CASE JoinDone
  <2>1. auxOut' \in [list : 0..list, taken : BOOLEAN]
    BY <1>2, <1>4 DEF JoinDone, PublishAuxOutputs
  <2> QED BY <1>2, <1>3, <1>4, <2>1 DEF JoinDone, PublishAuxOutputs, PublishedShadow, AuxType
<1>5. CASE WorkerMixes
  BY <1>2, <1>3, <1>5 DEF WorkerMixes, AddedBack, aux, AuxType
<1>6. CASE ProcessAux
  <2>1. auxOut' \in [list : 0..list, taken : BOOLEAN]
    BY <1>2, <1>6 DEF ProcessAux
  <2> QED BY <1>2, <1>3, <1>6, <2>1 DEF ProcessAux, mix, AuxType
<1>7. CASE Initialize
  BY <1>2, <1>3, <1>7 DEF Initialize, aux, AuxType
<1>8. CASE DispatchToWorker \/ MixInline
  <2>1. list' = list + 1 /\ mailed' = effects /\ effects' = effects
        /\ auxIn' \in {auxIn, effects} /\ added' \in {added, effects}
        /\ shadow' \in {shadow, 0}
    BY <1>8 DEF DispatchToWorker, MixInline, ListTaken
  <2>2. list' \in Nat /\ 0..list \subseteq 0..list' /\ list' \in 0..list'
    BY <1>2, <2>1
  <2>3. {auxIn', shadow', effects', mailed', added'} \subseteq 0..list'
    BY <1>2, <1>3, <2>1, <2>2
  <2>4. auxOut' \in {auxOut, [list |-> list', taken |-> FALSE]}
    BY <1>8 DEF DispatchToWorker, MixInline
  <2>5. auxOut' \in [list : 0..list', taken : BOOLEAN]
    <3>1. CASE auxOut' = auxOut
      BY <1>2, <2>2, <3>1
    <3>2. CASE auxOut' = [list |-> list', taken |-> FALSE]
      BY <2>2, <3>2
    <3> QED BY <2>4, <3>1, <3>2
  <2> QED BY <2>2, <2>3, <2>5 DEF AuxType
<1> QED BY <1>1, <1>4, <1>5, <1>6, <1>7, <1>8

\* Every part of the sound path keeps its range: the game thread's place, the
\* switches, the worker, the aux buffers and the output.
THEOREM AudioTypeCorrect == Spec => []TypeOK
<1>1. Init => PlaceType /\ AuxType
  <2> SUFFICES ASSUME Init PROVE PlaceType /\ AuxType
    OBVIOUS
  <2>1. PlaceType
    BY AudioAssumption DEF Init, PlaceType, GuestPoints
  <2>2. auxOut \in [list : 0..0, taken : BOOLEAN] /\ list = 0
    BY DEF Init
  <2>3. AuxType
    BY <2>2 DEF Init, AuxType
  <2> QED BY <2>1, <2>3
<1>2. Init => SwitchType
  BY DEF Init, SwitchType
<1>3. MixInv => WorkerType
  BY DEF MixInv, WorkerStands, WorkerType
<1> QED BY <1>1, <1>2, <1>3, PlaceNext, SwitchNext, AuxTypeNext, MixAlways,
           OutputAlways, PTL DEF Spec, TypeOK

(***************************************************************************)
(* The blocks of the sound line.                                           *)
(***************************************************************************)

\* A set of naturals with 0 and with the successor of each of its elements.
LEMMA SetInduction ==
  ASSUME NEW S \in SUBSET Nat, 0 \in S, \A n \in S : n + 1 \in S
  PROVE  S = Nat
<1> SUFFICES ASSUME NEW n \in Nat, n \notin S PROVE FALSE
  OBVIOUS
<1> DEFINE A == (0 .. n) \cap S
           f == [x \in A |-> x + 1]
<1>1. IsFiniteSet(0 .. n) /\ A \in SUBSET (0 .. n)
  BY FS_Interval
<1>2. IsFiniteSet(A) /\ 0 \in A
  BY <1>1, FS_Subset
<1>3. f \in Injection(A, A)
  BY DEF Injection, IsInjective
<1>4. f \in Surjection(A, A)
  BY <1>2, <1>3, FS_Injection
<1>5. PICK x \in A : f[x] = 0
  BY <1>2, <1>4 DEF Surjection
<1> QED BY <1>5

\* The recursion of Chain has a solution: for each n, a function on 0..n obeys it.
LEMMA ChainDef ==
  ASSUME NEW T, NEW parts \in Seq(Seq(T))
  PROVE  \E join : /\ join[0] = <<>>
                   /\ \A n \in 0..(Len(parts) - 1) : join[n + 1] = join[n] \o parts[n + 1]
                   /\ Chain(parts) = join[Len(parts)]
<1> DEFINE Body(j, i) == IF i = 0 THEN <<>> ELSE j[i - 1] \o parts[i]
           N == {n \in Nat : \E j : j = [i \in 0..n |-> Body(j, i)]}
<1>1. 0 \in N
  <2> DEFINE j == [i \in 0..0 |-> <<>>]
  <2>1. j = [i \in 0..0 |-> Body(j, i)]
    OBVIOUS
  <2> QED BY <2>1
<1>2. ASSUME NEW n \in N PROVE n + 1 \in N
  <2>1. PICK j : j = [i \in 0..n |-> Body(j, i)]
    OBVIOUS
  <2> DEFINE more == [i \in 0..(n + 1) |-> IF i <= n THEN j[i] ELSE Body(j, i)]
  <2>2. more = [i \in 0..(n + 1) |-> Body(more, i)]
    <3>1. ASSUME NEW i \in 0..(n + 1) PROVE more[i] = Body(more, i)
      <4>1. more[i] = Body(j, i)
        <5>1. CASE i = n + 1
          BY <5>1
        <5>2. CASE i \in 0..n
          BY <5>2, <2>1
        <5> QED BY <5>1, <5>2
      <4>2. i # 0 => i - 1 \in 0..(n + 1) /\ i - 1 <= n
        OBVIOUS
      <4>3. i # 0 => more[i - 1] = j[i - 1]
        BY <4>2
      <4> QED BY <4>1, <4>3
    <3> QED BY <3>1
  <2> QED
    <3> HIDE DEF more, Body
    <3> QED BY <2>2
<1>3. N = Nat
  BY <1>1, <1>2, SetInduction
<1>4. Len(parts) \in Nat
  OBVIOUS
<1>5. PICK j : j = [i \in 0..Len(parts) |-> Body(j, i)]
  BY <1>3, <1>4
<1> DEFINE c == CHOOSE f : f = [i \in 0..Len(parts) |-> Body(f, i)]
<1>6. c = [i \in 0..Len(parts) |-> Body(c, i)]
  BY <1>5
<1>7. Chain(parts) = c[Len(parts)]
  BY DEF Chain
<1> QED
  <2> HIDE DEF c
  <2>1. \A n \in 0..Len(parts) : c[n] = Body(c, n)
    BY <1>6
  <2>2. c[0] = <<>>
    <3>1. 0 \in 0..Len(parts)
      BY <1>4
    <3>2. c[0] = Body(c, 0)
      BY <2>1, <3>1
    <3> QED BY <3>2
  <2>3. ASSUME NEW n \in 0..(Len(parts) - 1) PROVE c[n + 1] = c[n] \o parts[n + 1]
    <3>1. n + 1 \in 0..Len(parts) /\ n + 1 # 0 /\ n + 1 - 1 = n
      BY <1>4
    <3>2. \A k \in 0..Len(parts) : k # 0 => c[k] = c[k - 1] \o parts[k]
      BY <2>1
    <3> HIDE DEF Body
    <3>3. PICK k \in 0..Len(parts) : k = n + 1 /\ k # 0 /\ k - 1 = n
      BY ONLY <3>1
    <3>4. c[k] = c[k - 1] \o parts[k]
      BY ONLY <3>2, <3>3
    <3>5. c[k] = c[n] \o parts[k]
      BY ONLY <3>3, <3>4
    <3> QED BY ONLY <3>3, <3>5
  <2> QED BY <2>2, <2>3, <1>7

\* A function that obeys the recursion: its value at n joins the first n parts.
Joins(join, parts) ==
    /\ join[0] = <<>>
    /\ \A n \in 0..(Len(parts) - 1) : join[n + 1] = join[n] \o parts[n + 1]

\* Its values are sequences of what the parts are made of.
LEMMA JoinsType ==
  ASSUME NEW T, NEW parts \in Seq(Seq(T)), NEW join, Joins(join, parts)
  PROVE  \A n \in 0..Len(parts) : join[n] \in Seq(T)
<1> DEFINE N == {n \in Nat : n <= Len(parts) => join[n] \in Seq(T)}
<1>1. 0 \in N
  <2>1. join[0] \in Seq(T)
    BY DEF Joins
  <2> QED BY <2>1
<1>2. ASSUME NEW n \in N PROVE n + 1 \in N
  <2> SUFFICES ASSUME n + 1 <= Len(parts) PROVE join[n + 1] \in Seq(T)
    OBVIOUS
  <2>1. n \in Nat /\ n \in 0..(Len(parts) - 1) /\ join[n] \in Seq(T) /\ parts[n + 1] \in Seq(T)
    OBVIOUS
  <2>2. join[n + 1] = join[n] \o parts[n + 1]
    BY <2>1 DEF Joins
  <2> QED BY <2>1, <2>2
<1>3. N = Nat
  BY <1>1, <1>2, SetInduction
<1> QED BY <1>3

\* Two functions that obey it on parts with the same beginning agree there.
LEMMA JoinsAgree ==
  ASSUME NEW a, NEW b, NEW join, NEW other, Joins(join, a), Joins(other, b),
         NEW m \in Nat, m <= Len(a), m <= Len(b), Len(a) \in Nat, Len(b) \in Nat,
         \A i \in 1..m : a[i] = b[i]
  PROVE  join[m] = other[m]
<1> DEFINE N == {n \in Nat : n <= m => join[n] = other[n]}
<1>1. 0 \in N
  BY DEF Joins
<1>2. ASSUME NEW n \in N PROVE n + 1 \in N
  <2> SUFFICES ASSUME n + 1 <= m PROVE join[n + 1] = other[n + 1]
    OBVIOUS
  <2>1. /\ n \in 0..(Len(a) - 1) /\ n \in 0..(Len(b) - 1)
        /\ join[n] = other[n] /\ a[n + 1] = b[n + 1]
    OBVIOUS
  <2>2. join[n + 1] = join[n] \o a[n + 1]
    BY <2>1 DEF Joins
  <2>3. other[n + 1] = other[n] \o b[n + 1]
    BY <2>1 DEF Joins
  <2> QED BY <2>1, <2>2, <2>3
<1>3. N = Nat
  BY <1>1, <1>2, SetInduction
<1> QED BY <1>3

\* The chain of parts is a sequence of what they are made of.
LEMMA ChainType ==
  ASSUME NEW T, NEW parts \in Seq(Seq(T))
  PROVE  Chain(parts) \in Seq(T)
<1>1. PICK join : Joins(join, parts) /\ Chain(parts) = join[Len(parts)]
  BY ChainDef DEF Joins
<1> QED BY <1>1, JoinsType

\* No parts.
LEMMA ChainEmpty ==
  Chain(<<>>) = <<>>
<1>1. <<>> \in Seq(Seq({}))  /\ Len(<<>>) = 0
  OBVIOUS
<1> QED BY <1>1, ChainDef

\* One part more.
LEMMA ChainAppend ==
  ASSUME NEW T, NEW parts \in Seq(Seq(T)), NEW s \in Seq(T)
  PROVE  Chain(Append(parts, s)) = Chain(parts) \o s
<1> DEFINE more == Append(parts, s)
<1>1. /\ more \in Seq(Seq(T)) /\ Len(parts) \in Nat /\ Len(more) = Len(parts) + 1
      /\ \A i \in 1..Len(parts) : more[i] = parts[i]
      /\ more[Len(parts) + 1] = s
  OBVIOUS
<1> HIDE DEF more
<1>2. PICK join : Joins(join, parts) /\ Chain(parts) = join[Len(parts)]
  BY ChainDef DEF Joins
<1>3. PICK longer : Joins(longer, more) /\ Chain(more) = longer[Len(more)]
  BY <1>1, ChainDef DEF Joins
<1>4. join[Len(parts)] = longer[Len(parts)]
  <2>1. Len(parts) <= Len(parts) /\ Len(parts) <= Len(more) /\ Len(more) \in Nat
    BY <1>1
  <2>2. \A i \in 1..Len(parts) : parts[i] = more[i]
    BY <1>1
  <2>3. Len(parts) \in Nat /\ Joins(join, parts) /\ Joins(longer, more)
    BY <1>1, <1>2, <1>3
  <2> QED BY ONLY <2>1, <2>2, <2>3, JoinsAgree
<1>5. longer[Len(parts) + 1] = longer[Len(parts)] \o s
  <2>1. Len(parts) \in 0..(Len(more) - 1)
    BY <1>1
  <2> QED BY <1>1, <1>3, <2>1 DEF Joins
<1> QED BY <1>1, <1>2, <1>3, <1>4, <1>5 DEF more

\* Parts of one length.
LEMMA ChainLen ==
  ASSUME NEW T, NEW parts \in Seq(Seq(T)), NEW w \in Nat,
         \A i \in 1..Len(parts) : Len(parts[i]) = w
  PROVE  Len(Chain(parts)) = w * Len(parts)
<1>1. PICK join : Joins(join, parts) /\ Chain(parts) = join[Len(parts)]
  BY ChainDef DEF Joins
<1>2. \A n \in 0..Len(parts) : join[n] \in Seq(T)
  BY <1>1, JoinsType
<1> DEFINE N == {n \in Nat : n <= Len(parts) => Len(join[n]) = w * n}
<1>3. 0 \in N
  <2>1. join[0] = <<>> /\ Len(<<>>) = 0 /\ w * 0 = 0
    BY <1>1 DEF Joins
  <2>2. Len(join[0]) = w * 0
    BY ONLY <2>1
  <2> QED BY <2>2
<1>4. ASSUME NEW n \in N PROVE n + 1 \in N
  <2> SUFFICES ASSUME n + 1 <= Len(parts) PROVE Len(join[n + 1]) = w * (n + 1)
    OBVIOUS
  <2>1. n \in Nat /\ n \in 0..(Len(parts) - 1) /\ n \in 0..Len(parts) /\ n + 1 \in 1..Len(parts)
    OBVIOUS
  <2>2. join[n + 1] = join[n] \o parts[n + 1] /\ join[n] \in Seq(T) /\ parts[n + 1] \in Seq(T)
    <3>1. join[n + 1] = join[n] \o parts[n + 1]
      BY <1>1, <2>1 DEF Joins
    <3>2. join[n] \in Seq(T)
      BY <1>2, <2>1
    <3>3. parts[n + 1] \in Seq(T)
      BY <2>1
    <3> QED BY <3>1, <3>2, <3>3
  <2>3. Len(join[n]) = w * n /\ Len(parts[n + 1]) = w
    BY <2>1
  <2>4. Len(join[n + 1]) = Len(join[n]) + Len(parts[n + 1])
    BY ONLY <2>2
  <2>5. w * (n + 1) = w * n + w
    BY <2>1
  <2> QED BY ONLY <2>3, <2>4, <2>5
<1>5. N = Nat
  BY <1>3, <1>4, SetInduction
<1>6. Len(parts) \in N /\ Len(parts) <= Len(parts)
  BY <1>5
<1> QED BY <1>1, <1>6

\* Concatenation, with its parentheses moved.
LEMMA ConcatMoved ==
  ASSUME NEW T
  PROVE  \A k, l, m \in Seq(T) : (k \o l) \o m = k \o (l \o m)
<1> TAKE k, l, m \in Seq(T)
<1>1. k \o l \in Seq(T) /\ l \o m \in Seq(T)
  OBVIOUS
<1>2. (k \o l) \o m \in Seq(T) /\ k \o (l \o m) \in Seq(T)
  BY <1>1
<1>3. Len((k \o l) \o m) = Len(k \o (l \o m))
  BY <1>1
<1>4. ASSUME NEW i \in 1..Len((k \o l) \o m)
      PROVE  ((k \o l) \o m)[i] = (k \o (l \o m))[i]
  BY <1>1
<1> QED BY <1>2, <1>3, <1>4, SeqEqual

\* One chain behind another.
LEMMA ChainConcat ==
  ASSUME NEW T, NEW a \in Seq(Seq(T)), NEW b \in Seq(Seq(T))
  PROVE  Chain(a \o b) = Chain(a) \o Chain(b)
<1> DEFINE c == a \o b
<1>1. /\ c \in Seq(Seq(T)) /\ Len(a) \in Nat /\ Len(b) \in Nat /\ Len(c) = Len(a) + Len(b)
      /\ \A i \in 1..Len(a) : a[i] = c[i]
      /\ \A i \in 1..Len(b) : c[Len(a) + i] = b[i]
  OBVIOUS
<1> HIDE DEF c
<1>2. PICK ja : Joins(ja, a) /\ Chain(a) = ja[Len(a)]
  BY ChainDef DEF Joins
<1>3. PICK jb : Joins(jb, b) /\ Chain(b) = jb[Len(b)]
  BY ChainDef DEF Joins
<1>4. PICK jc : Joins(jc, c) /\ Chain(c) = jc[Len(c)]
  BY <1>1, ChainDef DEF Joins
<1>5. ja[Len(a)] = jc[Len(a)]
  <2>0. Len(a) \in Nat /\ Len(c) \in Nat /\ Len(a) <= Len(c)
    BY <1>1
  <2>1. PICK m \in Nat : m = Len(a) /\ m <= Len(a) /\ m <= Len(c)
    BY ONLY <2>0
  <2>2. Len(a) \in Nat /\ Len(c) \in Nat /\ \A i \in 1..m : a[i] = c[i]
    BY <1>1, <2>1
  <2>3. Joins(ja, a) /\ Joins(jc, c)
    BY <1>2, <1>4
  <2>4. ja[m] = jc[m]
    BY ONLY m \in Nat, <2>1, <2>2, <2>3, JoinsAgree
  <2> QED BY <2>1, <2>4
<1>6. /\ \A n \in 0..Len(a) : ja[n] \in Seq(T)
      /\ \A n \in 0..Len(b) : jb[n] \in Seq(T)
  BY <1>2, <1>3, JoinsType
<1> DEFINE Good(n) == jc[Len(a) + n] = ja[Len(a)] \o jb[n]
           N == {n \in Nat : n <= Len(b) => Good(n)}
<1>7. 0 \in N
  <2>1. jb[0] = <<>> /\ ja[Len(a)] \in Seq(T) /\ Len(a) + 0 = Len(a)
    BY <1>1, <1>3, <1>6 DEF Joins
  <2>2. ja[Len(a)] \o <<>> = ja[Len(a)]
    BY <2>1
  <2>3. Good(0)
    BY ONLY <2>1, <2>2, <1>5
  <2> HIDE DEF Good
  <2> QED BY <2>3
<1>8. ASSUME NEW n \in N PROVE n + 1 \in N
  <2>0. n \in Nat /\ (n <= Len(b) => Good(n))
    <3> HIDE DEF Good
    <3> QED OBVIOUS
  <2>. SUFFICES ASSUME n + 1 <= Len(b) PROVE Good(n + 1)
    <3> HIDE DEF Good
    <3> QED BY <2>0
  <2>1. /\ n \in Nat /\ n \in 0..(Len(b) - 1) /\ n \in 0..Len(b) /\ n + 1 \in 1..Len(b)
        /\ Len(a) + n \in 0..(Len(c) - 1) /\ Len(a) + (n + 1) = (Len(a) + n) + 1
        /\ Len(a) \in 0..Len(a)
    BY <1>1, <2>0
  <2>2. jb[n + 1] = jb[n] \o b[n + 1]
    BY <1>3, <2>1 DEF Joins
  <2>3. jc[(Len(a) + n) + 1] = jc[Len(a) + n] \o c[(Len(a) + n) + 1]
    BY <1>4, <2>1 DEF Joins
  <2>4. c[Len(a) + (n + 1)] = b[n + 1]
    <3>1. \A i \in 1..Len(b) : c[Len(a) + i] = b[i]
      BY <1>1
    <3> QED BY ONLY <3>1, <2>1
  <2>5. jc[Len(a) + n] = ja[Len(a)] \o jb[n]
    <3> HIDE DEF Good
    <3>1. n <= Len(b)
      BY <1>1, <2>0
    <3>2. Good(n)
      BY <3>1, <2>0
    <3> QED BY <3>2 DEF Good
  <2>6. jc[Len(a) + (n + 1)] = (ja[Len(a)] \o jb[n]) \o b[n + 1]
    BY ONLY <2>1, <2>3, <2>4, <2>5
  <2>7. ja[Len(a)] \in Seq(T) /\ jb[n] \in Seq(T) /\ b[n + 1] \in Seq(T)
    <3>1. ja[Len(a)] \in Seq(T) /\ jb[n] \in Seq(T)
      BY ONLY <1>6, <2>1
    <3>2. b[n + 1] \in Seq(T)
      BY <2>1
    <3> QED BY <3>1, <3>2
  <2>8. \A k, l, m \in Seq(T) : (k \o l) \o m = k \o (l \o m)
    BY ConcatMoved
  <2>9. (ja[Len(a)] \o jb[n]) \o b[n + 1] = ja[Len(a)] \o (jb[n] \o b[n + 1])
    BY ONLY <2>7, <2>8
  <2> QED BY ONLY <2>2, <2>6, <2>9
<1>9. N = Nat
  <2> HIDE DEF Good
  <2> QED BY <1>7, <1>8, SetInduction
<1>10. jc[Len(a) + Len(b)] = ja[Len(a)] \o jb[Len(b)]
  <2>1. Good(Len(b))
    <3> HIDE DEF Good
    <3>1. \A n \in Nat : n <= Len(b) => Good(n)
      BY <1>9
    <3>2. Len(b) \in Nat /\ Len(b) <= Len(b)
      BY <1>1
    <3> QED BY ONLY <3>1, <3>2
  <2> QED BY ONLY <2>1
<1> QED BY <1>1, <1>2, <1>3, <1>4, <1>10 DEF c

\* A chain of one, and the first part of a chain.
LEMMA ChainHead ==
  ASSUME NEW T, NEW parts \in Seq(Seq(T)), parts # <<>>
  PROVE  Chain(parts) = Head(parts) \o Chain(Tail(parts))
<1> DEFINE one == <<Head(parts)>>
<1>1. /\ Head(parts) \in Seq(T) /\ Tail(parts) \in Seq(Seq(T)) /\ one \in Seq(Seq(T))
      /\ one \o Tail(parts) = parts
      /\ one = Append(<<>>, Head(parts)) /\ <<>> \in Seq(Seq(T))
  <2>1. Head(parts) \in Seq(T) /\ Tail(parts) \in Seq(Seq(T)) /\ one \in Seq(Seq(T))
    OBVIOUS
  <2>2. one \o Tail(parts) = parts
    OBVIOUS
  <2> QED BY <2>1, <2>2
<1>2. Chain(one) = <<>> \o Head(parts)
  BY <1>1, ChainAppend, ChainEmpty
<1>3. <<>> \o Head(parts) = Head(parts)
  BY <1>1
<1> HIDE DEF one
<1>4. Chain(one \o Tail(parts)) = Chain(one) \o Chain(Tail(parts))
  BY <1>1, ChainConcat
<1> QED BY <1>1, <1>2, <1>3, <1>4

\* A sequence cut into n parts of one length.
LEMMA ChainCut ==
  ASSUME NEW T, NEW s \in Seq(T), NEW w \in Nat \ {0}, NEW n \in Nat, n * w <= Len(s)
  PROVE  LET parts == [i \in 1..n |-> SubSeq(s, (i - 1) * w + 1, i * w)]
         IN  parts \in Seq(Seq(T)) /\ Chain(parts) = SubSeq(s, 1, n * w)
<1> DEFINE Part(i) == SubSeq(s, (i - 1) * w + 1, i * w)
           parts == [i \in 1..n |-> Part(i)]
<1>0. Len(s) \in Nat /\ n * w \in Nat
  OBVIOUS
<1>1. \A i \in 1..n : /\ (i - 1) * w \in Nat /\ i * w \in Nat /\ i * w = (i - 1) * w + w
                      /\ i * w <= Len(s)
  <2> TAKE i \in 1..n
  <2>1. (i - 1) * w \in Nat /\ i * w \in Nat /\ i * w = (i - 1) * w + w /\ i * w <= n * w
    BY BufferPlace
  <2> QED BY <1>0, <2>1
<1>2. \A i \in 1..n : Part(i) \in Seq(T)
  <2> TAKE i \in 1..n
  <2>1. PICK x, y \in Nat : x = (i - 1) * w /\ y = i * w /\ y = x + w /\ y <= Len(s)
    BY <1>1
  <2>2. SubSeq(s, x + 1, y) \in Seq(T)
    <3>1. \A j \in (x + 1)..y : s[j] \in T
      BY <1>0, <2>1, ElementOfSeq
    <3>2. x + 1 \in Int /\ y \in Int
      OBVIOUS
    <3> QED BY <3>1, <3>2, SubSeqProperties
  <2> QED BY <2>1, <2>2
<1> HIDE DEF Part
<1>3. parts \in Seq(Seq(T)) /\ Len(parts) = n /\ \A i \in 1..n : parts[i] = Part(i)
  BY <1>2
<1> HIDE DEF parts
<1>4. PICK join : Joins(join, parts) /\ Chain(parts) = join[Len(parts)]
  BY <1>3, ChainDef DEF Joins
<1> DEFINE N == {m \in Nat : m <= n => join[m] = SubSeq(s, 1, m * w)}
<1>5. 0 \in N
  <2>1. join[0] = <<>> /\ 0 * w = 0
    BY <1>4 DEF Joins
  <2>2. SubSeq(s, 1, 0) = <<>>
    BY SubSeqEmpty
  <2> QED BY <2>1, <2>2
<1>6. ASSUME NEW m \in N PROVE m + 1 \in N
  <2> SUFFICES ASSUME m + 1 <= n PROVE join[m + 1] = SubSeq(s, 1, (m + 1) * w)
    OBVIOUS
  <2>1. m \in Nat /\ m \in 0..(n - 1) /\ m + 1 \in 1..n /\ (m + 1) - 1 = m
    OBVIOUS
  <2>2. join[m + 1] = join[m] \o parts[m + 1]
    BY <1>3, <1>4, <2>1 DEF Joins
  <2>3. /\ m * w \in Nat /\ (m + 1) * w \in Nat /\ (m + 1) * w = m * w + w
        /\ (m + 1) * w <= Len(s)
    BY <1>1, <2>1
  <2>4. parts[m + 1] = SubSeq(s, m * w + 1, (m + 1) * w)
    BY <1>3, <2>1 DEF Part
  <2>5. join[m] = SubSeq(s, 1, m * w)
    BY <2>1
  <2>6. PICK x, y \in Nat : x = m * w /\ y = (m + 1) * w /\ x <= y /\ y <= Len(s)
    BY <2>3
  <2>7. SubSeq(s, 1, x) \o SubSeq(s, x + 1, y) = SubSeq(s, 1, y)
    BY <1>0, <2>6, ConcatAdjacentSubSeq
  <2> QED BY ONLY <2>2, <2>4, <2>5, <2>6, <2>7
<1>7. N = Nat
  BY <1>5, <1>6, SetInduction
<1>8. n \in N /\ n <= n
  BY <1>7
<1>9. Chain(parts) = SubSeq(s, 1, n * w)
  BY <1>3, <1>4, <1>8
<1> QED BY <1>3, <1>9 DEF parts, Part

\* The ends of a concatenation are what it was made of.
EndsOf(p, r) ==
    /\ Len(p) \in Nat /\ Len(r) \in Nat /\ Len(p \o r) = Len(p) + Len(r)
    /\ SubSeq(p \o r, 1, Len(p)) = p
    /\ SubSeq(p \o r, Len(p) + 1, Len(p \o r)) = r

\* So they are, for any two sequences.
LEMMA Ends ==
  ASSUME NEW T, NEW p \in Seq(T), NEW r \in Seq(T)
  PROVE  EndsOf(p, r)
<1>1. /\ Len(p) \in Nat /\ Len(r) \in Nat /\ Len(p \o r) = Len(p) + Len(r) /\ p \o r \in Seq(T)
      /\ \A i \in 1..Len(p) : (p \o r)[i] = p[i]
      /\ \A i \in 1..Len(r) : (p \o r)[Len(p) + i] = r[i]
  OBVIOUS
<1> DEFINE s == p \o r
<1> HIDE DEF s
<1>2. SubSeq(s, 1, Len(p)) = p
  <2>1. /\ SubSeq(s, 1, Len(p)) \in Seq(T) /\ Len(SubSeq(s, 1, Len(p))) = Len(p)
        /\ \A i \in 1..Len(p) : SubSeq(s, 1, Len(p))[i] = p[i]
    BY <1>1 DEF s
  <2> QED BY <2>1, <1>1, SeqEqual
<1>3. SubSeq(s, Len(p) + 1, Len(s)) = r
  <2>1. /\ SubSeq(s, Len(p) + 1, Len(s)) \in Seq(T)
        /\ Len(SubSeq(s, Len(p) + 1, Len(s))) = Len(r)
        /\ \A i \in 1..Len(r) : SubSeq(s, Len(p) + 1, Len(s))[i] = r[i]
    BY <1>1 DEF s
  <2> QED BY <2>1, <1>1, SeqEqual
<1> QED BY <1>1, <1>2, <1>3 DEF s, EndsOf

\* The same of three sequences.
MiddleOf(p, m, r) ==
    LET s == (p \o m) \o r
    IN  /\ Len(p) \in Nat /\ Len(m) \in Nat /\ Len(p) + Len(m) <= Len(s)
        /\ SubSeq(s, 1, Len(p)) = p
        /\ SubSeq(s, Len(p) + 1, Len(p) + Len(m)) = m
        /\ SubSeq(s, Len(p) + Len(m) + 1, Len(s)) = r

\* So they are, for any three.
LEMMA Middle ==
  ASSUME NEW T, NEW p \in Seq(T), NEW m \in Seq(T), NEW r \in Seq(T)
  PROVE  MiddleOf(p, m, r)
<1>1. /\ Len(p) \in Nat /\ Len(m) \in Nat /\ Len(r) \in Nat
      /\ p \o m \in Seq(T) /\ (p \o m) \o r \in Seq(T)
      /\ Len(p \o m) = Len(p) + Len(m) /\ Len((p \o m) \o r) = Len(p) + Len(m) + Len(r)
      /\ \A i \in 1..Len(p) : ((p \o m) \o r)[i] = p[i]
      /\ \A i \in 1..Len(m) : ((p \o m) \o r)[Len(p) + i] = m[i]
  OBVIOUS
<1>2. SubSeq((p \o m) \o r, Len(p) + Len(m) + 1, Len((p \o m) \o r)) = r
  <2>1. EndsOf(p \o m, r)
    BY <1>1, Ends
  <2> QED BY ONLY <1>1, <2>1 DEF EndsOf
<1> DEFINE s == (p \o m) \o r
<1> HIDE DEF s
<1>3. SubSeq(s, 1, Len(p)) = p
  <2>1. /\ SubSeq(s, 1, Len(p)) \in Seq(T) /\ Len(SubSeq(s, 1, Len(p))) = Len(p)
        /\ \A i \in 1..Len(p) : SubSeq(s, 1, Len(p))[i] = p[i]
    BY <1>1 DEF s
  <2> QED BY <2>1, <1>1, SeqEqual
<1>4. SubSeq(s, Len(p) + 1, Len(p) + Len(m)) = m
  <2>1. /\ SubSeq(s, Len(p) + 1, Len(p) + Len(m)) \in Seq(T)
        /\ Len(SubSeq(s, Len(p) + 1, Len(p) + Len(m))) = Len(m)
        /\ \A i \in 1..Len(m) : SubSeq(s, Len(p) + 1, Len(p) + Len(m))[i] = m[i]
    BY <1>1 DEF s
  <2> QED BY <2>1, <1>1, SeqEqual
<1> QED BY <1>1, <1>2, <1>3, <1>4 DEF s, MiddleOf

\* The sound of the queued blocks.
Blocks(numbers) == Chain([i \in DOMAIN numbers |-> Block(numbers[i])])

\* Each queued block is sound of its length.
LEMMA BlockParts ==
  ASSUME NEW numbers \in Seq(Nat \ {0})
  PROVE  LET parts == [i \in DOMAIN numbers |-> Block(numbers[i])]
         IN  /\ parts \in Seq(Seq(Unit)) /\ Len(parts) = Len(numbers)
             /\ \A i \in 1..Len(parts) : /\ parts[i] = Block(numbers[i])
                                         /\ Len(parts[i]) = BlockUnits
<1>1. /\ DOMAIN numbers = 1..Len(numbers) /\ Len(numbers) \in Nat
      /\ \A i \in 1..Len(numbers) : numbers[i] \in Nat \ {0}
  OBVIOUS
<1>2. \A i \in 1..Len(numbers) : /\ Block(numbers[i]) \in Seq(Unit)
                                 /\ Len(Block(numbers[i])) = BlockUnits
  BY <1>1, BlockType
<1> DEFINE parts == [i \in 1..Len(numbers) |-> Block(numbers[i])]
<1>3. parts \in Seq(Seq(Unit)) /\ Len(parts) = Len(numbers)
      /\ \A i \in 1..Len(parts) : parts[i] = Block(numbers[i])
  BY <1>1, <1>2
<1> QED BY <1>1, <1>2, <1>3

\* The queue's sound, its length, its first block and one block more.
LEMMA BlocksFacts ==
  ASSUME NEW numbers \in Seq(Nat \ {0})
  PROVE  /\ Blocks(numbers) \in Seq(Unit)
         /\ Len(Blocks(numbers)) = BlockUnits * Len(numbers)
         /\ numbers # <<>> => Blocks(numbers) = Block(Head(numbers)) \o Blocks(Tail(numbers))
         /\ \A n \in Nat \ {0} : Blocks(Append(numbers, n)) = Blocks(numbers) \o Block(n)
<1> DEFINE Parts(s) == [i \in DOMAIN s |-> Block(s[i])]
           parts == Parts(numbers)
<1>1. /\ parts \in Seq(Seq(Unit)) /\ Len(parts) = Len(numbers)
      /\ \A i \in 1..Len(parts) : parts[i] = Block(numbers[i]) /\ Len(parts[i]) = BlockUnits
      /\ Blocks(numbers) = Chain(parts)
  BY BlockParts DEF Blocks
<1>2. Len(Blocks(numbers)) = BlockUnits * Len(numbers)
  <2> HIDE DEF parts
  <2> QED BY <1>1, ChainLen, OutputAssumption
<1>3. ASSUME numbers # <<>>
      PROVE  Blocks(numbers) = Block(Head(numbers)) \o Blocks(Tail(numbers))
  <2>1. /\ Tail(numbers) \in Seq(Nat \ {0}) /\ Len(numbers) \in Nat /\ Len(numbers) >= 1
        /\ Len(Tail(numbers)) = Len(numbers) - 1
        /\ \A i \in 1..Len(Tail(numbers)) : Tail(numbers)[i] = numbers[i + 1]
        /\ Head(numbers) = numbers[1]
    BY <1>3
  <2>2. /\ Parts(Tail(numbers)) \in Seq(Seq(Unit)) /\ Len(Parts(Tail(numbers))) = Len(numbers) - 1
        /\ \A i \in 1..(Len(numbers) - 1) : Parts(Tail(numbers))[i] = Block(Tail(numbers)[i])
    BY <2>1, BlockParts
  <2> HIDE DEF Parts, parts
  <2>3. /\ parts # <<>> /\ Head(parts) = Block(Head(numbers))
        /\ Tail(parts) \in Seq(Seq(Unit)) /\ Len(Tail(parts)) = Len(numbers) - 1
        /\ \A i \in 1..(Len(numbers) - 1) : Tail(parts)[i] = Block(numbers[i + 1])
    BY <1>1, <2>1
  <2>4. Tail(parts) = Parts(Tail(numbers))
    <3>1. \A i \in 1..(Len(numbers) - 1) : Tail(parts)[i] = Parts(Tail(numbers))[i]
      BY <2>1, <2>2, <2>3
    <3> QED BY <2>2, <2>3, <3>1, SeqEqual
  <2>5. Blocks(Tail(numbers)) = Chain(Parts(Tail(numbers)))
    BY DEF Blocks, Parts
  <2>6. Chain(parts) = Head(parts) \o Chain(Tail(parts))
    BY <1>1, <2>3, ChainHead
  <2> QED BY <1>1, <2>3, <2>4, <2>5, <2>6
<1>4. ASSUME NEW n \in Nat \ {0}
      PROVE  Blocks(Append(numbers, n)) = Blocks(numbers) \o Block(n)
  <2> DEFINE more == Append(numbers, n)
  <2>1. /\ more \in Seq(Nat \ {0}) /\ Len(numbers) \in Nat /\ Len(more) = Len(numbers) + 1
        /\ \A i \in 1..Len(numbers) : more[i] = numbers[i]
        /\ more[Len(numbers) + 1] = n
    OBVIOUS
  <2> HIDE DEF more
  <2>2. /\ Parts(more) \in Seq(Seq(Unit)) /\ Len(Parts(more)) = Len(numbers) + 1
        /\ \A i \in 1..(Len(numbers) + 1) : Parts(more)[i] = Block(more[i])
    BY <2>1, BlockParts
  <2>3. Block(n) \in Seq(Unit)
    BY BlockType
  <2> HIDE DEF Parts, parts
  <2>4. /\ Append(parts, Block(n)) \in Seq(Seq(Unit))
        /\ Len(Append(parts, Block(n))) = Len(numbers) + 1
        /\ \A i \in 1..Len(numbers) : Append(parts, Block(n))[i] = parts[i]
        /\ Append(parts, Block(n))[Len(numbers) + 1] = Block(n)
    BY <1>1, <2>1, <2>3
  <2>5. Append(parts, Block(n)) = Parts(more)
    <3>1. \A i \in 1..(Len(numbers) + 1) : Append(parts, Block(n))[i] = Parts(more)[i]
      <4> TAKE i \in 1..(Len(numbers) + 1)
      <4>1. CASE i \in 1..Len(numbers)
        BY <4>1, <1>1, <2>1, <2>2, <2>4
      <4>2. CASE i = Len(numbers) + 1
        BY <4>2, <2>1, <2>2, <2>4
      <4>3. Len(numbers) \in Nat
        BY <2>1
      <4>4. i \in 1..Len(numbers) \/ i = Len(numbers) + 1
        BY ONLY <4>3, i \in 1..(Len(numbers) + 1)
      <4> QED BY ONLY <4>1, <4>2, <4>4
    <3> QED BY <2>2, <2>4, <3>1, SeqEqual
  <2>6. Chain(Append(parts, Block(n))) = Chain(parts) \o Block(n)
    BY <1>1, <2>3, ChainAppend
  <2>7. Blocks(more) = Chain(Parts(more))
    BY DEF Blocks, Parts
  <2> QED BY <1>1, <2>5, <2>6, <2>7 DEF more
<1>5. Blocks(numbers) \in Seq(Unit)
  <2> HIDE DEF parts
  <2> QED BY <1>1, ChainType
<1> QED BY <1>2, <1>3, <1>4, <1>5

(***************************************************************************)
(* The output implements the line.                                         *)
(***************************************************************************)

\* What left the output thread, and what it holds.
Sent == Chain(playing) \o writing
InHand == IF hand = 0 THEN <<>> ELSE Block(hand)

\* Without a renderer nothing is on its way to it, and the blocks on their way were
\* handed over.
NothingSent == ~initialized => playing = <<>> /\ writing = <<>>
Handed == hand <= pushed /\ \A i \in DOMAIN queue : queue[i] <= pushed
LineInv == OutputType /\ NothingSent /\ Handed

\* The line, in the parts it is made of.
LEMMA LineParts ==
  ASSUME OutputType
  PROVE  /\ Sent \in Seq(Unit) /\ InHand \in Seq(Unit) /\ Blocks(queue) \in Seq(Unit)
         /\ Len(playing) \in Nat /\ Len(writing) \in Nat
         /\ Len(Chain(playing)) = WaveUnits * Len(playing)
         /\ Len(Sent) = WaveUnits * Len(playing) + Len(writing)
         /\ Len(Blocks(queue)) = BlockUnits * Len(queue)
         /\ Line = (Sent \o InHand) \o Blocks(queue)
         /\ Line \in Seq(Unit)
<1>1. /\ playing \in Seq(Seq(Unit)) /\ writing \in Seq(Unit) /\ queue \in Seq(Nat \ {0})
      /\ hand \in Nat /\ \A i \in 1..Len(playing) : Len(playing[i]) = WaveUnits
  BY DEF OutputType
<1>2. Chain(playing) \in Seq(Unit) /\ Len(Chain(playing)) = WaveUnits * Len(playing)
  BY <1>1, ChainType, ChainLen, OutputAssumption
<1>3. Sent \in Seq(Unit) /\ Len(Sent) = WaveUnits * Len(playing) + Len(writing)
  <2>1. Sent \in Seq(Unit) /\ Len(Sent) = Len(Chain(playing)) + Len(writing)
    <3>1. writing \in Seq(Unit) /\ Chain(playing) \in Seq(Unit)
      BY <1>1, <1>2
    <3>2. /\ Chain(playing) \o writing \in Seq(Unit)
          /\ Len(Chain(playing) \o writing) = Len(Chain(playing)) + Len(writing)
      BY ONLY <3>1
    <3> QED BY ONLY <3>2 DEF Sent
  <2> QED BY <1>2, <2>1
<1>4. InHand \in Seq(Unit)
  BY <1>1, BlockType DEF InHand
<1>5. Blocks(queue) \in Seq(Unit) /\ Len(Blocks(queue)) = BlockUnits * Len(queue)
  BY <1>1, BlocksFacts
<1>6. Line = (Sent \o InHand) \o Blocks(queue)
  BY DEF Line, Sent, InHand, Blocks
<1>7. (Sent \o InHand) \o Blocks(queue) \in Seq(Unit)
  <2>1. Sent \o InHand \in Seq(Unit)
    BY <1>3, <1>4
  <2> QED BY <2>1, <1>5
<1>8. Len(playing) \in Nat /\ Len(writing) \in Nat
  BY <1>1
<1> QED BY <1>2, <1>3, <1>4, <1>5, <1>6, <1>7, <1>8

\* A block is queued behind the others, or refused by a full queue (PushBlock).
LEMMA PushMaps ==
  ASSUME OutputType, PushBlock, UNCHANGED <<initialized, outThread, hand, ring>>
  PROVE  Sound!Send \/ Sound!Refuse
<1>1. /\ pushed \in Nat /\ pushed' = pushed + 1 /\ UNCHANGED <<initialized, hand, playing, writing>>
      /\ queue \in Seq(Nat \ {0}) /\ Len(queue) \in Nat
  BY DEF OutputType, PushBlock, ring
<1>2. Sent' = Sent /\ InHand' = InHand
  BY <1>1 DEF Sent, InHand
<1>3. Line' = (Sent' \o InHand') \o Blocks(queue')
  BY DEF Line, Sent, InHand, Blocks
<1>4. CASE HasRoom
  <2>1. queue' = Append(queue, pushed + 1) /\ pushed + 1 \in Nat \ {0}
    BY <1>1, <1>4 DEF PushBlock
  <2>2. Blocks(queue') = Blocks(queue) \o Block(pushed + 1)
    BY <1>1, <2>1, BlocksFacts
  <2>3. Sent \o InHand \in Seq(Unit) /\ Blocks(queue) \in Seq(Unit) /\ Block(pushed + 1) \in Seq(Unit)
    <3>1. Sent \in Seq(Unit) /\ InHand \in Seq(Unit) /\ Blocks(queue) \in Seq(Unit)
      BY LineParts
    <3>2. Block(pushed + 1) \in Seq(Unit)
      BY <2>1, BlockType
    <3> QED BY ONLY <3>1, <3>2
  <2>4. \A k, l, m \in Seq(Unit) : (k \o l) \o m = k \o (l \o m)
    BY ConcatMoved
  <2>5. Line' = ((Sent \o InHand) \o Blocks(queue)) \o Block(pushed + 1)
    <3>1. ((Sent \o InHand) \o Blocks(queue)) \o Block(pushed + 1)
            = (Sent \o InHand) \o (Blocks(queue) \o Block(pushed + 1))
      BY ONLY <2>3, <2>4
    <3> QED BY ONLY <1>2, <1>3, <2>2, <3>1
  <2>6. Line' = Line \o Block(pushed + 1)
    BY <2>5, LineParts
  <2>7. Sound!Block(pushed + 1) = Block(pushed + 1)
    BY DEF Sound!Block, Block
  <2> QED BY <1>1, <2>6, <2>7 DEF Sound!Send
<1>5. CASE ~HasRoom
  <2>1. queue' = queue /\ Len(queue) = MaxQueued
    BY <1>1, <1>5, OutputAssumption DEF PushBlock, HasRoom, OutputType
  <2>2. Line' = Line
    BY <1>2, <1>3, <2>1, LineParts
  <2>3. Len(Line) >= MaxQueued * BlockUnits
    <3>1. Len(Line) = (Len(Sent) + Len(InHand)) + Len(Blocks(queue))
      <4>1. Sent \in Seq(Unit) /\ InHand \in Seq(Unit) /\ Blocks(queue) \in Seq(Unit)
            /\ Line = (Sent \o InHand) \o Blocks(queue)
        BY LineParts
      <4>2. Sent \o InHand \in Seq(Unit) /\ Len(Sent \o InHand) = Len(Sent) + Len(InHand)
        BY ONLY <4>1
      <4> QED BY ONLY <4>1, <4>2
    <3>2. Len(Blocks(queue)) = BlockUnits * MaxQueued
      BY <2>1, LineParts
    <3>3. Len(Sent) \in Nat /\ Len(InHand) \in Nat
      BY LineParts
    <3>4. BlockUnits * MaxQueued = MaxQueued * BlockUnits /\ MaxQueued * BlockUnits \in Nat
      BY OutputAssumption
    <3> QED BY ONLY <3>1, <3>2, <3>3, <3>4
  <2> QED BY <1>1, <2>2, <2>3 DEF Sound!Refuse
<1> QED BY <1>4, <1>5

\* The output thread takes the oldest block into its hand.
LEMMA TakeMaps ==
  ASSUME OutputType, TakeBlock
  PROVE  UNCHANGED Sound!lineVars
<1>1. UNCHANGED <<initialized, pushed, playing, writing>> /\ hand = 0
  BY DEF TakeBlock, ring, OutputType
<1>2. Line' = Line
  <2>1. CASE queue = <<>>
    BY <1>1, <2>1 DEF TakeBlock, Line
  <2>2. CASE queue # <<>>
    <3>1. hand' = Head(queue) /\ queue' = Tail(queue)
      BY <2>2 DEF TakeBlock
    <3>2. /\ queue \in Seq(Nat \ {0}) /\ Head(queue) \in Nat \ {0}
          /\ Tail(queue) \in Seq(Nat \ {0})
      BY <2>2 DEF OutputType
    <3>3. Blocks(queue) = Block(Head(queue)) \o Blocks(Tail(queue))
      BY <2>2, <3>2, BlocksFacts
    <3>4. /\ Sent \in Seq(Unit) /\ Block(Head(queue)) \in Seq(Unit)
          /\ Blocks(Tail(queue)) \in Seq(Unit)
      BY <3>2, LineParts, BlockType, BlocksFacts
    <3>5. InHand = <<>> /\ InHand' = Block(Head(queue)) /\ Sent' = Sent
      BY <1>1, <3>1, <3>2 DEF InHand, Sent
    <3>6. \A k, l, m \in Seq(Unit) : (k \o l) \o m = k \o (l \o m)
      BY ConcatMoved
    <3>7. Sent \o <<>> = Sent
      BY ONLY <3>4
    <3>8. Line' = (Sent' \o InHand') \o Blocks(queue')
      BY DEF Line, Sent, InHand, Blocks
    <3>9. Line = (Sent \o InHand) \o Blocks(queue)
      BY LineParts
    <3>10. (Sent \o Block(Head(queue))) \o Blocks(Tail(queue))
             = Sent \o (Block(Head(queue)) \o Blocks(Tail(queue)))
      BY ONLY <3>4, <3>6
    <3> QED BY ONLY <3>1, <3>3, <3>5, <3>7, <3>8, <3>9, <3>10
  <2> QED BY <2>1, <2>2
<1> QED BY <1>1, <1>2 DEF Sound!lineVars

\* Five pieces of sound in order, and the same with the first set apart.
Apart(h, c, w, i, b) == (((h \o c) \o w) \o i) \o b = h \o (((c \o w) \o i) \o b)

\* The two are the same sound.
LEMMA FirstApart ==
  ASSUME NEW T
  PROVE  \A h, c, w, i, b \in Seq(T) : Apart(h, c, w, i, b)
<1> DEFINE Moved(k, l, m) == (k \o l) \o m = k \o (l \o m)
<1>1. \A k, l, m \in Seq(T) : Moved(k, l, m)
  BY ConcatMoved
<1> TAKE h, c, w, i, b \in Seq(T)
<1>2. c \o w \in Seq(T) /\ (c \o w) \o i \in Seq(T)
  OBVIOUS
<1> HIDE DEF Moved
<1>3. Moved(h, c, w)
  BY <1>1
<1>4. Moved(h, c \o w, i)
  BY <1>1, <1>2
<1>5. Moved(h, (c \o w) \o i, b)
  BY <1>1, <1>2
<1> QED BY ONLY <1>3, <1>4, <1>5 DEF Moved, Apart

\* The renderer is through with a buffer: the line loses its first units.
LEMMA RenderMaps ==
  ASSUME OutputType, Render
  PROVE  Sound!Play
<1> DEFINE h == Head(playing)
           c == Chain(Tail(playing))
           rest == ((c \o writing) \o InHand) \o Blocks(queue)
<1>1. /\ playing # <<>> /\ playing' = Tail(playing)
      /\ UNCHANGED <<initialized, pushed, queue, hand, writing>>
  BY DEF Render
<1>2. /\ playing \in Seq(Seq(Unit)) /\ writing \in Seq(Unit)
      /\ \A i \in 1..Len(playing) : Len(playing[i]) = WaveUnits
  BY DEF OutputType
<1>3. /\ h \in Seq(Unit) /\ Len(h) = WaveUnits /\ Tail(playing) \in Seq(Seq(Unit))
  <2>1. h \in Seq(Unit) /\ Tail(playing) \in Seq(Seq(Unit)) /\ h = playing[1] /\ 1 \in 1..Len(playing)
    BY <1>1, <1>2
  <2> QED BY <1>2, <2>1
<1>4. Chain(playing) = h \o c
  BY <1>1, <1>2, ChainHead
<1>5. c \in Seq(Unit)
  BY <1>3, ChainType
<1>6. InHand \in Seq(Unit) /\ Blocks(queue) \in Seq(Unit) /\ Line = (Sent \o InHand) \o Blocks(queue)
  BY LineParts
<1> HIDE DEF h, c
<1>7. Line = h \o rest
  <2>1. Line = (((h \o c) \o writing) \o InHand) \o Blocks(queue)
    BY <1>4, <1>6 DEF Sent
  <2>2. h \in Seq(Unit) /\ c \in Seq(Unit) /\ writing \in Seq(Unit)
        /\ InHand \in Seq(Unit) /\ Blocks(queue) \in Seq(Unit)
    BY <1>2, <1>3, <1>5, <1>6
  <2>3. Apart(h, c, writing, InHand, Blocks(queue))
    BY ONLY <2>2, FirstApart
  <2>4. (((h \o c) \o writing) \o InHand) \o Blocks(queue) = h \o rest
    BY ONLY <2>3 DEF Apart
  <2> QED BY ONLY <2>1, <2>4
<1>8. Line' = rest
  BY <1>1 DEF Line, InHand, Blocks, c
<1>9. rest \in Seq(Unit)
  <2>1. c \o writing \in Seq(Unit)
    BY <1>2, <1>5
  <2>2. (c \o writing) \o InHand \in Seq(Unit)
    BY <1>6, <2>1
  <2> QED BY <1>6, <2>2
<1> HIDE DEF rest
<1>10. Line' = SubSeq(Line, Len(h) + 1, Len(Line)) /\ Len(h) \in 1..Len(Line)
  <2>0. EndsOf(h, rest)
    BY <1>3, <1>9, Ends
  <2>1. /\ Len(h) \in Nat /\ Len(rest) \in Nat /\ Len(h \o rest) = Len(h) + Len(rest)
        /\ SubSeq(h \o rest, Len(h) + 1, Len(h \o rest)) = rest
    BY ONLY <2>0 DEF EndsOf
  <2>2. Len(h) >= 1
    BY <1>3, OutputAssumption
  <2>3. Len(Line) = Len(h) + Len(rest) /\ SubSeq(Line, Len(h) + 1, Len(Line)) = rest
    BY ONLY <1>7, <2>1
  <2> QED BY ONLY <1>8, <2>1, <2>2, <2>3
<1> QED BY <1>1, <1>10 DEF Sound!Play, Sound!Suffix

\* The block in the output thread's hand is dropped, without a renderer or before
\* a full one: the line loses a whole block of which nothing was played.
LEMMA LoseMaps ==
  ASSUME LineInv, hand # 0, hand' = 0, initialized => ~QueueHasCapacity,
         UNCHANGED <<initialized, pushed, queue, playing, writing>>
  PROVE  Sound!Lose
<1> DEFINE k == Len(Sent)
<1>1. OutputType /\ hand \in Nat \ {0} /\ hand <= pushed /\ pushed \in Nat
  BY DEF LineInv, NothingSent, Handed, OutputType
<1>2. /\ Sent \in Seq(Unit) /\ Blocks(queue) \in Seq(Unit)
      /\ Len(playing) \in Nat /\ Len(writing) \in Nat
      /\ k = WaveUnits * Len(playing) + Len(writing)
      /\ Line = (Sent \o InHand) \o Blocks(queue) /\ Line \in Seq(Unit)
  BY <1>1, LineParts
<1>3. Block(hand) \in Seq(Unit) /\ Len(Block(hand)) = BlockUnits
  BY <1>1, BlockType
<1>4. InHand = Block(hand)
  BY DEF InHand
<1>5. Line' = Sent \o Blocks(queue)
  <2>1. Line' = (Sent \o <<>>) \o Blocks(queue)
    BY DEF Line, Sent, Blocks
  <2>2. Sent \o <<>> = Sent
    BY ONLY <1>2
  <2> QED BY ONLY <2>1, <2>2
<1>6. /\ Len(Sent) \in Nat /\ Len(Sent) + BlockUnits <= Len(Line)
      /\ SubSeq(Line, 1, Len(Sent)) = Sent
      /\ SubSeq(Line, Len(Sent) + 1, Len(Sent) + BlockUnits) = Block(hand)
      /\ SubSeq(Line, Len(Sent) + BlockUnits + 1, Len(Line)) = Blocks(queue)
  <2>1. /\ Len(Sent) + Len(Block(hand)) <= Len((Sent \o Block(hand)) \o Blocks(queue))
        /\ Len(Sent) \in Nat
        /\ SubSeq((Sent \o Block(hand)) \o Blocks(queue), 1, Len(Sent)) = Sent
        /\ SubSeq((Sent \o Block(hand)) \o Blocks(queue), Len(Sent) + 1,
                  Len(Sent) + Len(Block(hand))) = Block(hand)
        /\ SubSeq((Sent \o Block(hand)) \o Blocks(queue), Len(Sent) + Len(Block(hand)) + 1,
                  Len((Sent \o Block(hand)) \o Blocks(queue))) = Blocks(queue)
    <3>1. MiddleOf(Sent, Block(hand), Blocks(queue))
      BY <1>2, <1>3, Middle
    <3> QED BY ONLY <3>1 DEF MiddleOf
  <2> QED BY ONLY <1>2, <1>3, <1>4, <2>1
<1>7. initialized => Len(Sent) + BlockUnits > LimitUnits
  <2>1. WaveUnits * Len(playing) \in Nat /\ BlockUnits \in Nat /\ LimitUnits \in Nat
    BY <1>2, OutputAssumption
  <2> QED BY <1>2, <2>1 DEF QueueHasCapacity, Held
<1>8. Len(Sent) \in 0..Len(Line) /\ hand \in 1..((pushed + 1) - 1)
  <2>1. Len(Line) \in Nat /\ BlockUnits \in Nat
    BY <1>2, OutputAssumption
  <2> QED BY <1>1, <1>6, <2>1
<1>9. Sound!Block(hand) = Block(hand)
  BY DEF Sound!Block, Block
<1>10. Line' = SubSeq(Line, 1, Len(Sent)) \o Sound!Suffix(Len(Sent) + BlockUnits)
  BY <1>5, <1>6 DEF Sound!Suffix
<1> HIDE DEF k
<1>11. UNCHANGED <<pushed + 1, initialized>>
  OBVIOUS
<1>12. \E n \in 1..((pushed + 1) - 1) :
          SubSeq(Line, Len(Sent) + 1, Len(Sent) + BlockUnits) = Sound!Block(n)
  BY <1>6, <1>8, <1>9
<1> QED BY <1>6, <1>7, <1>8, <1>10, <1>11, <1>12 DEF Sound!Lose

\* The whole block goes into the ring behind what it holds: the line stays as it is.
LEMMA AppendMaps ==
  ASSUME LineInv, hand # 0, hand' = 0, QueueHasCapacity, AppendSamples,
         UNCHANGED <<initialized, pushed, queue>>
  PROVE  Line' = Line
<1> DEFINE waves == Len(Stream) \div WaveUnits
           cut == waves * WaveUnits
           filled == [i \in 1..waves |->
                        SubSeq(Stream, (i - 1) * WaveUnits + 1, i * WaveUnits)]
<1>1. OutputType /\ hand \in Nat \ {0} /\ writing \in Seq(Unit) /\ playing \in Seq(Seq(Unit))
  BY DEF LineInv, NothingSent, Handed, OutputType
<1>2. Block(hand) \in Seq(Unit) /\ Len(Block(hand)) = BlockUnits
  BY <1>1, BlockType
<1>3. Stream = writing \o Block(hand)
  <2>1. SubSeq(Block(hand), 1, Fits) = Block(hand)
    BY <1>1, <1>2, WholeBlock, SubSeqFull
  <2> QED BY <2>1 DEF Stream
<1>4. Stream \in Seq(Unit)
  BY <1>1, <1>2, <1>3
<1>5. /\ Len(Stream) \in Nat /\ WaveUnits \in Nat \ {0}
      /\ waves \in Nat /\ cut \in Nat /\ cut <= Len(Stream)
  <2>1. Len(Stream) \in Nat /\ WaveUnits \in Nat \ {0}
    BY <1>4, LenProperties, OutputAssumption
  <2>2. waves \in Nat /\ cut <= Len(Stream)
    BY <2>1, DivisionBounds
  <2> HIDE DEF waves
  <2> QED BY <2>1, <2>2
<1>6. /\ playing' = playing \o filled
      /\ writing' = SubSeq(Stream, cut + 1, Len(Stream))
  BY DEF AppendSamples
<1>7. filled \in Seq(Seq(Unit)) /\ Chain(filled) = SubSeq(Stream, 1, cut)
  <2> HIDE DEF waves
  <2> QED BY <1>4, <1>5, ChainCut
<1> HIDE DEF filled, waves
<1>8. Chain(playing') = Chain(playing) \o SubSeq(Stream, 1, cut)
  BY <1>1, <1>6, <1>7, ChainConcat
<1>9. SubSeq(Stream, 1, cut) \o SubSeq(Stream, cut + 1, Len(Stream)) = Stream
  <2>1. cut \in 0..Len(Stream) /\ 1 \in 1..(Len(Stream) + 1) /\ Len(Stream) \in cut..Len(Stream)
    BY <1>5
  <2> HIDE DEF cut
  <2>2. SubSeq(Stream, 1, cut) \o SubSeq(Stream, cut + 1, Len(Stream))
          = SubSeq(Stream, 1, Len(Stream))
    <3>1. PICK x, y \in Nat : x = cut /\ y = Len(Stream) /\ x <= y
      BY <1>5
    <3>2. SubSeq(Stream, 1, x) \o SubSeq(Stream, x + 1, y) = SubSeq(Stream, 1, y)
      <4>1. /\ Len(Stream) \in Nat /\ 1 \in 1..(Len(Stream) + 1)
            /\ x \in (1 - 1)..Len(Stream) /\ y \in x..Len(Stream)
        BY <1>5, <3>1
      <4> QED BY ONLY <1>4, <4>1, ConcatAdjacentSubSeq
    <3> QED BY ONLY <3>1, <3>2
  <2> QED BY <1>4, <2>2, SubSeqFull
<1>10. Sent' = Sent \o Block(hand)
  <2> DEFINE Moved(k, l, m) == (k \o l) \o m = k \o (l \o m)
  <2>1. \A k, l, m \in Seq(Unit) : Moved(k, l, m)
    BY ConcatMoved
  <2>2. Chain(playing) \in Seq(Unit) /\ Chain(filled) \in Seq(Unit) /\ writing' \in Seq(Unit)
    <3>1. Chain(playing) \in Seq(Unit) /\ Chain(filled) \in Seq(Unit)
      BY <1>1, <1>7, ChainType
    <3>2. writing' \in Seq(Unit)
      <4> HIDE DEF cut
      <4>1. \A j \in (cut + 1)..Len(Stream) : Stream[j] \in Unit
        BY <1>4, <1>5, ElementOfSeq
      <4>2. cut + 1 \in Int /\ Len(Stream) \in Int
        BY <1>5
      <4> QED BY <1>6, <4>1, <4>2, SubSeqProperties
    <3> QED BY <3>1, <3>2
  <2> HIDE DEF Moved, cut
  <2>3. Moved(Chain(playing), Chain(filled), writing')
    BY <2>1, <2>2
  <2>4. Moved(Chain(playing), writing, Block(hand))
    BY <1>1, <1>2, <2>1, <2>2
  <2>5. Chain(filled) \o writing' = writing \o Block(hand)
    BY ONLY <1>3, <1>6, <1>7, <1>9
  <2>6. Chain(playing') = Chain(playing) \o Chain(filled)
    BY ONLY <1>7, <1>8
  <2>7. Sent' = Chain(playing') \o writing' /\ Sent = Chain(playing) \o writing
    BY DEF Sent
  <2> QED BY ONLY <2>3, <2>4, <2>5, <2>6, <2>7 DEF Moved
<1>11. InHand = Block(hand) /\ InHand' = <<>>
  BY DEF InHand
<1>12. Sent' \o <<>> = Sent'
  <2>1. Sent \in Seq(Unit)
    BY <1>1, LineParts
  <2>2. Sent' \in Seq(Unit)
    BY <1>2, <1>10, <2>1
  <2> QED BY ONLY <2>2
<1>13. Line' = (Sent' \o InHand') \o Blocks(queue') /\ Blocks(queue') = Blocks(queue)
  BY DEF Line, Sent, InHand, Blocks
<1>14. Line = (Sent \o InHand) \o Blocks(queue)
  BY <1>1, LineParts
<1> QED BY ONLY <1>10, <1>11, <1>12, <1>13, <1>14

\* The output thread is through with the block in its hand (SubmitConverted).
LEMMA SubmitMaps ==
  ASSUME LineInv, SubmitConverted
  PROVE  Sound!Lose \/ UNCHANGED Sound!lineVars
<1>1. /\ hand # 0 /\ hand' = 0 /\ UNCHANGED <<initialized, pushed, queue>>
  BY DEF SubmitConverted, LineInv, NothingSent, Handed, OutputType
<1>2. CASE ~(initialized /\ QueueHasCapacity)
  <2>1. UNCHANGED <<playing, writing>>
    BY <1>2 DEF SubmitConverted, ring
  <2> QED BY <1>1, <1>2, <2>1, LoseMaps
<1>3. CASE initialized /\ QueueHasCapacity
  <2>1. AppendSamples
    BY <1>3 DEF SubmitConverted
  <2>2. Line' = Line
    BY <1>1, <1>3, <2>1, AppendMaps
  <2> QED BY <1>1, <2>2 DEF Sound!lineVars
<1> QED BY <1>2, <1>3

\* A renderer is set up, or not; where there was none, nothing was on its way to it
\* (EnsureInitialized).
LEMMA EnsureMaps ==
  ASSUME LineInv, NEW works \in BOOLEAN, EnsureInitialized(works),
         UNCHANGED <<pushed, queue, hand>>
  PROVE  Sound!Open \/ UNCHANGED Sound!lineVars
<1>1. initialized \in BOOLEAN
  BY DEF LineInv, NothingSent, Handed, OutputType
<1>2. UNCHANGED <<playing, writing>>
  BY DEF EnsureInitialized, ring, LineInv, NothingSent, Handed
<1>3. Line' = Line
  BY <1>2 DEF Line
<1>4. initialized' = TRUE \/ initialized' = initialized
  BY <1>1, Zenon DEF EnsureInitialized
<1> QED BY <1>3, <1>4 DEF Sound!Open, Sound!lineVars

\* The renderer goes, and what was on its way to it.
LEMMA CloseMaps ==
  ASSUME LineInv, Shutdown, UNCHANGED <<pushed, queue, hand>>
  PROVE  Sound!Close
<1>1. OutputType
  BY DEF LineInv, NothingSent, Handed
<1>2. /\ Sent \in Seq(Unit) /\ InHand \in Seq(Unit) /\ Blocks(queue) \in Seq(Unit)
      /\ Line = (Sent \o InHand) \o Blocks(queue) /\ Line \in Seq(Unit)
  BY <1>1, LineParts
<1>3. playing' = <<>> /\ writing' = <<>> /\ initialized' = FALSE
  BY DEF Shutdown, ring, LineInv, NothingSent, Handed
<1>4. Line' = InHand \o Blocks(queue)
  <2>1. Sent' = <<>> \o <<>>
    BY <1>3, ChainEmpty DEF Sent
  <2>2. InHand' = InHand /\ Blocks(queue') = Blocks(queue)
    BY DEF InHand, Blocks
  <2>3. Line' = (Sent' \o InHand') \o Blocks(queue')
    BY DEF Line, Sent, InHand, Blocks
  <2>4. (<<>> \o <<>>) \o InHand = InHand
    BY ONLY <1>2
  <2> QED BY ONLY <2>1, <2>2, <2>3, <2>4
<1>5. InHand \o Blocks(queue) \in Seq(Unit)
  BY <1>2
<1>6. Line = Sent \o (InHand \o Blocks(queue))
  <2> DEFINE Moved(k, l, m) == (k \o l) \o m = k \o (l \o m)
  <2>1. \A k, l, m \in Seq(Unit) : Moved(k, l, m)
    BY ConcatMoved
  <2> HIDE DEF Moved
  <2>2. Moved(Sent, InHand, Blocks(queue))
    BY <1>2, <2>1
  <2> QED BY ONLY <1>2, <2>2 DEF Moved
<1>7. EndsOf(Sent, InHand \o Blocks(queue))
  BY <1>2, <1>5, Ends
<1>8. /\ Len(Sent) \in Nat /\ Len(InHand \o Blocks(queue)) \in Nat
      /\ Len(Line) = Len(Sent) + Len(InHand \o Blocks(queue))
      /\ Line' = SubSeq(Line, Len(Sent) + 1, Len(Line))
  BY ONLY <1>4, <1>6, <1>7 DEF EndsOf
<1>9. Len(Sent) \in 0..Len(Line)
  BY ONLY <1>8
<1> QED BY <1>3, <1>8, <1>9 DEF Sound!Close, Sound!Suffix

\* What the line promises of a step of Audio.
LEMMA LineStep ==
  ASSUME LineInv, [Next]_vars
  PROVE  [Sound!LineNext]_(Sound!lineVars)
<1> USE DEF Sound!LineNext
<1>0. OutputType
  BY DEF LineInv, NothingSent, Handed
<1>1. CASE OutputNext
  <2>1. CASE TakeBlock
    BY <1>0, <2>1, TakeMaps
  <2>2. CASE SubmitConverted
    BY <2>2, SubmitMaps
  <2>3. CASE Render
    BY <1>0, <2>3, RenderMaps
  <2> QED BY <1>1, <2>1, <2>2, <2>3 DEF OutputNext, OutputSteps, OutputThread
<1>2. CASE Push
  <2>1. CASE dma = "readable"
    <3>1. PushBlock /\ UNCHANGED <<initialized, outThread, hand, ring>>
      BY <1>2, <2>1 DEF Push
    <3> QED BY <1>0, <3>1, PushMaps
  <2>2. CASE dma # "readable"
    BY <1>2, <2>2 DEF Push, ring, Sound!lineVars, Line
  <2> QED BY <2>1, <2>2
<1>3. CASE Notify
  BY <1>3 DEF Notify, ring, Sound!lineVars, Line
<1>4. CASE SetMuted
  BY <1>4 DEF SetMuted, ApplyGain, Sound!lineVars, Line
<1>5. CASE Ensure \/ AIStartDMA \/ OSInitAudioSystem \/ Initialize
  <2>1. /\ \E works \in BOOLEAN : EnsureInitialized(works)
        /\ UNCHANGED <<pushed, queue, hand>>
    BY <1>5 DEF Ensure, AIStartDMA, OSInitAudioSystem, Initialize
  <2> QED BY <2>1, EnsureMaps
<1>6. CASE Left
  <2>1. Shutdown /\ UNCHANGED <<pushed, queue, hand>>
    BY <1>6 DEF Left
  <2> QED BY <2>1, CloseMaps
<1>7. CASE UNCHANGED output
  BY <1>7 DEF output, ring, Sound!lineVars, Line
<1>8. \/ OutputNext \/ Push \/ Notify \/ SetMuted
      \/ Ensure \/ AIStartDMA \/ OSInitAudioSystem \/ Initialize \/ Left
      \/ UNCHANGED output
  BY OutputMoves
<1> QED BY <1>1, <1>2, <1>3, <1>4, <1>5, <1>6, <1>7, <1>8

\* Blocks on their way were handed over, and a renderer that is set up has nothing yet.
LEMMA LineInvNext ==
  ASSUME LineInv, [Next]_vars
  PROVE  LineInv'
<1>1. OutputType /\ OutputType'
  BY OutputNextType DEF LineInv
<1> SUFFICES NothingSent' /\ Handed'
  BY <1>1 DEF LineInv
<1>2. /\ pushed \in Nat /\ hand \in Nat /\ queue \in Seq(Nat \ {0}) /\ initialized \in BOOLEAN
      /\ hand <= pushed /\ \A i \in 1..Len(queue) : queue[i] <= pushed
      /\ Len(queue) \in Nat
  BY DEF LineInv, NothingSent, Handed, OutputType
<1>3. Handed /\ NothingSent
  BY DEF LineInv
<1>4. ASSUME UNCHANGED <<pushed, queue, hand>> PROVE Handed'
  BY <1>3, <1>4 DEF Handed
<1>5. ASSUME UNCHANGED <<initialized, playing, writing>> PROVE NothingSent'
  BY <1>3, <1>5 DEF NothingSent
<1>6. CASE OutputNext
  <2>1. CASE TakeBlock
    <3>1. NothingSent'
      BY <2>1, <1>5 DEF TakeBlock, ring
    <3>2. Handed'
      <4>1. CASE queue = <<>>
        BY <2>1, <4>1, <1>4 DEF TakeBlock
      <4>2. CASE queue # <<>>
        <5>1. hand' = Head(queue) /\ queue' = Tail(queue) /\ pushed' = pushed
          BY <2>1, <4>2 DEF TakeBlock
        <5>2. /\ Head(queue) = queue[1] /\ 1 \in 1..Len(queue)
              /\ DOMAIN Tail(queue) = 1..(Len(queue) - 1)
              /\ \A i \in 1..(Len(queue) - 1) : /\ Tail(queue)[i] = queue[i + 1]
                                                /\ i + 1 \in 1..Len(queue)
          BY <1>2, <4>2
        <5> QED BY ONLY <1>2, <5>1, <5>2 DEF Handed
      <4> QED BY <4>1, <4>2
    <3> QED BY <3>1, <3>2
  <2>2. CASE SubmitConverted
    <3>1. Handed'
      BY <2>2, <1>2, <1>3 DEF SubmitConverted, Handed
    <3>2. NothingSent'
      <4>1. CASE initialized
        BY <2>2, <4>1 DEF SubmitConverted, NothingSent
      <4>2. CASE ~initialized
        BY <2>2, <4>2, <1>5 DEF SubmitConverted, ring
      <4> QED BY <4>1, <4>2
    <3> QED BY <3>1, <3>2
  <2>3. CASE Render
    <3>1. Handed'
      BY <2>3, <1>4 DEF Render
    <3>2. initialized /\ initialized' = initialized
      BY <2>3, <1>3 DEF Render, NothingSent
    <3> QED BY <3>1, <3>2 DEF NothingSent
  <2> QED BY <1>6, <2>1, <2>2, <2>3 DEF OutputNext, OutputSteps, OutputThread
<1>7. CASE Push
  <2>1. NothingSent'
    BY <1>7, <1>5 DEF Push, ring
  <2>2. Handed'
    <3>1. CASE UNCHANGED <<pushed, queue>>
      BY <1>7, <3>1, <1>4 DEF Push
    <3>2. CASE PushBlock
      <4>1. pushed' = pushed + 1 /\ hand' = hand
        BY <1>7, <3>2 DEF Push, PushBlock
      <4>2. CASE HasRoom
        <5>1. queue' = Append(queue, pushed + 1)
          BY <3>2, <4>2 DEF PushBlock
        <5>2. /\ DOMAIN Append(queue, pushed + 1) = 1..(Len(queue) + 1)
              /\ \A i \in 1..Len(queue) : Append(queue, pushed + 1)[i] = queue[i]
              /\ Append(queue, pushed + 1)[Len(queue) + 1] = pushed + 1
          BY <1>2
        <5>3. \A i \in 1..(Len(queue) + 1) : i \in 1..Len(queue) \/ i = Len(queue) + 1
          BY <1>2
        <5>4. \A i \in 1..(Len(queue) + 1) : Append(queue, pushed + 1)[i] <= pushed + 1
          <6> TAKE i \in 1..(Len(queue) + 1)
          <6>1. CASE i \in 1..Len(queue)
            <7>1. queue[i] <= pushed /\ queue[i] \in Nat
              BY <1>2, <6>1
            <7> QED BY <1>2, <5>2, <6>1, <7>1
          <6>2. CASE i = Len(queue) + 1
            BY <1>2, <5>2, <6>2
          <6> QED BY <5>3, <6>1, <6>2
        <5>5. hand <= pushed + 1
          BY <1>2
        <5> QED BY ONLY <4>1, <5>1, <5>2, <5>4, <5>5 DEF Handed
      <4>3. CASE ~HasRoom
        <5>1. queue' = queue
          BY <3>2, <4>3 DEF PushBlock
        <5>2. hand <= pushed + 1 /\ \A i \in DOMAIN queue : queue[i] <= pushed + 1
          BY <1>2
        <5> QED BY ONLY <4>1, <5>1, <5>2 DEF Handed
      <4> QED BY <4>2, <4>3
    <3> QED BY <1>7, <3>1, <3>2 DEF Push
  <2> QED BY <2>1, <2>2
<1>8. CASE Notify \/ SetMuted
  <2>1. UNCHANGED <<initialized, pushed, queue, hand, writing, playing>>
    BY <1>8 DEF Notify, SetMuted, ApplyGain, ring
  <2> QED BY <2>1, <1>4, <1>5
<1>9. CASE Ensure \/ AIStartDMA \/ OSInitAudioSystem \/ Initialize
  <2>1. PICK works \in BOOLEAN :
          EnsureInitialized(works) /\ UNCHANGED <<pushed, queue, hand>>
    BY <1>9 DEF Ensure, AIStartDMA, OSInitAudioSystem, Initialize
  <2>2. NothingSent'
    BY <2>1, <1>3 DEF EnsureInitialized, ring, NothingSent
  <2> QED BY <2>1, <2>2, <1>4
<1>10. CASE Left
  <2>1. Shutdown /\ UNCHANGED <<pushed, queue, hand>>
    BY <1>10 DEF Left
  <2>2. NothingSent'
    BY <2>1, <1>3 DEF Shutdown, ring, NothingSent
  <2> QED BY <2>1, <2>2, <1>4
<1>11. CASE UNCHANGED output
  BY <1>11, <1>4, <1>5 DEF output, ring
<1>12. Handed' /\ NothingSent'
  <2>1. \/ OutputNext \/ Push \/ Notify \/ SetMuted
        \/ Ensure \/ AIStartDMA \/ OSInitAudioSystem \/ Initialize \/ Left
        \/ UNCHANGED output
    BY OutputMoves
  <2> QED BY <1>6, <1>7, <1>8, <1>9, <1>10, <1>11, <2>1
<1> QED BY <1>12

\* Blocks are played whole, in order and once, and lost only where there is too much
\* sound on its way: the converted blocks the output thread queues, the buffers it
\* fills and the renderer it gives them to implement the line (audio_backend.cpp).
THEOREM OutputImplementsLine == Spec => ImplementsLine
<1>1. Init => LineInv /\ Sound!LineInit
  <2> SUFFICES ASSUME Init PROVE LineInv /\ Sound!LineInit
    OBVIOUS
  <2>1. /\ initialized = FALSE /\ pushed = 0 /\ queue = <<>> /\ outThread = "none" /\ hand = 0
        /\ writing = <<>> /\ playing = <<>> /\ seen = 0
    BY DEF Init, OutputInit
  <2>2. OutputType
    <3>1. queue \in Seq(Nat \ {0}) /\ Len(queue) <= MaxQueued
      BY <2>1, OutputAssumption
    <3> QED BY <2>1, <3>1, EmptyRing DEF OutputType
  <2>3. LineInv
    BY <2>1, <2>2 DEF LineInv, NothingSent, Handed
  <2>4. Line = <<>>
    <3>1. Sent = <<>> \o <<>> /\ InHand = <<>>
      BY <2>1, ChainEmpty DEF Sent, InHand
    <3>2. Len(Blocks(queue)) = 0 /\ Blocks(queue) \in Seq(Unit)
      BY <2>1, <2>2, LineParts, OutputAssumption
    <3>3. Line = (Sent \o InHand) \o Blocks(queue)
      BY <2>2, LineParts
    <3>4. Blocks(queue) = <<>>
      BY <3>2
    <3> QED BY ONLY <3>1, <3>3, <3>4
  <2> QED BY <2>1, <2>3, <2>4 DEF Sound!LineInit
<1>2. LineInv /\ [Next]_vars => LineInv' /\ [Sound!LineNext]_(Sound!lineVars)
  BY LineInvNext, LineStep
<1> QED BY <1>1, <1>2, PTL DEF Spec, ImplementsLine, Sound!LineSpec
=============================================================================
