------------------------------- MODULE Audio -------------------------------
(* The sound path (src/src/platform/audio/audio.cpp and the AXWii class of     *)
(* ax_mix.cpp) on top of AudioOutput. On the game thread a tick delivers the   *)
(* blocks that came due: it waits for the mix, hands the finished block over,  *)
(* and runs the game's AI callback, which makes the next frame: the game       *)
(* writes its voices, sends the DSP a command list by mail, and processes the  *)
(* effect ("aux") buffers. The list is mixed by a worker thread, or inline.    *)
(* While the worker mixes, what it uploads for the effects is kept in a shadow *)
(* that the next join publishes, and what it adds back from them was copied    *)
(* when the mail came. Waits and wake-ups of the two condition variables are   *)
(* steps of their own; time is the number of blocks that came due.             *)
(* The game's own code is an environment: at the points named GuestCode any    *)
(* thread of it may make any call, but for frames, which only the AI callback  *)
(* makes, one at most each time.                                               *)
EXTENDS AudioOutput, FiniteSets

CONSTANTS
    BlocksPerTick,   \* kMaxBlocksPerTick, 64
    CatchUpBlocks,   \* kMaxCatchUpSeconds, 0.5 s
    BacklogBlocks,   \* kMaxAudioBacklogSeconds, 0.15 s
    MaxCalls         \* bound on the calls the game makes beside its frames

ASSUME AudioAssumption ==
    /\ BlocksPerTick \in Nat \ {0} /\ MaxCalls \in Nat
    /\ BacklogBlocks \in Nat /\ CatchUpBlocks \in Nat

VARIABLES
    at,          \* what the game thread is about to do
    back,        \* where OSStopAudioSystem was called
    enabled,     \* g_ai.enabled
    dma,         \* what g_ai.startAddr and g_ai.length name
    callback,    \* whether g_ai.callback is registered
    owed,        \* g_ai.accumulatorSeconds, in blocks
    blocks,      \* blocksCompleted of the tick
    mail,        \* m_mailState
    resume,      \* m_deferredResumeCallbacks
    workerOn,    \* m_mixWorkerEnabled
    worker,      \* what m_mixThread does
    mixPending, mixBusy, mixStop,
    idleWait,    \* whether the game thread sleeps on m_mixIdle
    deferred,    \* m_deferredAux
    list,        \* the number of the command list in m_cmdList
    auxIn,       \* the m_auxIn snapshot: the last frame whose effects are in it
    shadow,      \* m_auxOut: the list that uploaded it, 0 when m_auxOutCount = 0
    auxOut,      \* the game's aux buffer: the list it is from, and whether the
                 \* game has processed it
    effects,     \* the list whose aux buffer the game processed last
    mailed,      \* what effects was when the last list was mailed (history)
    added,       \* what the last list added back to its mix (history)
    calls        \* how many of MaxCalls were made

guest == <<enabled, dma, callback>>
tick == <<owed, blocks>>
thread == <<worker, mixPending, mixBusy, mixStop, idleWait>>
mix == <<deferred, list, auxIn, shadow, added>>
aux == <<auxOut, effects, mailed>>
ax == <<mail, resume, workerOn>>
vars == <<at, back, guest, tick, ax, thread, mix, aux, calls, output>>

\* The game has set its sound up and started it; the renderer may not be there.
Init ==
    /\ OutputInit
    /\ at = "guest" /\ back = "guest"
    /\ enabled = TRUE /\ dma = "readable" /\ callback = TRUE
    /\ owed = 0 /\ blocks = 0
    /\ mail = "size" /\ resume = 0 /\ workerOn \in BOOLEAN
    /\ worker = "none" /\ idleWait = FALSE
    /\ mixPending = FALSE /\ mixBusy = FALSE /\ mixStop = FALSE
    /\ deferred = FALSE /\ list = 0 /\ auxIn = 0 /\ shadow = 0
    /\ auxOut = [list |-> 0, taken |-> TRUE]
    /\ effects = 0 /\ mailed = 0 /\ added = 0
    /\ calls = 0

\* The points where code of the game runs: outside a tick, and inside one in the
\* AI callback, between its calls, and in the resume callbacks.
GuestPoints == {"guest", "callback", "size", "address", "effects", "service"}
GuestCode == at \in GuestPoints
-----------------------------------------------------------------------------
(* Waiting for the mix. *)

\* Where each join goes on.
AfterJoin == [join |-> "ensure", mailjoin |-> "dispatch", initjoin |-> "init",
              stopjoin |-> "stop", taskjoin |-> "task"]
Joining == at \in DOMAIN AfterJoin

\* Mutant of InFlight: a list that is not begun yet is not waited for.
BusyOnly == mixBusy

InFlight == mixPending \/ mixBusy

JoinSleeps ==
    /\ Joining /\ ~idleWait
    /\ worker # "none" /\ InFlight
    /\ idleWait' = TRUE
    /\ UNCHANGED <<at, back, guest, tick, ax, worker, mixPending, mixBusy, mixStop,
                   mix, aux, output>>

\* Mutant of PublishedShadow: the shadow is kept.
KeptShadow == shadow

\* What the mix uploaded is written to the game's memory, and the shadow cleared.
PublishedShadow == 0
PublishAuxOutputs ==
    /\ auxOut' = IF shadow = 0 THEN auxOut ELSE [list |-> shadow, taken |-> FALSE]
    /\ shadow' = PublishedShadow

JoinDone ==
    /\ Joining /\ ~idleWait
    /\ worker = "none" \/ ~InFlight
    /\ PublishAuxOutputs
    /\ at' = AfterJoin[at]
    /\ UNCHANGED <<back, guest, tick, ax, thread, deferred, list, auxIn, added,
                   effects, mailed, output>>
-----------------------------------------------------------------------------
(* The mix worker. *)

WorkerTests ==
    /\ worker = "testing"
    /\ CASE mixPending -> /\ worker' = "mixing"
                          /\ mixPending' = FALSE /\ mixBusy' = TRUE
         [] ~mixPending /\ mixStop -> worker' = "ended" /\ UNCHANGED <<mixPending, mixBusy>>
         [] OTHER -> worker' = "asleep" /\ UNCHANGED <<mixPending, mixBusy>>
    /\ UNCHANGED <<at, back, guest, tick, ax, mixStop, idleWait, mix, aux, output>>

\* Mutant of AddedBack: the effects are read when the list is mixed.
AddedFromMemory == effects

\* What the running list adds back from the effects.
AddedBack == IF deferred THEN auxIn ELSE effects

\* A list may upload no aux buffer, or be aborted before it does: the worker
\* catches what the mix throws.
WorkerMixes ==
    /\ worker = "mixing"
    /\ worker' = "mixed"
    /\ added' = AddedBack
    /\ shadow' \in {0, list}
    /\ UNCHANGED <<at, back, guest, tick, ax, mixPending, mixBusy, mixStop, idleWait,
                   deferred, list, auxIn, aux, output>>

WorkerFinishes ==
    /\ worker = "mixed"
    /\ worker' = "telling"
    /\ mixBusy' = FALSE
    /\ UNCHANGED <<at, back, guest, tick, ax, mixPending, mixStop, idleWait, mix, aux,
                   output>>

\* Mutant of Told: m_mixIdle is not notified.
NobodyTold == idleWait

Told == FALSE
WorkerTells ==
    /\ worker = "telling"
    /\ worker' = "testing"
    /\ idleWait' = Told
    /\ UNCHANGED <<at, back, guest, tick, ax, mixPending, mixBusy, mixStop, mix, aux,
                   output>>
-----------------------------------------------------------------------------
(* Mail, lists and callbacks. *)

\* The AI callback makes a frame, starting with its voices, or lets it be.
AICallback ==
    /\ at = "callback"
    /\ at' \in {"size", "service"}
    /\ at' = "size" => list < MaxBlocks
    /\ UNCHANGED <<back, guest, tick, ax, thread, mix, aux, output>>

\* The mail that announces a list.
SendListSize ==
    /\ at = "size"
    /\ mail \in {"size", "next"}
    /\ mail' = "address"
    /\ at' = "address"
    /\ UNCHANGED <<back, guest, tick, resume, workerOn, thread, mix, aux, output>>

\* The mail with its address, which nobody waits for after a stop.
SendListAddress ==
    /\ at = "address"
    /\ at' = IF mail = "address" THEN "mailjoin" ELSE "effects"
    /\ mail' = IF mail = "next" THEN "size" ELSE mail
    /\ UNCHANGED <<back, guest, tick, resume, workerOn, thread, mix, aux, output>>

\* What the handler of the second mail does whoever mixes: the yield mail and
\* the resume callback are raised at once.
ListTaken ==
    /\ at = "dispatch"
    /\ list' = list + 1
    /\ mail' = "next"
    /\ resume' = resume + 1
    /\ mailed' = effects
    /\ UNCHANGED <<back, guest, tick, workerOn, mixBusy, idleWait, effects, output>>

\* The list goes to the worker, which is started if there is none; a new thread
\* may find no list yet and sleep.
DispatchToWorker ==
    /\ ListTaken
    /\ workerOn
    /\ deferred' = TRUE
    /\ auxIn' = effects
    /\ mixPending' = TRUE
    /\ mixStop' = (worker # "none" /\ mixStop)
    /\ IF worker = "none" THEN worker' \in {"testing", "asleep"} ELSE UNCHANGED worker
    /\ at' = "wake"
    /\ UNCHANGED <<shadow, added, auxOut>>

WakeWorker ==
    /\ at = "wake"
    /\ at' = "effects"
    /\ worker' = IF worker = "asleep" THEN "testing" ELSE worker
    /\ UNCHANGED <<back, guest, tick, ax, mixPending, mixBusy, mixStop, idleWait, mix,
                   aux, output>>

\* The worker is off, or its thread cannot be started: the list is mixed here.
MixInline ==
    /\ ListTaken
    /\ workerOn => worker = "none"
    /\ deferred' = FALSE
    /\ added' = effects
    /\ shadow' = 0
    /\ auxOut' \in {auxOut, [list |-> list', taken |-> FALSE]}
    /\ at' = "effects"
    /\ UNCHANGED <<auxIn, worker, mixPending, mixStop>>

\* The game works on the aux buffer, in place, and keeps the result.
ProcessAux ==
    /\ at = "effects"
    /\ effects' = auxOut.list
    /\ auxOut' = [auxOut EXCEPT !.taken = TRUE]
    /\ at' = "service"
    /\ UNCHANGED <<back, guest, tick, ax, thread, mix, mailed, output>>

ServiceDeferredCallbacks ==
    /\ at = "service"
    /\ IF resume > 0 THEN resume' = resume - 1 /\ UNCHANGED at
                     ELSE at' = "next" /\ UNCHANGED resume
    /\ UNCHANGED <<back, guest, tick, mail, workerOn, thread, mix, aux, output>>
-----------------------------------------------------------------------------
(* The tick. *)

\* Whoever polls adds the time that passed; the poll that finds no tick under
\* way delivers it. With sound stopped the time is dropped.
Least(m, n) == IF m <= n THEN m ELSE n
Poll ==
    /\ GuestCode
    /\ enabled /\ dma # "none"
    /\ \E n \in 1..CatchUpBlocks, cap \in {CatchUpBlocks, BacklogBlocks} :
          owed' = Least(owed + n, cap)
    /\ pushed + owed' <= MaxBlocks
    /\ at' = IF at = "guest" THEN "claim" ELSE at
    /\ UNCHANGED <<back, guest, blocks, ax, thread, mix, aux, output>>

EndTick == at' = "guest" /\ blocks' = 0

ClaimBlock ==
    /\ at = "claim"
    /\ IF owed = 0
         THEN EndTick /\ UNCHANGED owed
         ELSE owed' = owed - 1 /\ at' = "join" /\ UNCHANGED blocks
    /\ UNCHANGED <<back, guest, ax, thread, mix, aux, output>>

AfterPush == IF callback THEN "callback" ELSE "next"

\* Without a renderer the block is lost.
Ensure ==
    /\ at = "ensure"
    /\ \E works \in BOOLEAN : EnsureInitialized(works)
    /\ at' = IF initialized' THEN "push" ELSE AfterPush
    /\ UNCHANGED <<back, guest, tick, ax, thread, mix, aux, pushed, queue, outThread, hand>>

\* The finished block is handed over. A buffer that cannot be read turns the DMA
\* off.
Push ==
    /\ at = "push"
    /\ IF dma = "readable"
         THEN /\ PushBlock
              /\ at' = IF HasRoom THEN "notify" ELSE AfterPush
              /\ UNCHANGED <<enabled, blocks>>
         ELSE EndTick /\ enabled' = FALSE /\ UNCHANGED <<pushed, queue>>
    /\ UNCHANGED <<back, dma, callback, owed, ax, thread, mix, aux, initialized, outThread,
                   hand, ring>>

Notify ==
    /\ at = "notify"
    /\ NotifyOutput
    /\ at' = AfterPush
    /\ UNCHANGED <<back, guest, tick, ax, thread, mix, aux, initialized, pushed, queue,
                   hand, ring>>

\* A tick delivers so many blocks at most.
TickFull == blocks + 1 >= BlocksPerTick
NextBlock ==
    /\ at = "next"
    /\ IF TickFull
         THEN EndTick
         ELSE at' = "claim" /\ blocks' = blocks + 1
    /\ UNCHANGED <<back, guest, owed, ax, thread, mix, aux, output>>
-----------------------------------------------------------------------------
(* Calls of the game and of the player. *)

AIInitDMA ==
    /\ GuestCode
    /\ dma' \in {"none", "readable", "unreadable"}
    /\ UNCHANGED <<at, back, enabled, callback, tick, ax, thread, mix, aux, output>>

AIRegisterDMACallback ==
    /\ GuestCode
    /\ callback' \in BOOLEAN
    /\ UNCHANGED <<at, back, enabled, dma, tick, ax, thread, mix, aux, output>>

AIStartDMA ==
    /\ GuestCode
    /\ enabled' = TRUE
    /\ \E works \in BOOLEAN : EnsureInitialized(works)
    /\ UNCHANGED <<at, back, dma, callback, tick, ax, thread, mix, aux, pushed, queue,
                   outThread, hand>>

\* DSPAssertTask: the task is to be resumed.
DSPAssertTask ==
    /\ GuestCode
    /\ resume' = resume + 1
    /\ UNCHANGED <<at, back, guest, tick, mail, workerOn, thread, mix, aux, output>>

\* DSPAddTask configures the mixer from the task, which the mix reads; the first
\* task is asserted.
DSPAddTask ==
    /\ at = "guest"
    /\ at' = "taskjoin"
    /\ UNCHANGED <<back, guest, tick, ax, thread, mix, aux, output>>
TaskAdded ==
    /\ at = "task"
    /\ at' = "guest"
    /\ resume' \in {resume, resume + 1}
    /\ UNCHANGED <<back, guest, tick, mail, workerOn, thread, mix, aux, output>>

\* OSInitAudioSystem, and the mixer's Initialize it calls between two attempts to
\* have a renderer.
OSInitAudioSystem ==
    /\ at = "guest"
    /\ at' = "initjoin"
    /\ \E works \in BOOLEAN : EnsureInitialized(works)
    /\ UNCHANGED <<back, guest, tick, ax, thread, mix, aux, pushed, queue, outThread, hand>>
Initialize ==
    /\ at = "init"
    /\ at' = "guest"
    /\ workerOn' \in BOOLEAN
    /\ mail' = "size" /\ resume' = 0
    /\ deferred' = FALSE /\ auxIn' = 0 /\ shadow' = 0
    /\ \E works \in BOOLEAN : EnsureInitialized(works)
    /\ UNCHANGED <<back, guest, tick, thread, list, added, aux, pushed, queue, outThread, hand>>

\* OSStopAudioSystem, from any code of the game.
OSStopAudioSystem ==
    /\ GuestCode
    /\ at' = "stopjoin" /\ back' = at
    /\ enabled' = FALSE /\ owed' = 0
    /\ UNCHANGED <<dma, callback, blocks, ax, thread, mix, aux, output>>
Stop ==
    /\ at = "stop"
    /\ at' = back /\ back' = "guest"
    /\ mail' = "size" /\ resume' = 0
    /\ UNCHANGED <<guest, tick, workerOn, thread, mix, aux, output>>

\* The worker is switched on and off in the settings, while it mixes or not.
SetMixWorkerEnabled ==
    /\ GuestCode
    /\ workerOn' = ~workerOn
    /\ UNCHANGED <<at, back, guest, tick, mail, resume, thread, mix, aux, output>>

SetMuted ==
    /\ GuestCode
    /\ ApplyGain
    /\ UNCHANGED <<at, back, guest, tick, ax, thread, mix, aux>>

\* The program is left: the worker is told to stop and waited for, the renderer
\* is shut down, and the game's memory goes.
RuntimeLeave ==
    /\ GuestCode
    /\ at' = "leaving"
    /\ IF worker = "none"
         THEN UNCHANGED <<worker, mixStop>>
         ELSE /\ mixStop' = TRUE
              /\ worker' = IF worker = "asleep" THEN "testing" ELSE worker
    /\ UNCHANGED <<back, guest, tick, ax, mixPending, mixBusy, idleWait, mix, aux, output>>
Left ==
    /\ at = "leaving" /\ worker \in {"none", "ended"}
    /\ at' = "gone"
    /\ worker' = IF worker = "ended" THEN "none" ELSE worker
    /\ Shutdown
    /\ UNCHANGED <<back, guest, tick, ax, mixPending, mixBusy, mixStop, idleWait, mix, aux,
                   pushed, queue, outThread, hand>>
-----------------------------------------------------------------------------
WorkerSteps == WorkerTests \/ WorkerMixes \/ WorkerFinishes \/ WorkerTells
FrameSteps == \/ AICallback \/ SendListSize \/ SendListAddress \/ DispatchToWorker
              \/ WakeWorker \/ MixInline \/ ProcessAux \/ ServiceDeferredCallbacks
TickSteps == ClaimBlock \/ Ensure \/ Push \/ Notify \/ NextBlock
CallSteps == TaskAdded \/ Initialize \/ Stop \/ Left
OutputNext == OutputSteps /\ UNCHANGED <<at, back, guest, tick, ax, thread, mix, aux>>
Restart == ~enabled /\ AIStartDMA
Steps == \/ Poll \/ JoinSleeps \/ JoinDone \/ WorkerSteps \/ FrameSteps \/ TickSteps
         \/ CallSteps \/ Restart \/ OutputNext
Calls == \/ AIInitDMA \/ AIRegisterDMACallback \/ AIStartDMA \/ DSPAssertTask
         \/ DSPAddTask \/ OSInitAudioSystem \/ OSStopAudioSystem
         \/ SetMixWorkerEnabled \/ SetMuted \/ RuntimeLeave

Next == \/ Steps /\ UNCHANGED calls
        \/ calls < MaxCalls /\ Calls /\ calls' = calls + 1

Spec == Init /\ [][Next]_vars

-----------------------------------------------------------------------------
PlaceType ==
    /\ at \in {"claim", "ensure", "push", "notify", "dispatch", "wake", "next", "init",
               "stop", "task", "leaving", "gone"} \cup GuestPoints \cup DOMAIN AfterJoin
    /\ back \in GuestPoints
    /\ dma \in {"none", "readable", "unreadable"}
    /\ owed \in Nat /\ blocks \in 0..(BlocksPerTick - 1) /\ calls \in 0..MaxCalls
    /\ mail \in {"size", "address", "next"} /\ resume \in Nat
SwitchType == {enabled, callback, workerOn, mixPending, mixBusy, mixStop, idleWait,
               deferred} \subseteq BOOLEAN
WorkerType ==
    /\ worker \in {"none", "testing", "asleep", "mixing", "mixed", "telling", "ended"}
    /\ mixBusy <=> worker \in {"mixing", "mixed"}
AuxType ==
    /\ list \in Nat
    /\ {auxIn, shadow, effects, mailed, added} \subseteq 0..list
    /\ auxOut \in [list : 0..list, taken : BOOLEAN]
TypeOK == OutputType /\ PlaceType /\ SwitchType /\ WorkerType /\ AuxType

\* What the mix reads and writes is the mix's own while it runs: when the game
\* thread reads the finished block, writes the voices, replaces the command list
\* or resets the mixer, no list is waiting or being mixed and nothing it uploaded
\* is still to be published; and the worker is gone before the memory is.
Mixing == mixPending \/ worker = "mixing"
Alone == {"push", "callback", "size", "address", "dispatch", "init", "stop", "task"}
MixIsAlone ==
    /\ at \in Alone => ~Mixing /\ shadow = 0
    /\ at = "gone" => worker = "none"

\* Wherever and whenever a list is mixed, what it adds back from the effects is
\* what the game had made of them when it sent the list.
MixReadsTheMail == list > 0 /\ ~Mixing => added = mailed

\* Each list's aux buffer reaches the game once, and never after a later one: a
\* buffer the game has processed is not put back.
AuxMovesOn ==
    [][auxOut' # auxOut => \/ auxOut'.list > auxOut.list
                           \/ auxOut' = [auxOut EXCEPT !.taken = TRUE]]_vars

\* Blocks are played whole, in order and once, and lost only where there is too
\* much sound on its way.
Sound == INSTANCE SoundLine WITH line <- Line, next <- pushed + 1, open <- initialized
ImplementsLine == Sound!LineSpec

\* Nobody sleeps through what it waits for: a game thread asleep in a join has a
\* mix to wait for or is about to be told, and a mix waits for a worker that is
\* awake or about to be woken, as do the end of the program and a queued block.
NoLostWakeup ==
    /\ idleWait => Joining /\ (InFlight \/ worker = "telling")
    /\ mixPending => worker \in {"testing", "telling"} \/ at = "wake"
    /\ at = "leaving" => worker \in {"none", "ended"} \/ (mixStop /\ worker # "asleep")
    /\ queue # <<>> => outThread \in {"testing", "holding"} \/ at = "notify"
=============================================================================
