# A TLA+ model of libdol-nx

libdol-nx runs statically translated Wii programs natively. The translated code
is called *guest* code; the C++ under `src/src` replaces the Wii's SDK and
hardware: OS threads, mutexes, message queues, alarms, DVD, network, video, audio.
All guest threads run as fibers of one host thread, and every fiber switch
happens inside a native call. That single fact drives the specification: a
native call that can reach `SelectThread` may be cut in two, and whatever it
read before the cut may be stale after it.

The specification covers the OS kernel (threads, mutexes, sleeping, message
queues, alarms), because everything else blocks and wakes through it, and then the parts that
meet the outside: deferred network calls, retraces and presents, the sound path with its host threads,
the disc with mods laid over it, and titles installed into a NAND.

Paths below are relative to `src/src` unless they begin with `src/`.

## 1. Inventory

| Component | State | Operations | Talks to | What is hard | What makes it correct |
|---|---|---|---|---|---|
| **Guest thread scheduler** `platform/os/os_scheduler.cpp`, `os_thread.cpp`, `os_sleep.cpp` | guest-memory OSThread/OSMutex structures, 32 run queues and their pending mask, current-thread and current-context words, the reschedule hint, the scheduler-disable count, `gSleepTimers` | OSCreateThread, OSResumeThread, OSSuspendThread, OSExitThread, OSCancelThread, OSJoinThread, OSDetachThread, OSYieldThread, OSSleepThread, OSWakeupThread, OSSleepTicks, OSLockMutex, OSUnlockMutex, OSDisableScheduler, SelectThread and its idle loop | fibers (switch), VI/DVD/network (wake-ups), alarms | native frames resumed later; timers pumped from nested stacks; priority inheritance through chains; threads ended in any state; structures used again | mask and queues agree; queue links and states agree; exactly one runner; sorted queues; inheritance; no sleeper on a free mutex; no lost timer; the end of a thread releases what it holds |
| **Guest fibers** `cpu/fiber_manager.cpp` | fiber table, current guest thread, terminated and pending-destroy flags | CreateGuestThread, SwitchToThread, SuspendGuestThread, TerminateGuestThread, FiberProc's return path | scheduler, host contexts | the scheduler fiber is also the default thread's stack; return of an entry function repeats OSExitThread by hand | one fiber runs; a terminated fiber is never resumed; a return leaves what OSExitThread leaves |
| **Safe points** `platform/os/os_safepoint.cpp` | the request flag and the guards of nested delivery | GuestSafePoint | VI, alarms, audio, scheduler | nested delivery; interrupts of a thread that never calls the OS | preemption reaches a spinning thread |
| **Message queues** `platform/os/os_message.cpp` | ring buffer, used count, two thread queues | OSInitMessageQueue, OSSendMessage, OSReceiveMessage, OSJamMessage | scheduler | wrap in both directions; wake-ups sent to several sleepers for one slot | a double-ended channel; no lost wake-up |
| **Alarms** `platform/os/os_alarm.cpp` | sorted doubly linked list, `g_alarmProcessDepth` | OSSetAlarm, OSSetPeriodicAlarm, OSCancelAlarm, ProcessAlarmQueue, deferred processing | scheduler, VI, DVD, network | handlers that set and cancel alarms, that make threads ready; a guard held across a fiber switch; signed and unsigned time tests | sorted list; an alarm fires once per due time; alarms go on firing |
| **Interrupts, contexts, boot, reset** `os_interrupt.cpp`, `os_context.cpp`, `os_init.cpp`, `os_reset.cpp` | interrupt level, handler table, saved contexts | OSDisableInterrupts and friends | all | none beyond single words | - |
| **OS services** `os_cache.cpp`, `os_report.cpp`, `os_time.cpp`, `c_stdio.cpp`, `trk.cpp` | clock offset | clock, logging, cache operations | - | arithmetic of ticks | - |
| **Host contexts** `cpu/host_context.cpp` | host stacks | create, switch, release | fibers | a stack freed while it runs | a live fiber's stack stays |
| **setjmp/longjmp** `cpu/guest_jmp.cpp` | table of live jump buffers | set, jump | fibers | jumps between fibers, stale buffers | a jump goes to a live frame of the same fiber |
| **CPU and memory** `cpu/memory.cpp`, `ppc_helpers.cpp`, ... | guest memory, registers | loads, stores, dispatch | all | arithmetic only | instruction semantics |
| **DVD drive** `platform/fs/dvd.cpp` | the file entries, the table published to the guest, the ranges of the disc, the host files kept open | DVDInit and its prescan, reads by handle, by disc offset and by low-level command | Riivolution, host file system | which of several mods wins; listings that fail half way; files cut or deleted under the game; made-up disc ranges | the file that outranks the others is read; ranges stay apart; a read delivers what was asked for or fails |
| **Riivolution** `platform/fs/riivolution.cpp` | the parsed packs and their choices | apply the remembered choices, the pins, collect the patches | DVD | overlapping options; choices that are out of range | the selected patches, in order |
| **Video** `platform/system/vi.cpp` | retrace counter and clock, pending and active buffers, the advance and present guards, the retrace queue | AdvanceRetrace, deferred retraces, VIWaitForRetrace, VIFlush, the copy of a frame, presents | scheduler, alarms, GX | callbacks that block or call back under the guard; retraces inside presents inside retraces | a copy is presented once; a wait takes a retrace; waits end |
| **EXI, bridge** `platform/system/exi.cpp`, `system_bridge.cpp` | device registers | forwarded accesses | host | - | - |
| **Network IOS** `platform/net/*.cpp` | socket slots and their generations, parked polls and connects, DNS jobs, results and callbacks not yet delivered, SSL sessions | socket calls, asynchronous ioctls, the completion pump | host threads, scheduler | a late completion for a thread that was cancelled or a socket that was closed and opened again | an answer reaches the call it belongs to, once; waiting calls come back |
| **Audio** `platform/audio/*.cpp` | the AI DMA state, the mails and command list of the AX mixer, the flags shared with the mix worker, the shadow of the aux buffers, the queue to the output thread and the ring of the renderer | AI and DSP calls, the tick that delivers blocks, joins, the mix worker, the output thread, leaving the program | scheduler (safe points), three host threads, audren | a worker that mixes while the game goes on; two condition variables; buffer states that are only refreshed on demand; blocks that do not divide buffers | the mix is alone with what it reads; effects go in as mailed; no lost wake-up; blocks are played whole, in order, once |
| **Graphics FIFO** `platform/gx/*.cpp`, **host GPU** `platform/gpu/*.cpp` | FIFO pointers, texture cache, device objects | decode, draw, draw-done | safe points | draw-done token and waiting threads | a waiting thread sees its token |
| **Input** `platform/input/*.cpp` | polled pads | read | - | - | - |
| **NAND store** `format/nand/store.cpp` | tickets, TMDs, contents, the shared contents and their map | install and remove a title, resolve its contents | host file system | a write that fails or is cut short; contents shared by titles and versions | the map names what is there; a title reported installed is complete |
| **Other formats** `format/**` | - | read discs, archives, media | DVD | pure functions of their input | - |
| **Library accelerators** `accel/**` | - | pure functions | - | numeric | equal to the guest code |
| **Application, launcher** `app`, `launcher` | settings, UI | - | - | - | - |
| **Translator** `src/translator` | - | offline compiler in C# | - | - | - |

## 2. What is modelled

### MessageQueue, MessageChannel

`MessageQueue` is `os_message.cpp`: the ring in guest memory with the index
arithmetic of `MsgQueueEnqueue`, `MsgQueueJam` and `MsgQueueDequeue`, and
`MsgQueueOp`, the loop the three operations share. One turn of that loop runs
with interrupts off and without a switch up to its wake-up or its sleep, so
`Call` (the first turn) and `Retry` (a turn after a wake-up) are single
steps. Which of several ready threads retries first is left open: every order the
scheduler could choose is covered. `Cancel` is OSCancelThread on a thread that
is inside an operation.

`MessageChannel` is the promise: a bounded double-ended channel where send
appends, jam prepends and receive takes the first. `ImplementsChannel` maps the
ring to the channel's contents; all the blocking is stuttering.

`msgCount = 0` is excluded by `CapacityAssumption` (the SDK requires a buffer). `ThreadAssumption` says that no more than
256 threads use the queue, since OSWakeupThread wakes `kMaxWake` at most. The
module leaves out who is running, so an operation that spins because the
scheduler is disabled is not seen.

### GuestThreads

`GuestThreads` is the scheduler, the thread and mutex calls, sleeping and the
part of the fiber manager that switches stacks.

*State.* The OSThread, OSMutex and OSThreadQueue fields are one variable
each (`state`, `suspend`, `prio`, `base`, `queue`, `waitMutex`, `held`, `q`,
`owner`, `count`, ...), the fixed low-memory words are `pending`, `resched`,
`disabled`, `running` and `current`, the host side is `timers`, `active`,
`curGuest` and `dead`. A queue is a sequence of threads rather than a linked list;
`queue[t]` is kept as the separate pointer it is in the code, because half of
the hazards are about it being stale.

*Stacks.* `stack[t]` is the native call stack of fiber `t`: the frames of calls
that have begun and not returned. A step runs the top frame of the active
fiber up to its next call; a switch changes `active` and leaves the stacks alone. So
a thread that is woken returns into the middle of OSLockMutex or of a timer
pump exactly as the host stack does. Guest code runs (`GuestCode`) when the
active stack is empty, and only then may a new OS call begin.

*Default thread.* Its fiber is the scheduler's own host stack
(`RegisterMainThreadAsFiber`), so the return of an entry function, which
switches to the scheduler fiber, continues the default thread wherever it
slept. `ReturnFromEntry` models that.

*Time and interrupts.* When a timer is due is a choice (`TimersDue` and the
pump it starts); an interrupt at a safe point is `Interrupt(w)`: a handler that
wakes a queue, then the reschedule test. What a real handler does beyond that
belongs to the components it lives in.

Queues and held lists are sequences of distinct threads or mutexes; `RemoveFirst` and `Kept` are what unlinking a node
and waking part of a queue do to them. The code unlinks a thread from whatever list its queue pointer names, without looking whether it is there;
`Unlinked` leaves a queue alone that the thread is not in, a case that `QueuesWellFormed` shows is not reached. One turn of the idle loop delivers a
retrace, sleep timers and audio before it looks at the pending mask, so `IdleInterrupt` and `IdleTimer` may wake several threads before `IdleEnds`. A joiner can be lost: while one thread that has ended wakes the waiters of its mutexes, another may join it,
which frees its structure, and create a thread in it anew, and OSCreateThread empties the queue of joiners
(`os_thread.cpp`). That and `exit_holding` are why what is proved of joiners is about games that end threads without mutexes.

Restrictions on the guest, all of them enforced by guards named for them or by the call
sets of a run: the default thread does not exit, is not cancelled and does not return; no
thread exits, cancels or suspends itself while the scheduler is disabled;
OSCreateThread gets a structure that is free; OSJoinThread does not get one that is free.
Not modelled: the reconciler of `gOutstandingParks` (in
every state reached it would find nothing, since `NoStrandedSleeper` holds), the limit
of 64 timers per pump, and `VI_HLE_IsAdvancingRetrace`, which defers the switch of a
wake-up made under a retrace. The branches of SelectThread for an empty run
queue with its bit set, and for a terminated pick, are left out because
`PendingMaskExact` and `LifeCycle` say that they are not reached.

### Alarms, AlarmClock

`Alarms` is `os_alarm.cpp`. The alarm queue is kept as the pointers it is: `links` has
head, tail, and every alarm's `next` and `prev`, with SanitizeAlarmQueue's self-linked
node among the initial states. `fire`, `period`, `start` and `handler` are OSAlarm's
fields. `pc`, `left` and `deferred` are where each context stands in
ProcessAlarmQueue; a context is a guest thread or the idle loop. At most one pump is
under way per context, since handlers cannot start another (`MayPump`).

The pump is entered in three ways: deferred at a safe point, with the scheduler disabled
throughout (`SafePoint`); by the idle loop, which is never switched away from inside a pump
because its context is not that of a running thread (`IdlePump`); and by a guest thread with the
scheduler enabled (`RFLiIsWorking`, and `CancelAlarm`, because the guest library's
OSCancelAlarm sets the decrementer when the head changes, and `PPCMtdec` pumps). A handler is
guest code and makes the calls `HandlerCalls`.

The scheduler is reduced to what the pump can tell: constant priorities, `ready`, the hint and
the disable count; `GuestThreads` has the rest. OSCancelAlarm is not part of the
repository (it is the game's own code) and is modelled from the layout and the calls
`os_alarm.cpp` and `os_init.cpp` expect of it. An alarm is not set while it is armed, as the SDK requires. Times
stay below 2^63. Alarms without a handler, the Mario Kart Wii build's translated InsertAlarm and
`VI_HLE_IsAdvancingRetrace` are left out.

`AlarmClock` is the promise: a deadline per alarm; alarms go off when due, in
the order of their deadlines, and are then off or armed for later. `Deadline` maps the linked list to
it, so `ImplementsClock` says in one formula that no insertion or removal loses,
duplicates or misplaces an alarm.

### Network, Requests

`Network` is the deferred part of the network IOS: `network_deferred.cpp` with its two contract
headers, the life of a socket slot in `network_socket.cpp` and `network_core.cpp`, and the SSL sessions of
`network_ssl.cpp`. A guest thread that looks up a name, polls, or connects a blocking socket parks a
job (`lookups`, `polls`, `connects`) and sleeps on a queue in its own stack frame; the frame holds a token,
`cookie[t]`. `ProcessCompletions` is the pump: one action, in the code's order, takes the finished lookups, decides
the polls and the connects, commits each result to the waiter whose frame still has its token and wakes
it, or queues a callback. Which descriptors are ready is the host's choice (`host`), as is when a DNS worker
ends. `CancelThread` and `CreateThread` stand for a thread that goes away in the middle of a call and a new one
whose stack is the same memory; host descriptors and socket slots are reused as the host and
`NewSocket` reuse them. SSL sessions are free to share a socket: `SslConnect` and `SslReroute` take any socket that is open, as the
code does. A socket's `generation` is the 32-bit counter, which is taken not to wrap.

What is sent and received, the plain non-blocking calls, the contents of an SSL session and the wording of
errors are left out. `results` records that a token was answered, not with what: the answer's value is a pure function of
what the host says.

`Requests` is the promise: a call is made, is answered at most once, its thread stays in it
until its own answer, and a thread that has gone is not woken. `ImplementsRequests` maps the parked jobs to it.

### NandStore

`NandStore` is `InstallTitle`, `RemoveTitle` and the readers `ResolveContents` (`Bytes`) and
`InstalledTitles` of `format/nand/store.cpp`. An installation is one step per file it writes, in the
code's order: ticket, TMD, contents, and the map of shared contents last. `Interrupt` ends it at any
point, with the file that was being written whole, torn or not there. A content is its SHA-1, since
that is all the code compares. The map is a sequence whose positions are the names; a map stored in the
other byte order is turned when it is loaded and is the same map. The map itself torn is in the model too
(`mapTorn`): it then keeps its first entries.

### DiscIndex, Riivolution, Drive

`DiscIndex` is what becomes of an extracted disc and the mods laid over it: the prescan of the disc by Horizon's
own listing with its fall-back, `DVDInit`, the overlays in reverse discovery order with the file and
folder patches of each (replace, create, by name), `BuildAndPublishRuntimeFst` with the ranges it makes
up for files that are not on the real disc, and the reads: by handle (`ReadHandle`), by
disc offset given in bytes or words (`ReadAbs`), and by DVDLowRead. A mapping is walked file by file in any order, for
directory order is the host's, and the card may stop listing at any file. `Riivolution` holds the choice of
options: a pack's defaults, the remembered choices, the pins, and the patches they select. `HostChanges` cuts
or deletes a file under the running game; a file that is still kept open can be read after it is deleted.

Names are model values: comparing and joining paths, XML and case folding are left out. Reads complete at once, since
`kDvdAsync` is a `constexpr false` in this tree, and the worker thread, its completion list and the sleeping readers
of `dvd.cpp` are dead code; that is why no interleaving of reads is modelled.

`Drive` is the promise to the game: until it is mounted, files are put at paths and replaced;
from then on a read delivers exactly the bytes asked for, of the file asked for, or fails, and fails only
if the file lacks them. `ImplementsDrive` shows that entries, ranges, searches and open files add up to that.

### Video

`Video` is `vi.cpp` in the build that draws with libdol's own renderer. Everything runs on one host
thread, and what makes it hard are calls inside calls: a retrace runs the game's callbacks, which
copy, flip, poll and block; a present that has to wait for its boundary runs alarm handlers, which may
do the same, and then delivers a retrace of its own. `advance` is the retrace being advanced (with
`s_inAdvanceRetrace`), `present` the present sequence (with `s_presentSequenceActive`) and `Inside` says which of the two is on top of
the host stack. `BeginRetrace` is AdvanceRetrace up to its first callback, `Show` its end;
`PresentFrame`, `PaceEnds` and `Seal` are VI_HLE_PresentFrame. A callback that blocks parks its fiber with the
guard held (`CallbackBlocks`). `OnScreen` is what the renderer is given to show, chosen by the pending values, and `screen` is what presents have made of the last copy:
`new`; `uncovered`, shown by a black present and still ready; `taken`, presented as the game's frame (`presentedXfb`); or that `again`.

The clock counts whole intervals since the last retrace (`late`), and of the retrace counter only the
distances the code compares are kept. Field parity, display geometry, the timing registers and
the other renderer's build are left out, and so are the getters' return values.

### Audio, AudioOutput, SoundLine

`AudioOutput` is `audio_backend.cpp` as built for the Switch. Sound is counted in units that divide both a
block and a wave buffer. `PushBlock` converts a block and queues it, or drops it when the queue is full;
`TakeBlock` and `SubmitConverted` are the two halves of a turn of `OutputLoop`; `AppendSamples` copies a block
across buffers. `playing` is what the renderer has not played yet, and `seen` what the buffers' states
say of it: the renderer goes on by itself (`Render`), and only an `audrvUpdate` makes that visible. `Held` is
QueuedBytesLocked, which starts with such an update.

`Audio` adds the game thread and the mix worker. `at` is what the game thread is about to do: a tick claims a
block that came due, joins the mix, hands the finished block over and runs the AI callback, in which the game
sends the next command list by two mails and processes the effect buffers. The list goes to the worker
(`DispatchToWorker`) or is mixed in place (`MixInline`). `JoinSleeps`, `JoinDone`, `WorkerTests`,
`WorkerFinishes`, `WorkerTells` and `WakeWorker` are the condition variables, with every notification a
step of its own. What the worker uploads for the effects goes to `shadow`, and `JoinDone` publishes it;
what it adds back was copied to `auxIn` when the mail came. `added`, `mailed` and `effects` are
history: which list's effects the last mix read, and which the game had when it mailed that list. The
calls of the game beside its frames (`Calls`) may come from any point where guest code runs, and each
may be one that never returns to the tick.

`SoundLine` is the promise: a line of sound, block after block, from whose front the renderer plays. A block
is lost only whole, and only when the queue is full, when more sound than the limit is in front of
it, or when there is no renderer. `ImplementsLine` maps ring, hand and queue to that line.

Left out: what is mixed (voices, volumes, sample rates, the effects themselves), the mails for the CPU,
the bytes left of a DMA block and fractions of its duration (time is a number of blocks), a change of the sample
rate, and an exception thrown by a list that is mixed in place.

## 3. Runs

| Run | Instance | Shows |
|---|---|---|
| `message_queue` | 3 threads, 2 messages, 2 slots, `FairSpec` | `NoLostWakeup`, `ImplementsChannel`, `BlockedMakeProgress`: two slots wrap in both directions and are empty, half full and full with sleepers on either side |
| `guest_threads` | 3 threads, 2 mutexes, six kinds of game: locks (3 priorities: a chain of two owners needs exactly three threads and two mutexes), preemption (every blocking call, interrupts, timers, disabled scheduler, suspension to depth 2), life (create, exit, cancel, join, detach, structures created again), cancellation (while holding, waiting and suspended, detached or not), sleeps (two sleepers are what it takes for one timer pump to be nested in the middle of another) and entry functions that return while the default thread sleeps | `TypeOK`, `QueuesWellFormed`, `QueuesMatchStates`, `MutexDiscipline`, `OwnersInherit`, `PriorityRespected`, `OneRunner`, `TimersBelongToSleepers`, `LifeCycle`, `JoinersWokenAtEnd`, `NoStrandedSleeper` |
| `alarm_queue` | 3 alarms (an insertion in the middle needs three), 1 thread and the idle loop, all ways to pump, 2 alarms per pump, clock to 1 with period 1 and starts 2 ticks back | `TypeOK`, `ListWellFormed`, `ImplementsClock` |
| `alarms_go_off` | 2 alarms, 2 threads of different priority and the idle loop, clock to 3 with period 2 and starts 1 tick back; pumps at safe points and in the idle loop, and handlers that cancel; `FairSpec` | `HandlersRunAlone`, `SchedulerRestored`, `DueAlarmsGoOff`, `PeriodicOnGrid`: with half of all times off the grid, and pumps that come when the clock is at any of them |
| `network` | 1 thread whose frame is used again, 1 socket slot over 2 host descriptors with 3 generations, 2 SSL sessions that may share the socket, 2 deferred calls; `FairSpec` | `CallersAreServed`, `PeerIsOwn`, `SessionFollowsSocket`, `ImplementsRequests`, `CallsComeBack`: the frame, the slot and the descriptor are each used again while an earlier call is still parked, and one session reroutes the socket of the other |
| `nand_store` | 2 versions of a title with different contents, another title that shares a content with each; every write cut short | `MapNamesWhatIsThere`, `InstalledIsComplete` |
| `disc_index` | 6 discs: with and without mods that replace (by a file that reaches into the next), add, pin and replace by name; listings that fail; a disc that does not fit, one without files | `TypeOK`, `OverlaysOutrank`, `SyntheticApart`, `ImplementsDrive` |
| `audio` | 3 blocks, 2 to a tick; 2 units to a block and 3 to each of 2 buffers, so that a block goes across buffers; a limit of 5 units, a queue of 1 block; 1 call of the game beside its frames | `MixIsAlone`, `MixReadsTheMail`, `NoLostWakeup`, `AuxMovesOn`, `ImplementsLine`: the third list meets the worker in each of its states, and the ring, the queue and the limit are each reached |
| `video` | 2 threads, 1 buffer, 2 retraces at a poll, far behind after 1 interval, 1 call made from inside a call; `FairSpec` | `XfbPresentedOnce`, `WaitsPaceTheGame`, `WaitsEnd` |

All calls of GuestThreads together are out of TLC's reach, so a game (chosen in the initial state,
constant from then on) fixes the calls a program makes, its threads, mutexes and priorities; each game combines the
calls that interact, and together they take every disjunct of `Next`. Some properties, or
parts of them, are conditions on the game, each named where it is defined: `PriorityRespected` on games that neither disable the scheduler nor cancel,
`NoStrandedSleeper` on games that suspend nobody, and `OneRunner` and the last part of `MutexDiscipline` on games
whose entry functions do not return. `MaxSuspend`, `MaxCount` and `MaxDisabled` bound
what the guest may count up (1 suffices to be non-zero; the preemption game has depth 2 of suspension
and of a mutex). `MaxWake` is the code's 256, far above the
threads of a run, so the cap on one wake-up is never hit.

`network`, `disc_index` and `audio` do not check deadlock: with `MaxToken` calls made and `MaxGeneration`
sockets opened the first stops, a disc that cannot be published halts the game, and a program may be left, or
hand over all its `MaxBlocks` blocks. `MaxToken` and
`MaxGeneration` are the bounds of `Network`, and its run looks at the second session only in games that have made one deferred call at most
(`SecondSessionEarly`; calls and sessions meet in the sockets only, and the theorems of `NetworkProofs` do without it); `NandStore` has none. In `Video`, `CatchUp` (8 in the code), `FarBehind` (4) and
`Unflipped` (3) are the code's limits made small, each still larger than what it is compared with
first; `MaxCalls` is the one bound that is not the code's, and the proofs do without it. In `Audio` the sizes, `BlocksPerTick`,
`CatchUpBlocks` and `BacklogBlocks` are the code's limits made small, in the same order of size where
the code depends on it (`OutputAssumption`); `MaxBlocks` and `MaxCalls` are bounds of the model, and the proofs hold for all of them.

### Where the code does not do what its comments say

| Run | Property | What happens |
|---|---|---|
| `exit_holding` | `JoinersWokenAtEnd` | OSExitThread of a mutex owner wakes the waiter, which switches away from the dying fiber before `WakeThreadJoiners` (`os_thread.cpp:311`); its joiners sleep on |
| `stale_timer` | `TimersBelongToSleepers` | the timer of a cancelled sleeper survives, and starts the next thread created in the same structure |
| `guard_carried` | `GuardNotCarried` | a pump on a guest thread reschedules after a handler inside the scope of its guard (`os_alarm.cpp:327`); the thread switched to finds the guard taken and processes no alarm until the first one runs again |

The same properties hold in passing runs whose guest avoids the triggering
calls, which locates the trouble: `JoinersWokenAtEnd` in the life and cancellation games (nobody joins the owner
of a mutex), `TimersBelongToSleepers` in the preemption game (no cancellation). `GuardNotCarried` has no
passing run: a pump on a guest thread is enough.

Four more observations come out of the same model when calls are added to a passing run
(the lines are those that make the difference):

- `LockMutex` in the game of returning entry functions violates `OwnersInherit`: an entry function that
  returns keeps its mutexes, which OSExitThread would release (`cpu/fiber_manager.cpp:781`), and its
  waiters no longer raise it.
- `JoinThread` in the game of returning entry functions violates `QueuesWellFormed`: the default thread joins a
  thread that returns, continues while READY and linked on a run queue, and is linked again by
  its next sleep (`cpu/fiber_manager.cpp:815`); `YieldThread` and interrupts get it there too. With `SuspendThread`, it can go on with the
  priority 32 of a suspended waiter, and SelectThread then links it on a run queue that does not
  exist (`TypeOK`).
- `DetachThread` in the game of returning entry functions violates `LifeCycle`: a detached thread that returns stays
  in the list of active threads (`cpu/fiber_manager.cpp:785`).
- Sleep timers are looked at by SelectThread and the idle loop only, so a due sleeper of
  better priority sleeps on while another thread spins at safe points and nothing raises the
  reschedule flag (`os_safepoint.cpp:45`). The model promises no liveness of OSSleepTicks.

What the later modules met and leave as the code has it; a property that could not hold
because of one of these says so where it is defined:

- *Network.* `network_deferred_contract.h` says that a retained host socket stays non-blocking;
  SSL_CONNECT makes it blocking for the handshake and waits up to 10 seconds in
  `FinishNonBlockingConnect` on the host thread, during which no guest thread runs. Nothing keeps two SSL sessions from one
  socket. When the second is rerouted to port 80 (`network_ssl.cpp:629`), ReconnectWiiSocket closes the host descriptor the first one has and tells only the session
  that asked; the first goes on with a closed descriptor, which the host may give to another socket. `SessionFollowsSocket` excepts this way of losing the descriptor, says that it is the
  only one, and that the session goes when the socket is closed.
- *NAND.* RemoveTitle removes the contents of the TMD that is there; the files of the version before
  an upgrade stay (`store.hpp`: "Removes a title's own files"). After an upgrade that was
  cut short, ResolveContents may call a content present that is the old version's file of
  the same id. Both are about titles that were never reported installed in that state:
  `InstalledIsComplete` speaks of those that were.
- *Disc.* On a disc without files of its own, the first made-up range starts at offset 0, which
  stands for "no file" elsewhere. Two entries that start together (an empty file on the real disc beside
  another) are told apart by the order `std::sort` leaves them in. A disc offset that is a
  byte place in one file and a word place in another is taken for the first. A read by place of length 0
  asks for the rest of the file and is not checked against the game's memory. A file that replaces a
  smaller one on the disc reaches into the next one's range; only made-up ranges are kept
  apart (`SyntheticApart`). A listing that fails in the middle (`fsDirRead`) is
  kept as it is; the comment about a partial listing being redone holds of directories that cannot be opened.
- *Video.* `vi.cpp:570` says that VISetBlack(TRUE) "shows only the clear color". AdvanceRetrace decides on a black present by the committed `g_vi.black`, and
  VI_HLE_PresentFrame then chooses what to show by `pendingBlack` (`vi.cpp:1150`). While VISetBlack(FALSE) is not flushed and committed, a black present therefore shows
  the pending buffer, leaves `hasValidXfb` set, and the same copy is presented once more by the next flip or retrace (`screen` is `uncovered`, then `taken`). Conversely, a frame
  presented while black is pending counts as presented though the screen showed black. `XfbPresentedOnce` is about what is presented as the game's frame, and
  promises nothing of black presents. VIGetRetraceCount, VIGetNextField and VIGetNextFrameBuffer set r3 and then poll; a retrace
  that is due leaves its own values in r3. A retrace may show a copy before it is flipped,
  where `vi.cpp:1417` says that the renderer presents at the flip; a copy that a handler makes
  while a present paces is forgotten when that present ends. The statics of VIWaitForRetrace are
  shared by all waiting threads. Values set after a flush are committed with it. `VI_HLE_PollRetraceIfDue`
  has no caller. VIWaitForRetrace inside a deferred callback, where the scheduler is disabled,
  would spin; games do not wait in callbacks.
- *Audio.* A comment in `app/settings_overlay.cpp` (line 1011) says that SetMixWorkerEnabled joins an in-flight
  mix; it only sets a flag, and the next list decides. When the worker is switched off and on between frames
  the game may process one aux buffer twice, since a list mixed in place writes it at once and the next list's
  comes with a join; `AuxMovesOn` says no more than that none comes back. The mails for the CPU pile up in
  `m_cpuMails`, which only DSPReadMailFromDSP empties; no code of this tree calls it, and every list adds one.
  PushSamplesLE16, the way for a DMA buffer that is not one piece of host memory, goes to the ring past the
  output queue, so such a block can overtake those that are queued; the model's buffers are readable in one piece or not at all.
  A tick computes the duration of a block once, so a DMA started by a callback takes effect on time with the next tick.

### Fairness

`MessageQueue!FairSpec` has weak fairness of `Retry(t)`: a woken thread gets to run. The
scheduler gives that to a thread no better thread starves, which is the
situation the two liveness properties describe.

`GuestThreads` states no fairness: its properties are safety properties.

`Alarms!FairSpec` has weak fairness of native steps, handlers' returns among them, and strong
fairness of `SafePoint`: translated code tests for one at every backward edge. It assumes
nothing of threads ever sleeping. The clock need not advance: the property is about
alarms that are due. Periodic alarms start in the past (`Leads`). One that
starts at exactly the current tick is inserted for the same tick again, since the comparison in
`InsertAlarmNative` is strict, and goes off again and again until the clock moves.

`Network!FairSpec`: the pump runs (it is called by the idle loop and at safe points, and the property
needs no more than that it runs again and again), DNS workers end, and timeouts come. It does not assume that a host connect is ever settled:
such a call comes back by its time limit.

`Video!FairSpec`: the host clock moves, callbacks and alarm handlers return, what a thread
blocks for comes, and the idle loop polls when nothing is ready. Strong fairness of `Switch(t)`
says that no ready thread is starved for ever by better ones, which is a condition on the game; strong
fairness of `ProcessRetracesDeferred(0)` is the watchdog's: it raises the
safe-point request every few milliseconds, the request stays until it is answered, and translated code tests for it
at every backward edge.

`NandStore`, `DiscIndex` and `Audio` state no fairness. That nobody in the sound path sleeps for ever is
stated as an invariant instead (`NoLostWakeup`): whoever sleeps has been told, or is about to be.

## 4. Proofs

`MessageQueueProofs`, for every capacity, set of threads and set of messages:

- `TypeCorrect`: `Spec => []TypeOK`, which is not a property of the run, since it is proved. `TypeOK` is inductive by itself; the work is in the
  lemmas on modular indices (`Wrap`, `WrapInRange`).
- `WakeupsSuffice`: `Spec => [](NoLostWakeup /\ SleepersAreWaiting)`. The pair is inductive
  together with `TypeOK`. `NoLostWakeup` alone is not: a wake-up empties the
  opposite queue, and that the operation which wakes the receivers is the one that fills the
  queue needs the kind of each sleeper's operation.
- `RingImplementsChannel`: `Spec => ImplementsChannel`. Every step of the ring is a step of the
  channel or leaves `Contents` alone. `Contents` is compared position by position
  (`IsAppend`, `IsCons`, `IsTail`); that no two positions share a slot (`SlotsDistinct`) is
  the injectivity of `(firstIndex + i) % Capacity`.

`GuestThreadsProofs`, for every set of threads, mutexes and wait queues, all priorities, bounds and games:

- `SchedulerInvariant`: `Spec => [](NoReturn => Good)`. From it follow `ThreadTypes` (`TypeOK`), `QueueDiscipline`
  (`QueuesWellFormed`: links, order and the exact mask of pending run queues), `OneThreadRuns` (`OneRunner`) and `EndedThreadsStayAway`
  (`LifeCycle`). `Good` adds to `TypeOK` three things. `QueueInv` says in which queue a thread belongs (`Home`, from its state, suspension
  and priority), that it is there, once, and that its queue pointer says so; every action is then a removal, an insertion or a
  wake-up of threads that move home (`TakenOut`, `PutIn` and the lemmas beside them). `FiberInv` says what the active
  fiber still has to do. It is in one of five modes: `Executing` the running thread; `Arming`, between arming the timer of a sleep and
  suspending itself; `Leaving`, asleep or ended, on its way to SelectThread; `Picking`, with the run queues not empty; `Idle`, in the idle
  loop. Without it nothing is inductive: SelectThread puts the running thread in a run queue, and that the thread is not in
  one already follows from where the call comes from. `LifeInv` is about ended threads, armed timers and the count of a mutex.
- `NoReturn` is the game in which no entry function returns. At the end of FiberProc the host goes on with the default thread's
  fiber, wherever that was left and whatever the OS has that thread waiting for, so that a fiber executes calls of a thread the scheduler
  does not have running; the modes do not describe that, and what returning does is only model-checked.
- `LocksInvariant`: `FewThreads` implies `Spec => [](Orderly => Good /\ LockInv)`. From it follow `MutexesInOrder` (`MutexDiscipline`, in `Orderly` games),
  `JoinersWoken` (`JoinersWokenAtEnd`) and `StatesMatchQueues` (`QueuesMatchStates`), both in `Settled` games. `LockInv` says that
  whoever is about to sleep on a mutex finds it taken, and on a thread that is not over (`StackInv`: the top of the active stack is on
  its way there, and no other stack is); that a thread waits for a mutex as long as its OSLockMutex lasts (`WaitInv`); that owners
  and held lists agree (`HeldInv`); and that whoever freed a mutex or ended goes on to wake its queue next (`FreeInv`, `EndInv`, `JoinInv`).
- Their hypotheses are the code's. `FewThreads`: OSWakeupThread wakes `kMaxWake` (256) threads at most, so with more asleep on one
  mutex some would stay. `Orderly` and `Settled`: a thread that ends wakes the waiters of each of its mutexes and then its joiners, and each wake-up may
  switch to another thread, for good, since the one that ended is in no queue. So a game that ends threads has one mutex
  (`Orderly`) or none (`Settled`). With one, joiners may sleep on, as `exit_holding` shows; with two, the second may stay locked, and have an
  owner that holds nothing once OSCreateThread used the structure again. Games that end no thread may have any number in both.

`GuestSchedulingProofs`, on top of `GuestThreadsProofs` and as general:

- `SleepInvariant`: `Spec => [](NoReturn => Good /\ SleepInv)`. From it follow `SleepersWake` (`NoStrandedSleeper`) and `TimersHaveSleepers`
  (`TimersBelongToSleepers`). Neither is inductive: that the thread is resumed when its timer goes needs to know that it is parked when it
  goes. `SleepInv` says that a thread in OSSleepTicks is in no other sleep (`SleepShape`), has armed its timer before it
  suspends itself (`ArmedFirst`), is the one an armed timer is for (`TimersParked`), and when its timer is gone while it is still
  suspended, is resumed by the very next call (`SleepersTimed`). The work is in the stacks of calls: no step but
  OSSleepTicks and its return puts a thread into that sleep or takes it out (`StacksFall`, `TameStep`).
- `TimersHaveSleepers` is about games without `Reused`, which is not a restriction of the proof: a timer that OSCancelThread left
  armed goes off for the next thread in that structure (`stale_timer`).
- `RanksInvariant`: `FewThreads` implies `Spec => [](Orderly => Good /\ LockInv /\ EndsInv /\ RankInv)`. From it follows
  `OwnersHaveInherited` (`OwnersInherit`, in `Orderly` games). `OwnersInherit` is about guest code only and not inductive: OSLockMutex raises the owners of
  a chain in one turn of PromoteThreadPriority each, OSResumeThread and OSSuspendThread lower or raise them in turns of PropagateMutexOwnerPriority, and
  between two turns one owner is behind. `RankInv` says that it is one only, and which: the one the topmost call is about
  (`ChainInv`: no other call on any stack is such a turn; `AtMostInv`: everybody else has the priority of its best waiter). A
  chain needs no induction over its length then, since every turn leaves the next owner as the one that is behind or none.
  `SleepsInv` links a sleeper's queue to the mutex in its context, by which the chain goes on. Suspended threads are left out on the way
  (`Ranks`), as in the code, and brought up to date when they are resumed. `EndsInv` says that only a thread that is over unlocks all
  of its mutexes, in games without OSCancelThread.
- `RunnerRespects`: `FewThreads` implies `Spec => [](Orderly /\ Steady => RespectInv)`, and from it `PriorityIsRespected`
  (`PriorityRespected`, in `Orderly` games; `Steady` is that property's own condition: games that neither disable the scheduler nor
  cancel). `RespectInv` says at every step that no ready thread is better than the one that executes, or that a call under way comes to
  SelectThread first (`LooksAhead`), or that a waiter of a mutex is about to be woken by OSWakeupThread, which then looks (`Waking`). The step
  with work is OSUnlockMutex: it takes the inherited priority back and asks for no reschedule itself. That it lowers its caller only
  when there is somebody to wake is `EarnInv`, the other half of `RankInv`: who is better than its base has a waiter as good, on this mutex or
  on one it still holds. Cancelling a waiter breaks exactly this.

`AlarmsProofs`, for all sets of alarms and threads, all priorities and bounds:

- `HandlersAlone`: `Spec => []HandlersRunAlone`, and `SchedulerGivenBack`:
  `Spec => []SchedulerRestored`. Neither is inductive. `IInv` adds `GuardExact` (the guard is
  exactly the number of contexts in its scope, and that is one at most) and
  `DisabledExact` (the disable count is that of the active context's deferral and handler,
  and no context that is switched away has either). The step that matters is `RescheduleStep`:
  a switch happens only with a count of zero, so the context that is left has nothing on the
  count, while it may well have the guard, which is why `GuardNotCarried` fails.
- `QueueOfAlarms`: `Spec => []ListWellFormed`. `AInv` (with `QueueExact`) says that the list, once sanitized, is some sequence of exactly
  the armed alarms, in the order of their times, linked both ways (`Queued`); insertion, removal and the pump's
  unlinking of the head are then insertion and removal in that sequence. That the walk of ProcessAlarmQueue and of the insertion ends where it
  should is an induction over the position in the sequence.
- `PeriodsOnGrid`: `Spec => PeriodicOnGrid`, from the division in InsertAlarmNative (`PeriodicTime`).
- `QueueImplementsClock`: `Spec => ImplementsClock`: step by step, the list of pointers is a clock with one deadline per alarm.
- `TypesKept`: `Spec => []TypeOK`.

`NetworkProofs`, for any number of threads, slots, descriptors, sessions, calls and generations:

- `CallersServed`: `Spec => []CallersAreServed`. `IInv` adds that all tokens in use
  are older than the next one and no two threads have the same (`TokensDistinct`), that a sleeper's frame still holds its own
  token and has no answer yet (`SleepersAsked`), and that only its own caller's frame names a parked job (`JobsAreOwn`).
- `NetworkAnswers`: `Spec => ImplementsRequests`, action by action under the same invariant; `ProcessCompletions` is the
  step with work, for it answers many calls at once.
- `PeersOwn`: `Spec => []PeerIsOwn`, from generations being handed out once.
- `SessionsFollow`: `Spec => SessionFollowsSocket`, an action property, for any number of sessions on any number of sockets. That no session is left on a closed
  socket is part of `SocketInv`; the rest is a case split over what changes a session or a socket (`SocketsFollow`, `SslFollows`, `SessionStep`).
- `NetworkTypeCorrect`: `Spec => []TypeOK`, inductive by itself. It is not a property of the run, since it is proved.

`StorageProofs`, its first part, for any disc, mods, host files, sizes and requests (`SizesAssumption`, `DiscsAssumption`, `ReadsAssumption`):

- `IndexInvariant`: `Spec => []IndexInv`, and from it `DiscTypeOK` (`TypeOK`). `IndexInv` adds to the types what the steps need of each
  other: every pending step is one of this disc and its mods, what is left to visit are files of the first of them (`LayingOut`), every
  searchable start is that of the file the table gives it (`ExtentsOf`), and no host file is open twice (`OpenType`). The work is in the operators: that what a pack's
  options switch on, through two passes of choices, patches by name and three joins of lists, is a list of mappings of
  files that are there (`ChosenAlong`, `GeneratedPatches`, `LoadedPatchSet`, `OverlayMappingsSeq`).
- `SyntheticRangesApart`: `Spec => []SyntheticApart`, where the discs' tables are in order (`TableInOrder`: the table's files end before 2^32, and after the start
  of each of them; or there is nothing to list). Ranges are handed out entry by entry, so `PlacesRise` says that the next free byte never
  goes down and `RangeOfEntry` that an entry's range lies between what was free before it and after it, or before the end of the real disc, which takes
  in the files that grew (`RealEndIs`). The hypothesis is needed: where the real disc is empty the first range starts at 0, and the word 0 says that there is none.
- `DrivePromises`: `Spec => ImplementsDrive`, where besides no two files of a table have the same word (`WordsApart`; an empty file may be given the word of
  its neighbour, and then the search answers with either). Listing is putting files at paths (`DriveVisit`: the last entry of a path decides), publishing
  changes nothing that can be seen (`DrivePublish`), and a read by handle is found in its own file and nowhere else (`FoundAtStart`) because no two
  files of the published table have one word (`OwnWords`), made-up words included. A size that was listed is never more than one
  byte off the file's (`DriveInv`), which is how the model lets files be cut.

- `ModsAreInOrder`: `Spec => []OverlaysOutrank`, for any discs and mods, without a hypothesis. The property is about the published table
  only; `OutrankInv` says how far the listing has come (`LaidSoFar`): which steps are through (all of the disc and its mods but those in
  `ToDo`), that each of them is outranked by each that is to come (`Lower`), that the entries made before the step under way are what the
  steps that are through come to (`Settles`: at each path, the last entry is from the source that outranks the others), and that the entries
  after those are what the step under way has come to, file by file, in whatever order the directory lists them (`Works`). Two things need
  the invariant: a mapping by name, or one that does not create, sees only what was there when it began, which is why `known` is what
  separates the two parts; and a file that the card failed to list must not count as a source for steps that are through (`Unseen`,
  `SettlesSame`). A step that is through is one more step done (`StepDone`), and publishing takes the last entry of each path. That a mod's
  patches are those of the choices made (`PatchesAre`) goes through both passes of choices (`ChoiceIs`: the last choice an option takes) and
  the first patch of each id (`FirstNamed`).

The run's discs satisfy the hypotheses of the two theorems before the last (`TablesAssumption` in `MCDiscIndex`).

`StorageProofs`, its second part, for all packages (`PackagesAssumption`, `IdsAssumption`: a package is what a TMD can say, with content ids of its own):

- `MapIsTrue`: `NandSpec => []MapNamesWhatIsThere`. The map alone is not inductive: during an installation the shared contents
  that were added are ahead of the map on disk (`SharedAhead`) and each of them is already backed by its
  file, because the map is written last.
- `NandTypeCorrect`: `NandSpec => []NandTypeOK`, with maps that have no hash twice (`JobType`).
- `InstalledStaysComplete`: `NandSpec => []InstalledIsComplete`. `KeptInv` says of every title that is installed and not
  being worked on that its own contents are in place and its shared ones named by the map (`Complete`,
  `InWork`), and of an installation under way that what it has written so far is so already (`Progress`).
  A removal deletes only contents that are not shared, of the title in work alone, which is why the others keep theirs.

`AudioProofs`, for every size of block, buffer, queue and limit, and any number of frames and calls:

- `MixAlone`, `MailRead`, `WakeupsReach`: `Spec => []MixIsAlone`, `[]MixReadsTheMail`, `[]NoLostWakeup`, all three from
  `MixInv`: where the worker stands and who wakes it (`WorkerStands`, `JoinSleeper`, `OutputIsTold`), that
  from a join to the next list nothing is mixed and nothing left to publish (`JoinedIsQuiet`), and that a
  list in flight adds back what it was mailed with (`MailIsKept`).
- `AuxNotPutBack`: `Spec => AuxMovesOn`, from what is mixed being newer than what the game has (`AuxIsOlder`).
- `RingNeverOverruns`: `Spec => []RingHolds`: the ring holds no more than its buffers. The work is in `AppendType`,
  the division of a stream into whole buffers and a rest.
- `OutputImplementsLine`: `Spec => ImplementsLine`, step by step under `LineInv`: the types, nothing on its way without a renderer, and no block in the
  queue that was not handed over. The line is put together from the buffers by a recursive function (`Chain`); that it grows at one end and shrinks at the
  other as buffers come and go, and that cutting a block over buffers loses nothing, are lemmas about `Chain` proved by induction over the number of parts.
- `AudioTypeCorrect`: `Spec => []TypeOK`. It is not a property of the run, since it is proved.

`VideoProofs`, for all threads, buffers and limits, and for any number of calls nested in calls, which the bound of the run cannot show:

- `VideoTypeCorrect`: `Spec => []TypeOK`. It is not a property of the run, since it is proved.
- `CopiesPresentedOnce`: `Spec => []XfbPresentedOnce`. `PresentInv` adds where a copy that was not
  taken yet may be: counted in `copies`, in the ready buffer outside a present sequence, or about to be presented by a
  retrace whose frame is still active (`RetraceShowsNew`). Black presents may uncover such a copy and leave it where it is.
- `WaitsTakeRetraces`: `Spec => []WaitsPaceTheGame`. `WaitInv` relates every thread's turn to the one pair of statics they share (`LateIsDue`, `WokenAreDue`).

The assumptions are those of the constants in each module (`ConstantsAssumption`, `QueueAssumption`, `AlarmsAssumption`, ...), and where a theorem
has a hypothesis beside them its statement shows it. Those of Alarms say that the alarms are finitely many and that `None`, which also stands
for "no time", is neither an alarm nor a number.

*Induction.* Lists of alarms, chains of buffers, positions in a queue, joins of lists and the places of files are defined by recursive functions. What is proved of them for
every length rests on `SetInduction`: a set of naturals that has 0 and the successor of each of its elements is all of
them, since otherwise the numbers up to one that is missing would be injected into themselves less 0 by
the successor (`FS_Injection`). The set is always the one of the lengths for which the statement holds.

Only model-checked: the liveness properties (`BlockedMakeProgress`, `DueAlarmsGoOff`, `CallsComeBack`, `WaitsEnd`), which need
ENABLED; and of GuestThreads, everything about games whose entry functions return but for `OneRunner`, and mutexes, joiners and priorities in games
that are not orderly or settled. Every other property of the passing runs is stated by a theorem.

## 5. Not modelled, and the plan

Not modelled, and why:

- *DVD worker path.* `kDvdAsync` is a `constexpr false`; the code is never run.
- *Host contexts, setjmp* (`cpu/host_context.cpp`, `cpu/guest_jmp.cpp`). Small tables beside the
  scheduler; `GuestThreads` has the switches, not the release of stacks.
- *Audio effects* (`ax_effects.cpp`) and what is mixed: numeric.
- *Graphics* (`platform/gx`, `platform/gpu`): decoders of command streams and calls of a device API. Their size
  is most of this repository; what state they keep is a cache of the guest's registers, and correctness is that of pictures.
- *Formats other than the NAND, accelerators*: pure functions of large inputs.
- *Application, launcher, settings overlay*: user interface.
- *CPU, memory, quantized loads*: arithmetic of single instructions; no state machine.
- *Translator*: an offline compiler in C#.

Order of further work:

1. `FiberStacks`: termination, deferred release and `PurgePendingFibers`; `GuestJump`: live
   jump buffers.
2. Compositions: `MessageQueue` over the scheduler with the scheduler disabled (the
   native spin), the mutex waiter that is cancelled (stale inheritance), `Video` over `Alarms`.
