---------------------------- MODULE AudioOutput ----------------------------
(* The output of sound (src/src/platform/audio/audio_backend.cpp, as built     *)
(* for the Switch): the game thread converts a block and queues it; the        *)
(* output thread takes the blocks one by one and copies them into a ring of    *)
(* buffers, of which the filled ones belong to the renderer until it has       *)
(* played them. A block does not divide a buffer. What the renderer has done   *)
(* is seen only in the buffers' states, which audrvUpdate refreshes.           *)
(* Sound is counted in units that divide the block and the buffer, and a unit  *)
(* is <<number of its block, place in the block>>.                             *)
EXTENDS Naturals, Sequences

CONSTANTS
    BlockUnits,   \* a DMA block (384 bytes in the game)
    WaveUnits,    \* kSwitchAudioBufferBytes, 4096
    WaveBufs,     \* kSwitchAudioBufferCount, 8
    LimitUnits,   \* QueueLimitBytesLocked, 15360
    MaxQueued,    \* kMaxQueuedBlocks, 64
    MaxBlocks     \* bound on the blocks the model hands over

ASSUME OutputAssumption ==
    /\ BlockUnits \in Nat \ {0} /\ WaveUnits \in Nat \ {0} /\ WaveBufs \in Nat
    /\ MaxQueued \in Nat \ {0} /\ LimitUnits \in Nat /\ MaxBlocks \in Nat
    \* "under the ring's 32 KiB, so this is the backpressure point"
    /\ LimitUnits <= WaveBufs * WaveUnits

VARIABLES
    initialized,  \* m_initialized
    pushed,       \* how many blocks were handed over
    queue,        \* g_output.blocks, by number
    outThread,    \* what the output thread does
    hand,         \* the block it holds, 0 for none
    writing,      \* what was copied into the buffer m_nxWriteSlot
    playing,      \* the buffers the renderer has not played yet, oldest first
    seen          \* how many buffers are held, going by their states

ring == <<writing, playing, seen>>
output == <<initialized, pushed, queue, outThread, hand, ring>>

Block(n) == [i \in 1..BlockUnits |-> <<n, i>>]

OutputInit ==
    /\ initialized = FALSE
    /\ pushed = 0 /\ queue = <<>>
    /\ outThread = "none" /\ hand = 0
    /\ writing = <<>> /\ playing = <<>> /\ seen = 0

\* The driver and the voice are set up once; a setup that fails is tried again
\* with the next block.
EnsureInitialized(works) ==
    /\ initialized' = (initialized \/ works)
    /\ IF ~initialized /\ works
         THEN writing' = <<>> /\ playing' = <<>> /\ seen' = 0
         ELSE UNCHANGED ring

HasRoom == Len(queue) < MaxQueued

\* A block is queued, or dropped when the queue is full.
PushBlock ==
    /\ pushed' = pushed + 1
    /\ queue' = IF HasRoom THEN Append(queue, pushed + 1) ELSE queue

\* The thread is started by the first block and told of every one.
NotifyOutput ==
    outThread' = IF outThread \in {"none", "asleep"} THEN "testing" ELSE outThread

TakeBlock ==
    /\ outThread = "testing"
    /\ IF queue = <<>>
         THEN outThread' = "asleep" /\ UNCHANGED <<queue, hand>>
         ELSE /\ outThread' = "holding"
              /\ hand' = Head(queue)
              /\ queue' = Tail(queue)
    /\ UNCHANGED <<initialized, pushed, ring>>

\* Mutant of Held: the states are read without an audrvUpdate.
StaleHeld == seen

\* The buffers still held, after an audrvUpdate.
Held == Len(playing)

QueueHasCapacity == Len(writing) + WaveUnits * Held + BlockUnits <= LimitUnits

\* As much of the block as there are buffers for.
RoomInRing == WaveBufs * WaveUnits - WaveUnits * Held - Len(writing)
Fits == IF BlockUnits <= RoomInRing THEN BlockUnits ELSE RoomInRing

Stream == writing \o SubSeq(Block(hand), 1, Fits)

\* Each buffer that fills up goes to the renderer.
AppendSamples ==
    LET waves == Len(Stream) \div WaveUnits IN
    /\ playing' = playing \o
         [i \in 1..waves |-> SubSeq(Stream, (i - 1) * WaveUnits + 1, i * WaveUnits)]
    /\ writing' = SubSeq(Stream, waves * WaveUnits + 1, Len(Stream))
    /\ seen' = Held + waves

SubmitConverted ==
    /\ outThread = "holding"
    /\ outThread' = "testing" /\ hand' = 0
    /\ CASE ~initialized -> UNCHANGED ring
         [] initialized /\ ~QueueHasCapacity ->
              seen' = Held /\ UNCHANGED <<writing, playing>>
         [] OTHER -> AppendSamples
    /\ UNCHANGED <<initialized, pushed, queue>>

\* The renderer is through with its oldest buffer. Nobody is told.
Render ==
    /\ playing # <<>>
    /\ playing' = Tail(playing)
    /\ UNCHANGED <<initialized, pushed, queue, outThread, hand, writing, seen>>

\* The player turns the volume or mutes: an audrvUpdate, by the game thread.
ApplyGain ==
    /\ initialized
    /\ seen' = Held
    /\ UNCHANGED <<initialized, pushed, queue, outThread, hand, writing, playing>>

\* The voice is stopped and the buffers are taken back.
Shutdown ==
    /\ initialized' = FALSE
    /\ IF initialized
         THEN writing' = <<>> /\ playing' = <<>> /\ seen' = 0
         ELSE UNCHANGED ring

OutputThread == TakeBlock \/ SubmitConverted
OutputSteps == OutputThread \/ Render

Unit == (Nat \ {0}) \X (1..BlockUnits)
OutputType ==
    /\ initialized \in BOOLEAN
    /\ pushed \in Nat /\ hand \in Nat
    /\ queue \in Seq(Nat \ {0}) /\ Len(queue) <= MaxQueued
    /\ outThread \in {"none", "testing", "asleep", "holding"}
    /\ hand # 0 <=> outThread = "holding"
    /\ writing \in Seq(Unit) /\ Len(writing) < WaveUnits
    /\ playing \in Seq(Seq(Unit)) /\ Len(playing) <= seen
    /\ \A i \in DOMAIN playing : Len(playing[i]) = WaveUnits
    /\ seen \in 0..WaveBufs

\* The sound on its way, oldest first: with the renderer, in the buffer being
\* filled, in the output thread's hand and in the queue.
Chain(parts) ==
    LET join[i \in 0..Len(parts)] == IF i = 0 THEN <<>> ELSE join[i - 1] \o parts[i]
    IN  join[Len(parts)]
Line ==
    Chain(playing) \o writing \o (IF hand = 0 THEN <<>> ELSE Block(hand))
        \o Chain([i \in DOMAIN queue |-> Block(queue[i])])
=============================================================================
