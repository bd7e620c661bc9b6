------------------------------- MODULE Video -------------------------------
(* The video interface (src/src/platform/system/vi.cpp), in the build that    *)
(* draws with libdol's own renderer: retraces advanced by whoever finds one   *)
(* due, the guest callbacks they run, threads that wait for them, and frames  *)
(* presented at the flip and paced to the retrace. It all runs on one host    *)
(* thread; the interleavings are calls made from inside calls. A retrace runs *)
(* game callbacks, which copy, flip and block; a present that waits for its   *)
(* boundary runs alarm handlers and then a retrace.                           *)
(* The host clock counts from the last retrace in whole intervals, and        *)
(* retraceCount is kept as its distance from the counts it is compared with.  *)
EXTENDS Naturals, FiniteSets

CONSTANTS
    Thread,      \* guest threads
    Buffer,      \* external framebuffers
    Idle,        \* the scheduler's idle loop
    None,        \* no buffer
    CatchUp,     \* retraces one poll delivers at most (8 in the code)
    FarBehind,   \* intervals after which the missed retraces are dropped (4)
    Unflipped,   \* copies without a flip that are presented anyway (3)
    MaxCalls     \* bound on the calls made from inside one call of a thread

ASSUME VideoAssumption ==
    /\ Idle \notin Thread /\ None \notin Buffer
    /\ CatchUp \in Nat \ {0} /\ Unflipped \in Nat \ {0}
    /\ FarBehind \in Nat /\ MaxCalls \in Nat

VARIABLES
    late,          \* intervals since lastRetrace
    armed,         \* flushArmed
    pending,       \* pendingNextFrameBuffer and pendingBlack
    active,        \* nextFrameBuffer and black
    current,       \* currentFrameBuffer
    ready,         \* readyXfb; None while hasValidXfb is false
    frameActive,   \* g_auroraFrameActive
    copies,        \* s_copiesSincePresent, as far as it is told apart
    screen,        \* what presents have made of the last copy
    sinceWait,     \* retraceCount - s_lastWaitReturn, while a wait asks for it
    waitedBefore,  \* s_waitedBefore
    sincePaced,    \* retraceCount # s_lastPacedRetraceCount
    doing,         \* what each thread does
    running,       \* the thread that has the CPU, or Idle
    turn,          \* whether a retrace has passed for each thread's next wait
    advance,       \* the retrace being advanced, s_inAdvanceRetrace with it
    present,       \* the present sequence, s_presentSequenceActive with it
    calls          \* calls made from inside the running thread's call

field == <<armed, pending, active, current>>
frame == <<ready, frameActive, copies, screen>>
threads == <<doing, running, turn, sinceWait, waitedBefore>>
vars == <<late, field, frame, sincePaced, threads, advance, present, calls>>

NoAdvance == [step |-> "none", by |-> Idle, service |-> FALSE, left |-> 0,
              shows |-> "nothing"]
Sequence(step, nested) == [step |-> step, nested |-> nested]
NoPresent == Sequence("none", FALSE)

\* VIInit has run: the clock starts and nothing has been drawn.
Init ==
    /\ late = 0
    /\ armed = FALSE
    /\ pending = [fb |-> None, black |-> FALSE]
    /\ active = [fb |-> None, black |-> FALSE]
    /\ current = None
    /\ ready = None /\ frameActive = FALSE /\ copies = 0 /\ screen = "taken"
    /\ sinceWait = 0 /\ waitedBefore = FALSE /\ sincePaced = TRUE
    /\ doing = [t \in Thread |-> "runs"]
    /\ running = Idle
    /\ turn = [t \in Thread |-> "due"]
    /\ advance = NoAdvance /\ present = NoPresent /\ calls = 0

AtMost(n, bound) == IF n > bound THEN bound ELSE n

(* The host stack: what the running thread is inside of. *)

\* s_inAdvanceRetrace, VI_HLE_IsAdvancingRetrace
Held == advance.step \in {"callbacks", "show"}

OwnRetrace == advance.step # "none" /\ advance.by = running

Inside ==
    IF OwnRetrace /\ ~present.nested THEN "retrace"
    ELSE IF present.step # "none" THEN "present"
    ELSE IF OwnRetrace THEN "retrace" ELSE "guest"

\* Guest code has control: a thread, a retrace callback or an alarm handler.
InCallback == Inside = "retrace" /\ advance.step = "callbacks"
InHandler == Inside = "present" /\ present.step = "handler"
InThread == Inside = "guest" /\ running \in Thread /\ doing[running] = "runs"

Calls ==
    /\ \/ InThread
       \/ /\ InCallback \/ InHandler
          /\ calls < MaxCalls
    /\ calls' = IF InThread THEN 0 ELSE calls + 1

(* Retraces. *)

\* The clock after a retrace: its deadline is the new lastRetrace, or now.
Behind(l) == IF l - 1 > FarBehind THEN 0 ELSE l - 1

\* Mutant of Woken: the retrace queue is not woken.
WokenNone(d) == d

\* The threads on vi.retraceQueue become ready, without a reschedule.
Woken(d) == [t \in Thread |-> IF d[t] = "asleep" THEN "woken" ELSE d[t]]

\* What the retrace will present, from what it reads before its callbacks run
Shows(committed, service) ==
    IF ~service THEN "nothing"
    ELSE IF committed.black THEN "black"
    ELSE IF ready # None /\ ready = committed.fb THEN "xfb"
    ELSE "nothing"

\* A thread's next wait may end once a retrace has passed since its last.
Due(w) == IF w = "outran" THEN w ELSE "due"
Taken(w) == IF w = "due" THEN "taken" ELSE "outran"

\* AdvanceRetrace up to its first callback, with the guard now held
BeginRetrace(by, service, left) ==
    LET committed == IF armed THEN pending ELSE active
    IN  /\ late >= 1 /\ ~Held
        /\ late' = Behind(late)
        /\ armed' = FALSE
        /\ active' = committed
        /\ current' = committed.fb
        /\ sinceWait' = IF waitedBefore THEN AtMost(sinceWait + 1, 2) ELSE 0
        /\ sincePaced' = TRUE
        /\ turn' = [t \in Thread |-> Due(turn[t])]
        /\ doing' = Woken(doing)
        /\ frameActive' = (frameActive \/ service)
        /\ advance' = [step |-> "callbacks", by |-> by, service |-> service,
                       left |-> left,
                       shows |-> Shows(committed, service)]
        /\ UNCHANGED <<pending, ready, copies, screen, waitedBefore, running>>

(* Presents. *)

\* Mutant of Sealed: it stays as it was.
SealedActive(on) == on

\* Whether a frame is active when the sequence is over
Sealed(on) == FALSE

\* What end_frame is given, with r the ready buffer. It goes by what is pending,
\* the retrace that presents black by what is committed.
OnScreen(r) ==
    IF pending.black THEN None
    ELSE IF pending.fb # None THEN pending.fb ELSE r

\* The last copy once a present is over that began with it in state s. The game's
\* frame takes the copy, black or not. A black present takes none: it uncovers
\* the ready copy when VISetBlack(FALSE) has not been flushed.
Presented(xfb, s, r) ==
    IF xfb THEN IF s \in {"new", "uncovered"} THEN "taken" ELSE "again"
    ELSE IF s = "new" /\ r # None /\ OnScreen(r) = r THEN "uncovered"
    ELSE s

\* VI_HLE_PresentFrame up to its wait, from a state with these copies, screen
\* and ready buffer: it declines while a sequence is under way, and a paced
\* frame that no retrace has passed waits for one.
PresentFrame(xfb, paced, n, s, r) ==
    IF present.step # "none"
    THEN /\ copies' = n /\ screen' = s /\ ready' = r
         /\ UNCHANGED <<frameActive, sincePaced, present>>
    ELSE /\ copies' = 0
         /\ screen' = Presented(xfb, s, r)
         /\ sincePaced' = (sincePaced /\ ~paced)
         /\ IF paced /\ ~sincePaced
            THEN /\ present' = Sequence("pacing", OwnRetrace)
                 /\ ready' = r /\ UNCHANGED frameActive
            ELSE /\ ready' = IF xfb THEN None ELSE r
                 /\ frameActive' = Sealed(frameActive)
                 /\ UNCHANGED present

(* Calls of the game, from a thread, a retrace callback or an alarm handler. *)

VISetNextFrameBuffer(fb) ==
    /\ Calls
    /\ pending' = [pending EXCEPT !.fb = fb]
    /\ UNCHANGED <<late, armed, active, current, frame, sincePaced, threads,
                   advance, present>>

VISetBlack(black) ==
    /\ Calls
    /\ pending' = [pending EXCEPT !.black = black]
    /\ UNCHANGED <<late, armed, active, current, frame, sincePaced, threads,
                   advance, present>>

\* Arms the commit, and flips: presents what was copied since the last present.
VIFlush ==
    /\ Calls
    /\ armed' = TRUE
    /\ IF copies > 0 THEN PresentFrame(TRUE, ~Held, copies, screen, ready)
       ELSE UNCHANGED <<frame, sincePaced, present>>
    /\ UNCHANGED <<late, pending, active, current, threads, advance>>

\* GX__CopyDisp with VI_HLE_SetXfbReady: the copy becomes the next buffer
CopyDisp(fb) ==
    LET n == AtMost(copies + 1, Unflipped)
    IN  /\ Calls
        /\ IF active.fb = fb THEN UNCHANGED <<pending, active>>
           ELSE /\ pending' = [pending EXCEPT !.fb = fb]
                /\ active' = [active EXCEPT !.fb = fb]
        /\ current' = IF current = None /\ active.fb = None THEN fb ELSE current
        /\ LET s == IF screen = "again" THEN screen ELSE "new"
           IN  IF n = Unflipped THEN PresentFrame(TRUE, TRUE, n, s, fb)
               ELSE /\ copies' = n /\ screen' = s /\ ready' = fb
                    /\ UNCHANGED <<frameActive, sincePaced, present>>
        /\ UNCHANGED <<late, armed, threads, advance>>

\* VIGetRetraceCount, VIGetNextField and VIGetNextFrameBuffer poll.
Get ==
    /\ Calls
    /\ BeginRetrace(running, TRUE, CatchUp - 1)
    /\ UNCHANGED present

\* A safe point of a loop, or drawing that takes long: retraces are delivered
\* with the scheduler disabled and without service to the renderer.
ProcessRetracesDeferred(left) ==
    /\ InThread
    /\ BeginRetrace(running, FALSE, left)
    /\ calls' = 0
    /\ UNCHANGED present

\* VI_HLE_PollRetrace in the idle loop, entered when no thread is ready
IdlePoll ==
    /\ Inside = "guest" /\ running = Idle
    /\ \A t \in Thread : doing[t] \in {"asleep", "blocked"}
    /\ BeginRetrace(Idle, TRUE, CatchUp - 1)
    /\ calls' = 0
    /\ UNCHANGED present

(* The rest of AdvanceRetrace. *)

\* The pre- and post-retrace callbacks and the hooks have run.
CallbacksReturn ==
    /\ InCallback
    /\ advance' = [advance EXCEPT !.step = "show"]
    /\ UNCHANGED <<late, field, frame, sincePaced, threads, present, calls>>

\* The callback waits for something else and its fiber parks with the guard.
CallbackBlocks ==
    /\ InCallback /\ running \in Thread
    /\ advance.service /\ present.step = "none"
    /\ advance' = [advance EXCEPT !.step = "show"]
    /\ doing' = [doing EXCEPT ![running] = "blocked"]
    /\ running' = Idle
    /\ calls' = 0
    /\ UNCHANGED <<late, field, frame, sincePaced, turn, sinceWait,
                   waitedBefore, present>>

\* Only a retrace that may service the renderer presents, and only outside a
\* present sequence, whose flags are not cleared yet.
MayShow == advance.service /\ present.step = "none"

\* What is shown was decided before the callbacks; the active frame is the one
\* there is now.
Show ==
    /\ Inside = "retrace" /\ advance.step = "show"
    /\ advance' = [advance EXCEPT !.step = "next"]
    /\ IF MayShow /\ frameActive /\ advance.shows # "nothing"
       THEN PresentFrame(advance.shows = "xfb", FALSE, copies, screen, ready)
       ELSE UNCHANGED <<frame, sincePaced, present>>
    /\ UNCHANGED <<late, field, threads, calls>>

\* The guard is cleared; AdvanceDueRetraces goes on while another retrace is due.
NextDue ==
    /\ Inside = "retrace" /\ advance.step = "next"
    /\ \/ /\ advance.left > 0
          /\ BeginRetrace(advance.by, advance.service, advance.left - 1)
       \/ /\ late = 0 \/ advance.left = 0
          /\ advance' = NoAdvance
          /\ UNCHANGED <<late, field, frame, sincePaced, threads>>
    /\ calls' = IF present.step = "none" THEN 0 ELSE calls
    /\ UNCHANGED present

(* The rest of the present sequence: PaceToRetraceBoundary. *)

AlarmHandler ==
    /\ Inside = "present" /\ present.step = "pacing" /\ late = 0
    /\ present' = Sequence("handler", present.nested)
    /\ UNCHANGED <<late, field, frame, sincePaced, threads, advance, calls>>

HandlerReturns ==
    /\ InHandler
    /\ present' = Sequence("pacing", present.nested)
    /\ UNCHANGED <<late, field, frame, sincePaced, threads, advance, calls>>

\* The boundary is there, or a retrace a handler found due has passed it: the
\* retrace is delivered, unless the game has interrupts disabled.
PaceEnds ==
    /\ Inside = "present" /\ present.step = "pacing"
    /\ late >= 1 \/ sincePaced
    /\ present' = Sequence("seal", present.nested)
    /\ \/ BeginRetrace(running, FALSE, 0)
       \/ UNCHANGED <<late, field, frame, sincePaced, threads, advance>>
    /\ UNCHANGED calls

\* The end of the sequence: its flags are cleared.
Seal ==
    /\ Inside = "present" /\ present.step = "seal"
    /\ sincePaced' = FALSE
    /\ frameActive' = Sealed(frameActive)
    /\ ready' = None
    /\ present' = NoPresent
    /\ calls' = IF OwnRetrace THEN calls ELSE 0
    /\ UNCHANGED <<late, field, copies, screen, threads, advance>>

(* Threads. *)

\* Mutant of LateFrame: any thread that waited before is taken for late.
LateFrameEver == waitedBefore

\* Two retraces have passed since a wait last ended: there is nothing to pace.
LateFrame == waitedBefore /\ sinceWait >= 2

WaitSkipped(t) ==
    /\ InThread /\ running = t
    /\ LateFrame
    /\ sinceWait' = 0
    /\ turn' = [turn EXCEPT ![t] = Taken(@)]
    /\ UNCHANGED <<late, field, frame, sincePaced, doing, running,
                   waitedBefore, advance, present, calls>>

VIWaitForRetrace(t) ==
    /\ InThread /\ running = t
    /\ ~LateFrame
    /\ doing' = [doing EXCEPT ![t] = "asleep"]
    /\ running' = Idle
    /\ turn' = [turn EXCEPT ![t] = "taken"]
    /\ UNCHANGED <<late, field, frame, sincePaced, sinceWait, waitedBefore,
                   advance, present, calls>>

\* OSSleepThread returns: the count has changed since the wait began.
WaitReturns(t) ==
    /\ Inside = "guest" /\ running = t /\ doing[t] = "woken"
    /\ doing' = [doing EXCEPT ![t] = "runs"]
    /\ sinceWait' = 0 /\ waitedBefore' = TRUE
    /\ turn' = [turn EXCEPT ![t] = Taken(@)]
    /\ UNCHANGED <<late, field, frame, sincePaced, running, advance, present,
                   calls>>

\* A thread waits for anything else, and gets it.
Blocks(t) ==
    /\ InThread /\ running = t
    /\ doing' = [doing EXCEPT ![t] = "blocked"]
    /\ running' = Idle
    /\ UNCHANGED <<late, field, frame, sincePaced, turn, sinceWait,
                   waitedBefore, advance, present, calls>>

Unblocks(t) ==
    /\ doing[t] = "blocked"
    /\ doing' = [doing EXCEPT ![t] = "runs"]
    /\ UNCHANGED <<late, field, frame, sincePaced, running, turn, sinceWait,
                   waitedBefore, advance, present, calls>>

\* SelectThread: from the idle loop, or to a better thread
Switch(t) ==
    /\ Inside = "guest" /\ running # t
    /\ doing[t] \in {"runs", "woken"}
    /\ running' = t
    /\ UNCHANGED <<late, field, frame, sincePaced, doing, turn, sinceWait,
                   waitedBefore, advance, present, calls>>

\* A retrace interval of the host clock goes by; past FarBehind it tells nothing.
Tick ==
    /\ late < FarBehind + 2
    /\ late' = late + 1
    /\ UNCHANGED <<field, frame, sincePaced, threads, advance, present, calls>>

GuestCall ==
    \/ \E fb \in Buffer : VISetNextFrameBuffer(fb) \/ CopyDisp(fb)
    \/ \E black \in BOOLEAN : VISetBlack(black)
    \/ VIFlush
    \/ Get
    \/ \E left \in {0, CatchUp - 1} : ProcessRetracesDeferred(left)
    \/ \E t \in Thread : WaitSkipped(t) \/ VIWaitForRetrace(t) \/ Blocks(t)

\* What the running thread is inside of goes on.
Goes ==
    \/ CallbacksReturn \/ Show \/ NextDue
    \/ HandlerReturns \/ PaceEnds \/ Seal
    \/ \E t \in Thread : WaitReturns(t)

Next ==
    \/ GuestCall \/ Goes
    \/ CallbackBlocks \/ AlarmHandler
    \/ IdlePoll \/ Tick
    \/ \E t \in Thread : Unblocks(t) \/ Switch(t)

Spec == Init /\ [][Next]_vars

\* The clock moves, callbacks and handlers return, what a thread blocks for
\* comes, every ready thread gets to run, the idle loop turns, and a running
\* thread comes past a safe point: a request for one stays until it is answered.
FairSpec ==
    /\ Spec
    /\ WF_vars(Tick) /\ WF_vars(Goes) /\ WF_vars(IdlePoll)
    /\ \A t \in Thread : WF_vars(Unblocks(t)) /\ SF_vars(Switch(t))
    /\ SF_vars(ProcessRetracesDeferred(0))

-----------------------------------------------------------------------------

Screens == {"new", "uncovered", "taken", "again"}
Frame == Buffer \cup {None}

\* The state is well formed; the retrace clock is never ahead of the host's
\* (late is a natural number).
TypeOK ==
    /\ late \in 0..(FarBehind + 2)
    /\ armed \in BOOLEAN
    /\ pending \in [fb : Frame, black : BOOLEAN]
    /\ active \in [fb : Frame, black : BOOLEAN]
    /\ current \in Frame /\ ready \in Frame
    /\ frameActive \in BOOLEAN /\ copies \in 0..Unflipped /\ screen \in Screens
    /\ sinceWait \in 0..2 /\ waitedBefore \in BOOLEAN /\ sincePaced \in BOOLEAN
    /\ doing \in [Thread -> {"runs", "asleep", "woken", "blocked"}]
    /\ running \in Thread \cup {Idle}
    /\ turn \in [Thread -> {"due", "taken", "outran"}]
    /\ advance \in [step : {"none", "callbacks", "show", "next"},
                    by : Thread \cup {Idle}, service : BOOLEAN,
                    left : 0..(CatchUp - 1),
                    shows : {"nothing", "black", "xfb"}]
    /\ present \in [step : {"none", "pacing", "handler", "seal"},
                    nested : BOOLEAN]
    /\ calls \in 0..MaxCalls

\* No copy is presented twice as the game's frame: not at the flip and again by
\* the retrace that found it ready, and not again by one polled inside the present
\* sequence that shows it (the reason vi.cpp gives for s_presentSequenceActive).
\* It says nothing of black presents: one with VISetBlack(FALSE) pending shows
\* the ready copy and leaves it to be presented.
XfbPresentedOnce == screen # "again"

\* A wait ends on a retrace of its own: one since the thread fell asleep or, for
\* a late frame, since its last wait ended, though all threads share the static
\* that lets a late frame skip its wait. The game never runs faster than the
\* retraces (VIWaitForRetrace).
WaitsPaceTheGame == \A t \in Thread : turn[t] # "outran"

\* Threads that wait for a retrace are woken by one, all of them, whatever runs:
\* presents that hold the host, callbacks that park with the guard, threads that
\* never let the idle loop poll.
WaitsEnd ==
    (\E t \in Thread : doing[t] = "asleep")
        ~> (\A t \in Thread : doing[t] # "asleep")
=============================================================================
