---------------------------- MODULE VideoProofs ----------------------------
(* Copies are presented once and waits take a retrace each, for any threads,  *)
(* buffers, catch-up limits and depth of calls from inside calls.             *)
EXTENDS Video, TLAPS

(* Presents. *)

\* The last copy has not been presented as the game's frame; a black present may
\* have uncovered it.
Untaken == {"new", "uncovered"}

\* Outside a present sequence a ready buffer holds a copy that is not taken; the
\* sequence clears the flag before it ends.
ReadyIsNew == present.step = "none" /\ ready # None => screen \in Untaken

\* What was copied since the last present is not taken.
CopiesAreNew == copies > 0 => screen \in Untaken

\* A retrace under way still has a copy to show while its frame is active: a
\* present by one of its callbacks, or by another thread while a callback is
\* parked, leaves no active frame.
RetraceShowsNew ==
    present.step = "none" /\ Held /\ frameActive /\ advance.shows = "xfb"
        => screen \in Untaken

PresentInv ==
    /\ screen \in Untaken \cup {"taken"}
    /\ ReadyIsNew /\ CopiesAreNew /\ RetraceShowsNew

USE DEF PresentInv, ReadyIsNew, CopiesAreNew, RetraceShowsNew, Untaken, Sequence

\* A present keeps the invariant when what it starts from satisfies it and a
\* presented copy is not taken.
LEMMA PresentFrameInv ==
    ASSUME PresentInv,
           NEW xfb \in BOOLEAN, NEW paced \in BOOLEAN, NEW n, NEW r,
           NEW s \in Untaken \cup {"taken"},
           xfb => s \in Untaken,
           n > 0 => s \in Untaken,
           r # None => s \in Untaken \/ present.step # "none",
           screen \in Untaken => s \in Untaken,
           PresentFrame(xfb, paced, n, s, r),
           advance' = advance \/ ~Held'
    PROVE  PresentInv'
<1>1. CASE present.step # "none"
  BY <1>1 DEF PresentFrame, Held
<1>2. CASE present.step = "none"
  <2>1. screen' \in Untaken \cup {"taken"} /\ copies' = 0
    BY <1>2 DEF PresentFrame, Presented
  <2>2. CopiesAreNew'
    BY <2>1
  <2>3. CASE paced /\ ~sincePaced
    BY <1>2, <2>1, <2>2, <2>3 DEF PresentFrame
  <2>4. CASE ~(paced /\ ~sincePaced)
    <3>1. /\ present' = present /\ ready' = IF xfb THEN None ELSE r
          /\ ~frameActive'
      BY <1>2, <2>4 DEF PresentFrame, Sealed
    <3>2. ~xfb /\ s \in Untaken => screen' \in Untaken
      BY <1>2 DEF PresentFrame, Presented
    <3> QED BY <1>2, <2>1, <2>2, <3>1, <3>2
  <2> QED BY <2>3, <2>4
<1> QED BY <1>1, <1>2

\* A retrace begins with a copy to show only when there is a new one.
LEMMA BeginRetraceInv ==
    ASSUME PresentInv, NEW by, NEW service \in BOOLEAN, NEW left,
           BeginRetrace(by, service, left),
           present' = present \/ present'.step # "none"
    PROVE  PresentInv'
BY DEF BeginRetrace, Shows

\* A step that leaves the frame and the retrace as they are, or ends the
\* retrace, keeps the invariant.
LEMMA FrameUnchanged ==
    ASSUME PresentInv, UNCHANGED frame,
           present' = present \/ present'.step # "none",
           \/ UNCHANGED advance
           \/ ~Held'
           \/ Held /\ advance'.shows = advance.shows
    PROVE  PresentInv'
BY DEF frame, Held

LEMMA PresentInit == Init => PresentInv
BY DEF Init, NoAdvance, NoPresent, Held

LEMMA CopyInv ==
    ASSUME PresentInv, NEW fb, CopyDisp(fb)
    PROVE  PresentInv'
<1> DEFINE n == AtMost(copies + 1, Unflipped)
           s == IF screen = "again" THEN screen ELSE "new"
<1>1. s = "new" /\ advance' = advance
  BY DEF CopyDisp
<1>2. CASE n = Unflipped
  <2>1. PresentFrame(TRUE, TRUE, n, s, fb)
    BY <1>2 DEF CopyDisp
  <2> HIDE DEF n, s
  <2> QED BY <1>1, <2>1, PresentFrameInv
<1>3. CASE n # Unflipped
  <2>1. screen' = s /\ UNCHANGED <<present, advance>>
    BY <1>3 DEF CopyDisp
  <2> HIDE DEF n, s
  <2> QED BY <1>1, <2>1
<1> QED BY <1>2, <1>3

LEMMA FlushInv ==
    ASSUME PresentInv, VIFlush
    PROVE  PresentInv'
<1>1. advance' = advance
  BY DEF VIFlush
<1>2. CASE copies > 0
  <2>1. PresentFrame(TRUE, ~Held, copies, screen, ready)
    BY <1>2 DEF VIFlush
  <2>2. screen \in Untaken
    BY <1>2
  <2> QED BY <1>1, <2>1, <2>2, PresentFrameInv
<1>3. CASE ~(copies > 0)
  BY <1>1, <1>3, FrameUnchanged DEF VIFlush
<1> QED BY <1>2, <1>3

LEMMA ShowInv ==
    ASSUME PresentInv, Show
    PROVE  PresentInv'
<1>1. ~Held' /\ Held
  BY DEF Show, Held
<1>2. CASE MayShow /\ frameActive /\ advance.shows # "nothing"
  <2>1. PresentFrame(advance.shows = "xfb", FALSE, copies, screen, ready)
    BY <1>2 DEF Show
  <2>2. advance.shows = "xfb" => screen \in Untaken
    BY <1>1, <1>2 DEF MayShow
  <2> QED BY <1>1, <2>1, <2>2, PresentFrameInv
<1>3. CASE ~(MayShow /\ frameActive /\ advance.shows # "nothing")
  BY <1>1, <1>3, FrameUnchanged DEF Show
<1> QED BY <1>2, <1>3

LEMMA SealInv ==
    ASSUME PresentInv, Seal
    PROVE  PresentInv'
BY DEF Seal, Sealed, NoPresent

LEMMA PresentNext ==
    ASSUME PresentInv, [Next]_vars
    PROVE  PresentInv'
<1>1. CASE UNCHANGED vars
  BY <1>1, FrameUnchanged DEF vars
<1>2. ASSUME NEW fb \in Buffer, VISetNextFrameBuffer(fb)
      PROVE  PresentInv'
  BY <1>2, FrameUnchanged DEF VISetNextFrameBuffer
<1>3. ASSUME NEW fb \in Buffer, CopyDisp(fb)
      PROVE  PresentInv'
  BY <1>3, CopyInv
<1>4. ASSUME NEW black \in BOOLEAN, VISetBlack(black)
      PROVE  PresentInv'
  BY <1>4, FrameUnchanged DEF VISetBlack
<1>5. CASE VIFlush
  BY <1>5, FlushInv
<1>6. CASE Get
  BY <1>6, BeginRetraceInv DEF Get
<1>7. ASSUME NEW left \in {0, CatchUp - 1}, ProcessRetracesDeferred(left)
      PROVE  PresentInv'
  BY <1>7, BeginRetraceInv DEF ProcessRetracesDeferred
<1>8. ASSUME NEW t \in Thread, \/ WaitSkipped(t) \/ VIWaitForRetrace(t)
                               \/ Blocks(t) \/ WaitReturns(t)
                               \/ Unblocks(t) \/ Switch(t)
      PROVE  PresentInv'
  BY <1>8, FrameUnchanged
     DEF WaitSkipped, VIWaitForRetrace, Blocks, WaitReturns, Unblocks, Switch
<1>9. CASE CallbacksReturn
  <2>1. Held /\ Held' /\ advance'.shows = advance.shows
    BY <1>9 DEF CallbacksReturn, InCallback, Held
  <2> QED BY <1>9, <2>1, FrameUnchanged DEF CallbacksReturn
<1>10. CASE CallbackBlocks
  <2>1. Held /\ Held' /\ advance'.shows = advance.shows
    BY <1>10 DEF CallbackBlocks, InCallback, Held
  <2> QED BY <1>10, <2>1, FrameUnchanged DEF CallbackBlocks
<1>11. CASE Show
  BY <1>11, ShowInv
<1>12. CASE NextDue
  <2>1. ASSUME BeginRetrace(advance.by, advance.service, advance.left - 1)
        PROVE  PresentInv'
    BY <1>12, <2>1 DEF NextDue, BeginRetrace, Shows
  <2>2. CASE advance' = NoAdvance /\ UNCHANGED frame
    BY <1>12, <2>2, FrameUnchanged DEF NextDue, NoAdvance, Held
  <2> QED BY <1>12, <2>1, <2>2 DEF NextDue
<1>13. CASE AlarmHandler \/ HandlerReturns
  BY <1>13, FrameUnchanged DEF AlarmHandler, HandlerReturns, InHandler
<1>14. CASE PaceEnds
  BY <1>14, BeginRetraceInv, FrameUnchanged DEF PaceEnds
<1>15. CASE Seal
  BY <1>15, SealInv
<1>16. CASE IdlePoll
  BY <1>16, BeginRetraceInv DEF IdlePoll
<1>17. CASE Tick
  BY <1>17, FrameUnchanged DEF Tick
<1> QED BY <1>1, <1>2, <1>3, <1>4, <1>5, <1>6, <1>7, <1>8, <1>9, <1>10,
           <1>11, <1>12, <1>13, <1>14, <1>15, <1>16, <1>17
           DEF Next, GuestCall, Goes

\* No copy is presented twice as the game's frame (VI_HLE_PresentFrame and the
\* present at the end of AdvanceRetrace), for any number of calls inside calls,
\* whatever black presents uncover before.
THEOREM CopiesPresentedOnce == Spec => []XfbPresentedOnce
<1>1. PresentInv => XfbPresentedOnce
  BY DEF XfbPresentedOnce
<1> QED BY PresentInit, PresentNext, <1>1, PTL DEF Spec

(* Waits. *)

\* Whoever is woken has had its retrace.
WokenAreDue == \A t \in Thread : doing[t] = "woken" => turn[t] = "due"

\* Once a retrace has passed since any wait ended, every thread that is not in
\* a wait has had one since its own: this is what lets the threads share the
\* count that tells a late frame.
LateIsDue ==
    waitedBefore /\ sinceWait >= 1 =>
        \A t \in Thread : doing[t] # "asleep" => turn[t] = "due"

RunnerIsAwake == running \in Thread => doing[running] \in {"runs", "woken"}

WaitInv ==
    /\ turn \in [Thread -> {"due", "taken"}]
    /\ doing \in [Thread -> {"runs", "asleep", "woken", "blocked"}]
    /\ sinceWait \in Nat
    /\ WokenAreDue /\ LateIsDue /\ RunnerIsAwake

LEMMA WaitInit == Init => WaitInv
BY VideoAssumption DEF Init, WaitInv, WokenAreDue, LateIsDue, RunnerIsAwake

LEMMA RetraceKeepsWaits ==
    ASSUME WaitInv, NEW by, NEW service, NEW left,
           BeginRetrace(by, service, left)
    PROVE  WaitInv'
<1>1. \A t \in Thread : turn'[t] = "due"
  BY DEF BeginRetrace, Due, WaitInv
<1>2. turn' \in [Thread -> {"due", "taken"}]
  BY DEF BeginRetrace, Due, WaitInv
<1>3. doing' \in [Thread -> {"runs", "asleep", "woken", "blocked"}]
  BY DEF BeginRetrace, Woken, WaitInv
<1>4. sinceWait' \in Nat
  BY DEF BeginRetrace, AtMost, WaitInv
<1>5. RunnerIsAwake'
  BY DEF BeginRetrace, Woken, WaitInv, RunnerIsAwake
<1> QED BY <1>1, <1>2, <1>3, <1>4, <1>5 DEF WaitInv, WokenAreDue, LateIsDue

LEMMA ThreadsUnchanged ==
    ASSUME WaitInv, UNCHANGED threads
    PROVE  WaitInv'
BY DEF threads, WaitInv, WokenAreDue, LateIsDue, RunnerIsAwake

LEMMA WaitNext ==
    ASSUME WaitInv, [Next]_vars
    PROVE  WaitInv'
<1> USE VideoAssumption
<1>1. CASE UNCHANGED vars
  BY <1>1, ThreadsUnchanged DEF vars
<1>2. ASSUME NEW fb, VISetNextFrameBuffer(fb) \/ CopyDisp(fb)
      PROVE  WaitInv'
  BY <1>2, ThreadsUnchanged DEF VISetNextFrameBuffer, CopyDisp
<1>3. ASSUME NEW black, VISetBlack(black)
      PROVE  WaitInv'
  BY <1>3, ThreadsUnchanged DEF VISetBlack
<1>4. CASE VIFlush \/ Show \/ Seal \/ Tick
  BY <1>4, ThreadsUnchanged DEF VIFlush, Show, Seal, Tick
<1>5. CASE CallbacksReturn \/ AlarmHandler \/ HandlerReturns
  BY <1>5, ThreadsUnchanged DEF CallbacksReturn, AlarmHandler, HandlerReturns
<1>6. CASE Get \/ IdlePoll
  BY <1>6, RetraceKeepsWaits DEF Get, IdlePoll
<1>7. ASSUME NEW left, ProcessRetracesDeferred(left)
      PROVE  WaitInv'
  BY <1>7, RetraceKeepsWaits DEF ProcessRetracesDeferred
<1>8. CASE NextDue \/ PaceEnds
  BY <1>8, RetraceKeepsWaits, ThreadsUnchanged DEF NextDue, PaceEnds
<1>9. CASE CallbackBlocks
  BY <1>9 DEF CallbackBlocks, WaitInv, WokenAreDue, LateIsDue, RunnerIsAwake
<1>10. ASSUME NEW t \in Thread, WaitSkipped(t)
       PROVE  WaitInv'
  <2>1. turn[t] = "due" /\ doing[t] = "runs"
    BY <1>10 DEF WaitSkipped, LateFrame, InThread, WaitInv, LateIsDue
  <2> QED BY <1>10, <2>1
          DEF WaitSkipped, Taken, WaitInv, WokenAreDue, LateIsDue, RunnerIsAwake
<1>11. ASSUME NEW t \in Thread, VIWaitForRetrace(t)
       PROVE  WaitInv'
  BY <1>11 DEF VIWaitForRetrace, WaitInv, WokenAreDue, LateIsDue, RunnerIsAwake
<1>12. ASSUME NEW t \in Thread, WaitReturns(t)
       PROVE  WaitInv'
  <2>1. turn[t] = "due"
    BY <1>12 DEF WaitReturns, WaitInv, WokenAreDue
  <2> QED BY <1>12, <2>1
          DEF WaitReturns, Taken, WaitInv, WokenAreDue, LateIsDue, RunnerIsAwake
<1>13. ASSUME NEW t \in Thread, Blocks(t) \/ Unblocks(t) \/ Switch(t)
       PROVE  WaitInv'
  BY <1>13 DEF Blocks, Unblocks, Switch, InThread, WaitInv, WokenAreDue,
               LateIsDue, RunnerIsAwake
<1> QED BY <1>1, <1>2, <1>3, <1>4, <1>5, <1>6, <1>7, <1>8, <1>9, <1>10, <1>11,
           <1>12, <1>13 DEF Next, GuestCall, Goes

\* No wait of any thread ends without a retrace of its own, though all threads
\* share s_lastWaitReturn (VIWaitForRetrace).
THEOREM WaitsTakeRetraces == Spec => []WaitsPaceTheGame
<1>1. WaitInv => WaitsPaceTheGame
  BY DEF WaitInv, WaitsPaceTheGame
<1> QED BY WaitInit, WaitNext, <1>1, PTL DEF Spec

(* Types. *)

HIDE DEF PresentInv, ReadyIsNew, CopiesAreNew, RetraceShowsNew, Untaken

LEMMA ZeroFits == 0 \in 0..(CatchUp - 1) /\ CatchUp - 1 \in 0..(CatchUp - 1)
BY VideoAssumption

LEMMA TypeInit == Init => TypeOK
<1> SUFFICES ASSUME Init PROVE TypeOK
  OBVIOUS
<1>1. 0 \in 0..(FarBehind + 2) /\ 0 \in 0..Unflipped /\ 0 \in 0..MaxCalls
  BY VideoAssumption
<1>2. advance \in [step : {"none", "callbacks", "show", "next"},
                   by : Thread \cup {Idle}, service : BOOLEAN,
                   left : 0..(CatchUp - 1), shows : {"nothing", "black", "xfb"}]
  BY ZeroFits DEF Init, NoAdvance
<1>3. present \in [step : {"none", "pacing", "handler", "seal"}, nested : BOOLEAN]
  BY DEF Init, NoPresent
<1>4. /\ pending \in [fb : Frame, black : BOOLEAN]
      /\ active \in [fb : Frame, black : BOOLEAN]
      /\ current \in Frame /\ ready \in Frame /\ screen \in Screens
  BY DEF Init, Frame, Screens
<1>5. /\ doing \in [Thread -> {"runs", "asleep", "woken", "blocked"}]
      /\ turn \in [Thread -> {"due", "taken", "outran"}]
  BY DEF Init
<1>6. /\ late \in 0..(FarBehind + 2) /\ copies \in 0..Unflipped
      /\ sinceWait \in 0..2 /\ calls \in 0..MaxCalls
  BY <1>1 DEF Init
<1>7. /\ armed \in BOOLEAN /\ frameActive \in BOOLEAN
      /\ waitedBefore \in BOOLEAN /\ sincePaced \in BOOLEAN
      /\ running \in Thread \cup {Idle}
  BY Zenon DEF Init
<1> QED BY <1>2, <1>3, <1>4, <1>5, <1>6, <1>7 DEF TypeOK

LEMMA PresentFrameType ==
    ASSUME TypeOK,
           NEW xfb, NEW paced, NEW n \in 0..Unflipped,
           NEW s \in Screens, NEW r \in Frame,
           PresentFrame(xfb, paced, n, s, r)
    PROVE  /\ ready' \in Frame /\ frameActive' \in BOOLEAN
           /\ copies' \in 0..Unflipped /\ screen' \in Screens
           /\ sincePaced' \in BOOLEAN
           /\ present' \in [step : {"none", "pacing", "handler", "seal"},
                            nested : BOOLEAN]
<1> USE VideoAssumption
<1>1. CASE present.step # "none"
  BY <1>1 DEF PresentFrame, TypeOK
<1>2. CASE present.step = "none"
  <2>1. OwnRetrace \in BOOLEAN /\ Sealed(frameActive) \in BOOLEAN
    BY DEF OwnRetrace, Sealed
  <2>2. screen' \in Screens /\ copies' \in 0..Unflipped /\ sincePaced' \in BOOLEAN
    BY <1>2 DEF PresentFrame, Presented, Screens, TypeOK
  <2> QED BY <1>2, <2>1, <2>2 DEF PresentFrame, TypeOK, Frame
<1> QED BY <1>1, <1>2

LEMMA BeginRetraceType ==
    ASSUME TypeOK, NEW by \in Thread \cup {Idle}, NEW service \in BOOLEAN,
           NEW left \in 0..(CatchUp - 1), BeginRetrace(by, service, left),
           present' \in [step : {"none", "pacing", "handler", "seal"},
                         nested : BOOLEAN],
           calls' \in 0..MaxCalls
    PROVE  TypeOK'
<1> USE VideoAssumption
<1>1. late' \in 0..(FarBehind + 2) /\ sinceWait' \in 0..2
  BY DEF BeginRetrace, Behind, AtMost, TypeOK
<1>2. active' \in [fb : Frame, black : BOOLEAN] /\ current' \in Frame
  BY DEF BeginRetrace, TypeOK
<1>3. /\ turn' \in [Thread -> {"due", "taken", "outran"}]
      /\ doing' \in [Thread -> {"runs", "asleep", "woken", "blocked"}]
  BY DEF BeginRetrace, Due, Woken, TypeOK
<1>4. advance' \in [step : {"none", "callbacks", "show", "next"},
                    by : Thread \cup {Idle}, service : BOOLEAN,
                    left : 0..(CatchUp - 1), shows : {"nothing", "black", "xfb"}]
  BY DEF BeginRetrace, Shows
<1>5. frameActive' \in BOOLEAN /\ sincePaced' \in BOOLEAN /\ armed' \in BOOLEAN
  BY DEF BeginRetrace, TypeOK
<1>6. UNCHANGED <<pending, ready, copies, screen, waitedBefore, running>>
  BY DEF BeginRetrace
<1> QED BY <1>1, <1>2, <1>3, <1>4, <1>5, <1>6 DEF TypeOK

\* A call leaves the count of nested calls in its range.
LEMMA CallsType ==
    ASSUME TypeOK, Calls
    PROVE  calls' \in 0..MaxCalls
BY VideoAssumption DEF Calls, TypeOK

LEMMA CallType ==
    ASSUME TypeOK,
           \/ \E fb \in Buffer : VISetNextFrameBuffer(fb) \/ CopyDisp(fb)
           \/ \E black \in BOOLEAN : VISetBlack(black)
           \/ VIFlush
    PROVE  TypeOK'
<1> USE VideoAssumption
<1>1. ASSUME NEW fb \in Buffer, VISetNextFrameBuffer(fb)
      PROVE  TypeOK'
  BY <1>1, CallsType DEF VISetNextFrameBuffer, TypeOK, Frame, frame, threads
<1>2. ASSUME NEW black \in BOOLEAN, VISetBlack(black)
      PROVE  TypeOK'
  BY <1>2, CallsType DEF VISetBlack, TypeOK, frame, threads
<1>3. CASE VIFlush
  <2>1. /\ ready' \in Frame /\ frameActive' \in BOOLEAN
        /\ copies' \in 0..Unflipped /\ screen' \in Screens /\ sincePaced' \in BOOLEAN
        /\ present' \in [step : {"none", "pacing", "handler", "seal"},
                         nested : BOOLEAN]
    <3>1. CASE copies > 0
      <4>1. PresentFrame(TRUE, ~Held, copies, screen, ready)
        BY <1>3, <3>1 DEF VIFlush
      <4> QED BY <4>1, PresentFrameType DEF TypeOK
    <3>2. CASE ~(copies > 0)
      BY <1>3, <3>2 DEF VIFlush, TypeOK, frame
    <3> QED BY <3>1, <3>2
  <2> QED BY <1>3, <2>1, CallsType DEF VIFlush, TypeOK, threads
<1>4. ASSUME NEW fb \in Buffer, CopyDisp(fb)
      PROVE  TypeOK'
  <2> DEFINE n == AtMost(copies + 1, Unflipped)
             s == IF screen = "again" THEN screen ELSE "new"
  <2>1. n \in 0..Unflipped /\ s \in Screens
    BY DEF AtMost, TypeOK, Screens
  <2>2. fb \in Frame
    BY DEF Frame
  <2>3. IF n = Unflipped THEN PresentFrame(TRUE, TRUE, n, s, fb)
        ELSE /\ copies' = n /\ screen' = s /\ ready' = fb
             /\ UNCHANGED <<frameActive, sincePaced, present>>
    BY <1>4 DEF CopyDisp
  <2> HIDE DEF n, s
  <2>4. /\ ready' \in Frame /\ frameActive' \in BOOLEAN
        /\ copies' \in 0..Unflipped /\ screen' \in Screens /\ sincePaced' \in BOOLEAN
        /\ present' \in [step : {"none", "pacing", "handler", "seal"},
                         nested : BOOLEAN]
    <3>1. CASE n = Unflipped
      BY <2>1, <2>2, <2>3, <3>1, PresentFrameType
    <3>2. CASE n # Unflipped
      BY <2>1, <2>2, <2>3, <3>2 DEF TypeOK
    <3> QED BY <3>1, <3>2
  <2>5. /\ pending' \in [fb : Frame, black : BOOLEAN]
        /\ active' \in [fb : Frame, black : BOOLEAN] /\ current' \in Frame
    BY <1>4, <2>2 DEF CopyDisp, TypeOK
  <2> QED BY <1>4, <2>4, <2>5, CallsType DEF CopyDisp, TypeOK, threads
<1> QED BY <1>1, <1>2, <1>3, <1>4

LEMMA ThreadType ==
    ASSUME TypeOK, NEW t \in Thread,
           \/ WaitSkipped(t) \/ VIWaitForRetrace(t) \/ Blocks(t)
           \/ WaitReturns(t) \/ Unblocks(t) \/ Switch(t)
    PROVE  TypeOK'
<1> USE VideoAssumption DEF TypeOK, field, frame, Taken
<1>1. CASE WaitSkipped(t)
  BY <1>1 DEF WaitSkipped
<1>2. CASE VIWaitForRetrace(t)
  BY <1>2 DEF VIWaitForRetrace
<1>3. CASE Blocks(t)
  BY <1>3 DEF Blocks
<1>4. CASE WaitReturns(t)
  BY <1>4 DEF WaitReturns
<1>5. CASE Unblocks(t) \/ Switch(t)
  BY <1>5 DEF Unblocks, Switch
<1> QED BY <1>1, <1>2, <1>3, <1>4, <1>5

LEMMA InnerType ==
    ASSUME TypeOK,
           \/ CallbacksReturn \/ CallbackBlocks \/ Show \/ NextDue
           \/ AlarmHandler \/ HandlerReturns \/ PaceEnds \/ Seal
    PROVE  TypeOK'
<1> USE VideoAssumption
<1>1. CASE CallbacksReturn \/ CallbackBlocks
  BY <1>1 DEF CallbacksReturn, CallbackBlocks, TypeOK, field, frame, threads
<1>2. CASE Show
  <2>1. /\ ready' \in Frame /\ frameActive' \in BOOLEAN
        /\ copies' \in 0..Unflipped /\ screen' \in Screens /\ sincePaced' \in BOOLEAN
        /\ present' \in [step : {"none", "pacing", "handler", "seal"},
                         nested : BOOLEAN]
    <3>1. CASE MayShow /\ frameActive /\ advance.shows # "nothing"
      <4>1. PresentFrame(advance.shows = "xfb", FALSE, copies, screen, ready)
        BY <1>2, <3>1 DEF Show
      <4> QED BY <4>1, PresentFrameType DEF TypeOK
    <3>2. CASE ~(MayShow /\ frameActive /\ advance.shows # "nothing")
      BY <1>2, <3>2 DEF Show, TypeOK, frame
    <3> QED BY <3>1, <3>2
  <2> QED BY <1>2, <2>1 DEF Show, TypeOK, field, threads
<1>3. CASE NextDue
  <2>1. calls' \in 0..MaxCalls /\ present' = present
    BY <1>3 DEF NextDue, TypeOK
  <2>2. CASE advance.left > 0
             /\ BeginRetrace(advance.by, advance.service, advance.left - 1)
    <3>1. /\ advance.by \in Thread \cup {Idle} /\ advance.service \in BOOLEAN
          /\ advance.left - 1 \in 0..(CatchUp - 1)
      BY <2>2 DEF TypeOK
    <3> QED BY <2>1, <2>2, <3>1, BeginRetraceType DEF TypeOK
  <2>3. CASE /\ advance' = NoAdvance
             /\ UNCHANGED <<late, field, frame, sincePaced, threads>>
    BY <2>1, <2>3 DEF TypeOK, NoAdvance, field, frame, threads
  <2> QED BY <1>3, <2>2, <2>3 DEF NextDue
<1>4. CASE AlarmHandler \/ HandlerReturns
  BY <1>4 DEF AlarmHandler, HandlerReturns, Sequence, TypeOK, field, frame, threads
<1>5. CASE PaceEnds
  <2>1. /\ present' \in [step : {"none", "pacing", "handler", "seal"},
                         nested : BOOLEAN]
        /\ calls' \in 0..MaxCalls
    BY <1>5 DEF PaceEnds, Sequence, TypeOK
  <2>2. CASE BeginRetrace(running, FALSE, 0)
    <3>1. running \in Thread \cup {Idle}
      BY DEF TypeOK
    <3> QED BY <2>1, <2>2, <3>1, ZeroFits, BeginRetraceType
  <2>3. CASE UNCHANGED <<late, field, frame, sincePaced, threads, advance>>
    BY <2>1, <2>3 DEF TypeOK, field, frame, threads
  <2> QED BY <1>5, <2>2, <2>3 DEF PaceEnds
<1>6. CASE Seal
  <2>1. present' \in [step : {"none", "pacing", "handler", "seal"}, nested : BOOLEAN]
    BY <1>6 DEF Seal, NoPresent
  <2>2. sincePaced' \in BOOLEAN /\ frameActive' \in BOOLEAN /\ ready' \in Frame
    BY <1>6, Zenon DEF Seal, Sealed, Frame
  <2>3. calls' \in 0..MaxCalls
    BY <1>6 DEF Seal, TypeOK
  <2> QED BY <1>6, <2>1, <2>2, <2>3 DEF Seal, TypeOK, field, threads
<1> QED BY <1>1, <1>2, <1>3, <1>4, <1>5, <1>6

LEMMA TypeNext == TypeOK /\ [Next]_vars => TypeOK'
<1> SUFFICES ASSUME TypeOK, [Next]_vars PROVE TypeOK'
  OBVIOUS
<1>0. /\ running \in Thread \cup {Idle} /\ 0 \in 0..MaxCalls
      /\ present \in [step : {"none", "pacing", "handler", "seal"}, nested : BOOLEAN]
  BY VideoAssumption DEF TypeOK
<1>1. CASE UNCHANGED vars
  BY <1>1 DEF vars, TypeOK, field, frame, threads
<1>2. ASSUME NEW left \in 0..(CatchUp - 1), ProcessRetracesDeferred(left)
      PROVE  TypeOK'
  <2>1. BeginRetrace(running, FALSE, left) /\ UNCHANGED present /\ calls' = 0
    BY <1>2 DEF ProcessRetracesDeferred
  <2> QED BY <2>1, <1>0, BeginRetraceType
<1>3. CASE Get
  <2>1. /\ BeginRetrace(running, TRUE, CatchUp - 1) /\ UNCHANGED present
        /\ calls' \in 0..MaxCalls
    BY <1>3, CallsType DEF Get
  <2> QED BY <2>1, <1>0, ZeroFits, BeginRetraceType
<1>4. CASE IdlePoll
  <2>1. BeginRetrace(Idle, TRUE, CatchUp - 1) /\ UNCHANGED present /\ calls' = 0
    BY <1>4 DEF IdlePoll
  <2> QED BY <2>1, <1>0, ZeroFits, BeginRetraceType
<1>5. CASE Tick
  BY <1>5, VideoAssumption DEF Tick, TypeOK, field, frame, threads
<1> QED BY <1>1, <1>2, <1>3, <1>4, <1>5, ZeroFits, CallType, ThreadType, InnerType
        DEF Next, GuestCall, Goes

\* Every field of the video interface keeps its range: no retrace is delivered
\* ahead of the host's clock and no poll delivers more than its limit
\* (AdvanceDueRetraces), at any depth of calls inside calls.
THEOREM VideoTypeCorrect == Spec => []TypeOK
BY TypeInit, TypeNext, PTL DEF Spec
=============================================================================
