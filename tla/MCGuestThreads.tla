--------------------------- MODULE MCGuestThreads ---------------------------
(* Instances of GuestThreads for TLC: three threads, two mutexes, and games *)
(* that each make a few of the OS calls.                                    *)
EXTENDS GuestThreads, TLC

CONSTANTS main, a, b, mu1, mu2, w, none

ThreeThreads == {main, a, b}
TwoMutexes == {mu1, mu2}
OneQueue == {w}
Symmetric == Permutations({a, b}) \cup Permutations({mu1, mu2})

Start == {"CreateThread", "ResumeThread"}
Locks == {"LockMutex", "UnlockMutex"}
LocksAndSuspends == Start \cup Locks \cup {"SuspendThread"}

\* One of the threads, and one of the mutexes, whichever.
OneThread == {{a}, {b}}
OneMutex == {{mu1}, {mu2}}

LockGames ==
    [calls : {LocksAndSuspends}, threads : {{a, b}}, mutexes : {TwoMutexes}, main : {1},
     priorities : {{0, 1, 2}}, attributes : {{FALSE}}, suspends : {1}, counts : {1}]
PreemptGames ==
    [calls : {LocksAndSuspends \cup {"SleepThread", "WakeupThread", "SleepTicks",
                  "YieldThread", "DisableScheduler", "Interrupt"}},
     threads : OneThread, mutexes : OneMutex, main : {0},
     priorities : {{0, 1}}, attributes : {{FALSE}}, suspends : {2}, counts : {2}]
LifeGames ==
    [calls : {Start \cup {"ExitThread", "CancelThread", "JoinThread", "DetachThread",
                  "SleepThread", "Interrupt"}},
     threads : {{a, b}}, mutexes : {{}}, main : {0},
     priorities : {{0, 1}}, attributes : {BOOLEAN}, suspends : {1}, counts : {1}]
CancelGames ==
    [calls : {LocksAndSuspends \cup {"ExitThread", "CancelThread", "YieldThread"}},
     threads : {{a, b}}, mutexes : OneMutex, main : {1},
     priorities : {{0, 1}}, attributes : {BOOLEAN}, suspends : {1}, counts : {1}]
SleepGames ==
    [calls : {Start \cup {"SleepTicks", "SleepThread", "Interrupt"}},
     threads : {{a, b}}, mutexes : {{}}, main : {0},
     priorities : {{1}}, attributes : {{FALSE}}, suspends : {1}, counts : {1}]
ReturnGames ==
    [calls : {Start \cup {"ReturnFromEntry", "SleepThread"}},
     threads : {{a, b}}, mutexes : {{}}, main : {0},
     priorities : {{1}}, attributes : {{FALSE}}, suspends : {1}, counts : {1}]
AllGames ==
    LockGames \cup PreemptGames \cup LifeGames \cup CancelGames \cup SleepGames \cup ReturnGames

ExitHoldingGames ==
    [calls : {Start \cup Locks \cup {"ExitThread", "JoinThread", "YieldThread"}},
     threads : {{a, b}}, mutexes : OneMutex, main : {1},
     priorities : {{0, 1}}, attributes : {{FALSE}}, suspends : {1}, counts : {1}]
StaleTimerGames ==
    [calls : {Start \cup {"SleepTicks", "CancelThread"}},
     threads : OneThread, mutexes : {{}}, main : {0},
     priorities : {{0}}, attributes : {{TRUE}}, suspends : {1}, counts : {1}]
=============================================================================
