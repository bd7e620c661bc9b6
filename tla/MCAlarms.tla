------------------------------ MODULE MCAlarms ------------------------------
(* Instances of Alarms for TLC: threads of different priorities, and the   *)
(* calls that threads and handlers make in each run.                       *)
EXTENDS Alarms, TLC

CONSTANTS a1, a2, a3, high, low, idle, none

TwoAlarms == {a1, a2}
ThreeAlarms == {a1, a2, a3}
OneThread == {low}
TwoThreads == {high, low}
OnePriority == [t \in {low} |-> 0]
TwoPriorities == [t \in {high, low} |-> IF t = high THEN 0 ELSE 1]
Past == {-2}
OffGrid == {-1}
Symmetric == Permutations({a1, a2, a3})

SetCalls == {"SetAlarm", "SetPeriodicAlarm"}
AllCalls == SetCalls \cup {"CancelAlarm", "RFLiIsWorking"}
AnyCancel == SetCalls \cup {"CancelAlarm"}
=============================================================================
