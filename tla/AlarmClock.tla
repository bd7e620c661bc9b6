----------------------------- MODULE AlarmClock -----------------------------
(***************************************************************************)
(* What the alarm queue of os_alarm.cpp promises: an armed alarm has a     *)
(* deadline, goes off when its deadline has passed and no other alarm has  *)
(* an earlier one, and is then off, or armed again for a later time.       *)
(***************************************************************************)
EXTENDS Naturals

CONSTANTS Alarm, Off

VARIABLES deadline,     \* when each alarm goes off, or Off
          now

vars == <<deadline, now>>

Armed == {a \in Alarm : deadline[a] # Off}

Init == deadline = [a \in Alarm |-> Off] /\ now = 0

Tick == now' = now + 1 /\ UNCHANGED deadline

\* Only a changes: it is armed for a time from t on.
ArmedFrom(a, t) == /\ deadline'[a] # Off
                   /\ deadline'[a] >= t
                   /\ deadline' = [deadline EXCEPT ![a] = deadline'[a]]

Arm(a) == a \notin Armed /\ ArmedFrom(a, now) /\ UNCHANGED now

Disarm(a) == /\ a \in Armed
             /\ deadline' = [deadline EXCEPT ![a] = Off]
             /\ UNCHANGED now

GoOff(a) == /\ a \in Armed
            /\ deadline[a] <= now
            /\ \A b \in Armed : deadline[a] <= deadline[b]
            /\ \/ deadline' = [deadline EXCEPT ![a] = Off]
               \/ ArmedFrom(a, now + 1)
            /\ UNCHANGED now

Next == Tick \/ \E a \in Alarm : Arm(a) \/ Disarm(a) \/ GoOff(a)

Spec == Init /\ [][Next]_vars
=============================================================================
