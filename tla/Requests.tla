------------------------------ MODULE Requests ------------------------------
(* What a service that answers out of line promises the guest thread that    *)
(* asked: the thread stays in its call from the question to its own answer,   *)
(* every question is answered at most once, and an answer that comes after    *)
(* its asker is gone reaches nobody.                                          *)
EXTENDS Naturals

CONSTANTS Askers, MaxAsked

VARIABLES
    asked,      \* asked[a]: the number of a's open question, 0 when it has none
    answered,   \* the questions whose answer has not been picked up
    last        \* the last question's number

vars == <<asked, answered, last>>

Init ==
    /\ asked = [a \in Askers |-> 0]
    /\ answered = {}
    /\ last = 0

Ask(a) ==
    /\ asked[a] = 0
    /\ last < MaxAsked
    /\ last' = last + 1
    /\ asked' = [asked EXCEPT ![a] = last + 1]
    /\ UNCHANGED answered

\* A question asked and answered, or turned away, in the same call.
AskInVain ==
    /\ last < MaxAsked
    /\ last' = last + 1
    /\ UNCHANGED <<asked, answered>>

\* The service answers a set of open questions at once.
Answer(questions) ==
    /\ questions # {}
    /\ questions \subseteq {asked[a] : a \in Askers} \ ({0} \cup answered)
    /\ answered' = answered \cup questions
    /\ UNCHANGED <<asked, last>>

\* The asker goes on with its answer.
Return(a) ==
    /\ asked[a] \in answered
    /\ asked' = [asked EXCEPT ![a] = 0]
    /\ answered' = answered \ {asked[a]}
    /\ UNCHANGED last

\* The asker is cancelled in its call. An answer it already had stays behind.
GiveUp(a) ==
    /\ asked[a] # 0
    /\ asked' = [asked EXCEPT ![a] = 0]
    /\ UNCHANGED <<answered, last>>

Next ==
    \/ AskInVain
    \/ \E questions \in SUBSET (1 .. MaxAsked) : Answer(questions)
    \/ \E a \in Askers : Ask(a) \/ Return(a) \/ GiveUp(a)

Spec == Init /\ [][Next]_vars
=============================================================================
