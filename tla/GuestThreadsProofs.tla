------------------------- MODULE GuestThreadsProofs -------------------------
(* The scheduler of os_thread.cpp keeps its queues, for every number of    *)
(* threads, mutexes, queues and priorities.                                *)
(*                                                                         *)
(* OSThread links, run queues and pending bits are torn down and built up  *)
(* again by a dozen calls, and most of these are interrupted by others: a  *)
(* thread that falls asleep arms a timer first, one that ends unlocks and  *)
(* wakes first, and a hint remembers that a switch is due. The proof of    *)
(* the queues therefore needs what the fibers still have to do. Good is    *)
(* the conjunction of TypeOK, QueueInv (each thread is in the queue its    *)
(* state calls for, sorted), FiberInv (the mode of the active fiber, and   *)
(* the calls under it) and LifeInv (ended threads, timers, owners). There  *)
(* is a lemma that each action preserves Good; the lemmas before them are  *)
(* about sequences, queues and stacks of calls.                            *)
(*                                                                         *)
(* The theorems hold of games in which no entry function returns           *)
(* (NoReturn): at the end of FiberProc the host goes on with the default   *)
(* thread's fiber, wherever that was left and whatever the OS has that     *)
(* thread waiting for, so the modes do not describe the calls that are     *)
(* left. What returning does to the queues is only model-checked.          *)
(*                                                                         *)
(* Mutexes and joiners come after that, with a second invariant, LockInv,  *)
(* over Good: who is on the way to a mutex or to a thread's end (StackInv, *)
(* WaitInv), who has what (HeldInv, EndInv), and that whoever frees a      *)
(* mutex or ends goes on to wake (FreeInv, JoinInv). A thread that ends    *)
(* may be switched away, for good, by the first queue it wakes, with other *)
(* mutexes still locked and its joiners asleep: LockInv is about Orderly   *)
(* games, where whoever ends has one mutex at most, and what it says of    *)
(* joiners is about Settled ones, where it has none. FewThreads:           *)
(* OSWakeupThread wakes no more than kMaxWake (MaxWake) threads at a time. *)
EXTENDS GuestThreads, FiniteSetTheorems, SequenceTheorems, TLAPS

-----------------------------------------------------------------------------
(* Naturals.                                                               *)

\* A set of naturals with 0 and with the successor of each of its elements.
LEMMA SetInduction ==
  ASSUME NEW S \in SUBSET Nat, 0 \in S, \A n \in S : n + 1 \in S
  PROVE  S = Nat
  <1>. SUFFICES ASSUME NEW n \in Nat, n \notin S PROVE FALSE
    OBVIOUS
  <1>. DEFINE A == (0 .. n) \cap S
              f == [x \in A |-> x + 1]
  <1>1. IsFiniteSet(0 .. n) /\ A \in SUBSET (0 .. n)
    BY FS_Interval
  <1>2. IsFiniteSet(A) /\ 0 \in A
    BY <1>1, FS_Subset
  <1>3. f \in Injection(A, A)
    BY DEF Injection, IsInjective
  <1>4. f \in Surjection(A, A)
    BY <1>2, <1>3, FS_Injection
  <1>5. PICK x \in A : f[x] = 0
    BY <1>2, <1>4 DEF Surjection
  <1>. QED BY <1>5

\* The least element, which Min chooses.
LEMMA LeastNatural ==
  ASSUME NEW S \in SUBSET Nat, S # {}
  PROVE  /\ Min(S) \in S
         /\ \A m \in S : Min(S) <= m
  <1>. DEFINE B == {n \in Nat : \A m \in S : n <= m}
  <1>1. PICK m \in S : TRUE
    OBVIOUS
  <1>2. 0 \in B /\ m + 1 \notin B
    OBVIOUS
  <1>3. PICK n \in B : n + 1 \notin B
    BY <1>2, SetInduction
  <1>4. n \in S /\ \A x \in S : n <= x
    BY <1>3
  <1>. QED BY <1>4 DEF Min

-----------------------------------------------------------------------------
(* Sequences of threads.                                                   *)

Distinct(s) == \A i, j \in DOMAIN s : s[i] = s[j] => i = j
Ranked(s, r) == \A i, j \in DOMAIN s : i < j => r[s[i]] <= r[s[j]]

\* The elements of part are elements of s, in the order they have there.
Within(part, s) ==
    /\ Range(part) \subseteq Range(s)
    /\ \A i, j \in DOMAIN part : i < j =>
          \E a, b \in DOMAIN s : a < b /\ part[i] = s[a] /\ part[j] = s[b]

\* A sequence whose elements come from s in their order is as distinct and as sorted as s.
LEMMA WithinKeeps ==
  ASSUME NEW T, NEW s \in Seq(T), NEW part \in Seq(T), Within(part, s)
  PROVE  /\ Distinct(s) => Distinct(part)
         /\ \A r : Ranked(s, r) => Ranked(part, r)
  <1>1. ASSUME Distinct(s), NEW i \in DOMAIN part, NEW j \in DOMAIN part, part[i] = part[j]
        PROVE  i = j
    <2>1. \A k, l \in DOMAIN part : k < l => part[k] # part[l]
      BY <1>1 DEF Within, Distinct
    <2>. QED BY <1>1, <2>1
  <1>2. ASSUME NEW r, Ranked(s, r) PROVE Ranked(part, r)
    BY <1>2 DEF Within, Ranked
  <1>. QED BY <1>1, <1>2 DEF Distinct

\* A stretch of a sequence.
LEMMA SubWithin ==
  ASSUME NEW T, NEW s \in Seq(T), NEW m \in 1 .. Len(s) + 1, NEW n \in m - 1 .. Len(s)
  PROVE  /\ SubSeq(s, m, n) \in Seq(T)
         /\ Within(SubSeq(s, m, n), s)
         /\ Range(SubSeq(s, m, n)) = {s[i] : i \in m .. n}
  <1>. DEFINE r == SubSeq(s, m, n)
  <1>1. r \in Seq(T) /\ Len(r) = n - m + 1 /\ \A i \in 1 .. Len(r) : r[i] = s[m + i - 1]
    OBVIOUS
  <1>2. DOMAIN r = 1 .. Len(r) /\ DOMAIN s = 1 .. Len(s)
    BY <1>1
  <1>. HIDE DEF r
  <1>3. Range(r) = {s[i] : i \in m .. n}
    <2>1. ASSUME NEW i \in m .. n PROVE s[i] \in Range(r)
      <3>1. i - m + 1 \in DOMAIN r /\ r[i - m + 1] = s[i]
        BY <1>1, <1>2
      <3>. QED BY <3>1 DEF Range
    <2>2. ASSUME NEW i \in DOMAIN r PROVE r[i] \in {s[k] : k \in m .. n}
      BY <1>1, <1>2
    <2>. QED BY <2>1, <2>2 DEF Range
  <1>4. Range(r) \subseteq Range(s)
    BY <1>2, <1>3 DEF Range
  <1>5. ASSUME NEW i \in DOMAIN r, NEW j \in DOMAIN r, i < j
        PROVE  \E a, b \in DOMAIN s : a < b /\ r[i] = s[a] /\ r[j] = s[b]
    <2>1. m + i - 1 \in DOMAIN s /\ m + j - 1 \in DOMAIN s /\ m + i - 1 < m + j - 1
      BY <1>1, <1>2, <1>5
    <2>2. r[i] = s[m + i - 1] /\ r[j] = s[m + j - 1]
      BY <1>1, <1>2
    <2>. QED BY <2>1, <2>2
  <1>. QED BY <1>1, <1>3, <1>4, <1>5 DEF Within, r

\* The elements of a concatenation.
LEMMA ConcatIs ==
  ASSUME NEW T, NEW A \in Seq(T), NEW B \in Seq(T)
  PROVE  /\ A \o B \in Seq(T)
         /\ Len(A \o B) = Len(A) + Len(B)
         /\ \A k \in 1 .. Len(A) + Len(B) :
               (A \o B)[k] = IF k <= Len(A) THEN A[k] ELSE B[k - Len(A)]
  OBVIOUS

\* Only the empty sequence has no elements.
LEMMA EmptyRange ==
  ASSUME NEW T, NEW s \in Seq(T)
  PROVE  s = <<>> <=> Range(s) = {}
  <1>1. s # <<>> => Range(s) # {}
    <2>. SUFFICES ASSUME s # <<>> PROVE s[1] \in Range(s)
      OBVIOUS
    <2>1. 1 \in DOMAIN s
      BY EmptySeq, LenProperties
    <2>. QED BY <2>1 DEF Range
  <1>2. s = <<>> => Range(s) = {}
    BY DEF Range
  <1>. QED BY <1>1, <1>2

\* UnlinkThread takes one element out and keeps the order of the others.
LEMMA RemovedSeq ==
  ASSUME NEW T, NEW s \in Seq(T), NEW e
  PROVE  /\ RemoveFirst(s, e) \in Seq(T)
         /\ Within(RemoveFirst(s, e), s)
         /\ Distinct(s) => Range(RemoveFirst(s, e)) = Range(s) \ {e}
  <1>. DEFINE r == RemoveFirst(s, e)
              I == {i \in 1 .. Len(s) : s[i] = e}
  <1>1. CASE I = {}
    <2>1. r = s
      BY <1>1 DEF RemoveFirst
    <2>2. e \notin Range(s)
      BY <1>1 DEF Range
    <2>. QED BY <2>1, <2>2 DEF Within, Range
  <1>2. CASE I # {}
    <2>. DEFINE n == Min(I)
    <2>0. I \in SUBSET Nat
      OBVIOUS
    <2>1. n \in I
      BY <1>2, <2>0, LeastNatural
    <2>2. r = RemoveAt(s, n)
      BY <1>2 DEF RemoveFirst, SelectInSeq
    <2>3. r = SubSeq(s, 1, n - 1) \o SubSeq(s, n + 1, Len(s))
      BY <2>2 DEF RemoveAt
    <2>. HIDE DEF n, r
    <2>4. n \in 1 .. Len(s) /\ s[n] = e
      BY <2>1
    <2>5. /\ r \in Seq(T) /\ Len(r) = Len(s) - 1
          /\ \A i \in 1 .. Len(r) : r[i] = IF i < n THEN s[i] ELSE s[i + 1]
      <3>. DEFINE A == SubSeq(s, 1, n - 1)
                  B == SubSeq(s, n + 1, Len(s))
      <3>1. A \in Seq(T) /\ Len(A) = n - 1 /\ \A i \in 1 .. n - 1 : A[i] = s[i]
        BY <2>4
      <3>2. /\ B \in Seq(T) /\ Len(B) = Len(s) - n
            /\ \A i \in 1 .. Len(s) - n : B[i] = s[n + i]
        BY <2>4
      <3>3. r = A \o B
        BY <2>3
      <3>. HIDE DEF A, B
      <3>4. n \in Nat /\ Len(s) \in Nat /\ n <= Len(s) /\ 1 <= n
        BY <2>4
      <3>5. r \in Seq(T) /\ Len(r) = Len(s) - 1
        <4>1. r \in Seq(T) /\ Len(r) = Len(A) + Len(B)
          BY <3>1, <3>2, <3>3, ConcatIs
        <4>. QED BY <4>1, <3>1, <3>2, <3>4
      <3>6. ASSUME NEW i \in 1 .. Len(s) - 1 PROVE r[i] = IF i < n THEN s[i] ELSE s[i + 1]
        <4>1. r[i] = IF i <= Len(A) THEN A[i] ELSE B[i - Len(A)]
          BY <3>1, <3>2, <3>3, <3>4, ConcatIs
        <4>2. CASE i < n
          BY <4>1, <4>2, <3>1, <3>4
        <4>3. CASE i >= n
          <5>1. i - (n - 1) \in 1 .. Len(s) - n /\ n + (i - (n - 1)) = i + 1
            BY <4>3, <3>4
          <5>. QED BY <4>1, <4>3, <5>1, <3>1, <3>2, <3>4
        <4>. QED BY <4>2, <4>3, <3>4
      <3>. QED BY <3>5, <3>6
    <2>6. DOMAIN r = 1 .. Len(s) - 1 /\ DOMAIN s = 1 .. Len(s) /\ Len(s) \in Nat
      <3>1. Len(s) \in Nat /\ DOMAIN s = 1 .. Len(s) /\ DOMAIN r = 1 .. Len(r)
        BY <2>5
      <3>. QED BY <3>1, <2>5
    <2>7. Range(r) \subseteq Range(s)
      <3>1. ASSUME NEW i \in DOMAIN r PROVE r[i] \in Range(s)
        <4>1. /\ r[i] = (IF i < n THEN s[i] ELSE s[i + 1])
              /\ i \in DOMAIN s /\ i + 1 \in DOMAIN s
          BY <2>4, <2>5, <2>6
        <4>. QED BY <4>1 DEF Range
      <3>. QED BY <3>1 DEF Range
    <2>8. ASSUME NEW i \in DOMAIN r, NEW j \in DOMAIN r, i < j
          PROVE  \E a, b \in DOMAIN s : a < b /\ r[i] = s[a] /\ r[j] = s[b]
      <3>1. CASE j < n
        BY <3>1, <2>4, <2>5, <2>6, <2>8
      <3>2. CASE i < n /\ ~(j < n)
        <4>1. i \in DOMAIN s /\ j + 1 \in DOMAIN s /\ i < j + 1
          BY <2>6, <2>8
        <4>2. r[i] = s[i] /\ r[j] = s[j + 1]
          BY <3>2, <2>5, <2>6
        <4>. QED BY <4>1, <4>2
      <3>3. CASE ~(i < n)
        <4>1. i + 1 \in DOMAIN s /\ j + 1 \in DOMAIN s /\ i + 1 < j + 1
          BY <2>6, <2>8
        <4>2. r[i] = s[i + 1] /\ r[j] = s[j + 1]
          BY <3>3, <2>4, <2>5, <2>6, <2>8
        <4>. QED BY <4>1, <4>2
      <3>. QED BY <3>1, <3>2, <3>3
    <2>9. ASSUME Distinct(s) PROVE Range(r) = Range(s) \ {e}
      <3>1. e \notin Range(r)
        <4>1. ASSUME NEW i \in DOMAIN r PROVE r[i] # e
          BY <2>9, <2>4, <2>5, <2>6 DEF Distinct
        <4>. QED BY <4>1 DEF Range
      <3>2. ASSUME NEW k \in DOMAIN s, s[k] # e PROVE s[k] \in Range(r)
        <4>1. CASE k < n
          BY <4>1, <2>4, <2>5, <2>6 DEF Range
        <4>2. CASE k > n
          <5>1. k - 1 \in DOMAIN r /\ r[k - 1] = s[k]
            BY <4>2, <2>4, <2>5, <2>6
          <5>. QED BY <5>1 DEF Range
        <4>. QED BY <4>1, <4>2, <3>2, <2>4, <2>6
      <3>. QED BY <3>1, <3>2, <2>7 DEF Range
    <2>. QED BY <2>5, <2>7, <2>8, <2>9 DEF Within, r
  <1>. QED BY <1>1, <1>2

\* A place for a thread of rank p in s.
IsPlace(i, s, rank, p) ==
    /\ i \in 1 .. Len(s) + 1
    /\ \A j \in 1 .. i - 1 : rank[s[j]] <= p
    /\ i <= Len(s) => rank[s[i]] > p

\* The place that Position chooses.
LEMMA PositionIsPlace ==
  ASSUME NEW s \in Seq(Thread), prio \in [Thread -> Nat], NEW p \in Nat
  PROVE  IsPlace(Position(s, p), s, prio, p)
  <1>. DEFINE I == {i \in 1 .. Len(s) + 1 : i <= Len(s) => prio[s[i]] > p}
              n == Min(I)
  <1>1. Len(s) \in Nat
    OBVIOUS
  <1>2. I \in SUBSET Nat /\ Len(s) + 1 \in I
    BY <1>1
  <1>3. n \in I /\ \A m \in I : n <= m
    <2>. HIDE DEF I
    <2>. QED BY <1>2, LeastNatural
  <1>. HIDE DEF n
  <1>4. ASSUME NEW j \in 1 .. n - 1 PROVE prio[s[j]] <= p
    <2>1. j \in 1 .. Len(s) /\ j \notin I
      BY <1>1, <1>3
    <2>2. s[j] \in Thread
      BY <2>1
    <2>. QED BY <2>1, <2>2
  <1>5. IsPlace(n, s, prio, p)
    BY <1>3, <1>4 DEF IsPlace
  <1>. QED BY <1>5 DEF IsPlace, Position

\* r is s with e at place i.
Inserted(r, s, i, e) ==
    /\ DOMAIN r = 1 .. Len(s) + 1
    /\ r[i] = e
    /\ \A k \in DOMAIN r : \/ k < i /\ k \in DOMAIN s /\ r[k] = s[k]
                           \/ k = i /\ r[k] = e
                           \/ k > i /\ k - 1 \in DOMAIN s /\ r[k] = s[k - 1]
    /\ \A k \in DOMAIN s : /\ k < i => k \in DOMAIN r /\ r[k] = s[k]
                           /\ k >= i => k + 1 \in DOMAIN r /\ r[k + 1] = s[k]

\* What InsertAt makes of a sequence.
LEMMA InsertShape ==
  ASSUME NEW T, NEW s \in Seq(T), NEW e \in T, NEW i \in 1 .. Len(s) + 1
  PROVE  InsertAt(s, i, e) \in Seq(T) /\ Inserted(InsertAt(s, i, e), s, i, e)
  <1>. DEFINE r == InsertAt(s, i, e)
  <1>1. r = SubSeq(s, 1, i - 1) \o <<e>> \o SubSeq(s, i, Len(s))
    BY DEF InsertAt, r
  <1>2. Len(s) \in Nat
    OBVIOUS
  <1>. HIDE DEF r
  <1>3. /\ r \in Seq(T) /\ Len(r) = Len(s) + 1
        /\ \A k \in 1 .. Len(r) : r[k] = IF k < i THEN s[k] ELSE IF k = i THEN e ELSE s[k - 1]
    <2>. DEFINE A == SubSeq(s, 1, i - 1)
                B == SubSeq(s, i, Len(s))
    <2>1. A \in Seq(T) /\ Len(A) = i - 1 /\ \A k \in 1 .. i - 1 : A[k] = s[k]
      BY <1>2
    <2>2. /\ B \in Seq(T) /\ Len(B) = Len(s) - i + 1
          /\ \A k \in 1 .. Len(s) - i + 1 : B[k] = s[k + i - 1]
      BY <1>2
    <2>3. r = A \o <<e>> \o B
      BY <1>1
    <2>. HIDE DEF A, B
    <2>4. /\ A \o <<e>> \in Seq(T) /\ Len(A \o <<e>>) = i
          /\ \A k \in 1 .. i : (A \o <<e>>)[k] = IF k < i THEN s[k] ELSE e
      BY <2>1, <1>2
    <2>. DEFINE C == A \o <<e>>
    <2>5. C \in Seq(T) /\ Len(C) = i /\ \A k \in 1 .. i : C[k] = IF k < i THEN s[k] ELSE e
      BY <2>4
    <2>6. r = C \o B
      BY <2>3
    <2>. HIDE DEF C
    <2>7. r \in Seq(T) /\ Len(r) = Len(s) + 1
      BY <2>2, <2>5, <2>6, <1>2, ConcatIs
    <2>8. ASSUME NEW k \in 1 .. Len(s) + 1
          PROVE  r[k] = IF k < i THEN s[k] ELSE IF k = i THEN e ELSE s[k - 1]
      <3>1. r[k] = IF k <= Len(C) THEN C[k] ELSE B[k - Len(C)]
        BY <2>2, <2>5, <2>6, <1>2, ConcatIs
      <3>2. CASE k <= i
        BY <3>1, <3>2, <2>5, <1>2
      <3>3. CASE k > i
        <4>1. k - i \in 1 .. Len(s) - i + 1 /\ k - i + i - 1 = k - 1
          BY <3>3, <1>2
        <4>. QED BY <4>1, <3>1, <3>3, <2>2, <2>5, <1>2
      <3>. QED BY <3>2, <3>3, <1>2
    <2>. QED BY <2>7, <2>8
  <1>4. DOMAIN r = 1 .. Len(s) + 1 /\ DOMAIN s = 1 .. Len(s)
    BY <1>3
  <1>5. \A k \in DOMAIN r : \/ k < i /\ k \in DOMAIN s /\ r[k] = s[k]
                            \/ k = i /\ r[k] = e
                            \/ k > i /\ k - 1 \in DOMAIN s /\ r[k] = s[k - 1]
    BY <1>2, <1>3, <1>4
  <1>6. \A k \in DOMAIN s : /\ k < i => k \in DOMAIN r /\ r[k] = s[k]
                            /\ k >= i => k + 1 \in DOMAIN r /\ r[k + 1] = s[k]
    BY <1>2, <1>3, <1>4
  <1>7. r[i] = e
    BY <1>2, <1>3
  <1>. QED BY <1>3, <1>4, <1>5, <1>6, <1>7 DEF r, Inserted

\* LinkThread puts a thread behind those that go before it or with it: the queue stays sorted.
LEMMA InsertedSeq ==
  ASSUME prio \in [Thread -> Nat], NEW s \in Seq(Thread), NEW e \in Thread, e \notin Range(s),
         NEW rank, \A u \in Thread : rank[u] \in Nat, \A u \in Range(s) : prio[u] = rank[u],
         Distinct(s), Ranked(s, rank)
  PROVE  LET r == InsertAt(s, Position(s, rank[e]), e)
         IN  /\ r \in Seq(Thread)
             /\ Distinct(r)
             /\ Range(r) = Range(s) \cup {e}
             /\ Ranked(r, rank)
  <1>. DEFINE i == Position(s, rank[e])
              r == InsertAt(s, i, e)
  <1>0. IsPlace(i, s, rank, rank[e])
    <2>1. rank[e] \in Nat
      OBVIOUS
    <2>2. IsPlace(i, s, prio, rank[e])
      BY <2>1, PositionIsPlace
    <2>3. \A k \in 1 .. Len(s) : prio[s[k]] = rank[s[k]]
      <3>1. DOMAIN s = 1 .. Len(s)
        OBVIOUS
      <3>. QED BY <3>1 DEF Range
    <2>. HIDE DEF i
    <2>4. i \in 1 .. Len(s) + 1 /\ Len(s) \in Nat
      BY <2>2 DEF IsPlace
    <2>5. \A k \in 1 .. i - 1 : k \in 1 .. Len(s)
      BY <2>4
    <2>6. i <= Len(s) => i \in 1 .. Len(s)
      BY <2>4
    <2>. QED BY ONLY <2>2, <2>3, <2>4, <2>5, <2>6 DEF IsPlace
  <1>. HIDE DEF i
  <1>2. i \in 1 .. Len(s) + 1 /\ Len(s) \in Nat /\ DOMAIN s = 1 .. Len(s)
    <2>1. Len(s) \in Nat /\ DOMAIN s = 1 .. Len(s)
      OBVIOUS
    <2>. QED BY <1>0, <2>1 DEF IsPlace
  <1>4. r \in Seq(Thread) /\ Inserted(r, s, i, e)
    BY <1>2, InsertShape
  <1>. HIDE DEF r
  <1>3. r \in Seq(Thread) /\ DOMAIN r = 1 .. Len(s) + 1
    BY <1>4 DEF Inserted
  <1>5. \A k \in DOMAIN r : \/ k < i /\ k \in DOMAIN s /\ r[k] = s[k]
                            \/ k = i /\ r[k] = e
                            \/ k > i /\ k - 1 \in DOMAIN s /\ r[k] = s[k - 1]
    BY <1>4 DEF Inserted
  <1>11. i \in DOMAIN r /\ r[i] = e
    BY <1>2, <1>4 DEF Inserted
  <1>12. \A k \in DOMAIN s : /\ k < i => k \in DOMAIN r /\ r[k] = s[k]
                             /\ k >= i => k + 1 \in DOMAIN r /\ r[k + 1] = s[k]
    BY <1>4 DEF Inserted
  <1>6. \A k \in DOMAIN s : s[k] # e /\ rank[s[k]] \in Nat 
    <2>1. \A k \in DOMAIN s : s[k] \in Thread /\ s[k] \in Range(s)
      BY DEF Range
    <2>. QED BY <2>1
  <1>7. Distinct(r)
    <2>. SUFFICES ASSUME NEW k \in DOMAIN r, NEW l \in DOMAIN r, r[k] = r[l] PROVE k = l
      BY DEF Distinct
    <2>. k \in Nat /\ l \in Nat /\ i \in Nat
      BY <1>2, <1>3
    <2>. QED BY <1>5, <1>6 DEF Distinct
  <1>8. Range(r) = Range(s) \cup {e}
    <2>1. \A k \in DOMAIN r : r[k] \in Range(s) \cup {e}
      BY <1>5 DEF Range
    <2>2. e \in Range(r)
      BY <1>11 DEF Range
    <2>3. ASSUME NEW k \in DOMAIN s PROVE s[k] \in Range(r)
      <3>1. k < i \/ k >= i
        BY <1>2
      <3>. QED BY <3>1, <1>12 DEF Range
    <2>. QED BY <2>1, <2>2, <2>3 DEF Range
  <1>9. \A k \in DOMAIN s : /\ k < i => rank[s[k]] <= rank[e]
                            /\ k >= i => rank[e] <= rank[s[k]]
    <2>. SUFFICES ASSUME NEW k \in DOMAIN s
                  PROVE  /\ k < i => rank[s[k]] <= rank[e]
                         /\ k >= i => rank[e] <= rank[s[k]]
      OBVIOUS
    <2>1. CASE k < i
      <3>1. k \in 1 .. i - 1
        BY <2>1, <1>2
      <3>. QED BY <2>1, <3>1, <1>0, <1>2 DEF IsPlace
    <2>2. CASE k >= i
      <3>0. i <= Len(s) /\ i \in DOMAIN s
        BY <2>2, <1>2
      <3>1. rank[s[i]] > rank[e] /\ rank[s[i]] \in Nat /\ rank[s[k]] \in Nat /\ rank[e] \in Nat
        BY <3>0, <1>0, <1>6 DEF IsPlace
      <3>2. rank[s[i]] <= rank[s[k]]
        <4>1. i < k \/ i = k
          BY <2>2, <1>2
        <4>. QED BY <4>1, <3>0, <3>1 DEF Ranked
      <3>. QED BY <2>2, <3>1, <3>2, <1>2
    <2>. QED BY <2>1, <2>2, <1>2, <1>3
  <1>10. Ranked(r, rank)
    <2>. SUFFICES ASSUME NEW k \in DOMAIN r, NEW l \in DOMAIN r, k < l
                  PROVE  rank[r[k]] <= rank[r[l]]
      BY DEF Ranked
    <2>. k \in Nat /\ l \in Nat /\ i \in Nat
      BY <1>2, <1>3
    <2>0. \A a, b \in DOMAIN s : a < b => rank[s[a]] <= rank[s[b]]
      BY <1>6 DEF Ranked
    <2>1. r[k] = e => k = i
      BY <1>5, <1>6
    <2>2. r[l] = e => l = i
      BY <1>5, <1>6
    <2>3. CASE k < i /\ l < i
      BY <2>3, <2>0, <1>5
    <2>4. CASE k < i /\ l = i
      BY <2>4, <1>9, <1>5
    <2>5. CASE k < i /\ l > i
      <3>1. k \in DOMAIN s /\ r[k] = s[k] /\ l - 1 \in DOMAIN s /\ r[l] = s[l - 1]
        BY <2>5, <1>5
      <3>2. k < l - 1
        BY <2>5
      <3>. QED BY <3>1, <3>2, <2>0
    <2>6. CASE k = i
      <3>1. l > i /\ l - 1 \in DOMAIN s /\ r[l] = s[l - 1] /\ l - 1 >= i /\ r[k] = e
        BY <2>6, <1>5
      <3>. QED BY <3>1, <1>9
    <2>7. CASE k > i
      <3>0. l > i
        BY <2>7
      <3>1. k - 1 \in DOMAIN s /\ r[k] = s[k - 1]
        BY <2>7, <1>5
      <3>3. l - 1 \in DOMAIN s /\ r[l] = s[l - 1]
        BY <3>0, <1>5
      <3>2. k - 1 < l - 1
        OBVIOUS
      <3>. QED BY <3>1, <3>2, <3>3, <2>0
    <2>. QED BY <2>3, <2>4, <2>5, <2>6, <2>7
  <1>. QED BY <1>3, <1>7, <1>8, <1>10 DEF r, i

\* The recursion of Kept has a solution: for each n, a function on 0 .. n obeys it.
LEMMA KeptDef ==
  ASSUME NEW T, NEW s \in Seq(T), NEW S
  PROVE  \E k : /\ k = [i \in 0 .. Len(s) |->
                           IF i = 0 THEN <<>> ELSE IF s[i] \in S THEN Append(k[i - 1], s[i])
                           ELSE k[i - 1]]
                /\ Kept(s, S) = k[Len(s)]
  <1>. DEFINE Body(k, i) == IF i = 0 THEN <<>> ELSE IF s[i] \in S THEN Append(k[i - 1], s[i])
                            ELSE k[i - 1]
              N == {n \in Nat : \E k : k = [i \in 0 .. n |-> Body(k, i)]}
  <1>1. 0 \in N
    <2>. DEFINE k == [i \in 0 .. 0 |-> <<>>]
    <2>1. k = [i \in 0 .. 0 |-> Body(k, i)]
      OBVIOUS
    <2>. QED BY <2>1
  <1>2. ASSUME NEW n \in N PROVE n + 1 \in N
    <2>1. PICK k : k = [i \in 0 .. n |-> Body(k, i)]
      OBVIOUS
    <2>. DEFINE more == [i \in 0 .. n + 1 |-> IF i <= n THEN k[i] ELSE Body(k, i)]
    <2>2. more = [i \in 0 .. n + 1 |-> Body(more, i)]
      <3>1. ASSUME NEW i \in 0 .. n + 1 PROVE more[i] = Body(more, i)
        <4>1. more[i] = Body(k, i)
          <5>1. CASE i = n + 1
            BY <5>1
          <5>2. CASE i \in 0 .. n
            BY <5>2, <2>1
          <5>. QED BY <5>1, <5>2
        <4>2. i # 0 => i - 1 \in 0 .. n + 1 /\ i - 1 <= n
          OBVIOUS
        <4>3. i # 0 => more[i - 1] = k[i - 1]
          BY <4>2
        <4>. QED BY <4>1, <4>3
      <3>. QED BY <3>1
    <2>. QED
      <3>. HIDE DEF more, Body
      <3>. QED BY <2>2
  <1>3. N = Nat
    BY <1>1, <1>2, SetInduction
  <1>4. Len(s) \in Nat
    OBVIOUS
  <1>5. PICK k : k = [i \in 0 .. Len(s) |-> Body(k, i)]
    BY <1>3, <1>4
  <1>. DEFINE c == CHOOSE f : f = [i \in 0 .. Len(s) |-> Body(f, i)]
  <1>6. c = [i \in 0 .. Len(s) |-> Body(c, i)]
    BY <1>5
  <1>7. Kept(s, S) = c[Len(s)]
    BY DEF Kept
  <1>. QED
    <2>. HIDE DEF c
    <2>. QED BY <1>6, <1>7

\* Kept keeps the order, and the elements that are in S.
LEMMA KeptSeq ==
  ASSUME NEW T, NEW s \in Seq(T), NEW S
  PROVE  /\ Kept(s, S) \in Seq(T)
         /\ Within(Kept(s, S), s)
         /\ Range(Kept(s, S)) = Range(s) \cap S
  <1>1. PICK k : /\ k = [i \in 0 .. Len(s) |->
                           IF i = 0 THEN <<>> ELSE IF s[i] \in S THEN Append(k[i - 1], s[i])
                           ELSE k[i - 1]]
                 /\ Kept(s, S) = k[Len(s)]
    BY KeptDef
  \* What is kept of the first n.
  <1>. DEFINE Good(n) == /\ k[n] \in Seq(T)
                         /\ \A e : e \in Range(k[n]) <=> e \in S /\ \E a \in 1 .. n : e = s[a]
                         /\ \A i, j \in 1 .. Len(k[n]) : i < j =>
                               \E a, b \in 1 .. n : a < b /\ k[n][i] = s[a] /\ k[n][j] = s[b]
              N == {n \in Nat : n <= Len(s) => Good(n)}
  <1>2. k[0] = <<>> /\ \A n \in 1 .. Len(s) :
                         k[n] = IF s[n] \in S THEN Append(k[n - 1], s[n]) ELSE k[n - 1]
    <2>1. Len(s) \in Nat
      OBVIOUS
    <2>2. \A n \in 0 .. Len(s) :
             k[n] = IF n = 0 THEN <<>> ELSE IF s[n] \in S THEN Append(k[n - 1], s[n])
                    ELSE k[n - 1]
      BY <1>1
    <2>3. 0 \in 0 .. Len(s) /\ \A n \in 1 .. Len(s) : n \in 0 .. Len(s) /\ n # 0
      BY <2>1
    <2>. QED BY <2>2, <2>3
  <1>3. 0 \in N
    <2>1. Good(0)
      BY <1>2 DEF Range
    <2>. QED BY <2>1
  <1>4. ASSUME NEW n \in N PROVE n + 1 \in N
    <2>. SUFFICES ASSUME n + 1 <= Len(s) PROVE Good(n + 1)
      OBVIOUS
    <2>1. n \in Nat /\ Len(s) \in Nat /\ n + 1 \in 1 .. Len(s)
      OBVIOUS
    <2>2. Good(n)
      BY <2>1
    <2>3. k[n + 1] = IF s[n + 1] \in S THEN Append(k[n], s[n + 1]) ELSE k[n]
      <3>1. n + 1 - 1 = n
        BY <2>1
      <3>. QED BY <1>2, <2>1, <3>1
    <2>4. s[n + 1] \in T
      BY <2>1
    <2>. DEFINE r == k[n]
                e == s[n + 1]
    <2>5. CASE e \notin S
      <3>1. k[n + 1] = r
        BY <2>3, <2>5
      <3>2. \A a \in 1 .. n + 1 : a \in 1 .. n \/ a = n + 1
        BY <2>1
      <3>3. 1 .. n \subseteq 1 .. n + 1
        BY <2>1
      <3>4. ASSUME NEW u
            PROVE  u \in Range(r) <=> u \in S /\ \E a \in 1 .. n + 1 : u = s[a]
        BY <2>2, <2>5, <3>2, <3>3
      <3>5. ASSUME NEW i \in 1 .. Len(r), NEW j \in 1 .. Len(r), i < j
            PROVE  \E a, b \in 1 .. n + 1 : a < b /\ r[i] = s[a] /\ r[j] = s[b]
        BY <2>2, <3>3, <3>5
      <3>. HIDE DEF r, e
      <3>. QED BY <2>2, <3>1, <3>4, <3>5 DEF r
    <2>6. CASE e \in S
      <3>1. k[n + 1] = Append(r, e)
        BY <2>3, <2>6
      <3>2. /\ Append(r, e) \in Seq(T) /\ Len(Append(r, e)) = Len(r) + 1 /\ Len(r) \in Nat
            /\ \A i \in 1 .. Len(r) : Append(r, e)[i] = r[i]
            /\ Append(r, e)[Len(r) + 1] = e
            /\ DOMAIN Append(r, e) = 1 .. Len(r) + 1 /\ DOMAIN r = 1 .. Len(r)
        BY <2>2, <2>4
      <3>3. ASSUME NEW u
            PROVE  u \in Range(Append(r, e)) <=> u \in S /\ \E a \in 1 .. n + 1 : u = s[a]
        <4>1. u \in Range(Append(r, e)) <=> u \in Range(r) \/ u = e
          <5>1. \A i \in 1 .. Len(r) + 1 : i \in 1 .. Len(r) \/ i = Len(r) + 1
            BY <3>2
          <5>2. 1 .. Len(r) \subseteq 1 .. Len(r) + 1 /\ Len(r) + 1 \in 1 .. Len(r) + 1
            BY <3>2
          <5>. HIDE DEF r, e
          <5>. QED BY <3>2, <5>1, <5>2 DEF Range
        <4>2. (\E a \in 1 .. n + 1 : u = s[a]) <=> (\E a \in 1 .. n : u = s[a]) \/ u = e
          BY <2>1
        <4>. QED BY <4>1, <4>2, <2>2, <2>6
      <3>4. ASSUME NEW i \in 1 .. Len(r) + 1, NEW j \in 1 .. Len(r) + 1, i < j
            PROVE  \E a, b \in 1 .. n + 1 :
                      a < b /\ Append(r, e)[i] = s[a] /\ Append(r, e)[j] = s[b]
        <4>1. i \in 1 .. Len(r) /\ Append(r, e)[i] = r[i]
          BY <3>2, <3>4
        <4>2. CASE j \in 1 .. Len(r)
          <5>1. PICK a \in 1 .. n, b \in 1 .. n : a < b /\ r[i] = s[a] /\ r[j] = s[b]
            BY <2>2, <4>1, <4>2, <3>4
          <5>2. Append(r, e)[j] = r[j]
            BY <4>2, <3>2
          <5>3. a \in 1 .. n + 1 /\ b \in 1 .. n + 1
            BY <2>1
          <5>. QED BY <4>1, <5>1, <5>2, <5>3
        <4>3. CASE j = Len(r) + 1
          <5>1. r[i] \in Range(r)
            BY <4>1, <3>2 DEF Range
          <5>2. PICK a \in 1 .. n : r[i] = s[a]
            BY <5>1, <2>2
          <5>3. a \in 1 .. n + 1 /\ n + 1 \in 1 .. n + 1 /\ a < n + 1
            BY <2>1
          <5>4. Append(r, e)[j] = s[n + 1]
            BY <4>3, <3>2
          <5>. HIDE DEF r, e
          <5>. QED BY <4>1, <5>2, <5>3, <5>4
        <4>4. j \in 1 .. Len(r) \/ j = Len(r) + 1
          <5>. HIDE DEF r, e
          <5>. QED BY <3>2
        <4>. QED BY <4>2, <4>3, <4>4
      <3>. HIDE DEF r, e
      <3>5. k[n + 1] \in Seq(T) /\ Len(k[n + 1]) = Len(r) + 1
        BY <3>1, <3>2
      <3>6. \A u : u \in Range(k[n + 1]) <=> u \in S /\ \E a \in 1 .. n + 1 : u = s[a]
        BY <3>1, <3>3
      <3>7. \A i, j \in 1 .. Len(r) + 1 : i < j =>
              \E a, b \in 1 .. n + 1 : a < b /\ k[n + 1][i] = s[a] /\ k[n + 1][j] = s[b]
        BY <3>1, <3>4
      <3>. QED BY <3>5, <3>6, <3>7
    <2>. QED BY <2>5, <2>6
  <1>5. Good(Len(s))
    <2>1. N = Nat
      <3>. HIDE DEF Good
      <3>. QED BY <1>3, <1>4, SetInduction
    <2>2. Len(s) \in Nat /\ Len(s) <= Len(s)
      OBVIOUS
    <2>. HIDE DEF Good
    <2>. QED BY <2>1, <2>2
  <1>. QED
    <2>. DEFINE r == Kept(s, S)
    <2>1. r = k[Len(s)] /\ DOMAIN s = 1 .. Len(s)
      BY <1>1
    <2>2. r \in Seq(T) /\ \A e : e \in Range(r) <=> e \in S /\ \E a \in DOMAIN s : e = s[a]
      BY <1>5, <2>1
    <2>3. \A i, j \in DOMAIN r : i < j => \E a, b \in DOMAIN s : a < b /\ r[i] = s[a] /\ r[j] = s[b]
      <3>1. DOMAIN r = 1 .. Len(r)
        BY <2>2
      <3>2. \A i, j \in 1 .. Len(k[Len(s)]) : i < j =>
               \E a, b \in 1 .. Len(s) : a < b /\ k[Len(s)][i] = s[a] /\ k[Len(s)][j] = s[b]
        BY <1>5
      <3>. HIDE DEF r
      <3>3. Len(k[Len(s)]) = Len(r)
        BY <2>1
      <3>4. ASSUME NEW i \in DOMAIN r, NEW j \in DOMAIN r, i < j
            PROVE  \E a, b \in DOMAIN s : a < b /\ r[i] = s[a] /\ r[j] = s[b]
        <4>1. i \in 1 .. Len(k[Len(s)]) /\ j \in 1 .. Len(k[Len(s)])
          BY <3>1, <3>3
        <4>2. PICK a \in 1 .. Len(s), b \in 1 .. Len(s) :
                 a < b /\ k[Len(s)][i] = s[a] /\ k[Len(s)][j] = s[b]
          BY <4>1, <3>2, <3>4
        <4>3. k[Len(s)][i] = r[i] /\ k[Len(s)][j] = r[j] /\ a \in DOMAIN s /\ b \in DOMAIN s
          BY <2>1
        <4>. QED BY <4>2, <4>3
      <3>. QED BY <3>4
    <2>. HIDE DEF r
    <2>4. Range(r) = Range(s) \cap S
      BY <2>2 DEF Range
    <2>. QED BY <2>2, <2>3, <2>4 DEF r, Within

-----------------------------------------------------------------------------
(* The queues.                                                             *)

JoinQueues == {JoinQ(t) : t \in Thread}

\* The queue that t belongs in, in its state.
Home == [t \in Thread |-> IF state[t] = "waiting" THEN queue[t]
                          ELSE IF state[t] = "ready" /\ suspend[t] = 0 THEN RunQ(prio[t])
                          ELSE None]

\* The queues and the pending bits of threads that belong in homes and have
\* the priorities of rank.  (OSCreateThread empties the queue of joiners.)
Queues(links, bits, homes, rank) ==
    /\ links \in [Queue -> Seq(Thread)]
    /\ \A x \in Queue : Distinct(links[x]) /\ Ranked(links[x], rank)
    /\ \A x \in Queue : \A t \in Range(links[x]) : homes[t] = x
    /\ \A t \in Thread : homes[t] \in Queue \ JoinQueues => t \in Range(links[homes[t]])
    /\ bits = {p \in Priority : links[RunQ(p)] # <<>>}

\* The addresses of the queues tell apart whose they are.
LEMMA Addresses ==
  /\ RunQueues \subseteq Queue /\ BlockQueues \subseteq Queue /\ JoinQueues \subseteq BlockQueues
  /\ RunQueues \cap BlockQueues = {}
  /\ \A p : RunQ(p) \in RunQueues <=> p \in Priority
  /\ \A p : RunQ(p) \in Queue => p \in Priority
  /\ \A p, r : RunQ(p) = RunQ(r) => p = r
  /\ \A x \in Queue : x[1] = "run" <=> x \in RunQueues
  /\ \A x \in Queue : x[1] = "wait" => x \in BlockQueues \ JoinQueues
  /\ \A p : RunQ(p)[1] = "run" /\ RunQ(p)[2] = p
  /\ \A m \in Mutex : MutexQ(m) \in BlockQueues \ JoinQueues
  /\ \A t \in Thread : JoinQ(t) \in JoinQueues
  /\ \A w \in WaitQueue : WaitQ(w) \in BlockQueues \ JoinQueues
  /\ \A m, n : MutexQ(m) = MutexQ(n) => m = n
  BY DEF RunQueues, BlockQueues, Queue, JoinQueues, RunQ, MutexQ, JoinQ, WaitQ

\* A thread that belongs in no queue is in none.
LEMMA InNoQueue ==
  ASSUME NEW links, NEW bits, NEW homes, NEW rank, Queues(links, bits, homes, rank),
         NEW t \in Thread, homes[t] \notin Queue
  PROVE  \A x \in Queue : t \notin Range(links[x])
  BY DEF Queues

\* Unlink takes t out of the queue it belongs in.
LEMMA TakenOut ==
  ASSUME NEW homes, NEW rank, NEW now, Queues(q, pending, homes, rank),
         NEW t \in Thread, homes \in [Thread -> Queue \cup {None}],
         homes[t] # None, queue[t] = homes[t],
         \A u \in Thread \ {t} : now[u] = rank[u]
  PROVE  Queues(Unlinked(t), Unmarked(t), [homes EXCEPT ![t] = None], now)
  <1>. DEFINE y == queue[t]
              s == q[y]
              r == RemoveFirst(s, t)
              links == Unlinked(t)
              gone == [homes EXCEPT ![t] = None]
  <1>1. y \in Queue /\ q \in [Queue -> Seq(Thread)] /\ s \in Seq(Thread) /\ Distinct(s)
    BY DEF Queues
  <1>2. links = [q EXCEPT ![y] = r]
    BY <1>1, QueueAssumption DEF Unlinked
  <1>3. r \in Seq(Thread) /\ Within(r, s) /\ Range(r) = Range(s) \ {t}
    BY <1>1, RemovedSeq
  <1>. HIDE DEF r, links
  <1>4. /\ links \in [Queue -> Seq(Thread)] /\ links[y] = r
        /\ \A x \in Queue : x # y => links[x] = q[x]
    BY <1>1, <1>2, <1>3
  <1>5. ASSUME NEW x \in Queue PROVE Range(links[x]) = Range(q[x]) \ {t}
    <2>1. CASE x = y
      BY <2>1, <1>3, <1>4
    <2>2. CASE x # y
      BY <2>2, <1>4 DEF Queues
    <2>. QED BY <2>1, <2>2
  <1>6. ASSUME NEW x \in Queue PROVE Distinct(links[x]) /\ Ranked(links[x], now)
    <2>1. Distinct(links[x]) /\ Ranked(links[x], rank)
      <3>1. Distinct(q[x]) /\ Ranked(q[x], rank)
        BY DEF Queues
      <3>2. CASE x = y
        BY <3>1, <3>2, <1>1, <1>3, <1>4, WithinKeeps
      <3>. QED BY <3>1, <3>2, <1>4
    <2>2. \A i \in DOMAIN links[x] : now[links[x][i]] = rank[links[x][i]]
      <3>1. links[x] \in Seq(Thread)
        BY <1>4
      <3>2. \A i \in DOMAIN links[x] : links[x][i] \in Range(links[x])
        BY DEF Range
      <3>. QED BY <3>1, <3>2, <1>5
    <2>. QED BY <2>1, <2>2 DEF Ranked
  <1>7. ASSUME NEW x \in Queue, NEW u \in Range(links[x]) PROVE gone[u] = x
    <2>1. u \in Range(q[x]) /\ u # t
      BY <1>5
    <2>2. homes[u] = x /\ u \in Thread
      <3>1. \A i \in DOMAIN q[x] : q[x][i] \in Thread
        BY <1>1
      <3>. QED BY <2>1, <3>1 DEF Queues, Range
    <2>. QED BY <2>1, <2>2
  <1>8. ASSUME NEW u \in Thread, gone[u] \in Queue \ JoinQueues
        PROVE  u \in Range(links[gone[u]])
    <2>1. u # t /\ gone[u] = homes[u]
      BY <1>8, QueueAssumption
    <2>. QED BY <2>1, <1>5, <1>8 DEF Queues
  <1>9. Unmarked(t) = {p \in Priority : links[RunQ(p)] # <<>>}
    <2>1. Unmarked(t) = {p \in pending : queue[t] = RunQ(p) => links[RunQ(p)] # <<>>}
      BY DEF Unmarked, links
    <2>2. pending = {p \in Priority : q[RunQ(p)] # <<>>}
      BY DEF Queues
    <2>3. \A p \in Priority : RunQ(p) \in Queue
      BY Addresses
    <2>4. \A p \in Priority : links[RunQ(p)] # <<>> => q[RunQ(p)] # <<>>
      <3>1. ASSUME NEW p \in Priority, q[RunQ(p)] = <<>> PROVE links[RunQ(p)] = <<>>
        <4>1. links[RunQ(p)] \in Seq(Thread) /\ q[RunQ(p)] \in Seq(Thread)
          BY <2>3, <1>1, <1>4
        <4>2. Range(q[RunQ(p)]) = {}
          BY <3>1, <4>1, EmptyRange
        <4>3. Range(links[RunQ(p)]) = {}
          BY <4>2, <2>3, <1>5
        <4>. QED BY <4>1, <4>3, EmptyRange
      <3>. QED BY <3>1
    <2>5. \A p \in Priority : queue[t] # RunQ(p) => links[RunQ(p)] = q[RunQ(p)]
      BY <2>3, <1>4
    <2>. QED BY <2>1, <2>2, <2>4, <2>5
  <1>. QED BY <1>4, <1>6, <1>7, <1>8, <1>9 DEF Queues, links

\* Link sorts t into the queue x, by its rank.
LEMMA PutIn ==
  ASSUME NEW links, NEW bits, NEW homes, NEW rank \in [Thread -> Nat],
         Queues(links, bits, homes, rank),
         homes \in [Thread -> Queue \cup {None}], prio \in [Thread -> Nat],
         NEW t \in Thread, homes[t] = None, NEW x \in Queue,
         \A u \in Thread \ {t} : rank[u] = prio[u]
  PROVE  Queues(Link(links, t, x, rank[t]), bits \cup Mark(x), [homes EXCEPT ![t] = x], rank)
  <1>. DEFINE s == links[x]
              i == Position(s, rank[t])
              r == InsertAt(s, i, t)
              more == Link(links, t, x, rank[t])
              to == [homes EXCEPT ![t] = x]
  <1>1. /\ links \in [Queue -> Seq(Thread)] /\ s \in Seq(Thread) /\ Distinct(s)
        /\ Ranked(s, rank) /\ t \notin Range(s)
    BY InNoQueue, QueueAssumption DEF Queues
  <1>2. more = [links EXCEPT ![x] = r]
    BY DEF Link
  <1>4. \A u \in Range(s) : u \in Thread /\ u # t
    BY <1>1 DEF Range
  <1>. HIDE DEF i, more
  <1>6. r \in Seq(Thread) /\ Distinct(r) /\ Range(r) = Range(s) \cup {t} /\ Ranked(r, rank)
    <2>1. \A u \in Range(s) : prio[u] = rank[u]
      BY <1>4
    <2>2. \A u \in Thread : rank[u] \in Nat
      OBVIOUS
    <2>. HIDE DEF s
    <2>. QED BY <1>1, <2>1, <2>2, InsertedSeq DEF i
  <1>. HIDE DEF r
  <1>7. /\ more \in [Queue -> Seq(Thread)] /\ more[x] = r
        /\ \A z \in Queue : z # x => more[z] = links[z]
    BY <1>1, <1>2, <1>6
  <1>8. \A z \in Queue : Distinct(more[z]) /\ Ranked(more[z], rank)
    BY <1>6, <1>7 DEF Queues
  <1>9. ASSUME NEW z \in Queue, NEW u \in Range(more[z]) PROVE to[u] = z
    <2>1. CASE u = t
      <3>1. z = x
        BY <2>1, <1>7, InNoQueue, QueueAssumption
      <3>. QED BY <2>1, <3>1
    <2>2. CASE u # t
      <3>1. u \in Range(links[z])
        BY <2>2, <1>6, <1>7
      <3>. QED BY <2>2, <3>1 DEF Queues
    <2>. QED BY <2>1, <2>2
  <1>10. ASSUME NEW u \in Thread, to[u] \in Queue \ JoinQueues PROVE u \in Range(more[to[u]])
    <2>1. CASE u = t
      BY <2>1, <1>6, <1>7
    <2>2. CASE u # t
      <3>1. to[u] = homes[u] /\ u \in Range(links[homes[u]])
        BY <2>2, <1>10 DEF Queues
      <3>. QED BY <3>1, <1>6, <1>7, <1>10
    <2>. QED BY <2>1, <2>2
  <1>11. bits \cup Mark(x) = {p \in Priority : more[RunQ(p)] # <<>>}
    <2>1. bits = {p \in Priority : links[RunQ(p)] # <<>>}
      BY DEF Queues
    <2>2. \A p \in Priority : RunQ(p) \in Queue
      BY Addresses
    <2>3. r # <<>>
      BY <1>6, EmptyRange
    <2>4. \A p \in Priority : more[RunQ(p)] # <<>> <=> links[RunQ(p)] # <<>> \/ x = RunQ(p)
      BY <1>7, <2>2, <2>3
    <2>. QED BY <2>1, <2>4 DEF Mark
  <1>. QED BY <1>7, <1>8, <1>9, <1>10, <1>11 DEF Queues, more

\* The priority of a thread that is in no queue does not matter to them.
LEMMA RankOfUnlinked ==
  ASSUME NEW links, NEW bits, NEW homes, NEW rank, NEW now, Queues(links, bits, homes, rank),
         \A u \in Thread : homes[u] # None => now[u] = rank[u]
  PROVE  Queues(links, bits, homes, now)
  <1>1. ASSUME NEW x \in Queue, NEW i \in DOMAIN links[x]
        PROVE  now[links[x][i]] = rank[links[x][i]]
    <2>1. links[x][i] \in Thread /\ links[x][i] \in Range(links[x])
      BY DEF Queues, Range
    <2>2. homes[links[x][i]] = x
      BY <2>1 DEF Queues
    <2>. QED BY <2>1, <2>2, QueueAssumption
  <1>. QED BY <1>1 DEF Queues, Ranked

\* A thread queued behind its equals on its run queue.
LEMMA QueuedBehind ==
  ASSUME NEW homes, NEW rank, Queues(q, pending, homes, rank),
         NEW t \in Thread, homes \in [Thread -> Queue \cup {None}], homes[t] = None,
         rank \in [Thread -> Nat], NEW p \in Priority,
         \A u \in Thread : homes[u] = RunQ(p) => rank[u] = rank[t]
  PROVE  Queues([q EXCEPT ![RunQ(p)] = Append(@, t)], pending \cup Mark(RunQ(p)),
                [homes EXCEPT ![t] = RunQ(p)], rank)
  <1>. DEFINE x == RunQ(p)
              s == q[x]
              r == Append(s, t)
              links == [q EXCEPT ![x] = r]
              to == [homes EXCEPT ![t] = x]
  <1>1. /\ x \in Queue /\ q \in [Queue -> Seq(Thread)] /\ s \in Seq(Thread) /\ Distinct(s)
        /\ t \notin Range(s)
    BY Addresses, InNoQueue, QueueAssumption DEF Queues
  <1>. HIDE DEF x
  <1>2. /\ r \in Seq(Thread) /\ DOMAIN r = 1 .. Len(s) + 1 /\ Len(s) \in Nat
        /\ DOMAIN s = 1 .. Len(s) /\ r[Len(s) + 1] = t
        /\ \A i \in DOMAIN s : r[i] = s[i] /\ s[i] \in Thread /\ s[i] \in Range(s)
    <2>1. r \in Seq(Thread) /\ Len(r) = Len(s) + 1 /\ Len(s) \in Nat /\ r[Len(s) + 1] = t
      BY <1>1
    <2>2. DOMAIN s = 1 .. Len(s) /\ DOMAIN r = 1 .. Len(r)
      BY <1>1, <2>1
    <2>3. \A i \in DOMAIN s : r[i] = s[i] /\ s[i] \in Thread /\ s[i] \in Range(s)
      BY <1>1, <2>2 DEF Range
    <2>. QED BY <2>1, <2>2, <2>3
  <1>3. \A i \in DOMAIN r : i \in DOMAIN s \/ i = Len(s) + 1
    BY <1>2
  <1>4. \A u : u \in Range(r) <=> u \in Range(s) \/ u = t
    <2>1. DOMAIN s \subseteq DOMAIN r /\ Len(s) + 1 \in DOMAIN r
      BY <1>2
    <2>. QED BY <2>1, <1>2, <1>3 DEF Range
  <1>5. Distinct(r)
    BY <1>1, <1>2, <1>3 DEF Distinct
  <1>6. Ranked(r, rank)
    <2>1. \A i \in DOMAIN r : rank[r[i]] = rank[t]
      <3>1. \A i \in DOMAIN s : homes[s[i]] = x
        BY <1>1, <1>2 DEF Queues
      <3>. QED BY <3>1, <1>2, <1>3 DEF x
    <2>. QED BY <2>1 DEF Ranked
  <1>. HIDE DEF r, s, links
  <1>7. /\ links \in [Queue -> Seq(Thread)] /\ links[x] = r
        /\ \A z \in Queue : z # x => links[z] = q[z]
    BY <1>1, <1>2 DEF links
  <1>8. \A z \in Queue : Distinct(links[z]) /\ Ranked(links[z], rank)
    BY <1>5, <1>6, <1>7 DEF Queues
  <1>9. ASSUME NEW z \in Queue, NEW u \in Range(links[z]) PROVE to[u] = z
    <2>1. CASE u = t
      <3>1. z = x
        BY <2>1, <1>7, InNoQueue, QueueAssumption
      <3>. QED BY <2>1, <3>1
    <2>2. CASE u # t
      <3>1. u \in Range(q[z])
        BY <2>2, <1>4, <1>7 DEF s
      <3>. QED BY <2>2, <3>1 DEF Queues
    <2>. QED BY <2>1, <2>2
  <1>10. ASSUME NEW u \in Thread, to[u] \in Queue \ JoinQueues PROVE u \in Range(links[to[u]])
    <2>1. CASE u = t
      BY <2>1, <1>4, <1>7
    <2>2. CASE u # t
      <3>1. to[u] = homes[u] /\ u \in Range(q[homes[u]])
        BY <2>2, <1>10 DEF Queues
      <3>. QED BY <3>1, <1>4, <1>7, <1>10 DEF s
    <2>. QED BY <2>1, <2>2
  <1>11. pending \cup Mark(x) = {v \in Priority : links[RunQ(v)] # <<>>}
    <2>1. pending = {v \in Priority : q[RunQ(v)] # <<>>}
      BY DEF Queues
    <2>2. \A v \in Priority : RunQ(v) \in Queue
      BY Addresses
    <2>3. r # <<>>
      BY <1>2, <1>4, EmptyRange
    <2>4. \A v \in Priority : links[RunQ(v)] # <<>> <=> q[RunQ(v)] # <<>> \/ x = RunQ(v)
      BY <1>7, <2>2, <2>3
    <2>. QED BY <2>1, <2>4 DEF Mark
  <1>. QED BY <1>7, <1>8, <1>9, <1>10, <1>11 DEF Queues, links, r, s, x

\* The first thread of a run queue leaves it.
LEMMA PickedFrom ==
  ASSUME NEW homes, NEW rank, Queues(q, pending, homes, rank),
         homes \in [Thread -> Queue \cup {None}], NEW p \in pending
  PROVE  LET t == Head(q[RunQ(p)])
         IN  /\ t \in Thread /\ homes[t] = RunQ(p)
             /\ Queues([q EXCEPT ![RunQ(p)] = Tail(@)],
                       IF Tail(q[RunQ(p)]) = <<>> THEN pending \ {p} ELSE pending,
                       [homes EXCEPT ![t] = None], rank)
  <1>. DEFINE x == RunQ(p)
              s == q[x]
              t == Head(s)
              r == Tail(s)
              links == [q EXCEPT ![x] = r]
              gone == [homes EXCEPT ![t] = None]
              bits == IF r = <<>> THEN pending \ {p} ELSE pending
  <1>1. /\ p \in Priority /\ x \in Queue /\ q \in [Queue -> Seq(Thread)]
        /\ s \in Seq(Thread) /\ Distinct(s) /\ Ranked(s, rank) /\ s # <<>>
    BY Addresses DEF Queues
  <1>. HIDE DEF x
  <1>2. /\ r \in Seq(Thread) /\ Len(s) \in Nat \ {0} /\ DOMAIN s = 1 .. Len(s) /\ t = s[1]
        /\ DOMAIN r = 1 .. Len(s) - 1 /\ \A i \in DOMAIN r : r[i] = s[i + 1]
    <2>1. r \in Seq(Thread) /\ Len(r) = Len(s) - 1 /\ \A i \in 1 .. Len(r) : r[i] = s[i + 1]
      BY <1>1, HeadTailProperties
    <2>2. Len(s) \in Nat \ {0} /\ DOMAIN s = 1 .. Len(s) /\ t = s[1] /\ DOMAIN r = 1 .. Len(r)
      BY <1>1, <2>1, EmptySeq
    <2>. QED BY <2>1, <2>2
  <1>3. t \in Thread /\ t \in Range(s)
    BY <1>1, <1>2 DEF Range
  <1>4. homes[t] = x
    BY <1>1, <1>3 DEF Queues
  <1>. HIDE DEF s, r, t
  <1>5. Within(r, s)
    <2>1. \A i \in DOMAIN r : i + 1 \in DOMAIN s /\ r[i] = s[i + 1]
      BY <1>2
    <2>2. \A i, j \in DOMAIN r : i < j => i + 1 < j + 1
      BY <1>2
    <2>3. Range(r) \subseteq Range(s)
      BY <2>1 DEF Range
    <2>. QED BY <2>1, <2>2, <2>3 DEF Within
  <1>6. \A u : u \in Range(r) <=> u \in Range(s) /\ u # t
    <2>1. ASSUME NEW i \in DOMAIN r PROVE r[i] \in Range(s) /\ r[i] # t
      <3>1. i + 1 \in DOMAIN s /\ 1 \in DOMAIN s /\ i + 1 # 1
        BY <1>2
      <3>2. s[i + 1] # s[1]
        BY <3>1, <1>1 DEF Distinct
      <3>3. s[i + 1] \in Range(s)
        BY <3>1 DEF Range
      <3>. QED BY <3>2, <3>3, <1>2
    <2>2. ASSUME NEW i \in DOMAIN s, s[i] # t PROVE s[i] \in Range(r)
      <3>1. i # 1
        BY <2>2, <1>2
      <3>2. i - 1 \in DOMAIN r /\ r[i - 1] = s[i]
        BY <3>1, <1>2
      <3>. QED BY <3>2 DEF Range
    <2>. QED BY <2>1, <2>2 DEF Range
  <1>. HIDE DEF links
  <1>7. /\ links \in [Queue -> Seq(Thread)] /\ links[x] = r
        /\ \A z \in Queue : z # x => links[z] = q[z]
    BY <1>1, <1>2 DEF links
  <1>8. \A z \in Queue : Distinct(links[z]) /\ Ranked(links[z], rank)
    <2>1. Distinct(r) /\ Ranked(r, rank)
      BY <1>1, <1>2, <1>5, WithinKeeps
    <2>. QED BY <1>7, <2>1 DEF Queues
  <1>9. ASSUME NEW z \in Queue, NEW u \in Range(links[z]) PROVE gone[u] = z
    <2>1. u \in Range(q[z])
      BY <1>6, <1>7 DEF s
    <2>2. homes[u] = z /\ u \in Thread
      <3>1. \A i \in DOMAIN q[z] : q[z][i] \in Thread
        BY <1>1
      <3>. QED BY <2>1, <3>1 DEF Queues, Range
    <2>3. u # t
      <3>. SUFFICES ASSUME u = t PROVE FALSE
        OBVIOUS
      <3>1. z = x
        BY <2>2, <1>4
      <3>. QED BY <3>1, <1>6, <1>7
    <2>. QED BY <2>2, <2>3
  <1>10. ASSUME NEW u \in Thread, gone[u] \in Queue \ JoinQueues
         PROVE  u \in Range(links[gone[u]])
    <2>1. u # t /\ gone[u] = homes[u]
      BY <1>10, QueueAssumption
    <2>2. u \in Range(q[homes[u]])
      BY <2>1, <1>10 DEF Queues
    <2>. QED BY <2>1, <2>2, <1>6, <1>7, <1>10 DEF s
  <1>11. bits = {v \in Priority : links[RunQ(v)] # <<>>}
    <2>1. pending = {v \in Priority : q[RunQ(v)] # <<>>}
      BY DEF Queues
    <2>2. \A v \in Priority : RunQ(v) \in Queue /\ (RunQ(v) = x => v = p)
      BY Addresses DEF x
    <2>3. \A v \in Priority : v # p => links[RunQ(v)] = q[RunQ(v)]
      BY <1>7, <2>2
    <2>4. links[RunQ(p)] = r
      BY <1>7 DEF x
    <2>. QED BY <2>1, <2>3, <2>4
  <1>. QED BY <1>3, <1>4, <1>7, <1>8, <1>9, <1>10, <1>11 DEF Queues, links, r, s, t, x

\* A thread queue that OSCreateThread empties.
LEMMA Emptied ==
  ASSUME NEW homes, NEW rank, Queues(q, pending, homes, rank), NEW x \in JoinQueues
  PROVE  Queues([q EXCEPT ![x] = <<>>], pending, homes, rank)
  <1>. DEFINE links == [q EXCEPT ![x] = <<>>]
  <1>1. /\ links \in [Queue -> Seq(Thread)] /\ x \in Queue
        /\ \A z \in Queue : z # x => links[z] = q[z]
        /\ links[x] = <<>>
    BY Addresses DEF Queues
  <1>. HIDE DEF links
  <1>2. Range(links[x]) = {} /\ Distinct(links[x]) /\ Ranked(links[x], rank)
    BY <1>1 DEF Range, Distinct, Ranked
  <1>3. \A z \in Queue : Distinct(links[z]) /\ Ranked(links[z], rank)
    BY <1>1, <1>2 DEF Queues
  <1>4. \A z \in Queue : \A t \in Range(links[z]) : homes[t] = z
    BY <1>1, <1>2 DEF Queues
  <1>5. \A t \in Thread : homes[t] \in Queue \ JoinQueues => t \in Range(links[homes[t]])
    BY <1>1 DEF Queues
  <1>6. pending = {p \in Priority : links[RunQ(p)] # <<>>}
    <2>1. \A p \in Priority : RunQ(p) \in Queue /\ RunQ(p) # x
      BY Addresses
    <2>. QED BY <2>1, <1>1 DEF Queues
  <1>. QED BY <1>1, <1>3, <1>4, <1>5, <1>6 DEF Queues, links

\* Where the threads of x belong after a wake-up.
WokenHomes(x, homes) ==
    [t \in Thread |-> IF t \in Range(Awake(x)) THEN RunQ(RunPriority(t))
                      ELSE IF t \in Range(Popped(x)) THEN None
                      ELSE homes[t]]

\* The wake-up takes the head of the queue, and readies those threads of it that are not suspended.
LEMMA PoppedFrom ==
  ASSUME NEW x \in Queue, q \in [Queue -> Seq(Thread)]
  PROVE  LET k == Len(Popped(x))
             rest == SubSeq(q[x], k + 1, Len(q[x]))
         IN  /\ Popped(x) \in Seq(Thread) /\ Within(Popped(x), q[x])
             /\ rest \in Seq(Thread) /\ Within(rest, q[x])
             /\ \A t : t \in Range(q[x]) <=> t \in Range(Popped(x)) \/ t \in Range(rest)
             /\ Distinct(q[x]) => \A t \in Range(rest) : t \notin Range(Popped(x))
             /\ Awake(x) \in Seq(Thread) /\ Within(Awake(x), Popped(x))
             /\ Range(Awake(x)) = {t \in Wakes(x) : suspend[t] < 1}
  <1>. DEFINE s == q[x]
              n == Min({MaxWake, Len(s)})
              rest == SubSeq(s, n + 1, Len(s))
  <1>1. s \in Seq(Thread) /\ Len(s) \in Nat /\ DOMAIN s = 1 .. Len(s)
    <2>1. s \in Seq(Thread)
      OBVIOUS
    <2>. QED BY <2>1, LenProperties
  <1>2. n \in 0 .. Len(s)
    <2>1. {MaxWake, Len(s)} \in SUBSET Nat /\ {MaxWake, Len(s)} # {}
      BY <1>1, ConstantsAssumption
    <2>2. n \in {MaxWake, Len(s)} /\ n <= Len(s)
      BY <2>1, LeastNatural
    <2>. QED BY <2>1, <2>2, <1>1
  <1>3. Popped(x) = SubSeq(s, 1, n)
    BY DEF Popped
  <1>. HIDE DEF n, s
  <1>4. 1 \in 1 .. Len(s) + 1 /\ n \in 1 - 1 .. Len(s) /\ n + 1 \in 1 .. Len(s) + 1
        /\ Len(s) \in (n + 1) - 1 .. Len(s)
    BY <1>1, <1>2
  <1>5. /\ Popped(x) \in Seq(Thread) /\ Within(Popped(x), s)
        /\ Range(Popped(x)) = {s[i] : i \in 1 .. n}
    BY <1>1, <1>3, <1>4, SubWithin
  <1>6. Len(Popped(x)) = n
    BY <1>1, <1>2, <1>3
  <1>7. /\ rest \in Seq(Thread) /\ Within(rest, s)
        /\ Range(rest) = {s[i] : i \in n + 1 .. Len(s)}
    BY <1>1, <1>4, SubWithin
  <1>8. \A t : t \in Range(s) <=> t \in Range(Popped(x)) \/ t \in Range(rest)
    <2>1. \A i : i \in DOMAIN s <=> i \in 1 .. n \/ i \in n + 1 .. Len(s)
      BY <1>1, <1>2
    <2>. QED BY <2>1, <1>5, <1>7 DEF Range
  <1>9. Distinct(s) => \A t \in Range(rest) : t \notin Range(Popped(x))
    <2>1. ASSUME Distinct(s), NEW i \in n + 1 .. Len(s), NEW j \in 1 .. n PROVE s[i] # s[j]
      <3>1. i \in DOMAIN s /\ j \in DOMAIN s /\ i # j
        BY <1>1, <1>2
      <3>. QED BY <3>1, <2>1 DEF Distinct
    <2>. QED BY <2>1, <1>5, <1>7
  <1>10. /\ Awake(x) \in Seq(Thread) /\ Within(Awake(x), Popped(x))
         /\ Range(Awake(x)) = Range(Popped(x)) \cap {t \in Wakes(x) : suspend[t] < 1}
    BY <1>5, KeptSeq DEF Awake
  <1>11. Wakes(x) \subseteq Range(Popped(x))
    BY DEF Wakes
  <1>. QED BY <1>5, <1>6, <1>7, <1>8, <1>9, <1>10, <1>11 DEF s

\* One queue behind another.
LEMMA ConcatSeq ==
  ASSUME NEW T, NEW s \in Seq(T), NEW a \in Seq(T), Distinct(s), Distinct(a),
         \A t \in Range(a) : t \notin Range(s)
  PROVE  /\ s \o a \in Seq(T)
         /\ Distinct(s \o a)
         /\ \A t : t \in Range(s \o a) <=> t \in Range(s) \/ t \in Range(a)
  <1>. DEFINE r == s \o a
              m == Len(s)
              n == Len(a)
  <1>1. /\ r \in Seq(T) /\ m \in Nat /\ n \in Nat /\ DOMAIN r = 1 .. m + n
        /\ DOMAIN s = 1 .. m /\ DOMAIN a = 1 .. n
        /\ \A i \in 1 .. m + n : r[i] = IF i <= m THEN s[i] ELSE a[i - m]
    <2>1. r \in Seq(T) /\ Len(r) = m + n /\ m \in Nat /\ n \in Nat
          /\ \A i \in 1 .. m + n : r[i] = IF i <= m THEN s[i] ELSE a[i - m]
      BY ConcatIs, LenProperties
    <2>2. DOMAIN r = 1 .. Len(r) /\ DOMAIN s = 1 .. m /\ DOMAIN a = 1 .. n
      BY <2>1, LenProperties
    <2>. QED BY <2>1, <2>2
  <1>. HIDE DEF r, m, n
  <1>2. \A i \in DOMAIN r : \/ i \in DOMAIN s /\ r[i] = s[i] /\ r[i] \in Range(s)
                            \/ i > m /\ i - m \in DOMAIN a /\ r[i] = a[i - m] /\ r[i] \in Range(a)
    <2>. SUFFICES ASSUME NEW i \in DOMAIN r
                  PROVE  \/ i \in DOMAIN s /\ r[i] = s[i] /\ r[i] \in Range(s)
                         \/ i > m /\ i - m \in DOMAIN a /\ r[i] = a[i - m] /\ r[i] \in Range(a)
      OBVIOUS
    <2>1. CASE i <= m
      <3>1. i \in DOMAIN s /\ r[i] = s[i]
        BY <2>1, <1>1
      <3>. QED BY <3>1 DEF Range
    <2>2. CASE i > m
      <3>1. i - m \in DOMAIN a /\ r[i] = a[i - m]
        BY <2>2, <1>1
      <3>. QED BY <2>2, <3>1 DEF Range
    <2>. QED BY <2>1, <2>2, <1>1
  <1>3. Distinct(r)
    <2>. SUFFICES ASSUME NEW i \in DOMAIN r, NEW j \in DOMAIN r, r[i] = r[j] PROVE i = j
      BY DEF Distinct
    <2>1. CASE i \in DOMAIN s /\ j \in DOMAIN s /\ r[i] = s[i] /\ r[j] = s[j]
      BY <2>1 DEF Distinct
    <2>2. CASE /\ i - m \in DOMAIN a /\ j - m \in DOMAIN a
               /\ r[i] = a[i - m] /\ r[j] = a[j - m]
      <3>1. i - m = j - m
        BY <2>2 DEF Distinct
      <3>. QED BY <3>1, <1>1
    <2>. QED BY <2>1, <2>2, <1>2
  <1>4. ASSUME NEW t PROVE t \in Range(r) <=> t \in Range(s) \/ t \in Range(a)
    <2>1. ASSUME NEW i \in DOMAIN s PROVE s[i] \in Range(r)
      <3>1. i \in DOMAIN r /\ r[i] = s[i]
        BY <1>1
      <3>. QED BY <3>1 DEF Range
    <2>2. ASSUME NEW i \in DOMAIN a PROVE a[i] \in Range(r)
      <3>1. i + m \in DOMAIN r /\ r[i + m] = a[i]
        BY <1>1
      <3>. QED BY <3>1 DEF Range
    <2>3. t \in Range(r) => t \in Range(s) \/ t \in Range(a)
      BY <1>2 DEF Range
    <2>. QED BY <2>1, <2>2, <2>3 DEF Range
  <1>. QED BY <1>1, <1>3, <1>4 DEF r

\* The queues after a wake-up of x.
AwakeAt(x, p) == Kept(Awake(x), {t \in Thread : RunPriority(t) = p})
WokenLinks(x) ==
    [y \in Queue |-> IF y = x THEN SubSeq(q[x], Len(Popped(x)) + 1, Len(q[x]))
                     ELSE IF y[1] = "run" THEN q[y] \o AwakeAt(x, y[2]) ELSE q[y]]
WokenBits(x) == pending \cup {RunPriority(t) : t \in Range(Awake(x))}

\* WakeupThreadQueue leaves the queues well-formed, with every thread it readied in the queue
\* of its priority.
LEMMA Woken ==
  ASSUME NEW homes, homes \in [Thread -> Queue \cup {None}], Queues(q, pending, homes, prio),
         prio \in [Thread -> Nat], NEW x \in BlockQueues,
         \A p \in Priority : \A t \in Thread : homes[t] = RunQ(p) => prio[t] = p,
         \A t \in Wakes(x) : suspend[t] < 1 => prio[t] \in Priority
  PROVE  Queues(WokenLinks(x), WokenBits(x), WokenHomes(x, homes), prio)
  <1>. DEFINE popped == Popped(x)
              awake == Awake(x)
              rest == SubSeq(q[x], Len(Popped(x)) + 1, Len(q[x]))
              links == WokenLinks(x)
              bits == WokenBits(x)
              to == WokenHomes(x, homes)
  <1>1. /\ q \in [Queue -> Seq(Thread)] /\ x \in Queue /\ x \notin RunQueues
        /\ q[x] \in Seq(Thread) /\ Distinct(q[x]) /\ Ranked(q[x], prio)
    BY Addresses DEF Queues
  <1>2. /\ popped \in Seq(Thread) /\ Within(popped, q[x])
        /\ rest \in Seq(Thread) /\ Within(rest, q[x])
        /\ \A t : t \in Range(q[x]) <=> t \in Range(popped) \/ t \in Range(rest)
        /\ \A t \in Range(rest) : t \notin Range(popped)
        /\ awake \in Seq(Thread) /\ Within(awake, popped)
        /\ Range(awake) = {t \in Wakes(x) : suspend[t] < 1}
    BY <1>1, PoppedFrom
  <1>3. Wakes(x) \subseteq Range(popped)
    BY DEF Wakes
  <1>4. \A t \in Range(awake) : RunPriority(t) = prio[t] /\ prio[t] \in Priority
                                /\ t \in Range(popped) /\ t \in Thread
    <2>1. \A t \in Range(awake) : t \in Range(popped) /\ prio[t] \in Priority
      BY <1>2, <1>3
    <2>2. \A t \in Range(popped) : t \in Thread
      BY <1>2 DEF Range
    <2>3. \A t \in Range(awake) : prio[t] <= Low
      BY <2>1 DEF Priority
    <2>. QED BY <2>1, <2>2, <2>3, ConstantsAssumption DEF RunPriority, Priority
  <1>5. \A t \in Range(popped) : homes[t] = x
    BY <1>1, <1>2 DEF Queues
  <1>. HIDE DEF popped, awake, rest
  <1>6. \A p : /\ AwakeAt(x, p) \in Seq(Thread) /\ Distinct(AwakeAt(x, p))
               /\ Range(AwakeAt(x, p)) = {t \in Range(awake) : RunPriority(t) = p}
    <2>1. Distinct(awake)
      BY <1>1, <1>2, WithinKeeps
    <2>2. ASSUME NEW p
          PROVE  /\ AwakeAt(x, p) \in Seq(Thread) /\ Distinct(AwakeAt(x, p))
                 /\ Range(AwakeAt(x, p)) = Range(awake) \cap {t \in Thread : RunPriority(t) = p}
      <3>1. AwakeAt(x, p) = Kept(awake, {t \in Thread : RunPriority(t) = p})
        BY DEF AwakeAt, awake
      <3>. DEFINE S == {t \in Thread : RunPriority(t) = p}
      <3>. HIDE DEF S
      <3>2. /\ Kept(awake, S) \in Seq(Thread) /\ Within(Kept(awake, S), awake)
            /\ Range(Kept(awake, S)) = Range(awake) \cap S
        BY <1>2, KeptSeq
      <3>3. Distinct(Kept(awake, S))
        BY <1>2, <2>1, <3>2, WithinKeeps
      <3>. QED BY <3>1, <3>2, <3>3 DEF S
    <2>. QED BY <1>4, <2>2
  <1>7. /\ links[x] = rest
        /\ \A y \in Queue : /\ y \in RunQueues => links[y] = q[y] \o AwakeAt(x, y[2])
                            /\ y \notin RunQueues /\ y # x => links[y] = q[y]
    BY <1>1, Addresses DEF WokenLinks, rest
  <1>8. \A p \in Priority : RunQ(p) \in Queue /\ RunQ(p) \in RunQueues /\ RunQ(p)[2] = p
    BY Addresses
  <1>9. \A y \in RunQueues : \E p \in Priority : y = RunQ(p)
    BY DEF RunQueues
  <1>. HIDE DEF links, to, bits
  <1>10. ASSUME NEW p \in Priority
         PROVE  /\ links[RunQ(p)] \in Seq(Thread) /\ Distinct(links[RunQ(p)])
                /\ \A t : t \in Range(links[RunQ(p)]) <=>
                            t \in Range(q[RunQ(p)]) \/ (t \in Range(awake) /\ prio[t] = p)
    <2>1. links[RunQ(p)] = q[RunQ(p)] \o AwakeAt(x, p)
      BY <1>7, <1>8
    <2>2. q[RunQ(p)] \in Seq(Thread) /\ Distinct(q[RunQ(p)])
      BY <1>1, <1>8 DEF Queues
    <2>3. \A t \in Range(AwakeAt(x, p)) : t \notin Range(q[RunQ(p)])
      <3>1. \A t \in Range(AwakeAt(x, p)) : homes[t] = x
        BY <1>4, <1>5, <1>6
      <3>2. \A t \in Range(q[RunQ(p)]) : homes[t] = RunQ(p)
        BY <1>8 DEF Queues
      <3>3. x # RunQ(p)
        BY <1>1, <1>8
      <3>. QED BY ONLY <3>1, <3>2, <3>3
    <2>4. \A t : t \in Range(AwakeAt(x, p)) <=> t \in Range(awake) /\ prio[t] = p
      BY <1>4, <1>6
    <2>5. AwakeAt(x, p) \in Seq(Thread) /\ Distinct(AwakeAt(x, p))
      BY <1>6
    <2>. QED BY <2>1, <2>2, <2>3, <2>4, <2>5, ConcatSeq
  <1>11. links \in [Queue -> Seq(Thread)]
    <2>1. \A y \in Queue : links[y] \in Seq(Thread)
      <3>. TAKE y \in Queue
      <3>1. CASE y \in RunQueues
        BY <3>1, <1>9, <1>10
      <3>2. CASE y \notin RunQueues
        BY <3>2, <1>1, <1>2, <1>7
      <3>. QED BY <3>1, <3>2
    <2>2. links = [y \in Queue |-> links[y]]
      BY DEF links, WokenLinks
    <2>. QED BY <2>1, <2>2
  <1>12. to \in [Thread -> Queue \cup {None}]
    BY <1>4, <1>8 DEF to, WokenHomes, awake
  <1>13. \A t \in Thread : to[t] = IF t \in Range(awake) THEN RunQ(prio[t])
                                   ELSE IF t \in Range(popped) THEN None ELSE homes[t]
    BY <1>4 DEF to, WokenHomes, awake, popped
  <1>14. ASSUME NEW y \in Queue, NEW t \in Range(links[y]) PROVE to[t] = y
    <2>0. t \in Thread
      BY <1>11 DEF Range
    <2>1. CASE y = x
      <3>1. t \in Range(rest) /\ t \notin Range(popped) /\ t \in Range(q[x])
        BY <2>1, <1>2, <1>7
      <3>2. t \notin Range(awake) /\ homes[t] = x
        BY <3>1, <1>1, <1>4 DEF Queues
      <3>. QED BY <2>0, <2>1, <3>1, <3>2, <1>13
    <2>2. CASE y \in RunQueues
      <3>1. PICK p \in Priority : y = RunQ(p)
        BY <2>2, <1>9
      <3>2. CASE t \in Range(q[y])
        <4>1. homes[t] = y
          BY <3>2 DEF Queues
        <4>2. t \notin Range(popped) /\ t \notin Range(awake)
          BY <4>1, <1>1, <1>4, <1>5, <2>2
        <4>. QED BY <2>0, <4>1, <4>2, <1>13
      <3>3. CASE t \in Range(awake) /\ prio[t] = p
        BY <2>0, <3>1, <3>3, <1>13
      <3>. QED BY <3>1, <3>2, <3>3, <1>10
    <2>3. CASE y # x /\ y \notin RunQueues
      <3>1. homes[t] = y
        BY <2>3, <1>7 DEF Queues
      <3>2. t \notin Range(popped) /\ t \notin Range(awake)
        BY <2>3, <3>1, <1>4, <1>5
      <3>. QED BY <2>0, <3>1, <3>2, <1>13
    <2>. QED BY <2>1, <2>2, <2>3
  <1>15. ASSUME NEW t \in Thread, to[t] \in Queue \ JoinQueues PROVE t \in Range(links[to[t]])
    <2>1. CASE t \in Range(awake)
      BY <2>1, <1>4, <1>10, <1>13
    <2>2. CASE t \notin Range(awake)
      <3>1. t \notin Range(popped) /\ to[t] = homes[t]
        BY <2>2, <1>13, <1>15, QueueAssumption
      <3>2. t \in Range(q[homes[t]])
        BY <3>1, <1>15 DEF Queues
      <3>3. CASE homes[t] = x
        BY <3>1, <3>2, <3>3, <1>2, <1>7
      <3>4. CASE homes[t] \in RunQueues
        BY <3>1, <3>2, <3>4, <1>9, <1>10
      <3>5. CASE homes[t] # x /\ homes[t] \notin RunQueues
        BY <3>1, <3>2, <3>5, <1>7, <1>15
      <3>. QED BY <3>3, <3>4, <3>5
    <2>. QED BY <2>1, <2>2
  <1>16. ASSUME NEW y \in Queue PROVE Distinct(links[y]) /\ Ranked(links[y], prio)
    <2>1. CASE y = x
      BY <2>1, <1>1, <1>2, <1>7, WithinKeeps
    <2>2. CASE y \in RunQueues
      <3>1. PICK p \in Priority : y = RunQ(p)
        BY <2>2, <1>9
      <3>2. \A t \in Range(links[y]) : prio[t] = p
        <4>. TAKE t \in Range(links[y])
        <4>1. t \in Range(q[RunQ(p)]) \/ prio[t] = p
          BY <3>1, <1>10
        <4>2. \A u \in Range(q[RunQ(p)]) : homes[u] = RunQ(p)
          BY <1>8 DEF Queues
        <4>3. t \in Thread
          BY <1>11 DEF Range
        <4>. QED BY <4>1, <4>2, <4>3
      <3>3. \A i \in DOMAIN links[y] : prio[links[y][i]] = p
        BY <3>2 DEF Range
      <3>4. p <= p
        BY DEF Priority
      <3>. QED BY <3>1, <3>3, <3>4, <1>10 DEF Ranked
    <2>3. CASE y # x /\ y \notin RunQueues
      BY <2>3, <1>7 DEF Queues
    <2>. QED BY <2>1, <2>2, <2>3
  <1>17. bits = {p \in Priority : links[RunQ(p)] # <<>>}
    <2>1. \A p \in Priority : q[RunQ(p)] # <<>> <=> p \in pending
      BY DEF Queues
    <2>2. pending \subseteq Priority
      BY DEF Queues
    <2>3. \A p \in Priority : q[RunQ(p)] # <<>> <=> Range(q[RunQ(p)]) # {}
      BY <1>1, <1>8, EmptyRange
    <2>4. \A p \in Priority : links[RunQ(p)] # <<>> <=> Range(links[RunQ(p)]) # {}
      BY <1>10, EmptyRange
    <2>5. \A p \in Priority : links[RunQ(p)] # <<>> <=>
             p \in pending \/ \E t \in Range(awake) : prio[t] = p
      BY ONLY <2>1, <2>3, <2>4, <1>10
    <2>6. bits = pending \cup {prio[t] : t \in Range(awake)}
      BY <1>4 DEF bits, WokenBits, awake
    <2>. QED BY <2>2, <2>5, <2>6, <1>4
  <1>. QED BY <1>11, <1>14, <1>15, <1>16, <1>17 DEF Queues, links, bits, to

-----------------------------------------------------------------------------
(* The call stacks.                                                        *)

\* Calls that come back without a switch, with a better thread still to be
\* looked for: they are made by threads that go to sleep, end or idle.
Quiet == {"ProcessSleepTimers", "ResumeThread", "IfResched", "Propagate", "UnlockAll",
          "WakeupThread"}
Selecting == {"SelectThread", "Select"}

\* A frame of thread t outside Pick and the idle loop, and before or after it
\* suspends itself in OSSleepTicks.
PlainFrame(t, f) ==
    /\ f.call \notin {"Pick", "Idle", "SuspendThread"}
    /\ f.call \in {"Slept", "LockMutex"} => f.arg[1] = t
    /\ f.call = "TickWoken" => f.arg = t

Plain(t, s) == \A i \in DOMAIN s : PlainFrame(t, s[i])

\* A call that will look for another thread, when hint is the reschedule hint.
Stops(hint, f) == f.call \in Selecting \cup {"Exited"} \/ (f.call = "IfResched" /\ hint)

\* The fiber comes to such a call before it goes on.
Guarded(hint, s) ==
    \E i \in DOMAIN s : Stops(hint, s[i]) /\ \A j \in 1 .. i - 1 : s[j].call \in Quiet

\* The fiber of t is in the idle loop.
Idling(t, s) ==
    \E i \in DOMAIN s : /\ s[i].call = "Idle"
                        /\ \A j \in 1 .. i - 1 : s[j].call \in Quiet \cup Selecting
                        /\ \A j \in DOMAIN s : j > i => PlainFrame(t, s[j])

\* A call on top of a stack.
LEMMA ConsSeq ==
  ASSUME NEW F, NEW f \in F, NEW s \in Seq(F)
  PROVE  /\ <<f>> \o s \in Seq(F) /\ <<f>> \o s # <<>>
         /\ Head(<<f>> \o s) = f /\ Tail(<<f>> \o s) = s
         /\ DOMAIN (<<f>> \o s) = 1 .. Len(s) + 1 /\ (<<f>> \o s)[1] = f
         /\ \A i \in DOMAIN s : (<<f>> \o s)[i + 1] = s[i]
         /\ DOMAIN s = 1 .. Len(s) /\ Len(s) \in Nat
  <1>. DEFINE r == <<f>> \o s
  <1>0. DOMAIN s = 1 .. Len(s) /\ Len(s) \in Nat
    BY LenProperties
  <1>1. r \in Seq(F) /\ Len(r) = Len(s) + 1 /\ r[1] = f
        /\ \A i \in 1 .. Len(s) : r[i + 1] = s[i]
    OBVIOUS
  <1>2. DOMAIN r = 1 .. Len(s) + 1 /\ r # <<>>
    BY <1>0, <1>1, LenProperties, EmptySeq
  <1>. HIDE DEF r
  <1>3. Head(r) = f
    BY <1>1, <1>2
  <1>4. Tail(r) \in Seq(F) /\ Len(Tail(r)) = Len(s) /\ \A i \in 1 .. Len(s) : Tail(r)[i] = r[i + 1]
    BY <1>0, <1>1, <1>2, HeadTailProperties
  <1>5. Tail(r) = s
    <2>1. \A i \in 1 .. Len(s) : Tail(r)[i] = s[i]
      BY <1>1, <1>4
    <2>. QED BY <1>4, <2>1, SeqEqual
  <1>. QED BY <1>0, <1>1, <1>2, <1>3, <1>5 DEF r

\* A stack that is not empty is its top call on the rest.
LEMMA HeadTail ==
  ASSUME NEW F, NEW s \in Seq(F), s # <<>>
  PROVE  Head(s) \in F /\ Tail(s) \in Seq(F) /\ s = <<Head(s)>> \o Tail(s)
  <1>1. /\ Head(s) \in F /\ Tail(s) \in Seq(F) /\ Len(Tail(s)) = Len(s) - 1
        /\ \A i \in 1 .. Len(Tail(s)) : Tail(s)[i] = s[i + 1]
    BY HeadTailProperties
  <1>. DEFINE h == Head(s)
              u == Tail(s)
              r == <<h>> \o u
  <1>2. Len(s) \in Nat \ {0} /\ s[1] = h
    BY EmptySeq
  <1>3. Len(u) \in Nat
    BY <1>1, LenProperties
  <1>. HIDE DEF h, u
  <1>4. r \in Seq(F) /\ Len(r) = Len(u) + 1 /\ r[1] = h
        /\ \A i \in 1 .. Len(u) : r[i + 1] = u[i]
    BY <1>1 DEF h, u
  <1>. HIDE DEF r
  <1>5. ASSUME NEW i \in 1 .. Len(s) PROVE s[i] = r[i]
    <2>1. CASE i = 1
      BY <2>1, <1>2, <1>4
    <2>2. CASE i # 1
      <3>1. i - 1 \in 1 .. Len(u) /\ i - 1 + 1 = i
        BY <2>2, <1>1, <1>2 DEF u
      <3>. QED BY <3>1, <1>1, <1>4 DEF u
    <2>. QED BY <2>1, <2>2
  <1>6. Len(s) = Len(r)
    BY <1>1, <1>2, <1>4 DEF u
  <1>7. s = r
    BY <1>4, <1>5, <1>6, SeqEqual
  <1>. QED BY <1>1, <1>7 DEF r, h, u

\* Plain, Guarded and Idling, call by call.
LEMMA PlainCons ==
  ASSUME NEW t, NEW f \in FrameType, NEW s \in Seq(FrameType)
  PROVE  Plain(t, <<f>> \o s) <=> PlainFrame(t, f) /\ Plain(t, s)
  <1>. DEFINE r == <<f>> \o s
  <1>1. /\ DOMAIN r = 1 .. Len(s) + 1 /\ r[1] = f /\ DOMAIN s = 1 .. Len(s) /\ Len(s) \in Nat
        /\ \A i \in DOMAIN s : r[i + 1] = s[i]
    BY ConsSeq
  <1>. HIDE DEF r
  <1>2. ASSUME Plain(t, r) PROVE PlainFrame(t, f) /\ Plain(t, s)
    <2>1. 1 \in DOMAIN r /\ \A i \in DOMAIN s : i + 1 \in DOMAIN r
      BY <1>1
    <2>. QED BY <1>1, <1>2, <2>1 DEF Plain
  <1>3. ASSUME PlainFrame(t, f), Plain(t, s) PROVE Plain(t, r)
    <2>. SUFFICES ASSUME NEW i \in DOMAIN r PROVE PlainFrame(t, r[i])
      BY DEF Plain
    <2>1. CASE i = 1
      BY <2>1, <1>1, <1>3
    <2>2. CASE i # 1
      <3>1. i - 1 \in DOMAIN s /\ i - 1 + 1 = i
        BY <2>2, <1>1
      <3>2. r[i] = s[i - 1]
        BY <3>1, <1>1
      <3>. QED BY <3>1, <3>2, <1>3 DEF Plain
    <2>. QED BY <2>1, <2>2
  <1>. QED BY <1>2, <1>3 DEF r

\* A fiber that may not run comes to a call that switches, whatever returns before it.
LEMMA GuardedCons ==
  ASSUME NEW hint, NEW f \in FrameType, NEW s \in Seq(FrameType)
  PROVE  Guarded(hint, <<f>> \o s) <=> Stops(hint, f) \/ (f.call \in Quiet /\ Guarded(hint, s))
  <1>. DEFINE r == <<f>> \o s
  <1>1. /\ DOMAIN r = 1 .. Len(s) + 1 /\ r[1] = f /\ DOMAIN s = 1 .. Len(s) /\ Len(s) \in Nat
        /\ \A i \in DOMAIN s : r[i + 1] = s[i]
    BY ConsSeq
  <1>. HIDE DEF r
  <1>2. ASSUME Guarded(hint, r), ~Stops(hint, f) PROVE f.call \in Quiet /\ Guarded(hint, s)
    <2>1. PICK i \in DOMAIN r : Stops(hint, r[i]) /\ \A j \in 1 .. i - 1 : r[j].call \in Quiet
      BY <1>2 DEF Guarded
    <2>2. i # 1
      BY <2>1, <1>1, <1>2
    <2>3. i \in 1 .. Len(s) + 1 /\ i - 1 \in DOMAIN s /\ i - 1 + 1 = i /\ 1 \in 1 .. i - 1
      BY <2>2, <1>1
    <2>4. f.call \in Quiet /\ r[i] = s[i - 1]
      BY <2>1, <2>3, <1>1
    <2>5. ASSUME NEW j \in 1 .. i - 1 - 1 PROVE s[j].call \in Quiet
      <3>1. j + 1 \in 1 .. i - 1 /\ j \in DOMAIN s
        BY <2>3, <1>1
      <3>. QED BY <3>1, <2>1, <1>1
    <2>. QED BY <2>1, <2>3, <2>4, <2>5 DEF Guarded
  <1>3. ASSUME Stops(hint, f) PROVE Guarded(hint, r)
    <2>1. 1 \in DOMAIN r /\ \A j \in 1 .. 1 - 1 : FALSE
      BY <1>1
    <2>. QED BY <2>1, <1>1, <1>3 DEF Guarded
  <1>4. ASSUME f.call \in Quiet, Guarded(hint, s) PROVE Guarded(hint, r)
    <2>1. PICK i \in DOMAIN s : Stops(hint, s[i]) /\ \A j \in 1 .. i - 1 : s[j].call \in Quiet
      BY <1>4 DEF Guarded
    <2>2. i + 1 \in DOMAIN r /\ r[i + 1] = s[i]
      BY <1>1
    <2>3. ASSUME NEW j \in 1 .. (i + 1) - 1 PROVE r[j].call \in Quiet
      <3>1. CASE j = 1
        BY <3>1, <1>1, <1>4
      <3>2. CASE j # 1
        <4>1. j - 1 \in 1 .. i - 1 /\ j - 1 \in DOMAIN s /\ j - 1 + 1 = j
          BY <3>2, <1>1
        <4>2. r[j] = s[j - 1]
          BY <4>1, <1>1
        <4>. QED BY <4>1, <4>2, <2>1
      <3>. QED BY <3>1, <3>2
    <2>. QED BY <2>1, <2>2, <2>3 DEF Guarded
  <1>. QED BY <1>2, <1>3, <1>4 DEF r

\* The idle loop is under the calls that its interrupts make.
LEMMA IdlingCons ==
  ASSUME NEW t, NEW f \in FrameType, NEW s \in Seq(FrameType)
  PROVE  Idling(t, <<f>> \o s) <=> \/ f.call = "Idle" /\ Plain(t, s)
                                   \/ f.call \in Quiet \cup Selecting /\ Idling(t, s)
  <1>. DEFINE r == <<f>> \o s
  <1>1. /\ DOMAIN r = 1 .. Len(s) + 1 /\ r[1] = f /\ DOMAIN s = 1 .. Len(s) /\ Len(s) \in Nat
        /\ \A i \in DOMAIN s : r[i + 1] = s[i]
    BY ConsSeq
  <1>. HIDE DEF r
  <1>2. \A i \in DOMAIN s : i \in Nat /\ i + 1 \in DOMAIN r
    BY <1>1
  <1>3. ASSUME Idling(t, r)
        PROVE  \/ f.call = "Idle" /\ Plain(t, s)
               \/ f.call \in Quiet \cup Selecting /\ Idling(t, s)
    <2>1. PICK i \in DOMAIN r : /\ r[i].call = "Idle"
                                /\ \A j \in 1 .. i - 1 : r[j].call \in Quiet \cup Selecting
                                /\ \A j \in DOMAIN r : j > i => PlainFrame(t, r[j])
      BY <1>3 DEF Idling
    <2>2. CASE i = 1
      <3>1. \A j \in DOMAIN s : j + 1 > i
        BY <2>2, <1>2
      <3>2. Plain(t, s)
        BY <3>1, <2>1, <1>1, <1>2 DEF Plain
      <3>. QED BY <3>2, <2>1, <2>2, <1>1
    <2>3. CASE i # 1
      <3>1. i \in 1 .. Len(s) + 1 /\ i - 1 \in DOMAIN s /\ i - 1 + 1 = i /\ 1 \in 1 .. i - 1
        BY <2>3, <1>1
      <3>2. f.call \in Quiet \cup Selecting /\ s[i - 1].call = "Idle"
        BY <2>1, <3>1, <1>1
      <3>3. ASSUME NEW j \in 1 .. i - 1 - 1 PROVE s[j].call \in Quiet \cup Selecting
        <4>1. j + 1 \in 1 .. i - 1 /\ j \in DOMAIN s
          BY <3>1, <1>1
        <4>. QED BY <4>1, <2>1, <1>1
      <3>4. ASSUME NEW j \in DOMAIN s, j > i - 1 PROVE PlainFrame(t, s[j])
        <4>1. j + 1 \in DOMAIN r /\ j + 1 > i
          BY <3>1, <3>4, <1>2
        <4>. QED BY <4>1, <2>1, <1>1
      <3>. QED BY <3>1, <3>2, <3>3, <3>4 DEF Idling
    <2>. QED BY <2>2, <2>3
  <1>4. ASSUME f.call = "Idle", Plain(t, s) PROVE Idling(t, r)
    <2>1. 1 \in DOMAIN r /\ \A j \in 1 .. 1 - 1 : FALSE
      BY <1>1
    <2>2. ASSUME NEW j \in DOMAIN r, j > 1 PROVE PlainFrame(t, r[j])
      <3>1. j - 1 \in DOMAIN s /\ j - 1 + 1 = j
        BY <2>2, <1>1
      <3>2. r[j] = s[j - 1]
        BY <3>1, <1>1
      <3>. QED BY <3>1, <3>2, <1>4 DEF Plain
    <2>. QED BY <2>1, <2>2, <1>1, <1>4 DEF Idling
  <1>5. ASSUME f.call \in Quiet \cup Selecting, Idling(t, s) PROVE Idling(t, r)
    <2>1. PICK i \in DOMAIN s : /\ s[i].call = "Idle"
                                /\ \A j \in 1 .. i - 1 : s[j].call \in Quiet \cup Selecting
                                /\ \A j \in DOMAIN s : j > i => PlainFrame(t, s[j])
      BY <1>5 DEF Idling
    <2>2. i + 1 \in DOMAIN r /\ r[i + 1] = s[i]
      BY <1>1, <1>2
    <2>3. ASSUME NEW j \in 1 .. (i + 1) - 1 PROVE r[j].call \in Quiet \cup Selecting
      <3>1. CASE j = 1
        BY <3>1, <1>1, <1>5
      <3>2. CASE j # 1
        <4>1. j - 1 \in 1 .. i - 1 /\ j - 1 \in DOMAIN s /\ j - 1 + 1 = j
          BY <3>2, <1>1
        <4>2. r[j] = s[j - 1]
          BY <4>1, <1>1
        <4>. QED BY <4>1, <4>2, <2>1
      <3>. QED BY <3>1, <3>2
    <2>4. ASSUME NEW j \in DOMAIN r, j > i + 1 PROVE PlainFrame(t, r[j])
      <3>1. j - 1 \in DOMAIN s /\ j - 1 + 1 = j /\ j - 1 > i
        BY <2>4, <1>1
      <3>2. r[j] = s[j - 1]
        BY <3>1, <1>1
      <3>. QED BY <3>1, <3>2, <2>1
    <2>. QED BY <2>1, <2>2, <2>3, <2>4 DEF Idling
  <1>. QED BY <1>3, <1>4, <1>5 DEF r

\* The stack of guest code.
LEMMA EmptyStack ==
  /\ \A t : Plain(t, <<>>) /\ ~Idling(t, <<>>)
  /\ \A hint : ~Guarded(hint, <<>>)
  BY DEF Plain, Idling, Guarded

\* A hint that is set later still lets the fiber come to its call.
LEMMA GuardedLater ==
  ASSUME NEW hint, NEW later, NEW s, hint => later, Guarded(hint, s)
  PROVE  Guarded(later, s)
  BY DEF Guarded, Stops

\* The arguments of the calls.
LEMMA FrameArgs ==
  ASSUME NEW f \in FrameType
  PROVE  /\ f.call \in Selecting => f.arg \in BOOLEAN
         /\ f.call = "ProcessSleepTimers" => f.arg \in SUBSET Thread
         /\ f.call = "Switched" => f.arg \in Thread \cup {None}
         /\ f.call \in {"SleepThread", "WakeupThread"} => f.arg \in BlockQueues
         /\ f.call = "Slept" => f.arg \in Thread \X BlockQueues
         /\ f.call = "Promote" => f.arg \in Thread \X AnyPriority
         /\ f.call = "LockMutex" => f.arg \in Thread \X Mutex
         /\ f.call \in {"Propagate", "SuspendThread", "ResumeThread", "TickWoken", "UnlockAll",
                        "Joined"} => f.arg \in Thread
  BY DEF FrameType, Selecting

\* The calls that the actions make.
LEMMA Frames ==
  /\ \A b \in BOOLEAN : Frame("SelectThread", b) \in FrameType /\ Frame("Select", b) \in FrameType
  /\ \A due \in SUBSET Thread : Frame("ProcessSleepTimers", due) \in FrameType
  /\ \A c \in {"Idle", "Pick", "IfResched", "Exited"} : Frame(c, None) \in FrameType
  /\ \A t \in Thread \cup {None} : Frame("Switched", t) \in FrameType
  /\ \A c \in {"SleepThread", "WakeupThread"}, x \in BlockQueues : Frame(c, x) \in FrameType
  /\ \A t \in Thread, x \in BlockQueues : Frame("Slept", <<t, x>>) \in FrameType
  /\ \A t \in Thread, p \in AnyPriority : Frame("Promote", <<t, p>>) \in FrameType
  /\ \A t \in Thread, m \in Mutex : Frame("LockMutex", <<t, m>>) \in FrameType
  /\ \A c \in {"Propagate", "SuspendThread", "ResumeThread", "TickWoken", "UnlockAll", "Joined"},
        t \in Thread : Frame(c, t) \in FrameType
  /\ \A c, a : Frame(c, a).call = c /\ Frame(c, a).arg = a
  BY DEF Frame, FrameType

\* The two calls that look for another thread.
LEMMA SelectFrames ==
  /\ SelectFrame \in FrameType /\ SelectFrame.call = "SelectThread"
  /\ IfResched \in FrameType /\ IfResched.call = "IfResched"
  BY Frames DEF SelectFrame, IfResched

-----------------------------------------------------------------------------
(* The invariant.                                                          *)

NoReturn == "ReturnFromEntry" \notin game.calls

QueueInv ==
    /\ Queues(q, pending, Home, prio)
    /\ \A t \in Thread : state[t] = "waiting" => queue[t] \in BlockQueues
    /\ \A t \in Thread : Home[t] # None => queue[t] = Home[t]
    /\ \A t \in Thread : suspend[t] = 0 /\ ~Terminated(t) => prio[t] \in Priority

\* The active fiber executes the running thread,
Executing == /\ state[active] = "running"
             /\ running = active /\ current = active
             /\ Plain(active, stack[active])
\* which may have armed its timer and not yet suspended itself,
Arming == /\ state[active] = "running" /\ disabled = 0
          /\ running = active /\ current = active
          /\ Top("SuspendThread") /\ Arg = active /\ Plain(active, Rest)
\* or one that has gone to sleep or come to its end, on its way to the switch,
Leaving == /\ state[active] # "running" /\ disabled = 0
           /\ running = active /\ current = active
           /\ Plain(active, stack[active]) /\ Guarded(resched, stack[active])
\* or is about to pick a thread,
Picking == /\ state[active] # "running" /\ disabled = 0 /\ pending # {}
           /\ Top("Pick") /\ Plain(active, Rest)
\* or waits for one in the idle loop.
Idle == /\ state[active] # "running" /\ disabled = 0
        /\ running = None /\ current = "idle"
        /\ Idling(active, stack[active])

\* A fiber that is not executed: a fresh one, or one that left through a switch.
Parting(t) == /\ Plain(t, stack[t])
              /\ stack[t] # <<>> => Head(stack[t]).call = "Switched"

FiberInv ==
    /\ Executing \/ Arming \/ Leaving \/ Picking \/ Idle
    /\ \A t \in Thread : state[t] = "running" => t = active /\ suspend[t] = 0
    /\ \A t \in Thread \ {active} : Parting(t)
    /\ curGuest \in {active, None}

LifeInv ==
    /\ \A t \in Thread : dead[t] => Terminated(t)
    /\ \A t \in timers : suspend[t] > 0 \/ Terminated(t) \/ (Arming /\ t = active)
    /\ alive = {t \in Thread : state[t] # "none"}
    /\ \A m \in Mutex : count[m] > 0 <=> owner[m] # None

Good == TypeOK /\ QueueInv /\ FiberInv /\ LifeInv

-----------------------------------------------------------------------------
(* Calls that come and go.                                                 *)

\* s is r with calls on it that return without a switch, or look for one.
Pushed(s, r) ==
    \/ s = r
    \/ \E f \in FrameType : f.call \in Quiet \cup Selecting /\ s = <<f>> \o r
    \/ \E f, g \in FrameType : /\ {f.call, g.call} \subseteq Quiet \cup Selecting
                               /\ s = <<f>> \o (<<g>> \o r)

\* A call on top that returns, or looks for a thread, leaves the mode of the fiber.
LEMMA PushedFrame ==
  ASSUME NEW f \in FrameType, f.call \in Quiet \cup Selecting, NEW r \in Seq(FrameType), NEW t
  PROVE  /\ <<f>> \o r \in Seq(FrameType)
         /\ Plain(t, r) => Plain(t, <<f>> \o r)
         /\ \A hint : Guarded(hint, r) => Guarded(hint, <<f>> \o r)
         /\ Idling(t, r) => Idling(t, <<f>> \o r)
  <1>1. PlainFrame(t, f)
    BY DEF PlainFrame, Quiet, Selecting
  <1>2. \A hint : f.call \in Quiet \/ Stops(hint, f)
    BY DEF Stops
  <1>. QED BY <1>1, <1>2, ConsSeq, PlainCons, GuardedCons, IdlingCons

\* The same of one or two of them.
LEMMA PushedKeeps ==
  ASSUME NEW r \in Seq(FrameType), NEW s, Pushed(s, r), NEW t
  PROVE  /\ s \in Seq(FrameType)
         /\ Plain(t, r) => Plain(t, s)
         /\ \A hint : Guarded(hint, r) => Guarded(hint, s)
         /\ Idling(t, r) => Idling(t, s)
  <1>1. CASE \E f \in FrameType : f.call \in Quiet \cup Selecting /\ s = <<f>> \o r
    BY <1>1, PushedFrame
  <1>2. ASSUME NEW f \in FrameType, NEW g \in FrameType,
               {f.call, g.call} \subseteq Quiet \cup Selecting, s = <<f>> \o (<<g>> \o r)
        PROVE  /\ s \in Seq(FrameType)
               /\ Plain(t, r) => Plain(t, s)
               /\ \A hint : Guarded(hint, r) => Guarded(hint, s)
               /\ Idling(t, r) => Idling(t, s)
    <2>. DEFINE b == <<g>> \o r
    <2>1. /\ b \in Seq(FrameType)
          /\ Plain(t, r) => Plain(t, b)
          /\ \A hint : Guarded(hint, r) => Guarded(hint, b)
          /\ Idling(t, r) => Idling(t, b)
      BY <1>2, PushedFrame
    <2>. HIDE DEF b
    <2>2. /\ <<f>> \o b \in Seq(FrameType)
          /\ Plain(t, b) => Plain(t, <<f>> \o b)
          /\ \A hint : Guarded(hint, b) => Guarded(hint, <<f>> \o b)
          /\ Idling(t, b) => Idling(t, <<f>> \o b)
      BY <2>1, <1>2, PushedFrame
    <2>3. s = <<f>> \o b
      BY <1>2 DEF b
    <2>. QED BY <2>1, <2>2, <2>3
  <1>. QED BY <1>1, <1>2 DEF Pushed

\* Two calls are one on the other.
LEMMA TwoElements ==
  ASSUME NEW a, NEW b
  PROVE  <<a, b>> = <<a>> \o <<b>>
  <1>. DEFINE T == {a, b}
  <1>1. <<a, b>> \in Seq(T) /\ Len(<<a, b>>) = 2 /\ <<a>> \in Seq(T) /\ <<b>> \in Seq(T)
        /\ Len(<<a>>) = 1 /\ Len(<<b>>) = 1
    OBVIOUS
  <1>2. /\ <<a>> \o <<b>> \in Seq(T) /\ Len(<<a>> \o <<b>>) = 2
        /\ \A i \in 1 .. 2 : (<<a>> \o <<b>>)[i] = IF i <= 1 THEN <<a>>[i] ELSE <<b>>[i - 1]
    BY <1>1, ConcatProperties
  <1>3. \A i \in 1 .. 2 : (<<a>> \o <<b>>)[i] = <<a, b>>[i]
    <2>1. \A i \in 1 .. 2 : i = 1 \/ i = 2
      OBVIOUS
    <2>2. (<<a>> \o <<b>>)[1] = a
      BY <1>2
    <2>3. (<<a>> \o <<b>>)[2] = b
      BY <1>2
    <2>. QED BY <2>1, <2>2, <2>3
  <1>. QED BY <1>1, <1>2, <1>3, SeqEqual

\* ConcatAssociative, element by element.
LEMMA ConcatMoved ==
  ASSUME NEW T, NEW k \in Seq(T), NEW l \in Seq(T), NEW m \in Seq(T)
  PROVE  (k \o l) \o m = k \o (l \o m)
  <1>1. k \o l \in Seq(T) /\ l \o m \in Seq(T)
    OBVIOUS
  <1>2. (k \o l) \o m \in Seq(T) /\ k \o (l \o m) \in Seq(T)
    BY <1>1
  <1>3. Len((k \o l) \o m) = Len(k \o (l \o m))
    BY <1>1
  <1>4. ASSUME NEW i \in 1 .. Len((k \o l) \o m)
        PROVE  ((k \o l) \o m)[i] = (k \o (l \o m))[i]
    BY <1>1
  <1>. QED BY <1>2, <1>3, <1>4, SeqEqual

\* The stacks that Call and Continue build.
LEMMA Pushes ==
  ASSUME NEW r \in Seq(FrameType), NEW a \in FrameType, NEW b \in FrameType
  PROVE  /\ <<>> \o r = r
         /\ <<a, b>> \o r = <<a>> \o (<<b>> \o r)
         /\ (<<a>> \o <<b>>) \o r = <<a>> \o (<<b>> \o r)
         /\ (<<>> \o <<b>>) \o r = <<b>> \o r
  <1>1. <<a>> \in Seq(FrameType) /\ <<b>> \in Seq(FrameType)
    OBVIOUS
  <1>2. <<>> \o r = r /\ <<>> \o <<b>> = <<b>>
    BY <1>1, ConcatEmptySeq
  <1>3. (<<a>> \o <<b>>) \o r = <<a>> \o (<<b>> \o r)
    BY <1>1, ConcatMoved
  <1>4. <<a, b>> = <<a>> \o <<b>>
    BY TwoElements
  <1>. QED BY <1>2, <1>3, <1>4

\* Concatenation, with its parentheses moved.
LEMMA ConcatThree ==
  ASSUME NEW T, NEW a \in Seq(T), NEW b \in Seq(T), NEW c \in Seq(T), NEW r \in Seq(T)
  PROVE  ((a \o b) \o c) \o r = a \o (b \o (c \o r))
  <1>1. a \o b \in Seq(T) /\ c \o r \in Seq(T)
    OBVIOUS
  <1>2. (a \o b) \o c \in Seq(T) /\ b \o (c \o r) \in Seq(T)
    BY <1>1
  <1>3. ((a \o b) \o c) \o r \in Seq(T) /\ a \o (b \o (c \o r)) \in Seq(T)
    BY <1>2
  <1>4. Len(((a \o b) \o c) \o r) = Len(a \o (b \o (c \o r)))
    BY <1>1, <1>2
  <1>5. ASSUME NEW i \in 1 .. Len(((a \o b) \o c) \o r)
        PROVE  (((a \o b) \o c) \o r)[i] = (a \o (b \o (c \o r)))[i]
    BY <1>1, <1>2
  <1>. QED BY <1>3, <1>4, <1>5, SeqEqual

\* Three calls on a stack, one by one.
LEMMA ThreeFrames ==
  ASSUME NEW f \in FrameType, NEW g \in FrameType, NEW h \in FrameType, NEW r \in Seq(FrameType)
  PROVE  <<f, g, h>> \o r = <<f>> \o (<<g>> \o (<<h>> \o r))
  <1>1. <<f>> \in Seq(FrameType) /\ <<g>> \in Seq(FrameType) /\ <<h>> \in Seq(FrameType)
    OBVIOUS
  <1>2. <<f, g, h>> = <<f, g>> \o <<h>> /\ <<f, g>> = <<f>> \o <<g>>
    BY TwoElements
  <1>3. ((<<f>> \o <<g>>) \o <<h>>) \o r = <<f>> \o (<<g>> \o (<<h>> \o r))
    BY <1>1, ConcatThree
  <1>. QED BY <1>2, <1>3

\* The top frame, and what is under it.
LEMMA TopFrame ==
  ASSUME TypeOK
  PROVE  /\ active \in Thread /\ stack[active] \in Seq(FrameType)
         /\ Rest \in Seq(FrameType)
         /\ stack[active] # <<>> => /\ Head(stack[active]) \in FrameType
                                    /\ stack[active] = <<Head(stack[active])>> \o Rest
  <1>1. active \in Thread /\ stack[active] \in Seq(FrameType)
    BY DEF TypeOK
  <1>2. <<>> \in Seq(FrameType)
    OBVIOUS
  <1>. QED BY <1>1, <1>2, HeadTail DEF Rest

\* The mode after a call that makes none has returned.
LEMMA PoppedCall ==
  ASSUME TypeOK, stack[active] # <<>>, Head(stack[active]).call \in Quiet
  PROVE  /\ Plain(active, stack[active]) => Plain(active, Rest)
         /\ Idling(active, stack[active]) => Idling(active, Rest)
         /\ \A hint : Guarded(hint, stack[active]) =>
               Guarded(hint, Rest) \/ (Top("IfResched") /\ hint)
  <1>. DEFINE h == Head(stack[active])
  <1>1. /\ h \in FrameType /\ Rest \in Seq(FrameType) /\ stack[active] = <<h>> \o Rest
    BY TopFrame
  <1>2. h.call # "Idle" /\ \A hint : Stops(hint, h) => Top("IfResched") /\ hint
    BY DEF Quiet, Stops, Selecting, Top
  <1>3. h.call \in Quiet
    OBVIOUS
  <1>. HIDE DEF h
  <1>4. Plain(active, stack[active]) => Plain(active, Rest)
    BY <1>1, PlainCons
  <1>5. Idling(active, stack[active]) => Idling(active, Rest)
    BY <1>1, <1>2, IdlingCons
  <1>6. ASSUME NEW hint, Guarded(hint, stack[active])
        PROVE  Guarded(hint, Rest) \/ (Top("IfResched") /\ hint)
    <2>1. Stops(hint, h) \/ Guarded(hint, Rest)
      BY <1>1, <1>6, GuardedCons
    <2>. QED BY <2>1, <1>2
  <1>. QED BY <1>4, <1>5, <1>6

\* A call that comes back without a switch, or makes further such calls, or
\* calls SelectThread, leaves the fiber in the mode it is in.
LEMMA QuietMode ==
  ASSUME TypeOK, Executing \/ Arming \/ Leaving \/ Picking \/ Idle,
         stack[active] # <<>>, Head(stack[active]).call \in Quiet,
         UNCHANGED <<running, current, active, disabled>>,
         state'[active] = "running" <=> state[active] = "running",
         resched => resched',
         \/ Pushed(stack'[active], stack[active])
         \/ Pushed(stack'[active], Rest) /\ ~(Top("IfResched") /\ resched)
         \/ \E f \in FrameType : f.call \in Selecting /\ stack'[active] = <<f>> \o Rest
  PROVE  (Executing \/ Leaving \/ Idle)'
  <1>. DEFINE s == stack[active]
              n == stack'[active]
              g == resched'
  <1>1. s \in Seq(FrameType) /\ Rest \in Seq(FrameType)
    BY TopFrame
  <1>2. ~Picking /\ ~Arming
    BY DEF Picking, Arming, Top, Quiet
  <1>3. /\ Plain(active, s) => Plain(active, Rest)
        /\ Idling(active, s) => Idling(active, Rest)
        /\ Guarded(resched, s) => Guarded(resched, Rest) \/ (Top("IfResched") /\ resched)
    BY PoppedCall
  <1>4. /\ Plain(active, s) => Plain(active, n)
        /\ Idling(active, s) => Idling(active, n)
        /\ Guarded(resched, s) => Guarded(resched, n)
    <2>1. CASE Pushed(n, s)
      BY <2>1, <1>1, PushedKeeps
    <2>2. CASE Pushed(n, Rest) /\ ~(Top("IfResched") /\ resched)
      BY <2>2, <1>1, <1>3, PushedKeeps
    <2>3. ASSUME NEW f \in FrameType, f.call \in Selecting, n = <<f>> \o Rest
          PROVE  /\ Plain(active, s) => Plain(active, n)
                 /\ Idling(active, s) => Idling(active, n)
                 /\ Guarded(resched, s) => Guarded(resched, n)
      <3>1. Stops(resched, f)
        BY <2>3 DEF Stops
      <3>2. Guarded(resched, n)
        BY <3>1, <2>3, <1>1, GuardedCons
      <3>3. /\ Plain(active, Rest) => Plain(active, n)
            /\ Idling(active, Rest) => Idling(active, n)
        BY <2>3, <1>1, PushedFrame
      <3>. QED BY <3>2, <3>3, <1>3
    <2>. QED BY <2>1, <2>2, <2>3
  <1>5. Guarded(resched, n) => Guarded(g, n)
    BY GuardedLater
  <1>. QED BY <1>2, <1>4, <1>5 DEF Executing, Leaving, Idle

\* The mode that the top call of the active fiber stands for.
LEMMA ModeOf ==
  ASSUME TypeOK, FiberInv
  PROVE  /\ GuestCode => Executing
         /\ stack[active] # <<>> =>
              LET h == Head(stack[active])
              IN  /\ h.call \notin Quiet \cup Selecting \cup
                                   {"Exited", "Pick", "Idle", "SuspendThread"} => Executing
                  /\ h.call = "SuspendThread" => Arming
                  /\ h.call \in Selecting => Executing \/ Leaving \/ Idle
                  /\ h.call = "Exited" => Executing \/ Leaving
                  /\ h.call = "Pick" => Picking
                  /\ h.call = "Idle" => Idle /\ Plain(active, Rest)
                  /\ Executing => PlainFrame(active, h)
                  /\ Executing \/ Leaving => Plain(active, Rest)
                  /\ Idle /\ h.call \in Selecting => Idling(active, Rest)
  <1>. DEFINE s == stack[active]
              h == Head(stack[active])
  <1>1. GuestCode => Executing
    BY EmptyStack DEF FiberInv, GuestCode, Arming, Leaving, Picking, Idle, Top
  <1>2. s # <<>> => h \in FrameType /\ Rest \in Seq(FrameType) /\ s = <<h>> \o Rest
    BY TopFrame
  <1>. HIDE DEF h
  <1>3. s # <<>> => (Plain(active, s) <=> PlainFrame(active, h) /\ Plain(active, Rest))
    BY <1>2, PlainCons
  <1>4. s # <<>> => (Guarded(resched, s) =>
                       Stops(resched, h) \/ (h.call \in Quiet /\ Guarded(resched, Rest)))
    BY <1>2, GuardedCons
  <1>5. s # <<>> => (Idling(active, s) => \/ h.call = "Idle" /\ Plain(active, Rest)
                                          \/ h.call \in Quiet \cup Selecting /\ Idling(active, Rest))
    BY <1>2, IdlingCons
  <1>6. Stops(resched, h) => h.call \in Selecting \cup {"Exited", "IfResched"}
    BY DEF Stops
  <1>7. PlainFrame(active, h) => h.call \notin {"Pick", "Idle", "SuspendThread"}
    BY DEF PlainFrame
  <1>8. (Picking => h.call = "Pick") /\ (Arming => h.call = "SuspendThread")
    BY DEF Picking, Arming, Top, h
  <1>9. Executing \/ Arming \/ Leaving \/ Picking \/ Idle
    BY DEF FiberInv
  <1>10. /\ Quiet \cap (Selecting \cup {"Exited", "Pick", "Idle", "SuspendThread"}) = {}
         /\ Selecting \cap {"Exited", "Pick", "Idle", "SuspendThread"} = {}
         /\ "IfResched" \in Quiet
    BY DEF Quiet, Selecting
  <1>11. Executing => Plain(active, s)
    BY DEF Executing
  <1>12. Leaving => Plain(active, s) /\ Guarded(resched, s)
    BY DEF Leaving
  <1>13. Idle => Idling(active, s)
    BY DEF Idle
  <1>. HIDE DEF s
  <1>14. s # <<>> =>
                  /\ h.call \notin Quiet \cup Selecting \cup
                                   {"Exited", "Pick", "Idle", "SuspendThread"} => Executing
                  /\ h.call = "SuspendThread" => Arming
                  /\ h.call \in Selecting => Executing \/ Leaving \/ Idle
                  /\ h.call = "Exited" => Executing \/ Leaving
                  /\ h.call = "Pick" => Picking
                  /\ h.call = "Idle" => Idle /\ Plain(active, Rest)
                  /\ Executing => PlainFrame(active, h)
                  /\ Executing \/ Leaving => Plain(active, Rest)
                  /\ Idle /\ h.call \in Selecting => Idling(active, Rest)
    BY <1>3, <1>4, <1>5, <1>6, <1>7, <1>8, <1>9, <1>10, <1>11, <1>12, <1>13
  <1>. QED BY <1>1, <1>14 DEF s, h

\* Only the stack of the active fiber changes.
LEMMA ContinueStack ==
  ASSUME TypeOK, NEW s \in Seq(FrameType), stack' = [stack EXCEPT ![active] = s]
  PROVE  /\ stack' \in [Thread -> Seq(FrameType)]
         /\ stack'[active] = s
         /\ \A t \in Thread \ {active} : stack'[t] = stack[t]
  BY DEF TypeOK

\* The fibers that are not executed stay as they left.
LEMMA PartedKept ==
  ASSUME FiberInv, UNCHANGED active, \A t \in Thread \ {active} : stack'[t] = stack[t]
  PROVE  (\A t \in Thread \ {active} : Parting(t))'
  BY DEF FiberInv, Parting

\* A step that changes neither links nor states leaves the queues in order.
LEMMA QueueKept ==
  ASSUME QueueInv, UNCHANGED <<q, pending, queue, state, suspend, prio>>
  PROVE  QueueInv'
  <1>1. UNCHANGED Home
    BY DEF Home
  <1>. QED BY <1>1 DEF QueueInv, Terminated, Queues

\* What the end of a thread and its timer have to do with its state.
LEMMA LifeKept ==
  ASSUME LifeInv, UNCHANGED <<dead, alive>>,
         \A t \in Thread : \/ state'[t] = state[t]
                           \/ {state[t], state'[t]} \cap {"none", "moribund"} = {},
         \A t \in timers' : suspend'[t] > 0 \/ Terminated(t)' \/ (Arming /\ t = active)',
         \A m \in Mutex : count'[m] > 0 <=> owner'[m] # None
  PROVE  LifeInv'
  BY DEF LifeInv, Terminated

\* Once the timer of the active thread is armed and the thread suspended, no timer is early.
LEMMA NotArming ==
  ASSUME LifeInv, ~Top("SuspendThread")
  PROVE  \A t \in timers : suspend[t] > 0 \/ Terminated(t)
  BY DEF LifeInv, Arming

\* A step of a call that returns, or makes calls that do.
LEMMA QuietFiber ==
  ASSUME TypeOK, FiberInv, stack[active] # <<>>, Head(stack[active]).call \in Quiet,
         UNCHANGED <<running, current, fiberVars, disabled>>,
         \A t \in Thread : state'[t] = "running" <=> state[t] = "running",
         \A t \in Thread : state[t] = "running" => suspend'[t] = suspend[t],
         resched => resched',
         \A t \in Thread \ {active} : stack'[t] = stack[t],
         \/ Pushed(stack'[active], stack[active])
         \/ Pushed(stack'[active], Rest) /\ ~(Top("IfResched") /\ resched)
         \/ \E f \in FrameType : f.call \in Selecting /\ stack'[active] = <<f>> \o Rest
  PROVE  FiberInv'
  <1>1. active \in Thread /\ active' = active
    BY DEF TypeOK, fiberVars
  <1>2. (Executing \/ Leaving \/ Idle)'
    <2>1. Executing \/ Arming \/ Leaving \/ Picking \/ Idle
      BY DEF FiberInv
    <2>2. state'[active] = "running" <=> state[active] = "running"
      BY <1>1
    <2>3. UNCHANGED <<running, current, active, disabled>>
      BY DEF fiberVars
    <2>. QED BY <2>1, <2>2, <2>3, QuietMode
  <1>3. (\A t \in Thread : state[t] = "running" => t = active /\ suspend[t] = 0)'
    BY <1>1 DEF FiberInv
  <1>4. (\A t \in Thread \ {active} : Parting(t))'
    BY <1>1, PartedKept
  <1>5. (curGuest \in {active, None})'
    BY DEF FiberInv, fiberVars
  <1>. QED BY <1>2, <1>3, <1>4, <1>5 DEF FiberInv

\* The calls of the timer queue.
LEMMA FireStep ==
  ASSUME Good, NEW t \in Thread, FireSleepTimer(t), UNCHANGED game,
         Top("ProcessSleepTimers") \/ Top("Idle")
  PROVE  Good'
  <1>. USE DEF Good
  <1>1. active \in Thread /\ stack[active] \in Seq(FrameType)
    BY TopFrame
  <1>2. Frame("ResumeThread", t) \in FrameType /\ Frame("ResumeThread", t).call \in Quiet
    BY Frames DEF Quiet
  <1>3. stack[active] # <<>>
    BY DEF Top
  <1>4. /\ stack' \in [Thread -> Seq(FrameType)]
        /\ Pushed(stack'[active], stack[active])
        /\ \A u \in Thread \ {active} : stack'[u] = stack[u]
    <2>1. CASE UNCHANGED stack
      BY <2>1 DEF Pushed, TypeOK
    <2>2. CASE Continue(<<Frame("ResumeThread", t)>>, stack[active])
      <3>1. <<Frame("ResumeThread", t)>> \o stack[active] \in Seq(FrameType)
        BY <1>1, <1>2, ConsSeq
      <3>2. Pushed(<<Frame("ResumeThread", t)>> \o stack[active], stack[active])
        BY <1>2 DEF Pushed
      <3>. QED BY <2>2, <3>1, <3>2, ContinueStack DEF Continue
    <2>. QED BY <2>1, <2>2 DEF FireSleepTimer
  <1>5. UNCHANGED <<state, suspend, prio, base, q, queue, pending, owner, count, held, waitMutex,
                    resched, disabled, running, current, active, curGuest, dead, detached,
                    alive>> /\ timers' \subseteq timers
    BY DEF FireSleepTimer, prioVars, linkVars, mutexVars, ctxVars, fiberVars
  <1>6. TypeOK'
    BY <1>4, <1>5 DEF TypeOK
  <1>7. QueueInv'
    BY <1>5, QueueKept
  <1>8. FiberInv'
    <2>1. CASE Top("ProcessSleepTimers")
      <3>1. Head(stack[active]).call \in Quiet
        BY <2>1 DEF Top, Quiet
      <3>. QED BY <1>3, <1>4, <1>5, <3>1, QuietFiber DEF fiberVars
    <2>2. CASE Top("Idle")
      <3>1. Idle
        BY <2>2, ModeOf DEF Top
      <3>2. Idling(active, stack'[active])
        BY <1>1, <1>4, <3>1, PushedKeeps DEF Idle
      <3>3. Idle'
        BY <1>5, <3>1, <3>2 DEF Idle
      <3>4. (\A u \in Thread \ {active} : Parting(u))'
        BY <1>4, <1>5, PartedKept
      <3>. QED BY <1>5, <3>3, <3>4 DEF FiberInv
    <2>. QED BY <2>1, <2>2
  <1>9. LifeInv'
    <2>1. ~Top("SuspendThread")
      BY DEF Top
    <2>2. \A u \in timers' : suspend'[u] > 0 \/ Terminated(u)'
      BY <1>5, <2>1, NotArming DEF Terminated
    <2>. QED BY <1>5, <2>2, LifeKept DEF LifeInv
  <1>. QED BY <1>6, <1>7, <1>8, <1>9

\* ProcessSleepTimers returns when no due timer is left.
LEMMA PumpEndsStep ==
  ASSUME Good, PumpEnds, UNCHANGED game
  PROVE  Good'
  <1>. USE DEF Good
  <1>1. /\ stack[active] # <<>> /\ Head(stack[active]).call = "ProcessSleepTimers"
        /\ Rest \in Seq(FrameType)
    BY TopFrame DEF PumpEnds, Top
  <1>2. stack' = [stack EXCEPT ![active] = Rest]
    BY <1>1, Pushes, Frames DEF PumpEnds, Return, Continue
  <1>3. /\ stack' \in [Thread -> Seq(FrameType)] /\ stack'[active] = Rest
        /\ \A u \in Thread \ {active} : stack'[u] = stack[u]
    BY <1>1, <1>2, ContinueStack
  <1>4. UNCHANGED <<state, suspend, prio, base, q, queue, pending, owner, count, held, waitMutex,
                    resched, disabled, running, current, active, curGuest, dead, detached,
                    alive, timers>>
    BY DEF PumpEnds, prioVars, linkVars, mutexVars, ctxVars, fiberVars
  <1>5. TypeOK'
    BY <1>3, <1>4 DEF TypeOK
  <1>6. QueueInv'
    BY <1>4, QueueKept
  <1>7. FiberInv'
    <2>1. Pushed(stack'[active], Rest)
      BY <1>3 DEF Pushed
    <2>2. ~Top("IfResched") /\ Head(stack[active]).call \in Quiet
      BY <1>1 DEF Top, Quiet
    <2>. QED BY <1>1, <1>3, <1>4, <2>1, <2>2, QuietFiber DEF fiberVars
  <1>8. LifeInv'
    <2>1. ~Top("SuspendThread")
      BY <1>1 DEF Top
    <2>2. \A u \in timers' : suspend'[u] > 0 \/ Terminated(u)'
      BY <1>4, <2>1, NotArming DEF Terminated
    <2>. QED BY <1>4, <2>2, LifeKept DEF LifeInv
  <1>. QED BY <1>5, <1>6, <1>7, <1>8

\* A call that ends looks for another thread if the hint is set.
LEMMA RescheduleStep ==
  ASSUME Good, Reschedule, UNCHANGED game
  PROVE  Good'
  <1>. USE DEF Good
  <1>1. /\ stack[active] # <<>> /\ Head(stack[active]).call = "IfResched"
        /\ Rest \in Seq(FrameType)
    BY TopFrame DEF Reschedule, Top
  <1>. DEFINE s == (IF resched THEN <<SelectFrame>> ELSE <<>>) \o Rest
  <1>2. /\ s \in Seq(FrameType)
        /\ (s = Rest /\ ~resched) \/ s = <<SelectFrame>> \o Rest
    BY <1>1, SelectFrames, ConsSeq, ConcatEmptySeq
  <1>3. stack' = [stack EXCEPT ![active] = s]
    BY DEF Reschedule, Continue
  <1>. HIDE DEF s
  <1>4. /\ stack' \in [Thread -> Seq(FrameType)] /\ stack'[active] = s
        /\ \A u \in Thread \ {active} : stack'[u] = stack[u]
    BY <1>2, <1>3, ContinueStack
  <1>5. UNCHANGED <<state, suspend, prio, base, q, queue, pending, owner, count, held, waitMutex,
                    resched, disabled, running, current, active, curGuest, dead, detached,
                    alive, timers>>
    BY DEF Reschedule, prioVars, linkVars, mutexVars, ctxVars, fiberVars
  <1>6. TypeOK'
    BY <1>4, <1>5 DEF TypeOK
  <1>7. QueueInv'
    BY <1>5, QueueKept
  <1>8. FiberInv'
    <2>1. \/ Pushed(stack'[active], Rest) /\ ~(Top("IfResched") /\ resched)
          \/ \E f \in FrameType : f.call \in Selecting /\ stack'[active] = <<f>> \o Rest
      BY <1>2, <1>4, SelectFrames DEF Pushed, Selecting
    <2>2. Head(stack[active]).call \in Quiet
      BY <1>1 DEF Quiet
    <2>. QED BY <1>1, <1>4, <1>5, <2>1, <2>2, QuietFiber DEF fiberVars
  <1>9. LifeInv'
    <2>1. ~Top("SuspendThread")
      BY <1>1 DEF Top
    <2>2. \A u \in timers' : suspend'[u] > 0 \/ Terminated(u)'
      BY <1>5, <2>1, NotArming DEF Terminated
    <2>. QED BY <1>5, <2>2, LifeKept DEF LifeInv
  <1>. QED BY <1>6, <1>7, <1>8, <1>9

\* A step that changes only the call stacks.
LEMMA StackOnly ==
  ASSUME Good, stack' \in [Thread -> Seq(FrameType)], FiberInv', ~Top("SuspendThread"),
         UNCHANGED <<game, state, suspend, prioVars, linkVars, mutexVars, waitMutex, resched,
                     disabled, ctxVars, timers, fiberVars, detached, alive>>
  PROVE  Good'
  <1>. USE DEF Good
  <1>1. UNCHANGED <<state, suspend, prio, base, q, queue, pending, owner, count, held, waitMutex,
                    resched, disabled, running, current, active, curGuest, dead, detached,
                    alive, timers>>
    BY DEF prioVars, linkVars, mutexVars, ctxVars, fiberVars
  <1>2. TypeOK'
    BY <1>1 DEF TypeOK
  <1>3. QueueInv'
    BY <1>1, QueueKept
  <1>4. LifeInv'
    <2>1. \A u \in timers' : suspend'[u] > 0 \/ Terminated(u)'
      BY <1>1, NotArming DEF Terminated
    <2>. QED BY <1>1, <2>1, LifeKept DEF LifeInv
  <1>. QED BY <1>2, <1>3, <1>4

\* The modes after a step that leaves the threads and the contexts as they are.
LEMMA NextFiber ==
  ASSUME TypeOK, FiberInv, Executing \/ Arming \/ Leaving \/ Picking \/ Idle,
         UNCHANGED <<state, suspend, pending, running, current, fiberVars, disabled>>,
         resched => resched',
         \A t \in Thread \ {active} : stack'[t] = stack[t],
         \/ Executing /\ Plain(active, stack'[active])
         \/ Leaving /\ Plain(active, stack'[active]) /\ Guarded(resched', stack'[active])
         \/ Idle /\ Idling(active, stack'[active])
         \/ Picking'
  PROVE  FiberInv'
  <1>1. (Executing \/ Leaving \/ Picking \/ Idle)'
    BY DEF Executing, Leaving, Idle, fiberVars
  <1>2. (\A t \in Thread \ {active} : Parting(t))'
    BY PartedKept DEF fiberVars
  <1>. QED BY <1>1, <1>2 DEF FiberInv, fiberVars

\* The fiber is about to pick a thread.
LEMMA NextPicking ==
  ASSUME TypeOK, NEW r \in Seq(FrameType), Plain(active, r), UNCHANGED active,
         stack' = [stack EXCEPT ![active] = <<Frame("Pick", None)>> \o r],
         state'[active] # "running", disabled' = 0, pending' # {}
  PROVE  Picking' /\ stack' \in [Thread -> Seq(FrameType)]
  <1>. DEFINE n == <<Frame("Pick", None)>> \o r
  <1>1. /\ n \in Seq(FrameType) /\ n # <<>> /\ Head(n) = Frame("Pick", None) /\ Tail(n) = r
    BY Frames, ConsSeq
  <1>2. stack'[active'] = n
    BY DEF TypeOK
  <1>3. Frame("Pick", None).call = "Pick"
    BY Frames
  <1>. HIDE DEF n
  <1>4. Rest' = r
    BY <1>1, <1>2 DEF Rest
  <1>5. Top("Pick")'
    BY <1>1, <1>2, <1>3 DEF Top
  <1>6. stack' \in [Thread -> Seq(FrameType)]
    BY <1>1 DEF TypeOK, n
  <1>. QED BY <1>4, <1>5, <1>6 DEF Picking

\* Time passes: the safe point finds timers that are due.
LEMMA TimersDueStep ==
  ASSUME Good, TimersDue, UNCHANGED game
  PROVE  Good'
  <1>. USE DEF Good
  <1>1. /\ stack[active] # <<>> /\ Head(stack[active]).call = "SelectThread"
        /\ Head(stack[active]) \in FrameType /\ Rest \in Seq(FrameType)
    BY TopFrame DEF TimersDue, Top
  <1>2. Arg \in BOOLEAN
    BY <1>1, FrameArgs DEF Arg, Selecting
  <1>3. PICK due \in SUBSET timers :
           Continue(<<Frame("ProcessSleepTimers", due), Frame("Select", Arg)>>, Rest)
    BY DEF TimersDue
  <1>. DEFINE f == Frame("ProcessSleepTimers", due)
              g == Frame("Select", Arg)
              s == <<f>> \o (<<g>> \o Rest)
  <1>4. /\ f \in FrameType /\ f.call \in Quiet /\ g \in FrameType /\ g.call \in Selecting
    <2>1. due \in SUBSET Thread
      BY DEF TypeOK
    <2>. QED BY <1>2, <2>1, Frames DEF Quiet, Selecting
  <1>. HIDE DEF f, g
  <1>5. stack' = [stack EXCEPT ![active] = s]
    <2>1. <<f, g>> \o Rest = s
      BY <1>1, <1>4, Pushes
    <2>. QED BY <1>3, <2>1 DEF Continue, f, g
  <1>6. s \in Seq(FrameType) /\ <<g>> \o Rest \in Seq(FrameType)
    BY <1>1, <1>4, ConsSeq
  <1>7. /\ stack' \in [Thread -> Seq(FrameType)] /\ stack'[active] = s
        /\ \A u \in Thread \ {active} : stack'[u] = stack[u]
    BY <1>5, <1>6, ContinueStack
  <1>8. /\ Plain(active, Rest) => Plain(active, s)
        /\ Idling(active, Rest) => Idling(active, s)
    <2>1. Pushed(s, Rest)
      BY <1>4 DEF Pushed
    <2>. QED BY <1>1, <2>1, PushedKeeps
  <1>9. Guarded(resched, s)
    <2>1. Guarded(resched, <<g>> \o Rest)
      BY <1>1, <1>4, GuardedCons DEF Stops
    <2>. QED BY <1>4, <1>6, <2>1, GuardedCons
  <1>. HIDE DEF s
  <1>10. UNCHANGED <<state, suspend, pending, running, current, fiberVars, disabled, resched>>
    BY DEF TimersDue, linkVars, ctxVars
  <1>11. FiberInv'
    <2>1. Executing \/ Leaving \/ Idle
      BY <1>1, ModeOf DEF Selecting
    <2>2. /\ Executing \/ Leaving => Plain(active, Rest)
          /\ Idle => Idling(active, Rest)
      BY <1>1, ModeOf DEF Selecting
    <2>. QED BY <1>7, <1>8, <1>9, <1>10, <2>1, <2>2, NextFiber
  <1>12. ~Top("SuspendThread")
    BY <1>1 DEF Top
  <1>. QED BY <1>7, <1>11, <1>12, StackOnly DEF TimersDue

\* OSYieldThread.
LEMMA YieldThreadStep ==
  ASSUME Good, YieldThread, UNCHANGED game
  PROVE  Good'
  <1>. USE DEF Good
  <1>1. Executing
    BY ModeOf DEF YieldThread, GuestCalls
  <1>2. stack[active] = <<>> /\ Rest = <<>>
    BY DEF YieldThread, GuestCalls, GuestCode, Rest
  <1>. DEFINE f == Frame("SelectThread", TRUE)
              s == <<f>> \o Rest
  <1>3. f \in FrameType /\ f.call \in Selecting /\ Rest \in Seq(FrameType)
    BY TopFrame, Frames DEF Selecting
  <1>4. stack' = [stack EXCEPT ![active] = s]
    BY DEF YieldThread, Continue
  <1>. HIDE DEF f
  <1>5. s \in Seq(FrameType) /\ Plain(active, s)
    BY <1>2, <1>3, PushedFrame, EmptyStack
  <1>. HIDE DEF s
  <1>6. /\ stack' \in [Thread -> Seq(FrameType)] /\ stack'[active] = s
        /\ \A u \in Thread \ {active} : stack'[u] = stack[u]
    BY <1>4, <1>5, ContinueStack
  <1>7. UNCHANGED <<state, suspend, pending, running, current, fiberVars, disabled, resched>>
    BY DEF YieldThread, linkVars, ctxVars
  <1>8. FiberInv'
    BY <1>1, <1>5, <1>6, <1>7, NextFiber
  <1>9. ~Top("SuspendThread")
    BY <1>2 DEF Top
  <1>. QED BY <1>6, <1>8, <1>9, StackOnly DEF YieldThread

\* The idle loop ends: a thread is ready.
LEMMA IdleEndsStep ==
  ASSUME Good, IdleEnds, UNCHANGED game
  PROVE  Good'
  <1>. USE DEF Good
  <1>1. Idle /\ Plain(active, Rest) /\ Rest \in Seq(FrameType)
    BY ModeOf, TopFrame DEF IdleEnds, Top
  <1>2. UNCHANGED <<state, suspend, pending, running, current, fiberVars, disabled, resched>>
    BY DEF IdleEnds, linkVars, ctxVars
  <1>3. Picking' /\ stack' \in [Thread -> Seq(FrameType)]
    <2>1. stack' = [stack EXCEPT ![active] = <<Frame("Pick", None)>> \o Rest]
      BY DEF IdleEnds, Continue
    <2>2. state'[active] # "running" /\ disabled' = 0 /\ pending' # {} /\ UNCHANGED active
      BY <1>1, <1>2 DEF Idle, IdleEnds, fiberVars
    <2>. QED BY <1>1, <2>1, <2>2, NextPicking
  <1>4. \A u \in Thread \ {active} : stack'[u] = stack[u]
    BY DEF IdleEnds, Continue, TypeOK
  <1>5. FiberInv'
    BY <1>1, <1>2, <1>3, <1>4, NextFiber
  <1>6. ~Top("SuspendThread")
    BY DEF Top, IdleEnds
  <1>. QED BY <1>3, <1>5, <1>6, StackOnly DEF IdleEnds

\* Guest code, or a call that only a running thread is in, goes on.
LEMMA ExecutingRest ==
  ASSUME TypeOK, FiberInv, Executing
  PROVE  /\ Rest \in Seq(FrameType) /\ Plain(active, Rest)
         /\ running = active /\ current = active /\ state[active] = "running"
         /\ active \in Thread /\ suspend[active] = 0
  BY TopFrame, ModeOf, EmptyStack DEF Executing, Rest, FiberInv

\* The active fiber goes on executing the running thread.
LEMMA StillExecuting ==
  ASSUME TypeOK, FiberInv, Executing, UNCHANGED <<ctxVars, active>>,
         state'[active] = "running", curGuest' \in {active, None},
         \A t \in Thread : state'[t] = "running" => state[t] = "running" /\ suspend'[t] = suspend[t],
         (\A t \in Thread \ {active} : Parting(t))', Plain(active, stack'[active])
  PROVE  FiberInv'
  <1>1. Executing'
    BY DEF Executing, ctxVars
  <1>2. (\A t \in Thread : state[t] = "running" => t = active /\ suspend[t] = 0)'
    BY DEF FiberInv
  <1>. QED BY <1>1, <1>2 DEF FiberInv

\* A thread that is over changes how.
LEMMA EndedKept ==
  ASSUME QueueInv, UNCHANGED <<q, pending, queue, suspend, prio>>,
         \A t \in Thread : state'[t] = state[t] \/ {state[t], state'[t]} \subseteq {"none", "moribund"}
  PROVE  QueueInv'
  <1>1. Home' = Home
    BY DEF Home
  <1>2. (\A t \in Thread : state[t] = "waiting" => queue[t] \in BlockQueues)'
    BY DEF QueueInv
  <1>3. (\A t \in Thread : Home[t] # None => queue[t] = Home[t])'
    BY <1>1 DEF QueueInv
  <1>4. (\A t \in Thread : suspend[t] = 0 /\ ~Terminated(t) => prio[t] \in Priority)'
    BY DEF QueueInv, Terminated
  <1>5. Queues(q, pending, Home, prio)'
    BY <1>1 DEF QueueInv, Queues
  <1>. QED BY <1>2, <1>3, <1>4, <1>5 DEF QueueInv

\* OSDisableScheduler and OSEnableScheduler.
LEMMA SchedulerStep ==
  ASSUME Good, DisableScheduler \/ EnableScheduler, UNCHANGED game
  PROVE  Good'
  <1>. USE DEF Good
  <1>1. Executing /\ stack[active] = <<>>
    BY ModeOf DEF DisableScheduler, EnableScheduler, GuestCalls, GuestCode
  <1>2. disabled' \in Nat
    BY DEF DisableScheduler, EnableScheduler, TypeOK
  <1>3. UNCHANGED <<state, suspend, prio, base, q, queue, pending, owner, count, held, waitMutex,
                    resched, running, current, active, curGuest, dead, detached,
                    alive, timers, stack>>
    BY DEF DisableScheduler, EnableScheduler, prioVars, linkVars, mutexVars, ctxVars, fiberVars
  <1>4. TypeOK'
    BY <1>2, <1>3 DEF TypeOK
  <1>5. QueueInv'
    BY <1>3, QueueKept
  <1>6. FiberInv'
    BY <1>1, <1>3, StillExecuting, PartedKept DEF ctxVars, Executing, FiberInv
  <1>7. LifeInv'
    <2>1. ~Top("SuspendThread")
      BY <1>1 DEF Top
    <2>2. \A u \in timers' : suspend'[u] > 0 \/ Terminated(u)'
      BY <1>3, <2>1, NotArming DEF Terminated
    <2>. QED BY <1>3, <2>2, LifeKept DEF LifeInv
  <1>. QED BY <1>4, <1>5, <1>6, <1>7

\* The end of OSExitThread: the switch that does not return.
LEMMA ExitedStep ==
  ASSUME Good, Exited, UNCHANGED game
  PROVE  Good'
  <1>. USE DEF Good
  <1>1. /\ stack[active] # <<>> /\ Head(stack[active]).call = "Exited"
        /\ Rest \in Seq(FrameType)
    BY TopFrame DEF Exited, Top
  <1>2. Executing \/ Leaving
    BY <1>1, ModeOf
  <1>3. Plain(active, Rest)
    BY <1>1, <1>2, ModeOf
  <1>. DEFINE s == <<SelectFrame>> \o Rest
  <1>4. s \in Seq(FrameType) /\ Plain(active, s) /\ Guarded(resched', s)
    BY <1>1, <1>3, SelectFrames, PushedFrame, GuardedCons DEF Selecting, Stops
  <1>5. stack' = [stack EXCEPT ![active] = s]
    BY DEF Exited, Continue
  <1>. HIDE DEF s
  <1>6. /\ stack' \in [Thread -> Seq(FrameType)] /\ stack'[active] = s
        /\ \A u \in Thread \ {active} : stack'[u] = stack[u]
    BY <1>4, <1>5, ContinueStack
  <1>7. UNCHANGED <<state, suspend, prio, base, q, queue, pending, owner, count, held, waitMutex,
                    disabled, running, current, active, curGuest, dead, detached,
                    alive, timers>> /\ resched' = TRUE
    BY DEF Exited, prioVars, linkVars, mutexVars, ctxVars, fiberVars
  <1>8. TypeOK'
    BY <1>6, <1>7 DEF TypeOK
  <1>9. QueueInv'
    BY <1>7, QueueKept
  <1>10. FiberInv'
    BY <1>2, <1>4, <1>6, <1>7, NextFiber DEF fiberVars
  <1>11. LifeInv'
    <2>1. ~Top("SuspendThread")
      BY <1>1 DEF Top
    <2>2. \A u \in timers' : suspend'[u] > 0 \/ Terminated(u)'
      BY <1>7, <2>1, NotArming DEF Terminated
    <2>. QED BY <1>7, <2>2, LifeKept DEF LifeInv
  <1>. QED BY <1>8, <1>9, <1>10, <1>11

\* A fiber comes back from its switch.
LEMMA SwitchedStep ==
  ASSUME Good, Switched, UNCHANGED game
  PROVE  Good'
  <1>. USE DEF Good
  <1>1. stack[active] # <<>> /\ Head(stack[active]).call = "Switched"
    BY DEF Switched, Top
  <1>2. Executing
    BY <1>1, ModeOf DEF Quiet, Selecting
  <1>3. stack' = [stack EXCEPT ![active] = Rest]
    BY <1>2, ExecutingRest, ConcatEmptySeq DEF Switched, Return, Continue
  <1>4. /\ stack' \in [Thread -> Seq(FrameType)] /\ stack'[active] = Rest
        /\ \A u \in Thread \ {active} : stack'[u] = stack[u]
    BY <1>2, <1>3, ExecutingRest, ContinueStack
  <1>5. UNCHANGED <<state, suspend, prio, base, q, queue, pending, owner, count, held, waitMutex,
                    disabled, running, current, active, dead, detached, alive, timers, resched>>
    BY DEF Switched, prioVars, linkVars, mutexVars, ctxVars, lifeVars
  <1>6. curGuest' \in {active, None} /\ active \in Thread
    BY <1>2, ExecutingRest DEF Switched
  <1>7. TypeOK'
    BY <1>4, <1>5, <1>6 DEF TypeOK
  <1>8. QueueInv'
    BY <1>5, QueueKept
  <1>9. FiberInv'
    <2>1. (\A t \in Thread \ {active} : Parting(t))'
      BY <1>4, <1>5, PartedKept
    <2>. QED BY <1>2, <1>4, <1>5, <1>6, <2>1, ExecutingRest, StillExecuting DEF ctxVars
  <1>10. LifeInv'
    <2>1. ~Top("SuspendThread")
      BY <1>1 DEF Top
    <2>2. \A u \in timers' : suspend'[u] > 0 \/ Terminated(u)'
      BY <1>5, <2>1, NotArming DEF Terminated
    <2>. QED BY <1>5, <2>2, LifeKept DEF LifeInv
  <1>. QED BY <1>7, <1>8, <1>9, <1>10

\* OSiUnlockAllMutex.
LEMMA UnlockAllStep ==
  ASSUME Good, NEW t \in Thread, UnlockAll(t), UNCHANGED game
  PROVE  Good'
  <1>. USE DEF Good
  <1>1. /\ stack[active] # <<>> /\ Head(stack[active]).call = "UnlockAll"
        /\ Rest \in Seq(FrameType) /\ stack[active] \in Seq(FrameType)
    BY TopFrame DEF UnlockAll, Top
  <1>2. /\ UNCHANGED <<state, suspend, prio, base, q, queue, pending, waitMutex,
                    disabled, running, current, active, curGuest, dead, detached, alive, timers,
                    resched>>
    BY DEF UnlockAll, prioVars, linkVars, ctxVars, fiberVars
  <1>3. /\ stack' \in [Thread -> Seq(FrameType)]
        /\ \A u \in Thread \ {active} : stack'[u] = stack[u]
        /\ Pushed(stack'[active], stack[active]) \/ Pushed(stack'[active], Rest)
        /\ owner' \in [Mutex -> Thread \cup {None}] /\ count' \in [Mutex -> Nat]
        /\ held' \in [Thread -> Seq(Mutex)]
        /\ \A m \in Mutex : count'[m] > 0 <=> owner'[m] # None
    <2>1. CASE held[t] = <<>>
      <3>1. stack' = [stack EXCEPT ![active] = Rest] /\ UNCHANGED mutexVars
        BY <1>1, <2>1, ConcatEmptySeq DEF UnlockAll, Return, Continue
      <3>2. /\ stack' \in [Thread -> Seq(FrameType)] /\ stack'[active] = Rest
            /\ \A u \in Thread \ {active} : stack'[u] = stack[u]
        BY <1>1, <3>1, ContinueStack
      <3>. QED BY <3>1, <3>2 DEF Pushed, TypeOK, mutexVars, LifeInv
    <2>2. CASE held[t] # <<>>
      <3>. DEFINE m == Head(held[t])
                  f == Frame("WakeupThread", MutexQ(m))
                  s == <<f>> \o stack[active]
      <3>1. held[t] \in Seq(Mutex)
        BY DEF TypeOK
      <3>2. m \in Mutex /\ Tail(held[t]) \in Seq(Mutex)
        BY <2>2, <3>1, HeadTail
      <3>3. /\ held' = [held EXCEPT ![t] = Tail(@)]
            /\ count' = [count EXCEPT ![m] = 0]
            /\ owner' = [owner EXCEPT ![m] = None]
            /\ stack' = [stack EXCEPT ![active] = s]
        BY <2>2 DEF UnlockAll, Continue
      <3>. HIDE DEF m
      <3>4. f \in FrameType /\ f.call \in Quiet
        BY <3>2, Frames, Addresses DEF Quiet
      <3>. HIDE DEF f
      <3>5. s \in Seq(FrameType) /\ Pushed(s, stack[active])
        BY <1>1, <3>4, ConsSeq DEF Pushed
      <3>. HIDE DEF s
      <3>6. /\ stack' \in [Thread -> Seq(FrameType)] /\ stack'[active] = s
            /\ \A u \in Thread \ {active} : stack'[u] = stack[u]
        BY <3>3, <3>5, ContinueStack
      <3>7. /\ owner' \in [Mutex -> Thread \cup {None}] /\ count' \in [Mutex -> Nat]
            /\ held' \in [Thread -> Seq(Mutex)]
        BY <3>2, <3>3 DEF TypeOK
      <3>8. \A n \in Mutex : count'[n] > 0 <=> owner'[n] # None
        BY <3>2, <3>3 DEF LifeInv, TypeOK
      <3>. QED BY <3>5, <3>6, <3>7, <3>8
    <2>. QED BY <2>1, <2>2
  <1>4. TypeOK'
    BY <1>2, <1>3 DEF TypeOK
  <1>5. QueueInv'
    BY <1>2, QueueKept
  <1>6. FiberInv'
    <2>1. Head(stack[active]).call \in Quiet /\ ~Top("IfResched")
      BY <1>1 DEF Quiet, Top
    <2>. QED BY <1>1, <1>2, <1>3, <2>1, QuietFiber DEF fiberVars
  <1>7. LifeInv'
    <2>1. ~Top("SuspendThread")
      BY <1>1 DEF Top
    <2>2. \A u \in timers' : suspend'[u] > 0 \/ Terminated(u)'
      BY <1>2, <2>1, NotArming DEF Terminated
    <2>. QED BY <1>2, <1>3, <2>2, LifeKept
  <1>. QED BY <1>4, <1>5, <1>6, <1>7

\* A thread that is over is reaped, or nothing happens to the threads.
LEMMA ReapKept ==
  ASSUME Good, NEW t \in Thread,
         \/ state[t] = "moribund" /\ Reap(t)
         \/ UNCHANGED <<state, alive>>,
         UNCHANGED <<suspend, prioVars, linkVars, mutexVars, timers, dead, active>>,
         ~Top("SuspendThread")
  PROVE  /\ QueueInv' /\ LifeInv'
         /\ state' \in [Thread -> State] /\ alive' \subseteq Thread
         /\ \A u \in Thread : state'[u] = "running" <=> state[u] = "running"
  <1>. USE DEF Good
  <1>1. /\ state' \in [Thread -> State] /\ alive' \subseteq Thread
        /\ \A u \in Thread : \/ state'[u] = state[u]
                             \/ {state[u], state'[u]} \subseteq {"none", "moribund"}
    BY DEF Reap, TypeOK, State
  <1>2. UNCHANGED <<q, pending, queue, suspend, prio, owner, count>>
    BY DEF prioVars, linkVars, mutexVars
  <1>3. QueueInv'
    BY <1>1, <1>2, EndedKept
  <1>4. \A u \in Thread : Terminated(u)' <=> Terminated(u)
    BY <1>1 DEF Terminated
  <1>5. \A u \in timers : suspend[u] > 0 \/ Terminated(u)
    BY NotArming
  <1>6. alive' = {u \in Thread : state'[u] # "none"}
    BY DEF LifeInv, Reap, TypeOK
  <1>7. timers \subseteq Thread
    BY DEF TypeOK
  <1>8. LifeInv'
    <2>1. (\A u \in Thread : dead[u] => Terminated(u))'
      BY <1>4 DEF LifeInv
    <2>2. (\A u \in timers : suspend[u] > 0 \/ Terminated(u))'
      BY <1>2, <1>4, <1>5, <1>7
    <2>3. (\A m \in Mutex : count[m] > 0 <=> owner[m] # None)'
      BY <1>2 DEF LifeInv
    <2>. QED BY <1>6, <2>1, <2>2, <2>3 DEF LifeInv
  <1>. QED BY <1>1, <1>3, <1>8

\* OSJoinThread after its sleep.
LEMMA JoinedStep ==
  ASSUME Good, NEW t \in Thread, Joined(t), UNCHANGED game
  PROVE  Good'
  <1>. USE DEF Good
  <1>1. stack[active] # <<>> /\ Head(stack[active]).call = "Joined"
    BY DEF Joined, Top
  <1>2. Executing
    BY <1>1, ModeOf DEF Quiet, Selecting
  <1>3. stack' = [stack EXCEPT ![active] = Rest]
    BY <1>2, ExecutingRest, ConcatEmptySeq DEF Joined, Return, Continue
  <1>4. /\ stack' \in [Thread -> Seq(FrameType)] /\ stack'[active] = Rest
        /\ \A u \in Thread \ {active} : stack'[u] = stack[u]
    BY <1>2, <1>3, ExecutingRest, ContinueStack
  <1>5. UNCHANGED <<suspend, prio, base, q, queue, pending, owner, count, held, waitMutex, disabled,
                    running, current, active, curGuest, dead, detached, timers, resched>>
    BY DEF Joined, prioVars, linkVars, mutexVars, ctxVars, fiberVars
  <1>6. /\ QueueInv' /\ LifeInv'
        /\ state' \in [Thread -> State] /\ alive' \subseteq Thread
        /\ \A u \in Thread : state'[u] = "running" <=> state[u] = "running"
    <2>1. ~Top("SuspendThread")
      BY <1>1 DEF Top
    <2>. QED BY <1>5, <2>1, ReapKept DEF Joined, prioVars, linkVars, mutexVars
  <1>7. TypeOK'
    BY <1>4, <1>5, <1>6 DEF TypeOK
  <1>8. FiberInv'
    <2>1. (\A u \in Thread \ {active} : Parting(u))'
      BY <1>4, <1>5, PartedKept
    <2>. QED BY <1>2, <1>4, <1>5, <1>6, <2>1, ExecutingRest, StillExecuting DEF ctxVars, FiberInv
  <1>. QED BY <1>6, <1>7, <1>8

\* OSDetachThread.
LEMMA DetachThreadStep ==
  ASSUME Good, NEW t \in Thread, DetachThread(t), UNCHANGED game
  PROVE  Good'
  <1>. USE DEF Good
  <1>1. Executing /\ stack[active] = <<>>
    BY ModeOf DEF DetachThread, GuestCalls, GuestCode
  <1>. DEFINE f == Frame("WakeupThread", JoinQ(t))
              s == <<f>> \o Rest
  <1>2. f \in FrameType /\ f.call \in Quiet
    BY Frames, Addresses DEF Quiet
  <1>3. stack' = [stack EXCEPT ![active] = s]
    BY DEF DetachThread, Continue
  <1>. HIDE DEF f
  <1>4. s \in Seq(FrameType) /\ Plain(active, s)
    BY <1>1, <1>2, ExecutingRest, PushedFrame
  <1>. HIDE DEF s
  <1>5. /\ stack' \in [Thread -> Seq(FrameType)] /\ stack'[active] = s
        /\ \A u \in Thread \ {active} : stack'[u] = stack[u]
    BY <1>3, <1>4, ContinueStack
  <1>6. UNCHANGED <<suspend, prio, base, q, queue, pending, owner, count, held, waitMutex, disabled,
                    running, current, active, curGuest, dead, timers, resched>>
        /\ detached' \in [Thread -> BOOLEAN]
    BY DEF DetachThread, prioVars, linkVars, mutexVars, ctxVars, fiberVars, TypeOK
  <1>7. /\ QueueInv' /\ LifeInv'
        /\ state' \in [Thread -> State] /\ alive' \subseteq Thread
        /\ \A u \in Thread : state'[u] = "running" <=> state[u] = "running"
    <2>1. ~Top("SuspendThread")
      BY <1>1 DEF Top
    <2>. QED BY <1>6, <2>1, ReapKept DEF DetachThread, prioVars, linkVars, mutexVars
  <1>8. TypeOK'
    BY <1>5, <1>6, <1>7 DEF TypeOK
  <1>9. FiberInv'
    <2>1. (\A u \in Thread \ {active} : Parting(u))'
      BY <1>5, <1>6, PartedKept
    <2>. QED BY <1>1, <1>4, <1>5, <1>6, <1>7, <2>1, ExecutingRest, StillExecuting
             DEF ctxVars, FiberInv
  <1>. QED BY <1>7, <1>8, <1>9

\* OSJoinThread.
LEMMA JoinThreadStep ==
  ASSUME Good, NEW t \in Thread, JoinThread(t), UNCHANGED game
  PROVE  Good'
  <1>. USE DEF Good
  <1>1. Executing /\ stack[active] = <<>>
    BY ModeOf DEF JoinThread, GuestCalls, GuestCode
  <1>. DEFINE f == Frame("SleepThread", JoinQ(t))
              g == Frame("Joined", t)
              s == <<f>> \o (<<g>> \o Rest)
  <1>2. /\ f \in FrameType /\ g \in FrameType
        /\ PlainFrame(active, f) /\ PlainFrame(active, g)
    BY Frames, Addresses DEF PlainFrame
  <1>3. stack' = stack \/ stack' = [stack EXCEPT ![active] = s]
    <2>1. <<f, g>> \o Rest = s
      BY <1>1, <1>2, ExecutingRest, Pushes
    <2>. QED BY <2>1 DEF JoinThread, Continue
  <1>. HIDE DEF f, g
  <1>4. s \in Seq(FrameType) /\ Plain(active, s)
    <2>1. <<g>> \o Rest \in Seq(FrameType) /\ Plain(active, <<g>> \o Rest)
      BY <1>1, <1>2, ExecutingRest, ConsSeq, PlainCons
    <2>. QED BY <1>2, <2>1, ConsSeq, PlainCons
  <1>. HIDE DEF s
  <1>5. /\ stack' \in [Thread -> Seq(FrameType)]
        /\ Plain(active, stack'[active])
        /\ \A u \in Thread \ {active} : stack'[u] = stack[u]
    BY <1>1, <1>3, <1>4, ContinueStack DEF TypeOK, Executing
  <1>6. UNCHANGED <<suspend, prio, base, q, queue, pending, owner, count, held, waitMutex, disabled,
                    running, current, active, curGuest, dead, detached, timers, resched>>
    BY DEF JoinThread, prioVars, linkVars, mutexVars, ctxVars, fiberVars
  <1>7. /\ QueueInv' /\ LifeInv'
        /\ state' \in [Thread -> State] /\ alive' \subseteq Thread
        /\ \A u \in Thread : state'[u] = "running" <=> state[u] = "running"
    <2>1. ~Top("SuspendThread")
      BY <1>1 DEF Top
    <2>. QED BY <1>6, <2>1, ReapKept DEF JoinThread, prioVars, linkVars, mutexVars
  <1>8. TypeOK'
    BY <1>5, <1>6, <1>7 DEF TypeOK
  <1>9. FiberInv'
    <2>1. (\A u \in Thread \ {active} : Parting(u))'
      BY <1>5, <1>6, PartedKept
    <2>. QED BY <1>1, <1>5, <1>6, <1>7, <2>1, ExecutingRest, StillExecuting DEF ctxVars, FiberInv
  <1>. QED BY <1>7, <1>8, <1>9

\* What arming a timer does to the calls that have begun.
LEMMA NotDueKeeps ==
  ASSUME NEW s \in Seq(FrameType), NEW t \in Thread, NEW u
  PROVE  /\ NotDue(s, t) \in Seq(FrameType)
         /\ Plain(u, s) => Plain(u, NotDue(s, t))
         /\ NotDue(s, t) # <<>> => s # <<>> /\ Head(NotDue(s, t)).call = Head(s).call
  <1>. DEFINE n == NotDue(s, t)
  <1>1. DOMAIN s = 1 .. Len(s) /\ Len(s) \in Nat /\ \A i \in DOMAIN s : s[i] \in FrameType
    BY LenProperties
  <1>2. \A i \in DOMAIN s : n[i] \in FrameType /\ n[i].call = s[i].call
                            /\ (s[i].call # "ProcessSleepTimers" => n[i] = s[i])
    <2>. SUFFICES ASSUME NEW i \in DOMAIN s
                  PROVE  n[i] \in FrameType /\ n[i].call = s[i].call
                         /\ (s[i].call # "ProcessSleepTimers" => n[i] = s[i])
      OBVIOUS
    <2>1. CASE s[i].call = "ProcessSleepTimers"
      <3>1. n[i] = Frame("ProcessSleepTimers", s[i].arg \ {t})
        BY <2>1 DEF NotDue
      <3>2. s[i].arg \ {t} \in SUBSET Thread
        BY <1>1, <2>1, FrameArgs
      <3>. QED BY <2>1, <3>1, <3>2, Frames
    <2>2. CASE s[i].call # "ProcessSleepTimers"
      BY <1>1, <2>2 DEF NotDue
    <2>. QED BY <2>1, <2>2
  <1>3. n \in [1 .. Len(s) -> FrameType]
    BY <1>1, <1>2 DEF NotDue
  <1>. HIDE DEF n
  <1>4. n \in Seq(FrameType) /\ Len(n) = Len(s) /\ DOMAIN n = 1 .. Len(s)
    BY <1>1, <1>3, SeqDef, LenProperties
  <1>5. Plain(u, s) => Plain(u, n)
    <2>. SUFFICES ASSUME Plain(u, s), NEW i \in DOMAIN n PROVE PlainFrame(u, n[i])
      BY DEF Plain
    <2>1. PlainFrame(u, s[i]) /\ n[i].call = s[i].call
          /\ (s[i].call # "ProcessSleepTimers" => n[i] = s[i])
      BY <1>1, <1>2, <1>4 DEF Plain
    <2>. QED BY <2>1 DEF PlainFrame
  <1>6. n # <<>> => s # <<>> /\ Head(n).call = Head(s).call
    <2>. SUFFICES ASSUME n # <<>> PROVE s # <<>> /\ Head(n).call = Head(s).call
      OBVIOUS
    <2>1. Len(s) # 0
      BY <1>4, EmptySeq
    <2>2. s # <<>> /\ 1 \in DOMAIN s
      BY <1>1, <2>1, EmptySeq
    <2>3. Head(n) = n[1] /\ Head(s) = s[1]
      BY <1>4, <2>2, HeadTailProperties
    <2>. QED BY <1>2, <2>2, <2>3
  <1>. QED BY <1>4, <1>5, <1>6 DEF n

\* OSSleepTicks arms its timer before it suspends itself.
LEMMA SleepTicksStep ==
  ASSUME Good, NEW t \in Thread, SleepTicks(t), UNCHANGED game
  PROVE  Good'
  <1>. USE DEF Good
  <1>1. Executing /\ stack[active] = <<>>
    BY ModeOf DEF SleepTicks, GuestCalls, GuestCode
  <1>2. t = active
    BY <1>1, ExecutingRest DEF SleepTicks, FiberInv
  <1>. DEFINE f == Frame("SuspendThread", t)
              g == Frame("TickWoken", t)
              r == <<g>> \o <<>>
              s == <<f>> \o r
  <1>3. /\ f \in FrameType /\ g \in FrameType /\ PlainFrame(active, g)
        /\ f.call = "SuspendThread" /\ f.arg = t
    BY <1>2, Frames DEF PlainFrame
  <1>. HIDE DEF f, g
  <1>4. <<>> \in Seq(FrameType) /\ Plain(active, <<>>)
    BY EmptyStack
  <1>5. r \in Seq(FrameType) /\ Plain(active, r)
    BY <1>3, <1>4, ConsSeq, PlainCons
  <1>6. <<f, g>> = s
    <2>1. <<f, g>> \o <<>> = s
      BY <1>3, <1>4, Pushes
    <2>2. <<f, g>> \in Seq(FrameType)
      BY <1>3
    <2>. QED BY <2>1, <2>2, ConcatEmptySeq
  <1>. HIDE DEF r
  <1>7. s \in Seq(FrameType) /\ s # <<>> /\ Head(s) = f /\ Tail(s) = r
    BY <1>3, <1>5, ConsSeq
  <1>8. stack' = [u \in Thread |-> IF u = active THEN s ELSE NotDue(stack[u], t)]
    BY <1>6 DEF SleepTicks, f, g
  <1>. HIDE DEF s
  <1>9. UNCHANGED <<state, suspend, prio, base, q, queue, pending, owner, count, held, waitMutex,
                    disabled, running, current, active, curGuest, dead, detached, alive, resched>>
        /\ timers' = timers \cup {t}
    BY DEF SleepTicks, prioVars, linkVars, mutexVars, ctxVars, fiberVars
  <1>10. stack' \in [Thread -> Seq(FrameType)] /\ stack'[active] = s
    <2>1. \A u \in Thread : stack[u] \in Seq(FrameType)
      BY DEF TypeOK
    <2>. QED BY <1>1, <1>7, <1>8, <2>1, NotDueKeeps, ExecutingRest
  <1>11. TypeOK'
    BY <1>9, <1>10 DEF TypeOK
  <1>12. QueueInv'
    BY <1>9, QueueKept
  <1>13. (\A u \in Thread \ {active} : Parting(u))'
    <2>. SUFFICES ASSUME NEW u \in Thread \ {active} PROVE Parting(u)'
      BY <1>9
    <2>1. stack[u] \in Seq(FrameType) /\ stack'[u] = NotDue(stack[u], t)
      BY <1>8 DEF TypeOK
    <2>2. Parting(u)
      BY DEF FiberInv
    <2>3. /\ Plain(u, stack[u]) => Plain(u, stack'[u])
          /\ stack'[u] # <<>> => stack[u] # <<>> /\ Head(stack'[u]).call = Head(stack[u]).call
      BY <2>1, NotDueKeeps
    <2>. QED BY <2>2, <2>3 DEF Parting
  <1>14. Arming'
    <2>1. disabled = 0
      BY DEF SleepTicks
    <2>2. Rest' = r
      BY <1>7, <1>9, <1>10 DEF Rest
    <2>3. Top("SuspendThread")' /\ Arg' = active
      BY <1>2, <1>3, <1>7, <1>9, <1>10 DEF Top, Arg
    <2>. QED BY <1>1, <1>5, <1>9, <2>1, <2>2, <2>3 DEF Arming, Executing
  <1>15. FiberInv'
    BY <1>9, <1>13, <1>14 DEF FiberInv
  <1>16. LifeInv'
    <2>1. ~Top("SuspendThread")
      BY <1>1 DEF Top
    <2>2. \A u \in timers' : suspend'[u] > 0 \/ Terminated(u)' \/ (Arming /\ u = active)'
      BY <1>2, <1>9, <1>14, <2>1, NotArming DEF Terminated
    <2>. QED BY <1>9, <2>2, LifeKept DEF LifeInv
  <1>. QED BY <1>11, <1>12, <1>15, <1>16

\* OSLockMutex, taken or found locked.
LEMMA LockMutexStep ==
  ASSUME Good, NEW t \in Thread, NEW m \in Mutex, LockMutex(t, m), UNCHANGED game
  PROVE  Good'
  <1>. USE DEF Good
  <1>1. Executing /\ ~Top("SuspendThread") /\ t = active
    <2>1. CASE GuestCalls("LockMutex") /\ running = t
      BY <2>1, ModeOf, ExecutingRest DEF GuestCalls, GuestCode, Top
    <2>2. CASE Top("LockMutex") /\ Arg = <<t, m>>
      <3>1. stack[active] # <<>> /\ Head(stack[active]).call = "LockMutex"
        BY <2>2 DEF Top
      <3>2. Executing
        BY <3>1, ModeOf DEF Quiet, Selecting
      <3>3. PlainFrame(active, Head(stack[active]))
        BY <3>1, <3>2, ModeOf
      <3>. QED BY <2>2, <3>1, <3>2, <3>3 DEF PlainFrame, Arg, Top
    <2>. QED BY <2>1, <2>2 DEF LockMutex
  <1>2. UNCHANGED <<state, suspend, prio, base, q, queue, pending,
                    disabled, running, current, active, curGuest, dead, detached, alive, resched,
                    timers>>
    BY DEF LockMutex, prioVars, linkVars, ctxVars, fiberVars
  <1>3. /\ owner' \in [Mutex -> Thread \cup {None}] /\ count' \in [Mutex -> Nat]
        /\ held' \in [Thread -> Seq(Mutex)] /\ waitMutex' \in [Thread -> Mutex \cup {None}]
        /\ \A n \in Mutex : count'[n] > 0 <=> owner'[n] # None
    <2>0. /\ count \in [Mutex -> Nat] /\ owner \in [Mutex -> Thread \cup {None}]
          /\ held \in [Thread -> Seq(Mutex)] /\ waitMutex \in [Thread -> Mutex \cup {None}]
          /\ t # None /\ \A n \in Mutex : count[n] > 0 <=> owner[n] # None
      BY ConstantsAssumption DEF TypeOK, LifeInv
    <2>1. CASE /\ owner[m] = None
               /\ owner' = [owner EXCEPT ![m] = t]
               /\ count' = [count EXCEPT ![m] = @ + 1]
               /\ held' = [held EXCEPT ![t] = Append(@, m)]
               /\ waitMutex' = [waitMutex EXCEPT ![t] = None]
      <3>1. held[t] \in Seq(Mutex) /\ Append(held[t], m) \in Seq(Mutex)
        BY DEF TypeOK
      <3>2. \A n \in Mutex : count'[n] > 0 <=> owner'[n] # None
        BY ONLY <2>0, <2>1, m \in Mutex
      <3>3. /\ owner' \in [Mutex -> Thread \cup {None}] /\ count' \in [Mutex -> Nat]
            /\ waitMutex' \in [Thread -> Mutex \cup {None}]
        BY ONLY <2>0, <2>1, m \in Mutex, t \in Thread
      <3>. QED BY <2>0, <2>1, <3>1, <3>2, <3>3
    <2>2. CASE /\ owner[m] = t
               /\ count' = [count EXCEPT ![m] = @ + 1]
               /\ waitMutex' = [waitMutex EXCEPT ![t] = None]
               /\ UNCHANGED <<owner, held>>
      <3>1. /\ \A n \in Mutex : count'[n] > 0 <=> owner'[n] # None
            /\ count' \in [Mutex -> Nat] /\ waitMutex' \in [Thread -> Mutex \cup {None}]
        BY ONLY <2>0, <2>2, m \in Mutex, t \in Thread
      <3>. QED BY <2>0, <2>2, <3>1
    <2>3. CASE waitMutex' = [waitMutex EXCEPT ![t] = m] /\ UNCHANGED mutexVars
      BY <2>3 DEF TypeOK, mutexVars, LifeInv
    <2>. QED BY <2>1, <2>2, <2>3 DEF LockMutex
  <1>4. /\ stack' \in [Thread -> Seq(FrameType)] /\ Plain(active, stack'[active])
        /\ \A u \in Thread \ {active} : stack'[u] = stack[u]
    <2>1. CASE Return
      <3>1. stack' = [stack EXCEPT ![active] = Rest]
        BY <1>1, <2>1, ExecutingRest, ConcatEmptySeq DEF Return, Continue
      <3>. QED BY <1>1, <3>1, ExecutingRest, ContinueStack
    <2>2. CASE /\ owner[m] \notin {None, t}
               /\ Continue(<<Frame("Promote", <<owner[m], prio[t]>>),
                             Frame("SleepThread", MutexQ(m)), Frame("LockMutex", <<t, m>>)>>, Rest)
      <3>. DEFINE f == Frame("Promote", <<owner[m], prio[t]>>)
                  g == Frame("SleepThread", MutexQ(m))
                  h == Frame("LockMutex", <<t, m>>)
                  a == <<h>> \o Rest
                  b == <<g>> \o a
                  c == <<f>> \o b
      <3>1. owner[m] \in Thread /\ prio[t] \in AnyPriority
        BY <2>2 DEF TypeOK
      <3>2. f \in FrameType /\ PlainFrame(active, f)
        BY <3>1, Frames DEF PlainFrame
      <3>3. g \in FrameType /\ PlainFrame(active, g)
        BY Frames, Addresses DEF PlainFrame
      <3>4. h \in FrameType /\ PlainFrame(active, h)
        BY <1>1, Frames DEF PlainFrame
      <3>. HIDE DEF f, g, h
      <3>5. stack' = [stack EXCEPT ![active] = c]
        <4>0. Rest \in Seq(FrameType)
          BY TopFrame
        <4>1. <<f, g, h>> \o Rest = c
          BY <3>2, <3>3, <3>4, <4>0, ThreeFrames
        <4>. QED BY <2>2, <4>1 DEF Continue, f, g, h
      <3>6. a \in Seq(FrameType) /\ Plain(active, a)
        BY <1>1, <3>4, ExecutingRest, ConsSeq, PlainCons
      <3>. HIDE DEF a
      <3>7. b \in Seq(FrameType) /\ Plain(active, b)
        BY <3>3, <3>6, ConsSeq, PlainCons
      <3>. HIDE DEF b
      <3>8. c \in Seq(FrameType) /\ Plain(active, c)
        BY <3>2, <3>7, ConsSeq, PlainCons
      <3>. HIDE DEF c
      <3>. QED BY <3>5, <3>8, ContinueStack
    <2>. QED BY <2>1, <2>2 DEF LockMutex
  <1>5. TypeOK'
    BY <1>2, <1>3, <1>4 DEF TypeOK
  <1>6. QueueInv'
    BY <1>2, QueueKept
  <1>7. FiberInv'
    <2>1. (\A u \in Thread \ {active} : Parting(u))'
      BY <1>2, <1>4, PartedKept
    <2>. QED BY <1>1, <1>2, <1>4, <2>1, ExecutingRest, StillExecuting DEF ctxVars, FiberInv
  <1>8. LifeInv'
    <2>1. \A u \in timers' : suspend'[u] > 0 \/ Terminated(u)'
      BY <1>1, <1>2, NotArming DEF Terminated
    <2>. QED BY <1>2, <1>3, <2>1, LifeKept
  <1>. QED BY <1>5, <1>6, <1>7, <1>8

\* The priority that SetThreadEffectivePriority gets, of any waiters.
LEMMA EffectivePriority ==
  ASSUME TypeOK, NEW t \in Thread, NEW ms \in Seq(Mutex)
  PROVE  Effective(t, ms) \in Priority
  <1>. DEFINE W == {m \in Range(ms) : q[MutexQ(m)] # <<>>}
              S == {base[t]} \cup {prio[Head(q[MutexQ(m)])] : m \in W}
  <1>1. ASSUME NEW m \in W PROVE prio[Head(q[MutexQ(m)])] \in Nat
    <2>1. m \in Mutex
      BY DEF Range
    <2>2. q[MutexQ(m)] \in Seq(Thread) /\ q[MutexQ(m)] # <<>>
      BY <2>1, Addresses DEF TypeOK
    <2>3. Head(q[MutexQ(m)]) \in Thread
      BY <2>2, HeadTail
    <2>4. prio \in [Thread -> AnyPriority] /\ AnyPriority \subseteq Nat
      BY ConstantsAssumption DEF TypeOK, AnyPriority, SuspendedWait
    <2>. QED BY <2>3, <2>4
  <1>2. base[t] \in Nat /\ base[t] <= Low
    BY ConstantsAssumption DEF TypeOK, Priority
  <1>. HIDE DEF W
  <1>3. S \in SUBSET Nat /\ base[t] \in S
    BY <1>1, <1>2
  <1>4. Effective(t, ms) = Min(S)
    BY DEF Effective, W
  <1>. HIDE DEF S
  <1>5. Min(S) \in Nat /\ Min(S) <= base[t]
    BY <1>3, LeastNatural
  <1>. QED BY <1>2, <1>4, <1>5, ConstantsAssumption DEF Priority

\* The priorities of threads, and of those that are suspended.
LEMMA PriorityFacts ==
  Priority \subseteq AnyPriority /\ AnyPriority \subseteq Nat /\ SuspendedWait \in AnyPriority
  BY ConstantsAssumption DEF Priority, AnyPriority, SuspendedWait

\* The queue a thread belongs in, by its state.
LEMMA HomeFacts ==
  ASSUME TypeOK, QueueInv
  PROVE  /\ Home \in [Thread -> Queue \cup {None}]
         /\ \A t \in Thread : Home[t] # None <=> \/ state[t] = "waiting"
                                                 \/ state[t] = "ready" /\ suspend[t] = 0
         /\ \A t \in Thread : Home[t] # None => Home[t] = queue[t]
         /\ \A t \in Thread : state[t] = "waiting" => Home[t] = queue[t] /\ queue[t] \in BlockQueues
         /\ \A t \in Thread : state[t] = "ready" /\ suspend[t] = 0 =>
                                 Home[t] = RunQ(prio[t]) /\ prio[t] \in Priority
         /\ \A p : \A t \in Thread : Home[t] = RunQ(p) /\ p \in Priority => prio[t] = p
  <1>1. \A t \in Thread : state[t] = "ready" /\ suspend[t] = 0 => prio[t] \in Priority
    BY DEF QueueInv, Terminated
  <1>2. \A t \in Thread : state[t] = "waiting" => queue[t] \in BlockQueues
    BY DEF QueueInv
  <1>3. \A p \in Priority : RunQ(p) \in Queue \ BlockQueues
    BY Addresses
  <1>4. BlockQueues \subseteq Queue /\ None \notin Queue
    BY Addresses, QueueAssumption
  <1>5. ASSUME NEW t \in Thread
        PROVE  Home[t] = IF state[t] = "waiting" THEN queue[t]
                         ELSE IF state[t] = "ready" /\ suspend[t] = 0 THEN RunQ(prio[t])
                         ELSE None
    BY DEF Home
  <1>6. Home \in [Thread -> Queue \cup {None}]
    <2>1. \A t \in Thread : Home[t] \in Queue \cup {None}
      BY <1>1, <1>2, <1>3, <1>4, <1>5
    <2>2. Home = [t \in Thread |-> Home[t]]
      BY DEF Home
    <2>. QED BY <2>1, <2>2
  <1>7. \A t \in Thread : Home[t] # None => Home[t] = queue[t]
    BY DEF QueueInv
  <1>8. \A p : \A t \in Thread : Home[t] = RunQ(p) /\ p \in Priority => prio[t] = p
    BY <1>2, <1>3, <1>4, <1>5, Addresses
  <1>. HIDE DEF Home
  <1>. QED BY <1>1, <1>2, <1>3, <1>4, <1>5, <1>6, <1>7, <1>8

\* Priorities change of threads in no queue.
LEMMA PrioKept ==
  ASSUME TypeOK, QueueInv, UNCHANGED <<q, pending, queue, state, suspend>>,
         \A t \in Thread : \/ prio'[t] = prio[t]
                           \/ prio'[t] \in Priority /\ Home[t] = None
  PROVE  QueueInv'
  <1>1. \A t \in Thread : Home[t] # None <=> \/ state[t] = "waiting"
                                             \/ state[t] = "ready" /\ suspend[t] = 0
    BY HomeFacts
  <1>2. Home' = Home
    <2>1. \A t \in Thread : state[t] = "ready" /\ suspend[t] = 0 => prio'[t] = prio[t]
      BY <1>1
    <2>. QED BY <2>1 DEF Home
  <1>3. Queues(q, pending, Home, prio')
    <2>1. Queues(q, pending, Home, prio)
      BY DEF QueueInv
    <2>2. \A u \in Thread : Home[u] # None => prio'[u] = prio[u]
      OBVIOUS
    <2>. QED BY <2>1, <2>2, RankOfUnlinked
  <1>4. Queues(q, pending, Home, prio)'
    BY <1>2, <1>3 DEF Queues
  <1>5. (\A t \in Thread : state[t] = "waiting" => queue[t] \in BlockQueues)'
    BY DEF QueueInv
  <1>6. (\A t \in Thread : Home[t] # None => queue[t] = Home[t])'
    BY <1>2 DEF QueueInv
  <1>7. (\A t \in Thread : suspend[t] = 0 /\ ~Terminated(t) => prio[t] \in Priority)'
    BY DEF QueueInv, Terminated
  <1>. QED BY <1>4, <1>5, <1>6, <1>7 DEF QueueInv

\* OSUnlockMutex, and the priority its owner falls back to.
LEMMA UnlockMutexStep ==
  ASSUME Good, NEW m \in Mutex, UnlockMutex(m), UNCHANGED game
  PROVE  Good'
  <1>. USE DEF Good
  <1>1. Executing /\ stack[active] = <<>>
    BY ModeOf DEF UnlockMutex, GuestCalls, GuestCode
  <1>2. running = active /\ active \in Thread /\ state[active] = "running" /\ owner[m] = active
    BY <1>1, ExecutingRest DEF UnlockMutex
  <1>3. UNCHANGED <<state, suspend, base, q, queue, pending, waitMutex, resched,
                    disabled, running, current, active, curGuest, dead, detached, alive, timers>>
    BY DEF UnlockMutex, linkVars, ctxVars, fiberVars
  <1>4. count[m] \in Nat /\ count[m] > 0
    <2>1. owner[m] # None
      BY <1>2, ConstantsAssumption
    <2>. QED BY <2>1 DEF LifeInv, TypeOK
  <1>5. /\ owner' \in [Mutex -> Thread \cup {None}] /\ count' \in [Mutex -> Nat]
        /\ held' \in [Thread -> Seq(Mutex)]
        /\ \A n \in Mutex : count'[n] > 0 <=> owner'[n] # None
        /\ prio' \in [Thread -> AnyPriority]
        /\ \A t \in Thread : prio'[t] = prio[t] \/ (t = active /\ prio'[t] \in Priority)
        /\ stack' \in [Thread -> Seq(FrameType)] /\ Plain(active, stack'[active])
        /\ \A u \in Thread \ {active} : stack'[u] = stack[u]
    <2>0. /\ count \in [Mutex -> Nat] /\ owner \in [Mutex -> Thread \cup {None}]
          /\ held \in [Thread -> Seq(Mutex)] /\ prio \in [Thread -> AnyPriority]
          /\ stack \in [Thread -> Seq(FrameType)]
          /\ \A n \in Mutex : count[n] > 0 <=> owner[n] # None
          /\ count' = [count EXCEPT ![m] = @ - 1]
      BY DEF TypeOK, LifeInv, UnlockMutex
    <2>1. CASE count[m] > 1
      <3>1. UNCHANGED <<owner, held, prio, stack>>
        BY <2>1 DEF UnlockMutex
      <3>2. Plain(active, stack[active])
        BY <1>1 DEF Executing
      <3>3. /\ \A n \in Mutex : count'[n] > 0 <=> owner[n] # None
            /\ count' \in [Mutex -> Nat]
        BY ONLY <1>4, <2>0, <2>1, m \in Mutex
      <3>. QED BY <2>0, <3>1, <3>2, <3>3
    <2>2. CASE ~(count[m] > 1)
      <3>. DEFINE rest == HeldWithout(active, m)
                  f == Frame("WakeupThread", MutexQ(m))
                  s == <<f>> \o Rest
      <3>1. rest \in Seq(Mutex)
        BY <1>2, <2>0, RemovedSeq DEF HeldWithout
      <3>2. Effective(active, rest) \in Priority
        BY <1>2, <3>1, EffectivePriority
      <3>. HIDE DEF rest
      <3>3. /\ owner' = [owner EXCEPT ![m] = None]
            /\ held' = [held EXCEPT ![active] = rest]
            /\ prio' = IF prio[active] < base[active]
                       THEN [prio EXCEPT ![active] = Effective(active, rest)]
                       ELSE prio
            /\ stack' = [stack EXCEPT ![active] = s]
        BY <1>2, <2>2 DEF UnlockMutex, Continue, rest
      <3>4. f \in FrameType /\ f.call \in Quiet
        BY Frames, Addresses DEF Quiet
      <3>. HIDE DEF f
      <3>5. s \in Seq(FrameType) /\ Plain(active, s)
        BY <1>1, <3>4, ExecutingRest, PushedFrame
      <3>. HIDE DEF s
      <3>6. /\ stack' \in [Thread -> Seq(FrameType)] /\ stack'[active] = s
            /\ \A u \in Thread \ {active} : stack'[u] = stack[u]
        BY <3>3, <3>5, ContinueStack
      <3>7. /\ \A n \in Mutex : count'[n] > 0 <=> owner'[n] # None
            /\ count' \in [Mutex -> Nat] /\ owner' \in [Mutex -> Thread \cup {None}]
        BY ONLY <1>4, <2>0, <2>2, <3>3, m \in Mutex
      <3>8. held' \in [Thread -> Seq(Mutex)]
        BY <2>0, <3>1, <3>3
      <3>9. /\ prio' \in [Thread -> AnyPriority]
            /\ \A t \in Thread : prio'[t] = prio[t] \/ (t = active /\ prio'[t] \in Priority)
        BY <1>2, <2>0, <3>2, <3>3, PriorityFacts
      <3>. QED BY <3>5, <3>6, <3>7, <3>8, <3>9
    <2>. QED BY <2>1, <2>2
  <1>6. TypeOK'
    BY <1>3, <1>5 DEF TypeOK
  <1>7. QueueInv'
    <2>1. Home[active] = None
      BY <1>2 DEF Home
    <2>. QED BY <1>3, <1>5, <2>1, PrioKept
  <1>8. FiberInv'
    <2>1. (\A u \in Thread \ {active} : Parting(u))'
      BY <1>3, <1>5, PartedKept
    <2>. QED BY <1>1, <1>3, <1>5, <2>1, ExecutingRest, StillExecuting DEF ctxVars, FiberInv
  <1>9. LifeInv'
    <2>1. ~Top("SuspendThread")
      BY <1>1 DEF Top
    <2>2. \A u \in timers' : suspend'[u] > 0 \/ Terminated(u)'
      BY <1>3, <2>1, NotArming DEF Terminated
    <2>. QED BY <1>3, <1>5, <2>2, LifeKept
  <1>. QED BY <1>6, <1>7, <1>8, <1>9

\* A thread is taken out of its queue and sorted in by its new priority.
LEMMA RelinkKept ==
  ASSUME TypeOK, QueueInv, NEW t \in Thread, NEW x \in Queue, NEW p \in AnyPriority,
         Relink(t, x, p), UNCHANGED state,
         \A u \in Thread \ {t} : suspend'[u] = suspend[u],
         \/ state[t] = "waiting" /\ x = queue[t] /\ (suspend'[t] = 0 => p \in Priority)
         \/ state[t] = "ready" /\ suspend[t] = 0 /\ suspend'[t] = 0 /\ p \in Priority /\ x = RunQ(p)
  PROVE  /\ QueueInv'
         /\ q' \in [Queue -> Seq(Thread)] /\ pending' \subseteq Priority
         /\ queue' \in [Thread -> Queue \cup {None}] /\ prio' \in [Thread -> AnyPriority]
  <1>1. /\ Home \in [Thread -> Queue \cup {None}] /\ Home[t] # None /\ queue[t] = Home[t]
        /\ \A u \in Thread : state[u] = "waiting" => queue[u] \in BlockQueues
        /\ \A u \in Thread : Home[u] # None => Home[u] = queue[u]
    BY HomeFacts
  <1>2. /\ prio \in [Thread -> Nat] /\ prio' \in [Thread -> Nat] /\ prio'[t] = p
        /\ \A u \in Thread \ {t} : prio'[u] = prio[u]
        /\ prio' \in [Thread -> AnyPriority]
    BY PriorityFacts DEF Relink, TypeOK
  <1>3. x # None
    BY QueueAssumption
  <1>4. /\ q' = Link(Unlinked(t), t, x, prio'[t])
        /\ pending' = Unmarked(t) \cup Mark(x)
        /\ queue' = [queue EXCEPT ![t] = x]
    BY <1>2, <1>3 DEF Relink
  <1>. DEFINE gone == [Home EXCEPT ![t] = None]
              to == [Home EXCEPT ![t] = x]
  <1>5. Queues(Unlinked(t), Unmarked(t), gone, prio')
    <2>1. Queues(q, pending, Home, prio)
      BY DEF QueueInv
    <2>. HIDE DEF Home
    <2>. QED BY <1>1, <1>2, <2>1, TakenOut
  <1>6. /\ gone \in [Thread -> Queue \cup {None}] /\ gone[t] = None
        /\ [gone EXCEPT ![t] = x] = to
    <2>. HIDE DEF Home
    <2>. QED BY <1>1
  <1>7. Queues(q', pending', to, prio')
    <2>. HIDE DEF gone, Home
    <2>1. \A u \in Thread \ {t} : prio'[u] = prio[u]
      BY <1>2
    <2>2. Queues(Link(Unlinked(t), t, x, prio'[t]), Unmarked(t) \cup Mark(x),
                 [gone EXCEPT ![t] = x], prio')
      BY <1>2, <1>5, <1>6, <2>1, PutIn
    <2>. QED BY <1>4, <1>6, <2>2
  <1>8. Home' = to
    <2>1. \A u \in Thread \ {t} : queue'[u] = queue[u] /\ prio'[u] = prio[u]
      BY <1>2, <1>4 DEF TypeOK
    <2>2. queue'[t] = x /\ prio'[t] = p
      BY <1>2, <1>4 DEF TypeOK
    <2>3. \A u \in Thread : Home'[u] = to[u]
      BY <2>1, <2>2 DEF Home
    <2>4. Home' = [u \in Thread |-> Home'[u]]
      BY DEF Home
    <2>5. to = [u \in Thread |-> to[u]]
      BY <1>1
    <2>. QED BY <2>3, <2>4, <2>5
  <1>9. Queues(q, pending, Home, prio)'
    BY <1>7, <1>8 DEF Queues
  <1>10. (\A u \in Thread : state[u] = "waiting" => queue[u] \in BlockQueues)'
    BY <1>1, <1>4 DEF TypeOK
  <1>11. (\A u \in Thread : Home[u] # None => queue[u] = Home[u])'
    <2>. HIDE DEF Home
    <2>. QED BY <1>1, <1>4, <1>8 DEF TypeOK
  <1>12. (\A u \in Thread : suspend[u] = 0 /\ ~Terminated(u) => prio[u] \in Priority)'
    BY <1>2 DEF QueueInv, Terminated
  <1>13. /\ q' \in [Queue -> Seq(Thread)] /\ pending' \subseteq Priority
         /\ queue' \in [Thread -> Queue \cup {None}]
    BY <1>4, <1>7 DEF Queues, TypeOK
  <1>. QED BY <1>2, <1>9, <1>10, <1>11, <1>12, <1>13 DEF QueueInv

\* SetThreadEffectivePriority moves a thread to where its new priority belongs.
LEMMA PriorityKept ==
  ASSUME TypeOK, QueueInv, NEW t \in Thread, NEW p \in AnyPriority,
         SetThreadEffectivePriority(t, p), UNCHANGED <<state, suspend>>,
         suspend[t] = 0, ~Terminated(t) => p \in Priority
  PROVE  /\ QueueInv'
         /\ q' \in [Queue -> Seq(Thread)] /\ pending' \subseteq Priority
         /\ queue' \in [Thread -> Queue \cup {None}] /\ prio' \in [Thread -> AnyPriority]
         /\ resched' \in BOOLEAN /\ (resched => resched')
  <1>1. CASE state[t] = "ready" /\ Relink(t, RunQ(p), p) /\ resched' = TRUE
    <2>1. p \in Priority /\ RunQ(p) \in Queue
      BY <1>1, Addresses DEF Terminated
    <2>. QED BY <1>1, <2>1, RelinkKept
  <1>2. CASE /\ state[t] = "running"
             /\ prio' = [prio EXCEPT ![t] = p]
             /\ resched' = TRUE
             /\ UNCHANGED linkVars
    <2>1. p \in Priority /\ Home[t] = None
      BY <1>2 DEF Terminated, Home
    <2>2. QueueInv'
      BY <1>2, <2>1, PrioKept DEF TypeOK, linkVars
    <2>. QED BY <1>2, <2>2 DEF TypeOK, linkVars
  <1>3. CASE state[t] = "waiting" /\ Relink(t, queue[t], p) /\ UNCHANGED resched
    <2>1. p \in Priority /\ queue[t] \in Queue
      BY <1>3, HomeFacts, Addresses DEF Terminated
    <2>. QED BY <1>3, <2>1, RelinkKept DEF TypeOK
  <1>4. CASE Terminated(t) /\ UNCHANGED <<prio, linkVars, resched>>
    BY <1>4, QueueKept DEF TypeOK, linkVars
  <1>. QED BY <1>1, <1>2, <1>3, <1>4 DEF SetThreadEffectivePriority

\* The owner of the mutex a thread waits for.
LEMMA OwnerType ==
  ASSUME TypeOK, NEW t \in Thread
  PROVE  NextOwner(t) \in Thread \cup {None}
  BY DEF NextOwner, TypeOK

\* One step of the priority inheritance along the owners.
LEMMA PromoteStep ==
  ASSUME Good, NEW t \in Thread, NEW p \in AnyPriority, Promote(t, p), UNCHANGED game
  PROVE  Good'
  <1>. USE DEF Good
  <1>1. stack[active] # <<>> /\ Head(stack[active]).call = "Promote"
    BY DEF Promote, Top
  <1>2. Executing
    BY <1>1, ModeOf DEF Quiet, Selecting
  <1>3. UNCHANGED <<state, suspend, base, owner, count, held, waitMutex,
                    disabled, running, current, active, curGuest, dead, detached, alive, timers>>
    BY DEF Promote, mutexVars, ctxVars, fiberVars
  <1>4. /\ QueueInv'
        /\ q' \in [Queue -> Seq(Thread)] /\ pending' \subseteq Priority
        /\ queue' \in [Thread -> Queue \cup {None}] /\ prio' \in [Thread -> AnyPriority]
        /\ resched' \in BOOLEAN
    <2>1. CASE suspend[t] > 0 \/ prio[t] <= p
      <3>1. UNCHANGED <<prio, linkVars, resched>>
        BY <2>1 DEF Promote
      <3>. QED BY <1>3, <3>1, QueueKept DEF TypeOK, linkVars
    <2>2. CASE ~(suspend[t] > 0 \/ prio[t] <= p)
      <3>1. SetThreadEffectivePriority(t, p)
        BY <2>2 DEF Promote
      <3>2. suspend[t] = 0
        BY <2>2 DEF TypeOK
      <3>3. ASSUME ~Terminated(t) PROVE p \in Priority
        <4>1. prio[t] \in Priority
          BY <3>2, <3>3 DEF QueueInv
        <4>2. p \in Nat /\ prio[t] \in Nat
          BY <4>1, PriorityFacts
        <4>. QED BY <2>2, <4>1, <4>2, ConstantsAssumption DEF Priority
      <3>. QED BY <1>3, <3>1, <3>2, <3>3, PriorityKept
    <2>. QED BY <2>1, <2>2
  <1>5. /\ stack' \in [Thread -> Seq(FrameType)] /\ Plain(active, stack'[active])
        /\ \A u \in Thread \ {active} : stack'[u] = stack[u]
    <2>1. CASE stack' = [stack EXCEPT ![active] = Rest]
      BY <1>2, <2>1, ExecutingRest, ContinueStack
    <2>2. CASE /\ NextOwner(t) # None
               /\ Continue(<<Frame("Promote", <<NextOwner(t), p>>)>>, Rest)
      <3>. DEFINE f == Frame("Promote", <<NextOwner(t), p>>)
                  s == <<f>> \o Rest
      <3>1. f \in FrameType /\ PlainFrame(active, f)
        BY <2>2, OwnerType, Frames DEF PlainFrame
      <3>2. stack' = [stack EXCEPT ![active] = s]
        BY <2>2 DEF Continue
      <3>. HIDE DEF f
      <3>3. s \in Seq(FrameType) /\ Plain(active, s)
        BY <1>2, <3>1, ExecutingRest, ConsSeq, PlainCons
      <3>. HIDE DEF s
      <3>. QED BY <3>2, <3>3, ContinueStack
    <2>3. Rest \in Seq(FrameType) /\ <<>> \o Rest = Rest
      BY <1>2, ExecutingRest, ConcatEmptySeq
    <2>. QED BY <2>1, <2>2, <2>3 DEF Promote, Return, Continue
  <1>6. TypeOK'
    BY <1>3, <1>4, <1>5 DEF TypeOK
  <1>7. FiberInv'
    <2>1. (\A u \in Thread \ {active} : Parting(u))'
      BY <1>3, <1>5, PartedKept
    <2>. QED BY <1>2, <1>3, <1>5, <2>1, ExecutingRest, StillExecuting DEF ctxVars, FiberInv
  <1>8. LifeInv'
    <2>1. ~Top("SuspendThread")
      BY <1>1 DEF Top
    <2>2. \A u \in timers' : suspend'[u] > 0 \/ Terminated(u)'
      BY <1>3, <2>1, NotArming DEF Terminated
    <2>. QED BY <1>3, <2>2, LifeKept DEF LifeInv
  <1>. QED BY <1>4, <1>6, <1>7, <1>8

\* The priority inheritance starts, or ends.
LEMMA PropagateStep ==
  ASSUME Good, NEW t \in Thread, Propagate(t), UNCHANGED game
  PROVE  Good'
  <1>. USE DEF Good
  <1>1. /\ stack[active] # <<>> /\ Head(stack[active]).call = "Propagate"
        /\ Rest \in Seq(FrameType)
    BY TopFrame DEF Propagate, Top
  <1>2. UNCHANGED <<state, suspend, base, owner, count, held, waitMutex,
                    disabled, running, current, active, curGuest, dead, detached, alive, timers>>
    BY DEF Propagate, mutexVars, ctxVars, fiberVars
  <1>. DEFINE p == Effective(t, held[t])
  <1>3. p \in Priority /\ p \in AnyPriority
    <2>1. held[t] \in Seq(Mutex)
      BY DEF TypeOK
    <2>. QED BY <2>1, EffectivePriority, PriorityFacts
  <1>4. \/ UNCHANGED <<prio, linkVars, resched>> /\ Return
        \/ /\ suspend[t] = 0 /\ SetThreadEffectivePriority(t, p)
           /\ Continue(IF NextOwner(t) = None THEN <<>>
                       ELSE <<Frame("Propagate", NextOwner(t))>>, Rest)
    <2>1. suspend[t] \in Nat
      BY DEF TypeOK
    <2>2. suspend[t] >= 1 \/ suspend[t] = 0
      BY <2>1
    <2>. QED BY <2>2 DEF Propagate
  <1>. HIDE DEF p
  <1>5. /\ QueueInv'
        /\ q' \in [Queue -> Seq(Thread)] /\ pending' \subseteq Priority
        /\ queue' \in [Thread -> Queue \cup {None}] /\ prio' \in [Thread -> AnyPriority]
        /\ resched' \in BOOLEAN /\ (resched => resched')
    <2>1. CASE UNCHANGED <<prio, linkVars, resched>>
      BY <1>2, <2>1, QueueKept DEF TypeOK, linkVars
    <2>2. CASE suspend[t] = 0 /\ SetThreadEffectivePriority(t, p)
      BY <1>2, <1>3, <2>2, PriorityKept
    <2>. QED BY <1>4, <2>1, <2>2
  <1>6. /\ stack' \in [Thread -> Seq(FrameType)] /\ Pushed(stack'[active], Rest)
        /\ \A u \in Thread \ {active} : stack'[u] = stack[u]
    <2>1. CASE stack' = [stack EXCEPT ![active] = Rest]
      BY <1>1, <2>1, ContinueStack DEF Pushed
    <2>2. CASE /\ NextOwner(t) # None
               /\ Continue(<<Frame("Propagate", NextOwner(t))>>, Rest)
      <3>. DEFINE f == Frame("Propagate", NextOwner(t))
                  s == <<f>> \o Rest
      <3>1. f \in FrameType /\ f.call \in Quiet
        BY <2>2, OwnerType, Frames DEF Quiet
      <3>2. stack' = [stack EXCEPT ![active] = s]
        BY <2>2 DEF Continue
      <3>. HIDE DEF f
      <3>3. s \in Seq(FrameType) /\ Pushed(s, Rest)
        BY <1>1, <3>1, ConsSeq DEF Pushed
      <3>. HIDE DEF s
      <3>. QED BY <3>2, <3>3, ContinueStack
    <2>3. <<>> \o Rest = Rest
      BY <1>1, ConcatEmptySeq
    <2>. QED BY <1>4, <2>1, <2>2, <2>3 DEF Return, Continue
  <1>7. TypeOK'
    BY <1>2, <1>5, <1>6 DEF TypeOK
  <1>8. FiberInv'
    <2>1. Head(stack[active]).call \in Quiet /\ ~Top("IfResched")
      BY <1>1 DEF Quiet, Top
    <2>. QED BY <1>1, <1>2, <1>5, <1>6, <2>1, QuietFiber DEF fiberVars
  <1>9. LifeInv'
    <2>1. ~Top("SuspendThread")
      BY <1>1 DEF Top
    <2>2. \A u \in timers' : suspend'[u] > 0 \/ Terminated(u)'
      BY <1>2, <2>1, NotArming DEF Terminated
    <2>. QED BY <1>2, <2>2, LifeKept DEF LifeInv
  <1>. QED BY <1>5, <1>7, <1>8, <1>9

\* One thread moves.
LEMMA MovedKept ==
  ASSUME TypeOK, QueueInv, NEW t \in Thread, NEW x,
         \A u \in Thread \ {t} : /\ state'[u] = state[u] /\ suspend'[u] = suspend[u]
                                 /\ queue'[u] = queue[u] /\ prio'[u] = prio[u],
         x = IF state'[t] = "waiting" THEN queue'[t]
             ELSE IF state'[t] = "ready" /\ suspend'[t] = 0 THEN RunQ(prio'[t]) ELSE None,
         Queues(q', pending', [Home EXCEPT ![t] = x], prio'),
         state'[t] = "waiting" => queue'[t] \in BlockQueues,
         x # None => queue'[t] = x,
         suspend'[t] = 0 /\ state'[t] \notin {"none", "moribund"} => prio'[t] \in Priority
  PROVE  /\ QueueInv'
         /\ q' \in [Queue -> Seq(Thread)] /\ pending' \subseteq Priority
  <1>. DEFINE to == [Home EXCEPT ![t] = x]
  <1>1. Home' = to
    <2>1. \A u \in Thread : Home'[u] = to[u]
      BY DEF Home
    <2>2. Home' = [u \in Thread |-> Home'[u]]
      BY DEF Home
    <2>3. to = [u \in Thread |-> to[u]]
      BY DEF Home
    <2>. QED BY <2>1, <2>2, <2>3
  <1>2. to[t] = x /\ \A u \in Thread \ {t} : to[u] = Home[u]
    BY DEF Home
  <1>3. Queues(q, pending, Home, prio)'
    BY <1>1 DEF Queues
  <1>4. (\A u \in Thread : state[u] = "waiting" => queue[u] \in BlockQueues)'
    BY DEF QueueInv
  <1>5. (\A u \in Thread : Home[u] # None => queue[u] = Home[u])'
    <2>. HIDE DEF Home, to
    <2>. QED BY <1>1, <1>2 DEF QueueInv
  <1>6. (\A u \in Thread : suspend[u] = 0 /\ ~Terminated(u) => prio[u] \in Priority)'
    BY DEF QueueInv, Terminated
  <1>7. q' \in [Queue -> Seq(Thread)] /\ pending' \subseteq Priority
    BY DEF Queues
  <1>. QED BY <1>3, <1>4, <1>5, <1>6, <1>7 DEF QueueInv

\* SelectThread leaves the running thread on the processor.
LEMMA SelectThreadKeeps ==
  ASSUME Good, SelectThread, KeepsCpu(Arg), UNCHANGED game
  PROVE  Good'
  <1>. USE DEF Good
  <1>1. stack[active] # <<>> /\ Head(stack[active]).call \in Selecting /\ Rest \in Seq(FrameType)
    BY TopFrame DEF SelectThread, Top, Selecting
  <1>2. ~Leaving
    <2>. SUFFICES ASSUME Leaving PROVE FALSE
      OBVIOUS
    <2>1. running = active /\ current = active /\ state[active] # "running" /\ disabled = 0
      BY DEF Leaving
    <2>2. active # None
      BY ConstantsAssumption DEF TypeOK
    <2>. QED BY <2>1, <2>2 DEF KeepsCpu
  <1>3. (Executing /\ Plain(active, Rest)) \/ (Idle /\ Idling(active, Rest))
    <2>1. Executing \/ Idle
      BY <1>1, <1>2, ModeOf
    <2>2. Idle => Idling(active, Rest)
      BY <1>1, ModeOf
    <2>3. Executing => Plain(active, Rest)
      BY ExecutingRest
    <2>. QED BY <2>1, <2>2, <2>3
  <1>4. stack' = [stack EXCEPT ![active] = Rest]
    BY <1>1, ConcatEmptySeq DEF SelectThread, Return, Continue
  <1>5. /\ stack' \in [Thread -> Seq(FrameType)] /\ stack'[active] = Rest
        /\ \A u \in Thread \ {active} : stack'[u] = stack[u]
    BY <1>1, <1>4, ContinueStack
  <1>6. UNCHANGED <<state, suspend, pending, running, current, fiberVars, disabled, resched>>
    BY DEF SelectThread, linkVars, ctxVars
  <1>7. FiberInv'
    BY <1>3, <1>5, <1>6, NextFiber
  <1>8. ~Top("SuspendThread")
    BY DEF SelectThread, Top
  <1>. QED BY <1>5, <1>7, <1>8, StackOnly DEF SelectThread

\* SelectThread takes the processor from the running thread, or goes to the idle loop.
LEMMA SelectThreadLeaves ==
  ASSUME Good, SelectThread, ~KeepsCpu(Arg), UNCHANGED game
  PROVE  Good'
  <1>. USE DEF Good
  <1>1. stack[active] # <<>> /\ Head(stack[active]).call \in Selecting /\ Rest \in Seq(FrameType)
    BY TopFrame DEF SelectThread, Top, Selecting
  <1>2. disabled = 0 /\ current = running /\ running # None
    BY DEF KeepsCpu, TypeOK
  <1>3. (Executing \/ Leaving) /\ running = active /\ current = active /\ active \in Thread
    BY <1>1, <1>2, ModeOf DEF Idle, Executing, Leaving, TypeOK
  <1>4. Plain(active, Rest)
    BY <1>1, <1>3, ModeOf
  <1>5. UNCHANGED <<suspend, prio, base, owner, count, held, waitMutex, disabled,
                    active, curGuest, dead, detached, alive, timers>>
    BY DEF SelectThread, prioVars, mutexVars, fiberVars
  <1>6. /\ QueueInv'
        /\ q' \in [Queue -> Seq(Thread)] /\ pending' \subseteq Priority
        /\ queue' \in [Thread -> Queue \cup {None}] /\ state' \in [Thread -> State]
        /\ resched' \in BOOLEAN
        /\ state'[active] # "running"
        /\ \A u \in Thread : \/ state'[u] = state[u]
                             \/ u = active /\ state[u] = "running" /\ state'[u] = "ready"
    <2>1. CASE state[active] # "running"
      <3>1. UNCHANGED <<state, linkVars, resched>>
        BY <1>3, <2>1 DEF SelectThread
      <3>. QED BY <1>5, <2>1, <3>1, QueueKept DEF linkVars, TypeOK
    <2>2. CASE state[active] = "running"
      <3>. DEFINE p == prio[active]
                  x == RunQ(p)
      <3>1. p \in Priority /\ suspend[active] = 0 /\ Home[active] = None
        BY <1>3, <2>2 DEF QueueInv, FiberInv, Terminated, Home
      <3>2. x \in Queue /\ x # None
        BY <3>1, Addresses, QueueAssumption
      <3>3. /\ state' = [state EXCEPT ![active] = "ready"]
            /\ q' = [q EXCEPT ![x] = Append(@, active)]
            /\ queue' = [queue EXCEPT ![active] = x]
            /\ pending' = pending \cup Mark(x)
            /\ resched' = TRUE
        BY <1>3, <2>2 DEF SelectThread
      <3>4. Queues(q', pending', [Home EXCEPT ![active] = x], prio)
        <4>1. Queues(q, pending, Home, prio) /\ Home \in [Thread -> Queue \cup {None}]
          BY HomeFacts DEF QueueInv
        <4>2. \A u \in Thread : Home[u] = RunQ(p) => prio[u] = prio[active]
          BY <3>1, HomeFacts
        <4>3. prio \in [Thread -> Nat]
          BY PriorityFacts DEF TypeOK
        <4>. HIDE DEF p, Home
        <4>4. Queues([q EXCEPT ![RunQ(p)] = Append(@, active)], pending \cup Mark(RunQ(p)),
                     [Home EXCEPT ![active] = RunQ(p)], prio)
          BY <1>3, <3>1, <4>1, <4>2, <4>3, QueuedBehind
        <4>. QED BY <3>3, <4>4
      <3>5. /\ state'[active] = "ready" /\ queue'[active] = x /\ suspend'[active] = 0
            /\ \A u \in Thread \ {active} : state'[u] = state[u] /\ queue'[u] = queue[u]
        BY <1>3, <1>5, <3>1, <3>3 DEF TypeOK
      <3>6. /\ QueueInv' /\ q' \in [Queue -> Seq(Thread)] /\ pending' \subseteq Priority
        <4>1. x = IF state'[active] = "waiting" THEN queue'[active]
                  ELSE IF state'[active] = "ready" /\ suspend'[active] = 0 THEN RunQ(prio'[active])
                  ELSE None
          BY <1>5, <3>5
        <4>2. prio'[active] \in Priority
          BY <1>5, <3>1
        <4>3. Queues(q', pending', [Home EXCEPT ![active] = x], prio')
          BY <1>5, <3>4
        <4>. HIDE DEF x, p, Home
        <4>. QED BY <1>3, <1>5, <3>5, <4>1, <4>2, <4>3, MovedKept
      <3>7. queue' \in [Thread -> Queue \cup {None}] /\ state' \in [Thread -> State]
        BY <3>2, <3>3 DEF TypeOK, State
      <3>. QED BY <1>3, <2>2, <3>3, <3>5, <3>6, <3>7
    <2>. QED BY <2>1, <2>2
  <1>7. /\ Picking' \/ Idle'
        /\ stack' \in [Thread -> Seq(FrameType)]
        /\ \A u \in Thread \ {active} : stack'[u] = stack[u]
        /\ running' \in Thread \cup {None} /\ current' \in Thread \cup {None, "idle"}
    <2>1. CASE pending' = {}
      <3>1. /\ running' = None /\ current' = "idle"
            /\ stack' = [stack EXCEPT ![active] = <<Frame("Idle", None)>> \o Rest]
        BY <2>1 DEF SelectThread, Continue
      <3>. DEFINE f == Frame("Idle", None)
                  s == <<f>> \o Rest
      <3>2. f \in FrameType /\ f.call = "Idle"
        BY Frames
      <3>. HIDE DEF f
      <3>3. s \in Seq(FrameType) /\ Idling(active, s)
        BY <1>1, <1>4, <3>2, ConsSeq, IdlingCons
      <3>4. stack' = [stack EXCEPT ![active] = s]
        BY <3>1 DEF f
      <3>. HIDE DEF s
      <3>5. /\ stack' \in [Thread -> Seq(FrameType)] /\ stack'[active] = s
            /\ \A u \in Thread \ {active} : stack'[u] = stack[u]
        BY <3>3, <3>4, ContinueStack
      <3>6. Idle'
        BY <1>2, <1>5, <1>6, <3>1, <3>3, <3>5 DEF Idle
      <3>. QED BY <3>1, <3>5, <3>6
    <2>2. CASE pending' # {}
      <3>1. /\ UNCHANGED ctxVars
            /\ stack' = [stack EXCEPT ![active] = <<Frame("Pick", None)>> \o Rest]
        BY <2>2 DEF SelectThread, Continue
      <3>2. Picking' /\ stack' \in [Thread -> Seq(FrameType)]
        BY <1>1, <1>2, <1>4, <1>5, <1>6, <2>2, <3>1, NextPicking
      <3>3. \A u \in Thread \ {active} : stack'[u] = stack[u]
        BY <3>1 DEF TypeOK
      <3>. QED BY <3>1, <3>2, <3>3 DEF ctxVars, TypeOK
    <2>. QED BY <2>1, <2>2
  <1>8. TypeOK'
    BY <1>5, <1>6, <1>7 DEF TypeOK
  <1>9. FiberInv'
    <2>1. (\A u \in Thread \ {active} : Parting(u))'
      BY <1>5, <1>7, PartedKept
    <2>2. (\A t \in Thread : state[t] = "running" => t = active /\ suspend[t] = 0)'
      BY <1>5, <1>6 DEF FiberInv
    <2>. QED BY <1>5, <1>7, <2>1, <2>2 DEF FiberInv
  <1>10. LifeInv'
    <2>1. ~Top("SuspendThread")
      BY DEF SelectThread, Top
    <2>2. \A u \in timers' : suspend'[u] > 0 \/ Terminated(u)'
      <3>1. \A u \in Thread : Terminated(u) => Terminated(u)'
        BY <1>6 DEF Terminated
      <3>. QED BY <1>5, <2>1, <3>1, NotArming DEF TypeOK
    <2>. QED BY <1>5, <1>6, <2>2, LifeKept DEF LifeInv
  <1>. QED BY <1>6, <1>8, <1>9, <1>10

\* The first thread of the highest priority is taken and its fiber switched to.
LEMMA PickStep ==
  ASSUME Good, Pick, UNCHANGED game
  PROVE  Good'
  <1>. USE DEF Good
  <1>1. /\ Picking /\ Rest \in Seq(FrameType) /\ active \in Thread
        /\ state[active] # "running" /\ pending # {} /\ Plain(active, Rest)
    BY ModeOf, TopFrame DEF Pick, Top, Picking
  <1>. DEFINE p == Min(pending)
              n == Head(q[RunQ(p)])
  <1>2. p \in pending /\ p \in Priority
    <2>1. pending \in SUBSET Nat
      BY PriorityFacts DEF TypeOK
    <2>2. p \in pending
      BY <1>1, <2>1, LeastNatural
    <2>. QED BY <2>2 DEF TypeOK
  <1>. HIDE DEF p
  <1>3. /\ n \in Thread /\ Home[n] = RunQ(p)
        /\ Queues([q EXCEPT ![RunQ(p)] = Tail(@)],
                  IF Tail(q[RunQ(p)]) = <<>> THEN pending \ {p} ELSE pending,
                  [Home EXCEPT ![n] = None], prio)
    <2>1. Queues(q, pending, Home, prio) /\ Home \in [Thread -> Queue \cup {None}]
      BY HomeFacts DEF QueueInv
    <2>. HIDE DEF Home
    <2>. QED BY <1>2, <2>1, PickedFrom
  <1>4. state[n] = "ready" /\ suspend[n] = 0 /\ prio[n] \in Priority
    <2>1. Home[n] # None /\ Home[n] \notin BlockQueues
      BY <1>2, <1>3, Addresses, QueueAssumption
    <2>. QED BY <1>3, <2>1, HomeFacts
  <1>5. /\ ~Terminated(n) /\ ~dead[n]
        /\ q' = [q EXCEPT ![RunQ(p)] = Tail(@)]
        /\ pending' = IF Tail(q[RunQ(p)]) = <<>> THEN pending \ {p} ELSE pending
        /\ queue' = [queue EXCEPT ![n] = None]
        /\ state' = [state EXCEPT ![n] = "running"]
        /\ running' = n
        /\ current' = n
        /\ curGuest' = n
        /\ active' = n
        /\ stack' = [stack EXCEPT ![active] =
                        IF n = active THEN Rest
                        ELSE IF dead[active] THEN <<>>
                        ELSE <<Frame("Switched", curGuest)>> \o Rest]
        /\ resched' = FALSE
    BY DEF Pick, p, n
  <1>6. UNCHANGED <<suspend, prio, base, owner, count, held, waitMutex, disabled,
                    dead, detached, alive, timers>>
    BY DEF Pick, prioVars, mutexVars, lifeVars
  <1>. HIDE DEF n
  <1>7. /\ state'[n] = "running" /\ queue'[n] = None
        /\ \A u \in Thread \ {n} : state'[u] = state[u] /\ queue'[u] = queue[u]
        /\ queue' \in [Thread -> Queue \cup {None}] /\ state' \in [Thread -> State]
    BY <1>3, <1>5 DEF TypeOK, State
  <1>8. QueueInv' /\ q' \in [Queue -> Seq(Thread)] /\ pending' \subseteq Priority
    <2>1. Queues(q', pending', [Home EXCEPT ![n] = None], prio')
      BY <1>3, <1>5, <1>6
    <2>2. None = IF state'[n] = "waiting" THEN queue'[n]
                 ELSE IF state'[n] = "ready" /\ suspend'[n] = 0 THEN RunQ(prio'[n]) ELSE None
      BY <1>7
    <2>3. prio'[n] \in Priority
      BY <1>4, <1>6
    <2>. HIDE DEF Home
    <2>. QED BY <1>3, <1>6, <1>7, <2>1, <2>2, <2>3, MovedKept
  <1>9. /\ stack' \in [Thread -> Seq(FrameType)]
        /\ Plain(n, stack'[n])
        /\ (\A u \in Thread \ {active} : Parting(u))'
    <2>. DEFINE f == Frame("Switched", curGuest)
                s == IF n = active THEN Rest ELSE IF dead[active] THEN <<>> ELSE <<f>> \o Rest
    <2>1. f \in FrameType /\ f.call = "Switched" /\ PlainFrame(active, f)
      BY Frames DEF TypeOK, PlainFrame
    <2>. HIDE DEF f
    <2>2. /\ <<f>> \o Rest \in Seq(FrameType) /\ Head(<<f>> \o Rest) = f
          /\ Plain(active, <<f>> \o Rest)
      BY <1>1, <2>1, ConsSeq, PlainCons
    <2>3. <<>> \in Seq(FrameType) /\ Plain(active, <<>>)
      BY EmptyStack
    <2>4. /\ s \in Seq(FrameType) /\ Plain(active, s)
          /\ n # active /\ s # <<>> => Head(s).call = "Switched"
      BY <1>1, <2>1, <2>2, <2>3
    <2>5. stack' = [stack EXCEPT ![active] = s]
      BY <1>5 DEF f
    <2>. HIDE DEF s
    <2>6. /\ stack' \in [Thread -> Seq(FrameType)] /\ stack'[active] = s
          /\ \A u \in Thread \ {active} : stack'[u] = stack[u]
      BY <2>4, <2>5, ContinueStack
    <2>7. Plain(n, stack'[n])
      BY <1>3, <2>4, <2>6 DEF FiberInv, Parting
    <2>8. (\A u \in Thread \ {active} : Parting(u))'
      BY <1>1, <1>5, <2>4, <2>6 DEF FiberInv, Parting
    <2>. QED BY <2>6, <2>7, <2>8
  <1>10. TypeOK'
    BY <1>3, <1>5, <1>6, <1>7, <1>8, <1>9 DEF TypeOK
  <1>11. FiberInv'
    <2>1. Executing'
      BY <1>5, <1>7, <1>9 DEF Executing
    <2>2. (\A t \in Thread : state[t] = "running" => t = active /\ suspend[t] = 0)'
      BY <1>1, <1>4, <1>5, <1>6, <1>7 DEF FiberInv
    <2>. QED BY <1>5, <1>9, <2>1, <2>2 DEF FiberInv
  <1>12. LifeInv'
    <2>1. ~Top("SuspendThread")
      BY DEF Pick, Top
    <2>2. n \notin timers
      BY <1>3, <1>4, <2>1, NotArming DEF Terminated
    <2>3. \A u \in timers' : suspend'[u] > 0 \/ Terminated(u)'
      BY <1>6, <1>7, <2>1, <2>2, NotArming DEF Terminated, TypeOK
    <2>. QED BY <1>4, <1>6, <1>7, <2>3, LifeKept DEF LifeInv
  <1>. QED BY <1>8, <1>10, <1>11, <1>12

\* A thread that is in no queue is sorted into x.
LEMMA LinkKept ==
  ASSUME TypeOK, QueueInv, NEW t \in Thread, Home[t] = None, NEW x \in Queue, NEW p \in AnyPriority,
         q' = Link(q, t, x, p), pending' = pending \cup Mark(x),
         queue' = [queue EXCEPT ![t] = x], prio' = [prio EXCEPT ![t] = p],
         \A u \in Thread \ {t} : state'[u] = state[u] /\ suspend'[u] = suspend[u],
         \/ state'[t] = "waiting" /\ x \in BlockQueues /\ (suspend'[t] = 0 => p \in Priority)
         \/ state'[t] = "ready" /\ suspend'[t] = 0 /\ x = RunQ(p) /\ p \in Priority
  PROVE  /\ QueueInv'
         /\ q' \in [Queue -> Seq(Thread)] /\ pending' \subseteq Priority
         /\ queue' \in [Thread -> Queue \cup {None}] /\ prio' \in [Thread -> AnyPriority]
  <1>1. /\ prio \in [Thread -> Nat] /\ prio' \in [Thread -> Nat] /\ prio'[t] = p
        /\ queue'[t] = x /\ queue' \in [Thread -> Queue \cup {None}]
        /\ prio' \in [Thread -> AnyPriority]
        /\ \A u \in Thread \ {t} : prio'[u] = prio[u] /\ queue'[u] = queue[u]
    BY PriorityFacts DEF TypeOK
  <1>2. Queues(q, pending, Home, prio) /\ Home \in [Thread -> Queue \cup {None}]
    BY HomeFacts DEF QueueInv
  <1>3. Queues(q, pending, Home, prio')
    <2>1. \A u \in Thread : Home[u] # None => prio'[u] = prio[u]
      BY <1>1
    <2>. HIDE DEF Home
    <2>. QED BY <1>2, <2>1, RankOfUnlinked
  <1>4. Queues(q', pending', [Home EXCEPT ![t] = x], prio')
    <2>1. \A u \in Thread \ {t} : prio'[u] = prio[u]
      BY <1>1
    <2>. HIDE DEF Home
    <2>2. Queues(Link(q, t, x, prio'[t]), pending \cup Mark(x), [Home EXCEPT ![t] = x], prio')
      BY <1>1, <1>2, <1>3, <2>1, PutIn
    <2>. QED BY <1>1, <2>2
  <1>5. x = IF state'[t] = "waiting" THEN queue'[t]
            ELSE IF state'[t] = "ready" /\ suspend'[t] = 0 THEN RunQ(prio'[t]) ELSE None
    BY <1>1
  <1>6. QueueInv' /\ q' \in [Queue -> Seq(Thread)] /\ pending' \subseteq Priority
    <2>. HIDE DEF Home
    <2>. QED BY <1>1, <1>4, <1>5, MovedKept
  <1>. QED BY <1>1, <1>6

\* OSSleepThread links the running thread into a queue and gives the processor away.
LEMMA SleepThreadStep ==
  ASSUME Good, NEW x \in BlockQueues, SleepThread(x), UNCHANGED game
  PROVE  Good'
  <1>. USE DEF Good
  <1>1. Executing /\ ~Top("SuspendThread")
    <2>1. CASE GuestCalls("SleepThread")
      BY <2>1, ModeOf DEF GuestCalls, GuestCode, Top
    <2>2. CASE Top("SleepThread")
      <3>1. stack[active] # <<>> /\ Head(stack[active]).call = "SleepThread"
        BY <2>2 DEF Top
      <3>. QED BY <3>1, ModeOf DEF Quiet, Selecting, Top
    <2>. QED BY <2>1, <2>2 DEF SleepThread, Called
  <1>2. /\ running = active /\ current = active /\ state[active] = "running"
        /\ active \in Thread /\ suspend[active] = 0 /\ active # None
        /\ Rest \in Seq(FrameType) /\ Plain(active, Rest)
    BY <1>1, ExecutingRest, ConstantsAssumption
  <1>3. UNCHANGED <<suspend, prio, base, owner, count, held, waitMutex, disabled, running, current,
                    active, curGuest, dead, detached, alive, timers>>
    BY <1>2 DEF SleepThread, prioVars, mutexVars, fiberVars
  <1>4. CASE disabled > 0
    <2>1. UNCHANGED <<state, linkVars, resched>> /\ stack' = [stack EXCEPT ![active] = Rest]
      BY <1>2, <1>4, ConcatEmptySeq DEF SleepThread, Return, Continue
    <2>2. /\ stack' \in [Thread -> Seq(FrameType)] /\ stack'[active] = Rest
          /\ \A u \in Thread \ {active} : stack'[u] = stack[u]
      BY <1>2, <2>1, ContinueStack
    <2>3. FiberInv'
      BY <1>1, <1>2, <1>3, <2>1, <2>2, NextFiber DEF fiberVars, linkVars
    <2>. QED BY <1>1, <1>3, <2>1, <2>2, <2>3, StackOnly
             DEF prioVars, mutexVars, ctxVars, fiberVars
  <1>5. CASE ~(disabled > 0)
    <2>. DEFINE g == Frame("Slept", <<active, x>>)
                r == <<g>> \o Rest
                s == <<SelectFrame>> \o r
    <2>1. /\ state' = [state EXCEPT ![active] = "waiting"]
          /\ q' = Link(q, active, x, prio[active])
          /\ queue' = [queue EXCEPT ![active] = x]
          /\ resched' = TRUE
          /\ Continue(<<SelectFrame, g>>, Rest)
          /\ UNCHANGED pending
      BY <1>2, <1>5 DEF SleepThread
    <2>2. g \in FrameType /\ PlainFrame(active, g)
      BY <1>2, Frames DEF PlainFrame
    <2>. HIDE DEF g
    <2>3. stack' = [stack EXCEPT ![active] = s]
      <3>1. <<SelectFrame, g>> \o Rest = s
        BY <1>2, <2>2, SelectFrames, Pushes
      <3>. QED BY <2>1, <3>1 DEF Continue
    <2>4. r \in Seq(FrameType) /\ Plain(active, r)
      BY <1>2, <2>2, ConsSeq, PlainCons
    <2>. HIDE DEF r
    <2>5. s \in Seq(FrameType) /\ Plain(active, s) /\ Guarded(resched', s)
      BY <2>4, SelectFrames, PushedFrame, GuardedCons DEF Stops, Selecting
    <2>. HIDE DEF s
    <2>6. /\ stack' \in [Thread -> Seq(FrameType)] /\ stack'[active] = s
          /\ \A u \in Thread \ {active} : stack'[u] = stack[u]
      BY <2>3, <2>5, ContinueStack
    <2>7. /\ state'[active] = "waiting" /\ state' \in [Thread -> State]
          /\ \A u \in Thread \ {active} : state'[u] = state[u]
      BY <1>2, <2>1 DEF TypeOK, State
    <2>8. /\ QueueInv'
          /\ q' \in [Queue -> Seq(Thread)] /\ pending' \subseteq Priority
          /\ queue' \in [Thread -> Queue \cup {None}]
      <3>1. Home[active] = None /\ prio[active] \in Priority /\ prio[active] \in AnyPriority
        BY <1>2, PriorityFacts DEF Home, QueueInv, Terminated
      <3>2. pending' = pending \cup Mark(x) /\ x \in Queue
        BY <2>1, Addresses DEF Mark
      <3>3. prio' = [prio EXCEPT ![active] = prio[active]]
        BY <1>2, <1>3 DEF TypeOK
      <3>4. \A u \in Thread \ {active} : suspend'[u] = suspend[u]
        BY <1>3
      <3>. HIDE DEF Home
      <3>. QED BY <1>2, <2>1, <2>7, <3>1, <3>2, <3>3, <3>4, LinkKept
    <2>9. TypeOK'
      BY <1>3, <2>1, <2>6, <2>7, <2>8 DEF TypeOK
    <2>10. FiberInv'
      <3>1. Leaving'
        <4>1. disabled = 0
          BY <1>5 DEF TypeOK
        <4>. QED BY <1>2, <1>3, <2>5, <2>6, <2>7, <4>1 DEF Leaving
      <3>2. (\A u \in Thread \ {active} : Parting(u))'
        BY <1>3, <2>6, PartedKept
      <3>3. (\A t \in Thread : state[t] = "running" => t = active /\ suspend[t] = 0)'
        BY <1>3, <2>7 DEF FiberInv
      <3>. QED BY <1>3, <3>1, <3>2, <3>3 DEF FiberInv
    <2>11. LifeInv'
      <3>1. \A u \in timers' : suspend'[u] > 0 \/ Terminated(u)'
        <4>1. \A u \in Thread : Terminated(u) => Terminated(u)'
          BY <1>2, <2>7 DEF Terminated
        <4>. QED BY <1>1, <1>3, <4>1, NotArming DEF TypeOK
      <3>. QED BY <1>2, <1>3, <2>7, <3>1, LifeKept DEF LifeInv
    <2>. QED BY <2>8, <2>9, <2>10, <2>11
  <1>. QED BY <1>4, <1>5

\* A call of a running thread returns to it and changes nothing else.
LEMMA ReturnStep ==
  ASSUME Good, Executing, stack[active] # <<>>, ~Top("SuspendThread"), Return,
         UNCHANGED <<game, state, suspend, prioVars, linkVars, mutexVars, waitMutex, resched,
                     disabled, ctxVars, timers, fiberVars, detached, alive>>
  PROVE  Good'
  <1>. USE DEF Good
  <1>1. Rest \in Seq(FrameType) /\ Plain(active, Rest)
    BY ExecutingRest
  <1>2. stack' = [stack EXCEPT ![active] = Rest]
    BY <1>1, ConcatEmptySeq DEF Return, Continue
  <1>3. /\ stack' \in [Thread -> Seq(FrameType)] /\ stack'[active] = Rest
        /\ \A u \in Thread \ {active} : stack'[u] = stack[u]
    BY <1>1, <1>2, ContinueStack
  <1>4. FiberInv'
    BY <1>1, <1>3, NextFiber DEF linkVars, ctxVars
  <1>. QED BY <1>3, <1>4, StackOnly

\* OSSleepThread returns to a thread that has been woken.
LEMMA SleptStep ==
  ASSUME Good, NEW t \in Thread, NEW x \in BlockQueues, Slept(t, x), UNCHANGED game
  PROVE  Good'
  <1>. USE DEF Good
  <1>1. stack[active] # <<>> /\ Head(stack[active]).call = "Slept" /\ Head(stack[active]).arg = <<t, x>>
    BY DEF Slept, Top, Arg
  <1>2. Executing
    BY <1>1, ModeOf DEF Quiet, Selecting
  <1>3. PlainFrame(active, Head(stack[active]))
    BY <1>1, <1>2, ModeOf
  <1>4. t = active
    BY <1>1, <1>3 DEF PlainFrame
  <1>5. state[t] # "waiting"
    BY <1>2, <1>4 DEF Executing
  <1>6. ~Top("SuspendThread")
    BY <1>1 DEF Top
  <1>. QED BY <1>1, <1>2, <1>5, <1>6, ReturnStep DEF Slept

\* OSSleepTicks returns to a thread that has been resumed.
LEMMA TickWokenStep ==
  ASSUME Good, NEW t \in Thread, TickWoken(t), UNCHANGED game
  PROVE  Good'
  <1>. USE DEF Good
  <1>1. stack[active] # <<>> /\ Head(stack[active]).call = "TickWoken" /\ Head(stack[active]).arg = t
    BY DEF TickWoken, Top, Arg
  <1>2. Executing
    BY <1>1, ModeOf DEF Quiet, Selecting
  <1>3. PlainFrame(active, Head(stack[active]))
    BY <1>1, <1>2, ModeOf
  <1>4. t = active
    BY <1>1, <1>3 DEF PlainFrame
  <1>5. ~(suspend[t] > 0)
    BY <1>2, <1>4, ExecutingRest
  <1>6. ~Top("SuspendThread")
    BY <1>1 DEF Top
  <1>. QED BY <1>1, <1>2, <1>5, <1>6, ReturnStep DEF TickWoken

\* OSCreateThread, of a thread that is new or over.
LEMMA CreateThreadStep ==
  ASSUME Good, NEW t \in Thread, NEW p \in game.priorities, NEW d \in game.attributes,
         CreateThread(t, p, d), UNCHANGED game
  PROVE  Good'
  <1>. USE DEF Good
  <1>1. Executing /\ stack[active] = <<>> /\ state[t] = "none"
    BY ModeOf DEF CreateThread, GuestCalls, GuestCode
  <1>2. t # active /\ Home[t] = None
    BY <1>1 DEF Executing, Home
  <1>3. p \in Priority /\ d \in BOOLEAN
    BY ConstantsAssumption DEF TypeOK, Priority
  <1>4. /\ state' = [state EXCEPT ![t] = "ready"]
        /\ suspend' = [suspend EXCEPT ![t] = 1]
        /\ prio' = [prio EXCEPT ![t] = p]
        /\ base' = [base EXCEPT ![t] = p]
        /\ detached' = [detached EXCEPT ![t] = d]
        /\ q' = [q EXCEPT ![JoinQ(t)] = <<>>]
        /\ held' = [held EXCEPT ![t] = <<>>]
        /\ waitMutex' = [waitMutex EXCEPT ![t] = None]
        /\ alive' = alive \cup {t}
        /\ dead' = [dead EXCEPT ![t] = FALSE]
        /\ stack' = [stack EXCEPT ![t] = <<>>]
        /\ UNCHANGED <<queue, owner, count, pending, resched, disabled, running, current, timers,
                       active, curGuest>>
    BY DEF CreateThread, ctxVars
  <1>5. /\ state'[t] = "ready" /\ suspend'[t] = 1 /\ prio'[t] = p /\ stack'[t] = <<>> /\ ~dead'[t]
        /\ \A u \in Thread \ {t} : /\ state'[u] = state[u] /\ suspend'[u] = suspend[u]
                                   /\ prio'[u] = prio[u] /\ stack'[u] = stack[u]
                                   /\ dead'[u] = dead[u]
    BY <1>4 DEF TypeOK
  <1>6. <<>> \in Seq(FrameType) /\ <<>> \in Seq(Mutex) /\ Plain(t, <<>>)
    BY EmptyStack
  <1>7. /\ state' \in [Thread -> State] /\ suspend' \in [Thread -> Nat]
        /\ prio' \in [Thread -> AnyPriority] /\ base' \in [Thread -> Priority]
        /\ detached' \in [Thread -> BOOLEAN] /\ held' \in [Thread -> Seq(Mutex)]
        /\ waitMutex' \in [Thread -> Mutex \cup {None}] /\ alive' \subseteq Thread
        /\ dead' \in [Thread -> BOOLEAN] /\ stack' \in [Thread -> Seq(FrameType)]
    <2>1. "ready" \in State /\ p \in AnyPriority /\ 1 \in Nat
      BY <1>3, PriorityFacts DEF State
    <2>2. state' \in [Thread -> State] /\ suspend' \in [Thread -> Nat]
      BY <1>4, <2>1 DEF TypeOK
    <2>3. prio' \in [Thread -> AnyPriority] /\ base' \in [Thread -> Priority]
      BY <1>3, <1>4, <2>1 DEF TypeOK
    <2>4. detached' \in [Thread -> BOOLEAN] /\ held' \in [Thread -> Seq(Mutex)]
          /\ waitMutex' \in [Thread -> Mutex \cup {None}] /\ alive' \subseteq Thread
      BY <1>3, <1>4, <1>6 DEF TypeOK
    <2>5. dead' \in [Thread -> BOOLEAN] /\ stack' \in [Thread -> Seq(FrameType)]
      <3>1. dead \in [Thread -> BOOLEAN] /\ stack \in [Thread -> Seq(FrameType)]
        BY DEF TypeOK
      <3>2. FALSE \in BOOLEAN
        OBVIOUS
      <3>. QED BY ONLY <1>4, <1>6, <3>1, <3>2, Zenon
    <2>. QED BY <2>2, <2>3, <2>4, <2>5
  <1>8. QueueInv' /\ q' \in [Queue -> Seq(Thread)] /\ pending' \subseteq Priority
    <2>1. Queues(q', pending, Home, prio)
      BY <1>4, Addresses, Emptied DEF QueueInv
    <2>2. \A u \in Thread : Home[u] # None => prio'[u] = prio[u]
      BY <1>2, <1>5
    <2>3. Home \in [Thread -> Queue \cup {None}]
      BY HomeFacts
    <2>. HIDE DEF Home
    <2>4. Queues(q', pending, Home, prio')
      BY <2>1, <2>2, RankOfUnlinked
    <2>5. [Home EXCEPT ![t] = None] = Home
      BY <1>2, <2>3
    <2>6. Queues(q', pending', [Home EXCEPT ![t] = None], prio')
      BY <1>4, <2>4, <2>5
    <2>7. None = IF state'[t] = "waiting" THEN queue'[t]
                 ELSE IF state'[t] = "ready" /\ suspend'[t] = 0 THEN RunQ(prio'[t]) ELSE None
      BY <1>5
    <2>8. \A u \in Thread \ {t} : /\ state'[u] = state[u] /\ suspend'[u] = suspend[u]
                                  /\ queue'[u] = queue[u] /\ prio'[u] = prio[u]
      BY <1>4, <1>5
    <2>9. state'[t] # "waiting" /\ suspend'[t] # 0
      BY <1>5
    <2>. QED BY <2>6, <2>7, <2>8, <2>9, MovedKept
  <1>9. TypeOK'
    BY <1>4, <1>7, <1>8 DEF TypeOK
  <1>10. FiberInv'
    <2>1. Executing'
      BY <1>1, <1>2, <1>4, <1>5, ExecutingRest DEF Executing
    <2>2. (\A u \in Thread \ {active} : Parting(u))'
      BY <1>4, <1>5, <1>6 DEF FiberInv, Parting
    <2>3. (\A u \in Thread : state[u] = "running" => u = active /\ suspend[u] = 0)'
      BY <1>4, <1>5 DEF FiberInv
    <2>. QED BY <1>4, <2>1, <2>2, <2>3 DEF FiberInv
  <1>11. LifeInv'
    <2>1. ~Top("SuspendThread")
      BY <1>1 DEF Top
    <2>2. \A u \in timers : suspend[u] > 0 \/ Terminated(u)
      BY <2>1, NotArming
    <2>3. (\A u \in timers : suspend[u] > 0 \/ Terminated(u))'
      BY <1>4, <1>5, <2>2 DEF Terminated, TypeOK
    <2>4. (\A u \in Thread : dead[u] => Terminated(u))'
      BY <1>5 DEF LifeInv, Terminated
    <2>5. (alive = {u \in Thread : state[u] # "none"})'
      BY <1>4, <1>5 DEF LifeInv
    <2>6. (\A m \in Mutex : count[m] > 0 <=> owner[m] # None)'
      BY <1>4 DEF LifeInv
    <2>. QED BY <2>3, <2>4, <2>5, <2>6 DEF LifeInv
  <1>. QED BY <1>8, <1>9, <1>10, <1>11

-----------------------------------------------------------------------------
(* The end of a thread.                                                    *)

\* The calls that OSExitThread and OSCancelThread end with.
LEMMA EndStack ==
  ASSUME TypeOK, GuestCode, NEW t \in Thread, NEW f \in FrameType, Terminate(t, <<f>>),
         PlainFrame(active, f)
  PROVE  /\ stack' \in [Thread -> Seq(FrameType)]
         /\ Plain(active, stack'[active])
         /\ \A hint : Stops(hint, f) => Guarded(hint, stack'[active])
         /\ \A u \in Thread \ {active} : stack'[u] = IF u = t THEN <<>> ELSE stack[u]
  <1>. DEFINE a == Frame("UnlockAll", t)
              b == Frame("WakeupThread", JoinQ(t))
              r == <<f>> \o <<>>
              m == <<b>> \o r
              s == <<a>> \o m
  <1>1. /\ a \in FrameType /\ a.call \in Quiet /\ b \in FrameType /\ b.call \in Quiet
    BY Frames, Addresses DEF Quiet
  <1>2. <<>> \in Seq(FrameType) /\ Plain(active, <<>>) /\ Rest = <<>>
    BY EmptyStack DEF Rest, GuestCode
  <1>3. EndCalls(t) \o <<f>> \o Rest = s
    <2>1. EndCalls(t) = <<a>> \o <<b>>
      BY TwoElements DEF EndCalls
    <2>. HIDE DEF a, b
    <2>2. <<a>> \in Seq(FrameType) /\ <<b>> \in Seq(FrameType) /\ <<f>> \in Seq(FrameType)
      BY <1>1
    <2>3. ((<<a>> \o <<b>>) \o <<f>>) \o <<>> = <<a>> \o (<<b>> \o (<<f>> \o <<>>))
      BY <1>2, <2>2, ConcatThree
    <2>. QED BY <1>2, <2>1, <2>3
  <1>4. stack' = [u \in Thread |-> IF u = active THEN s ELSE IF u = t THEN <<>> ELSE stack[u]]
    BY <1>3 DEF Terminate
  <1>. HIDE DEF a, b
  <1>5. /\ r \in Seq(FrameType) /\ Plain(active, r)
        /\ \A hint : Stops(hint, f) => Guarded(hint, r)
    BY <1>2, ConsSeq, PlainCons, GuardedCons
  <1>. HIDE DEF r
  <1>6. /\ m \in Seq(FrameType) /\ Plain(active, m)
        /\ \A hint : Guarded(hint, r) => Guarded(hint, m)
    BY <1>1, <1>5, PushedFrame
  <1>. HIDE DEF m
  <1>7. /\ s \in Seq(FrameType) /\ Plain(active, s)
        /\ \A hint : Guarded(hint, m) => Guarded(hint, s)
    BY <1>1, <1>6, PushedFrame
  <1>. HIDE DEF s
  <1>8. stack'[active] = s /\ active \in Thread
    BY <1>4 DEF TypeOK
  <1>9. stack' \in [Thread -> Seq(FrameType)]
    BY <1>2, <1>4, <1>7 DEF TypeOK
  <1>. QED BY <1>4, <1>5, <1>6, <1>7, <1>8, <1>9

\* A thread that ends is in no queue any more, and no other thread changes.
LEMMA Ended ==
  ASSUME Good, NEW t \in Thread, NEW fs, Terminate(t, fs), ~Terminated(t), ~Top("SuspendThread"),
         IF Home[t] # None THEN Unlink(t) ELSE UNCHANGED linkVars,
         UNCHANGED <<suspend, prioVars, mutexVars, timers>>
  PROVE  /\ QueueInv' /\ LifeInv'
         /\ q' \in [Queue -> Seq(Thread)] /\ pending' \subseteq Priority
         /\ queue' \in [Thread -> Queue \cup {None}]
         /\ state' \in [Thread -> State] /\ alive' \subseteq Thread
         /\ dead' \in [Thread -> BOOLEAN] /\ curGuest' \in {curGuest, None}
         /\ state'[t] \in {"none", "moribund"}
         /\ \A u \in Thread \ {t} : state'[u] = state[u]
  <1>. USE DEF Good
  <1>1. /\ state' = [state EXCEPT ![t] = IF detached[t] THEN "none" ELSE "moribund"]
        /\ alive' = IF detached[t] THEN alive \ {t} ELSE alive
        /\ dead' = [dead EXCEPT ![t] = TRUE]
        /\ curGuest' \in {curGuest, None}
    BY DEF Terminate
  <1>2. UNCHANGED <<suspend, prio, base, owner, count, held, timers>>
    BY DEF prioVars, mutexVars
  <1>3. /\ state'[t] \in {"none", "moribund"} /\ state' \in [Thread -> State]
        /\ \A u \in Thread \ {t} : state'[u] = state[u]
        /\ alive' \subseteq Thread
    BY <1>1 DEF TypeOK, State
  <1>4. /\ dead' \in [Thread -> BOOLEAN] /\ \A u \in Thread \ {t} : dead'[u] = dead[u]
    <2>1. dead \in [Thread -> BOOLEAN] /\ TRUE \in BOOLEAN
      BY DEF TypeOK
    <2>. QED BY ONLY <1>1, <2>1, t \in Thread, Zenon
  <1>5. /\ Queues(q', pending', [Home EXCEPT ![t] = None], prio')
        /\ queue' \in [Thread -> Queue \cup {None}]
        /\ \A u \in Thread \ {t} : queue'[u] = queue[u]
    <2>1. /\ Queues(q, pending, Home, prio) /\ Home \in [Thread -> Queue \cup {None}]
          /\ Home[t] # None => queue[t] = Home[t]
      BY HomeFacts DEF QueueInv
    <2>. HIDE DEF Home
    <2>2. CASE Home[t] # None
      <3>1. q' = Unlinked(t) /\ pending' = Unmarked(t) /\ queue' = [queue EXCEPT ![t] = None]
        BY <2>2 DEF Unlink
      <3>2. \A u \in Thread \ {t} : prio[u] = prio[u]
        OBVIOUS
      <3>3. Queues(Unlinked(t), Unmarked(t), [Home EXCEPT ![t] = None], prio)
        BY <2>1, <2>2, <3>2, TakenOut
      <3>. QED BY <1>2, <3>1, <3>3 DEF TypeOK
    <2>3. CASE Home[t] = None
      <3>1. UNCHANGED <<q, queue, pending>>
        BY <2>3 DEF linkVars
      <3>2. [Home EXCEPT ![t] = None] = Home
        BY <2>1, <2>3
      <3>. QED BY <1>2, <2>1, <3>1, <3>2 DEF TypeOK
    <2>. QED BY <2>2, <2>3
  <1>6. QueueInv' /\ q' \in [Queue -> Seq(Thread)] /\ pending' \subseteq Priority
    <2>1. None = IF state'[t] = "waiting" THEN queue'[t]
                 ELSE IF state'[t] = "ready" /\ suspend'[t] = 0 THEN RunQ(prio'[t]) ELSE None
      BY <1>3
    <2>2. \A u \in Thread \ {t} : /\ state'[u] = state[u] /\ suspend'[u] = suspend[u]
                                  /\ queue'[u] = queue[u] /\ prio'[u] = prio[u]
      BY <1>2, <1>3, <1>5
    <2>3. state'[t] # "waiting"
      BY <1>3
    <2>. HIDE DEF Home
    <2>. QED BY <1>3, <1>5, <2>1, <2>2, <2>3, MovedKept
  <1>7. LifeInv'
    <2>1. (\A u \in Thread : dead[u] => Terminated(u))'
      BY <1>3, <1>4 DEF LifeInv, Terminated
    <2>2. (\A u \in timers : suspend[u] > 0 \/ Terminated(u))'
      <3>1. \A u \in timers : suspend[u] > 0 \/ Terminated(u)
        BY NotArming
      <3>. QED BY <1>2, <1>3, <3>1 DEF Terminated, TypeOK
    <2>3. (alive = {u \in Thread : state[u] # "none"})'
      BY <1>1, <1>3 DEF LifeInv, Terminated, TypeOK
    <2>4. (\A m \in Mutex : count[m] > 0 <=> owner[m] # None)'
      BY <1>2 DEF LifeInv
    <2>. QED BY <2>1, <2>2, <2>3, <2>4 DEF LifeInv
  <1>. QED BY <1>1, <1>3, <1>4, <1>5, <1>6, <1>7

\* OSExitThread.
LEMMA ExitThreadStep ==
  ASSUME Good, ExitThread, UNCHANGED game
  PROVE  Good'
  <1>. USE DEF Good
  <1>1. Executing /\ GuestCode /\ ~Top("SuspendThread")
    BY ModeOf DEF ExitThread, GuestCalls, GuestCode, Top
  <1>2. /\ running = active /\ current = active /\ state[active] = "running" /\ active \in Thread
        /\ disabled = 0
    BY <1>1, ExecutingRest DEF ExitThread
  <1>. DEFINE f == Frame("Exited", None)
  <1>3. f \in FrameType /\ PlainFrame(active, f) /\ \A hint : Stops(hint, f)
    BY Frames DEF PlainFrame, Stops
  <1>4. Terminate(active, <<f>>)
    BY <1>2 DEF ExitThread
  <1>. HIDE DEF f
  <1>5. UNCHANGED <<suspend, prio, base, q, queue, pending, owner, count, held, waitMutex, disabled,
                    running, current, active, detached, timers, resched>>
    BY DEF ExitThread, prioVars, linkVars, mutexVars, ctxVars
  <1>6. /\ stack' \in [Thread -> Seq(FrameType)]
        /\ Plain(active, stack'[active]) /\ Guarded(resched', stack'[active])
        /\ \A u \in Thread \ {active} : stack'[u] = stack[u]
    BY <1>1, <1>2, <1>3, <1>4, EndStack
  <1>7. /\ QueueInv' /\ LifeInv'
        /\ state' \in [Thread -> State] /\ alive' \subseteq Thread
        /\ dead' \in [Thread -> BOOLEAN] /\ curGuest' \in {curGuest, None}
        /\ state'[active] \in {"none", "moribund"}
        /\ \A u \in Thread \ {active} : state'[u] = state[u]
    <2>1. ~Terminated(active) /\ Home[active] = None
      BY <1>2 DEF Terminated, Home
    <2>. HIDE DEF Home
    <2>. QED BY <1>1, <1>2, <1>4, <1>5, <2>1, Ended DEF linkVars, prioVars, mutexVars
  <1>8. TypeOK'
    BY <1>5, <1>6, <1>7 DEF TypeOK
  <1>9. FiberInv'
    <2>1. Leaving'
      BY <1>2, <1>5, <1>6, <1>7 DEF Leaving
    <2>2. (\A u \in Thread : state[u] = "running" => u = active /\ suspend[u] = 0)'
      BY <1>5, <1>7 DEF FiberInv
    <2>3. (\A u \in Thread \ {active} : Parting(u))'
      BY <1>5, <1>6, PartedKept
    <2>. QED BY <1>5, <1>7, <2>1, <2>2, <2>3 DEF FiberInv
  <1>. QED BY <1>7, <1>8, <1>9

\* OSCancelThread.
LEMMA CancelThreadStep ==
  ASSUME Good, NEW t \in Thread, CancelThread(t), UNCHANGED game
  PROVE  Good'
  <1>. USE DEF Good
  <1>1. Executing /\ GuestCode /\ ~Top("SuspendThread")
    BY ModeOf DEF CancelThread, GuestCalls, GuestCode, Top
  <1>2. /\ running = active /\ current = active /\ state[active] = "running" /\ active \in Thread
    BY <1>1, ExecutingRest
  <1>3. IfResched \in FrameType /\ PlainFrame(active, IfResched) /\ Stops(TRUE, IfResched)
    BY SelectFrames DEF PlainFrame, Stops
  <1>4. Terminate(t, <<IfResched>>) /\ ~Terminated(t) /\ (t = active => disabled = 0)
        /\ resched' = (resched \/ state[t] = "running")
    BY DEF CancelThread
  <1>5. UNCHANGED <<suspend, prio, base, owner, count, held, waitMutex, disabled,
                    running, current, active, detached, timers>>
    BY DEF CancelThread, prioVars, mutexVars, ctxVars
  <1>6. /\ stack' \in [Thread -> Seq(FrameType)]
        /\ Plain(active, stack'[active]) /\ Guarded(TRUE, stack'[active])
        /\ \A u \in Thread \ {active} : stack'[u] = IF u = t THEN <<>> ELSE stack[u]
    BY <1>1, <1>3, <1>4, EndStack
  <1>7. /\ QueueInv' /\ LifeInv'
        /\ q' \in [Queue -> Seq(Thread)] /\ pending' \subseteq Priority
        /\ queue' \in [Thread -> Queue \cup {None}]
        /\ state' \in [Thread -> State] /\ alive' \subseteq Thread
        /\ dead' \in [Thread -> BOOLEAN] /\ curGuest' \in {curGuest, None}
        /\ state'[t] \in {"none", "moribund"}
        /\ \A u \in Thread \ {t} : state'[u] = state[u]
    <2>1. InQueue(t) <=> Home[t] # None
      <3>1. suspend[t] < 1 <=> suspend[t] = 0
        BY DEF TypeOK
      <3>. QED BY <3>1, HomeFacts DEF InQueue
    <2>2. IF Home[t] # None THEN Unlink(t) ELSE UNCHANGED linkVars
      BY <2>1 DEF CancelThread
    <2>3. UNCHANGED <<suspend, prioVars, mutexVars, timers>>
      BY DEF CancelThread
    <2>. HIDE DEF Home
    <2>. QED BY <1>1, <1>4, <2>2, <2>3, Ended
  <1>8. TypeOK'
    BY <1>4, <1>5, <1>6, <1>7 DEF TypeOK
  <1>9. FiberInv'
    <2>1. (Executing \/ Leaving)'
      <3>1. CASE t = active
        <4>1. Leaving'
          BY <1>2, <1>4, <1>5, <1>6, <1>7, <3>1 DEF Leaving
        <4>. QED BY <4>1
      <3>2. CASE t # active
        <4>1. Executing'
          BY <1>2, <1>5, <1>6, <1>7, <3>2 DEF Executing
        <4>. QED BY <4>1
      <3>. QED BY <3>1, <3>2
    <2>2. (\A u \in Thread : state[u] = "running" => u = active /\ suspend[u] = 0)'
      BY <1>5, <1>7 DEF FiberInv
    <2>3. (\A u \in Thread \ {active} : Parting(u))'
      BY <1>5, <1>6, EmptyStack DEF FiberInv, Parting
    <2>. QED BY <1>5, <1>7, <2>1, <2>2, <2>3 DEF FiberInv
  <1>. QED BY <1>7, <1>8, <1>9

-----------------------------------------------------------------------------
(* Waking the threads of a queue.                                          *)

\* A wake-up moves its threads from the queue they wait in to the run queues.
LEMMA WakeKept ==
  ASSUME TypeOK, QueueInv, \A t \in Thread : dead[t] => Terminated(t),
         NEW x \in BlockQueues, Wake(x), UNCHANGED <<prio, suspend>>
  PROVE  /\ QueueInv'
         /\ q' \in [Queue -> Seq(Thread)] /\ pending' \subseteq Priority
         /\ queue' \in [Thread -> Queue \cup {None}]
         /\ state' \in [Thread -> State]
         /\ \A t \in Thread : state'[t] = state[t] \/ (state[t] = "waiting" /\ state'[t] = "ready")
         /\ resched' \in BOOLEAN /\ (resched => resched')
  <1>1. /\ Queues(q, pending, Home, prio) /\ Home \in [Thread -> Queue \cup {None}]
        /\ prio \in [Thread -> Nat] /\ q \in [Queue -> Seq(Thread)] /\ x \in Queue
    BY HomeFacts, PriorityFacts, Addresses DEF QueueInv, TypeOK
  <1>2. /\ Popped(x) \in Seq(Thread)
        /\ \A t \in Range(Popped(x)) : t \in Range(q[x])
        /\ Range(Awake(x)) = {t \in Wakes(x) : suspend[t] < 1}
    BY <1>1, PoppedFrom
  <1>3. ASSUME NEW t \in Range(Popped(x))
        PROVE  /\ t \in Thread /\ state[t] = "waiting" /\ t \in Wakes(x)
               /\ suspend[t] < 1 <=> suspend[t] = 0
    <2>1. t \in Thread
      BY <1>2 DEF Range
    <2>2. Home[t] = x
      BY <1>1, <1>2 DEF Queues
    <2>3. Home[t] \in BlockQueues /\ Home[t] # None
      BY <1>1, <2>2, QueueAssumption
    <2>4. state[t] = "waiting"
      <3>1. \A p \in Priority : RunQ(p) \notin BlockQueues
        BY Addresses
      <3>. QED BY <2>1, <2>3, <3>1, HomeFacts
    <2>5. ~Terminated(t) /\ ~dead[t]
      BY <2>1, <2>4 DEF Terminated
    <2>6. suspend[t] \in Nat
      BY <2>1 DEF TypeOK
    <2>. QED BY <2>1, <2>4, <2>5, <2>6 DEF Wakes
  <1>4. Wakes(x) = Range(Popped(x))
    BY <1>3 DEF Wakes
  <1>5. Range(Awake(x)) = {t \in Range(Popped(x)) : suspend[t] = 0}
    BY <1>2, <1>3, <1>4
  <1>6. \A t \in Range(Awake(x)) : prio[t] \in Priority /\ RunPriority(t) = prio[t]
    <2>1. \A t \in Range(Awake(x)) : prio[t] \in Priority
      BY <1>3, <1>5 DEF QueueInv, Terminated
    <2>. QED BY <2>1, ConstantsAssumption DEF RunPriority, Priority
  <1>. DEFINE homes == WokenHomes(x, Home)
  <1>7. Queues(WokenLinks(x), WokenBits(x), homes, prio)
    <2>1. \A p \in Priority : \A t \in Thread : Home[t] = RunQ(p) => prio[t] = p
      BY HomeFacts
    <2>2. \A t \in Wakes(x) : suspend[t] < 1 => prio[t] \in Priority
      BY <1>2, <1>6
    <2>. HIDE DEF Home
    <2>. QED BY <1>1, <2>1, <2>2, Woken
  <1>8. /\ q' = WokenLinks(x) /\ pending' = WokenBits(x)
        /\ queue' = [t \in Thread |-> IF t \in Range(Awake(x)) THEN RunQ(prio[t]) ELSE queue[t]]
        /\ state' = [t \in Thread |-> IF t \in Range(Popped(x)) THEN "ready" ELSE state[t]]
        /\ resched' = (resched \/ Awake(x) # <<>>)
    <2>1. q' = WokenLinks(x)
      BY DEF Wake, WakeLinks, WokenLinks, AwakeAt
    <2>2. pending' = WokenBits(x)
      BY DEF Wake, WakeLinks, WokenBits
    <2>3. queue' = [t \in Thread |-> IF t \in Range(Awake(x)) THEN RunQ(prio[t]) ELSE queue[t]]
      BY <1>4, <1>6 DEF Wake, WakeLinks
    <2>4. state' = [t \in Thread |-> IF t \in Range(Popped(x)) THEN "ready" ELSE state[t]]
      BY <1>4 DEF Wake, WokenStates
    <2>. QED BY <2>1, <2>2, <2>3, <2>4 DEF Wake
  <1>9. \A t \in Thread : homes[t] = IF t \in Range(Awake(x)) THEN RunQ(prio[t])
                                     ELSE IF t \in Range(Popped(x)) THEN None ELSE Home[t]
    <2>. HIDE DEF Home
    <2>. QED BY <1>6 DEF WokenHomes
  <1>10. Home' = homes
    <2>1. \A t \in Thread : Home'[t] = homes[t]
      <3>. TAKE t \in Thread
      <3>1. CASE t \in Range(Awake(x))
        <4>1. state'[t] = "ready" /\ suspend'[t] = 0 /\ prio'[t] = prio[t]
          BY <1>5, <1>8, <3>1
        <4>. QED BY <1>9, <3>1, <4>1 DEF Home
      <3>2. CASE t \notin Range(Awake(x)) /\ t \in Range(Popped(x))
        <4>1. state'[t] = "ready" /\ suspend'[t] # 0
          BY <1>5, <1>8, <3>2
        <4>. QED BY <1>9, <3>2, <4>1 DEF Home
      <3>3. CASE t \notin Range(Awake(x)) /\ t \notin Range(Popped(x))
        <4>1. state'[t] = state[t] /\ suspend'[t] = suspend[t] /\ prio'[t] = prio[t]
              /\ queue'[t] = queue[t]
          BY <1>8, <3>3
        <4>. QED BY <1>9, <3>3, <4>1 DEF Home
      <3>. QED BY <3>1, <3>2, <3>3
    <2>2. Home' = [t \in Thread |-> Home'[t]]
      BY DEF Home
    <2>3. homes = [t \in Thread |-> homes[t]]
      BY DEF WokenHomes
    <2>. QED BY <2>1, <2>2, <2>3
  <1>. HIDE DEF homes
  <1>11. Queues(q, pending, Home, prio)'
    BY <1>7, <1>8, <1>10 DEF Queues
  <1>12. (\A t \in Thread : state[t] = "waiting" => queue[t] \in BlockQueues)'
    BY <1>5, <1>8 DEF QueueInv
  <1>13. (\A t \in Thread : Home[t] # None => queue[t] = Home[t])'
    <2>1. \A t \in Thread : Home[t] # None => queue[t] = Home[t]
      BY HomeFacts
    <2>. HIDE DEF Home
    <2>. QED BY <2>1, <1>5, <1>8, <1>9, <1>10
  <1>14. (\A t \in Thread : suspend[t] = 0 /\ ~Terminated(t) => prio[t] \in Priority)'
    <2>. SUFFICES ASSUME NEW t \in Thread, suspend[t] = 0, ~Terminated(t)'
                  PROVE  prio[t] \in Priority
      OBVIOUS
    <2>1. ~Terminated(t)
      BY <1>3, <1>8 DEF Terminated
    <2>. QED BY <2>1 DEF QueueInv
  <1>15. queue' \in [Thread -> Queue \cup {None}] /\ state' \in [Thread -> State]
    <2>1. \A t \in Range(Awake(x)) : RunQ(prio[t]) \in Queue
      BY <1>6, Addresses
    <2>. QED BY <1>8, <2>1 DEF TypeOK, State
  <1>16. q' \in [Queue -> Seq(Thread)] /\ pending' \subseteq Priority
    BY <1>11 DEF Queues
  <1>17. \A t \in Thread : state'[t] = state[t] \/ (state[t] = "waiting" /\ state'[t] = "ready")
    BY <1>3, <1>8
  <1>18. resched' \in BOOLEAN /\ (resched => resched')
    BY <1>8 DEF TypeOK
  <1>. QED BY <1>11, <1>12, <1>13, <1>14, <1>15, <1>16, <1>17, <1>18 DEF QueueInv

\* What a wake-up leaves to show: the call stack of the fiber that made it.
LEMMA WakeStep ==
  ASSUME Good, NEW x \in BlockQueues, Wake(x), ~Top("SuspendThread"), FiberInv',
         stack' \in [Thread -> Seq(FrameType)],
         UNCHANGED <<game, suspend, prioVars, mutexVars, waitMutex, disabled, ctxVars, timers,
                     fiberVars, detached, alive>>
  PROVE  Good'
  <1>. USE DEF Good
  <1>1. UNCHANGED <<game, suspend, prio, base, owner, count, held, waitMutex, disabled, running,
                    current, active, curGuest, dead, detached, alive, timers>>
    BY DEF prioVars, mutexVars, ctxVars, fiberVars
  <1>2. /\ QueueInv'
        /\ q' \in [Queue -> Seq(Thread)] /\ pending' \subseteq Priority
        /\ queue' \in [Thread -> Queue \cup {None}]
        /\ state' \in [Thread -> State]
        /\ \A t \in Thread : state'[t] = state[t] \/ (state[t] = "waiting" /\ state'[t] = "ready")
        /\ resched' \in BOOLEAN
    BY <1>1, WakeKept DEF LifeInv
  <1>3. TypeOK'
    BY <1>1, <1>2 DEF TypeOK
  <1>4. LifeInv'
    <2>1. \A t \in Thread : Terminated(t) => Terminated(t)'
      BY <1>2 DEF Terminated
    <2>2. \A t \in timers' : suspend'[t] > 0 \/ Terminated(t)'
      BY <1>1, <2>1, NotArming DEF TypeOK
    <2>3. \A t \in Thread : \/ state'[t] = state[t]
                            \/ {state[t], state'[t]} \cap {"none", "moribund"} = {}
      BY <1>2
    <2>. QED BY <1>1, <2>2, <2>3, LifeKept DEF LifeInv
  <1>. QED BY <1>2, <1>3, <1>4

\* The fiber that wakes the threads of x is still in its mode.
LEMMA WakeFacts ==
  ASSUME Good, NEW x \in BlockQueues, Wake(x), UNCHANGED <<suspend, prioVars>>
  PROVE  /\ \A t \in Thread : state'[t] = "running" <=> state[t] = "running"
         /\ resched => resched'
  <1>1. \A t \in Thread : state'[t] = state[t] \/ (state[t] = "waiting" /\ state'[t] = "ready")
    BY WakeKept DEF Good, LifeInv, prioVars
  <1>2. resched => resched'
    BY WakeKept DEF Good, LifeInv, prioVars
  <1>. QED BY <1>1, <1>2

\* An interrupt wakes a queue while the processor idles.
LEMMA IdleInterruptStep ==
  ASSUME Good, NEW w \in WaitQueue, IdleInterrupt(w), UNCHANGED game
  PROVE  Good'
  <1>. USE DEF Good
  <1>1. Idle /\ ~Top("SuspendThread")
    BY ModeOf DEF IdleInterrupt, Top
  <1>2. WaitQ(w) \in BlockQueues
    BY Addresses
  <1>3. /\ Wake(WaitQ(w))
        /\ UNCHANGED <<suspend, prioVars, mutexVars, waitMutex, disabled, ctxVars, timers,
                       fiberVars, detached, alive, stack>>
    BY DEF IdleInterrupt
  <1>4. \A t \in Thread : state'[t] = "running" <=> state[t] = "running"
    BY <1>2, <1>3, WakeFacts
  <1>5. FiberInv'
    <2>1. active \in Thread /\ active' = active
      BY <1>3 DEF TypeOK, fiberVars
    <2>2. Idle'
      BY <1>1, <1>3, <1>4, <2>1 DEF Idle, ctxVars
    <2>3. (\A t \in Thread \ {active} : Parting(t))'
      BY <1>3, <2>1, PartedKept
    <2>4. (\A t \in Thread : state[t] = "running" => t = active /\ suspend[t] = 0)'
      BY <1>3, <1>4, <2>1 DEF FiberInv
    <2>. QED BY <1>3, <2>1, <2>2, <2>3, <2>4 DEF FiberInv, fiberVars
  <1>. QED BY <1>1, <1>2, <1>3, <1>5, WakeStep DEF TypeOK

\* An interrupt wakes a queue while guest code runs.
LEMMA InterruptStep ==
  ASSUME Good, NEW w \in WaitQueue, Interrupt(w), UNCHANGED game
  PROVE  Good'
  <1>. USE DEF Good
  <1>1. Executing /\ ~Top("SuspendThread")
    BY ModeOf DEF Interrupt, GuestCalls, GuestCode, Top
  <1>2. WaitQ(w) \in BlockQueues
    BY Addresses
  <1>. DEFINE s == <<IfResched>> \o Rest
  <1>3. /\ Wake(WaitQ(w)) /\ stack' = [stack EXCEPT ![active] = s]
        /\ UNCHANGED <<suspend, prioVars, mutexVars, waitMutex, disabled, ctxVars, timers,
                       fiberVars, detached, alive>>
    BY DEF Interrupt, Continue
  <1>4. s \in Seq(FrameType) /\ Plain(active, s)
    BY <1>1, ExecutingRest, SelectFrames, PushedFrame DEF Quiet
  <1>. HIDE DEF s
  <1>5. /\ stack' \in [Thread -> Seq(FrameType)] /\ stack'[active] = s
        /\ \A u \in Thread \ {active} : stack'[u] = stack[u]
    BY <1>3, <1>4, ContinueStack
  <1>6. \A t \in Thread : state'[t] = "running" <=> state[t] = "running"
    BY <1>2, <1>3, WakeFacts
  <1>7. FiberInv'
    <2>1. (\A t \in Thread \ {active} : Parting(t))'
      BY <1>3, <1>5, PartedKept DEF fiberVars
    <2>. QED BY <1>1, <1>3, <1>4, <1>5, <1>6, <2>1, ExecutingRest, StillExecuting
             DEF fiberVars, FiberInv
  <1>. QED BY <1>1, <1>2, <1>3, <1>5, <1>7, WakeStep

\* OSWakeupThread.
LEMMA WakeupThreadStep ==
  ASSUME Good, NEW x \in BlockQueues, WakeupThread(x), UNCHANGED game
  PROVE  Good'
  <1>. USE DEF Good
  <1>1. \/ Executing /\ stack[active] = <<>>
        \/ stack[active] # <<>> /\ Head(stack[active]).call = "WakeupThread"
    BY ModeOf DEF WakeupThread, Called, GuestCalls, GuestCode, Top
  <1>2. ~Top("SuspendThread")
    BY <1>1 DEF Top
  <1>3. Rest \in Seq(FrameType)
    BY TopFrame
  <1>. DEFINE s == (IF Awake(x) # <<>> THEN <<SelectFrame>> ELSE <<>>) \o Rest
  <1>4. /\ Wake(x) /\ stack' = [stack EXCEPT ![active] = s]
        /\ UNCHANGED <<suspend, prioVars, mutexVars, waitMutex, disabled, ctxVars, timers,
                       fiberVars, detached, alive>>
    BY DEF WakeupThread, Continue
  <1>5. s \in Seq(FrameType) /\ Pushed(s, Rest)
    <2>1. CASE Awake(x) # <<>>
      <3>1. s = <<SelectFrame>> \o Rest
        BY <2>1
      <3>. QED BY <1>3, <3>1, SelectFrames, ConsSeq DEF Pushed, Selecting
    <2>2. CASE Awake(x) = <<>>
      <3>1. s = Rest
        BY <1>3, <2>2, ConcatEmptySeq
      <3>. QED BY <1>3, <3>1 DEF Pushed
    <2>. QED BY <2>1, <2>2
  <1>. HIDE DEF s
  <1>6. /\ stack' \in [Thread -> Seq(FrameType)] /\ stack'[active] = s
        /\ \A u \in Thread \ {active} : stack'[u] = stack[u]
    BY <1>4, <1>5, ContinueStack
  <1>7. /\ \A t \in Thread : state'[t] = "running" <=> state[t] = "running"
        /\ resched => resched'
    BY <1>4, WakeFacts
  <1>8. FiberInv'
    <2>1. CASE Executing /\ stack[active] = <<>>
      <3>1. (\A t \in Thread \ {active} : Parting(t))'
        BY <1>4, <1>6, PartedKept DEF fiberVars
      <3>2. Plain(active, stack'[active])
        BY <1>3, <1>5, <1>6, <2>1, ExecutingRest, PushedKeeps
      <3>. QED BY <1>4, <1>6, <1>7, <2>1, <3>1, <3>2, ExecutingRest, StillExecuting
               DEF fiberVars, FiberInv
    <2>2. CASE stack[active] # <<>> /\ Head(stack[active]).call = "WakeupThread"
      <3>1. Head(stack[active]).call \in Quiet /\ ~Top("IfResched")
        BY <2>2 DEF Quiet, Top
      <3>2. \A t \in Thread : state[t] = "running" => suspend'[t] = suspend[t]
        BY <1>4
      <3>. QED BY <1>4, <1>5, <1>6, <1>7, <2>2, <3>1, <3>2, QuietFiber DEF ctxVars
    <2>. QED BY <1>1, <2>1, <2>2
  <1>. QED BY <1>2, <1>4, <1>6, <1>8, WakeStep

-----------------------------------------------------------------------------
(* Suspending and resuming a thread.                                       *)

\* The calls that come before SelectThread when a waiting thread is suspended
\* or resumed.
LEMMA PropagateStack ==
  ASSUME TypeOK, NEW m \in Mutex \cup {None}
  PROVE  /\ (PropagateFrom(m) \o <<IfResched>>) \o Rest \in Seq(FrameType)
         /\ Pushed((PropagateFrom(m) \o <<IfResched>>) \o Rest, Rest)
  <1>1. Rest \in Seq(FrameType) /\ IfResched \in FrameType /\ IfResched.call \in Quiet
    BY TopFrame, SelectFrames DEF Quiet
  <1>. DEFINE r == <<IfResched>> \o Rest
  <1>2. r \in Seq(FrameType) /\ Pushed(r, Rest)
    BY <1>1, ConsSeq DEF Pushed
  <1>3. CASE m = None \/ owner[m] = None
    <2>1. (PropagateFrom(m) \o <<IfResched>>) \o Rest = r
      BY <1>1, <1>3, Pushes DEF PropagateFrom
    <2>. QED BY <1>2, <2>1
  <1>4. CASE ~(m = None \/ owner[m] = None)
    <2>. DEFINE f == Frame("Propagate", owner[m])
    <2>1. owner[m] \in Thread
      BY <1>4 DEF TypeOK
    <2>2. f \in FrameType /\ f.call \in Quiet
      BY <2>1, Frames DEF Quiet
    <2>3. PropagateFrom(m) = <<f>>
      BY <1>4 DEF PropagateFrom
    <2>. HIDE DEF f
    <2>4. (<<f>> \o <<IfResched>>) \o Rest = <<f>> \o r
      BY <1>1, <2>2, Pushes
    <2>5. <<f>> \o r \in Seq(FrameType)
      BY <1>2, <2>2, ConsSeq
    <2>6. Pushed(<<f>> \o r, Rest)
      BY <1>1, <2>2 DEF Pushed
    <2>. QED BY <2>3, <2>4, <2>5, <2>6
  <1>. QED BY <1>3, <1>4

\* A thread changes and stays where it is linked.
LEMMA StaysKept ==
  ASSUME TypeOK, QueueInv, NEW t \in Thread, UNCHANGED <<q, pending, queue, prio>>,
         \A u \in Thread \ {t} : state'[u] = state[u] /\ suspend'[u] = suspend[u],
         Home[t] = IF state'[t] = "waiting" THEN queue[t]
                   ELSE IF state'[t] = "ready" /\ suspend'[t] = 0 THEN RunQ(prio[t]) ELSE None,
         state'[t] = "waiting" => state[t] = "waiting",
         suspend'[t] # 0 \/ state'[t] \in {"none", "moribund"}
  PROVE  QueueInv'
  <1>1. /\ Queues(q, pending, Home, prio) /\ Home \in [Thread -> Queue \cup {None}]
        /\ Home[t] # None => queue[t] = Home[t]
        /\ state[t] = "waiting" => queue[t] \in BlockQueues
    BY HomeFacts DEF QueueInv
  <1>. HIDE DEF Home
  <1>2. [Home EXCEPT ![t] = Home[t]] = Home
    BY <1>1
  <1>3. Queues(q', pending', [Home EXCEPT ![t] = Home[t]], prio')
    BY <1>1, <1>2
  <1>4. Home[t] = IF state'[t] = "waiting" THEN queue'[t]
                  ELSE IF state'[t] = "ready" /\ suspend'[t] = 0 THEN RunQ(prio'[t]) ELSE None
    OBVIOUS
  <1>5. /\ state'[t] = "waiting" => queue'[t] \in BlockQueues
        /\ Home[t] # None => queue'[t] = Home[t]
        /\ \A u \in Thread \ {t} : /\ state'[u] = state[u] /\ suspend'[u] = suspend[u]
                                   /\ queue'[u] = queue[u] /\ prio'[u] = prio[u]
    BY <1>1
  <1>. QED BY <1>3, <1>4, <1>5, MovedKept

\* OSSuspendThread, of the running thread or of another.
LEMMA SuspendThreadStep ==
  ASSUME Good, NEW t \in Thread, SuspendThread(t), UNCHANGED game
  PROVE  Good'
  <1>. USE DEF Good
  <1>1. /\ Executing \/ Arming
        /\ Arming => t = active
        /\ t = active => disabled = 0
    <2>1. CASE GuestCode
      <3>1. Executing /\ ~Arming
        BY <2>1, ModeOf DEF Arming, Top, GuestCode
      <3>. QED BY <2>1, <3>1 DEF SuspendThread
    <2>2. CASE ~GuestCode /\ Top("SuspendThread") /\ Arg = t
      <3>1. Arming
        BY <2>2, ModeOf DEF Top
      <3>. QED BY <2>2, <3>1 DEF Arming
    <2>. QED BY <2>1, <2>2 DEF SuspendThread, Called, GuestCalls
  <1>2. /\ running = active /\ current = active /\ state[active] = "running"
        /\ active \in Thread /\ suspend[active] = 0
        /\ Rest \in Seq(FrameType) /\ Plain(active, Rest)
    BY <1>1, ExecutingRest, TopFrame DEF Arming, FiberInv
  <1>3. /\ suspend' = [suspend EXCEPT ![t] = @ + 1]
        /\ UNCHANGED <<base, owner, count, held, waitMutex, disabled, running, current, timers,
                       active, curGuest, dead, detached, alive>>
    BY DEF SuspendThread, mutexVars, ctxVars, fiberVars
  <1>4. /\ suspend[t] \in Nat /\ suspend'[t] = suspend[t] + 1 /\ suspend'[t] > 0 /\ suspend'[t] # 0
        /\ \A u \in Thread \ {t} : suspend'[u] = suspend[u]
        /\ suspend' \in [Thread -> Nat]
    <2>1. suspend \in [Thread -> Nat]
      BY DEF TypeOK
    <2>. QED BY ONLY <1>3, <2>1, t \in Thread
  <1>. DEFINE i == <<IfResched>> \o Rest
  <1>5. /\ i \in Seq(FrameType) /\ Pushed(i, Rest) /\ Guarded(TRUE, i)
        /\ Rest = <<>> \o Rest /\ Pushed(Rest, Rest)
    BY <1>2, SelectFrames, ConsSeq, GuardedCons, ConcatEmptySeq DEF Pushed, Quiet, Stops
  \* The links, the state of t and the calls in each case.
  <1>6. /\ QueueInv'
        /\ q' \in [Queue -> Seq(Thread)] /\ pending' \subseteq Priority
        /\ queue' \in [Thread -> Queue \cup {None}] /\ prio' \in [Thread -> AnyPriority]
        /\ state' \in [Thread -> State] /\ resched' \in BOOLEAN
        /\ \A u \in Thread \ {t} : state'[u] = state[u]
        /\ \/ state'[t] = state[t] /\ t # active
           \/ t = active /\ state'[t] = "ready" /\ resched' = TRUE /\ stack'[active] = i
        /\ \E s \in Seq(FrameType) : Pushed(s, Rest) /\ stack' = [stack EXCEPT ![active] = s]
    <2>1. CASE /\ suspend[t] > 0
               /\ Return
               /\ UNCHANGED <<state, prio, linkVars, resched>>
      <3>1. t # active
        BY <1>2, <2>1
      <3>2. stack' = [stack EXCEPT ![active] = Rest]
        BY <1>5, <2>1 DEF Return, Continue
      <3>3. UNCHANGED <<q, pending, queue, prio, state, resched>>
        BY <2>1 DEF linkVars
      <3>4. Home[t] = IF state'[t] = "waiting" THEN queue[t]
                      ELSE IF state'[t] = "ready" /\ suspend'[t] = 0 THEN RunQ(prio[t]) ELSE None
        BY <1>4, <2>1, <3>3 DEF Home
      <3>. HIDE DEF Home
      <3>5. QueueInv'
        BY <1>4, <3>3, <3>4, StaysKept
      <3>. QED BY <1>2, <1>5, <3>1, <3>2, <3>3, <3>5 DEF TypeOK
    <2>2. CASE /\ suspend[t] = 0
               /\ state[t] = "ready"
               /\ Unlink(t)
               /\ Continue(<<IfResched>>, Rest)
               /\ UNCHANGED <<state, prio, resched>>
      <3>1. t # active
        BY <1>2, <2>2
      <3>2. stack' = [stack EXCEPT ![active] = i]
        BY <2>2 DEF Continue
      <3>3. /\ Queues(q, pending, Home, prio) /\ Home \in [Thread -> Queue \cup {None}]
            /\ Home[t] # None /\ queue[t] = Home[t]
        BY <2>2, HomeFacts DEF QueueInv
      <3>4. q' = Unlinked(t) /\ pending' = Unmarked(t) /\ queue' = [queue EXCEPT ![t] = None]
        BY <2>2 DEF Unlink
      <3>. HIDE DEF Home
      <3>5. Queues(q', pending', [Home EXCEPT ![t] = None], prio')
        <4>1. \A u \in Thread \ {t} : prio[u] = prio[u]
          OBVIOUS
        <4>2. Queues(Unlinked(t), Unmarked(t), [Home EXCEPT ![t] = None], prio)
          BY <3>3, <4>1, TakenOut
        <4>. QED BY <2>2, <3>4, <4>2
      <3>6. /\ queue' \in [Thread -> Queue \cup {None}]
            /\ \A u \in Thread \ {t} : queue'[u] = queue[u]
        BY <3>4 DEF TypeOK
      <3>7. QueueInv' /\ q' \in [Queue -> Seq(Thread)] /\ pending' \subseteq Priority
        <4>1. None = IF state'[t] = "waiting" THEN queue'[t]
                     ELSE IF state'[t] = "ready" /\ suspend'[t] = 0 THEN RunQ(prio'[t]) ELSE None
          BY <1>4, <2>2
        <4>2. \A u \in Thread \ {t} : /\ state'[u] = state[u] /\ suspend'[u] = suspend[u]
                                      /\ queue'[u] = queue[u] /\ prio'[u] = prio[u]
          BY <1>4, <2>2, <3>6
        <4>3. state'[t] # "waiting" /\ suspend'[t] # 0
          BY <1>4, <2>2
        <4>. QED BY <3>5, <4>1, <4>2, <4>3, MovedKept
      <3>. QED BY <1>5, <2>2, <3>1, <3>2, <3>6, <3>7 DEF TypeOK
    <2>3. CASE /\ suspend[t] = 0
               /\ state[t] = "running"
               /\ state' = [state EXCEPT ![t] = "ready"]
               /\ resched' = TRUE
               /\ Continue(<<IfResched>>, Rest)
               /\ UNCHANGED <<prio, linkVars>>
      <3>1. t = active
        BY <2>3 DEF FiberInv
      <3>2. stack' = [stack EXCEPT ![active] = i]
        BY <2>3 DEF Continue
      <3>3. stack'[active] = i
        BY <1>5, <3>2, ContinueStack
      <3>4. /\ UNCHANGED <<q, pending, queue, prio>> /\ state'[t] = "ready"
            /\ state' \in [Thread -> State]
            /\ \A u \in Thread \ {t} : state'[u] = state[u]
        BY <2>3 DEF linkVars, TypeOK, State
      <3>5. Home[t] = IF state'[t] = "waiting" THEN queue[t]
                      ELSE IF state'[t] = "ready" /\ suspend'[t] = 0 THEN RunQ(prio[t]) ELSE None
        BY <1>4, <2>3, <3>4 DEF Home
      <3>. HIDE DEF Home
      <3>6. QueueInv'
        BY <1>4, <3>4, <3>5, StaysKept
      <3>. HIDE DEF i
      <3>. QED BY <1>5, <2>3, <3>1, <3>2, <3>3, <3>4, <3>6 DEF TypeOK
    <2>4. CASE /\ suspend[t] = 0
               /\ state[t] = "waiting"
               /\ Relink(t, queue[t], SuspendedWait)
               /\ Continue(PropagateFrom(waitMutex[t]) \o <<IfResched>>, Rest)
               /\ UNCHANGED <<state, resched>>
      <3>1. t # active
        BY <1>2, <2>4
      <3>. DEFINE s == (PropagateFrom(waitMutex[t]) \o <<IfResched>>) \o Rest
      <3>2. s \in Seq(FrameType) /\ Pushed(s, Rest)
        <4>1. waitMutex[t] \in Mutex \cup {None}
          BY DEF TypeOK
        <4>. QED BY <4>1, PropagateStack
      <3>3. stack' = [stack EXCEPT ![active] = s]
        BY <2>4 DEF Continue
      <3>. HIDE DEF s
      <3>4. queue[t] \in Queue /\ SuspendedWait \in AnyPriority
        BY <2>4, HomeFacts, Addresses, PriorityFacts
      <3>5. /\ QueueInv'
            /\ q' \in [Queue -> Seq(Thread)] /\ pending' \subseteq Priority
            /\ queue' \in [Thread -> Queue \cup {None}] /\ prio' \in [Thread -> AnyPriority]
        BY <1>4, <2>4, <3>4, RelinkKept
      <3>. HIDE DEF i
      <3>. QED BY <2>4, <3>1, <3>2, <3>3, <3>5 DEF TypeOK
    <2>5. CASE /\ suspend[t] = 0
               /\ Terminated(t)
               /\ Continue(<<IfResched>>, Rest)
               /\ UNCHANGED <<state, prio, linkVars, resched>>
      <3>1. t # active
        BY <1>2, <2>5 DEF Terminated
      <3>2. stack' = [stack EXCEPT ![active] = i]
        BY <2>5 DEF Continue
      <3>3. UNCHANGED <<q, pending, queue, prio, state, resched>>
        BY <2>5 DEF linkVars
      <3>4. Home[t] = IF state'[t] = "waiting" THEN queue[t]
                      ELSE IF state'[t] = "ready" /\ suspend'[t] = 0 THEN RunQ(prio[t]) ELSE None
        BY <1>4, <2>5, <3>3 DEF Home, Terminated
      <3>. HIDE DEF Home
      <3>5. QueueInv'
        BY <1>4, <3>3, <3>4, StaysKept
      <3>. HIDE DEF i
      <3>. QED BY <1>5, <3>1, <3>2, <3>3, <3>5 DEF TypeOK
    <2>. QED BY <2>1, <2>2, <2>3, <2>4, <2>5 DEF SuspendThread
  <1>7. /\ stack' \in [Thread -> Seq(FrameType)] /\ Plain(active, stack'[active])
        /\ \A u \in Thread \ {active} : stack'[u] = stack[u]
    <2>1. PICK s \in Seq(FrameType) : Pushed(s, Rest) /\ stack' = [stack EXCEPT ![active] = s]
      BY <1>6
    <2>2. Plain(active, s)
      BY <1>2, <2>1, PushedKeeps
    <2>. QED BY <2>1, <2>2, ContinueStack
  <1>. HIDE DEF i
  <1>8. TypeOK'
    BY <1>3, <1>4, <1>6, <1>7 DEF TypeOK
  <1>9. FiberInv'
    <2>1. (Executing \/ Leaving)'
      <3>1. CASE t # active
        <4>1. Executing'
          BY <1>2, <1>3, <1>6, <1>7, <3>1 DEF Executing
        <4>. QED BY <4>1
      <3>2. CASE t = active
        <4>1. Leaving'
          BY <1>1, <1>2, <1>3, <1>5, <1>6, <1>7, <3>2 DEF Leaving
        <4>. QED BY <4>1
      <3>. QED BY <3>1, <3>2
    <2>2. (\A u \in Thread : state[u] = "running" => u = active /\ suspend[u] = 0)'
      BY <1>3, <1>4, <1>6 DEF FiberInv
    <2>3. (\A u \in Thread \ {active} : Parting(u))'
      BY <1>3, <1>7, PartedKept
    <2>. QED BY <1>3, <2>1, <2>2, <2>3 DEF FiberInv
  <1>10. LifeInv'
    <2>1. \A u \in timers' : suspend'[u] > 0 \/ Terminated(u)'
      <3>. SUFFICES ASSUME NEW u \in timers PROVE suspend'[u] > 0 \/ Terminated(u)'
        BY <1>3
      <3>1. u \in Thread /\ (suspend[u] > 0 \/ Terminated(u) \/ (Arming /\ u = active))
        BY DEF LifeInv, TypeOK
      <3>2. CASE u = t
        BY <1>4, <3>2
      <3>3. CASE u # t
        BY <1>1, <1>4, <1>6, <3>1, <3>3 DEF Terminated
      <3>. QED BY <3>2, <3>3
    <2>2. \A u \in Thread : \/ state'[u] = state[u]
                            \/ {state[u], state'[u]} \cap {"none", "moribund"} = {}
      BY <1>2, <1>6
    <2>. QED BY <1>3, <2>1, <2>2, LifeKept DEF LifeInv
  <1>. QED BY <1>6, <1>8, <1>9, <1>10

\* OSResumeThread.
LEMMA ResumeThreadStep ==
  ASSUME Good, NEW t \in Thread, ResumeThread(t), UNCHANGED game
  PROVE  Good'
  <1>. USE DEF Good
  <1>1. \/ Executing /\ stack[active] = <<>>
        \/ stack[active] # <<>> /\ Head(stack[active]).call = "ResumeThread"
    BY ModeOf DEF ResumeThread, Called, GuestCalls, GuestCode, Top
  <1>2. ~Top("SuspendThread")
    BY <1>1 DEF Top
  <1>3. /\ Rest \in Seq(FrameType) /\ active \in Thread
        /\ suspend[t] > 0 /\ suspend[t] \in Nat /\ state[t] # "running"
    BY TopFrame DEF ResumeThread, FiberInv, TypeOK
  <1>4. /\ suspend' = [suspend EXCEPT ![t] = @ - 1] /\ timers' = TimersAfterResume(t)
        /\ UNCHANGED <<base, owner, count, held, waitMutex, disabled, running, current,
                       active, curGuest, dead, detached, alive>>
    BY DEF ResumeThread, mutexVars, ctxVars, fiberVars
  <1>5. /\ suspend'[t] = suspend[t] - 1 /\ \A u \in Thread \ {t} : suspend'[u] = suspend[u]
        /\ suspend' \in [Thread -> Nat]
        /\ suspend[t] = 1 => suspend'[t] = 0
        /\ suspend[t] # 1 => suspend'[t] > 0 /\ suspend'[t] # 0
    <2>1. suspend \in [Thread -> Nat]
      BY DEF TypeOK
    <2>2. /\ suspend'[t] = suspend[t] - 1 /\ \A u \in Thread \ {t} : suspend'[u] = suspend[u]
          /\ suspend[t] - 1 \in Nat
      BY <1>3, <1>4, <2>1
    <2>3. suspend' \in [Thread -> Nat]
      BY ONLY <1>4, <2>1, <2>2, t \in Thread
    <2>. QED BY <1>3, <2>2, <2>3
  <1>. DEFINE i == <<IfResched>> \o Rest
              p == Effective(t, held[t])
  <1>6. /\ i \in Seq(FrameType) /\ Pushed(i, Rest)
        /\ Rest = <<>> \o Rest /\ Pushed(Rest, Rest)
    BY <1>3, SelectFrames, ConsSeq, ConcatEmptySeq DEF Pushed, Quiet
  <1>7. p \in Priority /\ p \in AnyPriority
    <2>1. held[t] \in Seq(Mutex)
      BY DEF TypeOK
    <2>. QED BY <2>1, EffectivePriority, PriorityFacts
  <1>8. \/ /\ suspend[t] > 1
           /\ Return
           /\ UNCHANGED <<state, prio, linkVars, resched>>
        \/ /\ suspend[t] = 1
           /\ state[t] = "waiting"
           /\ Relink(t, queue[t], p)
           /\ Continue(PropagateFrom(waitMutex[t]) \o <<IfResched>>, Rest)
           /\ UNCHANGED <<state, resched>>
        \/ /\ suspend[t] = 1
           /\ state[t] = "ready"
           /\ state' = [state EXCEPT ![t] = "ready"]
           /\ prio' = [prio EXCEPT ![t] = p]
           /\ q' = Link(q, t, RunQ(p), p)
           /\ queue' = [queue EXCEPT ![t] = RunQ(p)]
           /\ pending' = pending \cup Mark(RunQ(p))
           /\ resched' = TRUE
           /\ Continue(<<IfResched>>, Rest)
        \/ /\ suspend[t] = 1
           /\ Terminated(t)
           /\ Continue(<<IfResched>>, Rest)
           /\ UNCHANGED <<state, prio, linkVars, resched>>
    BY <1>3 DEF ResumeThread
  <1>. HIDE DEF p
  \* The links and the calls in each case.
  <1>9. /\ QueueInv'
        /\ q' \in [Queue -> Seq(Thread)] /\ pending' \subseteq Priority
        /\ queue' \in [Thread -> Queue \cup {None}] /\ prio' \in [Thread -> AnyPriority]
        /\ resched' \in BOOLEAN /\ (resched => resched') /\ state' = state
        /\ \E s \in Seq(FrameType) : Pushed(s, Rest) /\ stack' = [stack EXCEPT ![active] = s]
    <2>1. CASE /\ suspend[t] > 1
               /\ Return
               /\ UNCHANGED <<state, prio, linkVars, resched>>
      <3>1. stack' = [stack EXCEPT ![active] = Rest]
        BY <1>6, <2>1 DEF Return, Continue
      <3>2. UNCHANGED <<q, pending, queue, prio, state, resched>>
        BY <2>1 DEF linkVars
      <3>3. suspend'[t] # 0
        BY <1>5, <2>1
      <3>4. Home[t] = IF state'[t] = "waiting" THEN queue[t]
                      ELSE IF state'[t] = "ready" /\ suspend'[t] = 0 THEN RunQ(prio[t]) ELSE None
        BY <1>3, <3>2, <3>3 DEF Home
      <3>. HIDE DEF Home
      <3>5. QueueInv'
        BY <1>5, <3>2, <3>3, <3>4, StaysKept
      <3>. HIDE DEF i
      <3>. QED BY <1>3, <1>6, <3>1, <3>2, <3>5 DEF TypeOK
    <2>2. CASE /\ suspend[t] = 1
               /\ state[t] = "waiting"
               /\ Relink(t, queue[t], p)
               /\ Continue(PropagateFrom(waitMutex[t]) \o <<IfResched>>, Rest)
               /\ UNCHANGED <<state, resched>>
      <3>. DEFINE s == (PropagateFrom(waitMutex[t]) \o <<IfResched>>) \o Rest
      <3>1. s \in Seq(FrameType) /\ Pushed(s, Rest)
        <4>1. waitMutex[t] \in Mutex \cup {None}
          BY DEF TypeOK
        <4>. QED BY <4>1, PropagateStack
      <3>2. stack' = [stack EXCEPT ![active] = s]
        BY <2>2 DEF Continue
      <3>. HIDE DEF s
      <3>3. queue[t] \in Queue
        BY <2>2, HomeFacts, Addresses
      <3>4. /\ QueueInv'
            /\ q' \in [Queue -> Seq(Thread)] /\ pending' \subseteq Priority
            /\ queue' \in [Thread -> Queue \cup {None}] /\ prio' \in [Thread -> AnyPriority]
        BY <1>5, <1>7, <2>2, <3>3, RelinkKept
      <3>. HIDE DEF i
      <3>. QED BY <2>2, <3>1, <3>2, <3>4 DEF TypeOK
    <2>3. CASE /\ suspend[t] = 1
               /\ state[t] = "ready"
               /\ state' = [state EXCEPT ![t] = "ready"]
               /\ prio' = [prio EXCEPT ![t] = p]
               /\ q' = Link(q, t, RunQ(p), p)
               /\ queue' = [queue EXCEPT ![t] = RunQ(p)]
               /\ pending' = pending \cup Mark(RunQ(p))
               /\ resched' = TRUE
               /\ Continue(<<IfResched>>, Rest)
      <3>1. stack' = [stack EXCEPT ![active] = i]
        BY <2>3 DEF Continue
      <3>2. state' = state /\ state'[t] = "ready" /\ suspend'[t] = 0
        BY <1>5, <2>3 DEF TypeOK
      <3>3. Home[t] = None /\ RunQ(p) \in Queue
        BY <1>7, <2>3, Addresses DEF Home
      <3>4. \A u \in Thread \ {t} : state'[u] = state[u] /\ suspend'[u] = suspend[u]
        BY <1>5, <3>2
      <3>. HIDE DEF Home
      <3>5. /\ QueueInv'
            /\ q' \in [Queue -> Seq(Thread)] /\ pending' \subseteq Priority
            /\ queue' \in [Thread -> Queue \cup {None}] /\ prio' \in [Thread -> AnyPriority]
        BY <1>7, <2>3, <3>2, <3>3, <3>4, LinkKept
      <3>. HIDE DEF i
      <3>. QED BY <1>6, <2>3, <3>1, <3>2, <3>5
    <2>4. CASE /\ suspend[t] = 1
               /\ Terminated(t)
               /\ Continue(<<IfResched>>, Rest)
               /\ UNCHANGED <<state, prio, linkVars, resched>>
      <3>1. stack' = [stack EXCEPT ![active] = i]
        BY <2>4 DEF Continue
      <3>2. UNCHANGED <<q, pending, queue, prio, state, resched>>
        BY <2>4 DEF linkVars
      <3>3. state'[t] \in {"none", "moribund"} /\ state[t] \in {"none", "moribund"}
        BY <2>4, <3>2 DEF Terminated
      <3>4. Home[t] = IF state'[t] = "waiting" THEN queue[t]
                      ELSE IF state'[t] = "ready" /\ suspend'[t] = 0 THEN RunQ(prio[t]) ELSE None
        BY <3>3 DEF Home
      <3>. HIDE DEF Home
      <3>5. QueueInv'
        BY <1>5, <3>2, <3>3, <3>4, StaysKept
      <3>. HIDE DEF i
      <3>. QED BY <1>6, <3>1, <3>2, <3>5 DEF TypeOK
    <2>. QED BY <1>8, <2>1, <2>2, <2>3, <2>4
  <1>. HIDE DEF i
  <1>10. /\ stack' \in [Thread -> Seq(FrameType)] /\ Pushed(stack'[active], Rest)
         /\ \A u \in Thread \ {active} : stack'[u] = stack[u]
    <2>1. PICK s \in Seq(FrameType) : Pushed(s, Rest) /\ stack' = [stack EXCEPT ![active] = s]
      BY <1>9
    <2>. QED BY <2>1, ContinueStack
  <1>11. timers' \subseteq timers /\ (t \in timers' => suspend[t] # 1)
    BY <1>4 DEF TimersAfterResume
  <1>12. TypeOK'
    BY <1>4, <1>5, <1>9, <1>10, <1>11 DEF TypeOK
  <1>13. FiberInv'
    <2>0. \A u \in Thread : state[u] = "running" => suspend'[u] = suspend[u]
      BY <1>3, <1>5
    <2>1. CASE Executing /\ stack[active] = <<>>
      <3>1. (\A u \in Thread \ {active} : Parting(u))'
        BY <1>4, <1>10, PartedKept
      <3>2. Plain(active, stack'[active])
        BY <1>3, <1>10, <2>1, ExecutingRest, PushedKeeps
      <3>. QED BY <1>4, <1>9, <2>0, <2>1, <3>1, <3>2, ExecutingRest, StillExecuting
               DEF ctxVars, FiberInv
    <2>2. CASE stack[active] # <<>> /\ Head(stack[active]).call = "ResumeThread"
      <3>1. Head(stack[active]).call \in Quiet /\ ~Top("IfResched")
        BY <2>2 DEF Quiet, Top
      <3>. QED BY <1>4, <1>9, <1>10, <2>0, <2>2, <3>1, QuietFiber DEF fiberVars
    <2>. QED BY <1>1, <2>1, <2>2
  <1>14. LifeInv'
    <2>1. \A u \in timers' : suspend'[u] > 0 \/ Terminated(u)'
      <3>. SUFFICES ASSUME NEW u \in timers' PROVE suspend'[u] > 0 \/ Terminated(u)'
        OBVIOUS
      <3>1. u \in Thread /\ (suspend[u] > 0 \/ Terminated(u))
        BY <1>2, <1>11, NotArming DEF TypeOK
      <3>. QED BY <1>5, <1>9, <1>11, <3>1 DEF Terminated
    <2>. QED BY <1>4, <1>9, <2>1, LifeKept DEF LifeInv
  <1>. QED BY <1>9, <1>12, <1>13, <1>14

-----------------------------------------------------------------------------
(* The invariant of the scheduler.                                         *)

\* The invariant holds at the start, with the main thread running.
LEMMA InitGood ==
  ASSUME Init
  PROVE  Good
  <1>1. game \in Games /\ game.main \in Priority
    BY ConstantsAssumption DEF Init, Priority
  <1>2. Main \in Thread
    BY ConstantsAssumption
  <1>3. /\ <<>> \in Seq(Thread) /\ <<>> \in Seq(Mutex) /\ <<>> \in Seq(FrameType)
        /\ game.main \in AnyPriority
    <2>1. game.main \in AnyPriority
      BY <1>1, PriorityFacts
    <2>2. <<>> \in Seq(Thread) /\ <<>> \in Seq(Mutex) /\ <<>> \in Seq(FrameType)
      BY EmptyStack
    <2>. QED BY <2>1, <2>2
  <1>4. TypeOK
    <2>1. state \in [Thread -> State] /\ suspend \in [Thread -> Nat]
      BY DEF Init, State
    <2>2. prio \in [Thread -> AnyPriority] /\ base \in [Thread -> Priority]
      BY <1>1, <1>3 DEF Init
    <2>3. detached \in [Thread -> BOOLEAN] /\ dead \in [Thread -> BOOLEAN]
      BY DEF Init
    <2>4. /\ queue \in [Thread -> Queue \cup {None}] /\ waitMutex \in [Thread -> Mutex \cup {None}]
          /\ held \in [Thread -> Seq(Mutex)] /\ q \in [Queue -> Seq(Thread)]
          /\ stack \in [Thread -> Seq(FrameType)]
      BY <1>3 DEF Init
    <2>5. owner \in [Mutex -> Thread \cup {None}] /\ count \in [Mutex -> Nat]
      BY DEF Init
    <2>. QED BY <1>1, <1>2, <2>1, <2>2, <2>3, <2>4, <2>5 DEF Init, TypeOK
  <1>5. /\ \A x \in Queue : q[x] = <<>>
        /\ \A t \in Thread : /\ state[t] = IF t = Main THEN "running" ELSE "none"
                             /\ suspend[t] = 0 /\ prio[t] \in Priority /\ stack[t] = <<>>
                             /\ queue[t] = None /\ ~dead[t]
        /\ pending = {} /\ active = Main /\ running = Main /\ current = Main
        /\ curGuest = Main /\ timers = {} /\ alive = {Main}
        /\ \A m \in Mutex : owner[m] = None /\ count[m] = 0
    BY <1>1 DEF Init
  <1>6. QueueInv
    <2>1. \A t \in Thread : Home[t] = None
      BY <1>5 DEF Home
    <2>2. \A x \in Queue : Range(q[x]) = {} /\ Distinct(q[x]) /\ Ranked(q[x], prio)
      <3>1. Range(<<>>) = {} /\ Distinct(<<>>) /\ Ranked(<<>>, prio)
        BY DEF Range, Distinct, Ranked
      <3>. QED BY <1>5, <3>1
    <2>3. pending = {p \in Priority : q[RunQ(p)] # <<>>}
      BY <1>5, Addresses
    <2>. HIDE DEF Home
    <2>4. Queues(q, pending, Home, prio)
      BY <1>4, <2>1, <2>2, <2>3, QueueAssumption DEF Queues, TypeOK
    <2>. QED BY <1>5, <2>1, <2>4 DEF QueueInv
  <1>7. FiberInv
    <2>1. Executing
      BY <1>2, <1>5, EmptyStack DEF Executing
    <2>2. \A t \in Thread \ {active} : Parting(t)
      BY <1>5, EmptyStack DEF Parting
    <2>. QED BY <1>5, <2>1, <2>2 DEF FiberInv
  <1>8. LifeInv
    <2>1. alive = {t \in Thread : state[t] # "none"}
      BY <1>2, <1>5
    <2>. QED BY <1>5, <2>1 DEF LifeInv
  <1>. QED BY <1>4, <1>6, <1>7, <1>8 DEF Good

\* No step of a game that lets no entry function return breaks it.
LEMMA StepGood ==
  ASSUME NoReturn, Good, Next
  PROVE  Good'
  <1>1. Step /\ UNCHANGED game
    BY DEF Next
  <1>2. CASE TimersDue
    BY <1>1, <1>2, TimersDueStep
  <1>3. CASE PumpEnds
    BY <1>1, <1>3, PumpEndsStep
  <1>4. CASE SelectThread
    BY <1>1, <1>4, SelectThreadKeeps, SelectThreadLeaves
  <1>5. CASE IdleEnds
    BY <1>1, <1>5, IdleEndsStep
  <1>6. CASE Pick
    BY <1>1, <1>6, PickStep
  <1>7. CASE Switched
    BY <1>1, <1>7, SwitchedStep
  <1>8. CASE Reschedule
    BY <1>1, <1>8, RescheduleStep
  <1>9. CASE YieldThread
    BY <1>1, <1>9, YieldThreadStep
  <1>10. CASE DisableScheduler \/ EnableScheduler
    BY <1>1, <1>10, SchedulerStep
  <1>11. CASE ExitThread
    BY <1>1, <1>11, ExitThreadStep
  <1>12. CASE Exited
    BY <1>1, <1>12, ExitedStep
  <1>13. CASE ReturnFromEntry
    BY <1>13 DEF ReturnFromEntry, GuestCalls, NoReturn
  <1>14. ASSUME NEW w \in WaitQueue, IdleInterrupt(w) \/ Interrupt(w)
         PROVE  Good'
    BY <1>1, <1>14, IdleInterruptStep, InterruptStep
  <1>15. ASSUME NEW x \in BlockQueues, SleepThread(x) \/ WakeupThread(x)
         PROVE  Good'
    BY <1>1, <1>15, SleepThreadStep, WakeupThreadStep
  <1>16. ASSUME NEW m \in Mutex, UnlockMutex(m)
         PROVE  Good'
    BY <1>1, <1>16, UnlockMutexStep
  <1>17. ASSUME NEW t \in Thread, PumpTimer(t) \/ IdleTimer(t)
         PROVE  Good'
    BY <1>1, <1>17, FireStep DEF PumpTimer, IdleTimer
  <1>18. ASSUME NEW t \in Thread, SuspendThread(t) \/ ResumeThread(t)
         PROVE  Good'
    BY <1>1, <1>18, SuspendThreadStep, ResumeThreadStep
  <1>19. ASSUME NEW t \in Thread, SleepTicks(t) \/ TickWoken(t)
         PROVE  Good'
    BY <1>1, <1>19, SleepTicksStep, TickWokenStep
  <1>20. ASSUME NEW t \in Thread, Propagate(t) \/ UnlockAll(t)
         PROVE  Good'
    BY <1>1, <1>20, PropagateStep, UnlockAllStep
  <1>21. ASSUME NEW t \in Thread, CancelThread(t)
         PROVE  Good'
    BY <1>1, <1>21, CancelThreadStep
  <1>22. ASSUME NEW t \in Thread, JoinThread(t) \/ Joined(t) \/ DetachThread(t)
         PROVE  Good'
    BY <1>1, <1>22, JoinThreadStep, JoinedStep, DetachThreadStep
  <1>23. ASSUME NEW t \in Thread, NEW p \in AnyPriority, Promote(t, p)
         PROVE  Good'
    BY <1>1, <1>23, PromoteStep
  <1>24. ASSUME NEW t \in Thread, NEW p \in game.priorities, NEW d \in game.attributes,
                CreateThread(t, p, d)
         PROVE  Good'
    BY <1>1, <1>24, CreateThreadStep
  <1>25. ASSUME NEW t \in Thread, NEW m \in Mutex, LockMutex(t, m)
         PROVE  Good'
    BY <1>1, <1>25, LockMutexStep
  <1>26. ASSUME NEW t \in Thread, NEW x \in BlockQueues, Slept(t, x)
         PROVE  Good'
    BY <1>1, <1>26, SleptStep
  <1>. HIDE DEF NoReturn
  <1>. QED BY <1>1, <1>2, <1>3, <1>4, <1>5, <1>6, <1>7, <1>8, <1>9, <1>10, <1>11, <1>12, <1>13,
              <1>14, <1>15, <1>16, <1>17, <1>18, <1>19, <1>20, <1>21, <1>22, <1>23, <1>24,
              <1>25, <1>26 DEF Step

\* Nor does a step that changes nothing.
LEMMA StutterGood ==
  ASSUME Good, UNCHANGED vars
  PROVE  Good'
  <1>. USE DEF Good
  <1>1. UNCHANGED <<game, state, suspend, prio, base, detached, queue, waitMutex, held, q, alive,
                    owner, count, pending, resched, disabled, running, current, timers,
                    active, curGuest, dead, stack>>
    BY DEF vars
  <1>2. TypeOK'
    BY <1>1 DEF TypeOK
  <1>3. QueueInv'
    BY <1>1, QueueKept
  <1>4. FiberInv'
    BY <1>1 DEF FiberInv, Executing, Arming, Leaving, Picking, Idle, Parting, Top, Arg, Rest
  <1>5. LifeInv'
    BY <1>1 DEF LifeInv, Terminated, Arming, Top, Arg, Rest
  <1>. QED BY <1>2, <1>3, <1>4, <1>5

\* The inductive invariant of the scheduler, of every game whose threads end by OSExitThread or
\* OSCancelThread: every thread is in the queue its state calls for and in no other, the active
\* fiber is in one of five modes, every other fiber left through a switch, and the hint of
\* WakeupThreadQueue and ResumeThread is never lost while a fiber that may not run goes on.
THEOREM SchedulerInvariant ==
  Spec => [](NoReturn => Good)
  <1>1. Init => (NoReturn => Good)
    BY InitGood
  <1>2. (NoReturn => Good) /\ [Next]_vars => (NoReturn => Good)'
    <2>. SUFFICES ASSUME NoReturn => Good, [Next]_vars, NoReturn' PROVE Good'
      OBVIOUS
    <2>1. UNCHANGED game
      BY DEF Next, vars
    <2>2. NoReturn
      BY <2>1 DEF NoReturn
    <2>. QED BY <2>2, StepGood, StutterGood
  <1>. QED BY <1>1, <1>2, PTL DEF Spec

\* The contexts, queues and fibers of os_thread.cpp keep to their types.
THEOREM ThreadTypes ==
  Spec => [](NoReturn => TypeOK)
  <1>1. (NoReturn => Good) => (NoReturn => TypeOK)
    BY DEF Good
  <1>. QED BY <1>1, SchedulerInvariant, PTL

\* The links of every thread queue are those of its threads, in the order of their priorities,
\* and the mask of pending run queues is exact, however the calls of os_thread.cpp, the mutexes,
\* the timers and the interrupts interleave.
THEOREM QueueDiscipline ==
  Spec => [](NoReturn => QueuesWellFormed)
  <1>1. Good => QueuesWellFormed
    <2>. SUFFICES ASSUME TypeOK, QueueInv PROVE QueuesWellFormed
      BY DEF Good
    <2>1. Queues(q, pending, Home, prio) /\ \A t \in Thread : Home[t] # None => Home[t] = queue[t]
      BY HomeFacts DEF QueueInv
    <2>. HIDE DEF Home
    <2>2. QueueLinks
      BY <2>1, QueueAssumption DEF QueueLinks, Queues, Distinct
    <2>3. QueuesSorted
      BY <2>1 DEF QueuesSorted, Queues, Ranked
    <2>4. PendingMaskExact
      BY <2>1 DEF PendingMaskExact, Queues
    <2>. QED BY <2>2, <2>3, <2>4 DEF QueuesWellFormed
  <1>2. (NoReturn => Good) => (NoReturn => QueuesWellFormed)
    BY <1>1
  <1>. QED BY <1>2, SchedulerInvariant, PTL

\* While guest code runs, the scheduler's running thread, the current context and the active
\* fiber are one and the same, no other thread is in the running state, and the thread is neither
\* suspended nor armed to be resumed.
THEOREM OneThreadRuns ==
  Spec => []OneRunner
  <1>1. (NoReturn => Good) => OneRunner
    <2>. SUFFICES ASSUME Good, GuestCode
                  PROVE  /\ running = active
                         /\ current = active
                         /\ curGuest \in {active, None}
                         /\ \A t \in Thread : state[t] = "running" <=> t = active
                         /\ suspend[active] = 0
                         /\ active \notin timers
      BY DEF OneRunner, NoReturn
    <2>1. Executing /\ ~Top("SuspendThread")
      BY ModeOf DEF Good, Top, GuestCode
    <2>2. /\ running = active /\ current = active /\ state[active] = "running"
          /\ active \in Thread /\ suspend[active] = 0
      BY <2>1, ExecutingRest DEF Good
    <2>3. /\ curGuest \in {active, None}
          /\ \A t \in Thread : state[t] = "running" => t = active
      BY DEF Good, FiberInv
    <2>4. active \notin timers
      BY <2>1, <2>2, NotArming DEF Good, Terminated
    <2>. QED BY <2>2, <2>3, <2>4
  <1>. QED BY <1>1, SchedulerInvariant, PTL

\* A thread that has ended or was cancelled is in no queue and never gets the processor again,
\* and the count of live threads is that of the threads created and not reaped.
THEOREM EndedThreadsStayAway ==
  Spec => [](NoReturn => LifeCycle)
  <1>1. Good => LifeCycle
    <2>. SUFFICES ASSUME Good PROVE LifeCycle
      OBVIOUS
    <2>1. \A t \in Thread : dead[t] => Terminated(t)
      BY DEF Good, LifeInv
    <2>2. ASSUME NEW t \in Thread, Terminated(t) \/ dead[t] PROVE Linked(t) = {}
      <3>1. Terminated(t)
        BY <2>1, <2>2
      <3>2. Home[t] = None
        BY <3>1 DEF Home, Terminated
      <3>3. Queues(q, pending, Home, prio)
        BY DEF Good, QueueInv
      <3>. HIDE DEF Home
      <3>4. \A x \in Queue : t \notin Range(q[x])
        BY <3>2, <3>3, InNoQueue, QueueAssumption
      <3>. QED BY <3>4 DEF Linked
    <2>3. GuestCode => ~dead[active]
      <3>. SUFFICES ASSUME GuestCode PROVE ~dead[active]
        OBVIOUS
      <3>1. state[active] = "running" /\ active \in Thread
        BY ModeOf, ExecutingRest DEF Good
      <3>. QED BY <2>1, <3>1 DEF Terminated
    <2>4. alive = {t \in Thread : state[t] # "none"}
      BY DEF Good, LifeInv
    <2>. QED BY <2>2, <2>3, <2>4 DEF LifeCycle
  <1>2. (NoReturn => Good) => (NoReturn => LifeCycle)
    BY <1>1
  <1>. QED BY <1>2, SchedulerInvariant, PTL

-----------------------------------------------------------------------------
(* Mutexes and joiners.                                                    *)

\* A thread that ends unlocks its mutexes and then wakes its joiners. Each of
\* these wakes a queue and may switch to another thread for good, so that what
\* comes after it is not done. In an orderly game that ends threads there is one
\* mutex to leave locked, and in a settled one none.
EndsThreads == game.calls \cap {"ExitThread", "CancelThread"} # {}
Orderly == NoReturn /\ (EndsThreads => \A m, n \in game.mutexes : m = n)
Settled == NoReturn /\ (EndsThreads => game.mutexes = {})

\* A call that does not go to sleep next, and locks a mutex of ms if any.
CalmFrame(f, ms) == /\ f.call # "SleepThread"
                    /\ f.call = "LockMutex" => f.arg[2] \in ms
Calm(s, ms) == \A i \in DOMAIN s : CalmFrame(s[i], ms)

\* The call f has begun and not returned.
Begun(s, f) == f \in Range(s)
LockFrame(t, m) == Frame("LockMutex", <<t, m>>)

Topmost(f) == stack[active] # <<>> /\ Head(stack[active]) = f

\* t goes to sleep on a mutex that is taken, or on a thread that is not over,
\* perhaps after it has promoted the owners.
ToMutex(s, t) ==
    \E m \in Mutex, r \in Seq(FrameType) :
        /\ owner[m] # None /\ waitMutex[t] = m
        /\ s = <<Frame("SleepThread", MutexQ(m))>> \o r
        /\ Calm(r, game.mutexes)
ToJoin(s, t) ==
    \E u \in Thread, r \in Seq(FrameType) :
        /\ ~Terminated(u) /\ waitMutex[t] = None
        /\ s = <<Frame("SleepThread", JoinQ(u))>> \o r
        /\ Calm(r, game.mutexes)
Promoting(s, t) ==
    \E f \in FrameType, r \in Seq(FrameType) :
        f.call = "Promote" /\ s = <<f>> \o r /\ ToMutex(r, t)

StackInv ==
    /\ \A t \in Thread \ {active} : Calm(stack[t], game.mutexes)
    /\ \/ Calm(stack[active], game.mutexes)
       \/ ToMutex(stack[active], active)
       \/ ToJoin(stack[active], active)
       \/ Promoting(stack[active], active)

\* A thread waits for a mutex as long as its OSLockMutex lasts.
WaitInv ==
    \A t \in Thread : ~Terminated(t) /\ waitMutex[t] # None =>
        /\ Begun(stack[t], LockFrame(t, waitMutex[t]))
        /\ state[t] = "waiting" => queue[t] = MutexQ(waitMutex[t])

HeldInv ==
    /\ \A m \in Mutex, t \in Thread : owner[m] = t <=> m \in Range(held[t])
    /\ \A t \in Thread : Distinct(held[t]) /\ Range(held[t]) \subseteq game.mutexes

\* A thread that is over holds nothing, but for the mutex it is about to release.
EndInv ==
    \A t \in Thread : Terminated(t) =>
        held[t] = <<>> \/ (Topmost(Frame("UnlockAll", t)) /\ Len(held[t]) = 1)

\* Whoever releases a mutex goes on to wake those that wait for it.
FreeInv ==
    \A m \in Mutex : owner[m] = None =>
        q[MutexQ(m)] = <<>> \/ Topmost(Frame("WakeupThread", MutexQ(m)))

\* Where ending is not interrupted, no thread joins one that is over for long,
\* and so OSCreateThread loses no joiner.
Ending(t) ==
    \E r \in Seq(FrameType) :
        \/ stack[active] = <<Frame("UnlockAll", t)>> \o (<<Frame("WakeupThread", JoinQ(t))>> \o r)
        \/ stack[active] = <<Frame("WakeupThread", JoinQ(t))>> \o r
JoinInv ==
    Settled => \A t \in Thread :
        /\ Terminated(t) => q[JoinQ(t)] = <<>> \/ (Ending(t) /\ game.mutexes = {})
        /\ state[t] = "waiting" => t \in Range(q[queue[t]])

LockInv == StackInv /\ WaitInv /\ HeldInv /\ EndInv /\ FreeInv /\ JoinInv

-----------------------------------------------------------------------------
(* The stacks of the calls.                                                *)

\* A stack is calm as its first call and the rest are.
LEMMA CalmCons ==
  ASSUME NEW f \in FrameType, NEW s \in Seq(FrameType), NEW ms
  PROVE  Calm(<<f>> \o s, ms) <=> CalmFrame(f, ms) /\ Calm(s, ms)
  <1>. DEFINE r == <<f>> \o s
  <1>1. /\ r \in Seq(FrameType) /\ DOMAIN r = 1 .. Len(s) + 1 /\ r[1] = f
        /\ \A i \in DOMAIN s : r[i + 1] = s[i]
        /\ DOMAIN s = 1 .. Len(s) /\ Len(s) \in Nat
    BY ConsSeq
  <1>. HIDE DEF r
  <1>2. ASSUME Calm(r, ms) PROVE CalmFrame(f, ms) /\ Calm(s, ms)
    <2>1. CalmFrame(f, ms)
      BY <1>1, <1>2 DEF Calm
    <2>2. ASSUME NEW i \in DOMAIN s PROVE CalmFrame(s[i], ms)
      <3>1. i + 1 \in DOMAIN r /\ r[i + 1] = s[i]
        BY <1>1
      <3>. QED BY <3>1, <1>2 DEF Calm
    <2>. QED BY <2>1, <2>2 DEF Calm
  <1>3. ASSUME CalmFrame(f, ms), Calm(s, ms) PROVE Calm(r, ms)
    <2>. SUFFICES ASSUME NEW i \in DOMAIN r PROVE CalmFrame(r[i], ms)
      BY DEF Calm
    <2>1. CASE i = 1
      BY <2>1, <1>1, <1>3
    <2>2. CASE i # 1
      <3>1. i - 1 \in DOMAIN s /\ (i - 1) + 1 = i
        BY <2>2, <1>1
      <3>2. r[i] = s[i - 1]
        BY <3>1, <1>1
      <3>. QED BY <3>1, <3>2, <1>3 DEF Calm
    <2>. QED BY <2>1, <2>2
  <1>. QED BY <1>2, <1>3 DEF r

\* Calm calls on a calm stack.
LEMMA CalmConcat ==
  ASSUME NEW k \in Seq(FrameType), NEW s \in Seq(FrameType), NEW ms, Calm(k, ms), Calm(s, ms)
  PROVE  Calm(k \o s, ms)
  <1>. DEFINE r == k \o s
  <1>1. /\ Len(r) = Len(k) + Len(s) /\ DOMAIN r = 1 .. Len(r)
        /\ DOMAIN k = 1 .. Len(k) /\ DOMAIN s = 1 .. Len(s) /\ Len(k) \in Nat /\ Len(s) \in Nat
        /\ \A i \in 1 .. Len(k) + Len(s) : r[i] = IF i <= Len(k) THEN k[i] ELSE s[i - Len(k)]
    BY ConcatIs, LenProperties
  <1>. HIDE DEF r
  <1>. SUFFICES ASSUME NEW i \in DOMAIN r PROVE CalmFrame(r[i], ms)
    BY DEF Calm, r
  <1>2. CASE i <= Len(k)
    <2>1. i \in DOMAIN k /\ r[i] = k[i]
      BY <1>1, <1>2
    <2>. QED BY <2>1 DEF Calm
  <1>3. CASE ~(i <= Len(k))
    <2>1. i - Len(k) \in DOMAIN s /\ r[i] = s[i - Len(k)]
      BY <1>1, <1>3
    <2>. QED BY <2>1 DEF Calm
  <1>. QED BY <1>2, <1>3

\* A call has begun if it is the first of a stack or one of the rest.
LEMMA BegunCons ==
  ASSUME NEW g \in FrameType, NEW s \in Seq(FrameType), NEW f
  PROVE  Begun(<<g>> \o s, f) <=> g = f \/ Begun(s, f)
  <1>. DEFINE r == <<g>> \o s
  <1>1. /\ DOMAIN r = 1 .. Len(s) + 1 /\ r[1] = g
        /\ \A i \in DOMAIN s : r[i + 1] = s[i]
        /\ DOMAIN s = 1 .. Len(s) /\ Len(s) \in Nat
    BY ConsSeq
  <1>. HIDE DEF r
  <1>2. ASSUME NEW i \in DOMAIN r, r[i] = f PROVE g = f \/ Begun(s, f)
    <2>1. CASE i = 1
      BY <1>1, <1>2, <2>1
    <2>2. CASE i # 1
      <3>1. i - 1 \in DOMAIN s /\ (i - 1) + 1 = i
        BY <2>2, <1>1
      <3>2. s[i - 1] = f
        BY <1>1, <1>2, <3>1
      <3>. QED BY <3>1, <3>2 DEF Begun, Range
    <2>. QED BY <2>1, <2>2
  <1>3. g = f => Begun(r, f)
    <2>1. 1 \in DOMAIN r
      BY <1>1
    <2>. QED BY <1>1, <2>1 DEF Begun, Range
  <1>4. ASSUME NEW i \in DOMAIN s, s[i] = f PROVE Begun(r, f)
    <2>1. i + 1 \in DOMAIN r /\ r[i + 1] = f
      BY <1>1, <1>4
    <2>. QED BY <2>1 DEF Begun, Range
  <1>. QED BY <1>2, <1>3, <1>4 DEF Begun, Range, r

\* What had begun has begun under the calls on top of it.
LEMMA BegunConcat ==
  ASSUME NEW k \in Seq(FrameType), NEW s \in Seq(FrameType), NEW f, Begun(s, f)
  PROVE  Begun(k \o s, f)
  <1>. DEFINE r == k \o s
  <1>1. /\ DOMAIN r = 1 .. Len(k) + Len(s) /\ DOMAIN s = 1 .. Len(s)
        /\ Len(k) \in Nat /\ Len(s) \in Nat
        /\ \A i \in 1 .. Len(k) + Len(s) : r[i] = IF i <= Len(k) THEN k[i] ELSE s[i - Len(k)]
    <2>1. r \in Seq(FrameType) /\ Len(r) = Len(k) + Len(s)
      BY ConcatIs
    <2>. HIDE DEF r
    <2>2. DOMAIN r = 1 .. Len(k) + Len(s)
      BY <2>1, LenProperties
    <2>. QED BY <2>2, ConcatIs, LenProperties DEF r
  <1>. HIDE DEF r
  <1>2. PICK i \in DOMAIN s : s[i] = f
    BY DEF Begun, Range
  <1>3. Len(k) + i \in DOMAIN r /\ ~(Len(k) + i <= Len(k)) /\ (Len(k) + i) - Len(k) = i
    BY <1>1
  <1>4. r[Len(k) + i] = f
    BY <1>1, <1>2, <1>3
  <1>. QED BY <1>3, <1>4 DEF Begun, Range, r

\* Outside the calls that go to sleep, every stack is calm.
LEMMA NotAsleep ==
  ASSUME TypeOK, StackInv, ~Top("SleepThread"), ~Top("Promote")
  PROVE  \A t \in Thread : Calm(stack[t], game.mutexes)
  <1>1. ASSUME NEW f \in FrameType, NEW r \in Seq(FrameType), stack[active] = <<f>> \o r
        PROVE  Top(f.call)
    BY <1>1, ConsSeq DEF Top
  <1>2. ~ToMutex(stack[active], active)
    <2>. SUFFICES ASSUME ToMutex(stack[active], active) PROVE FALSE
      OBVIOUS
    <2>1. PICK m \in Mutex, r \in Seq(FrameType) :
             stack[active] = <<Frame("SleepThread", MutexQ(m))>> \o r
      BY DEF ToMutex
    <2>2. /\ Frame("SleepThread", MutexQ(m)) \in FrameType
          /\ Frame("SleepThread", MutexQ(m)).call = "SleepThread"
      BY Frames, Addresses
    <2>. QED BY <1>1, <2>1, <2>2
  <1>3. ~ToJoin(stack[active], active)
    <2>. SUFFICES ASSUME ToJoin(stack[active], active) PROVE FALSE
      OBVIOUS
    <2>1. PICK u \in Thread, r \in Seq(FrameType) :
             stack[active] = <<Frame("SleepThread", JoinQ(u))>> \o r
      BY DEF ToJoin
    <2>2. /\ Frame("SleepThread", JoinQ(u)) \in FrameType
          /\ Frame("SleepThread", JoinQ(u)).call = "SleepThread"
      BY Frames, Addresses
    <2>. QED BY <1>1, <2>1, <2>2
  <1>4. ~Promoting(stack[active], active)
    BY <1>1 DEF Promoting
  <1>. QED BY <1>2, <1>3, <1>4 DEF StackInv

\* A thread that is not over is still in its OSLockMutex.
BegunKept ==
    \A t \in Thread : \A m : ~Terminated(t)' /\ Begun(stack[t], LockFrame(t, m)) =>
                                Begun(stack'[t], LockFrame(t, m))

\* And every stack is calm afterwards.
StacksKept == BegunKept /\ \A t \in Thread : Calm(stack'[t], game.mutexes)

\* The call of a turn of OSLockMutex.
LEMMA LockFrameCall ==
  \A t, m : LockFrame(t, m).call = "LockMutex"
  BY Frames DEF LockFrame

\* A call, unless it is OSLockMutex, that makes others or returns.
LEMMA ContinueBegun ==
  ASSUME TypeOK, ~Top("LockMutex"),
         NEW k \in Seq(FrameType), NEW r, r = Rest \/ r = stack[active],
         stack' = [stack EXCEPT ![active] = k \o r]
  PROVE  BegunKept
  <1>1. /\ active \in Thread /\ stack[active] \in Seq(FrameType) /\ Rest \in Seq(FrameType)
        /\ stack[active] # <<>> => /\ Head(stack[active]) \in FrameType
                                   /\ stack[active] = <<Head(stack[active])>> \o Rest
    BY TopFrame
  <1>2. r \in Seq(FrameType)
    BY <1>1
  <1>3. ASSUME NEW m, Begun(stack[active], LockFrame(active, m))
        PROVE  Begun(r, LockFrame(active, m))
    <2>1. stack[active] # <<>>
      BY <1>3 DEF Begun, Range
    <2>2. Head(stack[active]) # LockFrame(active, m)
      BY <2>1, LockFrameCall DEF Top
    <2>. DEFINE h == Head(stack[active])
    <2>3. h \in FrameType /\ stack[active] = <<h>> \o Rest
      BY <1>1, <2>1
    <2>4. h # LockFrame(active, m)
      BY <2>2
    <2>. HIDE DEF h
    <2>5. Begun(Rest, LockFrame(active, m))
      BY <1>1, <1>3, <2>3, <2>4, BegunCons
    <2>. QED BY <1>3, <2>5
  <1>4. stack'[active] = k \o r /\ \A t \in Thread \ {active} : stack'[t] = stack[t]
    BY <1>1 DEF TypeOK
  <1>5. ASSUME NEW m, Begun(stack[active], LockFrame(active, m))
        PROVE  Begun(stack'[active], LockFrame(active, m))
    BY <1>2, <1>3, <1>4, <1>5, BegunConcat
  <1>. QED BY <1>4, <1>5 DEF BegunKept

\* The call's calls are calm, and so is what is under it.
LEMMA ContinueKeeps ==
  ASSUME TypeOK, \A t \in Thread : Calm(stack[t], game.mutexes), ~Top("LockMutex"),
         NEW k \in Seq(FrameType), NEW r, r = Rest \/ r = stack[active],
         stack' = [stack EXCEPT ![active] = k \o r], Calm(k, game.mutexes)
  PROVE  StacksKept
  <1>1. /\ active \in Thread /\ stack[active] \in Seq(FrameType) /\ Rest \in Seq(FrameType)
        /\ stack[active] # <<>> => /\ Head(stack[active]) \in FrameType
                                   /\ stack[active] = <<Head(stack[active])>> \o Rest
    BY TopFrame
  <1>2. r \in Seq(FrameType)
    BY <1>1
  <1>3. Calm(r, game.mutexes)
    <2>1. stack[active] = <<>> => Rest = <<>>
      BY DEF Rest
    <2>2. stack[active] # <<>> => Calm(Rest, game.mutexes)
      <3>. DEFINE h == Head(stack[active])
      <3>1. Calm(stack[active], game.mutexes)
        BY <1>1
      <3>. HIDE DEF h
      <3>2. stack[active] # <<>> => h \in FrameType /\ stack[active] = <<h>> \o Rest
        BY <1>1 DEF h
      <3>3. stack[active] # <<>> => (Calm(stack[active], game.mutexes) => Calm(Rest, game.mutexes))
        BY ONLY <1>1, <3>2, CalmCons
      <3>. QED BY <3>1, <3>3
    <2>. QED BY <1>1, <2>1, <2>2
  <1>4. stack'[active] = k \o r /\ \A t \in Thread \ {active} : stack'[t] = stack[t]
    BY <1>1 DEF TypeOK
  <1>5. Calm(stack'[active], game.mutexes)
    BY <1>2, <1>3, <1>4, CalmConcat
  <1>6. BegunKept
    BY ContinueBegun
  <1>. QED BY <1>4, <1>5, <1>6 DEF StacksKept

\* No thread comes to a queue it would have to be woken from, nor leaves one but to be ready.
LinksKept ==
    \A t \in Thread : state'[t] = "waiting" =>
        /\ state[t] = "waiting"
        /\ queue'[t] = queue[t]
        /\ queue[t] \in JoinQueues /\ t \in Range(q[queue[t]]) => t \in Range(q'[queue[t]])

\* The threads that are over are those that were.
SameEnded == \A t \in Thread : Terminated(t)' <=> Terminated(t)

\* Where nothing begun has returned and no queue pointer moved, a thread waits for its mutex.
LEMMA WaitKept ==
  ASSUME WaitInv, LinksKept, BegunKept, \A t \in Thread : Terminated(t) => Terminated(t)',
         UNCHANGED waitMutex
  PROVE  WaitInv'
  <1>. SUFFICES ASSUME NEW t \in Thread, ~Terminated(t)', waitMutex[t] # None
                PROVE  /\ Begun(stack'[t], LockFrame(t, waitMutex[t]))
                       /\ state'[t] = "waiting" => queue'[t] = MutexQ(waitMutex[t])
    BY DEF WaitInv, LockFrame, Frame, Begun
  <1>1. ~Terminated(t)
    OBVIOUS
  <1>. QED BY <1>1 DEF WaitInv, LinksKept, BegunKept

\* Then a queue without threads stays empty.
LEMMA EmptyKept ==
  ASSUME QueueInv, QueueInv', LinksKept, NEW x \in BlockQueues, q[x] = <<>>,
         x \in JoinQueues => \A t \in Thread : state[t] = "waiting" => t \in Range(q[queue[t]])
  PROVE  q'[x] = <<>>
  <1>1. /\ q' \in [Queue -> Seq(Thread)] /\ x \in Queue /\ x \notin RunQueues
        /\ \A t \in Range(q'[x]) : t \in Thread /\ Home'[t] = x
    <2>1. q' \in [Queue -> Seq(Thread)] /\ \A y \in Queue : \A t \in Range(q'[y]) : Home'[t] = y
      BY DEF QueueInv, Queues
    <2>2. x \in Queue /\ x \notin RunQueues
      BY Addresses
    <2>3. \A t \in Range(q'[x]) : t \in Thread
      BY <2>1, <2>2 DEF Range
    <2>. QED BY <2>1, <2>2, <2>3
  <1>2. ASSUME NEW t \in Range(q'[x]) PROVE FALSE
    <2>1. t \in Thread /\ Home'[t] = x
      BY <1>1
    <2>2. Home'[t] = IF state'[t] = "waiting" THEN queue'[t]
                     ELSE IF state'[t] = "ready" /\ suspend'[t] = 0 THEN RunQ(prio'[t]) ELSE None
      BY <2>1 DEF Home
    <2>3. x # None /\ \A p : x # RunQ(p)
      BY <1>1, Addresses, QueueAssumption
    <2>4. state[t] = "waiting" /\ queue[t] = x
      BY <2>1, <2>2, <2>3 DEF LinksKept
    <2>5. x \notin JoinQueues => t \in Range(q[x])
      <3>1. Home[t] = x
        BY <2>1, <2>4 DEF Home
      <3>. HIDE DEF Home
      <3>. QED BY <1>1, <2>1, <3>1 DEF QueueInv, Queues
    <2>6. t \in Range(<<>>)
      BY <2>1, <2>4, <2>5
    <2>. QED BY <2>6 DEF Range
  <1>. QED BY <1>1, <1>2, EmptyRange

\* The calls that a thread comes to its end with are on top.
LEMMA EndingTop ==
  ASSUME NEW t \in Thread, Ending(t)
  PROVE  Top("UnlockAll") \/ Topmost(Frame("WakeupThread", JoinQ(t)))
  <1>1. PICK r \in Seq(FrameType) :
           \/ stack[active] = <<Frame("UnlockAll", t)>> \o (<<Frame("WakeupThread", JoinQ(t))>> \o r)
           \/ stack[active] = <<Frame("WakeupThread", JoinQ(t))>> \o r
    BY DEF Ending
  <1>. DEFINE f == Frame("UnlockAll", t)
              g == Frame("WakeupThread", JoinQ(t))
  <1>2. f \in FrameType /\ g \in FrameType /\ f.call = "UnlockAll"
    BY Frames, Addresses
  <1>. HIDE DEF f, g
  <1>3. <<g>> \o r \in Seq(FrameType)
    BY <1>2, ConsSeq
  <1>4. stack[active] = <<f>> \o (<<g>> \o r) \/ stack[active] = <<g>> \o r
    BY <1>1 DEF f, g
  <1>. QED BY <1>2, <1>3, <1>4, ConsSeq DEF Top, Topmost, g

\* A step of a call that neither locks, unlocks, sleeps, wakes nor ends a thread.
LEMMA Undisturbed ==
  ASSUME QueueInv, QueueInv', LockInv, UNCHANGED <<game, mutexVars, waitMutex>>, active' \in Thread,
         ~Top("UnlockAll"), LinksKept, SameEnded,
         \/ ~Top("WakeupThread")
         \/ \A x \in BlockQueues : Topmost(Frame("WakeupThread", x)) => q'[x] = <<>>,
         StacksKept \/ (BegunKept /\ StackInv')
  PROVE  LockInv'
  <1>1. UNCHANGED <<game, owner, held, waitMutex>>
    BY DEF mutexVars
  <1>2. StackInv'
    BY <1>1 DEF StacksKept, StackInv, Calm, CalmFrame
  <1>3. WaitInv'
    BY <1>1, WaitKept DEF LockInv, StacksKept, SameEnded
  <1>0. \A x \in BlockQueues : Topmost(Frame("WakeupThread", x)) => q'[x] = <<>>
    BY DEF Topmost, Top, Frame
  <1>4. HeldInv'
    BY <1>1 DEF LockInv, HeldInv
  <1>5. EndInv'
    <2>1. \A t \in Thread : ~Topmost(Frame("UnlockAll", t))
      BY DEF Topmost, Top, Frame
    <2>. QED BY <1>1, <2>1 DEF LockInv, EndInv, SameEnded
  <1>6. FreeInv'
    <2>. SUFFICES ASSUME NEW m \in Mutex, owner[m] = None PROVE q'[MutexQ(m)] = <<>>
      BY <1>1 DEF FreeInv
    <2>1. MutexQ(m) \in BlockQueues \ JoinQueues
      BY Addresses
    <2>2. q[MutexQ(m)] = <<>> \/ Topmost(Frame("WakeupThread", MutexQ(m)))
      BY DEF LockInv, FreeInv
    <2>. QED BY <1>0, <2>1, <2>2, EmptyKept
  <1>7. JoinInv'
    <2>1. ASSUME NEW t \in Thread, Ending(t) PROVE q'[JoinQ(t)] = <<>>
      BY <1>0, <2>1, EndingTop, Addresses
    <2>2. Settled' => Settled
      BY <1>1 DEF Settled, NoReturn, EndsThreads
    <2>3. ASSUME Settled, NEW t \in Thread
          PROVE  /\ Terminated(t)' => q'[JoinQ(t)] = <<>>
                 /\ state'[t] = "waiting" => t \in Range(q'[queue'[t]])
      <3>1. \A u \in Thread : state[u] = "waiting" => u \in Range(q[queue[u]])
        BY <2>3 DEF LockInv, JoinInv
      <3>2. ASSUME Terminated(t)' PROVE q'[JoinQ(t)] = <<>>
        <4>1. q[JoinQ(t)] = <<>> \/ Ending(t)
          BY <2>3, <3>2 DEF LockInv, JoinInv, SameEnded
        <4>. QED BY <2>1, <3>1, <4>1, Addresses, EmptyKept
      <3>3. ASSUME state'[t] = "waiting" PROVE t \in Range(q'[queue'[t]])
        <4>1. state[t] = "waiting" /\ queue'[t] = queue[t]
          BY <3>3 DEF LinksKept
        <4>2. CASE queue[t] \in JoinQueues
          BY <3>1, <3>3, <4>1, <4>2 DEF LinksKept
        <4>3. CASE queue[t] \notin JoinQueues
          <5>1. Home'[t] = queue'[t]
            BY <3>3 DEF Home
          <5>2. queue'[t] \in Queue \ JoinQueues
            BY <4>1, <4>3, Addresses DEF QueueInv
          <5>3. \A u \in Thread : Home'[u] \in Queue \ JoinQueues => u \in Range(q'[Home'[u]])
            BY DEF QueueInv, Queues
          <5>. HIDE DEF Home
          <5>. QED BY <5>1, <5>2, <5>3
        <4>. QED BY <4>2, <4>3
      <3>. QED BY <3>2, <3>3
    <2>. QED BY <2>2, <2>3 DEF JoinInv
  <1>. QED BY <1>2, <1>3, <1>4, <1>5, <1>6, <1>7 DEF LockInv

-----------------------------------------------------------------------------
(* The links of the calls.                                                 *)

\* The links stay, and no thread goes to sleep.
LEMMA LinksStay ==
  ASSUME UNCHANGED <<q, queue>>, \A t \in Thread : state'[t] = "waiting" => state[t] = "waiting"
  PROVE  LinksKept
  BY DEF LinksKept

\* A thread taken out of its queue leaves the others in theirs.
LEMMA UnlinkRange ==
  ASSUME TypeOK, QueueInv, NEW t \in Thread
  PROVE  /\ Unlinked(t) \in [Queue -> Seq(Thread)]
         /\ \A y \in Queue : \A u \in Range(q[y]) : u # t => u \in Range(Unlinked(t)[y])
  <1>1. /\ q \in [Queue -> Seq(Thread)] /\ \A y \in Queue : Distinct(q[y])
        /\ queue[t] \in Queue \cup {None}
    BY DEF TypeOK, QueueInv, Queues
  <1>2. CASE queue[t] = None
    BY <1>1, <1>2 DEF Unlinked
  <1>3. CASE queue[t] # None
    <2>. DEFINE x == queue[t]
                r == RemoveFirst(q[x], t)
    <2>1. x \in Queue /\ q[x] \in Seq(Thread) /\ Distinct(q[x])
      BY <1>1, <1>3
    <2>2. Unlinked(t) = [q EXCEPT ![x] = r]
      BY <1>3 DEF Unlinked
    <2>3. r \in Seq(Thread) /\ Range(r) = Range(q[x]) \ {t}
      BY <2>1, RemovedSeq
    <2>. HIDE DEF r, x
    <2>. QED BY <1>1, <2>1, <2>2, <2>3
  <1>. QED BY <1>2, <1>3

\* A thread linked into a queue is in it, and every other stays in its own.
LEMMA LinkRange ==
  ASSUME prio \in [Thread -> Nat], NEW links \in [Queue -> Seq(Thread)], NEW t \in Thread,
         NEW x \in Queue, NEW p \in Nat
  PROVE  /\ Link(links, t, x, p) \in [Queue -> Seq(Thread)]
         /\ t \in Range(Link(links, t, x, p)[x])
         /\ \A y \in Queue : \A u \in Range(links[y]) : u \in Range(Link(links, t, x, p)[y])
         /\ \A y \in Queue : y # x => Link(links, t, x, p)[y] = links[y]
  <1>. DEFINE s == links[x]
              i == Position(s, p)
              r == InsertAt(s, i, t)
  <1>1. s \in Seq(Thread)
    OBVIOUS
  <1>2. i \in 1 .. Len(s) + 1
    BY <1>1, PositionIsPlace DEF IsPlace
  <1>3. Link(links, t, x, p) = [links EXCEPT ![x] = r]
    BY DEF Link
  <1>. HIDE DEF i, s
  <1>4. r \in Seq(Thread) /\ Inserted(r, s, i, t)
    BY <1>1, <1>2, InsertShape
  <1>. HIDE DEF r
  <1>5. i \in DOMAIN r /\ r[i] = t
    <2>1. Len(s) \in Nat
      BY <1>1
    <2>. QED BY <1>2, <1>4, <2>1 DEF Inserted
  <1>6. t \in Range(r)
    BY <1>5 DEF Range
  <1>7. ASSUME NEW u \in Range(s) PROVE u \in Range(r)
    <2>1. PICK k \in DOMAIN s : s[k] = u
      BY DEF Range
    <2>2. k < i \/ k >= i
      BY <1>1, <1>2
    <2>3. \E l \in DOMAIN r : r[l] = u
      BY <1>4, <2>1, <2>2 DEF Inserted
    <2>. QED BY <2>3 DEF Range
  <1>. QED BY <1>3, <1>4, <1>6, <1>7 DEF s

\* Nor does a thread that is moved in its queue, or between run queues, leave it.
LEMMA RelinkKeeps ==
  ASSUME TypeOK, QueueInv, NEW t \in Thread, NEW x \in Queue, NEW p \in AnyPriority,
         Relink(t, x, p), state[t] = "waiting" => x = queue[t],
         \A u \in Thread : state'[u] = "waiting" => state[u] = "waiting"
  PROVE  LinksKept
  <1>1. /\ prio \in [Thread -> Nat] /\ p \in Nat /\ x # None
        /\ queue \in [Thread -> Queue \cup {None}]
    BY PriorityFacts, QueueAssumption DEF TypeOK
  <1>2. q' = Link(Unlinked(t), t, x, p) /\ queue' = [queue EXCEPT ![t] = x]
    BY <1>1 DEF Relink
  <1>3. /\ Unlinked(t) \in [Queue -> Seq(Thread)]
        /\ \A y \in Queue : \A u \in Range(q[y]) : u # t => u \in Range(Unlinked(t)[y])
    BY UnlinkRange
  <1>4. /\ t \in Range(q'[x])
        /\ \A y \in Queue : \A u \in Range(Unlinked(t)[y]) : u \in Range(q'[y])
    BY <1>1, <1>2, <1>3, LinkRange
  <1>5. ASSUME NEW u \in Thread, state'[u] = "waiting"
        PROVE  /\ state[u] = "waiting" /\ queue'[u] = queue[u]
               /\ queue[u] \in JoinQueues /\ u \in Range(q[queue[u]]) => u \in Range(q'[queue[u]])
    <2>1. CASE u = t
      BY <1>1, <1>2, <1>4, <1>5, <2>1
    <2>2. CASE u # t
      <3>1. queue'[u] = queue[u]
        BY <1>1, <1>2, <2>2
      <3>2. queue[u] \in JoinQueues => queue[u] \in Queue
        BY Addresses
      <3>. QED BY <1>3, <1>4, <1>5, <2>2, <3>1, <3>2
    <2>. QED BY <2>1, <2>2
  <1>. QED BY <1>5 DEF LinksKept

\* Nor does anyone when a thread takes itself out.
LEMMA UnlinkKeeps ==
  ASSUME TypeOK, QueueInv, NEW t \in Thread, Unlink(t), state'[t] # "waiting",
         \A u \in Thread : state'[u] = "waiting" => state[u] = "waiting"
  PROVE  LinksKept
  <1>1. /\ \A y \in Queue : \A u \in Range(q[y]) : u # t => u \in Range(Unlinked(t)[y])
        /\ q' = Unlinked(t) /\ \A u \in Thread \ {t} : queue'[u] = queue[u]
    BY UnlinkRange DEF Unlink, TypeOK
  <1>. QED BY <1>1, Addresses DEF LinksKept

\* Who is not readied by a wake-up sleeps on where it did.
LEMMA WakeKeeps ==
  ASSUME TypeOK, QueueInv, \A t \in Thread : dead[t] => Terminated(t),
         NEW x \in BlockQueues, Wake(x)
  PROVE  LinksKept /\ SameEnded
  <1>1. /\ q \in [Queue -> Seq(Thread)] /\ x \in Queue
        /\ \A u \in Thread : state[u] = "waiting" => queue[u] \in BlockQueues
    BY Addresses DEF TypeOK, QueueInv
  <1>. DEFINE rest == SubSeq(q[x], Len(Popped(x)) + 1, Len(q[x]))
  <1>2. /\ \A t : t \in Range(q[x]) <=> t \in Range(Popped(x)) \/ t \in Range(rest)
        /\ Range(Awake(x)) = {t \in Wakes(x) : suspend[t] < 1}
    BY <1>1, PoppedFrom
  <1>. HIDE DEF rest
  <1>3. /\ \A u \in Thread : state'[u] = IF u \in Wakes(x) THEN "ready" ELSE state[u]
        /\ \A u \in Thread : u \in Range(Awake(x)) => u \in Wakes(x)
    BY <1>2 DEF Wake, WokenStates
  <1>4. /\ q'[x] = rest
        /\ \A y \in Queue : y # x /\ y[1] # "run" => q'[y] = q[y]
        /\ \A u \in Thread : u \notin Range(Popped(x)) /\ u \notin Range(Awake(x)) =>
                                queue'[u] = queue[u]
    BY <1>1 DEF Wake, WakeLinks, rest
  <1>5. \A u \in Thread : u \in Wakes(x) => ~Terminated(u)
    BY DEF Wakes
  <1>6. SameEnded
    BY <1>3, <1>5 DEF SameEnded, Terminated
  <1>7. ASSUME NEW u \in Thread, state'[u] = "waiting"
        PROVE  /\ state[u] = "waiting" /\ queue'[u] = queue[u]
               /\ queue[u] \in JoinQueues /\ u \in Range(q[queue[u]]) => u \in Range(q'[queue[u]])
    <2>1. u \notin Wakes(x) /\ state[u] = "waiting"
      BY <1>3, <1>7
    <2>2. ~Terminated(u) /\ ~dead[u]
      BY <2>1 DEF Terminated
    <2>3. u \notin Range(Popped(x)) /\ u \notin Range(Awake(x))
      BY <1>3, <2>1, <2>2 DEF Wakes
    <2>4. queue'[u] = queue[u]
      BY <1>4, <2>3
    <2>5. ASSUME queue[u] \in JoinQueues, u \in Range(q[queue[u]]) PROVE u \in Range(q'[queue[u]])
      <3>1. queue[u] \in Queue /\ queue[u][1] # "run"
        BY <1>1, <2>1, Addresses
      <3>2. CASE queue[u] = x
        BY <1>2, <1>4, <2>3, <2>5, <3>2
      <3>3. CASE queue[u] # x
        BY <1>4, <2>5, <3>1, <3>3
      <3>. QED BY <3>2, <3>3
    <2>. QED BY <2>1, <2>4, <2>5
  <1>. QED BY <1>6, <1>7 DEF LinksKept

\* The calls that a call makes.
LEMMA CalmCalls ==
  ASSUME NEW ms
  PROVE  /\ <<>> \in Seq(FrameType) /\ Calm(<<>>, ms)
         /\ \A f \in FrameType : f.call \notin {"SleepThread", "LockMutex"} =>
               <<f>> \in Seq(FrameType) /\ Calm(<<f>>, ms)
         /\ \A f, g \in FrameType : {f.call, g.call} \cap {"SleepThread", "LockMutex"} = {} =>
               <<f, g>> \in Seq(FrameType) /\ Calm(<<f, g>>, ms)
  <1>1. <<>> \in Seq(FrameType) /\ Calm(<<>>, ms)
    BY EmptyStack DEF Calm
  <1>2. ASSUME NEW f \in FrameType, f.call \notin {"SleepThread", "LockMutex"}
        PROVE  <<f>> \in Seq(FrameType) /\ Calm(<<f>>, ms)
    BY <1>2 DEF Calm, CalmFrame
  <1>3. ASSUME NEW f \in FrameType, NEW g \in FrameType,
               {f.call, g.call} \cap {"SleepThread", "LockMutex"} = {}
        PROVE  <<f, g>> \in Seq(FrameType) /\ Calm(<<f, g>>, ms)
    <2>1. <<f, g>> = <<f>> \o <<g>>
      BY TwoElements
    <2>2. /\ <<f>> \in Seq(FrameType) /\ Calm(<<f>>, ms)
          /\ <<g>> \in Seq(FrameType) /\ Calm(<<g>>, ms)
      BY <1>2, <1>3
    <2>3. <<f>> \o <<g>> \in Seq(FrameType)
      BY <2>2
    <2>. QED BY ONLY <2>1, <2>2, <2>3, CalmConcat
  <1>. QED BY <1>1, <1>2, <1>3

\* The calls that the locks have to do with.
Lockers == {"UnlockAll", "WakeupThread", "SleepThread", "Promote", "LockMutex"}

\* A step of another call, on the stack.
LEMMA CalmStep ==
  ASSUME Good, Good', LockInv, UNCHANGED <<game, mutexVars, waitMutex>>, LinksKept, SameEnded,
         \A c \in Lockers : ~Top(c),
         NEW k \in Seq(FrameType), Calm(k, game.mutexes),
         NEW r, r = Rest \/ r = stack[active], stack' = [stack EXCEPT ![active] = k \o r]
  PROVE  LockInv'
  <1>1. TypeOK /\ QueueInv /\ TypeOK' /\ QueueInv'
    BY DEF Good
  <1>2. /\ ~Top("UnlockAll") /\ ~Top("WakeupThread") /\ ~Top("SleepThread") /\ ~Top("Promote")
        /\ ~Top("LockMutex")
    BY DEF Lockers
  <1>3. \A t \in Thread : Calm(stack[t], game.mutexes)
    BY <1>1, <1>2, NotAsleep DEF LockInv
  <1>4. StacksKept
    BY <1>1, <1>2, <1>3, ContinueKeeps
  <1>5. active' \in Thread
    BY <1>1 DEF TypeOK
  <1>. QED BY <1>1, <1>2, <1>4, <1>5, Undisturbed

\* What the steps that change the stack alone leave.
LEMMA OnlyStack ==
  ASSUME UNCHANGED <<q, queue, state>>
  PROVE  LinksKept /\ SameEnded
  BY LinksStay DEF SameEnded, Terminated

\* The calls of the scheduler and of the timers.
LEMMA TimersLocks ==
  ASSUME Good, Good', LockInv, UNCHANGED game, TimersDue \/ PumpEnds \/ IdleEnds
  PROVE  LockInv'
  <1>1. /\ UNCHANGED <<game, mutexVars, waitMutex, q, queue, state>>
        /\ \A c \in Lockers : ~Top(c)
    BY DEF TimersDue, PumpEnds, IdleEnds, linkVars, Top, Lockers
  <1>2. CASE TimersDue
    <2>1. PICK due \in SUBSET timers :
             stack' = [stack EXCEPT ![active] =
                          <<Frame("ProcessSleepTimers", due), Frame("Select", Arg)>> \o Rest]
      BY <1>2 DEF TimersDue, Continue
    <2>2. Frame("ProcessSleepTimers", due) \in FrameType /\ Frame("Select", Arg) \in FrameType
      <3>1. timers \subseteq Thread
        BY DEF Good, TypeOK
      <3>2. Arg \in BOOLEAN
        BY <1>2, TopFrame, FrameArgs DEF Good, TimersDue, Top, Arg, Selecting
      <3>. QED BY <3>1, <3>2, Frames
    <2>. DEFINE f == Frame("ProcessSleepTimers", due)
                g == Frame("Select", Arg)
    <2>4. /\ f \in FrameType /\ f.call = "ProcessSleepTimers"
          /\ g \in FrameType /\ g.call = "Select"
      BY <2>2, Frames
    <2>. HIDE DEF f, g
    <2>3. <<f, g>> \in Seq(FrameType) /\ Calm(<<f, g>>, game.mutexes)
      BY <2>4, CalmCalls
    <2>5. stack' = [stack EXCEPT ![active] = <<f, g>> \o Rest]
      BY <2>1 DEF f, g
    <2>. QED BY <1>1, <2>3, <2>5, OnlyStack, CalmStep
  <1>3. CASE PumpEnds
    <2>1. stack' = [stack EXCEPT ![active] = <<>> \o Rest]
      BY <1>3 DEF PumpEnds, Return, Continue
    <2>. QED BY <1>1, <2>1, OnlyStack, CalmCalls, CalmStep
  <1>4. CASE IdleEnds
    <2>1. stack' = [stack EXCEPT ![active] = <<Frame("Pick", None)>> \o Rest]
      BY <1>4 DEF IdleEnds, Continue
    <2>2. <<Frame("Pick", None)>> \in Seq(FrameType) /\ Calm(<<Frame("Pick", None)>>, game.mutexes)
      BY Frames, CalmCalls
    <2>. QED BY <1>1, <2>1, <2>2, OnlyStack, CalmStep
  <1>. QED BY <1>2, <1>3, <1>4

\* The calls that end in SelectThread: what they find, SelectThread will act on.
LEMMA SelectLocks ==
  ASSUME Good, Good', LockInv, UNCHANGED game, Reschedule \/ YieldThread \/ Exited
  PROVE  LockInv'
  <1>1. /\ UNCHANGED <<game, mutexVars, waitMutex, q, queue, state>>
        /\ \A c \in Lockers : ~Top(c)
    BY DEF Reschedule, YieldThread, Exited, linkVars, Top, Lockers, GuestCalls, GuestCode
  <1>2. /\ <<SelectFrame>> \in Seq(FrameType) /\ Calm(<<SelectFrame>>, game.mutexes)
        /\ <<Frame("SelectThread", TRUE)>> \in Seq(FrameType)
        /\ Calm(<<Frame("SelectThread", TRUE)>>, game.mutexes)
        /\ <<>> \in Seq(FrameType) /\ Calm(<<>>, game.mutexes)
    BY Frames, SelectFrames, CalmCalls
  <1>3. \/ stack' = [stack EXCEPT ![active] = <<SelectFrame>> \o Rest]
        \/ stack' = [stack EXCEPT ![active] = <<Frame("SelectThread", TRUE)>> \o Rest]
        \/ stack' = [stack EXCEPT ![active] = <<>> \o Rest]
    BY DEF Reschedule, YieldThread, Exited, Continue
  <1>. QED BY <1>1, <1>2, <1>3, OnlyStack, CalmStep

\* OSDisableScheduler and OSEnableScheduler.
LEMMA SchedulerLocks ==
  ASSUME Good, Good', LockInv, UNCHANGED game, DisableScheduler \/ EnableScheduler
  PROVE  LockInv'
  <1>1. /\ UNCHANGED <<game, mutexVars, waitMutex, q, queue, state, stack, active>>
        /\ \A c \in Lockers : ~Top(c)
    BY DEF DisableScheduler, EnableScheduler, linkVars, Top, Lockers, GuestCalls, GuestCode, fiberVars
  <1>2. stack' = [stack EXCEPT ![active] = <<>> \o stack[active]]
    <2>1. stack[active] \in Seq(FrameType) /\ stack \in [Thread -> Seq(FrameType)]
      BY TopFrame DEF Good, TypeOK
    <2>2. <<>> \o stack[active] = stack[active]
      BY <2>1, ConcatEmptySeq
    <2>. QED BY <1>1, <2>1, <2>2
  <1>. QED BY <1>1, <1>2, OnlyStack, CalmCalls, CalmStep

\* A step that links and unlinks ready threads alone.
LEMMA RunLinks ==
  ASSUME \A y \in BlockQueues : q'[y] = q[y],
         \A t \in Thread : state'[t] = "waiting" => state[t] = "waiting" /\ queue'[t] = queue[t]
  PROVE  LinksKept
  BY Addresses DEF LinksKept

\* A run queue is no wait queue.
LEMMA RunQueueApart ==
  ASSUME q \in [Queue -> Seq(Thread)], NEW p, NEW s, q' = [q EXCEPT ![RunQ(p)] = s]
  PROVE  \A y \in BlockQueues : q'[y] = q[y]
  <1>1. \A y \in BlockQueues : y \in Queue /\ y # RunQ(p)
    BY Addresses
  <1>. QED BY <1>1

\* SelectThread puts the running thread in its run queue.
LEMMA SelectThreadLocks ==
  ASSUME Good, Good', LockInv, UNCHANGED game, SelectThread
  PROVE  LockInv'
  <1>1. /\ UNCHANGED <<game, mutexVars, waitMutex>>
        /\ \A c \in Lockers : ~Top(c)
    BY DEF SelectThread, Top, Lockers
  <1>2. TypeOK
    BY DEF Good
  <1>3. \/ stack' = [stack EXCEPT ![active] = <<>> \o Rest]
        \/ stack' = [stack EXCEPT ![active] = <<Frame("Idle", None)>> \o Rest]
        \/ stack' = [stack EXCEPT ![active] = <<Frame("Pick", None)>> \o Rest]
    BY DEF SelectThread, Return, Continue
  <1>4. LinksKept /\ SameEnded
    <2>1. CASE UNCHANGED <<state, q, queue>>
      BY <2>1, OnlyStack
    <2>2. CASE ~UNCHANGED <<state, q, queue>>
      <3>1. /\ ~KeepsCpu(Arg) /\ state[running] = "running"
            /\ state' = [state EXCEPT ![running] = "ready"]
            /\ q' = [q EXCEPT ![RunQ(prio[running])] = Append(@, running)]
            /\ queue' = [queue EXCEPT ![running] = RunQ(prio[running])]
        BY <2>2 DEF SelectThread, linkVars
      <3>2. running \in Thread
        BY <1>2, <3>1 DEF KeepsCpu, TypeOK
      <3>3. \A y \in BlockQueues : q'[y] = q[y]
        <4>1. q \in [Queue -> Seq(Thread)]
          BY <1>2 DEF TypeOK
        <4>. QED BY <3>1, <4>1, RunQueueApart
      <3>4. /\ state'[running] = "ready"
            /\ \A t \in Thread \ {running} : state'[t] = state[t] /\ queue'[t] = queue[t]
        BY <1>2, <3>1, <3>2 DEF TypeOK
      <3>5. LinksKept
        BY <3>3, <3>4, RunLinks
      <3>6. SameEnded
        BY <3>1, <3>4 DEF SameEnded, Terminated
      <3>. QED BY <3>5, <3>6
    <2>. QED BY <2>1, <2>2
  <1>5. /\ <<>> \in Seq(FrameType) /\ Calm(<<>>, game.mutexes)
        /\ <<Frame("Idle", None)>> \in Seq(FrameType) /\ Calm(<<Frame("Idle", None)>>, game.mutexes)
        /\ <<Frame("Pick", None)>> \in Seq(FrameType) /\ Calm(<<Frame("Pick", None)>>, game.mutexes)
    BY Frames, CalmCalls
  <1>. QED BY <1>1, <1>3, <1>4, <1>5, CalmStep

\* The fiber that is switched to comes back from the switch in its own stack, which is calm.
LEMMA SwitchedLocks ==
  ASSUME Good, Good', LockInv, UNCHANGED game, Switched
  PROVE  LockInv'
  <1>1. /\ UNCHANGED <<game, mutexVars, waitMutex, q, queue, state>>
        /\ \A c \in Lockers : ~Top(c)
    BY DEF Switched, linkVars, Top, Lockers
  <1>2. stack' = [stack EXCEPT ![active] = <<>> \o Rest]
    BY DEF Switched, Return, Continue
  <1>. QED BY <1>1, <1>2, OnlyStack, CalmCalls, CalmStep

\* Whoever gets the processor was ready, and a thread that is over never comes back to its calls.
LEMMA PickLocks ==
  ASSUME Good, Good', LockInv, UNCHANGED game, Pick
  PROVE  LockInv'
  <1>1. /\ UNCHANGED <<game, mutexVars, waitMutex>>
        /\ \A c \in Lockers : ~Top(c)
    BY DEF Pick, Top, Lockers
  <1>2. TypeOK /\ TypeOK' /\ QueueInv /\ QueueInv' /\ \A t \in Thread : dead[t] => Terminated(t)
    BY DEF Good, LifeInv
  <1>. DEFINE p == Min(pending)
              n == Head(q[RunQ(p)])
  <1>3. /\ ~Terminated(n)
        /\ q' = [q EXCEPT ![RunQ(p)] = Tail(@)]
        /\ queue' = [queue EXCEPT ![n] = None]
        /\ state' = [state EXCEPT ![n] = "running"]
        /\ active' = n
        /\ stack' = [stack EXCEPT ![active] =
                        IF n = active THEN Rest
                        ELSE IF dead[active] THEN <<>>
                        ELSE <<Frame("Switched", curGuest)>> \o Rest]
    BY DEF Pick
  <1>. HIDE DEF n, p
  <1>4. n \in Thread
    BY <1>2, <1>3 DEF TypeOK
  <1>5. /\ state'[n] = "running"
        /\ \A t \in Thread \ {n} : state'[t] = state[t] /\ queue'[t] = queue[t]
    BY <1>2, <1>3, <1>4 DEF TypeOK
  <1>6. LinksKept
    <2>1. \A y \in BlockQueues : q'[y] = q[y]
      <3>1. q \in [Queue -> Seq(Thread)]
        BY <1>2 DEF TypeOK
      <3>. QED BY <1>3, <3>1, RunQueueApart
    <2>. QED BY <1>5, <2>1, RunLinks
  <1>7. SameEnded
    BY <1>3, <1>5 DEF SameEnded, Terminated
  <1>8. /\ \A t \in Thread : Calm(stack[t], game.mutexes)
        /\ ~Top("LockMutex") /\ ~Top("UnlockAll") /\ ~Top("WakeupThread")
    <2>1. ~Top("SleepThread") /\ ~Top("Promote")
      BY <1>1 DEF Lockers
    <2>. QED BY <1>1, <1>2, <2>1, NotAsleep DEF LockInv, Lockers
  <1>9. StacksKept
    <2>1. CASE n = active
      <3>1. <<>> \o Rest = Rest
        BY <1>2, TopFrame, ConcatEmptySeq
      <3>2. stack' = [stack EXCEPT ![active] = <<>> \o Rest]
        BY <1>3, <2>1, <3>1
      <3>. QED BY <1>2, <1>8, <3>2, CalmCalls, ContinueKeeps
    <2>2. CASE n # active /\ ~dead[active]
      <3>. DEFINE f == Frame("Switched", curGuest)
      <3>1. f \in FrameType /\ f.call = "Switched"
        BY <1>2, Frames DEF TypeOK
      <3>2. stack' = [stack EXCEPT ![active] = <<f>> \o Rest]
        BY <1>3, <2>2
      <3>. HIDE DEF f
      <3>3. <<f>> \in Seq(FrameType) /\ Calm(<<f>>, game.mutexes)
        BY <3>1, CalmCalls
      <3>. QED BY <1>2, <1>8, <3>2, <3>3, ContinueKeeps
    <2>3. CASE n # active /\ dead[active]
      <3>1. Terminated(active) /\ active \in Thread
        BY <1>2, <2>3 DEF TypeOK
      <3>2. stack'[active] = <<>> /\ \A t \in Thread \ {active} : stack'[t] = stack[t]
        BY <1>2, <1>3, <2>3 DEF TypeOK
      <3>3. Calm(<<>>, game.mutexes)
        BY CalmCalls
      <3>4. state'[active] \in {"none", "moribund"}
        BY <1>7, <3>1 DEF SameEnded, Terminated
      <3>. QED BY <1>8, <3>2, <3>3, <3>4 DEF StacksKept, BegunKept, Terminated
    <2>. QED BY <2>1, <2>2, <2>3
  <1>. QED BY <1>1, <1>2, <1>3, <1>4, <1>6, <1>7, <1>8, <1>9, Undisturbed

\* The timers resume the threads they are for.
LEMMA FireLocks ==
  ASSUME Good, Good', LockInv, UNCHANGED game, NEW t \in Thread, PumpTimer(t) \/ IdleTimer(t)
  PROVE  LockInv'
  <1>1. /\ UNCHANGED <<game, mutexVars, waitMutex, q, queue, state>>
        /\ \A c \in Lockers : ~Top(c)
    BY DEF PumpTimer, IdleTimer, FireSleepTimer, linkVars, Top, Lockers
  <1>2. \/ stack' = [stack EXCEPT ![active] = <<Frame("ResumeThread", t)>> \o stack[active]]
        \/ stack' = [stack EXCEPT ![active] = <<>> \o stack[active]]
    <2>1. <<>> \o stack[active] = stack[active] /\ stack \in [Thread -> Seq(FrameType)]
      BY TopFrame, ConcatEmptySeq DEF Good, TypeOK
    <2>2. \/ stack' = [stack EXCEPT ![active] = <<Frame("ResumeThread", t)>> \o stack[active]]
          \/ stack' = stack
      BY DEF PumpTimer, IdleTimer, FireSleepTimer, Continue
    <2>. QED BY <2>1, <2>2
  <1>. DEFINE f == Frame("ResumeThread", t)
  <1>3. f \in FrameType /\ f.call = "ResumeThread"
    BY Frames
  <1>4. \/ stack' = [stack EXCEPT ![active] = <<f>> \o stack[active]]
        \/ stack' = [stack EXCEPT ![active] = <<>> \o stack[active]]
    BY <1>2
  <1>. HIDE DEF f
  <1>5. /\ <<f>> \in Seq(FrameType) /\ Calm(<<f>>, game.mutexes)
        /\ <<>> \in Seq(FrameType) /\ Calm(<<>>, game.mutexes)
    BY <1>3, CalmCalls
  <1>. QED BY <1>1, <1>4, <1>5, OnlyStack, CalmStep

\* Interrupts wake the threads that wait for them.
LEMMA InterruptLocks ==
  ASSUME Good, Good', LockInv, UNCHANGED game, NEW w \in WaitQueue, IdleInterrupt(w) \/ Interrupt(w)
  PROVE  LockInv'
  <1>1. /\ UNCHANGED <<game, mutexVars, waitMutex>>
        /\ Wake(WaitQ(w))
        /\ \A c \in Lockers : ~Top(c)
    BY DEF IdleInterrupt, Interrupt, Top, Lockers, GuestCalls, GuestCode
  <1>2. \/ stack' = [stack EXCEPT ![active] = <<IfResched>> \o Rest]
        \/ stack' = [stack EXCEPT ![active] = <<>> \o stack[active]]
    <2>1. <<>> \o stack[active] = stack[active] /\ stack \in [Thread -> Seq(FrameType)]
      BY TopFrame, ConcatEmptySeq DEF Good, TypeOK
    <2>2. stack' = [stack EXCEPT ![active] = <<IfResched>> \o Rest] \/ stack' = stack
      BY DEF IdleInterrupt, Interrupt, Continue
    <2>. QED BY <2>1, <2>2
  <1>3. /\ <<IfResched>> \in Seq(FrameType) /\ Calm(<<IfResched>>, game.mutexes)
        /\ <<>> \in Seq(FrameType) /\ Calm(<<>>, game.mutexes)
    BY SelectFrames, CalmCalls
  <1>4. LinksKept /\ SameEnded
    <2>1. WaitQ(w) \in BlockQueues
      BY Addresses
    <2>. QED BY <1>1, <2>1, WakeKeeps DEF Good, LifeInv
  <1>. QED BY <1>1, <1>2, <1>3, <1>4, CalmStep

\* OSJoinThread after its sleep, and OSDetachThread.
LEMMA ReapLocks ==
  ASSUME Good, Good', LockInv, UNCHANGED game, NEW t \in Thread, Joined(t) \/ DetachThread(t)
  PROVE  LockInv'
  <1>1. /\ UNCHANGED <<game, mutexVars, waitMutex, q, queue>>
        /\ \A c \in Lockers : ~Top(c)
    BY DEF Joined, DetachThread, linkVars, Top, Lockers, GuestCalls, GuestCode
  <1>2. \/ stack' = [stack EXCEPT ![active] = <<Frame("WakeupThread", JoinQ(t))>> \o Rest]
        \/ stack' = [stack EXCEPT ![active] = <<>> \o Rest]
    BY DEF Joined, DetachThread, Return, Continue
  <1>3. /\ <<Frame("WakeupThread", JoinQ(t))>> \in Seq(FrameType)
        /\ Calm(<<Frame("WakeupThread", JoinQ(t))>>, game.mutexes)
        /\ <<>> \in Seq(FrameType) /\ Calm(<<>>, game.mutexes)
    BY Frames, Addresses, CalmCalls
  <1>4. \A u \in Thread : \/ state'[u] = state[u]
                          \/ state[u] = "moribund" /\ state'[u] = "none"
    BY DEF Joined, DetachThread, Reap, Good, TypeOK
  <1>5. LinksKept
    BY <1>1, <1>4, LinksStay
  <1>6. SameEnded
    BY <1>4 DEF SameEnded, Terminated
  <1>. QED BY <1>1, <1>2, <1>3, <1>5, <1>6, CalmStep

\* The end of OSSleepTicks.
LEMMA TickWokenLocks ==
  ASSUME Good, Good', LockInv, UNCHANGED game, NEW t \in Thread, TickWoken(t)
  PROVE  LockInv'
  <1>1. /\ UNCHANGED <<game, mutexVars, waitMutex, q, queue>>
        /\ \A c \in Lockers : ~Top(c)
    BY DEF TickWoken, linkVars, Top, Lockers
  <1>2. stack' = [stack EXCEPT ![active] = <<>> \o Rest]
    BY DEF TickWoken, Return, Continue
  <1>3. \A u \in Thread : state'[u] = state[u] \/ (state[u] = "ready" /\ state'[u] = "running")
    BY DEF TickWoken, Good, TypeOK
  <1>4. LinksKept
    BY <1>1, <1>3, LinksStay
  <1>5. SameEnded
    BY <1>3 DEF SameEnded, Terminated
  <1>. QED BY <1>1, <1>2, <1>4, <1>5, CalmCalls, CalmStep

\* OSSleepThread after its sleep.
LEMMA SleptLocks ==
  ASSUME Good, Good', LockInv, UNCHANGED game, NEW t \in Thread, NEW x \in BlockQueues, Slept(t, x)
  PROVE  LockInv'
  <1>1. /\ UNCHANGED <<game, mutexVars, waitMutex>>
        /\ \A c \in Lockers : ~Top(c)
    BY DEF Slept, Top, Lockers
  <1>2. stack' = [stack EXCEPT ![active] = <<>> \o Rest]
    BY DEF Slept, Return, Continue
  <1>3. LinksKept /\ SameEnded
    <2>1. CASE state[t] = "waiting" /\ queue[t] = x
      <3>1. Unlink(t) /\ state' = [state EXCEPT ![t] = "running"]
        BY <2>1 DEF Slept
      <3>2. \A u \in Thread : state'[u] = IF u = t THEN "running" ELSE state[u]
        BY <3>1 DEF Good, TypeOK
      <3>3. LinksKept
        BY <3>1, <3>2, UnlinkKeeps DEF Good
      <3>. QED BY <2>1, <3>2, <3>3 DEF SameEnded, Terminated
    <2>2. CASE ~(state[t] = "waiting" /\ queue[t] = x)
      BY <2>2, OnlyStack DEF Slept, linkVars
    <2>. QED BY <2>1, <2>2
  <1>. QED BY <1>1, <1>2, <1>3, CalmCalls, CalmStep

\* SetThreadEffectivePriority leaves every thread where it sleeps.
LEMMA PriorityKeeps ==
  ASSUME TypeOK, QueueInv, NEW t \in Thread, NEW p \in AnyPriority,
         SetThreadEffectivePriority(t, p), UNCHANGED state, ~Terminated(t) => p \in Priority
  PROVE  LinksKept
  <1>1. CASE state[t] = "ready" /\ Relink(t, RunQ(p), p)
    <2>1. RunQ(p) \in Queue
      BY <1>1, Addresses DEF Terminated
    <2>. QED BY <1>1, <2>1, RelinkKeeps
  <1>2. CASE state[t] = "waiting" /\ Relink(t, queue[t], p)
    <2>1. queue[t] \in Queue
      BY <1>2, Addresses DEF QueueInv
    <2>. QED BY <1>2, <2>1, RelinkKeeps
  <1>3. CASE UNCHANGED linkVars
    BY <1>3, LinksStay DEF linkVars
  <1>. QED BY <1>1, <1>2, <1>3 DEF SetThreadEffectivePriority

\* Propagating a priority moves a thread within its queue.
LEMMA PropagateLocks ==
  ASSUME Good, Good', LockInv, UNCHANGED game, NEW t \in Thread, Propagate(t)
  PROVE  LockInv'
  <1>1. /\ UNCHANGED <<game, mutexVars, waitMutex, state>>
        /\ \A c \in Lockers : ~Top(c)
    BY DEF Propagate, Top, Lockers
  <1>2. TypeOK /\ QueueInv
    BY DEF Good
  <1>. DEFINE p == Effective(t, held[t])
              f == Frame("Propagate", NextOwner(t))
  <1>3. p \in Priority /\ p \in AnyPriority
    <2>1. held[t] \in Seq(Mutex)
      BY <1>2 DEF TypeOK
    <2>. QED BY <1>2, <2>1, EffectivePriority, PriorityFacts
  <1>4. \/ UNCHANGED linkVars
        \/ SetThreadEffectivePriority(t, p)
    BY DEF Propagate
  <1>5. \/ stack' = [stack EXCEPT ![active] = <<>> \o Rest]
        \/ NextOwner(t) # None /\ stack' = [stack EXCEPT ![active] = <<f>> \o Rest]
    BY DEF Propagate, Return, Continue
  <1>6. LinksKept /\ SameEnded
    <2>. HIDE DEF p
    <2>. QED BY <1>1, <1>2, <1>3, <1>4, PriorityKeeps, LinksStay DEF SameEnded, Terminated, linkVars
  <1>7. NextOwner(t) # None => f \in FrameType /\ f.call = "Propagate"
    <2>1. NextOwner(t) # None => NextOwner(t) \in Thread
      BY <1>2 DEF NextOwner, TypeOK
    <2>. QED BY <2>1, Frames
  <1>. HIDE DEF f
  <1>8. /\ <<>> \in Seq(FrameType) /\ Calm(<<>>, game.mutexes)
        /\ NextOwner(t) # None => <<f>> \in Seq(FrameType) /\ Calm(<<f>>, game.mutexes)
    BY <1>7, CalmCalls
  <1>. QED BY <1>1, <1>5, <1>6, <1>8, CalmStep

\* The calls that OSSuspendThread and OSResumeThread end with.
LEMMA PropagateCalls ==
  ASSUME TypeOK, NEW m \in Mutex \cup {None}, NEW ms
  PROVE  /\ PropagateFrom(m) \o <<IfResched>> \in Seq(FrameType)
         /\ Calm(PropagateFrom(m) \o <<IfResched>>, ms)
  <1>1. <<IfResched>> \in Seq(FrameType) /\ Calm(<<IfResched>>, ms)
    BY SelectFrames, CalmCalls
  <1>2. PropagateFrom(m) \in Seq(FrameType) /\ Calm(PropagateFrom(m), ms)
    <2>1. CASE m = None \/ owner[m] = None
      BY <2>1, CalmCalls DEF PropagateFrom
    <2>2. CASE ~(m = None \/ owner[m] = None)
      <3>. DEFINE f == Frame("Propagate", owner[m])
      <3>1. owner[m] \in Thread
        BY <2>2 DEF TypeOK
      <3>2. f \in FrameType /\ f.call = "Propagate"
        BY <3>1, Frames
      <3>3. PropagateFrom(m) = <<f>>
        BY <2>2 DEF PropagateFrom
      <3>. HIDE DEF f
      <3>. QED BY <3>2, <3>3, CalmCalls
    <2>. QED BY <2>1, <2>2
  <1>. DEFINE a == PropagateFrom(m)
              b == <<IfResched>>
  <1>3. a \in Seq(FrameType) /\ Calm(a, ms) /\ b \in Seq(FrameType) /\ Calm(b, ms)
    BY <1>1, <1>2
  <1>. HIDE DEF a, b
  <1>4. a \o b \in Seq(FrameType) /\ Calm(a \o b, ms)
    BY <1>3, CalmConcat
  <1>. QED BY <1>4 DEF a, b

\* OSSuspendThread takes a ready thread out of its run queue, and moves a waiting one within its queue.
LEMMA SuspendLocks ==
  ASSUME Good, Good', LockInv, UNCHANGED game, NEW t \in Thread, SuspendThread(t)
  PROVE  LockInv'
  <1>1. /\ UNCHANGED <<game, mutexVars, waitMutex>>
        /\ \A c \in Lockers : ~Top(c)
    BY DEF SuspendThread, Called, GuestCalls, GuestCode, Top, Lockers
  <1>2. TypeOK /\ QueueInv /\ SuspendedWait \in AnyPriority
    BY PriorityFacts DEF Good
  <1>. DEFINE k == PropagateFrom(waitMutex[t]) \o <<IfResched>>
  <1>3. \/ stack' = [stack EXCEPT ![active] = <<>> \o Rest]
        \/ stack' = [stack EXCEPT ![active] = <<IfResched>> \o Rest]
        \/ stack' = [stack EXCEPT ![active] = k \o Rest]
    BY DEF SuspendThread, Return, Continue
  <1>4. /\ <<>> \in Seq(FrameType) /\ Calm(<<>>, game.mutexes)
        /\ <<IfResched>> \in Seq(FrameType) /\ Calm(<<IfResched>>, game.mutexes)
        /\ k \in Seq(FrameType) /\ Calm(k, game.mutexes)
    <2>1. waitMutex[t] \in Mutex \cup {None}
      BY <1>2 DEF TypeOK
    <2>. QED BY <1>2, <2>1, SelectFrames, CalmCalls, PropagateCalls
  <1>5. LinksKept /\ SameEnded
    <2>1. \/ UNCHANGED <<state, q, queue>>
          \/ state[t] = "ready" /\ Unlink(t) /\ state' = state
          \/ state[t] = "running" /\ state' = [state EXCEPT ![t] = "ready"] /\ UNCHANGED <<q, queue>>
          \/ state[t] = "waiting" /\ Relink(t, queue[t], SuspendedWait) /\ state' = state
      BY DEF SuspendThread, linkVars
    <2>2. CASE UNCHANGED <<state, q, queue>>
      BY <2>2, OnlyStack
    <2>3. CASE state[t] = "ready" /\ Unlink(t) /\ state' = state
      BY <1>2, <2>3, UnlinkKeeps DEF SameEnded, Terminated
    <2>4. CASE state[t] = "running" /\ state' = [state EXCEPT ![t] = "ready"] /\ UNCHANGED <<q, queue>>
      <3>1. \A u \in Thread : state'[u] = IF u = t THEN "ready" ELSE state[u]
        BY <1>2, <2>4 DEF TypeOK
      <3>. QED BY <2>4, <3>1, LinksStay DEF SameEnded, Terminated
    <2>5. CASE state[t] = "waiting" /\ Relink(t, queue[t], SuspendedWait) /\ state' = state
      <3>1. queue[t] \in Queue
        BY <1>2, <2>5, Addresses DEF QueueInv
      <3>. QED BY <1>2, <2>5, <3>1, RelinkKeeps DEF SameEnded, Terminated
    <2>. QED BY <2>1, <2>2, <2>3, <2>4, <2>5
  <1>. HIDE DEF k
  <1>. QED BY <1>1, <1>3, <1>4, <1>5, CalmStep

\* OSResumeThread puts a ready thread in its run queue, and moves a waiting one within its queue.
LEMMA ResumeLocks ==
  ASSUME Good, Good', LockInv, UNCHANGED game, NEW t \in Thread, ResumeThread(t)
  PROVE  LockInv'
  <1>1. /\ UNCHANGED <<game, mutexVars, waitMutex>>
        /\ \A c \in Lockers : ~Top(c)
    BY DEF ResumeThread, Called, GuestCalls, GuestCode, Top, Lockers
  <1>2. TypeOK /\ QueueInv
    BY DEF Good
  <1>. DEFINE k == PropagateFrom(waitMutex[t]) \o <<IfResched>>
              p == Effective(t, held[t])
  <1>3. \/ stack' = [stack EXCEPT ![active] = <<>> \o Rest]
        \/ stack' = [stack EXCEPT ![active] = <<IfResched>> \o Rest]
        \/ stack' = [stack EXCEPT ![active] = k \o Rest]
    BY DEF ResumeThread, Return, Continue
  <1>4. /\ <<>> \in Seq(FrameType) /\ Calm(<<>>, game.mutexes)
        /\ <<IfResched>> \in Seq(FrameType) /\ Calm(<<IfResched>>, game.mutexes)
        /\ k \in Seq(FrameType) /\ Calm(k, game.mutexes)
    <2>1. waitMutex[t] \in Mutex \cup {None}
      BY <1>2 DEF TypeOK
    <2>. QED BY <1>2, <2>1, SelectFrames, CalmCalls, PropagateCalls
  <1>5. p \in Priority /\ p \in AnyPriority
    <2>1. held[t] \in Seq(Mutex)
      BY <1>2 DEF TypeOK
    <2>. QED BY <1>2, <2>1, EffectivePriority, PriorityFacts
  <1>6. LinksKept /\ SameEnded
    <2>1. \/ UNCHANGED <<state, q, queue>>
          \/ state[t] = "waiting" /\ Relink(t, queue[t], p) /\ state' = state
          \/ /\ state[t] \in {"ready", "running"}
             /\ state' = [state EXCEPT ![t] = "ready"]
             /\ q' = Link(q, t, RunQ(p), p)
             /\ queue' = [queue EXCEPT ![t] = RunQ(p)]
      BY DEF ResumeThread, linkVars
    <2>. HIDE DEF p
    <2>2. CASE UNCHANGED <<state, q, queue>>
      BY <2>2, OnlyStack
    <2>3. CASE state[t] = "waiting" /\ Relink(t, queue[t], p) /\ state' = state
      <3>1. queue[t] \in Queue
        BY <1>2, <2>3, Addresses DEF QueueInv
      <3>. QED BY <1>2, <1>5, <2>3, <3>1, RelinkKeeps DEF SameEnded, Terminated
    <2>4. CASE /\ state[t] \in {"ready", "running"}
               /\ state' = [state EXCEPT ![t] = "ready"]
               /\ q' = Link(q, t, RunQ(p), p)
               /\ queue' = [queue EXCEPT ![t] = RunQ(p)]
      <3>1. /\ \A u \in Thread : state'[u] = IF u = t THEN "ready" ELSE state[u]
            /\ \A u \in Thread : u # t => queue'[u] = queue[u]
        BY <1>2, <2>4 DEF TypeOK
      <3>2. \A y \in BlockQueues : q'[y] = q[y]
        <4>1. q \in [Queue -> Seq(Thread)] /\ prio \in [Thread -> Nat] /\ p \in Nat
          BY <1>2, <1>5, PriorityFacts DEF TypeOK
        <4>2. RunQ(p) \in Queue /\ \A y \in BlockQueues : y \in Queue /\ y # RunQ(p)
          BY <1>5, Addresses
        <4>3. \A y \in Queue : y # RunQ(p) => Link(q, t, RunQ(p), p)[y] = q[y]
          BY <4>1, <4>2, LinkRange
        <4>. QED BY <2>4, <4>2, <4>3
      <3>3. LinksKept
        BY <3>1, <3>2, RunLinks
      <3>. QED BY <2>4, <3>1, <3>3 DEF SameEnded, Terminated
    <2>. QED BY <2>1, <2>2, <2>3, <2>4
  <1>. HIDE DEF k
  <1>. QED BY <1>1, <1>3, <1>4, <1>6, CalmStep

\* Arming a timer takes it out of the calls that have begun, and leaves the others.
LEMMA NotDueCalm ==
  ASSUME NEW s \in Seq(FrameType), NEW t \in Thread, NEW ms, NEW f, f.call = "LockMutex"
  PROVE  /\ Calm(s, ms) => Calm(NotDue(s, t), ms)
         /\ Begun(s, f) => Begun(NotDue(s, t), f)
  <1>. DEFINE n == NotDue(s, t)
  <1>2. /\ DOMAIN n = DOMAIN s
        /\ \A i \in DOMAIN s : n[i].call = s[i].call
                               /\ (s[i].call # "ProcessSleepTimers" => n[i] = s[i])
    BY DEF NotDue, Frame
  <1>. HIDE DEF n
  <1>3. ASSUME Calm(s, ms) PROVE Calm(n, ms)
    BY <1>2, <1>3 DEF Calm, CalmFrame
  <1>4. ASSUME Begun(s, f) PROVE Begun(n, f)
    <2>1. PICK i \in DOMAIN s : s[i] = f
      BY <1>4 DEF Begun, Range
    <2>2. i \in DOMAIN n /\ n[i] = f
      BY <1>2, <2>1
    <2>. QED BY <2>2 DEF Begun, Range
  <1>. QED BY <1>3, <1>4 DEF n

\* OSSleepTicks arms its timer and goes on to suspend the thread.
LEMMA SleepTicksLocks ==
  ASSUME Good, Good', LockInv, UNCHANGED game, NEW t \in Thread, SleepTicks(t)
  PROVE  LockInv'
  <1>1. /\ UNCHANGED <<game, mutexVars, waitMutex, q, queue, state, active>>
        /\ \A c : ~Top(c)
        /\ stack[active] = <<>>
    BY DEF SleepTicks, linkVars, fiberVars, Top, GuestCalls, GuestCode
  <1>2. TypeOK /\ QueueInv /\ TypeOK' /\ QueueInv' /\ active \in Thread
    BY DEF Good, TypeOK
  <1>. DEFINE f == Frame("SuspendThread", t)
              g == Frame("TickWoken", t)
  <1>3. /\ f \in FrameType /\ g \in FrameType /\ f.call = "SuspendThread" /\ g.call = "TickWoken"
    BY Frames
  <1>4. stack' = [u \in Thread |-> IF u = active THEN <<f, g>> ELSE NotDue(stack[u], t)]
    BY DEF SleepTicks
  <1>. HIDE DEF f, g
  <1>5. Calm(<<f, g>>, game.mutexes)
    BY <1>3, CalmCalls
  <1>6. \A u \in Thread : Calm(stack[u], game.mutexes) /\ stack[u] \in Seq(FrameType)
    BY <1>1, <1>2, NotAsleep DEF LockInv, TypeOK
  <1>7. ASSUME NEW u \in Thread, u # active
        PROVE  /\ Calm(stack'[u], game.mutexes)
               /\ \A m : Begun(stack[u], LockFrame(u, m)) => Begun(stack'[u], LockFrame(u, m))
    <2>1. stack'[u] = NotDue(stack[u], t)
      BY <1>4, <1>7
    <2>2. Calm(NotDue(stack[u], t), game.mutexes)
      BY <1>6, LockFrameCall, NotDueCalm
    <2>3. ASSUME NEW m, Begun(stack[u], LockFrame(u, m))
          PROVE  Begun(NotDue(stack[u], t), LockFrame(u, m))
      BY <1>6, <2>3, LockFrameCall, NotDueCalm
    <2>. QED BY <2>1, <2>2, <2>3
  <1>8. stack'[active] = <<f, g>> /\ \A m : ~Begun(stack[active], LockFrame(active, m))
    BY <1>1, <1>2, <1>4 DEF Begun, Range
  <1>9. StacksKept
    BY <1>5, <1>7, <1>8 DEF StacksKept, BegunKept
  <1>. QED BY <1>1, <1>2, <1>9, OnlyStack, Undisturbed

\* On the way to a mutex that stays taken.
LEMMA ToMutexStays ==
  ASSUME UNCHANGED <<game, owner, waitMutex, active>>, NEW s, ToMutex(s, active),
         stack'[active] = s
  PROVE  ToMutex(stack[active], active)'
  <1>1. PICK m \in Mutex, r \in Seq(FrameType) :
           /\ owner[m] # None /\ waitMutex[active] = m
           /\ s = <<Frame("SleepThread", MutexQ(m))>> \o r
           /\ Calm(r, game.mutexes)
    BY DEF ToMutex
  <1>2. /\ owner'[m] # None /\ waitMutex'[active'] = m
        /\ stack'[active'] = <<Frame("SleepThread", MutexQ(m))>> \o r
        /\ Calm(r, game'.mutexes)
    BY <1>1
  <1>. QED BY <1>2 DEF ToMutex

\* On the way to it, promoting the owner of the mutex that the owner waits for.
LEMMA PromotingNext ==
  ASSUME UNCHANGED <<game, owner, waitMutex, active>>,
         NEW s \in Seq(FrameType), ToMutex(s, active),
         NEW f \in FrameType, f.call = "Promote", stack'[active] = <<f>> \o s
  PROVE  Promoting(stack[active], active)'
  <1>1. PICK m \in Mutex, r \in Seq(FrameType) :
           /\ owner[m] # None /\ waitMutex[active] = m
           /\ s = <<Frame("SleepThread", MutexQ(m))>> \o r
           /\ Calm(r, game.mutexes)
    BY DEF ToMutex
  <1>2. \E n \in Mutex, k \in Seq(FrameType) :
           /\ owner'[n] # None /\ waitMutex'[active'] = n
           /\ s = <<Frame("SleepThread", MutexQ(n))>> \o k
           /\ Calm(k, game'.mutexes)
    BY <1>1
  <1>3. stack'[active'] = <<f>> \o s
    OBVIOUS
  <1>. QED BY <1>2, <1>3 DEF Promoting, ToMutex

\* Promoting an owner, a thread is still on its way to its mutex.
LEMMA PromoteLocks ==
  ASSUME Good, Good', LockInv, UNCHANGED game, NEW t \in Thread, NEW p \in AnyPriority, Promote(t, p)
  PROVE  LockInv'
  <1>1. /\ UNCHANGED <<game, mutexVars, waitMutex, state, active>>
        /\ Top("Promote") /\ \A c : c # "Promote" => ~Top(c)
    BY DEF Promote, fiberVars, Top
  <1>2. TypeOK /\ QueueInv /\ TypeOK' /\ QueueInv' /\ active \in Thread
    BY DEF Good, TypeOK
  <1>. DEFINE f == Frame("Promote", <<NextOwner(t), p>>)
  <1>3. NextOwner(t) # None => f \in FrameType /\ f.call = "Promote"
    <2>1. NextOwner(t) # None => NextOwner(t) \in Thread
      BY <1>2 DEF NextOwner, TypeOK
    <2>. QED BY <2>1, Frames
  <1>4. \/ stack' = [stack EXCEPT ![active] = <<>> \o Rest]
        \/ NextOwner(t) # None /\ stack' = [stack EXCEPT ![active] = <<f>> \o Rest]
    BY DEF Promote, Return, Continue
  <1>5. LinksKept /\ SameEnded
    <2>1. CASE UNCHANGED linkVars
      BY <1>1, <2>1, OnlyStack DEF linkVars
    <2>2. CASE SetThreadEffectivePriority(t, p) /\ ~(suspend[t] > 0 \/ prio[t] <= p)
      <3>1. ~Terminated(t) => prio[t] \in Priority
        <4>. suspend[t] \in Nat
          BY <1>2 DEF TypeOK
        <4>1. suspend[t] = 0
          BY ONLY <2>2, suspend[t] \in Nat
        <4>. QED BY <1>2, <4>1 DEF QueueInv
      <3>2. ~Terminated(t) => p \in Priority
        BY <2>2, <3>1, ConstantsAssumption DEF Priority, AnyPriority
      <3>. QED BY <1>1, <1>2, <2>2, <3>2, PriorityKeeps DEF SameEnded, Terminated
    <2>. QED BY <2>1, <2>2 DEF Promote, linkVars
  <1>. HIDE DEF f
  <1>6. /\ <<>> \in Seq(FrameType) /\ Calm(<<>>, game.mutexes)
        /\ NextOwner(t) # None => <<f>> \in Seq(FrameType) /\ Calm(<<f>>, game.mutexes)
    BY <1>3, CalmCalls
  <1>7. BegunKept
    BY <1>1, <1>2, <1>4, <1>6, ContinueBegun
  <1>8. Rest \in Seq(FrameType) /\ <<>> \o Rest = Rest
    BY <1>2, TopFrame, ConcatEmptySeq
  <1>9. /\ \/ stack'[active] = Rest
           \/ NextOwner(t) # None /\ stack'[active] = <<f>> \o Rest
        /\ \A u \in Thread \ {active} : stack'[u] = stack[u]
    BY <1>2, <1>4, <1>8 DEF TypeOK
  <1>10. /\ ~ToMutex(stack[active], active) /\ ~ToJoin(stack[active], active)
    <2>1. ASSUME NEW g \in FrameType, NEW r \in Seq(FrameType), stack[active] = <<g>> \o r
          PROVE  Top(g.call)
      BY <2>1, ConsSeq DEF Top
    <2>2. ASSUME NEW x \in BlockQueues, NEW r \in Seq(FrameType)
          PROVE  stack[active] # <<Frame("SleepThread", x)>> \o r
      <3>1. /\ Frame("SleepThread", x) \in FrameType
            /\ Frame("SleepThread", x).call = "SleepThread"
        BY Frames
      <3>. QED BY <1>1, <2>1, <3>1
    <2>. QED BY <2>2, Addresses DEF ToMutex, ToJoin
  <1>11. CASE Calm(stack[active], game.mutexes)
    <2>1. \A u \in Thread : Calm(stack[u], game.mutexes)
      BY <1>11 DEF LockInv, StackInv
    <2>2. StacksKept
      BY <1>1, <1>2, <1>4, <1>6, <2>1, ContinueKeeps
    <2>. QED BY <1>1, <1>2, <1>5, <2>2, Undisturbed
  <1>12. CASE Promoting(stack[active], active)
    <2>1. ToMutex(Rest, active)
      <3>1. PICK g \in FrameType, r \in Seq(FrameType) :
               stack[active] = <<g>> \o r /\ ToMutex(r, active)
        BY <1>12 DEF Promoting
      <3>2. Rest = r
        BY <3>1, ConsSeq DEF Rest
      <3>. QED BY <3>1, <3>2
    <2>2. UNCHANGED <<game, owner, waitMutex, active>>
      BY <1>1 DEF mutexVars
    <2>3. \A u \in Thread \ {active'} : Calm(stack'[u], game'.mutexes)
      BY <1>1, <1>9 DEF LockInv, StackInv
    <2>4. ASSUME stack'[active] = Rest PROVE StackInv'
      BY <2>1, <2>2, <2>3, <2>4, ToMutexStays DEF StackInv
    <2>5. ASSUME NextOwner(t) # None, stack'[active] = <<f>> \o Rest PROVE StackInv'
      <3>1. Promoting(stack[active], active)'
        BY <1>3, <1>8, <2>1, <2>2, <2>5, PromotingNext
      <3>. QED BY <2>3, <3>1 DEF StackInv
    <2>6. StackInv'
      BY <1>9, <2>4, <2>5
    <2>. QED BY <1>1, <1>2, <1>5, <1>7, <2>6, Undisturbed
  <1>. QED BY <1>10, <1>11, <1>12 DEF LockInv, StackInv
-----------------------------------------------------------------------------
(* The calls that go to sleep, lock and unlock.                            *)

\* OSSleepThread is called for the mutex its caller waits for, or for a thread
\* that is not over, or by the game.
LEMMA Sleeper ==
  ASSUME Good, LockInv, NEW x \in BlockQueues, SleepThread(x)
  PROVE  /\ running = active /\ state[active] = "running"
         /\ Rest \in Seq(FrameType) /\ Calm(Rest, game.mutexes)
         /\ ~Top("LockMutex") /\ ~Top("UnlockAll") /\ ~Top("WakeupThread")
         /\ waitMutex[active] # None => x = MutexQ(waitMutex[active])
         /\ \A m \in Mutex : x = MutexQ(m) => owner[m] # None
         /\ \A u \in Thread : x = JoinQ(u) => ~Terminated(u)
  <1>1. TypeOK /\ FiberInv /\ StackInv /\ WaitInv /\ active \in Thread
    BY DEF Good, LockInv, TypeOK
  <1>2. /\ GuestCode \/ Top("SleepThread")
        /\ ~Top("LockMutex") /\ ~Top("UnlockAll") /\ ~Top("WakeupThread") /\ ~Top("Promote")
    BY DEF SleepThread, Called, GuestCalls, GuestCode, Top
  <1>3. Executing
    <2>1. CASE GuestCode
      BY <1>1, <2>1, ModeOf
    <2>2. CASE Top("SleepThread")
      <3>1. stack[active] # <<>> /\ Head(stack[active]).call = "SleepThread"
        BY <2>2 DEF Top
      <3>. QED BY <1>1, <3>1, ModeOf DEF Quiet, Selecting
    <2>. QED BY <1>2, <2>1, <2>2
  <1>4. /\ running = active /\ state[active] = "running" /\ ~Terminated(active)
    BY <1>3 DEF Executing, Terminated
  <1>5. CASE GuestCode
    <2>1. Rest = <<>> /\ x[1] = "wait"
      BY <1>5 DEF GuestCode, Rest, SleepThread
    <2>2. waitMutex[active] = None
      <3>1. ~Begun(stack[active], LockFrame(active, waitMutex[active]))
        BY <1>5 DEF GuestCode, Begun, Range
      <3>. QED BY <1>1, <1>4, <3>1 DEF WaitInv
    <2>3. (\A m : x # MutexQ(m)) /\ (\A u : x # JoinQ(u))
      BY <2>1 DEF MutexQ, JoinQ
    <2>. QED BY <1>2, <1>4, <2>1, <2>2, <2>3, CalmCalls
  <1>6. CASE ~GuestCode
    <2>1. Top("SleepThread") /\ Arg = x
      BY <1>6 DEF SleepThread, Called, GuestCalls
    <2>. DEFINE h == Head(stack[active])
    <2>2. /\ h \in FrameType /\ Rest \in Seq(FrameType) /\ stack[active] = <<h>> \o Rest
          /\ h.call = "SleepThread" /\ h.arg = x
      BY <1>1, <2>1, TopFrame DEF Top, Arg
    <2>. HIDE DEF h
    <2>3. ~Calm(stack[active], game.mutexes)
      BY <2>2, CalmCons DEF CalmFrame
    <2>4. ~Promoting(stack[active], active)
      <3>1. ASSUME NEW f \in FrameType, NEW r \in Seq(FrameType), stack[active] = <<f>> \o r
            PROVE  f.call = "SleepThread"
        BY <2>1, <3>1, ConsSeq DEF Top
      <3>. QED BY <3>1 DEF Promoting
    <2>5. ASSUME NEW y \in BlockQueues, NEW r \in Seq(FrameType),
                 stack[active] = <<Frame("SleepThread", y)>> \o r
          PROVE  y = x /\ r = Rest
      <3>. DEFINE f == Frame("SleepThread", y)
      <3>1. f \in FrameType /\ f.arg = y
        BY Frames
      <3>2. stack[active] = <<f>> \o r
        BY <2>5
      <3>. HIDE DEF f
      <3>3. Head(stack[active]) = f /\ Tail(stack[active]) = r /\ stack[active] # <<>>
        BY <3>1, <3>2, ConsSeq
      <3>. QED BY <2>1, <3>1, <3>3 DEF Arg, Rest
    <2>6. CASE ToMutex(stack[active], active)
      <3>1. PICK m \in Mutex, r \in Seq(FrameType) :
               /\ owner[m] # None /\ waitMutex[active] = m
               /\ stack[active] = <<Frame("SleepThread", MutexQ(m))>> \o r
               /\ Calm(r, game.mutexes)
        BY <2>6 DEF ToMutex
      <3>2. x = MutexQ(m) /\ r = Rest
        BY <2>5, <3>1, Addresses
      <3>3. \A u : x # JoinQ(u)
        BY <3>2 DEF MutexQ, JoinQ
      <3>. QED BY <1>2, <1>4, <2>2, <3>1, <3>2, <3>3, Addresses
    <2>7. CASE ToJoin(stack[active], active)
      <3>1. PICK u \in Thread, r \in Seq(FrameType) :
               /\ ~Terminated(u) /\ waitMutex[active] = None
               /\ stack[active] = <<Frame("SleepThread", JoinQ(u))>> \o r
               /\ Calm(r, game.mutexes)
        BY <2>7 DEF ToJoin
      <3>2. x = JoinQ(u) /\ r = Rest
        BY <2>5, <3>1, Addresses
      <3>3. (\A m : x # MutexQ(m)) /\ (\A v : x = JoinQ(v) => v = u)
        BY <3>2 DEF MutexQ, JoinQ
      <3>. QED BY <1>2, <1>4, <2>2, <3>1, <3>2, <3>3
    <2>. QED BY <1>1, <2>3, <2>4, <2>6, <2>7 DEF StackInv
  <1>. QED BY <1>5, <1>6

\* Asleep on a mutex, the thread is linked where WaitInv says, and no free mutex has it.
LEMMA SleepLocks ==
  ASSUME Good, Good', LockInv, UNCHANGED game, NEW x \in BlockQueues, SleepThread(x)
  PROVE  LockInv'
  <1>1. /\ TypeOK /\ QueueInv /\ TypeOK' /\ QueueInv' /\ active \in Thread
        /\ StackInv /\ WaitInv /\ HeldInv /\ EndInv /\ FreeInv /\ JoinInv
    BY DEF Good, TypeOK, LockInv
  <1>2. /\ running = active /\ state[active] = "running"
        /\ Rest \in Seq(FrameType) /\ Calm(Rest, game.mutexes)
        /\ ~Top("LockMutex") /\ ~Top("UnlockAll") /\ ~Top("WakeupThread")
        /\ waitMutex[active] # None => x = MutexQ(waitMutex[active])
        /\ \A m \in Mutex : x = MutexQ(m) => owner[m] # None
        /\ \A u \in Thread : x = JoinQ(u) => ~Terminated(u)
    BY Sleeper
  <1>3. UNCHANGED <<game, mutexVars, waitMutex, active, owner, held, suspend>> /\ active # None
    BY <1>1, ConstantsAssumption DEF SleepThread, fiberVars, mutexVars
  <1>. DEFINE g == Frame("Slept", <<active, x>>)
              k == <<SelectFrame, g>>
  <1>4. /\ <<>> \in Seq(FrameType) /\ Calm(<<>>, game.mutexes)
        /\ k \in Seq(FrameType) /\ Calm(k, game.mutexes)
    <2>1. g \in FrameType /\ g.call = "Slept"
      BY <1>1, Frames
    <2>. HIDE DEF g
    <2>. QED BY <2>1, SelectFrames, CalmCalls
  <1>5. \/ disabled > 0 /\ UNCHANGED <<state, q, queue>> /\ stack' = [stack EXCEPT ![active] = <<>> \o Rest]
        \/ /\ state' = [state EXCEPT ![active] = "waiting"]
           /\ q' = Link(q, active, x, prio[active])
           /\ queue' = [queue EXCEPT ![active] = x]
           /\ stack' = [stack EXCEPT ![active] = k \o Rest]
    BY <1>2, <1>3 DEF SleepThread, linkVars, Return, Continue
  <1>. HIDE DEF k
  <1>6. StacksKept
    <2>1. BegunKept
      BY <1>1, <1>2, <1>4, <1>5, ContinueBegun
    <2>2. Calm(stack'[active], game.mutexes) /\ \A u \in Thread \ {active} : stack'[u] = stack[u]
      <3>1. Calm(<<>> \o Rest, game.mutexes) /\ Calm(k \o Rest, game.mutexes)
        BY <1>2, <1>4, CalmConcat
      <3>. QED BY <1>1, <1>5, <3>1 DEF TypeOK
    <2>. QED BY <1>1, <2>1, <2>2 DEF StacksKept, StackInv
  <1>7. CASE UNCHANGED <<state, q, queue>> /\ stack' = [stack EXCEPT ![active] = <<>> \o Rest]
    <2>1. LinksKept /\ SameEnded
      BY <1>7, OnlyStack
    <2>. QED BY <1>1, <1>2, <1>3, <1>6, <2>1, Undisturbed
  <1>8. CASE /\ state' = [state EXCEPT ![active] = "waiting"]
             /\ q' = Link(q, active, x, prio[active])
             /\ queue' = [queue EXCEPT ![active] = x]
    <2>1. /\ state'[active] = "waiting" /\ queue'[active] = x
          /\ \A u \in Thread \ {active} : state'[u] = state[u] /\ queue'[u] = queue[u]
          /\ \A u \in Thread : Terminated(u)' <=> Terminated(u)
      BY <1>1, <1>2, <1>8 DEF TypeOK, Terminated
    <2>2. /\ active \in Range(q'[x])
          /\ \A y \in Queue : \A u \in Range(q[y]) : u \in Range(q'[y])
          /\ \A y \in Queue : y # x => q'[y] = q[y]
      <3>1. prio \in [Thread -> Nat] /\ q \in [Queue -> Seq(Thread)] /\ x \in Queue /\ prio[active] \in Nat
        BY <1>1, PriorityFacts, Addresses DEF TypeOK
      <3>. QED BY <1>1, <1>8, <3>1, LinkRange
    <2>3. StackInv'
      BY <1>1, <1>3, <1>6 DEF StacksKept, StackInv, Calm, CalmFrame
    <2>4. WaitInv'
      <3>. SUFFICES ASSUME NEW t \in Thread, ~Terminated(t)', waitMutex[t] # None
                    PROVE  /\ Begun(stack'[t], LockFrame(t, waitMutex[t]))
                           /\ state'[t] = "waiting" => queue'[t] = MutexQ(waitMutex[t])
        BY <1>3 DEF WaitInv, LockFrame, Frame, Begun
      <3>1. Begun(stack'[t], LockFrame(t, waitMutex[t]))
        BY <1>1, <1>6, <2>1 DEF WaitInv, StacksKept, BegunKept
      <3>2. CASE t = active
        BY <1>2, <2>1, <3>1, <3>2
      <3>3. CASE t # active
        BY <1>1, <2>1, <3>1, <3>3 DEF WaitInv
      <3>. QED BY <3>2, <3>3
    <2>5. HeldInv'
      BY <1>1, <1>3 DEF HeldInv
    <2>6. EndInv'
      <3>1. \A t \in Thread : ~Topmost(Frame("UnlockAll", t))
        BY <1>2 DEF Topmost, Top, Frame
      <3>. QED BY <1>1, <1>3, <2>1, <3>1 DEF EndInv
    <2>7. FreeInv'
      <3>. SUFFICES ASSUME NEW m \in Mutex, owner[m] = None PROVE q'[MutexQ(m)] = <<>>
        BY <1>3 DEF FreeInv
      <3>1. ~Topmost(Frame("WakeupThread", MutexQ(m)))
        BY <1>2 DEF Topmost, Top, Frame
      <3>2. q[MutexQ(m)] = <<>> /\ MutexQ(m) # x /\ MutexQ(m) \in Queue
        BY <1>1, <1>2, <3>1, Addresses DEF FreeInv
      <3>. QED BY <2>2, <3>2
    <2>8. JoinInv'
      <3>. SUFFICES ASSUME Settled, NEW t \in Thread
                    PROVE  /\ Terminated(t)' => q'[JoinQ(t)] = <<>>
                           /\ state'[t] = "waiting" => t \in Range(q'[queue'[t]])
        BY <1>3 DEF JoinInv, Settled, NoReturn, EndsThreads
      <3>1. ASSUME Terminated(t)' PROVE q'[JoinQ(t)] = <<>>
        <4>1. Terminated(t) /\ JoinQ(t) # x /\ JoinQ(t) \in Queue
          BY <1>2, <2>1, <3>1, Addresses
        <4>2. ~Ending(t)
          <5>1. ~Topmost(Frame("WakeupThread", JoinQ(t)))
            BY <1>2 DEF Topmost, Top, Frame
          <5>. QED BY <1>2, <5>1, EndingTop
        <4>. QED BY <1>1, <2>2, <4>1, <4>2 DEF JoinInv
      <3>2. ASSUME state'[t] = "waiting" PROVE t \in Range(q'[queue'[t]])
        <4>1. CASE t = active
          BY <2>1, <2>2, <4>1
        <4>2. CASE t # active
          <5>1. state[t] = "waiting" /\ queue'[t] = queue[t] /\ t \in Range(q[queue[t]])
            BY <1>1, <2>1, <3>2, <4>2 DEF JoinInv
          <5>2. queue[t] \in Queue
            BY <1>1, <5>1, Addresses DEF QueueInv
          <5>. QED BY <2>2, <5>1, <5>2
        <4>. QED BY <4>1, <4>2
      <3>. QED BY <3>1, <3>2
    <2>. QED BY <2>3, <2>4, <2>5, <2>6, <2>7, <2>8 DEF LockInv
  <1>. QED BY <1>5, <1>7, <1>8

\* OSJoinThread goes to sleep on a thread that is not over.
LEMMA JoinLocks ==
  ASSUME Good, Good', LockInv, UNCHANGED game, NEW t \in Thread, JoinThread(t)
  PROVE  LockInv'
  <1>1. /\ UNCHANGED <<game, mutexVars, waitMutex, q, queue, active>>
        /\ \A c : ~Top(c)
        /\ stack[active] = <<>> /\ GuestCode
    BY DEF JoinThread, linkVars, fiberVars, Top, GuestCalls, GuestCode
  <1>2. TypeOK /\ QueueInv /\ TypeOK' /\ QueueInv' /\ active \in Thread
    BY DEF Good, TypeOK
  <1>3. CASE state[t] = "moribund" /\ Reap(t) /\ UNCHANGED stack
    <2>1. \A u \in Thread : \/ state'[u] = state[u]
                            \/ state[u] = "moribund" /\ state'[u] = "none"
      BY <1>2, <1>3 DEF Reap, TypeOK
    <2>2. LinksKept /\ SameEnded
      BY <1>1, <2>1, LinksStay DEF SameEnded, Terminated
    <2>3. stack' = [stack EXCEPT ![active] = <<>> \o stack[active]]
      BY <1>1, <1>2, <1>3, ConcatEmptySeq DEF TypeOK
    <2>4. \A c \in Lockers : ~Top(c)
      BY <1>1
    <2>. QED BY <1>1, <2>2, <2>3, <2>4, CalmCalls, CalmStep
  <1>4. CASE ~Terminated(t) /\ UNCHANGED state
             /\ Continue(<<Frame("SleepThread", JoinQ(t)), Frame("Joined", t)>>, Rest)
    <2>. DEFINE f == Frame("SleepThread", JoinQ(t))
                g == Frame("Joined", t)
    <2>1. f \in FrameType /\ g \in FrameType /\ g.call = "Joined"
      BY Frames, Addresses
    <2>2. Rest = <<>>
      BY <1>1 DEF Rest
    <2>3. stack' = [stack EXCEPT ![active] = <<f, g>> \o <<>>]
      BY <1>4, <2>2 DEF Continue
    <2>. HIDE DEF g
    <2>4. <<g>> \in Seq(FrameType) /\ Calm(<<g>>, game.mutexes)
      BY <2>1, CalmCalls
    <2>5. stack'[active] = <<f>> \o <<g>> /\ \A u \in Thread \ {active} : stack'[u] = stack[u]
      <3>. HIDE DEF f
      <3>1. <<f, g>> \in Seq(FrameType) /\ <<f, g>> = <<f>> \o <<g>>
        BY <2>1, TwoElements
      <3>2. <<f, g>> \o <<>> = <<f, g>>
        BY <3>1, ConcatEmptySeq
      <3>. QED BY <1>2, <2>3, <3>1, <3>2 DEF TypeOK
    <2>6. waitMutex[active] = None
      <3>1. Executing
        BY <1>1, ModeOf DEF Good
      <3>2. ~Terminated(active)
        BY <3>1 DEF Executing, Terminated
      <3>3. ~Begun(stack[active], LockFrame(active, waitMutex[active]))
        BY <1>1 DEF Begun, Range
      <3>. QED BY <1>2, <3>2, <3>3 DEF LockInv, WaitInv
    <2>7. ToJoin(stack[active], active)'
      <3>1. ~Terminated(t)'
        BY <1>4 DEF Terminated
      <3>2. /\ waitMutex'[active'] = None
            /\ stack'[active'] = <<Frame("SleepThread", JoinQ(t))>> \o <<g>>
            /\ Calm(<<g>>, game'.mutexes)
        BY <1>1, <2>4, <2>5, <2>6
      <3>. QED BY <2>4, <3>1, <3>2 DEF ToJoin
    <2>8. StackInv'
      <3>1. \A u \in Thread \ {active'} : Calm(stack'[u], game'.mutexes)
        BY <1>1, <2>5 DEF LockInv, StackInv
      <3>. QED BY <2>7, <3>1 DEF StackInv
    <2>9. BegunKept
      <3>1. \A m : ~Begun(stack[active], LockFrame(active, m))
        BY <1>1 DEF Begun, Range
      <3>. QED BY <2>5, <3>1 DEF BegunKept
    <2>10. LinksKept /\ SameEnded
      BY <1>1, <1>4, OnlyStack
    <2>. QED BY <1>1, <1>2, <2>8, <2>9, <2>10, Undisturbed
  <1>. QED BY <1>3, <1>4 DEF JoinThread

\* A sequence with one more element.
LEMMA AppendedSeq ==
  ASSUME NEW T, NEW s \in Seq(T), NEW e \in T, Distinct(s), e \notin Range(s)
  PROVE  /\ Append(s, e) \in Seq(T) /\ Distinct(Append(s, e))
         /\ \A m : m \in Range(Append(s, e)) <=> m = e \/ m \in Range(s)
  <1>. DEFINE r == Append(s, e)
  <1>1. /\ Len(s) \in Nat /\ DOMAIN s = 1 .. Len(s)
        /\ r \in Seq(T) /\ Len(r) = Len(s) + 1 /\ r[Len(s) + 1] = e
        /\ \A i \in 1 .. Len(s) : r[i] = s[i]
    BY LenProperties
  <1>. HIDE DEF r
  <1>2. DOMAIN r = 1 .. Len(s) + 1
    BY <1>1, LenProperties
  <1>3. ASSUME NEW i \in DOMAIN r
        PROVE  (i = Len(s) + 1 /\ r[i] = e) \/ (i \in DOMAIN s /\ r[i] = s[i])
    BY <1>1, <1>2
  <1>4. \A i \in DOMAIN s : i \in DOMAIN r /\ r[i] = s[i] /\ s[i] # e
    BY <1>1, <1>2 DEF Range
  <1>5. Len(s) + 1 \in DOMAIN r
    BY <1>1, <1>2
  <1>6. Distinct(r)
    BY <1>1, <1>3, <1>4 DEF Distinct
  <1>7. \A m : m \in Range(r) <=> m = e \/ m \in Range(s)
    BY <1>1, <1>3, <1>4, <1>5 DEF Range
  <1>. QED BY <1>1, <1>6, <1>7 DEF r

\* A sequence without its first element.
LEMMA DistinctTail ==
  ASSUME NEW T, NEW s \in Seq(T), s # <<>>, Distinct(s)
  PROVE  /\ Head(s) \in T /\ Tail(s) \in Seq(T) /\ Distinct(Tail(s))
         /\ \A e : e \in Range(s) <=> e = Head(s) \/ e \in Range(Tail(s))
         /\ Head(s) \notin Range(Tail(s))
         /\ Len(s) = 1 => Tail(s) = <<>>
  <1>. DEFINE h == Head(s)
              r == Tail(s)
              n == Len(s)
  <1>1. /\ h \in T /\ r \in Seq(T) /\ Len(r) = n - 1
        /\ \A i \in 1 .. Len(r) : r[i] = s[i + 1]
    BY HeadTailProperties
  <1>2. n \in Nat \ {0} /\ s[1] = h /\ DOMAIN s = 1 .. n
    BY EmptySeq, LenProperties
  <1>3. DOMAIN r = 1 .. n - 1
    BY <1>1, LenProperties
  <1>4. n = 1 => r = <<>>
    <2>1. n = 1 => Len(r) = 0
      BY <1>1
    <2>. HIDE DEF r
    <2>. QED BY <1>1, <2>1, EmptySeq
  <1>. HIDE DEF h, r, n
  <1>5. \A i \in DOMAIN r : i + 1 \in DOMAIN s /\ i + 1 # 1 /\ r[i] = s[i + 1]
    BY <1>1, <1>2, <1>3
  <1>6. \A i \in DOMAIN s : i # 1 => i - 1 \in DOMAIN r /\ s[i] = r[i - 1]
    BY <1>1, <1>2, <1>3
  <1>7. Distinct(r)
    <2>. SUFFICES ASSUME NEW i \in DOMAIN r, NEW j \in DOMAIN r, r[i] = r[j] PROVE i = j
      BY DEF Distinct
    <2>1. i + 1 = j + 1
      BY <1>5 DEF Distinct
    <2>. QED BY <1>2, <1>3, <2>1
  <1>8. 1 \in DOMAIN s
    BY <1>2
  <1>9. h \notin Range(r)
    <2>. SUFFICES ASSUME NEW i \in DOMAIN r, r[i] = h PROVE FALSE
      BY DEF Range
    <2>. QED BY <1>2, <1>5, <1>8 DEF Distinct
  <1>10. \A e : e \in Range(s) <=> e = h \/ e \in Range(r)
    BY <1>2, <1>5, <1>6, <1>8 DEF Range
  <1>. QED BY <1>1, <1>4, <1>7, <1>9, <1>10 DEF h, r, n

\* Who runs OSLockMutex.
LEMMA Locker ==
  ASSUME Good, LockInv, NEW t \in Thread, NEW m \in Mutex, LockMutex(t, m)
  PROVE  /\ t = active /\ state[active] = "running" /\ m \in game.mutexes
         /\ ~Top("UnlockAll") /\ ~Top("WakeupThread")
         /\ Rest \in Seq(FrameType) /\ Calm(Rest, game.mutexes)
         /\ \A u \in Thread : Calm(stack[u], game.mutexes)
  <1>1. TypeOK /\ FiberInv /\ StackInv
    BY DEF Good, LockInv
  <1>2. /\ \/ GuestCode /\ running = t /\ m \in game.mutexes
           \/ Top("LockMutex") /\ Arg = <<t, m>>
        /\ ~Top("UnlockAll") /\ ~Top("WakeupThread") /\ ~Top("SleepThread") /\ ~Top("Promote")
    BY DEF LockMutex, GuestCalls, GuestCode, Top
  <1>3. \A u \in Thread : Calm(stack[u], game.mutexes)
    BY <1>1, <1>2, NotAsleep
  <1>4. CASE GuestCode /\ running = t /\ m \in game.mutexes
    <2>1. Executing
      BY <1>1, <1>4, ModeOf
    <2>2. Rest = <<>>
      BY <1>4 DEF GuestCode, Rest
    <2>. QED BY <1>2, <1>3, <1>4, <2>1, <2>2, CalmCalls DEF Executing
  <1>5. CASE Top("LockMutex") /\ Arg = <<t, m>>
    <2>. DEFINE h == Head(stack[active])
    <2>1. /\ stack[active] # <<>> /\ h.call = "LockMutex" /\ h.arg = <<t, m>>
          /\ h \in FrameType /\ Rest \in Seq(FrameType) /\ stack[active] = <<h>> \o Rest
          /\ active \in Thread
      BY <1>1, <1>5, TopFrame DEF Top, Arg
    <2>2. Executing /\ PlainFrame(active, h)
      BY <1>1, <2>1, ModeOf DEF Quiet, Selecting
    <2>. HIDE DEF h
    <2>3. CalmFrame(h, game.mutexes) /\ Calm(Rest, game.mutexes)
      <3>1. Calm(stack[active], game.mutexes)
        BY <1>3, <2>1
      <3>. QED BY ONLY <2>1, <3>1, CalmCons
    <2>4. state[active] = "running" /\ t = active
      BY <2>1, <2>2 DEF Executing, PlainFrame
    <2>5. m \in game.mutexes
      BY <2>1, <2>3 DEF CalmFrame
    <2>. QED BY <1>2, <1>3, <2>1, <2>3, <2>4, <2>5
  <1>. QED BY <1>2, <1>4, <1>5

\* A thread takes a mutex that is free, or once more, and waits for it no longer.
LEMMA TakeLocks ==
  ASSUME Good, Good', LockInv, UNCHANGED game, NEW m \in Mutex, LockMutex(active, m), Return,
         waitMutex' = [waitMutex EXCEPT ![active] = None],
         \/ /\ owner[m] = None
            /\ owner' = [owner EXCEPT ![m] = active]
            /\ held' = [held EXCEPT ![active] = Append(@, m)]
         \/ UNCHANGED <<owner, held>>
  PROVE  LockInv'
  <1>1. /\ TypeOK /\ QueueInv /\ TypeOK' /\ QueueInv' /\ active \in Thread
        /\ StackInv /\ WaitInv /\ HeldInv /\ EndInv /\ FreeInv /\ JoinInv
    BY DEF Good, TypeOK, LockInv
  <1>2. /\ state[active] = "running" /\ m \in game.mutexes
        /\ ~Top("UnlockAll") /\ ~Top("WakeupThread")
        /\ Rest \in Seq(FrameType) /\ Calm(Rest, game.mutexes)
        /\ \A u \in Thread : Calm(stack[u], game.mutexes)
    BY <1>1, Locker
  <1>3. UNCHANGED <<game, active, state, q, queue>>
    BY DEF LockMutex, linkVars, fiberVars
  <1>4. stack'[active] = Rest /\ \A u \in Thread \ {active} : stack'[u] = stack[u]
    <2>1. <<>> \o Rest = Rest
      BY <1>2, ConcatEmptySeq
    <2>. QED BY <1>1, <2>1 DEF Return, Continue, TypeOK
  <1>5. /\ waitMutex'[active] = None
        /\ \A u \in Thread \ {active} : waitMutex'[u] = waitMutex[u]
    BY <1>1 DEF TypeOK
  <1>6. \A x \in BlockQueues : ~Topmost(Frame("WakeupThread", x))
    BY <1>2 DEF Topmost, Top, Frame
  <1>7. \A t \in Thread : ~Topmost(Frame("UnlockAll", t)) /\ ~Ending(t)
    <2>1. \A t \in Thread : ~Topmost(Frame("UnlockAll", t))
      BY <1>2 DEF Topmost, Top, Frame
    <2>2. \A t \in Thread : JoinQ(t) \in BlockQueues
      BY Addresses
    <2>. QED BY <1>2, <1>6, <2>1, <2>2, EndingTop
  <1>8. StackInv'
    BY <1>1, <1>2, <1>3, <1>4 DEF StackInv, Calm, CalmFrame
  <1>9. WaitInv'
    BY <1>1, <1>3, <1>4, <1>5 DEF WaitInv, Terminated, Begun, LockFrame, Frame
  <1>10. HeldInv'
    <2>1. CASE UNCHANGED <<owner, held>>
      BY <1>1, <1>3, <2>1 DEF HeldInv
    <2>2. CASE /\ owner[m] = None
               /\ owner' = [owner EXCEPT ![m] = active]
               /\ held' = [held EXCEPT ![active] = Append(@, m)]
      <3>. DEFINE s == held[active]
      <3>1. s \in Seq(Mutex) /\ Distinct(s) /\ m \notin Range(s) /\ active # None
        <4>1. active # None
          BY <1>1, ConstantsAssumption
        <4>2. m \notin Range(held[active])
          BY <1>1, <2>2, <4>1 DEF HeldInv
        <4>. QED BY <1>1, <4>1, <4>2 DEF HeldInv, TypeOK
      <3>2. /\ held'[active] = Append(s, m)
            /\ \A u \in Thread \ {active} : held'[u] = held[u]
            /\ owner'[m] = active /\ \A n \in Mutex \ {m} : owner'[n] = owner[n]
        BY <1>1, <2>2 DEF TypeOK
      <3>. HIDE DEF s
      <3>3. /\ Distinct(held'[active])
            /\ \A n : n \in Range(held'[active]) <=> n = m \/ n \in Range(s)
        BY <3>1, <3>2, AppendedSeq
      <3>4. \A n \in Mutex, u \in Thread : owner[n] = u <=> n \in Range(held[u])
        BY <1>1 DEF HeldInv
      <3>5. ASSUME NEW n \in Mutex, NEW u \in Thread
            PROVE  owner'[n] = u <=> n \in Range(held'[u])
        <4>1. CASE u = active
          BY <1>1, <2>2, <3>2, <3>3, <3>4, <4>1 DEF s
        <4>2. CASE u # active
          <5>1. n = m => n \notin Range(held[u])
            BY <2>2, <3>4, ConstantsAssumption
          <5>. QED BY <3>2, <3>4, <4>2, <5>1
        <4>. QED BY <4>1, <4>2
      <3>6. \A u \in Thread : Distinct(held[u]) /\ Range(held[u]) \subseteq game.mutexes
        BY <1>1 DEF HeldInv
      <3>7. \A u \in Thread : Distinct(held'[u]) /\ Range(held'[u]) \subseteq game'.mutexes
        BY <1>1, <1>2, <1>3, <3>2, <3>3, <3>6 DEF s
      <3>. QED BY <3>5, <3>7 DEF HeldInv, Distinct
    <2>. QED BY <2>1, <2>2
  <1>11. EndInv'
    <2>1. \A t \in Thread : Terminated(t) => held[t] = <<>> /\ t # active
      BY <1>1, <1>2, <1>7 DEF EndInv, Terminated
    <2>2. \A t \in Thread \ {active} : held'[t] = held[t]
      <3>1. held \in [Thread -> Seq(Mutex)]
        BY <1>1 DEF TypeOK
      <3>2. held' = [held EXCEPT ![active] = Append(@, m)] \/ held' = held
        OBVIOUS
      <3>. QED BY ONLY <3>1, <3>2
    <2>. QED BY <1>3, <2>1, <2>2 DEF EndInv, Terminated
  <1>12. FreeInv'
    <2>1. \A n \in Mutex : owner[n] = None => q[MutexQ(n)] = <<>>
      BY <1>1, <1>6, Addresses DEF FreeInv
    <2>2. \A n \in Mutex : owner'[n] = None => owner[n] = None
      BY <1>1 DEF TypeOK
    <2>. QED BY <1>3, <2>1, <2>2 DEF FreeInv
  <1>13. JoinInv'
    BY <1>1, <1>3, <1>7 DEF JoinInv, Settled, NoReturn, EndsThreads, Terminated
  <1>. QED BY <1>8, <1>9, <1>10, <1>11, <1>12, <1>13 DEF LockInv

\* One that finds its mutex taken goes to sleep on it.
LEMMA BlockLocks ==
  ASSUME Good, Good', LockInv, UNCHANGED game, NEW m \in Mutex, LockMutex(active, m),
         owner[m] \notin {None, active},
         waitMutex' = [waitMutex EXCEPT ![active] = m],
         Continue(<<Frame("Promote", <<owner[m], prio[active]>>),
                    Frame("SleepThread", MutexQ(m)), Frame("LockMutex", <<active, m>>)>>, Rest),
         UNCHANGED mutexVars
  PROVE  LockInv'
  <1>1. /\ TypeOK /\ QueueInv /\ TypeOK' /\ QueueInv' /\ active \in Thread
        /\ StackInv /\ WaitInv /\ HeldInv /\ EndInv /\ FreeInv /\ JoinInv
    BY DEF Good, TypeOK, LockInv
  <1>2. /\ state[active] = "running" /\ m \in game.mutexes
        /\ ~Top("UnlockAll") /\ ~Top("WakeupThread")
        /\ Rest \in Seq(FrameType) /\ Calm(Rest, game.mutexes)
        /\ \A u \in Thread : Calm(stack[u], game.mutexes)
    BY <1>1, Locker
  <1>3. UNCHANGED <<game, active, state, q, queue, owner, held>>
    BY DEF LockMutex, linkVars, fiberVars, mutexVars
  <1>. DEFINE f == Frame("Promote", <<owner[m], prio[active]>>)
              g == Frame("SleepThread", MutexQ(m))
              h == LockFrame(active, m)
              r == <<h>> \o Rest
              s == <<g>> \o r
  <1>4. /\ f \in FrameType /\ f.call = "Promote" /\ g \in FrameType /\ h \in FrameType
        /\ h.call = "LockMutex" /\ h.arg[2] = m
    <2>1. owner[m] \in Thread /\ prio[active] \in AnyPriority
      BY <1>1 DEF TypeOK
    <2>2. MutexQ(m) \in BlockQueues
      BY Addresses
    <2>3. h.arg = <<active, m>>
      BY Frames DEF LockFrame
    <2>4. h.arg[2] = m
      BY <2>3
    <2>5. h \in FrameType /\ h.call = "LockMutex"
      BY <1>1, Frames DEF LockFrame
    <2>. QED BY <1>1, <2>1, <2>2, <2>4, <2>5, Frames
  <1>5. stack' = [stack EXCEPT ![active] = <<f, g, h>> \o Rest]
    BY DEF Continue, LockFrame
  <1>. HIDE DEF f, g, h
  <1>6. r \in Seq(FrameType) /\ Calm(r, game.mutexes) /\ Begun(r, h)
    <2>1. CalmFrame(h, game.mutexes)
      BY <1>2, <1>4 DEF CalmFrame
    <2>2. r \in Seq(FrameType)
      BY <1>2, <1>4, ConsSeq
    <2>3. Calm(r, game.mutexes)
      BY <1>2, <1>4, <2>1, CalmCons
    <2>4. Begun(r, h)
      BY <1>2, <1>4, BegunCons
    <2>. QED BY <2>2, <2>3, <2>4
  <1>7. <<f, g, h>> \o Rest = <<f>> \o s
    <2>1. f \in FrameType /\ g \in FrameType /\ h \in FrameType /\ Rest \in Seq(FrameType)
      BY <1>2, <1>4
    <2>2. <<f, g, h>> \o Rest = <<f>> \o (<<g>> \o (<<h>> \o Rest))
      BY ONLY <2>1, ThreeFrames
    <2>. QED BY <2>2
  <1>. HIDE DEF r
  <1>8. s \in Seq(FrameType) /\ Begun(s, h)
    BY <1>4, <1>6, ConsSeq, BegunCons
  <1>. HIDE DEF s
  <1>9. <<f>> \o s \in Seq(FrameType) /\ Begun(<<f>> \o s, h)
    BY <1>4, <1>8, ConsSeq, BegunCons
  <1>10. stack'[active] = <<f>> \o s /\ \A u \in Thread \ {active} : stack'[u] = stack[u]
    BY <1>1, <1>5, <1>7 DEF TypeOK
  <1>11. /\ waitMutex'[active] = m
         /\ \A u \in Thread \ {active} : waitMutex'[u] = waitMutex[u]
    BY <1>1 DEF TypeOK
  <1>12. \A x \in BlockQueues : ~Topmost(Frame("WakeupThread", x))
    BY <1>2 DEF Topmost, Top, Frame
  <1>13. \A t \in Thread : ~Topmost(Frame("UnlockAll", t)) /\ ~Ending(t)
    <2>1. \A t \in Thread : ~Topmost(Frame("UnlockAll", t))
      BY <1>2 DEF Topmost, Top, Frame
    <2>2. \A t \in Thread : JoinQ(t) \in BlockQueues
      BY Addresses
    <2>. QED BY <1>2, <1>12, <2>1, <2>2, EndingTop
  <1>14. StackInv'
    <2>1. Promoting(stack[active], active)'
      <3>1. /\ owner'[m] # None /\ waitMutex'[active'] = m
            /\ s = <<Frame("SleepThread", MutexQ(m))>> \o r
            /\ Calm(r, game'.mutexes)
        BY <1>3, <1>6, <1>11 DEF s, g
      <3>2. stack'[active'] = <<f>> \o s
        BY <1>3, <1>10
      <3>. QED BY <1>4, <1>6, <1>8, <3>1, <3>2 DEF Promoting, ToMutex
    <2>2. \A u \in Thread \ {active'} : Calm(stack'[u], game'.mutexes)
      BY <1>2, <1>3, <1>10
    <2>. QED BY <2>1, <2>2 DEF StackInv
  <1>15. WaitInv'
    <2>. SUFFICES ASSUME NEW t \in Thread, ~Terminated(t), waitMutex'[t] # None
                  PROVE  /\ Begun(stack'[t], LockFrame(t, waitMutex'[t]))
                         /\ state[t] = "waiting" => queue[t] = MutexQ(waitMutex'[t])
      BY <1>3 DEF WaitInv, LockFrame, Frame, Begun, Terminated
    <2>1. CASE t = active
      BY <1>2, <1>9, <1>10, <1>11, <2>1 DEF h
    <2>2. CASE t # active
      BY <1>1, <1>10, <1>11, <2>2 DEF WaitInv
    <2>. QED BY <2>1, <2>2
  <1>16. HeldInv' /\ EndInv' /\ FreeInv' /\ JoinInv'
    <2>1. HeldInv'
      BY <1>1, <1>3 DEF HeldInv
    <2>2. EndInv'
      BY <1>1, <1>3, <1>13 DEF EndInv, Terminated
    <2>3. FreeInv'
      BY <1>1, <1>3, <1>12, Addresses DEF FreeInv
    <2>4. JoinInv'
      BY <1>1, <1>3, <1>13 DEF JoinInv, Settled, NoReturn, EndsThreads, Terminated
    <2>. QED BY <2>1, <2>2, <2>3, <2>4
  <1>. QED BY <1>14, <1>15, <1>16 DEF LockInv

\* OSLockMutex takes the mutex or goes to sleep on it.
LEMMA LockLocks ==
  ASSUME Good, Good', LockInv, UNCHANGED game, NEW t \in Thread, NEW m \in Mutex, LockMutex(t, m)
  PROVE  LockInv'
  <1>1. t = active
    BY Locker
  <1>2. LockMutex(active, m)
    BY <1>1
  <1>. QED BY <1>2, TakeLocks, BlockLocks DEF LockMutex

\* OSUnlockMutex goes on to wake those that wait for the mutex.
LEMMA UnlockLocks ==
  ASSUME Good, Good', LockInv, UNCHANGED game, NEW m \in Mutex, UnlockMutex(m)
  PROVE  LockInv'
  <1>1. /\ TypeOK /\ QueueInv /\ TypeOK' /\ QueueInv' /\ active \in Thread
        /\ StackInv /\ WaitInv /\ HeldInv /\ EndInv /\ FreeInv /\ JoinInv
    BY DEF Good, TypeOK, LockInv
  <1>2. GuestCode /\ Executing /\ running = active /\ state[active] = "running" /\ owner[m] = active
    <2>1. GuestCode
      BY DEF UnlockMutex, GuestCalls
    <2>2. Executing
      BY <2>1, ModeOf DEF Good
    <2>. QED BY <2>1, <2>2 DEF Executing, UnlockMutex
  <1>3. /\ UNCHANGED <<game, active, state, q, queue, waitMutex>>
        /\ stack[active] = <<>> /\ \A c : ~Top(c)
    BY <1>2 DEF UnlockMutex, linkVars, fiberVars, GuestCode, Top
  <1>4. LinksKept /\ SameEnded
    BY <1>3, OnlyStack
  <1>5. CASE UNCHANGED <<owner, held, stack>>
    <2>1. stack' = [stack EXCEPT ![active] = <<>> \o stack[active]]
      BY <1>1, <1>3, <1>5, ConcatEmptySeq DEF TypeOK
    <2>2. \A t \in Thread : Calm(stack[t], game.mutexes)
      BY <1>1, <1>3, NotAsleep
    <2>3. StackInv' /\ WaitInv' /\ HeldInv'
      BY <1>1, <1>3, <1>5, <2>2
         DEF StackInv, Calm, CalmFrame, WaitInv, Terminated, Begun, LockFrame, Frame, HeldInv
    <2>4. EndInv' /\ FreeInv'
      BY <1>1, <1>3, <1>5 DEF EndInv, FreeInv, Terminated, Topmost, Frame
    <2>5. JoinInv'
      BY <1>1, <1>3, <1>5 DEF JoinInv, Ending, Settled, NoReturn, EndsThreads, Terminated, Frame
    <2>. QED BY <2>3, <2>4, <2>5 DEF LockInv
  <1>6. CASE ~UNCHANGED <<owner, held, stack>>
    <2>. DEFINE f == Frame("WakeupThread", MutexQ(m))
                r == RemoveFirst(held[active], m)
    <2>1. /\ owner' = [owner EXCEPT ![m] = None]
          /\ held' = [held EXCEPT ![active] = r]
          /\ stack' = [stack EXCEPT ![active] = <<f>> \o Rest]
      BY <1>2, <1>6 DEF UnlockMutex, Continue, HeldWithout
    <2>2. f \in FrameType /\ f.call = "WakeupThread"
      BY Frames, Addresses
    <2>. HIDE DEF f
    <2>3. Rest = <<>> /\ <<f>> \in Seq(FrameType) /\ Calm(<<f>>, game.mutexes) /\ <<f>> \o <<>> = <<f>>
      <3>1. <<f>> \in Seq(FrameType)
        BY <2>2
      <3>. QED BY <1>3, <2>2, <3>1, CalmCalls, ConcatEmptySeq DEF Rest
    <2>4. stack'[active] = <<f>> /\ \A u \in Thread \ {active} : stack'[u] = stack[u]
      BY <1>1, <2>1, <2>3 DEF TypeOK
    <2>5. StackInv'
      BY <1>1, <1>3, <2>3, <2>4 DEF StackInv, Calm, CalmFrame
    <2>6. WaitInv'
      <3>1. BegunKept
        <4>1. \A g : ~Begun(stack[active], g)
          BY <1>3 DEF Begun, Range
        <4>. QED BY <2>4, <4>1 DEF BegunKept
      <3>. QED BY <1>1, <1>3, <1>4, <3>1, WaitKept DEF SameEnded
    <2>7. HeldInv'
      <3>1. /\ held[active] \in Seq(Mutex) /\ Distinct(held[active])
            /\ Range(held[active]) \subseteq game.mutexes
        BY <1>1 DEF HeldInv, TypeOK
      <3>2. /\ r \in Seq(Mutex) /\ Within(r, held[active]) /\ Range(r) = Range(held[active]) \ {m}
        BY <3>1, RemovedSeq
      <3>3. Distinct(r)
        BY <3>1, <3>2, WithinKeeps
      <3>. HIDE DEF r
      <3>4. /\ held'[active] = r /\ \A u \in Thread \ {active} : held'[u] = held[u]
            /\ owner'[m] = None /\ \A n \in Mutex \ {m} : owner'[n] = owner[n]
        BY <1>1, <2>1 DEF TypeOK
      <3>5. \A n \in Mutex, u \in Thread : owner[n] = u <=> n \in Range(held[u])
        BY <1>1 DEF HeldInv
      <3>6. ASSUME NEW n \in Mutex, NEW u \in Thread
            PROVE  owner'[n] = u <=> n \in Range(held'[u])
        <4>0. u # None
          BY ConstantsAssumption
        <4>1. CASE n = m
          <5>1. n \notin Range(held'[u])
            BY <1>2, <3>2, <3>4, <3>5, <4>1
          <5>. QED BY <3>4, <4>0, <4>1, <5>1
        <4>2. CASE n # m
          BY <3>2, <3>4, <3>5, <4>2
        <4>. QED BY <4>1, <4>2
      <3>7. \A u \in Thread : Distinct(held[u]) /\ Range(held[u]) \subseteq game.mutexes
        BY <1>1 DEF HeldInv
      <3>8. \A u \in Thread : Distinct(held'[u]) /\ Range(held'[u]) \subseteq game'.mutexes
        BY <1>3, <3>1, <3>2, <3>3, <3>4, <3>7
      <3>. QED BY <3>6, <3>8 DEF HeldInv, Distinct
    <2>8. EndInv'
      <3>1. \A t \in Thread : Terminated(t) => held[t] = <<>> /\ t # active
        BY <1>1, <1>2, <1>3 DEF EndInv, Terminated, Topmost
      <3>2. \A t \in Thread \ {active} : held'[t] = held[t]
        BY <1>1, <2>1 DEF TypeOK
      <3>. QED BY <1>3, <3>1, <3>2 DEF EndInv, Terminated
    <2>9. FreeInv'
      <3>. SUFFICES ASSUME NEW n \in Mutex, owner'[n] = None
                    PROVE  q[MutexQ(n)] = <<>> \/ Topmost(Frame("WakeupThread", MutexQ(n)))'
        BY <1>3 DEF FreeInv
      <3>1. CASE n = m
        <4>1. stack'[active'] # <<>> /\ Head(stack'[active']) = f
          BY <1>3, <2>4
        <4>. QED BY <3>1, <4>1 DEF Topmost, f, Frame
      <3>2. CASE n # m
        <4>1. owner[n] = None
          BY <1>1, <2>1, <3>2 DEF TypeOK
        <4>. QED BY <1>1, <1>3, <4>1 DEF FreeInv, Topmost
      <3>. QED BY <3>1, <3>2
    <2>10. JoinInv'
      <3>1. \A t \in Thread : ~Ending(t)
        BY <1>3, EndingTop DEF Topmost
      <3>. QED BY <1>1, <1>3, <3>1 DEF JoinInv, Settled, NoReturn, EndsThreads, Terminated
    <2>. QED BY <2>5, <2>6, <2>7, <2>8, <2>9, <2>10 DEF LockInv
  <1>. QED BY <1>5, <1>6

\* A queue of few threads is emptied by one wake-up.
FewThreads == IsFiniteSet(Thread) /\ Cardinality(Thread) <= MaxWake

\* With no more than kMaxWake threads, one OSWakeupThread empties its queue.
LEMMA AllPopped ==
  ASSUME FewThreads, QueueInv, NEW x \in BlockQueues, Wake(x)
  PROVE  q'[x] = <<>>
  <1>. DEFINE s == q[x]
              n == Len(s)
  <1>1. s \in Seq(Thread) /\ Distinct(s) /\ x \in Queue
    BY Addresses DEF QueueInv, Queues
  <1>. HIDE DEF s
  <1>2. n \in Nat /\ DOMAIN s = 1 .. n /\ s \in [1 .. n -> Thread]
    BY <1>1, LenProperties
  <1>3. n <= MaxWake
    <2>1. s \in Injection(1 .. n, Thread)
      BY <1>1, <1>2 DEF Injection, IsInjective, Distinct
    <2>2. IsFiniteSet(Thread) /\ Cardinality(Thread) \in Nat /\ Cardinality(Thread) <= MaxWake
      BY FS_CardinalityType DEF FewThreads
    <2>3. Cardinality(1 .. n) <= Cardinality(Thread)
      BY <2>1, <2>2, FS_Injection
    <2>4. Cardinality(1 .. n) = n
      BY <1>2, FS_Interval
    <2>5. MaxWake \in Nat
      BY ConstantsAssumption
    <2>. QED BY ONLY <2>2, <2>3, <2>4, <2>5
  <1>4. Min({MaxWake, n}) = n
    <2>1. {MaxWake, n} \in SUBSET Nat /\ {MaxWake, n} # {}
      BY <1>2, ConstantsAssumption
    <2>2. Min({MaxWake, n}) \in {MaxWake, n} /\ Min({MaxWake, n}) <= n
      BY <2>1, LeastNatural
    <2>. QED BY <1>2, <1>3, <2>2, ConstantsAssumption
  <1>5. Popped(x) = SubSeq(s, 1, n)
    BY <1>4 DEF Popped, s
  <1>6. Len(Popped(x)) = n
    BY <1>1, <1>2, <1>5
  <1>7. q'[x] = SubSeq(s, n + 1, n)
    BY <1>1, <1>6 DEF Wake, WakeLinks, s
  <1>8. SubSeq(s, n + 1, n) = <<>>
    <2>. DEFINE r == SubSeq(s, n + 1, n)
    <2>1. n + 1 \in 1 .. n + 1 /\ n \in (n + 1) - 1 .. n
      BY <1>2
    <2>2. r \in Seq(Thread) /\ Range(r) = {s[i] : i \in n + 1 .. n}
      BY <1>1, <2>1, SubWithin
    <2>3. n + 1 .. n = {}
      BY <1>2
    <2>4. Range(r) = {}
      BY <2>2, <2>3
    <2>. HIDE DEF r
    <2>. QED BY <2>2, <2>4, EmptyRange DEF r
  <1>. QED BY <1>7, <1>8

\* OSWakeupThread leaves nobody asleep in its queue.
LEMMA WakeupLocks ==
  ASSUME Good, Good', LockInv, UNCHANGED game, FewThreads, NEW x \in BlockQueues, WakeupThread(x)
  PROVE  LockInv'
  <1>1. /\ UNCHANGED <<game, mutexVars, waitMutex, active>> /\ Wake(x)
        /\ ~Top("UnlockAll") /\ ~Top("SleepThread") /\ ~Top("Promote") /\ ~Top("LockMutex")
        /\ GuestCode \/ (Top("WakeupThread") /\ Arg = x)
    BY DEF WakeupThread, fiberVars, Called, GuestCalls, GuestCode, Top
  <1>2. TypeOK /\ QueueInv /\ TypeOK' /\ QueueInv' /\ active' \in Thread
    BY DEF Good, TypeOK
  <1>3. LinksKept /\ SameEnded
    BY <1>1, <1>2, WakeKeeps DEF Good, LifeInv
  <1>4. /\ <<SelectFrame>> \in Seq(FrameType) /\ Calm(<<SelectFrame>>, game.mutexes)
        /\ <<>> \in Seq(FrameType) /\ Calm(<<>>, game.mutexes)
    BY SelectFrames, CalmCalls
  <1>5. \/ stack' = [stack EXCEPT ![active] = <<SelectFrame>> \o Rest]
        \/ stack' = [stack EXCEPT ![active] = <<>> \o Rest]
    BY DEF WakeupThread, Continue
  <1>6. \A t \in Thread : Calm(stack[t], game.mutexes)
    BY <1>1, <1>2, NotAsleep DEF LockInv
  <1>7. StacksKept
    BY <1>1, <1>2, <1>4, <1>5, <1>6, ContinueKeeps
  <1>8. \A y \in BlockQueues : Topmost(Frame("WakeupThread", y)) => q'[y] = <<>>
    <2>1. q'[x] = <<>>
      BY <1>1, <1>2, AllPopped
    <2>2. \A y : Topmost(Frame("WakeupThread", y)) => y = x
      BY <1>1 DEF Topmost, Arg, Frame, GuestCode
    <2>. QED BY <2>1, <2>2
  <1>. QED BY <1>1, <1>2, <1>3, <1>7, <1>8, Undisturbed

\* The mutexes of a thread that is over, one after the other.
LEMMA UnlockAllLocks ==
  ASSUME Good, Good', LockInv, UNCHANGED game, NEW t \in Thread, UnlockAll(t)
  PROVE  LockInv'
  <1>1. /\ TypeOK /\ QueueInv /\ TypeOK' /\ QueueInv' /\ active \in Thread
        /\ StackInv /\ WaitInv /\ HeldInv /\ EndInv /\ FreeInv /\ JoinInv
    BY DEF Good, TypeOK, LockInv
  <1>2. /\ UNCHANGED <<game, active, state, q, queue, waitMutex>>
        /\ Top("UnlockAll") /\ Arg = t
        /\ ~Top("SleepThread") /\ ~Top("Promote") /\ ~Top("LockMutex") /\ ~Top("WakeupThread")
    BY DEF UnlockAll, linkVars, fiberVars, Top
  <1>3. LinksKept /\ SameEnded
    BY <1>2, OnlyStack
  <1>4. \A u \in Thread : Calm(stack[u], game.mutexes)
    BY <1>1, <1>2, NotAsleep
  <1>5. \A u : Topmost(Frame("UnlockAll", u)) => u = t
    BY <1>2 DEF Topmost, Arg, Frame
  <1>6. \A x : ~Topmost(Frame("WakeupThread", x))
    BY <1>2 DEF Topmost, Top, Frame
  <1>7. CASE held[t] = <<>>
    <2>1. /\ UNCHANGED <<owner, held>>
          /\ stack' = [stack EXCEPT ![active] = <<>> \o Rest]
      BY <1>7 DEF UnlockAll, mutexVars, Return, Continue
    <2>2. StacksKept
      BY <1>1, <1>2, <1>4, <2>1, CalmCalls, ContinueKeeps
    <2>3. StackInv'
      BY <1>1, <1>2, <2>2 DEF StacksKept, StackInv, Calm, CalmFrame
    <2>4. WaitInv'
      BY <1>1, <1>2, <1>3, <2>2, WaitKept DEF SameEnded, StacksKept
    <2>5. HeldInv'
      BY <1>1, <1>2, <2>1 DEF HeldInv
    <2>6. EndInv'
      BY <1>1, <1>2, <1>5, <1>7, <2>1 DEF EndInv, Terminated
    <2>7. FreeInv'
      BY <1>1, <1>2, <1>6, <2>1 DEF FreeInv
    <2>8. JoinInv'
      <3>1. ASSUME NEW u \in Thread, Ending(u) PROVE Ending(u)'
        <4>1. PICK r \in Seq(FrameType) :
                 \/ stack[active] = <<Frame("UnlockAll", u)>> \o (<<Frame("WakeupThread", JoinQ(u))>> \o r)
                 \/ stack[active] = <<Frame("WakeupThread", JoinQ(u))>> \o r
          BY <3>1 DEF Ending
        <4>. DEFINE f == Frame("UnlockAll", u)
                    g == Frame("WakeupThread", JoinQ(u))
        <4>2. f \in FrameType /\ g \in FrameType
          BY Frames, Addresses
        <4>3. stack[active] = <<f>> \o (<<g>> \o r) \/ stack[active] = <<g>> \o r
          BY <4>1
        <4>. HIDE DEF f, g
        <4>4. <<g>> \o r \in Seq(FrameType)
          BY <4>2, ConsSeq
        <4>5. stack[active] # <<g>> \o r
          <5>1. stack[active] = <<g>> \o r => Topmost(g)
            BY <4>2, ConsSeq DEF Topmost
          <5>. QED BY <1>6, <5>1 DEF g
        <4>6. Rest = <<g>> \o r
          <5>. DEFINE k == <<g>> \o r
          <5>1. stack[active] = <<f>> \o k /\ k \in Seq(FrameType)
            BY <4>3, <4>4, <4>5
          <5>. HIDE DEF k
          <5>2. stack[active] # <<>> /\ Tail(stack[active]) = k
            BY <4>2, <5>1, ConsSeq
          <5>. QED BY <5>2 DEF Rest, k
        <4>7. stack'[active'] = <<g>> \o r
          <5>1. <<>> \o Rest = Rest
            BY <4>4, <4>6, ConcatEmptySeq
          <5>. QED BY <1>1, <1>2, <2>1, <4>6, <5>1 DEF TypeOK
        <4>. QED BY <4>7 DEF Ending, g, Frame, JoinQ
      <3>. QED BY <1>1, <1>2, <3>1 DEF JoinInv, Settled, NoReturn, EndsThreads, Terminated
    <2>. QED BY <2>3, <2>4, <2>5, <2>6, <2>7, <2>8 DEF LockInv
  <1>8. CASE held[t] # <<>>
    <2>. DEFINE m == Head(held[t])
                f == Frame("WakeupThread", MutexQ(m))
    <2>1. /\ held' = [held EXCEPT ![t] = Tail(@)]
          /\ owner' = [owner EXCEPT ![m] = None]
          /\ stack' = [stack EXCEPT ![active] = <<f>> \o stack[active]]
      BY <1>8 DEF UnlockAll, Continue
    <2>2. /\ held[t] \in Seq(Mutex) /\ Distinct(held[t]) /\ Range(held[t]) \subseteq game.mutexes
      BY <1>1 DEF HeldInv, TypeOK
    <2>3. /\ m \in Mutex /\ Tail(held[t]) \in Seq(Mutex) /\ Distinct(Tail(held[t]))
          /\ \A n : n \in Range(held[t]) <=> n = m \/ n \in Range(Tail(held[t]))
          /\ m \notin Range(Tail(held[t]))
          /\ Len(held[t]) = 1 => Tail(held[t]) = <<>>
      BY <1>8, <2>2, DistinctTail
    <2>4. f \in FrameType /\ f.call = "WakeupThread"
      BY <2>3, Frames, Addresses
    <2>. HIDE DEF m
    <2>5. /\ held'[t] = Tail(held[t]) /\ \A u \in Thread \ {t} : held'[u] = held[u]
          /\ owner'[m] = None /\ \A n \in Mutex \ {m} : owner'[n] = owner[n]
      BY <1>1, <2>1, <2>3 DEF TypeOK
    <2>6. StacksKept
      <3>. HIDE DEF f
      <3>1. <<f>> \in Seq(FrameType) /\ Calm(<<f>>, game.mutexes)
        BY <2>4, CalmCalls
      <3>. QED BY <1>1, <1>2, <1>4, <2>1, <3>1, ContinueKeeps
    <2>7. StackInv'
      BY <1>1, <1>2, <2>6 DEF StacksKept, StackInv, Calm, CalmFrame
    <2>8. WaitInv'
      BY <1>1, <1>2, <1>3, <2>6, WaitKept DEF SameEnded, StacksKept
    <2>9. HeldInv'
      <3>1. \A n \in Mutex, u \in Thread : owner[n] = u <=> n \in Range(held[u])
        BY <1>1 DEF HeldInv
      <3>2. ASSUME NEW n \in Mutex, NEW u \in Thread
            PROVE  owner'[n] = u <=> n \in Range(held'[u])
        <4>0. u # None
          BY ConstantsAssumption
        <4>1. CASE n = m
          <5>1. owner[m] = t
            BY <2>3, <3>1
          <5>2. n \notin Range(held'[u])
            BY <2>3, <2>5, <3>1, <4>1, <5>1
          <5>. QED BY <2>5, <4>0, <4>1, <5>2
        <4>2. CASE n # m
          BY <2>3, <2>5, <3>1, <4>2
        <4>. QED BY <4>1, <4>2
      <3>3. \A u \in Thread : Distinct(held[u]) /\ Range(held[u]) \subseteq game.mutexes
        BY <1>1 DEF HeldInv
      <3>4. \A u \in Thread : Distinct(held'[u]) /\ Range(held'[u]) \subseteq game'.mutexes
        BY <1>2, <2>2, <2>3, <2>5, <3>3
      <3>. QED BY <3>2, <3>4 DEF HeldInv, Distinct
    <2>10. EndInv'
      <3>1. ASSUME NEW u \in Thread, Terminated(u) PROVE held'[u] = <<>>
        <4>1. CASE u = t
          BY <1>1, <1>8, <2>3, <2>5, <3>1, <4>1 DEF EndInv
        <4>2. CASE u # t
          BY <1>1, <1>5, <2>5, <3>1, <4>2 DEF EndInv
        <4>. QED BY <4>1, <4>2
      <3>. QED BY <1>2, <3>1 DEF EndInv, Terminated
    <2>11. FreeInv'
      <3>. SUFFICES ASSUME NEW n \in Mutex, owner'[n] = None
                    PROVE  q[MutexQ(n)] = <<>> \/ Topmost(Frame("WakeupThread", MutexQ(n)))'
        BY <1>2 DEF FreeInv
      <3>1. CASE n = m
        <4>. DEFINE r == <<f>> \o stack[active]
        <4>1. stack'[active'] = r
          BY <1>1, <1>2, <2>1 DEF TypeOK
        <4>. HIDE DEF f
        <4>2. r # <<>> /\ Head(r) = f
          BY <1>1, <2>4, ConsSeq DEF TypeOK
        <4>. HIDE DEF r
        <4>. QED BY <3>1, <4>1, <4>2 DEF Topmost, f, Frame
      <3>2. CASE n # m
        BY <1>1, <1>6, <2>5, <3>2 DEF FreeInv
      <3>. QED BY <3>1, <3>2
    <2>12. JoinInv'
      <3>1. game.mutexes # {}
        BY <2>2, <2>3
      <3>. QED BY <1>1, <1>2, <3>1 DEF JoinInv, Settled, NoReturn, EndsThreads, Terminated
    <2>. QED BY <2>7, <2>8, <2>9, <2>10, <2>11, <2>12 DEF LockInv
  <1>. QED BY <1>7, <1>8

\* Among mutexes that are all one, a thread owns one at most.
LEMMA OneHeld ==
  ASSUME NEW s \in Seq(Mutex), Distinct(s), NEW ms, Range(s) \subseteq ms,
         \A m, n \in ms : m = n
  PROVE  s = <<>> \/ Len(s) = 1
  <1>1. Len(s) \in Nat /\ DOMAIN s = 1 .. Len(s) /\ (Len(s) = 0 => s = <<>>)
    BY LenProperties, EmptySeq
  <1>2. ASSUME Len(s) > 1 PROVE FALSE
    <2>1. 1 \in DOMAIN s /\ 2 \in DOMAIN s
      BY <1>1, <1>2
    <2>2. s[1] \in Range(s) /\ s[2] \in Range(s)
      BY <2>1 DEF Range
    <2>3. s[1] = s[2]
      BY <2>2
    <2>. QED BY <2>1, <2>3 DEF Distinct
  <1>. QED BY <1>1, <1>2

\* A thread comes to its end: what it owns is released next, and those that join it are woken.
LEMMA EndLocks ==
  ASSUME Good, Good', LockInv, Orderly, EndsThreads, GuestCode, NEW t \in Thread, ~Terminated(t),
         NEW f \in FrameType, f.call \in {"Exited", "IfResched"}, Terminate(t, <<f>>),
         UNCHANGED <<game, mutexVars, waitMutex, active>>, Unlink(t) \/ UNCHANGED linkVars
  PROVE  LockInv'
  <1>1. /\ TypeOK /\ QueueInv /\ TypeOK' /\ QueueInv' /\ active \in Thread
        /\ StackInv /\ WaitInv /\ HeldInv /\ EndInv /\ FreeInv /\ JoinInv
    BY DEF Good, TypeOK, LockInv
  <1>2. /\ UNCHANGED <<game, active, owner, held, waitMutex>>
        /\ stack[active] = <<>> /\ \A c : ~Top(c)
        /\ state[active] = "running"
    <2>1. Executing
      BY ModeOf DEF Good
    <2>. QED BY <2>1 DEF Executing, mutexVars, GuestCode, Top
  <1>3. /\ Terminated(t)' /\ state'[t] # "waiting"
        /\ \A u \in Thread \ {t} : state'[u] = state[u]
    BY <1>1 DEF Terminate, TypeOK, Terminated
  <1>4. LinksKept
    <2>1. \A u \in Thread : state'[u] = "waiting" => state[u] = "waiting"
      BY <1>3
    <2>. QED BY <1>1, <1>3, <2>1, UnlinkKeeps, LinksStay DEF linkVars
  <1>. DEFINE a == Frame("UnlockAll", t)
              b == Frame("WakeupThread", JoinQ(t))
              r == <<f>> \o <<>>
              m == <<b>> \o r
              s == <<a>> \o m
  <1>5. /\ a \in FrameType /\ a.call = "UnlockAll" /\ b \in FrameType /\ b.call = "WakeupThread"
    BY Frames, Addresses
  <1>6. stack' = [u \in Thread |-> IF u = active THEN s ELSE IF u = t THEN <<>> ELSE stack[u]]
    <2>1. EndCalls(t) = <<a>> \o <<b>> /\ Rest = <<>>
      BY <1>2, TwoElements DEF EndCalls, Rest
    <2>2. stack' = [u \in Thread |-> IF u = active THEN EndCalls(t) \o <<f>> \o Rest
                                     ELSE IF u = t THEN <<>> ELSE stack[u]]
      BY DEF Terminate
    <2>3. EndCalls(t) \o <<f>> \o Rest = s
      <3>. HIDE DEF a, b
      <3>1. /\ <<a>> \in Seq(FrameType) /\ <<b>> \in Seq(FrameType) /\ <<f>> \in Seq(FrameType)
            /\ <<>> \in Seq(FrameType)
        BY <1>5
      <3>2. ((<<a>> \o <<b>>) \o <<f>>) \o <<>> = <<a>> \o (<<b>> \o (<<f>> \o <<>>))
        BY <3>1, ConcatThree
      <3>. QED BY <2>1, <3>2
    <2>. QED BY <2>2, <2>3
  <1>. HIDE DEF a, b
  <1>7. r \in Seq(FrameType) /\ Calm(r, game.mutexes)
    <2>1. <<>> \in Seq(FrameType) /\ Calm(<<>>, game.mutexes)
      BY CalmCalls
    <2>. QED BY <2>1, ConsSeq, CalmCons DEF CalmFrame
  <1>. HIDE DEF r
  <1>8. m \in Seq(FrameType) /\ Calm(m, game.mutexes)
    BY <1>5, <1>7, ConsSeq, CalmCons DEF CalmFrame
  <1>. HIDE DEF m
  <1>9. s \in Seq(FrameType) /\ Calm(s, game.mutexes) /\ s # <<>> /\ Head(s) = a
    BY <1>5, <1>8, ConsSeq, CalmCons DEF CalmFrame
  <1>10. stack'[active] = s
    BY <1>1, <1>6
  <1>11. ASSUME NEW u \in Thread, u # active
         PROVE  stack'[u] = IF u = t THEN <<>> ELSE stack[u]
    BY <1>6, <1>11
  <1>12. s = <<a>> \o (<<b>> \o r)
    BY DEF m
  <1>. HIDE DEF s
  <1>13. Topmost(a)'
    <2>1. stack'[active'] # <<>> /\ Head(stack'[active']) = a
      BY <1>2, <1>9, <1>10
    <2>. QED BY <2>1 DEF Topmost, a, Frame
  <1>14. StackInv'
    <2>1. \A u \in Thread : Calm(stack'[u], game.mutexes)
      BY <1>1, <1>9, <1>10, <1>11, CalmCalls DEF StackInv
    <2>. QED BY <1>1, <1>2, <2>1 DEF StackInv, Calm, CalmFrame
  <1>15. WaitInv'
    <2>1. BegunKept
      <3>1. \A g : ~Begun(stack[active], g)
        BY <1>2 DEF Begun, Range
      <3>. QED BY <1>3, <1>11, <3>1 DEF BegunKept
    <2>2. \A u \in Thread : Terminated(u) => Terminated(u)'
      BY <1>3 DEF Terminated
    <2>. QED BY <1>1, <1>2, <1>4, <2>1, <2>2, WaitKept
  <1>16. HeldInv'
    BY <1>1, <1>2 DEF HeldInv
  <1>17. EndInv'
    <2>. SUFFICES ASSUME NEW u \in Thread, Terminated(u)'
                  PROVE  held[u] = <<>> \/ (Topmost(Frame("UnlockAll", u))' /\ Len(held[u]) = 1)
      BY <1>2 DEF EndInv
    <2>1. CASE u = t
      <3>1. held[t] = <<>> \/ Len(held[t]) = 1
        <4>1. /\ held[t] \in Seq(Mutex) /\ Distinct(held[t]) /\ Range(held[t]) \subseteq game.mutexes
          BY <1>1 DEF HeldInv, TypeOK
        <4>2. \A n, k \in game.mutexes : n = k
          BY DEF Orderly
        <4>. QED BY <4>1, <4>2, OneHeld
      <3>. QED BY <1>13, <2>1, <3>1 DEF a
    <2>2. CASE u # t
      <3>1. Terminated(u)
        BY <1>3, <2>2 DEF Terminated
      <3>. QED BY <1>1, <1>2, <3>1 DEF EndInv, Topmost
    <2>. QED BY <2>1, <2>2
  <1>18. FreeInv'
    <2>. SUFFICES ASSUME NEW n \in Mutex, owner[n] = None PROVE q'[MutexQ(n)] = <<>>
      BY <1>2 DEF FreeInv
    <2>1. q[MutexQ(n)] = <<>> /\ MutexQ(n) \in BlockQueues \ JoinQueues
      BY <1>1, <1>2, Addresses DEF FreeInv, Topmost
    <2>. QED BY <1>1, <1>4, <2>1, EmptyKept
  <1>19. JoinInv'
    <2>. SUFFICES ASSUME Settled, NEW u \in Thread
                  PROVE  /\ Terminated(u)' => q'[JoinQ(u)] = <<>> \/ (Ending(u)' /\ game.mutexes = {})
                         /\ state'[u] = "waiting" => u \in Range(q'[queue'[u]])
      BY <1>2 DEF JoinInv, Settled, NoReturn, EndsThreads
    <2>1. \A v \in Thread : state[v] = "waiting" => v \in Range(q[queue[v]])
      BY <1>1 DEF JoinInv
    <2>2. ASSUME Terminated(u)' PROVE q'[JoinQ(u)] = <<>> \/ (Ending(u)' /\ game.mutexes = {})
      <3>1. CASE u = t
        <4>1. game.mutexes = {}
          BY DEF Settled
        <4>2. stack'[active'] = <<Frame("UnlockAll", t)>> \o (<<Frame("WakeupThread", JoinQ(t))>> \o r)
          BY <1>2, <1>10, <1>12 DEF a, b
        <4>3. Ending(t)'
          BY <1>7, <4>2 DEF Ending
        <4>. QED BY <3>1, <4>1, <4>3
      <3>2. CASE u # t
        <4>1. Terminated(u)
          BY <1>3, <2>2, <3>2 DEF Terminated
        <4>2. ~Ending(u)
          BY <1>2, EndingTop DEF Topmost
        <4>3. q[JoinQ(u)] = <<>>
          BY <1>1, <4>1, <4>2 DEF JoinInv
        <4>. QED BY <1>1, <1>4, <2>1, <4>3, Addresses, EmptyKept
      <3>. QED BY <3>1, <3>2
    <2>3. ASSUME state'[u] = "waiting" PROVE u \in Range(q'[queue'[u]])
      <3>1. state[u] = "waiting" /\ queue'[u] = queue[u] /\ u \in Range(q[queue[u]])
        BY <1>4, <2>1, <2>3 DEF LinksKept
      <3>2. CASE queue[u] \in JoinQueues
        BY <1>4, <2>3, <3>1, <3>2 DEF LinksKept
      <3>3. CASE queue[u] \notin JoinQueues
        <4>1. Home'[u] = queue'[u]
          BY <2>3 DEF Home
        <4>2. queue'[u] \in Queue \ JoinQueues
          BY <1>1, <3>1, <3>3, Addresses DEF QueueInv
        <4>3. \A v \in Thread : Home'[v] \in Queue \ JoinQueues => v \in Range(q'[Home'[v]])
          BY <1>1 DEF QueueInv, Queues
        <4>. HIDE DEF Home
        <4>. QED BY <4>1, <4>2, <4>3
      <3>. QED BY <3>2, <3>3
    <2>. QED BY <2>2, <2>3
  <1>. QED BY <1>14, <1>15, <1>16, <1>17, <1>18, <1>19 DEF LockInv

\* OSExitThread.
LEMMA ExitLocks ==
  ASSUME Good, Good', LockInv, Orderly, UNCHANGED game, ExitThread
  PROVE  LockInv'
  <1>1. GuestCode /\ EndsThreads
    BY DEF ExitThread, GuestCalls, EndsThreads
  <1>2. running = active /\ ~Terminated(active) /\ active \in Thread
    <2>1. Executing
      BY <1>1, ModeOf DEF Good
    <2>. QED BY <2>1 DEF Executing, Terminated, Good, TypeOK
  <1>. DEFINE f == Frame("Exited", None)
  <1>3. f \in FrameType /\ f.call = "Exited"
    BY Frames
  <1>4. Terminate(active, <<f>>) /\ UNCHANGED <<mutexVars, waitMutex, active, linkVars>>
    BY <1>2 DEF ExitThread
  <1>. HIDE DEF f
  <1>. QED BY <1>1, <1>2, <1>3, <1>4, EndLocks

\* OSCancelThread.
LEMMA CancelLocks ==
  ASSUME Good, Good', LockInv, Orderly, UNCHANGED game, NEW t \in Thread, CancelThread(t)
  PROVE  LockInv'
  <1>1. GuestCode /\ EndsThreads
    BY DEF CancelThread, GuestCalls, EndsThreads
  <1>2. IfResched \in FrameType /\ IfResched.call = "IfResched"
    BY SelectFrames
  <1>3. /\ ~Terminated(t) /\ Terminate(t, <<IfResched>>)
        /\ UNCHANGED <<mutexVars, waitMutex, active>> /\ (Unlink(t) \/ UNCHANGED linkVars)
    BY DEF CancelThread
  <1>. QED BY <1>1, <1>2, <1>3, EndLocks

\* A thread that is created anew owns nothing and is waited for by no one.
LEMMA CreateLocks ==
  ASSUME Good, Good', LockInv, UNCHANGED game, NEW t \in Thread, NEW p, NEW d, CreateThread(t, p, d)
  PROVE  LockInv'
  <1>1. /\ TypeOK /\ QueueInv /\ TypeOK' /\ QueueInv' /\ active \in Thread
        /\ StackInv /\ WaitInv /\ HeldInv /\ EndInv /\ FreeInv /\ JoinInv
    BY DEF Good, TypeOK, LockInv
  <1>2. /\ UNCHANGED <<game, active, owner, queue>>
        /\ stack[active] = <<>> /\ GuestCode /\ state[t] = "none" /\ Terminated(t)
    BY DEF CreateThread, GuestCalls, GuestCode, Terminated
  <1>3. state[active] = "running" /\ t # active
    <2>1. Executing
      BY <1>2, ModeOf DEF Good
    <2>. QED BY <1>2, <2>1 DEF Executing
  <1>4. (\A c : ~Top(c)) /\ \A f : ~Topmost(f)
    BY <1>2 DEF Top, Topmost
  <1>5. \A u \in Thread : ~Ending(u)
    BY <1>4, EndingTop
  <1>6. /\ state'[t] = "ready" /\ waitMutex'[t] = None /\ stack'[t] = <<>>
        /\ \A u \in Thread \ {t} : /\ state'[u] = state[u] /\ waitMutex'[u] = waitMutex[u]
                                   /\ stack'[u] = stack[u]
        /\ q' = [q EXCEPT ![JoinQ(t)] = <<>>]
    BY <1>1 DEF CreateThread, TypeOK
  <1>7. held' = held
    <2>1. held[t] = <<>>
      BY <1>1, <1>2, <1>4 DEF EndInv
    <2>2. held' = [held EXCEPT ![t] = <<>>]
      BY DEF CreateThread
    <2>. QED BY <1>1, <2>1, <2>2 DEF TypeOK
  <1>8. StackInv'
    <2>1. \A u \in Thread : Calm(stack[u], game.mutexes)
      BY <1>1, <1>4, NotAsleep
    <2>2. \A u \in Thread : Calm(stack'[u], game.mutexes)
      BY <1>6, <2>1, CalmCalls
    <2>. QED BY <1>1, <1>2, <2>2 DEF StackInv, Calm, CalmFrame
  <1>9. WaitInv'
    BY <1>1, <1>2, <1>6 DEF WaitInv, Terminated, Begun, LockFrame, Frame
  <1>10. HeldInv'
    BY <1>1, <1>2, <1>7 DEF HeldInv
  <1>11. EndInv'
    BY <1>1, <1>4, <1>6, <1>7 DEF EndInv, Terminated
  <1>12. FreeInv'
    <2>1. \A m \in Mutex : q'[MutexQ(m)] = q[MutexQ(m)]
      <3>1. \A m \in Mutex : MutexQ(m) # JoinQ(t) /\ MutexQ(m) \in Queue
        BY Addresses DEF MutexQ, JoinQ
      <3>. QED BY <1>1, <1>6, <3>1 DEF TypeOK
    <2>. QED BY <1>1, <1>2, <1>4, <2>1 DEF FreeInv
  <1>13. JoinInv'
    <2>. SUFFICES ASSUME Settled
                  PROVE  \A u \in Thread :
                            /\ Terminated(u)' => q'[JoinQ(u)] = <<>>
                            /\ state'[u] = "waiting" => u \in Range(q'[queue'[u]])
      BY <1>2 DEF JoinInv, Settled, NoReturn, EndsThreads
    <2>1. q' = q
      <3>1. q[JoinQ(t)] = <<>>
        BY <1>1, <1>2, <1>5 DEF JoinInv
      <3>. QED BY <1>1, <1>6, <3>1 DEF TypeOK
    <2>. QED BY <1>1, <1>2, <1>5, <1>6, <2>1 DEF JoinInv, Terminated
  <1>. QED BY <1>8, <1>9, <1>10, <1>11, <1>12, <1>13 DEF LockInv

-----------------------------------------------------------------------------
(* The invariant of the locks.                                             *)

\* At the start nothing is locked and nobody waits.
LEMMA InitLocks ==
  ASSUME Init
  PROVE  LockInv
  <1>1. /\ \A t \in Thread : /\ stack[t] = <<>> /\ waitMutex[t] = None /\ held[t] = <<>>
                             /\ state[t] # "waiting"
        /\ \A m \in Mutex : owner[m] = None
        /\ \A x \in Queue : q[x] = <<>>
        /\ active \in Thread
    BY ConstantsAssumption DEF Init
  <1>2. StackInv
    BY <1>1, CalmCalls DEF StackInv
  <1>3. WaitInv
    BY <1>1 DEF WaitInv
  <1>4. HeldInv
    <2>1. Range(<<>>) = {} /\ Distinct(<<>>)
      BY DEF Range, Distinct
    <2>. QED BY <1>1, <2>1, ConstantsAssumption DEF HeldInv
  <1>5. EndInv /\ FreeInv /\ JoinInv
    BY <1>1, Addresses DEF EndInv, FreeInv, JoinInv
  <1>. QED BY <1>2, <1>3, <1>4, <1>5 DEF LockInv

\* Every action keeps LockInv.
LEMMA StepLocks ==
  ASSUME FewThreads, Orderly, Good, Good', LockInv, Next
  PROVE  LockInv'
  <1>1. Step /\ UNCHANGED game
    BY DEF Next
  <1>2. CASE TimersDue \/ PumpEnds \/ IdleEnds
    BY <1>1, <1>2, TimersLocks
  <1>3. CASE SelectThread
    BY <1>1, <1>3, SelectThreadLocks
  <1>4. CASE Pick
    BY <1>1, <1>4, PickLocks
  <1>5. CASE Switched
    BY <1>1, <1>5, SwitchedLocks
  <1>6. CASE Reschedule \/ YieldThread \/ Exited
    BY <1>1, <1>6, SelectLocks
  <1>7. CASE DisableScheduler \/ EnableScheduler
    BY <1>1, <1>7, SchedulerLocks
  <1>8. CASE ExitThread
    BY <1>1, <1>8, ExitLocks
  <1>9. CASE ReturnFromEntry
    BY <1>9 DEF ReturnFromEntry, GuestCalls, Orderly, NoReturn
  <1>10. ASSUME NEW w \in WaitQueue, IdleInterrupt(w) \/ Interrupt(w)
         PROVE  LockInv'
    BY <1>1, <1>10, InterruptLocks
  <1>11. ASSUME NEW x \in BlockQueues, SleepThread(x) \/ WakeupThread(x)
         PROVE  LockInv'
    BY <1>1, <1>11, SleepLocks, WakeupLocks
  <1>12. ASSUME NEW m \in Mutex, UnlockMutex(m)
         PROVE  LockInv'
    BY <1>1, <1>12, UnlockLocks
  <1>13. ASSUME NEW t \in Thread, PumpTimer(t) \/ IdleTimer(t)
         PROVE  LockInv'
    BY <1>1, <1>13, FireLocks
  <1>14. ASSUME NEW t \in Thread, SuspendThread(t) \/ ResumeThread(t)
         PROVE  LockInv'
    BY <1>1, <1>14, SuspendLocks, ResumeLocks
  <1>15. ASSUME NEW t \in Thread, SleepTicks(t) \/ TickWoken(t)
         PROVE  LockInv'
    BY <1>1, <1>15, SleepTicksLocks, TickWokenLocks
  <1>16. ASSUME NEW t \in Thread, Propagate(t) \/ UnlockAll(t)
         PROVE  LockInv'
    BY <1>1, <1>16, PropagateLocks, UnlockAllLocks
  <1>17. ASSUME NEW t \in Thread, CancelThread(t)
         PROVE  LockInv'
    BY <1>1, <1>17, CancelLocks
  <1>18. ASSUME NEW t \in Thread, JoinThread(t) \/ Joined(t) \/ DetachThread(t)
         PROVE  LockInv'
    BY <1>1, <1>18, JoinLocks, ReapLocks
  <1>19. ASSUME NEW t \in Thread, NEW p \in AnyPriority, Promote(t, p)
         PROVE  LockInv'
    BY <1>1, <1>19, PromoteLocks
  <1>20. ASSUME NEW t \in Thread, NEW p \in game.priorities, NEW d \in game.attributes,
                CreateThread(t, p, d)
         PROVE  LockInv'
    BY <1>1, <1>20, CreateLocks
  <1>21. ASSUME NEW t \in Thread, NEW m \in Mutex, LockMutex(t, m)
         PROVE  LockInv'
    BY <1>1, <1>21, LockLocks
  <1>22. ASSUME NEW t \in Thread, NEW x \in BlockQueues, Slept(t, x)
         PROVE  LockInv'
    BY <1>1, <1>22, SleptLocks
  <1>. QED BY <1>1, <1>2, <1>3, <1>4, <1>5, <1>6, <1>7, <1>8, <1>9, <1>10, <1>11, <1>12, <1>13,
              <1>14, <1>15, <1>16, <1>17, <1>18, <1>19, <1>20, <1>21, <1>22 DEF Step

\* So does a step of something else.
LEMMA StutterLocks ==
  ASSUME LockInv, UNCHANGED vars
  PROVE  LockInv'
  <1>1. UNCHANGED <<game, state, queue, waitMutex, held, q, owner, active, stack>>
    BY DEF vars
  <1>2. StackInv'
    <2>1. \A t \in Thread \ {active} : Calm(stack[t], game.mutexes)
      BY DEF LockInv, StackInv
    <2>2. (\A t \in Thread \ {active} : Calm(stack[t], game.mutexes))'
      BY ONLY <1>1, <2>1 DEF Calm, CalmFrame
    <2>3. CASE Calm(stack[active], game.mutexes)
      BY ONLY <1>1, <2>2, <2>3 DEF StackInv, Calm, CalmFrame
    <2>4. CASE ToMutex(stack[active], active)
      <3>1. ToMutex(stack[active], active)'
        BY <1>1, <2>4, ToMutexStays
      <3>. QED BY <2>2, <3>1 DEF StackInv
    <2>5. CASE ToJoin(stack[active], active)
      <3>1. PICK u \in Thread, r \in Seq(FrameType) :
               /\ ~Terminated(u) /\ waitMutex[active] = None
               /\ stack[active] = <<Frame("SleepThread", JoinQ(u))>> \o r
               /\ Calm(r, game.mutexes)
        BY <2>5 DEF ToJoin
      <3>2. /\ ~Terminated(u)' /\ waitMutex'[active'] = None
            /\ stack'[active'] = <<Frame("SleepThread", JoinQ(u))>> \o r
            /\ Calm(r, game'.mutexes)
        BY <1>1, <3>1 DEF Terminated
      <3>3. ToJoin(stack[active], active)'
        BY <3>2 DEF ToJoin
      <3>. QED BY <2>2, <3>3 DEF StackInv
    <2>6. CASE Promoting(stack[active], active)
      <3>1. PICK f \in FrameType, r \in Seq(FrameType) :
               f.call = "Promote" /\ stack[active] = <<f>> \o r /\ ToMutex(r, active)
        BY <2>6 DEF Promoting
      <3>2. stack'[active] = <<f>> \o r
        BY <1>1, <3>1
      <3>3. Promoting(stack[active], active)'
        BY <1>1, <3>1, <3>2, PromotingNext
      <3>. QED BY <2>2, <3>3 DEF StackInv
    <2>. QED BY <2>3, <2>4, <2>5, <2>6 DEF LockInv, StackInv
  <1>3. WaitInv' /\ HeldInv' /\ EndInv' /\ FreeInv'
    BY <1>1 DEF LockInv, WaitInv, HeldInv, EndInv, FreeInv, Terminated, Topmost, Frame, LockFrame,
                Begun
  <1>4. JoinInv'
    BY <1>1 DEF LockInv, JoinInv, Ending, Settled, NoReturn, EndsThreads, Terminated, Frame
  <1>. QED BY <1>2, <1>3, <1>4 DEF LockInv

-----------------------------------------------------------------------------
(* What the games do that this module is about.                            *)

\* The calls of os_mutex.cpp and os_thread.cpp keep LockInv, with the queues and the fibers right.
THEOREM LocksInvariant ==
  ASSUME FewThreads
  PROVE  Spec => [](Orderly => Good /\ LockInv)
  <1>1. Init => (Orderly => Good /\ LockInv)
    BY InitGood, InitLocks
  <1>2. (Orderly => Good /\ LockInv) /\ [Next]_vars => (Orderly => Good /\ LockInv)'
    <2>. SUFFICES ASSUME Orderly => Good /\ LockInv, [Next]_vars, Orderly'
                  PROVE  Good' /\ LockInv'
      OBVIOUS
    <2>1. UNCHANGED game
      BY DEF Next, vars
    <2>2. Orderly /\ NoReturn
      BY <2>1 DEF Orderly, NoReturn, EndsThreads
    <2>3. Good'
      BY <2>2, StepGood, StutterGood
    <2>. QED BY <2>2, <2>3, StepLocks, StutterLocks
  <1>. QED BY <1>1, <1>2, PTL DEF Spec

\* OSMutex.thread, OSMutex.count and the list of a thread's mutexes tell one story through any
\* interleaving of OSLockMutex, OSUnlockMutex and the calls that end a thread; a mutex that is
\* free keeps no thread asleep; and a thread that has ended leaves no mutex owned.
THEOREM MutexesInOrder ==
  ASSUME FewThreads
  PROVE  Spec => [](Orderly => MutexDiscipline)
  <1>1. Good /\ LockInv => MutexDiscipline
    <2>. SUFFICES ASSUME Good, LockInv PROVE MutexDiscipline
      OBVIOUS
    <2>1. /\ \A m \in Mutex, t \in Thread : owner[m] = t <=> m \in Range(held[t])
          /\ \A t \in Thread : \A i, j \in DOMAIN held[t] : held[t][i] = held[t][j] => i = j
      BY DEF LockInv, HeldInv, Distinct
    <2>2. \A m \in Mutex : count[m] > 0 <=> owner[m] # None
      BY DEF Good, LifeInv
    <2>3. GuestCode => \A m \in Mutex : owner[m] = None => q[MutexQ(m)] = <<>>
      BY DEF LockInv, FreeInv, Topmost, GuestCode
    <2>4. ASSUME NEW t \in Thread, dead[t]
          PROVE  held[t] = <<>> \/ Pending(Frame("UnlockAll", t))
      <3>1. Terminated(t)
        BY <2>4 DEF Good, LifeInv
      <3>2. Topmost(Frame("UnlockAll", t)) => Pending(Frame("UnlockAll", t))
        <4>1. active \in Thread /\ stack[active] \in Seq(FrameType)
          BY DEF Good, TypeOK
        <4>. QED BY <4>1 DEF Topmost, Pending
      <3>. QED BY <3>1, <3>2 DEF LockInv, EndInv
    <2>. QED BY <2>1, <2>2, <2>3, <2>4 DEF MutexDiscipline
  <1>2. (Orderly => Good /\ LockInv) => (Orderly => MutexDiscipline)
    BY <1>1
  <1>. QED BY <1>2, LocksInvariant, PTL

\* OSJoinThread sleeps only on a thread that has not ended, and OSExitThread and OSCancelThread
\* go on to wake whoever joined: no joiner is left behind.
THEOREM JoinersWoken ==
  ASSUME FewThreads
  PROVE  Spec => [](Settled => JoinersWokenAtEnd)
  <1>1. Settled /\ Good /\ LockInv => JoinersWokenAtEnd
    <2>. SUFFICES ASSUME Settled, Good, LockInv, NEW t \in Thread, dead[t]
                  PROVE  q[JoinQ(t)] = <<>> \/ Pending(Frame("WakeupThread", JoinQ(t)))
      BY DEF JoinersWokenAtEnd
    <2>1. Terminated(t)
      BY DEF Good, LifeInv
    <2>2. q[JoinQ(t)] = <<>> \/ Ending(t)
      BY <2>1 DEF LockInv, JoinInv
    <2>3. active \in Thread
      BY DEF Good, TypeOK
    <2>. DEFINE f == Frame("WakeupThread", JoinQ(t))
                g == Frame("UnlockAll", t)
    <2>4. ASSUME NEW r \in Seq(FrameType), stack[active] = <<g>> \o (<<f>> \o r)
          PROVE  Pending(f)
      <3>1. 2 \in DOMAIN stack[active] /\ stack[active][2] = f
        BY <2>4
      <3>. QED BY <2>3, <3>1 DEF Pending
    <2>5. ASSUME NEW r \in Seq(FrameType), stack[active] = <<f>> \o r
          PROVE  Pending(f)
      <3>1. 1 \in DOMAIN stack[active] /\ stack[active][1] = f
        BY <2>5
      <3>. QED BY <2>3, <3>1 DEF Pending
    <2>. QED BY <2>2, <2>4, <2>5 DEF Ending
  <1>2. Settled => Orderly
    BY DEF Settled, Orderly
  <1>3. (Orderly => Good /\ LockInv) => (Settled => JoinersWokenAtEnd)
    BY <1>1, <1>2
  <1>. QED BY <1>3, LocksInvariant, PTL

\* A thread is in the run queue of its priority exactly when it is ready and not suspended, in
\* a wait queue exactly when it waits, and then in that of the mutex its OSThread.mutex names.
THEOREM StatesMatchQueues ==
  ASSUME FewThreads
  PROVE  Spec => [](Settled => QueuesMatchStates)
  <1>1. Settled /\ Good /\ LockInv => QueuesMatchStates
    <2>. SUFFICES ASSUME Settled, Good, LockInv, NEW t \in Thread
                  PROVE  /\ state[t] = "ready" /\ suspend[t] = 0 <=> Linked(t) = {RunQ(prio[t])}
                         /\ state[t] = "waiting" <=> Linked(t) \cap BlockQueues # {}
                         /\ state[t] = "waiting" /\ waitMutex[t] # None =>
                               Linked(t) = {MutexQ(waitMutex[t])}
      BY DEF QueuesMatchStates
    <2>1. /\ Home[t] # None <=> state[t] = "waiting" \/ (state[t] = "ready" /\ suspend[t] = 0)
          /\ state[t] = "waiting" => Home[t] = queue[t] /\ queue[t] \in BlockQueues
          /\ state[t] = "ready" /\ suspend[t] = 0 => Home[t] = RunQ(prio[t]) /\ prio[t] \in Priority
      BY HomeFacts DEF Good
    <2>2. Queues(q, pending, Home, prio)
      BY DEF Good, QueueInv
    <2>3. /\ RunQueues \subseteq Queue /\ BlockQueues \subseteq Queue /\ JoinQueues \subseteq BlockQueues
          /\ RunQueues \cap BlockQueues = {}
          /\ \A p : RunQ(p) \in Queue => RunQ(p) \in RunQueues
          /\ \A p \in Priority : RunQ(p) \in RunQueues
      BY Addresses
    <2>4. None \notin Queue
      BY QueueAssumption
    <2>5. state[t] = "waiting" => t \in Range(q[queue[t]])
      BY DEF LockInv, JoinInv
    <2>. HIDE DEF Home
    <2>6. \A x \in Queue : t \in Range(q[x]) => Home[t] = x
      BY <2>2 DEF Queues
    <2>7. Home[t] # None => Home[t] \in Queue /\ t \in Range(q[Home[t]])
      BY <2>1, <2>2, <2>3, <2>5 DEF Queues
    <2>8. Linked(t) = IF Home[t] = None THEN {} ELSE {Home[t]}
      BY <2>4, <2>6, <2>7 DEF Linked
    <2>9. Linked(t) \subseteq Queue
      BY DEF Linked
    <2>10. state[t] = "ready" /\ suspend[t] = 0 <=> Linked(t) = {RunQ(prio[t])}
      <3>1. ASSUME state[t] = "ready", suspend[t] = 0 PROVE Linked(t) = {RunQ(prio[t])}
        BY <2>1, <2>8, <3>1
      <3>2. ASSUME Linked(t) = {RunQ(prio[t])} PROVE state[t] = "ready" /\ suspend[t] = 0
        <4>1. Home[t] # None /\ Home[t] = RunQ(prio[t]) /\ RunQ(prio[t]) \in Queue
          BY <2>8, <2>9, <3>2
        <4>. QED BY <2>1, <2>3, <4>1
      <3>. QED BY <3>1, <3>2
    <2>11. state[t] = "waiting" <=> Linked(t) \cap BlockQueues # {}
      BY <2>1, <2>3, <2>8
    <2>12. state[t] = "waiting" /\ waitMutex[t] # None => Linked(t) = {MutexQ(waitMutex[t])}
      <3>1. state[t] = "waiting" /\ waitMutex[t] # None => queue[t] = MutexQ(waitMutex[t])
        BY DEF LockInv, WaitInv, Terminated
      <3>. QED BY <2>1, <2>8, <3>1
    <2>. QED BY <2>10, <2>11, <2>12
  <1>2. Settled => Orderly
    BY DEF Settled, Orderly
  <1>3. (Orderly => Good /\ LockInv) => (Settled => QueuesMatchStates)
    BY <1>1, <1>2
  <1>. QED BY <1>3, LocksInvariant, PTL
=============================================================================
